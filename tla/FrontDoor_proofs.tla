-------------------------- MODULE FrontDoor_proofs --------------------------
(***************************************************************************)
(* What TLAPS proves of FrontDoor, for every set of works, principals and  *)
(* requests, whatever the private services do and whenever they do it; and *)
(* of the access policy that guards their collections.                     *)
(***************************************************************************)
EXTENDS FrontDoor, TLAPS

(* The constants every proof below assumes, as one formula.                *)
LEMMA Constants == FrontDoorAssumption
  BY FrontDoorAssumed

-----------------------------------------------------------------------------
(* The inductive invariant. *)

UniqueRows == \A v, w \in works : v.work = w.work => v = w

RowsBy(r) == {v \in works : v.by = r}

Untouched(r) == hop[r] = "none" /\ cascade[r] = "none" /\ RowsBy(r) = {}

Known(r) == task[r].q \in Calls /\ AuthenticArtist(task[r].q)

(* Where a handler is says what it has found out and what it has done: up  *)
(* to its own effect, and in a refusal, nothing at all.                    *)
HandlerInv ==
  \A r \in Requests :
    /\ task[r].pc \in {"new", "look", "act", "403", "404", "422"} => Untouched(r)
    /\ task[r].pc \in {"look", "act", "await"} => Known(r)
    /\ task[r].pc = "act" /\ task[r].q.kind = "revoke" => Owns(task[r].q)
    /\ task[r].pc = "200" => cascade[r] = "all"
    /\ task[r].pc = "201" => NewRow(r) \in works

(* What a service was asked for was asked for by an owner, has not been    *)
(* done while the call is under way, and was done if the service says so.  *)
HopInv ==
  \A r \in Requests : hop[r] # "none" =>
    /\ Known(r)
    /\ task[r].q.kind = "revoke" => Owns(task[r].q)
    /\ hop[r] = "sent" => cascade[r] = "none" /\ RowsBy(r) = {}
    /\ hop[r] = "ok" => IF task[r].q.kind = "register"
                        THEN NewRow(r) \in works ELSE cascade[r] = "all"

IInv == TypeOK /\ UniqueRows /\ HandlerInv /\ HopInv

-----------------------------------------------------------------------------
(* What is written, and where a handler goes. *)

LEMMA ArtistTyped ==
  ASSUME NEW q \in Calls, AuthenticArtist(q)
  PROVE  Artist(q) \in Principals
<1>1. q.key \in Keys /\ credentials[q.key].bound # Nobody
  BY DEF AuthenticArtist, authenticate
<1>2. credentials[q.key] \in Credential
  BY <1>1, Constants DEF FrontDoorAssumption
<1> QED
  BY <1>1, <1>2 DEF Credential, Artist

LEMMA NewRowTyped ==
  ASSUME NEW r \in Requests, Known(r)
  PROVE  /\ NewRow(r) \in Row
         /\ NewRow(r).work = task[r].q.work
         /\ NewRow(r).artist = Artist(task[r].q)
         /\ NewRow(r).by = r
<1>1. task[r].q.work \in WorkIds
  BY Constants DEF Known, FrontDoorAssumption, Call
<1>2. Artist(task[r].q) \in Principals
  BY ArtistTyped DEF Known
<1>3. Tier(task[r].q) \in {"asserted", "verified_control"}
  BY DEF Tier
<1> QED
  BY <1>1, <1>2, <1>3 DEF NewRow, Row

Steps == {"new", "look", "act", "await"} \cup Answers

LEMMA GoesTo ==
  ASSUME task \in [Requests -> Task], NEW r \in Requests, NEW pc \in Steps, Goes(r, pc)
  PROVE  /\ task' \in [Requests -> Task]
         /\ task'[r].pc = pc
         /\ \A s \in Requests : task'[s].q = task[s].q
         /\ \A s \in Requests \ {r} : task'[s] = task[s]
  BY DEF Goes, Task, Steps

LEMMA ArriveTyped ==
  ASSUME task \in [Requests -> Task], NEW r \in Requests, NEW pc \in Steps,
         NEW q \in Calls \cup InternalCalls,
         task' = [task EXCEPT ![r] = [q |-> q, pc |-> pc]]
  PROVE  /\ task' \in [Requests -> Task]
         /\ task'[r].pc = pc /\ task'[r].q = q
         /\ \A s \in Requests \ {r} : task'[s] = task[s]
  BY DEF Task, Steps

-----------------------------------------------------------------------------
(* The steps. *)

LEMMA InvInit == Init => IInv
<1> SUFFICES ASSUME Init PROVE IInv
  OBVIOUS
<1> USE DEF Init
<1>1. works \subseteq Row /\ UniqueRows /\ \A r \in Requests : RowsBy(r) = {}
  BY Constants DEF FrontDoorAssumption, UniqueRows, RowsBy
<1>2. task \in [Requests -> Task]
  BY DEF Task, Answers
<1>3. TypeOK
  BY <1>1, <1>2 DEF TypeOK
<1>4. HandlerInv
  BY <1>1 DEF HandlerInv, Untouched
<1>5. HopInv
  BY DEF HopInv
<1> QED
  BY <1>1, <1>3, <1>4, <1>5 DEF IInv

LEMMA ArriveInv ==
  ASSUME IInv, NEW r \in Requests, Arrive(r)
  PROVE  IInv'
<1> USE DEF IInv
<1>1. PICK q \in Calls :
        task' = [task EXCEPT ![r] =
          [q |-> q, pc |-> IF ~AuthenticArtist(q) THEN "403"
                           ELSE IF q.kind = "register" /\ q.proof = "malformed" THEN "422"
                           ELSE "look"]]
  BY DEF Arrive
<1> DEFINE pc == IF ~AuthenticArtist(q) THEN "403"
                 ELSE IF q.kind = "register" /\ q.proof = "malformed" THEN "422"
                 ELSE "look"
<1>2. pc \in {"403", "422", "look"} /\ (pc = "look" => AuthenticArtist(q))
  OBVIOUS
<1> HIDE DEF pc
<1>3. /\ task' \in [Requests -> Task] /\ task'[r].pc = pc /\ task'[r].q = q
      /\ \A s \in Requests \ {r} : task'[s] = task[s]
  <2>1. task' = [task EXCEPT ![r] = [q |-> q, pc |-> pc]]
    BY <1>1 DEF pc
  <2> QED
    BY <1>2, <2>1, ArriveTyped DEF TypeOK, Steps, Answers
<1>4. task[r].pc = "new" /\ UNCHANGED <<split, works, cascade, hop>>
  BY DEF Arrive
<1>5. Untouched(r)
  BY <1>4 DEF HandlerInv
<1>6. TypeOK'
  BY <1>2, <1>3, <1>4, <1>5 DEF TypeOK, Untouched
<1>7. UniqueRows'
  BY <1>4 DEF UniqueRows
<1>8. HandlerInv'
  BY <1>2, <1>3, <1>4, <1>5 DEF HandlerInv, Untouched, RowsBy, Known, NewRow, Owns, Rows
<1>9. HopInv'
  BY <1>2, <1>3, <1>4, <1>5 DEF HopInv, Untouched, RowsBy, Known, NewRow, Owns, Rows
<1> QED
  BY <1>6, <1>7, <1>8, <1>9

(* A step that moves one handler on and touches nothing else.              *)
LEMMA MoveInv ==
  ASSUME IInv, NEW r \in Requests, NEW pc \in Steps, Goes(r, pc),
         UNCHANGED <<split, works, cascade, hop>>,
         pc \in {"new", "look", "act", "403", "404", "422"} => Untouched(r),
         pc \in {"look", "act", "await"} => Known(r),
         pc = "act" /\ task[r].q.kind = "revoke" => Owns(task[r].q),
         pc = "200" => cascade[r] = "all",
         pc = "201" => NewRow(r) \in works
  PROVE  IInv'
<1> USE DEF IInv
<1>1. /\ task' \in [Requests -> Task]
      /\ task'[r].pc = pc
      /\ \A s \in Requests : task'[s].q = task[s].q
      /\ \A s \in Requests \ {r} : task'[s] = task[s]
  BY GoesTo DEF TypeOK
<1>2. \A s \in Requests : /\ NewRow(s)' = NewRow(s)
                          /\ Known(s)' <=> Known(s)
                          /\ Owns(task[s].q)' <=> Owns(task[s].q)
                          /\ Untouched(s)' <=> Untouched(s)
                          /\ RowsBy(s)' = RowsBy(s)
  BY <1>1 DEF NewRow, Known, Owns, Rows, Untouched, RowsBy
<1>3. TypeOK'
  BY <1>1 DEF TypeOK, Untouched, Steps
<1>4. UniqueRows'
  BY DEF UniqueRows
<1>5. HandlerInv'
  BY <1>1, <1>2 DEF HandlerInv, Owns, Rows
<1>6. HopInv'
  BY <1>1, <1>2 DEF HopInv, Owns, Rows
<1> QED
  BY <1>3, <1>4, <1>5, <1>6

LEMMA LookInv ==
  ASSUME IInv, NEW r \in Requests, Look(r)
  PROVE  IInv'
<1> USE DEF IInv
<1>1. Untouched(r) /\ Known(r)
  BY DEF Look, HandlerInv
<1>2. UNCHANGED <<split, works, cascade, hop>>
  BY DEF Look
<1>3. CASE Goes(r, "403")
  BY <1>1, <1>2, <1>3, MoveInv DEF Steps, Answers
<1>4. CASE task[r].q.kind = "register" /\ Goes(r, "act")
  BY <1>1, <1>2, <1>4, MoveInv DEF Steps
<1>5. CASE Owns(task[r].q) /\ Goes(r, "act")
  BY <1>1, <1>2, <1>5, MoveInv DEF Steps
<1> QED
  BY <1>3, <1>4, <1>5 DEF Look

LEMMA ReceiveInv ==
  ASSUME IInv, NEW r \in Requests, Receive(r)
  PROVE  IInv'
<1> USE DEF IInv
<1>1. task[r].pc = "await" /\ hop[r] # "sent" /\ UNCHANGED <<split, works, cascade, hop>>
  BY DEF Receive
<1>2. task[r].q.kind \in {"register", "revoke"}
  BY <1>1, Constants DEF HandlerInv, Known, FrontDoorAssumption, Call
<1>3. CASE task[r].q.kind = "register" /\ hop[r] = "ok"
  <2>1. Goes(r, "201")
    BY <1>3 DEF Receive
  <2>2. NewRow(r) \in works
    BY <1>3 DEF HopInv
  <2> QED
    BY <1>1, <2>1, <2>2, MoveInv DEF Steps, Answers
<1>4. CASE task[r].q.kind = "register" /\ hop[r] # "ok"
  <2>1. Goes(r, "500")
    BY <1>4 DEF Receive
  <2> QED
    BY <1>1, <2>1, MoveInv DEF Steps, Answers
<1>5. CASE task[r].q.kind = "revoke" /\ hop[r] = "ok"
  <2>1. Goes(r, "200")
    BY <1>5 DEF Receive
  <2>2. cascade[r] = "all"
    BY <1>5 DEF HopInv
  <2> QED
    BY <1>1, <2>1, <2>2, MoveInv DEF Steps, Answers
<1>6. CASE task[r].q.kind = "revoke" /\ hop[r] # "ok"
  <2>1. Goes(r, "503")
    BY <1>6 DEF Receive
  <2> QED
    BY <1>1, <2>1, MoveInv DEF Steps, Answers
<1> QED
  BY <1>2, <1>3, <1>4, <1>5, <1>6

LEMMA GiveUpInv ==
  ASSUME IInv, NEW r \in Requests, GiveUp(r)
  PROVE  IInv'
<1>1. UNCHANGED <<split, works, cascade, hop>>
  BY DEF GiveUp
<1>2. Goes(r, "500") \/ Goes(r, "503")
  BY DEF GiveUp
<1> QED
  BY <1>1, <1>2, MoveInv DEF Steps, Answers

LEMMA SendInv ==
  ASSUME IInv, NEW r \in Requests, Send(r)
  PROVE  IInv'
<1> USE DEF IInv
<1>1. /\ task[r].pc = "act" /\ split /\ Goes(r, "await")
      /\ hop' = [hop EXCEPT ![r] = "sent"] /\ UNCHANGED <<split, works, cascade>>
  BY DEF Send
<1>2. /\ task' \in [Requests -> Task]
      /\ task'[r].pc = "await"
      /\ \A s \in Requests : task'[s].q = task[s].q
      /\ \A s \in Requests \ {r} : task'[s] = task[s]
  BY <1>1, GoesTo DEF TypeOK, Steps
<1>3. Untouched(r) /\ Known(r) /\ (task[r].q.kind = "revoke" => Owns(task[r].q))
  BY <1>1 DEF HandlerInv
<1>4. \A s \in Requests : /\ NewRow(s)' = NewRow(s)
                          /\ Known(s)' <=> Known(s)
                          /\ Owns(task[s].q)' <=> Owns(task[s].q)
                          /\ RowsBy(s)' = RowsBy(s)
                          /\ (s # r => hop'[s] = hop[s])
  BY <1>1, <1>2 DEF NewRow, Known, Owns, Rows, RowsBy, TypeOK
<1>5. TypeOK'
  BY <1>1, <1>2 DEF TypeOK
<1>6. UniqueRows'
  BY <1>1 DEF UniqueRows
<1>7. HandlerInv'
  BY <1>1, <1>2, <1>3, <1>4 DEF HandlerInv, Untouched, Owns, Rows
<1>8. HopInv'
  BY <1>1, <1>2, <1>3, <1>4 DEF HopInv, Untouched, Owns, Rows, TypeOK
<1> QED
  BY <1>5, <1>6, <1>7, <1>8

(* Creating the row of a work nobody holds disturbs nobody else.           *)
LEMMA RowAdded ==
  ASSUME works \subseteq Row, UniqueRows, NEW r \in Requests, Known(r),
         Rows(task[r].q.work) = {}, works' = works \cup {NewRow(r)},
         \A s \in Requests : task'[s].q = task[s].q
  PROVE  /\ works' \subseteq Row /\ UniqueRows' /\ NewRow(r)' \in works'
         /\ \A s \in Requests : /\ NewRow(s)' = NewRow(s)
                                /\ Known(s)' <=> Known(s)
                                /\ Owns(task[s].q) => Owns(task[s].q)'
                                /\ s # r => RowsBy(s)' = RowsBy(s)
<1>1. NewRow(r) \in Row /\ NewRow(r).work = task[r].q.work /\ NewRow(r).by = r
  BY NewRowTyped
<1>2. \A s \in Requests : NewRow(s)' = NewRow(s) /\ (Known(s)' <=> Known(s))
  BY DEF NewRow, Known
<1>3. UniqueRows'
  BY <1>1 DEF UniqueRows, Rows
<1>4. \A s \in Requests : Owns(task[s].q) => Owns(task[s].q)'
  BY DEF Owns, Rows
<1>5. \A s \in Requests : s # r => RowsBy(s)' = RowsBy(s)
  BY <1>1 DEF RowsBy
<1> QED
  BY <1>1, <1>2, <1>3, <1>4, <1>5

LEMMA CreateHereInv ==
  ASSUME IInv, NEW r \in Requests, CreateHere(r)
  PROVE  IInv'
<1> USE DEF IInv
<1>1. /\ task[r].pc = "act" /\ ~split /\ task[r].q.kind = "register"
      /\ UNCHANGED <<split, cascade, hop>>
  BY DEF CreateHere
<1>2. Untouched(r) /\ Known(r)
  BY <1>1 DEF HandlerInv
<1>3. CASE Rows(task[r].q.work) # {}
  <2>1. Goes(r, "403") /\ UNCHANGED works
    BY <1>3 DEF CreateHere
  <2> QED
    BY <1>1, <1>2, <2>1, MoveInv DEF Steps, Answers
<1>4. CASE Rows(task[r].q.work) = {}
  <2>1. works' = works \cup {NewRow(r)} /\ Goes(r, "201")
    BY <1>4 DEF CreateHere
  <2>2. /\ task' \in [Requests -> Task]
        /\ task'[r].pc = "201"
        /\ \A s \in Requests : task'[s].q = task[s].q
        /\ \A s \in Requests \ {r} : task'[s] = task[s]
    BY <2>1, GoesTo DEF TypeOK, Steps, Answers
  <2>3. /\ works' \subseteq Row /\ UniqueRows' /\ NewRow(r)' \in works'
        /\ \A s \in Requests : /\ NewRow(s)' = NewRow(s)
                               /\ Known(s)' <=> Known(s)
                               /\ Owns(task[s].q) => Owns(task[s].q)'
                               /\ s # r => RowsBy(s)' = RowsBy(s)
    BY <1>2, <1>4, <2>1, <2>2, RowAdded DEF TypeOK
  <2>4. TypeOK'
    BY <1>1, <1>2, <2>2, <2>3 DEF TypeOK, Untouched
  <2>5. HandlerInv'
    BY <1>1, <1>2, <2>1, <2>2, <2>3 DEF HandlerInv, Untouched
  <2>6. HopInv'
    BY <1>1, <1>2, <2>1, <2>2, <2>3 DEF HopInv, Untouched
  <2> QED
    BY <2>3, <2>4, <2>5, <2>6
<1> QED
  BY <1>3, <1>4

LEMMA RevokeHereInv ==
  ASSUME IInv, NEW r \in Requests, RevokeHere(r)
  PROVE  IInv'
<1> USE DEF IInv
<1>1. task[r].pc = "act" /\ ~split /\ UNCHANGED <<split, works, hop>>
  BY DEF RevokeHere
<1>2. PICK c \in {"none", "some", "all"}, pc \in {"200", "500"} :
        /\ cascade' = [cascade EXCEPT ![r] = c] /\ Goes(r, pc)
        /\ pc = "200" => c = "all"
  BY DEF RevokeHere
<1>3. /\ task' \in [Requests -> Task]
      /\ task'[r].pc = pc
      /\ \A s \in Requests : task'[s].q = task[s].q
      /\ \A s \in Requests \ {r} : task'[s] = task[s]
  BY <1>2, GoesTo DEF TypeOK, Steps, Answers
<1>4. Untouched(r) /\ cascade'[r] = c
  BY <1>1, <1>2 DEF HandlerInv, TypeOK
<1>5. \A s \in Requests : /\ NewRow(s)' = NewRow(s)
                          /\ Known(s)' <=> Known(s)
                          /\ Owns(task[s].q)' <=> Owns(task[s].q)
                          /\ RowsBy(s)' = RowsBy(s)
                          /\ (s # r => cascade'[s] = cascade[s])
  BY <1>1, <1>2, <1>3 DEF NewRow, Known, Owns, Rows, RowsBy, TypeOK
<1>6. TypeOK'
  BY <1>1, <1>2, <1>3, <1>4 DEF TypeOK, Untouched
<1>7. UniqueRows'
  BY <1>1 DEF UniqueRows
<1>8. HandlerInv'
  BY <1>1, <1>2, <1>3, <1>4, <1>5 DEF HandlerInv, Untouched, Owns, Rows
<1>9. HopInv'
  BY <1>1, <1>2, <1>3, <1>4, <1>5 DEF HopInv, Untouched, Owns, Rows
<1> QED
  BY <1>6, <1>7, <1>8, <1>9

LEMMA CustodianCreateInv ==
  ASSUME IInv, NEW r \in Requests, CustodianCreate(r)
  PROVE  IInv'
<1> USE DEF IInv
<1>1. /\ hop[r] = "sent" /\ task[r].q.kind = "register"
      /\ UNCHANGED <<split, cascade, task>>
  BY DEF CustodianCreate
<1>2. Known(r) /\ split /\ task[r].pc \notin {"new", "look", "act"} /\ ~Untouched(r)
  BY <1>1 DEF HopInv, TypeOK, Untouched
<1>3. CASE Rows(task[r].q.work) # {}
  <2>1. hop' = [hop EXCEPT ![r] = "failed"] /\ UNCHANGED works
    BY <1>3 DEF CustodianCreate
  <2>2. \A s \in Requests : /\ NewRow(s)' = NewRow(s)
                            /\ Known(s)' <=> Known(s)
                            /\ Owns(task[s].q)' <=> Owns(task[s].q)
                            /\ RowsBy(s)' = RowsBy(s)
                            /\ (s # r => hop'[s] = hop[s])
    BY <1>1, <2>1 DEF NewRow, Known, Owns, Rows, RowsBy, TypeOK
  <2>3. TypeOK'
    BY <1>1, <1>2, <2>1 DEF TypeOK
  <2>4. UniqueRows'
    BY <2>1 DEF UniqueRows
  <2>5. HandlerInv'
    BY <1>1, <1>2, <2>1, <2>2 DEF HandlerInv, Untouched, TypeOK
  <2>6. HopInv'
    BY <1>1, <1>2, <2>1, <2>2 DEF HopInv, TypeOK
  <2> QED
    BY <2>3, <2>4, <2>5, <2>6
<1>4. CASE Rows(task[r].q.work) = {}
  <2>1. works' = works \cup {NewRow(r)} /\ hop' = [hop EXCEPT ![r] = "ok"]
    BY <1>4 DEF CustodianCreate
  <2>2. /\ works' \subseteq Row /\ UniqueRows' /\ NewRow(r)' \in works'
        /\ \A s \in Requests : /\ NewRow(s)' = NewRow(s)
                               /\ Known(s)' <=> Known(s)
                               /\ Owns(task[s].q) => Owns(task[s].q)'
                               /\ s # r => RowsBy(s)' = RowsBy(s)
    BY <1>1, <1>2, <1>4, <2>1, RowAdded DEF TypeOK
  <2>3. TypeOK'
    BY <1>1, <1>2, <2>1, <2>2 DEF TypeOK
  <2>4. \A s \in Requests \ {r} : hop'[s] = hop[s]
    BY <2>1 DEF TypeOK
  <2>5. HandlerInv'
    BY <1>1, <1>2, <2>1, <2>2, <2>4 DEF HandlerInv, Untouched
  <2>6. HopInv'
    BY <1>1, <1>2, <2>1, <2>2, <2>4 DEF HopInv, TypeOK
  <2> QED
    BY <2>2, <2>3, <2>5, <2>6
<1> QED
  BY <1>3, <1>4

LEMMA WorkerExecuteInv ==
  ASSUME IInv, NEW r \in Requests, WorkerExecute(r)
  PROVE  IInv'
<1> USE DEF IInv
<1>1. /\ hop[r] = "sent" /\ task[r].q.kind = "revoke"
      /\ UNCHANGED <<split, works, task>>
  BY DEF WorkerExecute
<1>2. /\ Known(r) /\ split /\ task[r].pc \notin {"new", "look", "act"} /\ ~Untouched(r)
      /\ task[r].pc # "200"
  BY <1>1 DEF HopInv, TypeOK, Untouched, HandlerInv
<1>3. PICK c \in {"some", "all"}, h \in {"ok", "failed"} :
        /\ cascade' = [cascade EXCEPT ![r] = c] /\ hop' = [hop EXCEPT ![r] = h]
        /\ h = "ok" => c = "all"
  BY DEF WorkerExecute
<1>4. \A s \in Requests : /\ NewRow(s)' = NewRow(s)
                          /\ Known(s)' <=> Known(s)
                          /\ Owns(task[s].q)' <=> Owns(task[s].q)
                          /\ RowsBy(s)' = RowsBy(s)
                          /\ (s # r => hop'[s] = hop[s] /\ cascade'[s] = cascade[s])
  BY <1>1, <1>3 DEF NewRow, Known, Owns, Rows, RowsBy, TypeOK
<1>5. hop'[r] = h /\ cascade'[r] = c
  BY <1>3 DEF TypeOK
<1>6. TypeOK'
  BY <1>1, <1>2, <1>3 DEF TypeOK
<1>7. UniqueRows'
  BY <1>1 DEF UniqueRows
<1>8. HandlerInv'
  BY <1>1, <1>2, <1>4 DEF HandlerInv, Untouched
<1>9. HopInv'
  BY <1>1, <1>2, <1>3, <1>4, <1>5 DEF HopInv
<1> QED
  BY <1>6, <1>7, <1>8, <1>9

LEMMA HopFailsInv ==
  ASSUME IInv, NEW r \in Requests, HopFails(r)
  PROVE  IInv'
<1> USE DEF IInv
<1>1. hop[r] = "sent" /\ UNCHANGED <<split, works, cascade, task>>
  BY DEF HopFails
<1>2. PICK h \in {"failed", "unattested"} : hop' = [hop EXCEPT ![r] = h]
  BY DEF HopFails
<1>3. Known(r) /\ split /\ task[r].pc \notin {"new", "look", "act"} /\ ~Untouched(r)
  BY <1>1 DEF HopInv, TypeOK, Untouched
<1>4. \A s \in Requests : /\ NewRow(s)' = NewRow(s)
                          /\ Known(s)' <=> Known(s)
                          /\ Owns(task[s].q)' <=> Owns(task[s].q)
                          /\ RowsBy(s)' = RowsBy(s)
                          /\ (s # r => hop'[s] = hop[s])
  BY <1>1, <1>2 DEF NewRow, Known, Owns, Rows, RowsBy, TypeOK
<1>5. hop'[r] = h
  BY <1>2 DEF TypeOK
<1>6. TypeOK'
  BY <1>1, <1>2, <1>3 DEF TypeOK
<1>7. UniqueRows'
  BY <1>1 DEF UniqueRows
<1>8. HandlerInv'
  BY <1>1, <1>3, <1>4 DEF HandlerInv, Untouched
<1>9. HopInv'
  BY <1>1, <1>4, <1>5 DEF HopInv
<1> QED
  BY <1>6, <1>7, <1>8, <1>9

(* A token of one's own is accepted nowhere.                               *)
LEMMA StrayRefused ==
  ASSUME NEW c \in InternalCalls
  PROVE  ~Accepts(c)
  BY Constants DEF FrontDoorAssumption, Accepts, verify_front_door_oidc

LEMMA InternalRouteInv ==
  ASSUME IInv, NEW r \in Requests, InternalRoute(r)
  PROVE  IInv'
<1> USE DEF IInv
<1>1. task[r].pc = "new" /\ UNCHANGED <<split, works, hop>>
  BY DEF InternalRoute
<1>2. PICK c \in InternalCalls, pc \in {"403", "404"} :
        /\ cascade' = [cascade EXCEPT ![r] = "none"]
        /\ task' = [task EXCEPT ![r] = [q |-> c, pc |-> pc]]
  BY StrayRefused DEF InternalRoute
<1>3. /\ task' \in [Requests -> Task] /\ task'[r].pc = pc /\ task'[r].q = c
      /\ \A s \in Requests \ {r} : task'[s] = task[s]
  BY <1>2, ArriveTyped DEF TypeOK, Steps, Answers
<1>4. Untouched(r)
  BY <1>1 DEF HandlerInv
<1>5. cascade' = cascade
  BY <1>2, <1>4 DEF Untouched, TypeOK
<1>6. TypeOK'
  BY <1>1, <1>3, <1>4, <1>5 DEF TypeOK, Untouched
<1>7. UniqueRows'
  BY <1>1 DEF UniqueRows
<1>8. HandlerInv'
  BY <1>1, <1>3, <1>4, <1>5 DEF HandlerInv, Untouched, RowsBy, Known, NewRow, Owns, Rows
<1>9. HopInv'
  BY <1>1, <1>3, <1>4, <1>5 DEF HopInv, Untouched, RowsBy, Known, NewRow, Owns, Rows
<1> QED
  BY <1>6, <1>7, <1>8, <1>9

LEMMA InvStep == IInv /\ [Next]_vars => IInv'
<1> SUFFICES ASSUME IInv, [Next]_vars PROVE IInv'
  OBVIOUS
<1>1. CASE UNCHANGED vars
  BY <1>1 DEF vars, IInv, TypeOK, UniqueRows, HandlerInv, HopInv, Untouched, RowsBy,
              Known, NewRow, Owns, Rows
<1>2. ASSUME NEW r \in Requests, Serve(r) PROVE IInv'
  BY <1>2, LookInv, SendInv, CreateHereInv, RevokeHereInv, ReceiveInv, GiveUpInv DEF Serve
<1> QED
  BY <1>1, <1>2, ArriveInv, InternalRouteInv, CustodianCreateInv, WorkerExecuteInv,
     HopFailsInv DEF Next

-----------------------------------------------------------------------------
(* The invariants. *)

LEMMA SafeSteps == Spec => Init /\ [][Next]_vars
  BY PTL DEF Spec

LEMMA Invariance == Spec => []IInv
<1>1. IInv /\ [Next]_vars => IInv'
  BY InvStep
<1> QED
  BY InvInit, <1>1, SafeSteps, PTL

(* The variables keep their types, and a call to a private service is only *)
(* made by a deployment that has services, for a request it accepted.      *)
THEOREM FrontDoorTypes == Spec => []TypeOK
<1>1. IInv => TypeOK
  BY DEF IInv
<1> QED
  BY <1>1, Invariance, PTL

(* A confirmed registration stands, for every set of requests: one row per *)
(* work (create refuses an id that exists), and the answer 201 only after  *)
(* the row is the caller's (HandlerInv, and HopInv for the service's word).*)
THEOREM RegistrationsStand == Spec => []RegisteredAnswerStands
<1>1. IInv => RegisteredAnswerStands
  <2> SUFFICES ASSUME IInv, NEW r \in Requests, task[r].pc = "201"
               PROVE  /\ Rows(task[r].q.work) = {NewRow(r)}
                      /\ NewRow(r).tier = "verified_control" => task[r].q.proof = "signed"
    BY DEF RegisteredAnswerStands
  <2>1. NewRow(r) \in works /\ UniqueRows
    BY DEF IInv, HandlerInv
  <2>2. NewRow(r).work = task[r].q.work /\ NewRow(r).tier = Tier(task[r].q)
    BY DEF NewRow
  <2>3. Rows(task[r].q.work) = {NewRow(r)}
    BY <2>1, <2>2 DEF Rows, UniqueRows
  <2>4. NewRow(r).tier = "verified_control" => task[r].q.proof = "signed"
    BY <2>2 DEF Tier, substantiate
  <2> QED
    BY <2>3, <2>4
<1> QED
  BY <1>1, Invariance, PTL

(* An answer is true when it is given and ever after: a 200 to a           *)
(* revocation means the whole cascade ran, and a refusal that nothing was  *)
(* done nor will be, since no service was asked.                           *)
THEOREM AnswersStayTrue == Spec => []AnswersAreTrue
<1>1. IInv => AnswersAreTrue
  BY DEF IInv, HandlerInv, Untouched, RowsBy, AnswersAreTrue
<1> QED
  BY <1>1, Invariance, PTL

-----------------------------------------------------------------------------
(* The refinement of OwnershipPromise. *)

LEMMA HolderIs ==
  ASSUME UniqueRows, NEW v \in works, v.work \in WorkIds
  PROVE  holder[v.work] = v.artist
<1>1. Rows(v.work) = {v}
  BY DEF UniqueRows, Rows
<1>2. (CHOOSE u \in Rows(v.work) : TRUE) = v
  BY <1>1
<1> QED
  BY <1>1, <1>2 DEF holder

LEMMA HolderFree ==
  ASSUME NEW w \in WorkIds, Rows(w) = {}
  PROVE  holder[w] = Nobody
  BY DEF holder

LEMMA HolderTyped ==
  ASSUME UniqueRows, works \subseteq Row
  PROVE  holder \in [WorkIds -> Principals \cup {Nobody}]
<1>1. ASSUME NEW w \in WorkIds PROVE holder[w] \in Principals \cup {Nobody}
  <2>1. CASE Rows(w) = {}
    BY <2>1, HolderFree
  <2>2. CASE Rows(w) # {}
    <3>1. PICK v \in works : v.work = w
      BY <2>2 DEF Rows
    <3>2. v.artist \in Principals
      BY DEF Row
    <3> QED
      BY <3>1, <3>2, HolderIs
  <2> QED
    BY <2>1, <2>2
<1> QED
  BY <1>1 DEF holder

LEMMA PromiseInit == Init => Promise!Init
<1> SUFFICES ASSUME Init PROVE Promise!Init
  OBVIOUS
<1>1. UniqueRows /\ works \subseteq Row
  BY InvInit DEF IInv, TypeOK
<1>2. revoked = {}
  BY DEF Init, revoked
<1> QED
  BY <1>1, <1>2, HolderTyped DEF Promise!Init

(* What the promise sees is a function of the registry and of the requests *)
(* whose cascade has taken effect.                                         *)
LEMMA PromiseStutters ==
  ASSUME UNCHANGED <<works, cascade>>,
         \A s \in Requests : cascade[s] # "none" => task'[s].q = task[s].q
  PROVE  UNCHANGED <<holder, revoked>>
<1>1. holder' = holder
  BY DEF holder, Rows
<1>2. \A s \in Requests : cascade[s] # "none" =>
        <<Asker(s), task[s].q.work>>' = <<Asker(s), task[s].q.work>>
  BY DEF Asker
<1>3. revoked' = revoked
  BY <1>2 DEF revoked
<1> QED
  BY <1>1, <1>3

(* The row that is created registers a free work to the caller.            *)
LEMMA CreatePromises ==
  ASSUME IInv, IInv', NEW r \in Requests, Known(r), Rows(task[r].q.work) = {},
         works' = works \cup {NewRow(r)}, UNCHANGED cascade,
         \A s \in Requests : task'[s].q = task[s].q
  PROVE  Promise!Next
<1> DEFINE w == task[r].q.work
           a == Artist(task[r].q)
<1>1. NewRow(r).work = w /\ NewRow(r).artist = a /\ NewRow(r) \in Row
  BY NewRowTyped
<1>2. w \in WorkIds /\ a \in Principals
  BY <1>1 DEF Row
<1>3. holder[w] = Nobody
  BY <1>2, HolderFree
<1>4. \A u \in WorkIds : u # w => Rows(u)' = Rows(u)
  BY <1>1 DEF Rows
<1>5. Rows(w)' = {NewRow(r)}
  BY <1>1 DEF Rows
<1>6. holder' = [holder EXCEPT ![w] = a]
  <2>1. (CHOOSE v \in {NewRow(r)} : TRUE).artist = a
    BY <1>1
  <2>2. holder'[w] = a
    BY <1>2, <1>5, <2>1 DEF holder
  <2>3. ASSUME NEW u \in WorkIds, u # w PROVE holder'[u] = holder[u]
    <3> DEFINE Of(S) == IF S = {} THEN Nobody ELSE (CHOOSE v \in S : TRUE).artist
    <3>1. holder[u] = Of({v \in works : v.work = u})
      BY DEF holder, Rows
    <3>2. holder'[u] = Of({v \in works' : v.work = u})
      BY DEF holder, Rows
    <3>3. {v \in works' : v.work = u} = {v \in works : v.work = u}
      BY <1>4, <2>3 DEF Rows
    <3> HIDE DEF Of
    <3> QED
      BY <3>1, <3>2, <3>3
  <2> QED
    BY <2>2, <2>3 DEF holder
<1>7. revoked' = revoked
  BY DEF revoked, Asker
<1>8. Promise!Register(w, a)
  BY <1>3, <1>6, <1>7 DEF Promise!Register
<1> QED
  BY <1>2, <1>8 DEF Promise!Next

(* A cascade that takes effect revokes for the holder of the work.         *)
LEMMA RevokePromises ==
  ASSUME IInv, NEW r \in Requests, NEW c \in {"none", "some", "all"},
         Known(r), Owns(task[r].q), cascade[r] = "none",
         cascade' = [cascade EXCEPT ![r] = c], UNCHANGED works,
         \A s \in Requests : task'[s].q = task[s].q
  PROVE  [Promise!Next]_<<holder, revoked>>
<1> DEFINE w == task[r].q.work
           a == Artist(task[r].q)
<1>1. holder' = holder
  BY DEF holder, Rows
<1>2. \A s \in Requests : <<Asker(s), task[s].q.work>>' = <<Asker(s), task[s].q.work>>
  BY DEF Asker
<1>3. CASE c = "none"
  <2>1. cascade' = cascade
    BY <1>3 DEF IInv, TypeOK
  <2> QED
    BY <2>1, PromiseStutters
<1>4. CASE c # "none"
  <2>1. w \in WorkIds /\ a \in Principals
    BY ArtistTyped, Constants DEF Known, FrontDoorAssumption, Call
  <2>2. PICK v \in works : v.work = w /\ v.artist = a
    BY DEF Owns, Rows
  <2>3. holder[w] = a
    BY <2>1, <2>2, HolderIs DEF IInv
  <2>4. Asker(r) = a
    BY DEF Known, Asker
  <2>5. {s \in Requests : cascade'[s] # "none"} = {s \in Requests : cascade[s] # "none"} \cup {r}
    BY <1>4 DEF IInv, TypeOK
  <2>6. revoked' = revoked \cup {<<a, w>>}
    BY <1>2, <2>4, <2>5 DEF revoked
  <2>7. Promise!Revoke(w, a)
    BY <1>1, <2>3, <2>6 DEF Promise!Revoke
  <2> QED
    BY <2>1, <2>7 DEF Promise!Next
<1> QED
  BY <1>3, <1>4

LEMMA StepPromises ==
  IInv /\ [Next]_vars => [Promise!Next]_<<holder, revoked>>
<1> SUFFICES ASSUME IInv, [Next]_vars PROVE [Promise!Next]_<<holder, revoked>>
  OBVIOUS
<1>0. IInv'
  BY InvStep
<1>1. CASE UNCHANGED vars
  BY <1>1, PromiseStutters DEF vars
<1>2. ASSUME NEW r \in Requests, NEW pc, Goes(r, pc)
      PROVE  \A s \in Requests : task'[s].q = task[s].q
  BY <1>2 DEF Goes, IInv, TypeOK, Task
<1>3. ASSUME NEW r \in Requests, Arrive(r) \/ InternalRoute(r)
      PROVE  [Promise!Next]_<<holder, revoked>>
  <2>1. task[r].pc = "new" /\ works' = works
    BY <1>3 DEF Arrive, InternalRoute
  <2>2. cascade[r] = "none"
    BY <2>1 DEF IInv, HandlerInv, Untouched
  <2>3. cascade' = cascade
    BY <1>3, <2>2, StrayRefused DEF Arrive, InternalRoute, IInv, TypeOK
  <2>4. \A s \in Requests \ {r} : task'[s] = task[s]
    BY <1>3 DEF Arrive, InternalRoute, IInv, TypeOK
  <2> QED
    BY <2>1, <2>2, <2>3, <2>4, PromiseStutters
<1>4. ASSUME NEW r \in Requests, Look(r) \/ Send(r) \/ Receive(r) \/ GiveUp(r) \/ HopFails(r)
      PROVE  [Promise!Next]_<<holder, revoked>>
  <2>1. UNCHANGED <<works, cascade>>
    BY <1>4 DEF Look, Send, Receive, GiveUp, HopFails
  <2>2. task' = task \/ \E pc : Goes(r, pc)
    BY <1>4 DEF Look, Send, Receive, GiveUp, HopFails
  <2> QED
    BY <1>2, <2>1, <2>2, PromiseStutters
<1>5. ASSUME NEW r \in Requests, CreateHere(r) PROVE [Promise!Next]_<<holder, revoked>>
  <2>1. Known(r) /\ UNCHANGED cascade /\ \A s \in Requests : task'[s].q = task[s].q
    BY <1>2, <1>5 DEF CreateHere, IInv, HandlerInv
  <2>2. CASE Rows(task[r].q.work) = {}
    BY <1>0, <1>5, <2>1, <2>2, CreatePromises DEF CreateHere
  <2>3. CASE Rows(task[r].q.work) # {}
    BY <1>5, <2>1, <2>3, PromiseStutters DEF CreateHere
  <2> QED
    BY <2>2, <2>3
<1>6. ASSUME NEW r \in Requests, CustodianCreate(r) PROVE [Promise!Next]_<<holder, revoked>>
  <2>1. Known(r) /\ UNCHANGED <<cascade, task>>
    BY <1>6 DEF CustodianCreate, IInv, HopInv
  <2>2. CASE Rows(task[r].q.work) = {}
    BY <1>0, <1>6, <2>1, <2>2, CreatePromises DEF CustodianCreate
  <2>3. CASE Rows(task[r].q.work) # {}
    BY <1>6, <2>1, <2>3, PromiseStutters DEF CustodianCreate
  <2> QED
    BY <2>2, <2>3
<1>7. ASSUME NEW r \in Requests, RevokeHere(r) PROVE [Promise!Next]_<<holder, revoked>>
  <2>1. /\ task[r].pc = "act" /\ task[r].q.kind = "revoke" /\ UNCHANGED works
        /\ \A s \in Requests : task'[s].q = task[s].q
    BY <1>2, <1>7 DEF RevokeHere
  <2>2. Known(r) /\ Owns(task[r].q) /\ cascade[r] = "none"
    BY <2>1 DEF IInv, HandlerInv, Untouched
  <2>3. PICK c \in {"none", "some", "all"} : cascade' = [cascade EXCEPT ![r] = c]
    BY <1>7 DEF RevokeHere
  <2> QED
    BY <2>1, <2>2, <2>3, RevokePromises
<1>8. ASSUME NEW r \in Requests, WorkerExecute(r) PROVE [Promise!Next]_<<holder, revoked>>
  <2>1. hop[r] = "sent" /\ task[r].q.kind = "revoke" /\ UNCHANGED <<works, task>>
    BY <1>8 DEF WorkerExecute
  <2>2. Known(r) /\ Owns(task[r].q) /\ cascade[r] = "none"
    BY <2>1 DEF IInv, HopInv
  <2>3. PICK c \in {"none", "some", "all"} : cascade' = [cascade EXCEPT ![r] = c]
    BY <1>8 DEF WorkerExecute
  <2> QED
    BY <2>1, <2>2, <2>3, RevokePromises
<1> QED
  BY <1>1, <1>3, <1>4, <1>5, <1>6, <1>7, <1>8 DEF Next, Serve

(* Whatever is lost, late or given up on the way, a work is registered     *)
(* once and for good, and a cascade takes effect only for the artist who   *)
(* holds the work when it does, though ownership was looked up by another  *)
(* service earlier (_verify_work_ownership_or_403, domain_write).          *)
THEOREM OwnershipKept == Spec => ImplementsOwnership
<1>1. IInv /\ [Next]_vars => [Promise!Next]_<<holder, revoked>>
  BY StepPromises
<1> QED
  BY PromiseInit, <1>1, Invariance, SafeSteps, PTL DEF ImplementsOwnership, Promise!Spec

-----------------------------------------------------------------------------
(* What the access policy separates, for every role and every collection.  *)

(* A permission says which conflict domain the collection belongs to.      *)
LEMMA PermissionNamesDomain ==
  ASSUME NEW role, NEW c, get_action_permission(role, c)
  PROVE  /\ role = "rights_custodian"      => c \in IdentityData
         /\ role = "licensing_negotiator"  => c \in BuyerData \cup {"grants"}
         /\ role = "evidence_agent"        => c \in EvidenceData
         /\ role = "revocation_propagator" => c \in RevocationData \cup {"grants"}
         /\ role = "consent_arbiter"       => c \in CaseData
         /\ role = "sandbox_agent"         => c \in DemoData
  BY DEF get_action_permission, Roles, permitted_collections

(* The conflict domains have nothing in common.                            *)
LEMMA DomainsDisjoint ==
  /\ IdentityData \cap (BuyerData \cup EvidenceData \cup RevocationData
                          \cup CaseData \cup DemoData \cup {"grants"}) = {}
  /\ BuyerData \cap (EvidenceData \cup RevocationData \cup CaseData
                       \cup DemoData \cup {"grants"}) = {}
  /\ EvidenceData \cap (RevocationData \cup CaseData \cup DemoData \cup {"grants"}) = {}
  /\ RevocationData \cap (CaseData \cup DemoData \cup {"grants"}) = {}
  /\ CaseData \cap (DemoData \cup {"grants"}) = {}
  /\ "grants" \notin DemoData
  BY DEF IdentityData, BuyerData, EvidenceData, RevocationData, CaseData, DemoData

(* Two roles never share a collection, but for the grant log, which the    *)
(* negotiator and the propagator both read (iam_policy.py:10-96).          *)
THEOREM DomainsSeparated ==
  ASSUME NEW r \in Roles, NEW s \in Roles, r # s, NEW c,
         get_action_permission(r, c), get_action_permission(s, c)
  PROVE  c = "grants" /\ {r, s} = {"licensing_negotiator", "revocation_propagator"}
<1>1. c = "grants" \/ r = s
  BY PermissionNamesDomain, DomainsDisjoint DEF Roles
<1>2. \A q \in {r, s} : q \in {"licensing_negotiator", "revocation_propagator"}
  BY <1>1, PermissionNamesDomain, DomainsDisjoint DEF Roles
<1> QED
  BY <1>1, <1>2

(* Every collection has at most one role that may write it: what two roles *)
(* share, the negotiator sees only through its session's filter, which a   *)
(* write does not carry (gateway.py:275-288, 464-495).                     *)
THEOREM OneWriter ==
  ASSUME NEW r \in Roles, NEW s \in Roles, NEW c, MayWrite(r, c), MayWrite(s, c)
  PROVE  r = s
<1>1. \A q \in Roles : MayWrite(q, c) =>
        get_action_permission(q, c) /\ ~SessionScoped(q, c)
  BY DEF MayWrite, WriteCall, _enforce, _identify
<1>2. SUFFICES ASSUME r # s PROVE FALSE
  OBVIOUS
<1>3. c = "grants" /\ "licensing_negotiator" \in {r, s}
  BY <1>1, <1>2, DomainsSeparated
<1> QED
  BY <1>1, <1>3 DEF SessionScoped

(* The sandbox agent touches the demo collections, nobody else does, and   *)
(* it touches nothing but them (iam_policy.py:74-94).                      *)
THEOREM SandboxApart ==
  ASSUME NEW role \in Roles, NEW c, get_action_permission(role, c)
  PROVE  c \in DemoData <=> role = "sandbox_agent"
  BY PermissionNamesDomain, DomainsDisjoint DEF Roles

(* What the negotiator gets of the shared log and of the terms is its own  *)
(* session's: a call that is let through names the session's counterparty  *)
(* in its filter, and an absent one never passes (gateway.py:262-288).     *)
THEOREM SessionOnly ==
  ASSUME NEW call, _enforce(call), call.role = "licensing_negotiator",
         call.collection \in {"grants", "buyer_terms"}
  PROVE  call.session # Absent /\ call.filter = call.session
  BY DEF _enforce, SessionScoped

(* The cascade's batch, and the sandbox's like it, is one database's, so   *)
(* the gateway never refuses it (revocation_propagator.py:300-311).        *)
THEOREM CascadeBatchIsWhole ==
  /\ MayWriteAtomically("revocation_propagator", {"grants", "revocation_outbox"})
  /\ MayWriteAtomically("sandbox_agent", {"demo_grants", "demo_revocation_outbox"})
  BY DEF MayWriteAtomically, MayWrite, WriteCall, _enforce, _identify, get_action_permission,
         SessionScoped, Roles, permitted_collections, denied_collections,
         RevocationData, DemoData, IdentityData, database_for_collection,
         DEFAULT_DATABASE_COLLECTIONS

(* An agent cannot reach data by calling itself instead of the gateway:    *)
(* its own check lets through exactly what the gateway would               *)
(* (base.py:19-63, gateway.py:219-291).                                    *)
THEOREM AgentCannotBypass ==
  ASSUME NEW role, NEW c, NEW filter, NEW session
  PROVE  access_collection(role, c, filter, session) <=> MayRead(role, c, filter, session)
  BY DEF access_collection, MayRead, ReadCall, _enforce, _identify

(* The role agents get what their documentation says they get, whichever   *)
(* counterparty their session is of and whomever else they ask about       *)
(* (licensing_negotiator.py:25-49, evidence_agent.py:14-28,                *)
(* rights_custodian.py:14-24).                                             *)
THEOREM AgentsReadAsDocumented ==
  ASSUME NEW own, own # Absent, NEW other, other # own
  PROVE  /\ \A q \in CustodianReads \cup EvidenceReads \cup NegotiatorReads(own) : _enforce(q)
         /\ \A q \in RefusedReads(own, other) : ~_enforce(q)
<1>1. \A q \in CustodianReads \cup EvidenceReads \cup NegotiatorReads(own) : _enforce(q)
  BY DEF CustodianReads, EvidenceReads, NegotiatorReads, ReadCall, _enforce, _identify,
         get_action_permission, SessionScoped, Roles, permitted_collections,
         denied_collections, IdentityData, EvidenceData, BuyerData, RevocationData
<1>2. \A q \in RefusedReads(own, other) : ~_enforce(q)
  BY DEF RefusedReads, ReadCall, _enforce, get_action_permission, SessionScoped,
         Roles, permitted_collections, denied_collections, IdentityData, EvidenceData,
         BuyerData, RevocationData
<1> QED
  BY <1>1, <1>2

(* Every class of assertion has one role that may make it, and it is not   *)
(* the arbiter's: a record has no two witnesses to one fact, and the one   *)
(* who concludes is none of them (assertion_authority.py:23-36).           *)
THEOREM OneWitness ==
  ASSUME NEW r, NEW s, NEW class, may_assert(r, class), may_assert(s, class)
  PROVE  r = s /\ r # "consent_arbiter"
<1>1. DOMAIN ASSERTION_AUTHORITY =
        {"evidence_agent", "licensing_negotiator", "rights_custodian",
         "revocation_propagator", "counterparty_advocate", "consent_arbiter"}
  BY DEF ASSERTION_AUTHORITY
<1> QED
  BY <1>1 DEF may_assert, ASSERTION_AUTHORITY
=============================================================================

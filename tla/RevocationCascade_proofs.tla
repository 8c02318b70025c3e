---------------------- MODULE RevocationCascade_proofs ----------------------
(***************************************************************************)
(* What TLAPS proves of RevocationCascade, for every set of grants,        *)
(* operations and callers and every number of failures.                    *)
(***************************************************************************)
EXTENDS RevocationCascade, TLAPS

(* The constants every proof below assumes, as one formula.                *)
LEMMA Constants == ConsentAssumption /\ CascadeAssumption
  BY ConsentAssumed, CascadeAssumed

(* What an IssueGrant appends, wherever its stamp falls.                   *)
LEMMA IssuedEvent ==
  ASSUME NEW g \in Grants, NEW scope \in NewScopes, IssueGrant(g, scope),
         clock \in Nat
  PROVE  \E d \in GrantEvent :
           /\ d.kind = "granted" /\ d.grant = g /\ d.at < clock'
           /\ log' = log \cup {d} /\ clock' = clock + 1
           /\ UNCHANGED <<outbox, notices, crashes, run>>
<1>1. PICK at \in 0..clock :
        log' = log \cup {[grant |-> g, kind |-> "granted", op |-> NoOp,
                          at |-> at, scope |-> scope]}
  BY DEF IssueGrant
<1> DEFINE d == [grant |-> g, kind |-> "granted", op |-> NoOp, at |-> at,
                 scope |-> scope]
<1>2. d \in GrantEvent
  BY Constants DEF CascadeAssumption, GrantEvent
<1>3. clock' = clock + 1 /\ UNCHANGED <<outbox, notices, crashes, run>>
  BY DEF IssueGrant
<1>4. d.at < clock'
  BY <1>3
<1> QED
  BY <1>1, <1>2, <1>3, <1>4

-----------------------------------------------------------------------------
(* Type correctness. *)

LEMMA StartTyped ==
  ASSUME NEW r \in Request, NEW at \in {"idle", "read"}
  PROVE  Start(r, at) \in Run
  BY DEF Start, Run

LEMMA DeliveringTyped ==
  ASSUME NEW l \in Run, NEW r \in Row
  PROVE  [l EXCEPT !.rows = @ \ {r}, !.receipts = @ \cup {r}] \in Run
<1> DEFINE left == l.rows \ {r}
           got  == l.receipts \cup {r}
<1>1. left \subseteq Row /\ got \subseteq Row
  BY DEF Run
<1> HIDE DEF left, got
<1>2. [l EXCEPT !.rows = left, !.receipts = got] \in Run
  BY <1>1 DEF Run
<1> QED
  BY <1>2 DEF left, got

LEMMA AffectedTyped ==
  ASSUME NEW E, E \subseteq GrantEvent, NEW r, NEW at
  PROVE  Affected(E, r, at) \subseteq GrantEvent
  BY DEF Affected, InForce, OfWork

LEMMA RevokedTyped ==
  ASSUME NEW e \in GrantEvent, NEW o \in Ops, NEW at \in Int
  PROVE  /\ Revoked(e, o, at) \in GrantEvent
         /\ Revoked(e, o, at).kind = "revoked"
         /\ Revoked(e, o, at).op = o
         /\ Revoked(e, o, at).at = at
         /\ Revoked(e, o, at).grant = e.grant
         /\ Revoked(e, o, at).scope = e.scope
  BY DEF Revoked, GrantEvent

LEMMA RowOfTyped ==
  ASSUME NEW e \in GrantEvent, e.op \in Ops
  PROVE  /\ RowOf(e) \in Row
         /\ RowOf(e).op = e.op
         /\ RowOf(e).grant = e.grant
         /\ RowOf(e).revoked_at = e.at
  BY DEF RowOf, Row, GrantEvent

LEMMA ClockTyped ==
  ASSUME NEW c \in Callers, clock \in Nat
  PROVE  Clock(c) \in Int
  BY Constants DEF CascadeAssumption, Clock

(* What is stamped is a revoked event of the request's operation.          *)
StampInv ==
  \A c \in Callers : \A e \in run[c].stamped :
    e.kind = "revoked" /\ e.op = run[c].req.op

LEMMA TypeInit == Init => TypeOK /\ StampInv
<1> SUFFICES ASSUME Init PROVE TypeOK /\ StampInv
  OBVIOUS
<1> USE DEF Init
<1>1. log \subseteq GrantEvent
  BY Constants DEF CascadeAssumption
<1>2. \A r \in Request : Start(r, "idle") \in Run /\ Start(r, "idle").stamped = {}
  BY StartTyped DEF Start
<1>3. run \in [Callers -> Run]
  BY <1>2
<1>4. StampInv
  BY <1>2 DEF StampInv
<1> QED
  BY <1>1, <1>3, <1>4 DEF TypeOK

LEMMA TypeStep == TypeOK /\ StampInv /\ [Next]_vars => TypeOK' /\ StampInv'
<1> SUFFICES ASSUME TypeOK, StampInv, [Next]_vars PROVE TypeOK' /\ StampInv'
  OBVIOUS
<1> USE DEF TypeOK, StampInv
<1>1. ASSUME NEW c \in Callers, Begin(c) PROVE TypeOK' /\ StampInv'
  BY <1>1 DEF Begin, store, Run
<1>2. ASSUME NEW c \in Callers, Resend(c) PROVE TypeOK' /\ StampInv'
  <2>1. run[c].req \in Request
    BY DEF Run
  <2>2. Start(run[c].req, "read") \in Run /\ Start(run[c].req, "read").stamped = {}
    BY <2>1, StartTyped DEF Start
  <2> QED
    BY <1>2, <2>2 DEF Resend, store
<1>3. ASSUME NEW c \in Callers, NewOperation(c) PROVE TypeOK' /\ StampInv'
  <2>1. PICK r \in Request : run' = [run EXCEPT ![c] = Start(r, "read")]
    BY <1>3 DEF NewOperation
  <2>2. Start(r, "read") \in Run /\ Start(r, "read").stamped = {}
    BY StartTyped DEF Start
  <2> QED
    BY <1>3, <2>1, <2>2 DEF NewOperation, store
<1>4. ASSUME NEW c \in Callers, ReadGrants(c) PROVE TypeOK' /\ StampInv'
  <2>1. OfWork(log, run[c].req.work) \subseteq GrantEvent
    BY DEF OfWork
  <2> QED
    BY <1>4, <2>1 DEF ReadGrants, store, Run
<1>5. ASSUME NEW c \in Callers, Select(c) PROVE TypeOK' /\ StampInv'
  <2> DEFINE hit == Affected(run[c].seen, run[c].req, Clock(c))
  <2>1. hit \subseteq GrantEvent
    BY AffectedTyped DEF Run
  <2>2. Clock(c) \in Int
    BY ClockTyped
  <2> HIDE DEF hit
  <2>3. run' = [run EXCEPT ![c].cascade_at = Clock(c), ![c].affected = hit,
                           ![c].todo = hit, ![c].pc = "terminate"]
    BY <1>5 DEF Select, hit
  <2> QED
    BY <1>5, <2>1, <2>2, <2>3 DEF Select, store, Run
<1>6. ASSUME NEW c \in Callers, Stamp(c) PROVE TypeOK' /\ StampInv'
  <2>1. PICK e \in run[c].todo :
          run' = [run EXCEPT ![c].todo = @ \ {e},
                             ![c].stamped = {Revoked(e, run[c].req.op, Clock(c))},
                             ![c].pc = "commit"]
    BY <1>6 DEF Stamp
  <2>2. e \in GrantEvent /\ run[c].req.op \in Ops
    BY DEF Run, Request
  <2> DEFINE f == Revoked(e, run[c].req.op, Clock(c))
  <2>3. f \in GrantEvent /\ f.kind = "revoked" /\ f.op = run[c].req.op
    BY <2>2, ClockTyped, RevokedTyped
  <2> HIDE DEF f
  <2>4. run' = [run EXCEPT ![c].todo = @ \ {e}, ![c].stamped = {f},
                           ![c].pc = "commit"]
    BY <2>1 DEF f
  <2> QED
    BY <1>6, <2>3, <2>4 DEF Stamp, store, Run
<1>7. ASSUME NEW c \in Callers, Commit(c) PROVE TypeOK' /\ StampInv'
  <2>1. PICK e \in run[c].stamped :
          IF Taken(log, e) \/ Taken(outbox, e)
          THEN /\ run' = [run EXCEPT ![c].stamped = {}, ![c].pc = "terminate"]
               /\ UNCHANGED store
          ELSE /\ log' = log \cup {e}
               /\ outbox' = outbox \cup {RowOf(e)}
               /\ run' = [run EXCEPT ![c].stamped = {}, ![c].pc = "terminate",
                                     ![c].newly = @ \cup {e.grant}]
               /\ UNCHANGED notices
    BY <1>7 DEF Commit
  <2>2. e \in GrantEvent /\ e.op \in Ops /\ e.grant \in Grants
    BY DEF Run, Request, GrantEvent
  <2>3. RowOf(e) \in Row
    BY <2>2, RowOfTyped
  <2> QED
    BY <1>7, <2>1, <2>2, <2>3 DEF Commit, store, Run
<1>8. ASSUME NEW c \in Callers, ReadOutbox(c) PROVE TypeOK' /\ StampInv'
  <2> DEFINE owed == {r \in outbox : r.op = run[c].req.op}
  <2>1. owed \subseteq Row
    OBVIOUS
  <2> HIDE DEF owed
  <2>2. run' = [run EXCEPT ![c].rows = owed, ![c].pc = "deliver"]
    BY <1>8 DEF ReadOutbox, owed
  <2>3. [run[c] EXCEPT !.rows = owed, !.pc = "deliver"] \in Run
    BY <2>1 DEF Run
  <2>4. run' \in [Callers -> Run]
    BY <2>2, <2>3
  <2>5. StampInv'
    BY <2>2 DEF Run
  <2> QED
    BY <1>8, <2>4, <2>5 DEF ReadOutbox, store
<1>9. ASSUME NEW c \in Callers, Deliver(c) PROVE TypeOK' /\ StampInv'
  <2>1. PICK r \in run[c].rows :
          /\ notices' = IF Taken(notices, r) THEN notices ELSE notices \cup {r}
          /\ run' = [run EXCEPT ![c].rows = @ \ {r}, ![c].receipts = @ \cup {r}]
    BY <1>9 DEF Deliver
  <2>2. r \in Row
    BY DEF Run
  <2>3. [run[c] EXCEPT !.rows = @ \ {r}, !.receipts = @ \cup {r}] \in Run
    BY <2>2, DeliveringTyped
  <2>4. run' \in [Callers -> Run]
    BY <2>1, <2>3
  <2>5. StampInv'
    BY <2>1 DEF Run
  <2>6. notices' \subseteq Row
    BY <2>1, <2>2
  <2> QED
    BY <1>9, <2>4, <2>5, <2>6 DEF Deliver
<1>10. ASSUME NEW c \in Callers, Respond(c) PROVE TypeOK' /\ StampInv'
  BY <1>10 DEF Respond, store, Run
<1>11. ASSUME NEW c \in Callers, Crash(c) PROVE TypeOK' /\ StampInv'
  BY <1>11 DEF Crash, store, Run
<1>12. ASSUME NEW g \in Grants, NEW scope \in NewScopes, IssueGrant(g, scope)
       PROVE  TypeOK' /\ StampInv'
  BY <1>12, IssuedEvent
<1>13. CASE Tick
  BY <1>13 DEF Tick, store
<1>14. CASE UNCHANGED vars
  BY <1>14 DEF vars, store
<1> QED
  BY <1>1, <1>2, <1>3, <1>4, <1>5, <1>6, <1>7, <1>8, <1>9, <1>10, <1>11,
     <1>12, <1>13, <1>14 DEF Next, Step

(* Every variable keeps its type in every execution of the cascade.        *)
THEOREM TypeCorrect == Spec => []TypeOK
<1>1. Spec => [](TypeOK /\ StampInv)
  BY TypeInit, TypeStep, PTL DEF Spec
<1> QED
  BY <1>1, PTL

-----------------------------------------------------------------------------
(* The effects: the three collections agree with one another.  What makes  *)
(* it inductive is that a caller delivers only rows the outbox holds.      *)

RowsInv ==
  \A c \in Callers :
    /\ \A r \in run[c].rows : r \in outbox /\ r.op = run[c].req.op
    /\ \A r \in run[c].receipts : r \in notices /\ r.op = run[c].req.op

EffectsInv == /\ TypeOK /\ StampInv
              /\ PairedEffects /\ OncePerOperation /\ NoticesOwed
              /\ RowsInv

LEMMA RevocationsOf ==
  ASSUME NEW e
  PROVE  /\ e.kind = "revoked" =>
              {f \in log \cup {e} : f.kind = "revoked"}
                = {f \in log : f.kind = "revoked"} \cup {e}
         /\ e.kind # "revoked" =>
              {f \in log \cup {e} : f.kind = "revoked"}
                = {f \in log : f.kind = "revoked"}
  OBVIOUS

LEMMA EffectsInit == Init => EffectsInv
<1> SUFFICES ASSUME Init PROVE EffectsInv
  OBVIOUS
<1>1. TypeOK /\ StampInv
  BY TypeInit
<1>2. {e \in log : e.kind = "revoked"} = {}
  BY Constants DEF Init, CascadeAssumption
<1>3. PairedEffects
  BY <1>2 DEF Init, PairedEffects
<1>4. OncePerOperation /\ NoticesOwed
  BY DEF Init, OncePerOperation, NoticesOwed
<1>5. RowsInv
  <2>1. \A r \in Request : /\ Start(r, "idle").rows = {}
                           /\ Start(r, "idle").receipts = {}
    BY DEF Start
  <2> QED
    BY <2>1 DEF Init, RowsInv
<1> QED
  BY <1>1, <1>3, <1>4, <1>5 DEF EffectsInv

(* A step that leaves the collections alone disturbs only RowsInv.         *)
LEMMA StoreKept ==
  ASSUME EffectsInv, UNCHANGED store
  PROVE  PairedEffects' /\ OncePerOperation' /\ NoticesOwed'
  BY DEF EffectsInv, store, PairedEffects, OncePerOperation, NoticesOwed

(* A commit whose ids are free adds one revoked event and its row.         *)
LEMMA CommitPairs ==
  ASSUME EffectsInv, NEW e \in GrantEvent, e.op \in Ops, e.kind = "revoked",
         ~Taken(outbox, e),
         log' = log \cup {e}, outbox' = outbox \cup {RowOf(e)},
         UNCHANGED notices
  PROVE  PairedEffects' /\ OncePerOperation' /\ NoticesOwed'
<1> USE DEF EffectsInv
<1>1. {f \in log' : f.kind = "revoked"} = {f \in log : f.kind = "revoked"} \cup {e}
  BY RevocationsOf
<1>2. PairedEffects'
  BY <1>1 DEF PairedEffects
<1>3. \A r \in outbox : r.op = e.op => r.grant # e.grant
  BY DEF Taken
<1>4. RowOf(e).op = e.op /\ RowOf(e).grant = e.grant
  BY RowOfTyped
<1>5. OncePerOperation'
  BY <1>3, <1>4 DEF OncePerOperation
<1> QED
  BY <1>2, <1>5 DEF NoticesOwed

(* A delivered row is in the outbox; an id that exists is that very row.   *)
LEMMA DeliverOwed ==
  ASSUME EffectsInv, NEW r \in outbox,
         notices' = IF Taken(notices, r) THEN notices ELSE notices \cup {r}
  PROVE  notices' \subseteq outbox /\ r \in notices' /\ notices \subseteq notices'
<1>1. CASE Taken(notices, r)
  <2>1. PICK n \in notices : n.op = r.op /\ n.grant = r.grant
    BY <1>1 DEF Taken
  <2>2. n = r
    BY <2>1 DEF EffectsInv, OncePerOperation, NoticesOwed
  <2> QED
    BY <1>1, <2>2 DEF EffectsInv, NoticesOwed
<1>2. CASE ~Taken(notices, r)
  BY <1>2 DEF EffectsInv, NoticesOwed
<1> QED
  BY <1>1, <1>2

LEMMA EffectsStep == EffectsInv /\ [Next]_vars => EffectsInv'
<1> SUFFICES ASSUME EffectsInv, [Next]_vars PROVE EffectsInv'
  OBVIOUS
<1>T. TypeOK' /\ StampInv'
  BY TypeStep DEF EffectsInv
<1>U. run \in [Callers -> Run]
  BY DEF EffectsInv, TypeOK
<1> DEFINE Rest == PairedEffects' /\ OncePerOperation' /\ NoticesOwed' /\ RowsInv'
<1>1. ASSUME NEW c \in Callers, Begin(c) PROVE Rest
  <2>1. RowsInv'
    BY <1>1, <1>U DEF EffectsInv, RowsInv, Begin, store, Run
  <2> QED
    BY <1>1, <2>1, StoreKept DEF Begin
<1>2. ASSUME NEW c \in Callers, Resend(c) \/ NewOperation(c) PROVE Rest
  <2>1. PICK r : run' = [run EXCEPT ![c] = Start(r, "read")]
    BY <1>2 DEF Resend, NewOperation
  <2>2. UNCHANGED store
    BY <1>2 DEF Resend, NewOperation
  <2>3. Start(r, "read").rows = {} /\ Start(r, "read").receipts = {}
    BY DEF Start
  <2>4. RowsInv'
    BY <1>U, <2>1, <2>2, <2>3 DEF EffectsInv, RowsInv, store
  <2> QED
    BY <2>2, <2>4, StoreKept
<1>3. ASSUME NEW c \in Callers, ReadGrants(c) PROVE Rest
  <2>1. RowsInv'
    BY <1>3, <1>U DEF EffectsInv, RowsInv, ReadGrants, store, Run
  <2> QED
    BY <1>3, <2>1, StoreKept DEF ReadGrants
<1>4. ASSUME NEW c \in Callers, Select(c) PROVE Rest
  <2>1. RowsInv'
    BY <1>4, <1>U DEF EffectsInv, RowsInv, Select, store, Run
  <2> QED
    BY <1>4, <2>1, StoreKept DEF Select
<1>5. ASSUME NEW c \in Callers, Stamp(c) PROVE Rest
  <2>1. RowsInv'
    BY <1>5, <1>U DEF EffectsInv, RowsInv, Stamp, store, Run
  <2> QED
    BY <1>5, <2>1, StoreKept DEF Stamp
<1>6. ASSUME NEW c \in Callers, Commit(c) PROVE Rest
  <2>1. PICK e \in run[c].stamped :
          IF Taken(log, e) \/ Taken(outbox, e)
          THEN /\ run' = [run EXCEPT ![c].stamped = {}, ![c].pc = "terminate"]
               /\ UNCHANGED store
          ELSE /\ log' = log \cup {e}
               /\ outbox' = outbox \cup {RowOf(e)}
               /\ run' = [run EXCEPT ![c].stamped = {}, ![c].pc = "terminate",
                                     ![c].newly = @ \cup {e.grant}]
               /\ UNCHANGED notices
    BY <1>6 DEF Commit
  <2>2. e \in GrantEvent /\ e.op \in Ops /\ e.kind = "revoked"
    BY <1>U DEF EffectsInv, StampInv, Run, Request
  <2>3. RowsInv'
    BY <1>U, <2>1 DEF EffectsInv, RowsInv, store, Run
  <2>4. CASE Taken(log, e) \/ Taken(outbox, e)
    BY <2>1, <2>3, <2>4, StoreKept
  <2>5. CASE ~(Taken(log, e) \/ Taken(outbox, e))
    BY <2>1, <2>2, <2>3, <2>5, CommitPairs
  <2> QED
    BY <2>4, <2>5
<1>7. ASSUME NEW c \in Callers, ReadOutbox(c) PROVE Rest
  <2>1. RowsInv'
    BY <1>7, <1>U DEF EffectsInv, RowsInv, ReadOutbox, store, Run
  <2> QED
    BY <1>7, <2>1, StoreKept DEF ReadOutbox
<1>8. ASSUME NEW c \in Callers, Deliver(c) PROVE Rest
  <2>1. PICK r \in run[c].rows :
          /\ notices' = IF Taken(notices, r) THEN notices ELSE notices \cup {r}
          /\ run' = [run EXCEPT ![c].rows = @ \ {r}, ![c].receipts = @ \cup {r}]
    BY <1>8 DEF Deliver
  <2>2. UNCHANGED <<log, outbox>>
    BY <1>8 DEF Deliver
  <2>3. r \in outbox /\ r.op = run[c].req.op
    BY DEF EffectsInv, RowsInv
  <2>4. notices' \subseteq outbox /\ r \in notices' /\ notices \subseteq notices'
    BY <2>1, <2>3, DeliverOwed
  <2>5. RowsInv'
    BY <1>U, <2>1, <2>2, <2>3, <2>4 DEF EffectsInv, RowsInv, Run
  <2> QED
    BY <2>2, <2>4, <2>5
       DEF EffectsInv, PairedEffects, OncePerOperation, NoticesOwed
<1>9. ASSUME NEW c \in Callers, Respond(c) \/ Crash(c) PROVE Rest
  <2>1. RowsInv'
    BY <1>9, <1>U DEF EffectsInv, RowsInv, Respond, Crash, store, Run
  <2> QED
    BY <1>9, <2>1, StoreKept DEF Respond, Crash
<1>10. ASSUME NEW g \in Grants, NEW scope \in NewScopes, IssueGrant(g, scope)
       PROVE  Rest
  <2>1. PICK d : d.kind = "granted" /\ log' = log \cup {d}
    BY <1>10, IssuedEvent DEF EffectsInv, TypeOK
  <2>2. d.kind # "revoked"
    BY <2>1
  <2>3. {f \in log' : f.kind = "revoked"} = {f \in log : f.kind = "revoked"}
    BY <2>1, <2>2, RevocationsOf
  <2>4. UNCHANGED <<outbox, notices, run>>
    BY <1>10 DEF IssueGrant
  <2> QED
    BY <2>3, <2>4
       DEF EffectsInv, PairedEffects, OncePerOperation, NoticesOwed, RowsInv
<1>11. ASSUME Tick \/ UNCHANGED vars PROVE Rest
  <2>1. UNCHANGED <<store, run>>
    BY <1>11 DEF Tick, vars
  <2> QED
    BY <2>1, StoreKept DEF EffectsInv, RowsInv, store
<1>12. Rest
  BY <1>1, <1>2, <1>3, <1>4, <1>5, <1>6, <1>7, <1>8, <1>9, <1>10, <1>11
     DEF Next, Step
<1> QED
  BY <1>T, <1>12 DEF EffectsInv

LEMMA EffectsCorrect == Spec => []EffectsInv
  BY EffectsInit, EffectsStep, PTL DEF Spec

(* In every execution a termination and its obligation are one fact, an    *)
(* operation leaves one obligation per grant however often it is run, and  *)
(* every notice states a termination that happened, and when               *)
(* (write_documents_atomic, revocation_effect_id, deliver_pending_notices).*)
THEOREM EffectsAreExact == Spec => []EffectsAgree
<1>1. EffectsInv => EffectsAgree
  BY DEF EffectsInv, EffectsAgree
<1> QED
  BY <1>1, EffectsCorrect, PTL

-----------------------------------------------------------------------------
(* The answer.  A caller's locals stay tied to the log it read them from:  *)
(* what it selected is the fold of its snapshot, what it stamped is one of *)
(* those, and every grant its loop has passed has its termination.         *)

GrantedInv == \A d \in log : d.kind = "granted" => d.op = NoOp

SnapInv(c) ==
  /\ run[c].seen \subseteq log
  /\ \A d \in run[c].seen : WorkOf[d.grant] = run[c].req.work
  /\ run[c].pc \in {"terminate", "commit", "deliver", "done"} =>
       /\ run[c].affected = Affected(run[c].seen, run[c].req, run[c].cascade_at)
       /\ run[c].todo \subseteq run[c].affected
  /\ run[c].pc = "commit" =>
       \A e \in run[c].stamped :
         \E d \in run[c].affected : e.grant = d.grant /\ e.scope = d.scope

AnswerInv(c) ==
  /\ run[c].pc \notin {"commit", "failed"} => run[c].stamped = {}
  /\ run[c].pc = "commit" => \A e, f \in run[c].stamped : e = f
  /\ run[c].pc \in {"terminate", "commit"} =>
       \A d \in run[c].affected \ run[c].todo :
         \/ \E e \in run[c].stamped : e.grant = d.grant
         \/ Terminations(run[c].req.op, d.grant) # {}
  /\ run[c].pc \in {"deliver", "done"} =>
       \A d \in run[c].affected :
         \E r \in run[c].rows \cup run[c].receipts : r.grant = d.grant
  /\ run[c].pc = "done" => run[c].rows = {}

CallerInv == \A c \in Callers : SnapInv(c) /\ AnswerInv(c)

LEMMA LogGrows == [Next]_vars => log \subseteq log'
<1> SUFFICES ASSUME [Next]_vars PROVE log \subseteq log'
  OBVIOUS
<1>1. ASSUME NEW c \in Callers, Commit(c) PROVE log \subseteq log'
  BY <1>1 DEF Commit, store
<1>2. ASSUME NEW c \in Callers,
             Begin(c) \/ Resend(c) \/ NewOperation(c) \/ ReadGrants(c) \/ Select(c)
             \/ Stamp(c) \/ ReadOutbox(c) \/ Deliver(c) \/ Respond(c) \/ Crash(c)
      PROVE  log \subseteq log'
  BY <1>2 DEF Begin, Resend, NewOperation, ReadGrants, Select, Stamp, ReadOutbox,
              Deliver, Respond, Crash, store
<1>3. ASSUME NEW g \in Grants, NEW scope \in NewScopes, IssueGrant(g, scope)
      PROVE  log \subseteq log'
  BY <1>3 DEF IssueGrant
<1>4. CASE Tick \/ UNCHANGED vars
  BY <1>4 DEF Tick, vars, store
<1> QED
  BY <1>1, <1>2, <1>3, <1>4 DEF Next, Step

(* A caller that does not move keeps its invariant: the log only grows.    *)
LEMMA BystanderKeeps ==
  ASSUME NEW c \in Callers, SnapInv(c), AnswerInv(c),
         run'[c] = run[c], log \subseteq log'
  PROVE  SnapInv(c)' /\ AnswerInv(c)'
<1>1. \A o, g : Terminations(o, g) # {} => Terminations(o, g)' # {}
  BY DEF Terminations
<1>2. SnapInv(c)'
  BY DEF SnapInv
<1>3. AnswerInv(c)'
  BY <1>1 DEF AnswerInv
<1> QED
  BY <1>2, <1>3

(* Every id of this operation and grant that exists is a termination.      *)
LEMMA TakenIsTerminated ==
  ASSUME EffectsInv, GrantedInv, NEW e \in GrantEvent, e.op \in Ops,
         Taken(log, e) \/ Taken(outbox, e)
  PROVE  Terminations(e.op, e.grant) # {}
<1>1. CASE Taken(log, e)
  <2>1. PICK d \in log : d.op = e.op /\ d.grant = e.grant
    BY <1>1 DEF Taken
  <2>2. d.kind = "revoked"
    BY <2>1, Constants
       DEF GrantedInv, ConsentAssumption, EffectsInv, TypeOK, GrantEvent
  <2> QED
    BY <2>1, <2>2 DEF Terminations
<1>2. CASE Taken(outbox, e)
  <2>1. PICK r \in outbox : r.op = e.op /\ r.grant = e.grant
    BY <1>2 DEF Taken
  <2>2. PICK f \in log : f.kind = "revoked" /\ r = RowOf(f)
    BY <2>1 DEF EffectsInv, PairedEffects
  <2> QED
    BY <2>1, <2>2 DEF Terminations, RowOf
<1> QED
  BY <1>1, <1>2

AnswerSpecInv == EffectsInv /\ GrantedInv /\ CallerInv

LEMMA AnswerInit == Init => AnswerSpecInv
<1> SUFFICES ASSUME Init PROVE AnswerSpecInv
  OBVIOUS
<1>1. GrantedInv
  BY Constants DEF Init, CascadeAssumption, GrantedInv
<1>2. \A r \in Request : /\ Start(r, "idle").pc = "idle"
                         /\ Start(r, "idle").seen = {}
                         /\ Start(r, "idle").stamped = {}
  BY DEF Start
<1>3. CallerInv
  BY <1>2 DEF Init, CallerInv, SnapInv, AnswerInv
<1> QED
  BY <1>1, <1>3, EffectsInit DEF AnswerSpecInv

LEMMA GrantedStep == EffectsInv /\ GrantedInv /\ [Next]_vars => GrantedInv'
<1> SUFFICES ASSUME EffectsInv, GrantedInv, [Next]_vars PROVE GrantedInv'
  OBVIOUS
<1>1. ASSUME NEW c \in Callers, Commit(c) PROVE GrantedInv'
  <2>1. PICK e \in run[c].stamped : log' = log \/ log' = log \cup {e}
    BY <1>1 DEF Commit, store
  <2>2. e.kind = "revoked"
    BY DEF EffectsInv, StampInv
  <2> QED
    BY <2>1, <2>2 DEF GrantedInv
<1>2. ASSUME NEW c \in Callers,
             Begin(c) \/ Resend(c) \/ NewOperation(c) \/ ReadGrants(c) \/ Select(c)
             \/ Stamp(c) \/ ReadOutbox(c) \/ Deliver(c) \/ Respond(c) \/ Crash(c)
      PROVE  GrantedInv'
  <2>1. log' = log
    BY <1>2 DEF Begin, Resend, NewOperation, ReadGrants, Select, Stamp, ReadOutbox,
                Deliver, Respond, Crash, store
  <2> QED
    BY <2>1 DEF GrantedInv
<1>3. ASSUME NEW g \in Grants, NEW scope \in NewScopes, IssueGrant(g, scope)
      PROVE  GrantedInv'
  BY <1>3 DEF IssueGrant, GrantedInv
<1>4. CASE Tick \/ UNCHANGED vars
  BY <1>4 DEF Tick, vars, store, GrantedInv
<1> QED
  BY <1>1, <1>2, <1>3, <1>4 DEF Next, Step

(* A step of c: c's own invariant is what there is to show.                *)
LEMMA MoverSuffices ==
  ASSUME CallerInv, [Next]_vars, NEW c \in Callers,
         \A b \in Callers \ {c} : run'[b] = run[b],
         SnapInv(c)' /\ AnswerInv(c)'
  PROVE  CallerInv'
<1>1. \A b \in Callers \ {c} : SnapInv(b)' /\ AnswerInv(b)'
  <2> TAKE b \in Callers \ {c}
  <2> QED
    BY LogGrows, BystanderKeeps DEF CallerInv
<1> QED
  BY <1>1 DEF CallerInv

LEMMA CallerStep == AnswerSpecInv /\ [Next]_vars => CallerInv'
<1> SUFFICES ASSUME AnswerSpecInv, [Next]_vars PROVE CallerInv'
  OBVIOUS
<1>E. EffectsInv /\ CallerInv /\ GrantedInv
  BY DEF AnswerSpecInv
<1>U. run \in [Callers -> Run] /\ log \subseteq GrantEvent
  BY <1>E DEF EffectsInv, TypeOK
<1>G. log \subseteq log'
  BY LogGrows
<1>I. ASSUME NEW c \in Callers PROVE SnapInv(c) /\ AnswerInv(c)
  BY <1>E DEF CallerInv
<1>1. ASSUME NEW c \in Callers, Begin(c) \/ Crash(c) PROVE CallerInv'
  <2>1. PICK at \in {"read", "failed"} :
          /\ run' = [run EXCEPT ![c].pc = at]
          /\ at = "read" => run[c].pc = "idle"
    BY <1>1 DEF Begin, Crash
  <2>2. SnapInv(c)' /\ AnswerInv(c)'
    BY <1>U, <1>I, <1>G, <2>1 DEF SnapInv, AnswerInv, Run
  <2> QED
    BY <1>E, <1>U, <2>1, <2>2, MoverSuffices
<1>2. ASSUME NEW c \in Callers, Resend(c) \/ NewOperation(c) PROVE CallerInv'
  <2>1. PICK r : run' = [run EXCEPT ![c] = Start(r, "read")]
    BY <1>2 DEF Resend, NewOperation
  <2>2. /\ Start(r, "read").pc = "read" /\ Start(r, "read").seen = {}
        /\ Start(r, "read").stamped = {}
    BY DEF Start
  <2>3. SnapInv(c)' /\ AnswerInv(c)'
    BY <1>U, <2>1, <2>2 DEF SnapInv, AnswerInv
  <2> QED
    BY <1>E, <1>U, <2>1, <2>3, MoverSuffices
<1>3. ASSUME NEW c \in Callers, ReadGrants(c) PROVE CallerInv'
  <2>1. run' = [run EXCEPT ![c].seen = OfWork(log, run[c].req.work),
                           ![c].pc = "select"]
    BY <1>3 DEF ReadGrants
  <2>2. /\ OfWork(log, run[c].req.work) \subseteq log
        /\ \A d \in OfWork(log, run[c].req.work) : WorkOf[d.grant] = run[c].req.work
    BY DEF OfWork
  <2>3. SnapInv(c)' /\ AnswerInv(c)'
    <3>1. run[c].pc = "read"
      BY <1>3 DEF ReadGrants
    <3>2. run[c].stamped = {}
      BY <1>I, <3>1 DEF AnswerInv
    <3> QED
      BY <1>U, <1>G, <2>1, <2>2, <3>2 DEF SnapInv, AnswerInv, Run
  <2> QED
    BY <1>E, <1>U, <2>1, <2>3, MoverSuffices
<1>4. ASSUME NEW c \in Callers, Select(c) PROVE CallerInv'
  <2> DEFINE hit == Affected(run[c].seen, run[c].req, Clock(c))
  <2>1. run' = [run EXCEPT ![c].cascade_at = Clock(c), ![c].affected = hit,
                           ![c].todo = hit, ![c].pc = "terminate"]
    BY <1>4 DEF Select
  <2>2. /\ run'[c].pc = "terminate" /\ run'[c].seen = run[c].seen
        /\ run'[c].req = run[c].req /\ run'[c].cascade_at = Clock(c)
        /\ run'[c].affected = hit /\ run'[c].todo = hit
        /\ run'[c].stamped = run[c].stamped
    BY <1>U, <2>1 DEF Run
  <2>3. run[c].stamped = {}
    BY <1>4, <1>I DEF AnswerInv, Select
  <2>4. SnapInv(c)'
    BY <1>I, <1>G, <2>2 DEF SnapInv
  <2>5. AnswerInv(c)'
    BY <2>2, <2>3 DEF AnswerInv
  <2> QED
    BY <1>E, <1>U, <2>1, <2>4, <2>5, MoverSuffices
<1>5. ASSUME NEW c \in Callers, Stamp(c) PROVE CallerInv'
  <2>1. PICK e \in run[c].todo :
          run' = [run EXCEPT ![c].todo = @ \ {e},
                             ![c].stamped = {Revoked(e, run[c].req.op, Clock(c))},
                             ![c].pc = "commit"]
    BY <1>5 DEF Stamp
  <2> DEFINE f == Revoked(e, run[c].req.op, Clock(c))
  <2>2. f.grant = e.grant /\ f.scope = e.scope
    <3>1. e \in GrantEvent /\ run[c].req.op \in Ops
      BY <1>U DEF Run, Request
    <3>2. Clock(c) \in Int
      BY <1>E, ClockTyped DEF EffectsInv, TypeOK
    <3> QED
      BY <3>1, <3>2, RevokedTyped
  <2>3. run[c].pc = "terminate"
    BY <1>5 DEF Stamp
  <2>4. e \in run[c].affected
    BY <1>I, <2>3 DEF SnapInv
  <2> HIDE DEF f
  <2>5. run' = [run EXCEPT ![c].todo = @ \ {e}, ![c].stamped = {f},
                           ![c].pc = "commit"]
    BY <2>1 DEF f
  <2>6. /\ run'[c].pc = "commit" /\ run'[c].seen = run[c].seen
        /\ run'[c].req = run[c].req /\ run'[c].cascade_at = run[c].cascade_at
        /\ run'[c].affected = run[c].affected
        /\ run'[c].todo = run[c].todo \ {e} /\ run'[c].stamped = {f}
    BY <1>U, <2>5 DEF Run
  <2>7. SnapInv(c)'
    BY <1>I, <1>G, <2>2, <2>3, <2>4, <2>6 DEF SnapInv
  <2>8. AnswerInv(c)'
    <3>1. \A g : Terminations(run[c].req.op, g)' = Terminations(run[c].req.op, g)
      BY <1>5, <2>6 DEF Stamp, store, Terminations
    <3>2. run[c].stamped = {}
      BY <1>I, <2>3 DEF AnswerInv
    <3>3. ASSUME NEW d \in run[c].affected \ (run[c].todo \ {e})
          PROVE  f.grant = d.grant \/ Terminations(run[c].req.op, d.grant) # {}
      BY <1>I, <2>2, <2>3, <3>2 DEF AnswerInv
    <3> QED
      BY <2>6, <3>1, <3>3 DEF AnswerInv
  <2> QED
    BY <1>E, <1>U, <2>5, <2>7, <2>8, MoverSuffices
<1>6. ASSUME NEW c \in Callers, Commit(c) PROVE CallerInv'
  <2>1. PICK e \in run[c].stamped :
          IF Taken(log, e) \/ Taken(outbox, e)
          THEN /\ run' = [run EXCEPT ![c].stamped = {}, ![c].pc = "terminate"]
               /\ UNCHANGED store
          ELSE /\ log' = log \cup {e}
               /\ outbox' = outbox \cup {RowOf(e)}
               /\ run' = [run EXCEPT ![c].stamped = {}, ![c].pc = "terminate",
                                     ![c].newly = @ \cup {e.grant}]
               /\ UNCHANGED notices
    BY <1>6 DEF Commit
  <2>2. \A b \in Callers \ {c} : run'[b] = run[b]
    BY <1>U, <2>1
  <2>3. /\ run'[c].pc = "terminate" /\ run'[c].seen = run[c].seen
        /\ run'[c].req = run[c].req /\ run'[c].cascade_at = run[c].cascade_at
        /\ run'[c].affected = run[c].affected
        /\ run'[c].todo = run[c].todo /\ run'[c].stamped = {}
    BY <1>U, <2>1 DEF Run
  <2>4. run[c].pc = "commit"
    BY <1>6 DEF Commit
  <2>5. SnapInv(c)'
    BY <1>I, <1>G, <2>3, <2>4 DEF SnapInv
  <2>6. e \in GrantEvent /\ e.op = run[c].req.op /\ e.op \in Ops /\ e.kind = "revoked"
    BY <1>E, <1>U DEF EffectsInv, StampInv, Run, Request
  <2>7. Terminations(e.op, e.grant)' # {}
    <3>1. CASE Taken(log, e) \/ Taken(outbox, e)
      <4>1. log' = log
        BY <2>1, <3>1 DEF store
      <4> QED
        BY <1>E, <2>6, <3>1, <4>1, TakenIsTerminated DEF Terminations
    <3>2. CASE ~(Taken(log, e) \/ Taken(outbox, e))
      BY <2>1, <2>6, <3>2 DEF Terminations
    <3> QED
      BY <3>1, <3>2
  <2>8. \A g : Terminations(run[c].req.op, g) # {}
                 => Terminations(run[c].req.op, g)' # {}
    BY <1>G, <2>3 DEF Terminations
  <2>9. ASSUME NEW d \in run[c].affected \ run[c].todo
        PROVE  Terminations(run[c].req.op, d.grant)' # {}
    <3>1. CASE d.grant = e.grant
      BY <2>3, <2>6, <2>7, <3>1 DEF Terminations
    <3>2. CASE d.grant # e.grant
      <4>1. \A f \in run[c].stamped : f = e
        BY <1>I, <2>4 DEF AnswerInv
      <4> QED
        BY <1>I, <2>4, <2>8, <3>2, <4>1 DEF AnswerInv
    <3> QED
      BY <3>1, <3>2
  <2>10. AnswerInv(c)'
    BY <2>3, <2>9 DEF AnswerInv
  <2> QED
    BY <1>E, <2>2, <2>5, <2>10, MoverSuffices
<1>7. ASSUME NEW c \in Callers, ReadOutbox(c) PROVE CallerInv'
  <2> DEFINE owed == {r \in outbox : r.op = run[c].req.op}
  <2>1. run' = [run EXCEPT ![c].rows = owed, ![c].pc = "deliver"]
    BY <1>7 DEF ReadOutbox
  <2>2. /\ run'[c].pc = "deliver" /\ run'[c].seen = run[c].seen
        /\ run'[c].req = run[c].req /\ run'[c].cascade_at = run[c].cascade_at
        /\ run'[c].affected = run[c].affected /\ run'[c].rows = owed
        /\ run'[c].todo = run[c].todo /\ run'[c].stamped = run[c].stamped
    BY <1>U, <2>1 DEF Run
  <2>3. run[c].pc = "terminate" /\ run[c].todo = {}
    BY <1>7 DEF ReadOutbox
  <2>4. SnapInv(c)'
    BY <1>I, <1>G, <2>2, <2>3 DEF SnapInv
  <2>5. run[c].stamped = {}
    BY <1>I, <2>3 DEF AnswerInv
  <2>6. ASSUME NEW d \in run[c].affected PROVE \E r \in owed : r.grant = d.grant
    <3>1. Terminations(run[c].req.op, d.grant) # {}
      BY <1>I, <2>3, <2>5 DEF AnswerInv
    <3>2. PICK t \in log : t.kind = "revoked" /\ t.op = run[c].req.op
                           /\ t.grant = d.grant
      BY <3>1 DEF Terminations
    <3>3. RowOf(t) \in outbox
      BY <1>E, <3>2 DEF EffectsInv, PairedEffects
    <3>4. RowOf(t).op = run[c].req.op /\ RowOf(t).grant = d.grant
      BY <3>2 DEF RowOf
    <3> QED
      BY <3>3, <3>4
  <2>7. AnswerInv(c)'
    BY <2>2, <2>5, <2>6 DEF AnswerInv
  <2> QED
    BY <1>E, <1>U, <2>1, <2>4, <2>7, MoverSuffices
<1>8. ASSUME NEW c \in Callers, Deliver(c) PROVE CallerInv'
  <2>1. PICK r \in run[c].rows :
          run' = [run EXCEPT ![c].rows = @ \ {r}, ![c].receipts = @ \cup {r}]
    BY <1>8 DEF Deliver
  <2>2. /\ run'[c].pc = run[c].pc /\ run'[c].seen = run[c].seen
        /\ run'[c].req = run[c].req /\ run'[c].cascade_at = run[c].cascade_at
        /\ run'[c].affected = run[c].affected /\ run'[c].rows = run[c].rows \ {r}
        /\ run'[c].todo = run[c].todo /\ run'[c].stamped = run[c].stamped
        /\ run'[c].receipts = run[c].receipts \cup {r}
    BY <1>U, <2>1 DEF Run
  <2>3. run[c].pc = "deliver"
    BY <1>8 DEF Deliver
  <2>4. SnapInv(c)'
    BY <1>I, <1>G, <2>2, <2>3 DEF SnapInv
  <2>5. AnswerInv(c)'
    BY <1>I, <2>2, <2>3 DEF AnswerInv
  <2> QED
    BY <1>E, <1>U, <2>1, <2>4, <2>5, MoverSuffices
<1>9. ASSUME NEW c \in Callers, Respond(c) PROVE CallerInv'
  <2>1. run' = [run EXCEPT ![c].pc = "done"]
    BY <1>9 DEF Respond
  <2>2. run[c].pc = "deliver" /\ run[c].rows = {}
    BY <1>9 DEF Respond
  <2>3. SnapInv(c)' /\ AnswerInv(c)'
    BY <1>U, <1>I, <1>G, <2>1, <2>2 DEF SnapInv, AnswerInv, Run
  <2> QED
    BY <1>E, <1>U, <2>1, <2>3, MoverSuffices
<1>10. ASSUME UNCHANGED run PROVE CallerInv'
  BY <1>G, <1>I, <1>10, BystanderKeeps DEF CallerInv
<1>11. ASSUME NEW g \in Grants, NEW scope \in NewScopes, IssueGrant(g, scope)
       PROVE  CallerInv'
  BY <1>10, <1>11 DEF IssueGrant
<1>12. CASE Tick \/ UNCHANGED vars
  BY <1>10, <1>12 DEF Tick, vars
<1> QED
  BY <1>1, <1>2, <1>3, <1>4, <1>5, <1>6, <1>7, <1>8, <1>9, <1>11, <1>12
     DEF Next, Step

LEMMA AnswerSpecCorrect == Spec => []AnswerSpecInv
<1>1. AnswerSpecInv /\ [Next]_vars => AnswerSpecInv'
  BY EffectsStep, GrantedStep, CallerStep DEF AnswerSpecInv
<1> QED
  BY <1>1, AnswerInit, PTL DEF Spec

LEMMA AnswerTrue == AnswerSpecInv => ReportIsTrue
<1> SUFFICES ASSUME AnswerSpecInv, NEW c \in Callers, Done(c),
                    NEW d \in run[c].affected
             PROVE  \E f \in Terminations(run[c].req.op, d.grant) :
                      RowOf(f) \in notices \cap run[c].receipts
  BY DEF ReportIsTrue
<1>1. PICK r \in run[c].receipts : r.grant = d.grant
  BY DEF AnswerSpecInv, CallerInv, AnswerInv, Done
<1>2. r \in notices /\ r \in outbox /\ r.op = run[c].req.op
  BY DEF AnswerSpecInv, EffectsInv, RowsInv, NoticesOwed
<1>3. PICK f \in log : f.kind = "revoked" /\ r = RowOf(f)
  BY <1>2 DEF AnswerSpecInv, EffectsInv, PairedEffects
<1>4. f \in Terminations(run[c].req.op, d.grant)
  BY <1>1, <1>2, <1>3 DEF Terminations, RowOf
<1> QED
  BY <1>2, <1>3, <1>4

(* What a revocation answers is so: every grant it reports affected has    *)
(* its termination on record and the notice of that termination delivered, *)
(* and the answer carries its receipt (execute_revocation_cascade).        *)
THEOREM AnswersAreTrue == Spec => []ReportIsTrue
  BY AnswerTrue, AnswerSpecCorrect, PTL

(* The moments of an execution, on its host's clock: its selection, then   *)
(* the stamp of what it is about to commit, then now.  And the fold of a   *)
(* grant's events is decided: no two granted events share an instant.      *)
DistinctGrants ==
  \A d, e \in log :
    d.kind = "granted" /\ e.kind = "granted" /\ d.grant = e.grant /\ d.at = e.at
      => d = e

MomentInv(c) ==
  /\ run[c].pc \in {"terminate", "commit"} => run[c].cascade_at <= Clock(c)
  /\ run[c].pc = "commit" =>
       \A e \in run[c].stamped : run[c].cascade_at <= e.at /\ e.at <= Clock(c)

MomentsInv == DistinctGrants /\ \A c \in Callers : MomentInv(c)

LEMMA MomentsInit == Init => MomentsInv
<1> SUFFICES ASSUME Init PROVE MomentsInv
  OBVIOUS
<1>1. DistinctGrants
  BY Constants DEF Init, CascadeAssumption, DistinctGrants
<1>2. \A r \in Request : Start(r, "idle").pc = "idle"
  BY DEF Start
<1>3. \A c \in Callers : MomentInv(c)
  BY <1>2 DEF Init, MomentInv
<1> QED
  BY <1>1, <1>3 DEF MomentsInv

(* A caller that does not move keeps its moments: the clock only advances. *)
LEMMA MomentKept ==
  ASSUME TypeOK, NEW c \in Callers, MomentInv(c), run'[c] = run[c],
         clock' \in Nat, clock <= clock'
  PROVE  MomentInv(c)'
<1>1. Clock(c) \in Int /\ Clock(c)' \in Int /\ Clock(c) <= Clock(c)'
  BY Constants DEF CascadeAssumption, Clock, TypeOK
<1>2. run[c].cascade_at \in Int /\ \A e \in run[c].stamped : e.at \in Int
  BY DEF TypeOK, Run, GrantEvent
<1> QED
  BY <1>1, <1>2 DEF MomentInv

LEMMA MomentsStep == TypeOK /\ StampInv /\ MomentsInv /\ [Next]_vars => MomentsInv'
<1> SUFFICES ASSUME TypeOK, StampInv, MomentsInv, [Next]_vars PROVE MomentsInv'
  OBVIOUS
<1>U. run \in [Callers -> Run] /\ log \subseteq GrantEvent /\ clock \in Nat
  BY DEF TypeOK
<1>I. \A c \in Callers : MomentInv(c)
  BY DEF MomentsInv
(* What there is to show of a step of caller c that keeps log and clock.   *)
<1>M. ASSUME NEW c \in Callers, \A b \in Callers \ {c} : run'[b] = run[b],
             clock' = clock, DistinctGrants', MomentInv(c)'
      PROVE  MomentsInv'
  <2>1. \A b \in Callers \ {c} : MomentInv(b)'
    BY <1>U, <1>I, <1>M, MomentKept
  <2> QED
    BY <1>M, <2>1 DEF MomentsInv
<1>P. ASSUME log' = log PROVE DistinctGrants'
  BY <1>P DEF MomentsInv, DistinctGrants
<1>1. ASSUME NEW c \in Callers,
             \/ Begin(c) \/ ReadGrants(c) \/ ReadOutbox(c)
             \/ Respond(c) \/ Crash(c)
      PROVE  MomentsInv'
  <2>1. /\ \A b \in Callers \ {c} : run'[b] = run[b]
        /\ run'[c].pc \notin {"terminate", "commit"}
    BY <1>1, <1>U DEF Begin, ReadGrants, ReadOutbox, Respond, Crash, Run
  <2>2. log' = log /\ clock' = clock
    BY <1>1 DEF Begin, ReadGrants, ReadOutbox, Respond, Crash, store
  <2>3. MomentInv(c)'
    BY <2>1 DEF MomentInv
  <2> QED
    BY <1>M, <1>P, <2>1, <2>2, <2>3
<1>2. ASSUME NEW c \in Callers, Resend(c) \/ NewOperation(c) PROVE MomentsInv'
  <2>1. PICK r : run' = [run EXCEPT ![c] = Start(r, "read")]
    BY <1>2 DEF Resend, NewOperation
  <2>2. log' = log /\ clock' = clock
    BY <1>2 DEF Resend, NewOperation, store
  <2>3. MomentInv(c)'
    BY <1>U, <2>1 DEF MomentInv, Start
  <2> QED
    BY <1>U, <1>M, <1>P, <2>1, <2>2, <2>3
<1>3. ASSUME NEW c \in Callers, Deliver(c) PROVE MomentsInv'
  <2>1. PICK r \in run[c].rows :
          run' = [run EXCEPT ![c].rows = @ \ {r}, ![c].receipts = @ \cup {r}]
    BY <1>3 DEF Deliver
  <2>2. log' = log /\ clock' = clock /\ run'[c].pc = "deliver"
    BY <1>3, <1>U, <2>1 DEF Deliver, Run
  <2>3. MomentInv(c)'
    BY <2>2 DEF MomentInv
  <2> QED
    BY <1>U, <1>M, <1>P, <2>1, <2>2, <2>3
<1>4. ASSUME NEW c \in Callers, Select(c) PROVE MomentsInv'
  <2> DEFINE hit == Affected(run[c].seen, run[c].req, Clock(c))
  <2>1. run' = [run EXCEPT ![c].cascade_at = Clock(c), ![c].affected = hit,
                           ![c].todo = hit, ![c].pc = "terminate"]
    BY <1>4 DEF Select
  <2> HIDE DEF hit
  <2>2. log' = log /\ clock' = clock
    BY <1>4 DEF Select, store
  <2>3. run'[c].pc = "terminate" /\ run'[c].cascade_at = Clock(c)
    BY <1>U, <2>1 DEF Run
  <2>4. Clock(c)' = Clock(c) /\ Clock(c) \in Int
    BY <2>2, ClockTyped, <1>U DEF Clock
  <2>5. MomentInv(c)'
    BY <2>3, <2>4 DEF MomentInv
  <2> QED
    BY <1>U, <1>M, <1>P, <2>1, <2>2, <2>5
<1>5. ASSUME NEW c \in Callers, Stamp(c) PROVE MomentsInv'
  <2>1. PICK e \in run[c].todo :
          run' = [run EXCEPT ![c].todo = @ \ {e},
                             ![c].stamped = {Revoked(e, run[c].req.op, Clock(c))},
                             ![c].pc = "commit"]
    BY <1>5 DEF Stamp
  <2> DEFINE f == Revoked(e, run[c].req.op, Clock(c))
  <2>2. f.at = Clock(c) /\ Clock(c) \in Int
    BY <1>U, ClockTyped, RevokedTyped DEF Run, Request
  <2> HIDE DEF f
  <2>3. run' = [run EXCEPT ![c].todo = @ \ {e}, ![c].stamped = {f},
                           ![c].pc = "commit"]
    BY <2>1 DEF f
  <2>4. log' = log /\ clock' = clock /\ run[c].pc = "terminate"
    BY <1>5 DEF Stamp, store
  <2>5. /\ run'[c].pc = "commit" /\ run'[c].cascade_at = run[c].cascade_at
        /\ run'[c].stamped = {f}
    BY <1>U, <2>3 DEF Run
  <2>6. Clock(c)' = Clock(c) /\ run[c].cascade_at <= Clock(c)
    BY <1>I, <2>4 DEF Clock, MomentInv
  <2>7. MomentInv(c)'
    BY <2>2, <2>5, <2>6 DEF MomentInv
  <2> QED
    BY <1>U, <1>M, <1>P, <2>3, <2>4, <2>7
<1>6. ASSUME NEW c \in Callers, Commit(c) PROVE MomentsInv'
  <2>1. PICK e \in run[c].stamped :
          IF Taken(log, e) \/ Taken(outbox, e)
          THEN /\ run' = [run EXCEPT ![c].stamped = {}, ![c].pc = "terminate"]
               /\ UNCHANGED store
          ELSE /\ log' = log \cup {e}
               /\ outbox' = outbox \cup {RowOf(e)}
               /\ run' = [run EXCEPT ![c].stamped = {}, ![c].pc = "terminate",
                                     ![c].newly = @ \cup {e.grant}]
               /\ UNCHANGED notices
    BY <1>6 DEF Commit
  <2>2. clock' = clock /\ run[c].pc = "commit"
    BY <1>6 DEF Commit
  <2>3. e.kind = "revoked"
    BY DEF StampInv
  <2>4. DistinctGrants'
    BY <2>1, <2>3 DEF MomentsInv, DistinctGrants, store
  <2>5. run'[c].pc = "terminate" /\ run'[c].cascade_at = run[c].cascade_at
    BY <1>U, <2>1 DEF Run
  <2>6. MomentInv(c)'
    BY <1>I, <2>2, <2>5 DEF MomentInv, Clock
  <2>7. \A b \in Callers \ {c} : run'[b] = run[b]
    BY <1>U, <2>1
  <2> QED
    BY <1>M, <2>2, <2>4, <2>6, <2>7
<1>7. ASSUME UNCHANGED run, clock' \in Nat, clock <= clock', DistinctGrants'
      PROVE  MomentsInv'
  <2>1. ASSUME NEW c \in Callers PROVE MomentInv(c)'
    BY <1>I, <1>7, MomentKept
  <2> QED
    BY <1>7, <2>1 DEF MomentsInv
<1>8. ASSUME NEW g \in Grants, NEW scope \in NewScopes, IssueGrant(g, scope)
      PROVE  MomentsInv'
  <2>1. PICK at \in 0..clock :
          /\ ~\E e \in log : e.kind = "granted" /\ e.grant = g /\ e.at = at
          /\ log' = log \cup {[grant |-> g, kind |-> "granted", op |-> NoOp,
                               at |-> at, scope |-> scope]}
    BY <1>8 DEF IssueGrant
  <2>2. PICK d : d.grant = g /\ d.at = at /\ log' = log \cup {d}
    BY <2>1
  <2>3. DistinctGrants'
    BY <2>1, <2>2 DEF MomentsInv, DistinctGrants
  <2> QED
    BY <1>U, <1>7, <1>8, <2>3 DEF IssueGrant
<1>9. CASE Tick \/ UNCHANGED vars
  <2>1. log' = log /\ clock' \in Nat /\ clock <= clock' /\ UNCHANGED run
    BY <1>U, <1>9 DEF Tick, vars, store
  <2> QED
    BY <1>7, <1>P, <2>1
<1> QED
  BY <1>1, <1>2, <1>3, <1>4, <1>5, <1>6, <1>8, <1>9 DEF Next, Step

LEMMA MomentsCorrect == Spec => [](AnswerSpecInv /\ MomentsInv)
<1>1. AnswerSpecInv => TypeOK /\ StampInv
  BY DEF AnswerSpecInv, EffectsInv
<1> QED
  BY <1>1, MomentsInit, MomentsStep, AnswerSpecCorrect, PTL DEF Spec

(* What a part of the log leaves in force, unless the rest strikes it.     *)
LEMMA InForceDownwards ==
  ASSUME NEW E, NEW F, E \subseteq F, NEW d \in E, d \in InForce(F)
  PROVE  d \in InForce(E)
  BY DEF InForce, Struck

(* A grant has at most one event in force: of two, the later strikes.      *)
LEMMA OneInForce ==
  ASSUME DistinctGrants, log \subseteq GrantEvent, NEW E, E \subseteq log,
         NEW d \in InForce(E), NEW e \in InForce(E), d.grant = e.grant
  PROVE  d = e
<1>1. d.at \in Int /\ e.at \in Int
  BY DEF InForce, GrantEvent
<1>2. ~(d.at > e.at) /\ ~(e.at > d.at)
  BY DEF InForce, Struck, FoldsAfter
<1>3. d.at = e.at
  BY <1>1, <1>2
<1> QED
  BY <1>3 DEF DistinctGrants, InForce

(* No termination reaches further than its caller's decision, whatever     *)
(* other executions did between the read, the selection and the commit:    *)
(* what it ends is what was selected or came after the read, on the terms  *)
(* selected, and its instant lies between the selection and the present    *)
(* (the loop over resolved_by_grant); the hosts' clocks may disagree.      *)
THEOREM NothingBeyondTheDecision == Spec => EndsWhatItSelected
<1> DEFINE Decided(f) ==
      \E c \in Callers :
         /\ f \in run[c].stamped /\ f.op = run[c].req.op
         /\ run[c].cascade_at <= f.at /\ f.at <= Clock(c)
         /\ \E d \in InForce(run[c].seen) : d.grant = f.grant /\ d.scope = f.scope
         /\ \A d \in (InForce(log) \ InForce(log')) \cap run[c].seen :
              /\ WorkOf[d.grant] = run[c].req.work
              /\ d.scope = f.scope
              /\ is_use_type_contained(d.scope.use_type, run[c].req.use)
              /\ ~scope_window_has_closed(d.scope, run[c].cascade_at)
<1>1. ASSUME AnswerSpecInv, MomentsInv, [Next]_vars,
             NEW f \in log' \ log, f.kind = "revoked"
      PROVE  Decided(f)
  <2>1. ASSUME NEW c \in Callers, Commit(c) PROVE Decided(f)
    <3>1. f \in run[c].stamped /\ log' = log \cup {f}
      BY <1>1, <2>1 DEF Commit, store
    <3>2. run[c].pc = "commit"
      BY <2>1 DEF Commit
    <3>3. f.op = run[c].req.op
      BY <1>1, <3>1 DEF AnswerSpecInv, EffectsInv, StampInv
    <3>4. SnapInv(c) /\ MomentInv(c)
      BY <1>1 DEF AnswerSpecInv, CallerInv, MomentsInv
    <3>5. PICK d \in run[c].affected : f.grant = d.grant /\ f.scope = d.scope
      BY <3>1, <3>2, <3>4 DEF SnapInv
    <3>6. d \in Affected(run[c].seen, run[c].req, run[c].cascade_at)
      BY <3>2, <3>4 DEF SnapInv
    <3>7. OfWork(run[c].seen, run[c].req.work) = run[c].seen
      BY <3>4 DEF SnapInv, OfWork
    <3>8. /\ d \in InForce(run[c].seen)
          /\ is_use_type_contained(d.scope.use_type, run[c].req.use)
          /\ ~scope_window_has_closed(d.scope, run[c].cascade_at)
      BY <3>6, <3>7 DEF Affected
    <3>9. ASSUME NEW e \in (InForce(log) \ InForce(log')) \cap run[c].seen
          PROVE  e = d /\ WorkOf[e.grant] = run[c].req.work
      <4>1. e.grant = f.grant
        BY <3>1, <3>9 DEF InForce, Struck
      <4>2. e \in InForce(run[c].seen)
        BY <3>4, <3>9, InForceDownwards DEF SnapInv
      <4>3. e = d
        BY <1>1, <3>4, <3>5, <3>8, <4>1, <4>2, OneInForce
           DEF MomentsInv, SnapInv, AnswerSpecInv, EffectsInv, TypeOK
      <4> QED
        BY <3>4, <3>9, <4>3 DEF SnapInv
    <3>10. run[c].cascade_at <= f.at /\ f.at <= Clock(c)
      BY <3>1, <3>2, <3>4 DEF MomentInv
    <3> QED
      BY <3>1, <3>3, <3>5, <3>8, <3>9, <3>10
  <2>2. ASSUME NEW c \in Callers,
               Begin(c) \/ Resend(c) \/ NewOperation(c) \/ ReadGrants(c)
               \/ Select(c) \/ Stamp(c) \/ ReadOutbox(c) \/ Deliver(c)
               \/ Respond(c) \/ Crash(c)
        PROVE  FALSE
    BY <1>1, <2>2 DEF Begin, Resend, NewOperation, ReadGrants, Select, Stamp,
                      ReadOutbox, Deliver, Respond, Crash, store
  <2>3. ASSUME NEW g \in Grants, NEW scope \in NewScopes, IssueGrant(g, scope)
        PROVE  FALSE
    BY <1>1, <2>3 DEF IssueGrant
  <2>4. CASE Tick \/ UNCHANGED vars
    BY <1>1, <2>4 DEF Tick, vars, store
  <2> QED
    BY <1>1, <2>1, <2>2, <2>3, <2>4 DEF Next, Step
<1>2. AnswerSpecInv /\ MomentsInv /\ [Next]_vars =>
        [\A f \in log' \ log : f.kind = "revoked" => Decided(f)]_vars
  BY <1>1
<1> QED
  BY <1>2, MomentsCorrect, PTL DEF Spec, EndsWhatItSelected

-----------------------------------------------------------------------------
(* Revocation holds, if the callers' clocks agree.  Then every grant a     *)
(* caller has read is older than the termination it stamps, so the fold of *)
(* the log puts the termination after it.                                  *)

ClocksAgree == \A c \in Callers : Skew[c] = 0

GrantsArePast == \A d \in log : d.kind = "granted" => d.at < clock

TimeInv(c) ==
  /\ run[c].pc \in {"terminate", "commit", "deliver", "done"} =>
       run[c].cascade_at <= clock
  /\ run[c].pc = "commit" =>
       \A e \in run[c].stamped : \A d \in run[c].seen :
         d.kind = "granted" => d.at < e.at
  /\ run[c].pc \in {"idle", "read"} => run[c].newly = {}
  /\ \A g \in run[c].newly : \A d \in run[c].seen :
       d.kind = "granted" /\ d.grant = g =>
         \E f \in log : f.kind = "revoked" /\ f.grant = g /\ d.at < f.at

TimesInv == GrantsArePast /\ \A c \in Callers : TimeInv(c)

LEMMA TimesInit == Init => TimesInv
<1> SUFFICES ASSUME Init PROVE TimesInv
  OBVIOUS
<1>1. GrantsArePast
  BY Constants DEF Init, CascadeAssumption, GrantsArePast
<1>2. \A r \in Request : /\ Start(r, "idle").pc = "idle"
                         /\ Start(r, "idle").newly = {}
  BY DEF Start
<1>3. \A c \in Callers : TimeInv(c)
  BY <1>2 DEF Init, TimeInv
<1> QED
  BY <1>1, <1>3 DEF TimesInv

(* A caller that does not move: the log and the clock only grow.           *)
LEMMA TimeKept ==
  ASSUME TypeOK, NEW c \in Callers, TimeInv(c), run'[c] = run[c],
         log \subseteq log', clock' \in Nat, clock <= clock'
  PROVE  TimeInv(c)'
<1>1. run[c].cascade_at \in Int /\ clock \in Nat
  BY DEF TypeOK, Run
<1> QED
  BY <1>1 DEF TimeInv

LEMMA TimesStep ==
  ASSUME ClocksAgree
  PROVE  AnswerSpecInv /\ TimesInv /\ [Next]_vars => TimesInv'
<1> SUFFICES ASSUME AnswerSpecInv, TimesInv, [Next]_vars PROVE TimesInv'
  OBVIOUS
<1>T. TypeOK /\ StampInv /\ TypeOK'
  BY TypeStep DEF AnswerSpecInv, EffectsInv
<1>U. run \in [Callers -> Run] /\ log \subseteq GrantEvent /\ clock \in Nat
      /\ clock' \in Nat
  BY <1>T DEF TypeOK
<1>G. log \subseteq log'
  BY LogGrows
<1>I. ASSUME NEW c \in Callers PROVE TimeInv(c) /\ SnapInv(c)
  BY DEF AnswerSpecInv, CallerInv, TimesInv
(* What there is to show of a step of caller c that keeps the clock.       *)
<1>M. ASSUME NEW c \in Callers, \A b \in Callers \ {c} : run'[b] = run[b],
             clock' = clock, GrantsArePast', TimeInv(c)'
      PROVE  TimesInv'
  <2>1. ASSUME NEW b \in Callers \ {c} PROVE TimeInv(b)'
    BY <1>T, <1>U, <1>G, <1>I, <1>M, <2>1, TimeKept
  <2> QED
    BY <1>M, <2>1 DEF TimesInv
<1>P. ASSUME log' = log, clock' = clock PROVE GrantsArePast'
  BY <1>P DEF TimesInv, GrantsArePast
<1>1. ASSUME NEW c \in Callers, Begin(c) \/ Respond(c) \/ Crash(c) PROVE TimesInv'
  <2>1. PICK at \in {"read", "done", "failed"} :
          /\ run' = [run EXCEPT ![c].pc = at]
          /\ at = "read" => run[c].pc = "idle"
          /\ at = "done" => run[c].pc = "deliver"
    BY <1>1 DEF Begin, Respond, Crash
  <2>2. log' = log /\ clock' = clock
    BY <1>1 DEF Begin, Respond, Crash, store
  <2>3. TimeInv(c)'
    BY <1>U, <1>I, <2>1, <2>2 DEF TimeInv, Run
  <2> QED
    BY <1>U, <1>M, <1>P, <2>1, <2>2, <2>3
<1>2. ASSUME NEW c \in Callers, Resend(c) \/ NewOperation(c) PROVE TimesInv'
  <2>1. PICK r : run' = [run EXCEPT ![c] = Start(r, "read")]
    BY <1>2 DEF Resend, NewOperation
  <2>2. log' = log /\ clock' = clock
    BY <1>2 DEF Resend, NewOperation, store
  <2>3. Start(r, "read").pc = "read" /\ Start(r, "read").newly = {}
    BY DEF Start
  <2>4. TimeInv(c)'
    BY <1>U, <2>1, <2>3 DEF TimeInv
  <2> QED
    BY <1>U, <1>M, <1>P, <2>1, <2>2, <2>4
<1>3. ASSUME NEW c \in Callers, ReadGrants(c) PROVE TimesInv'
  <2>1. run' = [run EXCEPT ![c].seen = OfWork(log, run[c].req.work),
                           ![c].pc = "select"]
    BY <1>3 DEF ReadGrants
  <2>2. log' = log /\ clock' = clock /\ run[c].pc = "read"
    BY <1>3 DEF ReadGrants, store
  <2>3. run'[c].pc = "select" /\ run'[c].newly = run[c].newly
    BY <1>U, <2>1 DEF Run
  <2>4. TimeInv(c)'
    BY <1>I, <2>2, <2>3 DEF TimeInv
  <2> QED
    BY <1>U, <1>M, <1>P, <2>1, <2>2, <2>4
<1>4. ASSUME NEW c \in Callers, Select(c) PROVE TimesInv'
  <2> DEFINE hit == Affected(run[c].seen, run[c].req, Clock(c))
  <2>1. run' = [run EXCEPT ![c].cascade_at = Clock(c), ![c].affected = hit,
                           ![c].todo = hit, ![c].pc = "terminate"]
    BY <1>4 DEF Select
  <2> HIDE DEF hit
  <2>2. log' = log /\ clock' = clock
    BY <1>4 DEF Select, store
  <2>3. /\ run'[c].pc = "terminate" /\ run'[c].newly = run[c].newly
        /\ run'[c].cascade_at = Clock(c) /\ run'[c].seen = run[c].seen
    BY <1>U, <2>1 DEF Run
  <2>4. Clock(c) = clock
    BY <1>U DEF ClocksAgree, Clock
  <2>5. TimeInv(c)'
    BY <1>U, <1>I, <2>2, <2>3, <2>4 DEF TimeInv
  <2> QED
    BY <1>U, <1>M, <1>P, <2>1, <2>2, <2>5
<1>5. ASSUME NEW c \in Callers, Stamp(c) PROVE TimesInv'
  <2>1. PICK e \in run[c].todo :
          run' = [run EXCEPT ![c].todo = @ \ {e},
                             ![c].stamped = {Revoked(e, run[c].req.op, Clock(c))},
                             ![c].pc = "commit"]
    BY <1>5 DEF Stamp
  <2> DEFINE f == Revoked(e, run[c].req.op, Clock(c))
  <2>2. f.at = clock
    <3>1. e \in GrantEvent /\ run[c].req.op \in Ops
      BY <1>U DEF Run, Request
    <3>2. Clock(c) = clock
      BY <1>U DEF ClocksAgree, Clock
    <3> QED
      BY <1>U, <3>1, <3>2, RevokedTyped
  <2> HIDE DEF f
  <2>3. run' = [run EXCEPT ![c].todo = @ \ {e}, ![c].stamped = {f},
                           ![c].pc = "commit"]
    BY <2>1 DEF f
  <2>4. log' = log /\ clock' = clock /\ run[c].pc = "terminate"
    BY <1>5 DEF Stamp, store
  <2>5. /\ run'[c].pc = "commit" /\ run'[c].newly = run[c].newly
        /\ run'[c].cascade_at = run[c].cascade_at /\ run'[c].seen = run[c].seen
        /\ run'[c].stamped = {f}
    BY <1>U, <2>3 DEF Run
  <2>6. \A d \in run[c].seen : d.kind = "granted" => d.at < clock
    BY <1>I DEF SnapInv, TimesInv, GrantsArePast
  <2>7. TimeInv(c)'
    BY <1>U, <1>I, <2>2, <2>4, <2>5, <2>6 DEF TimeInv
  <2> QED
    BY <1>U, <1>M, <1>P, <2>3, <2>4, <2>7
<1>6. ASSUME NEW c \in Callers, Commit(c) PROVE TimesInv'
  <2>1. PICK e \in run[c].stamped :
          IF Taken(log, e) \/ Taken(outbox, e)
          THEN /\ run' = [run EXCEPT ![c].stamped = {}, ![c].pc = "terminate"]
               /\ UNCHANGED store
          ELSE /\ log' = log \cup {e}
               /\ outbox' = outbox \cup {RowOf(e)}
               /\ run' = [run EXCEPT ![c].stamped = {}, ![c].pc = "terminate",
                                     ![c].newly = @ \cup {e.grant}]
               /\ UNCHANGED notices
    BY <1>6 DEF Commit
  <2>2. clock' = clock /\ run[c].pc = "commit"
    BY <1>6 DEF Commit
  <2>3. e.kind = "revoked"
    BY <1>T DEF StampInv
  <2>4. GrantsArePast'
    BY <2>1, <2>2, <2>3 DEF TimesInv, GrantsArePast, store
  <2>5. /\ run'[c].pc = "terminate" /\ run'[c].seen = run[c].seen
        /\ run'[c].cascade_at = run[c].cascade_at
        /\ \/ run'[c].newly = run[c].newly
           \/ e \in log' /\ run'[c].newly = run[c].newly \cup {e.grant}
    BY <1>U, <2>1 DEF Run
  <2>6. TimeInv(c)'
    BY <1>U, <1>G, <1>I, <2>2, <2>3, <2>5 DEF TimeInv
  <2>7. \A b \in Callers \ {c} : run'[b] = run[b]
    BY <1>U, <2>1
  <2> QED
    BY <1>M, <2>2, <2>4, <2>6, <2>7
<1>7. ASSUME NEW c \in Callers, ReadOutbox(c) \/ Deliver(c) PROVE TimesInv'
  <2>1. PICK rows, receipts :
          \/ /\ run[c].pc = "terminate"
             /\ run' = [run EXCEPT ![c].rows = rows, ![c].pc = "deliver"]
          \/ run' = [run EXCEPT ![c].rows = rows, ![c].receipts = receipts]
    BY <1>7 DEF ReadOutbox, Deliver
  <2>2. log' = log /\ clock' = clock
    BY <1>7 DEF ReadOutbox, Deliver, store
  <2>3. TimeInv(c)'
    BY <1>U, <1>I, <2>1, <2>2 DEF TimeInv, Run
  <2> QED
    BY <1>U, <1>M, <1>P, <2>1, <2>2, <2>3
<1>8. ASSUME UNCHANGED run, clock <= clock', GrantsArePast' PROVE TimesInv'
  <2>1. ASSUME NEW c \in Callers PROVE TimeInv(c)'
    BY <1>T, <1>U, <1>G, <1>I, <1>8, TimeKept
  <2> QED
    BY <1>8, <2>1 DEF TimesInv
<1>9. ASSUME NEW g \in Grants, NEW scope \in NewScopes, IssueGrant(g, scope)
      PROVE  TimesInv'
  <2>1. GrantsArePast'
    BY <1>U, <1>9, IssuedEvent DEF TimesInv, GrantsArePast, GrantEvent
  <2> QED
    BY <1>U, <1>8, <1>9, <2>1 DEF IssueGrant
<1>10. CASE Tick \/ UNCHANGED vars
  <2>1. log' = log /\ clock <= clock' /\ UNCHANGED run
    BY <1>U, <1>10 DEF Tick, vars, store
  <2>2. GrantsArePast'
    BY <1>U, <2>1 DEF TimesInv, GrantsArePast, GrantEvent
  <2> QED
    BY <1>8, <2>1, <2>2
<1> QED
  BY <1>1, <1>2, <1>3, <1>4, <1>5, <1>6, <1>7, <1>9, <1>10 DEF Next, Step

(* A window closed at one instant is closed at every later one.            *)
LEMMA WindowStaysClosed ==
  ASSUME NEW e \in GrantEvent, NEW s \in Int, NEW t \in Int, s <= t,
         scope_window_has_closed(e.scope, s)
  PROVE  scope_window_has_closed(e.scope, t)
<1>1. e.scope.valid_until \in Int
  BY DEF scope_window_has_closed, GrantEvent, Scope
<1> QED
  BY <1>1 DEF scope_window_has_closed

(* After the answer, nothing the cascade could read permits the revoked    *)
(* use again, except a grant re-issued after this same operation had ended *)
(* it: for every number of callers, grants and failures, provided the      *)
(* hosts' clocks agree (the fold orders events by issued_at).              *)
THEOREM RevocationIsEffective ==
  ASSUME ClocksAgree
  PROVE  Spec => []RevocationHolds
<1>1. ASSUME AnswerSpecInv, TimesInv PROVE RevocationHolds
  <2> SUFFICES ASSUME NEW c \in Callers, Done(c), NEW d \in run[c].seen,
                      StillPermits(d, run[c].req.use)
               PROVE  /\ d.grant \notin run[c].newly
                      /\ Terminations(run[c].req.op, d.grant) # {}
    BY DEF RevocationHolds
  <2> DEFINE l == run[c]
  <2>1. run \in [Callers -> Run] /\ log \subseteq GrantEvent /\ clock \in Nat
    BY <1>1 DEF AnswerSpecInv, EffectsInv, TypeOK
  <2>2. SnapInv(c) /\ AnswerInv(c) /\ TimeInv(c) /\ l.pc = "done"
    BY <1>1 DEF AnswerSpecInv, CallerInv, TimesInv, Done
  <2>3. d \in log /\ d \in GrantEvent /\ l.seen \subseteq log
    BY <2>1, <2>2 DEF SnapInv
  <2>4. d.kind = "granted" /\ ~Struck(log, d)
    BY DEF StillPermits, InForce
  <2>5. OfWork(l.seen, l.req.work) = l.seen
    BY <2>2 DEF SnapInv, OfWork
  <2>6. d \in InForce(l.seen)
    BY <2>3, InForceDownwards DEF StillPermits
  <2>7. l.cascade_at \in Int /\ l.cascade_at <= clock
    BY <2>1, <2>2 DEF TimeInv, Run
  <2>8. ~scope_window_has_closed(d.scope, l.cascade_at)
    BY <2>1, <2>3, <2>7, WindowStaysClosed DEF StillPermits
  <2>9. d \in l.affected
    BY <2>2, <2>5, <2>6, <2>8 DEF SnapInv, Affected, StillPermits
  <2>10. Terminations(l.req.op, d.grant) # {}
    <3>1. ReportIsTrue
      BY <1>1, AnswerTrue
    <3> QED
      BY <2>9, <3>1 DEF ReportIsTrue
  <2>11. d.grant \notin l.newly
    <3> SUFFICES ASSUME d.grant \in l.newly PROVE FALSE
      OBVIOUS
    <3>1. PICK f \in log : f.grant = d.grant /\ d.at < f.at
      BY <2>2, <2>4 DEF TimeInv
    <3>2. FoldsAfter(f, d)
      BY <2>1, <2>3, <3>1 DEF FoldsAfter, GrantEvent
    <3> QED
      BY <2>4, <3>1, <3>2 DEF Struck
  <2> QED
    BY <2>10, <2>11
<1>2. Spec => []TimesInv
  BY TimesInit, TimesStep, AnswerSpecCorrect, PTL DEF Spec
<1> QED
  BY <1>1, <1>2, AnswerSpecCorrect, PTL
-----------------------------------------------------------------------------
(* The refinement of ConsentPromise: every step keeps the promise or       *)
(* stutters, clocks that disagree included.                                *)

Ended(E) == GrantedEvents(E) \ InForce(E)

(* Appending f ends only events of f's grant, and revives nothing.         *)
LEMMA AppendEndsOnly ==
  ASSUME NEW E, NEW f
  PROVE  /\ Ended(E) \subseteq Ended(E \cup {f})
         /\ Ended(E \cup {f}) \subseteq GrantedEvents(E \cup {f})
         /\ \A e \in Ended(E \cup {f}) \ Ended(E) : e.grant = f.grant
  BY DEF Ended, GrantedEvents, InForce, Struck

LEMMA AppendedGrants ==
  ASSUME NEW E, NEW f
  PROVE  /\ f.kind = "granted" => GrantedEvents(E \cup {f}) = GrantedEvents(E) \cup {f}
         /\ f.kind # "granted" => GrantedEvents(E \cup {f}) = GrantedEvents(E)
  BY DEF GrantedEvents

(* The collections and the log decide where the promise is.                *)
LEMMA StoreStutters == UNCHANGED store => UNCHANGED Promise!vars
  BY DEF store, Promise!vars

LEMMA InitPromises == Init => Promise!Init
<1> SUFFICES ASSUME Init PROVE Promise!Init
  OBVIOUS
<1>1. log \subseteq GrantEvent /\ outbox = {} /\ notices = {}
  BY TypeInit DEF Init, TypeOK
<1> QED
  BY <1>1 DEF Promise!Init, GrantedEvents

LEMMA CommitTerminates ==
  ASSUME EffectsInv, NEW e \in GrantEvent, e.op \in Ops, e.kind = "revoked",
         ~Taken(outbox, e),
         log' = log \cup {e}, outbox' = outbox \cup {RowOf(e)},
         UNCHANGED notices
  PROVE  Promise!Terminate
<1> DEFINE x == <<e.op, e.grant>>
           owed == {EffectOf(r) : r \in outbox}
<1>1. e.grant \in Grants
  BY DEF GrantEvent
<1>2. EffectOf(RowOf(e)) = x
  BY RowOfTyped DEF EffectOf
<1>3. owed' = owed \cup {x}
  BY <1>2
<1>4. x \notin owed
  BY DEF Taken, EffectOf
<1>5. GrantedEvents(log') = GrantedEvents(log)
  BY AppendedGrants
<1>6. Promise!EndsOnly(e.grant)
  BY AppendEndsOnly DEF Promise!EndsOnly, Ended
<1>7. x \in (Ops \X Grants) \ owed /\ x[2] = e.grant
  BY <1>1, <1>4
<1>8. {EffectOf(r) : r \in notices}' = {EffectOf(r) : r \in notices}
  OBVIOUS
<1> QED
  BY <1>3, <1>5, <1>6, <1>7, <1>8 DEF Promise!Terminate

LEMMA IssueIssues ==
  ASSUME TypeOK, NEW g \in Grants, NEW scope \in NewScopes, IssueGrant(g, scope)
  PROVE  Promise!Issue
<1>1. PICK d \in GrantEvent :
        /\ d.kind = "granted" /\ d.grant = g
        /\ log' = log \cup {d} /\ UNCHANGED <<outbox, notices>>
  BY IssuedEvent DEF TypeOK
<1>2. d.kind = "granted" /\ d.grant = g
  BY <1>1
<1>3. log' = log \cup {d} /\ UNCHANGED <<outbox, notices>>
  BY <1>1
<1>4. GrantedEvents(log') = GrantedEvents(log) \cup {d}
  BY <1>2, <1>3, AppendedGrants
<1>5. Promise!EndsOnly(d.grant)
  BY <1>3, AppendEndsOnly DEF Promise!EndsOnly, Ended
<1>6. d \in GrantedEvents(log') /\ d \in GrantedEvents(GrantEvent)
  BY <1>1, <1>2, <1>4 DEF GrantedEvents
<1> QED
  BY <1>3, <1>4, <1>5, <1>6 DEF Promise!Issue

LEMMA DeliverNotifies ==
  ASSUME EffectsInv, NEW c \in Callers, Deliver(c)
  PROVE  Promise!Notify \/ UNCHANGED Promise!vars
<1>1. PICK r \in run[c].rows :
        notices' = IF Taken(notices, r) THEN notices ELSE notices \cup {r}
  BY DEF Deliver
<1>2. r \in outbox
  BY DEF EffectsInv, RowsInv
<1>3. UNCHANGED <<log, outbox>>
  BY DEF Deliver
<1>4. CASE Taken(notices, r)
  BY <1>1, <1>3, <1>4 DEF Promise!vars
<1>5. CASE ~Taken(notices, r)
  <2> DEFINE x == EffectOf(r)
             told == {EffectOf(n) : n \in notices}
  <2>1. told' = told \cup {x}
    BY <1>1, <1>5
  <2>2. x \notin told
    BY <1>5 DEF Taken, EffectOf
  <2>3. x \in {EffectOf(s) : s \in outbox}
    BY <1>2
  <2> QED
    BY <1>3, <2>1, <2>2, <2>3 DEF Promise!Notify
<1> QED
  BY <1>4, <1>5

LEMMA StepPromises ==
  EffectsInv /\ [Next]_vars => [Promise!Next]_Promise!vars
<1> SUFFICES ASSUME EffectsInv, [Next]_vars PROVE [Promise!Next]_Promise!vars
  OBVIOUS
<1>1. ASSUME NEW c \in Callers, Commit(c) PROVE [Promise!Next]_Promise!vars
  <2>1. PICK e \in run[c].stamped :
          IF Taken(log, e) \/ Taken(outbox, e)
          THEN UNCHANGED store
          ELSE log' = log \cup {e} /\ outbox' = outbox \cup {RowOf(e)}
               /\ UNCHANGED notices
    BY <1>1 DEF Commit
  <2>2. e \in GrantEvent /\ e.op \in Ops /\ e.kind = "revoked"
    BY DEF EffectsInv, TypeOK, StampInv, Run, Request
  <2> QED
    BY <2>1, <2>2, CommitTerminates, StoreStutters DEF Promise!Next
<1>2. ASSUME NEW c \in Callers, Deliver(c) PROVE [Promise!Next]_Promise!vars
  BY <1>2, DeliverNotifies DEF Promise!Next
<1>3. ASSUME NEW c \in Callers,
             Begin(c) \/ Resend(c) \/ NewOperation(c) \/ ReadGrants(c) \/ Select(c)
             \/ Stamp(c) \/ ReadOutbox(c) \/ Respond(c) \/ Crash(c)
      PROVE  [Promise!Next]_Promise!vars
  <2>1. UNCHANGED store
    BY <1>3 DEF Begin, Resend, NewOperation, ReadGrants, Select, Stamp, ReadOutbox,
                Respond, Crash
  <2> QED
    BY <2>1, StoreStutters
<1>4. ASSUME NEW g \in Grants, NEW scope \in NewScopes, IssueGrant(g, scope)
      PROVE  [Promise!Next]_Promise!vars
  BY <1>4, IssueIssues DEF Promise!Next, EffectsInv
<1>5. CASE Tick \/ UNCHANGED vars
  <2>1. UNCHANGED store
    BY <1>5 DEF Tick, vars
  <2> QED
    BY <2>1, StoreStutters
<1> QED
  BY <1>1, <1>2, <1>3, <1>4, <1>5 DEF Next, Step

(* The cascade, interrupted and overlapped as it may be, keeps the promise: *)
(* nothing ends without a newer grant or a termination on record, nothing  *)
(* ended authorises again, and an operation ends a grant and tells of it   *)
(* at most once (execute_revocation_cascade).                              *)
THEOREM CascadeKeepsThePromise == Spec => ImplementsPromise
  BY InitPromises, StepPromises, EffectsCorrect, PTL
     DEF Spec, ImplementsPromise, Promise!Spec
=============================================================================

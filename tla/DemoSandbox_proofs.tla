------------------------- MODULE DemoSandbox_proofs -------------------------
(***************************************************************************)
(* What TLAPS proves of DemoSandbox, for any number of instances and any   *)
(* finite set of requests, whatever the limits, and wherever a request     *)
(* fails.                                                                  *)
(***************************************************************************)
EXTENDS DemoSandbox, FiniteSetTheorems, TLAPS

(* The constants every proof below assumes, as one formula.                *)
LEMMA Constants == SandboxAssumption
  BY SandboxAssumed

-----------------------------------------------------------------------------
(* The inductive invariant. *)

(* A step that goes on with a request knows what it goes on with.          *)
PhaseOf(r) ==
  /\ task[r].pc \in {"number", "create"} =>
       task[r].kind = "register" /\ task[r].terms \in Terms /\ task[r].closed = {}
  /\ task[r].pc \in {"count", "cascade", "terminate"} => task[r].kind = "revoke"
  /\ task[r].pc \in {"decide", "append", "check", "granted"} => task[r].scope \in Scope

(* A registration holds a number that was free, or is taken by now; one    *)
(* that was confirmed has its row.                                         *)
RegistrationOf(r) ==
  /\ task[r].pc = "create" =>
       \E n \in 1..(Cardinality(demo_works) + 1) :
         n <= MAX_WORKS_PER_SESSION /\ task[r].work = Registered(n)
  /\ task[r].kind = "register" /\ task[r].pc = "ok" => Row(r) \in demo_works

(* What a request was promised closed is struck in the log, and what it    *)
(* was granted is there.                                                   *)
GrantOf(r) ==
  /\ task[r].seen \subseteq {e \in demo_grants : e.kind = "granted"}
  /\ \A u \in task[r].closed :
       \E f \in demo_grants :
         f.kind = "revoked" /\ f.work = task[r].work /\ f.scope.use_type = u
  /\ task[r].pc \in {"append", "check", "granted"} =>
       ~\E u \in task[r].closed : is_use_type_contained(u, task[r].scope.use_type)
  /\ task[r].pc \in {"check", "granted"} => Granted(r) \in demo_grants
  /\ task[r].pc = "granted" =>
       task[r].binds \/ \E f \in demo_grants : f.kind = "revoked" /\ f.grant = r

TaskOf(r) == PhaseOf(r) /\ RegistrationOf(r) /\ GrantOf(r)

TaskInv == \A r \in Requests : TaskOf(r)

(* All the events of a grant, whatever their kind, are about the work and  *)
(* the scope it was granted for.                                           *)
EventOf(e) ==
  /\ e.grant = Nobody =>
       e.work = BaseWork /\ e.scope = _demo_scope("training")
  /\ e.grant # Nobody =>
       /\ task[e.grant].pc \in {"check", "granted", "error"}
       /\ e.work = task[e.grant].work /\ e.scope = task[e.grant].scope

LogInv == \A e \in demo_grants : EventOf(e)

(* The registered works: numbered in turn, and one of each request.        *)
RegistryInv ==
  /\ IsFiniteSet(demo_works) /\ Cardinality(demo_works) <= MAX_WORKS_PER_SESSION
  /\ {w.work : w \in demo_works} = {Registered(n) : n \in 1..Cardinality(demo_works)}
  /\ \A v, w \in demo_works : v.work = w.work => v = w
  /\ \A w \in demo_works : task[w.by].kind = "register" /\ task[w.by].pc = "ok" /\ w = Row(w.by)

IInv == TypeOK /\ TaskInv /\ LogInv /\ RegistryInv

-----------------------------------------------------------------------------
(* Types. *)

LEMMA BlankTyped ==
  /\ Blank \in Task /\ Blank.pc = "new" /\ Blank.kind = "none" /\ Blank.seen = {}
  /\ Blank.closed = {} /\ Blank.work = BaseWork /\ BaseWork \in WorkIds
<1>1. BaseWork \in WorkIds
  BY DEF BaseWork, WorkIds
<1> QED
  BY <1>1 DEF Blank, Task, UseTypes

LEMMA CardinalityTyped ==
  ASSUME RegistryInv
  PROVE  Cardinality(demo_works) \in Nat
  BY FS_CardinalityType DEF RegistryInv

(* The next free number is one of the work ids: every registered work is   *)
(* of another request, and the one that asks has none yet.                 *)
LEMMA RoomForOneMore ==
  ASSUME TypeOK, RegistryInv, NEW r \in Requests, task[r].pc # "ok"
  PROVE  Cardinality(demo_works) + 1 <= Cardinality(Requests)
<1> DEFINE f == [w \in demo_works |-> w.by]
           others == Requests \ {r}
<1>1. \A w \in demo_works : w.by \in others
  BY DEF RegistryInv, TypeOK, WorkRow
<1>2. \A v, w \in demo_works : v.by = w.by => v = w
  BY DEF RegistryInv
<1>3. f \in Injection(demo_works, others)
  BY <1>1, <1>2 DEF Injection, IsInjective
<1>4. IsFiniteSet(Requests) /\ IsFiniteSet(others)
      /\ Cardinality(others) = Cardinality(Requests) - 1
  BY Constants, FS_RemoveElement DEF SandboxAssumption
<1>5. Cardinality(demo_works) <= Cardinality(others)
  BY <1>3, <1>4, FS_Injection
<1> QED
  BY <1>4, <1>5, CardinalityTyped, FS_CardinalityType

LEMMA RegisteredTyped ==
  ASSUME NEW n \in Nat, n >= 1, n <= Cardinality(Requests)
  PROVE  Registered(n) \in WorkIds
<1>1. n \in 1..Cardinality(Requests)
  BY Constants, FS_CardinalityType DEF SandboxAssumption
<1> QED
  BY <1>1 DEF Registered, WorkIds

LEMMA RegisteredInjective ==
  ASSUME NEW m, NEW n, Registered(m) = Registered(n)
  PROVE  m = n
  BY DEF Registered

-----------------------------------------------------------------------------
(* A step of one request: what it leaves as it was. *)

LEMMA OthersStay ==
  ASSUME TaskInv, NEW q \in Requests, task'[q] = task[q],
         demo_grants \subseteq demo_grants', demo_works \subseteq demo_works',
         Cardinality(demo_works) \in Nat, Cardinality(demo_works)' \in Nat,
         Cardinality(demo_works) <= Cardinality(demo_works)'
  PROVE  TaskOf(q)'
<1> USE DEF TaskInv, TaskOf
<1>1. PhaseOf(q)'
  BY DEF PhaseOf
<1>2. RegistrationOf(q)'
  <2>1. task'[q].pc = "create" =>
          \E n \in 1..(Cardinality(demo_works)' + 1) :
            n <= MAX_WORKS_PER_SESSION /\ task'[q].work = Registered(n)
    BY DEF RegistrationOf
  <2> QED
    BY <2>1 DEF RegistrationOf, Row
<1>3. GrantOf(q)'
  BY DEF GrantOf, Granted
<1> QED
  BY <1>1, <1>2, <1>3

(* The events of the log are about the request they name, which goes on    *)
(* with what was granted.                                                  *)
LEMMA LogStays ==
  ASSUME TypeOK, LogInv, NEW r \in Requests,
         \A q \in Requests \ {r} : task'[q] = task[q],
         task[r].pc \in {"check", "granted", "error"} =>
           /\ task'[r].pc \in {"check", "granted", "error"}
           /\ task'[r].work = task[r].work /\ task'[r].scope = task[r].scope
  PROVE  \A e \in demo_grants : EventOf(e)'
<1> SUFFICES ASSUME NEW e \in demo_grants PROVE EventOf(e)'
  OBVIOUS
<1>1. EventOf(e) /\ e.grant \in Requests \cup {Nobody}
  BY DEF LogInv, TypeOK, Event
<1>2. CASE e.grant = r
  BY <1>1, <1>2 DEF EventOf
<1>3. CASE e.grant # r
  BY <1>1, <1>3 DEF EventOf
<1> QED
  BY <1>2, <1>3

LEMMA RegistryStays ==
  ASSUME TypeOK, RegistryInv, NEW r \in Requests, UNCHANGED demo_works,
         \A q \in Requests \ {r} : task'[q] = task[q], task[r].pc # "ok"
  PROVE  RegistryInv'
<1>1. ASSUME NEW w \in demo_works
      PROVE  task'[w.by] = task[w.by]
  BY DEF RegistryInv, TypeOK, WorkRow
<1>2. \A w \in demo_works : task'[w.by].kind = "register" /\ task'[w.by].pc = "ok" /\ w = Row(w.by)'
  <2> SUFFICES ASSUME NEW w \in demo_works
               PROVE  task'[w.by].kind = "register" /\ task'[w.by].pc = "ok" /\ w = Row(w.by)'
    OBVIOUS
  <2>1. task[w.by].kind = "register" /\ task[w.by].pc = "ok" /\ w = Row(w.by)
    BY DEF RegistryInv
  <2> QED
    BY <1>1, <2>1 DEF Row
<1> QED
  BY <1>2 DEF RegistryInv

Counted ==
  /\ hits \in [Instances -> 0..MAX_SESSIONS_PER_IP_PER_HOUR]
  /\ interprets \in [Instances -> Nat] /\ signatures \in [Instances -> Nat]
  /\ faults \in 0..MaxFaults

(* A request moves on, at the instance that serves it or at one that is    *)
(* idle, and may append events about itself.                               *)
LEMMA MoveInv ==
  ASSUME IInv, Counted', NEW r \in Requests, NEW t \in Task,
         task' = [task EXCEPT ![r] = t],
         \/ task[r].pc \in Steps /\ t.at = task[r].at
         \/ task[r].pc = "new" /\ t.at \in Instances /\ Idle(t.at),
         task[r].pc = "check" =>
           t.pc \in {"granted", "error"} /\ t.work = task[r].work /\ t.scope = task[r].scope,
         UNCHANGED demo_works,
         demo_grants \subseteq demo_grants', demo_grants' \subseteq Event,
         \A e \in demo_grants' \ demo_grants : EventOf(e)',
         TaskOf(r)'
  PROVE  IInv'
<1> USE DEF IInv
<1>1. /\ task' \in [Requests -> Task] /\ task'[r] = t
      /\ \A q \in Requests \ {r} : task'[q] = task[q]
  BY DEF TypeOK
<1>2. ASSUME NEW q \in Requests, q # r, task[q].pc \in Steps, t.pc \in Steps
      PROVE  task[q].at # t.at
  <2>1. CASE task[r].pc \in Steps /\ t.at = task[r].at
    BY <1>2, <2>1 DEF TypeOK
  <2>2. CASE Idle(t.at)
    BY <1>2, <2>2 DEF Idle, Steps, Answers
  <2> QED
    BY <2>1, <2>2
<1>3. TypeOK'
  <2>1. \A p, q \in Requests :
          p # q /\ task'[p].pc \in Steps /\ task'[q].pc \in Steps => task'[p].at # task'[q].at
    <3> SUFFICES ASSUME NEW p \in Requests, NEW q \in Requests, p # q,
                        task'[p].pc \in Steps, task'[q].pc \in Steps
                 PROVE  task'[p].at # task'[q].at
      OBVIOUS
    <3>1. CASE p = r
      BY <1>1, <1>2, <3>1
    <3>2. CASE q = r
      BY <1>1, <1>2, <3>2
    <3>3. CASE p # r /\ q # r
      BY <1>1, <3>3 DEF TypeOK
    <3> QED
      BY <3>1, <3>2, <3>3
  <2> QED
    BY <1>1, <2>1 DEF TypeOK, Counted
<1>4. ASSUME NEW q \in Requests PROVE TaskOf(q)'
  <2>1. Cardinality(demo_works) \in Nat
    BY CardinalityTyped
  <2> QED
    BY <1>1, <2>1, OthersStay
<1>5. task[r].pc \notin {"ok", "granted", "error"}
  BY DEF Steps
<1>6. \A e \in demo_grants : EventOf(e)'
  BY <1>1, <1>5, LogStays
<1>7. RegistryInv'
  BY <1>1, <1>5, RegistryStays
<1> QED
  BY <1>3, <1>4, <1>6, <1>7 DEF TaskInv, LogInv

(* An idle instance takes a request on.                                    *)
LEMMA ArriveInv ==
  ASSUME IInv, Counted', NEW r \in Requests, NEW i \in Instances, NEW t \in Task,
         Arrive(r, i, t), UNCHANGED demo_works,
         demo_grants \subseteq demo_grants', demo_grants' \subseteq Event,
         \A e \in demo_grants' \ demo_grants : EventOf(e)',
         t.seen = {},
         t.pc \in {"number", "interpret", "count", "ok", "limited", "unknown"},
         t.pc = "number" => t.kind = "register" /\ t.terms \in Terms /\ t.closed = {},
         t.pc = "count" => t.kind = "revoke",
         t.pc = "ok" => t.kind # "register",
         \A u \in t.closed :
           \E f \in demo_grants : f.kind = "revoked" /\ f.work = t.work /\ f.scope.use_type = u
  PROVE  IInv'
<1> DEFINE a == [t EXCEPT !.at = i]
<1>1. /\ a \in Task /\ a.at = i /\ a.pc = t.pc /\ a.kind = t.kind /\ a.terms = t.terms
      /\ a.work = t.work /\ a.seen = t.seen /\ a.closed = t.closed
  BY DEF Task
<1>2. Idle(i) /\ task[r].pc = "new" /\ task' = [task EXCEPT ![r] = a]
  BY DEF Arrive
<1> HIDE DEF a
<1>3. task'[r] = a
  BY <1>2 DEF IInv, TypeOK
<1>4. TaskOf(r)'
  <2>1. PhaseOf(r)'
    BY <1>1, <1>3 DEF PhaseOf
  <2>2. RegistrationOf(r)'
    BY <1>1, <1>3 DEF RegistrationOf
  <2>3. GrantOf(r)'
    BY <1>1, <1>3 DEF GrantOf
  <2> QED
    BY <2>1, <2>2, <2>3 DEF TaskOf
<1> QED
  BY <1>1, <1>2, <1>4, MoveInv

-----------------------------------------------------------------------------
(* Requests arrive. *)

LEMMA HitTyped ==
  ASSUME TypeOK, NEW i \in Instances, UnderRate(i), Hit(i)
  PROVE  hits' \in [Instances -> 0..MAX_SESSIONS_PER_IP_PER_HOUR]
<1>1. hits[i] \in 0..MAX_SESSIONS_PER_IP_PER_HOUR /\ MAX_SESSIONS_PER_IP_PER_HOUR \in Nat
  BY Constants DEF TypeOK, SandboxAssumption
<1>2. hits[i] + 1 \in 0..MAX_SESSIONS_PER_IP_PER_HOUR
  BY <1>1 DEF UnderRate
<1> QED
  BY <1>2 DEF Hit, TypeOK

LEMMA TooManyHitsInv ==
  ASSUME IInv, faults' \in 0..MaxFaults, NEW r \in Requests, NEW i \in Instances,
         TooManyHits(r, i)
  PROVE  IInv'
<1>1. PICK k \in {"open", "ask", "interpret", "drill"} :
        Arrive(r, i, [Blank EXCEPT !.kind = k, !.pc = "limited"])
  BY DEF TooManyHits
<1> DEFINE t == [Blank EXCEPT !.kind = k, !.pc = "limited"]
<1>2. /\ t \in Task /\ t.pc = "limited" /\ t.seen = {} /\ t.closed = {}
  BY BlankTyped DEF Task, Routes, Answers
<1>3. Counted' /\ demo_grants' \subseteq Event /\ UNCHANGED store
  BY DEF TooManyHits, counters, store, Counted, IInv, TypeOK
<1> HIDE DEF t
<1>4. Arrive(r, i, t)
  BY <1>1 DEF t
<1> QED
  BY <1>2, <1>3, <1>4, ArriveInv DEF store

LEMMA OpenSessionInv ==
  ASSUME IInv, faults' \in 0..MaxFaults, NEW r \in Requests, NEW i \in Instances,
         open_session(r, i)
  PROVE  IInv'
<1> DEFINE t == [Blank EXCEPT !.kind = "open", !.pc = "ok"]
<1>1. /\ t \in Task /\ t.pc = "ok" /\ t.kind = "open" /\ t.seen = {} /\ t.closed = {}
  BY BlankTyped DEF Task, Routes, Answers
<1>2. Counted'
  BY HitTyped DEF open_session, Counted, IInv, TypeOK
<1>3. /\ BaseGrant(r) \in Event /\ BaseGrant(r).grant = Nobody
      /\ BaseGrant(r).work = BaseWork /\ BaseGrant(r).scope = _demo_scope("training")
  <2>1. _demo_scope("training") \in Scope
    BY DEF _demo_scope, Scope, UseTypes
  <2> QED
    BY <2>1, BlankTyped DEF BaseGrant, Event
<1>4. /\ demo_grants' = demo_grants \cup {BaseGrant(r)} /\ UNCHANGED demo_works
      /\ demo_grants \subseteq Event
  BY DEF open_session, IInv, TypeOK
<1>5. EventOf(BaseGrant(r))'
  BY <1>3 DEF EventOf, BaseGrant
<1>6. \A e \in demo_grants' \ demo_grants : EventOf(e)'
  BY <1>4, <1>5
<1> HIDE DEF t
<1>7. Arrive(r, i, t)
  BY DEF open_session, t
<1> QED
  BY <1>1, <1>2, <1>3, <1>4, <1>6, <1>7, ArriveInv

LEMMA EvaluateInv ==
  ASSUME IInv, faults' \in 0..MaxFaults, NEW r \in Requests, NEW i \in Instances,
         evaluate_license(r, i)
  PROVE  IInv'
<1> DEFINE E == _read_events(BaseWork)
           pc == IF E = {} THEN "unknown" ELSE "ok"
           binds == permits(active_grant_events(E), _demo_scope("fine_tuning"))
           t == [Blank EXCEPT !.kind = "evaluate", !.pc = pc, !.binds = binds]
<1>1. pc \in {"unknown", "ok"} /\ binds \in BOOLEAN
  BY DEF permits
<1>2. Arrive(r, i, t)
  BY DEF evaluate_license
<1> HIDE DEF pc, binds
<1>3. /\ t \in Task /\ t.pc = pc /\ t.kind = "evaluate" /\ t.seen = {} /\ t.closed = {}
  BY <1>1, BlankTyped DEF Task, Routes, Answers
<1>4. Counted' /\ demo_grants' \subseteq Event /\ UNCHANGED store
  BY DEF evaluate_license, counters, store, Counted, IInv, TypeOK
<1> HIDE DEF t
<1> QED
  BY <1>1, <1>2, <1>3, <1>4, ArriveInv DEF store

LEMMA DrillInv ==
  ASSUME IInv, faults' \in 0..MaxFaults, NEW r \in Requests, NEW i \in Instances,
         fleet_drill(r, i)
  PROVE  IInv'
<1> DEFINE t == [Blank EXCEPT !.kind = "drill", !.pc = "ok"]
<1>1. /\ t \in Task /\ t.pc = "ok" /\ t.kind = "drill" /\ t.seen = {} /\ t.closed = {}
  BY BlankTyped DEF Task, Routes, Answers
<1>2. Counted' /\ demo_grants' \subseteq Event /\ UNCHANGED store
  BY HitTyped DEF fleet_drill, store, Counted, IInv, TypeOK
<1> HIDE DEF t
<1>3. Arrive(r, i, t)
  BY DEF fleet_drill, t
<1> QED
  BY <1>1, <1>2, <1>3, ArriveInv DEF store

LEMMA WalkthroughInv ==
  ASSUME IInv, faults' \in 0..MaxFaults, NEW r \in Requests, NEW i \in Instances,
         interpret(r, i)
  PROVE  IInv'
<1>1. PICK text \in Cached, s \in Interpretations \cup {RecordedReading} :
        Arrive(r, i, [Blank EXCEPT !.kind = "interpret", !.pc = "ok",
                                   !.text = text, !.scope = s])
  BY DEF interpret
<1> DEFINE t == [Blank EXCEPT !.kind = "interpret", !.pc = "ok", !.text = text, !.scope = s]
<1>2. s \in Scope /\ text \in Texts
  BY Constants DEF SandboxAssumption, Texts
<1>3. /\ t \in Task /\ t.pc = "ok" /\ t.kind = "interpret" /\ t.seen = {} /\ t.closed = {}
  BY <1>2, BlankTyped DEF Task, Routes, Answers
<1>4. Counted' /\ demo_grants' \subseteq Event /\ UNCHANGED store
  BY HitTyped DEF interpret, store, Counted, IInv, TypeOK
<1> HIDE DEF t
<1>5. Arrive(r, i, t)
  BY <1>1 DEF t
<1> QED
  BY <1>3, <1>4, <1>5, ArriveInv DEF store

LEMMA RegisterWorkInv ==
  ASSUME IInv, faults' \in 0..MaxFaults, NEW r \in Requests, NEW i \in Instances,
         register_work(r, i)
  PROVE  IInv'
<1> DEFINE pc == IF _require_session THEN "number" ELSE "unknown"
<1>1. PICK c \in Claims :
        Arrive(r, i, [Blank EXCEPT !.kind = "register", !.terms = c, !.pc = pc])
  BY DEF register_work
<1> DEFINE t == [Blank EXCEPT !.kind = "register", !.terms = c, !.pc = pc]
<1>2. c \in Terms /\ pc \in {"number", "unknown"}
  BY Constants DEF SandboxAssumption
<1> HIDE DEF pc
<1>3. /\ t \in Task /\ t.pc = pc /\ t.kind = "register" /\ t.terms = c
      /\ t.seen = {} /\ t.closed = {}
  BY <1>2, BlankTyped DEF Task, Routes, Answers, Steps
<1>4. Counted' /\ demo_grants' \subseteq Event /\ UNCHANGED store
  BY DEF register_work, counters, store, Counted, IInv, TypeOK
<1> HIDE DEF t
<1>5. Arrive(r, i, t)
  BY <1>1 DEF t
<1> QED
  BY <1>2, <1>3, <1>4, <1>5, ArriveInv DEF store

(* What an answered revocation struck on a work is struck in the log.      *)
LEMMA StruckUses ==
  ASSUME IInv, NEW w, NEW u \in AnsweredRevocations(w)
  PROVE  /\ u \in UseTypes
         /\ \E f \in demo_grants : f.kind = "revoked" /\ f.work = w /\ f.scope.use_type = u
<1>1. PICK g \in demo_grants, f \in demo_grants :
        /\ u = g.scope.use_type /\ g.work = w
        /\ f.kind = "revoked" /\ f.grant = g.grant
  BY DEF AnsweredRevocations
<1>2. f.work = g.work /\ f.scope = g.scope
  BY <1>1 DEF IInv, LogInv, EventOf
<1>3. g.scope.use_type \in UseTypes
  BY DEF IInv, TypeOK, Event, Scope
<1> QED
  BY <1>1, <1>2, <1>3

LEMMA RequestLicenseInv ==
  ASSUME IInv, faults' \in 0..MaxFaults, NEW r \in Requests, NEW i \in Instances,
         request_license(r, i)
  PROVE  IInv'
<1>1. PICK w \in NamedWorks, text \in Texts, pc \in {"unknown", "limited", "interpret"} :
        Arrive(r, i, [[Blank EXCEPT !.kind = "ask", !.work = w, !.text = text,
                                    !.closed = AnsweredRevocations(w)] EXCEPT !.pc = pc])
  BY DEF request_license
<1> DEFINE closed == AnsweredRevocations(w)
           t == [[Blank EXCEPT !.kind = "ask", !.work = w, !.text = text,
                               !.closed = closed] EXCEPT !.pc = pc]
<1>2. /\ w \in WorkIds /\ closed \subseteq UseTypes
      /\ \A u \in closed :
           \E f \in demo_grants : f.kind = "revoked" /\ f.work = w /\ f.scope.use_type = u
  BY Constants, StruckUses DEF SandboxAssumption
<1> HIDE DEF closed
<1>3. /\ t \in Task /\ t.pc = pc /\ t.kind = "ask" /\ t.work = w
      /\ t.seen = {} /\ t.closed = closed
  BY <1>2, BlankTyped DEF Task, Routes, Answers, Steps
<1>4. interprets' \in [Instances -> Nat]
  BY DEF request_license, IInv, TypeOK
<1>5. Counted' /\ demo_grants' \subseteq Event /\ UNCHANGED store
  BY <1>4, HitTyped DEF request_license, store, Counted, IInv, TypeOK
<1> HIDE DEF t
<1>6. Arrive(r, i, t)
  BY <1>1 DEF t, closed
<1> QED
  BY <1>2, <1>3, <1>5, <1>6, ArriveInv DEF store

LEMMA RevokeInv ==
  ASSUME IInv, faults' \in 0..MaxFaults, NEW r \in Requests, NEW i \in Instances,
         revoke(r, i)
  PROVE  IInv'
<1>1. PICK w \in NamedWorks, u \in RevocableUses :
        Arrive(r, i, [Blank EXCEPT !.kind = "revoke", !.work = w, !.use = u, !.pc = "count"])
  BY DEF revoke
<1> DEFINE t == [Blank EXCEPT !.kind = "revoke", !.work = w, !.use = u, !.pc = "count"]
<1>2. w \in WorkIds /\ u \in UseTypes
  BY Constants DEF SandboxAssumption
<1>3. /\ t \in Task /\ t.pc = "count" /\ t.kind = "revoke" /\ t.seen = {} /\ t.closed = {}
  BY <1>2, BlankTyped DEF Task, Routes, Steps
<1>4. Counted' /\ demo_grants' \subseteq Event /\ UNCHANGED store
  BY DEF revoke, counters, store, Counted, IInv, TypeOK
<1> HIDE DEF t
<1>5. Arrive(r, i, t)
  BY <1>1 DEF t
<1> QED
  BY <1>3, <1>4, <1>5, ArriveInv DEF store

-----------------------------------------------------------------------------
(* Requests go on. *)

(* The registered works are counted: the next number is in the range.      *)
LEMMA NumberInv ==
  ASSUME IInv, faults' \in 0..MaxFaults, NEW r \in Requests, Number(r)
  PROVE  IInv'
<1> USE DEF IInv
<1>1. /\ task[r] \in Task /\ task[r].pc = "number" /\ UNCHANGED <<store, counters>>
      /\ Counted' /\ demo_grants' \subseteq Event
  BY DEF Number, At, TypeOK, Counted, store, counters
<1>2. CASE task' = [task EXCEPT ![r].pc = "limited"]
  <2> DEFINE t == [task[r] EXCEPT !.pc = "limited"]
  <2>1. t \in Task /\ t.at = task[r].at /\ task' = [task EXCEPT ![r] = t]
    BY <1>1, <1>2 DEF Task, Answers
  <2>2. TaskOf(r)'
    BY <1>1, <1>2 DEF TaskInv, TaskOf, PhaseOf, RegistrationOf, GrantOf, TypeOK, Task, store
  <2> HIDE DEF t
  <2> QED
    BY <1>1, <2>1, <2>2, MoveInv DEF Steps, store
<1>3. ASSUME Cardinality(demo_works) < MAX_WORKS_PER_SESSION,
             task' = [task EXCEPT ![r].pc = "create",
                                  ![r].work = Registered(Cardinality(demo_works) + 1)]
      PROVE  IInv'
  <2> DEFINE n == Cardinality(demo_works) + 1
             t == [task[r] EXCEPT !.pc = "create", !.work = Registered(n)]
  <2>1. Cardinality(demo_works) \in Nat /\ MAX_WORKS_PER_SESSION \in Nat
    BY CardinalityTyped, Constants DEF SandboxAssumption
  <2>2. n \in 1..(Cardinality(demo_works) + 1) /\ n <= MAX_WORKS_PER_SESSION
    BY <1>3, <2>1
  <2>3. Registered(n) \in WorkIds
    BY <1>1, <2>1, RoomForOneMore, RegisteredTyped
  <2>4. task' = [task EXCEPT ![r] = t]
    BY <1>3
  <2> HIDE DEF n
  <2>5. /\ t \in Task /\ t.at = task[r].at /\ t.pc = "create" /\ t.work = Registered(n)
        /\ t.kind = task[r].kind /\ t.terms = task[r].terms /\ t.closed = task[r].closed
        /\ t.seen = task[r].seen
    BY <1>1, <2>3 DEF Task, Steps
  <2> HIDE DEF t
  <2>6. task'[r] = t
    BY <2>4 DEF TypeOK
  <2>7. TaskOf(r)'
    <3>1. PhaseOf(r)'
      BY <1>1, <2>5, <2>6 DEF TaskInv, TaskOf, PhaseOf
    <3>2. RegistrationOf(r)'
      BY <1>1, <2>2, <2>5, <2>6 DEF RegistrationOf, store
    <3>3. GrantOf(r)'
      BY <1>1, <2>5, <2>6 DEF TaskInv, TaskOf, PhaseOf, GrantOf, store
    <3> QED
      BY <3>1, <3>2, <3>3 DEF TaskOf
  <2> QED
    BY <1>1, <2>4, <2>5, <2>7, MoveInv DEF Steps, store
<1>4. Cardinality(demo_works) \in Nat /\ MAX_WORKS_PER_SESSION \in Nat
  BY CardinalityTyped, Constants DEF SandboxAssumption
<1> QED
  BY <1>2, <1>3, <1>4 DEF Number, Answer

(* The step ends the request with pc, and changes nothing else.            *)
LEMMA AnswerInv ==
  ASSUME IInv, Counted', NEW r \in Requests, task[r].pc \in Steps,
         NEW pc \in Answers \cup Steps, pc \notin {"number", "create", "granted", "check"},
         pc = "append" => task[r].pc = "decide"
           /\ ~\E u \in task[r].closed : is_use_type_contained(u, task[r].scope.use_type),
         pc = "decide" => task[r].scope \in Scope,
         pc \in {"count", "cascade", "terminate"} => task[r].kind = "revoke",
         pc = "ok" => task[r].kind # "register",
         task[r].pc = "check" => pc = "error",
         Answer(r, pc), UNCHANGED store
  PROVE  IInv'
<1> USE DEF IInv
<1> DEFINE t == [task[r] EXCEPT !.pc = pc]
<1>1. task[r] \in Task /\ demo_grants' \subseteq Event
  BY DEF TypeOK, store
<1>2. /\ t \in Task /\ t.pc = pc /\ t.at = task[r].at /\ t.kind = task[r].kind
      /\ t.work = task[r].work /\ t.scope = task[r].scope /\ t.terms = task[r].terms
      /\ t.seen = task[r].seen /\ t.closed = task[r].closed
  BY <1>1 DEF Task
<1>3. task' = [task EXCEPT ![r] = t]
  BY DEF Answer
<1> HIDE DEF t
<1>4. task'[r] = t
  BY <1>3 DEF TypeOK
<1>5. TaskOf(r)'
  <2>1. PhaseOf(r)'
    BY <1>2, <1>4 DEF TaskInv, TaskOf, PhaseOf
  <2>2. RegistrationOf(r)'
    BY <1>2, <1>4 DEF TaskInv, TaskOf, RegistrationOf
  <2>3. GrantOf(r)'
    BY <1>2, <1>4 DEF TaskInv, TaskOf, GrantOf, store
  <2> QED
    BY <2>1, <2>2, <2>3 DEF TaskOf
<1> QED
  BY <1>1, <1>2, <1>3, <1>5, MoveInv DEF store

(* The row is created, unless its id was taken meanwhile: a free number    *)
(* that was free before is the next one still.                             *)
LEMMA CreateInv ==
  ASSUME IInv, faults' \in 0..MaxFaults, NEW r \in Requests, Create(r)
  PROVE  IInv'
<1> USE DEF IInv
<1>1. /\ task[r] \in Task /\ task[r].pc = "create" /\ UNCHANGED <<demo_grants, counters>>
      /\ Counted' /\ demo_grants' \subseteq Event
  BY DEF Create, At, TypeOK, Counted, counters
<1>2. CASE Answer(r, "error") /\ UNCHANGED demo_works
  BY <1>1, <1>2, AnswerInv DEF Answers, Steps, store
<1>3. CASE /\ ~\E w \in demo_works : w.work = task[r].work
           /\ demo_works' = demo_works \cup {Row(r)} /\ Answer(r, "ok")
  <2> DEFINE k == Cardinality(demo_works)
             t == [task[r] EXCEPT !.pc = "ok"]
  <2>1. k \in Nat /\ task[r].kind = "register" /\ task[r].terms \in Terms
        /\ task[r].work \in WorkIds
    BY <1>1, CardinalityTyped DEF TaskInv, TaskOf, PhaseOf, Task
  <2>2. PICK n \in 1..(k + 1) : n <= MAX_WORKS_PER_SESSION /\ task[r].work = Registered(n)
    BY <1>1 DEF TaskInv, TaskOf, RegistrationOf
  <2>3. n = k + 1
    <3>1. n \notin 1..k
      BY <1>3, <2>2 DEF RegistryInv
    <3> QED
      BY <2>1, <3>1
  <2>4. /\ t \in Task /\ t.pc = "ok" /\ t.at = task[r].at /\ t.kind = task[r].kind
        /\ t.work = task[r].work /\ t.scope = task[r].scope /\ t.terms = task[r].terms
        /\ t.seen = task[r].seen /\ t.closed = task[r].closed
    BY <1>1 DEF Task, Answers
  <2>5. task' = [task EXCEPT ![r] = t]
    BY <1>3 DEF Answer
  <2> HIDE DEF t
  <2>6. /\ task'[r] = t /\ task' \in [Requests -> Task]
        /\ \A q \in Requests \ {r} : task'[q] = task[q]
    BY <2>4, <2>5 DEF TypeOK
  <2>7. Row(r)' = Row(r) /\ Row(r) \in WorkRow /\ Row(r).work = Registered(n) /\ Row(r).by = r
    BY <2>1, <2>2, <2>4, <2>6 DEF Row, WorkRow
  <2>8. Row(r) \notin demo_works
    BY <1>3, <2>2, <2>7
  <2>9. IsFiniteSet(demo_works') /\ Cardinality(demo_works') = k + 1
    BY <1>3, <2>8, FS_AddElement DEF RegistryInv
  <2>10. TypeOK'
    <3>1. demo_works' \subseteq WorkRow
      BY <1>3, <2>7 DEF TypeOK
    <3>2. \A p, q \in Requests :
            p # q /\ task'[p].pc \in Steps /\ task'[q].pc \in Steps => task'[p].at # task'[q].at
      BY <2>4, <2>6 DEF TypeOK, Steps
    <3> QED
      BY <1>1, <2>6, <3>1, <3>2 DEF TypeOK, Counted
  <2>11. TaskOf(r)'
    <3>1. PhaseOf(r)'
      BY <2>4, <2>6 DEF PhaseOf
    <3>2. RegistrationOf(r)'
      BY <1>3, <2>4, <2>6, <2>7 DEF RegistrationOf
    <3>3. GrantOf(r)'
      BY <1>1, <2>4, <2>6 DEF TaskInv, TaskOf, GrantOf
    <3> QED
      BY <3>1, <3>2, <3>3 DEF TaskOf
  <2>12. ASSUME NEW q \in Requests PROVE TaskOf(q)'
    <3>1. /\ Cardinality(demo_works) \in Nat /\ Cardinality(demo_works)' \in Nat
          /\ Cardinality(demo_works) <= Cardinality(demo_works)'
      BY <2>1, <2>9
    <3>2. demo_grants \subseteq demo_grants' /\ demo_works \subseteq demo_works'
      BY <1>1, <1>3
    <3>3. CASE q = r
      BY <2>11, <3>3
    <3>4. CASE q # r
      BY <2>6, <3>1, <3>2, <3>4, OthersStay
    <3> QED
      BY <3>3, <3>4
  <2>13. \A e \in demo_grants : EventOf(e)'
    BY <1>1, <2>6, LogStays
  <2>14. RegistryInv'
    <3>1. {w.work : w \in demo_works'} = {Registered(m) : m \in 1..(k + 1)}
      <4>1. {w.work : w \in demo_works'} = {w.work : w \in demo_works} \cup {Registered(k + 1)}
        BY <1>3, <2>3, <2>7
      <4>2. 1..(k + 1) = 1..k \cup {k + 1}
        BY <2>1
      <4>3. {Registered(m) : m \in 1..(k + 1)} = {Registered(m) : m \in 1..k} \cup {Registered(k + 1)}
        BY <4>2
      <4> QED
        BY <4>1, <4>3 DEF RegistryInv
    <3>2. \A v, w \in demo_works' : v.work = w.work => v = w
      BY <1>3, <2>2, <2>7 DEF RegistryInv
    <3>3. ASSUME NEW w \in demo_works'
          PROVE  task'[w.by].kind = "register" /\ task'[w.by].pc = "ok" /\ w = Row(w.by)'
      <4>1. CASE w = Row(r)
        BY <2>1, <2>4, <2>6, <2>7, <4>1
      <4>2. CASE w \in demo_works
        <5>1. w.by \in Requests /\ w.by # r
          BY <1>1, <4>2 DEF RegistryInv, TypeOK, WorkRow
        <5>2. task[w.by].kind = "register" /\ task[w.by].pc = "ok" /\ w = Row(w.by)
          BY <4>2 DEF RegistryInv
        <5> QED
          BY <2>6, <5>1, <5>2 DEF Row
      <4> QED
        BY <1>3, <4>1, <4>2
    <3>4. Cardinality(demo_works') <= MAX_WORKS_PER_SESSION
      BY <2>2, <2>3, <2>9
    <3> QED
      BY <2>9, <3>1, <3>2, <3>3, <3>4 DEF RegistryInv
  <2> QED
    BY <1>1, <2>10, <2>12, <2>13, <2>14 DEF TaskInv, LogInv
<1> QED
  BY <1>2, <1>3 DEF Create

LEMMA InterpretInv ==
  ASSUME IInv, faults' \in 0..MaxFaults, NEW r \in Requests, Interpret(r)
  PROVE  IInv'
<1> USE DEF IInv
<1>1. /\ task[r] \in Task /\ task[r].pc = "interpret" /\ UNCHANGED <<store, counters>>
      /\ Counted' /\ demo_grants' \subseteq Event
  BY DEF Interpret, At, TypeOK, Counted, store, counters
<1>2. CASE Answer(r, "unavailable")
  BY <1>1, <1>2, AnswerInv DEF Answers, Steps
<1>3. ASSUME NEW s \in Reading(task[r].text),
             task' = [task EXCEPT ![r].pc = "decide", ![r].scope = s]
      PROVE  IInv'
  <2> DEFINE t == [task[r] EXCEPT !.pc = "decide", !.scope = s]
  <2>1. s \in Scope
    BY Constants DEF Reading, SandboxAssumption
  <2>2. /\ t \in Task /\ t.pc = "decide" /\ t.at = task[r].at /\ t.kind = task[r].kind
        /\ t.work = task[r].work /\ t.scope = s
        /\ t.seen = task[r].seen /\ t.closed = task[r].closed
    BY <1>1, <2>1 DEF Task, Steps
  <2>3. task' = [task EXCEPT ![r] = t]
    BY <1>3
  <2> HIDE DEF t
  <2>4. task'[r] = t
    BY <2>3 DEF TypeOK
  <2>5. TaskOf(r)'
    <3>1. PhaseOf(r)' /\ RegistrationOf(r)'
      BY <2>1, <2>2, <2>4 DEF PhaseOf, RegistrationOf
    <3>2. GrantOf(r)'
      BY <1>1, <2>2, <2>4 DEF TaskInv, TaskOf, GrantOf, store
    <3> QED
      BY <3>1, <3>2 DEF TaskOf
  <2> QED
    BY <1>1, <2>2, <2>3, <2>5, MoveInv DEF Steps, store
<1> QED
  BY <1>2, <1>3 DEF Interpret

(* The decision sees in the log whatever had been struck when the request  *)
(* arrived.                                                                *)
LEMMA DecideInv ==
  ASSUME IInv, faults' \in 0..MaxFaults, NEW r \in Requests, Decide(r)
  PROVE  IInv'
<1> USE DEF IInv
<1> DEFINE E == _read_events(task[r].work)
           s == task[r].scope
           grant == closing(E, s) = {} /\ WithinTerms(TermsOf(task[r].work), s)
<1>1. /\ task[r].pc = "decide" /\ UNCHANGED <<store, counters>> /\ Counted'
  BY DEF Decide, At, TypeOK, Counted, store, counters
<1>2. Answer(r, IF grant THEN "append" ELSE "refused")
  BY DEF Decide
<1>3. grant => ~\E u \in task[r].closed : is_use_type_contained(u, s.use_type)
  <2> SUFFICES ASSUME closing(E, s) = {}, NEW u \in task[r].closed,
                      is_use_type_contained(u, s.use_type)
               PROVE  FALSE
    OBVIOUS
  <2>1. PICK f \in demo_grants :
          f.kind = "revoked" /\ f.work = task[r].work /\ f.scope.use_type = u
    BY DEF TaskInv, TaskOf, GrantOf
  <2>2. f \in {e \in E : e.kind = "revoked"}
    BY <2>1 DEF _read_events
  <2>3. u \in closing(E, s)
    BY <2>1, <2>2 DEF closing
  <2> QED
    BY <2>3
<1> HIDE DEF grant
<1>4. CASE grant
  BY <1>1, <1>2, <1>3, <1>4, AnswerInv DEF Answers, Steps
<1>5. CASE ~grant
  BY <1>1, <1>2, <1>5, AnswerInv DEF Answers, Steps
<1> QED
  BY <1>4, <1>5

LEMMA AppendInv ==
  ASSUME IInv, faults' \in 0..MaxFaults, NEW r \in Requests, Append(r)
  PROVE  IInv'
<1> USE DEF IInv
<1>1. /\ task[r] \in Task /\ task[r].pc = "append" /\ UNCHANGED <<demo_works, counters>>
      /\ demo_grants' = demo_grants \cup {Granted(r)} /\ Counted'
  BY DEF Append, At, TypeOK, Counted, counters
<1> DEFINE t == [task[r] EXCEPT !.pc = "check"]
<1>2. /\ t \in Task /\ t.pc = "check" /\ t.at = task[r].at /\ t.kind = task[r].kind
      /\ t.work = task[r].work /\ t.scope = task[r].scope
      /\ t.seen = task[r].seen /\ t.closed = task[r].closed
  BY <1>1 DEF Task, Steps
<1>3. task' = [task EXCEPT ![r] = t]
  BY DEF Append, Answer
<1> HIDE DEF t
<1>4. task'[r] = t
  BY <1>3 DEF TypeOK
<1>5. /\ task[r].scope \in Scope
      /\ ~\E u \in task[r].closed : is_use_type_contained(u, task[r].scope.use_type)
  BY <1>1 DEF TaskInv, TaskOf, PhaseOf, GrantOf
<1>6. /\ Granted(r) \in Event /\ Granted(r)' = Granted(r) /\ Granted(r).grant = r
      /\ Granted(r).work = task[r].work /\ Granted(r).scope = task[r].scope
  BY <1>1, <1>2, <1>4, <1>5 DEF Granted, Event, Task
<1>7. \A e \in demo_grants' \ demo_grants : EventOf(e)'
  <2>1. r # Nobody
    BY Constants DEF SandboxAssumption
  <2>2. EventOf(Granted(r))'
    BY <1>2, <1>4, <1>6, <2>1 DEF EventOf, Granted
  <2> QED
    BY <1>1, <1>6, <2>2 DEF EventOf
<1>8. TaskOf(r)'
  <2>1. PhaseOf(r)' /\ RegistrationOf(r)'
    BY <1>2, <1>4, <1>5 DEF PhaseOf, RegistrationOf
  <2>2. GrantOf(r)'
    BY <1>1, <1>2, <1>4, <1>5, <1>6 DEF TaskInv, TaskOf, GrantOf
  <2> QED
    BY <2>1, <2>2 DEF TaskOf
<1>9. demo_grants' \subseteq Event
  BY <1>1, <1>6 DEF TypeOK
<1> QED
  BY <1>1, <1>2, <1>3, <1>7, <1>8, <1>9, MoveInv DEF Steps

(* What was appended binds, or somebody has struck it since.               *)
LEMMA HeldUnlessStruck ==
  ASSUME IInv, NEW r \in Requests, Granted(r) \in demo_grants, task[r].scope \in Scope
  PROVE  \/ permits(active_grant_events(_read_events(task[r].work)), task[r].scope)
         \/ \E f \in demo_grants : f.kind = "revoked" /\ f.grant = r
<1> SUFFICES ASSUME ~\E f \in demo_grants : f.kind = "revoked" /\ f.grant = r
             PROVE  permits(active_grant_events(_read_events(task[r].work)), task[r].scope)
  OBVIOUS
<1>1. /\ Granted(r).kind = "granted" /\ Granted(r).grant = r
      /\ Granted(r).work = task[r].work /\ Granted(r).scope = task[r].scope
  BY DEF Granted
<1>2. Granted(r) \in active_grant_events(_read_events(task[r].work))
  BY <1>1 DEF active_grant_events, _read_events
<1>3. is_use_type_contained(task[r].scope.use_type, task[r].scope.use_type)
  BY DEF Scope, is_use_type_contained, USE_TYPE_CONTAINMENT, UseTypes
<1> QED
  BY <1>1, <1>2, <1>3 DEF permits

LEMMA CheckInv ==
  ASSUME IInv, faults' \in 0..MaxFaults, NEW r \in Requests, Check(r)
  PROVE  IInv'
<1> USE DEF IInv
<1> DEFINE binds == permits(active_grant_events(_read_events(task[r].work)), task[r].scope)
           t == [task[r] EXCEPT !.pc = "granted", !.binds = binds]
<1>1. /\ task[r] \in Task /\ task[r].pc = "check" /\ UNCHANGED <<store, counters>>
      /\ Counted' /\ demo_grants' \subseteq Event
  BY DEF Check, At, TypeOK, Counted, store, counters
<1>2. /\ task[r].scope \in Scope /\ Granted(r) \in demo_grants
      /\ ~\E u \in task[r].closed : is_use_type_contained(u, task[r].scope.use_type)
  BY <1>1 DEF TaskInv, TaskOf, PhaseOf, GrantOf
<1>3. binds \in BOOLEAN
  BY DEF permits
<1>4. binds \/ \E f \in demo_grants : f.kind = "revoked" /\ f.grant = r
  BY <1>2, HeldUnlessStruck
<1>5. task' = [task EXCEPT ![r] = t]
  BY DEF Check
<1> HIDE DEF binds
<1>6. /\ t \in Task /\ t.pc = "granted" /\ t.at = task[r].at /\ t.kind = task[r].kind
      /\ t.work = task[r].work /\ t.scope = task[r].scope /\ t.binds = binds
      /\ t.seen = task[r].seen /\ t.closed = task[r].closed
  BY <1>1, <1>3 DEF Task, Answers
<1> HIDE DEF t
<1>7. task'[r] = t
  BY <1>5 DEF TypeOK
<1>8. TaskOf(r)'
  <2>1. PhaseOf(r)' /\ RegistrationOf(r)'
    BY <1>2, <1>6, <1>7 DEF PhaseOf, RegistrationOf
  <2>2. Granted(r)' \in demo_grants'
    BY <1>1, <1>2, <1>6, <1>7 DEF Granted, store
  <2>3. GrantOf(r)'
    BY <1>1, <1>2, <1>4, <1>6, <1>7, <2>2 DEF TaskInv, TaskOf, GrantOf, store
  <2> QED
    BY <2>1, <2>3 DEF TaskOf
<1> QED
  BY <1>1, <1>5, <1>6, <1>8, MoveInv DEF Steps, store

LEMMA CountInv ==
  ASSUME IInv, faults' \in 0..MaxFaults, NEW r \in Requests, Count(r)
  PROVE  IInv'
<1> USE DEF IInv
<1>1. PICK pc \in {"unknown", "limited", "cascade"} : Answer(r, pc)
  BY DEF Count
<1>2. task[r].pc = "count" /\ UNCHANGED <<store, hits, interprets>>
  BY DEF Count, At
<1>3. task[r].kind = "revoke"
  BY <1>2 DEF TaskInv, TaskOf, PhaseOf
<1>4. signatures' \in [Instances -> Nat]
  BY DEF Count, TypeOK
<1>5. Counted'
  BY <1>2, <1>4 DEF Counted, TypeOK
<1> QED
  BY <1>1, <1>2, <1>3, <1>5, AnswerInv DEF Answers, Steps

LEMMA CascadeInv ==
  ASSUME IInv, faults' \in 0..MaxFaults, NEW r \in Requests, Cascade(r)
  PROVE  IInv'
<1> USE DEF IInv
<1> DEFINE seen == {e \in active_grant_events(_read_events(task[r].work)) :
                      is_use_type_contained(e.scope.use_type, task[r].use)}
           t == [task[r] EXCEPT !.pc = "terminate", !.seen = seen]
<1>1. /\ task[r] \in Task /\ task[r].pc = "cascade" /\ UNCHANGED <<store, counters>>
      /\ Counted' /\ demo_grants' \subseteq Event
  BY DEF Cascade, At, TypeOK, Counted, store, counters
<1>2. seen \subseteq {e \in demo_grants : e.kind = "granted"} /\ seen \subseteq Event
  BY DEF active_grant_events, _read_events, TypeOK
<1>3. task' = [task EXCEPT ![r] = t]
  BY DEF Cascade
<1> HIDE DEF seen
<1>4. /\ t \in Task /\ t.pc = "terminate" /\ t.at = task[r].at /\ t.kind = task[r].kind
      /\ t.work = task[r].work /\ t.scope = task[r].scope
      /\ t.seen = seen /\ t.closed = task[r].closed
  BY <1>1, <1>2 DEF Task, Steps
<1> HIDE DEF t
<1>5. task'[r] = t
  BY <1>3 DEF TypeOK
<1>6. TaskOf(r)'
  <2>1. PhaseOf(r)' /\ RegistrationOf(r)'
    BY <1>1, <1>4, <1>5 DEF TaskInv, TaskOf, PhaseOf, RegistrationOf
  <2>2. GrantOf(r)'
    BY <1>1, <1>2, <1>4, <1>5 DEF TaskInv, TaskOf, GrantOf, store
  <2> QED
    BY <2>1, <2>2 DEF TaskOf
<1> QED
  BY <1>1, <1>3, <1>4, <1>6, MoveInv DEF Steps, store

(* A termination repeats the work and the scope of the grant it ends.      *)
LEMMA TerminateInv ==
  ASSUME IInv, faults' \in 0..MaxFaults, NEW r \in Requests, Terminate(r)
  PROVE  IInv'
<1> USE DEF IInv
<1>1. /\ task[r] \in Task /\ task[r].pc = "terminate" /\ UNCHANGED <<demo_works, counters>>
      /\ Counted' /\ task[r].kind = "revoke"
  BY DEF Terminate, At, TypeOK, Counted, counters, TaskInv, TaskOf, PhaseOf
<1>2. CASE Answer(r, "ok") /\ UNCHANGED demo_grants
  BY <1>1, <1>2, AnswerInv DEF Answers, Steps, store
<1>3. ASSUME NEW e \in task[r].seen, demo_grants' = demo_grants \cup {Terminated(r, e)},
             task' = [task EXCEPT ![r].seen = task[r].seen \ {e}]
      PROVE  IInv'
  <2> DEFINE f == Terminated(r, e)
             t == [task[r] EXCEPT !.seen = task[r].seen \ {e}]
  <2>1. e \in demo_grants /\ e \in Event /\ task[r].seen \subseteq Event
    BY <1>1 DEF TaskInv, TaskOf, GrantOf, TypeOK, Task
  <2>2. /\ f \in Event /\ f.kind = "revoked" /\ f.grant = e.grant
        /\ f.work = e.work /\ f.scope = e.scope
    BY <2>1 DEF Terminated, Event
  <2>3. /\ t \in Task /\ t.pc = task[r].pc /\ t.at = task[r].at /\ t.kind = task[r].kind
        /\ t.work = task[r].work /\ t.scope = task[r].scope
        /\ t.seen \subseteq task[r].seen /\ t.closed = task[r].closed
    BY <1>1, <2>1 DEF Task
  <2>4. task' = [task EXCEPT ![r] = t] /\ demo_grants' = demo_grants \cup {f}
    BY <1>3
  <2> HIDE DEF f, t
  <2>5. task'[r] = t /\ \A q \in Requests \ {r} : task'[q] = task[q]
    BY <2>4 DEF TypeOK
  <2>6. \A d \in demo_grants' \ demo_grants : EventOf(d)'
    <3>1. EventOf(e) /\ e.grant # r
      BY <1>1, <2>1, Constants DEF LogInv, EventOf, SandboxAssumption
    <3>2. e.grant # Nobody => e.grant \in Requests /\ task'[e.grant] = task[e.grant]
      BY <2>1, <2>5, <3>1 DEF Event
    <3>3. EventOf(f)'
      BY <2>2, <3>1, <3>2 DEF EventOf
    <3> QED
      BY <2>4, <3>3 DEF EventOf
  <2>7. TaskOf(r)'
    <3>1. PhaseOf(r)' /\ RegistrationOf(r)'
      BY <1>1, <2>3, <2>5 DEF PhaseOf, RegistrationOf
    <3>2. GrantOf(r)'
      <4>1. GrantOf(r)
        BY DEF TaskInv, TaskOf
      <4>2. /\ t.seen \subseteq {d \in demo_grants' : d.kind = "granted"}
            /\ \A u \in t.closed :
                 \E d \in demo_grants' :
                   d.kind = "revoked" /\ d.work = t.work /\ d.scope.use_type = u
        BY <2>3, <2>4, <4>1 DEF GrantOf
      <4> QED
        BY <1>1, <2>3, <2>5, <4>2 DEF GrantOf
    <3> QED
      BY <3>1, <3>2 DEF TaskOf
  <2>8. demo_grants' \subseteq Event
    BY <2>2, <2>4 DEF TypeOK
  <2> QED
    BY <1>1, <2>3, <2>4, <2>6, <2>7, <2>8, MoveInv DEF Steps
<1> QED
  <2>1. task \in [Requests -> Task]
    BY DEF TypeOK
  <2> QED
    BY <1>2, <1>3, <2>1 DEF Terminate

(* The call at hand fails; the request is over wherever it was.            *)
LEMMA FailInv ==
  ASSUME IInv, faults' \in 0..MaxFaults, NEW r \in Requests, Fail(r)
  PROVE  IInv'
<1>1. Counted' /\ UNCHANGED store
  BY DEF Fail, IInv, TypeOK, Counted, store, counters
<1> QED
  BY <1>1, AnswerInv DEF Fail, Answers, Steps

(* The counters are lost, or forgotten; nobody moves.                      *)
LEMMA ForgetInv ==
  ASSUME IInv, faults' \in 0..MaxFaults, (\E i \in Instances : Recycle(i)) \/ HourPasses
  PROVE  IInv'
<1> USE DEF IInv
<1>1. UNCHANGED store /\ UNCHANGED task
  BY DEF Recycle, HourPasses, store
<1>2. MAX_SESSIONS_PER_IP_PER_HOUR \in Nat
  BY Constants DEF SandboxAssumption
<1>3. Counted'
  BY <1>2 DEF Recycle, HourPasses, TypeOK, Counted
<1>4. TypeOK'
  BY <1>1, <1>3 DEF TypeOK, Counted, store
<1>5. TaskInv'
  BY <1>1 DEF TaskInv, TaskOf, PhaseOf, RegistrationOf, GrantOf, Row, Granted, store
<1>6. LogInv' /\ RegistryInv'
  BY <1>1 DEF LogInv, EventOf, RegistryInv, Row, store
<1> QED
  BY <1>4, <1>5, <1>6

-----------------------------------------------------------------------------
(* The invariant. *)

LEMMA InvInit == Init => IInv
<1> SUFFICES ASSUME Init PROVE IInv
  OBVIOUS
<1>1. \A r \in Requests : task[r] = Blank
  BY DEF Init
<1>2. TypeOK
  <2>1. task \in [Requests -> Task] /\ \A r \in Requests : task[r].pc \notin Steps
    BY <1>1, BlankTyped DEF Init, Steps
  <2>2. /\ MAX_SESSIONS_PER_IP_PER_HOUR \in Nat /\ MaxFaults \in Nat
    BY Constants DEF SandboxAssumption
  <2> QED
    BY <2>1, <2>2 DEF Init, TypeOK
<1>3. TaskInv
  BY <1>1, BlankTyped DEF TaskInv, TaskOf, PhaseOf, RegistrationOf, GrantOf
<1>4. LogInv
  BY DEF Init, LogInv
<1>5. RegistryInv
  <2>1. IsFiniteSet(demo_works) /\ Cardinality(demo_works) = 0
    BY FS_EmptySet DEF Init
  <2> QED
    BY <2>1, Constants DEF Init, RegistryInv, SandboxAssumption
<1> QED
  BY <1>2, <1>3, <1>4, <1>5 DEF IInv

LEMMA InvStep == IInv /\ [Next]_vars => IInv'
<1> SUFFICES ASSUME IInv, [Next]_vars PROVE IInv'
  OBVIOUS
<1>1. CASE UNCHANGED vars
  <2>1. TypeOK'
    BY <1>1 DEF vars, IInv, TypeOK
  <2>2. TaskInv'
    BY <1>1 DEF vars, IInv, TaskInv, TaskOf, PhaseOf, RegistrationOf, GrantOf, Row, Granted
  <2>3. LogInv' /\ RegistryInv'
    BY <1>1 DEF vars, IInv, LogInv, EventOf, RegistryInv, Row
  <2> QED
    BY <2>1, <2>2, <2>3 DEF IInv
<1>2. ASSUME NEW r \in Requests, UNCHANGED faults,
             \/ Step(r)
             \/ \E i \in Instances :
                  \/ open_session(r, i) \/ TooManyHits(r, i) \/ evaluate_license(r, i)
                  \/ fleet_drill(r, i) \/ interpret(r, i) \/ register_work(r, i)
                  \/ request_license(r, i) \/ revoke(r, i)
      PROVE  IInv'
  <2>1. faults' \in 0..MaxFaults
    BY <1>2 DEF IInv, TypeOK
  <2>2. CASE Step(r)
    BY <2>1, <2>2, NumberInv, CreateInv, InterpretInv, DecideInv, AppendInv, CheckInv,
       CountInv, CascadeInv, TerminateInv DEF Step
  <2>3. ASSUME NEW i \in Instances,
               \/ open_session(r, i) \/ TooManyHits(r, i) \/ evaluate_license(r, i)
               \/ fleet_drill(r, i) \/ interpret(r, i) \/ register_work(r, i)
               \/ request_license(r, i) \/ revoke(r, i)
        PROVE  IInv'
    BY <2>1, <2>3, OpenSessionInv, TooManyHitsInv, EvaluateInv, DrillInv, WalkthroughInv,
       RegisterWorkInv, RequestLicenseInv, RevokeInv
  <2> QED
    BY <1>2, <2>2, <2>3
<1>3. ASSUME faults < MaxFaults, faults' = faults + 1,
             \/ \E r \in Requests : Fail(r)
             \/ \E i \in Instances : Recycle(i)
             \/ HourPasses
      PROVE  IInv'
  <2>1. faults' \in 0..MaxFaults
    BY <1>3, Constants DEF IInv, TypeOK, SandboxAssumption
  <2> QED
    BY <1>3, <2>1, FailInv, ForgetInv
<1> QED
  BY <1>1, <1>2, <1>3 DEF Next

LEMMA Invariance == Spec => []IInv
  BY InvInit, InvStep, PTL DEF Spec

-----------------------------------------------------------------------------
(* Type correctness, and the limits that hold for every instance: no       *)
(* address hits more often than it may, and an instance serves one request *)
(* at a time.                                                              *)
THEOREM SandboxTypes == Spec => []TypeOK
<1>1. IInv => TypeOK
  BY DEF IInv
<1> QED
  BY <1>1, Invariance, PTL

(* RegistryKeepsClaims: two instances that count the works at the same     *)
(* time number them alike, and the id, created and never set, keeps the    *)
(* first claim (demo_store.register_work).                                 *)
THEOREM ClaimsAreKept == Spec => []RegistryKeepsClaims
<1>1. IInv => RegistryKeepsClaims
  <2> SUFFICES ASSUME IInv PROVE RegistryKeepsClaims
    OBVIOUS
  <2>1. ASSUME NEW r \in Requests, task[r].kind = "register", At(r, "ok")
        PROVE  {w \in demo_works : w.work = task[r].work} = {Row(r)}
    <3>1. Row(r) \in demo_works /\ Row(r).work = task[r].work
      BY <2>1 DEF IInv, TaskInv, TaskOf, RegistrationOf, At, Row
    <3> QED
      BY <3>1 DEF IInv, RegistryInv
  <2> QED
    BY <2>1 DEF RegistryKeepsClaims, IInv, RegistryInv
<1> QED
  BY <1>1, Invariance, PTL

(* ClosedOfferStaysClosed: a revocation that was answered is in the log    *)
(* that every later decision reads, whichever instance takes it.           *)
THEOREM ClosedOffers == Spec => []ClosedOfferStaysClosed
<1>1. IInv => ClosedOfferStaysClosed
  BY DEF IInv, TaskInv, TaskOf, GrantOf, ClosedOfferStaysClosed
<1> QED
  BY <1>1, Invariance, PTL

(* GrantedIsHeld: what the visitor is told was granted is in the log as it *)
(* was read, and binds unless a revocation overtook the answer.            *)
THEOREM GrantsAreHeld == Spec => []GrantedIsHeld
<1>1. IInv => GrantedIsHeld
  BY DEF IInv, TaskInv, TaskOf, GrantOf, GrantedIsHeld, At
<1> QED
  BY <1>1, Invariance, PTL
=============================================================================

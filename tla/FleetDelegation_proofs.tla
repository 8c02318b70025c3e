----------------------- MODULE FleetDelegation_proofs -----------------------
(***************************************************************************)
(* What TLAPS proves of FleetDelegation, for any finite number of runs,    *)
(* whether or not the clocks that stamp the registry's events agree.       *)
(***************************************************************************)
EXTENDS FleetDelegation, FiniteSetTheorems, TLAPS

-----------------------------------------------------------------------------
(* The inductive invariant. *)

Registered(r)   == [kind |-> "registered", run |-> r, at |-> run[r].registered_at]
Deregistered(r) == [kind |-> "deregistered", run |-> r, at |-> run[r].deregistered_at]

(* No two events of the runs have one position in the fold's order.        *)
StampsInv ==
  \A r, s \in Runs :
    /\ run[r].registered_at # 0 => run[r].registered_at # run[s].deregistered_at
    /\ run[r].registered_at # 0 /\ run[r].registered_at = run[s].registered_at => r = s
    /\ run[r].deregistered_at # 0 /\ run[r].deregistered_at = run[s].deregistered_at
         => r = s

(* The registry holds what the runs appended, each under its stamp.  The   *)
(* newest of its events exists: it is a maximum of a finite set, which the *)
(* appends keep.                                                           *)
RegistryInv ==
  /\ \A e \in registry : e = Registered(e.run) \/ e = Deregistered(e.run)
  /\ registry # {} => Newest(registry) # {}

(* Stamped by its run, and appended unless the run failed between the two. *)
PositionOf(r) ==
  /\ run[r].pc = "new" => run[r].registered_at = 0
  /\ run[r].pc = "publish" => run[r].registered_at # 0
  /\ run[r].pc \notin {"withdraw", "report", "rediscover", "rerouted", "failed"} =>
       run[r].deregistered_at = 0
  /\ run[r].pc \notin {"new", "publish", "failed"} => Registered(r) \in registry
  /\ run[r].pc = "withdraw" => run[r].deregistered_at > run[r].registered_at
  /\ run[r].pc \in {"report", "rediscover", "rerouted"} /\ run[r].deregistered_at # 0 =>
       Deregistered(r) \in registry
  /\ run[r].post => run[r].pc = "rerouted"

(* What AbandonedIsDeregistered and DiscoveryIsExplained say of one run.   *)
AnswersOf(r) ==
  /\ run[r].pc \in {"report", "rediscover", "rerouted"} =>
       \E e \in registry : e.kind = "deregistered" /\ e.at > run[r].registered_at
  /\ run[r].post =>
       \E e \in registry : /\ e.kind = "registered" /\ e.run # r
                           /\ e.at > run[r].registered_at
                           /\ e.at > run[r].deregistered_at
  /\ run[r].pc = "undiscovered" =>
       \E e \in registry : /\ e.kind = "deregistered" /\ e.run # r
                           /\ e.at > run[r].registered_at

PositionInv == \A r \in Runs : PositionOf(r)
AnswersInv  == \A r \in Runs : AnswersOf(r)

IInv == TypeOK /\ StampsInv /\ RegistryInv /\ PositionInv /\ AnswersInv

-----------------------------------------------------------------------------
(* What the newest event says. *)

(* A run whose publication is in the registry and that finds the agent     *)
(* gone: somebody's deregistration comes after that publication.           *)
LEMMA GoneIsDeregistered ==
  ASSUME IInv, NEW r \in Runs, Registered(r) \in registry, ~is_registered
  PROVE  \E e \in registry : /\ e.kind = "deregistered" /\ e.at > run[r].registered_at
                             /\ e.at = run[e.run].deregistered_at
<1>1. PICK e \in registry : \A f \in registry : f.at <= e.at
  BY DEF IInv, RegistryInv, Newest
<1>2. e.kind = "deregistered" /\ e \in Event
  BY <1>1 DEF is_registered, Newest, IInv, TypeOK, Event
<1>3. e = Deregistered(e.run)
  BY <1>1, <1>2 DEF IInv, RegistryInv, Registered
<1>4. run[r].registered_at <= e.at /\ run[r].registered_at \in Nat /\ run[r].registered_at # 0
  <2>1. Registered(r) \in Event
    BY DEF IInv, TypeOK
  <2> QED
    BY <1>1, <2>1 DEF Registered, Event, Stamps
<1>5. e.at # run[r].registered_at
  <2>1. e.at = run[e.run].deregistered_at /\ e.run \in Runs
    BY <1>2, <1>3 DEF Deregistered, Event
  <2> QED
    BY <1>4, <2>1 DEF IInv, StampsInv
<1>6. e.at \in Nat
  BY <1>2 DEF Event, Stamps
<1>7. e.at > run[r].registered_at
  BY <1>4, <1>5, <1>6
<1>8. e.at = run[e.run].deregistered_at
  BY <1>3 DEF Deregistered
<1> QED
  BY <1>1, <1>2, <1>7, <1>8

(* A registered agent: some run's publication comes after everything else. *)
LEMMA FoundIsRegistered ==
  ASSUME IInv, is_registered
  PROVE  \E e \in registry : /\ e.kind = "registered" /\ e.run \in Runs
                             /\ e.at = run[e.run].registered_at /\ e.at \in Nat \ {0}
                             /\ \A f \in registry : f.at <= e.at
<1>1. PICK e \in Newest(registry) : e.kind = "registered"
  BY DEF is_registered
<1>2. e \in registry /\ e \in Event /\ \A f \in registry : f.at <= e.at
  BY <1>1 DEF Newest, IInv, TypeOK
<1>3. e = Registered(e.run)
  BY <1>1, <1>2 DEF IInv, RegistryInv, Deregistered
<1> QED
  BY <1>1, <1>2, <1>3 DEF Registered, Event, Stamps

-----------------------------------------------------------------------------
(* The steps. *)

LEMMA GotoGoes ==
  ASSUME TypeOK, NEW r \in Runs, NEW pc, Goto(r, pc),
         pc \in {"publish", "negotiate", "discover", "dispatch", "quarantine", "look",
                "deregister", "withdraw", "report", "rediscover", "completed", "rerouted",
                "denied", "undiscovered", "failed"}
  PROVE  /\ run' \in [Runs -> Run] /\ run'[r] = [run[r] EXCEPT !.pc = pc]
         /\ \A s \in Runs \ {r} : run'[s] = run[s]
<1>1. [run[r] EXCEPT !.pc = pc] \in Run
  BY DEF TypeOK, Run
<1> QED
  BY <1>1 DEF Goto, TypeOK

LEMMA InvInit == Init => IInv
<1> SUFFICES ASSUME Init PROVE IInv
  OBVIOUS
<1> USE DEF Init
<1>1. TypeOK
  BY DEF TypeOK, Fresh, Run
<1>2. StampsInv /\ PositionInv
  BY DEF StampsInv, PositionInv, PositionOf, Fresh
<1>3. RegistryInv
  BY DEF RegistryInv
<1>4. AnswersInv
  BY DEF AnswersInv, AnswersOf, Fresh
<1> QED
  BY <1>1, <1>2, <1>3, <1>4 DEF IInv

(* A run moves on, appends nothing and keeps its stamps; what its new      *)
(* position claims of the registry must be so.                             *)
LEMMA MoveInv ==
  ASSUME IInv, NEW r \in Runs, UNCHANGED registry,
         run' \in [Runs -> Run], \A s \in Runs \ {r} : run'[s] = run[s],
         run'[r].registered_at = run[r].registered_at,
         run'[r].deregistered_at = run[r].deregistered_at,
         PositionOf(r)', AnswersOf(r)'
  PROVE  IInv'
<1> USE DEF IInv
<1>1. \A s \in Runs : /\ run'[s].registered_at = run[s].registered_at
                      /\ run'[s].deregistered_at = run[s].deregistered_at
  OBVIOUS
<1>2. \A s \in Runs : Registered(s)' = Registered(s) /\ Deregistered(s)' = Deregistered(s)
  BY <1>1 DEF Registered, Deregistered
<1>3. TypeOK'
  BY DEF TypeOK
<1>4. StampsInv'
  BY <1>1 DEF StampsInv
<1>5. RegistryInv'
  <2>1. ASSUME NEW e \in registry PROVE e = Registered(e.run)' \/ e = Deregistered(e.run)'
    BY <1>2 DEF TypeOK, Event, RegistryInv
  <2> QED
    BY <2>1 DEF RegistryInv, Newest, Registered, Deregistered
<1>6. ASSUME NEW s \in Runs, s # r PROVE PositionOf(s)' /\ AnswersOf(s)'
  BY <1>2, <1>6 DEF PositionInv, PositionOf, AnswersInv, AnswersOf
<1> QED
  BY <1>3, <1>4, <1>5, <1>6 DEF PositionInv, AnswersInv

(* Taking a position nobody has taken: a run's next event has it alone.    *)
LEMMA StampIsFree ==
  ASSUME TypeOK, NEW r \in Runs, NEW at \in Stamps, MayStamp(r, at)
  PROVE  /\ at \in Nat \ {0} /\ at > run[r].registered_at
         /\ \A s \in Runs : at # run[s].registered_at /\ at # run[s].deregistered_at
  BY DEF MayStamp, Taken, Stamps

LEMMA PublishInv ==
  ASSUME IInv, NEW r \in Runs, Publish(r)
  PROVE  IInv'
<1> USE DEF IInv
<1>1. PICK at \in 1..(MaxStamp - Cardinality(Runs)) :
        /\ MayStamp(r, at)
        /\ run' = [run EXCEPT ![r].pc = "publish", ![r].registered_at = at]
  BY DEF Publish
<1>2. at \in Stamps
  <2>1. Cardinality(Runs) \in Nat /\ MaxStamp \in Nat
    BY FleetAssumed, FS_CardinalityType DEF FleetAssumption
  <2> QED
    BY <2>1 DEF Stamps
<1>3. /\ at \in Nat \ {0}
      /\ \A s \in Runs : at # run[s].registered_at /\ at # run[s].deregistered_at
  BY <1>1, <1>2, StampIsFree
<1>4. run[r].pc = "new" /\ registry' = registry
  BY DEF Publish
<1>5. /\ run' \in [Runs -> Run]
      /\ run'[r] = [run[r] EXCEPT !.pc = "publish", !.registered_at = at]
      /\ \A s \in Runs \ {r} : run'[s] = run[s]
  <2>1. [run[r] EXCEPT !.pc = "publish", !.registered_at = at] \in Run
    BY <1>2 DEF TypeOK, Run
  <2> QED
    BY <1>1, <2>1 DEF TypeOK
<1>6. /\ run'[r].pc = "publish" /\ run'[r].registered_at = at
      /\ run'[r].deregistered_at = 0 /\ ~run'[r].post
      /\ run[r].registered_at = 0 /\ run[r].deregistered_at = 0
  BY <1>4, <1>5 DEF TypeOK, Run, PositionInv, PositionOf
<1>7. \A s \in Runs : /\ s # r => run'[s] = run[s]
                      /\ run'[s].registered_at = IF s = r THEN at ELSE run[s].registered_at
                      /\ run'[s].deregistered_at = run[s].deregistered_at
                      /\ s # r => Registered(s)' = Registered(s)
                      /\ Deregistered(s)' = Deregistered(s)
  BY <1>5, <1>6 DEF Registered, Deregistered
<1>8. \A e \in registry : e.run # r /\ e.run \in Runs
  BY <1>6 DEF TypeOK, Event, Stamps, RegistryInv, Registered, Deregistered
<1>9. TypeOK'
  BY <1>4, <1>5 DEF TypeOK
<1>10. StampsInv'
  BY <1>3, <1>7 DEF StampsInv
<1>11. RegistryInv'
  <2>1. ASSUME NEW e \in registry PROVE e = Registered(e.run)' \/ e = Deregistered(e.run)'
    BY <1>7, <1>8 DEF RegistryInv
  <2> QED
    BY <1>4, <2>1 DEF RegistryInv, Newest, Registered, Deregistered
<1>12. ASSUME NEW s \in Runs PROVE PositionOf(s)'
  <2>1. CASE s = r
    BY <1>3, <1>6, <2>1 DEF PositionOf
  <2>2. CASE s # r
    BY <1>4, <1>7, <2>2 DEF PositionInv, PositionOf
  <2> QED
    BY <2>1, <2>2
<1>13. ASSUME NEW s \in Runs PROVE AnswersOf(s)'
  <2>1. CASE s = r
    BY <1>6, <2>1 DEF AnswersOf
  <2>2. CASE s # r
    BY <1>4, <1>7, <2>2 DEF AnswersInv, AnswersOf
  <2> QED
    BY <2>1, <2>2
<1> QED
  BY <1>9, <1>10, <1>11, <1>12, <1>13 DEF PositionInv, AnswersInv

LEMMA DeregisterInv ==
  ASSUME IInv, NEW r \in Runs, Deregister(r)
  PROVE  IInv'
<1> USE DEF IInv
<1>1. PICK at \in Stamps :
        /\ MayStamp(r, at)
        /\ run' = [run EXCEPT ![r].pc = "withdraw", ![r].deregistered_at = at]
  BY DEF Deregister
<1>2. /\ at \in Nat \ {0} /\ at > run[r].registered_at
      /\ \A s \in Runs : at # run[s].registered_at /\ at # run[s].deregistered_at
  BY <1>1, StampIsFree
<1>3. run[r].pc = "deregister" /\ registry' = registry
  BY DEF Deregister
<1>4. /\ run' \in [Runs -> Run]
      /\ run'[r] = [run[r] EXCEPT !.pc = "withdraw", !.deregistered_at = at]
      /\ \A s \in Runs \ {r} : run'[s] = run[s]
  <2>1. [run[r] EXCEPT !.pc = "withdraw", !.deregistered_at = at] \in Run
    BY DEF TypeOK, Run
  <2> QED
    BY <1>1, <2>1 DEF TypeOK
<1>5. /\ run'[r].pc = "withdraw" /\ run'[r].deregistered_at = at
      /\ run'[r].registered_at = run[r].registered_at
      /\ ~run'[r].post /\ run[r].deregistered_at = 0
      /\ Registered(r)' = Registered(r) /\ Registered(r) \in registry
  BY <1>3, <1>4 DEF TypeOK, Run, PositionInv, PositionOf, Registered
<1>6. \A s \in Runs : /\ s # r => run'[s] = run[s]
                      /\ run'[s].registered_at = run[s].registered_at
                      /\ run'[s].deregistered_at = IF s = r THEN at
                                                  ELSE run[s].deregistered_at
                      /\ Registered(s)' = Registered(s)
                      /\ s # r => Deregistered(s)' = Deregistered(s)
  BY <1>4, <1>5 DEF Registered, Deregistered
<1>7. TypeOK'
  BY <1>3, <1>4 DEF TypeOK
<1>8. StampsInv'
  BY <1>2, <1>6 DEF StampsInv
<1>9. RegistryInv'
  <2>1. ASSUME NEW e \in registry PROVE e = Registered(e.run)' \/ e = Deregistered(e.run)'
    <3>1. e \in Event /\ (e = Registered(e.run) \/ e = Deregistered(e.run))
      BY DEF TypeOK, RegistryInv
    <3>2. CASE e.run = r
      BY <1>5, <3>1, <3>2 DEF Event, Stamps, Deregistered
    <3>3. CASE e.run # r
      BY <1>6, <3>1, <3>3 DEF Event
    <3> QED
      BY <3>2, <3>3
  <2> QED
    BY <1>3, <2>1 DEF RegistryInv, Newest, Registered, Deregistered
<1>10. ASSUME NEW s \in Runs PROVE PositionOf(s)'
  <2>1. CASE s = r
    BY <1>2, <1>3, <1>5, <2>1 DEF PositionOf
  <2>2. CASE s # r
    BY <1>3, <1>6, <2>2 DEF PositionInv, PositionOf
  <2> QED
    BY <2>1, <2>2
<1>11. ASSUME NEW s \in Runs PROVE AnswersOf(s)'
  <2>1. CASE s = r
    BY <1>5, <2>1 DEF AnswersOf
  <2>2. CASE s # r
    BY <1>3, <1>6, <2>2 DEF AnswersInv, AnswersOf
  <2> QED
    BY <2>1, <2>2
<1> QED
  BY <1>7, <1>8, <1>9, <1>10, <1>11 DEF PositionInv, AnswersInv

(* An append: the run's own event, at its own stamp.  The newest event is  *)
(* the one that was, or this one.                                          *)
LEMMA AppendInv ==
  ASSUME IInv, NEW r \in Runs, NEW e \in Event, NEW pc,
         \/ run[r].pc = "publish" /\ pc = "negotiate" /\ e = Registered(r)
         \/ run[r].pc = "withdraw" /\ pc = "report" /\ e = Deregistered(r),
         registry' = registry \cup {e}, Goto(r, pc)
  PROVE  IInv'
<1> USE DEF IInv
<1>1. /\ run' \in [Runs -> Run] /\ run'[r] = [run[r] EXCEPT !.pc = pc]
      /\ \A s \in Runs \ {r} : run'[s] = run[s]
  BY GotoGoes
<1>2. /\ run'[r].pc = pc /\ run'[r].registered_at = run[r].registered_at
      /\ run'[r].deregistered_at = run[r].deregistered_at /\ run'[r].post = run[r].post
  BY <1>1 DEF TypeOK, Run
<1>3. \A s \in Runs : Registered(s)' = Registered(s) /\ Deregistered(s)' = Deregistered(s)
  BY <1>1, <1>2 DEF Registered, Deregistered
<1>4. TypeOK'
  BY <1>1 DEF TypeOK
<1>5. StampsInv'
  <2>1. \A s \in Runs : /\ run'[s].registered_at = run[s].registered_at
                        /\ run'[s].deregistered_at = run[s].deregistered_at
    BY <1>1, <1>2
  <2> QED
    BY <2>1 DEF StampsInv
<1>6. RegistryInv'
  <2>1. ASSUME NEW f \in registry' PROVE f = Registered(f.run)' \/ f = Deregistered(f.run)'
    <3>1. f.run \in Runs /\ (f = Registered(f.run) \/ f = Deregistered(f.run))
      BY <1>4 DEF TypeOK, Event, RegistryInv, Registered, Deregistered
    <3> QED
      BY <1>3, <3>1
  <2>2. \E f \in registry' : \A g \in registry' : g.at <= f.at
    <3>1. e.at \in Nat /\ \A g \in registry : g.at \in Nat
      BY DEF TypeOK, Event, Stamps
    <3>2. CASE registry = {}
      BY <3>1, <3>2
    <3>3. CASE registry # {}
      <4>1. PICK f \in registry : \A g \in registry : g.at <= f.at
        BY <3>3 DEF RegistryInv, Newest
      <4>2. CASE e.at <= f.at
        BY <4>1, <4>2
      <4>3. CASE f.at < e.at
        BY <3>1, <4>1, <4>3
      <4> QED
        BY <3>1, <4>2, <4>3
    <3> QED
      BY <3>2, <3>3
  <2> QED
    BY <2>1, <2>2 DEF RegistryInv, Newest, Registered, Deregistered
<1>7. ASSUME NEW s \in Runs PROVE PositionOf(s)'
  <2>1. CASE s = r
    BY <1>2, <1>3, <2>1 DEF PositionInv, PositionOf
  <2>2. CASE s # r
    BY <1>1, <1>3, <2>2 DEF PositionInv, PositionOf
  <2> QED
    BY <2>1, <2>2
<1>8. ASSUME NEW s \in Runs PROVE AnswersOf(s)'
  <2>1. CASE s = r
    <3>1. ~run'[r].post
      BY <1>2 DEF PositionInv, PositionOf
    <3>2. pc = "report" => e.kind = "deregistered" /\ e.at > run[r].registered_at
      BY DEF PositionInv, PositionOf, Deregistered
    <3> QED
      BY <1>2, <2>1, <3>1, <3>2 DEF AnswersOf
  <2>2. CASE s # r
    BY <1>1, <2>2 DEF AnswersInv, AnswersOf
  <2> QED
    BY <2>1, <2>2
<1> QED
  BY <1>4, <1>5, <1>6, <1>7, <1>8 DEF PositionInv, AnswersInv

LEMMA ProceedInv ==
  ASSUME IInv, NEW r \in Runs,
         Negotiate(r) \/ Dispatch(r) \/ Quarantine(r) \/ Fail(r)
  PROVE  IInv'
<1> USE DEF IInv
<1>1. PICK pc \in {"discover", "denied", "completed", "quarantine", "look", "failed"},
           before \in BOOLEAN :
        run' = [run EXCEPT ![r].pc = pc, ![r].before = before]
  <2>1. is_registered \in BOOLEAN /\ run[r].before \in BOOLEAN
    BY DEF is_registered, TypeOK, Run
  <2>2. CASE Quarantine(r)
    BY <2>1, <2>2 DEF Quarantine
  <2>3. ASSUME NEW pc, Goto(r, pc)
        PROVE  run' = [run EXCEPT ![r].pc = pc, ![r].before = run[r].before]
    BY <2>3 DEF Goto, TypeOK, Run
  <2> QED
    BY <2>1, <2>2, <2>3 DEF Negotiate, Dispatch, Fail
<1>2. /\ registry' = registry /\ run[r].pc # "new" /\ ~run[r].post
      /\ pc # "failed" =>
           run[r].pc \in {"negotiate", "dispatch", "quarantine"}
  BY <1>1 DEF Negotiate, Dispatch, Quarantine, Fail, Goto, Over, TypeOK, Run, PositionInv,
              PositionOf
<1>3. /\ run' \in [Runs -> Run] /\ \A s \in Runs \ {r} : run'[s] = run[s]
      /\ run'[r] = [run[r] EXCEPT !.pc = pc, !.before = before]
  <2>1. [run[r] EXCEPT !.pc = pc, !.before = before] \in Run
    BY DEF TypeOK, Run
  <2> QED
    BY <1>1, <2>1 DEF TypeOK
<1>4. /\ run'[r].pc = pc /\ run'[r].registered_at = run[r].registered_at
      /\ run'[r].deregistered_at = run[r].deregistered_at /\ ~run'[r].post
  BY <1>2, <1>3 DEF TypeOK, Run
<1>5. PositionOf(r)' /\ AnswersOf(r)'
  BY <1>2, <1>4 DEF PositionInv, PositionOf, AnswersOf, Registered
<1> QED
  BY <1>2, <1>3, <1>4, <1>5, MoveInv

(* A run whose own publication is the last word finds it; one that does    *)
(* not was quarantined by another run.                                     *)
LEMMA DiscoverInv ==
  ASSUME IInv, NEW r \in Runs, Discover(r)
  PROVE  IInv'
<1> USE DEF IInv
<1> DEFINE pc == IF is_registered THEN "dispatch" ELSE "undiscovered"
<1>1. run[r].pc = "discover" /\ registry' = registry /\ Goto(r, pc)
  BY DEF Discover, discover
<1>2. /\ run' \in [Runs -> Run] /\ run'[r] = [run[r] EXCEPT !.pc = pc]
      /\ \A s \in Runs \ {r} : run'[s] = run[s]
  BY <1>1, GotoGoes
<1>3. /\ run'[r].pc = pc /\ run'[r].registered_at = run[r].registered_at
      /\ run'[r].deregistered_at = run[r].deregistered_at /\ ~run'[r].post
      /\ Registered(r) \in registry /\ run[r].deregistered_at = 0
  BY <1>1, <1>2 DEF TypeOK, Run, PositionInv, PositionOf
<1>4. PositionOf(r)'
  BY <1>1, <1>3 DEF PositionOf, Registered
<1>5. AnswersOf(r)'
  <2>1. CASE ~is_registered
    <3>1. PICK e \in registry : /\ e.kind = "deregistered" /\ e.at > run[r].registered_at
                               /\ e.at = run[e.run].deregistered_at
      BY <1>3, <2>1, GoneIsDeregistered
    <3>2. e.run # r
      BY <1>3, <3>1 DEF TypeOK, Event, Stamps
    <3> QED
      BY <1>1, <1>3, <3>1, <3>2 DEF AnswersOf
  <2>2. CASE is_registered
    BY <1>3, <2>2 DEF AnswersOf
  <2> QED
    BY <2>1, <2>2
<1> QED
  BY <1>1, <1>2, <1>3, <1>4, <1>5, MoveInv

LEMMA LookInv ==
  ASSUME IInv, NEW r \in Runs, Look(r)
  PROVE  IInv'
<1> USE DEF IInv
<1> DEFINE pc == IF is_registered THEN "deregister" ELSE "report"
<1>1. run[r].pc = "look" /\ registry' = registry /\ Goto(r, pc)
  BY DEF Look
<1>2. /\ run' \in [Runs -> Run] /\ run'[r] = [run[r] EXCEPT !.pc = pc]
      /\ \A s \in Runs \ {r} : run'[s] = run[s]
  BY <1>1, GotoGoes
<1>3. /\ run'[r].pc = pc /\ run'[r].registered_at = run[r].registered_at
      /\ run'[r].deregistered_at = run[r].deregistered_at /\ ~run'[r].post
      /\ Registered(r) \in registry /\ run[r].deregistered_at = 0
  BY <1>1, <1>2 DEF TypeOK, Run, PositionInv, PositionOf
<1>4. PositionOf(r)'
  BY <1>1, <1>3 DEF PositionOf, Registered
<1>5. AnswersOf(r)'
  <2>1. CASE ~is_registered
    <3>1. PICK e \in registry : e.kind = "deregistered" /\ e.at > run[r].registered_at
      BY <1>3, <2>1, GoneIsDeregistered
    <3> QED
      BY <1>1, <1>3, <2>1, <3>1 DEF AnswersOf
  <2>2. CASE is_registered
    BY <1>3, <2>2 DEF AnswersOf
  <2> QED
    BY <2>1, <2>2
<1> QED
  BY <1>1, <1>2, <1>3, <1>4, <1>5, MoveInv

(* After the quarantine; an agent that is found again was published later  *)
(* than the deregistration, so by another run.                             *)
LEMMA ReportInv ==
  ASSUME IInv, NEW r \in Runs, Report(r) \/ Rediscover(r)
  PROVE  IInv'
<1> USE DEF IInv
<1>1. PICK pc \in {"rediscover", "rerouted"}, dereg \in BOOLEAN, post \in BOOLEAN :
        /\ run' = [run EXCEPT ![r].pc = pc, ![r].deregistered = dereg, ![r].post = post]
        /\ post => pc = "rerouted" /\ is_registered
  <2>1. run[r].pc \in {"report", "rediscover"} /\ ~run[r].post
    BY DEF Report, Rediscover, PositionInv, PositionOf
  <2>2. run[r].deregistered \in BOOLEAN /\ run[r].post = FALSE /\ is_registered \in BOOLEAN
        /\ (run[r].before /\ ~is_registered) \in BOOLEAN
    BY <2>1 DEF TypeOK, Run, is_registered
  <2>3. CASE Report(r)
    <3>1. PICK told \in BOOLEAN :
            run' = [run EXCEPT ![r].pc = "rediscover", ![r].deregistered = told]
      BY <2>2, <2>3 DEF Report
    <3>2. run \in [Runs -> Run] /\ run[r].post = FALSE
      BY <2>2 DEF TypeOK
    <3>3. run' = [run EXCEPT ![r].pc = "rediscover", ![r].deregistered = told,
                             ![r].post = FALSE]
      <4>1. run[r] \in Run
        BY <3>2
      <4>2. [run[r] EXCEPT !.pc = "rediscover", !.deregistered = told]
              = [run[r] EXCEPT !.pc = "rediscover", !.deregistered = told, !.post = FALSE]
        BY <4>1, <3>2 DEF Run
      <4>3. run' = [run EXCEPT ![r] = [run[r] EXCEPT !.pc = "rediscover", !.deregistered = told]]
        BY <3>1, <3>2
      <4> QED
        BY <4>2, <4>3, <3>2
    <3> QED
      BY <3>3
  <2>4. CASE Rediscover(r)
    <3>1. run' = [run EXCEPT ![r].pc = "rerouted", ![r].deregistered = run[r].deregistered,
                             ![r].post = is_registered]
      BY <2>2, <2>4 DEF Rediscover, discover, TypeOK, Run
    <3> QED
      BY <2>2, <3>1
  <2> QED
    BY <2>3, <2>4
<1>2. registry' = registry /\ run[r].pc \in {"report", "rediscover"}
  BY DEF Report, Rediscover
<1>3. /\ run' \in [Runs -> Run] /\ \A s \in Runs \ {r} : run'[s] = run[s]
      /\ run'[r] = [run[r] EXCEPT !.pc = pc, !.deregistered = dereg, !.post = post]
  <2>1. [run[r] EXCEPT !.pc = pc, !.deregistered = dereg, !.post = post] \in Run
    BY DEF TypeOK, Run
  <2> QED
    BY <1>1, <2>1 DEF TypeOK
<1>4. /\ run'[r].pc = pc /\ run'[r].registered_at = run[r].registered_at
      /\ run'[r].deregistered_at = run[r].deregistered_at /\ run'[r].post = post
  BY <1>3 DEF TypeOK, Run
<1>5. PositionOf(r)'
  <2>1. Registered(r)' = Registered(r) /\ Deregistered(r)' = Deregistered(r)
    BY <1>4 DEF Registered, Deregistered
  <2>2. /\ Registered(r) \in registry
        /\ run[r].deregistered_at # 0 => Deregistered(r) \in registry
    BY <1>2 DEF PositionInv, PositionOf
  <2>3. run'[r].pc \in {"rediscover", "rerouted"} /\ (post => run'[r].pc = "rerouted")
    BY <1>1, <1>4
  <2> QED
    BY <1>2, <1>4, <2>1, <2>2, <2>3 DEF PositionOf
<1>6. PICK d \in registry : d.kind = "deregistered" /\ d.at > run[r].registered_at
  BY <1>2 DEF AnswersInv, AnswersOf
<1>7. AnswersOf(r)'
  <2>1. CASE post
    <3>1. PICK e \in registry : /\ e.kind = "registered" /\ e.run \in Runs
                               /\ e.at = run[e.run].registered_at /\ e.at \in Nat \ {0}
                               /\ \A f \in registry : f.at <= e.at
      BY <1>1, <2>1, FoundIsRegistered
    <3>2. run[r].registered_at \in Nat /\ run[r].deregistered_at \in Nat /\ d.at \in Nat
      BY DEF TypeOK, Run, Event, Stamps
    <3>3. e.at > run[r].registered_at
      BY <1>6, <3>1, <3>2
    <3>4. e.run # r
      BY <3>1, <3>2, <3>3
    <3>5. e.at > run[r].deregistered_at
      <4>1. CASE run[r].deregistered_at = 0
        BY <3>1, <4>1
      <4>2. CASE run[r].deregistered_at # 0
        <5>1. Deregistered(r) \in registry
          BY <1>2, <4>2 DEF PositionInv, PositionOf
        <5>2. run[r].deregistered_at <= e.at
          BY <3>1, <5>1 DEF Deregistered
        <5>3. run[r].deregistered_at # e.at
          BY <3>1 DEF StampsInv
        <5> QED
          BY <3>1, <3>2, <5>2, <5>3
      <4> QED
        BY <4>1, <4>2
    <3>6. \E f \in registry : /\ f.kind = "registered" /\ f.run # r
                             /\ f.at > run[r].registered_at /\ f.at > run[r].deregistered_at
      BY <3>1, <3>3, <3>4, <3>5
    <3>7. run'[r].pc = "rerouted"
      BY <1>1, <1>4, <2>1
    <3> QED
      BY <1>2, <1>4, <1>6, <3>6, <3>7 DEF AnswersOf
  <2>2. CASE ~post
    BY <1>1, <1>2, <1>4, <1>6, <2>2 DEF AnswersOf
  <2> QED
    BY <2>1, <2>2
<1> QED
  BY <1>2, <1>3, <1>4, <1>5, <1>7, MoveInv

LEMMA InvStep == IInv /\ [Next]_vars => IInv'
<1> SUFFICES ASSUME IInv, [Next]_vars PROVE IInv'
  OBVIOUS
<1>1. CASE UNCHANGED vars
  BY <1>1 DEF vars, IInv, TypeOK, StampsInv, RegistryInv, Newest, Registered, Deregistered,
              PositionInv, PositionOf, AnswersInv, AnswersOf
<1>2. ASSUME NEW r \in Runs, Published(r) PROVE IInv'
  <2>1. run[r].registered_at \in Stamps
    BY <1>2 DEF Published, IInv, TypeOK, Run, PositionInv, PositionOf
  <2>2. Registered(r) \in Event
    BY <2>1 DEF Event, Registered
  <2> QED
    BY <1>2, <2>2, AppendInv DEF Published, Registered
<1>3. ASSUME NEW r \in Runs, Withdrawn(r) PROVE IInv'
  <2>1. run[r].deregistered_at # 0
    BY <1>3 DEF Withdrawn, IInv, TypeOK, Run, PositionInv, PositionOf, Stamps
  <2>2. Deregistered(r) \in Event
    BY <2>1 DEF IInv, TypeOK, Run, Event, Deregistered
  <2> QED
    BY <1>3, <2>2, AppendInv DEF Withdrawn, Deregistered
<1> QED
  BY <1>1, <1>2, <1>3, PublishInv, DeregisterInv, ProceedInv, DiscoverInv, LookInv, ReportInv
     DEF Next, Step

-----------------------------------------------------------------------------
(* The properties. *)

LEMMA Invariance == Spec => []IInv
<1>1. IInv /\ [Next]_vars => IInv'
  BY InvStep
<1> QED
  BY InvInit, <1>1, PTL DEF Spec

(* The registry and the runs keep their types.                             *)
THEOREM FleetTypes == Spec => []TypeOK
<1>1. IInv => TypeOK
  BY DEF IInv
<1> QED
  BY <1>1, Invariance, PTL

(* An abandoned worker is out of discovery, in the order of the fold, when *)
(* its run has the partial result, by its own run's event or by another's, *)
(* with clocks that disagree.                                              *)
THEOREM AbandonedLeaveTheRegistry == Spec => []AbandonedIsDeregistered
<1>1. IInv => AbandonedIsDeregistered
  BY DEF IInv, AnswersInv, AnswersOf, AbandonedIsDeregistered
<1> QED
  BY <1>1, Invariance, PTL

(* An answer of discovery that surprises a run is the work of another run. *)
THEOREM DiscoveryHasAnExplanation == Spec => []DiscoveryIsExplained
<1>1. IInv => DiscoveryIsExplained
  BY DEF IInv, AnswersInv, AnswersOf, DiscoveryIsExplained
<1> QED
  BY <1>1, Invariance, PTL
=============================================================================

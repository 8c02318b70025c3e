--------------------------- MODULE FleetDelegation ---------------------------
(***************************************************************************)
(* Runs of the fleet delegation over one durable Agent Registry            *)
(* (run_revocation_delegation, AgentRegistry, QuarantineEngine).  Each run *)
(* publishes the revocation propagator under the same agent id, discovers  *)
(* it, dispatches to it, and, if the worker is abandoned, deregisters it   *)
(* and reroutes.  The registry's state is a fold of appended events.       *)
(***************************************************************************)
EXTENDS Integers, FiniteSets

CONSTANTS
  Runs,         \* delegations, each a request to some instance of the service
  MaxStamp,     \* bound: the positions of events in the fold's order
  ClocksAgree   \* the hosts' clocks agree: stamps are taken in order

FleetAssumption == IsFiniteSet(Runs) /\ MaxStamp \in Nat /\ ClocksAgree \in BOOLEAN

ASSUME FleetAssumed == FleetAssumption

VARIABLES
  registry,   \* `agent_registry_events`, those of revocation_propagator-v1
  run         \* the orchestrator of each run: its position and FleetState

vars == <<registry, run>>

Stamps == 1..MaxStamp
Event  == [kind : {"registered", "deregistered"}, run : Runs, at : Stamps]

Run == [pc : {"new", "publish", "negotiate", "discover", "dispatch",
              "quarantine", "look", "deregister", "withdraw", "report",
              "rediscover",
              "completed", "rerouted", "denied", "undiscovered", "failed"},
        registered_at   : Stamps \cup {0},   \* stamps of the run's two events
        deregistered_at : Stamps \cup {0},
        before          : BOOLEAN,           \* the agent was published
        deregistered    : BOOLEAN,           \* what the quarantine span says
        post            : BOOLEAN]           \* the second discovery found it

Fresh == [pc |-> "new", registered_at |-> 0, deregistered_at |-> 0,
          before |-> FALSE, deregistered |-> FALSE, post |-> FALSE]

Over == {"completed", "rerouted", "denied", "undiscovered", "failed"}

(* Mutant of Newest: the fold runs over the events newest first.           *)
Oldest(E) == {e \in E : \A f \in E : e.at <= f.at}

(* The fold keeps what the last event says, in the order of (recorded_at,  *)
(* event_id): a total order in which every event has its own position.     *)
Newest(E) == {e \in E : \A f \in E : f.at <= e.at}

is_registered == \E e \in Newest(registry) : e.kind = "registered"

(* discover("revocation_propagator", role): the custodian is told, the     *)
(* negotiator gets the empty answer whether or not the agent exists.       *)
discover(role) == role = "rights_custodian" /\ is_registered

(* The position an event of run r takes in the fold's order: after the     *)
(* run's own earlier one, and, if clocks agree, after everyone's.          *)
Taken == UNION {{run[s].registered_at, run[s].deregistered_at} : s \in Runs}

MayStamp(r, at) ==
  /\ at \notin Taken
  /\ at > run[r].registered_at
  /\ ClocksAgree => \A u \in Taken : at > u

Goto(r, pc) == run' = [run EXCEPT ![r].pc = pc]

-----------------------------------------------------------------------------
Init == registry = {} /\ run = [r \in Runs |-> Fresh]

(* build_fleet: a registered event is stamped, then appended.  (The bound  *)
(* keeps the last positions for the deregistrations.)                      *)
Publish(r) ==
  /\ run[r].pc = "new"
  /\ \E at \in 1..(MaxStamp - Cardinality(Runs)) :
       /\ MayStamp(r, at)
       /\ run' = [run EXCEPT ![r].pc = "publish", ![r].registered_at = at]
  /\ UNCHANGED registry

(* Mutant of Published: the event carries the wrong stamp.                 *)
PublishedUnstamped(r) ==
  /\ run[r].pc = "publish"
  /\ registry' = registry \cup {[kind |-> "registered", run |-> r,
                                 at |-> run[r].deregistered_at]}
  /\ Goto(r, "negotiate")

Published(r) ==
  /\ run[r].pc = "publish"
  /\ registry' = registry \cup {[kind |-> "registered", run |-> r,
                                 at |-> run[r].registered_at]}
  /\ Goto(r, "negotiate")

(* The negotiator reads its grants or is denied; then the discovery on its *)
(* behalf, whose answer is recorded and changes nothing.                   *)
Negotiate(r) ==
  /\ run[r].pc = "negotiate"
  /\ Goto(r, "discover") \/ Goto(r, "denied")
  /\ UNCHANGED registry

(* The custodian's discovery: nothing found, nothing dispatched.           *)
Discover(r) ==
  /\ run[r].pc = "discover"
  /\ Goto(r, IF discover("rights_custodian") THEN "dispatch" ELSE "undiscovered")
  /\ UNCHANGED registry

(* The supervised hop: the cascade answers, or the supervisor abandons it. *)
Dispatch(r) ==
  /\ run[r].pc = "dispatch"
  /\ Goto(r, "completed") \/ Goto(r, "quarantine")
  /\ UNCHANGED registry

(* _quarantine_and_reroute reads the publications ...                      *)
Quarantine(r) ==
  /\ run[r].pc = "quarantine"
  /\ run' = [run EXCEPT ![r].pc = "look", ![r].before = is_registered]
  /\ UNCHANGED registry

(* ... the engine asks whether the agent is registered ...                 *)
Look(r) ==
  /\ run[r].pc = "look"
  /\ Goto(r, IF is_registered THEN "deregister" ELSE "report")
  /\ UNCHANGED registry

(* ... and if it is, stamps and appends a deregistered event ...           *)
Deregister(r) ==
  /\ run[r].pc = "deregister"
  /\ \E at \in Stamps : /\ MayStamp(r, at)
                        /\ run' = [run EXCEPT ![r].pc = "withdraw",
                                              ![r].deregistered_at = at]
  /\ UNCHANGED registry

(* Mutant of Withdrawn: an event id per agent and kind, so a second        *)
(* deregistration collides with the first and is lost.                     *)
WithdrawnOnce(r) ==
  /\ run[r].pc = "withdraw"
  /\ registry' = IF \E e \in registry : e.kind = "deregistered" THEN registry
                 ELSE registry \cup {[kind |-> "deregistered", run |-> r,
                                      at |-> run[r].deregistered_at]}
  /\ Goto(r, "report")

Withdrawn(r) ==
  /\ run[r].pc = "withdraw"
  /\ registry' = registry \cup {[kind |-> "deregistered", run |-> r,
                                 at |-> run[r].deregistered_at]}
  /\ Goto(r, "report")

(* ... the standby's stated partial result; is the agent gone?             *)
Report(r) ==
  /\ run[r].pc = "report"
  /\ run' = [run EXCEPT ![r].pc = "rediscover",
                        ![r].deregistered = run[r].before /\ ~is_registered]
  /\ UNCHANGED registry

(* The second discovery.                                                   *)
Rediscover(r) ==
  /\ run[r].pc = "rediscover"
  /\ run' = [run EXCEPT ![r].pc = "rerouted", ![r].post = discover("rights_custodian")]
  /\ UNCHANGED registry

(* The store fails, the worker raises something else, the instance dies.   *)
Fail(r) ==
  /\ run[r].pc \notin Over \cup {"new"}
  /\ Goto(r, "failed")
  /\ UNCHANGED registry

Step(r) == \/ Published(r) \/ Negotiate(r) \/ Discover(r) \/ Dispatch(r)
           \/ Quarantine(r) \/ Look(r) \/ Deregister(r) \/ Withdrawn(r)
           \/ Report(r) \/ Rediscover(r)

Next == \E r \in Runs : Publish(r) \/ Step(r) \/ Fail(r)

Spec == Init /\ [][Next]_vars

-----------------------------------------------------------------------------
TypeOK == registry \subseteq Event /\ run \in [Runs -> Run]

(* An abandoned worker is taken out of discovery, by its own run or by a   *)
(* concurrent one: when the run has its partial result, the registry holds *)
(* a deregistration that the fold places after the run's publication.      *)
AbandonedIsDeregistered ==
  \A r \in Runs : run[r].pc \in {"report", "rediscover", "rerouted"} =>
    \E e \in registry : e.kind = "deregistered" /\ e.at > run[r].registered_at

(* What discovery answers has one explanation, and it is another run: a    *)
(* quarantined agent is found again only if another run published it after *)
(* the quarantine, and an agent just published is missed only if another   *)
(* run quarantined it since; no order of stamps and appends does it alone. *)
DiscoveryIsExplained ==
  \A r \in Runs :
    /\ run[r].post =>
         \E e \in registry : /\ e.kind = "registered" /\ e.run # r
                             /\ e.at > run[r].registered_at
                             /\ e.at > run[r].deregistered_at
    /\ run[r].pc = "undiscovered" =>
         \E e \in registry : /\ e.kind = "deregistered" /\ e.run # r
                             /\ e.at > run[r].registered_at
=============================================================================

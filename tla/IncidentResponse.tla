-------------------------- MODULE IncidentResponse --------------------------
(***************************************************************************)
(* Responding to an access (IncidentEngine.run) beside the licence         *)
(* requests that the response is meant to stop (request_license).  An      *)
(* incident records the access, asks the negotiator and the custodian,     *)
(* adjudicates their assertions, freezes the principal, revokes through    *)
(* the cascade, and closes with a manifest.  Each write is a step of its   *)
(* own, an incident may fail between any two, and nothing resumes it.      *)
(***************************************************************************)
EXTENDS Consent, AccessPolicy, FiniteSets

CONSTANTS
  Incidents,          \* runs of the engine; each mints its own id
  Requests,           \* licence requests
  Principals,         \* counterparties
  HolderOf,           \* the counterparty of each grant
  AutomatedForbidden, \* works that declare against automated access
  OpOf,               \* the operation id an incident's cascade runs under
  Genesis,            \* the link of the first manifest
  Accesses,           \* accesses in the crawler log, one opens an incident
  Buyers,             \* who requests what: principal, work and use type
  Readings,           \* the uses the interpreter may read in a request's words
  Seeds,              \* granted events already in the log
  NewScopes,          \* scopes of later grants
  Lag,                \* bound: how long an event is stamped before it is appended
  MaxClock,           \* bound: the last instant of the model
  MaxFailures         \* bound: incidents that fail part-way

IncidentAssumption ==
  /\ HolderOf \in [Grants -> Principals]
  /\ AutomatedForbidden \subseteq Works
  /\ OpOf \in [Incidents -> Ops]
  /\ \A i, j \in Incidents : OpOf[i] = OpOf[j] => i = j
  /\ Genesis \notin Incidents
  /\ Accesses \subseteq [work : Works, principal : Principals, observed_at : Int]
  /\ Buyers \subseteq [principal : Principals, work : Works, use : UseTypes]
  /\ Readings \subseteq UseTypes
  /\ \A b \in Buyers, u \in Readings : [b EXCEPT !.use = u] \in Buyers
  /\ Seeds \subseteq {e \in GrantEvent :
                       e.kind = "granted" /\ e.op = NoOp /\ e.at < 1}
  /\ NewScopes \subseteq Scope
  /\ Lag \in Nat /\ MaxClock \in Nat /\ MaxFailures \in Nat

ASSUME IncidentAssumed == IncidentAssumption

VARIABLES
  log,        \* collection `grants`
  freezes,    \* collection `negotiation_freezes`
  record,     \* collection `incidents`: the lifecycle events
  manifests,  \* collection `incidents`: the manifests
  clock,
  failures,   \* incidents that failed so far
  run,        \* the locals of each incident
  ask         \* the locals of each licence request

store == <<log, freezes, record, manifests>>
vars  == <<store, clock, failures, run, ask>>

Status == {"observed", "investigating", "adjudicated", "contained", "closed"}

AssertionClass ==
  {"OBSERVED_HTTP_ACCESS", "GRANT_EXISTED", "GRANT_DID_NOT_EXIST",
   "ACCESS_INCONSISTENT_WITH_SCOPE", "REVOCATION_INITIATED",
   "ACCESS_DOES_NOT_ESTABLISH_TRAINING"}

Freeze   == [incident : Incidents, principal : Principals]
Manifest == [incident : Incidents, asserted : SUBSET AssertionClass,
             outside : BOOLEAN, frozen : BOOLEAN, revoked : BOOLEAN,
             closed_at : Int, previous : Incidents \cup {Genesis}]

Incident == [pc       : {"idle", "investigate", "adjudicate", "freeze", "select",
                         "terminate", "contain", "link", "sign", "close",
                         "done", "failed"},
             access   : Accesses,
             opened_at : Int,
             asserted : SUBSET AssertionClass,
             active   : SUBSET GrantEvent,  \* what the negotiator's fold found
             selected : SUBSET GrantEvent,  \* what the cascade affects
             todo     : SUBSET GrantEvent,  \* those its loop has not reached
             cascade_at : Int,
             outside  : BOOLEAN,            \* the arbiter's decision
             frozen   : BOOLEAN,
             revoked  : BOOLEAN,            \* a cascade was executed
             closed_at : Int,
             previous : Incidents \cup {Genesis}]

Ask == [pc        : {"idle", "gate", "interpret", "decide", "licensed", "refused"},
        buyer     : Buyers,
        frozen    : BOOLEAN,              \* was the principal frozen on arrival?
        ended     : SUBSET GrantEvent,    \* granted events ended on arrival
        receipt   : SUBSET GrantEvent]    \* the grant a receipt names

-----------------------------------------------------------------------------
(* The arbiter's rule, adjudicate_assertions: the claim that the access    *)
(* was outside the declared policy.                                        *)

outside(classes) ==
  /\ "OBSERVED_HTTP_ACCESS" \in classes
  /\ classes \cap {"GRANT_DID_NOT_EXIST", "ACCESS_INCONSISTENT_WITH_SCOPE"} # {}
  /\ ~(/\ "GRANT_EXISTED" \in classes
       /\ "ACCESS_INCONSISTENT_WITH_SCOPE" \notin classes)

(* The principal's grants for a work.                                      *)
HeldBy(E, p, w) == {e \in OfWork(E, w) : HolderOf[e.grant] = p}

(* Mutant of ActiveAt: the fold is cut now, and not at the instant.        *)
ActiveNow(E, p, w, at) == InForce(HeldBy(E, p, w))

(* active_grant_events(events, at): what was in force at an instant.       *)
ActiveAt(E, p, w, at) == InForce({e \in HeldBy(E, p, w) : e.at <= at})

(* What the cascade affects (Affected of RevocationCascade).               *)
Affected(E, w, u, at) ==
  {e \in InForce(OfWork(E, w)) :
     /\ is_use_type_contained(e.scope.use_type, u)
     /\ ~scope_window_has_closed(e.scope, at)}

(* Mutant of Revoked: the event does not carry its operation.              *)
RevokedByNobody(e, o, at) == [e EXCEPT !.kind = "revoked", !.at = at]

(* The event that ends a grant, keyed by the operation that appends it.    *)
Revoked(e, o, at) == [e EXCEPT !.kind = "revoked", !.op = o, !.at = at]

Newest == {m \in manifests : \A n \in manifests : n.closed_at <= m.closed_at}

-----------------------------------------------------------------------------
NewIncident(access) ==
  [pc |-> "idle", access |-> access, opened_at |-> 0, asserted |-> {},
   active |-> {}, selected |-> {}, todo |-> {}, cascade_at |-> 0,
   outside |-> FALSE, frozen |-> FALSE, revoked |-> FALSE, closed_at |-> 0, previous |-> Genesis]

NewAsk(b) == [pc |-> "idle", buyer |-> b, frozen |-> FALSE, ended |-> {}, receipt |-> {}]

Init ==
  /\ log = Seeds /\ freezes = {} /\ record = {} /\ manifests = {}
  /\ clock = 1 + Lag /\ failures = 0
  /\ run \in [Incidents -> {NewIncident(a) : a \in Accesses}]
  /\ ask \in [Requests -> {NewAsk(b) : b \in Buyers}]

(* _transition: a lifecycle event is appended.                             *)
Transition(i, status) == record' = record \cup {<<i, status>>}

(* The evidence agent finds the access in its own record.                  *)
Observe(i) ==
  /\ run[i].pc = "idle" /\ run[i].access.observed_at <= clock
  /\ Transition(i, "observed")
  /\ run' = [run EXCEPT ![i].pc = "investigate", ![i].opened_at = clock,
                        ![i].asserted = submit_assertion("evidence_agent", "OBSERVED_HTTP_ACCESS")]
  /\ UNCHANGED <<log, freezes, manifests, clock, failures, ask>>

(* The negotiator folds the principal's grants at the instant of the       *)
(* access, the custodian looks at the work's own policy, the advocate      *)
(* states its limit.                                                       *)
Investigate(i) ==
  /\ run[i].pc = "investigate"
  /\ Transition(i, "investigating")
  /\ LET a      == run[i].access
         active == ActiveAt(log, a.principal, a.work, a.observed_at)
     IN run' = [run EXCEPT
          ![i].pc = "adjudicate", ![i].active = active,
          ![i].asserted = @
            \cup submit_assertion("licensing_negotiator",
                   IF active # {} THEN "GRANT_EXISTED" ELSE "GRANT_DID_NOT_EXIST")
            \cup {c \in submit_assertion("rights_custodian",
                           "ACCESS_INCONSISTENT_WITH_SCOPE") :
                    a.work \in AutomatedForbidden}
            \cup submit_assertion("counterparty_advocate",
                   "ACCESS_DOES_NOT_ESTABLISH_TRAINING")]
  /\ UNCHANGED <<log, freezes, manifests, clock, failures, ask>>

Adjudicate(i) ==
  /\ run[i].pc = "adjudicate"
  /\ Transition(i, "adjudicated")
  /\ LET decision == outside(run[i].asserted)
     IN run' = [run EXCEPT ![i].outside = decision,
                           ![i].pc = IF decision THEN "freeze" ELSE "link"]
  /\ UNCHANGED <<log, freezes, manifests, clock, failures, ask>>

(* The principal is frozen; a cascade follows where grants were found.     *)
FreezePrincipal(i) ==
  /\ run[i].pc = "freeze"
  /\ freezes' = freezes \cup {[incident |-> i, principal |-> run[i].access.principal]}
  /\ run' = [run EXCEPT ![i].frozen = TRUE,
                        ![i].pc = IF run[i].active # {} THEN "select" ELSE "contain"]
  /\ UNCHANGED <<log, record, manifests, clock, failures, ask>>

(* The cascade (its own steps and notices are in RevocationCascade; here   *)
(* it is a selection and its terminations) revokes, for the whole work, the *)
(* use of the first grant the negotiator found: ids are arbitrary, so any   *)
(* of them may be the first.                                               *)
SelectGrants(i) ==
  /\ run[i].pc = "select"
  /\ \E first \in run[i].active :
       LET hit == Affected(log, run[i].access.work, first.scope.use_type, clock)
       IN run' = [run EXCEPT ![i].pc = "terminate", ![i].cascade_at = clock,
                             ![i].selected = hit, ![i].todo = hit]
  /\ UNCHANGED <<store, clock, failures, ask>>

(* One affected grant is terminated; its event was stamped since the       *)
(* selection.                                                              *)
Terminate(i) ==
  /\ run[i].pc = "terminate"
  /\ \E e \in run[i].todo, at \in (clock - Lag)..clock :
       /\ at >= run[i].cascade_at
       /\ log' = log \cup {Revoked(e, OpOf[i], at)}
       /\ run' = [run EXCEPT ![i].todo = @ \ {e}]
  /\ UNCHANGED <<freezes, record, manifests, clock, failures, ask>>

(* The cascade returned.                                                   *)
Initiated(i) ==
  /\ run[i].pc = "terminate" /\ run[i].todo = {}
  /\ run' = [run EXCEPT ![i].pc = "contain", ![i].revoked = TRUE,
                        ![i].asserted = @ \cup
                          submit_assertion("revocation_propagator", "REVOCATION_INITIATED")]
  /\ UNCHANGED <<store, clock, failures, ask>>

(* Mutant of Contain: the record says so before the cascade has run.       *)
ContainEarly(i) ==
  /\ run[i].pc \in {"contain", "terminate"}
  /\ Transition(i, "contained")
  /\ run' = [run EXCEPT ![i].pc = "link"]
  /\ UNCHANGED <<log, freezes, manifests, clock, failures, ask>>

Contain(i) ==
  /\ run[i].pc = "contain"
  /\ Transition(i, "contained")
  /\ run' = [run EXCEPT ![i].pc = "link"]
  /\ UNCHANGED <<log, freezes, manifests, clock, failures, ask>>

(* closed_at is taken and the newest manifest looked up.                   *)
Link(i) ==
  /\ run[i].pc = "link"
  /\ \E previous \in (IF manifests = {} THEN {Genesis}
                      ELSE {m.incident : m \in Newest}) :
       run' = [run EXCEPT ![i].pc = "sign", ![i].closed_at = clock,
                          ![i].previous = previous]
  /\ UNCHANGED <<store, clock, failures, ask>>

Sign(i) ==
  /\ run[i].pc = "sign"
  /\ manifests' = manifests \cup
       {[incident |-> i, asserted |-> run[i].asserted,
         outside |-> run[i].outside, frozen |-> run[i].frozen,
         revoked |-> run[i].revoked, closed_at |-> run[i].closed_at,
         previous |-> run[i].previous]}
  /\ run' = [run EXCEPT ![i].pc = "close"]
  /\ UNCHANGED <<log, freezes, record, clock, failures, ask>>

Close(i) ==
  /\ run[i].pc = "close"
  /\ Transition(i, "closed")
  /\ run' = [run EXCEPT ![i].pc = "done"]
  /\ UNCHANGED <<log, freezes, manifests, clock, failures, ask>>

(* A read, a write or the signer fails: the exception ends the run.        *)
Fail(i) ==
  /\ run[i].pc \notin {"idle", "done", "failed"} /\ failures < MaxFailures
  /\ failures' = failures + 1
  /\ run' = [run EXCEPT ![i].pc = "failed"]
  /\ UNCHANGED <<store, clock, ask>>

-----------------------------------------------------------------------------
(* A licence request. *)

Arrive(q) ==
  /\ ask[q].pc = "idle"
  /\ ask' = [ask EXCEPT
       ![q].pc = "gate",
       ![q].frozen = \E f \in freezes : f.principal = ask[q].buyer.principal,
       ![q].ended = {e \in log : e.kind = "granted"} \ InForce(log)]
  /\ UNCHANGED <<store, clock, failures, run>>

(* A request that passes is decided as it is, or its words are first read. *)
Admitted == {"decide", "interpret"}

(* Mutant of Gate: a freeze counts only once its incident is closed.       *)
GateOnClosed(q) ==
  /\ ask[q].pc = "gate"
  /\ \E next \in (IF \E f \in freezes : /\ f.principal = ask[q].buyer.principal
                                       /\ <<f.incident, "closed">> \in record
                  THEN {"refused"} ELSE Admitted) :
       ask' = [ask EXCEPT ![q].pc = next]
  /\ UNCHANGED <<store, clock, failures, run>>

(* _refuse_if_frozen, of both routes.                                      *)
Gate(q) ==
  /\ ask[q].pc = "gate"
  /\ \E next \in (IF \E f \in freezes : f.principal = ask[q].buyer.principal
                  THEN {"refused"} ELSE Admitted) :
       ask' = [ask EXCEPT ![q].pc = next]
  /\ UNCHANGED <<store, clock, failures, run>>

(* request_license_natural: the model reads a scope in the words, or the   *)
(* request ends without one; the grants are read only afterwards.          *)
Interpret(q) ==
  /\ ask[q].pc = "interpret"
  /\ \/ \E u \in Readings :
          ask' = [ask EXCEPT ![q].pc = "decide", ![q].buyer.use = u]
     \/ ask' = [ask EXCEPT ![q].pc = "refused"]
  /\ UNCHANGED <<store, clock, failures, run>>

(* The buyer's grants for the work are read and folded, and permits()      *)
(* decides; a receipt names the grant that matched.                        *)
Decide(q) ==
  /\ ask[q].pc = "decide"
  /\ LET open == {e \in InForce(HeldBy(log, ask[q].buyer.principal, ask[q].buyer.work)) :
                    /\ is_use_type_contained(e.scope.use_type, ask[q].buyer.use)
                    /\ ~scope_window_has_closed(e.scope, clock)}
     IN IF open = {} THEN ask' = [ask EXCEPT ![q].pc = "refused"]
        ELSE \E e \in open :
               ask' = [ask EXCEPT ![q].pc = "licensed", ![q].receipt = {e}]
  /\ UNCHANGED <<store, clock, failures, run>>

-----------------------------------------------------------------------------
(* Others: a grant is issued, another operation revokes. Time passes.      *)

IssueGrant(g, scope) ==
  /\ clock < MaxClock
  /\ \E at \in (clock - Lag)..clock :
       /\ ~\E e \in log : e.kind = "granted" /\ e.grant = g /\ e.at = at
       /\ log' = log \cup {[grant |-> g, kind |-> "granted", op |-> NoOp,
                            at |-> at, scope |-> scope]}
  /\ clock' = clock + 1
  /\ UNCHANGED <<freezes, record, manifests, failures, run, ask>>

RevokeElsewhere ==
  /\ clock < MaxClock
  /\ \E e \in InForce(log), o \in Ops \ {OpOf[i] : i \in Incidents},
        at \in (clock - Lag)..clock :
       /\ ~\E f \in log : f.op = o /\ f.grant = e.grant
       /\ log' = log \cup {Revoked(e, o, at)}
  /\ clock' = clock + 1
  /\ UNCHANGED <<freezes, record, manifests, failures, run, ask>>

Next ==
  \/ \E i \in Incidents :
       \/ Observe(i) \/ Investigate(i) \/ Adjudicate(i) \/ FreezePrincipal(i)
       \/ SelectGrants(i) \/ Terminate(i) \/ Initiated(i) \/ Contain(i)
       \/ Link(i) \/ Sign(i) \/ Close(i) \/ Fail(i)
  \/ \E q \in Requests : Arrive(q) \/ Gate(q) \/ Interpret(q) \/ Decide(q)
  \/ \E g \in Grants, scope \in NewScopes : IssueGrant(g, scope)
  \/ RevokeElsewhere

Spec == Init /\ [][Next]_vars

-----------------------------------------------------------------------------
TypeOK ==
  /\ log \subseteq {e \in GrantEvent : (e.kind = "revoked") = (e.op \in Ops)}
  /\ freezes \subseteq Freeze
  /\ record \subseteq Incidents \X Status /\ manifests \subseteq Manifest
  /\ clock \in Nat /\ failures \in Nat
  /\ run \in [Incidents -> Incident] /\ ask \in [Requests -> Ask]

TerminatedBy(i) == {f \in log : f.kind = "revoked" /\ f.op = OpOf[i]}

(* The record is never ahead of the facts, whatever fails: an incident is  *)
(* recorded as contained only when its principal is frozen and every grant *)
(* its cascade selected is terminated, and as closed only with a manifest. *)
(* And a manifest proves itself: the arbiter's rule, run again over all    *)
(* the assertions it binds, those made after the decision included,        *)
(* decides the same, and the containment it names is what that calls for.  *)
RecordIsTrue ==
  /\ \A i \in Incidents :
       /\ <<i, "contained">> \in record =>
            /\ \E f \in freezes : f.incident = i /\ f.principal = run[i].access.principal
            /\ (run[i].active # {}) = run[i].revoked
            /\ \A e \in run[i].selected : \E f \in TerminatedBy(i) : f.grant = e.grant
       /\ <<i, "closed">> \in record =>
            \E m \in manifests : m.incident = i /\ m.frozen = (<<i, "contained">> \in record)
  /\ \A m \in manifests :
       /\ outside(m.asserted) = m.outside
       /\ m.frozen = m.outside
       /\ m.revoked = (m.outside /\ "GRANT_EXISTED" \in m.asserted)

(* Was the access longer ago than any event then in flight was stamped?    *)
Settled(i) == run[i].access.observed_at < run[i].opened_at - Lag

(* Containment rests on a finding that stands: for an access older than    *)
(* what was in flight, whoever folds the log again, however late, finds    *)
(* that the principal held no grant at that instant, or that the work      *)
(* forbids the access; and grants are taken only for the latter.           *)
FindingStands ==
  \A i \in Incidents : Settled(i) =>
    LET a    == run[i].access
        held == ActiveAt(log, a.principal, a.work, a.observed_at)
    IN /\ run[i].frozen => held = {} \/ a.work \in AutomatedForbidden
       /\ TerminatedBy(i) # {} => held # {} /\ a.work \in AutomatedForbidden

(* Containment holds for whoever comes after it: a request of a principal  *)
(* that was frozen when it arrived ends without a receipt, and no receipt  *)
(* names a grant that had been ended when the request arrived.             *)
LateRequestRefused ==
  \A q \in Requests : ask[q].pc = "licensed" =>
    ~ask[q].frozen /\ ask[q].receipt \cap ask[q].ended = {}

-----------------------------------------------------------------------------
(* "Grants exist that the custodian's scope finding undercuts: terminate": *)
(* when an incident that revoked is closed, none of the grants that the    *)
(* negotiator found is in force still.                                     *)
UndercutGrantsTerminated ==
  \A i \in Incidents :
    run[i].pc = "done" /\ run[i].revoked => run[i].active \cap InForce(log) = {}
=============================================================================

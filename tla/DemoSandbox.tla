---------------------------- MODULE DemoSandbox ----------------------------
(***************************************************************************)
(* The public demo sandbox: one visitor's session, served by several       *)
(* instances that share Firestore and nothing else.  The session's works   *)
(* are seeded or registered; a buyer asks for a licence in words, a model  *)
(* reads them, the declared terms decide; the artist revokes.              *)
(*                                                                         *)
(* A handler is `async` but never awaits after its body has arrived, so an *)
(* instance runs one request at a time; two instances interleave.  Rate    *)
(* counters live in an instance and die with it.  The fold here ignores    *)
(* host clocks and the cascade's notices: RevocationCascade models both.   *)
(***************************************************************************)
EXTENDS Lattice, Integers, FiniteSets

CONSTANTS
  Instances,       \* Cloud Run instances
  Requests,        \* requests, in any order, to any instance
  Nobody,          \* no instance; no request
  Cached,          \* texts with a committed response in the cache
  Uncached,        \* other texts
  Interpretations, \* the scopes the model may read in a text
  RecordedReading, \* the scope the committed response holds
  Claims,          \* the terms a visitor may declare for a work
  RevocableUses,   \* the uses a visitor may ask to revoke
  NamedWorks,      \* the works that requests name
  MayBe,           \* the routes each request may be sent to
  MaxFaults,       \* bound: failures, recycled instances, hours
  MAX_SESSIONS_PER_IP_PER_HOUR,
  MAX_SIGNATURES_PER_SESSION,
  MAX_WORKS_PER_SESSION,
  MAX_INTERPRETS_PER_SESSION

Scope == [use_type : UseTypes, commercial : BOOLEAN,
          attribution_required : BOOLEAN]

Terms == [offered : SUBSET UseTypes \ {{}}, commercial_ok : BOOLEAN,
          attribution_required : BOOLEAN]

(* The suffix of a work id: the guided-demo work is <<"s", 0>>, the other  *)
(* seeds <<"s", 1>> and <<"s", 2>>, the n-th registration <<"w", n>>.      *)
BaseWork == <<"s", 0>>
Registered(n) == <<"w", n>>
WorkIds == {"s"} \X (0..2) \cup {"w"} \X (1..Cardinality(Requests))

Routes == {"open", "evaluate", "drill", "interpret", "register", "ask", "revoke"}

SandboxAssumption ==
  /\ Nobody \notin Instances \cup Requests /\ IsFiniteSet(Requests)
  /\ Interpretations \subseteq Scope /\ RecordedReading \in Scope
  /\ Claims \subseteq Terms /\ RevocableUses \subseteq UseTypes
  /\ NamedWorks \subseteq WorkIds
  /\ MayBe \in [Requests -> SUBSET Routes] /\ MaxFaults \in Nat
  /\ MAX_SESSIONS_PER_IP_PER_HOUR \in Nat \ {0}
  /\ MAX_SIGNATURES_PER_SESSION \in Nat \ {0}
  /\ MAX_WORKS_PER_SESSION \in Nat \ {0}
  /\ MAX_INTERPRETS_PER_SESSION \in Nat \ {0}

ASSUME SandboxAssumed == SandboxAssumption

Texts == Cached \cup Uncached

SEEDED_WORKS ==
  {[work |-> BaseWork, by |-> Nobody,
    terms |-> [offered |-> {"training"}, commercial_ok |-> FALSE,
               attribution_required |-> TRUE]],
   [work |-> <<"s", 1>>, by |-> Nobody,
    terms |-> [offered |-> {"fine_tuning"}, commercial_ok |-> FALSE,
               attribution_required |-> TRUE]],
   [work |-> <<"s", 2>>, by |-> Nobody,
    terms |-> [offered |-> {"rag_retrieval"}, commercial_ok |-> TRUE,
               attribution_required |-> TRUE]]}

VARIABLES
  demo_grants,  \* the grant events of the session
  demo_works,   \* the registered works of the session
  hits,         \* _ip_hits: this visitor's recent calls, per instance
  interprets,   \* _sid_interprets, per instance
  signatures,   \* _sid_signatures, per instance
  task,         \* per request: where its handler is and what it read
  faults        \* failures, recycled instances and hours so far

store == <<demo_grants, demo_works>>
counters == <<hits, interprets, signatures>>
vars == <<demo_grants, demo_works, hits, interprets, signatures, task, faults>>

(* A grant is named by the request that asked for it, the base grant by    *)
(* Nobody; `by` is the request that appended the event.                    *)
Event == [grant : Requests \cup {Nobody}, kind : {"granted", "revoked"},
          by : Requests, work : WorkIds, scope : Scope]

WorkRow == [work : WorkIds, by : Requests, terms : Terms]

Blank == [pc |-> "new", at |-> Nobody, kind |-> "none", work |-> BaseWork,
          use |-> "training", text |-> Nobody, terms |-> Nobody, scope |-> Nobody,
          seen |-> {}, binds |-> FALSE, closed |-> {}]

Answers == {"ok", "granted", "refused", "limited", "unknown", "unavailable", "error"}

Steps == {"number", "create", "interpret", "decide", "append", "check",
          "count", "cascade", "terminate"}

-----------------------------------------------------------------------------
_demo_scope(use) ==
  [use_type |-> use, commercial |-> FALSE, attribution_required |-> TRUE]

BaseGrant(r) == [grant |-> Nobody, kind |-> "granted", by |-> r,
                 work |-> BaseWork, scope |-> _demo_scope("training")]

(* The base grant doubles as the marker that the session exists.           *)
_require_session == \E e \in demo_grants : e.work = BaseWork

_read_events(w) == {e \in demo_grants : e.work = w}

_session_works == SEEDED_WORKS \cup demo_works

active_grant_events(E) ==
  {e \in E : e.kind = "granted"
             /\ ~\E f \in E : f.kind = "revoked" /\ f.grant = e.grant}

permits(active, s) ==
  \E e \in active : /\ is_use_type_contained(e.scope.use_type, s.use_type)
                    /\ s.commercial => e.scope.commercial

(* Mutant of closing: only a use revoked by that very name is closed.      *)
ClosingByName(E, s) ==
  {u \in {e.scope.use_type : e \in {f \in E : f.kind = "revoked"}} : u = s.use_type}

(* The revoked uses, as the log tells them, that contain the asked use.    *)
closing(E, s) ==
  {u \in {e.scope.use_type : e \in {f \in E : f.kind = "revoked"}} :
     is_use_type_contained(u, s.use_type)}

(* What the artist declared allows the scope that was read.                *)
WithinTerms(t, s) ==
  /\ \E u \in t.offered : is_use_type_contained(u, s.use_type)
  /\ s.commercial => t.commercial_ok
  /\ t.attribution_required => s.attribution_required

(* The uses of the grants that answered revocations struck on a work.      *)
AnsweredRevocations(w) ==
  {e.scope.use_type : e \in {g \in demo_grants :
     g.work = w /\ g.kind = "granted" /\
     \E f \in demo_grants :
       f.kind = "revoked" /\ f.grant = g.grant /\ task[f.by].pc = "ok"}}

Idle(i) == \A r \in Requests : task[r].at = i => task[r].pc \in Answers

(* The handler goes on at a step, or ends and frees its instance.          *)
Answer(r, pc) == task' = [task EXCEPT ![r].pc = pc]

(* Mutant of UnderRate: one call too many is let through.                  *)
UnderRateInclusive(i) == hits[i] <= MAX_SESSIONS_PER_IP_PER_HOUR

(* _rate_limit_or_429 of instance i, when the hit is let through.          *)
UnderRate(i) == hits[i] < MAX_SESSIONS_PER_IP_PER_HOUR
Hit(i) == hits' = [hits EXCEPT ![i] = @ + 1]

(* The idle instance i starts on request r; t says how far it gets at once. *)
Arrive(r, i, t) ==
  /\ Idle(i) /\ task[r].pc = "new" /\ t.kind \in MayBe[r]
  /\ task' = [task EXCEPT ![r] = [t EXCEPT !.at = i]]

At(r, pc) == task[r].pc = pc

-----------------------------------------------------------------------------
Init ==
  /\ demo_grants = {} /\ demo_works = {}
  /\ hits = [i \in Instances |-> 0]
  /\ interprets = hits /\ signatures = hits
  /\ task = [r \in Requests |-> Blank] /\ faults = 0

(* The routes a visitor may call without a session are limited by address. *)
TooManyHits(r, i) ==
  /\ ~UnderRate(i)
  /\ \E k \in {"open", "ask", "interpret", "drill"} :
       Arrive(r, i, [Blank EXCEPT !.kind = k, !.pc = "limited"])
  /\ UNCHANGED <<store, counters>>

(* The session is minted, and with it the grant held at `training`.        *)
open_session(r, i) ==
  /\ UnderRate(i) /\ Hit(i)
  /\ ~_require_session
  /\ Arrive(r, i, [Blank EXCEPT !.kind = "open", !.pc = "ok"])
  /\ demo_grants' = demo_grants \cup {BaseGrant(r)}
  /\ UNCHANGED <<demo_works, interprets, signatures>>

(* The fixed fine-tuning request, decided over the fold; nothing written.  *)
evaluate_license(r, i) ==
  /\ LET E == _read_events(BaseWork)
     IN Arrive(r, i, [Blank EXCEPT
                        !.kind = "evaluate",
                        !.pc = IF E = {} THEN "unknown" ELSE "ok",
                        !.binds = permits(active_grant_events(E),
                                          _demo_scope("fine_tuning"))])
  /\ UNCHANGED <<store, counters>>

(* The drill runs FleetDelegation's protocol and appends nothing here.     *)
fleet_drill(r, i) ==
  /\ UnderRate(i) /\ Hit(i)
  /\ Arrive(r, i, [Blank EXCEPT !.kind = "drill", !.pc = "ok"])
  /\ UNCHANGED <<store, interprets, signatures>>

(* The walkthrough's fixed request, which is cached: the model is called   *)
(* first (prefer_live), and if that fails the committed response serves.   *)
interpret(r, i) ==
  /\ UnderRate(i) /\ Hit(i)
  /\ \E text \in Cached, s \in Interpretations \cup {RecordedReading} :
       Arrive(r, i, [Blank EXCEPT !.kind = "interpret", !.pc = "ok",
                                  !.text = text, !.scope = s])
  /\ UNCHANGED <<store, interprets, signatures>>

(* register_work: the session is looked up, the claim validated...          *)
register_work(r, i) ==
  /\ \E t \in Claims :
       Arrive(r, i, [Blank EXCEPT
                       !.kind = "register", !.terms = t,
                       !.pc = IF _require_session THEN "number" ELSE "unknown"])
  /\ UNCHANGED <<store, counters>>

(* ... then the registered works are counted, which yields the next id...   *)
Number(r) ==
  /\ At(r, "number")
  /\ IF Cardinality(demo_works) >= MAX_WORKS_PER_SESSION
     THEN Answer(r, "limited")
     ELSE task' = [task EXCEPT ![r].pc = "create",
                               ![r].work = Registered(Cardinality(demo_works) + 1)]
  /\ UNCHANGED <<store, counters>>

Row(r) == [work |-> task[r].work, by |-> r, terms |-> task[r].terms]

(* Mutant of Create: the document is set, and replaces one with its id.    *)
CreateOverwrites(r) ==
  /\ At(r, "create")
  /\ demo_works' = {w \in demo_works : w.work # task[r].work} \cup {Row(r)}
  /\ Answer(r, "ok")
  /\ UNCHANGED <<demo_grants, counters>>

(* ... and the row is created: an id already taken fails the request.       *)
Create(r) ==
  /\ At(r, "create")
  /\ IF \E w \in demo_works : w.work = task[r].work
     THEN Answer(r, "error") /\ UNCHANGED demo_works
     ELSE demo_works' = demo_works \cup {Row(r)} /\ Answer(r, "ok")
  /\ UNCHANGED <<demo_grants, counters>>

(* request_license: the session and the work are looked up, the count of   *)
(* interpretations goes up, and beyond the cap the model is not asked.     *)
request_license(r, i) ==
  /\ UnderRate(i) /\ Hit(i)
  /\ \E w \in NamedWorks, text \in Texts :
       LET found == _require_session /\ \E v \in _session_works : v.work = w
           t == [Blank EXCEPT !.kind = "ask", !.work = w, !.text = text,
                              !.closed = AnsweredRevocations(w)]
       IN IF ~found
          THEN Arrive(r, i, [t EXCEPT !.pc = "unknown"]) /\ UNCHANGED interprets
          ELSE /\ interprets' = [interprets EXCEPT ![i] = @ + 1]
               /\ Arrive(r, i, [t EXCEPT !.pc =
                    IF interprets[i] + 1 > MAX_INTERPRETS_PER_SESSION
                    THEN "limited" ELSE "interpret"])
  /\ UNCHANGED <<store, signatures>>

(* generate_with_surface: the cache first, then the model.                 *)
Reading(text) ==
  IF text \in Cached THEN {RecordedReading} ELSE Interpretations

(* The text is read as a valid scope, or the request ends with 503.        *)
Interpret(r) ==
  /\ At(r, "interpret")
  /\ \/ \E s \in Reading(task[r].text) :
          task' = [task EXCEPT ![r].pc = "decide", ![r].scope = s]
     \/ Answer(r, "unavailable")
  /\ UNCHANGED <<store, counters>>

TermsOf(w) == (CHOOSE v \in _session_works : v.work = w).terms

(* THE DECISION: the log as it is read now, and the declared terms.        *)
Decide(r) ==
  /\ At(r, "decide")
  /\ LET grant == /\ closing(_read_events(task[r].work), task[r].scope) = {}
                  /\ WithinTerms(TermsOf(task[r].work), task[r].scope)
     IN Answer(r, IF grant THEN "append" ELSE "refused")
  /\ UNCHANGED <<store, counters>>

Granted(r) == [grant |-> r, kind |-> "granted", by |-> r,
               work |-> task[r].work, scope |-> task[r].scope]

(* Mutant of Append: what binds is evaluated before the grant is in.       *)
AppendAfterCheck(r) ==
  /\ At(r, "append")
  /\ task' = [task EXCEPT ![r].pc = "granted",
                ![r].binds = permits(active_grant_events(_read_events(task[r].work)),
                                     task[r].scope)]
  /\ demo_grants' = demo_grants \cup {Granted(r)}
  /\ UNCHANGED <<demo_works, counters>>

Append(r) ==
  /\ At(r, "append")
  /\ demo_grants' = demo_grants \cup {Granted(r)}
  /\ Answer(r, "check")
  /\ UNCHANGED <<demo_works, counters>>

(* What the buyer holds is what permits() says over the log as it stands.  *)
Check(r) ==
  /\ At(r, "check")
  /\ task' = [task EXCEPT ![r].pc = "granted",
                ![r].binds = permits(active_grant_events(_read_events(task[r].work)),
                                     task[r].scope)]
  /\ UNCHANGED <<store, counters>>

-----------------------------------------------------------------------------
(* revoke: any use on any work of the session.                             *)
revoke(r, i) ==
  /\ \E w \in NamedWorks, u \in RevocableUses :
       Arrive(r, i, [Blank EXCEPT !.kind = "revoke", !.work = w, !.use = u,
                                  !.pc = "count"])
  /\ UNCHANGED <<store, counters>>

(* The signing limit: the terminations seen on the work, then the calls    *)
(* counted in this instance, which are counted only when the first is met. *)
Count(r) ==
  /\ At(r, "count")
  /\ LET E == _read_events(task[r].work)
         i == task[r].at
         tooMany == Cardinality({e \in E : e.kind = "revoked"})
                      >= MAX_SIGNATURES_PER_SESSION
     IN \/ E = {} /\ Answer(r, "unknown") /\ UNCHANGED signatures
        \/ E # {} /\ tooMany /\ Answer(r, "limited") /\ UNCHANGED signatures
        \/ /\ E # {} /\ ~tooMany
           /\ signatures' = [signatures EXCEPT ![i] = @ + 1]
           /\ Answer(r, IF signatures[i] + 1 > MAX_SIGNATURES_PER_SESSION
                        THEN "limited" ELSE "cascade")
  /\ UNCHANGED <<store, hits, interprets>>

(* The production cascade reads again and selects...                       *)
Cascade(r) ==
  /\ At(r, "cascade")
  /\ task' = [task EXCEPT ![r].pc = "terminate",
                ![r].seen = {e \in active_grant_events(_read_events(task[r].work)) :
                               is_use_type_contained(e.scope.use_type, task[r].use)}]
  /\ UNCHANGED <<store, counters>>

(* The revoked event repeats the scope that was held.                      *)
Terminated(r, e) == [e EXCEPT !.kind = "revoked", !.by = r]

(* ... and terminates one grant after the other, under its own effect ids.  *)
Terminate(r) ==
  /\ At(r, "terminate")
  /\ \/ \E e \in task[r].seen :
          /\ demo_grants' = demo_grants \cup {Terminated(r, e)}
          /\ task' = [task EXCEPT ![r].seen = @ \ {e}]
     \/ task[r].seen = {} /\ Answer(r, "ok") /\ UNCHANGED demo_grants
  /\ UNCHANGED <<demo_works, counters>>

-----------------------------------------------------------------------------
(* Firestore, the signer or the gateway fails the call at hand.            *)
Fail(r) ==
  /\ task[r].pc \in Steps
  /\ Answer(r, "error")
  /\ UNCHANGED <<store, counters>>

(* The platform replaces an instance that runs nothing.                    *)
Recycle(i) ==
  /\ Idle(i)
  /\ hits' = [hits EXCEPT ![i] = 0]
  /\ interprets' = [interprets EXCEPT ![i] = 0]
  /\ signatures' = [signatures EXCEPT ![i] = 0]
  /\ UNCHANGED <<store, task>>

(* An hour passes; abstracted to all hits at once.                         *)
HourPasses ==
  /\ hits' = [i \in Instances |-> 0]
  /\ UNCHANGED <<store, interprets, signatures, task>>

Step(r) == \/ Number(r) \/ Create(r) \/ Interpret(r) \/ Decide(r) \/ Append(r)
           \/ Check(r) \/ Count(r) \/ Cascade(r) \/ Terminate(r)

Next ==
  \/ /\ UNCHANGED faults
     /\ \E r \in Requests :
          \/ Step(r)
          \/ \E i \in Instances :
               \/ open_session(r, i) \/ TooManyHits(r, i) \/ evaluate_license(r, i)
               \/ fleet_drill(r, i) \/ interpret(r, i) \/ register_work(r, i)
               \/ request_license(r, i) \/ revoke(r, i)
  \/ /\ faults < MaxFaults /\ faults' = faults + 1
     /\ \/ \E r \in Requests : Fail(r)
        \/ \E i \in Instances : Recycle(i)
        \/ HourPasses

Spec == Init /\ [][Next]_vars

-----------------------------------------------------------------------------
Task ==
  [pc : {"new"} \cup Steps \cup Answers, at : Instances \cup {Nobody},
   kind : {"none"} \cup Routes,
   work : WorkIds, use : UseTypes, text : Texts \cup {Nobody},
   terms : Terms \cup {Nobody}, scope : Scope \cup {Nobody},
   seen : SUBSET Event, binds : BOOLEAN, closed : SUBSET UseTypes]

(* The variables keep their types, and an instance runs one request.       *)
TypeOK ==
  /\ demo_grants \subseteq Event /\ demo_works \subseteq WorkRow
  /\ hits \in [Instances -> 0..MAX_SESSIONS_PER_IP_PER_HOUR]
  /\ interprets \in [Instances -> Nat] /\ signatures \in [Instances -> Nat]
  /\ task \in [Requests -> Task] /\ faults \in 0..MaxFaults
  /\ \A q, r \in Requests : q # r /\ task[q].pc \in Steps /\ task[r].pc \in Steps
                              => task[q].at # task[r].at

(* The registry keeps what it confirmed: every registration answered with  *)
(* its work still has that very row, nobody else's claim under its id, and *)
(* the ids run from 1 without a gap up to the session's limit.             *)
RegistryKeepsClaims ==
  /\ \A r \in Requests : task[r].kind = "register" /\ At(r, "ok") =>
       {w \in demo_works : w.work = task[r].work} = {Row(r)}
  /\ {w.work : w \in demo_works} = {Registered(n) : n \in 1..Cardinality(demo_works)}
  /\ Cardinality(demo_works) <= MAX_WORKS_PER_SESSION

(* "Revoke it in the Studio and this same request will be refused": a      *)
(* request that arrives after a revocation was answered gets no grant of a *)
(* use inside one whose grant that revocation struck, even when the struck *)
(* grant was wider than what the artist named.                             *)
ClosedOfferStaysClosed ==
  \A r \in Requests : task[r].pc \in {"append", "check", "granted"} =>
    ~\E u \in task[r].closed : is_use_type_contained(u, task[r].scope.use_type)

(* Show == do: a grant that was answered is in the log as it was read, and *)
(* it binds unless a revocation struck it before the answer.               *)
GrantedIsHeld ==
  \A r \in Requests : At(r, "granted") =>
    /\ Granted(r) \in demo_grants
    /\ \/ task[r].binds
       \/ \E f \in demo_grants : f.kind = "revoked" /\ f.grant = r
=============================================================================

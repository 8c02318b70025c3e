--------------------------- MODULE EvidenceRecord ---------------------------
(***************************************************************************)
(* What the public endpoint observes and what it says about it.  Every     *)
(* request is logged before it is served; the log lives with the evidence  *)
(* service, which the front door reaches by hops that are requests of      *)
(* their own and logged there as well.  From the log come the daily audit  *)
(* and the public counts; from the registry, with the committed seed under *)
(* it, comes the manifest.                                                 *)
(***************************************************************************)
EXTENDS Naturals, FiniteSets

CONSTANTS
  Requests,       \* requests to the public endpoint, each served once
  Queries,        \* what a request may be
  Addresses,      \* addresses requests come from
  FrontDoorIp,    \* the address its hops come from
  WorkIds,        \* work ids
  seed_corpus,    \* the committed row of each seeded work
  Registered,     \* rows the registry holds from before
  Registrations,  \* rows the custodian may come to hold
  MaxHopRecords   \* bound: the hops whose log record gets in

(* Paths and user agents, by what the code tells apart.                    *)
Paths  == {"/robots.txt", "/works", "/evidence-counts", "/internal/accrual_audit"}
Agents == {"crawler", "browser", "other", "google-cloud-scheduler", "python-urllib"}

(* `scheduler`: the request carries the scheduler's identity token.        *)
Query == [path : Paths, ip : Addresses, user_agent : Agents, scheduler : BOOLEAN]

(* A manifest field is a value, null, or not there.                        *)
Fields == {"artist_id", "control_tier", "control_proof", "canary_string"}
Empty  == {"null", "missing"}

EvidenceAssumption ==
  /\ Queries # {} /\ Queries \subseteq Query
  /\ FrontDoorIp \notin Addresses \cup Requests
  /\ DOMAIN seed_corpus \subseteq WorkIds
  /\ MaxHopRecords \in Nat
  /\ \A w \in DOMAIN seed_corpus :
       /\ DOMAIN seed_corpus[w] = Fields
       /\ seed_corpus[w]["control_tier"] = "verified_control" =>
            seed_corpus[w]["control_proof"] \notin Empty
  /\ \A r \in Registered \cup Registrations : r.work_id \in WorkIds /\ DOMAIN r.row = Fields
  /\ \A r, s \in Registered : r.work_id = s.work_id => r = s

ASSUME EvidenceAssumed == EvidenceAssumption

VARIABLES
  split,    \* the domain services are deployed (never changes)
  access,   \* crawler_access: the records that were appended
  audits,   \* accrual_audits
  works,    \* the registry: its rows, at most one per work
  hop,      \* per request and operation: its call to a service
  task      \* per request: where its handler is, and what it carries

vars == <<split, access, audits, works, hop, task>>

Ops == {"check", "append", "serve", "persist"}
NoAnswer == [kind |-> "none"]

-----------------------------------------------------------------------------
(* Mutant of is_self_originated: the list misses our own HTTP library.     *)
SelfMissesLibrary(ua) == ua = "google-cloud-scheduler"

(* The one list of the user agents that are our own.                       *)
is_self_originated(ua) == ua \in {"google-cloud-scheduler", "python-urllib"}

(* The classes a record may be given: our own traffic is told first, the   *)
(* rest is the model's word, or the patterns' where no model answers.      *)
triage_record(rec) ==
  IF is_self_originated(rec.user_agent) THEN {"self_deploy_check"}
  ELSE {"bot", "human", "unknown"}

(* Of a log: how many records it has, and how many a third party left.     *)
Distribution(log) ==
  [kind |-> "count", total |-> Cardinality(log),
   third_party |-> Cardinality({x \in log :
                       triage_record(x) \subseteq {"bot", "human", "unknown"}})]

-----------------------------------------------------------------------------
(* What a registered row says: its nulls are silence.                      *)
Live(row) == [f \in Fields |-> IF row[f] = "null" THEN "missing" ELSE row[f]]

(* Mutant of TierSupported: the row is served as it was written.           *)
TierAsWritten(s) == s

(* _tier_the_evidence_supports: no verified_control without a proof.       *)
TierSupported(s) ==
  IF s.row["control_tier"] = "verified_control" /\ s.row["control_proof"] \in Empty
  THEN [s EXCEPT !.row["control_tier"] = "asserted"] ELSE s

Seeded(w) == [work_id |-> w, row |-> seed_corpus[w], source |-> "seed_corpus",
              supplemented |-> {}, registry_unavailable |-> FALSE]

(* A registered row over its seed, field by field; what it is silent on is *)
(* borrowed, and said to be.                                               *)
Merged(r) ==
  LET live  == Live(r.row)
      prior == IF r.work_id \in DOMAIN seed_corpus THEN seed_corpus[r.work_id]
               ELSE [f \in Fields |-> "missing"]
  IN [work_id |-> r.work_id, source |-> "registered", registry_unavailable |-> FALSE,
      row |-> [f \in Fields |-> IF live[f] # "missing" THEN live[f] ELSE prior[f]],
      supplemented |-> {f \in Fields : live[f] = "missing" /\ prior[f] # "missing"}]

(* The registry's rows over the seeds.                                     *)
Manifest(rows) ==
  {TierSupported(Merged(r)) : r \in rows}
    \cup {TierSupported(Seeded(w)) : w \in DOMAIN seed_corpus \ {r.work_id : r \in rows}}

(* What the proof route says of a work, given the manifest's rows.         *)
get_work_proof(rows, w) ==
  IF \E s \in rows : /\ s.work_id = w /\ s.row["control_tier"] = "verified_control"
                    /\ s.row["control_proof"] \notin Empty
  THEN "verified"
  ELSE IF \E s \in rows : s.work_id = w THEN "unverified" ELSE "404"

(* The registry did not answer: the seeds, and every row says so.          *)
SeedsOnly == {[Seeded(w) EXCEPT !.registry_unavailable = TRUE] : w \in DOMAIN seed_corpus}

-----------------------------------------------------------------------------
(* Which phase waits for which operation.                                  *)
Phase == [check |-> "checking", append |-> "appending", serve |-> "serving",
          persist |-> "persisting"]

Waiting(r, op) == task[r].at = Phase[op]

(* The manifest is read at the custodian's, all else at the evidence       *)
(* service; only the latter can write the access log.                      *)
AtEvidence(r, op) == op # "serve" \/ task[r].q.path # "/works"

NoHop == [st |-> "none", ans |-> NoAnswer]

(* When its caller goes on, a call that was answered is over, and so is a  *)
(* read; one that writes may still be worked on.                           *)
Over(r) ==
  [op \in Ops |-> IF hop[r][op].st \in {"done", "failed"} \/ op \in {"check", "serve"}
                  THEN NoHop ELSE hop[r][op]]

(* The handler goes on and calls out, with what the call carries.          *)
CallOut(r, op, carried, data) ==
  /\ task' = [task EXCEPT ![r] = [carried EXCEPT !.at = Phase[op]]]
  /\ hop' = [hop EXCEPT ![r] = [Over(r) EXCEPT ![op] = [st |-> "sent", ans |-> data]]]

Answer(r, ans) ==
  /\ task' = [task EXCEPT ![r].at = "answered", ![r].ans = ans]
  /\ hop' = [hop EXCEPT ![r] = Over(r)]

(* What its answer will have to account for: the log or the registry, as   *)
(* they are when a request comes in.                                       *)
Known(q) ==
  IF q.path = "/works" THEN [log |-> Distribution({}), works |-> works]
  ELSE [log |-> Distribution(access), works |-> {}]

(* A request comes in, and the middleware asks whether its address has     *)
(* fetched robots.txt before.                                              *)
Arrive(r, q) ==
  /\ task[r].at = "idle"
  /\ CallOut(r, "check",
       [task[r] EXCEPT !.q = q, !.since = Known(q)],
       NoAnswer)
  /\ UNCHANGED <<split, access, audits, works>>

(* Mutant of RobotsFlag: an error is taken for a yes.                      *)
RobotsOnError(q, ok, ans) == ~ok \/ ans.first \/ q.path = "/robots.txt"

(* check_robots_fetched_first: an error is a no; robots.txt itself a yes.  *)
RobotsFlag(q, ok, ans) == (ok /\ ans.first) \/ q.path = "/robots.txt"

Record(r, q, robots) ==
  [by |-> r, ip |-> q.ip, user_agent |-> q.user_agent, path |-> q.path, robots |-> robots,
   uuid |-> Cardinality({x \in access : x.by = r})]

(* A hop, as a request of the front door.                                  *)
HopRecord ==
  [by |-> FrontDoorIp, ip |-> FrontDoorIp, user_agent |-> "python-urllib",
   path |-> "/internal/domain", robots |-> FALSE,
   uuid |-> Cardinality({x \in access : x.by = FrontDoorIp})]

(* The hop reaches the evidence service, whose own middleware logs it; an  *)
(* append that fails is only reported.                                     *)
HopIsLogged(r, op) ==
  /\ split /\ hop[r][op].st = "sent" /\ AtEvidence(r, op)
  /\ hop' = [hop EXCEPT ![r][op].st = "logged"]
  /\ \/ UNCHANGED access
     \/ /\ HopRecord.uuid < MaxHopRecords
        /\ access' = access \cup {HopRecord}
  /\ UNCHANGED <<split, audits, works, task>>

(* The call may be worked on: it was logged, or there is nothing to log.   *)
Ready(r, op) ==
  hop[r][op].st = IF split /\ AtEvidence(r, op) THEN "logged" ELSE "sent"

(* The answer, if anybody still waits for it.                              *)
Done(r, op, ans) ==
  hop' = [hop EXCEPT ![r][op] =
            IF Waiting(r, op) THEN [st |-> "done", ans |-> ans] ELSE NoHop]

(* The address's earlier fetches of robots.txt.                            *)
Check(r) ==
  /\ Ready(r, "check")
  /\ Done(r, "check", [kind |-> "fetched", first |->
                        \E x \in access : x.ip = task[r].q.ip /\ x.path = "/robots.txt"])
  /\ UNCHANGED <<split, access, audits, works, task>>

(* evidence_append of the access record, under a fresh id.                 *)
Append(r) ==
  /\ Ready(r, "append")
  /\ access' = access \cup {Record(r, task[r].q, hop[r]["append"].ans.first)}
  /\ Done(r, "append", hop[r]["append"].ans)
  /\ UNCHANGED <<split, audits, works, task>>

(* What the route reads: the registry, or the access log as it is now.     *)
Serve(r) ==
  /\ Ready(r, "serve")
  /\ Done(r, "serve", IF task[r].q.path = "/works" THEN [kind |-> "rows", rows |-> works]
                       ELSE Distribution(access))
  /\ UNCHANGED <<split, access, audits, works, task>>

(* The audit document is appended, a new one per run.                      *)
Persist(r) ==
  /\ Ready(r, "persist")
  /\ audits' = audits \cup {[by |-> r, third_party |-> hop[r]["persist"].ans.third_party]}
  /\ Done(r, "persist", hop[r]["persist"].ans)
  /\ UNCHANGED <<split, access, works, task>>

(* The service refuses or fails, its store out of reach or not permitted.  *)
Refuse(r, op) ==
  /\ Waiting(r, op) /\ Ready(r, op)
  /\ hop' = [hop EXCEPT ![r][op].st = "failed"]
  /\ UNCHANGED <<split, access, audits, works, task>>

-----------------------------------------------------------------------------
(* The handlers, on what the hop they waited for brought: `ok` when it     *)
(* answered, and then the answer.                                          *)
Checked(r, ok, ans) ==
  CallOut(r, "append", task[r],
          [kind |-> "fetched", first |-> RobotsFlag(task[r].q, ok, ans)])

(* The access was logged or it was not: the request is served.             *)
Served(r) ==
  LET q == task[r].q IN
  CASE q.path = "/robots.txt" -> Answer(r, [kind |-> "ok"])
    [] q.path = "/internal/accrual_audit" /\ ~q.scheduler -> Answer(r, [kind |-> "denied"])
    [] OTHER -> CallOut(r, "serve", task[r], NoAnswer)

(* get_registered_works, behind every manifest route.                      *)
AnswerManifest(r, ok, ans) ==
  Answer(r, [kind |-> "manifest", rows |-> IF ok THEN Manifest(ans.rows) ELSE SeedsOnly])

(* Mutant of AnswerCounts: nothing was counted, so there is nothing.       *)
AnswerZero(r, ok, ans) ==
  Answer(r, IF ok THEN ans ELSE [kind |-> "count", total |-> 0, third_party |-> 0])

(* get_evidence_counts: what was not counted is said to be unavailable.    *)
AnswerCounts(r, ok, ans) ==
  Answer(r, IF ok THEN ans ELSE [kind |-> "unavailable"])

(* run_accrual_audit: the figures of the snapshot, to be kept.             *)
KeepAudit(r, ok, ans) ==
  IF ok THEN CallOut(r, "persist", task[r], ans)
  ELSE Answer(r, [kind |-> "unavailable"])

Audited(r, ok, ans) ==
  Answer(r, IF ok THEN ans ELSE [kind |-> "unavailable"])

Continue(r, op, ok) ==
  LET ans == hop[r][op].ans IN
  \/ op = "check" /\ Checked(r, ok, ans)
  \/ op = "append" /\ Served(r)
  \/ op = "serve" /\ task[r].q.path = "/works" /\ AnswerManifest(r, ok, ans)
  \/ op = "serve" /\ task[r].q.path = "/evidence-counts" /\ AnswerCounts(r, ok, ans)
  \/ op = "serve" /\ task[r].q.path = "/internal/accrual_audit" /\ KeepAudit(r, ok, ans)
  \/ op = "persist" /\ Audited(r, ok, ans)

(* The call returned, or raised.                                           *)
Receive(r, op) ==
  /\ Waiting(r, op) /\ hop[r][op].st \in {"done", "failed"}
  /\ Continue(r, op, hop[r][op].st = "done")
  /\ UNCHANGED <<split, access, audits, works>>

(* Mutant of GiveUp: the call has no timeout.                              *)
GiveUpNever(r, op) == FALSE /\ UNCHANGED vars

(* The hop's timeout, or an answer that was lost; the service may still be *)
(* at work, and nothing is sent again.                                     *)
GiveUp(r, op) ==
  /\ split /\ Waiting(r, op)
  /\ Continue(r, op, FALSE)
  /\ UNCHANGED <<split, access, audits, works>>

(* Mutant of Register: the id is not looked up.                            *)
RegisterUnchecked(row) ==
  works' = works \cup {row} /\ UNCHANGED <<split, access, audits, hop, task>>

(* The custodian creates a row; an id it holds stays as it is.             *)
Register(row) ==
  /\ \A r \in works : r.work_id # row.work_id
  /\ works' = works \cup {row}
  /\ UNCHANGED <<split, access, audits, hop, task>>

-----------------------------------------------------------------------------
Fresh == [at |-> "idle", q |-> CHOOSE q \in Queries : TRUE,
          since |-> [log |-> Distribution({}), works |-> {}], ans |-> NoAnswer]

Init ==
  /\ split \in BOOLEAN
  /\ access = {} /\ audits = {} /\ works = Registered
  /\ hop = [r \in Requests |-> [op \in Ops |-> NoHop]]
  /\ task = [r \in Requests |-> Fresh]

ServiceStep(r) ==
  \/ Check(r) \/ Append(r) \/ Serve(r) \/ Persist(r)
  \/ \E op \in Ops : HopIsLogged(r, op) \/ Refuse(r, op)

Next ==
  \/ \E r \in Requests, q \in Queries : Arrive(r, q)
  \/ \E r \in Requests : ServiceStep(r)
  \/ \E r \in Requests, op \in Ops : Receive(r, op) \/ GiveUp(r, op)
  \/ \E row \in Registrations : Register(row)

(* A handler goes on: a call in the process returns, a hop is answered or  *)
(* its timeout ends it.  The services promise nothing to a hop.            *)
Fairness ==
  \A r \in Requests :
    /\ WF_vars(~split /\ ServiceStep(r))
    /\ WF_vars(\E op \in Ops : Receive(r, op) \/ GiveUp(r, op))

Spec == Init /\ [][Next]_vars /\ Fairness

-----------------------------------------------------------------------------
Counts == [kind : {"count"}, total : Nat, third_party : Nat]

TypeOK ==
  /\ split \in BOOLEAN
  /\ \A x \in access :
       /\ x.by \in Requests \cup {FrontDoorIp} /\ x.robots \in BOOLEAN
       /\ x.ip \in Addresses \cup {FrontDoorIp} /\ x.user_agent \in Agents
  /\ audits \subseteq [by : Requests, third_party : Nat]
  /\ works \subseteq Registered \cup Registrations
  /\ \A r, s \in works : r.work_id = s.work_id => r = s
  /\ \A r \in Requests, op \in Ops :
       hop[r][op].st \in {"none", "sent", "logged", "done", "failed"}
  /\ \A r \in Requests :
       /\ task[r].at \in {"idle", "answered"} \cup {Phase[op] : op \in Ops}
       /\ task[r].q \in Queries
       /\ task[r].since.log \in Counts /\ task[r].since.works \subseteq works

(* A record that says its visitor read robots.txt first tells the truth:   *)
(* when it was appended, the log already held that address's fetch of it,  *)
(* or it is that fetch itself.  The flag is read in a hop of its own, may  *)
(* fail, and is used in a later one (main.py:449, 465).                    *)
RobotsFirstIsTrue ==
  [][\A x \in access' \ access :
       x.robots => \/ x.path = "/robots.txt"
                   \/ \E e \in access : e.ip = x.ip /\ e.path = "/robots.txt"]_access

(* An audit's third-party figure counts visitors and only visitors: no     *)
(* more than requests of others came in, each at most once, however many   *)
(* hops of the front door were logged meanwhile and however often a hop    *)
(* was given up; no less than the log held when the audit was asked for    *)
(* (main.py:965-987, self_traffic.py:39).                                  *)
AuditCountsVisitors ==
  \A a \in audits :
    /\ a.third_party >= task[a.by].since.log.third_party
    /\ a.third_party <= Cardinality({r \in Requests : task[r].at # "idle"
                                       /\ ~is_self_originated(task[r].q.user_agent)})

(* A count the endpoint publishes is a number the log held since the       *)
(* request came in, and an audit that answers ok is one that is kept; what *)
(* could not be counted is never a number (main.py:1022-1030, 990).        *)
PublishedFiguresStand ==
  \A r \in Requests :
    task[r].at = "answered" /\ task[r].ans.kind = "count" =>
      /\ task[r].since.log.total <= task[r].ans.total
      /\ task[r].ans.total <= Cardinality(access)
      /\ task[r].q.path = "/internal/accrual_audit" =>
           \E a \in audits : a.by = r /\ a.third_party = task[r].ans.third_party

Own(row, f) == row[f] \notin Empty

(* The manifest says what the registry says, or says that it could not     *)
(* ask: whatever was registered when the request came in is there, with    *)
(* every field its artist stated, what was borrowed from the seed is named *)
(* as borrowed, and a work is served as verified_control exactly if the    *)
(* proof route, asked about that manifest, calls it verified               *)
(* (main.py:286-355, 595-619).                                             *)
ManifestIsHonest ==
  \A r \in Requests :
    task[r].at = "answered" /\ task[r].ans.kind = "manifest" =>
      /\ \A s \in task[r].ans.rows :
           (s.row["control_tier"] = "verified_control")
             <=> (get_work_proof(task[r].ans.rows, s.work_id) = "verified")
      /\ \/ \A s \in task[r].ans.rows : s.registry_unavailable
         \/ \A w \in task[r].since.works :
              \E s \in task[r].ans.rows :
                /\ s.work_id = w.work_id /\ s.source = "registered"
                /\ \A f \in Fields \ {"control_tier"} :
                     /\ Own(w.row, f) => s.row[f] = w.row[f]
                     /\ ~Own(w.row, f) /\ Own(s.row, f) => f \in s.supplemented

(* Every request is answered, whatever the hops it causes do: the log and  *)
(* the registry may be out of reach, and the public endpoint still serves  *)
(* (main.py:487, 292; domain_client.py:121).                               *)
EveryVisitIsAnswered ==
  \A r \in Requests : (task[r].at # "idle") ~> (task[r].at = "answered")
=============================================================================

# Hodi: a TLA+ verification of consent administration

Hodi administers creative consent. A work has *grants*: append-only events that
permit a use of it until some instant. A revocation takes a use away from every
grant that permits it and tells each counterparty; a fleet of role-separated
agents does this under a supervisor, a policy gateway and a durable agent
registry. This directory models the parts of the system whose correctness is a
matter of order: what concurrent processes, crashes, retries, late workers and
hosts whose clocks disagree may do to one another.

Paths below are relative to the repository (`src/agents/...` is the Python
package `src`).

## 1. The system

| Component | State it keeps | Operations | Model |
|---|---|---|---|
| Consent record (`src/schema/lattice.py`, `scope.py`, `grant_event.py`, `src/resolve/*`) | collection `grants`, append-only | append, `resolve` (fold), `permits` | `Lattice`, `Consent` (the fold as the cascade uses it), `Licensing` (`permits`) |
| Revocation propagator (`src/agents/revocation_propagator.py`, `src/schema/revocation.py`) | `grants`, `revocation_outbox`, `revocation_notices`; locals of each execution | `execute_revocation_cascade`, `deliver_pending_notices` | `RevocationCascade`, `ConsentPromise` |
| Supervisor, lease ledger (`src/supervisor/supervisor.py`, `lease.py`) | failure counts, breakers, abandoned events; lease events; one thread per task | `execute_bounded_task`, `execute_bounded_subprocess`, `issue`, `revoke`, `release`, `state` | `SupervisedWrites` |
| Registry, quarantine (`src/registry/registry.py`, `src/supervisor/quarantine.py`) | collection `agent_registry_events` | `register`, `deregister`, `discover`, `quarantine_agent` | `FleetDelegation` |
| Fleet delegation (`src/fleet/adk_fleet.py`) | the `FleetState` of a run; the registry | publish, negotiate, discover, dispatch, quarantine and reroute, rediscover | `FleetDelegation` |
| Agent gateway (`src/gateway/gateway.py`, `src/schema/iam_policy.py`, `caller_identity.py`) and role agents (`src/agents/base.py`, ...) | the event store behind it | policy check, lease check, create-only write, all-or-none batch, reads of each role | `AccessPolicy` (who may touch what), `SupervisedWrites`, `RevocationCascade` |
| Buyer API (`src/api/buyer_api.py`), authentication (`src/api/auth.py`) | none of its own | register, license (typed and natural), negotiate (`src/schema/negotiation.py`), revoke, drills | `FrontDoor` (register, revoke), `Licensing` (the decisions), `IncidentResponse` (a request's freeze gate, interpretation, read and receipt) |
| Demo sandbox (`src/api/demo_sandbox.py`) | `demo_grants`, `demo_works`; counters of an instance | open, evaluate, drill, interpret, register, ask, revoke | `DemoSandbox` |
| Incident engine, arbiter (`src/incident/engine.py`, `src/agents/consent_arbiter.py`) | incident lifecycle, freezes, manifest chain | observe, investigate, adjudicate, freeze, revoke, contain, close | `IncidentResponse` |
| Domain services, clients (`src/evidence_service/main.py`, `src/gateway/domain_client.py`, `revocation_client.py`) | none of their own | delegated reads and writes, the private revocation worker, who may call them | `FrontDoor`, `EvidenceRecord` |
| Evidence endpoint (`src/evidence_service/main.py`, `src/evidence/self_traffic.py`, `gemma_triage.py`) | `crawler_access`, `accrual_audits`; reads `works` | access logging, robots check, audit, counts, manifest, proof | `EvidenceRecord` |
| Lints, cryptography, prompts, memory bank, observability, console, scripts | little or none | text, signatures, presentation | not modelled (section 7) |

**How they interact.** `POST /revoke` reaches the propagator in-process or on a
private worker; both run the same function against the same Firestore
collections, so two executions of one `operation_id` may overlap. The fleet
delegation runs the cascade as a *supervised* task: on a thread of its own, with
a deadline and a lease. The gateway checks the lease before each write. When the
supervisor abandons a task, the orchestrator deregisters the agent in the
durable registry, which every other running instance shares. Deployed, the front
door holds no data role: each read and write of a domain is an HTTPS hop to the
service that does, with a timeout, and no hop is sent again. Those hops are
requests, and the evidence service logs them like any visitor's.

**What is hard.** The cascade works on a snapshot that it uses after one model
call per grant; its effects are two documents per grant and then one notice,
with a possible failure between any two; clients time out and retry while the
first execution still runs; the fold orders events by the stamps of the hosts
that wrote them; Python cannot kill the thread of an abandoned worker; several
delegations publish and quarantine the same agent id; a service goes on with a
hop its caller gave up. The list, at the lines
where each bites, is `hazards` in PROJECT.json.

**What makes each component correct.**
- *Cascade*: a termination and the obligation to tell of it are one fact; an
  operation has its effect once whoever runs it and however often; an answer is
  true; what is terminated is what was selected, when it was in force; nothing the cascade could read
  survives it; what is owed is delivered in the end.
- *Supervisor and lease*: the fence closes before the caller is told, and never
  while the worker has its time; "ok" means written; the breaker counts the
  failures since the last good task; a standby's document stands; a stalled worker keeps nobody waiting and holds no lease for ever.
- *Registry and fleet*: an abandoned agent leaves discovery; only another run can
  bring it back or take it away.
- *Licensing*: a licence is given exactly when one open grant covers all that is
  asked; the clamp is a ceiling, takes its own offer back, and rejects only where
  there is nothing to narrow to.
- *Incidents*: the record never runs ahead of the facts; a manifest reproduces its
  decision; a finding stands whoever folds the log again; who arrives frozen gets
  no receipt, nor does anyone for a grant ended before the request arrived.
- *Front door*: a work has one owner for good, only the owner revokes, an answer
  says what was done, and a silent service keeps nobody waiting.
- *Evidence endpoint*: robots flags, audits, counts and the manifest say what the
  log and the registry hold, or that they could not be asked; visitors are served
  whatever becomes of the log.
- *Sandbox*: a confirmed registration keeps its row and the session its limit; an
  offer whose grant was revoked stays closed; a grant that was answered is held.
- *Policy*: each collection has at most one writing role, and only the grant log has
  a second reader, within its own session.

## 2. The modules

| Module | What it is |
|---|---|
| `Lattice` | pure definitions: the orders of uses and of model classes |
| `Consent` | pure definitions: window, grant fold; extends `Lattice` |
| `RevocationCascade` | the cascade as a state machine; extends `Consent` |
| `ConsentPromise` | the abstract specification the cascade implements |
| `SupervisedWrites` | supervisor, lease ledger, worker threads, gateway check, store |
| `FleetDelegation` | delegations over one durable registry |
| `Licensing` | negotiation and the decision of a licence request; extends `Lattice` |
| `AccessPolicy` | pure definitions: roles, collections, databases, assertions, the gateway's decision |
| `IncidentResponse` | incidents beside licence requests, issues and revocations; extends `Consent`, `AccessPolicy` |
| `FrontDoor` | public routes over private services that may fail, answer late or be given up; extends `AccessPolicy` |
| `OwnershipPromise` | the abstract specification the front door implements |
| `EvidenceRecord` | access log, audit, counts and manifest over hops that are logged themselves |
| `DemoSandbox` | one visitor's session on several instances; extends `Lattice` |
| `MCRevocationCascade`, `MCSupervisedWrites`, `MCLicensing`, `MCIncidentResponse`, `MCFrontDoor`, `MCEvidenceRecord`, `MCDemoSandbox` | values of the constants for TLC |
| `RevocationCascade_proofs`, `Licensing_proofs`, `SupervisedWrites_proofs`, `FleetDelegation_proofs`, `IncidentResponse_proofs`, `FrontDoor_proofs` (and `AccessPolicy`), `EvidenceRecord_proofs`, `DemoSandbox_proofs` | theorems and proofs |

Definitions named *mutant* in their comment are slips of the kind the code could
contain; none is part of a specification. They record that each property can fail.

### RevocationCascade
`log`, `outbox`, `notices` are the three Firestore collections; `run[c]` holds the
locals of one execution of `execute_revocation_cascade`; `clock` is real time and
`Skew[c]` the error of `c`'s host. The function is cut where another process can
come between: `Begin` (the request arrives), `ReadGrants` (the query by work),
`Select` (`cascade_at` and the fold of each grant), then per affected grant
`Stamp` (the notice was drafted, the revoked event is stamped and signed) and
`Commit` (the batch of two creates, or the swallowed collision), then `ReadOutbox`
and per row `Deliver` (create the notice, or find it there; a receipt either way),
then `Respond`. `Crash` ends an execution at any point. `Resend` is a client that
kept its `operation_id`; `NewOperation` one that did not. `IssueGrant` is the artist
granting, or granting again, with a stamp taken before the append.

An effect's document id is the hash of operation, grant and kind
(`revocation_effect_id`): `Taken` compares those and nothing else. The code loops
over grants and rows in sorted order; the model leaves the order free, which
covers it. A scope is its use and its last instant; the dimensions no cascade
reads are left out. An operation may carry any request: a reused key is a case.

### ConsentPromise
Four sets: events granted, events ended, terminations owed a notice, notices
told. Three actions: an issue ends only events of its own grant; an operation
terminates a grant once, and owes exactly one notice; a notice is told once.
`RevocationCascade!Promise` is the refinement mapping: ended events are the
granted events that the fold no longer lets define a scope.

### SupervisedWrites
The supervisor makes calls in order (`Tasks`). `Dispatch` issues the lease and
starts the thread; `TimeOut`, `NoticeError`, `Succeed` are the three ends of the
join, and the first two revoke before `Raise` counts, trips the breaker, records
TaskAbandoned and raises. `Refuse` is a tripped breaker, `RunSubprocess` the
bounded child, `Die` a wait broken off by an exception of the supervisor's own.
A worker thread lives beside all of it: `CheckLease` and `Create` are the two
halves of `write_document`, `Finish` and `Fault` its ends. A worker may stop for
ever at any point, and go on long after its call has returned.

### FleetDelegation
`registry` holds the registered and deregistered events of one agent id; `run[r]`
one delegation. Stamp and append are separate steps, so stamps may disagree with
the order of appends, on one host or on two; each event takes a free position in
the fold's order, which covers skewed clocks and ties. `Quarantine`, `Look`,
`Deregister`, `Withdrawn`, `Report` are the reads and the write that
`_quarantine_and_reroute` makes one after another.

### Licensing
`held` are the scopes granted to one buyer for one work, `deal` the last exchange
of a negotiation about it, `answer` the last licence request. `Negotiate` is
`POST /api/v1/negotiate`: some proposal, clamped to the policy of the work;
`AcceptCounteroffer` the same handler, called with what it offered; `Conclude` the
grant that an agreement leads to (`docs/PRD.md` HOD-713; no code of the repository
appends it by itself, `scripts/seed_demo_grant.py` shows the append); `License` is
`POST /api/v1/license`, decided by `permits` at some instant. A request changes
nothing, so a behaviour ends with one. The five dimensions are those of the code:
use, model class, commercial, territory (lists as sets; "WW" and the empty list as
the code reads them), window. Properties do not repeat the comparisons: they
speak of what a scope is about (`Covers`: sets of uses, model classes, places and
instants, with one place that no list names and one instant after the last).

### IncidentResponse
`log`, `freezes`, `record`, `manifests` are collections (`record` the lifecycle
events and `manifests` the manifests of `incidents`); `run[i]` holds the locals of
one `IncidentEngine.run`. A run is cut at each write: `Observe`, `Investigate`,
`Adjudicate`, `FreezePrincipal`, then `SelectGrants`, a `Terminate` per affected
grant and `Initiated` when the cascade returns, `Contain`, `Link` (closing time and
newest manifest), `Sign`, `Close`. `Fail` ends a run between any two: the code
catches nothing there and resumes nothing, so a principal may stay frozen with no
manifest. `active[0]` is the first in the order of grant ids, which are arbitrary:
any grant found may be it. Assertions enter the record through the gateway's
`submit_assertion` (`AccessPolicy`). `ask[q]` is one licence request: `Arrive`,
`Gate` (the freeze), for a request in words `Interpret` (the model reads some use,
or fails), `Decide` (the read of the grants, the fold, `permits`), with other steps
between. `IssueGrant` and `RevokeElsewhere` are everyone else; their events are
stamped up to `Lag` before they are appended. Two facts of the code that the model
keeps: the cascade ends every affected grant of the *work*, other principals'
included, and the negotiator's fold does not ask whether a grant's window is open.

`FindingStands` speaks of an access older than what was in flight when the incident
opened (`Settled`): an event stamped before the access and appended after the
negotiator's fold would change the answer, and nothing in the code waits for it.

### AccessPolicy
`AGENT_SA_MAP` as data: what a role is permitted, what it is denied, which
collections it may only query within its session, its conflict domain and the
database of that. `_enforce` is the gateway's decision on a call, `access_collection`
the agent's own. `MayWriteAtomically` adds that a batch lies in one database.
`FrontDoor` and `IncidentResponse` use these definitions as guards.

### FrontDoor
`split` says whether the domain services are deployed; it never changes, and a
credential-free run has everything in one process. A request is authenticated
(`Arrive`: headers, freshness window with both ends, an active record, a signature,
a binding, an artist), looks its work up (`Look`), and then acts: `CreateHere` and
`RevokeHere` in the process, or `Send` to the service that holds the role.
`CustodianCreate` and `WorkerExecute` are the services: they act on a hop whether
or not anybody still waits. `HopFails` is a hop no service acts on, or one answered
without the worker's attestation; `Receive` and `GiveUp` end the wait. `cascade[r]`
says whether the revocation of a request did nothing, something or all; what a
cascade does is `RevocationCascade`. `InternalRoute` is anyone else at an internal
route. A registration that the custodian's service refuses as taken comes back as
a failure (500), where one process would say 403: the collision does not cross the
hop.

### OwnershipPromise
A registry of holders: a work is claimed once and by one artist, and a revocation
is for the artist who holds the work. `FrontDoor!Promise` is the refinement mapping.

### EvidenceRecord
Each request goes through the middleware (`check`, then `append`) and its route
(`serve`, for an audit `persist`): one hop each when `split`, one call otherwise.
A hop to the evidence service is itself logged there (`HopIsLogged`) before it is
worked on. `Refuse` is a service that fails; `GiveUp` a timeout or a lost answer,
after which a service that writes may still do so. `Continue` holds the handlers:
what they do on an answer and on its absence. A row of the registry has the
fields by which the manifest distinguishes a value, a null and an absence;
`Merged`, `TierSupported` and `SeedsOnly` are the merge with the committed seed.

### DemoSandbox
A handler is `async` and never awaits after its body has arrived, so an instance
runs one request at a time; instances interleave at each call of Firestore, the
model or the signer. Counters live in the instance (`hits`, `interprets`,
`signatures`) and die with it (`Recycle`). `Fail` is any such call failing. The
fold ignores clocks and notices here: `RevocationCascade` has both.

## 3. The runs

All runs use the smallest sets in which the case they are about happens.

| Run | Expect | What it shows |
|---|---|---|
| `cascade_retry` | pass | two executions of one operation, two grants (open-ended training; fine-tuning that expires at instant 1), one crash, retries, a re-grant: effects agree and are single, answers true, what was read and permits the use is terminated, and what is terminated was selected, at an instant between the selection and the present |
| `cascade_overlap` | pass | two operations on one grant, hosts two ticks apart, one persistent client: every step is a step of `ConsentPromise`, and what is owed is delivered |
| `supervised_writes` | pass | three calls, the second writes a document the first also writes, the third only computes; breaker threshold two, so that it opens after two failures, or stays shut after a good task between them |
| `fleet_delegation` | pass | three delegations, stamps in any order |
| `licensing` | pass | a grid of proposals and policies over every dimension, counteroffers proposed back, what is agreed granted beside one standing grant, and a grid of requests at every instant |
| `incident_response` | pass | one incident over two works, one of which declares against automated access, two principals and three grants, an access before or amid events in flight, one failure, two events by others, one request by the accused, typed or in words |
| `demo_sandbox` | pass | one session on two instances, four requests of which two overlap freely, one failure, recycled instance or hour |
| `front_door` | pass | three requests of two artists, a counterparty and a key switched off; one work taken and one free; hops lost, late, failed, forged |
| `evidence_record` | pass | two requests out of five kinds, a registry with a row from before the proof rule and two that come later, any hop failing, late or given up |
| `supervised_late_write`, `incident_survivor`, `front_door_unavailable` | violation | section 6 |

**Bounds.** `MaxClock` (2 or 3) is enough instants for a window to close, or a
re-grant to be stamped, between any two steps of a cascade. `MaxCrashes` = 1:
a second crash only repeats a retry, since an execution's locals are discarded
whole and the collections' contents are what the first crash already varied. Two
callers suffice for every pairwise race for a batch; a third meets ids that are
taken, as the second did. `MaxTime` = 4 with a deadline of 1 and a grace of 1
leaves room for a deadline, an expiry and a second call beside a late worker;
`Dispatch` is bounded so that the expiry of every lease lies within the model,
otherwise `EveryLeaseEnds` would fail at the bound and not in the code.
`MaxStamp` = 7 with three runs: publications take the first four positions, and the
last three are kept for deregistrations, so that a bound never blocks one. Two runs
are what an explanation takes; the third acts between its two events.

`licensing` names two regions (one a policy allows, one it does not), windows that
are bounded, open, later than one another, and longer and shorter than the
duration a policy allows; all five uses and three model classes. `MaxGrants` = 2
is what a confusion of two grants takes (`PermitsAcrossGrants`). `Last` = 4 is the
last end that a window or a capped duration reaches.

`incident_response` starts at `Lag` + 1 = 2, so that the older access precedes every
event in flight and the newer does not; `MaxClock` = 4 leaves two events to others
while the incident runs. Grants on both works make every outcome of the
adjudication happen, and a second principal's grant on the accused's work is one
that the cascade ends too. `MaxFailures` = 1, as nothing survives a failed run.

`front_door` has three requests because two may contend for one work while a third
revokes it; the freshness window is 1, with an age beyond it on the early side, one
on its late end, and none. `evidence_record` has two requests, so that one may be
logged, counted or registered between any two steps of the other, and
`MaxHopRecords` = 1: hop records are alike, and one is enough to be mistaken for a
visitor's. A read that its caller gave up is over in the model, since nobody sees
what it would bring. `demo_sandbox` sets each limit to what one request more
passes (2 calls an hour, 1 signature, 2 works, 1 interpretation). The session is opened,
then three requests follow, any two of which may overlap: that is what a stale
offer takes, and a third registration, which the limit of two refuses. `MaxFaults` = 1, as a failed request leaves nothing behind but
what it wrote.

**Symmetry** is used in `cascade_retry` over the callers and in `demo_sandbox` over
the instances, which are alike there; no run that checks liveness uses it.

**Deadlock.** The cascade runs check it (a persistent client can always resend,
time and requests go on until they can). `SupervisedWrites` and `FleetDelegation`
say `CHECK_DEADLOCK FALSE`: each call and each delegation is made once, so the
system stops when all of them are over; that no call is stuck before that
is `CallerIsAnswered`, and a delegation has no wait of its own: its one blocking hop
is the supervised call. `Licensing` says it too: a behaviour ends
with a decided request, and a negotiation is not obliged to be taken up.
`IncidentResponse`, `FrontDoor`, `EvidenceRecord` and `DemoSandbox` say it because an
incident and a request are made once.

## 4. Fairness

- `RevocationCascade!FairSpec`: an execution that has begun takes its next step
  (it is straight-line code; a failure is `Crash`, never required), and a
  *persistent* client whose call failed sends it again. The documented client
  keeps its `Idempotency-Key` until it is answered; nothing is assumed of the
  others, and nobody is made to begin.
- `SupervisedWrites!FairSpec`: time passes (`Tick`) and the supervisor's thread runs
  (`join` has a timeout). Nothing is assumed of a worker.
- `FrontDoor!Spec`: a request that was accepted goes on, and the timeouts of
  `domain_client` and `revocation_client` fire. Nothing is assumed of the private
  services: `EveryRequestAnswered` holds though none ever answers.
- `EvidenceRecord!Spec`: the same of handlers; in one process (`~split`) a call
  returns, with an answer or an error.

## 5. What is proved

TLAPS checks the following for every set of callers, grants, works, operations,
requests and every value of the bounds: type correctness, every safety invariant
and every action property that a run checks, and both refinements. `AccessPolicy`
has no constants: its theorems quantify over filters, sessions and counterparties
of any kind. The proofs are in one `_proofs` module per component; those of
`AccessPolicy` are with `FrontDoor`'s.

| Theorem | States |
|---|---|
| `RevocationCascade_proofs` | |
| `TypeCorrect` | the type invariant |
| `EffectsAreExact` | terminations, owed notices and deliveries agree, one per operation and grant, with one instant |
| `AnswersAreTrue` | an answer's grants are terminated, notified, receipted |
| `NothingBeyondTheDecision` | a termination ends what its caller selected, or what came after its read, on the terms selected, at an instant between the selection and the present; clocks that disagree included |
| `RevocationIsEffective` | after an answer nothing that was read permits the use; assumes `ClocksAgree` |
| `CascadeKeepsThePromise` | `Spec => Promise!Spec`, clocks that disagree included |
| `Licensing_proofs` | |
| `TypeCorrect` | exchanges and answers are well formed, whatever is proposed |
| `LicencesAreContainment` | a licence is given exactly when one open grant covers the request |
| `OffersWithinCeiling` | no offer goes beyond the policy's maximum, but for one that is never agreed (section 6) |
| `NegotiationsConverge` | a counteroffer proposed back is agreed as it stands, and a rejection has nothing to narrow to |
| `SupervisedWrites_proofs` | |
| `SupervisionTypes`, `FenceIsExact` | types; the fence closes before the caller is told and not before the deadline |
| `OutcomesStayTrue` | "ok" means written; the TaskAbandoned events are, in order, those of the failures the callers were told of |
| `BreakerIsExact` | the failure count is that of the failures since the agent's last good task; the breaker opens at the threshold and not before, and refuses from then on |
| `LateWorkersAreHarmless` | no write begins for a call that has returned, and no document is replaced |
| `FleetDelegation_proofs` | |
| `FleetTypes`, `AbandonedLeaveTheRegistry` | types; an abandoned agent has a deregistration newer than its publication |
| `DiscoveryHasAnExplanation` | only another run brings the agent back or takes it away, whatever the clocks say |
| `IncidentResponse_proofs` | |
| `IncidentTypes`, `RecordNeverAhead` | types; contained and closed are recorded after the facts, and a manifest reproduces its decision |
| `ContainmentIsFounded` | a freeze or a revocation agrees with every later fold of the log, for an access that had settled |
| `ContainmentHolds` | who arrives frozen gets no receipt, nor does anyone for a grant ended before |
| `FrontDoor_proofs` | |
| `FrontDoorTypes`, `RegistrationsStand` | types; a 201 means the one row of the work is the caller's |
| `AnswersStayTrue` | a 200 means all was executed, a refusal that nothing was nor will be |
| `OwnershipKept` | `Spec => Promise!Spec` of `OwnershipPromise`, lost and late hops included |
| `DomainsSeparated`, `OneWriter`, `SandboxApart` | only the grant log is shared, by two roles of which one may write; the sandbox has its own collections |
| `SessionOnly` | what the negotiator reads is its session's counterparty's |
| `CascadeBatchIsWhole` | the cascade's batch, and the sandbox's, is permitted and in one database |
| `AgentCannotBypass`, `AgentsReadAsDocumented` | an agent's check and the gateway's agree; documented reads are granted, documented denials refused |
| `OneWitness` | an assertion class has one role that may make it, and the arbiter none |
| `EvidenceRecord_proofs` | |
| `EvidenceTypes`, `AuditsCountVisitors` | types; an audit's figure lies between the log it found and the visitors who came |
| `PublishedCountsStand` | a count is one the log held since the request came in, and an audit answered with is kept |
| `ManifestsAreHonest` | the manifest says what the registry says, or that it could not ask, and agrees with the proof route |
| `RobotsFlagsAreTrue` | the robots flag of a new record is backed by the log |
| `DemoSandbox_proofs` | |
| `SandboxTypes`, `ClaimsAreKept` | types; a confirmed registration keeps its row, ids run without a gap to the limit |
| `ClosedOffers`, `GrantsAreHeld` | nothing is granted inside what was answered as revoked; what was granted is in the log |

**Assumptions.** Each module states what its constants are in one named formula
(`ConsentAssumption`, `CascadeAssumption`, `LicensingAssumption`, `SupervisionAssumption`,
`FleetAssumption`, `IncidentAssumption`, `FrontDoorAssumption`, `EvidenceAssumption`,
`SandboxAssumption`), which TLC evaluates on every run; `RevocationIsEffective` assumes
`ClocksAgree` besides. Most conjuncts are types. The others, and why they hold:

- the runs of the fleet and the requests of a sandbox session are finite sets,
  because the registry must have a newest event and a session a number of works;
- nobody seeded a work through a request (`FrontDoor`), or registered one id twice
  (`FrontDoor`, `EvidenceRecord`: the id is the document's key);
- operation ids of incidents differ (`OpOf`: each is its own incident's id with a prefix,
  `engine.py:277`);
- no row of the committed seed claims `verified_control` without its proof. The five
  rows of `main.py:158-264` are all `asserted`. The proof of `ManifestsAreHonest`
  asked for it: when the registry cannot be read the seed is served as it stands
  (`main.py:292-294`), without the check that every merged row goes through
  (`_tier_the_evidence_supports`), and the proof route would disagree with it.

**The argument.** No property but a few type invariants is inductive as it stands.
Each proof module begins with its inductive invariant `IInv`, which TLC checked on
the module's run before it was proved, then has the lemmas on the operators, one
lemma per action, and the theorems.

*RevocationCascade.* `EffectsAgree` (`PairedEffects`, `OncePerOperation` and
`NoticesOwed`) is not
inductive: a `Deliver` must know that its row is in the outbox. `EffectsInv` adds
`RowsInv` (the rows and receipts of an execution are rows of the outbox and the
notices, of its own operation) and `StampInv` (what is about to be committed is a
revoked event of its own operation). `ReportIsTrue` needs, per
caller, `SnapInv` (what was read is still in the log, the selection is the
selection of that snapshot, a stamped event comes from it) and `AnswerInv` (where
each affected grant is: still to do, stamped, terminated, in a row, receipted);
an effect whose batch collides is one another execution of the operation
committed, and that is why the loser's answer is true as well. `EndsWhatItSelected` adds
`MomentsInv` to them: on its host's clock an execution selects, then stamps, then
commits, and no two granted events of a grant share an instant, so a grant has at
most one event in force (`OneInForce`), whose terms the termination repeats. An
event that was read and is in force at the commit was in force in the snapshot too
(`InForceDownwards`): the log only grew. `RevocationHolds`
needs `TimesInv`: every granted event is older than the clock, every termination
a caller stamps is younger than what it read. That is where `ClocksAgree` enters.
A host that runs behind stamps a revoked event before the grant it revokes, and
the fold then ignores it; the assumption is about deployment, and not one the
code enforces. `CascadeKeepsThePromise` needs no such thing: appending
to the log never revives an event (`AppendEndsOnly`), whatever its stamp.

*Licensing* argues from pure lemmas: each comparison of `permits` is an
inclusion (`WindowContained`, `TerritoryContained`, `UseTypeOrder`; `PermitsCovers`
puts them together), the clamp's offer is a scope below the policy
(`OfferedTyped`, `OfferBelowPolicy`) and is a fixed point of the clamp
(`OfferIsAgreed`), but for a policy with an empty list of territories, which agrees to
nothing at all (`NothingAgreedOnNoPlace`). The inductive invariant `IInv` then only has to know that the
exchange on record is what the clamp made of its proposal, that a counteroffer
begins where its proposal did (so its capped window still fits), and that no
negotiation goes on once a request is decided, so that `permitted` is about the
grants still held.

*SupervisedWrites.* `LeaseOf` ties a call's position to its lease: good until
deadline plus grace while it is awaited, ended before anybody is told. That grace
is not negative is all that keeps a worker with time from being refused. `WorkOf`
ties a worker's remaining writes to the store. The events need a witness: each new
failure extends the matching of events and answers by one pair at the end, and each
"ok" leaves it. `BreakerCountsFailures` is inductive beside `OneCallInv`: a new answer
is the last one, so it adds its own index to the failures of its agent or, for a
good task, empties them (`OneCounted`), and what was counted earlier stays counted
(`EarlierCounts`).

*FleetDelegation.* `StampsInv` says that no two events share a position and
`PositionOf` where a run's two stamps are and whether they were appended. An agent
that a run published and cannot find is one whose newest event deregisters it, hence
comes after the publication (`GoneIsDeregistered`); one that is found after a
quarantine has a publication newer than both of the run's events, which is therefore
not its own (`FoundIsRegistered`).

*IncidentResponse.* One invariant per concern of a run: `DecisionOf`, `ResponseOf`,
`CascadeOf`, `RecordOf`, and `FoldOf`, on which `FindingStands` rests: the fold at an
instant older than `opened_at - Lag` does not change by what is appended later,
since that is stamped later. `LateRequestRefused` rests on an event, once struck,
staying struck (`AskOf`).

*FrontDoor.* `HandlerInv` and `HopInv` say what has been done at each point of a
handler and of a hop: nothing before `Send`, and nothing ever for a refusal,
because a service acts only on a hop and a hop belongs to a request that was
authorised. The refinement then needs that a row is created for an id without one
and that a cascade begins for the owner (`Owns`), who was the owner when it was looked
up and is so when the worker acts, because ownership never changes.

*EvidenceRecord.* `RecordsInv`: whoever came was logged at most once, and while the
append of a request is under way, not yet, although a hop that was given up may
still append. So the third-party records inject into the visitors, by who left
them, and `FS_Injection` bounds their number. `HopsOf` says what each answer under
way is worth: a figure is one the log held since the request came in (`Supported`),
a registry one that has every row it had then (`Registry`), a robots flag one that
the log backs. Everything grows, so what was worth something stays so (`Frame`). The
manifest is argued from lemmas on the merge (`MergedIs`, `ManifestRows`): ids stay
unique, and no row leaves `TierSupported` with a tier it does not prove.

*DemoSandbox.* `RegistrationOf`: a registration at its last step holds a number at most
one beyond the works there are, so if its id is free its number is the next one.
`GrantOf` carries what a request was promised closed down to its answer, and `LogInv`
that all events of a grant are about the scope it was granted for, which is why a
revoked event strikes exactly that.

## 6. What the documentation says and the code does not do

- `supervised_late_write`: "an abandoned worker cannot commit". It cannot *begin* to
  (`LateWorkerHarmless`); a create whose check came before the deadline may land
  after the caller was told.
- `incident_survivor`: "grants exist that the custodian's scope finding undercuts:
  terminate". The finding is about automated access and undercuts every grant the
  negotiator found; the cascade runs once, for the use of the first of them, and a
  grant for another use is in force after the incident is closed.
- `front_door_unavailable`: "revocation worker unavailable; no effects were
  initiated". The front door says so also when its own timeout ended the wait, when
  the answer was lost, and when the worker failed part-way; the worker may have
  terminated grants by then, or do so afterwards.

In five more places a comment and the code part. Passing properties say how far:

- `revocation_propagator.py:199-203`: "ONE instant for the whole cascade. Selection and
  the appended events must agree about when this revocation happened: taking a fresh
  clock per grant would let a grant expire *between* being selected and being
  terminated, and the notice would then carry a different moment than the decision
  that produced it." Line 204 takes that instant, and line 271 a fresh one per grant,
  after its notice was drafted: a grant may expire in between, is terminated none the
  less, and event and notice carry the later moment. `EndsWhatItSelected` bounds it:
  the grant was open at the selection, and the moment lies between the selection and
  the present of the host.
- `negotiation.py:121-122`: "Policy WW allows anything; otherwise the offered set is the
  intersection, and an empty intersection is a rejection." A worldwide proposal is not
  intersected but given the policy's list (lines 126-128). When that list is empty the
  offer is the empty list, which is worldwide in a grant. `OfferWithinCeiling` lets this
  one counteroffer through and shows that it is never agreed: proposed back, it is
  countered again, for ever. A proposal of a named place is rejected.
- `demo_sandbox.py:553-556`: "A revocation closes the standing OFFER too, not just the
  grant it struck". The market reads the revoked uses at line 558 and appends its grant
  further on. A revocation that runs on another instance in between neither stops that
  grant nor strikes it, if the cascade has read the log already: a grant is in force on an
  offer that is closed. `ClosedOfferStaysClosed` covers the requests that arrive after an
  answered revocation only. `GrantedIsHeld` holds of the grant as of any other.
- `adk_fleet.py:430-431`: "The quarantined agent stays deregistered for the remainder of
  the run: a second discovery must not find it." It may, when a concurrent delegation
  publishes the agent again; `DiscoveryIsExplained` shows that nothing else brings it
  back.
- `buyer_api.py:433-434` (the docstring of `register_work`): "a proof that parses gives
  `verified_control`". Since the fix told at lines 453-471 only a proof that
  `substantiate` verifies does; one that merely parses is stored and the tier stays
  `asserted`. `FrontDoor` follows the code.

Other behaviours the models have, which a reader of the code may want to know and
which no run asserts either way:

- Two revocations under different operation ids that overlap both select a grant
  from their snapshots and both terminate it: two notices, two receipts.
- A narrower re-grant appended while a notice is drafted is struck by the revoked
  event stamped after it, though it never permitted the revoked use.
- A prohibited use is looked for by name only: where the maximum is training and
  fine-tuning is prohibited, a proposal of training is agreed, and it contains
  fine-tuning.
- `degraded_reroute` lists the grants of uses inside the revoked one; the cascade
  takes the grants whose use contains it.
- In the sandbox, a revocation that strikes no grant leaves no event, so the offer
  is not closed by it; the signing limit counts calls per instance beside the
  events of the work; the market's answer calls its interpretation live though a
  committed response is served first.

## 7. What is only model-checked, and what is not modelled

Liveness (`OwedIsDelivered`, `CallerIsAnswered`, `EveryLeaseEnds`,
`EveryRequestAnswered`, `EveryVisitIsAnswered`) is beyond the proof system and stays
with TLC. So do the three properties of section 6 that do not hold. Everything else
that a run checks is a theorem of section 5.

Left out on purpose:

- in the cascade, the dimensions of a scope other than use and end, which it does
  not read; the list of in-memory events that stands in for an empty read of
  `grants` (a hazard on the list);
- the kinds `superseded` and `expired`, which the fold knows and nothing appends;
- a second concurrent incident (the manifest chain may then fork) and the offline
  verifier's signature checks;
- the wording of notices and answers; signatures, which enter only as a step that
  holds or fails;
- of the evidence service, canary pages, sitemap, metrics snapshot and verification
  key; of the evidence engine, everything that classifies text;
- `CallerIdentity.from_oidc` and strict identity, which the production calls do not
  use: they identify the caller by the account they claim;
- prompts and their inspection, cryptography, the memory bank, observability, the
  console, the harness and the scripts, which keep no state of this system's own.
  PROJECT.json gives the reason of each.

## 8. Plan

Every safety property has its proof. What could be proved further, in this order:

1. What the abstract specifications promise, as theorems about them: of
   `ConsentPromise`, that a notice is told only of an event that was ended and once per
   operation and grant; of `OwnershipPromise`, that a holder is for good. With the two
   refinements these hold of the cascade and of the front door.
2. The policy and the components together: that each write of `RevocationCascade`,
   `IncidentResponse` and `DemoSandbox` is one that `AccessPolicy` allows its role.
3. `Lattice` and `Consent` on their own: the orders as orders, and the fold as a
   function of the set of events, not of the order they were appended in.

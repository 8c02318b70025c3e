------------------------- MODULE RevocationCascade -------------------------
(***************************************************************************)
(* Revoking a use of a work (RevocationPropagatorAgent).  Each caller runs *)
(* execute_revocation_cascade step by step against Firestore: read the     *)
(* grants, select the affected ones, then per grant stamp a revoked event  *)
(* and commit it with its outbox record in one batch; then read the        *)
(* operation's outbox and write every notice it owes.  Any step may fail;  *)
(* a caller that kept its operation_id sends the request again.            *)
(***************************************************************************)
EXTENDS Consent, FiniteSets

CONSTANTS
  Callers,        \* concurrent executions of the cascade
  Persistent,     \* the callers that keep one operation_id until answered
  Skew,           \* a caller's host clock minus the reference clock
  Seeds,          \* granted events already in the log
  NewScopes,      \* scopes a re-grant may carry
  RevocableUses,  \* the uses that requests name
  MaxClock,       \* bound: the last instant of the model
  MaxCrashes      \* bound: executions that fail part-way

CascadeAssumption ==
  /\ Persistent \subseteq Callers
  /\ Skew \in [Callers -> Int]
  /\ Seeds \subseteq {e \in GrantEvent :
                       e.kind = "granted" /\ e.op = NoOp /\ e.at < 1}
  /\ \A d, e \in Seeds : d.grant = e.grant /\ d.at = e.at => d = e
  /\ NewScopes \subseteq Scope
  /\ RevocableUses \subseteq UseTypes
  /\ MaxClock \in Nat /\ MaxCrashes \in Nat

ASSUME CascadeAssumed == CascadeAssumption

VARIABLES
  log,       \* collection `grants`: the append-only event log
  outbox,    \* collection `revocation_outbox`: notices owed
  notices,   \* collection `revocation_notices`: notices delivered
  clock,     \* the reference clock
  crashes,   \* executions that failed so far
  run        \* the locals of each caller's execution

store == <<log, outbox, notices>>
vars  == <<store, clock, crashes, run>>

Request == [op : Ops, work : Works, use : RevocableUses]
Row     == [op : Ops, grant : Grants, revoked_at : Int]

Run == [pc         : {"idle", "read", "select", "terminate", "commit",
                      "deliver", "done", "failed"},
        req        : Request,
        seen       : SUBSET GrantEvent,  \* the grant events it read
        cascade_at : Int,                \* the one instant of its selection
        affected   : SUBSET GrantEvent,  \* affected_grants, by defining event
        todo       : SUBSET GrantEvent,  \* those its loop has not reached
        stamped    : SUBSET GrantEvent,  \* the revoked event about to be committed
        newly      : SUBSET Grants,      \* grants whose pair this call committed
        rows       : SUBSET Row,         \* outbox rows still to deliver
        receipts   : SUBSET Row]         \* the receipts of this call

Start(r, at) == [pc |-> at, req |-> r, seen |-> {}, cascade_at |-> 0,
                 affected |-> {}, todo |-> {}, stamped |-> {}, newly |-> {},
                 rows |-> {}, receipts |-> {}]

Clock(c) == clock + Skew[c]

(* revocation_effect_id: the document id of an effect is a function of the *)
(* operation, the grant and the kind of effect.  D holds that id already.  *)
Taken(D, e) == \E d \in D : d.op = e.op /\ d.grant = e.grant

(* Mutant of RowOf: the record carries the end of the window, not the instant. *)
RowOfWindow(e) == [op |-> e.op, grant |-> e.grant,
                   revoked_at |-> e.scope.valid_until]

RowOf(e) == [op |-> e.op, grant |-> e.grant, revoked_at |-> e.at]

(* Mutant of Affected: an expired grant is terminated again.               *)
AffectedThoughExpired(E, r, at) ==
  {e \in InForce(OfWork(E, r.work)) :
     is_use_type_contained(e.scope.use_type, r.use)}

(* Mutant of Affected: the use must be granted by name, not contained.     *)
AffectedByName(E, r, at) ==
  {e \in InForce(OfWork(E, r.work)) :
     e.scope.use_type = r.use /\ ~scope_window_has_closed(e.scope, at)}

(* Affected: the grant permits the revoked use and its window is open.     *)
Affected(E, r, at) ==
  {e \in InForce(OfWork(E, r.work)) :
     /\ is_use_type_contained(e.scope.use_type, r.use)
     /\ ~scope_window_has_closed(e.scope, at)}

Revoked(e, o, at) == [e EXCEPT !.kind = "revoked", !.op = o, !.at = at]

-----------------------------------------------------------------------------
Init ==
  /\ log = Seeds /\ outbox = {} /\ notices = {}
  /\ clock = 1 /\ crashes = 0
  /\ run \in [Callers -> {Start(r, "idle") : r \in Request}]

(* A revocation arrives.                                                   *)
Begin(c) ==
  /\ run[c].pc = "idle"
  /\ run' = [run EXCEPT ![c].pc = "read"]
  /\ UNCHANGED <<store, clock, crashes>>

(* The caller that kept its operation_id sends the same request again,     *)
(* after an error or when the answer never reached it.                     *)
Resend(c) ==
  /\ c \in Persistent
  /\ run[c].pc \in {"done", "failed"}
  /\ run' = [run EXCEPT ![c] = Start(run[c].req, "read")]
  /\ UNCHANGED <<store, clock, crashes>>

(* A caller without an idempotency key starts over: whatever it asks next  *)
(* is a new operation.                                                     *)
NewOperation(c) ==
  /\ c \notin Persistent
  /\ run[c].pc \in {"done", "failed"}
  /\ \E r \in Request : run' = [run EXCEPT ![c] = Start(r, "read")]
  /\ UNCHANGED <<store, clock, crashes>>

(* The snapshot of the work's grant events.                                *)
ReadGrants(c) ==
  /\ run[c].pc = "read"
  /\ run' = [run EXCEPT ![c].seen = OfWork(log, run[c].req.work),
                        ![c].pc = "select"]
  /\ UNCHANGED <<store, clock, crashes>>

(* cascade_at is taken, and every grant is folded against it.              *)
Select(c) ==
  /\ run[c].pc = "select"
  /\ LET hit == Affected(run[c].seen, run[c].req, Clock(c))
     IN run' = [run EXCEPT ![c].cascade_at = Clock(c),
                           ![c].affected = hit,
                           ![c].todo = hit,
                           ![c].pc = "terminate"]
  /\ UNCHANGED <<store, clock, crashes>>

(* The notice of the next affected grant has been drafted; its revoked     *)
(* event is stamped with a fresh clock and signed.                         *)
Stamp(c) ==
  /\ run[c].pc = "terminate"
  /\ \E e \in run[c].todo :
       run' = [run EXCEPT ![c].todo = @ \ {e},
                          ![c].stamped = {Revoked(e, run[c].req.op, Clock(c))},
                          ![c].pc = "commit"]
  /\ UNCHANGED <<store, clock, crashes>>

(* Mutant of Commit: two writes instead of a batch, and the second may fail. *)
CommitInTwoWrites(c) ==
  /\ run[c].pc = "commit"
  /\ \E e \in run[c].stamped :
       /\ log' = IF Taken(log, e) THEN log ELSE log \cup {e}
       /\ outbox' \in {outbox, IF Taken(outbox, e) THEN outbox
                               ELSE outbox \cup {RowOf(e)}}
       /\ run' = [run EXCEPT ![c].stamped = {}, ![c].pc = "terminate",
                             ![c].newly = @ \cup {e.grant}]
  /\ UNCHANGED <<notices, clock, crashes>>

(* Mutant of Commit: the documents are set, not created; a retry overwrites. *)
CommitOverwrites(c) ==
  /\ run[c].pc = "commit"
  /\ \E e \in run[c].stamped :
       /\ log' = {f \in log : ~Taken({f}, e)} \cup {e}
       /\ outbox' = {r \in outbox : ~Taken({r}, e)} \cup {RowOf(e)}
       /\ run' = [run EXCEPT ![c].stamped = {}, ![c].pc = "terminate",
                             ![c].newly = @ \cup {e.grant}]
  /\ UNCHANGED <<notices, clock, crashes>>

(* write_documents_atomic: the revoked event and the outbox record, both   *)
(* or neither.  An id that exists fails the batch, and that is swallowed.  *)
Commit(c) ==
  /\ run[c].pc = "commit"
  /\ \E e \in run[c].stamped :
       IF Taken(log, e) \/ Taken(outbox, e)
       THEN /\ run' = [run EXCEPT ![c].stamped = {}, ![c].pc = "terminate"]
            /\ UNCHANGED store
       ELSE /\ log' = log \cup {e}
            /\ outbox' = outbox \cup {RowOf(e)}
            /\ run' = [run EXCEPT ![c].stamped = {}, ![c].pc = "terminate",
                                  ![c].newly = @ \cup {e.grant}]
            /\ UNCHANGED notices
  /\ UNCHANGED <<clock, crashes>>

(* Mutant of ReadOutbox: only what this call committed, not what is owed.  *)
ReadOwnEffects(c) ==
  /\ run[c].pc = "terminate" /\ run[c].todo = {}
  /\ run' = [run EXCEPT ![c].rows = {r \in outbox : /\ r.op = run[c].req.op
                                                    /\ r.grant \in run[c].newly},
                        ![c].pc = "deliver"]
  /\ UNCHANGED <<store, clock, crashes>>

(* deliver_pending_notices reads what the operation owes, for every work.  *)
ReadOutbox(c) ==
  /\ run[c].pc = "terminate" /\ run[c].todo = {}
  /\ run' = [run EXCEPT ![c].rows = {r \in outbox : r.op = run[c].req.op},
                        ![c].pc = "deliver"]
  /\ UNCHANGED <<store, clock, crashes>>

(* One row: create the notice unless its id exists; either way a receipt.  *)
Deliver(c) ==
  /\ run[c].pc = "deliver"
  /\ \E r \in run[c].rows :
       /\ notices' = IF Taken(notices, r) THEN notices ELSE notices \cup {r}
       /\ run' = [run EXCEPT ![c].rows = @ \ {r}, ![c].receipts = @ \cup {r}]
  /\ UNCHANGED <<log, outbox, clock, crashes>>

Respond(c) ==
  /\ run[c].pc = "deliver" /\ run[c].rows = {}
  /\ run' = [run EXCEPT ![c].pc = "done"]
  /\ UNCHANGED <<store, clock, crashes>>

(* The execution ends part-way: the process dies, Firestore or the signer  *)
(* fails, the gateway denies a write.  Nothing already written is undone.  *)
Crash(c) ==
  /\ run[c].pc \in {"read", "select", "terminate", "commit", "deliver"}
  /\ crashes < MaxCrashes
  /\ crashes' = crashes + 1
  /\ run' = [run EXCEPT ![c].pc = "failed"]
  /\ UNCHANGED <<store, clock>>

(* The artist's side grants, or grants again: a `granted` event, stamped    *)
(* some time before it is appended.  No two grants of one id share a stamp. *)
IssueGrant(g, scope) ==
  /\ clock < MaxClock
  /\ \E at \in 0..clock :
       /\ ~\E e \in log : e.kind = "granted" /\ e.grant = g /\ e.at = at
       /\ log' = log \cup {[grant |-> g, kind |-> "granted", op |-> NoOp,
                            at |-> at, scope |-> scope]}
  /\ clock' = clock + 1
  /\ UNCHANGED <<outbox, notices, crashes, run>>

Tick ==
  /\ clock < MaxClock
  /\ clock' = clock + 1
  /\ UNCHANGED <<store, crashes, run>>

Step(c) == \/ ReadGrants(c) \/ Select(c) \/ Stamp(c) \/ Commit(c)
           \/ ReadOutbox(c) \/ Deliver(c) \/ Respond(c)

Next ==
  \/ \E c \in Callers : \/ Begin(c) \/ Resend(c) \/ NewOperation(c)
                        \/ Step(c) \/ Crash(c)
  \/ \E g \in Grants, scope \in NewScopes : IssueGrant(g, scope)
  \/ Tick

Spec == Init /\ [][Next]_vars

(* A started execution keeps going unless it fails, and a persistent caller *)
(* that was not answered sends again.  Nobody is obliged to begin.          *)
FairSpec == /\ Spec
            /\ \A c \in Callers : WF_vars(Step(c))
            /\ \A c \in Persistent : WF_vars(run[c].pc = "failed" /\ Resend(c))

-----------------------------------------------------------------------------
(* The variables keep their types; the collections hold well-formed rows.  *)
TypeOK ==
  /\ log \subseteq GrantEvent
  /\ outbox \subseteq Row
  /\ notices \subseteq Row
  /\ clock \in Nat /\ crashes \in Nat
  /\ run \in [Callers -> Run]

Done(c) == run[c].pc = "done"

(* What an operation did to a grant: its revoked event, if it committed.   *)
Terminations(o, g) == {f \in log : f.kind = "revoked" /\ f.op = o /\ f.grant = g}

(* d authorises use u for someone reading the log now, or may yet.         *)
StillPermits(d, u) ==
  /\ d \in InForce(log)
  /\ is_use_type_contained(d.scope.use_type, u)
  /\ ~scope_window_has_closed(d.scope, clock)

(* "The grant is terminated" and "a notice is owed" are one fact: the      *)
(* revoked events and the outbox records are each other's image, whatever  *)
(* failed in between (write_documents_atomic).                             *)
PairedEffects == outbox = {RowOf(f) : f \in {e \in log : e.kind = "revoked"}}

(* Exactly-once business effect over at-least-once execution: however      *)
(* often and by however many processes an operation is run, it leaves at   *)
(* most one obligation per grant, and so one instant of revocation.        *)
OncePerOperation ==
  \A r, s \in outbox : r.op = s.op /\ r.grant = s.grant => r = s

(* A counterparty is told only of a termination that happened, with the    *)
(* instant at which it happened.                                           *)
NoticesOwed == notices \subseteq outbox

(* The three collections agree at every instant, between any two steps of  *)
(* any number of executions: what ended is owed, once, and what was told   *)
(* was owed (revocation_propagator.py:295, 314, 367; revocation.py:49).    *)
EffectsAgree == PairedEffects /\ OncePerOperation /\ NoticesOwed

(* An answered revocation did what it reports: for every affected grant    *)
(* the operation's termination is in the log, the notice is delivered, and *)
(* the answer carries the receipt of that very termination.                *)
ReportIsTrue ==
  \A c \in Callers : Done(c) =>
    \A d \in run[c].affected :
      \E f \in Terminations(run[c].req.op, d.grant) :
        RowOf(f) \in notices \cap run[c].receipts

(* After the answer, no grant that the cascade could read permits the      *)
(* revoked use, now or later.  The one exception is a replay over a        *)
(* re-grant: this operation had terminated the grant already, and its ids  *)
(* can terminate it only once.                                             *)
RevocationHolds ==
  \A c \in Callers : Done(c) =>
    \A d \in run[c].seen : StillPermits(d, run[c].req.use) =>
      /\ d.grant \notin run[c].newly
      /\ Terminations(run[c].req.op, d.grant) # {}

(* What a termination takes out of force is what its caller decided to     *)
(* take, or came after the caller's read.  The decision is made on a       *)
(* snapshot at one instant, the effect falls on the log of a later one:    *)
(* other executions commit, and grants are issued and expire, in between.  *)
(* A grant that the caller had read and that its commit ends did permit    *)
(* the revoked use when it was selected; the event repeats the terms that  *)
(* were selected, and its instant, which the notice carries, lies between  *)
(* the selection and the present of the caller's host.                     *)
EndsWhatItSelected ==
  [][\A f \in log' \ log : f.kind = "revoked" =>
       \E c \in Callers :
         /\ f \in run[c].stamped /\ f.op = run[c].req.op
         /\ run[c].cascade_at <= f.at /\ f.at <= Clock(c)
         /\ \E d \in InForce(run[c].seen) : d.grant = f.grant /\ d.scope = f.scope
         /\ \A d \in (InForce(log) \ InForce(log')) \cap run[c].seen :
              /\ WorkOf[d.grant] = run[c].req.work
              /\ d.scope = f.scope
              /\ is_use_type_contained(d.scope.use_type, run[c].req.use)
              /\ ~scope_window_has_closed(d.scope, run[c].cascade_at)]_vars

(* A notice that a persistent caller's execution made owed is delivered in *)
(* the end, though executions fail between the commit and the delivery.    *)
OwedIsDelivered ==
  \A c \in Persistent, g \in Grants :
    (g \in run[c].newly) ~>
      (\E n \in notices : n.op = run[c].req.op /\ n.grant = g)

-----------------------------------------------------------------------------
(* The cascade implements the promise: the granted events of the log, the  *)
(* struck ones among them, and the documents of the two collections.       *)
GrantedEvents(E) == {e \in E : e.kind = "granted"}

EffectOf(r) == <<r.op, r.grant>>

Promise == INSTANCE ConsentPromise WITH
  Granting <- GrantedEvents(GrantEvent),
  Effect   <- Ops \X Grants,
  granted  <- GrantedEvents(log),
  ended    <- GrantedEvents(log) \ InForce(log),
  owed     <- {EffectOf(r) : r \in outbox},
  told     <- {EffectOf(r) : r \in notices}

(* Every behaviour of the cascade, crashes and overlaps included, is a     *)
(* behaviour of the promise: no grant ends silently, none comes back.      *)
ImplementsPromise == Promise!Spec

=============================================================================

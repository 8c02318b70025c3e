----------------------------- MODULE FrontDoor -----------------------------
(***************************************************************************)
(* The front door and the private services behind it.  An artist registers *)
(* a work or revokes its grants; the front door authenticates, reads the   *)
(* registry, and hands the effect to the workload that owns the domain:    *)
(* the custodian's service creates the row, the revocation worker runs the *)
(* cascade.  The hop may be lost, fail, answer late, or be given up while  *)
(* the service goes on.  In a credential-free run everything is in one     *)
(* process.  The cascade itself is RevocationCascade's.                    *)
(***************************************************************************)
EXTENDS AccessPolicy, Integers, FiniteSets

CONSTANTS
  Requests,        \* requests to the public routes, each served once
  WorkIds,         \* work ids
  Principals,      \* artists and counterparties
  Nobody,          \* no principal, no request
  Keys,            \* key ids with a credential record
  credentials,     \* the record of each key
  Seeds,           \* rows registered before
  Calls,           \* what a request may carry
  InternalCalls,   \* what callers other than the front door send to a service
  MAX_CLOCK_SKEW_SECONDS

Credential == [bound : Principals \cup {Nobody}, active : BOOLEAN,
               principal_type : {"artist", "counterparty"}]

Proofs == {"none", "malformed", "signed", "unsigned", "unverifiable"}

(* `signed`: the headers are there and the signature is over this body.    *)
Call == [kind : {"register", "revoke"}, key : STRING, age : Int,
         signed : BOOLEAN, work : WorkIds, proof : Proofs]

Services == {"front_door", "rights_custodian", "revocation_propagator"}

(* A call of an internal route: the service it reaches, the role it asks   *)
(* for, and the e-mail and audience of its token.                          *)
InternalCall == [host : Services, role : Roles, email : STRING,
                 aud : Services, work : WorkIds]

Row == [work : WorkIds, artist : Principals, tier : {"asserted", "verified_control"},
        by : Requests \cup {Nobody}]

FrontDoorAssumption ==
  /\ Nobody \notin Principals \cup Requests
  /\ credentials \in [Keys -> Credential]
  /\ Seeds \subseteq Row
  /\ \A r, s \in Seeds : r.work = s.work => r = s
  /\ \A v \in Seeds : v.by = Nobody
  /\ Calls \subseteq Call /\ InternalCalls \subseteq InternalCall
  /\ \A c \in InternalCalls : c.email # "front_door"
  /\ MAX_CLOCK_SKEW_SECONDS \in Nat

ASSUME FrontDoorAssumed == FrontDoorAssumption

VARIABLES
  split,     \* the domain services are deployed (never changes)
  works,     \* the registry
  cascade,   \* what the revocation of each request did: nothing, some, all
  hop,       \* the request's call to a private service
  task       \* per request: where its handler is, and what it carries

vars == <<split, works, cascade, hop, task>>

Answers == {"200", "201", "403", "404", "422", "500", "503"}

-----------------------------------------------------------------------------
(* authenticate: the headers, the freshness window with both its ends, an  *)
(* active record, the signature, and a binding to somebody.                *)
authenticate(q) ==
  /\ q.signed
  /\ q.age <= MAX_CLOCK_SKEW_SECONDS /\ -q.age <= MAX_CLOCK_SKEW_SECONDS
  /\ q.key \in Keys /\ credentials[q.key].active
  /\ credentials[q.key].bound # Nobody

(* _authenticate_or_403 of the artist's routes.                            *)
AuthenticArtist(q) ==
  authenticate(q) /\ credentials[q.key].principal_type = "artist"

(* The identity is the credential's, whatever the body says.               *)
Artist(q) == credentials[q.key].bound

(* substantiate: only a signed commit has a verifier, and it must be good. *)
substantiate(proof) == proof = "signed"

Tier(q) == IF substantiate(q.proof) THEN "verified_control" ELSE "asserted"

Rows(w) == {v \in works : v.work = w}

NewRow(r) == [work |-> task[r].q.work, artist |-> Artist(task[r].q),
              tier |-> Tier(task[r].q), by |-> r]

(* Mutant of Owns: any artist may, as long as the work is registered.      *)
OwnsRegistered(q) == Rows(q.work) # {}

(* _verify_work_ownership: the row is there, and it is the caller's.       *)
Owns(q) == \E v \in Rows(q.work) : v.artist = Artist(q)

(* A service accepts a token for its own host, or for the front door's     *)
(* canonical one, which every service of the image lists.                  *)
expected_oidc_audiences(host) == {host, "front_door"}

(* _domain_service_or_404: the front door holds no role, and a service     *)
(* answers for its own only.                                               *)
_domain_service_or_404(c) == c.host # "front_door" /\ c.role = c.host

(* verify_front_door_oidc: the token names the front door's account.       *)
verify_front_door_oidc(c) ==
  c.email = "front_door" /\ c.aud \in expected_oidc_audiences(c.host)

Accepts(c) == _domain_service_or_404(c) /\ verify_front_door_oidc(c)

(* The front door's own call to the service that holds a role.             *)
HopTo(role, w) == [host |-> role, role |-> role, email |-> "front_door",
                   aud |-> role, work |-> w]

Goes(r, pc) == task' = [task EXCEPT ![r].pc = pc]

-----------------------------------------------------------------------------
NoCall == [kind |-> "none"]

Init ==
  /\ split \in BOOLEAN
  /\ works = Seeds
  /\ cascade = [r \in Requests |-> "none"]
  /\ hop = [r \in Requests |-> "none"]
  /\ task = [r \in Requests |-> [pc |-> "new", q |-> NoCall]]

(* A request arrives and is authenticated; a control proof must parse.     *)
Arrive(r) ==
  /\ task[r].pc = "new"
  /\ \E q \in Calls :
       task' = [task EXCEPT ![r] =
         [q |-> q, pc |-> IF ~AuthenticArtist(q) THEN "403"
                          ELSE IF q.kind = "register" /\ q.proof = "malformed" THEN "422"
                          ELSE "look"]]
  /\ UNCHANGED <<split, works, cascade, hop>>

(* The custodian's read of the registry: a work that is taken cannot be    *)
(* registered, and one that is not the caller's cannot be revoked.  A read *)
(* that fails, on the way or at the service, refuses as well.              *)
Look(r) ==
  /\ task[r].pc = "look"
  /\ get_action_permission("rights_custodian", "works")
  /\ \/ Goes(r, "403")
     \/ task[r].q.kind = "register" /\ Rows(task[r].q.work) = {} /\ Goes(r, "act")
     \/ task[r].q.kind = "revoke" /\ Owns(task[r].q) /\ Goes(r, "act")
  /\ UNCHANGED <<split, works, cascade, hop>>

(* Mutant of Send: an offline run opens a socket all the same.             *)
SendAlways(r) ==
  /\ task[r].pc = "act"
  /\ hop' = [hop EXCEPT ![r] = "sent"]
  /\ Goes(r, "await")
  /\ UNCHANGED <<split, works, cascade>>

(* Deployed: the effect is asked of the private service.                   *)
Send(r) ==
  /\ task[r].pc = "act" /\ split
  /\ hop' = [hop EXCEPT ![r] = "sent"]
  /\ Goes(r, "await")
  /\ UNCHANGED <<split, works, cascade>>

(* In one process: the row is created here; an id that exists refuses...    *)
CreateHere(r) ==
  /\ task[r].pc = "act" /\ ~split /\ task[r].q.kind = "register"
  /\ IF Rows(task[r].q.work) = {}
     THEN works' = works \cup {NewRow(r)} /\ Goes(r, "201")
     ELSE Goes(r, "403") /\ UNCHANGED works
  /\ UNCHANGED <<split, cascade, hop>>

(* ... and the cascade runs here, to its end or until something fails.      *)
RevokeHere(r) ==
  /\ task[r].pc = "act" /\ ~split /\ task[r].q.kind = "revoke"
  /\ \/ cascade' = [cascade EXCEPT ![r] = "all"] /\ Goes(r, "200")
     \/ cascade' \in {[cascade EXCEPT ![r] = c] : c \in {"none", "some"}} /\ Goes(r, "500")
  /\ UNCHANGED <<split, works, hop>>

-----------------------------------------------------------------------------
(* The private services. They do not know whether the caller still waits.  *)

(* Mutant of CustodianCreate: the row is set, not created.                 *)
CustodianSet(r) ==
  /\ hop[r] = "sent" /\ task[r].q.kind = "register"
  /\ works' = (works \ Rows(task[r].q.work)) \cup {NewRow(r)}
  /\ hop' = [hop EXCEPT ![r] = "ok"]
  /\ UNCHANGED <<split, cascade, task>>

(* domain_write: create, in the custodian's database; a taken id fails,    *)
(* and the caller sees an HTTP 500, not a collision.                       *)
CustodianCreate(r) ==
  /\ hop[r] = "sent" /\ task[r].q.kind = "register"
  /\ Accepts(HopTo("rights_custodian", task[r].q.work))
  /\ MayWrite("rights_custodian", "works")
  /\ IF Rows(task[r].q.work) = {}
     THEN works' = works \cup {NewRow(r)} /\ hop' = [hop EXCEPT ![r] = "ok"]
     ELSE hop' = [hop EXCEPT ![r] = "failed"] /\ UNCHANGED works
  /\ UNCHANGED <<split, cascade, task>>

(* execute_private_revocation, to its end or until something fails.        *)
WorkerExecute(r) ==
  /\ hop[r] = "sent" /\ task[r].q.kind = "revoke"
  /\ Accepts(HopTo("revocation_propagator", task[r].q.work))
  /\ MayWriteAtomically("revocation_propagator", {"grants", "revocation_outbox"})
  /\ \/ cascade' = [cascade EXCEPT ![r] = "all"] /\ hop' = [hop EXCEPT ![r] = "ok"]
     \/ cascade' = [cascade EXCEPT ![r] = "some"] /\ hop' = [hop EXCEPT ![r] = "failed"]
  /\ UNCHANGED <<split, works, task>>

(* No service acts: no token, no connection, a refusal, a crash; or what   *)
(* answers the revocation is not the worker and carries no attestation.    *)
HopFails(r) ==
  /\ hop[r] = "sent"
  /\ \/ hop' = [hop EXCEPT ![r] = "failed"]
     \/ task[r].q.kind = "revoke" /\ hop' = [hop EXCEPT ![r] = "unattested"]
  /\ UNCHANGED <<split, works, cascade, task>>

(* Somebody else calls an internal route, with a token of their own.       *)
InternalRoute(r) ==
  /\ task[r].pc = "new"
  /\ \E c \in InternalCalls :
       /\ cascade' = [cascade EXCEPT ![r] = IF Accepts(c) THEN "all" ELSE "none"]
       /\ task' = [task EXCEPT ![r] = [q |-> c, pc |->
                     IF Accepts(c) THEN "200"
                     ELSE IF c.host = "front_door" THEN "404" ELSE "403"]]
  /\ UNCHANGED <<split, works, hop>>

-----------------------------------------------------------------------------
(* Mutant of Receive: any answer that is no error is taken for execution.  *)
ReceiveUnattested(r) ==
  /\ task[r].pc = "await" /\ hop[r] # "sent"
  /\ Goes(r, CASE task[r].q.kind = "register" -> IF hop[r] = "ok" THEN "201" ELSE "500"
               [] OTHER -> IF hop[r] = "failed" THEN "503" ELSE "200")
  /\ UNCHANGED <<split, works, cascade, hop>>

(* The answer of the service reaches the handler that waits for it.        *)
Receive(r) ==
  /\ task[r].pc = "await" /\ hop[r] # "sent"
  /\ Goes(r, CASE task[r].q.kind = "register" -> IF hop[r] = "ok" THEN "201" ELSE "500"
               [] OTHER -> IF hop[r] = "ok" THEN "200" ELSE "503")
  /\ UNCHANGED <<split, works, cascade, hop>>

(* Mutant of GiveUp: no timeout; only a broken connection ends the wait.   *)
GiveUpNever(r) ==
  /\ task[r].pc = "await" /\ hop[r] = "failed"
  /\ Goes(r, IF task[r].q.kind = "register" THEN "500" ELSE "503")
  /\ UNCHANGED <<split, works, cascade, hop>>

(* DOMAIN_CALL_TIMEOUT, REVOCATION_CALL_TIMEOUT: the handler waits no more, *)
(* whatever the service does.  No handler catches it for a registration.   *)
GiveUp(r) ==
  /\ task[r].pc = "await"
  /\ Goes(r, IF task[r].q.kind = "register" THEN "500" ELSE "503")
  /\ UNCHANGED <<split, works, cascade, hop>>

Serve(r) == \/ Look(r) \/ Send(r) \/ CreateHere(r) \/ RevokeHere(r)
            \/ Receive(r) \/ GiveUp(r)

Next == \E r \in Requests :
          \/ Arrive(r) \/ InternalRoute(r) \/ Serve(r)
          \/ CustodianCreate(r) \/ WorkerExecute(r) \/ HopFails(r)

(* The front door goes on with what it accepted, and its timeouts fire.    *)
(* Nothing is assumed of the private services.                             *)
Spec == Init /\ [][Next]_vars /\ \A r \in Requests : WF_vars(Serve(r))

-----------------------------------------------------------------------------
Task == [pc : {"new", "look", "act", "await"} \cup Answers,
         q : {NoCall} \cup Calls \cup InternalCalls]

(* The variables keep their types; only a request that was handed over has *)
(* a call to a service, and only a deployment with services makes any.     *)
TypeOK ==
  /\ split \in BOOLEAN
  /\ works \subseteq Row
  /\ cascade \in [Requests -> {"none", "some", "all"}]
  /\ hop \in [Requests -> {"none", "sent", "ok", "failed", "unattested"}]
  /\ task \in [Requests -> Task]
  /\ \A r \in Requests : hop[r] # "none" => split /\ task[r].pc \notin {"new", "look", "act"}

(* A confirmed registration stands: the answer 201 means that the work's   *)
(* one row is the caller's, with the tier that the verification earned,    *)
(* whoever else registers the same id and however late a service acts.     *)
RegisteredAnswerStands ==
  \A r \in Requests : task[r].pc = "201" =>
    /\ Rows(task[r].q.work) = {NewRow(r)}
    /\ NewRow(r).tier = "verified_control" => task[r].q.proof = "signed"

(* The registry and the revocations, as OwnershipPromise sees them.        *)
holder == [w \in WorkIds |-> IF Rows(w) = {} THEN Nobody
                             ELSE (CHOOSE v \in Rows(w) : TRUE).artist]

Asker(r) == IF task[r].q \in Calls THEN Artist(task[r].q) ELSE Nobody

revoked == {<<Asker(r), task[r].q.work>> :
              r \in {s \in Requests : cascade[s] # "none"}}

Promise == INSTANCE OwnershipPromise
             WITH Works <- WorkIds, Artists <- Principals, NoArtist <- Nobody

(* Over lost and late hops, a work is registered once and for good, and    *)
(* every cascade that takes effect, at whatever time, is for the artist    *)
(* who holds the work (_verify_work_ownership_or_403).                     *)
ImplementsOwnership == Promise!Spec

(* An answer says what was done, now and later: a 200 to a revocation that *)
(* the private worker executed it to the end and nothing less, a refusal   *)
(* that nothing was done nor will be by a service still at work            *)
(* (revocation_client.py:66-76, buyer_api.py:613-639).                     *)
AnswersAreTrue ==
  \A r \in Requests :
    /\ task[r].pc = "200" => cascade[r] = "all"
    /\ task[r].pc \in {"403", "404", "422"} =>
         hop[r] = "none" /\ cascade[r] = "none" /\ ~\E v \in works : v.by = r

(* Every request that was accepted is answered, though a private service   *)
(* never answers (the timeouts of domain_client and revocation_client).    *)
EveryRequestAnswered ==
  \A r \in Requests : task[r].pc = "look" ~> task[r].pc \in Answers

(* "Revocation worker unavailable; no effects were initiated": what the    *)
(* answer 503 says of the request.                                         *)
NothingInitiatedIfUnavailable ==
  \A r \in Requests : task[r].pc = "503" => cascade[r] = "none"
=============================================================================

---------------------------- MODULE AccessPolicy ----------------------------
(***************************************************************************)
(* Who may touch which collection, and in which database it lives: the     *)
(* policy of src/schema/iam_policy.py as data, and the gateway's decision  *)
(* on a call.  Pure definitions; no state.                                 *)
(***************************************************************************)

Roles == {"rights_custodian", "licensing_negotiator", "evidence_agent",
          "revocation_propagator", "consent_arbiter", "sandbox_agent"}

(* The collections of each conflict domain, as its role may use them.      *)
IdentityData   == {"works", "artists", "control_proofs"}
EvidenceData   == {"crawler_access", "canaries", "evidence_records", "canary_hits",
                   "verbatim_matches", "redistribution_findings", "accrual_audits"}
RevocationData == {"revocation_notices", "revocation_outbox"}
CaseData       == {"incidents", "incident_assertions", "negotiation_freezes"}
DemoData       == {"demo_grants", "demo_revocation_notices", "demo_revocation_outbox",
                   "demo_works", "demo_leases"}
BuyerData      == {"buyer_terms", "receipts"}

(* AGENT_SA_MAP: what a role is permitted, and what it is denied whatever  *)
(* it is permitted.                                                        *)
permitted_collections ==
  [rights_custodian      |-> IdentityData,
   licensing_negotiator  |-> BuyerData \cup {"grants"},
   evidence_agent        |-> EvidenceData,
   revocation_propagator |-> RevocationData \cup {"grants"},
   consent_arbiter       |-> CaseData,
   sandbox_agent         |-> DemoData]

denied_collections ==
  [rights_custodian      |-> {"buyer_terms", "crawler_access", "canaries"}
                               \cup RevocationData,
   licensing_negotiator  |-> {"artists", "works", "crawler_access", "canaries"}
                               \cup RevocationData,
   evidence_agent        |-> {"artists", "buyer_terms", "grants"} \cup RevocationData,
   revocation_propagator |-> {"artists", "buyer_terms", "crawler_access", "canaries"},
   consent_arbiter       |-> IdentityData \cup RevocationData \cup
                             {"buyer_terms", "grants", "crawler_access", "canaries",
                              "evidence_records", "receipts"},
   sandbox_agent         |-> IdentityData \cup RevocationData \cup
                             {"grants", "buyer_terms", "crawler_access", "canaries",
                              "evidence_records", "receipts",
                              "counterparty_credentials", "leases", "incidents"}]

(* The collections a role may only query within its session's counterparty. *)
SessionScoped(role, c) ==
  role = "licensing_negotiator" /\ c \in {"buyer_terms", "grants"}

(* get_action_permission: denials first, then an exact match.              *)
get_action_permission(role, c) ==
  /\ role \in Roles
  /\ c \notin denied_collections[role]
  /\ c \in permitted_collections[role]

-----------------------------------------------------------------------------
conflict_domain ==
  [rights_custodian |-> "identity", licensing_negotiator |-> "buyer_terms",
   evidence_agent |-> "evidence", revocation_propagator |-> "revocation",
   consent_arbiter |-> "adjudication", sandbox_agent |-> "sandbox"]

CONFLICT_DOMAIN_DATABASE ==
  [identity |-> "hodi-identity", buyer_terms |-> "hodi-commercial",
   evidence |-> "hodi-evidence", revocation |-> "(default)",
   adjudication |-> "hodi-adjudication", sandbox |-> "(default)"]

database_for_role(role) ==
  IF role \in Roles THEN CONFLICT_DOMAIN_DATABASE[conflict_domain[role]]
  ELSE "(default)"

DEFAULT_DATABASE_COLLECTIONS ==
  {"grants", "leases", "agent_registry_events", "e2e_memory_bank_events"}
    \cup RevocationData \cup DemoData

database_for_collection(role, c) ==
  CASE c = "counterparty_credentials" -> "hodi-credentials"
    [] c \in DEFAULT_DATABASE_COLLECTIONS -> "(default)"
    [] OTHER -> database_for_role(role)

-----------------------------------------------------------------------------
(* A call: the role and the service account it claims (named by the role   *)
(* the account belongs to), the collection, and the counterparty that the  *)
(* filter and the session name; Absent where there is none.                *)
Absent == "absent"

(* _identify: the account must be the role's own.                          *)
_identify(call) == call.account = call.role

(* _enforce: the caller is identified, the policy permits, and a session-   *)
(* scoped collection is refused unless filter and session are both there   *)
(* and agree.                                                              *)
_enforce(call) ==
  /\ _identify(call)
  /\ get_action_permission(call.role, call.collection)
  /\ SessionScoped(call.role, call.collection) =>
       call.filter # Absent /\ call.session # Absent /\ call.filter = call.session

(* read_collection: a read under a role, with a filter and a session.      *)
ReadCall(role, c, filter, session) ==
  [role |-> role, account |-> role, collection |-> c,
   filter |-> filter, session |-> session]

MayRead(role, c, filter, session) == _enforce(ReadCall(role, c, filter, session))

(* A write carries neither a filter nor a session.                         *)
WriteCall(role, c) == [role |-> role, account |-> role, collection |-> c,
                       filter |-> Absent, session |-> Absent]

MayWrite(role, c) == _enforce(WriteCall(role, c))

(* write_documents_atomic: every write is permitted, and one database      *)
(* holds them all; a batch over two is refused, never split.               *)
MayWriteAtomically(role, cs) ==
  /\ \A c \in cs : MayWrite(role, c)
  /\ \A c, d \in cs : database_for_collection(role, c) = database_for_collection(role, d)

-----------------------------------------------------------------------------
(* BaseAgent.access_collection: an agent's own check, by the same data.    *)
access_collection(role, c, filter, session) ==
  /\ get_action_permission(role, c)
  /\ SessionScoped(role, c) =>
       /\ filter # Absent
       /\ session # Absent
       /\ filter = session

(* What the role agents' methods ask for: those that are there to be       *)
(* answered, in a session of counterparty `own`, ...                       *)
CustodianReads == {ReadCall("rights_custodian", c, Absent, Absent) : c \in {"works", "artists"}}
EvidenceReads  == {ReadCall("evidence_agent", c, Absent, Absent) :
                     c \in {"crawler_access", "canaries"}}
NegotiatorReads(own) == {ReadCall("licensing_negotiator", "buyer_terms", own, own)}

(* ... and those that are there to be refused; `other` is anybody else.     *)
RefusedReads(own, other) ==
  {ReadCall("rights_custodian", "buyer_terms", Absent, Absent),
   ReadCall("evidence_agent", "buyer_terms", Absent, Absent),
   ReadCall("evidence_agent", "artists", Absent, Absent),
   ReadCall("licensing_negotiator", "artists", Absent, Absent),
   ReadCall("licensing_negotiator", "buyer_terms", other, own),
   ReadCall("licensing_negotiator", "buyer_terms", Absent, own)}

-----------------------------------------------------------------------------
(* Who may claim what: the advocate speaks and has access to nothing, the  *)
(* arbiter concludes and claims nothing.                                   *)
ASSERTION_AUTHORITY ==
  [evidence_agent        |-> {"OBSERVED_HTTP_ACCESS"},
   licensing_negotiator  |-> {"GRANT_EXISTED", "GRANT_DID_NOT_EXIST"},
   rights_custodian      |-> {"ACCESS_INCONSISTENT_WITH_SCOPE"},
   revocation_propagator |-> {"REVOCATION_INITIATED"},
   counterparty_advocate |-> {"ACCESS_DOES_NOT_ESTABLISH_TRAINING"},
   consent_arbiter       |-> {}]

may_assert(role, class) ==
  role \in DOMAIN ASSERTION_AUTHORITY /\ class \in ASSERTION_AUTHORITY[role]

(* submit_assertion: what enters the record of a claim, or nothing.        *)
submit_assertion(role, class) == {c \in {class} : may_assert(role, c)}
=============================================================================

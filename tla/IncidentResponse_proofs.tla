----------------------- MODULE IncidentResponse_proofs -----------------------
(***************************************************************************)
(* What TLAPS proves of IncidentResponse, for every number of incidents,   *)
(* licence requests, grants and works, wherever an incident fails.         *)
(***************************************************************************)
EXTENDS IncidentResponse, TLAPS

(* The constants every proof below assumes, as one formula.                *)
LEMMA Constants == ConsentAssumption /\ IncidentAssumption
  BY ConsentAssumed, IncidentAssumed

-----------------------------------------------------------------------------
(* The inductive invariant. *)

(* The phases after the investigation, after the decision, and after the   *)
(* containment, if there was one.                                          *)
Decided == {"freeze", "select", "terminate", "contain", "link", "sign", "close", "done"}
Closing == {"link", "sign", "close", "done"}

Forbidden(i) == run[i].access.work \in AutomatedForbidden

(* What the arbiter decides on: the finding of the investigation.          *)
Finding(i) ==
  {"OBSERVED_HTTP_ACCESS", "ACCESS_DOES_NOT_ESTABLISH_TRAINING"}
  \cup {IF run[i].active # {} THEN "GRANT_EXISTED" ELSE "GRANT_DID_NOT_EXIST"}
  \cup (IF Forbidden(i) THEN {"ACCESS_INCONSISTENT_WITH_SCOPE"} ELSE {})

(* The decision is the rule's over the finding, and what is claimed later  *)
(* is only that a revocation was begun.                                    *)
DecisionOf(i) ==
  /\ run[i].pc = "investigate" => run[i].asserted = {"OBSERVED_HTTP_ACCESS"}
  /\ run[i].pc \in Decided \cup {"adjudicate"} =>
       run[i].asserted \ {"REVOCATION_INITIATED"} = Finding(i)
  /\ run[i].pc \in Decided => run[i].outside = (run[i].active = {} \/ Forbidden(i))
  /\ run[i].pc \in Decided \ Closing => run[i].outside

(* The response follows the decision: who is frozen, what is revoked.      *)
ResponseOf(i) ==
  /\ run[i].pc \in {"idle", "investigate", "adjudicate", "freeze"} => ~run[i].frozen
  /\ run[i].pc \in {"select", "terminate", "contain"} => run[i].frozen
  /\ run[i].pc \in Closing => run[i].frozen = run[i].outside
  /\ run[i].pc \in {"idle", "investigate", "adjudicate", "freeze", "select", "terminate"} =>
       ~run[i].revoked
  /\ run[i].pc \in {"select", "terminate"} => run[i].active # {}
  /\ run[i].pc = "contain" => run[i].revoked = (run[i].active # {})
  /\ run[i].pc \in Closing => run[i].revoked = (run[i].outside /\ run[i].active # {})
  /\ run[i].frozen =>
       /\ run[i].active = {} \/ Forbidden(i)
       /\ \E f \in freezes : f.incident = i /\ f.principal = run[i].access.principal

(* The cascade of an incident has ended what its loop has passed.          *)
CascadeOf(i) ==
  /\ run[i].todo \subseteq run[i].selected
  /\ run[i].pc \notin {"terminate", "failed"} => run[i].todo = {}
  /\ \A e \in run[i].selected \ run[i].todo : \E f \in TerminatedBy(i) : f.grant = e.grant
  /\ TerminatedBy(i) # {} => run[i].frozen /\ run[i].active # {}

(* The record follows the response.                                        *)
RecordOf(i) ==
  /\ <<i, "contained">> \in record =>
       /\ run[i].pc \in Closing \cup {"failed"}
       /\ run[i].frozen /\ run[i].todo = {} /\ run[i].revoked = (run[i].active # {})
  /\ run[i].pc \in Closing => (<<i, "contained">> \in record) = run[i].outside
  /\ run[i].pc \in {"close", "done"} =>
       \E m \in manifests : m.incident = i /\ m.frozen = run[i].outside
  /\ <<i, "closed">> \in record => run[i].pc = "done"

(* The finding on an access that had settled is the log's, then and now:   *)
(* nothing that is appended after the incident was opened is as old.       *)
FoldOf(i) ==
  /\ run[i].pc # "idle" => run[i].opened_at <= clock
  /\ Settled(i) /\ (run[i].frozen \/ run[i].pc \in Decided \cup {"adjudicate"}) =>
       /\ run[i].pc # "idle"
       /\ run[i].active = ActiveAt(log, run[i].access.principal, run[i].access.work,
                                   run[i].access.observed_at)

CaseOf(i) == DecisionOf(i) /\ ResponseOf(i) /\ CascadeOf(i) /\ RecordOf(i) /\ FoldOf(i)

CaseInv == \A i \in Incidents : CaseOf(i)

ManifestInv ==
  \A m \in manifests : /\ outside(m.asserted) = m.outside /\ m.frozen = m.outside
                       /\ m.revoked = (m.outside /\ "GRANT_EXISTED" \in m.asserted)

(* What a request saw on arrival is still so, and a frozen one was stopped. *)
AskOf(q) ==
  /\ ask[q].frozen => \E f \in freezes : f.principal = ask[q].buyer.principal
  /\ ask[q].pc \in {"interpret", "decide", "licensed"} => ~ask[q].frozen
  /\ \A e \in ask[q].ended : Struck(log, e)
  /\ ask[q].pc = "licensed" => ask[q].receipt \cap ask[q].ended = {}

AskInv == \A q \in Requests : AskOf(q)

IInv == TypeOK /\ CaseInv /\ ManifestInv /\ AskInv

-----------------------------------------------------------------------------
(* The rule, the assertions and the log. *)

(* Each role makes the claim that is its own.                              *)
LEMMA ClaimsMade ==
  /\ submit_assertion("evidence_agent", "OBSERVED_HTTP_ACCESS") = {"OBSERVED_HTTP_ACCESS"}
  /\ \A c \in {"GRANT_EXISTED", "GRANT_DID_NOT_EXIST"} :
       submit_assertion("licensing_negotiator", c) = {c}
  /\ submit_assertion("rights_custodian", "ACCESS_INCONSISTENT_WITH_SCOPE")
       = {"ACCESS_INCONSISTENT_WITH_SCOPE"}
  /\ submit_assertion("counterparty_advocate", "ACCESS_DOES_NOT_ESTABLISH_TRAINING")
       = {"ACCESS_DOES_NOT_ESTABLISH_TRAINING"}
  /\ submit_assertion("revocation_propagator", "REVOCATION_INITIATED")
       = {"REVOCATION_INITIATED"}
<1>1. DOMAIN ASSERTION_AUTHORITY =
        {"evidence_agent", "licensing_negotiator", "rights_custodian",
         "revocation_propagator", "counterparty_advocate", "consent_arbiter"}
  BY DEF ASSERTION_AUTHORITY
<1> QED
  BY <1>1 DEF submit_assertion, may_assert, ASSERTION_AUTHORITY

(* The rule over a finding; a claim that a revocation was begun weighs     *)
(* nothing.                                                                *)
LEMMA RuleOnFinding ==
  ASSUME NEW i \in Incidents, NEW classes,
         classes \ {"REVOCATION_INITIATED"} = Finding(i)
  PROVE  /\ outside(classes) = (run[i].active = {} \/ Forbidden(i))
         /\ ("GRANT_EXISTED" \in classes) = (run[i].active # {})
<1>1. \A c : c # "REVOCATION_INITIATED" => (c \in classes <=> c \in Finding(i))
  OBVIOUS
<1>2. /\ "OBSERVED_HTTP_ACCESS" \in classes
      /\ "GRANT_EXISTED" \in classes <=> run[i].active # {}
      /\ "GRANT_DID_NOT_EXIST" \in classes <=> run[i].active = {}
      /\ "ACCESS_INCONSISTENT_WITH_SCOPE" \in classes <=> Forbidden(i)
  BY <1>1 DEF Finding
<1>3. outside(classes) <=> (run[i].active = {} \/ Forbidden(i))
  BY <1>2 DEF outside
<1>4. /\ outside(classes) \in BOOLEAN /\ ("GRANT_EXISTED" \in classes) \in BOOLEAN
      /\ (run[i].active = {} \/ Forbidden(i)) \in BOOLEAN /\ (run[i].active # {}) \in BOOLEAN
  BY DEF outside, Forbidden
<1> QED
  BY <1>2, <1>3, <1>4

LEMMA RevokedTyped ==
  ASSUME NEW e \in GrantEvent, NEW o \in Ops, NEW at \in Int
  PROVE  /\ Revoked(e, o, at) \in GrantEvent
         /\ Revoked(e, o, at).kind = "revoked"
         /\ Revoked(e, o, at).op = o
         /\ Revoked(e, o, at).at = at
         /\ Revoked(e, o, at).grant = e.grant
  BY DEF Revoked, GrantEvent

(* What is appended after an incident was opened is stamped too late for   *)
(* the fold at the instant of an access that had settled.                  *)
LEMMA FoldUndisturbed ==
  ASSUME TypeOK, NEW i \in Incidents, Settled(i), run[i].opened_at <= clock,
         NEW e, e.at \in Int, e.at >= clock - Lag, NEW p, NEW w
  PROVE  ActiveAt(log \cup {e}, p, w, run[i].access.observed_at)
           = ActiveAt(log, p, w, run[i].access.observed_at)
<1>1. /\ run[i].access.observed_at \in Int /\ run[i].opened_at \in Int
      /\ clock \in Nat /\ Lag \in Nat
  BY Constants DEF TypeOK, Incident, IncidentAssumption
<1>2. ~(e.at <= run[i].access.observed_at)
  BY <1>1 DEF Settled
<1>3. {f \in HeldBy(log \cup {e}, p, w) : f.at <= run[i].access.observed_at}
        = {f \in HeldBy(log, p, w) : f.at <= run[i].access.observed_at}
  BY <1>2 DEF HeldBy, OfWork
<1> QED
  BY <1>3 DEF ActiveAt

-----------------------------------------------------------------------------
(* The steps: who is not the actor stays as it was. *)

LEMMA OthersStay ==
  ASSUME CaseInv, NEW j \in Incidents, run'[j] = run[j],
         freezes \subseteq freezes', manifests \subseteq manifests',
         \A s : <<j, s>> \in record' <=> <<j, s>> \in record,
         TerminatedBy(j)' = TerminatedBy(j), clock \in Nat, clock' \in Nat,
         clock <= clock', run[j].opened_at \in Int,
         Settled(j) /\ run[j].opened_at <= clock =>
           ActiveAt(log', run[j].access.principal, run[j].access.work,
                    run[j].access.observed_at)
           = ActiveAt(log, run[j].access.principal, run[j].access.work,
                      run[j].access.observed_at)
  PROVE  CaseOf(j)'
<1> USE DEF CaseInv, CaseOf
<1>1. DecisionOf(j)'
  BY DEF DecisionOf, Finding, Forbidden
<1>2. ResponseOf(j)'
  BY DEF ResponseOf, Forbidden
<1>3. CascadeOf(j)'
  BY DEF CascadeOf
<1>4. RecordOf(j)'
  BY DEF RecordOf
<1>5. FoldOf(j)'
  BY DEF FoldOf, Settled
<1> QED
  BY <1>1, <1>2, <1>3, <1>4, <1>5

LEMMA AsksStay ==
  ASSUME AskInv, UNCHANGED ask, log \subseteq log', freezes \subseteq freezes'
  PROVE  AskInv'
  BY DEF AskInv, AskOf, Struck

(* A step of one incident that appends nothing to the grant log.           *)
LEMMA QuietStep ==
  ASSUME IInv, NEW i \in Incidents, UNCHANGED <<log, clock, ask>>,
         \A j \in Incidents \ {i} : run'[j] = run[j],
         TypeOK', freezes \subseteq freezes', manifests \subseteq manifests',
         \A s : \A j \in Incidents \ {i} : <<j, s>> \in record' <=> <<j, s>> \in record,
         CaseOf(i)', ManifestInv'
  PROVE  IInv'
<1> USE DEF IInv
<1>1. ASSUME NEW j \in Incidents, j # i PROVE CaseOf(j)'
  <2>1. run[j].opened_at \in Int /\ clock \in Nat
    BY DEF TypeOK, Incident
  <2> QED
    BY <1>1, <2>1, OthersStay DEF TerminatedBy
<1>2. CaseInv'
  BY <1>1 DEF CaseInv
<1>3. AskInv'
  BY AsksStay
<1> QED
  BY <1>2, <1>3

(* What a step may leave of an incident: its access; the finding; the      *)
(* decision and the response; the cascade.                                 *)
SameAccess(i)   == run'[i].access = run[i].access
SameFinding(i)  == /\ SameAccess(i) /\ run'[i].opened_at = run[i].opened_at
                   /\ run'[i].active = run[i].active
SameResponse(i) == /\ run'[i].outside = run[i].outside /\ run'[i].frozen = run[i].frozen
                   /\ run'[i].revoked = run[i].revoked
SameCascade(i)  == run'[i].selected = run[i].selected /\ run'[i].todo = run[i].todo
SameClaims(i)   == run'[i].asserted = run[i].asserted

LEMMA ObserveInv ==
  ASSUME IInv, NEW i \in Incidents, Observe(i)
  PROVE  IInv'
<1> USE DEF IInv
<1>1. /\ run[i].pc = "idle" /\ record' = record \cup {<<i, "observed">>}
      /\ run' = [run EXCEPT ![i].pc = "investigate", ![i].opened_at = clock,
                            ![i].asserted = {"OBSERVED_HTTP_ACCESS"}]
      /\ UNCHANGED <<log, freezes, manifests, clock, failures, ask>>
  BY ClaimsMade DEF Observe, Transition
<1>2. /\ run' \in [Incidents -> Incident] /\ \A j \in Incidents \ {i} : run'[j] = run[j]
      /\ run'[i] = [run[i] EXCEPT !.pc = "investigate", !.opened_at = clock,
                                  !.asserted = {"OBSERVED_HTTP_ACCESS"}]
  <2>1. [run[i] EXCEPT !.pc = "investigate", !.opened_at = clock,
                       !.asserted = {"OBSERVED_HTTP_ACCESS"}] \in Incident
    <3>1. /\ run[i] \in Incident /\ clock \in Int
          /\ {"OBSERVED_HTTP_ACCESS"} \in SUBSET AssertionClass
      BY DEF TypeOK, AssertionClass
    <3> QED
      BY <3>1, ZenonT(60) DEF Incident
  <2> QED
    BY <1>1, <2>1 DEF TypeOK
<1>3. /\ run'[i].pc = "investigate" /\ run'[i].opened_at = clock /\ SameAccess(i)
      /\ run'[i].asserted = {"OBSERVED_HTTP_ACCESS"}
      /\ SameResponse(i) /\ SameCascade(i) /\ run'[i].active = run[i].active
  BY <1>2 DEF TypeOK, Incident, SameAccess, SameResponse, SameCascade
<1>4. TypeOK'
  BY <1>1, <1>2 DEF TypeOK, Status
<1>5. CaseOf(i)'
  <2> USE DEF CaseInv, CaseOf, SameAccess, SameResponse, SameCascade
  <2>1. DecisionOf(i)'
    BY <1>3 DEF DecisionOf, Decided, Closing
  <2>2. ResponseOf(i)'
    BY <1>1, <1>3 DEF ResponseOf, Closing
  <2>3. CascadeOf(i)'
    <3>1. TerminatedBy(i)' = TerminatedBy(i) /\ TerminatedBy(i) = {} /\ run[i].todo = {}
      BY <1>1 DEF CascadeOf, ResponseOf, TerminatedBy
    <3> QED
      BY <1>3, <3>1 DEF CascadeOf
  <2>4. RecordOf(i)'
    BY <1>1, <1>3 DEF RecordOf, Closing
  <2>5. FoldOf(i)'
    <3>1. ~run'[i].frozen
      BY <1>1, <1>3 DEF ResponseOf
    <3> QED
      BY <1>1, <1>3, <3>1 DEF FoldOf, TypeOK, Decided
  <2> QED
    BY <2>1, <2>2, <2>3, <2>4, <2>5
<1>6. ManifestInv'
  BY <1>1 DEF ManifestInv
<1> QED
  BY <1>1, <1>2, <1>4, <1>5, <1>6, QuietStep

LEMMA InvestigateInv ==
  ASSUME IInv, NEW i \in Incidents, Investigate(i)
  PROVE  IInv'
<1> USE DEF IInv
<1> DEFINE a == run[i].access
           active == ActiveAt(log, a.principal, a.work, a.observed_at)
           asserted == run[i].asserted
             \cup {IF active # {} THEN "GRANT_EXISTED" ELSE "GRANT_DID_NOT_EXIST"}
             \cup {c \in {"ACCESS_INCONSISTENT_WITH_SCOPE"} : a.work \in AutomatedForbidden}
             \cup {"ACCESS_DOES_NOT_ESTABLISH_TRAINING"}
<1>1. /\ run[i].pc = "investigate" /\ record' = record \cup {<<i, "investigating">>}
      /\ run' = [run EXCEPT ![i].pc = "adjudicate", ![i].active = active,
                            ![i].asserted = asserted]
      /\ UNCHANGED <<log, freezes, manifests, clock, failures, ask>>
  <2>1. submit_assertion("licensing_negotiator",
          IF active # {} THEN "GRANT_EXISTED" ELSE "GRANT_DID_NOT_EXIST")
        = {IF active # {} THEN "GRANT_EXISTED" ELSE "GRANT_DID_NOT_EXIST"}
    BY ClaimsMade
  <2> HIDE DEF active
  <2> QED
    BY <2>1, ClaimsMade DEF Investigate, Transition, active
<1>2. active \subseteq GrantEvent
  BY DEF ActiveAt, InForce, HeldBy, OfWork, TypeOK
<1>3. asserted \subseteq AssertionClass
  BY DEF TypeOK, Incident, AssertionClass
<1>4. run[i].asserted = {"OBSERVED_HTTP_ACCESS"}
  BY <1>1 DEF CaseInv, CaseOf, DecisionOf
<1> HIDE DEF active
<1>5. asserted \ {"REVOCATION_INITIATED"}
        = {"OBSERVED_HTTP_ACCESS", "ACCESS_DOES_NOT_ESTABLISH_TRAINING"}
          \cup {IF active # {} THEN "GRANT_EXISTED" ELSE "GRANT_DID_NOT_EXIST"}
          \cup (IF a.work \in AutomatedForbidden THEN {"ACCESS_INCONSISTENT_WITH_SCOPE"}
                ELSE {})
  BY <1>4
<1> HIDE DEF asserted
<1>6. /\ run' \in [Incidents -> Incident] /\ \A j \in Incidents \ {i} : run'[j] = run[j]
      /\ run'[i] = [run[i] EXCEPT !.pc = "adjudicate", !.active = active,
                                  !.asserted = asserted]
  <2>1. [run[i] EXCEPT !.pc = "adjudicate", !.active = active,
                       !.asserted = asserted] \in Incident
    <3>1. /\ run[i] \in Incident /\ active \in SUBSET GrantEvent
          /\ asserted \in SUBSET AssertionClass
      BY <1>2, <1>3 DEF TypeOK
    <3> QED
      BY <3>1, ZenonT(60) DEF Incident
  <2> QED
    BY <1>1, <2>1 DEF TypeOK
<1>7. /\ run'[i].pc = "adjudicate" /\ run'[i].opened_at = run[i].opened_at /\ SameAccess(i)
      /\ run'[i].asserted = asserted /\ run'[i].active = active
      /\ SameResponse(i) /\ SameCascade(i)
  BY <1>6 DEF TypeOK, Incident, SameAccess, SameResponse, SameCascade
<1>8. TypeOK'
  BY <1>1, <1>6 DEF TypeOK, Status
<1>9. CaseOf(i)'
  <2> USE DEF CaseInv, CaseOf, SameAccess, SameResponse, SameCascade
  <2>1. DecisionOf(i)'
    BY <1>5, <1>7 DEF DecisionOf, Finding, Forbidden, Decided
  <2>2. ResponseOf(i)'
    BY <1>1, <1>7 DEF ResponseOf, Closing
  <2>3. CascadeOf(i)'
    <3>1. TerminatedBy(i)' = TerminatedBy(i) /\ TerminatedBy(i) = {} /\ run[i].todo = {}
      BY <1>1 DEF CascadeOf, ResponseOf, TerminatedBy
    <3> QED
      BY <1>7, <3>1 DEF CascadeOf
  <2>4. RecordOf(i)'
    BY <1>1, <1>7 DEF RecordOf, Closing
  <2>5. FoldOf(i)'
    BY <1>1, <1>7 DEF FoldOf, active
  <2> QED
    BY <2>1, <2>2, <2>3, <2>4, <2>5
<1>10. ManifestInv'
  BY <1>1 DEF ManifestInv
<1> QED
  BY <1>1, <1>6, <1>8, <1>9, <1>10, QuietStep

LEMMA AdjudicateInv ==
  ASSUME IInv, NEW i \in Incidents, Adjudicate(i)
  PROVE  IInv'
<1> USE DEF IInv
<1> DEFINE decision == outside(run[i].asserted)
           pc == IF decision THEN "freeze" ELSE "link"
<1>1. /\ run[i].pc = "adjudicate" /\ record' = record \cup {<<i, "adjudicated">>}
      /\ run' = [run EXCEPT ![i].outside = decision, ![i].pc = pc]
      /\ UNCHANGED <<log, freezes, manifests, clock, failures, ask>>
  BY DEF Adjudicate, Transition
<1>2. decision \in BOOLEAN /\ decision = (run[i].active = {} \/ Forbidden(i))
  BY <1>1, RuleOnFinding DEF outside, CaseInv, CaseOf, DecisionOf
<1>3. /\ pc \in {"freeze", "link"} /\ (pc = "freeze" <=> decision)
  OBVIOUS
<1> HIDE DEF decision, pc
<1>4. /\ run' \in [Incidents -> Incident] /\ \A j \in Incidents \ {i} : run'[j] = run[j]
      /\ run'[i] = [run[i] EXCEPT !.outside = decision, !.pc = pc]
  <2>1. [run[i] EXCEPT !.outside = decision, !.pc = pc] \in Incident
    <3>1. run[i] \in Incident
      BY DEF TypeOK
    <3> QED
      BY <1>2, <1>3, <3>1, ZenonT(60) DEF Incident
  <2> QED
    BY <1>1, <2>1 DEF TypeOK
<1>5. /\ run'[i].pc = pc /\ run'[i].outside = decision
      /\ run'[i].frozen = run[i].frozen /\ run'[i].revoked = run[i].revoked
      /\ SameFinding(i) /\ SameCascade(i) /\ SameClaims(i)
  BY <1>4 DEF TypeOK, Incident, SameAccess, SameFinding, SameCascade, SameClaims
<1>6. ~run[i].frozen /\ ~run[i].revoked /\ run[i].frozen \in BOOLEAN /\ run[i].revoked \in BOOLEAN
  BY <1>1 DEF CaseInv, CaseOf, ResponseOf, TypeOK, Incident
<1>7. TypeOK'
  BY <1>1, <1>4 DEF TypeOK, Status
<1>8. CaseOf(i)'
  <2> USE DEF CaseInv, CaseOf, SameAccess, SameFinding, SameCascade, SameClaims
  <2>1. DecisionOf(i)'
    <3>1. Finding(i)' = Finding(i) /\ (Forbidden(i)' <=> Forbidden(i))
      BY <1>5 DEF Finding, Forbidden
    <3>2. run[i].asserted \ {"REVOCATION_INITIATED"} = Finding(i)
      BY <1>1 DEF DecisionOf
    <3>3. run'[i].pc \notin {"investigate", "adjudicate"}
      BY <1>3, <1>5
    <3>4. run'[i].outside = (run'[i].active = {} \/ Forbidden(i)')
      BY <1>2, <1>5, <3>1
    <3>5. run'[i].pc \in Decided \ Closing => run'[i].outside
      BY <1>3, <1>5 DEF Closing
    <3> QED
      BY <1>5, <3>1, <3>2, <3>3, <3>4, <3>5 DEF DecisionOf
  <2>2. ResponseOf(i)'
    BY <1>2, <1>3, <1>5, <1>6 DEF ResponseOf, Closing
  <2>3. CascadeOf(i)'
    <3>1. TerminatedBy(i)' = TerminatedBy(i) /\ TerminatedBy(i) = {} /\ run[i].todo = {}
      BY <1>1, <1>6 DEF CascadeOf, TerminatedBy
    <3> QED
      BY <1>5, <3>1 DEF CascadeOf
  <2>4. RecordOf(i)'
    <3>1. \A status \in {"contained", "closed"} : <<i, status>> \notin record'
      BY <1>1 DEF RecordOf, Closing
    <3>2. run'[i].pc \in Closing => run'[i].outside = FALSE
      BY <1>2, <1>3, <1>5 DEF Closing
    <3>3. run'[i].pc \notin {"close", "done"}
      BY <1>3, <1>5
    <3>4. (<<i, "contained">> \in record') = FALSE
      BY <3>1
    <3> QED
      BY <3>1, <3>2, <3>3, <3>4 DEF RecordOf
  <2>5. FoldOf(i)'
    BY <1>1, <1>3, <1>5 DEF FoldOf, Settled, Decided
  <2> QED
    BY <2>1, <2>2, <2>3, <2>4, <2>5
<1>9. ManifestInv'
  BY <1>1 DEF ManifestInv
<1> QED
  BY <1>1, <1>4, <1>7, <1>8, <1>9, QuietStep

LEMMA FreezePrincipalInv ==
  ASSUME IInv, NEW i \in Incidents, FreezePrincipal(i)
  PROVE  IInv'
<1> USE DEF IInv
<1> DEFINE pc == IF run[i].active # {} THEN "select" ELSE "contain"
           f == [incident |-> i, principal |-> run[i].access.principal]
<1>1. /\ run[i].pc = "freeze" /\ freezes' = freezes \cup {f}
      /\ run' = [run EXCEPT ![i].frozen = TRUE, ![i].pc = pc]
      /\ UNCHANGED <<log, record, manifests, clock, failures, ask>>
  BY DEF FreezePrincipal
<1>2. /\ pc \in {"select", "contain"} /\ (pc = "select" <=> run[i].active # {})
      /\ f.incident = i /\ f.principal = run[i].access.principal
  OBVIOUS
<1>3. f \in Freeze
  BY Constants DEF Freeze, TypeOK, Incident, IncidentAssumption
<1> HIDE DEF pc, f
<1>4. /\ run' \in [Incidents -> Incident] /\ \A j \in Incidents \ {i} : run'[j] = run[j]
      /\ run'[i] = [run[i] EXCEPT !.frozen = TRUE, !.pc = pc]
  <2>1. [run[i] EXCEPT !.frozen = TRUE, !.pc = pc] \in Incident
    <3>1. run[i] \in Incident
      BY DEF TypeOK
    <3> QED
      BY <1>2, <3>1, ZenonT(60) DEF Incident
  <2> QED
    BY <1>1, <2>1 DEF TypeOK
<1>5. /\ run'[i].pc = pc /\ run'[i].frozen = TRUE
      /\ run'[i].outside = run[i].outside /\ run'[i].revoked = run[i].revoked
      /\ SameFinding(i) /\ SameCascade(i) /\ SameClaims(i)
  BY <1>4 DEF TypeOK, Incident, SameAccess, SameFinding, SameCascade, SameClaims
<1>6. /\ ~run[i].frozen /\ run[i].revoked = FALSE
      /\ run[i].active = {} \/ Forbidden(i)
  BY <1>1 DEF CaseInv, CaseOf, ResponseOf, DecisionOf, TypeOK, Incident, Decided, Closing
<1>7. TypeOK'
  BY <1>1, <1>3, <1>4 DEF TypeOK
<1>8. CaseOf(i)'
  <2> USE DEF CaseInv, CaseOf, SameAccess, SameFinding, SameCascade, SameClaims
  <2>0. Finding(i)' = Finding(i) /\ (Forbidden(i)' <=> Forbidden(i))
    BY <1>5 DEF Finding, Forbidden
  <2>1. DecisionOf(i)'
    BY <1>1, <1>2, <1>5, <2>0 DEF DecisionOf, Decided, Closing
  <2>2. ResponseOf(i)'
    <3>1. \E g \in freezes' : g.incident = i /\ g.principal = run'[i].access.principal
      BY <1>1, <1>2, <1>5
    <3>2. run'[i].active = {} \/ Forbidden(i)'
      BY <1>5, <1>6, <2>0
    <3>3. /\ run'[i].pc = "select" => run'[i].active # {}
          /\ run'[i].pc = "contain" => (run'[i].active # {}) = FALSE
      BY <1>2, <1>5
    <3>4. run'[i].pc \in {"select", "contain"} /\ run'[i].revoked = FALSE
      BY <1>2, <1>5, <1>6
    <3> QED
      BY <1>5, <3>1, <3>2, <3>3, <3>4 DEF ResponseOf, Closing
  <2>3. CascadeOf(i)'
    <3>1. TerminatedBy(i)' = TerminatedBy(i) /\ TerminatedBy(i) = {} /\ run[i].todo = {}
      BY <1>1, <1>6 DEF CascadeOf, TerminatedBy
    <3> QED
      BY <1>5, <3>1 DEF CascadeOf
  <2>4. RecordOf(i)'
    BY <1>1, <1>2, <1>5 DEF RecordOf, Closing
  <2>5. FoldOf(i)'
    BY <1>1, <1>2, <1>5 DEF FoldOf, Settled, Decided
  <2> QED
    BY <2>1, <2>2, <2>3, <2>4, <2>5
<1>9. ManifestInv'
  BY <1>1 DEF ManifestInv
<1> QED
  BY <1>1, <1>4, <1>7, <1>8, <1>9, QuietStep

LEMMA SelectGrantsInv ==
  ASSUME IInv, NEW i \in Incidents, SelectGrants(i)
  PROVE  IInv'
<1> USE DEF IInv
<1>1. PICK hit : /\ hit \subseteq log
                 /\ run' = [run EXCEPT ![i].pc = "terminate", ![i].cascade_at = clock,
                                       ![i].selected = hit, ![i].todo = hit]
  BY DEF SelectGrants, Affected, InForce, OfWork
<1>2. /\ run[i].pc = "select"
      /\ UNCHANGED <<log, freezes, record, manifests, clock, failures, ask>>
  BY DEF SelectGrants, store
<1>3. /\ run' \in [Incidents -> Incident] /\ \A j \in Incidents \ {i} : run'[j] = run[j]
      /\ run'[i] = [run[i] EXCEPT !.pc = "terminate", !.cascade_at = clock,
                                  !.selected = hit, !.todo = hit]
  <2>1. [run[i] EXCEPT !.pc = "terminate", !.cascade_at = clock,
                       !.selected = hit, !.todo = hit] \in Incident
    <3>1. run[i] \in Incident /\ clock \in Int /\ hit \in SUBSET GrantEvent
      BY <1>1 DEF TypeOK
    <3> QED
      BY <3>1, ZenonT(60) DEF Incident
  <2> QED
    BY <1>1, <2>1 DEF TypeOK
<1>4. /\ run'[i].pc = "terminate" /\ run'[i].selected = hit /\ run'[i].todo = hit
      /\ SameFinding(i) /\ SameResponse(i) /\ SameClaims(i)
  BY <1>3 DEF TypeOK, Incident, SameAccess, SameFinding, SameResponse, SameClaims
<1>5. TypeOK'
  BY <1>2, <1>3 DEF TypeOK
<1>6. CaseOf(i)'
  <2> USE DEF CaseInv, CaseOf, SameAccess, SameFinding, SameResponse, SameClaims
  <2>0. Finding(i)' = Finding(i) /\ (Forbidden(i)' <=> Forbidden(i))
    BY <1>4 DEF Finding, Forbidden
  <2>1. DecisionOf(i)'
    BY <1>2, <1>4, <2>0 DEF DecisionOf, Decided, Closing
  <2>2. ResponseOf(i)'
    BY <1>2, <1>4, <2>0 DEF ResponseOf, Closing
  <2>3. CascadeOf(i)'
    <3>1. run[i].frozen /\ run[i].active # {} /\ run'[i].selected \ run'[i].todo = {}
      BY <1>2, <1>4 DEF ResponseOf
    <3> QED
      BY <1>4, <3>1 DEF CascadeOf
  <2>4. RecordOf(i)'
    BY <1>2, <1>4 DEF RecordOf, Closing
  <2>5. FoldOf(i)'
    BY <1>2, <1>4 DEF FoldOf, Settled, Decided
  <2> QED
    BY <2>1, <2>2, <2>3, <2>4, <2>5
<1>7. ManifestInv'
  BY <1>2 DEF ManifestInv
<1> QED
  BY <1>2, <1>3, <1>5, <1>6, <1>7, QuietStep

LEMMA InitiatedInv ==
  ASSUME IInv, NEW i \in Incidents, Initiated(i)
  PROVE  IInv'
<1> USE DEF IInv
<1> DEFINE asserted == run[i].asserted \cup {"REVOCATION_INITIATED"}
<1>1. /\ run[i].pc = "terminate" /\ run[i].todo = {}
      /\ run' = [run EXCEPT ![i].pc = "contain", ![i].revoked = TRUE,
                            ![i].asserted = asserted]
      /\ UNCHANGED <<log, freezes, record, manifests, clock, failures, ask>>
  BY ClaimsMade DEF Initiated, store
<1>2. run[i] \in Incident /\ asserted \in SUBSET AssertionClass
  BY DEF TypeOK, Incident, AssertionClass
<1>3. asserted \ {"REVOCATION_INITIATED"} = run[i].asserted \ {"REVOCATION_INITIATED"}
  OBVIOUS
<1> HIDE DEF asserted
<1>4. /\ run' \in [Incidents -> Incident] /\ \A j \in Incidents \ {i} : run'[j] = run[j]
      /\ run'[i] = [run[i] EXCEPT !.pc = "contain", !.revoked = TRUE,
                                  !.asserted = asserted]
  <2>1. [run[i] EXCEPT !.pc = "contain", !.revoked = TRUE,
                       !.asserted = asserted] \in Incident
    BY <1>2, ZenonT(60) DEF Incident
  <2> QED
    BY <1>1, <2>1 DEF TypeOK
<1>5. /\ run'[i].pc = "contain" /\ run'[i].revoked = TRUE /\ run'[i].asserted = asserted
      /\ run'[i].frozen = run[i].frozen /\ run'[i].outside = run[i].outside
      /\ SameFinding(i) /\ SameCascade(i)
  BY <1>4 DEF TypeOK, Incident, SameAccess, SameFinding, SameCascade
<1>6. TypeOK'
  BY <1>1, <1>4 DEF TypeOK
<1>7. CaseOf(i)'
  <2> USE DEF CaseInv, CaseOf, SameAccess, SameFinding, SameCascade
  <2>0. Finding(i)' = Finding(i) /\ (Forbidden(i)' <=> Forbidden(i))
    BY <1>5 DEF Finding, Forbidden
  <2>1. DecisionOf(i)'
    BY <1>1, <1>3, <1>5, <2>0 DEF DecisionOf, Decided, Closing
  <2>2. ResponseOf(i)'
    BY <1>1, <1>5, <2>0 DEF ResponseOf, Closing
  <2>3. CascadeOf(i)'
    BY <1>1, <1>5 DEF CascadeOf, TerminatedBy
  <2>4. RecordOf(i)'
    BY <1>1, <1>5 DEF RecordOf, Closing
  <2>5. FoldOf(i)'
    BY <1>1, <1>5 DEF FoldOf, Settled, Decided
  <2> QED
    BY <2>1, <2>2, <2>3, <2>4, <2>5
<1>8. ManifestInv'
  BY <1>1 DEF ManifestInv
<1> QED
  BY <1>1, <1>4, <1>6, <1>7, <1>8, QuietStep

LEMMA ContainInv ==
  ASSUME IInv, NEW i \in Incidents, Contain(i)
  PROVE  IInv'
<1> USE DEF IInv
<1>1. /\ run[i].pc = "contain" /\ record' = record \cup {<<i, "contained">>}
      /\ run' = [run EXCEPT ![i].pc = "link"]
      /\ UNCHANGED <<log, freezes, manifests, clock, failures, ask>>
  BY DEF Contain, Transition
<1>2. /\ run' \in [Incidents -> Incident] /\ \A j \in Incidents \ {i} : run'[j] = run[j]
      /\ run'[i] = [run[i] EXCEPT !.pc = "link"]
  <2>1. [run[i] EXCEPT !.pc = "link"] \in Incident
    <3>1. run[i] \in Incident
      BY DEF TypeOK
    <3> QED
      BY <3>1, ZenonT(60) DEF Incident
  <2> QED
    BY <1>1, <2>1 DEF TypeOK
<1>3. /\ run'[i].pc = "link"
      /\ SameFinding(i) /\ SameResponse(i) /\ SameCascade(i) /\ SameClaims(i)
  BY <1>2 DEF TypeOK, Incident, SameAccess, SameFinding, SameResponse, SameCascade, SameClaims
<1>4. TypeOK'
  BY <1>1, <1>2 DEF TypeOK, Status
<1>5. /\ run[i].frozen = TRUE /\ run[i].outside = TRUE /\ run[i].todo = {}
      /\ run[i].revoked = (run[i].active # {}) /\ <<i, "closed">> \notin record
  BY <1>1 DEF CaseInv, CaseOf, DecisionOf, ResponseOf, CascadeOf, RecordOf, Decided, Closing,
              TypeOK, Incident
<1>6. CaseOf(i)'
  <2> USE DEF CaseInv, CaseOf, SameAccess, SameFinding, SameResponse, SameCascade, SameClaims
  <2>0. Finding(i)' = Finding(i) /\ (Forbidden(i)' <=> Forbidden(i))
    BY <1>3 DEF Finding, Forbidden
  <2>1. DecisionOf(i)'
    BY <1>1, <1>3, <2>0 DEF DecisionOf, Decided, Closing
  <2>2. ResponseOf(i)'
    BY <1>1, <1>3, <1>5, <2>0 DEF ResponseOf, Closing
  <2>3. CascadeOf(i)'
    BY <1>1, <1>3, <1>5 DEF CascadeOf, TerminatedBy
  <2>4. RecordOf(i)'
    BY <1>1, <1>3, <1>5 DEF RecordOf, Closing
  <2>5. FoldOf(i)'
    BY <1>1, <1>3 DEF FoldOf, Settled, Decided
  <2> QED
    BY <2>1, <2>2, <2>3, <2>4, <2>5
<1>7. ManifestInv'
  BY <1>1 DEF ManifestInv
<1> QED
  BY <1>1, <1>2, <1>4, <1>6, <1>7, QuietStep

LEMMA LinkInv ==
  ASSUME IInv, NEW i \in Incidents, Link(i)
  PROVE  IInv'
<1> USE DEF IInv
<1>1. PICK previous \in Incidents \cup {Genesis} :
        run' = [run EXCEPT ![i].pc = "sign", ![i].closed_at = clock, ![i].previous = previous]
  <2>1. \A m \in Newest : m.incident \in Incidents
    BY DEF Newest, TypeOK, Manifest
  <2> DEFINE Linked(p) ==
        run' = [run EXCEPT ![i].pc = "sign", ![i].closed_at = clock, ![i].previous = p]
  <2>2. PICK p \in (IF manifests = {} THEN {Genesis} ELSE {m.incident : m \in Newest}) :
          Linked(p)
    BY DEF Link
  <2>3. p \in Incidents \cup {Genesis}
    BY <2>1, <2>2
  <2> QED
    BY <2>2, <2>3, Zenon
<1>2. /\ run[i].pc = "link"
      /\ UNCHANGED <<log, freezes, record, manifests, clock, failures, ask>>
  BY DEF Link, store
<1>3. /\ run' \in [Incidents -> Incident] /\ \A j \in Incidents \ {i} : run'[j] = run[j]
      /\ run'[i] = [run[i] EXCEPT !.pc = "sign", !.closed_at = clock, !.previous = previous]
  <2>1. [run[i] EXCEPT !.pc = "sign", !.closed_at = clock,
                       !.previous = previous] \in Incident
    <3>1. run[i] \in Incident /\ clock \in Int
      BY DEF TypeOK
    <3> QED
      BY <3>1, ZenonT(60) DEF Incident
  <2> QED
    BY <1>1, <2>1 DEF TypeOK
<1>4. /\ run'[i].pc = "sign"
      /\ SameFinding(i) /\ SameResponse(i) /\ SameCascade(i) /\ SameClaims(i)
  BY <1>3 DEF TypeOK, Incident, SameAccess, SameFinding, SameResponse, SameCascade, SameClaims
<1>5. TypeOK'
  BY <1>2, <1>3 DEF TypeOK
<1>6. CaseOf(i)'
  <2> USE DEF CaseInv, CaseOf, SameAccess, SameFinding, SameResponse, SameCascade, SameClaims
  <2>0. Finding(i)' = Finding(i) /\ (Forbidden(i)' <=> Forbidden(i))
    BY <1>4 DEF Finding, Forbidden
  <2>1. DecisionOf(i)'
    BY <1>2, <1>4, <2>0 DEF DecisionOf, Decided, Closing
  <2>2. ResponseOf(i)'
    BY <1>2, <1>4, <2>0 DEF ResponseOf, Closing
  <2>3. CascadeOf(i)'
    BY <1>2, <1>4 DEF CascadeOf, TerminatedBy
  <2>4. RecordOf(i)'
    BY <1>2, <1>4 DEF RecordOf, Closing
  <2>5. FoldOf(i)'
    BY <1>2, <1>4 DEF FoldOf, Settled, Decided
  <2> QED
    BY <2>1, <2>2, <2>3, <2>4, <2>5
<1>7. ManifestInv'
  BY <1>2 DEF ManifestInv
<1> QED
  BY <1>2, <1>3, <1>5, <1>6, <1>7, QuietStep

LEMMA SignInv ==
  ASSUME IInv, NEW i \in Incidents, Sign(i)
  PROVE  IInv'
<1> USE DEF IInv
<1> DEFINE m == [incident |-> i, asserted |-> run[i].asserted,
                 outside |-> run[i].outside, frozen |-> run[i].frozen,
                 revoked |-> run[i].revoked, closed_at |-> run[i].closed_at,
                 previous |-> run[i].previous]
<1>1. /\ run[i].pc = "sign" /\ manifests' = manifests \cup {m}
      /\ run' = [run EXCEPT ![i].pc = "close"]
      /\ UNCHANGED <<log, freezes, record, clock, failures, ask>>
  BY DEF Sign
<1>2. m \in Manifest
  BY DEF Manifest, TypeOK, Incident
<1>3. /\ m.incident = i /\ m.asserted = run[i].asserted /\ m.outside = run[i].outside
      /\ m.frozen = run[i].frozen /\ m.revoked = run[i].revoked
  OBVIOUS
<1> HIDE DEF m
<1>4. /\ run' \in [Incidents -> Incident] /\ \A j \in Incidents \ {i} : run'[j] = run[j]
      /\ run'[i] = [run[i] EXCEPT !.pc = "close"]
  <2>1. [run[i] EXCEPT !.pc = "close"] \in Incident
    <3>1. run[i] \in Incident
      BY DEF TypeOK
    <3> QED
      BY <3>1, ZenonT(60) DEF Incident
  <2> QED
    BY <1>1, <2>1 DEF TypeOK
<1>5. /\ run'[i].pc = "close"
      /\ SameFinding(i) /\ SameResponse(i) /\ SameCascade(i) /\ SameClaims(i)
  BY <1>4 DEF TypeOK, Incident, SameAccess, SameFinding, SameResponse, SameCascade, SameClaims
<1>6. TypeOK'
  BY <1>1, <1>2, <1>4 DEF TypeOK
<1>7. /\ run[i].frozen = run[i].outside
      /\ run[i].revoked = (run[i].outside /\ run[i].active # {})
      /\ run[i].outside = (run[i].active = {} \/ Forbidden(i))
      /\ run[i].asserted \ {"REVOCATION_INITIATED"} = Finding(i)
  BY <1>1 DEF CaseInv, CaseOf, DecisionOf, ResponseOf, Decided, Closing
<1>8. CaseOf(i)'
  <2> USE DEF CaseInv, CaseOf, SameAccess, SameFinding, SameResponse, SameCascade, SameClaims
  <2>0. Finding(i)' = Finding(i) /\ (Forbidden(i)' <=> Forbidden(i))
    BY <1>5 DEF Finding, Forbidden
  <2>1. DecisionOf(i)'
    BY <1>1, <1>5, <2>0 DEF DecisionOf, Decided, Closing
  <2>2. ResponseOf(i)'
    BY <1>1, <1>5, <2>0 DEF ResponseOf, Closing
  <2>3. CascadeOf(i)'
    BY <1>1, <1>5 DEF CascadeOf, TerminatedBy
  <2>4. RecordOf(i)'
    BY <1>1, <1>3, <1>5, <1>7 DEF RecordOf, Closing
  <2>5. FoldOf(i)'
    BY <1>1, <1>5 DEF FoldOf, Settled, Decided
  <2> QED
    BY <2>1, <2>2, <2>3, <2>4, <2>5
<1>9. ManifestInv'
  <2>1. /\ outside(m.asserted) = m.outside /\ m.frozen = m.outside
        /\ m.revoked = (m.outside /\ "GRANT_EXISTED" \in m.asserted)
    BY <1>3, <1>7, RuleOnFinding
  <2> QED
    BY <1>1, <2>1 DEF ManifestInv
<1> QED
  BY <1>1, <1>4, <1>6, <1>8, <1>9, QuietStep

LEMMA CloseInv ==
  ASSUME IInv, NEW i \in Incidents, Close(i)
  PROVE  IInv'
<1> USE DEF IInv
<1>1. /\ run[i].pc = "close" /\ record' = record \cup {<<i, "closed">>}
      /\ run' = [run EXCEPT ![i].pc = "done"]
      /\ UNCHANGED <<log, freezes, manifests, clock, failures, ask>>
  BY DEF Close, Transition
<1>2. /\ run' \in [Incidents -> Incident] /\ \A j \in Incidents \ {i} : run'[j] = run[j]
      /\ run'[i] = [run[i] EXCEPT !.pc = "done"]
  <2>1. [run[i] EXCEPT !.pc = "done"] \in Incident
    <3>1. run[i] \in Incident
      BY DEF TypeOK
    <3> QED
      BY <3>1, ZenonT(60) DEF Incident
  <2> QED
    BY <1>1, <2>1 DEF TypeOK
<1>3. /\ run'[i].pc = "done"
      /\ SameFinding(i) /\ SameResponse(i) /\ SameCascade(i) /\ SameClaims(i)
  BY <1>2 DEF TypeOK, Incident, SameAccess, SameFinding, SameResponse, SameCascade, SameClaims
<1>4. TypeOK'
  BY <1>1, <1>2 DEF TypeOK, Status
<1>5. CaseOf(i)'
  <2> USE DEF CaseInv, CaseOf, SameAccess, SameFinding, SameResponse, SameCascade, SameClaims
  <2>0. Finding(i)' = Finding(i) /\ (Forbidden(i)' <=> Forbidden(i))
    BY <1>3 DEF Finding, Forbidden
  <2>1. DecisionOf(i)'
    BY <1>1, <1>3, <2>0 DEF DecisionOf, Decided, Closing
  <2>2. ResponseOf(i)'
    BY <1>1, <1>3, <2>0 DEF ResponseOf, Closing
  <2>3. CascadeOf(i)'
    BY <1>1, <1>3 DEF CascadeOf, TerminatedBy
  <2>4. RecordOf(i)'
    <3>1. <<i, "contained">> \in record' <=> <<i, "contained">> \in record
      BY <1>1
    <3>2. \E m \in manifests : m.incident = i /\ m.frozen = run[i].outside
      BY <1>1 DEF RecordOf
    <3>3. /\ run[i].outside \in BOOLEAN
          /\ (<<i, "contained">> \in record') = run[i].outside
      <4>1. run[i].outside \in BOOLEAN
        BY DEF TypeOK, Incident
      <4>2. (<<i, "contained">> \in record) = run[i].outside
        BY <1>1 DEF RecordOf, Closing
      <4> QED
        BY <3>1, <4>1, <4>2
    <3>4. <<i, "contained">> \in record =>
            run[i].frozen /\ run[i].todo = {} /\ run[i].revoked = (run[i].active # {})
      BY DEF RecordOf
    <3> QED
      BY <1>1, <1>3, <3>1, <3>2, <3>3, <3>4 DEF RecordOf, Closing
  <2>5. FoldOf(i)'
    BY <1>1, <1>3 DEF FoldOf, Settled, Decided
  <2> QED
    BY <2>1, <2>2, <2>3, <2>4, <2>5
<1>6. ManifestInv'
  BY <1>1 DEF ManifestInv
<1> QED
  BY <1>1, <1>2, <1>4, <1>5, <1>6, QuietStep

LEMMA FailInv ==
  ASSUME IInv, NEW i \in Incidents, Fail(i)
  PROVE  IInv'
<1> USE DEF IInv
<1>1. /\ run[i].pc \notin {"idle", "done", "failed"} /\ failures' = failures + 1
      /\ run' = [run EXCEPT ![i].pc = "failed"]
      /\ UNCHANGED <<log, freezes, record, manifests, clock, ask>>
  BY DEF Fail, store
<1>2. /\ run' \in [Incidents -> Incident] /\ \A j \in Incidents \ {i} : run'[j] = run[j]
      /\ run'[i] = [run[i] EXCEPT !.pc = "failed"]
  <2>1. [run[i] EXCEPT !.pc = "failed"] \in Incident
    <3>1. run[i] \in Incident
      BY DEF TypeOK
    <3> QED
      BY <3>1, ZenonT(60) DEF Incident
  <2> QED
    BY <1>1, <2>1 DEF TypeOK
<1>3. /\ run'[i].pc = "failed"
      /\ SameFinding(i) /\ SameResponse(i) /\ SameCascade(i) /\ SameClaims(i)
  BY <1>2 DEF TypeOK, Incident, SameAccess, SameFinding, SameResponse, SameCascade, SameClaims
<1>4. TypeOK'
  BY <1>1, <1>2 DEF TypeOK
<1>5. CaseOf(i)'
  <2> USE DEF CaseInv, CaseOf, SameAccess, SameFinding, SameResponse, SameCascade, SameClaims
  <2>0. Forbidden(i)' <=> Forbidden(i)
    BY <1>3 DEF Forbidden
  <2>1. DecisionOf(i)'
    BY <1>3 DEF DecisionOf, Decided, Closing
  <2>2. ResponseOf(i)'
    BY <1>1, <1>3, <2>0 DEF ResponseOf, Closing
  <2>3. CascadeOf(i)'
    BY <1>1, <1>3 DEF CascadeOf, TerminatedBy
  <2>4. RecordOf(i)'
    BY <1>1, <1>3 DEF RecordOf, Closing
  <2>5. FoldOf(i)'
    BY <1>1, <1>3 DEF FoldOf, Settled, Decided
  <2> QED
    BY <2>1, <2>2, <2>3, <2>4, <2>5
<1>6. ManifestInv'
  BY <1>1 DEF ManifestInv
<1> QED
  BY <1>1, <1>2, <1>4, <1>5, <1>6, QuietStep

(* A grant is terminated: the one step of an incident that appends to the  *)
(* grant log.                                                              *)
LEMMA TerminateInv ==
  ASSUME IInv, NEW i \in Incidents, Terminate(i)
  PROVE  IInv'
<1> USE DEF IInv
<1>1. PICK e \in run[i].todo, at \in (clock - Lag)..clock :
        /\ log' = log \cup {Revoked(e, OpOf[i], at)}
        /\ run' = [run EXCEPT ![i].todo = run[i].todo \ {e}]
  <2>1. run \in [Incidents -> Incident]
    BY DEF TypeOK
  <2> QED
    BY <2>1 DEF Terminate
<1> DEFINE ended == Revoked(e, OpOf[i], at)
<1>2. /\ run[i].pc = "terminate"
      /\ UNCHANGED <<freezes, record, manifests, clock, failures, ask>>
  BY DEF Terminate
<1>3. /\ run[i] \in Incident /\ run[i].todo \subseteq GrantEvent
      /\ clock \in Nat /\ Lag \in Nat /\ at \in Int /\ at >= clock - Lag /\ OpOf[i] \in Ops
      /\ \A j \in Incidents : OpOf[j] = OpOf[i] => j = i
  BY Constants DEF TypeOK, Incident, IncidentAssumption
<1>4. /\ ended \in GrantEvent /\ ended.kind = "revoked" /\ ended.op = OpOf[i]
      /\ ended.at = at /\ ended.grant = e.grant
  BY <1>1, <1>3, RevokedTyped
<1> HIDE DEF ended
<1>5. log' = log \cup {ended}
  BY <1>1 DEF ended
<1>6. /\ run' \in [Incidents -> Incident] /\ \A j \in Incidents \ {i} : run'[j] = run[j]
      /\ run'[i] = [run[i] EXCEPT !.todo = run[i].todo \ {e}]
  <2>1. [run[i] EXCEPT !.todo = run[i].todo \ {e}] \in Incident
    <3>1. run[i].todo \ {e} \in SUBSET GrantEvent
      BY <1>3
    <3> QED
      BY <1>3, <3>1, ZenonT(60) DEF Incident
  <2> QED
    BY <1>1, <2>1 DEF TypeOK
<1>7. /\ run'[i].pc = run[i].pc /\ run'[i].selected = run[i].selected
      /\ run'[i].todo = run[i].todo \ {e}
      /\ SameFinding(i) /\ SameResponse(i) /\ SameClaims(i)
  BY <1>6 DEF TypeOK, Incident, SameAccess, SameFinding, SameResponse, SameClaims
<1>8. TypeOK'
  BY <1>2, <1>3, <1>4, <1>5, <1>6 DEF TypeOK
<1>9. ASSUME NEW j \in Incidents, Settled(j), run[j].opened_at <= clock
      PROVE  ActiveAt(log', run[j].access.principal, run[j].access.work,
                      run[j].access.observed_at)
             = ActiveAt(log, run[j].access.principal, run[j].access.work,
                        run[j].access.observed_at)
  <2>1. ended.at \in Int /\ ended.at >= clock - Lag
    BY <1>3, <1>4
  <2>2. \A p, w : ActiveAt(log \cup {ended}, p, w, run[j].access.observed_at)
                   = ActiveAt(log, p, w, run[j].access.observed_at)
    BY <1>9, <2>1, FoldUndisturbed
  <2> QED
    BY <1>5, <2>2
<1>10. CaseOf(i)'
  <2> USE DEF CaseInv, CaseOf, SameAccess, SameFinding, SameResponse, SameClaims
  <2>0. Finding(i)' = Finding(i) /\ (Forbidden(i)' <=> Forbidden(i))
    BY <1>7 DEF Finding, Forbidden
  <2>1. DecisionOf(i)'
    BY <1>2, <1>7, <2>0 DEF DecisionOf, Decided, Closing
  <2>2. ResponseOf(i)'
    BY <1>2, <1>7, <2>0 DEF ResponseOf, Closing
  <2>3. CascadeOf(i)'
    <3>1. /\ ended \in TerminatedBy(i)' /\ TerminatedBy(i) \subseteq TerminatedBy(i)'
          /\ ended.grant = e.grant
      BY <1>4, <1>5 DEF TerminatedBy
    <3>2. run[i].frozen /\ run[i].active # {} /\ run[i].todo \subseteq run[i].selected
      BY <1>2 DEF ResponseOf, CascadeOf
    <3>3. \A h \in run'[i].selected \ run'[i].todo : \E f \in TerminatedBy(i)' : f.grant = h.grant
      BY <1>7, <3>1 DEF CascadeOf
    <3> QED
      BY <1>2, <1>7, <3>2, <3>3 DEF CascadeOf
  <2>4. RecordOf(i)'
    BY <1>2, <1>7 DEF RecordOf, Closing
  <2>5. FoldOf(i)'
    BY <1>2, <1>7, <1>9 DEF FoldOf, Settled, Decided
  <2> QED
    BY <2>1, <2>2, <2>3, <2>4, <2>5
<1>11. ASSUME NEW j \in Incidents, j # i PROVE CaseOf(j)'
  <2>1. TerminatedBy(j)' = TerminatedBy(j)
    BY <1>3, <1>4, <1>5, <1>11 DEF TerminatedBy
  <2>2. run[j].opened_at \in Int /\ run'[j] = run[j] /\ clock' = clock
    BY <1>2, <1>6, <1>11 DEF TypeOK, Incident
  <2> QED
    BY <1>2, <1>3, <1>9, <2>1, <2>2, OthersStay
<1>12. CaseInv'
  BY <1>10, <1>11 DEF CaseInv
<1>13. ManifestInv' /\ AskInv'
  BY <1>2, <1>5, AsksStay DEF ManifestInv
<1> QED
  BY <1>8, <1>12, <1>13

(* Others append to the log: a grant, or a revocation of another operation. *)
LEMMA AppendInv ==
  ASSUME IInv, NEW e \in GrantEvent, (e.kind = "revoked") = (e.op \in Ops),
         \A i \in Incidents : ~(e.kind = "revoked" /\ e.op = OpOf[i]),
         e.at >= clock - Lag, log' = log \cup {e}, clock' = clock + 1,
         UNCHANGED <<freezes, record, manifests, failures, run, ask>>
  PROVE  IInv'
<1> USE DEF IInv
<1>1. TypeOK'
  <2>1. log' \subseteq {f \in GrantEvent : (f.kind = "revoked") = (f.op \in Ops)}
    BY DEF TypeOK
  <2>2. clock' \in Nat
    BY DEF TypeOK
  <2> QED
    BY <2>1, <2>2 DEF TypeOK
<1>2. ASSUME NEW j \in Incidents PROVE CaseOf(j)'
  <2>1. /\ run[j].opened_at \in Int /\ clock \in Nat /\ clock' \in Nat /\ clock <= clock'
        /\ e.at \in Int
    BY DEF TypeOK, Incident, GrantEvent
  <2>2. TerminatedBy(j)' = TerminatedBy(j)
    BY DEF TerminatedBy
  <2>3. Settled(j) /\ run[j].opened_at <= clock =>
          ActiveAt(log', run[j].access.principal, run[j].access.work,
                   run[j].access.observed_at)
          = ActiveAt(log, run[j].access.principal, run[j].access.work,
                     run[j].access.observed_at)
    BY <2>1, FoldUndisturbed
  <2> QED
    BY <2>1, <2>2, <2>3, OthersStay
<1>3. CaseInv'
  BY <1>2 DEF CaseInv
<1>4. ManifestInv' /\ AskInv'
  BY AsksStay DEF ManifestInv
<1> QED
  BY <1>1, <1>3, <1>4

LEMMA IssueGrantInv ==
  ASSUME IInv, NEW g \in Grants, NEW scope \in NewScopes, IssueGrant(g, scope)
  PROVE  IInv'
<1>1. PICK at \in (clock - Lag)..clock :
        log' = log \cup {[grant |-> g, kind |-> "granted", op |-> NoOp,
                          at |-> at, scope |-> scope]}
  BY DEF IssueGrant
<1> DEFINE e == [grant |-> g, kind |-> "granted", op |-> NoOp, at |-> at, scope |-> scope]
<1>2. NoOp \notin Ops /\ scope \in Scope /\ clock \in Nat /\ Lag \in Nat /\ at \in Int
  BY Constants DEF ConsentAssumption, IncidentAssumption, IInv, TypeOK
<1>3. /\ e \in GrantEvent /\ (e.kind = "revoked") = (e.op \in Ops)
      /\ e.kind # "revoked" /\ e.at >= clock - Lag
  BY <1>2 DEF GrantEvent
<1> HIDE DEF e
<1>4. /\ log' = log \cup {e} /\ clock' = clock + 1
      /\ UNCHANGED <<freezes, record, manifests, failures, run, ask>>
  BY <1>1 DEF IssueGrant, e
<1> QED
  BY <1>3, <1>4, AppendInv

LEMMA RevokeElsewhereInv ==
  ASSUME IInv, RevokeElsewhere
  PROVE  IInv'
<1>1. PICK f \in InForce(log), o \in Ops \ {OpOf[i] : i \in Incidents},
           at \in (clock - Lag)..clock : log' = log \cup {Revoked(f, o, at)}
  BY DEF RevokeElsewhere
<1> DEFINE e == Revoked(f, o, at)
<1>2. f \in GrantEvent /\ clock \in Nat /\ Lag \in Nat /\ at \in Int /\ at >= clock - Lag
  BY Constants DEF IncidentAssumption, IInv, TypeOK, InForce
<1>3. e \in GrantEvent /\ e.kind = "revoked" /\ e.op = o /\ e.at = at
  BY <1>2, RevokedTyped
<1> HIDE DEF e
<1>4. /\ log' = log \cup {e} /\ clock' = clock + 1
      /\ UNCHANGED <<freezes, record, manifests, failures, run, ask>>
  BY <1>1 DEF RevokeElsewhere, e
<1> QED
  BY <1>2, <1>3, <1>4, AppendInv

-----------------------------------------------------------------------------
(* A licence request. *)

(* A step of one request.                                                  *)
LEMMA AskStep ==
  ASSUME IInv, NEW q \in Requests, UNCHANGED <<store, clock, failures, run>>,
         NEW a, a \in Ask, ask' = [ask EXCEPT ![q] = a], AskOf(q)'
  PROVE  IInv'
<1> USE DEF IInv
<1>1. TypeOK'
  BY DEF TypeOK, store
<1>2. ASSUME NEW j \in Incidents PROVE CaseOf(j)'
  <2>1. run[j].opened_at \in Int /\ clock \in Nat
    BY DEF TypeOK, Incident
  <2> QED
    BY <2>1, OthersStay DEF TerminatedBy, store
<1>3. ManifestInv' /\ CaseInv'
  BY <1>2 DEF ManifestInv, CaseInv, store
<1>4. ASSUME NEW p \in Requests, p # q PROVE AskOf(p)'
  BY <1>4 DEF AskInv, AskOf, store, TypeOK
<1>5. AskInv'
  BY <1>4 DEF AskInv
<1> QED
  BY <1>1, <1>3, <1>5

LEMMA ArriveInv ==
  ASSUME IInv, NEW q \in Requests, Arrive(q)
  PROVE  IInv'
<1> USE DEF IInv
<1> DEFINE frozen == \E f \in freezes : f.principal = ask[q].buyer.principal
           ended  == {e \in log : e.kind = "granted"} \ InForce(log)
           a == [ask[q] EXCEPT !.pc = "gate", !.frozen = frozen, !.ended = ended]
<1>1. /\ ask' = [ask EXCEPT ![q] = a] /\ UNCHANGED <<store, clock, failures, run>>
  BY DEF Arrive
<1>2. frozen \in BOOLEAN /\ ended \subseteq GrantEvent /\ \A e \in ended : Struck(log, e)
  BY DEF TypeOK, InForce
<1> HIDE DEF frozen, ended
<1>3. a \in Ask
  BY <1>2 DEF TypeOK, Ask
<1>4. /\ ask'[q].pc = "gate" /\ ask'[q].frozen = frozen /\ ask'[q].ended = ended
      /\ ask'[q].buyer = ask[q].buyer
  BY <1>1 DEF TypeOK, Ask
<1>5. AskOf(q)'
  BY <1>1, <1>2, <1>4 DEF AskOf, frozen, store
<1> HIDE DEF a
<1> QED
  BY <1>1, <1>3, <1>5, AskStep

LEMMA GateInv ==
  ASSUME IInv, NEW q \in Requests, Gate(q)
  PROVE  IInv'
<1> USE DEF IInv
<1> DEFINE frozen == \E f \in freezes : f.principal = ask[q].buyer.principal
<1>1. PICK next \in (IF frozen THEN {"refused"} ELSE Admitted) :
        ask' = [ask EXCEPT ![q].pc = next]
  BY DEF Gate
<1> DEFINE a == [ask[q] EXCEPT !.pc = next]
<1>2. /\ ask' = [ask EXCEPT ![q] = a] /\ UNCHANGED <<store, clock, failures, run>>
  BY <1>1 DEF Gate
<1>3. next \in {"refused", "decide", "interpret"} /\ (next # "refused" => ~frozen)
  BY <1>1 DEF Admitted
<1>4. a \in Ask
  BY <1>3 DEF TypeOK, Ask
<1>5. /\ ask'[q].pc = next /\ ask'[q].frozen = ask[q].frozen
      /\ ask'[q].ended = ask[q].ended /\ ask'[q].buyer = ask[q].buyer
  BY <1>2 DEF TypeOK, Ask
<1>6. AskOf(q)'
  BY <1>2, <1>3, <1>5 DEF AskInv, AskOf, store
<1> HIDE DEF a
<1> QED
  BY <1>2, <1>4, <1>6, AskStep

(* The words are read: only the use asked for may change, never who asks.  *)
LEMMA InterpretInv ==
  ASSUME IInv, NEW q \in Requests, Interpret(q)
  PROVE  IInv'
<1> USE DEF IInv
<1>1. ask[q] \in Ask /\ ask[q].pc = "interpret" /\ UNCHANGED <<store, clock, failures, run>>
  BY DEF Interpret, TypeOK
<1>2. CASE ask' = [ask EXCEPT ![q].pc = "refused"]
  <2> DEFINE a == [ask[q] EXCEPT !.pc = "refused"]
  <2>1. ask' = [ask EXCEPT ![q] = a] /\ a \in Ask
    BY <1>1, <1>2 DEF Ask
  <2>2. AskOf(q)'
    BY <1>1, <1>2 DEF AskInv, AskOf, store, TypeOK, Ask
  <2> HIDE DEF a
  <2> QED
    BY <1>1, <2>1, <2>2, AskStep
<1>3. ASSUME NEW u \in Readings,
             ask' = [ask EXCEPT ![q].pc = "decide", ![q].buyer.use = u]
      PROVE  IInv'
  <2> DEFINE buyer == [ask[q].buyer EXCEPT !.use = u]
             a == [ask[q] EXCEPT !.pc = "decide", !.buyer = buyer]
  <2>1. buyer \in Buyers /\ buyer.principal = ask[q].buyer.principal
    <3>1. ask[q].buyer \in Buyers
      BY <1>1 DEF Ask
    <3> QED
      BY <3>1, Constants DEF IncidentAssumption
  <2>2. ask' = [ask EXCEPT ![q] = a]
    BY <1>3
  <2> HIDE DEF buyer
  <2>3. a \in Ask
    BY <1>1, <2>1 DEF Ask
  <2>4. /\ ask'[q].pc = "decide" /\ ask'[q].frozen = ask[q].frozen
        /\ ask'[q].ended = ask[q].ended /\ ask'[q].buyer = buyer
    BY <1>1, <2>2 DEF TypeOK, Ask
  <2>5. AskOf(q)'
    BY <1>1, <2>1, <2>4 DEF AskInv, AskOf, store
  <2> HIDE DEF a
  <2> QED
    BY <1>1, <2>2, <2>3, <2>5, AskStep
<1> QED
  BY <1>2, <1>3 DEF Interpret

(* The decision: what had ended when the request arrived is struck in the  *)
(* log, and by an event of the same grant, which the buyer's own fold sees. *)
LEMMA DecideInv ==
  ASSUME IInv, NEW q \in Requests, Decide(q)
  PROVE  IInv'
<1> USE DEF IInv
<1>1. ask[q] \in Ask /\ ask[q].pc = "decide" /\ UNCHANGED <<store, clock, failures, run>>
  BY DEF Decide, TypeOK
<1>2. CASE ask' = [ask EXCEPT ![q].pc = "refused"]
  <2> DEFINE a == [ask[q] EXCEPT !.pc = "refused"]
  <2>1. ask' = [ask EXCEPT ![q] = a] /\ a \in Ask
    BY <1>1, <1>2 DEF Ask
  <2>2. AskOf(q)'
    BY <1>1, <1>2 DEF AskInv, AskOf, store, TypeOK, Ask
  <2> HIDE DEF a
  <2> QED
    BY <1>1, <2>1, <2>2, AskStep
<1>3. ASSUME NEW e \in InForce(HeldBy(log, ask[q].buyer.principal, ask[q].buyer.work)),
             ask' = [ask EXCEPT ![q].pc = "licensed", ![q].receipt = {e}]
      PROVE  IInv'
  <2> DEFINE a == [ask[q] EXCEPT !.pc = "licensed", !.receipt = {e}]
  <2>1. e \in GrantEvent
    BY DEF InForce, HeldBy, OfWork, TypeOK
  <2>2. ask' = [ask EXCEPT ![q] = a] /\ a \in Ask
    BY <1>1, <1>3, <2>1 DEF Ask
  <2>3. /\ ask'[q].pc = "licensed" /\ ask'[q].frozen = ask[q].frozen /\ ask'[q].receipt = {e}
        /\ ask'[q].ended = ask[q].ended /\ ask'[q].buyer = ask[q].buyer
    BY <1>1, <2>2 DEF TypeOK, Ask
  <2>4. e \notin ask[q].ended
    <3>1. ~Struck(log, e)
      BY DEF InForce, HeldBy, OfWork, Struck
    <3> QED
      BY <3>1 DEF AskInv, AskOf
  <2>5. AskOf(q)'
    BY <1>1, <2>3, <2>4 DEF AskInv, AskOf, store
  <2> HIDE DEF a
  <2> QED
    BY <1>1, <2>2, <2>5, AskStep
<1> QED
  BY <1>2, <1>3 DEF Decide

-----------------------------------------------------------------------------
(* The invariant. *)

LEMMA InvInit == Init => IInv
<1> SUFFICES ASSUME Init PROVE IInv
  OBVIOUS
<1>1. \A i \in Incidents : \E a \in Accesses : run[i] = NewIncident(a)
  BY DEF Init
<1>2. \A q \in Requests : \E b \in Buyers : ask[q] = NewAsk(b)
  BY DEF Init
<1>3. ASSUME NEW a \in Accesses PROVE NewIncident(a) \in Incident
  BY DEF NewIncident, Incident
<1>4. ASSUME NEW b \in Buyers PROVE NewAsk(b) \in Ask
  BY DEF NewAsk, Ask
<1>5. TypeOK
  <2>1. run \in [Incidents -> Incident]
    BY <1>3 DEF Init
  <2>2. ask \in [Requests -> Ask]
    BY <1>4 DEF Init
  <2>3. log \subseteq {e \in GrantEvent : (e.kind = "revoked") = (e.op \in Ops)}
    BY Constants DEF Init, IncidentAssumption, ConsentAssumption
  <2> QED
    BY <2>1, <2>2, <2>3, Constants DEF Init, TypeOK, IncidentAssumption
<1>6. ASSUME NEW i \in Incidents PROVE CaseOf(i)
  <2>1. /\ run[i].pc = "idle" /\ run[i].selected = {} /\ run[i].todo = {}
        /\ run[i].frozen = FALSE /\ run[i].revoked = FALSE
    <3>1. PICK a \in Accesses : run[i] = NewIncident(a)
      BY <1>1
    <3> QED
      BY <3>1 DEF NewIncident
  <2>2. TerminatedBy(i) = {} /\ record = {} /\ manifests = {}
    <3>1. \A e \in log : e.kind = "granted"
      BY Constants DEF Init, IncidentAssumption
    <3> QED
      BY <3>1 DEF Init, TerminatedBy
  <2> QED
    BY <2>1, <2>2 DEF CaseOf, DecisionOf, ResponseOf, CascadeOf, RecordOf, FoldOf, Decided, Closing
<1>7. ManifestInv
  BY DEF Init, ManifestInv
<1>8. AskInv
  <2>1. ASSUME NEW q \in Requests
        PROVE  ask[q].pc = "idle" /\ ask[q].frozen = FALSE /\ ask[q].ended = {}
    <3>1. PICK b \in Buyers : ask[q] = NewAsk(b)
      BY <1>2
    <3> QED
      BY <3>1 DEF NewAsk
  <2> QED
    BY <2>1 DEF AskInv, AskOf
<1> QED
  BY <1>5, <1>6, <1>7, <1>8 DEF IInv, CaseInv

LEMMA InvStep == IInv /\ [Next]_vars => IInv'
<1> SUFFICES ASSUME IInv, [Next]_vars PROVE IInv'
  OBVIOUS
<1>1. CASE UNCHANGED vars
  BY <1>1 DEF vars, store, IInv, TypeOK, CaseInv, CaseOf, DecisionOf, ResponseOf, CascadeOf,
              RecordOf, FoldOf, Finding, Forbidden, Settled, TerminatedBy, ManifestInv,
              AskInv, AskOf, Decided, Closing
<1>2. ASSUME NEW i \in Incidents,
             \/ Observe(i) \/ Investigate(i) \/ Adjudicate(i) \/ FreezePrincipal(i)
             \/ SelectGrants(i) \/ Terminate(i) \/ Initiated(i) \/ Contain(i)
             \/ Link(i) \/ Sign(i) \/ Close(i) \/ Fail(i)
      PROVE  IInv'
  BY <1>2, ObserveInv, InvestigateInv, AdjudicateInv, FreezePrincipalInv, SelectGrantsInv,
     TerminateInv, InitiatedInv, ContainInv, LinkInv, SignInv, CloseInv, FailInv
<1>3. ASSUME NEW q \in Requests, Arrive(q) \/ Gate(q) \/ Interpret(q) \/ Decide(q)
      PROVE  IInv'
  BY <1>3, ArriveInv, GateInv, InterpretInv, DecideInv
<1>4. ASSUME NEW g \in Grants, NEW scope \in NewScopes, IssueGrant(g, scope) PROVE IInv'
  BY <1>4, IssueGrantInv
<1>5. CASE RevokeElsewhere
  BY <1>5, RevokeElsewhereInv
<1> QED
  BY <1>1, <1>2, <1>3, <1>4, <1>5 DEF Next

LEMMA Invariance == Spec => []IInv
  BY InvInit, InvStep, PTL DEF Spec

-----------------------------------------------------------------------------
(* Type correctness: whatever accesses are investigated and wherever the   *)
(* engine fails, every stored event, freeze and manifest is of its type.   *)
THEOREM IncidentTypes == Spec => []TypeOK
<1>1. IInv => TypeOK
  BY DEF IInv
<1> QED
  BY <1>1, Invariance, PTL

(* The record is never ahead of the facts, and every manifest proves       *)
(* itself: RecordIsTrue, for any number of incidents that fail anywhere.   *)
THEOREM RecordNeverAhead == Spec => []RecordIsTrue
<1>1. IInv => RecordIsTrue
  <2> SUFFICES ASSUME IInv PROVE RecordIsTrue
    OBVIOUS
  <2>1. ASSUME NEW i \in Incidents, <<i, "contained">> \in record
        PROVE  /\ \E f \in freezes : f.incident = i /\ f.principal = run[i].access.principal
               /\ (run[i].active # {}) = run[i].revoked
               /\ \A e \in run[i].selected : \E f \in TerminatedBy(i) : f.grant = e.grant
    BY <2>1 DEF IInv, CaseInv, CaseOf, ResponseOf, CascadeOf, RecordOf
  <2>2. ASSUME NEW i \in Incidents, <<i, "closed">> \in record
        PROVE  \E m \in manifests : m.incident = i /\ m.frozen = (<<i, "contained">> \in record)
    BY <2>2 DEF IInv, CaseInv, CaseOf, RecordOf, Closing
  <2> QED
    BY <2>1, <2>2 DEF RecordIsTrue, IInv, ManifestInv
<1> QED
  BY <1>1, Invariance, PTL

(* Containment rests on a finding that stands: no grant that is issued, or *)
(* revoked, after an incident was opened changes what it found of an       *)
(* access that had settled (FindingStands).                                *)
THEOREM ContainmentIsFounded == Spec => []FindingStands
<1>1. IInv => FindingStands
  <2> SUFFICES ASSUME IInv, NEW i \in Incidents, Settled(i)
               PROVE  LET a    == run[i].access
                          held == ActiveAt(log, a.principal, a.work, a.observed_at)
                      IN /\ run[i].frozen => held = {} \/ a.work \in AutomatedForbidden
                         /\ TerminatedBy(i) # {} => held # {} /\ a.work \in AutomatedForbidden
    BY DEF FindingStands
  <2>1. run[i].frozen => run[i].active = {} \/ Forbidden(i)
    BY DEF IInv, CaseInv, CaseOf, ResponseOf
  <2>2. TerminatedBy(i) # {} => run[i].frozen /\ run[i].active # {}
    BY DEF IInv, CaseInv, CaseOf, CascadeOf
  <2>3. run[i].frozen =>
          run[i].active = ActiveAt(log, run[i].access.principal, run[i].access.work,
                                   run[i].access.observed_at)
    BY DEF IInv, CaseInv, CaseOf, FoldOf
  <2> QED
    BY <2>1, <2>2, <2>3 DEF Forbidden
<1> QED
  BY <1>1, Invariance, PTL

(* Containment holds for whoever comes after it: neither a freeze nor an   *)
(* ended grant is overlooked by a request that arrives later.              *)
THEOREM ContainmentHolds == Spec => []LateRequestRefused
<1>1. IInv => LateRequestRefused
  BY DEF IInv, AskInv, AskOf, LateRequestRefused
<1> QED
  BY <1>1, Invariance, PTL
=============================================================================

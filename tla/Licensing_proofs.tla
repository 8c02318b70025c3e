-------------------------- MODULE Licensing_proofs --------------------------
(***************************************************************************)
(* Proofs about Licensing: the decisions agree with what scopes are about, *)
(* for all regions, policies, proposals, requests and standing grants.     *)
(***************************************************************************)
EXTENDS Licensing, TLAPS

-----------------------------------------------------------------------------
(* The lattice. *)

(* Containment of uses is inclusion of what they contain; two uses of      *)
(* which neither contains the other have nothing in common.                *)
LEMMA UseTypeOrder ==
  ASSUME NEW u \in UseTypes, NEW v \in UseTypes
  PROVE  /\ u \in USE_TYPE_CONTAINMENT[u]
         /\ v \in USE_TYPE_CONTAINMENT[u]
              <=> USE_TYPE_CONTAINMENT[v] \subseteq USE_TYPE_CONTAINMENT[u]
         /\ v \notin USE_TYPE_CONTAINMENT[u] /\ u \notin USE_TYPE_CONTAINMENT[v]
              => USE_TYPE_CONTAINMENT[u] \cap USE_TYPE_CONTAINMENT[v] = {}
  BY DEF UseTypes, USE_TYPE_CONTAINMENT

(* Containment of model classes is inclusion too.                          *)
LEMMA ModelClassOrder ==
  ASSUME NEW u \in ModelClasses, NEW v \in ModelClasses
  PROVE  /\ u \in MODEL_CLASS_CONTAINMENT[u]
         /\ v \in MODEL_CLASS_CONTAINMENT["all_models"]
         /\ v \in MODEL_CLASS_CONTAINMENT[u]
              <=> MODEL_CLASS_CONTAINMENT[v] \subseteq MODEL_CLASS_CONTAINMENT[u]
  BY DEF ModelClasses, MODEL_CLASS_CONTAINMENT

-----------------------------------------------------------------------------
(* The evaluator. *)

(* The fields of a scope.                                                  *)
LEMMA ScopeFields ==
  ASSUME NEW s \in Scope
  PROVE  /\ s.use_type \in UseTypes /\ s.model_class \in ModelClasses
         /\ s.commercial \in BOOLEAN /\ s.attribution_required \in BOOLEAN
         /\ s.territory \in Territory
         /\ s.valid_from \in 0..Last /\ s.valid_until \in (0..Last) \cup {NoEnd}
         /\ s.valid_until = NoEnd \/ s.valid_until >= s.valid_from
  BY DEF Scope

(* A grant is current at the instants of its window.                       *)
LEMMA CurrentIsOpen ==
  ASSUME NEW g \in Scope, NEW at \in 0..Last
  PROVE  is_scope_current(g, at) <=> at \in Window(g)
  <1> Last \in Nat
    BY LicensingAssumed DEF LicensingAssumption
  <1> QED BY ScopeFields DEF is_scope_current, Window

(* The comparison of two windows' ends is inclusion of their instants.     *)
LEMMA WindowContained ==
  ASSUME NEW g \in Scope, NEW r \in Scope
  PROVE  window_contained(g, r) <=> Window(r) \subseteq Window(g)
  <1>0. Last \in Nat /\ NoEnd \notin Int
    BY LicensingAssumed DEF LicensingAssumption
  <1>1. /\ g.valid_from \in 0..Last /\ g.valid_until \in (0..Last) \cup {NoEnd}
        /\ r.valid_from \in 0..Last /\ r.valid_until \in (0..Last) \cup {NoEnd}
        /\ r.valid_until = NoEnd \/ r.valid_until >= r.valid_from
    BY ScopeFields
  <1>2. ASSUME window_contained(g, r) PROVE Window(r) \subseteq Window(g)
    BY <1>0, <1>1, <1>2 DEF window_contained, Window
  <1>3. ASSUME Window(r) \subseteq Window(g) PROVE window_contained(g, r)
    <2>1. r.valid_from \in Window(r)
      BY <1>0, <1>1 DEF Window
    <2>2. r.valid_from >= g.valid_from
      BY <2>1, <1>3 DEF Window
    <2>3. ASSUME g.valid_until # NoEnd
          PROVE  r.valid_until # NoEnd /\ r.valid_until <= g.valid_until
      <3>1. CASE r.valid_until = NoEnd
        <4>1. Last + 1 \in Window(r)
          BY <1>0, <1>1, <3>1 DEF Window
        <4>2. Last + 1 <= g.valid_until
          BY <4>1, <1>3, <2>3 DEF Window
        <4> QED BY <4>2, <1>0, <1>1, <2>3
      <3>2. CASE r.valid_until # NoEnd
        <4>1. r.valid_until \in Window(r)
          BY <1>0, <1>1, <3>2 DEF Window
        <4> QED BY <4>1, <1>3, <2>3, <3>2 DEF Window
      <3> QED BY <3>1, <3>2
    <2> QED BY <2>2, <2>3 DEF window_contained
  <1> QED BY <1>2, <1>3

(* The comparison of two lists of territories is inclusion of the places   *)
(* they reach.                                                             *)
LEMMA TerritoryContained ==
  ASSUME NEW g \in Scope, NEW r \in Scope
  PROVE  territory_contained(g, r) <=> Reach(r.territory) \subseteq Reach(g.territory)
  <1>1. /\ g.territory \subseteq Regions \cup {"WW"}
        /\ r.territory \subseteq Regions \cup {"WW"}
        /\ "WW" \notin Regions /\ "elsewhere" \notin Regions
    BY ScopeFields, LicensingAssumed DEF LicensingAssumption, Territory
  <1>2. CASE g.territory = {} \/ "WW" \in g.territory
    BY <1>1, <1>2 DEF territory_contained, Reach, Worldwide
  <1>3. CASE g.territory # {} /\ "WW" \notin g.territory
    <2>1. Reach(g.territory) = g.territory /\ "elsewhere" \notin g.territory
      BY <1>1, <1>3 DEF Reach
    <2>2. CASE r.territory = {} \/ "WW" \in r.territory
      <3>1. "elsewhere" \in Reach(r.territory)
        BY <2>2 DEF Reach, Worldwide
      <3> QED BY <3>1, <2>1, <2>2, <1>3 DEF territory_contained
    <2>3. CASE r.territory # {} /\ "WW" \notin r.territory
      <3>1. Reach(r.territory) = r.territory
        BY <2>3 DEF Reach
      <3> QED BY <3>1, <2>1, <2>3, <1>3 DEF territory_contained
    <2> QED BY <2>2, <2>3
  <1> QED BY <1>2, <1>3

(* permits() finds a grant if and only if one single grant that is open    *)
(* covers all that is asked for.                                           *)
LEMMA PermitsCovers ==
  ASSUME NEW active \in SUBSET Scope, NEW r \in Scope, NEW at \in 0..Last
  PROVE  permits(active, r, at)
           <=> \E g \in active : at \in Window(g) /\ Covers(g, r)
  <1>1. ASSUME NEW g \in active
        PROVE  (/\ is_scope_current(g, at) /\ window_contained(g, r)
                /\ is_use_type_contained(g.use_type, r.use_type)
                /\ is_model_class_contained(g.model_class, r.model_class)
                /\ r.commercial => g.commercial
                /\ territory_contained(g, r))
               <=> at \in Window(g) /\ Covers(g, r)
    <2>0. g \in Scope
      OBVIOUS
    <2>1. is_scope_current(g, at) <=> at \in Window(g)
      BY <2>0, CurrentIsOpen
    <2>2. window_contained(g, r) <=> Window(r) \subseteq Window(g)
      BY <2>0, WindowContained
    <2>3. territory_contained(g, r) <=> Reach(r.territory) \subseteq Reach(g.territory)
      BY <2>0, TerritoryContained
    <2>4. is_use_type_contained(g.use_type, r.use_type)
            <=> USE_TYPE_CONTAINMENT[r.use_type] \subseteq USE_TYPE_CONTAINMENT[g.use_type]
      BY <2>0, ScopeFields, UseTypeOrder DEF is_use_type_contained
    <2>5. is_model_class_contained(g.model_class, r.model_class)
            <=> MODEL_CLASS_CONTAINMENT[r.model_class]
                  \subseteq MODEL_CLASS_CONTAINMENT[g.model_class]
      BY <2>0, ScopeFields, ModelClassOrder DEF is_model_class_contained
    <2> QED BY <2>1, <2>2, <2>3, <2>4, <2>5 DEF Covers
  <1> QED BY <1>1 DEF permits

-----------------------------------------------------------------------------
(* The clamp. *)

(* The fields of a policy.                                                 *)
LEMMA PolicyFields ==
  ASSUME NEW w \in ArtistPolicy
  PROVE  /\ w.max_use_type \in UseTypes /\ w.allowed_model_class \in ModelClasses
         /\ w.commercial_allowed \in BOOLEAN
         /\ w.attribution_always_required \in BOOLEAN
         /\ w.territory_allowed \in Territory
         /\ w.max_duration \in Nat \cup {NoEnd}
         /\ w.prohibited_use_types \in SUBSET UseTypes
  BY DEF ArtistPolicy

(* A proposal's window, capped, stays inside the bound.                    *)
Fits(p, w) == w.max_duration # NoEnd => p.valid_from + w.max_duration <= Last

(* The offered window: it begins where the proposal does, ends no later    *)
(* than the cap, and a cap already kept changes nothing.                   *)
LEMMA OfferedUntil ==
  ASSUME NEW p \in Scope, NEW w \in ArtistPolicy, Fits(p, w)
  PROVE  LET u == offered_until(p, w)
         IN /\ u \in (0..Last) \cup {NoEnd}
            /\ u = NoEnd \/ u >= p.valid_from
            /\ w.max_duration = NoEnd => u = p.valid_until
            /\ w.max_duration # NoEnd =>
                 u \in Int /\ u <= p.valid_from + w.max_duration
  <1>0. Last \in Nat /\ NoEnd \notin Int
    BY LicensingAssumed DEF LicensingAssumption
  <1>1. /\ p.valid_from \in 0..Last /\ p.valid_until \in (0..Last) \cup {NoEnd}
        /\ p.valid_until = NoEnd \/ p.valid_until >= p.valid_from
    BY ScopeFields
  <1>2. w.max_duration \in Nat \cup {NoEnd}
    BY PolicyFields
  <1>3. CASE w.max_duration = NoEnd
    BY <1>1, <1>3 DEF offered_until
  <1>4. CASE w.max_duration # NoEnd
    <2>1. w.max_duration \in Nat /\ p.valid_from + w.max_duration <= Last
      BY <1>2, <1>4 DEF Fits
    <2> QED BY <1>0, <1>1, <1>4, <2>1 DEF offered_until
  <1> QED BY <1>3, <1>4

(* The offered territories are among those a scope may name; if something  *)
(* is asked for, and the policy names a place, they are not empty.         *)
LEMMA OfferedTerritory ==
  ASSUME NEW p \in Scope, NEW w \in ArtistPolicy, ~rejected(p, w)
  PROVE  LET t == offered_territory(p, w)
         IN /\ t \in Territory
            /\ w.territory_allowed # {} => t # {}
            /\ "WW" \in w.territory_allowed => t = Asked(p)
            /\ "WW" \notin w.territory_allowed => t \subseteq w.territory_allowed
  <1>1. p.territory \in Territory /\ w.territory_allowed \in Territory
    BY ScopeFields, PolicyFields
  <1>2. Asked(p) \in Territory /\ Asked(p) # {}
    BY <1>1 DEF Asked, Territory
  <1> QED BY <1>1, <1>2 DEF offered_territory, rejected, Territory

(* What is offered is a scope.                                             *)
LEMMA OfferedTyped ==
  ASSUME NEW p \in Scope, NEW w \in ArtistPolicy, Fits(p, w), ~rejected(p, w)
  PROVE  offered_scope(p, w) \in Scope
  <1>1. /\ offered_until(p, w) \in (0..Last) \cup {NoEnd}
        /\ offered_until(p, w) = NoEnd \/ offered_until(p, w) >= p.valid_from
    BY OfferedUntil
  <1>2. offered_territory(p, w) \in Territory
    BY OfferedTerritory
  <1>3. p.use_type \in UseTypes /\ p.model_class \in ModelClasses
        /\ p.commercial \in BOOLEAN /\ p.attribution_required \in BOOLEAN
        /\ p.valid_from \in 0..Last
    BY ScopeFields
  <1>4. w.max_use_type \in UseTypes /\ w.allowed_model_class \in ModelClasses
        /\ w.commercial_allowed \in BOOLEAN
        /\ w.attribution_always_required \in BOOLEAN
    BY PolicyFields
  <1> QED BY <1>1, <1>2, <1>3, <1>4 DEF offered_scope, Scope

(* The clamp is a ceiling.                                                 *)
LEMMA OfferBelowPolicy ==
  ASSUME NEW p \in Scope, NEW w \in ArtistPolicy, Fits(p, w), ~rejected(p, w)
  PROVE  LET o == offered_scope(p, w)
         IN /\ USE_TYPE_CONTAINMENT[o.use_type]
                 \subseteq USE_TYPE_CONTAINMENT[w.max_use_type]
            /\ o.model_class \in MODEL_CLASS_CONTAINMENT[w.allowed_model_class]
            /\ o.commercial => w.commercial_allowed
            /\ w.attribution_always_required => o.attribution_required
            /\ w.territory_allowed # {} =>
                 Reach(o.territory) \subseteq PlacesAllowed(w)
            /\ w.max_duration # NoEnd =>
                 \A i, j \in Window(o) : j - i <= w.max_duration
  <1> DEFINE o == offered_scope(p, w)
  <1>1. USE_TYPE_CONTAINMENT[o.use_type] \subseteq USE_TYPE_CONTAINMENT[w.max_use_type]
    <2>1. p.use_type \in UseTypes /\ w.max_use_type \in UseTypes
      BY ScopeFields, PolicyFields
    <2> QED BY <2>1, UseTypeOrder DEF offered_scope, is_use_type_contained
  <1>2. o.model_class \in MODEL_CLASS_CONTAINMENT[w.allowed_model_class]
    <2>1. p.model_class \in ModelClasses /\ w.allowed_model_class \in ModelClasses
      BY ScopeFields, PolicyFields
    <2> QED BY <2>1, ModelClassOrder DEF offered_scope
  <1>3. /\ o.commercial => w.commercial_allowed
        /\ w.attribution_always_required => o.attribution_required
    BY DEF offered_scope
  <1>4. w.territory_allowed # {} => Reach(o.territory) \subseteq PlacesAllowed(w)
    <2>1. /\ o.territory \in Territory
          /\ w.territory_allowed # {} => o.territory # {}
          /\ "WW" \notin w.territory_allowed => o.territory \subseteq w.territory_allowed
      BY OfferedTerritory DEF offered_scope
    <2>2. Reach(o.territory) \subseteq Worldwide
      BY <2>1 DEF Reach, Worldwide, Territory
    <2>3. CASE "WW" \in w.territory_allowed
      BY <2>2, <2>3 DEF PlacesAllowed
    <2>4. CASE "WW" \notin w.territory_allowed
      BY <2>1, <2>4 DEF PlacesAllowed, Reach
    <2> QED BY <2>3, <2>4
  <1>5. w.max_duration # NoEnd => \A i, j \in Window(o) : j - i <= w.max_duration
    <2> SUFFICES ASSUME w.max_duration # NoEnd,
                        NEW i \in Window(o), NEW j \in Window(o)
                 PROVE  j - i <= w.max_duration
      OBVIOUS
    <2>1. /\ Last \in Nat /\ NoEnd \notin Int
          /\ p.valid_from \in Nat /\ w.max_duration \in Nat
      BY LicensingAssumed, ScopeFields, PolicyFields DEF LicensingAssumption
    <2>2. /\ o.valid_from = p.valid_from /\ o.valid_until \in Int
          /\ o.valid_until <= p.valid_from + w.max_duration
      BY OfferedUntil DEF offered_scope
    <2>3. /\ i \in Int /\ j \in Int
          /\ i >= o.valid_from /\ j <= o.valid_until
      BY <2>1, <2>2 DEF Window
    <2> QED BY <2>1, <2>2, <2>3
  <1> QED BY <1>1, <1>2, <1>3, <1>4, <1>5

(* A policy with an empty list of territories agrees to nothing: whoever   *)
(* is not rejected asked for the whole world, and is offered the list.     *)
LEMMA NothingAgreedOnNoPlace ==
  ASSUME NEW p \in Scope, NEW w \in ArtistPolicy, ~rejected(p, w),
         w.territory_allowed = {}
  PROVE  clamp_to_policy(p, w).status = "COUNTEROFFER"
  <1>1. "WW" \in Asked(p) /\ Asked(p) # {}
    BY DEF rejected
  <1>2. offered_scope(p, w).territory = {}
    BY <1>1 DEF offered_scope, offered_territory
  <1>3. "territory" \in DOMAIN p
    BY DEF Scope
  <1>4. [p EXCEPT !.territory = Asked(p)]["territory"] = Asked(p)
    BY <1>3 DEF Scope
  <1>5. "territory" \in clamped_dimensions(p, w)
    BY <1>1, <1>2, <1>3, <1>4 DEF clamped_dimensions
  <1> QED BY <1>5 DEF clamp_to_policy

(* Proposed back, an offer is agreed as it stands.                         *)
LEMMA OfferIsAgreed ==
  ASSUME NEW p \in Scope, NEW w \in ArtistPolicy, Fits(p, w), ~rejected(p, w),
         w.max_use_type \notin w.prohibited_use_types, w.territory_allowed # {}
  PROVE  clamp_to_policy(offered_scope(p, w), w)
           = [status |-> "AGREED", offered |-> offered_scope(p, w)]
  <1> DEFINE o == offered_scope(p, w)
  <1>0. o \in Scope
    BY OfferedTyped
  <1>1. /\ o.territory = offered_territory(p, w) /\ o.territory # {}
        /\ Asked(o) = o.territory
    BY OfferedTerritory DEF offered_scope, Asked
  <1>2. /\ "WW" \in w.territory_allowed => o.territory = Asked(p)
        /\ "WW" \notin w.territory_allowed => o.territory \subseteq w.territory_allowed
    BY <1>1, OfferedTerritory
  <1>3. o.use_type \in UseTypes /\ w.max_use_type \in UseTypes
        /\ is_use_type_contained(w.max_use_type, o.use_type)
        /\ o.use_type \notin w.prohibited_use_types
    <2>1. p.use_type \in UseTypes /\ w.max_use_type \in UseTypes
      BY ScopeFields, PolicyFields
    <2> QED BY <2>1, UseTypeOrder DEF offered_scope, is_use_type_contained, rejected
  <1>4. ~rejected(o, w)
    BY <1>1, <1>2, <1>3 DEF rejected, comparable
  <1>5. offered_territory(o, w) = o.territory
    BY <1>1, <1>2 DEF offered_territory
  <1>6. offered_until(o, w) = o.valid_until
    <2>1. /\ o.valid_from = p.valid_from /\ o.valid_until = offered_until(p, w)
      BY DEF offered_scope
    <2>2. /\ w.max_duration = NoEnd => o.valid_until = p.valid_until
          /\ w.max_duration # NoEnd =>
               o.valid_until \in Int /\ o.valid_until <= p.valid_from + w.max_duration
      BY <2>1, OfferedUntil
    <2>3. NoEnd \notin Int /\ p.valid_from \in Nat /\ w.max_duration \in Nat \cup {NoEnd}
      BY LicensingAssumed, ScopeFields, PolicyFields DEF LicensingAssumption
    <2> QED BY <2>1, <2>2, <2>3 DEF offered_until
  <1>7. offered_scope(o, w) = o
    BY <1>3, <1>5, <1>6 DEF offered_scope
  <1>8. [o EXCEPT !.territory = Asked(o)] = o
    <2> HIDE DEF o
    <2> QED BY <1>0, <1>1 DEF Scope
  <1>9. clamped_dimensions(o, w) = {}
    BY <1>7, <1>8 DEF clamped_dimensions
  <1> QED BY <1>4, <1>7, <1>9 DEF clamp_to_policy

(* A rejection of a use that is not prohibited has nothing to narrow to.   *)
LEMMA RejectionIsDisjoint ==
  ASSUME NEW p \in Scope, NEW w \in ArtistPolicy, rejected(p, w),
         p.use_type \notin w.prohibited_use_types
  PROVE  \/ USE_TYPE_CONTAINMENT[p.use_type]
              \cap USE_TYPE_CONTAINMENT[w.max_use_type] = {}
         \/ Reach(p.territory) \cap PlacesAllowed(w) = {}
  <1>1. CASE ~comparable(p.use_type, w.max_use_type)
    <2>1. p.use_type \in UseTypes /\ w.max_use_type \in UseTypes
      BY ScopeFields, PolicyFields
    <2> QED BY <1>1, <2>1, UseTypeOrder DEF comparable, is_use_type_contained
  <1>2. CASE /\ "WW" \notin w.territory_allowed \cup Asked(p)
             /\ Asked(p) \cap w.territory_allowed = {}
    <2>1. Asked(p) = p.territory /\ p.territory # {} /\ "WW" \notin p.territory
      BY <1>2 DEF Asked
    <2> QED BY <1>2, <2>1 DEF Reach, PlacesAllowed
  <1> QED BY <1>1, <1>2 DEF rejected

-----------------------------------------------------------------------------
(* The state machine. *)

LEMMA Constants == LicensingAssumption
  BY LicensingAssumed

(* The exchange recorded in deal is what the clamp made of its proposal,   *)
(* whose capped window stays inside the bound.                             *)
DealInv ==
  deal # NoDeal =>
    /\ deal.policy \in Policies /\ deal.proposal \in Scope
    /\ Fits(deal.proposal, deal.policy)
    /\ deal.outcome = clamp_to_policy(deal.proposal, deal.policy)

(* A licence request is decided on the grants that are still held: once    *)
(* one is answered, no negotiation goes on.                                *)
AnswerInv ==
  answer # NoAnswer =>
    /\ deal = NoDeal
    /\ answer.request \in Requests /\ answer.at \in 0..Last
    /\ answer.permitted = permits(held, answer.request, answer.at)

IInv == held \subseteq Scope /\ DealInv /\ AnswerInv

(* What the clamp offers, if anything, is a scope.                         *)
LEMMA ClampTyped ==
  ASSUME NEW p \in Scope, NEW w \in ArtistPolicy, Fits(p, w)
  PROVE  LET c == clamp_to_policy(p, w)
         IN /\ c.status \in {"AGREED", "COUNTEROFFER"} =>
                 /\ ~rejected(p, w)
                 /\ c.offered = offered_scope(p, w) /\ c.offered \in Scope
            /\ c.status = "COUNTEROFFER_REJECTED_BY_POLICY" =>
                 rejected(p, w) /\ c.offered = NoScope
            /\ c.status \in {"AGREED", "COUNTEROFFER", "COUNTEROFFER_REJECTED_BY_POLICY"}
  BY OfferedTyped DEF clamp_to_policy

(* A counteroffer fits where its proposal did: it begins at the same       *)
(* instant.                                                                *)
LEMMA OfferFits ==
  ASSUME NEW p, NEW w, Fits(p, w)
  PROVE  Fits(offered_scope(p, w), w)
  BY DEF Fits, offered_scope

LEMMA InitInv == Init => IInv
  BY Constants DEF Init, IInv, DealInv, AnswerInv, LicensingAssumption

LEMMA StepInv == IInv /\ [Next]_vars => IInv'
  <1> SUFFICES ASSUME IInv, [Next]_vars PROVE IInv'
    OBVIOUS
  <1> USE Constants
  <1>1. CASE Negotiate
    <2>1. PICK p \in Proposals, w \in Policies : deal' = Outcome(p, w)
      BY <1>1 DEF Negotiate
    <2>2. held' = held /\ answer' = NoAnswer
      BY <1>1 DEF Negotiate
    <2>3. p \in Scope /\ Fits(p, w)
      BY DEF LicensingAssumption, Fits
    <2>4. DealInv'
      BY <2>1, <2>3 DEF DealInv, Outcome
    <2> QED BY <2>2, <2>4 DEF IInv, AnswerInv
  <1>2. CASE AcceptCounteroffer
    <2>1. deal # NoDeal /\ deal.outcome.status = "COUNTEROFFER"
          /\ deal' = Outcome(deal.outcome.offered, deal.policy)
          /\ held' = held /\ answer' = answer
      BY <1>2 DEF AcceptCounteroffer
    <2>2. /\ deal.policy \in Policies /\ deal.policy \in ArtistPolicy
          /\ deal.proposal \in Scope /\ Fits(deal.proposal, deal.policy)
          /\ deal.outcome = clamp_to_policy(deal.proposal, deal.policy)
      BY <2>1 DEF IInv, DealInv, LicensingAssumption
    <2>3. /\ deal.outcome.offered \in Scope
          /\ deal.outcome.offered = offered_scope(deal.proposal, deal.policy)
      BY <2>1, <2>2, ClampTyped
    <2>4. Fits(deal.outcome.offered, deal.policy)
      BY <2>2, <2>3, OfferFits
    <2>5. DealInv'
      BY <2>1, <2>2, <2>3, <2>4 DEF DealInv, Outcome
    <2>6. AnswerInv'
      BY <2>1 DEF IInv, AnswerInv
    <2> QED BY <2>1, <2>5, <2>6 DEF IInv
  <1>3. CASE Conclude
    <2>1. /\ deal # NoDeal /\ deal.outcome.status # "COUNTEROFFER"
          /\ deal' = NoDeal /\ answer' = answer
      BY <1>3 DEF Conclude
    <2>2. held' \subseteq Scope
      <3>1. CASE deal.outcome.status = "AGREED"
        <4>1. deal.outcome.offered \in Scope
          BY <2>1, <3>1, ClampTyped DEF IInv, DealInv, LicensingAssumption
        <4> QED BY <1>3, <3>1, <4>1 DEF Conclude, IInv
      <3>2. CASE deal.outcome.status # "AGREED"
        BY <1>3, <3>2 DEF Conclude, IInv
      <3> QED BY <3>1, <3>2
    <2>3. AnswerInv'
      BY <2>1 DEF IInv, AnswerInv
    <2> QED BY <2>1, <2>2, <2>3 DEF IInv, DealInv
  <1>4. CASE License
    <2>1. deal = NoDeal /\ deal' = deal /\ held' = held
      BY <1>4 DEF License
    <2>2. PICK r \in Requests, at \in 0..Last :
            answer' = [request |-> r, at |-> at, permitted |-> permits(held, r, at)]
      BY <1>4 DEF License
    <2>3. AnswerInv'
      BY <2>1, <2>2 DEF AnswerInv, permits
    <2> QED BY <2>1, <2>3 DEF IInv, DealInv
  <1>5. CASE UNCHANGED vars
    BY <1>5 DEF vars, IInv, DealInv, AnswerInv, permits
  <1> QED BY <1>1, <1>2, <1>3, <1>4, <1>5 DEF Next

LEMMA Invariance == Spec => []IInv
  <1> QED BY InitInv, StepInv, PTL DEF Spec

-----------------------------------------------------------------------------
(* Every grant, exchange and answer is well formed (request_license,       *)
(* negotiate).                                                             *)
THEOREM TypeCorrect == Spec => []TypeOK
  <1>1. ASSUME IInv PROVE TypeOK
    <2>1. ASSUME deal # NoDeal
          PROVE  deal.outcome.offered \in Scope \cup {NoScope}
      BY <1>1, <2>1, Constants, ClampTyped DEF IInv, DealInv, LicensingAssumption
    <2> QED BY <1>1, <2>1 DEF TypeOK, IInv, DealInv, AnswerInv
  <1> QED BY <1>1, Invariance, PTL

(* A licence is given if and only if one single open grant covers all that *)
(* is asked for (permits, under request_license).                          *)
THEOREM LicencesAreContainment == Spec => []PermitsIsContainment
  <1>1. ASSUME IInv PROVE PermitsIsContainment
    <2> SUFFICES ASSUME answer # NoAnswer
                 PROVE  answer.permitted <=>
                          \E g \in held : /\ answer.at \in Window(g)
                                          /\ Covers(g, answer.request)
      BY DEF PermitsIsContainment
    <2>1. /\ answer.request \in Scope /\ answer.at \in 0..Last
          /\ answer.permitted = permits(held, answer.request, answer.at)
          /\ held \in SUBSET Scope
      BY <1>1, Constants DEF IInv, AnswerInv, LicensingAssumption
    <2> QED BY <2>1, PermitsCovers
  <1> QED BY <1>1, Invariance, PTL

(* Whatever is proposed, what is offered reaches no further than the       *)
(* policy's maximum, but for the empty list of territories, which is never *)
(* agreed (clamp_to_policy, under negotiate).                              *)
THEOREM OffersWithinCeiling == Spec => []OfferWithinCeiling
  <1>1. ASSUME IInv PROVE OfferWithinCeiling
    <2> SUFFICES ASSUME deal # NoDeal, deal.outcome.offered # NoScope
                 PROVE  OfferWithinCeiling
      BY DEF OfferWithinCeiling
    <2>1. /\ deal.policy \in ArtistPolicy /\ deal.proposal \in Scope
          /\ Fits(deal.proposal, deal.policy)
          /\ deal.outcome = clamp_to_policy(deal.proposal, deal.policy)
      BY <1>1, Constants DEF IInv, DealInv, LicensingAssumption
    <2>2. /\ ~rejected(deal.proposal, deal.policy)
          /\ deal.outcome.offered = offered_scope(deal.proposal, deal.policy)
      BY <2>1, ClampTyped
    <2>3. deal.policy.territory_allowed = {} => deal.outcome.status = "COUNTEROFFER"
      BY <2>1, <2>2, NothingAgreedOnNoPlace
    <2> QED BY <2>1, <2>2, <2>3, OfferBelowPolicy DEF OfferWithinCeiling
  <1> QED BY <1>1, Invariance, PTL

(* A counteroffer that is proposed back is agreed as it stands             *)
(* (clamp_to_policy, in the second round of a negotiation).                *)
LEMMA CounteroffersCanBeTaken == Spec => []CounterofferCanBeTaken
  <1>1. ASSUME IInv PROVE CounterofferCanBeTaken
    <2> SUFFICES ASSUME deal # NoDeal, deal.outcome.status = "COUNTEROFFER",
                        deal.policy.max_use_type \notin deal.policy.prohibited_use_types,
                        deal.policy.territory_allowed # {}
                 PROVE  clamp_to_policy(deal.outcome.offered, deal.policy)
                          = [status |-> "AGREED", offered |-> deal.outcome.offered]
      BY DEF CounterofferCanBeTaken
    <2>1. /\ deal.policy \in ArtistPolicy /\ deal.proposal \in Scope
          /\ Fits(deal.proposal, deal.policy)
          /\ deal.outcome = clamp_to_policy(deal.proposal, deal.policy)
      BY <1>1, Constants DEF IInv, DealInv, LicensingAssumption
    <2>2. /\ ~rejected(deal.proposal, deal.policy)
          /\ deal.outcome.offered = offered_scope(deal.proposal, deal.policy)
      BY <2>1, ClampTyped
    <2> QED BY <2>1, <2>2, OfferIsAgreed
  <1> QED BY <1>1, Invariance, PTL

(* A proposal of a use that is not prohibited is rejected only where there *)
(* is nothing to narrow to (clamp_to_policy).                              *)
LEMMA RejectionsAreDisjoint == Spec => []RejectedOnlyIfDisjoint
  <1>1. ASSUME IInv PROVE RejectedOnlyIfDisjoint
    <2> SUFFICES ASSUME deal # NoDeal,
                        deal.outcome.status = "COUNTEROFFER_REJECTED_BY_POLICY",
                        deal.proposal.use_type \notin deal.policy.prohibited_use_types
                 PROVE  RejectedOnlyIfDisjoint
      BY DEF RejectedOnlyIfDisjoint
    <2>1. /\ deal.policy \in ArtistPolicy /\ deal.proposal \in Scope
          /\ Fits(deal.proposal, deal.policy)
          /\ deal.outcome = clamp_to_policy(deal.proposal, deal.policy)
      BY <1>1, Constants DEF IInv, DealInv, LicensingAssumption
    <2>2. rejected(deal.proposal, deal.policy)
      BY <2>1, ClampTyped
    <2> QED BY <2>1, <2>2, RejectionIsDisjoint DEF RejectedOnlyIfDisjoint
  <1> QED BY <1>1, Invariance, PTL

(* A counteroffer can be taken, and a rejection leaves nothing to counter  *)
(* with, for every proposal and every policy (clamp_to_policy).            *)
THEOREM NegotiationsConverge == Spec => []NegotiationConverges
  BY CounteroffersCanBeTaken, RejectionsAreDisjoint, PTL DEF NegotiationConverges
=============================================================================

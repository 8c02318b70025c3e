----------------------------- MODULE Licensing -----------------------------
(***************************************************************************)
(* What a buyer may use.  A proposal is clamped to the artist's policy for *)
(* a work (clamp_to_policy); a counteroffer may be proposed back; what is  *)
(* agreed becomes a grant; and a licence request is decided against the    *)
(* grants in force (permits), on five dimensions at once.                  *)
(***************************************************************************)
EXTENDS Lattice, Integers, FiniteSets

CONSTANTS
  Regions,     \* territory codes other than "WW"
  Last,        \* bound: the last instant a window names
  NoEnd,       \* None: an open-ended window, an unbounded duration
  NoScope,     \* None: no scope is offered
  NoDeal,      \* no negotiation is going on
  NoAnswer,    \* no licence request was decided yet
  Policies,    \* the policies of the works negotiated about
  Proposals,   \* the scopes that buyers propose
  Requests,    \* the scopes that licence requests name
  Standing,    \* sets of scopes already granted
  MaxGrants    \* bound: grants of the work that requests are about

Territory == SUBSET (Regions \cup {"WW"})

Scope ==
  {s \in [use_type : UseTypes, model_class : ModelClasses, commercial : BOOLEAN,
          attribution_required : BOOLEAN, territory : Territory,
          valid_from : 0..Last, valid_until : (0..Last) \cup {NoEnd}] :
     s.valid_until = NoEnd \/ s.valid_until >= s.valid_from}

ArtistPolicy ==
  [max_use_type : UseTypes, allowed_model_class : ModelClasses,
   commercial_allowed : BOOLEAN, territory_allowed : Territory,
   max_duration : Nat \cup {NoEnd}, attribution_always_required : BOOLEAN,
   prohibited_use_types : SUBSET UseTypes]

(* The last clause keeps a capped window inside the bound.                 *)
LicensingAssumption ==
  /\ Last \in Nat /\ NoEnd \notin Int /\ MaxGrants \in Nat
  /\ Regions \cap {"WW", "elsewhere"} = {}
  /\ NoScope \notin Scope
  /\ Policies \subseteq ArtistPolicy
  /\ Proposals \subseteq Scope /\ Requests \subseteq Scope
  /\ Standing \subseteq SUBSET Scope
  /\ \A w \in Policies, s \in Proposals :
       w.max_duration # NoEnd => s.valid_from + w.max_duration <= Last

ASSUME LicensingAssumed == LicensingAssumption

-----------------------------------------------------------------------------
(* The evaluator. *)

is_scope_current(s, at) ==
  at >= s.valid_from /\ (s.valid_until = NoEnd \/ at <= s.valid_until)

window_contained(g, r) ==
  /\ r.valid_from >= g.valid_from
  /\ g.valid_until # NoEnd =>
       r.valid_until # NoEnd /\ r.valid_until <= g.valid_until

(* An empty list and a list with "WW" both mean worldwide in a grant.      *)
territory_contained(g, r) ==
  \/ g.territory = {} \/ "WW" \in g.territory
  \/ r.territory # {} /\ r.territory \subseteq g.territory

(* Mutant of permits: each dimension may come from another grant.          *)
PermitsAcrossGrants(active, r, at) ==
  LET current == {g \in active : is_scope_current(g, at)}
  IN /\ \E g \in current : window_contained(g, r)
     /\ \E g \in current : is_use_type_contained(g.use_type, r.use_type)
     /\ \E g \in current : is_model_class_contained(g.model_class, r.model_class)
     /\ \E g \in current : r.commercial => g.commercial
     /\ \E g \in current : territory_contained(g, r)

permits(active, r, at) ==
  \E g \in active :
    /\ is_scope_current(g, at) /\ window_contained(g, r)
    /\ is_use_type_contained(g.use_type, r.use_type)
    /\ is_model_class_contained(g.model_class, r.model_class)
    /\ r.commercial => g.commercial
    /\ territory_contained(g, r)

-----------------------------------------------------------------------------
(* The clamp. *)

Asked(p) == IF p.territory = {} THEN {"WW"} ELSE p.territory

comparable(u, v) == is_use_type_contained(u, v) \/ is_use_type_contained(v, u)

rejected(p, policy) ==
  \/ p.use_type \in policy.prohibited_use_types
  \/ ~comparable(p.use_type, policy.max_use_type)
  \/ /\ "WW" \notin policy.territory_allowed \cup Asked(p)
     /\ Asked(p) \cap policy.territory_allowed = {}

(* Mutant of offered_territory: the two lists are joined.                  *)
TerritoriesJoined(p, policy) ==
  IF "WW" \in policy.territory_allowed THEN Asked(p)
  ELSE Asked(p) \cup policy.territory_allowed

offered_territory(p, policy) ==
  IF "WW" \in policy.territory_allowed THEN Asked(p)
  ELSE IF "WW" \in Asked(p) THEN policy.territory_allowed
  ELSE Asked(p) \cap policy.territory_allowed

(* Mutant of offered_until: the duration counts from the first instant.    *)
CappedFromStart(p, policy) ==
  IF policy.max_duration = NoEnd THEN p.valid_until
  ELSE IF p.valid_until = NoEnd \/ p.valid_until > policy.max_duration
  THEN policy.max_duration ELSE p.valid_until

offered_until(p, policy) ==
  IF policy.max_duration = NoEnd THEN p.valid_until
  ELSE LET cap == p.valid_from + policy.max_duration
       IN IF p.valid_until = NoEnd \/ p.valid_until > cap THEN cap
          ELSE p.valid_until

offered_scope(p, policy) ==
  [use_type |-> IF is_use_type_contained(policy.max_use_type, p.use_type)
                THEN p.use_type ELSE policy.max_use_type,
   model_class |-> IF policy.allowed_model_class = "all_models"
                   THEN p.model_class ELSE policy.allowed_model_class,
   commercial |-> p.commercial /\ policy.commercial_allowed,
   attribution_required |-> \/ p.attribution_required
                            \/ policy.attribution_always_required,
   territory |-> offered_territory(p, policy),
   valid_from |-> p.valid_from,
   valid_until |-> offered_until(p, policy)]

(* Mutant of clamped_dimensions: an obligation of the policy always counts *)
(* as a move.                                                              *)
ClampedByObligation(p, policy) ==
  {d \in DOMAIN p : offered_scope(p, policy)[d] # [p EXCEPT !.territory = Asked(p)][d]}
    \cup {d \in {"attribution_required"} : policy.attribution_always_required}

(* The dimensions the clamp moved.                                         *)
clamped_dimensions(p, policy) ==
  {d \in DOMAIN p : offered_scope(p, policy)[d] # [p EXCEPT !.territory = Asked(p)][d]}

clamp_to_policy(p, policy) ==
  IF rejected(p, policy)
  THEN [status |-> "COUNTEROFFER_REJECTED_BY_POLICY", offered |-> NoScope]
  ELSE [status |-> IF clamped_dimensions(p, policy) = {} THEN "AGREED"
                   ELSE "COUNTEROFFER",
        offered |-> offered_scope(p, policy)]

-----------------------------------------------------------------------------
VARIABLES
  deal,     \* the last exchange of a negotiation about a work
  held,     \* scopes of the grants in force for the buyer and that work
  answer    \* the last licence request, and how it was decided

vars == <<deal, held, answer>>

Outcome(p, policy) ==
  [policy |-> policy, proposal |-> p, outcome |-> clamp_to_policy(p, policy)]

Init == deal = NoDeal /\ held \in Standing /\ answer = NoAnswer

(* POST /api/v1/negotiate.  (A licence request changes nothing that a       *)
(* negotiation reads, so behaviours end with one.)                         *)
Negotiate ==
  /\ deal = NoDeal /\ answer = NoAnswer /\ Cardinality(held) < MaxGrants
  /\ \E p \in Proposals, policy \in Policies : deal' = Outcome(p, policy)
  /\ UNCHANGED <<held, answer>>

(* The buyer proposes the counteroffer back.                               *)
AcceptCounteroffer ==
  /\ deal # NoDeal /\ deal.outcome.status = "COUNTEROFFER"
  /\ deal' = Outcome(deal.outcome.offered, deal.policy)
  /\ UNCHANGED <<held, answer>>

(* What is agreed is granted; a rejection ends the negotiation.            *)
Conclude ==
  /\ deal # NoDeal /\ deal.outcome.status # "COUNTEROFFER"
  /\ held' = IF deal.outcome.status = "AGREED" THEN held \cup {deal.outcome.offered}
             ELSE held
  /\ deal' = NoDeal
  /\ UNCHANGED answer

(* POST /api/v1/license: decided at some instant.                          *)
License ==
  /\ deal = NoDeal /\ answer = NoAnswer
  /\ \E r \in Requests, at \in 0..Last :
       answer' = [request |-> r, at |-> at, permitted |-> permits(held, r, at)]
  /\ UNCHANGED <<deal, held>>

Next == Negotiate \/ AcceptCounteroffer \/ Conclude \/ License

Spec == Init /\ [][Next]_vars

-----------------------------------------------------------------------------
(* What a scope is about: the reference that the decisions are held to.    *)

Worldwide == Regions \cup {"elsewhere"}

Reach(territory) ==
  IF territory = {} \/ "WW" \in territory THEN Worldwide ELSE territory

(* Where a policy lets a work be used: a policy's list is worldwide only    *)
(* if it names "WW"; an empty one, unlike a grant's, allows no place.      *)
PlacesAllowed(policy) ==
  IF "WW" \in policy.territory_allowed THEN Worldwide
  ELSE policy.territory_allowed

(* The instants of a window; one past the last stands for ever after.      *)
Window(s) == {i \in 0..(Last + 1) :
                /\ i >= s.valid_from
                /\ s.valid_until # NoEnd => i <= s.valid_until}

(* g authorises everything that r asks for.                                *)
Covers(g, r) ==
  /\ USE_TYPE_CONTAINMENT[r.use_type] \subseteq USE_TYPE_CONTAINMENT[g.use_type]
  /\ MODEL_CLASS_CONTAINMENT[r.model_class]
       \subseteq MODEL_CLASS_CONTAINMENT[g.model_class]
  /\ r.commercial => g.commercial
  /\ Reach(r.territory) \subseteq Reach(g.territory)
  /\ Window(r) \subseteq Window(g)

TypeOK ==
  /\ held \subseteq Scope
  /\ deal # NoDeal =>
       /\ deal.policy \in Policies /\ deal.proposal \in Scope
       /\ deal.outcome.offered \in Scope \cup {NoScope}
  /\ answer # NoAnswer => answer.request \in Requests /\ answer.at \in 0..Last

(* A licence is given if and only if one single grant that is open at that *)
(* instant authorises all that is asked for: nothing is put together from  *)
(* two grants, and nothing that is asked for is overlooked.                *)
PermitsIsContainment ==
  answer # NoAnswer =>
    (answer.permitted <=> \E g \in held : /\ answer.at \in Window(g)
                                          /\ Covers(g, answer.request))

(* The clamp is a ceiling on every dimension: whatever is proposed, what   *)
(* is offered reaches no further than the policy's maximum.  One offer     *)
(* does: asked for the whole world, a policy with an empty list of         *)
(* territories offers that empty list, worldwide in a grant, where the     *)
(* comment at negotiation.py:121-122 has a rejection.  That offer is never *)
(* agreed, so no agreed scope is outside its policy (negotiation.py:9-12). *)
OfferWithinCeiling ==
  (deal # NoDeal /\ deal.outcome.offered # NoScope) =>
    LET o == deal.outcome.offered
        w == deal.policy
    IN /\ USE_TYPE_CONTAINMENT[o.use_type] \subseteq USE_TYPE_CONTAINMENT[w.max_use_type]
       /\ o.model_class \in MODEL_CLASS_CONTAINMENT[w.allowed_model_class]
       /\ o.commercial => w.commercial_allowed
       /\ w.attribution_always_required => o.attribution_required
       /\ \/ Reach(o.territory) \subseteq PlacesAllowed(w)
          \/ w.territory_allowed = {} /\ deal.outcome.status = "COUNTEROFFER"
       /\ w.max_duration # NoEnd =>
            \A i, j \in Window(o) : j - i <= w.max_duration

(* A counteroffer can be taken: proposed back, it is agreed as it stands.  *)
(* A policy that prohibits its own maximum takes its offer back, and one   *)
(* with an empty list of territories offers that list, which is read as    *)
(* worldwide and is countered again, for ever: both are left out.          *)
CounterofferCanBeTaken ==
  (/\ deal # NoDeal /\ deal.outcome.status = "COUNTEROFFER"
   /\ deal.policy.max_use_type \notin deal.policy.prohibited_use_types
   /\ deal.policy.territory_allowed # {})
  => clamp_to_policy(deal.outcome.offered, deal.policy)
       = [status |-> "AGREED", offered |-> deal.outcome.offered]

(* A door is closed only where there is nothing to narrow to: a proposal   *)
(* of a use that is not prohibited is rejected only if it and the maximum  *)
(* have no use, or no place, in common.                                    *)
RejectedOnlyIfDisjoint ==
  (/\ deal # NoDeal /\ deal.outcome.status = "COUNTEROFFER_REJECTED_BY_POLICY"
   /\ deal.proposal.use_type \notin deal.policy.prohibited_use_types)
  => \/ USE_TYPE_CONTAINMENT[deal.proposal.use_type]
          \cap USE_TYPE_CONTAINMENT[deal.policy.max_use_type] = {}
     \/ Reach(deal.proposal.territory) \cap PlacesAllowed(deal.policy) = {}

(* A negotiation gets somewhere: what is countered can be taken, and what  *)
(* is rejected leaves nothing to counter with (negotiation.py:81, 157).    *)
NegotiationConverges == CounterofferCanBeTaken /\ RejectedOnlyIfDisjoint
=============================================================================

------------------------------ MODULE Consent ------------------------------
(***************************************************************************)
(* The consent record every component reads: grant events appended to a    *)
(* log, the validity window of a scope, and the fold that says which grant *)
(* is in force.  Pure definitions; no state.                               *)
(***************************************************************************)
EXTENDS Lattice, Integers

CONSTANTS
  Grants,            \* grant ids
  Works,             \* work ids
  Ops,               \* operation ids (idempotency keys)
  NoOp,              \* the "operation" of an event no revocation produced
  NoEnd,             \* valid_until = None: an open-ended window
  WorkOf,            \* the work each grant is about
  RevokedSortsLast   \* <<op, g>>: at equal instants this event id sorts last

ConsentAssumption ==
  /\ NoOp \notin Ops
  /\ NoEnd \notin Int
  /\ WorkOf \in [Grants -> Works]
  /\ RevokedSortsLast \subseteq Ops \X Grants

ASSUME ConsentAssumed == ConsentAssumption

-----------------------------------------------------------------------------
(* Scopes and grant events.  The dimensions that no operation of the       *)
(* cascade reads (model class, territory, ...) are left to Licensing.      *)

Scope == [use_type : UseTypes, valid_until : Int \cup {NoEnd}]

scope_window_has_closed(scope, at) ==
  scope.valid_until # NoEnd /\ at > scope.valid_until

GrantEvent == [grant : Grants, kind : {"granted", "revoked"},
               op : Ops \cup {NoOp}, at : Int, scope : Scope]

(* In the fold's order, (issued_at, event_id), f comes after the granted    *)
(* event e.  Granted events have distinct instants; a revoked event that    *)
(* shares e's instant is placed by its id.                                 *)
FoldsAfter(f, e) ==
  \/ f.at > e.at
  \/ f.at = e.at /\ f.kind = "revoked" /\ <<f.op, f.grant>> \in RevokedSortsLast

(* Some later event of the same grant ended or replaced what e granted.    *)
Struck(E, e) == \E f \in E : f.grant = e.grant /\ FoldsAfter(f, e)

(* The fold of every grant in the log E: the granted events that define    *)
(* an active scope.  resolve(g) is active iff one of them is g's.          *)
InForce(E) == {e \in E : e.kind = "granted" /\ ~Struck(E, e)}

(* The grants of a work, as the `work_id` filter of a read selects them.   *)
OfWork(E, w) == {e \in E : WorkOf[e.grant] = w}
=============================================================================

-------------------------- MODULE OwnershipPromise --------------------------
(***************************************************************************)
(* What the registry of works promises, without saying how: a work is      *)
(* registered once, by one artist, for good; and a work's grants are       *)
(* revoked only for the artist who holds it at that moment.                *)
(***************************************************************************)
CONSTANTS
  Works,     \* works that may be registered
  Artists,   \* principals that may hold them
  NoArtist   \* the holder of a work that is not registered

VARIABLES
  holder,    \* the artist each work is registered to
  revoked    \* <<artist, work>>: revocations that took effect

Init ==
  /\ holder \in [Works -> Artists \cup {NoArtist}]
  /\ revoked = {}

Register(w, a) ==
  /\ holder[w] = NoArtist
  /\ holder' = [holder EXCEPT ![w] = a]
  /\ UNCHANGED revoked

Revoke(w, a) ==
  /\ holder[w] = a
  /\ revoked' = revoked \cup {<<a, w>>}
  /\ UNCHANGED holder

Next == \E w \in Works, a \in Artists : Register(w, a) \/ Revoke(w, a)

Spec == Init /\ [][Next]_<<holder, revoked>>
=============================================================================

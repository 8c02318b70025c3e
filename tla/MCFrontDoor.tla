---------------------------- MODULE MCFrontDoor ----------------------------
(* Instances of FrontDoor for TLC. *)
EXTENDS FrontDoor, TLC

CONSTANTS w1, w2, ann, bob, acme

Key(who, kind, on) == [bound |-> who, active |-> on, principal_type |-> kind]

\* Two artists, a counterparty, a key that was switched off.
Records == "ann" :> Key(ann, "artist", TRUE) @@ "bob" :> Key(bob, "artist", TRUE)
           @@ "acme" :> Key(acme, "counterparty", TRUE)
           @@ "old" :> Key(ann, "artist", FALSE)

KeyIds == {"ann", "bob", "acme", "old"}

\* ann holds w1 from before; w2 is free.
Registered == {[work |-> w1, artist |-> ann, tier |-> "asserted", by |-> Nobody]}

Ask(kind, key, work, proof) ==
  [kind |-> kind, key |-> key, age |-> 0, signed |-> TRUE, work |-> work, proof |-> proof]

SomeCalls ==
  {Ask("register", "ann", w2, "signed"), Ask("register", "bob", w2, "unverifiable"),
   Ask("register", "bob", w2, "malformed"), 
   Ask("revoke", "bob", w1, "none"), Ask("revoke", "bob", w2, "none"),
   Ask("revoke", "acme", w1, "none"), Ask("revoke", "old", w1, "none")}
  \cup {[Ask("revoke", "ann", w1, "none") EXCEPT !.age = a] : a \in {-2, 1}}

\* The scheduler, at the worker and at the front door.
Strays == {[host |-> h, role |-> "revocation_propagator", email |-> "scheduler",
            aud |-> "front_door", work |-> w1] : h \in {"front_door", "revocation_propagator"}}
=============================================================================

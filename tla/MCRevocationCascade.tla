------------------------ MODULE MCRevocationCascade ------------------------
(* Instances of RevocationCascade for TLC. *)
EXTENDS RevocationCascade, TLC

CONSTANTS g1, g2, w1, o1, o2, c1, c2

Term(u, until) == [use_type |-> u, valid_until |-> until]
Seed(g, scope) == [grant |-> g, kind |-> "granted", op |-> NoOp, at |-> -1,
                   scope |-> scope]

OneWork   == [g \in Grants |-> w1]
InSync    == [c \in Callers |-> 0]
Apart     == [c \in Callers |-> IF c = c1 THEN 0 ELSE -2]
NoTies    == {}
\* g1 permits training for good; g2 permits only fine-tuning, until instant 1.
TwoSeeds  == {Seed(g1, Term("training", NoEnd)), Seed(g2, Term("fine_tuning", 1))}
OneSeed   == {Seed(g1, Term("training", 1))}
Symm      == Permutations(Callers)
Narrower  == {Term("fine_tuning", NoEnd)}
=============================================================================

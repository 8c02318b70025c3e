------------------------- MODULE MCIncidentResponse -------------------------
(* Instances of IncidentResponse for TLC. *)
EXTENDS IncidentResponse, TLC

CONSTANTS g1, g2, g3, w1, w2, p1, p2, i1, o1, o2

Term(u, until) == [use_type |-> u, valid_until |-> until]
Seed(g, scope) == [grant |-> g, kind |-> "granted", op |-> NoOp, at |-> -1,
                   scope |-> scope]

\* g3 is about the work that does not declare against automated access.
TwoWorks   == [g \in Grants |-> IF g = g3 THEN w2 ELSE w1]
Separate   == [g \in Grants |-> IF g = g2 THEN p2 ELSE p1]
AllHis     == [g \in Grants |-> p1]
IncidentOp == [i \in Incidents |-> o1]
NoTies     == {}

\* An access before anything was in flight, and one in the midst of it.
OldAndNew  == {[work |-> w, principal |-> p1, observed_at |-> t] :
                 w \in Works, t \in {0, 2}}
Old        == {[work |-> w1, principal |-> p1, observed_at |-> 0]}
Readers    == {[principal |-> p1, work |-> w, use |-> u] :
                 w \in Works, u \in {"rag_retrieval", "training"}}
SomeUses   == {"rag_retrieval", "training"}

TrainAndRead == {Seed(g1, Term("training", NoEnd)), Seed(g2, Term("rag_retrieval", NoEnd))}
Training     == {Seed(g, Term("training", NoEnd)) : g \in {g1, g2}}
Reading      == {Term("rag_retrieval", NoEnd)}
=============================================================================

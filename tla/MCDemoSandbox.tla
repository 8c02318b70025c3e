--------------------------- MODULE MCDemoSandbox ---------------------------
(* Instances of DemoSandbox for TLC. *)
EXTENDS DemoSandbox, TLC

Ask(use, commercial) ==
  [use_type |-> use, commercial |-> commercial, attribution_required |-> TRUE]

\* The model may read a use inside the seeds' offers or outside them.
SomeReadings == {Ask("training", FALSE), Ask("rag_retrieval", FALSE)}

Recorded == Ask("fine_tuning", FALSE)

SomeClaims == {[offered |-> {"rag_retrieval"}, commercial_ok |-> FALSE,
                attribution_required |-> FALSE]}

SomeUses == {"fine_tuning"}

Named == {BaseWork, Registered(1)}

CONSTANTS r1, r2, r3, r4

\* The session is opened; then two requests overlap, and a last one follows.
Plays ==
  r1 :> {"open"} @@ r2 :> {"ask", "register"}
  @@ r3 :> {"revoke", "register"}
  @@ r4 :> {"register", "ask", "revoke", "evaluate", "interpret", "drill"}

Symmetric == Permutations(Instances)
=============================================================================

-------------------------- MODULE MCEvidenceRecord --------------------------
(* Instances of EvidenceRecord for TLC. *)
EXTENDS EvidenceRecord, TLC

CONSTANTS w1, w2, ann, bob, p1, c1

Visit(path, ip, ua) == [path |-> path, ip |-> ip, user_agent |-> ua, scheduler |-> FALSE]

\* One visitor who may read robots.txt, another who asks for figures, the
\* scheduler, and somebody else at the scheduler's door.
Visits ==
  {Visit("/robots.txt", "x", "crawler"), Visit("/works", "x", "crawler"),
   Visit("/evidence-counts", "y", "browser"),
   Visit("/internal/accrual_audit", "y", "other"),
   [Visit("/internal/accrual_audit", "z", "google-cloud-scheduler")
      EXCEPT !.scheduler = TRUE]}

Work(artist, tier, proof, canary) ==
  [artist_id |-> artist, control_tier |-> tier, control_proof |-> proof,
   canary_string |-> canary]

\* w1 is in the committed corpus.
Seed == w1 :> Work(ann, "asserted", "missing", c1)

\* A row from before the rule that a tier needs its proof, which is silent
\* on its canary.
Legacy == {[work_id |-> w1, row |-> Work(ann, "verified_control", "null", "null")]}

\* A row that proves its tier, and one for an id that is taken.
Rows == {[work_id |-> w2, row |-> Work(ann, "verified_control", p1, "missing")],
         [work_id |-> w1, row |-> Work(bob, "asserted", "null", "missing")]}
=============================================================================

----------------------- MODULE EvidenceRecord_proofs ------------------------
(***************************************************************************)
(* What TLAPS proves of EvidenceRecord, for any number of requests and     *)
(* works, with the services in the process or behind hops, and with any    *)
(* number of hop records: the audit's figure counts visitors, a published  *)
(* count stands, the manifest is honest, and a record that says robots.txt *)
(* was read first tells the truth.                                         *)
(***************************************************************************)
EXTENDS EvidenceRecord, FiniteSetTheorems, TLAPS

-----------------------------------------------------------------------------
(* The inductive invariant. *)

(* The shape of what has no type of its own: an answer may be anything.    *)
ShapeInv ==
  /\ hop = [r \in Requests |-> [op \in Ops |->
              [st |-> hop[r][op].st, ans |-> hop[r][op].ans]]]
  /\ task = [r \in Requests |->
              [at |-> task[r].at, q |-> task[r].q, since |-> task[r].since,
               ans |-> task[r].ans]]

Came     == {r \in Requests : task[r].at # "idle"}
Visitors == {r \in Requests : task[r].at # "idle"
               /\ ~is_self_originated(task[r].q.user_agent)}

(* The records of a log that a third party left.                           *)
Third(E) == {x \in E : ~is_self_originated(x.user_agent)}

(* Everybody who came was logged at most once, and nobody else was.        *)
RecordsInv ==
  /\ IsFiniteSet(access) /\ IsFiniteSet(Came)
  /\ \A x \in access :
       IF x.by = FrontDoorIp THEN is_self_originated(x.user_agent)
       ELSE /\ x.by \in Requests /\ task[x.by].at \notin {"idle", "checking"}
            /\ hop[x.by]["append"].st \in {"none", "done"}
            /\ x.user_agent = task[x.by].q.user_agent
  /\ \A x, y \in access : x.by = y.by /\ x.by # FrontDoorIp => x = y

(* A figure the log supports: no less than it held when r came in, no more *)
(* than it holds, and no more third parties than visitors.                 *)
Supported(r, d) ==
  /\ d \in Counts
  /\ task[r].since.log.total <= d.total /\ d.total <= Cardinality(access)
  /\ task[r].since.log.third_party <= d.third_party
  /\ d.third_party <= Cardinality(Visitors)

FetchedRobots(r) ==
  \/ task[r].q.path = "/robots.txt"
  \/ \E e \in access : e.ip = task[r].q.ip /\ e.path = "/robots.txt"

Kept(r, d) == \E a \in audits : a.by = r /\ a.third_party = d.third_party

(* Rows the registry held at some instant since r came in.                 *)
Registry(r, rows) == task[r].since.works \subseteq rows /\ rows \subseteq works

(* What the calls of a request carry, and bring.                           *)
HopsOf(r) ==
  /\ task[r].at = "idle" => \A op \in Ops : hop[r][op].st = "none"
  /\ task[r].at = "checking" => hop[r]["append"].st = "none"
  /\ hop[r]["check"].st = "done" /\ hop[r]["check"].ans.first => FetchedRobots(r)
  /\ hop[r]["append"].st # "none" =>
       /\ hop[r]["append"].ans.first \in BOOLEAN
       /\ hop[r]["append"].ans.first => FetchedRobots(r)
  /\ hop[r]["serve"].st = "done" =>
       IF task[r].q.path = "/works" THEN Registry(r, hop[r]["serve"].ans.rows)
       ELSE Supported(r, hop[r]["serve"].ans)
  /\ hop[r]["persist"].st # "none" =>
       task[r].q.path = "/internal/accrual_audit" /\ Supported(r, hop[r]["persist"].ans)
  /\ hop[r]["persist"].st = "done" => Kept(r, hop[r]["persist"].ans)

(* What a request was told, beside what it will be held against.           *)
AnswerOf(r) ==
  /\ task[r].since.log.total <= Cardinality(access)
  /\ task[r].since.log.third_party <= Cardinality(Third(access))
  /\ task[r].at = "answered" =>
       /\ task[r].ans.kind = "count" =>
            /\ Supported(r, task[r].ans)
            /\ task[r].q.path = "/internal/accrual_audit" => Kept(r, task[r].ans)
       /\ task[r].ans.kind = "manifest" =>
            \/ task[r].ans.rows = SeedsOnly
            \/ \E rows \in SUBSET works :
                 Registry(r, rows) /\ task[r].ans.rows = Manifest(rows)

RequestInv == \A r \in Requests : HopsOf(r) /\ AnswerOf(r)

AuditInv ==
  \A a \in audits : /\ task[a.by].at # "idle"
                    /\ task[a.by].since.log.third_party <= a.third_party
                    /\ a.third_party <= Cardinality(Visitors)

IInv == TypeOK /\ ShapeInv /\ RecordsInv /\ RequestInv /\ AuditInv

-----------------------------------------------------------------------------
(* Lemmas about the operators. *)

(* A log's figures: its size, and the size of its third-party part.        *)
LEMMA DistributionIs ==
  ASSUME NEW E, IsFiniteSet(E)
  PROVE  /\ Distribution(E).kind = "count"
         /\ Distribution(E).total = Cardinality(E)
         /\ Distribution(E).third_party = Cardinality(Third(E))
         /\ Distribution(E) \in Counts
         /\ IsFiniteSet(Third(E)) /\ Cardinality(Third(E)) \in Nat
         /\ Cardinality(E) \in Nat
<1>1. {x \in E : triage_record(x) \subseteq {"bot", "human", "unknown"}} = Third(E)
  BY DEF Third, triage_record
<1>2. IsFiniteSet(Third(E))
  BY FS_Subset DEF Third
<1>3. Cardinality(E) \in Nat /\ Cardinality(Third(E)) \in Nat
  BY <1>2, FS_CardinalityType
<1> QED
  BY <1>1, <1>2, <1>3 DEF Distribution, Counts

LEMMA NothingCounted ==
  Distribution({}) \in Counts /\ Distribution({}).total = 0 /\ Distribution({}).third_party = 0
<1>1. Third({}) = {}
  BY DEF Third
<1> QED
  BY <1>1, FS_EmptySet, DistributionIs

(* A log that grows has no smaller figures.                                *)
LEMMA FiguresGrow ==
  ASSUME NEW E, NEW F, E \subseteq F, IsFiniteSet(F)
  PROVE  /\ Cardinality(E) <= Cardinality(F)
         /\ Cardinality(Third(E)) <= Cardinality(Third(F))
<1>1. IsFiniteSet(Third(F)) /\ Third(E) \subseteq Third(F)
  BY DistributionIs DEF Third
<1> QED
  BY <1>1, FS_Subset

(* Every third-party record was left by a visitor, who left no other.      *)
LEMMA ThirdPartiesAreVisitors ==
  ASSUME RecordsInv
  PROVE  /\ IsFiniteSet(Visitors) /\ Cardinality(Visitors) \in Nat
         /\ Cardinality(Third(access)) <= Cardinality(Visitors)
<1> DEFINE f == [x \in Third(access) |-> x.by]
<1>1. IsFiniteSet(Visitors)
  <2>1. Visitors \subseteq Came
    BY DEF Visitors, Came
  <2> QED
    BY <2>1, FS_Subset DEF RecordsInv
<1>2. \A x \in Third(access) : x.by # FrontDoorIp /\ x.by \in Visitors
  BY DEF RecordsInv, Third, Visitors
<1>3. \A x, y \in Third(access) : x.by = y.by => x = y
  BY <1>2 DEF RecordsInv, Third
<1>4. f \in Injection(Third(access), Visitors)
  BY <1>2, <1>3 DEF Injection, IsInjective
<1>5. Cardinality(Third(access)) <= Cardinality(Visitors)
  BY <1>1, <1>4, FS_Injection
<1> QED
  BY <1>1, <1>5, FS_CardinalityType

-----------------------------------------------------------------------------
(* The manifest. *)

Tier(s)  == s.row["control_tier"]
Proof(s) == s.row["control_proof"]

(* A row of the manifest before its tier is looked at.                     *)
LEMMA TierIsSupported ==
  ASSUME NEW s, DOMAIN s.row = Fields,
         s = [work_id |-> s.work_id, row |-> s.row, source |-> s.source,
              supplemented |-> s.supplemented,
              registry_unavailable |-> s.registry_unavailable]
  PROVE  /\ TierSupported(s).work_id = s.work_id
         /\ TierSupported(s).source = s.source
         /\ TierSupported(s).supplemented = s.supplemented
         /\ TierSupported(s).registry_unavailable = s.registry_unavailable
         /\ \A f \in Fields \ {"control_tier"} : TierSupported(s).row[f] = s.row[f]
         /\ Tier(TierSupported(s)) = "verified_control" => Proof(TierSupported(s)) \notin Empty
<1> DEFINE t == [s EXCEPT !.row["control_tier"] = "asserted"]
           w == s.work_id
           o == s.row
           c == s.source
           m == s.supplemented
           u == s.registry_unavailable
<1>1. s = [work_id |-> w, row |-> o, source |-> c, supplemented |-> m,
           registry_unavailable |-> u]
  OBVIOUS
<1>2. DOMAIN o = Fields /\ "control_tier" \in Fields /\ "control_proof" \in Fields
  BY DEF Fields
<1>3. /\ t.work_id = s.work_id /\ t.source = s.source /\ t.supplemented = s.supplemented
      /\ t.registry_unavailable = s.registry_unavailable
      /\ t.row = [o EXCEPT !["control_tier"] = "asserted"]
  <2> HIDE DEF w, o, c, m, u
  <2>1. t = [s EXCEPT !.row = [s.row EXCEPT !["control_tier"] = "asserted"]]
    OBVIOUS
  <2>2. s.row = o
    BY DEF o
  <2> QED
    BY <1>1, <2>1, <2>2
<1>4. /\ \A f \in Fields \ {"control_tier"} : t.row[f] = s.row[f]
      /\ t.row["control_tier"] = "asserted"
  BY <1>2, <1>3
<1>5. CASE s.row["control_tier"] = "verified_control" /\ s.row["control_proof"] \in Empty
  <2>1. TierSupported(s) = t
    BY <1>5 DEF TierSupported
  <2> QED
    BY <2>1, <1>3, <1>4 DEF Tier
<1>6. CASE ~(s.row["control_tier"] = "verified_control" /\ s.row["control_proof"] \in Empty)
  <2>1. TierSupported(s) = s
    BY <1>6 DEF TierSupported
  <2> QED
    BY <2>1, <1>6 DEF Tier, Proof
<1> QED
  BY <1>5, <1>6

LEMMA SeededIs ==
  ASSUME NEW w \in DOMAIN seed_corpus
  PROVE  /\ TierSupported(Seeded(w)).work_id = w
         /\ Tier(TierSupported(Seeded(w))) = "verified_control" =>
              Proof(TierSupported(Seeded(w))) \notin Empty
<1> DEFINE s == Seeded(w)
<1>1. DOMAIN seed_corpus[w] = Fields
  BY EvidenceAssumed DEF EvidenceAssumption
<1>2. s = [work_id |-> s.work_id, row |-> s.row, source |-> s.source,
           supplemented |-> s.supplemented,
           registry_unavailable |-> s.registry_unavailable]
  BY DEF Seeded
<1>3. s.row = seed_corpus[w] /\ s.work_id = w
  BY DEF Seeded
<1> QED
  BY <1>1, <1>2, <1>3, TierIsSupported

(* A registered row says what its artist stated, and names what it has     *)
(* from the seed.                                                          *)
LEMMA MergedIs ==
  ASSUME NEW r
  PROVE  LET s == TierSupported(Merged(r)) IN
         /\ s.work_id = r.work_id /\ s.source = "registered"
         /\ Tier(s) = "verified_control" => Proof(s) \notin Empty
         /\ \A f \in Fields \ {"control_tier"} :
              /\ Own(r.row, f) => s.row[f] = r.row[f]
              /\ ~Own(r.row, f) /\ Own(s.row, f) => f \in s.supplemented
<1> DEFINE m == Merged(r)
           live == Live(r.row)
           prior == IF r.work_id \in DOMAIN seed_corpus THEN seed_corpus[r.work_id]
                    ELSE [f \in Fields |-> "missing"]
<1>1. m = [work_id |-> m.work_id, row |-> m.row, source |-> m.source,
           supplemented |-> m.supplemented,
           registry_unavailable |-> m.registry_unavailable]
  BY DEF Merged
<1>2. /\ m.work_id = r.work_id /\ m.source = "registered"
      /\ m.row = [f \in Fields |-> IF live[f] # "missing" THEN live[f] ELSE prior[f]]
      /\ m.supplemented = {f \in Fields : live[f] = "missing" /\ prior[f] # "missing"}
  BY DEF Merged
<1>3. DOMAIN m.row = Fields
  BY <1>2
<1>4. \A f \in Fields :
        /\ Own(r.row, f) => m.row[f] = r.row[f]
        /\ ~Own(r.row, f) /\ m.row[f] \notin Empty => f \in m.supplemented
  <2>1. \A f \in Fields : live[f] = IF r.row[f] = "null" THEN "missing" ELSE r.row[f]
    BY DEF Live
  <2> HIDE DEF live, prior, m
  <2> QED
    BY <1>2, <2>1 DEF Own, Empty
<1> HIDE DEF m, live, prior
<1>5. DEFINE s == TierSupported(m)
<1>6. /\ s.work_id = m.work_id /\ s.source = m.source /\ s.supplemented = m.supplemented
      /\ \A f \in Fields \ {"control_tier"} : s.row[f] = m.row[f]
      /\ Tier(s) = "verified_control" => Proof(s) \notin Empty
  BY <1>1, <1>3, TierIsSupported
<1>7. s = TierSupported(Merged(r))
  BY DEF m
<1> HIDE DEF s
<1> QED
  BY <1>2, <1>4, <1>6, <1>7 DEF Own

(* Among rows with an id of their own, of which none is verified_control   *)
(* without a proof, the tier and the proof route agree.                    *)
LEMMA TierAndProofAgree ==
  ASSUME NEW M,
         \A s, t \in M : s.work_id = t.work_id => s = t,
         \A s \in M : Tier(s) = "verified_control" => Proof(s) \notin Empty,
         NEW s \in M
  PROVE  (s.row["control_tier"] = "verified_control")
           <=> (get_work_proof(M, s.work_id) = "verified")
BY DEF get_work_proof, Tier, Proof

LEMMA ManifestRows ==
  ASSUME NEW rows, \A r, s \in rows : r.work_id = s.work_id => r = s
  PROVE  /\ \A s, t \in Manifest(rows) : s.work_id = t.work_id => s = t
         /\ \A s \in Manifest(rows) : Tier(s) = "verified_control" => Proof(s) \notin Empty
<1> DEFINE A == {TierSupported(Merged(r)) : r \in rows}
           B == {TierSupported(Seeded(w)) :
                   w \in DOMAIN seed_corpus \ {r.work_id : r \in rows}}
<1>1. \A s \in A : \E r \in rows :
        /\ s = TierSupported(Merged(r)) /\ s.work_id = r.work_id
        /\ Tier(s) = "verified_control" => Proof(s) \notin Empty
  BY MergedIs
<1>2. \A s \in B : \E w \in DOMAIN seed_corpus \ {r.work_id : r \in rows} :
        /\ s = TierSupported(Seeded(w)) /\ s.work_id = w
        /\ Tier(s) = "verified_control" => Proof(s) \notin Empty
  BY SeededIs
<1>3. Manifest(rows) = A \cup B
  BY DEF Manifest
<1> HIDE DEF A, B
<1>4. \A s \in A, t \in B : s.work_id # t.work_id
  BY <1>1, <1>2
<1>5. \A s, t \in A : s.work_id = t.work_id => s = t
  BY <1>1
<1>6. \A s, t \in B : s.work_id = t.work_id => s = t
  BY <1>2
<1> QED
  BY <1>1, <1>2, <1>3, <1>4, <1>5, <1>6

(* The seeds on their own, each marked: no committed row claims a control  *)
(* it does not prove.                                                      *)
LEMMA SeedRows ==
  /\ \A s, t \in SeedsOnly : s.work_id = t.work_id => s = t
  /\ \A s \in SeedsOnly : Tier(s) = "verified_control" => Proof(s) \notin Empty
  /\ \A s \in SeedsOnly : s.registry_unavailable
<1>1. \A w \in DOMAIN seed_corpus :
        LET s == [Seeded(w) EXCEPT !.registry_unavailable = TRUE] IN
        s.work_id = w /\ s.row = seed_corpus[w] /\ s.registry_unavailable
  BY DEF Seeded
<1>2. \A s \in SeedsOnly : \E w \in DOMAIN seed_corpus :
        /\ s = [Seeded(w) EXCEPT !.registry_unavailable = TRUE]
        /\ s.work_id = w /\ s.row = seed_corpus[w] /\ s.registry_unavailable
  BY <1>1 DEF SeedsOnly
<1>3. \A w \in DOMAIN seed_corpus :
        seed_corpus[w]["control_tier"] = "verified_control" =>
          seed_corpus[w]["control_proof"] \notin Empty
  BY EvidenceAssumed DEF EvidenceAssumption
<1>4. ASSUME NEW s \in SeedsOnly, NEW t \in SeedsOnly, s.work_id = t.work_id
      PROVE  s = t
  <2>1. PICK w \in DOMAIN seed_corpus :
          s = [Seeded(w) EXCEPT !.registry_unavailable = TRUE] /\ s.work_id = w
    BY <1>2
  <2>2. PICK v \in DOMAIN seed_corpus :
          t = [Seeded(v) EXCEPT !.registry_unavailable = TRUE] /\ t.work_id = v
    BY <1>2
  <2>3. w = v
    BY <1>4, <2>1, <2>2
  <2> QED
    BY <2>1, <2>2, <2>3, Zenon
<1>5. \A s \in SeedsOnly : Tier(s) = "verified_control" => Proof(s) \notin Empty
  BY <1>2, <1>3 DEF Tier, Proof
<1>6. \A s \in SeedsOnly : s.registry_unavailable
  BY <1>2
<1> QED
  BY <1>4, <1>5, <1>6

-----------------------------------------------------------------------------
(* What a step changes of one request, and leaves of the others. *)

Others(r) == \A s \in Requests \ {r} : task'[s] = task[s] /\ hop'[s] = hop[s]

LEMMA OverIs ==
  ASSUME ShapeInv, NEW r \in Requests
  PROVE  /\ Over(r) = [op \in Ops |-> [st |-> Over(r)[op].st, ans |-> Over(r)[op].ans]]
         /\ \A op \in Ops : /\ Over(r)[op] \in {NoHop, hop[r][op]}
                            /\ op \in {"check", "serve"} => Over(r)[op] = NoHop
                            /\ hop[r][op].st \in {"done", "failed"} => Over(r)[op] = NoHop
<1>1. \A op \in Ops : hop[r][op] = [st |-> hop[r][op].st, ans |-> hop[r][op].ans]
  BY DEF ShapeInv
<1>2. NoHop = [st |-> NoHop.st, ans |-> NoHop.ans]
  BY DEF NoHop
<1>3. \A op \in Ops : Over(r)[op] \in {NoHop, hop[r][op]}
  BY DEF Over
<1>4. \A op \in Ops : Over(r)[op] = [st |-> Over(r)[op].st, ans |-> Over(r)[op].ans]
  BY <1>1, <1>2, <1>3
<1>5. DOMAIN Over(r) = Ops /\ Over(r) = [op \in Ops |-> Over(r)[op]]
  BY DEF Over
<1>6. Over(r) = [op \in Ops |-> [st |-> Over(r)[op].st, ans |-> Over(r)[op].ans]]
  BY <1>4, <1>5, Zenon
<1> QED
  BY <1>3, <1>6 DEF Over

LEMMA TaskShape ==
  ASSUME ShapeInv, NEW r \in Requests, NEW a, NEW b, NEW c, NEW d,
         task' = [task EXCEPT ![r] = [at |-> a, q |-> b, since |-> c, ans |-> d]]
  PROVE  /\ task'[r] = [at |-> a, q |-> b, since |-> c, ans |-> d]
         /\ \A s \in Requests \ {r} : task'[s] = task[s]
         /\ task' = [s \in Requests |->
                      [at |-> task'[s].at, q |-> task'[s].q, since |-> task'[s].since,
                       ans |-> task'[s].ans]]
<1>1. DOMAIN task = Requests
  BY DEF ShapeInv
<1>2. \A s \in Requests : task[s] = [at |-> task[s].at, q |-> task[s].q,
                                    since |-> task[s].since, ans |-> task[s].ans]
  BY DEF ShapeInv
<1>3. /\ task'[r] = [at |-> a, q |-> b, since |-> c, ans |-> d]
      /\ \A s \in Requests \ {r} : task'[s] = task[s]
      /\ task' = [s \in Requests |-> task'[s]]
  BY <1>1
<1>4. \A s \in Requests : task'[s] = [at |-> task'[s].at, q |-> task'[s].q,
                                     since |-> task'[s].since, ans |-> task'[s].ans]
  BY <1>2, <1>3
<1> QED
  BY <1>3, <1>4, Zenon

LEMMA HopShape ==
  ASSUME ShapeInv, NEW r \in Requests, NEW h,
         h = [op \in Ops |-> [st |-> h[op].st, ans |-> h[op].ans]],
         hop' = [hop EXCEPT ![r] = h]
  PROVE  /\ hop'[r] = h
         /\ \A s \in Requests \ {r} : hop'[s] = hop[s]
         /\ hop' = [s \in Requests |-> [op \in Ops |->
                     [st |-> hop'[s][op].st, ans |-> hop'[s][op].ans]]]
<1>1. DOMAIN hop = Requests
  BY DEF ShapeInv
<1>2. \A s \in Requests :
        hop[s] = [op \in Ops |-> [st |-> hop[s][op].st, ans |-> hop[s][op].ans]]
  BY DEF ShapeInv
<1>3. /\ hop'[r] = h
      /\ \A s \in Requests \ {r} : hop'[s] = hop[s]
      /\ hop' = [s \in Requests |-> hop'[s]]
  BY <1>1
<1>4. \A s \in Requests :
        hop'[s] = [op \in Ops |-> [st |-> hop'[s][op].st, ans |-> hop'[s][op].ans]]
  <2> SUFFICES ASSUME NEW s \in Requests
               PROVE  hop'[s] = [op \in Ops |-> [st |-> hop'[s][op].st,
                                                 ans |-> hop'[s][op].ans]]
    OBVIOUS
  <2>1. CASE s = r
    BY <1>3, <2>1, Zenon
  <2>2. CASE s # r
    <3>1. hop'[s] = hop[s]
      BY <1>3, <2>2
    <3> QED
      BY <1>2, <3>1, Zenon
  <2> QED
    BY <2>1, <2>2
<1> QED
  BY <1>3, <1>4, Zenon

(* One hop is edited, to a record of its kind.                             *)
LEMMA HopEdited ==
  ASSUME ShapeInv, NEW r \in Requests, NEW op \in Ops, NEW s, NEW a, UNCHANGED task,
         hop' = [hop EXCEPT ![r][op] = [st |-> s, ans |-> a]]
  PROVE  /\ ShapeInv' /\ Others(r)
         /\ hop'[r][op].st = s /\ hop'[r][op].ans = a
         /\ \A o \in Ops \ {op} : hop'[r][o] = hop[r][o]
<1> DEFINE h == [hop[r] EXCEPT ![op] = [st |-> s, ans |-> a]]
<1>1. \A o \in Ops : hop[r][o] = [st |-> hop[r][o].st, ans |-> hop[r][o].ans]
  BY DEF ShapeInv
<1>2. DOMAIN hop[r] = Ops /\ hop[r] = [o \in Ops |-> hop[r][o]]
  <2>1. hop[r] = [o \in Ops |-> [st |-> hop[r][o].st, ans |-> hop[r][o].ans]]
    BY DEF ShapeInv
  <2> QED
    BY <2>1
<1>3. h[op] = [st |-> s, ans |-> a] /\ \A o \in Ops \ {op} : h[o] = hop[r][o]
  BY <1>2
<1>4. h = [o \in Ops |-> h[o]]
  BY <1>2
<1>5. \A o \in Ops : h[o] = [st |-> h[o].st, ans |-> h[o].ans]
  BY <1>1, <1>3
<1>6. h = [o \in Ops |-> [st |-> h[o].st, ans |-> h[o].ans]]
  BY <1>4, <1>5, Zenon
<1>7. hop' = [hop EXCEPT ![r] = h]
  OBVIOUS
<1> HIDE DEF h
<1>8. /\ hop'[r] = h
      /\ \A t \in Requests \ {r} : hop'[t] = hop[t]
      /\ hop' = [t \in Requests |-> [o \in Ops |->
                  [st |-> hop'[t][o].st, ans |-> hop'[t][o].ans]]]
  BY <1>6, <1>7, HopShape
<1>9. ShapeInv'
  BY <1>8 DEF ShapeInv
<1> QED
  BY <1>3, <1>8, <1>9 DEF Others

(* The handler's hops after it called out, or answered.                    *)
LEMMA Answered ==
  ASSUME ShapeInv, NEW r \in Requests, NEW ans, Answer(r, ans)
  PROVE  /\ ShapeInv' /\ Others(r)
         /\ task'[r].at = "answered" /\ task'[r].q = task[r].q
         /\ task'[r].since = task[r].since /\ task'[r].ans = ans
         /\ hop'[r] = Over(r)
<1>1. task' = [task EXCEPT ![r] = [at |-> "answered", q |-> task[r].q,
                                   since |-> task[r].since, ans |-> ans]]
  <2>1. task[r] = [at |-> task[r].at, q |-> task[r].q, since |-> task[r].since,
                   ans |-> task[r].ans] /\ DOMAIN task = Requests
    BY DEF ShapeInv
  <2>2. task' = [task EXCEPT ![r] = [task[r] EXCEPT !.at = "answered", !.ans = ans]]
    BY <2>1 DEF Answer
  <2>3. [task[r] EXCEPT !.at = "answered", !.ans = ans]
          = [at |-> "answered", q |-> task[r].q, since |-> task[r].since, ans |-> ans]
    <3>1. PICK t : t = task[r]
      OBVIOUS
    <3>2. [t EXCEPT !.at = "answered", !.ans = ans]
            = [[t EXCEPT !.at = "answered"] EXCEPT !.ans = ans]
      OBVIOUS
    <3>3. PICK u : u = [t EXCEPT !.at = "answered"]
      OBVIOUS
    <3>4. u = [at |-> "answered", q |-> t.q, since |-> t.since, ans |-> t.ans]
      BY <2>1, <3>1, <3>3
    <3>5. [u EXCEPT !.ans = ans]
            = [at |-> "answered", q |-> t.q, since |-> t.since, ans |-> ans]
      BY <3>4
    <3> QED
      BY <3>1, <3>2, <3>3, <3>5, Zenon
  <2> QED
    BY <2>2, <2>3
<1>2. /\ task'[r] = [at |-> "answered", q |-> task[r].q,
                     since |-> task[r].since, ans |-> ans]
      /\ \A s \in Requests \ {r} : task'[s] = task[s]
      /\ task' = [s \in Requests |->
                   [at |-> task'[s].at, q |-> task'[s].q, since |-> task'[s].since,
                    ans |-> task'[s].ans]]
  BY <1>1, TaskShape
<1>3. /\ hop'[r] = Over(r)
      /\ \A s \in Requests \ {r} : hop'[s] = hop[s]
      /\ hop' = [s \in Requests |-> [op \in Ops |->
                  [st |-> hop'[s][op].st, ans |-> hop'[s][op].ans]]]
  <2>1. hop' = [hop EXCEPT ![r] = Over(r)]
    BY DEF Answer
  <2> QED
    BY <2>1, OverIs, HopShape
<1>4. ShapeInv'
  BY <1>2, <1>3 DEF ShapeInv
<1> QED
  BY <1>2, <1>3, <1>4 DEF Others

LEMMA CalledOut ==
  ASSUME ShapeInv, NEW r \in Requests, NEW op \in Ops, NEW carried,
         NEW a, NEW b, NEW c, NEW d, NEW data,
         carried = [at |-> a, q |-> b, since |-> c, ans |-> d],
         CallOut(r, op, carried, data)
  PROVE  /\ ShapeInv' /\ Others(r)
         /\ task'[r] = [at |-> Phase[op], q |-> b, since |-> c, ans |-> d]
         /\ hop'[r][op] = [st |-> "sent", ans |-> data]
         /\ \A o \in Ops \ {op} : hop'[r][o] = Over(r)[o]
<1>1. task' = [task EXCEPT ![r] = [at |-> Phase[op], q |-> b, since |-> c, ans |-> d]]
  <2>1. \A x : [carried EXCEPT !.at = x] = [at |-> x, q |-> b, since |-> c, ans |-> d]
    OBVIOUS
  <2>2. [carried EXCEPT !.at = Phase[op]]
          = [at |-> Phase[op], q |-> b, since |-> c, ans |-> d]
    BY <2>1
  <2>3. task' = [task EXCEPT ![r] = [carried EXCEPT !.at = Phase[op]]]
    BY DEF CallOut
  <2> QED
    BY <2>2, <2>3, Zenon
<1>2. /\ task'[r] = [at |-> Phase[op], q |-> b, since |-> c, ans |-> d]
      /\ \A s \in Requests \ {r} : task'[s] = task[s]
      /\ task' = [s \in Requests |->
                   [at |-> task'[s].at, q |-> task'[s].q, since |-> task'[s].since,
                    ans |-> task'[s].ans]]
  BY <1>1, TaskShape
<1> DEFINE h == [Over(r) EXCEPT ![op] = [st |-> "sent", ans |-> data]]
<1>3. DOMAIN Over(r) = Ops /\ Over(r) = [o \in Ops |-> Over(r)[o]]
  BY DEF Over
<1>4. h[op] = [st |-> "sent", ans |-> data] /\ \A o \in Ops \ {op} : h[o] = Over(r)[o]
  BY <1>3
<1>5. h = [o \in Ops |-> h[o]]
  BY <1>3
<1>6. \A o \in Ops : h[o] = [st |-> h[o].st, ans |-> h[o].ans]
  <2>1. \A o \in Ops : Over(r)[o] = [st |-> Over(r)[o].st, ans |-> Over(r)[o].ans]
    BY OverIs
  <2> QED
    BY <1>4, <2>1
<1>7. h = [o \in Ops |-> [st |-> h[o].st, ans |-> h[o].ans]]
  BY <1>5, <1>6, Zenon
<1>8. hop' = [hop EXCEPT ![r] = h]
  BY DEF CallOut
<1> HIDE DEF h
<1>9. /\ hop'[r] = h
      /\ \A s \in Requests \ {r} : hop'[s] = hop[s]
      /\ hop' = [s \in Requests |-> [o \in Ops |->
                  [st |-> hop'[s][o].st, ans |-> hop'[s][o].ans]]]
  BY <1>7, <1>8, HopShape
<1>10. ShapeInv'
  BY <1>2, <1>9 DEF ShapeInv
<1> QED
  BY <1>2, <1>4, <1>9, <1>10 DEF Others

-----------------------------------------------------------------------------
(* What others did before stays true. *)

(* A step only adds: records, audits, rows, visitors.                      *)
Grows ==
  /\ access \subseteq access' /\ IsFiniteSet(access')
  /\ works \subseteq works' /\ audits \subseteq audits'
  /\ Visitors \subseteq Visitors' /\ IsFiniteSet(Visitors')

LEMMA Frame ==
  ASSUME IInv, Grows, NEW s \in Requests,
         task'[s].q = task[s].q, task'[s].since = task[s].since
  PROVE  /\ \A d : Supported(s, d) => Supported(s, d)'
         /\ FetchedRobots(s) => FetchedRobots(s)'
         /\ \A d : Kept(s, d) => Kept(s, d)'
         /\ \A rows : Registry(s, rows) => Registry(s, rows)'
         /\ task'[s].since.log.total <= Cardinality(access')
         /\ task'[s].since.log.third_party <= Cardinality(Third(access'))
<1>1. /\ Cardinality(access) <= Cardinality(access')
      /\ Cardinality(Third(access)) <= Cardinality(Third(access'))
  BY FiguresGrow DEF Grows
<1>2. Cardinality(Visitors) <= Cardinality(Visitors')
  BY FS_Subset DEF Grows
<1>3. /\ Cardinality(access) \in Nat /\ Cardinality(access') \in Nat
      /\ Cardinality(Third(access)) \in Nat /\ Cardinality(Third(access')) \in Nat
  BY DistributionIs DEF Grows, IInv, RecordsInv
<1>4. Cardinality(Visitors) \in Nat /\ Cardinality(Visitors') \in Nat
  BY ThirdPartiesAreVisitors, FS_CardinalityType DEF Grows, IInv
<1>5. task[s].since.log.total \in Nat /\ task[s].since.log.third_party \in Nat
  BY DEF IInv, TypeOK, Counts
<1>6. \A d : Supported(s, d) => Supported(s, d)'
  <2>1. \A d \in Counts : d.total \in Nat /\ d.third_party \in Nat
    BY DEF Counts
  <2> QED
    BY <1>1, <1>2, <1>3, <1>4, <1>5, <2>1 DEF Supported
<1>7. FetchedRobots(s) => FetchedRobots(s)'
  BY DEF FetchedRobots, Grows
<1>8. \A d : Kept(s, d) => Kept(s, d)'
  BY DEF Kept, Grows
<1>9. \A rows : Registry(s, rows) => Registry(s, rows)'
  BY DEF Registry, Grows
<1>10. /\ task[s].since.log.total <= Cardinality(access)
       /\ task[s].since.log.third_party <= Cardinality(Third(access))
  BY DEF IInv, RequestInv, AnswerOf
<1>11. /\ task'[s].since.log.total <= Cardinality(access')
       /\ task'[s].since.log.third_party <= Cardinality(Third(access'))
  BY <1>1, <1>3, <1>5, <1>10
<1> QED
  BY <1>6, <1>7, <1>8, <1>9, <1>11

(* An answer that was given stays as good as it was.                       *)
LEMMA AnswerStands ==
  ASSUME IInv, Grows, NEW s \in Requests, task'[s] = task[s]
  PROVE  AnswerOf(s)'
<1>1. /\ \A d : Supported(s, d) => Supported(s, d)'
      /\ \A d : Kept(s, d) => Kept(s, d)'
      /\ \A rows : Registry(s, rows) => Registry(s, rows)'
      /\ task'[s].since.log.total <= Cardinality(access')
      /\ task'[s].since.log.third_party <= Cardinality(Third(access'))
  BY Frame
<1>2. AnswerOf(s)
  BY DEF IInv, RequestInv
<1>3. \A rows \in SUBSET works : rows \in SUBSET works'
  BY DEF Grows
<1> QED
  BY <1>1, <1>2, <1>3 DEF AnswerOf

(* ... and so does what a request's calls bring that did not move.         *)
LEMMA Untouched ==
  ASSUME IInv, Grows, NEW s \in Requests, task'[s] = task[s], hop'[s] = hop[s]
  PROVE  HopsOf(s)' /\ AnswerOf(s)'
<1>1. /\ \A d : Supported(s, d) => Supported(s, d)'
      /\ FetchedRobots(s) => FetchedRobots(s)'
      /\ \A d : Kept(s, d) => Kept(s, d)'
      /\ \A rows : Registry(s, rows) => Registry(s, rows)'
  BY Frame
<1>2. HopsOf(s)
  BY DEF IInv, RequestInv
<1>3. HopsOf(s)'
  BY <1>1, <1>2 DEF HopsOf
<1> QED
  BY <1>3, AnswerStands

LEMMA NobodyNew ==
  ASSUME NEW r \in Requests, Others(r), task'[r].q = task[r].q,
         task[r].at # "idle", task'[r].at # "idle"
  PROVE  Came' = Came /\ Visitors' = Visitors
BY DEF Others, Came, Visitors

(* A step of one request that had come in before.                          *)
LEMMA LocalStep ==
  ASSUME IInv, NEW r \in Requests, UNCHANGED <<split, works>>,
         ShapeInv', Others(r),
         access \subseteq access', audits \subseteq audits',
         task'[r].q = task[r].q, task'[r].since = task[r].since,
         task[r].at # "idle",
         task'[r].at \in {"answered"} \cup {Phase[op] : op \in Ops},
         \A op \in Ops : hop'[r][op].st \in {"none", "sent", "logged", "done", "failed"},
         \A x \in access' \ access :
           /\ x.by \in Requests \cup {FrontDoorIp} /\ x.robots \in BOOLEAN
           /\ x.ip \in Addresses \cup {FrontDoorIp} /\ x.user_agent \in Agents,
         audits' \subseteq [by : Requests, third_party : Nat],
         RecordsInv', AuditInv',
         Grows => HopsOf(r)' /\ AnswerOf(r)'
  PROVE  IInv'
<1>1. task'[r].at # "idle"
  BY DEF Phase, Ops
<1>2. Visitors' = Visitors
  BY <1>1, NobodyNew
<1>3. Grows
  BY <1>2, ThirdPartiesAreVisitors DEF Grows, RecordsInv, IInv
<1>4. RequestInv'
  <2> SUFFICES ASSUME NEW s \in Requests PROVE HopsOf(s)' /\ AnswerOf(s)'
    BY DEF RequestInv
  <2>1. CASE s = r
    BY <1>3, <2>1
  <2>2. CASE s # r
    BY <1>3, <2>2, Untouched DEF Others
  <2> QED
    BY <2>1, <2>2
<1>5. TypeOK'
  <2>1. TypeOK
    BY DEF IInv
  <2>2. split' \in BOOLEAN /\ (works \subseteq Registered \cup Registrations)'
        /\ (\A p, q \in works : p.work_id = q.work_id => p = q)'
    BY <2>1 DEF TypeOK
  <2>3. \A x \in access' :
          /\ x.by \in Requests \cup {FrontDoorIp} /\ x.robots \in BOOLEAN
          /\ x.ip \in Addresses \cup {FrontDoorIp} /\ x.user_agent \in Agents
    BY <2>1 DEF TypeOK
  <2>4. \A s \in Requests, op \in Ops :
          hop'[s][op].st \in {"none", "sent", "logged", "done", "failed"}
    BY <2>1 DEF TypeOK, Others
  <2>5. \A s \in Requests :
          /\ task'[s].at \in {"idle", "answered"} \cup {Phase[op] : op \in Ops}
          /\ task'[s].q \in Queries
          /\ task'[s].since.log \in Counts /\ task'[s].since.works \subseteq works'
    BY <2>1 DEF TypeOK, Others
  <2> QED
    BY <2>2, <2>3, <2>4, <2>5 DEF TypeOK
<1> QED
  BY <1>4, <1>5 DEF IInv

(* The records that are there already, and the audits.                     *)
LEMMA RecordsStay ==
  ASSUME IInv, NEW r \in Requests, Others(r),
         task'[r].q = task[r].q, task'[r].at # "idle",
         \A x \in access : x.by = r => /\ task'[r].at # "checking"
                                       /\ hop'[r]["append"].st \in {"none", "done"}
  PROVE  \A x \in access :
           IF x.by = FrontDoorIp THEN is_self_originated(x.user_agent)
           ELSE /\ x.by \in Requests /\ task'[x.by].at \notin {"idle", "checking"}
                /\ hop'[x.by]["append"].st \in {"none", "done"}
                /\ x.user_agent = task'[x.by].q.user_agent
<1> SUFFICES ASSUME NEW x \in access, x.by # FrontDoorIp
             PROVE  /\ x.by \in Requests /\ task'[x.by].at \notin {"idle", "checking"}
                    /\ hop'[x.by]["append"].st \in {"none", "done"}
                    /\ x.user_agent = task'[x.by].q.user_agent
  BY DEF IInv, RecordsInv
<1>1. CASE x.by = r
  BY <1>1 DEF IInv, RecordsInv
<1>2. CASE x.by # r
  BY <1>2 DEF IInv, RecordsInv, Others
<1> QED
  BY <1>1, <1>2

LEMMA AuditsStay ==
  ASSUME IInv, NEW r \in Requests, Others(r),
         task'[r].q = task[r].q, task'[r].since = task[r].since,
         task[r].at # "idle", task'[r].at # "idle"
  PROVE  \A a \in audits : /\ task'[a.by].at # "idle"
                           /\ task'[a.by].since.log.third_party <= a.third_party
                           /\ a.third_party <= Cardinality(Visitors')
<1>1. Visitors' = Visitors
  BY NobodyNew
<1>2. \A a \in audits : a.by \in Requests
  BY DEF IInv, TypeOK
<1>3. \A a \in audits : task'[a.by].at # "idle" /\ task'[a.by].since = task[a.by].since
  BY <1>2 DEF IInv, AuditInv, Others
<1> QED
  BY <1>1, <1>3 DEF IInv, AuditInv

(* ... that appends nothing.                                               *)
LEMMA QuietStep ==
  ASSUME IInv, NEW r \in Requests, UNCHANGED <<split, access, audits, works>>,
         ShapeInv', Others(r),
         task'[r].q = task[r].q, task'[r].since = task[r].since,
         task[r].at # "idle",
         task'[r].at \in {"answered"} \cup {Phase[op] : op \in Ops},
         \A op \in Ops : hop'[r][op].st \in {"none", "sent", "logged", "done", "failed"},
         \A x \in access : x.by = r => /\ task'[r].at # "checking"
                                       /\ hop'[r]["append"].st \in {"none", "done"},
         Grows => HopsOf(r)' /\ AnswerOf(r)'
  PROVE  IInv'
<1>1. task'[r].at # "idle"
  BY DEF Phase, Ops
<1>2. RecordsInv'
  <2>1. Came' = Came
    BY <1>1, NobodyNew
  <2> QED
    BY <1>1, <2>1, RecordsStay DEF IInv, RecordsInv
<1>3. AuditInv'
  BY <1>1, AuditsStay DEF AuditInv
<1>4. audits' \subseteq [by : Requests, third_party : Nat]
  BY DEF IInv, TypeOK
<1> QED
  BY <1>2, <1>3, <1>4, LocalStep

-----------------------------------------------------------------------------
(* A handler goes on. *)

(* The answer that is left of a call: one that was answered is over.       *)
LEMMA LeftOver ==
  ASSUME IInv, NEW r \in Requests
  PROVE  /\ \A op \in Ops : Over(r)[op].st \in {"none", "sent", "logged"}
         /\ Over(r)["check"].st = "none" /\ Over(r)["serve"].st = "none"
         /\ \A op \in Ops : Over(r)[op].st # "none" => Over(r)[op] = hop[r][op]
<1>1. \A op \in Ops :
        hop[r][op].st \in {"none", "sent", "logged", "done", "failed"}
  BY DEF IInv, TypeOK
<1>2. \A op \in Ops : /\ Over(r)[op] \in {NoHop, hop[r][op]}
                      /\ op \in {"check", "serve"} => Over(r)[op] = NoHop
                      /\ hop[r][op].st \in {"done", "failed"} => Over(r)[op] = NoHop
  BY OverIs DEF IInv
<1>3. NoHop.st = "none"
  BY DEF NoHop
<1>4. \A op \in Ops : Over(r)[op].st \in {"none", "sent", "logged"}
  BY <1>1, <1>2, <1>3
<1>5. \A op \in Ops : Over(r)[op].st # "none" => Over(r)[op] = hop[r][op]
  BY <1>2, <1>3
<1> QED
  BY <1>2, <1>3, <1>4, <1>5 DEF Ops

LEMMA AnswerInv ==
  ASSUME IInv, NEW r \in Requests, NEW ans, Answer(r, ans),
         UNCHANGED <<split, access, audits, works>>,
         task[r].at # "idle",
         ans.kind = "count" =>
           /\ Supported(r, ans)
           /\ task[r].q.path = "/internal/accrual_audit" => Kept(r, ans),
         ans.kind = "manifest" =>
           \/ ans.rows = SeedsOnly
           \/ \E rows \in SUBSET works : Registry(r, rows) /\ ans.rows = Manifest(rows)
  PROVE  IInv'
<1>1. /\ ShapeInv' /\ Others(r)
      /\ task'[r].at = "answered" /\ task'[r].q = task[r].q
      /\ task'[r].since = task[r].since /\ task'[r].ans = ans
      /\ hop'[r] = Over(r)
  BY Answered DEF IInv
<1>2. /\ \A op \in Ops : hop'[r][op].st \in {"none", "sent", "logged"}
      /\ hop'[r]["check"].st = "none" /\ hop'[r]["serve"].st = "none"
      /\ \A op \in Ops : hop'[r][op].st # "none" => hop'[r][op] = hop[r][op]
  BY <1>1, LeftOver
<1>3. ASSUME NEW x \in access, x.by = r
      PROVE  task'[r].at # "checking" /\ hop'[r]["append"].st \in {"none", "done"}
  <2>1. hop[r]["append"].st \in {"none", "done"}
    BY <1>3, EvidenceAssumed DEF IInv, RecordsInv, EvidenceAssumption
  <2> QED
    BY <1>1, <1>2, <2>1 DEF Ops
<1>4. ASSUME Grows PROVE HopsOf(r)' /\ AnswerOf(r)'
  <2>1. /\ \A d : Supported(r, d) => Supported(r, d)'
        /\ FetchedRobots(r) => FetchedRobots(r)'
        /\ \A d : Kept(r, d) => Kept(r, d)'
        /\ \A rows : Registry(r, rows) => Registry(r, rows)'
        /\ task'[r].since.log.total <= Cardinality(access')
        /\ task'[r].since.log.third_party <= Cardinality(Third(access'))
    BY <1>1, <1>4, Frame
  <2>2. HopsOf(r)
    BY DEF IInv, RequestInv
  <2>3. HopsOf(r)'
    BY <1>1, <1>2, <2>1, <2>2 DEF HopsOf, Ops
  <2>4. AnswerOf(r)'
    BY <1>1, <2>1 DEF AnswerOf
  <2> QED
    BY <2>3, <2>4
<1> QED
  BY <1>1, <1>2, <1>3, <1>4, QuietStep

LEMMA CallOutInv ==
  ASSUME IInv, NEW r \in Requests, NEW op \in Ops \ {"check"}, NEW data,
         CallOut(r, op, task[r], data),
         UNCHANGED <<split, access, audits, works>>,
         task[r].at # "idle",
         op = "append" <=> task[r].at = "checking",
         op = "append" =>
           /\ data.first \in BOOLEAN
           /\ data.first => FetchedRobots(r),
         op = "persist" => task[r].q.path = "/internal/accrual_audit" /\ Supported(r, data)
  PROVE  IInv'
<1>1. /\ ShapeInv' /\ Others(r)
      /\ task'[r] = [at |-> Phase[op], q |-> task[r].q, since |-> task[r].since,
                     ans |-> task[r].ans]
      /\ hop'[r][op] = [st |-> "sent", ans |-> data]
      /\ \A o \in Ops \ {op} : hop'[r][o] = Over(r)[o]
  <2>1. task[r] = [at |-> task[r].at, q |-> task[r].q, since |-> task[r].since,
                   ans |-> task[r].ans]
    BY DEF IInv, ShapeInv
  <2> QED
    BY <2>1, CalledOut DEF IInv
<1>2. /\ task'[r].at = Phase[op] /\ task'[r].q = task[r].q
      /\ task'[r].since = task[r].since
      /\ hop'[r][op].st = "sent" /\ hop'[r][op].ans = data
  BY <1>1
<1>3. /\ \A o \in Ops \ {op} : hop'[r][o].st \in {"none", "sent", "logged"}
      /\ hop'[r]["check"].st = "none" /\ hop'[r]["serve"].st \in {"none", "sent"}
      /\ \A o \in Ops \ {op} : hop'[r][o].st # "none" => hop'[r][o] = hop[r][o]
  BY <1>1, <1>2, LeftOver DEF Ops
<1>4. task'[r].at \in {"appending", "serving", "persisting"}
  BY <1>2 DEF Phase, Ops
<1>5. ASSUME NEW x \in access, x.by = r
      PROVE  task'[r].at # "checking" /\ hop'[r]["append"].st \in {"none", "done"}
  <2>1. hop[r]["append"].st \in {"none", "done"} /\ task[r].at # "checking"
    BY <1>5, EvidenceAssumed DEF IInv, RecordsInv, EvidenceAssumption
  <2>2. op # "append"
    BY <2>1
  <2> QED
    BY <1>3, <1>4, <2>1, <2>2 DEF Ops
<1>6. ASSUME Grows PROVE HopsOf(r)' /\ AnswerOf(r)'
  <2>1. /\ \A d : Supported(r, d) => Supported(r, d)'
        /\ FetchedRobots(r) => FetchedRobots(r)'
        /\ \A d : Kept(r, d) => Kept(r, d)'
        /\ task'[r].since.log.total <= Cardinality(access')
        /\ task'[r].since.log.third_party <= Cardinality(Third(access'))
    BY <1>2, <1>6, Frame
  <2>2. HopsOf(r)
    BY DEF IInv, RequestInv
  <2>3. hop'[r]["append"].st # "none" =>
          /\ hop'[r]["append"].ans.first \in BOOLEAN
          /\ hop'[r]["append"].ans.first => FetchedRobots(r)'
    BY <1>2, <1>3, <2>1, <2>2 DEF HopsOf, Ops
  <2>4. HopsOf(r)'
    BY <1>2, <1>3, <1>4, <2>1, <2>2, <2>3 DEF HopsOf, Ops
  <2>5. AnswerOf(r)'
    BY <1>4, <2>1 DEF AnswerOf
  <2> QED
    BY <2>4, <2>5
<1>7. \A o \in Ops : hop'[r][o].st \in {"none", "sent", "logged", "done", "failed"}
  BY <1>2, <1>3
<1>8. task'[r].at \in {"answered"} \cup {Phase[o] : o \in Ops}
  BY <1>2
<1> QED
  BY <1>2, <1>1, <1>5, <1>6, <1>7, <1>8, QuietStep

(* Whatever the call brought: an answer is used only where there is one.   *)
LEMMA ContinueInv ==
  ASSUME IInv, NEW r \in Requests, NEW op \in Ops, NEW ok \in BOOLEAN,
         Waiting(r, op), ok => hop[r][op].st = "done", Continue(r, op, ok),
         UNCHANGED <<split, access, audits, works>>
  PROVE  IInv'
<1>1. PICK ans : ans = hop[r][op].ans
  OBVIOUS
<1>2. task[r].at = Phase[op] /\ task[r].at # "idle"
  BY DEF Waiting, Phase, Ops
<1>3. HopsOf(r)
  BY DEF IInv, RequestInv
<1>4. task[r].at = "checking" <=> op = "check"
  BY <1>2 DEF Phase, Ops
<1>5. CASE op = "check" /\ Checked(r, ok, ans)
  <2> DEFINE data == [kind |-> "fetched", first |-> RobotsFlag(task[r].q, ok, ans)]
  <2>1. CallOut(r, "append", task[r], data)
    BY <1>5 DEF Checked
  <2>2. data.first \in BOOLEAN
    BY DEF RobotsFlag
  <2>3. data.first => FetchedRobots(r)
    BY <1>1, <1>3, <1>5 DEF RobotsFlag, HopsOf, FetchedRobots
  <2>4. task[r].at = "checking"
    BY <1>4, <1>5
  <2> HIDE DEF data
  <2> QED
    BY <1>2, <2>1, <2>2, <2>3, <2>4, CallOutInv DEF Ops
<1>6. CASE op = "append" /\ Served(r)
  <2>1. \/ Answer(r, [kind |-> "ok"]) \/ Answer(r, [kind |-> "denied"])
        \/ CallOut(r, "serve", task[r], NoAnswer)
    BY <1>6 DEF Served
  <2>2. CASE Answer(r, [kind |-> "ok"])
    BY <1>2, <2>2, AnswerInv
  <2>3. CASE Answer(r, [kind |-> "denied"])
    BY <1>2, <2>3, AnswerInv
  <2>4. CASE CallOut(r, "serve", task[r], NoAnswer)
    BY <1>2, <1>4, <1>6, <2>4, CallOutInv DEF Ops
  <2> QED
    BY <2>1, <2>2, <2>3, <2>4
<1>7. CASE op = "serve" /\ task[r].q.path = "/works" /\ AnswerManifest(r, ok, ans)
  <2>1. PICK a : a = [kind |-> "manifest", rows |-> IF ok THEN Manifest(ans.rows) ELSE SeedsOnly]
    OBVIOUS
  <2>2. Answer(r, a)
    BY <1>7, <2>1 DEF AnswerManifest
  <2>3. a.kind = "manifest" /\ a.rows = IF ok THEN Manifest(ans.rows) ELSE SeedsOnly
    BY <2>1
  <2>4. ok => Registry(r, ans.rows) /\ ans.rows \in SUBSET works
    BY <1>1, <1>3, <1>7 DEF HopsOf, Registry
  <2> QED
    BY <1>2, <2>2, <2>3, <2>4, AnswerInv
<1>8. CASE op = "serve" /\ task[r].q.path = "/evidence-counts" /\ AnswerCounts(r, ok, ans)
  <2>1. CASE ok
    <3>1. Supported(r, ans)
      BY <1>1, <1>3, <1>8, <2>1 DEF HopsOf
    <3>2. ans.kind = "count"
      BY <3>1 DEF Supported, Counts
    <3>3. Answer(r, ans)
      BY <1>8, <2>1 DEF AnswerCounts
    <3> QED
      BY <1>2, <1>8, <3>1, <3>2, <3>3, AnswerInv
  <2>2. CASE ~ok
    BY <1>2, <1>8, <2>2, AnswerInv DEF AnswerCounts
  <2> QED
    BY <2>1, <2>2
<1>9. CASE /\ op = "serve" /\ task[r].q.path = "/internal/accrual_audit"
           /\ KeepAudit(r, ok, ans)
  <2>1. CASE ok
    <3>1. Supported(r, ans)
      BY <1>1, <1>3, <1>9, <2>1 DEF HopsOf
    <3>2. CallOut(r, "persist", task[r], ans)
      BY <1>9, <2>1 DEF KeepAudit
    <3> QED
      BY <1>2, <1>4, <1>9, <3>1, <3>2, CallOutInv DEF Ops
  <2>2. CASE ~ok
    BY <1>2, <1>9, <2>2, AnswerInv DEF KeepAudit
  <2> QED
    BY <2>1, <2>2
<1>10. CASE op = "persist" /\ Audited(r, ok, ans)
  <2>1. CASE ok
    <3>1. Supported(r, ans) /\ Kept(r, ans)
      BY <1>1, <1>3, <1>10, <2>1 DEF HopsOf
    <3>2. ans.kind = "count"
      BY <3>1 DEF Supported, Counts
    <3>3. Answer(r, ans)
      BY <1>10, <2>1 DEF Audited
    <3> QED
      BY <1>2, <3>1, <3>2, <3>3, AnswerInv
  <2>2. CASE ~ok
    BY <1>2, <1>10, <2>2, AnswerInv DEF Audited
  <2> QED
    BY <2>1, <2>2
<1> QED
  BY <1>1, <1>5, <1>6, <1>7, <1>8, <1>9, <1>10 DEF Continue

LEMMA ReceiveInv ==
  ASSUME IInv, NEW r \in Requests, NEW op \in Ops, Receive(r, op)
  PROVE  IInv'
<1>1. PICK ok \in BOOLEAN : ok = (hop[r][op].st = "done")
  OBVIOUS
<1>2. Waiting(r, op) /\ UNCHANGED <<split, access, audits, works>>
  BY DEF Receive
<1>3. Continue(r, op, ok)
  BY <1>1 DEF Receive
<1> QED
  BY <1>1, <1>2, <1>3, ContinueInv

LEMMA GiveUpInv ==
  ASSUME IInv, NEW r \in Requests, NEW op \in Ops, GiveUp(r, op)
  PROVE  IInv'
<1>1. Waiting(r, op) /\ Continue(r, op, FALSE) /\ UNCHANGED <<split, access, audits, works>>
  BY DEF GiveUp
<1> QED
  BY <1>1, ContinueInv

(* The registry takes a row under an id it does not hold.                  *)
LEMMA RegisterInv ==
  ASSUME IInv, NEW row \in Registrations, Register(row)
  PROVE  IInv'
<1> USE DEF Register
<1>1. Grows
  BY ThirdPartiesAreVisitors DEF Grows, IInv, RecordsInv, Visitors
<1>2. RequestInv'
  BY <1>1, Untouched DEF RequestInv
<1>3. TypeOK'
  BY DEF IInv, TypeOK
<1>4. ShapeInv'
  BY DEF IInv, ShapeInv
<1>5. RecordsInv'
  BY DEF IInv, RecordsInv, Came
<1>6. AuditInv'
  BY DEF IInv, AuditInv, Visitors
<1> QED
  BY <1>2, <1>3, <1>4, <1>5, <1>6 DEF IInv

-----------------------------------------------------------------------------
(* A service works on a call. *)

LEMMA DoneIs ==
  ASSUME ShapeInv, NEW r \in Requests, NEW op \in Ops, NEW ans, UNCHANGED task,
         Done(r, op, ans)
  PROVE  /\ ShapeInv' /\ Others(r)
         /\ \/ hop'[r][op].st = "done" /\ hop'[r][op].ans = ans
            \/ hop'[r][op].st = "none"
         /\ \A o \in Ops \ {op} : hop'[r][o] = hop[r][o]
<1>1. CASE Waiting(r, op)
  <2>1. hop' = [hop EXCEPT ![r][op] = [st |-> "done", ans |-> ans]]
    BY <1>1 DEF Done
  <2>2. /\ ShapeInv' /\ Others(r)
        /\ hop'[r][op].st = "done" /\ hop'[r][op].ans = ans
        /\ \A o \in Ops \ {op} : hop'[r][o] = hop[r][o]
    BY <2>1, HopEdited, Zenon
  <2> QED
    BY <2>2
<1>2. CASE ~Waiting(r, op)
  <2>1. hop' = [hop EXCEPT ![r][op] = [st |-> "none", ans |-> NoAnswer]]
    BY <1>2 DEF Done, NoHop
  <2>2. /\ ShapeInv' /\ Others(r)
        /\ hop'[r][op].st = "none" /\ hop'[r][op].ans = NoAnswer
        /\ \A o \in Ops \ {op} : hop'[r][o] = hop[r][o]
    BY <2>1, HopEdited, Zenon
  <2> QED
    BY <2>2
<1> QED
  BY <1>1, <1>2

LEMMA Moved ==
  ASSUME ShapeInv, NEW r \in Requests, NEW op \in Ops, NEW st, UNCHANGED task
  PROVE  hop' = [hop EXCEPT ![r][op].st = st] =>
         /\ ShapeInv' /\ Others(r)
         /\ hop'[r][op].st = st /\ hop'[r][op].ans = hop[r][op].ans
         /\ \A o \in Ops \ {op} : hop'[r][o] = hop[r][o]
<1>1. hop[r][op] = [st |-> hop[r][op].st, ans |-> hop[r][op].ans]
  BY DEF ShapeInv
<1>2. PICK h, a : h = hop[r][op] /\ a = h.ans
  OBVIOUS
<1>3. [h EXCEPT !.st = st] = [st |-> st, ans |-> a]
  BY <1>1, <1>2
<1>4. hop' = [hop EXCEPT ![r][op].st = st] =>
        hop' = [hop EXCEPT ![r][op] = [h EXCEPT !.st = st]]
  BY <1>2, Zenon
<1>5. hop' = [hop EXCEPT ![r][op].st = st] =>
        hop' = [hop EXCEPT ![r][op] = [st |-> st, ans |-> a]]
  BY <1>3, <1>4, Zenon
<1>6. ASSUME hop' = [hop EXCEPT ![r][op] = [st |-> st, ans |-> a]]
      PROVE  /\ ShapeInv' /\ Others(r)
             /\ hop'[r][op].st = st /\ hop'[r][op].ans = a
             /\ \A o \in Ops \ {op} : hop'[r][o] = hop[r][o]
  BY <1>6, HopEdited, Zenon
<1> QED
  BY <1>2, <1>5, <1>6, Zenon

LEMMA ReadyIs ==
  ASSUME IInv, NEW r \in Requests, NEW op \in Ops, hop[r][op].st \in {"sent", "logged"}
  PROVE  /\ task[r].at \in {"answered"} \cup {Phase[o] : o \in Ops}
         /\ task[r].at # "idle"
         /\ op = "append" =>
              task[r].at # "checking" /\ \A x \in access : x.by # r
         /\ \A x \in access : x.by = r => /\ task[r].at # "checking"
                                         /\ hop[r]["append"].st \in {"none", "done"}
<1>1. HopsOf(r)
  BY DEF IInv, RequestInv
<1>2. task[r].at # "idle"
  BY <1>1 DEF HopsOf
<1>3. task[r].at \in {"answered"} \cup {Phase[o] : o \in Ops}
  BY <1>2 DEF IInv, TypeOK
<1>4. \A x \in access : x.by = r => /\ task[r].at # "checking"
                                   /\ hop[r]["append"].st \in {"none", "done"}
  BY EvidenceAssumed DEF IInv, RecordsInv, EvidenceAssumption
<1> QED
  BY <1>1, <1>2, <1>3, <1>4 DEF HopsOf

(* A call's progress that appends nothing.                                 *)
LEMMA CallInv ==
  ASSUME IInv, NEW r \in Requests, NEW op \in Ops, hop[r][op].st \in {"sent", "logged"},
         UNCHANGED <<split, access, audits, works, task>>,
         ShapeInv', Others(r),
         \A o \in Ops \ {op} : hop'[r][o] = hop[r][o],
         hop'[r][op].st \in {"none", "sent", "logged", "done", "failed"},
         Grows => HopsOf(r)'
  PROVE  IInv'
<1>1. /\ task[r].at \in {"answered"} \cup {Phase[o] : o \in Ops}
      /\ task[r].at # "idle"
      /\ \A x \in access : x.by = r => /\ task[r].at # "checking"
                                      /\ hop[r]["append"].st \in {"none", "done"}
      /\ op = "append" => \A x \in access : x.by # r
  BY ReadyIs
<1>2. \A o \in Ops : hop'[r][o].st \in {"none", "sent", "logged", "done", "failed"}
  BY DEF IInv, TypeOK
<1>3. \A x \in access : x.by = r => /\ task'[r].at # "checking"
                                   /\ hop'[r]["append"].st \in {"none", "done"}
  BY <1>1 DEF Ops
<1>4. Grows => HopsOf(r)' /\ AnswerOf(r)'
  BY AnswerStands
<1> QED
  BY <1>1, <1>2, <1>3, <1>4, QuietStep

LEMMA CheckInv ==
  ASSUME IInv, NEW r \in Requests, Check(r)
  PROVE  IInv'
<1> DEFINE a == [kind |-> "fetched", first |->
                   \E x \in access : x.ip = task[r].q.ip /\ x.path = "/robots.txt"]
<1>1. Done(r, "check", a) /\ UNCHANGED <<split, access, audits, works, task>>
  BY DEF Check
<1>2. a.first => FetchedRobots(r)
  BY DEF FetchedRobots
<1>3. hop[r]["check"].st \in {"sent", "logged"}
  BY DEF Check, Ready
<1> HIDE DEF a
<1>4. /\ ShapeInv' /\ Others(r)
      /\ \/ hop'[r]["check"].st = "done" /\ hop'[r]["check"].ans = a
         \/ hop'[r]["check"].st = "none"
      /\ \A o \in Ops \ {"check"} : hop'[r][o] = hop[r][o]
  BY <1>1, DoneIs DEF IInv, Ops
<1>5. ASSUME Grows PROVE HopsOf(r)'
  <2>1. /\ \A d : Supported(r, d) => Supported(r, d)'
        /\ FetchedRobots(r) => FetchedRobots(r)'
        /\ \A d : Kept(r, d) => Kept(r, d)'
        /\ \A rows : Registry(r, rows) => Registry(r, rows)'
    BY <1>1, <1>5, Frame
  <2>2. HopsOf(r) /\ task[r].at # "idle"
    BY <1>3, ReadyIs DEF IInv, RequestInv, Ops
  <2> QED
    BY <1>1, <1>2, <1>4, <2>1, <2>2 DEF HopsOf, Ops
<1> QED
  BY <1>1, <1>3, <1>4, <1>5, CallInv DEF Ops

(* A snapshot of the log, as it is now.                                    *)
LEMMA SnapshotIsSupported ==
  ASSUME IInv, NEW r \in Requests
  PROVE  Supported(r, Distribution(access))
<1>1. /\ Distribution(access).total = Cardinality(access)
      /\ Distribution(access).third_party = Cardinality(Third(access))
      /\ Distribution(access) \in Counts
      /\ Cardinality(Third(access)) \in Nat /\ Cardinality(access) \in Nat
  BY DistributionIs DEF IInv, RecordsInv
<1>2. Cardinality(Third(access)) <= Cardinality(Visitors)
  BY ThirdPartiesAreVisitors DEF IInv
<1>3. /\ task[r].since.log.total <= Cardinality(access)
      /\ task[r].since.log.third_party <= Cardinality(Third(access))
  BY DEF IInv, RequestInv, AnswerOf
<1> QED
  BY <1>1, <1>2, <1>3 DEF Supported

LEMMA ServeInv ==
  ASSUME IInv, NEW r \in Requests, Serve(r)
  PROVE  IInv'
<1> DEFINE a == IF task[r].q.path = "/works" THEN [kind |-> "rows", rows |-> works]
                ELSE Distribution(access)
<1>1. Done(r, "serve", a) /\ UNCHANGED <<split, access, audits, works, task>>
  BY DEF Serve
<1>2. hop[r]["serve"].st \in {"sent", "logged"}
  BY DEF Serve, Ready
<1>3. IF task[r].q.path = "/works" THEN Registry(r, a.rows) ELSE Supported(r, a)
  <2>1. task[r].since.works \subseteq works
    BY DEF IInv, TypeOK
  <2> QED
    BY <2>1, SnapshotIsSupported DEF Registry
<1> HIDE DEF a
<1>4. /\ ShapeInv' /\ Others(r)
      /\ \/ hop'[r]["serve"].st = "done" /\ hop'[r]["serve"].ans = a
         \/ hop'[r]["serve"].st = "none"
      /\ \A o \in Ops \ {"serve"} : hop'[r][o] = hop[r][o]
  BY <1>1, DoneIs DEF IInv, Ops
<1>5. ASSUME Grows PROVE HopsOf(r)'
  <2>1. PICK b : b = a
    OBVIOUS
  <2>2. /\ \A d : Supported(r, d) => Supported(r, d)'
        /\ FetchedRobots(r) => FetchedRobots(r)'
        /\ \A d : Kept(r, d) => Kept(r, d)'
        /\ \A rows : Registry(r, rows) => Registry(r, rows)'
    BY <1>1, <1>5, Frame
  <2>3. HopsOf(r) /\ task[r].at # "idle"
    BY <1>2, ReadyIs DEF IInv, RequestInv, Ops
  <2>4. IF task'[r].q.path = "/works" THEN Registry(r, b.rows)' ELSE Supported(r, b)'
    BY <1>1, <1>3, <2>1, <2>2
  <2> QED
    BY <1>1, <1>4, <2>1, <2>2, <2>3, <2>4 DEF HopsOf, Ops
<1> QED
  BY <1>1, <1>2, <1>4, <1>5, CallInv DEF Ops

LEMMA RefuseInv ==
  ASSUME IInv, NEW r \in Requests, NEW op \in Ops, Refuse(r, op)
  PROVE  IInv'
<1>1. /\ hop' = [hop EXCEPT ![r][op].st = "failed"]
      /\ UNCHANGED <<split, access, audits, works, task>>
      /\ hop[r][op].st \in {"sent", "logged"}
  BY DEF Refuse, Ready
<1>2. task[r].at = Phase[op]
  BY DEF Refuse, Waiting
<1>3. /\ ShapeInv' /\ Others(r)
      /\ hop'[r][op].st = "failed" /\ hop'[r][op].ans = hop[r][op].ans
      /\ \A o \in Ops \ {op} : hop'[r][o] = hop[r][o]
  BY <1>1, Moved DEF IInv
<1>4. ASSUME Grows PROVE HopsOf(r)'
  <2>1. /\ \A d : Supported(r, d) => Supported(r, d)'
        /\ FetchedRobots(r) => FetchedRobots(r)'
        /\ \A d : Kept(r, d) => Kept(r, d)'
        /\ \A rows : Registry(r, rows) => Registry(r, rows)'
    BY <1>1, <1>4, Frame
  <2>2. HopsOf(r) /\ task[r].at # "idle" /\ (op = "append" => task[r].at # "checking")
    BY <1>1, ReadyIs DEF IInv, RequestInv
  <2> QED
    BY <1>1, <1>3, <2>1, <2>2 DEF HopsOf, Ops
<1> QED
  BY <1>1, <1>3, <1>4, CallInv

(* The audit that is kept has the figures of its snapshot.                 *)
LEMMA PersistInv ==
  ASSUME IInv, NEW r \in Requests, Persist(r)
  PROVE  IInv'
<1>1. PICK ans : ans = hop[r]["persist"].ans
  OBVIOUS
<1>2. PICK d : d = [by |-> r, third_party |-> ans.third_party]
  OBVIOUS
<1>3. /\ audits' = audits \cup {d} /\ Done(r, "persist", ans)
      /\ UNCHANGED <<split, access, works, task>>
      /\ hop[r]["persist"].st \in {"sent", "logged"}
  BY <1>1, <1>2 DEF Persist, Ready
<1>4. /\ ShapeInv' /\ Others(r)
      /\ \/ hop'[r]["persist"].st = "done" /\ hop'[r]["persist"].ans = ans
         \/ hop'[r]["persist"].st = "none"
      /\ \A o \in Ops \ {"persist"} : hop'[r][o] = hop[r][o]
  BY <1>3, DoneIs DEF IInv, Ops
<1>5. /\ task[r].at \in {"answered"} \cup {Phase[o] : o \in Ops}
      /\ task[r].at # "idle"
      /\ \A x \in access : x.by = r => /\ task[r].at # "checking"
                                      /\ hop[r]["append"].st \in {"none", "done"}
  BY <1>3, ReadyIs DEF Ops
<1>6. task[r].q.path = "/internal/accrual_audit" /\ Supported(r, ans) /\ HopsOf(r)
  BY <1>1, <1>3 DEF IInv, RequestInv, HopsOf
<1>7. d.by = r /\ d.third_party = ans.third_party /\ d \in [by : Requests, third_party : Nat]
  BY <1>2, <1>6 DEF Supported, Counts
<1>8. audits' \subseteq [by : Requests, third_party : Nat]
  BY <1>3, <1>7 DEF IInv, TypeOK
<1>9. Visitors' = Visitors /\ Came' = Came
  BY <1>3, <1>4, <1>5, NobodyNew
<1>10. RecordsInv'
  <2>1. \A x \in access : x.by = r => /\ task'[r].at # "checking"
                                     /\ hop'[r]["append"].st \in {"none", "done"}
    BY <1>3, <1>4, <1>5 DEF Ops
  <2> QED
    BY <1>3, <1>4, <1>5, <1>9, <2>1, RecordsStay DEF IInv, RecordsInv
<1>11. AuditInv'
  <2>1. \A a \in audits : /\ task'[a.by].at # "idle"
                          /\ task'[a.by].since.log.third_party <= a.third_party
                          /\ a.third_party <= Cardinality(Visitors')
    BY <1>3, <1>4, <1>5, AuditsStay
  <2>2. /\ task'[d.by].at # "idle"
        /\ task'[d.by].since.log.third_party <= d.third_party
        /\ d.third_party <= Cardinality(Visitors')
    BY <1>3, <1>5, <1>6, <1>7, <1>9 DEF Supported
  <2> QED
    BY <1>3, <2>1, <2>2 DEF AuditInv
<1>12. ASSUME Grows PROVE HopsOf(r)' /\ AnswerOf(r)'
  <2>1. /\ \A c : Supported(r, c) => Supported(r, c)'
        /\ FetchedRobots(r) => FetchedRobots(r)'
        /\ \A rows : Registry(r, rows) => Registry(r, rows)'
    BY <1>3, <1>12, Frame
  <2>2. Supported(r, ans)' /\ Kept(r, ans)'
    BY <1>3, <1>6, <1>7, <2>1 DEF Kept
  <2>3. HopsOf(r)'
    BY <1>3, <1>4, <1>5, <1>6, <2>1, <2>2 DEF HopsOf, Ops
  <2> QED
    BY <1>3, <1>12, <2>3, AnswerStands
<1>13. \A op \in Ops : hop'[r][op].st \in {"none", "sent", "logged", "done", "failed"}
  BY <1>4 DEF IInv, TypeOK
<1> QED
  BY <1>3, <1>4, <1>5, <1>8, <1>10, <1>11, <1>12, <1>13, LocalStep

(* A record is appended: a request's first, or a hop's.                    *)
LEMMA RecordInv ==
  ASSUME IInv, NEW r \in Requests, NEW op \in Ops, hop[r][op].st \in {"sent", "logged"},
         UNCHANGED <<split, audits, works, task>>,
         ShapeInv', Others(r),
         \A o \in Ops \ {op} : hop'[r][o] = hop[r][o],
         hop'[r][op].st \in {"none", "sent", "logged", "done", "failed"},
         NEW x, access' = access \cup {x},
         x.robots \in BOOLEAN, x.ip \in Addresses \cup {FrontDoorIp}, x.user_agent \in Agents,
         \/ x.by = FrontDoorIp /\ is_self_originated(x.user_agent)
         \/ /\ x.by = r /\ op = "append" /\ hop'[r][op].st \in {"none", "done"}
            /\ x.user_agent = task[r].q.user_agent,
         Grows => HopsOf(r)'
  PROVE  IInv'
<1>1. /\ task[r].at \in {"answered"} \cup {Phase[o] : o \in Ops}
      /\ task[r].at # "idle"
      /\ \A y \in access : y.by = r => /\ task[r].at # "checking"
                                      /\ hop[r]["append"].st \in {"none", "done"}
      /\ op = "append" => task[r].at # "checking" /\ \A y \in access : y.by # r
  BY ReadyIs
<1>2. \A o \in Ops : hop'[r][o].st \in {"none", "sent", "logged", "done", "failed"}
  BY DEF IInv, TypeOK
<1>3. Visitors' = Visitors /\ Came' = Came
  BY <1>1, NobodyNew
<1>4. RecordsInv'
  <2>1. IsFiniteSet(access') /\ IsFiniteSet(Came')
    BY <1>3, FS_AddElement DEF IInv, RecordsInv
  <2>2. r # FrontDoorIp
    BY EvidenceAssumed DEF EvidenceAssumption
  <2>3. \A y \in access : y.by = r => /\ task'[r].at # "checking"
                                     /\ hop'[r]["append"].st \in {"none", "done"}
    BY <1>1 DEF Ops
  <2>4. \A y \in access :
          IF y.by = FrontDoorIp THEN is_self_originated(y.user_agent)
          ELSE /\ y.by \in Requests /\ task'[y.by].at \notin {"idle", "checking"}
               /\ hop'[y.by]["append"].st \in {"none", "done"}
               /\ y.user_agent = task'[y.by].q.user_agent
    BY <1>1, <2>3, RecordsStay
  <2>5. IF x.by = FrontDoorIp THEN is_self_originated(x.user_agent)
        ELSE /\ x.by \in Requests /\ task'[x.by].at \notin {"idle", "checking"}
             /\ hop'[x.by]["append"].st \in {"none", "done"}
             /\ x.user_agent = task'[x.by].q.user_agent
    BY <1>1, <2>2
  <2>6. \A y, z \in access' : y.by = z.by /\ y.by # FrontDoorIp => y = z
    BY <1>1 DEF IInv, RecordsInv
  <2> QED
    BY <2>1, <2>4, <2>5, <2>6 DEF RecordsInv
<1>5. AuditInv'
  BY <1>1, AuditsStay DEF AuditInv
<1>6. Grows => HopsOf(r)' /\ AnswerOf(r)'
  BY AnswerStands
<1>7. audits' \subseteq [by : Requests, third_party : Nat]
  BY DEF IInv, TypeOK
<1>8. \A y \in access' \ access :
        /\ y.by \in Requests \cup {FrontDoorIp} /\ y.robots \in BOOLEAN
        /\ y.ip \in Addresses \cup {FrontDoorIp} /\ y.user_agent \in Agents
  OBVIOUS
<1> QED
  BY <1>1, <1>2, <1>4, <1>5, <1>6, <1>7, <1>8, LocalStep

(* What a request's own record says.                                       *)
LEMMA OwnRecord ==
  ASSUME IInv, NEW r \in Requests, NEW b \in BOOLEAN
  PROVE  LET x == Record(r, task[r].q, b) IN
         /\ x.by = r /\ x.robots = b /\ x.path = task[r].q.path
         /\ x.ip = task[r].q.ip /\ x.ip \in Addresses
         /\ x.user_agent = task[r].q.user_agent /\ x.user_agent \in Agents
<1>1. task[r].q \in Query
  BY EvidenceAssumed DEF IInv, TypeOK, EvidenceAssumption
<1> QED
  BY <1>1 DEF Record, Query

LEMMA AppendInv ==
  ASSUME IInv, NEW r \in Requests, Append(r)
  PROVE  IInv'
<1>1. PICK ans : ans = hop[r]["append"].ans
  OBVIOUS
<1>2. PICK x : x = Record(r, task[r].q, ans.first)
  OBVIOUS
<1>3. /\ access' = access \cup {x} /\ Done(r, "append", ans)
      /\ UNCHANGED <<split, audits, works, task>>
      /\ hop[r]["append"].st \in {"sent", "logged"}
  BY <1>1, <1>2 DEF Append, Ready
<1>4. /\ ShapeInv' /\ Others(r)
      /\ \/ hop'[r]["append"].st = "done" /\ hop'[r]["append"].ans = ans
         \/ hop'[r]["append"].st = "none"
      /\ \A o \in Ops \ {"append"} : hop'[r][o] = hop[r][o]
  BY <1>3, DoneIs DEF IInv, Ops
<1>5. HopsOf(r) /\ ans.first \in BOOLEAN /\ (ans.first => FetchedRobots(r))
  BY <1>1, <1>3 DEF IInv, RequestInv, HopsOf
<1>6. /\ x.by = r /\ x.robots \in BOOLEAN /\ x.ip \in Addresses \cup {FrontDoorIp}
      /\ x.user_agent = task[r].q.user_agent /\ x.user_agent \in Agents
  BY <1>2, <1>5, OwnRecord
<1>7. ASSUME Grows PROVE HopsOf(r)'
  <2>1. /\ \A d : Supported(r, d) => Supported(r, d)'
        /\ FetchedRobots(r) => FetchedRobots(r)'
        /\ \A d : Kept(r, d) => Kept(r, d)'
        /\ \A rows : Registry(r, rows) => Registry(r, rows)'
    BY <1>3, <1>7, Frame
  <2>2. task[r].at # "idle" /\ task[r].at # "checking"
    BY <1>3, ReadyIs DEF Ops
  <2> QED
    BY <1>3, <1>4, <1>5, <2>1, <2>2 DEF HopsOf, Ops
<1> QED
  BY <1>3, <1>4, <1>6, <1>7, RecordInv DEF Ops

(* A hop's record is one of our own, whatever its call is.                 *)
LEMMA HopIsLoggedInv ==
  ASSUME IInv, NEW r \in Requests, NEW op \in Ops, HopIsLogged(r, op)
  PROVE  IInv'
<1>1. /\ hop' = [hop EXCEPT ![r][op].st = "logged"]
      /\ UNCHANGED <<split, audits, works, task>>
      /\ hop[r][op].st = "sent"
      /\ access' = access \/ access' = access \cup {HopRecord}
  BY DEF HopIsLogged
<1>2. /\ ShapeInv' /\ Others(r)
      /\ hop'[r][op].st = "logged" /\ hop'[r][op].ans = hop[r][op].ans
      /\ \A o \in Ops \ {op} : hop'[r][o] = hop[r][o]
  BY <1>1, Moved DEF IInv
<1>3. ASSUME Grows PROVE HopsOf(r)'
  <2>1. /\ \A d : Supported(r, d) => Supported(r, d)'
        /\ FetchedRobots(r) => FetchedRobots(r)'
        /\ \A d : Kept(r, d) => Kept(r, d)'
        /\ \A rows : Registry(r, rows) => Registry(r, rows)'
    BY <1>1, <1>3, Frame
  <2>2. HopsOf(r) /\ task[r].at # "idle" /\ (op = "append" => task[r].at # "checking")
    BY <1>1, ReadyIs DEF IInv, RequestInv
  <2> QED
    BY <1>1, <1>2, <2>1, <2>2 DEF HopsOf, Ops
<1>4. CASE access' = access
  BY <1>1, <1>2, <1>3, <1>4, CallInv
<1>5. CASE access' = access \cup {HopRecord}
  <2>1. PICK x : x = HopRecord
    OBVIOUS
  <2>2. /\ x.by = FrontDoorIp /\ x.robots \in BOOLEAN /\ x.ip \in Addresses \cup {FrontDoorIp}
        /\ x.user_agent \in Agents /\ is_self_originated(x.user_agent)
    BY <2>1 DEF HopRecord, Agents, is_self_originated
  <2> QED
    BY <1>1, <1>2, <1>3, <1>5, <2>1, <2>2, RecordInv
<1> QED
  BY <1>1, <1>4, <1>5

-----------------------------------------------------------------------------
(* A request comes in. *)

LEMMA ArriveIs ==
  ASSUME IInv, NEW r \in Requests, NEW q \in Queries, Arrive(r, q)
  PROVE  /\ ShapeInv' /\ Others(r)
         /\ task'[r].at = "checking" /\ task'[r].q = q /\ task'[r].since = Known(q)
         /\ hop'[r]["check"].st = "sent"
         /\ \A o \in Ops \ {"check"} : hop'[r][o].st = "none"
<1>1. task[r] = [at |-> task[r].at, q |-> task[r].q, since |-> task[r].since,
                 ans |-> task[r].ans]
  BY DEF IInv, ShapeInv
<1>2. PICK t, k : t = task[r] /\ k = Known(q)
  OBVIOUS
<1>3. PICK u : u = [t EXCEPT !.q = q]
  OBVIOUS
<1>4. u = [at |-> t.at, q |-> q, since |-> t.since, ans |-> t.ans]
  BY <1>1, <1>2, <1>3
<1>5. PICK carried : carried = [u EXCEPT !.since = k]
  OBVIOUS
<1>6. carried = [at |-> t.at, q |-> q, since |-> k, ans |-> t.ans]
  BY <1>4, <1>5
<1>7. [t EXCEPT !.q = q, !.since = k] = [[t EXCEPT !.q = q] EXCEPT !.since = k]
  OBVIOUS
<1>8. carried = [task[r] EXCEPT !.q = q, !.since = Known(q)]
  BY <1>2, <1>3, <1>5, <1>7, Zenon
<1>9. CallOut(r, "check", carried, NoAnswer)
  <2>1. CallOut(r, "check", [task[r] EXCEPT !.q = q, !.since = Known(q)], NoAnswer)
    BY DEF Arrive
  <2> QED
    BY <1>8, <2>1
<1>10. /\ ShapeInv' /\ Others(r)
       /\ task'[r] = [at |-> Phase["check"], q |-> q, since |-> k, ans |-> t.ans]
       /\ hop'[r]["check"] = [st |-> "sent", ans |-> NoAnswer]
       /\ \A o \in Ops \ {"check"} : hop'[r][o] = Over(r)[o]
  BY <1>6, <1>9, CalledOut DEF IInv, Ops
<1>11. /\ task'[r].at = "checking" /\ task'[r].q = q /\ task'[r].since = k
       /\ hop'[r]["check"].st = "sent"
  BY <1>10 DEF Phase, Ops
<1>12. \A o \in Ops \ {"check"} : hop'[r][o].st = "none"
  <2>1. \A o \in Ops : hop[r][o].st = "none"
    BY DEF Arrive, IInv, RequestInv, HopsOf
  <2>2. \A o \in Ops : Over(r)[o].st # "none" => Over(r)[o] = hop[r][o]
    BY LeftOver
  <2> QED
    BY <1>10, <2>1, <2>2
<1> QED
  BY <1>2, <1>10, <1>11, <1>12

(* What is known when it comes in is no more than there is.                *)
LEMMA KnownIs ==
  ASSUME IInv, NEW q
  PROVE  /\ Known(q).log \in Counts
         /\ Known(q).log.total <= Cardinality(access)
         /\ Known(q).log.third_party <= Cardinality(Third(access))
         /\ Known(q).works \subseteq works
<1>1. /\ Distribution(access).total = Cardinality(access)
      /\ Distribution(access).third_party = Cardinality(Third(access))
      /\ Distribution(access) \in Counts
      /\ Cardinality(Third(access)) \in Nat /\ Cardinality(access) \in Nat
  BY DistributionIs DEF IInv, RecordsInv
<1>2. CASE q.path = "/works"
  <2>1. Known(q).log = Distribution({}) /\ Known(q).works = works
    BY <1>2 DEF Known
  <2> QED
    BY <1>1, <2>1, NothingCounted
<1>3. CASE q.path # "/works"
  <2>1. Known(q).log = Distribution(access) /\ Known(q).works = {}
    BY <1>3 DEF Known
  <2> QED
    BY <1>1, <2>1
<1> QED
  BY <1>2, <1>3

LEMMA ArriveInv ==
  ASSUME IInv, NEW r \in Requests, NEW q \in Queries, Arrive(r, q)
  PROVE  IInv'
<1>1. /\ ShapeInv' /\ Others(r)
      /\ task'[r].at = "checking" /\ task'[r].q = q /\ task'[r].since = Known(q)
      /\ hop'[r]["check"].st = "sent"
      /\ \A o \in Ops \ {"check"} : hop'[r][o].st = "none"
  BY ArriveIs
<1>2. task[r].at = "idle" /\ UNCHANGED <<split, access, audits, works>>
  BY DEF Arrive
<1>3. Came' = Came \cup {r} /\ Visitors \subseteq Visitors' /\ Visitors' \subseteq Came'
  BY <1>1, <1>2 DEF Came, Visitors, Others
<1>4. IsFiniteSet(Came') /\ IsFiniteSet(Visitors')
  <2>1. IsFiniteSet(Came')
    BY <1>3, FS_AddElement DEF IInv, RecordsInv
  <2> QED
    BY <1>3, <2>1, FS_Subset
<1>5. Grows
  BY <1>2, <1>3, <1>4 DEF Grows, IInv, RecordsInv
<1>6. TypeOK'
  <2>1. TypeOK
    BY DEF IInv
  <2>2. \A s \in Requests, op \in Ops :
          hop'[s][op].st \in {"none", "sent", "logged", "done", "failed"}
    BY <1>1, <2>1 DEF TypeOK, Others
  <2>3. \A s \in Requests :
          /\ task'[s].at \in {"idle", "answered"} \cup {Phase[op] : op \in Ops}
          /\ task'[s].q \in Queries
          /\ task'[s].since.log \in Counts /\ task'[s].since.works \subseteq works'
    <3> SUFFICES ASSUME NEW s \in Requests
                 PROVE  /\ task'[s].at \in {"idle", "answered"} \cup {Phase[op] : op \in Ops}
                        /\ task'[s].q \in Queries
                        /\ task'[s].since.log \in Counts
                        /\ task'[s].since.works \subseteq works'
      OBVIOUS
    <3>1. CASE s = r
      <4>1. "checking" = Phase["check"] /\ "check" \in Ops
        BY DEF Phase, Ops
      <4> QED
        BY <1>1, <1>2, <3>1, <4>1, KnownIs
    <3>2. CASE s # r
      BY <1>1, <1>2, <2>1, <3>2 DEF TypeOK, Others
    <3> QED
      BY <3>1, <3>2
  <2> QED
    BY <1>2, <2>1, <2>2, <2>3 DEF TypeOK
<1>7. RecordsInv'
  <2>1. RecordsInv /\ \A x \in access : x.by # r
    BY <1>2, EvidenceAssumed DEF IInv, RecordsInv, EvidenceAssumption
  <2>2. \A x \in access :
          IF x.by = FrontDoorIp THEN is_self_originated(x.user_agent)
          ELSE /\ x.by \in Requests /\ task'[x.by].at \notin {"idle", "checking"}
               /\ hop'[x.by]["append"].st \in {"none", "done"}
               /\ x.user_agent = task'[x.by].q.user_agent
    BY <1>1, <2>1 DEF RecordsInv, Others
  <2> QED
    BY <1>2, <1>4, <2>1, <2>2 DEF RecordsInv
<1>8. RequestInv'
  <2> SUFFICES ASSUME NEW s \in Requests PROVE HopsOf(s)' /\ AnswerOf(s)'
    BY DEF RequestInv
  <2>1. CASE s # r
    BY <1>1, <1>5, <2>1, Untouched DEF Others
  <2>2. CASE s = r
    <3>1. HopsOf(r)'
      BY <1>1 DEF HopsOf, Ops
    <3>2. AnswerOf(r)'
      BY <1>1, <1>2, KnownIs DEF AnswerOf
    <3> QED
      BY <2>2, <3>1, <3>2
  <2> QED
    BY <2>1, <2>2
<1>9. AuditInv'
  <2>1. Cardinality(Visitors) <= Cardinality(Visitors')
    BY <1>3, <1>4, FS_Subset
  <2>2. Cardinality(Visitors) \in Nat /\ Cardinality(Visitors') \in Nat
    BY <1>4, ThirdPartiesAreVisitors, FS_CardinalityType DEF IInv
  <2>3. \A a \in audits : a.by \in Requests /\ a.by # r /\ a.third_party \in Nat
    BY <1>2 DEF IInv, TypeOK, AuditInv
  <2> QED
    BY <1>1, <1>2, <2>1, <2>2, <2>3 DEF IInv, AuditInv, Others
<1> QED
  BY <1>1, <1>6, <1>7, <1>8, <1>9 DEF IInv

-----------------------------------------------------------------------------
(* The invariant, and what follows from it. *)

LEMMA InvInit == Init => IInv
<1> SUFFICES ASSUME Init PROVE IInv
  OBVIOUS
<1>1. /\ split \in BOOLEAN /\ access = {} /\ audits = {} /\ works = Registered
      /\ hop = [r \in Requests |-> [op \in Ops |-> NoHop]]
      /\ task = [r \in Requests |-> Fresh]
  BY DEF Init
<1>2. (CHOOSE q \in Queries : TRUE) \in Queries
  BY EvidenceAssumed DEF EvidenceAssumption
<1>3. \A r \in Requests :
        /\ task[r].at = "idle" /\ task[r].q \in Queries
        /\ task[r].since.log = Distribution({}) /\ task[r].since.works = {}
        /\ task[r] = [at |-> task[r].at, q |-> task[r].q, since |-> task[r].since,
                      ans |-> task[r].ans]
  BY <1>1, <1>2 DEF Fresh
<1>4. \A r \in Requests, op \in Ops :
        hop[r][op].st = "none" /\ hop[r][op] = [st |-> hop[r][op].st, ans |-> hop[r][op].ans]
  BY <1>1 DEF NoHop
<1>5. TypeOK
  <2>1. \A r, s \in Registered : r.work_id = s.work_id => r = s
    BY EvidenceAssumed DEF EvidenceAssumption
  <2> QED
    BY <1>1, <1>3, <1>4, <2>1, NothingCounted DEF TypeOK
<1>6. ShapeInv
  BY <1>1, <1>3, <1>4 DEF ShapeInv
<1>7. RecordsInv
  <2>1. Came = {}
    BY <1>3 DEF Came
  <2> QED
    BY <1>1, <2>1, FS_EmptySet DEF RecordsInv
<1>8. RequestInv
  <2>1. \A r \in Requests : HopsOf(r)
    BY <1>3, <1>4 DEF HopsOf, Ops
  <2>2. Cardinality(access) = 0 /\ Cardinality(Third(access)) \in Nat
    BY <1>1, FS_EmptySet, DistributionIs
  <2>3. ASSUME NEW r \in Requests PROVE AnswerOf(r)
    <3>1. task[r].at = "idle"
      BY <1>3
    <3>2. task[r].since.log.total = 0 /\ task[r].since.log.third_party = 0
      BY <1>3, NothingCounted
    <3> QED
      BY <2>2, <3>1, <3>2 DEF AnswerOf
  <2> QED
    BY <2>1, <2>3 DEF RequestInv
<1>9. AuditInv
  BY <1>1 DEF AuditInv
<1> QED
  BY <1>5, <1>6, <1>7, <1>8, <1>9 DEF IInv

LEMMA Idle ==
  ASSUME IInv, UNCHANGED vars
  PROVE  IInv'
<1> USE DEF vars
<1>1. TypeOK' /\ ShapeInv'
  BY DEF IInv, TypeOK, ShapeInv
<1>2. Came' = Came /\ Visitors' = Visitors
  BY DEF Came, Visitors
<1>3. RecordsInv' /\ AuditInv'
  BY <1>2 DEF IInv, RecordsInv, AuditInv
<1>4. Grows
  BY <1>2, ThirdPartiesAreVisitors DEF Grows, IInv, RecordsInv
<1>5. RequestInv'
  BY <1>4, Untouched DEF RequestInv
<1> QED
  BY <1>1, <1>3, <1>5 DEF IInv

LEMMA InvStep == IInv /\ [Next]_vars => IInv'
<1> SUFFICES ASSUME IInv, [Next]_vars PROVE IInv'
  OBVIOUS
<1>1. CASE \E r \in Requests, q \in Queries : Arrive(r, q)
  BY <1>1, ArriveInv
<1>2. CASE \E r \in Requests : ServiceStep(r)
  <2> PICK r \in Requests : ServiceStep(r)
    BY <1>2
  <2>1. CASE Check(r)
    BY <2>1, CheckInv
  <2>2. CASE Append(r)
    BY <2>2, AppendInv
  <2>3. CASE Serve(r)
    BY <2>3, ServeInv
  <2>4. CASE Persist(r)
    BY <2>4, PersistInv
  <2>5. CASE \E op \in Ops : HopIsLogged(r, op) \/ Refuse(r, op)
    BY <2>5, HopIsLoggedInv, RefuseInv
  <2> QED
    BY <2>1, <2>2, <2>3, <2>4, <2>5 DEF ServiceStep
<1>3. CASE \E r \in Requests, op \in Ops : Receive(r, op) \/ GiveUp(r, op)
  BY <1>3, ReceiveInv, GiveUpInv
<1>4. CASE \E row \in Registrations : Register(row)
  BY <1>4, RegisterInv
<1>5. CASE UNCHANGED vars
  BY <1>5, Idle
<1> QED
  BY <1>1, <1>2, <1>3, <1>4, <1>5 DEF Next

LEMMA Invariance == Spec => []IInv
BY InvInit, InvStep, PTL DEF Spec

(* Every variable keeps its type.                                          *)
THEOREM EvidenceTypes == Spec => []TypeOK
<1>1. IInv => TypeOK
  BY DEF IInv
<1> QED
  BY <1>1, Invariance, PTL

(* An audit's third-party figure: no less than the log held when the audit *)
(* was asked for, no more than the visitors who came, however many hops    *)
(* were logged meanwhile (main.py:965-987).  What carries it is that a     *)
(* request is logged at most once although its append may outlive the hop  *)
(* that asked for it.                                                      *)
THEOREM AuditsCountVisitors == Spec => []AuditCountsVisitors
<1>1. IInv => AuditCountsVisitors
  <2> SUFFICES ASSUME IInv, NEW a \in audits
               PROVE  /\ a.third_party >= task[a.by].since.log.third_party
                      /\ a.third_party <= Cardinality(Visitors)
    BY DEF AuditCountsVisitors, Visitors
  <2>1. /\ task[a.by].since.log.third_party <= a.third_party
        /\ a.third_party <= Cardinality(Visitors)
    BY DEF IInv, AuditInv
  <2>2. task[a.by].since.log.third_party \in Nat /\ a.third_party \in Nat
    BY DEF IInv, TypeOK, Counts
  <2> QED
    BY <2>1, <2>2
<1> QED
  BY <1>1, Invariance, PTL

(* A published count is a number the log held since the request came in,   *)
(* and an audit that answers with one is kept (main.py:1022-1030, 990).    *)
THEOREM PublishedCountsStand == Spec => []PublishedFiguresStand
<1>1. IInv => PublishedFiguresStand
  BY DEF IInv, RequestInv, AnswerOf, Supported, Kept, PublishedFiguresStand
<1> QED
  BY <1>1, Invariance, PTL

(* The manifest says what the registry says or that it could not ask, and  *)
(* agrees with the proof route on every tier (main.py:286-355, 595-619).   *)
THEOREM ManifestsAreHonest == Spec => []ManifestIsHonest
<1>1. IInv => ManifestIsHonest
  <2> SUFFICES ASSUME IInv, NEW r \in Requests,
                      task[r].at = "answered", task[r].ans.kind = "manifest"
               PROVE
        /\ \A s \in task[r].ans.rows :
             (s.row["control_tier"] = "verified_control")
               <=> (get_work_proof(task[r].ans.rows, s.work_id) = "verified")
        /\ \/ \A s \in task[r].ans.rows : s.registry_unavailable
           \/ \A w \in task[r].since.works :
                \E s \in task[r].ans.rows :
                  /\ s.work_id = w.work_id /\ s.source = "registered"
                  /\ \A f \in Fields \ {"control_tier"} :
                       /\ Own(w.row, f) => s.row[f] = w.row[f]
                       /\ ~Own(w.row, f) /\ Own(s.row, f) => f \in s.supplemented
    BY DEF ManifestIsHonest
  <2>1. PICK M : M = task[r].ans.rows
    OBVIOUS
  <2>2. \/ M = SeedsOnly
        \/ \E rows \in SUBSET works : Registry(r, rows) /\ M = Manifest(rows)
    BY <2>1 DEF IInv, RequestInv, AnswerOf
  <2>3. CASE M = SeedsOnly
    <3>1. \A s \in M : (s.row["control_tier"] = "verified_control")
                         <=> (get_work_proof(M, s.work_id) = "verified")
      BY <2>3, SeedRows, TierAndProofAgree
    <3>2. \A s \in M : s.registry_unavailable
      BY <2>3, SeedRows
    <3> QED
      BY <2>1, <3>1, <3>2
  <2>4. CASE \E rows \in SUBSET works : Registry(r, rows) /\ M = Manifest(rows)
    <3> PICK rows \in SUBSET works : Registry(r, rows) /\ M = Manifest(rows)
      BY <2>4
    <3>1. \A p, q \in rows : p.work_id = q.work_id => p = q
      BY DEF IInv, TypeOK
    <3>2. \A s \in M : (s.row["control_tier"] = "verified_control")
                         <=> (get_work_proof(M, s.work_id) = "verified")
      BY <3>1, ManifestRows, TierAndProofAgree
    <3>3. ASSUME NEW w \in task[r].since.works
          PROVE  \E s \in M :
                   /\ s.work_id = w.work_id /\ s.source = "registered"
                   /\ \A f \in Fields \ {"control_tier"} :
                        /\ Own(w.row, f) => s.row[f] = w.row[f]
                        /\ ~Own(w.row, f) /\ Own(s.row, f) => f \in s.supplemented
      <4>1. w \in rows
        BY <3>3 DEF Registry
      <4>2. PICK s : s = TierSupported(Merged(w))
        OBVIOUS
      <4>3. s \in M
        BY <4>1, <4>2 DEF Manifest
      <4>4. /\ s.work_id = w.work_id /\ s.source = "registered"
            /\ \A f \in Fields \ {"control_tier"} :
                 /\ Own(w.row, f) => s.row[f] = w.row[f]
                 /\ ~Own(w.row, f) /\ Own(s.row, f) => f \in s.supplemented
        BY <4>2, MergedIs
      <4> QED
        BY <4>3, <4>4
    <3> QED
      BY <2>1, <3>2, <3>3
  <2> QED
    BY <2>2, <2>3, <2>4
<1> QED
  BY <1>1, Invariance, PTL

(* A record that says its visitor read robots.txt first tells the truth,   *)
(* although the flag was read in an earlier hop, which may have failed     *)
(* (main.py:449, 465).                                                     *)
THEOREM RobotsFlagsAreTrue == Spec => RobotsFirstIsTrue
<1>1. ASSUME IInv, [Next]_vars, access' # access
      PROVE  \A x \in access' \ access :
               x.robots => \/ x.path = "/robots.txt"
                           \/ \E e \in access : e.ip = x.ip /\ e.path = "/robots.txt"
  <2>1. PICK r \in Requests : Append(r) \/ \E op \in Ops : HopIsLogged(r, op)
    BY <1>1 DEF vars, Next, Arrive, ServiceStep, Check, Serve, Persist, Refuse, Receive,
                GiveUp, Register
  <2>2. CASE Append(r)
    <3>1. PICK ans : ans = hop[r]["append"].ans
      OBVIOUS
    <3>2. PICK x : x = Record(r, task[r].q, ans.first)
      OBVIOUS
    <3>3. access' = access \cup {x} /\ hop[r]["append"].st # "none"
      BY <2>2, <3>1, <3>2 DEF Append, Ready
    <3>4. ans.first \in BOOLEAN /\ (ans.first => FetchedRobots(r))
      BY <1>1, <3>1, <3>3 DEF IInv, RequestInv, HopsOf
    <3>5. x.robots = ans.first /\ x.path = task[r].q.path /\ x.ip = task[r].q.ip
      BY <1>1, <3>2, <3>4, OwnRecord
    <3> QED
      BY <3>3, <3>4, <3>5 DEF FetchedRobots
  <2>3. CASE \E op \in Ops : HopIsLogged(r, op)
    <3>1. PICK x : x = HopRecord
      OBVIOUS
    <3>2. x.robots = FALSE
      BY <3>1 DEF HopRecord
    <3>3. access' = access \/ access' = access \cup {x}
      BY <2>3, <3>1 DEF HopIsLogged
    <3> QED
      BY <3>2, <3>3
  <2> QED
    BY <2>1, <2>2, <2>3
<1>2. IInv /\ [Next]_vars =>
        [\A x \in access' \ access :
           x.robots => \/ x.path = "/robots.txt"
                       \/ \E e \in access : e.ip = x.ip /\ e.path = "/robots.txt"]_access
  BY <1>1
<1> QED
  BY <1>2, Invariance, PTL DEF Spec, RobotsFirstIsTrue
=============================================================================

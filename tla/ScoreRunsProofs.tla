--------------------------- MODULE ScoreRunsProofs ---------------------------
(* The table of scores for any number of processes, subnets, scores and      *)
(* runs: the rows of one stamp are one whole ranked run, and what the API    *)
(* recomputes from them agrees with what the run stored.                     *)
EXTENDS ScoreRuns, FiniteSetTheorems, TLAPS

(* The rows of one run: a subnet has one row, and the ranks of those that    *)
(* are not the root are a numbering by descending score.                     *)
Whole(R) ==
  /\ R \subseteq Row
  /\ \A a, b \in R : a.netuid = b.netuid => a = b
  /\ \E N \in Nat :
       /\ \A a \in Investable(R) : a.rank \in 1..N
       /\ \A k \in 1..N : \E a \in Investable(R) : a.rank = k
  /\ \A a, b \in Investable(R) : a.rank = b.rank => a = b
  /\ \A a, b \in Investable(R) : a.score > b.score => a.rank < b.rank

-----------------------------------------------------------------------------
(* Counting by ranks.                                                        *)

(* A whole run has as many ranked rows as its largest rank.                  *)
LEMMA RankedRows ==
  ASSUME NEW R, Whole(R)
  PROVE  /\ IsFiniteSet(Investable(R))
         /\ Cardinality(Investable(R)) \in Nat
         /\ \A a \in Investable(R) : a.rank \in 1..Cardinality(Investable(R))
         /\ \A k \in 1..Cardinality(Investable(R)) : \E a \in Investable(R) : a.rank = k
<1> DEFINE I == Investable(R)
<1>1. PICK N \in Nat : /\ \A a \in I : a.rank \in 1..N
                       /\ \A k \in 1..N : \E a \in I : a.rank = k
  BY DEF Whole
<1>2. \A a, b \in I : a.rank = b.rank => a = b
  BY DEF Whole
<1> HIDE DEF I
<1> DEFINE f == [k \in 1..N |-> CHOOSE a \in I : a.rank = k]
<1>3. \A k \in 1..N : f[k] \in I /\ f[k].rank = k
  BY <1>1
<1>4. f \in [1..N -> I]
  BY <1>3
<1>5. \A j, k \in 1..N : f[j] = f[k] => j = k
  BY <1>3
<1>6. \A a \in I : \E k \in 1..N : f[k] = a
  <2> SUFFICES ASSUME NEW a \in I PROVE \E k \in 1..N : f[k] = a
    OBVIOUS
  <2>1. a.rank \in 1..N
    BY <1>1
  <2>2. f[a.rank] \in I /\ f[a.rank].rank = a.rank
    BY <1>3, <2>1
  <2>3. f[a.rank] = a
    BY <1>2, <2>2
  <2> QED
    BY <2>1, <2>3
<1> HIDE DEF f
<1>7. f \in Bijection(1..N, I)
  BY <1>4, <1>5, <1>6 DEF Bijection, Injection, Surjection, IsInjective
<1>8. ExistsBijection(1..N, I)
  BY <1>7 DEF ExistsBijection
<1>9. Cardinality(I) = N /\ IsFiniteSet(I)
  BY <1>8, FS_CountingElements, FS_NatBijection
<1> QED
  BY <1>1, <1>9 DEF I

(* Rows whose ranks are at most k are at most k ...                          *)
LEMMA AtMost ==
  ASSUME NEW R, Whole(R), NEW S, S \subseteq Investable(R), NEW k \in Nat,
         \A a \in S : a.rank <= k
  PROVE  Cardinality(S) \in Nat /\ Cardinality(S) <= k
<1> DEFINE f == [a \in S |-> a.rank]
<1>1. \A a \in S : a.rank \in 1..k
  <2> SUFFICES ASSUME NEW a \in S PROVE a.rank \in 1..k
    OBVIOUS
  <2>1. a.rank \in 1..Cardinality(Investable(R)) /\ Cardinality(Investable(R)) \in Nat
    BY RankedRows
  <2> QED
    BY <2>1
<1>2. \A a, b \in S : a.rank = b.rank => a = b
  BY DEF Whole
<1>3. f \in Injection(S, 1..k)
  BY <1>1, <1>2 DEF Injection, IsInjective
<1>4. IsFiniteSet(1..k) /\ Cardinality(1..k) = k
  BY FS_Interval
<1> HIDE DEF f
<1>5. IsFiniteSet(S) /\ Cardinality(S) <= k
  BY <1>3, <1>4, FS_Injection
<1> QED
  BY <1>5, FS_CardinalityType

(* ... and if they are all there, at least k.                                *)
LEMMA AtLeast ==
  ASSUME NEW R, Whole(R), NEW S, S \subseteq Investable(R), NEW k \in Nat,
         k <= Cardinality(Investable(R)),
         \A a \in Investable(R) : a.rank <= k => a \in S
  PROVE  Cardinality(S) \in Nat /\ Cardinality(S) >= k
<1> DEFINE I == Investable(R)
           f == [j \in 1..k |-> CHOOSE a \in I : a.rank = j]
<1>1. /\ IsFiniteSet(I) /\ Cardinality(I) \in Nat
      /\ \A j \in 1..Cardinality(I) : \E a \in I : a.rank = j
  BY RankedRows
<1>2. IsFiniteSet(S) /\ Cardinality(S) \in Nat
  BY <1>1, FS_Subset, FS_CardinalityType
<1>3. \A j \in 1..k : \E a \in I : a.rank = j
  BY <1>1
<1>4. \A j \in 1..k : f[j] \in I /\ f[j].rank = j
  <2> HIDE DEF I
  <2> QED
    BY <1>3
<1>5. \A j \in 1..k : f[j] \in S
  BY <1>4
<1>6. f \in Injection(1..k, S)
  BY <1>4, <1>5 DEF Injection, IsInjective
<1>7. Cardinality(1..k) = k
  BY FS_Interval
<1> HIDE DEF f
<1> QED
  BY <1>2, <1>6, <1>7, FS_Injection

(* In a whole run, a row whose recomputed rank is another row's stored rank  *)
(* has that row's score.                                                     *)
LEMMA RecomputedAgrees ==
  ASSUME NEW row \in Investable(rows), NEW other \in Investable(RowsAt(row.at)),
         Whole(RowsAt(row.at)), RecomputedRank(other) = row.rank
  PROVE  other.score = row.score
<1> DEFINE R == RowsAt(row.at)
           I == Investable(R)
           above == {o \in I : \/ o.score > other.score
                               \/ o.score = other.score /\ o.netuid < other.netuid}
<1>1. row \in I /\ other \in I /\ R \subseteq Row
  BY DEF RowsAt, Investable, Whole
<1>2. other.at = row.at
  BY DEF RowsAt, Investable
<1>3. row.rank = 1 + Cardinality(above)
  BY <1>2 DEF RecomputedRank
<1>4. \A a, b \in I : a.score > b.score => a.rank < b.rank
  BY DEF Whole
<1>5. Cardinality(I) \in Nat /\ \A a \in I : a.rank \in 1..Cardinality(I)
  BY RankedRows
<1>6. \A a \in I : a.score \in Nat /\ a.rank \in Nat /\ a.netuid \in Nat
  BY <1>1, ScoreRunsAssumption DEF Investable, Row, Netuids, Root
<1> HIDE DEF I
<1>7. ASSUME other.score > row.score PROVE FALSE
  <2> DEFINE S == above \cup {other}
  <2>1. S \subseteq I
    BY <1>1
  <2>2. \A a \in S : a.score >= other.score
    BY <1>1, <1>6
  <2>3. \A a \in S : a.score > row.score
    BY <1>1, <1>6, <1>7, <2>1, <2>2
  <2>4. \A a \in S : a.rank < row.rank
    BY <1>1, <1>4, <2>1, <2>3
  <2>5. row.rank - 1 \in Nat /\ \A a \in S : a.rank <= row.rank - 1
    BY <1>1, <1>5, <1>6, <2>1, <2>4
  <2>6. Cardinality(S) \in Nat /\ Cardinality(S) <= row.rank - 1
    <3> HIDE DEF S
    <3> QED
      BY ONLY <2>1, <2>5, Whole(R), AtMost DEF I
  <2>7. IsFiniteSet(above)
    BY <1>1, RankedRows, FS_Subset, above \subseteq I DEF I
  <2>8. other \notin above
    BY <1>1, <1>6
  <2>9. Cardinality(S) = Cardinality(above) + 1 /\ Cardinality(above) \in Nat
    <3> HIDE DEF above
    <3> QED
      BY <2>7, <2>8, FS_AddElement, FS_CardinalityType
  <2> HIDE DEF S, above
  <2> QED
    BY <1>3, <2>6, <2>9
<1>8. ASSUME other.score < row.score PROVE FALSE
  <2>1. \A a \in I : a.rank <= row.rank => a.score >= row.score
    BY <1>1, <1>4, <1>6
  <2>2. \A a \in I : a.rank <= row.rank => a \in above
    BY <1>1, <1>6, <1>8, <2>1
  <2>3. row.rank \in Nat /\ row.rank <= Cardinality(I)
    BY <1>1, <1>5
  <2>4. above \subseteq I
    OBVIOUS
  <2>5. Cardinality(above) \in Nat /\ Cardinality(above) >= row.rank
    <3> HIDE DEF above
    <3> QED
      BY ONLY <2>2, <2>3, <2>4, Whole(R), AtLeast DEF I
  <2> HIDE DEF above
  <2> QED
    BY <1>3, <2>3, <2>5
<1>9. other.score \in Nat /\ row.score \in Nat
  BY <1>1, <1>6
<1> QED
  BY <1>7, <1>8, <1>9

-----------------------------------------------------------------------------
(* The rows a run computes are one whole run ...                             *)
LEMMA ScoredIsWhole ==
  ASSUME NEW targets \in SUBSET Netuids, NEW score \in [targets -> Scores],
         NEW rank \in Ranking(targets, score)
  PROVE  Whole(ScoredRows(targets, score, rank))
<1> DEFINE R == ScoredRows(targets, score, rank)
           ranked == targets \ {Root}
           N == Cardinality(ranked)
<1>1. /\ N \in Nat
      /\ rank \in [ranked -> 1..N]
      /\ \A m, n \in ranked : rank[m] = rank[n] => m = n
      /\ \A k \in 1..N : \E n \in ranked : rank[n] = k
      /\ \A m, n \in ranked : score[m] > score[n] => rank[m] < rank[n]
  <2>1. IsFiniteSet(Netuids)
    BY ScoreRunsAssumption, FS_AddElement DEF Netuids
  <2>2. IsFiniteSet(ranked)
    BY <2>1, FS_Subset, ranked \subseteq Netuids
  <2>3. N \in Nat
    BY <2>2, FS_CardinalityType
  <2>4. rank \in Bijection(ranked, 1..N) /\ \A m, n \in ranked : score[m] > score[n] => rank[m] < rank[n]
    BY DEF Ranking
  <2> HIDE DEF N, ranked
  <2> QED
    BY <2>3, <2>4 DEF Bijection, Injection, Surjection, IsInjective
<1> DEFINE At(n) == [at |-> Unstamped, netuid |-> n, score |-> score[n],
                     rank |-> IF n = Root THEN NoRank ELSE rank[n]]
<1>2. R = {At(n) : n \in targets}
  BY DEF ScoredRows
<1>3. \A n \in targets : At(n).netuid = n /\ At(n).score = score[n]
  OBVIOUS
<1>4. \A n \in ranked : At(n).rank = rank[n]
  OBVIOUS
<1>5. \A n \in targets : At(n) \in Row
  <2> SUFFICES ASSUME NEW n \in targets PROVE At(n) \in Row
    OBVIOUS
  <2>1. Unstamped \in Unstamped..MaxRuns
    BY ScoreRunsAssumption DEF Unstamped
  <2>2. (IF n = Root THEN NoRank ELSE rank[n]) \in Nat
    <3> HIDE DEF N
    <3> QED
      BY <1>1 DEF NoRank
  <2>3. n \in Netuids /\ score[n] \in Scores
    OBVIOUS
  <2> QED
    BY <2>1, <2>2, <2>3 DEF Row
<1> HIDE DEF At, R, N
<1>6. Investable(R) = {At(n) : n \in ranked}
  BY <1>2, <1>3 DEF Investable
<1>7. R \subseteq Row /\ \A a, b \in R : a.netuid = b.netuid => a = b
  BY <1>2, <1>3, <1>5
<1>8. \A a \in Investable(R) : a.rank \in 1..N
  BY <1>1, <1>4, <1>6
<1>9. \A k \in 1..N : \E a \in Investable(R) : a.rank = k
  BY <1>1, <1>4, <1>6
<1>10. \A a, b \in Investable(R) : a.rank = b.rank => a = b
  BY <1>1, <1>4, <1>6
<1>11. \A a, b \in Investable(R) : a.score > b.score => a.rank < b.rank
  <2> SUFFICES ASSUME NEW m \in ranked, NEW n \in ranked, At(m).score > At(n).score
               PROVE  At(m).rank < At(n).rank
    BY <1>6
  <2> QED
    BY <1>1, <1>3, <1>4
<1> QED
  BY <1>1, <1>7, <1>8, <1>9, <1>10, <1>11 DEF Whole, R

Stamped(R, t) == {[row EXCEPT !.at = t] : row \in R}

(* ... and still are once they are stamped.                                  *)
LEMMA StampedIsWhole ==
  ASSUME NEW R, Whole(R), NEW t \in Unstamped..MaxRuns
  PROVE  /\ Whole(Stamped(R, t))
         /\ \A a \in Stamped(R, t) : a.at = t
<1> DEFINE Q == Stamped(R, t)
           At(row) == [row EXCEPT !.at = t]
<1>1. R \subseteq Row
  BY DEF Whole
<1>2. \A row \in R : /\ At(row) \in Row /\ At(row).at = t
                     /\ At(row).netuid = row.netuid
                     /\ At(row).score = row.score /\ At(row).rank = row.rank
  BY <1>1 DEF Row
<1>3. Q = {At(row) : row \in R}
  BY DEF Stamped
<1> HIDE DEF At, Q
<1>4. Investable(Q) = {At(row) : row \in Investable(R)}
  BY <1>2, <1>3 DEF Investable
<1>5. Investable(R) \subseteq R
  BY DEF Investable
<1>6. Q \subseteq Row /\ \A a \in Q : a.at = t
  BY <1>2, <1>3
<1>7. \A a, b \in Q : a.netuid = b.netuid => a = b
  BY <1>2, <1>3 DEF Whole
<1>8. \E N \in Nat : /\ \A a \in Investable(Q) : a.rank \in 1..N
                     /\ \A k \in 1..N : \E a \in Investable(Q) : a.rank = k
  <2>1. PICK N \in Nat : /\ \A a \in Investable(R) : a.rank \in 1..N
                         /\ \A k \in 1..N : \E a \in Investable(R) : a.rank = k
    BY DEF Whole
  <2>2. \A a \in Investable(Q) : a.rank \in 1..N
    BY <1>2, <1>4, <1>5, <2>1
  <2>3. \A k \in 1..N : \E a \in Investable(Q) : a.rank = k
    BY <1>2, <1>4, <1>5, <2>1
  <2> QED
    BY <2>2, <2>3
<1>9. \A a, b \in Investable(Q) : a.rank = b.rank => a = b
  BY <1>2, <1>4, <1>5 DEF Whole
<1>10. \A a, b \in Investable(Q) : a.score > b.score => a.rank < b.rank
  <2> SUFFICES ASSUME NEW a \in Investable(R), NEW b \in Investable(R), At(a).score > At(b).score
               PROVE  At(a).rank < At(b).rank
    BY <1>4
  <2> QED
    BY <1>2, <1>5 DEF Whole
<1> QED
  BY <1>6, <1>7, <1>8, <1>9, <1>10 DEF Whole, Q

-----------------------------------------------------------------------------
(* The inductive invariant.                                                  *)
Places == {"idle", "refresh", "compute", "save", "commit", "upsert"}
Job == [want : Wanted, dry : BOOLEAN, new : SUBSET Row, left : SUBSET Netuids]

Typed == TypeOK /\ job \in [Runners -> Job]

(* The runs that have begun and not taken a stamp yet.                       *)
Stampless == {r \in Runners : pc[r] \in {"refresh", "compute", "save"}}

(* A run takes one stamp, so that there are stamps enough.                   *)
StampsLast == clock + Cardinality(Stampless) <= started

(* What is in the table is whole runs ...                                    *)
TableWhole ==
  /\ \A row \in rows : row.at \in 1..clock
  /\ \A t \in 1..clock : Whole(RowsAt(t))

(* ... as is what a run holds until it commits.                              *)
JobWhole(r) ==
  IF pc[r] \in {"save", "commit"} THEN Whole(job[r].new) ELSE job[r].new = {}

(* The stamp of a run that has not committed is its own.                     *)
OwnStamp(r) ==
  pc[r] = "commit" =>
    \A a \in job[r].new :
      /\ a.at \in 1..clock /\ RowsAt(a.at) = {}
      /\ \A b \in job[r].new : b.at = a.at
      /\ \A q \in Runners \ {r} : pc[q] = "commit" => \A b \in job[q].new : b.at # a.at

ScoredNetuids == {row.netuid : row \in rows}

LeftScored(r) == job[r].left \subseteq ScoredNetuids

IInv ==
  /\ Typed
  /\ StampsLast
  /\ TableWhole
  /\ \A r \in Runners : JobWhole(r) /\ OwnStamp(r) /\ LeftScored(r)
  /\ MetadataFollowsScores

LEMMA FiniteRunners == IsFiniteSet(Stampless) /\ Cardinality(Stampless) \in Nat
BY ScoreRunsAssumption, FS_Subset, FS_CardinalityType, Stampless \subseteq Runners DEF Stampless

LEMMA EmptyWhole == Whole({})
<1>1. Investable({}) = {}
  BY DEF Investable
<1>2. /\ \A a \in {} : a.rank \in 1..0
      /\ \A k \in 1..0 : \E a \in {} : a.rank = k
  OBVIOUS
<1>3. \E N \in Nat : /\ \A a \in {} : a.rank \in 1..N
                     /\ \A k \in 1..N : \E a \in {} : a.rank = k
  BY <1>2
<1> QED
  BY <1>1, <1>3 DEF Whole

LEMMA InitIInv == Init => IInv
<1> SUFFICES ASSUME Init PROVE IInv
  OBVIOUS
<1> USE DEF Init
<1>1. NoJob \in Job
  BY DEF NoJob, Job, Wanted
<1>2. Typed
  <2>1. MaxRuns \in Nat /\ 0 \in 0..0 /\ 0 \in 0..MaxRuns
    BY ScoreRunsAssumption
  <2>2. job \in [Runners -> Job]
    BY <1>1
  <2>3. \A r \in Runners : /\ job[r].want \in Wanted /\ job[r].dry \in BOOLEAN
                           /\ job[r].new \in SUBSET Row /\ job[r].left \in SUBSET Netuids
    BY <2>2 DEF Job
  <2>4. pc \in [Runners -> {"idle", "refresh", "compute", "save", "commit", "upsert"}]
    OBVIOUS
  <2>5. chain \in SUBSET Netuids /\ rows \in SUBSET Row /\ meta \in SUBSET Netuids
    OBVIOUS
  <2>6. clock \in 0..started /\ started \in 0..MaxRuns
    BY <2>1
  <2> QED
    BY <2>2, <2>3, <2>4, <2>5, <2>6 DEF Typed, TypeOK
<1>3. Stampless = {}
  BY DEF Stampless
<1>4. StampsLast
  BY <1>3, FS_EmptySet DEF StampsLast
<1>5. TableWhole /\ MetadataFollowsScores
  BY DEF TableWhole, MetadataFollowsScores
<1>6. \A r \in Runners : JobWhole(r) /\ OwnStamp(r) /\ LeftScored(r)
  BY DEF JobWhole, OwnStamp, LeftScored, NoJob
<1> QED
  BY <1>2, <1>4, <1>5, <1>6 DEF IInv

-----------------------------------------------------------------------------
(* A step of one runner that neither touches the table nor holds a stamp     *)
(* afterwards.                                                               *)
Quiet(r, to, new) ==
  /\ pc' = [pc EXCEPT ![r] = to] /\ to \in Places \ {"commit"}
  /\ job' = [job EXCEPT ![r] = new] /\ new \in Job
  /\ IF to = "save" THEN Whole(new.new) ELSE new.new = {}
  /\ new.left \subseteq ScoredNetuids
  /\ UNCHANGED <<rows, clock>>

LEMMA QuietStep ==
  ASSUME IInv, NEW r \in Runners, NEW to, NEW new, Quiet(r, to, new)
  PROVE  /\ TableWhole'
         /\ \A q \in Runners : JobWhole(q)' /\ OwnStamp(q)' /\ LeftScored(q)'
<1> USE DEF Quiet
<1>1. pc \in [Runners -> Places] /\ job \in [Runners -> Job]
  BY DEF IInv, Typed, TypeOK, Places
<1>2. \A q \in Runners : /\ pc'[q] = IF q = r THEN to ELSE pc[q]
                         /\ job'[q] = IF q = r THEN new ELSE job[q]
  BY <1>1
<1>3. \A t : RowsAt(t)' = RowsAt(t)
  BY DEF RowsAt
<1>4. ScoredNetuids' = ScoredNetuids
  BY DEF ScoredNetuids
<1>5. TableWhole'
  BY <1>3 DEF IInv, TableWhole
<1>6. ASSUME NEW q \in Runners PROVE JobWhole(q)' /\ LeftScored(q)'
  BY <1>2, <1>4 DEF IInv, JobWhole, LeftScored
<1>7. ASSUME NEW q \in Runners PROVE OwnStamp(q)'
  <2> SUFFICES ASSUME pc'[q] = "commit", NEW a \in job'[q].new
               PROVE  /\ a.at \in 1..clock /\ RowsAt(a.at)' = {}
                      /\ \A b \in job'[q].new : b.at = a.at
                      /\ \A p \in Runners \ {q} :
                           pc'[p] = "commit" => \A b \in job'[p].new : b.at # a.at
    BY DEF OwnStamp
  <2>1. q # r /\ pc[q] = "commit" /\ job'[q] = job[q]
    BY <1>2
  <2>2. /\ a.at \in 1..clock /\ RowsAt(a.at) = {}
        /\ \A b \in job[q].new : b.at = a.at
        /\ \A p \in Runners \ {q} : pc[p] = "commit" => \A b \in job[p].new : b.at # a.at
    BY <2>1 DEF IInv, OwnStamp
  <2>3. \A p \in Runners \ {q} : pc'[p] = "commit" => pc[p] = "commit" /\ job'[p] = job[p]
    BY <1>2
  <2> QED
    BY <1>3, <2>1, <2>2, <2>3
<1> QED
  BY <1>5, <1>6, <1>7

(* A runner that stays without a stamp, or gives up the wish for one.        *)
LEMMA NoMoreStampless ==
  ASSUME IInv, NEW r \in Runners, NEW to, pc' = [pc EXCEPT ![r] = to],
         to \in {"refresh", "compute", "save"} => r \in Stampless,
         UNCHANGED <<clock, started>>
  PROVE  StampsLast'
<1>1. pc \in [Runners -> Places]
  BY DEF IInv, Typed, TypeOK, Places
<1>2. Stampless' \subseteq Stampless
  BY <1>1 DEF Stampless
<1>3. Cardinality(Stampless') \in Nat /\ Cardinality(Stampless') <= Cardinality(Stampless)
  BY <1>2, FiniteRunners, FS_Subset, FS_CardinalityType
<1>4. clock \in Int /\ started \in Int /\ clock + Cardinality(Stampless) <= started
  BY ScoreRunsAssumption DEF IInv, Typed, TypeOK, StampsLast
<1> DEFINE n == Cardinality(Stampless)
           m == Cardinality(Stampless')
<1>5. clock' = clock /\ started' = started /\ n \in Nat
  BY FiniteRunners
<1> HIDE DEF n, m
<1>6. m \in Nat /\ m <= n /\ clock + n <= started
  BY <1>3, <1>4 DEF n, m
<1>7. clock' + m <= started'
  BY ONLY <1>4, <1>5, <1>6, clock \in Int, started \in Int
<1> QED
  BY <1>7 DEF StampsLast, m

(* The parts of a well-typed state a step of one runner can disturb.         *)
LEMMA TypedStep ==
  ASSUME IInv, NEW r \in Runners, NEW to \in Places, NEW new \in Job,
         pc' = [pc EXCEPT ![r] = to], job' = [job EXCEPT ![r] = new],
         chain' = chain, rows' \in SUBSET Row, meta' \in SUBSET Netuids,
         clock' \in 0..started', started' \in 0..MaxRuns
  PROVE  Typed'
<1>1. pc \in [Runners -> Places] /\ job \in [Runners -> Job] /\ chain \in SUBSET Netuids
  BY DEF IInv, Typed, TypeOK, Places
<1>2. job' \in [Runners -> Job] /\ pc' \in [Runners -> Places]
  BY <1>1
<1>3. \A q \in Runners : /\ job'[q].want \in Wanted /\ job'[q].dry \in BOOLEAN
                         /\ job'[q].new \in SUBSET Row /\ job'[q].left \in SUBSET Netuids
  BY <1>2 DEF Job
<1> QED
  BY <1>1, <1>2, <1>3 DEF Typed, TypeOK, Places

LEMMA QuietKeeps ==
  ASSUME IInv, NEW r \in Runners, NEW to, NEW new, Quiet(r, to, new),
         to \in {"refresh", "compute", "save"} => r \in Stampless,
         UNCHANGED <<chain, started>>, meta' \subseteq ScoredNetuids
  PROVE  IInv'
<1>1. /\ to \in Places /\ new \in Job /\ UNCHANGED <<rows, clock>>
      /\ pc' = [pc EXCEPT ![r] = to] /\ job' = [job EXCEPT ![r] = new]
  BY DEF Quiet
<1>2. rows' \in SUBSET Row /\ clock' \in 0..started' /\ started' \in 0..MaxRuns
  BY <1>1 DEF IInv, Typed, TypeOK
<1>3. ScoredNetuids \subseteq Netuids
  BY <1>1, <1>2 DEF ScoredNetuids, Row
<1>4. Typed'
  BY <1>1, <1>2, <1>3, TypedStep
<1>5. StampsLast'
  BY <1>1, NoMoreStampless
<1>6. MetadataFollowsScores'
  BY <1>1 DEF MetadataFollowsScores, ScoredNetuids
<1> QED
  BY <1>4, <1>5, <1>6, QuietStep DEF IInv

LEMMA NoJobIsJob == NoJob \in Job /\ NoJob.new = {} /\ NoJob.left = {}
BY DEF NoJob, Job, Wanted

LEMMA RegisterKeeps == ASSUME IInv, NEW n \in Subnets, Register(n) PROVE IInv'
<1>1. UNCHANGED <<rows, meta, clock, started, pc, job>> /\ chain' \in SUBSET Netuids
  BY DEF Register, IInv, Typed, TypeOK, Netuids
<1>2. Typed'
  BY <1>1 DEF IInv, Typed, TypeOK
<1>3. StampsLast' /\ TableWhole' /\ MetadataFollowsScores'
  BY <1>1 DEF IInv, StampsLast, Stampless, TableWhole, RowsAt, MetadataFollowsScores
<1>4. \A r \in Runners : JobWhole(r)' /\ OwnStamp(r)' /\ LeftScored(r)'
  BY <1>1 DEF IInv, JobWhole, OwnStamp, LeftScored, ScoredNetuids, RowsAt
<1> QED
  BY <1>2, <1>3, <1>4 DEF IInv

LEMMA ReturnKeeps ==
  ASSUME IInv, NEW r \in Runners, Return(r),
         UNCHANGED <<chain, rows, clock, started>>, meta' \subseteq ScoredNetuids
  PROVE  IInv'
<1>1. Quiet(r, "idle", NoJob)
  BY NoJobIsJob DEF Quiet, Return, Go, Places
<1> QED
  BY <1>1, QuietKeeps

(* One more run, and at most one more that has no stamp.                     *)
LEMMA BeginKeeps ==
  ASSUME IInv, NEW r \in Runners, NEW want \in Wanted, NEW dry \in {FALSE, AllowDry},
         Begin(r, want, dry)
  PROVE  IInv'
<1> DEFINE new == [NoJob EXCEPT !.want = want, !.dry = dry]
<1>1. new \in Job /\ new.new = {} /\ new.left = {}
  BY ScoreRunsAssumption DEF NoJob, Job
<1>2. /\ pc' = [pc EXCEPT ![r] = "refresh"] /\ job' = [job EXCEPT ![r] = new]
      /\ UNCHANGED <<chain, rows, meta, clock>>
      /\ started < MaxRuns /\ started' = started + 1
  BY DEF Begin, Go
<1> HIDE DEF new
<1>3. Quiet(r, "refresh", new)
  BY <1>1, <1>2 DEF Quiet, Places
<1>4. /\ rows' \in SUBSET Row /\ meta' \in SUBSET Netuids
      /\ started' \in 0..MaxRuns /\ clock' \in 0..started'
  BY <1>2, ScoreRunsAssumption DEF IInv, Typed, TypeOK
<1>5. Typed'
  BY <1>1, <1>2, <1>4, TypedStep DEF Places
<1>6. StampsLast'
  <2> DEFINE n == Cardinality(Stampless)
             m == Cardinality(Stampless')
  <2>1. pc \in [Runners -> Places]
    BY DEF IInv, Typed, TypeOK, Places
  <2>2. Stampless' \subseteq Stampless \cup {r}
    BY <1>2, <2>1 DEF Stampless
  <2>3. /\ IsFiniteSet(Stampless \cup {r}) /\ n \in Nat
        /\ Cardinality(Stampless \cup {r}) <= n + 1
    <3>1. /\ IsFiniteSet(Stampless \cup {r})
          /\ Cardinality(Stampless \cup {r}) =
               IF r \in Stampless THEN Cardinality(Stampless) ELSE Cardinality(Stampless) + 1
      BY FiniteRunners, FS_AddElement
    <3> QED
      BY <3>1, FiniteRunners
  <2>4. /\ m \in Nat /\ m <= Cardinality(Stampless \cup {r})
        /\ Cardinality(Stampless \cup {r}) \in Nat
    BY <2>2, <2>3, FS_Subset, FS_CardinalityType
  <2>5. clock \in Int /\ started \in Int /\ clock + n <= started
    BY ScoreRunsAssumption DEF IInv, Typed, TypeOK, StampsLast
  <2> HIDE DEF n, m
  <2>6. clock' + m <= started'
    BY <1>2, <2>3, <2>4, <2>5
  <2> QED
    BY <2>6 DEF StampsLast, m
<1>7. MetadataFollowsScores'
  BY <1>2 DEF IInv, MetadataFollowsScores
<1> QED
  BY <1>3, <1>5, <1>6, <1>7, QuietStep DEF IInv

LEMMA RefreshKeeps == ASSUME IInv, NEW r \in Runners, Refresh(r) PROVE IInv'
<1>1. pc[r] = "refresh" /\ job \in [Runners -> Job] /\ pc \in [Runners -> Places]
  BY DEF Refresh, IInv, Typed, TypeOK, Places
<1>2. job[r].new = {} /\ job[r].left \subseteq ScoredNetuids
  BY <1>1 DEF IInv, JobWhole, LeftScored
<1>3. Quiet(r, "compute", job[r])
  BY <1>1, <1>2 DEF Quiet, Refresh, Go, Places
<1>4. r \in Stampless /\ UNCHANGED <<chain, started>> /\ meta' \subseteq ScoredNetuids
  BY <1>1 DEF Stampless, Refresh, IInv, MetadataFollowsScores, ScoredNetuids
<1> QED
  BY <1>3, <1>4, QuietKeeps

LEMMA ComputeKeeps == ASSUME IInv, NEW r \in Runners, Compute(r) PROVE IInv'
<1>1. /\ pc[r] = "compute" /\ job \in [Runners -> Job] /\ pc \in [Runners -> Places]
      /\ chain \in SUBSET Netuids /\ UNCHANGED <<chain, rows, meta, clock, started>>
      /\ meta' \subseteq ScoredNetuids
  BY DEF Compute, IInv, Typed, TypeOK, Places, MetadataFollowsScores, ScoredNetuids
<1>2. PICK targets \in Targets(r) :
        IF targets = {} \/ job[r].dry
        THEN Return(r)
        ELSE \E score \in [targets -> Scores] : \E rank \in Ranking(targets, score) :
               /\ job' = [job EXCEPT ![r].new = ScoredRows(targets, score, rank)]
               /\ Go(r, "save")
  BY DEF Compute
<1>3. targets \subseteq Netuids
  <2>1. job[r].want \in Wanted
    BY <1>1 DEF Job
  <2> QED
    BY <1>1, <2>1 DEF Targets, Wanted
<1>4. CASE targets = {} \/ job[r].dry
  BY <1>1, <1>2, <1>4, ReturnKeeps
<1>5. CASE ~(targets = {} \/ job[r].dry)
  <2>1. PICK score \in [targets -> Scores] : \E rank \in Ranking(targets, score) :
          /\ job' = [job EXCEPT ![r].new = ScoredRows(targets, score, rank)]
          /\ Go(r, "save")
    BY <1>2, <1>5
  <2>2. PICK rank \in Ranking(targets, score) :
          /\ job' = [job EXCEPT ![r].new = ScoredRows(targets, score, rank)]
          /\ Go(r, "save")
    BY <2>1
  <2> DEFINE R == ScoredRows(targets, score, rank)
             new == [job[r] EXCEPT !.new = R]
  <2>3. Whole(R)
    BY <1>3, ScoredIsWhole
  <2>4. R \in SUBSET Row
    BY <2>3 DEF Whole
  <2> HIDE DEF R
  <2>5. new \in Job /\ new.new = R /\ new.left = job[r].left
    BY <1>1, <2>4 DEF Job
  <2>6. job' = [job EXCEPT ![r] = new] /\ pc' = [pc EXCEPT ![r] = "save"]
    BY <1>1, <2>2 DEF Go, R
  <2>7. new.left \subseteq ScoredNetuids
    BY <2>5 DEF IInv, LeftScored
  <2> HIDE DEF new
  <2>8. Quiet(r, "save", new)
    BY <1>1, <2>3, <2>5, <2>6, <2>7 DEF Quiet, Places
  <2>9. r \in Stampless
    BY <1>1 DEF Stampless
  <2> QED
    BY <1>1, <2>8, <2>9, QuietKeeps
<1> QED
  BY <1>4, <1>5

LEMMA UpsertKeeps == ASSUME IInv, NEW r \in Runners, NEW n \in Netuids, Upsert(r, n) PROVE IInv'
<1>1. /\ pc[r] = "upsert" /\ n \in job[r].left /\ UNCHANGED <<chain, rows, clock, started>>
      /\ job \in [Runners -> Job] /\ pc \in [Runners -> Places]
  BY DEF Upsert, IInv, Typed, TypeOK, Places
<1>2. meta' \subseteq ScoredNetuids /\ job[r].left \subseteq ScoredNetuids
  BY <1>1 DEF Upsert, IInv, MetadataFollowsScores, ScoredNetuids, LeftScored
<1>3. CASE Return(r)
  BY <1>1, <1>2, <1>3, ReturnKeeps
<1>4. CASE job' = [job EXCEPT ![r].left = @ \ {n}] /\ UNCHANGED pc
  <2> DEFINE new == [job[r] EXCEPT !.left = @ \ {n}]
  <2>1. new \in Job /\ new.new = job[r].new /\ new.left \subseteq job[r].left
    BY <1>1 DEF Job
  <2>2. job' = [job EXCEPT ![r] = new] /\ pc' = [pc EXCEPT ![r] = "upsert"]
    BY <1>1, <1>4
  <2> HIDE DEF new
  <2>3. new.new = {}
    BY <1>1, <2>1 DEF IInv, JobWhole
  <2>4. Quiet(r, "upsert", new)
    BY <1>1, <1>2, <2>1, <2>2, <2>3 DEF Quiet, Places
  <2> QED
    BY <1>1, <1>2, <2>4, QuietKeeps
<1> QED
  BY <1>3, <1>4 DEF Upsert

LEMMA AbortKeeps == ASSUME IInv, NEW r \in Runners, Abort(r) PROVE IInv'
BY ReturnKeeps DEF Abort, IInv, MetadataFollowsScores, ScoredNetuids

-----------------------------------------------------------------------------
(* A stamp is later than every row of the table and every other stamp.       *)
LEMMA StampKeeps == ASSUME IInv, NEW r \in Runners, Stamp(r) PROVE IInv'
<1> DEFINE new == [job[r] EXCEPT !.new = Stamped(@, clock')]
<1>1. /\ pc[r] = "save" /\ clock' = clock + 1
      /\ UNCHANGED <<chain, rows, meta, started>>
      /\ pc' = [pc EXCEPT ![r] = "commit"] /\ job' = [job EXCEPT ![r] = new]
  BY DEF Stamp, Go, Stamped
<1>2. /\ job \in [Runners -> Job] /\ pc \in [Runners -> Places]
      /\ clock \in Nat /\ started \in Nat /\ started \in 0..MaxRuns
      /\ rows \in SUBSET Row /\ meta \in SUBSET Netuids
  BY ScoreRunsAssumption DEF IInv, Typed, TypeOK, Places
<1>3. r \in Stampless
  BY <1>1 DEF Stampless
<1> DEFINE n == Cardinality(Stampless)
           m == Cardinality(Stampless')
<1>4. m = n - 1 /\ n \in Nat /\ m \in Nat
  <2>1. Stampless' = Stampless \ {r}
    BY <1>1, <1>2 DEF Stampless
  <2>2. IsFiniteSet(Stampless \ {r}) /\ Cardinality(Stampless \ {r}) = Cardinality(Stampless) - 1
    BY <1>3, FiniteRunners, FS_RemoveElement
  <2> QED
    BY <2>1, <2>2, FiniteRunners, FS_CardinalityType
<1>5. clock + n <= started
  BY DEF IInv, StampsLast
<1> HIDE DEF m, n
<1>6. clock' + m <= started' /\ clock' \in 0..started' /\ clock' \in Unstamped..MaxRuns
  BY <1>1, <1>2, <1>4, <1>5, ScoreRunsAssumption DEF Unstamped
<1>7. StampsLast'
  BY <1>6 DEF StampsLast, m
<1>8. Whole(job[r].new)
  BY <1>1 DEF IInv, JobWhole
<1>9. Whole(Stamped(job[r].new, clock')) /\ \A a \in Stamped(job[r].new, clock') : a.at = clock'
  BY <1>6, <1>8, StampedIsWhole
<1>10. new \in Job /\ new.new = Stamped(job[r].new, clock') /\ new.left = job[r].left
  <2>1. Stamped(job[r].new, clock') \in SUBSET Row
    BY <1>9 DEF Whole
  <2> QED
    BY <1>2, <2>1 DEF Job
<1> HIDE DEF new
<1>11. Typed'
  BY <1>1, <1>2, <1>6, <1>10, TypedStep DEF Places
<1>12. \A t : RowsAt(t)' = RowsAt(t)
  BY <1>1 DEF RowsAt
<1>13. \A row \in rows : row.at \in 1..clock
  BY DEF IInv, TableWhole
<1>14. RowsAt(clock') = {}
  BY <1>1, <1>2, <1>13 DEF RowsAt
<1>15. TableWhole'
  <2>1. \A row \in rows' : row.at \in 1..clock'
    BY <1>1, <1>2, <1>13
  <2>2. ASSUME NEW t \in 1..clock' PROVE Whole(RowsAt(t))
    <3>1. CASE t = clock'
      BY <1>14, <3>1, EmptyWhole
    <3>2. CASE t # clock'
      <4>1. t \in 1..clock
        BY <1>1, <1>2, <3>2
      <4> QED
        BY <4>1 DEF IInv, TableWhole
    <3> QED
      BY <3>1, <3>2
  <2> QED
    BY <1>12, <2>1, <2>2 DEF TableWhole
<1>16. \A q \in Runners : /\ pc'[q] = IF q = r THEN "commit" ELSE pc[q]
                          /\ job'[q] = IF q = r THEN new ELSE job[q]
  BY <1>1, <1>2
<1>17. ASSUME NEW q \in Runners PROVE JobWhole(q)' /\ LeftScored(q)'
  <2>1. JobWhole(q)'
    BY <1>9, <1>10, <1>16 DEF IInv, JobWhole
  <2>2. LeftScored(q)'
    BY <1>1, <1>10, <1>16 DEF IInv, LeftScored, ScoredNetuids
  <2> QED
    BY <2>1, <2>2
<1>18. ASSUME NEW q \in Runners \ {r}, pc[q] = "commit", NEW a \in job[q].new
       PROVE  a.at \in 1..clock /\ a.at # clock'
  BY <1>1, <1>2, <1>18 DEF IInv, OwnStamp
<1>19. ASSUME NEW q \in Runners PROVE OwnStamp(q)'
  <2>1. CASE q = r
    <3>1. \A a \in job'[r].new : a.at = clock'
      BY <1>9, <1>10, <1>16
    <3>2. clock' \in 1..clock'
      BY <1>1, <1>2
    <3>3. \A p \in Runners \ {r} : pc'[p] = "commit" => \A b \in job'[p].new : b.at # clock'
      BY <1>16, <1>18
    <3> QED
      BY <1>12, <1>14, <2>1, <3>1, <3>2, <3>3 DEF OwnStamp
  <2>2. CASE q # r
    <3> SUFFICES ASSUME pc[q] = "commit", NEW a \in job[q].new
                 PROVE  /\ a.at \in 1..clock' /\ RowsAt(a.at) = {}
                        /\ \A b \in job[q].new : b.at = a.at
                        /\ \A p \in Runners \ {q} :
                             pc'[p] = "commit" => \A b \in job'[p].new : b.at # a.at
      BY <1>12, <1>16, <2>2 DEF OwnStamp
    <3>1. /\ a.at \in 1..clock /\ RowsAt(a.at) = {}
          /\ \A b \in job[q].new : b.at = a.at
          /\ \A p \in Runners \ {q} : pc[p] = "commit" => \A b \in job[p].new : b.at # a.at
      BY DEF IInv, OwnStamp
    <3>2. a.at \in 1..clock' /\ a.at # clock'
      BY <1>1, <1>2, <2>2, <3>1, <1>18
    <3>3. \A b \in job'[r].new : b.at = clock'
      BY <1>9, <1>10, <1>16
    <3>4. \A p \in Runners \ {q} : pc'[p] = "commit" => \A b \in job'[p].new : b.at # a.at
      BY <1>16, <3>1, <3>2, <3>3
    <3> QED
      BY <3>1, <3>2, <3>4
  <2> QED
    BY <2>1, <2>2
<1>20. MetadataFollowsScores'
  BY <1>1 DEF IInv, MetadataFollowsScores
<1> QED
  BY <1>7, <1>11, <1>15, <1>17, <1>19, <1>20 DEF IInv

(* The rows of a commit are all there are of their stamp.                    *)
LEMMA CommitKeeps == ASSUME IInv, NEW r \in Runners, Commit(r) PROVE IInv'
<1> DEFINE R == job[r].new
           left == {row.netuid : row \in R}
           new == [job[r] EXCEPT !.new = {}, !.left = left]
<1>1. /\ pc[r] = "commit" /\ rows' = rows \cup R
      /\ UNCHANGED <<chain, meta, clock, started>>
      /\ pc' = [pc EXCEPT ![r] = "upsert"] /\ job' = [job EXCEPT ![r] = new]
  BY DEF Commit, Go
<1>2. /\ job \in [Runners -> Job] /\ pc \in [Runners -> Places]
      /\ clock \in Nat /\ clock' \in 0..started' /\ started' \in 0..MaxRuns
      /\ rows \in SUBSET Row /\ meta \in SUBSET Netuids
  BY <1>1, ScoreRunsAssumption DEF IInv, Typed, TypeOK, Places
<1>3. Whole(R) /\ R \in SUBSET Row
  BY <1>1 DEF IInv, JobWhole, Whole
<1>4. /\ \A a \in R : /\ a.at \in 1..clock /\ RowsAt(a.at) = {}
                      /\ \A b \in R : b.at = a.at
                      /\ \A q \in Runners \ {r} :
                           pc[q] = "commit" => \A b \in job[q].new : b.at # a.at
  BY <1>1 DEF IInv, OwnStamp
<1> HIDE DEF R
<1>5. new \in Job /\ new.new = {} /\ new.left = left
  <2>1. left \subseteq Netuids
    BY <1>3 DEF Row
  <2> QED
    BY <1>2, <2>1 DEF Job
<1> HIDE DEF new
<1>6. Typed'
  BY <1>1, <1>2, <1>3, <1>5, TypedStep DEF Places
<1>7. StampsLast'
  BY <1>1, NoMoreStampless
<1>8. TableWhole'
  <2>1. \A row \in rows' : row.at \in 1..clock'
    BY <1>1, <1>4 DEF IInv, TableWhole
  <2>2. ASSUME NEW t \in 1..clock' PROVE Whole(RowsAt(t)')
    <3>1. Whole(RowsAt(t))
      BY <1>1 DEF IInv, TableWhole
    <3>2. CASE \E a \in R : a.at = t
      <4>1. RowsAt(t) = {} /\ \A b \in R : b.at = t
        BY <1>4, <3>2
      <4>2. RowsAt(t)' = R
        BY <1>1, <4>1 DEF RowsAt
      <4> QED
        BY <1>3, <4>2
    <3>3. CASE ~\E a \in R : a.at = t
      <4>1. RowsAt(t)' = RowsAt(t)
        BY <1>1, <3>3 DEF RowsAt
      <4> QED
        BY <3>1, <4>1
    <3> QED
      BY <3>2, <3>3
  <2> QED
    BY <2>1, <2>2 DEF TableWhole
<1>9. ScoredNetuids' = ScoredNetuids \cup left
  BY <1>1 DEF ScoredNetuids
<1>10. \A q \in Runners : /\ pc'[q] = IF q = r THEN "upsert" ELSE pc[q]
                          /\ job'[q] = IF q = r THEN new ELSE job[q]
  BY <1>1, <1>2
<1>11. ASSUME NEW q \in Runners PROVE JobWhole(q)' /\ LeftScored(q)'
  <2>1. JobWhole(q)'
    BY <1>5, <1>10 DEF IInv, JobWhole
  <2>2. LeftScored(q)'
    BY <1>5, <1>9, <1>10 DEF IInv, LeftScored
  <2> QED
    BY <2>1, <2>2
<1>12. ASSUME NEW q \in Runners PROVE OwnStamp(q)'
  <2> SUFFICES ASSUME pc'[q] = "commit", NEW a \in job'[q].new
               PROVE  /\ a.at \in 1..clock' /\ RowsAt(a.at)' = {}
                      /\ \A b \in job'[q].new : b.at = a.at
                      /\ \A p \in Runners \ {q} :
                           pc'[p] = "commit" => \A b \in job'[p].new : b.at # a.at
    BY DEF OwnStamp
  <2>1. q # r /\ pc[q] = "commit" /\ job'[q] = job[q]
    BY <1>10
  <2>2. /\ a.at \in 1..clock /\ RowsAt(a.at) = {}
        /\ \A b \in job[q].new : b.at = a.at
        /\ \A p \in Runners \ {q} : pc[p] = "commit" => \A b \in job[p].new : b.at # a.at
    BY <2>1 DEF IInv, OwnStamp
  <2>3. RowsAt(a.at)' = {}
    <3>1. \A b \in R : b.at # a.at
      BY <1>1, <2>1, <2>2 DEF R
    <3> QED
      BY <1>1, <2>2, <3>1 DEF RowsAt
  <2>4. \A p \in Runners \ {q} : pc'[p] = "commit" => pc[p] = "commit" /\ job'[p] = job[p]
    BY <1>10
  <2> QED
    BY <1>1, <2>1, <2>2, <2>3, <2>4
<1>13. MetadataFollowsScores'
  BY <1>1 DEF IInv, MetadataFollowsScores
<1> QED
  BY <1>6, <1>7, <1>8, <1>11, <1>12, <1>13 DEF IInv

LEMMA NextIInv == IInv /\ [Next]_vars => IInv'
<1> SUFFICES ASSUME IInv, [Next]_vars PROVE IInv'
  OBVIOUS
<1>1. ASSUME NEW n \in Subnets, Register(n) PROVE IInv'
  BY <1>1, RegisterKeeps
<1>2. ASSUME NEW r \in Runners, NEW want \in Wanted, NEW dry \in {FALSE, AllowDry},
             Begin(r, want, dry)
      PROVE  IInv'
  BY <1>2, BeginKeeps
<1>3. ASSUME NEW r \in Runners, Refresh(r) PROVE IInv'
  BY <1>3, RefreshKeeps
<1>4. ASSUME NEW r \in Runners, Compute(r) PROVE IInv'
  BY <1>4, ComputeKeeps
<1>5. ASSUME NEW r \in Runners, Stamp(r) PROVE IInv'
  BY <1>5, StampKeeps
<1>6. ASSUME NEW r \in Runners, Commit(r) PROVE IInv'
  BY <1>6, CommitKeeps
<1>7. ASSUME NEW r \in Runners, NEW n \in Netuids, Upsert(r, n) PROVE IInv'
  BY <1>7, UpsertKeeps
<1>8. ASSUME NEW r \in Runners, Abort(r) PROVE IInv'
  BY <1>8, AbortKeeps
<1>9. CASE UNCHANGED vars
  <2>1. Typed' /\ StampsLast' /\ TableWhole' /\ MetadataFollowsScores'
    BY <1>9 DEF vars, IInv, Typed, TypeOK, StampsLast, Stampless, TableWhole, RowsAt,
                MetadataFollowsScores
  <2>2. \A r \in Runners : JobWhole(r)' /\ OwnStamp(r)' /\ LeftScored(r)'
    BY <1>9 DEF vars, IInv, JobWhole, OwnStamp, LeftScored, ScoredNetuids, RowsAt
  <2> QED
    BY <2>1, <2>2 DEF IInv
<1> QED
  BY <1>1, <1>2, <1>3, <1>4, <1>5, <1>6, <1>7, <1>8, <1>9 DEF Next

LEMMA IInvAgrees == IInv => RanksAgree
<1> SUFFICES ASSUME IInv PROVE RanksAgree
  OBVIOUS
<1>1. ASSUME NEW row \in rows PROVE Whole(RowsAt(row.at)) /\ row \in RowsAt(row.at)
  BY DEF IInv, TableWhole, RowsAt
<1>2. ASSUME NEW row \in Investable(rows)
      PROVE  /\ row.rank \in 1..Cardinality(Investable(RowsAt(row.at)))
             /\ \A other \in Investable(RowsAt(row.at)) :
                  /\ other.rank = row.rank => other = row
                  /\ RecomputedRank(other) = row.rank => other.score = row.score
  <2>1. Whole(RowsAt(row.at)) /\ row \in Investable(RowsAt(row.at))
    BY <1>1 DEF Investable
  <2>2. row.rank \in 1..Cardinality(Investable(RowsAt(row.at)))
    BY <2>1, RankedRows
  <2>3. \A other \in Investable(RowsAt(row.at)) : other.rank = row.rank => other = row
    BY <2>1 DEF Whole
  <2>4. \A other \in Investable(RowsAt(row.at)) :
          RecomputedRank(other) = row.rank => other.score = row.score
    BY <2>1, RecomputedAgrees
  <2> QED
    BY <2>2, <2>3, <2>4
<1>3. ASSUME NEW a \in LatestRows, NEW b \in LatestRows, a.netuid = b.netuid PROVE a = b
  <2>1. a \in rows /\ b \in rows /\ a.at <= b.at /\ b.at <= a.at
    BY <1>3 DEF LatestRows
  <2>2. a.at \in 1..clock /\ b.at \in 1..clock /\ clock \in Int
    BY <2>1, ScoreRunsAssumption DEF IInv, TableWhole, Typed, TypeOK
  <2>3. a.at = b.at
    BY <2>1, <2>2
  <2> QED
    BY <1>1, <1>3, <2>1, <2>3 DEF RowsAt, Whole
<1> QED
  BY <1>2, <1>3 DEF RanksAgree

(* Processes that run at once, score single subnets and die anywhere never   *)
(* leave a table whose ranks have gaps or repeat within a run, disagree with *)
(* the recomputed ones, or give a subnet two newest rows.                    *)
THEOREM RanksAlwaysAgree == Spec => []RanksAgree
<1> QED
  BY InitIInv, NextIInv, IInvAgrees, PTL DEF Spec

(* No subnet has metadata without a committed score.                         *)
THEOREM ScoresComeFirst == Spec => []MetadataFollowsScores
<1>1. IInv => MetadataFollowsScores
  BY DEF IInv
<1> QED
  BY <1>1, InitIInv, NextIInv, PTL DEF Spec

(* The table, the jobs and the clock are well typed; in particular the runs  *)
(* never need more stamps than there are runs.                               *)
THEOREM ScoreRunsTypeOK == Spec => []TypeOK
<1>1. IInv => TypeOK
  BY DEF IInv, Typed
<1> QED
  BY <1>1, InitIInv, NextIInv, PTL DEF Spec
=============================================================================

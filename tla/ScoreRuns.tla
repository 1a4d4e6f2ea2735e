------------------------------ MODULE ScoreRuns ------------------------------
(***************************************************************************)
(* run() in scorer/run.py from the list of subnets to the metadata rows,    *)
(* and what scorer/database.py reads back: the runs of several processes    *)
(* (the scheduler, a CLI call, the daily workflow) write one table of       *)
(* scores.  The chain calls are ChainCalls, the refresh of the external     *)
(* snapshots is ExternalSnapshots, the value of a score is SignalDrift.     *)
(***************************************************************************)
EXTENDS Integers, FiniteSets, Functions

CONSTANTS
  Runners,  \* processes that execute run()
  Subnets,  \* netuids of subnets other than the root subnet
  Scores,   \* scores of a subnet
  MaxRuns,  \* bound: runs
  AllowDry, \* whether --dry-run is used
  AllowOne  \* whether --netuid is used

Root == 0
Netuids == Subnets \cup {Root}

ASSUME ScoreRunsAssumption ==
  /\ Runners # {} /\ IsFiniteSet(Runners)
  /\ Subnets \subseteq Nat \ {Root} /\ IsFiniteSet(Subnets)
  /\ Scores \subseteq Nat
  /\ MaxRuns \in Nat
  /\ AllowDry \in BOOLEAN /\ AllowOne \in BOOLEAN

VARIABLES
  chain,      \* the subnets registered on the chain
  rows,       \* the table subnet_scores
  meta,       \* the netuids with a row in subnet_metadata
  clock,      \* the last time a run took for its rows
  started,    \* runs begun so far
  pc,         \* per runner: where run() is
  job         \* per runner: its run

vars == <<chain, rows, meta, clock, started, pc, job>>

NoRank == 0
Unstamped == 0
Row == [at : Unstamped..MaxRuns, netuid : Netuids, score : Scores, rank : Nat]

(* No --netuid stands for all subnets.                                      *)
Wanted == {{}} \cup (IF AllowOne THEN {{n} : n \in Netuids} ELSE {})
NoJob == [want |-> {}, dry |-> FALSE, new |-> {}, left |-> {}]

TypeOK ==
  /\ chain \in SUBSET Netuids
  /\ rows \in SUBSET Row
  /\ meta \in SUBSET Netuids
  /\ clock \in 0..started /\ started \in 0..MaxRuns
  /\ pc \in [Runners -> {"idle", "refresh", "compute", "save", "commit", "upsert"}]
  /\ \A r \in Runners :
       /\ job[r].want \in Wanted
       /\ job[r].dry \in BOOLEAN
       /\ job[r].new \in SUBSET Row
       /\ job[r].left \in SUBSET Netuids

-----------------------------------------------------------------------------
Investable(R) == {row \in R : row.netuid # Root}

(* What compute_all_subnets returns: the subnets that are not the root are  *)
(* ranked by descending score; ties keep the order of the subnet list,      *)
(* which may be any.                                                        *)
Ranking(targets, score) ==
  LET ranked == targets \ {Root}
  IN {rank \in Bijection(ranked, 1..Cardinality(ranked)) :
        \A m, n \in ranked : score[m] > score[n] => rank[m] < rank[n]}

ScoredRows(targets, score, rank) ==
  {[at |-> Unstamped, netuid |-> n, score |-> score[n],
    rank |-> IF n = Root THEN NoRank ELSE rank[n]] : n \in targets}

Go(r, to) == pc' = [pc EXCEPT ![r] = to]

Return(r) == Go(r, "idle") /\ job' = [job EXCEPT ![r] = NoJob]

-----------------------------------------------------------------------------
Init ==
  /\ chain = Netuids
  /\ rows = {} /\ meta = {}
  /\ clock = 0 /\ started = 0
  /\ pc = [r \in Runners |-> "idle"]
  /\ job = [r \in Runners |-> NoJob]

(* A subnet is deregistered, or its netuid registered again.                *)
Register(n) ==
  /\ chain' = IF n \in chain THEN chain \ {n} ELSE chain \cup {n}
  /\ UNCHANGED <<rows, meta, clock, started, pc, job>>

Begin(r, want, dry) ==
  /\ pc[r] = "idle"
  /\ started < MaxRuns
  /\ started' = started + 1
  /\ job' = [job EXCEPT ![r] = [NoJob EXCEPT !.want = want, !.dry = dry]]
  /\ Go(r, "refresh")
  /\ UNCHANGED <<chain, rows, meta, clock>>

(* The subnets of a run: the one asked for, else what the chain lists when  *)
(* it is asked, nothing when it does not answer.                            *)
Targets(r) == IF job[r].want # {} THEN {job[r].want} ELSE {chain, {}}

(* refresh_external_data_snapshots comes first, in a dry run too; what it   *)
(* lists and writes is the matter of ExternalSnapshots.                     *)
Refresh(r) ==
  /\ pc[r] = "refresh"
  /\ Go(r, "compute")
  /\ UNCHANGED <<chain, rows, meta, clock, started, job>>

(* compute_all_subnets lists the subnets a second time.                     *)
Compute(r) ==
  /\ pc[r] = "compute"
  /\ \E targets \in Targets(r) :
       IF targets = {} \/ job[r].dry
       THEN Return(r)
       ELSE \E score \in [targets -> Scores] : \E rank \in Ranking(targets, score) :
              /\ job' = [job EXCEPT ![r].new = ScoredRows(targets, score, rank)]
              /\ Go(r, "save")
  /\ UNCHANGED <<chain, rows, meta, clock, started>>

(* Mutants of Stamp: the clock is read twice; metadata is upserted before   *)
(* the scores are committed.                                                *)
StampTwice(r) ==
  /\ pc[r] = "save"
  /\ clock' = clock + 2
  /\ job' = [job EXCEPT ![r].new = {[row EXCEPT !.at = clock'] : row \in @}]
  /\ Go(r, "commit")
  /\ UNCHANGED <<chain, rows, meta, started>>

StampAfterMetadata(r) ==
  /\ pc[r] = "save"
  /\ clock' = clock + 1
  /\ meta' = meta \cup {row.netuid : row \in job[r].new}
  /\ job' = [job EXCEPT ![r].new = {[row EXCEPT !.at = clock'] : row \in @}]
  /\ Go(r, "commit")
  /\ UNCHANGED <<chain, rows, started>>

(* save_scores: every row gets the time at which they are built ...         *)
Stamp(r) ==
  /\ pc[r] = "save"
  /\ clock' = clock + 1
  /\ job' = [job EXCEPT ![r].new = {[row EXCEPT !.at = clock'] : row \in @}]
  /\ Go(r, "commit")
  /\ UNCHANGED <<chain, rows, meta, started>>

(* Mutant of Commit: the rows are committed one by one.                     *)
CommitRowByRow(r) ==
  /\ pc[r] = "commit"
  /\ \E row \in job[r].new :
       /\ rows' = rows \cup {row}
       /\ job' = [job EXCEPT ![r].new = @ \ {row}, ![r].left = @ \cup {row.netuid}]
       /\ Go(r, IF job[r].new = {row} THEN "upsert" ELSE "commit")
  /\ UNCHANGED <<chain, meta, clock, started>>

(* ... and one commit stores them.                                          *)
Commit(r) ==
  /\ pc[r] = "commit"
  /\ rows' = rows \cup job[r].new
  /\ job' = [job EXCEPT ![r].new = {}, ![r].left = {row.netuid : row \in job[r].new}]
  /\ Go(r, "upsert")
  /\ UNCHANGED <<chain, meta, clock, started>>

(* upsert_metadata, one commit per subnet; the run returns after the last.  *)
Upsert(r, n) ==
  /\ pc[r] = "upsert" /\ n \in job[r].left
  /\ meta' = meta \cup {n}
  /\ IF job[r].left = {n}
     THEN Return(r)
     ELSE /\ job' = [job EXCEPT ![r].left = @ \ {n}]
          /\ UNCHANGED pc
  /\ UNCHANGED <<chain, rows, clock, started>>

(* The process dies, or a step raises: names and identities are fetched     *)
(* after the scores are committed, without return_exceptions.               *)
Abort(r) ==
  /\ pc[r] # "idle"
  /\ Return(r)
  /\ UNCHANGED <<chain, rows, meta, clock, started>>

Next ==
  \/ \E n \in Subnets : Register(n)
  \/ \E r \in Runners :
       \/ \E want \in Wanted, dry \in {FALSE, AllowDry} : Begin(r, want, dry)
       \/ Refresh(r)
       \/ Compute(r)
       \/ Stamp(r)
       \/ Commit(r)
       \/ \E n \in Netuids : Upsert(r, n)
       \/ Abort(r)

Spec == Init /\ [][Next]_vars

-----------------------------------------------------------------------------
(* What the API reads.                                                      *)
RowsAt(t) == {row \in rows : row.at = t}

(* get_latest_scores: the newest row of every netuid.                       *)
LatestRows ==
  {row \in rows : \A other \in rows : other.netuid = row.netuid => other.at <= row.at}

(* get_previous_run_ranks: the ranks of a run recomputed from its rows.     *)
RecomputedRank(row) ==
  LET above == {other \in Investable(RowsAt(row.at)) :
                  \/ other.score > row.score
                  \/ other.score = row.score /\ other.netuid < row.netuid}
  IN 1 + Cardinality(above)

(* Runs of several processes may interleave, and die at any point: the rows *)
(* of one stamp are those of one whole run, so the ranks stored with them   *)
(* number its subnets without gaps, and agree, up to ties, with the ranks   *)
(* that are recomputed to show how a subnet moved; and a subnet has one     *)
(* newest row.                                                              *)
RanksAgree ==
  /\ \A row \in Investable(rows) :
       /\ row.rank \in 1..Cardinality(Investable(RowsAt(row.at)))
       /\ \A other \in Investable(RowsAt(row.at)) :
            /\ other.rank = row.rank => other = row
            /\ RecomputedRank(other) = row.rank => other.score = row.score
  /\ \A a, b \in LatestRows : a.netuid = b.netuid => a = b

(* A subnet gets its metadata row, with the date the API shows as first     *)
(* seen, only once a score of it is committed.                              *)
MetadataFollowsScores == meta \subseteq {row.netuid : row \in rows}
=============================================================================

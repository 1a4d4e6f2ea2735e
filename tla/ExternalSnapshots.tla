-------------------------- MODULE ExternalSnapshots --------------------------
(***************************************************************************)
(* The external evidence of each subnet: scorer/external_data_snapshot.py   *)
(* asks TaoStats and the subnet's identity which repository is the          *)
(* subnet's, asks GitHub for its commits and its statistics, and replaces   *)
(* the subnet's row of external_data_snapshots.  What could not be fetched  *)
(* is carried over from the row that was there when the refresh began.      *)
(*                                                                          *)
(* A refresher is a process running the refresh: the scheduler, the CI job, *)
(* the command line.  All of them write to one database.  The content of an *)
(* answer of GitHub is the version the repository had when it was given.    *)
(***************************************************************************)
EXTENDS Integers, FiniteSets

CONSTANTS
  Refreshers,  \* processes that run the refresh
  Netuids,     \* subnets
  Repos,       \* repositories
  NoRepo,      \* no repository is known
  Identity,    \* [Netuids -> Repos \cup {NoRepo}]: github_url of the identity
  Known,       \* repositories of which there is evidence from an earlier refresh
  MaxVersion,  \* bound on the pushes to one repository
  MaxRuns      \* bound on the number of refreshes

ASSUME ExternalSnapshotsAssumption ==
  /\ NoRepo \notin Repos
  /\ Identity \in [Netuids -> Repos \cup {NoRepo}]
  /\ Known \subseteq Repos
  /\ MaxVersion \in Nat
  /\ MaxRuns \in Nat

VARIABLES
  version,   \* version[p]: pushes to repository p so far
  mapped,    \* mapped[n]: the entry of n in data/github_map.json
  row,       \* row[n]: the subnet's row of external_data_snapshots
  runs,      \* refreshes begun so far
  pc,        \* pc[r]: what refresher r does next
  job        \* job[r]: the local variables of refresher r

vars == <<version, mapped, row, runs, pc, job>>

RepoOrNone == Repos \cup {NoRepo}

(* One half of the evidence, the commit summary or the repository's stats.  *)
(* It is dated when it has a last_commit_at, or a last_push.  `run` is the  *)
(* refresh that fetched it.                                                 *)
None == [repo |-> NoRepo, version |-> 0, dated |-> FALSE, run |-> 0]
Evidence == [repo : RepoOrNone, version : 0..MaxVersion, dated : BOOLEAN,
             run : 0..MaxRuns]

Statuses == {"absent", "unmapped", "active_repo", "mapped_no_data",
             "stale_repo", "fetch_failed"}

(* One row.  `run` is its fetched_at, the refresh that wrote it last; it is   *)
(* torn when it is not what one refresh made, or was made from such a row.   *)
Row == [repo : RepoOrNone, status : Statuses, commits : Evidence,
        stats : Evidence, run : 0..MaxRuns, torn : BOOLEAN]
Blank(status, run) == [repo |-> NoRepo, status |-> status, commits |-> None,
                       stats |-> None, run |-> run, torn |-> FALSE]
NoRow == Blank("absent", 0)

(* What a refresh before all of these left of repository p.                  *)
Earlier(p) ==
  LET seen == [repo |-> p, version |-> 0, dated |-> TRUE, run |-> 0]
  IN  [repo |-> p, status |-> "active_repo", commits |-> seen, stats |-> seen,
       run |-> 0, torn |-> FALSE]

(* A fetch in progress, and one that returned None.                         *)
Pending == [answer |-> "pending", evidence |-> None]
Failed  == [answer |-> "failed", evidence |-> None]
Answers == [answer : {"pending", "failed", "ok"}, evidence : Evidence]

(* The locals of one refresh, and of the netuid it is at.                   *)
Job == [run : 0..MaxRuns, asked : SUBSET Netuids, todo : SUBSET Netuids,
        existing : [Netuids -> Row], links : [Netuids -> RepoOrNone],
        netuid : Netuids \cup {NoRepo}, repo : RepoOrNone,
        commits : Answers, stats : Answers, snapshot : Row, read : Row]

Idle == [run |-> 0, asked |-> {}, todo |-> {},
         existing |-> [n \in Netuids |-> NoRow], links |-> [n \in Netuids |-> NoRepo],
         netuid |-> NoRepo, repo |-> NoRepo,
         commits |-> Pending, stats |-> Pending, snapshot |-> NoRow, read |-> NoRow]

(* The locals of one netuid are dead once its row is written.               *)
Forget(j) == [j EXCEPT !.existing[j.netuid] = NoRow,
                       !.netuid = NoRepo, !.commits = Pending, !.stats = Pending,
                       !.snapshot = NoRow, !.read = NoRow]

TypeOK ==
  /\ version \in [Repos -> 0..MaxVersion]
  /\ mapped \in [Netuids -> RepoOrNone]
  /\ row \in [Netuids -> Row]
  /\ runs \in 0..MaxRuns
  /\ pc \in [Refreshers -> {"idle", "links", "next", "fetch", "commit",
                            "done", "crashed"}]
  /\ job \in [Refreshers -> Job]

Init ==
  /\ version = [p \in Repos |-> 0]
  /\ mapped = [n \in Netuids |-> NoRepo]
  /\ row \in [Netuids -> {NoRow} \cup {Earlier(p) : p \in Known}]
  /\ runs = 0
  /\ pc = [r \in Refreshers |-> "idle"]
  /\ job = [r \in Refreshers |-> Idle]

-----------------------------------------------------------------------------
(* GitHub.                                                                  *)
Push(p) ==
  /\ version[p] < MaxVersion
  /\ version' = [version EXCEPT ![p] = @ + 1]
  /\ UNCHANGED <<mapped, row, runs, pc, job>>

(* create_tables, then the rows as they are now, then the netuids: the one  *)
(* asked for, all of the chain's, or none when the chain does not answer.   *)
(* Rows and links of other netuids are never looked at, and left out.       *)
Begin(r) ==
  /\ pc[r] \in {"idle", "done", "crashed"} /\ runs < MaxRuns
  /\ runs' = runs + 1
  /\ \E asked \in SUBSET Netuids :
       job' = [job EXCEPT ![r] = [Idle EXCEPT !.run = runs + 1, !.asked = asked,
                                              !.todo = asked,
                          !.existing = [n \in Netuids |-> IF n \in asked THEN row[n] ELSE NoRow]]]
  /\ pc' = [pc EXCEPT ![r] = IF job'[r].todo = {} THEN "done" ELSE "links"]
  /\ UNCHANGED <<version, mapped, row>>

(* The scrape of the TaoStats page, which links a subnet to one repository   *)
(* today and to another or to none tomorrow; a failure leaves no links.      *)
ScrapeLinks(r) ==
  /\ pc[r] = "links"
  /\ \E links \in [Netuids -> RepoOrNone] :
       /\ \A n \in Netuids \ job[r].todo : links[n] = NoRepo
       /\ job' = [job EXCEPT ![r].links = links]
  /\ pc' = [pc EXCEPT ![r] = "next"]
  /\ UNCHANGED <<version, mapped, row, runs>>

Finish(r) ==
  /\ pc[r] = "next" /\ job[r].todo = {}
  /\ pc' = [pc EXCEPT ![r] = "done"]
  /\ job' = [job EXCEPT ![r] = [Idle EXCEPT !.run = job[r].run, !.asked = job[r].asked]]
  /\ UNCHANGED <<version, mapped, row, runs>>

(* upsert_external_data_snapshot with the snapshot of j's netuid: first     *)
(* session.get, which finds the row to be updated, or that there is none.    *)
(* What the snapshot was made of is dead from here on.                      *)
Store(r, j, snapshot) ==
  /\ job' = [job EXCEPT ![r] = [j EXCEPT !.snapshot = snapshot,
                                         !.read = row[j.netuid],
                                         !.repo = NoRepo,
                                         !.commits.evidence = None,
                                         !.stats.evidence = None]]
  /\ pc' = [pc EXCEPT ![r] = "commit"]

(* The next netuid and its repository: the TaoStats link, else the cached    *)
(* entry of github_map.json, else the identity of the chain when it answers, *)
(* and the entry is cached for good.                                        *)
Resolve(r, n) ==
  /\ pc[r] = "next" /\ n \in job[r].todo
  /\ \E answers \in BOOLEAN :
       mapped' = IF job[r].links[n] = NoRepo /\ mapped[n] = NoRepo /\ answers
                 THEN [mapped EXCEPT ![n] = Identity[n]]
                 ELSE mapped
  /\ LET repo == IF job[r].links[n] # NoRepo THEN job[r].links[n] ELSE mapped'[n]
         j    == [job[r] EXCEPT !.netuid = n, !.todo = @ \ {n}, !.links[n] = NoRepo,
                                !.repo = repo]
     IN  IF repo # NoRepo
         THEN job' = [job EXCEPT ![r] = j] /\ pc' = [pc EXCEPT ![r] = "fetch"]
         ELSE Store(r, j, Blank("unmapped", j.run))
  /\ UNCHANGED <<version, row, runs>>

(* Mutant of Answer: GitHub's replies are kept and given again.             *)
AnswerFromMemory(r, half) ==
  /\ pc[r] = "fetch" /\ job[r][half] = Pending
  /\ \E dated \in BOOLEAN, seen \in 0..version[job[r].repo] :
       job' = [job EXCEPT ![r][half] =
         [answer |-> "ok", evidence |-> [repo |-> job[r].repo, version |-> seen,
                                         dated |-> dated, run |-> job[r].run]]]
  /\ UNCHANGED <<version, mapped, row, runs, pc>>

(* The two requests of the gather answer in any order: with what the        *)
(* repository holds at that moment, which may have no date in it, or with   *)
(* None after the retries.                                                  *)
Answer(r, half) ==
  /\ pc[r] = "fetch" /\ job[r][half] = Pending
  /\ \E dated \in BOOLEAN, ok \in BOOLEAN :
       job' = [job EXCEPT ![r][half] =
         IF ok THEN [answer |-> "ok",
                     evidence |-> [repo |-> job[r].repo, version |-> version[job[r].repo],
                                   dated |-> dated, run |-> job[r].run]]
               ELSE Failed]
  /\ UNCHANGED <<version, mapped, row, runs, pc>>

(* A reply that cannot be decoded, or an identity call that raises: the     *)
(* exception takes the whole subnet with it.                                *)
RaiseInFetch(r) ==
  /\ pc[r] = "fetch" /\ Pending \in {job[r].commits, job[r].stats}
  /\ Store(r, job[r], Blank("fetch_failed", job[r].run))
  /\ UNCHANGED <<version, mapped, row, runs>>

RaiseInResolve(r, n) ==
  /\ pc[r] = "next" /\ n \in job[r].todo
  /\ job[r].links[n] = NoRepo /\ mapped[n] = NoRepo
  /\ Store(r, [job[r] EXCEPT !.netuid = n, !.todo = @ \ {n}, !.links[n] = NoRepo],
              Blank("fetch_failed", job[r].run))
  /\ UNCHANGED <<version, mapped, row, runs>>

(* Mutants of CarriedOver: evidence of any repository is carried over; the   *)
(* date of the commits stands for both halves; the whole row is carried     *)
(* over in the place of its half.                                           *)
CarriedFromAnyRepo(existing, half, got, repo) ==
  IF got.answer = "failed" /\ existing[half].dated
  THEN existing[half]
  ELSE got.evidence

CarriedWithCommits(existing, half, got, repo) ==
  IF got.answer = "failed" /\ existing.repo = repo /\ existing.commits.dated
  THEN existing[half]
  ELSE got.evidence

CarriedWhole(existing, half, got, repo) ==
  IF got.answer = "failed" /\ existing.repo = repo /\ existing[half].dated
  THEN existing
  ELSE got.evidence

(* A half that could not be fetched is the half of the existing row when    *)
(* that row is about the same repository and its half is dated.             *)
CarriedOver(existing, half, got, repo) ==
  IF got.answer = "failed" /\ existing.repo = repo /\ existing[half].dated
  THEN existing[half]
  ELSE got.evidence

(* Mutant of Status: the failed halves are forgotten.                       *)
StatusOfContent(existing, commits, stats, got) ==
  IF commits.dated \/ stats # None THEN "active_repo" ELSE "mapped_no_data"

Status(existing, commits, stats, got) ==
  IF \E half \in {"commits", "stats"} :
       got[half].answer = "failed" /\ existing[half].dated
  THEN "stale_repo"
  ELSE IF commits.dated \/ stats # None THEN "active_repo" ELSE "mapped_no_data"

Assemble(r) ==
  /\ pc[r] = "fetch" /\ Pending \notin {job[r].commits, job[r].stats}
  /\ LET j        == job[r]
         existing == j.existing[j.netuid]
         commits  == CarriedOver(existing, "commits", j.commits, j.repo)
         stats    == CarriedOver(existing, "stats", j.stats, j.repo)
     IN  Store(r, j, [repo |-> j.repo, status |-> Status(existing, commits, stats, j),
                      commits |-> commits, stats |-> stats, run |-> j.run,
                      torn |-> existing.torn /\ Failed \in {j.commits, j.stats}])
  /\ UNCHANGED <<version, mapped, row, runs>>

(* What an UPDATE leaves of a row that holds `now`: it names only the columns *)
(* that `new` changes in the row as session.get read it.  The name of a      *)
(* repository and a half of the evidence are several columns, some of which  *)
(* two values may share: with `now` they may become a mixture of both, and   *)
(* of two names even the name of a third repository.                         *)
ColumnAfter(now, read, new) == IF new = read THEN now ELSE new

NameAfter(now, read, new) ==
  IF new \in {read, NoRepo} \/ now = read THEN {ColumnAfter(now, read, new)} ELSE RepoOrNone

Mixed(dated) == [None EXCEPT !.dated = dated]
HalfAfter(now, read, new) ==
  IF now = read THEN {new} ELSE {new, now, Mixed(new.dated), Mixed(now.dated)}

Updated(now, read, new) ==
  [repo    : NameAfter(now.repo, read.repo, new.repo),
   status  : {ColumnAfter(now.status, read.status, new.status)},
   commits : HalfAfter(now.commits, read.commits, new.commits),
   stats   : HalfAfter(now.stats, read.stats, new.stats),
   run     : {new.run},
   torn    : {new.torn \/ now # read}]

(* The commit.  An insert of a row that another refresher has inserted in   *)
(* between violates the primary key, and nothing catches that.              *)
Commit(r) ==
  /\ pc[r] = "commit"
  /\ LET n == job[r].netuid
         insert == job[r].read = NoRow
         clash == insert /\ row[n] # NoRow
     IN  /\ \E stored \in IF insert THEN {job[r].snapshot}
                           ELSE Updated(row[n], job[r].read, job[r].snapshot) :
              row' = IF clash THEN row ELSE [row EXCEPT ![n] = stored]
         /\ pc' = [pc EXCEPT ![r] = IF clash THEN "crashed" ELSE "next"]
  /\ job' = [job EXCEPT ![r] = Forget(@)]
  /\ UNCHANGED <<version, mapped, runs>>

(* The process is killed, or the database does not answer.                  *)
Crash(r) ==
  /\ pc[r] \notin {"idle", "done", "crashed"}
  /\ pc' = [pc EXCEPT ![r] = "crashed"]
  /\ job' = [job EXCEPT ![r] = Idle]
  /\ UNCHANGED <<version, mapped, row, runs>>

Step(r) ==
  \/ Begin(r) \/ ScrapeLinks(r) \/ Finish(r)
  \/ \E n \in Netuids : Resolve(r, n) \/ RaiseInResolve(r, n)
  \/ \E half \in {"commits", "stats"} : Answer(r, half)
  \/ RaiseInFetch(r) \/ Assemble(r) \/ Commit(r) \/ Crash(r)

Next ==
  \/ \E r \in Refreshers : Step(r)
  \/ \E p \in Repos : Push(p)

Spec == Init /\ [][Next]_vars

-----------------------------------------------------------------------------
Halves == {"commits", "stats"}

(* A row that is not torn holds evidence of the repository it names, even    *)
(* when the link moves to another repository while fetches fail and rows are *)
(* carried over (the owner and repo comparison at the head of the            *)
(* carry-over).                                                              *)
EvidenceOfNamedRepo ==
  \A n \in Netuids, half \in Halves :
    ~row[n].torn /\ row[n][half] # None => row[n][half].repo = row[n].repo

(* "active_repo" is only said of evidence that the refresh that wrote the   *)
(* row fetched itself: what is carried over is labelled otherwise, and a row *)
(* of two refreshes is torn.                                                 *)
ActiveMeansFetched ==
  \A n \in Netuids : ~row[n].torn /\ row[n].status = "active_repo" =>
    \A half \in Halves : row[n][half] # None => row[n][half].run = row[n].run

(* Nobody has written the row of n since refresher r first read it, nor      *)
(* between its session.get and its commit.                                   *)
Undisturbed(r, n) ==
  /\ job[r].netuid = n
  /\ row[n] = job[r].existing[n] /\ row[n] = job[r].read

(* Unless another refresher wrote the row in between, a refresh never puts  *)
(* older evidence of a repository in the place of newer evidence of it,     *)
(* carried over or fetched, whatever moves between its reads and its commit *)
(* (the carry-over of external_data_snapshot.py).                           *)
EvidenceNeverOlder ==
  [][\A r \in Refreshers, n \in Netuids, half \in Halves :
       (Commit(r) /\ Undisturbed(r, n) /\ row'[n][half].repo = row[n][half].repo) =>
         row'[n][half].version >= row[n][half].version]_vars

(* Unless another refresher wrote the row in between, dated evidence of the  *)
(* repository a row names is lost only when the row goes to another          *)
(* repository (or to none), or when GitHub answered this refresh without a   *)
(* date.                                                                     *)
NoSilentLoss ==
  [][\A r \in Refreshers, n \in Netuids, half \in Halves :
       (/\ Commit(r) /\ Undisturbed(r, n)
        /\ row[n].repo # NoRepo /\ row'[n].repo = row[n].repo
        /\ row[n][half].dated /\ ~row'[n][half].dated)
         => job[r][half].answer = "ok"]_vars

(* A subnet whose fetch fails does not cost the others theirs: a refresh    *)
(* that ends, when no other ever began, has written every row it was asked  *)
(* for (the except of refresh_external_data_snapshots).  It is proved, for   *)
(* any number of subnets: the instance that TLC checks has one.              *)
Alone(r) == \A o \in Refreshers \ {r} : pc[o] = "idle"
EveryNetuidRefreshed ==
  \A r \in Refreshers : (pc[r] = "done" /\ Alone(r)) =>
    \A n \in job[r].asked : row[n].run = job[r].run
=============================================================================

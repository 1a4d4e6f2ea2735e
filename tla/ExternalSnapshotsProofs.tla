---------------------- MODULE ExternalSnapshotsProofs ----------------------
(* What the stored evidence is evidence of, for any number of refreshers,    *)
(* subnets, repositories and refreshes.                                      *)
EXTENDS ExternalSnapshots, TLAPS

(* A half of a row, or of a snapshot to be stored.                           *)
HalfOK(x, e) ==
  /\ e = None \/ e.repo = x.repo
  /\ x.status = "active_repo" => e = None \/ e.run = x.run

RowOK(x) == ~x.torn => HalfOK(x, x.commits) /\ HalfOK(x, x.stats)

(* An answer is about the repository being asked for, by this refresh.       *)
AnswerOK(j, a) ==
  /\ a.evidence = None \/ (a.evidence.repo = j.repo /\ a.evidence.run = j.run)
  /\ a.answer # "ok" => a.evidence = None

(* The locals j of a refresher that is at p.                                 *)
LocalsOK(p, j) ==
  /\ RowOK(j.snapshot) /\ \A n \in Netuids : RowOK(j.existing[n])
  /\ AnswerOK(j, j.commits) /\ AnswerOK(j, j.stats)
  /\ p \in {"fetch", "commit"} => j.netuid \in Netuids
  /\ p = "fetch" => j.repo \in Repos
  /\ p \notin {"fetch", "commit"} => j.commits = Pending /\ j.stats = Pending

IInv ==
  /\ TypeOK
  /\ \A n \in Netuids : RowOK(row[n])
  /\ \A r \in Refreshers : LocalsOK(pc[r], job[r])

Places == {"idle", "links", "next", "fetch", "commit", "done", "crashed"}

-----------------------------------------------------------------------------
LEMMA NoneIsEvidence == None \in Evidence
BY ExternalSnapshotsAssumption DEF None, Evidence, RepoOrNone

LEMMA BlankIsRow ==
  ASSUME NEW status \in Statuses, NEW run \in 0..MaxRuns
  PROVE  Blank(status, run) \in Row /\ RowOK(Blank(status, run))
BY NoneIsEvidence DEF Blank, Row, RowOK, HalfOK, RepoOrNone

LEMMA NoRowIsRow == NoRow \in Row /\ RowOK(NoRow)
<1>1. "absent" \in Statuses /\ 0 \in 0..MaxRuns
  BY ExternalSnapshotsAssumption DEF Statuses
<1> QED
  BY ONLY <1>1, BlankIsRow DEF NoRow

LEMMA EarlierIsRow ==
  ASSUME NEW p \in Repos
  PROVE  Earlier(p) \in Row /\ RowOK(Earlier(p))
BY ExternalSnapshotsAssumption
DEF Earlier, Row, Evidence, RowOK, HalfOK, RepoOrNone, Statuses

(* An UPDATE of a row that nobody wrote since it was read stores the          *)
(* snapshot; any other leaves a torn row.                                     *)
LEMMA UpdatedIsRow ==
  ASSUME NEW now \in Row, NEW read \in Row, NEW new \in Row,
         NEW x \in Updated(now, read, new)
  PROVE  /\ x \in Row /\ x.run = new.run
         /\ now = read => x = new
         /\ RowOK(new) => RowOK(x)
<1>1. \A d \in BOOLEAN : Mixed(d) \in Evidence
  BY NoneIsEvidence DEF Mixed, Evidence
<1>2. /\ HalfAfter(now.commits, read.commits, new.commits) \subseteq Evidence
      /\ HalfAfter(now.stats, read.stats, new.stats) \subseteq Evidence
  BY <1>1 DEF HalfAfter, Row, Evidence
<1>3. NameAfter(now.repo, read.repo, new.repo) \subseteq RepoOrNone
  BY DEF NameAfter, ColumnAfter, Row
<1>4. ColumnAfter(now.status, read.status, new.status) \in Statuses
  BY DEF ColumnAfter, Row
<1>5. x \in Row /\ x.run = new.run /\ x.torn = (new.torn \/ now # read)
  BY <1>2, <1>3, <1>4 DEF Updated, Row
<1>6. ASSUME now = read PROVE x = new
  <2>1. /\ x.commits = new.commits /\ x.stats = new.stats /\ x.repo = new.repo
        /\ x.status = new.status
    BY <1>6 DEF Updated, HalfAfter, NameAfter, ColumnAfter
  <2>2. x.torn = new.torn
    BY <1>5, <1>6 DEF Row
  <2> QED
    BY <1>5, <2>1, <2>2 DEF Row
<1>7. CASE now = read
  BY <1>5, <1>6, <1>7
<1>8. CASE now # read
  BY <1>5, <1>8 DEF RowOK
<1> QED
  BY <1>7, <1>8

LEMMA PendingIsAnswer == Pending \in Answers /\ Failed \in Answers
BY NoneIsEvidence DEF Pending, Failed, Answers

LEMMA IdleIsJob ==
  ASSUME NEW p \in Places \ {"fetch", "commit"}
  PROVE  Idle \in Job /\ LocalsOK(p, Idle)
<1>1. Idle \in Job
  BY NoRowIsRow, PendingIsAnswer, ExternalSnapshotsAssumption
  DEF Idle, Job, RepoOrNone
<1>2. AnswerOK(Idle, Pending)
  BY DEF AnswerOK, Pending
<1>3. LocalsOK(p, Idle)
  BY <1>2, NoRowIsRow DEF LocalsOK, Idle, Places
<1> QED
  BY <1>1, <1>3

LEMMA InitIInv == Init => IInv
<1> SUFFICES ASSUME Init PROVE IInv
  OBVIOUS
<1>1. TypeOK
  BY NoRowIsRow, EarlierIsRow, IdleIsJob, ExternalSnapshotsAssumption
  DEF Init, TypeOK, RepoOrNone, Places
<1>2. \A n \in Netuids : RowOK(row[n])
  BY NoRowIsRow, EarlierIsRow, ExternalSnapshotsAssumption DEF Init
<1>3. \A r \in Refreshers : LocalsOK(pc[r], job[r])
  BY IdleIsJob DEF Init, Places
<1> QED
  BY <1>1, <1>2, <1>3 DEF IInv

(* The rest of the state when no row changes.                                *)
RestTyped ==
  /\ version' \in [Repos -> 0..MaxVersion]
  /\ mapped' \in [Netuids -> RepoOrNone]
  /\ runs' \in 0..MaxRuns

(* A step of one refresher that leaves the table alone.                      *)
LEMMA LocalStep ==
  ASSUME IInv, RestTyped, row' = row,
         NEW r \in Refreshers, NEW p \in Places, NEW j \in Job, LocalsOK(p, j),
         pc' = [pc EXCEPT ![r] = p], job' = [job EXCEPT ![r] = j]
  PROVE  IInv'
<1>1. TypeOK'
  BY DEF IInv, TypeOK, RestTyped, Places
<1>2. \A s \in Refreshers : /\ pc'[s] = IF s = r THEN p ELSE pc[s]
                            /\ job'[s] = IF s = r THEN j ELSE job[s]
  BY DEF IInv, TypeOK
<1>3. \A s \in Refreshers : LocalsOK(pc'[s], job'[s])
  BY <1>2 DEF IInv
<1>4. \A n \in Netuids : RowOK(row'[n])
  BY DEF IInv
<1> QED
  BY <1>1, <1>3, <1>4 DEF IInv

(* upsert_external_data_snapshot takes over a snapshot that is in order.     *)
LEMMA StoreKeepsIInv ==
  ASSUME IInv, RestTyped, row' = row,
         NEW r \in Refreshers, NEW j \in Job, NEW snapshot \in Row,
         j.netuid \in Netuids, \A n \in Netuids : RowOK(j.existing[n]),
         RowOK(snapshot), Store(r, j, snapshot)
  PROVE  IInv'
<1> DEFINE k == [j EXCEPT !.snapshot = snapshot,
                          !.read = row[j.netuid],
                          !.repo = NoRepo,
                          !.commits.evidence = None,
                          !.stats.evidence = None]
<1>1. job' = [job EXCEPT ![r] = k] /\ pc' = [pc EXCEPT ![r] = "commit"]
  BY DEF Store
<1>2. k \in Job
  BY NoneIsEvidence DEF IInv, TypeOK, Job, Answers, RepoOrNone
<1>3. /\ k.snapshot = snapshot /\ k.netuid = j.netuid
      /\ k.commits.evidence = None /\ k.stats.evidence = None
      /\ k.existing = j.existing
  BY DEF Job, Answers
<1>4. \A n \in Netuids : RowOK(k.existing[n])
  BY <1>3
<1>5. LocalsOK("commit", k)
  <2> HIDE DEF k
  <2> QED
    BY <1>3, <1>4 DEF LocalsOK, AnswerOK
<1> HIDE DEF k
<1> QED
  BY <1>1, <1>2, <1>5, LocalStep DEF Places

LEMMA BeginKeepsIInv ==
  ASSUME IInv, NEW r \in Refreshers, Begin(r)
  PROVE  IInv'
<1> DEFINE seen(asked) == [n \in Netuids |-> IF n \in asked THEN row[n] ELSE NoRow]
<1>1. PICK asked \in SUBSET Netuids :
        job' = [job EXCEPT ![r] = [Idle EXCEPT !.run = runs + 1, !.asked = asked,
                                               !.todo = asked, !.existing = seen(asked)]]
  BY DEF Begin
<1> DEFINE j == [Idle EXCEPT !.run = runs + 1, !.asked = asked,
                             !.todo = asked, !.existing = seen(asked)]
           p == IF job'[r].todo = {} THEN "done" ELSE "links"
<1>2. runs + 1 \in 0..MaxRuns /\ row \in [Netuids -> Row]
  BY ExternalSnapshotsAssumption DEF Begin, IInv, TypeOK
<1>3. Idle \in Job /\ LocalsOK("done", Idle) /\ LocalsOK("links", Idle)
  BY IdleIsJob DEF Places
<1>4. /\ seen(asked) \in [Netuids -> Row]
      /\ \A n \in Netuids : RowOK(seen(asked)[n])
  BY <1>2, NoRowIsRow DEF IInv
<1> HIDE DEF seen
<1>5. j \in Job
  BY <1>2, <1>3, <1>4 DEF Job
<1>6. /\ j.snapshot = Idle.snapshot /\ j.existing = seen(asked)
      /\ j.commits = Idle.commits /\ j.stats = Idle.stats
      /\ Idle.commits = Pending /\ Idle.stats = Pending
  BY DEF Idle
<1>7. AnswerOK(j, Pending)
  BY DEF AnswerOK, Pending
<1>8. LocalsOK("done", j) /\ LocalsOK("links", j)
  <2> HIDE DEF j
  <2> QED
    BY <1>3, <1>4, <1>6, <1>7 DEF LocalsOK
<1>9. p \in Places /\ LocalsOK(p, j)
  BY <1>8 DEF Places
<1>10. RestTyped /\ row' = row /\ pc' = [pc EXCEPT ![r] = p]
  BY <1>2 DEF Begin, IInv, TypeOK, RestTyped
<1> HIDE DEF j, p
<1> QED
  BY <1>1, <1>5, <1>9, <1>10, LocalStep DEF j

LEMMA ScrapeKeepsIInv ==
  ASSUME IInv, NEW r \in Refreshers, ScrapeLinks(r)
  PROVE  IInv'
<1>1. PICK links \in [Netuids -> RepoOrNone] : job' = [job EXCEPT ![r].links = links]
  BY DEF ScrapeLinks
<1>2. job[r] \in Job /\ LocalsOK("links", job[r])
  BY DEF IInv, TypeOK, ScrapeLinks
<1> DEFINE j == [job[r] EXCEPT !.links = links]
<1>3. job' = [job EXCEPT ![r] = j]
  BY <1>1
<1>4. j \in Job
  BY <1>2 DEF Job
<1>5. /\ j.snapshot = job[r].snapshot /\ j.existing = job[r].existing
      /\ j.commits = job[r].commits /\ j.stats = job[r].stats
  BY <1>2 DEF Job
<1>6. LocalsOK("next", j)
  <2> HIDE DEF j
  <2>1. AnswerOK(j, Pending)
    BY DEF AnswerOK, Pending
  <2> QED
    BY <1>2, <1>5, <2>1 DEF LocalsOK
<1>7. RestTyped /\ row' = row /\ pc' = [pc EXCEPT ![r] = "next"]
  BY DEF ScrapeLinks, IInv, TypeOK, RestTyped
<1> HIDE DEF j
<1> QED
  BY <1>3, <1>4, <1>6, <1>7, LocalStep DEF Places

LEMMA FinishKeepsIInv ==
  ASSUME IInv, NEW r \in Refreshers, Finish(r)
  PROVE  IInv'
<1> DEFINE j == [Idle EXCEPT !.run = job[r].run, !.asked = job[r].asked]
<1>1. job[r] \in Job /\ Idle \in Job /\ LocalsOK("done", Idle)
  BY IdleIsJob DEF IInv, TypeOK, Places
<1>2. j \in Job
  BY <1>1 DEF Job
<1>3. /\ j.snapshot = Idle.snapshot /\ j.existing = Idle.existing
      /\ j.commits = Idle.commits /\ j.stats = Idle.stats
      /\ Idle.commits = Pending /\ Idle.stats = Pending
  BY DEF Idle
<1>4. AnswerOK(j, Pending)
  BY DEF AnswerOK, Pending
<1>5. LocalsOK("done", j)
  <2> HIDE DEF j
  <2> QED
    BY <1>1, <1>3, <1>4 DEF LocalsOK
<1>6. /\ RestTyped /\ row' = row /\ pc' = [pc EXCEPT ![r] = "done"]
      /\ job' = [job EXCEPT ![r] = j]
  BY DEF Finish, IInv, TypeOK, RestTyped
<1> HIDE DEF j
<1> QED
  BY <1>2, <1>5, <1>6, LocalStep DEF Places

LEMMA ResolveKeepsIInv ==
  ASSUME IInv, NEW r \in Refreshers, NEW n \in Netuids, Resolve(r, n)
  PROVE  IInv'
<1> DEFINE repo == IF job[r].links[n] # NoRepo THEN job[r].links[n] ELSE mapped'[n]
           j    == [job[r] EXCEPT !.netuid = n, !.todo = @ \ {n}, !.links[n] = NoRepo,
                           !.repo = repo]
<1>1. /\ job[r] \in Job /\ mapped \in [Netuids -> RepoOrNone]
      /\ LocalsOK("next", job[r]) /\ pc[r] = "next"
  BY DEF IInv, TypeOK, Resolve
<1>2. mapped' \in [Netuids -> RepoOrNone]
  BY <1>1, ExternalSnapshotsAssumption DEF Resolve, RepoOrNone
<1>3. RestTyped /\ row' = row
  BY <1>2 DEF Resolve, IInv, TypeOK, RestTyped
<1>4. repo \in RepoOrNone
  BY <1>1, <1>2 DEF Job
<1>5. IF repo # NoRepo
      THEN job' = [job EXCEPT ![r] = j] /\ pc' = [pc EXCEPT ![r] = "fetch"]
      ELSE Store(r, j, Blank("unmapped", j.run))
  BY DEF Resolve
<1> HIDE DEF repo
<1>6. j \in Job
  BY <1>1, <1>4 DEF Job, RepoOrNone
<1>7. /\ j.netuid = n /\ j.repo = repo /\ j.run = job[r].run
      /\ j.snapshot = job[r].snapshot /\ j.existing = job[r].existing
      /\ j.commits = Pending /\ j.stats = Pending
  BY <1>1 DEF Job, LocalsOK
<1> HIDE DEF j
<1>8. CASE repo # NoRepo
  <2>1. repo \in Repos
    BY <1>4, <1>8 DEF RepoOrNone
  <2>2. AnswerOK(j, Pending)
    BY DEF AnswerOK, Pending
  <2>3. LocalsOK("fetch", j)
    BY <1>1, <1>7, <2>1, <2>2 DEF LocalsOK
  <2> QED
    BY <1>3, <1>5, <1>6, <1>8, <2>3, LocalStep DEF Places
<1>9. CASE repo = NoRepo
  <2>1. "unmapped" \in Statuses /\ j.run \in 0..MaxRuns
    BY <1>6 DEF Statuses, Job
  <2>2. Blank("unmapped", j.run) \in Row /\ RowOK(Blank("unmapped", j.run))
    BY ONLY <2>1, BlankIsRow
  <2>3. \A k \in Netuids : RowOK(j.existing[k])
    BY <1>1, <1>7 DEF LocalsOK
  <2> QED
    BY <1>3, <1>5, <1>6, <1>7, <1>9, <2>2, <2>3, StoreKeepsIInv
<1> QED
  BY <1>8, <1>9

LEMMA AnswerKeepsIInv ==
  ASSUME IInv, NEW r \in Refreshers, NEW half \in {"commits", "stats"}, Answer(r, half)
  PROVE  IInv'
<1> DEFINE got(ok, dated) ==
             IF ok THEN [answer |-> "ok",
                         evidence |-> [repo |-> job[r].repo, version |-> version[job[r].repo],
                                       dated |-> dated, run |-> job[r].run]]
                   ELSE Failed
<1>1. /\ job[r] \in Job /\ pc[r] = "fetch" /\ LocalsOK("fetch", job[r])
      /\ version \in [Repos -> 0..MaxVersion]
  BY DEF IInv, TypeOK, Answer
<1>2. job[r].repo \in Repos /\ job[r].run \in 0..MaxRuns
  BY <1>1 DEF LocalsOK, Job
<1>3. PICK dated \in BOOLEAN, ok \in BOOLEAN :
        job' = [job EXCEPT ![r][half] = got(ok, dated)]
  BY DEF Answer
<1> DEFINE a == got(ok, dated)
<1>4. a \in Answers
  BY <1>1, <1>2, PendingIsAnswer DEF Answers, Evidence, RepoOrNone
<1>5. AnswerOK(job[r], a)
  BY DEF AnswerOK, Failed
<1>6. RestTyped /\ row' = row /\ pc' = [pc EXCEPT ![r] = "fetch"]
  BY <1>1 DEF Answer, IInv, TypeOK, RestTyped
<1>7. job' = [job EXCEPT ![r][half] = a]
  BY <1>3
<1> HIDE DEF a, got
<1>8. CASE half = "commits"
  <2> DEFINE j == [job[r] EXCEPT !.commits = a]
  <2>1. j \in Job
    BY <1>1, <1>4 DEF Job
  <2>2. /\ j.netuid = job[r].netuid /\ j.repo = job[r].repo /\ j.run = job[r].run
        /\ j.snapshot = job[r].snapshot /\ j.existing = job[r].existing
        /\ j.commits = a /\ j.stats = job[r].stats
    BY <1>1 DEF Job
  <2>3. job' = [job EXCEPT ![r] = j]
    BY <1>7, <1>8
  <2> HIDE DEF j
  <2>4. LocalsOK("fetch", j)
    BY <1>1, <1>5, <2>2 DEF LocalsOK, AnswerOK
  <2> QED
    BY <1>6, <2>1, <2>3, <2>4, LocalStep DEF Places
<1>9. CASE half = "stats"
  <2> DEFINE j == [job[r] EXCEPT !.stats = a]
  <2>1. j \in Job
    BY <1>1, <1>4 DEF Job
  <2>2. /\ j.netuid = job[r].netuid /\ j.repo = job[r].repo /\ j.run = job[r].run
        /\ j.snapshot = job[r].snapshot /\ j.existing = job[r].existing
        /\ j.stats = a /\ j.commits = job[r].commits
    BY <1>1 DEF Job
  <2>3. job' = [job EXCEPT ![r] = j]
    BY <1>7, <1>9
  <2> HIDE DEF j
  <2>4. LocalsOK("fetch", j)
    BY <1>1, <1>5, <2>2 DEF LocalsOK, AnswerOK
  <2> QED
    BY <1>6, <2>1, <2>3, <2>4, LocalStep DEF Places
<1> QED
  BY <1>8, <1>9

LEMMA RaiseKeepsIInv ==
  ASSUME IInv, NEW r \in Refreshers,
         RaiseInFetch(r) \/ \E n \in Netuids : RaiseInResolve(r, n)
  PROVE  IInv'
<1> DEFINE blank == Blank("fetch_failed", job[r].run)
<1>1. job[r] \in Job /\ LocalsOK(pc[r], job[r])
  BY DEF IInv, TypeOK
<1>2. "fetch_failed" \in Statuses /\ job[r].run \in 0..MaxRuns
  BY <1>1 DEF Statuses, Job
<1>3. blank \in Row /\ RowOK(blank)
  BY ONLY <1>2, BlankIsRow
<1>4. \A k \in Netuids : RowOK(job[r].existing[k])
  BY <1>1 DEF LocalsOK
<1>5. RestTyped /\ row' = row
  BY DEF RaiseInFetch, RaiseInResolve, IInv, TypeOK, RestTyped
<1> HIDE DEF blank
<1>6. CASE RaiseInFetch(r)
  <2>1. job[r].netuid \in Netuids /\ Store(r, job[r], blank)
    BY <1>1, <1>6 DEF RaiseInFetch, LocalsOK, blank
  <2> QED
    BY <1>1, <1>3, <1>4, <1>5, <2>1, StoreKeepsIInv
<1>7. ASSUME NEW n \in Netuids, RaiseInResolve(r, n) PROVE IInv'
  <2> DEFINE j == [job[r] EXCEPT !.netuid = n, !.todo = @ \ {n}, !.links[n] = NoRepo]
  <2>1. Store(r, j, blank)
    BY <1>7 DEF RaiseInResolve, blank
  <2>2. j \in Job /\ j.netuid = n /\ j.existing = job[r].existing
    BY <1>1 DEF Job, RepoOrNone
  <2> HIDE DEF j
  <2> QED
    BY <1>3, <1>4, <1>5, <2>1, <2>2, StoreKeepsIInv
<1> QED
  BY <1>6, <1>7

(* Carrying over keeps a half about the repository, and a half of an older   *)
(* refresh is never called active.                                           *)
LEMMA AssembleKeepsIInv ==
  ASSUME IInv, NEW r \in Refreshers, Assemble(r)
  PROVE  IInv'
<1> DEFINE j        == job[r]
           existing == j.existing[j.netuid]
           commits  == CarriedOver(existing, "commits", j.commits, j.repo)
           stats    == CarriedOver(existing, "stats", j.stats, j.repo)
           status   == Status(existing, commits, stats, j)
           torn     == existing.torn /\ Failed \in {j.commits, j.stats}
           snapshot == [repo |-> j.repo, status |-> status, commits |-> commits,
                        stats |-> stats, run |-> j.run, torn |-> torn]
<1>1. j \in Job /\ LocalsOK("fetch", j) /\ Store(r, j, snapshot)
  BY DEF IInv, TypeOK, Assemble
<1>2. RestTyped /\ row' = row
  BY DEF Assemble, IInv, TypeOK, RestTyped
<1>3. /\ j.netuid \in Netuids /\ j.repo \in Repos
      /\ AnswerOK(j, j.commits) /\ AnswerOK(j, j.stats)
      /\ \A k \in Netuids : RowOK(j.existing[k])
  BY <1>1 DEF LocalsOK
<1>4. existing \in Row /\ RowOK(existing)
  BY <1>1, <1>3 DEF Job
<1>5. /\ j.commits \in Answers /\ j.stats \in Answers /\ j.run \in 0..MaxRuns
      /\ j.repo \in RepoOrNone
  BY <1>1 DEF Job
<1> HIDE DEF j, existing
<1>6. /\ commits = (IF j.commits.answer = "failed" /\ existing.repo = j.repo
                       /\ existing.commits.dated
                    THEN existing.commits ELSE j.commits.evidence)
      /\ stats = (IF j.stats.answer = "failed" /\ existing.repo = j.repo
                     /\ existing.stats.dated
                  THEN existing.stats ELSE j.stats.evidence)
  BY DEF CarriedOver
<1>7. status = "active_repo" =>
        /\ ~(j.commits.answer = "failed" /\ existing.commits.dated)
        /\ ~(j.stats.answer = "failed" /\ existing.stats.dated)
  BY DEF Status
<1>8. status \in Statuses
  BY DEF Status, Statuses
<1>9. commits \in Evidence /\ stats \in Evidence
  BY <1>4, <1>5, <1>6 DEF Row, Answers
<1>10. /\ j.commits.answer = "failed" => j.commits = Failed
       /\ j.stats.answer = "failed" => j.stats = Failed
  BY <1>3, <1>5 DEF AnswerOK, Answers, Failed
<1>11. torn \in BOOLEAN /\ (torn \/ ~existing.torn
         \/ (j.commits.answer # "failed" /\ j.stats.answer # "failed"))
  BY <1>4, <1>10 DEF Row
<1> HIDE DEF commits, stats, status, torn
<1>12. snapshot \in Row
  BY <1>5, <1>8, <1>9, <1>11 DEF Row
<1>13. RowOK(snapshot)
  <2> SUFFICES ASSUME ~torn PROVE HalfOK(snapshot, commits) /\ HalfOK(snapshot, stats)
    BY DEF RowOK
  <2>1. HalfOK(snapshot, commits)
    BY <1>3, <1>4, <1>6, <1>7, <1>11 DEF HalfOK, RowOK, AnswerOK
  <2>2. HalfOK(snapshot, stats)
    BY <1>3, <1>4, <1>6, <1>7, <1>11 DEF HalfOK, RowOK, AnswerOK
  <2> QED
    BY <2>1, <2>2
<1> HIDE DEF snapshot
<1> QED
  BY <1>1, <1>2, <1>3, <1>12, <1>13, StoreKeepsIInv DEF j

(* A commit leaves x in its row: the snapshot where nobody wrote since it was *)
(* read.                                                                      *)
Clash(r) == job[r].read = NoRow /\ row[job[r].netuid] # NoRow
Leaves(r, x) ==
  /\ job[r].netuid \in Netuids /\ x \in Row /\ RowOK(x)
  /\ row' = IF Clash(r) THEN row ELSE [row EXCEPT ![job[r].netuid] = x]
  /\ x.run = job[r].snapshot.run
  /\ row[job[r].netuid] = job[r].read => x = job[r].snapshot
  /\ x # job[r].snapshot
       => x \in Updated(row[job[r].netuid], job[r].read, job[r].snapshot)

LEMMA CommitLeaves ==
  ASSUME IInv, NEW r \in Refreshers, Commit(r)
  PROVE  \E x : Leaves(r, x)
<1> DEFINE n == job[r].netuid
           new == job[r].snapshot
           read == job[r].read
<1>1. job[r] \in Job /\ LocalsOK("commit", job[r]) /\ row \in [Netuids -> Row]
  BY DEF IInv, TypeOK, Commit
<1>2. n \in Netuids /\ new \in Row /\ RowOK(new) /\ read \in Row /\ row[n] \in Row
  BY <1>1 DEF LocalsOK, Job
<1>3. PICK x \in IF read = NoRow THEN {new} ELSE Updated(row[n], read, new) :
        row' = IF Clash(r) THEN row ELSE [row EXCEPT ![n] = x]
  BY DEF Commit, Clash
<1> HIDE DEF new, read, n
<1>4. x \in Row /\ RowOK(x) /\ x.run = new.run /\ (row[n] = read => x = new)
  BY <1>2, <1>3, UpdatedIsRow
<1>5. x # new => x \in Updated(row[n], read, new)
  BY <1>3
<1> QED
  BY <1>2, <1>3, <1>4, <1>5 DEF n, new, read, Leaves

LEMMA CommitKeepsIInv ==
  ASSUME IInv, NEW r \in Refreshers, Commit(r)
  PROVE  IInv'
<1> DEFINE n == job[r].netuid
           j == Forget(job[r])
           p == IF Clash(r) THEN "crashed" ELSE "next"
<1>1. job[r] \in Job /\ LocalsOK("commit", job[r]) /\ row \in [Netuids -> Row]
  BY DEF IInv, TypeOK, Commit
<1>2. PICK x : Leaves(r, x)
  BY CommitLeaves
<1>3. /\ n \in Netuids /\ x \in Row /\ RowOK(x)
      /\ row' = (IF Clash(r) THEN row ELSE [row EXCEPT ![n] = x])
      /\ pc' = [pc EXCEPT ![r] = p] /\ job' = [job EXCEPT ![r] = j]
  BY <1>2 DEF Commit, Leaves, Clash
<1>4. row' \in [Netuids -> Row] /\ \A k \in Netuids : RowOK(row'[k])
  BY <1>1, <1>2, <1>3 DEF IInv
<1>5. j \in Job
  BY <1>1, NoRowIsRow, PendingIsAnswer DEF Forget, Job, RepoOrNone
<1>6. /\ j.snapshot = NoRow /\ j.existing = [job[r].existing EXCEPT ![n] = NoRow]
      /\ j.commits = Pending /\ j.stats = Pending
  BY <1>1 DEF Forget, Job
<1>7. p \in {"crashed", "next"}
  OBVIOUS
<1> HIDE DEF j, p
<1>8. LocalsOK(p, j)
  <2>1. AnswerOK(j, Pending)
    BY DEF AnswerOK, Pending
  <2>2. \A k \in Netuids : RowOK(j.existing[k])
    BY <1>1, <1>6, NoRowIsRow DEF LocalsOK, Job
  <2> QED
    BY <1>6, <1>7, <2>1, <2>2, NoRowIsRow DEF LocalsOK
<1>9. TypeOK'
  BY <1>3, <1>4, <1>5, <1>7 DEF IInv, TypeOK, Commit
<1>10. \A s \in Refreshers : LocalsOK(pc'[s], job'[s])
  BY <1>3, <1>8 DEF IInv, TypeOK
<1> QED
  BY <1>4, <1>9, <1>10 DEF IInv

LEMMA NextIInv == IInv /\ [Next]_vars => IInv'
<1> SUFFICES ASSUME IInv, [Next]_vars PROVE IInv'
  OBVIOUS
<1>1. ASSUME NEW r \in Refreshers, Step(r) PROVE IInv'
  <2>1. CASE Crash(r)
    <3>1. RestTyped /\ row' = row
      BY <2>1 DEF Crash, IInv, TypeOK, RestTyped
    <3> QED
      BY <2>1, <3>1, IdleIsJob, LocalStep DEF Crash, Places
  <2> QED
    BY <1>1, <2>1, BeginKeepsIInv, ScrapeKeepsIInv, FinishKeepsIInv, ResolveKeepsIInv,
       AnswerKeepsIInv, RaiseKeepsIInv, AssembleKeepsIInv, CommitKeepsIInv DEF Step
<1>2. ASSUME UNCHANGED <<row, pc, job>>, RestTyped PROVE IInv'
  BY <1>2 DEF IInv, TypeOK, RestTyped
<1>3. ASSUME NEW p \in Repos, Push(p) PROVE IInv'
  <2>1. version' \in [Repos -> 0..MaxVersion]
    BY <1>3, ExternalSnapshotsAssumption DEF Push, IInv, TypeOK
  <2> QED
    BY <1>2, <1>3, <2>1 DEF Push, IInv, TypeOK, RestTyped
<1>4. CASE UNCHANGED vars
  BY <1>2, <1>4 DEF vars, IInv, TypeOK, RestTyped
<1> QED
  BY <1>1, <1>3, <1>4 DEF Next

LEMMA SpecIInv == Spec => []IInv
BY InitIInv, NextIInv, PTL DEF Spec

-----------------------------------------------------------------------------
(* What a refresher that is at p with the locals j has written to `table`,  *)
(* when nobody else writes: the rows of every netuid it is through with.    *)
Wrote(p, j, table) ==
  p \notin {"idle", "crashed"} =>
    /\ \A n \in j.asked \ j.todo :
         (p \in {"fetch", "commit"} /\ n = j.netuid) \/ table[n].run = j.run
    /\ p = "done" => j.todo = {}
    /\ p = "commit" => j.snapshot.run = j.run

AloneWrote == \A r \in Refreshers : Alone(r) => Wrote(pc[r], job[r], row)

LEMMA AloneStep ==
  ASSUME IInv, AloneWrote, NEW r \in Refreshers, NEW p, NEW j, p # "idle",
         pc' = [pc EXCEPT ![r] = p], job' = [job EXCEPT ![r] = j],
         Wrote(pc[r], job[r], row) => Wrote(p, j, row')
  PROVE  AloneWrote'
<1>1. /\ pc'[r] = p /\ job'[r] = j
      /\ \A s \in Refreshers \ {r} : pc'[s] = pc[s]
  BY DEF IInv, TypeOK
<1>2. ASSUME NEW s \in Refreshers, Alone(s)' PROVE Wrote(pc'[s], job'[s], row')
  <2>1. s = r
    BY <1>1, <1>2 DEF Alone
  <2>2. Alone(r)
    BY <1>1, <1>2, <2>1 DEF Alone
  <2> QED
    BY <1>1, <2>1, <2>2 DEF AloneWrote
<1> QED
  BY <1>2 DEF AloneWrote

LEMMA AloneStore ==
  ASSUME IInv, AloneWrote, NEW r \in Refreshers, NEW j \in Job, NEW snapshot,
         row' = row, Store(r, j, snapshot), snapshot.run = j.run,
         Wrote(pc[r], job[r], row) => Wrote("fetch", j, row)
  PROVE  AloneWrote'
<1> DEFINE k == [j EXCEPT !.snapshot = snapshot,
                          !.read = row[j.netuid],
                          !.repo = NoRepo,
                          !.commits.evidence = None,
                          !.stats.evidence = None]
<1>1. job' = [job EXCEPT ![r] = k] /\ pc' = [pc EXCEPT ![r] = "commit"]
  BY DEF Store
<1>2. /\ k.snapshot = snapshot /\ k.netuid = j.netuid /\ k.run = j.run
      /\ k.asked = j.asked /\ k.todo = j.todo
  BY DEF Job
<1> HIDE DEF k
<1>3. Wrote("fetch", j, row) => Wrote("commit", k, row)
  BY <1>2 DEF Wrote
<1> QED
  BY <1>1, <1>3, AloneStep

LEMMA AloneBegin ==
  ASSUME IInv, AloneWrote, NEW r \in Refreshers, Begin(r)
  PROVE  AloneWrote'
<1> DEFINE seen(asked) == [n \in Netuids |-> IF n \in asked THEN row[n] ELSE NoRow]
           L(asked) == [Idle EXCEPT !.run = runs + 1, !.asked = asked,
                                    !.todo = asked, !.existing = seen(asked)]
           p == IF job'[r].todo = {} THEN "done" ELSE "links"
<1>1. PICK asked \in SUBSET Netuids : job' = [job EXCEPT ![r] = L(asked)]
  BY DEF Begin
<1> DEFINE j == L(asked)
<1>2. j.asked = asked /\ j.todo = asked
  BY DEF Idle
<1>3. pc' = [pc EXCEPT ![r] = p] /\ row' = row
  BY DEF Begin
<1>4. job' = [job EXCEPT ![r] = j]
  BY <1>1
<1> HIDE DEF L, j
<1>5. job'[r] = j
  BY <1>4 DEF IInv, TypeOK
<1>6. Wrote(p, j, row')
  BY <1>2, <1>5 DEF Wrote
<1>7. p # "idle"
  OBVIOUS
<1> HIDE DEF p
<1> QED
  BY <1>3, <1>4, <1>6, <1>7, AloneStep

LEMMA AloneResolve ==
  ASSUME IInv, AloneWrote, NEW r \in Refreshers, NEW n \in Netuids, Resolve(r, n)
  PROVE  AloneWrote'
<1> DEFINE repo == IF job[r].links[n] # NoRepo THEN job[r].links[n] ELSE mapped'[n]
           j    == [job[r] EXCEPT !.netuid = n, !.todo = @ \ {n}, !.links[n] = NoRepo,
                           !.repo = repo]
<1>1. /\ job[r] \in Job /\ pc[r] = "next" /\ mapped \in [Netuids -> RepoOrNone]
  BY DEF IInv, TypeOK, Resolve
<1>2. mapped' \in [Netuids -> RepoOrNone]
  BY <1>1, ExternalSnapshotsAssumption DEF Resolve, RepoOrNone
<1>3. repo \in RepoOrNone
  BY <1>1, <1>2 DEF Job
<1>4. /\ row' = row
      /\ IF repo # NoRepo
         THEN job' = [job EXCEPT ![r] = j] /\ pc' = [pc EXCEPT ![r] = "fetch"]
         ELSE Store(r, j, Blank("unmapped", j.run))
  BY DEF Resolve
<1> HIDE DEF repo
<1>5. j \in Job
  BY <1>1, <1>3 DEF Job, RepoOrNone
<1>6. /\ j.netuid = n /\ j.todo = job[r].todo \ {n} /\ j.asked = job[r].asked
      /\ j.run = job[r].run
  BY <1>1 DEF Job
<1> HIDE DEF j
<1>7. Wrote(pc[r], job[r], row) => Wrote("fetch", j, row)
  BY <1>1, <1>6 DEF Wrote
<1>8. Blank("unmapped", j.run).run = j.run
  BY DEF Blank
<1>9. CASE repo # NoRepo
  BY <1>4, <1>7, <1>9, AloneStep
<1> QED
  BY <1>4, <1>5, <1>7, <1>8, <1>9, AloneStore

LEMMA AloneRaise ==
  ASSUME IInv, AloneWrote, NEW r \in Refreshers,
         RaiseInFetch(r) \/ \E n \in Netuids : RaiseInResolve(r, n)
  PROVE  AloneWrote'
<1> DEFINE blank == Blank("fetch_failed", job[r].run)
<1>1. job[r] \in Job /\ row' = row /\ blank.run = job[r].run
  BY DEF IInv, TypeOK, RaiseInFetch, RaiseInResolve, Blank
<1> HIDE DEF blank
<1>2. CASE RaiseInFetch(r)
  <2>1. Store(r, job[r], blank) /\ pc[r] = "fetch"
    BY <1>2 DEF RaiseInFetch, blank
  <2> QED
    BY <1>1, <2>1, AloneStore
<1>3. ASSUME NEW n \in Netuids, RaiseInResolve(r, n) PROVE AloneWrote'
  <2> DEFINE j == [job[r] EXCEPT !.netuid = n, !.todo = @ \ {n}, !.links[n] = NoRepo]
  <2>1. Store(r, j, blank) /\ pc[r] = "next"
    BY <1>3 DEF RaiseInResolve, blank
  <2>2. /\ j \in Job /\ j.netuid = n /\ j.todo = job[r].todo \ {n}
        /\ j.asked = job[r].asked /\ j.run = job[r].run
    BY <1>1 DEF Job, RepoOrNone
  <2> HIDE DEF j
  <2>3. Wrote(pc[r], job[r], row) => Wrote("fetch", j, row)
    BY <2>1, <2>2 DEF Wrote
  <2> QED
    BY <1>1, <2>1, <2>2, <2>3, AloneStore
<1> QED
  BY <1>2, <1>3

LEMMA AloneAnswer ==
  ASSUME IInv, AloneWrote, NEW r \in Refreshers, NEW half \in {"commits", "stats"},
         Answer(r, half)
  PROVE  AloneWrote'
<1>1. job[r] \in Job /\ pc[r] = "fetch" /\ row' = row
  BY DEF IInv, TypeOK, Answer
<1>2. PICK a : job' = [job EXCEPT ![r][half] = a]
  BY DEF Answer
<1> DEFINE j == [job[r] EXCEPT ![half] = a]
<1>3. job' = [job EXCEPT ![r] = j] /\ pc' = [pc EXCEPT ![r] = "fetch"]
  BY <1>1, <1>2 DEF Answer, IInv, TypeOK
<1>4. /\ j.netuid = job[r].netuid /\ j.todo = job[r].todo
      /\ j.asked = job[r].asked /\ j.run = job[r].run
  BY <1>1 DEF Job
<1> HIDE DEF j
<1>5. Wrote(pc[r], job[r], row) => Wrote("fetch", j, row')
  BY <1>1, <1>4 DEF Wrote
<1> QED
  BY <1>3, <1>5, AloneStep

LEMMA AloneAssemble ==
  ASSUME IInv, AloneWrote, NEW r \in Refreshers, Assemble(r)
  PROVE  AloneWrote'
<1>1. PICK snapshot : Store(r, job[r], snapshot) /\ snapshot.run = job[r].run
  <2> DEFINE j        == job[r]
             existing == j.existing[j.netuid]
             commits  == CarriedOver(existing, "commits", j.commits, j.repo)
             stats    == CarriedOver(existing, "stats", j.stats, j.repo)
             torn     == existing.torn /\ Failed \in {j.commits, j.stats}
             snapshot == [repo |-> j.repo, status |-> Status(existing, commits, stats, j),
                          commits |-> commits, stats |-> stats, run |-> j.run, torn |-> torn]
  <2>1. Store(r, job[r], snapshot) /\ snapshot.run = job[r].run
    BY DEF Assemble
  <2> HIDE DEF snapshot
  <2> QED
    BY <2>1
<1>2. job[r] \in Job /\ pc[r] = "fetch" /\ row' = row
  BY DEF Assemble, IInv, TypeOK
<1> QED
  BY <1>1, <1>2, AloneStore

LEMMA AloneCommit ==
  ASSUME IInv, AloneWrote, NEW r \in Refreshers, Commit(r)
  PROVE  AloneWrote'
<1> DEFINE n == job[r].netuid
           j == Forget(job[r])
           p == IF Clash(r) THEN "crashed" ELSE "next"
<1>1. /\ job[r] \in Job /\ LocalsOK("commit", job[r]) /\ row \in [Netuids -> Row]
      /\ pc[r] = "commit"
  BY DEF IInv, TypeOK, Commit
<1>2. n \in Netuids
  BY <1>1 DEF LocalsOK
<1>3. /\ \E x : /\ row' = (IF Clash(r) THEN row ELSE [row EXCEPT ![n] = x])
                /\ x.run = job[r].snapshot.run
      /\ pc' = [pc EXCEPT ![r] = p] /\ job' = [job EXCEPT ![r] = j]
  BY CommitLeaves DEF Commit, Leaves, Clash
<1>4. j.todo = job[r].todo /\ j.asked = job[r].asked /\ j.run = job[r].run
  BY <1>1 DEF Forget, Job
<1>5. j.asked \subseteq Netuids
  BY <1>1, <1>4 DEF Job
<1> HIDE DEF j
<1>6. Wrote(pc[r], job[r], row) => Wrote(p, j, row')
  BY <1>1, <1>2, <1>3, <1>4, <1>5 DEF Wrote
<1>7. p # "idle"
  OBVIOUS
<1> HIDE DEF p
<1> QED
  BY <1>3, <1>6, <1>7, AloneStep

LEMMA AloneOthers ==
  ASSUME IInv, AloneWrote, NEW r \in Refreshers,
         ScrapeLinks(r) \/ Finish(r) \/ Crash(r)
  PROVE  AloneWrote'
<1>1. job[r] \in Job
  BY DEF IInv, TypeOK
<1>2. CASE ScrapeLinks(r)
  <2>1. PICK links : job' = [job EXCEPT ![r].links = links]
    BY <1>2 DEF ScrapeLinks
  <2> DEFINE j == [job[r] EXCEPT !.links = links]
  <2>2. /\ job' = [job EXCEPT ![r] = j] /\ pc' = [pc EXCEPT ![r] = "next"]
        /\ pc[r] = "links" /\ row' = row
    BY <1>2, <2>1 DEF ScrapeLinks
  <2>3. j.todo = job[r].todo /\ j.asked = job[r].asked /\ j.run = job[r].run
    BY <1>1 DEF Job
  <2> HIDE DEF j
  <2>4. Wrote(pc[r], job[r], row) => Wrote("next", j, row')
    BY <2>2, <2>3 DEF Wrote
  <2> QED
    BY <2>2, <2>4, AloneStep
<1>3. CASE Finish(r)
  <2> DEFINE j == [Idle EXCEPT !.run = job[r].run, !.asked = job[r].asked]
  <2>1. /\ job' = [job EXCEPT ![r] = j] /\ pc' = [pc EXCEPT ![r] = "done"]
        /\ pc[r] = "next" /\ job[r].todo = {} /\ row' = row
    BY <1>3 DEF Finish
  <2>2. j.todo = {} /\ j.asked = job[r].asked /\ j.run = job[r].run
    BY DEF Idle
  <2> HIDE DEF j
  <2>3. Wrote(pc[r], job[r], row) => Wrote("done", j, row')
    BY <2>1, <2>2 DEF Wrote
  <2> QED
    BY <2>1, <2>3, AloneStep
<1>4. CASE Crash(r)
  <2>1. pc' = [pc EXCEPT ![r] = "crashed"] /\ job' = [job EXCEPT ![r] = Idle] /\ row' = row
    BY <1>4 DEF Crash
  <2>2. Wrote("crashed", Idle, row')
    BY DEF Wrote
  <2> QED
    BY <2>1, <2>2, AloneStep
<1> QED
  BY <1>2, <1>3, <1>4

LEMMA SpecAloneWrote == Spec => []AloneWrote
<1>1. Init => AloneWrote
  BY DEF Init, AloneWrote, Wrote
<1>2. IInv /\ AloneWrote /\ [Next]_vars => AloneWrote'
  <2> SUFFICES ASSUME IInv, AloneWrote, [Next]_vars PROVE AloneWrote'
    OBVIOUS
  <2>1. ASSUME NEW r \in Refreshers, Step(r) PROVE AloneWrote'
    BY <2>1, AloneBegin, AloneResolve, AloneRaise, AloneAnswer, AloneAssemble, AloneCommit,
       AloneOthers DEF Step
  <2>2. CASE UNCHANGED <<row, pc, job>>
    BY <2>2 DEF AloneWrote, Alone
  <2> QED
    BY <2>1, <2>2 DEF Next, Push, vars
<1> QED
  BY <1>1, <1>2, SpecIInv, PTL DEF Spec

(* A refresh that ends has written every row it was asked for, whatever      *)
(* fetches failed or raised on the way, for any number of subnets.           *)
THEOREM AllAskedAreRefreshed == Spec => []EveryNetuidRefreshed
<1>1. AloneWrote => EveryNetuidRefreshed
  BY DEF AloneWrote, Wrote, EveryNetuidRefreshed
<1> QED
  BY <1>1, SpecAloneWrote, PTL

(* A row never holds evidence of another repository than the one it names,   *)
(* although the link of a subnet moves, fetches fail, and refreshers carry   *)
(* over halves of rows they read long before.                                *)
THEOREM RowsNameTheirEvidence == Spec => []EvidenceOfNamedRepo
<1>1. IInv => EvidenceOfNamedRepo
  BY DEF IInv, RowOK, HalfOK, EvidenceOfNamedRepo, Halves
<1> QED
  BY <1>1, SpecIInv, PTL

(* A row that says active_repo holds nothing that was carried over.          *)
THEOREM ActiveRowsAreFetched == Spec => []ActiveMeansFetched
<1>1. IInv => ActiveMeansFetched
  BY DEF IInv, RowOK, HalfOK, ActiveMeansFetched, Halves
<1> QED
  BY <1>1, SpecIInv, PTL

(* The table and the locals of the refreshers keep their types.              *)
THEOREM ExternalSnapshotsTypeOK == Spec => []TypeOK
<1>1. IInv => TypeOK
  BY DEF IInv
<1> QED
  BY <1>1, SpecIInv, PTL

-----------------------------------------------------------------------------
(* The history of the evidence. Evidence is of a repository, and no newer    *)
(* than what its repository holds by now, or it is none or a mixture.        *)
Seen(e, held) ==
  IF e.repo = NoRepo THEN e.version = 0
  ELSE e.repo \in Repos /\ e.version <= held[e.repo]
RowSeen(x, held) == Seen(x.commits, held) /\ Seen(x.stats, held)

NotOlder(new, old) == new.repo = old.repo => new.version >= old.version

(* What a refresher is about to store, against the row it read when its      *)
(* refresh began.                                                            *)
Supersedes(new, old, halfNew, halfOld, answer) ==
  /\ NotOlder(halfNew, halfOld)
  /\ halfOld.dated /\ old.repo # NoRepo /\ new.repo = old.repo /\ ~halfNew.dated
       => answer = "ok"

LocalsSeen(p, j, held) ==
  /\ RowSeen(j.snapshot, held) /\ \A n \in Netuids : RowSeen(j.existing[n], held)
  /\ Seen(j.commits.evidence, held) /\ Seen(j.stats.evidence, held)
  /\ p = "fetch" =>
       /\ NotOlder(j.commits.evidence, j.existing[j.netuid].commits)
       /\ NotOlder(j.stats.evidence, j.existing[j.netuid].stats)
  /\ p = "commit" =>
       LET old == j.existing[j.netuid]
           new == j.snapshot
       IN  /\ Supersedes(new, old, new.commits, old.commits, j.commits.answer)
           /\ Supersedes(new, old, new.stats, old.stats, j.stats.answer)

HInv ==
  /\ \A n \in Netuids : RowSeen(row[n], version)
  /\ \A r \in Refreshers : LocalsSeen(pc[r], job[r], version)

LEMMA NothingSeen ==
  /\ \A held : Seen(None, held) /\ RowSeen(NoRow, held)
  /\ \A held, status, run : RowSeen(Blank(status, run), held)
  /\ \A held : Seen(Pending.evidence, held) /\ Seen(Failed.evidence, held)
BY DEF Seen, RowSeen, NoRow, Blank, Pending, Failed, None

(* No evidence takes the place of no evidence only.                          *)
LEMMA NoneNotOlder ==
  ASSUME NEW held, NEW old, Seen(old, held)
  PROVE  NotOlder(None, old)
BY ExternalSnapshotsAssumption DEF Seen, NotOlder, None

LEMMA SeenStep ==
  ASSUME IInv, HInv, UNCHANGED <<version, row>>, NEW r \in Refreshers, NEW p, NEW j,
         pc' = [pc EXCEPT ![r] = p], job' = [job EXCEPT ![r] = j],
         LocalsSeen(p, j, version)
  PROVE  HInv'
<1>1. \A s \in Refreshers : /\ pc'[s] = IF s = r THEN p ELSE pc[s]
                            /\ job'[s] = IF s = r THEN j ELSE job[s]
  BY DEF IInv, TypeOK
<1>2. \A s \in Refreshers : LocalsSeen(pc'[s], job'[s], version)
  BY <1>1 DEF HInv
<1>3. \A n \in Netuids : RowSeen(row[n], version)'
  BY DEF HInv
<1> QED
  BY <1>2, <1>3 DEF HInv

LEMMA IdleSeen ==
  ASSUME NEW p, p \notin {"fetch", "commit"}, NEW held
  PROVE  LocalsSeen(p, Idle, held)
BY NothingSeen DEF LocalsSeen, Idle

(* The snapshot that is stored is compared with what was read at the start.  *)
LEMMA StoreSeen ==
  ASSUME IInv, HInv, UNCHANGED <<version, row>>,
         NEW r \in Refreshers, NEW j \in Job, NEW snapshot \in Row, j.netuid \in Netuids,
         \A n \in Netuids : RowSeen(j.existing[n], version), RowSeen(snapshot, version),
         LET old == j.existing[j.netuid]
         IN  /\ Supersedes(snapshot, old, snapshot.commits, old.commits, j.commits.answer)
             /\ Supersedes(snapshot, old, snapshot.stats, old.stats, j.stats.answer),
         Store(r, j, snapshot)
  PROVE  HInv'
<1> DEFINE k == [j EXCEPT !.snapshot = snapshot,
                          !.read = row[j.netuid],
                          !.repo = NoRepo,
                          !.commits.evidence = None,
                          !.stats.evidence = None]
<1>1. job' = [job EXCEPT ![r] = k] /\ pc' = [pc EXCEPT ![r] = "commit"]
  BY DEF Store
<1>2. /\ k.snapshot = snapshot /\ k.netuid = j.netuid /\ k.existing = j.existing
      /\ k.commits.evidence = None /\ k.stats.evidence = None
      /\ k.commits.answer = j.commits.answer /\ k.stats.answer = j.stats.answer
  BY DEF Job, Answers
<1> HIDE DEF k
<1>3. LocalsSeen("commit", k, version)
  BY <1>2, NothingSeen DEF LocalsSeen
<1> QED
  BY <1>1, <1>3, SeenStep

(* A blank row names no repository, and has no evidence of any.              *)
LEMMA BlankSupersedes ==
  ASSUME NEW status, NEW run, NEW old, RowSeen(old, version), NEW a, NEW b
  PROVE  LET new == Blank(status, run)
         IN  /\ Supersedes(new, old, new.commits, old.commits, a)
             /\ Supersedes(new, old, new.stats, old.stats, b)
<1> DEFINE new == Blank(status, run)
<1>1. new.commits = None /\ new.stats = None /\ new.repo = NoRepo
  BY DEF Blank
<1>2. NotOlder(None, old.commits) /\ NotOlder(None, old.stats)
  BY NoneNotOlder DEF RowSeen
<1> QED
  BY <1>1, <1>2 DEF Supersedes

LEMMA SeenBegin ==
  ASSUME IInv, HInv, NEW r \in Refreshers, Begin(r)
  PROVE  HInv'
<1> DEFINE seen(asked) == [n \in Netuids |-> IF n \in asked THEN row[n] ELSE NoRow]
           L(asked) == [Idle EXCEPT !.run = runs + 1, !.asked = asked,
                                    !.todo = asked, !.existing = seen(asked)]
           p == IF job'[r].todo = {} THEN "done" ELSE "links"
<1>1. PICK asked \in SUBSET Netuids : job' = [job EXCEPT ![r] = L(asked)]
  BY DEF Begin
<1> DEFINE j == L(asked)
<1>2. /\ j.existing = seen(asked) /\ j.snapshot = NoRow
      /\ j.commits = Pending /\ j.stats = Pending
  BY DEF Idle
<1>3. /\ pc' = [pc EXCEPT ![r] = p] /\ job' = [job EXCEPT ![r] = j]
      /\ UNCHANGED <<version, row>>
  BY <1>1 DEF Begin
<1>4. \A n \in Netuids : RowSeen(seen(asked)[n], version)
  BY NothingSeen DEF HInv
<1> HIDE DEF L, j, seen
<1>5. LocalsSeen(p, j, version)
  BY <1>2, <1>4, NothingSeen DEF LocalsSeen
<1> HIDE DEF p
<1> QED
  BY <1>3, <1>5, SeenStep

LEMMA SeenScrape ==
  ASSUME IInv, HInv, NEW r \in Refreshers, ScrapeLinks(r)
  PROVE  HInv'
<1>1. PICK links : job' = [job EXCEPT ![r].links = links]
  BY DEF ScrapeLinks
<1> DEFINE j == [job[r] EXCEPT !.links = links]
<1>2. /\ job' = [job EXCEPT ![r] = j] /\ pc' = [pc EXCEPT ![r] = "next"]
      /\ UNCHANGED <<version, row>> /\ job[r] \in Job
  BY <1>1 DEF ScrapeLinks, IInv, TypeOK
<1>3. /\ j.snapshot = job[r].snapshot /\ j.existing = job[r].existing
      /\ j.commits = job[r].commits /\ j.stats = job[r].stats
  BY <1>2 DEF Job
<1> HIDE DEF j
<1>4. LocalsSeen("next", j, version)
  BY <1>3 DEF HInv, LocalsSeen
<1> QED
  BY <1>2, <1>4, SeenStep

LEMMA SeenFinish ==
  ASSUME IInv, HInv, NEW r \in Refreshers, Finish(r)
  PROVE  HInv'
<1> DEFINE j == [Idle EXCEPT !.run = job[r].run, !.asked = job[r].asked]
<1>1. /\ job' = [job EXCEPT ![r] = j] /\ pc' = [pc EXCEPT ![r] = "done"]
      /\ UNCHANGED <<version, row>>
  BY DEF Finish
<1>2. /\ j.snapshot = Idle.snapshot /\ j.existing = Idle.existing
      /\ j.commits = Idle.commits /\ j.stats = Idle.stats
  BY DEF Idle
<1> HIDE DEF j
<1>3. LocalsSeen("done", j, version)
  BY <1>2, IdleSeen DEF LocalsSeen
<1> QED
  BY <1>1, <1>3, SeenStep

LEMMA SeenResolve ==
  ASSUME IInv, HInv, NEW r \in Refreshers, NEW n \in Netuids, Resolve(r, n)
  PROVE  HInv'
<1> DEFINE repo == IF job[r].links[n] # NoRepo THEN job[r].links[n] ELSE mapped'[n]
           j    == [job[r] EXCEPT !.netuid = n, !.todo = @ \ {n}, !.links[n] = NoRepo,
                           !.repo = repo]
<1>1. /\ job[r] \in Job /\ mapped \in [Netuids -> RepoOrNone]
      /\ LocalsOK("next", job[r]) /\ pc[r] = "next"
  BY DEF IInv, TypeOK, Resolve
<1>2. mapped' \in [Netuids -> RepoOrNone]
  BY <1>1, ExternalSnapshotsAssumption DEF Resolve, RepoOrNone
<1>3. repo \in RepoOrNone
  BY <1>1, <1>2 DEF Job
<1>4. /\ IF repo # NoRepo
         THEN job' = [job EXCEPT ![r] = j] /\ pc' = [pc EXCEPT ![r] = "fetch"]
         ELSE Store(r, j, Blank("unmapped", j.run))
      /\ UNCHANGED <<version, row>>
  BY DEF Resolve
<1> HIDE DEF repo
<1>5. j \in Job
  BY <1>1, <1>3 DEF Job, RepoOrNone
<1>6. /\ j.netuid = n /\ j.snapshot = job[r].snapshot /\ j.existing = job[r].existing
      /\ j.commits = Pending /\ j.stats = Pending
  BY <1>1 DEF Job, LocalsOK
<1> HIDE DEF j
<1>7. /\ \A k \in Netuids : RowSeen(j.existing[k], version)
      /\ RowSeen(j.snapshot, version)
  BY <1>6 DEF HInv, LocalsSeen
<1>8. CASE repo # NoRepo
  <2>1. /\ NotOlder(Pending.evidence, j.existing[j.netuid].commits)
        /\ NotOlder(Pending.evidence, j.existing[j.netuid].stats)
    BY <1>6, <1>7, NoneNotOlder DEF RowSeen, Pending
  <2>2. LocalsSeen("fetch", j, version)
    BY <1>6, <1>7, <2>1, NothingSeen DEF LocalsSeen
  <2> QED
    BY <1>4, <1>8, <2>2, SeenStep
<1>9. CASE repo = NoRepo
  <2> DEFINE blank == Blank("unmapped", j.run)
             old   == j.existing[j.netuid]
  <2>1. "unmapped" \in Statuses /\ j.run \in 0..MaxRuns
    BY <1>5 DEF Statuses, Job
  <2>2. blank \in Row
    BY ONLY <2>1, BlankIsRow
  <2>3. RowSeen(old, version)
    BY <1>6, <1>7
  <2>4. /\ Supersedes(blank, old, blank.commits, old.commits, j.commits.answer)
        /\ Supersedes(blank, old, blank.stats, old.stats, j.stats.answer)
    BY <2>3, BlankSupersedes
  <2>5. RowSeen(blank, version)
    BY NothingSeen
  <2>6. Store(r, j, blank)
    BY <1>4, <1>9
  <2> HIDE DEF blank
  <2> QED
    BY <1>4, <1>5, <1>6, <1>7, <2>2, <2>4, <2>5, <2>6, StoreSeen
<1> QED
  BY <1>8, <1>9

(* The answer is what the repository holds now: no row read before has newer *)
(* evidence of it.                                                           *)
LEMMA SeenAnswer ==
  ASSUME IInv, HInv, NEW r \in Refreshers, NEW half \in {"commits", "stats"},
         Answer(r, half)
  PROVE  HInv'
<1> DEFINE got(ok, dated) ==
             IF ok THEN [answer |-> "ok",
                         evidence |-> [repo |-> job[r].repo, version |-> version[job[r].repo],
                                       dated |-> dated, run |-> job[r].run]]
                   ELSE Failed
           old == job[r].existing[job[r].netuid]
<1>1. /\ job[r] \in Job /\ pc[r] = "fetch" /\ LocalsOK("fetch", job[r])
      /\ version \in [Repos -> 0..MaxVersion] /\ LocalsSeen("fetch", job[r], version)
  BY DEF IInv, TypeOK, Answer, HInv
<1>2. job[r].repo \in Repos /\ job[r].netuid \in Netuids
  BY <1>1 DEF LocalsOK
<1>3. PICK dated \in BOOLEAN, ok \in BOOLEAN :
        job' = [job EXCEPT ![r][half] = got(ok, dated)]
  BY DEF Answer
<1> DEFINE a == got(ok, dated)
<1>4. RowSeen(old, version)
  BY <1>1, <1>2 DEF LocalsSeen
<1>5. Seen(a.evidence, version)
  <2>1. CASE ok
    BY <1>1, <1>2, <2>1, ExternalSnapshotsAssumption DEF Seen
  <2> QED
    BY <2>1, NothingSeen
<1>6. ASSUME NEW e \in Evidence, Seen(e, version) PROVE NotOlder(a.evidence, e)
  <2>1. CASE ok
    <3>1. a.evidence.repo = job[r].repo /\ a.evidence.version = version[job[r].repo]
      BY <2>1
    <3>2. version[job[r].repo] \in 0..MaxVersion /\ 0..MaxVersion \subseteq Int
      BY <1>1, <1>2
    <3>3. job[r].repo # NoRepo
      BY <1>2, ExternalSnapshotsAssumption
    <3>4. e.version \in 0..MaxVersion
      BY <1>6 DEF Evidence
    <3> HIDE DEF a, got
    <3> QED
      BY <1>6, <3>1, <3>2, <3>3, <3>4 DEF Seen, NotOlder
  <2>2. CASE ~ok
    BY <1>6, <2>2, NoneNotOlder DEF Failed
  <2> QED
    BY <2>1, <2>2
<1>7. old.commits \in Evidence /\ old.stats \in Evidence
  BY <1>1, <1>2 DEF Job, Row
<1>8. NotOlder(a.evidence, old.commits) /\ NotOlder(a.evidence, old.stats)
  BY <1>4, <1>6, <1>7 DEF RowSeen
<1> DEFINE j == [job[r] EXCEPT ![half] = a]
<1>9. /\ pc' = [pc EXCEPT ![r] = "fetch"] /\ job' = [job EXCEPT ![r] = j]
      /\ UNCHANGED <<version, row>>
  BY <1>1, <1>3 DEF Answer, IInv, TypeOK
<1>10. /\ j.netuid = job[r].netuid /\ j.snapshot = job[r].snapshot
       /\ j.existing = job[r].existing
       /\ j.commits = (IF half = "commits" THEN a ELSE job[r].commits)
       /\ j.stats = (IF half = "stats" THEN a ELSE job[r].stats)
  BY <1>1 DEF Job
<1> HIDE DEF a, got, j
<1>11. LocalsSeen("fetch", j, version)
  BY <1>1, <1>5, <1>8, <1>10 DEF LocalsSeen
<1> QED
  BY <1>9, <1>11, SeenStep

LEMMA SeenRaise ==
  ASSUME IInv, HInv, NEW r \in Refreshers,
         RaiseInFetch(r) \/ \E n \in Netuids : RaiseInResolve(r, n)
  PROVE  HInv'
<1> DEFINE blank == Blank("fetch_failed", job[r].run)
<1>1. job[r] \in Job /\ LocalsOK(pc[r], job[r]) /\ UNCHANGED <<version, row>>
  BY DEF IInv, TypeOK, RaiseInFetch, RaiseInResolve
<1>2. "fetch_failed" \in Statuses /\ job[r].run \in 0..MaxRuns
  BY <1>1 DEF Statuses, Job
<1>3. blank \in Row
  BY ONLY <1>2, BlankIsRow
<1>4. RowSeen(blank, version)
  BY NothingSeen
<1>5. ASSUME NEW j \in Job, j.netuid \in Netuids, j.existing = job[r].existing,
             Store(r, j, blank)
      PROVE  HInv'
  <2> DEFINE old == j.existing[j.netuid]
  <2>1. \A n \in Netuids : RowSeen(j.existing[n], version)
    BY <1>5 DEF HInv, LocalsSeen
  <2>2. /\ Supersedes(blank, old, blank.commits, old.commits, j.commits.answer)
        /\ Supersedes(blank, old, blank.stats, old.stats, j.stats.answer)
    BY <1>5, <2>1, BlankSupersedes
  <2> HIDE DEF blank
  <2> QED
    BY <1>1, <1>3, <1>4, <1>5, <2>1, <2>2, StoreSeen
<1>6. CASE RaiseInFetch(r)
  BY <1>1, <1>5, <1>6 DEF RaiseInFetch, LocalsOK
<1>7. ASSUME NEW n \in Netuids, RaiseInResolve(r, n) PROVE HInv'
  <2> DEFINE j == [job[r] EXCEPT !.netuid = n, !.todo = @ \ {n}, !.links[n] = NoRepo]
  <2>1. Store(r, j, blank)
    BY <1>7 DEF RaiseInResolve
  <2>2. j \in Job /\ j.netuid = n /\ j.existing = job[r].existing
    BY <1>1 DEF Job, RepoOrNone
  <2> HIDE DEF j, blank
  <2> QED
    BY <1>5, <2>1, <2>2
<1> QED
  BY <1>6, <1>7

(* What is carried over is the half that was read; the rest was answered.    *)
LEMMA SeenAssemble ==
  ASSUME IInv, HInv, NEW r \in Refreshers, Assemble(r)
  PROVE  HInv'
<1> DEFINE j        == job[r]
           existing == j.existing[j.netuid]
           commits  == CarriedOver(existing, "commits", j.commits, j.repo)
           stats    == CarriedOver(existing, "stats", j.stats, j.repo)
           status   == Status(existing, commits, stats, j)
           torn     == existing.torn /\ Failed \in {j.commits, j.stats}
           snapshot == [repo |-> j.repo, status |-> status, commits |-> commits,
                        stats |-> stats, run |-> j.run, torn |-> torn]
<1>1. /\ j \in Job /\ LocalsOK("fetch", j) /\ LocalsSeen("fetch", j, version)
      /\ Store(r, j, snapshot) /\ UNCHANGED <<version, row>>
      /\ Pending \notin {j.commits, j.stats}
  BY DEF IInv, TypeOK, HInv, Assemble
<1>2. /\ j.netuid \in Netuids /\ j.repo \in RepoOrNone /\ j.run \in 0..MaxRuns
      /\ AnswerOK(j, j.commits) /\ AnswerOK(j, j.stats)
      /\ j.commits \in Answers /\ j.stats \in Answers
  BY <1>1 DEF LocalsOK, Job
<1>3. /\ \A n \in Netuids : RowSeen(j.existing[n], version)
      /\ Seen(j.commits.evidence, version) /\ Seen(j.stats.evidence, version)
      /\ NotOlder(j.commits.evidence, existing.commits)
      /\ NotOlder(j.stats.evidence, existing.stats)
  BY <1>1 DEF LocalsSeen
<1>4. existing \in Row /\ RowSeen(existing, version)
  BY <1>1, <1>2, <1>3 DEF Job
<1>5. /\ j.commits.answer \in {"ok", "failed"} /\ j.stats.answer \in {"ok", "failed"}
  BY <1>1, <1>2 DEF AnswerOK, Answers, Pending
<1> HIDE DEF j, existing
<1>6. /\ commits = (IF j.commits.answer = "failed" /\ existing.repo = j.repo
                       /\ existing.commits.dated
                    THEN existing.commits ELSE j.commits.evidence)
      /\ stats = (IF j.stats.answer = "failed" /\ existing.repo = j.repo
                     /\ existing.stats.dated
                  THEN existing.stats ELSE j.stats.evidence)
  BY DEF CarriedOver
<1>7. status \in Statuses
  BY DEF Status, Statuses
<1>8. existing.commits \in Evidence /\ existing.stats \in Evidence
  BY <1>4 DEF Row
<1>9. commits \in Evidence /\ stats \in Evidence
  BY <1>2, <1>6, <1>8 DEF Answers
<1>14. torn \in BOOLEAN
  BY <1>4 DEF Row
<1> HIDE DEF commits, stats, status, torn
<1>10. snapshot \in Row /\ RowSeen(snapshot, version)
  BY <1>2, <1>3, <1>4, <1>6, <1>7, <1>9, <1>14 DEF Row, RowSeen
<1>11. NotOlder(existing.commits, existing.commits) /\ NotOlder(existing.stats, existing.stats)
  BY <1>8 DEF NotOlder, Evidence
<1>12. /\ Supersedes(snapshot, existing, commits, existing.commits, j.commits.answer)
       /\ Supersedes(snapshot, existing, stats, existing.stats, j.stats.answer)
  BY <1>3, <1>5, <1>6, <1>11 DEF Supersedes
<1>13. snapshot.commits = commits /\ snapshot.stats = stats
  OBVIOUS
<1> HIDE DEF snapshot
<1> QED
  BY <1>1, <1>2, <1>3, <1>10, <1>12, <1>13, StoreSeen DEF existing

(* A mixture is of no repository; the rest was seen before.                  *)
LEMMA UpdatedSeen ==
  ASSUME NEW now, NEW read, NEW new, NEW held, RowSeen(now, held), RowSeen(new, held),
         NEW x \in Updated(now, read, new)
  PROVE  RowSeen(x, held)
<1>1. \A d : Seen(Mixed(d), held)
  BY DEF Mixed, None, Seen
<1>2. /\ x.commits \in HalfAfter(now.commits, read.commits, new.commits)
      /\ x.stats \in HalfAfter(now.stats, read.stats, new.stats)
  BY DEF Updated
<1> QED
  BY <1>1, <1>2 DEF HalfAfter, RowSeen

LEMMA SeenCommit ==
  ASSUME IInv, HInv, NEW r \in Refreshers, Commit(r)
  PROVE  HInv'
<1> DEFINE n == job[r].netuid
           j == Forget(job[r])
           p == IF Clash(r) THEN "crashed" ELSE "next"
<1>1. /\ job[r] \in Job /\ LocalsOK("commit", job[r]) /\ row \in [Netuids -> Row]
      /\ LocalsSeen("commit", job[r], version)
  BY DEF IInv, TypeOK, Commit, HInv
<1>2. n \in Netuids
  BY <1>1 DEF LocalsOK
<1>3. /\ pc' = [pc EXCEPT ![r] = p] /\ job' = [job EXCEPT ![r] = j]
      /\ version' = version
  BY DEF Commit, Clash
<1>4. \A k \in Netuids : RowSeen(row'[k], version)
  <2>1. PICK x : Leaves(r, x)
    BY CommitLeaves
  <2>2. RowSeen(row[n], version) /\ RowSeen(job[r].snapshot, version)
    BY <1>1, <1>2 DEF HInv, LocalsSeen
  <2>3. RowSeen(x, version)
    BY <2>1, <2>2, UpdatedSeen DEF Leaves
  <2> QED
    BY <1>1, <1>2, <2>1, <2>3 DEF HInv, Leaves
<1>5. /\ j.snapshot = NoRow /\ j.existing = [job[r].existing EXCEPT ![n] = NoRow]
      /\ j.commits = Pending /\ j.stats = Pending
  BY <1>1 DEF Forget, Job
<1>6. p \in {"crashed", "next"}
  OBVIOUS
<1>7. \A k \in Netuids : RowSeen(j.existing[k], version)
  BY <1>1, <1>5, NothingSeen DEF LocalsSeen, Job
<1> HIDE DEF j, p
<1>8. LocalsSeen(p, j, version)
  BY <1>5, <1>6, <1>7, NothingSeen DEF LocalsSeen
<1>9. \A s \in Refreshers : LocalsSeen(pc'[s], job'[s], version)
  BY <1>3, <1>8 DEF HInv, IInv, TypeOK
<1> QED
  BY <1>3, <1>4, <1>9 DEF HInv

(* A repository only gains pushes: what was seen of it stays seen.           *)
LEMMA SeenPush ==
  ASSUME IInv, HInv, NEW p \in Repos, Push(p)
  PROVE  HInv'
<1>1. /\ version \in [Repos -> 0..MaxVersion] /\ UNCHANGED <<row, pc, job>>
      /\ version' = [version EXCEPT ![p] = @ + 1]
      /\ row \in [Netuids -> Row] /\ job \in [Refreshers -> Job]
  BY DEF IInv, TypeOK, Push
<1>2. \A q \in Repos : version[q] \in Int /\ version[q] <= version'[q]
  BY <1>1
<1>3. \A e \in Evidence : Seen(e, version) => Seen(e, version')
  <2> TAKE e \in Evidence
  <2>1. e.version \in Int
    BY DEF Evidence
  <2>2. \A q \in Repos : version'[q] \in Int
    BY <1>1
  <2> QED
    BY <1>2, <2>1, <2>2 DEF Seen
<1>4. \A x \in Row : RowSeen(x, version) => RowSeen(x, version')
  BY <1>3 DEF RowSeen, Row
<1>5. \A n \in Netuids : RowSeen(row[n], version')
  BY <1>1, <1>4 DEF HInv
<1>6. ASSUME NEW r \in Refreshers PROVE LocalsSeen(pc[r], job[r], version')
  <2>1. LocalsSeen(pc[r], job[r], version)
    BY DEF HInv
  <2>2. /\ job[r].snapshot \in Row /\ \A n \in Netuids : job[r].existing[n] \in Row
        /\ job[r].commits.evidence \in Evidence /\ job[r].stats.evidence \in Evidence
    BY <1>1 DEF Job, Answers
  <2> QED
    BY <1>3, <1>4, <2>1, <2>2 DEF LocalsSeen
<1> QED
  BY <1>1, <1>5, <1>6 DEF HInv

LEMMA SpecHInv == Spec => []HInv
<1>1. Init => HInv
  <2>1. ASSUME Init PROVE \A p \in Known : RowSeen(Earlier(p), version)
    BY <2>1, ExternalSnapshotsAssumption DEF Init, Earlier, RowSeen, Seen
  <2> QED
    BY <2>1, NothingSeen, IdleSeen DEF Init, HInv
<1>2. IInv /\ HInv /\ [Next]_vars => HInv'
  <2> SUFFICES ASSUME IInv, HInv, [Next]_vars PROVE HInv'
    OBVIOUS
  <2>1. ASSUME NEW r \in Refreshers, Crash(r) PROVE HInv'
    BY <2>1, IdleSeen, SeenStep DEF Crash
  <2>2. ASSUME NEW r \in Refreshers, Step(r) PROVE HInv'
    BY <2>1, <2>2, SeenBegin, SeenScrape, SeenFinish, SeenResolve, SeenAnswer, SeenRaise,
       SeenAssemble, SeenCommit DEF Step
  <2>3. CASE UNCHANGED <<version, row, pc, job>>
    BY <2>3 DEF HInv
  <2> QED
    BY <2>2, <2>3, SeenPush DEF Next, vars
<1> QED
  BY <1>1, <1>2, SpecIInv, PTL DEF Spec

(* The commit of a row that nobody else wrote since it was read.             *)
LEMMA UndisturbedCommit ==
  ASSUME IInv, HInv, NEW r \in Refreshers, NEW n \in Netuids, NEW half \in Halves,
         Commit(r), Undisturbed(r, n)
  PROVE  Supersedes(row'[n], row[n], row'[n][half], row[n][half], job[r][half].answer)
         \/ row' = row
<1>1. /\ job[r] \in Job /\ job[r].netuid = n /\ row[n] = job[r].existing[n]
      /\ LocalsSeen("commit", job[r], version) /\ row \in [Netuids -> Row]
  BY DEF IInv, TypeOK, HInv, Commit, Undisturbed
<1>2. row' = row \/ row'[n] = job[r].snapshot
  BY <1>1, CommitLeaves DEF Undisturbed, Leaves
<1> QED
  BY <1>1, <1>2 DEF LocalsSeen, Halves

(* Unless another refresher wrote in between, a refresh never puts older     *)
(* evidence of a repository in the place of newer evidence of it, whatever   *)
(* is pushed or relinked between its reads and its commit.                   *)
THEOREM EvidenceOnlyGetsNewer == Spec => EvidenceNeverOlder
<1>1. IInv /\ HInv =>
        \A r \in Refreshers, n \in Netuids, half \in Halves :
          (Commit(r) /\ Undisturbed(r, n) /\ row'[n][half].repo = row[n][half].repo) =>
            row'[n][half].version >= row[n][half].version
  <2> SUFFICES ASSUME IInv, HInv,
                      NEW r \in Refreshers, NEW n \in Netuids, NEW half \in Halves,
                      Commit(r), Undisturbed(r, n),
                      row'[n][half].repo = row[n][half].repo
               PROVE  row'[n][half].version >= row[n][half].version
    OBVIOUS
  <2>1. row[n][half].version \in Int
    BY DEF IInv, TypeOK, Row, Evidence, Halves
  <2> QED
    BY <2>1, UndisturbedCommit DEF Supersedes, NotOlder
<1> QED
  BY <1>1, SpecIInv, SpecHInv, PTL DEF EvidenceNeverOlder

(* Unless another refresher wrote in between, dated evidence is only lost to *)
(* another repository, or to an answer of GitHub that has no date in it.     *)
THEOREM EvidenceIsNotLost == Spec => NoSilentLoss
<1>1. IInv /\ HInv =>
        \A r \in Refreshers, n \in Netuids, half \in Halves :
          (/\ Commit(r) /\ Undisturbed(r, n)
           /\ row[n].repo # NoRepo /\ row'[n].repo = row[n].repo
           /\ row[n][half].dated /\ ~row'[n][half].dated)
            => job[r][half].answer = "ok"
  BY UndisturbedCommit DEF Supersedes
<1> QED
  BY <1>1, SpecIInv, SpecHInv, PTL DEF NoSilentLoss
=============================================================================

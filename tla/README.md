# Verification of subnet-intelligence

TLA+ models of the parts of subnet-intelligence whose correctness depends on
order, failure or history, or on a chain of thresholds too long to test: the
client of the chain, the scheduler, the refresh of external evidence, score runs
and their ranks, the names of subnets, the feature model with its hard rules,
stress tests and labels, the stabilisation of all that from run to run, and the
API's response cache and rate limiter.  TLC checks each on a small instance;
TLAPS proves the most important properties for every value of the constants.

    tlc -workers 2 -config ChainCalls.cfg MCChainCalls     # a run
    tlapm RunnerProofs.tla                                 # the proofs of a module

PROJECT.json lists the runs, the theorems, the lines of code each definition
models, the hazards the properties are aimed at, and for every property a
mutant of the code that violates it.

## 1. The system

A score run (`scorer/run.py`) lists the subnets of the chain, refreshes what is
known of their repositories, computes a score and four signals per subnet,
stores one row per subnet, and updates names and links.  A scheduler, a daily
workflow or a person starts runs; nothing keeps two of them apart.  The API
(`api/main.py`) reads the tables while runs write them.

| component | state | operations | interacts with | what is hard | correct when |
|---|---|---|---|---|---|
| chain client `scorer/bittensor_client.py` | semaphore, thread pool, all module globals | five async calls around blocking functions | runs, refresh | timeouts that leave threads behind, globals that outlive the event loop | permits are conserved, every call returns, runs do not starve each other |
| identities, same file | identity cache, flag, thread lock | batch prefetch, look-ups | runs, refresh | threads that pile up behind a slow batch, a look-up that writes after the loop went on | the chain is read once, names stay |
| scheduler `scorer/scheduler.py` | table of jobs of the `schedule` library, in memory | daily job, retry, cancel | runs | jobs longer than their slots, retry that cancels itself, restart | a failed day is retried, once; daily runs go on |
| external evidence `scorer/external_data_snapshot.py` | table `external_data_snapshots`, `data/github_map.json` | refresh of one or all subnets | TaoStats, GitHub, chain client | partial failure, carry-over, two refreshers, crash between rows | a row's evidence is its repository's, honestly labelled, never older, never lost without a reason |
| repository map `scorer/subnet_github_mapper.py` | JSON file | resolve, refresh all | refresh, chain client | read, await, write of a whole file | no entry is lost |
| score run `scorer/run.py`, `scorer/composite.py` | locals of the run | list, fetch, score, stamp, commit, upsert | all of the above, database | concurrent runs, crash between commits, subnets that vanish | rows of one stamp are one whole run's; metadata follows scores |
| names `scorer/run.py`, `scorer/name_resolver.py` | `data/subnet_names_cache.json` | daily scrape, seed fallback, vote between candidates | run, identities | a fallback that hides a failure for a day, a name counted twice | scraped names come back; a seed name alone does not outrank the chain |
| readers `scorer/database.py` | none | latest rows, previous ranks, histories | API | rows of different runs side by side | ranks are positions of one ranking |
| feature model `features/` | none | features, normalisation among the subnets of a run, components, signals, gates | score run | a hundred formulas with opposite signs, missing values | no evidence counts for what it is evidence against |
| hard rules, stress, labels `regimes/`, `stress/`, `labels/` | none | caps, floors, forced labels, shocks, choice of a label | feature model | thresholds that pass a subnet from one rule to a laxer one | worse readings are never allowed more |
| stabilisation `scoring/engine.py`, `storage/history.py` | the stored row | cap, limit drift, fall back in a telemetry gap, store and read back | score run | feedback of a run's output into the next | jumps are bounded, signals converge to the capped value, history delays and never decides |
| response cache `api/main.py` | `_cache` | loaders, keys, pages, fallback copies | database, requests | commits and failures between two reads of a request, eviction | bounded staleness, right page for a key, answers in an outage, bounded size |
| rate limiter `api/main.py` | times per address | check | every endpoint | boundary of the window | exactly a sliding window |
| TaoStats, GitHub, CoinGecko clients | caches, limiter | HTTP requests | refresh, names | retries, waits for quotas | quota kept, retries end |
| explanations, backtests, view models | none | wording, arithmetic over stored rows | API | nothing that depends on order | not a matter of state |
| frontend | component state | two-stage loading, compare | API | answers out of order | full data is not replaced by compact data |

## 2. Modules

One module per component; proofs in a module of their own; MC modules hold
model values, tables and symmetry sets for TLC.

**ChainCalls** (`bittensor_client.py`; asyncio and the executor as far as the
code uses them).  A call is `idle`, `waiting` at the semaphore, `queued` in the
executor, `running` in a thread, and then `answered`, `timedout` or `lost`.
`value`, `waiters` and `boundLoop` are the semaphore's, `zombies` counts the
threads whose call has timed out.  `Acquire`, `Wait` and `RefuseToWait` are the
three ways through `async with _get_sem()`; `TimeoutQueued` and `TimeoutRunning`
are `wait_for` giving up before and after a worker took the function.
`NextRun` and `AbortRun` are the scheduler's next `asyncio.run` after a run that
returned, or that a refused identity call has ended.  What the SDK returns is
left out, an answer is an answer.

**Scheduler** (`scheduler.py`; `schedule` is external).  Time is counted down to
the jobs in the table.  `RunPending` fixes the list of due jobs, `Daily` and
`Retry` run one of them and rewrite the table as `_run_job` and
`_run_once_and_cancel` do, `Crash` forgets all but the daily job.

**SlidingWindow, RateLimiter** (`_check_rate_limit`).  SlidingWindow decides
from the log of everything that passed; RateLimiter from the pruned list, and
implements it: `SW == INSTANCE SlidingWindow WITH log <- log, ...`, with `log` a
history variable, and `ImplementsSlidingWindow == SW!Spec`.

**ExternalSnapshots** (`external_data_snapshot.py`, the resolution of
`subnet_github_mapper.py`, the upsert of `database.py`).  Each refresher steps
through `Begin`, `ScrapeLinks`, then per subnet `Resolve`, the two `Answer`s of
the gather in any order, `Assemble` and `Commit`.  Evidence is a repository, the
version it had, whether it has a date, and the refresh that fetched it; names,
figures and URLs are left out.  `CarriedOver` and `Status` are the two decisions
of `_snapshot_for_netuid`.  Between `Store`, which reads the row to be updated, and `Commit`, two refreshers can
clash over an insert and tear a row.  The overrides file
is left out: a subnet named in it behaves as one whose entry of the map is set
already.  The locals of a subnet are dropped once its row is written.

An upsert gets the row and sets its attributes; the ORM's UPDATE then names the
columns that differ from the row *as `session.get` read it*.  `Store` remembers that
row (`read`), and `Updated` is what the UPDATE leaves of the row as it is by then:
an unchanged column keeps what another refresher has committed in between, and since
a repository's name and a half of the evidence are several columns each, even one of
these may come out mixed.  Such a row is `torn`, and stays so until a refresh
replaces all of it or a half is no longer carried over from it.  The properties on
rows except torn ones, for the code does write rows whose repository is one
refresher's and whose evidence is the other's.

**Features, PrimarySignals** (`features/model_v2.py`, `normalization.py`,
`components_*.py`, `scorer/normalizer.py`).  Pure operators in thousandths.  An
observation is what a run sees of a subnet: pool, activity, breadth, validators,
ownership, consensus, changes against the history, the repository.  Features has
the raw features, written one by one from the code; a missing value (`Missing`)
is kept apart from 0 where the code does.  PrimarySignals ranks and scales them
among the subnets of a run (`Peers`), groups them into components, and builds
the signals, gates and ceilings, one operator each: `Bundle(o)` is what the run knows of one
subnet before rules and history.

**HardRules** (`regimes/hard_rules.py`).  One predicate per rule over a record of
readings, and what the rules that fire allow: the caps of three signals, the
floor of fragility, the cap of the score, the forced label.

**Scoring** (`scoring/engine.py`, `stress/scenarios.py`, `labels/engine.py`)
composes them: one subnet, whose observation may change, published from run to
run.  `Analyse` is what a run computes before it looks at the history: readings,
`Rules == INSTANCE HardRules`, the stress test.  `FirstRun`, `ScoredRun`,
`GapRun`, `BlankRun` and `BlindRun` are the ways `build_scores` goes with and
without history and telemetry; each publishes signals, score, label and whether
the row reads back as alive.  The step of the limiter comes from the
reliability that this run's evidence earns.  `Drift(s) == INSTANCE SignalDrift
WITH ...` maps each of the four signals to the abstract one of the next module,
and `SignalsDrift` says that every step of Scoring is one of it.  The ranking
itself is left to ScoreRuns.

**Settling** EXTENDS Scoring and counts (`calm`, a history variable) the regular
runs since the last change, gap or unread history; MCScoring instantiates it.
`HistoryOnlyDelays` says in how many of them history has been overcome: it is
liveness put as a bound, and so can be proved.

**SignalDrift** (`build_scores` and what it calls around history,
`apply_rule_caps`, `load_recent_analysis_history`).  One signal of one subnet on
a grid of 1/Unit.  `world` is what a run computes before history: the model's
value, the bound of the hard rules, the result of the stress tests, each any of
a set.  `ScoredRun` reads the stored row back, caps, and limits the drift by a
step that depends on the reliability of the run's telemetry (any of
`Reliabilities`); `GapRun` blends history and blank metrics; `BlankRun` is a
silent chain that was not recognised as a gap; `BlindRun` is a run whose history
could not be read.  That a gap is recognised is left to choice here, and
computed in Scoring.

**ScoreRuns** (`run.py`, `compute_all_subnets`, `save_scores`,
`upsert_metadata`, and the readers `get_latest_scores` and
`get_previous_run_ranks`).  A run begins, refreshes, computes on the subnets it
lists, takes a stamp, commits all rows at once, and upserts metadata one by
one; it may stop anywhere.  A score is any number; ties are ranked in any order.
Stamps are distinct (microseconds in the code).

**SubnetNames, Metadata** (identities in `bittensor_client.py`, names in `run.py`
and `name_resolver.py`).  SubnetNames has the vote between candidate names: the
families of similar names, their weights, the choice within a family.  Metadata
has runs of one process: the event loop steps through prefetch, refresh, the
file of names, the look-ups of identities and the upserts; worker threads take
the batch, wait for its lock, read the chain entry by entry, fail on a key, and
go on after the coroutine that sent them has given up.  `Chain` gives each of the two
storage keys entries of its own, of which some bear no name; when the first breaks
off midway, the second is scanned over what it has delivered.  Of a name the model
knows the family, the length, whether it looks cut off, and whether
`upsert_metadata` refuses to store it (`Sanitized`: too long, or markup).

**ApiCache** (`api/main.py`).  The body of a page is the version of each part it
shows, where the version of a table is the number of its commits.  The fingerprint
in a key (newest timestamp and number of rows) tells less apart, and each commit
carries the one it leaves: rows are stamped before they are committed, so that a
commit of scores that comes late changes rows under a fingerprint that stays, and an
upsert of metadata that comes late can even bring an earlier fingerprint back.
A request is `ReadRows`, `MakeKey`, one `ReadPart` per read and `Finish`,
in the order of the endpoint's entry in `Handlers`; a commit, or the failure of
the next read, may come in between.  A handler does not await, so requests do
not overlap and the clock stands still within one.  The parameters of an
endpoint are one value; endpoints of the same shape (`history/detailed`) share
an entry.

How they meet: Scoring EXTENDS PrimarySignals and instantiates HardRules and
SignalDrift, Metadata EXTENDS SubnetNames, RateLimiter instantiates
SlidingWindow.  ChainCalls justifies that every run ends, which Scheduler takes as
the fairness of jobs and Metadata as that of the event loop; Scheduler and the
workflow are the Runners of ScoreRuns and the Refreshers of ExternalSnapshots;
the value a ScoreRuns score stands for moves as Scoring says; `Upsert` of Metadata
is what an upsert of ScoreRuns writes; `CommitTo` of ApiCache is `Commit` or
`Upsert` of ScoreRuns seen from the API.

## 3. Runs

| run | instance | shows |
|---|---|---|
| chain_calls | 4 calls, 2 permits, 3 workers, 3 runs | permits conserved; a worker for each holder while zombies are few; every call returns; the last run is reached |
| scheduler | day 8, retry after 2, jobs up to 10, 1 restart | one retry a day; a failed day is retried; daily runs go on; no deadlock |
| rate_limiter | 2 clients, limit 2, window 3, time to 6 | the window bound, the refinement |
| external_snapshots | 2 refreshers, 1 subnet, 2 repositories, pushes; 851,236 states | evidence is the named repository's and active means fetched, but for torn rows; evidence never older; none lost without a reason |
| api_cache | all 11 entries, three pairs of them together, 3 cache entries, 2 commits, time to 4; 2.4 million states | staleness, keys, outages, size |
| signal_drift | each signal, grid 1/200, 3 inputs, 3 bounds, 2 shocks | bounded steps, approach, convergence |
| score_runs | 2 runners, 2 subnets and the root, 2 scores, 2 runs; 232,048 states | rows of a stamp are one ranking, the latest rows name each subnet once; metadata follows scores |
| scoring | Settling: 16 observations, a silent chain, 2 peers, 2 shocks, runs counted to 14; 8,620 states | a draining pool never eases the rules, but for a subnet that a rule lets go of; every signal refines SignalDrift; a row bridged over a gap reads back as alive; history delays and never decides |
| metadata | 2 subnets, 2 worker threads, 2 storage keys; 157,445 states | the chain is read once; names survive the threads, but for a second key without them; runs end; page names return; a seed name alone does not outrank the chain |
| signal_drift_jumps | one signal | violated: see findings |
| scoring_concentration | one subnet, two concentrations | violated |
| chain_calls_lost | as chain_calls | violated |

*Bounds.*  ChainCalls: with two permits and three workers the pool has room for
one zombie, four calls make two wait, and the third run sees zombies of two
runs; MaxRuns only stops the counting.  Scheduler: a job of 10 units outlasts
both the retry delay and a day, so that every order of the two jobs in a pass
occurs.  RateLimiter: two windows fit in the time.  ExternalSnapshots: two
refreshes, of one process or of two at a time, are enough to carry evidence over
and to clash over an insert, a push lets evidence grow old, a second repository
lets the link move.  Only one repository has evidence from before (`Known`).  More
than one subnet only meet in the loop of a refresh: that one subnet's exception does
not cost the others their rows needs two subnets at least, which take longer than a
run should, and is therefore not checked but proved, for any number of them
(`AllAskedAreRefreshed`).
ApiCache: three entries are fewer than one request to `detail` or `bootstrap`
stores, so that eviction hits every kind of entry, and HotTTL + PageTTL = 3 is
reached by the clock.  Two commits, to one table or to both, make a late commit that
keeps the fingerprint; an earlier fingerprint of the metadata that comes back in
the place of another needs three, and is left to the proofs.  SignalDrift: 30, 101 and 200 of 200 are further apart
than the largest step, and 36 and 164 lie between them; both branches of every
minimum and maximum occur.  Inputs are at least one percent, below which the
round trip of the percentage is wrong (see findings); DriftBounded and
Approaches say so with `Readable`, and Settles is checked for inputs
above.  ScoreRuns: two runs by two processes interleave at every step.  Scoring:
the sixteen observations are chosen so that every family of rules fires for some
and most labels are published: excellent, ordinary, thin, drained by degrees to
a micro pool, concentrated, crowded (at two pools, between which the watch on
crowded subnets lets go), overheated, hollow, closed, barely alive, standing
still; two shocks allow a change and a silent chain in either order.  The scale is
a thousandth, divisions round down, and so a property with a tolerance of nothing
is about the thousandths; Ln1p is a table, for it is only read at the pools of the
instance.  The base step of a signal is at least 80 thousandths, so that
thirteen regular runs cross the whole scale, and the score and label follow with
the next; the counter stops there.  The instance has arrived after five, and the
counter is followed to fourteen.  Metadata: two threads, so that one can hold the lock while the other
waits and the queue is full; a subnet that the page does not list and whose older
identity is markup, refused by the sanitizer; and one whose name the page cuts off
and whose older identity bears no name.

*Symmetry* is used for the refreshers of external_snapshots and the runners of
score_runs, which check invariants and action properties only.

*Deadlock* is checked where the system never stops by itself (Scheduler,
SignalDrift, ScoreRuns, Settling, Metadata); elsewhere the bounds on
runs, commits or time end behaviours.

*Fairness.*  ChainCalls: the event loop runs coroutines that are ready and
timers that are due (`Start`, `Timeout`, `NextRun`); nothing promises that a
chain call returns, so `Answer`, `TakeCall` and `ZombieEnds` are not fair, and
`EveryCallReturns` and `RunsGoOn` hold with a chain that never answers.
Scheduler: `while True` loops and a job ends, which is what ChainCalls shows;
whether it succeeds is not fair.  SignalDrift: runs happen
(Scheduler) and shocks are finitely many, so that "settles" means after the last
one; Settling needs no fairness, for what they promise of the long
run is counted in runs.  Metadata: the loop goes on whatever the threads do, which may hang for
good (`RunsEnd` holds all the same); days pass; of the scheduler's attempts some
have scores (strong fairness of `SaveScores`), and a page that is asked again and
again answers now and then (strong fairness of `Scrape`), which only
`PageNamesReturn` needs.

*The table of Scoring.*  `Analysis` is a constant whose value `AnalysisAssumption`
fixes: what `Analyse` makes of each observation.  TLC works it out once, and not
at every step.

## 4. Findings

With a run:

1. **A percentage of at most 1 is read back as a fraction** (`JumpsLimited`).
   `_pct_to_unit` (`src/storage/history.py`) divides by 100 only above 1.  A
   signal published as 0.5 starts the next run's drift from 0.5 of 1.0: it
   jumps by almost 40 points where the limiter allows 30.
2. **Concentration is scored the wrong way round**
   (`ConcentrationNeverReducesFragility`).  `ABSOLUTE_SCORE_MAP`
   (`src/features/normalization.py`) gives a larger concentration the smaller
   number, the branch that would turn it round is never reached, and the
   components read the number as a risk.  A subnet whose stake becomes more
   concentrated can get a lower fragility.
3. **The semaphore stays with the first loop** (`NoCallLost`), against the
   comment that it is "always created inside the running loop".  From the
   scheduler's second run on, a call that has to wait raises.

Read from the code while modelling, and not given a run:

- The latest rows hold, for a subnet that left the chain or was scored alone, the
  rank of another run, so that two subnets can share a position.
- An exception in a fetch erases the evidence of a subnet, where a fetch that
  returns nothing keeps it.
- The UPDATE of an upsert names only the columns that changed since its own read: two
  refreshers that overlap there leave a row that can name one repository and hold
  evidence of the other, or be called active with evidence nobody fetched just now.
- When the scan of `SubnetIdentitiesV2` breaks off, the entries of `SubnetIdentities`
  replace the names it has delivered, those without a name too, and the flag says
  that all is fetched.
- A run that stamps its rows and commits after a later one changes what the API
  should show without changing the cache's fingerprint; the pages wait for their time.
- A dry run writes external snapshots although its docstring promises no write.
- A retry that fails cancels the retry it has just scheduled.
- The comment that zombies "never block new tasks" holds up to 54 of them;
  `WorkerForEveryHolder` says how far.
- `dereg_risk_proxy` stays below 0.51, so that the rule at `hard_rules.py:277` and
  the label test at `labels/engine.py:71`, which ask for more than 0.60, never fire.
- `update_freshness` is not normalised (`model_v2.py:998`): the components that
  weigh it get 0, although docs/INVESTMENT_FRAMEWORK_MIGRATION.md:173 counts it.
- A rule lets go of a subnet that gets worse.  The watch on crowded subnets
  (`hard_rules.py:367-377`) asks for a market relevance of 0.50: the `Crowded` subnet
  of the instance drains from 10,000 to 8,000 TAO, its relevance falls from 0.518 to
  0.491, and the cap of its confidence (0.54) and the floor of its fragility (0.66)
  are gone.  Without the exception for it (`Unrelieved`) TLC finds `DrainNeverEases`
  violated in an initial state.
- A signal that should be 0 may never settle: on its way down it passes through rows
  of at most 1 %, which are read back a hundred times as large, and for some
  reliabilities the steps meet them for ever.  `Steady` excludes such targets.
- An empty pool is treated more kindly than a nearly empty one: no slippage is
  computed and no yield known (`hard_rules.py:83`).  `DrainNeverEases` therefore
  stops at 1.
- Caps come before stabilisation (`scoring/engine.py:460`): a subnet whose pool
  drains from 200,000 to 400 TAO between two runs can remain "Quality Leader" for one.
- A gap run lifts caps and labels, and the confidence it leaves (at least 0.35)
  always reads back as alive (0.25): a subnet on which the chain stays silent is
  bridged for ever (`GapSticks`).
- `get_subnet_identity` says it "handles subnets registered after batch fetch"
  (`bittensor_client.py:498`), but `_fetch_identity` only looks at the cache; the
  flag that ends fetching is also set when both storage keys fail.
- A seed name that a failed scrape left in the file counts twice in the vote (0.72
  and 0.42, with a bonus) and so outvotes the name on the chain (0.82).

## 5. Proofs

Each theorem holds for every value of the constants that the module's named
assumption admits.

| module | theorems | argument |
|---|---|---|
| RunnerProofs, of ChainCalls | `ChainCallsTypeOK`, `PermitsAreConserved`, `WorkersSufficeUntilZombies`, `WaitersAreServed`, `LossNeedsAnEarlierRun` | `IInv` joins the count of permits with `WaitersInLine` (the line is without repetition and everyone in it waits, or handing a permit on would lose one) and `WorkersBound`; the converse, that everyone who waits stands in the line (`EveryWaiterInLine`), is inductive on top of it, and then a free permit would contradict `PermitsConserved`; a loop bound to the semaphore is one of a run so far |
| RunnerProofs, of Scheduler | `SchedulerTypes`, `RetriesAreRare`, `RetriesAreKept`, `RetriesComeNext`, `SchedulerGoesOn` | "at most one" is not inductive; `SInv` says of the table and of the pass under way what keeps a second retry out: a pass holds each job once (`PassOK`), while a retry waits none has run (`RetryPending`), two that wait are never due together and the earlier comes before the next daily job (`RetryComesFirst`, `RetriesApart`, `DailyIsDue`), and the one that runs removes both.  The same invariant gives that the retry of a failed day stays in the table within its delay, that one daily job at most comes before it, and that the loop always has a step.  A retry delay of a day at most is assumed |
| RateLimiterProofs | `RateLimiterTypeOK`, `NeverMoreThanLimit`, `LimiterIsASlidingWindow` | `IInv`: the list is a suffix of the log and what is cut off has left the window; then the length of the list decides what the log decides |
| ExternalSnapshotsProofs | `ExternalSnapshotsTypeOK`, `RowsNameTheirEvidence`, `ActiveRowsAreFetched`, `AllAskedAreRefreshed`, `EvidenceOnlyGetsNewer`, `EvidenceIsNotLost` | `IInv` extends the properties from the rows to what each refresher remembers of them: the rows it read, its answers, the snapshot it is about to store and, with it, the row that snapshot is compared with: a row that is still as it was read is replaced as a whole, any other is torn; for `AllAskedAreRefreshed`, every subnet asked for is still to do, at hand, or written by this refresh; `HInv`, for the two about history: no evidence anywhere, in rows or locals, is of a version its repository has not had, so that what is fetched is never older than what it replaces |
| ApiCacheProofs | `CacheStaysBounded`, `ApiCacheTypeOK`, `PagesUnderTheirKeys`, `OutagesAreServed`, `RowsStayFresh`, `PartsStayFresh` | every change of the cache is a `CacheSet`, and what pruning keeps is at most MaxEntries; `PInv` follows a request from its key to its page: what it has read has the fingerprints of the key it has made, and what it has yet to read does not touch that again; commits only extend the log (`Extended`), so a page keeps the fingerprint it was stored under; for rows, the log's fingerprints never fall (`Log`); `FInv` measures every entry's age from its expiry: what it holds is no older than what was committed by its expiry less its lifetime (for a page, less HotTTL too), so that it is young enough for as long as it is found, and commits are never dated back |
| SignalDriftProofs | `SignalDriftTypeOK`, `JumpsAreBounded`, `SignalsApproach` | bounds of the adaptive step, and the clamp as a metric fact: distance to the target plus distance moved is the distance there was |
| ScoreRunsProofs | `ScoreRunsTypeOK`, `RanksAlwaysAgree`, `ScoresComeFirst` | the rows a run is about to commit are already one whole ranking, its stamp is nobody else's, and what it has yet to upsert is among the committed rows |
| MetadataProofs | `MetadataTypeOK`, `ChainReadOnce`, `CachedNamesStay`, `ChainNamesOutrankSeeds`, `RunsMoveOn`, `LoopNeverWaits` | at most one thread is past the lock, and while one is, the flag is down; whoever looks a name up past the batch sees the flag up, and the entry it is about to overwrite is absent, unless a batch raised or was given up; a subnet the scan of the first key has yet to come to is named nowhere (`NotYetNamed`), so that only the second key can take a name away; `InPlace` says where each coroutine may be in each phase and which thread still works for it, so that the loop is never left without a step and never set back; for the vote, every way two candidates can fall into clusters is gone through, with the weights the code gives them |
| ScoringProofs, of the rules | `WorseNeverEases`, `ForcedIsAdverse`, `WorseSubnetNoLooser`, `DrainsNeverEase` | readings are ordered (`Worse`), each rule is monotone in that order or is made up for by a stricter one that fires with it, but for three that also look at a subnet's standing (`Unrelieved` says that these do not let go); then every feature a run computes of a subnet by itself is followed from the pool upwards (`DrainedMarket`, `DrainedPrice`, `DrainedOverreaction`, `DrainedEvidence`), through all divisions that round, to show that a smaller pool makes its reading `Worse` |
| ScoringProofs, of the runs | `ScoringTypes`, `ScoringDrifts`, `GapsStick`, `ForcedIsPublished` | from the raw features upwards every value is shown to be a fraction, or missing, for every observation and any peers (normalisation, components, blocks, gates, signals, stress, bounds); then each action of Scoring is the action of the same name in SignalDrift, for each of the four signals; `GapShowsLife` (the row of a gap run is alive) makes `GapSticks` inductive; `ForcedIsPublished` follows a forced label through `label_engine` and the cap of the total score to the row |
| ScoringProofs, of history | `SignalJumpsBounded`, `PublishedSignalsApproach`, `SettledInTime` | what is proved of one signal in SignalDrift, carried over to the four that are published; `Fading`: after `calm` regular runs a signal has arrived or is at most U - 80 * `calm` from its target, so that after thirteen all have, and the next run computes score and label from them |

Every assumption of a module is evaluated by the run of that module.
Each of these states a property that a run checks, or something that it does
not: `ScoringTypes`, `ApiCacheTypeOK`, the rules without a run (`WorseNeverEases`,
`ForcedIsAdverse`, `WorseSubnetNoLooser`, `ForcedIsPublished`), the two properties of
SignalDrift on published signals, and what stands behind the liveness below.  Their
statements are defined beside them.  `ScoringDrifts` quantifies over the table
`Analysis` through `AnalysisAssumption`, which fixes it to what `Analyse` computes, so
the theorem is about the formulas and not about a table.  Of Ln1p the proofs use that
it rises.

`DrainsNeverEase` has the exception of its property, `Unrelieved`: the relevance of
the drained subnet has not risen, and CrowdedWatch, LowEvidence and WeakInvestability
do not let go of it.  These depend on ranks among the peers, and on an underreaction
that falls with the fair value, so that a smaller pool moves them either way.  For
CrowdedWatch the instance of the scoring run shows that the exception is needed (see
4); for the rest the proof needs it, and no instance that was tried does.  All other
pairs of the instance meet `Unrelieved`.

Only model-checked are:

- liveness (`EveryCallReturns`, `RunsGoOn`, `FailedDayIsRetried`, `DailyRunsGoOn`,
  `Settles`, `RunsEnd`, `PageNamesReturn`) and anything with ENABLED, which the prover
  cannot do.  What these rest on besides fairness is proved where a state or a step
  can say it:
  - calls: who waits stands in the line, and every permit is held by a call with a
    timer (`WaitersAreServed`);
  - the scheduler: a failed day's retry stays in the table, is overtaken once at
    most, and the loop always has a step (`RetriesAreKept`, `RetriesComeNext`,
    `SchedulerGoesOn`);
  - the runs of Metadata: each step of the loop takes a run on, none takes it back,
    and there always is one (`RunsMoveOn`, `LoopNeverWaits`);
  - signals: each run moves them towards their targets by a least step
    (`SignalsApproach`, `PublishedSignalsApproach`), and in Scoring they have arrived
    after fourteen (`SettledInTime`);
- the three runs that expect a violation, whose counterexamples are the result.

No module declares a RECURSIVE operator, so every module can be proved about.

## 6. Not modelled

- Explanations, backtests, page bodies and view models: wording and arithmetic
  over stored rows, without state.
- Of the feature model: the tokenomics features (`model_v2.py` 675-723), which feed
  metrics that nothing else reads; smoothing over the history, whose results are
  inputs of an observation; the bounding of raw inputs (`conditioning.py`);
  contributions, which only explain.
- The TaoStats client's rate-limited API has no caller in the repository, and the
  CoinGecko client is one request with a short cache.
- Parsing of TaoStats pages; website and GitHub address of an identity; the regular
  expressions that tell a vague name.
- The overrides and the JSON file of the repository map, which is written whole after
  an await: two processes can lose an entry, which the next refresh finds again.
- The legacy signals of the old score version, the schema with its migrations
  (idempotent statements before a save), and the rendering of the frontend.

PROJECT.json gives the reason for each component, and for each hazard that no
property covers.

## 7. What could come next

1. **GithubMap**: overrides, the JSON file read and written around an await by
   two processes, and `refresh_all_mappings`; refined by the one entry per
   subnet that ExternalSnapshots uses.
2. **Requests**: the GitHub client's retries and its waits for the rate limit.
3. The frontend's two-stage loading.
4. Proofs: that no drain takes a subnet out of LowEvidence or WeakInvestability, or a
   subnet for which it does; the ranks as functions of the pool would come first.

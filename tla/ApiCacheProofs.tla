--------------------------- MODULE ApiCacheProofs ---------------------------
(* The response cache, for every limit and lifetime and whatever the         *)
(* requests, the commits and the failures of the database: its size, which   *)
(* page is under which key, what is answered in an outage, and how old an    *)
(* answer may be.                                                            *)
EXTENDS ApiCache, FiniteSetTheorems, TLAPS

Bounded(c) ==
  /\ IsFiniteSet(DOMAIN c)
  /\ Cardinality(DOMAIN c) <= MaxEntries + 1

IInv == Bounded(cache)

(* What is kept of a cache leaves room for one more entry within the bound:  *)
(* _prune_cache removes as many entries as are over the limit.               *)
LEMMA KeptFits ==
  ASSUME NEW c, IsFiniteSet(DOMAIN c), NEW drop \in Evictions(c)
  PROVE  /\ IsFiniteSet(Unexpired(c) \ drop)
         /\ Cardinality(Unexpired(c) \ drop) <= MaxEntries
<1> DEFINE live == Unexpired(c)
<1>1. live \subseteq DOMAIN c
  BY DEF Unexpired
<1>2. IsFiniteSet(live)
  BY <1>1, FS_Subset
<1>3. drop \subseteq live /\ Cardinality(drop) = Overflow(c)
  BY DEF Evictions
<1>4. IsFiniteSet(live \ drop) /\ IsFiniteSet(drop)
  BY <1>2, <1>3, FS_Subset, live \ drop \subseteq live
<1>5. Cardinality(live) \in Nat /\ Cardinality(live \ drop) \in Nat /\ Cardinality(drop) \in Nat
  BY <1>2, <1>4, FS_CardinalityType
<1>6. Cardinality(live \ drop) = Cardinality(live) - Cardinality(live \cap drop)
  BY <1>2, FS_Difference
<1>7. live \cap drop = drop
  BY <1>3
<1>8. Overflow(c) = IF Cardinality(live) > MaxEntries
                    THEN Cardinality(live) - MaxEntries ELSE 0
  BY DEF Overflow
<1>9. MaxEntries \in Nat
  BY ApiCacheAssumption
<1>10. Cardinality(live \ drop) <= MaxEntries
  <2> HIDE DEF live
  <2>1. Cardinality(live \cap drop) = Cardinality(drop)
    BY <1>7
  <2> QED
    BY ONLY <1>3, <1>5, <1>6, <1>8, <1>9, <2>1
<1> QED
  BY <1>4, <1>10

LEMMA CacheSetBounded ==
  ASSUME NEW c, Bounded(c), NEW key, NEW body, NEW ttl,
         NEW d \in CacheSet(c, key, body, ttl)
  PROVE  Bounded(d)
<1>1. PICK drop \in Evictions(c) : d = Put(c, Unexpired(c) \ drop, key, body, ttl)
  BY DEF CacheSet
<1> DEFINE keep == Unexpired(c) \ drop
<1>2. IsFiniteSet(keep) /\ Cardinality(keep) <= MaxEntries
  BY KeptFits DEF Bounded
<1>3. DOMAIN d = keep \cup {key}
  BY <1>1 DEF Put
<1> HIDE DEF keep
<1>4. /\ IsFiniteSet(keep \cup {key})
      /\ Cardinality(keep \cup {key}) =
           IF key \in keep THEN Cardinality(keep) ELSE Cardinality(keep) + 1
  BY <1>2, FS_AddElement
<1>5. Cardinality(keep) \in Nat /\ MaxEntries \in Nat
  BY <1>2, FS_CardinalityType, ApiCacheAssumption
<1>6. Cardinality(keep \cup {key}) <= MaxEntries + 1
  BY <1>2, <1>4, <1>5
<1> QED
  BY <1>3, <1>4, <1>6 DEF Bounded

LEMMA LoadBounded ==
  ASSUME Bounded(cache), NEW part, NEW version, Load(part, version)
  PROVE  Bounded(cache')
<1>1. CASE UNCHANGED cache
  BY <1>1 DEF Bounded
<1>2. CASE cache' \in CacheSet(cache, PartKey(part), version, HotTTL)
  BY <1>2, CacheSetBounded
<1> QED
  BY <1>1, <1>2 DEF Load

LEMMA InitIInv == Init => IInv
<1> SUFFICES ASSUME Init PROVE Bounded(cache)
  BY DEF IInv
<1>1. DOMAIN cache = {}
  BY DEF Init
<1>2. MaxEntries \in Nat
  BY ApiCacheAssumption
<1>3. IsFiniteSet({}) /\ Cardinality({}) = 0
  BY FS_EmptySet
<1> QED
  BY <1>1, <1>2, <1>3 DEF Bounded

(* One step per action: every change of the cache goes through CacheSet.     *)
LEMMA NextIInv == IInv /\ [Next]_vars => IInv'
<1> SUFFICES ASSUME Bounded(cache), [Next]_vars PROVE Bounded(cache')
  BY DEF IInv
<1>1. CASE UNCHANGED cache
  BY <1>1 DEF Bounded
<1>2. CASE Tick
  BY <1>1, <1>2 DEF Tick
<1>3. ASSUME NEW t \in Tables, CommitTo(t) PROVE Bounded(cache')
  BY <1>1, <1>3 DEF CommitTo
<1>4. ASSUME NEW ep \in asked, ReadRows(ep) PROVE Bounded(cache')
  BY <1>4, LoadBounded DEF ReadRows
<1>5. ASSUME NEW ep \in asked, FailRows(ep) PROVE Bounded(cache')
  BY <1>1, <1>5 DEF FailRows
<1>6. CASE MakeKey
  BY <1>1, <1>6, LoadBounded DEF MakeKey
<1>7. CASE ReadPart
  BY <1>7, LoadBounded DEF ReadPart
<1>8. CASE Finish
  <2> DEFINE key == PageKey(req.ep, Fingerprint("scores", req.rows), req.meta)
  <2>1. PICK c \in CacheSet(cache, key, req.body, Handlers[req.ep].ttl) :
          IF Handlers[req.ep].stale
          THEN cache' \in CacheSet(c, StaleKey(req.ep), req.body, StaleTTL)
          ELSE cache' = c
    BY <1>8 DEF Finish
  <2>2. Bounded(c)
    BY CacheSetBounded
  <2> QED
    BY <2>1, <2>2, CacheSetBounded
<1>9. CASE FailKey \/ FailPart
  BY <1>1, <1>9 DEF FailKey, FailPart
<1>10. CASE UNCHANGED vars
  BY <1>1, <1>10 DEF vars
<1> QED
  BY <1>2, <1>3, <1>4, <1>5, <1>6, <1>7, <1>8, <1>9, <1>10 DEF Next, Step

(* _cache never holds more than one entry over _CACHE_MAX_ENTRIES, however   *)
(* many endpoints, parameters, runs and fallback copies there are.           *)
THEOREM CacheStaysBounded == Spec => []CacheBound
<1>1. IInv => CacheBound
  BY DEF IInv, Bounded, CacheBound
<1> QED
  BY <1>1, InitIInv, NextIInv, PTL DEF Spec

-----------------------------------------------------------------------------
Parts ==
  {"rows", "meta", "ranks", "points", "full", "history", "signals", "compact", "since",
   "live_meta", "live_scores"}

Bodies == UNION {[parts -> Versions] : parts \in SUBSET Parts}

(* The fingerprint of commit v in a log: Fingerprint, of any log.            *)
PrintOf(log, t, v) == IF v = 0 THEN 0 ELSE log[t][v].print

Entries == [at : Int, print : Nat]
Commits == [at : 0..MaxTime, print : 1..MaxCommits]

(* A log of commits as it grows: no more prints than commits, and those of    *)
(* the scores never fall.                                                    *)
Log(log) ==
  /\ log \in [Tables -> Seq(Commits)]
  /\ \A t \in Tables :
       /\ Len(log[t]) <= MaxCommits
       /\ \A i \in DOMAIN log[t] : log[t][i].print <= i
  /\ \A i, j \in DOMAIN log["scores"] :
       i <= j => log["scores"][i].print <= log["scores"][j].print

(* What is read of a part shows a commit that was made.                      *)
Real(part, version, log) == version \in 0..Len(log[TableOf(part)])

RealBody(body, log) ==
  \A part \in Parts : part \in DOMAIN body => Real(part, body[part], log)

(* A page stored under a key shows rows, and metadata, with the fingerprints *)
(* that the key names.                                                       *)
Matches(ep, rows, meta, body, log) ==
  /\ body \in Bodies /\ RealBody(body, log)
  /\ "rows" \in DOMAIN body /\ PrintOf(log, "scores", body["rows"]) = rows
  /\ Handlers[ep].keyMeta = "meta" =>
       "meta" \in DOMAIN body /\ PrintOf(log, "metadata", body["meta"]) = meta

PagesMatch(c, log) ==
  /\ \A part \in Parts : PartKey(part) \in DOMAIN c => Real(part, c[PartKey(part)].body, log)
  /\ \A ep \in DOMAIN Handlers : \A rows, meta \in Versions :
       PageKey(ep, rows, meta) \in DOMAIN c =>
         Matches(ep, rows, meta, c[PageKey(ep, rows, meta)].body, log)

Expiring(c) == \A k \in DOMAIN c : c[k].expiry \in Nat

(* The request being handled: what it has read agrees with the key it has    *)
(* made, and what it has yet to read does not touch that again.              *)
Requests ==
  [ep : asked \cup {"none"}, todo : Seq(Parts \cup {"key"}), rows : Versions, meta : Versions,
   body : Bodies]

Keyed ==
  /\ req.todo \in Seq(Parts)
  /\ \A i \in DOMAIN req.todo : req.todo[i] # "rows"
  /\ Handlers[req.ep].keyMeta = "meta" =>
       /\ "meta" \in DOMAIN req.body
       /\ PrintOf(commits, "metadata", req.body["meta"]) = req.meta
       /\ \A i \in DOMAIN req.todo : req.todo[i] # "meta"

UnderWay ==
  req # NoReq =>
    /\ req.ep # "none"
    /\ reply = NoReply
    /\ "rows" \in DOMAIN req.body /\ req.body["rows"] = req.rows
    /\ RealBody(req.body, commits)
    /\ req.todo = <<"key">> \/ Keyed

PInv ==
  /\ now \in 0..MaxTime
  /\ Log(commits)
  /\ asked \in Mixes
  /\ req \in Requests
  /\ reply.kind \in {"none", "hit", "built", "stale", "empty", "not_found", "error"}
  /\ UnderWay
  /\ Expiring(cache)
  /\ PagesMatch(cache, commits)
  /\ OutageServed

(* The endpoints, once and for all: lifetimes, reads, and that a page with a *)
(* fallback copy that makes its key from metadata does so inside its try.    *)
Reading(h) ==
  /\ h.ttl \in Nat
  /\ h.reads \in Seq(Parts)
  /\ \A i \in DOMAIN h.reads :
       h.reads[i] # "rows" /\ (h.keyMeta = "meta" => h.reads[i] # "meta")
  /\ h.stale /\ h.keyMeta = "meta" => h.guarded

LEMMA HandlersType ==
  ASSUME NEW ep \in DOMAIN Handlers
  PROVE  ep # "none" /\ Reading(Handlers[ep])
<1>1. HotTTL \in Nat /\ PageTTL \in Nat
  BY ApiCacheAssumption
<1>2. /\ Reading(DiscoverBootstrap) /\ Reading(ListSubnets) /\ Reading(GetSubnet)
  BY <1>1 DEF Reading, Parts, Handler, DiscoverBootstrap, ListSubnets, GetSubnet
<1>3. /\ Reading(GetSubnetHistory) /\ Reading(GetSubnetSignalHistory) /\ Reading(LatestRun)
      /\ Reading(Leaderboard)
  BY <1>1 DEF Reading, Parts, Handler, GetSubnetHistory, GetSubnetSignalHistory, LatestRun, Leaderboard
<1>4. /\ Reading(CompareTimeseries) /\ Reading(MarketOverview) /\ Reading(ScoreDistribution)
      /\ Reading(BacktestLabels)
  BY <1>1 DEF Reading, Parts, Handler, CompareTimeseries, MarketOverview, ScoreDistribution, BacktestLabels
<1>5. ep \in {"bootstrap", "list", "detail", "history", "signals", "latest_run", "leaderboard",
            "compare", "market", "distribution", "backtests"}
  BY DEF Handlers
<1>6. /\ Handlers.bootstrap = DiscoverBootstrap /\ Handlers.list = ListSubnets
      /\ Handlers.detail = GetSubnet /\ Handlers.history = GetSubnetHistory
      /\ Handlers.signals = GetSubnetSignalHistory /\ Handlers.latest_run = LatestRun
      /\ Handlers.leaderboard = Leaderboard /\ Handlers.compare = CompareTimeseries
      /\ Handlers.market = MarketOverview /\ Handlers.distribution = ScoreDistribution
      /\ Handlers.backtests = BacktestLabels
  BY DEF Handlers
<1> QED
  BY <1>2, <1>3, <1>4, <1>5, <1>6

LEMMA KeysDiffer ==
  ASSUME NEW ep, NEW rows, NEW meta
  PROVE  /\ \A part : PageKey(ep, rows, meta) # PartKey(part)
         /\ \A e : PageKey(ep, rows, meta) # StaleKey(e)
         /\ \A e, r, m : PageKey(ep, rows, meta) = PageKey(e, r, m) => ep = e /\ rows = r /\ meta = m
<1>1. PageKey(ep, rows, meta)[1] = "page"
  BY DEF PageKey
<1>2. \A part : PartKey(part)[1] = "part"
  BY DEF PartKey
<1>3. \A e : StaleKey(e)[1] = "stale"
  BY DEF StaleKey
<1>4. \A e, r, m : PageKey(e, r, m)[2] = e /\ PageKey(e, r, m)[3] = r /\ PageKey(e, r, m)[4] = m
  BY DEF PageKey
<1> QED
  BY <1>1, <1>2, <1>3, <1>4

(* The log of commits: its prints are versions, those of the scores never    *)
(* fall, and a commit adds to it without changing what was there.            *)
LEMMA LogFacts ==
  ASSUME NEW log, Log(log)
  PROVE  /\ \A part : TableOf(part) \in Tables
         /\ TableOf("rows") = "scores" /\ TableOf("meta") = "metadata"
         /\ TableOf("live_meta") = "metadata"
         /\ \A t \in Tables :
              /\ log[t] \in Seq(Entries)
              /\ Len(log[t]) \in Nat /\ Len(log[t]) <= MaxCommits
              /\ \A v \in 0..Len(log[t]) : v \in Versions
<1>1. Seq(Commits) \subseteq Seq(Entries)
  <2>1. Commits \subseteq Entries
    BY ApiCacheAssumption DEF Entries, Commits
  <2> QED
    BY <2>1
<1>2. ASSUME NEW t \in Tables
      PROVE  /\ log[t] \in Seq(Entries)
             /\ Len(log[t]) \in Nat /\ Len(log[t]) <= MaxCommits
  BY <1>1 DEF Log
<1>3. ASSUME NEW t \in Tables, NEW v \in 0..Len(log[t]) PROVE v \in Versions
  BY <1>2, ApiCacheAssumption DEF Versions
<1> QED
  BY <1>2, <1>3 DEF TableOf, Tables

LEMMA PrintType ==
  ASSUME NEW log, Log(log), NEW t \in Tables, NEW v \in 0..Len(log[t])
  PROVE  PrintOf(log, t, v) \in 0..v /\ PrintOf(log, t, v) \in Versions
<1>1. log[t] \in Seq(Commits) /\ Len(log[t]) \in Nat
  BY DEF Log
<1>2. v # 0 => v \in DOMAIN log[t]
  BY <1>1
<1>3. v # 0 => log[t][v].print \in 1..MaxCommits /\ log[t][v].print <= v
  <2>1. \A entry \in Commits : entry.print \in 1..MaxCommits
    BY DEF Commits
  <2>2. v # 0 => log[t][v] \in Commits
    BY <1>1, <1>2
  <2> QED
    BY <1>2, <2>1, <2>2 DEF Log
<1> QED
  BY <1>3, <1>1, ApiCacheAssumption DEF PrintOf, Versions

LEMMA PrintGrows ==
  ASSUME NEW log, Log(log), NEW v \in 0..Len(log["scores"]), NEW w \in 0..Len(log["scores"]),
         v <= w
  PROVE  PrintOf(log, "scores", v) <= PrintOf(log, "scores", w)
<1>1. "scores" \in Tables
  BY DEF Tables
<1>2. log["scores"] \in Seq(Commits) /\ Len(log["scores"]) \in Nat
  BY <1>1 DEF Log
<1>3. PrintOf(log, "scores", w) \in 0..w
  BY <1>1, PrintType
<1>4. CASE v = 0
  BY <1>3, <1>4 DEF PrintOf
<1>5. CASE v # 0
  <2>1. v \in DOMAIN log["scores"] /\ w \in DOMAIN log["scores"] /\ w # 0
    BY <1>2, <1>5
  <2>2. log["scores"][v].print <= log["scores"][w].print
    BY <2>1 DEF Log
  <2> QED
    BY <2>1, <2>2, <1>5 DEF PrintOf
<1> QED
  BY <1>4, <1>5

Extended(log, after) ==
  \A u \in Tables :
    /\ Len(after[u]) \in Nat /\ Len(log[u]) <= Len(after[u])
    /\ \A v \in 0..Len(log[u]) : PrintOf(after, u, v) = PrintOf(log, u, v)

LEMMA LogExtended ==
  ASSUME NEW log, Log(log), NEW t \in Tables, Len(log[t]) < MaxCommits,
         NEW print \in 1..Len(log[t]) + 1,
         t = "scores" => print >= PrintOf(log, t, Len(log[t])),
         NEW time \in 0..MaxTime,
         NEW after, after = [log EXCEPT ![t] = Append(@, [at |-> time, print |-> print])]
  PROVE  Log(after) /\ Extended(log, after)
<1> DEFINE n == Len(log[t])
           entry == [at |-> time, print |-> print]
<1>1. log \in [Tables -> Seq(Commits)] /\ n \in Nat /\ MaxCommits \in Nat
  BY ApiCacheAssumption DEF Log
<1>2. PrintOf(log, t, n) \in 0..n
  BY <1>1, PrintType
<1>3. print \in 1..n + 1 /\ print \in 1..MaxCommits
  BY <1>1, <1>2
<1>4. entry \in Commits
  BY <1>3 DEF Commits
<1> HIDE DEF entry
<1>5. /\ after[t] = Append(log[t], entry)
      /\ \A u \in Tables : u # t => after[u] = log[u]
  BY <1>1 DEF entry
<1>6. /\ after[t] \in Seq(Commits) /\ Len(after[t]) = n + 1
      /\ \A i \in 1..n : after[t][i] = log[t][i]
      /\ after[t][n + 1] = entry
      /\ DOMAIN after[t] = 1..n + 1 /\ DOMAIN log[t] = 1..n
  BY <1>1, <1>4, <1>5
<1>7. after \in [Tables -> Seq(Commits)]
  BY <1>1, <1>4 DEF entry
<1>8. entry.print = print
  BY DEF entry
<1> HIDE DEF n
<1>9. ASSUME NEW u \in Tables
      PROVE  Len(after[u]) <= MaxCommits /\ \A i \in DOMAIN after[u] : after[u][i].print <= i
  <2>1. CASE u # t
    BY <1>5, <2>1 DEF Log
  <2>2. CASE u = t
    <3>1. ASSUME NEW i \in 1..n PROVE after[t][i].print <= i
      BY <1>6, <3>1 DEF Log
    <3>2. after[t][n + 1].print <= n + 1
      BY <1>1, <1>3, <1>6, <1>8
    <3>3. Len(after[t]) <= MaxCommits
      BY <1>1, <1>6 DEF n
    <3> QED
      BY <1>1, <1>6, <2>2, <3>1, <3>2, <3>3
  <2> QED
    BY <2>1, <2>2
<1>10. ASSUME NEW i \in DOMAIN after["scores"], NEW j \in DOMAIN after["scores"], i <= j
       PROVE  after["scores"][i].print <= after["scores"][j].print
  <2>1. CASE t # "scores"
    <3>1. after["scores"] = log["scores"]
      BY <1>5, <2>1 DEF Tables
    <3> QED
      BY <1>10, <3>1 DEF Log
  <2>2. CASE t = "scores"
    <3>1. i \in 1..n + 1 /\ j \in 1..n + 1
      BY <1>6, <2>2
    <3>2. CASE j \in 1..n
      <4>1. i \in 1..n
        BY <1>1, <1>10, <3>1, <3>2
      <4>2. log["scores"][i].print <= log["scores"][j].print
        BY <1>6, <1>10, <2>2, <3>2, <4>1 DEF Log
      <4> QED
        BY <1>6, <2>2, <3>2, <4>1, <4>2
    <3>3. CASE j = n + 1 /\ i \in 1..n
      <4>1. log[t][i].print = PrintOf(log, t, i)
        BY <3>3, <1>1 DEF PrintOf
      <4>2. PrintOf(log, t, i) <= PrintOf(log, t, n)
        BY <1>1, <2>2, <3>3, PrintGrows DEF n
      <4>3. PrintOf(log, t, n) <= print
        BY <2>2, <1>2 DEF n
      <4>4. PrintOf(log, t, i) \in Nat /\ PrintOf(log, t, n) \in Nat /\ print \in Nat
        <5>1. PrintOf(log, t, i) \in 0..i
          BY <3>3, <1>1, PrintType DEF n
        <5> QED
          BY <1>1, <1>2, <1>3, <3>3, <5>1
      <4> QED
        BY <1>6, <1>8, <2>2, <3>3, <4>1, <4>2, <4>3, <4>4
    <3>4. CASE i = n + 1 /\ j = n + 1
      BY <1>1, <1>3, <1>6, <1>8, <2>2, <3>4
    <3> QED
      BY <1>1, <1>10, <3>1, <3>2, <3>3, <3>4
  <2> QED
    BY <2>1, <2>2
<1>11. Log(after)
  BY <1>7, <1>9, <1>10 DEF Log
<1>12. ASSUME NEW u \in Tables
       PROVE  /\ Len(after[u]) \in Nat /\ Len(log[u]) <= Len(after[u])
              /\ \A v \in 0..Len(log[u]) : PrintOf(after, u, v) = PrintOf(log, u, v)
  <2>1. CASE u # t
    <3>1. after[u] = log[u] /\ Len(log[u]) \in Nat
      BY <1>5, <2>1, LogFacts
    <3> QED
      BY <3>1 DEF PrintOf
  <2>2. CASE u = t
    BY <1>1, <1>6, <2>2 DEF PrintOf, n
  <2> QED
    BY <2>1, <2>2
<1> QED
  BY <1>11, <1>12 DEF Extended

LEMMA RealBodyExtended ==
  ASSUME NEW log, Log(log), NEW after, Extended(log, after), NEW body, RealBody(body, log)
  PROVE  RealBody(body, after)
<1> SUFFICES ASSUME NEW part \in Parts, part \in DOMAIN body PROVE Real(part, body[part], after)
  BY DEF RealBody
<1>1. TableOf(part) \in Tables /\ Len(log[TableOf(part)]) \in Nat
  BY LogFacts
<1>2. body[part] \in 0..Len(log[TableOf(part)])
  BY DEF RealBody, Real
<1> QED
  BY <1>1, <1>2 DEF Real, Extended

(* A commit leaves every page under its key.                                 *)
LEMMA PagesMatchExtended ==
  ASSUME NEW log, Log(log), NEW after, Extended(log, after), NEW c, PagesMatch(c, log)
  PROVE  PagesMatch(c, after)
<1>1. ASSUME NEW part \in Parts, PartKey(part) \in DOMAIN c
      PROVE  Real(part, c[PartKey(part)].body, after)
  <2>1. TableOf(part) \in Tables /\ Len(log[TableOf(part)]) \in Nat
    BY LogFacts
  <2>2. c[PartKey(part)].body \in 0..Len(log[TableOf(part)])
    BY <1>1 DEF PagesMatch, Real
  <2> QED
    BY <2>1, <2>2 DEF Real, Extended
<1>2. ASSUME NEW ep \in DOMAIN Handlers, NEW rows \in Versions, NEW meta \in Versions,
             PageKey(ep, rows, meta) \in DOMAIN c
      PROVE  Matches(ep, rows, meta, c[PageKey(ep, rows, meta)].body, after)
  <2> DEFINE body == c[PageKey(ep, rows, meta)].body
  <2>1. Matches(ep, rows, meta, body, log)
    BY <1>2 DEF PagesMatch
  <2> HIDE DEF body
  <2>2. RealBody(body, after)
    BY <2>1, RealBodyExtended DEF Matches
  <2>3. "rows" \in Parts /\ "meta" \in Parts /\ "scores" \in Tables /\ "metadata" \in Tables
    BY DEF Parts, Tables
  <2>4. TableOf("rows") = "scores" /\ TableOf("meta") = "metadata"
    BY DEF TableOf
  <2>5. body["rows"] \in 0..Len(log["scores"])
    BY <2>1, <2>3, <2>4 DEF Matches, RealBody, Real
  <2>6. "meta" \in DOMAIN body => body["meta"] \in 0..Len(log["metadata"])
    BY <2>1, <2>3, <2>4 DEF Matches, RealBody, Real
  <2>7. PrintOf(after, "scores", body["rows"]) = PrintOf(log, "scores", body["rows"])
    BY <2>3, <2>5 DEF Extended
  <2>8. "meta" \in DOMAIN body =>
          PrintOf(after, "metadata", body["meta"]) = PrintOf(log, "metadata", body["meta"])
    BY <2>3, <2>6 DEF Extended
  <2>9. Matches(ep, rows, meta, body, after)
    BY <2>1, <2>2, <2>7, <2>8 DEF Matches
  <2> QED
    BY <2>9 DEF body
<1> QED
  BY <1>1, <1>2 DEF PagesMatch

(* _cache_set of an entry that matches its key, if it is a page, keeps every *)
(* page under its key.                                                       *)
LEMMA CacheSetKeeps ==
  ASSUME NEW log, NEW c, Expiring(c), PagesMatch(c, log), now \in Nat,
         NEW key, NEW body, NEW ttl \in Nat,
         \A part \in Parts : key = PartKey(part) => Real(part, body, log),
         \A ep \in DOMAIN Handlers : \A rows, meta \in Versions :
           key = PageKey(ep, rows, meta) => Matches(ep, rows, meta, body, log),
         NEW d \in CacheSet(c, key, body, ttl)
  PROVE  Expiring(d) /\ PagesMatch(d, log)
<1>1. PICK drop \in Evictions(c) : d = Put(c, Unexpired(c) \ drop, key, body, ttl)
  BY DEF CacheSet
<1>2. DOMAIN d \subseteq DOMAIN c \cup {key}
  BY <1>1 DEF Put, Unexpired
<1>3. \A k \in DOMAIN d : d[k] = IF k = key THEN [body |-> body, expiry |-> now + ttl] ELSE c[k]
  BY <1>1 DEF Put
<1>4. Expiring(d)
  BY <1>2, <1>3 DEF Expiring
<1>5. ASSUME NEW ep \in DOMAIN Handlers, NEW rows \in Versions, NEW meta \in Versions,
             PageKey(ep, rows, meta) \in DOMAIN d
      PROVE  Matches(ep, rows, meta, d[PageKey(ep, rows, meta)].body, log)
  <2>1. CASE PageKey(ep, rows, meta) = key
    <3>1. d[PageKey(ep, rows, meta)].body = body
      BY <1>3, <1>5, <2>1
    <3> QED
      BY <2>1, <3>1
  <2>2. CASE PageKey(ep, rows, meta) # key
    <3>1. /\ PageKey(ep, rows, meta) \in DOMAIN c
          /\ d[PageKey(ep, rows, meta)] = c[PageKey(ep, rows, meta)]
      BY <1>2, <1>3, <1>5, <2>2
    <3> QED
      BY <3>1 DEF PagesMatch
  <2> QED
    BY <2>1, <2>2
<1>6. ASSUME NEW part \in Parts, PartKey(part) \in DOMAIN d
      PROVE  Real(part, d[PartKey(part)].body, log)
  <2>1. CASE PartKey(part) = key
    <3>1. d[PartKey(part)].body = body
      BY <1>3, <1>6, <2>1
    <3> QED
      BY <2>1, <3>1
  <2>2. CASE PartKey(part) # key
    <3>1. PartKey(part) \in DOMAIN c /\ d[PartKey(part)] = c[PartKey(part)]
      BY <1>2, <1>3, <1>6, <2>2
    <3> QED
      BY <3>1 DEF PagesMatch
  <2> QED
    BY <2>1, <2>2
<1> QED
  BY <1>4, <1>5, <1>6 DEF PagesMatch

LEMMA PartKeysDiffer ==
  ASSUME NEW part, NEW other, PartKey(part) = PartKey(other)
  PROVE  part = other
BY PartKey(part)[2] = part, PartKey(other)[2] = other DEF PartKey

LEMMA StaleKeysDiffer ==
  ASSUME NEW ep, NEW part
  PROVE  StaleKey(ep) # PartKey(part)
BY StaleKey(ep)[1] = "stale", PartKey(part)[1] = "part" DEF StaleKey, PartKey

(* A loader returns a commit that was made, and leaves every page under its  *)
(* key.                                                                      *)
LEMMA LoadKeeps ==
  ASSUME Expiring(cache), PagesMatch(cache, commits), Log(commits), now \in Nat,
         NEW part \in Parts, NEW version, Load(part, version)
  PROVE  /\ Expiring(cache') /\ PagesMatch(cache', commits)
         /\ Real(part, version, commits)
<1>1. CASE Fresh(PartKey(part)) /\ version = cache[PartKey(part)].body /\ UNCHANGED cache
  BY <1>1 DEF PagesMatch, Fresh
<1>2. CASE /\ version = Version(part)
           /\ UNCHANGED cache \/ cache' \in CacheSet(cache, PartKey(part), version, HotTTL)
  <2>1. \A ep, rows, meta : PartKey(part) # PageKey(ep, rows, meta)
    BY KeysDiffer
  <2>2. HotTTL \in Nat
    BY ApiCacheAssumption
  <2>3. Real(part, version, commits)
    <3>1. TableOf(part) \in Tables /\ Len(commits[TableOf(part)]) \in Nat
      BY LogFacts
    <3> QED
      BY <1>2, <3>1 DEF Real, Version
  <2>4. \A other \in Parts : PartKey(part) = PartKey(other) => Real(other, version, commits)
    BY <2>3, PartKeysDiffer
  <2>5. CASE cache' \in CacheSet(cache, PartKey(part), version, HotTTL)
    BY <2>1, <2>2, <2>3, <2>4, <2>5, CacheSetKeeps
  <2> QED
    BY <1>2, <2>3, <2>5
<1> QED
  BY <1>1, <1>2 DEF Load

LEMMA WithType ==
  ASSUME NEW body \in Bodies, NEW part \in Parts, NEW version \in Versions
  PROVE  /\ With(body, part, version) \in Bodies
         /\ DOMAIN With(body, part, version) = DOMAIN body \cup {part}
         /\ With(body, part, version)[part] = version
         /\ \A p \in DOMAIN body : p # part => With(body, part, version)[p] = body[p]
<1>1. PICK parts \in SUBSET Parts : body \in [parts -> Versions]
  BY DEF Bodies
<1>2. With(body, part, version) \in [parts \cup {part} -> Versions]
  BY <1>1 DEF With
<1>3. parts \cup {part} \in SUBSET Parts
  OBVIOUS
<1> QED
  BY <1>1, <1>2, <1>3 DEF With, Bodies

LEMMA NoReqType == NoReq \in Requests
<1>1. <<>> \in [{} -> Versions] /\ {} \in SUBSET Parts
  OBVIOUS
<1>2. <<>> \in Bodies
  BY <1>1 DEF Bodies
<1>3. 0 \in Versions
  BY ApiCacheAssumption DEF Versions
<1> QED
  BY <1>2, <1>3 DEF NoReq, Requests

LEMMA NoReqIdle == NoReq.todo = <<>> /\ NoReq.todo # <<"key">> /\ NoReq.ep = "none"
<1>1. Len(<<>>) = 0 /\ Len(<<"key">>) = 1
  OBVIOUS
<1> QED
  BY <1>1 DEF NoReq

LEMMA InitPInv == Init => PInv
<1> SUFFICES ASSUME Init PROVE PInv
  OBVIOUS
<1>1. 0 \in 0..MaxTime
  BY ApiCacheAssumption
<1>2. /\ NoReq \in Requests /\ NoReply.kind = "none"
  BY NoReqType DEF NoReply
<1>3. Log(commits)
  BY ApiCacheAssumption DEF Init, Log, Tables
<1>4. DOMAIN cache = {}
  BY DEF Init
<1>5. UnderWay /\ Expiring(cache) /\ PagesMatch(cache, commits)
  BY <1>4 DEF Init, UnderWay, Expiring, PagesMatch
<1>6. OutageServed
  BY <1>2 DEF Init, OutageServed
<1> QED
  BY <1>1, <1>2, <1>3, <1>5, <1>6 DEF Init, PInv

(* The answer of a read that fails is a fallback copy, or the endpoint has   *)
(* none to give, or does not look for it.                                    *)
LEMMA FallBackKeeps ==
  ASSUME PInv, UNCHANGED <<now, commits, cache, asked>>,
         NEW ep \in asked, NEW failed, NEW protected,
         Handlers[ep].stale => protected \/ (failed = "rows" /\ ~Handlers[ep].guarded),
         FallBack(ep, failed, protected)
  PROVE  PInv'
<1>1. req' = NoReq /\ NoReq \in Requests'
  BY NoReqType DEF FallBack, Respond, Requests
<1>2. reply'.kind \in {"stale", "empty", "error"} /\ reply'.ep = ep /\ reply'.failed = failed
  BY DEF FallBack, Respond
<1>3. reply'.kind = "error" => ~protected \/ StaleKey(ep) \notin DOMAIN cache
  BY DEF FallBack, Respond
<1>4. OutageServed'
  <2> SUFFICES ASSUME reply'.kind = "error", Handlers[ep].stale
               PROVE  \/ ~Fresh(StaleKey(ep))'
                      \/ failed = "rows" /\ ~Handlers[ep].guarded
    BY <1>2 DEF OutageServed
  <2> QED
    BY <1>3 DEF Fresh
<1>5. UnderWay'
  BY <1>1 DEF UnderWay
<1>6. now \in 0..MaxTime /\ Log(commits) /\ asked \in Mixes
  BY DEF PInv
<1>7. Log(commits)' /\ Expiring(cache)' /\ PagesMatch(cache, commits)'
  BY DEF PInv
<1> QED
  BY <1>1, <1>2, <1>4, <1>5, <1>6, <1>7 DEF PInv

LEMMA RoomToCommit ==
  ASSUME PInv, Len(commits["scores"]) + Len(commits["metadata"]) < MaxCommits, NEW t \in Tables
  PROVE  Len(commits[t]) < MaxCommits
<1>1. Len(commits["scores"]) \in Nat /\ Len(commits["metadata"]) \in Nat
  BY LogFacts DEF PInv, Tables
<1>2. \A a, b \in Nat : a + b < MaxCommits => a < MaxCommits /\ b < MaxCommits
  BY ApiCacheAssumption
<1>3. Len(commits["scores"]) < MaxCommits /\ Len(commits["metadata"]) < MaxCommits
  BY <1>1, <1>2
<1> QED
  BY <1>3 DEF Tables

(* The live fingerprint of the metadata, or that of an empty table.          *)
LEMMA LivePrintType ==
  ASSUME PInv, NEW version \in {Version("live_meta"), 0}
  PROVE  Fingerprint("metadata", version) \in Versions
<1>1. Log(commits) /\ "metadata" \in Tables
  BY DEF PInv, Tables
<1>2. version \in 0..Len(commits["metadata"])
  <2>1. Len(commits["metadata"]) \in Nat
    BY <1>1, LogFacts
  <2> QED
    BY <2>1 DEF Version, TableOf
<1>3. PrintOf(commits, "metadata", version) \in Versions
  BY <1>1, <1>2, PrintType
<1> QED
  BY <1>3 DEF PrintOf, Fingerprint

(* Once the key is made, the page under it is served, or the rest is read.   *)
LEMMA UseKeyKeeps ==
  ASSUME PInv, UNCHANGED <<now, commits, asked>>, req.todo = <<"key">>, req # NoReq,
         Expiring(cache'), PagesMatch(cache', commits),
         NEW meta \in Versions, NEW body \in Bodies, RealBody(body, commits),
         "rows" \in DOMAIN body, body["rows"] = req.rows,
         Handlers[req.ep].keyMeta = "meta" =>
           "meta" \in DOMAIN body /\ PrintOf(commits, "metadata", body["meta"]) = meta,
         UseKey(meta, body)
  PROVE  PInv'
<1>1. req.ep \in asked /\ asked \subseteq DOMAIN Handlers /\ req.ep # "none" /\ reply = NoReply
  BY ApiCacheAssumption DEF PInv, Requests, UnderWay
<1>2. /\ now \in 0..MaxTime /\ asked \in Mixes
      /\ Log(commits)' /\ Expiring(cache)' /\ PagesMatch(cache, commits)'
  BY DEF PInv
<1> DEFINE key == PageKey(req.ep, Fingerprint("scores", req.rows), meta)
<1> HIDE DEF key
<1>3. CASE Respond(req.ep, "hit", cache'[key].body, "none")
  <2>1. req' = NoReq /\ reply'.kind = "hit"
    BY <1>3 DEF Respond
  <2>2. NoReq \in Requests
    BY NoReqType
  <2>3. UnderWay' /\ OutageServed'
    BY <2>1 DEF UnderWay, OutageServed
  <2> QED
    BY <1>2, <2>1, <2>2, <2>3 DEF PInv, Requests
<1>4. CASE /\ req' = [req EXCEPT !.todo = Handlers[req.ep].reads, !.meta = meta, !.body = body]
           /\ UNCHANGED reply
  <2>1. Reading(Handlers[req.ep])
    BY <1>1, HandlersType
  <2>2. Handlers[req.ep].reads \in Seq(Parts \cup {"key"})
    <3>1. Seq(Parts) \subseteq Seq(Parts \cup {"key"})
      OBVIOUS
    <3> QED
      BY <2>1, <3>1 DEF Reading
  <2>3. /\ req' \in Requests /\ req'.ep = req.ep /\ req'.todo = Handlers[req.ep].reads
        /\ req'.rows = req.rows /\ req'.meta = meta /\ req'.body = body
    BY <1>4, <2>2 DEF PInv, Requests
  <2>4. UnderWay'
    BY <1>1, <1>4, <2>1, <2>3 DEF UnderWay, Keyed, Reading, RealBody, Real, PrintOf
  <2>5. OutageServed' /\ reply'.kind = "none"
    BY <1>1, <1>4 DEF OutageServed, NoReply
  <2>6. req' \in Requests'
    BY <2>3 DEF Requests
  <2> QED
    BY <1>2, <2>4, <2>5, <2>6 DEF PInv
<1> QED
  BY <1>3, <1>4 DEF UseKey, key

LEMMA NextPInv == PInv /\ [Next]_vars => PInv'
<1> SUFFICES ASSUME PInv, [Next]_vars PROVE PInv'
  OBVIOUS
<1> USE DEF PInv
<1>1. /\ now \in Nat /\ asked \subseteq DOMAIN Handlers /\ UNCHANGED asked
      /\ HotTTL \in Nat /\ StaleTTL \in Nat
  BY ApiCacheAssumption DEF Next, vars
<1>2. Requests' = Requests
  BY <1>1 DEF Requests
<1>3. req # NoReq => req.ep \in asked /\ req.ep # "none" /\ reply = NoReply
  BY DEF Requests, UnderWay
<1>4. CASE Tick
  <2>1. now' \in 0..MaxTime
    BY <1>4, ApiCacheAssumption DEF Tick
  <2>2. OutageServed' /\ UnderWay' /\ reply'.kind = "none"
    BY <1>4 DEF Tick, OutageServed, UnderWay, NoReply
  <2>3. Log(commits)' /\ Expiring(cache)' /\ PagesMatch(cache, commits)'
    BY <1>4 DEF Tick
  <2> QED
    BY <1>1, <1>2, <1>4, <2>1, <2>2, <2>3 DEF Tick
<1>5. ASSUME NEW t \in Tables, CommitTo(t) PROVE PInv'
  <2>1. Log(commits') /\ Extended(commits, commits')
    <3>1. PICK print \in 1..Len(commits[t]) + 1 :
            /\ t = "scores" => print >= Fingerprint(t, Len(commits[t]))
            /\ commits' = [commits EXCEPT ![t] = Append(@, [at |-> now, print |-> print])]
      BY <1>5 DEF CommitTo
    <3>2. Fingerprint(t, Len(commits[t])) = PrintOf(commits, t, Len(commits[t]))
      BY DEF Fingerprint, PrintOf
    <3>3. Len(commits[t]) < MaxCommits
      BY <1>5, RoomToCommit DEF CommitTo
    <3> HIDE DEF PInv
    <3>4. Log(commits) /\ now \in 0..MaxTime
      BY DEF PInv
    <3>5. /\ print \in 1..Len(commits[t]) + 1
          /\ t = "scores" => print >= PrintOf(commits, t, Len(commits[t]))
      BY <3>1, <3>2
    <3> QED
      BY <3>1, <3>3, <3>4, <3>5, LogExtended
  <2>2. UNCHANGED <<now, cache, req, asked>> /\ reply' = NoReply
    BY <1>1, <1>5 DEF CommitTo
  <2>3. PagesMatch(cache, commits')
    BY <2>1, PagesMatchExtended
  <2>4. OutageServed' /\ reply'.kind = "none"
    BY <2>2 DEF OutageServed, NoReply
  <2>5. ASSUME req # NoReq
        PROVE  RealBody(req.body, commits') /\ (req.todo = <<"key">> \/ Keyed')
    <3>1. RealBody(req.body, commits)
      BY <2>5 DEF UnderWay
    <3>2. RealBody(req.body, commits')
      BY <2>1, <3>1, RealBodyExtended
    <3>3. CASE Keyed
      <4>1. ASSUME Handlers[req.ep].keyMeta = "meta"
            PROVE  PrintOf(commits', "metadata", req.body["meta"]) = req.meta
        <5>1. "meta" \in DOMAIN req.body /\ PrintOf(commits, "metadata", req.body["meta"]) = req.meta
          BY <3>3, <4>1 DEF Keyed
        <5>2. req.body["meta"] \in 0..Len(commits["metadata"]) /\ "metadata" \in Tables
          BY <3>1, <5>1 DEF RealBody, Real, Parts, TableOf, Tables
        <5> QED
          BY <2>1, <5>1, <5>2 DEF Extended
      <4> QED
        BY <2>2, <3>2, <3>3, <4>1 DEF Keyed
    <3> QED
      BY <2>5, <3>2, <3>3 DEF UnderWay
  <2>6. UnderWay'
    BY <1>3, <2>2, <2>5 DEF UnderWay
  <2> QED
    BY <1>1, <1>2, <2>1, <2>2, <2>3, <2>4, <2>6
<1>6. ASSUME NEW ep \in asked, ReadRows(ep) PROVE PInv'
  <2>1. PICK version \in Versions :
          /\ Load("rows", version)
          /\ req' = [NoReq EXCEPT !.ep = ep, !.todo = <<"key">>, !.rows = version,
                                  !.body = [p \in {"rows"} |-> version]]
    BY <1>6 DEF ReadRows
  <2>2. Expiring(cache') /\ PagesMatch(cache', commits) /\ Real("rows", version, commits)
    BY <1>1, <2>1, LoadKeeps DEF Parts
  <2>3. [p \in {"rows"} |-> version] \in Bodies
    <3>1. {"rows"} \in SUBSET Parts /\ [p \in {"rows"} |-> version] \in [{"rows"} -> Versions]
      BY DEF Parts
    <3> QED
      BY <3>1 DEF Bodies
  <2>4. req' = [ep |-> ep, todo |-> <<"key">>, rows |-> version, meta |-> 0,
                body |-> [p \in {"rows"} |-> version]]
    BY <2>1 DEF NoReq
  <2>5. req' \in Requests
    <3>1. <<"key">> \in Seq(Parts \cup {"key"}) /\ 0 \in Versions
      BY ApiCacheAssumption DEF Versions
    <3> QED
      BY <2>3, <2>4, <3>1 DEF Requests
  <2>6. reply' = NoReply /\ reply'.kind = "none"
    BY <1>6 DEF ReadRows, NoReply
  <2>7. UnderWay' /\ OutageServed'
    <3>1. ep # "none"
      BY <1>1, HandlersType
    <3>2. UNCHANGED commits
      BY <1>6 DEF ReadRows
    <3>3. RealBody(req'.body, commits')
      BY <2>2, <2>4, <3>2 DEF RealBody
    <3> QED
      BY <2>4, <2>6, <3>1, <3>3 DEF UnderWay, OutageServed
  <2>8. Log(commits)' /\ Expiring(cache)' /\ PagesMatch(cache, commits)'
    BY <1>6, <2>2 DEF ReadRows
  <2> QED
    BY <1>1, <1>2, <1>6, <2>5, <2>6, <2>7, <2>8 DEF ReadRows
<1>7. ASSUME NEW ep \in asked, FailRows(ep) PROVE PInv'
  BY <1>1, <1>7, FallBackKeeps DEF FailRows
<1>8. CASE MakeKey
  <2>1. req.todo = <<"key">> /\ req # NoReq
    BY <1>8, NoReqIdle DEF MakeKey
  <2>2. /\ req.body \in Bodies /\ "rows" \in DOMAIN req.body /\ req.body["rows"] = req.rows
        /\ RealBody(req.body, commits)
    BY <2>1 DEF Requests, UnderWay
  <2>3. CASE Handlers[req.ep].keyMeta = "meta"
    <3>1. PICK version \in Versions :
            /\ Load("meta", version)
            /\ UseKey(Fingerprint("metadata", version), With(req.body, "meta", version))
      BY <1>8, <2>3 DEF MakeKey
    <3>2. "meta" \in Parts /\ "metadata" \in Tables /\ TableOf("meta") = "metadata"
      BY DEF Parts, Tables, TableOf
    <3>3. Expiring(cache') /\ PagesMatch(cache', commits) /\ Real("meta", version, commits)
      BY <1>1, <3>1, <3>2, LoadKeeps
    <3>4. PrintOf(commits, "metadata", version) \in Versions
      BY <3>2, <3>3, PrintType DEF Real
    <3>5. Fingerprint("metadata", version) = PrintOf(commits, "metadata", version)
      BY DEF Fingerprint, PrintOf
    <3> DEFINE body == With(req.body, "meta", version)
    <3>6. /\ body \in Bodies /\ RealBody(body, commits)
          /\ "rows" \in DOMAIN body /\ body["rows"] = req.rows
          /\ "meta" \in DOMAIN body /\ body["meta"] = version
      <4> HIDE DEF PInv
      <4>1. /\ body \in Bodies
            /\ DOMAIN body = DOMAIN req.body \cup {"meta"}
            /\ body["meta"] = version
            /\ \A q \in DOMAIN req.body : q # "meta" => body[q] = req.body[q]
        BY <2>2, <3>2, WithType
      <4> HIDE DEF body
      <4>2. "rows" # "meta"
        OBVIOUS
      <4>3. RealBody(body, commits)
        BY <2>2, <3>3, <4>1 DEF RealBody
      <4> QED
        BY <2>2, <4>1, <4>2, <4>3
    <3>7. UseKey(PrintOf(commits, "metadata", version), body)
      BY <3>1, <3>5
    <3> HIDE DEF body, PInv
    <3>8. UNCHANGED <<now, commits, asked>>
      BY <1>1, <1>8 DEF MakeKey
    <3> QED
      BY <2>1, <3>3, <3>4, <3>6, <3>7, <3>8, UseKeyKeeps
  <2>4. CASE Handlers[req.ep].keyMeta # "meta"
    <3>1. PICK version \in {Version("live_meta"), 0} :
            UNCHANGED cache /\ UseKey(Fingerprint("metadata", version), req.body)
      BY <1>8, <2>4 DEF MakeKey
    <3>2. Fingerprint("metadata", version) \in Versions
      BY <3>1, LivePrintType
    <3>3. Expiring(cache') /\ PagesMatch(cache', commits)
      BY <3>1
    <3> HIDE DEF PInv
    <3>4. UNCHANGED <<now, commits, asked>>
      BY <1>1, <1>8 DEF MakeKey
    <3> QED
      BY <2>1, <2>2, <2>4, <3>1, <3>2, <3>3, <3>4, UseKeyKeeps
  <2> QED
    BY <2>3, <2>4
<1>9. CASE ReadPart
  <2>1. req # NoReq /\ req.todo \notin {<<>>, <<"key">>}
    BY <1>9, NoReqIdle DEF ReadPart
  <2>2. /\ Keyed /\ req.body \in Bodies
        /\ "rows" \in DOMAIN req.body /\ req.body["rows"] = req.rows
        /\ RealBody(req.body, commits)
    BY <2>1 DEF UnderWay, Requests
  <2>3. /\ Head(req.todo) \in Parts /\ Head(req.todo) # "rows"
        /\ Handlers[req.ep].keyMeta = "meta" => Head(req.todo) # "meta"
        /\ Tail(req.todo) \in Seq(Parts)
        /\ \A i \in DOMAIN Tail(req.todo) :
             i + 1 \in DOMAIN req.todo /\ Tail(req.todo)[i] = req.todo[i + 1]
    BY <2>1, <2>2 DEF Keyed
  <2>4. PICK version \in Versions :
          /\ Load(Head(req.todo), version)
          /\ \/ Respond(req.ep, "not_found", <<>>, "none")
             \/ /\ req' = [req EXCEPT !.todo = Tail(@), !.body = With(@, Head(req.todo), version)]
                /\ UNCHANGED reply
    BY <1>9 DEF ReadPart
  <2>5. /\ Expiring(cache') /\ PagesMatch(cache', commits)
        /\ Real(Head(req.todo), version, commits)
    BY <1>1, <2>3, <2>4, LoadKeeps
  <2>9. /\ Log(commits)' /\ Expiring(cache)' /\ PagesMatch(cache, commits)'
        /\ UNCHANGED <<now, commits, asked>>
    BY <1>1, <1>9, <2>5 DEF ReadPart
  <2>6. CASE Respond(req.ep, "not_found", <<>>, "none")
    BY <1>2, <2>6, <2>9, NoReqType DEF Respond, UnderWay, OutageServed
  <2>7. CASE /\ req' = [req EXCEPT !.todo = Tail(@), !.body = With(@, Head(req.todo), version)]
             /\ UNCHANGED reply
    <3> DEFINE body == With(req.body, Head(req.todo), version)
    <3>1. /\ body \in Bodies /\ DOMAIN body = DOMAIN req.body \cup {Head(req.todo)}
          /\ \A q \in DOMAIN req.body : q # Head(req.todo) => body[q] = req.body[q]
      <4> HIDE DEF PInv
      <4> QED
        BY <2>2, <2>3, WithType
    <3>2. /\ "rows" \in DOMAIN body /\ body["rows"] = req.rows
          /\ Handlers[req.ep].keyMeta = "meta" =>
               "meta" \in DOMAIN body /\ PrintOf(commits, "metadata", body["meta"]) = req.meta
      <4> HIDE DEF PInv, body
      <4> QED
        BY <2>2, <2>3, <3>1 DEF Keyed
    <3>7. body[Head(req.todo)] = version
      <4> HIDE DEF PInv
      <4> QED
        BY <2>2, <2>3, WithType
    <3>8. RealBody(body, commits)
      <4> HIDE DEF PInv, body
      <4> QED
        BY <2>2, <2>5, <3>1, <3>7 DEF RealBody
    <3> HIDE DEF body
    <3>3. Tail(req.todo) \in Seq(Parts \cup {"key"})
      <4>1. Seq(Parts) \subseteq Seq(Parts \cup {"key"})
        OBVIOUS
      <4> QED
        BY <2>3, <4>1
    <3>4. /\ req' \in Requests /\ req'.ep = req.ep /\ req'.todo = Tail(req.todo)
          /\ req'.rows = req.rows /\ req'.meta = req.meta /\ req'.body = body
      BY <2>7, <3>1, <3>3 DEF Requests, body
    <3>5. Keyed'
      BY <2>2, <2>3, <2>9, <3>1, <3>2, <3>4 DEF Keyed
    <3>6. UnderWay' /\ OutageServed' /\ reply'.kind = "none"
      BY <1>3, <2>1, <2>7, <2>9, <3>2, <3>4, <3>5, <3>8 DEF UnderWay, OutageServed, NoReply
    <3> QED
      BY <1>2, <2>9, <3>4, <3>6
  <2> QED
    BY <2>4, <2>6, <2>7
<1>10. CASE Finish
  <2> DEFINE key == PageKey(req.ep, Fingerprint("scores", req.rows), req.meta)
  <2>1. /\ req # NoReq /\ req.ep \in DOMAIN Handlers /\ req.todo = <<>>
    BY <1>1, <1>3, <1>10, NoReqIdle DEF Finish
  <2>2. /\ Keyed /\ "rows" \in DOMAIN req.body /\ req.body["rows"] = req.rows
        /\ RealBody(req.body, commits) /\ req.body \in Bodies
    BY <2>1 DEF UnderWay, Requests
  <2>3. Matches(req.ep, Fingerprint("scores", req.rows), req.meta, req.body, commits)
    BY <2>2 DEF Matches, Keyed, Fingerprint, PrintOf
  <2>4. /\ \A ep \in DOMAIN Handlers : \A rows, meta \in Versions :
             key = PageKey(ep, rows, meta) => Matches(ep, rows, meta, req.body, commits)
        /\ \A part : key # PartKey(part)
    BY <2>3, KeysDiffer
  <2>5. Handlers[req.ep].ttl \in Nat
    BY <2>1, HandlersType DEF Reading
  <2> HIDE DEF key
  <2>6. PICK c \in CacheSet(cache, key, req.body, Handlers[req.ep].ttl) :
          IF Handlers[req.ep].stale
          THEN cache' \in CacheSet(c, StaleKey(req.ep), req.body, StaleTTL)
          ELSE cache' = c
    BY <1>10 DEF Finish, key
  <2>7. Expiring(c) /\ PagesMatch(c, commits)
    BY <1>1, <2>4, <2>5, CacheSetKeeps
  <2>8. /\ \A ep, rows, meta : StaleKey(req.ep) # PageKey(ep, rows, meta)
        /\ \A part : StaleKey(req.ep) # PartKey(part)
    BY KeysDiffer, StaleKeysDiffer
  <2>9. Expiring(cache') /\ PagesMatch(cache', commits)
    BY <1>1, <2>6, <2>7, <2>8, CacheSetKeeps
  <2>10. req' = NoReq /\ reply'.kind = "built"
    BY <1>10 DEF Finish, Respond
  <2>11. UnderWay' /\ OutageServed'
    BY <2>10 DEF UnderWay, OutageServed
  <2>12. Log(commits)' /\ Expiring(cache)' /\ PagesMatch(cache, commits)'
    BY <1>10, <2>9 DEF Finish
  <2> QED
    BY <1>1, <1>2, <1>10, <2>10, <2>11, <2>12, NoReqType DEF Finish
<1>11. CASE FailKey
  <2>1. req # NoReq /\ Handlers[req.ep].keyMeta = "meta"
    BY <1>11, NoReqIdle DEF FailKey
  <2>2. Handlers[req.ep].stale => Handlers[req.ep].guarded
    BY <1>1, <1>3, <2>1, HandlersType DEF Reading
  <2> QED
    BY <1>1, <1>3, <1>11, <2>1, <2>2, FallBackKeeps DEF FailKey
<1>12. CASE FailPart
  <2>1. req # NoReq
    BY <1>12, NoReqIdle DEF FailPart
  <2> QED
    BY <1>1, <1>3, <1>12, <2>1, FallBackKeeps DEF FailPart
<1>13. CASE UNCHANGED vars
  <2>1. UnderWay' /\ OutageServed'
    BY <1>13 DEF vars, UnderWay, Keyed, OutageServed, Fresh
  <2>2. Log(commits)' /\ Expiring(cache)' /\ PagesMatch(cache, commits)'
    BY <1>13 DEF vars
  <2> QED
    BY <1>2, <1>13, <2>1, <2>2 DEF vars
<1> QED
  BY <1>4, <1>5, <1>6, <1>7, <1>8, <1>9, <1>10, <1>11, <1>12, <1>13 DEF Next, Step

(* Clock, commits, entries, requests and answers of the response cache stay  *)
(* well typed, whatever endpoints are asked for.                             *)
THEOREM ApiCacheTypeOK == Spec => []TypeOK
<1>1. PInv => TypeOK
  BY DEF PInv, TypeOK, Requests, Expiring, Log, Commits
<1> QED
  BY <1>1, InitPInv, NextPInv, PTL DEF Spec

(* A page is only ever found under the fingerprint of the rows it shows, and *)
(* of the metadata it shows where the key is made from those, however late   *)
(* commits change rows under a fingerprint.                                  *)
THEOREM PagesUnderTheirKeys == Spec => []PageUnderItsKey
<1>1. PInv => PageUnderItsKey
  <2> SUFFICES ASSUME PInv PROVE PageUnderItsKey
    OBVIOUS
  <2>1. asked \subseteq DOMAIN Handlers
    BY ApiCacheAssumption DEF PInv
  <2> QED
    BY <2>1 DEF PInv, PageUnderItsKey, PagesMatch, Matches, PrintOf, Fingerprint
<1> QED
  BY <1>1, InitPInv, NextPInv, PTL DEF Spec

(* Whenever the database fails, an endpoint with an unexpired fallback copy  *)
(* serves it, except for a read outside its try block.                       *)
THEOREM OutagesAreServed == Spec => []OutageServed
<1>1. PInv => OutageServed
  BY DEF PInv
<1> QED
  BY <1>1, InitPInv, NextPInv, PTL DEF Spec

-----------------------------------------------------------------------------
(* Freshness. The commits of a table that were there at time t, counted in   *)
(* any log of commits.                                                       *)
CountBy(times, t) == Cardinality({i \in DOMAIN times : times[i].at <= t})

LEMMA CountByType ==
  ASSUME NEW times \in Seq(Entries), NEW t \in Int
  PROVE  /\ CountBy(times, t) \in Nat
         /\ CountBy(times, t) <= Len(times)
<1> DEFINE by == {i \in DOMAIN times : times[i].at <= t}
<1>1. DOMAIN times = 1..Len(times) /\ Len(times) \in Nat
  OBVIOUS
<1>2. IsFiniteSet(1..Len(times)) /\ Cardinality(1..Len(times)) = Len(times)
  BY <1>1, FS_Interval
<1>3. by \subseteq 1..Len(times)
  BY <1>1
<1>4. IsFiniteSet(by) /\ Cardinality(by) <= Len(times) /\ Cardinality(by) \in Nat
  BY <1>2, <1>3, FS_Subset, FS_CardinalityType
<1> QED
  BY <1>4 DEF CountBy

(* What was there early was there later.                                     *)
LEMMA CountByGrows ==
  ASSUME NEW times \in Seq(Entries), NEW t \in Int, NEW u \in Int, t <= u
  PROVE  CountBy(times, t) <= CountBy(times, u)
<1> DEFINE by(v) == {i \in DOMAIN times : times[i].at <= v}
<1>1. DOMAIN times = 1..Len(times) /\ Len(times) \in Nat
  OBVIOUS
<1>2. IsFiniteSet(1..Len(times))
  BY <1>1, FS_Interval
<1>3. by(u) \subseteq 1..Len(times)
  BY <1>1
<1>4. by(t) \subseteq by(u)
  <2>1. \A i \in DOMAIN times : times[i].at \in Int
    <3>1. \A i \in DOMAIN times : times[i] \in Entries
      BY <1>1
    <3> QED
      BY <3>1 DEF Entries
  <2> QED
    BY <2>1
<1>5. Cardinality(by(t)) <= Cardinality(by(u))
  BY <1>2, <1>3, <1>4, FS_Subset
<1> QED
  BY <1>5 DEF CountBy

(* A commit does not change what was there before it.                        *)
LEMMA CountByOfThePast ==
  ASSUME NEW times \in Seq(Entries), NEW new \in Entries, NEW t \in Int, t < new.at
  PROVE  CountBy(Append(times, new), t) = CountBy(times, t)
<1>1. /\ DOMAIN Append(times, new) = DOMAIN times \cup {Len(times) + 1}
      /\ \A i \in DOMAIN times : Append(times, new)[i] = times[i]
      /\ Append(times, new)[Len(times) + 1] = new
  OBVIOUS
<1>2. ~(new.at <= t)
  BY DEF Entries
<1>3. {i \in DOMAIN Append(times, new) : Append(times, new)[i].at <= t}
        = {i \in DOMAIN times : times[i].at <= t}
  BY <1>1, <1>2
<1> QED
  BY <1>3 DEF CountBy

(* What a cached part, and a page, still show at the end of their lives, at  *)
(* a time and with a log of commits: a part what was there before it was     *)
(* loaded, a page what was there HotTTL before it was built.                 *)
PartLasts(part, entry, time, log) ==
  /\ entry.body \in Nat
  /\ entry.expiry <= time + HotTTL
  /\ entry.body >= CountBy(log[TableOf(part)], entry.expiry - HotTTL - 1)

PageLasts(ep, entry, time, log) ==
  /\ entry.body \in Bodies
  /\ entry.expiry <= time + Handlers[ep].ttl
  /\ \A part \in DOMAIN entry.body :
       entry.body[part]
         >= CountBy(log[TableOf(part)], entry.expiry - Handlers[ep].ttl - HotTTL)

Lasting(c, time, log) ==
  /\ \A part \in Parts :
       PartKey(part) \in DOMAIN c => PartLasts(part, c[PartKey(part)], time, log)
  /\ \A ep \in DOMAIN Handlers : \A rows, meta \in Versions :
       PageKey(ep, rows, meta) \in DOMAIN c =>
         PageLasts(ep, c[PageKey(ep, rows, meta)], time, log)

(* What a request holds in its hands is at most HotTTL old.                  *)
Young(body, time, log) ==
  \A part \in DOMAIN body : body[part] >= CountBy(log[TableOf(part)], time - HotTTL)

FInv ==
  /\ PInv
  /\ Lasting(cache, now, commits)
  /\ req # NoReq => Young(req.body, now, commits)
  /\ RowsFresh
  /\ PartsFresh

LEMMA LogType ==
  ASSUME PInv
  PROVE  /\ commits \in [Tables -> Seq(Entries)] /\ now \in Int
         /\ \A part : TableOf(part) \in Tables /\ commits[TableOf(part)] \in Seq(Entries)
<1>1. now \in Int /\ Log(commits)
  BY ApiCacheAssumption DEF PInv
<1>2. commits \in [Tables -> Seq(Commits)]
  BY <1>1 DEF Log
<1> QED
  BY <1>1, <1>2, LogFacts

(* A commit leaves what is cached as good as it was: what an entry promises  *)
(* is about the time before it was loaded or built.                          *)
LEMMA CommitLasts ==
  ASSUME NEW log \in [Tables -> Seq(Entries)], NEW time \in Int, NEW c, Expiring(c),
         Lasting(c, time, log), NEW t \in Tables, NEW new \in Entries, new.at = time
  PROVE  Lasting(c, time, [log EXCEPT ![t] = Append(@, new)])
<1> DEFINE after == [log EXCEPT ![t] = Append(@, new)]
<1>0. \A part : TableOf(part) \in Tables
  BY DEF TableOf, Tables
<1>1. ASSUME NEW u \in Int, u < time, NEW part
      PROVE  CountBy(after[TableOf(part)], u) = CountBy(log[TableOf(part)], u)
  <2>1. log[TableOf(part)] \in Seq(Entries)
    BY <1>0
  <2>2. after[TableOf(part)] = IF TableOf(part) = t THEN Append(log[TableOf(part)], new)
                               ELSE log[TableOf(part)]
    BY <1>0
  <2> QED
    BY <1>1, <2>1, <2>2, CountByOfThePast
<1> HIDE DEF after
<1>2. HotTTL \in Nat \ {0}
  BY ApiCacheAssumption
<1>3. ASSUME NEW part \in Parts, PartKey(part) \in DOMAIN c
      PROVE  PartLasts(part, c[PartKey(part)], time, after)
  <2> DEFINE entry == c[PartKey(part)]
  <2>1. PartLasts(part, entry, time, log) /\ entry.expiry \in Nat
    BY <1>3 DEF Lasting, Expiring
  <2>2. entry.expiry - HotTTL - 1 \in Int /\ entry.expiry - HotTTL - 1 < time
    BY <1>2, <2>1 DEF PartLasts
  <2>3. CountBy(after[TableOf(part)], entry.expiry - HotTTL - 1)
          = CountBy(log[TableOf(part)], entry.expiry - HotTTL - 1)
    BY <1>1, <2>2
  <2> QED
    BY <2>1, <2>3 DEF PartLasts
<1>4. ASSUME NEW ep \in DOMAIN Handlers, NEW rows \in Versions, NEW meta \in Versions,
             PageKey(ep, rows, meta) \in DOMAIN c
      PROVE  PageLasts(ep, c[PageKey(ep, rows, meta)], time, after)
  <2> DEFINE entry == c[PageKey(ep, rows, meta)]
             born == entry.expiry - Handlers[ep].ttl
  <2>1. PageLasts(ep, entry, time, log) /\ entry.expiry \in Nat
    BY <1>4 DEF Lasting, Expiring
  <2>2. Handlers[ep].ttl \in Nat
    BY HandlersType DEF Reading
  <2>3. born - HotTTL \in Int /\ born - HotTTL < time
    BY <1>2, <2>1, <2>2 DEF PageLasts
  <2>4. \A part : CountBy(after[TableOf(part)], born - HotTTL)
                    = CountBy(log[TableOf(part)], born - HotTTL)
    BY <1>1, <2>3
  <2> QED
    BY <2>1, <2>4 DEF PageLasts
<1>5. Lasting(c, time, after)
  BY <1>3, <1>4 DEF Lasting
<1> QED
  BY <1>5 DEF after

(* _cache_set of an entry that keeps its promise.                            *)
LEMMA CacheSetLasts ==
  ASSUME NEW c, NEW log, Lasting(c, now, log), NEW key, NEW body, NEW ttl,
         \A part \in Parts : key = PartKey(part) =>
           PartLasts(part, [body |-> body, expiry |-> now + ttl], now, log),
         \A ep \in DOMAIN Handlers : \A rows, meta \in Versions :
           key = PageKey(ep, rows, meta) =>
             PageLasts(ep, [body |-> body, expiry |-> now + ttl], now, log),
         NEW d \in CacheSet(c, key, body, ttl)
  PROVE  Lasting(d, now, log)
<1>1. PICK drop \in Evictions(c) : d = Put(c, Unexpired(c) \ drop, key, body, ttl)
  BY DEF CacheSet
<1>2. DOMAIN d \subseteq DOMAIN c \cup {key}
  BY <1>1 DEF Put, Unexpired
<1>3. \A k \in DOMAIN d : d[k] = IF k = key THEN [body |-> body, expiry |-> now + ttl] ELSE c[k]
  BY <1>1 DEF Put
<1>4. ASSUME NEW part \in Parts, PartKey(part) \in DOMAIN d
      PROVE  PartLasts(part, d[PartKey(part)], now, log)
  <2>1. CASE PartKey(part) = key
    <3>1. d[PartKey(part)] = [body |-> body, expiry |-> now + ttl]
      BY <1>3, <1>4, <2>1
    <3> QED
      BY <2>1, <3>1
  <2>2. CASE PartKey(part) # key
    BY <1>2, <1>3, <1>4, <2>2 DEF Lasting
  <2> QED
    BY <2>1, <2>2
<1>5. ASSUME NEW ep \in DOMAIN Handlers, NEW rows \in Versions, NEW meta \in Versions,
             PageKey(ep, rows, meta) \in DOMAIN d
      PROVE  PageLasts(ep, d[PageKey(ep, rows, meta)], now, log)
  <2>1. CASE PageKey(ep, rows, meta) = key
    <3>1. d[PageKey(ep, rows, meta)] = [body |-> body, expiry |-> now + ttl]
      BY <1>3, <1>5, <2>1
    <3> QED
      BY <2>1, <3>1
  <2>2. CASE PageKey(ep, rows, meta) # key
    BY <1>2, <1>3, <1>5, <2>2 DEF Lasting
  <2> QED
    BY <2>1, <2>2
<1> QED
  BY <1>4, <1>5 DEF Lasting

(* What a loader returns, from the cache or from the database, is at most    *)
(* HotTTL old, and so is what it stores.                                     *)
LEMMA LoadLasts ==
  ASSUME PInv, Lasting(cache, now, commits),
         NEW part \in Parts, NEW version \in Versions, Load(part, version)
  PROVE  /\ Lasting(cache', now, commits)
         /\ version >= CountBy(commits[TableOf(part)], now - HotTTL)
<1> DEFINE times == commits[TableOf(part)]
<1>1. times \in Seq(Entries) /\ now \in Int /\ HotTTL \in Nat
  BY LogType, ApiCacheAssumption
<1>2. version \in Nat
  BY ApiCacheAssumption DEF Versions
<1>3. CASE /\ Fresh(PartKey(part)) /\ version = cache[PartKey(part)].body
           /\ UNCHANGED cache
  <2> DEFINE entry == cache[PartKey(part)]
  <2>1. PartLasts(part, entry, now, commits) /\ entry.expiry \in Nat /\ now < entry.expiry
    BY <1>3 DEF Fresh, Lasting, PInv, Expiring
  <2>2. now - HotTTL <= entry.expiry - HotTTL - 1
    BY <1>1, <2>1
  <2>3. CountBy(times, now - HotTTL) <= CountBy(times, entry.expiry - HotTTL - 1)
    BY <1>1, <2>1, <2>2, CountByGrows
  <2>4. /\ CountBy(times, now - HotTTL) \in Nat
        /\ CountBy(times, entry.expiry - HotTTL - 1) \in Nat
    <3>1. now - HotTTL \in Int /\ entry.expiry - HotTTL - 1 \in Int
      BY <1>1, <2>1
    <3> HIDE DEF times, entry
    <3> QED
      BY <1>1, <3>1, CountByType
  <2> QED
    BY <1>2, <1>3, <2>1, <2>3, <2>4 DEF PartLasts
<1>4. CASE /\ version = Version(part)
           /\ UNCHANGED cache \/ cache' \in CacheSet(cache, PartKey(part), version, HotTTL)
  <2>1. version = Len(times)
    BY <1>4 DEF Version
  <2>2. \A t \in Int : CountBy(times, t) \in Nat /\ CountBy(times, t) <= version
    BY <1>1, <2>1, CountByType
  <2>3. version >= CountBy(times, now - HotTTL)
    BY <1>1, <1>2, <2>2
  <2>4. CASE cache' \in CacheSet(cache, PartKey(part), version, HotTTL)
    <3> DEFINE entry == [body |-> version, expiry |-> now + HotTTL]
    <3>1. PartLasts(part, entry, now, commits)
      <4>1. entry.expiry - HotTTL - 1 \in Int /\ entry.body = version /\ entry.expiry <= now + HotTTL
        BY <1>1
      <4> QED
        BY <1>2, <2>2, <4>1 DEF PartLasts
    <3>2. \A other \in Parts : PartKey(part) = PartKey(other) => PartLasts(other, entry, now, commits)
      BY <3>1, PartKeysDiffer
    <3>3. \A ep, rows, meta : PartKey(part) # PageKey(ep, rows, meta)
      BY KeysDiffer
    <3> HIDE DEF entry
    <3>4. Lasting(cache', now, commits)
      BY <2>4, <3>2, <3>3, CacheSetLasts DEF entry
    <3> QED
      BY <2>3, <3>4
  <2> QED
    BY <1>4, <2>3, <2>4
<1> QED
  BY <1>3, <1>4 DEF Load

(* The answer of a read that fails is no current one.                        *)
LEMMA FallBackLasts ==
  ASSUME NEW ep, NEW failed, NEW protected, FallBack(ep, failed, protected)
  PROVE  req' = NoReq /\ ~Current'
BY DEF FallBack, Respond, Current

(* The rows a request holds show a commit that was made, and their           *)
(* fingerprint is not older than that of the rows of HotTTL ago.             *)
LEMMA RowsReal ==
  ASSUME PInv, req # NoReq
  PROVE  /\ req.rows \in 0..Len(commits["scores"])
         /\ Fingerprint("scores", req.rows) = PrintOf(commits, "scores", req.rows)
         /\ Fingerprint("scores", req.rows) \in Versions
<1>1. /\ Log(commits) /\ RealBody(req.body, commits)
      /\ "rows" \in DOMAIN req.body /\ req.body["rows"] = req.rows
  BY DEF PInv, UnderWay
<1>2. req.rows \in 0..Len(commits["scores"]) /\ "scores" \in Tables
  BY <1>1 DEF RealBody, Real, Parts, TableOf, Tables
<1>3. PrintOf(commits, "scores", req.rows) \in Versions
  BY <1>1, <1>2, PrintType
<1> QED
  BY <1>2, <1>3 DEF Fingerprint, PrintOf

LEMMA YoungPrint ==
  ASSUME PInv, req # NoReq, Young(req.body, now, commits)
  PROVE  Fingerprint("scores", req.rows)
           >= PrintOf(commits, "scores", CountBy(commits["scores"], now - HotTTL))
<1> DEFINE times == commits["scores"]
           old == CountBy(times, now - HotTTL)
<1>1. Log(commits) /\ "rows" \in DOMAIN req.body /\ req.body["rows"] = req.rows
  BY DEF PInv, UnderWay
<1>2. /\ times \in Seq(Entries) /\ now - HotTTL \in Int /\ Len(times) \in Nat
      /\ TableOf("rows") = "scores" /\ "scores" \in Tables
  BY LogType, <1>1, LogFacts, ApiCacheAssumption DEF Tables
<1> HIDE DEF times
<1>3. old \in Nat /\ old <= Len(times)
  BY <1>2, CountByType
<1>4. req.rows >= old /\ req.rows \in 0..Len(times)
  BY <1>1, <1>2, RowsReal DEF Young, times
<1> HIDE DEF old
<1>5. old \in 0..Len(commits["scores"]) /\ old <= req.rows
  BY <1>2, <1>3, <1>4 DEF times
<1>6. PrintOf(commits, "scores", old) <= PrintOf(commits, "scores", req.rows)
  BY <1>1, <1>4, <1>5, PrintGrows DEF times
<1>7. PrintOf(commits, "scores", old) \in Versions /\ PrintOf(commits, "scores", req.rows) \in Versions
  BY <1>1, <1>2, <1>4, <1>5, PrintType DEF times
<1>8. PrintOf(commits, "scores", req.rows) >= PrintOf(commits, "scores", old)
  BY <1>6, <1>7, ApiCacheAssumption DEF Versions
<1> QED
  BY <1>8, RowsReal DEF old, times

(* A page found under the key of the request is as young as it promises, and *)
(* shows rows with the fingerprint of those the request has read.            *)
LEMMA HitIsFresh ==
  ASSUME PInv, PInv', UNCHANGED <<now, commits>>, req # NoReq,
         Lasting(cache', now, commits), Young(req.body, now, commits),
         NEW meta \in Versions, NEW key,
         key = PageKey(req.ep, Fingerprint("scores", req.rows), meta),
         key \in DOMAIN cache', now < cache'[key].expiry,
         Respond(req.ep, "hit", cache'[key].body, "none")
  PROVE  RowsFresh' /\ PartsFresh'
<1> DEFINE page == cache'[key].body
           ttl == Handlers[req.ep].ttl
           born == cache'[key].expiry - ttl
<1>1. reply'.body = page /\ reply'.ep = req.ep
  BY DEF Respond
<1>2. /\ req.ep \in DOMAIN Handlers /\ Log(commits)
      /\ "rows" \in DOMAIN req.body /\ req.body["rows"] = req.rows
      /\ Fingerprint("scores", req.rows) \in Versions
      /\ Young(req.body, now, commits)
  BY RowsReal, ApiCacheAssumption DEF PInv, Requests, UnderWay
<1>3. PageLasts(req.ep, cache'[key], now, commits)
  BY <1>2 DEF Lasting
<1>4. /\ cache'[key].expiry \in Nat
      /\ PrintOf(commits, "scores", page["rows"]) = Fingerprint("scores", req.rows)
  <2>1. PagesMatch(cache', commits) /\ Expiring(cache')
    BY DEF PInv
  <2> QED
    BY <1>2, <2>1 DEF Expiring, PagesMatch, Matches
<1>5. ttl \in Nat /\ HotTTL \in Nat /\ now \in Int
  BY <1>2, HandlersType, LogType, ApiCacheAssumption DEF Reading
<1>6. RowsFresh'
  <2>1. Fingerprint("scores", req.rows)
          >= PrintOf(commits, "scores", CountBy(commits["scores"], now - HotTTL))
    BY <1>2, YoungPrint
  <2>2. PrintOf(commits, "scores", page["rows"])
          >= PrintOf(commits, "scores", CountBy(commits["scores"], now - HotTTL))
    BY <1>4, <2>1
  <2> HIDE DEF page
  <2> QED
    BY <1>1, <2>2 DEF RowsFresh, CommittedBy, CountBy, Fingerprint, PrintOf, TableOf
<1>7. ASSUME NEW part \in DOMAIN page
      PROVE  page[part] >= CountBy(commits[TableOf(part)], now - HotTTL - ttl)
  <2> DEFINE times == commits[TableOf(part)]
             then == born - HotTTL
             ago == now - HotTTL - ttl
  <2>1. then \in Int /\ ago \in Int /\ ago <= then
    BY <1>4, <1>5
  <2>2. page[part] >= CountBy(times, then)
    BY <1>3 DEF PageLasts
  <2>3. page[part] \in Int
    BY <1>3, ApiCacheAssumption DEF PageLasts, Bodies, Versions
  <2>4. times \in Seq(Entries)
    BY LogType
  <2> HIDE DEF times, then, ago, page
  <2>5. CountBy(times, ago) <= CountBy(times, then)
    BY <2>1, <2>4, CountByGrows
  <2>6. CountBy(times, ago) \in Nat /\ CountBy(times, then) \in Nat
    BY <2>1, <2>4, CountByType
  <2>7. page[part] >= CountBy(times, ago)
    BY <2>2, <2>3, <2>5, <2>6
  <2> QED
    BY <2>7 DEF times, ago
<1>8. PartsFresh'
  BY <1>1, <1>7 DEF PartsFresh, CommittedBy, CountBy
<1> QED
  BY <1>6, <1>8

(* The look-up of the page ends the request with a fresh answer, or the      *)
(* request goes on with a body as young as before.                           *)
LEMMA UseKeyIsFresh ==
  ASSUME PInv, PInv', UNCHANGED <<now, commits>>, req # NoReq,
         Lasting(cache', now, commits), Young(req.body, now, commits),
         NEW meta \in Versions, NEW body, Young(body, now, commits),
         UseKey(meta, body), ~Current
  PROVE  FInv'
<1> DEFINE key == PageKey(req.ep, Fingerprint("scores", req.rows), meta)
<1>0. Lasting(cache, now, commits)'
  OBVIOUS
<1>1. CASE /\ key \in DOMAIN cache' /\ now < cache'[key].expiry
           /\ Respond(req.ep, "hit", cache'[key].body, "none")
  <2>1. RowsFresh' /\ PartsFresh'
    <3> HIDE DEF key
    <3>1. key = PageKey(req.ep, Fingerprint("scores", req.rows), meta)
      BY DEF key
    <3> QED
      BY <1>1, <3>1, HitIsFresh
  <2>2. req' = NoReq
    BY <1>1 DEF Respond
  <2> QED
    BY <1>0, <2>1, <2>2 DEF FInv
<1>2. CASE /\ req' = [req EXCEPT !.todo = Handlers[req.ep].reads, !.meta = meta, !.body = body]
           /\ UNCHANGED reply
  <2>1. req'.body = body
    BY <1>2 DEF PInv, Requests
  <2>2. ~Current' /\ RowsFresh' /\ PartsFresh'
    BY <1>2 DEF Current, RowsFresh, PartsFresh
  <2> QED
    BY <1>0, <2>1, <2>2 DEF FInv
<1> QED
  BY <1>1, <1>2 DEF UseKey

(* One more part, as young as the rest.                                      *)
LEMMA YoungWith ==
  ASSUME NEW body \in Bodies, NEW part \in Parts, NEW version \in Versions,
         Young(body, now, commits),
         version >= CountBy(commits[TableOf(part)], now - HotTTL)
  PROVE  Young(With(body, part, version), now, commits)
<1> DEFINE new == With(body, part, version)
<1>1. /\ DOMAIN new = DOMAIN body \cup {part} /\ new[part] = version
      /\ \A q \in DOMAIN body : q # part => new[q] = body[q]
  BY WithType
<1> HIDE DEF new
<1>2. ASSUME NEW q \in DOMAIN new
      PROVE  new[q] >= CountBy(commits[TableOf(q)], now - HotTTL)
  <2>1. CASE q = part
    BY <1>1, <2>1
  <2>2. CASE q # part
    BY <1>1, <1>2, <2>2 DEF Young
  <2> QED
    BY <2>1, <2>2
<1> QED
  BY <1>2 DEF Young, new

LEMMA InitFInv == Init => FInv
<1> SUFFICES ASSUME Init PROVE FInv
  OBVIOUS
<1>1. PInv
  BY InitPInv
<1>2. DOMAIN cache = {} /\ req = NoReq /\ reply.kind = "none"
  BY DEF Init, NoReply
<1> QED
  BY <1>1, <1>2 DEF FInv, Lasting, RowsFresh, PartsFresh, Current

(* One step per action. Time stands still while a request is under way, and  *)
(* a commit is not older than the present.                                   *)
LEMMA NextFInv == FInv /\ [Next]_vars => FInv'
<1> SUFFICES ASSUME FInv, [Next]_vars PROVE FInv'
  OBVIOUS
<1>1. PInv /\ PInv'
  BY NextPInv DEF FInv
<1>2. Lasting(cache, now, commits) /\ (req # NoReq => Young(req.body, now, commits))
  BY DEF FInv
<1>3. /\ HotTTL \in Nat \ {0} /\ now \in Int /\ Expiring(cache)
      /\ commits \in [Tables -> Seq(Entries)]
  BY <1>1, LogType, ApiCacheAssumption DEF PInv
<1>4. req # NoReq => ~Current
  BY <1>1 DEF PInv, UnderWay, Current, NoReply
<1>5. CASE Tick
  <2>1. now' = now + 1 /\ UNCHANGED <<commits, cache, req>> /\ req = NoReq /\ ~Current'
    BY <1>5 DEF Tick, NoReply, Current
  <2>2. Lasting(cache, now + 1, commits)
    <3>1. ASSUME NEW part \in Parts, PartKey(part) \in DOMAIN cache
          PROVE  PartLasts(part, cache[PartKey(part)], now + 1, commits)
      BY <1>2, <1>3, <3>1 DEF Lasting, PartLasts, Expiring
    <3>2. ASSUME NEW ep \in DOMAIN Handlers, NEW rows \in Versions, NEW meta \in Versions,
                 PageKey(ep, rows, meta) \in DOMAIN cache
          PROVE  PageLasts(ep, cache[PageKey(ep, rows, meta)], now + 1, commits)
      <4>1. /\ PageLasts(ep, cache[PageKey(ep, rows, meta)], now, commits)
            /\ cache[PageKey(ep, rows, meta)].expiry \in Nat
        BY <1>2, <1>3, <3>2 DEF Lasting, Expiring
      <4>2. Handlers[ep].ttl \in Nat
        BY HandlersType DEF Reading
      <4> QED
        BY <1>3, <4>1, <4>2 DEF PageLasts
    <3> QED
      BY <3>1, <3>2 DEF Lasting
  <2>3. Lasting(cache, now, commits)'
    BY <2>1, <2>2
  <2> QED
    BY <1>1, <2>1, <2>3 DEF FInv, RowsFresh, PartsFresh
<1>6. ASSUME NEW t \in Tables, CommitTo(t) PROVE FInv'
  <2>0. PICK print \in 1..Len(commits[t]) + 1 :
          commits' = [commits EXCEPT ![t] = Append(@, [at |-> now, print |-> print])]
    BY <1>6 DEF CommitTo
  <2> DEFINE new == [at |-> now, print |-> print]
  <2>1. /\ commits' = [commits EXCEPT ![t] = Append(@, new)]
        /\ new \in Entries /\ new.at = now
        /\ UNCHANGED <<now, cache, req>> /\ ~Current'
    <3>1. print \in Nat
      BY <2>0
    <3>2. new \in Entries /\ new.at = now
      BY <1>3, <3>1 DEF Entries
    <3> QED
      BY <1>6, <2>0, <3>2 DEF CommitTo, NoReply, Current
  <2> HIDE DEF new
  <2>2. Lasting(cache, now, commits')
    BY <1>2, <1>3, <2>1, CommitLasts
  <2>3. ASSUME req # NoReq PROVE Young(req.body, now, commits')
    <3> SUFFICES ASSUME NEW part \in DOMAIN req.body
                 PROVE  req.body[part] >= CountBy(commits'[TableOf(part)], now - HotTTL)
      BY DEF Young
    <3> DEFINE times == commits[TableOf(part)]
    <3>1. times \in Seq(Entries) /\ TableOf(part) \in Tables
      BY <1>1, LogType
    <3>2. commits'[TableOf(part)] = IF TableOf(part) = t THEN Append(times, new) ELSE times
      BY <1>3, <2>1, <3>1
    <3>3. req.body[part] >= CountBy(times, now - HotTTL)
      BY <1>2, <2>3 DEF Young
    <3> HIDE DEF times
    <3>4. now - HotTTL \in Int /\ now - HotTTL < now
      BY <1>3
    <3> QED
      BY <2>1, <3>1, <3>2, <3>3, <3>4, CountByOfThePast
  <2> QED
    BY <1>1, <2>1, <2>2, <2>3 DEF FInv, RowsFresh, PartsFresh
<1>7. ASSUME NEW ep \in asked, ReadRows(ep) PROVE FInv'
  <2>1. PICK version \in Versions :
          /\ Load("rows", version)
          /\ req' = [NoReq EXCEPT !.ep = ep, !.todo = <<"key">>, !.rows = version,
                                  !.body = [p \in {"rows"} |-> version]]
    BY <1>7 DEF ReadRows
  <2>2. UNCHANGED <<now, commits>> /\ ~Current'
    BY <1>7 DEF ReadRows, NoReply, Current
  <2>3. "rows" \in Parts
    BY DEF Parts
  <2>4. /\ Lasting(cache', now, commits)
        /\ version >= CountBy(commits[TableOf("rows")], now - HotTTL)
    BY <1>1, <1>2, <2>1, <2>3, LoadLasts
  <2>5. req'.body = [p \in {"rows"} |-> version]
    BY <2>1 DEF NoReq
  <2>6. Young(req'.body, now, commits)
    BY <2>4, <2>5 DEF Young
  <2> QED
    BY <1>1, <2>2, <2>4, <2>6 DEF FInv, RowsFresh, PartsFresh
<1>8. ASSUME UNCHANGED <<now, commits, cache>>, req' = NoReq, ~Current' PROVE FInv'
  BY <1>1, <1>2, <1>8 DEF FInv, RowsFresh, PartsFresh
<1>9. ASSUME NEW ep \in asked, FailRows(ep) PROVE FInv'
  BY <1>8, <1>9, FallBackLasts DEF FailRows
<1>10. CASE FailKey
  BY <1>8, <1>10, FallBackLasts DEF FailKey
<1>11. CASE FailPart
  BY <1>8, <1>11, FallBackLasts DEF FailPart
<1>12. CASE MakeKey
  <2>1. req # NoReq /\ UNCHANGED <<now, commits>>
    BY <1>12, NoReqIdle DEF MakeKey
  <2>2. ~Current /\ Young(req.body, now, commits) /\ req.body \in Bodies
    BY <1>1, <1>2, <1>4, <2>1 DEF PInv, Requests
  <2>3. CASE Handlers[req.ep].keyMeta = "meta"
    <3>1. PICK version \in Versions :
            /\ Load("meta", version)
            /\ UseKey(Fingerprint("metadata", version), With(req.body, "meta", version))
      BY <1>12, <2>3 DEF MakeKey
    <3>2. "meta" \in Parts
      BY DEF Parts
    <3>3. /\ Lasting(cache', now, commits)
          /\ version >= CountBy(commits[TableOf("meta")], now - HotTTL)
      BY <1>1, <1>2, <3>1, <3>2, LoadLasts
    <3>4. Young(With(req.body, "meta", version), now, commits)
      BY <2>2, <3>2, <3>3, YoungWith
    <3>5. Fingerprint("metadata", version) \in Versions
      <4>1. Log(commits) /\ Expiring(cache) /\ PagesMatch(cache, commits) /\ now \in Nat
        BY <1>1, ApiCacheAssumption DEF PInv
      <4>2. Real("meta", version, commits)
        BY <3>1, <3>2, <4>1, LoadKeeps
      <4>3. PrintOf(commits, "metadata", version) \in Versions
        BY <4>1, <4>2, PrintType DEF Real, TableOf, Tables
      <4> QED
        BY <4>3 DEF Fingerprint, PrintOf
    <3> QED
      BY <1>1, <2>1, <2>2, <3>1, <3>3, <3>4, <3>5, UseKeyIsFresh
  <2>4. CASE Handlers[req.ep].keyMeta # "meta"
    <3>1. PICK version \in {Version("live_meta"), 0} :
            UNCHANGED cache /\ UseKey(Fingerprint("metadata", version), req.body)
      BY <1>12, <2>4 DEF MakeKey
    <3>2. Fingerprint("metadata", version) \in Versions
      BY <1>1, <3>1, LivePrintType
    <3>3. Lasting(cache', now, commits)
      BY <1>2, <3>1
    <3> QED
      BY <1>1, <2>1, <2>2, <3>1, <3>2, <3>3, UseKeyIsFresh
  <2> QED
    BY <2>3, <2>4
<1>13. CASE ReadPart
  <2>1. req # NoReq /\ req.todo \notin {<<>>, <<"key">>} /\ UNCHANGED <<now, commits>>
    BY <1>13, NoReqIdle DEF ReadPart
  <2>2. /\ ~Current /\ Young(req.body, now, commits) /\ req.body \in Bodies
        /\ req.todo \in Seq(Parts)
    BY <1>1, <1>2, <1>4, <2>1 DEF PInv, Requests, UnderWay, Keyed
  <2>3. Head(req.todo) \in Parts
    BY <2>1, <2>2
  <2>4. PICK version \in Versions :
          /\ Load(Head(req.todo), version)
          /\ \/ Respond(req.ep, "not_found", <<>>, "none")
             \/ /\ req' = [req EXCEPT !.todo = Tail(@), !.body = With(@, Head(req.todo), version)]
                /\ UNCHANGED reply
    BY <1>13 DEF ReadPart
  <2>5. /\ Lasting(cache', now, commits)
        /\ version >= CountBy(commits[TableOf(Head(req.todo))], now - HotTTL)
    BY <1>1, <1>2, <2>3, <2>4, LoadLasts
  <2>6. ~Current'
    BY <2>2, <2>4 DEF Respond, Current
  <2>7. req' # NoReq => Young(req'.body, now, commits)
    <3>1. CASE Respond(req.ep, "not_found", <<>>, "none")
      BY <3>1 DEF Respond
    <3>2. CASE req' = [req EXCEPT !.todo = Tail(@), !.body = With(@, Head(req.todo), version)]
      <4>1. req'.body = With(req.body, Head(req.todo), version)
        BY <1>1, <3>2 DEF PInv, Requests
      <4> QED
        BY <2>2, <2>3, <2>5, <4>1, YoungWith
    <3> QED
      BY <2>4, <3>1, <3>2
  <2> QED
    BY <1>1, <2>1, <2>5, <2>6, <2>7 DEF FInv, RowsFresh, PartsFresh
<1>14. CASE Finish
  <2> DEFINE key == PageKey(req.ep, Fingerprint("scores", req.rows), req.meta)
             ttl == Handlers[req.ep].ttl
             entry == [body |-> req.body, expiry |-> now + ttl]
  <2>1. /\ req # NoReq /\ UNCHANGED <<now, commits>> /\ req' = NoReq
        /\ reply'.body = req.body /\ reply'.ep = req.ep
    BY <1>14, NoReqIdle DEF Finish, Respond
  <2>2. /\ Young(req.body, now, commits) /\ req.body \in Bodies
        /\ req.ep \in DOMAIN Handlers /\ "rows" \in DOMAIN req.body
    BY <1>1, <1>2, <2>1, ApiCacheAssumption DEF PInv, Requests, UnderWay
  <2>3. ttl \in Nat
    BY <2>2, HandlersType DEF Reading
  <2>4. PageLasts(req.ep, entry, now, commits)
    <3>1. entry.expiry - ttl - HotTTL = now - HotTTL /\ entry.expiry <= now + ttl
      BY <1>3, <2>3
    <3>2. entry.body = req.body
      OBVIOUS
    <3> HIDE DEF entry
    <3> QED
      BY <2>2, <3>1, <3>2 DEF PageLasts, Young
  <2>5. \A ep \in DOMAIN Handlers : \A rows, meta \in Versions :
          key = PageKey(ep, rows, meta) => PageLasts(ep, entry, now, commits)
    BY <2>4, KeysDiffer
  <2>6. \A part : key # PartKey(part)
    BY KeysDiffer
  <2>7. PICK c \in CacheSet(cache, key, req.body, ttl) :
          IF Handlers[req.ep].stale
          THEN cache' \in CacheSet(c, StaleKey(req.ep), req.body, StaleTTL)
          ELSE cache' = c
    BY <1>14 DEF Finish
  <2>8. Lasting(c, now, commits)
    <3> HIDE DEF key, ttl
    <3> QED
      BY <1>2, <2>5, <2>6, <2>7, CacheSetLasts
  <2>9. /\ \A ep, rows, meta : StaleKey(req.ep) # PageKey(ep, rows, meta)
        /\ \A part : StaleKey(req.ep) # PartKey(part)
    <3>1. \A ep, rows, meta : StaleKey(req.ep) # PageKey(ep, rows, meta)
      BY KeysDiffer
    <3>2. StaleKey(req.ep)[1] = "stale" /\ \A part : PartKey(part)[1] = "part"
      BY DEF StaleKey, PartKey
    <3> QED
      BY <3>1, <3>2
  <2>10. Lasting(cache', now, commits)
    BY <2>7, <2>8, <2>9, CacheSetLasts
  <2>11. RowsFresh'
    <3>1. Fingerprint("scores", req.rows)
            >= PrintOf(commits, "scores", CountBy(commits["scores"], now - HotTTL))
      BY <1>1, <2>1, <2>2, YoungPrint
    <3>2. req.body["rows"] = req.rows
      BY <1>1, <2>1 DEF PInv, UnderWay
    <3> QED
      BY <2>1, <3>1, <3>2 DEF RowsFresh, CommittedBy, CountBy, Fingerprint, PrintOf, TableOf
  <2>12. ASSUME NEW part \in DOMAIN req.body
         PROVE  req.body[part] >= CountBy(commits[TableOf(part)], now - HotTTL - ttl)
    <3> DEFINE times == commits[TableOf(part)]
    <3>1. times \in Seq(Entries)
      BY <1>1, LogType
    <3>2. now - HotTTL \in Int /\ now - HotTTL - ttl \in Int /\ now - HotTTL - ttl <= now - HotTTL
      BY <1>3, <2>3
    <3>3. req.body[part] \in Int /\ req.body[part] >= CountBy(times, now - HotTTL)
      BY <2>2, ApiCacheAssumption DEF Bodies, Versions, Young
    <3> HIDE DEF times, ttl
    <3>4. CountBy(times, now - HotTTL - ttl) <= CountBy(times, now - HotTTL)
      BY <3>1, <3>2, CountByGrows
    <3>5. CountBy(times, now - HotTTL - ttl) \in Nat /\ CountBy(times, now - HotTTL) \in Nat
      BY <3>1, <3>2, CountByType
    <3>6. req.body[part] >= CountBy(times, now - HotTTL - ttl)
      BY <3>3, <3>4, <3>5
    <3> QED
      BY <3>6 DEF times
  <2>13. PartsFresh'
    BY <2>1, <2>12 DEF PartsFresh, CommittedBy, CountBy
  <2> QED
    BY <1>1, <2>1, <2>10, <2>11, <2>13 DEF FInv
<1>15. CASE UNCHANGED vars
  <2>1. Lasting(cache, now, commits)' /\ (req' # NoReq => Young(req.body, now, commits)')
    BY <1>2, <1>15 DEF vars
  <2>2. RowsFresh' /\ PartsFresh'
    BY <1>15 DEF vars, FInv, RowsFresh, PartsFresh, Current, CommittedBy, Fingerprint
  <2> QED
    BY <1>1, <2>1, <2>2 DEF FInv
<1> QED
  BY <1>5, <1>6, <1>7, <1>9, <1>10, <1>11, <1>12, <1>13, <1>14, <1>15 DEF Next, Step

(* No answer shows rows whose fingerprint is older than that of the rows that *)
(* were there HotTTL ago: the fingerprint of the run in a page's key makes up *)
(* for the page's lifetime, however commits fall between the reads of a       *)
(* request and whatever late commits leave it as it was.                      *)
THEOREM RowsStayFresh == Spec => []RowsFresh
<1>1. FInv => RowsFresh
  BY DEF FInv
<1> QED
  BY <1>1, InitFInv, NextFInv, PTL DEF Spec

(* Nothing in an answer is older than the page's lifetime and HotTTL taken   *)
(* together, although most keys do not name most of what the body holds.     *)
THEOREM PartsStayFresh == Spec => []PartsFresh
<1>1. FInv => PartsFresh
  BY DEF FInv
<1> QED
  BY <1>1, InitFInv, NextFInv, PTL DEF Spec
=============================================================================

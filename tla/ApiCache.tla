------------------------------ MODULE ApiCache ------------------------------
(***************************************************************************)
(* The response cache of api/main.py and the handlers that read through it. *)
(* A handler is an async function that never awaits once its parameters are *)
(* resolved, so handlers run one at a time; but each of its database reads  *)
(* is a session of its own, and a scoring run commits scores and metadata   *)
(* in between.                                                              *)
(*                                                                          *)
(* The content of what is read is the number of the last commit it shows:   *)
(* of score runs for everything read from subnet_scores, of metadata        *)
(* updates for everything read from subnet_metadata.  The fingerprints of a *)
(* cache key (_run_fingerprint, _metadata_fingerprint: the newest timestamp *)
(* and the number of rows) tell less apart: rows are stamped before they    *)
(* are committed, and a process that stamped early and commits late changes *)
(* rows under a fingerprint that stays.                                     *)
(***************************************************************************)
EXTENDS Integers, Sequences, FiniteSets

CONSTANTS
  Mixes,       \* sets of endpoints: what the clients of one behaviour ask for
  HotTTL,      \* _HOT_DATA_CACHE_TTL
  PageTTL,     \* _CACHE_TTL
  StaleTTL,    \* ttl of the fallback copies
  MaxEntries,  \* _CACHE_MAX_ENTRIES
  MaxTime,     \* bound on the clock
  MaxCommits   \* bound on the commits of both tables

VARIABLES
  now,      \* time.time()
  commits,  \* commits[t]: the commits of table t in order, each with its time and
            \* the fingerprint (print) of the table after it
  cache,    \* _cache: a function from the keys present to [body, expiry]
  req,      \* the request being handled
  reply,    \* the answer just given
  asked     \* the endpoints requests are made to; it never changes

vars == <<now, commits, cache, req, reply, asked>>

Tables == {"scores", "metadata"}

(* What an endpoint reads after its key is made, and how the key gets its   *)
(* metadata fingerprint: from the cached metadata or from the database.     *)
(* A `guarded` endpoint makes its key inside its try block.                 *)
Handler(keyMeta, reads, ttl, stale, guarded) ==
  [keyMeta |-> keyMeta, reads |-> reads, ttl |-> ttl, stale |-> stale,
   guarded |-> guarded]

DiscoverBootstrap      == Handler("meta", <<"ranks", "points">>, HotTTL, TRUE, TRUE)
ListSubnets            == Handler("live", <<"meta", "ranks">>, PageTTL, FALSE, FALSE)
GetSubnet              == Handler("meta", <<"full", "history">>, PageTTL, FALSE, FALSE)
GetSubnetHistory       == Handler("live", <<"history">>, PageTTL, FALSE, FALSE)
GetSubnetSignalHistory == Handler("live", <<"signals">>, PageTTL, TRUE, FALSE)
LatestRun              == Handler("live", <<>>, PageTTL, FALSE, FALSE)
Leaderboard            == Handler("live", <<"live_meta">>, PageTTL, FALSE, FALSE)
CompareTimeseries      == Handler("live", <<"compact", "meta">>, PageTTL, FALSE, FALSE)
MarketOverview         == Handler("live", <<"points">>, PageTTL, FALSE, FALSE)
ScoreDistribution      == Handler("live", <<"live_scores">>, PageTTL, FALSE, FALSE)
BacktestLabels         == Handler("live", <<"since">>, PageTTL, FALSE, FALSE)

Handlers ==
  [bootstrap    |-> DiscoverBootstrap,
   list         |-> ListSubnets,
   detail       |-> GetSubnet,
   history      |-> GetSubnetHistory,
   signals      |-> GetSubnetSignalHistory,
   latest_run   |-> LatestRun,
   leaderboard  |-> Leaderboard,
   compare      |-> CompareTimeseries,
   market       |-> MarketOverview,
   distribution |-> ScoreDistribution,
   backtests    |-> BacktestLabels]

ASSUME ApiCacheAssumption ==
  /\ HotTTL \in Nat \ {0} /\ PageTTL \in Nat \ {0} /\ StaleTTL \in Nat \ {0}
  /\ MaxEntries \in Nat /\ MaxTime \in Nat /\ MaxCommits \in Nat
  /\ \A mix \in Mixes : mix \subseteq DOMAIN Handlers

(* The parts that are read from the database on every build of the page.    *)
Uncached == {"live_meta", "live_scores"}
TableOf(part) == IF part \in {"meta", "live_meta"} THEN "metadata" ELSE "scores"

Version(part) == Len(commits[TableOf(part)])

(* The newest timestamp and the number of rows of table t as its commit v    *)
(* left them: 0 of an empty table, then a number for every new pair.         *)
Fingerprint(t, v) == IF v = 0 THEN 0 ELSE commits[t][v].print

PartKey(part) == <<"part", part>>
(* Mutants of PageKey: without the fingerprint of the run; without that of  *)
(* the metadata.                                                            *)
PageKeyWithoutRun(ep, rows, meta) == <<"page", ep, 0, meta>>
PageKeyWithoutMeta(ep, rows, meta) == <<"page", ep, rows, 0>>

PageKey(ep, rows, meta) == <<"page", ep, rows, meta>>
StaleKey(ep) == <<"stale", ep>>

NoReq == [ep |-> "none", todo |-> <<>>, rows |-> 0, meta |-> 0, body |-> <<>>]
NoReply == [ep |-> "none", kind |-> "none", body |-> <<>>, failed |-> "none"]

-----------------------------------------------------------------------------
(* Mutant of Fresh: an entry counts until it is pruned.                     *)
Present(key) == key \in DOMAIN cache

(* _cache_get, and _cache_set with its _prune_cache: the expired entries go, *)
(* then, of a cache over its limit, the entries that expire first.          *)
Fresh(key) == key \in DOMAIN cache /\ now < cache[key].expiry

Unexpired(c) == {k \in DOMAIN c : c[k].expiry > now}

(* Mutant of Overflow: only expired entries are pruned.                     *)
OverflowIgnored(c) == 0

Overflow(c) == LET n == Cardinality(Unexpired(c))
               IN  IF n > MaxEntries THEN n - MaxEntries ELSE 0

Evictions(c) ==
  {drop \in SUBSET Unexpired(c) :
     /\ Cardinality(drop) = Overflow(c)
     /\ \A d \in drop, k \in Unexpired(c) \ drop : c[d].expiry <= c[k].expiry}

Put(c, keep, key, body, ttl) ==
  [k \in keep \cup {key} |->
     IF k = key THEN [body |-> body, expiry |-> now + ttl] ELSE c[k]]

CacheSet(c, key, body, ttl) ==
  {Put(c, Unexpired(c) \ drop, key, body, ttl) : drop \in Evictions(c)}

(* A _get_cached_ loader: cache' and the version it returns.  The row of a  *)
(* subnet that has none yet is not cached.                                  *)
Load(part, version) ==
  \/ /\ part \notin Uncached /\ Fresh(PartKey(part))
     /\ version = cache[PartKey(part)].body
     /\ UNCHANGED cache
  \/ /\ part \in Uncached \/ ~Fresh(PartKey(part))
     /\ version = Version(part)
     /\ IF part \in Uncached \/ (part = "full" /\ version = 0)
        THEN UNCHANGED cache
        ELSE cache' \in CacheSet(cache, PartKey(part), version, HotTTL)

Versions == 0..MaxCommits

With(body, part, version) ==
  [p \in DOMAIN body \cup {part} |-> IF p = part THEN version ELSE body[p]]

-----------------------------------------------------------------------------
Init ==
  /\ now = 0
  /\ commits = [t \in Tables |-> <<>>]
  /\ cache = [k \in {} |-> NoReply]
  /\ req = NoReq
  /\ reply = NoReply
  /\ asked \in Mixes

Tick ==
  /\ req = NoReq /\ now < MaxTime
  /\ now' = now + 1
  /\ reply' = NoReply
  /\ UNCHANGED <<commits, cache, req>>

(* save_scores, or an upsert_metadata, of a scoring run.  A late commit of   *)
(* scores leaves the newest timestamp and the number of rows as they were;   *)
(* one of metadata writes its older timestamp over the row, and may even     *)
(* take the newest one away, so that an earlier fingerprint comes back.      *)
CommitTo(t) ==
  /\ Len(commits["scores"]) + Len(commits["metadata"]) < MaxCommits
  /\ \E print \in 1..Len(commits[t]) + 1 :
       /\ t = "scores" => print >= Fingerprint(t, Len(commits[t]))
       /\ commits' = [commits EXCEPT ![t] = Append(@, [at |-> now, print |-> print])]
  /\ reply' = NoReply
  /\ UNCHANGED <<now, cache, req>>

Respond(ep, kind, body, failed) ==
  /\ reply' = [ep |-> ep, kind |-> kind, body |-> body, failed |-> failed]
  /\ req' = NoReq

(* The handler starts with the rows of the latest run.                      *)
ReadRows(ep) ==
  /\ req = NoReq
  /\ \E version \in Versions :
       /\ Load("rows", version)
       /\ req' = [NoReq EXCEPT !.ep = ep, !.todo = <<"key">>, !.rows = version,
                               !.body = [p \in {"rows"} |-> version]]
  /\ reply' = NoReply
  /\ UNCHANGED <<now, commits>>

(* _live_cache_key and the look-up of the page.  The live fingerprint of a  *)
(* database that does not answer is the one of an empty table.              *)
UseKey(meta, body) ==
  LET key == PageKey(req.ep, Fingerprint("scores", req.rows), meta)
  IN  IF key \in DOMAIN cache' /\ now < cache'[key].expiry
      THEN Respond(req.ep, "hit", cache'[key].body, "none")
      ELSE /\ req' = [req EXCEPT !.todo = Handlers[req.ep].reads,
                                 !.meta = meta, !.body = body]
           /\ UNCHANGED reply

MakeKey ==
  /\ req.todo = <<"key">>
  /\ IF Handlers[req.ep].keyMeta = "meta"
     THEN \E version \in Versions :
            /\ Load("meta", version)
            /\ UseKey(Fingerprint("metadata", version), With(req.body, "meta", version))
     ELSE /\ UNCHANGED cache
          /\ \E version \in {Version("live_meta"), 0} :
               UseKey(Fingerprint("metadata", version), req.body)
  /\ UNCHANGED <<now, commits>>

(* One more part of the page.  A subnet without a row, or without history,  *)
(* is answered 404 at once.                                                 *)
ReadPart ==
  /\ req.todo \notin {<<>>, <<"key">>}
  /\ LET part == Head(req.todo)
     IN  \E version \in Versions :
           /\ Load(part, version)
           /\ IF version = 0 /\ (part = "full" \/ req.ep = "history")
              THEN Respond(req.ep, "not_found", <<>>, "none")
              ELSE /\ req' = [req EXCEPT !.todo = Tail(@),
                                         !.body = With(@, part, version)]
                   /\ UNCHANGED reply
  /\ UNCHANGED <<now, commits>>

(* The page is complete: it is cached, and so is its fallback copy.         *)
Finish ==
  /\ req.ep # "none" /\ req.todo = <<>>
  /\ LET key == PageKey(req.ep, Fingerprint("scores", req.rows), req.meta)
     IN  \E c \in CacheSet(cache, key, req.body, Handlers[req.ep].ttl) :
           IF Handlers[req.ep].stale
           THEN cache' \in CacheSet(c, StaleKey(req.ep), req.body, StaleTTL)
           ELSE cache' = c
  /\ Respond(req.ep, "built", req.body, "none")
  /\ UNCHANGED <<now, commits>>

(* The database read that comes next raises: the handlers that keep a       *)
(* fallback copy answer with it, however old, if the read is in their try   *)
(* block; signals without a copy is answered an empty list.                 *)
FallBack(ep, failed, protected) ==
  IF protected /\ StaleKey(ep) \in DOMAIN cache
  THEN Respond(ep, "stale", cache[StaleKey(ep)].body, failed)
  ELSE IF protected /\ ep = "signals"
       THEN Respond(ep, "empty", <<>>, failed)
       ELSE Respond(ep, "error", <<>>, failed)

FailRows(ep) ==
  /\ req = NoReq /\ ~Fresh(PartKey("rows"))
  /\ FallBack(ep, "rows", Handlers[ep].guarded)
  /\ UNCHANGED <<now, commits, cache>>

FailKey ==
  /\ req.todo = <<"key">> /\ Handlers[req.ep].keyMeta = "meta"
  /\ ~Fresh(PartKey("meta"))
  /\ FallBack(req.ep, "meta", Handlers[req.ep].guarded)
  /\ UNCHANGED <<now, commits, cache>>

(* Mutant of FailPart: signals answers an error like the other pages.       *)
FailPartGuardedOnly ==
  /\ req.todo \notin {<<>>, <<"key">>}
  /\ ~Fresh(PartKey(Head(req.todo)))
  /\ FallBack(req.ep, Head(req.todo), Handlers[req.ep].guarded)
  /\ UNCHANGED <<now, commits, cache>>

FailPart ==
  /\ req.todo \notin {<<>>, <<"key">>}
  /\ ~Fresh(PartKey(Head(req.todo)))
  /\ FallBack(req.ep, Head(req.todo), Handlers[req.ep].stale)
  /\ UNCHANGED <<now, commits, cache>>

Step ==
  \/ Tick
  \/ \E t \in Tables : CommitTo(t)
  \/ \E ep \in asked : ReadRows(ep) \/ FailRows(ep)
  \/ MakeKey \/ ReadPart \/ Finish \/ FailKey \/ FailPart

Next == Step /\ UNCHANGED asked

Spec == Init /\ [][Next]_vars

-----------------------------------------------------------------------------
TypeOK ==
  /\ now \in 0..MaxTime
  /\ \A t \in Tables : /\ commits[t] \in Seq([at : 0..MaxTime, print : 1..MaxCommits])
                        /\ Len(commits[t]) <= MaxCommits
  /\ \A k \in DOMAIN cache : cache[k].expiry \in Nat
  /\ asked \in Mixes /\ req.ep \in asked \cup {"none"}
  /\ req.rows \in Versions /\ req.meta \in Versions
  /\ reply.kind \in {"none", "hit", "built", "stale", "empty", "not_found", "error"}

(* The last version of a part that was committed by time t.                 *)
CommittedBy(part, t) ==
  LET done == commits[TableOf(part)]
  IN  Cardinality({i \in DOMAIN done : done[i].at <= t})

Current == reply.kind \in {"hit", "built"}

(* The run fingerprint in every key: however long pages are cached, no      *)
(* answer shows rows whose fingerprint is older than that of the rows that   *)
(* were there HotTTL ago.  (A late commit does not show in a fingerprint,    *)
(* and waits for the page to expire.)                                        *)
RowsFresh ==
  Current => Fingerprint("scores", reply.body["rows"])
               >= Fingerprint("scores", CommittedBy("rows", now - HotTTL))

(* Nothing in an answer is older than the lifetime of the page added to the *)
(* lifetime of what it was built from, although the keys do not name most   *)
(* of what the bodies hold.                                                 *)
PartsFresh ==
  Current => \A part \in DOMAIN reply.body :
    reply.body[part] >= CommittedBy(part, now - HotTTL - Handlers[reply.ep].ttl)

(* A page is only found under the fingerprint of the rows it shows, although *)
(* the rows change while it is built; where the key is made from the         *)
(* metadata the body shows (bootstrap, detail), also under that of these.    *)
PageUnderItsKey ==
  \A ep \in asked : \A rows, meta \in Versions :
    LET key == PageKey(ep, rows, meta)
    IN  key \in DOMAIN cache =>
          /\ Fingerprint("scores", cache[key].body["rows"]) = rows
          /\ Handlers[ep].keyMeta = "meta"
               => Fingerprint("metadata", cache[key].body["meta"]) = meta

(* While the database is down: an endpoint with an unexpired fallback copy  *)
(* does not answer with an error, unless it reads outside its try block.    *)
OutageServed ==
  (reply.kind = "error" /\ Handlers[reply.ep].stale)
    => \/ ~Fresh(StaleKey(reply.ep))
       \/ reply.failed = "rows" /\ ~Handlers[reply.ep].guarded

(* The cache never holds more than one entry over its limit.                *)
CacheBound == Cardinality(DOMAIN cache) <= MaxEntries + 1
=============================================================================

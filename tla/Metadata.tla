------------------------------- MODULE Metadata -------------------------------
(***************************************************************************)
(* How a process that executes run() of scorer/run.py again and again comes *)
(* by the names of the subnets: the identities of the chain, read in one    *)
(* batch by a worker thread of scorer/bittensor_client.py into a cache that *)
(* lives as long as the process, and the names of a public page, kept in a  *)
(* file for a day.  The permits of the calls are the matter of ChainCalls,  *)
(* the scores and their rows that of ScoreRuns.                             *)
(*                                                                          *)
(* The threads of a batch share a lock.  A thread whose caller has given up *)
(* goes on, in the next runs too.  The event loop and the threads interleave*)
(* at every access to the cache.                                            *)
(***************************************************************************)
EXTENDS SubnetNames

CONSTANTS
  Netuids,   \* the scored subnets
  Workers,   \* the threads of _executor
  Chain,     \* Chain[key][n]: the identity of n under the first or second storage key
  Page,      \* [Netuids -> NameOrNone]: the names on the public page
  Seed,      \* [Netuids -> NameOrNone]: data/subnet_names.json
  Override,  \* [Netuids -> NameOrNone]: data/subnet_name_overrides.json
  Rejected   \* names that are too long, or look like a payload, to be stored

Main == "run"             \* the prefetch run() itself awaits
Callers == Netuids \cup {Main}
Nobody == "nobody"

Absent == "absent"        \* no entry; NoName stands for an entry without a name

Given == [Netuids -> NameOrNone]
Entry == NameOrNone \cup {Absent}
Keys == 1..2              \* SubnetIdentitiesV2, and the older SubnetIdentities

ASSUME MetadataAssumption ==
  /\ {Page, Seed, Override} \subseteq Given
  /\ Chain \in [Keys -> [Netuids -> Entry]]
  /\ Rejected \subseteq Names
  /\ \E n \in Netuids : Page[n] # NoName
  /\ Workers # {}
  /\ Absent \notin Names
  /\ {Main, Nobody} \cap Netuids = {}

VARIABLES
  cache,    \* _identity_cache
  fetched,  \* _all_identities_fetched
  worker,   \* per thread: its batch
  pc,       \* per coroutine: where it is
  got,      \* per subnet: the identity get_subnet_identity returns
  phase,    \* where run() is
  file,     \* data/subnet_names_cache.json
  meta,     \* the names in subnet_metadata
  spoiled   \* history: a batch raised, or somebody stopped waiting for one

batch == <<cache, fetched, worker, spoiled>>
vars == <<cache, fetched, worker, pc, got, phase, file, meta, spoiled>>

Nothing == [n \in Netuids |-> NoName]
Task(at, for, key, left) == [at |-> at, for |-> for, key |-> key, left |-> left]
Free == Task("free", Nobody, 0, {})

(* The lock, held by the thread that reads the chain.                       *)
OneScan == \A v, w \in Workers : worker[v].at = "scan" /\ worker[w].at = "scan" => v = w

TypeOK ==
  /\ cache \in [Netuids -> Entry]
  /\ fetched \in BOOLEAN
  /\ worker \in [Workers -> [at : {"free", "lock", "scan"}, for : Callers \cup {Nobody},
                             key : 0..2, left : SUBSET Netuids]]
  /\ OneScan
  /\ pc \in [Callers -> {"none", "start", "permit", "queued", "batch",
                         "look", "reading", "write", "done"}]
  /\ got \in Given
  /\ phase \in {"idle", "prefetch", "refresh", "load", "gather"}
  /\ file \in [names : Given, fresh : BOOLEAN, from : {"none", "page", "seed"}]
  /\ meta \in Given
  /\ spoiled \in BOOLEAN

-----------------------------------------------------------------------------
NoFile == [names |-> Nothing, fresh |-> FALSE, from |-> "none"]
Written(names, from) == [names |-> names, fresh |-> TRUE, from |-> from]

(* A process starts with what the ones before it left on disk.              *)
Init ==
  /\ cache = [n \in Netuids |-> Absent]
  /\ fetched = FALSE
  /\ worker = [w \in Workers |-> Free]
  /\ pc = [c \in Callers |-> "none"]
  /\ got = Nothing
  /\ phase = "idle"
  /\ file \in {NoFile, Written(Page, "page"), Written(Seed, "seed")}
  /\ meta = Nothing
  /\ spoiled = FALSE

Goto(c, to) == pc' = [pc EXCEPT ![c] = to]

(* Where prefetch_all_identities returns to.                                *)
After(c) == IF c = Main THEN "done" ELSE "look"

-----------------------------------------------------------------------------
(* The batch: prefetch_all_identities and _fetch_all_identities_sync.       *)

(* Mutant of Submit: the batch is started and not awaited.                  *)
SubmitAndGoOn(c) ==
  /\ pc[c] = "permit"
  /\ Goto(c, After(c))
  /\ \E w \in Workers :
       /\ worker[w] = Free
       /\ worker' = IF fetched THEN worker ELSE [worker EXCEPT ![w].at = "lock"]
  /\ UNCHANGED <<cache, fetched, spoiled, got, phase, file, meta>>

(* With a permit, the flag is looked at again, and a thread asked for.      *)
Submit(c) ==
  /\ pc[c] = "permit"
  /\ Goto(c, IF fetched THEN After(c) ELSE "queued")
  /\ UNCHANGED <<batch, got, phase, file, meta>>

(* A free thread takes the batch and looks at the flag without the lock.    *)
Take(c, w) ==
  /\ pc[c] = "queued" /\ worker[w] = Free
  /\ IF fetched
     THEN Goto(c, After(c)) /\ UNCHANGED worker
     ELSE Goto(c, "batch") /\ worker' = [worker EXCEPT ![w] = Task("lock", c, 0, {})]
  /\ UNCHANGED <<cache, fetched, spoiled, got, phase, file, meta>>

(* The thread returns or raises, and whoever still awaits it goes on.       *)
Leave(w) ==
  /\ worker' = [worker EXCEPT ![w] = Free]
  /\ IF worker[w].for = Nobody THEN UNCHANGED pc
                               ELSE Goto(worker[w].for, After(worker[w].for))

(* A query_map: the key has entries of its own, of which some bear no name   *)
(* (and one that cannot be decoded is passed over, as if it were absent).    *)
Listed(key) == {n \in Netuids : Chain[key][n] # Absent}
Scan(w, key) == worker' = [worker EXCEPT ![w] = Task("scan", @.for, key, Listed(key))]

(* Mutants of Acquire: the lock is not waited for; the flag is not looked   *)
(* at again under the lock.                                                 *)
AcquireUnlocked(w) ==
  /\ worker[w].at = "lock"
  /\ \/ fetched /\ Leave(w) /\ UNCHANGED spoiled
     \/ ~fetched /\ Leave(w) /\ spoiled' = TRUE
     \/ ~fetched /\ Scan(w, 1) /\ UNCHANGED <<pc, spoiled>>
  /\ UNCHANGED <<cache, fetched, got, phase, file, meta>>

AcquireAnyway(w) ==
  /\ worker[w].at = "lock"
  /\ \A v \in Workers : worker[v].at # "scan"
  /\ Scan(w, 1)
  /\ UNCHANGED <<cache, fetched, spoiled, pc, got, phase, file, meta>>

(* With the lock, the thread finds the work done, or cannot connect, or     *)
(* asks for the first of the two storage keys.                              *)
Acquire(w) ==
  /\ worker[w].at = "lock"
  /\ \A v \in Workers : worker[v].at # "scan"
  /\ \/ fetched /\ Leave(w) /\ UNCHANGED spoiled
     \/ ~fetched /\ Leave(w) /\ spoiled' = TRUE
     \/ ~fetched /\ Scan(w, 1) /\ UNCHANGED <<pc, spoiled>>
  /\ UNCHANGED <<cache, fetched, got, phase, file, meta>>

(* The entries come in any order, and each is written over what is there,   *)
(* named or not.                                                            *)
Deliver(w, n) ==
  /\ worker[w].at = "scan" /\ n \in worker[w].left
  /\ cache' = [cache EXCEPT ![n] = Chain[worker[w].key][n]]
  /\ worker' = [worker EXCEPT ![w].left = @ \ {n}]
  /\ UNCHANGED <<fetched, spoiled, pc, got, phase, file, meta>>

Exhaust(w) ==
  /\ worker[w].at = "scan" /\ worker[w].left = {}
  /\ fetched' = TRUE
  /\ Leave(w)
  /\ UNCHANGED <<cache, spoiled, got, phase, file, meta>>

(* The key does not exist, or the connection breaks on the way: the second  *)
(* key is tried, and when that fails too the batch counts as done.          *)
KeyFails(w) ==
  /\ worker[w].at = "scan"
  /\ IF worker[w].key = 1
     THEN Scan(w, 2) /\ UNCHANGED <<fetched, pc>>
     ELSE fetched' = TRUE /\ Leave(w)
  /\ UNCHANGED <<cache, spoiled, got, phase, file, meta>>

(* Mutant of GiveUp: only a batch no thread has taken is given up.          *)
GiveUpQueued(c) ==
  /\ pc[c] = "queued"
  /\ Goto(c, After(c))
  /\ spoiled' = TRUE
  /\ UNCHANGED <<cache, fetched, worker, got, phase, file, meta>>

(* 120 seconds are over; the thread, if there is one, goes on.              *)
GiveUp(c) ==
  /\ pc[c] \in {"queued", "batch"}
  /\ Goto(c, After(c))
  /\ worker' = [w \in Workers |-> IF worker[w].for = c THEN [worker[w] EXCEPT !.for = Nobody]
                                                       ELSE worker[w]]
  /\ spoiled' = TRUE
  /\ UNCHANGED <<cache, fetched, got, phase, file, meta>>

-----------------------------------------------------------------------------
(* get_subnet_identity.                                                     *)
Start(n) ==
  /\ pc[n] = "start"
  /\ Goto(n, IF fetched THEN "look" ELSE "permit")
  /\ UNCHANGED <<batch, got, phase, file, meta>>

(* The cache is looked at, and once more with the permit for a thread.      *)
Look(n) ==
  /\ pc[n] = "look"
  /\ IF cache[n] = Absent
     THEN Goto(n, "reading") /\ UNCHANGED got
     ELSE Goto(n, "done") /\ got' = [got EXCEPT ![n] = cache[n]]
  /\ UNCHANGED <<batch, phase, file, meta>>

(* _fetch_identity, in a thread, looks at the cache again.                  *)
Read(n) ==
  /\ pc[n] = "reading"
  /\ \E w \in Workers : worker[w] = Free
  /\ got' = [got EXCEPT ![n] = IF cache[n] = Absent THEN NoName ELSE cache[n]]
  /\ Goto(n, "write")
  /\ UNCHANGED <<batch, phase, file, meta>>

(* The event loop takes the answer of the thread, or stops waiting for it,  *)
(* and writes what it has over what is there.                               *)
Write(n) ==
  /\ pc[n] \in {"reading", "write"}
  /\ cache' = [cache EXCEPT ![n] = got[n]]
  /\ Goto(n, "done")
  /\ UNCHANGED <<fetched, worker, spoiled, got, phase, file, meta>>

-----------------------------------------------------------------------------
(* run().                                                                   *)
Begin ==
  /\ phase = "idle"
  /\ phase' = "prefetch"
  /\ Goto(Main, IF fetched THEN "done" ELSE "permit")
  /\ UNCHANGED <<batch, got, file, meta>>

EndPrefetch ==
  /\ phase = "prefetch" /\ pc[Main] = "done"
  /\ phase' = "refresh"
  /\ Goto(Main, "none")
  /\ UNCHANGED <<batch, got, file, meta>>

(* The refresh of the external evidence asks, one after the other, for the  *)
(* identities of subnets that nothing else links to a repository.           *)
AskInRefresh(n) ==
  /\ phase = "refresh"
  /\ pc[n] = "none" /\ \A m \in Netuids : pc[m] \in {"none", "done"}
  /\ Goto(n, "start")
  /\ UNCHANGED <<batch, got, phase, file, meta>>

Refreshed(next) ==
  /\ phase = "refresh" /\ \A n \in Netuids : pc[n] \in {"none", "done"}
  /\ phase' = next
  /\ pc' = [c \in Callers |-> "none"]
  /\ got' = Nothing
  /\ UNCHANGED <<batch, file, meta>>

(* The scores are computed and saved; or the run ends here, a dry one or    *)
(* one without scores.                                                      *)
SaveScores == Refreshed("load")
ReturnEarly == Refreshed("idle")

Gather == phase' = "gather" /\ pc' = [c \in Callers |-> IF c = Main THEN "none" ELSE "start"]

(* Mutant of Usable: a file there is counts as fresh.                       *)
AnyFileUsable(f) == f.from # "none"

(* _cache_is_fresh, of a file that can be read.                             *)
Usable(f) == f.fresh

(* _load_subnet_names: a file of today is used; else the page is scraped    *)
(* into it; a page that does not answer or names nobody leaves the seed     *)
(* names in it, dated now.                                                  *)
UseFile ==
  /\ phase = "load" /\ Usable(file)
  /\ Gather
  /\ UNCHANGED <<batch, got, file, meta>>

Scrape ==
  /\ phase = "load" /\ ~Usable(file)
  /\ file' = Written(Page, "page")
  /\ Gather
  /\ UNCHANGED <<batch, got, meta>>

FallBack ==
  /\ phase = "load" /\ ~Usable(file)
  /\ file' = Written(Seed, "seed")
  /\ Gather
  /\ UNCHANGED <<batch, got, meta>>

(* Mutant of Candidates: the seed name fills in for one that is not cached. *)
CandidatesSeedForCached(n, identity) ==
  <<[source |-> "cached_consensus",
     name |-> IF file.names[n] # NoName THEN file.names[n] ELSE Seed[n]],
    [source |-> "seed_name", name |-> Seed[n]],
    [source |-> "onchain_identity", name |-> identity]>>

(* _load_subnet_name_candidates, and the identity last.                     *)
Candidates(n, identity) ==
  <<[source |-> "cached_consensus", name |-> file.names[n]],
    [source |-> "seed_name", name |-> Seed[n]],
    [source |-> "onchain_identity", name |-> identity]>>

(* _sanitize_metadata_name: a name is stored, or none is.                   *)
Sanitized(name) == IF name \in Rejected THEN NoName ELSE name

(* upsert_metadata of every scored subnet, without an await between.        *)
Upsert ==
  /\ phase = "gather" /\ \A n \in Netuids : pc[n] = "done"
  /\ meta' = [n \in Netuids |-> Sanitized(Resolve(Override[n], Candidates(n, got[n])))]
  /\ phase' = "idle"
  /\ pc' = [c \in Callers |-> "none"]
  /\ got' = Nothing
  /\ UNCHANGED <<batch, file>>

(* The file grows a day old.                                                *)
DayPasses ==
  /\ file.fresh
  /\ file' = [file EXCEPT !.fresh = FALSE]
  /\ UNCHANGED <<batch, pc, got, phase, meta>>

-----------------------------------------------------------------------------
(* The steps of the event loop, its timeouts included.                      *)
Loop ==
  \/ Begin \/ EndPrefetch \/ SaveScores \/ ReturnEarly \/ UseFile \/ Scrape \/ FallBack \/ Upsert
  \/ \E c \in Callers : Submit(c) \/ GiveUp(c)
  \/ \E n \in Netuids : AskInRefresh(n) \/ Start(n) \/ Look(n) \/ Write(n)

Thread(w) ==
  \/ \E c \in Callers : Take(c, w)
  \/ \E n \in Netuids : Deliver(w, n)
  \/ Acquire(w) \/ Exhaust(w) \/ KeyFails(w)

Next ==
  \/ Loop \/ DayPasses
  \/ \E w \in Workers : Thread(w)
  \/ \E n \in Netuids : Read(n)

(* The loop goes on whatever the threads do, which may hang for good; days  *)
(* pass; the scheduler's runs are not dry, and of its attempts some have    *)
(* scores; and a page that is asked often enough answers now and then.      *)
Fairness ==
  /\ WF_vars(Loop)
  /\ WF_vars(DayPasses)
  /\ SF_vars(SaveScores)
  /\ SF_vars(Scrape)

Spec == Init /\ [][Next]_vars /\ Fairness

-----------------------------------------------------------------------------
(* "Thread-safe; subsequent calls are no-ops": the threads that piled up    *)
(* behind a slow batch do not read the chain once more after it.            *)
NoSecondBatch == \A w \in Workers : worker[w].at = "scan" => ~fetched

(* A name in the cache is overwritten with nothing only after a batch       *)
(* raised or was given up, since get_subnet_identity, which looks at the    *)
(* cache, leaves the loop and writes afterwards, has waited for the batch;  *)
(* or else by the batch itself, when the scan of the first key breaks off   *)
(* and the second key has the subnet without a name.                        *)
NamesKept ==
  [][\A n \in Netuids :
       (cache[n] \in Names /\ cache'[n] \notin Names)
         => spoiled \/ \E w \in Workers : worker[w].key = 2 /\ Deliver(w, n)]_vars

(* A run ends although its batch hangs, holds the lock for good, and every  *)
(* thread queues up behind it (the timeouts of 120 and 90 seconds).         *)
RunsEnd == phase # "idle" ~> phase = "idle"

(* The seed names that a failed scrape leaves in the file, dated as if they *)
(* were the page's, do not stay.                                            *)
PageNamesReturn == []<>(file.from = "page")

(* A seed name alone never outranks the name on the chain, unless that is    *)
(* vague or of a placeholder's family: only what a failed scrape left in    *)
(* the file, the same name counted twice, does.  What is stored is a name   *)
(* of the chain's family, or none where that is not fit to be stored.       *)
ChainOutranksSeed ==
  [][\A n \in Netuids :
       (/\ Upsert /\ file.from = "page" /\ Override[n] = NoName
        /\ got[n] \in Names \ (Vague \cup Unnamed)
        /\ \A p \in Unnamed : <<p, got[n]>> \notin Family
        /\ file.names[n] = NoName)
         => \E name \in Names : /\ <<name, got[n]>> \in Family
                                 /\ meta'[n] = Sanitized(name)]_vars
=============================================================================

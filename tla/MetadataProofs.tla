--------------------------- MODULE MetadataProofs ---------------------------
(* The identity cache and the choice among names, for any number of subnets, *)
(* threads, runs and names, and whatever the sources call a subnet.          *)
EXTENDS Metadata, SequenceTheorems, TLAPS

Batch == [at : {"free", "lock", "scan"}, for : Callers \cup {Nobody},
          key : 0..2, left : SUBSET Netuids]
Typed ==
  /\ cache \in [Netuids -> Entry]
  /\ fetched \in BOOLEAN
  /\ worker \in [Workers -> Batch]
  /\ \A w \in Workers : worker[w].at = "scan" => worker[w].key \in Keys
  /\ pc \in [Callers -> {"none", "start", "permit", "queued", "batch",
                         "look", "reading", "write", "done"}]

(* Who is past the prefetch has been waited for, and nobody else writes an  *)
(* entry that is asked for.                                                 *)
Waited ==
  ~spoiled => \A n \in Netuids :
    /\ pc[n] \in {"look", "reading", "write"} => fetched
    /\ pc[n] \in {"reading", "write"} => cache[n] = Absent

IInv == Typed /\ got \in Given /\ OneScan /\ NoSecondBatch /\ Waited

LEMMA MainIsNoSubnet == Main \notin Netuids /\ Nobody \notin Callers /\ Netuids \subseteq Callers
BY MetadataAssumption DEF Main, Nobody, Callers

LEMMA InitIInv == Init => IInv
<1> SUFFICES ASSUME Init PROVE IInv
  OBVIOUS
<1>1. Free \in Batch /\ Free.at = "free"
  BY DEF Free, Task, Batch
<1>2. Typed
  BY <1>1 DEF Init, Typed, Entry
<1>3. got \in Given
  BY DEF Init, Given, Nothing, NameOrNone
<1>4. OneScan /\ NoSecondBatch
  BY <1>1 DEF Init, OneScan, NoSecondBatch
<1>5. Waited
  BY MainIsNoSubnet DEF Init, Waited
<1> QED
  BY <1>2, <1>3, <1>4, <1>5 DEF IInv

(* A step of run() or of a get that is not the last one.                    *)
LEMMA PcStep ==
  ASSUME IInv, got' \in Given, UNCHANGED <<cache, fetched, worker, spoiled>>,
         pc' \in [Callers -> {"none", "start", "permit", "queued", "batch",
                              "look", "reading", "write", "done"}],
         \A n \in Netuids :
           /\ pc'[n] \in {"look", "reading", "write"} =>
                fetched \/ pc[n] \in {"look", "reading", "write"}
           /\ pc'[n] \in {"reading", "write"} =>
                cache[n] = Absent \/ pc[n] \in {"reading", "write"}
  PROVE  IInv'
<1>1. Typed'
  BY DEF IInv, Typed
<1>2. OneScan' /\ NoSecondBatch'
  BY DEF IInv, OneScan, NoSecondBatch
<1>3. Waited'
  BY DEF IInv, Waited
<1> QED
  BY <1>1, <1>2, <1>3 DEF IInv

(* A thread is through: it lets go of the lock, and its caller goes on.     *)
LEMMA LeaveKeepsIInv ==
  ASSUME IInv, got' \in Given, NEW w \in Workers, Leave(w), cache' = cache, fetched' \in BOOLEAN,
         fetched => fetched',
         fetched' # fetched => worker[w].at = "scan",
         ~spoiled' => fetched' /\ ~spoiled
  PROVE  IInv'
<1>1. /\ worker' = [worker EXCEPT ![w] = Free]
      /\ \A v \in Workers : worker'[v] = IF v = w THEN Free ELSE worker[v]
  BY DEF Leave, IInv, Typed
<1>2. pc' = pc \/ \E c \in Callers : pc' = [pc EXCEPT ![c] = After(c)]
  BY DEF Leave, Goto, IInv, Typed, Batch
<1>3. Typed'
  BY <1>1, <1>2, MainIsNoSubnet DEF IInv, Typed, Batch, Free, Task, After
<1>4. OneScan'
  BY <1>1 DEF IInv, OneScan, Free, Task
<1>5. NoSecondBatch'
  <2> SUFFICES ASSUME NEW v \in Workers, worker'[v].at = "scan" PROVE ~fetched'
    BY DEF NoSecondBatch
  <2>1. v # w /\ worker[v].at = "scan"
    BY <1>1 DEF Free, Task
  <2> QED
    BY <2>1 DEF IInv, OneScan, NoSecondBatch
<1>6. Waited'
  <2> SUFFICES ASSUME ~spoiled', NEW n \in Netuids
               PROVE  /\ fetched'
                      /\ pc'[n] \in {"reading", "write"} => cache'[n] = Absent
    BY DEF Waited
  <2>1. pc'[n] \in {"reading", "write"} => pc[n] = pc'[n]
    BY <1>2, MainIsNoSubnet DEF IInv, Typed, After
  <2> QED
    BY <2>1 DEF IInv, Waited
<1> QED
  BY <1>3, <1>4, <1>5, <1>6 DEF IInv

LEMMA ScanKeepsIInv ==
  ASSUME IInv, got' \in Given, NEW w \in Workers, NEW key \in 1..2, Scan(w, key), ~fetched,
         \A v \in Workers \ {w} : worker[v].at # "scan",
         UNCHANGED <<cache, fetched, spoiled, pc>>
  PROVE  IInv'
<1>1. \A v \in Workers \ {w} : worker'[v] = worker[v]
  BY DEF Scan, IInv, Typed
<1>2. worker'[w] = Task("scan", worker[w].for, key, Listed(key))
  BY DEF Scan, IInv, Typed
<1>3. worker' \in [Workers -> Batch] /\ worker'[w].key = key
  <2>1. Listed(key) \in SUBSET Netuids /\ worker[w] \in Batch
    BY DEF Listed, IInv, Typed
  <2>2. worker'[w] \in Batch /\ worker'[w].key = key
    BY <1>2, <2>1 DEF Task, Batch
  <2>3. worker' = [worker EXCEPT ![w] = worker'[w]]
    BY <1>2 DEF Scan, IInv, Typed
  <2> QED
    BY <2>2, <2>3 DEF IInv, Typed
<1>4. Typed'
  BY <1>1, <1>3 DEF IInv, Typed, Keys
<1>5. OneScan' /\ NoSecondBatch'
  BY <1>1 DEF OneScan, NoSecondBatch
<1>6. Waited'
  BY DEF IInv, Waited
<1> QED
  BY <1>4, <1>5, <1>6 DEF IInv

LEMMA ThreadKeepsIInv ==
  ASSUME IInv, got' = got, NEW w \in Workers, Thread(w)
  PROVE  IInv'
<1>0. got \in Given /\ got' \in Given /\ fetched \in BOOLEAN
  BY DEF IInv, Typed
<1>1. ASSUME NEW c \in Callers, Take(c, w) PROVE IInv'
  <2>1. CASE fetched
    <3>1. pc' = [pc EXCEPT ![c] = After(c)] /\ UNCHANGED <<cache, fetched, worker, spoiled>>
      BY <1>1, <2>1 DEF Take, Goto
    <3> QED
      BY <2>1, <3>1, <1>0, PcStep, MainIsNoSubnet DEF IInv, Typed, After
  <2>2. CASE ~fetched
    <3>1. /\ pc' = [pc EXCEPT ![c] = "batch"]
          /\ worker' = [worker EXCEPT ![w] = Task("lock", c, 0, {})]
          /\ UNCHANGED <<cache, fetched, spoiled>>
      BY <1>1, <2>2 DEF Take, Goto
    <3>2. \A v \in Workers : worker'[v].at = "scan" => worker[v].at = "scan"
      BY <3>1 DEF IInv, Typed, Task
    <3>3. Typed'
      <4>1. Task("lock", c, 0, {}) \in Batch /\ Task("lock", c, 0, {}).at = "lock"
        BY DEF Task, Batch
      <4> DEFINE busy == Task("lock", c, 0, {})
      <4>2. \A v \in Workers : worker'[v] = IF v = w THEN busy ELSE worker[v]
        BY <3>1 DEF IInv, Typed
      <4> HIDE DEF busy
      <4>3. /\ worker' \in [Workers -> Batch]
            /\ \A v \in Workers : worker'[v].at = "scan" => worker'[v].key \in Keys
        BY <3>1, <4>1, <4>2 DEF IInv, Typed, busy
      <4> QED
        BY <3>1, <4>3 DEF IInv, Typed
    <3>4. OneScan' /\ NoSecondBatch'
      BY <3>1, <3>2 DEF IInv, OneScan, NoSecondBatch
    <3>5. Waited'
      BY <3>1, MainIsNoSubnet DEF IInv, Typed, Waited
    <3> QED
      BY <1>0, <3>3, <3>4, <3>5 DEF IInv
  <2> QED
    BY <2>1, <2>2
<1>2. ASSUME NEW n \in Netuids, Deliver(w, n) PROVE IInv'
  <2>1. /\ cache' = [cache EXCEPT ![n] = Chain[worker[w].key][n]]
        /\ worker' = [worker EXCEPT ![w].left = @ \ {n}]
        /\ UNCHANGED <<fetched, spoiled, pc>> /\ worker[w].at = "scan"
    BY <1>2 DEF Deliver
  <2>2. ~fetched
    BY <2>1 DEF IInv, NoSecondBatch
  <2>3. \A v \in Workers : worker'[v].at = worker[v].at
    BY <2>1 DEF IInv, Typed, Batch
  <2>4. /\ worker' \in [Workers -> Batch]
        /\ \A v \in Workers : worker'[v].key = worker[v].key
    BY <2>1 DEF IInv, Typed, Batch
  <2>5. cache' \in [Netuids -> Entry]
    <3>1. Chain[worker[w].key][n] \in Entry
      BY <2>1, MetadataAssumption DEF IInv, Typed
    <3> QED
      BY <2>1, <3>1 DEF IInv, Typed
  <2>6. Typed'
    BY <2>1, <2>3, <2>4, <2>5 DEF IInv, Typed
  <2>7. OneScan' /\ NoSecondBatch'
    BY <2>1, <2>3 DEF IInv, OneScan, NoSecondBatch
  <2>8. Waited'
    BY <2>1, <2>2 DEF IInv, Waited
  <2> QED
    BY <1>0, <2>6, <2>7, <2>8 DEF IInv
<1>3. CASE Acquire(w)
  <2>1. CASE fetched /\ Leave(w) /\ UNCHANGED spoiled
    BY <1>3, <2>1, <1>0, LeaveKeepsIInv DEF Acquire
  <2>2. CASE ~fetched /\ Leave(w) /\ spoiled' = TRUE
    BY <1>3, <2>2, <1>0, LeaveKeepsIInv DEF Acquire
  <2>3. CASE ~fetched /\ Scan(w, 1) /\ UNCHANGED <<pc, spoiled>>
    BY <1>3, <2>3, <1>0, ScanKeepsIInv DEF Acquire
  <2> QED
    BY <1>3, <2>1, <2>2, <2>3 DEF Acquire
<1>4. CASE Exhaust(w)
  <2>1. ~spoiled' => ~spoiled
    BY <1>4 DEF Exhaust
  <2> QED
    BY <1>4, <2>1, <1>0, LeaveKeepsIInv DEF Exhaust
<1>5. CASE KeyFails(w)
  <2>1. worker[w].at = "scan" /\ UNCHANGED <<cache, spoiled>>
    BY <1>5 DEF KeyFails
  <2>2. ~fetched /\ \A v \in Workers \ {w} : worker[v].at # "scan"
    BY <2>1 DEF IInv, OneScan, NoSecondBatch
  <2>3. CASE worker[w].key = 1
    BY <1>5, <2>1, <2>2, <2>3, <1>0, ScanKeepsIInv DEF KeyFails
  <2>4. CASE worker[w].key # 1
    <3>1. fetched' = TRUE /\ Leave(w)
      BY <1>5, <2>4 DEF KeyFails
    <3>2. ~spoiled' => ~spoiled
      BY <2>1
    <3> QED
      BY <2>1, <3>1, <3>2, <1>0, LeaveKeepsIInv DEF IInv
  <2> QED
    BY <2>3, <2>4
<1> QED
  BY <1>1, <1>2, <1>3, <1>4, <1>5 DEF Thread

LEMMA GiveUpKeepsIInv ==
  ASSUME IInv, got' = got, NEW c \in Callers, GiveUp(c)
  PROVE  IInv'
<1>1. /\ pc' = [pc EXCEPT ![c] = After(c)] /\ spoiled' = TRUE
      /\ UNCHANGED <<cache, fetched>>
      /\ worker' = [w \in Workers |->
           IF worker[w].for = c THEN [worker[w] EXCEPT !.for = Nobody] ELSE worker[w]]
  BY DEF GiveUp, Goto
<1>2. \A w \in Workers : /\ worker'[w].at = worker[w].at /\ worker'[w].key = worker[w].key
                         /\ worker'[w] \in Batch
  BY <1>1 DEF IInv, Typed, Batch
<1>3. worker' \in [Workers -> Batch]
  BY <1>1, <1>2
<1>4. Typed'
  BY <1>1, <1>2, <1>3 DEF IInv, Typed, After
<1>5. OneScan' /\ NoSecondBatch'
  BY <1>1, <1>2 DEF IInv, OneScan, NoSecondBatch
<1>6. Waited'
  BY <1>1 DEF Waited
<1> QED
  BY <1>4, <1>5, <1>6 DEF IInv

LEMMA WriteKeepsIInv ==
  ASSUME IInv, got' = got, NEW n \in Netuids, Write(n)
  PROVE  IInv'
<1>1. /\ cache' = [cache EXCEPT ![n] = got[n]] /\ pc' = [pc EXCEPT ![n] = "done"]
      /\ UNCHANGED <<fetched, worker, spoiled>>
  BY DEF Write, Goto
<1>2. Typed'
  BY <1>1 DEF IInv, Typed, Given, Entry
<1>3. OneScan' /\ NoSecondBatch'
  BY <1>1 DEF IInv, OneScan, NoSecondBatch
<1>4. Waited'
  BY <1>1, MainIsNoSubnet DEF IInv, Typed, Waited
<1> QED
  BY <1>2, <1>3, <1>4 DEF IInv

(* The steps of run() and of the gets that leave the cache alone.           *)
LEMMA LoopKeepsIInv ==
  ASSUME IInv, Loop
  PROVE  IInv'
<1> DEFINE Places == {"none", "start", "permit", "queued", "batch",
                      "look", "reading", "write", "done"}
           Quiet == UNCHANGED <<cache, fetched, worker, spoiled>>
<1>1. ASSUME Quiet, got' \in Given, NEW c \in Callers,
             NEW p \in Places \ {"look", "reading", "write"}, pc' = [pc EXCEPT ![c] = p]
      PROVE  IInv'
  BY <1>1, PcStep, MainIsNoSubnet DEF IInv, Typed
<1>2. ASSUME NEW c \in Callers, Submit(c) PROVE IInv'
  <2>1. CASE fetched
    BY <1>2, <2>1, PcStep, MainIsNoSubnet DEF Submit, Goto, IInv, Typed, After, batch
  <2>2. CASE ~fetched
    BY <1>1, <1>2, <2>2 DEF Submit, Goto, IInv, batch
  <2> QED
    BY <2>1, <2>2
<1>3. ASSUME NEW n \in Netuids, Start(n) PROVE IInv'
  <2>1. CASE fetched
    BY <1>3, <2>1, PcStep, MainIsNoSubnet DEF Start, Goto, IInv, Typed, batch
  <2>2. CASE ~fetched
    BY <1>1, <1>3, <2>2, MainIsNoSubnet DEF Start, Goto, IInv, batch
  <2> QED
    BY <2>1, <2>2
<1>4. ASSUME NEW n \in Netuids, Look(n) PROVE IInv'
  <2>1. CASE cache[n] = Absent
    <3>1. Quiet /\ got' = got /\ pc[n] = "look" /\ pc' = [pc EXCEPT ![n] = "reading"]
      BY <1>4, <2>1 DEF Look, Goto, batch
    <3> QED
      BY <2>1, <3>1, PcStep, MainIsNoSubnet DEF IInv, Typed
  <2>2. CASE cache[n] # Absent
    <3>1. Quiet /\ got' = [got EXCEPT ![n] = cache[n]] /\ pc' = [pc EXCEPT ![n] = "done"]
      BY <1>4, <2>2 DEF Look, Goto, batch
    <3>2. got' \in Given
      BY <2>2, <3>1 DEF IInv, Typed, Given, Entry
    <3> QED
      BY <1>1, <3>1, <3>2, MainIsNoSubnet
  <2> QED
    BY <2>1, <2>2
<1>5. CASE Begin
  <2>1. CASE fetched
    BY <1>1, <1>5, <2>1, MainIsNoSubnet DEF Begin, Goto, IInv, batch, Callers
  <2>2. CASE ~fetched
    BY <1>1, <1>5, <2>2, MainIsNoSubnet DEF Begin, Goto, IInv, batch, Callers
  <2> QED
    BY <2>1, <2>2
<1>6. CASE EndPrefetch
  BY <1>1, <1>6 DEF EndPrefetch, Goto, IInv, batch, Callers
<1>7. ASSUME NEW n \in Netuids, AskInRefresh(n) PROVE IInv'
  BY <1>1, <1>7, MainIsNoSubnet DEF AskInRefresh, Goto, IInv, batch
<1>8. ASSUME Quiet, got' \in Given,
             pc' \in [Callers -> Places \ {"look", "reading", "write"}]
      PROVE  IInv'
  BY <1>8, PcStep, MainIsNoSubnet DEF IInv, Typed
<1>9. Nothing \in Given
  BY DEF Nothing, Given, NameOrNone
<1>10. CASE SaveScores \/ ReturnEarly
  BY <1>8, <1>9, <1>10 DEF SaveScores, ReturnEarly, Refreshed, batch
<1>11. CASE UseFile \/ Scrape \/ FallBack
  BY <1>8, <1>11 DEF UseFile, Scrape, FallBack, Gather, IInv, batch
<1>12. CASE Upsert
  <2>1. Quiet /\ got' = Nothing /\ pc' = [c \in Callers |-> "none"]
    BY <1>12 DEF Upsert, batch
  <2> QED
    BY <1>8, <1>9, <2>1
<1>13. ASSUME NEW c \in Callers, GiveUp(c) PROVE IInv'
  BY <1>13, GiveUpKeepsIInv DEF GiveUp
<1>14. ASSUME NEW n \in Netuids, Write(n) PROVE IInv'
  BY <1>14, WriteKeepsIInv DEF Write
<1> HIDE DEF Quiet, Places
<1> QED
  BY <1>2, <1>3, <1>4, <1>5, <1>6, <1>7, <1>10, <1>11, <1>12, <1>13, <1>14 DEF Loop

LEMMA ReadKeepsIInv ==
  ASSUME IInv, NEW n \in Netuids, Read(n)
  PROVE  IInv'
<1>1. /\ pc' = [pc EXCEPT ![n] = "write"] /\ pc[n] = "reading"
      /\ UNCHANGED <<cache, fetched, worker, spoiled>>
      /\ got' = [got EXCEPT ![n] = IF cache[n] = Absent THEN NoName ELSE cache[n]]
  BY DEF Read, Goto, batch
<1>2. got' \in Given
  BY <1>1 DEF IInv, Typed, Given, NameOrNone, Entry
<1> QED
  BY <1>1, <1>2, PcStep, MainIsNoSubnet DEF IInv, Typed

LEMMA NextIInv == IInv /\ [Next]_vars => IInv'
<1> SUFFICES ASSUME IInv, [Next]_vars PROVE IInv'
  OBVIOUS
<1>1. ASSUME NEW w \in Workers, Thread(w) PROVE IInv'
  <2>1. got' = got
    BY <1>1 DEF Thread, Take, Deliver, Acquire, Exhaust, KeyFails
  <2> QED
    BY <1>1, <2>1, ThreadKeepsIInv
<1>2. CASE UNCHANGED <<cache, fetched, worker, pc, got, spoiled>>
  BY <1>2 DEF IInv, Typed, OneScan, NoSecondBatch, Waited
<1>3. CASE DayPasses
  BY <1>2, <1>3 DEF DayPasses, batch
<1> QED
  BY <1>1, <1>2, <1>3, LoopKeepsIInv, ReadKeepsIInv DEF Next, vars

LEMMA SpecIInv == Spec => []IInv
BY InitIInv, NextIInv, PTL DEF Spec

(* Threads that queue up behind a batch find its work done: the chain is     *)
(* read once, although the flag is looked at before the lock is taken.       *)
THEOREM ChainReadOnce == Spec => []NoSecondBatch
<1>1. IInv => NoSecondBatch
  BY DEF IInv
<1> QED
  BY <1>1, SpecIInv, PTL

(* A subnet that no scan has come to: no thread has read its entry yet.      *)
Unread(n) ==
  /\ ~fetched
  /\ \A w \in Workers : worker[w].at = "scan" => worker[w].key = 1 /\ n \in worker[w].left

NotYetNamed == \A n \in Netuids : Unread(n) => cache[n] \notin Names /\ got[n] \notin Names

LEMMA UnreadBefore ==
  ASSUME IInv, NEW n \in Netuids, [Next]_vars, Unread(n)'
  PROVE  Unread(n) /\ \A w \in Workers : ~Deliver(w, n)
<1>1. CASE UNCHANGED <<fetched, worker>>
  <2>1. Unread(n)
    BY <1>1 DEF Unread
  <2>2. ASSUME NEW w \in Workers, Deliver(w, n) PROVE FALSE
    <3>1. n \in worker[w].left /\ n \notin worker'[w].left
      BY <2>2 DEF Deliver, IInv, Typed, Batch
    <3> QED
      BY <1>1, <3>1
  <2> QED
    BY <2>1, <2>2
<1>2. ASSUME NEW w \in Workers, Thread(w), ~UNCHANGED <<fetched, worker>>
      PROVE  Unread(n) /\ \A v \in Workers : ~Deliver(v, n)
  <2>1. ~fetched' /\ ~fetched
    BY <1>2 DEF Unread, Thread, Take, Deliver, Acquire, Exhaust, KeyFails
  <2>2. \A v \in Workers \ {w} : worker'[v] = worker[v]
    BY <1>2 DEF Thread, Take, Deliver, Acquire, Exhaust, KeyFails, Leave, Scan, IInv, Typed
  <2>3. CASE worker[w].at # "scan"
    <3>1. Unread(n)
      BY <2>1, <2>2, <2>3 DEF Unread
    <3>2. ASSUME NEW v \in Workers, Deliver(v, n) PROVE FALSE
      <4>1. v # w
        BY <2>3, <3>2 DEF Deliver
      <4>2. n \in worker[v].left /\ n \notin worker'[v].left
        BY <3>2 DEF Deliver, IInv, Typed, Batch
      <4> QED
        BY <2>2, <4>1, <4>2
    <3> QED
      BY <3>1, <3>2
  <2>4. CASE worker[w].at = "scan"
    <3>1. CASE KeyFails(w)
      <4>1. worker'[w] = Task("scan", worker[w].for, 2, Listed(2))
        BY <2>1, <3>1 DEF KeyFails, Scan, IInv, Typed
      <4>2. worker'[w].at = "scan" /\ worker'[w].key = 2
        BY <4>1 DEF Task
      <4> QED
        BY <4>2 DEF Unread
    <3>2. CASE \E m \in Netuids : Deliver(w, m)
      <4>1. PICK m \in Netuids : Deliver(w, m)
        BY <3>2
      <4>2. /\ worker'[w].at = worker[w].at /\ worker'[w].key = worker[w].key
            /\ worker'[w].left = worker[w].left \ {m}
        BY <4>1 DEF Deliver, IInv, Typed, Batch
      <4>3. n \in worker'[w].left /\ worker'[w].key = 1
        BY <2>4, <4>2 DEF Unread
      <4>4. Unread(n)
        BY <2>1, <2>2, <4>2, <4>3 DEF Unread
      <4>5. ASSUME NEW v \in Workers, Deliver(v, n) PROVE FALSE
        <5>1. v = w
          BY <2>4, <4>5 DEF Deliver, IInv, OneScan
        <5>2. n \notin worker'[w].left
          BY <4>5, <5>1 DEF Deliver, IInv, Typed, Batch
        <5> QED
          BY <4>3, <5>2
      <4> QED
        BY <4>4, <4>5
    <3>3. worker[w] # Free
      BY <2>4 DEF Free, Task
    <3> QED
      BY <1>2, <2>1, <2>4, <3>1, <3>2, <3>3 DEF Thread, Take, Acquire, Exhaust
  <2> QED
    BY <2>3, <2>4
<1>3. ASSUME NEW c \in Callers, GiveUp(c)
      PROVE  Unread(n) /\ \A w \in Workers : ~Deliver(w, n)
  <2>1. \A w \in Workers : /\ worker'[w].at = worker[w].at /\ worker'[w].key = worker[w].key
                           /\ worker'[w].left = worker[w].left
    BY <1>3 DEF GiveUp, IInv, Typed, Batch
  <2>2. Unread(n)
    BY <1>3, <2>1 DEF GiveUp, Unread
  <2>3. ASSUME NEW w \in Workers, Deliver(w, n) PROVE FALSE
    <3>1. n \in worker[w].left /\ n \notin worker'[w].left
      BY <2>3 DEF Deliver, IInv, Typed, Batch
    <3> QED
      BY <2>1, <3>1
  <2> QED
    BY <2>2, <2>3
<1>4. CASE Loop /\ ~\E c \in Callers : GiveUp(c)
  <2>1. UNCHANGED <<fetched, worker>>
    BY <1>4 DEF Loop, batch, Submit, Start, Look, Write, Begin, EndPrefetch, AskInRefresh,
       SaveScores, ReturnEarly, Refreshed, UseFile, Scrape, FallBack, Upsert
  <2> QED
    BY <1>1, <2>1
<1>5. CASE DayPasses \/ (\E m \in Netuids : Read(m)) \/ UNCHANGED vars
  BY <1>1, <1>5 DEF DayPasses, Read, vars, batch
<1> QED
  BY <1>1, <1>2, <1>3, <1>4, <1>5 DEF Next

LEMMA SpecNotYetNamed == Spec => []NotYetNamed
<1>0. Absent \notin Names /\ NoName \notin Names
  BY MetadataAssumption, SubnetNamesAssumption
<1>1. Init => NotYetNamed
  BY <1>0 DEF Init, NotYetNamed, Nothing
<1>2. IInv /\ NotYetNamed /\ [Next]_vars => NotYetNamed'
  <2> SUFFICES ASSUME IInv, NotYetNamed, [Next]_vars, NEW n \in Netuids, Unread(n)'
               PROVE  cache'[n] \notin Names /\ got'[n] \notin Names
    BY DEF NotYetNamed
  <2>1. /\ cache[n] \notin Names /\ got[n] \notin Names
        /\ \A w \in Workers : ~Deliver(w, n)
    BY UnreadBefore DEF NotYetNamed
  <2>2. CASE UNCHANGED <<cache, got>>
    BY <2>1, <2>2
  <2>3. ASSUME NEW w \in Workers, NEW m \in Netuids, Deliver(w, m)
        PROVE  cache'[n] \notin Names /\ got'[n] \notin Names
    <3>1. m # n
      BY <2>1, <2>3
    <3>2. cache'[n] = cache[n] /\ got' = got
      BY <2>3, <3>1 DEF Deliver, IInv, Typed
    <3> QED
      BY <2>1, <3>2
  <2>4. ASSUME NEW w \in Workers, Thread(w)
        PROVE  cache'[n] \notin Names /\ got'[n] \notin Names
    <3>1. UNCHANGED <<cache, got>> \/ \E m \in Netuids : Deliver(w, m)
      BY <2>4 DEF Thread, Take, Acquire, Exhaust, KeyFails
    <3> QED
      BY <2>2, <2>3, <3>1
  <2>5. ASSUME NEW m \in Netuids, Write(m)
        PROVE  cache'[n] \notin Names /\ got'[n] \notin Names
    <3>1. cache' = [cache EXCEPT ![m] = got[m]] /\ got' = got
      BY <2>5 DEF Write
    <3>2. cache'[n] = IF m = n THEN got[n] ELSE cache[n]
      BY <3>1 DEF IInv, Typed
    <3> QED
      BY <2>1, <3>1, <3>2
  <2>6. ASSUME NEW m \in Netuids, Look(m) \/ Read(m)
        PROVE  cache'[n] \notin Names /\ got'[n] \notin Names
    <3>1. /\ UNCHANGED cache
          /\ \/ UNCHANGED got
             \/ got' = [got EXCEPT ![m] = cache[m]]
             \/ got' = [got EXCEPT ![m] = IF cache[m] = Absent THEN NoName ELSE cache[m]]
      BY <2>6 DEF Look, Read, batch
    <3>2. got'[n] \in {got[n], cache[n], NoName}
      BY <3>1 DEF IInv, Given
    <3> QED
      BY <1>0, <2>1, <3>1, <3>2
  <2>7. ASSUME UNCHANGED cache, got' = Nothing
        PROVE  cache'[n] \notin Names /\ got'[n] \notin Names
    BY <1>0, <2>1, <2>7 DEF Nothing
  <2>8. CASE SaveScores \/ ReturnEarly \/ Upsert
    BY <2>7, <2>8 DEF SaveScores, ReturnEarly, Refreshed, Upsert, batch
  <2>9. CASE /\ Loop /\ ~(SaveScores \/ ReturnEarly \/ Upsert)
             /\ ~\E m \in Netuids : Write(m) \/ Look(m)
    <3>1. UNCHANGED <<cache, got>>
      BY <2>9 DEF Loop, batch, Submit, GiveUp, Start, Begin, EndPrefetch, AskInRefresh,
         UseFile, Scrape, FallBack
    <3> QED
      BY <2>2, <3>1
  <2>10. CASE DayPasses \/ UNCHANGED vars
    BY <2>2, <2>10 DEF DayPasses, vars, batch
  <2> QED
    BY <2>4, <2>5, <2>6, <2>8, <2>9, <2>10 DEF Next
<1> QED
  BY <1>1, <1>2, SpecIInv, PTL DEF Spec

(* A name that is in the cache stays there unless a batch raised or was      *)
(* given up before, or the second storage key has an entry without it.       *)
THEOREM CachedNamesStay == Spec => NamesKept
<1> DEFINE Legacy(n) == \E w \in Workers : worker[w].key = 2 /\ Deliver(w, n)
<1>1. IInv /\ NotYetNamed /\ [Next]_vars =>
        [\A n \in Netuids : (cache[n] \in Names /\ cache'[n] \notin Names)
                             => spoiled \/ Legacy(n)]_vars
  <2> SUFFICES ASSUME IInv, NotYetNamed, [Next]_vars, NEW n \in Netuids,
                      cache[n] \in Names, cache'[n] \notin Names, ~spoiled, ~Legacy(n)
               PROVE  FALSE
    OBVIOUS
  <2>1. cache' # cache
    OBVIOUS
  <2>2. ASSUME NEW m \in Netuids, Write(m) PROVE FALSE
    <3>1. m = n
      BY <2>2 DEF Write, IInv, Typed
    <3>2. cache[n] = Absent
      BY <2>2, <3>1 DEF Write, IInv, Waited
    <3> QED
      BY <3>2, MetadataAssumption
  <2>3. ASSUME NEW w \in Workers, NEW m \in Netuids, Deliver(w, m) PROVE FALSE
    <3>1. m = n
      BY <2>3 DEF Deliver, IInv, Typed
    <3>2. worker[w].at = "scan" /\ n \in worker[w].left /\ worker[w].key \in {1, 2}
      BY <2>3, <3>1 DEF Deliver, IInv, Typed, Keys
    <3>3. worker[w].key = 1
      BY <2>3, <3>1, <3>2
    <3>4. Unread(n)
      BY <3>2, <3>3 DEF Unread, IInv, OneScan, NoSecondBatch
    <3> QED
      BY <3>4 DEF NotYetNamed
  <2>4. ASSUME NEW w \in Workers, Thread(w) PROVE FALSE
    BY <2>1, <2>3, <2>4 DEF Thread, Take, Acquire, Exhaust, KeyFails
  <2>5. CASE Loop
    BY <2>1, <2>2, <2>5 DEF Loop, batch, Submit, GiveUp, Start, Look, Begin, EndPrefetch,
       AskInRefresh, SaveScores, ReturnEarly, Refreshed, UseFile, Scrape, FallBack, Upsert
  <2> QED
    BY <2>1, <2>4, <2>5 DEF Next, vars, batch, DayPasses, Read
<1> QED
  BY <1>1, SpecIInv, SpecNotYetNamed, PTL DEF Spec, NamesKept

-----------------------------------------------------------------------------
(* The choice among the names of a subnet. The three candidates of a run     *)
(* make up to three clusters.                                                *)
Cluster == [name : Names, weight : Int, sources : Nat]
ClusterLists == {k \in Seq(Cluster) : Len(k) <= 3}
Candidate == [source : DOMAIN Weights, name : NameOrNone]

LEMMA SmallMin ==
  ASSUME NEW S \in SUBSET (1..3), S # {}
  PROVE  Min(S) \in S
<1>1. \E x \in S : \A y \in S : x <= y
  <2>1. CASE 1 \in S
    BY <2>1
  <2>2. CASE 1 \notin S /\ 2 \in S
    BY <2>2
  <2>3. CASE 1 \notin S /\ 2 \notin S
    <3>1. PICK x \in S : TRUE
      OBVIOUS
    <3>2. \A y \in S : y = 3
      BY <2>3
    <3> QED
      BY <3>1, <3>2
  <2> QED
    BY <2>1, <2>2, <2>3
<1> QED
  BY <1>1 DEF Min

LEMMA JoinedIsList ==
  ASSUME NEW k \in Seq(Cluster), Len(k) <= 2, NEW c \in Candidate
  PROVE  Joined(k, c) \in Seq(Cluster) /\ Len(Joined(k, c)) <= Len(k) + 1
<1> DEFINE kin  == {i \in DOMAIN k : <<k[i].name, c.name>> \in Family}
           more == Weights[c.source]
<1>1. more \in Int
  BY DEF Candidate, Weights
<1>2. CASE c.name = NoName
  BY <1>2 DEF Joined
<1>3. CASE c.name # NoName /\ kin = {}
  <2> DEFINE new == [name |-> c.name, weight |-> more, sources |-> 1]
  <2>1. new \in Cluster
    BY <1>1, <1>3 DEF Cluster, Candidate, NameOrNone
  <2>2. Joined(k, c) = Append(k, new)
    BY <1>3 DEF Joined
  <2> HIDE DEF new
  <2> QED
    BY <2>1, <2>2
<1>4. CASE c.name # NoName /\ kin # {}
  <2>1. kin \in SUBSET (1..3) /\ kin \subseteq DOMAIN k
    OBVIOUS
  <2> DEFINE m == Min(kin)
  <2>2. m \in DOMAIN k
    BY <1>4, <2>1, SmallMin
  <2> DEFINE new == [name |-> IF Length[c.name] > Length[k[m].name] THEN c.name ELSE k[m].name,
                     weight |-> k[m].weight + more, sources |-> k[m].sources + 1]
  <2>3. Joined(k, c) = [k EXCEPT ![m] = new]
    BY <1>4 DEF Joined
  <2>4. k[m] \in Cluster
    BY <2>2
  <2>5. new \in Cluster
    BY <1>1, <1>4, <2>4 DEF Cluster, Candidate, NameOrNone
  <2> HIDE DEF new, m
  <2>6. /\ [k EXCEPT ![m] = new] \in Seq(Cluster)
        /\ Len([k EXCEPT ![m] = new]) = Len(k)
    BY <2>2, <2>5, ExceptSeq
  <2>7. Len(k) \in Nat
    OBVIOUS
  <2> QED
    BY <2>3, <2>6, <2>7
<1> QED
  BY <1>2, <1>3, <1>4

LEMMA ListElements ==
  ASSUME NEW k \in ClusterLists
  PROVE  /\ k \in Seq(Cluster) /\ DOMAIN k \subseteq 1..3
         /\ \A i \in DOMAIN k : k[i] \in Cluster
         /\ k # <<>> => DOMAIN k # {}
<1>0. k \in Seq(Cluster) /\ Len(k) <= 3
  BY DEF ClusterLists
<1>1. Len(k) \in 0..3 /\ DOMAIN k = 1..Len(k)
  <2>1. Len(k) \in Nat /\ DOMAIN k = 1..Len(k)
    BY <1>0, LenProperties
  <2> QED
    BY <1>0, <2>1
<1>2. k # <<>> => 1 \in DOMAIN k
  BY <1>0, <1>1
<1> QED
  BY <1>0, <1>1, <1>2

(* The sort of the clusters is total: some cluster comes first.              *)
LEMMA SomeIsForemost ==
  ASSUME NEW k \in ClusterLists, NEW S \in SUBSET DOMAIN k, S # {}
  PROVE  \E i \in S : Foremost(k, S) = k[i] /\ \A j \in S \ {i} : Before(k, i, j)
<1>1. \A i \in DOMAIN k : Strength(k[i]) \in Int /\ Length[k[i].name] \in Int
  <2> SUFFICES ASSUME NEW i \in DOMAIN k
               PROVE  Strength(k[i]) \in Int /\ Length[k[i].name] \in Int
    OBVIOUS
  <2>1. k[i].name \in Names /\ k[i].weight \in Int
    BY ListElements DEF Cluster
  <2> QED
    BY <2>1, SubnetNamesAssumption DEF Strength
<1>2. DOMAIN k \subseteq 1..3
  BY ListElements
<1>3. \A i, j \in DOMAIN k : i # j => Before(k, i, j) \/ Before(k, j, i)
  BY <1>1, <1>2 DEF Before
<1>4. \A i, j, l \in DOMAIN k : Before(k, i, j) /\ Before(k, j, l) => Before(k, i, l)
  BY <1>1, <1>2 DEF Before
<1>5. \E i \in S : \A j \in S \ {i} : Before(k, i, j)
  <2>1. S \subseteq 1..3
    BY <1>2
  <2>2. PICK a \in S : TRUE
    OBVIOUS
  <2>3. PICK b \in S : b = a \/ Before(k, b, a)
    BY <2>2
  <2> QED
    BY <1>3, <1>4, <2>1
<1>6. \E i \in S : Foremost(k, S) = k[i] /\ \A j \in S \ {i} : Before(k, i, j)
  BY <1>5 DEF Foremost
<1> QED
  BY <1>6

LEMMA ElectedIsName ==
  ASSUME NEW k \in ClusterLists, k # <<>>
  PROVE  Elected(k) \in NameOrNone
<1> DEFINE trusted == {i \in DOMAIN k : k[i].name \notin Vague}
           best    == Foremost(k, DOMAIN k)
           rival   == Foremost(k, trusted)
<1>1. DOMAIN k # {} /\ \A i \in DOMAIN k : k[i].name \in Names
  BY ListElements DEF Cluster
<1>2. best.name \in Names
  BY <1>1, SomeIsForemost
<1>3. trusted # {} => rival.name \in Names
  BY <1>1, SomeIsForemost
<1> QED
  BY <1>2, <1>3 DEF Elected, NameOrNone

LEMMA JoinedThrice ==
  ASSUME NEW a \in Candidate, NEW b \in Candidate, NEW c \in Candidate
  PROVE  Joined(Joined(Joined(<<>>, a), b), c) \in ClusterLists
<1> DEFINE one == Joined(<<>>, a)
           two == Joined(one, b)
           three == Joined(two, c)
<1>1. one \in Seq(Cluster) /\ Len(one) <= 1 /\ Len(one) \in Nat
  <2> DEFINE none == <<>>
  <2>1. none \in Seq(Cluster) /\ Len(none) = 0 /\ Len(none) <= 2
    OBVIOUS
  <2> HIDE DEF none
  <2>2. Joined(none, a) \in Seq(Cluster) /\ Len(Joined(none, a)) <= Len(none) + 1
    BY <2>1, JoinedIsList
  <2>3. one = Joined(none, a)
    BY DEF none
  <2> HIDE DEF one
  <2> QED
    BY <2>1, <2>2, <2>3, LenProperties
<1> HIDE DEF one
<1>2. two \in Seq(Cluster) /\ Len(two) <= 2 /\ Len(two) \in Nat
  <2>1. two \in Seq(Cluster) /\ Len(two) <= Len(one) + 1
    BY <1>1, JoinedIsList
  <2> QED
    BY <1>1, <2>1, LenProperties
<1> HIDE DEF two
<1>3. three \in Seq(Cluster) /\ Len(three) <= 3 /\ Len(three) \in Nat
  <2>1. three \in Seq(Cluster) /\ Len(three) <= Len(two) + 1
    BY <1>2, JoinedIsList
  <2> QED
    BY <1>2, <2>1, LenProperties
<1> HIDE DEF three
<1>4. three \in ClusterLists
  BY <1>3 DEF ClusterLists
<1> QED
  BY <1>4 DEF one, two, three

LEMMA ResolvedIsName ==
  ASSUME NEW override \in NameOrNone,
         NEW a \in Candidate, NEW b \in Candidate, NEW c \in Candidate
  PROVE  Resolve(override, <<a, b, c>>) \in NameOrNone
<1> DEFINE k == Joined(Joined(Joined(<<>>, a), b), c)
<1>1. k \in ClusterLists
  BY JoinedThrice
<1>2. Resolve(override, <<a, b, c>>) =
        IF override # NoName THEN override ELSE IF k = <<>> THEN NoName ELSE Elected(k)
  BY DEF Resolve
<1> HIDE DEF k
<1> QED
  BY <1>1, <1>2, ElectedIsName DEF NameOrNone

(* What the identity cache has nothing to do with.                           *)
Files == [names : Given, fresh : BOOLEAN, from : {"none", "page", "seed"}]
RestTyped ==
  /\ phase \in {"idle", "prefetch", "refresh", "load", "gather"}
  /\ file \in Files
  /\ meta \in Given
  /\ spoiled \in BOOLEAN

LEMMA CandidatesTyped ==
  ASSUME file \in Files, NEW n \in Netuids, NEW identity \in NameOrNone
  PROVE  \E a, b, c \in Candidate : Candidates(n, identity) = <<a, b, c>>
<1> DEFINE a == [source |-> "cached_consensus", name |-> file.names[n]]
           b == [source |-> "seed_name", name |-> Seed[n]]
           c == [source |-> "onchain_identity", name |-> identity]
<1>1. a \in Candidate /\ b \in Candidate /\ c \in Candidate
  BY MetadataAssumption DEF Candidate, Weights, Files, Given
<1>2. Candidates(n, identity) = <<a, b, c>>
  BY DEF Candidates
<1> HIDE DEF a, b, c
<1> QED
  BY <1>1, <1>2

LEMMA SpecRestTyped == Spec => []RestTyped
<1>0. Nothing \in Given
  BY DEF Nothing, Given, NameOrNone
<1>1. /\ NoFile \in Files
      /\ \A names \in Given, from \in {"page", "seed"} : Written(names, from) \in Files
      /\ Page \in Given /\ Seed \in Given
  BY <1>0, MetadataAssumption DEF Files, NoFile, Written
<1>2. Init => RestTyped
  BY <1>0, <1>1 DEF Init, RestTyped
<1>3. IInv /\ RestTyped /\ [Next]_vars => RestTyped'
  <2> SUFFICES ASSUME IInv, RestTyped, [Next]_vars PROVE RestTyped'
    OBVIOUS
  <2>1. CASE UNCHANGED <<phase, file, meta>> /\ spoiled' \in BOOLEAN
    BY <2>1 DEF RestTyped
  <2>2. ASSUME NEW w \in Workers, Thread(w) PROVE RestTyped'
    BY <2>1, <2>2 DEF Thread, Take, Deliver, Acquire, Exhaust, KeyFails, RestTyped
  <2>3. CASE Upsert
    <3>1. \A n \in Netuids : Resolve(Override[n], Candidates(n, got[n])) \in NameOrNone
      <4> TAKE n \in Netuids
      <4>1. got[n] \in NameOrNone /\ Override[n] \in NameOrNone /\ file \in Files
        BY MetadataAssumption DEF IInv, RestTyped, Given
      <4> QED
        BY <4>1, CandidatesTyped, ResolvedIsName
    <3>2. meta' \in Given
      BY <2>3, <3>1 DEF Upsert, Given, Sanitized, NameOrNone
    <3> QED
      BY <2>3, <3>2 DEF Upsert, RestTyped, batch
  <2>4. CASE Scrape \/ FallBack \/ UseFile
    BY <1>1, <2>4 DEF Scrape, FallBack, UseFile, Gather, batch, RestTyped
  <2>8. CASE DayPasses
    BY <2>8 DEF DayPasses, batch, RestTyped, Files
  <2>5. CASE Begin \/ EndPrefetch \/ SaveScores \/ ReturnEarly
    BY <2>5 DEF Begin, EndPrefetch, SaveScores, ReturnEarly, Refreshed, batch, RestTyped
  <2>6. ASSUME NEW c \in Callers, Submit(c) \/ GiveUp(c) PROVE RestTyped'
    BY <2>1, <2>6 DEF Submit, GiveUp, batch, RestTyped
  <2>7. ASSUME NEW n \in Netuids,
               AskInRefresh(n) \/ Start(n) \/ Look(n) \/ Write(n) \/ Read(n)
        PROVE  RestTyped'
    BY <2>1, <2>7 DEF AskInRefresh, Start, Look, Write, Read, batch, RestTyped
  <2> QED
    BY <2>1, <2>2, <2>3, <2>4, <2>5, <2>6, <2>7, <2>8 DEF Next, Loop, vars, RestTyped
<1> QED
  BY <1>2, <1>3, SpecIInv, PTL DEF Spec

(* The caches, the file and the names of subnet_metadata keep their types:   *)
(* whatever the sources say, a subnet is given one of their names or none.   *)
THEOREM MetadataTypeOK == Spec => []TypeOK
<1>1. IInv /\ RestTyped => TypeOK
  BY DEF IInv, Typed, Batch, RestTyped, Files, TypeOK
<1> QED
  BY <1>1, SpecIInv, SpecRestTyped, PTL

(* The first name there is makes the first cluster.                          *)
LEMMA JoinedFirst ==
  ASSUME NEW c \in Candidate
  PROVE  Joined(<<>>, c) =
           IF c.name = NoName THEN <<>>
           ELSE <<[name |-> c.name, weight |-> Weights[c.source], sources |-> 1]>>
BY DEF Joined

(* A cluster without a rival is elected, unless its name is a placeholder.   *)
LEMMA ElectedAlone ==
  ASSUME NEW x \in Cluster, x.weight >= 58, x.name \notin Unnamed
  PROVE  Elected(<<x>>) = x.name
<1> DEFINE k == <<x>>
           trusted == {i \in DOMAIN k : k[i].name \notin Vague}
<1>1. k \in ClusterLists /\ DOMAIN k = {1} /\ k[1] = x
  BY DEF ClusterLists
<1> HIDE DEF k
<1>2. Foremost(k, DOMAIN k) = x
  BY <1>1, SomeIsForemost
<1>3. trusted # {} => Foremost(k, trusted) = x
  BY <1>1, SomeIsForemost
<1>4. x.weight \in Int
  BY DEF Cluster
<1>5. Elected(k) = x.name
  BY <1>2, <1>3, <1>4 DEF Elected
<1> QED
  BY <1>5 DEF k

(* Of two clusters the second is elected when its name can be trusted and    *)
(* more speaks for it.                                                       *)
LEMMA ElectedSecond ==
  ASSUME NEW x \in Cluster, NEW y \in Cluster, Strength(y) > Strength(x),
         y.weight >= 58, y.name \notin Vague \cup Unnamed
  PROVE  Elected(<<x, y>>) = y.name
<1> DEFINE k == <<x, y>>
<1>1. k \in ClusterLists /\ DOMAIN k = {1, 2} /\ k[1] = x /\ k[2] = y
  BY DEF ClusterLists
<1>2. Strength(x) \in Int /\ Strength(y) \in Int /\ y.weight \in Int
  BY DEF Strength, Cluster
<1> HIDE DEF k
<1>3. ~Before(k, 1, 2)
  BY <1>1, <1>2 DEF Before
<1>4. PICK i \in DOMAIN k : /\ Foremost(k, DOMAIN k) = k[i]
                            /\ \A j \in DOMAIN k \ {i} : Before(k, i, j)
  BY <1>1, SomeIsForemost
<1>5. i # 1
  BY <1>1, <1>3, <1>4
<1>6. Foremost(k, DOMAIN k) = y
  BY <1>1, <1>4, <1>5
<1>7. Elected(k) = y.name
  BY <1>2, <1>6 DEF Elected
<1> QED
  BY <1>7 DEF k

LEMMA Appended ==
  ASSUME NEW x \in Cluster, NEW y \in Cluster
  PROVE  Append(<<x>>, y) = <<x, y>>
<1> DEFINE one == <<x>>
           two == <<x, y>>
<1>0. one \in Seq(Cluster)
  OBVIOUS
<1>1. /\ Len(one) = 1 /\ one[1] = x
      /\ two \in Seq(Cluster) /\ Len(two) = 2 /\ two[1] = x /\ two[2] = y
  OBVIOUS
<1> HIDE DEF one, two
<1>2. Append(one, y) \in Seq(Cluster) /\ Len(Append(one, y)) = Len(one) + 1
  BY <1>0, AppendProperties, Zenon
<1>3. \A i \in 1..Len(one) : Append(one, y)[i] = one[i]
  BY <1>0, AppendProperties
<1>4. Append(one, y)[Len(one) + 1] = y
  BY <1>0, AppendProperties, Zenon
<1> DEFINE added == Append(one, y)
<1>5. added \in Seq(Cluster) /\ Len(added) = Len(one) + 1 /\ added[Len(one) + 1] = y
      /\ \A i \in 1..Len(one) : added[i] = one[i]
  BY <1>2, <1>3, <1>4
<1> HIDE DEF added
<1>6. Len(added) = 2 /\ added[1] = x /\ added[2] = y
  BY <1>1, <1>5
<1>7. added = two
  BY <1>1, <1>5, <1>6, SeqEqual
<1> QED
  BY <1>7 DEF one, two, added

LEMMA ChainBeatsSeed ==
  ASSUME NEW a \in Candidate, a.name = NoName,
         NEW b \in Candidate, b.source = "seed_name",
         NEW c \in Candidate, c.source = "onchain_identity",
         c.name \in Names \ (Vague \cup Unnamed),
         \A p \in Unnamed : <<p, c.name>> \notin Family
  PROVE  <<Resolve(NoName, <<a, b, c>>), c.name>> \in Family
<1> DEFINE k == Joined(Joined(Joined(<<>>, a), b), c)
           seed  == [name |-> b.name, weight |-> 42, sources |-> 1]
           chain == [name |-> c.name, weight |-> 82, sources |-> 1]
<1>1. <<c.name, c.name>> \in Family /\ c.name # NoName
  BY SubnetNamesAssumption
<1>2. Weights[b.source] = 42 /\ Weights[c.source] = 82
  BY DEF Weights
<1>3. Joined(<<>>, a) = <<>>
  BY JoinedFirst
<1>4. Resolve(NoName, <<a, b, c>>) = IF k = <<>> THEN NoName ELSE Elected(k)
  BY DEF Resolve
<1>5. chain \in Cluster /\ chain.name = c.name /\ chain.weight >= 58 /\ Strength(chain) = 82
  BY DEF Cluster, Strength
<1>6. CASE b.name = NoName
  <2>1. k = <<chain>>
    BY <1>1, <1>2, <1>3, <1>6, JoinedFirst
  <2> HIDE DEF k, chain
  <2>2. Elected(k) = c.name /\ k # <<>>
    BY <1>5, <2>1, ElectedAlone
  <2> QED
    BY <1>1, <1>4, <2>2
<1>7. ASSUME b.name # NoName
      PROVE  seed \in Cluster /\ seed.name = b.name /\ Strength(seed) = 42
             /\ k = Joined(<<seed>>, c)
  <2>1. seed \in Cluster
    BY <1>7 DEF Cluster, Candidate, NameOrNone
  <2>2. Joined(Joined(<<>>, a), b) = <<seed>>
    BY <1>2, <1>3, <1>7, JoinedFirst
  <2> QED
    BY <2>1, <2>2 DEF Strength
<1>8. CASE b.name # NoName /\ <<b.name, c.name>> \in Family
  <2> DEFINE longer == IF Length[c.name] > Length[b.name] THEN c.name ELSE b.name
             both == [name |-> longer, weight |-> 124, sources |-> 2]
             list == <<seed>>
  <2>1. longer \in Names /\ <<longer, c.name>> \in Family
    BY <1>1, <1>8 DEF Candidate, NameOrNone
  <2>2. both \in Cluster /\ both.weight >= 58 /\ both.name \notin Unnamed /\ both.name = longer
    BY <2>1 DEF Cluster
  <2>3. {i \in DOMAIN list : <<list[i].name, c.name>> \in Family} = {1}
    BY <1>8
  <2>4. Min({1}) = 1
    BY SmallMin
  <2>5. Joined(list, c) = <<both>>
    <3>1. list[1] = seed /\ [list EXCEPT ![1] = both] = <<both>>
      OBVIOUS
    <3>2. seed.name = b.name /\ seed.weight = 42 /\ seed.sources = 1
      OBVIOUS
    <3> HIDE DEF list, seed
    <3>3. Joined(list, c) =
            [list EXCEPT ![1] = [name |-> IF Length[c.name] > Length[list[1].name]
                                          THEN c.name ELSE list[1].name,
                                 weight |-> list[1].weight + 82,
                                 sources |-> list[1].sources + 1]]
      <4>1. {1} # {}
        OBVIOUS
      <4> QED
        BY <1>1, <1>2, <2>3, <2>4, <4>1 DEF Joined
    <3> QED
      BY <3>1, <3>2, <3>3
  <2> HIDE DEF k, both, longer
  <2>6. Elected(k) = longer /\ k # <<>>
    BY <1>7, <1>8, <2>2, <2>5, ElectedAlone
  <2> QED
    BY <1>4, <2>1, <2>6
<1>9. CASE b.name # NoName /\ <<b.name, c.name>> \notin Family
  <2> DEFINE list == <<seed>>
  <2>1. {i \in DOMAIN list : <<list[i].name, c.name>> \in Family} = {}
    BY <1>9
  <2>2. \A x, y \in Cluster : Append(<<x>>, y) = <<x, y>>
    BY Appended
  <2> HIDE DEF list
  <2>3. Joined(list, c) = <<seed, chain>>
    <3>1. Joined(list, c) = Append(list, chain)
      BY <1>1, <1>2, <2>1 DEF Joined
    <3> HIDE DEF seed, chain
    <3> QED
      BY <1>5, <1>7, <1>9, <2>2, <3>1 DEF list
  <2> HIDE DEF k, seed, chain
  <2>4. k = <<seed, chain>>
    BY <1>7, <1>9, <2>3 DEF list
  <2>5. Elected(<<seed, chain>>) = chain.name
    BY <1>5, <1>7, <1>9, ElectedSecond
  <2>6. k # <<>>
    BY <2>4
  <2> QED
    BY <1>1, <1>4, <1>5, <2>4, <2>5, <2>6
<1> QED
  BY <1>6, <1>8, <1>9

(* A seed name alone never outranks the name on the chain: the subnet gets   *)
(* that name or one of its family, or none where that is rejected, unless it *)
(* is vague or a placeholder's relative, whatever the sources call it.       *)
THEOREM ChainNamesOutrankSeeds == Spec => ChainOutranksSeed
<1>1. IInv /\ RestTyped =>
        \A n \in Netuids :
          (/\ Upsert /\ file.from = "page" /\ Override[n] = NoName
           /\ got[n] \in Names \ (Vague \cup Unnamed)
           /\ \A p \in Unnamed : <<p, got[n]>> \notin Family
           /\ file.names[n] = NoName)
            => \E name \in Names : /\ <<name, got[n]>> \in Family
                                    /\ meta'[n] = Sanitized(name)
  <2> SUFFICES ASSUME IInv, RestTyped, NEW n \in Netuids,
                      Upsert, Override[n] = NoName, file.names[n] = NoName,
                      got[n] \in Names \ (Vague \cup Unnamed),
                      \A p \in Unnamed : <<p, got[n]>> \notin Family
               PROVE  \E name \in Names : <<name, got[n]>> \in Family /\ meta'[n] = Sanitized(name)
    OBVIOUS
  <2> DEFINE a == [source |-> "cached_consensus", name |-> file.names[n]]
             b == [source |-> "seed_name", name |-> Seed[n]]
             c == [source |-> "onchain_identity", name |-> got[n]]
  <2>1. a \in Candidate /\ b \in Candidate /\ c \in Candidate
    BY MetadataAssumption DEF Candidate, Weights, NameOrNone, Given
  <2>2. meta'[n] = Sanitized(Resolve(NoName, <<a, b, c>>))
    BY DEF Upsert, Candidates
  <2>3. a.name = NoName /\ b.source = "seed_name" /\ c.source = "onchain_identity"
        /\ c.name = got[n]
    OBVIOUS
  <2> HIDE DEF a, b, c
  <2>4. <<Resolve(NoName, <<a, b, c>>), got[n]>> \in Family
    BY <2>1, <2>3, ChainBeatsSeed
  <2>5. Resolve(NoName, <<a, b, c>>) \in Names
    BY <2>4, SubnetNamesAssumption
  <2> QED
    BY <2>2, <2>4, <2>5
<1> QED
  BY <1>1, SpecIInv, SpecRestTyped, PTL DEF ChainOutranksSeed

-----------------------------------------------------------------------------
(* What is behind the end of every run, which under fairness is a property  *)
(* of the runs only (RunsEnd): the order in which a run goes through its    *)
(* phases, and a coroutine through its places.                              *)
PhaseRank == [idle |-> 0, prefetch |-> 1, refresh |-> 2, load |-> 3, gather |-> 4]
PlaceRank == [none |-> 0, start |-> 1, permit |-> 2, queued |-> 3, batch |-> 4,
              look |-> 5, reading |-> 6, write |-> 7, done |-> 8]
Places == {"none", "start", "permit", "queued", "batch", "look", "reading", "write", "done"}

PhaseMovesOn == phase' = "idle" \/ PhaseRank[phase'] > PhaseRank[phase]
NobodyGoesBack ==
  phase' = phase /\ \A c \in Callers : PlaceRank[pc'[c]] >= PlaceRank[pc[c]]
SomebodyGoesOn == \E c \in Callers : PlaceRank[pc'[c]] > PlaceRank[pc[c]]

(* No thread, no timeout and no failed call sends a run back: while it      *)
(* lasts, each step of the event loop takes the run to a later phase or a   *)
(* coroutine to a later place, and no other step undoes that. A run is over *)
(* after at most eight such steps of each coroutine in each of its phases.  *)
RunMovesOn ==
  [][phase # "idle" => \/ PhaseMovesOn
                       \/ NobodyGoesBack /\ (Loop => SomebodyGoesOn)]_vars

(* And the loop never waits for a thread: while a run lasts, it has a step. *)
LoopHasAStep ==
  phase # "idle" =>
    \/ phase = "prefetch" /\ pc[Main] = "done"
    \/ phase = "refresh" /\ \A n \in Netuids : pc[n] \in {"none", "done"}
    \/ phase = "load"
    \/ phase = "gather" /\ \A n \in Netuids : pc[n] = "done"
    \/ \E c \in Callers : pc[c] \in {"permit", "queued", "batch"}
    \/ \E n \in Netuids : pc[n] \in {"start", "look", "reading", "write"}

(* Where the coroutines are in each phase, and whom the threads work for.   *)
Placed ==
  /\ phase \in {"idle", "load"} => \A c \in Callers : pc[c] = "none"
  /\ phase = "prefetch" => /\ pc[Main] \in {"permit", "queued", "batch", "done"}
                           /\ \A n \in Netuids : pc[n] = "none"
  /\ phase \in {"refresh", "gather"} => pc[Main] = "none"
  /\ phase = "gather" => \A n \in Netuids : pc[n] # "none"

Awaited ==
  /\ \A w \in Workers : worker[w].for \in Callers => pc[worker[w].for] = "batch"
  /\ \A v, w \in Workers :
       worker[v].for \in Callers /\ worker[v].for = worker[w].for => v = w

InPlace == Placed /\ Awaited

LEMMA WhoCalls ==
  Main \in Callers /\ Main \notin Netuids /\ \A c \in Callers : c = Main \/ c \in Netuids
BY MetadataAssumption DEF Main, Callers

(* A coroutine goes on within a phase.                                      *)
LEMMA GoesOn ==
  ASSUME Typed, Placed, NEW c \in Callers, NEW p \in Places, pc' = [pc EXCEPT ![c] = p],
         phase' = phase, pc[c] # "none", c = Main => p \in {"queued", "batch", "done"},
         PlaceRank[p] > PlaceRank[pc[c]]
  PROVE  Placed' /\ NobodyGoesBack /\ SomebodyGoesOn
<1>1. /\ pc'[c] = p /\ \A d \in Callers \ {c} : pc'[d] = pc[d]
      /\ \A d \in Callers : pc[d] \in Places
  BY DEF Typed, Places
<1>2. \A q \in Places : PlaceRank[q] \in 0..8
  BY DEF Places, PlaceRank
<1>3. p # "none"
  BY <1>1, <1>2 DEF PlaceRank
<1>4. Placed'
  BY <1>1, <1>3, WhoCalls DEF Placed
<1>5. \A d \in Callers : PlaceRank[pc'[d]] >= PlaceRank[pc[d]]
  BY <1>1, <1>2
<1>6. \E d \in Callers : PlaceRank[pc'[d]] > PlaceRank[pc[d]]
  BY <1>1
<1> QED
  BY <1>4, <1>5, <1>6 DEF NobodyGoesBack, SomebodyGoesOn

LEMMA Ranked ==
  /\ PlaceRank["none"] = 0 /\ PlaceRank["start"] = 1 /\ PlaceRank["permit"] = 2
  /\ PlaceRank["queued"] = 3 /\ PlaceRank["batch"] = 4 /\ PlaceRank["look"] = 5
  /\ PlaceRank["reading"] = 6 /\ PlaceRank["write"] = 7 /\ PlaceRank["done"] = 8
BY DEF PlaceRank

LEMMA StaysInPlace ==
  ASSUME Typed, Placed, pc' = pc, phase' = phase
  PROVE  Placed' /\ NobodyGoesBack
<1>1. \A c \in Callers : PlaceRank[pc[c]] \in Int
  BY DEF Typed, PlaceRank
<1> QED
  BY <1>1 DEF Placed, NobodyGoesBack

(* Threads keep working for who awaits them.                                *)
LEMMA AwaitedElsewhere ==
  ASSUME Typed, Awaited, worker' = worker, NEW c \in Callers, pc[c] # "batch",
         NEW p, pc' = [pc EXCEPT ![c] = p]
  PROVE  Awaited'
BY DEF Typed, Awaited

LEMMA NobodyAwaits ==
  ASSUME Awaited, worker' = worker, \A c \in Callers : pc[c] # "batch"
  PROVE  Awaited'
BY DEF Awaited

LEMMA LeaveMoves ==
  ASSUME Typed, InPlace, NEW w \in Workers, Leave(w), phase' = phase
  PROVE  InPlace' /\ NobodyGoesBack
<1> DEFINE c == worker[w].for
<1>1. /\ \A v \in Workers : worker'[v] = IF v = w THEN Free ELSE worker[v]
      /\ Free.for = Nobody /\ Nobody \notin Callers /\ c \in Callers \cup {Nobody}
  BY MainIsNoSubnet DEF Leave, Typed, Batch, Free, Task
<1>2. CASE c = Nobody
  <2>1. pc' = pc
    BY <1>2 DEF Leave
  <2>2. Awaited'
    BY <1>1, <2>1 DEF InPlace, Awaited
  <2> QED
    BY <2>1, <2>2, StaysInPlace DEF InPlace
<1>3. CASE c # Nobody
  <2>1. c \in Callers /\ pc[c] = "batch" /\ pc' = [pc EXCEPT ![c] = After(c)]
    BY <1>1, <1>3 DEF Leave, Goto, InPlace, Awaited
  <2>2. \A v \in Workers \ {w} : worker[v].for # c
    BY <2>1 DEF InPlace, Awaited
  <2>3. \A d \in Callers \ {c} : pc'[d] = pc[d]
    BY <2>1 DEF Typed
  <2> HIDE DEF c
  <2>4. Awaited'
    <3>1. ASSUME NEW v \in Workers, worker'[v].for \in Callers
          PROVE  v # w /\ worker'[v] = worker[v] /\ pc'[worker'[v].for] = "batch"
      <4>1. v # w /\ worker'[v] = worker[v]
        BY <1>1, <3>1
      <4>2. worker[v].for # c /\ pc[worker[v].for] = "batch"
        BY <2>2, <3>1, <4>1 DEF InPlace, Awaited
      <4> QED
        BY <2>3, <3>1, <4>1, <4>2
    <3>2. \A u, v \in Workers :
            worker'[u].for \in Callers /\ worker'[u].for = worker'[v].for => u = v
      BY <3>1 DEF InPlace, Awaited
    <3> QED
      BY <3>1, <3>2 DEF Awaited
  <2>5. Placed' /\ NobodyGoesBack
    <3>1. /\ After(c) \in Places /\ PlaceRank[After(c)] > PlaceRank[pc[c]]
          /\ c = Main => After(c) = "done"
      BY <2>1, Ranked DEF After, Places
    <3> QED
      BY <2>1, <3>1, GoesOn DEF InPlace
  <2> QED
    BY <2>4, <2>5 DEF InPlace
<1> QED
  BY <1>2, <1>3

(* A thread whose batch changes and whose caller does not.                  *)
LEMMA BatchMoves ==
  ASSUME Typed, InPlace, pc' = pc, phase' = phase,
         \A v \in Workers : worker'[v].for = worker[v].for
  PROVE  InPlace' /\ NobodyGoesBack
<1>1. Awaited'
  BY DEF InPlace, Awaited
<1> QED
  BY <1>1, StaysInPlace DEF InPlace

LEMMA ThreadMoves ==
  ASSUME IInv, InPlace, NEW w \in Workers, Thread(w)
  PROVE  InPlace' /\ NobodyGoesBack
<1>0. Typed /\ phase' = phase
  BY DEF IInv, Thread, Take, Deliver, Acquire, Exhaust, KeyFails
<1>1. ASSUME NEW c \in Callers, Take(c, w)
      PROVE  InPlace' /\ NobodyGoesBack
  <2>1. pc[c] = "queued" /\ worker[w] = Free
    BY <1>1 DEF Take
  <2>2. CASE fetched
    <3>1. pc' = [pc EXCEPT ![c] = After(c)] /\ worker' = worker
      BY <1>1, <2>2 DEF Take, Goto
    <3>2. /\ After(c) \in Places /\ PlaceRank[After(c)] > PlaceRank[pc[c]]
          /\ c = Main => After(c) = "done"
      BY <2>1, Ranked DEF After, Places
    <3>3. Placed' /\ NobodyGoesBack
      BY <1>0, <2>1, <3>1, <3>2, GoesOn DEF InPlace
    <3>4. Awaited'
      BY <1>0, <2>1, <3>1, AwaitedElsewhere DEF InPlace
    <3> QED
      BY <3>3, <3>4 DEF InPlace
  <2>3. CASE ~fetched
    <3>1. pc' = [pc EXCEPT ![c] = "batch"] /\ worker' = [worker EXCEPT ![w] = Task("lock", c, 0, {})]
      BY <1>1, <2>3 DEF Take, Goto
    <3>2. "batch" \in Places /\ PlaceRank["batch"] > PlaceRank[pc[c]]
      BY <2>1, Ranked DEF Places
    <3>3. Placed' /\ NobodyGoesBack
      BY <1>0, <2>1, <3>1, <3>2, GoesOn DEF InPlace
    <3>4. /\ worker'[w].for = c /\ \A v \in Workers \ {w} : worker'[v].for = worker[v].for
          /\ pc'[c] = "batch" /\ \A d \in Callers \ {c} : pc'[d] = pc[d]
      BY <1>0, <3>1 DEF Typed, Task
    <3>5. \A v \in Workers : worker[v].for # c
      BY <2>1 DEF InPlace, Awaited
    <3>6. Awaited'
      BY <3>4, <3>5 DEF InPlace, Awaited
    <3> QED
      BY <3>3, <3>6 DEF InPlace
  <2> QED
    BY <2>2, <2>3
<1>2. ASSUME NEW n \in Netuids, Deliver(w, n)
      PROVE  InPlace' /\ NobodyGoesBack
  <2>1. pc' = pc /\ worker' = [worker EXCEPT ![w].left = @ \ {n}]
    BY <1>2 DEF Deliver
  <2>2. \A v \in Workers : worker'[v].for = worker[v].for
    BY <1>0, <2>1 DEF Typed, Batch
  <2> QED
    BY <1>0, <2>1, <2>2, BatchMoves
<1>3. ASSUME NEW key, Scan(w, key), pc' = pc
      PROVE  InPlace' /\ NobodyGoesBack
  <2>1. \A v \in Workers : worker'[v].for = worker[v].for
    BY <1>0, <1>3 DEF Scan, Task, Typed
  <2> QED
    BY <1>0, <1>3, <2>1, BatchMoves
<1>4. CASE Acquire(w)
  <2>1. Leave(w) \/ (Scan(w, 1) /\ pc' = pc)
    BY <1>4 DEF Acquire
  <2> QED
    BY <1>0, <1>3, <2>1, LeaveMoves
<1>5. CASE Exhaust(w)
  BY <1>0, <1>5, LeaveMoves DEF Exhaust
<1>6. CASE KeyFails(w)
  <2>1. Leave(w) \/ (Scan(w, 2) /\ pc' = pc)
    BY <1>6 DEF KeyFails
  <2> QED
    BY <1>0, <1>3, <2>1, LeaveMoves
<1> QED
  BY <1>1, <1>2, <1>4, <1>5, <1>6 DEF Thread

LEMMA ReadMoves ==
  ASSUME IInv, InPlace, NEW n \in Netuids, Read(n)
  PROVE  InPlace' /\ NobodyGoesBack
<1>1. /\ Typed /\ n \in Callers /\ n # Main /\ pc[n] = "reading"
      /\ pc' = [pc EXCEPT ![n] = "write"] /\ phase' = phase /\ worker' = worker
  BY MainIsNoSubnet DEF IInv, Read, Goto, batch
<1>2. "write" \in Places /\ PlaceRank["write"] > PlaceRank[pc[n]]
  BY <1>1, Ranked DEF Places
<1>3. Placed' /\ NobodyGoesBack
  BY <1>1, <1>2, GoesOn DEF InPlace
<1>4. Awaited'
  BY <1>1, AwaitedElsewhere DEF InPlace
<1> QED
  BY <1>3, <1>4 DEF InPlace

LEMMA LoopMoves ==
  ASSUME IInv, InPlace, Loop
  PROVE  InPlace' /\ (PhaseMovesOn \/ (NobodyGoesBack /\ SomebodyGoesOn))
<1> DEFINE Goal == InPlace' /\ (PhaseMovesOn \/ (NobodyGoesBack /\ SomebodyGoesOn))
<1>0. Typed /\ Placed /\ Awaited /\ DOMAIN pc = Callers
  BY DEF IInv, InPlace, Typed
<1>1. ASSUME NEW c \in Callers, NEW p \in Places, pc' = [pc EXCEPT ![c] = p], phase' = phase,
             worker' = worker, pc[c] # "none", pc[c] # "batch",
             c = Main => p \in {"queued", "batch", "done"}, PlaceRank[p] > PlaceRank[pc[c]]
      PROVE  Goal
  <2>1. Placed' /\ NobodyGoesBack /\ SomebodyGoesOn
    BY <1>0, <1>1, GoesOn
  <2>2. Awaited'
    BY <1>0, <1>1, AwaitedElsewhere
  <2> QED
    BY <2>1, <2>2 DEF InPlace
<1>2. ASSUME NEW c \in Callers, Submit(c) PROVE Goal
  <2>1. /\ pc[c] = "permit" /\ phase' = phase /\ worker' = worker
        /\ pc' = [pc EXCEPT ![c] = IF fetched THEN After(c) ELSE "queued"]
    BY <1>2 DEF Submit, Goto, batch
  <2> DEFINE p == IF fetched THEN After(c) ELSE "queued"
  <2>2. /\ p \in Places /\ PlaceRank[p] > PlaceRank[pc[c]]
        /\ c = Main => p \in {"queued", "batch", "done"}
    BY <2>1, Ranked DEF After, Places
  <2> QED
    BY <1>1, <2>1, <2>2
<1>3. ASSUME NEW c \in Callers, GiveUp(c) PROVE Goal
  <2>1. /\ pc[c] \in {"queued", "batch"} /\ phase' = phase
        /\ pc' = [pc EXCEPT ![c] = After(c)]
        /\ worker' = [w \in Workers |->
             IF worker[w].for = c THEN [worker[w] EXCEPT !.for = Nobody] ELSE worker[w]]
    BY <1>3 DEF GiveUp, Goto
  <2>2. /\ After(c) \in Places /\ PlaceRank[After(c)] > PlaceRank[pc[c]]
        /\ c = Main => After(c) = "done"
    BY <2>1, Ranked DEF After, Places
  <2>3. Placed' /\ NobodyGoesBack /\ SomebodyGoesOn
    BY <1>0, <2>1, <2>2, GoesOn
  <2>4. /\ \A d \in Callers \ {c} : pc'[d] = pc[d]
        /\ \A w \in Workers : worker'[w].for = IF worker[w].for = c THEN Nobody ELSE worker[w].for
    BY <1>0, <2>1 DEF Typed, Batch
  <2>5. Awaited'
    <3>1. \A w \in Workers :
            worker'[w].for \in Callers => worker'[w].for = worker[w].for /\ worker[w].for # c
      BY <2>4, MainIsNoSubnet
    <3> QED
      BY <1>0, <2>4, <3>1 DEF Awaited
  <2> QED
    BY <2>3, <2>5 DEF InPlace
<1>4. ASSUME NEW n \in Netuids, Start(n) \/ Look(n) \/ Write(n) PROVE Goal
  <2>1. /\ n \in Callers /\ n # Main /\ phase' = phase /\ worker' = worker
        /\ \E p \in Places : pc' = [pc EXCEPT ![n] = p] /\ PlaceRank[p] > PlaceRank[pc[n]]
        /\ pc[n] # "none" /\ pc[n] # "batch"
    BY <1>4, MainIsNoSubnet, Ranked DEF Start, Look, Write, Goto, batch, Places
  <2> QED
    BY <1>1, <2>1
<1>5. CASE Begin
  <2>1. /\ phase = "idle" /\ phase' = "prefetch" /\ worker' = worker
        /\ \A c \in Callers : pc[c] = "none"
        /\ pc' = [pc EXCEPT ![Main] = IF fetched THEN "done" ELSE "permit"]
    BY <1>0, <1>5 DEF Begin, Goto, batch, Placed
  <2>2. Awaited'
    BY <1>0, <2>1, NobodyAwaits
  <2>3. Placed'
    BY <1>0, <2>1, WhoCalls, MainIsNoSubnet DEF Placed
  <2>4. PhaseMovesOn
    BY <2>1 DEF PhaseMovesOn, PhaseRank
  <2> QED
    BY <2>2, <2>3, <2>4 DEF InPlace
<1>6. CASE EndPrefetch
  <2>1. /\ phase = "prefetch" /\ phase' = "refresh" /\ worker' = worker
        /\ pc[Main] = "done" /\ pc' = [pc EXCEPT ![Main] = "none"]
    BY <1>6 DEF EndPrefetch, Goto, batch
  <2>2. Awaited'
    BY <1>0, <2>1, WhoCalls, AwaitedElsewhere
  <2>3. Placed'
    BY <1>0, <2>1, WhoCalls DEF Placed
  <2>4. PhaseMovesOn
    BY <2>1 DEF PhaseMovesOn, PhaseRank
  <2> QED
    BY <2>2, <2>3, <2>4 DEF InPlace
<1>7. ASSUME NEW n \in Netuids, AskInRefresh(n) PROVE Goal
  <2>1. /\ n \in Callers /\ n # Main /\ phase = "refresh" /\ phase' = phase /\ worker' = worker
        /\ pc[n] = "none" /\ pc' = [pc EXCEPT ![n] = "start"]
    BY <1>7, MainIsNoSubnet DEF AskInRefresh, Goto, batch
  <2>2. Awaited'
    BY <1>0, <2>1, AwaitedElsewhere
  <2>3. pc'[n] = "start" /\ \A d \in Callers \ {n} : pc'[d] = pc[d]
    BY <1>0, <2>1
  <2>4. Placed'
    BY <1>0, <2>1, <2>3, WhoCalls DEF Placed
  <2>5. \A d \in Callers : PlaceRank[pc[d]] \in Int
    BY <1>0 DEF Typed, PlaceRank
  <2>6. NobodyGoesBack /\ SomebodyGoesOn
    BY <2>1, <2>3, <2>5, Ranked DEF NobodyGoesBack, SomebodyGoesOn
  <2> QED
    BY <2>2, <2>4, <2>6 DEF InPlace
<1>8. CASE SaveScores \/ ReturnEarly
  <2>1. /\ phase = "refresh" /\ phase' \in {"load", "idle"} /\ worker' = worker
        /\ pc' = [c \in Callers |-> "none"] /\ \A n \in Netuids : pc[n] \in {"none", "done"}
    BY <1>8 DEF SaveScores, ReturnEarly, Refreshed, batch
  <2>2. \A c \in Callers : pc[c] # "batch"
    BY <1>0, <2>1, WhoCalls DEF Placed
  <2>3. Awaited' /\ Placed'
    BY <1>0, <2>1, <2>2, NobodyAwaits DEF Placed
  <2>4. PhaseMovesOn
    BY <2>1 DEF PhaseMovesOn, PhaseRank
  <2> QED
    BY <2>3, <2>4 DEF InPlace
<1>9. CASE UseFile \/ Scrape \/ FallBack
  <2>1. /\ phase = "load" /\ phase' = "gather" /\ worker' = worker
        /\ pc' = [c \in Callers |-> IF c = Main THEN "none" ELSE "start"]
    BY <1>9 DEF UseFile, Scrape, FallBack, Gather, batch
  <2>2. \A c \in Callers : pc[c] # "batch"
    BY <1>0, <2>1 DEF Placed
  <2>3. Awaited' /\ Placed'
    BY <1>0, <2>1, <2>2, NobodyAwaits, WhoCalls, MainIsNoSubnet DEF Placed
  <2>4. PhaseMovesOn
    BY <2>1 DEF PhaseMovesOn, PhaseRank
  <2> QED
    BY <2>3, <2>4 DEF InPlace
<1>10. CASE Upsert
  <2>1. /\ phase = "gather" /\ phase' = "idle" /\ worker' = worker
        /\ pc' = [c \in Callers |-> "none"] /\ \A n \in Netuids : pc[n] = "done"
    BY <1>10 DEF Upsert, batch
  <2>2. \A c \in Callers : pc[c] # "batch"
    BY <1>0, <2>1, WhoCalls DEF Placed
  <2>3. Awaited' /\ Placed'
    BY <1>0, <2>1, <2>2, NobodyAwaits DEF Placed
  <2> QED
    BY <2>1, <2>3 DEF InPlace, PhaseMovesOn
<1> QED
  BY <1>2, <1>3, <1>4, <1>5, <1>6, <1>7, <1>8, <1>9, <1>10 DEF Loop

LEMMA StepMoves ==
  ASSUME IInv, InPlace, [Next]_vars
  PROVE  /\ InPlace'
         /\ Next => PhaseMovesOn \/ (NobodyGoesBack /\ (Loop => SomebodyGoesOn))
<1>1. CASE Loop
  BY <1>1, LoopMoves
<1>2. ASSUME NEW w \in Workers, Thread(w)
      PROVE  InPlace' /\ NobodyGoesBack
  BY <1>2, ThreadMoves
<1>3. ASSUME NEW n \in Netuids, Read(n)
      PROVE  InPlace' /\ NobodyGoesBack
  BY <1>3, ReadMoves
<1>4. ASSUME DayPasses
      PROVE  InPlace' /\ NobodyGoesBack
  <2>1. Typed /\ pc' = pc /\ phase' = phase /\ worker' = worker
    BY <1>4 DEF DayPasses, batch, IInv
  <2> QED
    BY <2>1, BatchMoves
<1>5. ASSUME UNCHANGED vars
      PROVE  InPlace' /\ NobodyGoesBack
  <2>1. Typed /\ pc' = pc /\ phase' = phase /\ worker' = worker
    BY <1>5 DEF vars, IInv
  <2> QED
    BY <2>1, BatchMoves
<1>6. CASE ~Loop
  <2>1. InPlace' /\ NobodyGoesBack
    BY <1>2, <1>3, <1>4, <1>5, <1>6 DEF Next
  <2> QED
    BY <1>6, <2>1
<1> QED
  BY <1>1, <1>6

LEMMA SpecInPlace == Spec => []InPlace
<1>1. Init => InPlace
  <2> SUFFICES ASSUME Init PROVE InPlace
    OBVIOUS
  <2>1. \A w \in Workers : worker[w].for = Nobody
    BY DEF Init, Free, Task
  <2>2. Nobody \notin Callers
    BY MainIsNoSubnet
  <2> QED
    BY <2>1, <2>2 DEF Init, InPlace, Placed, Awaited
<1> QED
  BY <1>1, SpecIInv, StepMoves, PTL DEF Spec

THEOREM RunsMoveOn == Spec => RunMovesOn
<1>1. IInv /\ InPlace /\ [Next]_vars =>
        [phase # "idle" => \/ PhaseMovesOn
                           \/ NobodyGoesBack /\ (Loop => SomebodyGoesOn)]_vars
  BY StepMoves
<1> QED
  BY <1>1, SpecIInv, SpecInPlace, PTL DEF Spec, RunMovesOn

THEOREM LoopNeverWaits == Spec => []LoopHasAStep
<1>1. TypeOK /\ InPlace => LoopHasAStep
  <2> SUFFICES ASSUME TypeOK, InPlace, phase # "idle"
               PROVE  LoopHasAStep
    BY DEF LoopHasAStep
  <2>1. /\ phase \in {"prefetch", "refresh", "load", "gather"}
        /\ \A c \in Callers : pc[c] \in Places
    BY DEF TypeOK, Places
  <2>2. CASE phase = "prefetch"
    BY <2>2, WhoCalls DEF InPlace, Placed, LoopHasAStep
  <2>3. CASE phase = "load"
    BY <2>3 DEF LoopHasAStep
  <2>4. CASE phase = "refresh" \/ phase = "gather"
    <3>1. \A n \in Netuids :
            \/ pc[n] \in {"none", "done"}
            \/ pc[n] \in {"permit", "queued", "batch"}
            \/ pc[n] \in {"start", "look", "reading", "write"}
      BY <2>1, MainIsNoSubnet DEF Places
    <3>2. phase = "gather" => \A n \in Netuids : pc[n] # "none"
      BY DEF InPlace, Placed
    <3> QED
      BY <2>4, <3>1, <3>2, MainIsNoSubnet DEF LoopHasAStep
  <2> QED
    BY <2>1, <2>2, <2>3, <2>4
<1> QED
  BY <1>1, MetadataTypeOK, SpecInPlace, PTL
=============================================================================

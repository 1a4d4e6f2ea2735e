----------------------------- MODULE RunnerProofs -----------------------------
(***************************************************************************)
(* Proofs about the process that runs the scores: the chain calls of a run  *)
(* (ChainCalls), for every set of calls, every number of permits, workers   *)
(* and runs, and the loop that starts the runs and retries them             *)
(* (Scheduler), for every day, delay and duration of a job.                 *)
(***************************************************************************)
EXTENDS ChainCalls, Scheduler, FiniteSetTheorems, SequenceTheorems, TLAPS

-----------------------------------------------------------------------------
(* Chain calls: the invariant IInv is inductive and implies what the runs   *)
(* check.                                                                   *)

(* The sets counted in the invariant are finite, and a call that waits for a *)
(* worker is a holder that does not run.                                     *)
LEMMA HolderCounts ==
  /\ IsFiniteSet(Holders) /\ Cardinality(Holders) \in Nat
  /\ IsFiniteSet(Running) /\ Cardinality(Running) \in Nat
  /\ Cardinality(Running) <= Cardinality(Holders)
  /\ Queued # {} => Cardinality(Running) < Cardinality(Holders)
<1>1. IsFiniteSet(Holders) /\ IsFiniteSet(Running)
  BY FS_Subset, ChainCallsAssumption DEF Holders, Running
<1>2. Running \in SUBSET Holders
  BY DEF Holders, Running
<1>3. /\ Cardinality(Running) <= Cardinality(Holders)
      /\ Cardinality(Running) = Cardinality(Holders) => Running = Holders
  BY <1>1, <1>2, FS_Subset
<1>4. Queued # {} => Running # Holders
  BY DEF Holders, Running, Queued
<1> QED
  BY <1>1, <1>3, <1>4, FS_CardinalityType

LEMMA InitIInv == Init => IInv
<1> SUFFICES ASSUME Init PROVE IInv
  OBVIOUS
<1>1. Holders = {} /\ Running = {}
  BY DEF Init, Holders, Running
<1>2. Cardinality(Holders) = 0 /\ Cardinality(Running) = 0
  BY <1>1, FS_EmptySet
<1> QED
  BY <1>2, ChainCallsAssumption
  DEF Init, IInv, TypeOK, Status, PermitsConserved, WaitersInLine,
      WorkersBound, BusyWorkers

(* Leaving the `async with` hands the permit on: the number of holders and   *)
(* the free permits still add up, and the line stays a line.                 *)
LEMMA LeaveKeepsPermits ==
  ASSUME IInv, NEW c \in Holders, NEW s \in Final, Leave(c, s)
  PROVE  /\ value' \in 0..MaxConcurrent
         /\ waiters' \in Seq(Calls)
         /\ pc' \in [Calls -> Status]
         /\ PermitsConserved'
         /\ WaitersInLine'
         /\ Running' = Running \ {c}
<1> USE DEF IInv, TypeOK, Status, Final
<1>1. c \in Calls /\ pc[c] \in {"queued", "running"}
  BY DEF Holders
<1>2. CASE waiters = <<>>
  <2>1. /\ value' = value + 1
        /\ pc' = [pc EXCEPT ![c] = s]
        /\ waiters' = <<>>
    BY <1>2 DEF Leave
  <2>2. Holders' = Holders \ {c} /\ Running' = Running \ {c}
    BY <1>1, <2>1 DEF Holders, Running
  <2>3. Cardinality(Holders') = Cardinality(Holders) - 1
    BY <2>2, HolderCounts, FS_RemoveElement
  <2>4. Cardinality(Holders) # 0
    BY HolderCounts, FS_EmptySet
  <2> QED
    BY <1>1, <1>2, <2>1, <2>2, <2>3, <2>4, HolderCounts, ChainCallsAssumption
    DEF PermitsConserved, WaitersInLine
<1>3. CASE waiters # <<>>
  <2> DEFINE h == Head(waiters)
  <2>1. /\ value' = value
        /\ pc' = [pc EXCEPT ![c] = s, ![h] = "queued"]
        /\ waiters' = Tail(waiters)
    BY <1>3 DEF Leave
  <2>2. h \in Calls /\ h = waiters[1] /\ pc[h] = "waiting" /\ Len(waiters) \in Nat \ {0}
    BY <1>3 DEF WaitersInLine
  <2>3. h # c
    BY <1>1, <2>2
  <2>4. pc' \in [Calls -> Status]
    BY <1>1, <2>1, <2>2
  <2>5. pc'[c] = s /\ pc'[h] = "queued" /\ \A d \in Calls \ {c, h} : pc'[d] = pc[d]
    BY <1>1, <2>1, <2>2, <2>3
  <2>6. Holders' = (Holders \ {c}) \cup {h} /\ Running' = Running \ {c}
    BY <1>1, <2>2, <2>3, <2>5 DEF Holders, Running
  <2>7. Cardinality(Holders') = Cardinality(Holders)
    <3>1. IsFiniteSet(Holders \ {c}) /\ Cardinality(Holders \ {c}) = Cardinality(Holders) - 1
      BY HolderCounts, FS_RemoveElement
    <3>2. h \notin Holders \ {c}
      BY <2>2 DEF Holders
    <3>3. Cardinality((Holders \ {c}) \cup {h}) = Cardinality(Holders \ {c}) + 1
      BY ONLY <3>1, <3>2, FS_AddElement, Zenon
    <3> QED
      BY <2>6, <3>1, <3>3, HolderCounts
  <2>8. /\ waiters' \in Seq(Calls) /\ Len(waiters') = Len(waiters) - 1
        /\ \A i \in 1..Len(waiters') : waiters'[i] = waiters[i + 1]
    BY <1>3, <2>1
  <2>9. WaitersInLine'
    <3>1. ASSUME NEW i \in 1..Len(waiters')
          PROVE  waiters'[i] \in Calls \ {c, h} /\ pc[waiters'[i]] = "waiting"
      <4>1. i + 1 \in 1..Len(waiters) /\ i + 1 # 1 /\ 1 \in 1..Len(waiters)
        BY <2>2, <2>8
      <4>2. pc[waiters[i + 1]] = "waiting" /\ waiters[i + 1] # waiters[1]
        BY <4>1 DEF WaitersInLine
      <4> QED
        BY <1>1, <2>2, <2>8, <4>1, <4>2
    <3>2. \A i, j \in 1..Len(waiters') : waiters'[i] = waiters'[j] => i = j
      BY <2>2, <2>8 DEF WaitersInLine
    <3> QED
      BY <2>5, <3>1, <3>2 DEF WaitersInLine
  <2>10. PermitsConserved'
    BY <1>3, <2>1, <2>7 DEF PermitsConserved
  <2> QED
    BY <2>1, <2>4, <2>6, <2>8, <2>9, <2>10
<1> QED
  BY <1>2, <1>3

(* Entering: a call that gets a permit becomes a holder, a call that does    *)
(* not joins the end of the line or is refused.                              *)
LEMMA StartKeepsIInv ==
  ASSUME IInv, NEW c \in Calls, Start(c)
  PROVE  IInv'
<1> USE DEF IInv, TypeOK, Status, Final
<1>1. CASE Acquire(c)
  <2> USE <1>1 DEF Acquire
  <2>1. Holders' = Holders \cup {c} /\ c \notin Holders /\ Running' = Running
    BY DEF Holders, Running
  <2>2. Cardinality(Holders') = Cardinality(Holders) + 1
    BY <2>1, HolderCounts, FS_AddElement
  <2>3. PermitsConserved'
    BY <2>2, HolderCounts, ChainCallsAssumption DEF PermitsConserved
  <2>4. WorkersBound' /\ WaitersInLine'
    BY <2>1 DEF WorkersBound, BusyWorkers, WaitersInLine
  <2> QED
    BY <2>3, <2>4, ChainCallsAssumption
<1>2. CASE Wait(c)
  <2> USE <1>2 DEF Wait
  <2>1. Holders' = Holders /\ Running' = Running
    BY DEF Holders, Running
  <2>2. PermitsConserved'
    BY <2>1 DEF PermitsConserved
  <2>3. /\ Len(waiters') = Len(waiters) + 1 /\ Len(waiters) \in Nat
        /\ \A i \in 1..Len(waiters) : waiters'[i] = waiters[i]
        /\ waiters'[Len(waiters')] = c
    OBVIOUS
  <2>4. \A i \in 1..Len(waiters) : waiters[i] \in Calls \ {c} /\ pc'[waiters[i]] = "waiting"
    BY DEF WaitersInLine
  <2>5. WaitersInLine'
    BY <2>3, <2>4 DEF WaitersInLine
  <2> QED
    BY <2>1, <2>2, <2>5, ChainCallsAssumption DEF WorkersBound, BusyWorkers
<1>3. CASE RefuseToWait(c)
  <2> USE <1>3 DEF RefuseToWait
  <2>1. Holders' = Holders /\ Running' = Running
    BY DEF Holders, Running
  <2> QED
    BY <2>1 DEF WorkersBound, BusyWorkers, PermitsConserved, WaitersInLine
<1> QED
  BY <1>1, <1>2, <1>3 DEF Start

(* A call leaves: with an answer, or timed out before or after a worker took *)
(* it. Only in the last case its worker stays busy, as a zombie.             *)
LEMMA EndKeepsIInv ==
  ASSUME IInv, NEW c \in Calls, Answer(c) \/ Timeout(c)
  PROVE  IInv'
<1> USE DEF IInv, TypeOK
<1>1. CASE Answer(c) \/ TimeoutQueued(c)
  <2>1. c \in Holders /\ UNCHANGED <<run, boundLoop, zombies>> /\ \E s \in Final : Leave(c, s)
    BY <1>1 DEF Answer, TimeoutQueued, Holders, Final
  <2>2. PICK s \in Final : Leave(c, s)
    BY <2>1
  <2>3. /\ value' \in 0..MaxConcurrent /\ waiters' \in Seq(Calls)
        /\ pc' \in [Calls -> Status] /\ PermitsConserved' /\ WaitersInLine'
        /\ Running' = Running \ {c}
    BY <2>1, <2>2, LeaveKeepsPermits
  <2>4. Cardinality(Running') \in Nat /\ Cardinality(Running') <= Cardinality(Running)
    BY <2>3, HolderCounts, FS_Subset, FS_CardinalityType
  <2> QED
    BY <2>1, <2>3, <2>4, HolderCounts, ChainCallsAssumption DEF WorkersBound, BusyWorkers
<1>2. CASE TimeoutRunning(c)
  <2>1. /\ c \in Holders /\ c \in Running /\ UNCHANGED <<run, boundLoop>>
        /\ zombies' = zombies + 1 /\ "timedout" \in Final /\ Leave(c, "timedout")
    BY <1>2 DEF TimeoutRunning, Holders, Running, Final
  <2>2. /\ value' \in 0..MaxConcurrent /\ waiters' \in Seq(Calls)
        /\ pc' \in [Calls -> Status] /\ PermitsConserved' /\ WaitersInLine'
        /\ Running' = Running \ {c}
    BY <2>1, LeaveKeepsPermits
  <2>3. Cardinality(Running') = Cardinality(Running) - 1 /\ Cardinality(Running') \in Nat
    BY <2>1, <2>2, HolderCounts, FS_RemoveElement, FS_CardinalityType
  <2> QED
    BY <2>1, <2>2, <2>3, HolderCounts, ChainCallsAssumption DEF WorkersBound, BusyWorkers
<1> QED
  BY <1>1, <1>2 DEF Timeout

(* A worker takes a call only when it is free.                               *)
LEMMA TakeCallKeepsIInv ==
  ASSUME IInv, NEW c \in Calls, TakeCall(c)
  PROVE  IInv'
<1> USE DEF IInv, TypeOK, Status, Final, TakeCall
<1>1. Holders' = Holders /\ Running' = Running \cup {c} /\ c \notin Running
  BY DEF Holders, Running
<1>2. Cardinality(Running') = Cardinality(Running) + 1
  BY <1>1, HolderCounts, FS_AddElement
<1>3. WorkersBound'
  BY <1>2, HolderCounts, ChainCallsAssumption DEF WorkersBound, BusyWorkers
<1> QED
  BY <1>1, <1>3 DEF PermitsConserved, WaitersInLine

(* The next run starts with every permit free.                               *)
LEMMA RunChangeKeepsIInv ==
  ASSUME IInv, NextRun \/ AbortRun
  PROVE  IInv'
<1> USE DEF IInv, TypeOK, Status, Final
<1>1. pc' = [c \in Calls |-> "idle"] /\ run' = run + 1 /\ run < MaxRuns /\ boundLoop' = boundLoop
  BY DEF NextRun, AbortRun
<1>2. Holders' = {} /\ Running' = {}
  BY <1>1 DEF Holders, Running
<1>3. Cardinality(Holders') = 0 /\ Cardinality(Running') = 0
  BY <1>2, FS_EmptySet
<1>4. CASE NextRun
  <2>1. Holders = {} /\ waiters = <<>>
    <3>1. Holders = {}
      BY <1>4 DEF NextRun, Holders
    <3>2. ASSUME waiters # <<>> PROVE FALSE
      <4>1. 1 \in 1..Len(waiters) /\ waiters[1] \in Calls
        BY <3>2
      <4> QED
        BY <1>4, <4>1 DEF NextRun, WaitersInLine
    <3> QED
      BY <3>1, <3>2
  <2>2. value' = MaxConcurrent /\ waiters' = <<>> /\ zombies' = zombies
    BY <1>4, <2>1, FS_EmptySet DEF NextRun, PermitsConserved
  <2> QED
    BY <1>1, <1>3, <2>2, ChainCallsAssumption
    DEF PermitsConserved, WaitersInLine, WorkersBound, BusyWorkers
<1>5. CASE AbortRun
  <2>1. /\ value' = MaxConcurrent /\ waiters' = <<>>
        /\ zombies' = zombies + Cardinality(Running)
    BY <1>5 DEF AbortRun, PermitsConserved
  <2>2. zombies' \in 0..MaxWorkers
    BY <2>1, HolderCounts, ChainCallsAssumption DEF WorkersBound, BusyWorkers
  <2> QED
    BY <1>1, <1>3, <2>1, <2>2, ChainCallsAssumption
    DEF PermitsConserved, WaitersInLine, WorkersBound, BusyWorkers
<1> QED
  BY <1>4, <1>5

LEMMA NextIInv == IInv /\ [Next]_vars => IInv'
<1> SUFFICES ASSUME IInv, [Next]_vars PROVE IInv'
  OBVIOUS
<1>1. ASSUME NEW c \in Calls, Start(c) PROVE IInv'
  BY <1>1, StartKeepsIInv
<1>2. ASSUME NEW c \in Calls, TakeCall(c) PROVE IInv'
  BY <1>2, TakeCallKeepsIInv
<1>3. ASSUME NEW c \in Calls, Answer(c) \/ Timeout(c) PROVE IInv'
  BY <1>3, EndKeepsIInv
<1>4. CASE ZombieEnds
  BY <1>4, HolderCounts, ChainCallsAssumption
  DEF ZombieEnds, IInv, TypeOK, PermitsConserved, WaitersInLine, WorkersBound,
      BusyWorkers, Holders, Running
<1>5. CASE NextRun \/ AbortRun
  BY <1>5, RunChangeKeepsIInv
<1>6. CASE UNCHANGED vars
  BY <1>6 DEF vars, IInv, TypeOK, PermitsConserved, WaitersInLine,
              WorkersBound, BusyWorkers, Holders, Running
<1> QED
  BY <1>1, <1>2, <1>3, <1>4, <1>5, <1>6 DEF Next

LEMMA SpecIInv == Spec => []IInv
  BY InitIInv, NextIInv, PTL DEF Spec

(* Every variable keeps its type: in particular the zombies never outnumber  *)
(* the workers.                                                              *)
THEOREM ChainCallsTypeOK == Spec => []TypeOK
<1>1. IInv => TypeOK
  BY DEF IInv
<1> QED
  BY <1>1, SpecIInv, PTL

(* No permit is ever lost or duplicated.                                     *)
THEOREM PermitsAreConserved == Spec => []PermitsConserved
<1>1. IInv => PermitsConserved
  BY DEF IInv
<1> QED
  BY <1>1, SpecIInv, PTL

(* The pool is large enough for every holder of a permit until more than     *)
(* MaxWorkers - MaxConcurrent threads have become zombies.                   *)
THEOREM WorkersSufficeUntilZombies == Spec => []WorkerForEveryHolder
<1>1. IInv => WorkerForEveryHolder
  BY HolderCounts, ChainCallsAssumption
  DEF IInv, TypeOK, PermitsConserved, WorkerForEveryHolder, BusyWorkers
<1> QED
  BY <1>1, SpecIInv, PTL

(* Nobody waits in vain: a call that waits stands in the line at the         *)
(* semaphore, and while anyone does every permit is held by a call that has  *)
(* been submitted, whose timer will make it leave and hand its permit on.    *)
NobodyWaitsInVain ==
  \A c \in Calls : pc[c] = "waiting" =>
    /\ \E i \in 1..Len(waiters) : waiters[i] = c
    /\ Cardinality(Holders) = MaxConcurrent /\ Holders # {}

EveryWaiterInLine ==
  \A c \in Calls : pc[c] = "waiting" => \E i \in 1..Len(waiters) : waiters[i] = c

(* The first of the line leaves it with a permit, the others move up.        *)
LEMMA LeaveKeepsLine ==
  ASSUME IInv, EveryWaiterInLine, NEW c \in Holders, NEW s \in Final, Leave(c, s)
  PROVE  EveryWaiterInLine'
<1> USE DEF IInv, TypeOK, Final
<1> SUFFICES ASSUME NEW d \in Calls, pc'[d] = "waiting"
             PROVE  \E i \in 1..Len(waiters') : waiters'[i] = d
  BY DEF EveryWaiterInLine
<1>1. c \in Calls
  BY DEF Holders
<1>2. CASE waiters = <<>>
  <2>1. pc' = [pc EXCEPT ![c] = s] /\ waiters' = waiters
    BY <1>2 DEF Leave
  <2>2. pc[d] = "waiting"
    BY <1>1, <2>1
  <2> QED
    BY <2>1, <2>2 DEF EveryWaiterInLine
<1>3. CASE waiters # <<>>
  <2> DEFINE h == Head(waiters)
  <2>1. /\ pc' = [pc EXCEPT ![c] = s, ![h] = "queued"]
        /\ waiters' = Tail(waiters)
    BY <1>3 DEF Leave
  <2>2. h \in Calls /\ h = waiters[1] /\ Len(waiters) \in Nat \ {0}
    BY <1>3
  <2>3. d # h /\ pc[d] = "waiting"
    BY <1>1, <2>1, <2>2
  <2>4. PICK i \in 1..Len(waiters) : waiters[i] = d
    BY <2>3 DEF EveryWaiterInLine
  <2>5. i # 1
    BY <2>2, <2>3, <2>4
  <2>6. Len(waiters') = Len(waiters) - 1 /\ \A j \in 1..Len(waiters') : waiters'[j] = waiters[j + 1]
    BY <1>3, <2>1
  <2>7. i - 1 \in 1..Len(waiters') /\ waiters'[i - 1] = d
    BY <2>2, <2>4, <2>5, <2>6
  <2> QED
    BY <2>7
<1> QED
  BY <1>2, <1>3

LEMMA StepKeepsLine ==
  ASSUME IInv, EveryWaiterInLine, [Next]_vars
  PROVE  EveryWaiterInLine'
<1> USE DEF IInv, TypeOK
<1>1. ASSUME NEW c \in Calls, Acquire(c) \/ RefuseToWait(c) \/ TakeCall(c)
      PROVE  EveryWaiterInLine'
  <2>1. /\ waiters' = waiters
        /\ \A d \in Calls : pc'[d] = "waiting" => pc[d] = "waiting"
    BY <1>1 DEF Acquire, RefuseToWait, TakeCall
  <2> QED
    BY <2>1 DEF EveryWaiterInLine
<1>2. ASSUME NEW c \in Calls, Wait(c)
      PROVE  EveryWaiterInLine'
  <2>1. /\ Len(waiters') = Len(waiters) + 1 /\ Len(waiters) \in Nat
        /\ \A i \in 1..Len(waiters) : waiters'[i] = waiters[i]
        /\ waiters'[Len(waiters')] = c
    BY <1>2 DEF Wait
  <2>2. \A d \in Calls \ {c} : pc'[d] = "waiting" => pc[d] = "waiting"
    BY <1>2 DEF Wait
  <2>3. ASSUME NEW d \in Calls, pc'[d] = "waiting"
        PROVE  \E i \in 1..Len(waiters') : waiters'[i] = d
    <3>1. CASE d = c
      BY <2>1, <3>1
    <3>2. CASE d # c
      <4>1. PICK i \in 1..Len(waiters) : waiters[i] = d
        BY <2>2, <2>3, <3>2 DEF EveryWaiterInLine
      <4> QED
        BY <2>1, <4>1
    <3> QED
      BY <3>1, <3>2
  <2> QED
    BY <2>3 DEF EveryWaiterInLine
<1>3. ASSUME NEW c \in Calls, Answer(c) \/ Timeout(c)
      PROVE  EveryWaiterInLine'
  <2>1. c \in Holders /\ \E s \in Final : Leave(c, s)
    BY <1>3 DEF Answer, Timeout, TimeoutQueued, TimeoutRunning, Holders, Final
  <2> QED
    BY <2>1, LeaveKeepsLine
<1>4. CASE ZombieEnds \/ UNCHANGED vars
  BY <1>4 DEF ZombieEnds, vars, EveryWaiterInLine
<1>5. CASE NextRun \/ AbortRun
  <2>1. \A c \in Calls : pc'[c] = "idle"
    BY <1>5 DEF NextRun, AbortRun
  <2> QED
    BY <2>1 DEF EveryWaiterInLine
<1> QED
  BY <1>1, <1>2, <1>3, <1>4, <1>5 DEF Next, Start

THEOREM WaitersAreServed == Spec => []NobodyWaitsInVain
<1>1. Init => EveryWaiterInLine
  BY DEF Init, EveryWaiterInLine
<1>2. IInv /\ EveryWaiterInLine => NobodyWaitsInVain
  <2> SUFFICES ASSUME IInv, EveryWaiterInLine, NEW c \in Calls, pc[c] = "waiting"
               PROVE  /\ \E i \in 1..Len(waiters) : waiters[i] = c
                      /\ Cardinality(Holders) = MaxConcurrent /\ Holders # {}
    BY DEF NobodyWaitsInVain
  <2>1. \E i \in 1..Len(waiters) : waiters[i] = c
    BY DEF EveryWaiterInLine
  <2>2. waiters # <<>>
    BY <2>1
  <2>3. value = 0 /\ value + Cardinality(Holders) = MaxConcurrent
    BY <2>2 DEF IInv, PermitsConserved
  <2>4. Cardinality(Holders) = MaxConcurrent
    BY <2>3, HolderCounts
  <2>5. Holders # {}
    BY <2>4, FS_EmptySet, ChainCallsAssumption
  <2> QED
    BY <2>1, <2>4, <2>5
<1> QED
  BY <1>1, <1>2, SpecIInv, StepKeepsLine, PTL DEF Spec

(* When a call is lost: only after an earlier run of the same process has    *)
(* bound the semaphore to its event loop, by letting a call of its own wait  *)
(* (_get_sem). The first run of a process loses none, and neither does any   *)
(* run before the one in which calls first outnumber the permits.            *)
LostOnlyAfterAnotherLoop ==
  \A c \in Calls : pc[c] = "lost" => boundLoop \in 1..(run - 1)

THEOREM LossNeedsAnEarlierRun == Spec => []LostOnlyAfterAnotherLoop
<1> DEFINE J == boundLoop \in 0..run /\ LostOnlyAfterAnotherLoop
<1>1. Init => J
  BY DEF Init, LostOnlyAfterAnotherLoop
<1>2. IInv /\ J /\ [Next]_vars => J'
  <2> SUFFICES ASSUME IInv, J, [Next]_vars PROVE J'
    OBVIOUS
  <2> USE DEF IInv, TypeOK
  <2>1. run \in Nat \ {0} /\ boundLoop \in Nat
    BY ChainCallsAssumption
  <2>2. ASSUME NEW c \in Calls, Acquire(c) \/ TakeCall(c)
        PROVE  J'
    <3>1. /\ run' = run /\ boundLoop' = boundLoop
          /\ \A d \in Calls : pc'[d] = "lost" => pc[d] = "lost"
      BY <2>2 DEF Acquire, TakeCall
    <3> QED
      BY <3>1 DEF LostOnlyAfterAnotherLoop
  <2>3. ASSUME NEW c \in Calls, Wait(c)
        PROVE  J'
    <3>1. /\ run' = run /\ boundLoop' = run /\ boundLoop \in {0, run}
          /\ \A d \in Calls : pc'[d] = "lost" => pc[d] = "lost"
      BY <2>3 DEF Wait
    <3>2. \A d \in Calls : pc'[d] # "lost"
      BY <2>1, <3>1 DEF LostOnlyAfterAnotherLoop
    <3> QED
      BY <2>1, <3>1, <3>2 DEF LostOnlyAfterAnotherLoop
  <2>4. ASSUME NEW c \in Calls, RefuseToWait(c)
        PROVE  J'
    <3>1. run' = run /\ boundLoop' = boundLoop /\ boundLoop \notin {0, run}
      BY <2>4 DEF RefuseToWait
    <3> QED
      BY <2>1, <3>1 DEF LostOnlyAfterAnotherLoop
  <2>5. ASSUME NEW c \in Calls, Answer(c) \/ Timeout(c)
        PROVE  J'
    <3>1. run' = run /\ boundLoop' = boundLoop /\ \E s \in {"answered", "timedout"} : Leave(c, s)
      BY <2>5 DEF Answer, Timeout, TimeoutQueued, TimeoutRunning
    <3>2. \A d \in Calls : pc'[d] = "lost" => pc[d] = "lost"
      BY <3>1 DEF Leave
    <3> QED
      BY <3>1, <3>2 DEF LostOnlyAfterAnotherLoop
  <2>6. CASE ZombieEnds \/ UNCHANGED vars
    BY <2>6 DEF ZombieEnds, vars, LostOnlyAfterAnotherLoop
  <2>7. CASE NextRun \/ AbortRun
    <3>1. /\ run' = run + 1 /\ boundLoop' = boundLoop
          /\ \A c \in Calls : pc'[c] = "idle"
      BY <2>7 DEF NextRun, AbortRun
    <3> QED
      BY <2>1, <3>1 DEF LostOnlyAfterAnotherLoop
  <2> QED
    BY <2>2, <2>3, <2>4, <2>5, <2>6, <2>7 DEF Next, Start
<1> QED
  BY <1>1, <1>2, SpecIInv, PTL DEF Spec

-----------------------------------------------------------------------------
(* Scheduler: what keeps two retries of one day apart.  A pass runs at most  *)
(* one retry and at most one daily job.                                      *)
Passes ==
  {<<"daily">>, <<"retry">>, <<"daily", "retry">>, <<"retry", "daily">>}

PassOK ==
  /\ loop = "sleep" => due = <<>>
  /\ loop = "pass" => due \in Passes

(* The retry of the day has run, or waits in the table or in the pass.       *)
RetryPending ==
  /\ retryIn # {} => retried = 0
  /\ \A i \in DOMAIN due : due[i] = "retry" => retried = 0

(* A retry comes before the daily job that follows its own by a whole delay. *)
RetryComesFirst == \A t \in retryIn : t < dailyIn + RetryDelay

(* While the loop sleeps: of two retries, only one may be due, and it is due *)
(* before the daily job.                                                     *)
RetriesApart ==
  loop = "sleep" =>
    \A s, t \in retryIn : s < t => 0 < t /\ s < dailyIn

(* The daily job that a pass is about to run is due, and finds one retry at  *)
(* most in the table.                                                        *)
DailyIsDue ==
  loop = "pass" =>
    /\ \A i \in DOMAIN due : due[i] = "daily" => dailyIn <= 0
    /\ Head(due) = "daily" => \A s, t \in retryIn : s = t

SInv ==
  /\ SchedulerTypeOK
  /\ OneRetryPerDay
  /\ PassOK
  /\ RetryPending
  /\ RetryComesFirst
  /\ RetriesApart
  /\ DailyIsDue

(* A slot that has come gives way to a later one, at most a day ahead; it    *)
(* is a whole number of days later.                                          *)
LEMMA NextSlotFacts ==
  ASSUME NEW x \in Int, x <= Day
  PROVE  /\ NextSlot(x) \in Int /\ NextSlot(x) <= Day /\ NextSlot(x) > 0
         /\ x <= 0 => x + Day <= NextSlot(x)
<1>1. CASE x > 0
  BY <1>1, SchedulerAssumption DEF NextSlot
<1>2. CASE x <= 0
  <2>1. -x \in Nat /\ Day \in Nat /\ Day > 0
    BY <1>2, SchedulerAssumption
  <2>2. (-x) % Day \in 0..(Day - 1)
    BY <2>1
  <2>3. (-x) % Day <= -x
    BY <2>1
  <2> QED
    BY <1>2, <2>1, <2>2, <2>3 DEF NextSlot
<1> QED
  BY <1>1, <1>2

LEMMA InitSInv == SchedulerInit => SInv
  BY SchedulerAssumption
  DEF SchedulerInit, SInv, SchedulerTypeOK, OneRetryPerDay, PassOK, RetryPending,
      RetryComesFirst, RetriesApart, DailyIsDue, Outcomes, NoJob

LEMMA SleepKeepsSInv == SInv /\ Sleep => SInv'
<1> SUFFICES ASSUME SInv, Sleep PROVE SInv'
  OBVIOUS
<1> USE SchedulerAssumption DEF SInv, Sleep, After, NothingDue
<1>1. SchedulerTypeOK'
  BY DEF SchedulerTypeOK
<1>2. OneRetryPerDay' /\ PassOK' /\ RetryPending' /\ DailyIsDue'
  BY DEF OneRetryPerDay, PassOK, RetryPending, DailyIsDue
<1>3. RetryComesFirst' /\ RetriesApart'
  BY DEF RetryComesFirst, RetriesApart, SchedulerTypeOK
<1> QED
  BY <1>1, <1>2, <1>3

(* A pass starts with the daily job, with one retry, or with both.           *)
LEMMA DueJobsCases ==
  ASSUME SInv, loop = "sleep", ~NothingDue
  PROVE  \/ dailyIn <= 0 /\ DueJobs = {<<dailyIn, "daily">>} /\ \A s \in retryIn : s > 0
         \/ \E t \in retryIn :
              /\ t <= 0 /\ \A s \in retryIn : s <= 0 => s = t
              /\ \/ DueJobs = {<<t, "retry">>}
                 \/ dailyIn <= 0 /\ DueJobs = {<<t, "retry">>, <<dailyIn, "daily">>}
<1>1. retryIn \in SUBSET Int /\ dailyIn \in Int
  BY DEF SInv, SchedulerTypeOK
<1>2. CASE \A s \in retryIn : s > 0
  <2>1. dailyIn <= 0
    BY <1>1, <1>2 DEF NothingDue
  <2>2. {r \in retryIn : r <= 0} = {}
    <3>1. \A r \in retryIn : ~(r <= 0)
      BY <1>1, <1>2
    <3> QED
      BY <3>1, Zenon
  <2>3. {<<t, "retry">> : t \in {r \in retryIn : r <= 0}} = {}
    BY <2>2
  <2>4. DueJobs = {<<dailyIn, "daily">>}
    BY <2>1, <2>3 DEF DueJobs
  <2> QED
    BY <1>2, <2>1, <2>4
<1>3. CASE \E s \in retryIn : ~(s > 0)
  <2>1. PICK t \in retryIn : t <= 0
    BY <1>1, <1>3
  <2>2. \A s \in retryIn : s <= 0 => s = t
    BY <1>1, <2>1 DEF SInv, RetriesApart
  <2>3. {r \in retryIn : r <= 0} = {t}
    BY <2>1, <2>2
  <2>4. CASE dailyIn <= 0
    <3>1. DueJobs = {<<t, "retry">>, <<dailyIn, "daily">>}
      BY <2>3, <2>4 DEF DueJobs
    <3> QED
      BY <2>1, <2>2, <2>4, <3>1
  <2>5. CASE ~(dailyIn <= 0)
    <3>1. DueJobs = {<<t, "retry">>}
      BY <2>3, <2>5 DEF DueJobs
    <3> QED
      BY <2>1, <2>2, <3>1
  <2> QED
    BY <2>4, <2>5
<1> QED
  BY <1>2, <1>3

LEMMA PassesAreLists ==
  \A p \in Passes :
    /\ p \in Seq({"daily", "retry"}) /\ Len(p) \in {1, 2} /\ DOMAIN p = 1..Len(p)
    /\ p[1] = Head(p)
<1>1. <<"daily">> \in Seq({"daily", "retry"}) /\ <<"retry">> \in Seq({"daily", "retry"})
  OBVIOUS
<1>2. /\ <<"daily", "retry">> \in Seq({"daily", "retry"})
      /\ <<"retry", "daily">> \in Seq({"daily", "retry"})
  OBVIOUS
<1>3. \A p \in Passes : p \in Seq({"daily", "retry"})
  BY <1>1, <1>2 DEF Passes
<1>4. \A p \in Passes : Len(p) \in {1, 2}
  BY DEF Passes
<1>5. \A p \in Passes : DOMAIN p = 1..Len(p)
  BY DEF Passes
<1>6. \A p \in Passes : p[1] = Head(p)
  BY DEF Passes
<1> QED
  BY <1>3, <1>4, <1>5, <1>6

(* A list of one or two jobs, written out.                                   *)
Jobs == {"daily", "retry"}

LEMMA SmallPass ==
  ASSUME NEW n \in {1, 2}, NEW p \in [1..n -> Jobs]
  PROVE  p = IF n = 1 THEN <<p[1]>> ELSE <<p[1], p[2]>>
<1> DEFINE q == IF n = 1 THEN <<p[1]>> ELSE <<p[1], p[2]>>
<1>1. n \in Nat /\ \A i \in 1..n : p[i] \in Jobs
  OBVIOUS
<1>2. [i \in 1..n |-> p[i]] \in Seq(Jobs)
  BY <1>1, IsASeq
<1>3. p \in Seq(Jobs)
  BY <1>2
<1>4. Len(p) = n
  <2>1. Len(p) \in Nat /\ DOMAIN p = 1..Len(p)
    BY <1>3, LenProperties
  <2>2. DOMAIN p = 1..n
    OBVIOUS
  <2> QED
    BY <2>1, <2>2
<1>5. p[1] \in Jobs /\ (n = 2 => p[2] \in Jobs)
  BY <1>1
<1>6. q \in Seq(Jobs) /\ Len(q) = n
  BY <1>5
<1>7. \A i \in 1..n : p[i] = q[i]
  OBVIOUS
<1> HIDE DEF q
<1>8. p = q
  BY <1>3, <1>4, <1>6, <1>7, SeqEqual
<1> QED
  BY <1>8 DEF q

LEMMA TwoJobs ==
  ASSUME NEW a, NEW b, a # b
  PROVE  Cardinality({a, b}) = 2
<1>1. IsFiniteSet({a}) /\ Cardinality({a}) = 1
  BY FS_Singleton
<1>2. b \notin {a}
  OBVIOUS
<1>3. Cardinality({a} \cup {b}) = Cardinality({a}) + 1
  BY <1>1, <1>2, FS_AddElement
<1>4. {a, b} = {a} \cup {b}
  OBVIOUS
<1> QED
  BY <1>1, <1>3, <1>4

(* What a pass may find in the table, in the order it runs it.               *)
LEMMA PassCases ==
  ASSUME SInv, RunPending
  PROVE  \/ due' = <<"daily">> /\ dailyIn <= 0 /\ \A s \in retryIn : s > 0
         \/ due' = <<"retry">> /\ retryIn # {}
         \/ due' = <<"retry", "daily">> /\ dailyIn <= 0 /\ retryIn # {}
         \/ /\ due' = <<"daily", "retry">> /\ dailyIn <= 0
            /\ \E t \in retryIn :
                 dailyIn <= t /\ t <= 0 /\ \A s \in retryIn : s <= 0 => s = t
<1> DEFINE n == Cardinality(DueJobs)
<1>1. PICK list \in [1..n -> DueJobs] :
        /\ \A i, j \in 1..n : i < j => Earlier(list[i], list[j])
        /\ due' = [i \in 1..n |-> list[i][2]]
  BY DEF RunPending
<1>2. loop = "sleep" /\ ~NothingDue
  BY DEF RunPending
<1>4. retryIn \in SUBSET Int /\ dailyIn \in Int
  BY DEF SInv, SchedulerTypeOK
<1>5. ASSUME NEW j, DueJobs = {j}, j[2] \in Jobs
      PROVE  due' = <<j[2]>>
  <2>1. n = 1
    BY <1>5, FS_Singleton
  <2>2. 1 \in 1..n /\ list[1] = j
    BY <1>1, <1>5, <2>1
  <2> HIDE DEF n
  <2>3. due' \in [1..n -> Jobs] /\ due'[1] = j[2]
    BY <1>1, <1>5, <2>1, <2>2
  <2> QED
    BY <2>1, <2>3, SmallPass
<1>6. CASE dailyIn <= 0 /\ DueJobs = {<<dailyIn, "daily">>} /\ \A s \in retryIn : s > 0
  <2>1. <<dailyIn, "daily">>[2] = "daily" /\ "daily" \in Jobs
    BY DEF Jobs
  <2>2. due' = << <<dailyIn, "daily">>[2] >>
    BY <1>5, <1>6, <2>1
  <2> QED
    BY <1>6, <2>1, <2>2
<1>7. ASSUME NEW t \in retryIn, DueJobs = {<<t, "retry">>}
      PROVE  due' = <<"retry">> /\ retryIn # {}
  <2>1. <<t, "retry">>[2] = "retry" /\ "retry" \in Jobs
    BY DEF Jobs
  <2>2. due' = << <<t, "retry">>[2] >>
    BY <1>5, <1>7, <2>1
  <2> QED
    BY <2>1, <2>2
<1>8. ASSUME NEW t \in retryIn, dailyIn <= 0,
             DueJobs = {<<t, "retry">>, <<dailyIn, "daily">>}
      PROVE  \/ due' = <<"retry", "daily">>
             \/ due' = <<"daily", "retry">> /\ dailyIn <= t
  <2> DEFINE r == <<t, "retry">>
             d == <<dailyIn, "daily">>
  <2>1. r # d
    OBVIOUS
  <2>2. n = 2
    BY <1>8, <2>1, TwoJobs
  <2>3. 1 \in 1..n /\ 2 \in 1..n
    BY <2>2
  <2>4. Earlier(list[1], list[2])
    BY <1>1, <2>3
  <2>5. list[1] \in {r, d} /\ list[2] \in {r, d}
    BY <1>1, <1>8, <2>3
  <2>6. ~Earlier(r, r) /\ ~Earlier(d, d) /\ (Earlier(d, r) => dailyIn <= t)
    BY <1>4 DEF Earlier
  <2>7. \/ list[1] = r /\ list[2] = d
        \/ list[1] = d /\ list[2] = r /\ dailyIn <= t
    BY <2>4, <2>5, <2>6
  <2>8. \A i \in 1..n : list[i][2] \in Jobs
    <3>1. \A i \in 1..n : list[i] \in {r, d}
      BY <1>1, <1>8
    <3> QED
      BY <3>1 DEF Jobs
  <2> HIDE DEF n
  <2>9. due' \in [1..n -> Jobs] /\ due'[1] = list[1][2] /\ due'[2] = list[2][2]
    BY <1>1, <2>3, <2>8
  <2>10. due' = <<due'[1], due'[2]>>
    BY <2>2, <2>9, SmallPass
  <2>11. CASE list[1] = r /\ list[2] = d
    <3>1. due'[1] = "retry" /\ due'[2] = "daily"
      BY <2>9, <2>11
    <3> QED
      BY <2>10, <3>1
  <2>12. CASE list[1] = d /\ list[2] = r /\ dailyIn <= t
    <3>1. due'[1] = "daily" /\ due'[2] = "retry"
      BY <2>9, <2>12
    <3> QED
      BY <2>10, <2>12, <3>1
  <2> QED
    BY <2>7, <2>11, <2>12
<1> HIDE DEF n
<1> QED
  BY <1>2, <1>6, <1>7, <1>8, DueJobsCases

LEMMA RunPendingKeepsSInv == SInv /\ RunPending => SInv'
<1> SUFFICES ASSUME SInv, RunPending PROVE SInv'
  OBVIOUS
<1>1. /\ loop = "sleep" /\ loop' = "pass"
      /\ UNCHANGED <<dailyIn, retryIn, last, retried, crashes>>
  BY DEF RunPending
<1>2. due' \in Passes
  BY PassCases DEF Passes
<1>3. SchedulerTypeOK'
  <2>1. due' \in Seq({"daily", "retry"})
    BY <1>2, PassesAreLists, Zenon
  <2> QED
    BY <1>1, <2>1 DEF SInv, SchedulerTypeOK
<1>4. OneRetryPerDay' /\ PassOK' /\ RetryComesFirst' /\ RetriesApart'
  BY <1>1, <1>2 DEF SInv, OneRetryPerDay, PassOK, RetryComesFirst, RetriesApart
<1>5. RetryPending'
  <2>1. retryIn # {} => retried = 0
    BY DEF SInv, RetryPending
  <2> QED
    BY <1>1, <2>1, PassCases DEF RetryPending
<1>6. DailyIsDue'
  <2>1. \A s, t \in retryIn : s < t => 0 < t /\ s < dailyIn
    BY <1>1 DEF SInv, RetriesApart
  <2>2. retryIn \in SUBSET Int /\ dailyIn \in Int
    BY DEF SInv, SchedulerTypeOK
  <2>3. Head(due') = "daily" => \A s, t \in retryIn : s = t
    BY <2>1, <2>2, PassCases
  <2> QED
    BY <1>1, <2>3, PassCases DEF DailyIsDue
<1> QED
  BY <1>3, <1>4, <1>5, <1>6 DEF SInv

(* What is left of a pass after its first job.                               *)
LEMMA PassOnCases ==
  ASSUME SInv, loop = "pass", PassOn
  PROVE  \/ due = <<Head(due)>> /\ due' = <<>> /\ loop' = "sleep"
         \/ due = <<"daily", "retry">> /\ due' = <<"retry">> /\ loop' = "pass"
         \/ due = <<"retry", "daily">> /\ due' = <<"daily">> /\ loop' = "pass"
<1>1. due \in Passes
  BY DEF SInv, PassOK
<1>2. CASE due = <<"daily">> \/ due = <<"retry">>
  <2>1. Len(due) = 1 /\ Tail(due) = <<>>
    <3>1. due \in Seq({"daily", "retry"}) /\ due # <<>>
      <4>1. due \in Seq({"daily", "retry"})
        BY <1>1, PassesAreLists, Zenon
      <4>2. due # <<>>
        BY <1>2
      <4> QED
        BY <4>1, <4>2
    <3>2. Len(due) = 1
      BY <1>2
    <3>3. Tail(due) \in Seq({"daily", "retry"}) /\ Len(Tail(due)) = Len(due) - 1
      BY <3>1, HeadTailProperties
    <3>4. Len(Tail(due)) = 0
      BY <3>2, <3>3
    <3>5. Tail(due) = <<>>
      BY <3>3, <3>4, EmptySeq
    <3> QED
      BY <3>2, <3>5
  <2>2. due = <<Head(due)>>
    BY <1>2
  <2> QED
    BY <2>1, <2>2 DEF PassOn
<1>3. CASE due = <<"daily", "retry">>
  <2>1. Len(due) = 2 /\ Tail(due) = <<"retry">>
    BY <1>3
  <2> QED
    BY <1>3, <2>1 DEF PassOn
<1>4. CASE due = <<"retry", "daily">>
  <2>1. Len(due) = 2 /\ Tail(due) = <<"daily">>
    BY <1>4
  <2> QED
    BY <1>4, <2>1 DEF PassOn
<1> QED
  BY <1>1, <1>2, <1>3, <1>4 DEF Passes

LEMMA PassOnTypes ==
  ASSUME SInv, loop = "pass", PassOn
  PROVE  /\ due' \in Seq({"daily", "retry"}) /\ loop' \in {"sleep", "pass"}
         /\ crashes' = crashes /\ PassOK'
<1>1. <<>> \in Seq({"daily", "retry"}) /\ <<"daily">> \in Passes /\ <<"retry">> \in Passes
  BY DEF Passes
<1>2. due' \in Seq({"daily", "retry"})
  BY <1>1, PassOnCases, PassesAreLists
<1> QED
  BY <1>1, <1>2, PassOnCases DEF PassOn, PassOK

LEMMA RetryKeepsSInv ==
  ASSUME SInv, NEW d \in 0..MaxDuration, NEW ok \in BOOLEAN, Retry(d, ok)
  PROVE  SInv'
<1> USE SchedulerAssumption
<1>1. /\ loop = "pass" /\ Head(due) = "retry" /\ PassOn
      /\ retryIn' = {} /\ dailyIn' = dailyIn - d
      /\ last' = [job |-> "retry", ok |-> ok] /\ retried' = retried + 1
  BY DEF Retry
<1>2. due \in Passes /\ dailyIn \in Int /\ dailyIn <= Day
  BY <1>1 DEF SInv, PassOK, SchedulerTypeOK
<1>3. retried = 0
  <2>1. due[1] = "retry" /\ 1 \in DOMAIN due
    BY <1>1, <1>2, PassesAreLists
  <2> QED
    BY <2>1 DEF SInv, RetryPending
<1>4. SchedulerTypeOK' /\ PassOK'
  BY <1>1, <1>2, <1>3, PassOnTypes DEF SInv, SchedulerTypeOK, Outcomes
<1>5. OneRetryPerDay' /\ RetryComesFirst' /\ RetriesApart'
  BY <1>1, <1>3 DEF OneRetryPerDay, RetryComesFirst, RetriesApart
<1>6. due # <<"daily", "retry">>
  BY <1>1
<1>7. \/ due' = <<>> /\ loop' = "sleep"
      \/ due = <<"retry", "daily">> /\ due' = <<"daily">> /\ loop' = "pass"
  BY <1>1, <1>6, PassOnCases
<1>8. RetryPending'
  BY <1>1, <1>7 DEF RetryPending
<1>9. DailyIsDue'
  <2>1. CASE due = <<"retry", "daily">>
    <3>1. due[2] = "daily" /\ 2 \in DOMAIN due
      BY <2>1
    <3>2. dailyIn <= 0
      BY <1>1, <3>1 DEF SInv, DailyIsDue
    <3> QED
      BY <1>1, <1>2, <3>2 DEF DailyIsDue
  <2> QED
    BY <1>7, <2>1 DEF DailyIsDue
<1> QED
  BY <1>4, <1>5, <1>8, <1>9 DEF SInv

LEMMA DailyKeepsSInv ==
  ASSUME SInv, NEW d \in 0..MaxDuration, NEW ok \in BOOLEAN, Daily(d, ok)
  PROVE  SInv'
<1> USE SchedulerAssumption
<1>1. /\ loop = "pass" /\ Head(due) = "daily" /\ PassOn
      /\ retryIn' = After(d) \cup (IF ok THEN {} ELSE {RetryDelay})
      /\ dailyIn' = NextSlot(dailyIn - d)
      /\ last' = [job |-> "daily", ok |-> ok] /\ retried' = 0
  BY DEF Daily, JobTable
<1>2. /\ due \in Passes /\ dailyIn \in Int /\ dailyIn <= Day
      /\ retryIn \in SUBSET Int /\ \A t \in retryIn : t <= RetryDelay
  BY <1>1 DEF SInv, PassOK, SchedulerTypeOK
<1>3. dailyIn <= 0 /\ \A s, t \in retryIn : s = t
  <2>1. due[1] = "daily" /\ 1 \in DOMAIN due
    BY <1>1, <1>2, PassesAreLists
  <2> QED
    BY <1>1, <2>1 DEF SInv, DailyIsDue
<1>4. /\ dailyIn' \in Int /\ dailyIn' <= Day /\ dailyIn' > 0
      /\ dailyIn - d + Day <= dailyIn'
  <2>1. dailyIn - d \in Int /\ dailyIn - d <= 0 /\ dailyIn - d <= Day
    BY <1>2, <1>3
  <2> HIDE DEF PassOn
  <2> QED
    BY <1>1, <2>1, NextSlotFacts
<1>5. \A t \in retryIn' : t = RetryDelay \/ \E s \in retryIn : t = s - d
  BY <1>1 DEF After
<1>6. SchedulerTypeOK' /\ PassOK'
  <2>1. retryIn' \in SUBSET Int /\ \A t \in retryIn' : t <= RetryDelay
    BY <1>2, <1>5
  <2> QED
    BY <1>1, <1>4, <2>1, PassOnTypes DEF SInv, SchedulerTypeOK, Outcomes
<1>7. OneRetryPerDay' /\ RetryPending'
  BY <1>1 DEF OneRetryPerDay, RetryPending
<1>8. \A s \in retryIn : s < dailyIn + RetryDelay
  BY DEF SInv, RetryComesFirst
<1>9. \A t \in retryIn' : t < dailyIn' + RetryDelay
  BY <1>2, <1>4, <1>5, <1>8
<1>10. \A s, t \in retryIn' : s < t => 0 < t /\ s < dailyIn'
  <2> SUFFICES ASSUME NEW s \in retryIn', NEW t \in retryIn', s < t
               PROVE  0 < t /\ s < dailyIn'
    OBVIOUS
  <2>1. t = RetryDelay \/ \E u \in retryIn : t = u - d
    BY <1>5
  <2>2. s = RetryDelay \/ \E u \in retryIn : s = u - d
    BY <1>5
  <2>3. t = RetryDelay
    BY <1>2, <1>3, <2>1, <2>2
  <2>4. PICK u \in retryIn : s = u - d
    BY <2>2, <2>3
  <2> QED
    BY <1>2, <1>4, <1>8, <2>3, <2>4
<1>11. RetryComesFirst' /\ RetriesApart'
  BY <1>9, <1>10 DEF RetryComesFirst, RetriesApart
<1>12. DailyIsDue'
  <2>1. due # <<"retry", "daily">>
    BY <1>1
  <2>2. \/ due' = <<>> /\ loop' = "sleep"
        \/ due' = <<"retry">> /\ loop' = "pass"
    BY <1>1, <2>1, PassOnCases
  <2> QED
    BY <2>2 DEF DailyIsDue
<1> QED
  BY <1>6, <1>7, <1>11, <1>12 DEF SInv

(* A restart forgets the retry with the rest of the table.                   *)
LEMMA CrashKeepsSInv == SInv /\ Crash => SInv'
<1> SUFFICES ASSUME SInv, Crash PROVE SInv'
  OBVIOUS
<1>1. dailyIn \in Int /\ dailyIn <= Day /\ crashes \in 0..MaxCrashes
  BY DEF SInv, SchedulerTypeOK
<1>2. dailyIn' \in Int /\ dailyIn' <= Day
  BY <1>1, NextSlotFacts DEF Crash
<1>3. SchedulerTypeOK'
  BY <1>1, <1>2, SchedulerAssumption DEF Crash, SchedulerTypeOK, Outcomes, NoJob
<1> QED
  BY <1>3 DEF Crash, SInv, OneRetryPerDay, PassOK, RetryPending, RetryComesFirst,
              RetriesApart, DailyIsDue

LEMMA NextSInv == SInv /\ [SchedulerNext]_schedulerVars => SInv'
<1> SUFFICES ASSUME SInv, [SchedulerNext]_schedulerVars PROVE SInv'
  OBVIOUS
<1>1. CASE Sleep
  BY <1>1, SleepKeepsSInv
<1>2. CASE RunPending
  BY <1>2, RunPendingKeepsSInv
<1>3. CASE Job(TRUE) \/ Job(FALSE)
  BY <1>3, DailyKeepsSInv, RetryKeepsSInv DEF Job
<1>4. CASE Crash
  BY <1>4, CrashKeepsSInv
<1>5. CASE UNCHANGED schedulerVars
  BY <1>5 DEF schedulerVars, SInv, SchedulerTypeOK, OneRetryPerDay, PassOK, RetryPending,
              RetryComesFirst, RetriesApart, DailyIsDue
<1> QED
  BY <1>1, <1>2, <1>3, <1>4, <1>5 DEF SchedulerNext

LEMMA SpecSInv == SchedulerSpec => []SInv
  BY InitSInv, NextSInv, PTL DEF SchedulerSpec

(* The table of jobs keeps its shape: the next daily job is never more than  *)
(* a day away, and a retry never further than its delay, however long the    *)
(* jobs before them took (main, _run_job, _run_once_and_cancel).             *)
THEOREM SchedulerTypes == SchedulerSpec => []SchedulerTypeOK
<1>1. SInv => SchedulerTypeOK
  BY DEF SInv
<1> QED
  BY <1>1, SpecSInv, PTL

(* A backend that keeps failing is retried once a day at most, whatever the  *)
(* day, the delay (of a day at most) and the time the jobs take: two retries *)
(* in the table are a delay apart, and the first that runs removes both      *)
(* (_run_once_and_cancel).                                                   *)
THEOREM RetriesAreRare == SchedulerSpec => []OneRetryPerDay
<1>1. SInv => OneRetryPerDay
  BY DEF SInv
<1> QED
  BY <1>1, SpecSInv, PTL

-----------------------------------------------------------------------------
(* What is behind the retry of a failed day, which under fairness is a       *)
(* property of the runs only (FailedDayIsRetried).                           *)
FailedDaily == [job |-> "daily", ok |-> FALSE]

(* As long as the process lives, the failure of the daily job stays in the   *)
(* table, as a retry that is never further away than its delay; and a pass,  *)
(* which works from a list made before its first job, never runs a retry     *)
(* that has meanwhile been cancelled.                                        *)
RetryIsKept ==
  /\ last = FailedDaily => \E t \in retryIn : t <= RetryDelay
  /\ \A i \in DOMAIN due : due[i] = "retry" => \E t \in retryIn : t <= 0

LEMMA StepKeepsRetry ==
  ASSUME SInv, RetryIsKept, [SchedulerNext]_schedulerVars
  PROVE  RetryIsKept'
<1> USE SchedulerAssumption
<1>0. /\ retryIn \in SUBSET Int /\ \A t \in retryIn : t <= RetryDelay
      /\ loop = "sleep" => due = <<>>
      /\ last = FailedDaily => retryIn # {}
  BY DEF SInv, SchedulerTypeOK, PassOK, RetryIsKept
<1>1. CASE Sleep
  <2>1. due = <<>> /\ due' = due /\ last' = last /\ retryIn' = {t - 1 : t \in retryIn}
    BY <1>0, <1>1 DEF Sleep, After
  <2>2. ASSUME last = FailedDaily
        PROVE  \E t \in retryIn' : t <= RetryDelay
    <3>1. PICK t \in retryIn : t <= RetryDelay
      BY <2>2 DEF RetryIsKept
    <3>2. t - 1 \in retryIn' /\ t - 1 <= RetryDelay
      BY <1>0, <2>1, <3>1
    <3> QED
      BY <3>2
  <2> QED
    BY <2>1, <2>2 DEF RetryIsKept
<1>2. CASE RunPending
  <2>1. loop = "sleep" /\ ~NothingDue /\ retryIn' = retryIn /\ last' = last
    BY <1>2 DEF RunPending
  <2>2. ASSUME NEW i \in DOMAIN due', due'[i] = "retry"
        PROVE  \E t \in retryIn : t <= 0
    <3>1. due' # <<"daily">>
      BY <2>2
    <3>2. CASE \A t \in retryIn : t > 0
      <4>1. DueJobs = {<<dailyIn, "daily">>}
        BY <1>0, <2>1, <3>2, DueJobsCases
      <4>2. PICK list \in [1..Cardinality(DueJobs) -> DueJobs] :
              due' = [k \in DOMAIN list |-> list[k][2]]
        BY <1>2 DEF RunPending
      <4>3. i \in DOMAIN list /\ list[i] \in DueJobs /\ due'[i] = list[i][2]
        BY <2>2, <4>2
      <4> QED
        BY <2>2, <4>1, <4>3
    <3> QED
      BY <1>0, <3>2
  <2> QED
    BY <2>1, <2>2 DEF RetryIsKept
<1>3. ASSUME NEW d \in 0..MaxDuration, NEW ok \in BOOLEAN, Daily(d, ok)
      PROVE  RetryIsKept'
  <2>1. /\ loop = "pass" /\ Head(due) = "daily" /\ PassOn
        /\ retryIn' = {t - d : t \in retryIn} \cup (IF ok THEN {} ELSE {RetryDelay})
        /\ last' = [job |-> "daily", ok |-> ok]
    BY <1>3 DEF Daily, JobTable, After
  <2>2. last' = FailedDaily => \E t \in retryIn' : t <= RetryDelay
    <3>1. last' = FailedDaily => ok = FALSE
      BY <2>1 DEF FailedDaily
    <3>2. ok = FALSE => RetryDelay \in retryIn' /\ RetryDelay <= RetryDelay
      BY <2>1
    <3> QED
      BY <3>1, <3>2
  <2>3. due # <<"retry", "daily">>
    BY <2>1
  <2>4. \/ due' = <<>>
        \/ due = <<"daily", "retry">> /\ due' = <<"retry">>
    BY <2>1, <2>3, PassOnCases
  <2>5. ASSUME due = <<"daily", "retry">>
        PROVE  \E t \in retryIn' : t <= 0
    <3>1. 2 \in DOMAIN due /\ due[2] = "retry"
      BY <2>5
    <3>2. PICK t \in retryIn : t <= 0
      BY <3>1 DEF RetryIsKept
    <3>3. t - d \in retryIn' /\ t - d <= 0
      BY <1>0, <2>1, <3>2
    <3> QED
      BY <3>3
  <2> QED
    BY <2>2, <2>4, <2>5 DEF RetryIsKept
<1>4. ASSUME NEW d \in 0..MaxDuration, NEW ok \in BOOLEAN, Retry(d, ok)
      PROVE  RetryIsKept'
  <2>1. loop = "pass" /\ Head(due) = "retry" /\ PassOn /\ last'.job = "retry"
    BY <1>4 DEF Retry
  <2>2. due # <<"daily", "retry">>
    BY <2>1
  <2>3. due' = <<>> \/ due' = <<"daily">>
    BY <2>1, <2>2, PassOnCases
  <2> QED
    BY <2>1, <2>3 DEF RetryIsKept, FailedDaily
<1>5. CASE Crash
  BY <1>5 DEF Crash, RetryIsKept, FailedDaily, NoJob
<1>6. CASE UNCHANGED schedulerVars
  BY <1>6 DEF schedulerVars, RetryIsKept
<1> QED
  BY <1>1, <1>2, <1>3, <1>4, <1>5, <1>6 DEF SchedulerNext, Job

THEOREM RetriesAreKept == SchedulerSpec => []RetryIsKept
<1>1. SchedulerInit => RetryIsKept
  BY DEF SchedulerInit, RetryIsKept, FailedDaily, NoJob
<1> QED
  BY <1>1, SpecSInv, StepKeepsRetry, PTL DEF SchedulerSpec

(* A retry is overtaken by one daily job at most: whatever the job that runs *)
(* before it took, it is due before the next one.                            *)
OvertakenOnce ==
  [][\A d \in 0..MaxDuration, ok \in BOOLEAN :
       Daily(d, ok) => \A t \in retryIn : t - d \in retryIn' /\ t - d < dailyIn']_schedulerVars

THEOREM RetriesComeNext == SchedulerSpec => OvertakenOnce
<1>1. SInv /\ [SchedulerNext]_schedulerVars =>
        [\A d \in 0..MaxDuration, ok \in BOOLEAN :
           Daily(d, ok) => \A t \in retryIn : t - d \in retryIn' /\ t - d < dailyIn']_schedulerVars
  <2> SUFFICES ASSUME SInv, NEW d \in 0..MaxDuration, NEW ok \in BOOLEAN, Daily(d, ok),
                      NEW t \in retryIn
               PROVE  t - d \in retryIn' /\ t - d < dailyIn'
    OBVIOUS
  <2>1. /\ retryIn' = After(d) \cup (IF ok THEN {} ELSE {RetryDelay})
        /\ dailyIn' = NextSlot(dailyIn - d) /\ Head(due) = "daily" /\ loop = "pass"
    BY DEF Daily, JobTable
  <2>2. due \in Passes /\ dailyIn \in Int /\ dailyIn <= Day /\ t \in Int
    BY <2>1 DEF SInv, PassOK, SchedulerTypeOK
  <2>3. dailyIn <= 0
    <3>1. due[1] = "daily" /\ 1 \in DOMAIN due
      BY <2>1, <2>2, PassesAreLists
    <3> QED
      BY <2>1, <3>1 DEF SInv, DailyIsDue
  <2>4. dailyIn' \in Int /\ dailyIn - d + Day <= dailyIn'
    <3>1. dailyIn - d \in Int /\ dailyIn - d <= 0 /\ dailyIn - d <= Day
      BY <2>2, <2>3, SchedulerAssumption
    <3> QED
      BY <2>1, <3>1, NextSlotFacts
  <2>5. t < dailyIn + RetryDelay
    BY DEF SInv, RetryComesFirst
  <2>6. t - d < dailyIn'
    BY <2>2, <2>4, <2>5, SchedulerAssumption
  <2>7. t - d \in retryIn'
    BY <2>1 DEF After
  <2> QED
    BY <2>6, <2>7
<1> QED
  BY <1>1, SpecSInv, PTL DEF SchedulerSpec, OvertakenOnce

(* The loop always has something to do: it sleeps, or the jobs that are due  *)
(* can be put in an order, or the pass has a job to run.                     *)
LoopGoesOn ==
  \/ loop = "sleep" /\ NothingDue
  \/ /\ loop = "sleep" /\ ~NothingDue
     /\ \E list \in [1..Cardinality(DueJobs) -> DueJobs] :
          \A i, j \in DOMAIN list : i < j => Earlier(list[i], list[j])
  \/ loop = "pass" /\ due # <<>> /\ Head(due) \in {"daily", "retry"}

THEOREM SchedulerGoesOn == SchedulerSpec => []LoopGoesOn
<1>1. SInv => LoopGoesOn
  <2> SUFFICES ASSUME SInv PROVE LoopGoesOn
    OBVIOUS
  <2>1. loop \in {"sleep", "pass"} /\ retryIn \in SUBSET Int /\ dailyIn \in Int
    BY DEF SInv, SchedulerTypeOK
  <2>2. CASE loop = "pass"
    <3>1. due \in Passes
      BY <2>2 DEF SInv, PassOK
    <3> QED
      BY <2>2, <3>1 DEF Passes, LoopGoesOn
  <2>3. CASE loop = "sleep" /\ ~NothingDue
    <3>1. ASSUME NEW j, DueJobs = {j}
          PROVE  \E list \in [1..Cardinality(DueJobs) -> DueJobs] :
                   \A i, k \in DOMAIN list : i < k => Earlier(list[i], list[k])
      <4>1. Cardinality(DueJobs) = 1
        BY <3>1, FS_Singleton
      <4> DEFINE list == [i \in 1..1 |-> j]
      <4>2. list \in [1..1 -> DueJobs] /\ DOMAIN list = 1..1
        BY <3>1
      <4>3. \A i, k \in 1..1 : ~(i < k)
        OBVIOUS
      <4> HIDE DEF list
      <4> QED
        BY <4>1, <4>2, <4>3
    <3>2. ASSUME NEW a, NEW b, a # b, DueJobs = {a, b}, Earlier(a, b)
          PROVE  \E list \in [1..Cardinality(DueJobs) -> DueJobs] :
                   \A i, k \in DOMAIN list : i < k => Earlier(list[i], list[k])
      <4>1. Cardinality(DueJobs) = 2
        BY <3>2, TwoJobs
      <4> DEFINE list == [i \in 1..2 |-> IF i = 1 THEN a ELSE b]
      <4>2. list \in [1..2 -> DueJobs] /\ DOMAIN list = 1..2 /\ list[1] = a /\ list[2] = b
        BY <3>2
      <4>3. \A i, k \in 1..2 : i < k => i = 1 /\ k = 2
        OBVIOUS
      <4> HIDE DEF list
      <4> QED
        BY <3>2, <4>1, <4>2, <4>3
    <3>3. ASSUME NEW t \in retryIn, DueJobs = {<<t, "retry">>, <<dailyIn, "daily">>}
          PROVE  \E list \in [1..Cardinality(DueJobs) -> DueJobs] :
                   \A i, k \in DOMAIN list : i < k => Earlier(list[i], list[k])
      <4> DEFINE r == <<t, "retry">>
                 d == <<dailyIn, "daily">>
      <4>1. r # d /\ DueJobs = {r, d} /\ DueJobs = {d, r}
        BY <3>3
      <4>2. t \in Int
        BY <2>1
      <4>3. Earlier(r, d) \/ Earlier(d, r)
        BY <2>1, <4>2 DEF Earlier
      <4> HIDE DEF r, d
      <4> QED
        BY <3>2, <4>1, <4>3
    <3> QED
      BY <2>3, <3>1, <3>3, DueJobsCases DEF LoopGoesOn
  <2> QED
    BY <2>1, <2>2, <2>3 DEF LoopGoesOn
<1> QED
  BY <1>1, SpecSInv, PTL
=============================================================================

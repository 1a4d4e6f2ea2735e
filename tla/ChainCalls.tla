------------------------------ MODULE ChainCalls ------------------------------
(***************************************************************************)
(* How scorer/bittensor_client.py lets coroutines call the blocking chain   *)
(* SDK: get_all_netuids, get_current_block, get_subnet_metrics,             *)
(* prefetch_all_identities and get_subnet_identity all take a permit of one *)
(* asyncio.Semaphore, submit a function to one ThreadPoolExecutor, and      *)
(* wait for it with a timeout.  A thread that outlives its timeout cannot   *)
(* be killed: it stays behind as a zombie and keeps its worker.             *)
(*                                                                          *)
(* The semaphore and the executor are module globals: a process that runs   *)
(* several score runs (scorer/scheduler.py, one asyncio.run per job) keeps  *)
(* them, together with the zombies, from one event loop to the next.        *)
(***************************************************************************)
EXTENDS Naturals, Sequences, FiniteSets

CONSTANTS
  Calls,          \* the chain calls of one score run
  MaxConcurrent,  \* _MAX_CONCURRENT, the permits of the semaphore
  MaxWorkers,     \* max_workers of _executor
  MaxRuns         \* bound: the score runs of one process

ASSUME ChainCallsAssumption ==
  /\ IsFiniteSet(Calls)
  /\ MaxConcurrent \in Nat \ {0}
  /\ MaxWorkers \in Nat
  /\ MaxConcurrent <= MaxWorkers
  /\ MaxRuns \in Nat \ {0}

VARIABLES
  run,       \* the current score run, which is also its event loop
  boundLoop, \* the loop the semaphore belongs to; 0 until a call first waits
  value,     \* the free permits
  waiters,   \* the calls waiting for a permit, oldest first
  zombies,   \* the workers still busy with a call that has timed out
  pc         \* where each call of the current run is

vars == <<run, boundLoop, value, waiters, zombies, pc>>

Final == {"answered", "timedout", "lost"}
Status == {"idle", "waiting", "queued", "running"} \cup Final

(* The calls inside the `async with`, submitted to the executor; of them,   *)
(* the ones no worker has taken yet and the ones a worker executes.         *)
Holders == {c \in Calls : pc[c] \in {"queued", "running"}}
Queued  == {c \in Calls : pc[c] = "queued"}
Running == {c \in Calls : pc[c] = "running"}
BusyWorkers == Cardinality(Running) + zombies

TypeOK ==
  /\ run \in 1..MaxRuns
  /\ boundLoop \in 0..MaxRuns
  /\ value \in 0..MaxConcurrent
  /\ waiters \in Seq(Calls)
  /\ zombies \in 0..MaxWorkers
  /\ pc \in [Calls -> Status]

Init ==
  /\ run = 1
  /\ boundLoop = 0
  /\ value = MaxConcurrent
  /\ waiters = <<>>
  /\ zombies = 0
  /\ pc = [c \in Calls |-> "idle"]

-----------------------------------------------------------------------------
(* Mutant of Acquire: the function is submitted outside the semaphore.      *)
AcquireNothing(c) ==
  /\ pc[c] = "idle"
  /\ pc' = [pc EXCEPT ![c] = "queued"]
  /\ UNCHANGED <<run, boundLoop, value, waiters, zombies>>

(* A call enters `async with _get_sem()`. A free permit is taken at once    *)
(* and the function is submitted.                                           *)
Acquire(c) ==
  /\ pc[c] = "idle"
  /\ value > 0
  /\ waiters = <<>>
  /\ value' = value - 1
  /\ pc' = [pc EXCEPT ![c] = "queued"]
  /\ UNCHANGED <<run, boundLoop, waiters, zombies>>

(* Without a free permit the call waits. The first call that ever waits     *)
(* binds the semaphore to its event loop.                                   *)
Wait(c) ==
  /\ pc[c] = "idle"
  /\ value = 0 \/ waiters # <<>>
  /\ boundLoop \in {0, run}
  /\ boundLoop' = run
  /\ waiters' = Append(waiters, c)
  /\ pc' = [pc EXCEPT ![c] = "waiting"]
  /\ UNCHANGED <<run, value, zombies>>

(* A semaphore that another loop has bound refuses to wait: the acquire     *)
(* raises RuntimeError, outside the try of every caller.                    *)
RefuseToWait(c) ==
  /\ pc[c] = "idle"
  /\ value = 0 \/ waiters # <<>>
  /\ boundLoop \notin {0, run}
  /\ pc' = [pc EXCEPT ![c] = "lost"]
  /\ UNCHANGED <<run, boundLoop, value, waiters, zombies>>

(* An idle worker takes a submitted call.                                   *)
TakeCall(c) ==
  /\ pc[c] = "queued"
  /\ BusyWorkers < MaxWorkers
  /\ pc' = [pc EXCEPT ![c] = "running"]
  /\ UNCHANGED <<run, boundLoop, value, waiters, zombies>>

-----------------------------------------------------------------------------
(* Mutants of Leave: a permit that no call waits for is lost; a permit that *)
(* is handed to a waiter is given back as well.                             *)
LeaveLosingPermit(c, s) ==
  /\ pc' = IF waiters = <<>> THEN [pc EXCEPT ![c] = s]
                             ELSE [pc EXCEPT ![c] = s, ![Head(waiters)] = "queued"]
  /\ waiters' = IF waiters = <<>> THEN waiters ELSE Tail(waiters)
  /\ UNCHANGED value

LeaveReleasingTwice(c, s) ==
  /\ pc' = IF waiters = <<>> THEN [pc EXCEPT ![c] = s]
                             ELSE [pc EXCEPT ![c] = s, ![Head(waiters)] = "queued"]
  /\ waiters' = IF waiters = <<>> THEN waiters ELSE Tail(waiters)
  /\ value' = value + 1

(* Call c leaves the `async with` with status s. Its permit goes straight   *)
(* to the oldest waiter, which submits its own function, or back to the     *)
(* semaphore.                                                               *)
Leave(c, s) ==
  \/ /\ waiters = <<>>
     /\ value' = value + 1
     /\ pc' = [pc EXCEPT ![c] = s]
     /\ UNCHANGED waiters
  \/ /\ waiters # <<>>
     /\ waiters' = Tail(waiters)
     /\ pc' = [pc EXCEPT ![c] = s, ![Head(waiters)] = "queued"]
     /\ UNCHANGED value

(* The worker returns in time. The fetch functions catch their own errors,  *)
(* so an answer may be partial or empty, but it is an answer.               *)
Answer(c) ==
  /\ pc[c] = "running"
  /\ Leave(c, "answered")
  /\ UNCHANGED <<run, boundLoop, zombies>>

(* Mutant of TimeoutQueued: the time of a call only runs once a worker is   *)
(* there to take it.                                                        *)
TimeoutWithWorker(c) ==
  /\ pc[c] = "queued"
  /\ BusyWorkers < MaxWorkers
  /\ Leave(c, "timedout")
  /\ UNCHANGED <<run, boundLoop, zombies>>

(* wait_for gives up on a call no worker has started: its work item is      *)
(* cancelled and never runs.                                                *)
TimeoutQueued(c) ==
  /\ pc[c] = "queued"
  /\ Leave(c, "timedout")
  /\ UNCHANGED <<run, boundLoop, zombies>>

(* wait_for gives up on a running call: its thread becomes a zombie.        *)
TimeoutRunning(c) ==
  /\ pc[c] = "running"
  /\ Leave(c, "timedout")
  /\ zombies' = zombies + 1
  /\ UNCHANGED <<run, boundLoop>>

(* A zombie's chain call ends at last; nobody reads its result.             *)
ZombieEnds ==
  /\ zombies > 0
  /\ zombies' = zombies - 1
  /\ UNCHANGED <<run, boundLoop, value, waiters, pc>>

(* Mutant of NextRun: the end of a run waits for its threads, as a default  *)
(* executor would.                                                          *)
NextRunJoiningThreads ==
  /\ run < MaxRuns
  /\ \A c \in Calls : pc[c] \in Final
  /\ zombies = 0
  /\ run' = run + 1
  /\ pc' = [c \in Calls |-> "idle"]
  /\ UNCHANGED <<boundLoop, value, waiters, zombies>>

(* Every call has returned: the loop closes, and the scheduler's next job   *)
(* starts a run on a new loop with the same semaphore and executor.         *)
NextRun ==
  /\ run < MaxRuns
  /\ \A c \in Calls : pc[c] \in Final
  /\ run' = run + 1
  /\ pc' = [c \in Calls |-> "idle"]
  /\ UNCHANGED <<boundLoop, value, waiters, zombies>>

(* The RuntimeError of a refused identity call leaves run() through a       *)
(* gather that does not collect exceptions: asyncio.run cancels every other *)
(* coroutine, which gives the permits back, and running threads become      *)
(* zombies. The scheduler's next job is a new run.                          *)
AbortRun ==
  /\ run < MaxRuns
  /\ \E c \in Calls : pc[c] = "lost"
  /\ run' = run + 1
  /\ value' = value + Cardinality(Holders)
  /\ waiters' = <<>>
  /\ zombies' = zombies + Cardinality(Running)
  /\ pc' = [c \in Calls |-> "idle"]
  /\ UNCHANGED boundLoop

-----------------------------------------------------------------------------
Start(c) == Acquire(c) \/ Wait(c) \/ RefuseToWait(c)
Timeout(c) == TimeoutQueued(c) \/ TimeoutRunning(c)

Next ==
  \/ \E c \in Calls : Start(c) \/ TakeCall(c) \/ Answer(c) \/ Timeout(c)
  \/ ZombieEnds
  \/ NextRun
  \/ AbortRun

(* The event loop runs every ready coroutine and every timer. Nothing       *)
(* promises that a chain call returns, so neither Answer nor ZombieEnds is  *)
(* fair.                                                                    *)
Fairness ==
  /\ \A c \in Calls : WF_vars(Start(c)) /\ WF_vars(Timeout(c))
  /\ WF_vars(NextRun)

Spec == Init /\ [][Next]_vars
FairSpec == Spec /\ Fairness

-----------------------------------------------------------------------------
(* The permits that are free and the calls that hold one always add up to   *)
(* _MAX_CONCURRENT, whatever mix of answers, timeouts and zombies has        *)
(* happened, and a call only waits while no permit is free.                  *)
PermitsConserved ==
  /\ value + Cardinality(Holders) = MaxConcurrent
  /\ waiters # <<>> => value = 0

(* The line at the semaphore: everyone in it is waiting, and stands in it   *)
(* once.                                                                    *)
WaitersInLine ==
  /\ \A i \in 1..Len(waiters) : pc[waiters[i]] = "waiting"
  /\ \A i, j \in 1..Len(waiters) : waiters[i] = waiters[j] => i = j

(* No more threads than workers, zombies included.                          *)
WorkersBound == BusyWorkers <= MaxWorkers

IInv == TypeOK /\ PermitsConserved /\ WaitersInLine /\ WorkersBound

(* What the size of the pool really buys: as long as no more than           *)
(* MaxWorkers - MaxConcurrent threads are zombies, a submitted call finds   *)
(* a free worker.                                                           *)
WorkerForEveryHolder ==
  zombies <= MaxWorkers - MaxConcurrent /\ Queued # {}
    => BusyWorkers < MaxWorkers

(* The comment on _sem, taken at its word: the semaphore is "always created *)
(* inside the running loop", so that no call is refused a place in line.    *)
NoCallLost == \A c \in Calls : pc[c] # "lost"

(* Every call a run starts comes back to its coroutine even when the chain  *)
(* never answers again and every worker is a zombie, so the gather of a     *)
(* score run always ends.                                                   *)
EveryCallReturns == \A c \in Calls : pc[c] # "idle" ~> pc[c] \in Final

(* The process gets to its last run, however many threads hang.             *)
RunsGoOn == <>(run = MaxRuns /\ \A c \in Calls : pc[c] \in Final)
=============================================================================

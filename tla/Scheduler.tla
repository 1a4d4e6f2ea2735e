------------------------------ MODULE Scheduler ------------------------------
(***************************************************************************)
(* scorer/scheduler.py: the self-hosted process that runs the daily score   *)
(* run, and the retry it schedules when a run fails.  The table of jobs     *)
(* belongs to the `schedule` library and lives in memory only.              *)
(*                                                                          *)
(* Time is counted down: dailyIn and the members of retryIn are the time    *)
(* until a job is due, zero or negative once it is.  One unit stands for    *)
(* the retry delay's granularity (an hour); a job may block the loop for    *)
(* several units.                                                           *)
(***************************************************************************)
EXTENDS Integers, Sequences, FiniteSets

CONSTANTS
  Day,          \* time between two daily runs
  RetryDelay,   \* _RETRY_DELAY_SECONDS
  MaxDuration,  \* bound: how long one job may take
  MaxCrashes    \* bound: restarts of the process

ASSUME SchedulerAssumption ==
  /\ Day \in Nat \ {0}
  /\ RetryDelay \in 1..Day
  /\ MaxDuration \in Nat
  /\ MaxCrashes \in Nat

VARIABLES
  loop,       \* what the main loop does: "sleep", or "pass" through due jobs
  dailyIn,  \* time until the daily job is due
  retryIn,  \* the jobs tagged "retry", each as the time until it is due
  due,      \* the due jobs run_pending has still to run in this pass
  last,     \* how the last job ended
  retried,  \* history: the retries run since the last daily job
  crashes   \* restarts so far

schedulerVars == <<loop, dailyIn, retryIn, due, last, retried, crashes>>

Outcomes == [job : {"daily", "retry", "none"}, ok : BOOLEAN]

NoJob == [job |-> "none", ok |-> TRUE]

SchedulerTypeOK ==
  /\ loop \in {"sleep", "pass"}
  /\ dailyIn \in Int /\ dailyIn <= Day
  /\ retryIn \in SUBSET Int /\ \A t \in retryIn : t <= RetryDelay
  /\ due \in Seq({"daily", "retry"})
  /\ last \in Outcomes
  /\ retried \in Nat
  /\ crashes \in 0..MaxCrashes

SchedulerInit ==
  /\ loop = "sleep"
  /\ dailyIn \in 1..Day
  /\ retryIn = {}
  /\ due = <<>>
  /\ last = NoJob
  /\ retried = 0
  /\ crashes = 0

-----------------------------------------------------------------------------
After(d) == {t - d : t \in retryIn}

(* `every().day.at()` asks for the next occurrence of its time of day.      *)
NextSlot(t) == IF t > 0 THEN t ELSE Day - ((-t) % Day)

NothingDue == dailyIn > 0 /\ \A t \in retryIn : t > 0

(* The main loop looks at the table twice a minute: time passes in its      *)
(* sleep only while no job is due.                                          *)
Sleep ==
  /\ loop = "sleep"
  /\ NothingDue
  /\ dailyIn' = dailyIn - 1
  /\ retryIn' = After(1)
  /\ UNCHANGED <<loop, due, last, retried, crashes>>

(* run_pending fixes the list of due jobs, the earliest first, before it    *)
(* runs any of them; the daily job was added to the table first.            *)
DueJobs ==
  {<<t, "retry">> : t \in {r \in retryIn : r <= 0}}
    \cup (IF dailyIn <= 0 THEN {<<dailyIn, "daily">>} ELSE {})

Earlier(a, b) == a[1] < b[1] \/ (a[1] = b[1] /\ a[2] = "daily" /\ b[2] # "daily")

RunPending ==
  /\ loop = "sleep"
  /\ ~NothingDue
  /\ \E list \in [1..Cardinality(DueJobs) -> DueJobs] :
       /\ \A i, j \in DOMAIN list : i < j => Earlier(list[i], list[j])
       /\ due' = [i \in DOMAIN list |-> list[i][2]]
  /\ loop' = "pass"
  /\ UNCHANGED <<dailyIn, retryIn, last, retried, crashes>>

(* The pass goes on with the next job of its list, or ends.                 *)
PassOn ==
  /\ due' = Tail(due)
  /\ loop' = IF Len(due) = 1 THEN "sleep" ELSE "pass"
  /\ UNCHANGED crashes

(* Mutants of JobTable: a failed run adds no retry; the duration of the run  *)
(* is added to the delay.                                                   *)
JobTableWithoutRetry(d, ok) == After(d)

JobTableLate(d, ok) == After(d) \cup (IF ok THEN {} ELSE {RetryDelay + d})

(* _run_job after d units: a run that raises, or that scores nothing, adds  *)
(* a retry job.                                                             *)
JobTable(d, ok) == After(d) \cup (IF ok THEN {} ELSE {RetryDelay})

(* The daily job: the library gives it its next slot when it returns.       *)
Daily(d, ok) ==
  /\ loop = "pass" /\ Head(due) = "daily"
  /\ retryIn' = JobTable(d, ok)
  /\ dailyIn' = NextSlot(dailyIn - d)
  /\ last' = [job |-> "daily", ok |-> ok]
  /\ retried' = 0
  /\ PassOn

(* Mutants of Retry: only the retry itself leaves the table; the table is   *)
(* built anew as well, so that the day starts again.                        *)
RetryCancelsItself(d, ok) ==
  /\ loop = "pass" /\ Head(due) = "retry"
  /\ retryIn' = {t \in JobTable(d, ok) : t > 0}
  /\ dailyIn' = dailyIn - d
  /\ last' = [job |-> "retry", ok |-> ok]
  /\ retried' = retried + 1
  /\ PassOn

RetryRestartsDay(d, ok) ==
  /\ loop = "pass" /\ Head(due) = "retry"
  /\ retryIn' = {t \in JobTable(d, ok) : t > 0}
  /\ dailyIn' = Day
  /\ last' = [job |-> "retry", ok |-> ok]
  /\ retried' = 1
  /\ PassOn

(* _run_once_and_cancel: whatever _run_job did, every job tagged "retry" is *)
(* removed from the table, the one that a failed run has just added         *)
(* included.                                                                *)
Retry(d, ok) ==
  /\ loop = "pass" /\ Head(due) = "retry"
  /\ retryIn' = {}
  /\ dailyIn' = dailyIn - d
  /\ last' = [job |-> "retry", ok |-> ok]
  /\ retried' = retried + 1
  /\ PassOn

(* The process dies and is started again: main() builds a fresh table with  *)
(* the daily job alone.                                                     *)
Crash ==
  /\ crashes < MaxCrashes
  /\ crashes' = crashes + 1
  /\ loop' = "sleep"
  /\ due' = <<>>
  /\ retryIn' = {}
  /\ dailyIn' = NextSlot(dailyIn)
  /\ last' = NoJob
  /\ retried' = 0

Job(ok) == \E d \in 0..MaxDuration : Daily(d, ok) \/ Retry(d, ok)

SchedulerNext == Sleep \/ RunPending \/ Job(TRUE) \/ Job(FALSE) \/ Crash

(* The loop never stops looking at the table, and a run ends, with success  *)
(* or failure: every chain call of a run times out (ChainCalls).            *)
SchedulerFairness ==
  /\ WF_schedulerVars(Sleep)
  /\ WF_schedulerVars(RunPending)
  /\ WF_schedulerVars(Job(TRUE) \/ Job(FALSE))

SchedulerSpec == SchedulerInit /\ [][SchedulerNext]_schedulerVars
FairSchedulerSpec == SchedulerSpec /\ SchedulerFairness

-----------------------------------------------------------------------------
(* A backend that keeps failing is not hammered: between two daily jobs at  *)
(* most one retry runs, even when jobs are so long that a retry and the     *)
(* next daily job fall into the same pass.                                  *)
OneRetryPerDay == retried <= 1

(* A failed daily run is tried again before the process does anything else  *)
(* with the day, unless the process is restarted in between: the retry      *)
(* lives in memory only.                                                    *)
FailedDayIsRetried ==
  last = [job |-> "daily", ok |-> FALSE] ~> last.job = "retry" \/ last = NoJob

(* Failures, retries and long jobs never make the daily job fall out of the *)
(* table.                                                                   *)
DailyRunsGoOn == []<>(loop = "pass" /\ Head(due) = "daily")
=============================================================================

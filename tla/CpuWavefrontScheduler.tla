------------------------ MODULE CpuWavefrontScheduler ------------------------
(***************************************************************************)
(* Renderer/Source/CpuWavefrontScheduler.cpp: a persistent pool of worker  *)
(* threads, one dispatch at a time, and a barrier.                          *)
(*                                                                         *)
(* Each action is a region between two points where another thread can     *)
(* run: one critical section of work_mutex_, one kernel callback, one       *)
(* notification.  Condition variables keep a set of sleepers: a thread      *)
(* whose predicate is false sleeps until a notification (or a spurious      *)
(* wake-up) makes it evaluate the predicate again.  Lanes are counted and   *)
(* workers indexed from 0, as in the code.                                  *)
(***************************************************************************)
EXTENDS Naturals, FiniteSets

CONSTANTS
  Caller,         \* threads that call execute_stage
  NoCaller,       \* a null kernel pointer, an unowned dispatch mutex
  WorkerCount,    \* worker_count_
  MaxLanes,       \* bound on the lanes of one dispatch
  MaxGeneration,  \* the largest value generation_ can hold
  Failure         \* WorkerFailureKind without none

ASSUME SchedulerAssumption ==
  /\ WorkerCount \in Nat \ {0}
  /\ MaxLanes \in Nat /\ MaxGeneration \in Nat
  /\ NoCaller \notin Caller
  /\ "none" \notin Failure

Worker == 0..WorkerCount - 1
Lane == 0..MaxLanes - 1

VARIABLES
  phase,              \* where the owner is between create and destruction
  moved,              \* the scheduler has been moved: an empty handle is left
  dispatch_mutex,     \* who holds dispatch_mutex_
  stopping,           \* stopping_
  generation,         \* generation_
  completed_workers,  \* completed_workers_
  workers_used,       \* workers_used_
  lanes,              \* the size of lanes_
  kernel,             \* kernel_: the caller whose frame owns the callback
  outcomes,           \* outcomes_
  wpc, task,          \* per worker: where it is, and the locals of its loop
  cpc, request,       \* per caller: where it is, and the lanes it passed
  result,             \* per caller: what its last call returned
  executed, failures  \* history: callbacks per lane of the dispatch, and their results

work == <<stopping, generation, completed_workers, workers_used, lanes, kernel>>
vars == <<phase, moved, dispatch_mutex, stopping, generation, completed_workers,
          workers_used, lanes, kernel, outcomes, wpc, task, cpc, request, result,
          executed, failures>>

Success == [failure |-> "none", first_failed_lane |-> 0]
NoTask == [observed |-> 0, kernel |-> NoCaller, next |-> 0, end |-> 0]
Returned(status, lane) == [status |-> status, lane |-> lane]

Least(a, b) == IF a <= b THEN a ELSE b

\* worker_partition: contiguous, the first lanes % workers one lane longer.
partition_begin(n, w, used) == w * (n \div used) + Least(w, n % used)
partition_end(n, w, used) ==
  partition_begin(n, w, used) + (n \div used) + (IF w < n % used THEN 1 ELSE 0)

Init ==
  /\ phase = IF WorkerCount = 1 THEN "ready" ELSE "launching"
  /\ moved = FALSE
  /\ dispatch_mutex = NoCaller
  /\ stopping = FALSE /\ generation = 0 /\ completed_workers = 0
  /\ workers_used = 0 /\ lanes = 0 /\ kernel = NoCaller
  /\ outcomes = [w \in Worker |-> Success]
  /\ wpc = [w \in Worker |-> "unlaunched"]
  /\ task = [w \in Worker |-> NoTask]
  /\ cpc = [c \in Caller |-> "idle"]
  /\ request = [c \in Caller |-> 0]
  /\ result = [c \in Caller |-> Returned("none", 0)]
  /\ executed = [lane \in Lane |-> 0]
  /\ failures = [lane \in Lane |-> "none"]

------------------------------------------------------
\* The owner: create launches the pool, destruction joins it.

Launched == {w \in Worker : wpc[w] # "unlaunched"}

\* launch_workers starts the threads in index order.
launch_worker(w) ==
  /\ phase = "launching"
  /\ Launched = 0..w - 1
  /\ wpc' = [wpc EXCEPT ![w] = "evaluate"]
  /\ phase' = IF w = WorkerCount - 1 THEN "ready" ELSE "launching"
  /\ UNCHANGED <<moved, dispatch_mutex, work, outcomes, task, cpc, request, result,
                 executed, failures>>

\* std::jthread throws: create unwinds through ~State, which stops the others.
launch_fails ==
  /\ phase = "launching"
  /\ phase' = IF Launched = {} THEN "destroyed" ELSE "stopping"
  /\ UNCHANGED <<moved, dispatch_mutex, work, outcomes, wpc, task, cpc, request, result,
                 executed, failures>>

move_scheduler ==
  /\ phase = "ready" /\ ~moved
  /\ \A c \in Caller : cpc[c] = "idle"
  /\ moved' = TRUE
  /\ UNCHANGED <<phase, dispatch_mutex, work, outcomes, wpc, task, cpc, request, result,
                 executed, failures>>

\* The owner may destroy the scheduler only between calls.
destroy_scheduler ==
  /\ phase = "ready"
  /\ \A c \in Caller : cpc[c] = "idle"
  /\ phase' = IF Launched = {} THEN "destroyed" ELSE "stopping"
  /\ UNCHANGED <<moved, dispatch_mutex, work, outcomes, wpc, task, cpc, request, result,
                 executed, failures>>

\* shutdown: stopping_ is raised under work_mutex_, then everyone is woken.
raise_stopping ==
  /\ phase = "stopping" /\ ~stopping
  /\ stopping' = TRUE
  /\ UNCHANGED <<phase, moved, dispatch_mutex, generation, completed_workers, workers_used,
                 lanes, kernel, outcomes, wpc, task, cpc, request, result, executed, failures>>

AllWoken == [w \in Worker |-> IF wpc[w] = "asleep" THEN "evaluate" ELSE wpc[w]]

Stop(pcs) ==
  /\ phase = "stopping" /\ stopping
  /\ phase' = "joining"
  /\ wpc' = pcs
  /\ UNCHANGED <<moved, dispatch_mutex, work, outcomes, task, cpc, request, result,
                 executed, failures>>

stop_silently == Stop(wpc)  \* Mutant: nobody is notified.
notify_stopping == Stop(AllWoken)

join_workers ==
  /\ phase = "joining"
  /\ \A w \in Launched : wpc[w] = "exited"
  /\ phase' = "destroyed"
  /\ UNCHANGED <<moved, dispatch_mutex, work, outcomes, wpc, task, cpc, request, result,
                 executed, failures>>

------------------------------------------------------
\* A caller.

\* A failed validation, a moved-from handle, or a dispatch mutex that is taken.
refuse_stage(c) ==
  /\ phase = "ready" /\ cpc[c] = "idle"
  /\ \E status \in {"invalid_argument", "unavailable"} :
       /\ status = "unavailable" => moved \/ dispatch_mutex # NoCaller
       /\ result' = [result EXCEPT ![c] = Returned(status, 0)]
  /\ UNCHANGED <<phase, moved, dispatch_mutex, work, outcomes, wpc, task, cpc, request,
                 executed, failures>>

\* execute_stage on n addressable lanes takes the dispatch mutex.
execute_stage(c, n) ==
  /\ phase = "ready" /\ cpc[c] = "idle"
  /\ dispatch_mutex = NoCaller
  /\ dispatch_mutex' = c
  /\ request' = [request EXCEPT ![c] = n]
  /\ cpc' = [cpc EXCEPT ![c] = IF n = 0 THEN "report"
                               ELSE IF WorkerCount = 1 THEN "inline" ELSE "submit"]
  /\ task' = IF n > 0 /\ WorkerCount = 1
             THEN [task EXCEPT ![0] = [observed |-> 0, kernel |-> c, next |-> 0, end |-> n]]
             ELSE task
  /\ outcomes' = IF n > 0 /\ WorkerCount = 1 THEN [outcomes EXCEPT ![0] = Success] ELSE outcomes
  /\ executed' = [lane \in Lane |-> 0]
  /\ failures' = [lane \in Lane |-> "none"]
  /\ UNCHANGED <<phase, moved, work, wpc, result>>

\* The first critical section of dispatch.
Submit(c) ==
  /\ cpc[c] = "submit"
  /\ outcomes' = [w \in Worker |-> Success]
  /\ lanes' = request[c]
  /\ kernel' = c
  /\ workers_used' = Least(WorkerCount, request[c])
  /\ completed_workers' = 0
  /\ generation' = generation + 1
  /\ cpc' = [cpc EXCEPT ![c] = "notify"]
  /\ UNCHANGED <<phase, moved, dispatch_mutex, stopping, wpc, task, request, result,
                 executed, failures>>

submit(c) == generation # MaxGeneration /\ Submit(c)

generation_exhausted(c) ==
  /\ cpc[c] = "submit"
  /\ generation = MaxGeneration
  /\ cpc' = [cpc EXCEPT ![c] = "idle"]
  /\ result' = [result EXCEPT ![c] = Returned("resource_exhausted", 0)]
  /\ dispatch_mutex' = NoCaller
  /\ UNCHANGED <<phase, moved, work, outcomes, wpc, task, request, executed, failures>>

notify_work(c) ==
  /\ cpc[c] = "notify"
  /\ wpc' = AllWoken
  /\ cpc' = [cpc EXCEPT ![c] = "await"]
  /\ UNCHANGED <<phase, moved, dispatch_mutex, work, outcomes, task, request, result,
                 executed, failures>>

\* One evaluation of the predicate of work_complete_.
AwaitWorkers(c, expected) ==
  /\ cpc[c] = "await"
  /\ IF completed_workers = expected
       THEN /\ kernel' = NoCaller /\ lanes' = 0
            /\ cpc' = [cpc EXCEPT ![c] = "report"]
       ELSE /\ cpc' = [cpc EXCEPT ![c] = "asleep"]
            /\ UNCHANGED <<kernel, lanes>>
  /\ UNCHANGED <<phase, moved, dispatch_mutex, stopping, generation, completed_workers,
                 workers_used, outcomes, wpc, task, request, result, executed, failures>>

await_used_workers(c) == AwaitWorkers(c, workers_used)  \* Mutant: idle workers are not awaited.
await_workers(c) == AwaitWorkers(c, WorkerCount)

\* report_or_error: the first failing outcome among the workers that were used.
Failing(n) == {w \in 0..Least(WorkerCount, n) - 1 : outcomes[w].failure # "none"}
ReportOf(w) == Returned(outcomes[w].failure, outcomes[w].first_failed_lane)

Report(n) ==
  IF Failing(n) = {} THEN Returned("ok", 0)
  ELSE ReportOf(CHOOSE v \in Failing(n) : \A u \in Failing(n) : v <= u)

report_or_error(c) ==
  /\ cpc[c] = "report"
  /\ result' = [result EXCEPT ![c] = Report(request[c])]
  /\ cpc' = [cpc EXCEPT ![c] = "idle"]
  /\ dispatch_mutex' = NoCaller
  /\ UNCHANGED <<phase, moved, work, outcomes, wpc, task, request, executed, failures>>

------------------------------------------------------
\* A worker.

\* The predicate of work_available_, and what the loop does with its value.
EvaluateWork(w) ==
  IF stopping
    THEN /\ wpc' = [wpc EXCEPT ![w] = "exited"]
         /\ UNCHANGED task
  ELSE IF generation = task[w].observed
    THEN /\ wpc' = [wpc EXCEPT ![w] = "asleep"]
         /\ UNCHANGED task
  ELSE LET used == w < workers_used
       IN  /\ wpc' = [wpc EXCEPT ![w] = IF used THEN "run" ELSE "complete"]
           /\ task' = [task EXCEPT ![w] =
                [observed |-> generation, kernel |-> kernel,
                 next |-> IF used THEN partition_begin(lanes, w, workers_used) ELSE 0,
                 end  |-> IF used THEN partition_end(lanes, w, workers_used) ELSE 0]]

evaluate_work(w) ==
  /\ wpc[w] = "evaluate"
  /\ EvaluateWork(w)
  /\ UNCHANGED <<phase, moved, dispatch_mutex, work, outcomes, cpc, request, result,
                 executed, failures>>

\* record_returned_error and record_exception keep the first failure.
RecordedLast(outcome, lane, status) ==  \* Mutant: a later failure replaces it.
  IF status # "none" THEN [failure |-> status, first_failed_lane |-> lane] ELSE outcome
Recorded(outcome, lane, status) ==
  IF status # "none" /\ outcome.failure = "none"
    THEN [failure |-> status, first_failed_lane |-> lane] ELSE outcome

\* The loop goes on to the next lane whatever the kernel did.
\* Mutant: it abandons the partition.
break_on_failure(t, status) == IF status = "none" THEN t.next + 1 ELSE t.end
next_lane(t, status) == t.next + 1

\* One turn of execute_partition: the kernel returns, reports or throws.
ExecuteLane(w) ==
  /\ task[w].next < task[w].end
  /\ \E status \in Failure \cup {"none"} :
       /\ outcomes' = [outcomes EXCEPT ![w] = Recorded(@, task[w].next, status)]
       /\ failures' = [failures EXCEPT ![task[w].next] = status]
       /\ task' = [task EXCEPT ![w].next = next_lane(task[w], status)]
  /\ executed' = [executed EXCEPT ![task[w].next] = @ + 1]

run_lane(w) ==
  /\ wpc[w] = "run"
  /\ ExecuteLane(w)
  /\ UNCHANGED <<phase, moved, dispatch_mutex, work, wpc, cpc, request, result>>

partition_done(w) ==
  /\ wpc[w] = "run"
  /\ task[w].next = task[w].end
  /\ wpc' = [wpc EXCEPT ![w] = "complete"]
  /\ UNCHANGED <<phase, moved, dispatch_mutex, work, outcomes, task, cpc, request, result,
                 executed, failures>>

\* Mutant: the counter is compared before it is incremented.
is_last_early == completed_workers = WorkerCount
is_last == completed_workers + 1 = WorkerCount

\* The worker counts itself, wakes the dispatcher if it is the last, and
\* evaluates its own predicate before it lets go of work_mutex_.
complete_work(w) ==
  /\ wpc[w] = "complete"
  /\ completed_workers' = completed_workers + 1
  /\ cpc' = IF is_last
            THEN [c \in Caller |-> IF cpc[c] = "asleep" THEN "await" ELSE cpc[c]]
            ELSE cpc
  /\ EvaluateWork(w)
  /\ UNCHANGED <<phase, moved, dispatch_mutex, stopping, generation, workers_used, lanes,
                 kernel, outcomes, request, result, executed, failures>>

\* With one configured worker the calling thread runs the lanes itself.
run_lane_inline(c) ==
  /\ cpc[c] = "inline"
  /\ ExecuteLane(0)
  /\ UNCHANGED <<phase, moved, dispatch_mutex, work, wpc, cpc, request, result>>

inline_done(c) ==
  /\ cpc[c] = "inline"
  /\ task[0].next = task[0].end
  /\ task' = [task EXCEPT ![0] = NoTask]
  /\ cpc' = [cpc EXCEPT ![c] = "report"]
  /\ UNCHANGED <<phase, moved, dispatch_mutex, work, outcomes, wpc, request, result,
                 executed, failures>>

\* Condition variables may wake a thread for no reason.
spurious_wakeup ==
  \/ /\ \E w \in Worker : wpc[w] = "asleep" /\ wpc' = [wpc EXCEPT ![w] = "evaluate"]
     /\ UNCHANGED <<phase, moved, dispatch_mutex, work, outcomes, task, cpc, request, result,
                    executed, failures>>
  \/ /\ \E c \in Caller : cpc[c] = "asleep" /\ cpc' = [cpc EXCEPT ![c] = "await"]
     /\ UNCHANGED <<phase, moved, dispatch_mutex, work, outcomes, wpc, task, request, result,
                    executed, failures>>

\* Nothing is left to do once the pool is gone.
finished == phase = "destroyed" /\ UNCHANGED vars

OwnerShutsDown == raise_stopping \/ notify_stopping \/ join_workers
WorkerStep(w) == evaluate_work(w) \/ run_lane(w) \/ partition_done(w) \/ complete_work(w)
CallerStep(c) ==
  \/ submit(c) \/ generation_exhausted(c) \/ notify_work(c) \/ await_workers(c)
  \/ report_or_error(c) \/ run_lane_inline(c) \/ inline_done(c)

Next ==
  \/ \E w \in Worker : launch_worker(w) \/ WorkerStep(w)
  \/ launch_fails \/ move_scheduler \/ destroy_scheduler \/ OwnerShutsDown
  \/ \E c \in Caller :
       \/ refuse_stage(c) \/ CallerStep(c)
       \/ \E n \in 0..MaxLanes : execute_stage(c, n)
  \/ spurious_wakeup
  \/ finished

Spec == Init /\ [][Next]_vars

\* Threads that can run are eventually run, and kernels return.  Nothing
\* obliges anybody to call, to wake a sleeper for no reason or to destroy.
FairSpec ==
  /\ Spec
  /\ WF_vars(OwnerShutsDown)
  /\ \A w \in Worker : WF_vars(WorkerStep(w))
  /\ \A c \in Caller : WF_vars(CallerStep(c))

------------------------------------------------------
Phase == {"launching", "ready", "stopping", "joining", "destroyed"}
WorkerPc == {"unlaunched", "evaluate", "asleep", "run", "complete", "exited"}
CallerPc == {"idle", "submit", "notify", "await", "asleep", "inline", "report"}
Status == Failure \cup {"none", "ok", "unavailable", "invalid_argument", "resource_exhausted"}

TaskType == [observed : Nat, kernel : Caller \cup {NoCaller}, next : Nat, end : Nat]
OutcomeType == [failure : Failure \cup {"none"}, first_failed_lane : Nat]

\* Type correctness of the shared fields, of the locals of every thread and
\* of the recorded history.
TypeOK ==
  /\ phase \in Phase /\ moved \in BOOLEAN
  /\ dispatch_mutex \in Caller \cup {NoCaller}
  /\ stopping \in BOOLEAN /\ generation \in 0..MaxGeneration
  /\ completed_workers \in Nat /\ workers_used \in 0..WorkerCount
  /\ lanes \in 0..MaxLanes /\ kernel \in Caller \cup {NoCaller}
  /\ outcomes \in [Worker -> OutcomeType]
  /\ wpc \in [Worker -> WorkerPc] /\ task \in [Worker -> TaskType]
  /\ cpc \in [Caller -> CallerPc] /\ request \in [Caller -> 0..MaxLanes]
  /\ result \in [Caller -> [status : Status, lane : Nat]]
  /\ executed \in [Lane -> Nat] /\ failures \in [Lane -> Failure \cup {"none"}]

\* A worker calls a kernel only while the call that passed it is still inside
\* dispatch, holding the dispatch mutex: the kernel lives in that caller's
\* frame, and a call from inside the kernel finds the mutex taken.
KernelAlive ==
  \A w \in Worker :
    wpc[w] = "run" =>
      /\ task[w].kernel # NoCaller
      /\ task[w].kernel = dispatch_mutex
      /\ cpc[task[w].kernel] \in {"notify", "await", "asleep"}

\* Nobody runs or is about to count itself when a caller reads the outcomes,
\* which it does without work_mutex_.
OutcomesQuiet ==
  \A c \in Caller : cpc[c] = "report" => \A w \in Worker : wpc[w] \notin {"run", "complete"}

\* The kernel and the outcomes belong to the frame of the dispatch, and no
\* worker outlives it: neither is touched once the caller may have returned.
FrameOutlivesWorkers == KernelAlive /\ OutcomesQuiet

\* What makes FrameOutlivesWorkers inductive.  The dispatch mutex, the
\* published kernel and the place of the caller move together.
Dispatching(c) == cpc[c] \in {"notify", "await", "asleep"}

OwnershipInv ==
  \A c \in Caller :
    /\ dispatch_mutex = c <=> cpc[c] # "idle"
    /\ cpc[c] # "idle" => phase = "ready"
    /\ Dispatching(c) => kernel = c
    /\ WorkerCount = 1 => cpc[c] \in {"idle", "inline", "report"}
    /\ WorkerCount > 1 => cpc[c] # "inline"

\* Nobody exits before shutdown, and a ready pool is completely launched.
LifetimeInv ==
  /\ stopping => phase \in {"stopping", "joining", "destroyed"}
  /\ \A w \in Worker :
       /\ wpc[w] = "exited" => stopping
       /\ WorkerCount = 1 => wpc[w] = "unlaunched"
       /\ WorkerCount > 1 /\ phase = "ready" => wpc[w] # "unlaunched"
  /\ WorkerCount = 1 => phase # "launching"

\* The workers that have counted themselves in the current dispatch.
Counted == {w \in Worker : task[w].observed = generation /\ wpc[w] \in {"evaluate", "asleep"}}

\* During a dispatch completed_workers counts them, and everyone else is either
\* at work on this generation or has yet to see it; otherwise all are quiet.
BarrierInv ==
  WorkerCount > 1 =>
    IF \E c \in Caller : Dispatching(c)
      THEN /\ completed_workers = Cardinality(Counted)
           /\ \A w \in Worker :
                \/ task[w].observed = generation /\ wpc[w] \in {"evaluate", "asleep"}
                \/ /\ task[w].observed = generation /\ wpc[w] \in {"run", "complete"}
                   /\ task[w].kernel = kernel
                \/ task[w].observed + 1 = generation /\ wpc[w] \in {"evaluate", "asleep"}
      ELSE \A w \in Worker : task[w].observed = generation /\ wpc[w] \notin {"run", "complete"}

IInv == TypeOK /\ OwnershipInv /\ LifetimeInv /\ BarrierInv

\* No worker misses a dispatch: the generation it observes advances by one,
\* and not before the worker has counted itself for the previous one.
NoGenerationMissed ==
  [][\A w \in Worker :
       task'[w].observed # task[w].observed /\ WorkerCount > 1 =>
         /\ task'[w].observed = task[w].observed + 1
         /\ wpc[w] \in {"evaluate", "complete"}]_vars

\* A stage runs exclusively and as one unit, and returns the failure of its
\* lowest failing lane whatever the order the workers ran in
\* (CpuWavefrontScheduler.hpp: every partition reaches the barrier).
Barrier == INSTANCE StageBarrier WITH
  active <- dispatch_mutex,
  lanes  <- IF dispatch_mutex = NoCaller THEN 0 ELSE request[dispatch_mutex],
  run    <- {lane \in Lane : executed[lane] > 0}

\* The pool implements the stage barrier.
StageBarrierSpec == Barrier!Spec

\* Every call returns: no notification is lost between the predicate and the
\* sleep, on either condition variable.
DispatchReturns == \A c \in Caller : cpc[c] # "idle" ~> cpc[c] = "idle"

\* Destruction, and a create that fails half way, joins every launched worker.
ShutdownJoins == phase = "stopping" ~> phase = "destroyed"
=============================================================================

--------------------- MODULE CpuWavefrontSchedulerProofs ---------------------
(***************************************************************************)
(* CpuWavefrontScheduler, for every number of workers, callers and lanes:   *)
(* a worker calls a kernel only inside the dispatch that passed it, the     *)
(* outcomes are read when every worker is quiet, and the pool implements    *)
(* the stage barrier.                                                       *)
(***************************************************************************)
EXTENDS CpuWavefrontScheduler, FiniteSetTheorems, TLAPS

\* A set of worker indices that is not empty has a least element.
LEMMA LeastIndex ==
  ASSUME NEW T, T \subseteq Nat, T # {}
  PROVE  \E v \in T : \A u \in T : v <= u
<1>1. PICK v \in T : \A u \in T : <<u, v>> \notin OpToRel(<, Nat)
  BY NatLessThanWellFounded, WFMin
<1>2. \A u \in T : ~(u < v) BY <1>1 DEF OpToRel
<1>3. QED BY <1>2

\* worker_partition stays in the natural numbers.
LEMMA PartitionType ==
  ASSUME NEW n \in Nat, NEW w \in Nat, NEW used \in Nat \ {0}
  PROVE  partition_begin(n, w, used) \in Nat /\ partition_end(n, w, used) \in Nat
<1>1. n \div used \in Nat /\ n % used \in Nat OBVIOUS
<1>2. w * (n \div used) \in Nat BY <1>1
<1>3. QED BY <1>1, <1>2 DEF partition_begin, partition_end, Least

\* What a call reports is the failure of one of the workers it used.
LEMMA ReportType ==
  ASSUME TypeOK, NEW n \in 0..MaxLanes
  PROVE  Report(n) \in [status : Status, lane : Nat]
<1>1. Least(WorkerCount, n) \in Nat /\ Least(WorkerCount, n) <= WorkerCount
  BY SchedulerAssumption DEF Least
<1>2. Failing(n) \subseteq Worker /\ Failing(n) \subseteq Nat
  BY <1>1, SchedulerAssumption DEF Failing, Worker
<1>3. CASE Failing(n) = {}
  BY <1>3 DEF Report, Returned, Status
<1>4. CASE Failing(n) # {}
  <2> DEFINE w == CHOOSE v \in Failing(n) : \A u \in Failing(n) : v <= u
  <2>1. \E v \in Failing(n) : \A u \in Failing(n) : v <= u
    BY <1>2, <1>4, LeastIndex
  <2>2. w \in Failing(n) BY <2>1
  <2> HIDE DEF w
  <2>3. outcomes[w] \in OutcomeType BY <1>2, <2>2 DEF TypeOK
  <2>4. ReportOf(w) \in [status : Status, lane : Nat]
    BY <2>3 DEF ReportOf, Returned, OutcomeType, Status
  <2>5. Report(n) = ReportOf(w) BY <1>4 DEF Report, w
  <2>6. QED BY <2>4, <2>5
<1>5. QED BY <1>3, <1>4

\* One turn of worker_loop's predicate keeps the locals and places typed.
LEMMA EvaluateType ==
  ASSUME TypeOK, NEW w \in Worker, EvaluateWork(w)
  PROVE  wpc' \in [Worker -> WorkerPc] /\ task' \in [Worker -> TaskType]
<1>1. CASE stopping \/ generation = task[w].observed
  BY <1>1 DEF TypeOK, EvaluateWork, WorkerPc
<1>2. CASE ~stopping /\ generation # task[w].observed
  <2> DEFINE used == w < workers_used
             begin == IF used THEN partition_begin(lanes, w, workers_used) ELSE 0
             end == IF used THEN partition_end(lanes, w, workers_used) ELSE 0
             t == [observed |-> generation, kernel |-> kernel, next |-> begin, end |-> end]
  <2>1. w \in Nat /\ lanes \in Nat /\ workers_used \in Nat /\ generation \in Nat
    BY SchedulerAssumption DEF TypeOK, Worker
  <2>2. begin \in Nat /\ end \in Nat
    <3>1. CASE used
      <4>1. workers_used \in Nat \ {0} BY <2>1, <3>1
      <4>2. QED BY <2>1, <3>1, <4>1, PartitionType
    <3>2. CASE ~used
      BY <3>2
    <3>3. QED BY <3>1, <3>2
  <2>3. /\ wpc' = [wpc EXCEPT ![w] = IF used THEN "run" ELSE "complete"]
        /\ task' = [task EXCEPT ![w] = t]
    BY <1>2 DEF EvaluateWork
  <2> HIDE DEF used, begin, end
  <2>4. t \in TaskType BY <2>1, <2>2 DEF TypeOK, TaskType
  <2> HIDE DEF t
  <2>5. QED BY <2>3, <2>4 DEF TypeOK, WorkerPc
<1>3. QED BY <1>1, <1>2

\* One lane: the outcome, the recorded history and the loop index stay typed.
LEMMA ExecuteLaneType ==
  ASSUME TypeOK, NEW w \in Worker, ExecuteLane(w)
  PROVE  /\ outcomes' \in [Worker -> OutcomeType] /\ task' \in [Worker -> TaskType]
         /\ executed' \in [Lane -> Nat] /\ failures' \in [Lane -> Failure \cup {"none"}]
<1> DEFINE t == task[w]
<1>1. t \in TaskType /\ t.next \in Nat /\ outcomes[w] \in OutcomeType
  BY DEF TypeOK, TaskType
<1>2. PICK status \in Failure \cup {"none"} :
        /\ outcomes' = [outcomes EXCEPT ![w] = Recorded(outcomes[w], t.next, status)]
        /\ failures' = [failures EXCEPT ![t.next] = status]
        /\ task' = [task EXCEPT ![w].next = next_lane(t, status)]
  BY DEF ExecuteLane
<1>3. executed' = [executed EXCEPT ![t.next] = executed[t.next] + 1]
  BY DEF ExecuteLane
<1>4. Recorded(outcomes[w], t.next, status) \in OutcomeType
  BY <1>1 DEF Recorded, OutcomeType
<1>5. next_lane(t, status) \in Nat BY <1>1 DEF next_lane
<1>6. outcomes' \in [Worker -> OutcomeType] BY <1>2, <1>4 DEF TypeOK
<1>7. task' \in [Worker -> TaskType]
  <2>1. [t EXCEPT !.next = next_lane(t, status)] \in TaskType
    BY <1>1, <1>5 DEF TaskType
  <2>2. task' = [task EXCEPT ![w] = [t EXCEPT !.next = next_lane(t, status)]]
    BY <1>2
  <2>3. QED BY <2>1, <2>2 DEF TypeOK
<1>8. executed' \in [Lane -> Nat] /\ failures' \in [Lane -> Failure \cup {"none"}]
  <2>1. CASE t.next \in Lane
    <3>1. executed[t.next] + 1 \in Nat BY <2>1 DEF TypeOK
    <3>2. QED BY <1>2, <1>3, <3>1 DEF TypeOK
  <2>2. CASE t.next \notin Lane
    BY <1>2, <1>3, <2>2 DEF TypeOK
  <2>3. QED BY <2>1, <2>2
<1>9. QED BY <1>6, <1>7, <1>8

LEMMA InitType == Init => TypeOK
<1> SUFFICES ASSUME Init PROVE TypeOK
  OBVIOUS
<1>1. /\ phase \in Phase /\ moved \in BOOLEAN
      /\ dispatch_mutex \in Caller \cup {NoCaller}
      /\ stopping \in BOOLEAN /\ generation \in 0..MaxGeneration
      /\ completed_workers \in Nat /\ workers_used \in 0..WorkerCount
      /\ lanes \in 0..MaxLanes /\ kernel \in Caller \cup {NoCaller}
  <2>1. phase = "ready" \/ phase = "launching" BY DEF Init
  <2>2. /\ generation = 0 /\ completed_workers = 0 /\ workers_used = 0 /\ lanes = 0
        /\ moved = FALSE /\ stopping = FALSE
        /\ dispatch_mutex = NoCaller /\ kernel = NoCaller
    BY DEF Init
  <2>3. moved \in BOOLEAN /\ stopping \in BOOLEAN BY <2>2
  <2>4. phase \in Phase BY <2>1 DEF Phase
  <2>5. /\ generation \in 0..MaxGeneration /\ completed_workers \in Nat
        /\ workers_used \in 0..WorkerCount /\ lanes \in 0..MaxLanes
    BY <2>2, SchedulerAssumption
  <2>6. QED BY <2>2, <2>3, <2>4, <2>5
<1>2. /\ outcomes \in [Worker -> OutcomeType]
      /\ wpc \in [Worker -> WorkerPc] /\ task \in [Worker -> TaskType]
  BY DEF Init, OutcomeType, WorkerPc, TaskType, Success, NoTask
<1>3. cpc \in [Caller -> CallerPc] /\ request \in [Caller -> 0..MaxLanes]
  BY SchedulerAssumption DEF Init, CallerPc
<1>4. result \in [Caller -> [status : Status, lane : Nat]]
  BY DEF Init, Status, Returned
<1>5. executed \in [Lane -> Nat] /\ failures \in [Lane -> Failure \cup {"none"}]
  BY DEF Init
<1>6. QED BY <1>1, <1>2, <1>3, <1>4, <1>5 DEF TypeOK

LEMMA WokenType ==
  ASSUME TypeOK
  PROVE  AllWoken \in [Worker -> WorkerPc]
BY DEF TypeOK, AllWoken, WorkerPc

\* The owner's actions.
LEMMA OwnerType ==
  ASSUME TypeOK,
         \/ \E w \in Worker : launch_worker(w)
         \/ launch_fails \/ move_scheduler \/ destroy_scheduler \/ OwnerShutsDown
  PROVE  TypeOK'
<1>1. ASSUME NEW w \in Worker, launch_worker(w) PROVE TypeOK'
  BY <1>1 DEF TypeOK, launch_worker, work, Phase, WorkerPc
<1>2. CASE launch_fails \/ move_scheduler \/ destroy_scheduler
  BY <1>2 DEF TypeOK, launch_fails, move_scheduler, destroy_scheduler, work, Phase
<1>3. CASE raise_stopping \/ join_workers
  BY <1>3 DEF TypeOK, raise_stopping, join_workers, work, Phase
<1>4. CASE notify_stopping
  BY <1>4, WokenType DEF TypeOK, notify_stopping, Stop, work, Phase
<1>5. QED BY <1>1, <1>2, <1>3, <1>4 DEF OwnerShutsDown

\* The callers' actions.
LEMMA CallerType ==
  ASSUME TypeOK, NEW c \in Caller,
         \/ refuse_stage(c) \/ CallerStep(c)
         \/ \E n \in 0..MaxLanes : execute_stage(c, n)
  PROVE  TypeOK'
<1>1. CASE refuse_stage(c)
  <2>1. PICK status \in {"invalid_argument", "unavailable"} :
          result' = [result EXCEPT ![c] = Returned(status, 0)]
    BY <1>1 DEF refuse_stage
  <2>2. Returned(status, 0) \in [status : Status, lane : Nat]
    BY DEF Returned, Status
  <2>3. QED BY <1>1, <2>1, <2>2 DEF TypeOK, refuse_stage, work
<1>2. ASSUME NEW n \in 0..MaxLanes, execute_stage(c, n) PROVE TypeOK'
  <2>1. 0..MaxLanes \subseteq Nat BY SchedulerAssumption
  <2>2. [observed |-> 0, kernel |-> c, next |-> 0, end |-> n] \in TaskType
    BY <2>1 DEF TaskType
  <2>3. Success \in OutcomeType BY DEF Success, OutcomeType
  <2>4. task' \in [Worker -> TaskType] /\ outcomes' \in [Worker -> OutcomeType]
    BY <1>2, <2>2, <2>3 DEF TypeOK, execute_stage
  <2>5. cpc' \in [Caller -> CallerPc] /\ request' \in [Caller -> 0..MaxLanes]
    BY <1>2 DEF TypeOK, execute_stage, CallerPc
  <2>6. executed' \in [Lane -> Nat] /\ failures' \in [Lane -> Failure \cup {"none"}]
    BY <1>2 DEF execute_stage
  <2>7. QED BY <1>2, <2>4, <2>5, <2>6 DEF TypeOK, execute_stage, work
<1>3. CASE submit(c)
  <2>1. Least(WorkerCount, request[c]) \in 0..WorkerCount
    BY SchedulerAssumption DEF Least, TypeOK
  <2>2. generation + 1 \in 0..MaxGeneration
    BY <1>3, SchedulerAssumption DEF TypeOK, submit
  <2>3. [w \in Worker |-> Success] \in [Worker -> OutcomeType]
    BY DEF Success, OutcomeType
  <2>4. cpc' \in [Caller -> CallerPc]
    BY <1>3 DEF TypeOK, submit, Submit, CallerPc
  <2>5. QED BY <1>3, <2>1, <2>2, <2>3, <2>4 DEF TypeOK, submit, Submit
<1>4. CASE generation_exhausted(c)
  <2>1. Returned("resource_exhausted", 0) \in [status : Status, lane : Nat]
    BY DEF Returned, Status
  <2>2. QED BY <1>4, <2>1 DEF TypeOK, generation_exhausted, work, CallerPc
<1>5. CASE notify_work(c)
  BY <1>5, WokenType DEF TypeOK, notify_work, work, CallerPc
<1>6. CASE await_workers(c)
  BY <1>6, SchedulerAssumption DEF TypeOK, await_workers, AwaitWorkers, CallerPc
<1>7. CASE report_or_error(c)
  <2>1. Report(request[c]) \in [status : Status, lane : Nat]
    BY ReportType DEF TypeOK
  <2>2. QED BY <1>7, <2>1 DEF TypeOK, report_or_error, work, CallerPc
<1>8. CASE run_lane_inline(c)
  <2>1. 0 \in Worker BY SchedulerAssumption DEF Worker
  <2>2. QED BY <1>8, <2>1, ExecuteLaneType DEF TypeOK, run_lane_inline, work
<1>9. CASE inline_done(c)
  <2>1. NoTask \in TaskType BY DEF NoTask, TaskType
  <2>2. QED BY <1>9, <2>1 DEF TypeOK, inline_done, work, CallerPc
<1>10. QED BY <1>1, <1>2, <1>3, <1>4, <1>5, <1>6, <1>7, <1>8, <1>9 DEF CallerStep

\* The workers' actions, and the wake-ups nobody asked for.
LEMMA WorkerType ==
  ASSUME TypeOK, NEW w \in Worker, WorkerStep(w)
  PROVE  TypeOK'
<1>1. CASE evaluate_work(w)
  BY <1>1, EvaluateType DEF TypeOK, evaluate_work, work
<1>2. CASE run_lane(w)
  BY <1>2, ExecuteLaneType DEF TypeOK, run_lane, work
<1>3. CASE partition_done(w)
  BY <1>3 DEF TypeOK, partition_done, work, WorkerPc
<1>4. CASE complete_work(w)
  <2>1. wpc' \in [Worker -> WorkerPc] /\ task' \in [Worker -> TaskType]
    BY <1>4, EvaluateType DEF complete_work
  <2>2. cpc' \in [Caller -> CallerPc]
    BY <1>4 DEF TypeOK, complete_work, CallerPc
  <2>3. QED BY <1>4, <2>1, <2>2 DEF TypeOK, complete_work
<1>5. QED BY <1>1, <1>2, <1>3, <1>4 DEF WorkerStep

LEMMA WakeupType ==
  ASSUME TypeOK, spurious_wakeup \/ UNCHANGED vars
  PROVE  TypeOK'
<1>1. ASSUME NEW w \in Worker, wpc' = [wpc EXCEPT ![w] = "evaluate"],
             UNCHANGED <<phase, moved, dispatch_mutex, work, outcomes, task, cpc, request,
                         result, executed, failures>>
      PROVE  TypeOK'
  BY <1>1 DEF TypeOK, work, WorkerPc
<1>2. ASSUME NEW c \in Caller, cpc' = [cpc EXCEPT ![c] = "await"],
             UNCHANGED <<phase, moved, dispatch_mutex, work, outcomes, wpc, task, request,
                         result, executed, failures>>
      PROVE  TypeOK'
  BY <1>2 DEF TypeOK, work, CallerPc
<1>3. CASE UNCHANGED vars
  BY <1>3 DEF TypeOK, vars
<1>4. QED BY <1>1, <1>2, <1>3 DEF spurious_wakeup

\* Type correctness of the shared fields and of the locals of every thread.
THEOREM SpecTypeOK == Spec => []TypeOK
<1>1. TypeOK /\ [Next]_vars => TypeOK'
  BY OwnerType, CallerType, WorkerType, WakeupType DEF Next, finished
<1>2. QED BY <1>1, InitType, PTL DEF Spec

------------------------------------------------------
\* At most one caller is inside a call, and outside "ready" there is none.
LEMMA OneCaller ==
  ASSUME OwnershipInv, NEW c \in Caller, cpc[c] # "idle"
  PROVE  /\ dispatch_mutex = c /\ phase = "ready"
         /\ \A d \in Caller : d # c => cpc[d] = "idle"
BY DEF OwnershipInv

LEMMA OwnershipByOwner ==
  ASSUME TypeOK, OwnershipInv,
         \/ \E w \in Worker : launch_worker(w)
         \/ launch_fails \/ move_scheduler \/ destroy_scheduler \/ OwnerShutsDown
  PROVE  OwnershipInv'
<1>1. cpc' = cpc /\ dispatch_mutex' = dispatch_mutex /\ kernel' = kernel
  BY DEF launch_worker, launch_fails, move_scheduler, destroy_scheduler, OwnerShutsDown,
    raise_stopping, notify_stopping, Stop, join_workers, work
<1>2. phase' = phase \/ \A c \in Caller : cpc[c] = "idle"
  BY DEF OwnershipInv, launch_worker, launch_fails, move_scheduler, destroy_scheduler,
    OwnerShutsDown, raise_stopping, notify_stopping, Stop, join_workers
<1>3. QED BY <1>1, <1>2 DEF OwnershipInv, Dispatching

LEMMA OwnershipByCaller ==
  ASSUME TypeOK, OwnershipInv, NEW c \in Caller,
         \/ refuse_stage(c) \/ CallerStep(c)
         \/ \E n \in 0..MaxLanes : execute_stage(c, n)
  PROVE  OwnershipInv'
<1> USE DEF Dispatching
<1>0. cpc \in [Caller -> CallerPc] /\ NoCaller \notin Caller /\ WorkerCount \in Nat \ {0}
  BY SchedulerAssumption DEF TypeOK
<1>1. CASE refuse_stage(c)
  BY <1>1 DEF OwnershipInv, refuse_stage, work
<1>2. ASSUME NEW n \in 0..MaxLanes, execute_stage(c, n) PROVE OwnershipInv'
  <2>1. /\ phase' = "ready" /\ dispatch_mutex' = c /\ kernel' = kernel
        /\ cpc' = [cpc EXCEPT ![c] = IF n = 0 THEN "report"
                                     ELSE IF WorkerCount = 1 THEN "inline" ELSE "submit"]
        /\ \A d \in Caller : cpc[d] = "idle"
    BY <1>0, <1>2 DEF OwnershipInv, execute_stage, work
  <2>2. QED BY <1>0, <2>1 DEF OwnershipInv
<1>3. CASE submit(c)
  <2>1. /\ cpc' = [cpc EXCEPT ![c] = "notify"] /\ kernel' = c
        /\ dispatch_mutex' = dispatch_mutex /\ phase' = phase /\ cpc[c] = "submit"
    BY <1>3 DEF submit, Submit
  <2>2. QED BY <1>0, <2>1, OneCaller DEF OwnershipInv
<1>4. CASE generation_exhausted(c) \/ report_or_error(c)
  <2>1. /\ cpc' = [cpc EXCEPT ![c] = "idle"] /\ kernel' = kernel
        /\ dispatch_mutex' = NoCaller /\ phase' = phase /\ cpc[c] # "idle"
    BY <1>4 DEF generation_exhausted, report_or_error, work
  <2>2. QED BY <1>0, <2>1, OneCaller DEF OwnershipInv
<1>5. CASE notify_work(c)
  <2>1. /\ cpc' = [cpc EXCEPT ![c] = "await"] /\ kernel' = kernel
        /\ dispatch_mutex' = dispatch_mutex /\ phase' = phase /\ cpc[c] = "notify"
    BY <1>5 DEF notify_work, work
  <2>2. QED BY <1>0, <2>1, OneCaller DEF OwnershipInv
<1>6. CASE await_workers(c)
  <2>1. /\ \/ cpc' = [cpc EXCEPT ![c] = "report"]
           \/ cpc' = [cpc EXCEPT ![c] = "asleep"] /\ kernel' = kernel
        /\ dispatch_mutex' = dispatch_mutex /\ phase' = phase /\ cpc[c] = "await"
    BY <1>6 DEF await_workers, AwaitWorkers
  <2>2. QED BY <1>0, <2>1, OneCaller DEF OwnershipInv
<1>7. CASE run_lane_inline(c)
  BY <1>7 DEF OwnershipInv, run_lane_inline, work
<1>8. CASE inline_done(c)
  <2>1. /\ cpc' = [cpc EXCEPT ![c] = "report"] /\ kernel' = kernel
        /\ dispatch_mutex' = dispatch_mutex /\ phase' = phase /\ cpc[c] = "inline"
    BY <1>8 DEF inline_done, work
  <2>2. QED BY <1>0, <2>1, OneCaller DEF OwnershipInv
<1>9. QED BY <1>1, <1>2, <1>3, <1>4, <1>5, <1>6, <1>7, <1>8 DEF CallerStep

\* Workers and wake-ups move a caller only from its sleep to its predicate.
LEMMA OwnershipByOthers ==
  ASSUME TypeOK, OwnershipInv,
         (\E w \in Worker : WorkerStep(w)) \/ spurious_wakeup \/ UNCHANGED vars
  PROVE  OwnershipInv'
<1>1. /\ dispatch_mutex' = dispatch_mutex /\ kernel' = kernel /\ phase' = phase
      /\ \A c \in Caller : cpc'[c] = cpc[c] \/ (cpc[c] = "asleep" /\ cpc'[c] = "await")
  <2>0. cpc \in [Caller -> CallerPc] BY DEF TypeOK
  <2>1. ASSUME NEW w \in Worker, WorkerStep(w)
        PROVE  /\ dispatch_mutex' = dispatch_mutex /\ kernel' = kernel /\ phase' = phase
               /\ \A c \in Caller : cpc'[c] = cpc[c] \/ (cpc[c] = "asleep" /\ cpc'[c] = "await")
    BY <2>0, <2>1 DEF WorkerStep, evaluate_work, run_lane, partition_done, complete_work, work
  <2>2. CASE spurious_wakeup
    BY <2>0, <2>2 DEF spurious_wakeup, work
  <2>3. CASE UNCHANGED vars
    BY <2>3 DEF vars
  <2>4. QED BY <2>1, <2>2, <2>3
<1>2. QED BY <1>1 DEF OwnershipInv, Dispatching

LEMMA OwnershipStep ==
  ASSUME TypeOK, OwnershipInv, [Next]_vars
  PROVE  OwnershipInv'
BY OwnershipByOwner, OwnershipByCaller, OwnershipByOthers DEF Next, finished

------------------------------------------------------
\* What an evaluation of the predicate can do to the worker.
LEMMA EvaluateEffect ==
  ASSUME TypeOK, NEW w \in Worker, EvaluateWork(w)
  PROVE  \/ stopping /\ wpc' = [wpc EXCEPT ![w] = "exited"] /\ task' = task
         \/ /\ ~stopping /\ generation = task[w].observed
            /\ wpc' = [wpc EXCEPT ![w] = "asleep"] /\ task' = task
         \/ /\ ~stopping /\ generation # task[w].observed
            /\ \E pc \in {"run", "complete"} : wpc' = [wpc EXCEPT ![w] = pc]
            /\ \E t \in TaskType : /\ task' = [task EXCEPT ![w] = t]
                                   /\ t.observed = generation /\ t.kernel = kernel
<1>1. CASE stopping \/ generation = task[w].observed
  BY <1>1 DEF EvaluateWork
<1>2. CASE ~stopping /\ generation # task[w].observed
  <2>1. \E pc \in {"run", "complete"} : wpc' = [wpc EXCEPT ![w] = pc]
    BY <1>2 DEF EvaluateWork
  <2>2. PICK b, e : task' = [task EXCEPT ![w] =
               [observed |-> generation, kernel |-> kernel, next |-> b, end |-> e]]
    BY <1>2 DEF EvaluateWork
  <2> DEFINE t == [observed |-> generation, kernel |-> kernel, next |-> b, end |-> e]
  <2>3. t \in TaskType
    <3>1. task'[w] = t BY <2>2 DEF TypeOK
    <3>2. QED BY <3>1, EvaluateType
  <2>4. t.observed = generation /\ t.kernel = kernel /\ task' = [task EXCEPT ![w] = t]
    BY <2>2
  <2> HIDE DEF t
  <2>5. \E u \in TaskType : /\ task' = [task EXCEPT ![w] = u]
                            /\ u.observed = generation /\ u.kernel = kernel
    BY <2>3, <2>4
  <2>6. QED BY <1>2, <2>1, <2>5
<1>3. QED BY <1>1, <1>2

LEMMA LifetimeStep ==
  ASSUME TypeOK, OwnershipInv, LifetimeInv, [Next]_vars
  PROVE  LifetimeInv'
<1>0. wpc \in [Worker -> WorkerPc] /\ WorkerCount \in Nat \ {0}
  BY SchedulerAssumption DEF TypeOK
<1>1. ASSUME NEW w \in Worker, launch_worker(w) PROVE LifetimeInv'
  <2>1. /\ phase = "launching" /\ Launched = 0..w - 1
        /\ wpc' = [wpc EXCEPT ![w] = "evaluate"]
        /\ phase' = IF w = WorkerCount - 1 THEN "ready" ELSE "launching"
        /\ stopping' = stopping
    BY <1>1 DEF launch_worker, work
  <2>2. phase' = "ready" => \A v \in Worker : wpc'[v] # "unlaunched"
    BY <1>0, <2>1 DEF Launched, Worker
  <2>3. QED BY <1>0, <2>1, <2>2 DEF LifetimeInv
<1>2. CASE launch_fails \/ move_scheduler \/ destroy_scheduler
  BY <1>2 DEF LifetimeInv, launch_fails, move_scheduler, destroy_scheduler, work
<1>3. CASE raise_stopping \/ join_workers
  BY <1>3 DEF LifetimeInv, raise_stopping, join_workers, work
<1>4. CASE notify_stopping
  BY <1>4 DEF LifetimeInv, notify_stopping, Stop, AllWoken, work
<1>5. ASSUME NEW c \in Caller,
             \/ refuse_stage(c) \/ CallerStep(c)
             \/ \E n \in 0..MaxLanes : execute_stage(c, n)
      PROVE  LifetimeInv'
  <2>1. stopping' = stopping /\ phase' = phase /\ (wpc' = wpc \/ wpc' = AllWoken)
    BY <1>5 DEF refuse_stage, CallerStep, execute_stage, submit, Submit, generation_exhausted,
      notify_work, await_workers, AwaitWorkers, report_or_error, run_lane_inline, inline_done,
      work
  <2>2. QED BY <2>1 DEF LifetimeInv, AllWoken
<1>6. ASSUME NEW w \in Worker, WorkerStep(w) PROVE LifetimeInv'
  <2>1. stopping' = stopping /\ phase' = phase
    BY <1>6 DEF WorkerStep, evaluate_work, run_lane, partition_done, complete_work, work
  <2>2. WorkerCount # 1
    BY <1>6 DEF LifetimeInv, WorkerStep, evaluate_work, run_lane, partition_done, complete_work
  <2>3. CASE run_lane(w) \/ partition_done(w)
    BY <1>0, <2>1, <2>2, <2>3 DEF LifetimeInv, run_lane, partition_done
  <2>4. CASE evaluate_work(w) \/ complete_work(w)
    <3>1. EvaluateWork(w) BY <2>4 DEF evaluate_work, complete_work
    <3>2. QED BY <1>0, <2>1, <2>2, <3>1, EvaluateEffect DEF LifetimeInv
  <2>5. QED BY <1>6, <2>3, <2>4 DEF WorkerStep
<1>7. CASE spurious_wakeup
  <2>1. stopping' = stopping /\ phase' = phase BY <1>7 DEF spurious_wakeup, work
  <2>2. wpc' = wpc \/ \E w \in Worker : wpc[w] = "asleep" /\ wpc' = [wpc EXCEPT ![w] = "evaluate"]
    BY <1>7 DEF spurious_wakeup
  <2>3. QED BY <1>0, <2>1, <2>2 DEF LifetimeInv
<1>8. CASE UNCHANGED vars
  BY <1>8 DEF LifetimeInv, vars
<1>9. QED BY <1>1, <1>2, <1>3, <1>4, <1>5, <1>6, <1>7, <1>8 DEF Next, OwnerShutsDown, finished

------------------------------------------------------
\* Counting the workers of a dispatch.
LEMMA WorkersFinite ==
  /\ IsFiniteSet(Worker) /\ Cardinality(Worker) = WorkerCount
<1>1. WorkerCount \in Nat \ {0} BY SchedulerAssumption
<1>2. 0 \in Int /\ WorkerCount - 1 \in Int BY <1>1
<1>3. QED BY <1>1, <1>2, FS_Interval DEF Worker

LEMMA CountedFinite == IsFiniteSet(Counted)
BY WorkersFinite, FS_Subset DEF Counted

\* When the count is complete everyone has counted itself.
LEMMA AllCounted ==
  ASSUME Cardinality(Counted) = WorkerCount
  PROVE  Counted = Worker
BY WorkersFinite, FS_Subset DEF Counted

\* A step that moves no caller in or out of a dispatch and disturbs no worker.
LEMMA BarrierFrame ==
  ASSUME TypeOK, BarrierInv,
         generation' = generation, completed_workers' = completed_workers,
         \A c \in Caller : Dispatching(c)' <=> Dispatching(c),
         (\E c \in Caller : Dispatching(c)) => kernel' = kernel,
         \A w \in Worker : /\ task'[w].observed = task[w].observed
                           /\ task'[w].kernel = task[w].kernel
                           /\ \/ wpc'[w] = wpc[w]
                              \/ wpc[w] \in {"evaluate", "asleep"} /\ wpc'[w] \in {"evaluate", "asleep"}
                              \/ wpc[w] \in {"run", "complete"} /\ wpc'[w] \in {"run", "complete"}
                              \/ /\ ~\E c \in Caller : Dispatching(c)
                                 /\ wpc'[w] \notin {"run", "complete"}
  PROVE  BarrierInv'
<1> SUFFICES ASSUME WorkerCount > 1 PROVE BarrierInv'
  BY DEF BarrierInv
<1> DEFINE InDispatch == \E c \in Caller : Dispatching(c)
<1>1. CASE InDispatch
  <2>1. Counted' = Counted BY <1>1 DEF Counted
  <2>2. InDispatch' BY <1>1
  <2>3. completed_workers' = Cardinality(Counted') BY <1>1, <2>1 DEF BarrierInv
  <2>4. \A w \in Worker :
           \/ task'[w].observed = generation' /\ wpc'[w] \in {"evaluate", "asleep"}
           \/ /\ task'[w].observed = generation' /\ wpc'[w] \in {"run", "complete"}
              /\ task'[w].kernel = kernel'
           \/ task'[w].observed + 1 = generation' /\ wpc'[w] \in {"evaluate", "asleep"}
    BY <1>1 DEF BarrierInv
  <2>5. QED BY <2>2, <2>3, <2>4 DEF BarrierInv
<1>2. CASE ~InDispatch
  <2>1. ~InDispatch' BY <1>2
  <2>2. \A w \in Worker : task'[w].observed = generation' /\ wpc'[w] \notin {"run", "complete"}
    BY <1>2 DEF BarrierInv
  <2>3. QED BY <2>1, <2>2 DEF BarrierInv
<1>3. QED BY <1>1, <1>2

\* A worker evaluates its predicate outside the count.
LEMMA BarrierByEvaluate ==
  ASSUME IInv, NEW w \in Worker, evaluate_work(w)
  PROVE  BarrierInv'
<1> SUFFICES ASSUME WorkerCount > 1 PROVE BarrierInv'
  BY DEF BarrierInv
<1> DEFINE InDispatch == \E c \in Caller : Dispatching(c)
<1>0. /\ wpc[w] = "evaluate" /\ EvaluateWork(w)
      /\ cpc' = cpc /\ generation' = generation /\ kernel' = kernel
      /\ completed_workers' = completed_workers
  BY DEF evaluate_work, work
<1>1. wpc \in [Worker -> WorkerPc] /\ task \in [Worker -> TaskType] /\ TypeOK /\ generation \in Nat
  BY SchedulerAssumption DEF IInv, TypeOK
<1>2. InDispatch' <=> InDispatch BY <1>0 DEF Dispatching
<1>3. CASE generation = task[w].observed /\ ~stopping
  <2>1. wpc' = [wpc EXCEPT ![w] = "asleep"] /\ task' = task
    BY <1>0, <1>1, <1>3, EvaluateEffect
  <2>2. \A v \in Worker : wpc'[v] = wpc[v] \/ (v = w /\ wpc[v] = "evaluate" /\ wpc'[v] = "asleep")
    BY <1>0, <1>1, <2>1
  <2>3. \A c \in Caller : Dispatching(c)' <=> Dispatching(c)
    BY <1>0 DEF Dispatching
  <2>4. QED BY <1>0, <1>1, <2>1, <2>2, <2>3, BarrierFrame DEF IInv
<1>4. CASE stopping
  <2>1. wpc' = [wpc EXCEPT ![w] = "exited"] /\ task' = task
    BY <1>0, <1>1, <1>4, EvaluateEffect
  <2>2. ~InDispatch BY <1>4 DEF IInv, LifetimeInv, OwnershipInv, Dispatching
  <2>3. \A v \in Worker : wpc'[v] = wpc[v] \/ wpc'[v] = "exited" BY <1>1, <2>1
  <2>4. \A v \in Worker : task'[v].observed = generation' /\ wpc'[v] \notin {"run", "complete"}
    BY <1>0, <2>1, <2>2, <2>3 DEF IInv, BarrierInv
  <2>5. QED BY <1>2, <2>2, <2>4 DEF BarrierInv
<1>5. CASE generation # task[w].observed /\ ~stopping
  <2>1. /\ \E pc \in {"run", "complete"} : wpc' = [wpc EXCEPT ![w] = pc]
        /\ \E t \in TaskType : /\ task' = [task EXCEPT ![w] = t]
                               /\ t.observed = generation /\ t.kernel = kernel
    BY <1>0, <1>1, <1>5, EvaluateEffect
  <2>2. InDispatch BY <1>5 DEF IInv, BarrierInv
  <2>3. \A v \in Worker : v # w => wpc'[v] = wpc[v] /\ task'[v] = task[v]
    BY <1>1, <2>1
  <2>4. /\ wpc'[w] \in {"run", "complete"}
        /\ task'[w].observed = generation /\ task'[w].kernel = kernel
    BY <1>1, <2>1
  <2>5. Counted' = Counted BY <1>0, <1>5, <2>3, <2>4 DEF Counted
  <2>6. completed_workers' = Cardinality(Counted')
    BY <1>0, <2>2, <2>5 DEF IInv, BarrierInv
  <2>7. \A v \in Worker :
           \/ task'[v].observed = generation' /\ wpc'[v] \in {"evaluate", "asleep"}
           \/ /\ task'[v].observed = generation' /\ wpc'[v] \in {"run", "complete"}
              /\ task'[v].kernel = kernel'
           \/ task'[v].observed + 1 = generation' /\ wpc'[v] \in {"evaluate", "asleep"}
    BY <1>0, <2>2, <2>3, <2>4 DEF IInv, BarrierInv
  <2>8. QED BY <1>2, <2>2, <2>6, <2>7 DEF BarrierInv
<1>6. QED BY <1>3, <1>4, <1>5

\* A worker adds itself to the count.
LEMMA BarrierByComplete ==
  ASSUME IInv, NEW w \in Worker, complete_work(w)
  PROVE  BarrierInv'
<1> SUFFICES ASSUME WorkerCount > 1 PROVE BarrierInv'
  BY DEF BarrierInv
<1> DEFINE InDispatch == \E c \in Caller : Dispatching(c)
<1>0. /\ wpc[w] = "complete" /\ EvaluateWork(w)
      /\ \A c \in Caller : cpc'[c] = cpc[c] \/ (cpc[c] = "asleep" /\ cpc'[c] = "await")
      /\ generation' = generation /\ kernel' = kernel
      /\ completed_workers' = completed_workers + 1
  BY DEF complete_work, IInv, TypeOK
<1>1. wpc \in [Worker -> WorkerPc] /\ task \in [Worker -> TaskType] /\ TypeOK
  BY DEF IInv, TypeOK
<1>2. InDispatch BY <1>0 DEF IInv, BarrierInv
<1>3. InDispatch' BY <1>0, <1>2 DEF Dispatching
<1>4. ~stopping /\ generation = task[w].observed
  <2>1. ~stopping BY <1>2 DEF IInv, OwnershipInv, LifetimeInv, Dispatching
  <2>2. generation = task[w].observed BY <1>0, <1>2 DEF IInv, BarrierInv
  <2>3. QED BY <2>1, <2>2
<1>5. wpc' = [wpc EXCEPT ![w] = "asleep"] /\ task' = task
  BY <1>0, <1>1, <1>4, EvaluateEffect
<1>6. \A v \in Worker : wpc'[v] = IF v = w THEN "asleep" ELSE wpc[v]
  BY <1>1, <1>5
<1>7. w \notin Counted /\ Counted' = Counted \cup {w}
  BY <1>0, <1>4, <1>5, <1>6 DEF Counted
<1>8. completed_workers' = Cardinality(Counted')
  BY <1>0, <1>2, <1>7, CountedFinite, FS_AddElement, ZenonT(40) DEF IInv, BarrierInv
<1>9. \A v \in Worker :
         \/ task'[v].observed = generation' /\ wpc'[v] \in {"evaluate", "asleep"}
         \/ /\ task'[v].observed = generation' /\ wpc'[v] \in {"run", "complete"}
            /\ task'[v].kernel = kernel'
         \/ task'[v].observed + 1 = generation' /\ wpc'[v] \in {"evaluate", "asleep"}
  BY <1>0, <1>2, <1>4, <1>5, <1>6 DEF IInv, BarrierInv
<1>10. QED BY <1>3, <1>8, <1>9 DEF BarrierInv

\* A worker runs a lane, or finishes its partition.
LEMMA BarrierByRun ==
  ASSUME IInv, NEW w \in Worker, run_lane(w) \/ partition_done(w)
  PROVE  BarrierInv'
<1>0. wpc \in [Worker -> WorkerPc] /\ task \in [Worker -> TaskType] /\ TypeOK
  BY DEF IInv, TypeOK
<1>1. /\ generation' = generation /\ completed_workers' = completed_workers
      /\ cpc' = cpc /\ kernel' = kernel
  BY DEF run_lane, partition_done, work
<1>2. \A v \in Worker : /\ task'[v].observed = task[v].observed
                        /\ task'[v].kernel = task[v].kernel
  <2>1. CASE run_lane(w)
    <3>1. PICK next : task' = [task EXCEPT ![w].next = next]
      BY <2>1 DEF run_lane, ExecuteLane
    <3>2. QED BY <1>0, <3>1 DEF TaskType
  <2>2. CASE partition_done(w)
    BY <2>2 DEF partition_done
  <2>3. QED BY <2>1, <2>2
<1>3. \A v \in Worker : wpc'[v] = wpc[v] \/ (wpc[v] = "run" /\ wpc'[v] = "complete")
  BY <1>0 DEF run_lane, partition_done
<1>4. \A c \in Caller : Dispatching(c)' <=> Dispatching(c)
  BY <1>1 DEF Dispatching
<1>5. QED BY <1>0, <1>1, <1>2, <1>3, <1>4, BarrierFrame DEF IInv

\* The first critical section of dispatch opens the barrier with a count of 0.
LEMMA BarrierBySubmit ==
  ASSUME IInv, NEW c \in Caller, submit(c)
  PROVE  BarrierInv'
<1> SUFFICES ASSUME WorkerCount > 1 PROVE BarrierInv'
  BY DEF BarrierInv
<1>0. /\ cpc[c] = "submit" /\ cpc' = [cpc EXCEPT ![c] = "notify"]
      /\ generation' = generation + 1 /\ completed_workers' = 0
      /\ wpc' = wpc /\ task' = task
  BY DEF submit, Submit
<1>1. /\ cpc \in [Caller -> CallerPc] /\ wpc \in [Worker -> WorkerPc] /\ generation \in Nat
  BY SchedulerAssumption DEF IInv, TypeOK
<1>2. ~\E d \in Caller : Dispatching(d) BY <1>0, OneCaller DEF IInv, Dispatching
<1>3. \A w \in Worker : task[w].observed = generation /\ wpc[w] \notin {"run", "complete"}
  BY <1>2 DEF IInv, BarrierInv
<1>4. \A w \in Worker : wpc[w] \in {"evaluate", "asleep"}
  <2>1. phase = "ready" /\ ~stopping BY <1>0, OneCaller DEF IInv, LifetimeInv
  <2>2. \A w \in Worker : wpc[w] \notin {"unlaunched", "exited"}
    BY <2>1 DEF IInv, LifetimeInv
  <2>3. QED BY <1>1, <1>3, <2>2 DEF WorkerPc
<1>5. Dispatching(c)' BY <1>0, <1>1 DEF Dispatching
<1>6. completed_workers' = Cardinality(Counted')
  <2>1. \A w \in Worker : task'[w].observed # generation' BY <1>0, <1>1, <1>3
  <2>2. Counted' = {} BY <2>1 DEF Counted
  <2>3. QED BY <1>0, <2>2, FS_EmptySet
<1>7. \A w \in Worker : task'[w].observed + 1 = generation' /\ wpc'[w] \in {"evaluate", "asleep"}
  BY <1>0, <1>1, <1>3, <1>4
<1>8. QED BY <1>5, <1>6, <1>7 DEF BarrierInv

\* The dispatcher leaves the barrier only when every worker is in the count.
LEMMA BarrierByAwait ==
  ASSUME IInv, NEW c \in Caller, await_workers(c)
  PROVE  BarrierInv'
<1> SUFFICES ASSUME WorkerCount > 1 PROVE BarrierInv'
  BY DEF BarrierInv
<1>0. /\ cpc[c] = "await" /\ generation' = generation /\ wpc' = wpc /\ task' = task
      /\ completed_workers' = completed_workers
  BY DEF await_workers, AwaitWorkers
<1>1. cpc \in [Caller -> CallerPc] /\ TypeOK BY DEF IInv, TypeOK
<1>2. CASE completed_workers = WorkerCount
  <2>1. cpc' = [cpc EXCEPT ![c] = "report"]
    BY <1>2 DEF await_workers, AwaitWorkers
  <2>2. completed_workers = Cardinality(Counted)
    BY <1>0 DEF IInv, BarrierInv, Dispatching
  <2>3. \A w \in Worker : task[w].observed = generation /\ wpc[w] \in {"evaluate", "asleep"}
    BY <1>2, <2>2, AllCounted DEF Counted
  <2>4. ~\E d \in Caller : Dispatching(d)'
    BY <1>0, <1>1, <2>1, OneCaller DEF IInv, Dispatching
  <2>5. QED BY <1>0, <2>3, <2>4 DEF BarrierInv
<1>3. CASE completed_workers # WorkerCount
  <2>1. cpc' = [cpc EXCEPT ![c] = "asleep"] /\ kernel' = kernel
    BY <1>3 DEF await_workers, AwaitWorkers
  <2>2. \A d \in Caller : Dispatching(d)' <=> Dispatching(d)
    BY <1>0, <1>1, <2>1 DEF Dispatching
  <2>3. QED BY <1>0, <1>1, <2>1, <2>2, BarrierFrame DEF IInv
<1>4. QED BY <1>2, <1>3

\* The owner acts between dispatches.
LEMMA BarrierByOwner ==
  ASSUME IInv,
         \/ \E w \in Worker : launch_worker(w)
         \/ launch_fails \/ move_scheduler \/ destroy_scheduler \/ OwnerShutsDown
  PROVE  BarrierInv'
<1>0. wpc \in [Worker -> WorkerPc] /\ TypeOK BY DEF IInv, TypeOK
<1>1. /\ generation' = generation /\ completed_workers' = completed_workers
      /\ cpc' = cpc /\ kernel' = kernel /\ task' = task
  BY DEF launch_worker, launch_fails, move_scheduler, destroy_scheduler, OwnerShutsDown,
    raise_stopping, notify_stopping, Stop, join_workers, work
<1>2. \A c \in Caller : Dispatching(c)' <=> Dispatching(c)
  BY <1>1 DEF Dispatching
<1>3. \A w \in Worker : \/ wpc'[w] = wpc[w]
                        \/ wpc[w] = "asleep" /\ wpc'[w] = "evaluate"
                        \/ /\ ~\E c \in Caller : Dispatching(c)
                           /\ wpc'[w] \notin {"run", "complete"}
  <2>1. ASSUME NEW v \in Worker, launch_worker(v)
        PROVE  \A w \in Worker : wpc'[w] = wpc[w] \/ (/\ ~\E c \in Caller : Dispatching(c)
                                                      /\ wpc'[w] \notin {"run", "complete"})
    <3>1. phase = "launching" /\ wpc' = [wpc EXCEPT ![v] = "evaluate"]
      BY <2>1 DEF launch_worker
    <3>2. ~\E c \in Caller : Dispatching(c)
      BY <3>1 DEF IInv, OwnershipInv, Dispatching
    <3>3. QED BY <1>0, <3>1, <3>2
  <2>2. CASE launch_fails \/ move_scheduler \/ destroy_scheduler \/ OwnerShutsDown
    BY <2>2 DEF launch_fails, move_scheduler, destroy_scheduler, OwnerShutsDown, raise_stopping,
      notify_stopping, Stop, AllWoken, join_workers
  <2>3. QED BY <2>1, <2>2
<1>4. QED BY <1>0, <1>1, <1>2, <1>3, BarrierFrame DEF IInv

\* Caller steps that neither open nor close the barrier.
LEMMA BarrierByCaller ==
  ASSUME IInv, NEW c \in Caller,
         \/ refuse_stage(c) \/ generation_exhausted(c) \/ notify_work(c)
         \/ report_or_error(c) \/ run_lane_inline(c) \/ inline_done(c)
         \/ \E n \in 0..MaxLanes : execute_stage(c, n)
  PROVE  BarrierInv'
<1> SUFFICES ASSUME WorkerCount > 1 PROVE BarrierInv'
  BY DEF BarrierInv
<1>0. cpc \in [Caller -> CallerPc] /\ TypeOK BY DEF IInv, TypeOK
<1>1. ~run_lane_inline(c) /\ ~inline_done(c)
  BY DEF IInv, OwnershipInv, run_lane_inline, inline_done
<1>2. /\ generation' = generation /\ completed_workers' = completed_workers /\ kernel' = kernel
  BY <1>1 DEF refuse_stage, generation_exhausted, notify_work, report_or_error, execute_stage, work
<1>3. task' = task
  BY <1>1 DEF refuse_stage, generation_exhausted, notify_work, report_or_error, execute_stage
<1>4. \A d \in Caller : Dispatching(d)' <=> Dispatching(d)
  <2>1. CASE refuse_stage(c)
    BY <2>1 DEF refuse_stage, Dispatching
  <2>2. CASE generation_exhausted(c) \/ notify_work(c) \/ report_or_error(c)
    <3>1. \/ cpc[c] \in {"submit", "report"} /\ cpc' = [cpc EXCEPT ![c] = "idle"]
          \/ cpc[c] = "notify" /\ cpc' = [cpc EXCEPT ![c] = "await"]
      BY <2>2 DEF generation_exhausted, notify_work, report_or_error
    <3>2. QED BY <1>0, <3>1 DEF Dispatching
  <2>3. ASSUME NEW n \in 0..MaxLanes, execute_stage(c, n)
        PROVE  \A d \in Caller : Dispatching(d)' <=> Dispatching(d)
    <3>1. /\ cpc[c] = "idle"
          /\ cpc' = [cpc EXCEPT ![c] = IF n = 0 THEN "report"
                                       ELSE IF WorkerCount = 1 THEN "inline" ELSE "submit"]
      BY <2>3 DEF execute_stage
    <3>2. QED BY <1>0, <3>1 DEF Dispatching
  <2>4. QED BY <1>1, <2>1, <2>2, <2>3
<1>5. \A w \in Worker : wpc'[w] = wpc[w] \/ (wpc[w] = "asleep" /\ wpc'[w] = "evaluate")
  BY <1>1 DEF refuse_stage, generation_exhausted, notify_work, AllWoken, report_or_error,
    execute_stage
<1>6. QED BY <1>0, <1>2, <1>3, <1>4, <1>5, BarrierFrame DEF IInv

LEMMA BarrierByWakeup ==
  ASSUME IInv, spurious_wakeup \/ UNCHANGED vars
  PROVE  BarrierInv'
<1>0. /\ cpc \in [Caller -> CallerPc] /\ wpc \in [Worker -> WorkerPc] /\ TypeOK
  BY DEF IInv, TypeOK
<1>1. /\ generation' = generation /\ completed_workers' = completed_workers
      /\ kernel' = kernel /\ task' = task
  BY DEF spurious_wakeup, work, vars
<1>2. \A w \in Worker : wpc'[w] = wpc[w] \/ (wpc[w] = "asleep" /\ wpc'[w] = "evaluate")
  BY <1>0 DEF spurious_wakeup, vars
<1>3. \A c \in Caller : cpc'[c] = cpc[c] \/ (cpc[c] = "asleep" /\ cpc'[c] = "await")
  BY <1>0 DEF spurious_wakeup, vars
<1>4. \A c \in Caller : Dispatching(c)' <=> Dispatching(c)
  BY <1>3 DEF Dispatching
<1>5. QED BY <1>0, <1>1, <1>2, <1>4, BarrierFrame DEF IInv

LEMMA BarrierStep ==
  ASSUME IInv, [Next]_vars
  PROVE  BarrierInv'
<1>1. ASSUME NEW w \in Worker, WorkerStep(w) PROVE BarrierInv'
  BY <1>1, BarrierByEvaluate, BarrierByRun, BarrierByComplete DEF WorkerStep
<1>2. ASSUME NEW c \in Caller, CallerStep(c) PROVE BarrierInv'
  BY <1>2, BarrierBySubmit, BarrierByAwait, BarrierByCaller DEF CallerStep
<1>3. QED BY <1>1, <1>2, BarrierByOwner, BarrierByCaller, BarrierByWakeup DEF Next, finished

------------------------------------------------------
LEMMA InitIInv == Init => IInv
<1> SUFFICES ASSUME Init PROVE IInv
  OBVIOUS
<1>1. TypeOK BY InitType
<1>2. OwnershipInv /\ LifetimeInv
  BY SchedulerAssumption DEF Init, OwnershipInv, LifetimeInv, Dispatching
<1>3. BarrierInv BY DEF Init, BarrierInv, Dispatching, NoTask
<1>4. QED BY <1>1, <1>2, <1>3 DEF IInv

LEMMA StepIInv == IInv /\ [Next]_vars => IInv'
BY OwnerType, CallerType, WorkerType, WakeupType, OwnershipStep, LifetimeStep, BarrierStep DEF
  IInv, Next, finished

\* The dispatch mutex, the published kernel, the completion count and the place
\* of every worker agree in every reachable state.
THEOREM SpecIInv == Spec => []IInv
BY InitIInv, StepIInv, PTL DEF Spec

\* A worker is inside a kernel only during the call that passed it.
THEOREM SpecKernelAlive == Spec => []KernelAlive
<1>1. IInv => KernelAlive
  <2> SUFFICES ASSUME IInv, NEW w \in Worker, wpc[w] = "run"
               PROVE  /\ task[w].kernel # NoCaller
                      /\ task[w].kernel = dispatch_mutex
                      /\ cpc[task[w].kernel] \in {"notify", "await", "asleep"}
    BY DEF KernelAlive
  <2>1. WorkerCount > 1 BY SchedulerAssumption DEF IInv, LifetimeInv
  <2>2. PICK c \in Caller : Dispatching(c) BY <2>1 DEF IInv, BarrierInv
  <2>3. task[w].kernel = kernel BY <2>1, <2>2 DEF IInv, BarrierInv
  <2>4. kernel = c /\ dispatch_mutex = c
    BY <2>2 DEF IInv, OwnershipInv, Dispatching
  <2>5. QED BY <2>2, <2>3, <2>4, SchedulerAssumption DEF Dispatching
<1>2. QED BY <1>1, SpecIInv, PTL

\* The outcomes are read without work_mutex_ only when every worker is quiet.
THEOREM SpecOutcomesQuiet == Spec => []OutcomesQuiet
<1>1. IInv => OutcomesQuiet
  <2> SUFFICES ASSUME IInv, NEW c \in Caller, cpc[c] = "report", NEW w \in Worker
               PROVE  wpc[w] \notin {"run", "complete"}
    BY DEF OutcomesQuiet
  <2>1. CASE WorkerCount = 1
    BY <2>1 DEF IInv, LifetimeInv
  <2>2. CASE WorkerCount > 1
    <3>1. ~\E d \in Caller : Dispatching(d) BY OneCaller DEF IInv, Dispatching
    <3>2. QED BY <2>2, <3>1 DEF IInv, BarrierInv
  <2>3. QED BY <2>1, <2>2, SchedulerAssumption
<1>2. QED BY <1>1, SpecIInv, PTL

\* No worker outlives the frame that holds the kernel and the outcomes.
THEOREM SpecFrameOutlivesWorkers == Spec => []FrameOutlivesWorkers
<1>1. KernelAlive /\ OutcomesQuiet => FrameOutlivesWorkers
  BY DEF FrameOutlivesWorkers
<1>2. QED BY <1>1, SpecKernelAlive, SpecOutcomesQuiet, PTL

\* No worker misses a dispatch or starts one before it has counted itself.
THEOREM SpecNoGenerationMissed == Spec => NoGenerationMissed
<1>1. IInv /\ [Next]_vars =>
        [\A w \in Worker :
           task'[w].observed # task[w].observed /\ WorkerCount > 1 =>
             /\ task'[w].observed = task[w].observed + 1
             /\ wpc[w] \in {"evaluate", "complete"}]_vars
  <2> SUFFICES ASSUME IInv, [Next]_vars, NEW w \in Worker,
                      task'[w].observed # task[w].observed, WorkerCount > 1
               PROVE  /\ task'[w].observed = task[w].observed + 1
                      /\ wpc[w] \in {"evaluate", "complete"}
    OBVIOUS
  <2>0. task \in [Worker -> TaskType] /\ TypeOK BY DEF IInv, TypeOK
  <2>1. \E v \in Worker : evaluate_work(v) \/ complete_work(v)
    <3>1. ASSUME NEW v \in Worker, run_lane(v) PROVE FALSE
      <4>1. PICK next : task' = [task EXCEPT ![v].next = next]
        BY <3>1 DEF run_lane, ExecuteLane
      <4>2. QED BY <2>0, <4>1 DEF TaskType
    <3>2. \A v \in Worker : ~partition_done(v) BY DEF partition_done
    <3>3. ASSUME NEW c \in Caller,
                 refuse_stage(c) \/ CallerStep(c) \/ \E n \in 0..MaxLanes : execute_stage(c, n)
          PROVE  FALSE
      <4>1. ~run_lane_inline(c) /\ ~inline_done(c)
        BY DEF IInv, OwnershipInv, run_lane_inline, inline_done
      <4>2. task' = task
        BY <3>3, <4>1 DEF refuse_stage, CallerStep, execute_stage, submit, Submit,
          generation_exhausted, notify_work, await_workers, AwaitWorkers, report_or_error
      <4>3. QED BY <4>2
    <3>4. ~launch_fails /\ ~move_scheduler /\ ~destroy_scheduler /\ ~OwnerShutsDown
          /\ (\A v \in Worker : ~launch_worker(v)) /\ ~spurious_wakeup /\ ~UNCHANGED vars
      BY DEF launch_worker, launch_fails, move_scheduler, destroy_scheduler, OwnerShutsDown,
        raise_stopping, notify_stopping, Stop, join_workers, spurious_wakeup, vars
    <3>5. QED BY <3>1, <3>2, <3>3, <3>4 DEF Next, WorkerStep, finished
  <2>2. PICK v \in Worker : evaluate_work(v) \/ complete_work(v) BY <2>1
  <2>3. EvaluateWork(v) /\ wpc[v] \in {"evaluate", "complete"}
    BY <2>2 DEF evaluate_work, complete_work
  <2>4. /\ generation # task[v].observed
        /\ \E t \in TaskType : task' = [task EXCEPT ![v] = t] /\ t.observed = generation
    BY <2>0, <2>3, EvaluateEffect
  <2>5. v = w /\ task'[w].observed = generation BY <2>0, <2>4
  <2>6. generation = task[w].observed + 1 BY <2>4, <2>5 DEF IInv, BarrierInv
  <2>7. QED BY <2>3, <2>5, <2>6
<1>2. QED BY <1>1, SpecIInv, PTL DEF Spec, NoGenerationMissed

------------------------------------------------------
\* The arithmetic of worker_partition.  A product of naturals grows with its
\* first factor.
LEMMA ProductGrows ==
  ASSUME NEW a \in Nat, NEW b \in Nat, NEW q \in Nat, a <= b
  PROVE  a * q <= b * q
<1>1. (b - a) * q \in Nat
  <2>1. b - a \in Nat OBVIOUS
  <2> DEFINE d == b - a
  <2> HIDE DEF d
  <2>2. d \in Nat => d * q \in Nat OBVIOUS
  <2>3. QED BY <2>1, <2>2 DEF d
<1>2. (b - a) * q = b * q - a * q OBVIOUS
<1>3. a * q \in Nat /\ b * q \in Nat OBVIOUS
<1>4. QED BY <1>1, <1>2, <1>3

\* A worker's partition begins where that of the worker before it ends.
LEMMA PartitionAdjoins ==
  ASSUME NEW n \in Nat, NEW w \in Nat, NEW used \in Nat \ {0}
  PROVE  partition_begin(n, w + 1, used) = partition_end(n, w, used)
<1> DEFINE q == n \div used
           r == n % used
<1>1. q \in Nat /\ r \in Nat OBVIOUS
<1>2. (w + 1) * q = w * q + q /\ w * q \in Nat BY <1>1
<1>3. Least(w + 1, r) = Least(w, r) + (IF w < r THEN 1 ELSE 0) /\ Least(w, r) \in Nat
  BY <1>1 DEF Least
<1>4. /\ partition_begin(n, w + 1, used) = (w + 1) * q + Least(w + 1, r)
      /\ partition_end(n, w, used) = w * q + Least(w, r) + q + (IF w < r THEN 1 ELSE 0)
  BY DEF partition_begin, partition_end
<1> HIDE DEF q, r
<1>5. QED BY <1>1, <1>2, <1>3, <1>4

\* A later worker's partition begins no earlier.
LEMMA PartitionAscends ==
  ASSUME NEW n \in Nat, NEW v \in Nat, NEW w \in Nat, v <= w, NEW used \in Nat \ {0}
  PROVE  partition_begin(n, v, used) <= partition_begin(n, w, used)
<1> DEFINE q == n \div used
           r == n % used
<1>1. q \in Nat /\ r \in Nat OBVIOUS
<1>2. v * q <= w * q /\ v * q \in Nat /\ w * q \in Nat BY <1>1, ProductGrows
<1>3. Least(v, r) <= Least(w, r) /\ Least(v, r) \in Nat /\ Least(w, r) \in Nat
  BY <1>1 DEF Least
<1>4. /\ partition_begin(n, v, used) = v * q + Least(v, r)
      /\ partition_begin(n, w, used) = w * q + Least(w, r)
  BY DEF partition_begin
<1> HIDE DEF q, r
<1>5. QED BY <1>2, <1>3, <1>4

\* The first partition begins at lane 0 and the last one ends at lane n.
LEMMA PartitionEnds ==
  ASSUME NEW n \in Nat, NEW used \in Nat \ {0}
  PROVE  partition_begin(n, 0, used) = 0 /\ partition_begin(n, used, used) = n
<1> DEFINE q == n \div used
           r == n % used
<1>1. q \in Nat /\ r \in Nat /\ r < used /\ n = used * q + r OBVIOUS
<1>2. Least(0, r) = 0 /\ Least(used, r) = r BY <1>1 DEF Least
<1>3. /\ partition_begin(n, 0, used) = 0 * q + Least(0, r)
      /\ partition_begin(n, used, used) = used * q + Least(used, r)
  BY DEF partition_begin
<1> HIDE DEF q, r
<1>4. QED BY <1>1, <1>2, <1>3

\* Where one partition lies among the lanes, and beside another.
LEMMA PartitionBounds ==
  ASSUME NEW n \in Nat, NEW used \in Nat \ {0}, NEW w \in 0..used - 1
  PROVE  /\ partition_begin(n, w, used) \in Nat /\ partition_end(n, w, used) \in Nat
         /\ partition_begin(n, w, used) <= partition_end(n, w, used)
         /\ partition_end(n, w, used) <= n
         /\ \A v \in 0..used - 1 :
              v < w => partition_end(n, v, used) <= partition_begin(n, w, used)
<1>1. w \in Nat /\ w + 1 \in Nat /\ w <= w + 1 /\ w + 1 <= used OBVIOUS
<1>2. partition_begin(n, w + 1, used) = partition_end(n, w, used)
  BY <1>1, PartitionAdjoins
<1>3. partition_begin(n, w, used) <= partition_begin(n, w + 1, used)
  BY <1>1, PartitionAscends
<1>4. partition_begin(n, w + 1, used) <= n
  <2>1. partition_begin(n, w + 1, used) <= partition_begin(n, used, used)
    BY <1>1, PartitionAscends
  <2>2. QED BY <2>1, PartitionEnds
<1>5. ASSUME NEW v \in 0..used - 1, v < w
      PROVE  partition_end(n, v, used) <= partition_begin(n, w, used)
  <2>1. v \in Nat /\ v + 1 \in Nat /\ v + 1 <= w BY <1>1, <1>5
  <2>2. partition_begin(n, v + 1, used) = partition_end(n, v, used)
    BY <2>1, PartitionAdjoins
  <2>3. partition_begin(n, v + 1, used) <= partition_begin(n, w, used)
    BY <1>1, <2>1, PartitionAscends
  <2>4. QED BY <2>2, <2>3
<1>6. QED BY <1>1, <1>2, <1>3, <1>4, <1>5, PartitionType

\* Every lane lies in one of the partitions.
LEMMA PartitionCovers ==
  ASSUME NEW n \in Nat, NEW used \in Nat \ {0}, NEW lane \in 0..n - 1
  PROVE  \E w \in 0..used - 1 :
           partition_begin(n, w, used) <= lane /\ lane < partition_end(n, w, used)
<1> DEFINE T == {w \in 0..used - 1 : lane < partition_end(n, w, used)}
<1>1. used - 1 \in T
  <2>1. used - 1 \in Nat /\ (used - 1) + 1 = used OBVIOUS
  <2>2. partition_end(n, used - 1, used) = n
    <3> DEFINE u == used - 1
    <3>1. u \in Nat /\ u + 1 = used BY <2>1
    <3> HIDE DEF u
    <3>2. partition_end(n, u, used) = partition_begin(n, u + 1, used)
      BY <3>1, PartitionAdjoins
    <3>3. QED BY <3>1, <3>2, PartitionEnds DEF u
  <2>3. QED BY <2>1, <2>2
<1>2. T \subseteq Nat /\ T # {} BY <1>1
<1>3. PICK w \in T : \A u \in T : w <= u
  <2> HIDE DEF T
  <2>1. QED BY <1>2, LeastIndex
<1>4. w \in 0..used - 1 /\ w \in Nat /\ lane < partition_end(n, w, used) OBVIOUS
<1>5. partition_begin(n, w, used) <= lane
  <2>1. CASE w = 0
    BY <2>1, PartitionEnds
  <2>2. CASE w # 0
    <3> DEFINE v == w - 1
    <3>1. v \in 0..used - 1 /\ v \in Nat /\ v + 1 = w /\ v < w BY <1>4, <2>2
    <3>2. v \notin T BY <1>3, <3>1
    <3>3. ~(lane < partition_end(n, v, used)) BY <3>1, <3>2
    <3> HIDE DEF v, T
    <3>4. partition_end(n, v, used) = partition_begin(n, w, used)
      BY <3>1, PartitionAdjoins
    <3>5. partition_end(n, v, used) \in Nat BY <3>1, PartitionType
    <3>6. QED BY <3>3, <3>4, <3>5
  <2>3. QED BY <2>1, <2>2
<1>6. QED BY <1>4, <1>5

------------------------------------------------------
\* What the refinement of the barrier rests on: which lanes of a stage have run.
\* An outcome names the first failure among the lanes from begin up to upto.
Summarises(outcome, begin, upto) ==
  IF outcome.failure = "none"
    THEN \A lane \in Lane : begin <= lane /\ lane < upto => failures[lane] = "none"
    ELSE LET first == outcome.first_failed_lane
         IN  /\ first \in Lane /\ begin <= first /\ first < upto
             /\ failures[first] = outcome.failure
             /\ \A lane \in Lane : begin <= lane /\ lane < first => failures[lane] = "none"

\* Of worker w's share of n lanes exactly those below upto have run, once each.
RanUpTo(w, upto, n, used) ==
  /\ partition_begin(n, w, used) <= upto /\ upto <= partition_end(n, w, used)
  /\ \A lane \in Lane :
       partition_begin(n, w, used) <= lane /\ lane < partition_end(n, w, used) =>
         /\ executed[lane] = IF lane < upto THEN 1 ELSE 0
         /\ upto <= lane => failures[lane] = "none"
  /\ Summarises(outcomes[w], partition_begin(n, w, used), upto)

\* How far worker w of the pool has come in the current dispatch of n lanes.
Reached(w, n, used) ==
  IF task[w].observed # generation THEN partition_begin(n, w, used)
  ELSE IF wpc[w] = "run" THEN task[w].next
  ELSE partition_end(n, w, used)

Used(n) == Least(WorkerCount, n)

NothingRan == \A lane \in Lane : executed[lane] = 0 /\ failures[lane] = "none"

\* A submitted stage: every worker is where its place in the loop says.
SharesInv(n) ==
  /\ lanes = n /\ workers_used = Used(n)
  /\ \A w \in 0..Used(n) - 1 : RanUpTo(w, Reached(w, n, Used(n)), n, Used(n))
  /\ \A w \in Worker : wpc[w] = "run" =>
       /\ w < Used(n)
       /\ task[w].end = partition_end(n, w, Used(n))

\* The lanes of the stage that a caller has under way, in every phase of it.
StageInv(c) ==
  /\ cpc[c] \notin {"idle", "report"} => request[c] > 0
  /\ cpc[c] # "idle" => \A lane \in Lane : request[c] <= lane => executed[lane] = 0
  /\ cpc[c] = "submit" => NothingRan
  /\ cpc[c] = "inline" =>
       task[0].end = request[c] /\ RanUpTo(0, task[0].next, request[c], 1)
  /\ Dispatching(c) => SharesInv(request[c])
  /\ cpc[c] = "report" =>
       \A w \in 0..Used(request[c]) - 1 :
         RanUpTo(w, partition_end(request[c], w, Used(request[c])), request[c], Used(request[c]))

LaneInv == \A c \in Caller : StageInv(c)

\* The number of workers a dispatch of n lanes uses.
LEMMA UsedBounds ==
  ASSUME NEW n \in 0..MaxLanes
  PROVE  /\ n \in Nat /\ Used(n) \in Nat /\ Used(n) <= WorkerCount
         /\ 0..Used(n) - 1 \subseteq Worker
         /\ n > 0 => Used(n) \in Nat \ {0}
BY SchedulerAssumption DEF Used, Least, Worker

\* What was recorded of a share stays true while its lanes and its outcome do.
LEMMA RanKept ==
  ASSUME NEW w, NEW upto, NEW n, NEW used,
         RanUpTo(w, upto, n, used),
         outcomes'[w] = outcomes[w],
         \A lane \in Lane :
           partition_begin(n, w, used) <= lane /\ lane < partition_end(n, w, used) =>
             executed'[lane] = executed[lane] /\ failures'[lane] = failures[lane],
         partition_begin(n, w, used) \in Nat, partition_end(n, w, used) \in Nat, upto \in Nat
  PROVE  RanUpTo(w, upto, n, used)'
<1> DEFINE b == partition_begin(n, w, used)
           e == partition_end(n, w, used)
<1>0. b <= upto /\ upto <= e /\ b \in Nat /\ e \in Nat BY DEF RanUpTo
<1>1. \A lane \in Lane : b <= lane /\ lane < e =>
         executed'[lane] = (IF lane < upto THEN 1 ELSE 0) /\ (upto <= lane => failures'[lane] = "none")
  BY DEF RanUpTo
<1>2. Summarises(outcomes[w], b, upto) BY DEF RanUpTo
<1>3. Lane \subseteq Nat BY SchedulerAssumption DEF Lane
<1>4. \A lane \in Lane : b <= lane /\ lane < upto => failures'[lane] = failures[lane]
  BY <1>0, <1>3
<1>7. b' = b /\ e' = e BY DEF partition_begin, partition_end, Least
<1> HIDE DEF b, e
<1>5. Summarises(outcomes[w], b, upto)'
  <2>1. CASE outcomes[w].failure = "none"
    BY <1>2, <1>4, <1>7, <2>1 DEF Summarises
  <2>2. CASE outcomes[w].failure # "none"
    <3> DEFINE first == outcomes[w].first_failed_lane
    <3>1. /\ first \in Lane /\ b <= first /\ first < upto
          /\ failures[first] = outcomes[w].failure
          /\ \A lane \in Lane : b <= lane /\ lane < first => failures[lane] = "none"
      BY <1>2, <2>2 DEF Summarises
    <3>2. failures'[first] = outcomes[w].failure BY <1>4, <3>1
    <3>3. \A lane \in Lane : b <= lane /\ lane < first => failures'[lane] = "none"
      <4> SUFFICES ASSUME NEW lane \in Lane, b <= lane, lane < first
                   PROVE  failures'[lane] = "none"
        OBVIOUS
      <4>1. lane \in Nat /\ first \in Nat /\ first < upto BY <1>3, <3>1
      <4> HIDE DEF first
      <4>2. lane < upto BY <4>1
      <4>3. QED BY <1>4, <3>1, <4>2
    <3>4. QED BY <1>7, <2>2, <3>1, <3>2, <3>3 DEF Summarises
  <2>3. QED BY <2>1, <2>2
<1>6. QED BY <1>0, <1>1, <1>5, <1>7 DEF RanUpTo, b, e

\* The variables a lane changes.
LEMMA ExecuteEffect ==
  ASSUME TypeOK, NEW w \in Worker, ExecuteLane(w)
  PROVE  \E status \in Failure \cup {"none"} :
           /\ executed' = [executed EXCEPT ![task[w].next] = executed[task[w].next] + 1]
           /\ failures' = [failures EXCEPT ![task[w].next] = status]
           /\ outcomes' = [outcomes EXCEPT ![w] = Recorded(outcomes[w], task[w].next, status)]
           /\ task' = [task EXCEPT ![w] = [task[w] EXCEPT !.next = task[w].next + 1]]
BY DEF ExecuteLane, next_lane

\* One more lane of a share.
LEMMA RanExtended ==
  ASSUME TypeOK, NEW n \in 0..MaxLanes, NEW used \in 1..WorkerCount, NEW w \in 0..used - 1,
         RanUpTo(w, task[w].next, n, used), task[w].end = partition_end(n, w, used),
         ExecuteLane(w)
  PROVE  /\ RanUpTo(w, task[w].next, n, used)'
         /\ task'[w].next = task[w].next + 1 /\ task'[w].end = task[w].end
         /\ task'[w].observed = task[w].observed
         /\ \A v \in Worker : v # w => task'[v] = task[v]
         /\ \A v \in 0..used - 1, upto \in Nat :
              v # w /\ RanUpTo(v, upto, n, used) => RanUpTo(v, upto, n, used)'
         /\ \A lane \in Lane : n <= lane => executed'[lane] = executed[lane]
         /\ task[w].next \in Lane /\ task[w].next < n /\ executed[task[w].next] = 0
<1> DEFINE b == partition_begin(n, w, used)
           e == partition_end(n, w, used)
           at == task[w].next
<1>0. /\ n \in Nat /\ used \in Nat \ {0} /\ w \in Worker /\ 0..used - 1 \subseteq Worker
      /\ Lane \subseteq Nat /\ MaxLanes \in Nat /\ n <= MaxLanes
  BY SchedulerAssumption DEF Worker, Lane
<1>1. b \in Nat /\ e \in Nat /\ b <= at /\ at < e /\ e <= n /\ at \in Nat
  <2>1. at \in Nat BY <1>0 DEF TypeOK, TaskType
  <2>2. at < e /\ b <= at BY DEF ExecuteLane, RanUpTo
  <2>3. b \in Nat /\ e \in Nat /\ e <= n BY <1>0, PartitionBounds
  <2>4. QED BY <2>1, <2>2, <2>3
<1>2. at \in Lane /\ at < n BY <1>0, <1>1 DEF Lane
<1>3. PICK status \in Failure \cup {"none"} :
         /\ executed' = [executed EXCEPT ![at] = executed[at] + 1]
         /\ failures' = [failures EXCEPT ![at] = status]
         /\ outcomes' = [outcomes EXCEPT ![w] = Recorded(outcomes[w], at, status)]
         /\ task' = [task EXCEPT ![w] = [task[w] EXCEPT !.next = at + 1]]
  BY <1>0, ExecuteEffect
<1>4. /\ \A lane \in Lane : /\ executed'[lane] = IF lane = at THEN executed[at] + 1 ELSE executed[lane]
                            /\ failures'[lane] = IF lane = at THEN status ELSE failures[lane]
      /\ \A v \in Worker : outcomes'[v] = IF v = w THEN Recorded(outcomes[w], at, status) ELSE outcomes[v]
  BY <1>2, <1>3 DEF TypeOK
<1>5. executed[at] = 0 /\ failures[at] = "none" BY <1>0, <1>1, <1>2 DEF RanUpTo
<1>6. /\ task'[w].next = at + 1 /\ task'[w].end = task[w].end
      /\ task'[w].observed = task[w].observed
      /\ \A v \in Worker : v # w => task'[v] = task[v]
  <2>1. task'[w] = [task[w] EXCEPT !.next = at + 1] BY <1>0, <1>3 DEF TypeOK
  <2>2. task[w] \in TaskType BY <1>0 DEF TypeOK
  <2>3. QED BY <1>0, <1>3, <2>1, <2>2 DEF TypeOK, TaskType
<1>7. RanUpTo(w, task[w].next, n, used)'
  <2>1. b <= at + 1 /\ at + 1 <= e BY <1>1
  <2>2. \A lane \in Lane : b <= lane /\ lane < e =>
          /\ executed'[lane] = IF lane < at + 1 THEN 1 ELSE 0
          /\ at + 1 <= lane => failures'[lane] = "none"
    <3> SUFFICES ASSUME NEW lane \in Lane, b <= lane, lane < e
                 PROVE  /\ executed'[lane] = IF lane < at + 1 THEN 1 ELSE 0
                        /\ at + 1 <= lane => failures'[lane] = "none"
      OBVIOUS
    <3>1. executed[lane] = (IF lane < at THEN 1 ELSE 0) /\ (at <= lane => failures[lane] = "none")
      BY DEF RanUpTo
    <3>2. lane \in Nat BY <1>0
    <3>3. CASE lane = at
      BY <1>1, <1>4, <1>5, <3>3
    <3>4. CASE lane # at
      BY <1>1, <1>4, <3>1, <3>2, <3>4
    <3>5. QED BY <3>3, <3>4
  <2>5. ASSUME NEW upto, upto = at + 1
        PROVE  Summarises(outcomes[w], b, upto)'
    <3>1. Summarises(outcomes[w], b, at) BY DEF RanUpTo
    <3>2. outcomes'[w] = Recorded(outcomes[w], at, status) BY <1>0, <1>4
    <3>7. b' = b BY DEF partition_begin, Least
    <3> HIDE DEF b, e, at
    <3>3. CASE outcomes[w].failure = "none" /\ status = "none"
      <4>1. outcomes'[w].failure = "none" BY <3>2, <3>3 DEF Recorded
      <4>2. \A lane \in Lane : b <= lane /\ lane < at + 1 => failures'[lane] = "none"
        BY <1>0, <1>1, <1>4, <3>1, <3>3 DEF Summarises
      <4>3. QED BY <2>5, <3>7, <4>1, <4>2 DEF Summarises
    <3>4. CASE outcomes[w].failure = "none" /\ status # "none"
      <4>1. outcomes'[w] = [failure |-> status, first_failed_lane |-> at]
        BY <3>2, <3>4 DEF Recorded
      <4>2. \A lane \in Lane : b <= lane /\ lane < at => failures'[lane] = "none"
        BY <1>0, <1>1, <1>4, <3>1, <3>4 DEF Summarises
      <4>3. at < at + 1 /\ failures'[at] = status BY <1>1, <1>2, <1>4
      <4>4. QED BY <1>1, <1>2, <2>5, <3>4, <3>7, <4>1, <4>2, <4>3 DEF Summarises
    <3>5. CASE outcomes[w].failure # "none"
      <4> DEFINE first == outcomes[w].first_failed_lane
      <4>1. /\ first \in Lane /\ b <= first /\ first < at
            /\ failures[first] = outcomes[w].failure
            /\ \A lane \in Lane : b <= lane /\ lane < first => failures[lane] = "none"
        BY <3>1, <3>5 DEF Summarises
      <4>2. outcomes'[w] = outcomes[w] BY <3>2, <3>5 DEF Recorded
      <4> HIDE DEF first
      <4>6. first \in Nat BY <1>0, <4>1
      <4>3. first < at + 1 /\ failures'[first] = outcomes[w].failure
        BY <1>1, <1>4, <4>1, <4>6
      <4>4. ASSUME NEW lane \in Lane, b <= lane, lane < first
            PROVE  failures'[lane] = "none"
        <5>1. lane \in Nat BY <1>0
        <5>2. lane # at BY <1>1, <4>1, <4>4, <4>6, <5>1
        <5>3. QED BY <1>4, <4>1, <4>4, <5>2
      <4>5. QED BY <2>5, <3>5, <3>7, <4>1, <4>2, <4>3, <4>4 DEF Summarises, first
    <3>6. QED BY <3>3, <3>4, <3>5
  <2>3. Summarises(outcomes[w], b, task[w].next)' BY <1>6, <2>5
  <2>6. b' = b /\ e' = e BY DEF partition_begin, partition_end, Least
  <2>4. QED BY <1>6, <2>1, <2>2, <2>3, <2>6 DEF RanUpTo
<1>8. ASSUME NEW v \in 0..used - 1, NEW upto \in Nat, v # w, RanUpTo(v, upto, n, used)
      PROVE  RanUpTo(v, upto, n, used)'
  <2> DEFINE bv == partition_begin(n, v, used)
             ev == partition_end(n, v, used)
  <2>1. bv \in Nat /\ ev \in Nat BY <1>0, PartitionBounds
  <2>2. ev <= b \/ e <= bv
    <3>1. v < w \/ w < v BY <1>8
    <3>2. QED BY <1>0, <3>1, PartitionBounds
  <2>3. \A lane \in Lane : bv <= lane /\ lane < ev =>
           executed'[lane] = executed[lane] /\ failures'[lane] = failures[lane]
    BY <1>0, <1>1, <1>4, <2>1, <2>2
  <2>4. outcomes'[v] = outcomes[v] BY <1>0, <1>4, <1>8
  <2>5. QED BY <1>8, <2>1, <2>3, <2>4, RanKept
<1>9. \A lane \in Lane : n <= lane => executed'[lane] = executed[lane]
  BY <1>0, <1>1, <1>4
<1>10. QED BY <1>2, <1>5, <1>6, <1>7, <1>8, <1>9

\* Where a share ends, and how far it has come, are lane numbers.
LEMMA ReachedType ==
  ASSUME TypeOK, NEW n \in 0..MaxLanes, NEW w \in 0..Used(n) - 1
  PROVE  /\ partition_begin(n, w, Used(n)) \in Nat /\ partition_end(n, w, Used(n)) \in Nat
         /\ Reached(w, n, Used(n)) \in Nat
<1>1. n \in Nat /\ Used(n) \in Nat \ {0} /\ w \in Worker /\ w \in Nat
  <2>1. n \in Nat /\ Used(n) \in Nat /\ w \in Worker BY UsedBounds
  <2>2. QED BY <2>1
<1>2. partition_begin(n, w, Used(n)) \in Nat /\ partition_end(n, w, Used(n)) \in Nat
  BY <1>1, PartitionType
<1>3. task[w].next \in Nat BY <1>1 DEF TypeOK, TaskType
<1>4. QED BY <1>2, <1>3 DEF Reached

\* A dispatch keeps its shares while no lane runs and no worker leaves its place.
LEMMA SharesKept ==
  ASSUME TypeOK, NEW n \in 0..MaxLanes, SharesInv(n),
         executed' = executed, failures' = failures, outcomes' = outcomes,
         lanes' = lanes, workers_used' = workers_used,
         \A w \in 0..Used(n) - 1 : Reached(w, n, Used(n))' = Reached(w, n, Used(n)),
         \A w \in Worker : wpc'[w] = "run" =>
           w < Used(n) /\ task'[w].end = partition_end(n, w, Used(n))
  PROVE  SharesInv(n)'
<1>1. ASSUME NEW w \in 0..Used(n) - 1
      PROVE  RanUpTo(w, Reached(w, n, Used(n)), n, Used(n))'
  <2> DEFINE upto == Reached(w, n, Used(n))
  <2>1. RanUpTo(w, upto, n, Used(n)) BY DEF SharesInv
  <2>2. /\ partition_begin(n, w, Used(n)) \in Nat /\ partition_end(n, w, Used(n)) \in Nat
        /\ upto \in Nat
    BY ReachedType
  <2>3. ASSUME NEW u \in Nat, u = upto
        PROVE  RanUpTo(w, u, n, Used(n))'
    BY <2>1, <2>2, <2>3, RanKept
  <2>4. Reached(w, n, Used(n))' = upto OBVIOUS
  <2>5. QED BY <2>2, <2>3, <2>4
<1>2. Used(n)' = Used(n) /\ \A w : partition_end(n, w, Used(n))' = partition_end(n, w, Used(n))
  BY DEF Used, partition_end, partition_begin, Least
<1>3. QED BY <1>1, <1>2 DEF SharesInv

\* A finished stage keeps its shares while the outcomes and the history stand.
LEMMA FinishedKept ==
  ASSUME TypeOK, NEW n \in 0..MaxLanes,
         executed' = executed, failures' = failures, outcomes' = outcomes,
         NEW w \in 0..Used(n) - 1, RanUpTo(w, partition_end(n, w, Used(n)), n, Used(n))
  PROVE  RanUpTo(w, partition_end(n, w, Used(n)), n, Used(n))'
<1> DEFINE upto == partition_end(n, w, Used(n))
<1>1. partition_begin(n, w, Used(n)) \in Nat /\ upto \in Nat BY ReachedType
<1>2. ASSUME NEW u \in Nat, u = upto
      PROVE  RanUpTo(w, u, n, Used(n))'
  BY <1>1, <1>2, RanKept
<1>3. partition_end(n, w, Used(n))' = upto
  BY DEF Used, partition_end, partition_begin, Least
<1>4. QED BY <1>1, <1>2, <1>3

\* A step that runs no lane and leaves every thread in its phase of the stage.
LEMMA StageFrame ==
  ASSUME TypeOK, NEW c \in Caller, StageInv(c),
         request'[c] = request[c],
         executed' = executed, failures' = failures, outcomes' = outcomes,
         task' = task, generation' = generation, lanes' = lanes, workers_used' = workers_used,
         cpc'[c] = cpc[c] \/ (Dispatching(c) /\ Dispatching(c)'),
         \A w \in Worker : wpc'[w] = "run" <=> wpc[w] = "run"
  PROVE  StageInv(c)'
<1>0. request[c] \in 0..MaxLanes BY DEF TypeOK
<1>1. CASE cpc[c] = "idle"
  BY <1>1 DEF StageInv, Dispatching
<1>2. CASE cpc[c] = "submit"
  BY <1>2 DEF StageInv, Dispatching, NothingRan
<1>3. CASE cpc[c] = "inline"
  <2>0. 0 \in Worker BY SchedulerAssumption DEF Worker
  <2>1. task[0].next \in Nat BY <2>0 DEF TypeOK, TaskType
  <2>2. /\ partition_begin(request[c], 0, 1) \in Nat /\ partition_end(request[c], 0, 1) \in Nat
    BY <1>0, SchedulerAssumption, PartitionType
  <2>3. RanUpTo(0, task[0].next, request[c], 1) BY <1>3 DEF StageInv
  <2>4. ASSUME NEW u \in Nat, NEW n \in Nat, u = task[0].next, n = request[c]
        PROVE  RanUpTo(0, u, n, 1)'
    BY <2>2, <2>3, <2>4, RanKept
  <2>5. RanUpTo(0, task[0].next, request[c], 1)'
    BY <1>0, <2>1, <2>4, SchedulerAssumption
  <2>6. QED BY <1>3, <2>5 DEF StageInv, Dispatching
<1>4. CASE Dispatching(c)
  <2>1. ASSUME NEW n \in 0..MaxLanes, n = request[c]
        PROVE  SharesInv(n)'
    <3>1. SharesInv(n) BY <1>4, <2>1 DEF StageInv
    <3>2. 0..Used(n) - 1 \subseteq Worker BY UsedBounds
    <3>3. \A w \in 0..Used(n) - 1 : Reached(w, n, Used(n))' = Reached(w, n, Used(n))
      BY <3>2 DEF Reached, Used, partition_begin, partition_end, Least
    <3>4. \A w \in Worker : wpc'[w] = "run" =>
            w < Used(n) /\ task'[w].end = partition_end(n, w, Used(n))
      BY <3>1 DEF SharesInv
    <3>5. QED BY <3>1, <3>3, <3>4, SharesKept
  <2>2. SharesInv(request[c])' BY <1>0, <2>1
  <2>3. Dispatching(c)' BY <1>4 DEF Dispatching
  <2>4. request[c] > 0 /\ \A lane \in Lane : request[c] <= lane => executed[lane] = 0
    BY <1>4 DEF StageInv, Dispatching
  <2>5. QED BY <2>2, <2>3, <2>4 DEF StageInv, Dispatching
<1>5. CASE cpc[c] = "report"
  <2>1. ASSUME NEW n \in 0..MaxLanes, n = request[c]
        PROVE  \A w \in 0..Used(n) - 1 : RanUpTo(w, partition_end(n, w, Used(n)), n, Used(n))'
    BY <1>5, <2>1, FinishedKept DEF StageInv
  <2>2. cpc'[c] = "report" /\ \A lane \in Lane : request[c] <= lane => executed[lane] = 0
    BY <1>5 DEF StageInv, Dispatching
  <2>3. \A w \in 0..Used(request[c])' - 1 :
          RanUpTo(w, partition_end(request[c], w, Used(request[c])), request[c], Used(request[c]))'
    BY <1>0, <2>1 DEF Used
  <2>4. QED BY <2>2, <2>3 DEF StageInv, Dispatching
<1>6. QED BY <1>1, <1>2, <1>3, <1>4, <1>5 DEF TypeOK, CallerPc, Dispatching

\* The owner acts only while no caller has a stage under way.
LEMMA StageByOwner ==
  ASSUME IInv, LaneInv, NEW c \in Caller,
         \/ \E w \in Worker : launch_worker(w)
         \/ launch_fails \/ move_scheduler \/ destroy_scheduler \/ OwnerShutsDown
  PROVE  StageInv(c)'
<1>1. cpc' = cpc
  BY DEF launch_worker, launch_fails, move_scheduler, destroy_scheduler, OwnerShutsDown,
    raise_stopping, notify_stopping, Stop, join_workers
<1>2. phase # "ready" \/ cpc[c] = "idle"
  BY DEF launch_worker, launch_fails, move_scheduler, destroy_scheduler, OwnerShutsDown,
    raise_stopping, notify_stopping, Stop, join_workers
<1>3. cpc'[c] = "idle" BY <1>1, <1>2 DEF IInv, OwnershipInv
<1>4. QED BY <1>3 DEF StageInv, Dispatching

\* A wake-up, or no step at all.
LEMMA StageByWakeup ==
  ASSUME IInv, LaneInv, NEW c \in Caller, spurious_wakeup \/ UNCHANGED vars
  PROVE  StageInv(c)'
<1>0. cpc \in [Caller -> CallerPc] /\ wpc \in [Worker -> WorkerPc] /\ TypeOK /\ StageInv(c)
  BY DEF IInv, TypeOK, LaneInv
<1>1. /\ request' = request /\ executed' = executed /\ failures' = failures
      /\ outcomes' = outcomes /\ task' = task /\ generation' = generation
      /\ lanes' = lanes /\ workers_used' = workers_used
  BY DEF spurious_wakeup, vars, work
<1>2. cpc'[c] = cpc[c] \/ (cpc[c] = "asleep" /\ cpc'[c] = "await")
  BY <1>0 DEF spurious_wakeup, vars
<1>3. \A w \in Worker : wpc'[w] = "run" <=> wpc[w] = "run"
  BY <1>0 DEF spurious_wakeup, vars
<1>4. QED BY <1>0, <1>1, <1>2, <1>3, StageFrame DEF Dispatching

\* Nothing has run when a call takes the dispatch mutex.
LEMMA StageBegins ==
  ASSUME IInv, LaneInv, NEW c \in Caller, NEW d \in Caller, NEW n \in 0..MaxLanes,
         execute_stage(d, n)
  PROVE  StageInv(c)'
<1>0. cpc \in [Caller -> CallerPc] /\ request \in [Caller -> 0..MaxLanes] /\ TypeOK
      /\ task \in [Worker -> TaskType] /\ outcomes \in [Worker -> OutcomeType]
      /\ n \in Nat /\ 0 \in Worker /\ Lane \subseteq Nat
  BY SchedulerAssumption DEF IInv, TypeOK, Worker, Lane
<1>1. cpc[c] = "idle"
  BY SchedulerAssumption DEF execute_stage, IInv, OwnershipInv
<1>2. CASE c # d
  <2>1. cpc'[c] = "idle" BY <1>0, <1>1, <1>2 DEF execute_stage
  <2>2. QED BY <2>1 DEF StageInv, Dispatching
<1>3. CASE c = d
  <2>1. /\ request'[c] = n
        /\ cpc'[c] = IF n = 0 THEN "report" ELSE IF WorkerCount = 1 THEN "inline" ELSE "submit"
        /\ executed' = [lane \in Lane |-> 0] /\ failures' = [lane \in Lane |-> "none"]
    BY <1>0, <1>3 DEF execute_stage
  <2>2. NothingRan' BY <2>1 DEF NothingRan
  <2>3. CASE n = 0
    <3>1. 0..Used(0) - 1 = {} BY SchedulerAssumption DEF Used, Least
    <3>2. 0..Used(request[c])' - 1 = {} BY <2>1, <2>3, <3>1 DEF Used
    <3>3. cpc'[c] = "report" BY <2>1, <2>3
    <3>4. \A w \in (0..Used(request[c]) - 1)' :
            RanUpTo(w, partition_end(request[c], w, Used(request[c])), request[c], Used(request[c]))'
      BY <3>2
    <3>5. \A lane \in Lane : executed'[lane] = 0 BY <2>1
    <3>6. QED BY <3>3, <3>4, <3>5 DEF StageInv, Dispatching
  <2>4. CASE n > 0 /\ WorkerCount = 1
    <3>1. /\ task'[0] = [observed |-> 0, kernel |-> c, next |-> 0, end |-> n]
          /\ outcomes'[0] = Success
      BY <1>0, <1>3, <2>4 DEF execute_stage
    <3>2. task'[0].next = 0 /\ task'[0].end = n /\ outcomes'[0].failure = "none"
      BY <3>1 DEF Success
    <3>3. partition_begin(n, 0, 1) = 0 /\ partition_end(n, 0, 1) \in Nat
      BY <1>0, PartitionEnds, PartitionType
    <3>4. RanUpTo(0, 0, n, 1)'
      <4>1. Summarises(outcomes[0], 0, 0)'
        <5>1. \A lane \in Lane : ~(0 <= lane /\ lane < 0) BY <1>0
        <5>2. QED BY <3>2, <5>1 DEF Summarises
      <4>2. \A lane \in Lane : executed'[lane] = 0 /\ failures'[lane] = "none"
        BY <2>1
      <4>3. (partition_begin(n, 0, 1) = 0)' /\ partition_end(n, 0, 1)' = partition_end(n, 0, 1)
        BY <3>3 DEF partition_begin, partition_end, Least
      <4>4. QED BY <1>0, <3>3, <4>1, <4>2, <4>3 DEF RanUpTo
    <3>5. RanUpTo(0, task[0].next, request[c], 1)' BY <2>1, <3>2, <3>4
    <3>6. cpc'[c] = "inline" BY <2>1, <2>4
    <3>7. \A lane \in Lane : executed'[lane] = 0 BY <2>1
    <3>8. QED BY <2>1, <2>4, <3>2, <3>5, <3>6, <3>7 DEF StageInv, Dispatching
  <2>5. CASE n > 0 /\ WorkerCount # 1
    <3>1. cpc'[c] = "submit" /\ request'[c] > 0 BY <2>1, <2>5
    <3>2. QED BY <2>2, <3>1 DEF StageInv, Dispatching, NothingRan
  <2>6. QED BY <1>0, <2>3, <2>4, <2>5
<1>4. QED BY <1>2, <1>3

\* The first critical section of dispatch: every worker's share begins.
LEMMA StageSubmits ==
  ASSUME IInv, LaneInv, NEW c \in Caller, submit(c)
  PROVE  StageInv(c)'
<1>0. /\ cpc \in [Caller -> CallerPc] /\ TypeOK /\ StageInv(c) /\ cpc[c] = "submit"
      /\ generation \in Nat /\ WorkerCount \in Nat \ {0} /\ Lane \subseteq Nat
  BY SchedulerAssumption DEF IInv, TypeOK, LaneInv, submit, Submit, Lane
<1>1. /\ cpc'[c] = "notify" /\ request' = request /\ executed' = executed
      /\ failures' = failures /\ task' = task /\ wpc' = wpc
      /\ outcomes' = [w \in Worker |-> Success] /\ lanes' = request[c]
      /\ workers_used' = Used(request[c]) /\ generation' = generation + 1
  BY <1>0 DEF submit, Submit, Used
<1>2. request[c] > 0 /\ NothingRan BY <1>0 DEF StageInv
<1>3. \A w \in Worker : task[w].observed = generation /\ wpc[w] \notin {"run", "complete"}
  <2>1. WorkerCount > 1 BY <1>0 DEF IInv, OwnershipInv
  <2>2. ~\E d \in Caller : Dispatching(d)
    BY <1>0, OneCaller DEF IInv, Dispatching
  <2>3. QED BY <2>1, <2>2 DEF IInv, BarrierInv
<1>4. ASSUME NEW n \in 0..MaxLanes, n = request[c]
      PROVE  SharesInv(n)'
  <2>1. n \in Nat /\ Used(n) \in Nat \ {0} /\ 0..Used(n) - 1 \subseteq Worker
    BY <1>2, <1>4, UsedBounds
  <2>2. ASSUME NEW w \in 0..Used(n) - 1
        PROVE  RanUpTo(w, Reached(w, n, Used(n)), n, Used(n))'
    <3> DEFINE b == partition_begin(n, w, Used(n))
               e == partition_end(n, w, Used(n))
    <3>1. b \in Nat /\ e \in Nat /\ b <= e BY <2>1, PartitionBounds
    <3>2. b' = b /\ e' = e BY DEF Used, partition_begin, partition_end, Least
    <3>3. Reached(w, n, Used(n))' = b
      BY <1>0, <1>1, <1>3, <2>1, <3>2 DEF Reached
    <3>4. outcomes'[w].failure = "none" BY <1>1, <2>1 DEF Success
    <3> HIDE DEF b, e
    <3>5. Summarises(outcomes[w], b, b)'
      <4>1. \A lane \in Lane : ~(b' <= lane /\ lane < b') BY <1>0, <3>1, <3>2
      <4>2. QED BY <3>4, <4>1 DEF Summarises
    <3>6. \A lane \in Lane : b <= lane /\ lane < e =>
            executed'[lane] = (IF lane < b THEN 1 ELSE 0) /\ (b <= lane => failures'[lane] = "none")
      BY <1>0, <1>1, <1>2, <3>1 DEF NothingRan
    <3>7. ASSUME NEW u \in Nat, u = b
          PROVE  RanUpTo(w, u, n, Used(n))'
      BY <3>1, <3>2, <3>5, <3>6, <3>7 DEF RanUpTo, b, e
    <3>8. QED BY <3>1, <3>3, <3>7
  <2>3. \A w \in Worker : wpc'[w] # "run" BY <1>1, <1>3
  <2>4. lanes' = n /\ workers_used' = Used(n) /\ Used(n)' = Used(n)
    BY <1>1, <1>4 DEF Used
  <2>5. QED BY <2>2, <2>3, <2>4 DEF SharesInv
<1>5. SharesInv(request[c])' BY <1>0, <1>1, <1>4 DEF TypeOK
<1>6. QED BY <1>1, <1>2, <1>5 DEF StageInv, Dispatching, NothingRan

\* A caller returns, and others have nothing under way.
LEMMA StageReturns ==
  ASSUME IInv, LaneInv, NEW c \in Caller, NEW d \in Caller,
         refuse_stage(d) \/ generation_exhausted(d) \/ report_or_error(d)
  PROVE  StageInv(c)'
<1>0. cpc \in [Caller -> CallerPc] /\ TypeOK /\ StageInv(c)
  BY DEF IInv, TypeOK, LaneInv
<1>1. CASE refuse_stage(d)
  BY <1>0, <1>1, StageFrame DEF refuse_stage, work
<1>2. CASE generation_exhausted(d) \/ report_or_error(d)
  <2>1. cpc[d] # "idle" /\ cpc' = [cpc EXCEPT ![d] = "idle"]
    BY <1>2 DEF generation_exhausted, report_or_error
  <2>2. cpc'[c] = "idle" BY <1>0, <2>1, OneCaller DEF IInv
  <2>3. QED BY <2>2 DEF StageInv, Dispatching
<1>3. QED BY <1>1, <1>2

\* The dispatching thread wakes the pool, or goes on waiting for it.
LEMMA StageWaits ==
  ASSUME IInv, LaneInv, NEW c \in Caller, NEW d \in Caller,
         notify_work(d) \/ (await_workers(d) /\ completed_workers # WorkerCount)
  PROVE  StageInv(c)'
<1>0. cpc \in [Caller -> CallerPc] /\ wpc \in [Worker -> WorkerPc] /\ TypeOK /\ StageInv(c)
  BY DEF IInv, TypeOK, LaneInv
<1>1. \/ cpc[d] = "notify" /\ cpc' = [cpc EXCEPT ![d] = "await"]
      \/ cpc[d] = "await" /\ cpc' = [cpc EXCEPT ![d] = "asleep"]
  BY DEF notify_work, await_workers, AwaitWorkers
<1>2. /\ request' = request /\ executed' = executed /\ failures' = failures
      /\ outcomes' = outcomes /\ task' = task /\ generation' = generation
      /\ lanes' = lanes /\ workers_used' = workers_used
  BY DEF notify_work, await_workers, AwaitWorkers, work
<1>3. \A w \in Worker : wpc'[w] = "run" <=> wpc[w] = "run"
  BY <1>0 DEF notify_work, await_workers, AwaitWorkers, AllWoken
<1>4. cpc'[c] = cpc[c] \/ (Dispatching(c) /\ Dispatching(c)')
  BY <1>0, <1>1 DEF Dispatching
<1>5. QED BY <1>0, <1>2, <1>3, <1>4, StageFrame

\* When all workers have counted themselves every share has run to its end.
LEMMA StageCompletes ==
  ASSUME IInv, LaneInv, NEW c \in Caller, NEW d \in Caller,
         await_workers(d), completed_workers = WorkerCount
  PROVE  StageInv(c)'
<1>0. cpc \in [Caller -> CallerPc] /\ TypeOK /\ cpc[d] = "await"
  BY DEF IInv, TypeOK, await_workers, AwaitWorkers
<1>1. /\ cpc' = [cpc EXCEPT ![d] = "report"] /\ request' = request /\ executed' = executed
      /\ failures' = failures /\ outcomes' = outcomes
  BY DEF await_workers, AwaitWorkers
<1>2. CASE c # d
  <2>1. cpc'[c] = "idle" BY <1>0, <1>1, <1>2, OneCaller DEF IInv
  <2>2. QED BY <2>1 DEF StageInv, Dispatching
<1>3. CASE c = d
  <2>0. Dispatching(c) /\ StageInv(c) /\ request[c] \in 0..MaxLanes
    BY <1>0, <1>3 DEF Dispatching, LaneInv, TypeOK
  <2>1. \A w \in Worker : task[w].observed = generation /\ wpc[w] # "run"
    <3>1. WorkerCount > 1 BY <1>0, SchedulerAssumption DEF IInv, OwnershipInv
    <3>2. completed_workers = Cardinality(Counted)
      BY <2>0, <3>1 DEF IInv, BarrierInv
    <3>3. QED BY <3>2, AllCounted DEF Counted
  <2>2. ASSUME NEW n \in 0..MaxLanes, n = request[c]
        PROVE  \A w \in 0..Used(n) - 1 : RanUpTo(w, partition_end(n, w, Used(n)), n, Used(n))'
    <3> SUFFICES ASSUME NEW w \in 0..Used(n) - 1
                 PROVE  RanUpTo(w, partition_end(n, w, Used(n)), n, Used(n))'
      OBVIOUS
    <3>1. w \in Worker BY UsedBounds
    <3>2. RanUpTo(w, Reached(w, n, Used(n)), n, Used(n))
      BY <2>0, <2>2 DEF StageInv, SharesInv
    <3>3. Reached(w, n, Used(n)) = partition_end(n, w, Used(n))
      BY <2>1, <3>1 DEF Reached
    <3>4. QED BY <1>0, <1>1, <3>2, <3>3, FinishedKept
  <2>3. cpc'[c] = "report" /\ \A lane \in Lane : request[c] <= lane => executed[lane] = 0
    BY <1>0, <1>1, <1>3, <2>0 DEF StageInv, Dispatching
  <2>4. \A w \in 0..Used(request[c])' - 1 :
          RanUpTo(w, partition_end(request[c], w, Used(request[c])), request[c], Used(request[c]))'
    BY <1>1, <2>0, <2>2 DEF Used
  <2>5. QED BY <1>1, <2>3, <2>4 DEF StageInv, Dispatching
<1>4. QED BY <1>2, <1>3

\* The only worker's lanes, run by the calling thread.
LEMMA StageInline ==
  ASSUME IInv, LaneInv, NEW c \in Caller, NEW d \in Caller,
         run_lane_inline(d) \/ inline_done(d)
  PROVE  StageInv(c)'
<1>0. /\ cpc \in [Caller -> CallerPc] /\ task \in [Worker -> TaskType] /\ TypeOK
      /\ cpc[d] = "inline" /\ WorkerCount = 1 /\ 0 \in Worker
      /\ request' = request /\ request[d] \in 0..MaxLanes
  BY SchedulerAssumption DEF IInv, TypeOK, OwnershipInv, run_lane_inline, inline_done, Worker
<1>1. CASE c # d
  <2>1. cpc[c] = "idle" BY <1>0, <1>1, OneCaller DEF IInv
  <2>2. cpc'[c] = "idle" BY <1>0, <1>1, <2>1 DEF run_lane_inline, inline_done
  <2>3. QED BY <2>2 DEF StageInv, Dispatching
<1>2. CASE c = d /\ run_lane_inline(d)
  <2>1. ExecuteLane(0) /\ cpc' = cpc BY <1>2 DEF run_lane_inline
  <2>2. /\ RanUpTo(0, task[0].next, request[c], 1) /\ task[0].end = request[c]
        /\ request[c] > 0 /\ \A lane \in Lane : request[c] <= lane => executed[lane] = 0
    BY <1>0, <1>2 DEF LaneInv, StageInv
  <2>3. request[c] = partition_end(request[c], 0, 1)
    <3>1. request[c] \in Nat BY <1>0, <1>2, SchedulerAssumption
    <3>2. QED BY <3>1, PartitionAdjoins, PartitionEnds
  <2>4. ASSUME NEW n \in 0..MaxLanes, n = request[c]
        PROVE  /\ RanUpTo(0, task[0].next, n, 1)' /\ task'[0].end = n
               /\ \A lane \in Lane : n <= lane => executed'[lane] = executed[lane]
    BY <1>0, <2>1, <2>2, <2>3, <2>4, RanExtended
  <2>5. RanUpTo(0, task[0].next, request[c], 1)' BY <1>0, <1>2, <2>4
  <2>6. QED BY <1>0, <1>2, <2>1, <2>2, <2>4, <2>5 DEF StageInv, Dispatching
<1>3. CASE c = d /\ inline_done(d)
  <2>1. /\ cpc'[c] = "report" /\ executed' = executed /\ failures' = failures
        /\ outcomes' = outcomes /\ task[0].next = task[0].end
    BY <1>0, <1>3 DEF inline_done
  <2>2. /\ RanUpTo(0, task[0].next, request[c], 1) /\ task[0].end = request[c]
        /\ request[c] > 0 /\ \A lane \in Lane : request[c] <= lane => executed[lane] = 0
    BY <1>0, <1>3 DEF LaneInv, StageInv
  <2>3. ASSUME NEW n \in 0..MaxLanes, n = request[c]
        PROVE  \A w \in 0..Used(n) - 1 : RanUpTo(w, partition_end(n, w, Used(n)), n, Used(n))'
    <3>1. n \in Nat /\ Used(n) = 1
      BY <1>0, <2>2, <2>3, SchedulerAssumption DEF Used, Least
    <3>2. n = partition_end(n, 0, 1) BY <3>1, PartitionAdjoins, PartitionEnds
    <3>3. RanUpTo(0, partition_end(n, 0, Used(n)), n, Used(n)) /\ 0 \in 0..Used(n) - 1
      BY <2>1, <2>2, <2>3, <3>1, <3>2
    <3>4. RanUpTo(0, partition_end(n, 0, Used(n)), n, Used(n))'
      BY <1>0, <2>1, <3>3, FinishedKept
    <3>5. \A w \in 0..Used(n) - 1 : w = 0 BY <3>1
    <3>6. QED BY <3>4, <3>5
  <2>4. \A w \in 0..Used(request[c])' - 1 :
          RanUpTo(w, partition_end(request[c], w, Used(request[c])), request[c], Used(request[c]))'
    BY <1>0, <1>3, <2>3 DEF Used
  <2>5. QED BY <1>0, <2>1, <2>2, <2>4 DEF StageInv, Dispatching
<1>4. QED BY <1>1, <1>2, <1>3

\* A worker of the pool acts; the pool has more than one.
LEMMA WorkerOfPool ==
  ASSUME IInv, NEW w \in Worker, WorkerStep(w)
  PROVE  WorkerCount > 1
<1>1. wpc[w] # "unlaunched"
  BY DEF WorkerStep, evaluate_work, run_lane, partition_done, complete_work
<1>2. QED BY <1>1, SchedulerAssumption DEF IInv, LifetimeInv

\* Outside a dispatch a step of a worker disturbs no stage.
LEMMA StageOutside ==
  ASSUME IInv, LaneInv, NEW c \in Caller, NEW w \in Worker, WorkerStep(w), ~Dispatching(c)
  PROVE  StageInv(c)'
<1>0. cpc \in [Caller -> CallerPc] /\ TypeOK /\ StageInv(c) /\ request[c] \in 0..MaxLanes
  BY DEF IInv, TypeOK, LaneInv
<1>1. WorkerCount > 1 /\ cpc[c] \in {"idle", "submit", "report"}
  <2>1. WorkerCount > 1 BY WorkerOfPool
  <2>2. QED BY <1>0, <2>1 DEF IInv, OwnershipInv, Dispatching, CallerPc
<1>2. cpc'[c] = cpc[c] /\ request' = request
  BY <1>0, <1>1 DEF WorkerStep, evaluate_work, run_lane, partition_done, complete_work
<1>3. CASE cpc[c] = "idle"
  BY <1>2, <1>3 DEF StageInv, Dispatching
<1>4. CASE cpc[c] # "idle"
  <2>1. \A v \in Worker : wpc[v] \notin {"run", "complete"}
    <3>1. ~\E d \in Caller : Dispatching(d)
      BY <1>4, OneCaller DEF IInv, Dispatching
    <3>2. QED BY <1>1, <3>1 DEF IInv, BarrierInv
  <2>2. executed' = executed /\ failures' = failures /\ outcomes' = outcomes
    BY <2>1 DEF WorkerStep, evaluate_work, run_lane, partition_done, complete_work
  <2>3. CASE cpc[c] = "submit"
    BY <1>0, <1>2, <2>2, <2>3 DEF StageInv, Dispatching, NothingRan
  <2>4. CASE cpc[c] = "report"
    <3>1. ASSUME NEW n \in 0..MaxLanes, n = request[c]
          PROVE  \A v \in 0..Used(n) - 1 : RanUpTo(v, partition_end(n, v, Used(n)), n, Used(n))'
      BY <1>0, <2>2, <2>4, <3>1, FinishedKept DEF StageInv
    <3>2. \A v \in 0..Used(request[c])' - 1 :
            RanUpTo(v, partition_end(request[c], v, Used(request[c])), request[c], Used(request[c]))'
      BY <1>0, <1>2, <3>1 DEF Used
    <3>3. \A lane \in Lane : request[c] <= lane => executed[lane] = 0
      BY <1>0, <2>4 DEF StageInv
    <3>4. QED BY <1>2, <2>2, <2>4, <3>2, <3>3 DEF StageInv, Dispatching
  <2>5. QED BY <1>1, <1>4, <2>3, <2>4
<1>5. QED BY <1>3, <1>4

\* During a dispatch a step of a worker keeps the shares.
LEMMA SharesByEvaluate ==
  ASSUME IInv, NEW n \in 0..MaxLanes, n > 0, NEW c \in Caller, Dispatching(c), SharesInv(n),
         NEW w \in Worker, evaluate_work(w) \/ complete_work(w)
  PROVE  SharesInv(n)'
<1>0. /\ wpc \in [Worker -> WorkerPc] /\ task \in [Worker -> TaskType] /\ TypeOK
      /\ n \in Nat /\ Used(n) \in Nat \ {0} /\ 0..Used(n) - 1 \subseteq Worker
      /\ lanes = n /\ workers_used = Used(n) /\ w \in Nat
  <2>1. n \in Nat /\ Used(n) \in Nat \ {0} /\ 0..Used(n) - 1 \subseteq Worker
    BY UsedBounds
  <2>2. w \in Nat BY SchedulerAssumption DEF Worker
  <2>3. QED BY <2>1, <2>2 DEF IInv, TypeOK, SharesInv
<1>1. /\ executed' = executed /\ failures' = failures /\ outcomes' = outcomes
      /\ lanes' = lanes /\ workers_used' = workers_used /\ generation' = generation
      /\ wpc[w] \in {"evaluate", "complete"} /\ EvaluateWork(w)
  BY DEF evaluate_work, complete_work, work
<1>2. ~stopping BY DEF IInv, OwnershipInv, LifetimeInv, Dispatching
<1>3. /\ \A v \in Worker : partition_end(n, v, Used(n))' = partition_end(n, v, Used(n))
      /\ \A v \in Worker : partition_begin(n, v, Used(n))' = partition_begin(n, v, Used(n))
  BY DEF partition_begin, partition_end, Used, Least
<1>4. CASE generation = task[w].observed
  <2>1. wpc' = [wpc EXCEPT ![w] = "asleep"] /\ task' = task
    BY <1>1, <1>2, <1>4 DEF EvaluateWork
  <2>2. \A v \in Worker : wpc'[v] = "run" <=> wpc[v] = "run" BY <1>0, <1>1, <2>1
  <2>3. \A v \in 0..Used(n) - 1 : Reached(v, n, Used(n))' = Reached(v, n, Used(n))
    BY <1>0, <1>1, <1>3, <2>1, <2>2 DEF Reached
  <2>4. \A v \in Worker : wpc'[v] = "run" =>
          v < Used(n) /\ task'[v].end = partition_end(n, v, Used(n))
    BY <2>1, <2>2 DEF SharesInv
  <2>5. QED BY <1>0, <1>1, <2>3, <2>4, SharesKept
<1>5. CASE generation # task[w].observed
  <2> DEFINE used == w < Used(n)
             t == [observed |-> generation, kernel |-> kernel,
                   next |-> IF used THEN partition_begin(n, w, Used(n)) ELSE 0,
                   end |-> IF used THEN partition_end(n, w, Used(n)) ELSE 0]
  <2>1. wpc' = [wpc EXCEPT ![w] = IF used THEN "run" ELSE "complete"]
        /\ task' = [task EXCEPT ![w] = t]
    BY <1>0, <1>1, <1>2, <1>5 DEF EvaluateWork
  <2>2. \A v \in Worker : v # w => wpc'[v] = wpc[v] /\ task'[v] = task[v]
    BY <1>0, <2>1
  <2>3. /\ wpc'[w] = IF used THEN "run" ELSE "complete"
        /\ task'[w].observed = generation
        /\ used => /\ task'[w].next = partition_begin(n, w, Used(n))
                   /\ task'[w].end = partition_end(n, w, Used(n))
    <3>1. task'[w] = t BY <1>0, <2>1
    <3>2. QED BY <1>0, <2>1, <3>1
  <2> HIDE DEF t
  <2>4. \A v \in 0..Used(n) - 1 : Reached(v, n, Used(n))' = Reached(v, n, Used(n))
    <3> SUFFICES ASSUME NEW v \in 0..Used(n) - 1
                 PROVE  Reached(v, n, Used(n))' = Reached(v, n, Used(n))
      OBVIOUS
    <3>1. CASE v = w
      <4>1. used BY <1>0, <3>1
      <4>2. Reached(w, n, Used(n)) = partition_begin(n, w, Used(n))
        BY <1>5 DEF Reached
      <4>3. Reached(w, n, Used(n))' = partition_begin(n, w, Used(n))
        BY <1>1, <2>3, <4>1 DEF Reached
      <4>4. QED BY <3>1, <4>2, <4>3
    <3>2. CASE v # w
      BY <1>0, <1>1, <1>3, <2>2, <3>2 DEF Reached
    <3>3. QED BY <3>1, <3>2
  <2>5. \A v \in Worker : wpc'[v] = "run" =>
          v < Used(n) /\ task'[v].end = partition_end(n, v, Used(n))
    <3> SUFFICES ASSUME NEW v \in Worker, wpc'[v] = "run"
                 PROVE  v < Used(n) /\ task'[v].end = partition_end(n, v, Used(n))
      OBVIOUS
    <3>1. CASE v = w
      BY <2>3, <3>1
    <3>2. CASE v # w
      BY <2>2, <3>2 DEF SharesInv
    <3>3. QED BY <3>1, <3>2
  <2>6. QED BY <1>0, <1>1, <2>4, <2>5, SharesKept
<1>6. QED BY <1>4, <1>5

LEMMA SharesByDone ==
  ASSUME IInv, NEW n \in 0..MaxLanes, NEW c \in Caller, Dispatching(c), SharesInv(n),
         NEW w \in Worker, partition_done(w)
  PROVE  SharesInv(n)'
<1>0. /\ wpc \in [Worker -> WorkerPc] /\ TypeOK /\ 0..Used(n) - 1 \subseteq Worker
      /\ wpc[w] = "run" /\ task[w].next = task[w].end
      /\ wpc' = [wpc EXCEPT ![w] = "complete"] /\ task' = task
      /\ executed' = executed /\ failures' = failures /\ outcomes' = outcomes
      /\ lanes' = lanes /\ workers_used' = workers_used /\ generation' = generation
  BY UsedBounds DEF IInv, TypeOK, partition_done, work
<1>1. /\ \A v \in Worker : partition_end(n, v, Used(n))' = partition_end(n, v, Used(n))
      /\ \A v \in Worker : partition_begin(n, v, Used(n))' = partition_begin(n, v, Used(n))
  BY DEF partition_begin, partition_end, Used, Least
<1>2. task[w].end = partition_end(n, w, Used(n)) BY <1>0 DEF SharesInv
<1>3. \A v \in 0..Used(n) - 1 : Reached(v, n, Used(n))' = Reached(v, n, Used(n))
  <2> SUFFICES ASSUME NEW v \in 0..Used(n) - 1
               PROVE  Reached(v, n, Used(n))' = Reached(v, n, Used(n))
    OBVIOUS
  <2>1. CASE v = w
    BY <1>0, <1>1, <1>2, <2>1 DEF Reached
  <2>2. CASE v # w
    BY <1>0, <1>1, <2>2 DEF Reached
  <2>3. QED BY <2>1, <2>2
<1>4. \A v \in Worker : wpc'[v] = "run" =>
        v < Used(n) /\ task'[v].end = partition_end(n, v, Used(n))
  BY <1>0 DEF SharesInv
<1>5. QED BY <1>0, <1>3, <1>4, SharesKept

\* One lane of one worker's share: what a lane's turn does to a dispatch.
LEMMA SharesByRun ==
  ASSUME IInv, NEW n \in 0..MaxLanes, n > 0, NEW c \in Caller, Dispatching(c), SharesInv(n),
         NEW w \in Worker, run_lane(w)
  PROVE  /\ SharesInv(n)'
         /\ \A lane \in Lane : n <= lane => executed'[lane] = executed[lane]
         /\ task[w].next \in Lane /\ task[w].next < n /\ executed[task[w].next] = 0
<1>0. /\ TypeOK /\ 0..Used(n) - 1 \subseteq Worker /\ Used(n) \in 1..WorkerCount
      /\ wpc[w] = "run" /\ wpc' = wpc /\ ExecuteLane(w)
      /\ lanes' = lanes /\ workers_used' = workers_used /\ generation' = generation
  <2>1. /\ 0..Used(n) - 1 \subseteq Worker
        /\ Used(n) \in Nat \ {0} /\ Used(n) <= WorkerCount /\ WorkerCount \in Nat
    BY UsedBounds, SchedulerAssumption
  <2>2. QED BY <2>1 DEF IInv, run_lane, work
<1>1. w \in 0..Used(n) - 1 /\ task[w].end = partition_end(n, w, Used(n))
  <2>1. w < Used(n) /\ task[w].end = partition_end(n, w, Used(n))
    BY <1>0 DEF SharesInv
  <2>2. QED BY <1>0, <2>1 DEF Worker
<1>2. task[w].observed = generation
  <2>1. WorkerCount > 1 BY WorkerOfPool DEF WorkerStep
  <2>2. QED BY <1>0, <2>1 DEF IInv, BarrierInv
<1>3. RanUpTo(w, task[w].next, n, Used(n))
  <2>1. Reached(w, n, Used(n)) = task[w].next BY <1>0, <1>2 DEF Reached
  <2>2. QED BY <1>1, <2>1 DEF SharesInv
<1>4. ASSUME NEW used \in 1..WorkerCount, used = Used(n)
      PROVE  /\ RanUpTo(w, task[w].next, n, used)'
             /\ task'[w].end = task[w].end /\ task'[w].observed = task[w].observed
             /\ \A v \in Worker : v # w => task'[v] = task[v]
             /\ \A v \in 0..used - 1, upto \in Nat :
                  v # w /\ RanUpTo(v, upto, n, used) => RanUpTo(v, upto, n, used)'
             /\ \A lane \in Lane : n <= lane => executed'[lane] = executed[lane]
             /\ task[w].next \in Lane /\ task[w].next < n /\ executed[task[w].next] = 0
  BY <1>0, <1>1, <1>3, <1>4, RanExtended
<1>5. Used(n)' = Used(n) /\ \A v \in Worker :
        /\ partition_end(n, v, Used(n))' = partition_end(n, v, Used(n))
        /\ partition_begin(n, v, Used(n))' = partition_begin(n, v, Used(n))
  BY DEF partition_begin, partition_end, Used, Least
<1>6. \A v \in 0..Used(n) - 1 : RanUpTo(v, Reached(v, n, Used(n)), n, Used(n))'
  <2> SUFFICES ASSUME NEW v \in 0..Used(n) - 1
               PROVE  RanUpTo(v, Reached(v, n, Used(n)), n, Used(n))'
    OBVIOUS
  <2>1. CASE v = w
    <3>1. Reached(w, n, Used(n))' = task'[w].next
      BY <1>0, <1>2, <1>4 DEF Reached
    <3>2. RanUpTo(w, task[w].next, n, Used(n))' BY <1>0, <1>4, <1>5
    <3>3. QED BY <2>1, <3>1, <3>2
  <2>2. CASE v # w
    <3>1. v \in Worker /\ task'[v] = task[v] BY <1>0, <1>4, <2>2
    <3>2. Reached(v, n, Used(n))' = Reached(v, n, Used(n))
      BY <1>0, <1>5, <3>1 DEF Reached
    <3>3. Reached(v, n, Used(n)) \in Nat BY <1>0, ReachedType
    <3>4. ASSUME NEW u \in Nat, u = Reached(v, n, Used(n))
          PROVE  RanUpTo(v, u, n, Used(n))'
      <4>1. RanUpTo(v, u, n, Used(n)) BY <3>4 DEF SharesInv
      <4>2. QED BY <1>0, <1>4, <1>5, <2>2, <4>1
    <3>5. QED BY <3>2, <3>3, <3>4
  <2>3. QED BY <2>1, <2>2
<1>7. \A v \in Worker : wpc'[v] = "run" =>
        v < Used(n) /\ task'[v].end = partition_end(n, v, Used(n))
  BY <1>0, <1>4 DEF SharesInv
<1>8. SharesInv(n)' BY <1>0, <1>5, <1>6, <1>7 DEF SharesInv
<1>9. QED BY <1>0, <1>4, <1>8

\* A step of a worker inside the dispatch of c.
LEMMA StageInside ==
  ASSUME IInv, LaneInv, NEW c \in Caller, NEW w \in Worker, WorkerStep(w), Dispatching(c)
  PROVE  StageInv(c)'
<1>0. /\ cpc \in [Caller -> CallerPc] /\ request[c] \in 0..MaxLanes /\ request' = request
      /\ request[c] > 0 /\ SharesInv(request[c])
      /\ \A lane \in Lane : request[c] <= lane => executed[lane] = 0
  BY DEF IInv, TypeOK, LaneInv, StageInv, Dispatching, WorkerStep, evaluate_work, run_lane,
    partition_done, complete_work
<1>1. Dispatching(c)'
  BY <1>0 DEF Dispatching, WorkerStep, evaluate_work, run_lane, partition_done, complete_work
<1>2. ASSUME NEW n \in 0..MaxLanes, n = request[c]
      PROVE  SharesInv(n)' /\ \A lane \in Lane : n <= lane => executed'[lane] = executed[lane]
  <2>1. n > 0 /\ SharesInv(n) BY <1>0, <1>2
  <2>2. CASE evaluate_work(w) \/ complete_work(w)
    <3>1. executed' = executed BY <2>2 DEF evaluate_work, complete_work
    <3>2. QED BY <2>1, <2>2, <3>1, SharesByEvaluate
  <2>3. CASE partition_done(w)
    <3>1. executed' = executed BY <2>3 DEF partition_done
    <3>2. QED BY <2>1, <2>3, <3>1, SharesByDone
  <2>4. CASE run_lane(w)
    BY <2>1, <2>4, SharesByRun
  <2>5. QED BY <2>2, <2>3, <2>4 DEF WorkerStep
<1>3. SharesInv(request[c])' BY <1>0, <1>2
<1>4. request'[c] > 0 /\ \A lane \in Lane : request'[c] <= lane => executed'[lane] = 0
  BY <1>0, <1>2
<1>5. QED BY <1>1, <1>3, <1>4 DEF StageInv, Dispatching

LEMMA StepLaneInv == IInv /\ LaneInv /\ [Next]_vars => LaneInv'
<1> SUFFICES ASSUME IInv, LaneInv, [Next]_vars, NEW c \in Caller
             PROVE  StageInv(c)'
  BY DEF LaneInv
<1>1. ASSUME NEW w \in Worker, WorkerStep(w) PROVE StageInv(c)'
  BY <1>1, StageInside, StageOutside
<1>2. ASSUME NEW d \in Caller, CallerStep(d) PROVE StageInv(c)'
  <2>1. CASE submit(d)
    <3>1. CASE c = d
      BY <2>1, <3>1, StageSubmits
    <3>2. CASE c # d
      <4>1. cpc' = [cpc EXCEPT ![d] = "notify"] /\ cpc[d] # "idle"
        BY <2>1 DEF submit, Submit
      <4>2. cpc'[c] = "idle" BY <3>2, <4>1, OneCaller DEF IInv, TypeOK
      <4>3. QED BY <4>2 DEF StageInv, Dispatching
    <3>3. QED BY <3>1, <3>2
  <2>2. CASE ~submit(d)
    BY <1>2, <2>2, StageReturns, StageWaits, StageCompletes, StageInline DEF CallerStep
  <2>3. QED BY <2>1, <2>2
<1>3. QED
  BY <1>1, <1>2, StageByOwner, StageByWakeup, StageBegins, StageReturns DEF Next, finished

\* Which lanes have run, and what each outcome says of them.
THEOREM SpecLaneInv == Spec => []LaneInv
<1>1. Init => LaneInv BY DEF Init, LaneInv, StageInv, Dispatching
<1>2. QED BY <1>1, StepLaneInv, SpecIInv, PTL DEF Spec

------------------------------------------------------
\* The refinement.  When a call reports, every lane of its stage has run and the
\* report is the barrier's verdict: the failure of the lowest failing lane.
LEMMA ReportIsVerdict ==
  ASSUME IInv, LaneInv, NEW c \in Caller, cpc[c] = "report"
  PROVE  /\ Report(request[c]) = Barrier!Verdict(failures, request[c])
         /\ {lane \in Lane : executed[lane] > 0} = 0..request[c] - 1
<1> DEFINE n == request[c]
           used == Used(n)
<1>0. /\ n \in 0..MaxLanes /\ n \in Nat /\ used \in Nat /\ 0..used - 1 \subseteq Worker
      /\ StageInv(c) /\ TypeOK /\ MaxLanes \in Nat /\ Lane \subseteq Nat /\ 0..n - 1 \subseteq Lane
  <2>1. n \in 0..MaxLanes /\ MaxLanes \in Nat
    BY SchedulerAssumption DEF IInv, TypeOK
  <2>2. Lane \subseteq Nat /\ 0..n - 1 \subseteq Lane BY <2>1 DEF Lane
  <2>3. QED BY <2>1, <2>2, UsedBounds DEF IInv, LaneInv
<1>1. /\ \A lane \in Lane : n <= lane => executed[lane] = 0
      /\ \A w \in 0..used - 1 : RanUpTo(w, partition_end(n, w, used), n, used)
  BY <1>0 DEF StageInv
<1>2. n > 0 => used \in Nat \ {0} BY <1>0, UsedBounds
<1> HIDE DEF n, used
<1>3. \A lane \in 0..n - 1 : \E w \in 0..used - 1 :
         partition_begin(n, w, used) <= lane /\ lane < partition_end(n, w, used)
  <2> SUFFICES ASSUME NEW lane \in 0..n - 1
               PROVE  \E w \in 0..used - 1 :
                        partition_begin(n, w, used) <= lane /\ lane < partition_end(n, w, used)
    OBVIOUS
  <2>1. n > 0 BY <1>0
  <2>2. QED BY <1>0, <1>2, <2>1, PartitionCovers
<1>4. \A w \in 0..used - 1 :
        /\ partition_begin(n, w, used) \in Nat /\ partition_end(n, w, used) \in Nat
        /\ partition_end(n, w, used) <= n
        /\ \A v \in 0..used - 1 : v < w => partition_end(n, v, used) <= partition_begin(n, w, used)
  <2> SUFFICES ASSUME NEW w \in 0..used - 1
               PROVE  /\ partition_begin(n, w, used) \in Nat /\ partition_end(n, w, used) \in Nat
                      /\ partition_end(n, w, used) <= n
                      /\ \A v \in 0..used - 1 :
                           v < w => partition_end(n, v, used) <= partition_begin(n, w, used)
    OBVIOUS
  <2>1. used \in Nat \ {0} BY <1>0
  <2>2. QED BY <1>0, <2>1, PartitionBounds
<1>5. {lane \in Lane : executed[lane] > 0} = 0..n - 1
  <2>1. ASSUME NEW lane \in 0..n - 1 PROVE executed[lane] = 1
    <3>1. PICK w \in 0..used - 1 :
            partition_begin(n, w, used) <= lane /\ lane < partition_end(n, w, used)
      BY <1>3
    <3>2. QED BY <1>0, <1>1, <3>1 DEF RanUpTo
  <2>2. ASSUME NEW lane \in Lane, executed[lane] > 0 PROVE lane \in 0..n - 1
    <3>1. ~(n <= lane) BY <1>1, <2>2
    <3>2. QED BY <1>0, <3>1
  <2> DEFINE Ran == {lane \in Lane : executed[lane] > 0}
  <2>3. ASSUME NEW lane \in 0..n - 1 PROVE lane \in Ran
    <3>1. executed[lane] > 0 BY <2>1
    <3>2. QED BY <1>0, <3>1
  <2>4. ASSUME NEW lane \in Ran PROVE lane \in 0..n - 1
    BY <2>2, <2>4
  <2> HIDE DEF Ran
  <2>5. Ran = 0..n - 1 BY <2>3, <2>4
  <2>6. QED BY <2>5 DEF Ran
<1> DEFINE failing == {lane \in 0..n - 1 : failures[lane] # "none"}
<1>6. \A w \in 0..used - 1 :
        Summarises(outcomes[w], partition_begin(n, w, used), partition_end(n, w, used))
  BY <1>1 DEF RanUpTo
<1>7. Failing(n) = {w \in 0..used - 1 : outcomes[w].failure # "none"}
  BY DEF Failing, used, Used, n
<1>8. CASE Failing(n) = {}
  <2>1. ASSUME NEW lane \in 0..n - 1 PROVE failures[lane] = "none"
    <3>1. PICK w \in 0..used - 1 :
            partition_begin(n, w, used) <= lane /\ lane < partition_end(n, w, used)
      BY <1>3
    <3>2. outcomes[w].failure = "none" BY <1>7, <1>8
    <3>3. QED BY <1>0, <1>6, <3>1, <3>2 DEF Summarises
  <2>2. failing = {} BY <2>1
  <2>3. Report(n) = Returned("ok", 0) BY <1>8 DEF Report
  <2>4. Barrier!Verdict(failures, n) = Returned("ok", 0)
    BY <2>2 DEF Barrier!Verdict, Barrier!Returned, Returned
  <2>5. QED BY <1>5, <2>3, <2>4 DEF n
<1>9. CASE Failing(n) # {}
  <2> DEFINE w == CHOOSE v \in Failing(n) : \A u \in Failing(n) : v <= u
             first == outcomes[w].first_failed_lane
             b == partition_begin(n, w, used)
             e == partition_end(n, w, used)
  <2>1. w \in Failing(n) /\ \A u \in Failing(n) : w <= u
    <3>1. Failing(n) \subseteq Nat BY <1>7
    <3>2. \E v \in Failing(n) : \A u \in Failing(n) : v <= u
      BY <1>9, <3>1, LeastIndex
    <3>3. QED BY <3>2
  <2>2. Report(n) = Returned(outcomes[w].failure, first)
    BY <1>9 DEF Report, ReportOf
  <2> HIDE DEF w
  <2>3. w \in 0..used - 1 /\ outcomes[w].failure # "none" BY <1>7, <2>1
  <2>4. /\ first \in Lane /\ b <= first /\ first < e
        /\ failures[first] = outcomes[w].failure
        /\ \A lane \in Lane : b <= lane /\ lane < first => failures[lane] = "none"
    BY <1>6, <2>3 DEF Summarises
  <2>5. b \in Nat /\ e \in Nat /\ e <= n /\ first \in Nat
    BY <1>0, <1>4, <2>3, <2>4
  <2> HIDE DEF first, b, e
  <2>6. first \in failing BY <1>0, <2>3, <2>4, <2>5
  <2>7. ASSUME NEW lane \in failing PROVE first <= lane
    <3> SUFFICES ASSUME lane < first PROVE FALSE
      BY <2>5
    <3>1. lane \in 0..n - 1 /\ failures[lane] # "none" /\ lane \in Nat /\ lane \in Lane
      BY <1>0, <2>7
    <3>2. PICK v \in 0..used - 1 :
            partition_begin(n, v, used) <= lane /\ lane < partition_end(n, v, used)
      BY <1>3, <3>1
    <3>3. v <= w
      <4>1. CASE w < v
        <5>1. e <= partition_begin(n, v, used) /\ partition_begin(n, v, used) \in Nat
          BY <1>4, <2>3, <4>1 DEF e
        <5>2. QED BY <2>4, <2>5, <3>1, <3>2, <5>1
      <4>2. QED BY <2>3, <4>1
    <3>4. CASE v = w
      BY <2>4, <3>1, <3>2, <3>4 DEF b
    <3>5. CASE v # w
      <4>1. v < w /\ v \notin Failing(n) BY <2>1, <2>3, <3>3, <3>5
      <4>2. outcomes[v].failure = "none" BY <1>7, <4>1
      <4>3. Summarises(outcomes[v], partition_begin(n, v, used), partition_end(n, v, used))
        BY <1>6
      <4>4. failures[lane] = "none" BY <3>1, <3>2, <4>2, <4>3 DEF Summarises
      <4>5. QED BY <3>1, <4>4
    <3>6. QED BY <3>4, <3>5
  <2>8. first = CHOOSE lane \in failing : \A other \in failing : lane <= other
    <3>1. ASSUME NEW lane \in failing, \A other \in failing : lane <= other
          PROVE  lane = first
      <4>1. lane <= first /\ first <= lane /\ lane \in Nat
        BY <1>0, <2>6, <2>7, <3>1
      <4>2. QED BY <2>5, <4>1
    <3> HIDE DEF failing
    <3>2. QED BY <2>6, <2>7, <3>1
  <2>9. Barrier!Verdict(failures, n) = Returned(failures[first], first)
    <3>1. failing # {} BY <2>6
    <3>2. Barrier!Verdict(failures, n) =
            LET f == CHOOSE lane \in failing : \A other \in failing : lane <= other
            IN  Returned(failures[f], f)
      BY <3>1 DEF Barrier!Verdict, Barrier!Returned, Returned
    <3> HIDE DEF failing
    <3>3. QED BY <2>8, <3>2
  <2>10. QED BY <1>5, <2>2, <2>4, <2>9 DEF n
<1>10. QED BY <1>8, <1>9

\* How the pool's variables stand for the barrier's.
LanesOf == IF dispatch_mutex = NoCaller THEN 0 ELSE request[dispatch_mutex]
Ran == {lane \in Lane : executed[lane] > 0}
barrier == <<dispatch_mutex, LanesOf, Ran, failures, result>>

LEMMA BarrierInit == Init => Barrier!Init
<1> SUFFICES ASSUME Init PROVE Barrier!Init
  OBVIOUS
<1>1. dispatch_mutex = NoCaller /\ Ran = {}
  <2>1. \A lane \in Lane : ~(executed[lane] > 0) BY DEF Init
  <2>2. QED BY <2>1 DEF Init, Ran
<1>2. failures = Barrier!NoFailures
  BY DEF Init, Barrier!NoFailures, Barrier!Lane, Lane
<1>3. result = [c \in Caller |-> Barrier!Returned("none", 0)]
  BY DEF Init, Returned, Barrier!Returned
<1>4. QED BY <1>1, <1>2, <1>3 DEF Barrier!Init, Ran, LanesOf

\* Steps the caller of the barrier cannot see.
LEMMA Unseen ==
  ASSUME dispatch_mutex' = dispatch_mutex, request' = request, executed' = executed,
         failures' = failures, result' = result
  PROVE  UNCHANGED barrier
BY DEF barrier, LanesOf, Ran

\* A call that takes the dispatch mutex begins a stage.
LEMMA BeginsStage ==
  ASSUME IInv, NEW c \in Caller, NEW n \in 0..MaxLanes, execute_stage(c, n)
  PROVE  Barrier!Begin(c, n)
<1>1. /\ dispatch_mutex = NoCaller /\ dispatch_mutex' = c
      /\ failures' = Barrier!NoFailures /\ result' = result
  BY DEF execute_stage, Barrier!NoFailures, Barrier!Lane, Lane
<1>2. LanesOf' = n
  <2>1. request'[c] = n /\ c # NoCaller
    BY SchedulerAssumption DEF execute_stage, IInv, TypeOK
  <2>2. QED BY <1>1, <2>1 DEF LanesOf
<1>3. Ran' = {}
  <2>1. \A lane \in Lane : ~(executed'[lane] > 0) BY DEF execute_stage
  <2>2. QED BY <2>1 DEF Ran
<1>4. QED BY <1>1, <1>2, <1>3 DEF Barrier!Begin, LanesOf, Ran

\* A turn of a lane, on whichever thread, runs a lane that has not run.
LEMMA RunsLane ==
  ASSUME IInv, NEW c \in Caller, cpc[c] # "idle", NEW w \in Worker, ExecuteLane(w),
         UNCHANGED <<dispatch_mutex, request, result>>,
         task[w].next \in Lane, task[w].next < request[c], executed[task[w].next] = 0
  PROVE  \E lane \in Barrier!Lane, outcome \in Failure \cup {"none"} : Barrier!Run(lane, outcome)
<1> DEFINE at == task[w].next
<1>1. PICK status \in Failure \cup {"none"} :
        /\ executed' = [executed EXCEPT ![at] = executed[at] + 1]
        /\ failures' = [failures EXCEPT ![at] = status]
  BY ExecuteEffect DEF IInv
<1> HIDE DEF at
<1>2. dispatch_mutex = c /\ c # NoCaller /\ LanesOf = request[c] /\ LanesOf' = LanesOf
  BY OneCaller, SchedulerAssumption DEF IInv, LanesOf
<1>3. at \in Lane /\ at < LanesOf /\ executed[at] = 0 BY <1>2 DEF at
<1>4. at \notin Ran BY <1>3 DEF Ran
<1>5. Ran' = Ran \cup {at}
  <2>1. executed \in [Lane -> Nat] BY DEF IInv, TypeOK
  <2>2. \A lane \in Lane : executed'[lane] = IF lane = at THEN 1 ELSE executed[lane]
    BY <1>1, <1>3, <2>1
  <2>3. \A lane \in Lane : executed'[lane] > 0 <=> (lane = at \/ executed[lane] > 0)
    BY <2>2
  <2>4. QED BY <1>3, <2>3 DEF Ran
<1>6. Barrier!Run(at, status)
  BY <1>1, <1>2, <1>3, <1>4, <1>5 DEF Barrier!Run, LanesOf, Ran
<1>7. QED BY <1>1, <1>3, <1>6 DEF Barrier!Lane, Lane

\* The end of a call: refused, given up, or finished with the verdict.
LEMMA ReturnsStage ==
  ASSUME IInv, LaneInv, NEW c \in Caller,
         refuse_stage(c) \/ generation_exhausted(c) \/ report_or_error(c)
  PROVE  Barrier!Refuse(c) \/ Barrier!GiveUp(c) \/ Barrier!Finish(c)
<1>0. TypeOK /\ StageInv(c) /\ c # NoCaller
  BY SchedulerAssumption DEF IInv, LaneInv
<1>1. CASE refuse_stage(c)
  <2>1. dispatch_mutex # c BY <1>1 DEF refuse_stage, IInv, OwnershipInv
  <2>2. PICK status \in {"invalid_argument", "unavailable"} :
          result' = [result EXCEPT ![c] = Barrier!Returned(status, 0)]
    BY <1>1 DEF refuse_stage, Returned, Barrier!Returned
  <2>3. /\ dispatch_mutex' = dispatch_mutex /\ request' = request
        /\ executed' = executed /\ failures' = failures
    BY <1>1 DEF refuse_stage
  <2>4. LanesOf' = LanesOf /\ Ran' = Ran BY <2>3 DEF LanesOf, Ran
  <2>5. Barrier!Refuse(c)
    BY <2>1, <2>2, <2>3, <2>4 DEF Barrier!Refuse, LanesOf, Ran
  <2>6. QED BY <2>5
<1>2. CASE generation_exhausted(c)
  <2>1. /\ cpc[c] = "submit" /\ dispatch_mutex' = NoCaller /\ executed' = executed
        /\ failures' = failures
        /\ result' = [result EXCEPT ![c] = Barrier!Returned("resource_exhausted", 0)]
    BY <1>2 DEF generation_exhausted, Returned, Barrier!Returned
  <2>2. dispatch_mutex = c BY <2>1, OneCaller DEF IInv
  <2>3. Ran = {} /\ Ran' = Ran
    <3>1. \A lane \in Lane : ~(executed[lane] > 0)
      BY <1>0, <2>1 DEF StageInv, NothingRan
    <3>2. QED BY <2>1, <3>1 DEF Ran
  <2>4. LanesOf' = 0 BY <2>1 DEF LanesOf
  <2>5. Barrier!GiveUp(c)
    BY <2>1, <2>2, <2>3, <2>4 DEF Barrier!GiveUp, LanesOf, Ran
  <2>6. QED BY <2>5
<1>3. CASE report_or_error(c)
  <2>1. /\ cpc[c] = "report" /\ dispatch_mutex' = NoCaller /\ executed' = executed
        /\ failures' = failures /\ result' = [result EXCEPT ![c] = Report(request[c])]
    BY <1>3 DEF report_or_error
  <2>2. dispatch_mutex = c /\ LanesOf = request[c]
    BY <1>0, <2>1, OneCaller DEF IInv, LanesOf
  <2>3. Report(request[c]) = Barrier!Verdict(failures, LanesOf) /\ Ran = 0..LanesOf - 1
    BY <2>1, <2>2, ReportIsVerdict DEF Ran
  <2>4. LanesOf' = 0 /\ Ran' = Ran BY <2>1 DEF LanesOf, Ran
  <2>5. Barrier!Finish(c)
    BY <2>1, <2>2, <2>3, <2>4 DEF Barrier!Finish, LanesOf, Ran
  <2>6. QED BY <2>5
<1>4. QED BY <1>1, <1>2, <1>3

LEMMA BarrierNext ==
  ASSUME IInv, LaneInv, [Next]_vars
  PROVE  [Barrier!Next]_(Barrier!vars)
<1> SUFFICES Barrier!Next \/ UNCHANGED barrier
  BY DEF Barrier!vars, barrier, LanesOf, Ran
<1>1. CASE \/ \E w \in Worker : launch_worker(w)
           \/ launch_fails \/ move_scheduler \/ destroy_scheduler \/ OwnerShutsDown
  BY <1>1, Unseen DEF launch_worker, launch_fails, move_scheduler, destroy_scheduler,
    OwnerShutsDown, raise_stopping, notify_stopping, Stop, join_workers
<1>2. CASE spurious_wakeup \/ UNCHANGED vars
  BY <1>2, Unseen DEF spurious_wakeup, vars
<1>3. ASSUME NEW w \in Worker, WorkerStep(w)
      PROVE  Barrier!Next \/ UNCHANGED barrier
  <2>1. CASE run_lane(w)
    <3>1. PICK c \in Caller : Dispatching(c)
      BY <1>3, <2>1, WorkerOfPool DEF IInv, BarrierInv, run_lane
    <3>2. ASSUME NEW n \in 0..MaxLanes, n = request[c]
          PROVE  task[w].next \in Lane /\ task[w].next < n /\ executed[task[w].next] = 0
      <4>1. n > 0 /\ SharesInv(n)
        BY <3>1, <3>2 DEF LaneInv, StageInv, Dispatching
      <4>2. QED BY <2>1, <3>1, <4>1, SharesByRun
    <3>3. request[c] \in 0..MaxLanes /\ cpc[c] # "idle"
      BY <3>1 DEF IInv, TypeOK, Dispatching
    <3>4. ExecuteLane(w) /\ UNCHANGED <<dispatch_mutex, request, result>>
      BY <2>1 DEF run_lane
    <3>5. \E lane \in Barrier!Lane, outcome \in Failure \cup {"none"} : Barrier!Run(lane, outcome)
      BY <3>2, <3>3, <3>4, RunsLane
    <3>6. QED BY <3>5 DEF Barrier!Next
  <2>2. CASE evaluate_work(w) \/ partition_done(w) \/ complete_work(w)
    BY <2>2, Unseen DEF evaluate_work, partition_done, complete_work
  <2>3. QED BY <1>3, <2>1, <2>2 DEF WorkerStep
<1>4. ASSUME NEW c \in Caller,
             \/ refuse_stage(c) \/ CallerStep(c)
             \/ \E n \in 0..MaxLanes : execute_stage(c, n)
      PROVE  Barrier!Next \/ UNCHANGED barrier
  <2>1. ASSUME NEW n \in 0..MaxLanes, execute_stage(c, n) PROVE Barrier!Next
    <3>1. Barrier!Begin(c, n) BY <2>1, BeginsStage
    <3>2. QED BY <3>1 DEF Barrier!Next
  <2>2. CASE refuse_stage(c) \/ generation_exhausted(c) \/ report_or_error(c)
    <3>1. Barrier!Refuse(c) \/ Barrier!GiveUp(c) \/ Barrier!Finish(c)
      BY <2>2, ReturnsStage
    <3>2. QED BY <3>1 DEF Barrier!Next
  <2>3. CASE submit(c) \/ notify_work(c) \/ await_workers(c) \/ inline_done(c)
    BY <2>3, Unseen DEF submit, Submit, notify_work, await_workers, AwaitWorkers, inline_done
  <2>4. CASE run_lane_inline(c)
    <3>1. /\ cpc[c] = "inline" /\ ExecuteLane(0) /\ 0 \in Worker
          /\ UNCHANGED <<dispatch_mutex, request, result>> /\ WorkerCount = 1
      BY <2>4, SchedulerAssumption DEF run_lane_inline, Worker, IInv, OwnershipInv
    <3>2. ASSUME NEW n \in 0..MaxLanes, n = request[c]
          PROVE  task[0].next \in Lane /\ task[0].next < n /\ executed[task[0].next] = 0
      <4>1. RanUpTo(0, task[0].next, n, 1) /\ task[0].end = n
        BY <3>1, <3>2 DEF LaneInv, StageInv
      <4>2. n = partition_end(n, 0, 1)
        <5>1. n \in Nat BY SchedulerAssumption
        <5>2. QED BY <5>1, PartitionAdjoins, PartitionEnds
      <4>3. QED BY <3>1, <4>1, <4>2, RanExtended DEF IInv
    <3>3. request[c] \in 0..MaxLanes BY DEF IInv, TypeOK
    <3>4. \E lane \in Barrier!Lane, outcome \in Failure \cup {"none"} : Barrier!Run(lane, outcome)
      BY <3>1, <3>2, <3>3, RunsLane
    <3>5. QED BY <3>4 DEF Barrier!Next
  <2>5. QED BY <1>4, <2>1, <2>2, <2>3, <2>4 DEF CallerStep
<1>5. QED BY <1>1, <1>2, <1>3, <1>4 DEF Next, finished

\* The pool implements the stage barrier for every number of workers, callers
\* and lanes: one stage at a time, each of its lanes exactly once, and the
\* failure of the lowest failing lane, whatever the order the workers ran in.
THEOREM SpecStageBarrier == Spec => StageBarrierSpec
<1>1. Init => Barrier!Init BY BarrierInit
<1>2. IInv /\ LaneInv /\ [Next]_vars => [Barrier!Next]_(Barrier!vars)
  BY BarrierNext
<1>3. QED BY <1>1, <1>2, SpecIInv, SpecLaneInv, PTL DEF Spec, StageBarrierSpec, Barrier!Spec
===============================================================================

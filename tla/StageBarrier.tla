----------------------------- MODULE StageBarrier -----------------------------
(***************************************************************************)
(* What a CPU stage scheduler promises its callers: one stage runs at a    *)
(* time; each of its lanes runs exactly once, in any order and on any      *)
(* thread; the call returns when every lane has run, and then with the     *)
(* failure of the lowest failing lane.  CpuWavefrontScheduler implements   *)
(* this specification.                                                     *)
(***************************************************************************)
EXTENDS Naturals

CONSTANTS Caller, NoCaller, Failure, MaxLanes

VARIABLES
  active,     \* the caller whose stage is running
  lanes,      \* how many lanes that stage has
  run,        \* the lanes that have run
  failures,   \* what each lane that ran reported
  result      \* what each caller's last call returned

vars == <<active, lanes, run, failures, result>>

Lane == 0..MaxLanes - 1
NoFailures == [lane \in Lane |-> "none"]
Returned(status, lane) == [status |-> status, lane |-> lane]

\* The verdict on a finished stage of n lanes.
Verdict(outcome, n) ==
  LET failing == {lane \in 0..n - 1 : outcome[lane] # "none"}
  IN  IF failing = {} THEN Returned("ok", 0)
      ELSE LET first == CHOOSE lane \in failing : \A other \in failing : lane <= other
           IN  Returned(outcome[first], first)

Init ==
  /\ active = NoCaller /\ lanes = 0 /\ run = {} /\ failures = NoFailures
  /\ result = [c \in Caller |-> Returned("none", 0)]

Begin(c, n) ==
  /\ active = NoCaller
  /\ active' = c /\ lanes' = n /\ run' = {} /\ failures' = NoFailures
  /\ UNCHANGED result

Run(lane, outcome) ==
  /\ active # NoCaller
  /\ lane < lanes /\ lane \notin run
  /\ run' = run \cup {lane}
  /\ failures' = [failures EXCEPT ![lane] = outcome]
  /\ UNCHANGED <<active, lanes, result>>

Finish(c) ==
  /\ active = c
  /\ run = 0..lanes - 1
  /\ result' = [result EXCEPT ![c] = Verdict(failures, lanes)]
  /\ active' = NoCaller /\ lanes' = 0
  /\ UNCHANGED <<run, failures>>

\* A stage may also be given up, but only before any of its lanes has run.
GiveUp(c) ==
  /\ active = c /\ run = {}
  /\ result' = [result EXCEPT ![c] = Returned("resource_exhausted", 0)]
  /\ active' = NoCaller /\ lanes' = 0
  /\ UNCHANGED <<run, failures>>

Refuse(c) ==
  /\ active # c
  /\ \E status \in {"invalid_argument", "unavailable"} :
       result' = [result EXCEPT ![c] = Returned(status, 0)]
  /\ UNCHANGED <<active, lanes, run, failures>>

Next ==
  \/ \E c \in Caller :
       \/ \E n \in 0..MaxLanes : Begin(c, n)
       \/ Finish(c) \/ GiveUp(c) \/ Refuse(c)
  \/ \E lane \in Lane, outcome \in Failure \cup {"none"} : Run(lane, outcome)

Spec == Init /\ [][Next]_vars
=============================================================================

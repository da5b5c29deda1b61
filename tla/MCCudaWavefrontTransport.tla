------------------------ MODULE MCCudaWavefrontTransport ------------------------
(* The device's transport beside the CPU's, over the same limits, scenes and
   queues: the run is about the device, and the batch of the CPU stays in its
   initial state. The workspace holds two paths, and a path may use up a
   diffuse and a specular event in either order. *)
EXTENDS CpuWavefrontTransport

CONSTANTS Capacity, MaxTraces

VARIABLES lane, rejected, kernel, outcomes, at, count, iteration, dirty, poisoned, trace

Cuda == INSTANCE CudaWavefrontTransport

ASSUME DeviceAssumption == Cuda!CudaTransportAssumption

MCDepthLimits == [k \in Category |-> IF k \in {"diffuse", "specular"} THEN 1 ELSE 0]

MCSurfaces == {{}, {{"diffuse", "reflection"}, {"specular", "reflection"}}}

(* The variables the device does not have. *)
BatchIdle == UNCHANGED <<path, stage, running, lanes, stats>>

DeviceInit == Init /\ Cuda!Init

DeviceNext ==
    \/ Cuda!begin_trace /\ BatchIdle
    \/ Cuda!launch /\ BatchIdle
    \/ Cuda!skip_stage /\ BatchIdle
    \/ Cuda!audit_failure /\ BatchIdle
    \/ Cuda!publish_seed /\ BatchIdle
    \/ Cuda!compact_routes /\ BatchIdle
    \/ Cuda!call_fails /\ BatchIdle
    \/ Cuda!collect /\ BatchIdle
    \/ \E i \in 1 .. Capacity : Cuda!Thread(i) /\ BatchIdle

DeviceSpec == DeviceInit /\ [][DeviceNext]_<<vars, Cuda!vars>>

(* What CudaWavefrontTransport says of every trace of a reused workspace: it
   fails only for what a calculation, the scene or a call answers, and each
   slot makes the steps of the scalar loop. *)
OnlyOutsideFailures == Cuda!OnlyOutsideFailures

ScalarTraces == Cuda!ScalarTraces
=============================================================================

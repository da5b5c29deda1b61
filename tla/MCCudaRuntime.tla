---------------------------- MODULE MCCudaRuntime ----------------------------
(* The two levels of the CUDA host code below the transport, side by side:
   the owners of native resources, and the workspace's streams and events.
   They share no state; part says which one a behaviour is about, and the
   other stays in an initial state.

   Owners: two devices, storage of up to two units and a request above the
   budget, and enough native resources for a growth and a pair beside a
   pinned allocation. Streams: two traces of one workspace, or of two created
   one after the other. *)
EXTENDS CudaTransferStreams, TLC

CONSTANTS Devices, maximum_bytes, MaxHandles, None

Symmetry == Permutations(Devices)

VARIABLES
    part, active, created, live, refused, scratch, slices, pinned, timing, status

owners == <<active, created, live, refused, scratch, slices, pinned, timing, status>>

Resources == INSTANCE CudaHostResources

ASSUME Resources!CudaHostResourcesAssumption

SideBySideInit == part \in {"owners", "streams"} /\ Init /\ Resources!Init

Owners   == part = "owners" /\ UNCHANGED <<part, vars>>
Transfer == part = "streams" /\ UNCHANGED <<part, owners>>

SideBySideNext ==
    \/ \E bytes \in Resources!Sizes : Owners /\ Resources!create_scratch(bytes)
    \/ \E bytes \in Resources!Sizes : Owners /\ Resources!reserve_noop(bytes)
    \/ \E bytes \in Resources!Sizes : Owners /\ Resources!reserve_in_use(bytes)
    \/ \E bytes \in Resources!Sizes : Owners /\ Resources!grow(bytes)
    \/ \E bytes \in Resources!Sizes, alignment \in {1, 2} :
           Owners /\ Resources!allocate_slice(bytes, alignment)
    \/ Owners /\ Resources!reset
    \/ Owners /\ Resources!close_scratch
    \/ Owners /\ Resources!destroy_scratch
    \/ Owners /\ Resources!allocate_pinned(1)
    \/ Owners /\ Resources!close_pinned
    \/ Owners /\ Resources!destroy_pinned
    \/ Owners /\ Resources!create_timing
    \/ Owners /\ Resources!close_timing
    \/ Owners /\ Resources!destroy_timing
    \/ \E device \in Devices : Owners /\ Resources!set_device(device)
    \/ Transfer /\ begin_trace
    \/ Transfer /\ call_enqueues
    \/ Transfer /\ call_synchronizes
    \/ Transfer /\ call_fails
    \/ Transfer /\ return
    \/ Transfer /\ drain
    \/ Transfer /\ begin_close
    \/ Transfer /\ close_stream("compute", "close_compute", "close_transfer")
    \/ Transfer /\ close_stream("transfer", "close_transfer", "close_rest")
    \/ Transfer /\ close_rest
    \/ Transfer /\ begin_destruction
    \/ Transfer /\ destroy
    \/ Transfer /\ create
    \/ Transfer /\ fault
    \/ \E s \in Streams : Transfer /\ execute(s)
    \/ Transfer /\ UNCHANGED vars  \* Nobody asks for another trace.

SideBySide == SideBySideInit /\ [][SideBySideNext]_<<part, vars, owners>>

(* Every native resource is released once: whatever exists either has an
   owner that can still release it or is one CUDA refused to give back when
   its last owner went, and no owner holds one that is gone. Growth and the
   creation of a pair have owners for a moment only, and each of their
   calls may fail. *)
ReleasedOnce == Resources!ReleasedOnce

(* The scratch buffer's capacity is that of storage it has, and every slice
   handed out since the last reset lies in that storage beside the others,
   whatever growth failed in between and at whichever call. *)
SlicesBacked == Resources!SlicesBacked

(* What DeviceMemory.hpp:164 says of growth: it preserves the existing
   allocation if CUDA rejects the request. *)
GrowthPreserves == Resources!GrowthPreserves
==============================================================================

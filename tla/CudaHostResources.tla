--------------------------- MODULE CudaHostResources ---------------------------
(***************************************************************************)
(* The owners of native CUDA resources in XPU/CUDA/Host: device memory with *)
(* the scratch buffer that grows over it, pinned host memory, and pairs of  *)
(* timing events. One thread drives them; its active device need not be the *)
(* one that owns a resource, so each release switches to that device and    *)
(* back. Every call into CUDA may be refused and then has no effect. A      *)
(* handle stands for one creation: an address that is reused is a new one.  *)
(***************************************************************************)
EXTENDS Integers, FiniteSets

CONSTANTS
    Devices,
    maximum_bytes,      \* the scratch buffer's budget
    MaxHandles,         \* bound: native resources ever created
    None

CudaHostResourcesAssumption ==
    /\ Devices # {}
    /\ maximum_bytes \in Nat
    /\ MaxHandles \in Nat
    /\ None \notin Devices \cup Nat

VARIABLES
    active,     \* the thread's active device
    created,    \* how many native resources were created
    live,       \* the native resources that exist
    refused,    \* those left without an owner because CUDA refused the last release
    scratch,    \* the scratch buffer
    slices,     \* what it handed out since its storage or its use was reset
    pinned,     \* a pinned host allocation
    timing,     \* a pair of timing events
    status      \* how the last call ended

vars == <<active, created, live, refused, scratch, slices, pinned, timing, status>>

Empty       == [data |-> None, device |-> None, size_bytes |-> 0]
EmptyPair   == [begin |-> None, end |-> None, device |-> None]
EmptyBuffer == [allocation |-> Empty, capacity_bytes |-> 0, used_bytes |-> 0]

Init ==
    /\ active \in Devices
    /\ created = 0
    /\ live = {}
    /\ refused = {}
    /\ scratch = EmptyBuffer
    /\ slices = {}
    /\ pinned = Empty
    /\ timing = EmptyPair
    /\ status = [call |-> None, ok |-> TRUE]

returns(call, ok) == status' = [call |-> call, ok |-> ok]

------------------------------------------------------
(* Which of the calls of one operation CUDA refuses: the query of the
   active device, the switch to the owner's, the operation itself and the
   switch back. There are no switches on the owner's own device. *)
Refusals(device) ==
    {{}, {"get"}, {"call"}, {"get", "call"}} \cup
        IF device = active THEN {} ELSE {{"set"}, {"restore"}, {"call", "restore"}}

reached(at, device, no) == "get" \notin no /\ (device # at => "set" \notin no)

restored(at, device, no) == device # at => "restore" \notin no

active_after(at, device, no) ==
    IF reached(at, device, no) /\ ~restored(at, device, no) THEN device ELSE at

(* DeviceAllocation::close and PinnedHostAllocation::close: the memory may
   be gone although the call reports a failure. *)
closed(at, a, no) ==
    LET freed == reached(at, a.device, no) /\ "call" \notin no
    IN  IF a.data = None
        THEN [owner |-> a, active |-> at, released |-> {}, ok |-> TRUE]
        ELSE [owner    |-> IF freed THEN Empty ELSE a,
              active   |-> active_after(at, a.device, no),
              released |-> IF freed THEN {a.data} ELSE {},
              ok       |-> freed /\ restored(at, a.device, no)]

(* The destructors give up what CUDA refuses to release. That of device
   memory tries even when it cannot learn which device is active. *)
dropped_memory(at, a, no) ==
    LET stays == "get" \in no \/ a.device = at
        freed == (stays \/ "set" \notin no) /\ "call" \notin no
    IN  IF a.data = None
        THEN [active |-> at, released |-> {}, refused |-> {}]
        ELSE [active   |-> IF stays THEN at ELSE active_after(at, a.device, no),
              released |-> IF freed THEN {a.data} ELSE {},
              refused  |-> IF freed THEN {} ELSE {a.data}]

dropped(at, device, handles, no) ==
    LET freed == reached(at, device, no) /\ "call" \notin no
    IN  [active   |-> active_after(at, device, no),
         released |-> IF freed THEN handles ELSE {},
         refused  |-> IF freed THEN {} ELSE handles]

------------------------------------------------------
(* DeviceAllocation::allocate_bytes_on_device. An allocation that cannot be
   returned with the thread's device restored is freed again: once by close
   and, should that fail, once more by the destructor of its local owner. *)

(* A plausible slip: the cleanup is left to nobody. *)
allocated_forgotten(device, bytes, cleanup, last) ==
    [allocation |-> Empty, active |-> device, made |-> {created + 1},
     released |-> {}, refused |-> {}, ok |-> FALSE]

allocated_unrestored(device, bytes, cleanup, last) ==
    LET owner == [data |-> created + 1, device |-> device, size_bytes |-> bytes]
        close == closed(device, owner, cleanup)
        drop  == dropped_memory(close.active, close.owner, last)
    IN  [allocation |-> Empty, active |-> drop.active, made |-> {created + 1},
         released |-> close.released \cup drop.released, refused |-> drop.refused,
         ok |-> FALSE]

allocated_on(device, bytes, no, cleanup, last) ==
    LET made    == reached(active, device, no) /\ "call" \notin no
        nothing == [allocation |-> Empty, active |-> active_after(active, device, no),
                    made |-> {}, released |-> {}, refused |-> {}, ok |-> FALSE]
    IN  IF bytes > maximum_bytes \/ ~made THEN nothing
        ELSE IF ~restored(active, device, no)
             THEN allocated_unrestored(device, bytes, cleanup, last)
             ELSE [nothing EXCEPT
                     !.allocation = [data |-> created + 1, device |-> device,
                                     size_bytes |-> bytes],
                     !.made = {created + 1}, !.ok = TRUE]

makes(result) ==
    /\ created + Cardinality(result.made) <= MaxHandles
    /\ created' = created + Cardinality(result.made)

------------------------------------------------------
(* DeviceScratchBuffer. *)

create_scratch(bytes) ==
    \E no \in Refusals(active) :
        LET a == allocated_on(active, bytes, no, {}, {})
        IN  /\ scratch = EmptyBuffer
            /\ makes(a)
            /\ live' = (live \cup a.made) \ a.released
            /\ refused' = refused \cup a.refused
            /\ active' = a.active
            /\ scratch' = IF a.ok THEN [allocation |-> a.allocation, capacity_bytes |-> bytes,
                                        used_bytes |-> 0]
                                  ELSE scratch
            /\ returns("create", a.ok)
            /\ UNCHANGED <<slices, pinned, timing>>

(* A plausible slip: the capacity outlives the storage. *)
emptied_keeping(buffer) == buffer

emptied(buffer) == IF buffer.allocation = Empty THEN EmptyBuffer ELSE buffer

growth_device ==
    IF scratch.allocation = Empty THEN active ELSE scratch.allocation.device

(* reserve: the replacement is allocated first; the old storage is closed
   next; only then is the replacement adopted. When the close fails the
   replacement is dropped, and the old storage may be gone already. *)
reserve_noop(bytes) ==
    /\ bytes <= scratch.capacity_bytes
    /\ returns("reserve", TRUE)
    /\ UNCHANGED <<active, created, live, refused, scratch, slices, pinned, timing>>

reserve_in_use(bytes) ==
    /\ bytes > scratch.capacity_bytes
    /\ scratch.used_bytes # 0
    /\ returns("reserve", FALSE)
    /\ UNCHANGED <<active, created, live, refused, scratch, slices, pinned, timing>>

grow(bytes) ==
    /\ bytes > scratch.capacity_bytes
    /\ scratch.used_bytes = 0
    /\ \E no, second, third \in Refusals(growth_device) :
        LET a == allocated_on(growth_device, bytes, no, second, third)
            c == closed(a.active, scratch.allocation, second)
            d == dropped_memory(c.active, a.allocation, third)
        IN  /\ makes(a)
            /\ \/ /\ ~a.ok
                  /\ live' = (live \cup a.made) \ a.released
                  /\ refused' = refused \cup a.refused
                  /\ active' = a.active
                  /\ scratch' = scratch
               \/ /\ a.ok
                  /\ ~c.ok
                  /\ live' = (live \cup a.made) \ (c.released \cup d.released)
                  /\ refused' = refused \cup d.refused
                  /\ active' = d.active
                  /\ scratch' = emptied([scratch EXCEPT !.allocation = c.owner])
               \/ /\ a.ok
                  /\ c.ok
                  /\ live' = (live \cup a.made) \ c.released
                  /\ refused' = refused
                  /\ active' = c.active
                  /\ scratch' = [scratch EXCEPT !.allocation = a.allocation,
                                                !.capacity_bytes = bytes]
            /\ slices' = IF scratch'.allocation = scratch.allocation THEN slices ELSE {}
            /\ returns("reserve", a.ok /\ c.ok)
            /\ UNCHANGED <<pinned, timing>>

padding(alignment) == (alignment - (scratch.used_bytes % alignment)) % alignment

remaining_bytes == scratch.capacity_bytes - scratch.used_bytes

allocate_slice(bytes, alignment) ==
    LET from == scratch.used_bytes + padding(alignment)
        fits == /\ scratch.allocation # Empty
                /\ padding(alignment) <= remaining_bytes
                /\ bytes <= remaining_bytes - padding(alignment)
    IN  /\ bytes > 0
        /\ scratch' = IF fits THEN [scratch EXCEPT !.used_bytes = from + bytes] ELSE scratch
        /\ slices' = IF fits
                     THEN slices \cup {[data |-> scratch.allocation.data,
                                        from |-> from, to |-> from + bytes]}
                     ELSE slices
        /\ returns("allocate", fits)
        /\ UNCHANGED <<active, created, live, refused, pinned, timing>>

reset ==
    /\ scratch' = [scratch EXCEPT !.used_bytes = 0]
    /\ slices' = {}
    /\ returns("reset", TRUE)
    /\ UNCHANGED <<active, created, live, refused, pinned, timing>>

close_scratch ==
    \E no \in Refusals(scratch.allocation.device) :
        LET c == closed(active, scratch.allocation, no)
        IN  /\ scratch' = emptied([scratch EXCEPT !.allocation = c.owner])
            /\ slices' = IF c.owner = Empty THEN {} ELSE slices
            /\ live' = live \ c.released
            /\ active' = c.active
            /\ returns("close", c.ok)
            /\ UNCHANGED <<created, refused, pinned, timing>>

destroy_scratch ==
    \E no \in Refusals(scratch.allocation.device) :
        LET d == dropped_memory(active, scratch.allocation, no)
        IN  /\ scratch' = EmptyBuffer
            /\ slices' = {}
            /\ live' = live \ d.released
            /\ refused' = refused \cup d.refused
            /\ active' = d.active
            /\ returns("destroy", TRUE)
            /\ UNCHANGED <<created, pinned, timing>>

------------------------------------------------------
(* PinnedHostAllocation. It is made on the active device. *)

allocate_pinned(bytes) ==
    \E no \in {{}, {"get"}, {"call"}} :
        /\ pinned = Empty
        /\ created < MaxHandles
        /\ IF no = {}
           THEN /\ created' = created + 1
                /\ live' = live \cup {created + 1}
                /\ pinned' = [data |-> created + 1, device |-> active, size_bytes |-> bytes]
           ELSE UNCHANGED <<created, live, pinned>>
        /\ returns("allocate_pinned", no = {})
        /\ UNCHANGED <<active, refused, scratch, slices, timing>>

close_pinned ==
    \E no \in Refusals(pinned.device) :
        LET c == closed(active, pinned, no)
        IN  /\ pinned' = c.owner
            /\ live' = live \ c.released
            /\ active' = c.active
            /\ returns("close_pinned", c.ok)
            /\ UNCHANGED <<created, refused, scratch, slices, timing>>

destroy_pinned ==
    \E no \in Refusals(pinned.device) :
        LET d == dropped(active, pinned.device, {pinned.data}, no)
        IN  /\ pinned # Empty
            /\ pinned' = Empty
            /\ live' = live \ d.released
            /\ refused' = refused \cup d.refused
            /\ active' = d.active
            /\ returns("destroy_pinned", TRUE)
            /\ UNCHANGED <<created, scratch, slices, timing>>

------------------------------------------------------
(* TimingEventPair: two events, created one after the other. *)

create_timing ==
    /\ timing = EmptyPair
    /\ created + 2 <= MaxHandles
    /\ \/ /\ returns("create_timing", FALSE)       \* neither event
          /\ UNCHANGED <<created, live, refused, timing>>
       \/ \E remains \in SUBSET {created + 1} :     \* only the begin event, destroyed again
              /\ created' = created + 1
              /\ live' = live \cup remains
              /\ refused' = refused \cup remains
              /\ returns("create_timing", FALSE)
              /\ UNCHANGED timing
       \/ /\ created' = created + 2
          /\ live' = live \cup {created + 1, created + 2}
          /\ timing' = [begin |-> created + 1, end |-> created + 2, device |-> active]
          /\ returns("create_timing", TRUE)
          /\ UNCHANGED refused
    /\ UNCHANGED <<active, scratch, slices, pinned>>

events(pair) == {pair.begin, pair.end} \ {None}

kept(event, gone) == IF event \in gone THEN None ELSE event

(* Either event may be destroyed without the other; the pair forgets the
   ones that are, and its device with the last. *)
pair_without(gone) ==
    LET begin == kept(timing.begin, gone)
        end   == kept(timing.end, gone)
    IN  [begin |-> begin, end |-> end,
         device |-> IF begin = None /\ end = None THEN None ELSE timing.device]

close_timing ==
    \E no \in Refusals(timing.device), gone \in SUBSET events(timing) :
        LET done == reached(active, timing.device, no)
        IN  /\ timing # EmptyPair
            /\ done \/ gone = {}
            /\ timing' = pair_without(gone)
            /\ live' = live \ gone
            /\ active' = active_after(active, timing.device, no)
            /\ returns("close_timing", /\ done
                                       /\ gone = events(timing)
                                       /\ restored(active, timing.device, no))
            /\ UNCHANGED <<created, refused, scratch, slices, pinned>>

destroy_timing ==
    \E no \in Refusals(timing.device), gone \in SUBSET events(timing) :
        /\ timing # EmptyPair
        /\ reached(active, timing.device, no) \/ gone = {}
        /\ timing' = EmptyPair
        /\ live' = live \ gone
        /\ refused' = refused \cup (events(timing) \ gone)
        /\ active' = active_after(active, timing.device, no)
        /\ returns("destroy_timing", TRUE)
        /\ UNCHANGED <<created, scratch, slices, pinned>>

------------------------------------------------------
(* The rest of the thread chooses its device as it likes. *)
set_device(device) ==
    /\ device # active
    /\ active' = device
    /\ UNCHANGED <<created, live, refused, scratch, slices, pinned, timing, status>>

Sizes == 1 .. maximum_bytes + 1

Next ==
    \/ \E bytes \in Sizes : \/ create_scratch(bytes)
                            \/ reserve_noop(bytes) \/ reserve_in_use(bytes) \/ grow(bytes)
                            \/ \E alignment \in {1, 2} : allocate_slice(bytes, alignment)
    \/ reset \/ close_scratch \/ destroy_scratch
    \/ allocate_pinned(1) \/ close_pinned \/ destroy_pinned
    \/ create_timing \/ close_timing \/ destroy_timing
    \/ \E device \in Devices : set_device(device)

Spec == Init /\ [][Next]_vars

------------------------------------------------------
owned == ({scratch.allocation.data, pinned.data} \cup events(timing)) \ {None}

(* Every native resource is released once: whatever exists either has an
   owner that can still release it or is one CUDA refused to give back when
   its last owner went, and no owner holds one that is gone. Growth and the
   creation of a pair have owners for a moment only, and each of their
   calls may fail. *)
ReleasedOnce ==
    /\ live = owned \cup refused
    /\ owned \cap refused = {}

(* The scratch buffer's capacity is that of storage it has, and every slice
   handed out since the last reset lies in that storage beside the others,
   whatever growth failed in between and at whichever call. *)
SlicesBacked ==
    /\ scratch.capacity_bytes = scratch.allocation.size_bytes
    /\ \A s \in slices : /\ s.data = scratch.allocation.data
                         /\ s.data \in live
                         /\ s.to <= scratch.allocation.size_bytes
    /\ \A s, t \in slices : s = t \/ s.to <= t.from \/ t.to <= s.from

(* What DeviceMemory.hpp:164 says of growth: it preserves the existing
   allocation if CUDA rejects the request. *)
GrowthPreserves ==
    [][status' = [call |-> "reserve", ok |-> FALSE] =>
           scratch'.allocation = scratch.allocation]_vars
=============================================================================

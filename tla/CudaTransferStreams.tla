-------------------------- MODULE CudaTransferStreams --------------------------
(***************************************************************************)
(* The asynchronous mode of the CUDA wavefront workspace: one stream        *)
(* computes, another transfers, and the host enqueues on both, records and  *)
(* waits for events, and blocks at checkpoints. A trace stages its inputs   *)
(* in pinned buffers, which the device reads later; it reads back what the  *)
(* device has written by then. A call may fail at any point of a trace; the *)
(* workspace is then drained, or poisoned when that fails, and it is used   *)
(* again, closed, or destroyed.                                             *)
(*                                                                         *)
(* The device is external: a stream executes its operations in order, and a *)
(* wait until the record it was enqueued after has executed. A device that  *)
(* faults executes nothing any more, and every call on it fails. The        *)
(* queries of the current device around a call may refuse the call too.     *)
(***************************************************************************)
EXTENDS Integers, Sequences

CONSTANT
    MaxTraces  \* bound: the traces begun

ASSUME TransferStreamsAssumption == MaxTraces \in Nat \ {0}

Streams == {"compute", "transfer"}
Events  == {"uploads_ready", "checkpoint", "compute_done", "downloads_ready"}
Buffers == {"inputs", "audit", "status", "final"}
Storage == Streams \cup Events \cup Buffers \cup {"queues", "scratch"}

VARIABLES
    stream,    \* the operations of each stream that have not executed
    event,     \* how often each event was recorded, how many records executed
    memory,    \* what the pinned buffers and the device columns hold
    open,      \* the resources of the workspace that are not released
    lost,      \* the device has faulted
    at,        \* what the host is doing
    call,      \* the next call of the trace
    trace,     \* the number of the trace: how many began
    outcome,   \* how the last trace ended
    dirty,     \* Storage.queues_dirty
    poisoned   \* Storage.poisoned

vars == <<stream, event, memory, open, lost, at, call, trace, outcome, dirty, poisoned>>

Nothing == <<0, "nothing">>

Cells == Buffers \cup {"columns", "controls", "lanes", "clear_word"}

Init ==
    /\ stream = [s \in Streams |-> << >>]
    /\ event = [e \in Events |-> [recorded |-> 0, executed |-> 0]]
    /\ memory = [c \in Cells |-> Nothing]
    /\ open = Storage
    /\ lost = FALSE
    /\ at = "idle"
    /\ call = 0
    /\ trace = 0
    /\ outcome = "none"
    /\ dirty = FALSE
    /\ poisoned = FALSE

------------------------------------------------------
(* The device. *)

(* The claim of the camera kernel succeeds on zeroed controls only. *)
executed(op, m) ==
    CASE op = "put_status" -> [m EXCEPT !["clear_word"] = m["status"]]
      [] op = "clear"      -> [m EXCEPT !["clear_word"] = <<m["clear_word"][1], "cleared">>]
      [] op = "get_status" -> [m EXCEPT !["status"] = m["clear_word"]]
      [] op = "upload"     -> [m EXCEPT !["columns"] = m["inputs"]]
      [] op = "zero"       -> [m EXCEPT !["controls"] = <<0, "zero">>]
      [] op = "camera"     -> [m EXCEPT !["controls"] = <<0, "claimed">>,
                                        !["lanes"] = IF m["controls"][2] = "zero"
                                                     THEN <<m["columns"][1], "ray">>
                                                     ELSE <<0, "refused">>]
      [] op = "stages"     -> [m EXCEPT !["lanes"] = <<@[1], "terminated">>]
      [] op = "get_audit"  -> [m EXCEPT !["audit"] = m["lanes"]]
      [] op = "download"   -> [m EXCEPT !["final"] = m["lanes"]]
      [] OTHER             -> m

(* The resources of the workspace an operation uses when it executes. *)
uses(op) ==
    CASE op.do \in {"record", "wait"}              -> {op.event}
      [] op.do \in {"put_status", "get_status"}    -> {"status", "scratch"}
      [] op.do = "clear"                           -> {"queues", "scratch"}
      [] op.do = "upload"                          -> {"inputs", "scratch"}
      [] op.do = "get_audit"                       -> {"audit", "scratch"}
      [] op.do = "download"                        -> {"final", "scratch"}
      [] op.do \in {"zero", "camera", "stages"}    -> {"queues", "scratch"}

ready(op) == op.do = "wait" => event[op.event].executed >= op.version

execute(s) ==
    LET op == Head(stream[s])
    IN  /\ ~lost
        /\ stream[s] # << >>
        /\ ready(op)
        /\ stream' = [stream EXCEPT ![s] = Tail(@)]
        /\ memory' = executed(op.do, memory)
        /\ event' = IF op.do = "record"
                    THEN [event EXCEPT ![op.event].executed = op.version] ELSE event
        /\ UNCHANGED <<open, lost, at, call, trace, outcome, dirty, poisoned>>

fault ==
    /\ ~lost
    /\ \E s \in Streams : stream[s] # << >>
    /\ lost' = TRUE
    /\ UNCHANGED <<stream, event, memory, open, at, call, trace, outcome, dirty, poisoned>>

------------------------------------------------------
(* A trace: its calls in order. A checkpoint is recorded after each copy
   back on the compute stream and waited for before the host reads it. *)

enqueue(op, s) == [do |-> op, on |-> s, event |-> "none"]
record(e, s)   == [do |-> "record", on |-> s, event |-> e]
wait(e, s)     == [do |-> "wait", on |-> s, event |-> e]
synchronize(e) == [do |-> "synchronize", on |-> "none", event |-> e]

copy_back_and_wait(op) ==
    <<enqueue(op, "compute"), record("checkpoint", "compute"), synchronize("checkpoint")>>

Clear == <<enqueue("put_status", "compute"), enqueue("clear", "compute")>>
             \o copy_back_and_wait("get_status")

(* A plausible slip: the compute stream does not wait for the uploads. *)
UploadsUnordered == <<enqueue("upload", "transfer"), enqueue("zero", "compute"),
                      record("uploads_ready", "transfer")>>

Uploads == <<enqueue("upload", "transfer"), enqueue("zero", "compute"),
             record("uploads_ready", "transfer"), wait("uploads_ready", "compute")>>

Stages == <<enqueue("camera", "compute")>> \o copy_back_and_wait("get_audit")
              \o <<enqueue("stages", "compute")>> \o copy_back_and_wait("get_audit")

Downloads == <<record("compute_done", "compute"), wait("compute_done", "transfer"),
               enqueue("download", "transfer"), record("downloads_ready", "transfer"),
               synchronize("downloads_ready")>>

Calls == Clear \o Uploads \o Stages \o Downloads

(* A poisoned workspace, or one a close has begun to release, is refused. *)
begin_trace ==
    /\ at = "idle"
    /\ trace < MaxTraces
    /\ ~poisoned
    /\ open = Storage
    /\ trace' = trace + 1
    /\ memory' = [memory EXCEPT !["inputs"] = <<trace', "input">>]
    /\ at' = "trace"
    /\ call' = IF dirty THEN 1 ELSE Len(Clear) + 1
    /\ outcome' = "none"
    /\ UNCHANGED <<stream, event, open, lost, dirty, poisoned>>

(* What the host writes in the slot of a copy before it enqueues the copy. *)
host_write(op) ==
    CASE op = "put_status" -> [memory EXCEPT !["status"] = <<trace, "sentinel">>]
      [] op = "get_audit"  -> [memory EXCEPT !["audit"] = Nothing]
      [] OTHER             -> memory

version(c) == CASE c.do = "record" -> event[c.event].recorded + 1
                [] c.do = "wait"   -> event[c.event].recorded
                [] OTHER           -> 0

call_enqueues ==
    LET c == Calls[call]
    IN  /\ at = "trace"
        /\ ~lost
        /\ call <= Len(Calls)
        /\ c.do # "synchronize"
        /\ memory' = host_write(c.do)
        /\ stream' = [stream EXCEPT ![c.on] =
                        Append(@, [do |-> c.do, event |-> c.event, version |-> version(c)])]
        /\ event' = IF c.do = "record"
                    THEN [event EXCEPT ![c.event].recorded = version(c)] ELSE event
        /\ call' = call + 1
        /\ dirty' = (dirty \/ call' = Len(Clear) + Len(Uploads) + 1)
        /\ UNCHANGED <<open, lost, at, trace, outcome, poisoned>>

(* What the host finds wrong in the slot it reads after a checkpoint. *)
rejects ==
    IF call = Len(Clear) THEN memory["status"][2] # "cleared"
    ELSE /\ Calls[call].event = "checkpoint"
         /\ memory["audit"][2] \in {"nothing", "refused"}

call_synchronizes ==
    LET c == Calls[call]
    IN  /\ at = "trace"
        /\ ~lost
        /\ call <= Len(Calls)
        /\ c.do = "synchronize"
        /\ event[c.event].executed = event[c.event].recorded
        /\ IF rejects
           THEN /\ at' = "drain"
                /\ outcome' = "rejected"
                /\ UNCHANGED <<call, dirty>>
           ELSE /\ call' = call + 1
                /\ dirty' = (dirty /\ call # Len(Clear))
                /\ UNCHANGED <<at, outcome>>
        /\ UNCHANGED <<stream, event, memory, open, lost, trace, poisoned>>

call_fails ==
    /\ at = "trace"
    /\ call <= Len(Calls)
    /\ at' = "drain"
    /\ outcome' = "call_failed"
    /\ UNCHANGED <<stream, event, memory, open, lost, call, trace, dirty, poisoned>>

(* The downloads are complete and the drain is disarmed; what they hold may
   still be refused when it is converted. *)
return ==
    /\ at = "trace"
    /\ call = Len(Calls) + 1
    /\ at' = "idle"
    /\ \/ /\ outcome' = "returned"
          /\ dirty' = FALSE
       \/ /\ outcome' = "conversion_failed"
          /\ UNCHANGED dirty
    /\ UNCHANGED <<stream, event, memory, open, lost, call, trace, poisoned>>

(* A plausible slip: the drain waits for the kernels only. *)
quiet_compute == stream["compute"] = << >>

quiet == \A s \in Streams : stream[s] = << >>

(* Both streams are synchronized even if the first cannot be. The second
   attempt of the guard's destructor changes nothing else. *)
drain ==
    /\ at = "drain"
    /\ at' = "idle"
    /\ \/ /\ quiet
          /\ ~lost
          /\ UNCHANGED poisoned
       \/ poisoned' = TRUE
    /\ UNCHANGED <<stream, event, memory, open, lost, call, trace, outcome, dirty>>

------------------------------------------------------
(* The end of a workspace. *)

begin_close ==
    /\ at = "idle"
    /\ at' = "close_compute"
    /\ UNCHANGED <<stream, event, memory, open, lost, call, trace, outcome, dirty, poisoned>>

(* Stream::close: refused before it does anything, or synchronized and then
   destroyed, whether the synchronization succeeded or found a fault. *)
synchronized(s) == stream[s] = << >> \/ lost

close_stream(s, here, next) ==
    /\ at = here
    /\ at' = next
    /\ \/ UNCHANGED open
       \/ /\ s \in open
          /\ synchronized(s)
          /\ open' = open \ {s}
    /\ UNCHANGED <<stream, event, memory, lost, call, trace, outcome, dirty, poisoned>>

(* The rest is only touched once both streams are gone; device memory only
   once every event and buffer is. A release may report an error although
   it released (the device it should restore is gone): the storage is kept. *)
close_rest ==
    /\ at = "close_rest"
    /\ IF open \cap Streams # {}
       THEN at' = "idle" /\ UNCHANGED open
       ELSE \/ /\ \E kept \in SUBSET (open \cap (Events \cup Buffers)) :
                     open' = kept \cup (open \cap {"queues", "scratch"})
               /\ at' = "idle"
            \/ /\ \E kept \in SUBSET (open \cap {"queues", "scratch"}) : open' = kept
               /\ \/ at' = "idle"
                  \/ open' = {} /\ at' = "closed"
    /\ UNCHANGED <<stream, event, memory, lost, call, trace, outcome, dirty, poisoned>>

(* Storage is destroyed member by member after the close its destructor
   begins with, which may fail as any other. The streams are declared last
   of the staging, and the staging after the device memory.
   A plausible slip: the streams are declared first. *)
destruction_order_streams_first == <<Events \cup Buffers, {"transfer"}, {"compute"}, {"queues", "scratch"}>>

destruction_order == <<{"transfer"}, {"compute"}, Events \cup Buffers, {"queues", "scratch"}>>

begin_destruction ==
    /\ at = "idle"
    /\ at' = "destroy"
    /\ call' = 1
    /\ UNCHANGED <<stream, event, memory, open, lost, trace, outcome, dirty, poisoned>>

destroy ==
    LET members == destruction_order[call]
    IN  /\ at = "destroy"
        /\ \A s \in members \cap Streams \cap open : synchronized(s)
        /\ open' = open \ members
        /\ IF call = Len(destruction_order)
           THEN at' = "closed" /\ UNCHANGED call
           ELSE call' = call + 1 /\ UNCHANGED at
        /\ UNCHANGED <<stream, event, memory, lost, trace, outcome, dirty, poisoned>>

(* A new workspace, on a device that works. *)
create ==
    /\ at = "closed"
    /\ ~lost
    /\ trace < MaxTraces
    /\ open' = Storage
    /\ memory' = [c \in Cells |-> Nothing]
    /\ event' = [e \in Events |-> [recorded |-> 0, executed |-> 0]]
    /\ dirty' = FALSE
    /\ poisoned' = FALSE
    /\ outcome' = "none"
    /\ at' = "idle"
    /\ UNCHANGED <<stream, lost, call, trace>>

Host ==
    \/ begin_trace \/ call_enqueues \/ call_synchronizes \/ call_fails \/ return \/ drain
    \/ begin_close
    \/ close_stream("compute", "close_compute", "close_transfer")
    \/ close_stream("transfer", "close_transfer", "close_rest")
    \/ close_rest \/ begin_destruction \/ destroy \/ create

Device == fault \/ \E s \in Streams : execute(s)

Next == Host \/ Device

Spec == Init /\ [][Next]_vars

------------------------------------------------------
(* What the host reads is what its own trace computed: the audits and clear
   statuses after their checkpoints, and the terminal lanes it returns,
   although the pinned slots, the columns and the events are those of the
   traces before, which may have failed anywhere. *)
ReadsItsOwnTrace ==
    /\ outcome # "rejected"
    /\ outcome = "returned" => memory["final"] = <<trace, "terminated">>

(* Nothing is released while an operation that uses it may still execute,
   however traces failed and however closing or destruction went. *)
NothingReleasedInUse ==
    lost \/ \A s \in Streams : \A i \in DOMAIN stream[s] :
                uses(stream[s][i]) \cup {s} \subseteq open

(* A trace that returns, or fails without poisoning its workspace, leaves
   nothing behind on either stream: the caller may free the scene, and the
   next trace may write the pinned buffers. *)
QuietUnlessPoisoned ==
    at = "idle" /\ ~poisoned => \A s \in Streams : stream[s] = << >>
=============================================================================

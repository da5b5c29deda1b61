--------------------------- MODULE CudaRuntimeProofs ---------------------------
(* Proofs about the CUDA host code below the transport: the streams and events
   of CudaTransferStreams for any number of traces, and the owners of native
   resources of CudaHostResources for any devices, budget and handles. *)
EXTENDS MCCudaRuntime, SequenceTheorems, FiniteSetTheorems, TLAPS

------------------------------------------------------
(* The operations a whole trace gives each stream, in order, and how many of
   them it has given before each of its calls. A trace of a clean workspace
   starts after the first four of the compute stream. *)
Works(do, e) == [do |-> do, event |-> e]

ComputeWork ==
    << Works("put_status", "none"), Works("clear", "none"), Works("get_status", "none"),
       Works("record", "checkpoint"),
       Works("zero", "none"), Works("wait", "uploads_ready"), Works("camera", "none"),
       Works("get_audit", "none"), Works("record", "checkpoint"),
       Works("stages", "none"), Works("get_audit", "none"), Works("record", "checkpoint"),
       Works("record", "compute_done") >>

TransferWork ==
    << Works("upload", "none"), Works("record", "uploads_ready"), Works("wait", "compute_done"),
       Works("download", "none"), Works("record", "downloads_ready") >>

Work(s) == IF s = "compute" THEN ComputeWork ELSE TransferWork

Given(s) ==
    IF s = "compute"
    THEN << 0, 1, 2, 3, 4, 4, 4, 5, 5, 6, 7, 8, 9, 9, 10, 11, 12, 12, 13, 13, 13, 13, 13 >>
    ELSE << 0, 0, 0, 0, 0, 0, 1, 1, 2, 2, 2, 2, 2, 2, 2, 2, 2, 2, 2, 3, 4, 5, 5 >>

(* How many of them the device has executed, while the trace runs. *)
Done(s) == Given(s)[call] - Len(stream[s])

------------------------------------------------------
(* The invariant. *)
Operation == [do : {"put_status", "clear", "get_status", "upload", "zero", "camera", "stages",
                    "get_audit", "download", "record", "wait"},
              event : Events \cup {"none"}, version : Nat]

TypeInv ==
    /\ stream \in [Streams -> Seq(Operation)]
    /\ event \in [Events -> [recorded : Nat, executed : Nat]]
    /\ DOMAIN memory = Cells
    /\ open \subseteq Storage
    /\ lost \in BOOLEAN /\ dirty \in BOOLEAN /\ poisoned \in BOOLEAN
    /\ at \in {"idle", "trace", "drain", "close_compute", "close_transfer", "close_rest",
               "destroy", "closed"}
    /\ call \in 0 .. 23 /\ trace \in Nat
    /\ outcome \in {"none", "call_failed", "returned", "conversion_failed"}
    /\ at = "trace" => call >= 1 /\ outcome = "none"
    /\ at = "destroy" => call \in 1 .. 4
    /\ \A e \in Events : event[e].executed <= event[e].recorded
    /\ \A s \in Streams : \A i \in 1 .. Len(stream[s]) :
          stream[s][i].do \in {"record", "wait"} =>
              /\ stream[s][i].event \in Events
              /\ stream[s][i].version <= event[stream[s][i].event].recorded

(* A stream holds the last operations it was given, in their order. *)
OrderInv ==
    at = "trace" =>
        \A s \in Streams :
            /\ Done(s) >= 0
            /\ \A i \in 1 .. Len(stream[s]) :
                  /\ stream[s][i].do = Work(s)[Done(s) + i].do
                  /\ stream[s][i].event = Work(s)[Done(s) + i].event

(* A record that has not executed is one its event still waits for, and a wait
   is for the last record. *)
Fresh(op, ev) ==
    /\ op.do = "record" => /\ ev[op.event].executed < op.version
                           /\ op.version <= ev[op.event].recorded
    /\ op.do = "wait" => op.version = ev[op.event].recorded

Rising(q) ==
    \A i, j \in 1 .. Len(q) :
        (i < j /\ q[i].do = "record" /\ q[j].do = "record" /\ q[i].event = q[j].event)
            => q[i].version < q[j].version

RecordInv ==
    at = "trace" =>
        \A s \in Streams : /\ Rising(stream[s])
                           /\ \A i \in 1 .. Len(stream[s]) : Fresh(stream[s][i], event)

(* What a call that returned, or an operation that executed, has waited for. *)
WaitInv ==
    at = "trace" =>
        /\ call > 5 => Done("compute") >= 4
        /\ call > 13 => Done("compute") >= 9
        /\ call > 17 => Done("compute") >= 12
        /\ call > 22 => Done("transfer") = 5
        /\ Done("compute") >= 6 => Done("transfer") >= 2
        /\ Done("transfer") >= 3 => Done("compute") = 13

(* What the memory holds when so much of the trace has executed. *)
MemoryInv ==
    at = "trace" =>
        /\ call <= 5 /\ Done("compute") >= 2 => memory["clear_word"][2] = "cleared"
        /\ call <= 5 /\ Done("compute") >= 3 => memory["status"][2] = "cleared"
        /\ memory["inputs"] = <<trace, "input">>
        /\ Done("transfer") >= 1 => memory["columns"] = <<trace, "input">>
        /\ Done("compute") \in {5, 6} => memory["controls"] = <<0, "zero">>
        /\ Done("compute") \in 7 .. 9 => memory["lanes"] = <<trace, "ray">>
        /\ Done("compute") >= 10 => memory["lanes"] = <<trace, "terminated">>
        /\ call <= 15 /\ Done("compute") >= 8 => memory["audit"] = <<trace, "ray">>
        /\ Done("compute") >= 11 => memory["audit"] = <<trace, "terminated">>
        /\ Done("transfer") >= 4 => memory["final"] = <<trace, "terminated">>

(* Between traces the streams are empty, unless the workspace is poisoned. *)
Empty == \A s \in Streams : stream[s] = << >>

QuietInv ==
    /\ at \notin {"trace", "drain"} /\ ~poisoned => Empty
    /\ at \in {"trace", "drain"} => ~poisoned
    /\ outcome = "returned" => /\ at \notin {"trace", "drain"}
                               /\ Empty
                               /\ memory["final"] = <<trace, "terminated">>

(* A stream is released when it is quiet or dead, and before what its
   operations use. *)
OpenInv ==
    /\ at \in {"trace", "drain"} => open = Storage
    /\ \A s \in Streams : s \notin open => stream[s] = << >> \/ lost
    /\ open \cap Streams # {} => Storage \ Streams \subseteq open
    /\ at = "destroy" /\ call > 1 => "transfer" \notin open
    /\ at = "destroy" /\ call > 2 => "compute" \notin open
    /\ at = "closed" => open \cap Streams = {}

StreamsInv == TypeInv /\ OrderInv /\ RecordInv /\ WaitInv /\ MemoryInv /\ QuietInv /\ OpenInv

------------------------------------------------------
(* The calls of a trace, and what they give the streams. *)
LEMMA CallsAt ==
  /\ Len(Calls) = 22 /\ Len(Clear) = 5 /\ Len(Uploads) = 4
  /\ Calls[1] = enqueue("put_status", "compute") /\ Calls[2] = enqueue("clear", "compute")
  /\ Calls[3] = enqueue("get_status", "compute") /\ Calls[4] = record("checkpoint", "compute")
  /\ Calls[5] = synchronize("checkpoint")
  /\ Calls[6] = enqueue("upload", "transfer") /\ Calls[7] = enqueue("zero", "compute")
  /\ Calls[8] = record("uploads_ready", "transfer") /\ Calls[9] = wait("uploads_ready", "compute")
  /\ Calls[10] = enqueue("camera", "compute")
  /\ Calls[11] = enqueue("get_audit", "compute") /\ Calls[12] = record("checkpoint", "compute")
  /\ Calls[13] = synchronize("checkpoint")
  /\ Calls[14] = enqueue("stages", "compute")
  /\ Calls[15] = enqueue("get_audit", "compute") /\ Calls[16] = record("checkpoint", "compute")
  /\ Calls[17] = synchronize("checkpoint")
  /\ Calls[18] = record("compute_done", "compute") /\ Calls[19] = wait("compute_done", "transfer")
  /\ Calls[20] = enqueue("download", "transfer") /\ Calls[21] = record("downloads_ready", "transfer")
  /\ Calls[22] = synchronize("downloads_ready")
  BY DEF Calls, Clear, Uploads, Stages, Downloads, copy_back_and_wait

(* Before its first call a trace has given nothing, or the first four
   operations in an earlier trace; each call gives one operation to one
   stream, or none. *)
LEMMA Gives ==
  ASSUME NEW k \in 1 .. 22
  PROVE  LET c == Calls[k] IN
         /\ c.do = "synchronize" => \A s \in Streams : Given(s)[k + 1] = Given(s)[k]
         /\ c.do # "synchronize" =>
               /\ c.on \in Streams
               /\ Given(c.on)[k + 1] = Given(c.on)[k] + 1
               /\ Work(c.on)[Given(c.on)[k] + 1] = Works(c.do, c.event)
               /\ \A s \in Streams : s # c.on => Given(s)[k + 1] = Given(s)[k]
  BY CallsAt DEF Given, Work, ComputeWork, TransferWork, Works, Streams, enqueue, record, wait,
    synchronize

(* How far the streams may be when the trace has come to a call. *)
LEMMA Bounds ==
  ASSUME NEW k \in 1 .. 23
  PROVE  /\ Given("compute")[k] \in 0 .. 13 /\ Given("transfer")[k] \in 0 .. 5
         /\ \A s \in Streams : Given(s)[k] \in 0 .. 13
         /\ k <= 5 => Given("compute")[k] <= 4
         /\ Given("compute")[k] >= 6 => Given("transfer")[k] >= 2
         /\ Given("compute")[k] >= 11 => k >= 16
         /\ Given("transfer")[k] >= 3 => Given("compute")[k] = 13
  BY DEF Given, Streams

(* What each event is recorded for and waited for by. *)
LEMMA WorkAt ==
  /\ \A p \in 1 .. 13 : Work("compute")[p].do = "record" =>
        \/ Work("compute")[p].event = "checkpoint" /\ p \in {4, 9, 12}
        \/ Work("compute")[p].event = "compute_done" /\ p = 13
  /\ \A p \in 1 .. 5 : Work("transfer")[p].do = "record" =>
        \/ Work("transfer")[p].event = "uploads_ready" /\ p = 2
        \/ Work("transfer")[p].event = "downloads_ready" /\ p = 5
  /\ \A p \in 1 .. 13 : Work("compute")[p].do = "wait" =>
        Work("compute")[p].event = "uploads_ready" /\ p = 6
  /\ \A p \in 1 .. 5 : Work("transfer")[p].do = "wait" =>
        Work("transfer")[p].event = "compute_done" /\ p = 3
  BY DEF Work, ComputeWork, TransferWork, Works

------------------------------------------------------
(* Giving a stream an operation, and executing its first one. *)
LEMMA Enqueued ==
  ASSUME stream \in [Streams -> Seq(Operation)], NEW s \in Streams, NEW o \in Operation,
         stream' = [stream EXCEPT ![s] = Append(@, o)]
  PROVE  /\ stream' \in [Streams -> Seq(Operation)]
         /\ Len(stream[s]) \in Nat /\ Len(stream'[s]) = Len(stream[s]) + 1
         /\ \A i \in 1 .. Len(stream[s]) : stream'[s][i] = stream[s][i]
         /\ stream'[s][Len(stream[s]) + 1] = o
         /\ \A t \in Streams : t # s => stream'[t] = stream[t]
<1>1. stream[s] \in Seq(Operation) OBVIOUS
<1>2. stream'[s] = Append(stream[s], o) /\ Append(stream[s], o) \in Seq(Operation)
  BY <1>1
<1>3. QED BY <1>1, <1>2

(* The rest of the stream moves up by one. *)
LEMMA Dequeued ==
  ASSUME stream \in [Streams -> Seq(Operation)], NEW s \in Streams, stream[s] # << >>,
         stream' = [stream EXCEPT ![s] = Tail(@)]
  PROVE  /\ stream' \in [Streams -> Seq(Operation)]
         /\ Head(stream[s]) = stream[s][1] /\ stream[s][1] \in Operation
         /\ Len(stream[s]) \in Nat \ {0} /\ Len(stream'[s]) = Len(stream[s]) - 1
         /\ \A i \in 1 .. Len(stream'[s]) : stream'[s][i] = stream[s][i + 1]
         /\ \A t \in Streams : t # s => stream'[t] = stream[t]
<1>1. stream[s] \in Seq(Operation) /\ stream[s] # << >> OBVIOUS
<1>2. stream'[s] = Tail(stream[s]) /\ Tail(stream[s]) \in Seq(Operation) BY <1>1
<1>3. QED BY <1>1, <1>2

(* A new workspace has given its streams nothing. *)
LEMMA StreamsInit == Init => StreamsInv
<1> SUFFICES ASSUME Init PROVE StreamsInv
  OBVIOUS
<1>1. TypeInv
  <2>1. stream \in [Streams -> Seq(Operation)] /\ \A s \in Streams : Len(stream[s]) = 0
    BY DEF Init
  <2>2. event \in [Events -> [recorded : Nat, executed : Nat]]
          /\ \A e \in Events : event[e].executed <= event[e].recorded
    BY DEF Init
  <2>3. DOMAIN memory = Cells /\ open \subseteq Storage BY DEF Init
  <2>4. lost \in BOOLEAN /\ dirty \in BOOLEAN /\ poisoned \in BOOLEAN
    BY Zenon DEF Init
  <2>5. QED BY <2>1, <2>2, <2>3, <2>4 DEF Init, TypeInv
<1>2. OrderInv /\ RecordInv /\ WaitInv /\ MemoryInv /\ QuietInv /\ OpenInv
  BY DEF Init, OrderInv, RecordInv, Rising, WaitInv, MemoryInv, QuietInv, OpenInv, Empty,
    Streams, Storage
<1>3. QED BY <1>1, <1>2 DEF StreamsInv

(* A trace begins on empty streams, at its first call or after the clearing. *)
LEMMA BeginStep == ASSUME StreamsInv, begin_trace PROVE StreamsInv'
<1> USE DEF StreamsInv, begin_trace
<1>1. at = "idle" /\ at' = "trace" /\ Empty /\ stream' = stream /\ call' \in {1, 6}
  BY CallsAt DEF QuietInv
<1>2. \A s \in Streams : Len(stream[s]) = 0 BY <1>1 DEF Empty
<1>3. \A s \in Streams : Given(s)[call'] = IF s = "compute" /\ call' = 6 THEN 4 ELSE 0
  BY <1>1, SMTT(20) DEF Given, Streams
<1>4. TypeInv' BY <1>1, TransferStreamsAssumption DEF TypeInv
<1>5. OrderInv' /\ RecordInv'
  BY <1>1, <1>2, <1>3 DEF OrderInv, RecordInv, Rising, Done
<1>6. Done("compute")' = (IF call' = 6 THEN 4 ELSE 0) /\ Done("transfer")' = 0
  <2>1. Given("compute")[call'] = (IF call' = 6 THEN 4 ELSE 0) /\ Given("transfer")[call'] = 0
    BY <1>3 DEF Streams
  <2>2. Len(stream'["compute"]) = 0 /\ Len(stream'["transfer"]) = 0
    BY <1>1, <1>2 DEF Streams
  <2>3. QED BY <2>1, <2>2 DEF Done
<1>7. WaitInv' BY <1>1, <1>6 DEF WaitInv
<1>8. memory'["inputs"] = <<trace', "input">> BY DEF TypeInv, Cells, Buffers
<1>9. MemoryInv' BY <1>1, <1>6, <1>8 DEF MemoryInv
<1>10. QuietInv' /\ OpenInv' BY <1>1 DEF QuietInv, OpenInv
<1>11. QED BY <1>4, <1>5, <1>7, <1>9, <1>10

(* What a call that gives an operation is. *)
LEMMA CallTypes ==
  ASSUME NEW k \in 1 .. 22, Calls[k].do # "synchronize"
  PROVE  /\ Calls[k].do \in {"put_status", "clear", "get_status", "upload", "zero", "camera",
                             "stages", "get_audit", "download", "record", "wait"}
         /\ Calls[k].event \in Events \cup {"none"}
         /\ Calls[k].do \in {"record", "wait"} => Calls[k].event \in Events
         /\ k \notin {5, 13, 17, 22}
         /\ Calls[k].do = "put_status" => k = 1
         /\ Calls[k].do = "get_audit" => k \in {11, 15}
         /\ Calls[k].do = "record" =>
               \/ k \in {4, 12, 16} /\ Calls[k].event = "checkpoint"
               \/ k = 8 /\ Calls[k].event = "uploads_ready"
               \/ k = 18 /\ Calls[k].event = "compute_done"
               \/ k = 21 /\ Calls[k].event = "downloads_ready"
  BY CallsAt DEF enqueue, record, wait, synchronize, Events

(* No operation waits for a record that comes after it. *)
LEMMA WaitsBehind ==
  ASSUME NEW k \in 1 .. 22, Calls[k].do = "record", NEW s \in Streams,
         NEW p \in 1 .. Given(s)[k], Work(s)[p].do = "wait"
  PROVE  Work(s)[p].event # Calls[k].event
  BY CallsAt, WorkAt, Bounds, SMTT(20) DEF Given, Streams, enqueue, record, wait, synchronize

(* What the types say of the streams and the events. *)
LEMMA Typed ==
  ASSUME TypeInv
  PROVE  /\ \A s \in Streams : Len(stream[s]) \in Nat
         /\ \A s \in Streams : \A i \in 1 .. Len(stream[s]) :
               /\ stream[s][i] \in Operation /\ stream[s][i].version \in Nat
               /\ stream[s][i].do \in {"record", "wait"} =>
                     /\ stream[s][i].event \in Events
                     /\ stream[s][i].version <= event[stream[s][i].event].recorded
         /\ \A e \in Events : /\ event[e].recorded \in Nat /\ event[e].executed \in Nat
                              /\ event[e].executed <= event[e].recorded
         /\ at = "trace" => call \in 1 .. 23
<1>1. \A s \in Streams : stream[s] \in Seq(Operation) BY DEF TypeInv
<1>2. \A s \in Streams : \A i \in 1 .. Len(stream[s]) : stream[s][i] \in Operation
  BY <1>1
<1>3. \A e \in Events : event[e] \in [recorded : Nat, executed : Nat]
  BY DEF TypeInv
<1>4. at = "trace" => call \in 1 .. 23 BY DEF TypeInv
<1>5. QED BY <1>1, <1>2, <1>3, <1>4 DEF TypeInv, Operation

(* Operations that are pending are part of the trace. *)
LEMMA Pending ==
  ASSUME TypeInv, OrderInv, at = "trace", NEW s \in Streams
  PROVE  /\ Done(s) \in 0 .. Given(s)[call] /\ Done(s) + Len(stream[s]) = Given(s)[call]
         /\ \A i \in 1 .. Len(stream[s]) : Done(s) + i \in 1 .. Given(s)[call]
<1>1. Len(stream[s]) \in Nat /\ call \in 1 .. 23 BY Typed
<1>2. Given(s)[call] \in 0 .. 13 BY <1>1, Bounds
<1>3. Done(s) >= 0 BY DEF OrderInv
<1>4. Given(s)[call] \in Nat /\ Done(s) = Given(s)[call] - Len(stream[s])
  BY <1>2 DEF Done
<1> HIDE DEF Done
<1>5. Done(s) \in 0 .. Given(s)[call] /\ Done(s) + Len(stream[s]) = Given(s)[call]
  BY <1>1, <1>3, <1>4
<1>6. \A i \in 1 .. Len(stream[s]) : Done(s) + i \in 1 .. Given(s)[call]
  BY <1>1, <1>3, <1>4
<1>7. QED BY <1>5, <1>6

(* A call that enqueues gives an operation to a stream. *)
LEMMA Given1 ==
  ASSUME StreamsInv, call_enqueues
  PROVE  LET c == Calls[call]
             o == [do |-> c.do, event |-> c.event, version |-> version(c)]
         IN  /\ at = "trace" /\ call \in 1 .. 22 /\ c.do # "synchronize" /\ c.on \in Streams
             /\ version(c) \in Nat /\ o \in Operation
             /\ stream' = [stream EXCEPT ![c.on] = Append(@, o)]
             /\ \A s \in Streams : Done(s)' = Done(s)
             /\ c.do = "record" => /\ c.event \in Events
                                   /\ version(c) = event[c.event].recorded + 1
                                   /\ event' = [event EXCEPT ![c.event].recorded = version(c)]
             /\ c.do # "record" => event' = event
             /\ c.do = "wait" => version(c) = event[c.event].recorded
<1> DEFINE c == Calls[call]
           o == [do |-> c.do, event |-> c.event, version |-> version(c)]
<1>1. at = "trace" /\ call \in 1 .. 22 /\ c.do # "synchronize"
  BY CallsAt, Typed DEF StreamsInv, call_enqueues
<1>2. c.on \in Streams BY <1>1, Gives
<1>3. /\ c.do = "record" => c.event \in Events /\ version(c) = event[c.event].recorded + 1
      /\ c.do = "wait" => c.event \in Events /\ version(c) = event[c.event].recorded
      /\ c.do \notin {"record", "wait"} => version(c) = 0
  BY <1>1, CallTypes DEF version
<1>4. version(c) \in Nat BY <1>3, Typed DEF StreamsInv
<1>5. o \in Operation BY <1>1, <1>4, CallTypes DEF Operation
<1>6. stream' = [stream EXCEPT ![c.on] = Append(@, o)] /\ call' = call + 1
  BY DEF call_enqueues
<1>7. /\ c.do = "record" => event' = [event EXCEPT ![c.event].recorded = version(c)]
      /\ c.do # "record" => event' = event
  BY DEF call_enqueues
<1>8. ASSUME NEW s \in Streams PROVE Done(s)' = Done(s)
  <2>1. Given(s)[call] \in Nat /\ Len(stream[s]) \in Nat
    <3>1. call \in 1 .. 23 BY <1>1
    <3>2. Given(s)[call] \in 0 .. 13 BY <3>1, Bounds
    <3>3. QED BY <3>2, Typed DEF StreamsInv
  <2>2. CASE s = c.on
    <3>1. Len(stream'[s]) = Len(stream[s]) + 1
      <4> HIDE DEF c, o
      <4>1. QED BY <1>2, <1>5, <1>6, <2>2, Enqueued DEF StreamsInv, TypeInv
    <3>2. Given(s)[call + 1] = Given(s)[call] + 1 BY <1>1, <2>2, Gives
    <3>3. QED BY <1>6, <2>1, <3>1, <3>2 DEF Done
  <2>3. CASE s # c.on
    <3>1. stream'[s] = stream[s] BY <1>6, <2>3 DEF StreamsInv, TypeInv
    <3>2. Given(s)[call + 1] = Given(s)[call] BY <1>1, <2>3, Gives
    <3>3. QED BY <1>6, <3>1, <3>2 DEF Done
  <2>4. QED BY <2>2, <2>3
<1>9. QED BY <1>1, <1>2, <1>3, <1>4, <1>5, <1>6, <1>7, <1>8

(* A call that enqueues. *)
LEMMA EnqueueStep == ASSUME StreamsInv, call_enqueues PROVE StreamsInv'
<1> DEFINE c == Calls[call]
           q == c.on
           o == [do |-> c.do, event |-> c.event, version |-> version(c)]
<1>1. at = "trace" /\ call \in 1 .. 22 /\ c.do # "synchronize" /\ q \in Streams
  BY Given1
<1>2. o \in Operation /\ o.do = c.do /\ o.event = c.event /\ o.version = version(c)
        /\ version(c) \in Nat
  BY Given1
<1>3. stream' = [stream EXCEPT ![q] = Append(@, o)] BY Given1
<1>4. \A s \in Streams : Done(s)' = Done(s) BY Given1
<1>5. /\ c.do = "record" => /\ c.event \in Events
                            /\ version(c) = event[c.event].recorded + 1
                            /\ event' = [event EXCEPT ![c.event].recorded = version(c)]
      /\ c.do # "record" => event' = event
      /\ c.do = "wait" => version(c) = event[c.event].recorded
  BY Given1
<1>6. /\ c.do \in {"record", "wait"} => c.event \in Events
      /\ Work(q)[Given(q)[call] + 1] = Works(c.do, c.event)
      /\ call \notin {5, 13, 17, 22}
      /\ c.do = "put_status" => call = 1
      /\ c.do = "get_audit" => call \in {11, 15}
  BY <1>1, CallTypes, Gives
<1>7. /\ call' = call + 1 /\ memory' = host_write(c.do)
      /\ UNCHANGED <<open, lost, at, trace, outcome, poisoned>>
      /\ dirty' \in BOOLEAN
  BY Zenon DEF call_enqueues
<1>8. ASSUME NEW s \in Streams, NEW p \in 1 .. Given(s)[call], Work(s)[p].do = "wait",
             c.do = "record"
      PROVE  Work(s)[p].event # c.event
  BY <1>1, <1>8, WaitsBehind
<1> HIDE DEF c, q, o
<1>9. /\ stream' \in [Streams -> Seq(Operation)]
      /\ Len(stream[q]) \in Nat /\ Len(stream'[q]) = Len(stream[q]) + 1
      /\ \A i \in 1 .. Len(stream[q]) : stream'[q][i] = stream[q][i]
      /\ stream'[q][Len(stream[q]) + 1] = o
      /\ \A t \in Streams : t # q => stream'[t] = stream[t]
  BY <1>1, <1>2, <1>3, Enqueued DEF StreamsInv, TypeInv
<1>10. \A s \in Streams : \A i \in 1 .. Len(stream'[s]) :
          \/ i \in 1 .. Len(stream[s]) /\ stream'[s][i] = stream[s][i]
          \/ s = q /\ i = Len(stream[s]) + 1 /\ stream'[s][i] = o
  BY <1>9, Typed DEF StreamsInv
<1>11. \A e \in Events :
          /\ event'[e].executed = event[e].executed
          /\ event'[e].recorded = IF c.do = "record" /\ e = c.event THEN event[e].recorded + 1
                                  ELSE event[e].recorded
  BY <1>5 DEF StreamsInv, TypeInv
<1>12. TypeInv'
  <2>1. ASSUME NEW s \in Streams, NEW i \in 1 .. Len(stream'[s]),
               stream'[s][i].do \in {"record", "wait"}
        PROVE  /\ stream'[s][i].event \in Events
               /\ stream'[s][i].version <= event'[stream'[s][i].event].recorded
    <3>1. \A e \in Events : /\ event[e].recorded \in Nat /\ event'[e].recorded \in Nat
                            /\ event'[e].recorded >= event[e].recorded
      BY <1>11, Typed DEF StreamsInv
    <3>2. CASE i \in 1 .. Len(stream[s]) /\ stream'[s][i] = stream[s][i]
      <4> DEFINE op == stream[s][i]
      <4>1. /\ op.event \in Events /\ op.version \in Nat
            /\ op.version <= event[op.event].recorded
        BY <2>1, <3>2, Typed DEF StreamsInv
      <4> HIDE DEF op
      <4>2. op.version <= event'[op.event].recorded BY <3>1, <4>1
      <4>3. QED BY <3>2, <4>1, <4>2 DEF op
    <3>3. CASE stream'[s][i] = o
      <4>1. c.do \in {"record", "wait"} /\ c.event \in Events
        BY <1>2, <1>6, <2>1, <3>3
      <4>2. version(c) <= event'[c.event].recorded BY <1>5, <1>11, <3>1, <4>1
      <4>3. QED BY <1>2, <3>3, <4>1, <4>2
    <3>4. QED BY <1>10, <3>2, <3>3
  <2>2. event' \in [Events -> [recorded : Nat, executed : Nat]]
    BY <1>2, <1>5, SMTT(20) DEF StreamsInv, TypeInv
  <2>3. \A e \in Events : event'[e].executed <= event'[e].recorded
    BY <1>11, Typed DEF StreamsInv
  <2>4. DOMAIN memory' = Cells BY <1>7 DEF host_write, StreamsInv, TypeInv
  <2>5. QED BY <1>1, <1>7, <1>9, <2>1, <2>2, <2>3, <2>4 DEF StreamsInv, TypeInv
<1>13. OrderInv'
  <2> SUFFICES ASSUME NEW s \in Streams
               PROVE  /\ Done(s) >= 0
                      /\ \A i \in 1 .. Len(stream'[s]) :
                            /\ stream'[s][i].do = Work(s)[Done(s) + i].do
                            /\ stream'[s][i].event = Work(s)[Done(s) + i].event
    BY <1>4 DEF OrderInv
  <2>1. \A i \in 1 .. Len(stream[s]) : /\ stream[s][i].do = Work(s)[Done(s) + i].do
                                       /\ stream[s][i].event = Work(s)[Done(s) + i].event
    BY <1>1 DEF StreamsInv, OrderInv
  <2>2. Done(s) >= 0 /\ Done(s) + Len(stream[s]) = Given(s)[call]
    BY <1>1, Pending DEF StreamsInv
  <2>3. Done(s) + (Len(stream[s]) + 1) = Given(s)[call] + 1
    <3>1. Done(s) \in Int /\ Len(stream[s]) \in Nat
      BY <1>1, Pending, Typed DEF StreamsInv
    <3>2. QED BY <2>2, <3>1
  <2>4. s = q => Work(s)[Done(s) + (Len(stream[s]) + 1)] = Works(c.do, c.event)
    BY <1>6, <2>3
  <2>5. QED BY <1>2, <1>10, <2>1, <2>2, <2>4 DEF Works
<1>14. RecordInv'
  <2>1. ASSUME NEW s \in Streams, NEW i \in 1 .. Len(stream[s]), stream[s][i].do = "wait",
               c.do = "record"
        PROVE  stream[s][i].event # c.event
    <3>1. Done(s) + i \in 1 .. Given(s)[call] BY <1>1, Pending DEF StreamsInv
    <3>2. /\ stream[s][i].do = Work(s)[Done(s) + i].do
          /\ stream[s][i].event = Work(s)[Done(s) + i].event
      BY <1>1 DEF StreamsInv, OrderInv
    <3>3. QED BY <1>8, <2>1, <3>1, <3>2
  <2>2. ASSUME NEW s \in Streams, NEW i \in 1 .. Len(stream[s]) PROVE Fresh(stream[s][i], event')
    <3>1. Fresh(stream[s][i], event) BY <1>1 DEF StreamsInv, RecordInv
    <3> DEFINE op == stream[s][i]
    <3>3. /\ op.version \in Nat
          /\ op.do \in {"record", "wait"} => op.event \in Events
          /\ \A e \in Events : event[e].recorded \in Nat /\ event[e].executed \in Nat
      BY Typed DEF StreamsInv
    <3>4. op.do = "wait" /\ c.do = "record" => op.event # c.event BY <2>1
    <3>2. Fresh(op, event) BY <3>1
    <3> HIDE DEF op
    <3>5. Fresh(op, event')
      <4>1. CASE op.do = "record"
        <5>1. op.version <= event[op.event].recorded /\ event[op.event].executed < op.version
          BY <3>2, <4>1 DEF Fresh
        <5>2. event'[op.event].executed = event[op.event].executed
          BY <1>11, <3>3, <4>1
        <5>3. event'[op.event].recorded >= event[op.event].recorded
          BY <1>11, <3>3, <4>1
        <5>4. event'[op.event].recorded \in Nat BY <1>11, <3>3, <4>1
        <5>5. QED BY <3>3, <4>1, <5>1, <5>2, <5>3, <5>4 DEF Fresh
      <4>2. CASE op.do = "wait"
        BY <1>11, <3>2, <3>3, <3>4, <4>2 DEF Fresh
      <4>3. QED BY <4>1, <4>2 DEF Fresh
    <3>6. QED BY <3>5 DEF op
  <2>3. Fresh(o, event')
    <3>1. \A e \in Events : /\ event[e].recorded \in Nat /\ event[e].executed \in Nat
                            /\ event[e].executed <= event[e].recorded
      BY Typed DEF StreamsInv
    <3>2. QED BY <1>2, <1>5, <1>6, <1>11, <3>1 DEF Fresh
  <2>4. ASSUME NEW s \in Streams PROVE Rising(stream'[s])
    <3>1. Rising(stream[s]) BY <1>1 DEF StreamsInv, RecordInv
    <3>2. ASSUME s = q, NEW i \in 1 .. Len(stream[s]), stream[s][i].do = "record",
                 o.do = "record", stream[s][i].event = o.event
          PROVE  stream[s][i].version < o.version
      <4>1. stream[s][i].version <= event[c.event].recorded
        BY <1>1, <1>2, <3>2 DEF StreamsInv, RecordInv, Fresh
      <4>2. QED BY <1>2, <1>5, <3>2, <4>1, Typed DEF StreamsInv
    <3>3. Len(stream[s]) \in Nat BY Typed DEF StreamsInv
    <3>4. CASE s # q
      BY <1>9, <3>1, <3>4
    <3>5. CASE s = q
      BY <1>9, <3>1, <3>2, <3>3, <3>5, SMTT(20) DEF Rising
    <3>6. QED BY <3>4, <3>5
  <2>5. \A s \in Streams : \A i \in 1 .. Len(stream'[s]) : Fresh(stream'[s][i], event')
    BY <1>10, <2>2, <2>3
  <2>6. QED BY <2>4, <2>5 DEF RecordInv
<1>15. WaitInv' BY <1>1, <1>4, <1>6, <1>7 DEF WaitInv, StreamsInv, Streams
<1>16. MemoryInv'
  <2>1. Done("compute")' = Done("compute") /\ Done("transfer")' = Done("transfer")
    BY <1>4 DEF Streams
  <2>2. MemoryInv /\ DOMAIN memory = Cells BY DEF StreamsInv, TypeInv
  <2>3. Done("compute") <= Given("compute")[call] /\ Done("compute") \in Int
          /\ Given("compute")[1] = 0 /\ Given("compute")[11] = 7 /\ Given("compute")[15] = 10
    BY <1>1, Pending, Bounds DEF StreamsInv, Streams, Given
  <2>4. CASE c.do = "put_status"
    <3>1. call = 1 /\ Done("compute") <= 0 BY <1>6, <2>3, <2>4
    <3>2. \A x \in Cells : x # "status" => memory'[x] = memory[x]
      BY <1>7, <2>2, <2>4 DEF host_write
    <3>3. QED BY <1>1, <1>7, <2>1, <2>2, <2>3, <3>1, <3>2 DEF MemoryInv, Cells, Buffers
  <2>5. CASE c.do = "get_audit"
    <3>1. \A x \in Cells : x # "audit" => memory'[x] = memory[x]
      BY <1>7, <2>2, <2>5 DEF host_write
    <3>2. QED BY <1>1, <1>6, <1>7, <2>1, <2>2, <2>3, <2>5, <3>1 DEF MemoryInv, Cells, Buffers
  <2>6. CASE c.do \notin {"put_status", "get_audit"}
    <3>1. memory' = memory BY <1>7, <2>6 DEF host_write
    <3>2. QED BY <1>1, <1>7, <2>1, <2>2, <3>1 DEF MemoryInv
  <2>7. QED BY <2>4, <2>5, <2>6
<1>17. QuietInv' /\ OpenInv'
  <2>1. at = "trace" /\ ~poisoned /\ outcome # "returned" /\ open = Storage
    BY <1>1 DEF StreamsInv, TypeInv, QuietInv, OpenInv
  <2>2. Streams \subseteq Storage BY DEF Storage
  <2>3. QED BY <1>7, <2>1, <2>2 DEF QuietInv, OpenInv
<1>18. QED BY <1>12, <1>13, <1>14, <1>15, <1>16, <1>17 DEF StreamsInv

(* When an event has executed every record, so has the stream they are on. *)
LEMMA AllRecorded ==
  ASSUME StreamsInv, at = "trace", NEW e \in Events, event[e].executed >= event[e].recorded,
         NEW s \in Streams, NEW p \in 1 .. Given(s)[call], Work(s)[p] = Works("record", e)
  PROVE  Done(s) >= p
<1> SUFFICES ASSUME Done(s) < p PROVE FALSE
  BY Pending DEF StreamsInv
<1> DEFINE i == p - Done(s)
<1>1. Done(s) \in Nat /\ Len(stream[s]) \in Nat /\ Done(s) + Len(stream[s]) = Given(s)[call]
  BY Pending, Typed DEF StreamsInv
<1>2. i \in 1 .. Len(stream[s]) /\ Done(s) + i = p BY <1>1
<1>3. stream[s][i].do = "record" /\ stream[s][i].event = e
  BY <1>2 DEF StreamsInv, OrderInv, Works
<1>4. Fresh(stream[s][i], event) /\ stream[s][i].version \in Nat
  BY <1>2, Typed DEF StreamsInv, RecordInv
<1>5. QED BY <1>3, <1>4, Typed DEF Fresh, StreamsInv

(* What a checkpoint that is passed says of the streams and the memory. *)
LEMMA Passed ==
  ASSUME StreamsInv, at = "trace", call \in {5, 13, 17, 22},
         event[Calls[call].event].executed = event[Calls[call].event].recorded
  PROVE  /\ call = 5 => Done("compute") >= 4
         /\ call = 13 => Done("compute") >= 9
         /\ call = 17 => Done("compute") >= 12
         /\ call = 22 => Done("transfer") = 5
         /\ ~rejects
<1>1. /\ Calls[5].event = "checkpoint" /\ Calls[13].event = "checkpoint"
      /\ Calls[17].event = "checkpoint" /\ Calls[22].event = "downloads_ready"
  BY CallsAt DEF synchronize
<1>2. /\ Work("compute")[4] = Works("record", "checkpoint")
      /\ Work("compute")[9] = Works("record", "checkpoint")
      /\ Work("compute")[12] = Works("record", "checkpoint")
      /\ Work("transfer")[5] = Works("record", "downloads_ready")
  BY DEF Work, ComputeWork, TransferWork
<1>3. /\ Given("compute")[5] = 4 /\ Given("compute")[13] = 9 /\ Given("compute")[17] = 12
      /\ Given("transfer")[22] = 5
  BY DEF Given
<1>4. "compute" \in Streams /\ "transfer" \in Streams /\ {"checkpoint", "downloads_ready"} \subseteq Events
  BY DEF Streams, Events
<1>5. \A e \in Events : event[e].executed = event[e].recorded => event[e].executed >= event[e].recorded
  BY Typed DEF StreamsInv
<1>6. call = 5 => Done("compute") >= 4
  BY <1>1, <1>2, <1>3, <1>4, <1>5, AllRecorded
<1>7. call = 13 => Done("compute") >= 9
  BY <1>1, <1>2, <1>3, <1>4, <1>5, AllRecorded
<1>8. call = 17 => Done("compute") >= 12
  BY <1>1, <1>2, <1>3, <1>4, <1>5, AllRecorded
<1>9. call = 22 => Done("transfer") = 5
  <2>1. call = 22 => Done("transfer") >= 5
    BY <1>1, <1>2, <1>3, <1>4, <1>5, AllRecorded
  <2>2. Done("transfer") \in Int /\ Done("transfer") <= Given("transfer")[call]
    BY <1>4, Pending DEF StreamsInv
  <2>3. QED BY <1>3, <2>1, <2>2
<1>10. ~rejects
  <2>1. Done("compute") \in Int BY <1>4, Pending DEF StreamsInv
  <2>2. CASE call = 5
    <3>1. memory["status"][2] = "cleared"
      BY <1>6, <2>1, <2>2 DEF StreamsInv, MemoryInv
    <3>2. Len(Clear) = 5 BY CallsAt
    <3>3. QED BY <2>2, <3>1, <3>2 DEF rejects
  <2>3. CASE call = 13
    BY <1>1, <1>7, <2>1, <2>3, CallsAt DEF rejects, StreamsInv, MemoryInv
  <2>4. CASE call = 17
    BY <1>1, <1>8, <2>1, <2>4, CallsAt DEF rejects, StreamsInv, MemoryInv
  <2>5. CASE call = 22
    BY <1>1, <2>5, CallsAt DEF rejects
  <2>6. QED BY <2>2, <2>3, <2>4, <2>5
<1>11. QED BY <1>6, <1>7, <1>8, <1>9, <1>10

(* A call that waits for an event. *)
LEMMA SynchronizeStep == ASSUME StreamsInv, call_synchronizes PROVE StreamsInv'
<1>1. at = "trace" /\ call \in 1 .. 22 /\ Calls[call].do = "synchronize"
  BY CallsAt, Typed DEF StreamsInv, call_synchronizes
<1>2. call \in {5, 13, 17, 22} /\ ~rejects
  <2>1. call \in {5, 13, 17, 22} BY <1>1, CallsAt DEF enqueue, record, wait
  <2>2. QED BY <1>1, <2>1, Passed DEF call_synchronizes
<1>3. /\ call' = call + 1 /\ dirty' \in BOOLEAN
      /\ UNCHANGED <<stream, event, memory, open, lost, at, trace, outcome, poisoned>>
  BY <1>2, Zenon DEF call_synchronizes
<1>4. \A s \in Streams : Done(s)' = Done(s) BY <1>1, <1>3, Gives DEF Done
<1>5. Done("compute")' = Done("compute") /\ Done("transfer")' = Done("transfer")
  BY <1>4 DEF Streams
<1>6. Done("compute") \in Int /\ Done("transfer") \in Int
  BY <1>1, Pending DEF StreamsInv, Streams
<1>7. TypeInv' /\ QuietInv' /\ OpenInv'
  BY <1>1, <1>3 DEF StreamsInv, TypeInv, QuietInv, OpenInv, Empty
<1>8. OrderInv' /\ RecordInv'
  BY <1>1, <1>3, <1>4 DEF StreamsInv, OrderInv, RecordInv
<1>9. WaitInv'
  BY <1>1, <1>2, <1>3, <1>5, <1>6, Passed DEF StreamsInv, WaitInv, call_synchronizes
<1>10. MemoryInv' BY <1>1, <1>3, <1>5 DEF StreamsInv, MemoryInv
<1>11. QED BY <1>7, <1>8, <1>9, <1>10 DEF StreamsInv

(* The device executes the first operation of a stream. *)
LEMMA Takes ==
  ASSUME StreamsInv, NEW s \in Streams, execute(s)
  PROVE  LET op == stream[s][1] IN
         /\ stream' \in [Streams -> Seq(Operation)]
         /\ op \in Operation
         /\ op.do \in {"record", "wait"} => op.event \in Events
         /\ ready(op) /\ memory' = executed(op.do, memory)
         /\ event' = IF op.do = "record" THEN [event EXCEPT ![op.event].executed = op.version]
                     ELSE event
         /\ Len(stream[s]) \in Nat \ {0} /\ Len(stream'[s]) = Len(stream[s]) - 1
         /\ \A i \in 1 .. Len(stream'[s]) : stream'[s][i] = stream[s][i + 1]
         /\ \A t \in Streams : t # s => stream'[t] = stream[t]
         /\ UNCHANGED <<open, lost, at, call, trace, outcome, dirty, poisoned>>
<1>1. stream' = [stream EXCEPT ![s] = Tail(@)] /\ stream[s] # << >>
  BY DEF execute
<1>2. Head(stream[s]) = stream[s][1] /\ Len(stream[s]) \in Nat \ {0}
  BY <1>1, Dequeued DEF StreamsInv, TypeInv
<1>3. /\ stream' \in [Streams -> Seq(Operation)]
      /\ stream[s][1] \in Operation /\ Len(stream'[s]) = Len(stream[s]) - 1
      /\ \A i \in 1 .. Len(stream'[s]) : stream'[s][i] = stream[s][i + 1]
      /\ \A t \in Streams : t # s => stream'[t] = stream[t]
  BY <1>1, Dequeued DEF StreamsInv, TypeInv
<1>4. 1 \in 1 .. Len(stream[s]) BY <1>2
<1>5. QED BY <1>2, <1>3, <1>4, Typed DEF StreamsInv, execute

(* What an operation of a trace finds when it executes, and what it leaves. *)
LEMMA Executes ==
  ASSUME StreamsInv, at = "trace", NEW s \in Streams, execute(s)
  PROVE  LET n == Done(s)
             op == stream[s][1]
         IN  /\ n \in Nat /\ n < Given(s)[call] /\ Done(s)' = n + 1
             /\ \A t \in Streams : t # s => Done(t)' = Done(t)
             /\ op.do = Work(s)[n + 1].do /\ op.event = Work(s)[n + 1].event
             /\ op.do = "wait" => event[op.event].executed >= event[op.event].recorded
<1>1. Done(s) \in Nat /\ Given(s)[call] \in Nat /\ Done(s) + Len(stream[s]) = Given(s)[call]
        /\ Len(stream[s]) \in Nat \ {0}
  <2>1. call \in 1 .. 23 BY Typed DEF StreamsInv
  <2>2. Given(s)[call] \in 0 .. 13 BY <2>1, Bounds
  <2>3. Done(s) \in 0 .. Given(s)[call] /\ Done(s) + Len(stream[s]) = Given(s)[call]
    BY Pending DEF StreamsInv
  <2>4. Len(stream[s]) \in Nat \ {0} BY Takes
  <2>5. QED BY <2>2, <2>3, <2>4
<1>2. Done(s)' = Done(s) + 1
  <2>1. Len(stream'[s]) = Len(stream[s]) - 1 /\ call' = call BY Takes
  <2>2. QED BY <1>1, <2>1 DEF Done
<1>3. \A t \in Streams : t # s => Done(t)' = Done(t) BY Takes DEF Done
<1>4. 1 \in 1 .. Len(stream[s]) BY <1>1
<1>5. /\ stream[s][1].do = Work(s)[Done(s) + 1].do
      /\ stream[s][1].event = Work(s)[Done(s) + 1].event
  BY <1>4 DEF StreamsInv, OrderInv
<1>6. stream[s][1].do = "wait" =>
         event[stream[s][1].event].executed >= event[stream[s][1].event].recorded
  <2>1. Fresh(stream[s][1], event) /\ ready(stream[s][1])
    BY <1>4, Takes DEF StreamsInv, RecordInv
  <2>2. QED BY <2>1 DEF Fresh, ready
<1>7. QED BY <1>1, <1>2, <1>3, <1>5, <1>6

(* Executing keeps the order of the streams and what is pending on them. *)
LEMMA ExecuteOrder ==
  ASSUME StreamsInv, at = "trace", NEW s \in Streams, execute(s)
  PROVE  OrderInv' /\ RecordInv'
<1> DEFINE op == stream[s][1]
<1>1. /\ \A i \in 1 .. Len(stream'[s]) : stream'[s][i] = stream[s][i + 1]
      /\ Len(stream[s]) \in Nat \ {0} /\ Len(stream'[s]) = Len(stream[s]) - 1
      /\ \A t \in Streams : t # s => stream'[t] = stream[t]
  BY Takes
<1>2. Done(s) \in Nat /\ Done(s)' = Done(s) + 1 /\ \A t \in Streams : t # s => Done(t)' = Done(t)
  BY Executes
<1>3. \A t \in Streams : \A i \in 1 .. Len(stream'[t]) : \E j \in 1 .. Len(stream[t]) :
         /\ stream'[t][i] = stream[t][j]
         /\ j = (IF t = s THEN i + 1 ELSE i) /\ Done(t)' + i = Done(t) + j
  <2> TAKE t \in Streams
  <2> TAKE i \in 1 .. Len(stream'[t])
  <2>1. CASE t = s
    <3>1. i + 1 \in 1 .. Len(stream[t]) BY <1>1, <2>1
    <3>2. stream'[t][i] = stream[t][i + 1] BY <1>1, <2>1
    <3>3. Done(t) \in Nat /\ Done(t)' = Done(t) + 1 BY <1>2, <2>1, Zenon
    <3>4. Done(t)' + i = Done(t) + (i + 1) BY <3>3
    <3>5. QED BY <2>1, <3>1, <3>2, <3>4
  <2>2. CASE t # s
    <3>1. i \in 1 .. Len(stream[t]) /\ stream'[t][i] = stream[t][i] /\ Done(t)' = Done(t)
      BY <1>1, <1>2, <2>2
    <3>2. QED BY <2>2, <3>1
  <2>3. QED BY <2>1, <2>2
<1>4. OrderInv'
  <2>1. \A t \in Streams : Done(t)' >= 0 BY <1>2 DEF StreamsInv, OrderInv
  <2>2. ASSUME NEW t \in Streams, NEW i \in 1 .. Len(stream'[t])
        PROVE  /\ stream'[t][i].do = Work(t)[Done(t)' + i].do
               /\ stream'[t][i].event = Work(t)[Done(t)' + i].event
    <3>1. PICK j \in 1 .. Len(stream[t]) : stream'[t][i] = stream[t][j] /\ Done(t)' + i = Done(t) + j
      BY <1>3
    <3>2. /\ stream[t][j].do = Work(t)[Done(t) + j].do
          /\ stream[t][j].event = Work(t)[Done(t) + j].event
      BY DEF StreamsInv, OrderInv
    <3>3. QED BY <3>1, <3>2
  <2>3. QED BY <2>1, <2>2 DEF OrderInv
<1>5. \A t \in Streams : Rising(stream[t]) /\ \A i \in 1 .. Len(stream[t]) : Fresh(stream[t][i], event)
  BY DEF StreamsInv, RecordInv
<1>6. ASSUME NEW t \in Streams PROVE Rising(stream'[t])
  <2>1. CASE t = s
    <3>1. \A i \in 1 .. Len(stream'[s]) : i + 1 \in 1 .. Len(stream[s]) BY <1>1
    <3>2. Rising(stream[s]) BY <1>5
    <3>3. ASSUME NEW i \in 1 .. Len(stream'[s]), NEW j \in 1 .. Len(stream'[s]), i < j,
                 stream'[s][i].do = "record", stream'[s][j].do = "record",
                 stream'[s][i].event = stream'[s][j].event
          PROVE  stream'[s][i].version < stream'[s][j].version
      <4>1. stream'[s][i] = stream[s][i + 1] /\ stream'[s][j] = stream[s][j + 1]
        BY <1>1
      <4>2. i + 1 \in 1 .. Len(stream[s]) /\ j + 1 \in 1 .. Len(stream[s]) /\ i + 1 < j + 1
        BY <3>1, <3>3
      <4>3. QED BY <3>2, <3>3, <4>1, <4>2 DEF Rising
    <3>4. QED BY <2>1, <3>3 DEF Rising
  <2>2. CASE t # s
    BY <1>1, <1>5, <2>2
  <2>3. QED BY <2>1, <2>2
<1>7. /\ op.do = "record" => event' = [event EXCEPT ![op.event].executed = op.version]
      /\ op.do # "record" => event' = event
      /\ op.do = "record" => op.event \in Events
  BY Takes
<1>8. \A e \in Events :
         /\ event'[e].recorded = event[e].recorded
         /\ event'[e].executed = IF op.do = "record" /\ e = op.event THEN op.version
                                 ELSE event[e].executed
  BY <1>7 DEF StreamsInv, TypeInv
<1>9. ASSUME NEW t \in Streams, NEW j \in 1 .. Len(stream[t]), t = s => j > 1,
             op.do = "record", stream[t][j].do = "record", stream[t][j].event = op.event
      PROVE  op.version < stream[t][j].version
  <2>1. CASE t = s
    <3>1. Rising(stream[s]) /\ 1 \in 1 .. Len(stream[s]) BY <1>1, <1>5
    <3>2. QED BY <1>9, <2>1, <3>1 DEF Rising
  <2>2. CASE t # s
    <3>1. Done(t) + j \in 1 .. Given(t)[call] /\ call \in 1 .. 23
      BY Pending, Typed DEF StreamsInv
    <3>2. Given("compute")[call] \in 0 .. 13 /\ Given("transfer")[call] \in 0 .. 5
      BY <3>1, Bounds
    <3>3. /\ Done(s) + 1 \in 1 .. Given(s)[call]
          /\ op.do = Work(s)[Done(s) + 1].do /\ op.event = Work(s)[Done(s) + 1].event
      <4>1. Done(s) < Given(s)[call] BY Executes
      <4>2. Given(s)[call] \in Nat BY <3>2 DEF Streams
      <4>3. QED BY <1>2, <4>1, <4>2, Executes
    <3>4. /\ stream[t][j].do = Work(t)[Done(t) + j].do
          /\ stream[t][j].event = Work(t)[Done(t) + j].event
      BY DEF StreamsInv, OrderInv
    <3>5. DEFINE p == Done(s) + 1
                 r == Done(t) + j
    <3> HIDE DEF p, r
    <3>6. CASE s = "compute" /\ t = "transfer"
      <4>1. p \in 1 .. 13 /\ r \in 1 .. 5
        <5>1. p \in 1 .. Given("compute")[call] /\ r \in 1 .. Given("transfer")[call]
          BY <3>1, <3>3, <3>6 DEF p, r
        <5>2. QED BY <3>2, <5>1
      <4>2. Work("compute")[p].event \in {"checkpoint", "compute_done"}
        BY <1>9, <3>3, <3>6, <4>1, WorkAt, SMTT(20) DEF p
      <4>3. Work("transfer")[r].event \in {"uploads_ready", "downloads_ready"}
        BY <1>9, <3>4, <3>6, <4>1, WorkAt, SMTT(20) DEF r
      <4>4. QED BY <1>9, <3>3, <3>4, <3>6, <4>2, <4>3 DEF p, r
    <3>7. CASE s = "transfer" /\ t = "compute"
      <4>1. p \in 1 .. 5 /\ r \in 1 .. 13
        <5>1. p \in 1 .. Given("transfer")[call] /\ r \in 1 .. Given("compute")[call]
          BY <3>1, <3>3, <3>7 DEF p, r
        <5>2. QED BY <3>2, <5>1
      <4>2. Work("transfer")[p].event \in {"uploads_ready", "downloads_ready"}
        BY <1>9, <3>3, <3>7, <4>1, WorkAt, SMTT(20) DEF p
      <4>3. Work("compute")[r].event \in {"checkpoint", "compute_done"}
        BY <1>9, <3>4, <3>7, <4>1, WorkAt, SMTT(20) DEF r
      <4>4. QED BY <1>9, <3>3, <3>4, <3>7, <4>2, <4>3 DEF p, r
    <3>8. QED BY <2>2, <3>6, <3>7 DEF Streams
  <2>3. QED BY <2>1, <2>2
<1> HIDE DEF op
<1>10. ASSUME NEW t \in Streams, NEW i \in 1 .. Len(stream'[t]) PROVE Fresh(stream'[t][i], event')
  <2>1. PICK j \in 1 .. Len(stream[t]) : stream'[t][i] = stream[t][j] /\ (t = s => j > 1)
    BY <1>3
  <2>3. Fresh(stream[t][j], event) BY <1>5
  <2>4. /\ stream[t][j].do \in {"record", "wait"} => stream[t][j].event \in Events
    BY Typed DEF StreamsInv
  <2>5. op.do = "record" /\ stream[t][j].do = "record" /\ stream[t][j].event = op.event
          => op.version < stream[t][j].version
    BY <1>9, <2>1
  <2> DEFINE x == stream[t][j]
  <2>6. /\ Fresh(x, event) /\ (x.do \in {"record", "wait"} => x.event \in Events)
        /\ (op.do = "record" /\ x.do = "record" /\ x.event = op.event => op.version < x.version)
    BY <2>3, <2>4, <2>5
  <2> HIDE DEF x
  <2>7. Fresh(x, event') BY <1>8, <2>6 DEF Fresh
  <2>8. QED BY <2>1, <2>7 DEF x
<1>11. QED BY <1>4, <1>6, <1>10 DEF RecordInv

(* A wait that executes has been waited for. *)
LEMMA ExecuteWaits ==
  ASSUME StreamsInv, at = "trace", NEW s \in Streams, execute(s)
  PROVE  WaitInv'
<1> DEFINE n == Done(s)
           c == Given("compute")[call]
           t == Given("transfer")[call]
<1>1. call \in 1 .. 23 /\ c \in 0 .. 13 /\ t \in 0 .. 5 /\ (c >= 6 => t >= 2) /\ (t >= 3 => c = 13)
  <2>1. call \in 1 .. 23 BY Typed DEF StreamsInv
  <2>2. QED BY <2>1, Bounds
<1>2. Done("compute") \in 0 .. c /\ Done("transfer") \in 0 .. t
  BY Pending DEF StreamsInv, Streams
<1>3. n \in Nat /\ n < Given(s)[call] /\ Done(s)' = n + 1 BY Executes
<1>4. call' = call BY Takes
<1>5. WaitInv BY DEF StreamsInv
<1>6. /\ stream[s][1].do = Work(s)[n + 1].do /\ stream[s][1].event = Work(s)[n + 1].event
      /\ stream[s][1].do = "wait" =>
           event[stream[s][1].event].executed >= event[stream[s][1].event].recorded
  BY Executes
<1>7. CASE s = "compute"
  <2>1. Done("compute") = n /\ n < c /\ Done("compute")' = n + 1
          /\ Done("transfer")' = Done("transfer")
    BY <1>3, <1>7, Executes DEF Streams
  <2>2. n = 5 => Done("transfer") >= 2
    <3> SUFFICES ASSUME n = 5 PROVE Done("transfer") >= 2
      OBVIOUS
    <3>1. stream[s][1].do = "wait" /\ stream[s][1].event = "uploads_ready"
      <4>1. Work(s)[n + 1].do = "wait" /\ Work(s)[n + 1].event = "uploads_ready"
        BY <1>7 DEF Work, ComputeWork, Works
      <4>2. QED BY <1>6, <4>1
    <3>2. event["uploads_ready"].executed >= event["uploads_ready"].recorded
      BY <1>6, <3>1
    <3>3. 2 \in 1 .. Given("transfer")[call] BY <1>1, <2>1
    <3>4. Work("transfer")[2] = Works("record", "uploads_ready")
      BY DEF Work, TransferWork
    <3>5. QED BY <3>2, <3>3, <3>4, AllRecorded DEF Streams, Events
  <2> HIDE DEF n, c, t
  <2>3. QED BY <1>1, <1>2, <1>4, <1>5, <2>1, <2>2 DEF WaitInv
<1>8. CASE s = "transfer"
  <2>1. Done("transfer") = n /\ n < t /\ Done("transfer")' = n + 1
          /\ Done("compute")' = Done("compute")
    BY <1>3, <1>8, Executes DEF Streams
  <2>2. n = 2 => Done("compute") >= 13
    <3> SUFFICES ASSUME n = 2 PROVE Done("compute") >= 13
      OBVIOUS
    <3>1. stream[s][1].do = "wait" /\ stream[s][1].event = "compute_done"
      <4>1. Work(s)[n + 1].do = "wait" /\ Work(s)[n + 1].event = "compute_done"
        BY <1>8 DEF Work, TransferWork, Works
      <4>2. QED BY <1>6, <4>1
    <3>2. event["compute_done"].executed >= event["compute_done"].recorded
      BY <1>6, <3>1
    <3>3. 13 \in 1 .. Given("compute")[call] BY <1>1, <2>1
    <3>4. Work("compute")[13] = Works("record", "compute_done")
      BY DEF Work, ComputeWork
    <3>5. QED BY <3>2, <3>3, <3>4, AllRecorded DEF Streams, Events
  <2> HIDE DEF n, c, t
  <2>3. QED BY <1>1, <1>2, <1>4, <1>5, <2>1, <2>2 DEF WaitInv
<1>9. QED BY <1>7, <1>8 DEF Streams
(* Executing an operation of a trace puts in the memory what the trace is
   about: one step for each operation of the two streams. *)
LEMMA ExecuteMemory ==
  ASSUME StreamsInv, at = "trace", NEW s \in Streams, execute(s)
  PROVE  MemoryInv'
<1> DEFINE n == Done(s)
           d == Work(s)[n + 1].do
           C == Done("compute")
           T == Done("transfer")
<1>1. /\ call \in 1 .. 23 /\ Given("compute")[call] \in 0 .. 13 /\ Given("transfer")[call] \in 0 .. 5
      /\ Given("compute")[call] >= 11 => call >= 16
  <2>1. call \in 1 .. 23 BY Typed DEF StreamsInv
  <2>2. QED BY <2>1, Bounds
<1>2. n \in Nat /\ n < Given(s)[call] /\ Done(s)' = n + 1 BY Executes
<1>3. memory' = executed(d, memory) /\ DOMAIN memory = Cells /\ call' = call /\ trace' = trace
  BY Executes, Takes DEF StreamsInv, TypeInv
<1>4. C \in Nat /\ T \in Nat
  <2>1. C \in 0 .. Given("compute")[call] /\ T \in 0 .. Given("transfer")[call]
    BY Pending DEF StreamsInv, Streams
  <2>2. QED BY <1>1, <2>1
<1>5. MemoryInv /\ (C >= 6 => T >= 2) /\ (T >= 3 => C = 13)
  BY DEF StreamsInv, WaitInv
<1>6. \A x \in Cells : x \in DOMAIN memory BY <1>3
<1>7. CASE s = "compute"
  <2>1. C = n /\ n \in 0 .. 12 /\ (n >= 10 => call >= 16) /\ Done("compute")' = n + 1
          /\ Done("transfer")' = T
    <3>1. C = n /\ Done("compute")' = n + 1 /\ Done("transfer")' = T
      BY <1>2, <1>7, Executes DEF Streams
    <3>2. n < Given("compute")[call] BY <1>2, <1>7
    <3>3. QED BY <1>1, <1>2, <3>1, <3>2
  <2>2. d = << "put_status", "clear", "get_status", "record", "zero", "wait", "camera", "get_audit",
               "record", "stages", "get_audit", "record", "record" >>[n + 1]
    BY <1>7, <2>1 DEF Work, ComputeWork, Works
  <2> HIDE DEF d, n, C, T
  <2>14. \/ n = 0 \/ n = 1 \/ n = 2 \/ n \in {3, 8, 11, 12} \/ n = 4 \/ n = 5 \/ n = 6 \/ n = 7
         \/ n = 9 \/ n = 10
    BY <2>1
  <2> USE <1>3, <1>4, <1>5, <2>1 DEF executed, MemoryInv, Cells, Buffers
  <2>3. CASE n = 0
    <3>1. d = "put_status" BY <2>2, <2>3
    <3>2. \A x \in Cells : x # "clear_word" => memory'[x] = memory[x] BY <3>1
    <3>3. QED BY <2>3, <3>2 DEF C, T
  <2>4. CASE n = 1
    <3>1. d = "clear" BY <2>2, <2>4
    <3>2. /\ \A x \in Cells : x # "clear_word" => memory'[x] = memory[x]
          /\ memory'["clear_word"][2] = "cleared"
      BY <3>1
    <3>3. QED BY <2>4, <3>2 DEF C, T
  <2>5. CASE n = 2
    <3>1. d = "get_status" BY <2>2, <2>5
    <3>2. /\ \A x \in Cells : x # "status" => memory'[x] = memory[x]
          /\ memory'["status"] = memory["clear_word"]
      BY <3>1
    <3>3. QED BY <2>5, <3>2 DEF C, T
  <2>6. CASE n \in {3, 8, 11, 12}
    <3>1. d = "record" BY <2>2, <2>6
    <3>2. memory' = memory BY <3>1
    <3>3. QED BY <2>6, <3>2 DEF C, T
  <2>7. CASE n = 4
    <3>1. d = "zero" BY <2>2, <2>7
    <3>2. /\ \A x \in Cells : x # "controls" => memory'[x] = memory[x]
          /\ memory'["controls"] = <<0, "zero">>
      BY <3>1
    <3>3. QED BY <2>7, <3>2, SMTT(20) DEF C, T
  <2>8. CASE n = 5
    <3>1. d = "wait" BY <2>2, <2>8
    <3>2. memory' = memory BY <3>1
    <3>3. QED BY <2>8, <3>2 DEF C, T
  <2>9. CASE n = 6
    <3>1. d = "camera" BY <2>2, <2>9
    <3>2. memory["controls"] = <<0, "zero">> /\ memory["columns"] = <<trace, "input">>
      BY <2>9 DEF C, T
    <3>3. /\ \A x \in Cells : x \notin {"controls", "lanes"} => memory'[x] = memory[x]
          /\ memory'["lanes"] = <<trace, "ray">>
      BY <3>1, <3>2
    <3>4. QED BY <2>9, <3>3, SMTT(20) DEF C, T
  <2>10. CASE n = 7
    <3>1. d = "get_audit" BY <2>2, <2>10
    <3>2. /\ \A x \in Cells : x # "audit" => memory'[x] = memory[x]
          /\ memory'["audit"] = memory["lanes"]
      BY <3>1
    <3>3. QED BY <2>10, <3>2 DEF C, T
  <2>11. CASE n = 9
    <3>1. d = "stages" BY <2>2, <2>11
    <3>2. memory["lanes"] = <<trace, "ray">> BY <2>11 DEF C, T
    <3>3. /\ \A x \in Cells : x # "lanes" => memory'[x] = memory[x]
          /\ memory'["lanes"] = <<trace, "terminated">>
      BY <3>1, <3>2
    <3>4. QED BY <2>11, <3>3 DEF C, T
  <2>12. CASE n = 10
    <3>1. d = "get_audit" BY <2>2, <2>12
    <3>2. /\ \A x \in Cells : x # "audit" => memory'[x] = memory[x]
          /\ memory'["audit"] = memory["lanes"]
      BY <3>1
    <3>3. call >= 16 /\ call \in Nat BY <1>1, <2>12
    <3>4. QED BY <2>12, <3>2, <3>3 DEF C, T
  <2>13. QED BY Zenon, <2>3, <2>4, <2>5, <2>6, <2>7, <2>8, <2>9, <2>10, <2>11, <2>12, <2>14
<1>8. CASE s = "transfer"
  <2>1. T = n /\ n \in 0 .. 4 /\ Done("transfer")' = n + 1 /\ Done("compute")' = C
    <3>1. T = n /\ Done("transfer")' = n + 1 /\ Done("compute")' = C
      BY <1>2, <1>8, Executes DEF Streams
    <3>2. n < Given("transfer")[call] BY <1>2, <1>8
    <3>3. QED BY <1>1, <1>2, <3>1, <3>2
  <2>2. d = << "upload", "record", "wait", "download", "record" >>[n + 1]
    BY <1>8, <2>1 DEF Work, TransferWork, Works
  <2> HIDE DEF d, n, C, T
  <2>7. n = 0 \/ n \in {1, 2, 4} \/ n = 3 BY <2>1
  <2> USE <1>3, <1>4, <1>5, <2>1 DEF executed, MemoryInv, Cells, Buffers
  <2>3. CASE n = 0
    <3>1. d = "upload" BY <2>2, <2>3
    <3>2. /\ \A x \in Cells : x # "columns" => memory'[x] = memory[x]
          /\ memory'["columns"] = memory["inputs"]
      BY <3>1
    <3>3. QED BY <2>3, <3>2 DEF C, T
  <2>4. CASE n \in {1, 2, 4}
    <3>1. d \in {"record", "wait"} BY <2>2, <2>4
    <3>2. memory' = memory BY <3>1
    <3>3. QED BY <2>4, <3>2 DEF C, T
  <2>5. CASE n = 3
    <3>1. d = "download" BY <2>2, <2>5
    <3>2. memory["lanes"] = <<trace, "terminated">> BY <2>5 DEF C, T
    <3>3. /\ \A x \in Cells : x # "final" => memory'[x] = memory[x]
          /\ memory'["final"] = memory["lanes"]
      BY <3>1
    <3>4. QED BY <2>5, <3>2, <3>3 DEF C, T
  <2>6. QED BY Zenon, <2>3, <2>4, <2>5, <2>7
<1>9. QED BY <1>7, <1>8 DEF Streams

(* The device executes the first operation of a stream. *)
LEMMA ExecuteStep == ASSUME StreamsInv, NEW s \in Streams, execute(s) PROVE StreamsInv'
<1> DEFINE op == stream[s][1]
<1>1. /\ stream' \in [Streams -> Seq(Operation)]
      /\ op \in Operation
      /\ op.do \in {"record", "wait"} => op.event \in Events
      /\ memory' = executed(op.do, memory)
      /\ Len(stream[s]) \in Nat \ {0} /\ Len(stream'[s]) = Len(stream[s]) - 1
      /\ \A i \in 1 .. Len(stream'[s]) : stream'[s][i] = stream[s][i + 1]
      /\ \A t \in Streams : t # s => stream'[t] = stream[t]
  BY Takes
<1>2. /\ op.do = "record" => event' = [event EXCEPT ![op.event].executed = op.version]
      /\ op.do # "record" => event' = event
  BY Takes
<1>3. UNCHANGED <<open, lost, at, call, trace, outcome, dirty, poisoned>> /\ ~lost /\ stream[s] # << >>
  BY DEF execute
<1>4. op.version \in Nat /\ (op.do = "record" => op.version <= event[op.event].recorded)
  <2>1. 1 \in 1 .. Len(stream[s]) BY <1>1
  <2>2. QED BY <2>1, Typed DEF StreamsInv
<1>5. TypeInv'
  <2>1. DOMAIN memory' = Cells BY <1>1 DEF executed, StreamsInv, TypeInv
  <2>2. event' \in [Events -> [recorded : Nat, executed : Nat]]
    BY <1>1, <1>2, <1>4 DEF StreamsInv, TypeInv
  <2>3. \A e \in Events : event'[e].recorded = event[e].recorded
    <3>1. event \in [Events -> [recorded : Nat, executed : Nat]]
      BY DEF StreamsInv, TypeInv
    <3> HIDE DEF op
    <3>2. CASE op.do = "record"
      BY <1>2, <3>1, <3>2
    <3>3. CASE op.do # "record"
      BY <1>2, <3>3
    <3>4. QED BY <3>2, <3>3
  <2>4. \A e \in Events : event'[e].executed <= event'[e].recorded
    <3>1. \A e \in Events : event'[e].executed = IF op.do = "record" /\ e = op.event THEN op.version
                                                 ELSE event[e].executed
      BY <1>1, <1>2 DEF StreamsInv, TypeInv
    <3>2. QED BY <1>1, <1>4, <2>3, <3>1, Typed DEF StreamsInv
  <2>5. ASSUME NEW t \in Streams, NEW i \in 1 .. Len(stream'[t]),
               stream'[t][i].do \in {"record", "wait"}
        PROVE  /\ stream'[t][i].event \in Events
               /\ stream'[t][i].version <= event'[stream'[t][i].event].recorded
    <3>1. PICK j \in 1 .. Len(stream[t]) : stream'[t][i] = stream[t][j]
      <4>1. CASE t = s
        <5>1. i + 1 \in 1 .. Len(stream[t]) /\ stream'[t][i] = stream[t][i + 1]
          BY <1>1, <4>1
        <5>2. QED BY <5>1
      <4>2. CASE t # s
        BY <1>1, <4>2
      <4>3. QED BY <4>1, <4>2
    <3>2. /\ stream[t][j].event \in Events
          /\ stream[t][j].version <= event[stream[t][j].event].recorded
      BY <2>5, <3>1, Typed DEF StreamsInv
    <3>3. event'[stream[t][j].event].recorded = event[stream[t][j].event].recorded
      BY <2>3, <3>2
    <3>4. QED BY <3>1, <3>2, <3>3
  <2>6. QED BY <1>1, <1>3, <2>1, <2>2, <2>4, <2>5 DEF StreamsInv, TypeInv
<1>6. OrderInv' /\ RecordInv' /\ WaitInv' /\ MemoryInv'
  <2>1. CASE at = "trace"
    BY <2>1, ExecuteOrder, ExecuteWaits, ExecuteMemory
  <2>2. CASE at # "trace"
    BY <1>3, <2>2 DEF OrderInv, RecordInv, WaitInv, MemoryInv
  <2>3. QED BY <2>1, <2>2
<1>7. QuietInv'
  <2>1. ~Empty BY <1>3 DEF Empty
  <2>2. QED BY <1>3, <2>1 DEF StreamsInv, QuietInv
<1>8. OpenInv'
  <2>1. s \in open BY <1>3 DEF StreamsInv, OpenInv
  <2>2. QED BY <1>1, <1>3, <2>1 DEF StreamsInv, OpenInv
<1>9. QED BY <1>5, <1>6, <1>7, <1>8 DEF StreamsInv
(* A trace that fails, and the draining of its streams. *)
LEMMA FailStep == ASSUME StreamsInv, call_fails PROVE StreamsInv'
<1>1. at' = "drain" /\ outcome' = "call_failed" /\ at = "trace"
      /\ UNCHANGED <<stream, event, memory, open, lost, call, trace, dirty, poisoned>>
  BY DEF call_fails
<1>2. TypeInv' BY <1>1 DEF StreamsInv, TypeInv
<1>3. OrderInv' /\ RecordInv' /\ WaitInv' /\ MemoryInv'
  BY <1>1 DEF OrderInv, RecordInv, WaitInv, MemoryInv
<1>4. QuietInv' /\ OpenInv' BY <1>1 DEF StreamsInv, QuietInv, OpenInv
<1>5. QED BY <1>2, <1>3, <1>4 DEF StreamsInv

(* The drain leaves the streams empty or the workspace poisoned. *)
LEMMA DrainStep == ASSUME StreamsInv, drain PROVE StreamsInv'
<1>1. at' = "idle" /\ at = "drain" /\ poisoned' \in BOOLEAN /\ (~poisoned' => Empty)
      /\ UNCHANGED <<stream, event, memory, open, lost, call, trace, outcome, dirty>>
  <2>1. at' = "idle" /\ at = "drain"
        /\ UNCHANGED <<stream, event, memory, open, lost, call, trace, outcome, dirty>>
    BY DEF drain
  <2>2. poisoned' \in BOOLEAN /\ (~poisoned' => Empty)
    <3>1. poisoned \in BOOLEAN BY Zenon DEF StreamsInv, TypeInv
    <3>2. CASE quiet /\ poisoned' = poisoned
      BY <3>1, <3>2, Zenon DEF quiet, Empty
    <3>3. CASE poisoned' = TRUE
      BY <3>3, Zenon
    <3>4. QED BY <3>2, <3>3 DEF drain
  <2>3. QED BY <2>1, <2>2
<1>2. TypeInv' BY <1>1 DEF StreamsInv, TypeInv
<1>3. OrderInv' /\ RecordInv' /\ WaitInv' /\ MemoryInv'
  BY <1>1 DEF OrderInv, RecordInv, WaitInv, MemoryInv
<1>4. QuietInv' /\ OpenInv' BY <1>1 DEF StreamsInv, QuietInv, OpenInv, Empty
<1>5. QED BY <1>2, <1>3, <1>4 DEF StreamsInv

(* A trace that returns has executed everything it gave. *)
LEMMA ReturnStep == ASSUME StreamsInv, return PROVE StreamsInv'
<1>1. at = "trace" /\ call = 23 /\ at' = "idle" /\ outcome' \in {"returned", "conversion_failed"}
      /\ UNCHANGED <<stream, event, memory, open, lost, call, trace, poisoned>>
  BY CallsAt DEF return
<1>2. dirty' \in BOOLEAN
  <2>1. dirty \in BOOLEAN BY Zenon DEF StreamsInv, TypeInv
  <2>2. QED BY <2>1, Zenon DEF return
<1>3. Given("compute")[23] = 13 /\ Given("transfer")[23] = 5 BY DEF Given
<1>4. Done("transfer") = 5 /\ Done("compute") = 13
  BY <1>1 DEF StreamsInv, WaitInv
<1>5. Done("transfer") + Len(stream["transfer"]) = 5 /\ Done("compute") + Len(stream["compute"]) = 13
  BY <1>1, <1>3, Pending DEF StreamsInv, Streams
<1>6. Len(stream["transfer"]) \in Nat /\ Len(stream["compute"]) \in Nat
  BY Typed DEF StreamsInv, Streams
<1>7. Len(stream["transfer"]) = 0 /\ Len(stream["compute"]) = 0
  BY <1>4, <1>5, <1>6
<1>8. Empty BY <1>7 DEF Empty, Streams, StreamsInv, TypeInv
<1>9. memory["final"] = <<trace, "terminated">>
  BY <1>1, <1>4 DEF StreamsInv, MemoryInv
<1>10. TypeInv' BY <1>1, <1>2 DEF StreamsInv, TypeInv
<1>11. OrderInv' /\ RecordInv' /\ WaitInv' /\ MemoryInv'
  BY <1>1 DEF OrderInv, RecordInv, WaitInv, MemoryInv
<1>12. QuietInv' /\ OpenInv'
  BY <1>1, <1>8, <1>9 DEF StreamsInv, QuietInv, OpenInv, Empty
<1>13. QED BY <1>10, <1>11, <1>12 DEF StreamsInv

(* The steps of a close and of a destruction, which touch neither the streams
   nor the memory. *)
LEMMA EndStep ==
  ASSUME StreamsInv, at \notin {"trace", "drain"}, at' \notin {"trace", "drain"},
         at' \in {"idle", "close_compute", "close_transfer", "close_rest", "destroy", "closed"},
         call' \in 0 .. 23, at' = "destroy" => call' \in 1 .. 4,
         open' \subseteq Storage, OpenInv',
         UNCHANGED <<stream, event, memory, lost, trace, outcome, dirty, poisoned>>
  PROVE  StreamsInv'
<1>1. TypeInv' BY DEF StreamsInv, TypeInv
<1>2. OrderInv' /\ RecordInv' /\ WaitInv' /\ MemoryInv'
  BY DEF OrderInv, RecordInv, WaitInv, MemoryInv
<1>3. QuietInv' BY DEF StreamsInv, QuietInv, Empty
<1>4. QED BY <1>1, <1>2, <1>3 DEF StreamsInv

(* A stream is destroyed once it is quiet or its device is dead. *)
LEMMA CloseStreamStep ==
  ASSUME StreamsInv, NEW s \in Streams, NEW here, NEW next, close_stream(s, here, next),
         here \in {"close_compute", "close_transfer"}, next \in {"close_transfer", "close_rest"}
  PROVE  StreamsInv'
<1>1. at = here /\ at' = next /\ open' \subseteq open /\ open' \in {open, open \ {s}}
      /\ UNCHANGED <<stream, event, memory, lost, call, trace, outcome, dirty, poisoned>>
      /\ (open' # open => stream[s] = << >> \/ lost)
  BY DEF close_stream, synchronized
<1>2. open \subseteq Storage /\ call \in 0 .. 23 BY DEF StreamsInv, TypeInv
<1>3. OpenInv' BY <1>1, <1>2 DEF StreamsInv, OpenInv
<1>4. QED BY <1>1, <1>2, <1>3, EndStep

(* What the streams used is released once both are gone. *)
LEMMA CloseRestStep == ASSUME StreamsInv, close_rest PROVE StreamsInv'
<1>1. at = "close_rest" /\ at' \in {"idle", "closed"}
      /\ UNCHANGED <<stream, event, memory, lost, call, trace, outcome, dirty, poisoned>>
  BY DEF close_rest
<1>2. open \subseteq Storage /\ call \in 0 .. 23 BY DEF StreamsInv, TypeInv
<1>3. /\ open' \subseteq open
      /\ open \cap Streams # {} => open' = open /\ at' = "idle"
  BY <1>2 DEF close_rest
<1>4. OpenInv' BY <1>1, <1>2, <1>3 DEF StreamsInv, OpenInv
<1>5. QED BY <1>1, <1>2, <1>3, <1>4, EndStep

(* The members go in an order that ends the streams first. *)
LEMMA DestroyStep == ASSUME StreamsInv, destroy PROVE StreamsInv'
<1> DEFINE members == destruction_order[call]
<1>1. at = "destroy" /\ call \in 1 .. 4 /\ open \subseteq Storage
  BY DEF StreamsInv, TypeInv, destroy
<1>2. open' = open \ members /\ (\A s \in members \cap Streams \cap open : synchronized(s))
      /\ UNCHANGED <<stream, event, memory, lost, trace, outcome, dirty, poisoned>>
  BY DEF destroy
<1>3. \/ call = 4 /\ at' = "closed" /\ call' = call
      \/ call # 4 /\ at' = at /\ call' = call + 1
  BY DEF destroy, destruction_order
<1>4. /\ call = 1 => members = {"transfer"}
      /\ call = 2 => members = {"compute"}
      /\ call > 2 => "transfer" \notin members /\ "compute" \notin members
  BY <1>1 DEF destruction_order, Events, Buffers
<1> HIDE DEF members
<1>5. \A s \in Streams : s \notin open' => stream[s] = << >> \/ lost
  BY <1>2 DEF StreamsInv, OpenInv, synchronized
<1>6. "transfer" \notin open' BY <1>1, <1>2, <1>4 DEF StreamsInv, OpenInv
<1>7. call > 1 => "compute" \notin open'
  BY <1>1, <1>2, <1>4 DEF StreamsInv, OpenInv
<1>8. call = 1 => open' = open \ {"transfer"} BY <1>2, <1>4
<1>9. open' \cap Streams # {} => Storage \ Streams \subseteq open'
  BY <1>1, <1>6, <1>7, <1>8 DEF StreamsInv, OpenInv, Streams
<1>10. OpenInv' BY <1>1, <1>2, <1>3, <1>5, <1>6, <1>7, <1>9 DEF OpenInv, Streams
<1>11. open' \subseteq Storage BY <1>1, <1>2
<1>12. QED BY <1>1, <1>2, <1>3, <1>10, <1>11, EndStep

(* A new workspace starts on the streams the old one left empty. *)
LEMMA CreateStep == ASSUME StreamsInv, create PROVE StreamsInv'
<1>1. at = "closed" /\ ~lost /\ at' = "idle" /\ open' = Storage /\ outcome' = "none"
      /\ UNCHANGED <<stream, lost, call, trace>>
      /\ memory' = [c \in Cells |-> Nothing]
      /\ event' = [e \in Events |-> [recorded |-> 0, executed |-> 0]]
  BY DEF create
<1>2. dirty' \in BOOLEAN /\ poisoned' \in BOOLEAN BY Zenon DEF create
<1>3. Empty BY <1>1 DEF StreamsInv, OpenInv, Empty
<1>4. \A s \in Streams : Len(stream'[s]) = 0 BY <1>1, <1>3 DEF Empty
<1>5. event' \in [Events -> [recorded : Nat, executed : Nat]]
        /\ \A e \in Events : event'[e].executed <= event'[e].recorded
  BY <1>1
<1>6. TypeInv' BY <1>1, <1>2, <1>4, <1>5 DEF StreamsInv, TypeInv
<1>7. OrderInv' /\ RecordInv' /\ WaitInv' /\ MemoryInv'
  BY <1>1 DEF OrderInv, RecordInv, WaitInv, MemoryInv
<1>8. QuietInv' BY <1>1, <1>3 DEF QuietInv, Empty
<1>9. OpenInv' BY <1>1 DEF OpenInv, Storage
<1>10. QED BY <1>6, <1>7, <1>8, <1>9 DEF StreamsInv

(* A device that faults executes nothing any more. *)
LEMMA FaultStep == ASSUME StreamsInv, fault PROVE StreamsInv'
<1>1. lost' = TRUE
      /\ UNCHANGED <<stream, event, memory, open, at, call, trace, outcome, dirty, poisoned>>
  BY DEF fault
<1>2. TypeInv'
  <2>1. lost' \in BOOLEAN /\ dirty' \in BOOLEAN /\ poisoned' \in BOOLEAN
    BY <1>1, Zenon DEF StreamsInv, TypeInv
  <2>2. QED BY <1>1, <2>1 DEF StreamsInv, TypeInv
<1>3. OrderInv' /\ RecordInv' /\ WaitInv' /\ MemoryInv'
  BY <1>1 DEF StreamsInv, OrderInv, RecordInv, WaitInv, MemoryInv, Done
<1>4. QuietInv' /\ OpenInv' BY <1>1 DEF StreamsInv, QuietInv, OpenInv, Empty
<1>5. QED BY <1>2, <1>3, <1>4 DEF StreamsInv

(* Together the parts are inductive. *)
LEMMA StreamsNext == StreamsInv /\ [Next]_vars => StreamsInv'
<1> SUFFICES ASSUME StreamsInv, [Next]_vars PROVE StreamsInv'
  OBVIOUS
<1>1. CASE begin_trace
  BY <1>1, BeginStep
<1>2. CASE call_enqueues
  BY <1>2, EnqueueStep
<1>3. CASE call_synchronizes
  BY <1>3, SynchronizeStep
<1>4. CASE call_fails
  BY <1>4, FailStep
<1>5. CASE return
  BY <1>5, ReturnStep
<1>6. CASE drain
  BY <1>6, DrainStep
<1>7. CASE begin_close
  <2>1. OpenInv' /\ open \subseteq Storage /\ call \in 0 .. 23
    BY <1>7 DEF begin_close, StreamsInv, OpenInv, TypeInv
  <2>2. QED BY <1>7, <2>1, EndStep DEF begin_close
<1>8. CASE close_stream("compute", "close_compute", "close_transfer")
  BY <1>8, CloseStreamStep DEF Streams
<1>9. CASE close_stream("transfer", "close_transfer", "close_rest")
  BY <1>9, CloseStreamStep DEF Streams
<1>10. CASE close_rest
  BY <1>10, CloseRestStep
<1>11. CASE begin_destruction
  <2>1. OpenInv' /\ open \subseteq Storage
    BY <1>11 DEF begin_destruction, StreamsInv, OpenInv, TypeInv
  <2>2. QED BY <1>11, <2>1, EndStep DEF begin_destruction
<1>12. CASE destroy
  BY <1>12, DestroyStep
<1>13. CASE create
  BY <1>13, CreateStep
<1>14. CASE fault
  BY <1>14, FaultStep
<1>15. ASSUME NEW s \in Streams, execute(s) PROVE StreamsInv'
  BY <1>15, ExecuteStep
<1>16. CASE UNCHANGED vars
  BY <1>16 DEF vars, StreamsInv, TypeInv, OrderInv, RecordInv, WaitInv, MemoryInv, QuietInv,
    OpenInv, Empty, Done
<1>17. QED
  BY <1>1, <1>2, <1>3, <1>4, <1>5, <1>6, <1>7, <1>8, <1>9, <1>10, <1>11, <1>12, <1>13, <1>14,
    <1>15, <1>16 DEF Next, Host, Device

------------------------------------------------------
(* For any number of traces: the streams hold the rest of their trace in
   order, and the buffers and columns what that much of the trace put there. *)
THEOREM SpecStreamsInv == Spec => []StreamsInv
  BY StreamsInit, StreamsNext, PTL DEF Spec

(* A trace that returns has read what it computed itself, and the host rejects
   no slot, however earlier traces failed (execute_async_locked). *)
THEOREM SpecReadsItsOwnTrace == Spec => []ReadsItsOwnTrace
<1>1. StreamsInv => ReadsItsOwnTrace
  BY DEF StreamsInv, TypeInv, QuietInv, ReadsItsOwnTrace
<1>2. QED BY <1>1, SpecStreamsInv, PTL

(* No stream, event, buffer or column is released while an operation that uses
   it may still execute (the close and the destructor of the storage). *)
THEOREM SpecNothingReleasedInUse == Spec => []NothingReleasedInUse
<1>1. ASSUME StreamsInv PROVE NothingReleasedInUse
  <2> SUFFICES ASSUME ~lost, NEW s \in Streams, NEW i \in DOMAIN stream[s]
               PROVE  uses(stream[s][i]) \cup {s} \subseteq open
    BY DEF NothingReleasedInUse
  <2>1. stream[s] \in Seq(Operation) /\ i \in 1 .. Len(stream[s])
    BY <1>1 DEF StreamsInv, TypeInv
  <2>2. s \in open /\ Storage \ Streams \subseteq open
    BY <1>1, <2>1 DEF StreamsInv, OpenInv
  <2>3. stream[s][i] \in Operation
          /\ (stream[s][i].do \in {"record", "wait"} => stream[s][i].event \in Events)
    BY <1>1, <2>1, Typed DEF StreamsInv
  <2> DEFINE op == stream[s][i]
  <2>4. op \in Operation /\ (op.do \in {"record", "wait"} => op.event \in Events)
    BY <2>3
  <2> HIDE DEF op
  <2>5. uses(op) \subseteq Storage \ Streams
    BY <2>4 DEF uses, Operation, Storage, Streams, Events, Buffers
  <2>6. QED BY <2>2, <2>5 DEF op
<1>2. QED BY <1>1, SpecStreamsInv, PTL

(* Between traces both streams are empty, unless the workspace is poisoned
   (the drain guard of a trace and the checks that begin one). *)
THEOREM SpecQuietUnlessPoisoned == Spec => []QuietUnlessPoisoned
<1>1. StreamsInv => QuietUnlessPoisoned
  BY DEF StreamsInv, QuietInv, Empty, QuietUnlessPoisoned
<1>2. QED BY <1>1, SpecStreamsInv, PTL
------------------------------------------------------
(* The owners of native resources (CudaHostResources). *)
NoMemory == Resources!Empty

Handles == 1 .. created

Allocations == {NoMemory} \cup [data : Handles, device : Devices, size_bytes : Nat]

OwnerTypes ==
    /\ active \in Devices
    /\ created \in Nat
    /\ refused \subseteq Handles
    /\ scratch \in [allocation : Allocations, capacity_bytes : Nat, used_bytes : Nat]
    /\ pinned \in Allocations
    /\ timing \in [begin : Handles \cup {None}, end : Handles \cup {None},
                   device : Devices \cup {None}]
    /\ timing = Resources!EmptyPair \/ timing.device \in Devices

(* No resource has two owners. *)
Distinct ==
    /\ scratch.allocation.data # None =>
          scratch.allocation.data \notin {pinned.data, timing.begin, timing.end}
    /\ pinned.data # None => pinned.data \notin {timing.begin, timing.end}
    /\ timing.begin # None => timing.begin # timing.end

SliceInv ==
    /\ scratch.capacity_bytes = scratch.allocation.size_bytes
    /\ scratch.used_bytes <= scratch.capacity_bytes
    /\ \A s \in slices : /\ s.data = scratch.allocation.data /\ s.data # None
                         /\ s.from \in Nat /\ s.to \in Nat
                         /\ s.from < s.to /\ s.to <= scratch.used_bytes
    /\ \A s, t \in slices : s = t \/ s.to <= t.from \/ t.to <= s.from

OwnersInv == OwnerTypes /\ Distinct /\ SliceInv /\ Resources!ReleasedOnce

------------------------------------------------------
(* What an allocation is, and what the calls on one answer. *)
LEMMA AllocationTypes ==
  ASSUME Resources!CudaHostResourcesAssumption, created \in Nat, NEW a \in Allocations
  PROVE  /\ a.size_bytes \in Nat
         /\ a.data = None <=> a = NoMemory
         /\ a.data = None => a.size_bytes = 0
         /\ a.data # None => a.data \in Handles /\ a.device \in Devices
  BY DEF Allocations, NoMemory, Handles, Resources!Empty, Resources!CudaHostResourcesAssumption

(* A close releases what it owned and forgets it, or keeps it. *)
LEMMA ClosedOnce ==
  ASSUME NEW here, NEW a, NEW no
  PROVE  LET c == Resources!closed(here, a, no) IN
         /\ c.active \in {here, a.device} /\ (a.data = None => c.active = here)
         /\ \/ c.owner = a /\ c.released = {}
            \/ a.data # None /\ c.owner = NoMemory /\ c.released = {a.data}
         /\ c.ok => \/ a.data = None
                    \/ c.owner = NoMemory /\ c.released = {a.data}
  BY DEF Resources!closed, Resources!active_after, NoMemory

(* A destructor releases what it owned, or leaves it to the refused. *)
LEMMA DroppedOnce ==
  ASSUME NEW here, NEW a, NEW no
  PROVE  LET d == Resources!dropped_memory(here, a, no) IN
         /\ d.active \in {here, a.device} /\ (a.data = None => d.active = here)
         /\ \/ a.data = None /\ d.released = {} /\ d.refused = {}
            \/ a.data # None /\ d.released = {a.data} /\ d.refused = {}
            \/ a.data # None /\ d.released = {} /\ d.refused = {a.data}
  BY DEF Resources!dropped_memory, Resources!active_after

(* An allocation makes nothing, or a new resource it returns or, when it fails
   after that, releases or leaves to the refused. *)
LEMMA AllocatedOnce ==
  ASSUME Resources!CudaHostResourcesAssumption, created \in Nat, active \in Devices,
         NEW device \in Devices, NEW bytes \in Nat, NEW no, NEW cleanup, NEW last
  PROVE  LET a == Resources!allocated_on(device, bytes, no, cleanup, last) IN
         /\ a.active \in Devices
         /\ \/ ~a.ok /\ a.made = {} /\ a.released = {} /\ a.refused = {}
            \/ /\ a.ok /\ a.made = {created + 1} /\ a.released = {} /\ a.refused = {}
               /\ a.allocation = [data |-> created + 1, device |-> device, size_bytes |-> bytes]
            \/ ~a.ok /\ a.made = {created + 1} /\ a.released = {created + 1} /\ a.refused = {}
            \/ ~a.ok /\ a.made = {created + 1} /\ a.released = {} /\ a.refused = {created + 1}
<1> DEFINE owner == [data |-> created + 1, device |-> device, size_bytes |-> bytes]
           u == Resources!allocated_unrestored(device, bytes, cleanup, last)
<1>1. owner.data = created + 1 /\ owner.data # None /\ owner.device = device
  BY DEF Resources!CudaHostResourcesAssumption
<1>2. NoMemory.data = None BY DEF NoMemory, Resources!Empty
<1>3. /\ u.active \in Devices /\ ~u.ok /\ u.made = {created + 1}
      /\ \/ u.released = {created + 1} /\ u.refused = {}
         \/ u.released = {} /\ u.refused = {created + 1}
  <2> DEFINE c == Resources!closed(device, owner, cleanup)
             d == Resources!dropped_memory(c.active, c.owner, last)
  <2>1. /\ u.active = d.active /\ ~u.ok /\ u.made = {created + 1}
        /\ u.released = c.released \cup d.released /\ u.refused = d.refused
    BY DEF Resources!allocated_unrestored
  <2>2. /\ c.active \in {device, owner.device}
        /\ \/ c.owner = owner /\ c.released = {}
           \/ c.owner = NoMemory /\ c.released = {owner.data}
    BY ClosedOnce
  <2>3. /\ d.active \in {c.active, c.owner.device}
        /\ (c.owner.data = None => d.active = c.active)
        /\ \/ c.owner.data = None /\ d.released = {} /\ d.refused = {}
           \/ c.owner.data # None /\ d.released = {c.owner.data} /\ d.refused = {}
           \/ c.owner.data # None /\ d.released = {} /\ d.refused = {c.owner.data}
    BY DroppedOnce
  <2> HIDE DEF c, d, u, owner
  <2>4. CASE c.owner = owner /\ c.released = {}
    BY <1>1, <2>1, <2>2, <2>3, <2>4
  <2>5. CASE c.owner = NoMemory /\ c.released = {owner.data}
    BY <1>1, <1>2, <2>1, <2>2, <2>3, <2>5
  <2>6. QED BY <2>2, <2>4, <2>5
<1> HIDE DEF u
<1>4. Resources!active_after(active, device, no) \in Devices
  BY DEF Resources!active_after
<1>5. QED BY <1>3, <1>4 DEF Resources!allocated_on, u

(* The resources an allocation made are counted. *)
LEMMA Made ==
  ASSUME created \in Nat, NEW result, result.made \in {{}, {created + 1}}, Resources!makes(result)
  PROVE  created' = (IF result.made = {} THEN created ELSE created + 1)
<1>1. Cardinality({}) = 0 /\ Cardinality({created + 1}) = 1
  BY FS_EmptySet, FS_Singleton
<1>2. \A made : Resources!Cardinality(made) = Cardinality(made)
  BY DEF Resources!Cardinality, Cardinality
<1>3. created' = created + Cardinality(result.made) BY <1>2 DEF Resources!makes
<1>4. CASE result.made = {}
  BY <1>1, <1>3, <1>4
<1>5. CASE result.made = {created + 1}
  BY <1>1, <1>3, <1>5
<1>6. QED BY <1>4, <1>5
(* What the invariant says of the four handles that owners hold. *)
LEMMA OwnerFacts ==
  ASSUME Resources!CudaHostResourcesAssumption, OwnersInv
  PROVE  /\ created \in Nat /\ active \in Devices /\ refused \subseteq Handles
         /\ scratch.allocation \in Allocations /\ pinned \in Allocations
         /\ scratch.capacity_bytes \in Nat /\ scratch.used_bytes \in Nat
         /\ {scratch.allocation.data, pinned.data, timing.begin, timing.end} \subseteq Handles \cup {None}
         /\ \A h \in Handles : h # None /\ h # created + 1 /\ h # created + 2 /\ h \in Nat
         /\ created + 1 # None /\ created + 2 # None
         /\ live = ({scratch.allocation.data, pinned.data, timing.begin, timing.end} \ {None}) \cup refused
         /\ ({scratch.allocation.data, pinned.data, timing.begin, timing.end} \ {None}) \cap refused = {}
<1>1. created \in Nat /\ active \in Devices /\ refused \subseteq Handles
        /\ scratch \in [allocation : Allocations, capacity_bytes : Nat, used_bytes : Nat]
        /\ pinned \in Allocations
  BY DEF OwnersInv, OwnerTypes
<1>2. timing \in [begin : Handles \cup {None}, end : Handles \cup {None},
                  device : Devices \cup {None}]
  BY DEF OwnersInv, OwnerTypes
<1>3. \A h \in Handles : h # None /\ h # created + 1 /\ h # created + 2 /\ h \in Nat
  BY <1>1 DEF Handles, Resources!CudaHostResourcesAssumption
<1>4. created + 1 # None /\ created + 2 # None
  BY <1>1 DEF Resources!CudaHostResourcesAssumption
<1>5. Resources!owned = {scratch.allocation.data, pinned.data, timing.begin, timing.end} \ {None}
  BY DEF Resources!owned, Resources!events
<1>6. scratch.allocation \in Allocations /\ scratch.capacity_bytes \in Nat
        /\ scratch.used_bytes \in Nat
  BY <1>1
<1>7. scratch.allocation.data \in Handles \cup {None} /\ pinned.data \in Handles \cup {None}
  BY <1>1, <1>6, AllocationTypes
<1>8. timing.begin \in Handles \cup {None} /\ timing.end \in Handles \cup {None}
  BY <1>2
<1>9. QED BY <1>1, <1>3, <1>4, <1>5, <1>6, <1>7, <1>8 DEF OwnersInv, Resources!ReleasedOnce

(* Later there are more handles, and what was an allocation still is one. *)
LEMMA MoreHandles ==
  ASSUME created \in Nat, created' \in {created, created + 1, created + 2}
  PROVE  /\ created' \in Nat /\ Handles \subseteq Handles'
         /\ Allocations \subseteq Allocations'
         /\ created' # created => created + 1 \in Handles'
         /\ created' = created + 2 => created + 2 \in Handles'
  BY DEF Handles, Allocations

(* The invariant after a step, part by part. *)
LEMMA OwnersAfter ==
  ASSUME OwnerTypes', Distinct', SliceInv',
         live' = (({scratch'.allocation.data, pinned'.data, timing'.begin, timing'.end} \ {None})
                     \cup refused'),
         ({scratch'.allocation.data, pinned'.data, timing'.begin, timing'.end} \ {None})
            \cap refused' = {}
  PROVE  OwnersInv'
<1>1. Resources!owned' =
         ({scratch'.allocation.data, pinned'.data, timing'.begin, timing'.end} \ {None})
  BY DEF Resources!owned, Resources!events
<1>2. QED BY <1>1 DEF OwnersInv, Resources!ReleasedOnce

(* At first nothing exists and nothing is owned. *)
LEMMA OwnersInit ==
  ASSUME Resources!CudaHostResourcesAssumption, Resources!Init
  PROVE  OwnersInv
<1> USE DEF Resources!Init, Resources!EmptyBuffer, Resources!Empty, Resources!EmptyPair,
  NoMemory
<1>1. OwnerTypes BY DEF OwnerTypes, Allocations
<1>2. Distinct /\ SliceInv BY DEF Distinct, SliceInv
<1>3. Resources!ReleasedOnce
  BY DEF Resources!ReleasedOnce, Resources!owned, Resources!events
<1>4. QED BY <1>1, <1>2, <1>3 DEF OwnersInv

(* The steps that leave pinned memory and events alone, given what becomes of
   the scratch buffer's storage: it stays, it goes, or a new one replaces it. *)
LEMMA ScratchStep ==
  ASSUME Resources!CudaHostResourcesAssumption, OwnersInv,
         created' \in {created, created + 1}, active' \in Devices,
         scratch' \in [allocation : Allocations', capacity_bytes : Nat, used_bytes : Nat],
         UNCHANGED <<pinned, timing>>, SliceInv',
         refused' \subseteq Handles',
         scratch'.allocation.data \in {None, scratch.allocation.data, created + 1},
         live' = (({scratch'.allocation.data, pinned.data, timing.begin, timing.end} \ {None})
                     \cup refused'),
         ({scratch'.allocation.data, pinned.data, timing.begin, timing.end} \ {None})
            \cap refused' = {}
  PROVE  OwnersInv'
<1>1. /\ created' \in Nat /\ Handles \subseteq Handles' /\ Allocations \subseteq Allocations'
  BY MoreHandles, OwnerFacts
<1>2. OwnerTypes' BY <1>1 DEF OwnersInv, OwnerTypes
<1>3. Distinct' BY OwnerFacts DEF OwnersInv, Distinct
<1>4. QED BY <1>2, <1>3, OwnersAfter
(* Without storage, or without use, nothing has been handed out. *)
LEMMA NoSlices ==
  ASSUME Resources!CudaHostResourcesAssumption, OwnersInv,
         scratch.used_bytes = 0 \/ scratch.allocation = NoMemory
  PROVE  slices = {}
<1>1. SliceInv /\ created \in Nat /\ scratch.allocation \in Allocations
        /\ scratch.used_bytes \in Nat
  BY OwnerFacts DEF OwnersInv
<1>2. scratch.allocation = NoMemory => scratch.allocation.size_bytes = 0
  BY DEF NoMemory, Resources!Empty
<1>3. scratch.used_bytes = 0 BY <1>1, <1>2 DEF SliceInv
<1>4. QED BY <1>1, <1>3 DEF SliceInv

(* The storage of a new buffer is the one resource that was made. *)
LEMMA CreateScratchStep ==
  ASSUME Resources!CudaHostResourcesAssumption, OwnersInv, NEW bytes \in Nat,
         Resources!create_scratch(bytes)
  PROVE  OwnersInv'
<1>1. PICK no : LET a == Resources!allocated_on(active, bytes, no, {}, {})
                IN  /\ scratch = Resources!EmptyBuffer
                    /\ Resources!makes(a)
                    /\ live' = (live \cup a.made) \ a.released
                    /\ refused' = refused \cup a.refused
                    /\ active' = a.active
                    /\ scratch' = IF a.ok THEN [allocation |-> a.allocation, capacity_bytes |-> bytes,
                                                used_bytes |-> 0]
                                          ELSE scratch
                    /\ UNCHANGED <<slices, pinned, timing>>
  BY DEF Resources!create_scratch
<1> DEFINE a == Resources!allocated_on(active, bytes, no, {}, {})
<1>2. /\ Resources!makes(a) /\ live' = (live \cup a.made) \ a.released
      /\ refused' = refused \cup a.refused /\ active' = a.active
      /\ scratch' = IF a.ok THEN [allocation |-> a.allocation, capacity_bytes |-> bytes,
                                  used_bytes |-> 0]
                    ELSE scratch
      /\ UNCHANGED <<slices, pinned, timing>>
  BY <1>1
<1>3. scratch.allocation = NoMemory /\ scratch.allocation.data = None
  BY <1>1 DEF Resources!EmptyBuffer, Resources!Empty, NoMemory
<1>4. slices = {} BY <1>3, NoSlices
<1>5. /\ a.active \in Devices
      /\ \/ ~a.ok /\ a.made = {} /\ a.released = {} /\ a.refused = {}
         \/ /\ a.ok /\ a.made = {created + 1} /\ a.released = {} /\ a.refused = {}
            /\ a.allocation = [data |-> created + 1, device |-> active, size_bytes |-> bytes]
         \/ ~a.ok /\ a.made = {created + 1} /\ a.released = {created + 1} /\ a.refused = {}
         \/ ~a.ok /\ a.made = {created + 1} /\ a.released = {} /\ a.refused = {created + 1}
  BY AllocatedOnce, OwnerFacts
<1> HIDE DEF a
<1>6. created' = (IF a.made = {} THEN created ELSE created + 1)
  BY <1>2, <1>5, Made, OwnerFacts
<1>7. /\ created' \in {created, created + 1} /\ Handles \subseteq Handles'
      /\ Allocations \subseteq Allocations' /\ (a.made # {} => created + 1 \in Handles')
  BY <1>5, <1>6, MoreHandles, OwnerFacts
<1>8. /\ scratch' \in [allocation : Allocations', capacity_bytes : Nat, used_bytes : Nat]
      /\ scratch'.allocation.data \in {None, created + 1}
      /\ scratch'.capacity_bytes = scratch'.allocation.size_bytes
      /\ scratch'.used_bytes <= scratch'.capacity_bytes
  <2>1. CASE a.ok
    <3>1. /\ a.allocation \in [data : Handles', device : Devices, size_bytes : Nat]
          /\ scratch' = [allocation |-> a.allocation, capacity_bytes |-> bytes, used_bytes |-> 0]
      BY <1>2, <1>5, <1>7, <2>1, OwnerFacts
    <3>2. a.allocation \in Allocations' BY <3>1 DEF Allocations
    <3>3. QED BY <1>5, <2>1, <3>1, <3>2
  <2>2. CASE ~a.ok
    BY <1>2, <1>3, <1>7, <2>2 DEF OwnersInv, OwnerTypes, SliceInv
  <2>3. QED BY <2>1, <2>2
<1>9. SliceInv' BY <1>2, <1>4, <1>8 DEF SliceInv
<1>10. a.ok => scratch'.allocation.data = created + 1 BY <1>2, <1>5
<1>11. ~a.ok => scratch'.allocation.data = None BY <1>2, <1>3
<1>12. /\ live' = (({scratch'.allocation.data, pinned.data, timing.begin, timing.end} \ {None})
                   \cup refused')
       /\ ({scratch'.allocation.data, pinned.data, timing.begin, timing.end} \ {None})
            \cap refused' = {}
       /\ refused' \subseteq Handles'
  BY <1>2, <1>3, <1>5, <1>7, <1>10, <1>11, OwnerFacts
<1>13. QED BY <1>2, <1>5, <1>7, <1>8, <1>9, <1>12, ScratchStep

(* Growth has two owners for a moment; one of them is dropped or adopted. *)
LEMMA GrowStep ==
  ASSUME Resources!CudaHostResourcesAssumption, OwnersInv, NEW bytes \in Nat,
         Resources!grow(bytes)
  PROVE  OwnersInv'
<1> DEFINE device == Resources!growth_device
<1>1. PICK no, second, third \in Resources!Refusals(device) :
        LET a == Resources!allocated_on(device, bytes, no, second, third)
            c == Resources!closed(a.active, scratch.allocation, second)
            d == Resources!dropped_memory(c.active, a.allocation, third)
        IN  /\ Resources!makes(a)
            /\ \/ /\ ~a.ok
                  /\ live' = (live \cup a.made) \ a.released
                  /\ refused' = refused \cup a.refused
                  /\ active' = a.active
                  /\ scratch' = scratch
               \/ /\ a.ok
                  /\ ~c.ok
                  /\ live' = (live \cup a.made) \ (c.released \cup d.released)
                  /\ refused' = refused \cup d.refused
                  /\ active' = d.active
                  /\ scratch' = Resources!emptied([scratch EXCEPT !.allocation = c.owner])
               \/ /\ a.ok
                  /\ c.ok
                  /\ live' = (live \cup a.made) \ c.released
                  /\ refused' = refused
                  /\ active' = c.active
                  /\ scratch' = [scratch EXCEPT !.allocation = a.allocation,
                                                !.capacity_bytes = bytes]
            /\ slices' = IF scratch'.allocation = scratch.allocation THEN slices ELSE {}
            /\ Resources!returns("reserve", a.ok /\ c.ok)
            /\ UNCHANGED <<pinned, timing>>
  BY Zenon DEF Resources!grow
<1> DEFINE a == Resources!allocated_on(device, bytes, no, second, third)
           c == Resources!closed(a.active, scratch.allocation, second)
           d == Resources!dropped_memory(c.active, a.allocation, third)
           old == scratch.allocation
<1>2. scratch.used_bytes = 0 /\ Resources!makes(a) /\ UNCHANGED <<pinned, timing>>
        /\ slices' \in {slices, {}}
  BY <1>1 DEF Resources!grow
<1>3. \/ /\ ~a.ok /\ live' = (live \cup a.made) \ a.released
         /\ refused' = refused \cup a.refused /\ active' = a.active /\ scratch' = scratch
      \/ /\ a.ok /\ live' = (live \cup a.made) \ (c.released \cup d.released)
         /\ refused' = refused \cup d.refused /\ active' = d.active
         /\ scratch' = Resources!emptied([scratch EXCEPT !.allocation = c.owner])
      \/ /\ a.ok /\ c.ok /\ live' = (live \cup a.made) \ c.released
         /\ refused' = refused /\ active' = c.active
         /\ scratch' = [scratch EXCEPT !.allocation = a.allocation, !.capacity_bytes = bytes]
  BY <1>1
<1>4. slices' = {} BY <1>2, NoSlices
<1>5. device \in Devices
  <2>1. old \in Allocations /\ active \in Devices /\ created \in Nat
    BY OwnerFacts
  <2>2. old # NoMemory => old.device \in Devices BY <2>1, AllocationTypes
  <2>3. QED BY <2>1, <2>2 DEF Resources!growth_device, NoMemory
<1> HIDE DEF device
<1>6. /\ a.active \in Devices
      /\ \/ ~a.ok /\ a.made = {} /\ a.released = {} /\ a.refused = {}
         \/ /\ a.ok /\ a.made = {created + 1} /\ a.released = {} /\ a.refused = {}
            /\ a.allocation = [data |-> created + 1, device |-> device, size_bytes |-> bytes]
         \/ ~a.ok /\ a.made = {created + 1} /\ a.released = {created + 1} /\ a.refused = {}
         \/ ~a.ok /\ a.made = {created + 1} /\ a.released = {} /\ a.refused = {created + 1}
  BY <1>5, AllocatedOnce, OwnerFacts
<1>7. /\ c.active \in {a.active, old.device} /\ (old.data = None => c.active = a.active)
      /\ \/ c.owner = old /\ c.released = {}
         \/ old.data # None /\ c.owner = NoMemory /\ c.released = {old.data}
      /\ c.ok => \/ old.data = None
                 \/ c.owner = NoMemory /\ c.released = {old.data}
  BY ClosedOnce
<1>8. /\ d.active \in {c.active, a.allocation.device}
      /\ \/ a.allocation.data = None /\ d.released = {} /\ d.refused = {}
         \/ a.allocation.data # None /\ d.released = {a.allocation.data} /\ d.refused = {}
         \/ a.allocation.data # None /\ d.released = {} /\ d.refused = {a.allocation.data}
  BY DroppedOnce
<1> HIDE DEF a, c, d
<1>9. created' = (IF a.made = {} THEN created ELSE created + 1)
  BY <1>2, <1>6, Made, OwnerFacts
<1>10. /\ created' \in {created, created + 1} /\ Handles \subseteq Handles'
       /\ Allocations \subseteq Allocations' /\ (a.made # {} => created + 1 \in Handles')
  BY <1>6, <1>9, MoreHandles, OwnerFacts
<1>11. old \in Allocations /\ created \in Nat /\ old.size_bytes \in Nat
         /\ (old.data # None => old.data \in Handles /\ old.device \in Devices)
         /\ (old.data = None <=> old = NoMemory) /\ NoMemory.data = None
         /\ NoMemory.size_bytes = 0
  <2>1. old \in Allocations /\ created \in Nat BY OwnerFacts
  <2>2. QED BY <2>1, AllocationTypes DEF NoMemory, Resources!Empty
<1>12. c.active \in Devices BY <1>6, <1>7, <1>11
<1>13. /\ scratch \in [allocation : Allocations, capacity_bytes : Nat, used_bytes : Nat]
       /\ scratch.capacity_bytes = old.size_bytes /\ scratch.used_bytes = 0
  BY <1>2 DEF OwnersInv, OwnerTypes, SliceInv
<1>14. NoMemory \in Allocations' BY DEF Allocations
<1>15. CASE /\ ~a.ok /\ live' = (live \cup a.made) \ a.released
            /\ refused' = refused \cup a.refused /\ active' = a.active /\ scratch' = scratch
  <2>1. scratch' \in [allocation : Allocations', capacity_bytes : Nat, used_bytes : Nat]
    BY <1>10, <1>13, <1>15
  <2>2. SliceInv' BY <1>4, <1>13, <1>15 DEF SliceInv
  <2>3. /\ live' = (({old.data, pinned.data, timing.begin, timing.end} \ {None}) \cup refused')
        /\ ({old.data, pinned.data, timing.begin, timing.end} \ {None}) \cap refused' = {}
        /\ refused' \subseteq Handles'
    BY <1>6, <1>10, <1>15, OwnerFacts
  <2>4. scratch'.allocation = old BY <1>15
  <2>5. QED BY <1>2, <1>6, <1>10, <1>15, <2>1, <2>2, <2>3, <2>4, ScratchStep
<1>16. CASE /\ a.ok /\ live' = (live \cup a.made) \ (c.released \cup d.released)
            /\ refused' = refused \cup d.refused /\ active' = d.active
            /\ scratch' = Resources!emptied([scratch EXCEPT !.allocation = c.owner])
  <2>1. /\ a.made = {created + 1} /\ a.allocation.data = created + 1 /\ a.allocation.data # None
        /\ a.allocation.device \in Devices /\ created + 1 \in Handles'
    BY <1>5, <1>6, <1>10, <1>16, OwnerFacts
  <2>2. /\ c.owner = old /\ old # NoMemory => scratch' = scratch
        /\ c.owner = NoMemory => scratch' = Resources!EmptyBuffer
    BY <1>13, <1>16 DEF Resources!emptied, NoMemory, Resources!EmptyBuffer
  <2>3. \/ old # NoMemory /\ c.owner = old /\ scratch' = scratch /\ c.released = {}
        \/ /\ c.owner = NoMemory /\ scratch' = Resources!EmptyBuffer
           /\ c.released = {old.data} \ {None}
    <3>1. CASE c.owner = old /\ old # NoMemory
      <4>1. [scratch EXCEPT !.allocation = c.owner] = scratch BY <1>13, <3>1
      <4>2. scratch' = scratch
        BY <1>16, <3>1, <4>1 DEF Resources!emptied, NoMemory
      <4>3. QED BY <1>7, <1>11, <3>1, <4>2
    <3>2. CASE c.owner = NoMemory
      <4>1. scratch' = Resources!EmptyBuffer
        BY <1>13, <1>16, <3>2 DEF Resources!emptied, NoMemory, Resources!EmptyBuffer
      <4>2. QED BY <1>7, <1>11, <3>2, <4>1
    <3>3. QED BY <1>7, <3>1, <3>2
  <2>4. /\ Resources!EmptyBuffer \in [allocation : Allocations', capacity_bytes : Nat, used_bytes : Nat]
        /\ Resources!EmptyBuffer.allocation = NoMemory /\ Resources!EmptyBuffer.capacity_bytes = 0
        /\ Resources!EmptyBuffer.used_bytes = 0
    BY <1>14 DEF Resources!EmptyBuffer, NoMemory
  <2>5. scratch' \in [allocation : Allocations', capacity_bytes : Nat, used_bytes : Nat]
    BY <1>10, <1>13, <2>3, <2>4
  <2>6. SliceInv' BY <1>4, <1>11, <1>13, <2>3, <2>4 DEF SliceInv
  <2>7. scratch'.allocation.data \in {None, old.data} BY <1>11, <2>3, <2>4
  <2>8. \/ d.released = {created + 1} /\ d.refused = {}
        \/ d.released = {} /\ d.refused = {created + 1}
    BY <1>8, <2>1
  <2>9. \/ scratch'.allocation.data = old.data /\ c.released = {}
        \/ scratch'.allocation.data = None /\ c.released = {old.data} \ {None}
    BY <1>11, <2>3, <2>4
  <2>10. old.data # None => old.data \notin {pinned.data, timing.begin, timing.end}
    BY DEF OwnersInv, Distinct
  <2>11. /\ live' = (({scratch'.allocation.data, pinned.data, timing.begin, timing.end} \ {None})
                        \cup refused')
         /\ ({scratch'.allocation.data, pinned.data, timing.begin, timing.end} \ {None})
               \cap refused' = {}
         /\ refused' \subseteq Handles'
    BY <1>10, <1>16, <2>1, <2>8, <2>9, <2>10, OwnerFacts
  <2>12. active' \in Devices BY <1>8, <1>12, <1>16, <2>1
  <2>13. QED BY <1>2, <1>10, <2>5, <2>6, <2>7, <2>11, <2>12, ScratchStep
<1>17. CASE /\ a.ok /\ c.ok /\ live' = (live \cup a.made) \ c.released
            /\ refused' = refused /\ active' = c.active
            /\ scratch' = [scratch EXCEPT !.allocation = a.allocation, !.capacity_bytes = bytes]
  <2>1. /\ a.made = {created + 1} /\ created + 1 \in Handles'
        /\ a.allocation = [data |-> created + 1, device |-> device, size_bytes |-> bytes]
    BY <1>6, <1>10, <1>17
  <2>2. a.allocation \in Allocations'
    <3>1. a.allocation \in [data : Handles', device : Devices, size_bytes : Nat]
      BY <1>5, <2>1
    <3>2. QED BY <3>1 DEF Allocations
  <2>3. /\ scratch' \in [allocation : Allocations', capacity_bytes : Nat, used_bytes : Nat]
        /\ scratch'.allocation = a.allocation /\ scratch'.capacity_bytes = bytes
        /\ scratch'.used_bytes = 0
    BY <1>13, <1>17, <2>2
  <2>4. SliceInv' BY <1>4, <2>1, <2>3 DEF SliceInv
  <2>5. scratch'.allocation.data = created + 1 BY <2>1, <2>3
  <2>6. c.released = {old.data} \ {None} BY <1>7, <1>17
  <2>7. old.data # None => old.data \notin {pinned.data, timing.begin, timing.end}
    BY DEF OwnersInv, Distinct
  <2>8. /\ live' = (({created + 1, pinned.data, timing.begin, timing.end} \ {None})
                        \cup refused')
        /\ ({created + 1, pinned.data, timing.begin, timing.end} \ {None}) \cap refused' = {}
        /\ refused' \subseteq Handles'
    BY <1>10, <1>17, <2>1, <2>6, <2>7, OwnerFacts
  <2>9. QED BY <1>2, <1>10, <1>12, <1>17, <2>3, <2>4, <2>5, <2>8, ScratchStep
<1>18. QED BY <1>3, <1>15, <1>16, <1>17
(* A slice is cut after the padding, from what the storage has left. *)
LEMMA SliceStep ==
  ASSUME Resources!CudaHostResourcesAssumption, OwnersInv, NEW bytes \in Nat,
         NEW alignment \in {1, 2}, Resources!allocate_slice(bytes, alignment)
  PROVE  OwnersInv'
<1> DEFINE pad == Resources!padding(alignment)
           from == scratch.used_bytes + pad
           left == Resources!remaining_bytes
<1>1. scratch \in [allocation : Allocations, capacity_bytes : Nat, used_bytes : Nat]
        /\ SliceInv /\ created \in Nat
  BY DEF OwnersInv, OwnerTypes
<1>2. pad \in Nat
  <2>1. scratch.used_bytes \in Nat BY <1>1
  <2>2. CASE alignment = 1
    BY <2>1, <2>2 DEF Resources!padding
  <2>3. CASE alignment = 2
    BY <2>1, <2>3 DEF Resources!padding
  <2>4. QED BY <2>2, <2>3
<1>3. left = scratch.capacity_bytes - scratch.used_bytes
  BY DEF Resources!remaining_bytes
<1>4. /\ bytes > 0
      /\ UNCHANGED <<active, created, live, refused, pinned, timing>>
      /\ \/ scratch' = scratch /\ slices' = slices
         \/ /\ scratch.allocation # NoMemory /\ pad <= left /\ bytes <= left - pad
            /\ scratch' = [scratch EXCEPT !.used_bytes = from + bytes]
            /\ slices' = slices \cup {[data |-> scratch.allocation.data,
                                       from |-> from, to |-> from + bytes]}
  BY DEF Resources!allocate_slice, NoMemory
<1> HIDE DEF pad, left
<1>5. CASE scratch' = scratch /\ slices' = slices
  BY <1>4, <1>5 DEF OwnersInv, OwnerTypes, Handles, Allocations, Distinct, SliceInv,
    Resources!ReleasedOnce, Resources!owned, Resources!events
<1>6. CASE /\ scratch.allocation # NoMemory /\ pad <= left /\ bytes <= left - pad
           /\ scratch' = [scratch EXCEPT !.used_bytes = from + bytes]
           /\ slices' = slices \cup {[data |-> scratch.allocation.data,
                                      from |-> from, to |-> from + bytes]}
  <2>1. /\ scratch' \in [allocation : Allocations, capacity_bytes : Nat, used_bytes : Nat]
        /\ scratch'.allocation = scratch.allocation
        /\ scratch'.capacity_bytes = scratch.capacity_bytes
        /\ scratch'.used_bytes = from + bytes
    BY <1>1, <1>2, <1>6
  <2>2. from \in Nat /\ scratch.used_bytes <= from /\ from < from + bytes
          /\ from + bytes <= scratch.capacity_bytes
    <3>1. scratch.used_bytes \in Nat /\ scratch.capacity_bytes \in Nat BY <1>1
    <3>2. QED BY <1>2, <1>3, <1>4, <1>6, <3>1
  <2>3. scratch.allocation.data # None BY <1>1, <1>6, AllocationTypes
  <2> DEFINE slice == [data |-> scratch.allocation.data, from |-> from, to |-> from + bytes]
  <2>4. /\ slice.data = scratch.allocation.data /\ slice.from = from /\ slice.to = from + bytes
        /\ slices' = slices \cup {slice}
    BY <1>6
  <2> HIDE DEF slice, from
  <2>5. \A s \in slices : /\ s.data = scratch.allocation.data /\ s.data # None
                          /\ s.from \in Nat /\ s.to \in Nat
                          /\ s.from < s.to /\ s.to <= scratch.used_bytes
    BY <1>1 DEF SliceInv
  <2>6. scratch.used_bytes \in Nat BY <1>1
  <2>7. ASSUME NEW s \in slices'
        PROVE  /\ s.data = scratch.allocation.data /\ s.data # None
               /\ s.from \in Nat /\ s.to \in Nat
               /\ s.from < s.to /\ s.to <= from + bytes
    BY <2>2, <2>3, <2>4, <2>5, <2>6
  <2>8. \A s \in slices : s.to <= slice.from BY <2>2, <2>4, <2>5, <2>6
  <2>9. \A s, t \in slices' : s = t \/ s.to <= t.from \/ t.to <= s.from
    BY <1>1, <2>4, <2>8 DEF SliceInv
  <2>10. SliceInv' BY <1>1, <2>1, <2>2, <2>7, <2>9 DEF SliceInv
  <2>11. /\ Handles' = Handles /\ Allocations' = Allocations
    BY <1>4 DEF Handles, Allocations
  <2>12. live' = (({scratch'.allocation.data, pinned.data, timing.begin, timing.end} \ {None})
                     \cup refused')
    BY <1>4, <2>1, OwnerFacts
  <2>13. ({scratch'.allocation.data, pinned.data, timing.begin, timing.end} \ {None})
            \cap refused' = {}
    BY <1>4, <2>1, OwnerFacts
  <2>14. active' \in Devices /\ refused' \subseteq Handles'
    BY <1>4, <2>11, OwnerFacts
  <2>15. QED BY <1>4, <2>1, <2>10, <2>11, <2>12, <2>13, <2>14, ScratchStep
<1>7. QED BY <1>4, <1>5, <1>6

(* A reset takes every slice back and keeps the storage. *)
LEMMA ResetStep ==
  ASSUME Resources!CudaHostResourcesAssumption, OwnersInv, Resources!reset
  PROVE  OwnersInv'
<1>1. /\ scratch' = [scratch EXCEPT !.used_bytes = 0] /\ slices' = {}
      /\ UNCHANGED <<active, created, live, refused, pinned, timing>>
  BY DEF Resources!reset
<1>2. scratch \in [allocation : Allocations, capacity_bytes : Nat, used_bytes : Nat] /\ SliceInv
  BY DEF OwnersInv, OwnerTypes
<1>3. /\ scratch' \in [allocation : Allocations, capacity_bytes : Nat, used_bytes : Nat]
      /\ scratch'.allocation = scratch.allocation
      /\ scratch'.capacity_bytes = scratch.capacity_bytes /\ scratch'.used_bytes = 0
  BY <1>1, <1>2
<1>4. Handles' = Handles /\ Allocations' = Allocations
  BY <1>1 DEF Handles, Allocations
<1>5. SliceInv' BY <1>1, <1>2, <1>3 DEF SliceInv
<1>6. /\ live' = (({scratch'.allocation.data, pinned.data, timing.begin, timing.end} \ {None})
                    \cup refused')
      /\ ({scratch'.allocation.data, pinned.data, timing.begin, timing.end} \ {None})
            \cap refused' = {}
      /\ active' \in Devices /\ refused' \subseteq Handles'
  BY <1>1, <1>3, <1>4, OwnerFacts
<1>7. QED BY <1>1, <1>3, <1>4, <1>5, <1>6, ScratchStep

(* A close that released the storage takes the slices with it. *)
LEMMA CloseScratchStep ==
  ASSUME Resources!CudaHostResourcesAssumption, OwnersInv, Resources!close_scratch
  PROVE  OwnersInv'
<1> DEFINE old == scratch.allocation
<1>1. PICK no : LET c == Resources!closed(active, old, no)
                IN  /\ scratch' = Resources!emptied([scratch EXCEPT !.allocation = c.owner])
                    /\ slices' = IF c.owner = NoMemory THEN {} ELSE slices
                    /\ live' = live \ c.released
                    /\ active' = c.active
                    /\ UNCHANGED <<created, refused, pinned, timing>>
  BY DEF Resources!close_scratch, NoMemory
<1> DEFINE c == Resources!closed(active, old, no)
<1>2. /\ scratch' = Resources!emptied([scratch EXCEPT !.allocation = c.owner])
      /\ slices' = IF c.owner = NoMemory THEN {} ELSE slices
      /\ live' = live \ c.released /\ active' = c.active
      /\ UNCHANGED <<created, refused, pinned, timing>>
  BY <1>1
<1>3. /\ c.active \in {active, old.device} /\ (old.data = None => c.active = active)
      /\ \/ c.owner = old /\ c.released = {}
         \/ old.data # None /\ c.owner = NoMemory /\ c.released = {old.data}
  BY ClosedOnce
<1> HIDE DEF c
<1>4. /\ scratch \in [allocation : Allocations, capacity_bytes : Nat, used_bytes : Nat] /\ SliceInv
  BY DEF OwnersInv, OwnerTypes
<1>5. old \in Allocations /\ created \in Nat
        /\ (old.data # None => old.data \in Handles /\ old.device \in Devices)
        /\ (old.data = None <=> old = NoMemory) /\ NoMemory.data = None
  <2>1. old \in Allocations /\ created \in Nat BY OwnerFacts
  <2>2. QED BY <2>1, AllocationTypes DEF NoMemory, Resources!Empty
<1>6. Handles' = Handles /\ Allocations' = Allocations /\ NoMemory \in Allocations
  BY <1>2 DEF Handles, Allocations
<1>7. \/ old # NoMemory /\ c.owner = old /\ scratch' = scratch /\ c.released = {}
      \/ c.owner = NoMemory /\ scratch' = Resources!EmptyBuffer /\ c.released = {old.data} \ {None}
  <2>1. CASE c.owner = old /\ old # NoMemory
    <3>1. [scratch EXCEPT !.allocation = c.owner] = scratch BY <1>4, <2>1
    <3>2. scratch' = scratch BY <1>2, <2>1, <3>1 DEF Resources!emptied, NoMemory
    <3>3. QED BY <1>3, <1>5, <2>1, <3>2
  <2>2. CASE c.owner = NoMemory
    <3>1. scratch' = Resources!EmptyBuffer
      BY <1>2, <1>4, <2>2 DEF Resources!emptied, NoMemory, Resources!EmptyBuffer
    <3>2. QED BY <1>3, <1>5, <2>2, <3>1
  <2>3. QED BY <1>3, <2>1, <2>2
<1>8. /\ Resources!EmptyBuffer \in [allocation : Allocations, capacity_bytes : Nat, used_bytes : Nat]
      /\ Resources!EmptyBuffer.allocation = NoMemory /\ Resources!EmptyBuffer.capacity_bytes = 0
      /\ Resources!EmptyBuffer.used_bytes = 0 /\ NoMemory.size_bytes = 0
  BY <1>6 DEF Resources!EmptyBuffer, Resources!Empty, NoMemory
<1>9. scratch' \in [allocation : Allocations, capacity_bytes : Nat, used_bytes : Nat]
  BY <1>4, <1>7, <1>8
<1>10. SliceInv'
  <2>1. CASE c.owner = NoMemory
    BY <1>2, <1>5, <1>7, <1>8, <2>1 DEF SliceInv
  <2>2. CASE c.owner # NoMemory
    BY <1>2, <1>4, <1>7, <2>2 DEF SliceInv
  <2>3. QED BY <2>1, <2>2
<1>11. \/ scratch'.allocation.data = old.data /\ c.released = {}
       \/ scratch'.allocation.data = None /\ c.released = {old.data} \ {None}
  BY <1>5, <1>7, <1>8
<1>12. old.data # None => old.data \notin {pinned.data, timing.begin, timing.end}
  BY DEF OwnersInv, Distinct
<1>13. /\ live' = (({scratch'.allocation.data, pinned.data, timing.begin, timing.end} \ {None})
                     \cup refused')
       /\ ({scratch'.allocation.data, pinned.data, timing.begin, timing.end} \ {None})
             \cap refused' = {}
       /\ refused' \subseteq Handles'
  BY <1>2, <1>6, <1>11, <1>12, OwnerFacts
<1>14. active' \in Devices BY <1>2, <1>3, <1>5, OwnerFacts
<1>15. QED BY <1>2, <1>6, <1>9, <1>10, <1>11, <1>13, <1>14, ScratchStep

(* The destructor gives the storage up, released or refused. *)
LEMMA DestroyScratchStep ==
  ASSUME Resources!CudaHostResourcesAssumption, OwnersInv, Resources!destroy_scratch
  PROVE  OwnersInv'
<1> DEFINE old == scratch.allocation
<1>1. PICK no : LET d == Resources!dropped_memory(active, old, no)
                IN  /\ scratch' = Resources!EmptyBuffer
                    /\ slices' = {}
                    /\ live' = live \ d.released
                    /\ refused' = refused \cup d.refused
                    /\ active' = d.active
                    /\ UNCHANGED <<created, pinned, timing>>
  BY DEF Resources!destroy_scratch
<1> DEFINE d == Resources!dropped_memory(active, old, no)
<1>2. /\ scratch' = Resources!EmptyBuffer /\ slices' = {} /\ live' = live \ d.released
      /\ refused' = refused \cup d.refused /\ active' = d.active
      /\ UNCHANGED <<created, pinned, timing>>
  BY <1>1
<1>3. /\ d.active \in {active, old.device} /\ (old.data = None => d.active = active)
      /\ \/ old.data = None /\ d.released = {} /\ d.refused = {}
         \/ old.data # None /\ d.released = {old.data} /\ d.refused = {}
         \/ old.data # None /\ d.released = {} /\ d.refused = {old.data}
  BY DroppedOnce
<1> HIDE DEF d
<1>4. old \in Allocations /\ created \in Nat
        /\ (old.data # None => old.data \in Handles /\ old.device \in Devices)
  <2>1. old \in Allocations /\ created \in Nat BY OwnerFacts
  <2>2. QED BY <2>1, AllocationTypes
<1>5. Handles' = Handles /\ Allocations' = Allocations /\ NoMemory \in Allocations
  BY <1>2 DEF Handles, Allocations
<1>6. /\ Resources!EmptyBuffer \in [allocation : Allocations, capacity_bytes : Nat, used_bytes : Nat]
      /\ Resources!EmptyBuffer.allocation = NoMemory /\ Resources!EmptyBuffer.capacity_bytes = 0
      /\ Resources!EmptyBuffer.used_bytes = 0 /\ NoMemory.size_bytes = 0 /\ NoMemory.data = None
  BY <1>5 DEF Resources!EmptyBuffer, Resources!Empty, NoMemory
<1>7. SliceInv' BY <1>2, <1>6 DEF SliceInv
<1>8. old.data # None => old.data \notin {pinned.data, timing.begin, timing.end}
  BY DEF OwnersInv, Distinct
<1>9. /\ live' = (({scratch'.allocation.data, pinned.data, timing.begin, timing.end} \ {None})
                    \cup refused')
      /\ ({scratch'.allocation.data, pinned.data, timing.begin, timing.end} \ {None})
            \cap refused' = {}
      /\ refused' \subseteq Handles'
  BY <1>2, <1>3, <1>4, <1>5, <1>6, <1>8, OwnerFacts
<1>10. active' \in Devices BY <1>2, <1>3, <1>4, OwnerFacts
<1>11. QED BY <1>2, <1>5, <1>6, <1>7, <1>9, <1>10, ScratchStep
(* The steps that leave the scratch buffer alone. *)
LEMMA OtherStep ==
  ASSUME Resources!CudaHostResourcesAssumption, OwnersInv,
         created' \in {created, created + 1, created + 2}, active' \in Devices,
         UNCHANGED <<scratch, slices>>, pinned' \in Allocations',
         timing' \in [begin : Handles' \cup {None}, end : Handles' \cup {None},
                      device : Devices \cup {None}],
         timing' = Resources!EmptyPair \/ timing'.device \in Devices,
         Distinct', refused' \subseteq Handles',
         live' = (({scratch.allocation.data, pinned'.data, timing'.begin, timing'.end} \ {None})
                     \cup refused'),
         ({scratch.allocation.data, pinned'.data, timing'.begin, timing'.end} \ {None})
            \cap refused' = {}
  PROVE  OwnersInv'
<1>1. /\ created' \in Nat /\ Handles \subseteq Handles' /\ Allocations \subseteq Allocations'
  BY MoreHandles, OwnerFacts
<1>2. scratch \in [allocation : Allocations, capacity_bytes : Nat, used_bytes : Nat] /\ SliceInv
  BY DEF OwnersInv, OwnerTypes
<1>3. scratch' \in [allocation : Allocations', capacity_bytes : Nat, used_bytes : Nat]
  BY <1>1, <1>2
<1>4. OwnerTypes' /\ SliceInv'
  BY <1>1, <1>2, <1>3 DEF OwnerTypes, SliceInv, Resources!EmptyPair
<1>5. QED BY <1>4, OwnersAfter

(* What the invariant says of the pair of events. *)
LEMMA TimingFacts ==
  ASSUME OwnersInv
  PROVE  /\ timing \in [begin : Handles \cup {None}, end : Handles \cup {None},
                        device : Devices \cup {None}]
         /\ timing = Resources!EmptyPair \/ timing.device \in Devices
         /\ Resources!events(timing) = {timing.begin, timing.end} \ {None}
         /\ Resources!EmptyPair \in [begin : Handles \cup {None}, end : Handles \cup {None},
                                     device : Devices \cup {None}]
         /\ Resources!EmptyPair.begin = None /\ Resources!EmptyPair.end = None
         /\ Distinct
  BY DEF OwnersInv, OwnerTypes, Resources!events, Resources!EmptyPair

(* A switch to the device of an owner ends on it or on the one before. *)
LEMMA Switched ==
  ASSUME NEW here \in Devices, NEW device \in Devices, NEW no
  PROVE  Resources!active_after(here, device, no) \in Devices
  BY DEF Resources!active_after

(* Pinned memory is allocated where there was none. *)
LEMMA AllocatePinnedStep ==
  ASSUME Resources!CudaHostResourcesAssumption, OwnersInv, Resources!allocate_pinned(1)
  PROVE  OwnersInv'
<1>1. /\ pinned = NoMemory /\ UNCHANGED <<active, refused, scratch, slices, timing>>
      /\ \/ UNCHANGED <<created, live, pinned>>
         \/ /\ created' = created + 1 /\ live' = live \cup {created + 1}
            /\ pinned' = [data |-> created + 1, device |-> active, size_bytes |-> 1]
  BY DEF Resources!allocate_pinned, NoMemory
<1>2. pinned.data = None BY <1>1 DEF NoMemory, Resources!Empty
<1>3. created' \in {created, created + 1} BY <1>1
<1>4. Handles \subseteq Handles' /\ Allocations \subseteq Allocations'
        /\ (created' # created => created + 1 \in Handles')
  BY <1>3, MoreHandles, OwnerFacts
<1>5. CASE UNCHANGED <<created, live, pinned>>
  <2>1. Distinct' /\ pinned' \in Allocations'
    BY <1>1, <1>4, <1>5, OwnerFacts DEF OwnersInv, Distinct
  <2>2. QED BY <1>1, <1>4, <1>5, <2>1, OtherStep, OwnerFacts, TimingFacts
<1>6. CASE /\ created' = created + 1 /\ live' = live \cup {created + 1}
           /\ pinned' = [data |-> created + 1, device |-> active, size_bytes |-> 1]
  <2>1. created + 1 \in Handles' /\ pinned'.data = created + 1
    BY <1>4, <1>6, OwnerFacts
  <2>2. pinned' \in Allocations'
    <3>1. pinned' \in [data : Handles', device : Devices, size_bytes : Nat]
      BY <1>6, <2>1, OwnerFacts
    <3>2. QED BY <3>1 DEF Allocations
  <2>3. Distinct' BY <1>1, <2>1, OwnerFacts, TimingFacts DEF Distinct
  <2>4. timing' \in [begin : Handles' \cup {None}, end : Handles' \cup {None},
                     device : Devices \cup {None}]
    BY <1>1, <1>4, TimingFacts
  <2>5. /\ live' = (({scratch.allocation.data, pinned'.data, timing'.begin, timing'.end} \ {None})
                      \cup refused')
        /\ ({scratch.allocation.data, pinned'.data, timing'.begin, timing'.end} \ {None})
              \cap refused' = {}
        /\ refused' \subseteq Handles' /\ active' \in Devices
    BY <1>1, <1>2, <1>4, <1>6, <2>1, OwnerFacts
  <2>6. QED BY <1>1, <1>6, <2>2, <2>3, <2>4, <2>5, OtherStep, TimingFacts
<1>7. QED BY <1>1, <1>5, <1>6

(* A close of pinned memory releases it or keeps its owner. *)
LEMMA ClosePinnedStep ==
  ASSUME Resources!CudaHostResourcesAssumption, OwnersInv, Resources!close_pinned
  PROVE  OwnersInv'
<1>1. PICK no : LET c == Resources!closed(active, pinned, no)
                IN  /\ pinned' = c.owner
                    /\ live' = live \ c.released
                    /\ active' = c.active
                    /\ UNCHANGED <<created, refused, scratch, slices, timing>>
  BY DEF Resources!close_pinned
<1> DEFINE c == Resources!closed(active, pinned, no)
<1>2. /\ pinned' = c.owner /\ live' = live \ c.released /\ active' = c.active
      /\ UNCHANGED <<created, refused, scratch, slices, timing>>
  BY <1>1
<1>3. /\ c.active \in {active, pinned.device} /\ (pinned.data = None => c.active = active)
      /\ \/ c.owner = pinned /\ c.released = {}
         \/ pinned.data # None /\ c.owner = NoMemory /\ c.released = {pinned.data}
  BY ClosedOnce
<1> HIDE DEF c
<1>4. Handles' = Handles /\ Allocations' = Allocations /\ NoMemory \in Allocations
        /\ NoMemory.data = None
  BY <1>2 DEF Handles, Allocations, NoMemory, Resources!Empty
<1>5. pinned \in Allocations /\ (pinned.data # None => pinned.device \in Devices)
  <2>1. pinned \in Allocations /\ created \in Nat BY OwnerFacts
  <2>2. QED BY <2>1, AllocationTypes
<1>6. pinned' \in Allocations' /\ active' \in Devices /\ pinned'.data \in {None, pinned.data}
  BY <1>2, <1>3, <1>4, <1>5, OwnerFacts
<1>7. Distinct' BY <1>2, <1>6, TimingFacts DEF Distinct
<1>8. /\ live' = (({scratch.allocation.data, pinned'.data, timing'.begin, timing'.end} \ {None})
                    \cup refused')
      /\ ({scratch.allocation.data, pinned'.data, timing'.begin, timing'.end} \ {None})
            \cap refused' = {}
      /\ refused' \subseteq Handles'
  BY <1>2, <1>3, <1>4, OwnerFacts, TimingFacts DEF Distinct
<1>9. QED BY <1>2, <1>4, <1>6, <1>7, <1>8, OtherStep, TimingFacts

(* The destructor of pinned memory gives it up. *)
LEMMA DestroyPinnedStep ==
  ASSUME Resources!CudaHostResourcesAssumption, OwnersInv, Resources!destroy_pinned
  PROVE  OwnersInv'
<1>1. PICK no : LET d == Resources!dropped(active, pinned.device, {pinned.data}, no)
                IN  /\ pinned # NoMemory
                    /\ pinned' = NoMemory
                    /\ live' = live \ d.released
                    /\ refused' = refused \cup d.refused
                    /\ active' = d.active
                    /\ UNCHANGED <<created, scratch, slices, timing>>
  BY DEF Resources!destroy_pinned, NoMemory
<1> DEFINE d == Resources!dropped(active, pinned.device, {pinned.data}, no)
<1>2. /\ pinned # NoMemory /\ pinned' = NoMemory /\ live' = live \ d.released
      /\ refused' = refused \cup d.refused /\ active' = d.active
      /\ UNCHANGED <<created, scratch, slices, timing>>
  BY <1>1
<1>3. Handles' = Handles /\ Allocations' = Allocations /\ NoMemory \in Allocations
        /\ NoMemory.data = None
  BY <1>2 DEF Handles, Allocations, NoMemory, Resources!Empty
<1>4. pinned.data \in Handles /\ pinned.data # None /\ pinned.device \in Devices
  <2>1. pinned \in Allocations /\ created \in Nat BY OwnerFacts
  <2>2. QED BY <1>2, <2>1, AllocationTypes
<1>5. /\ d.active \in Devices
      /\ \/ d.released = {pinned.data} /\ d.refused = {}
         \/ d.released = {} /\ d.refused = {pinned.data}
  BY <1>4, Switched, OwnerFacts DEF Resources!dropped
<1> HIDE DEF d
<1>6. pinned' \in Allocations' /\ active' \in Devices /\ pinned'.data = None
  BY <1>2, <1>3, <1>5
<1>7. Distinct' BY <1>2, <1>6, TimingFacts DEF Distinct
<1>8. /\ live' = (({scratch.allocation.data, pinned'.data, timing'.begin, timing'.end} \ {None})
                    \cup refused')
      /\ ({scratch.allocation.data, pinned'.data, timing'.begin, timing'.end} \ {None})
            \cap refused' = {}
      /\ refused' \subseteq Handles'
  BY <1>2, <1>3, <1>4, <1>5, <1>6, OwnerFacts, TimingFacts DEF Distinct
<1>9. QED BY <1>2, <1>3, <1>6, <1>7, <1>8, OtherStep, TimingFacts

(* A pair is created event by event: the first may be all there is, and it is
   destroyed again or refused. *)
LEMMA CreateTimingStep ==
  ASSUME Resources!CudaHostResourcesAssumption, OwnersInv, Resources!create_timing
  PROVE  OwnersInv'
<1>1. /\ timing = Resources!EmptyPair /\ UNCHANGED <<active, scratch, slices, pinned>>
      /\ \/ UNCHANGED <<created, live, refused, timing>>
         \/ \E remains \in SUBSET {created + 1} :
               /\ created' = created + 1 /\ live' = live \cup remains
               /\ refused' = refused \cup remains /\ timing' = timing
         \/ /\ created' = created + 2 /\ live' = live \cup {created + 1, created + 2}
            /\ timing' = [begin |-> created + 1, end |-> created + 2, device |-> active]
            /\ refused' = refused
  BY DEF Resources!create_timing
<1>2. timing.begin = None /\ timing.end = None BY <1>1, TimingFacts
<1>3. created' \in {created, created + 1, created + 2} BY <1>1
<1>4. Handles \subseteq Handles' /\ Allocations \subseteq Allocations' /\ pinned' \in Allocations'
        /\ active' \in Devices
        /\ (created' = created + 1 => created + 1 \in Handles')
        /\ (created' = created + 2 => created + 1 \in Handles' /\ created + 2 \in Handles')
  <2>1. created \in Nat BY OwnerFacts
  <2>2. QED BY <1>1, <1>3, <2>1, MoreHandles, OwnerFacts
<1>5. CASE timing' = timing /\ \E remains \in SUBSET {created + 1} :
              /\ created' \in {created, created + 1}
              /\ (remains # {} => created' = created + 1)
              /\ live' = live \cup remains /\ refused' = refused \cup remains
  <2>1. PICK remains \in SUBSET {created + 1} :
           /\ (remains # {} => created' = created + 1)
           /\ live' = live \cup remains /\ refused' = refused \cup remains
    BY <1>5
  <2>2. Distinct' BY <1>1, <1>5, TimingFacts DEF Distinct
  <2>3. timing' \in [begin : Handles' \cup {None}, end : Handles' \cup {None},
                     device : Devices \cup {None}]
    BY <1>4, <1>5, TimingFacts
  <2>4. /\ live' = (({scratch.allocation.data, pinned'.data, timing'.begin, timing'.end} \ {None})
                      \cup refused')
        /\ ({scratch.allocation.data, pinned'.data, timing'.begin, timing'.end} \ {None})
              \cap refused' = {}
        /\ refused' \subseteq Handles'
    <3>1. UNCHANGED <<scratch, pinned, timing>> BY <1>1, <1>5
    <3>2. remains = {} \/ (remains = {created + 1} /\ created + 1 \in Handles')
      BY <1>4, <2>1
    <3>3. CASE remains = {}
      BY <1>4, <2>1, <3>1, <3>3, OwnerFacts
    <3>4. CASE remains = {created + 1} /\ created + 1 \in Handles'
      BY <1>4, <2>1, <3>1, <3>4, OwnerFacts
    <3>5. QED BY <3>2, <3>3, <3>4
  <2>5. QED BY <1>1, <1>3, <1>4, <1>5, <2>2, <2>3, <2>4, OtherStep, TimingFacts
<1>6. CASE /\ created' = created + 2 /\ live' = live \cup {created + 1, created + 2}
           /\ timing' = [begin |-> created + 1, end |-> created + 2, device |-> active]
           /\ refused' = refused
  <2>1. timing'.begin = created + 1 /\ timing'.end = created + 2 /\ timing'.device = active
    BY <1>6
  <2>2. created \in Nat /\ created + 1 # created + 2 BY OwnerFacts
  <2>3. Distinct' BY <1>1, <2>1, <2>2, OwnerFacts, TimingFacts DEF Distinct
  <2>4. timing' \in [begin : Handles' \cup {None}, end : Handles' \cup {None},
                     device : Devices \cup {None}]
    BY <1>4, <1>6, OwnerFacts
  <2>5. /\ live' = (({scratch.allocation.data, pinned'.data, timing'.begin, timing'.end} \ {None})
                      \cup refused')
        /\ ({scratch.allocation.data, pinned'.data, timing'.begin, timing'.end} \ {None})
              \cap refused' = {}
        /\ refused' \subseteq Handles'
    BY <1>1, <1>2, <1>4, <1>6, <2>1, OwnerFacts
  <2>6. timing'.device \in Devices BY <2>1, OwnerFacts
  <2>7. QED BY <1>1, <1>3, <1>4, <2>3, <2>4, <2>5, <2>6, OtherStep
<1>7. CASE UNCHANGED <<created, live, refused, timing>>
  <2>1. {} \in SUBSET {created + 1} /\ live' = live \cup {} /\ refused' = refused \cup {}
    BY <1>7
  <2>2. QED BY <1>5, <1>7, <2>1
<1>8. QED BY <1>1, <1>5, <1>6, <1>7

(* Either event goes alone; the pair forgets the ones that went. *)
LEMMA CloseTimingStep ==
  ASSUME Resources!CudaHostResourcesAssumption, OwnersInv, Resources!close_timing
  PROVE  OwnersInv'
<1>1. PICK no, gone : /\ gone \subseteq Resources!events(timing)
                      /\ timing # Resources!EmptyPair
                      /\ timing' = Resources!pair_without(gone)
                      /\ live' = live \ gone
                      /\ active' = Resources!active_after(active, timing.device, no)
                      /\ UNCHANGED <<created, refused, scratch, slices, pinned>>
  BY DEF Resources!close_timing
<1>2. Handles' = Handles /\ Allocations' = Allocations
  BY <1>1 DEF Handles, Allocations
<1>3. active' \in Devices /\ timing.device \in Devices
  BY <1>1, Switched, OwnerFacts, TimingFacts
<1>4. /\ timing'.begin = (IF timing.begin \in gone THEN None ELSE timing.begin)
      /\ timing'.end = (IF timing.end \in gone THEN None ELSE timing.end)
      /\ timing' = Resources!EmptyPair \/ timing'.device = timing.device
      /\ timing' \in [begin : Handles \cup {None}, end : Handles \cup {None},
                      device : Devices \cup {None}]
  BY <1>1, <1>3, TimingFacts DEF Resources!pair_without, Resources!kept, Resources!EmptyPair
<1>5. gone \subseteq {timing.begin, timing.end} \ {None} BY <1>1, TimingFacts
<1>6. Distinct' BY <1>1, <1>4, TimingFacts DEF Distinct
<1>7. /\ live' = (({scratch.allocation.data, pinned'.data, timing'.begin, timing'.end} \ {None})
                    \cup refused')
      /\ ({scratch.allocation.data, pinned'.data, timing'.begin, timing'.end} \ {None})
            \cap refused' = {}
      /\ refused' \subseteq Handles' /\ pinned' \in Allocations'
  BY <1>1, <1>2, <1>4, <1>5, OwnerFacts, TimingFacts DEF Distinct
<1>8. QED BY <1>1, <1>2, <1>3, <1>4, <1>6, <1>7, OtherStep

(* The events the destructor could not destroy become refused ones. *)
LEMMA DestroyTimingStep ==
  ASSUME Resources!CudaHostResourcesAssumption, OwnersInv, Resources!destroy_timing
  PROVE  OwnersInv'
<1>1. PICK no, gone : /\ gone \subseteq Resources!events(timing)
                      /\ timing # Resources!EmptyPair
                      /\ timing' = Resources!EmptyPair
                      /\ live' = live \ gone
                      /\ refused' = refused \cup (Resources!events(timing) \ gone)
                      /\ active' = Resources!active_after(active, timing.device, no)
                      /\ UNCHANGED <<created, scratch, slices, pinned>>
  BY DEF Resources!destroy_timing
<1>2. Handles' = Handles /\ Allocations' = Allocations
  BY <1>1 DEF Handles, Allocations
<1>3. active' \in Devices BY <1>1, Switched, OwnerFacts, TimingFacts
<1>4. timing'.begin = None /\ timing'.end = None
        /\ timing' \in [begin : Handles \cup {None}, end : Handles \cup {None},
                        device : Devices \cup {None}]
  BY <1>1, TimingFacts
<1>5. gone \subseteq {timing.begin, timing.end} \ {None}
        /\ refused' = refused \cup (({timing.begin, timing.end} \ {None}) \ gone)
  BY <1>1, TimingFacts
<1>6. Distinct' BY <1>1, <1>4, TimingFacts DEF Distinct
<1>7. /\ live' = (({scratch.allocation.data, pinned'.data, timing'.begin, timing'.end} \ {None})
                    \cup refused')
      /\ ({scratch.allocation.data, pinned'.data, timing'.begin, timing'.end} \ {None})
            \cap refused' = {}
      /\ refused' \subseteq Handles' /\ pinned' \in Allocations'
  BY <1>1, <1>2, <1>4, <1>5, OwnerFacts, TimingFacts DEF Distinct
<1>8. QED BY <1>1, <1>2, <1>3, <1>4, <1>6, <1>7, OtherStep

(* Together they are inductive. *)
LEMMA OwnersNext ==
  ASSUME Resources!CudaHostResourcesAssumption, OwnersInv, [Resources!Next]_(Resources!vars)
  PROVE  OwnersInv'
<1>1. Resources!Sizes \subseteq Nat
  BY DEF Resources!Sizes, Resources!CudaHostResourcesAssumption
<1>2. ASSUME NEW bytes \in Resources!Sizes, Resources!create_scratch(bytes) PROVE OwnersInv'
  BY <1>1, <1>2, CreateScratchStep
<1>3. ASSUME NEW bytes \in Resources!Sizes, Resources!grow(bytes) PROVE OwnersInv'
  BY <1>1, <1>3, GrowStep
<1>4. ASSUME NEW bytes \in Resources!Sizes, NEW alignment \in {1, 2},
             Resources!allocate_slice(bytes, alignment)
      PROVE  OwnersInv'
  BY <1>1, <1>4, SliceStep
<1>5. ASSUME UNCHANGED <<created, live, refused, scratch, slices, pinned, timing>>,
             active' \in Devices
      PROVE  OwnersInv'
  BY <1>5 DEF OwnersInv, OwnerTypes, Handles, Allocations, Distinct, SliceInv,
    Resources!ReleasedOnce, Resources!owned, Resources!events, Resources!EmptyPair
<1>6. ASSUME NEW bytes, Resources!reserve_noop(bytes) \/ Resources!reserve_in_use(bytes)
      PROVE  OwnersInv'
  BY <1>5, <1>6, OwnerFacts DEF Resources!reserve_noop, Resources!reserve_in_use
<1>7. ASSUME NEW device \in Devices, Resources!set_device(device) PROVE OwnersInv'
  BY <1>5, <1>7 DEF Resources!set_device
<1>8. CASE UNCHANGED Resources!vars
  BY <1>5, <1>8, OwnerFacts DEF Resources!vars
<1>9. QED
  BY <1>2, <1>3, <1>4, <1>6, <1>7, <1>8, ResetStep, CloseScratchStep, DestroyScratchStep,
    AllocatePinnedStep, ClosePinnedStep, DestroyPinnedStep, CreateTimingStep, CloseTimingStep,
    DestroyTimingStep DEF Resources!Next

------------------------------------------------------
(* For any devices, budget and number of handles: every native resource has
   one owner or was refused by CUDA, and no owner holds one that is gone
   (DeviceMemory, PinnedHostAllocation, TimingEventPair). *)
THEOREM ResourcesReleasedOnce ==
  ASSUME Resources!CudaHostResourcesAssumption
  PROVE  Resources!Spec => []ReleasedOnce
<1>1. Resources!Init => OwnersInv BY OwnersInit
<1>2. OwnersInv /\ [Resources!Next]_(Resources!vars) => OwnersInv' BY OwnersNext
<1>3. OwnersInv => ReleasedOnce BY DEF OwnersInv, ReleasedOnce
<1>4. QED BY <1>1, <1>2, <1>3, PTL DEF Resources!Spec

(* The slices of the scratch buffer lie in storage it has, beside each other,
   whatever growth failed in between (DeviceScratchBuffer). *)
THEOREM ResourcesSlicesBacked ==
  ASSUME Resources!CudaHostResourcesAssumption
  PROVE  Resources!Spec => []SlicesBacked
<1>1. Resources!Init => OwnersInv BY OwnersInit
<1>2. OwnersInv /\ [Resources!Next]_(Resources!vars) => OwnersInv' BY OwnersNext
<1>3. OwnersInv => SlicesBacked
  <2> SUFFICES ASSUME OwnersInv PROVE Resources!SlicesBacked
    BY DEF SlicesBacked
  <2>1. scratch.used_bytes \in Nat /\ scratch.allocation.size_bytes \in Nat
          /\ scratch.used_bytes <= scratch.allocation.size_bytes
    <3>1. scratch \in [allocation : Allocations, capacity_bytes : Nat, used_bytes : Nat]
      BY DEF OwnersInv, OwnerTypes
    <3>2. QED BY <3>1 DEF OwnersInv, SliceInv
  <2>2. ASSUME NEW s \in slices
        PROVE  s.data = scratch.allocation.data /\ s.data \in live
                 /\ s.to <= scratch.allocation.size_bytes
    <3>1. s.data = scratch.allocation.data /\ s.data # None /\ s.to \in Nat
            /\ s.to <= scratch.used_bytes
      BY DEF OwnersInv, SliceInv
    <3>2. s.data \in live BY <3>1, OwnerFacts
    <3>3. QED BY <2>1, <3>1, <3>2
  <2>3. QED BY <2>2 DEF OwnersInv, SliceInv, Resources!SlicesBacked
<1>4. QED BY <1>1, <1>2, <1>3, PTL DEF Resources!Spec
===============================================================================

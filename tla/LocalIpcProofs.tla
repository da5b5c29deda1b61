---------------------------- MODULE LocalIpcProofs ----------------------------
(* Proofs about the boundary of the process: the socket node of
   LocalIpcEndpoint, for any number of server objects, inode numbers and
   outside programs; the replies of LocalIpcExchange, for any clients and
   frames; the libraries and contexts of ExtensionLifecycle, for any paths. *)
EXTENDS MCProcessBoundary, Sequences, FiniteSetTheorems, WellFoundedInduction, TLAPS

(* From bind to unlink, a server has made a node and has not taken it away. *)
Binder ==
    {"inspect_bound", "chmod", "listen", "verify", "allocate", "serving", "check", "unlink"}

Listening == {"inspect_bound", "chmod", "listen", "verify", "allocate", "serving"}

Inspected == {"chmod", "listen", "verify", "allocate", "serving", "check", "unlink"}

------------------------------------------------------
(* The invariant. *)

(* Servers make sockets, everybody else files; the name of a node comes from
   a server that has bound, and an inspection has looked at somebody's node. *)
NodeInv ==
    /\ path # None => (path.kind = "socket" <=> path.by \in Servers)
    /\ \A s \in Servers : path # None /\ path.by = s => pc[s] \notin {"inspect", "bind"}
    /\ path # None => path.late \subseteq Closed
    /\ \A s \in Servers : pc[s] \in {"inspect", "bind", "inspect_bound"} => seen[s] = None

(* A listener that is open holds the inode of the node its server made, which
   is the one the server recorded if it was its own that it saw. *)
HeldInv ==
    \A s \in Servers :
        /\ path # None /\ path.by = s /\ pc[s] \in Listening => path.inode = socket[s]
        /\ pc[s] \in Listening \ {"inspect_bound"} /\ seen[s] = s => bound_node[s] = socket[s]

(* No node but its own has the inode such a server recorded, unless it was
   made after the server had closed its listener. *)
DistinctInv ==
    \A s \in Servers :
        pc[s] \in Inspected /\ seen[s] = s /\ path # None /\ path.by # s /\ s \notin path.late
            => path.inode # bound_node[s]

(* What is left at the path when the comparison has succeeded. *)
UnlinkInv ==
    \A s \in Servers :
        pc[s] = "unlink" /\ seen[s] = s /\ path # None => path.by = s \/ s \in path.late

(* As long as nobody else touches the path it names the node of whoever is
   between bind and unlink. *)
AloneInv ==
    outside = 0 => \A s \in Servers : pc[s] \in Binder => path # None /\ path.by = s

(* Without a crash or a call whose failure leaves a node, whoever made the node at the path is
   still there and will recognise it. *)
OwnerInv ==
    ~excused /\ path # None =>
        \A s \in Servers : path.by = s =>
            /\ pc[s] \in Binder
            /\ pc[s] \in Inspected => bound_node[s] = path.inode

IInv == TypeOK /\ NodeInv /\ HeldInv /\ DistinctInv /\ UnlinkInv /\ AloneInv /\ OwnerInv

------------------------------------------------------
(* Nothing has been bound yet. *)
LEMMA EndpointInit == Init => IInv
<1> SUFFICES ASSUME Init PROVE IInv
  OBVIOUS
<1>1. TypeOK
  <2>1. excused \in BOOLEAN BY Zenon DEF Init
  <2>2. QED BY <2>1, EndpointAssumption DEF Init, TypeOK, PC
<1>2. NodeInv /\ HeldInv /\ DistinctInv /\ UnlinkInv /\ AloneInv /\ OwnerInv
  BY DEF Init, NodeInv, HeldInv, DistinctInv, UnlinkInv, AloneInv, OwnerInv, Binder,
    Listening, Inspected
<1>3. QED BY <1>1, <1>2 DEF IInv

(* Every system call, crash and touch keeps the types. *)
LEMMA TypeStep == ASSUME TypeOK, [Next]_vars PROVE TypeOK'
<1> USE EndpointAssumption DEF TypeOK, PC, Node, Closed
<1>1. ASSUME NEW s \in Servers, InspectPath(s) PROVE TypeOK'
  BY <1>1 DEF InspectPath, Fault, Goto
<1>2. ASSUME NEW s \in Servers, Bind(s) PROVE TypeOK'
  BY <1>2 DEF Bind, Fault, Goto, NewNode, FreeInodes
<1>3. ASSUME NEW s \in Servers, InspectBound(s) PROVE TypeOK'
  <2>1. excused' \in BOOLEAN BY <1>3, Zenon DEF InspectBound
  <2>2. QED BY <1>3, <2>1 DEF InspectBound, Fault, Goto, CloseListener
<1>4. ASSUME NEW s \in Servers, Chmod(s) PROVE TypeOK'
  BY <1>4 DEF Chmod, Fault, Goto, CloseListener
<1>5. ASSUME NEW s \in Servers, ListenCall(s) PROVE TypeOK'
  BY <1>5 DEF ListenCall, Fault, Goto, CloseListener
<1>6. ASSUME NEW s \in Servers, Verify(s) PROVE TypeOK'
  BY <1>6 DEF Verify, Fault, Goto, CloseListener, IsSameSocketNode
<1>7. ASSUME NEW s \in Servers, Allocate(s) PROVE TypeOK'
  <2>1. excused' \in BOOLEAN BY <1>7, Zenon DEF Allocate
  <2>2. QED BY <1>7, <2>1 DEF Allocate, Fault, Goto, CloseListener
<1>8. ASSUME NEW s \in Servers, CloseServer(s) PROVE TypeOK'
  BY <1>8 DEF CloseServer, Goto, CloseListener
<1>9. ASSUME NEW s \in Servers, CheckNode(s) PROVE TypeOK'
  <2>1. excused' \in BOOLEAN BY <1>9, Zenon DEF CheckNode
  <2>2. QED BY <1>9, <2>1 DEF CheckNode, Fault, Goto, IsSameSocketNode
<1>10. ASSUME NEW s \in Servers, Unlink(s) PROVE TypeOK'
  <2>1. excused' \in BOOLEAN BY <1>10, Zenon DEF Unlink
  <2>2. QED BY <1>10, <2>1 DEF Unlink, Fault, Goto
<1>11. ASSUME NEW s \in Servers, Crash(s) PROVE TypeOK'
  BY <1>11 DEF Crash, Goto, CloseListener
<1>12. CASE Touch
  BY <1>12 DEF Touch, NewNode, FreeInodes
<1>13. CASE UNCHANGED vars
  BY <1>13 DEF vars
<1>14. QED
  BY <1>1, <1>2, <1>3, <1>4, <1>5, <1>6, <1>7, <1>8, <1>9, <1>10, <1>11, <1>12, <1>13
  DEF Next, Step, Finished

(* Only bind makes a socket, and only a later call looks at a node. *)
LEMMA NodeStep == ASSUME TypeOK, NodeInv, [Next]_vars PROVE NodeInv'
<1> USE EndpointAssumption DEF TypeOK, PC, Node, NodeInv, Closed
<1>1. ASSUME NEW s \in Servers, InspectPath(s) PROVE NodeInv'
  BY <1>1 DEF InspectPath, Fault, Goto
<1>2. ASSUME NEW s \in Servers, Bind(s) PROVE NodeInv'
  BY <1>2 DEF Bind, Fault, Goto, NewNode, FreeInodes
<1>3. ASSUME NEW s \in Servers, InspectBound(s) PROVE NodeInv'
  BY <1>3 DEF InspectBound, Fault, Goto, CloseListener
<1>4. ASSUME NEW s \in Servers, Chmod(s) PROVE NodeInv'
  BY <1>4 DEF Chmod, Fault, Goto, CloseListener
<1>5. ASSUME NEW s \in Servers, ListenCall(s) PROVE NodeInv'
  BY <1>5 DEF ListenCall, Fault, Goto, CloseListener
<1>6. ASSUME NEW s \in Servers, Verify(s) PROVE NodeInv'
  BY <1>6 DEF Verify, Fault, Goto, CloseListener, IsSameSocketNode
<1>7. ASSUME NEW s \in Servers, Allocate(s) PROVE NodeInv'
  BY <1>7 DEF Allocate, Fault, Goto, CloseListener
<1>8. ASSUME NEW s \in Servers, CloseServer(s) PROVE NodeInv'
  BY <1>8 DEF CloseServer, Goto, CloseListener
<1>9. ASSUME NEW s \in Servers, CheckNode(s) PROVE NodeInv'
  BY <1>9 DEF CheckNode, Fault, Goto, IsSameSocketNode
<1>10. ASSUME NEW s \in Servers, Unlink(s) PROVE NodeInv'
  BY <1>10 DEF Unlink, Fault, Goto
<1>11. ASSUME NEW s \in Servers, Crash(s) PROVE NodeInv'
  BY <1>11 DEF Crash, Goto, CloseListener
<1>12. CASE Touch
  BY <1>12 DEF Touch, NewNode, FreeInodes
<1>13. CASE UNCHANGED vars
  BY <1>13 DEF vars
<1>14. QED
  BY <1>1, <1>2, <1>3, <1>4, <1>5, <1>6, <1>7, <1>8, <1>9, <1>10, <1>11, <1>12, <1>13
  DEF Next, Step, Finished

(* A listener keeps the inode it was bound with until it is closed. *)
LEMMA HeldStep == ASSUME TypeOK, NodeInv, HeldInv, [Next]_vars PROVE HeldInv'
<1> USE EndpointAssumption DEF TypeOK, PC, NodeInv, HeldInv, Listening
<1>1. ASSUME NEW s \in Servers, InspectPath(s) PROVE HeldInv'
  BY <1>1 DEF InspectPath, Fault, Goto
<1>2. ASSUME NEW s \in Servers, Bind(s) PROVE HeldInv'
  BY <1>2 DEF Bind, Fault, Goto, NewNode, FreeInodes
<1>3. ASSUME NEW s \in Servers, InspectBound(s) PROVE HeldInv'
  BY <1>3 DEF InspectBound, Fault, Goto, CloseListener
<1>4. ASSUME NEW s \in Servers, Chmod(s) PROVE HeldInv'
  BY <1>4 DEF Chmod, Fault, Goto, CloseListener
<1>5. ASSUME NEW s \in Servers, ListenCall(s) PROVE HeldInv'
  BY <1>5 DEF ListenCall, Fault, Goto, CloseListener
<1>6. ASSUME NEW s \in Servers, Verify(s) PROVE HeldInv'
  BY <1>6 DEF Verify, Fault, Goto, CloseListener, IsSameSocketNode
<1>7. ASSUME NEW s \in Servers, Allocate(s) PROVE HeldInv'
  BY <1>7 DEF Allocate, Fault, Goto, CloseListener
<1>8. ASSUME NEW s \in Servers, CloseServer(s) PROVE HeldInv'
  BY <1>8 DEF CloseServer, Goto, CloseListener
<1>9. ASSUME NEW s \in Servers, CheckNode(s) PROVE HeldInv'
  BY <1>9 DEF CheckNode, Fault, Goto, IsSameSocketNode
<1>10. ASSUME NEW s \in Servers, Unlink(s) PROVE HeldInv'
  BY <1>10 DEF Unlink, Fault, Goto
<1>11. ASSUME NEW s \in Servers, Crash(s) PROVE HeldInv'
  BY <1>11 DEF Crash, Goto, CloseListener
<1>12. CASE Touch
  BY <1>12 DEF Touch, NewNode, FreeInodes
<1>13. CASE UNCHANGED vars
  BY <1>13 DEF vars
<1>14. QED
  BY <1>1, <1>2, <1>3, <1>4, <1>5, <1>6, <1>7, <1>8, <1>9, <1>10, <1>11, <1>12, <1>13
  DEF Next, Step, Finished

(* An inode a listener holds is not given to another node. *)
LEMMA DistinctStep ==
  ASSUME TypeOK, NodeInv, HeldInv, DistinctInv, [Next]_vars
  PROVE  DistinctInv'
<1> USE EndpointAssumption DEF TypeOK, PC, NodeInv, HeldInv, DistinctInv, Inspected,
  Listening, Closed
<1>1. ASSUME NEW s \in Servers, InspectPath(s) PROVE DistinctInv'
  BY <1>1 DEF InspectPath, Fault, Goto
<1>2. ASSUME NEW s \in Servers, Bind(s) PROVE DistinctInv'
  BY <1>2 DEF Bind, Fault, Goto, NewNode, FreeInodes
<1>3. ASSUME NEW s \in Servers, InspectBound(s) PROVE DistinctInv'
  BY <1>3 DEF InspectBound, Fault, Goto, CloseListener
<1>4. ASSUME NEW s \in Servers, Chmod(s) PROVE DistinctInv'
  BY <1>4 DEF Chmod, Fault, Goto, CloseListener
<1>5. ASSUME NEW s \in Servers, ListenCall(s) PROVE DistinctInv'
  BY <1>5 DEF ListenCall, Fault, Goto, CloseListener
<1>6. ASSUME NEW s \in Servers, Verify(s) PROVE DistinctInv'
  BY <1>6 DEF Verify, Fault, Goto, CloseListener, IsSameSocketNode
<1>7. ASSUME NEW s \in Servers, Allocate(s) PROVE DistinctInv'
  BY <1>7 DEF Allocate, Fault, Goto, CloseListener
<1>8. ASSUME NEW s \in Servers, CloseServer(s) PROVE DistinctInv'
  BY <1>8 DEF CloseServer, Goto, CloseListener
<1>9. ASSUME NEW s \in Servers, CheckNode(s) PROVE DistinctInv'
  BY <1>9 DEF CheckNode, Fault, Goto, IsSameSocketNode
<1>10. ASSUME NEW s \in Servers, Unlink(s) PROVE DistinctInv'
  BY <1>10 DEF Unlink, Fault, Goto
<1>11. ASSUME NEW s \in Servers, Crash(s) PROVE DistinctInv'
  BY <1>11 DEF Crash, Goto, CloseListener
<1>12. CASE Touch
  BY <1>12 DEF Touch, NewNode, FreeInodes
<1>13. CASE UNCHANGED vars
  BY <1>13 DEF vars
<1>14. QED
  BY <1>1, <1>2, <1>3, <1>4, <1>5, <1>6, <1>7, <1>8, <1>9, <1>10, <1>11, <1>12, <1>13
  DEF Next, Step, Finished

(* The comparison before unlink has seen the server's own or a late node. *)
LEMMA UnlinkStep == ASSUME TypeOK, DistinctInv, UnlinkInv, [Next]_vars PROVE UnlinkInv'
<1> USE EndpointAssumption DEF TypeOK, PC, DistinctInv, UnlinkInv, Inspected, Closed
<1>1. ASSUME NEW s \in Servers, InspectPath(s) PROVE UnlinkInv'
  BY <1>1 DEF InspectPath, Fault, Goto
<1>2. ASSUME NEW s \in Servers, Bind(s) PROVE UnlinkInv'
  BY <1>2 DEF Bind, Fault, Goto, NewNode, FreeInodes
<1>3. ASSUME NEW s \in Servers, InspectBound(s) PROVE UnlinkInv'
  BY <1>3 DEF InspectBound, Fault, Goto, CloseListener
<1>4. ASSUME NEW s \in Servers, Chmod(s) PROVE UnlinkInv'
  BY <1>4 DEF Chmod, Fault, Goto, CloseListener
<1>5. ASSUME NEW s \in Servers, ListenCall(s) PROVE UnlinkInv'
  BY <1>5 DEF ListenCall, Fault, Goto, CloseListener
<1>6. ASSUME NEW s \in Servers, Verify(s) PROVE UnlinkInv'
  BY <1>6 DEF Verify, Fault, Goto, CloseListener, IsSameSocketNode
<1>7. ASSUME NEW s \in Servers, Allocate(s) PROVE UnlinkInv'
  BY <1>7 DEF Allocate, Fault, Goto, CloseListener
<1>8. ASSUME NEW s \in Servers, CloseServer(s) PROVE UnlinkInv'
  BY <1>8 DEF CloseServer, Goto, CloseListener
<1>9. ASSUME NEW s \in Servers, CheckNode(s) PROVE UnlinkInv'
  BY <1>9 DEF CheckNode, Fault, Goto, IsSameSocketNode
<1>10. ASSUME NEW s \in Servers, Unlink(s) PROVE UnlinkInv'
  BY <1>10 DEF Unlink, Fault, Goto
<1>11. ASSUME NEW s \in Servers, Crash(s) PROVE UnlinkInv'
  BY <1>11 DEF Crash, Goto, CloseListener
<1>12. CASE Touch
  BY <1>12 DEF Touch, NewNode, FreeInodes
<1>13. CASE UNCHANGED vars
  BY <1>13 DEF vars
<1>14. QED
  BY <1>1, <1>2, <1>3, <1>4, <1>5, <1>6, <1>7, <1>8, <1>9, <1>10, <1>11, <1>12, <1>13
  DEF Next, Step, Finished

(* Listen and the destructors of other servers leave a bound node alone. *)
LEMMA AloneStep == ASSUME TypeOK, AloneInv, [Next]_vars PROVE AloneInv'
<1> USE EndpointAssumption DEF TypeOK, PC, AloneInv, Binder
<1>1. ASSUME NEW s \in Servers, InspectPath(s) PROVE AloneInv'
  BY <1>1 DEF InspectPath, Fault, Goto
<1>2. ASSUME NEW s \in Servers, Bind(s) PROVE AloneInv'
  <2>1. CASE path' = path /\ Goto(s, "done") /\ outside' = outside
    BY <2>1 DEF Goto
  <2>2. ASSUME NEW i \in FreeInodes, path = None, path' = NewNode(i, "socket", s),
               Goto(s, "inspect_bound"), outside' = outside
        PROVE  AloneInv'
    <3>1. NewNode(i, "socket", s) \in Node
      BY DEF NewNode, Node, Closed, FreeInodes
    <3>2. path' # None /\ path'.by = s BY <2>2, <3>1 DEF NewNode
    <3>3. QED BY <2>2, <3>2 DEF Goto
  <2>3. QED BY <1>2, <2>1, <2>2 DEF Bind
<1>3. ASSUME NEW s \in Servers, InspectBound(s) PROVE AloneInv'
  BY <1>3 DEF InspectBound, Fault, Goto, CloseListener
<1>4. ASSUME NEW s \in Servers, Chmod(s) PROVE AloneInv'
  BY <1>4 DEF Chmod, Fault, Goto, CloseListener
<1>5. ASSUME NEW s \in Servers, ListenCall(s) PROVE AloneInv'
  BY <1>5 DEF ListenCall, Fault, Goto, CloseListener
<1>6. ASSUME NEW s \in Servers, Verify(s) PROVE AloneInv'
  BY <1>6 DEF Verify, Fault, Goto, CloseListener, IsSameSocketNode
<1>7. ASSUME NEW s \in Servers, Allocate(s) PROVE AloneInv'
  BY <1>7 DEF Allocate, Fault, Goto, CloseListener
<1>8. ASSUME NEW s \in Servers, CloseServer(s) PROVE AloneInv'
  BY <1>8 DEF CloseServer, Goto, CloseListener
<1>9. ASSUME NEW s \in Servers, CheckNode(s) PROVE AloneInv'
  BY <1>9 DEF CheckNode, Fault, Goto, IsSameSocketNode
<1>10. ASSUME NEW s \in Servers, Unlink(s) PROVE AloneInv'
  BY <1>10 DEF Unlink, Fault, Goto
<1>11. ASSUME NEW s \in Servers, Crash(s) PROVE AloneInv'
  BY <1>11 DEF Crash, Goto, CloseListener
<1>12. CASE Touch
  BY <1>12 DEF Touch, NewNode, FreeInodes
<1>13. CASE UNCHANGED vars
  BY <1>13 DEF vars
<1>14. QED
  BY <1>1, <1>2, <1>3, <1>4, <1>5, <1>6, <1>7, <1>8, <1>9, <1>10, <1>11, <1>12, <1>13
  DEF Next, Step, Finished

(* Whoever made the node stays on its way to unlink it, unless excused. *)
LEMMA OwnerStep == ASSUME TypeOK, NodeInv, HeldInv, OwnerInv, [Next]_vars PROVE OwnerInv'
<1> USE EndpointAssumption DEF TypeOK, PC, NodeInv, HeldInv, OwnerInv, Binder, Inspected,
  Listening
<1>1. ASSUME NEW s \in Servers, InspectPath(s) PROVE OwnerInv'
  BY <1>1 DEF InspectPath, Fault, Goto
<1>2. ASSUME NEW s \in Servers, Bind(s) PROVE OwnerInv'
  BY <1>2 DEF Bind, Fault, Goto, NewNode, FreeInodes
<1>3. ASSUME NEW s \in Servers, InspectBound(s) PROVE OwnerInv'
  BY <1>3 DEF InspectBound, Fault, Goto, CloseListener
<1>4. ASSUME NEW s \in Servers, Chmod(s) PROVE OwnerInv'
  BY <1>4 DEF Chmod, Fault, Goto, CloseListener
<1>5. ASSUME NEW s \in Servers, ListenCall(s) PROVE OwnerInv'
  BY <1>5 DEF ListenCall, Fault, Goto, CloseListener
<1>6. ASSUME NEW s \in Servers, Verify(s) PROVE OwnerInv'
  BY <1>6 DEF Verify, Fault, Goto, CloseListener, IsSameSocketNode
<1>7. ASSUME NEW s \in Servers, Allocate(s) PROVE OwnerInv'
  BY <1>7 DEF Allocate, Fault, Goto, CloseListener
<1>8. ASSUME NEW s \in Servers, CloseServer(s) PROVE OwnerInv'
  BY <1>8 DEF CloseServer, Goto, CloseListener
<1>9. ASSUME NEW s \in Servers, CheckNode(s) PROVE OwnerInv'
  BY <1>9 DEF CheckNode, Fault, Goto, IsSameSocketNode
<1>10. ASSUME NEW s \in Servers, Unlink(s) PROVE OwnerInv'
  BY <1>10 DEF Unlink, Fault, Goto
<1>11. ASSUME NEW s \in Servers, Crash(s) PROVE OwnerInv'
  BY <1>11 DEF Crash, Goto, CloseListener
<1>12. CASE Touch
  BY <1>12 DEF Touch, NewNode, FreeInodes
<1>13. CASE UNCHANGED vars
  BY <1>13 DEF vars
<1>14. QED
  BY <1>1, <1>2, <1>3, <1>4, <1>5, <1>6, <1>7, <1>8, <1>9, <1>10, <1>11, <1>12, <1>13
  DEF Next, Step, Finished

------------------------------------------------------
(* Together they are inductive. *)
LEMMA EndpointStep == IInv /\ [Next]_vars => IInv'
  BY TypeStep, NodeStep, HeldStep, DistinctStep, UnlinkStep, AloneStep, OwnerStep DEF IInv

(* Who made the node at the path, which inode every server holds and which it
   takes for its own, in every reachable state of any number of servers. *)
THEOREM SpecIInv == Spec => []IInv
<1>1. Init => IInv BY EndpointInit
<1>2. IInv /\ [Next]_vars => IInv' BY EndpointStep
<1>3. QED BY <1>1, <1>2, PTL DEF Spec

(* The variables of LocalIpcEndpoint keep to their types. *)
THEOREM SpecTypeOK == Spec => []TypeOK
<1>1. IInv => TypeOK BY DEF IInv
<1>2. QED BY <1>1, SpecIInv, PTL

(* However many server objects start, fail and are destroyed on one path, a
   serving one is reachable through it while no other program touches it. *)
THEOREM SpecServingIsReachable == Spec => []ServingIsReachable
<1>1. IInv => ServingIsReachable
  BY DEF IInv, AloneInv, Binder, ServingIsReachable
<1>2. QED BY <1>1, SpecIInv, PTL

(* Only a crash, an lstat or unlink that fails, or memory refused to the server
   object leaves a socket behind that nobody listens on: every other failure of
   Listen, and every other destruction, removes the node its own bind made. *)
THEOREM SpecStaleOnlyAfterFault == Spec => []StaleOnlyAfterFault
<1>1. IInv => StaleOnlyAfterFault
  <2> SUFFICES ASSUME IInv, Abandoned, ~excused PROVE FALSE
    BY DEF StaleOnlyAfterFault
  <2> DEFINE s == path.by
  <2>1. path # None /\ s \in Servers /\ pc[s] \in Binder
    BY DEF IInv, Abandoned, NodeInv, OwnerInv
  <2>2. CASE pc[s] \in Listening
    BY <2>1, <2>2 DEF IInv, HeldInv, Abandoned
  <2>3. CASE pc[s] \in {"check", "unlink"}
    BY <2>1, <2>3 DEF IInv, OwnerInv, Inspected, Abandoned
  <2>4. QED BY <2>1, <2>2, <2>3 DEF Binder, Listening
<1>2. QED BY <1>1, SpecIInv, PTL

(* The destructor of a server that inspected its own node unlinks that node,
   or one made after its listener was closed, whatever happens in between. *)
THEOREM SpecOwnNodeOnly == Spec => OwnNodeOnly
<1>1. IInv /\ [Next]_vars =>
        [\A s \in Servers :
           (pc[s] = "unlink" /\ pc'[s] = "done" /\ path # None /\ path' = None)
              => (seen[s] = s => path.by = s \/ s \in path.late)]_vars
  BY DEF IInv, UnlinkInv
<1>2. QED BY <1>1, SpecIInv, PTL DEF Spec, OwnNodeOnly

------------------------------------------------------
(* The exchanges over the endpoint (LocalIpcExchange). *)
Client == Exchange!Clients

Waiting(c) == \E i \in 1 .. Len(pending) : pending[i] = c

(* The server has not read anything of what this client sent. *)
Unread(c) == Waiting(c) \/ (connection = c /\ spc = "read_header")

(* A client waits once, and not while it is served or before it connects. *)
QueueInv ==
    /\ \A i, j \in 1 .. Len(pending) : pending[i] = pending[j] => i = j
    /\ \A c \in Client : Waiting(c) \/ connection = c => cpc[c] # "connect"
    /\ \A c \in Client : Waiting(c) => connection # c

(* What waits to be read first is the frame the client wanted to send. *)
WireInv ==
    \A c \in Client :
        /\ cpc[c] \in {"connect", "send"} => wire[c] = <<>>
        /\ Unread(c) /\ cpc[c] = "send_payload" => wire[c] # <<>>
        /\ Unread(c) /\ wire[c] # <<>> => Head(wire[c]) = request[c]

(* The server works on the frame of the client it is connected to. *)
HeaderInv ==
    /\ spc \in {"read_payload", "process", "write"} =>
          connection \in Client /\ header = request[connection]
    /\ spc = "read_header" => connection \in Client
    /\ spc = "write" =>
          /\ reply \in Exchange!Responses
          /\ Exchange!Matches(header, reply)
          /\ reply.action = "Stop" => header.command = "Shutdown"

(* Nothing is read or answered once Run has returned. *)
RunInv == run # "running" => spc = "returned"

AnswerInv ==
    \A c \in Client : answer[c] # None => Exchange!Matches(request[c], answer[c])

ExchangeInv ==
    Exchange!TypeOK /\ QueueInv /\ WireInv /\ HeaderInv /\ RunInv
      /\ AnswerInv /\ Exchange!StopAfterReply

(* What appending to a line and taking its first frame do to it. *)
LEMMA SeqFacts ==
  ASSUME NEW S, NEW q \in Seq(S)
  PROVE  /\ \A e \in S : /\ Append(q, e) \in Seq(S) /\ Append(q, e) # <<>>
                         /\ q # <<>> => Head(Append(q, e)) = Head(q)
         /\ \A e \in S : <<e>> \in Seq(S) /\ <<e>> # <<>> /\ Head(<<e>>) = e
         /\ q # <<>> => Tail(q) \in Seq(S) /\ Head(q) \in S /\ Len(q) > 0
  OBVIOUS

(* The same of what clients have sent. *)
LEMMA WireFacts ==
  ASSUME Exchange!TypeOK, NEW c \in Client
  PROVE  /\ \A e \in Frames \cup {Exchange!Payload} :
              /\ Append(wire[c], e) \in Seq(Frames \cup {Exchange!Payload})
              /\ Append(wire[c], e) # <<>>
              /\ wire[c] # <<>> => Head(Append(wire[c], e)) = Head(wire[c])
              /\ <<e>> \in Seq(Frames \cup {Exchange!Payload})
              /\ <<e>> # <<>> /\ Head(<<e>>) = e
         /\ wire[c] # <<>> => /\ Tail(wire[c]) \in Seq(Frames \cup {Exchange!Payload})
                              /\ Head(wire[c]) \in Frames \cup {Exchange!Payload}
         /\ request[c] \in Frames
<1> DEFINE S == Frames \cup {Exchange!Payload}
<1>1. wire[c] \in Seq(S) /\ request[c] \in Frames BY DEF Exchange!TypeOK, Client
<1> HIDE DEF S
<1>2. /\ \A e \in S : /\ Append(wire[c], e) \in Seq(S) /\ Append(wire[c], e) # <<>>
                    /\ wire[c] # <<>> => Head(Append(wire[c], e)) = Head(wire[c])
      /\ \A e \in S : <<e>> \in Seq(S) /\ <<e>> # <<>> /\ Head(<<e>>) = e
      /\ wire[c] # <<>> => Tail(wire[c]) \in Seq(S) /\ Head(wire[c]) \in S
  BY <1>1, SeqFacts
<1>3. QED BY <1>1, <1>2 DEF S

(* The backlog is left as it is, or emptied. *)
LEMMA Queued ==
  ASSUME Exchange!ExchangeAssumption, Exchange!TypeOK, pending' \in {pending, <<>>}
  PROVE  pending' \in Seq(Exchange!Clients) /\ Len(pending') <= Backlog + 1
<1>1. CASE pending' = pending
  BY <1>1 DEF Exchange!TypeOK
<1>2. CASE pending' = <<>>
  <2>1. Backlog \in Nat BY DEF Exchange!ExchangeAssumption
  <2>2. <<>> \in Seq(Exchange!Clients) OBVIOUS
  <2>3. QED BY <1>2, <2>1, <2>2
<1>3. QED BY <1>1, <1>2

(* Nobody has connected yet. *)
LEMMA ExchangeInit == Exchange!ExchangeAssumption /\ Exchange!Init => ExchangeInv
  BY DEF Exchange!ExchangeAssumption, Exchange!Init, Exchange!Clients, Client, ExchangeInv,
    Exchange!TypeOK, QueueInv, WireInv, HeaderInv, RunInv, AnswerInv, Waiting, Unread,
    Exchange!StopAfterReply, Exchange!Results

(* Every step of the server and of a client keeps the types. *)
LEMMA ExchangeTypeStep ==
  ASSUME Exchange!ExchangeAssumption, Exchange!TypeOK, HeaderInv,
         [Exchange!Next]_(Exchange!vars)
  PROVE  Exchange!TypeOK'
<1> USE DEF Client, Exchange!Clients, Exchange!ExchangeAssumption, Exchange!TypeOK,
  Exchange!Results, HeaderInv, Exchange!server_vars, Exchange!client_vars
<1>1. CASE Exchange!Listen
  BY <1>1 DEF Exchange!Listen
<1>2. CASE Exchange!AcceptConnection
  BY <1>2 DEF Exchange!AcceptConnection
<1>3. CASE Exchange!ReadHeader
  <2> DEFINE c == connection
  <2>1. pending' \in Seq(Exchange!Clients) /\ Len(pending') <= Backlog + 1
    <3>1. pending' \in {pending, <<>>}
      BY <1>3 DEF Exchange!ReadHeader, Exchange!Return
    <3>2. QED BY <3>1, Queued
  <2>2. wire' \in [Client -> Seq(Frames \cup {Exchange!Payload})]
    <3>1. CASE wire[c] # <<>> /\ wire' = [wire EXCEPT ![c] = Tail(wire[c])]
      <4>1. c \in Client /\ Tail(wire[c]) \in Seq(Frames \cup {Exchange!Payload})
        BY <1>3, <3>1, WireFacts DEF Exchange!ReadHeader
      <4>2. QED BY <3>1, <4>1
    <3>2. QED BY <1>3, <3>1 DEF Exchange!ReadHeader, Exchange!Arrived
  <2>3. QED BY <1>3, <2>1, <2>2 DEF Exchange!ReadHeader, Exchange!Return
<1>4. CASE Exchange!ReadPayload
  <2> DEFINE c == connection
  <2>1. pending' \in Seq(Exchange!Clients) /\ Len(pending') <= Backlog + 1
    <3>1. pending' \in {pending, <<>>}
      BY <1>4 DEF Exchange!ReadPayload, Exchange!Return
    <3>2. QED BY <3>1, Queued
  <2>2. wire' \in [Client -> Seq(Frames \cup {Exchange!Payload})]
    <3>1. CASE wire[c] # <<>> /\ wire' = [wire EXCEPT ![c] = Tail(wire[c])]
      <4>1. c \in Client /\ Tail(wire[c]) \in Seq(Frames \cup {Exchange!Payload})
        BY <1>4, <3>1, WireFacts DEF Exchange!ReadPayload
      <4>2. QED BY <3>1, <4>1
    <3>2. QED BY <1>4, <3>1 DEF Exchange!ReadPayload, Exchange!Arrived
  <2>3. QED BY <1>4, <2>1, <2>2 DEF Exchange!ReadPayload, Exchange!Return
<1>5. CASE Exchange!ProcessRequest
  BY <1>5 DEF Exchange!ProcessRequest, Exchange!Processed, Exchange!Response,
    Exchange!KnownCommands
<1>6. CASE Exchange!WriteReply
  <2>1. answer' \in [Client -> Exchange!Responses \cup {None}]
    BY <1>6 DEF Exchange!WriteReply
  <2>2. run' \in {"running", "stopped", "failed"} /\ connection' = None
          /\ spc' \in {"accept", "returned"} /\ open' \subseteq open
          /\ listener' \in {listener, "closed"} /\ pending' \in {pending, <<>>}
    BY <1>6 DEF Exchange!WriteReply, Exchange!Return, Exchange!NextRequest
  <2>3. UNCHANGED <<cpc, request, result, wire>> BY <1>6 DEF Exchange!WriteReply
  <2>4. pending' \in Seq(Exchange!Clients) /\ Len(pending') <= Backlog + 1
    BY <2>2, Queued
  <2>5. open' \subseteq Exchange!Clients \X {"client", "server"} BY <2>2
  <2>6. QED BY <2>1, <2>2, <2>3, <2>4, <2>5
<1>7. ASSUME NEW c \in Client, Exchange!Connect(c) PROVE Exchange!TypeOK'
  BY <1>7 DEF Exchange!Connect
<1>8. ASSUME NEW c \in Exchangers, Exchange!ConnectTimeout(c) PROVE Exchange!TypeOK'
  BY <1>8 DEF Exchange!ConnectTimeout, Exchange!Leave
<1>9. ASSUME NEW c \in Exchangers, Exchange!Send(c) PROVE Exchange!TypeOK'
  <2>1. wire' \in [Client -> Seq(Frames \cup {Exchange!Payload})]
    <3>1. <<request[c]>> \in Seq(Frames \cup {Exchange!Payload}) BY WireFacts
    <3>2. QED BY <1>9, <3>1 DEF Exchange!Send
  <2>2. QED BY <1>9, <2>1 DEF Exchange!Send, Exchange!Leave
<1>10. ASSUME NEW c \in Exchangers, Exchange!SendPayload(c) PROVE Exchange!TypeOK'
  <2>1. wire' \in [Client -> Seq(Frames \cup {Exchange!Payload})]
    <3>1. Append(wire[c], Exchange!Payload) \in Seq(Frames \cup {Exchange!Payload})
      BY WireFacts
    <3>2. QED BY <1>10, <3>1 DEF Exchange!SendPayload
  <2>2. QED BY <1>10, <2>1 DEF Exchange!SendPayload, Exchange!Leave
<1>11. ASSUME NEW c \in Exchangers, Exchange!ReadAnswer(c) PROVE Exchange!TypeOK'
  BY <1>11 DEF Exchange!ReadAnswer, Exchange!Leave
<1>12. ASSUME NEW c \in Peers, Exchange!PeerSends(c) PROVE Exchange!TypeOK'
  BY WireFacts, <1>12 DEF Exchange!PeerSends
<1>13. ASSUME NEW c \in Peers, Exchange!PeerLeaves(c) PROVE Exchange!TypeOK'
  BY <1>13 DEF Exchange!PeerLeaves, Exchange!Leave
<1>14. CASE UNCHANGED Exchange!vars
  BY <1>14 DEF Exchange!vars
<1>15. QED
  BY <1>1, <1>2, <1>3, <1>4, <1>5, <1>6, <1>7, <1>8, <1>9, <1>10, <1>11, <1>12, <1>13, <1>14
    DEF Exchange!Next, Exchange!Server, Exchange!Exchange, Exchange!Peer, Exchange!Finished

(* A client connects once, so it is queued once and then served. *)
LEMMA QueueStep ==
  ASSUME Exchange!ExchangeAssumption, Exchange!TypeOK, QueueInv, [Exchange!Next]_(Exchange!vars)
  PROVE  QueueInv'
<1> USE DEF Client, Exchange!Clients, Exchange!ExchangeAssumption, Exchange!TypeOK, QueueInv,
  Waiting, Exchange!server_vars, Exchange!client_vars
<1>1. CASE Exchange!Listen
  BY <1>1 DEF Exchange!Listen
<1>2. CASE Exchange!AcceptConnection
  BY <1>2 DEF Exchange!AcceptConnection
<1>3. CASE Exchange!ReadHeader
  BY <1>3 DEF Exchange!ReadHeader, Exchange!Return, Exchange!ValidHeader, Exchange!Arrived,
    Exchange!PeerClosed
<1>4. CASE Exchange!ReadPayload
  BY <1>4 DEF Exchange!ReadPayload, Exchange!Return, Exchange!Arrived, Exchange!PeerClosed
<1>5. CASE Exchange!ProcessRequest
  BY <1>5 DEF Exchange!ProcessRequest, Exchange!Processed, Exchange!Response,
    Exchange!KnownCommands
<1>6. CASE Exchange!WriteReply
  BY <1>6 DEF Exchange!WriteReply, Exchange!Return, Exchange!NextRequest
<1>7. ASSUME NEW c \in Client, Exchange!Connect(c) PROVE QueueInv'
  BY <1>7 DEF Exchange!Connect
<1>8. ASSUME NEW c \in Exchangers, Exchange!ConnectTimeout(c) PROVE QueueInv'
  BY <1>8 DEF Exchange!ConnectTimeout, Exchange!Leave
<1>9. ASSUME NEW c \in Exchangers, Exchange!Send(c) PROVE QueueInv'
  BY <1>9 DEF Exchange!Send, Exchange!Leave
<1>10. ASSUME NEW c \in Exchangers, Exchange!SendPayload(c) PROVE QueueInv'
  BY <1>10, ZenonT(40) DEF Exchange!SendPayload, Exchange!Leave
<1>11. ASSUME NEW c \in Exchangers, Exchange!ReadAnswer(c) PROVE QueueInv'
  BY <1>11 DEF Exchange!ReadAnswer, Exchange!Leave
<1>12. ASSUME NEW c \in Peers, Exchange!PeerSends(c) PROVE QueueInv'
  BY <1>12 DEF Exchange!PeerSends
<1>13. ASSUME NEW c \in Peers, Exchange!PeerLeaves(c) PROVE QueueInv'
  BY <1>13 DEF Exchange!PeerLeaves, Exchange!Leave
<1>14. CASE UNCHANGED Exchange!vars
  BY <1>14 DEF Exchange!vars
<1>15. QED
  BY <1>1, <1>2, <1>3, <1>4, <1>5, <1>6, <1>7, <1>8, <1>9, <1>10, <1>11, <1>12, <1>13, <1>14
    DEF Exchange!Next, Exchange!Server, Exchange!Exchange, Exchange!Peer, Exchange!Finished

(* What a client sends first stays first until the server reads it. *)
LEMMA WireStep ==
  ASSUME Exchange!ExchangeAssumption, Exchange!TypeOK, QueueInv, WireInv,
         [Exchange!Next]_(Exchange!vars)
  PROVE  WireInv'
<1> USE DEF Client, Exchange!Clients, Exchange!ExchangeAssumption, Exchange!TypeOK, QueueInv,
  WireInv, Waiting, Unread, Exchange!server_vars, Exchange!client_vars
<1>1. CASE Exchange!Listen
  BY <1>1 DEF Exchange!Listen
<1>2. CASE Exchange!AcceptConnection
  BY <1>2 DEF Exchange!AcceptConnection
<1>3. CASE Exchange!ReadHeader
  BY WireFacts, <1>3 DEF Exchange!ReadHeader, Exchange!Return, Exchange!ValidHeader,
    Exchange!Arrived, Exchange!PeerClosed
<1>4. CASE Exchange!ReadPayload
  BY WireFacts, <1>4 DEF Exchange!ReadPayload, Exchange!Return, Exchange!Arrived,
    Exchange!PeerClosed
<1>5. CASE Exchange!ProcessRequest
  BY <1>5 DEF Exchange!ProcessRequest, Exchange!Processed, Exchange!Response,
    Exchange!KnownCommands
<1>6. CASE Exchange!WriteReply
  BY <1>6 DEF Exchange!WriteReply, Exchange!Return, Exchange!NextRequest
<1>7. ASSUME NEW c \in Client, Exchange!Connect(c) PROVE WireInv'
  BY <1>7 DEF Exchange!Connect
<1>8. ASSUME NEW c \in Exchangers, Exchange!ConnectTimeout(c) PROVE WireInv'
  BY <1>8 DEF Exchange!ConnectTimeout, Exchange!Leave
<1>9. ASSUME NEW c \in Exchangers, Exchange!Send(c) PROVE WireInv'
  <2>1. <<request[c]>> # <<>> /\ Head(<<request[c]>>) = request[c] BY WireFacts
  <2>2. QED BY <1>9, <2>1 DEF Exchange!Send, Exchange!Leave
<1>10. ASSUME NEW c \in Exchangers, Exchange!SendPayload(c) PROVE WireInv'
  <2>1. /\ Append(wire[c], Exchange!Payload) # <<>>
        /\ wire[c] # <<>> => Head(Append(wire[c], Exchange!Payload)) = Head(wire[c])
    BY WireFacts
  <2>2. QED BY <1>10, <2>1, ZenonT(40) DEF Exchange!SendPayload, Exchange!Leave
<1>11. ASSUME NEW c \in Exchangers, Exchange!ReadAnswer(c) PROVE WireInv'
  BY <1>11 DEF Exchange!ReadAnswer, Exchange!Leave
<1>12. ASSUME NEW c \in Peers, Exchange!PeerSends(c) PROVE WireInv'
  BY WireFacts, <1>12 DEF Exchange!PeerSends
<1>13. ASSUME NEW c \in Peers, Exchange!PeerLeaves(c) PROVE WireInv'
  BY <1>13 DEF Exchange!PeerLeaves, Exchange!Leave
<1>14. CASE UNCHANGED Exchange!vars
  BY <1>14 DEF Exchange!vars
<1>15. QED
  BY <1>1, <1>2, <1>3, <1>4, <1>5, <1>6, <1>7, <1>8, <1>9, <1>10, <1>11, <1>12, <1>13, <1>14
    DEF Exchange!Next, Exchange!Server, Exchange!Exchange, Exchange!Peer, Exchange!Finished

(* The frame and the reply at hand belong to the client being served. *)
LEMMA HeaderStep ==
  ASSUME Exchange!ExchangeAssumption, Exchange!TypeOK, WireInv, HeaderInv,
         [Exchange!Next]_(Exchange!vars)
  PROVE  HeaderInv'
<1> USE DEF Client, Exchange!Clients, Exchange!ExchangeAssumption, Exchange!TypeOK, WireInv,
  HeaderInv, Unread, Exchange!server_vars, Exchange!client_vars
<1>1. CASE Exchange!Listen
  BY <1>1 DEF Exchange!Listen
<1>2. CASE Exchange!AcceptConnection
  BY <1>2 DEF Exchange!AcceptConnection
<1>3. CASE Exchange!ReadHeader
  BY WireFacts, <1>3 DEF Exchange!ReadHeader, Exchange!Return, Exchange!ValidHeader,
    Exchange!Arrived, Exchange!PeerClosed
<1>4. CASE Exchange!ReadPayload
  BY WireFacts, <1>4 DEF Exchange!ReadPayload, Exchange!Return, Exchange!Arrived,
    Exchange!PeerClosed
<1>5. CASE Exchange!ProcessRequest
  BY <1>5 DEF Exchange!ProcessRequest, Exchange!Processed, Exchange!Response,
    Exchange!KnownCommands, Exchange!Responses, Exchange!Statuses, Exchange!Matches
<1>6. CASE Exchange!WriteReply
  BY <1>6 DEF Exchange!WriteReply, Exchange!Return, Exchange!NextRequest
<1>7. ASSUME NEW c \in Client, Exchange!Connect(c) PROVE HeaderInv'
  BY <1>7 DEF Exchange!Connect
<1>8. ASSUME NEW c \in Exchangers, Exchange!ConnectTimeout(c) PROVE HeaderInv'
  BY <1>8 DEF Exchange!ConnectTimeout, Exchange!Leave
<1>9. ASSUME NEW c \in Exchangers, Exchange!Send(c) PROVE HeaderInv'
  BY WireFacts, <1>9 DEF Exchange!Send, Exchange!Leave
<1>10. ASSUME NEW c \in Exchangers, Exchange!SendPayload(c) PROVE HeaderInv'
  BY WireFacts, <1>10 DEF Exchange!SendPayload, Exchange!Leave
<1>11. ASSUME NEW c \in Exchangers, Exchange!ReadAnswer(c) PROVE HeaderInv'
  BY <1>11 DEF Exchange!ReadAnswer, Exchange!Leave
<1>12. ASSUME NEW c \in Peers, Exchange!PeerSends(c) PROVE HeaderInv'
  BY WireFacts, <1>12 DEF Exchange!PeerSends
<1>13. ASSUME NEW c \in Peers, Exchange!PeerLeaves(c) PROVE HeaderInv'
  BY <1>13 DEF Exchange!PeerLeaves, Exchange!Leave
<1>14. CASE UNCHANGED Exchange!vars
  BY <1>14 DEF Exchange!vars
<1>15. QED
  BY <1>1, <1>2, <1>3, <1>4, <1>5, <1>6, <1>7, <1>8, <1>9, <1>10, <1>11, <1>12, <1>13, <1>14
    DEF Exchange!Next, Exchange!Server, Exchange!Exchange, Exchange!Peer, Exchange!Finished

(* A run that ended does not go on. *)
LEMMA RunStep ==
  ASSUME Exchange!ExchangeAssumption, RunInv, [Exchange!Next]_(Exchange!vars)
  PROVE  RunInv'
<1> USE DEF Client, Exchange!Clients, Exchange!ExchangeAssumption, RunInv,
  Exchange!server_vars, Exchange!client_vars
<1>1. CASE Exchange!Listen
  BY <1>1 DEF Exchange!Listen
<1>2. CASE Exchange!AcceptConnection
  BY <1>2 DEF Exchange!AcceptConnection
<1>3. CASE Exchange!ReadHeader
  BY <1>3 DEF Exchange!ReadHeader, Exchange!Return, Exchange!ValidHeader, Exchange!Arrived,
    Exchange!PeerClosed
<1>4. CASE Exchange!ReadPayload
  BY <1>4 DEF Exchange!ReadPayload, Exchange!Return, Exchange!Arrived, Exchange!PeerClosed
<1>5. CASE Exchange!ProcessRequest
  BY <1>5 DEF Exchange!ProcessRequest, Exchange!Processed, Exchange!Response,
    Exchange!KnownCommands
<1>6. CASE Exchange!WriteReply
  BY <1>6 DEF Exchange!WriteReply, Exchange!Return, Exchange!NextRequest
<1>7. ASSUME NEW c \in Client, Exchange!Connect(c) PROVE RunInv'
  BY <1>7 DEF Exchange!Connect
<1>8. ASSUME NEW c \in Exchangers, Exchange!ConnectTimeout(c) PROVE RunInv'
  BY <1>8 DEF Exchange!ConnectTimeout, Exchange!Leave
<1>9. ASSUME NEW c \in Exchangers, Exchange!Send(c) PROVE RunInv'
  BY <1>9 DEF Exchange!Send, Exchange!Leave
<1>10. ASSUME NEW c \in Exchangers, Exchange!SendPayload(c) PROVE RunInv'
  BY <1>10 DEF Exchange!SendPayload, Exchange!Leave
<1>11. ASSUME NEW c \in Exchangers, Exchange!ReadAnswer(c) PROVE RunInv'
  BY <1>11 DEF Exchange!ReadAnswer, Exchange!Leave
<1>12. ASSUME NEW c \in Peers, Exchange!PeerSends(c) PROVE RunInv'
  BY <1>12 DEF Exchange!PeerSends
<1>13. ASSUME NEW c \in Peers, Exchange!PeerLeaves(c) PROVE RunInv'
  BY <1>13 DEF Exchange!PeerLeaves, Exchange!Leave
<1>14. CASE UNCHANGED Exchange!vars
  BY <1>14 DEF Exchange!vars
<1>15. QED
  BY <1>1, <1>2, <1>3, <1>4, <1>5, <1>6, <1>7, <1>8, <1>9, <1>10, <1>11, <1>12, <1>13, <1>14
    DEF Exchange!Next, Exchange!Server, Exchange!Exchange, Exchange!Peer, Exchange!Finished

(* A reply is written to the client whose request it answers. *)
LEMMA AnswerStep ==
  ASSUME Exchange!ExchangeAssumption, Exchange!TypeOK, HeaderInv, AnswerInv,
         [Exchange!Next]_(Exchange!vars)
  PROVE  AnswerInv'
<1> USE DEF Client, Exchange!Clients, Exchange!ExchangeAssumption, Exchange!TypeOK, HeaderInv,
  AnswerInv, Exchange!Matches, Exchange!server_vars, Exchange!client_vars
<1>1. CASE Exchange!Listen
  BY <1>1 DEF Exchange!Listen
<1>2. CASE Exchange!AcceptConnection
  BY <1>2 DEF Exchange!AcceptConnection
<1>3. CASE Exchange!ReadHeader
  BY <1>3 DEF Exchange!ReadHeader, Exchange!Return, Exchange!ValidHeader, Exchange!Arrived,
    Exchange!PeerClosed
<1>4. CASE Exchange!ReadPayload
  BY <1>4 DEF Exchange!ReadPayload, Exchange!Return, Exchange!Arrived, Exchange!PeerClosed
<1>5. CASE Exchange!ProcessRequest
  BY <1>5 DEF Exchange!ProcessRequest, Exchange!Processed, Exchange!Response,
    Exchange!KnownCommands
<1>6. CASE Exchange!WriteReply
  BY <1>6 DEF Exchange!WriteReply, Exchange!Return, Exchange!NextRequest
<1>7. ASSUME NEW c \in Client, Exchange!Connect(c) PROVE AnswerInv'
  BY <1>7 DEF Exchange!Connect
<1>8. ASSUME NEW c \in Exchangers, Exchange!ConnectTimeout(c) PROVE AnswerInv'
  BY <1>8 DEF Exchange!ConnectTimeout, Exchange!Leave
<1>9. ASSUME NEW c \in Exchangers, Exchange!Send(c) PROVE AnswerInv'
  BY <1>9 DEF Exchange!Send, Exchange!Leave
<1>10. ASSUME NEW c \in Exchangers, Exchange!SendPayload(c) PROVE AnswerInv'
  BY <1>10 DEF Exchange!SendPayload, Exchange!Leave
<1>11. ASSUME NEW c \in Exchangers, Exchange!ReadAnswer(c) PROVE AnswerInv'
  BY <1>11 DEF Exchange!ReadAnswer, Exchange!Leave
<1>12. ASSUME NEW c \in Peers, Exchange!PeerSends(c) PROVE AnswerInv'
  BY <1>12 DEF Exchange!PeerSends
<1>13. ASSUME NEW c \in Peers, Exchange!PeerLeaves(c) PROVE AnswerInv'
  BY <1>13 DEF Exchange!PeerLeaves, Exchange!Leave
<1>14. CASE UNCHANGED Exchange!vars
  BY <1>14 DEF Exchange!vars
<1>15. QED
  BY <1>1, <1>2, <1>3, <1>4, <1>5, <1>6, <1>7, <1>8, <1>9, <1>10, <1>11, <1>12, <1>13, <1>14
    DEF Exchange!Next, Exchange!Server, Exchange!Exchange, Exchange!Peer, Exchange!Finished

(* Only a reply that was written stops the run. *)
LEMMA StopStep ==
  ASSUME Exchange!ExchangeAssumption, Exchange!TypeOK, HeaderInv, RunInv, Exchange!StopAfterReply,
         [Exchange!Next]_(Exchange!vars)
  PROVE  Exchange!StopAfterReply'
<1> USE DEF Client, Exchange!Clients, Exchange!ExchangeAssumption, Exchange!TypeOK, HeaderInv,
  RunInv, Exchange!StopAfterReply, Exchange!server_vars, Exchange!client_vars
<1>1. CASE Exchange!Listen
  BY <1>1 DEF Exchange!Listen
<1>2. CASE Exchange!AcceptConnection
  BY <1>2 DEF Exchange!AcceptConnection
<1>3. CASE Exchange!ReadHeader
  BY <1>3 DEF Exchange!ReadHeader, Exchange!Return, Exchange!ValidHeader, Exchange!Arrived,
    Exchange!PeerClosed
<1>4. CASE Exchange!ReadPayload
  BY <1>4 DEF Exchange!ReadPayload, Exchange!Return, Exchange!Arrived, Exchange!PeerClosed
<1>5. CASE Exchange!ProcessRequest
  BY <1>5 DEF Exchange!ProcessRequest, Exchange!Processed, Exchange!Response,
    Exchange!KnownCommands
<1>6. CASE Exchange!WriteReply
  BY <1>6, ZenonT(40) DEF Exchange!WriteReply, Exchange!Return, Exchange!NextRequest
<1>7. ASSUME NEW c \in Client, Exchange!Connect(c) PROVE Exchange!StopAfterReply'
  BY <1>7 DEF Exchange!Connect
<1>8. ASSUME NEW c \in Exchangers, Exchange!ConnectTimeout(c) PROVE Exchange!StopAfterReply'
  BY <1>8 DEF Exchange!ConnectTimeout, Exchange!Leave
<1>9. ASSUME NEW c \in Exchangers, Exchange!Send(c) PROVE Exchange!StopAfterReply'
  BY <1>9 DEF Exchange!Send, Exchange!Leave
<1>10. ASSUME NEW c \in Exchangers, Exchange!SendPayload(c) PROVE Exchange!StopAfterReply'
  BY <1>10 DEF Exchange!SendPayload, Exchange!Leave
<1>11. ASSUME NEW c \in Exchangers, Exchange!ReadAnswer(c) PROVE Exchange!StopAfterReply'
  BY <1>11 DEF Exchange!ReadAnswer, Exchange!Leave
<1>12. ASSUME NEW c \in Peers, Exchange!PeerSends(c) PROVE Exchange!StopAfterReply'
  BY <1>12 DEF Exchange!PeerSends
<1>13. ASSUME NEW c \in Peers, Exchange!PeerLeaves(c) PROVE Exchange!StopAfterReply'
  BY <1>13 DEF Exchange!PeerLeaves, Exchange!Leave
<1>14. CASE UNCHANGED Exchange!vars
  BY <1>14 DEF Exchange!vars
<1>15. QED
  BY <1>1, <1>2, <1>3, <1>4, <1>5, <1>6, <1>7, <1>8, <1>9, <1>10, <1>11, <1>12, <1>13, <1>14
    DEF Exchange!Next, Exchange!Server, Exchange!Exchange, Exchange!Peer, Exchange!Finished

(* Together they are inductive. *)
LEMMA ExchangeStep ==
  Exchange!ExchangeAssumption /\ ExchangeInv /\ [Exchange!Next]_(Exchange!vars) => ExchangeInv'
  BY ExchangeTypeStep, QueueStep, WireStep, HeaderStep, RunStep, AnswerStep, StopStep DEF
    ExchangeInv

(* For any clients, frames and backlog: a reply that reaches an Exchange is
   the answer to its own request, and a run that has stopped had its stop
   asked for, and the reply handed over, before the listener was closed. *)
THEOREM ExchangeRepliesSound ==
  ASSUME Exchange!ExchangeAssumption
  PROVE  Exchange!Spec => []RepliesSound
<1>1. Exchange!Init => ExchangeInv BY ExchangeInit
<1>2. ExchangeInv /\ [Exchange!Next]_(Exchange!vars) => ExchangeInv'
  BY ExchangeStep
<1>3. ExchangeInv => RepliesSound
  BY DEF ExchangeInv, AnswerInv, RepliesSound, Exchange!RepliesSound,
    Exchange!AnswersItsRequest, Client, Exchange!Clients
<1>4. QED BY <1>1, <1>2, <1>3, PTL DEF Exchange!Spec

------------------------------------------------------
(* The extensions of an Engine (ExtensionLifecycle), for any libraries at any
   paths. *)

Before == {pair \in Nat \X Nat : pair[1] < pair[2]}

(* Induction over the subsets of a finite set: a family that holds a subset
   when it holds all that lack one element of it holds every subset. *)
LEMMA SubsetInduction ==
  ASSUME NEW S, IsFiniteSet(S), NEW A \in SUBSET SUBSET S,
         \A s \in SUBSET S : (\A x \in s : s \ {x} \in A) => s \in A
  PROVE  A = SUBSET S
<1> DEFINE sizes == {Cardinality(s) : s \in (SUBSET S) \ A}
<1>1. \A s \in SUBSET S :
          /\ Cardinality(s) \in Nat
          /\ \A x \in s : s \ {x} \in SUBSET S /\ Cardinality(s \ {x}) = Cardinality(s) - 1
  BY FS_Subset, FS_CardinalityType, FS_RemoveElement
<1>2. SUFFICES ASSUME sizes # {} PROVE FALSE
  OBVIOUS
<1>3. PICK n \in sizes : \A m \in sizes : <<m, n>> \notin Before
  <2>1. sizes \in SUBSET Nat BY <1>1
  <2>2. IsWellFoundedOn(Before, Nat)
    BY NatLessThanWellFounded DEF OpToRel, Before
  <2> HIDE DEF sizes
  <2>3. QED BY <1>2, <2>1, <2>2, WFMin
<1>4. PICK s \in (SUBSET S) \ A : n = Cardinality(s) BY <1>3
<1>5. PICK x \in s : s \ {x} \notin A BY <1>4
<1>6. s \ {x} \in SUBSET S /\ Cardinality(s \ {x}) \in Nat /\ n \in Nat
      /\ Cardinality(s \ {x}) < n
  BY <1>1, <1>4
<1>7. <<Cardinality(s \ {x}), n>> \in Before BY <1>6 DEF Before
<1>8. Cardinality(s \ {x}) \in sizes BY <1>5, <1>6
<1>9. QED BY <1>3, <1>7, <1>8

(* The fold takes the last element of a non-empty set of positions first. *)
LEMMA LastPosition ==
  ASSUME NEW n \in Nat, NEW s \in SUBSET (1 .. n), s # {}
  PROVE  Extensions!Max(s) \in s
<1> DEFINE gaps == {n - i : i \in s}
<1>1. gaps \in SUBSET Nat /\ gaps # {}
  <2>1. \A i \in s : n - i \in Nat OBVIOUS
  <2>2. QED BY <2>1
<1>2. IsWellFoundedOn(Before, Nat) BY NatLessThanWellFounded DEF OpToRel, Before
<1>3. PICK d \in gaps : \A e \in gaps : <<e, d>> \notin Before
  <2> HIDE DEF gaps
  <2>1. QED BY <1>1, <1>2, WFMin
<1>4. PICK m \in s : d = n - m BY <1>3
<1>5. ASSUME NEW i \in s PROVE m >= i
  <2>1. n - i \in gaps BY <1>5
  <2>2. <<n - i, d>> \notin Before BY <1>3, <2>1
  <2>3. n - i \in Nat /\ d \in Nat BY <1>1, <1>3, <2>1
  <2>4. ~(n - i < n - m) BY <1>4, <2>2, <2>3 DEF Before
  <2>5. QED BY <2>4
<1>6. \E m1 \in s : \A i \in s : m1 >= i BY <1>5
<1>7. QED BY <1>6 DEF Extensions!Max

------------------------------------------------------
(* The invariant. *)
Query == Library \X (1 .. MaxQueries)

Process ==
    [mapped : [Library -> Int], live : SUBSET Query,
     created : [Library -> 0 .. MaxQueries], stray : BOOLEAN]

(* What a complete extension is: its context was created by the library it
   has mapped. *)
Loaded == {o \in [handle : Library, context : Query, path : Path] : o.context[1] = o.handle}

(* The positions of the backends of one library. *)
copies(l) == {i \in 1 .. Len(backends) : backends[i].handle = l}

contexts == {backends[i].context : i \in 1 .. Len(backends)}

LoadInv ==
    /\ process \in Process
    /\ backends \in Seq(Loaded)
    /\ step \in {"idle", "opened", "loaded", "interfaced", "gone"}
    /\ step \in {"idle", "gone"} => local = Extensions!Empty
    /\ step = "opened" => local \in [handle : Library, context : {None}, path : Path]
    /\ step \in {"loaded", "interfaced"} => local \in Loaded

(* Each live context belongs to one backend or to the load in progress. *)
LiveInv ==
    /\ ~process.stray
    /\ \A c \in process.live : c[2] <= process.created[c[1]]
    /\ process.live = contexts \cup ({local.context} \ {None})
    /\ local.context \notin contexts
    /\ \A i, j \in 1 .. Len(backends) : backends[i].context = backends[j].context => i = j

MappedInv ==
    \A l \in Library :
        process.mapped[l] = Cardinality(copies(l)) + (IF local.handle = l THEN 1 ELSE 0)

ExtensionInv == LoadInv /\ LiveInv /\ MappedInv

(* A set of positions is finite. *)
LEMMA PositionsFinite ==
  ASSUME NEW n \in Nat, NEW A \in SUBSET (1 .. n)
  PROVE  IsFiniteSet(A) /\ Cardinality(A) \in Nat
<1>1. IsFiniteSet(1 .. n) BY FS_Interval
<1>2. IsFiniteSet(A) BY <1>1, FS_Subset
<1>3. QED BY <1>2, FS_CardinalityType

(* The positions of one library in a list of extensions. *)
copies_in(q, l) == {i \in 1 .. Len(q) : q[i].handle = l}

(* Appending a backend adds a copy of its library and of no other. *)
LEMMA OneMoreCopy ==
  ASSUME NEW q \in Seq(Loaded), NEW o \in Loaded, NEW l
  PROVE  Cardinality(copies_in(Append(q, o), l))
           = Cardinality(copies_in(q, l)) + (IF o.handle = l THEN 1 ELSE 0)
<1> DEFINE r == Append(q, o)
           A == {i \in 1 .. Len(q) : q[i].handle = l}
           B == {i \in 1 .. Len(r) : r[i].handle = l}
           n == Len(q)
<1>1. n \in Nat /\ Len(r) = n + 1 /\ r[n + 1] = o /\ \A i \in 1 .. n : r[i] = q[i]
  OBVIOUS
<1>2. IsFiniteSet(A) /\ Cardinality(A) \in Nat
  <2>1. A \in SUBSET (1 .. n) OBVIOUS
  <2> HIDE DEF A
  <2>2. QED BY <1>1, <2>1, PositionsFinite
<1>3. CASE o.handle = l
  <2>1. B = A \cup {n + 1} /\ n + 1 \notin A BY <1>1, <1>3
  <2> HIDE DEF A, B
  <2>2. Cardinality(A \cup {n + 1}) = Cardinality(A) + 1
    BY <1>2, <2>1, FS_AddElement
  <2>3. QED BY <1>3, <2>1, <2>2 DEF A, B, copies_in
<1>4. CASE o.handle # l
  <2>1. B = A BY <1>1, <1>4
  <2> HIDE DEF A, B
  <2>2. Cardinality(B) = Cardinality(A) + 0 BY <1>2, <2>1
  <2>3. QED BY <1>4, <2>2 DEF A, B, copies_in
<1>5. QED BY <1>3, <1>4

(* None is neither a library nor a context. *)
LEMMA Distinct ==
  ASSUME Extensions!LibraryAssumption
  PROVE  None \notin Library /\ None \notin Query /\ LibraryOf \in [Path -> Library]
  BY DEF Extensions!LibraryAssumption, Query

(* What a query and a close change of the process. *)
LEMMA Created ==
  ASSUME NEW p \in Process, NEW l, NEW c, NEW r, r = [p EXCEPT !.live = l, !.created = c]
  PROVE  r = [mapped |-> p.mapped, live |-> l, created |-> c, stray |-> p.stray]
<1>1. r.mapped = p.mapped /\ r.live = l BY DEF Process
<1>2. r.created = c /\ r.stray = p.stray BY DEF Process
<1>3. DOMAIN r = {"mapped", "live", "created", "stray"} /\ r = [f \in DOMAIN r |-> r[f]]
  BY DEF Process
<1>4. QED BY <1>1, <1>2, <1>3

(* Closing a library takes one of its mappings. *)
LEMMA Unmapped ==
  ASSUME NEW m, NEW l, NEW c, NEW s, NEW o, o.handle # None, NEW r,
         r = [mapped |-> m, live |-> l, created |-> c, stray |-> s]
  PROVE  Extensions!close(r, o)
           = [mapped |-> [m EXCEPT ![o.handle] = @ - 1], live |-> l, created |-> c, stray |-> s]
<1> DEFINE h == o.handle
<1>1. Extensions!close(r, o) = [r EXCEPT !.mapped[h] = @ - 1]
  BY DEF Extensions!close
<1> HIDE DEF h
<1>2. [r EXCEPT !.mapped[h] = @ - 1]
        = [mapped |-> [m EXCEPT ![h] = @ - 1], live |-> l, created |-> c, stray |-> s]
  OBVIOUS
<1>3. QED BY <1>1, <1>2 DEF h

(* A call that lands changes nothing the model keeps. *)
LEMMA CallLands ==
  ASSUME NEW p \in Process, ~p.stray, NEW o \in Loaded,
         p.mapped[o.handle] > 0, o.context \in p.live
  PROVE  Extensions!callable(p, o) /\ Extensions!call(p, o) = p
<1>1. Extensions!callable(p, o) BY DEF Extensions!callable, Loaded
<1>2. p.stray = FALSE /\ (p.stray \/ ~Extensions!callable(p, o)) = FALSE
  BY <1>1, Zenon DEF Process
<1>3. QED BY <1>1, <1>2 DEF Extensions!call, Process

(* Destroying a complete extension takes its context and then its mapping. *)
LEMMA DestroyLoaded ==
  ASSUME Extensions!LibraryAssumption, NEW p \in Process, ~p.stray, NEW o \in Loaded,
         p.mapped[o.handle] > 0, o.context \in p.live
  PROVE  Extensions!destroyed(p, o) =
           [mapped |-> [p.mapped EXCEPT ![o.handle] = @ - 1], live |-> p.live \ {o.context},
            created |-> p.created, stray |-> p.stray]
<1>1. o.handle # None /\ o.context # None /\ Extensions!call(p, o) = p /\ p.stray = FALSE
  BY Distinct, CallLands DEF Loaded, Process
<1>2. Extensions!shutdown(p, o) = [p EXCEPT !.live = p.live \ {o.context}]
  BY <1>1 DEF Extensions!shutdown, Extensions!is_active
<1>3. QED BY <1>1, <1>2 DEF Extensions!destroyed, Extensions!close, Process

(* What a move left behind is destroyed without effect. *)
LEMMA DestroyEmpty ==
  ASSUME NEW p
  PROVE  Extensions!destroyed(p, Extensions!Empty) = p
  BY DEF Extensions!destroyed, Extensions!close, Extensions!shutdown, Extensions!is_active,
    Extensions!Empty

(* A library is mapped and the context lives as long as an extension has both. *)
LEMMA Kept ==
  ASSUME ExtensionInv, NEW i \in 1 .. Len(backends)
  PROVE  /\ backends[i] \in Loaded
         /\ Cardinality(copies(backends[i].handle)) \in Nat \ {0}
         /\ process.mapped[backends[i].handle] > 0
         /\ backends[i].context \in process.live
<1>1. backends[i] \in Loaded /\ Len(backends) \in Nat
  BY DEF ExtensionInv, LoadInv
<1> DEFINE c == copies(backends[i].handle)
<1>2. c \in SUBSET (1 .. Len(backends)) /\ i \in c BY DEF copies
<1> HIDE DEF c
<1>3. IsFiniteSet(c) /\ Cardinality(c) \in Nat BY <1>1, <1>2, PositionsFinite
<1>4. Cardinality(c) # 0 BY <1>2, <1>3, FS_EmptySet
<1>5. Cardinality(copies(backends[i].handle)) \in Nat \ {0} BY <1>3, <1>4 DEF c
<1>6. process.mapped[backends[i].handle] = Cardinality(copies(backends[i].handle))
        + (IF local.handle = backends[i].handle THEN 1 ELSE 0)
  BY <1>1 DEF ExtensionInv, MappedInv, Loaded
<1>7. backends[i].context \in process.live
  BY DEF ExtensionInv, LiveInv, contexts
<1>8. QED BY <1>1, <1>5, <1>6, <1>7

(* The list of backends says everything about copies and contexts. *)
LEMMA Unmoved ==
  ASSUME backends' = backends, backends \in Seq(Loaded)
  PROVE  /\ contexts' = contexts /\ (\A l : copies(l)' = copies(l))
         /\ \A l : Cardinality(copies(l)) \in Nat
<1>1. contexts' = contexts /\ (\A l : copies(l)' = copies(l))
  BY DEF contexts, copies
<1>2. Len(backends) \in Nat /\ \A l : copies(l) \in SUBSET (1 .. Len(backends))
  BY DEF copies
<1>3. \A l : Cardinality(copies(l)) \in Nat BY <1>2, PositionsFinite
<1>4. QED BY <1>1, <1>3

(* The load in progress, once it has a mapping. *)
LEMMA LoadKept ==
  ASSUME ExtensionInv, local.handle \in Library
  PROVE  process.mapped[local.handle] > 0
<1>1. Cardinality(copies(local.handle)) \in Nat
  <2>1. Len(backends) \in Nat /\ copies(local.handle) \in SUBSET (1 .. Len(backends))
    BY DEF ExtensionInv, LoadInv, copies
  <2>2. QED BY <2>1, PositionsFinite
<1>2. QED BY <1>1 DEF ExtensionInv, MappedInv

(* Nothing is loaded at first. *)
LEMMA ExtensionInit ==
  Extensions!LibraryAssumption /\ Extensions!Init => ExtensionInv
<1> SUFFICES ASSUME Extensions!LibraryAssumption, Extensions!Init PROVE ExtensionInv
  OBVIOUS
<1>1. LoadInv
  BY DEF Extensions!Init, Extensions!LibraryAssumption, LoadInv, Process, Extensions!Empty
<1>2. contexts = {} /\ \A l : copies(l) = {}
  BY DEF Extensions!Init, contexts, copies
<1>3. LiveInv BY <1>2 DEF Extensions!Init, LiveInv, Extensions!Empty
<1>4. MappedInv
  <2>1. Cardinality({}) = 0 BY FS_EmptySet
  <2>2. \A l : Cardinality(copies(l)) = 0 BY <1>2, <2>1
  <2>3. QED BY <2>2, Distinct DEF Extensions!Init, MappedInv, Extensions!Empty
<1>5. QED BY <1>1, <1>3, <1>4 DEF ExtensionInv

(* A library that was opened is mapped once more, for the load. *)
LEMMA OpenStep ==
  ASSUME Extensions!LibraryAssumption, ExtensionInv, NEW f \in Path, Extensions!open(f)
  PROVE  ExtensionInv'
<1> DEFINE lib == LibraryOf[f]
<1>1. /\ local = Extensions!Empty /\ backends \in Seq(Loaded) /\ process \in Process
      /\ lib \in Library /\ None \notin Library
  BY Distinct DEF ExtensionInv, LoadInv, Extensions!open
<1>2. /\ local' = [handle |-> lib, context |-> None, path |-> f] /\ backends' = backends
      /\ step' = "opened"
      /\ process' = [mapped |-> [process.mapped EXCEPT ![lib] = @ + 1], live |-> process.live,
                     created |-> process.created, stray |-> process.stray]
  BY <1>1 DEF Extensions!open, Process
<1> HIDE DEF lib
<1>3. LoadInv' BY <1>1, <1>2 DEF LoadInv, Process
<1>4. LiveInv'
  BY <1>1, <1>2, Unmoved DEF ExtensionInv, LiveInv, Extensions!Empty
<1>5. MappedInv'
  <2>1. \A l \in Library : process.mapped[l] = Cardinality(copies(l))
    BY <1>1, Unmoved, <1>2 DEF ExtensionInv, MappedInv, Extensions!Empty
  <2>2. QED BY <1>1, <1>2, <2>1, Unmoved DEF MappedInv, Process
<1>6. QED BY <1>3, <1>4, <1>5 DEF ExtensionInv

(* A load that ends without a backend takes its mapping, and its context if
   it has one, with it. *)
LEMMA Undone ==
  ASSUME Extensions!LibraryAssumption, ExtensionInv, local.handle \in Library,
         backends' = backends, local' = Extensions!Empty, step' = "idle",
         NEW made \in [Library -> 0 .. MaxQueries],
         \A l \in Library : process.created[l] <= made[l],
         process' = [mapped |-> [process.mapped EXCEPT ![local.handle] = @ - 1],
                     live |-> process.live \ {local.context},
                     created |-> made, stray |-> process.stray]
  PROVE  ExtensionInv'
<1>1. backends \in Seq(Loaded) /\ process \in Process /\ None \notin Library /\ MaxQueries \in Nat
  BY Distinct DEF ExtensionInv, LoadInv, Extensions!LibraryAssumption
<1>2. LoadInv' BY <1>1 DEF LoadInv, Process
<1>3. None \notin contexts BY Distinct, <1>1 DEF contexts, Loaded
<1>4. LiveInv'
  <2>1. process'.live = contexts'
    BY <1>1, <1>3, Unmoved DEF ExtensionInv, LiveInv
  <2>2. \A c \in process'.live : c[2] <= process'.created[c[1]]
    <3> TAKE c \in process'.live
    <3>1. c \in process.live OBVIOUS
    <3>2. c[1] \in Library /\ c[2] \in 1 .. MaxQueries
      BY <1>1, <3>1 DEF Process, Query
    <3>3. c[2] <= process.created[c[1]] /\ process.created[c[1]] <= made[c[1]]
      BY <3>1, <3>2 DEF ExtensionInv, LiveInv
    <3>4. QED BY <1>1, <3>2, <3>3 DEF Process
  <2>3. QED BY <1>1, <1>3, <2>1, <2>2, Unmoved DEF ExtensionInv, LiveInv, Extensions!Empty
<1>5. MappedInv'
  BY <1>1, Unmoved DEF ExtensionInv, MappedInv, Extensions!Empty, Process
<1>6. QED BY <1>2, <1>4, <1>5 DEF ExtensionInv

(* Whatever a load has got so far is taken back. *)
LEMMA GiveUpStep ==
  ASSUME Extensions!LibraryAssumption, ExtensionInv,
         step \in {"opened", "interfaced", "loaded"},
         process' = Extensions!destroyed(process, local), local' = Extensions!Empty,
         step' = "idle", backends' = backends
  PROVE  ExtensionInv'
<1>1. process \in Process /\ ~process.stray /\ None \notin Library /\ None \notin Query
  BY Distinct DEF ExtensionInv, LoadInv, LiveInv
<1>2. CASE step = "opened"
  <2>1. local \in [handle : Library, context : {None}, path : Path]
    BY <1>2 DEF ExtensionInv, LoadInv
  <2>2. Extensions!destroyed(process, local)
          = [mapped |-> [process.mapped EXCEPT ![local.handle] = @ - 1],
             live |-> process.live \ {local.context},
             created |-> process.created, stray |-> process.stray]
    <3>1. Extensions!shutdown(process, local) = process
      BY <2>1 DEF Extensions!shutdown, Extensions!is_active
    <3>2. process.live \ {None} = process.live /\ process.stray = FALSE
      BY <1>1 DEF Process
    <3>3. QED BY <1>1, <2>1, <3>1, <3>2 DEF Extensions!destroyed, Extensions!close, Process
  <2>3. process.created \in [Library -> 0 .. MaxQueries]
          /\ \A l \in Library : process.created[l] <= process.created[l]
    BY <1>1 DEF Process
  <2>4. QED BY <2>1, <2>2, <2>3, Undone
<1>3. CASE step \in {"interfaced", "loaded"}
  <2>1. local \in Loaded BY <1>3 DEF ExtensionInv, LoadInv
  <2>2. local.handle \in Library /\ local.context \in process.live
    BY <1>1, <2>1 DEF Loaded, ExtensionInv, LiveInv
  <2>3. process.mapped[local.handle] > 0 BY <2>2, LoadKept
  <2>4. Extensions!destroyed(process, local)
          = [mapped |-> [process.mapped EXCEPT ![local.handle] = @ - 1],
             live |-> process.live \ {local.context},
             created |-> process.created, stray |-> process.stray]
    BY <1>1, <2>1, <2>2, <2>3, DestroyLoaded
  <2>5. process.created \in [Library -> 0 .. MaxQueries]
          /\ \A l \in Library : process.created[l] <= process.created[l]
    BY <1>1 DEF Process
  <2>6. QED BY <2>2, <2>4, <2>5, Undone
<1>4. QED BY <1>2, <1>3

(* The context a query creates has never lived before. *)
LEMMA FreshContext ==
  ASSUME ExtensionInv, Extensions!LibraryAssumption, step = "opened", Extensions!accepts
  PROVE  /\ local \in [handle : Library, context : {None}, path : Path]
         /\ process \in Process /\ MaxQueries \in Nat
         /\ Extensions!fresh = <<local.handle, process.created[local.handle] + 1>>
         /\ Extensions!fresh \in Query /\ Extensions!fresh \notin process.live
         /\ Extensions!queried \in Process
         /\ Extensions!queried =
              [mapped |-> process.mapped, live |-> process.live \cup {Extensions!fresh},
               created |-> [process.created EXCEPT ![local.handle] = @ + 1],
               stray |-> process.stray]
         /\ [process.created EXCEPT ![local.handle] = @ + 1] \in [Library -> 0 .. MaxQueries]
         /\ [local EXCEPT !.context = Extensions!fresh]
              = [handle |-> local.handle, context |-> Extensions!fresh, path |-> local.path]
         /\ [local EXCEPT !.context = Extensions!fresh] \in Loaded
<1>1. /\ local \in [handle : Library, context : {None}, path : Path]
      /\ process \in Process /\ MaxQueries \in Nat
  BY DEF ExtensionInv, LoadInv, Extensions!LibraryAssumption
<1> DEFINE n == process.created[local.handle]
<1>2. n \in 0 .. MaxQueries /\ n < MaxQueries
  BY <1>1 DEF Process, Extensions!accepts
<1>3. Extensions!fresh = <<local.handle, n + 1>> /\ Extensions!fresh \in Query
  BY <1>1, <1>2 DEF Extensions!fresh, Query
<1>4. Extensions!fresh \notin process.live
  <2>1. \A c \in process.live : c[2] <= process.created[c[1]]
    BY DEF ExtensionInv, LiveInv
  <2>2. ~(n + 1 <= n) BY <1>1, <1>2
  <2>3. <<local.handle, n + 1>>[1] = local.handle /\ <<local.handle, n + 1>>[2] = n + 1
    OBVIOUS
  <2>4. QED BY <1>3, <2>1, <2>2, <2>3
<1>5. Extensions!queried =
            [mapped |-> process.mapped, live |-> process.live \cup {Extensions!fresh},
             created |-> [process.created EXCEPT ![local.handle] = @ + 1],
             stray |-> process.stray]
  <2> DEFINE L == process.live \cup {Extensions!fresh}
             C == [process.created EXCEPT ![local.handle] = @ + 1]
             q == Extensions!queried
  <2>1. q = [process EXCEPT !.live = L, !.created = C] BY DEF Extensions!queried
  <2> HIDE DEF L, C, q
  <2>2. q = [mapped |-> process.mapped, live |-> L, created |-> C, stray |-> process.stray]
    BY <1>1, <2>1, Created
  <2>3. QED BY <2>2 DEF L, C, q
<1>6. [process.created EXCEPT ![local.handle] = @ + 1] \in [Library -> 0 .. MaxQueries]
  BY <1>1, <1>2 DEF Process
<1>7. Extensions!queried \in Process BY <1>1, <1>3, <1>5, <1>6 DEF Process
<1>8. [local EXCEPT !.context = Extensions!fresh]
            = [handle |-> local.handle, context |-> Extensions!fresh, path |-> local.path]
  BY <1>1
<1>9. [local EXCEPT !.context = Extensions!fresh] \in Loaded
  BY <1>1, <1>3, <1>8 DEF Loaded
<1>10. QED BY <1>1, <1>3, <1>4, <1>5, <1>6, <1>7, <1>8, <1>9

(* A table that does not fit takes its new context with it. *)
LEMMA QueryMalformedStep ==
  ASSUME Extensions!LibraryAssumption, ExtensionInv, Extensions!query_malformed
  PROVE  ExtensionInv'
<1> DEFINE h == local.handle
           made == [process.created EXCEPT ![h] = @ + 1]
           table == [local EXCEPT !.context = Extensions!fresh]
           q == Extensions!queried
<1>1. step = "opened" /\ Extensions!accepts BY DEF Extensions!query_malformed
<1>2. /\ h \in Library /\ local.context = None /\ process \in Process
      /\ Extensions!fresh \in Query /\ Extensions!fresh \notin process.live
      /\ made \in [Library -> 0 .. MaxQueries] /\ table \in Loaded /\ q \in Process
      /\ q = [mapped |-> process.mapped, live |-> process.live \cup {Extensions!fresh},
              created |-> made, stray |-> process.stray]
      /\ table = [handle |-> h, context |-> Extensions!fresh, path |-> local.path]
  BY <1>1, FreshContext
<1>3. ~process.stray /\ process.stray = FALSE /\ None \notin Library /\ None \notin Query
  <2>1. ~process.stray /\ None \notin Library /\ None \notin Query
    BY Distinct DEF ExtensionInv, LiveInv
  <2>2. QED BY <2>1, <1>2, Zenon DEF Process
<1>4. \A l \in Library : process.created[l] <= made[l] BY <1>2 DEF Process
<1>5. process.mapped[h] > 0 BY <1>2, LoadKept
<1> HIDE DEF made, table, q
<1>6. Extensions!call(q, table) = q
  <2>1. ~q.stray /\ q.mapped[table.handle] > 0 /\ table.context \in q.live
    BY <1>2, <1>3, <1>5
  <2>2. QED BY <1>2, <2>1, CallLands
<1>7. Extensions!shutdown(q, table)
        = [mapped |-> process.mapped, live |-> process.live, created |-> made, stray |-> process.stray]
  <2>1. Extensions!is_active(table) BY <1>2, <1>3 DEF Extensions!is_active
  <2>2. Extensions!shutdown(q, table) = [q EXCEPT !.live = q.live \ {Extensions!fresh}]
    BY <1>2, <1>6, <2>1 DEF Extensions!shutdown
  <2>3. (process.live \cup {Extensions!fresh}) \ {Extensions!fresh} = process.live
    BY <1>2
  <2>4. QED BY <1>2, <1>3, <2>2, <2>3
<1>8. process' = [mapped |-> [process.mapped EXCEPT ![h] = @ - 1], live |-> process.live,
                  created |-> made, stray |-> process.stray]
  <2>1. process' = Extensions!close(Extensions!shutdown(q, table), local)
    BY DEF Extensions!query_malformed, q, table
  <2>2. local.handle # None BY <1>2, <1>3
  <2> DEFINE r == Extensions!shutdown(q, table)
             m == process.mapped
             v == process.live
             y == process.stray
  <2>3. r = [mapped |-> m, live |-> v, created |-> made, stray |-> y] BY <1>7
  <2> HIDE DEF r, m, v, y
  <2>4. Extensions!close(r, local)
          = [mapped |-> [m EXCEPT ![local.handle] = @ - 1], live |-> v, created |-> made,
             stray |-> y]
    BY <2>2, <2>3, Unmapped
  <2>5. QED BY <2>1, <2>4 DEF r, m, v, y
<1>9. process.live = process.live \ {local.context} BY <1>2, <1>3 DEF Process
<1>10. local' = Extensions!Empty /\ step' = "idle" /\ backends' = backends
  BY DEF Extensions!query_malformed
<1>11. QED BY <1>2, <1>4, <1>8, <1>9, <1>10, Undone

(* The load becomes the owner of the new context. *)
LEMMA QueryAcceptedStep ==
  ASSUME Extensions!LibraryAssumption, ExtensionInv, Extensions!query_accepted
  PROVE  ExtensionInv'
<1>1. step = "opened" /\ Extensions!accepts BY DEF Extensions!query_accepted
<1> DEFINE f == Extensions!fresh
           made == [process.created EXCEPT ![local.handle] = @ + 1]
<1>2. /\ local \in [handle : Library, context : {None}, path : Path] /\ process \in Process
      /\ f \in Query /\ f \notin process.live /\ f = <<local.handle, made[local.handle]>>
      /\ made \in [Library -> 0 .. MaxQueries]
      /\ \A l \in Library : process.created[l] <= made[l]
      /\ Extensions!queried \in Process
      /\ Extensions!queried =
           [mapped |-> process.mapped, live |-> process.live \cup {f},
            created |-> made, stray |-> process.stray]
  BY <1>1, FreshContext DEF Process
<1>3. /\ local' \in Loaded /\ local' = [handle |-> local.handle, context |-> f, path |-> local.path]
      /\ step' = "loaded" /\ backends' = backends
  BY <1>1, FreshContext DEF Extensions!query_accepted
<1>4. process' = Extensions!queried
  BY DestroyEmpty DEF Extensions!query_accepted, Extensions!moved_from
<1> HIDE DEF made, f
<1>5. /\ backends \in Seq(Loaded) /\ None \notin Library /\ None \notin Query /\ MaxQueries \in Nat
  BY Distinct DEF ExtensionInv, LoadInv, Extensions!LibraryAssumption
<1>6. LoadInv' BY <1>2, <1>3, <1>4, <1>5 DEF LoadInv
<1>7. LiveInv'
  <2>1. f \notin contexts /\ f # None /\ contexts \subseteq process.live
    BY <1>2, <1>5 DEF ExtensionInv, LiveInv
  <2>2. process'.live = contexts' \cup ({local'.context} \ {None})
    <3>1. process.live = contexts BY <1>2, <1>5 DEF ExtensionInv, LiveInv
    <3>2. process'.live = process.live \cup {f} /\ local'.context = f
      BY <1>2, <1>3, <1>4
    <3>3. QED BY <1>3, <1>5, <2>1, <3>1, <3>2, Unmoved
  <2>3. \A c \in process'.live : c[2] <= process'.created[c[1]]
    <3> TAKE c \in process'.live
    <3>1. CASE c = f
      BY <1>2, <1>4, <1>5, <3>1 DEF Query
    <3>2. CASE c \in process.live
      <4>1. c[1] \in Library /\ c[2] \in 1 .. MaxQueries
        BY <1>2, <3>2 DEF Process, Query
      <4>2. c[2] <= process.created[c[1]] /\ process.created[c[1]] <= made[c[1]]
        BY <1>2, <3>2, <4>1 DEF ExtensionInv, LiveInv
      <4>3. process.created[c[1]] \in 0 .. MaxQueries /\ made[c[1]] \in 0 .. MaxQueries
        BY <1>2, <4>1 DEF Process
      <4>4. process'.created = made BY <1>2, <1>4
      <4>5. QED BY <1>5, <4>1, <4>2, <4>3, <4>4
    <3>3. QED BY <1>2, <1>4, <3>1, <3>2
  <2>4. ~process'.stray /\ local'.context \notin contexts'
    BY <1>2, <1>3, <1>4, <1>5, <2>1, Unmoved DEF ExtensionInv, LiveInv
  <2>5. QED BY <1>3, <2>2, <2>3, <2>4 DEF ExtensionInv, LiveInv
<1>8. MappedInv' BY <1>2, <1>3, <1>4, <1>5, Unmoved DEF ExtensionInv, MappedInv
<1>9. QED BY <1>6, <1>7, <1>8 DEF ExtensionInv

(* The interface is asked for while the load holds its mapping and context. *)
LEMMA LoadedCall ==
  ASSUME ExtensionInv, Extensions!LibraryAssumption, step \in {"loaded", "interfaced"}
  PROVE  Extensions!call(process, local) = process /\ local \in Loaded
<1>1. local \in Loaded /\ process \in Process /\ ~process.stray /\ None \notin Query
  BY Distinct DEF ExtensionInv, LoadInv, LiveInv
<1>2. local.handle \in Library /\ local.context \in process.live
  BY <1>1 DEF Loaded, ExtensionInv, LiveInv
<1>3. QED BY <1>1, <1>2, LoadKept, CallLands

(* Asking for the interface goes to code that is there. *)
LEMMA InterfaceStep ==
  ASSUME Extensions!LibraryAssumption, ExtensionInv,
         Extensions!interface_refused \/ Extensions!interface_accepted
  PROVE  ExtensionInv'
<1>1. CASE Extensions!interface_refused
  <2>1. Extensions!call(process, local) = process
    BY <1>1, LoadedCall DEF Extensions!interface_refused
  <2>2. /\ step = "loaded" /\ process' = Extensions!destroyed(process, local)
        /\ local' = Extensions!Empty /\ step' = "idle" /\ backends' = backends
    BY <1>1, <2>1 DEF Extensions!interface_refused
  <2>3. QED BY <2>2, GiveUpStep
<1>2. CASE Extensions!interface_accepted
  <2>1. Extensions!call(process, local) = process /\ local \in Loaded
    BY <1>2, LoadedCall DEF Extensions!interface_accepted
  <2>2. /\ process' = process /\ step' = "interfaced" /\ backends' = backends /\ local' = local
    BY <1>2, <2>1, DestroyEmpty DEF Extensions!interface_accepted, Extensions!moved_from
  <2>3. backends \in Seq(Loaded) BY DEF ExtensionInv, LoadInv
  <2>4. LoadInv' BY <2>1, <2>2 DEF ExtensionInv, LoadInv
  <2>5. LiveInv' /\ MappedInv'
    BY <2>2, <2>3, Unmoved DEF ExtensionInv, LiveInv, MappedInv
  <2>6. QED BY <2>4, <2>5 DEF ExtensionInv
<1>3. QED BY <1>1, <1>2

(* A fold over positions is what a closed form says, when each step from the
   form gives the form. *)
LEMMA FoldFollows ==
  ASSUME NEW n \in Nat, NEW g, NEW h, g[{}] = h[{}],
         \A s \in SUBSET (1 .. n) :
             LET last == Extensions!Max(s)
             IN  last \in s /\ g[s \ {last}] = h[s \ {last}] => g[s] = h[s]
  PROVE  g[1 .. n] = h[1 .. n]
<1> DEFINE A == {s \in SUBSET (1 .. n) : g[s] = h[s]}
<1>1. IsFiniteSet(1 .. n) /\ A \in SUBSET SUBSET (1 .. n) BY FS_Interval
<1>2. ASSUME NEW s \in SUBSET (1 .. n), \A x \in s : s \ {x} \in A PROVE s \in A
  <2>1. CASE s = {}
    BY <2>1
  <2>2. CASE s # {}
    BY <1>2, <2>2, LastPosition
  <2>3. QED BY <2>1, <2>2
<1> HIDE DEF A
<1>3. A = SUBSET (1 .. n) BY <1>1, <1>2, SubsetInduction
<1>4. QED BY <1>3 DEF A

(* Growing the vector destroys only what its elements were moved from. *)
LEMMA AcceptKeepsProcess ==
  ASSUME Extensions!accept, backends \in Seq(Loaded), local \in Loaded
  PROVE  process' = process
<1> DEFINE q == Append(backends, local)
           n == Len(backends) + 1
           is(g) == g = [s \in SUBSET (DOMAIN q) |->
                           IF s = {} THEN process
                           ELSE Extensions!destroyed(g[s \ {Extensions!Max(s)}], Extensions!Empty)]
           it == CHOOSE g : is(g)
           h == [s \in SUBSET (DOMAIN q) |-> process]
<1>1. process' = it[DOMAIN q]
  BY DEF Extensions!accept, Extensions!FoldLeft, Extensions!MapThenFoldSet, Extensions!moved_from
<1>2. n \in Nat /\ DOMAIN q = 1 .. n OBVIOUS
<1>3. is(h) BY DestroyEmpty
<1>4. \E g : is(g) BY <1>3
<1> HIDE DEF is
<1>5. is(it) BY <1>4
<1> HIDE DEF it
<1>6. \A s \in SUBSET (1 .. n) :
          it[s] = IF s = {} THEN process ELSE it[s \ {Extensions!Max(s)}]
  BY <1>2, <1>5, DestroyEmpty DEF is
<1> HIDE DEF n, q
<1>7. \A s \in SUBSET (1 .. n) : h[s] = process BY <1>2
<1> HIDE DEF h
<1>8. it[{}] = h[{}] BY <1>6, <1>7
<1>9. \A s \in SUBSET (1 .. n) :
          LET last == Extensions!Max(s)
          IN  last \in s /\ it[s \ {last}] = h[s \ {last}] => it[s] = h[s]
  BY <1>6, <1>7
<1>10. it[1 .. n] = h[1 .. n] BY <1>2, <1>8, <1>9, FoldFollows
<1>11. QED BY <1>1, <1>2, <1>7, <1>10

(* The load hands its mapping and its context to the list. *)
LEMMA AcceptStep ==
  ASSUME Extensions!LibraryAssumption, ExtensionInv, Extensions!accept
  PROVE  ExtensionInv'
<1>1. /\ backends \in Seq(Loaded) /\ local \in Loaded /\ process \in Process
      /\ Len(backends) \in Nat /\ None \notin Library /\ None \notin Query
  <2>1. step = "interfaced" BY DEF Extensions!accept
  <2>2. backends \in Seq(Loaded) /\ local \in Loaded /\ process \in Process
    BY <2>1 DEF ExtensionInv, LoadInv
  <2>3. QED BY <2>2, Distinct
<1>2. process' = process BY <1>1, AcceptKeepsProcess
<1>3. backends' = Append(backends, local) /\ local' = Extensions!Empty /\ step' = "idle"
  BY DEF Extensions!accept
<1> DEFINE n == Len(backends)
<1>4. /\ backends' \in Seq(Loaded) /\ Len(backends') = n + 1 /\ backends'[n + 1] = local
      /\ \A i \in 1 .. n : backends'[i] = backends[i]
  BY <1>1, <1>3
<1>5. LoadInv' BY <1>1, <1>2, <1>3, <1>4 DEF LoadInv
<1>6. contexts' = contexts \cup {local.context} /\ local.context # None /\ None \notin contexts
  <2>1. \A i \in 1 .. n + 1 : i = n + 1 \/ i \in 1 .. n BY <1>1
  <2>2. n + 1 \in 1 .. n + 1 /\ \A i \in 1 .. n : i \in 1 .. n + 1 BY <1>1
  <2>3. local.context # None /\ \A i \in 1 .. n : backends[i].context # None
    BY <1>1 DEF Loaded
  <2> HIDE DEF n
  <2>4. QED BY <1>4, <2>1, <2>2, <2>3 DEF contexts, n
<1>7. LiveInv'
  <2>1. process'.live = contexts' \cup ({local'.context} \ {None})
    BY <1>2, <1>3, <1>6 DEF ExtensionInv, LiveInv, Extensions!Empty
  <2>2. local'.context \notin contexts' BY <1>3, <1>6 DEF Extensions!Empty
  <2>3. ASSUME NEW i \in 1 .. n + 1, NEW j \in 1 .. n + 1,
               backends'[i].context = backends'[j].context
        PROVE  i = j
    <3>1. \A k \in 1 .. n : backends'[k].context \in contexts /\ local.context \notin contexts
      BY <1>4 DEF contexts, ExtensionInv, LiveInv
    <3>2. CASE i \in 1 .. n /\ j \in 1 .. n
      BY <1>4, <2>3, <3>2 DEF ExtensionInv, LiveInv
    <3>3. CASE i = n + 1 \/ j = n + 1
      BY <1>1, <1>4, <2>3, <3>1, <3>3
    <3>4. QED BY <1>1, <3>2, <3>3
  <2>4. ~process'.stray /\ \A c \in process'.live : c[2] <= process'.created[c[1]]
    BY <1>2 DEF ExtensionInv, LiveInv
  <2>5. QED BY <1>4, <2>1, <2>2, <2>3, <2>4 DEF LiveInv
<1>8. MappedInv'
  <2>1. ASSUME NEW l \in Library
        PROVE  Cardinality(copies(l)') = Cardinality(copies(l)) + (IF local.handle = l THEN 1 ELSE 0)
    <3> DEFINE r == backends'
    <3>1. r = Append(backends, local) BY <1>3
    <3> HIDE DEF r
    <3>2. Cardinality(copies_in(r, l))
            = Cardinality(copies_in(backends, l)) + (IF local.handle = l THEN 1 ELSE 0)
      <4>1. backends \in Seq(Loaded) /\ local \in Loaded BY <1>1
      <4>2. Cardinality(copies_in(Append(backends, local), l))
              = Cardinality(copies_in(backends, l)) + (IF local.handle = l THEN 1 ELSE 0)
        BY <4>1, OneMoreCopy
      <4>3. QED BY <3>1, <4>2
    <3>3. copies(l)' = copies_in(r, l) /\ copies(l) = copies_in(backends, l)
      BY DEF copies, copies_in, r
    <3>4. QED BY <3>2, <3>3
  <2>2. ASSUME NEW l \in Library
        PROVE  process'.mapped[l] = Cardinality(copies(l)') + (IF local'.handle = l THEN 1 ELSE 0)
    <3>1. process'.mapped[l] = Cardinality(copies(l)')
      BY <1>2, <2>1 DEF ExtensionInv, MappedInv
    <3>2. local'.handle # l /\ process'.mapped[l] \in Int
      BY <1>1, <1>2, <1>3 DEF Extensions!Empty, Process
    <3>3. QED BY <3>1, <3>2
  <2>3. QED BY <2>2 DEF MappedInv
<1>9. QED BY <1>5, <1>7, <1>8 DEF ExtensionInv

(* Devices are asked for of backends that are all alive. *)
LEMMA EnumerateKeepsProcess ==
  ASSUME Extensions!LibraryAssumption, ExtensionInv, Extensions!enumerate_devices
  PROVE  process' = process
<1>1. backends \in Seq(Loaded) /\ Len(backends) \in Nat /\ process \in Process /\ ~process.stray
  BY DEF ExtensionInv, LoadInv, LiveInv
<1>2. PICK n \in 0 .. Len(backends) :
          process' = Extensions!FoldLeft(Extensions!call, process, SubSeq(backends, 1, n))
  BY DEF Extensions!enumerate_devices
<1> DEFINE q == SubSeq(backends, 1, n)
           is(g) == g = [s \in SUBSET (DOMAIN q) |->
                           IF s = {} THEN process
                           ELSE Extensions!call(g[s \ {Extensions!Max(s)}], q[Extensions!Max(s)])]
           it == CHOOSE g : is(g)
           h == [s \in SUBSET (DOMAIN q) |-> process]
<1>3. process' = it[DOMAIN q]
  BY <1>2 DEF Extensions!FoldLeft, Extensions!MapThenFoldSet
<1>4. n \in Nat /\ DOMAIN q = 1 .. n /\ \A i \in 1 .. n : q[i] = backends[i] /\ i \in 1 .. Len(backends)
  BY <1>1, <1>2
<1>5. \A i \in 1 .. n : Extensions!call(process, q[i]) = process
  <2> TAKE i \in 1 .. n
  <2>1. backends[i] \in Loaded /\ process.mapped[backends[i].handle] > 0
          /\ backends[i].context \in process.live
    BY <1>4, Kept
  <2>2. QED BY <1>1, <1>4, <2>1, CallLands
<1> HIDE DEF q
<1>6. \A s \in SUBSET (1 .. n) : s # {} => Extensions!Max(s) \in s
  BY <1>4, LastPosition
<1>7. is(h)
  <2>1. \A s \in SUBSET (1 .. n) :
            process = IF s = {} THEN process
                      ELSE Extensions!call(h[s \ {Extensions!Max(s)}], q[Extensions!Max(s)])
    BY <1>4, <1>5, <1>6
  <2>2. QED BY <1>4, <2>1
<1>8. \E g : is(g) BY <1>7
<1> HIDE DEF is
<1>9. is(it) BY <1>8
<1> HIDE DEF it
<1>10. \A s \in SUBSET (1 .. n) :
          it[s] = IF s = {} THEN process
                  ELSE Extensions!call(it[s \ {Extensions!Max(s)}], q[Extensions!Max(s)])
  BY <1>4, <1>9 DEF is
<1>11. \A s \in SUBSET (1 .. n) : h[s] = process BY <1>4
<1> HIDE DEF h
<1>12. it[{}] = h[{}] BY <1>10, <1>11
<1>13. \A s \in SUBSET (1 .. n) :
          LET last == Extensions!Max(s)
          IN  last \in s /\ it[s \ {last}] = h[s \ {last}] => it[s] = h[s]
  BY <1>5, <1>10, <1>11
<1>14. it[1 .. n] = h[1 .. n] BY <1>4, <1>12, <1>13, FoldFollows
<1>15. QED BY <1>3, <1>4, <1>11, <1>14

(* What is left of the process when the backends at the positions in s are
   destroyed. *)
after(s) ==
    [mapped |-> [l \in Library |->
                   process.mapped[l] - Cardinality({i \in s : backends[i].handle = l})],
     live |-> process.live \ {backends[i].context : i \in s},
     created |-> process.created, stray |-> process.stray]

(* Destroying one more backend leaves what destroying all of them leaves. *)
LEMMA DestroyOne ==
  ASSUME Extensions!LibraryAssumption, ExtensionInv, NEW s \in SUBSET (1 .. Len(backends)),
         NEW m \in s
  PROVE  Extensions!destroyed(after(s \ {m}), backends[m]) = after(s)
<1> DEFINE o == backends[m]
           n == Len(backends)
           t == s \ {m}
           of(u, l) == {i \in u : backends[i].handle = l}
<1>1. /\ backends \in Seq(Loaded) /\ n \in Nat /\ process \in Process /\ ~process.stray
      /\ m \in 1 .. n /\ o \in Loaded /\ t \in SUBSET (1 .. n) /\ m \notin t
  BY DEF ExtensionInv, LoadInv, LiveInv
<1>2. ASSUME NEW l, NEW u \in SUBSET (1 .. n)
      PROVE  IsFiniteSet(of(u, l)) /\ Cardinality(of(u, l)) \in Nat
  <2>1. of(u, l) \in SUBSET (1 .. n) OBVIOUS
  <2> HIDE DEF of, n
  <2>2. QED BY <1>1, <2>1, PositionsFinite
<1>3. ASSUME NEW l
      PROVE  Cardinality(of(s, l)) = Cardinality(of(t, l)) + (IF o.handle = l THEN 1 ELSE 0)
  <2>1. CASE o.handle = l
    <3>1. of(s, l) = of(t, l) \cup {m} /\ m \notin of(t, l) BY <2>1
    <3>2. IsFiniteSet(of(t, l)) BY <1>1, <1>2
    <3> HIDE DEF of
    <3>3. QED BY <2>1, <3>1, <3>2, FS_AddElement
  <2>2. CASE o.handle # l
    <3>1. of(s, l) = of(t, l) BY <2>2
    <3>2. Cardinality(of(t, l)) \in Nat BY <1>1, <1>2
    <3> HIDE DEF of
    <3>3. QED BY <2>2, <3>1, <3>2
  <2>3. QED BY <2>1, <2>2
<1>4. after(t) \in Process
  <2>1. \A l : Cardinality(of(t, l)) \in Nat BY <1>1, <1>2
  <2>2. \A l \in Library : process.mapped[l] - Cardinality(of(t, l)) \in Int
    <3>1. \A l \in Library : process.mapped[l] \in Int BY <1>1 DEF Process
    <3> HIDE DEF of, t
    <3>2. QED BY <2>1, <3>1
  <2> HIDE DEF t
  <2>3. QED BY <1>1, <2>2 DEF Process, after
<1>5. ~after(t).stray BY <1>1 DEF after
<1>6. after(t).mapped[o.handle] > 0
  <2> DEFINE h == o.handle
  <2>1. h \in Library BY <1>1 DEF Loaded
  <2>2. of(s, h) \in SUBSET copies(h) BY DEF copies
  <2>3. copies(h) \in SUBSET (1 .. n) BY DEF copies
  <2>4. IsFiniteSet(copies(h)) /\ Cardinality(copies(h)) \in Nat
    <3> HIDE DEF h, n
    <3>1. QED BY <1>1, <2>3, PositionsFinite
  <2>5. Cardinality(of(s, h)) <= Cardinality(copies(h))
    <3> HIDE DEF of, h
    <3>1. QED BY <2>2, <2>4, FS_Subset
  <2>6. Cardinality(of(t, h)) \in Nat /\ Cardinality(of(s, h)) = Cardinality(of(t, h)) + 1
    BY <1>1, <1>2, <1>3
  <2>7. process.mapped[h] = Cardinality(copies(h)) + (IF local.handle = h THEN 1 ELSE 0)
    BY <2>1 DEF ExtensionInv, MappedInv
  <2>8. after(t).mapped[h] = process.mapped[h] - Cardinality(of(t, h))
    BY <2>1 DEF after
  <2> HIDE DEF of, h, t
  <2>9. after(t).mapped[h] > 0 BY <2>4, <2>5, <2>6, <2>7, <2>8
  <2>10. QED BY <2>9 DEF h
<1>7. o.context \in after(t).live
  <2>1. o.context \in process.live BY <1>1, Kept
  <2>2. \A i \in t : backends[i].context # o.context
    BY <1>1 DEF ExtensionInv, LiveInv
  <2>3. QED BY <2>1, <2>2 DEF after
<1> HIDE DEF o, t, of
<1>8. Extensions!destroyed(after(t), o) =
         [mapped |-> [after(t).mapped EXCEPT ![o.handle] = @ - 1],
          live |-> after(t).live \ {o.context},
          created |-> after(t).created, stray |-> after(t).stray]
  BY <1>1, <1>4, <1>5, <1>6, <1>7, DestroyLoaded
<1>9. [after(t).mapped EXCEPT ![o.handle] = @ - 1] = after(s).mapped
  <2>1. o.handle \in Library /\ after(t).mapped \in [Library -> Int]
    BY <1>1, <1>4 DEF Loaded, Process
  <2>2. \A l \in Library : after(t).mapped[l] = process.mapped[l] - Cardinality(of(t, l))
    BY DEF after, of
  <2>3. \A l \in Library : after(s).mapped[l] = process.mapped[l] - Cardinality(of(s, l))
    BY DEF after, of
  <2>4. \A l \in Library : process.mapped[l] \in Int /\ Cardinality(of(t, l)) \in Nat
    BY <1>1, <1>2 DEF Process
  <2>5. \A l \in Library :
            after(s).mapped[l] = after(t).mapped[l] - (IF o.handle = l THEN 1 ELSE 0)
    BY <1>3, <2>2, <2>3, <2>4
  <2>6. after(s).mapped = [l \in Library |-> after(s).mapped[l]] BY DEF after
  <2> DEFINE a == after(s).mapped
             b == after(t).mapped
             k == o.handle
  <2> HIDE DEF a, b, k
  <2>7. b \in [Library -> Int] /\ k \in Library /\ a = [l \in Library |-> a[l]]
          /\ \A l \in Library : a[l] = b[l] - (IF k = l THEN 1 ELSE 0)
    BY <2>1, <2>5, <2>6 DEF a, b, k
  <2>8. [b EXCEPT ![k] = b[k] - 1] = a
    <3> DEFINE e == [b EXCEPT ![k] = b[k] - 1]
    <3>1. \A l \in Library : b[l] \in Int BY <2>7
    <3>2. \A l \in Library : e[l] = IF l = k THEN b[k] - 1 ELSE b[l] BY <2>7
    <3>3. e = [l \in Library |-> e[l]] BY <2>7
    <3> HIDE DEF e
    <3>4. \A l \in Library : e[l] = a[l] BY <2>7, <3>1, <3>2
    <3>5. e = a BY <2>7, <3>3, <3>4
    <3>6. QED BY <3>5 DEF e
  <2>9. QED BY <2>8 DEF a, b, k
<1>10. after(t).live \ {o.context} = after(s).live BY <1>1 DEF after, o, t
<1>11. /\ after(t).created = process.created /\ after(t).stray = process.stray
       /\ after(s) = [mapped |-> after(s).mapped, live |-> after(s).live,
                      created |-> process.created, stray |-> process.stray]
  BY DEF after
<1>12. QED BY <1>8, <1>9, <1>10, <1>11 DEF o, t

(* Destroying the list, first to last, takes what each backend had. *)
LEMMA DestroyedAll ==
  ASSUME Extensions!LibraryAssumption, ExtensionInv, Extensions!destroy_engine
  PROVE  process' = after(1 .. Len(backends))
<1> DEFINE n == Len(backends)
           is(g) == g = [s \in SUBSET (DOMAIN backends) |->
                           IF s = {} THEN process
                           ELSE Extensions!destroyed(g[s \ {Extensions!Max(s)}],
                                                    backends[Extensions!Max(s)])]
           it == CHOOSE g : is(g)
           h == [s \in SUBSET (DOMAIN backends) |-> after(s)]
<1>1. process' = it[DOMAIN backends]
  BY DEF Extensions!destroy_engine, Extensions!FoldLeft, Extensions!MapThenFoldSet
<1>2. n \in Nat /\ DOMAIN backends = 1 .. n /\ process \in Process
  BY DEF ExtensionInv, LoadInv
<1>3. \A s \in SUBSET (1 .. n) : s # {} => Extensions!Max(s) \in s
  BY <1>2, LastPosition
<1>4. after({}) = process
  <2>1. \A l : {i \in {} : backends[i].handle = l} = {} OBVIOUS
  <2>2. Cardinality({}) = 0 BY FS_EmptySet
  <2>3. \A l : Cardinality({i \in {} : backends[i].handle = l}) = 0
    BY <2>1, <2>2
  <2>4. \A l \in Library :
            process.mapped[l] - Cardinality({i \in {} : backends[i].handle = l}) = process.mapped[l]
    BY <1>2, <2>3 DEF Process
  <2>5. after({}).mapped = process.mapped BY <1>2, <2>4 DEF after, Process
  <2>6. after({}).live = process.live BY DEF after
  <2>7. after({}) = [mapped |-> after({}).mapped, live |-> after({}).live,
                     created |-> process.created, stray |-> process.stray]
    BY DEF after
  <2>8. process = [mapped |-> process.mapped, live |-> process.live,
                   created |-> process.created, stray |-> process.stray]
    BY <1>2 DEF Process
  <2>9. QED BY <2>5, <2>6, <2>7, <2>8
<1>5. \A s \in SUBSET (1 .. n) :
          s # {} => Extensions!destroyed(after(s \ {Extensions!Max(s)}), backends[Extensions!Max(s)])
                      = after(s)
  BY <1>3, DestroyOne
<1>6. is(h)
  <2>1. \A s \in SUBSET (1 .. n) :
            after(s) = IF s = {} THEN process
                       ELSE Extensions!destroyed(h[s \ {Extensions!Max(s)}],
                                                backends[Extensions!Max(s)])
    <3> TAKE s \in SUBSET (1 .. n)
    <3>1. h[s \ {Extensions!Max(s)}] = after(s \ {Extensions!Max(s)}) BY <1>2
    <3> HIDE DEF h
    <3>2. QED BY <1>4, <1>5, <3>1
  <2>2. QED BY <1>2, <2>1
<1>7. \E g : is(g) BY <1>6
<1> HIDE DEF is
<1>8. is(it) BY <1>7
<1> HIDE DEF it
<1>9. \A s \in SUBSET (1 .. n) :
          it[s] = IF s = {} THEN process
                  ELSE Extensions!destroyed(it[s \ {Extensions!Max(s)}], backends[Extensions!Max(s)])
  BY <1>2, <1>8 DEF is
<1>10. \A s \in SUBSET (1 .. n) : h[s] = after(s) BY <1>2
<1> HIDE DEF h
<1>11. it[{}] = h[{}] BY <1>4, <1>9, <1>10
<1>12. \A s \in SUBSET (1 .. n) :
          LET last == Extensions!Max(s)
          IN  last \in s /\ it[s \ {last}] = h[s \ {last}] => it[s] = h[s]
  BY <1>5, <1>9, <1>10
<1>13. it[1 .. n] = h[1 .. n] BY <1>2, <1>11, <1>12, FoldFollows
<1>14. QED BY <1>1, <1>2, <1>10, <1>13

(* Nothing is mapped and nothing lives when the Engine is gone. *)
LEMMA DestroyStep ==
  ASSUME Extensions!LibraryAssumption, ExtensionInv, Extensions!destroy_engine
  PROVE  ExtensionInv'
<1>1. /\ backends \in Seq(Loaded) /\ process \in Process /\ None \notin Library
      /\ Len(backends) \in Nat
  BY Distinct DEF ExtensionInv, LoadInv
<1>2. /\ local = Extensions!Empty /\ local' = Extensions!Empty /\ step' = "gone"
      /\ backends' = << >>
  BY DEF ExtensionInv, LoadInv, Extensions!destroy_engine
<1>3. process' = after(1 .. Len(backends)) BY DestroyedAll
<1>4. process'.live = {}
  <2>1. process.live = contexts
    <3>1. \A c \in contexts : c # None BY <1>1, Distinct DEF contexts, Loaded
    <3>2. QED BY <1>2, <3>1 DEF ExtensionInv, LiveInv, Extensions!Empty
  <2>2. QED BY <1>3, <2>1 DEF after, contexts
<1>5. process'.mapped = [l \in Library |-> 0]
  <2>1. \A l \in Library : process.mapped[l] = Cardinality(copies(l))
                             /\ Cardinality(copies(l)) \in Nat
    <3>1. \A l : copies(l) \in SUBSET (1 .. Len(backends)) BY DEF copies
    <3>2. \A l : Cardinality(copies(l)) \in Nat BY <1>1, <3>1, PositionsFinite
    <3>3. QED BY <1>1, <1>2, <3>2 DEF ExtensionInv, MappedInv, Extensions!Empty
  <2>2. \A l \in Library : process'.mapped[l] = process.mapped[l] - Cardinality(copies(l))
    BY <1>3 DEF after, copies
  <2>3. process'.mapped = [l \in Library |-> process'.mapped[l]]
    BY <1>3 DEF after
  <2>4. \A l \in Library : process'.mapped[l] = 0 BY <2>1, <2>2
  <2>5. QED BY <2>3, <2>4
<1>6. process'.created = process.created /\ process'.stray = process.stray
        /\ process' = [mapped |-> process'.mapped, live |-> process'.live,
                       created |-> process'.created, stray |-> process'.stray]
  BY <1>3 DEF after
<1>7. LoadInv'
  <2>1. process' \in Process BY <1>1, <1>4, <1>5, <1>6 DEF Process
  <2>2. QED BY <1>2, <2>1 DEF LoadInv
<1>8. contexts' = {} /\ \A l : copies(l)' = {} BY <1>2 DEF contexts, copies
<1>9. LiveInv'
  BY <1>2, <1>4, <1>6, <1>8 DEF ExtensionInv, LiveInv, Extensions!Empty
<1>10. MappedInv'
  <2>1. Cardinality({}) = 0 BY FS_EmptySet
  <2>2. \A l : Cardinality(copies(l)') = 0 BY <1>8, <2>1
  <2>3. QED BY <1>1, <1>2, <1>5, <2>2 DEF MappedInv, Extensions!Empty
<1>11. QED BY <1>7, <1>9, <1>10 DEF ExtensionInv

(* The Engine asks for nothing. *)
LEMMA SteadyStep ==
  ASSUME ExtensionInv, process' = process, backends' = backends, local' = local, step' = step
  PROVE  ExtensionInv'
<1>1. backends \in Seq(Loaded) BY DEF ExtensionInv, LoadInv
<1>2. QED BY <1>1, Unmoved DEF ExtensionInv, LoadInv, LiveInv, MappedInv

(* The invariant is inductive. *)
LEMMA ExtensionStep ==
  ASSUME Extensions!LibraryAssumption, ExtensionInv, [Extensions!Next]_(Extensions!vars)
  PROVE  ExtensionInv'
<1>1. CASE UNCHANGED Extensions!vars
  BY <1>1, SteadyStep DEF Extensions!vars
<1>2. ASSUME NEW f \in Path, Extensions!open(f) PROVE ExtensionInv'
  BY <1>2, OpenStep
<1>3. CASE Extensions!query_rejected \/ Extensions!duplicate
  <2>1. step \in {"opened", "interfaced"} /\ Extensions!give_up
    BY <1>3 DEF Extensions!query_rejected, Extensions!duplicate
  <2>2. /\ process' = Extensions!destroyed(process, local) /\ local' = Extensions!Empty
        /\ step' = "idle" /\ backends' = backends
    BY <2>1 DEF Extensions!give_up
  <2>3. QED BY <2>1, <2>2, GiveUpStep
<1>4. CASE Extensions!query_malformed
  BY <1>4, QueryMalformedStep
<1>5. CASE Extensions!query_accepted
  BY <1>5, QueryAcceptedStep
<1>6. CASE Extensions!interface_refused \/ Extensions!interface_accepted
  BY <1>6, InterfaceStep
<1>7. CASE Extensions!accept
  BY <1>7, AcceptStep
<1>8. CASE Extensions!enumerate_devices
  <2>1. process' = process BY <1>8, EnumerateKeepsProcess
  <2>2. backends' = backends /\ local' = local /\ step' = step
    BY <1>8 DEF Extensions!enumerate_devices
  <2>3. QED BY <2>1, <2>2, SteadyStep
<1>9. CASE Extensions!destroy_engine
  BY <1>9, DestroyStep
<1>10. QED BY <1>1, <1>2, <1>3, <1>4, <1>5, <1>6, <1>7, <1>8, <1>9 DEF Extensions!Next

(* The invariant says who owns what in terms of the list and of the load. *)
LEMMA ExtensionInvFollows ==
  ASSUME Extensions!LibraryAssumption, ExtensionInv
  PROVE  Extensions!ExtensionsSound
<1> DEFINE n == Len(backends)
           held == Extensions!held
<1>1. /\ backends \in Seq(Loaded) /\ n \in Nat /\ process \in Process
      /\ None \notin Library /\ None \notin Query
      /\ Extensions!Context = Query
      /\ \A i \in 1 .. n : backends[i] \in Loaded
  BY Distinct DEF ExtensionInv, LoadInv, Extensions!Context, Query
<1>2. local \in [handle : Library \cup {None}, context : Query \cup {None},
                 path : Path \cup {None}]
        /\ (local.context # None => local \in Loaded)
  BY DEF ExtensionInv, LoadInv, Loaded, Extensions!Empty
<1>3. /\ DOMAIN held = 1 .. n + 1 /\ held[n + 1] = local
      /\ \A i \in 1 .. n : held[i] = backends[i]
  BY <1>1 DEF Extensions!held
<1> HIDE DEF held
<1>4. \A i \in DOMAIN held : i \in 1 .. n \/ i = n + 1 BY <1>1, <1>3
<1>5. Extensions!TypeOK
  <2>1. step \in {"idle", "opened", "loaded", "interfaced", "gone"}
    BY DEF ExtensionInv, LoadInv
  <2>2. \A i \in DOMAIN held :
           held[i] \in [handle : Library \cup {None}, context : Query \cup {None},
                        path : Path \cup {None}]
    BY <1>1, <1>2, <1>3, <1>4 DEF Loaded
  <2>3. process \in [mapped : [Library -> Int], live : SUBSET Query,
                     created : [Library -> 0 .. MaxQueries], stray : BOOLEAN]
    BY <1>1 DEF Process
  <2>4. QED BY <1>1, <2>1, <2>2, <2>3 DEF Extensions!TypeOK, held
<1>6. {held[i].context : i \in DOMAIN held} = contexts \cup {local.context}
  <2>1. n + 1 \in 1 .. n + 1 /\ \A i \in 1 .. n : i \in 1 .. n + 1 BY <1>1
  <2> HIDE DEF n
  <2>2. QED BY <1>3, <1>4, <2>1 DEF contexts, n
<1>7. process.live = {held[i].context : i \in DOMAIN held} \ {None}
  <2>1. None \notin contexts BY <1>1 DEF contexts, Loaded
  <2>2. QED BY <1>6, <2>1 DEF ExtensionInv, LiveInv
<1>8. ASSUME NEW i \in DOMAIN held, NEW j \in DOMAIN held, held[i].context = held[j].context
      PROVE  i = j \/ held[i].context = None
  <2>1. \A k \in 1 .. n : held[k].context \in contexts /\ local.context \notin contexts
    BY <1>3 DEF contexts, ExtensionInv, LiveInv
  <2>2. CASE i \in 1 .. n /\ j \in 1 .. n
    BY <1>3, <1>8, <2>2 DEF ExtensionInv, LiveInv
  <2>3. CASE i = n + 1 \/ j = n + 1
    BY <1>1, <1>3, <1>4, <1>8, <2>1, <2>3
  <2>4. QED BY <1>4, <2>2, <2>3
<1>9. ASSUME NEW l \in Library
      PROVE  process.mapped[l] = Cardinality({i \in DOMAIN held : held[i].handle = l})
  <2> DEFINE A == {i \in DOMAIN held : held[i].handle = l}
  <2>1. copies(l) \in SUBSET (1 .. n) BY DEF copies
  <2>2. IsFiniteSet(copies(l)) /\ Cardinality(copies(l)) \in Nat
    BY <1>1, <2>1, PositionsFinite
  <2>3. n + 1 \notin copies(l) /\ n + 1 \in DOMAIN held /\ \A i \in 1 .. n : i \in DOMAIN held
    BY <1>1, <1>3, <2>1
  <2> HIDE DEF n
  <2>4. CASE local.handle = l
    <3>1. A = copies(l) \cup {n + 1} BY <1>3, <1>4, <2>3, <2>4 DEF copies, n
    <3> HIDE DEF A
    <3>2. Cardinality(A) = Cardinality(copies(l)) + 1
      BY <2>2, <2>3, <3>1, FS_AddElement
    <3>3. QED BY <2>4, <3>2 DEF ExtensionInv, MappedInv, A
  <2>5. CASE local.handle # l
    <3>1. A = copies(l) BY <1>3, <1>4, <2>3, <2>5 DEF copies, n
    <3> HIDE DEF A
    <3>2. Cardinality(A) = Cardinality(copies(l)) + 0 BY <2>2, <3>1
    <3>3. QED BY <2>5, <3>2 DEF ExtensionInv, MappedInv, A
  <2>6. QED BY <2>4, <2>5
<1>10. Extensions!ContextsOwned
  <2>1. \A i, j \in DOMAIN held :
           held[i].context = held[j].context => i = j \/ held[i].context = None
    BY <1>8
  <2>2. \A l \in Library :
           process.mapped[l] = Cardinality({i \in DOMAIN held : held[i].handle = l})
    BY <1>9
  <2>3. process.live = {Extensions!held[i].context : i \in DOMAIN Extensions!held} \ {None}
    BY <1>7 DEF held
  <2>4. \A i, j \in DOMAIN Extensions!held :
           Extensions!held[i].context = Extensions!held[j].context
             => i = j \/ Extensions!held[i].context = None
    BY <2>1 DEF held
  <2>5. \A l \in Library :
           process.mapped[l] = Cardinality({i \in DOMAIN Extensions!held : Extensions!held[i].handle = l})
    BY <2>2 DEF held
  <2>6. \A l \in Library :
           process.mapped[l]
             = Extensions!Cardinality({i \in DOMAIN Extensions!held : Extensions!held[i].handle = l})
    BY <2>5 DEF Extensions!Cardinality, Cardinality
  <2>7. QED BY <2>3, <2>4, <2>6 DEF Extensions!ContextsOwned
<1>11. Extensions!CallsLand
  <2>1. ASSUME NEW c \in process.live PROVE process.mapped[c[1]] > 0
    <3>1. CASE c \in contexts
      <4>1. PICK i \in 1 .. n : c = backends[i].context BY <3>1 DEF contexts
      <4>2. c[1] = backends[i].handle BY <1>1, <4>1 DEF Loaded
      <4>3. QED BY <4>2, Kept
    <3>2. CASE c = local.context /\ c # None
      <4>1. c[1] = local.handle /\ local.handle \in Library
        BY <1>2, <3>2 DEF Loaded
      <4>2. QED BY <4>1, LoadKept
    <3>3. QED BY <3>1, <3>2 DEF ExtensionInv, LiveInv
  <2>2. QED BY <2>1 DEF Extensions!CallsLand, ExtensionInv, LiveInv
<1>12. QED BY <1>5, <1>10, <1>11 DEF Extensions!ExtensionsSound

(* For any paths, libraries and number of contexts, whichever of them keep
   theirs to themselves: no call goes to a library that is not mapped or to a
   context that was shut down, and what lives and is mapped is what the
   Engine's backends and the load in progress own (ExtensionModule, Engine). *)
THEOREM LifecycleExtensionsSound ==
  ASSUME Extensions!LibraryAssumption
  PROVE  Extensions!Spec => []ExtensionsSound
<1>1. Extensions!Init => ExtensionInv BY ExtensionInit
<1>2. ExtensionInv /\ [Extensions!Next]_(Extensions!vars) => ExtensionInv'
  BY ExtensionStep
<1>3. ExtensionInv => ExtensionsSound BY ExtensionInvFollows DEF ExtensionsSound
<1>4. QED BY <1>1, <1>2, <1>3, PTL DEF Extensions!Spec

===============================================================================

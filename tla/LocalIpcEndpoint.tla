-------------------------- MODULE LocalIpcEndpoint --------------------------
(***************************************************************************)
(* The life of the AF_UNIX node of a local endpoint: LocalIpcServer::Listen*)
(* and the destructor of LocalIpcServer (LocalTransportPosix.cpp), run by  *)
(* any number of server objects on the one path, with crashes, failing     *)
(* system calls, and other programs that remove or put something at the    *)
(* path.                                                                   *)
(*                                                                         *)
(* Every system call is a step of its own: between two of them anybody may *)
(* act.  A file system gives a new node any inode number nothing holds; a  *)
(* node is held by its name and by the open socket that bound it.  A       *)
(* server is one LocalIpcServer object: a restart is another server.       *)
(***************************************************************************)
EXTENDS Naturals, FiniteSets

CONSTANTS Servers,        \* LocalIpcServer objects, in one or more processes
          Inodes,         \* inode numbers of the file system
          Outside,        \* whoever else touches the path
          None,           \* no inode, nothing at the path
          MaxOutside,     \* bound: how often another program touches the path
          MaxFaults       \* bound: system calls that fail for their own reasons

Node == [inode : Inodes, kind : {"socket", "file"},
         by : Servers \cup {Outside}, late : SUBSET Servers]

ASSUME EndpointAssumption ==
    /\ Outside \notin Servers
    /\ None \notin Inodes \cup Node
    /\ MaxOutside \in Nat
    /\ MaxFaults \in Nat

VARIABLES
    path,         \* what the path names: None or a node
    pc,           \* the next system call of each server
    socket,       \* the inode a server's open listener pins, or None
    bound_node,   \* socket_inode: the inode a server takes for its own
    seen,         \* (history) who made the node a server took for its own
    outside,      \* (history) how often another program touched the path
    faults,       \* (history) how many system calls failed by themselves
    excused       \* (history) a crash, or a failed call that leaves a node

vars == <<path, pc, socket, bound_node, seen, outside, faults, excused>>

PC == {"inspect", "bind", "inspect_bound", "chmod", "listen", "verify",
       "allocate", "serving", "check", "unlink", "done"}

TypeOK ==
    /\ path \in Node \cup {None}
    /\ pc \in [Servers -> PC]
    /\ socket \in [Servers -> Inodes \cup {None}]
    /\ bound_node \in [Servers -> Inodes \cup {None}]
    /\ seen \in [Servers -> Servers \cup {Outside, None}]
    /\ outside \in 0 .. MaxOutside
    /\ faults \in 0 .. MaxFaults
    /\ excused \in BOOLEAN

(* The servers whose listener has been closed again: from then on nothing
   keeps the inode they recorded from being given to another node. *)
Closed == {s \in Servers : pc[s] \in {"check", "unlink", "done"}}

FreeInodes ==
    {i \in Inodes : /\ \A s \in Servers : socket[s] # i
                    /\ path # None => path.inode # i}

NewNode(i, kind, who) ==
    [inode |-> i, kind |-> kind, by |-> who, late |-> Closed]

Init ==
    /\ path = None
    /\ pc = [s \in Servers |-> "inspect"]
    /\ socket = [s \in Servers |-> None]
    /\ bound_node = [s \in Servers |-> None]
    /\ seen = [s \in Servers |-> None]
    /\ outside = 0
    /\ faults = 0
    /\ excused = FALSE

------------------------------------------------------
Goto(s, label) == pc' = [pc EXCEPT ![s] = label]

(* UniqueFileDescriptor::Reset of the listener. *)
CloseListener(s) == socket' = [socket EXCEPT ![s] = None]

Fault == faults < MaxFaults /\ faults' = faults + 1

(* IsSameSocketNode. *)
IsSameSocketNode(inode) ==
    path # None /\ path.kind = "socket" /\ path.inode = inode

(* Listen: nothing may be at the path, and the socket must be created. *)
InspectPath(s) ==
    /\ pc[s] = "inspect"
    /\ \/ path = None /\ Goto(s, "bind") /\ UNCHANGED faults
       \/ path # None /\ Goto(s, "done") /\ UNCHANGED faults
       \/ Fault /\ Goto(s, "done")
    /\ UNCHANGED <<path, socket, bound_node, seen, outside, excused>>

(* Mutant: a stale node is cleared out of the way before bind. *)
bind_over(s) ==
    /\ pc[s] = "bind"
    /\ \E i \in FreeInodes :
          /\ path' = NewNode(i, "socket", s)
          /\ socket' = [socket EXCEPT ![s] = i]
    /\ Goto(s, "inspect_bound")
    /\ UNCHANGED <<bound_node, seen, outside, faults, excused>>

(* bind creates the node, or fails when the path is taken by now. *)
Bind(s) ==
    /\ pc[s] = "bind"
    /\ \/ \E i \in FreeInodes :
             /\ path = None
             /\ path' = NewNode(i, "socket", s)
             /\ socket' = [socket EXCEPT ![s] = i]
             /\ Goto(s, "inspect_bound")
             /\ UNCHANGED faults
       \/ path # None /\ Goto(s, "done") /\ UNCHANGED <<path, socket, faults>>
       \/ Fault /\ Goto(s, "done") /\ UNCHANGED <<path, socket>>
    /\ UNCHANGED <<bound_node, seen, outside, excused>>

(* lstat of the bound node.  A failure here closes the listener and leaves
   whatever is at the path. *)
InspectBound(s) ==
    /\ pc[s] = "inspect_bound"
    /\ \/ /\ path # None /\ path.kind = "socket"
          /\ bound_node' = [bound_node EXCEPT ![s] = path.inode]
          /\ seen' = [seen EXCEPT ![s] = path.by]
          /\ Goto(s, "chmod")
          /\ UNCHANGED <<socket, faults, excused>>
       \/ /\ path # None => path.kind # "socket"
          /\ CloseListener(s) /\ Goto(s, "done")
          /\ UNCHANGED <<bound_node, seen, faults, excused>>
       \/ /\ Fault /\ excused' = TRUE
          /\ CloseListener(s) /\ Goto(s, "done")
          /\ UNCHANGED <<bound_node, seen>>
    /\ UNCHANGED <<path, outside>>

(* chmod and listen: a failure closes the listener, then tries to take the
   node away again (remove_bound_node). *)
Chmod(s) ==
    /\ pc[s] = "chmod"
    /\ \/ path # None /\ Goto(s, "listen") /\ UNCHANGED <<socket, faults>>
       \/ path = None /\ CloseListener(s) /\ Goto(s, "check")
          /\ UNCHANGED faults
       \/ Fault /\ CloseListener(s) /\ Goto(s, "check")
    /\ UNCHANGED <<path, bound_node, seen, outside, excused>>

(* Mutant: a failing listen forgets remove_bound_node. *)
listen_leaks(s) ==
    /\ pc[s] = "listen"
    /\ \/ Goto(s, "verify") /\ UNCHANGED <<socket, faults>>
       \/ Fault /\ CloseListener(s) /\ Goto(s, "done")
    /\ UNCHANGED <<path, bound_node, seen, outside, excused>>

ListenCall(s) ==
    /\ pc[s] = "listen"
    /\ \/ Goto(s, "verify") /\ UNCHANGED <<socket, faults>>
       \/ Fault /\ CloseListener(s) /\ Goto(s, "check")
    /\ UNCHANGED <<path, bound_node, seen, outside, excused>>

(* lstat again: the node must still be the one inspected after bind. *)
Verify(s) ==
    /\ pc[s] = "verify"
    /\ \/ /\ IsSameSocketNode(bound_node[s])
          /\ Goto(s, "allocate")
          /\ UNCHANGED <<socket, faults>>
       \/ /\ ~IsSameSocketNode(bound_node[s])
          /\ CloseListener(s) /\ Goto(s, "check")
          /\ UNCHANGED faults
       \/ Fault /\ CloseListener(s) /\ Goto(s, "check")
    /\ UNCHANGED <<path, bound_node, seen, outside, excused>>

(* The server object and its copy of the path.  When their memory is refused
   the listener is closed on the way out and nobody removes the node. *)
Allocate(s) ==
    /\ pc[s] = "allocate"
    /\ \/ Goto(s, "serving") /\ UNCHANGED <<socket, faults, excused>>
       \/ Fault /\ excused' = TRUE /\ CloseListener(s) /\ Goto(s, "done")
    /\ UNCHANGED <<path, bound_node, seen, outside>>

(* ~Implementation: close the listener, compare the node, unlink the path. *)
CloseServer(s) ==
    /\ pc[s] = "serving"
    /\ CloseListener(s)
    /\ Goto(s, "check")
    /\ UNCHANGED <<path, bound_node, seen, outside, faults, excused>>

(* Mutant: the destructor unlinks whatever socket it finds at its path. *)
check_nothing(s) ==
    /\ pc[s] = "check"
    /\ IF path # None /\ path.kind = "socket" THEN Goto(s, "unlink")
       ELSE Goto(s, "done")
    /\ UNCHANGED <<path, socket, bound_node, seen, outside, faults, excused>>

CheckNode(s) ==
    /\ pc[s] = "check"
    /\ \/ /\ IsSameSocketNode(bound_node[s])
          /\ Goto(s, "unlink")
          /\ UNCHANGED <<faults, excused>>
       \/ /\ ~IsSameSocketNode(bound_node[s])
          /\ Goto(s, "done")
          /\ UNCHANGED <<faults, excused>>
       \/ Fault /\ excused' = TRUE /\ Goto(s, "done")
    /\ UNCHANGED <<path, socket, bound_node, seen, outside>>

(* unlink takes a path, not a node: it removes what is there by then.  The
   code ignores its result, so one that is refused leaves the node. *)
Unlink(s) ==
    /\ pc[s] = "unlink"
    /\ \/ path' = None /\ UNCHANGED <<faults, excused>>
       \/ Fault /\ excused' = TRUE /\ UNCHANGED path
    /\ Goto(s, "done")
    /\ UNCHANGED <<socket, bound_node, seen, outside>>

(* The process of a server ends without running a destructor: the kernel
   closes the socket, the node stays. *)
Crash(s) ==
    /\ pc[s] # "done"
    /\ pc[s] # "inspect"
    /\ CloseListener(s)
    /\ excused' = TRUE
    /\ Goto(s, "done")
    /\ UNCHANGED <<path, bound_node, seen, outside, faults>>

(* Another program, or an operator clearing a stale endpoint, removes what
   is at the path or puts an ordinary file there. *)
Touch ==
    /\ outside < MaxOutside
    /\ outside' = outside + 1
    /\ \/ path # None /\ path' = None
       \/ path = None /\ \E i \in FreeInodes : path' = NewNode(i, "file", Outside)
    /\ UNCHANGED <<pc, socket, bound_node, seen, faults, excused>>

(* Every server may be done. *)
Finished ==
    /\ \A s \in Servers : pc[s] = "done"
    /\ UNCHANGED vars

Step(s) ==
    \/ InspectPath(s) \/ Bind(s) \/ InspectBound(s) \/ Chmod(s)
    \/ ListenCall(s) \/ Verify(s) \/ Allocate(s) \/ CloseServer(s)
    \/ CheckNode(s) \/ Unlink(s) \/ Crash(s)

Next == (\E s \in Servers : Step(s)) \/ Touch \/ Finished

Spec == Init /\ [][Next]_vars

------------------------------------------------------
(* A server whose Listen inspected the node its own bind had made unlinks
   nothing but that node, or one made after it had closed its listener:
   the destructor's "do not unlink a path that was replaced while the
   server ran".  The open listener keeps the inode number from being given
   away; after it is closed, a later node can be hit, because its number
   may be the same and because the unlink follows the comparison. *)
OwnNodeOnly ==
    [][\A s \in Servers :
          (pc[s] = "unlink" /\ pc'[s] = "done" /\ path # None /\ path' = None)
             => (seen[s] = s => path.by = s \/ s \in path.late)]_vars

(* As long as nobody else touches the path, a serving object is the one a
   client reaches through it: no other server, starting, failing or being
   destroyed at the same time, takes its node away. *)
ServingIsReachable ==
    \A s \in Servers :
        (pc[s] \in {"verify", "allocate", "serving"} /\ outside = 0)
           => path # None /\ path.by = s

(* A socket node nobody listens behind makes every later Listen fail.  The
   code leaves one on five occasions: a crash, an lstat that fails after bind
   or before unlink, an unlink that is refused, and memory refused to the
   server object.  A failing chmod, listen or verification, and a destruction
   whose calls succeed, leave none, however many servers do it at once. *)
Abandoned ==
    /\ path # None
    /\ path.kind = "socket"
    /\ \A s \in Servers : socket[s] # path.inode
    /\ \A s \in Servers : pc[s] \in {"check", "unlink"} => bound_node[s] # path.inode
StaleOnlyAfterFault == Abandoned => excused
=============================================================================

-------------------------- MODULE ExtensionLifecycle --------------------------
(* The XPU extensions an Engine owns: DynamicLibrary counts a mapping,
   ExtensionModule adds the context the library's query created, XpuBackend
   adds the interface, and Engine keeps the accepted ones in a vector. Every
   way out of load_xpu_extension destroys what the load had got so far.
   Objects are values: a move leaves one behind, and destroying it must have
   no effect. The plugin is external: a library either creates a context for
   each query or, like the lifecycle fixture, refuses one while its context
   is live. A query that fails or a table without shutdown leaves none. *)
EXTENDS Integers, Sequences, SequencesExt, FiniteSets

CONSTANTS
    Path,        \* canonical paths
    Library,     \* what the loader maps; hard links give one several paths
    LibraryOf,   \* the library at each path
    Exclusive,   \* libraries with one context at a time
    MaxQueries,  \* bound: contexts a library ever creates
    None

LibraryAssumption ==
    /\ LibraryOf \in [Path -> Library]
    /\ Exclusive \subseteq Library
    /\ MaxQueries \in Nat
    /\ None \notin Library \cup (Library \X (1 .. MaxQueries))

VARIABLES
    backends,    \* Engine::xpu_backends_
    local,       \* what the load in progress holds
    step,        \* how far that load has got
    process      \* mappings, live contexts, contexts created, and whether a
                 \* call went to code that is not mapped or a dead context

vars == <<backends, local, step, process>>

Context == Library \X (1 .. MaxQueries)

Empty == [handle |-> None, context |-> None, path |-> None]

Init ==
    /\ backends = << >>
    /\ local = Empty
    /\ step = "idle"
    /\ process = [mapped |-> [l \in Library |-> 0], live |-> {},
                  created |-> [l \in Library |-> 0], stray |-> FALSE]

------------------------------------------------------
(* DynamicLibrary and ExtensionModule. *)

is_active(o) == o.handle # None /\ o.context # None

callable(p, o) == p.mapped[o.context[1]] > 0 /\ o.context \in p.live

(* get_interface and the device calls enter the library with its context. *)
call(p, o) == [p EXCEPT !.stray = @ \/ ~callable(p, o)]

shutdown(p, o) ==
    IF is_active(o) THEN [call(p, o) EXCEPT !.live = @ \ {o.context}] ELSE p

close(p, o) ==
    IF o.handle # None THEN [p EXCEPT !.mapped[o.handle] = @ - 1] ELSE p

(* A plausible slip: the members go before the body of the destructor runs. *)
destroyed_in_order_of_declaration(p, o) == shutdown(close(p, o), o)

destroyed(p, o) == close(shutdown(p, o), o)

(* What a move leaves: the path is moved from too, and reads as anything. *)
moved_from(o) == Empty

------------------------------------------------------
(* Engine::load_xpu_extension, one action for each way it can go on. *)

open(f) ==
    /\ step = "idle"
    /\ local' = [handle |-> LibraryOf[f], context |-> None, path |-> f]
    /\ process' = [process EXCEPT !.mapped[LibraryOf[f]] = @ + 1]
    /\ step' = "opened"
    /\ UNCHANGED backends

give_up ==
    /\ process' = destroyed(process, local)
    /\ local' = Empty
    /\ step' = "idle"
    /\ UNCHANGED backends

query_rejected == step = "opened" /\ give_up

fresh == <<local.handle, process.created[local.handle] + 1>>

accepts ==
    /\ process.created[local.handle] < MaxQueries
    /\ local.handle \in Exclusive => \A c \in process.live : c[1] # local.handle

queried == [process EXCEPT !.live = @ \cup {fresh}, !.created[local.handle] = @ + 1]

query_malformed ==
    /\ step = "opened" /\ accepts
    /\ LET table == [local EXCEPT !.context = fresh]
       IN  process' = close(shutdown(queried, table), local)
    /\ local' = Empty
    /\ step' = "idle"
    /\ UNCHANGED backends

query_accepted ==
    /\ step = "opened" /\ accepts
    /\ local' = [local EXCEPT !.context = fresh]
    /\ process' = destroyed(queried, moved_from(local))
    /\ step' = "loaded"
    /\ UNCHANGED backends

interface_refused ==
    /\ step = "loaded"
    /\ process' = destroyed(call(process, local), local)
    /\ local' = Empty
    /\ step' = "idle"
    /\ UNCHANGED backends

interface_accepted ==
    /\ step = "loaded"
    /\ process' = destroyed(call(process, local), moved_from(local))
    /\ step' = "interfaced"
    /\ UNCHANGED <<backends, local>>

is_loaded(f) == \E i \in DOMAIN backends : backends[i].path = f

duplicate == step = "interfaced" /\ is_loaded(local.path) /\ give_up

(* push_back moves the elements to new storage and destroys the old ones. *)
accept ==
    /\ step = "interfaced" /\ ~is_loaded(local.path)
    /\ backends' = Append(backends, local)
    /\ process' = FoldLeft(LAMBDA p, o : destroyed(p, moved_from(o)),
                           process, Append(backends, local))
    /\ local' = Empty
    /\ step' = "idle"

(* It stops at the first backend that fails. *)
enumerate_devices ==
    /\ step = "idle"
    /\ \E n \in 0 .. Len(backends) :
          process' = FoldLeft(call, process, SubSeq(backends, 1, n))
    /\ UNCHANGED <<backends, local, step>>

(* The Engine goes out of scope: after a load that failed, or at the end. *)
destroy_engine ==
    /\ step = "idle"
    /\ process' = FoldLeft(destroyed, process, backends)
    /\ backends' = << >>
    /\ step' = "gone"
    /\ UNCHANGED local

Next ==
    \/ \E f \in Path : open(f)
    \/ query_rejected
    \/ query_malformed
    \/ query_accepted
    \/ interface_refused
    \/ interface_accepted
    \/ duplicate
    \/ accept
    \/ enumerate_devices
    \/ destroy_engine

Spec == Init /\ [][Next]_vars

------------------------------------------------------
held == Append(backends, local)

(* Type invariant. *)
TypeOK ==
    /\ step \in {"idle", "opened", "loaded", "interfaced", "gone"}
    /\ \A i \in DOMAIN held :
          held[i] \in [handle : Library \cup {None}, context : Context \cup {None},
                       path : Path \cup {None}]
    /\ process \in [mapped : [Library -> Int], live : SUBSET Context,
                    created : [Library -> 0 .. MaxQueries], stray : BOOLEAN]

(* The code never calls a library that is not mapped or a context that was
   shut down, and unmaps no library under a live context: the check the
   lifecycle fixture makes when it is unloaded. *)
CallsLand ==
    /\ ~process.stray
    /\ \A c \in process.live : process.mapped[c[1]] > 0

(* Whatever a load met, the contexts that live are those of the backends the
   Engine keeps and of the load in progress, one each, and a library is
   mapped as many times as there are handles: a load that fails, or finds
   its path loaded, leaves the other backends as they were and nothing else. *)
ContextsOwned ==
    /\ process.live = {held[i].context : i \in DOMAIN held} \ {None}
    /\ \A i, j \in DOMAIN held :
          held[i].context = held[j].context => i = j \/ held[i].context = None
    /\ \A l \in Library :
          process.mapped[l] = Cardinality({i \in DOMAIN held : held[i].handle = l})

ExtensionsSound == TypeOK /\ CallsLand /\ ContextsOwned
=============================================================================

-------------------------- MODULE MCProcessBoundary --------------------------
(* What the process shares with others, side by side: the node of the local
   endpoint, the exchanges over it, and the extensions it loads. The three
   share no state: part says which one a behaviour is about, and the others
   stay in an initial state.

   The frames are one of each kind the server treats differently. Two paths
   name one library that keeps its context to itself, a third names another
   that does not. *)
EXTENDS LocalIpcEndpoint

CONSTANTS Exchangers, Peers, Frames, CurrentVersion, MaximumPayload, Backlog,
          Path, Library, LibraryOf, Exclusive, MaxQueries

Frame(type, command, size, id) ==
    [version |-> CurrentVersion, type |-> type, command |-> command,
     status |-> "Ok", size |-> size, id |-> id]

Sent ==
    {Frame("Request", "Ping", 0, 1), Frame("Request", "Ping", 1, 2),
     Frame("Request", "Shutdown", 0, 1), Frame("Request", "Unknown", 1, 2),
     Frame("Response", "Ping", 0, 1)}

Refused ==
    {Frame("Request", "Ping", 0, 0), Frame("Request", "Ping", 2, 1)}

MCFrames == Sent \cup Refused

MCPath      == {"link", "original", "other"}
MCLibrary   == {"exclusive", "counting"}
MCLibraryOf == [f \in MCPath |-> IF f = "other" THEN "counting" ELSE "exclusive"]

VARIABLES
    part,
    listener, pending, spc, connection, header, reply, run, cpc, request, wire, answer,
    open, result, stop_replied,
    backends, local, step, process

exchange == <<listener, pending, spc, connection, header, reply, run, cpc, request, wire,
              answer, open, result, stop_replied>>
extensions == <<backends, local, step, process>>
all == <<part, vars, exchange, extensions>>

Exchange == INSTANCE LocalIpcExchange
Extensions == INSTANCE ExtensionLifecycle

ASSUME Exchange!ExchangeAssumption
ASSUME Extensions!LibraryAssumption

AnyRequests == [c \in Exchangers \cup Peers |-> Frame("Request", "Ping", 0, 1)]

SideBySideInit ==
    /\ part \in {"endpoint", "exchange", "extensions"}
    /\ Init
    /\ Extensions!Init
    /\ part # "exchange" => request = AnyRequests
    /\ Exchange!Init

Endpoint   == part = "endpoint" /\ UNCHANGED <<part, exchange, extensions>>
Exchanging == part = "exchange" /\ UNCHANGED <<part, vars, extensions>>
Loading    == part = "extensions" /\ UNCHANGED <<part, vars, exchange>>

Serving == Exchange!Server /\ Exchanging

SideBySideNext ==
    \/ \E s \in Servers : Endpoint /\ InspectPath(s)
    \/ \E s \in Servers : Endpoint /\ Bind(s)
    \/ \E s \in Servers : Endpoint /\ InspectBound(s)
    \/ \E s \in Servers : Endpoint /\ Chmod(s)
    \/ \E s \in Servers : Endpoint /\ ListenCall(s)
    \/ \E s \in Servers : Endpoint /\ Verify(s)
    \/ \E s \in Servers : Endpoint /\ Allocate(s)
    \/ \E s \in Servers : Endpoint /\ CloseServer(s)
    \/ \E s \in Servers : Endpoint /\ CheckNode(s)
    \/ \E s \in Servers : Endpoint /\ Unlink(s)
    \/ \E s \in Servers : Endpoint /\ Crash(s)
    \/ Endpoint /\ Touch
    \/ Endpoint /\ Finished
    \/ Exchanging /\ Exchange!Listen
    \/ Exchanging /\ Exchange!AcceptConnection
    \/ Exchanging /\ Exchange!ReadHeader
    \/ Exchanging /\ Exchange!ReadPayload
    \/ Exchanging /\ Exchange!ProcessRequest
    \/ Exchanging /\ Exchange!WriteReply
    \/ \E c \in Exchangers \cup Peers : Exchanging /\ Exchange!Connect(c)
    \/ \E c \in Exchangers : Exchanging /\ Exchange!ConnectTimeout(c)
    \/ \E c \in Exchangers : Exchanging /\ Exchange!Send(c)
    \/ \E c \in Exchangers : Exchanging /\ Exchange!SendPayload(c)
    \/ \E c \in Exchangers : Exchanging /\ Exchange!ReadAnswer(c)
    \/ \E c \in Peers : Exchanging /\ Exchange!PeerSends(c)
    \/ \E c \in Peers : Exchanging /\ Exchange!PeerLeaves(c)
    \/ Exchanging /\ Exchange!Finished
    \/ \E f \in Path : Loading /\ Extensions!open(f)
    \/ Loading /\ Extensions!query_rejected
    \/ Loading /\ Extensions!query_malformed
    \/ Loading /\ Extensions!query_accepted
    \/ Loading /\ Extensions!interface_refused
    \/ Loading /\ Extensions!interface_accepted
    \/ Loading /\ Extensions!duplicate
    \/ Loading /\ Extensions!accept
    \/ Loading /\ Extensions!enumerate_devices
    \/ Loading /\ Extensions!destroy_engine
    \/ Loading /\ UNCHANGED extensions  \* The Engine asks for nothing more.

(* The fairness of LocalIpcExchange, while it is the part that runs. *)
SideBySide ==
    /\ SideBySideInit
    /\ [][SideBySideNext]_all
    /\ WF_all(Serving)
    /\ \A c \in Exchangers : WF_all(Exchange!Exchange(c) /\ Exchanging)
    /\ \A c \in Peers : WF_all(Exchange!PeerLeaves(c) /\ Exchanging)

(* What a client may conclude from a reply, and from the end of a run. *)
RepliesSound == Exchange!RepliesSound

(* Every Exchange returns, with an answer or an error: whatever the other
   clients send and wherever they stop, whether the server starts, stops
   or fails, and with connections waiting in the backlog when it does. *)
ExchangeEnds == part = "exchange" => Exchange!ExchangeEnds

(* Calls reach code that is mapped and contexts that live, and every context
   and mapping has one owner (ExtensionLifecycle). *)
ExtensionsSound == Extensions!ExtensionsSound
===============================================================================

-------------------------- MODULE LocalIpcExchange --------------------------
(***************************************************************************)
(* LocalIpcServer::Run over ServeOne, and LocalIpcClient::Exchange, over   *)
(* one endpoint (LocalTransportPosix.cpp, LocalTransportFraming.hpp,       *)
(* ProtocolCodec.cpp).  Exchangers are calls of Exchange; Peers are other  *)
(* programs that connect, send any frame or part of one, and leave when    *)
(* they like: a client that dies half way is one.                          *)
(*                                                                         *)
(* A frame travels as a header and, when its size is not 0, a payload;     *)
(* each arrives whole or not at all, because ReadExactly loops over short  *)
(* reads.  Replies fit in the socket's buffer, so a write never waits.     *)
(***************************************************************************)
EXTENDS Naturals, Sequences, FiniteSets

CONSTANTS Exchangers, Peers,   \* the two kinds of clients
          None,                \* no client, no frame
          Frames,              \* the frames clients may want to send
          CurrentVersion,      \* the protocol version of this build
          MaximumPayload,      \* the largest payload a frame may carry
          Backlog              \* the argument of listen

Clients == Exchangers \cup Peers

Statuses == {"Ok", "InvalidMessage", "UnsupportedCommand", "InvalidPayload",
             "InternalError", "Unavailable"}

(* What follows the header of a frame that has a size. *)
Payload == [type |-> "Payload"]

(* A response, and the ServerAction it comes with. *)
Responses == [type : {"Response"}, command : {f.command : f \in Frames},
              id : {f.id : f \in Frames}, status : Statuses,
              action : {"Continue", "Stop"}]

ExchangeAssumption ==
    /\ Exchangers \cap Peers = {}
    /\ None \notin Clients \cup Responses
    /\ Backlog \in Nat
    /\ MaximumPayload \in Nat

VARIABLES
    listener,    \* absent, bound, listening, closed
    pending,     \* connections waiting in the backlog
    spc,         \* where ServeOne stands
    connection,  \* the client being served
    header,      \* the frame whose header was read
    reply,       \* what ProcessRequest returned: the response and the action
    run,         \* running, or how Run returned: stopped, failed
    cpc,         \* where each client stands
    request,     \* the frame each client wants to send
    wire,        \* what each client sent that was not read yet
    answer,      \* the response on its way to each client, or None
    open,        \* <<client, end>>: ends of connections not closed yet
    result,      \* what Exchange returned
    stop_replied \* (history) clients whose stop request was answered

vars == <<listener, pending, spc, connection, header, reply, run, cpc, request,
          wire, answer, open, result, stop_replied>>
server_vars == <<listener, spc, connection, header, reply, run, stop_replied>>
client_vars == <<cpc, request, result>>

Results == {"none", "ok", "connection_failed", "peer_closed",
            "protocol_violation"}

TypeOK ==
    /\ listener \in {"absent", "bound", "listening", "closed"}
    /\ pending \in Seq(Clients) /\ Len(pending) <= Backlog + 1
    /\ spc \in {"accept", "read_header", "read_payload", "process", "write",
                "returned"}
    /\ connection \in Clients \cup {None}
    /\ run \in {"running", "stopped", "failed"}
    /\ cpc \in [Clients -> {"connect", "send", "send_payload", "read", "left"}]
    /\ request \in [Clients -> Frames]
    /\ wire \in [Clients -> Seq(Frames \cup {Payload})]
    /\ answer \in [Clients -> Responses \cup {None}]
    /\ result \in [Clients -> Results]
    /\ open \subseteq Clients \X {"client", "server"}

Init ==
    /\ listener = "absent"
    /\ pending = <<>>
    /\ spc = "accept"
    /\ connection = None
    /\ header = None
    /\ reply = None
    /\ run = "running"
    /\ cpc = [c \in Clients |-> "connect"]
    /\ request \in [Clients -> Frames]
    /\ \A c \in Exchangers : request[c].type = "Request"
    /\ wire = [c \in Clients |-> <<>>]
    /\ answer = [c \in Clients |-> None]
    /\ open = {}
    /\ result = [c \in Clients |-> "none"]
    /\ stop_replied = {}

------------------------------------------------------
(* The server. *)

KnownCommands == {"Ping", "Shutdown"}

(* Listen, in the two steps a client can tell apart: after bind a connect
   is refused, after listen it is taken. *)
Listen ==
    /\ \/ listener = "absent" /\ listener' = "bound"
       \/ listener = "bound" /\ listener' = "listening"
    /\ UNCHANGED <<pending, spc, connection, header, reply, run, wire, answer,
                   open, stop_replied, client_vars>>

(* Run returns: the server object is destroyed, its listener is closed and
   every connection it had not accepted is reset. *)
Return(how) ==
    /\ run' = how
    /\ spc' = "returned"
    /\ listener' = "closed"
    /\ pending' = <<>>
    /\ open' = open \ (Clients \X {"server"})
    /\ connection' = None

(* ServeOne returned an action: its connection is closed, Run loops. *)
NextRequest(c) ==
    /\ spc' = "accept"
    /\ open' = open \ {<<c, "server">>}
    /\ connection' = None
    /\ UNCHANGED <<listener, pending, run>>

AcceptConnection ==
    /\ listener = "listening" /\ spc = "accept" /\ pending # <<>>
    /\ connection' = Head(pending)
    /\ pending' = Tail(pending)
    /\ spc' = "read_header"
    /\ UNCHANGED <<listener, header, reply, run, wire, answer, open,
                   stop_replied, client_vars>>

(* ReadExactly: something arrived, or the peer closed before it did. *)
Arrived(c) == wire[c] # <<>>
PeerClosed(c) == wire[c] = <<>> /\ <<c, "client">> \notin open

(* ValidateHeader. *)
ValidHeader(h) ==
    /\ h.version = CurrentVersion
    /\ h.type \in {"Request", "Response"}
    /\ h.status \in Statuses
    /\ h.type = "Request" => h.status = "Ok"
    /\ h.id # 0
    /\ h.size <= MaximumPayload

(* ReadProtocolMessage.  A header that does not validate ends the run as a
   read error does: no reply is sent.
   Mutants: a closed connection is read again; the header buffer outlives
   its connection. *)
read_header_again ==
    LET c == connection IN
    /\ spc = "read_header"
    /\ \/ /\ Arrived(c)
          /\ ValidHeader(Head(wire[c]))
          /\ header' = Head(wire[c])
          /\ wire' = [wire EXCEPT ![c] = Tail(@)]
          /\ spc' = IF header'.size = 0 THEN "process" ELSE "read_payload"
          /\ UNCHANGED <<listener, pending, connection, run, open>>
       \/ /\ Arrived(c) /\ ~ValidHeader(Head(wire[c]))
          /\ Return("failed")
          /\ UNCHANGED <<header, wire>>
       \/ PeerClosed(c) /\ UNCHANGED <<server_vars, pending, wire, open>>
    /\ UNCHANGED <<reply, answer, stop_replied, client_vars>>
read_header_once ==
    LET c == connection IN
    /\ spc = "read_header"
    /\ \/ /\ Arrived(c)
          /\ ValidHeader(Head(wire[c]))
          /\ header' = IF header = None THEN Head(wire[c]) ELSE header
          /\ wire' = [wire EXCEPT ![c] = Tail(@)]
          /\ spc' = IF Head(wire[c]).size = 0 THEN "process" ELSE "read_payload"
          /\ UNCHANGED <<listener, pending, connection, run, open>>
       \/ /\ Arrived(c) => ~ValidHeader(Head(wire[c]))
          /\ Arrived(c) \/ PeerClosed(c)
          /\ Return("failed")
          /\ UNCHANGED <<header, wire>>
    /\ UNCHANGED <<reply, answer, stop_replied, client_vars>>

ReadHeader ==
    LET c == connection IN
    /\ spc = "read_header"
    /\ \/ /\ Arrived(c)
          /\ ValidHeader(Head(wire[c]))
          /\ header' = Head(wire[c])
          /\ wire' = [wire EXCEPT ![c] = Tail(@)]
          /\ spc' = IF header'.size = 0 THEN "process" ELSE "read_payload"
          /\ UNCHANGED <<listener, pending, connection, run, open>>
       \/ /\ Arrived(c) => ~ValidHeader(Head(wire[c]))
          /\ Arrived(c) \/ PeerClosed(c)
          /\ Return("failed")
          /\ UNCHANGED <<header, wire>>
    /\ UNCHANGED <<reply, answer, stop_replied, client_vars>>

ReadPayload ==
    LET c == connection IN
    /\ spc = "read_payload"
    /\ \/ /\ Arrived(c)
          /\ wire' = [wire EXCEPT ![c] = Tail(@)]
          /\ spc' = "process"
          /\ UNCHANGED <<listener, pending, connection, run, open>>
       \/ /\ PeerClosed(c)
          /\ Return("failed")
          /\ UNCHANGED wire
    /\ UNCHANGED <<header, reply, answer, stop_replied, client_vars>>

(* MakeProtocolResponse copies the correlation fields of the request. *)
Response(h, status, action) ==
    [type |-> "Response", command |-> h.command, id |-> h.id,
     status |-> status, action |-> action]

(* ProcessRequest: what the frame is refused for, in the code's order, or
   what the handler makes of it.  The handler is the application's: it
   answers, refuses, throws, or returns a payload that is too large; it
   asks for the server to stop only when it answers a Shutdown. *)
Processed(h) ==
    IF h.type # "Request" THEN {Response(h, "InvalidMessage", "Continue")}
    ELSE IF h.command \notin KnownCommands
         THEN {Response(h, "UnsupportedCommand", "Continue")}
    ELSE IF h.size # 0 THEN {Response(h, "InvalidPayload", "Continue")}
    ELSE {Response(h, "Ok", IF h.command = "Shutdown" THEN "Stop" ELSE "Continue")}
         \cup {Response(h, status, "Continue") :
                  status \in {"InternalError", "Unavailable"}}

ProcessRequest ==
    /\ spc = "process"
    /\ reply' \in Processed(header)
    /\ spc' = "write"
    /\ UNCHANGED <<listener, pending, connection, header, run, wire, answer,
                   open, stop_replied, client_vars>>

(* WriteExactly, and what ServeOne and Run do with the outcome: a peer
   that is gone makes the write fail and the run with it. *)
WriteReply ==
    LET c == connection IN
    /\ spc = "write"
    /\ \/ /\ <<c, "client">> \in open
          /\ answer' = [answer EXCEPT ![c] = reply]
          /\ IF reply.action = "Stop"
             THEN /\ stop_replied' = stop_replied \cup {c}
                  /\ Return("stopped")
             ELSE NextRequest(c) /\ UNCHANGED stop_replied
       \/ /\ <<c, "client">> \notin open
          /\ Return("failed")
          /\ UNCHANGED <<answer, stop_replied>>
    /\ UNCHANGED <<header, reply, wire, client_vars>>

------------------------------------------------------
(* The clients. *)

Leave(c, how) ==
    /\ cpc' = [cpc EXCEPT ![c] = "left"]
    /\ result' = [result EXCEPT ![c] = how]
    /\ open' = open \ {<<c, "client">>}

(* connect succeeds as soon as the kernel queues the connection; while the
   backlog is full a blocking connect waits. *)
Connect(c) ==
    /\ cpc[c] = "connect"
    /\ listener = "listening"
    /\ Len(pending) <= Backlog
    /\ pending' = Append(pending, c)
    /\ open' = open \cup {<<c, "client">>, <<c, "server">>}
    /\ cpc' = [cpc EXCEPT ![c] = "send"]
    /\ UNCHANGED <<server_vars, request, wire, answer, result>>

(* OpenClientSocket polls while the path is missing or refuses, until its
   deadline has passed. *)
ConnectTimeout(c) ==
    /\ c \in Exchangers
    /\ cpc[c] = "connect"
    /\ listener # "listening"
    /\ Leave(c, "connection_failed")
    /\ UNCHANGED <<server_vars, pending, request, wire, answer>>

(* EncodeProtocolMessage refuses an invalid header and a known command with
   a payload; Exchange finds that out when it is connected, and leaves
   without a byte sent. *)
Encodes(f) ==
    ValidHeader(f) /\ (f.command \in KnownCommands => f.size = 0)

(* WriteProtocolMessage of Exchange; the write fails when the server has
   closed the connection already. *)
Send(c) ==
    /\ c \in Exchangers
    /\ cpc[c] = "send"
    /\ \/ /\ ~Encodes(request[c])
          /\ Leave(c, "protocol_violation") /\ UNCHANGED wire
       \/ /\ Encodes(request[c]) /\ <<c, "server">> \notin open
          /\ Leave(c, "peer_closed") /\ UNCHANGED wire
       \/ /\ Encodes(request[c]) /\ <<c, "server">> \in open
          /\ wire' = [wire EXCEPT ![c] = <<request[c]>>]
          /\ cpc' = [cpc EXCEPT ![c] =
                        IF request[c].size = 0 THEN "read" ELSE "send_payload"]
          /\ UNCHANGED <<open, result>>
    /\ UNCHANGED <<server_vars, pending, request, answer>>

SendPayload(c) ==
    /\ c \in Exchangers
    /\ cpc[c] = "send_payload"
    /\ IF <<c, "server">> \in open
       THEN /\ wire' = [wire EXCEPT ![c] = Append(@, Payload)]
            /\ cpc' = [cpc EXCEPT ![c] = "read"]
            /\ UNCHANGED <<open, result>>
       ELSE Leave(c, "peer_closed") /\ UNCHANGED wire
    /\ UNCHANGED <<server_vars, pending, request, answer>>

(* ValidateClientResponse. *)
Matches(f, response) ==
    /\ response.type = "Response"
    /\ response.id = f.id
    /\ response.command = f.command

(* Exchange reads its answer: what was sent before the server closed the
   connection is still delivered. *)
ReadAnswer(c) ==
    /\ c \in Exchangers
    /\ cpc[c] = "read"
    /\ \/ /\ answer[c] # None
          /\ Leave(c, IF Matches(request[c], answer[c])
                      THEN "ok" ELSE "protocol_violation")
       \/ /\ answer[c] = None
          /\ <<c, "server">> \notin open
          /\ Leave(c, "peer_closed")
    /\ UNCHANGED <<server_vars, pending, request, wire, answer>>

(* Another program sends its frame, or the first part of it, or leaves. *)
PeerSends(c) ==
    /\ c \in Peers
    /\ cpc[c] \in {"send", "send_payload"}
    /\ <<c, "server">> \in open
    /\ wire' = [wire EXCEPT ![c] =
                   Append(@, IF cpc[c] = "send" THEN request[c] ELSE Payload)]
    /\ cpc' = [cpc EXCEPT ![c] =
                  IF @ = "send" /\ request[c].size # 0 THEN "send_payload" ELSE "read"]
    /\ UNCHANGED <<server_vars, pending, request, answer, open, result>>

PeerLeaves(c) ==
    /\ c \in Peers
    /\ cpc[c] # "left"
    /\ Leave(c, "none")
    /\ UNCHANGED <<server_vars, pending, request, wire, answer>>

(* Nobody is left who could do anything. *)
Finished ==
    /\ \A c \in Clients : cpc[c] = "left"
    /\ pending = <<>>
    /\ listener \in {"listening", "closed"}
    /\ spc \in {"accept", "returned"}
    /\ UNCHANGED vars

Server == AcceptConnection \/ ReadHeader \/ ReadPayload \/ ProcessRequest
            \/ WriteReply

Exchange(c) == Connect(c) \/ ConnectTimeout(c) \/ Send(c) \/ SendPayload(c)
                 \/ ReadAnswer(c)

Peer(c) == Connect(c) \/ PeerSends(c) \/ PeerLeaves(c)

Next == \/ Listen \/ Server \/ Finished
        \/ \E c \in Exchangers : Exchange(c)
        \/ \E c \in Peers : Peer(c)

Spec == Init /\ [][Next]_vars

(* The serving thread and the callers of Exchange run; the deadline of a
   connect passes; another program that holds a connection leaves some day.
   Nothing makes anybody start the server. *)
FairSpec ==
    /\ Spec
    /\ WF_vars(Server)
    /\ \A c \in Exchangers : WF_vars(Exchange(c))
    /\ \A c \in Peers : WF_vars(PeerLeaves(c))

------------------------------------------------------
(* LocalTransport.hpp: "stop_server_after_response is observed only after
   the reply is sent".  When Run has stopped, a client asked for it and
   its reply had been handed to the connection before the listener closed. *)
StopAfterReply ==
    run = "stopped" =>
        \E c \in stop_replied :
            /\ answer[c] # None
            /\ answer[c].action = "Stop"
            /\ request[c].command = "Shutdown"

(* An Exchange that reports success holds the answer to its own request:
   the server never lets a frame it read before, or one it failed to read,
   answer the connection it serves now. *)
AnswersItsRequest ==
    \A c \in Exchangers :
        answer[c] # None => Matches(request[c], answer[c])

(* What a client may conclude from a reply, and from the end of a run. *)
RepliesSound == StopAfterReply /\ AnswersItsRequest

(* Every Exchange returns, with an answer or an error: whatever the other
   clients send and wherever they stop, whether the server starts, stops
   or fails, and with connections waiting in the backlog when it does. *)
ExchangeEnds == \A c \in Exchangers : <>(cpc[c] = "left")
=============================================================================

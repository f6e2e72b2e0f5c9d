--------------------------------- MODULE Uds ---------------------------------
(***************************************************************************)
(* The Unix domain socket transports, uds_blocking.c and                   *)
(* uds_nonblocking.c.  Their servers are the same code and their clients   *)
(* differ in one thing: the non-blocking one sends and receives in loops,  *)
(* everybody else makes one recv for a header and one for a body.          *)
(*                                                                         *)
(* A socket is a stream.  A message is Len units, the first HdrLen of them *)
(* its header, and a unit carries the call it belongs to, its place in the *)
(* message and the process that sent it.  What is sent may arrive in       *)
(* pieces, but only at the ends that cut names: Linux hands over whole     *)
(* messages of this size, the standard does not say so.                    *)
(***************************************************************************)
EXTENDS Integers, Sequences, FiniteSetsExt

CONSTANTS
  HdrLen, MsgLen, \* units of a header and of a message
  MaxLen,         \* units of a buffer, MAX_MSG_SIZE
  MaxMsgs         \* bound: messages the client sends

ASSUME UdsAssumption ==
  /\ {HdrLen, MsgLen, MaxLen, MaxMsgs} \subseteq Nat
  /\ 0 < HdrLen /\ HdrLen < MsgLen /\ MsgLen <= MaxLen

Ends == {"server", "client"}
Other(p) == IF p = "server" THEN "client" ELSE "server"

VARIABLES
  looping,   \* the ends that send and receive in loops: the non-blocking client
  cut,       \* the ends at which data may arrive in pieces
  path,      \* the socket file: "absent", "stale" (nobody listens) or "live"
  connected, \* the client's connection is made
  stream,    \* stream[p]: the units on their way to p
  closed,    \* closed[p]: p has closed its end of the connection
  reset,     \* reset[p]: the peer closed with data unread, p is told once
  pc,
  buf,       \* buf[p]: the units in p's buffer
  size,      \* size[p]: msg_size, as found in the header
  moved,     \* moved[p]: units moved so far by the part p is sending or reading
  expired,   \* expired[p]: its deadline has passed
  ops

setting == <<looping, cut>>
socket == <<path, connected, stream, closed, reset>>
memory == <<buf, size, moved>>
vars == <<setting, socket, pc, memory, expired, ops>>

-----------------------------------------------------------------------------

Unit == [seq : Nat, part : 0..MsgLen, from : Ends]

(* What malloc returns. *)
NoUnit == [seq |-> 0, part |-> 0, from |-> "server"]

ServerPC == {"listen", "accept", "loop", "header", "size", "body", "send", "close", "free", "done"}
ClientPC ==
  {"connect", "loop", "send", "header", "size", "body", "count", "free", "done", "failed"}

(* That size fits the buffer also says that no recv writes past its end.   *)
TypeOK ==
  /\ looping \subseteq {"client"}
  /\ cut \subseteq Ends
  /\ path \in {"absent", "stale", "live"}
  /\ connected \in BOOLEAN
  /\ stream \in [Ends -> Seq(Unit)]
  /\ closed \in [Ends -> BOOLEAN]
  /\ reset \in [Ends -> BOOLEAN]
  /\ pc \in [Ends -> ServerPC \union ClientPC]
  /\ pc["server"] \in ServerPC
  /\ pc["client"] \in ClientPC
  /\ buf \in [Ends -> [1..MaxLen -> Unit]]
  /\ size \in [Ends -> (HdrLen + 1)..MaxLen]
  /\ moved \in [Ends -> 0..MaxLen]
  /\ expired \in [Ends -> BOOLEAN]
  /\ ops \in Nat

Init ==
  /\ looping \in SUBSET {"client"}
  /\ cut \in SUBSET Ends
  /\ path = "absent"
  /\ connected = FALSE
  /\ stream = [p \in Ends |-> <<>>]
  /\ closed = [p \in Ends |-> FALSE]
  /\ reset = [p \in Ends |-> FALSE]
  /\ pc = [p \in Ends |-> IF p = "server" THEN "listen" ELSE "connect"]
  /\ buf = [p \in Ends |-> [i \in 1..MaxLen |-> NoUnit]]
  /\ size = [p \in Ends |-> MsgLen]
  /\ moved = [p \in Ends |-> 0]
  /\ expired = [p \in Ends |-> FALSE]
  /\ ops = 0

Goto(p, from, to) ==
  /\ pc[p] = from
  /\ pc' = [pc EXCEPT ![p] = to]

(* Every break of a loop ends here. *)
End(p) == IF p = "server" THEN "close" ELSE "free"

-----------------------------------------------------------------------------
(* Setup and end.                                                          *)

(* socket, unlink of whatever file is at the path, bind, listen. *)
Listen ==
  /\ Goto("server", "listen", "accept")
  /\ path' = "live"
  /\ UNCHANGED <<setting, connected, stream, closed, reset, memory, expired, ops>>

(* The connection is made as soon as the server listens, before it accepts. *)
Connect ==
  /\ Goto("client", "connect", IF path = "live" THEN "loop" ELSE "failed")
  /\ connected' = (path = "live")
  /\ UNCHANGED <<setting, path, stream, closed, reset, memory, expired, ops>>

Accept ==
  /\ connected
  /\ Goto("server", "accept", "loop")
  /\ UNCHANGED <<setting, socket, memory, expired, ops>>

(* The end of the connection: what p has not read is lost, and its peer is *)
(* told of that.                                                           *)
Hangup(p) ==
  /\ closed' = [closed EXCEPT ![p] = TRUE]
  /\ reset' = [reset EXCEPT ![Other(p)] = stream[p] # <<>>]
  /\ stream' = [stream EXCEPT ![p] = <<>>]

CloseClientFd ==
  /\ Goto("server", "close", "free")
  /\ Hangup("server")
  /\ UNCHANGED <<setting, path, connected, memory, expired, ops>>

(* The server closes the listening socket.  It unlinks SOCKET_PATH, which  *)
(* is not the path it was bound to: the file stays.                        *)
FreeServer ==
  /\ Goto("server", "free", "done")
  /\ path' = "stale"
  /\ UNCHANGED <<setting, connected, stream, closed, reset, memory, expired, ops>>

FreeClient ==
  /\ Goto("client", "free", "done")
  /\ Hangup("client")
  /\ UNCHANGED <<setting, path, connected, memory, expired, ops>>

-----------------------------------------------------------------------------
(* send and write_nonblocking, recv and read_nonblocking.                  *)

(* The piece that the kernel takes of what is still to be sent: all of it, *)
(* or any part of it to an end where data arrives in pieces.               *)
Pieces(p, n) == IF Other(p) \in cut THEN 1..n ELSE {n}

(* Sends msg_size bytes of the buffer, then goes on at next. *)
Send(p, next) ==
  /\ pc[p] = "send"
  /\ ~closed[Other(p)]
  /\ \E k \in Pieces(p, size[p] - moved[p]) :
       LET units == [i \in 1..k |-> [buf[p][moved[p] + i] EXCEPT !.from = p]]
           whole == moved[p] + k = size[p]
       IN  /\ stream' = [stream EXCEPT ![Other(p)] = @ \o units]
           /\ pc' = [pc EXCEPT ![p] = IF whole THEN next ELSE "send"]
           /\ moved' = [moved EXCEPT ![p] = IF whole THEN 0 ELSE moved[p] + k]
  /\ UNCHANGED <<setting, path, connected, closed, reset, buf, size, expired, ops>>

(* EPIPE, or fewer bytes sent than asked for: the peer is gone. *)
SendFails(p) ==
  /\ closed[Other(p)]
  /\ Goto(p, "send", End(p))
  /\ moved' = [moved EXCEPT ![p] = 0]
  /\ UNCHANGED <<setting, socket, buf, size, expired, ops>>

(* Where a part of a message begins, and how long it is. *)
Offset(part) == IF part = "header" THEN 0 ELSE HdrLen

(* Fault: the whole size is asked for as the body. *)
LengthOfAll(p, part) == IF part = "header" THEN HdrLen ELSE size[p]

(* Fault: the end marker after the data is not counted. *)
LengthWithoutEnd(p, part) == IF part = "header" THEN HdrLen ELSE size[p] - HdrLen - 1

Length(p, part) == IF part = "header" THEN HdrLen ELSE size[p] - HdrLen

(* One recv that finds data: it takes what there is.  A loop goes on until *)
(* the part is complete.                                                   *)
Receive(p, part, next) ==
  LET n == Min({Length(p, part) - moved[p], Len(stream[p])})
      start == Offset(part) + moved[p]
      complete == p \notin looping \/ moved[p] + n = Length(p, part)
  IN  /\ pc[p] = part
      /\ stream[p] # <<>>
      /\ buf' = [buf EXCEPT ![p] =
                   [i \in 1..MaxLen |->
                      IF i \in (start + 1)..(start + n) THEN stream[p][i - start] ELSE @[i]]]
      /\ stream' = [stream EXCEPT ![p] = SubSeq(@, n + 1, Len(@))]
      /\ pc' = [pc EXCEPT ![p] = IF complete THEN next ELSE part]
      /\ moved' = [moved EXCEPT ![p] = IF complete THEN 0 ELSE moved[p] + n]
      /\ UNCHANGED <<setting, path, connected, closed, reset, size, expired, ops>>

(* Fault: a recv of zero bytes is tried again. *)
EofAgain(p, part, next) ==
  /\ stream[p] = <<>>
  /\ closed[Other(p)]
  /\ reset[p]
  /\ Goto(p, part, End(p))
  /\ reset' = [reset EXCEPT ![p] = FALSE]
  /\ moved' = [moved EXCEPT ![p] = 0]
  /\ UNCHANGED <<setting, path, connected, stream, closed, buf, size, expired, ops>>

(* Fault: only a recv of zero bytes ends the loop, not an error. *)
ErrorIsData(p, part, next) ==
  /\ stream[p] = <<>>
  /\ closed[Other(p)]
  /\ Goto(p, part, IF ~reset[p] /\ part = "header" /\ moved[p] = 0 THEN End(p) ELSE next)
  /\ reset' = [reset EXCEPT ![p] = FALSE]
  /\ moved' = [moved EXCEPT ![p] = 0]
  /\ UNCHANGED <<setting, path, connected, stream, closed, buf, size, expired, ops>>

(* The stream is at its end.  An error ends the session; zero bytes end it *)
(* if not one byte of a header was read, a body may be short.              *)
ReceiveEnd(p, part, next) ==
  /\ stream[p] = <<>>
  /\ closed[Other(p)]
  /\ Goto(p, part, IF reset[p] \/ (part = "header" /\ moved[p] = 0) THEN End(p) ELSE next)
  /\ reset' = [reset EXCEPT ![p] = FALSE]
  /\ moved' = [moved EXCEPT ![p] = 0]
  /\ UNCHANGED <<setting, path, connected, stream, closed, buf, size, expired, ops>>

Read(p, part, next) == Receive(p, part, next) \/ ReceiveEnd(p, part, next)

(* Fault: any size is believed. *)
BelieveSize(p) ==
  /\ Goto(p, "size", "body")
  /\ size' = [size EXCEPT ![p] = IF buf[p][1].part = 1 THEN MsgLen ELSE MaxLen + 1]
  /\ UNCHANGED <<setting, socket, buf, moved, expired, ops>>

(* The first unit of a header holds the size; any other unit in its place  *)
(* makes a size of some kind, and may make an invalid one.                 *)
CheckSize(p) ==
  /\ \/ /\ Goto(p, "size", "body")
        /\ \E n \in (IF buf[p][1].part = 1 THEN {MsgLen} ELSE (HdrLen + 1)..MaxLen) :
             size' = [size EXCEPT ![p] = n]
     \/ /\ buf[p][1].part # 1
        /\ Goto(p, "size", End(p))
        /\ UNCHANGED size
  /\ UNCHANGED <<setting, socket, buf, moved, expired, ops>>

ReadMessage(p, next) == Read(p, "header", "size") \/ CheckSize(p) \/ Read(p, "body", next)

-----------------------------------------------------------------------------
(* run_uds_*_server: a message that does not validate is reported only.    *)

ServerLoop ==
  /\ Goto("server", "loop", IF expired["server"] THEN "close" ELSE "header")
  /\ UNCHANGED <<setting, socket, memory, expired, ops>>

Serve == ServerLoop \/ ReadMessage("server", "send") \/ Send("server", "loop") \/ SendFails("server")

Server == Listen \/ Accept \/ Serve \/ CloseClientFd \/ FreeServer

-----------------------------------------------------------------------------
(* run_uds_*_client.                                                       *)

ClientStop ==
  /\ expired["client"]
  /\ Goto("client", "loop", "free")
  /\ UNCHANGED <<setting, socket, memory, expired, ops>>

(* random_message increments the sequence number it finds in the buffer.   *)
ClientCompose ==
  /\ ~expired["client"]
  /\ ops < MaxMsgs
  /\ Goto("client", "loop", "send")
  /\ buf' = [buf EXCEPT !["client"] =
               [i \in 1..MaxLen |->
                  IF i <= MsgLen THEN [seq |-> @[1].seq + 1, part |-> i, from |-> "client"] ELSE @[i]]]
  /\ size' = [size EXCEPT !["client"] = MsgLen]
  /\ UNCHANGED <<setting, socket, moved, expired, ops>>

(* Whether it validates or not, the response is counted.                   *)
Count ==
  /\ Goto("client", "count", "loop")
  /\ ops' = ops + 1
  /\ UNCHANGED <<setting, socket, memory, expired>>

Client ==
  \/ Connect
  \/ ClientStop \/ ClientCompose
  \/ Send("client", "header") \/ SendFails("client")
  \/ ReadMessage("client", "count")
  \/ Count
  \/ FreeClient

-----------------------------------------------------------------------------

(* The clock, read by both loops; where else it passes the deadline makes  *)
(* no difference.                                                          *)
Expire(p) ==
  /\ ~expired[p]
  /\ pc[p] = "loop"
  /\ expired' = [expired EXCEPT ![p] = TRUE]
  /\ UNCHANGED <<setting, socket, pc, memory, ops>>

Next == Server \/ Client \/ \E p \in Ends : Expire(p)

Spec == Init /\ [][Next]_vars

(* Both processes run and the clock goes on.                               *)
Fairness == WF_vars(Server) /\ WF_vars(Client) /\ \A p \in Ends : SF_vars(Expire(p))

FairSpec == Spec /\ Fairness

-----------------------------------------------------------------------------

(* Data is cut only where the receiver puts it together again.             *)
Regular == cut \subseteq looping

(* Buffer b holds the message of call c, as p sent it. *)
IsMessage(b, c, p) == \A i \in 1..MsgLen : b[i] = [seq |-> c, part |-> i, from |-> p]

(***************************************************************************)
(* The stream keeps its message boundaries: when the client starts a call  *)
(* nothing of an earlier one is on its way, and what the server answers    *)
(* and the client counts is the whole message of this call.                *)
(***************************************************************************)
InStep ==
  Regular =>
    /\ pc["client"] = "loop" => \A p \in Ends : stream[p] = <<>>
    /\ pc["client"] = "count" => IsMessage(buf["client"], ops + 1, "server")
    /\ pc["server"] = "send" => IsMessage(buf["server"], ops + 1, "client")

Call ==
  CASE pc["client"] \in {"header", "size", "body"} ->
         IF stream["client"] # <<>> \/ moved["client"] > 0 \/ pc["client"] # "header"
         THEN "answered" ELSE "sent"
    [] pc["client"] = "count" -> "answered"
    [] OTHER -> "none"

(* Nothing is promised of a stream that is cut where nobody joins it.      *)
Echo == INSTANCE EchoService WITH
  call <- IF Regular THEN Call ELSE "none",
  closed <- Regular /\ closed["server"],
  ops <- IF Regular THEN ops ELSE 0,
  unanswered <- 0,
  left <- Regular /\ pc["client"] \in {"free", "done", "failed"}

(***************************************************************************)
(* The transport implements the echo service, and it never counts a call   *)
(* that was not answered.                                                  *)
(***************************************************************************)
EchoSpec == Echo!Spec

(***************************************************************************)
(* Once both processes have started, both come to an end.                  *)
(***************************************************************************)
BothFinish ==
  (Regular /\ pc["server"] = "loop") ~> (pc["server"] = "done" /\ pc["client"] = "done")

(***************************************************************************)
(* However the stream has been cut, an end that closes the connection sets *)
(* its peer free.                                                          *)
(***************************************************************************)
HangupFreesPeer == \A p \in Ends : closed[p] ~> (pc[Other(p)] = "done")
=============================================================================

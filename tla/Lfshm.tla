-------------------------------- MODULE Lfshm --------------------------------
(***************************************************************************)
(* The lock-free shared-memory transports (lfshm_blocking.c and            *)
(* lfshm_nonblocking.c): a server and a client process that echo messages  *)
(* through ONE ring buffer used in both directions, and tell each other    *)
(* whose turn it is with two atomic flags and two futex words.             *)
(*                                                                         *)
(* A step is one access to a shared word (or one system call) of one       *)
(* process.  The two programs differ in the client's wait only: the second *)
(* one waits through io_uring and goes on when that fails (UringFail).     *)
(*                                                                         *)
(* A ring position counts whole frames, as in module FrameRing.            *)
(***************************************************************************)
EXTENDS FrameRing

CONSTANTS
  FutexMod,       \* a futex word counts modulo FutexMod (2^32 in the code)
  MaxMsgs,        \* bound: requests the client sends
  StaggeredStart, \* the client starts after the server's setup (make's sleep)
  UringMayFail    \* an io_uring call of the client's wait may fail

ASSUME LfshmAssumption ==
  /\ FutexMod \in Nat /\ FutexMod > 3
  /\ MaxMsgs \in Nat
  /\ StaggeredStart \in BOOLEAN
  /\ UringMayFail \in BOOLEAN

Procs == {"server", "client"}
Other(p) == IF p = "server" THEN "client" ELSE "server"

VARIABLES
  \* the shared segment
  segment,    \* the name exists in the file system
  ready,
  avail,      \* avail["server"]: message_available, avail["client"]: response_available
  futex,      \* futex["server"]: server_futex, futex["client"]: client_futex
  readPos, writePos,
  ring,       \* the frame in each slot
  \* each process
  pc,
  pos,        \* the ring position it has loaded
  val,        \* the futex value it has loaded
  msg,        \* its message buffer
  expired,    \* its deadline has passed
  \* the client's statistics
  ops,
  unanswered  \* ghost: the ops among them that counted the client's own request

shared == <<segment, ready, avail, futex, readPos, writePos, ring>>
local == <<pos, val, msg, expired>>
stats == <<ops, unanswered>>
vars == <<shared, pc, local, stats>>

-----------------------------------------------------------------------------
(* Control points.  Both programs run the same code for the wait, the read *)
(* and the write, so these labels are common.                              *)

Waiting == {"check", "load", "recheck", "wait", "asleep"}
Reading == {"read", "copy", "consume"}
Writing == {"reserve", "fill", "publish"}
Signalling == {"set", "bump", "wake"}
Setup == {"create", "init_ready", "init_message", "init_response"}
Closing == {"close_set", "close_bump", "close_wake",
            "self_set", "self_bump", "self_wake"}

ServerPC ==
  Setup \union {"loop"} \union Waiting \union Reading \union {"clear"}
  \union Writing \union Signalling \union {"close"} \union Closing \union {"done"}

ClientPC ==
  {"open", "attach", "loop"} \union Writing \union Signalling \union {"poll_ready"}
  \union Waiting \union Reading \union {"clear", "count", "done", "failed"}

Frame == [seq : Nat, from : Procs]

TypeOK ==
  /\ segment \in BOOLEAN
  /\ ready \in BOOLEAN
  /\ avail \in [Procs -> BOOLEAN]
  /\ futex \in [Procs -> 0..(FutexMod - 1)]
  /\ readPos \in Slots
  /\ writePos \in Slots
  /\ ring \in [Slots -> Frame]
  /\ pc \in [Procs -> ServerPC \union ClientPC]
  /\ pc["server"] \in ServerPC
  /\ pc["client"] \in ClientPC
  /\ pos \in [Procs -> Slots]
  /\ val \in [Procs -> 0..(FutexMod - 1)]
  /\ msg \in [Procs -> Frame]
  /\ expired \in [Procs -> BOOLEAN]
  /\ ops \in Nat
  /\ unanswered \in Nat

NoFrame == [seq |-> 0, from |-> "client"]

Init ==
  /\ segment = FALSE
  /\ ready = FALSE
  /\ avail = [p \in Procs |-> FALSE]
  /\ futex = [p \in Procs |-> 0]
  /\ readPos = 0
  /\ writePos = 0
  /\ ring = [i \in Slots |-> NoFrame]
  /\ pc = [p \in Procs |-> IF p = "server" THEN "create" ELSE "open"]
  /\ pos = [p \in Procs |-> 0]
  /\ val = [p \in Procs |-> 0]
  /\ msg = [p \in Procs |-> NoFrame]
  /\ expired = [p \in Procs |-> FALSE]
  /\ ops = 0
  /\ unanswered = 0

Goto(p, from, to) ==
  /\ pc[p] = from
  /\ pc' = [pc EXCEPT ![p] = to]

-----------------------------------------------------------------------------
(* Setup.                                                                  *)

(* The fresh segment is all zeros: nobody gets past Attach before ready,   *)
(* so the mapping and the stores to the positions and the futex words are  *)
(* one step.                                                               *)
Create ==
  /\ Goto("server", "create", "init_ready")
  /\ segment' = TRUE
  /\ UNCHANGED <<ready, avail, futex, readPos, writePos, ring, local, stats>>

InitReady ==
  /\ Goto("server", "init_ready", "init_message")
  /\ ready' = TRUE
  /\ UNCHANGED <<segment, avail, futex, readPos, writePos, ring, local, stats>>

(* The two flags are cleared AFTER ready is set.                           *)
InitMessage ==
  /\ Goto("server", "init_message", "init_response")
  /\ avail' = [avail EXCEPT !["server"] = FALSE]
  /\ UNCHANGED <<segment, ready, futex, readPos, writePos, ring, local, stats>>

InitResponse ==
  /\ Goto("server", "init_response", "loop")
  /\ avail' = [avail EXCEPT !["client"] = FALSE]
  /\ UNCHANGED <<segment, ready, futex, readPos, writePos, ring, local, stats>>

Open ==
  /\ StaggeredStart => pc["server"] \notin Setup
  /\ Goto("client", "open", IF segment THEN "attach" ELSE "failed")
  /\ UNCHANGED <<shared, local, stats>>

Attach ==
  /\ ready
  /\ Goto("client", "attach", "loop")
  /\ UNCHANGED <<shared, local, stats>>

-----------------------------------------------------------------------------
(* The test of the deadline at the head of the loops.                      *)

ServerLoop ==
  /\ Goto("server", "loop", IF expired["server"] THEN "close" ELSE "check")
  /\ UNCHANGED <<shared, local, stats>>

ClientStop ==
  /\ expired["client"]
  /\ Goto("client", "loop", "done")
  /\ UNCHANGED <<shared, local, stats>>

(* random_message increments the sequence number of whatever message the   *)
(* buffer holds, the last response included.                               *)
ClientCompose ==
  /\ ~expired["client"]
  /\ ops < MaxMsgs
  /\ Goto("client", "loop", "reserve")
  /\ msg' = [msg EXCEPT !["client"] = [seq |-> msg["client"].seq + 1, from |-> "client"]]
  /\ UNCHANGED <<shared, pos, val, expired, stats>>

(* The clock, read by both loops.                                          *)
Expire(p) ==
  /\ ~expired[p]
  /\ pc[p] \notin Setup \union {"open", "attach", "failed"}
  /\ expired' = [expired EXCEPT ![p] = TRUE]
  /\ UNCHANGED <<shared, pc, pos, val, msg, stats>>

-----------------------------------------------------------------------------
(* futex_wait_for_atomic_bool: process p waits for avail[p].               *)

Check(p) ==
  /\ Goto(p, "check", IF avail[p] THEN "read" ELSE "load")
  /\ UNCHANGED <<shared, local, stats>>

Load(p) ==
  /\ Goto(p, "load", "recheck")
  /\ val' = [val EXCEPT ![p] = futex[p]]
  /\ UNCHANGED <<shared, pos, msg, expired, stats>>

Recheck(p) ==
  /\ Goto(p, "recheck", IF avail[p] THEN "check" ELSE "wait")
  /\ UNCHANGED <<shared, local, stats>>

(* Fault: the kernel is not asked to compare the futex word. *)
WaitWithoutCompare(p) ==
  /\ Goto(p, "wait", "asleep")
  /\ UNCHANGED <<shared, local, stats>>

(* The kernel compares and blocks in one step.                             *)
FutexWait(p) ==
  /\ Goto(p, "wait", IF futex[p] = val[p] THEN "asleep" ELSE "check")
  /\ UNCHANGED <<shared, local, stats>>

(* Fault: the wait is an IF, a wake-up is taken for the signal. *)
TrustWake(p) ==
  /\ Goto(p, "asleep", "read")
  /\ UNCHANGED <<shared, local, stats>>

(* A signal handler or a stray wake-up returns the sleeper to its loop.    *)
SpuriousWake(p) ==
  /\ Goto(p, "asleep", "check")
  /\ UNCHANGED <<shared, local, stats>>

(* futex_wait_for_atomic_bool_uring returns false: no entry, a failed      *)
(* submission, a failed completion.  The caller ignores the result.        *)
UringFail ==
  /\ UringMayFail
  /\ pc["client"] \in {"wait", "asleep"}
  /\ pc' = [pc EXCEPT !["client"] = "read"]
  /\ UNCHANGED <<shared, local, stats>>

-----------------------------------------------------------------------------
(* futex_signal_atomic_bool, executed by p for the waiter q, in three      *)
(* steps: raise the flag, advance the version, wake.                       *)

(* Fault: the flag is not raised. *)
RaiseNothing(p, q, at, to) ==
  /\ Goto(p, at, to)
  /\ UNCHANGED <<shared, local, stats>>

Raise(p, q, at, to) ==
  /\ Goto(p, at, to)
  /\ avail' = [avail EXCEPT ![q] = TRUE]
  /\ UNCHANGED <<segment, ready, futex, readPos, writePos, ring, local, stats>>

Inc(n) == IF n + 1 = FutexMod THEN 0 ELSE n + 1

Bump(p, q, at, to) ==
  /\ Goto(p, at, to)
  /\ futex' = [futex EXCEPT ![q] = Inc(@)]
  /\ UNCHANGED <<segment, ready, avail, readPos, writePos, ring, local, stats>>

Wake(p, q, at, to) ==
  /\ pc[p] = at
  /\ pc' = [r \in Procs |-> IF r = p THEN to
                            ELSE IF r = q /\ pc[r] = "asleep" THEN "check"
                            ELSE pc[r]]
  /\ UNCHANGED <<shared, local, stats>>

AfterSignal(p) == IF p = "server" THEN "loop" ELSE "poll_ready"

Signal(p) ==
  \/ Raise(p, Other(p), "set", "bump")
  \/ Bump(p, Other(p), "bump", "wake")
  \/ Wake(p, Other(p), "wake", AfterSignal(p))

(* The client looks at ready once it has sent its request, and not again.  *)
PollReady ==
  /\ Goto("client", "poll_ready", IF ready THEN "check" ELSE "done")
  /\ UNCHANGED <<shared, local, stats>>

-----------------------------------------------------------------------------
(* ring_buffer_read and ring_buffer_write, at the grain of their accesses  *)
(* to the shared positions.                                                *)

Read(p) ==
  /\ Goto(p, "read", "copy")
  /\ pos' = [pos EXCEPT ![p] = readPos]
  /\ UNCHANGED <<shared, val, msg, expired, stats>>

AfterFailedRead(p) == IF p = "server" THEN "loop" ELSE "clear"

Copy(p) ==
  IF pos[p] = writePos
  THEN /\ Goto(p, "copy", AfterFailedRead(p))
       /\ UNCHANGED <<shared, local, stats>>
  ELSE /\ Goto(p, "copy", "consume")
       /\ msg' = [msg EXCEPT ![p] = ring[pos[p]]]
       /\ UNCHANGED <<shared, pos, val, expired, stats>>

Consume(p) ==
  /\ Goto(p, "consume", "clear")
  /\ readPos' = Succ(pos[p])
  /\ UNCHANGED <<segment, ready, avail, futex, writePos, ring, local, stats>>

AfterClear(p) == IF p = "server" THEN "reserve" ELSE "count"

(* Fault: the flag stays up. *)
ClearNothing(p) ==
  /\ Goto(p, "clear", AfterClear(p))
  /\ UNCHANGED <<shared, local, stats>>

Clear(p) ==
  /\ Goto(p, "clear", AfterClear(p))
  /\ avail' = [avail EXCEPT ![p] = FALSE]
  /\ UNCHANGED <<segment, ready, futex, readPos, writePos, ring, local, stats>>

(* The write keeps the loaded read position in pos until it has the write  *)
(* position, and the write position from then on.                          *)
Reserve(p) ==
  /\ Goto(p, "reserve", "fill")
  /\ pos' = [pos EXCEPT ![p] = readPos]
  /\ UNCHANGED <<shared, val, msg, expired, stats>>

AfterFailedWrite(p) == IF p = "server" THEN "loop" ELSE "done"

Fill(p) ==
  IF Free(pos[p], writePos) <= 1
  THEN /\ Goto(p, "fill", AfterFailedWrite(p))
       /\ UNCHANGED <<shared, local, stats>>
  ELSE /\ Goto(p, "fill", "publish")
       /\ pos' = [pos EXCEPT ![p] = writePos]
       /\ ring' = [ring EXCEPT ![writePos] = [seq |-> msg[p].seq, from |-> p]]
       /\ UNCHANGED <<segment, ready, avail, futex, readPos, writePos, val, msg, expired, stats>>

Publish(p) ==
  /\ Goto(p, "publish", "set")
  /\ writePos' = Succ(pos[p])
  /\ UNCHANGED <<segment, ready, avail, futex, readPos, ring, local, stats>>

Count ==
  /\ Goto("client", "count", "loop")
  /\ ops' = ops + 1
  /\ unanswered' = IF msg["client"].from = "client" THEN unanswered + 1 ELSE unanswered
  /\ UNCHANGED <<shared, local>>

-----------------------------------------------------------------------------
(* free_lfshm_*_server, reached when the server's loop ends.               *)

(* Fault: the waiters are not signalled. *)
CloseSilently ==
  /\ Goto("server", "close", "done")
  /\ ready' = FALSE
  /\ UNCHANGED <<segment, avail, futex, readPos, writePos, ring, local, stats>>

CloseReady ==
  /\ Goto("server", "close", "close_set")
  /\ ready' = FALSE
  /\ UNCHANGED <<segment, avail, futex, readPos, writePos, ring, local, stats>>

CloseSignals ==
  \/ Raise("server", "client", "close_set", "close_bump")
  \/ Bump("server", "client", "close_bump", "close_wake")
  \/ Wake("server", "client", "close_wake", "self_set")
  \/ Raise("server", "server", "self_set", "self_bump")
  \/ Bump("server", "server", "self_bump", "self_wake")

(* The last wake, the unmapping and the removal of the name.               *)
Remove ==
  /\ Goto("server", "self_wake", "done")
  /\ segment' = FALSE
  /\ UNCHANGED <<ready, avail, futex, readPos, writePos, ring, local, stats>>

-----------------------------------------------------------------------------
(* One iteration's code that both processes share.                         *)
Common(p) ==
  \/ Check(p) \/ Load(p) \/ Recheck(p) \/ FutexWait(p)
  \/ Read(p) \/ Copy(p) \/ Consume(p) \/ Clear(p)
  \/ Reserve(p) \/ Fill(p) \/ Publish(p)
  \/ Signal(p)

Server ==
  \/ Create \/ InitReady \/ InitMessage \/ InitResponse
  \/ ServerLoop
  \/ Common("server")
  \/ CloseReady \/ CloseSignals \/ Remove

Client ==
  \/ Open \/ Attach
  \/ ClientStop \/ ClientCompose
  \/ Common("client")
  \/ PollReady \/ Count

Environment ==
  \/ \E p \in Procs : Expire(p) \/ SpuriousWake(p)
  \/ UringFail

Next == Server \/ Client \/ Environment

Spec == Init /\ [][Next]_vars

(***************************************************************************)
(* The scheduler runs both processes and the clock goes on.  Nothing is    *)
(* assumed of spurious wake-ups or of failures.                            *)
(***************************************************************************)
Fairness ==
  /\ WF_vars(Server)
  /\ WF_vars(Client)
  /\ \A p \in Procs : WF_vars(Expire(p))

FairSpec == Spec /\ Fairness

-----------------------------------------------------------------------------
(* Safety.                                                                 *)

RingUse == Reading \union Writing

(***************************************************************************)
(* The ring has no lock: its positions are loaded, used and stored back in *)
(* separate accesses, and the payload is copied with memcpy.  All of it is *)
(* sound only because the two flags hand the ring over: server and client  *)
(* are never both inside ring_buffer_read or ring_buffer_write.            *)
(***************************************************************************)
RingExclusive == ~(pc["server"] \in RingUse /\ pc["client"] \in RingUse)

(***************************************************************************)
(* Neither read nor write ever fails: a process that was told there is a   *)
(* message finds one, also when the message is its own request handed back *)
(* by the shutdown, and there is room for every frame.                     *)
(***************************************************************************)
TransfersSucceed ==
  \A p \in Procs :
    /\ pc[p] = "copy" => pos[p] # writePos
    /\ pc[p] = "fill" => Free(pos[p], writePos) > 1

(***************************************************************************)
(* The message the client counts is the one of the call it is making: no   *)
(* response of an earlier call is left over in the ring, none is read      *)
(* twice.                                                                  *)
(***************************************************************************)
NoStaleAnswer == pc["client"] = "count" => msg["client"].seq = ops + 1

BumpOrWake(p) ==
  IF p = "client"
  THEN {<<"server", l>> : l \in {"bump", "wake", "close_bump", "close_wake"}}
  ELSE {<<"client", l>> : l \in {"bump", "wake"}}

(***************************************************************************)
(* A process sleeps with its flag up only while the signal that raised the *)
(* flag is still on its way to wake it: the version in the futex word      *)
(* closes the window between the last look at the flag and the sleep, and  *)
(* it cannot wrap around in that window.                                   *)
(***************************************************************************)
NoLostWakeup ==
  \A p \in Procs :
    pc[p] = "asleep" /\ avail[p] => <<Other(p), pc[Other(p)]>> \in BumpOrWake(p)

(***************************************************************************)
(* Server and client never wait for each other: when both are in their     *)
(* wait, one of them has its flag up.                                      *)
(***************************************************************************)
NoMutualWait ==
  pc["server"] \in Waiting /\ pc["client"] \in Waiting
    => avail["server"] \/ avail["client"]

(***************************************************************************)
(* A call is counted without an answer only when the server shuts down     *)
(* while the request waits in the ring, and this happens once at most.     *)
(***************************************************************************)
UnansweredOnlyAtShutdown == unanswered > 0 => unanswered = 1 /\ ~ready

-----------------------------------------------------------------------------
(* What the program promises of a call.                                    *)

Closed == pc["server"] \in Closing \union {"done"}

Outstanding == Signalling \union {"poll_ready"} \union Waiting \union {"read", "copy"}

Call ==
  CASE pc["client"] \in Outstanding ->
         IF readPos # writePos /\ ring[readPos].from = "server" THEN "answered" ELSE "sent"
    [] pc["client"] \in {"consume", "clear", "count"} ->
         IF msg["client"].from = "server" THEN "answered" ELSE "sent"
    [] OTHER -> "none"

Echo == INSTANCE EchoService WITH
  call <- Call,
  closed <- Closed,
  ops <- ops,
  unanswered <- unanswered,
  left <- pc["client"] \in {"done", "failed"}

(***************************************************************************)
(* The transport implements the echo service.                              *)
(***************************************************************************)
EchoSpec == Echo!Spec

-----------------------------------------------------------------------------
(* Liveness.                                                               *)

(* The server finds no room for its answer, drops it and signals nobody.   *)
NoRoomForAnswer == pc["server"] = "fill" /\ Free(pos["server"], writePos) <= 1

(***************************************************************************)
(* A client that got past the setup comes to an end: no wake-up it depends *)
(* on is lost, whether the server answers it or shuts down, at whatever    *)
(* moment.  After a failed io_uring wait both processes may read the same  *)
(* frame, and one frame stays behind in the ring.  Once these fill it, the *)
(* server finds no room for its answer and gives no signal, and the two    *)
(* may wait for each other for good: from there on nothing is promised.    *)
(***************************************************************************)
ClientFinishes == (pc["client"] = "loop") ~> (pc["client"] = "done" \/ NoRoomForAnswer)

(***************************************************************************)
(* A server whose deadline has passed and that has a request signalled to  *)
(* it serves at most that one and shuts down.                              *)
(***************************************************************************)
ServerFinishesWhenCalled ==
  (expired["server"] /\ avail["server"]) ~> (pc["server"] = "done")

-----------------------------------------------------------------------------
(* What comments of the code say, and the program does not do.             *)

(***************************************************************************)
(* The client waits "for server to initialize" before it uses the segment: *)
(* so the server's setup never takes back a flag that is up.               *)
(***************************************************************************)
InitKeepsSignals ==
  [][\A p \in Procs : pc["server"] \in Setup /\ avail[p] => avail'[p]]_vars

(***************************************************************************)
(* The client waits for the response: it starts to read the ring only when *)
(* the response flag is up.                                                *)
(***************************************************************************)
ReadAfterResponse ==
  [][pc["client"] # "read" /\ pc'["client"] = "read" => avail["client"]]_vars
=============================================================================

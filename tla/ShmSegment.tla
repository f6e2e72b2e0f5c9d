------------------------------ MODULE ShmSegment ------------------------------
(***************************************************************************)
(* What shm_blocking.c and shm_nonblocking.c have in common, line for      *)
(* line: the segment and its setup, the server, and the way a client uses  *)
(* the segment.  Server and client share one ring buffer, used in both     *)
(* directions, under one process-shared mutex, and wait for each other on  *)
(* two condition variables.                                                *)
(*                                                                         *)
(* The mutex is explicit, a step is the work between two operations on it. *)
(* A ring position counts whole frames, as in module FrameRing.            *)
(*                                                                         *)
(* The setup stores to the segment outside the mutex and ready is a plain  *)
(* bool that the client polls: a data race.  The stores to the positions   *)
(* and to ready are unordered, and an optimising build (gcc -O2, which the *)
(* makefile asks for) does clear the positions after it has set ready.     *)
(***************************************************************************)
EXTENDS FrameRing

CONSTANT StaggeredStart \* the client starts after the server's setup (make's sleep)

ASSUME ShmAssumption == StaggeredStart \in BOOLEAN

Procs == {"server", "client"}
Other(p) == IF p = "server" THEN "client" ELSE "server"
Nobody == "nobody"

VARIABLES
  \* the shared segment
  segment,    \* the name exists in the file system
  ready,
  avail,      \* avail["server"]: message_available, avail["client"]: response_available
  readPos, writePos,
  ring,       \* the frame in each slot
  mutex,      \* who holds the mutex
  \* each process
  pc,
  msg,        \* its message buffer
  expired,    \* its deadline has passed
  \* the server
  stores,     \* the stores of the setup still to come
  dropped     \* ghost: it refused a request and sent no answer

ringVars == <<readPos, writePos, ring>>
shared == <<segment, ready, avail, ringVars, mutex>>
segVars == <<shared, pc, msg, expired, stores, dropped>>

-----------------------------------------------------------------------------

(* Waiting on the condition variable, or on the way back from it. *)
Waiting == {"waiting", "woken"}

ServerPC ==
  {"create", "init", "loop", "lock", "test", "waiting", "woken", "check", "relock", "reply",
   "close_lock", "close", "remove", "done"}

Frame == [seq : Nat, from : Procs]

SegmentTypeOK(clientPC) ==
  /\ segment \in BOOLEAN
  /\ ready \in BOOLEAN
  /\ avail \in [Procs -> BOOLEAN]
  /\ readPos \in Slots
  /\ writePos \in Slots
  /\ ring \in [Slots -> Frame]
  /\ mutex \in Procs \union {Nobody}
  /\ pc \in [Procs -> ServerPC \union clientPC]
  /\ pc["server"] \in ServerPC
  /\ pc["client"] \in clientPC
  /\ msg \in [Procs -> Frame]
  /\ expired \in [Procs -> BOOLEAN]
  /\ stores \in SUBSET {"positions", "ready"}
  /\ dropped \in BOOLEAN

NoFrame == [seq |-> 0, from |-> "client"]

SegmentInit ==
  /\ segment = FALSE
  /\ ready = FALSE
  /\ avail = [p \in Procs |-> FALSE]
  /\ readPos = 0
  /\ writePos = 0
  /\ ring = [i \in Slots |-> NoFrame]
  /\ mutex = Nobody
  /\ pc = [p \in Procs |-> IF p = "server" THEN "create" ELSE "open"]
  /\ msg = [p \in Procs |-> NoFrame]
  /\ expired = [p \in Procs |-> FALSE]
  /\ stores = {"positions", "ready"}
  /\ dropped = FALSE

Goto(p, from, to) ==
  /\ pc[p] = from
  /\ pc' = [pc EXCEPT ![p] = to]

-----------------------------------------------------------------------------
(* Setup.                                                                  *)

(* A fresh segment of zeros with its mutex and condition variables.  The   *)
(* flags are cleared before ready is set, on a segment nobody else uses.   *)
Create ==
  /\ Goto("server", "create", "init")
  /\ segment' = TRUE
  /\ UNCHANGED <<ready, avail, ringVars, mutex, msg, expired, stores, dropped>>

InitPositions ==
  /\ "positions" \in stores
  /\ Goto("server", "init", IF stores = {"positions"} THEN "loop" ELSE "init")
  /\ readPos' = 0
  /\ writePos' = 0
  /\ stores' = stores \ {"positions"}
  /\ UNCHANGED <<segment, ready, avail, ring, mutex, msg, expired, dropped>>

InitReady ==
  /\ "ready" \in stores
  /\ Goto("server", "init", IF stores = {"ready"} THEN "loop" ELSE "init")
  /\ ready' = TRUE
  /\ stores' = stores \ {"ready"}
  /\ UNCHANGED <<segment, avail, ringVars, mutex, msg, expired, dropped>>

Setup == Create \/ InitPositions \/ InitReady

Open ==
  /\ StaggeredStart => stores = {}
  /\ Goto("client", "open", IF segment THEN "attach" ELSE "failed")
  /\ UNCHANGED <<shared, msg, expired, stores, dropped>>

Attach ==
  /\ ready
  /\ Goto("client", "attach", "loop")
  /\ UNCHANGED <<shared, msg, expired, stores, dropped>>

-----------------------------------------------------------------------------
(* The mutex and the condition variables.                                  *)

Lock(p, from, to) ==
  /\ mutex = Nobody
  /\ Goto(p, from, to)
  /\ mutex' = p
  /\ UNCHANGED <<segment, ready, avail, ringVars, msg, expired, stores, dropped>>

(* Fault: the signal is forgotten. *)
NotSignalled(q) == pc[q]

(* The place of q once its condition variable has been signalled. *)
Signalled(q) == IF pc[q] = "waiting" THEN "woken" ELSE pc[q]

SpuriousWake(p) ==
  /\ Goto(p, "waiting", "woken")
  /\ UNCHANGED <<shared, msg, expired, stores, dropped>>

(* while (!flag) pthread_cond_wait(...): up to the unlock. *)
Wait(p) ==
  /\ Goto(p, "test", "waiting")
  /\ ~avail[p]
  /\ mutex' = Nobody
  /\ UNCHANGED <<segment, ready, avail, ringVars, msg, expired, stores, dropped>>

(* ring_buffer_read and ring_buffer_write, inside the mutex. *)
Empty == readPos = writePos

Fits == Free(readPos, writePos) > 1

Put(p) ==
  /\ ring' = [ring EXCEPT ![writePos] = [seq |-> msg[p].seq, from |-> p]]
  /\ writePos' = Succ(writePos)
  /\ UNCHANGED readPos

(* Fault: the read position is not stored back. *)
Peek(p) ==
  /\ msg' = [msg EXCEPT ![p] = ring[readPos]]
  /\ UNCHANGED ringVars

Get(p) ==
  /\ msg' = [msg EXCEPT ![p] = ring[readPos]]
  /\ readPos' = Succ(readPos)
  /\ UNCHANGED <<writePos, ring>>

(* Fault: the flag stays as it is. *)
Keep(p) == avail

Lowered(p) == [avail EXCEPT ![p] = FALSE]

Raised(p) == [avail EXCEPT ![p] = TRUE]

-----------------------------------------------------------------------------
(* The server's loop.                                                      *)

ServerLoop ==
  /\ Goto("server", "loop", IF expired["server"] THEN "close_lock" ELSE "lock")
  /\ UNCHANGED <<shared, msg, expired, stores, dropped>>

(* After a read that fails the server starts over, with its flag still up. *)
ServerReceive ==
  /\ avail["server"]
  /\ IF Empty
     THEN /\ Goto("server", "test", "loop")
          /\ UNCHANGED <<avail, ringVars, msg>>
     ELSE /\ Goto("server", "test", "check")
          /\ Get("server")
          /\ avail' = Lowered("server")
  /\ mutex' = Nobody
  /\ UNCHANGED <<segment, ready, expired, stores, dropped>>

(* validate_message: a refused request gets no answer. *)
ServerCheck ==
  /\ \E valid \in BOOLEAN :
       /\ Goto("server", "check", IF valid THEN "relock" ELSE "loop")
       /\ dropped' = (dropped \/ ~valid)
  /\ UNCHANGED <<shared, msg, expired, stores>>

Reply ==
  /\ pc["server"] = "reply"
  /\ IF Fits
     THEN /\ Put("server")
          /\ avail' = Raised("client")
          /\ pc' = [pc EXCEPT !["server"] = "loop", !["client"] = Signalled("client")]
     ELSE /\ pc' = [pc EXCEPT !["server"] = "loop"]
          /\ UNCHANGED <<ringVars, avail>>
  /\ mutex' = Nobody
  /\ UNCHANGED <<segment, ready, msg, expired, stores, dropped>>

ServeLocks ==
  \/ Lock("server", "lock", "test")
  \/ Lock("server", "woken", "test")
  \/ Lock("server", "relock", "reply")

Serve == ServerLoop \/ ServeLocks \/ Wait("server") \/ ServerReceive \/ ServerCheck \/ Reply

-----------------------------------------------------------------------------
(* The server's end.                                                       *)

(* Fault: the client's flag is not raised, the signal wakes it in vain. *)
CloseKeepsFlag ==
  /\ pc["server"] = "close"
  /\ ready' = FALSE
  /\ pc' = [pc EXCEPT !["server"] = "remove", !["client"] = Signalled("client")]
  /\ mutex' = Nobody
  /\ UNCHANGED <<segment, avail, ringVars, msg, expired, stores, dropped>>

Close ==
  /\ pc["server"] = "close"
  /\ ready' = FALSE
  /\ avail' = Raised("client")
  /\ pc' = [pc EXCEPT !["server"] = "remove", !["client"] = Signalled("client")]
  /\ mutex' = Nobody
  /\ UNCHANGED <<segment, ringVars, msg, expired, stores, dropped>>

Remove ==
  /\ Goto("server", "remove", "done")
  /\ segment' = FALSE
  /\ UNCHANGED <<ready, avail, ringVars, mutex, msg, expired, stores, dropped>>

FreeServer == Lock("server", "close_lock", "close") \/ Close \/ Remove

-----------------------------------------------------------------------------

(* The clock, read by both loops; only the loops look at it.               *)
Expire(p) ==
  /\ ~expired[p]
  /\ pc[p] \notin {"create", "init", "open", "attach", "failed"}
  /\ expired' = [expired EXCEPT ![p] = TRUE]
  /\ UNCHANGED <<shared, pc, msg, stores, dropped>>

Environment == \E p \in Procs : Expire(p) \/ SpuriousWake(p)

ServerLocks == ServeLocks \/ Lock("server", "close_lock", "close")

(* The server has announced its shutdown. *)
Closed == pc["server"] \in {"remove", "done"}

-----------------------------------------------------------------------------
(* Safety, whatever the client is.                                         *)

(***************************************************************************)
(* Nobody sleeps on its condition variable while its flag is up: every     *)
(* flag is raised with the waiter signalled in the same critical section.  *)
(***************************************************************************)
NoLostWakeup == \A p \in Procs : pc[p] = "waiting" => ~avail[p]

(***************************************************************************)
(* A process whose flag is up finds a frame, also when the flag announces  *)
(* the shutdown, unless the server refused the request; and every frame    *)
(* finds room in the ring.                                                 *)
(***************************************************************************)
TransfersSucceed ==
  /\ \A p \in Procs : pc[p] = "test" /\ avail[p] => ~Empty \/ dropped
  /\ pc["server"] = "reply" \/ pc["client"] = "write" => Fits

(***************************************************************************)
(* Server and client never wait for each other with no flag up, unless the *)
(* server refused a request.                                               *)
(***************************************************************************)
NoMutualWait ==
  pc["server"] \in Waiting /\ pc["client"] \in Waiting
    => avail["server"] \/ avail["client"] \/ dropped

(***************************************************************************)
(* A server whose deadline has passed and that has a request signalled to  *)
(* it serves at most that one and shuts down.                              *)
(***************************************************************************)
ServerFinishesWhenCalled ==
  (expired["server"] /\ avail["server"]) ~> (pc["server"] = "done")

-----------------------------------------------------------------------------
(* What comments of the code say, and the program does not do.             *)

(***************************************************************************)
(* ready is set "after initialization": once it is up, the setup does not  *)
(* touch the ring any more, so no request in the ring is wiped out.        *)
(***************************************************************************)
InitKeepsRequests == [][pc["server"] = "init" /\ ~Empty => readPos' # writePos']_segVars
=============================================================================

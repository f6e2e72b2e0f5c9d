---------------------------- MODULE ShmNonblocking ----------------------------
(***************************************************************************)
(* The shared-memory transport of shm_nonblocking.c.  Segment and server   *)
(* are those of ShmSegment.  The client is two threads: the client thread, *)
(* which is the process "client" of the segment, sends what is in the      *)
(* message buffer and waits for the answer; the main thread composes the   *)
(* messages and counts the answers.  They share the message buffer and the *)
(* result without a lock, and hand them over with two interrupts.          *)
(*                                                                         *)
(* Of an interrupt, only what module Event promises is used, so that both  *)
(* forms of it are covered.  Neither thread looks at what interrupt_signal *)
(* and interrupt_wait return: in the setting where they may fail, a signal *)
(* may be lost and a wait may end without one.  The buffer comes from      *)
(* malloc and its sequence number is never set: numbers count from         *)
(* whatever it held.                                                       *)
(***************************************************************************)
EXTENDS ShmSegment

CONSTANTS
  MaxMsgs,  \* bound: messages the main thread composes
  MaxFaulty \* bound: as many where calls fail, and signals that pile up there

ASSUME ShmNonblockingAssumption == MaxMsgs \in Nat /\ MaxFaulty \in Nat

VARIABLES
  main,        \* where the main thread is
  \* ThreadData
  shouldExit,
  readSuccess, \* with msg_size, the result of the last call
  readIntr,    \* signals pending for the main thread
  writeIntr,   \* signals pending for the client thread
  \* the statistics
  ops,
  unanswered,  \* ghost: the ops among them that counted the client's own request
  intrFails    \* setting: calls on the two interrupts may fail

threadData == <<shouldExit, readSuccess, readIntr, writeIntr>>
stats == <<ops, unanswered>>
vars == <<segVars, main, threadData, stats, intrFails>>

(* What a wait that succeeds leaves of n pending signals. *)
Left(n) == 0..(n - 1)

(* What interrupt_signal makes of n pending signals. *)
Added(n) == {n + 1} \union (IF intrFails THEN {n} ELSE {})

-----------------------------------------------------------------------------

ThreadPC ==
  {"open", "attach", "loop", "wait", "lock", "write", "test", "waiting", "woken", "notify",
   "unlock", "done", "failed"}

MainPC ==
  {"setup", "loop", "compose", "signal", "wait", "check", "exit", "signal_read", "signal_write",
   "join", "done"}

(* No more than two signals pend while none gets lost and every wait is    *)
(* for one: no write to an interrupt blocks.                               *)
TypeOK ==
  /\ SegmentTypeOK(ThreadPC)
  /\ main \in MainPC
  /\ shouldExit \in BOOLEAN
  /\ readSuccess \in BOOLEAN
  /\ readIntr \in Nat
  /\ writeIntr \in Nat
  /\ ops \in Nat
  /\ unanswered \in Nat
  /\ intrFails \in BOOLEAN
  /\ ~intrFails => readIntr <= 2 /\ writeIntr <= 1

Init ==
  /\ SegmentInit
  /\ main = "setup"
  /\ shouldExit = FALSE
  /\ readSuccess = FALSE
  /\ readIntr = 0
  /\ writeIntr = 0
  /\ ops = 0
  /\ unanswered = 0
  /\ intrFails \in BOOLEAN

-----------------------------------------------------------------------------
(* run_client_thread.                                                      *)

ThreadLoop ==
  /\ Goto("client", "loop", IF shouldExit THEN "done" ELSE "wait")
  /\ UNCHANGED <<shared, msg, expired, stores, dropped, main, threadData, stats, intrFails>>

(* Fault: the wait does not use up the signal. *)
ThreadPeek ==
  /\ Goto("client", "wait", "lock")
  /\ writeIntr > 0
  /\ UNCHANGED <<shared, msg, expired, stores, dropped, main, threadData, stats, intrFails>>

ThreadWait ==
  /\ Goto("client", "wait", "lock")
  /\ writeIntr > 0
  /\ writeIntr' \in Left(writeIntr)
  /\ UNCHANGED <<shared, msg, expired, stores, dropped, main, shouldExit, readSuccess, readIntr,
                 stats, intrFails>>

(* The wait ends without a signal, and the thread goes on all the same.    *)
ThreadWaitFails ==
  /\ intrFails
  /\ readIntr < MaxFaulty
  /\ Goto("client", "wait", "lock")
  /\ UNCHANGED <<shared, msg, expired, stores, dropped, main, threadData, stats, intrFails>>

(* A thread whose frame does not fit ends without a word.  One that finds  *)
(* the server gone leaves its request behind and signals the main thread   *)
(* with the mutex still held.                                              *)
ThreadWrite ==
  /\ pc["client"] = "write"
  /\ IF Fits
     THEN /\ Put("client")
          /\ avail' = Raised("server")
          /\ pc' = [pc EXCEPT !["client"] = IF ready THEN "test" ELSE "unlock",
                              !["server"] = Signalled("server")]
          /\ UNCHANGED mutex
     ELSE /\ pc' = [pc EXCEPT !["client"] = "done"]
          /\ mutex' = Nobody
          /\ UNCHANGED <<ringVars, avail>>
  /\ IF Fits /\ ~ready
     THEN readSuccess' = FALSE /\ readIntr' \in Added(readIntr)
     ELSE UNCHANGED <<readSuccess, readIntr>>
  /\ UNCHANGED <<segment, ready, msg, expired, stores, dropped, main, shouldExit, writeIntr,
                 stats, intrFails>>

ThreadUnlock ==
  /\ Goto("client", "unlock", "done")
  /\ mutex' = Nobody
  /\ UNCHANGED <<segment, ready, avail, ringVars, msg, expired, stores, dropped, main, threadData,
                 stats, intrFails>>

(* Unlike the server, the thread lowers its flag after a failed read too.  *)
ThreadReceive ==
  /\ avail["client"]
  /\ Goto("client", "test", "notify")
  /\ IF Empty THEN UNCHANGED <<ringVars, msg>> ELSE Get("client")
  /\ readSuccess' = ~Empty
  /\ avail' = Lowered("client")
  /\ mutex' = Nobody
  /\ UNCHANGED <<segment, ready, expired, stores, dropped, main, shouldExit, readIntr, writeIntr,
                 stats, intrFails>>

ThreadNotify ==
  /\ Goto("client", "notify", "loop")
  /\ readIntr' \in Added(readIntr)
  /\ UNCHANGED <<shared, msg, expired, stores, dropped, main, shouldExit, readSuccess, writeIntr,
                 stats, intrFails>>

ThreadLocks == Lock("client", "lock", "write") \/ Lock("client", "woken", "test")

ThreadOnSegment ==
  /\ ThreadLocks \/ Wait("client")
  /\ UNCHANGED <<main, threadData, stats, intrFails>>

RunClientThread ==
  \/ ThreadLoop \/ ThreadWait \/ ThreadOnSegment \/ ThreadWrite \/ ThreadUnlock
  \/ ThreadReceive \/ ThreadNotify

-----------------------------------------------------------------------------
(* run_shm_nonblocking_client, after the setup of the segment.             *)

MainGoto(from, to) ==
  /\ main = from
  /\ main' = to

MainOpen ==
  /\ Open
  /\ UNCHANGED <<main, threadData, stats, intrFails>>

(* With the interrupts and the thread created. *)
MainAttach ==
  /\ Attach
  /\ MainGoto("setup", "loop")
  /\ UNCHANGED <<threadData, stats, intrFails>>

(* How many messages it composes at most. *)
Messages == IF intrFails THEN MaxFaulty ELSE MaxMsgs

MainLoop ==
  /\ \/ expired["client"] /\ MainGoto("loop", "exit")
     \/ ~expired["client"] /\ ops < Messages /\ MainGoto("loop", "compose")
  /\ UNCHANGED <<segVars, threadData, stats, intrFails>>

MainCompose ==
  /\ MainGoto("compose", "signal")
  /\ msg' = [msg EXCEPT !["client"] = [seq |-> msg["client"].seq + 1, from |-> "client"]]
  /\ UNCHANGED <<shared, pc, expired, stores, dropped, threadData, stats, intrFails>>

(* Fault: the main thread does not wait for its answer. *)
SignalAndGoOn ==
  /\ MainGoto("signal", "check")
  /\ writeIntr' \in Added(writeIntr)
  /\ UNCHANGED <<segVars, shouldExit, readSuccess, readIntr, stats, intrFails>>

MainSignal ==
  /\ MainGoto("signal", "wait")
  /\ writeIntr' \in Added(writeIntr)
  /\ UNCHANGED <<segVars, shouldExit, readSuccess, readIntr, stats, intrFails>>

(* Fault: the wait does not use up the signal. *)
MainPeek ==
  /\ MainGoto("wait", "check")
  /\ readIntr > 0
  /\ UNCHANGED <<segVars, threadData, stats, intrFails>>

MainWait ==
  /\ MainGoto("wait", "check")
  /\ readIntr > 0
  /\ readIntr' \in Left(readIntr)
  /\ UNCHANGED <<segVars, shouldExit, readSuccess, writeIntr, stats, intrFails>>

(* The main thread, too, does not look at what the wait returns: the       *)
(* result it goes on with is the one before.                               *)
MainWaitFails ==
  /\ intrFails
  /\ MainGoto("wait", "check")
  /\ UNCHANGED <<segVars, threadData, stats, intrFails>>

(* A response that does not validate is reported and counted all the same. *)
MainCount ==
  /\ readSuccess
  /\ MainGoto("check", "loop")
  /\ ops' = ops + 1
  /\ unanswered' = IF msg["client"].from = "client" THEN unanswered + 1 ELSE unanswered
  /\ UNCHANGED <<segVars, threadData, intrFails>>

(* Fault: a call that failed is not counted, and the next one is made. *)
MainIgnoresFailure ==
  /\ ~readSuccess
  /\ MainGoto("check", "loop")
  /\ UNCHANGED <<segVars, threadData, stats, intrFails>>

MainBreak ==
  /\ ~readSuccess
  /\ MainGoto("check", "exit")
  /\ UNCHANGED <<segVars, threadData, stats, intrFails>>

(* Fault: the thread is woken before the flag is set, and waits again. *)
ExitWithoutFlag ==
  /\ MainGoto("exit", "signal_read")
  /\ UNCHANGED <<segVars, threadData, stats, intrFails>>

MainExit ==
  /\ MainGoto("exit", "signal_read")
  /\ shouldExit' = TRUE
  /\ UNCHANGED <<segVars, readSuccess, readIntr, writeIntr, stats, intrFails>>

MainSignalRead ==
  /\ MainGoto("signal_read", "signal_write")
  /\ readIntr' \in Added(readIntr)
  /\ UNCHANGED <<segVars, shouldExit, readSuccess, writeIntr, stats, intrFails>>

MainSignalWrite ==
  /\ MainGoto("signal_write", "join")
  /\ writeIntr' \in Added(writeIntr)
  /\ UNCHANGED <<segVars, shouldExit, readSuccess, readIntr, stats, intrFails>>

(* Then the interrupts are destroyed and the buffer is freed. *)
MainJoin ==
  /\ MainGoto("join", "done")
  /\ pc["client"] = "done"
  /\ UNCHANGED <<segVars, threadData, stats, intrFails>>

Main ==
  \/ MainOpen \/ MainAttach
  \/ MainLoop \/ MainCompose \/ MainSignal \/ MainWait \/ MainCount \/ MainBreak
  \/ MainExit \/ MainSignalRead \/ MainSignalWrite \/ MainJoin

-----------------------------------------------------------------------------
(* The server, as in ShmSegment.                                           *)

clientVars == <<main, threadData, stats, intrFails>>

SetupServer == Setup /\ UNCHANGED clientVars

RunServer == Serve /\ UNCHANGED clientVars

EndServer == FreeServer /\ UNCHANGED clientVars

Server == SetupServer \/ RunServer \/ EndServer

Next ==
  \/ Server \/ RunClientThread \/ Main
  \/ ThreadWaitFails \/ MainWaitFails
  \/ Environment /\ UNCHANGED clientVars

Spec == Init /\ [][Next]_vars

(* As in ShmBlocking, for each thread; no wait has to fail. *)
Fairness ==
  /\ WF_vars(Server)
  /\ WF_vars(RunClientThread)
  /\ WF_vars(Main)
  /\ SF_vars(ServerLocks /\ UNCHANGED clientVars)
  /\ SF_vars(ThreadLocks /\ UNCHANGED clientVars)
  /\ \A p \in Procs : WF_vars(Expire(p) /\ UNCHANGED clientVars)

FairSpec == Spec /\ Fairness

-----------------------------------------------------------------------------
(* Safety.                                                                 *)

(* The main thread uses the message or the result, or has freed them. *)
MainUses == main \in {"compose", "signal", "check", "done"}

(* The client thread is about to use them. *)
ThreadUses == pc["client"] \in {"lock", "write", "test", "waiting", "woken", "notify"}

(***************************************************************************)
(* The two threads never use the message buffer and the result together,   *)
(* as long as no call on an interrupt fails: the interrupts hand them      *)
(* over.  In any case the client thread has ended before they are freed.   *)
(***************************************************************************)
MessageOwned ==
  /\ ~intrFails => (MainUses => ~ThreadUses)
  /\ main = "done" => pc["client"] = "done"

(***************************************************************************)
(* While no call on an interrupt fails, the hand-over never stops with     *)
(* both threads waiting for each other, and the main thread never waits    *)
(* for a thread that has ended: if it waits then, the thread's last signal *)
(* is already there.                                                       *)
(***************************************************************************)
HandoverGoesOn ==
  ~intrFails /\ main = "wait" =>
    /\ pc["client"] = "wait" => readIntr > 0 \/ writeIntr > 0
    /\ pc["client"] = "done" => readIntr > 0

(***************************************************************************)
(* Until the main thread has told it to end, what the client thread sends  *)
(* is the new request, never a message that was sent before, as long as no *)
(* call on an interrupt fails.                                             *)
(***************************************************************************)
SendsNewRequests ==
  ~intrFails /\ pc["client"] \in {"lock", "write"} /\ ~shouldExit
    => msg["client"] = [seq |-> ops + 1, from |-> "client"]

(***************************************************************************)
(* The answer the main thread counts is the one to the call it is making,  *)
(* as long as no call on an interrupt fails.                               *)
(***************************************************************************)
NoStaleAnswer ==
  ~intrFails /\ main = "check" /\ readSuccess => msg["client"].seq = ops + 1

(***************************************************************************)
(* A call is counted without an answer only when the server shuts down     *)
(* while the request waits in the ring, and this happens once at most, as  *)
(* long as no call on an interrupt fails.                                  *)
(***************************************************************************)
UnansweredOnlyAtShutdown == ~intrFails /\ unanswered > 0 => unanswered = 1 /\ ~ready

-----------------------------------------------------------------------------

Call ==
  IF main \notin {"wait", "check"} THEN "none"
  ELSE IF pc["client"] \in {"test", "waiting", "woken"}
       THEN IF ~Empty /\ ring[readPos].from = "server" THEN "answered" ELSE "sent"
  ELSE IF pc["client"] = "notify" \/ readIntr > 0 \/ main = "check"
       THEN IF readSuccess /\ msg["client"].from = "server" THEN "answered" ELSE "sent"
  ELSE "none"

(* The message that is sent once more at the end is not a call.  A client  *)
(* whose waits fail makes no promise.                                      *)
Echo == INSTANCE EchoService WITH
  call <- IF intrFails THEN "none" ELSE Call,
  closed <- ~intrFails /\ Closed,
  ops <- IF intrFails THEN 0 ELSE ops,
  unanswered <- IF intrFails THEN 0 ELSE unanswered,
  left <- ~intrFails /\
          (pc["client"] = "failed" \/
           main \in {"exit", "signal_read", "signal_write", "join", "done"})

(***************************************************************************)
(* With its two threads the client still gets the echo service, as long as *)
(* no call on an interrupt fails.                                          *)
(***************************************************************************)
EchoSpec == Echo!Spec

-----------------------------------------------------------------------------

(***************************************************************************)
(* A client whose thread runs always comes to an end and joins the thread, *)
(* the answer to the message that is sent once more included; only a       *)
(* request that the server refuses may keep it, or a call on an interrupt  *)
(* that fails.                                                             *)
(***************************************************************************)
ClientFinishes == (main = "loop" /\ ~intrFails) ~> (main = "done" \/ dropped)
=============================================================================

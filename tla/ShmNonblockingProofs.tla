------------------------- MODULE ShmNonblockingProofs -------------------------
(***************************************************************************)
(* What holds of ShmNonblocking for every ring and every number of         *)
(* messages: of segment and server also when calls on the interrupts fail, *)
(* of the hand-over between the two threads as long as none does.          *)
(***************************************************************************)
EXTENDS ShmNonblocking, ShmSegmentProofs

-----------------------------------------------------------------------------
(* The inductive invariant.                                                *)

Types ==
  /\ SegmentTypeOK(ThreadPC)
  /\ main \in MainPC
  /\ shouldExit \in BOOLEAN
  /\ readSuccess \in BOOLEAN
  /\ readIntr \in Nat
  /\ writeIntr \in Nat
  /\ ops \in Nat
  /\ unanswered \in Nat
  /\ intrFails \in BOOLEAN

(* The main thread has waited for the end of the client thread. *)
Joined == main = "done" => pc["client"] = "done"

(* The client thread is between two calls, or has left. *)
Resting == {"loop", "wait"} \union Gone

(* The client thread makes a call. *)
Working == {"lock", "write", "notify"} \union Asking

(* The two signals the threads have for each other. *)
Signals(read, write) == readIntr = read /\ writeIntr = write

(* Whose turn it is.  Before the end a thread that has left has told so.   *)
HandoverBefore ==
  /\ ~shouldExit
  /\ \/ main = "setup" /\ pc["client"] \in {"open", "attach", "failed"} /\ Signals(0, 0)
     \/ main \in {"loop", "compose", "signal"} /\ pc["client"] \in {"loop", "wait"} /\ Signals(0, 0)
     \/ main = "wait" /\ pc["client"] \in {"loop", "wait"} /\ Signals(0, 1)
     \/ main = "wait" /\ pc["client"] \in Working /\ Signals(0, 0)
     \/ main = "wait" /\ pc["client"] \in Resting /\ Signals(1, 0)
     \/ main \in {"check", "exit"} /\ pc["client"] \in Resting /\ Signals(0, 0)
  /\ pc["client"] \in Gone => ~readSuccess

HandoverAfter ==
  /\ shouldExit
  /\ \/ main = "signal_read" /\ pc["client"] \in Resting /\ Signals(0, 0)
     \/ main = "signal_write" /\ pc["client"] \in Resting /\ Signals(1, 0)
     \/ main = "join" /\ pc["client"] \in Resting /\ Signals(1, 1)
     \/ main = "join" /\ pc["client"] \in Working /\ Signals(1, 0)
     \/ main = "join" /\ pc["client"] \in {"loop"} \union Gone /\ Signals(2, 0)
     \/ main = "done" /\ pc["client"] = "done" /\ readIntr \in 1..2 /\ writeIntr \in 0..1

Handover == HandoverBefore \/ HandoverAfter

(* The client thread has a result for the main thread. *)
Reported == main = "check" \/ (main = "wait" /\ readIntr > 0)

(* The numbers the messages carry, and who wrote the one in the buffer. *)
Numbers ==
  /\ main \in {"setup", "loop", "compose"} => msg["client"].seq = ops
  /\ main \in {"signal", "wait", "check"} => msg["client"].seq = ops + 1
  /\ main = "signal" \/ (main = "wait" /\ readIntr = 0 /\ pc["client"] \in {"loop", "wait", "lock", "write"})
       => msg["client"].from = "client"

(* Which calls have been counted without an answer: before the shutdown,   *)
(* a result is always an answer.                                           *)
Counted ==
  /\ unanswered = 0 \/ unanswered = 1
  /\ unanswered = 1 =>
       /\ Closed
       /\ pc["client"] \notin {"notify"} \union Asking
       /\ Reported => ~readSuccess
  /\ pc["client"] = "notify" \/ Reported => Closed \/ (readSuccess /\ msg["client"].from = "server")

(* What the interrupts keep as long as none of their calls fails. *)
Settled == SameCall /\ Handover /\ Numbers /\ Counted

Inductive == Types /\ Started /\ Phase /\ Joined /\ (~intrFails => Settled)

-----------------------------------------------------------------------------
(* Types and wake-ups.                                                     *)

LEMMA StepTypes == Types /\ [Next]_vars => Types'
<1> SUFFICES ASSUME Types, [Next]_vars PROVE Types'
  OBVIOUS
<1> USE DEF Types, threadData, stats, clientVars
<1>1. ThreadPC =
        {"open", "attach", "loop", "wait", "lock", "write", "test", "waiting", "woken", "notify",
         "unlock", "done", "failed"}
  BY DEF ThreadPC
<1>2. CASE Server
  BY <1>1, <1>2, ServerType DEF Server, SetupServer, RunServer, EndServer
<1>3. CASE MainOpen \/ MainAttach
  BY <1>1, <1>3, ClientStartType DEF MainOpen, MainAttach, MainGoto, MainPC
<1>4. CASE ThreadOnSegment
  BY <1>1, <1>4, ClientLockType, ClientWaitType DEF ThreadOnSegment, ThreadLocks
<1>5. CASE ThreadLoop \/ ThreadWaitFails \/ ThreadNotify \/ ThreadUnlock
  <2>1. CASE ThreadLoop \/ ThreadWaitFails
    BY <1>1, <2>1 DEF SegmentTypeOK, shared, ringVars, Goto, Procs, ThreadLoop, ThreadWaitFails
  <2>2. CASE ThreadNotify
    <3>1. readIntr' \in Nat
      BY <2>2 DEF ThreadNotify, Added
    <3> QED BY <1>1, <2>2, <3>1 DEF SegmentTypeOK, shared, ringVars, Goto, Procs, ThreadNotify
  <2>3. CASE ThreadUnlock
    BY <1>1, <2>3 DEF SegmentTypeOK, ringVars, Goto, Procs, ThreadUnlock, Nobody
  <2> QED BY <1>5, <2>1, <2>2, <2>3
<1>6. CASE ThreadWait
  <2>1. writeIntr' \in Nat
    BY <1>6 DEF ThreadWait, Left
  <2> QED
    BY <1>1, <1>6, <2>1 DEF SegmentTypeOK, shared, ringVars, Goto, Procs, ThreadWait
<1>7. CASE ThreadWrite
  <2>1. [seq |-> msg["client"].seq, from |-> "client"] \in Frame
    BY DEF SegmentTypeOK, Frame, Procs
  <2>2. readSuccess' \in BOOLEAN
    <3>1. readSuccess' = FALSE \/ readSuccess' = readSuccess
      BY <1>7, Zenon DEF ThreadWrite
    <3> QED BY <3>1
  <2>3. readIntr' \in Nat
    BY <1>7 DEF ThreadWrite, Added
  <2>4. CASE Fits
    <3>1. readPos' \in Slots /\ writePos' \in Slots /\ ring' \in [Slots -> Frame]
      BY <1>7, <2>1, <2>4, SuccInSlots DEF SegmentTypeOK, Procs, ThreadWrite, Put
    <3>2. avail' \in [Procs -> BOOLEAN]
      BY <1>7, <2>4 DEF SegmentTypeOK, Procs, ThreadWrite, Raised
    <3>3. /\ pc' \in [Procs -> ServerPC \union ThreadPC]
          /\ pc'["server"] \in ServerPC
          /\ pc'["client"] \in ThreadPC
      BY <1>1, <1>7, <2>4 DEF SegmentTypeOK, Procs, ThreadWrite, Signalled, ServerPC
    <3> QED BY <1>1, <1>7, <2>2, <2>3, <3>1, <3>2, <3>3 DEF SegmentTypeOK, Procs, ThreadWrite
  <2>5. CASE ~Fits
    BY <1>1, <1>7, <2>2, <2>3, <2>5 DEF SegmentTypeOK, ringVars, Procs, ThreadWrite
  <2> QED BY <2>4, <2>5
<1>8. CASE ThreadReceive
  BY <1>1, <1>8, SuccInSlots
     DEF SegmentTypeOK, ringVars, Goto, Procs, Nobody, ThreadReceive, Get, Lowered
<1>9. CASE MainCompose
  <2>1. [seq |-> msg["client"].seq + 1, from |-> "client"] \in Frame
    BY DEF SegmentTypeOK, Frame, Procs
  <2> QED
    BY <1>9, <2>1 DEF SegmentTypeOK, shared, ringVars, Procs, MainCompose, MainGoto, MainPC
<1>10. CASE MainLoop \/ MainSignal \/ MainBreak \/ MainExit \/ MainSignalRead \/ MainSignalWrite \/ MainJoin
           \/ MainWaitFails
  <2>1. UNCHANGED segVars /\ main' \in MainPC /\ UNCHANGED <<stats, intrFails>>
    BY <1>10
       DEF MainGoto, MainPC, MainLoop, MainSignal, MainBreak, MainExit, MainSignalRead, MainSignalWrite, MainJoin,
           MainWaitFails
  <2>2. readIntr' \in Nat /\ writeIntr' \in Nat
    BY <1>10 DEF MainLoop, MainSignal, MainBreak, MainExit, MainSignalRead, MainSignalWrite, MainJoin,
                MainWaitFails, Added
  <2>3. readSuccess' \in BOOLEAN /\ shouldExit' \in BOOLEAN
    BY <1>10 DEF MainLoop, MainSignal, MainBreak, MainExit, MainSignalRead, MainSignalWrite, MainJoin,
                MainWaitFails
  <2> QED
    BY <2>1, <2>2, <2>3 DEF SegmentTypeOK, segVars, shared, ringVars
<1>11. CASE MainWait
  <2>1. readIntr' \in Nat
    BY <1>11 DEF MainWait, Left
  <2> QED
    BY <1>11, <2>1 DEF SegmentTypeOK, segVars, shared, ringVars, MainGoto, MainPC, MainWait
<1>12. CASE MainCount
  <2>1. ops' \in Nat /\ unanswered' \in Nat
    BY <1>12 DEF MainCount
  <2> QED
    BY <1>12, <2>1 DEF SegmentTypeOK, segVars, shared, ringVars, MainGoto, MainPC, MainCount
<1>13. CASE Environment /\ UNCHANGED clientVars
  BY <1>1, <1>13, EnvironmentType
<1>14. CASE UNCHANGED vars
  BY <1>14 DEF SegmentTypeOK, vars, segVars, shared, ringVars
<1> QED
  BY <1>2, <1>3, <1>4, <1>5, <1>6, <1>7, <1>8, <1>9, <1>10, <1>11, <1>12, <1>13, <1>14
     DEF Next, RunClientThread, Main

LEMMA InitTypes == Init => Types
<1> SUFFICES ASSUME Init PROVE Types
  OBVIOUS
<1>1. NoFrame \in Frame
  BY DEF NoFrame, Frame, Procs
<1>2. 0 \in Slots
  BY FrameRingAssumption, SMT DEF Slots
<1>3. pc["server"] = "create" /\ pc["client"] = "open" /\ pc \in [Procs -> {"create", "open"}]
  BY DEF Init, SegmentInit, Procs
<1>4. {"create"} \subseteq ServerPC /\ {"open"} \subseteq ThreadPC
  BY DEF ServerPC, ThreadPC
<1>5. pc \in [Procs -> ServerPC \union ThreadPC]
  BY <1>3, <1>4
<1>6. SegmentTypeOK(ThreadPC)
  BY <1>1, <1>2, <1>3, <1>4, <1>5 DEF Init, SegmentInit, SegmentTypeOK, Nobody
<1> QED BY <1>6 DEF Init, Types, MainPC

LEMMA StepWakeups == Types /\ NoLostWakeup /\ [Next]_vars => NoLostWakeup'
<1> SUFFICES ASSUME Types, NoLostWakeup, [Next]_vars PROVE NoLostWakeup'
  OBVIOUS
<1> USE DEF Types
<1>1. CASE Server
  BY <1>1, ServerWakeups DEF Server, SetupServer, RunServer, EndServer
<1>2. CASE Environment /\ UNCHANGED clientVars
  BY <1>2, EnvironmentWakeups
<1>3. CASE RunClientThread \/ ThreadWaitFails
  BY <1>3
     DEF SegmentTypeOK, NoLostWakeup, shared, ringVars, Goto, Procs, RunClientThread,
         ThreadLoop, ThreadWait, ThreadWaitFails, ThreadOnSegment, ThreadLocks, Lock, Wait, ThreadWrite, Put, Raised,
         Signalled, ThreadUnlock, ThreadReceive, Lowered, ThreadNotify
<1>4. CASE Main \/ MainWaitFails
  BY <1>4
     DEF SegmentTypeOK, NoLostWakeup, segVars, shared, Goto, Procs, Main, MainOpen, Open, MainAttach, Attach,
         MainLoop, MainCompose, MainSignal, MainWait, MainWaitFails, MainCount, MainBreak, MainExit, MainSignalRead,
         MainSignalWrite, MainJoin
<1>5. CASE UNCHANGED vars
  BY <1>5 DEF NoLostWakeup, vars, segVars, shared
<1> QED BY <1>1, <1>2, <1>3, <1>4, <1>5 DEF Next

(***************************************************************************)
(* Server and client thread never sleep with their flag up, whenever the   *)
(* client starts.                                                          *)
(***************************************************************************)
THEOREM WakeupsArrive == Spec => []NoLostWakeup
<1>1. Init => NoLostWakeup
  BY DEF Init, SegmentInit, NoLostWakeup, Procs
<1> QED BY <1>1, InitTypes, StepTypes, StepWakeups, PTL DEF Spec

-----------------------------------------------------------------------------
(* The segment, whether or not calls on the interrupts fail.               *)

LEMMA ThreadSegment ==
  ASSUME Types, Started, Phase, RunClientThread \/ ThreadWaitFails
  PROVE  Started' /\ Phase'
<1> USE DEF Types, SegmentTypeOK, shared, ringVars, Goto, Procs, Closed
<1>1. pc["client"] \notin {"open", "attach", "failed"}
  BY DEF RunClientThread, ThreadLoop, ThreadWait, ThreadWaitFails, ThreadOnSegment, ThreadLocks, Lock, Wait,
         ThreadWrite, ThreadUnlock, ThreadReceive, ThreadNotify
<1>2. CASE ThreadLoop \/ ThreadWait \/ ThreadWaitFails \/ ThreadOnSegment \/ ThreadUnlock \/ ThreadNotify
  <2>1. /\ UNCHANGED <<avail, readPos, writePos, ring, dropped, stores, ready, pc["server"]>>
        /\ pc'["client"] \in Asking <=> pc["client"] \in Asking
        /\ pc["client"] \in Gone => pc'["client"] \in Gone
        /\ pc'["client"] \notin {"open", "attach", "failed"}
    BY <1>2
       DEF ThreadLoop, ThreadWait, ThreadWaitFails, ThreadOnSegment, ThreadLocks, Lock, Wait, ThreadUnlock,
           ThreadNotify, Asking, Gone
  <2> QED BY <1>1, <2>1, PhaseStable DEF Started
<1>3. CASE ThreadWrite
  <2>1. Idle \/ (Shut /\ Empty)
    BY <1>3 DEF ThreadWrite, Phase, Requested, Served, Answered, Refused, Shut, Asking, Gone
  <2>2. Fits
    BY <2>1, EmptyHasRoom DEF Idle
  <2>3. pc'["server"] \in {pc["server"], "woken"} /\ (pc["server"] # "waiting" => UNCHANGED pc["server"])
    BY <1>3, <2>2 DEF ThreadWrite, Signalled
  <2>4. ASSUME ready PROVE Phase'
    <3>1. ~Closed /\ Idle
      BY <2>1, <2>4 DEF Started, Shut
    <3>2. Requested' /\ ~Closed'
      BY <1>3, <2>2, <2>3, <2>4, <3>1
         DEF ThreadWrite, Put, Raised, Idle, Requested, Holds, Empty, Asking, Answering
    <3> QED BY <3>2 DEF Phase
  <2>5. ASSUME ~ready PROVE Phase'
    <3>1. Closed
      BY <1>1, <2>5 DEF Started
    <3> QED BY <1>3, <2>2, <2>3, <2>5, <3>1 DEF ThreadWrite, Phase, Shut, Asking, Gone
  <2>6. Started'
    BY <1>3, <2>2, <2>3 DEF ThreadWrite, Put, Started
  <2> QED BY <2>4, <2>5, <2>6
<1>4. CASE ThreadReceive
  <2>1. Answered \/ Shut
    BY <1>4 DEF ThreadReceive, Phase, Idle, Requested, Served, Refused
  <2>2. Phase'
    BY <1>4, <2>1, SuccDiffers
       DEF ThreadReceive, Get, Lowered, Phase, Answered, Idle, Shut, Holds, Empty, Asking, Gone
  <2>3. Started'
    BY <1>4 DEF ThreadReceive, Get, Started
  <2> QED BY <2>2, <2>3
<1> QED BY <1>2, <1>3, <1>4 DEF RunClientThread

LEMMA MainSegment ==
  ASSUME StaggeredStart, Types, Started, Phase, Main \/ MainWaitFails
  PROVE  Started' /\ Phase'
<1> USE DEF Types, SegmentTypeOK, segVars, shared, ringVars, Goto, Procs, Closed, MainGoto
<1>1. CASE MainOpen \/ MainAttach
  <2>1. Phase'
    BY <1>1, PhaseStable DEF MainOpen, Open, MainAttach, Attach, Asking, Gone
  <2>2. Started'
    <3>1. stores = {} /\ UNCHANGED <<stores, ready, pc["server"]>>
      BY <1>1 DEF MainOpen, Open, MainAttach, Attach, Started
    <3>2. pc'["client"] \in {"attach", "failed"} \/ ready
      BY <1>1 DEF MainOpen, Open, MainAttach, Attach
    <3> QED BY <3>1, <3>2 DEF Started
  <2> QED BY <2>1, <2>2
<1>2. CASE MainCompose
  BY <1>2, PhaseStable DEF MainCompose, Started
<1>3. CASE MainLoop \/ MainSignal \/ MainWait \/ MainWaitFails \/ MainCount \/ MainBreak \/ MainExit
           \/ MainSignalRead \/ MainSignalWrite \/ MainJoin
  <2>1. UNCHANGED segVars
    BY <1>3
       DEF MainLoop, MainSignal, MainWait, MainWaitFails, MainCount, MainBreak, MainExit, MainSignalRead,
           MainSignalWrite, MainJoin
  <2> QED BY <2>1, PhaseStable DEF Started
<1> QED BY <1>1, <1>2, <1>3 DEF Main

LEMMA StepSegment ==
  ASSUME StaggeredStart, Types, Started, Phase, [Next]_vars
  PROVE  Started' /\ Phase'
<1>1. CASE Server
  BY <1>1, ServerStarted, ServerPhase, SetupPhase DEF Server, SetupServer, RunServer, EndServer, Types
<1>2. CASE Environment /\ UNCHANGED clientVars
  BY <1>2, EnvironmentPhase DEF Types
<1>3. CASE UNCHANGED vars
  BY <1>3, PhaseStable DEF vars, segVars, shared, ringVars, Closed, Started
<1> QED BY <1>1, <1>2, <1>3, ThreadSegment, MainSegment DEF Next

LEMMA StepJoined == Types /\ Joined /\ [Next]_vars => Joined'
<1> SUFFICES ASSUME Types, Joined, [Next]_vars PROVE Joined'
  OBVIOUS
<1> USE DEF Types, SegmentTypeOK, Goto, MainGoto, Procs, Joined
<1>1. CASE Server \/ (Environment /\ UNCHANGED clientVars)
  <2>1. UNCHANGED main /\ (pc["client"] = "done" => pc'["client"] = "done")
    BY <1>1
       DEF Server, SetupServer, RunServer, EndServer, Setup, Create, InitPositions, InitReady, Serve, ServerLoop,
           ServeLocks, Lock, Wait, ServerReceive, ServerCheck, Reply, Signalled, FreeServer, Close, Remove,
           Environment, Expire, SpuriousWake, clientVars
  <2> QED BY <2>1
<1>2. CASE RunClientThread \/ ThreadWaitFails
  <2>1. UNCHANGED main /\ pc["client"] # "done"
    BY <1>2
       DEF RunClientThread, ThreadLoop, ThreadWait, ThreadWaitFails, ThreadOnSegment, ThreadLocks, Lock, Wait,
           ThreadWrite, ThreadUnlock, ThreadReceive, ThreadNotify
  <2> QED BY <2>1
<1>3. CASE Main \/ MainWaitFails
  BY <1>3
     DEF Main, MainOpen, Open, MainAttach, Attach, MainLoop, MainCompose, MainSignal, MainWait, MainWaitFails,
         MainCount, MainBreak, MainExit, MainSignalRead, MainSignalWrite, MainJoin, segVars
<1>4. CASE UNCHANGED vars
  BY <1>4 DEF vars, segVars
<1> QED BY <1>1, <1>2, <1>3, <1>4 DEF Next

-----------------------------------------------------------------------------
(* The hand-over, as long as no call on an interrupt fails.                *)

LEMMA ServerStep == Inductive /\ ~intrFails /\ Server => Settled'
<1> SUFFICES ASSUME Inductive, ~intrFails, Server PROVE Settled'
  OBVIOUS
<1> USE DEF Inductive, Settled
<1>1. SameCall'
  BY ServerSameCall DEF Server, SetupServer, RunServer, EndServer, Types
<1>2. (Setup \/ Serve \/ FreeServer) /\ UNCHANGED clientVars
  BY DEF Server, SetupServer, RunServer, EndServer
<1>3. /\ UNCHANGED <<msg["client"], clientVars>>
      /\ pc'["client"] = pc["client"] \/ (pc["client"] = "waiting" /\ pc'["client"] = "woken")
      /\ Closed => Closed'
  BY <1>2
     DEF Setup, Create, InitPositions, InitReady, Serve, ServerLoop, ServeLocks, Lock, Wait,
         ServerReceive, Get, ServerCheck, Reply, Signalled, FreeServer, Close, Remove,
         Types, SegmentTypeOK, Goto, Procs, Closed
<1>4. UNCHANGED <<main, shouldExit, readSuccess, readIntr, writeIntr, ops, unanswered>>
  BY <1>3 DEF clientVars, threadData, stats
<1>5. Handover'
  BY <1>3, <1>4
     DEF Handover, HandoverBefore, HandoverAfter, Signals, Resting, Working, Asking, Gone
<1>6. Numbers' /\ Counted'
  BY <1>3, <1>4 DEF Numbers, Counted, Reported, Asking
<1> QED BY <1>1, <1>5, <1>6

LEMMA ThreadStep == Inductive /\ ~intrFails /\ RunClientThread => Settled'
<1> SUFFICES ASSUME Inductive, ~intrFails, RunClientThread PROVE Settled'
  OBVIOUS
<1> USE DEF Inductive, Settled, Types, SegmentTypeOK, threadData, stats, shared, ringVars, Goto, Procs, Closed
<1>1. \A n \in Nat : Added(n) = {n + 1}
  BY DEF Added
<1>2. CASE ThreadLoop \/ ThreadWait \/ ThreadOnSegment \/ ThreadUnlock \/ ThreadNotify
  <2>1. SameCall'
    BY <1>2, SameCallStable
       DEF ThreadLoop, ThreadWait, ThreadOnSegment, ThreadLocks, Lock, Wait, ThreadUnlock, ThreadNotify, Asking
  <2>2. CASE ThreadLoop
    <3>1. Handover'
      BY <2>2 DEF ThreadLoop, Handover, HandoverBefore, HandoverAfter, Signals, Resting, Working, Asking, Gone
    <3>2. Numbers' /\ Counted'
      BY <2>2 DEF ThreadLoop, Numbers, Counted, Reported, Asking
    <3> QED BY <2>1, <3>1, <3>2
  <2>3. CASE ThreadWait
    <3>1. writeIntr = 1
      BY <2>3 DEF ThreadWait, Handover, HandoverBefore, HandoverAfter, Signals, Resting, Working, Asking, Gone
    <3>2. writeIntr' = 0
      BY <2>3, <3>1 DEF ThreadWait, Left
    <3>3. Handover'
      BY <2>3, <3>2
         DEF ThreadWait, Handover, HandoverBefore, HandoverAfter, Signals, Resting, Working, Asking, Gone
    <3>4. Numbers' /\ Counted'
      BY <2>3 DEF ThreadWait, Numbers, Counted, Reported, Asking
    <3> QED BY <2>1, <3>3, <3>4
  <2>4. CASE ThreadOnSegment
    <3>1. Handover'
      BY <2>4
         DEF ThreadOnSegment, ThreadLocks, Lock, Wait,
             Handover, HandoverBefore, HandoverAfter, Signals, Resting, Working, Asking, Gone
    <3>2. Numbers' /\ Counted'
      BY <2>4 DEF ThreadOnSegment, ThreadLocks, Lock, Wait, Numbers, Counted, Reported, Asking
    <3> QED BY <2>1, <3>1, <3>2
  <2>5. CASE ThreadUnlock
    <3>1. Handover'
      BY <2>5 DEF ThreadUnlock, Handover, HandoverBefore, HandoverAfter, Signals, Resting, Working, Asking, Gone
    <3>2. Numbers' /\ Counted'
      BY <2>5 DEF ThreadUnlock, Numbers, Counted, Reported, Asking
    <3> QED BY <2>1, <3>1, <3>2
  <2>6. CASE ThreadNotify
    <3>1. readIntr' = readIntr + 1
      BY <1>1, <2>6 DEF ThreadNotify
    <3>2. Handover'
      BY <2>6, <3>1
         DEF ThreadNotify, Handover, HandoverBefore, HandoverAfter, Signals, Resting, Working, Asking, Gone
    <3>3. Numbers' /\ Counted'
      BY <2>6, <3>1 DEF ThreadNotify, Numbers, Counted, Reported, Asking
    <3> QED BY <2>1, <3>2, <3>3
  <2> QED BY <1>2, <2>2, <2>3, <2>4, <2>5, <2>6
<1>3. CASE ThreadWrite
  <2>1. Idle \/ (Shut /\ Empty)
    BY <1>3 DEF ThreadWrite, Phase, Requested, Served, Answered, Refused, Shut, Asking, Gone
  <2>2. Fits
    BY <2>1, EmptyHasRoom DEF Idle
  <2>3. pc'["server"] \in {pc["server"], "woken"} /\ (pc["server"] # "waiting" => UNCHANGED pc["server"])
    BY <1>3, <2>2 DEF ThreadWrite, Signalled
  <2>4. IF ready THEN UNCHANGED readIntr ELSE readIntr' = readIntr + 1
    BY <1>1, <1>3, <2>2 DEF ThreadWrite
  <2>5. SameCall'
    <3>1. ring'[readPos'].seq = msg["client"].seq
      BY <1>3, <2>1, <2>2 DEF ThreadWrite, Put, Idle, Empty
    <3>2. UNCHANGED msg /\ (pc'["server"] \in Answering => pc["server"] \in Answering)
      BY <1>3, <2>3 DEF ThreadWrite, Answering
    <3> QED BY <3>1, <3>2 DEF SameCall
  <2>6. Handover'
    BY <1>3, <2>2, <2>4
       DEF ThreadWrite, Handover, HandoverBefore, HandoverAfter, Signals, Resting, Working, Asking, Gone
  <2>7. Numbers'
    BY <1>3, <2>2, <2>4 DEF ThreadWrite, Numbers
  <2>8. Counted'
    BY <1>3, <2>2, <2>3, <2>4 DEF ThreadWrite, Counted, Reported, Started, Asking
  <2> QED BY <2>5, <2>6, <2>7, <2>8
<1>4. CASE ThreadReceive
  <2>1. Answered \/ Shut
    BY <1>4 DEF ThreadReceive, Phase, Idle, Requested, Served, Refused
  <2>2. SameCall'
    <3>1. pc["server"] \notin Answering /\ pc'["server"] = pc["server"] /\ pc'["client"] \notin Asking
      BY <1>4, <2>1 DEF ThreadReceive, Answered, Shut, Asking, Answering
    <3> QED BY <3>1 DEF SameCall
  <2>3. msg'["client"].seq = msg["client"].seq
    BY <1>4 DEF ThreadReceive, Get, SameCall, Asking
  <2>4. Handover'
    BY <1>4
       DEF ThreadReceive, Handover, HandoverBefore, HandoverAfter, Signals, Resting, Working, Asking, Gone
  <2>5. Numbers'
    BY <1>4, <2>3
       DEF ThreadReceive, Numbers, Handover, HandoverBefore, HandoverAfter, Signals, Resting, Asking, Gone
  <2>6. Counted'
    <3>1. Closed \/ (readSuccess' /\ msg'["client"].from = "server")
      BY <1>4, <2>1, SuccDiffers DEF ThreadReceive, Get, Answered, Shut, Holds, Empty
    <3>2. pc["client"] = "test" /\ pc'["client"] = "notify" /\ UNCHANGED <<main, readIntr, unanswered, pc["server"]>>
      BY <1>4 DEF ThreadReceive
    <3> QED BY <3>1, <3>2 DEF Counted, Asking
  <2> QED BY <2>2, <2>4, <2>5, <2>6
<1> QED BY <1>2, <1>3, <1>4 DEF RunClientThread

LEMMA MainStep == Inductive /\ ~intrFails /\ Main => Settled'
<1> SUFFICES ASSUME Inductive, ~intrFails, Main PROVE Settled'
  OBVIOUS
<1> USE DEF Inductive, Settled, Types, SegmentTypeOK, threadData, stats, segVars, shared, ringVars, Goto, Procs,
            Closed, MainGoto
<1>1. \A n \in Nat : Added(n) = {n + 1}
  BY DEF Added
<1>2. CASE MainOpen \/ MainAttach
  <2>1. SameCall'
    BY <1>2, SameCallStable DEF MainOpen, Open, MainAttach, Attach, Asking
  <2>2. Handover'
    BY <1>2
       DEF MainOpen, Open, MainAttach, Attach,
           Handover, HandoverBefore, HandoverAfter, Signals, Resting, Working, Asking, Gone
  <2>3. Numbers' /\ Counted'
    BY <1>2 DEF MainOpen, Open, MainAttach, Attach, Numbers, Counted, Reported, Asking
  <2> QED BY <2>1, <2>2, <2>3
<1>3. CASE MainCompose
  <2>1. pc["client"] \in {"loop", "wait"} /\ Signals(0, 0) /\ ~shouldExit
    BY <1>3 DEF MainCompose, Handover, HandoverBefore, HandoverAfter
  <2>2. Idle \/ (Shut /\ Empty)
    BY <2>1 DEF Phase, Requested, Served, Answered, Refused, Shut, Asking, Gone
  <2>3. SameCall'
    BY <1>3, <2>1, <2>2 DEF MainCompose, SameCall, Idle, Shut, Asking, Answering
  <2>4. Handover'
    BY <1>3, <2>1 DEF MainCompose, Handover, HandoverBefore, Signals, Gone
  <2>5. Numbers' /\ Counted'
    BY <1>3, <2>1 DEF MainCompose, Numbers, Counted, Reported, Asking
  <2> QED BY <2>3, <2>4, <2>5
<1>4. CASE MainLoop \/ MainSignal \/ MainWait \/ MainCount \/ MainBreak \/ MainExit
           \/ MainSignalRead \/ MainSignalWrite \/ MainJoin
  <2>1. UNCHANGED segVars
    BY <1>4
       DEF MainLoop, MainSignal, MainWait, MainCount, MainBreak, MainExit, MainSignalRead, MainSignalWrite,
           MainJoin
  <2>2. SameCall'
    BY <2>1, SameCallStable
  <2>3. CASE MainLoop \/ MainSignal
    <3>1. MainSignal => writeIntr' = writeIntr + 1
      BY <1>1 DEF MainSignal
    <3>2. Handover'
      BY <2>1, <2>3, <3>1
         DEF MainLoop, MainSignal, Handover, HandoverBefore, HandoverAfter, Signals, Resting, Gone
    <3>3. Numbers' /\ Counted'
      BY <2>1, <2>3
         DEF MainLoop, MainSignal, Numbers, Counted, Reported, Handover, HandoverBefore, HandoverAfter, Signals
    <3> QED BY <2>2, <3>2, <3>3
  <2>4. CASE MainWait
    <3>1. readIntr = 1 /\ pc["client"] \in Resting /\ writeIntr = 0
      BY <2>4 DEF MainWait, Handover, HandoverBefore, HandoverAfter, Signals
    <3>2. readIntr' = 0
      BY <2>4, <3>1 DEF MainWait, Left
    <3>3. Handover'
      BY <2>1, <2>4, <3>1, <3>2 DEF MainWait, Handover, HandoverBefore, HandoverAfter, Signals
    <3>4. Numbers' /\ Counted'
      BY <2>1, <2>4, <3>1, <3>2 DEF MainWait, Numbers, Counted, Reported
    <3> QED BY <2>2, <3>3, <3>4
  <2>5. CASE MainCount
    <3>1. Handover'
      BY <2>1, <2>5
         DEF MainCount, Handover, HandoverBefore, HandoverAfter, Signals, Resting, Gone
    <3>2. Numbers' /\ Counted'
      BY <2>1, <2>5, <3>1
         DEF MainCount, Numbers, Counted, Reported, Handover, HandoverBefore, HandoverAfter, Signals, Asking
    <3> QED BY <2>2, <3>1, <3>2
  <2>6. CASE MainBreak \/ MainExit
    <3>1. Handover'
      BY <2>1, <2>6
         DEF MainBreak, MainExit, Handover, HandoverBefore, HandoverAfter, Signals, Resting, Gone
    <3>2. Numbers' /\ Counted'
      BY <2>1, <2>6 DEF MainBreak, MainExit, Numbers, Counted, Reported
    <3> QED BY <2>2, <3>1, <3>2
  <2>7. CASE MainSignalRead \/ MainSignalWrite \/ MainJoin
    <3>1. (MainSignalRead => readIntr' = readIntr + 1) /\ (MainSignalWrite => writeIntr' = writeIntr + 1)
      BY <1>1 DEF MainSignalRead, MainSignalWrite
    <3>2. Handover'
      BY <2>1, <2>7, <3>1
         DEF MainSignalRead, MainSignalWrite, MainJoin, Handover, HandoverBefore, HandoverAfter, Signals,
             Resting, Working, Asking, Gone
    <3>3. Numbers' /\ Counted'
      BY <2>1, <2>7, <3>1 DEF MainSignalRead, MainSignalWrite, MainJoin, Numbers, Counted, Reported
    <3> QED BY <2>2, <3>2, <3>3
  <2> QED BY <1>4, <2>3, <2>4, <2>5, <2>6, <2>7
<1> QED BY <1>2, <1>3, <1>4 DEF Main

LEMMA SettingStays == [Next]_vars => UNCHANGED intrFails
BY DEF Next, Server, SetupServer, RunServer, EndServer, clientVars, vars,
       RunClientThread, ThreadLoop, ThreadWait, ThreadWaitFails, ThreadOnSegment, ThreadWrite, ThreadUnlock,
       ThreadReceive, ThreadNotify, Main, MainOpen, MainAttach, MainLoop, MainCompose, MainSignal, MainWait,
       MainWaitFails, MainCount, MainBreak, MainExit, MainSignalRead, MainSignalWrite, MainJoin

LEMMA StepInductive == StaggeredStart /\ Inductive /\ [Next]_vars => Inductive'
<1> SUFFICES ASSUME StaggeredStart, Inductive, [Next]_vars PROVE Inductive'
  OBVIOUS
<1>1. Types' /\ Started' /\ Phase' /\ Joined'
  BY StepTypes, StepSegment, StepJoined DEF Inductive
<1>2. ASSUME ~intrFails PROVE Settled'
  <2>1. Settled
    BY <1>2 DEF Inductive
  <2>2. CASE Environment /\ UNCHANGED clientVars
    <3>1. SameCall'
      BY <2>1, <2>2, EnvironmentPhase DEF Inductive, Types, Settled
    <3>2. /\ UNCHANGED <<msg, main, shouldExit, readSuccess, readIntr, writeIntr, ops, unanswered>>
          /\ pc'["client"] = pc["client"] \/ (pc["client"] = "waiting" /\ pc'["client"] = "woken")
          /\ Closed => Closed'
      BY <2>2
         DEF Inductive, Types, SegmentTypeOK, Environment, Expire, SpuriousWake, Goto, Procs, Closed,
             clientVars, threadData, stats, shared
    <3>3. Handover'
      BY <2>1, <3>2 DEF Settled, Handover, HandoverBefore, HandoverAfter, Signals, Resting, Working, Asking, Gone
    <3>4. Numbers' /\ Counted'
      BY <2>1, <3>2 DEF Settled, Numbers, Counted, Reported, Asking
    <3> QED BY <3>1, <3>3, <3>4 DEF Settled
  <2>3. CASE UNCHANGED vars
    <3>1. SameCall'
      BY <2>1, <2>3, SameCallStable DEF Settled, vars, segVars, shared, ringVars
    <3> QED
      BY <2>1, <2>3, <3>1
         DEF Settled, vars, segVars, shared, threadData, stats, Closed, Numbers, Counted, Reported,
             Handover, HandoverBefore, HandoverAfter, Signals
  <2>4. CASE ThreadWaitFails \/ MainWaitFails
    BY <1>2, <2>4 DEF ThreadWaitFails, MainWaitFails
  <2> QED BY <1>2, <2>2, <2>3, <2>4, ServerStep, ThreadStep, MainStep DEF Next
<1> QED BY <1>1, <1>2, SettingStays DEF Inductive

LEMMA InitInductive == Init => Inductive
<1> SUFFICES ASSUME Init PROVE Inductive
  OBVIOUS
<1>1. Started /\ Numbers /\ Counted /\ Joined
  BY DEF Init, SegmentInit, Started, Numbers, Counted, Joined, Reported, Closed, Procs, NoFrame, Asking
<1>2. Handover
  BY DEF Init, SegmentInit, Handover, HandoverBefore, Signals, Procs, Gone
<1>3. Idle /\ ~Closed /\ SameCall
  BY DEF Init, SegmentInit, Idle, SameCall, Closed, Procs, Empty, Asking, Answering
<1> QED BY <1>1, <1>2, <1>3, InitTypes DEF Inductive, Phase, Settled

(***************************************************************************)
(* At every moment it is settled which phase the segment is in and, as     *)
(* long as no call on an interrupt fails, which thread has the message and *)
(* what the buffer then holds.                                             *)
(***************************************************************************)
THEOREM Invariant ==
  ASSUME StaggeredStart
  PROVE  Spec => []Inductive
BY InitInductive, StepInductive, PTL DEF Spec

(***************************************************************************)
(* The variables keep their types; as long as no call on an interrupt      *)
(* fails, no more than two signals pend on the main thread's and one on    *)
(* the client thread's.                                                    *)
(***************************************************************************)
THEOREM TypeInv ==
  ASSUME StaggeredStart
  PROVE  Spec => []TypeOK
<1>1. Inductive => TypeOK
  <2> SUFFICES ASSUME Inductive PROVE TypeOK
    OBVIOUS
  <2>1. ~intrFails => readIntr <= 2 /\ writeIntr <= 1
    BY DEF Inductive, Settled, Handover, HandoverBefore, HandoverAfter, Signals
  <2> QED BY <2>1 DEF Inductive, Types, TypeOK
<1> QED BY <1>1, Invariant, PTL

(***************************************************************************)
(* A process whose flag is up finds its frame, and every frame finds room, *)
(* that of the message that is sent once more at the end included; also    *)
(* when calls on the interrupts fail.                                      *)
(***************************************************************************)
THEOREM TransferSuccess ==
  ASSUME StaggeredStart
  PROVE  Spec => []TransfersSucceed
<1>1. Inductive => TransfersSucceed
  BY PhaseTransfers DEF Inductive, Types
<1> QED BY <1>1, Invariant, PTL

(***************************************************************************)
(* Server and client thread never both wait with both flags down, unless   *)
(* the server has refused a request; also when calls on the interrupts     *)
(* fail.                                                                   *)
(***************************************************************************)
THEOREM SomebodyCalled ==
  ASSUME StaggeredStart
  PROVE  Spec => []NoMutualWait
<1>1. Inductive => NoMutualWait
  BY DEF Inductive, Phase, Idle, Requested, Served, Answered, Refused, Shut, Closed, Asking, Answering,
         NoMutualWait, Waiting
<1> QED BY <1>1, Invariant, PTL

(***************************************************************************)
(* The two threads never use the message and the result together, as long  *)
(* as no call on an interrupt fails, and the buffer is in any case freed   *)
(* after the client thread has ended.                                      *)
(***************************************************************************)
THEOREM MessageOwnership ==
  ASSUME StaggeredStart
  PROVE  Spec => []MessageOwned
<1>1. Inductive => MessageOwned
  BY DEF Inductive, Settled, Joined, Handover, HandoverBefore, HandoverAfter, Resting, Gone,
         MessageOwned, MainUses, ThreadUses
<1> QED BY <1>1, Invariant, PTL

(***************************************************************************)
(* As long as no call on an interrupt fails, the threads never wait for    *)
(* each other, and the main thread never waits for a thread that has ended *)
(* unless that thread's last signal is there.                              *)
(***************************************************************************)
THEOREM HandoverNeverStops ==
  ASSUME StaggeredStart
  PROVE  Spec => []HandoverGoesOn
<1>1. Inductive => HandoverGoesOn
  BY DEF Inductive, Settled, Handover, HandoverBefore, HandoverAfter, Signals, Working, Asking, HandoverGoesOn
<1> QED BY <1>1, Invariant, PTL

(***************************************************************************)
(* Until the end, and as long as no call on an interrupt fails, the client *)
(* thread sends each message once.                                         *)
(***************************************************************************)
THEOREM NewRequests ==
  ASSUME StaggeredStart
  PROVE  Spec => []SendsNewRequests
<1>1. Inductive => SendsNewRequests
  <2> SUFFICES ASSUME Inductive, ~intrFails, pc["client"] \in {"lock", "write"}, ~shouldExit
               PROVE  msg["client"] = [seq |-> ops + 1, from |-> "client"]
    BY DEF SendsNewRequests
  <2>1. main = "wait" /\ readIntr = 0
    BY DEF Inductive, Settled, Handover, HandoverBefore, HandoverAfter, Signals, Resting, Gone
  <2>2. msg["client"].seq = ops + 1 /\ msg["client"].from = "client"
    BY <2>1 DEF Inductive, Settled, Numbers
  <2>3. msg["client"] \in Frame
    BY DEF Inductive, Types, SegmentTypeOK, Procs
  <2> QED BY <2>2, <2>3 DEF Frame
<1> QED BY <1>1, Invariant, PTL

(***************************************************************************)
(* The answer the main thread counts is the one to its current call, as    *)
(* long as no call on an interrupt fails.                                  *)
(***************************************************************************)
THEOREM FreshAnswer ==
  ASSUME StaggeredStart
  PROVE  Spec => []NoStaleAnswer
<1>1. Inductive => NoStaleAnswer
  BY DEF Inductive, Settled, Numbers, NoStaleAnswer
<1> QED BY <1>1, Invariant, PTL

(***************************************************************************)
(* At most one call is counted without an answer, and only once the server *)
(* has lowered ready, as long as no call on an interrupt fails.            *)
(***************************************************************************)
THEOREM UnansweredAtShutdown ==
  ASSUME StaggeredStart
  PROVE  Spec => []UnansweredOnlyAtShutdown
<1>1. Inductive => UnansweredOnlyAtShutdown
  BY DEF Inductive, Settled, Counted, Started, UnansweredOnlyAtShutdown
<1> QED BY <1>1, Invariant, PTL

-----------------------------------------------------------------------------
(* The refinement.                                                         *)

LEMMA CallValues ==
  /\ main \notin {"wait", "check"} => Call = "none"
  /\ main \in {"wait", "check"} =>
       /\ pc["client"] \in Asking =>
            Call = IF ~Empty /\ ring[readPos].from = "server" THEN "answered" ELSE "sent"
       /\ pc["client"] \notin Asking /\ (pc["client"] = "notify" \/ readIntr > 0 \/ main = "check") =>
            Call = IF readSuccess /\ msg["client"].from = "server" THEN "answered" ELSE "sent"
       /\ pc["client"] \notin {"notify"} \union Asking /\ ~(readIntr > 0) /\ main # "check" =>
            Call = "none"
BY DEF Call, Asking

LEMMA NextCallValues ==
  /\ main' \notin {"wait", "check"} => Call' = "none"
  /\ main' \in {"wait", "check"} =>
       /\ pc'["client"] \in Asking =>
            Call' = IF ~Empty' /\ ring'[readPos'].from = "server" THEN "answered" ELSE "sent"
       /\ pc'["client"] \notin Asking /\ (pc'["client"] = "notify" \/ readIntr' > 0 \/ main' = "check") =>
            Call' = IF readSuccess' /\ msg'["client"].from = "server" THEN "answered" ELSE "sent"
       /\ pc'["client"] \notin {"notify"} \union Asking /\ ~(readIntr' > 0) /\ main' # "check" =>
            Call' = "none"
BY DEF Call, Asking

(* A step that leaves the ring and the main thread alone and the client    *)
(* where it is, or wakes it, does not change the call.                     *)
LEMMA CallStable ==
  ASSUME UNCHANGED <<main, readPos, writePos, ring, msg["client"], readSuccess, readIntr>>,
         \/ pc'["client"] = pc["client"]
         \/ pc["client"] \in Asking /\ pc'["client"] \in Asking
  PROVE  Call' = Call
BY CallValues, NextCallValues DEF Empty, Asking, Call

LEMMA ServerEcho ==
  ASSUME Inductive, Inductive', ~intrFails, ~intrFails', Server
  PROVE  [Echo!Next]_(Echo!vars)
<1> USE DEF Echo!vars, Echo!Next, Closed, Goto, Procs, shared, ringVars,
            Inductive, Settled, Types, SegmentTypeOK
<1>1. (Setup \/ Serve \/ FreeServer)
      /\ UNCHANGED <<main, shouldExit, readSuccess, readIntr, writeIntr, ops, unanswered>>
  BY DEF Server, SetupServer, RunServer, EndServer, clientVars, threadData, stats
<1>2. CASE Setup
  <2>1. pc["client"] = "open" /\ pc'["client"] = "open" /\ pc'["server"] \notin {"remove", "done"}
          /\ pc["server"] \notin {"remove", "done"}
    BY <1>2 DEF Setup, Create, InitPositions, InitReady, Started
  <2>2. main = "setup"
    BY <2>1
       DEF Handover, HandoverBefore, HandoverAfter, Resting, Working, Asking, Gone
  <2>3. Call = "none" /\ Call' = "none"
    BY <1>1, <2>2, CallValues, NextCallValues
  <2> QED BY <1>1, <2>1, <2>3
<1>3. CASE ServerLoop \/ ServeLocks \/ Wait("server") \/ ServerCheck \/ Remove
           \/ Lock("server", "close_lock", "close")
  <2>1. UNCHANGED <<readPos, writePos, ring, msg, pc["client"]>> /\ (Closed' <=> Closed)
    BY <1>3 DEF ServerLoop, ServeLocks, Lock, Wait, ServerCheck, Remove
  <2>2. Call' = Call
    BY <1>1, <2>1, CallStable
  <2> QED BY <1>1, <2>1, <2>2
<1>4. CASE ServerReceive
  <2>1. Requested
    BY <1>4 DEF ServerReceive, Phase, Idle, Served, Answered, Refused, Shut
  <2>2. Empty' /\ ~Empty /\ ring[readPos].from = "client"
    BY <1>4, <2>1, SuccDiffers DEF ServerReceive, Requested, Holds, Get, Empty
  <2>3. Call' = Call
    BY <1>1, <1>4, <2>1, <2>2, CallValues, NextCallValues DEF ServerReceive, Requested, Asking
  <2> QED BY <1>1, <1>4, <2>3 DEF ServerReceive
<1>5. CASE Reply
  <2>1. Served
    <3>1. pc["server"] = "reply"
      BY <1>5 DEF Reply
    <3> QED BY <3>1 DEF Phase, Idle, Requested, Answered, Refused, Shut, Answering
  <2>2. pc["client"] \in Asking /\ pc'["client"] \in Asking
    BY <1>5, <2>1 DEF Reply, Served, Signalled, Asking
  <2>3. ~Empty' /\ ring'[readPos'].from = "server"
    BY <1>5, <2>1, EmptyHasRoom, SuccDiffers DEF Reply, Put, Served, Empty
  <2>4. pc'["server"] = "loop" /\ pc["server"] = "reply" /\ (pc["client"] = "failed" <=> pc'["client"] = "failed")
    BY <1>5 DEF Reply, Signalled
  <2>5. CASE main \in {"wait", "check"}
    <3>1. Call = "sent"
      BY <2>1, <2>2, <2>5, CallValues DEF Served
    <3>2. Call' = "answered"
      BY <1>1, <2>2, <2>3, <2>5, NextCallValues
    <3> QED BY <1>1, <2>4, <3>1, <3>2 DEF Echo!Answer
  <2>6. CASE main \notin {"wait", "check"}
    <3>1. Call = "none" /\ Call' = "none"
      BY <1>1, <2>6, CallValues, NextCallValues
    <3> QED BY <1>1, <2>4, <3>1
  <2> QED BY <2>5, <2>6
<1>6. CASE Close
  <2>1. Call' = Call
    BY <1>1, <1>6, CallStable DEF Close, Signalled, Asking
  <2>2. ~Closed /\ Closed' /\ (pc["client"] = "failed" <=> pc'["client"] = "failed")
    BY <1>6 DEF Close, Signalled
  <2> QED BY <1>1, <2>1, <2>2 DEF Echo!Close
<1> QED BY <1>1, <1>2, <1>3, <1>4, <1>5, <1>6 DEF Serve, FreeServer

LEMMA ThreadEcho ==
  ASSUME Inductive, Inductive', ~intrFails, ~intrFails', RunClientThread
  PROVE  [Echo!Next]_(Echo!vars)
<1> USE DEF Goto, Procs, shared, ringVars, threadData, stats, Inductive, Settled, Types, SegmentTypeOK
<1>1. UNCHANGED <<main, ops, unanswered>> /\ pc["client"] # "failed" /\ pc'["client"] # "failed"
      /\ Closed' = Closed
  BY DEF RunClientThread, ThreadLoop, ThreadWait, ThreadOnSegment, ThreadLocks, Lock, Wait, ThreadWrite,
         Signalled, ThreadUnlock, ThreadReceive, ThreadNotify, Closed
<1>2. (Call' = Call) \/ (main = "wait" /\ Call = "none" /\ Call' = "sent")
  <2>1. CASE ThreadLoop \/ ThreadUnlock \/ ThreadWait
    BY <2>1, CallValues, NextCallValues DEF ThreadLoop, ThreadUnlock, ThreadWait, Asking
  <2>2. CASE ThreadOnSegment
    BY <2>2, CallValues, NextCallValues DEF ThreadOnSegment, ThreadLocks, Lock, Wait, Asking, Empty
  <2>3. CASE ThreadNotify
    <3>1. readIntr' > 0
      BY <2>3 DEF ThreadNotify, Added
    <3> QED BY <2>3, <3>1, CallValues, NextCallValues DEF ThreadNotify, Asking
  <2>4. CASE ThreadReceive
    BY <2>4, CallValues, NextCallValues DEF ThreadReceive, Get, Asking
  <2>5. CASE ThreadWrite
    <3>1. Empty /\ Fits
      BY <2>5, EmptyHasRoom
         DEF ThreadWrite, Phase, Requested, Served, Answered, Refused, Shut, Idle, Asking, Gone
    <3>2. ring'[readPos'].from = "client"
      BY <2>5, <3>1 DEF ThreadWrite, Put, Empty
    <3>3. (main = "wait" /\ readIntr = 0) \/ main = "join"
      BY <2>5 DEF ThreadWrite, Handover, HandoverBefore, HandoverAfter, Resting, Working, Asking, Gone, Signals
    <3>4. CASE main = "wait" /\ readIntr = 0
      <4>1. Call = "none"
        BY <2>5, <3>4, CallValues DEF ThreadWrite, Asking
      <4>2. CASE ready
        BY <2>5, <3>1, <3>2, <3>4, <4>1, <4>2, NextCallValues DEF ThreadWrite, Asking
      <4>3. CASE ~ready
        <5>1. pc'["client"] = "unlock" /\ readIntr' = 1 /\ main' = "wait"
          BY <2>5, <3>1, <3>4, <4>3 DEF ThreadWrite, Added
        <5>2. ~readSuccess'
          BY <2>5, <3>1, <4>3, Zenon DEF ThreadWrite
        <5> QED BY <3>4, <4>1, <5>1, <5>2, NextCallValues DEF Asking
      <4> QED BY <4>2, <4>3
    <3>5. CASE main = "join"
      BY <1>1, <3>5, CallValues, NextCallValues
    <3> QED BY <3>3, <3>4, <3>5
  <2> QED BY <2>1, <2>2, <2>3, <2>4, <2>5 DEF RunClientThread
<1> QED BY <1>1, <1>2 DEF Echo!vars, Echo!Next, Echo!Send

LEMMA MainEcho ==
  ASSUME Inductive, Inductive', ~intrFails, ~intrFails', Main
  PROVE  [Echo!Next]_(Echo!vars)
<1> USE DEF Echo!vars, Echo!Next, Goto, MainGoto, Procs, segVars, shared, ringVars, threadData, stats,
            Inductive, Settled, Types, SegmentTypeOK
<1>1. pc'["server"] = pc["server"]
  BY DEF Main, MainOpen, Open, MainAttach, Attach, MainLoop, MainCompose, MainSignal, MainWait,
         MainCount, MainBreak, MainExit, MainSignalRead, MainSignalWrite, MainJoin
<1>2. Closed' <=> Closed
  BY <1>1 DEF Closed
<1>3. CASE MainOpen \/ MainAttach
  <2>1. main = "setup" /\ main' \in {"setup", "loop"} /\ pc["client"] # "failed"
    BY <1>3 DEF MainOpen, Open, MainAttach, Attach, Handover, HandoverBefore, HandoverAfter, Resting, Working,
                Asking, Gone
  <2>2. Call = "none" /\ Call' = "none"
    BY <2>1, CallValues, NextCallValues
  <2> QED BY <1>2, <1>3, <2>1, <2>2 DEF MainOpen, MainAttach, Echo!Leave
<1>4. CASE MainLoop \/ MainCompose \/ MainSignal
  <2>1. main \in {"loop", "compose", "signal"} /\ main' \in {"compose", "signal", "wait", "exit"}
        /\ UNCHANGED <<pc, ops, unanswered, readIntr>>
    BY <1>4 DEF MainLoop, MainCompose, MainSignal
  <2>2. pc["client"] \in {"loop", "wait"} /\ readIntr = 0
    BY <2>1 DEF Handover, HandoverBefore, HandoverAfter, Signals
  <2>3. Call = "none" /\ Call' = "none"
    BY <2>1, <2>2, CallValues, NextCallValues DEF Asking
  <2> QED BY <1>2, <2>1, <2>2, <2>3 DEF Echo!Leave
<1>5. CASE MainWait
  <2>1. pc["client"] \in Resting
    BY <1>5 DEF MainWait, Handover, HandoverBefore, HandoverAfter, Signals
  <2>2. Call' = Call
    BY <1>5, <2>1, CallValues, NextCallValues DEF MainWait, Resting, Asking, Gone
  <2> QED BY <1>2, <1>5, <2>2 DEF MainWait
<1>6. CASE MainCount \/ MainBreak
  <2>1. main = "check" /\ pc["client"] \in Resting /\ main' \in {"loop", "exit"} /\ UNCHANGED pc
    BY <1>6 DEF MainCount, MainBreak, Handover, HandoverBefore, HandoverAfter
  <2>2. Call = (IF readSuccess /\ msg["client"].from = "server" THEN "answered" ELSE "sent") /\ Call' = "none"
    BY <2>1, CallValues, NextCallValues DEF Resting, Asking, Gone
  <2>3. pc["client"] # "failed"
    BY <2>1 DEF Resting, Gone
  <2>4. CASE MainCount
    <3>1. msg["client"].from \in Procs /\ main' = "loop" /\ unanswered = 0
      BY <2>1, <2>4 DEF MainCount, Frame, Counted, Reported
    <3>2. CASE msg["client"].from = "server"
      BY <1>2, <2>1, <2>2, <2>3, <2>4, <3>1, <3>2 DEF MainCount, Echo!Complete
    <3>3. CASE msg["client"].from = "client"
      BY <1>2, <2>1, <2>2, <2>3, <2>4, <3>1, <3>3 DEF MainCount, Echo!CompleteUnanswered, Counted, Reported
    <3> QED BY <3>1, <3>2, <3>3
  <2>5. CASE MainBreak
    <3>1. Closed
      BY <2>1, <2>5 DEF MainBreak, Counted, Reported
    <3> QED BY <1>2, <2>1, <2>2, <2>3, <2>5, <3>1 DEF MainBreak, Echo!Leave
  <2> QED BY <1>6, <2>4, <2>5
<1>7. CASE MainExit \/ MainSignalRead \/ MainSignalWrite \/ MainJoin
  <2>1. main \in {"exit", "signal_read", "signal_write", "join"}
        /\ main' \in {"signal_read", "signal_write", "join", "done"} /\ UNCHANGED <<pc, ops, unanswered>>
    BY <1>7 DEF MainExit, MainSignalRead, MainSignalWrite, MainJoin
  <2>2. Call = "none" /\ Call' = "none"
    BY <2>1, CallValues, NextCallValues
  <2> QED BY <1>2, <2>1, <2>2
<1> QED BY <1>3, <1>4, <1>5, <1>6, <1>7 DEF Main

(***************************************************************************)
(* Every behaviour of server, client thread and main thread together is a  *)
(* behaviour of the echo service, as long as no call on an interrupt       *)
(* fails.                                                                  *)
(***************************************************************************)
THEOREM EchoRefinement ==
  ASSUME StaggeredStart
  PROVE  Spec => EchoSpec
<1>1. Init => Echo!Init
  BY CallValues DEF Init, SegmentInit, Echo!Init, Closed, Procs
<1>2. Inductive /\ Inductive' /\ [Next]_vars => [Echo!Next]_(Echo!vars)
  <2> SUFFICES ASSUME Inductive, Inductive', [Next]_vars PROVE [Echo!Next]_(Echo!vars)
    OBVIOUS
  <2>0. UNCHANGED intrFails
    BY SettingStays
  <2>1. CASE intrFails
    BY <2>0, <2>1 DEF Echo!vars
  <2>2. CASE ThreadWaitFails \/ MainWaitFails
    BY <2>1, <2>2 DEF ThreadWaitFails, MainWaitFails
  <2>3. CASE Environment /\ UNCHANGED clientVars
    <3>1. /\ UNCHANGED <<main, shouldExit, readSuccess, readIntr, ops, unanswered, readPos, writePos, ring, msg>>
          /\ pc'["client"] = pc["client"] \/ (pc["client"] = "waiting" /\ pc'["client"] = "woken")
          /\ Closed' = Closed
      BY <2>3
         DEF Inductive, Types, SegmentTypeOK, Environment, Expire, SpuriousWake, Goto, Procs, Closed,
             clientVars, threadData, stats, shared, ringVars
    <3>2. Call' = Call
      BY <3>1, CallStable DEF Asking
    <3> QED BY <2>0, <3>1, <3>2 DEF Echo!vars
  <2>4. CASE UNCHANGED vars
    BY <2>4 DEF vars, segVars, shared, ringVars, threadData, stats, Echo!vars, Call, Closed, Empty
  <2> QED BY <2>0, <2>1, <2>2, <2>3, <2>4, ServerEcho, ThreadEcho, MainEcho DEF Next
<1> QED BY <1>1, <1>2, Invariant, PTL DEF Spec, EchoSpec, Echo!Spec

-----------------------------------------------------------------------------
(***************************************************************************)
(* The two threads above use of an interrupt only what Event promises: a   *)
(* call that succeeds gives or takes signals, one that fails does neither. *)
(* What follows is about the descriptor under it, interrupt.c with its     *)
(* eventfd and its pipe, for any number of threads and every size of the   *)
(* descriptor.                                                             *)
(***************************************************************************)
CONSTANTS
  Threads, \* the threads that share one interrupt
  Capacity \* bound: signals the descriptor holds before a write blocks

VARIABLES kind, count, caller, result

Descriptor == INSTANCE Interrupt WITH pc <- caller

LEMMA DescriptorStepType ==
  ASSUME Descriptor!InterruptAssumption, Descriptor!TypeOK, [Descriptor!Next]_(Descriptor!vars)
  PROVE  Descriptor!TypeOK'
<1> USE DEF Descriptor!InterruptAssumption, Descriptor!TypeOK, Descriptor!Goto, Descriptor!Return
<1>1. CASE Descriptor!Create
  BY <1>1 DEF Descriptor!Create
<1>2. CASE Descriptor!Destroy
  <2>1. caller' = [t \in Threads |-> "idle"]
    BY <1>2 DEF Descriptor!Destroy
  <2> QED BY <1>2, <2>1 DEF Descriptor!Destroy
<1>3. ASSUME NEW t \in Threads, Descriptor!Signal(t) PROVE Descriptor!TypeOK'
  BY <1>3 DEF Descriptor!Signal
<1>4. ASSUME NEW t \in Threads, Descriptor!StartWait(t) \/ Descriptor!StartClear(t)
      PROVE  Descriptor!TypeOK'
  BY <1>4 DEF Descriptor!StartWait, Descriptor!StartClear
<1>5. ASSUME NEW t \in Threads,
             \/ Descriptor!Call(t)
             \/ Descriptor!SignalFails(t) \/ Descriptor!WaitFails(t) \/ Descriptor!ClearFails(t)
      PROVE  Descriptor!TypeOK'
  <2> USE DEF Descriptor!Call, Descriptor!ReadSignal, Descriptor!ReadEmpty, Descriptor!Poll,
              Descriptor!Clear, Descriptor!ClearEmpty,
              Descriptor!SignalFails, Descriptor!WaitFails, Descriptor!ClearFails
  <2>1. caller[t] # "idle" \/ kind # "none"
    BY <1>5
  <2>2. kind # "none"
    BY <2>1
  <2> QED BY <1>5, <2>2 DEF Descriptor!Rest
<1>6. CASE UNCHANGED Descriptor!vars
  BY <1>6 DEF Descriptor!vars
<1> QED BY <1>1, <1>2, <1>3, <1>4, <1>5, <1>6 DEF Descriptor!Next

(***************************************************************************)
(* The descriptor never holds more signals than it has room for, and an    *)
(* interrupt that is destroyed leaves neither a signal nor a thread in it. *)
(***************************************************************************)
THEOREM DescriptorTypeInv ==
  ASSUME Descriptor!InterruptAssumption
  PROVE  Descriptor!Spec => []Descriptor!TypeOK
<1>1. Descriptor!Init => Descriptor!TypeOK
  BY DEF Descriptor!InterruptAssumption, Descriptor!Init, Descriptor!TypeOK
<1> QED BY <1>1, DescriptorStepType, PTL DEF Descriptor!Spec

LEMMA DescriptorEventStep ==
  ASSUME Descriptor!InterruptAssumption, Descriptor!TypeOK, [Descriptor!Next]_(Descriptor!vars)
  PROVE  [Descriptor!Events!Next]_(Descriptor!Events!vars)
<1> DEFINE W == {t \in Threads : caller[t] \in {"read", "poll"}}
<1> USE DEF Descriptor!InterruptAssumption, Descriptor!TypeOK, Descriptor!Goto, Descriptor!Return,
            Descriptor!Waiting, Descriptor!Events!vars, Descriptor!Events!Next, Descriptor!Events!Left,
            Descriptor!Events!Returns
<1>1. CASE Descriptor!Create
  BY <1>1 DEF Descriptor!Create
<1>2. CASE Descriptor!Destroy
  BY <1>2 DEF Descriptor!Destroy, Descriptor!Events!End
<1>3. ASSUME NEW t \in Threads, Descriptor!Signal(t) PROVE Descriptor!Events!Raise(t)
  BY <1>3 DEF Descriptor!Signal, Descriptor!Events!Raise
<1>4. ASSUME NEW t \in Threads, Descriptor!StartWait(t) PROVE Descriptor!Events!Begin(t)
  BY <1>4 DEF Descriptor!StartWait, Descriptor!Events!Begin
<1>5. ASSUME NEW t \in Threads,
             Descriptor!StartClear(t) \/ Descriptor!ReadEmpty(t) \/ Descriptor!Poll(t)
      PROVE  UNCHANGED Descriptor!Events!vars
  BY <1>5 DEF Descriptor!StartClear, Descriptor!ReadEmpty, Descriptor!Poll
<1>6. ASSUME NEW t \in Threads, Descriptor!ReadSignal(t) PROVE Descriptor!Events!Succeed(t)
  <2>1. W' = W \ {t} /\ t \in W
    BY <1>6 DEF Descriptor!ReadSignal
  <2>2. count > 0 /\ count' \in 0..(count - 1)
    BY <1>6 DEF Descriptor!ReadSignal, Descriptor!Rest
  <2> QED BY <1>6, <2>1, <2>2 DEF Descriptor!ReadSignal, Descriptor!Events!Succeed
<1>7. ASSUME NEW t \in Threads, Descriptor!Clear(t) \/ Descriptor!ClearEmpty(t)
      PROVE  Descriptor!Events!Discard(t)
  <2>1. W' = W /\ t \notin W
    BY <1>7 DEF Descriptor!Clear, Descriptor!ClearEmpty
  <2>2. count' = 0 \/ count' \in 0..(count - 1)
    BY <1>7 DEF Descriptor!Clear, Descriptor!ClearEmpty, Descriptor!Rest
  <2> QED BY <1>7, <2>1, <2>2 DEF Descriptor!Clear, Descriptor!ClearEmpty, Descriptor!Events!Discard
<1>8. ASSUME NEW t \in Threads,
             Descriptor!SignalFails(t) \/ Descriptor!WaitFails(t) \/ Descriptor!ClearFails(t)
      PROVE  Descriptor!Events!Fail(t)
  <2>1. W' = W \ {t}
    BY <1>8 DEF Descriptor!SignalFails, Descriptor!WaitFails, Descriptor!ClearFails
  <2> QED
    BY <1>8, <2>1
       DEF Descriptor!SignalFails, Descriptor!WaitFails, Descriptor!ClearFails, Descriptor!Events!Fail
<1>9. CASE UNCHANGED Descriptor!vars
  BY <1>9 DEF Descriptor!vars
<1> QED BY <1>1, <1>2, <1>3, <1>4, <1>5, <1>6, <1>7, <1>8, <1>9 DEF Descriptor!Next, Descriptor!Call

(***************************************************************************)
(* Eventfd and pipe implement the same interrupt, the failures of read,    *)
(* write and poll included: a wait that returns 0 has had a signal of its  *)
(* own, one that returns -1 has taken none, and only a wait or a clear     *)
(* uses a signal up.                                                       *)
(***************************************************************************)
THEOREM EventRefinement ==
  ASSUME Descriptor!InterruptAssumption
  PROVE  Descriptor!Spec => Descriptor!EventSpec
<1>1. Descriptor!Init => Descriptor!Events!Init
  BY DEF Descriptor!Init, Descriptor!Events!Init, Descriptor!Waiting
<1> QED
  BY <1>1, DescriptorTypeInv, DescriptorEventStep, PTL
     DEF Descriptor!Spec, Descriptor!EventSpec, Descriptor!Events!Spec
=============================================================================

--------------------------- MODULE ShmBlockingProofs ---------------------------
(***************************************************************************)
(* What holds of ShmBlocking for every ring and every number of requests.  *)
(***************************************************************************)
EXTENDS ShmBlocking, ShmSegmentProofs

-----------------------------------------------------------------------------
(* Types and wake-ups.                                                     *)

LEMMA StepType == TypeOK /\ [Next]_vars => TypeOK'
<1> SUFFICES ASSUME TypeOK, [Next]_vars PROVE TypeOK'
  OBVIOUS
<1> USE DEF TypeOK, stats
<1>1. {"open", "attach", "loop", "lock", "write", "test", "waiting", "woken", "check", "done", "failed"}
        \subseteq ClientPC
  BY DEF ClientPC
<1>2. CASE Server
  BY <1>1, <1>2, ServerType DEF Server
<1>3. CASE (Open \/ Attach) /\ UNCHANGED stats
  BY <1>1, <1>3, ClientStartType
<1>4. CASE ClientLocks /\ UNCHANGED stats
  BY <1>1, <1>4, ClientLockType DEF ClientLocks
<1>5. CASE Wait("client") /\ UNCHANGED stats
  BY <1>1, <1>5, ClientWaitType
<1>6. CASE (ClientStop \/ Refuse) /\ UNCHANGED stats
  BY <1>1, <1>6
     DEF SegmentTypeOK, shared, ringVars, Goto, Procs, ClientStop, Refuse
<1>7. CASE ClientCompose /\ UNCHANGED stats
  <2>1. [seq |-> msg["client"].seq + 1, from |-> "client"] \in Frame
    BY DEF SegmentTypeOK, Frame, Procs
  <2> QED
    BY <1>1, <1>7, <2>1 DEF SegmentTypeOK, shared, ringVars, Goto, Procs, ClientCompose
<1>8. CASE Request /\ UNCHANGED stats
  <2>1. [seq |-> msg["client"].seq, from |-> "client"] \in Frame
    BY DEF SegmentTypeOK, Frame, Procs
  <2>2. CASE Fits
    <3>1. readPos' \in Slots /\ writePos' \in Slots /\ ring' \in [Slots -> Frame]
      BY <1>8, <2>1, <2>2, SuccInSlots DEF SegmentTypeOK, Procs, Request, Put
    <3>2. avail' \in [Procs -> BOOLEAN]
      BY <1>8, <2>2 DEF SegmentTypeOK, Procs, Request, Raised
    <3>3. /\ pc' \in [Procs -> ServerPC \union ClientPC]
          /\ pc'["server"] \in ServerPC
          /\ pc'["client"] \in ClientPC
      BY <1>1, <1>8, <2>2 DEF SegmentTypeOK, Procs, Request, Signalled, ServerPC
    <3> QED BY <1>8, <2>2, <3>1, <3>2, <3>3 DEF SegmentTypeOK, Procs, Request
  <2>3. CASE ~Fits
    BY <1>1, <1>8, <2>3 DEF SegmentTypeOK, ringVars, Procs, Request
  <2> QED BY <2>2, <2>3
<1>9. CASE ClientReceive /\ UNCHANGED stats
  BY <1>1, <1>9, SuccInSlots
     DEF SegmentTypeOK, ringVars, Goto, Procs, Nobody, ClientReceive, Get, Lowered
<1>10. CASE Count
  <2>1. ops' \in Nat /\ unanswered' \in Nat
    BY <1>10 DEF Count
  <2> QED
    BY <1>1, <1>10, <2>1 DEF SegmentTypeOK, shared, ringVars, Goto, Procs, Count
<1>11. CASE Environment /\ UNCHANGED stats
  BY <1>1, <1>11, EnvironmentType
<1>12. CASE UNCHANGED vars
  BY <1>12 DEF SegmentTypeOK, vars, segVars, shared, ringVars
<1> QED
  BY <1>2, <1>3, <1>4, <1>5, <1>6, <1>7, <1>8, <1>9, <1>10, <1>11, <1>12 DEF Next, Client

LEMMA InitType == Init => TypeOK
<1>1. NoFrame \in Frame
  BY DEF NoFrame, Frame, Procs
<1>2. 0 \in Slots
  BY FrameRingAssumption, SMT DEF Slots
<1>3. Init => SegmentTypeOK(ClientPC)
  <2> SUFFICES ASSUME Init PROVE SegmentTypeOK(ClientPC)
    OBVIOUS
  <2>1. pc["server"] = "create" /\ pc["client"] = "open" /\ pc \in [Procs -> {"create", "open"}]
    BY DEF Init, SegmentInit, Procs
  <2>2. {"create"} \subseteq ServerPC /\ {"open"} \subseteq ClientPC
    BY DEF ServerPC, ClientPC
  <2>3. pc \in [Procs -> ServerPC \union ClientPC]
    BY <2>1, <2>2
  <2> QED BY <1>1, <1>2, <2>1, <2>2, <2>3 DEF Init, SegmentInit, SegmentTypeOK, Nobody
<1> QED
  BY <1>3 DEF Init, TypeOK

(***************************************************************************)
(* The variables of segment, server and client keep their types, whatever  *)
(* the ring and whether or not the client waits for the setup.             *)
(***************************************************************************)
THEOREM TypeInv == Spec => []TypeOK
BY InitType, StepType, PTL DEF Spec

LEMMA StepWakeups == TypeOK /\ NoLostWakeup /\ [Next]_vars => NoLostWakeup'
<1> SUFFICES ASSUME TypeOK, NoLostWakeup, [Next]_vars PROVE NoLostWakeup'
  OBVIOUS
<1> USE DEF TypeOK, stats
<1>1. CASE Server
  BY <1>1, ServerWakeups DEF Server
<1>2. CASE Environment /\ UNCHANGED stats
  BY <1>2, EnvironmentWakeups
<1>3. CASE Client
  BY <1>3
     DEF SegmentTypeOK, NoLostWakeup, shared, ringVars, Goto, Procs, Client, ClientLocks, Lock, Wait,
         Open, Attach, ClientStop, ClientCompose, Request, Put, Raised, Signalled,
         ClientReceive, Get, Lowered, Refuse, Count
<1>4. CASE UNCHANGED vars
  BY <1>4 DEF NoLostWakeup, vars, segVars, shared
<1> QED BY <1>1, <1>2, <1>3, <1>4 DEF Next

(***************************************************************************)
(* No process sleeps on its condition variable with its flag up: a flag is *)
(* raised and its waiter signalled under one lock.  This holds for every   *)
(* start of the client, also in the middle of the setup.                   *)
(***************************************************************************)
THEOREM WakeupsArrive == Spec => []NoLostWakeup
<1>1. Init => NoLostWakeup
  BY DEF Init, SegmentInit, NoLostWakeup, Procs
<1> QED BY <1>1, InitType, StepType, StepWakeups, PTL DEF Spec

-----------------------------------------------------------------------------
(* The inductive invariant: the phase of the call, and what it says of the *)
(* client's numbers and counts.                                            *)

(* The numbers the client's messages carry. *)
Numbers ==
  /\ pc["client"] \in {"open", "attach", "loop"} => msg["client"].seq = ops
  /\ pc["client"] \in {"lock", "write", "check"} \union Asking => msg["client"].seq = ops + 1

(* Which calls have been counted without an answer. *)
Counted ==
  /\ unanswered = 0 \/ unanswered = 1
  /\ unanswered = 1 => Closed /\ pc["client"] \in {"loop", "lock", "write", "done"}
  /\ pc["client"] = "check" /\ msg["client"].from = "client" => Closed

Inductive == TypeOK /\ Started /\ Phase /\ SameCall /\ Numbers /\ Counted

LEMMA ServerStep == Inductive /\ Server => Inductive'
<1> SUFFICES ASSUME Inductive, Server PROVE Inductive'
  OBVIOUS
<1> USE DEF Inductive
<1>1. TypeOK'
  BY StepType DEF Next
<1>2. Started'
  BY ServerStarted DEF Server, TypeOK
<1>3. Phase' /\ SameCall'
  BY ServerPhase, SetupPhase, ServerSameCall DEF Server, TypeOK
<1>4. /\ UNCHANGED <<msg["client"], stats>>
      /\ pc'["client"] = pc["client"] \/ (pc["client"] = "waiting" /\ pc'["client"] = "woken")
      /\ Closed => Closed'
  BY DEF Server, Setup, Create, InitPositions, InitReady, Serve, ServerLoop, ServeLocks, Lock, Wait,
         ServerReceive, Get, ServerCheck, Reply, Signalled, FreeServer, Close, Remove,
         TypeOK, SegmentTypeOK, Goto, Procs, Closed
<1>5. Numbers' /\ Counted'
  BY <1>4 DEF Numbers, Counted, Asking, stats
<1> QED BY <1>1, <1>2, <1>3, <1>5

LEMMA ClientStep == StaggeredStart /\ Inductive /\ Client => Inductive'
<1> SUFFICES ASSUME StaggeredStart, Inductive, Client PROVE Inductive'
  OBVIOUS
<1> USE DEF Inductive, TypeOK, SegmentTypeOK, stats, shared, ringVars, Goto, Procs, Closed
<1>1. TypeOK'
  BY StepType DEF Next
<1>2. CASE (Open \/ Attach \/ ClientStop \/ ClientLocks \/ Wait("client") \/ Refuse) /\ UNCHANGED stats
  <2>1. /\ UNCHANGED <<avail, readPos, writePos, ring, msg, dropped, stores, ready, pc["server"]>>
        /\ pc'["client"] \in Asking <=> pc["client"] \in Asking
        /\ pc["client"] \notin Gone
    BY <1>2 DEF Open, Attach, ClientStop, ClientLocks, Lock, Wait, Refuse, Asking, Gone
  <2>2. Phase' /\ SameCall'
    BY <2>1, PhaseStable, SameCallStable
  <2>3. Started'
    BY <1>2, <2>1 DEF Started, Open, Attach, ClientStop, ClientLocks, Lock, Wait, Refuse
  <2>4. Numbers' /\ Counted'
    BY <1>2 DEF Numbers, Counted, Open, Attach, ClientStop, ClientLocks, Lock, Wait, Refuse, Asking
  <2> QED BY <1>1, <2>2, <2>3, <2>4
<1>3. CASE ClientCompose /\ UNCHANGED stats
  <2>1. Idle \/ (Shut /\ Empty)
    BY <1>3 DEF ClientCompose, Phase, Requested, Served, Answered, Refused, Shut, Asking, Gone
  <2>2. Phase' /\ SameCall'
    BY <1>3, <2>1 DEF ClientCompose, Phase, Idle, Shut, SameCall, Empty, Asking, Answering, Gone
  <2>3. Started' /\ Numbers' /\ Counted'
    BY <1>3 DEF ClientCompose, Started, Numbers, Counted, Asking
  <2> QED BY <1>1, <2>2, <2>3
<1>4. CASE Request /\ UNCHANGED stats
  <2>1. Idle \/ (Shut /\ Empty)
    BY <1>4 DEF Request, Phase, Requested, Served, Answered, Refused, Shut, Asking, Gone
  <2>2. Fits
    BY <2>1, EmptyHasRoom DEF Idle
  <2>3. pc'["server"] \in {pc["server"], "woken"} /\ (pc["server"] # "waiting" => UNCHANGED pc["server"])
    BY <1>4, <2>2 DEF Request, Signalled
  <2>4. ASSUME ready PROVE Phase'
    <3>1. ~Closed /\ Idle
      BY <2>1, <2>4 DEF Started, Shut
    <3>2. Requested' /\ ~Closed'
      BY <1>4, <2>2, <2>3, <2>4, <3>1
         DEF Request, Put, Raised, Idle, Requested, Holds, Empty, Asking, Answering
    <3> QED BY <3>2 DEF Phase
  <2>5. ASSUME ~ready PROVE Phase'
    <3>1. CASE Closed
      BY <1>4, <2>2, <2>3, <2>5, <3>1 DEF Request, Phase, Shut, Asking, Gone
    <3>2. CASE ~Closed
      BY <1>4, <2>2, <2>3, <2>5, <3>2 DEF Started, Request
    <3> QED BY <3>1, <3>2
  <2>6. Started' /\ Numbers' /\ Counted'
    BY <1>4, <2>2, <2>3 DEF Request, Put, Started, Numbers, Counted, Asking
  <2>7. SameCall'
    <3>1. ring'[readPos'].seq = msg["client"].seq
      BY <1>4, <2>1, <2>2 DEF Request, Put, Idle, Empty
    <3>2. UNCHANGED msg /\ (pc'["server"] \in Answering => pc["server"] \in Answering)
      BY <1>4, <2>3 DEF Request, Answering
    <3> QED BY <3>1, <3>2 DEF SameCall
  <2> QED BY <1>1, <2>4, <2>5, <2>6, <2>7
<1>5. CASE ClientReceive /\ UNCHANGED stats
  <2>1. Answered \/ Shut
    BY <1>5 DEF ClientReceive, Phase, Idle, Requested, Served, Refused
  <2>2. Phase'
    BY <1>5, <2>1, SuccDiffers
       DEF ClientReceive, Get, Lowered, Phase, Answered, Idle, Shut, Holds, Empty, Asking, Gone
  <2>3. Started'
    BY <1>5 DEF ClientReceive, Get, Started
  <2>4. msg'["client"].seq = msg["client"].seq
    BY <1>5 DEF ClientReceive, Get, SameCall, Asking
  <2>5. Numbers'
    BY <1>5, <2>4 DEF ClientReceive, Numbers, Asking
  <2>6. SameCall'
    <3>1. pc["server"] \notin Answering /\ pc'["server"] = pc["server"] /\ pc'["client"] \notin Asking
      BY <1>5, <2>1 DEF ClientReceive, Answered, Shut, Asking, Answering
    <3> QED BY <3>1 DEF SameCall
  <2>7. Counted'
    BY <1>5, <2>1 DEF ClientReceive, Get, Counted, Answered, Shut, Holds, Frame
  <2> QED BY <1>1, <2>2, <2>3, <2>5, <2>6, <2>7
<1>6. CASE Count
  <2>1. Phase' /\ SameCall'
    BY <1>6, PhaseStable, SameCallStable DEF Count, Asking, Gone
  <2>2. Started' /\ Numbers' /\ Counted'
    BY <1>6 DEF Count, Started, Numbers, Counted, Asking
  <2> QED BY <1>1, <2>1, <2>2
<1> QED BY <1>2, <1>3, <1>4, <1>5, <1>6 DEF Client

LEMMA StepInductive == StaggeredStart /\ Inductive /\ [Next]_vars => Inductive'
<1> SUFFICES ASSUME StaggeredStart, Inductive, [Next]_vars PROVE Inductive'
  OBVIOUS
<1>1. CASE Environment /\ UNCHANGED stats
  <2>1. TypeOK'
    BY <1>1, StepType DEF Inductive, Next
  <2>2. Started' /\ Phase' /\ SameCall'
    BY <1>1, EnvironmentPhase DEF Inductive, TypeOK
  <2>3. Numbers' /\ Counted'
    BY <1>1 DEF Inductive, Numbers, Counted, TypeOK, SegmentTypeOK, Environment, Expire, SpuriousWake,
                Goto, Procs, Closed, Asking, stats, shared
  <2> QED BY <2>1, <2>2, <2>3 DEF Inductive
<1>2. CASE UNCHANGED vars
  <2>1. TypeOK'
    BY <1>2, StepType DEF Inductive
  <2>2. Started' /\ Numbers' /\ Counted'
    BY <1>2 DEF Inductive, vars, segVars, shared, stats, Started, Numbers, Counted, Closed
  <2>3. Phase' /\ SameCall'
    BY <1>2, PhaseStable, SameCallStable DEF Inductive, vars, segVars, shared, ringVars, Closed
  <2> QED BY <2>1, <2>2, <2>3 DEF Inductive
<1> QED BY <1>1, <1>2, ServerStep, ClientStep DEF Next

LEMMA InitInductive == Init => Inductive
<1> SUFFICES ASSUME Init PROVE Inductive
  OBVIOUS
<1>1. Started /\ Numbers /\ Counted
  BY DEF Init, SegmentInit, Started, Numbers, Counted, Closed, Procs, NoFrame, Asking
<1>2. Idle /\ ~Closed /\ SameCall
  BY DEF Init, SegmentInit, Idle, SameCall, Closed, Procs, Empty, Asking, Answering
<1> QED BY <1>1, <1>2, InitType DEF Inductive, Phase

(***************************************************************************)
(* At every moment the call is in one of the six phases, and ring, flags   *)
(* and the client's numbers agree with it.                                 *)
(***************************************************************************)
THEOREM Invariant ==
  ASSUME StaggeredStart
  PROVE  Spec => []Inductive
BY InitInductive, StepInductive, PTL DEF Spec

(***************************************************************************)
(* A process whose flag is up finds its frame, and every frame finds room. *)
(***************************************************************************)
THEOREM TransferSuccess ==
  ASSUME StaggeredStart
  PROVE  Spec => []TransfersSucceed
<1>1. Inductive => TransfersSucceed
  BY PhaseTransfers DEF Inductive, TypeOK
<1> QED BY <1>1, Invariant, PTL

(***************************************************************************)
(* Server and client never both wait with both flags down, unless the      *)
(* server has refused a request.                                           *)
(***************************************************************************)
THEOREM SomebodyCalled ==
  ASSUME StaggeredStart
  PROVE  Spec => []NoMutualWait
<1>1. Inductive => NoMutualWait
  BY DEF Inductive, Phase, Idle, Requested, Served, Answered, Refused, Shut, Closed, Asking, Answering,
         NoMutualWait, Waiting
<1> QED BY <1>1, Invariant, PTL

(***************************************************************************)
(* The message a client counts carries the number of its current call.     *)
(***************************************************************************)
THEOREM FreshAnswer ==
  ASSUME StaggeredStart
  PROVE  Spec => []NoStaleAnswer
<1>1. Inductive => NoStaleAnswer
  BY DEF Inductive, Numbers, NoStaleAnswer
<1> QED BY <1>1, Invariant, PTL

(***************************************************************************)
(* At most one call is counted without an answer, and only once the server *)
(* has lowered ready.                                                      *)
(***************************************************************************)
THEOREM UnansweredAtShutdown ==
  ASSUME StaggeredStart
  PROVE  Spec => []UnansweredOnlyAtShutdown
<1>1. Inductive => UnansweredOnlyAtShutdown
  BY DEF Inductive, Counted, Started, UnansweredOnlyAtShutdown
<1> QED BY <1>1, Invariant, PTL

-----------------------------------------------------------------------------
(* The refinement.                                                         *)

LEMMA CallValues ==
  /\ pc["client"] \in Asking =>
       Call = IF ~Empty /\ ring[readPos].from = "server" THEN "answered" ELSE "sent"
  /\ pc["client"] = "check" =>
       Call = IF msg["client"].from = "server" THEN "answered" ELSE "sent"
  /\ pc["client"] \notin {"check"} \union Asking => Call = "none"
BY DEF Call, Asking

LEMMA NextCallValues ==
  /\ pc'["client"] \in Asking =>
       Call' = IF ~Empty' /\ ring'[readPos'].from = "server" THEN "answered" ELSE "sent"
  /\ pc'["client"] = "check" =>
       Call' = IF msg'["client"].from = "server" THEN "answered" ELSE "sent"
  /\ pc'["client"] \notin {"check"} \union Asking => Call' = "none"
BY DEF Call, Asking

(* What a phase says of the call that waits for its answer. *)
LEMMA AskingCall ==
  ASSUME Inductive, pc["client"] \in Asking
  PROVE  /\ Call = "answered" <=> Holds("server")
         /\ Call \in {"sent", "answered"}
<1> USE DEF Inductive, TypeOK, SegmentTypeOK
<1>1. Holds("server") => ~Empty /\ ring[readPos].from = "server"
  BY SuccDiffers DEF Holds, Empty
<1>2. Holds("client") => ring[readPos].from = "client"
  BY DEF Holds
<1>3. Empty \/ Holds("client") \/ Holds("server")
  BY DEF Phase, Idle, Requested, Served, Answered, Refused, Shut
<1> QED BY <1>1, <1>2, <1>3, CallValues

LEMMA ServerEcho ==
  ASSUME Inductive, Inductive', Server
  PROVE  [Echo!Next]_(Echo!vars)
<1> USE DEF Echo!vars, Echo!Next, Closed, Goto, Procs, stats, shared, ringVars,
            Inductive, TypeOK, SegmentTypeOK
<1>1. CASE Setup \/ ServerLoop \/ ServeLocks \/ Wait("server") \/ ServerCheck \/ Remove
          \/ Lock("server", "close_lock", "close")
  <2>1. CASE Setup
    <3>1. pc["client"] = "open" /\ pc'["client"] = "open" /\ pc'["server"] \notin {"remove", "done"}
            /\ pc["server"] \notin {"remove", "done"}
      BY <2>1 DEF Setup, Create, InitPositions, InitReady, Started
    <3>2. Call = "none" /\ Call' = "none"
      BY <3>1, CallValues, NextCallValues DEF Asking
    <3>3. UNCHANGED <<ops, unanswered>>
      BY DEF Server
    <3> QED BY <3>1, <3>2, <3>3
  <2>2. CASE ServerLoop \/ ServeLocks \/ Wait("server") \/ ServerCheck \/ Remove
             \/ Lock("server", "close_lock", "close")
    BY <2>2 DEF ServerLoop, ServeLocks, Lock, Wait, ServerCheck, Remove, Call, Empty, Server
  <2> QED BY <1>1, <2>1, <2>2
<1>2. CASE ServerReceive
  <2>1. Requested
    BY <1>2 DEF ServerReceive, Phase, Idle, Served, Answered, Refused, Shut
  <2>2. Empty'
    BY <1>2, <2>1, SuccDiffers DEF ServerReceive, Requested, Holds, Get, Empty
  <2>3. Call = "sent"
    BY <2>1, AskingCall DEF Requested, Holds
  <2>4. Call' = "sent"
    BY <1>2, <2>1, <2>2, NextCallValues DEF ServerReceive, Requested, Asking
  <2> QED BY <1>2, <2>3, <2>4 DEF ServerReceive, Server
<1>3. CASE Reply
  <2>1. Served
    <3>1. pc["server"] = "reply"
      BY <1>3 DEF Reply
    <3> QED BY <3>1 DEF Phase, Idle, Requested, Answered, Refused, Shut, Answering
  <2>2. Call = "sent"
    BY <2>1, CallValues DEF Served
  <2>3. Call' = "answered"
    BY <1>3, <2>1, EmptyHasRoom, SuccDiffers, NextCallValues
       DEF Reply, Put, Served, Signalled, Empty, Asking
  <2> QED BY <1>3, <2>1, <2>2, <2>3 DEF Reply, Signalled, Echo!Answer, Served, Asking, Server
<1>4. CASE Close
  <2>1. Call' = Call
    BY <1>4, CallValues, NextCallValues DEF Close, Signalled, Empty, Asking
  <2> QED BY <1>4, <2>1 DEF Close, Signalled, Echo!Close, Server
<1> QED BY <1>1, <1>2, <1>3, <1>4 DEF Server, Serve, FreeServer

LEMMA ClientEcho ==
  ASSUME Inductive, Inductive', Client
  PROVE  [Echo!Next]_(Echo!vars)
<1> USE DEF Echo!vars, Echo!Next, Closed, Goto, Procs, stats, shared, ringVars,
            Inductive, TypeOK, SegmentTypeOK
<1>1. CASE (Open \/ Attach \/ ClientCompose \/ Lock("client", "lock", "write")) /\ UNCHANGED stats
  BY <1>1, CallValues, NextCallValues DEF Open, Attach, ClientCompose, Lock, Asking, Echo!Leave
<1>2. CASE (Lock("client", "woken", "test") \/ Wait("client")) /\ UNCHANGED stats
  BY <1>2, CallValues, NextCallValues DEF Lock, Wait, Asking, Empty
<1>3. CASE ClientStop /\ UNCHANGED stats
  BY <1>3, CallValues, NextCallValues DEF ClientStop, Asking, Echo!Leave
<1>4. CASE Request /\ UNCHANGED stats
  <2>1. Call = "none"
    BY <1>4, CallValues DEF Request, Asking
  <2>2. CASE pc'["client"] = "test"
    <3>1. Empty
      BY <1>4 DEF Request, Phase, Requested, Served, Answered, Refused, Shut, Idle, Asking, Gone
    <3>2. ring'[readPos'].from = "client"
      BY <1>4, <2>2, <3>1 DEF Request, Put, Empty
    <3>3. Call' = "sent"
      BY <2>2, <3>2, NextCallValues DEF Asking
    <3> QED BY <1>4, <2>1, <2>2, <3>3 DEF Request, Signalled, Echo!Send
  <2>3. CASE pc'["client"] = "done"
    BY <1>4, <2>1, <2>3, NextCallValues DEF Request, Signalled, Echo!Leave, Asking
  <2> QED BY <1>4, <2>2, <2>3 DEF Request
<1>5. CASE ClientReceive /\ UNCHANGED stats
  <2>1. CASE Empty
    <3>1. Call = "sent" /\ Closed
      BY <1>5, <2>1, CallValues, SuccDiffers
         DEF ClientReceive, Asking, Phase, Idle, Requested, Served, Answered, Refused, Shut, Holds, Empty
    <3> QED BY <1>5, <2>1, <3>1, NextCallValues DEF ClientReceive, Echo!Leave, Asking
  <2>2. CASE ~Empty
    <3>1. Call' = Call
      BY <1>5, <2>2, CallValues, NextCallValues DEF ClientReceive, Get, Asking
    <3> QED BY <1>5, <2>2, <3>1 DEF ClientReceive
  <2> QED BY <2>1, <2>2
<1>6. CASE Refuse /\ UNCHANGED stats
  BY <1>6, CallValues, NextCallValues DEF Refuse, Asking, Counted, Frame, Echo!Leave
<1>7. CASE Count
  <2>1. msg["client"].from \in Procs
    BY DEF Frame
  <2>2. Call' = "none"
    BY <1>7, NextCallValues DEF Count, Asking
  <2>3. CASE msg["client"].from = "server"
    BY <1>7, <2>2, <2>3, CallValues DEF Count, Echo!Complete
  <2>4. CASE msg["client"].from = "client"
    BY <1>7, <2>2, <2>4, CallValues DEF Count, Echo!CompleteUnanswered, Counted
  <2> QED BY <2>1, <2>3, <2>4
<1> QED BY <1>1, <1>2, <1>3, <1>4, <1>5, <1>6, <1>7 DEF Client, ClientLocks

(***************************************************************************)
(* Every behaviour of the transport is a behaviour of the echo service.    *)
(***************************************************************************)
THEOREM EchoRefinement ==
  ASSUME StaggeredStart
  PROVE  Spec => EchoSpec
<1>1. Init => Echo!Init
  BY CallValues DEF Init, SegmentInit, Echo!Init, Closed, Procs, Asking
<1>2. Inductive /\ Inductive' /\ [Next]_vars => [Echo!Next]_(Echo!vars)
  <2> SUFFICES ASSUME Inductive, Inductive', [Next]_vars PROVE [Echo!Next]_(Echo!vars)
    OBVIOUS
  <2>1. CASE Environment /\ UNCHANGED stats
    <3>1. Call' = Call
      BY <2>1, CallValues, NextCallValues
         DEF Environment, Expire, SpuriousWake, Goto, Procs, Asking, Empty, shared, ringVars,
             Inductive, TypeOK, SegmentTypeOK
    <3> QED
      BY <2>1, <3>1
         DEF Echo!vars, Environment, Expire, SpuriousWake, Goto, Procs, Closed, shared, ringVars, stats,
             Inductive, TypeOK, SegmentTypeOK
  <2>2. CASE UNCHANGED vars
    BY <2>2 DEF vars, segVars, shared, ringVars, stats, Echo!vars, Call, Closed, Empty
  <2> QED BY <2>1, <2>2, ServerEcho, ClientEcho DEF Next
<1> QED BY <1>1, <1>2, Invariant, PTL DEF Spec, EchoSpec, Echo!Spec
=============================================================================

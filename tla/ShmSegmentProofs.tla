--------------------------- MODULE ShmSegmentProofs ---------------------------
(***************************************************************************)
(* What holds of the segment and its server whatever the client is, for    *)
(* every ring: the lemmas that ShmBlockingProofs and ShmNonblockingProofs  *)
(* share.                                                                  *)
(***************************************************************************)
EXTENDS ShmSegment, TLAPS

LEMMA SuccInSlots == \A i \in Slots : Succ(i) \in Slots
BY FrameRingAssumption, SMT DEF Slots, Succ

LEMMA SuccDiffers == \A i \in Slots : Succ(i) # i
BY FrameRingAssumption, SMT DEF Slots, Succ

LEMMA EmptyHasRoom == readPos \in Slots /\ Empty => Fits
BY FrameRingAssumption, SMT DEF Slots, Empty, Fits, Free

-----------------------------------------------------------------------------
(* The phases of a call.                                                   *)

(* The client has put its request into the ring and looks for the answer.  *)
Asking == {"test", "waiting", "woken"}

(* The server has taken the request out of the ring. *)
Answering == {"check", "relock", "reply"}

(* The client has left, at most its last request behind it. *)
Gone == {"unlock", "done"}

(* The ring holds one frame, sent by p. *)
Holds(p) ==
  /\ writePos = Succ(readPos)
  /\ ring[readPos].from = p

Idle ==
  /\ pc["client"] \notin Asking
  /\ pc["server"] \notin Answering
  /\ Empty
  /\ ~avail["server"]
  /\ ~avail["client"]
  /\ ~dropped

Requested ==
  /\ pc["client"] \in Asking
  /\ pc["server"] \notin Answering
  /\ Holds("client")
  /\ avail["server"]
  /\ ~avail["client"]
  /\ ~dropped

Served ==
  /\ pc["client"] \in Asking
  /\ pc["server"] \in Answering
  /\ Empty
  /\ ~avail["server"]
  /\ ~avail["client"]
  /\ ~dropped

Answered ==
  /\ pc["client"] \in Asking
  /\ pc["server"] \notin Answering
  /\ Holds("server")
  /\ ~avail["server"]
  /\ avail["client"]
  /\ ~dropped

Refused ==
  /\ pc["client"] \in Asking
  /\ pc["server"] \notin Answering
  /\ Empty
  /\ ~avail["server"]
  /\ ~avail["client"]
  /\ dropped

(* Whatever the shutdown has met, a client that asks is called.            *)
Shut ==
  /\ Closed
  /\ pc["client"] \in Asking =>
       avail["client"] /\ ((Empty /\ dropped) \/ Holds("client") \/ Holds("server"))
  /\ pc["client"] \notin Asking \union Gone => Empty

Phase == (~Closed /\ (Idle \/ Requested \/ Served \/ Answered \/ Refused)) \/ Shut

(* The frame the client waits for, or the server works on, is of the       *)
(* client's current call.                                                  *)
SameCall ==
  /\ pc["client"] \in Asking /\ ~Empty => ring[readPos].seq = msg["client"].seq
  /\ pc["server"] \in Answering => msg["server"].seq = msg["client"].seq

(* A client that starts after the setup finds it done, and ready is up     *)
(* from then on until the server closes.                                   *)
Started ==
  /\ pc["server"] \in {"create", "init"} <=> stores # {}
  /\ stores # {} => pc["client"] = "open"
  /\ pc["client"] \notin {"open", "attach", "failed"} => (ready <=> ~Closed)
  /\ Closed => ~ready

-----------------------------------------------------------------------------
(* Types.                                                                  *)

LEMMA ServerType ==
  ASSUME NEW C, "woken" \in C, SegmentTypeOK(C), Setup \/ Serve \/ FreeServer
  PROVE  SegmentTypeOK(C)'
<1> USE DEF SegmentTypeOK, shared, ringVars, Goto, Procs
<1>1. CASE Setup
  <2>1. 0 \in Slots
    BY FrameRingAssumption, SMT DEF Slots
  <2>2. CASE Create
    BY <2>2 DEF Create, ServerPC
  <2>3. CASE InitPositions
    BY <2>1, <2>3 DEF InitPositions, ServerPC
  <2>4. CASE InitReady
    BY <2>4 DEF InitReady, ServerPC
  <2> QED BY <1>1, <2>2, <2>3, <2>4 DEF Setup
<1>2. CASE ServerLoop \/ ServeLocks \/ Wait("server") \/ ServerCheck
  BY <1>2 DEF ServerLoop, ServeLocks, Lock, Wait, ServerCheck, ServerPC
<1>3. CASE ServerReceive
  <2>1. UNCHANGED <<segment, ready, expired, stores, dropped>> /\ mutex' = Nobody
    BY <1>3 DEF ServerReceive
  <2>2. /\ pc' = [pc EXCEPT !["server"] = "loop"] \/ pc' = [pc EXCEPT !["server"] = "check"]
        /\ "loop" \in ServerPC /\ "check" \in ServerPC /\ "server" # "client"
    BY <1>3 DEF ServerReceive, ServerPC
  <2>3. avail' \in [Procs -> BOOLEAN]
    BY <1>3 DEF ServerReceive, Lowered
  <2>4. readPos' \in Slots /\ writePos' \in Slots /\ ring' \in [Slots -> Frame]
    BY <1>3, SuccInSlots DEF ServerReceive, Get
  <2>5. msg' \in [Procs -> Frame]
    BY <1>3 DEF ServerReceive, Get
  <2>6. /\ pc' \in [Procs -> ServerPC \union C]
        /\ pc'["server"] \in ServerPC
        /\ pc'["client"] \in C
    BY <2>2
  <2> QED BY <2>1, <2>3, <2>4, <2>5, <2>6
<1>4. CASE Reply
  <2>1. [seq |-> msg["server"].seq, from |-> "server"] \in Frame
    BY DEF Frame
  <2>2. CASE Fits
    <3>1. readPos' \in Slots /\ writePos' \in Slots /\ ring' \in [Slots -> Frame]
      BY <1>4, <2>1, <2>2, SuccInSlots DEF Reply, Put
    <3>2. avail' \in [Procs -> BOOLEAN]
      BY <1>4, <2>2 DEF Reply, Raised
    <3>3. /\ pc' \in [Procs -> ServerPC \union C]
          /\ pc'["server"] \in ServerPC
          /\ pc'["client"] \in C
      BY <1>4, <2>2 DEF Reply, Signalled, ServerPC
    <3> QED BY <1>4, <2>2, <3>1, <3>2, <3>3 DEF Reply
  <2>3. CASE ~Fits
    BY <1>4, <2>3 DEF Reply, ServerPC
  <2> QED BY <2>2, <2>3
<1>5. CASE FreeServer
  BY <1>5 DEF FreeServer, Lock, Close, Remove, Raised, Signalled, ServerPC
<1> QED BY <1>1, <1>2, <1>3, <1>4, <1>5 DEF Serve

LEMMA EnvironmentType ==
  ASSUME NEW C, "woken" \in C, SegmentTypeOK(C), Environment
  PROVE  SegmentTypeOK(C)'
<1> USE DEF SegmentTypeOK, shared, ringVars, Goto, Procs
<1>1. CASE \E p \in Procs : Expire(p)
  <2>1. expired' \in [Procs -> BOOLEAN]
    BY <1>1 DEF Expire
  <2> QED BY <1>1, <2>1 DEF Expire
<1>2. CASE \E p \in Procs : SpuriousWake(p)
  BY <1>2 DEF SpuriousWake, ServerPC
<1> QED BY <1>1, <1>2 DEF Environment

LEMMA ClientLockType ==
  ASSUME NEW C, NEW from, NEW to \in C, SegmentTypeOK(C), Lock("client", from, to)
  PROVE  SegmentTypeOK(C)'
BY DEF SegmentTypeOK, shared, ringVars, Goto, Procs, Lock, ServerPC

LEMMA ClientWaitType ==
  ASSUME NEW C, "waiting" \in C, SegmentTypeOK(C), Wait("client")
  PROVE  SegmentTypeOK(C)'
BY DEF SegmentTypeOK, shared, ringVars, Goto, Procs, Wait, ServerPC

LEMMA ClientMoveType ==
  ASSUME NEW C, NEW to \in C, SegmentTypeOK(C), pc' = [pc EXCEPT !["client"] = to],
         UNCHANGED <<shared, msg, expired, stores, dropped>>
  PROVE  SegmentTypeOK(C)'
<1>1. /\ pc' \in [Procs -> ServerPC \union C]
      /\ pc'["server"] \in ServerPC
      /\ pc'["client"] \in C
  BY DEF SegmentTypeOK, Procs
<1> QED BY <1>1 DEF SegmentTypeOK, shared, ringVars

LEMMA ClientStartType ==
  ASSUME NEW C, {"attach", "failed", "loop"} \subseteq C, SegmentTypeOK(C), Open \/ Attach
  PROVE  SegmentTypeOK(C)'
<1>1. PICK to \in {"attach", "failed", "loop"} : pc' = [pc EXCEPT !["client"] = to]
  BY DEF Open, Attach, Goto
<1>2. UNCHANGED <<shared, msg, expired, stores, dropped>> /\ to \in C
  BY DEF Open, Attach
<1> QED BY <1>1, <1>2, ClientMoveType

-----------------------------------------------------------------------------
(* Wake-ups.                                                               *)

LEMMA ServerWakeups ==
  ASSUME NEW C, SegmentTypeOK(C), NoLostWakeup, Setup \/ Serve \/ FreeServer
  PROVE  NoLostWakeup'
<1> USE DEF SegmentTypeOK, NoLostWakeup, shared, ringVars, Goto, Procs
<1>1. CASE Setup
  BY <1>1 DEF Setup, Create, InitPositions, InitReady
<1>2. CASE ServerLoop \/ ServeLocks \/ Wait("server") \/ ServerCheck
  BY <1>2 DEF ServerLoop, ServeLocks, Lock, Wait, ServerCheck
<1>3. CASE ServerReceive
  BY <1>3 DEF ServerReceive, Get, Lowered
<1>4. CASE Reply
  BY <1>4 DEF Reply, Put, Raised, Signalled
<1>5. CASE FreeServer
  BY <1>5 DEF FreeServer, Lock, Close, Remove, Raised, Signalled
<1> QED BY <1>1, <1>2, <1>3, <1>4, <1>5 DEF Serve

LEMMA EnvironmentWakeups ==
  ASSUME NEW C, SegmentTypeOK(C), NoLostWakeup, Environment
  PROVE  NoLostWakeup'
BY DEF SegmentTypeOK, NoLostWakeup, shared, ringVars, Goto, Procs, Environment, Expire, SpuriousWake

-----------------------------------------------------------------------------
(* Phases.                                                                 *)

LEMMA PhaseStable ==
  ASSUME Phase,
         UNCHANGED <<avail, readPos, writePos, ring, dropped>>,
         pc'["client"] \in Asking <=> pc["client"] \in Asking,
         pc["client"] \in Gone => pc'["client"] \in Gone,
         pc'["server"] \in Answering <=> pc["server"] \in Answering,
         Closed' <=> Closed
  PROVE  Phase'
BY DEF Phase, Idle, Requested, Served, Answered, Refused, Shut, Holds, Empty

LEMMA ServerPhase ==
  ASSUME NEW C, SegmentTypeOK(C), Started, Phase, Serve \/ FreeServer
  PROVE  Phase'
<1> USE DEF SegmentTypeOK, shared, ringVars, Goto, Procs, Asking, Answering, Gone, Closed
<1>1. CASE ServerLoop \/ ServeLocks \/ Wait("server") \/ Lock("server", "close_lock", "close") \/ Remove
  BY <1>1, PhaseStable
     DEF ServerLoop, ServeLocks, Lock, Wait, Remove
<1>2. CASE ServerReceive
  <2>1. Requested
    BY <1>2 DEF ServerReceive, Phase, Idle, Served, Answered, Refused, Shut
  <2>2. Served'
    BY <1>2, <2>1, SuccDiffers DEF ServerReceive, Requested, Served, Holds, Get, Lowered, Empty
  <2> QED BY <1>2, <2>2 DEF Phase, ServerReceive
<1>3. CASE ServerCheck
  <2>1. Served
    BY <1>3 DEF ServerCheck, Phase, Idle, Requested, Answered, Refused, Shut
  <2>2. Served' \/ Refused'
    BY <1>3, <2>1 DEF ServerCheck, Served, Refused, Empty
  <2> QED BY <1>3, <2>2 DEF Phase, ServerCheck
<1>4. CASE Reply
  <2>1. Served
    BY <1>4 DEF Reply, Phase, Idle, Requested, Answered, Refused, Shut
  <2>2. Answered'
    BY <1>4, <2>1, EmptyHasRoom DEF Reply, Served, Answered, Holds, Put, Raised, Signalled, Empty
  <2> QED BY <1>4, <2>2 DEF Phase, Reply
<1>5. CASE Close
  <2>1. Idle \/ Requested \/ Answered \/ Refused
    BY <1>5 DEF Close, Phase, Served, Shut
  <2>2. pc'["client"] \in Asking <=> pc["client"] \in Asking
    BY <1>5 DEF Close, Signalled
  <2>3. Shut'
    BY <1>5, <2>1, <2>2 DEF Close, Idle, Requested, Answered, Refused, Shut, Holds, Raised, Empty
  <2> QED BY <2>3 DEF Phase
<1> QED BY <1>1, <1>2, <1>3, <1>4, <1>5 DEF Serve, FreeServer

(* During the setup the client is outside and the ring empty. *)
LEMMA SetupPhase ==
  ASSUME NEW C, SegmentTypeOK(C), Started, Phase, Setup
  PROVE  Phase'
<1> USE DEF SegmentTypeOK, shared, ringVars, Goto, Procs, Asking, Answering, Gone, Closed
<1>1. pc["client"] = "open" /\ pc["server"] \in {"create", "init"}
  BY DEF Started, Setup, Create, InitPositions, InitReady
<1>2. Idle
  BY <1>1 DEF Phase, Requested, Served, Answered, Refused, Shut
<1>3. Idle' /\ ~Closed'
  BY <1>1, <1>2 DEF Idle, Empty, Setup, Create, InitPositions, InitReady
<1> QED BY <1>3 DEF Phase

LEMMA SameCallStable ==
  ASSUME SameCall,
         UNCHANGED <<readPos, writePos, ring, msg>>,
         pc'["client"] \in Asking => pc["client"] \in Asking,
         pc'["server"] \in Answering => pc["server"] \in Answering
  PROVE  SameCall'
BY DEF SameCall, Empty

LEMMA ServerSameCall ==
  ASSUME NEW C, SegmentTypeOK(C), Started, Phase, SameCall, Setup \/ Serve \/ FreeServer
  PROVE  SameCall'
<1> USE DEF SegmentTypeOK, shared, ringVars, Goto, Procs, Asking, Answering
<1>1. CASE ServerLoop \/ ServeLocks \/ Wait("server") \/ FreeServer \/ ServerCheck
  BY <1>1, SameCallStable
     DEF ServerLoop, ServeLocks, Lock, Wait, ServerCheck, FreeServer, Close, Signalled, Remove
<1>2. CASE Setup
  <2>1. pc'["client"] = "open" /\ pc'["server"] \in {"init", "loop"}
    BY <1>2 DEF Started, Setup, Create, InitPositions, InitReady
  <2> QED BY <2>1 DEF SameCall
<1>3. CASE ServerReceive
  <2>1. Requested
    BY <1>3 DEF ServerReceive, Phase, Idle, Served, Answered, Refused, Shut, Closed
  <2>2. Empty' /\ ~Empty
    BY <1>3, <2>1, SuccDiffers DEF ServerReceive, Requested, Holds, Get, Empty
  <2>3. msg'["server"] = ring[readPos] /\ UNCHANGED msg["client"]
    BY <1>3, <2>2 DEF ServerReceive, Get
  <2> QED BY <2>1, <2>2, <2>3 DEF SameCall, Requested
<1>4. CASE Reply
  <2>1. Served
    BY <1>4 DEF Reply, Phase, Idle, Requested, Answered, Refused, Shut, Closed
  <2>2. ring'[readPos'].seq = msg["server"].seq
    BY <1>4, <2>1, EmptyHasRoom DEF Reply, Served, Put, Empty
  <2>3. UNCHANGED msg /\ pc'["server"] = "loop" /\ msg["server"].seq = msg["client"].seq
    BY <1>4 DEF Reply, SameCall
  <2> QED BY <2>2, <2>3 DEF SameCall
<1> QED BY <1>1, <1>2, <1>3, <1>4 DEF Serve

LEMMA ServerStarted ==
  ASSUME NEW C, SegmentTypeOK(C), Started, Setup \/ Serve \/ FreeServer
  PROVE  Started'
<1> USE DEF SegmentTypeOK, Started, shared, ringVars, Goto, Procs, Closed
<1>1. CASE Setup
  BY <1>1 DEF Setup, Create, InitPositions, InitReady
<1>2. CASE ServerLoop \/ ServeLocks \/ Wait("server") \/ ServerCheck \/ ServerReceive
  BY <1>2 DEF ServerLoop, ServeLocks, Lock, Wait, ServerCheck, ServerReceive, Get
<1>3. CASE Reply
  BY <1>3 DEF Reply, Put, Raised, Signalled
<1>4. CASE FreeServer
  BY <1>4 DEF FreeServer, Lock, Close, Remove, Raised, Signalled
<1> QED BY <1>1, <1>2, <1>3, <1>4 DEF Serve

LEMMA EnvironmentPhase ==
  ASSUME NEW C, SegmentTypeOK(C), Started, Phase, Environment
  PROVE  Started' /\ Phase' /\ (SameCall => SameCall')
<1> USE DEF SegmentTypeOK, shared, ringVars, Goto, Procs, Environment, Expire, SpuriousWake, Closed
<1>1. Started'
  BY DEF Started
<1>2. Phase'
  BY PhaseStable DEF Asking, Answering, Gone
<1>3. SameCall => SameCall'
  BY SameCallStable DEF Asking, Answering
<1> QED BY <1>1, <1>2, <1>3

(* What the phases say of the ring. *)
LEMMA PhaseTransfers ==
  ASSUME NEW C, SegmentTypeOK(C), Phase
  PROVE  TransfersSucceed
<1>1. readPos \in Slots
  BY DEF SegmentTypeOK
<1>2. pc["server"] = "test" /\ avail["server"] => ~Empty
  BY <1>1, SuccDiffers DEF Phase, Idle, Requested, Served, Answered, Refused, Shut, Closed, Holds, Empty
<1>3. pc["client"] = "test" /\ avail["client"] => ~Empty \/ dropped
  BY <1>1, SuccDiffers DEF Phase, Idle, Requested, Served, Answered, Refused, Shut, Holds, Empty, Asking
<1>4. pc["server"] = "reply" \/ pc["client"] = "write" => Empty
  BY DEF Phase, Idle, Requested, Served, Answered, Refused, Shut, Closed, Asking, Answering, Gone
<1> QED BY <1>1, <1>2, <1>3, <1>4, EmptyHasRoom DEF TransfersSucceed, Procs
=============================================================================

----------------------------- MODULE LfshmProofs -----------------------------
(***************************************************************************)
(* What holds of Lfshm for every ring, every width of the futex words and  *)
(* every number of requests.                                               *)
(***************************************************************************)
EXTENDS Lfshm, TLAPS

-----------------------------------------------------------------------------
(* Types.                                                                  *)

LEMMA SuccInSlots == \A i \in Slots : Succ(i) \in Slots
BY FrameRingAssumption, SMT DEF Slots, Succ

LEMMA IncInRange == \A n \in 0..(FutexMod - 1) : Inc(n) \in 0..(FutexMod - 1)
BY LfshmAssumption, SMT DEF Inc

(***************************************************************************)
(* A process moves between the control points of its own program.          *)
(***************************************************************************)
PCOf(p) == IF p = "server" THEN ServerPC ELSE ClientPC

LEMMA GotoType ==
  ASSUME TypeOK, NEW p \in Procs, NEW from, NEW to \in PCOf(p), Goto(p, from, to)
  PROVE  /\ pc' \in [Procs -> ServerPC \union ClientPC]
         /\ pc'["server"] \in ServerPC
         /\ pc'["client"] \in ClientPC
BY DEF TypeOK, Goto, PCOf, Procs

LEMMA CommonType ==
  ASSUME TypeOK, NEW p \in Procs, Common(p)
  PROVE  TypeOK'
<1> USE DEF shared, local, stats
<1> DEFINE D == {"check", "load", "recheck", "wait", "asleep", "read", "copy", "consume",
                 "clear", "reserve", "fill", "publish", "set", "bump", "wake"}
<1>1. D \subseteq PCOf(p) /\ "loop" \in PCOf(p)
  BY DEF PCOf, ServerPC, ClientPC, Waiting, Reading, Writing, Signalling
<1>2. CASE Check(p) \/ Recheck(p) \/ FutexWait(p)
  <2>1. PICK from, to \in PCOf(p) : Goto(p, from, to)
    BY <1>1, <1>2 DEF Check, Recheck, FutexWait
  <2>2. QED BY <1>2, <2>1, GotoType DEF TypeOK, Check, Recheck, FutexWait
<1>3. CASE Load(p)
  BY <1>1, <1>3, GotoType DEF TypeOK, Load
<1>4. CASE Read(p) \/ Reserve(p)
  BY <1>1, <1>4, GotoType DEF TypeOK, Read, Reserve
<1>5. CASE Copy(p)
  <2>1. PICK from, to \in PCOf(p) : Goto(p, from, to)
    BY <1>1, <1>5 DEF Copy, AfterFailedRead
  <2>2. msg' \in [Procs -> Frame]
    BY <1>5 DEF TypeOK, Copy
  <2>3. QED BY <1>5, <2>1, <2>2, GotoType DEF TypeOK, Copy
<1>6. CASE Consume(p)
  BY <1>1, <1>6, GotoType, SuccInSlots DEF TypeOK, Consume
<1>7. CASE Clear(p)
  <2>1. AfterClear(p) \in PCOf(p)
    BY DEF AfterClear, PCOf, ServerPC, ClientPC, Writing
  <2>2. QED BY <2>1, <1>7, GotoType DEF TypeOK, Clear
<1>8. CASE Fill(p)
  <2>1. PICK from, to \in PCOf(p) : Goto(p, from, to)
    BY <1>1, <1>8 DEF Fill, AfterFailedWrite, PCOf, ClientPC
  <2>2. [seq |-> msg[p].seq, from |-> p] \in Frame
    BY DEF TypeOK, Frame
  <2>3. ring' \in [Slots -> Frame] /\ pos' \in [Procs -> Slots]
    BY <1>8, <2>2 DEF TypeOK, Fill
  <2>4. QED BY <1>8, <2>1, <2>3, GotoType DEF TypeOK, Fill
<1>9. CASE Publish(p)
  BY <1>1, <1>9, GotoType, SuccInSlots DEF TypeOK, Publish
<1>10. CASE Raise(p, Other(p), "set", "bump")
  BY <1>1, <1>10, GotoType DEF TypeOK, Raise
<1>11. CASE Bump(p, Other(p), "bump", "wake")
  BY <1>1, <1>11, GotoType, IncInRange DEF TypeOK, Bump
<1>12. CASE Wake(p, Other(p), "wake", AfterSignal(p))
  <2>1. AfterSignal(p) \in PCOf(p)
    BY DEF AfterSignal, PCOf, ServerPC, ClientPC
  <2>2. \A r \in Procs : "check" \in PCOf(r)
    BY DEF PCOf, ServerPC, ClientPC, Waiting
  <2>3. QED BY <2>1, <2>2, <1>12 DEF TypeOK, Wake, PCOf, Procs
<1> QED
  BY <1>2, <1>3, <1>4, <1>5, <1>6, <1>7, <1>8, <1>9, <1>10, <1>11, <1>12
     DEF Common, Signal

LEMMA StepType == TypeOK /\ [Next]_vars => TypeOK'
<1> SUFFICES ASSUME TypeOK, [Next]_vars PROVE TypeOK'
  OBVIOUS
<1> USE DEF shared, local, stats
<1>1. CASE \E p \in Procs : Common(p)
  BY <1>1, CommonType
<1>2. CASE Create \/ InitReady \/ InitMessage \/ InitResponse \/ ServerLoop \/ CloseReady \/ Remove
  <2>1. PICK from, to \in ServerPC : Goto("server", from, to)
    BY <1>2 DEF Create, InitReady, InitMessage, InitResponse, ServerLoop, CloseReady, Remove,
                ServerPC, Setup, Waiting, Closing
  <2>2. QED
    BY <1>2, <2>1, GotoType
       DEF TypeOK, PCOf, Procs, Create, InitReady, InitMessage, InitResponse, ServerLoop, CloseReady, Remove
<1>3. CASE CloseSignals
  <2>1. Closing \subseteq ServerPC /\ "check" \in ServerPC /\ "check" \in ClientPC
    BY DEF ServerPC, ClientPC, Waiting
  <2>2. CASE \E q \in Procs, at, to \in Closing : Raise("server", q, at, to)
    BY <2>1, <2>2, GotoType DEF TypeOK, Raise, PCOf, Procs
  <2>3. CASE \E q \in Procs, at, to \in Closing : Bump("server", q, at, to)
    BY <2>1, <2>3, GotoType, IncInRange DEF TypeOK, Bump, PCOf, Procs
  <2>4. CASE Wake("server", "client", "close_wake", "self_set")
    BY <2>1, <2>4 DEF TypeOK, Wake, Procs, Closing
  <2>5. QED BY <1>3, <2>2, <2>3, <2>4 DEF CloseSignals, Closing, Procs
<1>4. CASE Open \/ Attach \/ ClientStop \/ PollReady
  <2>1. PICK from, to \in ClientPC : Goto("client", from, to)
    BY <1>4 DEF Open, Attach, ClientStop, PollReady, ClientPC, Waiting
  <2>2. QED
    BY <1>4, <2>1, GotoType DEF TypeOK, PCOf, Procs, Open, Attach, ClientStop, PollReady
<1>5. CASE ClientCompose
  <2>1. "reserve" \in ClientPC
    BY DEF ClientPC, Writing
  <2>2. msg' \in [Procs -> Frame]
    BY <1>5 DEF TypeOK, ClientCompose, Frame, Procs
  <2>3. QED BY <1>5, <2>1, <2>2, GotoType DEF TypeOK, ClientCompose, PCOf, Procs
<1>6. CASE Count
  <2>1. "loop" \in ClientPC
    BY DEF ClientPC
  <2>2. ops' \in Nat /\ unanswered' \in Nat
    BY <1>6 DEF TypeOK, Count
  <2>3. QED BY <1>6, <2>1, <2>2, GotoType DEF TypeOK, Count, PCOf, Procs
<1>7. CASE Environment
  <2>1. CASE \E p \in Procs : Expire(p)
    BY <2>1 DEF TypeOK, Expire
  <2>2. CASE \E p \in Procs : SpuriousWake(p)
    <3>1. "check" \in ServerPC /\ "check" \in ClientPC
      BY DEF ServerPC, ClientPC, Waiting
    <3>2. QED BY <2>2, <3>1, GotoType DEF TypeOK, SpuriousWake, PCOf
  <2>3. CASE UringFail
    <3>1. "read" \in ClientPC
      BY DEF ClientPC, Reading
    <3>2. QED BY <2>3, <3>1 DEF TypeOK, UringFail, Procs
  <2>4. QED BY <1>7, <2>1, <2>2, <2>3 DEF Environment
<1>8. CASE UNCHANGED vars
  BY <1>8 DEF TypeOK, vars
<1> QED
  BY <1>1, <1>2, <1>3, <1>4, <1>5, <1>6, <1>7, <1>8 DEF Next, Server, Client, Procs

LEMMA TypeInit == Init => TypeOK
<1> SUFFICES ASSUME Init PROVE TypeOK
  OBVIOUS
<1>1. 0 \in Slots /\ 0 \in 0..(FutexMod - 1)
  BY FrameRingAssumption, LfshmAssumption DEF Slots
<1>2. NoFrame \in Frame
  BY DEF NoFrame, Frame, Procs
<1>3. /\ pc \in [Procs -> ServerPC \union ClientPC]
      /\ pc["server"] \in ServerPC
      /\ pc["client"] \in ClientPC
  BY DEF Init, Procs, ServerPC, ClientPC, Setup
<1>4. QED BY <1>1, <1>2, <1>3 DEF Init, TypeOK

(***************************************************************************)
(* The variables keep their types: in particular the positions stay inside *)
(* the ring and the futex words inside their width, whatever the size.     *)
(***************************************************************************)
THEOREM TypeInv == Spec => []TypeOK
BY TypeInit, StepType, PTL DEF Spec
-----------------------------------------------------------------------------
(* The turn: who may touch the ring.                                       *)

Await == {"bump", "wake", "poll_ready"} \union Waiting

Serving == ServerPC \ ({"create", "init_ready"} \union Closing \union {"done"})

(***************************************************************************)
(* While ready is up, a raised message flag means that the client waits    *)
(* for its answer, a raised response flag that the client may read; never  *)
(* both.  Between consuming a request and publishing the response the      *)
(* server works with both flags down.                                      *)
(***************************************************************************)
Turn ==
  /\ ready <=> pc["server"] \in Serving
  /\ pc["server"] \in Setup => ~avail["client"]
  /\ pc["server"] \in {"create", "init_ready"} =>
       pc["client"] \in {"open", "attach", "failed"} /\ ~avail["server"]
  /\ ready /\ avail["server"] => pc["client"] \in Await /\ ~avail["client"]
  /\ ready /\ avail["client"] => pc["client"] \in Await \union Reading \union {"clear"}
  /\ pc["server"] \in Reading \union {"clear"} => avail["server"]
  /\ pc["server"] \in Writing \union {"set"} =>
       pc["client"] \in Await /\ ~avail["server"] /\ ~avail["client"]
  /\ pc["client"] \in Reading \union {"clear"} => avail["client"]


LEMMA TurnStep ==
  ASSUME TypeOK, Turn, ~UringMayFail, [Next]_vars
  PROVE  Turn'
<1> USE DEF Turn, Serving, ServerPC, Setup, Closing, Await, Waiting, Reading, Writing, Signalling,
            Procs, Goto, shared, local, stats
<1>1. pc \in [Procs -> ServerPC \union ClientPC] /\ pc["server"] \in ServerPC
  BY DEF TypeOK
<1>2. avail \in [Procs -> BOOLEAN]
  BY DEF TypeOK
<1> HIDE DEF ServerPC
<1>3. CASE Create \/ InitReady \/ InitMessage \/ InitResponse
  BY <1>1, <1>2, <1>3 DEF Create, InitReady, InitMessage, InitResponse, ServerPC
<1>4. CASE ServerLoop \/ CloseReady \/ Remove
  BY <1>1, <1>2, <1>4 DEF ServerLoop, CloseReady, Remove, ServerPC
<1>5. CASE CloseSignals
  BY <1>1, <1>2, <1>5 DEF CloseSignals, Raise, Bump, Wake, ServerPC
<1>6. CASE Open \/ Attach \/ ClientStop \/ ClientCompose \/ PollReady \/ Count
  BY <1>1, <1>2, <1>6 DEF Open, Attach, ClientStop, ClientCompose, PollReady, Count
<1>7. CASE \E p \in Procs : Check(p) \/ Load(p) \/ Recheck(p) \/ FutexWait(p) \/ SpuriousWake(p)
  BY <1>1, <1>2, <1>7 DEF Check, Load, Recheck, FutexWait, SpuriousWake, ServerPC
<1>8. CASE \E p \in Procs : Read(p) \/ Copy(p) \/ Consume(p)
  BY <1>1, <1>2, <1>8 DEF Read, Copy, Consume, AfterFailedRead, ServerPC
<1>9. CASE \E p \in Procs : Clear(p)
  BY <1>1, <1>2, <1>9 DEF Clear, AfterClear, ServerPC
<1>10. CASE \E p \in Procs : Reserve(p) \/ Fill(p) \/ Publish(p)
  BY <1>1, <1>2, <1>10 DEF Reserve, Fill, Publish, AfterFailedWrite, ServerPC
<1>11. CASE \E p \in Procs : Signal(p)
  BY <1>1, <1>2, <1>11 DEF Signal, Raise, Bump, Wake, Other, AfterSignal, ServerPC
<1>12. CASE UringFail
  BY <1>12 DEF UringFail
<1>13. CASE \E p \in Procs : Expire(p)
  BY <1>13 DEF Expire
<1>14. CASE UNCHANGED vars
  BY <1>14 DEF vars
<1> QED
  BY <1>3, <1>4, <1>5, <1>6, <1>7, <1>8, <1>9, <1>10, <1>11, <1>12, <1>13, <1>14
     DEF Next, Server, Client, Environment, Common

-----------------------------------------------------------------------------
(* What the ring holds.                                                    *)

Empty == readPos = writePos

(* One frame, the one of the client's current call. *)
OneFrame ==
  /\ writePos = Succ(readPos)
  /\ ring[readPos].seq = ops + 1

Frames ==
  /\ pc["client"] \in {"open", "attach", "loop", "failed", "clear", "count"} \union Writing => Empty
  /\ pc["client"] \in {"open", "attach", "loop"} => msg["client"].seq = ops
  /\ pc["client"] \in Writing \union {"clear", "count"} => msg["client"].seq = ops + 1
  /\ pc["client"] = "set" => OneFrame
  /\ pc["client"] \in Await \union Reading =>
       IF pc["server"] \in {"clear"} \union Writing
       THEN Empty /\ msg["server"].seq = ops + 1
       ELSE OneFrame
  /\ pc["server"] = "consume" => msg["server"].seq = ops + 1
  /\ pc["client"] = "consume" => msg["client"].seq = ops + 1
  /\ \A p \in Procs :
       /\ pc[p] \in {"copy", "consume", "fill"} => pos[p] = readPos
       /\ pc[p] = "publish" => pos[p] = writePos /\ ring[writePos].seq = ops + 1


LEMMA SuccDiffers ==
  \A i \in Slots : Succ(i) # i /\ Free(i, i) > 1 /\ ~(Free(i, i) <= 1)
BY FrameRingAssumption, SMT DEF Slots, Succ, Free

(***************************************************************************)
(* The turn as the steps use it: the server works on the ring only while   *)
(* the client awaits its answer.                                           *)
(***************************************************************************)
LEMMA ServerWorksInAwait ==
  ASSUME TypeOK, Turn
  PROVE  pc["server"] \in Reading \union {"clear"} \union Writing \union {"set"} => pc["client"] \in Await
BY DEF TypeOK, Turn, Serving, ServerPC, Setup, Closing, Reading, Writing, Signalling, Waiting

LEMMA ClientReadsAlone ==
  ASSUME TypeOK, Turn
  PROVE  pc["client"] \in Reading \union {"clear"} =>
           pc["server"] \notin Reading \union {"clear"} \union Writing \union {"set"}
BY DEF TypeOK, Turn, Serving, ServerPC, Setup, Closing, Reading, Writing, Signalling, Waiting, Await

LEMMA FramesStep ==
  ASSUME TypeOK, Turn, Frames, ~UringMayFail, [Next]_vars
  PROVE  Frames'
<1> USE DEF Frames, Empty, OneFrame, Await, Waiting, Reading, Writing, Procs, Goto, shared, local, stats
<1>1. /\ pc \in [Procs -> ServerPC \union ClientPC] /\ pos \in [Procs -> Slots]
      /\ msg \in [Procs -> Frame] /\ ring \in [Slots -> Frame] /\ readPos \in Slots /\ writePos \in Slots
      /\ ops \in Nat
  BY DEF TypeOK
<1>2. /\ pc["server"] \in Reading \union {"clear"} \union Writing \union {"set"} => pc["client"] \in Await
      /\ pc["client"] \in Reading \union {"clear"} =>
           pc["server"] \notin Reading \union {"clear"} \union Writing \union {"set"}
  BY ServerWorksInAwait, ClientReadsAlone
<1>3. CASE Create \/ InitReady \/ InitMessage \/ InitResponse
  BY <1>1, <1>3 DEF Create, InitReady, InitMessage, InitResponse
<1>4. CASE ServerLoop \/ CloseReady \/ Remove
  BY <1>1, <1>4 DEF ServerLoop, CloseReady, Remove
<1>5. CASE CloseSignals
  BY <1>1, <1>5 DEF CloseSignals, Raise, Bump, Wake
<1>6. CASE Open \/ Attach \/ ClientStop \/ PollReady
  BY <1>1, <1>6 DEF Open, Attach, ClientStop, PollReady
<1>15. CASE ClientCompose
  BY <1>1, <1>2, <1>15 DEF ClientCompose, Frame
<1>16. CASE Count
  BY <1>1, <1>2, <1>16 DEF Count, Frame
<1>7. CASE \E p \in Procs : Check(p) \/ Load(p) \/ Recheck(p) \/ FutexWait(p) \/ SpuriousWake(p)
  BY <1>1, <1>7 DEF Check, Load, Recheck, FutexWait, SpuriousWake
<1>8. CASE \E p \in Procs : Read(p) \/ Copy(p) \/ Consume(p)
  <2>1. CASE Read("server")
    BY <1>1, <1>2, <2>1, SuccDiffers DEF Read
  <2>2. CASE Read("client")
    BY <1>1, <1>2, <2>2, SuccDiffers DEF Read
  <2>3. CASE Copy("server")
    BY <1>1, <1>2, <2>3, SuccDiffers DEF Copy, AfterFailedRead
  <2>4. CASE Copy("client")
    BY <1>1, <1>2, <2>4, SuccDiffers DEF Copy, AfterFailedRead
  <2>5. CASE Consume("server")
    BY <1>1, <1>2, <2>5, SuccDiffers DEF Consume
  <2>6. CASE Consume("client")
    BY <1>1, <1>2, <2>6, SuccDiffers DEF Consume
  <2> QED BY <1>8, <2>1, <2>2, <2>3, <2>4, <2>5, <2>6
<1>9. CASE \E p \in Procs : Clear(p)
  BY <1>1, <1>9 DEF Clear, AfterClear
<1>10. CASE \E p \in Procs : Reserve(p) \/ Fill(p) \/ Publish(p)
  <2>1. CASE Reserve("server")
    BY <1>1, <1>2, <2>1, SuccDiffers DEF Reserve
  <2>2. CASE Reserve("client")
    BY <1>1, <1>2, <2>2, SuccDiffers DEF Reserve
  <2>3. CASE Fill("server")
    <3>1. pc["client"] \in Await /\ Empty /\ msg["server"].seq = ops + 1 /\ pos["server"] = readPos
      BY <1>1, <1>2, <2>3 DEF Fill
    <3>2. ~(Free(pos["server"], writePos) <= 1)
      BY <1>1, <3>1, SuccDiffers
    <3>3. /\ pc' = [pc EXCEPT !["server"] = "publish"]
          /\ pos' = [pos EXCEPT !["server"] = writePos]
          /\ ring' = [ring EXCEPT ![writePos] = [seq |-> msg["server"].seq, from |-> "server"]]
          /\ UNCHANGED <<readPos, writePos, msg, ops>>
      BY <2>3, <3>2 DEF Fill
    <3>4. pos'["server"] = writePos' /\ ring'[writePos'].seq = ops' + 1
      BY <1>1, <3>1, <3>3
    <3>5. QED BY <1>1, <3>1, <3>3, <3>4
  <2>4. CASE Fill("client")
    BY <1>1, <1>2, <2>4, SuccDiffers DEF Fill, AfterFailedWrite, Frame
  <2>5. CASE Publish("server")
    BY <1>1, <1>2, <2>5, SuccDiffers DEF Publish
  <2>6. CASE Publish("client")
    BY <1>1, <1>2, <2>6, SuccDiffers DEF Publish
  <2> QED BY <1>10, <2>1, <2>2, <2>3, <2>4, <2>5, <2>6
<1>11. CASE \E p \in Procs : Signal(p)
  <2>1. CASE Signal("server")
    BY <1>1, <1>2, <2>1 DEF Signal, Raise, Bump, Wake, Other, AfterSignal
  <2>2. CASE Signal("client")
    BY <1>1, <1>2, <2>2 DEF Signal, Raise, Bump, Wake, Other, AfterSignal
  <2> QED BY <1>11, <2>1, <2>2
<1>12. CASE UringFail
  BY <1>12 DEF UringFail
<1>13. CASE \E p \in Procs : Expire(p)
  BY <1>13 DEF Expire
<1>14. CASE UNCHANGED vars
  BY <1>14 DEF vars
<1> QED
  BY <1>3, <1>4, <1>5, <1>6, <1>7, <1>8, <1>9, <1>10, <1>11, <1>12, <1>13, <1>14, <1>15, <1>16
     DEF Next, Server, Client, Environment, Common

-----------------------------------------------------------------------------
(* Whose frame the client counts.                                          *)

Answers ==
  /\ pc["server"] = "publish" => ring[writePos].from = "server"
  /\ pc["server"] = "set" => ring[readPos].from = "server"
  /\ pc["client"] = "publish" => ring[writePos].from = "client"
  /\ pc["client"] = "set" => ring[readPos].from = "client"
  /\ ready /\ avail["server"] /\ pc["server"] # "clear" => ring[readPos].from = "client"
  /\ ready /\ avail["client"] /\ pc["client"] \in Await \union {"read", "copy"}
       => ring[readPos].from = "server"
  /\ pc["client"] \in {"consume", "clear", "count"} /\ msg["client"].from = "client" => ~ready
  /\ pc["server"] \in {"create", "init_ready"} => unanswered = 0
  /\ \/ unanswered = 0
     \/ /\ unanswered = 1
        /\ ~ready
        /\ pc["client"] \notin Waiting \union Reading \union {"clear", "count"}


LEMMA AnswersStep ==
  ASSUME TypeOK, Turn, Frames, Answers, ~UringMayFail, [Next]_vars
  PROVE  Answers'
<1> USE DEF Answers, Await, Waiting, Reading, Writing, Procs, Goto, shared, local, stats
<1>1. /\ pc \in [Procs -> ServerPC \union ClientPC] /\ pos \in [Procs -> Slots]
      /\ msg \in [Procs -> Frame] /\ ring \in [Slots -> Frame] /\ readPos \in Slots /\ writePos \in Slots
      /\ avail \in [Procs -> BOOLEAN]
  BY DEF TypeOK
<1>2. /\ pc["server"] \in Reading \union {"clear"} \union Writing \union {"set"} =>
           pc["client"] \in Await
      /\ pc["client"] \in Reading \union {"clear"} =>
           pc["server"] \notin Reading \union {"clear"} \union Writing \union {"set"}
  BY ServerWorksInAwait, ClientReadsAlone
<1>3. CASE Create \/ InitReady \/ InitMessage \/ InitResponse
  BY <1>1, <1>2, <1>3 DEF Create, InitReady, InitMessage, InitResponse, Turn, Setup
<1>4. CASE ServerLoop \/ CloseReady \/ Remove
  BY <1>1, <1>2, <1>4 DEF ServerLoop, CloseReady, Remove
<1>5. CASE CloseSignals
  BY <1>1, <1>2, <1>5 DEF CloseSignals, Raise, Bump, Wake, Turn, Serving, Closing
<1>6. CASE Open \/ Attach \/ ClientStop \/ ClientCompose \/ PollReady
  BY <1>1, <1>2, <1>6 DEF Open, Attach, ClientStop, ClientCompose, PollReady
<1>7. CASE Count
  BY <1>1, <1>2, <1>7 DEF Count, Turn
<1>8. CASE \E p \in Procs : Check(p)
  BY <1>1, <1>2, <1>8 DEF Check, Turn, Frames, OneFrame, Serving, Setup
<1>9. CASE \E p \in Procs : Load(p) \/ Recheck(p) \/ FutexWait(p) \/ SpuriousWake(p)
  BY <1>1, <1>2, <1>9 DEF Load, Recheck, FutexWait, SpuriousWake
<1>10. CASE \E p \in Procs : Read(p)
  <2>1. CASE Read("server")
    BY <1>1, <1>2, <2>1, SuccDiffers DEF Read
  <2>2. CASE Read("client")
    BY <1>1, <1>2, <2>2, SuccDiffers DEF Read
  <2> QED BY <1>10, <2>1, <2>2
<1>11. CASE \E p \in Procs : Copy(p)
  <2>1. CASE Copy("server")
    BY <1>1, <1>2, <2>1, SuccDiffers DEF Copy, AfterFailedRead, Frames, OneFrame, Turn
  <2>2. CASE Copy("client")
    BY <1>1, <1>2, <2>2, SuccDiffers DEF Copy, AfterFailedRead, Frames, OneFrame, Turn
  <2> QED BY <1>11, <2>1, <2>2
<1>12. CASE \E p \in Procs : Consume(p)
  <2>1. CASE Consume("server")
    BY <1>1, <1>2, <2>1, SuccDiffers DEF Consume, Turn, Serving, ServerPC, Setup, Closing
  <2>2. CASE Consume("client")
    BY <1>1, <1>2, <2>2, SuccDiffers DEF Consume, Turn, Serving, ServerPC, Setup, Closing
  <2> QED BY <1>12, <2>1, <2>2
<1>13. CASE \E p \in Procs : Clear(p)
  <2>1. CASE Clear("server")
    BY <1>1, <1>2, <2>1, SuccDiffers DEF Clear, AfterClear
  <2>2. CASE Clear("client")
    BY <1>1, <1>2, <2>2, SuccDiffers DEF Clear, AfterClear
  <2> QED BY <1>13, <2>1, <2>2
<1>14. CASE \E p \in Procs : Reserve(p)
  <2>1. CASE Reserve("server")
    BY <1>1, <1>2, <2>1, SuccDiffers DEF Reserve
  <2>2. CASE Reserve("client")
    BY <1>1, <1>2, <2>2, SuccDiffers DEF Reserve
  <2> QED BY <1>14, <2>1, <2>2
<1>15. CASE \E p \in Procs : Fill(p)
  <2>1. CASE Fill("server")
    BY <1>1, <1>2, <2>1, SuccDiffers DEF Fill, AfterFailedWrite, Frame, Frames, Empty, Turn
  <2>2. CASE Fill("client")
    BY <1>1, <1>2, <2>2, SuccDiffers DEF Fill, AfterFailedWrite, Frame, Frames, Empty, Turn
  <2> QED BY <1>15, <2>1, <2>2
<1>16. CASE \E p \in Procs : Publish(p)
  <2>1. CASE Publish("server")
    BY <1>1, <1>2, <2>1, SuccDiffers DEF Publish, Frames, Empty
  <2>2. CASE Publish("client")
    BY <1>1, <1>2, <2>2, SuccDiffers DEF Publish, Frames, Empty
  <2> QED BY <1>16, <2>1, <2>2
<1>17. CASE \E p \in Procs : Signal(p)
  <2>1. CASE Signal("server")
    BY <1>1, <1>2, <2>1 DEF Signal, Raise, Bump, Wake, Other, AfterSignal
  <2>2. CASE Signal("client")
    BY <1>1, <1>2, <2>2 DEF Signal, Raise, Bump, Wake, Other, AfterSignal, Turn
  <2> QED BY <1>17, <2>1, <2>2
<1>18. CASE UringFail
  BY <1>18 DEF UringFail
<1>19. CASE \E p \in Procs : Expire(p)
  BY <1>19 DEF Expire
<1>20. CASE UNCHANGED vars
  BY <1>20 DEF vars
<1> QED
  BY <1>3, <1>4, <1>5, <1>6, <1>7, <1>8, <1>9, <1>10, <1>11, <1>12, <1>13, <1>14, <1>15, <1>16, <1>17, <1>18, <1>19, <1>20
     DEF Next, Server, Client, Environment, Common

-----------------------------------------------------------------------------
(* The versions of the futex words.                                        *)
(*                                                                         *)
(* Between its load of the word and the comparison in the kernel a waiter  *)
(* can miss at most three advances: the end of the signal it has already   *)
(* seen, the one it waits for, and the one of the shutdown.  So a word     *)
(* that counts modulo more than three cannot come back to the value        *)
(* loaded.                                                                 *)

(* How often a futex word was advanced from v to f; since p loaded it. *)
Distance(f, v) == IF f >= v THEN f - v ELSE f - v + FutexMod
Lag(p) == Distance(futex[p], val[p])

Looking == {"recheck", "wait"}

ClientLag ==
  IF pc["server"] = "bump"
  THEN IF avail["client"] THEN 1 ELSE 0
  ELSE IF pc["server"] \in {"close_wake", "self_set", "self_bump", "self_wake", "done"}
  THEN 3
  ELSE IF avail["client"] THEN 2 ELSE 1

ServerLag ==
  IF pc["client"] = "bump"
  THEN IF avail["server"] THEN 1 ELSE 0
  ELSE IF avail["server"] THEN 2 ELSE 1

Bumping(p) ==
  IF p = "client" THEN pc["server"] \in {"bump", "close_bump"} ELSE pc["client"] = "bump"

Versions ==
  /\ pc["client"] \in Looking => Lag("client") <= ClientLag
  /\ pc["server"] \in Looking => Lag("server") <= ServerLag
  /\ \A p \in Procs : pc[p] = "wait" /\ avail[p] /\ ~Bumping(p) => Lag(p) >= 1

LEMMA DistanceFacts ==
  \A f, v \in 0..(FutexMod - 1) :
    /\ Distance(f, v) \in Nat
    /\ Distance(f, f) = 0
    /\ f # v => Distance(f, v) >= 1
    /\ Distance(f, v) <= 2 => Distance(Inc(f), v) = Distance(f, v) + 1
BY LfshmAssumption, SMT DEF Distance, Inc

LEMMA VersionsStep ==
  ASSUME TypeOK, Turn, Versions, ~UringMayFail, [Next]_vars
  PROVE  Versions'
<1> USE DEF Versions, Lag, ClientLag, ServerLag, Bumping, Looking, Await, Waiting, Reading, Writing,
            Procs, Goto, shared, local, stats
<1>1. /\ pc \in [Procs -> ServerPC \union ClientPC] /\ avail \in [Procs -> BOOLEAN]
      /\ futex \in [Procs -> 0..(FutexMod - 1)] /\ val \in [Procs -> 0..(FutexMod - 1)]
  BY DEF TypeOK
<1>2. \A p \in Procs :
        /\ Lag(p) \in Nat
        /\ futex[p] # val[p] => Lag(p) >= 1
        /\ Lag(p) <= 2 => Distance(Inc(futex[p]), val[p]) = Lag(p) + 1
  BY <1>1, DistanceFacts
<1>3. CASE Create \/ InitReady \/ InitMessage \/ InitResponse
  BY <1>1, <1>2, <1>3 DEF Create, InitReady, InitMessage, InitResponse, Turn, Setup
<1>4. CASE ServerLoop \/ CloseReady \/ Remove
  BY <1>1, <1>2, <1>4 DEF ServerLoop, CloseReady, Remove
<1>5. CASE CloseSignals
  <2>1. CASE Raise("server", "client", "close_set", "close_bump")
    BY <1>1, <1>2, <2>1 DEF Raise
  <2>2. CASE Bump("server", "client", "close_bump", "close_wake")
    BY <1>1, <1>2, <2>2 DEF Bump
  <2>3. CASE Wake("server", "client", "close_wake", "self_set")
    BY <1>1, <1>2, <2>3 DEF Wake
  <2>4. CASE Raise("server", "server", "self_set", "self_bump")
    BY <1>1, <1>2, <2>4 DEF Raise
  <2>5. CASE Bump("server", "server", "self_bump", "self_wake")
    BY <1>1, <1>2, <2>5 DEF Bump
  <2> QED BY <1>5, <2>1, <2>2, <2>3, <2>4, <2>5 DEF CloseSignals
<1>6. CASE Open \/ Attach \/ ClientStop \/ ClientCompose \/ PollReady \/ Count
  BY <1>1, <1>2, <1>6 DEF Open, Attach, ClientStop, ClientCompose, PollReady, Count
<1>7. CASE \E p \in Procs : Load(p)
  <2>1. CASE Load("server")
    BY <1>1, <1>2, <2>1, DistanceFacts DEF Load
  <2>2. CASE Load("client")
    BY <1>1, <1>2, <2>2, DistanceFacts DEF Load
  <2> QED BY <1>7, <2>1, <2>2
<1>8. CASE \E p \in Procs : Check(p) \/ Recheck(p) \/ FutexWait(p) \/ SpuriousWake(p)
  BY <1>1, <1>2, <1>8 DEF Check, Recheck, FutexWait, SpuriousWake
<1>9. CASE \E p \in Procs : Read(p) \/ Copy(p) \/ Consume(p)
  BY <1>1, <1>2, <1>9 DEF Read, Copy, Consume, AfterFailedRead
<1>10. CASE \E p \in Procs : Clear(p)
  BY <1>1, <1>2, <1>10 DEF Clear, AfterClear
<1>11. CASE \E p \in Procs : Reserve(p) \/ Fill(p) \/ Publish(p)
  BY <1>1, <1>2, <1>11 DEF Reserve, Fill, Publish, AfterFailedWrite
<1>12. CASE \E p \in Procs : Signal(p)
  <2>1. CASE Raise("server", "client", "set", "bump")
    BY <1>1, <1>2, <2>1 DEF Raise, Turn, Serving, ServerPC, Setup, Closing, Signalling
  <2>2. CASE Bump("server", "client", "bump", "wake")
    BY <1>1, <1>2, <2>2 DEF Bump
  <2>3. CASE Wake("server", "client", "wake", "loop")
    BY <1>1, <1>2, <2>3 DEF Wake
  <2>4. CASE Raise("client", "server", "set", "bump")
    BY <1>1, <1>2, <2>4 DEF Raise, Turn, Serving, ServerPC, Setup, Closing, Signalling
  <2>5. CASE Bump("client", "server", "bump", "wake")
    BY <1>1, <1>2, <2>5 DEF Bump
  <2>6. CASE Wake("client", "server", "wake", "poll_ready")
    BY <1>1, <1>2, <2>6 DEF Wake
  <2> QED BY <1>12, <2>1, <2>2, <2>3, <2>4, <2>5, <2>6 DEF Signal, Other, AfterSignal
<1>13. CASE UringFail
  BY <1>13 DEF UringFail
<1>14. CASE \E p \in Procs : Expire(p)
  BY <1>14 DEF Expire
<1>15. CASE UNCHANGED vars
  BY <1>15 DEF vars
<1> QED
  BY <1>3, <1>4, <1>5, <1>6, <1>7, <1>8, <1>9, <1>10, <1>11, <1>12, <1>13, <1>14, <1>15
     DEF Next, Server, Client, Environment, Common

(* The compare catches a signal whose advance is done. *)
Caught == \A p \in Procs : pc[p] = "wait" /\ futex[p] = val[p] /\ avail[p] => Bumping(p)

LEMMA VersionsCatch ==
  ASSUME TypeOK, Versions
  PROVE  Caught
BY DistanceFacts DEF TypeOK, Versions, Lag, Caught

LEMMA WakeupStep ==
  ASSUME TypeOK, Caught, NoLostWakeup, [Next]_vars
  PROVE  NoLostWakeup'
<1> USE DEF NoLostWakeup, BumpOrWake, Other, Procs, Goto, shared, local, stats
<1>1. pc \in [Procs -> ServerPC \union ClientPC] /\ avail \in [Procs -> BOOLEAN]
  BY DEF TypeOK
<1>2. \A p \in Procs : pc[p] = "wait" /\ futex[p] = val[p] /\ avail[p] => Bumping(p)
  BY DEF Caught
<1>3. CASE Create \/ InitReady \/ InitMessage \/ InitResponse
  BY <1>1, <1>2, <1>3 DEF Create, InitReady, InitMessage, InitResponse
<1>4. CASE ServerLoop \/ CloseReady \/ Remove
  BY <1>1, <1>2, <1>4 DEF ServerLoop, CloseReady, Remove
<1>5. CASE CloseSignals
  BY <1>1, <1>2, <1>5 DEF CloseSignals, Raise, Bump, Wake
<1>6. CASE Open \/ Attach \/ ClientStop \/ ClientCompose \/ PollReady \/ Count
  BY <1>1, <1>2, <1>6 DEF Open, Attach, ClientStop, ClientCompose, PollReady, Count
<1>7. CASE \E p \in Procs : Check(p) \/ Load(p) \/ Recheck(p)
  BY <1>1, <1>2, <1>7 DEF Check, Load, Recheck
<1>8. CASE \E p \in Procs : FutexWait(p) \/ SpuriousWake(p)
  BY <1>1, <1>2, <1>8 DEF FutexWait, SpuriousWake, Bumping
<1>9. CASE \E p \in Procs : Read(p) \/ Copy(p) \/ Consume(p)
  BY <1>1, <1>2, <1>9 DEF Read, Copy, Consume, AfterFailedRead
<1>10. CASE \E p \in Procs : Clear(p)
  <2>1. CASE Clear("server")
    BY <1>1, <1>2, <2>1 DEF Clear, AfterClear
  <2>2. CASE Clear("client")
    BY <1>1, <1>2, <2>2 DEF Clear, AfterClear
  <2> QED BY <1>10, <2>1, <2>2
<1>11. CASE \E p \in Procs : Reserve(p) \/ Fill(p) \/ Publish(p)
  BY <1>1, <1>2, <1>11 DEF Reserve, Fill, Publish, AfterFailedWrite
<1>12. CASE \E p \in Procs : Signal(p)
  <2>1. CASE Signal("server")
    BY <1>1, <1>2, <2>1 DEF Signal, Raise, Bump, Wake, Other, AfterSignal
  <2>2. CASE Signal("client")
    BY <1>1, <1>2, <2>2 DEF Signal, Raise, Bump, Wake, Other, AfterSignal
  <2> QED BY <1>12, <2>1, <2>2
<1>13. CASE UringFail
  BY <1>1, <1>2, <1>13 DEF UringFail
<1>14. CASE \E p \in Procs : Expire(p)
  BY <1>1, <1>2, <1>14 DEF Expire
<1>15. CASE UNCHANGED vars
  BY <1>1, <1>2, <1>15 DEF vars
<1> QED
  BY <1>3, <1>4, <1>5, <1>6, <1>7, <1>8, <1>9, <1>10, <1>11, <1>12, <1>13, <1>14, <1>15
     DEF Next, Server, Client, Environment, Common

-----------------------------------------------------------------------------
(* Somebody is always called.                                              *)

Called ==
  /\ pc["client"] # "open" => pc["server"] \notin Setup
  /\ ready /\ pc["client"] \in Await =>
       \/ avail["server"]
       \/ avail["client"]
       \/ pc["server"] \in Writing \union {"set"}


LEMMA CalledStep ==
  ASSUME StaggeredStart, TypeOK, Turn, Frames, Called, ~UringMayFail, [Next]_vars
  PROVE  Called'
<1> USE DEF Called, Setup, Await, Waiting, Reading, Writing, Procs, Goto, shared, local, stats
<1>1. /\ pc \in [Procs -> ServerPC \union ClientPC] /\ avail \in [Procs -> BOOLEAN]
      /\ pc["server"] \in ServerPC
  BY DEF TypeOK
<1>2. /\ pc["server"] \in Reading \union {"clear"} \union Writing \union {"set"} =>
           pc["client"] \in Await
      /\ pc["client"] \in Reading \union {"clear"} =>
           pc["server"] \notin Reading \union {"clear"} \union Writing \union {"set"}
  BY ServerWorksInAwait, ClientReadsAlone
<1>3. CASE Create \/ InitReady \/ InitMessage \/ InitResponse
  BY <1>1, <1>2, <1>3 DEF Create, InitReady, InitMessage, InitResponse
<1>4. CASE ServerLoop \/ CloseReady \/ Remove
  BY <1>1, <1>2, <1>4 DEF ServerLoop, CloseReady, Remove
<1>5. CASE CloseSignals
  BY <1>1, <1>2, <1>5 DEF CloseSignals, Raise, Bump, Wake
<1>6. CASE Open \/ Attach \/ ClientStop \/ ClientCompose \/ PollReady \/ Count
  BY <1>1, <1>2, <1>6 DEF Open, Attach, ClientStop, ClientCompose, PollReady, Count
<1>7. CASE \E p \in Procs : Check(p) \/ Load(p) \/ Recheck(p)
  BY <1>1, <1>2, <1>7 DEF Check, Load, Recheck
<1>8. CASE \E p \in Procs : FutexWait(p) \/ SpuriousWake(p)
  BY <1>1, <1>2, <1>8 DEF FutexWait, SpuriousWake
<1>9. CASE \E p \in Procs : Read(p) \/ Copy(p) \/ Consume(p)
  BY <1>1, <1>2, <1>9 DEF Read, Copy, Consume, AfterFailedRead
<1>10. CASE \E p \in Procs : Clear(p)
  <2>1. CASE Clear("server")
    BY <1>1, <1>2, <2>1 DEF Clear, AfterClear
  <2>2. CASE Clear("client")
    BY <1>1, <1>2, <2>2 DEF Clear, AfterClear
  <2> QED BY <1>10, <2>1, <2>2
<1>11. CASE \E p \in Procs : Reserve(p) \/ Fill(p) \/ Publish(p)
  <2>1. \A p \in Procs : Fill(p) => pc' = [pc EXCEPT ![p] = "publish"]
    <3> SUFFICES ASSUME NEW p \in Procs, Fill(p) PROVE pc' = [pc EXCEPT ![p] = "publish"]
      OBVIOUS
    <3>1. pc[p] = "fill" /\ readPos \in Slots
      BY DEF Fill, TypeOK
    <3>2. readPos = writePos /\ pos[p] = readPos
      BY <1>2, <3>1 DEF Frames, Empty
    <3>3. ~(Free(pos[p], writePos) <= 1)
      BY <3>1, <3>2, SuccDiffers
    <3>4. QED BY <3>3 DEF Fill
  <2>2. QED BY <1>1, <1>2, <1>11, <2>1 DEF Reserve, Fill, Publish
<1>12. CASE \E p \in Procs : Signal(p)
  <2>1. CASE Signal("server")
    BY <1>1, <1>2, <2>1 DEF Signal, Raise, Bump, Wake, Other, AfterSignal
  <2>2. CASE Signal("client")
    BY <1>1, <1>2, <2>2 DEF Signal, Raise, Bump, Wake, Other, AfterSignal
  <2> QED BY <1>12, <2>1, <2>2
<1>13. CASE UringFail
  BY <1>1, <1>2, <1>13 DEF UringFail
<1>14. CASE \E p \in Procs : Expire(p)
  BY <1>1, <1>2, <1>14 DEF Expire
<1>15. CASE UNCHANGED vars
  BY <1>1, <1>2, <1>15 DEF vars
<1> QED
  BY <1>3, <1>4, <1>5, <1>6, <1>7, <1>8, <1>9, <1>10, <1>11, <1>12, <1>13, <1>14, <1>15
     DEF Next, Server, Client, Environment, Common

-----------------------------------------------------------------------------
(* The theorems.                                                           *)

Inductive == TypeOK /\ Turn /\ Frames /\ Answers /\ Versions /\ NoLostWakeup

LEMMA InitInductive == Init => Inductive
<1> SUFFICES ASSUME Init PROVE Inductive
  OBVIOUS
<1>1. TypeOK
  BY TypeInit
<1>2. Turn /\ Frames /\ Answers
  BY DEF Init, Turn, Frames, Answers, Empty, NoFrame, Serving, Setup, Await, Waiting, Reading,
         Writing, Procs
<1>3. Versions /\ NoLostWakeup
  BY DEF Init, Versions, NoLostWakeup, Looking, Procs
<1> QED BY <1>1, <1>2, <1>3 DEF Inductive

(***************************************************************************)
(* The invariant holds of both transports as long as no io_uring call      *)
(* fails.                                                                  *)
(***************************************************************************)
THEOREM Invariant ==
  ASSUME ~UringMayFail
  PROVE  Spec => []Inductive
<1>1. Inductive /\ [Next]_vars => Inductive'
  BY StepType, TurnStep, FramesStep, AnswersStep, VersionsStep, VersionsCatch, WakeupStep DEF Inductive
<1>2. QED BY <1>1, InitInductive, PTL DEF Spec

(***************************************************************************)
(* The two flags alone keep the processes apart: no ring operation of the  *)
(* server overlaps one of the client, whatever the interleaving, also when *)
(* the client attaches in the middle of the server's setup.                *)
(***************************************************************************)
THEOREM RingExclusion ==
  ASSUME ~UringMayFail
  PROVE  Spec => []RingExclusive
<1>1. Inductive => RingExclusive
  BY ServerWorksInAwait, ClientReadsAlone
     DEF Inductive, RingExclusive, RingUse, Await, Waiting, Reading, Writing
<1>2. QED BY <1>1, Invariant, PTL

(***************************************************************************)
(* Every read finds a frame and every write finds room, in a ring of any   *)
(* size: the ring never holds more than the frame of the current call.     *)
(***************************************************************************)
THEOREM TransferSuccess ==
  ASSUME ~UringMayFail
  PROVE  Spec => []TransfersSucceed
<1>1. Inductive => TransfersSucceed
  <2> SUFFICES ASSUME TypeOK, Turn, Frames PROVE TransfersSucceed
    BY DEF Inductive
  <2>1. readPos \in Slots /\ pc["server"] \in ServerPC
    BY DEF TypeOK
  <2>2. \A p \in Procs : pc[p] = "copy" => readPos # writePos /\ pos[p] = readPos
    BY <2>1, SuccDiffers, ServerWorksInAwait, ClientReadsAlone
       DEF Frames, OneFrame, Procs, Reading, Writing, Await, Waiting
  <2>3. \A p \in Procs : pc[p] = "fill" => readPos = writePos /\ pos[p] = readPos
    BY ServerWorksInAwait DEF Frames, Empty, Procs, Reading, Writing, Await, Waiting
  <2>4. QED BY <2>1, <2>2, <2>3, SuccDiffers DEF TransfersSucceed
<1>2. QED BY <1>1, Invariant, PTL

(***************************************************************************)
(* The message the client counts belongs to the call it is making.         *)
(***************************************************************************)
THEOREM FreshAnswer ==
  ASSUME ~UringMayFail
  PROVE  Spec => []NoStaleAnswer
<1>1. Inductive => NoStaleAnswer
  BY DEF Inductive, Frames, NoStaleAnswer
<1>2. QED BY <1>1, Invariant, PTL

(***************************************************************************)
(* No wake-up is lost, for futex words of any width above two bits.        *)
(***************************************************************************)
THEOREM WakeupsArrive ==
  ASSUME ~UringMayFail
  PROVE  Spec => []NoLostWakeup
<1>1. Inductive => NoLostWakeup
  BY DEF Inductive
<1>2. QED BY <1>1, Invariant, PTL

(***************************************************************************)
(* At most one call is counted without an answer, and only by a client     *)
(* whose server has shut down.                                             *)
(***************************************************************************)
THEOREM UnansweredAtShutdown ==
  ASSUME ~UringMayFail
  PROVE  Spec => []UnansweredOnlyAtShutdown
<1>1. Inductive => UnansweredOnlyAtShutdown
  BY DEF Inductive, Answers, UnansweredOnlyAtShutdown
<1>2. QED BY <1>1, Invariant, PTL

(***************************************************************************)
(* A client that starts after the server's setup never shares a wait with  *)
(* the server in which nobody is called.                                   *)
(***************************************************************************)
THEOREM SomebodyCalled ==
  ASSUME ~UringMayFail, StaggeredStart
  PROVE  Spec => []NoMutualWait
<1>1. Init => Called
  BY DEF Init, Called, Procs, Await, Waiting
<1>2. Inductive /\ Called /\ [Next]_vars => Called'
  BY CalledStep DEF Inductive
<1>3. Inductive /\ Called => NoMutualWait
  BY DEF Inductive, TypeOK, Turn, Called, NoMutualWait, Serving, ServerPC, Setup, Closing, Await,
         Waiting, Writing
<1>4. QED BY <1>1, <1>2, <1>3, Invariant, PTL DEF Spec

-----------------------------------------------------------------------------
(* The refinement.                                                         *)

LEMMA CallValues ==
  /\ pc["client"] \in Outstanding =>
       Call = IF readPos # writePos /\ ring[readPos].from = "server" THEN "answered" ELSE "sent"
  /\ pc["client"] \in {"consume", "clear", "count"} =>
       Call = IF msg["client"].from = "server" THEN "answered" ELSE "sent"
  /\ pc["client"] \in {"open", "attach", "loop", "done", "failed"} \union Writing => Call = "none"
BY DEF Call, Outstanding, Signalling, Waiting, Writing

LEMMA NextCallValues ==
  /\ pc'["client"] \in Outstanding =>
       Call' = IF readPos' # writePos' /\ ring'[readPos'].from = "server" THEN "answered" ELSE "sent"
  /\ pc'["client"] \in {"consume", "clear", "count"} =>
       Call' = IF msg'["client"].from = "server" THEN "answered" ELSE "sent"
  /\ pc'["client"] \in {"open", "attach", "loop", "done", "failed"} \union Writing => Call' = "none"
BY DEF Call, Outstanding, Signalling, Waiting, Writing

(* Only the client's place, its buffer and the ring decide the call. *)
LEMMA CallStable ==
  ASSUME UNCHANGED <<pc["client"], readPos, writePos, ring, msg>>
  PROVE  Call' = Call
BY DEF Call

LEMMA EchoStep ==
  ASSUME Inductive, Inductive', ~UringMayFail, [Next]_vars
  PROVE  [Echo!Next]_(Echo!vars)
<1> USE DEF Echo!vars, Echo!Next, Outstanding, Closed, Closing, Await, Waiting, Reading, Writing,
            Signalling, Procs, Goto, shared, local, stats
<1>1. /\ pc \in [Procs -> ServerPC \union ClientPC] /\ pc["client"] \in ClientPC
      /\ pc["server"] \in ServerPC
      /\ msg \in [Procs -> Frame] /\ ring \in [Slots -> Frame] /\ readPos \in Slots /\ writePos \in Slots
      /\ pc'["client"] \in ClientPC
  BY DEF Inductive, TypeOK
<1>2. Turn /\ Frames /\ Answers /\ Turn' /\ Frames' /\ Answers'
  BY DEF Inductive
<1>3. /\ pc["server"] \in Reading \union {"clear"} \union Writing \union {"set"} =>
           pc["client"] \in Await
      /\ pc["client"] \in Reading \union {"clear"} =>
           pc["server"] \notin Reading \union {"clear"} \union Writing \union {"set"}
  BY ServerWorksInAwait, ClientReadsAlone DEF Inductive
<1>4. CASE Create \/ InitReady \/ InitMessage \/ InitResponse \/ ServerLoop \/ Remove
  BY <1>1, CallValues, NextCallValues, <1>4 DEF Create, InitReady, InitMessage, InitResponse, ServerLoop, Remove, Call, Setup
<1>5. CASE CloseReady
  BY <1>1, CallValues, NextCallValues, <1>5 DEF CloseReady, Echo!Close, Call
<1>6. CASE CloseSignals
  <2>1. CASE UNCHANGED <<pc["client"], readPos, writePos, ring, msg, ops, unanswered>>
    BY <1>1, <1>6, <2>1 DEF CloseSignals, Raise, Bump, Wake, Call
  <2>2. CASE pc["client"] = "asleep" /\ pc'["client"] = "check" /\ UNCHANGED <<readPos, writePos, ring, msg, ops, unanswered>>
    BY <1>1, <1>6, <2>2, CallValues, NextCallValues DEF CloseSignals, Raise, Bump, Wake
  <2> QED BY <1>1, <1>6, <2>1, <2>2 DEF CloseSignals, Raise, Bump, Wake
<1>7. CASE Open \/ Attach \/ ClientStop \/ ClientCompose
  BY <1>1, CallValues, NextCallValues, <1>7 DEF Open, Attach, ClientStop, ClientCompose, Echo!Leave
<1>8. CASE PollReady
  BY <1>1, <1>2, CallValues, NextCallValues, <1>8 DEF PollReady, Echo!Leave, Turn, Serving, Setup, ServerPC
<1>9. CASE Count
  BY <1>1, <1>2, CallValues, NextCallValues, <1>9 DEF Count, Echo!Complete, Echo!CompleteUnanswered, Turn, Answers, Serving, Setup, ServerPC, Frame
<1>10. CASE \E p \in Procs : Check(p)
  <2>1. CASE Check("server")
    BY <1>1, CallStable, <2>1 DEF Check
  <2>2. CASE Check("client")
    BY <1>1, <1>2, <1>3, SuccDiffers, CallValues, NextCallValues, <2>2 DEF Check
  <2> QED BY <1>10, <2>1, <2>2
<1>11. CASE \E p \in Procs : Load(p) \/ Recheck(p) \/ FutexWait(p) \/ SpuriousWake(p)
  <2>1. CASE Load("server") \/ Recheck("server") \/ FutexWait("server") \/ SpuriousWake("server")
    BY <1>1, CallStable, <2>1 DEF Load, Recheck, FutexWait, SpuriousWake
  <2>2. CASE Load("client") \/ Recheck("client") \/ FutexWait("client") \/ SpuriousWake("client")
    BY <1>1, CallValues, NextCallValues, <2>2 DEF Load, Recheck, FutexWait, SpuriousWake
  <2> QED BY <1>11, <2>1, <2>2
<1>12. CASE \E p \in Procs : Read(p)
  <2>1. CASE Read("server")
    BY <1>1, <1>2, <1>3, SuccDiffers, CallValues, NextCallValues, <2>1 DEF Read
  <2>2. CASE Read("client")
    BY <1>1, <1>2, <1>3, SuccDiffers, CallValues, NextCallValues, <2>2 DEF Read
  <2> QED BY <1>12, <2>1, <2>2
<1>13. CASE \E p \in Procs : Copy(p)
  <2>1. CASE Copy("server")
    BY <1>1, <1>2, <1>3, SuccDiffers, CallValues, NextCallValues, <2>1 DEF Copy, AfterFailedRead
  <2>2. CASE Copy("client")
    BY <1>1, <1>2, <1>3, SuccDiffers, CallValues, NextCallValues, <2>2 DEF Copy, AfterFailedRead, Frames, OneFrame, Frame
  <2> QED BY <1>13, <2>1, <2>2
<1>14. CASE \E p \in Procs : Consume(p)
  <2>1. CASE Consume("server")
    BY <1>1, <1>2, <1>3, SuccDiffers, CallValues, NextCallValues, <2>1 DEF Consume, Turn, Serving, ServerPC, Setup, Answers, Frames, Empty, OneFrame, Frame
  <2>2. CASE Consume("client")
    BY <1>1, <1>2, <1>3, SuccDiffers, CallValues, NextCallValues, <2>2 DEF Consume
  <2> QED BY <1>14, <2>1, <2>2
<1>15. CASE \E p \in Procs : Clear(p)
  <2>1. CASE Clear("server")
    BY <1>1, <1>2, <1>3, SuccDiffers, CallValues, NextCallValues, <2>1 DEF Clear, AfterClear
  <2>2. CASE Clear("client")
    BY <1>1, <1>2, <1>3, SuccDiffers, CallValues, NextCallValues, <2>2 DEF Clear, AfterClear
  <2> QED BY <1>15, <2>1, <2>2
<1>16. CASE \E p \in Procs : Reserve(p)
  <2>1. CASE Reserve("server")
    BY <1>1, <1>2, <1>3, SuccDiffers, CallValues, NextCallValues, <2>1 DEF Reserve
  <2>2. CASE Reserve("client")
    BY <1>1, <1>2, <1>3, SuccDiffers, CallValues, NextCallValues, <2>2 DEF Reserve
  <2> QED BY <1>16, <2>1, <2>2
<1>17. CASE \E p \in Procs : Fill(p)
  <2>1. CASE Fill("server")
    BY <1>1, <1>2, <1>3, SuccDiffers, CallValues, NextCallValues, <2>1 DEF Fill, AfterFailedWrite, Frames, Empty
  <2>2. CASE Fill("client")
    BY <1>1, <1>2, <1>3, SuccDiffers, CallValues, NextCallValues, <2>2 DEF Fill, AfterFailedWrite, Frames, Empty
  <2> QED BY <1>17, <2>1, <2>2
<1>18. CASE \E p \in Procs : Publish(p)
  <2>1. CASE Publish("server")
    BY <1>1, <1>2, <1>3, SuccDiffers, CallValues, NextCallValues, <2>1 DEF Publish, Echo!Answer, Frames, Empty, Answers
  <2>2. CASE Publish("client")
    BY <1>1, <1>2, <1>3, SuccDiffers, CallValues, NextCallValues, <2>2 DEF Publish, Echo!Send, Frames, Empty, Answers
  <2> QED BY <1>18, <2>1, <2>2
<1>19. CASE \E p \in Procs : Signal(p)
  <2>1. CASE Signal("server")
    <3>1. CASE pc'["client"] = pc["client"]
      BY <1>1, CallStable, <2>1, <3>1 DEF Signal, Raise, Bump, Wake, Other, AfterSignal
    <3>2. CASE pc["client"] = "asleep" /\ pc'["client"] = "check"
      BY <1>1, CallValues, NextCallValues, <2>1, <3>2 DEF Signal, Raise, Bump, Wake, Other, AfterSignal
    <3>3. QED BY <1>1, <2>1, <3>1, <3>2 DEF Signal, Raise, Bump, Wake, Other, AfterSignal
  <2>2. CASE Signal("client")
    BY <1>1, <1>2, <1>3, CallValues, NextCallValues, <2>2 DEF Signal, Raise, Bump, Wake, Other, AfterSignal
  <2> QED BY <1>19, <2>1, <2>2
<1>20. CASE UringFail
  BY <1>20 DEF UringFail
<1>21. CASE \E p \in Procs : Expire(p)
  BY <1>1, <1>21 DEF Expire, Call
<1>22. CASE UNCHANGED vars
  BY <1>22 DEF vars, Call
<1> QED
  BY <1>4, <1>5, <1>6, <1>7, <1>8, <1>9, <1>10, <1>11, <1>12, <1>13, <1>14, <1>15, <1>16, <1>17, <1>18, <1>19, <1>20, <1>21, <1>22
     DEF Next, Server, Client, Environment, Common

(***************************************************************************)
(* Every behaviour of the transport is a behaviour of the echo service:    *)
(* one call at a time, answered before the shutdown, and at most one call  *)
(* counted without an answer, after the shutdown.                          *)
(***************************************************************************)
THEOREM EchoRefinement ==
  ASSUME ~UringMayFail
  PROVE  Spec => EchoSpec
<1>1. Init => Echo!Init
  BY CallValues DEF Init, Echo!Init, Closed, Closing, Procs
<1>2. Inductive /\ Inductive' /\ [Next]_vars => [Echo!Next]_(Echo!vars)
  BY EchoStep
<1>3. QED BY <1>1, <1>2, Invariant, PTL DEF Spec, EchoSpec, Echo!Spec

-----------------------------------------------------------------------------
(* When io_uring fails.                                                    *)
(*                                                                         *)
(* A client whose wait fails goes on to its next request, and sends as     *)
(* many of them as it likes while the server is between its load of the    *)
(* futex word and the compare: three versions are not enough any more.     *)
(* What remains is a count: neither word is advanced more often than there *)
(* are requests, and twice for the shutdown.                               *)

One(b) == IF b THEN 1 ELSE 0

(* Where the client has not raised the flag for its current request yet. *)
Unsent == {"open", "attach", "failed", "loop"} \union Writing \union {"set"}

(* A call that was begun may be counted. *)
CallsLeft ==
  ops + One(pc["client"] \notin {"open", "attach", "failed", "loop", "done"}) <= MaxMsgs

ServerAdvances ==
  futex["server"] <= ops + One(pc["client"] \notin Unsent \union {"bump"})
                         + One(pc["server"] \in {"self_wake", "done"})

(* The server answers once for every time its flag is raised. *)
ClientAdvances ==
  futex["client"] + One(avail["server"]) + One(pc["server"] \in Writing \union {"set", "bump"})
    <= ops + One(pc["client"] \notin Unsent)
       + One(pc["server"] \in {"close_wake", "self_set", "self_bump", "self_wake", "done"})
       + One(pc["server"] \in {"self_bump", "self_wake", "done"})

Tally ==
  /\ CallsLeft /\ ServerAdvances /\ ClientAdvances
  /\ pc["server"] \in Reading \union {"clear"} => avail["server"]

(* No advance takes a word back to 0. *)
NoWrap ==
  /\ pc["client"] = "bump" \/ pc["server"] = "self_bump" => Inc(futex["server"]) = futex["server"] + 1
  /\ pc["server"] \in {"bump", "close_bump"} => Inc(futex["client"]) = futex["client"] + 1

LEMMA TallyBounds ==
  ASSUME TypeOK, Tally, MaxMsgs + 2 < FutexMod
  PROVE  NoWrap
<1>1. /\ futex["server"] \in Nat /\ futex["client"] \in Nat /\ ops \in Nat
      /\ MaxMsgs \in Nat /\ FutexMod \in Nat
  BY LfshmAssumption DEF TypeOK, Procs
<1>2. ASSUME pc["client"] = "bump" \/ pc["server"] = "self_bump"
      PROVE  futex["server"] + 1 < FutexMod
  <2>1. ops <= MaxMsgs /\ futex["server"] <= ops + 1
    BY <1>1, <1>2 DEF Tally, CallsLeft, ServerAdvances, One
  <2> QED BY <1>1, <2>1
<1>3. ASSUME pc["server"] \in {"bump", "close_bump"}
      PROVE  futex["client"] + 1 < FutexMod
  <2>1. ops <= MaxMsgs /\ futex["client"] <= ops + 1
    BY <1>1, <1>3 DEF Tally, CallsLeft, ClientAdvances, One
  <2> QED BY <1>1, <2>1
<1> QED BY <1>1, <1>2, <1>3 DEF NoWrap, Inc

LEMMA TallyStep ==
  ASSUME TypeOK, Tally, NoWrap, [Next]_vars
  PROVE  Tally'
<1> USE DEF Tally, CallsLeft, ServerAdvances, ClientAdvances, One, Unsent, Reading, Writing, Procs, Goto,
            shared, local, stats
<1>1. /\ pc \in [Procs -> ServerPC \union ClientPC] /\ avail \in [Procs -> BOOLEAN]
      /\ futex["server"] \in Nat /\ futex["client"] \in Nat /\ ops \in Nat /\ MaxMsgs \in Nat
      /\ futex \in [Procs -> Nat]
  BY LfshmAssumption DEF TypeOK
<1>3. CASE Create \/ InitReady \/ InitMessage \/ InitResponse
  BY <1>1, <1>3 DEF Create, InitReady, InitMessage, InitResponse
<1>4. CASE ServerLoop \/ CloseReady \/ Remove
  BY <1>1, <1>4 DEF ServerLoop, CloseReady, Remove
<1>5. CASE CloseSignals
  BY <1>1, <1>5 DEF CloseSignals, Raise, Bump, Wake, NoWrap
<1>6. CASE Open \/ Attach \/ ClientStop \/ ClientCompose \/ PollReady \/ Count
  BY <1>1, <1>6 DEF Open, Attach, ClientStop, ClientCompose, PollReady, Count
<1>7. CASE \E p \in Procs : Check(p) \/ Load(p) \/ Recheck(p)
  BY <1>1, <1>7 DEF Check, Load, Recheck
<1>8. CASE \E p \in Procs : FutexWait(p) \/ SpuriousWake(p)
  BY <1>1, <1>8 DEF FutexWait, SpuriousWake
<1>9. CASE \E p \in Procs : Read(p) \/ Copy(p) \/ Consume(p)
  BY <1>1, <1>9 DEF Read, Copy, Consume, AfterFailedRead
<1>10. CASE \E p \in Procs : Clear(p)
  BY <1>1, <1>10 DEF Clear, AfterClear
<1>11. CASE \E p \in Procs : Reserve(p) \/ Fill(p) \/ Publish(p)
  BY <1>1, <1>11 DEF Reserve, Fill, Publish, AfterFailedWrite
<1>12. CASE \E p \in Procs : Signal(p)
  <2>1. CASE Signal("server")
    BY <1>1, <2>1 DEF Signal, Raise, Bump, Wake, Other, AfterSignal, NoWrap
  <2>2. CASE Signal("client")
    BY <1>1, <2>2 DEF Signal, Raise, Bump, Wake, Other, AfterSignal, NoWrap
  <2> QED BY <1>12, <2>1, <2>2
<1>13. CASE UringFail
  BY <1>1, <1>13 DEF UringFail
<1>14. CASE \E p \in Procs : Expire(p)
  BY <1>1, <1>14 DEF Expire
<1>15. CASE UNCHANGED vars
  BY <1>1, <1>15 DEF vars
<1> QED
  BY <1>3, <1>4, <1>5, <1>6, <1>7, <1>8, <1>9, <1>10, <1>11, <1>12, <1>13, <1>14, <1>15
     DEF Next, Server, Client, Environment, Common

(* A waiter has loaded the version the word has now, or an older one. *)
Loaded ==
  \A p \in Procs :
    /\ pc[p] \in Looking => val[p] <= futex[p]
    /\ pc[p] = "wait" /\ avail[p] => val[p] < futex[p] \/ Bumping(p)

LEMMA LoadedStep ==
  ASSUME TypeOK, Loaded, NoWrap, [Next]_vars
  PROVE  Loaded'
<1> USE DEF Loaded, Looking, Bumping, Procs, Goto, shared, local, stats
<1>1. /\ pc \in [Procs -> ServerPC \union ClientPC] /\ avail \in [Procs -> BOOLEAN]
      /\ futex["server"] \in Nat /\ futex["client"] \in Nat
      /\ val["server"] \in Nat /\ val["client"] \in Nat
      /\ futex \in [Procs -> Nat] /\ val \in [Procs -> Nat]
  BY LfshmAssumption DEF TypeOK
<1>3. CASE Create \/ InitReady \/ InitMessage \/ InitResponse
  BY <1>1, <1>3 DEF Create, InitReady, InitMessage, InitResponse
<1>4. CASE ServerLoop \/ CloseReady \/ Remove
  BY <1>1, <1>4 DEF ServerLoop, CloseReady, Remove
<1>5. CASE CloseSignals
  BY <1>1, <1>5 DEF CloseSignals, Raise, Bump, Wake, NoWrap
<1>6. CASE Open \/ Attach \/ ClientStop \/ ClientCompose \/ PollReady \/ Count
  BY <1>1, <1>6 DEF Open, Attach, ClientStop, ClientCompose, PollReady, Count
<1>7. CASE \E p \in Procs : Check(p) \/ Load(p) \/ Recheck(p)
  BY <1>1, <1>7 DEF Check, Load, Recheck
<1>8. CASE \E p \in Procs : FutexWait(p) \/ SpuriousWake(p)
  BY <1>1, <1>8 DEF FutexWait, SpuriousWake
<1>9. CASE \E p \in Procs : Read(p) \/ Copy(p) \/ Consume(p)
  BY <1>1, <1>9 DEF Read, Copy, Consume, AfterFailedRead
<1>10. CASE \E p \in Procs : Clear(p)
  BY <1>1, <1>10 DEF Clear, AfterClear
<1>11. CASE \E p \in Procs : Reserve(p) \/ Fill(p) \/ Publish(p)
  BY <1>1, <1>11 DEF Reserve, Fill, Publish, AfterFailedWrite
<1>12. CASE \E p \in Procs : Signal(p)
  <2>1. CASE Signal("server")
    BY <1>1, <2>1 DEF Signal, Raise, Bump, Wake, Other, AfterSignal, NoWrap
  <2>2. CASE Signal("client")
    BY <1>1, <2>2 DEF Signal, Raise, Bump, Wake, Other, AfterSignal, NoWrap
  <2> QED BY <1>12, <2>1, <2>2
<1>13. CASE UringFail
  BY <1>1, <1>13 DEF UringFail
<1>14. CASE \E p \in Procs : Expire(p)
  BY <1>1, <1>14 DEF Expire
<1>15. CASE UNCHANGED vars
  BY <1>1, <1>15 DEF vars
<1> QED
  BY <1>3, <1>4, <1>5, <1>6, <1>7, <1>8, <1>9, <1>10, <1>11, <1>12, <1>13, <1>14, <1>15
     DEF Next, Server, Client, Environment, Common

(***************************************************************************)
(* No wake-up is lost, whatever io_uring does and whenever the client      *)
(* starts, while fewer requests are sent than a futex word has versions.   *)
(***************************************************************************)
THEOREM WakeupsArriveAnyway ==
  ASSUME MaxMsgs + 2 < FutexMod
  PROVE  Spec => []NoLostWakeup
<1> DEFINE Counted == TypeOK /\ Tally /\ Loaded /\ NoLostWakeup
<1>1. Init => Counted
  <2> SUFFICES ASSUME Init PROVE Counted
    OBVIOUS
  <2>1. Tally
    BY LfshmAssumption
       DEF Init, Tally, CallsLeft, ServerAdvances, ClientAdvances, One, Unsent, Reading, Writing, Procs
  <2>2. Loaded /\ NoLostWakeup
    BY DEF Init, Loaded, Looking, NoLostWakeup, Procs
  <2> QED BY <2>1, <2>2, TypeInit
<1>2. Counted /\ [Next]_vars => Counted'
  <2> SUFFICES ASSUME Counted, [Next]_vars PROVE Counted'
    OBVIOUS
  <2>1. NoWrap
    BY TallyBounds
  <2>2. Caught
    <3>1. \A p \in Procs : futex[p] \in Nat /\ val[p] \in Nat
      BY LfshmAssumption DEF TypeOK
    <3> QED BY <3>1 DEF Loaded, Caught
  <2> QED BY <2>1, <2>2, StepType, TallyStep, LoadedStep, WakeupStep
<1>3. Counted => NoLostWakeup
  OBVIOUS
<1> QED BY <1>1, <1>2, <1>3, PTL DEF Spec
=============================================================================

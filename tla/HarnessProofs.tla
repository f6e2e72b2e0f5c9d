---------------------------- MODULE HarnessProofs ----------------------------
(***************************************************************************)
(* What holds of Harness for any number of makes and rounds.               *)
(***************************************************************************)
EXTENDS Harness, FiniteSetTheorems, TLAPS

-----------------------------------------------------------------------------
(* Types, and who uses which segment.                                      *)

(* The states of a server that has a segment, but "done". *)
Using == {"truncate", "init", "run", "close", "remove"}

(* Nobody uses a segment before it has been created. *)
Created ==
  /\ \A m \in Makes : client[m] \in {"attach", "run"} => clientSeg[m] \in Segments
  /\ \A m \in Makes : server[m] \in Using => serverSeg[m] \in Segments /\ state[serverSeg[m]] # "none"

Inductive == TypeOK /\ Created /\ OneServerPerSegment

LEMMA CreateStep ==
  ASSUME Inductive, NEW m \in Makes, Create(m)
  PROVE  Inductive'
<1> USE DEF Inductive, TypeOK, Created, OneServerPerSegment, Using, setting
<1>1. CASE name # NoSegment
  BY <1>1 DEF Create, ServerGoto, ServerPC
<1>2. CASE name = NoSegment
  <2>1. PICK s \in Segments :
          /\ state[s] = "none"
          /\ serverSeg' = [serverSeg EXCEPT ![m] = s]
          /\ name' = s
          /\ state' = [state EXCEPT ![s] = "empty"]
    BY <1>2 DEF Create
  <2>2. /\ server[m] = "create"
        /\ server' = [server EXCEPT ![m] = "truncate"]
        /\ UNCHANGED <<active, timely, called, step, rounds, client, clientSeg>>
    BY <1>2 DEF Create, ServerGoto
  <2>3. TypeOK'
    BY <2>1, <2>2 DEF ServerPC
  <2>4. Created'
    BY <2>1, <2>2
  <2>5. OneServerPerSegment'
    BY <2>1, <2>2
  <2> QED BY <2>3, <2>4, <2>5
<1> QED BY <1>1, <1>2

LEMMA StepInductive == Inductive /\ [Next]_vars => Inductive'
<1> SUFFICES ASSUME Inductive, [Next]_vars PROVE Inductive'
  OBVIOUS
<1> USE DEF Inductive, TypeOK, Created, OneServerPerSegment, Using, setting, files
<1>1. ASSUME NEW m \in Makes, Unlink(m) \/ Stop(m) \/ Remove(m) PROVE Inductive'
  BY <1>1 DEF Unlink, Stop, Remove, ServerGoto, ServerPC
<1>2. ASSUME NEW m \in Makes, Truncate(m) \/ SetReady(m) \/ Close(m) PROVE Inductive'
  BY <1>2 DEF Truncate, SetReady, Close, Become, ServerGoto, ServerPC
<1>3. ASSUME NEW m \in Makes, Open(m) \/ Finish(m) \/ FinishAlone(m) PROVE Inductive'
  BY <1>3 DEF Open, Finish, FinishAlone, ClientGoto, ClientPC
<1>4. ASSUME NEW m \in Makes, Attach(m) PROVE Inductive'
  BY <1>4 DEF Attach, ClientGoto, ClientPC
<1>5. ASSUME NEW m \in Makes, StartServer(m) PROVE Inductive'
  BY <1>5, HarnessAssumption DEF StartServer, StepGoto, ServerPC
<1>6. ASSUME NEW m \in Makes, StartClient(m) \/ ClientEnded(m) PROVE Inductive'
  BY <1>6 DEF StartClient, ClientEnded, StepGoto, ClientPC
<1>7. ASSUME NEW m \in Makes, KillServer(m) \/ Interrupt(m) PROVE Inductive'
  BY <1>7 DEF KillServer, Interrupt, EndRound, ServerPC, ClientPC
<1>8. CASE UNCHANGED vars
  BY <1>8 DEF vars
<1> QED
  BY <1>1, <1>2, <1>3, <1>4, <1>5, <1>6, <1>7, <1>8, CreateStep DEF Next, Setup, End, Client, Make

LEMMA InitInductive == Init => Inductive
<1> SUFFICES ASSUME Init PROVE Inductive
  OBVIOUS
<1>1. TypeOK
  BY HarnessAssumption DEF Init, TypeOK, ServerPC, ClientPC
<1>2. Created /\ OneServerPerSegment
  BY DEF Init, Created, OneServerPerSegment, Using
<1> QED BY <1>1, <1>2 DEF Inductive

(***************************************************************************)
(* The variables keep their types; between two rounds no process is left.  *)
(***************************************************************************)
THEOREM TypeInv == Spec => []TypeOK
<1>1. Inductive => TypeOK
  BY DEF Inductive
<1> QED BY <1>1, InitInductive, StepInductive, PTL DEF Spec

(***************************************************************************)
(* No two servers ever serve one segment, however many makes overlap and   *)
(* wherever they are interrupted.                                          *)
(***************************************************************************)
THEOREM ServersApart == Spec => []OneServerPerSegment
<1>1. Inductive => OneServerPerSegment
  BY DEF Inductive
<1> QED BY <1>1, InitInductive, StepInductive, PTL DEF Spec

-----------------------------------------------------------------------------
(* One make alone.                                                         *)

(* What has been called has been created. *)
CalledExist == \A s \in called : state[s] # "none"

(* The make m is the only one: what its server does to the name holds.     *)
Alone(m) ==
  active = {m} =>
    /\ \A n \in Makes : n # m => step[n] = "start"
    /\ server[m] = "create" => name = NoSegment
    /\ server[m] # "failed"
    /\ server[m] \in Using => name = serverSeg[m]
    /\ server[m] = "done" => name = NoSegment /\ serverSeg[m] \in Segments
    /\ server[m] \in {"run", "close"} => state[serverSeg[m]] = "ready"
    /\ server[m] \in {"remove", "done"} => state[serverSeg[m]] = "closed"

(* In a calm round the client starts after the setup, and the server goes  *)
(* only after the client's first call.                                     *)
InTime(m) ==
  timely /\ active = {m} =>
    /\ step[m] = "sleep" => client[m] = "none"
    /\ step[m] # "start" => server[m] # "none"
    /\ client[m] = "none" => server[m] \notin {"close", "remove", "done"}
    /\ step[m] \in {"client", "kill"} => server[m] \in {"run", "close", "remove", "done"}
    /\ client[m] \in {"none", "open", "attach", "run", "done"}
    /\ server[m] \in {"truncate", "init"} => serverSeg[m] \notin called
    /\ server[m] = "run" /\ client[m] \in {"none", "open", "attach"} => serverSeg[m] \notin called
    /\ client[m] \in {"open", "attach"} => server[m] = "run"
    /\ client[m] \in {"attach", "run"} => clientSeg[m] = serverSeg[m]

Rounds == Inductive /\ CalledExist /\ \A m \in Makes : Alone(m) /\ InTime(m)

LEMMA LoneMakeSteps ==
  ASSUME Rounds, NEW m \in Makes, active = {m}, Next
  PROVE  \/ Setup(m) \/ Stop(m) \/ End(m) \/ Client(m) \/ FinishAlone(m) \/ Make(m) \/ Interrupt(m)
<1>1. PICK n \in Makes : \/ Setup(n) \/ Stop(n) \/ End(n) \/ Client(n) \/ FinishAlone(n) \/ Make(n)
                         \/ Interrupt(n)
  BY DEF Next
<1>2. SUFFICES ASSUME n # m PROVE FALSE
  BY <1>1
<1>3. step[n] = "start" /\ server[n] = "none" /\ client[n] = "none"
  BY <1>2 DEF Rounds, Alone, Inductive, TypeOK
<1> QED
  BY <1>1, <1>2, <1>3
     DEF Setup, Unlink, Create, Truncate, SetReady, Become, Stop, End, Close, Remove, ServerGoto,
         Client, Open, Attach, Finish, FinishAlone, ClientGoto,
         Make, StartServer, StartClient, ClientEnded, KillServer, Interrupt, StepGoto

LEMMA CalledStep == Inductive /\ CalledExist /\ [Next]_vars => CalledExist'
<1> SUFFICES ASSUME Inductive, CalledExist, [Next]_vars PROVE CalledExist'
  OBVIOUS
<1> USE DEF Inductive, TypeOK, CalledExist, setting, files
<1>1. ASSUME NEW m \in Makes, Create(m) PROVE CalledExist'
  BY <1>1 DEF Create
<1>2. ASSUME NEW m \in Makes, Truncate(m) \/ SetReady(m) \/ Close(m) PROVE CalledExist'
  BY <1>2 DEF Truncate, SetReady, Close, Become
<1>3. ASSUME NEW m \in Makes, Attach(m) PROVE CalledExist'
  BY <1>3 DEF Attach
<1>4. ASSUME NEW m \in Makes,
             \/ Unlink(m) \/ Stop(m) \/ Remove(m) \/ Open(m) \/ Finish(m) \/ FinishAlone(m)
             \/ Make(m) \/ Interrupt(m) \/ UNCHANGED vars
      PROVE  CalledExist'
  BY <1>4 DEF Unlink, Stop, Remove, Open, Finish, FinishAlone, Make, StartServer, StartClient,
              ClientEnded, KillServer, Interrupt, EndRound, vars
<1>5. CASE UNCHANGED vars
  BY <1>5 DEF vars
<1> QED BY <1>1, <1>2, <1>3, <1>4, <1>5 DEF Next, Setup, End, Client

LEMMA LoneStep ==
  ASSUME Rounds, Inductive', NEW m \in Makes, active = {m},
         \/ Setup(m) \/ Stop(m) \/ End(m) \/ Client(m) \/ FinishAlone(m) \/ Make(m) \/ Interrupt(m)
  PROVE  Alone(m)' /\ InTime(m)'
<1> USE DEF Rounds, Inductive, TypeOK, Created, CalledExist, Using, setting, files
<1>1. Alone(m) /\ InTime(m)
  OBVIOUS
<1>2. CASE Unlink(m)
  BY <1>1, <1>2 DEF Alone, InTime, Unlink, ServerGoto
<1>3. CASE Create(m)
  <2>1. name = NoSegment
    BY <1>1, <1>3 DEF Alone, Create, ServerGoto
  <2>2. PICK s \in Segments :
          /\ state[s] = "none"
          /\ serverSeg' = [serverSeg EXCEPT ![m] = s]
          /\ name' = s
          /\ state' = [state EXCEPT ![s] = "empty"]
    BY <1>3, <2>1 DEF Create
  <2>3. /\ server[m] = "create"
        /\ server' = [server EXCEPT ![m] = "truncate"]
        /\ UNCHANGED <<active, timely, called, step, rounds, client, clientSeg>>
    BY <1>3, <2>1 DEF Create, ServerGoto
  <2>4. Alone(m)'
    BY <1>1, <2>2, <2>3 DEF Alone
  <2>5. InTime(m)'
    BY <1>1, <2>2, <2>3 DEF InTime
  <2> QED BY <2>4, <2>5
<1>4. CASE Truncate(m) \/ SetReady(m) \/ Close(m)
  BY <1>1, <1>4 DEF Alone, InTime, Truncate, SetReady, Close, Become, ServerGoto
<1>5. CASE Stop(m) \/ Remove(m)
  BY <1>1, <1>5 DEF Alone, InTime, Stop, Remove, ServerGoto
<1>6. CASE Open(m)
  BY <1>1, <1>6 DEF Alone, InTime, Open, ClientGoto, Segments, NoSegment
<1>7. CASE Attach(m)
  BY <1>1, <1>7 DEF Alone, InTime, Attach, ClientGoto
<1>8. CASE Finish(m) \/ FinishAlone(m)
  BY <1>1, <1>8 DEF Alone, InTime, Finish, FinishAlone, ClientGoto
<1>9. CASE StartServer(m) \/ StartClient(m) \/ ClientEnded(m)
  BY <1>1, <1>9 DEF Alone, InTime, StartServer, StartClient, ClientEnded, StepGoto, ServerPC
<1>10. CASE KillServer(m) \/ Interrupt(m)
  BY <1>1, <1>10 DEF Alone, InTime, KillServer, Interrupt, EndRound
<1> QED
  BY <1>2, <1>3, <1>4, <1>5, <1>6, <1>7, <1>8, <1>9, <1>10 DEF Setup, End, Client, Make

LEMMA RoundsStep == Rounds /\ [Next]_vars => Rounds'
<1> SUFFICES ASSUME Rounds, [Next]_vars PROVE Rounds'
  OBVIOUS
<1>1. Inductive' /\ CalledExist'
  BY StepInductive, CalledStep DEF Rounds
<1>2. active' = active
  BY DEF Next, Setup, Unlink, Create, Truncate, SetReady, Become, Stop, End, Close, Remove,
         Client, Open, Attach, Finish, FinishAlone,
         Make, StartServer, StartClient, ClientEnded, KillServer, Interrupt, EndRound, setting, vars
<1>3. ASSUME NEW m \in Makes PROVE Alone(m)' /\ InTime(m)'
  <2>1. CASE active # {m}
    BY <1>2, <2>1 DEF Alone, InTime
  <2>2. CASE active = {m} /\ Next
    BY <1>1, <2>2, LoneMakeSteps, LoneStep
  <2>3. CASE UNCHANGED vars
    BY <2>3 DEF Rounds, Alone, InTime, vars, setting, files
  <2> QED BY <2>1, <2>2, <2>3
<1> QED BY <1>1, <1>3 DEF Rounds

LEMMA RoundsInit == Init => Rounds
<1> SUFFICES ASSUME Init PROVE Rounds
  OBVIOUS
<1>1. CalledExist
  BY DEF Init, CalledExist
<1>2. \A m \in Makes : Alone(m) /\ InTime(m)
  BY DEF Init, Alone, InTime, Using
<1> QED BY <1>1, <1>2, InitInductive DEF Rounds

LEMMA CalmMake ==
  ASSUME TypeOK, Cardinality(active) = 1
  PROVE  \E m \in Makes : active = {m}
<1>1. IsFiniteSet(active)
  BY HarnessAssumption, FS_Subset DEF TypeOK
<1>2. PICK m : active = {m}
  BY <1>1, FS_Singleton
<1> QED BY <1>2 DEF TypeOK

(***************************************************************************)
(* A calm round succeeds, for any number of rounds before it, interrupted  *)
(* ones included.                                                          *)
(***************************************************************************)
THEOREM CalmSuccess == Spec => []CalmRoundSucceeds
<1>1. Rounds => CalmRoundSucceeds
  <2> SUFFICES ASSUME Rounds, Calm, NEW m \in active
               PROVE  /\ server[m] # "failed"
                      /\ client[m] \notin {"failed", "crashed"}
                      /\ client[m] \in {"attach", "run"} => clientSeg[m] = serverSeg[m] /\ Served(m)
    BY DEF CalmRoundSucceeds
  <2>1. m \in Makes /\ active = {m} /\ timely
    BY CalmMake DEF Rounds, Inductive, TypeOK, Calm
  <2>2. Alone(m) /\ InTime(m)
    BY <2>1 DEF Rounds
  <2>3. server[m] # "failed" /\ client[m] \notin {"failed", "crashed"}
    BY <2>1, <2>2 DEF Alone, InTime
  <2>4. ASSUME client[m] \in {"attach", "run"} PROVE clientSeg[m] = serverSeg[m] /\ Served(m)
    <3>1. clientSeg[m] = serverSeg[m]
      BY <2>1, <2>2, <2>4 DEF InTime
    <3>2. server[m] \in {"run", "close", "remove", "done"}
      BY <2>1, <2>2, <2>4 DEF InTime, Rounds, Inductive, TypeOK
    <3> QED BY <2>1, <2>2, <3>1, <3>2 DEF Served, Alone
  <2> QED BY <2>3, <2>4
<1> QED BY <1>1, RoundsInit, RoundsStep, PTL DEF Spec

(***************************************************************************)
(* A lone server that ended by itself has removed the name.                *)
(***************************************************************************)
THEOREM NameRemoval == Spec => []NameIsRemoved
<1>1. Rounds => NameIsRemoved
  BY DEF Rounds, Inductive, TypeOK, Alone, NameIsRemoved
<1> QED BY <1>1, RoundsInit, RoundsStep, PTL DEF Spec
=============================================================================

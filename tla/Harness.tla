------------------------------- MODULE Harness -------------------------------
(***************************************************************************)
(* How the processes of a shared-memory benchmark are started and ended,   *)
(* and what becomes of the name they meet under.  The makefile starts a    *)
(* server, sleeps, runs a client to its end, kills the server and goes on  *)
(* to the next round; an interrupted round leaves a killed server behind.  *)
(* Two makes may run at a time, nothing in the program prevents it.        *)
(*                                                                         *)
(* The servers of the four transports create and remove the segment alike. *)
(* A segment lives on without its name as long as a process has it mapped. *)
(***************************************************************************)
EXTENDS Naturals, FiniteSets

CONSTANTS
  Makes,    \* runs of make that may overlap
  MaxRounds \* bound: rounds that all makes together start

ASSUME HarnessAssumption == IsFiniteSet(Makes) /\ MaxRounds \in Nat

(* As many as servers can be started. *)
Segments == 1..MaxRounds
NoSegment == 0

VARIABLES
  \* the setting
  active,    \* the makes that run
  timely,    \* sleep gives a server the time for its setup
  \* the file system
  name,      \* the segment that the name stands for
  state,     \* of each segment
  called,    \* the segments in which a client has made a call
  \* each make
  step,
  rounds,    \* rounds started, by all makes
  server,    \* its server process
  serverSeg, \* the segment that the server has mapped
  client,
  clientSeg

setting == <<active, timely>>
files == <<name, state, called>>
vars == <<setting, files, step, rounds, server, serverSeg, client, clientSeg>>

ServerPC == {"none", "unlink", "create", "truncate", "init", "run", "close", "remove", "done", "failed"}
ClientPC == {"none", "open", "attach", "run", "done", "failed", "crashed"}

TypeOK ==
  /\ active \subseteq Makes
  /\ timely \in BOOLEAN
  /\ name \in Segments \union {NoSegment}
  /\ state \in [Segments -> {"none", "empty", "sized", "ready", "closed"}]
  /\ called \subseteq Segments
  /\ step \in [Makes -> {"start", "sleep", "client", "kill"}]
  /\ rounds \in 0..MaxRounds
  /\ server \in [Makes -> ServerPC]
  /\ serverSeg \in [Makes -> Segments \union {NoSegment}]
  /\ client \in [Makes -> ClientPC]
  /\ clientSeg \in [Makes -> Segments \union {NoSegment}]
  /\ \A m \in Makes : step[m] = "start" => server[m] = "none" /\ client[m] = "none"

Init ==
  /\ active \in (SUBSET Makes) \ {{}}
  /\ timely \in BOOLEAN
  /\ name = NoSegment
  /\ state = [s \in Segments |-> "none"]
  /\ called = {}
  /\ step = [m \in Makes |-> "start"]
  /\ rounds = 0
  /\ server = [m \in Makes |-> "none"]
  /\ serverSeg = [m \in Makes |-> NoSegment]
  /\ client = [m \in Makes |-> "none"]
  /\ clientSeg = [m \in Makes |-> NoSegment]

-----------------------------------------------------------------------------
(* The server process, from its setup to its end.                          *)

ServerGoto(m, from, to) ==
  /\ server[m] = from
  /\ server' = [server EXCEPT ![m] = to]

(* Fault: the name of an earlier server is left in the way. *)
UnlinkNothing(m) ==
  /\ ServerGoto(m, "unlink", "create")
  /\ UNCHANGED <<setting, files, step, rounds, serverSeg, client, clientSeg>>

Unlink(m) ==
  /\ ServerGoto(m, "unlink", "create")
  /\ name' = NoSegment
  /\ UNCHANGED <<setting, state, called, step, rounds, serverSeg, client, clientSeg>>

(* Fault: without O_EXCL a server takes the segment it finds. *)
CreateOrOpen(m) ==
  /\ ServerGoto(m, "create", "truncate")
  /\ \E s \in Segments :
       /\ IF name # NoSegment
          THEN s = name
          ELSE state[s] = "none" /\ \A t \in 1..(s - 1) : state[t] # "none"
       /\ serverSeg' = [serverSeg EXCEPT ![m] = s]
       /\ name' = s
       /\ state' = [state EXCEPT ![s] = "empty"]
  /\ UNCHANGED <<setting, called, step, rounds, client, clientSeg>>

(* O_EXCL: a server that finds the name taken gives up.                    *)
Create(m) ==
  /\ \/ /\ name # NoSegment
        /\ ServerGoto(m, "create", "failed")
        /\ UNCHANGED <<name, state, serverSeg>>
     \/ /\ name = NoSegment
        /\ ServerGoto(m, "create", "truncate")
        /\ \E s \in Segments :
             /\ state[s] = "none" /\ \A t \in 1..(s - 1) : state[t] # "none"
             /\ serverSeg' = [serverSeg EXCEPT ![m] = s]
             /\ name' = s
             /\ state' = [state EXCEPT ![s] = "empty"]
  /\ UNCHANGED <<setting, called, step, rounds, client, clientSeg>>

(* The state of the segment of m's server. *)
Become(m, from, to, new) ==
  /\ ServerGoto(m, from, to)
  /\ state' = [state EXCEPT ![serverSeg[m]] = new]
  /\ UNCHANGED <<setting, name, called, step, rounds, serverSeg, client, clientSeg>>

Truncate(m) == Become(m, "truncate", "init", "sized")

SetReady(m) == Become(m, "init", "run", "ready")

(* A server ends only after a call: before the first it waits in its loop. *)
Stop(m) ==
  /\ serverSeg[m] \in called
  /\ ServerGoto(m, "run", "close")
  /\ UNCHANGED <<setting, files, step, rounds, serverSeg, client, clientSeg>>

Close(m) == Become(m, "close", "remove", "closed")

(* Whichever segment has the name by now. *)
Remove(m) ==
  /\ ServerGoto(m, "remove", "done")
  /\ name' = NoSegment
  /\ UNCHANGED <<setting, state, called, step, rounds, serverSeg, client, clientSeg>>

Setup(m) == Unlink(m) \/ Create(m) \/ Truncate(m) \/ SetReady(m)

End(m) == Close(m) \/ Remove(m)

-----------------------------------------------------------------------------
(* The client process.                                                     *)

ClientGoto(m, from, to) ==
  /\ client[m] = from
  /\ client' = [client EXCEPT ![m] = to]

Open(m) ==
  /\ ClientGoto(m, "open", IF name = NoSegment THEN "failed" ELSE "attach")
  /\ clientSeg' = [clientSeg EXCEPT ![m] = name]
  /\ UNCHANGED <<setting, files, step, rounds, server, serverSeg>>

(* To read ready in a segment without pages is a bus error; a client that  *)
(* finds ready false goes on polling.                                      *)
Attach(m) ==
  /\ client[m] = "attach"
  /\ \/ state[clientSeg[m]] = "empty" /\ ClientGoto(m, "attach", "crashed") /\ UNCHANGED called
     \/ /\ state[clientSeg[m]] = "ready"
        /\ ClientGoto(m, "attach", "run")
        /\ called' = called \union {clientSeg[m]}
  /\ UNCHANGED <<setting, name, state, step, rounds, server, serverSeg, clientSeg>>

(* Somebody answers the client's calls, or has told it that it will not. *)
Served(m) ==
  \/ state[clientSeg[m]] = "closed"
  \/ \E n \in Makes : serverSeg[n] = clientSeg[m] /\ server[n] \in {"run", "close"}

Finish(m) ==
  /\ ClientGoto(m, "run", "done")
  /\ Served(m)
  /\ UNCHANGED <<setting, files, step, rounds, server, serverSeg, clientSeg>>

(* A client whose server was killed may find its time over, or wait for    *)
(* ever.                                                                   *)
FinishAlone(m) ==
  /\ ClientGoto(m, "run", "done")
  /\ ~Served(m)
  /\ UNCHANGED <<setting, files, step, rounds, server, serverSeg, clientSeg>>

Client(m) == Open(m) \/ Attach(m) \/ Finish(m)

-----------------------------------------------------------------------------
(* run_benchmark of the makefile.                                          *)

StepGoto(m, from, to) ==
  /\ step[m] = from
  /\ step' = [step EXCEPT ![m] = to]

StartServer(m) ==
  /\ m \in active
  /\ rounds < MaxRounds
  /\ StepGoto(m, "start", "sleep")
  /\ rounds' = rounds + 1
  /\ server' = [server EXCEPT ![m] = "unlink"]
  /\ UNCHANGED <<setting, files, serverSeg, client, clientSeg>>

(* Fault: no sleep. *)
StartClientAtOnce(m) ==
  /\ StepGoto(m, "sleep", "client")
  /\ client' = [client EXCEPT ![m] = "open"]
  /\ UNCHANGED <<setting, files, rounds, server, serverSeg, clientSeg>>

StartClient(m) ==
  /\ timely => server[m] \notin {"unlink", "create", "truncate", "init"}
  /\ StepGoto(m, "sleep", "client")
  /\ client' = [client EXCEPT ![m] = "open"]
  /\ UNCHANGED <<setting, files, rounds, server, serverSeg, clientSeg>>

ClientEnded(m) ==
  /\ client[m] \in {"done", "failed", "crashed"}
  /\ StepGoto(m, "client", "kill")
  /\ UNCHANGED <<setting, files, rounds, server, serverSeg, client, clientSeg>>

(* SIGTERM, for which no handler is installed: a server that has not ended *)
(* by itself runs no more code.                                            *)
EndRound(m) ==
  /\ step' = [step EXCEPT ![m] = "start"]
  /\ server' = [server EXCEPT ![m] = "none"]
  /\ serverSeg' = [serverSeg EXCEPT ![m] = NoSegment]
  /\ client' = [client EXCEPT ![m] = "none"]
  /\ clientSeg' = [clientSeg EXCEPT ![m] = NoSegment]
  /\ UNCHANGED <<setting, files, rounds>>

KillServer(m) == step[m] = "kill" /\ EndRound(m)

(* The user interrupts a round: both processes are killed, wherever they   *)
(* are.                                                                    *)
Interrupt(m) == step[m] \in {"sleep", "client"} /\ EndRound(m)

Make(m) == StartServer(m) \/ StartClient(m) \/ ClientEnded(m) \/ KillServer(m)

Next ==
  \E m \in Makes : Setup(m) \/ Stop(m) \/ End(m) \/ Client(m) \/ FinishAlone(m) \/ Make(m) \/ Interrupt(m)

Spec == Init /\ [][Next]_vars

(* Processes that are not waiting run; a server need not reach its end.    *)
FairSpec ==
  /\ Spec
  /\ \A m \in Makes : WF_vars(Setup(m)) /\ WF_vars(End(m)) /\ WF_vars(Client(m)) /\ WF_vars(Make(m))

-----------------------------------------------------------------------------

(* What the makefile arranges and hopes for: one at a time, and in time. *)
Calm == timely /\ Cardinality(active) = 1

(***************************************************************************)
(* However the makes overlap, no two servers serve one segment: O_EXCL     *)
(* turns away a server whose unlink another one has overtaken.             *)
(***************************************************************************)
OneServerPerSegment ==
  \A m, n \in Makes :
    /\ m # n
    /\ {server[m], server[n]} \subseteq {"truncate", "init", "run", "close", "remove"}
    => serverSeg[m] # serverSeg[n]

(***************************************************************************)
(* In a calm round nothing fails, whatever the rounds before have left     *)
(* behind: the setup succeeds, and the client opens, attaches to and calls *)
(* the segment of its own server.                                          *)
(***************************************************************************)
CalmRoundSucceeds ==
  Calm => \A m \in active :
    /\ server[m] # "failed"
    /\ client[m] \notin {"failed", "crashed"}
    /\ client[m] \in {"attach", "run"} => clientSeg[m] = serverSeg[m] /\ Served(m)

(***************************************************************************)
(* A server that ended by itself leaves no name behind, if it was alone.   *)
(***************************************************************************)
NameIsRemoved ==
  \A m \in active : active = {m} /\ server[m] = "done" => name = NoSegment

(***************************************************************************)
(* A calm round comes to an end, also after one that was interrupted.      *)
(***************************************************************************)
CalmRoundsEnd == \A m \in Makes : (Calm /\ step[m] = "sleep") ~> (step[m] = "start")
=============================================================================

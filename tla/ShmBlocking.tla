----------------------------- MODULE ShmBlocking -----------------------------
(***************************************************************************)
(* The shared-memory transport of shm_blocking.c: a client that makes its  *)
(* calls itself, on the segment and against the server of ShmSegment.      *)
(***************************************************************************)
EXTENDS ShmSegment

CONSTANT MaxMsgs \* bound: requests the client sends

ASSUME ShmBlockingAssumption == MaxMsgs \in Nat

VARIABLES
  ops,        \* the client's statistics
  unanswered  \* ghost: the ops among them that counted the client's own request

stats == <<ops, unanswered>>
vars == <<segVars, stats>>

ClientPC ==
  {"open", "attach", "loop", "lock", "write", "test", "waiting", "woken", "check", "done", "failed"}

TypeOK ==
  /\ SegmentTypeOK(ClientPC)
  /\ ops \in Nat
  /\ unanswered \in Nat

Init ==
  /\ SegmentInit
  /\ ops = 0
  /\ unanswered = 0

-----------------------------------------------------------------------------
(* run_shm_blocking_client.                                                *)

ClientStop ==
  /\ expired["client"]
  /\ Goto("client", "loop", "done")
  /\ UNCHANGED <<shared, msg, expired, stores, dropped>>

(* random_message increments the sequence number of whatever message the   *)
(* buffer holds, the last response included.                               *)
ClientCompose ==
  /\ ~expired["client"]
  /\ ops < MaxMsgs
  /\ Goto("client", "loop", "lock")
  /\ msg' = [msg EXCEPT !["client"] = [seq |-> msg["client"].seq + 1, from |-> "client"]]
  /\ UNCHANGED <<shared, expired, stores, dropped>>

(* A client that finds the server gone leaves its request behind.          *)
Request ==
  /\ pc["client"] = "write"
  /\ IF Fits
     THEN /\ Put("client")
          /\ avail' = Raised("server")
          /\ pc' = [pc EXCEPT !["client"] = IF ready THEN "test" ELSE "done",
                              !["server"] = Signalled("server")]
          /\ mutex' = IF ready THEN "client" ELSE Nobody
     ELSE /\ pc' = [pc EXCEPT !["client"] = "done"]
          /\ mutex' = Nobody
          /\ UNCHANGED <<ringVars, avail>>
  /\ UNCHANGED <<segment, ready, msg, expired, stores, dropped>>

(* After a read that fails the client gives up. *)
ClientReceive ==
  /\ avail["client"]
  /\ IF Empty
     THEN /\ Goto("client", "test", "done")
          /\ UNCHANGED <<avail, ringVars, msg>>
     ELSE /\ Goto("client", "test", "check")
          /\ Get("client")
          /\ avail' = Lowered("client")
  /\ mutex' = Nobody
  /\ UNCHANGED <<segment, ready, expired, stores, dropped>>

(* validate_message refuses the response. *)
Refuse ==
  /\ Goto("client", "check", "done")
  /\ UNCHANGED <<shared, msg, expired, stores, dropped>>

Count ==
  /\ Goto("client", "check", "loop")
  /\ ops' = ops + 1
  /\ unanswered' = IF msg["client"].from = "client" THEN unanswered + 1 ELSE unanswered
  /\ UNCHANGED <<shared, msg, expired, stores, dropped>>

-----------------------------------------------------------------------------

Server == (Setup \/ Serve \/ FreeServer) /\ UNCHANGED stats

ClientLocks == Lock("client", "lock", "write") \/ Lock("client", "woken", "test")

Client ==
  \/ /\ \/ Open \/ Attach
        \/ ClientStop \/ ClientCompose
        \/ ClientLocks
        \/ Request
        \/ Wait("client") \/ ClientReceive
        \/ Refuse
     /\ UNCHANGED stats
  \/ Count

Next == Server \/ Client \/ (Environment /\ UNCHANGED stats)

Spec == Init /\ [][Next]_vars

(***************************************************************************)
(* Both processes run, the clock goes on, and a process that asks for the  *)
(* mutex again and again gets it in the end.  Strong fairness of the mutex *)
(* only rules out that spurious wake-ups of the other process take it away *)
(* for ever.                                                               *)
(***************************************************************************)
Fairness ==
  /\ WF_vars(Server)
  /\ WF_vars(Client)
  /\ SF_vars(ServerLocks /\ UNCHANGED stats)
  /\ SF_vars(ClientLocks /\ UNCHANGED stats)
  /\ \A p \in Procs : WF_vars(Expire(p) /\ UNCHANGED stats)

FairSpec == Spec /\ Fairness

-----------------------------------------------------------------------------
(* Safety.                                                                 *)

(***************************************************************************)
(* The message the client counts is the one of the call it is making: no   *)
(* response of an earlier call is left over in the ring.                   *)
(***************************************************************************)
NoStaleAnswer == pc["client"] = "check" => msg["client"].seq = ops + 1

(***************************************************************************)
(* A call is counted without an answer only when the server shuts down     *)
(* while the request waits in the ring, and this happens once at most.     *)
(***************************************************************************)
UnansweredOnlyAtShutdown == unanswered > 0 => unanswered = 1 /\ ~ready

-----------------------------------------------------------------------------
(* What the program promises of a call.                                    *)

Call ==
  CASE pc["client"] \in {"test", "waiting", "woken"} ->
         IF ~Empty /\ ring[readPos].from = "server" THEN "answered" ELSE "sent"
    [] pc["client"] = "check" ->
         IF msg["client"].from = "server" THEN "answered" ELSE "sent"
    [] OTHER -> "none"

(* The request of a client that finds the server gone was never sent. *)
Echo == INSTANCE EchoService WITH
  call <- Call,
  closed <- Closed,
  ops <- ops,
  unanswered <- unanswered,
  left <- pc["client"] \in {"done", "failed"}

(***************************************************************************)
(* The transport implements the echo service.                              *)
(***************************************************************************)
EchoSpec == Echo!Spec

-----------------------------------------------------------------------------
(* Liveness.                                                               *)

(***************************************************************************)
(* A client that got past the setup always comes to an end, whether the    *)
(* server answers it or shuts down; only a request that the server refuses *)
(* may keep it waiting.                                                    *)
(***************************************************************************)
ClientFinishes == (pc["client"] = "loop") ~> (pc["client"] = "done" \/ dropped)
=============================================================================

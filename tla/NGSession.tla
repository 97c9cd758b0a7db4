------------------------------ MODULE NGSession ------------------------------
(***************************************************************************)
(* The session threads of a Nailgun server (NGSession.java): the monitor   *)
(* through which the server hands a connection to a thread or shuts the    *)
(* thread down, and the loop of the thread, which reads the command of a   *)
(* client, runs the nail, and returns itself to the pool.                  *)
(*                                                                         *)
(* What a nail does is any of NailOutcomes; what may go wrong around the   *)
(* program is in BreakOff and Faults.  All are constants, so that a run    *)
(* says which environments it covers.                                      *)
(***************************************************************************)
EXTENDS NGSessionPool

CONSTANTS Clients,      (* connections; a client connects at most once       *)
          NoSocket,     (* the Java null of a Socket                         *)
          BreakOff,     (* the clients that may break off, or garble, the    *)
                        (* header of their request                           *)
          NailOutcomes, (* what nails may do, a subset of Outcomes           *)
          Faults        (* what may fail, a subset of FaultKinds             *)

(* A nail returns or throws ("return"), calls System.exit ("exit"), is     *)
(* ng-stop ("stop"), or returns with its thread's interrupt flag set       *)
(* ("interrupt").                                                          *)
Outcomes == {"return", "exit", "stop", "interrupt"}

(* accept() throws although the listening socket is open, a thread cannot  *)
(* be started, the socket cannot be bound, the JVM gets a signal.          *)
FaultKinds == {"accept", "threadStart", "bind", "signal"}

ASSUME NoSocketAssumption == NoSocket \notin Clients
ASSUME EnvironmentAssumption == /\ BreakOff \subseteq Clients
                                /\ NailOutcomes \subseteq Outcomes
                                /\ Faults \subseteq FaultKinds

VARIABLES pc,          (* where each session thread is                       *)
          done,        (* NGSession.done                                     *)
          nextSocket,  (* NGSession.nextSocket                               *)
          socket,      (* the local variable `socket` of NGSession.run(),    *)
                       (* up to its last use                                 *)
          interrupted, (* the interrupt flag of the thread                   *)
          conn,        (* what has become of each client's connection        *)
          threadLocalStreams, (* System.in/out/err are the ThreadLocal ones  *)
          securityManager,    (* "nailgun" (NGSecurityManager) or "original" *)
          vm                  (* the JVM: "up", "exiting" or "halted"        *)

monitorVars == <<done, nextSocket>>
jvmVars == <<threadLocalStreams, securityManager>>
sessionVars == <<pc, done, nextSocket, socket, interrupted, conn,
                 threadLocalStreams, securityManager, vm>>
-----------------------------------------------------------------------------
(* nextSocket: about to enter, or to retest the loop of, nextSocket();     *)
(* waiting: in the wait set of the session's lock; broken: ended by an     *)
(* InterruptedException, where dead is any other end.                      *)
SessionPC == {"unborn", "nextSocket", "waiting", "headers", "nail", "stop",
              "exitVM", "close", "reset", "give", "giveSize", "push",
              "retire", "retireNotify", "broken", "dead"}

Ended(s) == pc[s] \in {"broken", "dead"}

ConnState == {"new", "queued", "refused", "accepted", "answered", "closed"}

SessionTypeOK ==
  /\ pc \in [Sessions -> SessionPC]
  /\ done \in [Sessions -> BOOLEAN]
  /\ nextSocket \in [Sessions -> Clients \cup {NoSocket}]
  /\ socket \in [Sessions -> Clients \cup {NoSocket}]
  /\ interrupted \in [Sessions -> BOOLEAN]
  /\ conn \in [Clients -> ConnState]
  /\ threadLocalStreams \in BOOLEAN
  /\ securityManager \in {"original", "nailgun"}
  /\ vm \in {"up", "exiting", "halted"}

SessionInit == /\ pc = [s \in Sessions |-> "unborn"]
               /\ done = [s \in Sessions |-> FALSE]
               /\ nextSocket = [s \in Sessions |-> NoSocket]
               /\ socket = [s \in Sessions |-> NoSocket]
               /\ interrupted = [s \in Sessions |-> FALSE]
               /\ conn = [c \in Clients |-> "new"]
               /\ threadLocalStreams = FALSE
               /\ securityManager = "original"
               /\ vm = "up"
-----------------------------------------------------------------------------
(* The operations other threads call on a session.                         *)

(* new NGSession(...) and start(); the constructor and updateThreadName    *)
(* touch nothing but the thread's name and number.                         *)
Unborn == {s \in Sessions : pc[s] = "unborn"}

FreshSession == CHOOSE s \in Unborn : TRUE

StartThread(s) == /\ Unborn # {}
                  /\ s = FreshSession
                  /\ pc' = [pc EXCEPT ![s] = "nextSocket"]

(* notify() and notifyAll(): only the session itself waits on its lock.    *)
Woken(s) == [pc EXCEPT ![s] = IF @ = "waiting" THEN "nextSocket" ELSE @]

(* Mutant: lock.notify() is missing. *)
HandOver_NoNotify(s, c) ==
  /\ nextSocket' = [nextSocket EXCEPT ![s] = c]
  /\ UNCHANGED <<pc, done, socket, interrupted, conn, jvmVars, vm>>

(* run(Socket)                                                             *)
HandOver(s, c) == /\ nextSocket' = [nextSocket EXCEPT ![s] = c]
                  /\ pc' = Woken(s)
                  /\ UNCHANGED <<done, socket, interrupted, conn, jvmVars, vm>>

(* shutdown(), first outside of the lock, then inside.                     *)
SetDone(s) == done' = [done EXCEPT ![s] = TRUE]

(* Mutant: lock.notifyAll() is missing. *)
ClearAndNotify_NoNotify(s) ==
  /\ nextSocket' = [nextSocket EXCEPT ![s] = NoSocket]
  /\ UNCHANGED <<pc, done, socket, interrupted, conn, jvmVars, vm>>

ClearAndNotify(s) == /\ nextSocket' = [nextSocket EXCEPT ![s] = NoSocket]
                     /\ pc' = Woken(s)
                     /\ UNCHANGED <<done, socket, interrupted, conn, jvmVars, vm>>
-----------------------------------------------------------------------------
(* The thread's own steps.                                                 *)

Goto(s, label) == pc' = [pc EXCEPT ![s] = label]

(* Mutant: the socket is not taken out of nextSocket. *)
ObtainSocket_Keeps(s) ==
  /\ pc[s] = "nextSocket"
  /\ nextSocket[s] # NoSocket
  /\ socket' = [socket EXCEPT ![s] = nextSocket[s]]
  /\ Goto(s, "headers")
  /\ UNCHANGED <<monitorVars, interrupted, conn, jvmVars, vm, poolVars>>

(* nextSocket(): go on with a socket, end the thread without one, or wait. *)
ObtainSocket(s) ==
  /\ pc[s] = "nextSocket"
  /\ nextSocket[s] # NoSocket
  /\ socket' = [socket EXCEPT ![s] = nextSocket[s]]
  /\ nextSocket' = [nextSocket EXCEPT ![s] = NoSocket]
  /\ Goto(s, "headers")
  /\ UNCHANGED <<done, interrupted, conn, jvmVars, vm, poolVars>>

WaitForSocket(s) ==
  /\ pc[s] = "nextSocket"
  /\ nextSocket[s] = NoSocket /\ ~done[s] /\ ~interrupted[s]
  /\ Goto(s, "waiting")
  /\ UNCHANGED <<monitorVars, socket, interrupted, conn, jvmVars, vm, poolVars>>

(* wait() throws in a thread that finds itself interrupted: the session    *)
(* shuts itself down, wherever it is, and nobody is told.                  *)
WaitInterrupted(s) ==
  /\ pc[s] = "nextSocket"
  /\ nextSocket[s] = NoSocket /\ ~done[s] /\ interrupted[s]
  /\ SetDone(s)
  /\ interrupted' = [interrupted EXCEPT ![s] = FALSE]
  /\ Goto(s, "broken")
  /\ UNCHANGED <<nextSocket, socket, conn, jvmVars, vm, poolVars>>

EndThread(s) ==
  /\ pc[s] = "nextSocket"
  /\ nextSocket[s] = NoSocket /\ done[s]
  /\ Goto(s, "dead")
  /\ UNCHANGED <<monitorVars, socket, interrupted, conn, jvmVars, vm, poolVars>>

(* The client's chunks up to the command have arrived.  The casts of       *)
(* System.in/out/err fail, to the outer catch, if these are the original   *)
(* streams again; an unknown command is answered with EXIT_EXCEPTION.      *)
BeginNail(s) ==
  /\ pc[s] = "headers" /\ threadLocalStreams
  /\ Goto(s, "nail")
  /\ UNCHANGED <<monitorVars, socket, interrupted, conn, jvmVars, vm, poolVars>>

RejectCommand(s) ==
  /\ pc[s] = "headers" /\ threadLocalStreams
  /\ conn' = [conn EXCEPT ![socket[s]] = "answered"]
  /\ Goto(s, "close")
  /\ UNCHANGED <<monitorVars, socket, interrupted, jvmVars, vm, poolVars>>

(* The outer catch: the socket is not closed.                              *)
FailHeaders(s) ==
  /\ pc[s] = "headers"
  /\ ~threadLocalStreams \/ socket[s] \in BreakOff
  /\ socket' = [socket EXCEPT ![s] = NoSocket]
  /\ Goto(s, "reset")
  /\ UNCHANGED <<monitorVars, interrupted, conn, jvmVars, vm, poolVars>>

(* The nail ends and its exit status goes to the client: 0, EXIT_EXCEPTION *)
(* or, for System.exit under the NGSecurityManager, the status given.      *)
EndNail(s, outcome) ==
  /\ pc[s] = "nail" /\ outcome \in NailOutcomes
  /\ \/ outcome \in {"return", "interrupt"}
     \/ outcome = "exit" /\ securityManager = "nailgun"
  /\ conn' = [conn EXCEPT ![socket[s]] = "answered"]
  /\ interrupted' = [interrupted EXCEPT ![s] = @ \/ outcome = "interrupt"]
  /\ Goto(s, "close")
  /\ UNCHANGED <<monitorVars, socket, jvmVars, vm, poolVars>>

(* System.exit once the original security manager is back: Runtime.exit    *)
(* starts the shutdown hook and never returns.                             *)
ExitVM(s) ==
  /\ pc[s] = "nail" /\ "exit" \in NailOutcomes
  /\ securityManager = "original"
  /\ vm' = "exiting"
  /\ Goto(s, "exitVM")
  /\ UNCHANGED <<monitorVars, socket, interrupted, conn, jvmVars, poolVars>>

CloseSocket(s) ==
  /\ pc[s] = "close"
  /\ conn' = [conn EXCEPT ![socket[s]] = "closed"]
  /\ socket' = [socket EXCEPT ![s] = NoSocket]
  /\ Goto(s, "reset")
  /\ UNCHANGED <<monitorVars, interrupted, jvmVars, vm, poolVars>>

(* The casts outside of any try block: their exception ends the thread.    *)
ResetStreams(s) ==
  /\ pc[s] = "reset"
  /\ Goto(s, IF threadLocalStreams THEN "give" ELSE "dead")
  /\ UNCHANGED <<monitorVars, socket, interrupted, conn, jvmVars, vm, poolVars>>

(* sessionPool.give(this)                                                  *)
GiveTestDone(s) ==
  /\ pc[s] = "give"
  /\ Goto(s, IF poolDone THEN "retire" ELSE "giveSize")
  /\ UNCHANGED <<monitorVars, socket, interrupted, conn, jvmVars, vm, poolVars>>

GiveTestFull(s) ==
  /\ pc[s] = "giveSize"
  /\ Goto(s, IF PoolFull THEN "retire" ELSE "push")
  /\ UNCHANGED <<monitorVars, socket, interrupted, conn, jvmVars, vm, poolVars>>

(* Mutant: a session that finds no room is left alone. *)
GivePush_IgnoresOverflow(s) ==
  /\ pc[s] = "push"
  /\ Push(s) \/ PushOverflows
  /\ Goto(s, "nextSocket")
  /\ UNCHANGED <<monitorVars, socket, interrupted, conn, jvmVars, vm>>

GivePush(s) ==
  /\ pc[s] = "push"
  /\ \/ Push(s) /\ Goto(s, "nextSocket")
     \/ PushOverflows /\ Goto(s, "dead")
  /\ UNCHANGED <<monitorVars, socket, interrupted, conn, jvmVars, vm>>

Retire(s) ==
  /\ pc[s] = "retire"
  /\ SetDone(s)
  /\ Goto(s, "retireNotify")
  /\ UNCHANGED <<nextSocket, socket, interrupted, conn, jvmVars, vm, poolVars>>

(* Mutant: give() stores the session it has shut down, for want of an else. *)
RetireNotify_NoElse(s) ==
  /\ pc[s] = "retireNotify"
  /\ nextSocket' = [nextSocket EXCEPT ![s] = NoSocket]
  /\ Goto(s, "push")
  /\ UNCHANGED <<done, socket, interrupted, conn, jvmVars, vm, poolVars>>

RetireNotify(s) ==
  /\ pc[s] = "retireNotify"
  /\ nextSocket' = [nextSocket EXCEPT ![s] = NoSocket]
  /\ Goto(s, "nextSocket")
  /\ UNCHANGED <<done, socket, interrupted, conn, jvmVars, vm, poolVars>>
=============================================================================

------------------------------- MODULE NGServer -------------------------------
(***************************************************************************)
(* The Nailgun server (NGServer.java) at work: its own thread, which       *)
(* accepts connections and hands them to sessions; NGServer.shutdown(),    *)
(* which an ng-stop nail, an embedding program or the JVM's shutdown hook  *)
(* calls; and the hook, composed with the session threads of NGSession and *)
(* their NGSessionPool.                                                    *)
(*                                                                         *)
(* A step of this specification is what one thread does between two        *)
(* accesses to shared state that another thread can order differently:     *)
(* one critical section, one unsynchronized read or write, one blocking    *)
(* call.                                                                   *)
(***************************************************************************)
EXTENDS NGSession

CONSTANTS Embedders, (* threads of an embedding program, each of which may   *)
                     (* call shutdown(false) once                            *)
          Hook       (* the NGServerShutdowner thread                        *)

(* The threads that may execute NGServer.shutdown().                       *)
Callers == Sessions \cup Embedders \cup {Hook}

ASSUME CallersAssumption == /\ Sessions \cap Embedders = {}
                            /\ Hook \notin Sessions \cup Embedders

VARIABLES shutdown,  (* NGServer.shutdown: the order to shut down is given   *)
          running,   (* NGServer.running                                     *)
          listener,  (* serversocket: "null", "open" or "closed"             *)
          spc,       (* where the server thread is                           *)
          deck,      (* its local variable sessionOnDeck                     *)
          accepted,  (* its local variable socket                            *)
          sdpc,      (* where each caller is in shutdown()                   *)
          victim     (* the session the pool's shutdown() has popped         *)

serverVars == <<shutdown, running, listener, spc, deck, accepted>>
shutdownVars == <<sdpc, victim>>
vars == <<poolVars, sessionVars, serverVars, shutdownVars>>
-----------------------------------------------------------------------------
ServerPC == {"start", "installSM", "installStreams", "bind", "loop", "take",
             "accept", "handOver", "deckDone", "deckNotify", "exit", "stopped"}

(* unregistered: of the hook, which no exit of the JVM starts before main() *)
(* has registered it.                                                      *)
ShutdownPC == {"unregistered", "idle", "flag", "close", "poolDone",
               "lock", "drain", "drainNotify", "restoreStreams", "restoreSM",
               "wait", "ended"}

(* Type correctness of the server, its sessions and its pool, which bounds *)
(* poolEntries by the length of the array (NGSessionPool.java).            *)
TypeOK == /\ PoolTypeOK
          /\ SessionTypeOK
          /\ shutdown \in BOOLEAN
          /\ running \in BOOLEAN
          /\ listener \in {"null", "open", "closed"}
          /\ spc \in ServerPC
          /\ deck \in Sessions \cup {NoSession}
          /\ accepted \in Clients \cup {NoSocket}
          /\ sdpc \in [Callers -> ShutdownPC]
          /\ victim \in Sessions \cup {NoSession}

Init == /\ PoolInit
        /\ SessionInit
        /\ shutdown = FALSE
        /\ running = FALSE
        /\ listener = "null"
        /\ spc = "start"
        /\ deck = NoSession
        /\ accepted = NoSocket
        /\ sdpc = [t \in Callers |-> IF t = Hook THEN "unregistered" ELSE "idle"]
        /\ victim = NoSession

(* The pool's lock is held across steps only while shutdown() empties it.  *)
PoolLocked == \E t \in Callers : sdpc[t] \in {"drain", "drainNotify"}
-----------------------------------------------------------------------------
(* The server thread, NGServer.run().                                      *)

ServerGoto(label) == spc' = label

ServerStart ==
  /\ spc = "start"
  /\ running' = TRUE
  /\ ServerGoto("installSM")
  /\ UNCHANGED <<poolVars, sessionVars, shutdown, listener, deck, accepted,
                 shutdownVars>>

InstallSecurityManager ==
  /\ spc = "installSM"
  /\ securityManager' = "nailgun"
  /\ ServerGoto("installStreams")
  /\ UNCHANGED <<poolVars, pc, monitorVars, socket, interrupted, conn,
                 threadLocalStreams, vm, shutdown, running, listener, deck,
                 accepted, shutdownVars>>

InstallStreams ==
  /\ spc = "installStreams"
  /\ threadLocalStreams' = TRUE
  /\ ServerGoto("bind")
  /\ UNCHANGED <<poolVars, pc, monitorVars, socket, interrupted, conn,
                 securityManager, vm, shutdown, running, listener, deck,
                 accepted, shutdownVars>>

Bind ==
  /\ spc = "bind"
  /\ listener' = "open"
  /\ ServerGoto("loop")
  /\ UNCHANGED <<poolVars, sessionVars, shutdown, running, deck, accepted,
                 shutdownVars>>

(* Every exception of the try block leads past the loop.                   *)
BindFails ==
  /\ spc = "bind" /\ "bind" \in Faults
  /\ ServerGoto("deckDone")
  /\ UNCHANGED <<poolVars, sessionVars, shutdown, running, listener, deck,
                 accepted, shutdownVars>>

TestShutdown ==
  /\ spc = "loop"
  /\ ServerGoto(IF shutdown THEN "deckDone" ELSE "take")
  /\ UNCHANGED <<poolVars, sessionVars, shutdown, running, listener, deck,
                 accepted, shutdownVars>>

(* sessionPool.take(), which pops a session or starts a new one.           *)
TakePooled ==
  /\ spc = "take" /\ ~PoolLocked
  /\ \E s \in Sessions : Pop(s) /\ deck' = s
  /\ ServerGoto("accept")
  /\ UNCHANGED <<sessionVars, shutdown, running, listener, accepted,
                 shutdownVars>>

TakeNew ==
  /\ spc = "take" /\ ~PoolLocked
  /\ PoolEmpty
  /\ \E s \in Sessions : StartThread(s) /\ deck' = s
  /\ ServerGoto("accept")
  /\ UNCHANGED <<poolVars, monitorVars, socket, interrupted, conn, jvmVars, vm,
                 shutdown, running, listener, accepted, shutdownVars>>

(* start() throws: sessionOnDeck is still the session of the last round.   *)
TakeFails ==
  /\ spc = "take" /\ ~PoolLocked
  /\ PoolEmpty /\ "threadStart" \in Faults
  /\ ServerGoto("deckDone")
  /\ UNCHANGED <<poolVars, sessionVars, shutdown, running, listener, deck,
                 accepted, shutdownVars>>

Accept(c) ==
  /\ spc = "accept" /\ listener = "open"
  /\ conn[c] = "queued"
  /\ conn' = [conn EXCEPT ![c] = "accepted"]
  /\ accepted' = c
  /\ ServerGoto("handOver")
  /\ UNCHANGED <<poolVars, pc, monitorVars, socket, interrupted, jvmVars, vm,
                 shutdown, running, listener, deck, shutdownVars>>

AcceptFails ==
  /\ spc = "accept"
  /\ listener = "closed" \/ "accept" \in Faults
  /\ ServerGoto("deckDone")
  /\ UNCHANGED <<poolVars, sessionVars, shutdown, running, listener, deck,
                 accepted, shutdownVars>>

(* Mutant: take() stands before the loop. *)
HandOverToDeck_SameDeck ==
  /\ spc = "handOver"
  /\ HandOver(deck, accepted)
  /\ accepted' = NoSocket
  /\ ServerGoto("accept")
  /\ UNCHANGED <<poolVars, shutdown, running, listener, deck, shutdownVars>>

(* sessionOnDeck.run(socket)                                               *)
HandOverToDeck ==
  /\ spc = "handOver"
  /\ HandOver(deck, accepted)
  /\ accepted' = NoSocket
  /\ ServerGoto("loop")
  /\ UNCHANGED <<poolVars, shutdown, running, listener, deck, shutdownVars>>

(* sessionOnDeck.shutdown(), unless it is null                             *)
DeckDone ==
  /\ spc = "deckDone"
  /\ IF deck = NoSession
     THEN ServerGoto("exit") /\ UNCHANGED done
     ELSE ServerGoto("deckNotify") /\ SetDone(deck)
  /\ UNCHANGED <<poolVars, pc, nextSocket, socket, interrupted, conn, jvmVars,
                 vm, shutdown, running, listener, deck, accepted, shutdownVars>>

DeckNotify ==
  /\ spc = "deckNotify"
  /\ ClearAndNotify(deck)
  /\ ServerGoto("exit")
  /\ UNCHANGED <<poolVars, shutdown, running, listener, deck, accepted,
                 shutdownVars>>

ServerExit ==
  /\ spc = "exit"
  /\ running' = FALSE
  /\ ServerGoto("stopped")
  /\ UNCHANGED <<poolVars, sessionVars, shutdown, listener, deck, accepted,
                 shutdownVars>>

ServerStep ==
  \/ ServerStart \/ InstallSecurityManager \/ InstallStreams \/ Bind \/ BindFails
  \/ TestShutdown \/ TakePooled \/ TakeNew \/ TakeFails
  \/ \E c \in Clients : Accept(c)
  \/ AcceptFails \/ HandOverToDeck \/ DeckDone \/ DeckNotify \/ ServerExit
-----------------------------------------------------------------------------
(* NGServer.shutdown(exitVM), executed by thread t.                        *)

ShutdownGoto(t, label) == sdpc' = [sdpc EXCEPT ![t] = label]

(* The calls: by an embedding program, and by ng-stop with exitVM.         *)
EmbedderCalls(t) ==
  /\ t \in Embedders /\ sdpc[t] = "idle"
  /\ ShutdownGoto(t, "flag")
  /\ UNCHANGED <<poolVars, sessionVars, serverVars, victim>>

NailCalls(s) ==
  /\ pc[s] = "nail" /\ "stop" \in NailOutcomes
  /\ Goto(s, "stop")
  /\ ShutdownGoto(s, "flag")
  /\ UNCHANGED <<poolVars, monitorVars, socket, interrupted, conn, jvmVars, vm,
                 serverVars, victim>>

(* How the call ends for each of them.  ng-stop called with exitVM, so it  *)
(* returns, to be answered, only if the server was being shut down.        *)
ShutdownReturns(t) ==
  /\ \/ t = Hook /\ ShutdownGoto(t, "wait")
     \/ t # Hook /\ ShutdownGoto(t, "ended")
  /\ IF t \in Sessions
     THEN /\ Goto(t, "close")
          /\ conn' = [conn EXCEPT ![socket[t]] = "answered"]
     ELSE UNCHANGED <<pc, conn>>

(* Mutant: all of shutdown() is synchronized. *)
ShutdownReturnsAtOnce_Waits(t) ==
  /\ sdpc[t] = "flag" /\ shutdown
  /\ \A u \in Callers : sdpc[u] \in {"unregistered", "idle", "flag", "wait", "ended"}
  /\ \A s \in Sessions : pc[s] # "exitVM"
  /\ ShutdownReturns(t)
  /\ UNCHANGED <<poolVars, monitorVars, socket, interrupted, jvmVars, vm,
                 serverVars, victim>>

(* synchronized(this): only the first caller goes on.                      *)
ShutdownReturnsAtOnce(t) ==
  /\ sdpc[t] = "flag" /\ shutdown
  /\ ShutdownReturns(t)
  /\ UNCHANGED <<poolVars, monitorVars, socket, interrupted, jvmVars, vm,
                 serverVars, victim>>

ShutdownBegins(t) ==
  /\ sdpc[t] = "flag" /\ ~shutdown
  /\ shutdown' = TRUE
  /\ ShutdownGoto(t, "close")
  /\ UNCHANGED <<poolVars, sessionVars, running, listener, spc, deck, accepted,
                 victim>>

(* Mutant: the listening socket is not closed. *)
CloseListener_Not(t) ==
  /\ sdpc[t] = "close"
  /\ ShutdownGoto(t, "poolDone")
  /\ UNCHANGED <<poolVars, sessionVars, serverVars, victim>>

(* serversocket.close(); the NullPointerException before the socket exists *)
(* is discarded.  The connections still in the backlog are reset.          *)
CloseListener(t) ==
  /\ sdpc[t] = "close"
  /\ IF listener = "open"
     THEN /\ listener' = "closed"
          /\ conn' = [c \in Clients |->
                        IF conn[c] = "queued" THEN "refused" ELSE conn[c]]
     ELSE UNCHANGED <<listener, conn>>
  /\ ShutdownGoto(t, "poolDone")
  /\ UNCHANGED <<poolVars, pc, monitorVars, socket, interrupted, jvmVars, vm,
                 shutdown, running, spc, deck, accepted, victim>>

(* sessionPool.shutdown()                                                  *)
PoolShutdownBegins(t) ==
  /\ sdpc[t] = "poolDone"
  /\ SetPoolDone
  /\ ShutdownGoto(t, "lock")
  /\ UNCHANGED <<sessionVars, serverVars, victim>>

PoolShutdownLocks(t) ==
  /\ sdpc[t] = "lock"
  /\ ShutdownGoto(t, "drain")
  /\ UNCHANGED <<poolVars, sessionVars, serverVars, victim>>

DrainOne(t) ==
  /\ sdpc[t] = "drain"
  /\ \E s \in Sessions : Pop(s) /\ SetDone(s) /\ victim' = s
  /\ ShutdownGoto(t, "drainNotify")
  /\ UNCHANGED <<pc, nextSocket, socket, interrupted, conn, jvmVars, vm,
                 serverVars>>

DrainNotify(t) ==
  /\ sdpc[t] = "drainNotify"
  /\ ClearAndNotify(victim)
  /\ victim' = NoSession
  /\ ShutdownGoto(t, "drain")
  /\ UNCHANGED <<poolVars, serverVars>>

DrainEnds(t) ==
  /\ sdpc[t] = "drain" /\ PoolEmpty
  /\ ShutdownGoto(t, "restoreStreams")
  /\ UNCHANGED <<poolVars, sessionVars, serverVars, victim>>

RestoreStreams(t) ==
  /\ sdpc[t] = "restoreStreams"
  /\ threadLocalStreams' = FALSE
  /\ ShutdownGoto(t, "restoreSM")
  /\ UNCHANGED <<poolVars, pc, monitorVars, socket, interrupted, conn,
                 securityManager, vm, serverVars, victim>>

(* Mutant: exitVM is not looked at. *)
RestoreSecurityManager_Exits(t) ==
  /\ sdpc[t] = "restoreSM"
  /\ securityManager' = "original"
  /\ vm' = "exiting"
  /\ ShutdownGoto(t, IF t = Hook THEN "wait" ELSE "ended")
  /\ pc' = [s \in Sessions |-> IF s = t THEN "exitVM" ELSE pc[s]]
  /\ UNCHANGED <<poolVars, monitorVars, socket, interrupted, conn,
                 threadLocalStreams, serverVars, victim>>

(* ... and, for ng-stop, System.exit(0), which never returns.              *)
RestoreSecurityManager(t) ==
  /\ sdpc[t] = "restoreSM"
  /\ securityManager' = "original"
  /\ IF t \in Sessions
     THEN /\ vm' = "exiting"
          /\ Goto(t, "exitVM")
          /\ ShutdownGoto(t, "ended")
          /\ UNCHANGED conn
     ELSE ShutdownReturns(t) /\ UNCHANGED vm
  /\ UNCHANGED <<poolVars, monitorVars, socket, interrupted, threadLocalStreams,
                 serverVars, victim>>

ShutdownStep(t) ==
  \/ ShutdownReturnsAtOnce(t) \/ ShutdownBegins(t) \/ CloseListener(t)
  \/ PoolShutdownBegins(t) \/ PoolShutdownLocks(t)
  \/ DrainOne(t) \/ DrainNotify(t) \/ DrainEnds(t)
  \/ RestoreStreams(t) \/ RestoreSecurityManager(t)
-----------------------------------------------------------------------------
(* The JVM and its shutdown hook.                                          *)

(* main() registers the hook after it has started the server thread, and   *)
(* not once the JVM is exiting, when addShutdownHook() throws.  A program  *)
(* that embeds the server never does: the step may stay away for ever.     *)
RegisterHook == /\ vm = "up" /\ sdpc[Hook] = "unregistered"
                /\ ShutdownGoto(Hook, "idle")
                /\ UNCHANGED <<poolVars, sessionVars, serverVars, victim>>

Signal == /\ vm = "up" /\ "signal" \in Faults
          /\ vm' = "exiting"
          /\ UNCHANGED <<poolVars, pc, monitorVars, socket, interrupted, conn,
                         jvmVars, serverVars, shutdownVars>>

(* The JVM exits by itself when its last non-daemon thread has ended.      *)
LastThreadEnds == /\ vm = "up" /\ spc = "stopped"
                  /\ \A s \in Sessions : pc[s] = "unborn" \/ Ended(s)
                  /\ \A t \in Embedders : sdpc[t] = "ended"
                  /\ vm' = "exiting"
                  /\ UNCHANGED <<poolVars, pc, monitorVars, socket, interrupted,
                                 conn, jvmVars, serverVars, shutdownVars>>

HookStarts == /\ vm = "exiting" /\ sdpc[Hook] = "idle"
              /\ ShutdownGoto(Hook, "flag")
              /\ UNCHANGED <<poolVars, sessionVars, serverVars, victim>>

(* The hook waits until the server does not run, but not for ever: it may  *)
(* give up at any time of its wait.  Then the JVM halts.                   *)
HookEnds == /\ sdpc[Hook] = "wait"
            /\ vm' = "halted"
            /\ ShutdownGoto(Hook, "ended")
            /\ UNCHANGED <<poolVars, pc, monitorVars, socket, interrupted, conn,
                           jvmVars, serverVars, victim>>

(* Without a hook the JVM halts at once, whatever the server is doing.     *)
HaltWithoutHook == /\ vm = "exiting" /\ sdpc[Hook] = "unregistered"
                   /\ vm' = "halted"
                   /\ UNCHANGED <<poolVars, pc, monitorVars, socket,
                                  interrupted, conn, jvmVars, serverVars,
                                  shutdownVars>>

HookStep == HookStarts \/ ShutdownStep(Hook) \/ HookEnds \/ HaltWithoutHook
-----------------------------------------------------------------------------
(* A client connects while the server listens.                             *)
Connect(c) == /\ listener = "open" /\ conn[c] = "new"
              /\ conn' = [conn EXCEPT ![c] = "queued"]
              /\ UNCHANGED <<poolVars, pc, monitorVars, socket, interrupted,
                             jvmVars, vm, serverVars, shutdownVars>>

(* One step of a session thread.  Push waits for the pool's lock.          *)
SessionOwnStep(s) ==
  \/ ObtainSocket(s) \/ WaitForSocket(s) \/ WaitInterrupted(s) \/ EndThread(s)
  \/ BeginNail(s) \/ RejectCommand(s) \/ FailHeaders(s)
  \/ \E outcome \in NailOutcomes : EndNail(s, outcome)
  \/ ExitVM(s) \/ CloseSocket(s) \/ ResetStreams(s)
  \/ GiveTestDone(s) \/ GiveTestFull(s)
  \/ ~PoolLocked /\ GivePush(s)
  \/ Retire(s) \/ RetireNotify(s)

SessionStep(s) == \/ SessionOwnStep(s) /\ UNCHANGED <<serverVars, shutdownVars>>
                  \/ NailCalls(s)
                  \/ ShutdownStep(s)

EmbedderStep(t) == EmbedderCalls(t) \/ ShutdownStep(t)

EnvironmentStep == RegisterHook \/ Signal \/ \E c \in Clients : Connect(c)

Next == /\ vm # "halted"
        /\ \/ ServerStep
           \/ \E s \in Sessions : SessionStep(s)
           \/ \E t \in Embedders : EmbedderStep(t)
           \/ LastThreadEnds \/ HookStep
           \/ EnvironmentStep

Spec == Init /\ [][Next]_vars
=============================================================================

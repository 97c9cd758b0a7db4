-------------------------- MODULE NGServerProperties --------------------------
(***************************************************************************)
(* What makes the Nailgun server correct, stated about NGServer.           *)
(***************************************************************************)
EXTENDS NGServer, FiniteSets

AtHome == {"nextSocket", "waiting"}

(* A session thread that has nothing to do.                                *)
Idle(s) == pc[s] \in AtHome /\ nextSocket[s] = NoSocket

ServerHasDeck == spc \in {"accept", "handOver"}
ServerDone == spc \in {"deckDone", "deckNotify", "exit", "stopped"}
-----------------------------------------------------------------------------
(* Safety.                                                                 *)

(* The pool's array holds poolEntries different sessions, below            *)
(* poolEntries, however give(), take() and shutdown() interleave           *)
(* (NGSessionPool.java).                                                   *)
PoolConsistent ==
  /\ \A i \in Slots : i < poolEntries => pool[i] \in Sessions
  /\ \A i, j \in Slots : i < poolEntries /\ j < poolEntries /\ pool[i] = pool[j] => i = j

(* A pooled session has no work: it is about to wait, waits, or has been   *)
(* shut down.                                                              *)
PooledAreIdle == \A s \in Pooled : Idle(s) \/ (Ended(s) /\ done[s])

(* The session the server has on deck while it waits for a connection      *)
(* (NGServer.java:378) is in nobody else's hands, has no socket yet, and   *)
(* waits or is about to, not shut down: it will serve the connection it is *)
(* given.  The one exception is a thread that has ended in its wait        *)
(* because a nail left its interrupt flag set (NGSession.java:160).        *)
Ready(s) == Idle(s) /\ ~done[s]

Broken(s) == pc[s] = "broken" /\ nextSocket[s] = NoSocket

DeckIsReady ==
  ServerHasDeck => deck \notin Pooled /\ (Ready(deck) \/ Broken(deck))

(* An accepted connection is held by at most one thread at a time, and     *)
(* by none before accept() or after close(): no client is served twice or  *)
(* answered by two nails.                                                  *)
HeldBy(c, s) == nextSocket[s] = c \/ socket[s] = c

InService(c) == conn[c] \in {"accepted", "answered"}

OneHolder ==
  \A c \in Clients :
    /\ accepted = c => InService(c)
    /\ \A s \in Sessions : HeldBy(c, s) =>
         /\ InService(c) /\ accepted # c
         /\ ~(nextSocket[s] = c /\ socket[s] = c)
         /\ \A r \in Sessions : HeldBy(c, r) => r = s

(* No lost wake-up: a session in the wait set of its lock has no socket to *)
(* serve, and if it has been told to end, the thread that told it so has   *)
(* still to notify it.                                                     *)
NoLostWakeup ==
  \A s \in Sessions : pc[s] = "waiting" =>
    /\ nextSocket[s] = NoSocket
    /\ done[s] => \/ spc = "deckNotify" /\ deck = s
                  \/ \E t \in Callers : sdpc[t] = "drainNotify" /\ victim = s

(* The server keeps at most maxIdle idle sessions, the one on deck         *)
(* included, whatever the order in which sessions finish.                  *)
IdleLimit == Cardinality({s \in Sessions : Idle(s) /\ ~done[s]}) <= MaxIdle

(* No idle session is forgotten: it is in the pool, or on deck.            *)
NoOrphan ==
  \A s \in Sessions : Ready(s) =>
    s \in Pooled \/ (deck = s /\ (ServerHasDeck \/ spc = "deckDone"))
-----------------------------------------------------------------------------
(* The inductive invariant behind the safety properties.                   *)

Busy(t) == sdpc[t] \in {"close", "poolDone", "lock", "drain", "drainNotify",
                        "restoreStreams", "restoreSM"}

(* The flag lets one call of shutdown() through.                           *)
OneShutdown ==
  /\ \A t \in Callers : Busy(t) => shutdown
  /\ \A t, u \in Callers : Busy(t) /\ Busy(u) => t = u

(* A session's monitor has a socket only from the hand-over to the pickup. *)
MonitorInUse ==
  \A s \in Sessions :
    /\ pc[s] \notin AtHome \cup {"broken", "dead"} => nextSocket[s] = NoSocket
    /\ pc[s] = "unborn" => ~done[s]
    /\ pc[s] = "broken" => done[s]
    /\ pc[s] = "retireNotify" => done[s]

(* The session on deck is the server's alone.                              *)
DeckTaken ==
  /\ deck \in Sessions => pc[deck] # "unborn"
  /\ ServerHasDeck => /\ deck \in Sessions \ Pooled
                      /\ Idle(deck) \/ Ended(deck)
  /\ spc = "handOver" => accepted \in Clients
  /\ spc = "deckNotify" => deck \in Sessions /\ done[deck]

VictimDone ==
  \A t \in Callers : sdpc[t] = "drainNotify" => victim \in Sessions /\ done[victim]

(* A session that executes shutdown() is in its nail.                      *)
NailInShutdown ==
  \A s \in Sessions : sdpc[s] \in {"idle", "ended"} \/ pc[s] = "stop"

IInv == /\ TypeOK
        /\ PoolConsistent /\ PooledAreIdle /\ NoOrphan /\ NoLostWakeup
        /\ OneShutdown /\ MonitorInUse /\ NailInShutdown /\ DeckTaken /\ VictimDone

(* Only shutdown() and an interrupt set `done`: no session that the server *)
(* may still take has it, but those that an interrupt has ended.           *)
DoneIsOut == \A s \in Sessions : done[s] =>
  \/ ServerDone
  \/ pc[s] = "broken"
  \/ /\ s \notin Pooled /\ nextSocket[s] = NoSocket
     /\ pc[s] \in AtHome \cup {"dead", "retireNotify"}

DeckIsFresh == ServerHasDeck => Ready(deck) \/ Broken(deck)

PooledAreFresh ==
  \A s \in Sessions : s \in Pooled => Idle(s) \/ Broken(s) \/ ServerDone

DoneIsFinal == DoneIsOut /\ DeckIsFresh /\ PooledAreFresh
-----------------------------------------------------------------------------
(* The server implements NailService.                                      *)

(* A socket in the hands of a thread that has ended, or never returns from *)
(* System.exit, is held by nobody.                                         *)
Held(c) == \/ accepted = c
           \/ \E s \in Sessions : \/ (nextSocket[s] = c /\ ~Ended(s))
                                  \/ (socket[s] = c /\ pc[s] # "exitVM")

ServiceConn == [c \in Clients |->
                  IF conn[c] = "accepted" /\ ~Held(c) THEN "lost" ELSE conn[c]]

ServicePhase == IF vm = "halted" THEN "halted"
                ELSE IF shutdown \/ ServerDone THEN "stopping" ELSE "serving"

(* A thread that a nail has left interrupted, until it has ended of it and *)
(* was handed a connection.                                                *)
IsSpoiled(s) == IF pc[s] = "broken" THEN nextSocket[s] = NoSocket ELSE interrupted[s]

Spoiled == IF ServicePhase # "serving" THEN {} ELSE {s \in Sessions : IsSpoiled(s)}

Guarded == sdpc[Hook] # "unregistered"

Service == INSTANCE NailService WITH Threads <- Sessions,
                                     phase <- ServicePhase,
                                     guarded <- Guarded,
                                     spoiled <- Spoiled,
                                     conn <- ServiceConn

(* Whatever the threads do, clients see the promised service: in           *)
(* particular no connection is served twice or answered twice, and a       *)
(* server that is not stopping loses none but those whose client broke off *)
(* and at most one for each nail that left its thread interrupted.         *)
ImplementsService == Service!Spec

(* ... and a server that is not stopping does answer every connection.     *)
ImplementsFairService == Service!FairSpec

(* The invariant behind the refinement: every connection the server has    *)
(* accepted is where the thread that will answer it looks for it.          *)
Starting == {"start", "installSM", "installStreams"}
Serving == {"headers", "nail", "stop", "exitVM", "close"}

HandsFree == /\ \A s \in Pooled : nextSocket[s] = NoSocket
             /\ ServerHasDeck => nextSocket[deck] = NoSocket

SocketInUse == /\ spc # "handOver" => accepted = NoSocket
               /\ \A s \in Sessions : socket[s] \in Clients <=> pc[s] \in Serving

Unanswered(c) == c # NoSocket => conn[c] = "accepted"

ConnPhase ==
  /\ Unanswered(accepted)
  /\ \A s \in Sessions :
       /\ Unanswered(nextSocket[s])
       /\ pc[s] \in {"headers", "nail", "stop"} => Unanswered(socket[s])
       /\ pc[s] = "close" => conn[socket[s]] = "answered"

(* The streams and the security manager that sessions rely on are there    *)
(* from before the first session until shutdown() is called.               *)
StopFirst ==
  /\ sdpc[Hook] = "wait" => shutdown
  /\ spc \in Starting => \A s \in Sessions : pc[s] = "unborn"
  /\ spc \in {"start", "installSM"} \/ securityManager = "nailgun" \/ shutdown
  /\ spc \in Starting \/ threadLocalStreams \/ shutdown

InHands == HandsFree /\ SocketInUse /\ ConnPhase /\ StopFirst
-----------------------------------------------------------------------------
(* Fairness: the JVM runs every thread that can run, nails end, and        *)
(* clients send their command or break off.  Nobody has to connect, call   *)
(* shutdown() or send a signal; main() need not exist, and the threads of  *)
(* an embedding program need not end.                                      *)
Up == vm # "halted"

Fairness == /\ WF_vars(Up /\ ServerStep)
            /\ \A s \in Sessions : WF_vars(Up /\ SessionStep(s))
            /\ \A t \in Embedders : WF_vars(Up /\ ShutdownStep(t))
            /\ WF_vars(Up /\ HookStep)

FairSpec == Spec /\ Fairness

(* "Shuts down the server.  The server will stop listening and its thread  *)
(* will finish" (NGServer.java:267): the thread finishes, wherever it was  *)
(* when shutdown() was called, and a server that was listening when it was *)
(* called stops listening.  One that has not bound its socket when it is   *)
(* called, which the comment does not except, binds it afterwards and      *)
(* leaves it open for ever.                                                *)
Listening == listener = "open"

ServerStops ==
  /\ shutdown ~> (spc = "stopped" \/ ~Up)
  /\ [](Listening /\ ~shutdown => [](shutdown => <>(~Listening \/ ~Up)))

(* An exit of the JVM is completed: the hook, which calls shutdown()       *)
(* itself, never waits for the thread that called System.exit from within  *)
(* shutdown() and waits for the hook.                                      *)
ExitCompletes == vm = "exiting" ~> vm = "halted"

(* After shutdown(false) every session thread ends, except one that        *)
(* entered the pool behind shutdown()'s back.                              *)
SessionsEndOrStrand ==
  shutdown ~> \A s \in Sessions : \/ pc[s] = "unborn" \/ Ended(s)
                                  \/ s \in Pooled /\ ~done[s]
                                  \/ ~Up

(* "Any running nails will be allowed to finish" (NGServer.java:268): a    *)
(* running nail ends, its client is answered and disconnected, also after  *)
(* shutdown(false), unless a nail exits the JVM.  shutdown() takes the     *)
(* NGSecurityManager away, and the System.exit of one nail then ends all   *)
(* others, which the comment does not except; nothing else ends them.      *)
RunningNail(s, c) == pc[s] = "nail" /\ socket[s] = c

NailsEndOrExit ==
  \A c \in Clients, s \in Sessions :
    RunningNail(s, c) ~> (conn[c] = "closed" \/ \E r \in Sessions : pc[r] = "exitVM")
-----------------------------------------------------------------------------
(* What the comments say and the code does not do.                         *)

(* NGSession.java:64: "True if the server has been shutdown and this       *)
(* NGSession should terminate completely".                                 *)
ShutdownEndsSessions ==
  shutdown ~> \A s \in Sessions : pc[s] = "unborn" \/ Ended(s) \/ ~Up

(* NGSession.java:133: "Instructs this NGSession to process the specified  *)
(* socket": the socket handed over is the socket the session takes.        *)
HandedSocketIsTaken ==
  [][\A s \in Sessions : nextSocket[s] # NoSocket /\ nextSocket'[s] # nextSocket[s]
       => socket'[s] = nextSocket[s]]_vars

(* NGSessionPool.java:78: take() returns "an NGSession ready to work".  A  *)
(* thread that an interrupt has ended is handed out all the same.          *)
TakenIsReady == ServerHasDeck => Ready(deck)

=============================================================================

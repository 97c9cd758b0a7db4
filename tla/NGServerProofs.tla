--------------------------- MODULE NGServerProofs ---------------------------
(***************************************************************************)
(* Theorems about NGServer, for every number of sessions, clients and      *)
(* embedding threads, every maxIdle, and every choice of NailOutcomes and  *)
(* Faults: its types; the inductive invariant IInv and the properties of   *)
(* the pool, of the session on deck and of the sessions' monitors; that no *)
(* connection has two holders; and that the server implements NailService. *)
(***************************************************************************)
EXTENDS NGServerProperties, TLAPS, FiniteSetTheorems

USE DEF poolVars, sessionVars, serverVars, shutdownVars, monitorVars, jvmVars,
        Ended, Ready

(* The steps of the JVM, its hook and the environment.                     *)
JVMStep == \/ LastThreadEnds \/ HookStarts \/ HookEnds \/ HaltWithoutHook
           \/ EnvironmentStep

-----------------------------------------------------------------------------
(* Type correctness.                                                       *)

LEMMA PoolSizeType == PoolSize \in Nat
  BY MaxIdleAssumption DEF PoolSize

(* The locked operations keep poolEntries within the array.                *)
LEMMA PopType ==
  ASSUME PoolTypeOK, NEW s \in Sessions, Pop(s)
  PROVE  PoolTypeOK'
  BY PoolSizeType DEF PoolTypeOK, Pop, Slots

LEMMA PushType ==
  ASSUME PoolTypeOK, NEW s \in Sessions, Push(s) \/ PushOverflows
  PROVE  PoolTypeOK'
  BY PoolSizeType DEF PoolTypeOK, Push, PushOverflows, Slots

LEMMA FreshType == Unborn # {} => FreshSession \in Sessions
  BY DEF Unborn, FreshSession

LEMMA WokenType ==
  ASSUME pc \in [Sessions -> SessionPC], NEW s
  PROVE  Woken(s) \in [Sessions -> SessionPC]
  BY DEF Woken, SessionPC

(* The steps of a session thread change neither the server's variables nor *)
(* those of shutdown().                                                    *)
LEMMA SessionOwnStepType ==
  ASSUME TypeOK, NEW s \in Sessions, SessionOwnStep(s)
  PROVE  PoolTypeOK' /\ SessionTypeOK'
<1> USE DEF TypeOK, SessionTypeOK, Goto, SetDone, SessionPC, ConnState
<1>1. CASE \/ ObtainSocket(s) \/ WaitForSocket(s) \/ WaitInterrupted(s) \/ EndThread(s)
  BY <1>1 DEF ObtainSocket, WaitForSocket, WaitInterrupted, EndThread, PoolTypeOK
<1>2. CASE BeginNail(s) \/ RejectCommand(s) \/ FailHeaders(s)
  BY <1>2 DEF BeginNail, RejectCommand, FailHeaders, PoolTypeOK
<1>3. CASE \E outcome \in NailOutcomes : EndNail(s, outcome)
  BY <1>3 DEF EndNail, PoolTypeOK
<1>4. CASE ExitVM(s) \/ CloseSocket(s) \/ ResetStreams(s)
  BY <1>4 DEF ExitVM, CloseSocket, ResetStreams, PoolTypeOK
<1>5. CASE GiveTestDone(s) \/ GiveTestFull(s)
  BY <1>5 DEF GiveTestDone, GiveTestFull, PoolTypeOK
<1>6. CASE ~PoolLocked /\ GivePush(s)
  BY <1>6, PushType DEF GivePush
<1>7. CASE Retire(s) \/ RetireNotify(s)
  BY <1>7 DEF Retire, RetireNotify, PoolTypeOK
<1> QED
  BY <1>1, <1>2, <1>3, <1>4, <1>5, <1>6, <1>7 DEF SessionOwnStep

LEMMA ServerStepType ==
  ASSUME TypeOK, ServerStep
  PROVE  TypeOK'
<1> USE DEF TypeOK, SessionTypeOK, ServerGoto, ServerPC
<1>1. CASE ServerStart \/ InstallSecurityManager \/ InstallStreams
  BY <1>1 DEF ServerStart, InstallSecurityManager, InstallStreams, PoolTypeOK
<1>2. CASE Bind \/ BindFails \/ TestShutdown \/ TakeFails \/ AcceptFails
  BY <1>2 DEF Bind, BindFails, TestShutdown, TakeFails, AcceptFails, PoolTypeOK
<1>3. CASE TakePooled
  <2> PICK s \in Sessions : Pop(s) /\ deck' = s
    BY <1>3 DEF TakePooled
  <2> QED
    BY <1>3, PopType DEF TakePooled
<1>4. CASE TakeNew
  BY <1>4, FreshType DEF TakeNew, StartThread, PoolTypeOK, SessionPC
<1>5. CASE \E c \in Clients : Accept(c)
  BY <1>5 DEF Accept, PoolTypeOK, ConnState
<1>6. CASE HandOverToDeck
  BY <1>6, WokenType DEF HandOverToDeck, HandOver, PoolTypeOK
<1>7. CASE DeckDone
  BY <1>7 DEF DeckDone, SetDone, PoolTypeOK
<1>8. CASE DeckNotify
  BY <1>8, WokenType DEF DeckNotify, ClearAndNotify, PoolTypeOK
<1>9. CASE ServerExit
  BY <1>9 DEF ServerExit, PoolTypeOK
<1> QED
  BY <1>1, <1>2, <1>3, <1>4, <1>5, <1>6, <1>7, <1>8, <1>9 DEF ServerStep

LEMMA ShutdownStepType ==
  ASSUME TypeOK, NEW t \in Callers, ShutdownStep(t)
  PROVE  TypeOK'
<1> USE DEF TypeOK, SessionTypeOK, ShutdownGoto, ShutdownPC
<1>1. CASE ShutdownReturnsAtOnce(t)
  BY <1>1 DEF ShutdownReturnsAtOnce, ShutdownReturns, Goto, PoolTypeOK,
              SessionPC, ConnState
<1>2. CASE ShutdownBegins(t) \/ PoolShutdownLocks(t) \/ DrainEnds(t)
  BY <1>2 DEF ShutdownBegins, PoolShutdownLocks, DrainEnds, PoolTypeOK
<1>3. CASE CloseListener(t)
  BY <1>3 DEF CloseListener, PoolTypeOK, ConnState
<1>4. CASE PoolShutdownBegins(t)
  BY <1>4 DEF PoolShutdownBegins, SetPoolDone, PoolTypeOK
<1>5. CASE DrainOne(t)
  <2> PICK s \in Sessions : Pop(s) /\ SetDone(s) /\ victim' = s
    BY <1>5 DEF DrainOne
  <2> QED
    BY <1>5, PopType DEF DrainOne, SetDone
<1>6. CASE DrainNotify(t)
  BY <1>6, WokenType DEF DrainNotify, ClearAndNotify, PoolTypeOK
<1>7. CASE RestoreStreams(t)
  BY <1>7 DEF RestoreStreams, PoolTypeOK
<1>8. CASE RestoreSecurityManager(t)
  BY <1>8 DEF RestoreSecurityManager, ShutdownReturns, Goto, PoolTypeOK,
              SessionPC, ConnState
<1> QED
  BY <1>1, <1>2, <1>3, <1>4, <1>5, <1>6, <1>7, <1>8 DEF ShutdownStep

LEMMA OtherStepType ==
  ASSUME TypeOK,
         \/ \E s \in Sessions : NailCalls(s)
         \/ \E t \in Embedders : EmbedderCalls(t)
         \/ JVMStep
  PROVE  TypeOK'
<1> USE DEF TypeOK, SessionTypeOK, PoolTypeOK, ShutdownGoto, ShutdownPC
<1>1. CASE \E s \in Sessions : NailCalls(s)
  BY <1>1 DEF NailCalls, Goto, SessionPC
<1>2. CASE \E t \in Embedders : EmbedderCalls(t)
  BY <1>2 DEF EmbedderCalls
<1>3. CASE LastThreadEnds \/ HookStarts \/ HookEnds \/ HaltWithoutHook
  BY <1>3 DEF LastThreadEnds, HookStarts, HookEnds, HaltWithoutHook
<1>4. CASE EnvironmentStep
  BY <1>4 DEF EnvironmentStep, RegisterHook, Signal, Connect, ConnState
<1> QED
  BY <1>1, <1>2, <1>3, <1>4 DEF JVMStep

LEMMA InitType == Init => TypeOK
<1> SUFFICES ASSUME Init
             PROVE  TypeOK
  OBVIOUS
<1>1. PoolTypeOK
  <2>1. pool \in [Slots -> Sessions \cup {NoSession}]
    BY DEF Init, PoolInit
  <2>2. poolEntries \in 0 .. PoolSize
    BY PoolSizeType DEF Init, PoolInit
  <2>3. poolDone \in BOOLEAN
    BY DEF Init, PoolInit
  <2> QED
    BY <2>1, <2>2, <2>3 DEF PoolTypeOK
<1>2. SessionTypeOK
  BY DEF Init, SessionInit, SessionTypeOK, SessionPC, ConnState
<1> QED
  BY <1>1, <1>2 DEF Init, TypeOK, ServerPC, ShutdownPC

(* Next, split into the steps of the lemmas above.                         *)
LEMMA NextCases ==
  ASSUME Next
  PROVE  \/ ServerStep
         \/ \E s \in Sessions : SessionOwnStep(s) /\ UNCHANGED <<serverVars, shutdownVars>>
         \/ \E t \in Callers : ShutdownStep(t)
         \/ \/ \E s \in Sessions : NailCalls(s)
            \/ \E t \in Embedders : EmbedderCalls(t)
            \/ JVMStep
  BY DEF Next, SessionStep, EmbedderStep, HookStep, JVMStep, Callers

LEMMA NextType == TypeOK /\ [Next]_vars => TypeOK'
<1> SUFFICES ASSUME TypeOK, [Next]_vars
             PROVE  TypeOK'
  OBVIOUS
<1>1. CASE ServerStep
  BY <1>1, ServerStepType
<1>2. CASE \E s \in Sessions : SessionOwnStep(s) /\ UNCHANGED <<serverVars, shutdownVars>>
  BY <1>2, SessionOwnStepType DEF TypeOK
<1>3. CASE \E t \in Callers : ShutdownStep(t)
  BY <1>3, ShutdownStepType
<1>4. CASE \/ \E s \in Sessions : NailCalls(s)
           \/ \E t \in Embedders : EmbedderCalls(t)
           \/ JVMStep
  BY <1>4, OtherStepType
<1>5. CASE UNCHANGED vars
  BY <1>5 DEF vars, TypeOK, PoolTypeOK, SessionTypeOK
<1> QED
  BY <1>1, <1>2, <1>3, <1>4, <1>5, NextCases

(* Every reachable state is well typed; in particular the pool's counter   *)
(* never leaves its array, although give() tests it without the lock       *)
(* (NGSessionPool.java:100).                                               *)
THEOREM TypeCorrect == Spec => []TypeOK
  BY InitType, NextType, PTL DEF Spec

-----------------------------------------------------------------------------
(* Safety.                                                                 *)

HIDE DEF sessionVars

(* The pc values of a session thread between nextSocket() and nextSocket().*)
Working == SessionPC \ {"unborn", "nextSocket", "waiting", "broken", "dead"}

-----------------------------------------------------------------------------
(* The pool as a set.                                                      *)

LEMMA PooledType == TypeOK /\ PoolConsistent => Pooled \subseteq Sessions
  BY PoolSizeType DEF TypeOK, PoolTypeOK, PoolConsistent, Pooled, Slots

LEMMA PooledUnchanged ==
  ASSUME UNCHANGED <<pool, poolEntries>>
  PROVE  Pooled' = Pooled /\ (PoolConsistent => PoolConsistent')
  BY DEF Pooled, PoolConsistent, Slots

(* take() of a pool that is not empty takes one session out ...            *)
LEMMA PopFacts ==
  ASSUME TypeOK, PoolConsistent, NEW s \in Sessions, Pop(s)
  PROVE  PoolConsistent' /\ s \in Pooled /\ Pooled' = Pooled \ {s}
<1> USE DEF TypeOK, PoolTypeOK, Slots, Pop
<1>1. PoolSize \in Nat /\ poolEntries \in 0 .. PoolSize
  BY PoolSizeType
<1>2. PoolConsistent'
  BY <1>1 DEF PoolConsistent, PoolSize
<1>3. s \in Pooled
  BY <1>1 DEF Pooled
<1>4. \A i \in 0 .. (poolEntries - 2) : pool[i] # s /\ pool'[i] = pool[i]
  BY <1>1 DEF PoolConsistent
<1>5. Pooled' = Pooled \ {s}
  BY <1>1, <1>4 DEF Pooled
<1> QED
  BY <1>2, <1>3, <1>5

(* ... and the store of give() puts one in.                                *)
LEMMA PushFacts ==
  ASSUME TypeOK, PoolConsistent, NEW s \in Sessions, s \notin Pooled, Push(s)
  PROVE  PoolConsistent' /\ Pooled' = Pooled \cup {s}
<1> USE DEF TypeOK, PoolTypeOK, Slots, Push
<1>1. PoolSize \in Nat /\ poolEntries \in 0 .. PoolSize
  BY PoolSizeType
<1>2. \A i \in 0 .. (poolEntries - 1) : pool[i] # s /\ pool'[i] = pool[i]
  BY <1>1 DEF Pooled
<1>3. PoolConsistent'
  BY <1>1, <1>2, NoSessionAssumption DEF PoolConsistent, PoolSize
<1>4. Pooled' = Pooled \cup {s}
  BY <1>1, <1>2 DEF Pooled
<1> QED
  BY <1>3, <1>4

-----------------------------------------------------------------------------
(* IInv is preserved by every step.                                        *)

(* A step of a working session that leaves the pool, the monitors and the  *)
(* other threads alone, and goes on to work or ends with an exception.     *)
LEMMA LocalStep ==
  ASSUME IInv, NEW s \in Sessions, NEW l \in (Working \cup {"dead"}) \ {"retireNotify"},
         pc[s] \in Working \ {"stop"}, Goto(s, l), TypeOK',
         UNCHANGED <<poolVars, monitorVars, serverVars, shutdownVars>>
  PROVE  IInv'
<1> USE DEF IInv, TypeOK, SessionTypeOK, Goto
<1>1. Pooled' = Pooled /\ PoolConsistent'
  BY PooledUnchanged
<1>2. \A r \in Sessions : Idle(r)' <=> Idle(r)
  BY DEF Idle, AtHome, Working
<1>3. PooledAreIdle' /\ NoOrphan'
  BY <1>1, <1>2, PooledType DEF PooledAreIdle, NoOrphan, ServerHasDeck, Working
<1>4. NoLostWakeup' /\ MonitorInUse' /\ NailInShutdown'
  BY DEF NoLostWakeup, MonitorInUse, NailInShutdown, Working, AtHome, SessionPC
<1>5. OneShutdown' /\ VictimDone'
  BY DEF OneShutdown, VictimDone, Busy
<1>6. DeckTaken'
  BY <1>1, <1>2 DEF DeckTaken, ServerHasDeck, Working
<1> QED
  BY <1>1, <1>3, <1>4, <1>5, <1>6

LEMMA SessionOwnStepInv ==
  ASSUME IInv, TypeOK', NEW s \in Sessions, SessionOwnStep(s),
         UNCHANGED <<serverVars, shutdownVars>>
  PROVE  IInv'
<1> USE DEF IInv
<1>1. CASE ObtainSocket(s)
  <2>1. Pooled' = Pooled /\ PoolConsistent'
    BY <1>1, PooledUnchanged DEF ObtainSocket
  <2>2. s \notin Pooled /\ (ServerHasDeck => s # deck)
    BY <1>1 DEF ObtainSocket, PooledAreIdle, DeckTaken, Idle
  <2> USE <1>1 DEF ObtainSocket, TypeOK, SessionTypeOK, Goto
  <2>3. PooledAreIdle' /\ NoOrphan'
    BY <2>1, <2>2, PooledType DEF PooledAreIdle, NoOrphan, ServerHasDeck, Idle, AtHome
  <2>4. NoLostWakeup' /\ MonitorInUse' /\ NailInShutdown'
    BY DEF NoLostWakeup, MonitorInUse, NailInShutdown, AtHome
  <2>5. OneShutdown' /\ VictimDone' /\ DeckTaken'
    BY <2>1, <2>2 DEF OneShutdown, VictimDone, Busy, DeckTaken, ServerHasDeck, Idle, AtHome
  <2> QED
    BY <2>1, <2>3, <2>4, <2>5
<1>2. CASE WaitForSocket(s)
  <2>1. Pooled' = Pooled /\ PoolConsistent'
    BY <1>2, PooledUnchanged DEF WaitForSocket
  <2> USE <1>2 DEF WaitForSocket, TypeOK, SessionTypeOK, Goto
  <2>2. \A r \in Sessions : Idle(r)' <=> Idle(r)
    BY DEF Idle, AtHome
  <2>3. PooledAreIdle' /\ NoOrphan'
    BY <2>1, <2>2, PooledType DEF PooledAreIdle, NoOrphan, ServerHasDeck
  <2>4. NoLostWakeup' /\ MonitorInUse' /\ NailInShutdown'
    BY DEF NoLostWakeup, MonitorInUse, NailInShutdown, AtHome
  <2>5. OneShutdown' /\ VictimDone' /\ DeckTaken'
    BY <2>1, <2>2 DEF OneShutdown, VictimDone, Busy, DeckTaken, ServerHasDeck
  <2> QED
    BY <2>1, <2>3, <2>4, <2>5
<1>3. CASE WaitInterrupted(s) \/ EndThread(s)
  <2>1. Pooled' = Pooled /\ PoolConsistent'
    BY <1>3, PooledUnchanged DEF WaitInterrupted, EndThread
  <2> USE <1>3 DEF WaitInterrupted, EndThread, TypeOK, SessionTypeOK, Goto, SetDone
  <2>2. PooledAreIdle' /\ NoOrphan'
    BY <2>1, PooledType DEF PooledAreIdle, NoOrphan, ServerHasDeck, Idle, AtHome
  <2>3. NoLostWakeup' /\ MonitorInUse' /\ NailInShutdown'
    BY DEF NoLostWakeup, MonitorInUse, NailInShutdown, AtHome
  <2>4. OneShutdown' /\ VictimDone' /\ DeckTaken'
    BY <2>1 DEF OneShutdown, VictimDone, Busy, DeckTaken, ServerHasDeck, Idle, AtHome
  <2> QED
    BY <2>1, <2>2, <2>3, <2>4
<1>4. CASE \/ BeginNail(s) \/ RejectCommand(s) \/ FailHeaders(s)
           \/ \E outcome \in NailOutcomes : EndNail(s, outcome)
           \/ ExitVM(s) \/ CloseSocket(s) \/ ResetStreams(s)
           \/ GiveTestDone(s) \/ GiveTestFull(s)
  <2> PICK l \in (Working \cup {"dead"}) \ {"retireNotify"} :
         pc[s] \in Working \ {"stop"} /\ Goto(s, l)
    BY <1>4 DEF BeginNail, RejectCommand, FailHeaders, EndNail, ExitVM, CloseSocket,
                ResetStreams, GiveTestDone, GiveTestFull, Working, SessionPC
  <2>1. UNCHANGED <<poolVars, monitorVars>>
    BY <1>4 DEF BeginNail, RejectCommand, FailHeaders, EndNail, ExitVM, CloseSocket,
                ResetStreams, GiveTestDone, GiveTestFull
  <2> QED
    BY <2>1, LocalStep
<1>5. CASE ~PoolLocked /\ GivePush(s)
  <2>1. CASE PushOverflows
    <3>1. poolEntries \in Nat /\ PoolSize \in Nat
      BY PoolSizeType DEF TypeOK, PoolTypeOK
    <3>2. pc[s] = "push" /\ Goto(s, "dead") /\ UNCHANGED <<poolVars, monitorVars>>
      BY <1>5, <2>1, <3>1 DEF GivePush, PushOverflows, Push
    <3> QED
      BY <3>2, LocalStep DEF Working, SessionPC
  <2>2. CASE Push(s)
    <3> USE <1>5 DEF GivePush
    <3>1. s \notin Pooled
      BY DEF PooledAreIdle, Idle, AtHome
    <3>2. PoolConsistent' /\ Pooled' = Pooled \cup {s}
      BY <2>2, <3>1, PushFacts
    <3>3. Goto(s, "nextSocket") /\ nextSocket[s] = NoSocket
      BY <2>2 DEF PushOverflows, Push, MonitorInUse, AtHome, TypeOK, PoolTypeOK
    <3> USE <3>3 DEF TypeOK, SessionTypeOK, Goto
    <3>4. PooledAreIdle' /\ NoOrphan'
      BY <3>2, PooledType DEF PooledAreIdle, NoOrphan, ServerHasDeck, Idle, AtHome
    <3>5. NoLostWakeup' /\ MonitorInUse' /\ NailInShutdown'
      BY DEF NoLostWakeup, MonitorInUse, NailInShutdown, AtHome
    <3>6. OneShutdown' /\ VictimDone' /\ DeckTaken'
      BY <3>2 DEF OneShutdown, VictimDone, Busy, DeckTaken, ServerHasDeck, Idle, AtHome
    <3> QED
      BY <3>2, <3>4, <3>5, <3>6
  <2> QED
    BY <1>5, <2>1, <2>2 DEF GivePush
<1>6. CASE Retire(s) \/ RetireNotify(s)
  <2>1. Pooled' = Pooled /\ PoolConsistent' /\ s \notin Pooled
    BY <1>6, PooledUnchanged DEF Retire, RetireNotify, PooledAreIdle, Idle, AtHome
  <2> USE <1>6 DEF Retire, RetireNotify, TypeOK, SessionTypeOK, Goto, SetDone
  <2>2. PooledAreIdle' /\ NoOrphan'
    BY <2>1, PooledType
    DEF PooledAreIdle, NoOrphan, ServerHasDeck, MonitorInUse, Idle, AtHome
  <2>3. NoLostWakeup' /\ MonitorInUse' /\ NailInShutdown'
    BY DEF NoLostWakeup, MonitorInUse, NailInShutdown, AtHome
  <2>4. OneShutdown' /\ VictimDone' /\ DeckTaken'
    BY <2>1 DEF OneShutdown, VictimDone, Busy, DeckTaken, ServerHasDeck, Idle, AtHome
  <2> QED
    BY <2>1, <2>2, <2>3, <2>4
<1> QED
  BY <1>1, <1>2, <1>3, <1>4, <1>5, <1>6 DEF SessionOwnStep

(* A step of the server, away from the session on deck, that touches       *)
(* neither the pool nor the sessions.                                      *)
LEMMA ServerLocalStep ==
  ASSUME IInv, TypeOK',
         UNCHANGED <<poolVars, pc, monitorVars, shutdown, deck, shutdownVars>>,
         ~ServerHasDeck, ~ServerHasDeck',
         spc \notin {"deckDone", "deckNotify"}, spc' # "deckNotify"
  PROVE  IInv'
<1> USE DEF IInv, TypeOK
<1>1. Pooled' = Pooled /\ PoolConsistent'
  BY PooledUnchanged
<1>2. PooledAreIdle' /\ NoOrphan'
  BY <1>1 DEF PooledAreIdle, NoOrphan, Idle, ServerHasDeck
<1>3. NoLostWakeup' /\ MonitorInUse' /\ NailInShutdown'
  BY DEF NoLostWakeup, MonitorInUse, NailInShutdown
<1>4. OneShutdown' /\ DeckTaken' /\ VictimDone'
  BY <1>1 DEF OneShutdown, DeckTaken, VictimDone, ServerHasDeck, Busy
<1> QED
  BY <1>1, <1>2, <1>3, <1>4

LEMMA ServerStepInv ==
  ASSUME IInv, TypeOK', ServerStep
  PROVE  IInv'
<1> USE DEF IInv, ServerGoto
<1>1. CASE \/ ServerStart \/ InstallSecurityManager \/ InstallStreams \/ Bind
           \/ BindFails \/ TestShutdown \/ TakeFails \/ ServerExit
  <2>1. /\ UNCHANGED <<poolVars, pc, monitorVars, shutdown, deck, shutdownVars>>
        /\ ~ServerHasDeck /\ ~ServerHasDeck'
        /\ spc \notin {"deckDone", "deckNotify"} /\ spc' # "deckNotify"
    BY <1>1
    DEF ServerStart, InstallSecurityManager, InstallStreams, Bind, BindFails,
        TestShutdown, TakeFails, ServerExit, ServerHasDeck, sessionVars
  <2> QED
    BY <2>1, ServerLocalStep
<1>2. CASE TakePooled
  <2>1. PICK s \in Sessions : Pop(s) /\ deck' = s
    BY <1>2 DEF TakePooled
  <2>2. PoolConsistent' /\ s \in Pooled /\ Pooled' = Pooled \ {s}
    BY <2>1, PopFacts
  <2> USE <1>2, <2>1 DEF TakePooled, TypeOK, sessionVars
  <2>3. PooledAreIdle' /\ NoOrphan'
    BY <2>2 DEF PooledAreIdle, NoOrphan, Idle, ServerHasDeck
  <2>4. NoLostWakeup' /\ MonitorInUse' /\ NailInShutdown' /\ OneShutdown' /\ VictimDone'
    BY DEF NoLostWakeup, MonitorInUse, NailInShutdown, OneShutdown, VictimDone, Busy
  <2>5. DeckTaken'
    BY <2>2 DEF DeckTaken, PooledAreIdle, Idle, AtHome, ServerHasDeck
  <2> QED
    BY <2>2, <2>3, <2>4, <2>5
<1>3. CASE TakeNew
  <2>1. PICK s \in Sessions : StartThread(s) /\ deck' = s
    BY <1>3 DEF TakeNew
  <2>2. pc[s] = "unborn" /\ pc' = [pc EXCEPT ![s] = "nextSocket"]
    BY <2>1, FreshType DEF StartThread, Unborn, FreshSession
  <2>3. Pooled' = Pooled /\ PoolConsistent' /\ s \notin Pooled
    BY <1>3, <2>2, PooledUnchanged DEF TakeNew, PooledAreIdle, Idle, AtHome
  <2> USE <1>3, <2>1, <2>2 DEF TakeNew, TypeOK, SessionTypeOK
  <2>4. PooledAreIdle' /\ NoOrphan'
    BY <2>3, PooledType DEF PooledAreIdle, NoOrphan, Idle, AtHome, ServerHasDeck
  <2>5. NoLostWakeup' /\ MonitorInUse' /\ NailInShutdown' /\ OneShutdown' /\ VictimDone'
    BY DEF NoLostWakeup, MonitorInUse, NailInShutdown, OneShutdown, VictimDone, Busy, AtHome
  <2>6. DeckTaken'
    BY <2>3 DEF DeckTaken, MonitorInUse, Idle, AtHome, ServerHasDeck
  <2> QED
    BY <2>3, <2>4, <2>5, <2>6
<1>4. CASE (\E c \in Clients : Accept(c)) \/ AcceptFails
  <2>1. Pooled' = Pooled /\ PoolConsistent'
    BY <1>4, PooledUnchanged DEF Accept, AcceptFails
  <2> USE <1>4 DEF Accept, AcceptFails, TypeOK, sessionVars
  <2>2. PooledAreIdle' /\ NoOrphan'
    BY <2>1 DEF PooledAreIdle, NoOrphan, Idle, ServerHasDeck
  <2>3. NoLostWakeup' /\ MonitorInUse' /\ NailInShutdown' /\ OneShutdown' /\ VictimDone'
    BY DEF NoLostWakeup, MonitorInUse, NailInShutdown, OneShutdown, VictimDone, Busy
  <2>4. DeckTaken'
    BY <2>1 DEF DeckTaken, Idle, ServerHasDeck
  <2> QED
    BY <2>1, <2>2, <2>3, <2>4
<1>5. CASE HandOverToDeck
  <2>1. /\ accepted \in Clients /\ accepted # NoSocket
        /\ deck \in Sessions \ Pooled /\ pc[deck] \in AtHome \cup {"broken", "dead"}
    BY <1>5, NoSocketAssumption DEF HandOverToDeck, DeckTaken, ServerHasDeck, Idle
  <2>2. Pooled' = Pooled /\ PoolConsistent'
    BY <1>5, PooledUnchanged DEF HandOverToDeck
  <2> USE <1>5, <2>1 DEF HandOverToDeck, HandOver, Woken, TypeOK, SessionTypeOK
  <2>3. PooledAreIdle'
    BY <2>2, PooledType DEF PooledAreIdle, Idle, AtHome
  <2>4. NoOrphan'
    BY <2>2 DEF NoOrphan, Idle, AtHome, ServerHasDeck
  <2>5. NoLostWakeup' /\ MonitorInUse' /\ NailInShutdown' /\ OneShutdown' /\ VictimDone'
    BY DEF NoLostWakeup, MonitorInUse, NailInShutdown, OneShutdown, VictimDone, Busy, AtHome
  <2>6. DeckTaken'
    BY <2>2 DEF DeckTaken, ServerHasDeck, AtHome
  <2> QED
    BY <2>2, <2>3, <2>4, <2>5, <2>6
<1>6. CASE DeckDone
  <2>1. Pooled' = Pooled /\ PoolConsistent'
    BY <1>6, PooledUnchanged DEF DeckDone
  <2> USE <1>6, NoSessionAssumption DEF DeckDone, SetDone, TypeOK, SessionTypeOK
  <2>2. PooledAreIdle' /\ NoOrphan'
    BY <2>1, PooledType DEF PooledAreIdle, NoOrphan, Idle, ServerHasDeck
  <2>3. NoLostWakeup'
    BY DEF NoLostWakeup
  <2>4. MonitorInUse' /\ NailInShutdown'
    BY DEF MonitorInUse, NailInShutdown, DeckTaken
  <2>5. OneShutdown' /\ VictimDone'
    BY DEF OneShutdown, VictimDone, Busy
  <2>6. DeckTaken'
    BY DEF DeckTaken, ServerHasDeck
  <2> QED
    BY <2>1, <2>2, <2>3, <2>4, <2>5, <2>6
<1>7. CASE DeckNotify
  <2>1. Pooled' = Pooled /\ PoolConsistent' /\ deck \in Sessions /\ done[deck]
    BY <1>7, PooledUnchanged DEF DeckNotify, DeckTaken
  <2> USE <1>7, <2>1 DEF DeckNotify, ClearAndNotify, Woken, TypeOK, SessionTypeOK
  <2>2. PooledAreIdle' /\ NoOrphan'
    BY PooledType DEF PooledAreIdle, NoOrphan, Idle, AtHome, ServerHasDeck
  <2>3. NoLostWakeup' /\ MonitorInUse' /\ NailInShutdown' /\ OneShutdown' /\ VictimDone'
    BY DEF NoLostWakeup, MonitorInUse, NailInShutdown, OneShutdown, VictimDone, Busy, AtHome
  <2>4. DeckTaken'
    BY DEF DeckTaken, ServerHasDeck
  <2> QED
    BY <2>1, <2>2, <2>3, <2>4
<1> QED
  BY <1>1, <1>2, <1>3, <1>4, <1>5, <1>6, <1>7 DEF ServerStep

(* A step of shutdown(), or of the JVM, that leaves the pool's array and   *)
(* the monitors alone; at most the caller t moves, a working nail at that. *)
LEMMA CallerLocalStep ==
  ASSUME IInv, TypeOK', NEW t \in Callers,
         UNCHANGED <<pool, poolEntries, monitorVars, spc, deck, accepted, victim>>,
         \A u \in Callers : u # t => sdpc'[u] = sdpc[u],
         sdpc[t] # "drainNotify", sdpc'[t] # "drainNotify",
         OneShutdown',
         \/ UNCHANGED pc /\ (t \in Sessions => sdpc[t] \notin {"idle", "ended"})
         \/ UNCHANGED pc /\ t \notin Sessions
         \/ /\ t \in Sessions /\ pc[t] \in Working
            /\ \E l \in Working \ {"retireNotify"} : Goto(t, l)
            /\ sdpc'[t] = "ended" \/ pc'[t] = "stop"
  PROVE  IInv'
<1> USE DEF IInv, TypeOK, SessionTypeOK, Goto
<1>1. Pooled' = Pooled /\ PoolConsistent'
  BY PooledUnchanged
<1>2. \A r \in Sessions : /\ Idle(r)' <=> Idle(r)
                          /\ pc'[r] # pc[r] => pc[r] \in Working /\ pc'[r] \in Working
  BY DEF Idle, AtHome, Working
<1>3. PooledAreIdle' /\ NoOrphan'
  BY <1>1, <1>2, PooledType DEF PooledAreIdle, NoOrphan, ServerHasDeck, Working
<1>4. NoLostWakeup' /\ VictimDone'
  BY <1>2 DEF NoLostWakeup, VictimDone, Working
<1>5. MonitorInUse' /\ NailInShutdown'
  BY DEF MonitorInUse, NailInShutdown, Working, AtHome, Callers
<1>6. DeckTaken'
  BY <1>1, <1>2 DEF DeckTaken, ServerHasDeck, Working
<1> QED
  BY <1>1, <1>3, <1>4, <1>5, <1>6

LEMMA ShutdownStepInv ==
  ASSUME IInv, TypeOK', NEW t \in Callers, ShutdownStep(t)
  PROVE  IInv'
<1> USE DEF IInv, ShutdownGoto
<1>1. CASE ShutdownReturnsAtOnce(t)
  <2> USE <1>1 DEF ShutdownReturnsAtOnce, ShutdownReturns, TypeOK
  <2>1. OneShutdown'
    BY DEF OneShutdown, Busy
  <2>2. t \in Sessions => pc[t] = "stop" /\ t # Hook
    BY CallersAssumption DEF NailInShutdown
  <2> QED
    BY <2>1, <2>2, CallerLocalStep DEF Working, SessionPC
<1>2. CASE \/ ShutdownBegins(t) \/ CloseListener(t) \/ PoolShutdownBegins(t)
           \/ PoolShutdownLocks(t) \/ DrainEnds(t) \/ RestoreStreams(t)
  <2> USE <1>2
      DEF ShutdownBegins, CloseListener, PoolShutdownBegins, SetPoolDone,
          PoolShutdownLocks, DrainEnds, RestoreStreams, TypeOK, sessionVars
  <2>1. OneShutdown'
    BY DEF OneShutdown, Busy
  <2> QED
    BY <2>1, CallerLocalStep
<1>3. CASE DrainOne(t)
  <2>1. PICK s \in Sessions : Pop(s) /\ SetDone(s) /\ victim' = s
    BY <1>3 DEF DrainOne
  <2>2. PoolConsistent' /\ s \in Pooled /\ Pooled' = Pooled \ {s}
    BY <2>1, PopFacts
  <2> USE <1>3, <2>1 DEF DrainOne, SetDone, TypeOK, SessionTypeOK
  <2>3. PooledAreIdle' /\ NoOrphan'
    BY <2>2, PooledType DEF PooledAreIdle, NoOrphan, Idle, ServerHasDeck
  <2>4. OneShutdown' /\ VictimDone'
    BY DEF OneShutdown, VictimDone, Busy
  <2>5. NoLostWakeup'
    BY DEF NoLostWakeup, OneShutdown, Busy
  <2>6. MonitorInUse' /\ NailInShutdown' /\ DeckTaken'
    BY <2>2 DEF MonitorInUse, NailInShutdown, DeckTaken, PooledAreIdle, Idle, AtHome, ServerHasDeck
  <2> QED
    BY <2>2, <2>3, <2>4, <2>5, <2>6
<1>4. CASE DrainNotify(t)
  <2>1. Pooled' = Pooled /\ PoolConsistent' /\ victim \in Sessions /\ done[victim]
    BY <1>4, PooledUnchanged DEF DrainNotify, VictimDone
  <2> USE <1>4, <2>1 DEF DrainNotify, ClearAndNotify, Woken, TypeOK, SessionTypeOK
  <2>2. PooledAreIdle' /\ NoOrphan'
    BY PooledType DEF PooledAreIdle, NoOrphan, Idle, AtHome, ServerHasDeck
  <2>3. OneShutdown' /\ VictimDone'
    BY DEF OneShutdown, VictimDone, Busy
  <2>4. NoLostWakeup'
    BY DEF NoLostWakeup
  <2>5. MonitorInUse' /\ NailInShutdown' /\ DeckTaken'
    BY DEF MonitorInUse, NailInShutdown, DeckTaken, Idle, AtHome, ServerHasDeck
  <2> QED
    BY <2>1, <2>2, <2>3, <2>4, <2>5
<1>5. CASE RestoreSecurityManager(t)
  <2> USE <1>5 DEF RestoreSecurityManager, ShutdownReturns, TypeOK
  <2>1. OneShutdown'
    BY DEF OneShutdown, Busy
  <2>2. t \in Sessions => pc[t] = "stop" /\ t # Hook
    BY CallersAssumption DEF NailInShutdown
  <2> QED
    BY <2>1, <2>2, CallerLocalStep DEF Working, SessionPC
<1> QED
  BY <1>1, <1>2, <1>3, <1>4, <1>5 DEF ShutdownStep

LEMMA OtherStepInv ==
  ASSUME IInv, TypeOK',
         \/ \E s \in Sessions : NailCalls(s)
         \/ \E t \in Embedders : EmbedderCalls(t)
         \/ JVMStep
  PROVE  IInv'
<1> USE DEF IInv, TypeOK, ShutdownGoto
<1>1. CASE \E s \in Sessions : NailCalls(s)
  <2> PICK s \in Sessions : NailCalls(s)
    BY <1>1
  <2>1. s \in Callers /\ OneShutdown'
    BY DEF NailCalls, OneShutdown, Busy, Callers
  <2>2. pc[s] \in Working /\ Goto(s, "stop") /\ pc'[s] = "stop"
    BY DEF NailCalls, Goto, Working, SessionTypeOK, SessionPC
  <2>3. sdpc[s] # "drainNotify" /\ sdpc'[s] # "drainNotify"
    BY <2>1 DEF NailCalls, NailInShutdown
  <2> QED
    BY <2>1, <2>2, <2>3, CallerLocalStep DEF NailCalls, Working, SessionPC
<1>2. CASE \E t \in Embedders : EmbedderCalls(t)
  <2> PICK t \in Embedders : EmbedderCalls(t)
    BY <1>2
  <2>1. t \in Callers \ Sessions /\ OneShutdown'
    BY CallersAssumption DEF EmbedderCalls, OneShutdown, Busy, Callers
  <2> QED
    BY <2>1, CallerLocalStep DEF EmbedderCalls, sessionVars
<1>3. CASE JVMStep
  <2>1. Hook \in Callers \ Sessions /\ OneShutdown'
    BY <1>3, CallersAssumption
    DEF JVMStep, LastThreadEnds, HookStarts, HookEnds, HaltWithoutHook, EnvironmentStep,
        RegisterHook, Signal, Connect, OneShutdown, Busy, Callers
  <2>2. /\ UNCHANGED <<poolVars, pc, monitorVars, spc, deck, accepted, victim>>
        /\ \/ UNCHANGED sdpc
           \/ /\ sdpc[Hook] \in {"unregistered", "idle", "wait"}
              /\ \E l \in {"idle", "flag", "ended"} : ShutdownGoto(Hook, l)
    BY <1>3
    DEF JVMStep, LastThreadEnds, HookStarts, HookEnds, HaltWithoutHook, EnvironmentStep,
        RegisterHook, Signal, Connect, sessionVars
  <2>3. CASE UNCHANGED sdpc
    <3>1. Pooled' = Pooled /\ PoolConsistent'
      BY <2>2, PooledUnchanged
    <3> QED
      BY <2>1, <2>2, <2>3, <3>1
      DEF PooledAreIdle, NoOrphan, NoLostWakeup, MonitorInUse, NailInShutdown,
          DeckTaken, VictimDone, Idle, ServerHasDeck
  <2> QED
    BY <2>1, <2>2, <2>3, CallerLocalStep
<1> QED
  BY <1>1, <1>2, <1>3

LEMMA InitInv == Init => IInv
<1> SUFFICES ASSUME Init
             PROVE  IInv
  OBVIOUS
<1>1. TypeOK
  BY InitType
<1>2. PoolConsistent /\ Pooled = {}
  BY DEF Init, PoolInit, PoolConsistent, Pooled, Slots
<1>3. PooledAreIdle /\ NoOrphan /\ NoLostWakeup
  BY <1>2 DEF Init, SessionInit, PooledAreIdle, NoOrphan, NoLostWakeup, Idle, AtHome
<1>4. \A t \in Callers : sdpc[t] \in {"unregistered", "idle"} /\ (t # Hook => sdpc[t] = "idle")
  BY DEF Init
<1>5. OneShutdown /\ NailInShutdown /\ VictimDone
  BY <1>4, CallersAssumption DEF OneShutdown, NailInShutdown, VictimDone, Busy, Callers
<1>6. MonitorInUse /\ DeckTaken
  BY NoSessionAssumption
  DEF Init, SessionInit, MonitorInUse, DeckTaken, ServerHasDeck, AtHome
<1> QED
  BY <1>1, <1>2, <1>3, <1>5, <1>6 DEF IInv

LEMMA NextInv == IInv /\ [Next]_vars => IInv'
<1> SUFFICES ASSUME IInv, [Next]_vars
             PROVE  IInv'
  OBVIOUS
<1>1. TypeOK'
  BY NextType DEF IInv
<1>2. CASE ServerStep
  BY <1>1, <1>2, ServerStepInv
<1>3. CASE \E s \in Sessions : SessionOwnStep(s) /\ UNCHANGED <<serverVars, shutdownVars>>
  BY <1>1, <1>3, SessionOwnStepInv
<1>4. CASE \E t \in Callers : ShutdownStep(t)
  BY <1>1, <1>4, ShutdownStepInv
<1>5. CASE \/ \E s \in Sessions : NailCalls(s)
           \/ \E t \in Embedders : EmbedderCalls(t)
           \/ JVMStep
  BY <1>1, <1>5, OtherStepInv
<1>6. CASE UNCHANGED vars
  <2>1. Pooled' = Pooled /\ PoolConsistent'
    BY <1>6, PooledUnchanged DEF vars, IInv
  <2> QED
    BY <1>1, <1>6, <2>1
    DEF vars, sessionVars, IInv, PooledAreIdle, NoOrphan, NoLostWakeup, OneShutdown,
        MonitorInUse, NailInShutdown, DeckTaken, VictimDone, Idle, Busy, ServerHasDeck
<1> QED
  BY <1>2, <1>3, <1>4, <1>5, <1>6, NextCases

LEMMA Inductive == Spec => []IInv
  BY InitInv, NextInv, PTL DEF Spec

-----------------------------------------------------------------------------
(* The safety properties.                                                  *)

(* However give(), take() and shutdown() interleave (NGSessionPool.java),  *)
(* the pool stores poolEntries different sessions ...                      *)
THEOREM PoolCorrect == Spec => []PoolConsistent
<1>1. IInv => PoolConsistent
  BY DEF IInv
<1> QED
  BY <1>1, Inductive, PTL

(* ... and none of them is at work: it is idle, or has ended after it was  *)
(* shut down (NGSessionPool.java:110-120).                                 *)
THEOREM PooledCorrect == Spec => []PooledAreIdle
<1>1. IInv => PooledAreIdle
  BY DEF IInv
<1> QED
  BY <1>1, Inductive, PTL

(* A session waiting in nextSocket() (NGSession.java:157-164) never misses *)
(* the notification of a socket or of its shutdown.                        *)
THEOREM WakeupCorrect == Spec => []NoLostWakeup
<1>1. IInv => NoLostWakeup
  BY DEF IInv
<1> QED
  BY <1>1, Inductive, PTL

(* An idle session that was not shut down is in the pool or on deck.       *)
THEOREM NoOrphanCorrect == Spec => []NoOrphan
<1>1. IInv => NoOrphan
  BY DEF IInv
<1> QED
  BY <1>1, Inductive, PTL

LEMMA PooledCardinality ==
  ASSUME TypeOK
  PROVE  IsFiniteSet(Pooled) /\ Cardinality(Pooled) <= PoolSize
<1>1. poolEntries \in 0 .. PoolSize /\ PoolSize \in Nat
  BY PoolSizeType DEF TypeOK, PoolTypeOK
<1> DEFINE I == 0 .. (poolEntries - 1)
           f == [i \in I |-> pool[i]]
<1>2. IsFiniteSet(I) /\ Cardinality(I) = poolEntries
  BY <1>1, FS_Interval
<1>3. f \in Surjection(I, Pooled)
  BY DEF Surjection, Pooled
<1>4. IsFiniteSet(Pooled) /\ Cardinality(Pooled) <= Cardinality(I)
  BY <1>2, <1>3, FS_Surjection
<1>5. Cardinality(Pooled) \in Nat
  BY <1>4, FS_CardinalityType
<1> QED
  BY <1>1, <1>2, <1>4, <1>5

(* At most maxIdle sessions are idle, the one on deck included             *)
(* (NGSessionPool.java:22-26 and 70), although the test of give() is made  *)
(* outside of the lock.                                                    *)
THEOREM IdleLimitCorrect == Spec => []IdleLimit
<1>1. ASSUME IInv
      PROVE  IdleLimit
  <2> DEFINE A == {s \in Sessions : Idle(s) /\ ~done[s]}
  <2>1. A \in SUBSET (Pooled \cup {deck})
    BY <1>1 DEF IInv, NoOrphan
  <2> HIDE DEF A
  <2>2. IsFiniteSet(Pooled) /\ Cardinality(Pooled) <= PoolSize
    BY <1>1, PooledCardinality DEF IInv
  <2>3. /\ IsFiniteSet(Pooled \cup {deck})
        /\ Cardinality(Pooled \cup {deck}) <= Cardinality(Pooled) + 1
    <3>1. Cardinality(Pooled) \in Nat
      BY <2>2, FS_CardinalityType
    <3> QED
      BY <2>2, <3>1, FS_AddElement
  <2>4. IsFiniteSet(A) /\ Cardinality(A) <= Cardinality(Pooled \cup {deck})
    BY <2>1, <2>3, FS_Subset
  <2>5. /\ Cardinality(A) \in Nat /\ Cardinality(Pooled) \in Nat
        /\ Cardinality(Pooled \cup {deck}) \in Nat
    BY <2>2, <2>3, <2>4, FS_CardinalityType
  <2>6. Cardinality(A) <= MaxIdle
    BY <2>2, <2>3, <2>4, <2>5, MaxIdleAssumption DEF PoolSize
  <2> QED
    BY <2>6 DEF A, IdleLimit
<1> QED
  BY <1>1, Inductive, PTL

-----------------------------------------------------------------------------
(* A connection has one holder.                                            *)

LEMMA HolderUnchanged ==
  ASSUME OneHolder, UNCHANGED <<nextSocket, socket, accepted, conn>>
  PROVE  OneHolder'
  BY DEF OneHolder, HeldBy, InService

(* A session answers, closes, takes or drops nothing but its own socket.   *)
LEMMA HolderSession ==
  ASSUME TypeOK, OneHolder, NEW s \in Sessions, SessionOwnStep(s), UNCHANGED accepted
  PROVE  OneHolder'
<1> USE NoSocketAssumption DEF TypeOK, SessionTypeOK, HeldBy, InService
<1>1. CASE ObtainSocket(s)
  BY <1>1 DEF ObtainSocket, OneHolder
<1>2. CASE RejectCommand(s) \/ \E outcome \in NailOutcomes : EndNail(s, outcome)
  BY <1>2 DEF RejectCommand, EndNail, OneHolder, ConnState
<1>3. CASE CloseSocket(s)
  BY <1>3 DEF CloseSocket, OneHolder, ConnState
<1>4. CASE FailHeaders(s) \/ RetireNotify(s)
  BY <1>4 DEF FailHeaders, RetireNotify, OneHolder
<1>5. CASE \/ WaitForSocket(s) \/ WaitInterrupted(s) \/ EndThread(s)
           \/ BeginNail(s) \/ ExitVM(s) \/ ResetStreams(s) \/ GiveTestDone(s)
           \/ GiveTestFull(s) \/ GivePush(s) \/ Retire(s)
  BY <1>5, HolderUnchanged
  DEF WaitForSocket, WaitInterrupted, EndThread, BeginNail, ExitVM, ResetStreams,
      GiveTestDone, GiveTestFull, GivePush, Retire
<1> QED
  BY <1>1, <1>2, <1>3, <1>4, <1>5 DEF SessionOwnStep

LEMMA HolderServer ==
  ASSUME TypeOK, OneHolder, ServerStep
  PROVE  OneHolder'
<1> USE NoSocketAssumption DEF TypeOK, SessionTypeOK, HeldBy, InService
<1>1. CASE \E c \in Clients : Accept(c)
  BY <1>1 DEF Accept, OneHolder, ConnState
<1>2. CASE HandOverToDeck
  BY <1>2 DEF HandOverToDeck, HandOver, OneHolder
<1>3. CASE DeckNotify
  BY <1>3 DEF DeckNotify, ClearAndNotify, OneHolder
<1>4. CASE \/ ServerStart \/ InstallSecurityManager \/ InstallStreams \/ Bind
           \/ BindFails \/ TestShutdown \/ TakePooled \/ TakeNew \/ TakeFails
           \/ AcceptFails \/ DeckDone \/ ServerExit
  BY <1>4, HolderUnchanged
  DEF ServerStart, InstallSecurityManager, InstallStreams, Bind, BindFails,
      TestShutdown, TakePooled, TakeNew, TakeFails, AcceptFails, DeckDone,
      ServerExit, sessionVars
<1> QED
  BY <1>1, <1>2, <1>3, <1>4 DEF ServerStep

LEMMA HolderCaller ==
  ASSUME TypeOK, OneHolder, NEW t \in Callers, ShutdownStep(t)
  PROVE  OneHolder'
<1> USE NoSocketAssumption DEF TypeOK, SessionTypeOK, HeldBy, InService
<1>1. CASE ShutdownReturnsAtOnce(t) \/ RestoreSecurityManager(t)
  BY <1>1
  DEF ShutdownReturnsAtOnce, RestoreSecurityManager, ShutdownReturns, OneHolder, ConnState
<1>2. CASE CloseListener(t)
  BY <1>2 DEF CloseListener, OneHolder
<1>3. CASE DrainNotify(t)
  BY <1>3 DEF DrainNotify, ClearAndNotify, OneHolder
<1>4. CASE \/ ShutdownBegins(t) \/ PoolShutdownBegins(t) \/ PoolShutdownLocks(t)
           \/ DrainOne(t) \/ DrainEnds(t) \/ RestoreStreams(t)
  BY <1>4, HolderUnchanged
  DEF ShutdownBegins, PoolShutdownBegins, PoolShutdownLocks, DrainOne, DrainEnds,
      RestoreStreams, sessionVars
<1> QED
  BY <1>1, <1>2, <1>3, <1>4 DEF ShutdownStep

LEMMA HolderOther ==
  ASSUME TypeOK, OneHolder,
         \/ \E s \in Sessions : NailCalls(s)
         \/ \E t \in Embedders : EmbedderCalls(t)
         \/ JVMStep
  PROVE  OneHolder'
<1>1. CASE \E c \in Clients : Connect(c)
  BY <1>1 DEF Connect, OneHolder, HeldBy, InService, TypeOK, SessionTypeOK, ConnState
<1>2. CASE \/ \E s \in Sessions : NailCalls(s)
           \/ \E t \in Embedders : EmbedderCalls(t)
           \/ LastThreadEnds \/ HookStarts \/ HookEnds \/ HaltWithoutHook
           \/ RegisterHook \/ Signal
  BY <1>2, HolderUnchanged
  DEF NailCalls, EmbedderCalls, LastThreadEnds, HookStarts, HookEnds, HaltWithoutHook,
      RegisterHook, Signal, sessionVars
<1> QED
  BY <1>1, <1>2 DEF JVMStep, EnvironmentStep

(* No connection is ever held by two threads, nor by one before accept()   *)
(* or after close() (NGServer.java:379-380, NGSession.java:153-168, 313):  *)
(* no client is served twice or answered by two nails.                     *)
THEOREM HolderCorrect == Spec => []OneHolder
<1>1. Init => OneHolder
  BY NoSocketAssumption DEF Init, SessionInit, OneHolder, HeldBy
<1>2. TypeOK /\ OneHolder /\ [Next]_vars => OneHolder'
  <2> SUFFICES ASSUME TypeOK, OneHolder, [Next]_vars
               PROVE  OneHolder'
    OBVIOUS
  <2>1. CASE ServerStep
    BY <2>1, HolderServer
  <2>2. CASE \E s \in Sessions : SessionOwnStep(s) /\ UNCHANGED <<serverVars, shutdownVars>>
    BY <2>2, HolderSession
  <2>3. CASE \E t \in Callers : ShutdownStep(t)
    BY <2>3, HolderCaller
  <2>4. CASE \/ \E s \in Sessions : NailCalls(s)
             \/ \E t \in Embedders : EmbedderCalls(t)
             \/ JVMStep
    BY <2>4, HolderOther
  <2>5. CASE UNCHANGED vars
    BY <2>5, HolderUnchanged DEF vars, sessionVars
  <2> QED
    BY <2>1, <2>2, <2>3, <2>4, <2>5, NextCases
<1> QED
  BY <1>1, <1>2, TypeCorrect, PTL DEF Spec

-----------------------------------------------------------------------------
(* The session on deck.                                                    *)

USE DEF DoneIsFinal, DoneIsOut, DeckIsFresh, PooledAreFresh, Broken

LEMMA FinalUnchanged ==
  ASSUME DoneIsFinal, UNCHANGED <<pc, done, nextSocket, deck, Pooled>>,
         UNCHANGED spc \/ (ServerDone' /\ ~ServerHasDeck') \/ ~(ServerDone \/ ServerHasDeck')
  PROVE  DoneIsFinal'
  BY DEF DoneIsFinal, Idle, ServerHasDeck, ServerDone

LEMMA FinalSession ==
  ASSUME IInv, DoneIsFinal, NEW s \in Sessions, SessionOwnStep(s),
         UNCHANGED <<serverVars, shutdownVars>>
  PROVE  DoneIsFinal'
<1> USE DEF IInv, TypeOK, SessionTypeOK, Goto, Idle, AtHome, ServerDone, ServerHasDeck
<1>1. CASE ~GivePush(s)
  <2>1. Pooled' = Pooled
    BY <1>1, PooledUnchanged
    DEF SessionOwnStep, ObtainSocket, WaitForSocket, WaitInterrupted, EndThread, BeginNail,
        RejectCommand, FailHeaders, EndNail, ExitVM, CloseSocket, ResetStreams,
        GiveTestDone, GiveTestFull, Retire, RetireNotify
  <2>2. CASE ObtainSocket(s)
    BY <2>1, <2>2 DEF ObtainSocket, DoneIsFinal
  <2>3. CASE WaitForSocket(s)
    BY <2>1, <2>3 DEF WaitForSocket, DoneIsFinal
  <2>4. CASE WaitInterrupted(s) \/ EndThread(s)
    <3> USE <2>1, <2>4 DEF WaitInterrupted, EndThread, SetDone, serverVars
    <3>1. DoneIsOut' /\ PooledAreFresh'
      BY DEF DoneIsOut, PooledAreFresh
    <3>2. DeckIsFresh'
      BY DEF DeckIsFresh, DoneIsOut, DeckTaken
    <3> QED
      BY <3>1, <3>2
  <2>5. CASE Retire(s)
    BY <2>1, <2>5 DEF Retire, SetDone, DoneIsFinal, PooledAreIdle, MonitorInUse
  <2>6. CASE RetireNotify(s)
    BY <2>1, <2>6 DEF RetireNotify, DoneIsFinal
  <2>7. CASE \/ BeginNail(s) \/ RejectCommand(s) \/ FailHeaders(s)
             \/ \E outcome \in NailOutcomes : EndNail(s, outcome)
             \/ ExitVM(s) \/ CloseSocket(s) \/ ResetStreams(s)
             \/ GiveTestDone(s) \/ GiveTestFull(s)
    <3>1. /\ pc[s] \in Working \ {"retireNotify"} /\ UNCHANGED <<done, nextSocket>>
          /\ \A r \in Sessions : r # s => pc'[r] = pc[r]
          /\ pc'[s] # "broken"
      BY <2>7
      DEF BeginNail, RejectCommand, FailHeaders, EndNail, ExitVM, CloseSocket,
          ResetStreams, GiveTestDone, GiveTestFull, Working, SessionPC, DoneIsFinal
    <3>2. /\ done[s] \/ s \in Pooled => ServerDone
          /\ ServerHasDeck => s # deck
      BY <3>1 DEF DoneIsFinal, Working
    <3>3. PooledAreFresh'
      BY <2>1, <3>1, <3>2 DEF PooledAreFresh
    <3>4. DoneIsOut'
      BY <2>1, <3>1, <3>2 DEF DoneIsOut
    <3>5. DeckIsFresh'
      <4>1. UNCHANGED <<spc, deck, done, nextSocket>>
        BY <3>1 DEF serverVars
      <4>2. ServerHasDeck => deck \in Sessions /\ pc'[deck] = pc[deck]
        BY <3>1, <3>2 DEF DeckTaken
      <4> QED
        BY <4>1, <4>2 DEF DeckIsFresh, DoneIsFinal
    <3> QED
      BY <3>3, <3>4, <3>5
  <2> QED
    BY <1>1, <2>2, <2>3, <2>4, <2>5, <2>6, <2>7 DEF SessionOwnStep
<1>2. CASE GivePush(s)
  <2>1. s \notin Pooled /\ nextSocket[s] = NoSocket
    BY <1>2 DEF GivePush, PooledAreIdle, MonitorInUse
  <2>2. CASE Push(s) /\ Goto(s, "nextSocket")
    <3>1. Pooled' = Pooled \cup {s}
      BY <2>1, <2>2, PushFacts
    <3> QED
      BY <1>2, <2>1, <2>2, <3>1 DEF GivePush, DoneIsFinal
  <2>3. CASE PushOverflows /\ Goto(s, "dead")
    <3>1. Pooled' = Pooled
      BY <2>3, PooledUnchanged DEF PushOverflows
    <3> QED
      BY <1>2, <2>1, <2>3, <3>1 DEF GivePush, DoneIsFinal
  <2> QED
    BY <1>2, <2>2, <2>3 DEF GivePush
<1> QED
  BY <1>1, <1>2

LEMMA FinalServer ==
  ASSUME IInv, DoneIsFinal, ServerStep
  PROVE  DoneIsFinal'
<1> USE DEF IInv, TypeOK, SessionTypeOK, Idle, AtHome, ServerDone, ServerHasDeck, ServerGoto
<1>1. CASE TakePooled
  <2> PICK s \in Sessions : Pop(s) /\ deck' = s
    BY <1>1 DEF TakePooled
  <2>1. s \in Pooled /\ Pooled' = Pooled \ {s}
    BY PopFacts
  <2> QED
    BY <1>1, <2>1 DEF TakePooled, sessionVars, DoneIsFinal
<1>2. Pooled' = Pooled \/ TakePooled
  BY PooledUnchanged
  DEF ServerStep, ServerStart, InstallSecurityManager, InstallStreams, Bind,
      BindFails, TestShutdown, TakeNew, TakeFails, Accept, AcceptFails,
      HandOverToDeck, DeckDone, DeckNotify, ServerExit
<1>3. CASE TakeNew
  <2> PICK s \in Sessions : StartThread(s) /\ deck' = s
    BY <1>3 DEF TakeNew
  <2>1. pc[s] = "unborn" /\ pc' = [pc EXCEPT ![s] = "nextSocket"]
    BY FreshType DEF StartThread, Unborn, FreshSession
  <2>2. s \notin Pooled /\ ~done[s] /\ nextSocket[s] = NoSocket
    BY <2>1 DEF MonitorInUse, PooledAreIdle
  <2>3. Pooled' = Pooled
    BY <1>3, PooledUnchanged DEF TakeNew
  <2> QED
    BY <1>3, <2>1, <2>2, <2>3 DEF TakeNew, DoneIsFinal
<1>4. CASE HandOverToDeck
  BY <1>2, <1>4
  DEF HandOverToDeck, TakePooled, HandOver, Woken, DoneIsFinal, DeckTaken
<1>5. CASE DeckDone
  BY <1>2, <1>5 DEF DeckDone, TakePooled, SetDone, DoneIsFinal
<1>6. CASE DeckNotify
  BY <1>2, <1>6 DEF DeckNotify, TakePooled, ClearAndNotify, Woken, DoneIsFinal
<1>7. CASE \/ ServerStart \/ InstallSecurityManager \/ InstallStreams \/ Bind
           \/ BindFails \/ TestShutdown \/ TakeFails \/ AcceptFails \/ ServerExit
  BY <1>2, <1>7
  DEF ServerStart, InstallSecurityManager, InstallStreams, Bind, BindFails,
      TestShutdown, TakeFails, AcceptFails, ServerExit, TakePooled, sessionVars,
      DoneIsFinal
<1>8. CASE \E c \in Clients : Accept(c)
  BY <1>2, <1>8 DEF Accept, TakePooled, DoneIsFinal
<1> QED
  BY <1>1, <1>3, <1>4, <1>5, <1>6, <1>7, <1>8 DEF ServerStep

LEMMA FinalCaller ==
  ASSUME IInv, DoneIsFinal, NEW t \in Callers, ShutdownStep(t)
  PROVE  DoneIsFinal'
<1> USE DEF IInv, TypeOK, SessionTypeOK, Idle, AtHome, ServerDone, ServerHasDeck
<1>1. CASE DrainOne(t)
  <2> PICK s \in Sessions : Pop(s) /\ SetDone(s) /\ victim' = s
    BY <1>1 DEF DrainOne
  <2>1. s \in Pooled /\ Pooled' = Pooled \ {s}
    BY PopFacts
  <2>2. ServerHasDeck => s # deck
    BY <2>1 DEF DeckTaken
  <2>3. ServerDone \/ Idle(s) \/ Broken(s)
    BY <2>1 DEF DoneIsFinal
  <2> USE <1>1, <2>1, <2>2, <2>3 DEF DrainOne, SetDone
  <2>4. PooledAreFresh'
    BY DEF PooledAreFresh
  <2>5. DoneIsOut'
    BY DEF DoneIsOut
  <2>6. DeckIsFresh'
    BY DEF DeckIsFresh
  <2> QED
    BY <2>4, <2>5, <2>6 DEF DoneIsFinal
<1>2. CASE ~DrainOne(t)
  <2>1. Pooled' = Pooled
    BY <1>2, PooledUnchanged
    DEF ShutdownStep, ShutdownReturnsAtOnce, ShutdownBegins, CloseListener,
        PoolShutdownBegins, SetPoolDone, PoolShutdownLocks, DrainNotify,
        DrainEnds, RestoreStreams, RestoreSecurityManager
  <2>2. CASE DrainNotify(t)
    BY <2>1, <2>2 DEF DrainNotify, ClearAndNotify, Woken, DoneIsFinal
  <2>3. CASE \/ ShutdownBegins(t) \/ CloseListener(t) \/ PoolShutdownBegins(t)
             \/ PoolShutdownLocks(t) \/ DrainEnds(t) \/ RestoreStreams(t)
    BY <2>1, <2>3, FinalUnchanged
    DEF ShutdownBegins, CloseListener, PoolShutdownBegins, PoolShutdownLocks,
        DrainEnds, RestoreStreams, sessionVars
  <2>4. CASE ShutdownReturnsAtOnce(t) \/ RestoreSecurityManager(t)
    <3>1. \/ UNCHANGED pc
          \/ /\ t \in Sessions /\ pc[t] = "stop"
             /\ Goto(t, "close") \/ Goto(t, "exitVM")
      BY <2>4, CallersAssumption
      DEF ShutdownReturnsAtOnce, RestoreSecurityManager, ShutdownReturns, NailInShutdown
    <3>2. UNCHANGED <<monitorVars, interrupted, deck, spc>>
      BY <2>4 DEF ShutdownReturnsAtOnce, RestoreSecurityManager
    <3>3. PooledAreFresh'
      BY <2>1, <3>1, <3>2 DEF Goto, PooledAreFresh
    <3>4. DoneIsOut'
      BY <2>1, <3>1, <3>2 DEF Goto, DoneIsOut
    <3>5. DeckIsFresh'
      <4>1. UNCHANGED <<spc, deck, done, nextSocket>>
        BY <3>2
      <4>2. ServerHasDeck => deck \in Sessions /\ pc'[deck] = pc[deck]
        BY <3>1 DEF Goto, DeckTaken
      <4> QED
        BY <4>1, <4>2 DEF DeckIsFresh, DoneIsFinal
    <3> QED
      BY <3>3, <3>4, <3>5
  <2> QED
    BY <1>2, <2>2, <2>3, <2>4 DEF ShutdownStep
<1> QED
  BY <1>1, <1>2

LEMMA FinalOther ==
  ASSUME IInv, DoneIsFinal,
         \/ \E s \in Sessions : NailCalls(s)
         \/ \E t \in Embedders : EmbedderCalls(t)
         \/ JVMStep
  PROVE  DoneIsFinal'
<1>1. Pooled' = Pooled
  BY PooledUnchanged
  DEF JVMStep, NailCalls, EmbedderCalls, LastThreadEnds, HookStarts, HookEnds,
      HaltWithoutHook, EnvironmentStep, RegisterHook, Signal, Connect
<1>2. CASE \E s \in Sessions : NailCalls(s)
  BY <1>1, <1>2
  DEF NailCalls, Goto, DoneIsFinal, Idle, AtHome, ServerDone, ServerHasDeck, IInv,
      TypeOK, SessionTypeOK
<1>3. CASE \/ \E t \in Embedders : EmbedderCalls(t)
           \/ JVMStep
  BY <1>1, <1>3, FinalUnchanged
  DEF JVMStep, EmbedderCalls, LastThreadEnds, HookStarts, HookEnds, HaltWithoutHook,
      EnvironmentStep, RegisterHook, Signal, Connect, sessionVars
<1> QED
  BY <1>2, <1>3

LEMMA FinalAlways == Spec => []DoneIsFinal
<1>1. Init => DoneIsFinal
  BY DEF Init, PoolInit, SessionInit, DoneIsFinal, Pooled, ServerDone, ServerHasDeck
<1>2. IInv /\ DoneIsFinal /\ [Next]_vars => DoneIsFinal'
  <2> SUFFICES ASSUME IInv, DoneIsFinal, [Next]_vars
               PROVE  DoneIsFinal'
    OBVIOUS
  <2>1. CASE ServerStep
    BY <2>1, FinalServer
  <2>2. CASE \E s \in Sessions : SessionOwnStep(s) /\ UNCHANGED <<serverVars, shutdownVars>>
    BY <2>2, FinalSession
  <2>3. CASE \E t \in Callers : ShutdownStep(t)
    BY <2>3, FinalCaller
  <2>4. CASE \/ \E s \in Sessions : NailCalls(s)
             \/ \E t \in Embedders : EmbedderCalls(t)
             \/ JVMStep
    BY <2>4, FinalOther
  <2>5. CASE UNCHANGED vars
    <3>1. Pooled' = Pooled
      BY <2>5, PooledUnchanged DEF vars
    <3> QED
      BY <2>5, <3>1, FinalUnchanged DEF vars, sessionVars
  <2> QED
    BY <2>1, <2>2, <2>3, <2>4, <2>5, NextCases
<1> QED
  BY <1>1, <1>2, Inductive, PTL DEF Spec

(* "an NGSession ready to work" (NGSessionPool.java:78): whatever nails do *)
(* and whatever fails, the session take() returned (NGServer.java:378) has *)
(* no other holder and no socket when its connection arrives, and is not   *)
(* shut down, unless an interrupt that a nail left behind has ended it in  *)
(* its wait (NGSession.java:160).                                          *)
THEOREM DeckCorrect == Spec => []DeckIsReady
<1>1. IInv /\ DoneIsFinal => DeckIsReady
  BY DEF IInv, DeckTaken, DeckIsReady
<1> QED
  BY <1>1, Inductive, FinalAlways, PTL

-----------------------------------------------------------------------------
(* Refinement.                                                             *)

HIDE DEF DoneIsFinal, DoneIsOut, DeckIsFresh, PooledAreFresh

(* What every reachable state satisfies, and the steps start from.         *)
Sound == IInv /\ OneHolder /\ DoneIsFinal /\ InHands

-----------------------------------------------------------------------------
(* InHands is preserved by every step.                                     *)

LEMMA HandsUnchanged ==
  ASSUME InHands,
         UNCHANGED <<pc, nextSocket, socket, accepted, conn, deck, spc,
                     securityManager, threadLocalStreams, Pooled>>,
         shutdown => shutdown', sdpc'[Hook] = "wait" => shutdown
  PROVE  InHands'
  BY DEF InHands, HandsFree, SocketInUse, ConnPhase, StopFirst, Unanswered, ServerHasDeck

(* A working session that keeps its socket, or drops it.                   *)
LEMMA HandsLocal ==
  ASSUME IInv, InHands, NEW s \in Sessions, NEW l \in SessionPC \ {"unborn"},
         Goto(s, l), pc[s] # "unborn",
         UNCHANGED <<poolVars, nextSocket, conn, jvmVars, serverVars, shutdownVars>>,
         \/ UNCHANGED socket /\ (pc[s] \in Serving <=> l \in Serving)
         \/ socket' = [socket EXCEPT ![s] = NoSocket] /\ l \notin Serving,
         l \in {"headers", "nail", "stop"} => pc[s] \in {"headers", "nail", "stop"},
         l = "close" => pc[s] = "close"
  PROVE  InHands'
<1> USE NoSocketAssumption DEF IInv, TypeOK, SessionTypeOK, Goto
<1>1. Pooled' = Pooled
  BY PooledUnchanged
<1>2. HandsFree'
  BY <1>1 DEF InHands, HandsFree, ServerHasDeck
<1>3. SocketInUse'
  BY DEF InHands, SocketInUse
<1>4. ConnPhase'
  BY DEF InHands, ConnPhase, Unanswered, Serving
<1>5. StopFirst'
  BY DEF InHands, StopFirst
<1> QED
  BY <1>2, <1>3, <1>4, <1>5 DEF InHands

LEMMA HandsSession ==
  ASSUME Sound, NEW s \in Sessions, SessionOwnStep(s),
         UNCHANGED <<serverVars, shutdownVars>>
  PROVE  InHands'
<1> USE NoSocketAssumption
    DEF Sound, IInv, TypeOK, SessionTypeOK, SessionPC, Serving, Goto
<1>1. CASE \/ WaitForSocket(s) \/ WaitInterrupted(s) \/ EndThread(s)
           \/ BeginNail(s) \/ FailHeaders(s) \/ ExitVM(s) \/ ResetStreams(s) \/ GiveTestDone(s) \/ GiveTestFull(s)
           \/ Retire(s)
  <2> PICK l \in SessionPC \ {"unborn"} :
         /\ Goto(s, l)
         /\ pc[s] \in Serving => (pc[s] = "nail" /\ l = "exitVM") \/ l \in {"nail", "reset"}
         /\ pc[s] \notin Serving => l \notin Serving
         /\ l = "reset" => socket' = [socket EXCEPT ![s] = NoSocket]
         /\ l # "reset" => UNCHANGED socket
         /\ l = "nail" => pc[s] = "headers"
    BY <1>1 DEF WaitForSocket, WaitInterrupted, EndThread, BeginNail, FailHeaders, ExitVM,
                ResetStreams, GiveTestDone, GiveTestFull, Retire
  <2>1. /\ pc[s] # "unborn"
        /\ UNCHANGED <<poolVars, nextSocket, conn, jvmVars>>
    BY <1>1 DEF WaitForSocket, WaitInterrupted, EndThread, BeginNail, FailHeaders, ExitVM,
                ResetStreams, GiveTestDone, GiveTestFull, Retire
  <2> QED
    BY <2>1, HandsLocal
<1>2. CASE ObtainSocket(s)
  <2> USE <1>2 DEF ObtainSocket, InHands
  <2>1. Pooled' = Pooled
    BY PooledUnchanged
  <2>2. HandsFree' /\ StopFirst'
    BY <2>1, PooledType DEF HandsFree, StopFirst, ServerHasDeck, DeckTaken
  <2>3. SocketInUse'
    BY DEF SocketInUse
  <2>4. ConnPhase'
    BY DEF ConnPhase, Unanswered
  <2> QED
    BY <2>2, <2>3, <2>4
<1>3. CASE RejectCommand(s) \/ (\E outcome \in NailOutcomes : EndNail(s, outcome))
  <2> DEFINE c == socket[s]
  <2>1. /\ pc[s] \in {"headers", "nail"} /\ c \in Clients
        /\ conn' = [conn EXCEPT ![c] = "answered"]
        /\ pc' = [pc EXCEPT ![s] = "close"]
        /\ UNCHANGED <<poolVars, nextSocket, socket, jvmVars>>
    BY <1>3 DEF RejectCommand, EndNail, InHands, SocketInUse
  <2>2. /\ accepted # c
        /\ \A r \in Sessions : nextSocket[r] # c /\ (r # s => socket[r] # c)
    BY <2>1 DEF OneHolder, HeldBy
  <2>3. Pooled' = Pooled
    BY <2>1, PooledUnchanged
  <2>4. HandsFree' /\ StopFirst' /\ SocketInUse'
    BY <2>1, <2>3 DEF InHands, HandsFree, StopFirst, ServerHasDeck, SocketInUse
  <2>5. ConnPhase'
    BY <2>1, <2>2 DEF InHands, ConnPhase, Unanswered, SocketInUse
  <2> QED
    BY <2>4, <2>5 DEF InHands
<1>4. CASE CloseSocket(s)
  <2> DEFINE c == socket[s]
  <2> USE <1>4 DEF CloseSocket, InHands
  <2>1. /\ c \in Clients /\ accepted # c
        /\ \A r \in Sessions : nextSocket[r] # c /\ (r # s => socket[r] # c)
    BY DEF OneHolder, HeldBy, SocketInUse
  <2>2. Pooled' = Pooled
    BY PooledUnchanged
  <2>3. HandsFree' /\ StopFirst' /\ SocketInUse'
    BY <2>2 DEF HandsFree, StopFirst, ServerHasDeck, SocketInUse
  <2>4. ConnPhase'
    BY <2>1 DEF ConnPhase, Unanswered, SocketInUse
  <2> QED
    BY <2>3, <2>4
<1>5. CASE GivePush(s)
  <2> USE <1>5 DEF GivePush, InHands
  <2>1. nextSocket[s] = NoSocket /\ s \notin Pooled
    BY DEF MonitorInUse, AtHome, PooledAreIdle, Idle
  <2>2. Pooled' \subseteq Pooled \cup {s}
    BY <2>1, PushFacts, PooledUnchanged DEF PushOverflows
  <2>3. HandsFree' /\ StopFirst'
    BY <2>1, <2>2 DEF HandsFree, StopFirst, ServerHasDeck
  <2>4. SocketInUse'
    BY DEF SocketInUse
  <2>5. ConnPhase'
    BY DEF ConnPhase, Unanswered
  <2> QED
    BY <2>3, <2>4, <2>5
<1>6. CASE RetireNotify(s)
  <2> USE <1>6 DEF RetireNotify, InHands
  <2>1. UNCHANGED nextSocket
    BY DEF MonitorInUse, AtHome
  <2> QED
    BY <2>1, HandsLocal
<1> QED
  BY <1>1, <1>2, <1>3, <1>4, <1>5, <1>6 DEF SessionOwnStep

LEMMA HandsServer ==
  ASSUME Sound, ServerStep
  PROVE  InHands'
<1> USE NoSocketAssumption
    DEF Sound, IInv, TypeOK, SessionTypeOK, SessionPC, ServerHasDeck, ServerGoto
<1>1. CASE \/ ServerStart \/ InstallSecurityManager \/ InstallStreams \/ Bind
           \/ BindFails \/ TestShutdown \/ TakeFails \/ AcceptFails \/ DeckDone
           \/ ServerExit
  <2> USE <1>1
      DEF ServerStart, InstallSecurityManager, InstallStreams, Bind, BindFails,
          TestShutdown, TakeFails, AcceptFails, DeckDone, ServerExit, sessionVars
  <2>1. /\ UNCHANGED <<poolVars, pc, nextSocket, socket, conn, deck, accepted,
                       shutdown, sdpc>>
        /\ ~ServerHasDeck' /\ spc # "handOver" /\ spc' # "handOver"
    OBVIOUS
  <2>2. Pooled' = Pooled
    BY <2>1, PooledUnchanged
  <2>3. HandsFree' /\ SocketInUse' /\ ConnPhase'
    BY <2>1, <2>2 DEF InHands, HandsFree, SocketInUse, ConnPhase, Unanswered
  <2>4. StopFirst'
    BY DEF InHands, StopFirst, Starting
  <2> QED
    BY <2>3, <2>4 DEF InHands
<1>2. CASE TakePooled
  <2> PICK s \in Sessions : Pop(s) /\ deck' = s
    BY <1>2 DEF TakePooled
  <2>1. s \in Pooled /\ Pooled' = Pooled \ {s}
    BY PopFacts
  <2> USE <1>2 DEF TakePooled, sessionVars, InHands
  <2>2. HandsFree' /\ SocketInUse' /\ ConnPhase'
    BY <2>1 DEF HandsFree, SocketInUse, ConnPhase, Unanswered
  <2>3. StopFirst'
    BY DEF StopFirst, Starting
  <2> QED
    BY <2>2, <2>3
<1>3. CASE TakeNew
  <2> PICK s \in Sessions : StartThread(s) /\ deck' = s
    BY <1>3 DEF TakeNew
  <2>1. pc[s] = "unborn" /\ pc' = [pc EXCEPT ![s] = "nextSocket"]
    BY FreshType DEF StartThread, Unborn, FreshSession
  <2> USE <1>3, <2>1 DEF TakeNew, InHands
  <2>2. Pooled' = Pooled /\ nextSocket[s] = NoSocket
    BY PooledUnchanged DEF MonitorInUse, AtHome
  <2>3. HandsFree'
    BY <2>2 DEF HandsFree
  <2>4. SocketInUse' /\ ConnPhase'
    BY DEF SocketInUse, ConnPhase, Unanswered, Serving
  <2>5. StopFirst'
    BY DEF StopFirst, Starting
  <2> QED
    BY <2>3, <2>4, <2>5
<1>4. CASE \E c \in Clients : Accept(c)
  <2> PICK c \in Clients : Accept(c)
    BY <1>4
  <2> USE DEF Accept, InHands
  <2>1. Pooled' = Pooled
    BY PooledUnchanged
  <2>2. HandsFree' /\ SocketInUse'
    BY <2>1 DEF HandsFree, SocketInUse
  <2>3. ConnPhase'
    BY DEF ConnPhase, Unanswered, SocketInUse, Serving
  <2>4. StopFirst'
    BY DEF StopFirst, Starting
  <2> QED
    BY <2>2, <2>3, <2>4
<1>5. CASE HandOverToDeck
  <2> USE <1>5 DEF HandOverToDeck, HandOver, InHands
  <2>1. Pooled' = Pooled /\ deck \notin Pooled
    BY PooledUnchanged DEF DeckTaken
  <2>2. \A s \in Sessions : (pc'[s] \in Serving <=> pc[s] \in Serving)
                            /\ (pc'[s] \in Serving \cup {"unborn"} => pc'[s] = pc[s])
                            /\ (pc[s] = "unborn" => pc'[s] = "unborn")
    BY DEF Woken, Serving
  <2>3. HandsFree'
    BY <2>1, PooledType DEF HandsFree
  <2>4. SocketInUse'
    BY <2>2 DEF SocketInUse
  <2>5. ConnPhase'
    BY <2>2 DEF ConnPhase, Unanswered, Serving
  <2>6. StopFirst'
    BY <2>2 DEF StopFirst, Starting
  <2> QED
    BY <2>3, <2>4, <2>5, <2>6
<1>6. CASE DeckNotify
  <2> USE <1>6 DEF DeckNotify, ClearAndNotify, InHands
  <2>1. Pooled' = Pooled
    BY PooledUnchanged
  <2>2. \A s \in Sessions : (pc'[s] \in Serving <=> pc[s] \in Serving)
                            /\ (pc'[s] \in Serving \cup {"unborn"} => pc'[s] = pc[s])
                            /\ (pc[s] = "unborn" => pc'[s] = "unborn")
                            /\ nextSocket'[s] \in {nextSocket[s], NoSocket}
    BY DEF Woken, Serving
  <2>3. HandsFree'
    BY <2>1, <2>2, PooledType DEF HandsFree
  <2>4. SocketInUse'
    BY <2>2 DEF SocketInUse
  <2>5. ConnPhase'
    BY <2>2 DEF ConnPhase, Unanswered, Serving
  <2>6. StopFirst'
    BY <2>2 DEF StopFirst, Starting
  <2> QED
    BY <2>3, <2>4, <2>5, <2>6
<1> QED
  BY <1>1, <1>2, <1>3, <1>4, <1>5, <1>6 DEF ServerStep

LEMMA HandsCaller ==
  ASSUME Sound, NEW t \in Callers, ShutdownStep(t)
  PROVE  InHands'
<1> USE NoSocketAssumption
    DEF Sound, IInv, TypeOK, SessionTypeOK, SessionPC, ServerHasDeck, ShutdownGoto
<1>1. CASE \/ ShutdownBegins(t) \/ PoolShutdownBegins(t) \/ PoolShutdownLocks(t)
           \/ DrainEnds(t)
  <2> USE <1>1
      DEF ShutdownBegins, PoolShutdownBegins, SetPoolDone, PoolShutdownLocks,
          DrainEnds, sessionVars
  <2>1. Pooled' = Pooled
    BY PooledUnchanged
  <2>2. (shutdown => shutdown') /\ (sdpc'[Hook] = "wait" => shutdown)
    BY DEF InHands, StopFirst, Callers
  <2> QED
    BY <2>1, <2>2, HandsUnchanged
<1>2. CASE CloseListener(t)
  <2> USE <1>2 DEF CloseListener, InHands
  <2>1. Pooled' = Pooled
    BY PooledUnchanged
  <2>2. \A c \in Clients : conn[c] # "queued" => conn'[c] = conn[c]
    OBVIOUS
  <2>3. HandsFree' /\ SocketInUse' /\ StopFirst'
    BY <2>1 DEF HandsFree, SocketInUse, StopFirst
  <2>4. ConnPhase'
    BY <2>2 DEF ConnPhase, Unanswered, SocketInUse, Serving
  <2> QED
    BY <2>3, <2>4
<1>3. CASE DrainOne(t)
  <2> PICK s \in Sessions : Pop(s) /\ SetDone(s) /\ victim' = s
    BY <1>3 DEF DrainOne
  <2>1. s \in Pooled /\ Pooled' = Pooled \ {s}
    BY PopFacts
  <2> USE <1>3 DEF DrainOne, InHands
  <2>2. HandsFree' /\ SocketInUse'
    BY <2>1 DEF HandsFree, SocketInUse
  <2>3. ConnPhase' /\ StopFirst'
    BY DEF ConnPhase, Unanswered, StopFirst
  <2> QED
    BY <2>2, <2>3
<1>4. CASE DrainNotify(t)
  <2> USE <1>4 DEF DrainNotify, ClearAndNotify, InHands
  <2>1. Pooled' = Pooled
    BY PooledUnchanged
  <2>2. \A s \in Sessions : (pc'[s] \in Serving <=> pc[s] \in Serving)
                            /\ (pc'[s] \in Serving \cup {"unborn"} => pc'[s] = pc[s])
                            /\ (pc[s] = "unborn" => pc'[s] = "unborn")
                            /\ nextSocket'[s] \in {nextSocket[s], NoSocket}
    BY DEF Woken, Serving
  <2>3. HandsFree'
    BY <2>1, <2>2, PooledType DEF HandsFree, DeckTaken
  <2>4. SocketInUse' /\ StopFirst'
    BY <2>2 DEF SocketInUse, StopFirst
  <2>5. ConnPhase'
    BY <2>2 DEF ConnPhase, Unanswered, Serving
  <2> QED
    BY <2>3, <2>4, <2>5
<1>5. CASE RestoreStreams(t)
  <2> USE <1>5 DEF RestoreStreams, InHands
  <2>1. Pooled' = Pooled /\ shutdown
    BY PooledUnchanged DEF OneShutdown, Busy
  <2>2. HandsFree' /\ SocketInUse'
    BY <2>1 DEF HandsFree, SocketInUse
  <2>3. ConnPhase' /\ StopFirst'
    BY <2>1 DEF ConnPhase, Unanswered, StopFirst
  <2> QED
    BY <2>2, <2>3
<1>6. CASE ShutdownReturnsAtOnce(t) \/ RestoreSecurityManager(t)
  <2>1. /\ UNCHANGED <<poolVars, nextSocket, socket, deck, spc, accepted, shutdown>>
        /\ threadLocalStreams' = threadLocalStreams
        /\ shutdown
    BY <1>6 DEF ShutdownReturnsAtOnce, RestoreSecurityManager, OneShutdown, Busy
  <2>2. Pooled' = Pooled
    BY <2>1, PooledUnchanged
  <2>3. CASE t \notin Sessions
    <3>1. UNCHANGED <<pc, conn>>
      BY <1>6, <2>3 DEF ShutdownReturnsAtOnce, RestoreSecurityManager, ShutdownReturns
    <3> QED
      BY <2>1, <2>2, <3>1
      DEF InHands, HandsFree, SocketInUse, ConnPhase, Unanswered, StopFirst
  <2>4. CASE t \in Sessions
    <3> DEFINE c == socket[t]
    <3>1. /\ pc[t] = "stop" /\ c \in Clients
          /\ \/ pc' = [pc EXCEPT ![t] = "close"] /\ conn' = [conn EXCEPT ![c] = "answered"]
             \/ pc' = [pc EXCEPT ![t] = "exitVM"] /\ UNCHANGED conn
      BY <1>6, <2>4
      DEF ShutdownReturnsAtOnce, RestoreSecurityManager, ShutdownReturns, Goto,
          NailInShutdown, InHands, SocketInUse, Serving
    <3>2. /\ accepted # c
          /\ \A r \in Sessions : nextSocket[r] # c /\ (r # t => socket[r] # c)
      BY <2>4, <3>1 DEF OneHolder, HeldBy
    <3>3. HandsFree' /\ StopFirst'
      BY <2>1, <2>2, <3>1 DEF InHands, HandsFree, StopFirst
    <3>4. SocketInUse'
      BY <2>1, <2>4, <3>1 DEF InHands, SocketInUse, Serving
    <3>5. ConnPhase'
      BY <2>1, <2>4, <3>1, <3>2
      DEF InHands, ConnPhase, Unanswered, SocketInUse, Serving
    <3> QED
      BY <3>3, <3>4, <3>5 DEF InHands
  <2> QED
    BY <2>3, <2>4
<1> QED
  BY <1>1, <1>2, <1>3, <1>4, <1>5, <1>6 DEF ShutdownStep

LEMMA HandsOther ==
  ASSUME Sound,
         \/ \E s \in Sessions : NailCalls(s)
         \/ \E t \in Embedders : EmbedderCalls(t)
         \/ JVMStep
  PROVE  InHands'
<1> USE NoSocketAssumption, CallersAssumption
    DEF Sound, IInv, TypeOK, SessionTypeOK, SessionPC, ServerHasDeck, ShutdownGoto, Callers
<1>1. Pooled' = Pooled
  BY PooledUnchanged
  DEF JVMStep, NailCalls, EmbedderCalls, LastThreadEnds, HookStarts, HookEnds,
      HaltWithoutHook, EnvironmentStep, RegisterHook, Signal, Connect
<1>2. CASE \E s \in Sessions : NailCalls(s)
  <2> PICK s \in Sessions : NailCalls(s)
    BY <1>2
  <2> USE DEF NailCalls, InHands, Goto
  <2>1. HandsFree' /\ SocketInUse'
    BY <1>1 DEF HandsFree, SocketInUse, Serving
  <2>2. ConnPhase' /\ StopFirst'
    BY DEF ConnPhase, Unanswered, StopFirst
  <2> QED
    BY <2>1, <2>2
<1>3. CASE \/ \E t \in Embedders : EmbedderCalls(t)
           \/ LastThreadEnds \/ HookStarts \/ HookEnds \/ HaltWithoutHook
           \/ RegisterHook \/ Signal
  BY <1>1, <1>3, HandsUnchanged
  DEF EmbedderCalls, LastThreadEnds, HookStarts, HookEnds, HaltWithoutHook, RegisterHook,
      Signal, sessionVars, InHands, StopFirst
<1>4. CASE \E c \in Clients : Connect(c)
  <2> USE <1>4 DEF Connect, InHands
  <2>1. HandsFree' /\ SocketInUse' /\ StopFirst'
    BY <1>1 DEF HandsFree, SocketInUse, StopFirst
  <2>2. ConnPhase'
    BY DEF ConnPhase, Unanswered, SocketInUse, Serving
  <2> QED
    BY <2>1, <2>2
<1> QED
  BY <1>2, <1>3, <1>4 DEF JVMStep, EnvironmentStep

LEMMA AlwaysSound == Spec => []Sound
<1>1. Init => InHands
  BY NoSocketAssumption
  DEF Init, PoolInit, SessionInit, InHands, HandsFree, SocketInUse, ConnPhase,
      StopFirst, Unanswered, Pooled, ServerHasDeck, Serving, Starting, Callers
<1>2. Sound /\ [Next]_vars => InHands'
  <2> SUFFICES ASSUME Sound, [Next]_vars
               PROVE  InHands'
    OBVIOUS
  <2>1. CASE ServerStep
    BY <2>1, HandsServer
  <2>2. CASE \E s \in Sessions : SessionOwnStep(s) /\ UNCHANGED <<serverVars, shutdownVars>>
    BY <2>2, HandsSession
  <2>3. CASE \E t \in Callers : ShutdownStep(t)
    BY <2>3, HandsCaller
  <2>4. CASE \/ \E s \in Sessions : NailCalls(s)
             \/ \E t \in Embedders : EmbedderCalls(t)
             \/ JVMStep
    BY <2>4, HandsOther
  <2>5. CASE UNCHANGED vars
    BY <2>5, PooledUnchanged, HandsUnchanged
    DEF vars, sessionVars, Sound, IInv, InHands, StopFirst
  <2> QED
    BY <2>1, <2>2, <2>3, <2>4, <2>5, NextCases
<1> QED
  BY <1>1, <1>2, Inductive, HolderCorrect, FinalAlways, PTL DEF Spec, Sound

-----------------------------------------------------------------------------
(* What the clients see of a step.                                         *)

ServiceStep == Service!Next \/ UNCHANGED <<ServicePhase, Guarded, Spoiled, ServiceConn>>

(* Nothing turns back: a halted JVM, the order to shut down and the        *)
(* server's last steps are for ever.                                       *)
Onwards == /\ vm # "halted" /\ vm' # "halted"
           /\ shutdown => shutdown'
           /\ ServerDone => ServerDone'

SameHolders == \A c \in Clients : Held(c)' <=> Held(c)

(* No thread is spoiled or mended, and the hook is as it was.              *)
SameMarks == /\ Guarded' = Guarded
             /\ \/ \A s \in Sessions : IsSpoiled(s)' <=> IsSpoiled(s)
                \/ shutdown \/ ServerDone

LEMMA HoldersStay ==
  ASSUME UNCHANGED <<accepted, nextSocket, socket>>,
         \A s \in Sessions : /\ pc'[s] = "exitVM" <=> pc[s] = "exitVM"
                             /\ nextSocket[s] \in Clients => (Ended(s)' <=> Ended(s))
  PROVE  SameHolders
  BY DEF SameHolders, Held

LEMMA MarksStay ==
  ASSUME Guarded' = Guarded, UNCHANGED <<interrupted, nextSocket>>,
         \A s \in Sessions : pc'[s] = "broken" <=> pc[s] = "broken"
  PROVE  SameMarks
  BY DEF SameMarks, IsSpoiled

LEMMA SpoiledStay ==
  ASSUME Onwards, SameMarks, UNCHANGED ServicePhase
  PROVE  UNCHANGED Spoiled
<1>1. CASE ServicePhase # "serving"
  BY <1>1 DEF Spoiled
<1>2. CASE ServicePhase = "serving"
  <2>1. \A s \in Sessions : IsSpoiled(s)' <=> IsSpoiled(s)
    BY <1>2 DEF SameMarks, ServicePhase, Onwards
  <2>2. {s \in Sessions : IsSpoiled(s)}' = {s \in Sessions : IsSpoiled(s)}
    BY <2>1
  <2> QED
    BY <1>2, <2>2 DEF Spoiled
<1> QED
  BY <1>1, <1>2

(* A step without effect on the connections: Stop, or none.                *)
LEMMA UnseenStep ==
  ASSUME Onwards, UNCHANGED conn, SameHolders, SameMarks
  PROVE  ServiceStep
<1>1. UNCHANGED ServiceConn
  BY DEF ServiceConn, SameHolders
<1>2. CASE UNCHANGED ServicePhase
  BY <1>1, <1>2, SpoiledStay DEF ServiceStep, SameMarks
<1>3. CASE ServicePhase = "serving" /\ ServicePhase' = "stopping"
  BY <1>1, <1>3 DEF ServiceStep, Service!Next, Service!Stop, SameMarks, Spoiled
<1> QED
  BY <1>2, <1>3 DEF ServicePhase, Onwards

(* A step that takes one connection on.                                    *)
LEMMA MoveStep ==
  ASSUME TypeOK, Onwards, UNCHANGED <<shutdown, ServerDone>>, Guarded' = Guarded,
         NEW c \in Clients, NEW to \in ConnState,
         conn' = [conn EXCEPT ![c] = to],
         conn[c] = "accepted" => Held(c), to = "accepted" => Held(c)',
         \A d \in Clients \ {c} : Held(d)' <=> Held(d)
  PROVE  Service!Move(c, conn[c], to) /\ UNCHANGED ServicePhase
<1>1. ServicePhase' = ServicePhase /\ ServicePhase # "halted"
  BY DEF ServicePhase, Onwards
<1>2. ServiceConn[c] = conn[c]
  BY DEF ServiceConn
<1>3. ServiceConn' = [ServiceConn EXCEPT ![c] = to]
  BY DEF ServiceConn, TypeOK, SessionTypeOK
<1> QED
  BY <1>1, <1>2, <1>3 DEF Service!Move

(* A step after which nobody holds a connection that was not answered.     *)
LEMMA DropStep ==
  ASSUME Onwards, UNCHANGED <<shutdown, ServerDone, conn>>, Guarded' = Guarded,
         NEW c \in Clients, conn[c] = "accepted", Held(c), ~Held(c)',
         \A d \in Clients \ {c} : Held(d)' <=> Held(d)
  PROVE  Service!Move(c, "accepted", "lost") /\ UNCHANGED ServicePhase
<1>1. ServicePhase' = ServicePhase /\ ServicePhase # "halted"
  BY DEF ServicePhase, Onwards
<1>2. ServiceConn[c] = "accepted"
  BY DEF ServiceConn
<1>3. ServiceConn' = [ServiceConn EXCEPT ![c] = "lost"]
  BY DEF ServiceConn
<1> QED
  BY <1>1, <1>2, <1>3 DEF Service!Move

LEMMA LoseStep ==
  ASSUME Onwards, UNCHANGED <<shutdown, ServerDone, conn>>, SameMarks,
         NEW c \in Clients, conn[c] = "accepted", Held(c), ~Held(c)',
         \A d \in Clients \ {c} : Held(d)' <=> Held(d),
         shutdown \/ ServerDone \/ c \in BreakOff
  PROVE  ServiceStep
<1>1. Service!Move(c, "accepted", "lost") /\ UNCHANGED ServicePhase
  BY DropStep DEF SameMarks
<1>2. ServicePhase = "stopping" \/ c \in BreakOff
  BY DEF ServicePhase, Onwards
<1>3. UNCHANGED Spoiled
  BY <1>1, SpoiledStay
<1> QED
  BY <1>1, <1>2, <1>3 DEF ServiceStep, Service!Next, Service!Lose

(* The socket that NGSession.shutdown() takes away, if there is one.       *)
LEMMA ClearedStep ==
  ASSUME Sound, Onwards, NEW s \in Sessions, ClearAndNotify(s),
         UNCHANGED <<shutdown, ServerDone, accepted>>, shutdown \/ ServerDone,
         Guarded' = Guarded
  PROVE  ServiceStep
<1> USE NoSocketAssumption DEF Sound, IInv, TypeOK, SessionTypeOK
<1>1. /\ \A r \in Sessions : /\ pc'[r] = "exitVM" <=> pc[r] = "exitVM"
                             /\ Ended(r)' <=> Ended(r)
      /\ SameMarks
  BY DEF ClearAndNotify, Woken, SameMarks
<1>2. UNCHANGED <<conn, socket>> /\ nextSocket' = [nextSocket EXCEPT ![s] = NoSocket]
  BY DEF ClearAndNotify
<1>3. CASE nextSocket[s] = NoSocket \/ Ended(s)
  <2>1. SameHolders
    BY <1>1, <1>2, <1>3 DEF SameHolders, Held
  <2> QED
    BY <1>1, <1>2, <2>1, UnseenStep
<1>4. CASE nextSocket[s] # NoSocket /\ ~Ended(s)
  <2> PICK c \in Clients : c = nextSocket[s]
    BY <1>4
  <2>1. conn[c] = "accepted" /\ Held(c)
    BY <1>4 DEF InHands, ConnPhase, Unanswered, Held
  <2>2. ~Held(c)'
    BY <1>2, <2>1 DEF OneHolder, HeldBy, Held
  <2>3. \A d \in Clients \ {c} : Held(d)' <=> Held(d)
    BY <1>1, <1>2, <2>1 DEF Held
  <2> QED
    BY <1>1, <1>2, <2>1, <2>2, <2>3, LoseStep
<1> QED
  BY <1>3, <1>4

(* The steps that end the service of a socket: it is answered, or lost     *)
(* with its thread.                                                        *)
LEMMA AnswerStep ==
  ASSUME Sound, Onwards, NEW s \in Sessions, pc[s] \in {"headers", "nail", "stop"},
         Goto(s, "close"), conn' = [conn EXCEPT ![socket[s]] = "answered"],
         UNCHANGED <<shutdown, ServerDone, accepted, nextSocket, socket>>,
         Guarded' = Guarded, NEW b \in BOOLEAN,
         interrupted' = [interrupted EXCEPT ![s] = @ \/ b]
  PROVE  ServiceStep
<1> USE NoSocketAssumption DEF Sound, IInv, TypeOK, SessionTypeOK, Goto
<1> PICK c \in Clients : c = socket[s]
  BY DEF InHands, SocketInUse, Serving
<1>1. conn[c] = "accepted" /\ Held(c)
  BY DEF InHands, ConnPhase, Unanswered, Held
<1>2. SameHolders
  BY HoldersStay
<1>3. Service!Move(c, "accepted", "answered") /\ UNCHANGED ServicePhase
  BY <1>1, <1>2, MoveStep DEF SameHolders, ConnState
<1>4. UNCHANGED Spoiled \/ Spoiled' = Spoiled \cup {s}
  <2>1. \A r \in Sessions \ {s} : IsSpoiled(r)' <=> IsSpoiled(r)
    BY DEF IsSpoiled
  <2>2. IsSpoiled(s) => IsSpoiled(s)'
    BY DEF IsSpoiled
  <2>3. CASE ServicePhase # "serving"
    BY <1>3, <2>3 DEF Spoiled
  <2>4. CASE ServicePhase = "serving"
    <3> DEFINE before == {r \in Sessions : IsSpoiled(r)}
               after == {r \in Sessions : IsSpoiled(r)'}
    <3>1. Spoiled = before /\ Spoiled' = after
      BY <1>3, <2>4 DEF Spoiled
    <3>2. after = before \/ after = before \cup {s}
      BY <2>1, <2>2
    <3> QED
      BY <3>1, <3>2
  <2> QED
    BY <2>3, <2>4
<1> QED
  BY <1>3, <1>4 DEF ServiceStep, Service!Next, Service!Answer

LEMMA AbandonStep ==
  ASSUME Sound, Onwards, NEW s \in Sessions, pc[s] \in {"headers", "nail", "stop"},
         UNCHANGED <<shutdown, ServerDone, accepted, nextSocket, conn, interrupted>>,
         Guarded' = Guarded,
         \/ Goto(s, "exitVM") /\ UNCHANGED socket
         \/ Goto(s, "reset") /\ socket' = [socket EXCEPT ![s] = NoSocket],
         shutdown \/ ServerDone \/ socket[s] \in BreakOff
  PROVE  ServiceStep
<1> USE NoSocketAssumption DEF Sound, IInv, TypeOK, SessionTypeOK, Goto
<1> PICK c \in Clients : c = socket[s]
  BY DEF InHands, SocketInUse, Serving
<1>1. conn[c] = "accepted" /\ Held(c)
  BY DEF InHands, ConnPhase, Unanswered, Held
<1>2. ~Held(c)'
  BY <1>1 DEF OneHolder, HeldBy, Held
<1>3. \A d \in Clients \ {c} : Held(d)' <=> Held(d)
  BY <1>1 DEF Held
<1>4. SameMarks
  BY MarksStay
<1> QED
  BY <1>1, <1>2, <1>3, <1>4, LoseStep

-----------------------------------------------------------------------------
(* Every step is a step of the service, or none.                           *)

Steady == UNCHANGED <<shutdown, ServerDone, accepted, Guarded>>

LEMMA SessionServes ==
  ASSUME Sound, Up, NEW s \in Sessions, SessionOwnStep(s),
         UNCHANGED <<serverVars, shutdownVars>>
  PROVE  ServiceStep
<1> USE DEF Sound, IInv, TypeOK, SessionTypeOK
<1>1. Onwards /\ Steady
  BY DEF Up, Onwards, Steady, ServerDone, Guarded, SessionOwnStep, ObtainSocket, WaitForSocket,
         WaitInterrupted, SetDone, EndThread, BeginNail, RejectCommand, FailHeaders, EndNail, ExitVM,
         CloseSocket, ResetStreams, GiveTestDone, GiveTestFull, GivePush, Retire,
         RetireNotify
<1>2. CASE \/ WaitForSocket(s) \/ EndThread(s) \/ BeginNail(s) \/ ResetStreams(s)
           \/ GiveTestDone(s) \/ GiveTestFull(s) \/ GivePush(s) \/ Retire(s)
           \/ RetireNotify(s)
  <2>1. UNCHANGED <<conn, socket, nextSocket, interrupted>>
    BY <1>2
    DEF WaitForSocket, EndThread, BeginNail, ResetStreams, GiveTestDone,
        GiveTestFull, GivePush, Retire, RetireNotify, MonitorInUse, AtHome
  <2>2. \A r \in Sessions : /\ pc'[r] = "exitVM" <=> pc[r] = "exitVM"
                            /\ pc'[r] = "broken" <=> pc[r] = "broken"
                            /\ nextSocket[r] # NoSocket => (Ended(r)' <=> Ended(r))
    BY <1>2
    DEF WaitForSocket, EndThread, BeginNail, ResetStreams, GiveTestDone,
        GiveTestFull, GivePush, Retire, RetireNotify, Goto, MonitorInUse, AtHome
  <2> QED
    BY <1>1, <2>1, <2>2, HoldersStay, MarksStay, UnseenStep, NoSocketAssumption DEF Steady
<1>3. CASE ObtainSocket(s)
  <2>1. socket[s] \notin Clients /\ UNCHANGED conn
    BY <1>3 DEF ObtainSocket, InHands, SocketInUse, Serving
  <2>2. SameHolders
    BY <1>3, <2>1, NoSocketAssumption DEF ObtainSocket, Goto, SameHolders, Held
  <2>3. SameMarks
    BY <1>1, <1>3 DEF ObtainSocket, Goto, SameMarks, IsSpoiled, Steady
  <2> QED
    BY <1>1, <2>1, <2>2, <2>3, UnseenStep
<1>8. CASE WaitInterrupted(s)
  <2>1. SameHolders
    BY <1>8, NoSocketAssumption DEF WaitInterrupted, Goto, SameHolders, Held, serverVars
  <2>2. SameMarks
    BY <1>1, <1>8 DEF WaitInterrupted, Goto, SameMarks, IsSpoiled, Steady
  <2> QED
    BY <1>1, <1>8, <2>1, <2>2, UnseenStep DEF WaitInterrupted
<1>4. CASE RejectCommand(s) \/ \E outcome \in NailOutcomes : EndNail(s, outcome)
  <2>1. CASE RejectCommand(s)
    <3>1. interrupted' = [interrupted EXCEPT ![s] = @ \/ FALSE]
      BY <2>1 DEF RejectCommand
    <3> QED
      BY <1>1, <2>1, <3>1, AnswerStep DEF RejectCommand, Steady
  <2>2. CASE \E outcome \in NailOutcomes : EndNail(s, outcome)
    <3> PICK outcome \in NailOutcomes : EndNail(s, outcome)
      BY <2>2
    <3> DEFINE b == outcome = "interrupt"
    <3>1. b \in BOOLEAN /\ interrupted' = [interrupted EXCEPT ![s] = @ \/ b]
      BY DEF EndNail
    <3> HIDE DEF b
    <3> QED
      BY <1>1, <3>1, AnswerStep DEF EndNail, Steady
  <2> QED
    BY <1>4, <2>1, <2>2
<1>5. CASE FailHeaders(s)
  <2>1. shutdown \/ socket[s] \in BreakOff
    BY <1>5 DEF FailHeaders, InHands, StopFirst
  <2> QED
    BY <1>1, <1>5, <2>1, AbandonStep DEF FailHeaders, Steady
<1>6. CASE ExitVM(s)
  <2>1. shutdown
    BY <1>6 DEF ExitVM, InHands, StopFirst, Starting
  <2> QED
    BY <1>1, <1>6, <2>1, AbandonStep DEF ExitVM, Steady
<1>7. CASE CloseSocket(s)
  <2> PICK c \in Clients : c = socket[s]
    BY <1>7 DEF CloseSocket, InHands, SocketInUse, Serving
  <2>1. conn[c] = "answered"
    BY <1>7 DEF CloseSocket, InHands, ConnPhase
  <2>2. \A d \in Clients \ {c} : Held(d)' <=> Held(d)
    BY <1>7, NoSocketAssumption DEF CloseSocket, Goto, Held
  <2>3. Service!Move(c, "answered", "closed") /\ UNCHANGED ServicePhase
    BY <1>1, <1>7, <2>1, <2>2, MoveStep DEF CloseSocket, ConnState, Steady
  <2>4. UNCHANGED Spoiled
    <3>1. SameMarks
      BY <1>1, <1>7, MarksStay DEF CloseSocket, Goto, Steady
    <3> QED
      BY <1>1, <2>3, <3>1, SpoiledStay
  <2> QED
    BY <2>3, <2>4 DEF ServiceStep, Service!Next, Service!Close
<1> QED
  BY <1>2, <1>3, <1>4, <1>5, <1>6, <1>7, <1>8 DEF SessionOwnStep

LEMMA HandOverServes ==
  ASSUME Sound, Onwards, HandOverToDeck
  PROVE  ServiceStep
<1> USE NoSocketAssumption DEF Sound, IInv, TypeOK, SessionTypeOK, ServerGoto
<1>1. /\ deck \in Sessions /\ nextSocket[deck] = NoSocket
      /\ nextSocket' = [nextSocket EXCEPT ![deck] = accepted]
      /\ accepted \in Clients /\ conn[accepted] = "accepted" /\ accepted' = NoSocket
      /\ UNCHANGED <<conn, socket, interrupted, shutdown, sdpc, ServerDone>>
      /\ ServerHasDeck /\ ~ServerDone
  BY DEF HandOverToDeck, HandOver, InHands, HandsFree, ConnPhase, Unanswered,
         ServerHasDeck, DeckTaken, ServerDone
<1>2. \A s \in Sessions : /\ pc'[s] = "exitVM" <=> pc[s] = "exitVM"
                          /\ pc'[s] = "broken" <=> pc[s] = "broken"
                          /\ Ended(s)' <=> Ended(s)
  BY DEF HandOverToDeck, HandOver, Woken
<1>3. Guarded' = Guarded
  BY <1>1 DEF Guarded
<1>4. CASE ~Ended(deck)
  <2>1. SameHolders
    BY <1>1, <1>2, <1>4 DEF SameHolders, Held
  <2>2. SameMarks
    BY <1>1, <1>2, <1>3, <1>4 DEF SameMarks, IsSpoiled
  <2> QED
    BY <1>1, <2>1, <2>2, UnseenStep
<1>5. CASE Ended(deck)
  <2> PICK c \in Clients : c = accepted
    BY <1>1
  <2>1. conn[c] = "accepted" /\ Held(c) /\ ~Held(c)'
    BY <1>1, <1>2, <1>5 DEF Held, OneHolder, HeldBy
  <2>2. \A d \in Clients \ {c} : Held(d)' <=> Held(d)
    BY <1>1, <1>2, <1>5 DEF Held
  <2>3. CASE shutdown
    <3>1. SameMarks
      BY <1>3, <2>3 DEF SameMarks
    <3> QED
      BY <1>1, <2>1, <2>2, <2>3, <3>1, LoseStep
  <2>4. CASE ~shutdown
    <3>1. pc[deck] = "broken"
      BY <1>1, <1>5 DEF DoneIsFinal, DeckIsFresh, Broken, Idle, AtHome
    <3>2. Service!Move(c, "accepted", "lost") /\ UNCHANGED ServicePhase
      BY <1>1, <1>3, <2>1, <2>2, DropStep
    <3>3. ServicePhase = "serving"
      BY <1>1, <2>4 DEF ServicePhase, Onwards
    <3> PICK s \in Sessions : s = deck
      BY <1>1
    <3>4. IsSpoiled(s) /\ ~IsSpoiled(s)'
      BY <1>1, <1>2, <3>1 DEF IsSpoiled
    <3>5. \A r \in Sessions \ {s} : IsSpoiled(r)' <=> IsSpoiled(r)
      BY <1>1, <1>2 DEF IsSpoiled
    <3>6. s \in Spoiled /\ Spoiled' = Spoiled \ {s}
      BY <1>1, <3>2, <3>3, <3>4, <3>5 DEF Spoiled
    <3> QED
      BY <1>1, <3>2, <3>6 DEF ServiceStep, Service!Next, Service!Lose
  <2> QED
    BY <2>3, <2>4
<1> QED
  BY <1>4, <1>5

LEMMA ServerServes ==
  ASSUME Sound, Up, ServerStep
  PROVE  ServiceStep
<1> USE DEF Sound, IInv, TypeOK, SessionTypeOK, ServerGoto
<1>1. Onwards /\ Guarded' = Guarded
  BY DEF Up, Onwards, ServerDone, Guarded, ServerStep, ServerStart,
         InstallSecurityManager, InstallStreams, Bind, BindFails, TestShutdown,
         TakePooled, TakeNew, TakeFails, Accept, AcceptFails, HandOverToDeck,
         HandOver, DeckDone, DeckNotify, ClearAndNotify, ServerExit, sessionVars
<1>2. CASE \/ ServerStart \/ InstallSecurityManager \/ InstallStreams \/ Bind
           \/ BindFails \/ TestShutdown \/ TakePooled \/ TakeFails \/ AcceptFails
           \/ DeckDone \/ ServerExit
  BY <1>1, <1>2, HoldersStay, MarksStay, UnseenStep
  DEF ServerStart, InstallSecurityManager, InstallStreams, Bind, BindFails,
      TestShutdown, TakePooled, TakeFails, AcceptFails, DeckDone, ServerExit, sessionVars
<1>3. CASE TakeNew
  <2>1. \A s \in Sessions : /\ pc'[s] = "exitVM" <=> pc[s] = "exitVM"
                            /\ pc'[s] = "broken" <=> pc[s] = "broken"
                            /\ Ended(s)' <=> Ended(s)
    BY <1>3, FreshType DEF TakeNew, StartThread, Unborn, FreshSession
  <2> QED
    BY <1>1, <1>3, <2>1, HoldersStay, MarksStay, UnseenStep DEF TakeNew
<1>4. CASE \E c \in Clients : Accept(c)
  <2> PICK c \in Clients : Accept(c)
    BY <1>4
  <2>1. /\ UNCHANGED <<shutdown, ServerDone>> /\ conn[c] = "queued"
        /\ conn' = [conn EXCEPT ![c] = "accepted"]
    BY DEF Accept, ServerDone
  <2>2. Held(c)' /\ \A d \in Clients \ {c} : Held(d)' <=> Held(d)
    BY NoSocketAssumption DEF Accept, Held, InHands, SocketInUse
  <2>3. Service!Move(c, "queued", "accepted") /\ UNCHANGED ServicePhase
    BY <1>1, <2>1, <2>2, MoveStep DEF ConnState
  <2>4. UNCHANGED Spoiled
    BY <1>1, <2>3, MarksStay, SpoiledStay DEF Accept
  <2> QED
    BY <2>3, <2>4 DEF ServiceStep, Service!Next, Service!Accept
<1>5. CASE HandOverToDeck
  BY <1>1, <1>5, HandOverServes
<1>6. CASE DeckNotify
  BY <1>1, <1>6, ClearedStep DEF DeckNotify, DeckTaken, ServerDone
<1> QED
  BY <1>2, <1>3, <1>4, <1>5, <1>6 DEF ServerStep

LEMMA CallerServes ==
  ASSUME Sound, Up, NEW t \in Callers, ShutdownStep(t)
  PROVE  ServiceStep
<1> USE DEF Sound, IInv, TypeOK, SessionTypeOK, ShutdownGoto
<1>1. Onwards /\ UNCHANGED <<ServerDone, accepted, Guarded>>
  BY DEF Up, Onwards, ServerDone, Guarded, Callers, ShutdownStep, ShutdownReturnsAtOnce, ShutdownReturns,
         ShutdownBegins, CloseListener, PoolShutdownBegins, PoolShutdownLocks,
         DrainOne, DrainNotify, ClearAndNotify, DrainEnds, RestoreStreams,
         RestoreSecurityManager, sessionVars
<1>2. CASE \/ ShutdownBegins(t) \/ PoolShutdownBegins(t) \/ PoolShutdownLocks(t)
           \/ DrainOne(t) \/ DrainEnds(t) \/ RestoreStreams(t)
  BY <1>1, <1>2, HoldersStay, MarksStay, UnseenStep
  DEF ShutdownBegins, PoolShutdownBegins, SetPoolDone, PoolShutdownLocks, DrainOne,
      DrainEnds, RestoreStreams, sessionVars
<1>3. CASE CloseListener(t)
  <2>1. SameHolders /\ SameMarks /\ shutdown
    BY <1>1, <1>3, HoldersStay, MarksStay DEF CloseListener, OneShutdown, Busy
  <2>2. CASE UNCHANGED conn
    BY <1>1, <2>1, <2>2, UnseenStep
  <2>3. CASE conn' = [c \in Clients |->
                        IF conn[c] = "queued" THEN "refused" ELSE conn[c]]
    <3>1. /\ ServicePhase = "stopping" /\ ServicePhase' = "stopping"
          /\ UNCHANGED Spoiled
      BY <1>1, <2>1 DEF ServicePhase, Spoiled, Onwards
    <3>2. ServiceConn' = [c \in Clients |->
                            IF ServiceConn[c] = "queued" THEN "refused" ELSE ServiceConn[c]]
      BY <2>1, <2>3 DEF ServiceConn, SameHolders
    <3> QED
      BY <1>1, <3>1, <3>2 DEF ServiceStep, Service!Next, Service!Refuse
  <2> QED
    BY <1>3, <2>2, <2>3 DEF CloseListener
<1>4. CASE DrainNotify(t)
  BY <1>1, <1>4, ClearedStep DEF DrainNotify, VictimDone, OneShutdown, Busy
<1>5. CASE ShutdownReturnsAtOnce(t) \/ RestoreSecurityManager(t)
  <2>1. shutdown /\ UNCHANGED <<shutdown, nextSocket, socket, interrupted>>
    BY <1>5 DEF ShutdownReturnsAtOnce, RestoreSecurityManager, OneShutdown, Busy
  <2>2. CASE t \notin Sessions
    BY <1>1, <1>5, <2>1, <2>2, HoldersStay, MarksStay, UnseenStep
    DEF ShutdownReturnsAtOnce, RestoreSecurityManager, ShutdownReturns
  <2>3. CASE t \in Sessions
    <3>1. pc[t] = "stop"
      BY <1>5, <2>3 DEF ShutdownReturnsAtOnce, RestoreSecurityManager, NailInShutdown
    <3>2. CASE ShutdownReturnsAtOnce(t)
      <4>1. interrupted' = [interrupted EXCEPT ![t] = @ \/ FALSE]
        BY <2>1
      <4> QED
        BY <1>1, <2>1, <2>3, <3>1, <3>2, <4>1, AnswerStep
        DEF ShutdownReturnsAtOnce, ShutdownReturns
    <3>3. CASE RestoreSecurityManager(t)
      BY <1>1, <2>1, <2>3, <3>1, <3>3, AbandonStep DEF RestoreSecurityManager
    <3> QED
      BY <1>5, <3>2, <3>3
  <2> QED
    BY <2>2, <2>3
<1> QED
  BY <1>2, <1>3, <1>4, <1>5 DEF ShutdownStep

LEMMA OtherServes ==
  ASSUME Sound, Up,
         \/ \E s \in Sessions : NailCalls(s)
         \/ \E t \in Embedders : EmbedderCalls(t)
         \/ JVMStep
  PROVE  ServiceStep
<1> USE CallersAssumption DEF Sound, IInv, TypeOK, SessionTypeOK, ShutdownGoto
<1>1. CASE \/ \E s \in Sessions : NailCalls(s)
           \/ \E t \in Embedders : EmbedderCalls(t)
           \/ LastThreadEnds \/ HookStarts \/ Signal
  <2>1. Onwards /\ UNCHANGED <<conn, accepted, nextSocket, socket, interrupted, Guarded>>
    BY <1>1
    DEF Up, Onwards, ServerDone, Guarded, Callers, NailCalls, EmbedderCalls,
        LastThreadEnds, HookStarts, Signal, sessionVars
  <2>2. \A s \in Sessions : /\ pc'[s] = "exitVM" <=> pc[s] = "exitVM"
                            /\ pc'[s] = "broken" <=> pc[s] = "broken"
                            /\ Ended(s)' <=> Ended(s)
    BY <1>1
    DEF NailCalls, Goto, EmbedderCalls, LastThreadEnds, HookStarts, Signal, sessionVars
  <2> QED
    BY <2>1, <2>2, HoldersStay, MarksStay, UnseenStep
<1>2. CASE HookEnds
  <2>1. UNCHANGED <<ServiceConn, Guarded>>
    BY <1>2 DEF HookEnds, ServiceConn, Held, Guarded, Callers
  <2>2. ServicePhase = "stopping" /\ ServicePhase' = "halted" /\ Spoiled' = {}
    BY <1>2 DEF HookEnds, ServicePhase, Spoiled, Up, InHands, StopFirst
  <2> QED
    BY <2>1, <2>2 DEF ServiceStep, Service!Next, Service!Halt
<1>3. CASE HaltWithoutHook
  <2>1. UNCHANGED <<ServiceConn, Guarded>> /\ ~Guarded
    BY <1>3 DEF HaltWithoutHook, ServiceConn, Held, Guarded
  <2>2. /\ ServicePhase \in {"serving", "stopping"}
        /\ ServicePhase' = "halted" /\ Spoiled' = {}
    BY <1>3 DEF HaltWithoutHook, ServicePhase, Spoiled, Up
  <2> QED
    BY <2>1, <2>2 DEF ServiceStep, Service!Next, Service!Halt
<1>4. CASE RegisterHook
  <2>1. UNCHANGED <<ServiceConn, ServicePhase, Spoiled>>
    BY <1>4
    DEF RegisterHook, sessionVars, ServiceConn, ServicePhase, ServerDone, Spoiled,
        IsSpoiled, Held
  <2>2. ~Guarded /\ Guarded'
    BY <1>4 DEF RegisterHook, Guarded, Callers
  <2> QED
    BY <2>1, <2>2 DEF ServiceStep, Service!Next, Service!Guard
<1>5. CASE \E c \in Clients : Connect(c)
  <2> PICK c \in Clients : Connect(c)
    BY <1>5
  <2>1. /\ Onwards /\ UNCHANGED <<shutdown, ServerDone, Guarded>>
        /\ SameHolders /\ SameMarks
    BY HoldersStay, MarksStay DEF Connect, Up, Onwards, ServerDone, Guarded
  <2>2. Service!Move(c, "new", "queued") /\ UNCHANGED ServicePhase
    BY <2>1, MoveStep DEF Connect, SameHolders, ConnState
  <2>3. UNCHANGED Spoiled
    BY <2>1, <2>2, SpoiledStay
  <2> QED
    BY <2>2, <2>3 DEF ServiceStep, Service!Next, Service!Connect
<1> QED
  BY <1>1, <1>2, <1>3, <1>4, <1>5 DEF JVMStep, EnvironmentStep

(* The server implements its service: connections are accepted, answered   *)
(* and closed in this order and once, and one is lost only when its client *)
(* broke off, when the server is stopping, or to a thread that a nail left *)
(* interrupted, one for each such nail (NGSession.java:158-168, 299-313,   *)
(* NGServer.java:273-309); once the hook is registered (NGServer.java:451) *)
(* the JVM does not halt before the server is stopping.                    *)
THEOREM ServerImplementsService == Spec => ImplementsService
<1>1. Init => Service!Init
  <2> SUFFICES ASSUME Init
               PROVE  Service!Init
    OBVIOUS
  <2>1. ServicePhase = "serving" /\ ServiceConn = [c \in Clients |-> "new"]
    BY DEF Init, SessionInit, ServiceConn, ServicePhase, ServerDone
  <2>2. sdpc[Hook] = "unregistered"
    BY DEF Init, Callers
  <2>3. Guarded = FALSE
    BY <2>2 DEF Guarded
  <2>4. Spoiled = {}
    BY DEF Init, SessionInit, Spoiled, IsSpoiled
  <2> QED
    BY <2>1, <2>3, <2>4 DEF Service!Init
<1>2. Sound /\ [Next]_vars => [Service!Next]_(Service!vars)
  <2> SUFFICES ASSUME Sound, [Next]_vars
               PROVE  ServiceStep
    BY DEF ServiceStep, Service!vars
  <2>1. CASE UNCHANGED vars
    BY <2>1
    DEF vars, sessionVars, ServiceStep, ServiceConn, ServicePhase, Held, ServerDone,
        Guarded, Spoiled, IsSpoiled
  <2>2. CASE Next
    <3>1. Up
      BY <2>2 DEF Next, Up
    <3> QED
      BY <2>2, <3>1, NextCases, ServerServes, SessionServes, CallerServes, OtherServes
  <2> QED
    BY <2>1, <2>2
<1> QED
  BY <1>1, <1>2, AlwaysSound, PTL DEF Spec, Service!Spec, ImplementsService
=============================================================================

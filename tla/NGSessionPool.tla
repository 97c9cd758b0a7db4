---------------------------- MODULE NGSessionPool ----------------------------
(***************************************************************************)
(* The stack of idle session threads of a Nailgun server                   *)
(* (NGSessionPool.java).  The module has the state of the pool and one     *)
(* operator per critical section or unsynchronized read of the class; the  *)
(* threads that execute them are in NGSession and NGServer.                *)
(*                                                                         *)
(* give() reads `done` and `poolEntries` before it takes the lock, so      *)
(* these reads (PoolDone, PoolFull) and the locked store (Push, or         *)
(* PushOverflows when the array is full by then) are separate steps of the *)
(* giving thread.                                                          *)
(***************************************************************************)
EXTENDS Integers

CONSTANTS Sessions,  (* every NGSession thread that may ever be created      *)
          NoSession, (* the Java null, and an empty slot of the array        *)
          MaxIdle    (* the constructor's maxIdle; NGServer passes 10        *)

ASSUME NoSessionAssumption == NoSession \notin Sessions
ASSUME MaxIdleAssumption == MaxIdle \in Nat \ {0}

VARIABLES pool,        (* the array; take() leaves a popped slot as it is    *)
          poolEntries, (* how many sessions are stored                       *)
          poolDone     (* the pool's `done`: it has been shut down           *)

poolVars == <<pool, poolEntries, poolDone>>
-----------------------------------------------------------------------------
(* One session is on deck, outside of the array, while it waits for a      *)
(* connection: the array has room for the others.                          *)
PoolSize_NoDeck == MaxIdle (* mutant: the session on deck is forgotten *)

PoolSize == MaxIdle - 1

Slots == 0 .. (PoolSize - 1)

PoolInit == /\ pool = [i \in Slots |-> NoSession]
            /\ poolEntries = 0
            /\ poolDone = FALSE

PoolTypeOK == /\ pool \in [Slots -> Sessions \cup {NoSession}]
              /\ poolEntries \in 0 .. PoolSize
              /\ poolDone \in BOOLEAN

Pooled == {pool[i] : i \in 0 .. (poolEntries - 1)}
-----------------------------------------------------------------------------
PoolEmpty == poolEntries = 0

(* Mutant: --poolEntries is missing. *)
Pop_NoDecrement(s) == /\ poolEntries > 0
                      /\ s = pool[poolEntries - 1]
                      /\ UNCHANGED poolVars

(* take() of a pool that is not empty: the session given last.             *)
Pop(s) == /\ poolEntries > 0
          /\ s = pool[poolEntries - 1]
          /\ poolEntries' = poolEntries - 1
          /\ UNCHANGED <<pool, poolDone>>

(* The test of give(), made without the lock.                              *)
PoolFull == poolEntries = PoolSize

(* The locked part of give().                                              *)
Push(s) == /\ poolEntries < PoolSize
           /\ pool' = [pool EXCEPT ![poolEntries] = s]
           /\ poolEntries' = poolEntries + 1
           /\ UNCHANGED poolDone

(* Mutant: pool[poolEntries++] = session. *)
PushOverflows_Counts == /\ poolEntries >= PoolSize
                        /\ poolEntries' = poolEntries + 1
                        /\ UNCHANGED <<pool, poolDone>>

(* ... when another session took the last slot since the test: the store   *)
(* throws ArrayIndexOutOfBoundsException and poolEntries is not changed.   *)
PushOverflows == poolEntries >= PoolSize /\ UNCHANGED poolVars

(* The first statement of shutdown(), made without the lock.               *)
SetPoolDone == poolDone' = TRUE /\ UNCHANGED <<pool, poolEntries>>
=============================================================================

----------------------------- MODULE ReplService -----------------------------
(***************************************************************************)
(* What VimClojure promises of its Repls, without transactions: a Repl is  *)
(* started under an id of its own, is used by one evaluation at a time,    *)
(* which finds the state the one before has left, and can be stopped when  *)
(* it is idle; a stopped Repl never comes back.                            *)
(***************************************************************************)
CONSTANTS Ids, Nails

VARIABLES status, (* "unused", "idle", "busy" or "stopped"                   *)
          state   (* the evaluations that have shaped the state of a Repl    *)

vars == <<status, state>>

TypeOK == /\ status \in [Ids -> {"unused", "idle", "busy", "stopped"}]
          /\ state \in [Ids -> SUBSET Nails]

Init == /\ status = [i \in Ids |-> "unused"]
        /\ state = [i \in Ids |-> {}]

Become(i, old, new) == status[i] = old /\ status' = [status EXCEPT ![i] = new]

Start(i) == Become(i, "unused", "idle") /\ UNCHANGED state
CheckOut(i) == Become(i, "idle", "busy") /\ UNCHANGED state
CheckIn(i, n) == /\ Become(i, "busy", "idle") /\ n \notin state[i]
                 /\ state' = [state EXCEPT ![i] = @ \cup {n}]
Stop(i) == Become(i, "idle", "stopped") /\ UNCHANGED state

Next == \E i \in Ids : \/ Start(i) \/ CheckOut(i) \/ Stop(i)
                       \/ \E n \in Nails : CheckIn(i, n)

Spec == Init /\ [][Next]_vars
=============================================================================

------------------------ MODULE ReplRegistryProperties ------------------------
(***************************************************************************)
(* What makes the registry of the Repls correct, stated about ReplRegistry.*)
(***************************************************************************)
EXTENDS ReplRegistry

(* A nail that has taken its Repl out of the map.                          *)
InUse(n) == pc[n] \in {"evaluate", "checkIn"} /\ id[n] # OneShot

(* A nail whose evaluation is part of the state of its Repl.               *)
Evaluated(n) == /\ command[n] = "run" /\ id[n] # OneShot
                /\ pc[n] = "done" /\ reply[n] = "ok"
-----------------------------------------------------------------------------
(* At most one nail evaluates in a Repl at a time, and the Repl is not in  *)
(* the map meanwhile, where another would find it (repl.clj:110-117).      *)
OneEvaluation ==
  \A n \in Nails : InUse(n) =>
    /\ id[n] \notin repls
    /\ \A m \in Nails \ {n} : InUse(m) => id[m] # id[n]

(* No evaluation is lost: the state in the map, or in the hands of the     *)
(* nail that has taken it out, is what all evaluations before have left    *)
(* (repl.clj:141-160).                                                     *)
NoEvaluationLost ==
  \A n \in Nails : Evaluated(n) =>
    /\ id[n] \in repls => n \in state[id[n]]
    /\ \A m \in Nails : InUse(m) /\ id[m] = id[n] => n \in mine[m]

-----------------------------------------------------------------------------
(* The inductive invariant behind these.                                   *)

Started(n) == command[n] = "start" /\ pc[n] = "done"

(* A nail is where its command leads.                                      *)
CommandOK ==
  \A n \in Nails :
    /\ pc[n] = "idle" => command[n] = "none"
    /\ pc[n] = "register" => command[n] = "start"
    /\ pc[n] = "allocate" => command[n] = "start"
    /\ pc[n] \in {"stop", "dissoc"} => command[n] = "stop"
    /\ pc[n] \in {"checkOut", "alter", "evaluate", "checkIn"} => command[n] = "run"
    /\ pc[n] = "checkIn" => id[n] # OneShot /\ n \in mine[n]

(* Ids come from the counter, ...                                          *)
IdGiven ==
  /\ repls \subseteq 1 .. counter
  /\ \A n \in Nails :
       pc[n] \in {"register", "dissoc", "alter"} \/ InUse(n) \/ Evaluated(n) \/ Started(n)
         => id[n] \in 1 .. counter

(* ... and one that is about to be registered is new.                      *)
IdFresh ==
  \A n \in Nails : pc[n] = "register" =>
    /\ id[n] \notin repls
    /\ \A m \in Nails \ {n} :
         pc[m] = "register" \/ InUse(m) \/ Evaluated(m) \/ Started(m) => id[m] # id[n]

(* Every Repl was started.                                                 *)
ReplsStarted ==
  /\ \A i \in repls : \E n \in Nails : Started(n) /\ id[n] = i
  /\ \A m \in Nails : InUse(m) => \E n \in Nails : Started(n) /\ id[n] = id[m]

(* What a transaction has read is what is there, unless it is stale.       *)
ReadIsCurrent ==
  \A n \in Nails : pc[n] = "alter" /\ n \notin stale =>
    id[n] \in repls /\ mine[n] = state[id[n]]

IInv == /\ TypeOK /\ CommandOK /\ IdGiven /\ IdFresh /\ ReplsStarted
        /\ ReadIsCurrent /\ OneEvaluation /\ NoEvaluationLost
-----------------------------------------------------------------------------
(* The registry implements ReplService.                                    *)
ServiceStatus ==
  [i \in Ids |-> IF i \in repls THEN "idle"
                 ELSE IF \E n \in Nails : InUse(n) /\ id[n] = i THEN "busy"
                 ELSE IF \E n \in Nails : Started(n) /\ id[n] = i THEN "stopped"
                 ELSE "unused"]

ServiceState == [i \in Ids |-> {n \in Nails : Evaluated(n) /\ id[n] = i}]

Service == INSTANCE ReplService WITH status <- ServiceStatus,
                                     state <- ServiceState

(* However the transactions of nails interleave, a Repl goes from unused   *)
(* to idle, between idle and busy, and from idle to stopped, for good; an  *)
(* evaluation is finished by a nail that had the Repl to itself.           *)
ImplementsReplService == Service!Spec

(* Every command is answered, also when its transaction has to be tried    *)
(* again (repl.clj:87, 111).                                               *)
CommandsEnd == \A n \in Nails : pc[n] # "idle" ~> pc[n] = "done"
-----------------------------------------------------------------------------
(* What the documentation says and the code does not do.                   *)

(* doc/clojure.txt:196: ",close - close the Repl and free the Repl         *)
(* resources in the server process"; repl.clj:89 refuses to stop a Repl    *)
(* that is "currently active".  So what stop said it has stopped is gone.  *)
StoppedIsGone ==
  \A n \in Nails : command[n] = "stop" /\ reply[n] = "ok" =>
    id[n] \notin repls /\ \A m \in Nails : InUse(m) => id[m] # id[n]
=============================================================================

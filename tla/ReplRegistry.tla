----------------------------- MODULE ReplRegistry -----------------------------
(***************************************************************************)
(* The registry of VimClojure's Repls (repl.clj): a map from ids to the    *)
(* state a Repl keeps between evaluations.  Nails run in different session *)
(* threads of the Nailgun server; each executes one command of the Repl    *)
(* nail: start, stop or run.                                               *)
(*                                                                         *)
(* The map is in a Clojure ref, so that all that is shared is accessed in  *)
(* transactions.  A transaction reads the values of its beginning; alter   *)
(* makes it start again if the ref was committed to since then; commute    *)
(* does not, but applies its function to the latest value at the commit.   *)
(* A transaction that reads and then commits is therefore two steps here,  *)
(* and one that only commutes, or only alters with a function of the old   *)
(* value, is one.                                                          *)
(*                                                                         *)
(* The state of a Repl (last results, namespace, line, ...) is modelled    *)
(* by the set of the nails whose evaluations have shaped it.               *)
(***************************************************************************)
EXTENDS Integers

CONSTANTS Nails,     (* commands of the Repl nail, one thread each           *)
          MaxId,     (* bound on the ids given out; the code has none        *)
          Arguments  (* what -i may be given                                 *)

ASSUME MaxIdAssumption == MaxId \in Nat
ASSUME ArgumentsAssumption == Arguments \subseteq Int

Ids == 1 .. MaxId

(* The id of a context that is made for one evaluation and thrown away.    *)
OneShot == -1

VARIABLES repls,   (* the ids in the map *repls*, ...                        *)
          state,   (* ... and the states they are mapped to                  *)
          counter, (* the ref inside of repl-id                              *)
          pc,      (* where each nail is                                     *)
          command, (* "none", "start", "stop" or "run"                       *)
          id,      (* the Repl the nail acts on                              *)
          mine,    (* the state of the Repl it has taken out of the map      *)
          stale,   (* the nails whose transaction reads old values           *)
          reply    (* what the client was told                               *)

vars == <<repls, state, counter, pc, command, id, mine, stale, reply>>
-----------------------------------------------------------------------------
NailPC == {"idle", "allocate", "register", "stop", "dissoc", "checkOut",
           "alter", "evaluate", "checkIn", "done"}

TypeOK == /\ repls \subseteq Ids
          /\ state \in [Ids -> SUBSET Nails]
          /\ counter \in 0 .. MaxId
          /\ pc \in [Nails -> NailPC]
          /\ command \in [Nails -> {"none", "start", "stop", "run"}]
          /\ id \in [Nails -> Int]
          /\ mine \in [Nails -> SUBSET Nails]
          /\ stale \subseteq Nails
          /\ reply \in [Nails -> {"none", "ok", "exception"}]

Init == /\ repls = {}
        /\ state = [i \in Ids |-> {}]
        /\ counter = 0
        /\ pc = [n \in Nails |-> "idle"]
        /\ command = [n \in Nails |-> "none"]
        /\ id = [n \in Nails |-> OneShot]
        /\ mine = [n \in Nails |-> {}]
        /\ stale = {}
        /\ reply = [n \in Nails |-> "none"]

Goto(n, label) == pc' = [pc EXCEPT ![n] = label]

Answer(n, r) == Goto(n, "done") /\ reply' = [reply EXCEPT ![n] = r]

(* A commit: whoever has read the map before has an old value now.         *)
Assoc(i, r) == /\ repls' = repls \cup {i}
               /\ state' = [state EXCEPT ![i] = r]
               /\ stale' = Nails

Dissoc(i) == /\ repls' = repls \ {i}
             /\ state' = [j \in Ids |-> IF j = i THEN {} ELSE state[j]]
             /\ stale' = Nails
-----------------------------------------------------------------------------
(* The Repl nail parses its arguments, where -i defaults to -1: a number   *)
(* that is none or an unknown namespace is an exception, ...               *)
ParseFails(n) ==
  /\ pc[n] = "idle"
  /\ Answer(n, "exception")
  /\ UNCHANGED <<repls, state, counter, command, id, mine, stale>>

(* ... and without a command there is nothing to do.                       *)
StartNail(n) ==
  /\ pc[n] = "idle"
  /\ \/ Answer(n, "ok") /\ UNCHANGED <<command, id>>
     \/ /\ Goto(n, "allocate") /\ command' = [command EXCEPT ![n] = "start"]
        /\ UNCHANGED <<id, reply>>
     \/ \E i \in Arguments \cup {OneShot} :
          /\ id' = [id EXCEPT ![n] = i]
          /\ \/ Goto(n, "stop") /\ command' = [command EXCEPT ![n] = "stop"]
             \/ /\ Goto(n, IF i = OneShot THEN "evaluate" ELSE "checkOut")
                /\ command' = [command EXCEPT ![n] = "run"]
          /\ UNCHANGED reply
  /\ UNCHANGED <<repls, state, counter, mine, stale>>

(* Mutant: inc without alter. *)
AllocateId_NotStored(n) ==
  /\ pc[n] = "allocate" /\ counter < MaxId
  /\ id' = [id EXCEPT ![n] = counter + 1]
  /\ Goto(n, "register")
  /\ UNCHANGED <<repls, state, counter, command, mine, stale, reply>>

(* start: (repl-id), then the registration of a new Repl.                  *)
AllocateId(n) ==
  /\ pc[n] = "allocate" /\ counter < MaxId
  /\ counter' = counter + 1
  /\ id' = [id EXCEPT ![n] = counter + 1]
  /\ Goto(n, "register")
  /\ UNCHANGED <<repls, state, command, mine, stale, reply>>

Register(n) ==
  /\ pc[n] = "register"
  /\ Assoc(id[n], {})
  /\ Answer(n, "ok")
  /\ UNCHANGED <<counter, command, id, mine>>

(* stop: the test reads the values of the transaction's beginning, the     *)
(* commute is applied to the latest.                                       *)
StopTest(n) ==
  /\ pc[n] = "stop"
  /\ \/ id[n] \in repls /\ Goto(n, "dissoc") /\ UNCHANGED reply
     \/ id[n] \notin repls /\ Answer(n, "exception")
  /\ UNCHANGED <<repls, state, counter, command, id, mine, stale>>

StopCommit(n) ==
  /\ pc[n] = "dissoc"
  /\ Dissoc(id[n])
  /\ Answer(n, "ok")
  /\ UNCHANGED <<counter, command, id, mine>>

(* with-repl*: the Repl is taken out of the map, ...                       *)
CheckOutRead(n) ==
  /\ pc[n] = "checkOut"
  /\ \/ /\ id[n] \in repls
        /\ mine' = [mine EXCEPT ![n] = state[id[n]]]
        /\ stale' = stale \ {n}
        /\ Goto(n, "alter")
        /\ UNCHANGED reply
     \/ id[n] \notin repls /\ Answer(n, "exception") /\ UNCHANGED <<mine, stale>>
  /\ UNCHANGED <<repls, state, counter, command, id>>

(* Mutant: commute instead of alter. *)
CheckOutCommit_Commutes(n) ==
  /\ pc[n] = "alter"
  /\ Dissoc(id[n])
  /\ Goto(n, "evaluate")
  /\ UNCHANGED <<counter, command, id, mine, reply>>

CheckOutCommit(n) ==
  /\ pc[n] = "alter" /\ n \notin stale
  /\ Dissoc(id[n])
  /\ Goto(n, "evaluate")
  /\ UNCHANGED <<counter, command, id, mine, reply>>

(* Mutant: the transaction is tried again with the values it has. *)
CheckOutRetry_SameValues(n) ==
  /\ pc[n] = "alter" /\ n \in stale
  /\ UNCHANGED vars

CheckOutRetry(n) ==
  /\ pc[n] = "alter" /\ n \in stale
  /\ Goto(n, "checkOut")
  /\ UNCHANGED <<repls, state, counter, command, id, mine, stale, reply>>

(* Mutant: one-shot contexts are stored, too. *)
Evaluate_KeepsOneShot(n) ==
  /\ pc[n] = "evaluate"
  /\ mine' = [mine EXCEPT ![n] = @ \cup {n}]
  /\ Goto(n, "checkIn")
  /\ UNCHANGED <<repls, state, counter, command, id, stale, reply>>

(* ... the input is evaluated, where every Throwable is caught and counts  *)
(* as an evaluation, ...                                                   *)
Evaluate(n) ==
  /\ pc[n] = "evaluate"
  /\ mine' = [mine EXCEPT ![n] = @ \cup {n}]
  /\ IF id[n] = OneShot
     THEN Answer(n, "ok")
     ELSE Goto(n, "checkIn") /\ UNCHANGED reply
  /\ UNCHANGED <<repls, state, counter, command, id, stale>>

(* Mutant: the bindings are popped before they are saved. *)
CheckIn_AfterPop(n) ==
  /\ pc[n] = "checkIn"
  /\ Assoc(id[n], mine[n] \ {n})
  /\ Answer(n, "ok")
  /\ UNCHANGED <<counter, command, id, mine>>

(* ... and the new state is stored under the old id.                       *)
CheckIn(n) ==
  /\ pc[n] = "checkIn"
  /\ Assoc(id[n], mine[n])
  /\ Answer(n, "ok")
  /\ UNCHANGED <<counter, command, id, mine>>

NailStep(n) == \/ AllocateId(n) \/ Register(n)
               \/ StopTest(n) \/ StopCommit(n)
               \/ CheckOutRead(n) \/ CheckOutCommit(n) \/ CheckOutRetry(n)
               \/ Evaluate(n) \/ CheckIn(n)

Next == \E n \in Nails : ParseFails(n) \/ StartNail(n) \/ NailStep(n)

Spec == Init /\ [][Next]_vars

(* Session threads run, and evaluations end.                               *)
FairSpec == Spec /\ \A n \in Nails : WF_vars(NailStep(n))
=============================================================================

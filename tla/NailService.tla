----------------------------- MODULE NailService -----------------------------
(***************************************************************************)
(* What a Nailgun server promises to its clients, without pool or locks: a *)
(* connection is accepted, answered with one exit status, and closed, in   *)
(* this order and once.  The server may lose an accepted connection when   *)
(* the client broke it off before its command, when the server is          *)
(* stopping, and once for every nail that left its thread interrupted.  It *)
(* refuses connections only when stopping.  A server that is guarded by a  *)
(* shutdown hook stops before it halts; one that is not may halt at any    *)
(* time.                                                                   *)
(***************************************************************************)
CONSTANTS Clients,  (* connections                                           *)
          BreakOff, (* those whose client may fail to send its command       *)
          Threads   (* what runs the nails                                   *)

VARIABLES phase,   (* "serving", "stopping" or "halted"                      *)
          guarded, (* an exit of the JVM shuts the server down first         *)
          spoiled, (* the threads that a nail has left interrupted           *)
          conn     (* the state of each client's connection                  *)

vars == <<phase, guarded, spoiled, conn>>

States == {"new", "queued", "refused", "accepted", "answered", "closed", "lost"}

TypeOK == /\ phase \in {"serving", "stopping", "halted"}
          /\ guarded \in BOOLEAN
          /\ spoiled \subseteq Threads
          /\ conn \in [Clients -> States]

Init == /\ phase = "serving"
        /\ guarded = FALSE
        /\ spoiled = {}
        /\ conn = [c \in Clients |-> "new"]

Move(c, from, to) == /\ phase # "halted"
                     /\ conn[c] = from
                     /\ conn' = [conn EXCEPT ![c] = to]
                     /\ UNCHANGED <<phase, guarded>>

Connect(c) == Move(c, "new", "queued") /\ UNCHANGED spoiled
Accept(c) == Move(c, "queued", "accepted") /\ UNCHANGED spoiled
Close(c) == Move(c, "answered", "closed") /\ UNCHANGED spoiled

(* The nail may have interrupted its thread, which will lose a connection. *)
Answer(c) == /\ Move(c, "accepted", "answered")
             /\ \/ UNCHANGED spoiled
                \/ \E t \in Threads : spoiled' = spoiled \cup {t}

Lose(c) == /\ Move(c, "accepted", "lost")
           /\ \/ (phase = "stopping" \/ c \in BreakOff) /\ UNCHANGED spoiled
              \/ \E t \in spoiled : spoiled' = spoiled \ {t}

Refuse == /\ phase = "stopping"
          /\ conn' = [c \in Clients |->
                        IF conn[c] = "queued" THEN "refused" ELSE conn[c]]
          /\ UNCHANGED <<phase, guarded, spoiled>>

Guard == ~guarded /\ guarded' = TRUE /\ UNCHANGED <<phase, spoiled, conn>>

Stop == /\ phase = "serving" /\ phase' = "stopping"
        /\ spoiled' = {}
        /\ UNCHANGED <<guarded, conn>>

Halt == /\ phase = "stopping" \/ (phase = "serving" /\ ~guarded)
        /\ phase' = "halted"
        /\ spoiled' = {}
        /\ UNCHANGED <<guarded, conn>>

Next == \/ \E c \in Clients : \/ Connect(c) \/ Accept(c) \/ Answer(c)
                              \/ Close(c) \/ Lose(c)
        \/ Refuse \/ Guard \/ Stop \/ Halt

Spec == Init /\ [][Next]_vars

(* A server that is not stopping accepts, and answers what it accepted.    *)
Fairness == \A c \in Clients : /\ WF_vars(phase = "serving" /\ Accept(c))
                               /\ WF_vars(Answer(c) \/ Close(c))

FairSpec == Spec /\ Fairness
=============================================================================

-------------------------- MODULE ReplRegistryProofs --------------------------
(***************************************************************************)
(* Theorems about ReplRegistry, for all sets of nails, every bound on the  *)
(* ids and all arguments.                                                  *)
(***************************************************************************)
EXTENDS ReplRegistryProperties, TLAPS

(* What a step that leaves the map alone must do not to lose a Repl's start. *)
LEMMA StartsRemain ==
  ASSUME ReplsStarted, repls' = repls,
         \A m \in Nails : Started(m) => Started(m)' /\ id'[m] = id[m],
         \A m \in Nails : InUse(m)' => InUse(m) /\ id'[m] = id[m]
  PROVE  ReplsStarted'
<1>1. ASSUME NEW i \in repls' PROVE \E n \in Nails : Started(n)' /\ id'[n] = i
  <2> PICK n \in Nails : Started(n) /\ id[n] = i
    BY <1>1 DEF ReplsStarted
  <2> QED
    OBVIOUS
<1>2. ASSUME NEW m \in Nails, InUse(m)' PROVE \E n \in Nails : Started(n)' /\ id'[n] = id'[m]
  <2> PICK n \in Nails : Started(n) /\ id[n] = id[m]
    BY <1>2 DEF ReplsStarted
  <2> QED
    BY <1>2
<1> QED
  BY <1>1, <1>2 DEF ReplsStarted

-----------------------------------------------------------------------------
(* Every action keeps the invariant.                                       *)

LEMMA ParseFailsKeeps ==
  ASSUME IInv, NEW n \in Nails, ParseFails(n)
  PROVE  IInv'
<1> USE DEF IInv, TypeOK, ParseFails, Answer, Goto
<1>1. TypeOK'
  BY DEF NailPC
<1>2. CommandOK'
  BY DEF CommandOK
<1>3. IdGiven'
  BY DEF IdGiven, CommandOK, InUse, Evaluated, Started
<1>4. IdFresh'
  BY DEF IdFresh, CommandOK, InUse, Evaluated, Started
<1>5. ReplsStarted'
  BY DEF ReplsStarted, InUse, Started
<1>6. ReadIsCurrent'
  BY DEF ReadIsCurrent
<1>7. OneEvaluation'
  BY DEF OneEvaluation, InUse
<1>8. NoEvaluationLost'
  BY DEF NoEvaluationLost, InUse, Evaluated
<1> QED
  BY <1>1, <1>2, <1>3, <1>4, <1>5, <1>6, <1>7, <1>8

LEMMA StartNailKeeps ==
  ASSUME IInv, NEW n \in Nails, StartNail(n)
  PROVE  IInv'
<1> USE DEF IInv, TypeOK, StartNail, Answer, Goto
<1>1. TypeOK'
  <2> /\ pc' \in [Nails -> NailPC]
      /\ command' \in [Nails -> {"none", "start", "stop", "run"}]
      /\ id' \in [Nails -> Int]
      /\ reply' \in [Nails -> {"none", "ok", "exception"}]
    BY ArgumentsAssumption DEF NailPC
  <2> QED
    OBVIOUS
<1>2. CommandOK'
  BY DEF CommandOK
<1>3. IdGiven'
  <2>1. /\ pc'[n] \notin {"register", "dissoc", "alter"}
        /\ ~InUse(n)' /\ ~Evaluated(n)' /\ ~Started(n)'
    BY DEF CommandOK, InUse, Evaluated, Started
  <2>2. \A m \in Nails \ {n} : /\ pc'[m] = pc[m] /\ id'[m] = id[m]
                               /\ command'[m] = command[m] /\ reply'[m] = reply[m]
    OBVIOUS
  <2> QED
    BY <2>1, <2>2 DEF IdGiven, InUse, Evaluated, Started
<1>4. IdFresh'
  BY DEF IdFresh, CommandOK, InUse, Evaluated, Started
<1>5. ReplsStarted'
  <2>1. \A m \in Nails : Started(m) => Started(m)' /\ id'[m] = id[m]
    BY DEF Started
  <2>2. \A m \in Nails : InUse(m)' => InUse(m) /\ id'[m] = id[m]
    BY DEF InUse
  <2>3. repls' = repls
    OBVIOUS
  <2> QED
    BY <2>1, <2>2, <2>3, StartsRemain
<1>6. ReadIsCurrent'
  BY DEF ReadIsCurrent
<1>7. OneEvaluation'
  BY DEF OneEvaluation, InUse
<1>8. NoEvaluationLost'
  <2>1. \A m \in Nails : InUse(m)' => InUse(m) /\ id'[m] = id[m]
    BY DEF InUse
  <2>2. \A m \in Nails : Evaluated(m)' => Evaluated(m) /\ id'[m] = id[m]
    BY DEF CommandOK, Evaluated
  <2>3. UNCHANGED <<repls, state, mine>>
    OBVIOUS
  <2> QED
    BY <2>1, <2>2, <2>3 DEF NoEvaluationLost
<1> QED
  BY <1>1, <1>2, <1>3, <1>4, <1>5, <1>6, <1>7, <1>8

LEMMA AllocateIdKeeps ==
  ASSUME IInv, NEW n \in Nails, AllocateId(n)
  PROVE  IInv'
<1> USE DEF IInv, TypeOK, AllocateId, Goto
<1>1. TypeOK'
  BY MaxIdAssumption DEF NailPC
<1>2. CommandOK'
  BY DEF CommandOK
<1>3. IdGiven'
  BY DEF IdGiven, InUse, Evaluated, Started
<1>4. IdFresh'
  BY DEF IdGiven, IdFresh, InUse, Evaluated, Started
<1>5. ReplsStarted'
  BY DEF ReplsStarted, InUse, Started
<1>6. ReadIsCurrent'
  BY DEF ReadIsCurrent
<1>7. OneEvaluation'
  BY DEF OneEvaluation, InUse
<1>8. NoEvaluationLost'
  BY DEF NoEvaluationLost, InUse, Evaluated
<1> QED
  BY <1>1, <1>2, <1>3, <1>4, <1>5, <1>6, <1>7, <1>8

LEMMA RegisterKeeps ==
  ASSUME IInv, NEW n \in Nails, Register(n)
  PROVE  IInv'
<1> USE DEF IInv, TypeOK, Register, Assoc, Answer, Goto
<1>1. TypeOK'
  <2> id[n] \in Ids
    BY MaxIdAssumption DEF IdGiven, Ids
  <2> QED
    BY DEF NailPC
<1>2. CommandOK'
  BY DEF CommandOK
<1>3. IdGiven'
  BY DEF Ids, IdGiven, InUse, Evaluated, Started
<1>4. IdFresh'
  BY DEF IdFresh, InUse, Evaluated, Started
<1>5. ReplsStarted'
  BY DEF ReplsStarted, CommandOK, InUse, Started
<1>6. ReadIsCurrent'
  BY DEF ReadIsCurrent
<1>7. OneEvaluation'
  BY DEF OneEvaluation, IdFresh, InUse
<1>8. NoEvaluationLost'
  BY DEF NoEvaluationLost, IdFresh, CommandOK, InUse, Evaluated
<1> QED
  BY <1>1, <1>2, <1>3, <1>4, <1>5, <1>6, <1>7, <1>8

LEMMA StopTestKeeps ==
  ASSUME IInv, NEW n \in Nails, StopTest(n)
  PROVE  IInv'
<1> USE DEF IInv, TypeOK, StopTest, Answer, Goto
<1>1. TypeOK'
  <2>1. CASE id[n] \in repls /\ Goto(n, "dissoc") /\ UNCHANGED reply
    BY DEF NailPC
  <2>2. CASE id[n] \notin repls /\ Answer(n, "exception")
    BY DEF NailPC
  <2> QED
    BY <2>1, <2>2
<1>2. CommandOK'
  BY DEF CommandOK
<1>3. IdGiven'
  BY DEF IdGiven, CommandOK, InUse, Evaluated, Started
<1>4. IdFresh'
  BY DEF IdFresh, CommandOK, InUse, Evaluated, Started
<1>5. ReplsStarted'
  <2>1. \A m \in Nails : Started(m) => Started(m)' /\ id'[m] = id[m]
    BY DEF Started
  <2>2. \A m \in Nails : InUse(m)' => InUse(m) /\ id'[m] = id[m]
    BY DEF InUse
  <2>3. repls' = repls
    OBVIOUS
  <2> QED
    BY <2>1, <2>2, <2>3, StartsRemain
<1>6. ReadIsCurrent'
  BY DEF ReadIsCurrent
<1>7. OneEvaluation'
  BY DEF OneEvaluation, InUse
<1>8. NoEvaluationLost'
  BY DEF NoEvaluationLost, InUse, Evaluated
<1> QED
  BY <1>1, <1>2, <1>3, <1>4, <1>5, <1>6, <1>7, <1>8

LEMMA StopCommitKeeps ==
  ASSUME IInv, NEW n \in Nails, StopCommit(n)
  PROVE  IInv'
<1> USE DEF IInv, TypeOK, StopCommit, Dissoc, Answer, Goto
<1>1. TypeOK'
  BY DEF NailPC
<1>2. CommandOK'
  BY DEF CommandOK
<1>3. IdGiven'
  BY DEF Ids, IdGiven, InUse, Evaluated, Started
<1>4. IdFresh'
  BY DEF IdFresh, CommandOK, InUse, Evaluated, Started
<1>5. ReplsStarted'
  BY DEF ReplsStarted, InUse, Started
<1>6. ReadIsCurrent'
  BY DEF ReadIsCurrent
<1>7. OneEvaluation'
  BY DEF OneEvaluation, InUse
<1>8. NoEvaluationLost'
  BY DEF NoEvaluationLost, CommandOK, InUse, Evaluated
<1> QED
  BY <1>1, <1>2, <1>3, <1>4, <1>5, <1>6, <1>7, <1>8

LEMMA CheckOutReadKeeps ==
  ASSUME IInv, NEW n \in Nails, CheckOutRead(n)
  PROVE  IInv'
<1> USE DEF IInv, TypeOK, CheckOutRead, Answer, Goto
<1>1. TypeOK'
  <2>1. mine' \in [Nails -> SUBSET Nails] /\ stale' \subseteq Nails
    BY DEF Ids
  <2>2. /\ pc' \in [Nails -> NailPC]
        /\ reply' \in [Nails -> {"none", "ok", "exception"}]
    BY DEF NailPC
  <2> QED
    BY <2>1, <2>2
<1>2. CommandOK'
  BY DEF CommandOK
<1>3. IdGiven'
  BY DEF IdGiven, CommandOK, InUse, Evaluated, Started
<1>4. IdFresh'
  BY DEF IdFresh, CommandOK, InUse, Evaluated, Started
<1>5. ReplsStarted'
  <2>1. \A m \in Nails : Started(m) => Started(m)' /\ id'[m] = id[m]
    BY DEF Started
  <2>2. \A m \in Nails : InUse(m)' => InUse(m) /\ id'[m] = id[m]
    BY DEF InUse
  <2> QED
    BY <2>1, <2>2, StartsRemain
<1>6. ReadIsCurrent'
  BY DEF ReadIsCurrent
<1>7. OneEvaluation'
  BY DEF OneEvaluation, InUse
<1>8. NoEvaluationLost'
  BY DEF NoEvaluationLost, InUse, Evaluated
<1> QED
  BY <1>1, <1>2, <1>3, <1>4, <1>5, <1>6, <1>7, <1>8

LEMMA CheckOutCommitKeeps ==
  ASSUME IInv, NEW n \in Nails, CheckOutCommit(n)
  PROVE  IInv'
<1> USE DEF IInv, TypeOK, CheckOutCommit, Dissoc, Goto
<1>1. TypeOK'
  BY DEF NailPC
<1>2. CommandOK'
  BY DEF CommandOK
<1>3. IdGiven'
  BY DEF Ids, IdGiven, InUse, Evaluated, Started
<1>4. IdFresh'
  BY DEF IdFresh, ReadIsCurrent, InUse, Evaluated, Started
<1>5. ReplsStarted'
  BY DEF ReplsStarted, ReadIsCurrent, InUse, Started
<1>6. ReadIsCurrent'
  BY DEF ReadIsCurrent
<1>7. OneEvaluation'
  BY DEF OneEvaluation, ReadIsCurrent, InUse
<1>8. NoEvaluationLost'
  BY DEF NoEvaluationLost, ReadIsCurrent, InUse, Evaluated
<1> QED
  BY <1>1, <1>2, <1>3, <1>4, <1>5, <1>6, <1>7, <1>8

LEMMA CheckOutRetryKeeps ==
  ASSUME IInv, NEW n \in Nails, CheckOutRetry(n)
  PROVE  IInv'
<1> USE DEF IInv, TypeOK, CheckOutRetry, Goto
<1>1. TypeOK'
  BY DEF NailPC
<1>2. CommandOK'
  BY DEF CommandOK
<1>3. IdGiven'
  BY DEF IdGiven, InUse, Evaluated, Started
<1>4. IdFresh'
  BY DEF IdFresh, InUse, Evaluated, Started
<1>5. ReplsStarted'
  BY DEF ReplsStarted, InUse, Started
<1>6. ReadIsCurrent'
  BY DEF ReadIsCurrent
<1>7. OneEvaluation'
  BY DEF OneEvaluation, InUse
<1>8. NoEvaluationLost'
  BY DEF NoEvaluationLost, InUse, Evaluated
<1> QED
  BY <1>1, <1>2, <1>3, <1>4, <1>5, <1>6, <1>7, <1>8

LEMMA EvaluateKeeps ==
  ASSUME IInv, NEW n \in Nails, Evaluate(n)
  PROVE  IInv'
<1> USE DEF IInv, TypeOK, Evaluate, Answer, Goto
<1>1. TypeOK'
  BY DEF NailPC
<1>2. CommandOK'
  BY DEF CommandOK
<1>3. IdGiven'
  BY DEF IdGiven, CommandOK, InUse, Evaluated, Started
<1>4. IdFresh'
  BY DEF IdFresh, CommandOK, InUse, Evaluated, Started
<1>5. ReplsStarted'
  <2>1. \A m \in Nails : Started(m) => Started(m)' /\ id'[m] = id[m]
    BY DEF Started
  <2>2. \A m \in Nails : InUse(m)' => InUse(m) /\ id'[m] = id[m]
    BY DEF InUse
  <2>3. repls' = repls
    OBVIOUS
  <2> QED
    BY <2>1, <2>2, <2>3, StartsRemain
<1>6. ReadIsCurrent'
  BY DEF ReadIsCurrent
<1>7. OneEvaluation'
  BY DEF OneEvaluation, InUse
<1>8. NoEvaluationLost'
  BY DEF NoEvaluationLost, InUse, Evaluated
<1> QED
  BY <1>1, <1>2, <1>3, <1>4, <1>5, <1>6, <1>7, <1>8

LEMMA CheckInKeeps ==
  ASSUME IInv, NEW n \in Nails, CheckIn(n)
  PROVE  IInv'
<1> USE DEF IInv, TypeOK, CheckIn, Assoc, Answer, Goto
<1>1. TypeOK'
  <2> id[n] \in Ids
    BY MaxIdAssumption DEF IdGiven, InUse, CommandOK, Ids
  <2> QED
    BY DEF NailPC
<1>2. CommandOK'
  BY DEF CommandOK
<1>3. IdGiven'
  BY <1>1 DEF Ids, IdGiven, InUse, Evaluated, Started, OneShot
<1>4. IdFresh'
  BY DEF IdFresh, CommandOK, InUse, Evaluated, Started
<1>5. ReplsStarted'
  BY DEF ReplsStarted, CommandOK, InUse, Started
<1>6. ReadIsCurrent'
  BY DEF ReadIsCurrent
<1>7. OneEvaluation'
  BY DEF OneEvaluation, InUse
<1>8. NoEvaluationLost'
  BY <1>1 DEF NoEvaluationLost, OneEvaluation, CommandOK, InUse, Evaluated
<1> QED
  BY <1>1, <1>2, <1>3, <1>4, <1>5, <1>6, <1>7, <1>8
-----------------------------------------------------------------------------
(* The invariant holds initially and is kept by every step.                *)

LEMMA Initial == Init => IInv
  BY MaxIdAssumption
  DEF Init, IInv, TypeOK, NailPC, Ids, OneShot, CommandOK, IdGiven, IdFresh,
      ReplsStarted, ReadIsCurrent, OneEvaluation, NoEvaluationLost,
      InUse, Evaluated, Started

LEMMA Inductive == IInv /\ [Next]_vars => IInv'
<1> SUFFICES ASSUME IInv, [Next]_vars PROVE IInv'
  OBVIOUS
<1>1. CASE UNCHANGED vars
  BY <1>1
  DEF vars, IInv, TypeOK, CommandOK, IdGiven, IdFresh, ReplsStarted, ReadIsCurrent,
      OneEvaluation, NoEvaluationLost, InUse, Evaluated, Started
<1>2. ASSUME NEW n \in Nails, ParseFails(n) \/ StartNail(n) \/ NailStep(n) PROVE IInv'
  BY <1>2, ParseFailsKeeps, StartNailKeeps, AllocateIdKeeps, RegisterKeeps,
     StopTestKeeps, StopCommitKeeps, CheckOutReadKeeps, CheckOutCommitKeeps,
     CheckOutRetryKeeps, EvaluateKeeps, CheckInKeeps
  DEF NailStep
<1> QED
  BY <1>1, <1>2 DEF Next

LEMMA Invariance == Spec => []IInv
  BY Initial, Inductive, PTL DEF Spec
-----------------------------------------------------------------------------
(* Every variable keeps its type: all that is in *repls* has an id that    *)
(* (repl-id) has given out, and never that of a one-shot context.          *)
THEOREM TypeCorrect == Spec => []TypeOK
<1> IInv => TypeOK
  BY DEF IInv
<1> QED
  BY Invariance, PTL

(* However many nails run, with whatever ids, no two evaluate in the same  *)
(* Repl, and none in one that is in the map (repl.clj:110-117).            *)
THEOREM OneEvaluationCorrect == Spec => []OneEvaluation
<1> IInv => OneEvaluation
  BY DEF IInv
<1> QED
  BY Invariance, PTL

(* The state of a Repl never loses an evaluation that was answered, however *)
(* transactions interleave (repl.clj:141-160).                             *)
THEOREM NoEvaluationLostCorrect == Spec => []NoEvaluationLost
<1> IInv => NoEvaluationLost
  BY DEF IInv
<1> QED
  BY Invariance, PTL
-----------------------------------------------------------------------------
(* The refinement.  What the client of the abstract service cannot see ... *)
LEMMA Unseen ==
  ASSUME repls' = repls,
         \A m \in Nails : /\ InUse(m)' <=> InUse(m)
                          /\ Evaluated(m)' <=> Evaluated(m)
                          /\ Started(m)' <=> Started(m)
                          /\ InUse(m) \/ Evaluated(m) \/ Started(m) => id'[m] = id[m]
  PROVE  UNCHANGED <<ServiceStatus, ServiceState>>
  BY DEF ServiceStatus, ServiceState

LEMMA QuietSteps ==
  ASSUME IInv, NEW n \in Nails,
         \/ ParseFails(n) \/ StartNail(n) \/ AllocateId(n) \/ StopTest(n)
         \/ CheckOutRead(n) \/ CheckOutRetry(n) \/ Evaluate(n)
  PROVE  UNCHANGED <<ServiceStatus, ServiceState>>
<1> USE DEF IInv, TypeOK, CommandOK, InUse, Evaluated, Started, OneShot, Goto, Answer
<1>1. CASE ParseFails(n)
  BY <1>1, Unseen DEF ParseFails
<1>2. CASE StartNail(n)
  BY <1>2, Unseen DEF StartNail
<1>3. CASE AllocateId(n)
  BY <1>3, Unseen DEF AllocateId
<1>4. CASE StopTest(n)
  BY <1>4, Unseen DEF StopTest
<1>5. CASE CheckOutRead(n)
  BY <1>5, Unseen DEF CheckOutRead
<1>6. CASE CheckOutRetry(n)
  BY <1>6, Unseen DEF CheckOutRetry
<1>7. CASE Evaluate(n)
  BY <1>7, Unseen DEF Evaluate
<1> QED
  BY <1>1, <1>2, <1>3, <1>4, <1>5, <1>6, <1>7

(* ... and what it sees.                                                   *)
LEMMA RegisterStarts ==
  ASSUME IInv, NEW n \in Nails, Register(n)
  PROVE  id[n] \in Ids /\ Service!Start(id[n])
<1> USE DEF IInv
<1>1. id[n] \in Ids
  BY MaxIdAssumption DEF TypeOK, IdGiven, Register, Ids
<1>2. ServiceStatus[id[n]] = "unused"
  BY <1>1 DEF ServiceStatus, IdFresh, Register, InUse, Started
<1>3. \A m \in Nails : /\ InUse(m)' <=> InUse(m)
                       /\ Evaluated(m)' <=> Evaluated(m)
                       /\ id'[m] = id[m]
                       /\ m # n => (Started(m)' <=> Started(m))
  BY DEF TypeOK, CommandOK, Register, Answer, Goto, InUse, Evaluated, Started
<1>4. Started(n)' /\ ~Started(n)
  BY DEF TypeOK, CommandOK, Register, Answer, Goto, Started
<1>5. ServiceStatus' = [ServiceStatus EXCEPT ![id[n]] = "idle"]
  BY <1>1, <1>3, <1>4 DEF ServiceStatus, Register, Assoc
<1>6. ServiceState' = ServiceState
  BY <1>3 DEF ServiceState
<1> QED
  BY <1>1, <1>2, <1>5, <1>6 DEF Service!Start, Service!Become

LEMMA StopCommitStops ==
  ASSUME IInv, NEW n \in Nails, StopCommit(n)
  PROVE  \/ id[n] \in Ids /\ Service!Stop(id[n])
         \/ UNCHANGED <<ServiceStatus, ServiceState>>
<1> USE DEF IInv
<1>1. id[n] \in Ids
  BY MaxIdAssumption DEF TypeOK, IdGiven, StopCommit, Ids
<1>2. \A m \in Nails : /\ InUse(m)' <=> InUse(m)
                       /\ Evaluated(m)' <=> Evaluated(m)
                       /\ Started(m)' <=> Started(m)
                       /\ id'[m] = id[m]
  BY DEF TypeOK, CommandOK, StopCommit, Answer, Goto, InUse, Evaluated, Started
<1>3. ServiceState' = ServiceState
  BY <1>2 DEF ServiceState
<1>4. CASE id[n] \notin repls
  <2> repls' = repls
    BY <1>4 DEF StopCommit, Dissoc
  <2> QED
    BY <1>2, Unseen
<1>5. CASE id[n] \in repls
  <2>1. \E m \in Nails : Started(m) /\ id[m] = id[n]
    BY <1>5 DEF ReplsStarted
  <2>2. \A m \in Nails : InUse(m) => id[m] # id[n]
    BY <1>5 DEF OneEvaluation
  <2>3. ServiceStatus[id[n]] = "idle"
    BY <1>1, <1>5 DEF ServiceStatus
  <2>4. ServiceStatus' = [ServiceStatus EXCEPT ![id[n]] = "stopped"]
    BY <1>1, <1>2, <2>1, <2>2 DEF ServiceStatus, StopCommit, Dissoc
  <2> QED
    BY <1>1, <1>3, <2>3, <2>4 DEF Service!Stop, Service!Become
<1> QED
  BY <1>4, <1>5

LEMMA CheckOutCommitChecksOut ==
  ASSUME IInv, NEW n \in Nails, CheckOutCommit(n)
  PROVE  id[n] \in Ids /\ Service!CheckOut(id[n])
<1> USE DEF IInv
<1>1. id[n] \in Ids /\ id[n] \in repls
  BY MaxIdAssumption DEF TypeOK, ReadIsCurrent, CheckOutCommit
<1>2. InUse(n)' /\ ~InUse(n) /\ id' = id
  BY <1>1 DEF TypeOK, CheckOutCommit, Goto, InUse, Ids, OneShot
<1>3. \A m \in Nails : /\ Evaluated(m)' <=> Evaluated(m)
                       /\ Started(m)' <=> Started(m)
                       /\ m # n => (InUse(m)' <=> InUse(m))
  BY DEF TypeOK, CheckOutCommit, Goto, InUse, Evaluated, Started
<1>4. ServiceState' = ServiceState
  BY <1>2, <1>3 DEF ServiceState
<1>5. ServiceStatus[id[n]] = "idle"
  BY <1>1 DEF ServiceStatus
<1>6. ServiceStatus' = [ServiceStatus EXCEPT ![id[n]] = "busy"]
  BY <1>1, <1>2, <1>3 DEF ServiceStatus, CheckOutCommit, Dissoc
<1> QED
  BY <1>1, <1>4, <1>5, <1>6 DEF Service!CheckOut, Service!Become

LEMMA CheckInChecksIn ==
  ASSUME IInv, NEW n \in Nails, CheckIn(n)
  PROVE  id[n] \in Ids /\ Service!CheckIn(id[n], n)
<1> USE DEF IInv
<1>1. InUse(n) /\ ~InUse(n)' /\ ~Evaluated(n) /\ Evaluated(n)' /\ id' = id
  BY DEF TypeOK, CommandOK, CheckIn, Answer, Goto, InUse, Evaluated
<1>2. id[n] \in Ids
  BY <1>1, MaxIdAssumption DEF TypeOK, IdGiven, Ids
<1>3. id[n] \notin repls /\ \A m \in Nails \ {n} : InUse(m) => id[m] # id[n]
  BY <1>1 DEF OneEvaluation
<1>4. \A m \in Nails : /\ Started(m)' <=> Started(m)
                       /\ m # n => (InUse(m)' <=> InUse(m))
                       /\ m # n => (Evaluated(m)' <=> Evaluated(m))
  BY DEF TypeOK, CommandOK, CheckIn, Answer, Goto, InUse, Evaluated, Started
<1>5. ServiceStatus[id[n]] = "busy"
  BY <1>1, <1>2, <1>3 DEF ServiceStatus
<1>6. ServiceStatus' = [ServiceStatus EXCEPT ![id[n]] = "idle"]
  BY <1>1, <1>2, <1>3, <1>4 DEF ServiceStatus, CheckIn, Assoc
<1>7. n \notin ServiceState[id[n]]
  BY <1>1, <1>2 DEF ServiceState
<1>8. ServiceState' = [ServiceState EXCEPT ![id[n]] = @ \cup {n}]
  BY <1>1, <1>2, <1>4 DEF ServiceState
<1> QED
  BY <1>2, <1>5, <1>6, <1>7, <1>8 DEF Service!CheckIn, Service!Become

(* Every step of the registry is a step of ReplService or one it does not  *)
(* see, so that the registry with its transactions (repl.clj:73-160) is an *)
(* implementation of the service, for every number of nails and ids.       *)
THEOREM RegistryImplementsService == Spec => ImplementsReplService
<1>1. Init => Service!Init
  BY DEF Init, Service!Init, ServiceStatus, ServiceState, InUse, Evaluated, Started
<1>2. IInv /\ [Next]_vars => [Service!Next]_(Service!vars)
  <2> SUFFICES ASSUME IInv, [Next]_vars
               PROVE  Service!Next \/ UNCHANGED <<ServiceStatus, ServiceState>>
    BY DEF Service!vars
  <2>1. CASE UNCHANGED vars
    BY <2>1 DEF vars, ServiceStatus, ServiceState, InUse, Evaluated, Started
  <2>2. ASSUME NEW n \in Nails, ParseFails(n) \/ StartNail(n) \/ NailStep(n)
        PROVE  Service!Next \/ UNCHANGED <<ServiceStatus, ServiceState>>
    BY <2>2, QuietSteps, RegisterStarts, StopCommitStops, CheckOutCommitChecksOut,
       CheckInChecksIn
    DEF NailStep, Service!Next
  <2> QED
    BY <2>1, <2>2 DEF Next
<1> QED
  BY <1>1, <1>2, Invariance, PTL DEF Spec, Service!Spec, ImplementsReplService
=============================================================================

------------------------ MODULE SessionInputQueueProofs ------------------------
(***************************************************************************)
(* Theorems about the input queue of a session, for any number of inputs,  *)
(* commands and drain tasks and for every choice of Sources and Explored:  *)
(* the hold is the one the user asked for, an edited input runs once, and  *)
(* no input is consumed twice.  None of them depends on how the queue is   *)
(* sorted or on what the drain has in its batch.                           *)
(***************************************************************************)
EXTENDS SessionInputQueue, TLAPS

Fates == Settled \cup {"none", "pending"}
Accepted == 1..accepted
Active == {"pending", "turn", "steering"}

(***************************************************************************)
(* What the theorems need of the types: inputs are accepted one after the  *)
(* other, and neither the hold nor the user names one that is not accepted *)
(* yet.  The other fields of the queue state may be anything.              *)
(***************************************************************************)
Arrivals ==
    /\ accepted \in 0..MaxInputs
    /\ fate \in [Inputs -> Fates]
    /\ \A i \in Inputs : i <= accepted <=> fate[i] # "none"
    /\ DOMAIN source = Inputs
Named ==
    /\ DOMAIN queue = {"heldThrough", "released", "order", "override", "replacementHolds", "position"}
    /\ queue.heldThrough \in 0..accepted
    /\ queue.released \subseteq Accepted
    /\ queue.replacementHolds \subseteq Accepted
    /\ userHeld \subseteq Accepted

(* An edit belongs to an earlier input; an input to come is its own origin. *)
Lineages ==
    /\ lineage \in [Inputs -> Inputs]
    /\ \A i \in Inputs : lineage[i] <= i /\ (i > accepted => lineage[i] = i)

(* The inductive invariant. *)
InputInv == Arrivals /\ Named /\ Lineages /\ HoldsWhatTheUserHeld /\ EditedInputRunsOnce
\* Everything the invariant is about.
facts == <<accepted, source, fate, queue, userHeld, lineage>>

(***************************************************************************)
(* A step that changes none of these facts.                                *)
(***************************************************************************)
LEMMA Unchanged == InputInv /\ UNCHANGED facts => InputInv'
BY DEF InputInv, facts, Arrivals, Named, Lineages, Accepted, HoldsWhatTheUserHeld, EditedInputRunsOnce,
       PendingComposers, Pending, Composer, Held

(***************************************************************************)
(* A step that only settles pending inputs: a removal, a withdrawal, a     *)
(* claim by the drain or by the running Turn.                              *)
(***************************************************************************)
Settles ==
    /\ fate' \in [Inputs -> Fates]
    /\ \A i \in Inputs : fate'[i] = fate[i] \/ (fate[i] = "pending" /\ fate'[i] \in Settled)
    /\ UNCHANGED <<accepted, source, queue, userHeld, lineage>>

(* Such a step keeps the invariant. *)
LEMMA Settling == InputInv /\ Settles => InputInv'
<1> SUFFICES ASSUME InputInv, Settles PROVE InputInv'
  OBVIOUS
<1>1. Arrivals'
  BY DEF InputInv, Settles, Arrivals, Settled, Fates
<1>2. Named' /\ Lineages'
  BY DEF InputInv, Settles, Named, Lineages, Accepted
<1>3. HoldsWhatTheUserHeld'
  BY DEF InputInv, Settles, HoldsWhatTheUserHeld, PendingComposers, Pending, Composer, Held, Settled
<1>4. EditedInputRunsOnce'
  BY DEF InputInv, Settles, EditedInputRunsOnce, Settled
<1> QED  BY <1>1, <1>2, <1>3, <1>4 DEF InputInv
(***************************************************************************)
(* A step that only changes the hold and what the user holds, keeping both *)
(* to accepted inputs.                                                     *)
(***************************************************************************)
LEMMA Holding ==
    ASSUME InputInv, UNCHANGED <<accepted, source, lineage>>, Named', HoldsWhatTheUserHeld',
           fate' \in [Inputs -> Fates],
           \A i \in Inputs : fate'[i] = fate[i] \/ (fate[i] = "pending" /\ fate'[i] \in Settled)
    PROVE  InputInv'
<1>1. Arrivals'
  BY DEF InputInv, Arrivals, Settled, Fates
<1>2. Lineages'
  BY DEF InputInv, Lineages
<1>3. EditedInputRunsOnce'
  BY DEF InputInv, EditedInputRunsOnce, Settled
<1> QED  BY <1>1, <1>2, <1>3 DEF InputInv

(* Pausing holds what is pending, except the inputs already shown. *)
LEMMA PauseInv == InputInv /\ Pause => InputInv'
<1> SUFFICES ASSUME InputInv, Pause PROVE InputInv'
  OBVIOUS
<1> DEFINE shown == {i \in PendingComposers : Placement(i) # "queued"}
<1>1. /\ queue' = [queue EXCEPT !.heldThrough = accepted, !.released = shown]
      /\ userHeld' = PendingComposers \ shown
      /\ UNCHANGED <<accepted, source, fate, lineage>>
  BY DEF Pause
<1>2. PendingComposers \subseteq Accepted /\ shown \subseteq PendingComposers
  BY InputAssumption DEF InputInv, Arrivals, PendingComposers, Pending, Accepted, Inputs
<1> HIDE DEF shown
<1>3. Named'
  BY <1>1, <1>2, InputAssumption DEF InputInv, Arrivals, Named, Accepted
<1>4. HoldsWhatTheUserHeld'
  BY <1>1, <1>2 DEF InputInv, Named, HoldsWhatTheUserHeld, PendingComposers, Pending, Composer, Held, Accepted
<1> QED  BY <1>1, <1>3, <1>4, Holding DEF InputInv, Arrivals

(* Resuming lets everything go. *)
LEMMA ResumeInv == InputInv /\ Resume => InputInv'
<1> SUFFICES ASSUME InputInv, Resume PROVE InputInv'
  OBVIOUS
<1>1. /\ queue' = [queue EXCEPT !.heldThrough = 0, !.replacementHolds = {}]
      /\ userHeld' = {}
      /\ UNCHANGED <<accepted, source, fate, lineage>>
  BY DEF Resume
<1>2. Named'
  BY <1>1, InputAssumption DEF InputInv, Arrivals, Named, Accepted
<1>3. HoldsWhatTheUserHeld'
  BY <1>1, InputAssumption
     DEF InputInv, Named, HoldsWhatTheUserHeld, PendingComposers, Pending, Composer, Held, Inputs
<1> QED  BY <1>1, <1>2, <1>3, Holding DEF InputInv, Arrivals

(* A promotion lets one input go. *)
LEMMA PromoteInv == ASSUME NEW i \in Inputs, InputInv, Promote(i) PROVE InputInv'
<1>1. /\ queue' = [queue EXCEPT !.released = @ \cup {i}, !.replacementHolds = @ \ {i},
                                !.override[i] = head.turn]
      /\ userHeld' = userHeld \ {i} /\ i \in PendingComposers
      /\ UNCHANGED <<accepted, source, fate, lineage>>
  BY DEF Promote
<1>2. i \in Accepted
  BY <1>1, InputAssumption DEF InputInv, Arrivals, PendingComposers, Pending, Accepted, Inputs
<1>3. Named'
  BY <1>1, <1>2, InputAssumption DEF InputInv, Arrivals, Named, Accepted
<1>4. HoldsWhatTheUserHeld'
  BY <1>1 DEF InputInv, Named, HoldsWhatTheUserHeld, PendingComposers, Pending, Composer, Held
<1> QED  BY <1>1, <1>3, <1>4, Holding DEF InputInv, Arrivals

(* A new order touches no hold. *)
LEMMA ReorderInv == ASSUME NEW order, InputInv, Reorder(order) PROVE InputInv'
<1>1. queue' = [queue EXCEPT !.order = order] /\ UNCHANGED <<accepted, source, fate, userHeld, lineage>>
  BY DEF Reorder
<1>2. Named'
  BY <1>1 DEF InputInv, Named, Accepted
<1>3. HoldsWhatTheUserHeld'
  BY <1>1 DEF InputInv, Named, HoldsWhatTheUserHeld, PendingComposers, Pending, Composer, Held
<1> QED  BY <1>1, <1>2, <1>3, Holding DEF InputInv, Arrivals

(* A Stop before the claim cancels its input and holds the others. *)
LEMMA StopInputInv == ASSUME NEW i \in Inputs, InputInv, StopInput(i) PROVE InputInv'
<1>1. /\ i \in PendingComposers /\ fate' = Cancelled({i})
      /\ queue' = [queue EXCEPT !.heldThrough = accepted, !.released = {}]
      /\ userHeld' = PendingComposers \ {i}
      /\ UNCHANGED <<accepted, source, lineage>>
  BY DEF StopInput, HeldForStop
<1>2. PendingComposers \subseteq Accepted
  BY InputAssumption DEF InputInv, Arrivals, PendingComposers, Pending, Accepted, Inputs
<1>3. Named'
  BY <1>1, <1>2, InputAssumption DEF InputInv, Arrivals, Named, Accepted
<1>4. /\ fate' \in [Inputs -> Fates]
      /\ \A k \in Inputs : fate'[k] = IF k = i THEN "cancelled" ELSE fate[k]
      /\ fate[i] = "pending"
  BY <1>1 DEF InputInv, Arrivals, Cancelled, Fates, Settled, PendingComposers, Pending
<1>5. HoldsWhatTheUserHeld'
  BY <1>1, <1>2, <1>4
     DEF InputInv, Named, HoldsWhatTheUserHeld, PendingComposers, Pending, Composer, Held, Accepted
<1> QED  BY <1>1, <1>3, <1>4, <1>5, Holding DEF Settled

(* A Stop of the running Turn holds every pending composer input. *)
LEMMA StopTurnInv == InputInv /\ StopTurn => InputInv'
<1> SUFFICES ASSUME InputInv, StopTurn PROVE InputInv'
  OBVIOUS
<1>1. /\ queue' = IF PendingComposers = {} THEN queue
                  ELSE [queue EXCEPT !.heldThrough = accepted, !.released = {}]
      /\ userHeld' = PendingComposers
      /\ UNCHANGED <<accepted, source, fate, lineage>>
  BY DEF StopTurn, HeldForStop
<1>2. PendingComposers \subseteq Accepted /\ PendingComposers' = PendingComposers
  BY <1>1, InputAssumption
     DEF InputInv, Arrivals, PendingComposers, Pending, Accepted, Inputs, Composer
<1>3. Named'
  BY <1>1, <1>2, InputAssumption DEF InputInv, Arrivals, Named, Accepted
<1>4. HoldsWhatTheUserHeld'
  BY <1>1, <1>2 DEF InputInv, Named, HoldsWhatTheUserHeld, Composer, PendingComposers, Held, Accepted
<1> QED  BY <1>1, <1>3, <1>4, Holding DEF InputInv, Arrivals

(* A context clear leaves nothing pending and an empty queue state. *)
LEMMA ClearContextInv == InputInv /\ ClearContext => InputInv'
<1> SUFFICES ASSUME InputInv, ClearContext PROVE InputInv'
  OBVIOUS
<1>1. /\ fate' = [i \in Inputs |-> IF i \in Pending THEN "discarded" ELSE fate[i]]
      /\ queue' = EmptyQueue /\ userHeld' = {}
      /\ UNCHANGED <<accepted, source, lineage>>
  BY DEF ClearContext
<1>2. /\ fate' \in [Inputs -> Fates]
      /\ \A i \in Inputs : fate'[i] = IF fate[i] = "pending" THEN "discarded" ELSE fate[i]
  BY <1>1 DEF InputInv, Arrivals, Fates, Settled, Pending
<1>3. Named'
  BY <1>1 DEF InputInv, Arrivals, Named, Accepted, EmptyQueue
<1>4. HoldsWhatTheUserHeld'
  BY <1>2 DEF HoldsWhatTheUserHeld, PendingComposers, Pending
<1> QED  BY <1>1, <1>2, <1>3, <1>4, Holding DEF Settled
(* A new input is pending, is held by nobody and starts a lineage of its own. *)
LEMMA AcceptInv == ASSUME NEW s \in Sources, NEW t \in Turns, InputInv, Accept(s, t) PROVE InputInv'
<1> DEFINE i == accepted + 1
<1>1. /\ accepted < MaxInputs /\ accepted' = i
      /\ source' = [source EXCEPT ![i] = s] /\ fate' = [fate EXCEPT ![i] = "pending"]
      /\ UNCHANGED <<queue, userHeld, lineage>>
  BY DEF Accept
<1>2. i \in Inputs /\ accepted \in Nat /\ fate[i] = "none"
  BY <1>1, InputAssumption DEF InputInv, Arrivals, Inputs, Fates
<1>3. \A k \in Inputs : /\ fate'[k] = IF k = i THEN "pending" ELSE fate[k]
                        /\ k # i => source'[k] = source[k]
  BY <1>1, <1>2 DEF InputInv, Arrivals
<1>4. Arrivals'
  BY <1>1, <1>2, <1>3, InputAssumption DEF InputInv, Arrivals, Fates, Inputs
<1>5. Named'
  BY <1>1, <1>2 DEF InputInv, Named, Accepted
<1>6. Lineages'
  BY <1>1, <1>2, InputAssumption DEF InputInv, Lineages, Inputs
<1>7. HoldsWhatTheUserHeld'
  <2> SUFFICES ASSUME NEW k \in Inputs, fate'[k] = "pending", source'[k] = "composer"
               PROVE  Held(k)' <=> k \in userHeld'
    BY DEF HoldsWhatTheUserHeld, PendingComposers, Pending, Composer
  <2>1. CASE k = i
    BY <1>1, <1>2, <2>1 DEF InputInv, Named, Held, Accepted
  <2>2. CASE k # i
    BY <1>1, <1>3, <2>2 DEF InputInv, HoldsWhatTheUserHeld, PendingComposers, Pending, Composer, Held
  <2> QED  BY <2>1, <2>2
<1>8. EditedInputRunsOnce'
  <2>1. \A k \in Inputs : fate[k] # "none" => lineage[k] # lineage[i]
    BY <1>2, InputAssumption DEF InputInv, Arrivals, Lineages, Inputs
  <2> QED  BY <1>1, <1>2, <1>3, <2>1 DEF InputInv, EditedInputRunsOnce, Lineages
<1> QED  BY <1>4, <1>5, <1>6, <1>7, <1>8 DEF InputInv

(* An edit is held exactly if the input it replaces is, and takes its place in the lineage. *)
LEMMA ReplaceInv == ASSUME NEW i \in Inputs, InputInv, Replace(i) PROVE InputInv'
<1> DEFINE j == accepted + 1
<1>1. /\ accepted < MaxInputs /\ accepted' = j /\ i \in PendingComposers
      /\ source' = [source EXCEPT ![j] = "composer"] /\ fate' = [Cancelled({i}) EXCEPT ![j] = "pending"]
      /\ queue' = Replaced(i, j)
      /\ userHeld' = IF i \in userHeld THEN userHeld \cup {j} ELSE userHeld
      /\ lineage' = [lineage EXCEPT ![j] = lineage[i]]
  BY DEF Replace
<1>2. /\ j \in Inputs /\ accepted \in Nat /\ fate[j] = "none" /\ fate[i] = "pending"
      /\ i <= accepted /\ i # j /\ i \in Accepted
  BY <1>1, InputAssumption DEF InputInv, Arrivals, Inputs, Fates, PendingComposers, Pending, Accepted
<1>3. \A k \in Inputs : /\ fate'[k] = IF k = j THEN "pending" ELSE IF k = i THEN "cancelled" ELSE fate[k]
                        /\ k # j => source'[k] = source[k] /\ lineage'[k] = lineage[k]
  BY <1>1, <1>2 DEF InputInv, Arrivals, Lineages, Cancelled
<1>4. Arrivals'
  <2>1. fate' \in [Inputs -> Fates]
    BY <1>1, <1>2 DEF InputInv, Arrivals, Cancelled, Fates, Settled
  <2>2. ASSUME NEW k \in Inputs PROVE k <= accepted' <=> fate'[k] # "none"
    <3>1. k \in Nat /\ (k <= accepted' <=> k <= accepted \/ k = j)
      BY <1>1, <1>2, InputAssumption DEF Inputs
    <3>2. k <= accepted <=> fate[k] # "none"
      BY DEF InputInv, Arrivals
    <3> QED  BY <1>2, <1>3, <3>1, <3>2
  <2>3. accepted' \in 0..MaxInputs /\ DOMAIN source' = Inputs
    BY <1>1, <1>2, InputAssumption DEF InputInv, Arrivals, Inputs
  <2> QED  BY <2>1, <2>2, <2>3 DEF Arrivals
<1>5. /\ DOMAIN queue' = DOMAIN queue /\ queue'.heldThrough = queue.heldThrough
      /\ queue'.released = IF i \in queue.released THEN (queue.released \ {i}) \cup {j} ELSE queue.released
      /\ queue'.replacementHolds = IF Held(i) THEN queue.replacementHolds \cup {j} ELSE queue.replacementHolds
  BY <1>1 DEF InputInv, Named, Replaced
<1>6. Named'
  BY <1>1, <1>2, <1>5 DEF InputInv, Named, Accepted
<1>7. Lineages'
  BY <1>1, <1>2, <1>3, InputAssumption DEF InputInv, Lineages, Inputs
<1>8. HoldsWhatTheUserHeld'
  <2> SUFFICES ASSUME NEW k \in Inputs, fate'[k] = "pending", source'[k] = "composer"
               PROVE  Held(k)' <=> k \in userHeld'
    BY DEF HoldsWhatTheUserHeld, PendingComposers, Pending, Composer
  <2>1. CASE k = j
    <3>1. Held(i) <=> i \in userHeld
      BY <1>1 DEF InputInv, HoldsWhatTheUserHeld
    <3>2. Held(k)' <=> Held(i)
      BY <1>1, <1>2, <1>5, <2>1 DEF InputInv, Named, Held, Composer, Accepted
    <3> QED  BY <1>1, <1>2, <2>1, <3>1, <3>2 DEF InputInv, Named, Accepted
  <2>2. CASE k # j
    <3>1. k # i /\ fate[k] = "pending" /\ source[k] = "composer"
      BY <1>3, <2>2
    <3>2. Held(k)' <=> Held(k)
      BY <1>5, <2>2, <3>1 DEF Held, Composer
    <3> QED  BY <1>1, <2>2, <3>1, <3>2 DEF InputInv, HoldsWhatTheUserHeld, PendingComposers, Pending, Composer
  <2> QED  BY <2>1, <2>2
<1>9. EditedInputRunsOnce'
  <2>1. lineage'[j] = lineage[i]
    BY <1>1, <1>2 DEF InputInv, Lineages
  <2> QED  BY <1>2, <1>3, <2>1 DEF InputInv, EditedInputRunsOnce
<1> QED  BY <1>4, <1>6, <1>7, <1>8, <1>9 DEF InputInv
(***************************************************************************)
(* The steps that only settle inputs, and those that change no fact.       *)
(***************************************************************************)
Consumes ==
    \/ \E i \in Inputs : Remove(i) \/ WithdrawRobot(i) \/ Steer(i)
    \/ ClearQueue \/ ClaimRoot

(* A consumer only ever takes a pending input. *)
LEMMA ConsumesSettles == InputInv /\ Consumes => Settles
<1> SUFFICES ASSUME InputInv, Consumes PROVE Settles
  OBVIOUS
<1>0. fate \in [Inputs -> Fates]
  BY DEF InputInv, Arrivals
<1>1. ASSUME NEW S \in SUBSET Pending, fate' = Cancelled(S),
             UNCHANGED <<accepted, source, queue, userHeld, lineage>>
      PROVE  Settles
  BY <1>0, <1>1 DEF Settles, Cancelled, Pending, Fates, Settled
<1>2. ASSUME NEW i \in Inputs, Remove(i) \/ WithdrawRobot(i) PROVE Settles
  <2>1. i \in Pending /\ fate' = Cancelled({i}) /\ UNCHANGED <<accepted, source, queue, userHeld, lineage>>
    BY <1>2 DEF Remove, WithdrawRobot, PendingComposers, history
  <2> QED  BY <1>1, <2>1
<1>3. CASE ClearQueue
  <2>1. fate' = Cancelled({i \in PendingComposers : Placement(i) = "queued"})
        /\ UNCHANGED <<accepted, source, queue, userHeld, lineage>>
    BY <1>3 DEF ClearQueue, history
  <2>2. {i \in PendingComposers : Placement(i) = "queued"} \in SUBSET Pending
    BY DEF PendingComposers
  <2> QED  BY <1>1, <2>1, <2>2
<1>4. ASSUME NEW i \in Inputs, Steer(i) PROVE Settles
  <2>1. fate[i] = "pending" /\ fate' = [fate EXCEPT ![i] = "steering"]
        /\ UNCHANGED <<accepted, source, queue, userHeld, lineage>>
    BY <1>4 DEF Steer, Steerable, Pending, history
  <2> QED  BY <1>0, <2>1 DEF Settles, Fates, Settled
<1>5. CASE ClaimRoot
  <2> DEFINE i == Head(drain.batch)
  <2>1. fate[i] = "pending" /\ fate' = [fate EXCEPT ![i] = "turn"]
        /\ UNCHANGED <<accepted, source, queue, userHeld, lineage>>
    BY <1>5 DEF ClaimRoot, Claimable, history
  <2> HIDE DEF i
  <2> QED  BY <1>0, <2>1 DEF Settles, Fates, Settled
<1> QED  BY <1>2, <1>3, <1>4, <1>5 DEF Consumes

Leaves ==
    \/ \E i \in Inputs : Replay(i) \/ SteerBlocked(i)
    \/ CancelTurn \/ ReadQueue \/ Reconcile \/ Restart
    \/ EndTurn \/ RelayReleases \/ TurnPauses \/ TurnResumes \/ EffectUncertain
    \/ DrainStart \/ DrainRetry \/ DrainSelect \/ PrepareFails \/ PrepareStopped
    \/ ClaimRefused \/ Delivered \/ DeliveryFails \/ StartFails \/ BatchEnds
    \/ DrainFails \/ DeliveryErrs

(* Replays, reads, the Turn and the drain up to its claim touch no fact. *)
LEMMA LeavesFacts == Leaves => UNCHANGED facts
BY DEF Leaves, facts, stored, history, Replay, SteerBlocked, CancelTurn, ReadQueue, Reconcile, Restart, EndTurn,
       RelayReleases, TurnPauses, TurnResumes, EffectUncertain, DrainStart, DrainRetry, DrainSelect, PrepareFails,
       PrepareStopped, ClaimRefused, Delivered, DeliveryFails, StartFails, BatchEnds, DrainFails, DeliveryErrs

(* Every step is of one of these kinds. *)
LEMMA Kinds ==
    ASSUME Next
    PROVE  \/ Consumes \/ Leaves
           \/ \E s \in Sources, t \in Turns : Accept(s, t)
           \/ \E i \in Inputs : Promote(i) \/ Replace(i) \/ StopInput(i)
           \/ \E o \in Orders(PendingComposers) : Reorder(o)
           \/ Pause \/ Resume \/ StopTurn \/ ClearContext
BY DEF Next, Commands, Controls, Runtime, Drain, Consumes, Leaves

(* The invariant holds of an empty queue, ... *)
LEMMA InputInit == Init => InputInv
<1> SUFFICES ASSUME Init PROVE InputInv
  OBVIOUS
<1>1. Arrivals
  BY InputAssumption DEF Init, Arrivals, Inputs, Fates
<1>2. Named
  BY DEF Init, Named, EmptyQueue, Accepted
<1>3. Lineages
  BY InputAssumption DEF Init, Lineages, Inputs
<1>4. HoldsWhatTheUserHeld /\ EditedInputRunsOnce
  BY DEF Init, HoldsWhatTheUserHeld, EditedInputRunsOnce, PendingComposers, Pending
<1> QED  BY <1>1, <1>2, <1>3, <1>4 DEF InputInv

(* ... and every step keeps it. *)
LEMMA InputStep == InputInv /\ [Next]_vars => InputInv'
<1> SUFFICES ASSUME InputInv, [Next]_vars PROVE InputInv'
  OBVIOUS
<1>1. CASE UNCHANGED vars
  BY <1>1, Unchanged DEF vars, stored, history, facts
<1>2. CASE Next
  BY <1>2, Kinds, ConsumesSettles, Settling, LeavesFacts, Unchanged, AcceptInv, PromoteInv, ReplaceInv,
     StopInputInv, ReorderInv, PauseInv, ResumeInv, StopTurnInv, ClearContextInv
<1> QED  BY <1>1, <1>2

(***************************************************************************)
(* The pending composer inputs the replay of the queue events holds back   *)
(* are exactly those the user holds, through any number of pauses, stops,  *)
(* edits, promotions, reorderings and restarts.                            *)
(***************************************************************************)
THEOREM HoldIsTheUsers == Spec => []HoldsWhatTheUserHeld
<1>1. InputInv => HoldsWhatTheUserHeld
  BY DEF InputInv
<1> QED  BY InputInit, InputStep, <1>1, PTL DEF Spec

(***************************************************************************)
(* Of an input and all its edits (Replace) at most one is ever waiting or  *)
(* consumed by a Turn.                                                     *)
(***************************************************************************)
THEOREM EditsRunOnce == Spec => []EditedInputRunsOnce
<1>1. InputInv => EditedInputRunsOnce
  BY DEF InputInv
<1> QED  BY InputInit, InputStep, <1>1, PTL DEF Spec

(***************************************************************************)
(* What the drain or a running Turn consumed, an owner cancelled or a      *)
(* context clear discarded stays so.                                       *)
(***************************************************************************)
THEOREM NoSecondConsumption == Spec => SettledIsFinal
<1>1. InputInv /\ [Next]_vars => [\A i \in Inputs : fate[i] \in Settled => fate'[i] = fate[i]]_vars
  <2> SUFFICES ASSUME InputInv, Next, NEW i \in Inputs, fate[i] \in Settled PROVE fate'[i] = fate[i]
    OBVIOUS
  <2>0. fate \in [Inputs -> Fates] /\ fate[i] # "pending" /\ fate[i] # "none" /\ i <= accepted
    BY DEF InputInv, Arrivals, Settled
  <2>1. CASE Consumes
    BY <2>0, <2>1, ConsumesSettles DEF Settles
  <2>2. CASE Leaves
    BY <2>2, LeavesFacts DEF facts
  <2>3. ASSUME NEW s \in Sources, NEW t \in Turns, Accept(s, t) PROVE fate'[i] = fate[i]
    <3>1. fate' = [fate EXCEPT ![accepted + 1] = "pending"] /\ accepted \in Nat /\ i \in Nat
      BY <2>3, InputAssumption DEF Accept, InputInv, Arrivals, Inputs
    <3> QED  BY <2>0, <3>1
  <2>4. ASSUME NEW k \in Inputs, Replace(k) PROVE fate'[i] = fate[i]
    <3>1. fate' = [Cancelled({k}) EXCEPT ![accepted + 1] = "pending"] /\ fate[k] = "pending"
          /\ accepted \in Nat /\ i \in Nat
      BY <2>4, InputAssumption DEF Replace, InputInv, Arrivals, Inputs, PendingComposers, Pending
    <3> QED  BY <2>0, <3>1 DEF Cancelled
  <2>5. ASSUME NEW k \in Inputs, StopInput(k) PROVE fate'[i] = fate[i]
    <3>1. fate' = Cancelled({k}) /\ fate[k] = "pending"
      BY <2>5 DEF StopInput, PendingComposers, Pending
    <3> QED  BY <2>0, <3>1 DEF Cancelled
  <2>6. CASE ClearContext
    <3>1. fate' = [k \in Inputs |-> IF k \in Pending THEN "discarded" ELSE fate[k]]
      BY <2>6 DEF ClearContext
    <3> QED  BY <2>0, <3>1 DEF Pending
  <2>7. ASSUME \/ \E k \in Inputs : Promote(k)
               \/ \E o \in Orders(PendingComposers) : Reorder(o)
               \/ Pause \/ Resume \/ StopTurn
        PROVE  fate'[i] = fate[i]
    BY <2>7 DEF Promote, Reorder, Pause, Resume, StopTurn
  <2> QED  BY Kinds, <2>1, <2>2, <2>3, <2>4, <2>5, <2>6, <2>7
<1> QED  BY InputInit, InputStep, <1>1, PTL DEF Spec, SettledIsFinal
=============================================================================

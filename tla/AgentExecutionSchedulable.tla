----------------------- MODULE AgentExecutionSchedulable -----------------------
(***************************************************************************)
(* The scheduling loop never comes to rest with open Steps and neither     *)
(* work to do nor a question to wait for.  Recovery leaves no Attempt      *)
(* behind that nobody drives, and a plan without cycles always has a Step  *)
(* whose blockers are settled.                                             *)
(***************************************************************************)
EXTENDS AgentExecutionProofs

(***************************************************************************)
(* A loop that comes to dispatch with no job under way has left no running *)
(* Attempt behind, but for those whose answer is still to be delivered.    *)
(***************************************************************************)
Adrift(a) == a.status = "running" /\ ~a.answered
NoneAdrift == \A s \in Steps : \A k \in 1..Last(s) : ~Adrift(att[s][k])
NoneLost == loop.phase = "dispatch" /\ loop.seen = {} => NoneAdrift

\* Rewriting the newest Attempt of one Step sets none adrift if that one is not.
LEMMA RewrittenAdrift ==
    ASSUME StepInv, NEW t \in Steps, Last(t) # 0, NEW x \in AttemptType, att' = [att EXCEPT ![t][Last(t)] = x],
           NoneAdrift, ~Adrift(x)
    PROVE  NoneAdrift'
<1>0. att \in [Steps -> Seq(AttemptType)]
  BY DEF StepInv, Shapes
<1>1. ASSUME NEW s \in Steps, NEW k \in 1..Len(att'[s]) PROVE ~Adrift(att'[s][k])
  <2>1. CASE s = t
    <3>1. att'[s] = [att[s] EXCEPT ![Last(s)] = x] /\ att[s] \in Seq(AttemptType) /\ Last(s) \in 1..Last(s)
      BY <1>0, <2>1, Newest
    <3>2. k \in 1..Len(att[s]) /\ att'[s][k] = IF k = Last(s) THEN x ELSE att[s][k]
      BY <3>1, PutAt DEF Last
    <3> QED
      BY <3>2 DEF NoneAdrift, Last
  <2>2. CASE s # t
    <3>1. att'[s] = att[s]
      BY <1>0, <2>2
    <3> QED
      BY <3>1 DEF NoneAdrift, Last
  <2> QED
    BY <2>1, <2>2
<1> QED
  BY <1>1 DEF NoneAdrift, Last

\* Cancelling sets none adrift.
LEMMA ShedAdrift ==
    ASSUME StepInv, NoneAdrift, Sheds PROVE NoneAdrift'
<1>0. att \in [Steps -> Seq(AttemptType)]
  BY DEF StepInv, Shapes
<1>1. PICK W \in [Steps -> SUBSET ActiveAttempt] : att' = [s \in Steps |-> RevokedAll(att[s], W[s])]
  BY DEF Sheds
<1>2. ASSUME NEW s \in Steps, NEW k \in 1..Len(att'[s]) PROVE ~Adrift(att'[s][k])
  <2>1. att'[s] = RevokedAll(att[s], W[s]) /\ att[s] \in Seq(AttemptType)
    BY <1>0, <1>1
  <2>2. k \in 1..Len(att[s]) /\ att'[s][k] = Revoked(att[s][k], W[s])
    <3>1. RevokedAll(att[s], W[s]) \in [1..Len(att[s]) -> {Revoked(att[s][i], W[s]) : i \in 1..Len(att[s])}]
      BY DEF RevokedAll
    <3>2. Len(RevokedAll(att[s], W[s])) = Len(att[s]) /\ Len(att[s]) \in Nat
      BY <2>1, <3>1, Tabled
    <3> QED
      BY <2>1, <3>2 DEF RevokedAll
  <2>3. att[s][k] \in AttemptType /\ ~Adrift(att[s][k])
    BY <2>1, <2>2 DEF NoneAdrift, Last
  <2> QED
    BY <2>2, <2>3 DEF Revoked, AttemptType, Adrift
<1> QED
  BY <1>2 DEF NoneAdrift, Last

\* While the loop dispatches and no job is under way, only the user and the Session touch Attempts.
LEMMA StillAdrift ==
    ASSUME StepInv, Next, NoneAdrift, loop.phase = "dispatch", \A s \in Steps : job[s].phase = "none"
    PROVE  NoneAdrift'
<1>1. CASE att' = att
  BY <1>1 DEF NoneAdrift, Last
<1>2. ASSUME NEW s \in Steps PROVE ~(JobAdvances(s) \/ JobAsks(s) \/ JobFault(s))
  BY JobFrame
<1>3. CASE Session
  <2>1. PICK s \in Steps : \E k \in 1..Last(s) :
              \E from \in SUBSET Unresolved, to \in Unresolved \cup Closed : Turn(s, k, from, to)
    BY <1>3, SessionTurns
  <2>2. PICK k \in 1..Last(s) : \E from \in SUBSET Unresolved, to \in Unresolved \cup Closed : Turn(s, k, from, to)
    BY <2>1
  <2>3. PICK from \in SUBSET Unresolved, to \in Unresolved \cup Closed : Turn(s, k, from, to)
    BY <2>2
  <2> DEFINE a == att[s][k]
             x == [a EXCEPT !.turn = to]
  <2>4. a \in AttemptType /\ a.turn \in Unresolved /\ att' = [att EXCEPT ![s][k] = x]
    BY <2>3, Newest DEF Turn
  <2>5. k = Last(s) /\ Last(s) # 0
    BY <2>4, Newest DEF Old
  <2>6. x \in AttemptType /\ x.status = a.status /\ x.answered = a.answered
    BY <2>4 DEF AttemptType
  <2>7. ~Adrift(a)
    BY DEF NoneAdrift
  <2> HIDE DEF x
  <2> QED
    BY <2>4, <2>5, <2>6, <2>7, RewrittenAdrift DEF Adrift
<1>4. CASE UserCommand
  <2>1. ASSUME NEW s \in Steps, CancelStep(s) PROVE NoneAdrift'
    <3>1. CancelAttempts({s}) /\ {s} \in SUBSET Steps
      BY <2>1 DEF CancelStep, CancelSteps
    <3> QED
      BY <3>1, EffectCancel, ShedAdrift
  <2>2. CASE Cancel
    <3>1. CancelAttempts(Steps) /\ Steps \in SUBSET Steps
      BY <2>2 DEF Cancel, CancelSteps
    <3> QED
      BY <3>1, EffectCancel, ShedAdrift
  <2>3. CASE Pause
    BY <2>3, EffectPause, ShedAdrift
  <2>4. ASSUME NEW t \in Steps, Answer(t) PROVE NoneAdrift'
    <3> DEFINE v == IF Capacity({<<t, Last(t)>>}) THEN "running" ELSE "waiting"
               x == [status |-> v, review |-> FALSE, answered |-> TRUE, turn |-> "absent"]
    <3>1. Last(t) # 0 /\ att' = [att EXCEPT ![t][Last(t)] = x] /\ v \in {"running", "waiting"}
      BY <2>4 DEF Answer
    <3> HIDE DEF v
    <3>2. x \in AttemptType /\ ~Adrift(x)
      BY <3>1 DEF AttemptType, Statuses, ActiveAttempt, Adrift
    <3> HIDE DEF x
    <3> QED
      BY <3>1, <3>2, RewrittenAdrift
  <2>5. Resume \/ (\E s \in Steps : Retry(s)) => att' = att
    BY DEF Resume, Retry
  <2> QED
    BY <1>1, <1>4, <2>1, <2>2, <2>3, <2>4, <2>5 DEF UserCommand
<1>7. CASE FailIfActive
  <2>1. att' = att \/ (CancelAttempts(Steps) /\ Steps \in SUBSET Steps)
    BY <1>7, FailWrites DEF CancelSteps
  <2> QED
    BY <1>1, <2>1, EffectCancel, ShedAdrift
<1>5. LoopStep /\ ~FailIfActive => att' = att
  BY DEF LoopStep, Acquire, Depart, RecoverDone, AwaitJobs, Finalize, IdleExit, LoopAborts,
     DeliverDecision, SkipBlocked, DispatchSome, Dispatch, AdmitDecision, RecoverAttempt, Passing, durable
<1>6. LoopFails \/ Heartbeat \/ LeaseLapses \/ OldLeaseLapses \/ Crash \/ Boot => att' = att
  BY DEF LoopFails, Heartbeat, LeaseLapses, OldLeaseLapses, Crash, Boot, durable
<1> QED
  BY <1>1, <1>2, <1>3, <1>4, <1>5, <1>6, <1>7 DEF Next

\* No Attempt is left adrift when the loop finds no job under way.
LEMMA NoneLostNext ==
    ASSUME StepInv, RestType, SeenAll, NoneLost, Next PROVE NoneLost'
<1>0. loop \in LoopType /\ LoopEffect
  BY LoopEffectNext DEF RestType
<1> SUFFICES ASSUME loop'.phase = "dispatch", loop'.seen = {} PROVE NoneAdrift'
  BY DEF NoneLost
<1>1. CASE loop' \in {loop, Started(loop)}
  <2>1. loop.phase = "dispatch" /\ loop.seen = {} /\ Running
    BY <1>0, <1>1, LoopMoves DEF Running
  <2>2. \A s \in Steps : job[s].phase = "none"
    BY <2>1 DEF SeenAll, InFlight
  <2> QED
    BY <2>1, <2>2, StillAdrift DEF NoneLost
<1>2. CASE loop' = Pass
  BY <1>0, <1>2, LoopMoves
<1>3. ASSUME NEW s \in Steps, loop' \in {Retaining(s), [Retaining(s) EXCEPT !.phase = "dispatch"]}
      PROVE  FALSE
  <2>1. loop'.seen = loop.seen \cup {s}
    BY <1>0, <1>3 DEF Retaining, LoopType
  <2> QED
    BY <2>1
<1>4. CASE loop.phase = "recover" /\ RecoverDone
  <2>1. /\ Running /\ loop.seen = {} /\ att' = att
        /\ \A s \in Steps : Interrupted(s) = {}
    BY <1>0, <1>4, LoopMoves DEF Running, RecoverDone, durable
  <2>2. \A s \in Steps : job[s].phase = "none"
    BY <2>1 DEF SeenAll, InFlight
  <2>3. NoneAdrift
    BY <2>1, <2>2 DEF NoneAdrift, Adrift, Interrupted, Recovers, Unseen
  <2> QED
    BY <2>1, <2>3 DEF NoneAdrift, Last
<1> QED
  BY <1>0, <1>1, <1>2, <1>3, <1>4 DEF LoopEffect

-----------------------------------------------------------------------------
\* A loop at rest that nobody is asked anything by has no active Attempt.
LEMMA NothingActive ==
    ASSUME StepInv, NoneLeft, NoneLost, Idle, ~AnyWaiting(att), NEW s \in Steps
    PROVE  ~HasActive(s) /\ step[s] \notin {"running", "waiting"}
<1>1. /\ loop.phase = "dispatch" /\ loop.seen = {} /\ exec \in Dispatchable /\ ~Delivers(s)
  BY DEF Idle, Dispatching
<1>2. NoneQueued /\ NoneAdrift
  BY <1>1 DEF NoneLeft, NoneLost
<1>3. ASSUME NEW k \in 1..Last(s) PROVE att[s][k].status \notin ActiveAttempt
  <2>1. att[s][k].status \notin {"queued", "waiting"}
    BY <1>2 DEF NoneQueued, AnyWaiting, Last
  <2>2. att[s][k].status # "running"
    <3>1. SUFFICES ASSUME att[s][k].status = "running" PROVE FALSE
      OBVIOUS
    <3>2. k = Last(s) /\ Last(s) # 0 /\ att[s][k].answered /\ att[s][k] \in AttemptType
      BY <1>2, <3>1, Newest DEF Old, NoneAdrift, Adrift
    <3>3. exec # "paused" /\ Unseen(s)
      BY <1>1 DEF Dispatchable, Unseen
    <3> QED
      BY <1>1, <3>1, <3>2, <3>3 DEF Delivers, Decided, Current
  <2> QED
    BY <2>1, <2>2 DEF ActiveAttempt
<1>4. ~HasActive(s)
  BY <1>3 DEF HasActive
<1>5. step[s] \notin {"running", "waiting"}
  BY <1>4, Newest, Inactive DEF Entry
<1> QED
  BY <1>4, <1>5

\* An open plan without cycles has a pending Step none of whose blockers is pending.
LEMMA FirstPending ==
    ASSUME NEW t \in Steps, step[t] = "pending"
    PROVE  \E s \in Steps : step[s] = "pending" /\ \A b \in Blockers(s) : step[b] # "pending"
<1> DEFINE S == {s \in Steps : step[s] = "pending"}
<1>1. S # {} /\ S \in SUBSET Steps
  OBVIOUS
<1>2. \E s \in S : \A b \in S : <<b, s>> \notin Deps
  BY <1>1, PlanAssumption DEF ValidDependencyGraph
<1> QED
  BY <1>2 DEF Blockers

\* What a loop at rest is waiting for.
LEMMA IdleWaits ==
    ASSUME StepInv, NoneLeft, NoneLost PROVE AlwaysSchedulable
<1> SUFFICES ASSUME Idle, ~AnyWaiting(att) PROVE FALSE
  BY DEF AlwaysSchedulable
<1>1. /\ loop.seen = {} /\ ~AllEnded /\ NoneBlocked /\ {} \in Selections({})
      /\ \A s \in Steps : ~Deferred(s)
  BY DEF Idle, Rests
<1>2. \A s \in Steps : ~HasActive(s) /\ step[s] \notin {"running", "waiting"} /\ step[s] \in StepStatus
  BY NothingActive, Newest
<1>3. PICK t \in Steps : step[t] \notin StepEnded
  BY <1>1 DEF AllEnded
<1>4. step[t] = "pending"
  BY <1>2, <1>3 DEF StepStatus
<1>5. PICK s \in Steps : step[s] = "pending" /\ \A b \in Blockers(s) : step[b] # "pending"
  BY <1>4, FirstPending
<1>6. ASSUME NEW b \in Blockers(s) PROVE step[b] = "completed"
  <2>1. b \in Steps
    BY DEF Blockers
  <2>2. step[b] \notin {"failed", "skipped", "cancelled"}
    BY <1>1, <1>5 DEF NoneBlocked, Blocked
  <2> QED
    BY <1>2, <1>5, <2>1, <2>2 DEF StepStatus, StepEnded
<1>7. s \in Ready({})
  BY <1>1, <1>5, <1>6 DEF Ready, Unseen, Deferred
<1>8. Occupied = {}
  BY <1>1, <1>2 DEF Occupied
<1>9. Cardinality({}) = 0 /\ MaxParallel \in Nat /\ MaxParallel # 0
  BY FS_EmptySet, ExecutionAssumption
<1>10. IsFiniteSet(Ready({})) /\ Cardinality(Ready({})) \in Nat /\ Cardinality(Ready({})) # 0
  <2>1. IsFiniteSet(Ready({}))
    BY FS_Subset, ExecutionAssumption DEF Ready
  <2> QED
    BY <1>7, <2>1, FS_CardinalityType, FS_EmptySet
<1> QED
  BY <1>1, <1>8, <1>9, <1>10 DEF Selections

(***************************************************************************)
(* For every plan without cycles, whatever its user does and whatever      *)
(* faults its process has: the scheduler never finds open Steps with       *)
(* nothing to do and nobody to wait for (fail_unschedulable_snapshot is    *)
(* never reached).                                                         *)
(***************************************************************************)
THEOREM Schedulable ==
    Spec => []AlwaysSchedulable
<1>1. Init => SeenAll /\ NoneLeft /\ NoneLost
  BY DEF Init, SeenAll, NoneLeft, NoneLost, Running
<1>2. StepInv /\ RestType /\ SeenAll /\ NoneLeft /\ NoneLost /\ [Next]_vars => SeenAll' /\ NoneLeft' /\ NoneLost'
  <2> SUFFICES ASSUME StepInv, RestType, SeenAll, NoneLeft, NoneLost, [Next]_vars
               PROVE  SeenAll' /\ NoneLeft' /\ NoneLost'
    OBVIOUS
  <2>1. CASE Next
    BY <2>1, SeenNext, NoneLeftNext, NoneLostNext
  <2>2. CASE UNCHANGED vars
    BY <2>2 DEF vars, SeenAll, NoneLeft, NoneLost, NoneQueued, NoneAdrift, Running, InFlight, Last
  <2> QED
    BY <2>1, <2>2
<1>3. StepInv /\ NoneLeft /\ NoneLost => AlwaysSchedulable
  BY IdleWaits
<1> QED
  BY <1>1, <1>2, <1>3, StepInit, StepNext, TypeInit, TypeNext, PTL DEF Spec
=============================================================================

----------------------- MODULE AgentExecutionRefinement -----------------------
(***************************************************************************)
(* The scheduler implements TaskExecution: every step of the detailed      *)
(* specification is one of the promised steps, or none.                    *)
(***************************************************************************)
EXTENDS AgentExecutionProofs

(***************************************************************************)
(* What TaskExecution sees of one Step with status w, Attempts A and job   *)
(* j.                                                                      *)
(***************************************************************************)
Standing(A, j) ==
    \/ j.phase # "none" /\ j.att \in {0, Len(A)}
    \/ Len(A) # 0 /\ A[Len(A)].status \in ActiveAttempt
Chosen(w, A, j) == w \in {"pending", "skipped"} /\ Standing(A, j)
AtWork(A) == Len(A) # 0 /\ A[Len(A)].turn \in Unresolved
TurnsOf(A) == Cardinality({k \in 1..Len(A) : A[k].turn \in Unresolved})
AbsWork == [s \in Steps |-> WorkOf[step[s]]]
AbsTurns == [s \in Steps |-> Turns(s)]

\* A Step's Turns are the one of its newest Attempt, if it is at work.
LEMMA TurnCount ==
    ASSUME NEW w, NEW A \in Seq(AttemptType), Ledger(w, A)
    PROVE  TurnsOf(A) = IF AtWork(A) THEN 1 ELSE 0
<1> DEFINE K == {k \in 1..Len(A) : A[k].turn \in Unresolved}
<1>1. \A k \in K : k = Len(A) /\ Len(A) # 0
  BY DEF Ledger, Old
<1>2. CASE AtWork(A)
  <2>1. K = {Len(A)}
    BY <1>1, <1>2 DEF AtWork
  <2> QED
    BY <1>2, <2>1, FS_Singleton DEF TurnsOf
<1>3. CASE ~AtWork(A)
  <2>1. K = {}
    BY <1>1, <1>3 DEF AtWork
  <2> QED
    BY <1>3, <2>1, FS_EmptySet DEF TurnsOf
<1> QED
  BY <1>2, <1>3

\* The same, for every Step before and after a step of the program.
LEMMA TurnsAre ==
    ASSUME StepInv, StepInv', NEW s \in Steps
    PROVE  /\ Turns(s) = (IF AtWork(att[s]) THEN 1 ELSE 0)
           /\ Turns(s)' = (IF AtWork(att'[s]) THEN 1 ELSE 0)
<1>1. Turns(s) = TurnsOf(att[s]) /\ Turns(s)' = TurnsOf(att'[s])
  BY DEF Turns, TurnsOf, Last
<1>2. att[s] \in Seq(AttemptType) /\ Ledger(step[s], att[s])
  BY DEF StepInv, Shapes, Local
<1>3. att'[s] \in Seq(AttemptType) /\ Ledger(step'[s], att'[s])
  BY DEF StepInv, Shapes, Local
<1> QED
  BY <1>1, <1>2, <1>3, TurnCount

\* Membership of Picked.
LEMMA PickedAre ==
    /\ Picked = {s \in Steps : Chosen(step[s], att[s], job[s])}
    /\ Picked' = {s \in Steps : Chosen(step'[s], att'[s], job'[s])}
BY DEF Picked, Stands, Chosen, Standing, Last, Current

\* The mode of an Execution.
LEMMA ModeIs ==
    /\ exec \in Dispatchable => Mode = "open"
    /\ exec = "paused" => Mode = "held"
    /\ exec \in Admissible => Mode \in {"open", "held"}
    /\ exec = "cancelled" => Mode = "cancelled"
    /\ exec \in {"completed", "completed_with_failures", "failed"} => Mode = "over"
BY DEF Mode, Dispatchable, Admissible, Ended

\* The work of a Step.
LEMMA WorkIs ==
    /\ WorkOf["pending"] = "todo" /\ WorkOf["running"] = "working" /\ WorkOf["waiting"] = "asking"
    /\ WorkOf["completed"] = "done" /\ WorkOf["failed"] = "failed" /\ WorkOf["skipped"] = "dropped"
    /\ WorkOf["cancelled"] = "stopped"
BY DEF WorkOf

-----------------------------------------------------------------------------
(***************************************************************************)
(* Steps that rewrite one Step of the plan.                                *)
(***************************************************************************)
OnlyAt(s) == \A t \in Steps \ {s} : step'[t] = step[t] /\ att'[t] = att[t] /\ job'[t] = job[t]

\* What is seen of a rewritten Step, and of the others.
LEMMA OneView ==
    ASSUME StepInv, StepInv', NEW s \in Steps, OnlyAt(s)
    PROVE  /\ AbsWork' = [AbsWork EXCEPT ![s] = WorkOf[step'[s]]]
           /\ AbsWork[s] = WorkOf[step[s]]
           /\ AbsTurns[s] = (IF AtWork(att[s]) THEN 1 ELSE 0)
           /\ (AtWork(att'[s]) <=> AtWork(att[s])) => AbsTurns' = AbsTurns
           /\ AbsTurns' = [AbsTurns EXCEPT ![s] = IF AtWork(att'[s]) THEN 1 ELSE 0]
           /\ step'[s] \notin {"pending", "skipped"} => Picked' \subseteq Picked \ {s}
           /\ (Chosen(step'[s], att'[s], job'[s]) => Chosen(step[s], att[s], job[s])) => Picked' \subseteq Picked
           /\ (Chosen(step'[s], att'[s], job'[s]) <=> Chosen(step[s], att[s], job[s])) => Picked' = Picked
           /\ s \in Picked <=> Chosen(step[s], att[s], job[s])
<1>1. AbsWork' = [t \in Steps |-> WorkOf[step'[t]]]
  BY DEF AbsWork
<1>2. AbsWork' = [AbsWork EXCEPT ![s] = WorkOf[step'[s]]] /\ AbsWork[s] = WorkOf[step[s]]
  BY <1>1 DEF AbsWork, OnlyAt
<1>3. /\ \A t \in Steps : AbsTurns[t] = Turns(t) /\ AbsTurns'[t] = Turns(t)'
      /\ AbsTurns' = [t \in Steps |-> Turns(t)']
      /\ AbsTurns = [t \in Steps |-> Turns(t)]
  BY DEF AbsTurns
<1>4. \A t \in Steps : /\ Turns(t) = (IF AtWork(att[t]) THEN 1 ELSE 0)
                       /\ Turns(t)' = (IF AtWork(att'[t]) THEN 1 ELSE 0)
  BY TurnsAre
<1>5. \A t \in Steps \ {s} : Turns(t)' = Turns(t)
  BY <1>4 DEF OnlyAt
<1>6. AbsTurns' = [AbsTurns EXCEPT ![s] = IF AtWork(att'[s]) THEN 1 ELSE 0]
  BY <1>3, <1>4, <1>5
<1>7. (AtWork(att'[s]) <=> AtWork(att[s])) => AbsTurns' = AbsTurns
  BY <1>3, <1>4, <1>5
<1>8. AbsTurns[s] = (IF AtWork(att[s]) THEN 1 ELSE 0)
  BY <1>3, <1>4
<1>9. \A t \in Steps \ {s} : Chosen(step'[t], att'[t], job'[t]) <=> Chosen(step[t], att[t], job[t])
  BY DEF OnlyAt
<1>10. step'[s] \notin {"pending", "skipped"} => ~Chosen(step'[s], att'[s], job'[s])
  BY DEF Chosen
<1>11. /\ step'[s] \notin {"pending", "skipped"} => Picked' \subseteq Picked \ {s}
       /\ (Chosen(step'[s], att'[s], job'[s]) => Chosen(step[s], att[s], job[s])) => Picked' \subseteq Picked
       /\ (Chosen(step'[s], att'[s], job'[s]) <=> Chosen(step[s], att[s], job[s])) => Picked' = Picked
       /\ s \in Picked <=> Chosen(step[s], att[s], job[s])
  BY <1>9, <1>10, PickedAre
<1> QED
  BY <1>2, <1>6, <1>7, <1>8, <1>11

\* Jobs come and go, and no Step is picked by it.
LEMMA RefUnpick ==
    ASSUME StepInv, StepInv', UNCHANGED <<exec, step, att>>,
           \A t \in Steps : Standing(att[t], job'[t]) => Standing(att[t], job[t])
    PROVE  Tasks!Unpick
<1>1. Mode' = Mode /\ AbsWork' = AbsWork /\ AbsTurns' = AbsTurns
  BY DEF Mode, AbsWork, AbsTurns, Turns, Last
<1>2. Picked' \subseteq Picked
  BY PickedAre DEF Chosen
<1> QED
  BY <1>1, <1>2 DEF Tasks!Unpick, AbsWork, AbsTurns

\* A job that ends, keeps its Attempt, or is made for an active one picks nothing.
LEMMA RefOneJob ==
    ASSUME StepInv, StepInv', NEW s \in Steps, UNCHANGED <<exec, step, att>>,
           \A t \in Steps \ {s} : job'[t] = job[t],
           \/ job'[s].phase = "none"
           \/ job[s].phase # "none" /\ job'[s].att = job[s].att
           \/ Last(s) # 0 /\ (Current(s).status \in ActiveAttempt \/ job'[s].att \notin {0, Last(s)})
    PROVE  Tasks!Unpick
<1>1. Standing(att[s], job'[s]) => Standing(att[s], job[s])
  BY DEF Standing, Last, Current
<1> QED
  BY <1>1, RefUnpick

\* The jobs that touch neither their Step nor its Attempts.
LEMMA RefJobOnly ==
    ASSUME StepInv, StepInv', NEW s \in Steps, JobAdvances(s) \/ JobAsks(s) \/ JobFault(s),
           UNCHANGED <<exec, step, att>>, ~RecoverReceipt(s)
    PROVE  Tasks!Unpick
<1>0. job \in [Steps -> JobType] /\ job[s].phase # "none" /\ \A t \in Steps \ {s} : job'[t] = job[t]
  BY JobFrame DEF StepInv, Shapes
<1>1. CASE EndJob(s)
  <2>1. job'[s].phase = "none"
    BY <1>0, <1>1, FreshJob DEF EndJob
  <2> QED
    BY <1>0, <2>1, RefOneJob
<1>2. CASE ToRecovery(s) \/ \E o : WithOutcome(s, o)
  <2>1. job'[s].att = job[s].att
    BY <1>0, <1>2 DEF ToRecovery, WithOutcome, JobType
  <2> QED
    BY <1>0, <2>1, RefOneJob
<1>3. CASE (\E ph : job' = [job EXCEPT ![s].phase = ph]) \/ job' = job
  <2>1. job'[s].att = job[s].att
    BY <1>0, <1>3 DEF JobType
  <2> QED
    BY <1>0, <2>1, RefOneJob
<1>4. CASE PrepareFails(s)
  <2>1. job'[s].att = job[s].att
    BY <1>0, <1>4 DEF PrepareFails, JobType
  <2> QED
    BY <1>0, <2>1, RefOneJob
<1>5. CASE RecoverAdopts(s) \/ RecoverResumes(s)
  <2>1. Last(s) # 0 /\ Current(s).status \in ActiveAttempt
    BY <1>5 DEF RecoverAdopts, RecoverResumes, Reserves, Owns, ActiveAttempt
  <2> QED
    BY <1>0, <2>1, RefOneJob
<1>6. ~CreateAttempt(s)
  <2>1. SUFFICES ASSUME CreateAttempt(s) PROVE FALSE
    OBVIOUS
  <2>2. att'[s] = Append(att[s], Reserved) /\ att[s] \in Seq(AttemptType)
    BY <2>1 DEF CreateAttempt, StepInv, Shapes
  <2>3. Len(att'[s]) = Len(att[s]) + 1 /\ Len(att[s]) \in Nat
    BY <2>2
  <2> QED
    BY <2>3
<1>7. ASSUME JobAdvances(s)
      PROVE  \/ EndJob(s) \/ ToRecovery(s) \/ (\E o : WithOutcome(s, o)) \/ (\E ph : job' = [job EXCEPT ![s].phase = ph])
             \/ RecoverAdopts(s) \/ RecoverResumes(s)
  BY <1>6, <1>7 DEF JobAdvances, Prepare, Admit, AdmitRefused, Begin, Deliver, Observe, SettleEnds,
     SettleStale, Settle, SettleSuspended, RecoverGivesUp, RecoverFailsStep
<1>8. ASSUME JobFault(s)
      PROVE  PrepareFails(s) \/ \E o : WithOutcome(s, o)
  BY <1>6, <1>8 DEF JobFault, AdmitReplyLost, LinkFails, Deadline
<1>9. ASSUME JobAsks(s) PROVE job' = job
  BY <1>9 DEF JobAsks, SettleUnarmed, RecoverUnarmed
<1> QED
  BY <1>1, <1>2, <1>3, <1>4, <1>5, <1>7, <1>8, <1>9

\* create_attempt is not seen: the Step was picked before it.
LEMMA RefAdmit ==
    ASSUME StepInv, StepInv', NEW s \in Steps, Admit(s) \/ AdmitReplyLost(s)
    PROVE  Tasks!Unpick
<1>1. /\ CreateAttempt(s) /\ exec' = exec /\ step' = step /\ step[s] = "pending" /\ job[s].phase = "admit"
      /\ att' = [att EXCEPT ![s] = Append(att[s], Reserved)]
  BY DEF Admit, AdmitReplyLost, CreateAttempt, MayReserve
<1>2. \A t \in Steps \ {s} : job'[t] = job[t]
  BY JobFrame DEF JobAdvances, JobFault, Admit, AdmitReplyLost, StepInv, Shapes, Bound
<1>3. OnlyAt(s)
  BY <1>1, <1>2 DEF OnlyAt, StepInv, Shapes
<1>4. Chosen(step[s], att[s], job[s])
  BY <1>1, Newest DEF Chosen, Standing
<1>5. ~AtWork(att[s]) /\ ~AtWork(att'[s])
  <2>1. att[s] \in Seq(AttemptType) /\ att'[s] = Append(att[s], Reserved)
    BY <1>1, Newest DEF StepInv, Shapes
  <2>2. ~AtWork(att[s])
    BY <1>1, Newest DEF AtWork, Entry, Last, Current
  <2>3. Len(att'[s]) = Len(att[s]) + 1 /\ att'[s][Len(att[s]) + 1] = Reserved
    <3>1. Reserved \in AttemptType
      BY DEF Reserved, AttemptType, Statuses, ActiveAttempt
    <3> QED
      BY <2>1, <3>1, Grown
  <2> QED
    BY <2>2, <2>3 DEF AtWork, Reserved, Unresolved
<1>6. Mode' = Mode /\ AbsWork' = AbsWork
  BY <1>1 DEF Mode, AbsWork
<1>7. AbsTurns' = AbsTurns /\ Picked' \subseteq Picked
  BY <1>3, <1>4, <1>5, OneView
<1> QED
  BY <1>6, <1>7 DEF Tasks!Unpick, AbsWork, AbsTurns

\* start_attempt is Start.
LEMMA RefBegin ==
    ASSUME StepInv, StepInv', NEW s \in Steps, Up, Begin(s), ~UNCHANGED <<step, att>>
    PROVE  Tasks!Start(s)
<1> DEFINE k == job[s].att
           x == [att[s][k] EXCEPT !.status = "running"]
<1>1. /\ exec \in Dispatchable /\ exec' = exec /\ step[s] = "pending" /\ ~job[s].stale /\ att[s][k].status = "queued"
      /\ Record(s, k, x, "running") /\ job[s].phase \in Carries
  BY DEF Begin, Carries
<1>2. k = Last(s) /\ k \in 1..Last(s) /\ Current(s) \in AttemptType /\ Entry(step[s], Current(s))
  BY <1>1, Newest DEF Backs, Last
<1>3. step' = [step EXCEPT ![s] = "running"] /\ att' = [att EXCEPT ![s] = [att[s] EXCEPT ![Last(s)] = x]]
  BY <1>1, <1>2 DEF Record
<1>4. x \in AttemptType /\ x.turn = "absent" /\ Current(s).turn = "absent"
  BY <1>1, <1>2 DEF AttemptType, Statuses, ActiveAttempt, Entry, Truthful, Reserved, Current
<1> HIDE DEF x
<1>5. JobAdvances(s)
  BY DEF JobAdvances
<1>6. OnlyAt(s)
  BY <1>3, <1>5, JobFrame DEF OnlyAt, StepInv, Shapes
<1>7. /\ step'[s] = "running" /\ ~AtWork(att[s]) /\ ~AtWork(att'[s]) /\ Chosen(step[s], att[s], job[s])
  <2>1. att'[s] = [att[s] EXCEPT ![Last(s)] = x] /\ step'[s] = "running" /\ att[s] \in Seq(AttemptType)
    BY <1>3 DEF StepInv, Shapes
  <2>2. Len(att'[s]) = Len(att[s]) /\ att'[s][Len(att[s])] = x
    BY <1>2, <1>4, <2>1, PutAt DEF Last
  <2> QED
    BY <1>1, <1>2, <1>4, <2>1, <2>2 DEF AtWork, Unresolved, Chosen, Standing, Last, Current, ActiveAttempt
<1>8. /\ AbsWork' = [AbsWork EXCEPT ![s] = "working"] /\ AbsWork[s] = "todo"
      /\ AbsTurns[s] = 0 /\ AbsTurns' = AbsTurns /\ Picked' \subseteq Picked \ {s} /\ s \in Picked
  BY <1>1, <1>6, <1>7, OneView, WorkIs
<1>9. Mode = "open" /\ Mode' = Mode
  BY <1>1, ModeIs DEF Mode
<1> QED
  BY <1>8, <1>9 DEF Tasks!Start, Tasks!Becomes, AbsWork, AbsTurns

-----------------------------------------------------------------------------
(***************************************************************************)
(* Steps that rewrite the newest Attempt of a Step with the Step.          *)
(***************************************************************************)
Working(a) == a.turn \in Unresolved

\* What is seen of one that neither starts nor ends a Turn.
LEMMA Written ==
    ASSUME StepInv, StepInv', NEW s \in Steps, Last(s) # 0, NEW x \in AttemptType, NEW v \in StepStatus,
           Record(s, Last(s), x, v), \A t \in Steps \ {s} : job'[t] = job[t],
           Working(x) <=> Working(Current(s))
    PROVE  /\ AbsWork' = [AbsWork EXCEPT ![s] = WorkOf[v]] /\ AbsWork[s] = WorkOf[step[s]]
           /\ AbsTurns' = AbsTurns /\ AbsTurns[s] = (IF Working(x) THEN 1 ELSE 0)
           /\ v \notin {"pending", "skipped"} => Picked' \subseteq Picked \ {s}
           /\ job'[s].phase = "none" /\ x.status \notin ActiveAttempt => Picked' \subseteq Picked \ {s}
           /\ Current(s).status \in ActiveAttempt /\ step[s] = "pending" => s \in Picked
<1>1. att[s] \in Seq(AttemptType) /\ Last(s) \in 1..Last(s) /\ step \in [Steps -> StepStatus] /\ att \in [Steps -> Seq(AttemptType)]
  BY Newest DEF StepInv, Shapes
<1>2. step'[s] = v /\ att'[s] = [att[s] EXCEPT ![Last(s)] = x] /\ OnlyAt(s)
  BY <1>1 DEF Record, OnlyAt
<1>3. Len(att'[s]) = Last(s) /\ att'[s][Last(s)] = x
  BY <1>1, <1>2, PutAt DEF Last
<1>4. (AtWork(att'[s]) <=> Working(x)) /\ (AtWork(att[s]) <=> Working(x))
  BY <1>3 DEF AtWork, Working, Last, Current
<1>5. /\ AbsWork' = [AbsWork EXCEPT ![s] = WorkOf[v]] /\ AbsWork[s] = WorkOf[step[s]]
      /\ AbsTurns' = AbsTurns /\ AbsTurns[s] = (IF Working(x) THEN 1 ELSE 0)
      /\ v \notin {"pending", "skipped"} => Picked' \subseteq Picked \ {s}
  BY <1>2, <1>4, OneView
<1>6. job'[s].phase = "none" /\ x.status \notin ActiveAttempt => Picked' \subseteq Picked \ {s}
  <2>1. SUFFICES ASSUME job'[s].phase = "none", x.status \notin ActiveAttempt PROVE Picked' \subseteq Picked \ {s}
    OBVIOUS
  <2>2. ~Chosen(step'[s], att'[s], job'[s])
    BY <1>3, <2>1 DEF Chosen, Standing
  <2>3. Picked' \subseteq Picked
    BY <1>2, <2>2, OneView
  <2> QED
    BY <2>2, <2>3, PickedAre
<1>7. Current(s).status \in ActiveAttempt /\ step[s] = "pending" => s \in Picked
  BY PickedAre DEF Chosen, Standing, Last, Current
<1> QED
  BY <1>5, <1>6, <1>7

\* A verdict that asks the user changes the mode no more than another.
LEMMA ModeAttention ==
    ASSUME exec \in Admissible, NEW w, exec' = Attention(w)
    PROVE  Mode' = Mode /\ Tasks!Live
BY DEF Mode, Attention, Admissible, Dispatchable, Ended, Tasks!Live

\* settle_agent_outcome is one of the verdicts, a question, or another try.
LEMMA RefSettle ==
    ASSUME StepInv, StepInv', NEW s \in Steps, Up, Settle(s)
    PROVE  Tasks!Finish(s) \/ Tasks!Fail(s) \/ Tasks!Ask(s) \/ Tasks!Again(s) \/ Tasks!Unpick
<1>1. /\ job[s].att = Last(s) /\ Last(s) \in 1..Last(s) /\ Current(s) \in AttemptType
      /\ Entry(step[s], Current(s)) /\ Current(s).status \in {"queued", "running"}
      /\ Carried(job[s], Current(s)) /\ Last(s) \in Nat /\ Last(s) # 0
  BY SettlesNewest, Newest, ExecutionAssumption
<1>2. PICK o \in Outcomes(s, Last(s), job[s].out) : /\ Record(s, Last(s), Settled(Current(s), o[1]), o[2])
                                                    /\ exec' = Attention(o[1])
  BY <1>1 DEF Settle, Current
<1>3. job[s] \in JobType /\ job[s].phase = "settle" /\ job[s].out # "suspended" /\ exec \in Admissible
  BY DEF Settle, StepInv, Shapes, Fence
<1> DEFINE x == Settled(Current(s), o[1])
<1>4. /\ x \in AttemptType /\ o[2] \in StepStatus /\ x.status = o[1] /\ x.turn = Current(s).turn
      /\ o[2] # "failed" => Current(s).turn \notin Unresolved
      /\ o[2] \in {"completed", "cancelled", "waiting"} => o[1] = o[2]
      /\ o[2] # "running"
  BY <1>1, <1>3, OutcomesFit DEF Current, Entry
<1>5. /\ Current(s).status = "queued" => o[1] = "cancelled" /\ o[2] \in {"failed", "pending"} /\ step[s] = "pending"
      /\ Current(s).status = "running" => o[1] # "cancelled" \/ o[2] = "cancelled"
      /\ Current(s).status = "running" => step[s] = "running"
      /\ o[2] \in {"completed", "cancelled", "waiting", "failed", "pending"}
      /\ o[2] = "pending" => o[1] \in {"failed", "cancelled"}
  <2>1. /\ Current(s).status = "queued" => job[s].out = "refused"
        /\ Current(s).status = "running" => job[s].out \in {"missing", "receipt"}
        /\ job[s].out = "receipt" => Current(s).turn \in Closed
    BY <1>1, <1>3 DEF Carried
  <2>2. /\ job[s].out = "refused" => o[1] = "cancelled" /\ o[2] \in {"failed", "pending"}
        /\ job[s].out = "missing" => o[1] = "failed" /\ o[2] = "failed"
        /\ job[s].out = "receipt" =>
            \/ o[1] = "completed" /\ o[2] = "completed"
            \/ o[1] = "failed" /\ o[2] \in {"failed", "pending"}
            \/ o[1] = "cancelled" /\ o[2] = "cancelled"
            \/ o[1] = "waiting" /\ o[2] = "waiting"
    BY <2>1 DEF Outcomes, Verdict, Closed, Current
  <2> QED
    BY <1>1, <2>1, <2>2 DEF Entry
<1>6. \A t \in Steps \ {s} : job'[t] = job[t]
  BY JobFrame DEF JobAdvances
<1>7. job'[s].phase = "none"
  <2>1. job' = [job EXCEPT ![s] = NoJob] /\ job \in [Steps -> JobType]
    BY DEF Settle, EndJob, StepInv, Shapes
  <2> QED
    BY <2>1, FreshJob
<1>8. Working(x) <=> Working(Current(s))
  BY <1>4 DEF Working
<1> DEFINE v == o[2]
<1>9. Record(s, Last(s), x, v) /\ v \in StepStatus
  BY <1>2, <1>4
<1> HIDE DEF x, v
<1>10. /\ AbsWork' = [AbsWork EXCEPT ![s] = WorkOf[v]] /\ AbsWork[s] = WorkOf[step[s]]
       /\ AbsTurns' = AbsTurns /\ AbsTurns[s] = (IF Working(x) THEN 1 ELSE 0)
       /\ v \notin {"pending", "skipped"} => Picked' \subseteq Picked \ {s}
       /\ x.status \notin ActiveAttempt => Picked' \subseteq Picked \ {s}
       /\ Current(s).status = "queued" /\ step[s] = "pending" => s \in Picked
  BY <1>1, <1>4, <1>6, <1>7, <1>8, <1>9, Written DEF ActiveAttempt
<1>11. Mode' = Mode /\ Tasks!Live
  BY <1>2, <1>3, ModeAttention
<1>12. v # "failed" => ~Working(x)
  BY <1>4, <1>8 DEF Working, v
<1>13. CASE v = "failed"
  <2>1. Tasks!Fail(s)
    BY <1>1, <1>5, <1>10, <1>11, <1>13, WorkIs DEF Tasks!Fail, Tasks!Becomes, AbsWork, AbsTurns
  <2> QED
    BY <2>1
<1>14. CASE v \in {"completed", "cancelled"}
  <2>1. step[s] = "running" /\ AbsTurns[s] = 0 /\ Picked' \subseteq Picked \ {s}
    BY <1>1, <1>5, <1>10, <1>12, <1>14 DEF v
  <2>2. \E w \in {"done", "failed", "stopped"} : AbsWork' = [AbsWork EXCEPT ![s] = w]
    BY <1>10, <1>14, WorkIs
  <2>3. Tasks!Finish(s)
    BY <2>1, <2>2, <1>10, <1>11, WorkIs DEF Tasks!Finish, Tasks!Becomes, AbsWork, AbsTurns
  <2> QED
    BY <2>3
<1>15. CASE v = "waiting"
  <2>1. step[s] = "running" /\ Picked' \subseteq Picked \ {s}
    BY <1>1, <1>5, <1>10, <1>15 DEF v
  <2>2. Tasks!Ask(s)
    BY <2>1, <1>10, <1>11, <1>15, WorkIs DEF Tasks!Ask, Tasks!Becomes, AbsWork, AbsTurns
  <2> QED
    BY <2>2
<1>16. CASE v = "pending"
  <2>1. Picked' \subseteq Picked \ {s} /\ AbsTurns[s] = 0
    BY <1>4, <1>5, <1>10, <1>12, <1>16 DEF v, ActiveAttempt
  <2>2. CASE step[s] = "running"
    <3>1. Tasks!Again(s)
      BY <2>1, <2>2, <1>10, <1>11, <1>16, WorkIs DEF Tasks!Again, Tasks!Becomes, AbsWork, AbsTurns
    <3> QED
      BY <3>1
  <2>3. CASE step[s] = "pending"
    <3>1. AbsWork' = AbsWork
      BY <2>3, <1>10, <1>16 DEF AbsWork
    <3>2. Tasks!Unpick
      BY <2>1, <3>1, <1>10, <1>11 DEF Tasks!Unpick, AbsWork, AbsTurns
    <3> QED
      BY <3>2
  <2> QED
    BY <1>1, <1>5, <2>2, <2>3
<1> QED
  BY <1>5, <1>13, <1>14, <1>15, <1>16 DEF v

\* Reconciling adopts the verdict, asks for the user, or goes on.
LEMMA RefReconcile ==
    ASSUME StepInv, StepInv', NEW s \in Steps, NEW k \in 1..Last(s), att[s][k].status \in {"running", "waiting"},
           Reconcile(s, k), \A t \in Steps \ {s} : job'[t] = job[t]
    PROVE  Tasks!Finish(s) \/ Tasks!Ask(s) \/ Tasks!GoOn(s) \/ Tasks!Unpick
<1>1. /\ k = Last(s) /\ Last(s) # 0 /\ Current(s) \in AttemptType
      /\ step[s] = Current(s).status /\ Current(s).status \in {"running", "waiting"}
  BY Newest DEF Old, Entry, Current
<1> DEFINE a == Current(s)
           x == Reconciled(a)
           v == x.status
<1>2. Record(s, Last(s), x, v) /\ exec' = Attention(v) /\ exec \in Admissible
  BY <1>1 DEF Reconcile, Fence, Current
<1>3. /\ x \in AttemptType /\ x.turn = a.turn /\ v \in {"completed", "failed", "cancelled", "waiting", "running"}
      /\ v \in {"completed", "failed", "cancelled"} => ~Working(x)
  <2>1. a.turn \in Closed =>
            /\ Verdict[a.turn] \in {"completed", "failed", "cancelled", "waiting"}
            /\ a.turn \notin Unresolved
    BY DEF Closed, Verdict, Unresolved
  <2>2. {"completed", "failed", "cancelled", "waiting", "running"} \subseteq Statuses
    BY DEF Statuses, ActiveAttempt
  <2> QED
    BY <1>1, <2>1, <2>2 DEF Reconciled, Settled, AttemptType, Working
<1> HIDE DEF x
<1>4. Working(x) <=> Working(Current(s))
  BY <1>3 DEF Working
<1>5. v \in StepStatus
  BY <1>3 DEF StepStatus, StepEnded
<1> HIDE DEF v
<1>6. /\ AbsWork' = [AbsWork EXCEPT ![s] = WorkOf[v]] /\ AbsWork[s] = WorkOf[step[s]]
      /\ AbsTurns' = AbsTurns /\ AbsTurns[s] = (IF Working(x) THEN 1 ELSE 0)
      /\ Picked' \subseteq Picked \ {s}
  BY <1>1, <1>2, <1>3, <1>4, <1>5, Written
<1>7. Mode' = Mode /\ Tasks!Live
  BY <1>2, ModeAttention
<1>8. AbsWork[s] = (IF step[s] = "running" THEN "working" ELSE "asking")
  BY <1>1, <1>6, WorkIs
<1>9. CASE v \in {"completed", "failed", "cancelled"}
  <2>1. \E w \in {"done", "failed", "stopped"} : AbsWork' = [AbsWork EXCEPT ![s] = w]
    BY <1>6, <1>9, WorkIs
  <2>2. Tasks!Finish(s)
    BY <1>3, <1>6, <1>7, <1>8, <1>9, <2>1 DEF Tasks!Finish, Tasks!Becomes, AbsWork, AbsTurns
  <2> QED
    BY <2>2
<1>10. CASE v = step[s]
  <2>1. AbsWork' = AbsWork
    BY <1>6, <1>10 DEF AbsWork
  <2>2. Tasks!Unpick
    BY <1>6, <1>7, <2>1 DEF Tasks!Unpick, AbsWork, AbsTurns
  <2> QED
    BY <2>2
<1>11. CASE v = "waiting" /\ step[s] = "running"
  <2>1. Tasks!Ask(s)
    BY <1>6, <1>7, <1>8, <1>11, WorkIs DEF Tasks!Ask, Tasks!Becomes, AbsWork, AbsTurns
  <2> QED
    BY <2>1
<1>12. CASE v = "running" /\ step[s] = "waiting"
  <2>1. Tasks!GoOn(s)
    BY <1>6, <1>7, <1>8, <1>12, WorkIs DEF Tasks!GoOn, Tasks!Becomes, AbsWork, AbsTurns
  <2> QED
    BY <2>1
<1> QED
  BY <1>1, <1>3, <1>9, <1>10, <1>11, <1>12

\* deliver_turn starts a Turn for a Step at work that has none, or is not seen.
LEMMA RefDeliver ==
    ASSUME StepInv, StepInv', NEW s \in Steps, Up, Deliver(s)
    PROVE  Tasks!TurnStarts(s) \/ Tasks!Unpick
<1> DEFINE k == job[s].att
           a == att[s][k]
           x == [a EXCEPT !.turn = "running"]
<1>1. JobAdvances(s) /\ job[s].phase \in Carries /\ UNCHANGED <<exec, step>>
  BY DEF JobAdvances, Deliver, Carries
<1>2. CASE att' = att
  <2>1. ~RecoverReceipt(s)
    BY DEF Deliver, RecoverReceipt, Recovering
  <2> QED
    BY <1>1, <1>2, <2>1, RefJobOnly
<1>3. CASE att' # att
  <2>1. a.turn = "absent"
    <3>1. SUFFICES ASSUME a.turn # "absent" PROVE att' = att
      BY <1>3
    <3>2. k \in 1..Last(s) /\ a \in AttemptType /\ att \in [Steps -> Seq(AttemptType)] /\ att[s] \in Seq(AttemptType)
      BY <1>1, Newest DEF StepInv, Shapes
    <3>3. att' = [att EXCEPT ![s] = [att[s] EXCEPT ![k] = [a EXCEPT !.turn = a.turn]]]
      BY <3>1 DEF Deliver
    <3>4. [a EXCEPT !.turn = a.turn] = a
      BY <3>2 DEF AttemptType
    <3>5. [att[s] EXCEPT ![k] = a] = att[s]
      BY <3>2
    <3> QED
      BY <3>2, <3>3, <3>4, <3>5
  <2>2. /\ exec \in Admissible /\ ~job[s].stale /\ step[s] = "running" /\ a.status = "running"
        /\ att' = [att EXCEPT ![s] = [att[s] EXCEPT ![k] = x]]
    BY <1>3, <2>1 DEF Deliver, Mine, Fence
  <2>3. k = Last(s) /\ k \in 1..Last(s) /\ a = Current(s) /\ a \in AttemptType /\ att[s] \in Seq(AttemptType) /\ Last(s) # 0
    BY <1>1, <2>2, Newest DEF Backs, Last, Current
  <2>4. x \in AttemptType /\ x.turn = "running"
    BY <2>3 DEF AttemptType, Unresolved
  <2> HIDE DEF x
  <2>5. Len(att'[s]) = Last(s) /\ att'[s][Last(s)] = x
    <3>1. att'[s] = [att[s] EXCEPT ![k] = x]
      BY <2>2 DEF StepInv, Shapes
    <3> QED
      BY <2>3, <2>4, <3>1, PutAt DEF Last
  <2>6. ~AtWork(att[s]) /\ AtWork(att'[s])
    BY <2>1, <2>3, <2>4, <2>5 DEF AtWork, Unresolved, Last, Current
  <2>7. OnlyAt(s)
    BY <1>1, <2>2, JobFrame DEF OnlyAt, StepInv, Shapes
  <2>8. /\ AbsTurns' = [AbsTurns EXCEPT ![s] = 1] /\ AbsTurns[s] = 0 /\ AbsWork[s] = "working"
    BY <2>2, <2>6, <2>7, OneView, WorkIs
  <2>9. ~Chosen(step[s], att[s], job[s]) /\ ~Chosen(step'[s], att'[s], job'[s])
    BY <1>1, <2>2 DEF Chosen
  <2>10. Picked' = Picked
    BY <2>7, <2>9, OneView
  <2>11. Mode' = Mode /\ AbsWork' = AbsWork /\ Tasks!Live
    BY <1>1, <2>2, ModeIs DEF Mode, AbsWork, Tasks!Live
  <2>12. Tasks!TurnStarts(s)
    BY <2>8, <2>10, <2>11 DEF Tasks!TurnStarts, AbsWork, AbsTurns
  <2> QED
    BY <2>12
<1> QED
  BY <1>2, <1>3

\* An error that no pass can repair fails a Step that its job stands for.
LEMMA RefRecoverFailsStep ==
    ASSUME StepInv, StepInv', NEW s \in Steps, Up, RecoverFailsStep(s)
    PROVE  Tasks!Fail(s)
<1>1. /\ step' = [step EXCEPT ![s] = "failed"] /\ step[s] = "pending" /\ att' = att /\ exec' = exec
      /\ exec \in Admissible /\ job[s].phase = "recover" /\ job[s].att = 0
  BY DEF RecoverFailsStep, Untouched, Unattached, Recovering
<1>2. OnlyAt(s) /\ step'[s] = "failed"
  BY <1>1, JobFrame DEF OnlyAt, StepInv, Shapes, JobAdvances
<1>3. Chosen(step[s], att[s], job[s])
  BY <1>1 DEF Chosen, Standing
<1>4. /\ AbsWork' = [AbsWork EXCEPT ![s] = "failed"] /\ AbsWork[s] = "todo" /\ AbsTurns' = AbsTurns
      /\ Picked' \subseteq Picked \ {s} /\ s \in Picked
  BY <1>1, <1>2, <1>3, OneView, WorkIs
<1>5. Mode' = Mode /\ Tasks!Live
  BY <1>1, ModeIs DEF Mode, Tasks!Live
<1> QED
  BY <1>4, <1>5 DEF Tasks!Fail, Tasks!Becomes, AbsWork, AbsTurns

\* An answer that is admitted lets its Step go on.
LEMMA RefAdmitDecision ==
    ASSUME StepInv, StepInv', NEW s \in Steps, AdmitDecision(s)
    PROVE  Tasks!GoOn(s)
<1> DEFINE x == [Current(s) EXCEPT !.status = "running"]
<1>1. /\ Last(s) # 0 /\ Current(s).status = "waiting" /\ Record(s, Last(s), x, "running") /\ job' = job
      /\ exec \in Admissible /\ exec # "paused" /\ exec' \in {"waiting_input", "running"}
  BY DEF AdmitDecision, Admits, Decided, Fence
<1>2. Current(s) \in AttemptType /\ step[s] = "waiting"
  BY <1>1, Newest DEF Entry
<1>3. x \in AttemptType /\ x.turn = Current(s).turn /\ "running" \in StepStatus
  BY <1>2 DEF AttemptType, Statuses, ActiveAttempt, StepStatus
<1> HIDE DEF x
<1>4. /\ AbsWork' = [AbsWork EXCEPT ![s] = "working"] /\ AbsWork[s] = "asking" /\ AbsTurns' = AbsTurns
      /\ Picked' \subseteq Picked \ {s}
  BY <1>1, <1>2, <1>3, Written, WorkIs DEF Working
<1>5. Mode' = Mode /\ Tasks!Live
  BY <1>1 DEF Mode, Admissible, Dispatchable, Ended, Tasks!Live
<1> QED
  BY <1>4, <1>5 DEF Tasks!GoOn, Tasks!Becomes, AbsWork, AbsTurns

-----------------------------------------------------------------------------
(***************************************************************************)
(* Commands of the user, the Session, and the loop.                        *)
(***************************************************************************)
\* What is seen of steps that rewrite many Steps.
LEMMA ManyView ==
    ASSUME StepInv, StepInv'
    PROVE  /\ (\A t \in Steps : AtWork(att'[t]) <=> AtWork(att[t])) => AbsTurns' = AbsTurns
           /\ (\A t \in Steps : Chosen(step'[t], att'[t], job'[t]) => Chosen(step[t], att[t], job[t]))
                 => Picked' \subseteq Picked
           /\ \A t \in Steps : AbsWork[t] = WorkOf[step[t]] /\ (~AtWork(att[t]) => AbsTurns[t] = 0)
           /\ AbsWork' = [t \in Steps |-> WorkOf[step'[t]]]
<1>1. /\ \A t \in Steps : AbsTurns[t] = Turns(t)
      /\ AbsTurns' = [t \in Steps |-> Turns(t)']
      /\ AbsTurns = [t \in Steps |-> Turns(t)]
  BY DEF AbsTurns
<1>2. \A t \in Steps : /\ Turns(t) = (IF AtWork(att[t]) THEN 1 ELSE 0)
                       /\ Turns(t)' = (IF AtWork(att'[t]) THEN 1 ELSE 0)
  BY TurnsAre
<1>3. (\A t \in Steps : AtWork(att'[t]) <=> AtWork(att[t])) => AbsTurns' = AbsTurns
  BY <1>1, <1>2
<1> QED
  BY <1>1, <1>2, <1>3, PickedAre DEF AbsWork

\* Cancelling Attempts ends no Turn and picks no Step.
LEMMA RevokedView ==
    ASSUME NEW A \in Seq(AttemptType), NEW W
    PROVE  /\ Len(RevokedAll(A, W)) = Len(A) /\ (AtWork(RevokedAll(A, W)) <=> AtWork(A))
           /\ Len(A) # 0 /\ RevokedAll(A, W)[Len(A)].status \in ActiveAttempt => A[Len(A)].status \in ActiveAttempt
<1> DEFINE B == RevokedAll(A, W)
<1>1. Len(A) \in Nat /\ \A k \in 1..Len(A) : A[k] \in AttemptType
  OBVIOUS
<1>2. ASSUME NEW a \in AttemptType
      PROVE  /\ Revoked(a, W) \in AttemptType /\ Revoked(a, W).turn = a.turn
             /\ Revoked(a, W).status \in ActiveAttempt => a.status \in ActiveAttempt
  BY <1>2 DEF Revoked, AttemptType, Statuses, ActiveAttempt
<1>3. \A k \in 1..Len(A) : B[k] = Revoked(A[k], W)
  BY DEF RevokedAll
<1>4. B \in [1..Len(A) -> AttemptType]
  BY <1>1, <1>2 DEF RevokedAll
<1>5. Len(B) = Len(A)
  BY <1>1, <1>4, Tabled
<1> HIDE DEF B
<1>6. ASSUME Len(A) # 0
      PROVE  B[Len(A)].turn = A[Len(A)].turn /\ (B[Len(A)].status \in ActiveAttempt => A[Len(A)].status \in ActiveAttempt)
  BY <1>1, <1>2, <1>3, <1>6
<1> QED
  BY <1>5, <1>6 DEF AtWork, B

\* Steps are stopped with their Attempts.
LEMMA RefCancels ==
    ASSUME StepInv, StepInv', NEW S \in SUBSET Steps, CancelSteps(S)
    PROVE  AbsWork' = Tasks!Stopped(S) /\ AbsTurns' = AbsTurns /\ Picked' \subseteq Picked
<1> DEFINE open == {s \in S : step[s] \notin StepEnded}
<1>1. /\ step' = [s \in Steps |-> IF s \in open THEN "cancelled" ELSE step[s]]
      /\ job' = Advance(job, open)
      /\ att' = [s \in Steps |-> IF s \notin S THEN att[s] ELSE RevokedAll(att[s], ActiveAttempt)]
  BY DEF CancelSteps, CancelAttempts, RevokedAll, Revoked, Last
<1>2. job \in [Steps -> JobType] /\ \A t \in Steps : Newer(job[t], job'[t])
  BY <1>1, Advanced DEF StepInv, Shapes
<1>3. ASSUME NEW t \in Steps
      PROVE  /\ AtWork(att'[t]) <=> AtWork(att[t])
             /\ Chosen(step'[t], att'[t], job'[t]) => Chosen(step[t], att[t], job[t])
  <2>1. /\ Len(att'[t]) = Len(att[t]) /\ (AtWork(att'[t]) <=> AtWork(att[t]))
        /\ Len(att[t]) # 0 /\ att'[t][Len(att[t])].status \in ActiveAttempt => att[t][Len(att[t])].status \in ActiveAttempt
    BY <1>1, Newest, RevokedView
  <2>2. Standing(att'[t], job'[t]) => Standing(att[t], job[t])
    BY <1>2, <2>1 DEF Standing, Newer
  <2>3. step'[t] \in {"pending", "skipped"} => step[t] \in {"pending", "skipped"}
    BY <1>1
  <2> QED
    BY <2>1, <2>2, <2>3 DEF Chosen
<1>4. AbsTurns' = AbsTurns /\ Picked' \subseteq Picked /\ AbsWork' = [t \in Steps |-> WorkOf[step'[t]]]
  BY <1>3, ManyView
<1>5. ASSUME NEW t \in Steps
      PROVE  WorkOf[step'[t]] = IF t \in S /\ AbsWork[t] \notin Tasks!Verdicts THEN "stopped" ELSE AbsWork[t]
  <2>1. step[t] \in StepStatus /\ AbsWork[t] = WorkOf[step[t]]
    BY Newest, ManyView
  <2>2. WorkOf[step[t]] \in Tasks!Verdicts <=> step[t] \in StepEnded
    BY <2>1, WorkIs DEF Tasks!Verdicts, StepStatus, StepEnded
  <2> QED
    BY <1>1, <2>1, <2>2, WorkIs
<1>6. AbsWork' = Tasks!Stopped(S)
  BY <1>4, <1>5 DEF Tasks!Stopped, AbsWork
<1> QED
  BY <1>4, <1>6

\* Cancel and CancelStep.
LEMMA RefStop ==
    ASSUME StepInv, StepInv', RestType
    PROVE  /\ Cancel => Tasks!CancelAll
           /\ \A s \in Steps : CancelStep(s) => Tasks!Stop(s)
<1>0. exec \notin Ended => Tasks!Live
  BY ModeIs DEF RestType, ExecStatus, Tasks!Live
<1>1. ASSUME Cancel PROVE Tasks!CancelAll
  <2>1. CancelSteps(Steps) /\ exec \notin Ended /\ exec' = "cancelled" /\ Steps \in SUBSET Steps
    BY <1>1 DEF Cancel
  <2>2. AbsWork' = Tasks!Stopped(Steps) /\ AbsTurns' = AbsTurns /\ Picked' \subseteq Picked
    BY <2>1, RefCancels
  <2>3. Mode' = "cancelled"
    BY <2>1 DEF Mode
  <2> QED
    BY <1>0, <2>1, <2>2, <2>3 DEF Tasks!CancelAll, AbsWork, AbsTurns
<1>2. ASSUME NEW s \in Steps, CancelStep(s) PROVE Tasks!Stop(s)
  <2>1. CancelSteps({s}) /\ exec \notin Ended /\ exec' = exec /\ {s} \in SUBSET Steps /\ step[s] \notin StepEnded
    BY <1>2 DEF CancelStep
  <2>2. AbsWork' = Tasks!Stopped({s}) /\ AbsTurns' = AbsTurns /\ Picked' \subseteq Picked
    BY <2>1, RefCancels
  <2>3. Mode' = Mode
    BY <2>1 DEF Mode
  <2>4. AbsWork[s] = WorkOf[step[s]] /\ step[s] \in {"pending", "running", "waiting"}
    BY <2>1, Newest DEF AbsWork, StepStatus
  <2>5. AbsWork[s] \notin Tasks!Verdicts
    BY <2>4, WorkIs DEF Tasks!Verdicts
  <2> QED
    BY <1>0, <2>1, <2>2, <2>3, <2>5 DEF Tasks!Stop, AbsWork, AbsTurns
<1> QED
  BY <1>1, <1>2

\* Pause and Resume.
LEMMA RefPause ==
    ASSUME StepInv, StepInv'
    PROVE  (Pause => Tasks!Hold) /\ (Resume => Tasks!Release)
<1>1. ASSUME Pause PROVE Tasks!Hold
  <2>1. /\ att' = [s \in Steps |-> RevokedAll(att[s], {"queued"})] /\ step' = step /\ job' = job
        /\ exec \in Dispatchable /\ exec' = "paused"
    BY <1>1 DEF Pause, RevokedAll, Revoked, Last
  <2>2. ASSUME NEW t \in Steps
        PROVE  /\ AtWork(att'[t]) <=> AtWork(att[t])
               /\ Chosen(step'[t], att'[t], job'[t]) => Chosen(step[t], att[t], job[t])
    <3>1. /\ Len(att'[t]) = Len(att[t]) /\ (AtWork(att'[t]) <=> AtWork(att[t]))
          /\ Len(att[t]) # 0 /\ att'[t][Len(att[t])].status \in ActiveAttempt => att[t][Len(att[t])].status \in ActiveAttempt
      BY <2>1, Newest, RevokedView
    <3> QED
      BY <2>1, <3>1 DEF Chosen, Standing
  <2>3. AbsTurns' = AbsTurns /\ Picked' \subseteq Picked
    BY <2>2, ManyView
  <2>4. Mode = "open" /\ Mode' = "held" /\ AbsWork' = AbsWork
    BY <2>1, ModeIs DEF Mode, AbsWork
  <2> QED
    BY <2>3, <2>4 DEF Tasks!Hold, AbsWork, AbsTurns
<1>2. ASSUME Resume PROVE Tasks!Release
  <2>1. UNCHANGED <<step, att, job>> /\ exec = "paused" /\ exec' \in {"waiting_input", "running"}
    BY <1>2 DEF Resume
  <2>2. Mode = "held" /\ Mode' = "open" /\ AbsWork' = AbsWork /\ AbsTurns' = AbsTurns /\ Picked' = Picked
    BY <2>1, PickedAre DEF Mode, Ended, AbsWork, AbsTurns, Turns, Last
  <2> QED
    BY <2>2 DEF Tasks!Release, AbsWork, AbsTurns
<1> QED
  BY <1>1, <1>2

\* Downstream is closed under the dependencies.
LEMMA DownstreamClosed ==
    ASSUME NEW s \in Steps
    PROVE  /\ s \in Downstream(s) /\ Downstream(s) \in SUBSET Steps
           /\ \A d \in Deps : d[1] \in Downstream(s) => d[2] \in Downstream(s)
<1>1. s \in Downstream(s) /\ Downstream(s) \in SUBSET Steps
  BY DEF Downstream
<1>2. ASSUME NEW d \in Deps, d[1] \in Downstream(s) PROVE d[2] \in Downstream(s)
  <2>1. d[2] \in Steps
    BY ExecutionAssumption
  <2>2. ASSUME NEW C \in SUBSET Steps, s \in C, \A e \in Deps : e[1] \in C => e[2] \in C PROVE d[2] \in C
    BY <1>2, <2>2 DEF Downstream
  <2> QED
    BY <2>1, <2>2 DEF Downstream
<1> QED
  BY <1>1, <1>2

\* Retry is Redo of everything downstream.
LEMMA RefRetry ==
    ASSUME StepInv, StepInv', NEW s \in Steps, Retry(s)
    PROVE  Tasks!Redo(Downstream(s))
<1> DEFINE reset == Downstream(s)
<1>1. /\ step' = [d \in Steps |-> IF d \in reset THEN "pending" ELSE step[d]] /\ att' = att
      /\ job' = Advance(job, reset) /\ exec # "cancelled" /\ exec' = "running"
      /\ \A d \in reset : step[d] # "cancelled" /\ ~HasActive(d) /\ SettledNatively(d)
  BY DEF Retry
<1>2. /\ s \in reset /\ reset \in SUBSET Steps
      /\ \A d \in Deps : d[1] \in reset => d[2] \in reset
  BY DownstreamClosed
<1> HIDE DEF reset
<1>3. job \in [Steps -> JobType] /\ \A t \in Steps : Newer(job[t], job'[t])
  BY <1>1, Advanced DEF StepInv, Shapes
<1>4. ASSUME NEW t \in reset
      PROVE  /\ step[t] \in {"pending", "completed", "failed", "skipped"} /\ ~AtWork(att[t])
             /\ Len(att[t]) # 0 => att[t][Len(att[t])].status \notin ActiveAttempt
  <2>1. t \in Steps /\ step[t] \in StepStatus
    BY <1>2, Newest
  <2>2. Last(t) # 0 => Current(t).status \notin ActiveAttempt /\ Current(t).turn \notin Unresolved /\ Entry(step[t], Current(t))
    BY <1>1, <2>1, Inactive, Newest DEF SettledNatively, Current
  <2>3. step[t] \notin {"running", "waiting"}
    BY <2>1, <2>2, Newest DEF Entry
  <2> QED
    BY <1>1, <2>1, <2>2, <2>3 DEF StepStatus, StepEnded, AtWork, Last, Current
<1>5. ASSUME NEW t \in Steps, Chosen(step'[t], att'[t], job'[t]) PROVE Chosen(step[t], att[t], job[t])
  <2>1. Standing(att[t], job[t])
    BY <1>1, <1>3, <1>5 DEF Chosen, Standing, Newer
  <2>2. CASE t \in reset
    <3>1. job[t].phase # "none" /\ job[t].att \in {0, Len(att[t])}
      BY <1>4, <2>1, <2>2 DEF Standing
    <3>2. step[t] \notin {"completed", "failed"}
      BY <3>1, Newest DEF Freed
    <3> QED
      BY <1>4, <2>1, <2>2, <3>2 DEF Chosen
  <2>3. CASE t \notin reset
    BY <1>1, <1>5, <2>1, <2>3 DEF Chosen
  <2> QED
    BY <2>2, <2>3
<1>6. AbsTurns' = AbsTurns /\ Picked' \subseteq Picked
  BY <1>1, <1>5, ManyView
<1>7. \A t \in reset : AbsWork[t] \in {"todo", "done", "failed", "dropped"} /\ AbsTurns[t] = 0
  BY <1>2, <1>4, ManyView, WorkIs
<1>8. AbsWork' = [t \in Steps |-> IF t \in reset THEN "todo" ELSE AbsWork[t]]
  BY <1>1, ManyView, WorkIs
<1>9. Mode # "cancelled" /\ Mode' = "open"
  BY <1>1 DEF Mode, Ended
<1>10. Tasks!Redo(reset)
  BY <1>2, <1>6, <1>7, <1>8, <1>9 DEF Tasks!Redo, AbsWork, AbsTurns
<1> QED
  BY <1>10 DEF reset

\* An answer lets its Step go on, or is kept.
LEMMA RefAnswer ==
    ASSUME StepInv, StepInv', NEW s \in Steps, Answer(s)
    PROVE  Tasks!GoOn(s) \/ Tasks!Unpick
<1> DEFINE v == IF Capacity({<<s, Last(s)>>}) THEN "running" ELSE "waiting"
           x == [status |-> v, review |-> FALSE, answered |-> TRUE, turn |-> "absent"]
<1>0. Last(s) \in 0..MaxAttempts
  BY Newest
<1>1. /\ Last(s) # 0 /\ Record(s, Last(s), x, v) /\ step[s] = "waiting" /\ Current(s).turn = "input"
      /\ job' = Advance(job, {s}) /\ v \in {"running", "waiting"} /\ exec \in Admissible
      /\ exec' = exec \/ (exec # "paused" /\ exec' \in {"waiting_input", "running"})
  BY <1>0 DEF Answer, Record
<1> HIDE DEF v
<1>2. x \in AttemptType /\ ~Working(x) /\ ~Working(Current(s)) /\ v \in StepStatus
  BY <1>1 DEF AttemptType, Statuses, ActiveAttempt, Working, Unresolved, StepStatus
<1> HIDE DEF x
<1>3. \A t \in Steps \ {s} : job'[t] = job[t]
  BY <1>1, Advanced DEF StepInv, Shapes
<1>4. /\ AbsWork' = [AbsWork EXCEPT ![s] = WorkOf[v]] /\ AbsWork[s] = "asking" /\ AbsTurns' = AbsTurns
      /\ Picked' \subseteq Picked \ {s}
  <2>1. Working(x) <=> Working(Current(s))
    BY <1>2
  <2>2. /\ AbsWork' = [AbsWork EXCEPT ![s] = WorkOf[v]] /\ AbsWork[s] = WorkOf[step[s]] /\ AbsTurns' = AbsTurns
        /\ v \notin {"pending", "skipped"} => Picked' \subseteq Picked \ {s}
    BY <1>1, <1>2, <1>3, <2>1, Written
  <2> QED
    BY <1>1, <2>2, WorkIs
<1>5. Mode' = Mode /\ Tasks!Live
  BY <1>1 DEF Mode, Admissible, Dispatchable, Ended, Tasks!Live
<1>6. CASE v = "running"
  <2>1. Tasks!GoOn(s)
    BY <1>4, <1>5, <1>6, WorkIs DEF Tasks!GoOn, Tasks!Becomes, AbsWork, AbsTurns
  <2> QED
    BY <2>1
<1>7. CASE v = "waiting"
  <2>1. AbsWork' = AbsWork
    BY <1>4, <1>7, WorkIs DEF AbsWork
  <2>2. Tasks!Unpick
    BY <1>4, <1>5, <2>1 DEF Tasks!Unpick, AbsWork, AbsTurns
  <2> QED
    BY <2>2
<1> QED
  BY <1>1, <1>6, <1>7

\* A blocked Step is dropped.
LEMMA RefSkips ==
    ASSUME StepInv, StepInv', NEW s \in Steps, SkipBlocked(s)
    PROVE  Tasks!Drop(s)
<1>1. /\ step' = [step EXCEPT ![s] = "skipped"] /\ step[s] = "pending" /\ att' = att /\ exec' = exec
      /\ job' = Advance(job, {s}) /\ exec \in Dispatchable
  BY DEF SkipBlocked, Blocked, Dispatching
<1>2. PICK b \in Blockers(s) : step[b] \in {"failed", "skipped", "cancelled"}
  BY DEF SkipBlocked, Blocked
<1>3. /\ job \in [Steps -> JobType] /\ \A t \in Steps : Newer(job[t], job'[t])
      /\ \A t \in Steps \ {s} : job'[t] = job[t]
  BY <1>1, Advanced DEF StepInv, Shapes
<1>4. OnlyAt(s) /\ step'[s] = "skipped"
  BY <1>1, <1>3 DEF OnlyAt, StepInv, Shapes
<1>5. Chosen(step'[s], att'[s], job'[s]) => Chosen(step[s], att[s], job[s])
  BY <1>1, <1>3 DEF Chosen, Standing, Newer
<1>6. /\ AbsWork' = [AbsWork EXCEPT ![s] = "dropped"] /\ AbsWork[s] = "todo" /\ AbsTurns' = AbsTurns
      /\ Picked' \subseteq Picked
  BY <1>1, <1>4, <1>5, OneView, WorkIs
<1>7. b \in Tasks!BlockersOf(s) /\ AbsWork[b] \in Tasks!Blocking
  BY <1>2, WorkIs DEF Blockers, Tasks!BlockersOf, Tasks!Blocking, AbsWork
<1>8. Mode = "open" /\ Mode' = Mode
  BY <1>1, ModeIs DEF Mode
<1> QED
  BY <1>6, <1>7, <1>8 DEF Tasks!Drop, AbsWork, AbsTurns

\* The Session ends a Turn, or is not seen.
LEMMA RefTurn ==
    ASSUME StepInv, StepInv', NEW s \in Steps, NEW k \in 1..Last(s),
           NEW from \in SUBSET Unresolved, NEW to \in Unresolved \cup Closed, Turn(s, k, from, to)
    PROVE  Tasks!TurnEnds(s) \/ Tasks!Unpick
<1> DEFINE a == att[s][k]
           x == [a EXCEPT !.turn = to]
<1>1. a.turn \in Unresolved /\ UNCHANGED <<exec, step, job>> /\ att' = [att EXCEPT ![s] = [att[s] EXCEPT ![k] = x]]
  BY DEF Turn
<1>2. k = Last(s) /\ Last(s) # 0 /\ a = Current(s) /\ a \in AttemptType /\ att[s] \in Seq(AttemptType)
  BY <1>1, Newest DEF Old, Current
<1>3. x \in AttemptType /\ x.turn = to /\ x.status = a.status
  BY <1>2 DEF AttemptType
<1> HIDE DEF x
<1>4. Len(att'[s]) = Last(s) /\ att'[s][Last(s)] = x
  <2>1. att'[s] = [att[s] EXCEPT ![k] = x]
    BY <1>1 DEF StepInv, Shapes
  <2> QED
    BY <1>2, <1>3, <2>1, PutAt DEF Last
<1>5. AtWork(att[s]) /\ (AtWork(att'[s]) <=> to \in Unresolved)
  BY <1>1, <1>2, <1>3, <1>4 DEF AtWork, Last, Current
<1>6. OnlyAt(s)
  BY <1>1 DEF OnlyAt, StepInv, Shapes
<1>7. Chosen(step'[s], att'[s], job'[s]) <=> Chosen(step[s], att[s], job[s])
  BY <1>1, <1>2, <1>3, <1>4 DEF Chosen, Standing, Last, Current
<1>8. /\ Picked' = Picked /\ AbsTurns[s] = 1
      /\ AbsTurns' = [AbsTurns EXCEPT ![s] = IF to \in Unresolved THEN 1 ELSE 0]
      /\ to \in Unresolved => AbsTurns' = AbsTurns
  BY <1>5, <1>6, <1>7, OneView
<1>9. Mode' = Mode /\ AbsWork' = AbsWork
  BY <1>1 DEF Mode, AbsWork
<1>10. CASE to \in Unresolved
  BY <1>8, <1>9, <1>10 DEF Tasks!Unpick, AbsWork, AbsTurns
<1>11. CASE to \notin Unresolved
  BY <1>8, <1>9, <1>11 DEF Tasks!TurnEnds, AbsWork, AbsTurns
<1> QED
  BY <1>10, <1>11

\* A pass picks Steps whose blockers are done.
LEMMA RefDispatch ==
    ASSUME StepInv, StepInv', NEW S \in SUBSET Steps, Dispatch(S)
    PROVE  Tasks!Pick(S)
<1>1. /\ exec \in Dispatchable /\ UNCHANGED <<exec, step, att>>
      /\ job' = [s \in Steps |-> IF s \in S THEN NewJob("prepare", 0) ELSE job[s]]
  BY DEF Dispatch, Dispatching, durable
<1>2. PICK due : S \subseteq Ready(due)
  BY DEF Dispatch, Selections
<1>3. \A s \in S : s \in Steps /\ step[s] = "pending" /\ \A b \in Blockers(s) : step[b] = "completed"
  BY <1>2 DEF Ready
<1>4. \A s \in S : AbsWork[s] = "todo" /\ \A b \in Tasks!BlockersOf(s) : AbsWork[b] = "done"
  BY <1>3, WorkIs DEF AbsWork, Blockers, Tasks!BlockersOf
<1>5. NewJob("prepare", 0).phase = "prepare" /\ NewJob("prepare", 0).att = 0
  BY DEF NewJob, NoJob
<1>6. Picked' = Picked \cup S
  <2>1. ASSUME NEW t \in Steps
        PROVE  Chosen(step'[t], att'[t], job'[t]) <=> Chosen(step[t], att[t], job[t]) \/ t \in S
    <3>1. CASE t \in S
      BY <1>1, <1>3, <1>5, <3>1 DEF Chosen, Standing
    <3>2. CASE t \notin S
      BY <1>1, <3>2
    <3> QED
      BY <3>1, <3>2
  <2> QED
    BY <2>1, PickedAre
<1>7. Mode = "open" /\ Mode' = Mode /\ AbsWork' = AbsWork /\ AbsTurns' = AbsTurns
  BY <1>1, ModeIs DEF Mode, AbsWork, AbsTurns, Turns, Last
<1> QED
  BY <1>4, <1>6, <1>7 DEF Tasks!Pick, AbsWork, AbsTurns

\* The last statement of the loop closes an Execution all of whose Steps have a verdict.
LEMMA RefFinalize ==
    ASSUME StepInv, StepInv', Finalize
    PROVE  Tasks!Close
<1>1. /\ exec \in Dispatchable /\ AllEnded /\ UNCHANGED <<step, att, job>>
      /\ exec' \in {"failed", "completed_with_failures", "completed"}
  BY DEF Finalize, Dispatching, FinalStatus
<1>2. Mode = "open" /\ Mode' = "over" /\ AbsWork' = AbsWork /\ AbsTurns' = AbsTurns /\ Picked' = Picked
  BY <1>1, ModeIs, PickedAre DEF Mode, Ended, AbsWork, AbsTurns, Turns, Last
<1>3. \A s \in Steps : AbsWork[s] \in Tasks!Verdicts
  BY <1>1, WorkIs DEF AllEnded, AbsWork, Tasks!Verdicts, StepEnded
<1> QED
  BY <1>2, <1>3 DEF Tasks!Close, AbsWork, AbsTurns

\* Everything that leaves the Execution, its Steps and their Attempts alone and retains no job.
LEMMA RefQuiet ==
    ASSUME StepInv, StepInv', UNCHANGED <<exec, step, att>>,
           \A t \in Steps : job'[t] = job[t] \/ job'[t] = NoJob \/ job'[t] = [job[t] EXCEPT !.fresh = FALSE]
    PROVE  Tasks!Unpick
<1>1. ASSUME NEW t \in Steps, Standing(att[t], job'[t]) PROVE Standing(att[t], job[t])
  <2>1. job[t] \in JobType /\ NoJob.phase = "none"
    BY Newest DEF NoJob
  <2>2. job'[t].phase = "none" \/ (job'[t].phase = job[t].phase /\ job'[t].att = job[t].att)
    BY <2>1 DEF JobType
  <2> QED
    BY <1>1, <2>2 DEF Standing
<1> QED
  BY <1>1, RefUnpick

\* A pass hands a pending answer, or an Attempt nobody drives, to a job.
LEMMA RefHandOver ==
    ASSUME StepInv, StepInv', NEW s \in Steps
    PROVE  /\ DeliverDecision(s) => Tasks!Unpick
           /\ \A k \in 1..Last(s) : RecoverAttempt(s, k) =>
                 Tasks!Finish(s) \/ Tasks!Ask(s) \/ Tasks!GoOn(s) \/ Tasks!Unpick
<1>0. job \in [Steps -> JobType] /\ Last(s) \in 0..MaxAttempts
  BY Newest DEF StepInv, Shapes
<1>1. ASSUME DeliverDecision(s) PROVE Tasks!Unpick
  <2>1. /\ UNCHANGED <<exec, step, att>> /\ \A t \in Steps \ {s} : job'[t] = job[t]
        /\ Last(s) # 0 /\ Current(s).status \in ActiveAttempt
    BY <1>0, <1>1 DEF DeliverDecision, Delivers, Decided, durable, ActiveAttempt
  <2> QED
    BY <2>1, RefOneJob
<1>2. ASSUME NEW k \in 1..Last(s), RecoverAttempt(s, k)
      PROVE  Tasks!Finish(s) \/ Tasks!Ask(s) \/ Tasks!GoOn(s) \/ Tasks!Unpick
  <2> DEFINE a == att[s][k]
  <2>1. a.status \in {"queued", "running", "waiting"} /\ \A t \in Steps \ {s} : job'[t] = job[t]
    BY <1>0, <1>2 DEF RecoverAttempt, Interrupted, Recovers
  <2>2. CASE a.status = "queued"
    <3>1. /\ UNCHANGED <<exec, step, att>> /\ job' = [job EXCEPT ![s] = NewJob("prepare", k)]
      BY <1>2, <2>2 DEF RecoverAttempt, durable
    <3>2. job'[s].att = k /\ k # 0 /\ Last(s) # 0
      BY <1>0, <3>1 DEF NewJob, NoJob
    <3>3. Current(s).status \in ActiveAttempt \/ job'[s].att \notin {0, Last(s)}
      BY <2>2, <3>2 DEF Current, ActiveAttempt
    <3> QED
      BY <2>1, <3>1, <3>2, <3>3, RefOneJob
  <2>3. CASE a.status # "queued"
    <3>1. Reconcile(s, k) /\ a.status \in {"running", "waiting"}
      BY <1>2, <2>1, <2>3 DEF RecoverAttempt
    <3> QED
      BY <2>1, <3>1, RefReconcile
  <2> QED
    BY <2>2, <2>3
<1> QED
  BY <1>1, <1>2

-----------------------------------------------------------------------------
\* The user's commands, as TaskExecution sees them.
LEMMA RefUser ==
    ASSUME StepInv, StepInv', RestType, UserCommand PROVE Tasks!TaskNext
<1>1. ASSUME NEW s \in Steps, Retry(s) PROVE Tasks!TaskNext
  <2>1. Tasks!Redo(Downstream(s)) /\ Downstream(s) \in SUBSET Steps
    BY <1>1, RefRetry, DownstreamClosed
  <2> QED
    BY <2>1, Zenon DEF Tasks!TaskNext
<1>2. ASSUME NEW s \in Steps, CancelStep(s) PROVE Tasks!TaskNext
  <2>1. Tasks!Stop(s)
    BY <1>2, RefStop
  <2> QED
    BY <2>1, Zenon DEF Tasks!TaskNext
<1>3. ASSUME NEW s \in Steps, Answer(s) PROVE Tasks!TaskNext
  <2>1. Tasks!GoOn(s) \/ Tasks!Unpick
    BY <1>3, RefAnswer
  <2> QED
    BY <2>1, Zenon DEF Tasks!TaskNext
<1>4. ASSUME Pause \/ Resume \/ Cancel PROVE Tasks!TaskNext
  <2>1. Tasks!Hold \/ Tasks!Release \/ Tasks!CancelAll
    BY <1>4, RefPause, RefStop
  <2> QED
    BY <2>1, Zenon DEF Tasks!TaskNext
<1> QED
  BY <1>1, <1>2, <1>3, <1>4 DEF UserCommand

\* fail_if_active.
LEMMA RefFails ==
    ASSUME StepInv, StepInv', FailIfActive PROVE Tasks!GiveUp \/ Tasks!Unpick
<1>1. CASE CancelSteps(Steps) /\ exec \in Dispatchable /\ exec' = "failed"
  <2>1. Steps \in SUBSET Steps
    OBVIOUS
  <2>2. AbsWork' = Tasks!Stopped(Steps) /\ AbsTurns' = AbsTurns /\ Picked' \subseteq Picked
    BY <1>1, <2>1, RefCancels
  <2>3. Mode = "open"
    BY <1>1, ModeIs
  <2>4. Mode' = "over"
    BY <1>1 DEF Mode, Ended
  <2> QED
    BY <2>2, <2>3, <2>4 DEF Tasks!GiveUp, AbsWork, AbsTurns
<1>2. CASE UNCHANGED <<exec, step, att, job>>
  <2>1. \A t \in Steps : job'[t] = job[t]
    BY <1>2
  <2> QED
    BY <1>2, <2>1, RefQuiet
<1> QED
  BY <1>1, <1>2, FailWrites

\* The jobs' steps.
LEMMA RefJob ==
    ASSUME StepInv, StepInv', NEW s \in Steps, JobAdvances(s) \/ JobAsks(s) \/ JobFault(s)
    PROVE  Tasks!TaskNext
<1>0. Up /\ job[s].phase # "none" /\ \A t \in Steps \ {s} : job'[t] = job[t]
  BY JobFrame DEF JobAdvances, JobAsks, JobFault
<1>1. CASE Settle(s)
  <2>1. Tasks!Finish(s) \/ Tasks!Fail(s) \/ Tasks!Ask(s) \/ Tasks!Again(s) \/ Tasks!Unpick
    BY <1>0, <1>1, RefSettle
  <2> QED
    BY <2>1, Zenon DEF Tasks!TaskNext
<1>2. CASE Deliver(s)
  <2>1. Tasks!TurnStarts(s) \/ Tasks!Unpick
    BY <1>0, <1>2, RefDeliver
  <2> QED
    BY <2>1, Zenon DEF Tasks!TaskNext
<1>3. CASE Begin(s) /\ ~UNCHANGED <<step, att>>
  <2>1. Tasks!Start(s)
    BY <1>0, <1>3, RefBegin
  <2> QED
    BY <2>1, Zenon DEF Tasks!TaskNext
<1>4. CASE RecoverFailsStep(s)
  <2>1. Tasks!Fail(s)
    BY <1>0, <1>4, RefRecoverFailsStep
  <2> QED
    BY <2>1, Zenon DEF Tasks!TaskNext
<1>5. CASE Admit(s) \/ AdmitReplyLost(s)
  <2>1. Tasks!Unpick
    BY <1>0, <1>5, RefAdmit
  <2> QED
    BY <2>1, Zenon DEF Tasks!TaskNext
<1>6. CASE SettleSuspended(s) \/ RecoverReceipt(s)
  <2>1. \E k \in 1..Last(s) : Reconcile(s, k) /\ att[s][k].status \in {"running", "waiting"}
    <3>1. Last(s) \in 0..MaxAttempts /\ job[s].att \in 0..Last(s) /\ (job[s].phase \in Carries => job[s].att \in 1..Last(s))
      BY Newest
    <3>2. CASE SettleSuspended(s)
      <4>1. job[s].att \in 1..Last(s) /\ Reconcile(s, job[s].att) /\ att[s][job[s].att].status = "running"
        BY <3>1, <3>2 DEF SettleSuspended, Carries
      <4> QED
        BY <4>1
    <3>3. CASE RecoverReceipt(s)
      <4>1. Last(s) \in 1..Last(s) /\ Reconcile(s, Last(s)) /\ att[s][Last(s)].status = "running"
        BY <3>1, <3>3, ExecutionAssumption DEF RecoverReceipt, Owns, Current
      <4> QED
        BY <4>1
    <3> QED
      BY <1>6, <3>2, <3>3
  <2>2. Tasks!Finish(s) \/ Tasks!Ask(s) \/ Tasks!GoOn(s) \/ Tasks!Unpick
    BY <1>0, <2>1, RefReconcile
  <2> QED
    BY <2>2, Zenon DEF Tasks!TaskNext
<1>7. CASE UNCHANGED <<exec, step, att>> /\ ~RecoverReceipt(s)
  <2>1. Tasks!Unpick
    BY <1>7, RefJobOnly
  <2> QED
    BY <2>1, Zenon DEF Tasks!TaskNext
<1>8. ASSUME Prepare(s) \/ AdmitRefused(s) \/ Observe(s) \/ SettleEnds(s) \/ SettleStale(s)
             \/ RecoverGivesUp(s) \/ RecoverAdopts(s) \/ RecoverResumes(s)
             \/ JobAsks(s) \/ PrepareFails(s) \/ LinkFails(s) \/ Deadline(s)
      PROVE  UNCHANGED <<exec, step, att>>
  BY <1>8 DEF Prepare, AdmitRefused, Observe, SettleEnds, SettleStale, RecoverGivesUp, RecoverAdopts, RecoverResumes,
     JobAsks, SettleUnarmed, RecoverUnarmed, PrepareFails, LinkFails, Deadline, durable
<1>9. Begin(s) => exec' = exec
  BY DEF Begin
<1> QED
  BY <1>1, <1>2, <1>3, <1>4, <1>5, <1>6, <1>7, <1>8, <1>9 DEF JobAdvances, JobFault

\* The steps of the scheduling loop.
LEMMA RefLoop ==
    ASSUME StepInv, StepInv', LoopStep PROVE Tasks!TaskNext
<1>1. ASSUME Acquire \/ Depart \/ RecoverDone \/ AwaitJobs \/ IdleExit \/ LoopAborts PROVE Tasks!TaskNext
  <2>1. UNCHANGED <<exec, step, att>> /\ (job' = job \/ job' = [t \in Steps |-> [job[t] EXCEPT !.fresh = FALSE]])
    BY <1>1 DEF Acquire, Depart, RecoverDone, AwaitJobs, IdleExit, LoopAborts, Leave, durable
  <2>2. \A t \in Steps : job'[t] = job[t] \/ job'[t] = [job[t] EXCEPT !.fresh = FALSE]
    BY <2>1
  <2>3. Tasks!Unpick
    BY <2>1, <2>2, RefQuiet
  <2> QED
    BY <2>3, Zenon DEF Tasks!TaskNext
<1>2. ASSUME Finalize PROVE Tasks!TaskNext
  <2>1. Tasks!Close
    BY <1>2, RefFinalize
  <2> QED
    BY <2>1, Zenon DEF Tasks!TaskNext
<1>3. ASSUME NEW s \in Steps, AdmitDecision(s) PROVE Tasks!TaskNext
  <2>1. Tasks!GoOn(s)
    BY <1>3, RefAdmitDecision
  <2> QED
    BY <2>1, Zenon DEF Tasks!TaskNext
<1>4. ASSUME NEW s \in Steps, SkipBlocked(s) PROVE Tasks!TaskNext
  <2>1. Tasks!Drop(s)
    BY <1>4, RefSkips
  <2> QED
    BY <2>1, Zenon DEF Tasks!TaskNext
<1>5. ASSUME NEW s \in Steps, DeliverDecision(s) \/ \E k \in 1..Last(s) : RecoverAttempt(s, k) PROVE Tasks!TaskNext
  <2>1. Tasks!Finish(s) \/ Tasks!Ask(s) \/ Tasks!GoOn(s) \/ Tasks!Unpick
    BY <1>5, RefHandOver
  <2> QED
    BY <2>1, Zenon DEF Tasks!TaskNext
<1>6. ASSUME DispatchSome PROVE Tasks!TaskNext
  <2>1. PICK S \in SUBSET Steps : Dispatch(S)
    BY <1>6 DEF DispatchSome
  <2>2. Tasks!Pick(S)
    BY <2>1, RefDispatch
  <2> QED
    BY <2>2, Zenon DEF Tasks!TaskNext
<1>7. ASSUME FailIfActive PROVE Tasks!TaskNext
  <2>1. Tasks!GiveUp \/ Tasks!Unpick
    BY <1>7, RefFails
  <2> QED
    BY <2>1, Zenon DEF Tasks!TaskNext
<1> QED
  BY <1>1, <1>2, <1>3, <1>4, <1>5, <1>6, <1>7 DEF LoopStep

\* Every step of the scheduler is one of TaskExecution's, or none.
LEMMA RefNext ==
    ASSUME StepInv, StepInv', RestType, [Next]_vars PROVE [Tasks!TaskNext]_(Tasks!taskVars)
<1>1. CASE UNCHANGED vars
  <2>1. UNCHANGED <<exec, step, att, job>>
    BY <1>1 DEF vars
  <2>2. UNCHANGED Tasks!taskVars
    BY <2>1, PickedAre DEF Tasks!taskVars, Mode, Turns, Last
  <2> QED
    BY <2>2
<1>2. ASSUME Heartbeat \/ LeaseLapses \/ OldLeaseLapses \/ Crash \/ Boot PROVE Tasks!TaskNext
  <2>1. UNCHANGED <<exec, step, att>> /\ (job' = job \/ job' = [t \in Steps |-> NoJob])
    BY <1>2 DEF Heartbeat, LeaseLapses, OldLeaseLapses, Crash, Boot, durable
  <2>2. \A t \in Steps : job'[t] = job[t] \/ job'[t] = NoJob
    BY <2>1
  <2>3. Tasks!Unpick
    BY <2>1, <2>2, RefQuiet
  <2> QED
    BY <2>3, Zenon DEF Tasks!TaskNext
<1>3. ASSUME Session PROVE Tasks!TaskNext
  <2>1. PICK s \in Steps : \E k \in 1..Last(s) :
            \E from \in SUBSET Unresolved, to \in Unresolved \cup Closed : Turn(s, k, from, to)
    BY <1>3, SessionTurns
  <2>2. Tasks!TurnEnds(s) \/ Tasks!Unpick
    BY <2>1, RefTurn
  <2> QED
    BY <2>2, Zenon DEF Tasks!TaskNext
<1>5. ASSUME LoopFails PROVE Tasks!TaskNext
  <2>1. UNCHANGED <<exec, step, att>> /\ job' = [t \in Steps |-> [job[t] EXCEPT !.fresh = FALSE]]
    BY <1>5 DEF LoopFails, durable
  <2>2. \A t \in Steps : job'[t] = [job[t] EXCEPT !.fresh = FALSE]
    BY <2>1
  <2>3. Tasks!Unpick
    BY <2>1, <2>2, RefQuiet
  <2> QED
    BY <2>3, Zenon DEF Tasks!TaskNext
<1>4. CASE Next
  BY <1>2, <1>3, <1>4, <1>5, RefUser, RefJob, RefLoop DEF Next
<1> QED
  BY <1>1, <1>4

\* The initial Execution.
LEMMA RefInit ==
    ASSUME Init PROVE Tasks!TaskInit
<1>1. Mode = "open"
  BY DEF Init, Mode, Ended
<1>2. [s \in Steps |-> WorkOf[step[s]]] = [s \in Steps |-> "todo"]
  BY WorkIs DEF Init
<1>3. Picked = {}
  BY DEF Init, Picked, Stands, Last, NoJob
<1>4. ASSUME NEW s \in Steps PROVE Turns(s) = 0
  <2>1. {k \in 1..Last(s) : att[s][k].turn \in Unresolved} = {}
    BY DEF Init, Last
  <2> QED
    BY <2>1, FS_EmptySet DEF Turns
<1> QED
  BY <1>1, <1>2, <1>3, <1>4 DEF Tasks!TaskInit

(***************************************************************************)
(* The scheduler, its jobs, the store, recovery, crashes and lapsed leases *)
(* implement TaskExecution, for every plan and every limit: from outside a *)
(* Step is started only when it was picked with its blockers done, has at  *)
(* most one Turn at work, succeeds only when that Turn is over, and is     *)
(* tried or redone only when none is left behind.                          *)
(***************************************************************************)
THEOREM Refines ==
    Spec => RefinesTasks
<1>1. Init => Tasks!TaskInit
  BY RefInit
<1>2. StepInv /\ StepInv' /\ RestType /\ [Next]_vars => [Tasks!TaskNext]_(Tasks!taskVars)
  BY RefNext
<1> QED
  BY <1>1, <1>2, StepInit, StepNext, TypeInit, TypeNext, PTL DEF Spec, RefinesTasks, Tasks!TaskSpec
=============================================================================

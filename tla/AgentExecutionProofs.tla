------------------------- MODULE AgentExecutionProofs -------------------------
(***************************************************************************)
(* What holds of an Execution whatever its plan, its limits, the commands  *)
(* of its user and the faults of its process.                              *)
(***************************************************************************)
EXTENDS AgentExecution, FiniteSetTheorems, TLAPS

StepStatus == StepEnded \cup {"pending", "running", "waiting"}
Carries == {"queued", "deliver", "observe", "watch", "settle"}
LoopPhases == {"down", "off", "acquire", "boot", "recover", "dispatch", "failing", "leaving"}

(***************************************************************************)
(* The invariant of one Step, with status w, Attempts A and job j.         *)
(* Entry is what holds of the newest Attempt, Old of the ones before it.   *)
(***************************************************************************)
Truthful(a) ==
    /\ a.status = "queued" => a = Reserved
    /\ a.status = "completed" => a.turn = "completed"
    /\ a.status = "waiting" /\ ~a.review /\ ~a.answered => a.turn = "input"
Old(a) == Truthful(a) /\ a.status \notin {"running", "waiting"} /\ a.turn \notin Unresolved
Entry(w, a) ==
    /\ Truthful(a)
    /\ a.turn \in Unresolved => w \in {"running", "waiting", "failed", "cancelled"}
    /\ a.status = "queued" => w = "pending"
    /\ a.status \in {"running", "waiting"} => w = a.status
    /\ a.status \notin ActiveAttempt => w \notin {"running", "waiting"}
Ledger(w, A) ==
    /\ \A k \in 1..(Len(A) - 1) : Old(A[k])
    /\ IF Len(A) = 0 THEN w \notin {"running", "waiting"} ELSE Entry(w, A[Len(A)])

(* What a job that has seen no change of its Step may rely on. *)
Carried(j, a) ==
    /\ j.phase = "queued" => a.status \in {"queued", "cancelled"}
    /\ j.phase \in {"deliver", "observe", "watch"} => a.status = "running"
    /\ j.phase \in {"observe", "watch"} => a.turn # "absent"
    /\ j.phase = "settle" =>
          /\ j.out \in {"receipt", "missing", "suspended", "refused"}
          /\ j.out = "refused" => a.status \in {"queued", "cancelled"}
          /\ j.out # "refused" => a.status = "running"
          /\ j.out = "receipt" => a.turn \in Closed
Backs(A, j) == j.phase \in Carries /\ ~j.stale => j.att = Len(A) /\ Carried(j, A[Len(A)])

(* A Step that has its verdict keeps no job that could start it. *)
Freed(w, A, j) == w \in {"completed", "failed"} /\ j.phase # "none" => j.att \notin {0, Len(A)}

Counts(A, j) ==
    /\ Len(A) <= MaxAttempts /\ j.att <= Len(A)
    /\ j.phase \in Carries => j.att # 0
    /\ j.phase = "admit" => j.att = 0
Local(w, A, j) == Counts(A, j) /\ Ledger(w, A) /\ Backs(A, j) /\ Freed(w, A, j)

Shapes ==
    /\ step \in [Steps -> StepStatus]
    /\ att \in [Steps -> Seq(AttemptType)]
    /\ job \in [Steps -> JobType]
StepInv == Shapes /\ \A s \in Steps : Local(step[s], att[s], job[s])

-----------------------------------------------------------------------------
\* Overwriting one element of a sequence.
LEMMA PutAt ==
    ASSUME NEW T, NEW q \in Seq(T), NEW k \in 1..Len(q), NEW x \in T
    PROVE  /\ [q EXCEPT ![k] = x] \in Seq(T)
           /\ Len([q EXCEPT ![k] = x]) = Len(q)
           /\ \A i \in 1..Len(q) : [q EXCEPT ![k] = x][i] = IF i = k THEN x ELSE q[i]
OBVIOUS

\* Adding one at its end.
LEMMA Grown ==
    ASSUME NEW T, NEW q \in Seq(T), NEW x \in T
    PROVE  /\ Append(q, x) \in Seq(T)
           /\ Len(Append(q, x)) = Len(q) + 1
           /\ Append(q, x)[Len(q) + 1] = x
           /\ \A i \in 1..Len(q) : Append(q, x)[i] = q[i]
OBVIOUS

\* A function on 1..n is a sequence of that length.
LEMMA Tabled ==
    ASSUME NEW T, NEW n \in Nat, NEW q \in [1..n -> T]
    PROVE  q \in Seq(T) /\ Len(q) = n
OBVIOUS

\* The newest Attempt is rewritten: the ones before it are not looked at.
LEMMA PutLast ==
    ASSUME NEW w, NEW A \in Seq(AttemptType), Ledger(w, A), Len(A) # 0,
           NEW x \in AttemptType, NEW v, Entry(v, x)
    PROVE  Ledger(v, [A EXCEPT ![Len(A)] = x])
<1> DEFINE B == [A EXCEPT ![Len(A)] = x]
<1>1. Len(A) \in 1..Len(A)
  OBVIOUS
<1>2. Len(B) = Len(A) /\ B[Len(A)] = x /\ \A i \in 1..(Len(A) - 1) : B[i] = A[i]
  BY <1>1, PutAt
<1> QED
  BY <1>2 DEF Ledger

\* The Step's status alone changes.
LEMMA Restatus ==
    ASSUME NEW w, NEW A \in Seq(AttemptType), Ledger(w, A), NEW v,
           Len(A) = 0 => v \notin {"running", "waiting"},
           Len(A) # 0 => Entry(v, A[Len(A)])
    PROVE  Ledger(v, A)
BY DEF Ledger

\* An Attempt that stands for a pending Step is Old once another one follows it.
LEMMA Grows ==
    ASSUME NEW A \in Seq(AttemptType), Ledger("pending", A)
    PROVE  Ledger("pending", Append(A, Reserved))
<1> DEFINE B == Append(A, Reserved)
<1>0. Reserved \in AttemptType /\ Entry("pending", Reserved)
  BY DEF Reserved, AttemptType, Statuses, ActiveAttempt, Unresolved, Entry, Truthful
<1>1. /\ Len(B) = Len(A) + 1 /\ B[Len(A) + 1] = Reserved
      /\ \A i \in 1..Len(A) : B[i] = A[i]
  BY <1>0, Grown
<1>2. ASSUME NEW k \in 1..Len(A) PROVE Old(A[k])
  <2>1. CASE k = Len(A)
    BY <2>1 DEF Ledger, Entry, Old
  <2>2. CASE k # Len(A)
    BY <2>2 DEF Ledger
  <2> QED
    BY <2>1, <2>2
<1> QED
  BY <1>0, <1>1, <1>2 DEF Ledger

-----------------------------------------------------------------------------
(***************************************************************************)
(* Cancelling: the active Attempts of a Step with a status in W.           *)
(***************************************************************************)
Revoked(a, W) == IF a.status \in W THEN [a EXCEPT !.status = "cancelled"] ELSE a
RevokedAll(A, W) == [k \in 1..Len(A) |-> Revoked(A[k], W)]
Closing(w) == IF w \in StepEnded THEN w ELSE "cancelled"

\* Cancelling an Attempt keeps what holds of it.
LEMMA RevokeOne ==
    ASSUME NEW a \in AttemptType, NEW w \in StepStatus
    PROVE  /\ \A W \in SUBSET ActiveAttempt : Revoked(a, W) \in AttemptType
           /\ \A W \in SUBSET ActiveAttempt : Old(a) => Old(Revoked(a, W))
           /\ Entry(w, a) => Entry(w, Revoked(a, {"queued"}))
           /\ Entry(w, a) => Entry(Closing(w), Revoked(a, ActiveAttempt))
<1>0. /\ \A W : a.status \in W =>
            /\ Revoked(a, W).status = "cancelled" /\ Revoked(a, W).turn = a.turn
            /\ Revoked(a, W) \in AttemptType
      /\ \A W : a.status \notin W => Revoked(a, W) = a
  BY DEF Revoked, AttemptType, Statuses
<1>1. a.status = "queued" /\ Truthful(a) => a.turn = "absent"
  BY DEF Truthful, Reserved
<1>2. \A W : a.status \in W => Truthful(Revoked(a, W))
  BY <1>0 DEF Truthful
<1>3. \A W \in SUBSET ActiveAttempt : Old(a) => Old(Revoked(a, W))
  BY <1>0, <1>2 DEF Old
<1>4. Entry(w, a) => Entry(w, Revoked(a, {"queued"}))
  BY <1>0, <1>1, <1>2 DEF Entry, Unresolved, ActiveAttempt
<1>5. Entry(w, a) => Entry(Closing(w), Revoked(a, ActiveAttempt))
  BY <1>0, <1>1, <1>2 DEF Entry, Unresolved, ActiveAttempt, Closing, StepEnded, StepStatus
<1> QED
  BY <1>0, <1>3, <1>4, <1>5

\* ... and so does cancelling those of a whole Step.
LEMMA RevokeAll ==
    ASSUME NEW A \in Seq(AttemptType), NEW w \in StepStatus, Ledger(w, A)
    PROVE  /\ \A W \in SUBSET ActiveAttempt :
                 RevokedAll(A, W) \in Seq(AttemptType) /\ Len(RevokedAll(A, W)) = Len(A)
           /\ Ledger(w, RevokedAll(A, {"queued"}))
           /\ Ledger(Closing(w), RevokedAll(A, ActiveAttempt))
<1>0. /\ Len(A) \in Nat /\ \A k \in 1..Len(A) : A[k] \in AttemptType
      /\ {"queued"} \in SUBSET ActiveAttempt /\ ActiveAttempt \in SUBSET ActiveAttempt
  BY DEF ActiveAttempt
<1>1. ASSUME NEW W \in SUBSET ActiveAttempt
      PROVE  /\ RevokedAll(A, W) \in Seq(AttemptType) /\ Len(RevokedAll(A, W)) = Len(A)
             /\ \A k \in 1..Len(A) : RevokedAll(A, W)[k] = Revoked(A[k], W)
             /\ \A k \in 1..(Len(A) - 1) : Old(RevokedAll(A, W)[k])
  <2>1. RevokedAll(A, W) \in [1..Len(A) -> AttemptType]
    BY <1>0, RevokeOne DEF RevokedAll
  <2>2. RevokedAll(A, W) \in Seq(AttemptType) /\ Len(RevokedAll(A, W)) = Len(A)
    BY <1>0, <2>1, Tabled
  <2>3. \A k \in 1..Len(A) : RevokedAll(A, W)[k] = Revoked(A[k], W)
    BY DEF RevokedAll
  <2>4. \A k \in 1..(Len(A) - 1) : Old(RevokedAll(A, W)[k])
    BY <1>0, <2>3, RevokeOne DEF Ledger
  <2> QED
    BY <2>2, <2>3, <2>4
<1>2. CASE Len(A) = 0
  BY <1>0, <1>1, <1>2 DEF Ledger, Closing, StepEnded
<1>3. CASE Len(A) # 0
  <2>1. Len(A) \in 1..Len(A) /\ Entry(w, A[Len(A)]) /\ A[Len(A)] \in AttemptType
    BY <1>0, <1>3 DEF Ledger
  <2>2. Entry(w, Revoked(A[Len(A)], {"queued"})) /\ Entry(Closing(w), Revoked(A[Len(A)], ActiveAttempt))
    BY <2>1, RevokeOne
  <2> QED
    BY <1>0, <1>1, <1>3, <2>1, <2>2 DEF Ledger
<1> QED
  BY <1>2, <1>3

(***************************************************************************)
(* A Step's version advances: its job keeps its phase and its Attempt, and *)
(* one that carries a Turn finds its Step changed.                         *)
(***************************************************************************)
Newer(i, j) ==
    /\ j \in JobType
    /\ j.phase = i.phase /\ j.att = i.att /\ j.out = i.out /\ j.hard = i.hard /\ j.fresh = i.fresh
    /\ i.stale => j.stale

\* What Advance does to every job.
LEMMA Advanced ==
    ASSUME job \in [Steps -> JobType], NEW S
    PROVE  /\ Advance(job, S) \in [Steps -> JobType]
           /\ \A s \in Steps : Newer(job[s], Advance(job, S)[s])
           /\ \A s \in Steps \ S : Advance(job, S)[s] = job[s]
           /\ \A s \in Steps \cap S : job[s].phase \in Carries /\ job[s].att # 0 => Advance(job, S)[s].stale
<1>1. ASSUME NEW s \in Steps
      PROVE  /\ Newer(job[s], Advance(job, S)[s])
             /\ s \notin S => Advance(job, S)[s] = job[s]
             /\ s \in S /\ job[s].phase \in Carries /\ job[s].att # 0 => Advance(job, S)[s].stale
  <2> DEFINE i == job[s]
             st == i.stale \/ Compares(i)
             rs == IF i.att # 0 \/ i.res = 2 THEN i.res ELSE i.res + 1
  <2>0. i \in JobType /\ i.res \in 0..2 /\ i.stale \in BOOLEAN /\ i.att \in 0..MaxAttempts /\ MaxAttempts \in Nat
    BY ExecutionAssumption DEF JobType
  <2>1. st \in BOOLEAN /\ rs \in 0..2
    BY <2>0
  <2>2. Advance(job, S)[s] = IF s \notin S \/ i.phase = "none" THEN i ELSE [i EXCEPT !.stale = st, !.res = rs]
    BY DEF Advance
  <2>3. i.phase \in Carries /\ i.att # 0 => st
    BY DEF Compares, Carries
  <2> HIDE DEF st, rs
  <2>4. [i EXCEPT !.stale = st, !.res = rs] \in JobType
    BY <2>0, <2>1 DEF JobType
  <2>5. [i EXCEPT !.stale = st, !.res = rs].stale = st
    BY <2>0 DEF JobType
  <2>6. i.stale => st
    BY DEF st
  <2>7. Newer(i, [i EXCEPT !.stale = st, !.res = rs])
    BY <2>0, <2>4, <2>5, <2>6 DEF Newer, JobType
  <2>8. Newer(i, i)
    BY <2>0 DEF Newer
  <2>9. i.phase \in Carries => i.phase # "none"
    BY DEF Carries
  <2> QED
    BY <2>2, <2>3, <2>5, <2>7, <2>8, <2>9
<1>2. Advance(job, S) \in [Steps -> JobType]
  BY <1>1 DEF Advance, Newer
<1> QED
  BY <1>1, <1>2

-----------------------------------------------------------------------------
(***************************************************************************)
(* Steps that one action leaves alone keep their invariant.                *)
(***************************************************************************)
\* One Step is rewritten, with its Attempts and its job.
LEMMA OneStep ==
    ASSUME StepInv, NEW s \in Steps,
           NEW w \in StepStatus, NEW A \in Seq(AttemptType), NEW j \in JobType,
           step' = [step EXCEPT ![s] = w], att' = [att EXCEPT ![s] = A], job' = [job EXCEPT ![s] = j],
           Local(w, A, j)
    PROVE  StepInv'
<1>1. Shapes'
  BY DEF StepInv, Shapes
<1>2. ASSUME NEW t \in Steps PROVE Local(step'[t], att'[t], job'[t])
  <2>1. CASE t = s
    <3>1. step'[t] = w /\ att'[t] = A /\ job'[t] = j
      BY <2>1 DEF StepInv, Shapes
    <3> QED
      BY <3>1
  <2>2. CASE t # s
    <3>1. step'[t] = step[t] /\ att'[t] = att[t] /\ job'[t] = job[t]
      BY <2>2 DEF StepInv, Shapes
    <3>2. Local(step[t], att[t], job[t])
      BY DEF StepInv
    <3> QED
      BY <3>1, <3>2
  <2> QED
    BY <2>1, <2>2
<1> QED
  BY <1>1, <1>2 DEF StepInv

\* Only the job of one Step moves.
LEMMA OneJob ==
    ASSUME StepInv, NEW s \in Steps, NEW j \in JobType,
           UNCHANGED <<step, att>>, job' = [job EXCEPT ![s] = j],
           Counts(att[s], j), Backs(att[s], j), Freed(step[s], att[s], j)
    PROVE  StepInv'
<1>1. step[s] \in StepStatus /\ att[s] \in Seq(AttemptType) /\ Local(step[s], att[s], j)
  BY DEF StepInv, Shapes, Local
<1>2. step' = [step EXCEPT ![s] = step[s]] /\ att' = [att EXCEPT ![s] = att[s]]
  BY DEF StepInv, Shapes
<1> QED
  BY <1>1, <1>2, OneStep

\* The job of one Step ends, or goes on without a Turn.
LEMMA Idles ==
    ASSUME StepInv, NEW s \in Steps, NEW j \in JobType,
           UNCHANGED <<step, att>>, job' = [job EXCEPT ![s] = j],
           j.phase \notin Carries, j.phase = "admit" => j.att = 0,
           \/ j.phase = "none" /\ j.att = 0
           \/ j.att = job[s].att /\ job[s].phase # "none"
    PROVE  StepInv'
<1>1. Local(step[s], att[s], job[s]) /\ Len(att[s]) \in Nat
  BY DEF StepInv, Shapes
<1>2. Counts(att[s], j) /\ Backs(att[s], j)
  BY <1>1 DEF Local, Counts, Backs
<1>3. Freed(step[s], att[s], j)
  BY <1>1 DEF Local, Freed
<1> QED
  BY <1>2, <1>3, OneJob

\* A job may be rewritten field by field.
LEMMA Rewritten ==
    ASSUME NEW i \in JobType, NEW p \in JobPhases, NEW k \in 0..MaxAttempts, NEW b \in BOOLEAN,
           NEW r \in 0..2, NEW o \in {"none", "receipt", "missing", "refused", "suspended"}
    PROVE  [i EXCEPT !.phase = p, !.att = k, !.stale = b, !.res = r, !.out = o] \in JobType
BY ExecutionAssumption DEF JobType

\* A job that is not there, or new.
LEMMA FreshJob ==
    /\ NoJob \in JobType /\ NoJob.phase = "none" /\ NoJob.att = 0
    /\ \A p \in JobPhases : \A k \in 0..MaxAttempts :
          NewJob(p, k) \in JobType /\ NewJob(p, k).phase = p /\ NewJob(p, k).att = k
<1>0. MaxAttempts \in Nat
  BY ExecutionAssumption
<1>1. NoJob \in JobType /\ NoJob.phase = "none" /\ NoJob.att = 0
  BY <1>0 DEF NoJob, JobType, JobPhases
<1>2. ASSUME NEW p \in JobPhases, NEW k \in 0..MaxAttempts
      PROVE  NewJob(p, k) \in JobType /\ NewJob(p, k).phase = p /\ NewJob(p, k).att = k
  <2>1. NewJob(p, k) \in JobType
    BY <1>0, <1>1 DEF NewJob, JobType
  <2>2. NewJob(p, k).phase = p /\ NewJob(p, k).att = k
    BY DEF NewJob, NoJob
  <2> QED
    BY <2>1, <2>2
<1> QED
  BY <1>1, <1>2

\* The moves of a job: to recovery,
LEMMA Recovered ==
    ASSUME job \in [Steps -> JobType], NEW s \in Steps, ToRecovery(s)
    PROVE  \E j \in JobType : job' = [job EXCEPT ![s] = j] /\ j.phase = "recover" /\ j.att = job[s].att
<1> DEFINE j == [job[s] EXCEPT !.phase = "recover", !.stale = FALSE, !.out = "none"]
<1>1. job' = [job EXCEPT ![s] = j]
  BY DEF ToRecovery
<1>2. j \in JobType /\ j.phase = "recover" /\ j.att = job[s].att
  BY DEF JobType, JobPhases
<1> HIDE DEF j
<1> QED
  BY <1>1, <1>2

\* to settlement,
LEMMA Outcome ==
    ASSUME job \in [Steps -> JobType], NEW s \in Steps,
           NEW o \in {"receipt", "missing", "refused", "suspended"}, WithOutcome(s, o)
    PROVE  \E j \in JobType : /\ job' = [job EXCEPT ![s] = j] /\ j.phase = "settle"
                              /\ j.att = job[s].att /\ j.stale = job[s].stale /\ j.out = o
<1> DEFINE j == [job[s] EXCEPT !.phase = "settle", !.out = o]
<1>1. job' = [job EXCEPT ![s] = j]
  BY DEF WithOutcome
<1>2. j \in JobType /\ j.phase = "settle" /\ j.att = job[s].att /\ j.stale = job[s].stale /\ j.out = o
  BY DEF JobType, JobPhases
<1> HIDE DEF j
<1> QED
  BY <1>1, <1>2

\* to another Attempt,
LEMMA Rebound ==
    ASSUME job \in [Steps -> JobType], NEW s \in Steps, NEW p \in JobPhases, NEW k \in 0..MaxAttempts,
           Bound(s, p, k)
    PROVE  \E j \in JobType : job' = [job EXCEPT ![s] = j] /\ j.phase = p /\ j.att = k
<1> DEFINE j == [job[s] EXCEPT !.phase = p, !.att = k, !.stale = FALSE, !.res = 0, !.out = "none"]
<1>1. job' = [job EXCEPT ![s] = j]
  BY DEF Bound
<1>2. j.phase = p /\ j.att = k
  BY DEF JobType
<1>3. /\ job[s] \in JobType /\ 0 \in 0..2 /\ FALSE \in BOOLEAN
      /\ "none" \in {"none", "receipt", "missing", "refused", "suspended"}
  OBVIOUS
<1>4. j \in JobType
  BY <1>3, Rewritten, Zenon
<1> HIDE DEF j
<1> QED
  BY <1>1, <1>2, <1>4

EntersPhase(s, p) == job' = [job EXCEPT ![s].phase = p]

\* and to its next phase.
LEMMA Phased ==
    ASSUME job \in [Steps -> JobType], NEW s \in Steps, NEW p \in JobPhases, EntersPhase(s, p)
    PROVE  \E j \in JobType : /\ job' = [job EXCEPT ![s] = j]
                              /\ j.phase = p /\ j.att = job[s].att /\ j.stale = job[s].stale
<1> DEFINE j == [job[s] EXCEPT !.phase = p]
<1>1. job' = [job EXCEPT ![s] = j]
  BY DEF EntersPhase
<1>2. j \in JobType /\ j.phase = p /\ j.att = job[s].att /\ j.stale = job[s].stale
  BY DEF JobType
<1> HIDE DEF j
<1> QED
  BY <1>1, <1>2

\* A job that ends or turns to recovery disturbs nothing.
LEMMA JobStops ==
    ASSUME StepInv, NEW s \in Steps, UNCHANGED <<step, att>>,
           EndJob(s) \/ (job[s].phase # "none" /\ ToRecovery(s))
    PROVE  StepInv'
<1>0. job \in [Steps -> JobType] /\ NoJob \in JobType /\ NoJob.phase = "none" /\ NoJob.att = 0
  BY FreshJob DEF StepInv, Shapes
<1>1. CASE EndJob(s)
  <2>1. job' = [job EXCEPT ![s] = NoJob]
    BY <1>1 DEF EndJob
  <2>2. "none" \notin Carries
    BY DEF Carries
  <2> QED
    BY <1>0, <2>1, <2>2, Idles
<1>2. CASE job[s].phase # "none" /\ ToRecovery(s)
  <2>1. PICK j \in JobType : job' = [job EXCEPT ![s] = j] /\ j.phase = "recover" /\ j.att = job[s].att
    BY <1>0, <1>2, Recovered
  <2>2. "recover" \notin Carries
    BY DEF Carries
  <2> QED
    BY <1>2, <2>1, <2>2, Idles
<1> QED
  BY <1>1, <1>2

-----------------------------------------------------------------------------
(***************************************************************************)
(* One lemma for each action that touches a Step, its Attempts or its job. *)
(***************************************************************************)

\* The newest Attempt of a Step, as its invariant describes it.
LEMMA Newest ==
    ASSUME StepInv, NEW s \in Steps
    PROVE  /\ step[s] \in StepStatus /\ att[s] \in Seq(AttemptType) /\ job[s] \in JobType
           /\ Last(s) \in 0..MaxAttempts /\ job[s].att \in 0..Last(s)
           /\ Ledger(step[s], att[s]) /\ Backs(att[s], job[s]) /\ Freed(step[s], att[s], job[s])
           /\ job[s].phase \in Carries => job[s].att \in 1..Last(s)
           /\ job[s].phase = "admit" => job[s].att = 0
           /\ \A k \in 1..Last(s) : att[s][k] \in AttemptType
           /\ \A k \in 1..Last(s) : k # Last(s) => Old(att[s][k])
           /\ Last(s) # 0 => Last(s) \in 1..Last(s) /\ Current(s) \in AttemptType /\ Entry(step[s], Current(s))
           /\ Last(s) = 0 => step[s] \notin {"running", "waiting"}
<1>1. step[s] \in StepStatus /\ att[s] \in Seq(AttemptType) /\ job[s] \in JobType /\ Local(step[s], att[s], job[s])
  BY DEF StepInv, Shapes
<1>2. MaxAttempts \in Nat /\ Len(att[s]) \in Nat /\ job[s].att \in 0..MaxAttempts
  BY <1>1, ExecutionAssumption DEF JobType
<1>3. Ledger(step[s], att[s]) /\ Backs(att[s], job[s]) /\ Freed(step[s], att[s], job[s]) /\ Counts(att[s], job[s])
  BY <1>1 DEF Local
<1>4. /\ Last(s) \in 0..MaxAttempts /\ job[s].att \in 0..Last(s)
      /\ job[s].phase \in Carries => job[s].att \in 1..Last(s)
      /\ job[s].phase = "admit" => job[s].att = 0
  BY <1>2, <1>3 DEF Counts, Last
<1>5. /\ \A k \in 1..Last(s) : att[s][k] \in AttemptType
      /\ \A k \in 1..Last(s) : k # Last(s) => Old(att[s][k])
  BY <1>1, <1>2, <1>3 DEF Ledger, Last
<1>6. /\ Last(s) # 0 => Last(s) \in 1..Last(s) /\ Current(s) \in AttemptType /\ Entry(step[s], Current(s))
      /\ Last(s) = 0 => step[s] \notin {"running", "waiting"}
  BY <1>1, <1>2, <1>3 DEF Ledger, Last, Current
<1> QED
  BY <1>1, <1>3, <1>4, <1>5, <1>6

\* Prepare, and the preparation error no later pass can repair, move the job alone.
LEMMA StepPrepare ==
    ASSUME StepInv, NEW s \in Steps, Prepare(s) \/ PrepareFails(s)
    PROVE  StepInv'
<1>0. UNCHANGED <<step, att>>
  BY DEF Prepare, PrepareFails, durable
<1>1. job \in [Steps -> JobType] /\ job[s] \in JobType
  BY DEF StepInv, Shapes
<1>2. job[s].phase = "prepare"
  BY DEF Prepare, PrepareFails
<1>3. CASE EndJob(s) \/ ToRecovery(s)
  BY <1>0, <1>2, <1>3, JobStops
<1>4. CASE job[s].att = 0 /\ job' = [job EXCEPT ![s].phase = "admit"]
  <2>1. PICK j \in JobType : job' = [job EXCEPT ![s] = j] /\ j.phase = "admit" /\ j.att = job[s].att
    <3>1. "admit" \in JobPhases /\ EntersPhase(s, "admit")
      BY <1>4 DEF JobPhases, EntersPhase
    <3> QED
      BY <1>1, <3>1, Phased
  <2>2. "admit" \notin Carries
    BY DEF Carries
  <2> QED
    BY <1>0, <1>2, <1>4, <2>1, <2>2, Idles
<1>5. CASE /\ job[s].att = Last(s) /\ job[s].att # 0 /\ Current(s).status = "queued" /\ step[s] = "pending"
           /\ job' = [job EXCEPT ![s].phase = "queued"]
  <2>1. PICK j \in JobType : job' = [job EXCEPT ![s] = j] /\ j.phase = "queued" /\ j.att = job[s].att
    <3>1. "queued" \in JobPhases /\ EntersPhase(s, "queued")
      BY <1>5 DEF JobPhases, EntersPhase
    <3> QED
      BY <1>1, <3>1, Phased
  <2>2. Last(s) \in 0..MaxAttempts /\ MaxAttempts \in Nat
    BY Newest, ExecutionAssumption
  <2>3. Counts(att[s], j)
    BY <1>5, <2>1, <2>2 DEF Counts, Last
  <2>4. Backs(att[s], j)
    BY <1>5, <2>1 DEF Backs, Carried, Last, Current
  <2>5. Freed(step[s], att[s], j)
    BY <1>5 DEF Freed
  <2> QED
    BY <1>0, <2>1, <2>3, <2>4, <2>5, OneJob
<1>6. CASE PrepareFails(s)
  <2> DEFINE j == [job[s] EXCEPT !.phase = "recover", !.hard = TRUE]
  <2>1. job' = [job EXCEPT ![s] = j]
    BY <1>6 DEF PrepareFails
  <2>2. j \in JobType /\ j.phase = "recover" /\ j.att = job[s].att
    BY <1>1 DEF JobType, JobPhases
  <2>3. "recover" \notin Carries
    BY DEF Carries
  <2> HIDE DEF j
  <2> QED
    BY <1>0, <1>2, <2>1, <2>2, <2>3, Idles
<1> QED
  BY <1>3, <1>4, <1>5, <1>6 DEF Prepare

\* A job that gives up, is refused or finds its Step changed.
LEMMA StepRefusals ==
    ASSUME StepInv, NEW s \in Steps,
           AdmitRefused(s) \/ SettleEnds(s) \/ SettleStale(s) \/ RecoverGivesUp(s)
    PROVE  StepInv'
<1>1. UNCHANGED <<step, att>> /\ (EndJob(s) \/ (job[s].phase # "none" /\ ToRecovery(s)))
  BY DEF AdmitRefused, SettleEnds, SettleStale, RecoverGivesUp, durable
<1> QED
  BY <1>1, JobStops

\* A job takes the outcome it saw to settlement.
LEMMA StepOutcome ==
    ASSUME StepInv, NEW s \in Steps, LinkFails(s) \/ Observe(s) \/ Deadline(s)
    PROVE  StepInv'
<1> DEFINE i == job[s]
           a == att[s][job[s].att]
           out == IF i.phase = "queued" THEN "refused" ELSE IF a.turn = "running" THEN "missing"
                  ELSE IF a.turn = "suspended" THEN "suspended" ELSE "receipt"
<1>1. UNCHANGED <<step, att>> /\ i.phase \in Carries \ {"settle"} /\ WithOutcome(s, out)
  BY DEF LinkFails, Observe, Deadline, durable, Carries
<1>2. job \in [Steps -> JobType] /\ out \in {"receipt", "missing", "refused", "suspended"}
  BY DEF StepInv, Shapes
<1> HIDE DEF out
<1>3. PICK j \in JobType : /\ job' = [job EXCEPT ![s] = j] /\ j.phase = "settle" /\ j.att = i.att
                           /\ j.stale = i.stale /\ j.out = out
  BY <1>1, <1>2, Outcome
<1>4. /\ i.att \in 1..Last(s) /\ Backs(att[s], i) /\ Freed(step[s], att[s], i) /\ Last(s) \in 0..MaxAttempts
      /\ a \in AttemptType
  BY <1>1, Newest
<1>5. Counts(att[s], j)
  BY <1>3, <1>4, ExecutionAssumption DEF Counts, Last
<1>6. Freed(step[s], att[s], j)
  BY <1>1, <1>3, <1>4 DEF Freed, Carries
<1>7. Backs(att[s], j)
  <2>1. SUFFICES ASSUME ~i.stale PROVE i.att = Len(att[s]) /\ Carried(j, a)
    BY <1>3 DEF Backs
  <2>2. i.att = Len(att[s]) /\ Carried(i, a)
    BY <1>1, <1>4, <2>1 DEF Backs
  <2>3. a.turn \in Unresolved \cup Closed \cup {"absent"}
    BY <1>4 DEF AttemptType
  <2>4. i.phase \in {"deliver"} => FALSE
    BY DEF LinkFails, Observe, Deadline
  <2> QED
    BY <1>1, <1>3, <2>2, <2>3, <2>4 DEF Carried, Carries, Unresolved, out
<1> QED
  BY <1>1, <1>3, <1>5, <1>6, <1>7, OneJob

\* A job is bound to, or made for, the newest Attempt of its Step.
LEMMA StepAdopts ==
    ASSUME StepInv, NEW s \in Steps, RecoverAdopts(s) \/ RecoverResumes(s) \/ DeliverDecision(s)
    PROVE  StepInv'
<1>0. /\ job \in [Steps -> JobType] /\ UNCHANGED <<step, att>> /\ Last(s) \in 0..MaxAttempts
      /\ {"recover", "prepare", "deliver"} \subseteq JobPhases
  BY Newest DEF StepInv, Shapes, RecoverAdopts, RecoverResumes, DeliverDecision, durable, JobPhases
<1>1. CASE RecoverResumes(s) /\ EndJob(s)
  BY <1>0, <1>1, JobStops
<1>2. CASE ~(RecoverResumes(s) /\ EndJob(s))
  <2>1. Last(s) # 0 /\ Current(s).status \in {"queued", "running"}
    BY DEF RecoverAdopts, RecoverResumes, DeliverDecision, Reserves, Owns, Delivers, Decided
  <2>2. Entry(step[s], Current(s))
    BY <2>1, Newest
  <2>3. PICK j \in JobType : /\ job' = [job EXCEPT ![s] = j] /\ j.att = Last(s)
                             /\ j.phase \in {"recover", "prepare", "deliver"}
                             /\ j.phase = "deliver" => Current(s).status = "running"
    <3>1. CASE RecoverAdopts(s)
      <4>1. Bound(s, "recover", Last(s))
        BY <3>1 DEF RecoverAdopts
      <4>2. \E j \in JobType : job' = [job EXCEPT ![s] = j] /\ j.phase = "recover" /\ j.att = Last(s)
        BY <1>0, <4>1, Rebound
      <4> QED
        BY <4>2
    <3>2. CASE RecoverResumes(s)
      <4>1. job' = [job EXCEPT ![s] = NewJob("prepare", Last(s))]
        BY <1>2, <3>2 DEF RecoverResumes
      <4> QED
        BY <1>0, <4>1, FreshJob
    <3>3. CASE DeliverDecision(s)
      <4>1. job' = [job EXCEPT ![s] = NewJob("deliver", Last(s))] /\ Current(s).status = "running"
        BY <3>3 DEF DeliverDecision, Delivers
      <4> QED
        BY <1>0, <4>1, FreshJob
    <3> QED
      BY <3>1, <3>2, <3>3
  <2>4. Counts(att[s], j)
    BY <1>0, <2>1, <2>3, ExecutionAssumption DEF Counts, Last
  <2>5. Backs(att[s], j)
    BY <2>3 DEF Backs, Carried, Last, Current, Carries
  <2>6. Freed(step[s], att[s], j)
    BY <2>1, <2>2 DEF Freed, Entry
  <2> QED
    BY <1>0, <2>3, <2>4, <2>5, <2>6, OneJob
<1> QED
  BY <1>1, <1>2

(* A job j fits a Step with status v whose newest Attempt, number n, is x. *)
Fits(v, n, x, j) ==
    /\ j.att <= n
    /\ j.phase = "admit" => j.att = 0
    /\ j.phase \in Carries => j.att # 0 /\ (~j.stale => j.att = n /\ Carried(j, x))
    /\ v \in {"completed", "failed"} /\ j.phase # "none" => j.att \notin {0, n}

\* The newest Attempt of a Step is rewritten, with the Step's status and its job.
LEMMA OnNewest ==
    ASSUME StepInv, NEW s \in Steps, Last(s) # 0,
           NEW v \in StepStatus, NEW x \in AttemptType, NEW j \in JobType,
           Entry(v, x), Fits(v, Last(s), x, j),
           Record(s, Last(s), x, v), job' = [job EXCEPT ![s] = j]
    PROVE  StepInv'
<1> DEFINE B == [att[s] EXCEPT ![Last(s)] = x]
<1>1. /\ att[s] \in Seq(AttemptType) /\ Last(s) \in 1..Last(s) /\ Last(s) \in 0..MaxAttempts
      /\ Ledger(step[s], att[s])
  BY Newest
<1>2. att' = [att EXCEPT ![s] = B] /\ step' = [step EXCEPT ![s] = v]
  BY DEF Record
<1>3. B \in Seq(AttemptType) /\ Len(B) = Last(s) /\ B[Last(s)] = x
  BY <1>1, PutAt DEF Last
<1>4. Ledger(v, B)
  BY <1>1, PutLast DEF Last
<1> HIDE DEF B
<1>5. Counts(B, j)
  BY <1>1, <1>3, ExecutionAssumption DEF Counts, Fits
<1>6. Backs(B, j) /\ Freed(v, B, j)
  BY <1>3 DEF Backs, Freed, Fits
<1> QED
  BY <1>2, <1>3, <1>4, <1>5, <1>6, OneStep DEF Local

\* create_attempt, whatever becomes of its reply.
LEMMA StepAdmit ==
    ASSUME StepInv, NEW s \in Steps, Admit(s) \/ AdmitReplyLost(s)
    PROVE  StepInv'
<1> DEFINE B == Append(att[s], Reserved)
<1>1. /\ att' = [att EXCEPT ![s] = B] /\ step' = step /\ step[s] = "pending" /\ Last(s) < MaxAttempts
      /\ job[s].phase = "admit"
  BY DEF Admit, AdmitReplyLost, CreateAttempt, MayReserve, Room
<1>2. att[s] \in Seq(AttemptType) /\ Last(s) \in 0..MaxAttempts /\ Ledger(step[s], att[s]) /\ job[s].att \in 0..Last(s)
  BY Newest
<1>3. Reserved \in AttemptType /\ MaxAttempts \in Nat
  BY ExecutionAssumption DEF Reserved, AttemptType, Statuses, ActiveAttempt
<1>4. B \in Seq(AttemptType) /\ Len(B) = Last(s) + 1 /\ B[Last(s) + 1] = Reserved
  BY <1>2, <1>3, Grown DEF Last
<1>5. Ledger("pending", B)
  BY <1>1, <1>2, Grows
<1>6. job \in [Steps -> JobType] /\ job[s] \in JobType /\ step \in [Steps -> StepStatus]
  BY DEF StepInv, Shapes
<1>7. PICK j \in JobType : /\ job' = [job EXCEPT ![s] = j]
                           /\ \/ j.phase = "queued" /\ j.att = Last(s) + 1
                              \/ j.phase = "recover" /\ j.att = job[s].att
  <2>1. CASE Admit(s)
    <3>1. Bound(s, "queued", Last(s) + 1)
      BY <2>1 DEF Admit
    <3>2. "queued" \in JobPhases /\ Last(s) + 1 \in 0..MaxAttempts
      BY <1>1, <1>2, <1>3 DEF JobPhases
    <3>3. \E j \in JobType : job' = [job EXCEPT ![s] = j] /\ j.phase = "queued" /\ j.att = Last(s) + 1
      BY <1>6, <3>1, <3>2, Rebound
    <3> QED
      BY <3>3
  <2>2. CASE AdmitReplyLost(s)
    <3> DEFINE r == IF job[s].res = 2 THEN 2 ELSE job[s].res + 1
               j == [job[s] EXCEPT !.phase = "recover", !.res = r]
    <3>1. job' = [job EXCEPT ![s] = j]
      BY <2>2 DEF AdmitReplyLost
    <3>2. r \in 0..2
      BY <1>6 DEF JobType
    <3> HIDE DEF r
    <3>3. j \in JobType /\ j.phase = "recover" /\ j.att = job[s].att
      BY <1>6, <3>2 DEF JobType, JobPhases
    <3> HIDE DEF j
    <3> QED
      BY <3>1, <3>3
  <2> QED
    BY <2>1, <2>2
<1> HIDE DEF B
<1>8. Counts(B, j)
  BY <1>1, <1>2, <1>3, <1>4, <1>7 DEF Counts, Carries
<1>9. Backs(B, j)
  BY <1>4, <1>7 DEF Backs, Carries, Carried, Reserved
<1>10. Freed("pending", B, j)
  BY DEF Freed
<1>11. step' = [step EXCEPT ![s] = "pending"] /\ "pending" \in StepStatus
  BY <1>1, <1>6 DEF StepStatus
<1> QED
  BY <1>1, <1>4, <1>5, <1>7, <1>8, <1>9, <1>10, <1>11, OneStep DEF Local

\* start_attempt.
LEMMA StepBegin ==
    ASSUME StepInv, NEW s \in Steps, Begin(s)
    PROVE  StepInv'
<1> DEFINE k == job[s].att
           a == att[s][k]
           x == [a EXCEPT !.status = "running"]
<1>1. job[s].phase = "queued" /\ "queued" \in Carries /\ job[s].phase # "none"
  BY DEF Begin, Carries
<1>2. CASE UNCHANGED <<step, att>> /\ ToRecovery(s)
  BY <1>1, <1>2, JobStops
<1>3. CASE /\ step[s] = "pending" /\ ~job[s].stale /\ a.status = "queued"
           /\ Record(s, k, x, "running")
           /\ job' = [job EXCEPT ![s].phase = "deliver"]
  <2>1. Backs(att[s], job[s]) /\ k \in 1..Last(s) /\ a \in AttemptType /\ job \in [Steps -> JobType]
    BY <1>1, Newest DEF StepInv, Shapes
  <2>2. k = Last(s) /\ Last(s) # 0 /\ Truthful(a)
    BY <1>1, <1>3, <2>1, Newest DEF Backs, Last, Current, Entry
  <2>3. x \in AttemptType /\ x.status = "running" /\ x.turn = "absent"
    BY <1>3, <2>1, <2>2 DEF AttemptType, Statuses, ActiveAttempt, Truthful, Reserved
  <2>4. PICK j \in JobType : job' = [job EXCEPT ![s] = j] /\ j.phase = "deliver" /\ j.att = k
    <3>1. "deliver" \in JobPhases /\ EntersPhase(s, "deliver")
      BY <1>3 DEF JobPhases, EntersPhase
    <3> QED
      BY <2>1, <3>1, Phased
  <2> HIDE DEF x, a
  <2>5. Entry("running", x)
    BY <2>3 DEF Entry, Truthful, ActiveAttempt
  <2>6. Fits("running", Last(s), x, j)
    BY <2>2, <2>3, <2>4, Newest DEF Fits, Carried
  <2>7. "running" \in StepStatus
    BY DEF StepStatus
  <2> HIDE DEF k
  <2> QED
    BY <1>3, <2>2, <2>3, <2>4, <2>5, <2>6, <2>7, OnNewest
<1> QED
  BY <1>2, <1>3 DEF Begin

\* deliver_turn: a replay changes nothing, and only an unchanged Step starts a Turn.
LEMMA StepDeliver ==
    ASSUME StepInv, NEW s \in Steps, Deliver(s)
    PROVE  StepInv'
<1> DEFINE k == job[s].att
           a == att[s][k]
<1>1. job[s].phase = "deliver" /\ "deliver" \in Carries /\ step' = step
  BY DEF Deliver, Carries
<1>2. /\ Backs(att[s], job[s]) /\ Freed(step[s], att[s], job[s]) /\ k \in 1..Last(s) /\ a \in AttemptType
      /\ job \in [Steps -> JobType] /\ att \in [Steps -> Seq(AttemptType)] /\ step \in [Steps -> StepStatus]
      /\ Last(s) \in 0..MaxAttempts
  BY <1>1, Newest DEF StepInv, Shapes
<1>3. ~job[s].stale => k = Last(s) /\ a.status = "running" /\ Entry(step[s], a)
  BY <1>1, <1>2, Newest DEF Backs, Carried, Last, Current
<1>4. CASE UNCHANGED att /\ (EndJob(s) \/ ToRecovery(s))
  BY <1>1, <1>4, JobStops
<1>5. CASE /\ job' = [job EXCEPT ![s].phase = "observe"]
           /\ \/ a.turn # "absent" /\ att' = [att EXCEPT ![s][k].turn = a.turn]
              \/ ~job[s].stale /\ step[s] = "running" /\ att' = [att EXCEPT ![s][k].turn = "running"]
  <2>1. PICK j \in JobType : /\ job' = [job EXCEPT ![s] = j]
                             /\ j.phase = "observe" /\ j.att = k /\ j.stale = job[s].stale
    <3>1. "observe" \in JobPhases /\ EntersPhase(s, "observe")
      BY <1>5 DEF JobPhases, EntersPhase
    <3> QED
      BY <1>2, <3>1, Phased
  <2>2. CASE a.turn # "absent" /\ att' = [att EXCEPT ![s][k].turn = a.turn]
    <3>1. att' = att
      <4>1. [a EXCEPT !.turn = a.turn] = a
        BY <1>2 DEF AttemptType
      <4>2. [att[s] EXCEPT ![k] = a] = att[s]
        BY <1>2
      <4>3. att' = [att EXCEPT ![s] = [att[s] EXCEPT ![k] = [a EXCEPT !.turn = a.turn]]]
        BY <2>2
      <4> QED
        BY <1>2, <4>1, <4>2, <4>3
    <3>2. Counts(att[s], j)
      BY <1>2, <2>1, ExecutionAssumption DEF Counts, Last
    <3>3. Backs(att[s], j)
      BY <1>3, <2>1, <2>2 DEF Backs, Carried, Last
    <3>4. Freed(step[s], att[s], j)
      BY <1>1, <1>2, <2>1 DEF Freed
    <3> QED
      BY <1>1, <2>1, <3>1, <3>2, <3>3, <3>4, OneJob
  <2>3. CASE ~job[s].stale /\ step[s] = "running" /\ att' = [att EXCEPT ![s][k].turn = "running"]
    <3> DEFINE x == [a EXCEPT !.turn = "running"]
    <3>1. x \in AttemptType /\ x.status = "running" /\ x.turn = "running"
      BY <1>2, <1>3, <2>3 DEF AttemptType, Unresolved
    <3>2. att' = [att EXCEPT ![s][k] = x]
      BY <2>3
    <3> HIDE DEF x
    <3>3. Record(s, Last(s), x, "running")
      BY <1>1, <1>2, <1>3, <2>3, <3>2 DEF Record
    <3>4. Entry("running", x)
      BY <3>1 DEF Entry, Truthful, ActiveAttempt
    <3>5. Fits("running", Last(s), x, j)
      BY <1>2, <1>3, <2>1, <2>3, <3>1 DEF Fits, Carried
    <3>6. "running" \in StepStatus /\ Last(s) # 0
      BY <1>2, <1>3, <2>3 DEF StepStatus
    <3> QED
      BY <2>1, <3>1, <3>3, <3>4, <3>5, <3>6, OnNewest
  <2> QED
    BY <1>5, <2>2, <2>3
<1> QED
  BY <1>4, <1>5 DEF Deliver

\* The Turn of an Attempt suspends, goes on or closes: it is the newest Attempt's.
LEMMA StepTurn ==
    ASSUME StepInv, NEW s \in Steps, NEW k \in 1..Last(s),
           NEW from \in SUBSET Unresolved, NEW to \in Unresolved \cup Closed, Turn(s, k, from, to)
    PROVE  StepInv'
<1> DEFINE a == att[s][k]
           x == [a EXCEPT !.turn = to]
<1>1. a.turn \in Unresolved /\ step' = step /\ job' = job /\ att' = [att EXCEPT ![s][k] = x]
  BY DEF Turn
<1>2. /\ a \in AttemptType /\ Last(s) # 0 /\ Last(s) \in 0..MaxAttempts /\ job[s] \in JobType
      /\ Backs(att[s], job[s]) /\ Freed(step[s], att[s], job[s])
      /\ job \in [Steps -> JobType] /\ step \in [Steps -> StepStatus]
      /\ job[s].att \in 0..Last(s)
      /\ job[s].phase \in Carries => job[s].att \in 1..Last(s)
  BY Newest DEF StepInv, Shapes
<1>3. k = Last(s) /\ Entry(step[s], a)
  BY <1>1, <1>2, Newest DEF Old, Current
<1>4. x \in AttemptType /\ x.status = a.status /\ x.turn = to /\ x.review = a.review /\ x.answered = a.answered
  BY <1>2 DEF AttemptType
<1>5. a.status \notin {"queued", "completed"} /\ ~(a.status = "waiting" /\ ~a.review /\ ~a.answered)
  BY <1>1, <1>3 DEF Entry, Truthful, Reserved, Unresolved
<1> HIDE DEF x
<1>6. Entry(step[s], x)
  BY <1>1, <1>3, <1>4, <1>5 DEF Entry, Truthful
<1>7. Fits(step[s], Last(s), x, job[s])
  <2>1. job[s].phase \in Carries /\ ~job[s].stale => job[s].att = Last(s) /\ Carried(job[s], a)
    BY <1>2, <1>3 DEF Backs, Last
  <2>2. Carried(job[s], a) => Carried(job[s], x)
    BY <1>1, <1>4 DEF Carried, Unresolved, Closed
  <2>3. job[s].att <= Last(s) /\ (job[s].phase \in Carries => job[s].att # 0)
    BY <1>2
  <2>4. step[s] \in {"completed", "failed"} /\ job[s].phase # "none" => job[s].att \notin {0, Last(s)}
    BY <1>2 DEF Freed, Last
  <2> QED
    BY <2>1, <2>2, <2>3, <2>4, Newest DEF Fits
<1>8. Record(s, Last(s), x, step[s]) /\ job' = [job EXCEPT ![s] = job[s]]
  BY <1>1, <1>2, <1>3 DEF Record
<1> QED
  BY <1>2, <1>4, <1>6, <1>7, <1>8, OnNewest

\* Reconciliation adopts what the Session says of the newest Attempt.
LEMMA StepReconcile ==
    ASSUME StepInv, NEW s \in Steps, NEW k \in 1..Last(s), att[s][k].status \in {"running", "waiting"},
           Reconcile(s, k), NEW j \in JobType, job' = [job EXCEPT ![s] = j], j.att <= Last(s),
           \/ j.phase = "none"
           \/ att[s][k].turn \in {"running", "absent"} /\ j.phase = "recover"
           \/ att[s][k].turn = "running" /\ j.phase = "watch" /\ j.att = k
           \/ att[s][k].turn = "absent" /\ j.phase = "deliver" /\ j.att = k
    PROVE  StepInv'
<1> DEFINE a == att[s][k]
           x == Reconciled(a)
<1>1. a \in AttemptType /\ Last(s) # 0 /\ Last(s) \in 0..MaxAttempts
  BY Newest
<1>2. k = Last(s)
  BY Newest DEF Old
<1>3. CASE a.turn \in Closed
  <2> DEFINE v == Verdict[a.turn]
  <2>0. v \in Statuses /\ x = Settled(a, v)
    BY <1>3 DEF Reconciled, Verdict, Closed, Statuses, ActiveAttempt
  <2> HIDE DEF v
  <2>1. x \in AttemptType /\ x.turn = a.turn /\ x.review = FALSE /\ x.answered = FALSE /\ x.status = v
    BY <1>1, <2>0 DEF Settled, AttemptType
  <2> HIDE DEF x
  <2>2. Entry(x.status, x) /\ x.status \in StepStatus
    BY <1>3, <2>1 DEF Entry, Truthful, Verdict, Closed, Unresolved, ActiveAttempt, StepStatus, StepEnded, v
  <2>3. j.phase = "none"
    BY <1>3 DEF Closed
  <2>4. Fits(x.status, Last(s), x, j)
    BY <2>3 DEF Fits, Carries
  <2> QED
    BY <1>1, <1>2, <2>1, <2>2, <2>4, OnNewest DEF Reconcile, x
<1>4. CASE a.turn = "suspended"
  <2>1. x \in AttemptType /\ x.turn = a.turn /\ x.review = TRUE /\ x.status = "waiting"
    BY <1>1, <1>4 DEF Reconciled, AttemptType, Closed, Statuses, ActiveAttempt
  <2> HIDE DEF x
  <2>2. Entry(x.status, x) /\ x.status \in StepStatus
    BY <1>4, <2>1 DEF Entry, Truthful, ActiveAttempt, StepStatus
  <2>3. j.phase = "none"
    BY <1>4
  <2>4. Fits(x.status, Last(s), x, j)
    BY <2>3 DEF Fits, Carries
  <2> QED
    BY <1>1, <1>2, <2>1, <2>2, <2>4, OnNewest DEF Reconcile, x
<1>5. CASE a.turn \in {"running", "absent"}
  <2>1. x \in AttemptType /\ x.turn = a.turn /\ x.status = "running"
    BY <1>1, <1>5 DEF Reconciled, AttemptType, Closed, Statuses, ActiveAttempt
  <2> HIDE DEF x
  <2>2. Entry(x.status, x) /\ x.status \in StepStatus
    BY <2>1 DEF Entry, Truthful, ActiveAttempt, StepStatus
  <2>3. Fits(x.status, Last(s), x, j)
    BY <1>1, <1>2, <2>1 DEF Fits, Carries, Carried
  <2> QED
    BY <1>1, <1>2, <2>1, <2>2, <2>3, OnNewest DEF Reconcile, x
<1> QED
  BY <1>1, <1>3, <1>4, <1>5 DEF AttemptType, Unresolved

\* A job that reconciles its Attempt with what the Session says of its Turn.
LEMMA StepReceipt ==
    ASSUME StepInv, NEW s \in Steps, SettleSuspended(s) \/ RecoverReceipt(s)
    PROVE  StepInv'
<1>0. /\ job \in [Steps -> JobType] /\ Last(s) \in 0..MaxAttempts /\ job[s].att \in 0..Last(s)
      /\ job[s].phase \in Carries => job[s].att \in 1..Last(s)
      /\ {"deliver", "watch"} \subseteq JobPhases /\ "settle" \in Carries
      /\ NoJob \in JobType /\ NoJob.phase = "none" /\ NoJob.att = 0 /\ 0 <= Last(s) /\ Last(s) <= Last(s)
  BY Newest, FreshJob, ExecutionAssumption DEF StepInv, Shapes, JobPhases, Carries
<1>1. CASE SettleSuspended(s)
  <2> DEFINE k == job[s].att
  <2>1. k \in 1..Last(s) /\ att[s][k].status = "running" /\ Reconcile(s, k)
    BY <1>0, <1>1 DEF SettleSuspended
  <2>2. PICK j \in JobType : /\ job' = [job EXCEPT ![s] = j] /\ j.att <= Last(s)
                             /\ j.phase = "none" \/ (att[s][k].turn \in {"running", "absent"} /\ j.phase = "recover")
    <3>1. CASE att[s][k].turn \in {"running", "absent"}
      <4>1. ToRecovery(s)
        BY <1>1, <3>1 DEF SettleSuspended
      <4>2. \E j \in JobType : job' = [job EXCEPT ![s] = j] /\ j.phase = "recover" /\ j.att = k
        BY <1>0, <4>1, Recovered
      <4>3. k <= Last(s)
        BY <1>0
      <4> QED
        BY <3>1, <4>2, <4>3
    <3>2. CASE att[s][k].turn \notin {"running", "absent"}
      <4>1. job' = [job EXCEPT ![s] = NoJob]
        BY <1>1, <3>2 DEF SettleSuspended, EndJob
      <4> QED
        BY <1>0, <4>1, Zenon
    <3> QED
      BY <3>1, <3>2
  <2> QED
    BY <2>1, <2>2, StepReconcile
<1>2. CASE RecoverReceipt(s)
  <2> DEFINE k == Last(s)
  <2>1. k \in 1..Last(s) /\ att[s][k].status = "running" /\ Reconcile(s, k)
    BY <1>0, <1>2 DEF RecoverReceipt, Owns, Current
  <2>2. PICK j \in JobType : /\ job' = [job EXCEPT ![s] = j] /\ j.att <= Last(s)
                             /\ \/ j.phase = "none"
                                \/ att[s][k].turn = "running" /\ j.phase = "watch" /\ j.att = k
                                \/ att[s][k].turn = "absent" /\ j.phase = "deliver" /\ j.att = k
    <3>1. CASE att[s][k].turn = "running"
      <4>1. job' = [job EXCEPT ![s] = NewJob("watch", k)]
        BY <1>2, <3>1 DEF RecoverReceipt, Current
      <4>2. NewJob("watch", k) \in JobType /\ NewJob("watch", k).phase = "watch" /\ NewJob("watch", k).att = k
        BY <1>0, FreshJob
      <4> QED
        BY <1>0, <3>1, <4>1, <4>2, Zenon
    <3>2. CASE att[s][k].turn = "absent"
      <4>1. job' = [job EXCEPT ![s] = NewJob("deliver", k)]
        BY <1>2, <3>2 DEF RecoverReceipt, Current
      <4>2. NewJob("deliver", k) \in JobType /\ NewJob("deliver", k).phase = "deliver" /\ NewJob("deliver", k).att = k
        BY <1>0, FreshJob
      <4> QED
        BY <1>0, <3>2, <4>1, <4>2, Zenon
    <3>3. CASE att[s][k].turn \notin {"running", "absent"}
      <4>1. job' = [job EXCEPT ![s] = NoJob]
        BY <1>2, <3>3 DEF RecoverReceipt, EndJob, Current
      <4> QED
        BY <1>0, <4>1, Zenon
    <3> QED
      BY <3>1, <3>2, <3>3
  <2> HIDE DEF k
  <2> QED
    BY <2>1, <2>2, StepReconcile
<1> QED
  BY <1>1, <1>2

\* recover_interrupted retains a job for an Attempt nobody drives.
LEMMA StepRecoverAttempt ==
    ASSUME StepInv, NEW s \in Steps, NEW k \in 1..Last(s), RecoverAttempt(s, k)
    PROVE  StepInv'
<1> DEFINE a == att[s][k]
<1>0. /\ job \in [Steps -> JobType] /\ job[s] \in JobType /\ Last(s) \in 0..MaxAttempts /\ job[s].att \in 0..Last(s)
      /\ {"prepare", "deliver", "watch"} \subseteq JobPhases /\ k \in 0..MaxAttempts /\ k <= Last(s) /\ job[s].att <= Last(s)
  BY Newest, ExecutionAssumption DEF StepInv, Shapes, JobPhases
<1>1. job[s].phase = "none" /\ a.status \in {"queued", "running", "waiting"}
  BY DEF RecoverAttempt, Interrupted, Recovers
<1>2. CASE a.status = "queued"
  <2> DEFINE j == NewJob("prepare", k)
  <2>1. job' = [job EXCEPT ![s] = j] /\ UNCHANGED <<step, att>>
    BY <1>2 DEF RecoverAttempt, durable
  <2>2. j \in JobType /\ j.phase = "prepare" /\ j.att = k
    BY <1>0, FreshJob
  <2> HIDE DEF j
  <2>3. Counts(att[s], j) /\ Backs(att[s], j)
    BY <1>0, <2>2, ExecutionAssumption DEF Counts, Backs, Carries, Last
  <2>4. k = Last(s) => step[s] = "pending"
    BY <1>2, Newest DEF Entry, Current
  <2>5. Freed(step[s], att[s], j)
    BY <1>0, <2>2, <2>4 DEF Freed, Last
  <2> QED
    BY <2>1, <2>2, <2>3, <2>5, OneJob
<1>3. CASE a.status # "queued"
  <2>1. Reconcile(s, k)
    BY <1>3 DEF RecoverAttempt
  <2>2. PICK j \in JobType : /\ job' = [job EXCEPT ![s] = j] /\ j.att <= Last(s)
                             /\ \/ j.phase = "none"
                                \/ att[s][k].turn = "running" /\ j.phase = "watch" /\ j.att = k
                                \/ att[s][k].turn = "absent" /\ j.phase = "deliver" /\ j.att = k
    <3>1. CASE a.turn = "running"
      <4>1. job' = [job EXCEPT ![s] = NewJob("watch", k)]
        BY <1>3, <3>1 DEF RecoverAttempt
      <4>2. NewJob("watch", k) \in JobType /\ NewJob("watch", k).phase = "watch" /\ NewJob("watch", k).att = k
        BY <1>0, FreshJob
      <4> QED
        BY <1>0, <3>1, <4>1, <4>2, Zenon
    <3>2. CASE a.turn = "absent"
      <4>1. job' = [job EXCEPT ![s] = NewJob("deliver", k)]
        BY <1>3, <3>2 DEF RecoverAttempt
      <4>2. NewJob("deliver", k) \in JobType /\ NewJob("deliver", k).phase = "deliver" /\ NewJob("deliver", k).att = k
        BY <1>0, FreshJob
      <4> QED
        BY <1>0, <3>2, <4>1, <4>2, Zenon
    <3>3. CASE a.turn \notin {"running", "absent"}
      <4>1. job' = [job EXCEPT ![s] = job[s]]
        BY <1>3, <3>3 DEF RecoverAttempt
      <4> QED
        BY <1>0, <1>1, <4>1, Zenon
    <3> QED
      BY <3>1, <3>2, <3>3
  <2> QED
    BY <1>1, <1>3, <2>1, <2>2, StepReconcile
<1> QED
  BY <1>2, <1>3

\* What settle_agent_outcome_once may write over the Attempt of an unchanged Step.
LEMMA OutcomesFit ==
    ASSUME NEW s \in Steps, NEW k \in Nat, att[s][k] \in AttemptType, Truthful(att[s][k]),
           NEW j \in JobType, j.phase = "settle", j.out # "suspended", Carried(j, att[s][k]),
           att[s][k].status \in {"queued", "running"}, NEW o \in Outcomes(s, k, j.out)
    PROVE  /\ Settled(att[s][k], o[1]) \in AttemptType /\ o[2] \in StepStatus
           /\ Entry(o[2], Settled(att[s][k], o[1]))
           /\ Settled(att[s][k], o[1]).status = o[1] /\ Settled(att[s][k], o[1]).turn = att[s][k].turn
           /\ o[2] # "failed" => att[s][k].turn \notin Unresolved
           /\ o[1] = "waiting" => att[s][k].turn = "input"
           /\ o[2] \in {"completed", "cancelled", "waiting"} => o[1] = o[2]
           /\ o[1] \notin {"queued", "running"} /\ o[2] # "running"
<1> DEFINE a == att[s][k]
<1>1. j.out \in {"receipt", "missing", "refused"}
  BY DEF Carried
<1>2. j.out = "refused" => a.status = "queued" /\ a.turn = "absent"
  BY DEF Carried, Truthful, Reserved
<1>3. j.out = "receipt" => a.turn \in Closed
  BY DEF Carried
<1>4. /\ j.out = "refused" => o[1] = "cancelled" /\ o[2] \in {"failed", "pending"}
      /\ j.out = "missing" => o[1] = "failed" /\ o[2] = "failed"
      /\ j.out = "receipt" =>
            \/ a.turn = "completed" /\ o[1] = "completed" /\ o[2] = "completed"
            \/ a.turn = "failed" /\ o[1] = "failed" /\ o[2] \in {"failed", "pending"}
            \/ a.turn = "cancelled" /\ o[1] = "cancelled" /\ o[2] = "cancelled"
            \/ a.turn = "input" /\ o[1] = "waiting" /\ o[2] = "waiting"
  BY <1>3 DEF Outcomes, Verdict, Closed
<1>5. o[1] \in {"completed", "failed", "cancelled", "waiting"} /\ o[2] \in {"completed", "failed", "cancelled", "waiting", "pending"}
  BY <1>1, <1>4
<1> DEFINE x == Settled(a, o[1])
<1>6. x \in AttemptType /\ x.turn = a.turn /\ x.review = FALSE /\ x.answered = FALSE /\ x.status = o[1]
  BY <1>5 DEF Settled, AttemptType, Statuses, ActiveAttempt
<1> HIDE DEF x
<1>7. Entry(o[2], x)
  BY <1>1, <1>2, <1>4, <1>6 DEF Entry, Truthful, Unresolved, ActiveAttempt
<1>8. /\ o[2] # "failed" => a.turn \notin Unresolved
      /\ o[1] = "waiting" => a.turn = "input"
      /\ o[2] \in {"completed", "cancelled", "waiting"} => o[1] = o[2]
      /\ o[2] \in StepStatus /\ o[1] \notin {"queued", "running"} /\ o[2] # "running"
  BY <1>1, <1>2, <1>4, <1>5 DEF Unresolved, StepStatus, StepEnded
<1> QED
  BY <1>6, <1>7, <1>8 DEF x

\* settle_agent_outcome: the job of an unchanged Step settles its newest Attempt.
LEMMA SettlesNewest ==
    ASSUME StepInv, NEW s \in Steps, Settle(s)
    PROVE  /\ job[s].att = Last(s) /\ Last(s) \in 1..Last(s) /\ Current(s) \in AttemptType
           /\ Entry(step[s], Current(s)) /\ Current(s).status \in {"queued", "running"}
           /\ Carried(job[s], Current(s))
<1>1. job[s].phase \in Carries /\ ~job[s].stale /\ att[s][job[s].att].status \in {"queued", "running"}
  BY DEF Settle, Carries
<1>2. Backs(att[s], job[s]) /\ job[s].att \in 1..Last(s) /\ Last(s) \in 0..MaxAttempts
  BY <1>1, Newest
<1>3. job[s].att = Last(s) /\ Carried(job[s], Current(s))
  BY <1>1, <1>2 DEF Backs, Last, Current
<1>4. Last(s) # 0
  BY <1>2, <1>3, ExecutionAssumption
<1> QED
  BY <1>1, <1>3, <1>4, Newest DEF Current

\* settle_agent_outcome writes a verdict that fits the Turn of the newest Attempt.
LEMMA StepSettle ==
    ASSUME StepInv, NEW s \in Steps, Settle(s)
    PROVE  StepInv'
<1>1. /\ job[s].att = Last(s) /\ Last(s) \in 1..Last(s) /\ Current(s) \in AttemptType
      /\ Entry(step[s], Current(s)) /\ Current(s).status \in {"queued", "running"}
      /\ Carried(job[s], Current(s)) /\ Last(s) \in Nat /\ Last(s) # 0
  BY SettlesNewest, Newest, ExecutionAssumption
<1>2. PICK o \in Outcomes(s, Last(s), job[s].out) : Record(s, Last(s), Settled(Current(s), o[1]), o[2])
  BY <1>1 DEF Settle, Current
<1>3. job[s] \in JobType /\ job[s].phase = "settle" /\ job[s].out # "suspended"
  BY DEF Settle, StepInv, Shapes
<1> DEFINE x == Settled(Current(s), o[1])
<1>4. x \in AttemptType /\ o[2] \in StepStatus /\ Entry(o[2], x)
  BY <1>1, <1>3, OutcomesFit DEF Current, Entry
<1>5. job' = [job EXCEPT ![s] = NoJob]
  BY DEF Settle, EndJob
<1> HIDE DEF x
<1>6. Fits(o[2], Last(s), x, NoJob)
  BY <1>1, FreshJob DEF Fits, Carries
<1> QED
  BY <1>1, <1>2, <1>4, <1>5, <1>6, FreshJob, OnNewest DEF x

\* A Step without an active Attempt.
LEMMA Inactive ==
    ASSUME StepInv, NEW s \in Steps, ~HasActive(s), Last(s) # 0
    PROVE  Current(s).status \notin ActiveAttempt
BY Newest DEF HasActive, Current

\* transition_step_status, after an error that no pass can repair.
LEMMA StepRecoverFailsStep ==
    ASSUME StepInv, NEW s \in Steps, RecoverFailsStep(s)
    PROVE  StepInv'
<1>1. /\ step' = [step EXCEPT ![s] = "failed"] /\ step[s] = "pending" /\ att' = att /\ ~HasActive(s)
      /\ job' = [job EXCEPT ![s] = NoJob]
  BY DEF RecoverFailsStep, Untouched, EndJob
<1>2. /\ att[s] \in Seq(AttemptType) /\ Ledger(step[s], att[s]) /\ Last(s) \in 0..MaxAttempts
      /\ att \in [Steps -> Seq(AttemptType)]
  BY Newest DEF StepInv, Shapes
<1>3. Last(s) # 0 => Entry("failed", Current(s))
  BY <1>1, Newest, Inactive DEF Entry, ActiveAttempt
<1>4. Ledger("failed", att[s])
  BY <1>2, <1>3, Restatus DEF Last, Current
<1>5. Counts(att[s], NoJob) /\ Backs(att[s], NoJob) /\ Freed("failed", att[s], NoJob)
  BY <1>2, FreshJob, ExecutionAssumption DEF Counts, Backs, Freed, Carries, Last
<1>6. "failed" \in StepStatus /\ att' = [att EXCEPT ![s] = att[s]]
  BY <1>1, <1>2 DEF StepStatus, StepEnded
<1> QED
  BY <1>1, <1>2, <1>4, <1>5, <1>6, FreshJob, OneStep DEF Local

\* An answer that was not admitted at once is admitted when there is room.
LEMMA StepAdmitDecision ==
    ASSUME StepInv, NEW s \in Steps, AdmitDecision(s)
    PROVE  StepInv'
<1> DEFINE x == [Current(s) EXCEPT !.status = "running"]
<1>1. /\ Last(s) # 0 /\ Current(s).status = "waiting"
      /\ Record(s, Last(s), x, "running") /\ job' = job
  BY DEF AdmitDecision, Admits, Decided
<1>2. /\ Current(s) \in AttemptType /\ job[s] \in JobType /\ job \in [Steps -> JobType] /\ job[s].att \in 0..Last(s)
      /\ Backs(att[s], job[s]) /\ Last(s) \in 0..MaxAttempts
      /\ job[s].phase \in Carries => job[s].att \in 1..Last(s)
  BY <1>1, Newest DEF StepInv, Shapes
<1>3. x \in AttemptType /\ x.status = "running"
  BY <1>2 DEF AttemptType, Statuses, ActiveAttempt
<1> HIDE DEF x
<1>4. Entry("running", x) /\ "running" \in StepStatus
  BY <1>3 DEF Entry, Truthful, ActiveAttempt, StepStatus
<1>5. job[s].phase \in Carries => job[s].stale
  BY <1>1, <1>2 DEF Backs, Carried, Carries, Last, Current
<1>6. job[s].att <= Last(s) /\ (job[s].phase \in Carries => job[s].att # 0)
  BY <1>2
<1>7. Fits("running", Last(s), x, job[s])
  BY <1>5, <1>6, Newest DEF Fits
<1>8. job' = [job EXCEPT ![s] = job[s]]
  BY <1>1, <1>2
<1> QED
  BY <1>1, <1>2, <1>3, <1>4, <1>7, <1>8, OnNewest

\* Steps are rewritten and their versions advance; a Step whose version does not advance keeps its newest Attempt.
LEMMA Aging ==
    ASSUME StepInv, NEW S, job' = Advance(job, S),
           step' \in [Steps -> StepStatus], att' \in [Steps -> Seq(AttemptType)],
           \A t \in Steps :
               /\ Len(att'[t]) = Len(att[t]) /\ Ledger(step'[t], att'[t])
               /\ step'[t] \in {"completed", "failed"} => step[t] \in {"completed", "failed"}
               /\ t \notin S => att'[t][Len(att[t])] = att[t][Len(att[t])]
    PROVE  StepInv'
<1>1. /\ job \in [Steps -> JobType] /\ job' \in [Steps -> JobType]
      /\ \A t \in Steps : Newer(job[t], job'[t])
      /\ \A t \in Steps \ S : job'[t] = job[t]
      /\ \A t \in Steps \cap S : job[t].phase \in Carries /\ job[t].att # 0 => job'[t].stale
  BY Advanced DEF StepInv, Shapes
<1>2. Shapes'
  BY <1>1 DEF Shapes
<1>3. ASSUME NEW t \in Steps PROVE Local(step'[t], att'[t], job'[t])
  <2>1. Counts(att[t], job[t]) /\ Backs(att[t], job[t]) /\ Freed(step[t], att[t], job[t])
    BY DEF StepInv, Local
  <2>2. Newer(job[t], job'[t])
    BY <1>1
  <2>3. Counts(att'[t], job'[t])
    BY <2>1, <2>2 DEF Counts, Newer
  <2>4. Freed(step'[t], att'[t], job'[t])
    BY <2>1, <2>2 DEF Freed, Newer
  <2>5. Backs(att'[t], job'[t])
    <3>1. CASE t \in S
      BY <1>1, <2>1, <2>2, <3>1 DEF Counts, Newer, Backs
    <3>2. CASE t \notin S
      <4>1. job'[t] = job[t] /\ Len(att'[t]) = Len(att[t]) /\ att'[t][Len(att[t])] = att[t][Len(att[t])]
        BY <1>1, <3>2
      <4> QED
        BY <2>1, <4>1 DEF Backs
    <3> QED
      BY <3>1, <3>2
  <2> QED
    BY <2>3, <2>4, <2>5 DEF Local
<1> QED
  BY <1>2, <1>3 DEF StepInv

\* Cancelling a set of Steps.
LEMMA StepCancels ==
    ASSUME StepInv, NEW S \in SUBSET Steps, CancelSteps(S)
    PROVE  StepInv'
<1> DEFINE open == {s \in S : step[s] \notin StepEnded}
<1>1. /\ step' = [s \in Steps |-> IF s \in open THEN "cancelled" ELSE step[s]]
      /\ job' = Advance(job, open)
      /\ att' = [s \in Steps |-> IF s \notin S THEN att[s] ELSE RevokedAll(att[s], ActiveAttempt)]
  BY DEF CancelSteps, CancelAttempts, RevokedAll, Revoked, Last
<1>2. ASSUME NEW t \in Steps
      PROVE  /\ step'[t] \in StepStatus /\ att'[t] \in Seq(AttemptType)
             /\ Len(att'[t]) = Len(att[t]) /\ Ledger(step'[t], att'[t])
             /\ step'[t] \in {"completed", "failed"} => step[t] \in {"completed", "failed"}
             /\ t \notin open => att'[t][Len(att[t])] = att[t][Len(att[t])]
  <2>1. step[t] \in StepStatus /\ att[t] \in Seq(AttemptType) /\ Ledger(step[t], att[t])
    BY Newest
  <2>2. CASE t \notin S
    BY <1>1, <2>1, <2>2
  <2>3. CASE t \in S
    <3> DEFINE B == RevokedAll(att[t], ActiveAttempt)
    <3>1. step'[t] = Closing(step[t]) /\ att'[t] = B
      BY <1>1, <2>3 DEF Closing
    <3>2. B \in Seq(AttemptType) /\ Len(B) = Len(att[t]) /\ Ledger(Closing(step[t]), B)
      BY <2>1, RevokeAll
    <3>3. step[t] \in StepEnded => B[Len(att[t])] = att[t][Len(att[t])]
      <4>1. SUFFICES ASSUME step[t] \in StepEnded PROVE B[Len(att[t])] = att[t][Len(att[t])]
        OBVIOUS
      <4>2. CASE Len(att[t]) = 0
        <5>1. B = << >> /\ att[t] = << >>
          BY <2>1, <3>2, <4>2
        <5> QED
          BY <5>1
      <4>3. CASE Len(att[t]) # 0
        <5>1. Len(att[t]) \in 1..Len(att[t]) /\ Entry(step[t], att[t][Len(att[t])])
          BY <2>1, <4>3 DEF Ledger
        <5>2. att[t][Len(att[t])].status \notin ActiveAttempt
          BY <4>1, <5>1 DEF Entry, StepEnded, ActiveAttempt
        <5> QED
          BY <5>1, <5>2 DEF RevokedAll, Revoked
      <4> QED
        BY <4>2, <4>3
    <3> HIDE DEF B
    <3>4. Closing(step[t]) \in StepStatus /\ (Closing(step[t]) \in {"completed", "failed"} => step[t] \in {"completed", "failed"})
      BY <2>1 DEF Closing, StepStatus, StepEnded
    <3>5. t \notin open => step[t] \in StepEnded
      BY <2>3
    <3> QED
      BY <3>1, <3>2, <3>3, <3>4, <3>5
  <2> QED
    BY <2>2, <2>3
<1> HIDE DEF open
<1>3. step' \in [Steps -> StepStatus]
  BY <1>1, <1>2
<1>4. att' \in [Steps -> Seq(AttemptType)]
  BY <1>1, <1>2
<1> QED
  BY <1>1, <1>2, <1>3, <1>4, Aging

\* A blocked Step is skipped.
LEMMA StepSkips ==
    ASSUME StepInv, NEW s \in Steps, SkipBlocked(s)
    PROVE  StepInv'
<1>1. /\ step' = [step EXCEPT ![s] = "skipped"] /\ step[s] = "pending" /\ att' = att /\ ~HasActive(s)
      /\ job' = Advance(job, {s})
  BY DEF SkipBlocked, Blocked
<1>2. step \in [Steps -> StepStatus] /\ att \in [Steps -> Seq(AttemptType)]
  BY DEF StepInv, Shapes
<1>3. att[s] \in Seq(AttemptType) /\ Ledger(step[s], att[s])
  BY Newest
<1>4. Last(s) # 0 => Entry("skipped", Current(s))
  BY <1>1, Newest, Inactive DEF Entry, ActiveAttempt
<1>5. Ledger("skipped", att[s])
  BY <1>3, <1>4, Restatus DEF Last, Current
<1>6. ASSUME NEW t \in Steps
      PROVE  /\ Len(att'[t]) = Len(att[t]) /\ Ledger(step'[t], att'[t])
             /\ step'[t] \in {"completed", "failed"} => step[t] \in {"completed", "failed"}
             /\ t \notin {s} => att'[t][Len(att[t])] = att[t][Len(att[t])]
  <2>1. CASE t = s
    BY <1>1, <1>2, <1>5, <2>1
  <2>2. CASE t # s
    BY <1>1, <1>2, <2>2, Newest
  <2> QED
    BY <2>1, <2>2
<1>7. step' \in [Steps -> StepStatus]
  BY <1>1, <1>2 DEF StepStatus, StepEnded
<1> QED
  BY <1>1, <1>2, <1>6, <1>7, Aging

\* A settled Step is reset with everything downstream of it.
LEMMA StepRetry ==
    ASSUME StepInv, NEW s \in Steps, Retry(s)
    PROVE  StepInv'
<1> DEFINE reset == Downstream(s)
<1>1. /\ step' = [d \in Steps |-> IF d \in reset THEN "pending" ELSE step[d]] /\ att' = att
      /\ job' = Advance(job, reset)
      /\ \A d \in reset : ~HasActive(d) /\ SettledNatively(d)
  BY DEF Retry
<1>2. step \in [Steps -> StepStatus] /\ att \in [Steps -> Seq(AttemptType)]
  BY DEF StepInv, Shapes
<1> HIDE DEF reset
<1>3. ASSUME NEW t \in Steps
      PROVE  /\ Len(att'[t]) = Len(att[t]) /\ Ledger(step'[t], att'[t])
             /\ step'[t] \in {"completed", "failed"} => step[t] \in {"completed", "failed"}
             /\ t \notin reset => att'[t][Len(att[t])] = att[t][Len(att[t])]
  <2>1. CASE t \in reset
    <3>1. Last(t) # 0 => Entry("pending", Current(t))
      BY <1>1, <2>1, Newest, Inactive DEF Entry, ActiveAttempt, SettledNatively, Current
    <3>2. Ledger("pending", att[t])
      BY <3>1, Newest, Restatus DEF Last, Current
    <3> QED
      BY <1>1, <1>2, <2>1, <3>2
  <2>2. CASE t \notin reset
    BY <1>1, <1>2, <2>2, Newest
  <2> QED
    BY <2>1, <2>2
<1>4. step' \in [Steps -> StepStatus]
  BY <1>1, <1>2 DEF StepStatus
<1> QED
  BY <1>1, <1>2, <1>3, <1>4, Aging

\* The user answers a closed question.
LEMMA StepAnswer ==
    ASSUME StepInv, NEW s \in Steps, Answer(s)
    PROVE  StepInv'
<1> DEFINE v == IF Capacity({<<s, Last(s)>>}) THEN "running" ELSE "waiting"
           x == [status |-> v, review |-> FALSE, answered |-> TRUE, turn |-> "absent"]
           B == [att[s] EXCEPT ![Last(s)] = x]
<1>1. /\ Last(s) # 0 /\ step' = [step EXCEPT ![s] = v] /\ att' = [att EXCEPT ![s] = B]
      /\ job' = Advance(job, {s}) /\ v \in {"running", "waiting"}
  BY DEF Answer
<1>2. step \in [Steps -> StepStatus] /\ att \in [Steps -> Seq(AttemptType)]
  BY DEF StepInv, Shapes
<1>3. att[s] \in Seq(AttemptType) /\ Ledger(step[s], att[s]) /\ Last(s) \in 1..Last(s)
  BY <1>1, Newest
<1> HIDE DEF v
<1>4. x \in AttemptType /\ Entry(v, x)
  BY <1>1 DEF AttemptType, Statuses, ActiveAttempt, Entry, Truthful, Unresolved
<1> HIDE DEF x
<1>5. B \in Seq(AttemptType) /\ Len(B) = Len(att[s])
  BY <1>3, <1>4, PutAt DEF Last
<1>6. Ledger(v, B)
  BY <1>1, <1>3, <1>4, PutLast DEF Last
<1> HIDE DEF B
<1>7. ASSUME NEW t \in Steps
      PROVE  /\ Len(att'[t]) = Len(att[t]) /\ Ledger(step'[t], att'[t])
             /\ step'[t] \in {"completed", "failed"} => step[t] \in {"completed", "failed"}
             /\ t \notin {s} => att'[t][Len(att[t])] = att[t][Len(att[t])]
  <2>1. CASE t = s
    BY <1>1, <1>2, <1>5, <1>6, <2>1
  <2>2. CASE t # s
    BY <1>1, <1>2, <2>2, Newest
  <2> QED
    BY <2>1, <2>2
<1>8. step' \in [Steps -> StepStatus]
  BY <1>1, <1>2 DEF StepStatus
<1>9. att' \in [Steps -> Seq(AttemptType)]
  BY <1>1, <1>2, <1>5
<1> QED
  BY <1>1, <1>7, <1>8, <1>9, Aging

\* Pausing cancels the reservations that have not started.
LEMMA StepPause ==
    ASSUME StepInv, Pause
    PROVE  StepInv'
<1>1. /\ att' = [s \in Steps |-> RevokedAll(att[s], {"queued"})] /\ step' = step /\ job' = job
  BY DEF Pause, RevokedAll, Revoked, Last
<1>2. ASSUME NEW t \in Steps
      PROVE  att'[t] \in Seq(AttemptType) /\ Local(step'[t], att'[t], job'[t])
  <2> DEFINE B == RevokedAll(att[t], {"queued"})
  <2>1. /\ step[t] \in StepStatus /\ att[t] \in Seq(AttemptType) /\ Ledger(step[t], att[t])
        /\ Counts(att[t], job[t]) /\ Backs(att[t], job[t]) /\ Freed(step[t], att[t], job[t])
    BY Newest DEF StepInv, Local
  <2>2. {"queued"} \in SUBSET ActiveAttempt
    BY DEF ActiveAttempt
  <2>3. B \in Seq(AttemptType) /\ Len(B) = Len(att[t]) /\ Ledger(step[t], B)
    BY <2>1, <2>2, RevokeAll
  <2>4. Counts(B, job[t]) /\ Freed(step[t], B, job[t])
    BY <2>1, <2>3 DEF Counts, Freed
  <2>5. Backs(B, job[t])
    <3>1. SUFFICES ASSUME job[t].phase \in Carries, ~job[t].stale
                   PROVE  job[t].att = Len(B) /\ Carried(job[t], B[Len(B)])
      BY DEF Backs
    <3>2. job[t].att = Len(B) /\ job[t].att \in 1..Len(att[t]) /\ Carried(job[t], att[t][Len(B)])
      BY <2>1, <2>3, <3>1, Newest DEF Backs, Last
    <3> DEFINE a == att[t][Len(B)]
               b == B[Len(B)]
    <3>3. b = Revoked(a, {"queued"}) /\ a \in AttemptType
      BY <2>1, <3>2 DEF RevokedAll
    <3>4. b = a \/ (a.status = "queued" /\ b.status = "cancelled" /\ b.turn = a.turn)
      BY <3>3 DEF Revoked, AttemptType
    <3> HIDE DEF a, b
    <3>5. Carried(job[t], a)
      BY <3>2 DEF a
    <3>6. Carried(job[t], b)
      BY <3>1, <3>4, <3>5 DEF Carried, Carries
    <3> QED
      BY <3>2, <3>6 DEF b
  <2> HIDE DEF B
  <2>6. att'[t] = B /\ step'[t] = step[t] /\ job'[t] = job[t]
    BY <1>1 DEF B
  <2> QED
    BY <2>3, <2>4, <2>5, <2>6 DEF Local
<1>3. Shapes'
  BY <1>1, <1>2 DEF StepInv, Shapes
<1> QED
  BY <1>2, <1>3 DEF StepInv

\* Jobs are lost with their process, fenced with their generation, or dispatched.
LEMMA StepJobs ==
    ASSUME StepInv, UNCHANGED <<step, att>>,
           NEW S \in SUBSET Steps, \A s \in S : step[s] = "pending",
           \/ job' = [s \in Steps |-> NoJob]
           \/ job' = [s \in Steps |-> [job[s] EXCEPT !.fresh = FALSE]]
           \/ job' = [s \in Steps |-> IF s \in S THEN NewJob("prepare", 0) ELSE job[s]]
    PROVE  StepInv'
<1>1. ASSUME NEW t \in Steps
      PROVE  job'[t] \in JobType /\ Counts(att[t], job'[t]) /\ Backs(att[t], job'[t]) /\ Freed(step[t], att[t], job'[t])
  <2>1. /\ job[t] \in JobType /\ Counts(att[t], job[t]) /\ Backs(att[t], job[t]) /\ Freed(step[t], att[t], job[t])
        /\ Last(t) \in 0..MaxAttempts /\ MaxAttempts \in Nat
    BY Newest, ExecutionAssumption DEF StepInv, Local, Shapes
  <2>2. CASE job'[t] = NoJob
    BY <2>1, <2>2, FreshJob DEF Counts, Backs, Freed, Carries, Last
  <2>3. CASE job'[t] = [job[t] EXCEPT !.fresh = FALSE]
    <3> DEFINE j == [job[t] EXCEPT !.fresh = FALSE]
    <3>1. /\ j \in JobType /\ j.phase = job[t].phase /\ j.att = job[t].att /\ j.stale = job[t].stale
          /\ j.out = job[t].out
      BY <2>1 DEF JobType
    <3> HIDE DEF j
    <3>2. Counts(att[t], j) /\ Backs(att[t], j) /\ Freed(step[t], att[t], j)
      BY <2>1, <3>1 DEF Counts, Backs, Carried, Freed
    <3> QED
      BY <2>3, <3>1, <3>2 DEF j
  <2>4. CASE job'[t] = NewJob("prepare", 0) /\ t \in S
    <3> DEFINE j == NewJob("prepare", 0)
    <3>1. "prepare" \in JobPhases /\ 0 \in 0..MaxAttempts
      BY <2>1 DEF JobPhases
    <3>2. j \in JobType /\ j.phase = "prepare" /\ j.att = 0
      BY <3>1, FreshJob
    <3> HIDE DEF j
    <3>3. Counts(att[t], j) /\ Backs(att[t], j) /\ Freed(step[t], att[t], j)
      BY <2>1, <2>4, <3>2 DEF Counts, Backs, Freed, Carries, Last
    <3> QED
      BY <2>4, <3>2, <3>3 DEF j
  <2>5. CASE job'[t] = job[t]
    BY <2>1, <2>5
  <2> QED
    BY <2>2, <2>3, <2>4, <2>5
<1>2. Shapes'
  BY <1>1 DEF StepInv, Shapes
<1> QED
  BY <1>1, <1>2 DEF StepInv, Local

\* Every Step satisfies its invariant at first,
LEMMA StepInit ==
    Init => StepInv
<1> SUFFICES ASSUME Init PROVE StepInv
  OBVIOUS
<1>1. /\ step = [s \in Steps |-> "pending"] /\ att = [s \in Steps |-> <<>>] /\ job = [s \in Steps |-> NoJob]
      /\ MaxAttempts \in Nat
  BY ExecutionAssumption DEF Init
<1>2. Shapes
  BY <1>1, FreshJob DEF Shapes, StepStatus
<1>3. ASSUME NEW s \in Steps PROVE Local("pending", <<>>, NoJob)
  BY <1>1, FreshJob DEF Local, Counts, Ledger, Backs, Freed, Carries
<1> QED
  BY <1>1, <1>2, <1>3 DEF StepInv

\* fail_if_active ends the Execution with its open Steps, or writes nothing.
LEMMA FailWrites ==
    ASSUME FailIfActive
    PROVE  /\ loop' = Leaving(FALSE) /\ UNCHANGED <<stopped, controls, faults>>
           /\ \/ /\ exec \in Dispatchable /\ exec' = "failed" /\ lease' = "none" /\ live' = FALSE
                 /\ CancelSteps(Steps)
              \/ UNCHANGED <<exec, lease, live, step, backoff, att, job>>
BY DEF FailIfActive

\* and after every step of the program.
LEMMA StepNext ==
    StepInv /\ [Next]_vars => StepInv'
<1> SUFFICES ASSUME StepInv, [Next]_vars PROVE StepInv'
  OBVIOUS
<1>0. CASE UNCHANGED <<step, att, job>>
  BY <1>0 DEF StepInv, Shapes
<1>1. CASE UserCommand
  <2>1. CASE Cancel
    BY <2>1, StepCancels DEF Cancel
  <2>2. ASSUME NEW s \in Steps, CancelStep(s) PROVE StepInv'
    <3>1. CancelSteps({s}) /\ {s} \in SUBSET Steps
      BY <2>2 DEF CancelStep
    <3> QED
      BY <3>1, StepCancels
  <2> QED
    BY <1>0, <1>1, <2>1, <2>2, StepPause, StepRetry, StepAnswer DEF UserCommand, Resume
<1>2. CASE LoopStep
  <2>1. CASE IdleExit \/ LoopAborts
    <3>1. UNCHANGED <<step, att>> /\ job' = [s \in Steps |-> [job[s] EXCEPT !.fresh = FALSE]]
      BY <2>1 DEF IdleExit, LoopAborts, Leave, durable
    <3>2. {} \in SUBSET Steps /\ \A s \in {} : step[s] = "pending"
      OBVIOUS
    <3> QED
      BY <3>1, <3>2, StepJobs
  <2>2. CASE DispatchSome
    <3>1. PICK S \in SUBSET Steps : Dispatch(S)
      BY <2>2 DEF DispatchSome
    <3>2. UNCHANGED <<step, att>> /\ job' = [s \in Steps |-> IF s \in S THEN NewJob("prepare", 0) ELSE job[s]]
      BY <3>1 DEF Dispatch, durable
    <3>3. \A s \in S : step[s] = "pending"
      BY <3>1 DEF Dispatch, Selections, Ready
    <3> QED
      BY <3>2, <3>3, StepJobs
  <2>3. CASE \E s \in Steps : AdmitDecision(s) \/ DeliverDecision(s) \/ SkipBlocked(s)
    BY <2>3, StepAdmitDecision, StepAdopts, StepSkips
  <2>4. CASE \E s \in Steps : \E k \in 1..Last(s) : RecoverAttempt(s, k)
    BY <2>4, StepRecoverAttempt
  <2>5. CASE Acquire \/ Depart \/ RecoverDone \/ AwaitJobs \/ Finalize
    BY <1>0, <2>5 DEF Acquire, Depart, RecoverDone, AwaitJobs, Finalize, durable
  <2>6. CASE FailIfActive
    BY <1>0, <2>6, StepCancels, FailWrites
  <2> QED
    BY <1>2, <2>1, <2>2, <2>3, <2>4, <2>5, <2>6 DEF LoopStep
<1>3. CASE Heartbeat \/ LeaseLapses \/ OldLeaseLapses \/ Boot \/ UNCHANGED vars
  BY <1>0, <1>3 DEF Heartbeat, LeaseLapses, OldLeaseLapses, Boot, durable, vars
<1>4. CASE Crash
  <2>1. UNCHANGED <<step, att>> /\ job' = [s \in Steps |-> NoJob]
    BY <1>4 DEF Crash
  <2>2. {} \in SUBSET Steps /\ \A s \in {} : step[s] = "pending"
    OBVIOUS
  <2> QED
    BY <2>1, <2>2, StepJobs
<1>5. CASE Session
  <2>0. PICK s \in Steps : \E k \in 1..Last(s) :
            TurnCloses(s, k) \/ TurnSuspends(s, k) \/ TurnGoesOn(s, k) \/ Cleanup(s, k)
    BY <1>5 DEF Session
  <2>1. PICK k \in 1..Last(s) : TurnCloses(s, k) \/ TurnSuspends(s, k) \/ TurnGoesOn(s, k) \/ Cleanup(s, k)
    BY <2>0
  <2>2. PICK from \in SUBSET Unresolved, to \in Unresolved \cup Closed : Turn(s, k, from, to)
    <3>1. CASE TurnCloses(s, k)
      <4>1. {"running"} \in SUBSET Unresolved
        BY DEF Unresolved
      <4> QED
        BY <3>1, <4>1 DEF TurnCloses
    <3>2. CASE TurnSuspends(s, k)
      <4>1. {"running"} \in SUBSET Unresolved /\ "suspended" \in Unresolved
        BY DEF Unresolved
      <4> QED
        BY <3>2, <4>1 DEF TurnSuspends
    <3>3. CASE TurnGoesOn(s, k)
      <4>1. {"suspended"} \in SUBSET Unresolved /\ "running" \in Unresolved
        BY DEF Unresolved
      <4> QED
        BY <3>3, <4>1 DEF TurnGoesOn
    <3>4. CASE Cleanup(s, k)
      <4>1. Unresolved \in SUBSET Unresolved /\ "cancelled" \in Closed
        BY DEF Closed
      <4> QED
        BY <3>4, <4>1 DEF Cleanup
    <3> QED
      BY <2>1, <3>1, <3>2, <3>3, <3>4
  <2> QED
    BY <2>2, StepTurn
<1>6. ASSUME NEW s \in Steps, JobAdvances(s) PROVE StepInv'
  BY <1>6, StepPrepare, StepAdmit, StepRefusals, StepBegin, StepDeliver, StepOutcome, StepSettle, StepReceipt,
     StepAdopts, StepRecoverFailsStep DEF JobAdvances
<1>7. ASSUME NEW s \in Steps, JobAsks(s) PROVE StepInv'
  BY <1>0, <1>7 DEF JobAsks, SettleUnarmed, RecoverUnarmed, durable
<1>8. ASSUME NEW s \in Steps, JobFault(s) PROVE StepInv'
  BY <1>8, StepPrepare, StepAdmit, StepOutcome DEF JobFault
<1>9. CASE LoopFails
  <2>1. UNCHANGED <<step, att>> /\ job' = [s \in Steps |-> [job[s] EXCEPT !.fresh = FALSE]]
    BY <1>9 DEF LoopFails, durable
  <2>2. {} \in SUBSET Steps /\ \A s \in {} : step[s] = "pending"
    OBVIOUS
  <2> QED
    BY <2>1, <2>2, StepJobs
<1> QED
  BY <1>1, <1>2, <1>3, <1>4, <1>5, <1>6, <1>7, <1>8, <1>9 DEF Next

-----------------------------------------------------------------------------
(***************************************************************************)
(* The types of the rest of the state.                                     *)
(***************************************************************************)
LoopType == [phase : LoopPhases, again : BOOLEAN, seen : SUBSET Steps]
ExecStatus == Admissible \cup Ended
RestType ==
    /\ exec \in ExecStatus /\ lease \in {"none", "mine", "old"} /\ live \in BOOLEAN
    /\ backoff \subseteq Steps /\ stopped \subseteq Steps
    /\ loop \in LoopType
    /\ controls \in 0..MaxControls /\ faults \in 0..MaxFaults

\* The moves of the scheduling loop.
LEMMA LoopMoves ==
    ASSUME loop \in LoopType
    PROVE  /\ Started(loop) \in LoopType /\ Started(loop).seen = loop.seen
           /\ Started(loop).phase = IF loop.phase = "off" THEN "acquire" ELSE loop.phase
           /\ \A r \in BOOLEAN : Leaving(r) \in LoopType /\ Leaving(r).phase = "leaving"
           /\ Pass \in LoopType /\ Pass.phase = "recover" /\ Pass.seen = {s \in Steps : job'[s].phase # "none"}
           /\ \A s \in Steps : /\ Retaining(s) \in LoopType /\ Retaining(s).phase = loop.phase
                               /\ Retaining(s).seen = loop.seen \cup {s}
           /\ NextPhase \in LoopType
           /\ \A s \in Steps : Handed(s) \in LoopType
           /\ loop.phase = "boot" => NextPhase = Pass /\ \A s \in Steps : Handed(s) = Pass
           /\ loop.phase # "boot" =>
                 /\ NextPhase.phase = "dispatch" /\ NextPhase.seen = loop.seen
                 /\ \A s \in Steps : Handed(s).phase = "dispatch" /\ Handed(s).seen = loop.seen \cup {s}
<1>0. loop.phase \in LoopPhases /\ loop.again \in BOOLEAN /\ loop.seen \in SUBSET Steps
  BY DEF LoopType
<1>1. /\ Started(loop) \in LoopType /\ Started(loop).seen = loop.seen
      /\ Started(loop).phase = IF loop.phase = "off" THEN "acquire" ELSE loop.phase
  BY DEF LoopType, Started, LoopPhases
<1>2. ASSUME NEW r \in BOOLEAN PROVE Leaving(r) \in LoopType /\ Leaving(r).phase = "leaving"
  BY <1>0 DEF LoopType, Leaving, LoopPhases
<1>3. Pass \in LoopType /\ Pass.phase = "recover" /\ Pass.seen = {s \in Steps : job'[s].phase # "none"}
  <2> DEFINE F == {s \in Steps : job'[s].phase # "none"}
  <2>1. F \in SUBSET Steps /\ Pass = [loop EXCEPT !.phase = "recover", !.seen = F]
    BY DEF Pass
  <2> HIDE DEF F
  <2>2. Pass \in LoopType /\ Pass.phase = "recover" /\ Pass.seen = F
    BY <2>1 DEF LoopType, LoopPhases
  <2> QED
    BY <2>2 DEF F
<1>4. ASSUME NEW s \in Steps
      PROVE  /\ Retaining(s) \in LoopType /\ Retaining(s).phase = loop.phase
             /\ Retaining(s).seen = loop.seen \cup {s}
  BY DEF LoopType, Retaining
<1>5. /\ NextPhase \in LoopType
      /\ loop.phase = "boot" => NextPhase = Pass
      /\ loop.phase # "boot" => NextPhase.phase = "dispatch" /\ NextPhase.seen = loop.seen
  <2> HIDE DEF Pass
  <2> QED
    BY <1>3 DEF LoopType, NextPhase, LoopPhases
<1>6. ASSUME NEW s \in Steps
      PROVE  /\ Handed(s) \in LoopType
             /\ loop.phase = "boot" => Handed(s) = Pass
             /\ loop.phase # "boot" => Handed(s).phase = "dispatch" /\ Handed(s).seen = loop.seen \cup {s}
  BY <1>3, <1>4 DEF LoopType, Handed, LoopPhases
<1> QED
  BY <1>1, <1>2, <1>3, <1>4, <1>5, <1>6

\* The rest of the state keeps its types when the user commands,
LEMMA TypeUser ==
    ASSUME RestType, UserCommand PROVE RestType'
<1>0. /\ MaxControls \in Nat /\ MaxFaults \in Nat /\ controls \in 0..MaxControls
      /\ {"running", "waiting_input", "paused", "cancelled"} \subseteq ExecStatus
      /\ Started(loop) \in LoopType
  BY ExecutionAssumption, LoopMoves DEF RestType, ExecStatus, Admissible, Dispatchable, Ended
<1>1. controls' \in 0..MaxControls /\ faults' = faults
  <2>1. controls < MaxControls /\ controls' = controls + 1 /\ faults' = faults
    BY DEF UserCommand, Pause, Resume, Cancel, CancelStep, Retry, Answer, Command
  <2> QED
    BY <1>0, <2>1
<1>2. exec' \in ExecStatus
  BY <1>0 DEF UserCommand, Pause, Resume, Cancel, CancelStep, Retry, Answer, RestType
<1>3. lease' \in {"none", "mine", "old"} /\ live' \in BOOLEAN
  BY DEF UserCommand, Pause, Resume, Cancel, CancelStep, Retry, Answer, RestType
<1>4. backoff' \subseteq Steps
  BY DEF UserCommand, Pause, Resume, Cancel, CancelStep, CancelSteps, Retry, Answer, RestType
<1>5. stopped' \subseteq Steps
  BY DEF UserCommand, Pause, Resume, Cancel, CancelStep, Retry, Answer, RestType
<1>6. loop' \in LoopType
  BY <1>0 DEF UserCommand, Pause, Resume, Cancel, CancelStep, Retry, Answer, RestType
<1> QED
  BY <1>0, <1>1, <1>2, <1>3, <1>4, <1>5, <1>6 DEF RestType

\* when a job moves,
LEMMA TypeJob ==
    ASSUME RestType, NEW s \in Steps, JobAdvances(s) \/ JobAsks(s) \/ JobFault(s) PROVE RestType'
<1>0. /\ MaxFaults \in Nat /\ faults \in 0..MaxFaults /\ Started(loop) \in LoopType
      /\ "waiting_input" \in ExecStatus /\ exec \in ExecStatus
  BY ExecutionAssumption, LoopMoves DEF RestType, ExecStatus, Admissible, Dispatchable, Ended
<1>1. \A v : Attention(v) \in ExecStatus
  BY <1>0 DEF Attention
<1>2. ASSUME JobAdvances(s) PROVE RestType'
  <2>1. UNCHANGED <<lease, live, stopped, loop, controls, faults>>
    BY <1>2 DEF JobAdvances, Prepare, Admit, CreateAttempt, AdmitRefused, Begin, Deliver, Observe, SettleEnds,
       SettleStale, Settle, SettleSuspended, RecoverGivesUp, RecoverAdopts, RecoverFailsStep, RecoverResumes,
       RecoverReceipt, Reconcile, durable
  <2>2. exec' \in ExecStatus
    BY <1>0, <1>1, <1>2 DEF JobAdvances, Prepare, Admit, CreateAttempt, AdmitRefused, Begin, Deliver, Observe, SettleEnds,
       SettleStale, Settle, SettleSuspended, RecoverGivesUp, RecoverAdopts, RecoverFailsStep, RecoverResumes,
       RecoverReceipt, Reconcile, durable
  <2>3. backoff' \subseteq backoff \cup {s}
    BY <1>2 DEF JobAdvances, Prepare, Admit, CreateAttempt, AdmitRefused, Begin, Deliver, Observe, SettleEnds,
       SettleStale, Settle, SettleSuspended, RecoverGivesUp, RecoverAdopts, RecoverFailsStep, RecoverResumes,
       RecoverReceipt, Reconcile, durable
  <2> QED
    BY <2>1, <2>2, <2>3 DEF RestType
<1>3. ASSUME JobAsks(s) PROVE RestType'
  BY <1>0, <1>3 DEF JobAsks, SettleUnarmed, RecoverUnarmed, durable, RestType
<1>4. ASSUME JobFault(s) PROVE RestType'
  <2>1. UNCHANGED <<exec, lease, live, stopped, loop, controls>> /\ backoff' \subseteq backoff
    BY <1>4 DEF JobFault, PrepareFails, AdmitReplyLost, CreateAttempt, LinkFails, Deadline, durable
  <2>2. faults' \in 0..MaxFaults
    BY <1>0, <1>4 DEF JobFault, PrepareFails, AdmitReplyLost, LinkFails, Deadline
  <2> QED
    BY <2>1, <2>2 DEF RestType
<1> QED
  BY <1>2, <1>3, <1>4

\* and when the loop does.
LEMMA TypeLoop ==
    ASSUME RestType, LoopStep PROVE RestType'
<1>0. loop \in LoopType /\ exec \in ExecStatus /\ {"running", "waiting_input"} \subseteq ExecStatus
  BY DEF RestType, ExecStatus, Admissible, Dispatchable
<1>1. \A v : Attention(v) \in ExecStatus
  BY <1>0 DEF Attention
<1>2. CASE Acquire \/ Depart \/ Finalize
  <2>1. CASE Acquire
    <3>1. [loop EXCEPT !.phase = "boot", !.seen = InFlight] \in LoopType
      BY <1>0 DEF LoopType, LoopPhases, InFlight
    <3> QED
      BY <1>0, <2>1, <3>1, LoopMoves DEF Acquire, RestType
  <2>2. CASE Depart
    <3>1. [phase |-> IF loop.again THEN "acquire" ELSE "off", again |-> FALSE, seen |-> {}] \in LoopType
      BY DEF LoopType, LoopPhases
    <3> QED
      BY <2>2, <3>1 DEF Depart, RestType
  <2>3. CASE Finalize
    <3>1. exec' \in ExecStatus
      BY <2>3 DEF Finalize, FinalStatus, ExecStatus, Ended
    <3> QED
      BY <1>0, <2>3, <3>1, LoopMoves DEF Finalize, RestType
  <2> QED
    BY <1>2, <2>1, <2>2, <2>3
<1>3. CASE RecoverDone \/ AwaitJobs \/ IdleExit \/ LoopAborts \/ DispatchSome
  <2>1. UNCHANGED <<exec, lease, live, backoff, stopped, controls, faults>>
    BY <1>3 DEF RecoverDone, AwaitJobs, IdleExit, LoopAborts, DispatchSome, Dispatch, durable
  <2>2. loop' \in LoopType
    BY <1>0, <1>3, LoopMoves DEF RecoverDone, AwaitJobs, IdleExit, LoopAborts, DispatchSome, Dispatch, Leave
  <2> QED
    BY <2>1, <2>2 DEF RestType
<1>6. CASE FailIfActive
  <2>1. exec' \in ExecStatus /\ backoff' \subseteq backoff
    BY <1>0, <1>6, FailWrites DEF CancelSteps, ExecStatus, Ended
  <2>2. lease' \in {"none", lease} /\ live' \in {FALSE, live} /\ loop' \in LoopType
    BY <1>0, <1>6, FailWrites, LoopMoves
  <2> QED
    BY <1>6, <2>1, <2>2, FailWrites DEF RestType
<1>4. ASSUME NEW s \in Steps, AdmitDecision(s) \/ DeliverDecision(s) \/ SkipBlocked(s) PROVE RestType'
  <2>1. UNCHANGED <<lease, live, stopped, controls, faults>> /\ backoff' \subseteq backoff
    BY <1>4 DEF AdmitDecision, DeliverDecision, SkipBlocked, durable
  <2>2. exec' \in ExecStatus
    BY <1>0, <1>4 DEF AdmitDecision, DeliverDecision, SkipBlocked, durable
  <2>3. loop' \in LoopType
    BY <1>0, <1>4, LoopMoves DEF AdmitDecision, DeliverDecision, SkipBlocked
  <2> QED
    BY <2>1, <2>2, <2>3 DEF RestType
<1>5. ASSUME NEW s \in Steps, NEW k \in 1..Last(s), RecoverAttempt(s, k) PROVE RestType'
  <2>1. UNCHANGED <<lease, live, backoff, stopped, controls, faults>>
    BY <1>5 DEF RecoverAttempt, Reconcile, durable
  <2>2. exec' \in ExecStatus
    BY <1>0, <1>1, <1>5 DEF RecoverAttempt, Reconcile, durable
  <2>3. loop' \in LoopType
    BY <1>0, <1>5, LoopMoves DEF RecoverAttempt
  <2> QED
    BY <2>1, <2>2, <2>3 DEF RestType
<1> QED
  BY <1>2, <1>3, <1>4, <1>5, <1>6 DEF LoopStep

\* A new Execution has these types.
LEMMA TypeInit ==
    Init => RestType
<1>1. /\ 0 \in 0..MaxControls /\ 0 \in 0..MaxFaults /\ "running" \in ExecStatus
      /\ [phase |-> "acquire", again |-> FALSE, seen |-> {}] \in LoopType
  BY ExecutionAssumption DEF LoopType, LoopPhases, ExecStatus, Admissible, Dispatchable
<1> QED
  BY <1>1 DEF Init, RestType

\* Every step keeps them.
LEMMA TypeNext ==
    RestType /\ [Next]_vars => RestType'
<1> SUFFICES ASSUME RestType, [Next]_vars PROVE RestType'
  OBVIOUS
<1>0. MaxFaults \in Nat /\ faults \in 0..MaxFaults /\ loop \in LoopType
  BY ExecutionAssumption DEF RestType
<1>1. CASE Heartbeat \/ OldLeaseLapses \/ Session \/ UNCHANGED vars
  BY <1>1 DEF Heartbeat, OldLeaseLapses, Session, TurnCloses, TurnSuspends, TurnGoesOn, Cleanup, Turn, vars, RestType
<1>2. CASE LeaseLapses
  <2>1. faults' \in 0..MaxFaults
    BY <1>0, <1>2 DEF LeaseLapses
  <2> QED
    BY <1>2, <2>1 DEF LeaseLapses, RestType
<1>3. CASE Crash
  <2>1. [phase |-> "down", again |-> FALSE, seen |-> {}] \in LoopType
    BY DEF LoopType, LoopPhases
  <2>2. faults' \in 0..MaxFaults
    BY <1>0, <1>3 DEF Crash
  <2> QED
    BY <1>3, <2>1, <2>2 DEF Crash, RestType
<1>4. CASE Boot
  <2>1. [loop EXCEPT !.phase = IF exec \in Admissible THEN "acquire" ELSE "off"] \in LoopType
    BY <1>0 DEF LoopType, LoopPhases
  <2> QED
    BY <1>4, <2>1 DEF Boot, RestType, durable
<1>5. CASE LoopFails
  <2>1. loop' \in LoopType
    BY <1>0, <1>5 DEF LoopFails, Leaving, LoopType, LoopPhases
  <2>2. faults' \in 0..MaxFaults
    BY <1>0, <1>5 DEF LoopFails
  <2> QED
    BY <1>5, <2>1, <2>2 DEF LoopFails, RestType, durable
<1> QED
  BY <1>1, <1>2, <1>3, <1>4, <1>5, TypeUser, TypeLoop, TypeJob DEF Next

-----------------------------------------------------------------------------
(***************************************************************************)
(* Every reachable state has its types, and no job names an Attempt its    *)
(* Step does not have.                                                     *)
(***************************************************************************)
THEOREM TypeCorrect ==
    Spec => []TypeOK
<1>1. StepInv /\ RestType => TypeOK
  <2> SUFFICES ASSUME StepInv, RestType PROVE TypeOK
    OBVIOUS
  <2>1. ASSUME NEW s \in Steps
        PROVE  /\ att[s] \in Seq(AttemptType) /\ Last(s) <= MaxAttempts /\ job[s] \in JobType /\ job[s].att <= Last(s)
               /\ job[s].phase \in {"queued", "deliver", "observe", "watch", "settle"} => job[s].att # 0
    BY DEF StepInv, Shapes, Local, Counts, Last, Carries
  <2>2. step \in [Steps -> StepEnded \cup {"pending", "running", "waiting"}]
    BY DEF StepInv, Shapes, StepStatus
  <2>3. /\ loop.phase \in {"down", "off", "acquire", "boot", "recover", "dispatch", "failing", "leaving"} /\ loop.again \in BOOLEAN
        /\ loop.seen \subseteq Steps
    BY DEF RestType, LoopType, LoopPhases
  <2> QED
    BY <2>1, <2>2, <2>3 DEF TypeOK, RestType, ExecStatus
<1> QED
  BY <1>1, StepInit, TypeInit, StepNext, TypeNext, PTL DEF Spec

(***************************************************************************)
(* Never two native Turns at work for one Step, for every plan, every      *)
(* limit and every number of crashes, retries and generations.             *)
(***************************************************************************)
THEOREM OneTurn ==
    Spec => []OneTurnPerStep
<1>1. StepInv => OneTurnPerStep
  BY Newest DEF OneTurnPerStep, Old
<1> QED
  BY <1>1, StepInit, StepNext, PTL DEF Spec

(***************************************************************************)
(* A Step and its newest Attempt agree between any two writes.             *)
(***************************************************************************)
THEOREM StepAgrees ==
    Spec => []StepMatchesAttempt
<1>1. StepInv => StepMatchesAttempt
  <2> SUFFICES ASSUME StepInv, NEW s \in Steps
               PROVE  IF Last(s) # 0 /\ Current(s).status \in ActiveAttempt
                      THEN step[s] = (IF Current(s).status = "queued" THEN "pending" ELSE Current(s).status)
                      ELSE step[s] \notin {"running", "waiting"}
    BY DEF StepMatchesAttempt
  <2> QED
    BY Newest DEF Entry, ActiveAttempt
<1> QED
  BY <1>1, StepInit, StepNext, PTL DEF Spec

(***************************************************************************)
(* A recorded success is the Turn's own, and an Attempt waits for the user *)
(* only when its Turn asked or a person has to review it.                  *)
(***************************************************************************)
THEOREM VerdictTrue ==
    Spec => []VerdictMatchesTurn
<1>1. StepInv => VerdictMatchesTurn
  <2> SUFFICES ASSUME StepInv, NEW s \in Steps, NEW k \in 1..Last(s)
               PROVE  /\ att[s][k].status = "completed" => att[s][k].turn = "completed"
                      /\ att[s][k].status = "waiting" /\ ~att[s][k].review /\ ~att[s][k].answered
                            => att[s][k].turn = "input"
    BY DEF VerdictMatchesTurn
  <2>1. Truthful(att[s][k])
    BY Newest DEF Old, Entry, Current
  <2> QED
    BY <2>1 DEF Truthful
<1> QED
  BY <1>1, StepInit, StepNext, PTL DEF Spec

-----------------------------------------------------------------------------
(***************************************************************************)
(* What a step may do to the Attempts: nothing, reserve one, admit an      *)
(* answer, cancel, or rewrite the newest one of a Step without giving it a *)
(* slot it did not have.                                                   *)
(***************************************************************************)
Weighs(a) == a.status \in {"queued", "running"} \/ (a.status = "waiting" /\ a.review)
Rewrites(s) ==
    /\ Last(s) # 0
    /\ \E x \in AttemptType : /\ att' = [att EXCEPT ![s][Last(s)] = x]
                              /\ x.status = "queued" => Current(s).status = "queued"
                              /\ Weighs(x) => Weighs(Current(s))
Sheds == \E W \in [Steps -> SUBSET ActiveAttempt] : att' = [s \in Steps |-> RevokedAll(att[s], W[s])]
TakesSlot(s) == CreateAttempt(s) \/ Answer(s) \/ AdmitDecision(s)
AttemptEffect == att' = att \/ Sheds \/ \E s \in Steps : Rewrites(s) \/ TakesSlot(s)

\* Cancelling with an empty set of statuses changes nothing.
LEMMA RevokeNone ==
    ASSUME NEW A \in Seq(AttemptType) PROVE RevokedAll(A, {}) = A
BY DEF RevokedAll, Revoked

\* Cancelling Steps only takes slots away.
LEMMA EffectCancel ==
    ASSUME StepInv, NEW S \in SUBSET Steps, CancelAttempts(S) PROVE Sheds
<1> DEFINE W == [s \in Steps |-> IF s \in S THEN ActiveAttempt ELSE {}]
<1>1. W \in [Steps -> SUBSET ActiveAttempt]
  OBVIOUS
<1>2. att' = [s \in Steps |-> IF s \notin S THEN att[s] ELSE RevokedAll(att[s], ActiveAttempt)]
  BY DEF CancelAttempts, RevokedAll, Revoked, Last
<1>3. ASSUME NEW s \in Steps PROVE att'[s] = RevokedAll(att[s], W[s])
  <2>1. CASE s \in S
    BY <1>2, <2>1
  <2>2. CASE s \notin S
    BY <1>2, <2>2, Newest, RevokeNone
  <2> QED
    BY <2>1, <2>2
<1> HIDE DEF W
<1>4. att' = [s \in Steps |-> RevokedAll(att[s], W[s])]
  BY <1>2, <1>3
<1> QED
  BY <1>1, <1>4 DEF Sheds

\* Pausing only takes slots away.
LEMMA EffectPause ==
    ASSUME Pause PROVE Sheds
<1> DEFINE W == [s \in Steps |-> {"queued"}]
<1>1. W \in [Steps -> SUBSET ActiveAttempt]
  BY DEF ActiveAttempt
<1>2. att' = [s \in Steps |-> RevokedAll(att[s], W[s])]
  BY DEF Pause, RevokedAll, Revoked, Last
<1> HIDE DEF W
<1> QED
  BY <1>1, <1>2 DEF Sheds

\* Reconciling an Attempt that holds a slot gives it no other.
LEMMA EffectReconcile ==
    ASSUME StepInv, NEW s \in Steps, NEW k \in 1..Last(s), Weighs(att[s][k]), att[s][k].status # "queued",
           Reconcile(s, k)
    PROVE  Rewrites(s)
<1> DEFINE a == att[s][k]
           x == Reconciled(a)
<1>1. a \in AttemptType /\ a.status \in {"running", "waiting"}
  BY Newest DEF Weighs
<1>2. k = Last(s) /\ Last(s) # 0
  BY <1>1, Newest DEF Old
<1>3. att' = [att EXCEPT ![s][Last(s)] = x]
  BY <1>2 DEF Reconcile, Record
<1>4. x \in AttemptType /\ x.status # "queued"
  <2>1. a.turn \in Closed => Verdict[a.turn] \in Statuses \ {"queued"}
    BY DEF Closed, Verdict, Statuses, ActiveAttempt
  <2>2. {"waiting", "running"} \subseteq Statuses \ {"queued"}
    BY DEF Statuses, ActiveAttempt
  <2> QED
    BY <1>1, <2>1, <2>2 DEF Reconciled, Settled, AttemptType
<1> HIDE DEF x
<1> QED
  BY <1>2, <1>3, <1>4 DEF Rewrites, Current

\* A Turn that moves changes no slot.
LEMMA EffectTurn ==
    ASSUME StepInv, NEW s \in Steps, NEW k \in 1..Last(s),
           NEW from \in SUBSET Unresolved, NEW to \in Unresolved \cup Closed, Turn(s, k, from, to)
    PROVE  Rewrites(s)
<1> DEFINE a == att[s][k]
           x == [a EXCEPT !.turn = to]
<1>1. a \in AttemptType /\ a.turn \in Unresolved /\ att' = [att EXCEPT ![s][k] = x]
  BY Newest DEF Turn
<1>2. k = Last(s) /\ Last(s) # 0
  BY <1>1, Newest DEF Old
<1>3. x \in AttemptType /\ x.status = a.status /\ x.review = a.review
  BY <1>1 DEF AttemptType
<1> HIDE DEF x
<1> QED
  BY <1>1, <1>2, <1>3 DEF Rewrites, Current, Weighs

\* deliver_turn changes no slot, and writes only under the fence.
LEMMA EffectDeliver ==
    ASSUME StepInv, NEW s \in Steps, Deliver(s)
    PROVE  att' = att \/ (Mine(s) /\ Rewrites(s))
<1> DEFINE k == job[s].att
           a == att[s][k]
<1>1. job[s].phase \in Carries
  BY DEF Deliver, Carries
<1>2. k \in 1..Last(s) /\ a \in AttemptType /\ Backs(att[s], job[s]) /\ att \in [Steps -> Seq(AttemptType)]
      /\ att[s] \in Seq(AttemptType)
  BY <1>1, Newest DEF StepInv, Shapes
<1>3. CASE a.turn # "absent" /\ att' = [att EXCEPT ![s][k].turn = a.turn]
  <2>1. [a EXCEPT !.turn = a.turn] = a
    BY <1>2 DEF AttemptType
  <2>2. [att[s] EXCEPT ![k] = a] = att[s]
    BY <1>2
  <2>3. att' = [att EXCEPT ![s] = [att[s] EXCEPT ![k] = [a EXCEPT !.turn = a.turn]]]
    BY <1>3
  <2> QED
    BY <1>2, <2>1, <2>2, <2>3
<1>4. CASE Mine(s) /\ ~job[s].stale /\ att' = [att EXCEPT ![s][k].turn = "running"]
  <2> DEFINE x == [a EXCEPT !.turn = "running"]
  <2>1. k = Last(s) /\ Last(s) # 0
    BY <1>1, <1>2, <1>4, Newest DEF Backs, Last
  <2>2. att' = [att EXCEPT ![s][Last(s)] = x]
    BY <1>4, <2>1
  <2>3. x \in AttemptType /\ x.status = a.status /\ x.review = a.review
    BY <1>2 DEF AttemptType, Unresolved
  <2> HIDE DEF x
  <2> QED
    BY <1>4, <2>1, <2>2, <2>3 DEF Rewrites, Current, Weighs
<1> QED
  BY <1>3, <1>4 DEF Deliver

\* A job writes an Attempt only under the fence, and takes a slot only by create_attempt.
LEMMA EffectJob ==
    ASSUME StepInv, NEW s \in Steps, JobAdvances(s) \/ JobAsks(s) \/ JobFault(s)
    PROVE  \/ UNCHANGED att
           \/ Fence /\ (Rewrites(s) \/ CreateAttempt(s))
<1>1. CASE Begin(s)
  <2> DEFINE k == job[s].att
             x == [att[s][k] EXCEPT !.status = "running"]
  <2>1. CASE UNCHANGED att
    BY <2>1
  <2>2. CASE Mine(s) /\ ~job[s].stale /\ att[s][k].status = "queued" /\ Record(s, k, x, "running")
    <3>1. job[s].phase \in Carries
      BY <1>1 DEF Begin, Carries
    <3>2. k \in 1..Last(s) /\ att[s][k] \in AttemptType /\ Backs(att[s], job[s])
      BY <3>1, Newest
    <3>3. k = Last(s) /\ Last(s) # 0
      BY <2>2, <3>1, <3>2, Newest DEF Backs, Last
    <3>4. x \in AttemptType /\ x.status = "running"
      BY <3>2 DEF AttemptType, Statuses, ActiveAttempt
    <3>5. att' = [att EXCEPT ![s][Last(s)] = x]
      BY <2>2, <3>3 DEF Record
    <3> HIDE DEF x
    <3> QED
      BY <2>2, <3>3, <3>4, <3>5 DEF Rewrites, Current, Weighs, Mine
  <2> QED
    BY <1>1, <2>1, <2>2 DEF Begin
<1>2. CASE Deliver(s)
  BY <1>2, EffectDeliver DEF Mine
<1>3. CASE Settle(s)
  <2>1. /\ job[s].att = Last(s) /\ Last(s) \in 1..Last(s) /\ Current(s) \in AttemptType
        /\ Entry(step[s], Current(s)) /\ Current(s).status \in {"queued", "running"}
        /\ Carried(job[s], Current(s)) /\ Last(s) \in Nat /\ Last(s) # 0
    BY <1>3, SettlesNewest, Newest, ExecutionAssumption
  <2>2. PICK o \in Outcomes(s, Last(s), job[s].out) : Record(s, Last(s), Settled(Current(s), o[1]), o[2])
    BY <1>3, <2>1 DEF Settle, Current
  <2>3. job[s] \in JobType /\ job[s].phase = "settle" /\ job[s].out # "suspended"
    BY <1>3 DEF Settle, StepInv, Shapes
  <2> DEFINE x == Settled(Current(s), o[1])
  <2>4. x \in AttemptType /\ x.status \notin {"queued", "running"}
    BY <2>1, <2>3, OutcomesFit DEF Current, Entry
  <2>5. att' = [att EXCEPT ![s][Last(s)] = x]
    BY <2>2 DEF Record
  <2> HIDE DEF x
  <2> QED
    BY <1>3, <2>1, <2>4, <2>5 DEF Rewrites, Weighs, Settle
<1>4. CASE SettleSuspended(s) \/ RecoverReceipt(s)
  <2>1. PICK k \in 1..Last(s) : Weighs(att[s][k]) /\ att[s][k].status # "queued" /\ Reconcile(s, k)
    <3>1. CASE SettleSuspended(s)
      <4>1. job[s].att \in 1..Last(s)
        BY <3>1, Newest DEF SettleSuspended, Carries
      <4> QED
        BY <3>1, <4>1 DEF SettleSuspended, Weighs
    <3>2. CASE RecoverReceipt(s)
      <4>1. Last(s) # 0
        BY <3>2 DEF RecoverReceipt, Owns
      <4>2. Last(s) \in 1..Last(s)
        BY <4>1, Newest
      <4> QED
        BY <3>2, <4>2 DEF RecoverReceipt, Current, Weighs
    <3> QED
      BY <1>4, <3>1, <3>2
  <2> QED
    BY <2>1, EffectReconcile DEF Reconcile
<1>5. CASE CreateAttempt(s)
  BY <1>5 DEF CreateAttempt, MayReserve, Mine
<1>6. CASE ~(Begin(s) \/ Deliver(s) \/ Settle(s) \/ SettleSuspended(s) \/ RecoverReceipt(s) \/ CreateAttempt(s))
  BY <1>6 DEF JobAdvances, JobAsks, JobFault, Prepare, Admit, AdmitRefused, Observe, SettleEnds,
       SettleStale, RecoverGivesUp, RecoverAdopts, RecoverFailsStep, RecoverResumes,
       SettleUnarmed, RecoverUnarmed, PrepareFails, AdmitReplyLost, LinkFails, Deadline, durable
<1> QED
  BY <1>1, <1>2, <1>3, <1>4, <1>5, <1>6

\* The Session's steps, in one form.
LEMMA SessionTurns ==
    ASSUME Session
    PROVE  \E s \in Steps : \E k \in 1..Last(s) :
              \E from \in SUBSET Unresolved, to \in Unresolved \cup Closed : Turn(s, k, from, to)
<1>0. PICK s \in Steps : \E k \in 1..Last(s) :
          TurnCloses(s, k) \/ TurnSuspends(s, k) \/ TurnGoesOn(s, k) \/ Cleanup(s, k)
  BY DEF Session
<1>1. PICK k \in 1..Last(s) : TurnCloses(s, k) \/ TurnSuspends(s, k) \/ TurnGoesOn(s, k) \/ Cleanup(s, k)
  BY <1>0
<1>2. /\ {"running"} \in SUBSET Unresolved /\ {"suspended"} \in SUBSET Unresolved /\ Unresolved \in SUBSET Unresolved
      /\ Unresolved = {"running", "suspended"} /\ "cancelled" \in Closed
  BY DEF Unresolved, Closed
<1>3. \E from \in SUBSET Unresolved, to \in Unresolved \cup Closed : Turn(s, k, from, to)
  BY <1>1, <1>2 DEF TurnCloses, TurnSuspends, TurnGoesOn, Cleanup
<1> QED
  BY <1>3

\* Every step has one of these effects.
LEMMA EffectNext ==
    ASSUME StepInv, Next PROVE AttemptEffect
<1>1. CASE UserCommand
  <2>1. ASSUME NEW s \in Steps, CancelStep(s) PROVE Sheds
    <3>1. CancelAttempts({s}) /\ {s} \in SUBSET Steps
      BY <2>1 DEF CancelStep, CancelSteps
    <3> QED
      BY <3>1, EffectCancel
  <2>2. CASE Cancel
    <3>1. CancelAttempts(Steps) /\ Steps \in SUBSET Steps
      BY <2>2 DEF Cancel, CancelSteps
    <3>2. Sheds
      BY <3>1, EffectCancel
    <3> QED
      BY <3>2 DEF AttemptEffect
  <2>3. CASE Pause
    BY <2>3, EffectPause DEF AttemptEffect
  <2>4. ASSUME NEW s \in Steps, Answer(s) PROVE AttemptEffect
    BY <2>4 DEF AttemptEffect, TakesSlot
  <2>5. CASE Resume \/ \E s \in Steps : Retry(s)
    BY <2>5 DEF Resume, Retry, AttemptEffect
  <2> QED
    BY <1>1, <2>1, <2>2, <2>3, <2>4, <2>5 DEF UserCommand, AttemptEffect
<1>2. CASE LoopStep
  <2>1. ASSUME NEW s \in Steps, NEW k \in 1..Last(s), RecoverAttempt(s, k) PROVE AttemptEffect
    <3>1. CASE att[s][k].status = "queued"
      BY <2>1, <3>1 DEF RecoverAttempt, durable, AttemptEffect
    <3>2. CASE att[s][k].status # "queued"
      <4>1. Reconcile(s, k) /\ Weighs(att[s][k])
        BY <2>1, <3>2 DEF RecoverAttempt, Interrupted, Recovers, Weighs
      <4>2. Rewrites(s)
        BY <3>2, <4>1, EffectReconcile
      <4> QED
        BY <4>2 DEF AttemptEffect
    <3> QED
      BY <3>1, <3>2
  <2>2. ASSUME NEW s \in Steps, AdmitDecision(s) PROVE AttemptEffect
    BY <2>2 DEF AttemptEffect, TakesSlot
  <2>4. CASE FailIfActive
    <3>1. att' = att \/ (CancelAttempts(Steps) /\ Steps \in SUBSET Steps)
      BY <2>4, FailWrites DEF CancelSteps
    <3>2. att' = att \/ Sheds
      BY <3>1, EffectCancel
    <3> QED
      BY <3>2 DEF AttemptEffect
  <2>3. CASE ~FailIfActive /\ ~\E s \in Steps : AdmitDecision(s) \/ \E k \in 1..Last(s) : RecoverAttempt(s, k)
    <3>1. att' = att
      BY <1>2, <2>3 DEF LoopStep, Acquire, Depart, RecoverDone, AwaitJobs, Finalize, IdleExit, LoopAborts,
         DeliverDecision, SkipBlocked, DispatchSome, Dispatch, durable
    <3> QED
      BY <3>1 DEF AttemptEffect
  <2> QED
    BY <2>1, <2>2, <2>3, <2>4
<1>3. CASE Session
  <2>1. PICK s \in Steps : \E k \in 1..Last(s) :
              \E from \in SUBSET Unresolved, to \in Unresolved \cup Closed : Turn(s, k, from, to)
    BY <1>3, SessionTurns
  <2>2. Rewrites(s)
    BY <2>1, EffectTurn
  <2> QED
    BY <2>2 DEF AttemptEffect
<1>4. CASE LoopFails \/ Heartbeat \/ LeaseLapses \/ OldLeaseLapses \/ Crash \/ Boot
  BY <1>4 DEF LoopFails, Heartbeat, LeaseLapses, OldLeaseLapses, Crash, Boot, durable, AttemptEffect
<1>5. ASSUME NEW s \in Steps, JobAdvances(s) \/ JobAsks(s) \/ JobFault(s) PROVE AttemptEffect
  BY <1>5, EffectJob DEF AttemptEffect, TakesSlot
<1> QED
  BY <1>1, <1>2, <1>3, <1>4, <1>5 DEF Next

-----------------------------------------------------------------------------
(***************************************************************************)
(* The loop and the jobs.  A running generation has seen every job, and    *)
(* one that comes to dispatch with no job under way has left no            *)
(* reservation behind: recovery took them all, and only a job reserves.    *)
(***************************************************************************)
SeenAll == Running => InFlight \subseteq loop.seen
NoneQueued == \A s \in Steps : \A k \in 1..Last(s) : att[s][k].status # "queued"
NoneLeft == loop.phase = "dispatch" /\ loop.seen = {} => NoneQueued

\* Only create_attempt makes a reservation.
LEMMA QueuedOnlyByCreate ==
    ASSUME StepInv, Next, NoneQueued, \A s \in Steps : ~CreateAttempt(s)
    PROVE  NoneQueued'
<1>0. AttemptEffect /\ att \in [Steps -> Seq(AttemptType)]
  BY EffectNext DEF StepInv, Shapes
<1>1. CASE att' = att
  BY <1>1 DEF NoneQueued, Last
<1>2. CASE Sheds
  <2>1. PICK W \in [Steps -> SUBSET ActiveAttempt] : att' = [s \in Steps |-> RevokedAll(att[s], W[s])]
    BY <1>2 DEF Sheds
  <2>2. ASSUME NEW s \in Steps, NEW k \in 1..Len(att'[s]) PROVE att'[s][k].status # "queued"
    <3>1. att'[s] = RevokedAll(att[s], W[s]) /\ att[s] \in Seq(AttemptType)
      BY <1>0, <2>1
    <3>2. k \in 1..Len(att[s]) /\ att'[s][k] = Revoked(att[s][k], W[s])
      <4>1. RevokedAll(att[s], W[s]) \in [1..Len(att[s]) -> {Revoked(att[s][i], W[s]) : i \in 1..Len(att[s])}]
        BY DEF RevokedAll
      <4>2. Len(RevokedAll(att[s], W[s])) = Len(att[s]) /\ Len(att[s]) \in Nat
        BY <3>1, <4>1, Tabled
      <4> QED
        BY <3>1, <4>2 DEF RevokedAll
    <3>3. att[s][k] \in AttemptType /\ att[s][k].status # "queued"
      BY <3>1, <3>2 DEF NoneQueued, Last
    <3> QED
      BY <3>2, <3>3 DEF Revoked, AttemptType
  <2> QED
    BY <2>2 DEF NoneQueued, Last
<1>3. ASSUME NEW t \in Steps, Last(t) # 0, NEW x \in AttemptType, att' = [att EXCEPT ![t][Last(t)] = x],
             x.status # "queued"
      PROVE  NoneQueued'
  <2>1. ASSUME NEW s \in Steps, NEW k \in 1..Len(att'[s]) PROVE att'[s][k].status # "queued"
    <3>1. CASE s = t
      <4>1. att'[s] = [att[s] EXCEPT ![Last(s)] = x] /\ att[s] \in Seq(AttemptType) /\ Last(s) \in 1..Last(s)
        BY <1>0, <1>3, <3>1, Newest
      <4>2. k \in 1..Len(att[s]) /\ att'[s][k] = IF k = Last(s) THEN x ELSE att[s][k]
        BY <4>1, PutAt DEF Last
      <4> QED
        BY <1>3, <4>2 DEF NoneQueued, Last
    <3>2. CASE s # t
      <4>1. att'[s] = att[s]
        BY <1>0, <1>3, <3>2
      <4> QED
        BY <4>1 DEF NoneQueued, Last
    <3> QED
      BY <3>1, <3>2
  <2> QED
    BY <2>1 DEF NoneQueued, Last
<1>4. ASSUME NEW t \in Steps, Rewrites(t) PROVE NoneQueued'
  <2>1. Current(t).status # "queued"
    BY <1>4, Newest DEF NoneQueued, Rewrites, Current
  <2> QED
    BY <1>3, <1>4, <2>1 DEF Rewrites
<1>5. ASSUME NEW t \in Steps, Answer(t) PROVE NoneQueued'
  <2> DEFINE v == IF Capacity({<<t, Last(t)>>}) THEN "running" ELSE "waiting"
             x == [status |-> v, review |-> FALSE, answered |-> TRUE, turn |-> "absent"]
  <2>1. Last(t) # 0 /\ att' = [att EXCEPT ![t][Last(t)] = x] /\ v \in {"running", "waiting"}
    BY <1>5 DEF Answer
  <2> HIDE DEF v
  <2>2. x \in AttemptType /\ x.status # "queued"
    BY <2>1 DEF AttemptType, Statuses, ActiveAttempt
  <2> HIDE DEF x
  <2> QED
    BY <1>3, <2>1, <2>2
<1>6. ASSUME NEW t \in Steps, AdmitDecision(t) PROVE NoneQueued'
  <2> DEFINE x == [Current(t) EXCEPT !.status = "running"]
  <2>1. Last(t) # 0 /\ att' = [att EXCEPT ![t][Last(t)] = x]
    BY <1>6 DEF AdmitDecision, Admits, Decided, Record
  <2>2. x \in AttemptType /\ x.status # "queued"
    BY <2>1, Newest DEF AttemptType, Statuses, ActiveAttempt
  <2> HIDE DEF x
  <2> QED
    BY <1>3, <2>1, <2>2
<1> QED
  BY <1>0, <1>1, <1>2, <1>4, <1>5, <1>6 DEF AttemptEffect, TakesSlot

\* A job moves alone, and only one that is retained moves.
LEMMA JobFrame ==
    ASSUME StepInv, NEW s \in Steps, JobAdvances(s) \/ JobAsks(s) \/ JobFault(s)
    PROVE  job[s].phase # "none" /\ \A t \in Steps \ {s} : job'[t] = job[t]
<1>0. job \in [Steps -> JobType]
  BY DEF StepInv, Shapes
<1>1. job[s].phase # "none"
  BY DEF JobAdvances, JobAsks, JobFault, Prepare, Admit, CreateAttempt, AdmitRefused, Begin, Deliver, Observe, SettleEnds,
     SettleStale, Settle, SettleSuspended, RecoverGivesUp, RecoverAdopts, RecoverFailsStep, RecoverResumes,
     RecoverReceipt, SettleUnarmed, RecoverUnarmed, PrepareFails, AdmitReplyLost, LinkFails, Deadline,
     Unattached, Recovering
<1>2. ASSUME NEW t \in Steps \ {s}, EndJob(s) \/ ToRecovery(s) PROVE job'[t] = job[t]
  BY <1>0, <1>2 DEF EndJob, ToRecovery
<1>3. ASSUME NEW t \in Steps \ {s}, NEW o, WithOutcome(s, o) PROVE job'[t] = job[t]
  BY <1>0, <1>3 DEF WithOutcome
<1>4. ASSUME NEW t \in Steps \ {s}, NEW ph, NEW k, Bound(s, ph, k) PROVE job'[t] = job[t]
  BY <1>0, <1>4 DEF Bound
<1>5. CASE JobAdvances(s)
  <2>1. ASSUME NEW t \in Steps \ {s} PROVE job'[t] = job[t]
    BY <1>0, <1>2, <1>3, <1>4, <1>5 DEF JobAdvances, Prepare, Admit, AdmitRefused, Begin, Deliver, Observe, SettleEnds,
       SettleStale, Settle, SettleSuspended, RecoverGivesUp, RecoverAdopts, RecoverFailsStep, RecoverResumes,
       RecoverReceipt
  <2> QED
    BY <1>1, <2>1
<1>6. CASE JobAsks(s)
  BY <1>1, <1>6 DEF JobAsks, SettleUnarmed, RecoverUnarmed
<1>7. CASE JobFault(s)
  <2>1. ASSUME NEW t \in Steps \ {s} PROVE job'[t] = job[t]
    BY <1>0, <1>3, <1>7 DEF JobFault, PrepareFails, AdmitReplyLost, LinkFails, Deadline
  <2> QED
    BY <1>1, <2>1
<1> QED
  BY <1>5, <1>6, <1>7

(* No job appears where there was none, but perhaps for s. *)
Retains(S) == \A t \in Steps \ S : job[t].phase = "none" => job'[t].phase = "none"

(***************************************************************************)
(* What a step may do to the loop and to the set of jobs: nothing but end  *)
(* jobs; begin a pass; retain one job and remember it; stop or start.      *)
(***************************************************************************)
LoopEffect ==
    \/ loop' \in {loop, Started(loop)} /\ Retains({})
    \/ loop' = Pass
    \/ loop'.phase \in {"down", "off", "acquire", "failing", "leaving"}
    \/ loop'.phase = "boot" /\ loop'.seen = InFlight /\ job' = job
    \/ \E s \in Steps : /\ loop' \in {Retaining(s), [Retaining(s) EXCEPT !.phase = "dispatch"]}
                        /\ loop.phase \in {"boot", "recover"} /\ Retains({s})
    \/ loop.phase = "recover" /\ RecoverDone

\* Every step has one of these effects.
LEMMA LoopEffectNext ==
    ASSUME StepInv, RestType, Next PROVE LoopEffect
<1>0. job \in [Steps -> JobType] /\ loop \in LoopType
  BY DEF StepInv, Shapes, RestType
<1>1. CASE UserCommand
  <2>1. loop' \in {loop, Started(loop)}
    BY <1>1 DEF UserCommand, Pause, Resume, Cancel, CancelStep, Retry, Answer
  <2>2. job' = job \/ \E S : job' = Advance(job, S)
    BY <1>1 DEF UserCommand, Pause, Resume, Cancel, CancelStep, CancelSteps, Retry, Answer
  <2>3. Retains({})
    BY <1>0, <2>2, Advanced DEF Retains, Newer
  <2> QED
    BY <2>1, <2>3 DEF LoopEffect
<1>2. CASE LoopStep
  <2>1. CASE Acquire
    <3>1. CASE loop' = Leaving(FALSE)
      BY <1>0, <3>1, LoopMoves DEF LoopEffect
    <3>2. CASE loop' = [loop EXCEPT !.phase = "boot", !.seen = InFlight]
      BY <1>0, <2>1, <3>2 DEF LoopEffect, Acquire, LoopType
    <3> QED
      BY <2>1, <3>1, <3>2 DEF Acquire
  <2>2. CASE Depart
    BY <2>2 DEF Depart, LoopEffect
  <2>3. CASE Finalize \/ IdleExit \/ LoopAborts \/ FailIfActive
    <3>1. loop' = Leaving(FALSE) \/ loop' = Leaving(TRUE)
      BY <2>3, FailWrites DEF Finalize, IdleExit, LoopAborts, Leave
    <3> QED
      BY <1>0, <3>1, LoopMoves DEF LoopEffect
  <2>4. CASE AwaitJobs \/ DispatchSome
    BY <2>4 DEF AwaitJobs, DispatchSome, Dispatch, LoopEffect
  <2>5. CASE RecoverDone
    BY <2>5 DEF RecoverDone, Passing, NextPhase, LoopEffect
  <2>6. ASSUME NEW s \in Steps, AdmitDecision(s) \/ SkipBlocked(s) PROVE LoopEffect
    BY <2>6 DEF AdmitDecision, SkipBlocked, LoopEffect, Retains
  <2>7. ASSUME NEW s \in Steps, DeliverDecision(s) PROVE LoopEffect
    <3>1. loop.phase \in {"boot", "recover"} /\ Retains({s}) /\ loop' \in {Retaining(s), Pass}
      BY <1>0, <2>7 DEF DeliverDecision, Passing, Retains
    <3> QED
      BY <3>1 DEF LoopEffect
  <2>8. ASSUME NEW s \in Steps, NEW k \in 1..Last(s), RecoverAttempt(s, k) PROVE LoopEffect
    <3>1. loop.phase \in {"boot", "recover"}
      BY <2>8 DEF RecoverAttempt, Passing
    <3>2. \E j : job' = [job EXCEPT ![s] = j]
      BY <2>8 DEF RecoverAttempt
    <3>3. Retains({s})
      BY <1>0, <3>2 DEF Retains
    <3>4. CASE loop' = Handed(s)
      BY <3>1, <3>3, <3>4 DEF Handed, LoopEffect
    <3>5. CASE loop' = Retaining(s)
      BY <3>1, <3>3, <3>5 DEF LoopEffect
    <3>6. CASE loop' = loop /\ job' = [job EXCEPT ![s] = job[s]]
      BY <1>0, <3>6 DEF LoopEffect, Retains
    <3> QED
      BY <2>8, <3>4, <3>5, <3>6 DEF RecoverAttempt
  <2> QED
    BY <1>2, <2>1, <2>2, <2>3, <2>4, <2>5, <2>6, <2>7, <2>8 DEF LoopStep
<1>3. CASE Heartbeat \/ LeaseLapses \/ OldLeaseLapses \/ Session
  BY <1>3 DEF Heartbeat, LeaseLapses, OldLeaseLapses, Session, TurnCloses, TurnSuspends, TurnGoesOn, Cleanup, Turn,
     LoopEffect, Retains
<1>4. CASE Crash \/ LoopFails
  BY <1>4 DEF Crash, LoopFails, Leaving, LoopEffect
<1>5. CASE Boot
  BY <1>0, <1>5 DEF Boot, LoopEffect, LoopType
<1>6. ASSUME NEW s \in Steps, JobAdvances(s) \/ JobAsks(s) \/ JobFault(s) PROVE LoopEffect
  <2>1. Retains({})
    BY <1>6, JobFrame DEF Retains
  <2>2. loop' \in {loop, Started(loop)}
    BY <1>6 DEF JobAdvances, JobAsks, JobFault, Prepare, Admit, CreateAttempt, AdmitRefused, Begin, Deliver, Observe, SettleEnds,
       SettleStale, Settle, SettleSuspended, RecoverGivesUp, RecoverAdopts, RecoverFailsStep, RecoverResumes,
       RecoverReceipt, SettleUnarmed, RecoverUnarmed, PrepareFails, AdmitReplyLost, LinkFails, Deadline
  <2> QED
    BY <2>1, <2>2 DEF LoopEffect
<1> QED
  BY <1>1, <1>2, <1>3, <1>4, <1>5, <1>6 DEF Next

\* A running generation has seen every job.
LEMMA SeenNext ==
    ASSUME StepInv, RestType, SeenAll, Next PROVE SeenAll'
<1>0. loop \in LoopType /\ LoopEffect
  BY LoopEffectNext DEF RestType
<1> SUFFICES ASSUME Running', NEW t \in Steps, job'[t].phase # "none" PROVE t \in loop'.seen
  BY DEF SeenAll, InFlight
<1>1. CASE loop' \in {loop, Started(loop)} /\ Retains({})
  <2>1. Running /\ loop'.seen = loop.seen
    BY <1>0, <1>1, LoopMoves DEF Running
  <2> QED
    BY <1>1, <2>1 DEF SeenAll, Retains, InFlight
<1>2. CASE loop' = Pass
  BY <1>0, <1>2, LoopMoves
<1>3. CASE loop'.phase = "boot" /\ loop'.seen = InFlight /\ job' = job
  BY <1>3 DEF InFlight
<1>4. ASSUME NEW s \in Steps, loop' \in {Retaining(s), [Retaining(s) EXCEPT !.phase = "dispatch"]},
             loop.phase \in {"boot", "recover"}, Retains({s})
      PROVE  t \in loop'.seen
  <2>1. loop'.seen = loop.seen \cup {s} /\ Running
    BY <1>0, <1>4 DEF Retaining, LoopType, Running
  <2> QED
    BY <1>4, <2>1 DEF SeenAll, Retains, InFlight
<1>5. CASE loop.phase = "recover" /\ RecoverDone
  <2>1. Running /\ loop'.seen = loop.seen /\ job' = job
    BY <1>0, <1>5, LoopMoves DEF Running, RecoverDone
  <2> QED
    BY <2>1 DEF SeenAll, InFlight
<1> QED
  BY <1>0, <1>1, <1>2, <1>3, <1>4, <1>5 DEF LoopEffect, Running

\* No reservation is left when the loop finds no job under way.
LEMMA NoneLeftNext ==
    ASSUME StepInv, RestType, SeenAll, NoneLeft, Next PROVE NoneLeft'
<1>0. loop \in LoopType /\ LoopEffect
  BY LoopEffectNext DEF RestType
<1> SUFFICES ASSUME loop'.phase = "dispatch", loop'.seen = {} PROVE NoneQueued'
  BY DEF NoneLeft
<1>1. CASE loop' \in {loop, Started(loop)}
  <2>1. loop.phase = "dispatch" /\ loop.seen = {} /\ Running
    BY <1>0, <1>1, LoopMoves DEF Running
  <2>2. \A s \in Steps : job[s].phase = "none"
    BY <2>1 DEF SeenAll, InFlight
  <2>3. \A s \in Steps : ~CreateAttempt(s)
    BY <2>2 DEF CreateAttempt
  <2> QED
    BY <2>1, <2>3, QueuedOnlyByCreate DEF NoneLeft
<1>2. CASE loop' = Pass
  BY <1>0, <1>2, LoopMoves
<1>3. ASSUME NEW s \in Steps, loop' \in {Retaining(s), [Retaining(s) EXCEPT !.phase = "dispatch"]}
      PROVE  FALSE
  <2>1. loop'.seen = loop.seen \cup {s}
    BY <1>0, <1>3 DEF Retaining, LoopType
  <2> QED
    BY <2>1
<1>4. CASE loop.phase = "recover" /\ RecoverDone
  <2>1. /\ Running /\ loop.seen = {} /\ att' = att
        /\ \A s \in Steps : Interrupted(s) = {}
    BY <1>0, <1>4, LoopMoves DEF Running, RecoverDone, durable
  <2>2. \A s \in Steps : job[s].phase = "none"
    BY <2>1 DEF SeenAll, InFlight
  <2>3. NoneQueued
    BY <2>1, <2>2 DEF NoneQueued, Interrupted, Recovers, Unseen
  <2> QED
    BY <2>1, <2>3 DEF NoneQueued, Last
<1> QED
  BY <1>0, <1>1, <1>2, <1>3, <1>4 DEF LoopEffect

-----------------------------------------------------------------------------
(***************************************************************************)
(* The end of an Execution.                                                *)
(***************************************************************************)

\* No status lets an ended Execution be written.
LEMMA EndedNotAdmissible ==
    Ended \cap Admissible = {} /\ Dispatchable \subseteq Admissible
BY DEF Ended, Admissible, Dispatchable

(* The end of an Execution that is not completed: its open Steps go with it. *)
EndsOpen == lease' = "none" /\ live' = FALSE /\ CancelSteps(Steps)

\* An Execution is ended by the last statement of the loop, by the user's cancel, or by an error of the loop.
LEMMA EndedBy ==
    ASSUME RestType, Next, exec \notin Ended, exec' \in Ended PROVE Finalize \/ EndsOpen
<1>0. {"running", "waiting_input", "paused"} \cap Ended = {}
  BY DEF Ended
<1>1. \A v : Attention(v) \notin Ended
  BY <1>0 DEF Attention
<1>2. CASE UserCommand
  BY <1>0, <1>2 DEF UserCommand, Pause, Resume, Cancel, EndsOpen, CancelStep, Retry, Answer
<1>6. CASE FailIfActive
  BY <1>6, FailWrites DEF EndsOpen
<1>3. CASE LoopStep /\ ~FailIfActive
  BY <1>0, <1>1, <1>3 DEF LoopStep, Acquire, Depart, RecoverDone, AwaitJobs, IdleExit, LoopAborts,
     AdmitDecision, DeliverDecision, SkipBlocked, RecoverAttempt, Reconcile, DispatchSome, Dispatch, durable
<1>4. CASE LoopFails \/ Heartbeat \/ LeaseLapses \/ OldLeaseLapses \/ Crash \/ Boot \/ Session
  BY <1>4 DEF LoopFails, Heartbeat, LeaseLapses, OldLeaseLapses, Crash, Boot, Session, TurnCloses, TurnSuspends, TurnGoesOn,
     Cleanup, Turn, durable
<1>5. ASSUME NEW s \in Steps, JobAdvances(s) \/ JobAsks(s) \/ JobFault(s) PROVE exec' \notin Ended
  BY <1>1, <1>5 DEF JobAdvances, JobAsks, JobFault, Prepare, Admit, CreateAttempt, AdmitRefused, Begin, Deliver, Observe,
     SettleEnds, SettleStale, Settle, SettleSuspended, RecoverGivesUp, RecoverAdopts, RecoverFailsStep, RecoverResumes,
     RecoverReceipt, Reconcile, SettleUnarmed, RecoverUnarmed, PrepareFails, AdmitReplyLost, LinkFails, Deadline, durable
<1> QED
  BY <1>2, <1>3, <1>4, <1>5, <1>6 DEF Next

\* Nothing but a retry touches the Steps of an ended Execution, and its Turns only close.
LEMMA EndedStill ==
    ASSUME StepInv, RestType, Next, exec \in Ended, exec' \in Ended
    PROVE  /\ step' = step
           /\ att' = att \/ Session
           /\ (lease # "mine" \/ ~live) => (lease' # "mine" \/ ~live')
<1>0. exec \notin Admissible /\ exec \notin Dispatchable /\ ~Fence /\ "running" \notin Ended
  BY EndedNotAdmissible DEF Fence, Ended
<1>1. CASE UserCommand
  BY <1>0, <1>1 DEF UserCommand, Pause, Resume, Cancel, CancelStep, Retry, Answer, Admissible
<1>2. CASE LoopStep
  <2>1. CASE Depart
    <3>1. step' = step /\ att' = att /\ lease' # "mine"
      BY <2>1 DEF Depart
    <3> QED
      BY <3>1
  <2>3. CASE FailIfActive
    <3>1. step' = step /\ att' = att /\ lease' = lease /\ live' = live
      BY <1>0, <2>3, FailWrites
    <3> QED
      BY <3>1
  <2>2. CASE ~Depart /\ ~FailIfActive
    <3>1. step' = step /\ att' = att /\ lease' = lease /\ live' = live
      BY <1>0, <1>2, <2>2 DEF LoopStep, Acquire, RecoverDone, AwaitJobs, Finalize, IdleExit, LoopAborts,
         AdmitDecision, DeliverDecision, SkipBlocked, RecoverAttempt, Reconcile, DispatchSome, Dispatch, durable,
         Passing, Dispatching, Dispatchable
    <3> QED
      BY <3>1
  <2> QED
    BY <2>1, <2>2, <2>3
<1>3. CASE LoopFails \/ Heartbeat \/ LeaseLapses \/ OldLeaseLapses \/ Crash \/ Boot \/ Session
  <2>1. CASE LoopFails
    <3>1. step' = step /\ att' = att /\ lease' = lease /\ live' = live
      BY <2>1 DEF LoopFails, durable
    <3> QED
      BY <3>1
  <2> QED
    BY <1>0, <1>3, <2>1 DEF Heartbeat, LeaseLapses, OldLeaseLapses, Crash, Boot, Session, TurnCloses, TurnSuspends,
       TurnGoesOn, Cleanup, Turn, durable
<1>4. ASSUME NEW s \in Steps, JobAdvances(s) \/ JobAsks(s) \/ JobFault(s)
      PROVE  step' = step /\ att' = att /\ lease' = lease /\ live' = live
  <2>1. att' = att
    BY <1>0, <1>4, EffectJob
  <2>2. step' = step /\ lease' = lease /\ live' = live
    BY <1>0, <1>4 DEF JobAdvances, JobAsks, JobFault, Prepare, Admit, CreateAttempt, AdmitRefused, Begin, Deliver, Observe,
     SettleEnds, SettleStale, Settle, SettleSuspended, RecoverGivesUp, RecoverAdopts, RecoverFailsStep, RecoverResumes,
     RecoverReceipt, Reconcile, SettleUnarmed, RecoverUnarmed, PrepareFails, AdmitReplyLost, LinkFails, Deadline, durable,
     Mine
  <2> QED
    BY <2>1, <2>2
<1> QED
  BY <1>1, <1>2, <1>3, <1>4 DEF Next

\* Steps that have ended keep no active Attempt but reservations that were superseded.
LEMMA EndedSteps ==
    ASSUME StepInv, NoneQueued, NEW s \in Steps, step[s] \in StepEnded PROVE ~HasActive(s)
BY Newest DEF HasActive, NoneQueued, Old, Entry, Current, ActiveAttempt, StepEnded

\* Cancelling leaves nothing active.
LEMMA CancelQuiets ==
    ASSUME StepInv, CancelSteps(Steps)
    PROVE  \A s \in Steps : step'[s] \in StepEnded /\ ~HasActive(s)'
<1>1. ASSUME NEW s \in Steps PROVE step'[s] \in StepEnded
  BY DEF CancelSteps, StepEnded
<1>2. ASSUME NEW s \in Steps PROVE ~HasActive(s)'
  <2>1. att'[s] = RevokedAll(att[s], ActiveAttempt) /\ att[s] \in Seq(AttemptType) /\ step[s] \in StepStatus
        /\ Ledger(step[s], att[s])
    BY Newest DEF CancelSteps, CancelAttempts, RevokedAll, Revoked, Last
  <2>2. Len(att'[s]) = Len(att[s])
    BY <2>1, RevokeAll
  <2>3. ASSUME NEW k \in 1..Len(att[s]) PROVE att'[s][k].status \notin ActiveAttempt
    <3>1. att'[s][k] = Revoked(att[s][k], ActiveAttempt) /\ att[s][k] \in AttemptType
      BY <2>1 DEF RevokedAll
    <3> QED
      BY <3>1 DEF Revoked, AttemptType, ActiveAttempt
  <2> QED
    BY <2>2, <2>3 DEF HasActive, Last
<1> QED
  BY <1>1, <1>2

\* What has ended stays quiet, and what ends is.
LEMMA QuietNext ==
    ASSUME StepInv, RestType, NoneLeft, TerminalIsQuiet, Next PROVE TerminalIsQuiet'
<1> SUFFICES ASSUME exec' \in Ended
             PROVE  /\ lease' # "mine" \/ ~live'
                    /\ \A s \in Steps : step'[s] \in StepEnded /\ ~HasActive(s)'
  BY DEF TerminalIsQuiet
<1>1. CASE exec \in Ended
  <2>1. /\ step' = step
        /\ att' = att \/ Session
        /\ (lease # "mine" \/ ~live) => (lease' # "mine" \/ ~live')
    BY <1>1, EndedStill
  <2>2. /\ lease # "mine" \/ ~live
        /\ \A s \in Steps : step[s] \in StepEnded /\ ~HasActive(s)
    BY <1>1 DEF TerminalIsQuiet
  <2>3. CASE att' = att
    BY <2>1, <2>2, <2>3 DEF HasActive, Last
  <2>4. CASE Session
    <3>1. PICK t \in Steps : \E k \in 1..Last(t) :
              \E from \in SUBSET Unresolved, to \in Unresolved \cup Closed : Turn(t, k, from, to)
      BY <2>4, SessionTurns
    <3>2. PICK k \in 1..Last(t) : \E from \in SUBSET Unresolved, to \in Unresolved \cup Closed : Turn(t, k, from, to)
      BY <3>1
    <3>3. PICK to \in Unresolved \cup Closed : att' = [att EXCEPT ![t][k].turn = to]
      BY <3>2 DEF Turn
    <3>4. ASSUME NEW s \in Steps PROVE ~HasActive(s)'
      <4>1. CASE s # t
        <5>1. att'[s] = att[s]
          BY <3>3, <4>1 DEF StepInv, Shapes
        <5> QED
          BY <2>2, <5>1 DEF HasActive, Last
      <4>2. CASE s = t
        <5> DEFINE x == [att[s][k] EXCEPT !.turn = to]
        <5>1. att[s] \in Seq(AttemptType) /\ att[s][k] \in AttemptType /\ k \in 1..Len(att[s])
          BY <4>2, Newest DEF Last
        <5>2. att'[s] = [att[s] EXCEPT ![k] = x]
          BY <3>3, <4>2 DEF StepInv, Shapes
        <5>3. x \in AttemptType /\ x.status = att[s][k].status
          BY <5>1 DEF AttemptType
        <5> HIDE DEF x
        <5>4. Len(att'[s]) = Len(att[s]) /\ \A i \in 1..Len(att[s]) : att'[s][i] = IF i = k THEN x ELSE att[s][i]
          BY <5>1, <5>2, <5>3, PutAt
        <5> QED
          BY <2>2, <5>3, <5>4 DEF HasActive, Last
      <4> QED
        BY <4>1, <4>2
    <3> QED
      BY <2>1, <2>2, <3>4
  <2> QED
    BY <2>1, <2>3, <2>4
<1>2. CASE Finalize
  <2>1. /\ loop.phase = "dispatch" /\ loop.seen = {} /\ \A s \in Steps : step[s] \in StepEnded
        /\ lease' = "none" /\ step' = step /\ att' = att
    BY <1>2 DEF Finalize, Dispatching, AllEnded
  <2>2. \A s \in Steps : ~HasActive(s)
    BY <2>1, EndedSteps DEF NoneLeft
  <2> QED
    BY <2>1, <2>2 DEF HasActive, Last
<1>3. CASE EndsOpen
  BY <1>3, CancelQuiets DEF EndsOpen
<1> QED
  BY <1>1, <1>2, <1>3, EndedBy

(***************************************************************************)
(* An ended Execution has nothing active and no live lease of its          *)
(* scheduler, whatever the jobs and generations did that met its end.      *)
(***************************************************************************)
THEOREM EndIsQuiet ==
    Spec => []TerminalIsQuiet
<1> DEFINE Inv == StepInv /\ RestType /\ SeenAll /\ NoneLeft /\ TerminalIsQuiet
<1>1. Init => Inv
  <2> SUFFICES ASSUME Init PROVE Inv
    OBVIOUS
  <2>1. loop.phase = "acquire" /\ exec = "running"
    BY DEF Init
  <2>2. SeenAll /\ NoneLeft /\ TerminalIsQuiet
    BY <2>1 DEF SeenAll, NoneLeft, TerminalIsQuiet, Running, Ended
  <2> QED
    BY <2>2, StepInit, TypeInit
<1>2. Inv /\ [Next]_vars => Inv'
  <2> SUFFICES ASSUME Inv, [Next]_vars PROVE Inv'
    OBVIOUS
  <2>1. StepInv' /\ RestType'
    BY StepNext, TypeNext
  <2>2. CASE Next
    BY <2>1, <2>2, SeenNext, NoneLeftNext, QuietNext
  <2>3. CASE UNCHANGED vars
    BY <2>1, <2>3 DEF vars, SeenAll, NoneLeft, NoneQueued, TerminalIsQuiet, Running, InFlight, HasActive, Last
  <2> QED
    BY <2>2, <2>3
<1>3. Inv => TerminalIsQuiet
  OBVIOUS
<1> QED
  BY <1>1, <1>2, <1>3, PTL DEF Spec

-----------------------------------------------------------------------------
(***************************************************************************)
(* Slots.  An Attempt that is blocked for review may go on without asking  *)
(* for capacity, so it counts from the start; an answered question asks.   *)
(***************************************************************************)
Places == Steps \X (1..MaxAttempts)
Heavy == {p \in Places : p[2] <= Last(p[1]) /\ Weighs(att[p[1]][p[2]])}
Limited == Cardinality(Heavy) <= MaxParallel

\* All of these sets are finite, and each holder of a slot has its place.
LEMMA PlacesFinite ==
    /\ IsFiniteSet(Places)
    /\ \A P \in SUBSET Places : IsFiniteSet(P) /\ Cardinality(P) \in Nat
    /\ \A P, Q \in SUBSET Places : P \subseteq Q => Cardinality(P) <= Cardinality(Q)
    /\ \A P \in SUBSET Places : \A p : Cardinality(P \cup {p}) <= Cardinality(P) + 1
<1>0. IsFiniteSet(Steps) /\ MaxAttempts \in Nat
  BY ExecutionAssumption
<1>1. IsFiniteSet(1..MaxAttempts)
  BY <1>0, FS_Interval
<1>2. IsFiniteSet(Places)
  BY <1>0, <1>1, FS_Product DEF Places
<1>3. \A P \in SUBSET Places : IsFiniteSet(P) /\ Cardinality(P) \in Nat
  BY <1>2, FS_Subset, FS_CardinalityType
<1>4. \A P, Q \in SUBSET Places : P \subseteq Q => Cardinality(P) <= Cardinality(Q)
  BY <1>3, FS_Subset
<1>5. ASSUME NEW P \in SUBSET Places, NEW p PROVE Cardinality(P \cup {p}) <= Cardinality(P) + 1
  <2>1. IsFiniteSet(P) /\ Cardinality(P) \in Nat
    BY <1>3
  <2>2. Cardinality(P \cup {p}) = IF p \in P THEN Cardinality(P) ELSE Cardinality(P) + 1
    BY <2>1, FS_AddElement
  <2> QED
    BY <2>1, <2>2
<1> QED
  BY <1>2, <1>3, <1>4, <1>5

\* What weighs holds a slot, and what runs or is reserved weighs.
LEMMA HeavyHolds ==
    /\ Heavy \in SUBSET Places /\ Holders \in SUBSET Places /\ Slots \in SUBSET Places
    /\ Slots \subseteq Heavy /\ Heavy \subseteq Holders
BY DEF Heavy, Holders, Slots, Places, Weighs, Held, ActiveAttempt

\* A step that adds no weight keeps the limit.
LEMMA LightStep ==
    ASSUME Limited, Heavy' \subseteq Heavy PROVE Limited'
<1>1. Cardinality(Heavy') <= Cardinality(Heavy) /\ Cardinality(Heavy') \in Nat /\ Cardinality(Heavy) \in Nat
  <2>1. Heavy' \in SUBSET Places
    BY HeavyHolds
  <2> QED
    BY <2>1, HeavyHolds, PlacesFinite
<1>2. MaxParallel \in Nat
  BY ExecutionAssumption
<1> QED
  BY <1>1, <1>2 DEF Limited

\* ... and so does one that takes a slot the admission writer grants.
LEMMA GrantedStep ==
    ASSUME NEW p, NEW X, X \subseteq {p}, Capacity(X), Heavy' \subseteq (Heavy \ X) \cup {p} PROVE Limited'
<1>0. MaxParallel \in Nat
  BY ExecutionAssumption
<1> DEFINE P == Heavy \ X
           Q == Holders \ X
<1>1. P \in SUBSET Places /\ Q \in SUBSET Places /\ P \subseteq Q /\ Heavy' \in SUBSET Places
  <2>1. Heavy' \in SUBSET Places
    BY DEF Heavy, Places
  <2> QED
    BY <2>1, HeavyHolds
<1>2. Cardinality(P) <= Cardinality(Q) /\ Cardinality(P) \in Nat /\ Cardinality(Q) \in Nat
  BY <1>1, PlacesFinite
<1>3. Cardinality(Q) < MaxParallel
  BY DEF Capacity
<1>4. IsFiniteSet(P \cup {p}) /\ Cardinality(P \cup {p}) <= Cardinality(P) + 1 /\ Cardinality(P \cup {p}) \in Nat
  <2>1. IsFiniteSet(P)
    BY <1>1, PlacesFinite
  <2>2. IsFiniteSet(P \cup {p})
    BY <2>1, FS_AddElement
  <2> QED
    BY <1>1, <2>2, PlacesFinite, FS_CardinalityType
<1>5. Cardinality(Heavy') <= Cardinality(P \cup {p}) /\ Cardinality(Heavy') \in Nat
  BY <1>1, <1>4, PlacesFinite, FS_Subset
<1> HIDE DEF P, Q
<1>6. Cardinality(Heavy') <= MaxParallel
  BY <1>0, <1>2, <1>3, <1>4, <1>5
<1> QED
  BY <1>6 DEF Limited

\* Rewriting one Attempt changes no other weight.
LEMMA HeavyAfterPut ==
    ASSUME StepInv, NEW s \in Steps, Last(s) # 0, NEW x \in AttemptType, att' = [att EXCEPT ![s][Last(s)] = x]
    PROVE  /\ Heavy' \subseteq (Heavy \ {<<s, Last(s)>>}) \cup {<<s, Last(s)>>}
           /\ (Weighs(x) => Weighs(Current(s))) => Heavy' \subseteq Heavy
<1>1. /\ att[s] \in Seq(AttemptType) /\ Last(s) \in 1..Last(s) /\ Last(s) \in 0..MaxAttempts
      /\ att'[s] = [att[s] EXCEPT ![Last(s)] = x] /\ \A t \in Steps \ {s} : att'[t] = att[t]
  BY Newest DEF StepInv, Shapes
<1>2. Len(att'[s]) = Last(s) /\ \A i \in 1..Last(s) : att'[s][i] = IF i = Last(s) THEN x ELSE att[s][i]
  BY <1>1, PutAt DEF Last
<1>3. ASSUME NEW t \in Steps, NEW k \in 1..MaxAttempts, k <= Len(att'[t]), Weighs(att'[t][k])
      PROVE  /\ <<t, k>> # <<s, Last(s)>> => k <= Last(t) /\ Weighs(att[t][k])
             /\ <<t, k>> = <<s, Last(s)>> => Weighs(x)
  <2>1. CASE t # s
    BY <1>1, <1>3, <2>1 DEF Last
  <2>2. CASE t = s
    <3>1. k \in 1..Last(s)
      BY <1>1, <1>2, <1>3, <2>2, ExecutionAssumption
    <3> QED
      BY <1>2, <1>3, <2>2, <3>1
  <2> QED
    BY <2>1, <2>2
<1>4. ASSUME NEW p \in Heavy'
      PROVE  /\ p # <<s, Last(s)>> => p \in Heavy
             /\ p = <<s, Last(s)>> => Weighs(x)
  <2>1. PICK t \in Steps, k \in 1..MaxAttempts : p = <<t, k>>
    BY DEF Heavy, Places
  <2>2. k <= Len(att'[t]) /\ Weighs(att'[t][k])
    BY <2>1 DEF Heavy, Last
  <2> QED
    BY <1>3, <2>1, <2>2 DEF Heavy, Places
<1>5. <<s, Last(s)>> \in Heavy <=> Weighs(Current(s))
  BY <1>1, ExecutionAssumption DEF Heavy, Places, Current
<1> QED
  BY <1>4, <1>5

\* No step takes a slot beyond max_parallel.
LEMMA LimitNext ==
    ASSUME StepInv, Limited, Next PROVE Limited'
<1>0. AttemptEffect /\ att \in [Steps -> Seq(AttemptType)]
  BY EffectNext DEF StepInv, Shapes
<1>1. CASE att' = att
  <2>1. Heavy' = Heavy
    BY <1>1 DEF Heavy, Places, Last
  <2> QED
    BY <2>1, LightStep
<1>2. CASE Sheds
  <2>1. PICK W \in [Steps -> SUBSET ActiveAttempt] : att' = [s \in Steps |-> RevokedAll(att[s], W[s])]
    BY <1>2 DEF Sheds
  <2>2. ASSUME NEW s \in Steps, NEW k \in 1..MaxAttempts, k <= Len(att'[s]), Weighs(att'[s][k])
        PROVE  k <= Last(s) /\ Weighs(att[s][k])
    <3>1. att'[s] = RevokedAll(att[s], W[s]) /\ att[s] \in Seq(AttemptType)
      BY <1>0, <2>1
    <3>2. RevokedAll(att[s], W[s]) \in [1..Len(att[s]) -> {Revoked(att[s][i], W[s]) : i \in 1..Len(att[s])}]
      BY DEF RevokedAll
    <3>3. Len(att'[s]) = Len(att[s]) /\ Len(att[s]) \in Nat
      BY <3>1, <3>2, Tabled
    <3>4. k \in 1..Len(att[s])
      BY <2>2, <3>3, ExecutionAssumption
    <3>5. att'[s][k] = Revoked(att[s][k], W[s]) /\ att[s][k] \in AttemptType
      BY <3>1, <3>4 DEF RevokedAll
    <3> QED
      BY <2>2, <3>4, <3>5 DEF Revoked, Weighs, AttemptType, Last
  <2>3. Heavy' \subseteq Heavy
    BY <2>2 DEF Heavy, Places, Last
  <2> QED
    BY <2>3, LightStep
<1>3. ASSUME NEW s \in Steps, Rewrites(s) PROVE Limited'
  <2>1. Heavy' \subseteq Heavy
    BY <1>3, HeavyAfterPut DEF Rewrites
  <2> QED
    BY <2>1, LightStep
<1>4. ASSUME NEW s \in Steps, CreateAttempt(s) PROVE Limited'
  <2>1. Capacity({}) /\ att' = [att EXCEPT ![s] = Append(att[s], Reserved)] /\ att[s] \in Seq(AttemptType)
    BY <1>0, <1>4 DEF CreateAttempt, MayReserve
  <2>2. Reserved \in AttemptType
    BY DEF Reserved, AttemptType, Statuses, ActiveAttempt
  <2>3. /\ Len(att'[s]) = Last(s) + 1 /\ \A i \in 1..Last(s) : att'[s][i] = att[s][i]
        /\ \A t \in Steps \ {s} : att'[t] = att[t]
    <3>1. att'[s] = Append(att[s], Reserved) /\ \A t \in Steps \ {s} : att'[t] = att[t]
      BY <1>0, <2>1
    <3> QED
      BY <2>1, <2>2, <3>1, Grown DEF Last
  <2>4. ASSUME NEW t \in Steps, NEW k \in 1..MaxAttempts, k <= Len(att'[t]), Weighs(att'[t][k]),
               <<t, k>> # <<s, Last(s) + 1>>
        PROVE  k <= Last(t) /\ Weighs(att[t][k])
    <3>1. CASE t # s
      BY <2>3, <2>4, <3>1 DEF Last
    <3>2. CASE t = s
      <4>1. k \in 1..Last(s)
        BY <2>3, <2>4, <3>2, Newest, ExecutionAssumption
      <4> QED
        BY <2>3, <2>4, <3>2, <4>1
    <3> QED
      BY <3>1, <3>2
  <2>5. ASSUME NEW p \in Heavy', p # <<s, Last(s) + 1>> PROVE p \in Heavy
    <3>1. PICK t \in Steps, k \in 1..MaxAttempts : p = <<t, k>>
      BY DEF Heavy, Places
    <3>2. k <= Len(att'[t]) /\ Weighs(att'[t][k])
      BY <3>1 DEF Heavy, Last
    <3> QED
      BY <2>4, <2>5, <3>1, <3>2 DEF Heavy, Places
  <2>6. Heavy' \subseteq (Heavy \ {}) \cup {<<s, Last(s) + 1>>}
    BY <2>5
  <2> QED
    BY <2>1, <2>6, GrantedStep
<1>5. ASSUME NEW s \in Steps, AdmitDecision(s) PROVE Limited'
  <2> DEFINE x == [Current(s) EXCEPT !.status = "running"]
             p == <<s, Last(s)>>
  <2>1. Last(s) # 0 /\ att' = [att EXCEPT ![s][Last(s)] = x] /\ Capacity({p})
    BY <1>5 DEF AdmitDecision, Admits, Decided, Record
  <2>2. x \in AttemptType
    BY <2>1, Newest DEF AttemptType, Statuses, ActiveAttempt
  <2> HIDE DEF x
  <2>3. Heavy' \subseteq (Heavy \ {p}) \cup {p}
    BY <2>1, <2>2, HeavyAfterPut
  <2> HIDE DEF p
  <2> QED
    BY <2>1, <2>3, GrantedStep
<1>6. ASSUME NEW s \in Steps, Answer(s) PROVE Limited'
  <2> DEFINE p == <<s, Last(s)>>
             v == IF Capacity({p}) THEN "running" ELSE "waiting"
             x == [status |-> v, review |-> FALSE, answered |-> TRUE, turn |-> "absent"]
  <2>1. Last(s) # 0 /\ att' = [att EXCEPT ![s][Last(s)] = x] /\ v \in {"running", "waiting"}
    BY <1>6 DEF Answer
  <2>2. v = "running" => Capacity({p})
    OBVIOUS
  <2> HIDE DEF v
  <2>3. x \in AttemptType /\ x.status = v /\ x.review = FALSE
    BY <2>1 DEF AttemptType, Statuses, ActiveAttempt
  <2> HIDE DEF x
  <2>4. CASE Capacity({p})
    <3>1. Heavy' \subseteq (Heavy \ {p}) \cup {p}
      BY <2>1, <2>3, HeavyAfterPut
    <3> HIDE DEF p
    <3> QED
      BY <2>4, <3>1, GrantedStep
  <2>5. CASE ~Capacity({p})
    <3>1. ~Weighs(x)
      BY <2>1, <2>2, <2>3, <2>5 DEF Weighs
    <3>2. Heavy' \subseteq Heavy
      BY <2>1, <2>3, <3>1, HeavyAfterPut
    <3> QED
      BY <3>2, LightStep
  <2> QED
    BY <2>4, <2>5
<1> QED
  BY <1>0, <1>1, <1>2, <1>3, <1>4, <1>5, <1>6 DEF AttemptEffect, TakesSlot

(***************************************************************************)
(* No more than max_parallel Attempts are reserved or running, whoever     *)
(* takes the slots: the dispatching pass, recovery, the user's answers or  *)
(* an earlier generation of the scheduler.                                 *)
(***************************************************************************)
THEOREM SlotsLimited ==
    Spec => []ParallelLimit
<1>1. Init => Limited
  <2> SUFFICES ASSUME Init PROVE Limited
    OBVIOUS
  <2>1. ASSUME NEW s \in Steps, NEW k \in 1..MaxAttempts PROVE ~(k <= Last(s))
    BY ExecutionAssumption DEF Init, Last
  <2>2. Heavy = {}
    BY <2>1 DEF Heavy, Places
  <2> QED
    BY <2>2, FS_EmptySet, ExecutionAssumption DEF Limited
<1>2. StepInv /\ Limited /\ [Next]_vars => Limited'
  <2> SUFFICES ASSUME StepInv, Limited, UNCHANGED vars PROVE Limited'
    BY LimitNext
  <2>1. Heavy' = Heavy
    BY DEF Heavy, Places, Last, vars
  <2> QED
    BY <2>1, LightStep
<1>3. Limited => ParallelLimit
  <2> SUFFICES ASSUME Limited PROVE ParallelLimit
    OBVIOUS
  <2>1. Cardinality(Slots) <= Cardinality(Heavy) /\ Cardinality(Slots) \in Nat /\ Cardinality(Heavy) \in Nat
    BY HeavyHolds, PlacesFinite
  <2> QED
    BY <2>1, ExecutionAssumption DEF Limited, ParallelLimit
<1> QED
  BY <1>1, <1>2, <1>3, StepInit, StepNext, PTL DEF Spec
=============================================================================

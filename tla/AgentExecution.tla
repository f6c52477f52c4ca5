---------------------------- MODULE AgentExecution ----------------------------
(***************************************************************************)
(* The AgentExecution scheduler: one Execution, a DAG of Steps, the        *)
(* Attempts made at each Step, the process-local jobs that drive them, and *)
(* the scheduling loop that owns the durable lease.                        *)
(*                                                                         *)
(* A database row is a value of a durable variable, and one transaction is *)
(* one action.  The Step version every writer compares is kept as what a   *)
(* job can tell from it: whether the Step changed since the job read it    *)
(* ("stale"), and how often since it was reserved ("res").  A data         *)
(* directory is held by one process (an exclusive file lock), so there is  *)
(* one process here, whose scheduler generations follow one another.       *)
(*                                                                         *)
(* The native Session that runs a Turn is external: a Turn is absent until *)
(* its input is accepted, then running, and it may stop at a boundary that *)
(* needs intervention ("suspended") or close with one of four receipts.    *)
(***************************************************************************)
EXTENDS Naturals, Sequences, FiniteSets

CONSTANTS
    Steps,        \* the Steps of the plan
    Deps,         \* pairs <<blocker, blocked>>
    MaxParallel,  \* the Execution's max_parallel
    RetryLimit,   \* automatic retries of one Step (MAX_PROVIDER_RETRIES)
    MaxAttempts,  \* bound: Attempts of one Step
    MaxControls,  \* bound: user commands
    MaxFaults,    \* bound: crashes, lapsed leases and lost replies
    Explored      \* which optional commands and failures a run includes

ASSUME ExecutionAssumption ==
    /\ Deps \subseteq Steps \X Steps
    /\ IsFiniteSet(Steps)
    /\ MaxParallel \in Nat \ {0}
    /\ {RetryLimit, MaxAttempts, MaxControls, MaxFaults} \subseteq Nat

(* A plan whose dependencies contain a cycle is rejected before it is stored: *)
(* among any Steps there is one that none of them blocks.                     *)
ValidDependencyGraph ==
    \A S \in SUBSET Steps : S # {} => \E s \in S : \A b \in S : <<b, s>> \notin Deps
ASSUME PlanAssumption == ValidDependencyGraph

VARIABLES
    exec,      \* status of the Execution
    lease,     \* lease_owner: no one, the present generation, or a dead one
    live,      \* lease_expires_at is in the future
    step,      \* status of each Step
    backoff,   \* Steps whose dispatch_after is set
    stopped,   \* Steps a cancel_step event names
    att,       \* the Attempts of each Step, in attempt_no order
    loop,      \* the scheduling loop: its phase, restart_requested, and in_flight_step_ids
    job,       \* step_jobs: the retained job of each Step
    controls,  \* user commands so far
    faults     \* faults so far

durable == <<exec, lease, live, step, backoff, stopped, att>>
vars == <<exec, lease, live, step, backoff, stopped, att, loop, job, controls, faults>>

Dispatchable == {"running", "waiting_input"}
Admissible == Dispatchable \cup {"paused"}
Ended == {"completed", "completed_with_failures", "failed", "cancelled"}
StepEnded == {"completed", "failed", "skipped", "cancelled"}
ActiveAttempt == {"queued", "running", "waiting"}
Closed == {"completed", "failed", "cancelled", "input"}
Unresolved == {"running", "suspended"}

(***************************************************************************)
(* An Attempt: its status, whether a review blocks it, whether it owns a   *)
(* decision_input effect, and its current Turn.                            *)
(***************************************************************************)
Reserved == [status |-> "queued", review |-> FALSE, answered |-> FALSE, turn |-> "absent"]
Last(s) == Len(att[s])
Current(s) == att[s][Last(s)]
HasActive(s) == \E k \in 1..Last(s) : att[s][k].status \in ActiveAttempt
AnyWaiting(A) == \E s \in Steps : \E k \in 1..Len(A[s]) : A[s][k].status = "waiting"
Room(s) == Last(s) < MaxAttempts

(***************************************************************************)
(* A retained job.  "att" is the Attempt bound to it (0: none yet),        *)
(* "fresh" says that the lease token it captured is the present            *)
(* generation's, "out" is the outcome it holds, "hard" that its first      *)
(* error cannot be recovered from.                                         *)
(***************************************************************************)
NoJob == [phase |-> "none", att |-> 0, stale |-> FALSE, res |-> 0, fresh |-> FALSE,
          out |-> "none", hard |-> FALSE]
\* Faulty variant: the job is not bound to the Attempt it was retained for.
NewJobUnbound(phase, k) == [NoJob EXCEPT !.phase = phase, !.fresh = TRUE]
NewJob(phase, k) == [NoJob EXCEPT !.phase = phase, !.att = k, !.fresh = TRUE]
InFlight == {s \in Steps : job[s].phase # "none"}

(***************************************************************************)
(* A Step's version advances: a job that compares it later finds the Step  *)
(* changed, and one that still holds only its reservation counts how far.  *)
(***************************************************************************)
Compares(j) == j.phase \notin {"none", "recover"} /\ (j.att # 0 \/ j.phase = "admit")
Advance(J, S) ==
    [s \in Steps |->
        IF s \notin S \/ J[s].phase = "none" THEN J[s]
        ELSE [J[s] EXCEPT !.stale = @ \/ Compares(J[s]),
                          !.res = IF J[s].att # 0 \/ @ = 2 THEN @ ELSE @ + 1]]

(***************************************************************************)
(* The lease fence of every scheduler write, and the capacity the          *)
(* admission writer grants.  A closed question that nobody has answered    *)
(* gives its slot back; an answered one takes it again at once, admitted   *)
(* or not, because its pending decision names another Turn.                *)
(***************************************************************************)
Fence == lease = "mine" /\ live /\ exec \in Admissible
Held(a) == a.status \in ActiveAttempt
           /\ ~(a.status = "waiting" /\ ~a.review /\ a.turn = "input")
Holders == {p \in Steps \X (1..MaxAttempts) : p[2] <= Last(p[1]) /\ Held(att[p[1]][p[2]])}
\* Faulty variant: one Attempt more than max_parallel.
CapacityInclusive(except) == exec # "paused" /\ Cardinality(Holders \ except) <= MaxParallel
Capacity(except) == exec # "paused" /\ Cardinality(Holders \ except) < MaxParallel

(***************************************************************************)
(* scheduler.start: a live loop remembers one restart.                     *)
(***************************************************************************)
\* Faulty variant: a start that finds a live loop is forgotten.
StartedOnce(l) == IF l.phase = "off" THEN [l EXCEPT !.phase = "acquire"] ELSE l
Started(l) == IF l.phase = "off" THEN [l EXCEPT !.phase = "acquire"] ELSE [l EXCEPT !.again = TRUE]
Running == loop.phase \in {"boot", "recover", "dispatch"}
Up == loop.phase # "down"

Blockers(s) == {b \in Steps : <<b, s>> \in Deps}
Downstream(s) ==
    {t \in Steps : \A C \in SUBSET Steps :
        (s \in C /\ \A d \in Deps : d[1] \in C => d[2] \in C) => t \in C}

Init ==
    /\ exec = "running" /\ lease = "none" /\ live = FALSE
    /\ step = [s \in Steps |-> "pending"]
    /\ backoff = {} /\ stopped = {}
    /\ att = [s \in Steps |-> <<>>]
    /\ loop = [phase |-> "acquire", again |-> FALSE, seen |-> {}]
    /\ job = [s \in Steps |-> NoJob]
    /\ controls = 0 /\ faults = 0

(***************************************************************************)
(* terminate_unfinished_execution_children_tx over the Steps of S.         *)
(***************************************************************************)
\* Faulty variant: an Attempt that waits for the user is left alone.
CancelAttemptsAtWork(S) ==
    att' = [s \in Steps |->
              IF s \notin S THEN att[s]
              ELSE [k \in 1..Last(s) |->
                      IF att[s][k].status \in {"queued", "running"}
                      THEN [att[s][k] EXCEPT !.status = "cancelled"] ELSE att[s][k]]]
CancelAttempts(S) ==
    att' = [s \in Steps |->
              IF s \notin S THEN att[s]
              ELSE [k \in 1..Last(s) |->
                      IF att[s][k].status \in ActiveAttempt
                      THEN [att[s][k] EXCEPT !.status = "cancelled"] ELSE att[s][k]]]
\* Faulty variant: the Steps are cancelled without their Attempts.
CancelStepsOnly(S) ==
    LET open == {s \in S : step[s] \notin StepEnded} IN
    /\ step' = [s \in Steps |-> IF s \in open THEN "cancelled" ELSE step[s]]
    /\ backoff' = backoff \ open
    /\ job' = Advance(job, open)
    /\ UNCHANGED att
CancelSteps(S) ==
    LET open == {s \in S : step[s] \notin StepEnded} IN
    /\ step' = [s \in Steps |-> IF s \in open THEN "cancelled" ELSE step[s]]
    /\ backoff' = backoff \ open
    /\ CancelAttempts(S)
    /\ job' = Advance(job, open)

-----------------------------------------------------------------------------
(***************************************************************************)
(* User commands.                                                          *)
(***************************************************************************)
Command(name) == Up /\ name \in Explored /\ controls < MaxControls /\ controls' = controls + 1

(***************************************************************************)
(* Pause cancels the reservations that have not started; their Steps stay  *)
(* pending and keep their version.                                         *)
(***************************************************************************)
Pause ==
    LET queued(s) == \E k \in 1..Last(s) : att[s][k].status = "queued" IN
    /\ Command("pause")
    /\ exec \in Dispatchable
    /\ \A s \in Steps : queued(s) => Room(s)
    /\ exec' = "paused"
    /\ att' = [s \in Steps |-> [k \in 1..Last(s) |->
                 IF att[s][k].status = "queued" THEN [att[s][k] EXCEPT !.status = "cancelled"]
                 ELSE att[s][k]]]
    /\ loop' = Started(loop)
    /\ UNCHANGED <<lease, live, step, backoff, stopped, job, faults>>

Resume ==
    /\ Command("pause")
    /\ exec = "paused"
    /\ \A s \in Steps : \A k \in 1..Last(s) : ~(att[s][k].status = "waiting" /\ att[s][k].review)
    /\ exec' = IF AnyWaiting(att) THEN "waiting_input" ELSE "running"
    /\ loop' = Started(loop)
    /\ UNCHANGED <<lease, live, step, backoff, stopped, att, job, faults>>

Cancel ==
    /\ Command("cancel")
    /\ exec \notin Ended
    /\ exec' = "cancelled"
    /\ lease' = "none" /\ live' = FALSE
    /\ CancelSteps(Steps)
    /\ UNCHANGED <<stopped, loop, faults>>

CancelStep(s) ==
    /\ Command("stop")
    /\ exec \notin Ended /\ step[s] \notin StepEnded
    /\ stopped' = stopped \cup {s}
    /\ CancelSteps({s})
    /\ loop' = Started(loop)
    /\ UNCHANGED <<exec, lease, live, faults>>

\* Faulty variant: a retry that does not look for an unresolved Turn.
AnyNatively(d) == d \in Steps

(* The native execution behind every Attempt of d is reconciled. *)
SettledNatively(d) == \A k \in 1..Last(d) : att[d][k].turn \notin Unresolved

(***************************************************************************)
(* Retry resets a settled Step, or one waiting for its automatic retry,    *)
(* with everything downstream of it.                                       *)
(***************************************************************************)
Retry(s) ==
    LET reset == Downstream(s) IN
    /\ Command("retry")
    /\ exec # "cancelled"
    /\ \/ step[s] \in {"completed", "failed", "skipped"}
       \/ step[s] = "pending" /\ s \in backoff
    /\ \A d \in reset : /\ d \notin stopped /\ step[d] # "cancelled"
                        /\ ~HasActive(d) /\ SettledNatively(d) /\ Room(d)
    /\ step' = [d \in Steps |-> IF d \in reset THEN "pending" ELSE step[d]]
    /\ backoff' = backoff \ reset
    /\ exec' = "running"
    /\ job' = Advance(job, reset)
    /\ loop' = Started(loop)
    /\ UNCHANGED <<lease, live, stopped, att, faults>>

(***************************************************************************)
(* The user answers a closed question.  The answer is admitted at once if  *)
(* there is capacity and stays a pending decision_input otherwise.         *)
(***************************************************************************)
Answer(s) ==
    LET k == Last(s)
        next == IF Capacity({<<s, k>>}) THEN "running" ELSE "waiting" IN
    /\ Command("answer")
    /\ k > 0 /\ s \notin stopped
    /\ exec \in Admissible /\ step[s] = "waiting"
    /\ Current(s).status = "waiting" /\ ~Current(s).review /\ Current(s).turn = "input"
    /\ att' = [att EXCEPT ![s][k] = [status |-> next, review |-> FALSE, answered |-> TRUE, turn |-> "absent"]]
    /\ step' = [step EXCEPT ![s] = next]
    /\ exec' = IF exec = "paused" THEN exec ELSE IF AnyWaiting(att') THEN "waiting_input" ELSE "running"
    /\ job' = Advance(job, {s})
    /\ loop' = Started(loop)
    /\ UNCHANGED <<lease, live, backoff, stopped, faults>>

UserCommand ==
    \/ Pause \/ Resume \/ Cancel
    \/ \E s \in Steps : CancelStep(s) \/ Retry(s) \/ Answer(s)

-----------------------------------------------------------------------------
(***************************************************************************)
(* What a closed Turn says of its Attempt and of its Step, and how every   *)
(* verdict is written: the runtime_state of a settled Attempt is cleared.  *)
(***************************************************************************)
\* Faulty variant: a Turn that closed with a question counts as completed.
VerdictOfClosure == [completed |-> "completed", failed |-> "failed", cancelled |-> "cancelled", input |-> "completed"]
Verdict == [completed |-> "completed", failed |-> "failed", cancelled |-> "cancelled", input |-> "waiting"]
Settled(a, status) == [a EXCEPT !.status = status, !.review = FALSE, !.answered = FALSE]
Record(s, k, a, status) ==
    /\ att' = [att EXCEPT ![s][k] = a]
    /\ step' = [step EXCEPT ![s] = status]
Attention(status) == IF status = "waiting" /\ exec # "paused" THEN "waiting_input" ELSE exec

(***************************************************************************)
(* reconcile_recovered_attempt: the durable receipt decides.  A closed     *)
(* Turn is adopted, a suspended one blocks the Attempt for review, an      *)
(* ongoing or never accepted one keeps (or regains) its running Attempt.   *)
(***************************************************************************)
Reconciled(a) ==
    IF a.turn \in Closed THEN Settled(a, Verdict[a.turn])
    ELSE IF a.turn = "suspended" THEN [a EXCEPT !.status = "waiting", !.review = TRUE]
    ELSE [a EXCEPT !.status = "running", !.review = FALSE]
Reconcile(s, k) ==
    LET a == Reconciled(att[s][k]) IN
    /\ Fence /\ s \notin stopped
    /\ Record(s, k, a, a.status)
    /\ exec' = Attention(a.status)
    /\ UNCHANGED <<lease, live, backoff, stopped>>

-----------------------------------------------------------------------------
(***************************************************************************)
(* The retained job of a Step.                                             *)
(***************************************************************************)
EndJob(s) == job' = [job EXCEPT ![s] = NoJob]
ToRecovery(s) == job' = [job EXCEPT ![s].phase = "recover", ![s].stale = FALSE, ![s].out = "none"]
WithOutcome(s, out) == job' = [job EXCEPT ![s].phase = "settle", ![s].out = out]
Bound(s, phase, k) ==
    job' = [job EXCEPT ![s].phase = phase, ![s].att = k, ![s].stale = FALSE, ![s].res = 0, ![s].out = "none"]
Mine(s) == Fence /\ job[s].fresh

(***************************************************************************)
(* execute_agent_step_admitted re-reads the Execution before it creates an *)
(* Attempt, or before it continues the reservation it was given.  What it  *)
(* would continue is the newest Attempt, which a job retained for an older *)
(* one may not adopt: such a job makes no progress.                        *)
(***************************************************************************)
Prepare(s) ==
    LET k == job[s].att IN
    /\ job[s].phase = "prepare"
    /\ UNCHANGED <<durable, loop, controls, faults>>
    /\ IF exec \notin Dispatchable \/ step[s] # "pending" THEN EndJob(s)
       ELSE IF k = 0 THEN job' = [job EXCEPT ![s].phase = "admit"]
       ELSE IF job[s].stale \/ Current(s).status # "queued" THEN ToRecovery(s)
       ELSE k = Last(s) /\ job' = [job EXCEPT ![s].phase = "queued"]

(* A preparation error that no later pass can repair. *)
PrepareFails(s) ==
    /\ "hard" \in Explored
    /\ job[s].phase = "prepare" /\ job[s].att = 0
    /\ exec \in Dispatchable /\ step[s] = "pending"
    /\ job' = [job EXCEPT ![s].phase = "recover", ![s].hard = TRUE]
    /\ UNCHANGED <<durable, loop, controls, faults>>

(***************************************************************************)
(* create_attempt, with its reply received, lost, or a refusal.            *)
(***************************************************************************)
MayReserve(s) ==
    /\ Mine(s) /\ exec \in Dispatchable /\ s \notin stopped
    /\ step[s] = "pending" /\ ~job[s].stale
    /\ Capacity({})
CreateAttempt(s) ==
    /\ job[s].phase = "admit" /\ MayReserve(s) /\ Room(s)
    /\ att' = [att EXCEPT ![s] = Append(@, Reserved)]
    /\ backoff' = backoff \ {s}
    /\ UNCHANGED <<exec, lease, live, step, stopped, loop, controls>>
Admit(s) == CreateAttempt(s) /\ Bound(s, "queued", Last(s) + 1) /\ UNCHANGED faults
AdmitReplyLost(s) ==
    /\ "lost" \in Explored /\ faults < MaxFaults /\ faults' = faults + 1
    /\ CreateAttempt(s)
    /\ job' = [job EXCEPT ![s].phase = "recover", ![s].res = IF @ = 2 THEN 2 ELSE @ + 1]
AdmitRefused(s) ==
    /\ job[s].phase = "admit" /\ ~MayReserve(s)
    /\ ToRecovery(s)
    /\ UNCHANGED <<durable, loop, controls, faults>>

(***************************************************************************)
(* start_attempt commits the link and the prepared input before the        *)
(* Session accepts it.  A failure before that is settled as a refusal.     *)
(***************************************************************************)
Begin(s) ==
    LET k == job[s].att
        a == att[s][k] IN
    /\ job[s].phase = "queued"
    /\ UNCHANGED <<exec, lease, live, stopped, loop, controls, faults>>
    /\ \/ /\ Mine(s) /\ exec \in Dispatchable /\ s \notin stopped
          /\ step[s] = "pending" /\ ~job[s].stale /\ a.status = "queued"
          /\ Record(s, k, [a EXCEPT !.status = "running"], "running")
          /\ backoff' = backoff \ {s}
          /\ job' = [job EXCEPT ![s].phase = "deliver"]
       \/ /\ ~(/\ Mine(s) /\ exec \in Dispatchable /\ s \notin stopped
               /\ step[s] = "pending" /\ ~job[s].stale /\ a.status = "queued")
          /\ ToRecovery(s)
          /\ UNCHANGED <<step, att, backoff>>
LinkFails(s) ==
    /\ "refuse" \in Explored
    /\ job[s].phase = "queued"
    /\ WithOutcome(s, "refused")
    /\ UNCHANGED <<durable, loop, controls, faults>>

(***************************************************************************)
(* deliver_turn: the Session accepts the input once, under the authority   *)
(* the caller presents, and answers a replay with what it has accepted.    *)
(***************************************************************************)
Deliver(s) ==
    LET k == job[s].att
        a == att[s][k]
        authorised == /\ Mine(s) /\ s \notin stopped /\ ~job[s].stale
                      /\ step[s] = "running" /\ a.status = "running" IN
    /\ job[s].phase = "deliver"
    /\ UNCHANGED <<exec, lease, live, step, backoff, stopped, loop, controls, faults>>
    /\ IF a.turn # "absent" \/ authorised
       THEN /\ att' = [att EXCEPT ![s][k].turn = IF a.turn = "absent" THEN "running" ELSE a.turn]
            /\ job' = [job EXCEPT ![s].phase = "observe"]
       ELSE /\ IF a.answered THEN EndJob(s) ELSE ToRecovery(s)
            /\ UNCHANGED att

(* await_delivery_receipt and observe_existing_turn; only the first has a deadline. *)
Observe(s) ==
    LET turn == att[s][job[s].att].turn IN
    /\ job[s].phase \in {"observe", "watch"}
    /\ turn # "running"
    /\ WithOutcome(s, IF turn = "suspended" THEN "suspended" ELSE "receipt")
    /\ UNCHANGED <<durable, loop, controls, faults>>
Deadline(s) ==
    /\ "deadline" \in Explored
    /\ job[s].phase = "observe" /\ att[s][job[s].att].turn = "running"
    /\ WithOutcome(s, "missing")
    /\ UNCHANGED <<durable, loop, controls, faults>>

\* Faulty variant: a missing receipt is retried like a provider error.
OutcomesRetried(s, k, out) ==
    {<<IF out = "refused" THEN "cancelled" ELSE "failed", st>> : st \in {"failed", "pending"}}

(***************************************************************************)
(* The verdicts settle_agent_outcome_once can write.  Whether an error is  *)
(* retryable is the provider's word; a missing receipt never is.           *)
(***************************************************************************)
Outcomes(s, k, out) ==
    LET again == IF k <= RetryLimit /\ Room(s) THEN {"failed", "pending"} ELSE {"failed"}
        v == Verdict[att[s][k].turn] IN
    IF out = "refused" THEN {"cancelled"} \X again
    ELSE IF out = "missing" THEN {<<"failed", "failed">>}
    ELSE IF v = "failed" THEN {"failed"} \X again
    ELSE {<<v, v>>}

(***************************************************************************)
(* settle_agent_outcome.  Without a generation that owns the lease the     *)
(* outcome is kept and a new generation asked for.                         *)
(***************************************************************************)
SettleEnds(s) ==
    LET k == job[s].att IN
    /\ job[s].phase = "settle"
    /\ exec \in Ended \/ att[s][k].status \notin {"queued", "running"}
    /\ EndJob(s)
    /\ UNCHANGED <<durable, loop, controls, faults>>
SettleUnarmed(s) ==
    LET k == job[s].att IN
    /\ job[s].phase = "settle" /\ ~Running
    /\ exec \notin Ended /\ att[s][k].status \in {"queued", "running"}
    /\ loop' = Started(loop) /\ loop' # loop
    /\ UNCHANGED <<durable, job, controls, faults>>
SettleStale(s) ==
    LET k == job[s].att IN
    /\ job[s].phase = "settle" /\ Running /\ job[s].out # "suspended"
    /\ exec \notin Ended /\ att[s][k].status \in {"queued", "running"}
    /\ job[s].stale
    /\ ToRecovery(s)
    /\ UNCHANGED <<durable, loop, controls, faults>>
Settle(s) ==
    LET k == job[s].att IN
    /\ job[s].phase = "settle" /\ Running /\ Fence /\ job[s].out # "suspended"
    /\ att[s][k].status \in {"queued", "running"} /\ ~job[s].stale
    /\ \E o \in Outcomes(s, k, job[s].out) :
          /\ Record(s, k, Settled(att[s][k], o[1]), o[2])
          /\ backoff' = IF o[2] = "pending" THEN backoff \cup {s} ELSE backoff \ {s}
          /\ exec' = Attention(o[1])
    /\ EndJob(s)
    /\ UNCHANGED <<lease, live, stopped, loop, controls, faults>>
SettleSuspended(s) ==
    LET k == job[s].att IN
    /\ job[s].phase = "settle" /\ Running /\ job[s].out = "suspended"
    /\ att[s][k].status = "running"
    /\ Reconcile(s, k)
    /\ IF att[s][k].turn \in {"running", "absent"} THEN ToRecovery(s) ELSE EndJob(s)
    /\ UNCHANGED <<loop, controls, faults>>

(***************************************************************************)
(* recover_failed_step, one pass: the job has returned with an error and   *)
(* keeps its slot while it looks for what became of its own Attempt.       *)
(***************************************************************************)
Recovering(s) == job[s].phase = "recover" /\ exec \in Admissible
Unattached(s) == Recovering(s) /\ job[s].att = 0
Owns(s) == job[s].att # 0 /\ job[s].att = Last(s) /\ Current(s).status \in {"queued", "running"}
Reserves(s) == Last(s) # 0 /\ Current(s).status = "queued" /\ job[s].res = 1
Untouched(s) ==
    /\ step[s] = "pending" /\ job[s].res = 0
    /\ Last(s) # 0 => Current(s).status \notin {"queued", "running"}

RecoverGivesUp(s) ==
    /\ job[s].phase = "recover"
    /\ \/ exec \in Ended
       \/ Unattached(s) /\ ~Reserves(s) /\ ~(Untouched(s) /\ job[s].hard)
       \/ Recovering(s) /\ job[s].att # 0 /\ ~Owns(s)
    /\ EndJob(s)
    /\ UNCHANGED <<durable, loop, controls, faults>>
RecoverAdopts(s) ==
    /\ Unattached(s) /\ Reserves(s)
    /\ Bound(s, "recover", Last(s))
    /\ UNCHANGED <<durable, loop, controls, faults>>

(* transition_step_status with the lease the job captured, which this branch never renews. *)
RecoverFailsStep(s) ==
    /\ Unattached(s) /\ ~Reserves(s) /\ Untouched(s) /\ job[s].hard
    /\ Mine(s) /\ ~HasActive(s)
    /\ step' = [step EXCEPT ![s] = "failed"]
    /\ backoff' = backoff \ {s}
    /\ EndJob(s)
    /\ UNCHANGED <<exec, lease, live, stopped, att, loop, controls, faults>>
RecoverUnarmed(s) ==
    /\ Recovering(s) /\ Owns(s) /\ ~Running
    /\ loop' = Started(loop) /\ loop' # loop
    /\ UNCHANGED <<durable, job, controls, faults>>

(* A reservation goes on with its own input, an answered Attempt is left to its decision. *)
RecoverResumes(s) ==
    /\ Recovering(s) /\ Owns(s) /\ Running /\ exec # "paused"
    /\ Current(s).status = "queued" \/ Current(s).answered
    /\ IF Current(s).status = "queued"
       THEN job' = [job EXCEPT ![s] = NewJob("prepare", Last(s))]
       ELSE EndJob(s)
    /\ UNCHANGED <<durable, loop, controls, faults>>
RecoverReceipt(s) ==
    LET turn == Current(s).turn IN
    /\ Recovering(s) /\ Owns(s) /\ Running /\ exec # "paused"
    /\ Current(s).status = "running" /\ ~Current(s).answered
    /\ Reconcile(s, Last(s))
    /\ IF turn \in {"running", "absent"}
       THEN job' = [job EXCEPT ![s] = NewJob(IF turn = "absent" THEN "deliver" ELSE "watch", Last(s))]
       ELSE EndJob(s)
    /\ UNCHANGED <<loop, controls, faults>>

JobAdvances(s) ==
    /\ Up
    /\ \/ Prepare(s) \/ Admit(s) \/ AdmitRefused(s) \/ Begin(s) \/ Deliver(s) \/ Observe(s)
       \/ SettleEnds(s) \/ SettleStale(s) \/ Settle(s) \/ SettleSuspended(s)
       \/ RecoverGivesUp(s) \/ RecoverAdopts(s) \/ RecoverFailsStep(s)
       \/ RecoverResumes(s) \/ RecoverReceipt(s)
JobAsks(s) == Up /\ (SettleUnarmed(s) \/ RecoverUnarmed(s))
JobFault(s) == Up /\ (PrepareFails(s) \/ AdmitReplyLost(s) \/ LinkFails(s) \/ Deadline(s))

-----------------------------------------------------------------------------
(***************************************************************************)
(* The scheduling loop.  A pass delivers the pending decisions, recovers   *)
(* the Attempts nobody drives and dispatches.  The first pass recovers     *)
(* twice (boot, then recover).                                             *)
(***************************************************************************)
\* The loop has decided to return; its handle stays registered until it has unwound.
Leaving(restart) == [phase |-> "leaving", again |-> loop.again \/ restart, seen |-> {}]
Acquire ==
    /\ loop.phase = "acquire"
    /\ \/ /\ exec \notin Admissible
          /\ loop' = Leaving(FALSE)
          /\ UNCHANGED <<lease, live>>
       \/ /\ exec \in Admissible /\ (lease = "none" \/ ~live)
          /\ lease' = "mine" /\ live' = TRUE
          /\ loop' = [loop EXCEPT !.phase = "boot", !.seen = InFlight]
    /\ UNCHANGED <<exec, step, backoff, stopped, att, job, controls, faults>>

\* Faulty variant: a generation that lost its lease asks for no successor.
LeaveUnrequested(restart) ==
    /\ loop' = Leaving(FALSE)
    /\ job' = [s \in Steps |-> [job[s] EXCEPT !.fresh = FALSE]]

(***************************************************************************)
(* The generation ends in two steps: its jobs are fenced, and later its    *)
(* lease is released and its handle removed together with the start        *)
(* requests it was sent meanwhile.                                         *)
(***************************************************************************)
Leave(restart) ==
    /\ loop' = Leaving(restart)
    /\ job' = [s \in Steps |-> [job[s] EXCEPT !.fresh = FALSE]]
Depart ==
    /\ loop.phase = "leaving"
    /\ loop' = [phase |-> IF loop.again THEN "acquire" ELSE "off", again |-> FALSE, seen |-> {}]
    /\ lease' = IF lease = "mine" THEN "none" ELSE lease
    /\ live' = (live /\ lease # "mine")
    /\ UNCHANGED <<exec, step, backoff, stopped, att, job, controls, faults>>

(* A pass reads in_flight_step_ids when it begins; a job that ends meanwhile is seen by the next one. *)
Pass == [loop EXCEPT !.phase = "recover", !.seen = {s \in Steps : job'[s].phase # "none"}]
Retaining(s) == [loop EXCEPT !.seen = @ \cup {s}]
Unseen(s) == s \notin loop.seen

Decided(s) == Last(s) # 0 /\ Current(s).answered /\ exec # "paused" /\ Unseen(s)
Admits(s) == Decided(s) /\ Current(s).status = "waiting" /\ Capacity({<<s, Last(s)>>})
Delivers(s) == Decided(s) /\ Current(s).status = "running"
Recovers(s, k) ==
    LET a == att[s][k] IN
    /\ Unseen(s) /\ job[s].phase = "none"
    /\ \/ a.status = "queued"
       \/ a.status = "running" /\ ~a.answered
       \/ a.status = "waiting" /\ a.review /\ a.turn # "suspended"
Interrupted(s) == {k \in 1..Last(s) : Recovers(s, k)}
Passing == loop.phase \in {"boot", "recover"} /\ exec \in Admissible
NextPhase == IF loop.phase = "boot" THEN Pass ELSE [loop EXCEPT !.phase = "dispatch"]

AdmitDecision(s) ==
    /\ Passing /\ Admits(s)
    /\ Fence /\ s \notin stopped
    /\ Record(s, Last(s), [Current(s) EXCEPT !.status = "running"], "running")
    /\ exec' = IF AnyWaiting(att') THEN "waiting_input" ELSE "running"
    /\ UNCHANGED job
    /\ loop' = IF loop.phase = "boot" THEN loop ELSE Pass
    /\ UNCHANGED <<lease, live, backoff, stopped, controls, faults>>
DeliverDecision(s) ==
    /\ Passing /\ Delivers(s)
    /\ job' = [job EXCEPT ![s] = NewJob("deliver", Last(s))]
    /\ loop' = IF loop.phase = "boot" THEN Retaining(s) ELSE Pass
    /\ UNCHANGED <<durable, controls, faults>>
NoEffects == \A s \in Steps : ~Admits(s) /\ ~Delivers(s)

Handed(s) == IF loop.phase = "boot" THEN Pass ELSE [Retaining(s) EXCEPT !.phase = "dispatch"]

(* recover_interrupted: a retained reservation or a redelivery ends the pass. *)
RecoverAttempt(s, k) ==
    LET a == att[s][k] IN
    /\ Passing /\ NoEffects /\ k \in Interrupted(s)
    /\ IF a.status = "queued"
       THEN /\ Fence
            /\ job' = [job EXCEPT ![s] = NewJob("prepare", k)]
            /\ loop' = Handed(s)
            /\ UNCHANGED durable
       ELSE /\ Reconcile(s, k)
            /\ job' = [job EXCEPT ![s] = IF a.turn = "absent" THEN NewJob("deliver", k)
                                         ELSE IF a.turn = "running" THEN NewJob("watch", k) ELSE @]
            /\ loop' = IF a.turn = "absent" THEN Handed(s) ELSE IF a.turn = "running" THEN Retaining(s) ELSE loop
    /\ UNCHANGED <<controls, faults>>
RecoverDone ==
    /\ Passing /\ NoEffects /\ \A s \in Steps : Interrupted(s) = {}
    /\ UNCHANGED job /\ loop' = NextPhase
    /\ UNCHANGED <<durable, controls, faults>>

Dispatching == loop.phase = "dispatch" /\ exec \in Dispatchable
\* Faulty variant: only a failure blocks what depends on it.
BlockedByFailure(s) == step[s] = "pending" /\ \E b \in Blockers(s) : step[b] = "failed"
Blocked(s) == step[s] = "pending" /\ \E b \in Blockers(s) : step[b] \in {"failed", "skipped", "cancelled"}
NoneBlocked == \A s \in Steps : ~Blocked(s)
SkipBlocked(s) ==
    /\ Dispatching /\ Blocked(s)
    /\ Fence /\ ~HasActive(s)
    /\ step' = [step EXCEPT ![s] = "skipped"]
    /\ backoff' = backoff \ {s}
    /\ job' = Advance(job, {s})
    /\ loop' = Pass
    /\ UNCHANGED <<exec, lease, live, stopped, att, controls, faults>>

(***************************************************************************)
(* ready_steps and select_agent_steps_with_reservations.  The Steps of due *)
(* have waited long enough; the code then takes the ready Steps in order   *)
(* of creation, the model in any order.                                    *)
(***************************************************************************)
Ready(due) ==
    {s \in Steps : /\ step[s] = "pending" /\ Unseen(s) /\ (s \in backoff => s \in due)
                   /\ \A b \in Blockers(s) : step[b] = "completed"}
FirstActive(s) == CHOOSE k \in 1..Last(s) :
    /\ att[s][k].status \in ActiveAttempt
    /\ \A i \in 1..(k - 1) : att[s][i].status \notin ActiveAttempt
Occupied == {s \in Steps : IF HasActive(s) THEN Held(att[s][FirstActive(s)]) ELSE s \in loop.seen}
Selections(due) ==
    {S \in SUBSET Ready(due) :
        LET free == MaxParallel - Cardinality(Occupied)
            most == Cardinality(Ready(due)) IN
        Cardinality(S) = IF MaxParallel <= Cardinality(Occupied) THEN 0 ELSE IF free < most THEN free ELSE most}
Dispatch(S) ==
    /\ Dispatching /\ NoneBlocked /\ S # {}
    /\ \E due \in SUBSET backoff : S \in Selections(due)
    /\ job' = [s \in Steps |-> IF s \in S THEN NewJob("prepare", 0) ELSE job[s]]
    /\ loop' = Pass
    /\ UNCHANGED <<durable, controls, faults>>
DispatchSome == \E S \in SUBSET Steps : Dispatch(S)
Rests(due) == NoneBlocked /\ {} \in Selections(due)

Deferred(s) == s \in backoff /\ step[s] = "pending"

(* Jobs are under way, or a retry is not due: every renewal of the lease starts another pass. *)
AwaitJobs ==
    /\ \/ Dispatching /\ Rests({}) /\ (loop.seen # {} \/ \E s \in Steps : Deferred(s) \/ Delivers(s))
       \/ loop.phase = "dispatch" /\ exec = "paused" /\ loop.seen # {}
    /\ UNCHANGED job /\ loop' = Pass
    /\ UNCHANGED <<durable, controls, faults>>

AllEnded == \A s \in Steps : step[s] \in StepEnded
FinalStatus ==
    IF \E s \in Steps : step[s] = "failed" THEN {"failed", "completed_with_failures"}
    ELSE IF \E s \in Steps : step[s] # "completed" THEN {"completed_with_failures"} ELSE {"completed"}
Finalize ==
    /\ Dispatching /\ loop.seen = {} /\ AllEnded
    /\ Fence
    /\ exec' \in FinalStatus
    /\ loop' = Leaving(FALSE)
    /\ lease' = "none" /\ live' = FALSE
    /\ UNCHANGED <<step, backoff, stopped, att, job, controls, faults>>

Idle ==
    /\ Dispatching /\ Rests({}) /\ loop.seen = {} /\ ~AllEnded
    /\ \A s \in Steps : ~Delivers(s) /\ ~Deferred(s)
IdleExit ==
    /\ \/ Idle /\ AnyWaiting(att)
       \/ loop.phase = "dispatch" /\ exec = "paused" /\ loop.seen = {}
       \/ Running /\ exec \in Ended
    /\ Leave(FALSE)
    /\ UNCHANGED <<durable, controls, faults>>

(***************************************************************************)
(* A write is refused: the lease has run out, or the Step to be skipped    *)
(* has an active Attempt.  The generation ends and another is asked for.   *)
(***************************************************************************)
WriteDue ==
    \/ Passing /\ ((\E s \in Steps : Admits(s)) \/ (NoEffects /\ \E s \in Steps : Interrupted(s) # {}))
    \/ Dispatching /\ (~NoneBlocked \/ (loop.seen = {} /\ AllEnded))
LoopAborts ==
    /\ \/ WriteDue /\ ~live
       \/ Dispatching /\ \E s \in Steps : Blocked(s) /\ HasActive(s)
    /\ Leave(TRUE)
    /\ UNCHANGED <<durable, controls, faults>>

(***************************************************************************)
(* An error that no successor could repair, such as a work_dir that cannot *)
(* be made: the jobs are fenced, and then fail_if_active ends a running    *)
(* Execution with all its open Steps, unless the lease is lost by then.    *)
(***************************************************************************)
LoopFails ==
    /\ "fatal" \in Explored /\ faults < MaxFaults /\ faults' = faults + 1
    /\ Running
    /\ loop' = [Leaving(FALSE) EXCEPT !.phase = "failing"]
    /\ job' = [s \in Steps |-> [job[s] EXCEPT !.fresh = FALSE]]
    /\ UNCHANGED <<durable, controls>>
FailIfActive ==
    /\ loop.phase = "failing"
    /\ loop' = Leaving(FALSE)
    /\ IF Fence /\ exec \in Dispatchable
       THEN /\ exec' = "failed"
            /\ lease' = "none" /\ live' = FALSE
            /\ CancelSteps(Steps)
       ELSE UNCHANGED <<exec, lease, live, step, backoff, att, job>>
    /\ UNCHANGED <<stopped, controls, faults>>

Heartbeat ==
    /\ Running \/ loop.phase = "failing"
    /\ lease = "mine" /\ ~live /\ exec \in Admissible
    /\ live' = TRUE
    /\ UNCHANGED <<exec, lease, step, backoff, stopped, att, loop, job, controls, faults>>

LoopStep ==
    \/ Acquire \/ Depart \/ RecoverDone \/ AwaitJobs \/ Finalize \/ IdleExit \/ LoopAborts \/ FailIfActive
    \/ \E s \in Steps : AdmitDecision(s) \/ DeliverDecision(s) \/ SkipBlocked(s)
    \/ \E s \in Steps : \E k \in 1..Last(s) : RecoverAttempt(s, k)
    \/ DispatchSome

-----------------------------------------------------------------------------
(***************************************************************************)
(* The process and the clock.                                              *)
(***************************************************************************)
LeaseLapses ==
    /\ "lapse" \in Explored /\ faults < MaxFaults /\ faults' = faults + 1
    /\ lease = "mine" /\ live
    /\ live' = FALSE
    /\ UNCHANGED <<exec, lease, step, backoff, stopped, att, loop, job, controls>>
OldLeaseLapses ==
    /\ lease = "old" /\ live
    /\ live' = FALSE
    /\ UNCHANGED <<exec, lease, step, backoff, stopped, att, loop, job, controls, faults>>
Crash ==
    /\ "crash" \in Explored /\ faults < MaxFaults /\ faults' = faults + 1
    /\ Up
    /\ loop' = [phase |-> "down", again |-> FALSE, seen |-> {}]
    /\ job' = [s \in Steps |-> NoJob]
    /\ lease' = IF lease = "mine" THEN "old" ELSE lease
    /\ UNCHANGED <<exec, live, step, backoff, stopped, att, controls>>
Boot ==
    /\ loop.phase = "down"
    /\ loop' = [loop EXCEPT !.phase = IF exec \in Admissible THEN "acquire" ELSE "off"]
    /\ UNCHANGED <<durable, job, controls, faults>>

(***************************************************************************)
(* The native Session: Turns suspend, go on and close, and the cleanup     *)
(* outbox cancels the Turn of an Attempt that is over.                     *)
(***************************************************************************)
Turn(s, k, from, to) ==
    /\ Up /\ att[s][k].turn \in from
    /\ att' = [att EXCEPT ![s][k].turn = to]
    /\ UNCHANGED <<exec, lease, live, step, backoff, stopped, loop, job, controls, faults>>
TurnCloses(s, k) == \E to \in Closed : to \in Explored /\ Turn(s, k, {"running"}, to)
TurnSuspends(s, k) == "suspend" \in Explored /\ Turn(s, k, {"running"}, "suspended")
TurnGoesOn(s, k) == "suspend" \in Explored /\ Turn(s, k, {"suspended"}, "running")
Cleanup(s, k) == att[s][k].status \notin ActiveAttempt /\ Turn(s, k, Unresolved, "cancelled")
Session == \E s \in Steps : \E k \in 1..Last(s) :
    TurnCloses(s, k) \/ TurnSuspends(s, k) \/ TurnGoesOn(s, k) \/ Cleanup(s, k)

Next ==
    \/ UserCommand \/ LoopStep \/ LoopFails \/ Heartbeat \/ LeaseLapses \/ OldLeaseLapses \/ Crash \/ Boot \/ Session
    \/ \E s \in Steps : JobAdvances(s) \/ JobAsks(s) \/ JobFault(s)
Spec == Init /\ [][Next]_vars

(***************************************************************************)
(* The runtime polls the loop and every job, a retry becomes due, the      *)
(* heartbeat renews, a dead lease runs out, a dead process is started      *)
(* again, and Turns close.                                                 *)
(***************************************************************************)
Fairness ==
    /\ WF_vars(LoopStep) /\ SF_vars(DispatchSome) /\ WF_vars(Heartbeat) /\ WF_vars(OldLeaseLapses) /\ WF_vars(Boot)
    /\ \A s \in Steps : WF_vars(JobAdvances(s)) /\ WF_vars(JobAsks(s))
    /\ \A s \in Steps : \A k \in 1..MaxAttempts :
          /\ SF_vars(k <= Last(s) /\ TurnCloses(s, k))
          /\ WF_vars(k <= Last(s) /\ Cleanup(s, k))
FairSpec == Spec /\ Fairness

-----------------------------------------------------------------------------
Statuses == ActiveAttempt \cup {"completed", "failed", "cancelled"}
AttemptType == [status : Statuses, review : BOOLEAN, answered : BOOLEAN,
                turn : Unresolved \cup Closed \cup {"absent"}]
JobPhases == {"none", "prepare", "admit", "queued", "deliver", "observe", "watch", "settle", "recover"}
JobType == [phase : JobPhases, att : 0..MaxAttempts, stale : BOOLEAN, res : 0..2, fresh : BOOLEAN,
            out : {"none", "receipt", "missing", "refused", "suspended"}, hard : BOOLEAN]

(* The types; a job past its reservation names an Attempt of its own Step. *)
TypeOK ==
    /\ exec \in Admissible \cup Ended
    /\ lease \in {"none", "mine", "old"} /\ live \in BOOLEAN
    /\ step \in [Steps -> StepEnded \cup {"pending", "running", "waiting"}]
    /\ backoff \subseteq Steps /\ stopped \subseteq Steps
    /\ \A s \in Steps : /\ att[s] \in Seq(AttemptType) /\ Last(s) <= MaxAttempts
                        /\ job[s] \in JobType /\ job[s].att <= Last(s)
                        /\ job[s].phase \in {"queued", "deliver", "observe", "watch", "settle"} => job[s].att # 0
    /\ loop.phase \in {"down", "off", "acquire", "boot", "recover", "dispatch", "failing", "leaving"} /\ loop.again \in BOOLEAN
    /\ loop.seen \subseteq Steps
    /\ controls \in 0..MaxControls /\ faults \in 0..MaxFaults

(***************************************************************************)
(* Never two native Turns at work for one Step, whatever is retried,       *)
(* recovered, timed out or handed to another generation.                   *)
(***************************************************************************)
OneTurnPerStep ==
    \A s \in Steps : \A j, k \in 1..Last(s) :
        att[s][j].turn \in Unresolved /\ att[s][k].turn \in Unresolved => j = k

(***************************************************************************)
(* A Step and the Attempt that stands for it, its newest, agree between    *)
(* any two statements of settle, cancel, retry, admission and recovery; a  *)
(* Step that no Attempt stands for is neither running nor waiting.         *)
(***************************************************************************)
StepMatchesAttempt ==
    \A s \in Steps :
        IF Last(s) # 0 /\ Current(s).status \in ActiveAttempt
        THEN step[s] = (IF Current(s).status = "queued" THEN "pending" ELSE Current(s).status)
        ELSE step[s] \notin {"running", "waiting"}

(***************************************************************************)
(* Each dispatch rechecks the active Attempts under the admission writer,  *)
(* as docs/architecture/agent-execution.md has it: a Step never has two.   *)
(***************************************************************************)
OneActiveAttempt ==
    \A s \in Steps : \A j, k \in 1..Last(s) :
        att[s][j].status \in ActiveAttempt /\ att[s][k].status \in ActiveAttempt => j = k

(***************************************************************************)
(* A success recorded by settle_attempt or by reconciliation is the one    *)
(* the native Turn was closed with, and an Attempt waits for the user only *)
(* when its Turn asked or a person has to review it.  (A failure may be    *)
(* recorded before the Turn is known, or without one.)                     *)
(***************************************************************************)
VerdictMatchesTurn ==
    \A s \in Steps : \A k \in 1..Last(s) :
        /\ att[s][k].status = "completed" => att[s][k].turn = "completed"
        /\ att[s][k].status = "waiting" /\ ~att[s][k].review /\ ~att[s][k].answered => att[s][k].turn = "input"

(***************************************************************************)
(* Finalize and Cancel leave nothing of an ended Execution active, however *)
(* they meet the jobs of this or an earlier scheduler generation, and it   *)
(* holds no live lease.                                                    *)
(***************************************************************************)
TerminalIsQuiet ==
    exec \in Ended => /\ lease # "mine" \/ ~live
                      /\ \A s \in Steps : step[s] \in StepEnded /\ ~HasActive(s)

(***************************************************************************)
(* No more Attempts hold a model slot than max_parallel, though a pass     *)
(* dispatches from a snapshot and recovery, answers and earlier            *)
(* generations of the scheduler take slots beside it.                      *)
(***************************************************************************)
Slots == {p \in Steps \X (1..MaxAttempts) : p[2] <= Last(p[1]) /\ att[p[1]][p[2]].status \in {"queued", "running"}}
ParallelLimit == Cardinality(Slots) <= MaxParallel

(***************************************************************************)
(* The scheduler never finds itself with open Steps and nothing to do or   *)
(* to wait for: fail_unschedulable_snapshot is never reached.              *)
(***************************************************************************)
AlwaysSchedulable == Idle => AnyWaiting(att)

(***************************************************************************)
(* Under FairSpec an Execution always comes again to where it has ended,   *)
(* is paused or asks its user something, through crashes, lapsed leases,   *)
(* lost replies, retries and start requests that meet a loop on its way    *)
(* out.                                                                    *)
(***************************************************************************)
WaitsForUser == \E s \in Steps : Last(s) # 0 /\ Current(s).status = "waiting" /\ (Current(s).review \/ ~Current(s).answered)
ExecutionSettles == []<>(exec \in Ended \/ exec = "paused" \/ WaitsForUser)

(***************************************************************************)
(* What the user answered (answer_decision) is delivered to the native     *)
(* session or given up with its Attempt, never kept for ever by an         *)
(* Execution that may run.                                                 *)
(***************************************************************************)
Answered(s) == Last(s) # 0 /\ Current(s).answered /\ Current(s).turn = "absent" /\ exec \in Dispatchable
AnswersDelivered == \A s \in Steps : []<>~Answered(s)

(***************************************************************************)
(* The Execution as TaskExecution describes it.  A Step is picked while a  *)
(* job that can start it, or its newest Attempt, stands for it.            *)
(***************************************************************************)
Mode == IF exec = "paused" THEN "held" ELSE IF exec = "cancelled" THEN "cancelled"
        ELSE IF exec \in Ended THEN "over" ELSE "open"
WorkOf == [pending |-> "todo", running |-> "working", waiting |-> "asking", completed |-> "done",
           failed |-> "failed", skipped |-> "dropped", cancelled |-> "stopped"]
Stands(s) ==
    \/ job[s].phase # "none" /\ job[s].att \in {0, Last(s)}
    \/ Last(s) # 0 /\ Current(s).status \in ActiveAttempt
Picked == {s \in Steps : step[s] \in {"pending", "skipped"} /\ Stands(s)}
Turns(s) == Cardinality({k \in 1..Last(s) : att[s][k].turn \in Unresolved})
Tasks == INSTANCE TaskExecution WITH
    mode <- Mode,
    work <- [s \in Steps |-> WorkOf[step[s]]],
    picked <- Picked,
    turns <- [s \in Steps |-> Turns(s)]

(***************************************************************************)
(* The scheduler, its jobs, the store and recovery implement               *)
(* TaskExecution: whatever crashes, lapses, is retried or comes late looks *)
(* from outside like one of its steps or like none.                        *)
(***************************************************************************)
RefinesTasks == Tasks!TaskSpec
=============================================================================

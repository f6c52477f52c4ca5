--------------------------- MODULE RequirementQueue ---------------------------
(***************************************************************************)
(* The durable AutoWork requirement queue: the `requirements` and          *)
(* `requirement_tags` tables of nomifun-db, the statements of              *)
(* SqliteRequirementRepository that change them, the RequirementService     *)
(* commands above them, and the admission fence that AgentExecution reads   *)
(* from the claim columns.                                                 *)
(*                                                                         *)
(* Every action is one SQLite statement or transaction.  A caller that     *)
(* once received a claim capability may present it at any later time, any  *)
(* number of times and in any order: a late, repeated or overtaken call of *)
(* a runner is just another choice of a member of Issued.                  *)
(***************************************************************************)
EXTENDS Naturals, FiniteSets

CONSTANTS
    Requirements,    \* requirement ids; an id is never used twice
    Tags,            \* queue names
    Sessions,        \* AgentSessions, the only owners AutoWork still accepts
    SortKeys,        \* values of sort_seq, smaller first
    MaxGeneration,   \* bound: claims of one requirement
    MaxAttempts,     \* bound: Attempts of one AgentExecution
    Outcomes,        \* ways an execution settles by itself, told apart by runners
    None             \* SQL NULL for an owner or a requirement reference

Generations == 1..MaxGeneration

ASSUME QueueAssumption ==
    /\ SortKeys \subseteq Nat
    /\ MaxGeneration \in Nat \ {0}
    /\ MaxAttempts \in Nat \ {0}
    /\ Outcomes \subseteq {"completed", "partial", "failed", "unknown"}
    /\ None \notin Requirements \cup Sessions \cup Tags

VARIABLES
    row,        \* the requirements table, one row per id
    paused,     \* requirement_tags.paused
    pausedBy,   \* requirement_tags.paused_requirement_id
    live,       \* the AgentSessions whose state is 'live'
    claims,     \* per requirement and generation: the capability's holder and
                \* the AgentExecution whose automation source names it; voided
                \* is history (an abandoned claim leaves no record)
    runs        \* history: executions admitted since the user last queued the row

qvars == <<row, paused, pausedBy, live, claims, runs>>

Statuses == {"pending", "in_progress", "done", "failed", "cancelled", "needs_review"}
Verdicts == {"done", "failed", "cancelled", "needs_review"}
Finished == Outcomes \cup {"cancelled"}

(***************************************************************************)
(* A row.  claim_token is a random blob drawn at each claim, so two tokens *)
(* are equal exactly when they stem from the same claim: the generation    *)
(* it was drawn for stands for it, 0 for NULL.  active_turn_started_at is  *)
(* set and cleared together with it.  A lease is only ever compared with   *)
(* the clock: "live" or "expired".                                         *)
(***************************************************************************)
Rows == [status   : Statuses \cup {"absent", "deleted"},
         tag      : Tags \cup {None},
         sort     : SortKeys \cup {0},
         owner    : Sessions \cup {None},
         gen      : Nat,
         token    : Nat,
         lease    : {"none", "live", "expired"},
         attempts : Nat]

\* A claim generation and the AgentExecution admitted for it, if any.
ClaimRecords == [holder   : Sessions \cup {None},
                 exec     : {"absent", "active"} \cup Finished,
                 attempts : 0..MaxAttempts,
                 voided   : BOOLEAN]

Exists(r) == row[r].status \in Statuses
BlankRow == [status |-> "absent", tag |-> None, sort |-> 0, owner |-> None,
             gen |-> 0, token |-> 0, lease |-> "none", attempts |-> 0]
Unclaimed == [holder |-> None, exec |-> "absent", attempts |-> 0, voided |-> FALSE]

Init ==
    /\ row = [r \in Requirements |-> BlankRow]
    /\ paused = [t \in Tags |-> FALSE]
    /\ pausedBy = [t \in Tags |-> None]
    /\ live = Sessions
    /\ claims = [r \in Requirements |-> [g \in Generations |-> Unclaimed]]
    /\ runs = [r \in Requirements |-> 0]

\* Capabilities handed out so far; they are never revoked, only outdated.
Issued == {c \in [req : Requirements, gen : Generations] :
              claims[c.req][c.gen].holder # None}
Holder(c) == claims[c.req][c.gen].holder

\* The exact predicate every claim-scoped statement repeats.
ExactClaim(c) ==
    /\ row[c.req].status = "in_progress"
    /\ row[c.req].gen = c.gen
    /\ row[c.req].token = c.gen
    /\ row[c.req].owner = Holder(c)

\* Faulty variant: parking drops the claim's identity instead of keeping it.
ParkedWithoutIdentity(w) ==
    [w EXCEPT !.status = "needs_review", !.lease = "none", !.owner = None, !.token = 0]

\* Faulty variant: the token is the one of the generation before.
ClaimedWithStaleToken(w, s) ==
    [w EXCEPT !.status = "in_progress", !.owner = s, !.gen = w.gen + 1,
              !.token = w.gen, !.lease = "live", !.attempts = w.attempts + 1]

\* Faulty variant: a requeued row keeps the token of its last claim.
RequeuedWithToken(w) == [w EXCEPT !.status = "pending", !.owner = None, !.lease = "none"]

\* What the statements write.
Parked(w) == [w EXCEPT !.status = "needs_review", !.lease = "none"]
Requeued(w) == [w EXCEPT !.status = "pending", !.owner = None, !.token = 0,
                         !.lease = "none"]
FreshBudget(w) == [w EXCEPT !.attempts = 0]
Claimed(w, s) == [w EXCEPT !.status = "in_progress", !.owner = s, !.gen = w.gen + 1,
                           !.token = w.gen + 1, !.lease = "live", !.attempts = w.attempts + 1]
Refunded(w) == [w EXCEPT !.attempts = IF w.attempts > 0 THEN w.attempts - 1 ELSE 0]

-----------------------------------------------------------------------------
(* Rows: create, edit, delete *)

\* RequirementService::create and insert: any status but in_progress.
Create(r, t, k, s) ==
    /\ row[r].status = "absent"
    /\ row' = [row EXCEPT ![r] = [BlankRow EXCEPT !.status = s, !.tag = t, !.sort = k]]
    /\ UNCHANGED <<paused, pausedBy, live, claims, runs>>

\* update: metadata only; the tag and the order may change in any status.
UpdateMetadata(r, t, k) ==
    /\ Exists(r)
    /\ row' = [row EXCEPT ![r].tag = t, ![r].sort = k]
    /\ UNCHANGED <<paused, pausedBy, live, claims, runs>>

\* delete: an active row is parked for review instead of removed.
Delete(r) ==
    /\ Exists(r)
    /\ \/ /\ row[r].status = "in_progress"
          /\ row' = [row EXCEPT ![r] = Parked(@)]
          /\ UNCHANGED pausedBy
       \/ /\ row[r].status # "in_progress"
          /\ row' = [row EXCEPT ![r] = [BlankRow EXCEPT !.status = "deleted"]]
          /\ pausedBy' = [t \in Tags |-> IF pausedBy[t] = r THEN None ELSE pausedBy[t]]
    /\ UNCHANGED <<paused, live, claims, runs>>

-----------------------------------------------------------------------------
(* Claims *)

ActiveClaims(s) == {r \in Requirements : row[r].status = "in_progress" /\ row[r].owner = s}

\* Faulty variant: a claim whose lease has run out is not recovered.
RecoverableUnexpired(s, t) ==
    {r \in ActiveClaims(s) : row[r].tag = t /\ row[r].gen > 0 /\ row[r].token # 0
                              /\ row[r].lease = "live"}

Recoverable(s, t) == {r \in ActiveClaims(s) : row[r].tag = t /\ row[r].gen > 0 /\ row[r].token # 0}

\* Rows the claim statement's subquery selects from, and its ORDER BY.
\* Ties of sort_seq fall to priority and created_at, which the model leaves open.
Claimable(s, t) == {r \in Requirements : /\ row[r].status = "pending"
                                         /\ row[r].tag = t
                                         /\ ActiveClaims(s) = {}
                                         /\ ~paused[t]}
FirstClaimable(s, t) ==
    {r \in Claimable(s, t) : \A q \in Claimable(s, t) : row[r].sort <= row[q].sort}

\* recover_active_claim_in_transaction: re-enter the durable claim, whatever
\* its lease says, and change nothing but the lease.
RecoverActiveClaim(s, t, r) ==
    /\ s \in live
    /\ r \in Recoverable(s, t)
    /\ row' = [row EXCEPT ![r].lease = "live"]
    /\ UNCHANGED <<paused, pausedBy, live, claims, runs>>

\* claim_pending_in_transaction, reached when nothing is recoverable.
ClaimPending(s, t, r) ==
    /\ s \in live
    /\ Recoverable(s, t) = {}
    /\ r \in FirstClaimable(s, t)
    /\ row[r].gen < MaxGeneration
    /\ row' = [row EXCEPT ![r] = Claimed(@, s)]
    /\ claims' = [claims EXCEPT ![r][row[r].gen + 1].holder = s]
    /\ UNCHANGED <<paused, pausedBy, live, runs>>

RenewLease(c) ==
    /\ ExactClaim(c)
    /\ row' = [row EXCEPT ![c.req].lease = "live"]
    /\ UNCHANGED <<paused, pausedBy, live, claims, runs>>

LeaseExpires(r) ==
    /\ row[r].status = "in_progress"
    /\ row[r].lease = "live"
    /\ row' = [row EXCEPT ![r].lease = "expired"]
    /\ UNCHANGED <<paused, pausedBy, live, claims, runs>>

\* resolve_claim_exact: the verdict of one generation; its owner, token and
\* generation stay as evidence, and only NeedsReview clears the lease.
ResolveClaim(c, v) ==
    /\ ExactClaim(c)
    /\ row' = [row EXCEPT ![c.req] = IF v = "needs_review" THEN Parked(@)
                                     ELSE [@ EXCEPT !.status = v]]
    /\ UNCHANGED <<paused, pausedBy, live, claims, runs>>

\* trg_requirements_pre_effect_abandon_guard_insert: the row of the guard table
\* whose INSERT is the release command, refused once an execution names the claim.
AbandonGuard(c) == claims[c.req][c.gen].exec = "absent"

\* Faulty variant: the attempt is not refunded.
AbandonClaimUnrefunded(c) ==
    /\ ExactClaim(c)
    /\ AbandonGuard(c)
    /\ row' = [row EXCEPT ![c.req] = Requeued(@)]
    /\ claims' = [claims EXCEPT ![c.req][c.gen].voided = TRUE]
    /\ UNCHANGED <<paused, pausedBy, live, runs>>

\* abandon_claim_before_admission_exact: the INSERT selects the exact claim and
\* passes the guard; its trigger chain puts the row back to pending with the
\* attempt refunded.
AbandonClaim(c) ==
    /\ ExactClaim(c)
    /\ AbandonGuard(c)
    /\ row' = [row EXCEPT ![c.req] = Refunded(Requeued(@))]
    /\ claims' = [claims EXCEPT ![c.req][c.gen].voided = TRUE]
    /\ UNCHANGED <<paused, pausedBy, live, runs>>

\* The same INSERT for a claim that was admitted: the statement does not ask for
\* an execution, the guard aborts it, the transaction rolls back and the caller
\* receives an error.
AbandonAborted(c) ==
    /\ ExactClaim(c)
    /\ ~AbandonGuard(c)
    /\ UNCHANGED qvars

\* detach_owner_for_session
DetachOwner(s) ==
    /\ row' = [r \in Requirements |-> IF r \in ActiveClaims(s) THEN Parked(row[r]) ELSE row[r]]
    /\ UNCHANGED <<paused, pausedBy, live, claims, runs>>

\* Faulty variant: an expired claim goes back to the queue.
SweepRequeuesExpired(active) ==
    /\ row' = [r \in Requirements |->
                 IF /\ row[r].status = "in_progress"
                    /\ row[r].lease = "expired"
                    /\ row[r].owner \notin active
                 THEN Requeued(row[r]) ELSE row[r]]
    /\ UNCHANGED <<paused, pausedBy, live, claims, runs>>

\* sweep_expired_leases, given the sessions the sweeper saw with a live loop
SweepExpiredLeases(active) ==
    /\ row' = [r \in Requirements |->
                 IF /\ row[r].status = "in_progress"
                    /\ row[r].lease = "expired"
                    /\ row[r].owner \notin active
                 THEN Parked(row[r]) ELSE row[r]]
    /\ UNCHANGED <<paused, pausedBy, live, claims, runs>>

-----------------------------------------------------------------------------
(* Status commands of the user and of agents without the claim *)

\* set_status to anything but pending: never from or into in_progress, and
\* never out of done, failed or cancelled.
TransitionStatus(r, v) ==
    /\ row[r].status \in {"pending", "needs_review"}
    /\ row[r].status # v
    /\ row' = [row EXCEPT ![r].status = v]
    /\ UNCHANGED <<paused, pausedBy, live, claims, runs>>

\* set_status to pending: requeue_for_resume_exact keeps the attempt count.
Requeue(r) ==
    /\ row[r].status \in {"failed", "needs_review"}
    /\ row' = [row EXCEPT ![r] = Requeued(@)]
    /\ runs' = [runs EXCEPT ![r] = 0]
    /\ UNCHANGED <<paused, pausedBy, live, claims>>

-----------------------------------------------------------------------------
(* Tags *)

\* pause_tag names the requirement it was given without looking it up.
PauseTag(t, r) ==
    /\ paused' = [paused EXCEPT ![t] = TRUE]
    /\ pausedBy' = [pausedBy EXCEPT ![t] = r]
    /\ UNCHANGED <<row, live, claims, runs>>

\* resume_tag_with_requeues; the reference in paused_requirement_id stays.
ResumeTag(t, ids) ==
    LET again == {r \in ids : row[r].tag = t /\ row[r].status \in {"failed", "needs_review"}} IN
    /\ row' = [r \in Requirements |-> IF r \in again THEN FreshBudget(Requeued(row[r])) ELSE row[r]]
    /\ runs' = [r \in Requirements |-> IF r \in again THEN 0 ELSE runs[r]]
    /\ paused' = [paused EXCEPT ![t] = FALSE]
    /\ UNCHANGED <<pausedBy, live, claims>>

\* resume_tag_for_enable_atomic: the user enabled AutoWork on a paused tag.
ResumeTagForEnable(t) ==
    LET again == {r \in Requirements : row[r].tag = t /\ row[r].status \in {"failed", "pending"}} IN
    /\ paused[t]
    /\ row' = [r \in Requirements |->
                 CASE r \in again -> FreshBudget(Requeued(row[r]))
                   [] row[r].tag = t /\ row[r].status = "in_progress" -> Parked(row[r])
                   [] OTHER -> row[r]]
    /\ runs' = [r \in Requirements |->
                 IF r \in again /\ row[r].status = "failed" THEN 0 ELSE runs[r]]
    /\ paused' = [paused EXCEPT ![t] = FALSE]
    /\ UNCHANGED <<pausedBy, live, claims>>

-----------------------------------------------------------------------------
(* AgentExecution, as far as the claim fences it *)

\* Faulty variant: the generation alone is taken for the claim.
AdmittedByGeneration(c) ==
    /\ Exists(c.req)
    /\ row[c.req].gen = c.gen
    /\ row[c.req].status # "cancelled"
    /\ Holder(c) \in live

\* autowork_admitted_tx
AutoworkAdmitted(c) ==
    /\ Exists(c.req)
    /\ row[c.req].gen = c.gen
    /\ row[c.req].owner = Holder(c)
    /\ row[c.req].token # 0
    /\ row[c.req].status # "cancelled"
    /\ Holder(c) \in live

LeadBusy(s) == \E c \in Issued : Holder(c) = s /\ claims[c.req][c.gen].exec = "active"

\* ensure_automation_execution and create_execution_with_participants
AdmitExecution(c) ==
    /\ claims[c.req][c.gen].exec = "absent"
    /\ AutoworkAdmitted(c)
    /\ ~LeadBusy(Holder(c))
    /\ claims' = [claims EXCEPT ![c.req][c.gen].exec = "active"]
    /\ runs' = [runs EXCEPT ![c.req] = @ + 1]
    /\ UNCHANGED <<row, paused, pausedBy, live>>

\* create_attempt and start_attempt consume the same fence again.
AdmitAttempt(c) ==
    /\ claims[c.req][c.gen].exec = "active"
    /\ claims[c.req][c.gen].attempts < MaxAttempts
    /\ AutoworkAdmitted(c)
    /\ claims' = [claims EXCEPT ![c.req][c.gen].attempts = @ + 1]
    /\ UNCHANGED <<row, paused, pausedBy, live, runs>>

\* The scheduler settles the aggregate; only a failure needs no Attempt.
SettleExecution(c, o) ==
    /\ claims[c.req][c.gen].exec = "active"
    /\ o # "failed" => claims[c.req][c.gen].attempts > 0
    /\ claims' = [claims EXCEPT ![c.req][c.gen].exec = o]
    /\ UNCHANGED <<row, paused, pausedBy, live, runs>>

CancelExecution(c) ==
    /\ claims[c.req][c.gen].exec = "active"
    /\ claims' = [claims EXCEPT ![c.req][c.gen].exec = "cancelled"]
    /\ UNCHANGED <<row, paused, pausedBy, live, runs>>

\* The delete fence of the canonical AgentSession.
RetireSession(s) ==
    /\ s \in live
    /\ live' = live \ {s}
    /\ UNCHANGED <<row, paused, pausedBy, claims, runs>>

-----------------------------------------------------------------------------
RowCommand ==
    \E r \in Requirements :
        \/ \E t \in Tags, k \in SortKeys, s \in Statuses \ {"in_progress"} : Create(r, t, k, s)
        \/ \E t \in Tags, k \in SortKeys : UpdateMetadata(r, t, k)
        \/ Delete(r)
        \/ \E v \in Verdicts : TransitionStatus(r, v)
        \/ Requeue(r)
        \/ LeaseExpires(r)

ClaimCommand ==
    \/ \E s \in Sessions, t \in Tags, r \in Requirements :
        RecoverActiveClaim(s, t, r) \/ ClaimPending(s, t, r)
    \/ \E c \in Issued :
        \/ RenewLease(c)
        \/ \E v \in Verdicts : ResolveClaim(c, v)
        \/ AbandonClaim(c)
        \/ AbandonAborted(c)
    \/ \E s \in Sessions : DetachOwner(s)
    \/ \E active \in SUBSET Sessions : SweepExpiredLeases(active)

TagCommand ==
    \E t \in Tags :
        \/ \E c \in Issued : PauseTag(t, c.req)
        \/ \E ids \in SUBSET Requirements : ResumeTag(t, ids)
        \/ ResumeTagForEnable(t)

ExecutionStep ==
    \/ \E c \in Issued :
        \/ AdmitExecution(c)
        \/ AdmitAttempt(c)
        \/ \E o \in Outcomes : SettleExecution(c, o)
        \/ CancelExecution(c)
    \/ \E s \in Sessions : RetireSession(s)

Next == RowCommand \/ ClaimCommand \/ TagCommand \/ ExecutionStep

Spec == Init /\ [][Next]_qvars

-----------------------------------------------------------------------------
(* Properties *)

\* Every variable has its type, and the only token a row can carry is the one
\* drawn for its current generation.
TypeOK ==
    /\ row \in [Requirements -> Rows]
    /\ paused \in [Tags -> BOOLEAN]
    /\ pausedBy \in [Tags -> Requirements \cup {None}]
    /\ live \subseteq Sessions
    /\ claims \in [Requirements -> [Generations -> ClaimRecords]]
    /\ runs \in [Requirements -> Nat]
    /\ \A r \in Requirements : row[r].gen <= MaxGeneration /\ row[r].token \in {0, row[r].gen}

\* A session never owns two active claims, whatever tags it serves and
\* however requirements move between tags while they are worked on: the
\* claim statement looks for an active row of the owner, recovery and the
\* metadata update must not create a second one.
OneActiveClaimPerOwner ==
    \A s \in Sessions : \A r, q \in ActiveClaims(s) : r = q

\* Each time the user queues a requirement (creates it, requeues it, resumes
\* its tag) at most one AgentExecution starts for it: no lease expiry, stop,
\* crash recovery, abandoned claim or late admission makes the same request
\* run twice.  This is what parking in needs_review is for.
AtMostOneRunPerQueueing == \A r \in Requirements : runs[r] <= 1

\* A generation whose claim was abandoned as never admitted has no execution
\* and gets none later, although the runner that was about to admit it may
\* still be on its way.
AbandonedClaimNeverRuns ==
    \A r \in Requirements, g \in Generations :
        claims[r][g].voided => claims[r][g].exec = "absent" /\ claims[r][g].attempts = 0

\* The retry budget is charged for a claim and refunded only for an abandoned
\* one: attempt_count never exceeds the claims that were not given back.
AttemptBudget ==
    \A r \in Requirements :
        row[r].attempts + Cardinality({g \in Generations : claims[r][g].voided /\ g <= row[r].gen})
            <= row[r].gen

\* What a row w, the claims k made of it and its executions n have to do with
\* each other.  Pending rows carry no authority; an active row is held by the
\* session its generation was issued to; later generations are untouched; and
\* as long as the current claim has no execution there is none since the user
\* queued the row, which is what makes its abandonment and its late admission
\* safe.  Abandoned claims are behind the row for good.
PendingRow(w, n) ==
    w.status = "pending" => w.token = 0 /\ w.owner = None /\ w.lease = "none" /\ n = 0
ActiveRow(w, k) ==
    w.status = "in_progress" =>
        /\ w.gen > 0 /\ w.token = w.gen /\ w.owner # None
        /\ w.owner = k[w.gen].holder /\ w.lease # "none" /\ w.attempts > 0
UnusedAhead(w, k) ==
    w.status # "deleted" => \A g \in Generations : g > w.gen => k[g] = Unclaimed
NoRunBeforeAdmission(w, k, n) ==
    (w.token # 0 /\ k[w.gen].exec = "absent") => n = 0
AbandonedBehind(w, k) ==
    \A g \in Generations : k[g].voided =>
        /\ k[g].exec = "absent"
        /\ w.status = "deleted" \/ g < w.gen \/ (g = w.gen /\ w.token = 0)
RowLedger(w, k, n) ==
    /\ PendingRow(w, n)
    /\ ActiveRow(w, k)
    /\ UnusedAhead(w, k)
    /\ NoRunBeforeAdmission(w, k, n)
    /\ AbandonedBehind(w, k)
    /\ \A g \in Generations : k[g].exec = "absent" => k[g].attempts = 0
    /\ w.status = "absent" => w = BlankRow /\ n = 0
    /\ n <= 1

\* The ledger of claims and executions agrees with every row.
ClaimLedger == \A r \in Requirements : RowLedger(row[r], claims[r], runs[r])

(***************************************************************************)
(* The conditions of the BEFORE UPDATE triggers trg_requirements_* of the  *)
(* baseline migration, on an update from row w to row n.  A trigger aborts *)
(* the statement, and the caller gets an error where it expects a row.     *)
(* The comparison lease_expires_at <= active_turn_started_at is about two   *)
(* readings of the clock: every lease is written as now + lease_ms with    *)
(* lease_ms > 0, at or after the claim that set active_turn_started_at, so *)
(* a lease that is there (live or expired) ends after it.  This assumes    *)
(* that the clock is not set back by more than one lease.                  *)
(***************************************************************************)
AbsorbDoneCancelled(w, n) == w.status \in {"done", "cancelled"} => n.status = w.status
ActiveIdentityExit(w, n) ==
    (w.status = "in_progress" /\ n.status # "pending") =>
        /\ n.gen = w.gen /\ n.token = w.token
        /\ n.owner = w.owner /\ n.attempts = w.attempts
InProgressUpdate(w, n) ==
    n.status = "in_progress" =>
        /\ n.gen > 0 /\ n.token # 0 /\ n.owner # None
        /\ n.lease \in {"live", "expired"}
        /\ w.status \in {"pending", "in_progress"}
        /\ w.status = "pending" =>
              w.token = 0 /\ n.gen = w.gen + 1 /\ n.attempts = w.attempts + 1
PendingUpdate(n) ==
    n.status = "pending" => n.token = 0 /\ n.owner = None /\ n.lease = "none"
ActiveToPending(r, w, n) ==
    (w.status = "in_progress" /\ n.status = "pending") =>
        /\ claims[r][w.gen].exec = "absent"
        /\ claims'[r][w.gen].voided    \* the guard row is there
        /\ n.gen = w.gen /\ n.token = 0 /\ n.owner = None /\ n.lease = "none"
        /\ n.attempts = IF w.attempts > 0 THEN w.attempts - 1 ELSE 0
TriggersAllow(r, w, n) ==
    /\ ActiveToPending(r, w, n)
    /\ AbsorbDoneCancelled(w, n)
    /\ ActiveIdentityExit(w, n)
    /\ InProgressUpdate(w, n)
    /\ PendingUpdate(n)

\* No UPDATE of a requirement row by a statement of the repository is aborted
\* by an update trigger of the schema: done and cancelled are absorbing, an
\* active claim keeps its identity until it leaves, it returns to pending only
\* through the guard table and without an execution, pending carries no
\* authority, and in_progress is entered only by claiming a pending row under
\* the next generation.  The one statement of the repository that a trigger
\* does abort is the release of an admitted claim (AbandonAborted): it fails
\* at its INSERT, before any row of requirements is updated.
UpdatesPassTriggers ==
    [][\A r \in Requirements :
         (Exists(r) /\ Exists(r)') => TriggersAllow(r, row[r], row[r]')]_qvars
=============================================================================

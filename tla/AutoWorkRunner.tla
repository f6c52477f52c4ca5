---------------------------- MODULE AutoWorkRunner ----------------------------
(***************************************************************************)
(* The process-local half of AutoWork: AutoWorkRunner of                   *)
(* nomifun-requirement, on top of the durable queue of RequirementQueue.   *)
(*                                                                         *)
(* A target session has at most one published loop (`handle`), at most one *)
(* cleanup owner (`cleanup`) and one transition lock, which the command in *)
(* `cmd` holds from its first to its last step.  A loop is a task that     *)
(* claims, admits, awaits and settles one requirement after the other; a   *)
(* task that ends leaves its exact claim to a keeper: the custodian that   *)
(* HandleGuard::drop spawns, or the cleanup owner of an explicit stop.     *)
(* The task and its keepers never run at the same time (join, then         *)
(* cleanup_barrier), so that one slot of `loop` holds whoever is at work.  *)
(*                                                                         *)
(* Every step is at most one database or execution-port call: between two  *)
(* steps any other task, command, user or execution may act, the task may  *)
(* be aborted or panic, and the process may crash.                         *)
(***************************************************************************)
EXTENDS RequirementQueue

CONSTANTS
    Loops,          \* slots for loop instances
    Caps,           \* max_requirements a user may configure; 0 is "no maximum"
    MaxRevision,    \* bound: revisions of one session's AutoWork config
    MaxCrashes,     \* bound: process crashes
    Explored        \* the commands and faults a run explores

ASSUME RunnerAssumption ==
    /\ None \notin Loops
    /\ Caps \subseteq Nat
    /\ MaxRevision \in Nat /\ MaxCrashes \in Nat

VARIABLES
    config,     \* durable: the AgentSession's automation config and its revision
    loop,       \* loop instances: the task or the keeper at work, and its locals
    handle,     \* AutoWorkRunner::handles
    cleanup,    \* AutoWorkRunner::cleanups
    cmd,        \* the command that holds the target's transition lock
    host        \* sweeper, boot resume, execution recovery, cancellations under
                \* way; cut is history: the sessions whose disable ended after its
                \* commit and before its stop, since their last loop was launched

pvars == <<config, loop, handle, cleanup, cmd, host>>
rvars == <<row, paused, pausedBy, live, claims, runs, config, loop, handle, cleanup, cmd, host>>

May(x) == x \in Explored
MayFail == May("fault")    \* a database or execution-port call returns an error
ConfigFails == MayFail \/ May("config fault")    \* or only one about a config

Claims == [req : Requirements, gen : Generations]
NoClaim == [req |-> None, gen |-> 0]

\* The tag is None exactly when AutoWork is disabled; the tag and the maximum
\* that a disabled config may keep are read by nobody and left out.
Configs == [tag : Tags \cup {None}, max : Nat, rev : Nat]

\* What cancel_automation and await_automation answer, and the two ways they fail.
Receipts == {"none", "completed", "partial", "failed", "unknown", "cancelled", "interrupted",
             "error", "notfound"}
TaskPcs == {"born", "scan", "purge", "ready", "claimed", "prepare", "await", "judge",
            "pausefirst", "release", "verdict", "confirm", "pause", "reread", "finish",
            "cap", "exit"}
KeeperPcs == {"scan", "purge", "recover", "cancel", "release", "verdict", "confirm", "pause",
              "settled"}

(***************************************************************************)
(* A slot.  Role says who works: the task, or one of its keepers once the  *)
(* task is gone.  shown is the claim published in LiveProgress; custodian  *)
(* is a spawned custodian that waits for the barrier; completed counts     *)
(* only up to a configured maximum.                                        *)
(***************************************************************************)
LoopRecords ==
    [pc : TaskPcs \cup KeeperPcs \cup {"free", "gone"}, role : {"task", "custodian", "cleanup"},
     target : Sessions \cup {None}, tag : Tags \cup {None}, max : Nat, rev : Nat,
     claim : Claims \cup {NoClaim}, shown : Claims \cup {NoClaim}, receipt : Receipts,
     todo : SUBSET Claims, completed : Nat,
     cancelled : BOOLEAN, handoff : BOOLEAN, blocked : BOOLEAN, custodian : BOOLEAN]
NoLoop ==
    [pc |-> "free", role |-> "task", target |-> None, tag |-> None, max |-> 0, rev |-> 0,
     claim |-> NoClaim, shown |-> NoClaim, receipt |-> "none", todo |-> {}, completed |-> 0,
     cancelled |-> FALSE, handoff |-> FALSE, blocked |-> FALSE, custodian |-> FALSE]

CmdPcs == {"idle", "quiesce", "joining", "save", "resume", "start", "publish", "rollback",
           "wait", "join", "park", "cancel", "failed"}
CmdRecords ==
    [pc : CmdPcs, next : {"idle", "save", "publish", "failed"}, tag : Tags \cup {None},
     max : Nat, rev : Nat, loop : Loops \cup {None}, todo : SUBSET Claims,
     request : BOOLEAN]     \* awaited by an HTTP handler, and dropped with it
NoCmd == [pc |-> "idle", next |-> "idle", tag |-> None, max |-> 0, rev |-> 0,
          loop |-> None, todo |-> {}, request |-> FALSE]
Unlocked(s) == cmd[s].pc = "idle"

RunnerInit ==
    /\ Init
    /\ config = [s \in Sessions |-> [tag |-> None, max |-> 0, rev |-> 0]]
    /\ loop = [l \in Loops |-> NoLoop]
    /\ handle = [s \in Sessions |-> None]
    /\ cleanup = [s \in Sessions |-> None]
    /\ cmd = [s \in Sessions |-> NoCmd]
    /\ host = [sweeping |-> FALSE, seen |-> {}, resume |-> [s \in Sessions |-> 0],
               recover |-> {}, stops |-> {}, crashes |-> 0, cut |-> {}]

-----------------------------------------------------------------------------
(* The execution port *)

Exec(c) == claims[c.req][c.gen].exec

\* automation_receipt: a cancellation before the first Attempt is replay safe.
ReceiptOf(c) ==
    IF Exec(c) = "cancelled" /\ claims[c.req][c.gen].attempts = 0
    THEN "interrupted" ELSE Exec(c)

\* cancel_automation: the answer about the one execution of claim c, whose
\* cancellation may be committed although the answer is an error.
CancelAutomation(c, ans) ==
    \/ /\ MayFail /\ ans = "error"
       /\ UNCHANGED qvars
    \/ /\ Exec(c) # "active"
       /\ ans = IF Exec(c) = "absent" THEN "none" ELSE ReceiptOf(c)
       /\ UNCHANGED qvars
    \/ /\ CancelExecution(c)
       /\ \/ MayFail /\ ans = "error"
          \/ ans = IF claims[c.req][c.gen].attempts = 0 THEN "interrupted" ELSE "cancelled"

\* confirm_claim_verdict_exact
ClaimStands(c, v) ==
    /\ row[c.req].status = v
    /\ row[c.req].gen = c.gen
    /\ row[c.req].token = c.gen
    /\ row[c.req].owner = Holder(c)

\* Faulty variant: a partial completion counts as done.
VerdictOptimistic(receipt) ==
    CASE receipt \in {"completed", "partial"} -> "done"
      [] receipt = "failed" -> "failed"
      [] OTHER -> "needs_review"

\* The verdict each receipt is projected to.
VerdictOf(receipt) ==
    CASE receipt = "completed" -> "done"
      [] receipt = "failed" -> "failed"
      [] OTHER -> "needs_review"

-----------------------------------------------------------------------------
(* The loop task *)

Target(l) == loop[l].target
TaskAt(l, p) == loop[l].role = "task" /\ loop[l].pc = p
TaskRunning(l) == loop[l].role = "task" /\ loop[l].pc \notin {"free", "gone"}
Become(l, new) == loop' = [loop EXCEPT ![l] = new]
Go(l, p) == Become(l, [loop[l] EXCEPT !.pc = p])

\* run_loop begins by resolving the session's frozen workspace.
LoopBegins(l) ==
    /\ TaskAt(l, "born")
    /\ \/ Target(l) \in live /\ Go(l, "scan")
       \/ (Target(l) \notin live \/ MayFail) /\ Go(l, "exit")
    /\ UNCHANGED <<qvars, config, handle, cleanup, cmd, host>>

\* cleanup_cancelled_loop_claims, of the task and of the custodian: the
\* user-cancelled claims of this session in this tag ...
OwnCancelled(s, t) ==
    {c \in Issued : /\ row[c.req].status = "cancelled" /\ row[c.req].tag = t
                    /\ row[c.req].owner = s /\ row[c.req].gen = c.gen /\ row[c.req].token # 0}
ListCancelled(l) ==
    /\ loop[l].pc = "scan"
    /\ IF loop[l].role = "task" /\ loop[l].cancelled
       THEN Go(l, "exit")
       ELSE Become(l, [loop[l] EXCEPT !.pc = "purge",
                                      !.todo = OwnCancelled(Target(l), loop[l].tag)])
    /\ UNCHANGED <<qvars, config, handle, cleanup, cmd, host>>

\* ... are cancelled at their executions one by one, each until it succeeds.
PurgeCancelled(l) ==
    /\ loop[l].pc = "purge"
    /\ \/ /\ loop[l].todo = {}
          /\ Go(l, IF loop[l].role = "task" THEN "ready" ELSE "recover")
          /\ UNCHANGED qvars
       \/ /\ loop[l].todo # {} /\ loop[l].role = "task" /\ loop[l].cancelled
          /\ Go(l, "exit")
          /\ UNCHANGED qvars
       \/ /\ ~(loop[l].role = "task" /\ loop[l].cancelled)
          /\ \E c \in loop[l].todo, ans \in Receipts :
               /\ CancelAutomation(c, ans)
               /\ Become(l, [loop[l] EXCEPT !.todo = IF ans = "error" THEN @ ELSE @ \ {c}])
    /\ UNCHANGED <<config, handle, cleanup, cmd, host>>

\* claim_next_for_runner: the session's own active claim first.  An empty or
\* failed claim leaves the loop waiting for a wake-up.
ClaimNext(l) ==
    /\ TaskAt(l, "ready")
    /\ \/ /\ loop[l].cancelled
          /\ Go(l, "exit")
          /\ UNCHANGED qvars
       \/ /\ ~loop[l].cancelled
          /\ \E r \in Requirements :
               /\ \/ RecoverActiveClaim(Target(l), loop[l].tag, r)
                  \/ ClaimPending(Target(l), loop[l].tag, r)
               /\ Become(l, [loop[l] EXCEPT !.pc = "claimed",
                                            !.claim = [req |-> r, gen |-> row'[r].gen]])
    /\ UNCHANGED <<config, handle, cleanup, cmd, host>>

\* progress.set_current, after the claim has been committed
PublishClaim(l) ==
    /\ TaskAt(l, "claimed")
    /\ Become(l, [loop[l] EXCEPT !.pc = "prepare", !.shown = loop[l].claim])
    /\ UNCHANGED <<qvars, config, handle, cleanup, cmd, host>>

\* execute_requirement up to its admission: an execution the claim already
\* has is joined, any refusal is the turn's receipt.
Admit(l) ==
    LET c == loop[l].claim IN
    /\ TaskAt(l, "prepare")
    /\ \/ /\ AdmitExecution(c)
          /\ Go(l, "await")
       \/ /\ Exec(c) # "absent" /\ Target(l) \in live
          /\ Go(l, "await")
          /\ UNCHANGED qvars
       \/ /\ \/ MayFail
             \/ Target(l) \notin live
             \/ Exec(c) = "absent" /\ ~(AutoworkAdmitted(c) /\ ~LeadBusy(Target(l)))
          /\ \E e \in {"error"} \cup (IF Target(l) \in live THEN {} ELSE {"notfound"}) :
               Become(l, [loop[l] EXCEPT !.pc = "judge", !.receipt = e])
          /\ UNCHANGED qvars
    /\ UNCHANGED <<config, handle, cleanup, cmd, host>>

\* await_automation returns
AwaitReceipt(l) ==
    /\ TaskAt(l, "await")
    /\ \E e \in Receipts :
         /\ \/ Exec(loop[l].claim) \in Finished /\ e = ReceiptOf(loop[l].claim)
            \/ MayFail /\ e = "error"
         /\ Become(l, [loop[l] EXCEPT !.pc = "judge", !.receipt = e])
    /\ UNCHANGED <<qvars, config, handle, cleanup, cmd, host>>

\* The renewal tick of the same select: losing the claim ends the wait.
RenewTick(l) ==
    /\ TaskAt(l, "await")
    /\ \/ RenewLease(loop[l].claim) /\ UNCHANGED loop
       \/ /\ ~ExactClaim(loop[l].claim)
          /\ Become(l, [loop[l] EXCEPT !.pc = "judge", !.receipt = "error"])
          /\ UNCHANGED qvars
    /\ UNCHANGED <<config, handle, cleanup, cmd, host>>

\* The receipt is used only if the user has not cancelled this claim.  A cancelled row is absorbing, so the
\* re-read that follows in the code finds it cancelled as well.
JudgeReceipt(l) ==
    LET stands == ClaimStands(loop[l].claim, "cancelled") IN
    /\ TaskAt(l, "judge")
    /\ \/ stands /\ Go(l, "finish")
       \/ ~stands /\ Go(l, IF loop[l].receipt = "interrupted" THEN "pausefirst" ELSE "verdict")
       \/ MayFail /\ Become(l, [loop[l] EXCEPT !.pc = "reread", !.blocked = TRUE])
    /\ UNCHANGED <<qvars, config, handle, cleanup, cmd, host>>

-----------------------------------------------------------------------------
(* Settling a claim, by the task or by a keeper *)

Settled(l) == IF loop[l].role = "task" THEN "reread" ELSE "settled"
PausingReceipts(l) ==
    {"partial", "failed", "unknown", "cancelled"}
        \cup (IF loop[l].role = "task" THEN {"error"} ELSE {})

\* A failed verdict blocks the task; a keeper only logs it.
Accepted(l) ==
    Become(l, [loop[l] EXCEPT !.pc = IF loop[l].receipt \in PausingReceipts(l)
                                     THEN "pause" ELSE Settled(l),
                              !.blocked = @ \/ loop[l].receipt = "notfound"])
Refused(l) == Become(l, [loop[l] EXCEPT !.pc = Settled(l), !.blocked = TRUE])

\* pause_for_user_interrupt before the release, pause_for_execution_attention
\* after a verdict; a failed pause is only logged.
PauseForAttention(l) ==
    /\ loop[l].pc \in {"pausefirst", "pause"}
    /\ \/ PauseTag(loop[l].tag, loop[l].claim.req)
       \/ MayFail /\ UNCHANGED qvars
    /\ Go(l, IF loop[l].pc = "pausefirst" THEN "release" ELSE Settled(l))
    /\ UNCHANGED <<config, handle, cleanup, cmd, host>>

\* Faulty variant: the claim goes back to the queue whether or not it has run.
ReleaseByRequeue(l) ==
    LET c == loop[l].claim IN
    /\ loop[l].pc = "release"
    /\ \/ /\ ExactClaim(c)
          /\ row' = [row EXCEPT ![c.req] = Requeued(@)]
          /\ UNCHANGED <<paused, pausedBy, live, claims, runs>>
          /\ Go(l, Settled(l))
       \/ ~ExactClaim(c) /\ Go(l, "verdict") /\ UNCHANGED qvars
    /\ UNCHANGED <<config, handle, cleanup, cmd, host>>

\* resolve_interrupted_agent_execution_claim: what cannot be released is parked.
ReleaseClaim(l) ==
    LET c == loop[l].claim IN
    /\ loop[l].pc = "release"
    /\ \/ AbandonClaim(c) /\ Go(l, Settled(l))
       \/ AbandonAborted(c) /\ Go(l, "verdict")
       \/ (MayFail \/ ~ExactClaim(c)) /\ Go(l, "verdict") /\ UNCHANGED qvars
    /\ UNCHANGED <<config, handle, cleanup, cmd, host>>

\* resolve_claim_verdict_required: the exact write, ...
WriteVerdict(l) ==
    LET c == loop[l].claim IN
    /\ loop[l].pc = "verdict"
    /\ \/ ResolveClaim(c, VerdictOf(loop[l].receipt)) /\ Accepted(l)
       \/ ~ExactClaim(c) /\ Go(l, "confirm") /\ UNCHANGED qvars
       \/ MayFail /\ Refused(l) /\ UNCHANGED qvars
    /\ UNCHANGED <<config, handle, cleanup, cmd, host>>

\* ... and, when it matched no row, the proof that the same verdict stands.
ConfirmVerdict(l) ==
    LET stands == ClaimStands(loop[l].claim, VerdictOf(loop[l].receipt)) IN
    /\ loop[l].pc = "confirm"
    /\ \/ stands /\ Accepted(l)
       \/ (~stands \/ MayFail) /\ Refused(l)
    /\ UNCHANGED <<qvars, config, handle, cleanup, cmd, host>>

-----------------------------------------------------------------------------
(* The end of a turn and of the task *)

\* The next iteration: progress is cleared, and a blocked turn retires the loop.
TurnOver(l, p, n, retired) ==
    Become(l, [loop[l] EXCEPT !.pc = p, !.claim = NoClaim, !.shown = NoClaim,
                              !.receipt = "none", !.completed = n, !.blocked = FALSE,
                              !.cancelled = @ \/ retired])

\* Re-read the row: cancelled wins over everything, done counts.
TurnEnds(l) ==
    LET done == row[loop[l].claim.req].status = "done" /\ loop[l].max # 0
        n == loop[l].completed + 1 IN
    /\ TaskAt(l, "reread")
    /\ \/ /\ row[loop[l].claim.req].status = "cancelled"
          /\ Become(l, [loop[l] EXCEPT !.pc = "finish", !.blocked = FALSE])
       \/ /\ row[loop[l].claim.req].status # "cancelled"
          /\ IF done
             THEN TurnOver(l, IF n >= loop[l].max THEN "cap" ELSE "ready", n,
                           loop[l].blocked /\ n < loop[l].max)
             ELSE TurnOver(l, "ready", loop[l].completed, loop[l].blocked)
       \/ MayFail /\ TurnOver(l, "ready", loop[l].completed, loop[l].blocked)
    /\ UNCHANGED <<qvars, config, handle, cleanup, cmd, host>>

\* finish_current_cancelled_claim: retried until the execution owner answers.
FinishCancelled(l) ==
    /\ TaskAt(l, "finish")
    /\ \/ /\ loop[l].cancelled
          /\ Go(l, "exit")
          /\ UNCHANGED qvars
       \/ /\ ~loop[l].cancelled
          /\ \E ans \in Receipts :
               /\ CancelAutomation(loop[l].claim, ans)
               /\ IF ans = "error" THEN UNCHANGED loop
                  ELSE TurnOver(l, "ready", loop[l].completed, FALSE)
    /\ UNCHANGED <<config, handle, cleanup, cmd, host>>

\* Faulty variant: a write of the same config draws a new revision.
CommittedAlwaysBumps(old, t, m) == [tag |-> t, max |-> m, rev |-> old.rev + 1]

\* commit_automation_config: an unchanged config keeps its revision.
Committed(old, t, m) ==
    IF old.tag = t /\ old.max = m THEN old ELSE [tag |-> t, max |-> m, rev |-> old.rev + 1]
MayCommit(s, rev) == s \in live /\ config[s].rev = rev
Disabled(s) == Committed(config[s], None, 0)

\* persist_maximum_completion_disable: under the transition lock, and only
\* over the very config this loop was started with.
CapReached(l) ==
    LET s == Target(l) IN
    /\ TaskAt(l, "cap")
    /\ Unlocked(s)
    /\ \/ MayCommit(s, loop[l].rev) /\ config' = [config EXCEPT ![s] = Disabled(s)]
       \/ (~MayCommit(s, loop[l].rev) \/ ConfigFails) /\ UNCHANGED config
    /\ Become(l, [loop[l] EXCEPT !.pc = "exit", !.cancelled = TRUE])
    /\ UNCHANGED <<qvars, handle, cleanup, cmd, host>>

\* What is left of a task, and the cancellation it may have been waiting for,
\* which AgentExecution carries on by itself.
Remains(l, spawned) ==
    [NoLoop EXCEPT !.pc = "gone", !.target = Target(l), !.tag = loop[l].tag,
                   !.shown = loop[l].shown, !.handoff = loop[l].handoff, !.custodian = spawned]
UnderWay(l) ==
    {{}} \cup (IF loop[l].pc = "finish" THEN {{loop[l].claim}} ELSE {})
         \cup (IF loop[l].pc = "purge" THEN {{c} : c \in loop[l].todo} ELSE {})

\* Faulty variant: the handle goes at once, also when a custodian was spawned.
DropTaskAndHandle(l) ==
    /\ Become(l, Remains(l, ~loop[l].handoff))
    /\ handle' = IF handle[Target(l)] = l THEN [handle EXCEPT ![Target(l)] = None] ELSE handle
    /\ UNCHANGED <<qvars, config, cleanup, cmd, host>>

\* HandleGuard::drop: without a handoff a custodian is spawned and the handle
\* stays.
DropTask(l) ==
    /\ Become(l, Remains(l, ~loop[l].handoff))
    /\ handle' = IF loop[l].handoff /\ handle[Target(l)] = l
                 THEN [handle EXCEPT ![Target(l)] = None] ELSE handle
    /\ \E more \in UnderWay(l) : host' = [host EXCEPT !.stops = @ \cup more]
    /\ UNCHANGED <<qvars, config, cleanup, cmd>>

TaskReturns(l) == TaskAt(l, "exit") /\ DropTask(l)
AbortLands(l) == TaskRunning(l) /\ loop[l].handoff /\ DropTask(l)
TaskPanics(l) == May("panic") /\ TaskRunning(l) /\ loop[l].pc # "born" /\ DropTask(l)

-----------------------------------------------------------------------------
(* The keepers *)

\* A slot is free again when nobody refers to its instance any more.
Leave(l, owners, c, waiting) ==
    Become(l, IF owners[Target(l)] = l \/ c[Target(l)].loop = l \/ waiting
              THEN Remains(l, waiting) ELSE NoLoop)

\* The custodian gets the barrier; a handoff leaves the claim to the stopper.
CustodianBegins(l) ==
    LET s == Target(l) IN
    /\ loop[l].pc = "gone" /\ loop[l].custodian
    /\ \/ /\ loop[l].handoff
          /\ handle' = IF handle[s] = l THEN [handle EXCEPT ![s] = None] ELSE handle
          /\ Leave(l, cleanup, cmd, FALSE)
       \/ /\ ~loop[l].handoff
          /\ Become(l, [loop[l] EXCEPT !.pc = "scan", !.role = "custodian", !.custodian = FALSE])
          /\ UNCHANGED handle
    /\ UNCHANGED <<qvars, config, cleanup, cmd, host>>

\* cleanup_stopped_handle has joined the task and holds the barrier.
CleanupBegins(l) ==
    /\ loop[l].pc = "gone" /\ cleanup[Target(l)] = l
    /\ Become(l, [loop[l] EXCEPT !.pc = "recover", !.role = "cleanup"])
    /\ UNCHANGED <<qvars, config, handle, cleanup, cmd, host>>

\* Faulty variant: the cleanup owner settles what the task had published even
\* when it had published nothing.
KeeperRecoversBlindly(l) ==
    /\ loop[l].pc = "recover"
    /\ \/ \E r \in Requirements :
            /\ RecoverActiveClaim(Target(l), loop[l].tag, r)
            /\ Become(l, [loop[l] EXCEPT !.pc = "cancel",
                                         !.claim = [req |-> r, gen |-> row[r].gen]])
       \/ /\ Recoverable(Target(l), loop[l].tag) = {}
          /\ Become(l, [loop[l] EXCEPT !.pc = "cancel", !.claim = loop[l].shown])
          /\ UNCHANGED qvars
    /\ UNCHANGED <<config, handle, cleanup, cmd, host>>

\* recover_active_claim_for_runner; the cleanup owner falls back on what the
\* task had published.
KeeperRecovers(l) ==
    LET s == Target(l)
        kept == IF loop[l].role = "cleanup" THEN loop[l].shown ELSE NoClaim IN
    /\ loop[l].pc = "recover"
    /\ \/ \E r \in Requirements :
            /\ RecoverActiveClaim(s, loop[l].tag, r)
            /\ Become(l, [loop[l] EXCEPT !.pc = "cancel",
                                         !.claim = [req |-> r, gen |-> row[r].gen]])
       \/ /\ MayFail \/ s \notin live \/ Recoverable(s, loop[l].tag) = {}
          /\ Become(l, [loop[l] EXCEPT !.pc = IF kept = NoClaim THEN "settled" ELSE "cancel",
                                       !.claim = kept])
          /\ UNCHANGED qvars
    /\ UNCHANGED <<config, handle, cleanup, cmd, host>>

\* settle_stopped_agent_execution_claim: cancel, then release or project.
KeeperCancels(l) ==
    /\ loop[l].pc = "cancel"
    /\ \E ans \in Receipts :
         /\ CancelAutomation(loop[l].claim, ans)
         /\ Become(l, [loop[l] EXCEPT !.receipt = ans,
                         !.pc = IF ans \in {"none", "interrupted"} THEN "release" ELSE "verdict"])
    /\ UNCHANGED <<config, handle, cleanup, cmd, host>>

\* Faulty variant: the custodian leaves the handle of the dead loop installed.
KeeperEndsKeepingHandle(l) ==
    LET s == Target(l) IN
    /\ loop[l].pc = "settled"
    /\ \/ loop[l].role = "custodian" /\ UNCHANGED cleanup
       \/ loop[l].role = "cleanup" /\ cleanup' = [cleanup EXCEPT ![s] = None]
    /\ Become(l, Remains(l, FALSE))
    /\ UNCHANGED <<qvars, config, handle, cmd, host>>

\* The custodian removes the handle it kept installed; the cleanup owner
\* publishes its completion.
KeeperEnds(l) ==
    LET s == Target(l) IN
    /\ loop[l].pc = "settled"
    /\ \/ /\ loop[l].role = "custodian"
          /\ handle' = IF handle[s] = l THEN [handle EXCEPT ![s] = None] ELSE handle
          /\ UNCHANGED cleanup
       \/ /\ loop[l].role = "cleanup"
          /\ cleanup' = [cleanup EXCEPT ![s] = None]
          /\ UNCHANGED handle
    /\ Leave(l, cleanup', cmd, loop[l].custodian)
    /\ UNCHANGED <<qvars, config, cmd, host>>

-----------------------------------------------------------------------------
(* Commands, each holding the transition lock of its session *)

Step(s, p) == cmd' = [cmd EXCEPT ![s].pc = p]
End(s) == cmd' = [cmd EXCEPT ![s] = NoCmd]

\* running_config_matches
RunningMatches(s, t, m) ==
    LET l == handle[s] IN
    /\ l # None
    /\ TaskRunning(l) /\ ~loop[l].cancelled
    /\ loop[l].tag = t /\ loop[l].max = m

\* apply_config: a changed binding quiesces the old loop before it is saved.
ApplyConfig(s, t, m) ==
    /\ Unlocked(s) /\ s \in live
    /\ cmd' = [cmd EXCEPT ![s] =
                 [NoCmd EXCEPT !.tag = t, !.max = m, !.rev = config[s].rev, !.next = "save",
                               !.request = TRUE,
                               !.pc = IF t # None /\ ~RunningMatches(s, t, m)
                                      THEN "quiesce" ELSE "save"]]
    /\ UNCHANGED <<qvars, config, loop, handle, cleanup, host>>

\* Faulty variant: the task is asked to stop, but not aborted.
TakeHandlePolitely(s) ==
    /\ handle' = [handle EXCEPT ![s] = None]
    /\ loop' = [loop EXCEPT ![handle[s]].cancelled = TRUE]

\* Take the handle from its loop and abort the task.
TakeHandle(s) ==
    /\ handle' = [handle EXCEPT ![s] = None]
    /\ loop' = [loop EXCEPT ![handle[s]].cancelled = TRUE, ![handle[s]].handoff = TRUE]

\* Faulty variant: the stop does not wait for an earlier cleanup, and does not
\* appoint a cleanup owner.
QuiesceCarelessly(s) ==
    /\ cmd[s].pc = "quiesce"
    /\ \/ handle[s] = None /\ UNCHANGED <<handle, loop>>
       \/ handle[s] # None /\ TakeHandle(s)
    /\ Step(s, cmd[s].next)
    /\ UNCHANGED <<qvars, config, cleanup, host>>

\* stop_locked: with no cleanup left, take the handle and appoint its owner.
Quiesce(s) ==
    /\ cmd[s].pc = "quiesce"
    /\ cleanup[s] = None
    /\ \/ /\ handle[s] = None
          /\ IF cmd[s].next = "idle" THEN End(s) ELSE Step(s, cmd[s].next)
          /\ UNCHANGED <<loop, handle, cleanup>>
       \/ /\ handle[s] # None
          /\ TakeHandle(s)
          /\ cleanup' = [cleanup EXCEPT ![s] = handle[s]]
          /\ Step(s, "joining")
    /\ UNCHANGED <<qvars, config, host>>

\* The cleanup owner has completed within the wait.
CleanupJoined(s) ==
    /\ cmd[s].pc = "joining"
    /\ cleanup[s] = None
    /\ IF cmd[s].next = "idle" THEN End(s) ELSE Step(s, cmd[s].next)
    /\ UNCHANGED <<qvars, config, loop, handle, cleanup, host>>

\* STOP_WAIT_TIMEOUT or SHUTDOWN_WAIT_TIMEOUT: the waiter gives up, the
\* cleanup goes on.  Only a failed start is rolled back.
WaitTimesOut(s) ==
    /\ May("timeout")
    /\ cmd[s].pc \in {"quiesce", "joining", "start", "wait"} /\ cleanup[s] # None
    /\ Step(s, IF cmd[s].pc = "start" \/ (cmd[s].pc # "wait" /\ cmd[s].next = "publish")
               THEN "rollback" ELSE "failed")
    /\ UNCHANGED <<qvars, config, loop, handle, cleanup, host>>

\* The history of disables that ended between their commit and their stop.
CutShort(s, yes) == host' = [host EXCEPT !.cut = IF yes THEN @ \cup {s} ELSE @]

\* save_autowork_config and the re-read of what was persisted
SaveConfig(s) ==
    LET c == cmd[s]
        new == Committed(config[s], c.tag, c.max) IN
    /\ c.pc = "save"
    /\ \/ /\ MayCommit(s, c.rev)
          /\ config' = [config EXCEPT ![s] = new]
          /\ \/ /\ cmd' = [cmd EXCEPT ![s].rev = new.rev,
                                      ![s].pc = IF c.tag = None THEN "quiesce" ELSE "resume",
                                      ![s].next = "idle"]
                /\ UNCHANGED host
             \/ /\ ConfigFails
                /\ Step(s, "failed")
                /\ CutShort(s, c.tag = None)
       \/ /\ ~MayCommit(s, c.rev) \/ ConfigFails
          /\ Step(s, "failed")
          /\ UNCHANGED <<config, host>>
    /\ UNCHANGED <<qvars, loop, handle, cleanup>>

\* resume_tag_for_enable
ResumeForEnable(s) ==
    /\ cmd[s].pc = "resume"
    /\ \/ ResumeTagForEnable(cmd[s].tag) /\ Step(s, "start")
       \/ ~paused[cmd[s].tag] /\ UNCHANGED qvars /\ Step(s, "start")
       \/ ConfigFails /\ UNCHANGED qvars /\ Step(s, "rollback")
    /\ UNCHANGED <<config, loop, handle, cleanup, host>>

\* start_snapshot_locked: nothing to do, or a loop that no longer fits to stop.
StartFound(s) ==
    /\ cmd[s].pc = "start"
    /\ cleanup[s] = None
    /\ handle[s] # None
    /\ IF RunningMatches(s, cmd[s].tag, cmd[s].max)
       THEN End(s)
       ELSE cmd' = [cmd EXCEPT ![s].pc = "quiesce", ![s].next = "publish"]
    /\ UNCHANGED <<qvars, config, loop, handle, cleanup, host>>

\* Its end: spawn the loop and publish the handle.
FreeLoops == {l \in Loops : loop[l].pc = "free"}
LaunchLoop(s) ==
    LET l == CHOOSE x \in FreeLoops : TRUE IN
    /\ \/ cmd[s].pc = "start" /\ cleanup[s] = None
       \/ cmd[s].pc = "publish"
    /\ handle[s] = None
    /\ FreeLoops # {}
    /\ Become(l, [NoLoop EXCEPT !.pc = "born", !.target = s, !.tag = cmd[s].tag,
                                !.max = cmd[s].max, !.rev = cmd[s].rev])
    /\ handle' = [handle EXCEPT ![s] = l]
    /\ End(s)
    /\ host' = [host EXCEPT !.cut = @ \ {s}]
    /\ UNCHANGED <<qvars, config, cleanup>>

\* rollback_failed_enable_locked
RollBack(s) ==
    /\ cmd[s].pc = "rollback"
    /\ \/ MayCommit(s, cmd[s].rev) /\ config' = [config EXCEPT ![s] = Disabled(s)]
       \/ (~MayCommit(s, cmd[s].rev) \/ ConfigFails) /\ UNCHANGED config
    /\ cmd' = [cmd EXCEPT ![s].pc = "quiesce", ![s].next = "failed"]
    /\ UNCHANGED <<qvars, loop, handle, cleanup, host>>

\* The error reaches the caller and the lock is released.
ReplyError(s) ==
    /\ cmd[s].pc = "failed"
    /\ End(s)
    /\ UNCHANGED <<qvars, config, loop, handle, cleanup, host>>

\* The client of apply_config goes away: its handler awaits the command itself,
\* so the command ends at the await it has reached and gives up the lock.  The
\* cleanup owner it may have appointed, and the loop it may have published, are
\* tasks of their own and stay.
RequestDropped(s) ==
    /\ May("drop")
    /\ cmd[s].request
    /\ End(s)
    /\ CutShort(s, cmd[s].pc = "quiesce" /\ cmd[s].next \in {"idle", "failed"})
    /\ UNCHANGED <<qvars, config, loop, handle, cleanup>>

\* stop_for_session_delete, after the delete fence; a failed one may be repeated.
DeleteBegins(s) ==
    /\ May("delete")
    /\ Unlocked(s) /\ s \notin live
    /\ cmd' = [cmd EXCEPT ![s] = [NoCmd EXCEPT !.pc = "wait"]]
    /\ UNCHANGED <<qvars, config, loop, handle, cleanup, host>>

DeleteTakes(s) ==
    /\ cmd[s].pc = "wait"
    /\ cleanup[s] = None
    /\ \/ handle[s] = None /\ Step(s, "park") /\ UNCHANGED <<loop, handle>>
       \/ /\ handle[s] # None
          /\ TakeHandle(s)
          /\ cmd' = [cmd EXCEPT ![s].pc = "join", ![s].loop = handle[s]]
    /\ UNCHANGED <<qvars, config, cleanup, host>>

\* The task is joined without a time limit, its custodian only with one.
DeleteJoins(s) ==
    LET l == cmd[s].loop
        c(p) == [cmd EXCEPT ![s].pc = p, ![s].loop = None] IN
    /\ cmd[s].pc = "join"
    /\ \/ /\ loop[l].pc = "gone"
          /\ cmd' = c("park")
          /\ Leave(l, cleanup, cmd', loop[l].custodian)
       \/ /\ May("timeout") /\ loop[l].role = "custodian"
          /\ cmd' = c("failed")
          /\ UNCHANGED loop
    /\ UNCHANGED <<qvars, config, handle, cleanup, host>>

\* Faulty variant: only the claims parked by this call are cancelled.
DeleteParksActiveOnly(s) ==
    /\ cmd[s].pc = "park"
    /\ DetachOwner(s)
    /\ cmd' = [cmd EXCEPT ![s].pc = "cancel",
                          ![s].todo = {c \in Issued : ExactClaim(c) /\ row[c.req].owner = s}]
    /\ UNCHANGED <<config, loop, handle, cleanup, host>>

\* park_owner_for_session_delete, and the sources it returns
DeleteParks(s) ==
    /\ cmd[s].pc = "park"
    /\ \/ /\ DetachOwner(s)
          /\ cmd' = [cmd EXCEPT ![s].pc = "cancel",
                ![s].todo = {c \in Issued : /\ row[c.req].owner = s /\ row[c.req].gen = c.gen
                                            /\ row'[c.req].status = "needs_review"}]
       \/ MayFail /\ Step(s, "failed") /\ UNCHANGED qvars
    /\ UNCHANGED <<config, loop, handle, cleanup, host>>

DeleteCancels(s) ==
    /\ cmd[s].pc = "cancel"
    /\ \/ cmd[s].todo = {} /\ End(s) /\ UNCHANGED qvars
       \/ \E c \in cmd[s].todo, ans \in Receipts :
            /\ CancelAutomation(c, ans)
            /\ IF ans = "error" THEN Step(s, "failed")
               ELSE cmd' = [cmd EXCEPT ![s].todo = @ \ {c}]
    /\ UNCHANGED <<config, loop, handle, cleanup, host>>

-----------------------------------------------------------------------------
(* The host: sweeper, current-claim stop, crash, boot *)

\* The sweeper collects the sessions with a handle, then sweeps the others.
SweeperCollects ==
    /\ ~host.sweeping
    /\ host' = [host EXCEPT !.sweeping = TRUE,
                            !.seen = {s \in Sessions : handle[s] # None}]
    /\ UNCHANGED <<qvars, config, loop, handle, cleanup, cmd>>
SweeperSweeps ==
    /\ host.sweeping
    /\ \/ SweepExpiredLeases(host.seen)
       \/ MayFail /\ UNCHANGED qvars
    /\ host' = [host EXCEPT !.sweeping = FALSE, !.seen = {}]
    /\ UNCHANGED <<config, loop, handle, cleanup, cmd>>

\* stop_current_claim takes no lock: the exact cancellation, ...
StopCurrentClaim(c) ==
    /\ May("stop")
    /\ \/ ResolveClaim(c, "cancelled")
       \/ ClaimStands(c, "cancelled") /\ UNCHANGED qvars
    /\ host' = [host EXCEPT !.stops = @ \cup {c}]
    /\ UNCHANGED <<config, loop, handle, cleanup, cmd>>

\* ... then one attempt to cancel the execution.
CancellationEnds(c) ==
    /\ c \in host.stops
    /\ \E ans \in Receipts : CancelAutomation(c, ans)
    /\ host' = [host EXCEPT !.stops = @ \ {c}]
    /\ UNCHANGED <<config, loop, handle, cleanup, cmd>>

\* The process dies and starts again: list_enabled_autowork_bindings and the
\* unfinished executions are read, everything else in memory is lost.
Crash ==
    /\ host.crashes < MaxCrashes
    /\ loop' = [l \in Loops |-> NoLoop]
    /\ handle' = [s \in Sessions |-> None]
    /\ cleanup' = [s \in Sessions |-> None]
    /\ cmd' = [s \in Sessions |-> NoCmd]
    /\ host' = [sweeping |-> FALSE, seen |-> {}, stops |-> {}, crashes |-> host.crashes + 1, cut |-> {},
                resume |-> [s \in Sessions |-> IF config[s].tag # None /\ s \in live
                                               THEN config[s].rev ELSE 0],
                recover |-> {c \in Issued : Exec(c) = "active"}]
    /\ UNCHANGED <<qvars, config>>

\* resume_binding_if_current: a binding that changed, or that cannot be read
\* again, is left alone; one whose session cannot be validated is rolled back.
ResumeBinding(s) ==
    LET current == config[s].tag # None /\ config[s].rev = host.resume[s] /\ s \in live IN
    /\ host.resume[s] # 0
    /\ Unlocked(s)
    /\ host' = [host EXCEPT !.resume[s] = 0]
    /\ \/ (~current \/ ConfigFails) /\ UNCHANGED cmd
       \/ \E p \in {"start"} \cup (IF ConfigFails THEN {"rollback"} ELSE {}) :
            /\ current
            /\ cmd' = [cmd EXCEPT ![s] =
                         [NoCmd EXCEPT !.pc = p, !.tag = config[s].tag, !.max = config[s].max,
                                       !.rev = config[s].rev]]
    /\ UNCHANGED <<qvars, config, loop, handle, cleanup>>

\* Faulty variant: recovery resumes every execution.
RecoverIgnoringStop(c) ==
    /\ c \in host.recover
    /\ host' = [host EXCEPT !.recover = @ \ {c}]
    /\ UNCHANGED <<qvars, config, loop, handle, cleanup, cmd>>

\* AgentExecutionEngine::recover: an execution whose source the user has
\* cancelled is cancelled, the others go on.
RecoverExecution(c) ==
    /\ c \in host.recover
    /\ \/ ClaimStands(c, "cancelled") /\ CancelExecution(c)
       \/ /\ MayFail \/ ~ClaimStands(c, "cancelled") \/ Exec(c) # "active"
          /\ UNCHANGED qvars
    /\ host' = [host EXCEPT !.recover = @ \ {c}]
    /\ UNCHANGED <<config, loop, handle, cleanup, cmd>>

\* set_status_for_agent_session: the agent at work declares its own claim.
AgentDeclares(c, v) ==
    /\ May("declare")
    /\ ResolveClaim(c, v)
    /\ UNCHANGED pvars

\* Time, executions and users act on the queue behind the runner's back.
QueueEnvironment ==
    /\ \/ \E r \in Requirements :
            \/ LeaseExpires(r)
            \/ \E t \in Tags, k \in SortKeys : Create(r, t, k, "pending")
            \/ May("requeue") /\ Requeue(r)
            \/ May("retag") /\ \E t \in Tags, k \in SortKeys : UpdateMetadata(r, t, k)
            \/ May("remove") /\ Delete(r)
       \/ \E c \in Issued : AdmitAttempt(c) \/ \E o \in Outcomes : SettleExecution(c, o)
       \/ May("resume") /\ \E t \in Tags : paused[t] /\ ResumeTag(t, {})
       \/ May("delete") /\ \E s \in Sessions : RetireSession(s)
    /\ UNCHANGED pvars

-----------------------------------------------------------------------------
LoopStep(l) ==
    \/ LoopBegins(l) \/ ListCancelled(l) \/ PurgeCancelled(l) \/ ClaimNext(l)
    \/ PublishClaim(l) \/ Admit(l) \/ AwaitReceipt(l) \/ RenewTick(l) \/ JudgeReceipt(l)
    \/ PauseForAttention(l) \/ ReleaseClaim(l) \/ WriteVerdict(l) \/ ConfirmVerdict(l)
    \/ TurnEnds(l) \/ FinishCancelled(l) \/ CapReached(l) \/ TaskReturns(l) \/ AbortLands(l)
    \/ CustodianBegins(l) \/ CleanupBegins(l) \/ KeeperRecovers(l) \/ KeeperCancels(l)
    \/ KeeperEnds(l)

CommandStep(s) ==
    \/ Quiesce(s) \/ CleanupJoined(s) \/ WaitTimesOut(s) \/ SaveConfig(s) \/ ResumeForEnable(s)
    \/ StartFound(s) \/ LaunchLoop(s) \/ RollBack(s) \/ ReplyError(s)
    \/ DeleteTakes(s) \/ DeleteJoins(s) \/ DeleteParks(s) \/ DeleteCancels(s)

HostStep ==
    \/ SweeperCollects \/ SweeperSweeps
    \/ \E c \in Claims : CancellationEnds(c) \/ RecoverExecution(c)
    \/ \E s \in Sessions : ResumeBinding(s)

UserStep ==
    \/ \E s \in Sessions :
        \/ /\ config[s].rev < MaxRevision
           /\ \/ May("enable") /\ \E t \in Tags, m \in Caps : ApplyConfig(s, t, m)
              \/ May("disable") /\ ApplyConfig(s, None, 0)
        \/ RequestDropped(s)
        \/ DeleteBegins(s)
    \/ \E c \in Issued : StopCurrentClaim(c) \/ \E v \in Verdicts : AgentDeclares(c, v)

RunnerNext ==
    \/ \E l \in Loops : LoopStep(l) \/ TaskPanics(l)
    \/ \E s \in Sessions : CommandStep(s)
    \/ HostStep
    \/ UserStep
    \/ QueueEnvironment
    \/ Crash

RunnerSpec == RunnerInit /\ [][RunnerNext]_rvars

(***************************************************************************)
(* Fairness.  A spawned task is polled until it ends, an abort lands at    *)
(* the next await, and the select in execute_requirement is not biased, so *)
(* that renewals cannot starve the receipt.  Commands and coordinators run *)
(* on.  A lease nobody renews runs out, and the sweeper ticks every        *)
(* minute.  Users, executions, panics, crashes and dropped requests are    *)
(* under no obligation.                                                    *)
(***************************************************************************)
RunnerFairness ==
    /\ \A l \in Loops : /\ WF_rvars(LoopStep(l))
                        /\ WF_rvars(AwaitReceipt(l))
                        /\ WF_rvars(AbortLands(l))
    /\ \A s \in Sessions : WF_rvars(CommandStep(s)) /\ WF_rvars(ResumeBinding(s))
    /\ \A c \in Claims : WF_rvars(CancellationEnds(c)) /\ WF_rvars(RecoverExecution(c))
    /\ \A r \in Requirements : WF_rvars(LeaseExpires(r) /\ UNCHANGED pvars)
    /\ WF_rvars(SweeperCollects) /\ WF_rvars(SweeperSweeps)

FairRunnerSpec == RunnerSpec /\ RunnerFairness

-----------------------------------------------------------------------------
(* Properties *)

HostRecords ==
    [sweeping : BOOLEAN, seen : SUBSET Sessions, resume : [Sessions -> Nat],
     recover : SUBSET Claims, stops : SUBSET Claims, crashes : Nat, cut : SUBSET Sessions]

\* The steps at which a task or keeper is working on a claim.
ClaimPcs == {"claimed", "prepare", "await", "judge", "pausefirst", "release", "verdict",
             "confirm", "pause", "reread", "finish", "cancel"}

\* Whoever works in a slot is at a step of its own code, for a session and a tag.
SlotWellFormed(w) ==
    /\ w.pc \in {"free", "gone"} \cup (IF w.role = "task" THEN TaskPcs ELSE KeeperPcs)
    /\ w.pc # "free" => w.target \in Sessions /\ w.tag \in Tags

\* Every claim a slot keeps is one of those issued.
SlotHolds(w, issued) ==
    /\ w.pc \in ClaimPcs => w.claim \in issued
    /\ w.shown # NoClaim => w.shown \in issued
    /\ w.todo \subseteq issued

\* A command that is to start a loop knows its tag, and the delete of a session
\* is not at the mercy of a request.
CommandWellFormed(c) ==
    /\ (\/ c.pc \in {"resume", "start", "publish", "rollback"}
        \/ c.pc \in {"quiesce", "joining"} /\ c.next = "publish") => c.tag \in Tags
    /\ c.pc \in {"idle", "wait", "join", "park", "cancel"} => ~c.request

\* Every variable of the runner has its type; whoever works in a slot is at a
\* step of its own code (run_loop, or settle_stopped_agent_execution_claim for a
\* keeper); and whatever it settles, cancels or publishes is a claim the queue
\* really issued, also after a recovery that found none.
RunnerTypeOK ==
    /\ config \in [Sessions -> Configs]
    /\ loop \in [Loops -> LoopRecords]
    /\ handle \in [Sessions -> Loops \cup {None}]
    /\ cleanup \in [Sessions -> Loops \cup {None}]
    /\ cmd \in [Sessions -> CmdRecords]
    /\ host \in HostRecords
    /\ \A l \in Loops : SlotWellFormed(loop[l]) /\ SlotHolds(loop[l], Issued)
    /\ \A s \in Sessions : CommandWellFormed(cmd[s]) /\ cmd[s].todo \subseteq Issued
    /\ host.recover \subseteq Issued /\ host.stops \subseteq Issued

\* The task, its custodian or its cleanup owner still has something to do; a
\* custodian that finds the handoff has not.
Unfinished(l) ==
    \/ loop[l].pc \notin {"free", "gone"}
    \/ loop[l].custodian /\ ~loop[l].handoff
    \/ loop[l].pc = "gone" /\ cleanup[Target(l)] = l
\* A session never has two loop instances with unfinished business: neither a
\* stop that timed out, a loop that dropped by itself, a reconfiguration nor a
\* restart lets a new loop begin before the task, the custodian and the
\* cleanup owner of the old one have ended.
OneWorkerPerTarget ==
    \A l, m \in Loops : (Unfinished(l) /\ Unfinished(m) /\ Target(l) = Target(m)) => l = m

\* Whenever no command is under way, a loop that can still claim serves the
\* persisted config down to its revision: a disabled or changed binding has no
\* loop, and the completion cap of the loop can still be persisted.  The one
\* exception is a loop whose disable (or rollback) was committed and then ended
\* before it stopped the loop, because the re-read failed or the request was
\* dropped: such a loop may outlive its binding, but even then it never serves
\* another tag or maximum than an enabled config has.
RunningMatchesConfig ==
    \A s \in Sessions :
        (Unlocked(s) /\ handle[s] # None) =>
            LET l == handle[s] IN
            (TaskRunning(l) /\ ~loop[l].cancelled) =>
                /\ config[s].tag # None => config[s].tag = loop[l].tag /\ config[s].max = loop[l].max
                /\ s \notin host.cut =>
                      config[s] = [tag |-> loop[l].tag, max |-> loop[l].max, rev |-> loop[l].rev]

\* No runner reports a result its execution did not have: an active claim turns
\* done or failed only with a completed or failed execution of that very
\* generation, unless the working agent itself declared it.
VerdictMatchesExecution ==
    [][\A c \in Issued :
         (ExactClaim(c) /\ ~\E v \in Verdicts : AgentDeclares(c, v)) =>
             /\ row'[c.req].status = "done" => Exec(c) = "completed"
             /\ row'[c.req].status = "failed" => Exec(c) = "failed"]_rvars

\* When the delete of a session reports success, no loop task of it is left, it
\* owns no active claim, and no claim that was parked for it, now or earlier,
\* still has a running execution.  (A delete repeated after its barrier timed
\* out may still leave a custodian behind, which has nothing left to settle.)
DeleteLeavesNothingRunning ==
    [][\A s \in Sessions :
         (cmd[s].pc = "cancel" /\ cmd'[s].pc = "idle" /\ host'.crashes = host.crashes) =>
             /\ \A l \in Loops : TaskRunning(l) => Target(l) # s
             /\ ActiveClaims(s) = {}
             /\ \A c \in Issued :
                  Holder(c) = s /\ ClaimStands(c, "needs_review") => Exec(c) # "active"]_rvars

\* A claim whose execution is not running (not admitted yet, or ended) does not
\* stay in progress: a loop settles it, a keeper settles it, or its lease runs
\* out and the sweeper parks it, whatever stop, disable or crash intervenes.
ClaimNeverStuck ==
    \A c \in Claims :
        (ExactClaim(c) /\ Exec(c) # "active") ~> (~ExactClaim(c) \/ Exec(c) = "active")

\* The execution of a claim the user stopped comes to an end, also when the
\* process dies between the two halves of the stop.
StoppedExecutionEnds ==
    \A c \in Claims :
        (ClaimStands(c, "cancelled") /\ Exec(c) = "active")
            ~> ~(ClaimStands(c, "cancelled") /\ Exec(c) = "active")

\* Every cleanup owner completes, although it waits for a task that may itself
\* wait for the transition lock the stopping command holds.
CleanupCompletes == \A s \in Sessions : (cleanup[s] # None) ~> (cleanup[s] = None)

\* A bound session picks up the work of its tag: a pending requirement does not
\* wait forever for a loop that serves its tag and has no execution to await
\* (as long as MaxGeneration leaves it a claim).
KeepsClaiming ==
    \A s \in Sessions, r \in Requirements :
        LET Serves == handle[s] # None /\ loop[handle[s]].tag = row[r].tag
            Waits == /\ row[r].status = "pending" /\ row[r].gen < MaxGeneration
                     /\ Serves /\ ~paused[row[r].tag] /\ ~LeadBusy(s)
        IN Waits ~> ~Waits

\* No session claims further work while an execution the user stopped is alive
\* (comment of finish_current_cancelled_claim).
NoSuccessorWhileStoppedLives ==
    [][\A r \in Requirements, c \in Issued :
         (row[r].status = "pending" /\ row'[r].status = "in_progress"
            /\ row'[r].owner = Holder(c))
         => ~(ClaimStands(c, "cancelled") /\ Exec(c) = "active")]_rvars
=============================================================================

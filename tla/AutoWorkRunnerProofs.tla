------------------------- MODULE AutoWorkRunnerProofs -------------------------
(***************************************************************************)
(* The runner implements the queue: every step of a loop, keeper, command, *)
(* coordinator or restart is a statement of RequirementQueue, presented    *)
(* with a capability that was really issued, or leaves the queue alone.    *)
(* Everything proved of the queue then holds of the queue with its runner. *)
(***************************************************************************)
EXTENDS AutoWorkRunner, RequirementQueueProofs

GoodSlot(w, issued) == w \in LoopRecords /\ SlotWellFormed(w) /\ SlotHolds(w, issued)
GoodCommand(c, issued) == c \in CmdRecords /\ CommandWellFormed(c) /\ c.todo \subseteq issued
GoodHost(h, issued) == h \in HostRecords /\ h.recover \subseteq issued /\ h.stops \subseteq issued

RunnerInv == QueueInv /\ RunnerTypeOK

\* The runner's invariant, slot by slot and command by command.
GoodSlots(issued) == loop \in [Loops -> LoopRecords] /\ \A l \in Loops : GoodSlot(loop[l], issued)
GoodCommands(issued) == cmd \in [Sessions -> CmdRecords] /\ \A s \in Sessions : GoodCommand(cmd[s], issued)
GoodRefs ==
    /\ config \in [Sessions -> Configs]
    /\ handle \in [Sessions -> Loops \cup {None}]
    /\ cleanup \in [Sessions -> Loops \cup {None}]

\* RunnerTypeOK is the conjunction of its parts, ...
LEMMA Apart ==
    RunnerTypeOK <=> GoodRefs /\ GoodSlots(Issued) /\ GoodCommands(Issued) /\ GoodHost(host, Issued)
BY DEF RunnerTypeOK, GoodRefs, GoodSlots, GoodCommands, GoodHost, GoodSlot, GoodCommand

\* ... before and after a step.
LEMMA ApartNext ==
    RunnerTypeOK' <=> GoodRefs' /\ GoodSlots(Issued)' /\ GoodCommands(Issued)' /\ GoodHost(host, Issued)'
BY DEF RunnerTypeOK, GoodRefs, GoodSlots, GoodCommands, GoodHost, GoodSlot, GoodCommand

\* A capability stays issued.
LEMMA IssuedGrows == TypeOK /\ [Next]_qvars => Issued \subseteq Issued'
<1> SUFFICES ASSUME TypeOK, [Next]_qvars, NEW c \in Issued PROVE c \in Issued'
  OBVIOUS
<1> USE QueueAssumption
<1>0. /\ claims \in [Requirements -> [Generations -> ClaimRecords]]
      /\ c \in [req : Requirements, gen : Generations] /\ c.req \in Requirements /\ c.gen \in Generations
      /\ claims[c.req][c.gen].holder # None
  BY DEF TypeOK, Issued
<1>1. SUFFICES claims'[c.req][c.gen].holder # None
  BY <1>0 DEF Issued
<1>same. ASSUME claims' = claims PROVE claims'[c.req][c.gen].holder # None
  BY <1>0, <1>same
<1>2. ASSUME NEW s \in Sessions, NEW t \in Tags, NEW r \in Requirements, ClaimPending(s, t, r)
      PROVE  claims'[c.req][c.gen].holder # None
  BY <1>0, <1>2 DEF ClaimPending, ClaimRecords
<1>3. ASSUME NEW d \in Issued,
             AbandonClaim(d) \/ AdmitExecution(d) \/ AdmitAttempt(d) \/ CancelExecution(d)
                \/ \E o \in Outcomes : SettleExecution(d, o)
      PROVE  claims'[c.req][c.gen].holder # None
  <2>0. d.req \in Requirements /\ d.gen \in Generations
    BY DEF Issued
  <2>1. \/ claims' = [claims EXCEPT ![d.req][d.gen].voided = TRUE]
        \/ \E e : claims' = [claims EXCEPT ![d.req][d.gen].exec = e]
        \/ claims' = [claims EXCEPT ![d.req][d.gen].attempts = @ + 1]
    BY <1>3 DEF AbandonClaim, AdmitExecution, AdmitAttempt, CancelExecution, SettleExecution
  <2>2. CASE claims' = [claims EXCEPT ![d.req][d.gen].voided = TRUE]
    BY <1>0, <2>0, <2>2 DEF ClaimRecords
  <2>3. ASSUME NEW e, claims' = [claims EXCEPT ![d.req][d.gen].exec = e]
        PROVE  claims'[c.req][c.gen].holder # None
    BY <1>0, <2>0, <2>3 DEF ClaimRecords
  <2>4. CASE claims' = [claims EXCEPT ![d.req][d.gen].attempts = @ + 1]
    BY <1>0, <2>0, <2>4 DEF ClaimRecords
  <2> QED
    BY <2>1, <2>2, <2>3, <2>4
<1>4. CASE UNCHANGED qvars
  BY <1>4, <1>same DEF qvars
<1>5. CASE RowCommand
  BY <1>5, <1>same DEF RowCommand, Create, UpdateMetadata, Delete, TransitionStatus, Requeue, LeaseExpires
<1>6. CASE ClaimCommand
  BY <1>6, <1>same, <1>2, <1>3 DEF ClaimCommand, RecoverActiveClaim, RenewLease, ResolveClaim,
                                   AbandonAborted, qvars, DetachOwner, SweepExpiredLeases
<1>7. CASE TagCommand
  BY <1>7, <1>same DEF TagCommand, PauseTag, ResumeTag, ResumeTagForEnable
<1>8. CASE ExecutionStep
  BY <1>8, <1>same, <1>3 DEF ExecutionStep, RetireSession
<1> QED
  BY <1>4, <1>5, <1>6, <1>7, <1>8 DEF Next

-----------------------------------------------------------------------------
(* Every step is a step of the queue *)

\* The statements of the queue, given the arguments the queue expects.
LEMMA ClaimStatements ==
    /\ \A s \in Sessions, t \in Tags, r \in Requirements :
         RecoverActiveClaim(s, t, r) \/ ClaimPending(s, t, r) => Next
    /\ \A c \in Issued :
         /\ RenewLease(c) \/ AbandonClaim(c) \/ AbandonAborted(c) => Next
         /\ \A v \in Verdicts : ResolveClaim(c, v) => Next
    /\ \A s \in Sessions : DetachOwner(s) => Next
    /\ \A active \in SUBSET Sessions : SweepExpiredLeases(active) => Next
BY DEF Next, ClaimCommand

\* The statements about tags and executions, likewise.
LEMMA OtherStatements ==
    /\ \A t \in Tags, c \in Issued : PauseTag(t, c.req) => Next
    /\ \A t \in Tags : ResumeTagForEnable(t) => Next
    /\ \A c \in Issued : AdmitExecution(c) \/ CancelExecution(c) => Next
BY DEF Next, TagCommand, ExecutionStep

\* Cancelling the execution of an issued claim changes the queue lawfully,
\* whatever the port answers.
LEMMA CancelRefines ==
    ASSUME NEW c \in Issued, NEW ans, CancelAutomation(c, ans)
    PROVE  [Next]_qvars
BY OtherStatements DEF CancelAutomation

\* The verdict a receipt is projected to is a verdict of the queue.
LEMMA VerdictOfReceipt == \A e : VerdictOf(e) \in Verdicts
BY DEF VerdictOf, Verdicts

\* What a loop or its keeper does to the queue is a statement of the queue.
LEMMA LoopRefines ==
    ASSUME RunnerTypeOK, NEW l \in Loops, LoopStep(l)
    PROVE  [Next]_qvars
<1>0. GoodSlot(loop[l], Issued)
  BY Apart DEF GoodSlots
<1>w. loop[l].pc # "free" => Target(l) \in Sessions /\ loop[l].tag \in Tags
  BY <1>0 DEF GoodSlot, SlotWellFormed, Target
<1>c. loop[l].pc \in ClaimPcs => loop[l].claim \in Issued
  BY <1>0 DEF GoodSlot, SlotHolds
<1>t. loop[l].todo \subseteq Issued
  BY <1>0 DEF GoodSlot, SlotHolds
<1>1. CASE PurgeCancelled(l)
  BY <1>1, <1>t, CancelRefines DEF PurgeCancelled
<1>2. CASE ClaimNext(l)
  BY <1>2, <1>w, ClaimStatements DEF ClaimNext, TaskAt
<1>3. CASE Admit(l)
  BY <1>3, <1>c, OtherStatements DEF Admit, TaskAt, ClaimPcs
<1>4. CASE RenewTick(l)
  BY <1>4, <1>c, ClaimStatements DEF RenewTick, TaskAt, ClaimPcs
<1>5. CASE PauseForAttention(l)
  BY <1>5, <1>c, <1>w, OtherStatements DEF PauseForAttention, ClaimPcs
<1>6. CASE ReleaseClaim(l)
  BY <1>6, <1>c, ClaimStatements DEF ReleaseClaim, ClaimPcs
<1>7. CASE WriteVerdict(l)
  BY <1>7, <1>c, ClaimStatements, VerdictOfReceipt DEF WriteVerdict, ClaimPcs
<1>8. CASE FinishCancelled(l)
  BY <1>8, <1>c, CancelRefines DEF FinishCancelled, TaskAt, ClaimPcs
<1>9. CASE KeeperRecovers(l)
  BY <1>9, <1>w, ClaimStatements DEF KeeperRecovers
<1>10. CASE KeeperCancels(l)
  BY <1>10, <1>c, CancelRefines DEF KeeperCancels, ClaimPcs
<1>11. CASE LoopBegins(l) \/ ListCancelled(l) \/ PublishClaim(l) \/ AwaitReceipt(l) \/ JudgeReceipt(l)
             \/ ConfirmVerdict(l) \/ TurnEnds(l) \/ CapReached(l) \/ TaskReturns(l) \/ AbortLands(l)
             \/ CustodianBegins(l) \/ CleanupBegins(l) \/ KeeperEnds(l)
  BY <1>11 DEF LoopBegins, ListCancelled, PublishClaim, AwaitReceipt, JudgeReceipt, ConfirmVerdict,
               TurnEnds, CapReached, TaskReturns, AbortLands, DropTask, CustodianBegins, CleanupBegins,
               KeeperEnds
<1> QED
  BY <1>1, <1>2, <1>3, <1>4, <1>5, <1>6, <1>7, <1>8, <1>9, <1>10, <1>11 DEF LoopStep

\* So is what a command does to it.
LEMMA CommandRefines ==
    ASSUME RunnerTypeOK, NEW s \in Sessions, CommandStep(s)
    PROVE  [Next]_qvars
<1>0. GoodCommand(cmd[s], Issued)
  BY Apart DEF GoodCommands
<1>1. CASE ResumeForEnable(s)
  BY <1>0, <1>1, OtherStatements DEF ResumeForEnable, GoodCommand, CommandWellFormed
<1>2. CASE DeleteParks(s)
  BY <1>2, ClaimStatements DEF DeleteParks
<1>3. CASE DeleteCancels(s)
  BY <1>0, <1>3, CancelRefines DEF DeleteCancels, GoodCommand
<1>4. CASE Quiesce(s) \/ CleanupJoined(s) \/ WaitTimesOut(s) \/ SaveConfig(s) \/ StartFound(s)
            \/ LaunchLoop(s) \/ RollBack(s) \/ ReplyError(s) \/ DeleteTakes(s) \/ DeleteJoins(s)
  BY <1>4 DEF Quiesce, CleanupJoined, WaitTimesOut, SaveConfig, StartFound, LaunchLoop, RollBack,
              ReplyError, DeleteTakes, DeleteJoins
<1> QED
  BY <1>1, <1>2, <1>3, <1>4 DEF CommandStep

\* Every step of the runner is a step of the queue or leaves it alone.
LEMMA RunnerRefines == RunnerTypeOK /\ [RunnerNext]_rvars => [Next]_qvars
<1> SUFFICES ASSUME RunnerTypeOK, [RunnerNext]_rvars PROVE [Next]_qvars
  OBVIOUS
<1>0. GoodHost(host, Issued)
  BY Apart
<1>1. CASE \E l \in Loops : LoopStep(l) \/ TaskPanics(l)
  BY <1>1, LoopRefines DEF TaskPanics, DropTask
<1>2. CASE \E s \in Sessions : CommandStep(s)
  BY <1>2, CommandRefines
<1>3. CASE HostStep
  <2>1. CASE SweeperCollects \/ \E s \in Sessions : ResumeBinding(s)
    BY <2>1 DEF SweeperCollects, ResumeBinding
  <2>2. CASE SweeperSweeps
    BY <1>0, <2>2, ClaimStatements DEF SweeperSweeps, GoodHost, HostRecords
  <2>3. ASSUME NEW c \in Claims, CancellationEnds(c) PROVE [Next]_qvars
    BY <1>0, <2>3, CancelRefines DEF CancellationEnds, GoodHost
  <2>4. ASSUME NEW c \in Claims, RecoverExecution(c) PROVE [Next]_qvars
    BY <1>0, <2>4, OtherStatements DEF RecoverExecution, GoodHost
  <2> QED
    BY <1>3, <2>1, <2>2, <2>3, <2>4 DEF HostStep
<1>4. CASE UserStep
  <2>1. ASSUME NEW c \in Issued, StopCurrentClaim(c) \/ \E v \in Verdicts : AgentDeclares(c, v)
        PROVE  [Next]_qvars
    BY <2>1, ClaimStatements DEF StopCurrentClaim, AgentDeclares, Verdicts
  <2>2. ASSUME NEW s \in Sessions, RequestDropped(s) \/ DeleteBegins(s) \/ \E t, m : ApplyConfig(s, t, m)
        PROVE  [Next]_qvars
    BY <2>2 DEF RequestDropped, DeleteBegins, ApplyConfig
  <2> QED
    BY <1>4, <2>1, <2>2 DEF UserStep
<1>5. CASE QueueEnvironment
  <2>1. ASSUME NEW r \in Requirements,
               \/ LeaseExpires(r) \/ Requeue(r) \/ Delete(r)
               \/ \E t \in Tags, k \in SortKeys : Create(r, t, k, "pending") \/ UpdateMetadata(r, t, k)
        PROVE  RowCommand
    BY <2>1 DEF RowCommand, Statuses
  <2>2. ASSUME NEW c \in Issued, AdmitAttempt(c) \/ \E o \in Outcomes : SettleExecution(c, o)
        PROVE  ExecutionStep
    BY <2>2 DEF ExecutionStep
  <2>3. ASSUME NEW t \in Tags, ResumeTag(t, {}) PROVE TagCommand
    BY <2>3 DEF TagCommand
  <2>4. ASSUME NEW s \in Sessions, RetireSession(s) PROVE ExecutionStep
    BY <2>4 DEF ExecutionStep
  <2> QED
    BY <1>5, <2>1, <2>2, <2>3, <2>4 DEF QueueEnvironment, Next
<1>6. CASE Crash
  BY <1>6 DEF Crash
<1>7. CASE UNCHANGED rvars
  BY <1>7 DEF rvars, qvars
<1> QED
  BY <1>1, <1>2, <1>3, <1>4, <1>5, <1>6, <1>7 DEF RunnerNext

-----------------------------------------------------------------------------
(* Every step keeps the runner's invariant *)

\* More capabilities do no harm.
LEMMA SlotsGrow ==
    ASSUME NEW I, NEW J, I \subseteq J
    PROVE  /\ \A w : GoodSlot(w, I) => GoodSlot(w, J)
           /\ \A c : GoodCommand(c, I) => GoodCommand(c, J)
           /\ \A h : GoodHost(h, I) => GoodHost(h, J)
<1>1. ASSUME NEW w, GoodSlot(w, I) PROVE GoodSlot(w, J)
  BY <1>1 DEF GoodSlot, SlotHolds
<1>2. ASSUME NEW c, GoodCommand(c, I) PROVE GoodCommand(c, J)
  BY <1>2 DEF GoodCommand
<1>3. ASSUME NEW h, GoodHost(h, I) PROVE GoodHost(h, J)
  BY <1>3 DEF GoodHost
<1> QED
  BY <1>1, <1>2, <1>3

\* What a step leaves alone stays good.
LEMMA UntouchedStay ==
    ASSUME RunnerTypeOK, Issued \subseteq Issued'
    PROVE  /\ UNCHANGED loop => GoodSlots(Issued)'
           /\ UNCHANGED cmd => GoodCommands(Issued)'
           /\ UNCHANGED host => GoodHost(host, Issued)'
           /\ UNCHANGED <<config, handle, cleanup>> => GoodRefs'
<1>1. UNCHANGED loop => GoodSlots(Issued)'
  BY Apart, SlotsGrow DEF GoodSlots
<1>2. UNCHANGED cmd => GoodCommands(Issued)'
  BY Apart, SlotsGrow DEF GoodCommands
<1>3. UNCHANGED host => GoodHost(host, Issued)'
  BY Apart, SlotsGrow
<1>4. UNCHANGED <<config, handle, cleanup>> => GoodRefs'
  BY Apart DEF GoodRefs
<1> QED
  BY <1>1, <1>2, <1>3, <1>4

\* One slot, one command or one reference is replaced by a good one.
LEMMA OneSlot ==
    ASSUME RunnerTypeOK, Issued \subseteq Issued', NEW l \in Loops, NEW w, GoodSlot(w, Issued'),
           Become(l, w)
    PROVE  GoodSlots(Issued)'
<1>1. loop \in [Loops -> LoopRecords] /\ \A m \in Loops : GoodSlot(loop[m], Issued')
  BY Apart, SlotsGrow DEF GoodSlots
<1>2. w \in LoopRecords
  BY DEF GoodSlot
<1> QED
  BY <1>1, <1>2 DEF GoodSlots, Become

\* The same for a command.
LEMMA OneCommand ==
    ASSUME RunnerTypeOK, Issued \subseteq Issued', NEW s \in Sessions, NEW c, GoodCommand(c, Issued'),
           cmd' = [cmd EXCEPT ![s] = c]
    PROVE  GoodCommands(Issued)'
<1>1. cmd \in [Sessions -> CmdRecords] /\ \A q \in Sessions : GoodCommand(cmd[q], Issued')
  BY Apart, SlotsGrow DEF GoodCommands
<1>2. c \in CmdRecords
  BY DEF GoodCommand
<1> QED
  BY <1>1, <1>2 DEF GoodCommands

\* A slot that moves on to another step of the same worker, with the same claim.
LEMMA SlotMoves ==
    ASSUME NEW I, NEW J, I \subseteq J, NEW w, GoodSlot(w, I), w.pc # "free",
           NEW v \in LoopRecords, v.role = w.role, v.target = w.target, v.tag = w.tag,
           v.shown = w.shown, v.todo \subseteq w.todo, v.claim = w.claim,
           v.pc \in IF w.role = "task" THEN TaskPcs ELSE KeeperPcs,
           v.pc \in ClaimPcs => w.pc \in ClaimPcs
    PROVE  GoodSlot(v, J)
BY DEF GoodSlot, SlotWellFormed, SlotHolds

\* A slot that only moves on is good, at any step of its worker that keeps a
\* claim it has.
LEMMA SlotGoes ==
    ASSUME NEW I, NEW J, I \subseteq J, NEW w, GoodSlot(w, I), w.pc # "free",
           NEW p \in IF w.role = "task" THEN TaskPcs ELSE KeeperPcs,
           p \in ClaimPcs => w.pc \in ClaimPcs
    PROVE  GoodSlot([w EXCEPT !.pc = p], J)
<1> DEFINE v == [w EXCEPT !.pc = p]
<1>0. w \in LoopRecords
  BY DEF GoodSlot
<1>1. v \in LoopRecords
  BY <1>0 DEF LoopRecords
<1>2. /\ v.role = w.role /\ v.target = w.target /\ v.tag = w.tag /\ v.shown = w.shown
      /\ v.todo = w.todo /\ v.claim = w.claim /\ v.pc = p
  BY <1>0 DEF LoopRecords
<1> QED
  BY <1>1, <1>2, SlotMoves

\* Go keeps the slots good.
LEMMA SlotGoesOn ==
    ASSUME RunnerTypeOK, Issued \subseteq Issued', NEW l \in Loops, loop[l].pc # "free",
           NEW p \in IF loop[l].role = "task" THEN TaskPcs ELSE KeeperPcs,
           p \in ClaimPcs => loop[l].pc \in ClaimPcs,
           Go(l, p)
    PROVE  GoodSlots(Issued)'
<1>1. GoodSlot(loop[l], Issued)
  BY Apart DEF GoodSlots
<1>2. GoodSlot([loop[l] EXCEPT !.pc = p], Issued')
  BY <1>1, SlotGoes
<1> QED
  BY <1>2, OneSlot DEF Go

\* A step that records a receipt or a block and moves on.
LEMMA SlotNotes ==
    ASSUME RunnerTypeOK, Issued \subseteq Issued', NEW l \in Loops, loop[l].pc \in ClaimPcs,
           NEW p \in IF loop[l].role = "task" THEN TaskPcs ELSE KeeperPcs,
           NEW e \in Receipts, NEW b \in BOOLEAN,
           Become(l, [loop[l] EXCEPT !.pc = p, !.receipt = e, !.blocked = b])
    PROVE  GoodSlots(Issued)'
<1> DEFINE v == [loop[l] EXCEPT !.pc = p, !.receipt = e, !.blocked = b]
<1>0. GoodSlot(loop[l], Issued) /\ loop[l] \in LoopRecords /\ loop[l].pc # "free"
  BY Apart DEF GoodSlots, GoodSlot, ClaimPcs
<1>1. v \in LoopRecords
  BY <1>0 DEF LoopRecords
<1>2. /\ v.role = loop[l].role /\ v.target = loop[l].target /\ v.tag = loop[l].tag
      /\ v.shown = loop[l].shown /\ v.todo = loop[l].todo /\ v.claim = loop[l].claim /\ v.pc = p
  BY <1>0 DEF LoopRecords
<1>3. GoodSlot(v, Issued')
  <2> HIDE DEF v
  <2> QED
    BY <1>0, <1>1, <1>2, SlotMoves
<1> QED
  BY <1>3, OneSlot

\* The receipt and the block of a slot, for steps that set only one of them.
LEMMA SlotParts ==
    ASSUME NEW w \in LoopRecords, NEW p, NEW e, NEW b
    PROVE  /\ w.receipt \in Receipts /\ w.blocked \in BOOLEAN
           /\ [w EXCEPT !.pc = p, !.receipt = e] = [w EXCEPT !.pc = p, !.receipt = e, !.blocked = w.blocked]
           /\ [w EXCEPT !.receipt = e, !.pc = p] = [w EXCEPT !.pc = p, !.receipt = e, !.blocked = w.blocked]
           /\ [w EXCEPT !.pc = p, !.blocked = b] = [w EXCEPT !.pc = p, !.receipt = w.receipt, !.blocked = b]
BY DEF LoopRecords

\* A claim that was just taken or re-entered is an issued one.
LEMMA RunnerClaimIssued ==
    ASSUME QueueInv, QueueInv', Issued \subseteq Issued', NEW s, NEW t, NEW r \in Requirements,
           RecoverActiveClaim(s, t, r) \/ ClaimPending(s, t, r)
    PROVE  [req |-> r, gen |-> row'[r].gen] \in Issued'
<1>1. RowLedger(row[r], claims[r], runs[r])' /\ row'[r] \in Rows /\ row'[r].gen <= MaxGeneration
  BY DEF QueueInv, ClaimLedger, TypeOK
<1>2. row'[r].status = "in_progress"
  <2>1. row \in [Requirements -> Rows]
    BY DEF QueueInv, TypeOK
  <2>2. CASE RecoverActiveClaim(s, t, r)
    BY <2>1, <2>2 DEF RecoverActiveClaim, Recoverable, ActiveClaims, Rows
  <2>3. CASE ClaimPending(s, t, r)
    BY <2>1, <2>3 DEF ClaimPending, Claimed, Rows
  <2> QED
    BY <2>2, <2>3
<1>3. row'[r].gen > 0 /\ claims'[r][row'[r].gen].holder # None
  BY <1>1, <1>2 DEF RowLedger, ActiveRow
<1>4. row'[r].gen \in Generations
  BY <1>1, <1>3, QueueAssumption DEF Generations, Rows
<1> QED
  BY <1>3, <1>4 DEF Issued

\* The first steps of a task: scan, purge, claim, publish.
LEMMA ClaimingStepInv ==
    ASSUME RunnerInv, Issued \subseteq Issued', QueueInv', NEW l \in Loops,
           LoopBegins(l) \/ ListCancelled(l) \/ PurgeCancelled(l) \/ ClaimNext(l) \/ PublishClaim(l)
    PROVE  GoodSlots(Issued)'
<1> DEFINE w == loop[l]
<1>0. RunnerTypeOK /\ GoodSlot(w, Issued) /\ w \in LoopRecords
  BY Apart DEF GoodSlots, GoodSlot, RunnerInv
<1>1. CASE LoopBegins(l)
  BY <1>0, <1>1, SlotGoesOn DEF LoopBegins, TaskAt, TaskPcs, ClaimPcs
<1>2. CASE ListCancelled(l)
  <2>1. CASE w.role = "task" /\ w.cancelled
    BY <1>0, <1>2, <2>1, SlotGoesOn DEF ListCancelled, TaskPcs, ClaimPcs
  <2>2. CASE ~(w.role = "task" /\ w.cancelled)
    <3> DEFINE v == [w EXCEPT !.pc = "purge", !.todo = OwnCancelled(Target(l), w.tag)]
    <3>1. OwnCancelled(Target(l), w.tag) \subseteq Issued /\ Issued \subseteq Claims
      BY DEF OwnCancelled, Issued, Claims
    <3>2. v \in LoopRecords
      BY <1>0, <3>1 DEF LoopRecords, TaskPcs
    <3>3. /\ v.role = w.role /\ v.target = w.target /\ v.tag = w.tag /\ v.shown = w.shown
          /\ v.todo = OwnCancelled(Target(l), w.tag) /\ v.pc = "purge"
      BY <1>0 DEF LoopRecords
    <3>4. GoodSlot(v, Issued')
      BY <1>0, <1>2, <3>1, <3>2, <3>3 DEF GoodSlot, SlotWellFormed, SlotHolds, ListCancelled, TaskPcs,
                                         KeeperPcs, ClaimPcs
    <3> QED
      BY <1>0, <1>2, <2>2, <3>4, OneSlot DEF ListCancelled
  <2> QED
    BY <2>1, <2>2
<1>3. CASE PurgeCancelled(l)
  <2>1. CASE Go(l, IF w.role = "task" THEN "ready" ELSE "recover")
    BY <1>0, <1>3, <2>1, SlotGoesOn DEF PurgeCancelled, TaskPcs, KeeperPcs, ClaimPcs
  <2>2. CASE w.role = "task" /\ Go(l, "exit")
    BY <1>0, <1>3, <2>2, SlotGoesOn DEF PurgeCancelled, TaskPcs, ClaimPcs
  <2>3. ASSUME NEW c, NEW ans,
               Become(l, [w EXCEPT !.todo = IF ans = "error" THEN @ ELSE @ \ {c}])
        PROVE  GoodSlots(Issued)'
    <3> DEFINE n == IF ans = "error" THEN w.todo ELSE w.todo \ {c}
               v == [w EXCEPT !.todo = n]
    <3>1. n \subseteq w.todo
      OBVIOUS
    <3>2. v \in LoopRecords
      BY <1>0, <3>1 DEF LoopRecords
    <3>3. /\ v.role = w.role /\ v.target = w.target /\ v.tag = w.tag /\ v.shown = w.shown
          /\ v.todo = n /\ v.claim = w.claim /\ v.pc = w.pc
      BY <1>0 DEF LoopRecords
    <3>4. w.pc = "purge"
      BY <1>3 DEF PurgeCancelled
    <3>5. GoodSlot(v, Issued')
      <4> HIDE DEF v
      <4> QED
        BY <1>0, <3>1, <3>2, <3>3, <3>4, SlotMoves DEF TaskPcs, KeeperPcs
    <3> QED
      BY <1>0, <2>3, <3>5, OneSlot
  <2> QED
    BY <1>3, <2>1, <2>2, <2>3 DEF PurgeCancelled
<1>4. CASE ClaimNext(l)
  <2>1. CASE Go(l, "exit")
    BY <1>0, <1>4, <2>1, SlotGoesOn DEF ClaimNext, TaskAt, TaskPcs, ClaimPcs
  <2>2. ASSUME NEW r \in Requirements,
               RecoverActiveClaim(Target(l), w.tag, r) \/ ClaimPending(Target(l), w.tag, r),
               Become(l, [w EXCEPT !.pc = "claimed", !.claim = [req |-> r, gen |-> row'[r].gen]])
        PROVE  GoodSlots(Issued)'
    <3> DEFINE c == [req |-> r, gen |-> row'[r].gen]
               v == [w EXCEPT !.pc = "claimed", !.claim = c]
    <3>1. c \in Issued'
      BY <2>2, RunnerClaimIssued DEF RunnerInv
    <3>2. Issued' \subseteq Claims
      BY DEF Issued, Claims
    <3>3. v \in LoopRecords
      BY <1>0, <3>1, <3>2 DEF LoopRecords, TaskPcs
    <3>4. /\ v.role = w.role /\ v.target = w.target /\ v.tag = w.tag /\ v.shown = w.shown
          /\ v.todo = w.todo /\ v.claim = c /\ v.pc = "claimed"
      BY <1>0 DEF LoopRecords
    <3>5. GoodSlot(v, Issued')
      <4> HIDE DEF v, c
      <4> QED
        BY <1>0, <1>4, <3>1, <3>3, <3>4 DEF GoodSlot, SlotWellFormed, SlotHolds, ClaimNext, TaskAt, TaskPcs
    <3> QED
      BY <1>0, <2>2, <3>5, OneSlot
  <2> QED
    BY <1>4, <2>1, <2>2 DEF ClaimNext
<1>5. CASE PublishClaim(l)
  <2> DEFINE v == [w EXCEPT !.pc = "prepare", !.shown = w.claim]
  <2>1. v \in LoopRecords
    BY <1>0 DEF LoopRecords, TaskPcs
  <2>2. /\ v.role = w.role /\ v.target = w.target /\ v.tag = w.tag /\ v.shown = w.claim
        /\ v.todo = w.todo /\ v.claim = w.claim /\ v.pc = "prepare"
    BY <1>0 DEF LoopRecords
  <2>3. GoodSlot(v, Issued')
    <3> HIDE DEF v
    <3> QED
      BY <1>0, <1>5, <2>1, <2>2 DEF GoodSlot, SlotWellFormed, SlotHolds, PublishClaim, TaskAt, TaskPcs,
                                    ClaimPcs
  <2> QED
    BY <1>0, <1>5, <2>3, OneSlot DEF PublishClaim
<1> QED
  BY <1>1, <1>2, <1>3, <1>4, <1>5

\* The end of a turn gives the claim up.
LEMMA TurnOverInv ==
    ASSUME RunnerTypeOK, Issued \subseteq Issued', NEW l \in Loops,
           loop[l].role = "task", loop[l].pc \in ClaimPcs,
           NEW p \in {"cap", "ready"}, NEW n \in Nat, NEW b \in BOOLEAN, TurnOver(l, p, n, b)
    PROVE  GoodSlots(Issued)'
<1> DEFINE w == loop[l]
           v == [w EXCEPT !.pc = p, !.claim = NoClaim, !.shown = NoClaim, !.receipt = "none",
                          !.completed = n, !.blocked = FALSE, !.cancelled = w.cancelled \/ b]
<1>0. GoodSlot(w, Issued) /\ w \in LoopRecords
  BY Apart DEF GoodSlots, GoodSlot
<1>1. PICK k \in BOOLEAN :
        v = [w EXCEPT !.pc = p, !.claim = NoClaim, !.shown = NoClaim, !.receipt = "none",
                      !.completed = n, !.blocked = FALSE, !.cancelled = k]
  BY Zenon
<1>2. /\ v \in LoopRecords
      /\ v.role = w.role /\ v.target = w.target /\ v.tag = w.tag /\ v.shown = NoClaim
      /\ v.todo = w.todo /\ v.pc = p
  <2> HIDE DEF v, w
  <2> QED
    BY <1>0, <1>1 DEF LoopRecords, TaskPcs, Receipts
<1>3. Become(l, v)
  BY DEF TurnOver
<1> HIDE DEF v
<1>4. GoodSlot(v, Issued')
  BY <1>0, <1>2 DEF GoodSlot, SlotWellFormed, SlotHolds, TaskPcs, ClaimPcs
<1> QED
  BY <1>3, <1>4, OneSlot

\* The steps of a turn, and of a keeper that settles what the turn left.
LEMMA TurnStepInv ==
    ASSUME RunnerInv, Issued \subseteq Issued', NEW l \in Loops,
           \/ Admit(l) \/ AwaitReceipt(l) \/ RenewTick(l) \/ JudgeReceipt(l) \/ PauseForAttention(l)
           \/ ReleaseClaim(l) \/ WriteVerdict(l) \/ ConfirmVerdict(l) \/ TurnEnds(l)
           \/ FinishCancelled(l) \/ KeeperCancels(l)
    PROVE  GoodSlots(Issued)'
<1> DEFINE w == loop[l]
<1>0. RunnerTypeOK /\ GoodSlot(w, Issued) /\ w \in LoopRecords
  BY Apart DEF GoodSlots, GoodSlot, RunnerInv
<1>f. w.receipt \in Receipts /\ w.blocked \in BOOLEAN /\ w.completed \in Nat /\ w.max \in Nat
  BY <1>0 DEF LoopRecords
<1>s. Settled(l) \in IF w.role = "task" THEN TaskPcs ELSE KeeperPcs
  BY DEF Settled, TaskPcs, KeeperPcs
<1>go. ASSUME NEW p \in IF w.role = "task" THEN TaskPcs ELSE KeeperPcs, w.pc \in ClaimPcs, Go(l, p)
       PROVE  GoodSlots(Issued)'
  BY <1>0, <1>go, SlotGoesOn DEF ClaimPcs
<1>note. ASSUME NEW p \in IF w.role = "task" THEN TaskPcs ELSE KeeperPcs, w.pc \in ClaimPcs,
                NEW e \in Receipts, NEW b \in BOOLEAN,
                \/ Become(l, [w EXCEPT !.pc = p, !.receipt = e])
                \/ Become(l, [w EXCEPT !.receipt = e, !.pc = p])
                \/ Become(l, [w EXCEPT !.pc = p, !.blocked = b])
         PROVE  GoodSlots(Issued)'
  <2>1. CASE Become(l, [w EXCEPT !.pc = p, !.receipt = e, !.blocked = w.blocked])
    BY <1>0, <1>f, <1>note, <2>1, SlotNotes
  <2>2. CASE Become(l, [w EXCEPT !.pc = p, !.receipt = w.receipt, !.blocked = b])
    BY <1>0, <1>f, <1>note, <2>2, SlotNotes
  <2>3. /\ [w EXCEPT !.pc = p, !.receipt = e] = [w EXCEPT !.pc = p, !.receipt = e, !.blocked = w.blocked]
        /\ [w EXCEPT !.receipt = e, !.pc = p] = [w EXCEPT !.pc = p, !.receipt = e, !.blocked = w.blocked]
        /\ [w EXCEPT !.pc = p, !.blocked = b] = [w EXCEPT !.pc = p, !.receipt = w.receipt, !.blocked = b]
    BY <1>0, SlotParts
  <2> QED
    BY <1>note, <2>1, <2>2, <2>3 DEF Become
<1>1. CASE Admit(l)
  BY <1>0, <1>1, <1>go, <1>note DEF Admit, TaskAt, TaskPcs, ClaimPcs, Receipts
<1>2. CASE AwaitReceipt(l)
  BY <1>0, <1>2, <1>note DEF AwaitReceipt, TaskAt, TaskPcs, ClaimPcs
<1>3. CASE RenewTick(l)
  <2>1. CASE UNCHANGED loop
    BY <1>0, <2>1, UntouchedStay
  <2>2. CASE Become(l, [w EXCEPT !.pc = "judge", !.receipt = "error"])
    BY <1>3, <1>f, <2>2, <1>note DEF RenewTick, TaskAt, TaskPcs, ClaimPcs, Receipts
  <2> QED
    BY <1>3, <2>1, <2>2 DEF RenewTick
<1>4. CASE JudgeReceipt(l)
  <2>1. w.role = "task" /\ w.pc \in ClaimPcs
    BY <1>4 DEF JudgeReceipt, TaskAt, ClaimPcs
  <2>2. CASE \E p \in {"finish", "pausefirst", "verdict"} : Go(l, p)
    BY <2>1, <2>2, <1>go DEF TaskPcs
  <2>3. CASE Become(l, [w EXCEPT !.pc = "reread", !.blocked = TRUE])
    BY <2>1, <2>3, <1>f, <1>note DEF TaskPcs
  <2> QED
    BY <1>4, <2>2, <2>3 DEF JudgeReceipt
<1>5. CASE PauseForAttention(l)
  BY <1>0, <1>5, <1>s, <1>go DEF PauseForAttention, TaskPcs, KeeperPcs, ClaimPcs
<1>6. CASE ReleaseClaim(l)
  BY <1>0, <1>6, <1>s, <1>go DEF ReleaseClaim, TaskPcs, KeeperPcs, ClaimPcs
<1>acc. ASSUME w.pc \in ClaimPcs, Accepted(l) \/ Refused(l) PROVE GoodSlots(Issued)'
  <2>1. (IF w.receipt \in PausingReceipts(l) THEN "pause" ELSE Settled(l))
           \in IF w.role = "task" THEN TaskPcs ELSE KeeperPcs
    BY <1>s DEF TaskPcs, KeeperPcs
  <2>2. (w.blocked \/ w.receipt = "notfound") \in BOOLEAN
    BY <1>f
  <2> QED
    BY <1>acc, <1>s, <1>note, <1>f, <2>1, <2>2 DEF Accepted, Refused
<1>7. CASE WriteVerdict(l)
  BY <1>0, <1>7, <1>acc, <1>go DEF WriteVerdict, TaskPcs, KeeperPcs, ClaimPcs
<1>8. CASE ConfirmVerdict(l)
  BY <1>0, <1>8, <1>acc DEF ConfirmVerdict, ClaimPcs
<1>9. CASE TurnEnds(l)
  <2> DEFINE n == w.completed + 1
  <2>1. w.role = "task" /\ w.pc = "reread" /\ w.pc \in ClaimPcs /\ n \in Nat
        /\ (w.blocked /\ n < w.max) \in BOOLEAN
    BY <1>9, <1>f DEF TurnEnds, TaskAt, ClaimPcs
  <2>2. CASE Become(l, [w EXCEPT !.pc = "finish", !.blocked = FALSE])
    BY <1>0, <1>f, <2>1, <2>2, <1>note DEF TaskPcs
  <2>3. CASE TurnOver(l, IF n >= w.max THEN "cap" ELSE "ready", n, w.blocked /\ n < w.max)
    BY <1>0, <2>1, <2>3, TurnOverInv
  <2>4. CASE TurnOver(l, "ready", w.completed, w.blocked)
    BY <1>0, <1>f, <2>1, <2>4, TurnOverInv
  <2> QED
    BY <1>9, <2>2, <2>3, <2>4 DEF TurnEnds
<1>10. CASE FinishCancelled(l)
  <2>1. w.role = "task" /\ w.pc \in ClaimPcs
    BY <1>10 DEF FinishCancelled, TaskAt, ClaimPcs
  <2>2. CASE Go(l, "exit")
    BY <2>1, <2>2, <1>go DEF TaskPcs
  <2>3. CASE TurnOver(l, "ready", w.completed, FALSE)
    BY <1>0, <1>f, <2>1, <2>3, TurnOverInv
  <2>4. CASE UNCHANGED loop
    BY <1>0, <2>4, UntouchedStay
  <2> QED
    BY <1>10, <2>2, <2>3, <2>4 DEF FinishCancelled
<1>11. CASE KeeperCancels(l)
  <2>1. w.pc = "cancel" /\ w.pc \in ClaimPcs /\ w.role # "task"
    BY <1>0, <1>11 DEF KeeperCancels, ClaimPcs, GoodSlot, SlotWellFormed, TaskPcs
  <2> QED
    BY <1>11, <2>1, <1>note, <1>f DEF KeeperCancels, KeeperPcs
<1> QED
  BY <1>1, <1>2, <1>3, <1>4, <1>5, <1>6, <1>7, <1>8, <1>9, <1>10, <1>11

\* An empty slot, and the one a task leaves behind.
LEMMA EmptySlot == \A J : GoodSlot(NoLoop, J)
BY DEF GoodSlot, SlotWellFormed, SlotHolds, NoLoop, LoopRecords, TaskPcs, ClaimPcs, Receipts

\* What HandleGuard::drop leaves of a task is good.
LEMMA RemainsGood ==
    ASSUME NEW J, Issued \subseteq J, NEW l \in Loops, GoodSlot(loop[l], Issued), loop[l].pc # "free",
           NEW b \in BOOLEAN
    PROVE  GoodSlot(Remains(l, b), J)
<1> DEFINE w == loop[l]
           v == Remains(l, b)
<1>1. /\ w \in LoopRecords /\ w.target \in Sessions /\ w.tag \in Tags /\ w.handoff \in BOOLEAN
      /\ w.shown \in Claims \cup {NoClaim} /\ (w.shown # NoClaim => w.shown \in Issued)
  BY DEF GoodSlot, SlotWellFormed, SlotHolds, LoopRecords
<1>2. v = [NoLoop EXCEPT !.pc = "gone", !.target = w.target, !.tag = w.tag, !.shown = w.shown,
                         !.handoff = w.handoff, !.custodian = b]
  BY DEF Remains, Target
<1> HIDE DEF w, v
<1>3. v \in LoopRecords
  BY <1>1, <1>2 DEF LoopRecords, NoLoop, Receipts
<1>4. /\ v.pc = "gone" /\ v.target = w.target /\ v.tag = w.tag /\ v.shown = w.shown
      /\ v.todo = {} /\ v.claim = NoClaim
  BY <1>1, <1>2 DEF LoopRecords, NoLoop
<1>5. GoodSlot(v, J)
  BY <1>1, <1>3, <1>4 DEF GoodSlot, SlotWellFormed, SlotHolds, ClaimPcs
<1> QED
  BY <1>5 DEF v

\* A keeper that ends leaves a good slot.
LEMMA LeaveInv ==
    ASSUME RunnerTypeOK, Issued \subseteq Issued', NEW l \in Loops, loop[l].pc # "free",
           NEW owners, NEW c, NEW b \in BOOLEAN, Leave(l, owners, c, b)
    PROVE  GoodSlots(Issued)'
<1>1. GoodSlot(loop[l], Issued)
  BY Apart DEF GoodSlots
<1>2. GoodSlot(Remains(l, b), Issued') /\ GoodSlot(NoLoop, Issued')
  BY <1>1, EmptySlot, RemainsGood
<1> QED
  BY <1>2, OneSlot DEF Leave

\* Dropping a task leaves its claim and its cancellations to others.
LEMMA DropInv ==
    ASSUME RunnerTypeOK, Issued \subseteq Issued', NEW l \in Loops, loop[l].pc # "free", DropTask(l)
    PROVE  RunnerTypeOK'
<1>0. GoodSlot(loop[l], Issued) /\ GoodRefs /\ GoodHost(host, Issued) /\ loop[l] \in LoopRecords
  BY Apart DEF GoodSlots, GoodSlot
<1>1. GoodSlots(Issued)'
  <2>1. (~loop[l].handoff) \in BOOLEAN
    OBVIOUS
  <2>2. GoodSlot(Remains(l, ~loop[l].handoff), Issued')
    BY <1>0, <2>1, RemainsGood
  <2> QED
    BY <2>2, OneSlot DEF DropTask
<1>2. GoodRefs'
  <2>1. handle' = handle \/ handle' = [handle EXCEPT ![Target(l)] = None]
    BY DEF DropTask
  <2> QED
    BY <1>0, <2>1 DEF DropTask, GoodRefs
<1>3. GoodHost(host, Issued)'
  <2>1. PICK more \in UnderWay(l) : host' = [host EXCEPT !.stops = @ \cup more]
    BY DEF DropTask
  <2>2. more \subseteq Issued
    BY <1>0 DEF UnderWay, GoodSlot, SlotHolds, ClaimPcs
  <2>3. Issued \subseteq Claims
    BY DEF Issued, Claims
  <2>4. host' \in HostRecords /\ host'.stops = host.stops \cup more /\ host'.recover = host.recover
    BY <1>0, <2>1, <2>2, <2>3 DEF GoodHost, HostRecords
  <2> QED
    BY <1>0, <2>2, <2>4 DEF GoodHost
<1>4. GoodCommands(Issued)'
  BY UntouchedStay DEF DropTask
<1> QED
  BY <1>1, <1>2, <1>3, <1>4, ApartNext

\* What commit_automation_config writes is a config.
LEMMA CommittedConfig ==
    ASSUME NEW old \in Configs, NEW t \in Tags \cup {None}, NEW m \in Nat
    PROVE  Committed(old, t, m) \in Configs
BY DEF Committed, Configs

\* The completion cap and the keepers.
LEMMA KeeperStepInv ==
    ASSUME RunnerInv, Issued \subseteq Issued', QueueInv', NEW l \in Loops,
           CapReached(l) \/ CustodianBegins(l) \/ CleanupBegins(l) \/ KeeperRecovers(l) \/ KeeperEnds(l)
    PROVE  RunnerTypeOK'
<1> DEFINE w == loop[l]
<1>0. RunnerTypeOK /\ GoodSlot(w, Issued) /\ w \in LoopRecords /\ GoodRefs
  BY Apart DEF GoodSlots, GoodSlot, RunnerInv
<1>t. w.pc # "free" => w.target \in Sessions /\ w.tag \in Tags
  BY <1>0 DEF GoodSlot, SlotWellFormed
<1>b. w.custodian \in BOOLEAN
  BY <1>0 DEF LoopRecords
<1>q. UNCHANGED <<cmd, host>>
  BY DEF CapReached, CustodianBegins, CleanupBegins, KeeperRecovers, KeeperEnds
<1>q2. GoodCommands(Issued)' /\ GoodHost(host, Issued)'
  BY <1>0, <1>q, UntouchedStay
<1>1. CASE CapReached(l)
  <2> DEFINE v == [w EXCEPT !.pc = "exit", !.cancelled = TRUE]
  <2>1. v \in LoopRecords
    BY <1>0 DEF LoopRecords, TaskPcs
  <2>2. /\ v.role = w.role /\ v.target = w.target /\ v.tag = w.tag /\ v.shown = w.shown
        /\ v.todo = w.todo /\ v.claim = w.claim /\ v.pc = "exit"
    BY <1>0 DEF LoopRecords
  <2>3. GoodSlot(v, Issued')
    <3> HIDE DEF v
    <3> QED
      BY <1>0, <1>1, <2>1, <2>2, SlotMoves DEF CapReached, TaskAt, TaskPcs, ClaimPcs
  <2>4. GoodSlots(Issued)'
    BY <1>0, <1>1, <2>3, OneSlot DEF CapReached
  <2>5. config' \in [Sessions -> Configs]
    BY <1>0, <1>1, CommittedConfig DEF CapReached, Disabled, GoodRefs
  <2>6. GoodRefs'
    BY <1>0, <1>1, <2>5 DEF GoodRefs, CapReached
  <2> QED
    BY <1>q2, <2>4, <2>6, ApartNext
<1>2. CASE CustodianBegins(l)
  <2>1. ASSUME Leave(l, cleanup, cmd, FALSE) PROVE GoodSlots(Issued)'
    BY <1>0, <1>2, <2>1, LeaveInv DEF CustodianBegins
  <2>2. ASSUME Become(l, [w EXCEPT !.pc = "scan", !.role = "custodian", !.custodian = FALSE])
        PROVE  GoodSlots(Issued)'
    <3> DEFINE v == [w EXCEPT !.pc = "scan", !.role = "custodian", !.custodian = FALSE]
    <3>1. v \in LoopRecords
      BY <1>0 DEF LoopRecords, TaskPcs
    <3>2. /\ v.role = "custodian" /\ v.target = w.target /\ v.tag = w.tag /\ v.shown = w.shown
          /\ v.todo = w.todo /\ v.pc = "scan"
      BY <1>0 DEF LoopRecords
    <3>3. GoodSlot(v, Issued')
      <4> HIDE DEF v
      <4> QED
        BY <1>0, <1>2, <3>1, <3>2 DEF CustodianBegins, GoodSlot, SlotWellFormed, SlotHolds, KeeperPcs, ClaimPcs
    <3> QED
      BY <1>0, <2>2, <3>3, OneSlot
  <2>3. GoodSlots(Issued)'
    BY <1>2, <2>1, <2>2 DEF CustodianBegins
  <2>4. handle' = handle \/ handle' = [handle EXCEPT ![Target(l)] = None]
    BY <1>2 DEF CustodianBegins
  <2>5. GoodRefs'
    BY <1>0, <1>2, <2>4 DEF GoodRefs, CustodianBegins
  <2> QED
    BY <1>q2, <2>3, <2>5, ApartNext
<1>3. CASE CleanupBegins(l)
  <2> DEFINE v == [w EXCEPT !.pc = "recover", !.role = "cleanup"]
  <2>1. v \in LoopRecords
    BY <1>0 DEF LoopRecords, KeeperPcs
  <2>2. /\ v.role = "cleanup" /\ v.target = w.target /\ v.tag = w.tag /\ v.shown = w.shown
        /\ v.todo = w.todo /\ v.pc = "recover"
    BY <1>0 DEF LoopRecords
  <2>3. GoodSlot(v, Issued')
    <3> HIDE DEF v
    <3> QED
      BY <1>0, <1>3, <2>1, <2>2 DEF CleanupBegins, GoodSlot, SlotWellFormed, SlotHolds, KeeperPcs, ClaimPcs
  <2>4. GoodSlots(Issued)'
    BY <1>0, <1>3, <2>3, OneSlot DEF CleanupBegins
  <2>5. GoodRefs'
    BY <1>0, <1>3, UntouchedStay DEF CleanupBegins
  <2> QED
    BY <1>q2, <2>4, <2>5, ApartNext
<1>4. CASE KeeperRecovers(l)
  <2>0. w.pc = "recover" /\ w.role # "task"
    BY <1>0, <1>4 DEF KeeperRecovers, GoodSlot, SlotWellFormed, TaskPcs
  <2>1. ASSUME NEW p \in {"cancel", "settled"}, NEW c, p = "cancel" => c \in Issued',
               c \in Claims \cup {NoClaim},
               Become(l, [w EXCEPT !.pc = p, !.claim = c])
        PROVE  GoodSlots(Issued)'
    <3> DEFINE v == [w EXCEPT !.pc = p, !.claim = c]
    <3>1. v \in LoopRecords
      BY <1>0, <2>1 DEF LoopRecords, KeeperPcs
    <3>2. /\ v.role = w.role /\ v.target = w.target /\ v.tag = w.tag /\ v.shown = w.shown
          /\ v.todo = w.todo /\ v.pc = p /\ v.claim = c
      BY <1>0 DEF LoopRecords
    <3>3. GoodSlot(v, Issued')
      <4> HIDE DEF v
      <4> QED
        BY <1>0, <2>0, <2>1, <3>1, <3>2 DEF GoodSlot, SlotWellFormed, SlotHolds, KeeperPcs, ClaimPcs
    <3> QED
      BY <1>0, <2>1, <3>3, OneSlot
  <2>2. Issued' \subseteq Claims
    BY DEF Issued, Claims
  <2>3. ASSUME NEW r \in Requirements, RecoverActiveClaim(Target(l), w.tag, r),
               Become(l, [w EXCEPT !.pc = "cancel", !.claim = [req |-> r, gen |-> row[r].gen]])
        PROVE  GoodSlots(Issued)'
    <3>1. [req |-> r, gen |-> row'[r].gen] \in Issued'
      BY <2>3, RunnerClaimIssued DEF RunnerInv
    <3>2. row'[r].gen = row[r].gen
      <4>1. row \in [Requirements -> Rows]
        BY DEF RunnerInv, QueueInv, TypeOK
      <4> QED
        BY <4>1, <2>3 DEF RecoverActiveClaim, Rows
    <3> QED
      BY <2>1, <2>2, <2>3, <3>1, <3>2
  <2>4. ASSUME NEW kept \in {w.shown, NoClaim},
               Become(l, [w EXCEPT !.pc = IF kept = NoClaim THEN "settled" ELSE "cancel",
                                   !.claim = kept])
        PROVE  GoodSlots(Issued)'
    <3>1. kept \in Claims \cup {NoClaim} /\ (kept # NoClaim => kept \in Issued')
      BY <1>0 DEF GoodSlot, SlotHolds, LoopRecords
    <3> QED
      BY <2>1, <2>4, <3>1
  <2>5. GoodSlots(Issued)'
    BY <1>4, <2>3, <2>4 DEF KeeperRecovers
  <2>6. GoodRefs'
    BY <1>0, <1>4, UntouchedStay DEF KeeperRecovers
  <2> QED
    BY <1>q2, <2>5, <2>6, ApartNext
<1>5. CASE KeeperEnds(l)
  <2>1. GoodSlots(Issued)'
    BY <1>0, <1>5, <1>b, LeaveInv DEF KeeperEnds
  <2>2. /\ handle' = handle \/ handle' = [handle EXCEPT ![Target(l)] = None]
        /\ cleanup' = cleanup \/ cleanup' = [cleanup EXCEPT ![Target(l)] = None]
        /\ config' = config
    BY <1>5 DEF KeeperEnds
  <2>3. GoodRefs'
    BY <1>0, <2>2 DEF GoodRefs
  <2> QED
    BY <1>q2, <2>1, <2>3, ApartNext
<1> QED
  BY <1>1, <1>2, <1>3, <1>4, <1>5

\* A command's next state, field by field.
LEMMA CommandBecomes ==
    ASSUME RunnerTypeOK, Issued \subseteq Issued', NEW s \in Sessions,
           NEW c, c \in CmdRecords, c.todo \subseteq Issued', CommandWellFormed(c),
           cmd' = [cmd EXCEPT ![s] = c]
    PROVE  GoodCommands(Issued)'
BY OneCommand DEF GoodCommand

\* A command ends.
LEMMA CommandEnds ==
    ASSUME RunnerTypeOK, Issued \subseteq Issued', NEW s \in Sessions, End(s)
    PROVE  GoodCommands(Issued)'
<1>1. NoCmd \in CmdRecords /\ NoCmd.todo = {} /\ CommandWellFormed(NoCmd)
  BY DEF NoCmd, CmdRecords, CmdPcs, CommandWellFormed
<1> QED
  BY <1>1, CommandBecomes DEF End

\* Only the program counter moves.
LEMMA CommandSteps ==
    ASSUME RunnerTypeOK, Issued \subseteq Issued', NEW s \in Sessions, NEW p \in CmdPcs,
           (\/ p \in {"resume", "start", "publish", "rollback"}
            \/ p \in {"quiesce", "joining"} /\ cmd[s].next = "publish") => cmd[s].tag \in Tags,
           p \in {"idle", "wait", "join", "park", "cancel"} => ~cmd[s].request,
           Step(s, p)
    PROVE  GoodCommands(Issued)'
<1> DEFINE w == cmd[s]
           c == [w EXCEPT !.pc = p]
<1>0. w \in CmdRecords /\ cmd \in [Sessions -> CmdRecords] /\ w.todo \subseteq Issued
  BY Apart DEF GoodCommands, GoodCommand
<1>2. c \in CmdRecords
  BY <1>0 DEF CmdRecords
<1>3. c.pc = p /\ c.next = w.next /\ c.tag = w.tag /\ c.todo = w.todo /\ c.request = w.request
  BY <1>0 DEF CmdRecords
<1>4. cmd' = [cmd EXCEPT ![s] = c]
  BY <1>0 DEF Step
<1>5. CommandWellFormed(c)
  <2> HIDE DEF c
  <2> QED
    BY <1>3 DEF CommandWellFormed
<1> QED
  BY <1>0, <1>2, <1>3, <1>4, <1>5, CommandBecomes

\* Taking a handle only flags its loop.
LEMMA TakeHandleInv ==
    ASSUME RunnerTypeOK, Issued \subseteq Issued', NEW s \in Sessions, handle[s] # None, TakeHandle(s)
    PROVE  GoodSlots(Issued)' /\ handle' \in [Sessions -> Loops \cup {None}]
<1> DEFINE l == handle[s]
           w == loop[l]
           v == [w EXCEPT !.cancelled = TRUE, !.handoff = TRUE]
<1>0. l \in Loops /\ GoodRefs /\ loop \in [Loops -> LoopRecords] /\ GoodSlot(w, Issued) /\ w \in LoopRecords
  BY Apart DEF GoodSlots, GoodRefs, GoodSlot
<1>1. v \in LoopRecords
  BY <1>0 DEF LoopRecords
<1>2. /\ v.role = w.role /\ v.target = w.target /\ v.tag = w.tag /\ v.shown = w.shown
      /\ v.todo = w.todo /\ v.claim = w.claim /\ v.pc = w.pc
  BY <1>0 DEF LoopRecords
<1>3. GoodSlot(v, Issued')
  <2> HIDE DEF v
  <2> QED
    BY <1>0, <1>1, <1>2 DEF GoodSlot, SlotWellFormed, SlotHolds
<1>4. Become(l, v)
  BY <1>0 DEF Become, TakeHandle
<1>5. GoodSlots(Issued)'
  BY <1>0, <1>3, <1>4, OneSlot
<1>6. handle' \in [Sessions -> Loops \cup {None}]
  BY <1>0 DEF TakeHandle, GoodRefs
<1> QED
  BY <1>5, <1>6

\* The history of disables cut short changes nothing else of the host.
LEMMA CutInv ==
    ASSUME GoodHost(host, Issued), Issued \subseteq Issued', NEW s \in Sessions, NEW yes,
           \/ host' = [host EXCEPT !.cut = IF yes THEN @ \cup {s} ELSE @]
           \/ host' = [host EXCEPT !.cut = @ \ {s}]
    PROVE  GoodHost(host, Issued)'
<1>1. host \in HostRecords
  BY DEF GoodHost
<1>2. host' \in HostRecords /\ host'.recover = host.recover /\ host'.stops = host.stops
  BY <1>1 DEF HostRecords
<1> QED
  BY <1>2 DEF GoodHost

\* Every step of a command keeps the invariant.
LEMMA CommandStepInv ==
    ASSUME RunnerInv, Issued \subseteq Issued', NEW s \in Sessions, CommandStep(s)
    PROVE  RunnerTypeOK'
<1> DEFINE w == cmd[s]
<1>0. /\ RunnerTypeOK /\ GoodRefs /\ GoodCommand(w, Issued) /\ w \in CmdRecords
      /\ cmd \in [Sessions -> CmdRecords] /\ w.todo \subseteq Issued /\ CommandWellFormed(w)
  BY Apart DEF GoodCommands, GoodCommand, RunnerInv
<1>f. /\ w.pc \in CmdPcs /\ w.next \in {"idle", "save", "publish", "failed"} /\ w.next \in CmdPcs
      /\ w.tag \in Tags \cup {None} /\ w.max \in Nat /\ w.rev \in Nat /\ w.loop \in Loops \cup {None}
      /\ w.todo \subseteq Issued'
  BY <1>0 DEF CmdRecords, CmdPcs
<1>h. \/ UNCHANGED host
      \/ CutShort(s, w.tag = None)
      \/ host' = [host EXCEPT !.cut = @ \ {s}]
  BY DEF CommandStep, Quiesce, CleanupJoined, WaitTimesOut, SaveConfig, ResumeForEnable, StartFound,
         LaunchLoop, RollBack, ReplyError, DeleteTakes, DeleteJoins, DeleteParks, DeleteCancels
<1>h2. GoodHost(host, Issued)'
  BY <1>0, <1>h, UntouchedStay, CutInv, Apart DEF CutShort
<1>e. End(s) => GoodCommands(Issued)'
  BY <1>0, CommandEnds
<1>p. ASSUME NEW p \in {"joining", "failed", "park"}, p = "joining" => w.pc = "quiesce",
             p = "park" => w.pc = "wait", Step(s, p)
      PROVE  GoodCommands(Issued)'
  BY <1>0, <1>p, CommandSteps DEF CommandWellFormed, CmdPcs
<1>n. ASSUME w.pc \in {"quiesce", "joining"}, w.next # "idle", Step(s, w.next)
      PROVE  GoodCommands(Issued)'
  BY <1>0, <1>f, <1>n, CommandSteps DEF CommandWellFormed, CmdPcs
<1>g. ASSUME NEW c \in CmdRecords, c.todo \subseteq Issued', c.tag = w.tag,
             (\/ c.pc \in {"resume", "start", "publish", "rollback"}
              \/ c.pc \in {"quiesce", "joining"} /\ c.next = "publish") => w.tag \in Tags,
             c.request = w.request, c.pc \in {"idle", "wait", "join", "park", "cancel"} => ~w.request,
             cmd' = [cmd EXCEPT ![s] = c]
      PROVE  GoodCommands(Issued)'
  BY <1>0, <1>g, CommandBecomes DEF CommandWellFormed
<1>1. CASE Quiesce(s)
  <2>1. GoodCommands(Issued)'
    BY <1>1, <1>e, <1>p, <1>n DEF Quiesce
  <2>2. CASE UNCHANGED <<loop, handle, cleanup>>
    BY <1>0, <1>1, <1>h2, <2>1, <2>2, UntouchedStay, ApartNext DEF Quiesce
  <2>3. CASE handle[s] # None /\ TakeHandle(s) /\ cleanup' = [cleanup EXCEPT ![s] = handle[s]]
    <3>1. GoodSlots(Issued)' /\ handle' \in [Sessions -> Loops \cup {None}]
      BY <1>0, <2>3, TakeHandleInv
    <3>2. GoodRefs'
      BY <1>0, <1>1, <2>3, <3>1 DEF GoodRefs, Quiesce
    <3> QED
      BY <1>h2, <2>1, <3>1, <3>2, ApartNext
  <2> QED
    BY <1>1, <2>2, <2>3 DEF Quiesce
<1>2. CASE CleanupJoined(s)
  BY <1>0, <1>2, <1>h2, <1>e, <1>n, UntouchedStay, ApartNext DEF CleanupJoined
<1>3. CASE WaitTimesOut(s)
  <2>1. CASE Step(s, "failed")
    BY <1>0, <1>3, <2>1, <1>h2, <1>p, UntouchedStay, ApartNext DEF WaitTimesOut
  <2>2. CASE w.tag \in Tags /\ Step(s, "rollback")
    <3>1. GoodCommands(Issued)'
      BY <1>0, <2>2, CommandSteps DEF CmdPcs
    <3> QED
      BY <1>0, <1>3, <1>h2, <3>1, UntouchedStay, ApartNext DEF WaitTimesOut
  <2> QED
    BY <1>0, <1>3, <2>1, <2>2 DEF WaitTimesOut, CommandWellFormed
<1>4. CASE SaveConfig(s)
  <2> DEFINE new == Committed(config[s], w.tag, w.max)
             pp == IF w.tag = None THEN "quiesce" ELSE "resume"
  <2>1. new \in Configs /\ new.rev \in Nat
    BY <1>0, <1>f, CommittedConfig DEF GoodRefs, Configs
  <2>2. config' \in [Sessions -> Configs]
    BY <1>0, <1>4, <2>1 DEF SaveConfig, GoodRefs
  <2>3. GoodRefs'
    BY <1>0, <1>4, <2>2 DEF SaveConfig, GoodRefs
  <2>4. ASSUME cmd' = [cmd EXCEPT ![s].rev = new.rev, ![s].pc = pp, ![s].next = "idle"]
        PROVE  GoodCommands(Issued)'
    <3> HIDE DEF new
    <3> DEFINE c == [w EXCEPT !.rev = new.rev, !.pc = pp, !.next = "idle"]
    <3>c1. c \in CmdRecords /\ c.tag = w.tag /\ c.todo = w.todo /\ c.pc = pp /\ c.next = "idle"
            /\ c.request = w.request
      BY <1>0, <1>f, <2>1 DEF CmdRecords, CmdPcs
    <3>c2. cmd' = [cmd EXCEPT ![s] = c]
      BY <1>0, <2>4
    <3> HIDE DEF c
    <3> QED
      BY <1>f, <1>g, <3>c1, <3>c2
  <2>5. GoodCommands(Issued)'
    BY <1>4, <1>p, <2>4 DEF SaveConfig
  <2> QED
    BY <1>0, <1>4, <1>h2, <2>3, <2>5, UntouchedStay, ApartNext DEF SaveConfig
<1>5. CASE ResumeForEnable(s)
  <2>1. w.tag \in Tags /\ (Step(s, "start") \/ Step(s, "rollback"))
    BY <1>0, <1>5 DEF ResumeForEnable, CommandWellFormed
  <2>2. GoodCommands(Issued)'
    BY <1>0, <2>1, CommandSteps DEF CmdPcs
  <2> QED
    BY <1>0, <1>5, <1>h2, <2>2, UntouchedStay, ApartNext DEF ResumeForEnable
<1>6. CASE StartFound(s)
  <2>1. ASSUME cmd' = [cmd EXCEPT ![s].pc = "quiesce", ![s].next = "publish"]
        PROVE  GoodCommands(Issued)'
    <3>1. w.tag \in Tags
      BY <1>0, <1>6 DEF StartFound, CommandWellFormed
    <3> DEFINE c == [w EXCEPT !.pc = "quiesce", !.next = "publish"]
    <3>c1. c \in CmdRecords /\ c.tag = w.tag /\ c.todo = w.todo /\ c.request = w.request /\ c.pc = "quiesce"
      BY <1>0, <1>f DEF CmdRecords, CmdPcs
    <3>c2. cmd' = [cmd EXCEPT ![s] = c]
      BY <1>0, <2>1
    <3> HIDE DEF c
    <3> QED
      BY <1>f, <1>g, <3>1, <3>c1, <3>c2
  <2>2. GoodCommands(Issued)'
    BY <1>6, <1>e, <2>1 DEF StartFound
  <2> QED
    BY <1>0, <1>6, <1>h2, <2>2, UntouchedStay, ApartNext DEF StartFound
<1>7. CASE LaunchLoop(s)
  <2> DEFINE l == CHOOSE x \in FreeLoops : TRUE
             v == [NoLoop EXCEPT !.pc = "born", !.target = s, !.tag = w.tag, !.max = w.max, !.rev = w.rev]
  <2>1. l \in Loops
    BY <1>7 DEF LaunchLoop, FreeLoops
  <2>2. w.tag \in Tags
    BY <1>0, <1>7 DEF LaunchLoop, CommandWellFormed
  <2>3. /\ v \in LoopRecords /\ v.pc = "born" /\ v.role = "task" /\ v.target = s /\ v.tag = w.tag
        /\ v.shown = NoClaim /\ v.todo = {}
    BY <1>f, <2>2 DEF LoopRecords, NoLoop, TaskPcs, Receipts
  <2>4. GoodSlot(v, Issued')
    <3> HIDE DEF v
    <3> QED
      BY <2>2, <2>3 DEF GoodSlot, SlotWellFormed, SlotHolds, TaskPcs, ClaimPcs
  <2>5. Become(l, v) /\ handle' = [handle EXCEPT ![s] = l] /\ End(s) /\ UNCHANGED <<config, cleanup>>
    BY <1>7 DEF LaunchLoop
  <2> HIDE DEF l, v
  <2>6. GoodSlots(Issued)'
    BY <1>0, <2>1, <2>4, <2>5, OneSlot
  <2>7. GoodRefs'
    BY <1>0, <2>1, <2>5 DEF GoodRefs
  <2> QED
    BY <1>e, <1>h2, <2>5, <2>6, <2>7, ApartNext
<1>8. CASE RollBack(s)
  <2> DEFINE c == [w EXCEPT !.pc = "quiesce", !.next = "failed"]
  <2>c1. c \in CmdRecords /\ c.tag = w.tag /\ c.todo = w.todo /\ c.pc = "quiesce" /\ c.next = "failed"
         /\ c.request = w.request
    BY <1>0, <1>f DEF CmdRecords, CmdPcs
  <2>c2. cmd' = [cmd EXCEPT ![s] = c]
    BY <1>0, <1>8 DEF RollBack
  <2> HIDE DEF c
  <2>2. GoodCommands(Issued)'
    BY <1>f, <1>g, <2>c1, <2>c2
  <2>3. config' \in [Sessions -> Configs]
    BY <1>0, <1>8, CommittedConfig DEF RollBack, Disabled, GoodRefs
  <2>4. GoodRefs'
    BY <1>0, <1>8, <2>3 DEF RollBack, GoodRefs
  <2> QED
    BY <1>0, <1>8, <1>h2, <2>2, <2>4, UntouchedStay, ApartNext DEF RollBack
<1>9. CASE ReplyError(s)
  BY <1>0, <1>9, <1>e, <1>h2, UntouchedStay, ApartNext DEF ReplyError
<1>10. CASE DeleteTakes(s)
  <2>1. CASE Step(s, "park") /\ UNCHANGED <<loop, handle>>
    BY <1>0, <1>10, <1>p, <1>h2, <2>1, UntouchedStay, ApartNext DEF DeleteTakes
  <2>2. CASE /\ handle[s] # None /\ TakeHandle(s)
             /\ cmd' = [cmd EXCEPT ![s].pc = "join", ![s].loop = handle[s]]
    <3>1. GoodSlots(Issued)' /\ handle' \in [Sessions -> Loops \cup {None}]
      BY <1>0, <2>2, TakeHandleInv
    <3>2. handle[s] \in Loops \cup {None}
      BY <1>0 DEF GoodRefs
    <3> DEFINE c == [w EXCEPT !.pc = "join", !.loop = handle[s]]
    <3>c1. c \in CmdRecords /\ c.tag = w.tag /\ c.todo = w.todo /\ c.pc = "join" /\ c.request = w.request
      BY <1>0, <1>f, <3>2 DEF CmdRecords, CmdPcs
    <3>c2. cmd' = [cmd EXCEPT ![s] = c]
      BY <1>0, <2>2
    <3> HIDE DEF c
    <3>3. ~w.request
      BY <1>0, <1>10 DEF DeleteTakes, CommandWellFormed
    <3>4. GoodCommands(Issued)'
      BY <1>f, <1>g, <3>c1, <3>c2, <3>3
    <3>5. GoodRefs'
      BY <1>0, <1>10, <3>1 DEF DeleteTakes, GoodRefs
    <3> QED
      BY <1>h2, <3>1, <3>4, <3>5, ApartNext
  <2> QED
    BY <1>10, <2>1, <2>2 DEF DeleteTakes
<1>11. CASE DeleteJoins(s)
  <2> DEFINE l == w.loop
  <2>0. ~w.request
    BY <1>0, <1>11 DEF DeleteJoins, CommandWellFormed
  <2>1. ASSUME NEW p \in {"park", "failed"}, cmd' = [cmd EXCEPT ![s].pc = p, ![s].loop = None]
        PROVE  GoodCommands(Issued)'
    <3> DEFINE c == [w EXCEPT !.pc = p, !.loop = None]
    <3>c1. c \in CmdRecords /\ c.tag = w.tag /\ c.todo = w.todo /\ c.pc = p /\ c.request = w.request
      BY <1>0, <1>f DEF CmdRecords, CmdPcs
    <3>c2. cmd' = [cmd EXCEPT ![s] = c]
      BY <1>0, <2>1
    <3> HIDE DEF c
    <3> QED
      BY <1>f, <1>g, <2>0, <3>c1, <3>c2
  <2>2. GoodCommands(Issued)'
    BY <1>11, <2>1 DEF DeleteJoins
  <2>3. ASSUME loop[l].pc = "gone", Leave(l, cleanup, cmd', loop[l].custodian)
        PROVE  GoodSlots(Issued)'
    <3>1. CASE l \in Loops
      <4>1. loop[l].custodian \in BOOLEAN
        BY <1>0, <3>1, Apart DEF GoodSlots, LoopRecords
      <4> QED
        BY <1>0, <2>3, <3>1, <4>1, LeaveInv
    <3>2. CASE l \notin Loops
      <4>1. loop \in [Loops -> LoopRecords]
        BY <1>0, Apart DEF GoodSlots
      <4>2. loop' = loop
        BY <2>3, <3>2, <4>1 DEF Leave, Become
      <4> QED
        BY <1>0, <4>2, UntouchedStay
    <3> QED
      BY <3>1, <3>2
  <2>4. GoodSlots(Issued)'
    BY <1>0, <1>11, <2>3, UntouchedStay DEF DeleteJoins
  <2> QED
    BY <1>0, <1>11, <1>h2, <2>2, <2>4, UntouchedStay, ApartNext DEF DeleteJoins
<1>12. CASE DeleteParks(s)
  <2> DEFINE d == {k \in Issued : /\ row[k.req].owner = s /\ row[k.req].gen = k.gen
                                  /\ row'[k.req].status = "needs_review"}
  <2>1. ASSUME cmd' = [cmd EXCEPT ![s].pc = "cancel", ![s].todo = d] PROVE GoodCommands(Issued)'
    <3>1. d \in SUBSET Issued'
      OBVIOUS
    <3>2. d \in SUBSET Claims
      BY <3>1 DEF Issued, Claims
    <3> DEFINE c == [w EXCEPT !.pc = "cancel", !.todo = d]
    <3>c1. c \in CmdRecords /\ c.tag = w.tag /\ c.todo = d /\ c.pc = "cancel" /\ c.request = w.request /\ ~w.request
      BY <1>0, <1>f, <1>12, <3>2 DEF CmdRecords, CmdPcs, DeleteParks, CommandWellFormed
    <3>c2. cmd' = [cmd EXCEPT ![s] = c]
      BY <1>0, <2>1
    <3> HIDE DEF c
    <3> QED
      BY <1>f, <1>g, <3>1, <3>c1, <3>c2
  <2>2. GoodCommands(Issued)'
    BY <1>12, <1>p, <2>1 DEF DeleteParks
  <2> QED
    BY <1>0, <1>12, <1>h2, <2>2, UntouchedStay, ApartNext DEF DeleteParks
<1>13. CASE DeleteCancels(s)
  <2>1. ASSUME NEW c, cmd' = [cmd EXCEPT ![s].todo = @ \ {c}] PROVE GoodCommands(Issued)'
    <3> DEFINE d == w.todo \ {c}
    <3>1. d \in SUBSET Issued' /\ cmd' = [cmd EXCEPT ![s].todo = d]
      BY <1>0, <1>f, <2>1
    <3>3. w.pc = "cancel" /\ d \in SUBSET Claims
      BY <1>0, <1>13 DEF DeleteCancels, CmdRecords
    <3> DEFINE e == [w EXCEPT !.todo = d]
    <3>c1. e \in CmdRecords /\ e.tag = w.tag /\ e.todo = d /\ e.pc = w.pc /\ e.request = w.request /\ ~w.request
      BY <1>0, <1>f, <3>3 DEF CmdRecords, CmdPcs, CommandWellFormed
    <3>c2. cmd' = [cmd EXCEPT ![s] = e]
      BY <1>0, <3>1
    <3> HIDE DEF e
    <3> QED
      BY <1>f, <1>g, <3>1, <3>3, <3>c1, <3>c2
  <2>2. GoodCommands(Issued)'
    BY <1>13, <1>e, <1>p, <2>1 DEF DeleteCancels
  <2> QED
    BY <1>0, <1>13, <1>h2, <2>2, UntouchedStay, ApartNext DEF DeleteCancels
<1> QED
  BY <1>1, <1>2, <1>3, <1>4, <1>5, <1>6, <1>7, <1>8, <1>9, <1>10, <1>11, <1>12, <1>13 DEF CommandStep

\* Every step of a loop or of its keepers keeps the invariant.
LEMMA LoopStepInv ==
    ASSUME RunnerInv, Issued \subseteq Issued', QueueInv', NEW l \in Loops, LoopStep(l) \/ TaskPanics(l)
    PROVE  RunnerTypeOK'
<1>0. RunnerTypeOK
  BY DEF RunnerInv
<1>1. CASE \/ LoopBegins(l) \/ ListCancelled(l) \/ PurgeCancelled(l) \/ ClaimNext(l) \/ PublishClaim(l)
  <2>1. GoodSlots(Issued)'
    BY <1>1, ClaimingStepInv
  <2>2. UNCHANGED <<config, handle, cleanup, cmd, host>>
    BY <1>1 DEF LoopBegins, ListCancelled, PurgeCancelled, ClaimNext, PublishClaim
  <2> QED
    BY <1>0, <2>1, <2>2, UntouchedStay, ApartNext
<1>2. CASE \/ Admit(l) \/ AwaitReceipt(l) \/ RenewTick(l) \/ JudgeReceipt(l) \/ PauseForAttention(l)
           \/ ReleaseClaim(l) \/ WriteVerdict(l) \/ ConfirmVerdict(l) \/ TurnEnds(l)
           \/ FinishCancelled(l) \/ KeeperCancels(l)
  <2>1. GoodSlots(Issued)'
    BY <1>2, TurnStepInv
  <2>2. UNCHANGED <<config, handle, cleanup, cmd, host>>
    BY <1>2 DEF Admit, AwaitReceipt, RenewTick, JudgeReceipt, PauseForAttention, ReleaseClaim,
                WriteVerdict, ConfirmVerdict, TurnEnds, FinishCancelled, KeeperCancels
  <2> QED
    BY <1>0, <2>1, <2>2, UntouchedStay, ApartNext
<1>3. CASE TaskReturns(l) \/ AbortLands(l) \/ TaskPanics(l)
  BY <1>0, <1>3, DropInv DEF TaskReturns, AbortLands, TaskPanics, TaskAt, TaskRunning
<1>4. CASE CapReached(l) \/ CustodianBegins(l) \/ CleanupBegins(l) \/ KeeperRecovers(l) \/ KeeperEnds(l)
  BY <1>4, KeeperStepInv
<1> QED
  BY <1>1, <1>2, <1>3, <1>4 DEF LoopStep

\* So do the host, the users and a restart.
LEMMA HostStepInv ==
    ASSUME RunnerInv, Issued \subseteq Issued', HostStep \/ UserStep \/ Crash
    PROVE  RunnerTypeOK'
<1>0. /\ RunnerTypeOK /\ GoodRefs /\ GoodHost(host, Issued) /\ cmd \in [Sessions -> CmdRecords]
      /\ host \in HostRecords
  BY Apart DEF GoodCommands, GoodHost, RunnerInv
<1>i. Issued \subseteq Claims
  BY DEF Issued, Claims
<1>host. ASSUME GoodHost(host, Issued)', UNCHANGED <<config, loop, handle, cleanup, cmd>>
         PROVE  RunnerTypeOK'
  BY <1>0, <1>host, UntouchedStay, ApartNext
<1>1. CASE SweeperCollects \/ SweeperSweeps
  <2>1. host' \in HostRecords /\ host'.recover = host.recover /\ host'.stops = host.stops
    BY <1>0, <1>1 DEF SweeperCollects, SweeperSweeps, HostRecords
  <2>2. GoodHost(host, Issued)'
    BY <1>0, <2>1 DEF GoodHost
  <2> QED
    BY <1>1, <1>host, <2>2 DEF SweeperCollects, SweeperSweeps
<1>2. ASSUME NEW c \in Claims, CancellationEnds(c) \/ RecoverExecution(c) PROVE RunnerTypeOK'
  <2>1. host' \in HostRecords /\ host'.recover \subseteq host.recover /\ host'.stops \subseteq host.stops
    BY <1>0, <1>2 DEF CancellationEnds, RecoverExecution, HostRecords
  <2>2. GoodHost(host, Issued)'
    BY <1>0, <2>1 DEF GoodHost
  <2> QED
    BY <1>2, <1>host, <2>2 DEF CancellationEnds, RecoverExecution
<1>3. ASSUME NEW c \in Issued, StopCurrentClaim(c) PROVE RunnerTypeOK'
  <2>1. host' \in HostRecords /\ host'.recover = host.recover /\ host'.stops = host.stops \cup {c}
    BY <1>0, <1>3, <1>i DEF StopCurrentClaim, HostRecords
  <2>2. GoodHost(host, Issued)'
    BY <1>0, <2>1 DEF GoodHost
  <2> QED
    BY <1>3, <1>host, <2>2 DEF StopCurrentClaim
<1>4. ASSUME NEW c, NEW v, AgentDeclares(c, v) PROVE RunnerTypeOK'
  BY <1>0, <1>4, UntouchedStay, ApartNext DEF AgentDeclares, pvars
<1>cmd. ASSUME NEW s \in Sessions, NEW c \in CmdRecords, c.todo = {}, c.next # "publish",
               c.pc \in {"save", "quiesce", "wait"} \/ c.tag \in Tags,
               c.pc \in {"idle", "wait", "join", "park", "cancel"} => ~c.request,
               cmd' = [cmd EXCEPT ![s] = c]
        PROVE  GoodCommands(Issued)'
  BY <1>0, <1>cmd, CommandBecomes DEF CommandWellFormed
<1>5. ASSUME NEW s \in Sessions, ResumeBinding(s) PROVE RunnerTypeOK'
  <2>1. config[s].tag \in Tags \cup {None} /\ config[s].max \in Nat /\ config[s].rev \in Nat
    BY <1>0 DEF GoodRefs, Configs
  <2>2. GoodHost(host, Issued)'
    <3>1. host' \in HostRecords /\ host'.recover = host.recover /\ host'.stops = host.stops
      BY <1>0, <1>5 DEF ResumeBinding, HostRecords
    <3> QED
      BY <1>0, <3>1 DEF GoodHost
  <2>3. ASSUME NEW p \in {"start", "rollback"}, config[s].tag # None,
               cmd' = [cmd EXCEPT ![s] = [NoCmd EXCEPT !.pc = p, !.tag = config[s].tag,
                                                       !.max = config[s].max, !.rev = config[s].rev]]
        PROVE  GoodCommands(Issued)'
    <3> DEFINE c == [NoCmd EXCEPT !.pc = p, !.tag = config[s].tag, !.max = config[s].max,
                                  !.rev = config[s].rev]
    <3>1. c \in CmdRecords /\ c.todo = {} /\ c.next = "idle" /\ c.tag = config[s].tag /\ c.pc = p
      BY <2>1 DEF CmdRecords, CmdPcs, NoCmd
    <3>2. cmd' = [cmd EXCEPT ![s] = c]
      BY <2>3
    <3> HIDE DEF c
    <3> QED
      BY <1>cmd, <2>1, <2>3, <3>1, <3>2
  <2>4. GoodCommands(Issued)'
    BY <1>0, <1>5, <2>3, UntouchedStay DEF ResumeBinding
  <2> QED
    BY <1>0, <1>5, <2>2, <2>4, UntouchedStay, ApartNext DEF ResumeBinding
<1>6. ASSUME NEW s \in Sessions, NEW t \in Tags \cup {None}, NEW m \in Nat, ApplyConfig(s, t, m)
      PROVE  RunnerTypeOK'
  <2>1. config[s].rev \in Nat
    BY <1>0 DEF GoodRefs, Configs
  <2>2. PICK p \in {"save", "quiesce"} :
          cmd' = [cmd EXCEPT ![s] = [NoCmd EXCEPT !.tag = t, !.max = m, !.rev = config[s].rev,
                                                  !.next = "save", !.request = TRUE, !.pc = p]]
    BY <1>6 DEF ApplyConfig
  <2> DEFINE c == [NoCmd EXCEPT !.tag = t, !.max = m, !.rev = config[s].rev, !.next = "save",
                                !.request = TRUE, !.pc = p]
  <2>3. c \in CmdRecords /\ c.todo = {} /\ c.next = "save" /\ c.pc = p
    BY <2>1 DEF CmdRecords, CmdPcs, NoCmd
  <2>4. GoodCommands(Issued)'
    <3>1. cmd' = [cmd EXCEPT ![s] = c]
      BY <2>2
    <3> HIDE DEF c
    <3> QED
      BY <1>cmd, <2>3, <3>1
  <2> QED
    BY <1>0, <1>6, <2>4, UntouchedStay, ApartNext DEF ApplyConfig
<1>7. ASSUME NEW s \in Sessions, DeleteBegins(s) PROVE RunnerTypeOK'
  <2> DEFINE c == [NoCmd EXCEPT !.pc = "wait"]
  <2>1. c \in CmdRecords /\ c.todo = {} /\ c.next = "idle" /\ c.pc = "wait" /\ ~c.request
    BY DEF CmdRecords, CmdPcs, NoCmd
  <2>2. GoodCommands(Issued)'
    <3>1. cmd' = [cmd EXCEPT ![s] = c]
      BY <1>7 DEF DeleteBegins
    <3> HIDE DEF c
    <3> QED
      BY <1>cmd, <2>1, <3>1
  <2> QED
    BY <1>0, <1>7, <2>2, UntouchedStay, ApartNext DEF DeleteBegins
<1>11. ASSUME NEW s \in Sessions, RequestDropped(s) PROVE RunnerTypeOK'
  <2>1. GoodCommands(Issued)'
    BY <1>0, <1>11, CommandEnds DEF RequestDropped
  <2>2. GoodHost(host, Issued)'
    BY <1>0, <1>11, CutInv DEF RequestDropped, CutShort
  <2> QED
    BY <1>0, <1>11, <2>1, <2>2, UntouchedStay, ApartNext DEF RequestDropped
<1>8. CASE Crash
  <2>1. GoodSlots(Issued)'
    BY <1>8, EmptySlot DEF Crash, GoodSlots, GoodSlot
  <2>2. GoodCommands(Issued)'
    BY <1>8 DEF Crash, GoodCommands, GoodCommand, NoCmd, CmdRecords, CmdPcs, CommandWellFormed
  <2>3. GoodRefs'
    BY <1>0, <1>8 DEF Crash, GoodRefs
  <2>4. [s \in Sessions |-> IF config[s].tag # None /\ s \in live THEN config[s].rev ELSE 0]
          \in [Sessions -> Nat]
    BY <1>0 DEF GoodRefs, Configs
  <2>5. {c \in Issued : Exec(c) = "active"} \subseteq Issued /\ host.crashes + 1 \in Nat
    BY <1>0 DEF HostRecords
  <2>6. GoodHost(host, Issued)'
    BY <1>8, <1>i, <2>4, <2>5 DEF Crash, GoodHost, HostRecords
  <2> QED
    BY <2>1, <2>2, <2>3, <2>6, ApartNext
<1>9. CASE HostStep
  BY <1>9, <1>1, <1>2, <1>5 DEF HostStep
<1>10. CASE UserStep
  BY <1>10, <1>3, <1>4, <1>6, <1>7, <1>11, RunnerAssumption DEF UserStep
<1> QED
  BY <1>8, <1>9, <1>10

\* The runner starts in a state of its invariant, ...
LEMMA RunnerInitInv == RunnerInit => RunnerInv
<1> SUFFICES ASSUME RunnerInit PROVE RunnerInv
  OBVIOUS
<1>1. QueueInv
  BY InitInv DEF RunnerInit
<1>2. GoodSlots(Issued)
  BY EmptySlot DEF RunnerInit, GoodSlots, GoodSlot
<1>3. GoodCommands(Issued)
  BY DEF RunnerInit, GoodCommands, GoodCommand, NoCmd, CmdRecords, CmdPcs, CommandWellFormed
<1>4. GoodRefs
  BY DEF RunnerInit, GoodRefs, Configs
<1>5. GoodHost(host, Issued)
  BY DEF RunnerInit, GoodHost, HostRecords
<1> QED
  BY <1>1, <1>2, <1>3, <1>4, <1>5, Apart DEF RunnerInv

\* ... and every step keeps it.
LEMMA RunnerNextInv == RunnerInv /\ [RunnerNext]_rvars => RunnerInv'
<1> SUFFICES ASSUME RunnerInv, [RunnerNext]_rvars PROVE RunnerInv'
  OBVIOUS
<1>1. [Next]_qvars
  BY RunnerRefines DEF RunnerInv
<1>2. QueueInv' /\ Issued \subseteq Issued'
  BY <1>1, NextInv, IssuedGrows DEF RunnerInv, QueueInv
<1>3. CASE \E l \in Loops : LoopStep(l) \/ TaskPanics(l)
  BY <1>2, <1>3, LoopStepInv DEF RunnerInv
<1>4. CASE \E s \in Sessions : CommandStep(s)
  BY <1>2, <1>4, CommandStepInv DEF RunnerInv
<1>5. CASE HostStep \/ UserStep \/ Crash
  BY <1>2, <1>5, HostStepInv DEF RunnerInv
<1>6. CASE QueueEnvironment \/ UNCHANGED rvars
  <2>1. UNCHANGED <<config, loop, handle, cleanup, cmd, host>>
    BY <1>6 DEF QueueEnvironment, pvars, rvars
  <2> QED
    BY <1>2, <2>1, UntouchedStay, ApartNext DEF RunnerInv
<1> QED
  BY <1>3, <1>4, <1>5, <1>6 DEF RunnerNext

-----------------------------------------------------------------------------
\* The runner's state is always well formed, and every claim that a loop, a
\* keeper, a command or a restarted coordinator works on was issued by the
\* queue, for any number of loops, sessions, crashes and reconfigurations.
THEOREM RunnerTypeCorrect == RunnerSpec => []RunnerTypeOK
<1>1. RunnerInv => RunnerTypeOK
  BY DEF RunnerInv
<1> QED
  BY <1>1, RunnerInitInv, RunnerNextInv, PTL DEF RunnerSpec

\* The queue with its runner implements the queue alone: loops, keepers,
\* commands, sweeper, crashes and boot only ever take steps of RequirementQueue.
THEOREM RunnerImplementsQueue == RunnerSpec => Spec
<1>1. RunnerInit => Init
  BY DEF RunnerInit
<1>2. RunnerInv /\ [RunnerNext]_rvars => [Next]_qvars
  BY RunnerRefines DEF RunnerInv
<1> QED
  BY <1>1, <1>2, RunnerInitInv, RunnerNextInv, PTL DEF RunnerSpec, Spec

\* Hence no interleaving of loops, stops, panics, timeouts and crashes makes one
\* queueing of a requirement run twice, ...
THEOREM RunnerNoSecondRun == RunnerSpec => []AtMostOneRunPerQueueing
BY RunnerImplementsQueue, NoSecondRun, PTL

\* ... a session never works on two requirements at a time, ...
THEOREM RunnerSingleActiveClaim == RunnerSpec => []OneActiveClaimPerOwner
BY RunnerImplementsQueue, SingleActiveClaim, PTL

\* ... a claim that a stopping runner gave back never runs afterwards, ...
THEOREM RunnerAbandonedStaysDead == RunnerSpec => []AbandonedClaimNeverRuns
BY RunnerImplementsQueue, AbandonedStaysDead, PTL

\* ... a requirement's attempt count never exceeds the claims that the runner
\* did not give back, whatever it releases late or twice, ...
THEOREM RunnerBudgetKept == RunnerSpec => []AttemptBudget
BY RunnerImplementsQueue, BudgetKept, PTL

\* ... and no update of a row by a loop, keeper or command is aborted by a trigger
\* of the schema; the release of an admitted claim, which the runner does issue,
\* is refused before it updates a row.
THEOREM RunnerPassesTriggers == RunnerSpec => UpdatesPassTriggers
BY RunnerImplementsQueue, UpdatesAreLawful, PTL

=============================================================================

------------------------- MODULE AutoWorkRunnerSafety -------------------------
(***************************************************************************)
(* Who works for a session, for which config, with which result: the       *)
(* safety properties of the runner, proved for any number of sessions,     *)
(* loops, claims, commands and crashes.                                    *)
(***************************************************************************)
EXTENDS AutoWorkRunnerProofs

Works(w) == w.pc \notin {"free", "gone"}

\* The commands during which, or after which, a deleted session may still have
\* a worker that its delete did not wait for.
DeletePcs == {"wait", "join", "park", "cancel"}
StrayPcs == {"idle", "failed"} \cup DeletePcs

\* An empty slot is blank; a custodian was spawned once; a cleanup owner at
\* work is the one its session waits for.
SlotInv(l) ==
    /\ loop[l].pc = "free" => loop[l] = NoLoop
    /\ Works(loop[l]) /\ loop[l].role = "custodian" => ~loop[l].custodian
    /\ Works(loop[l]) /\ loop[l].role = "cleanup" => cleanup[Target(l)] = l

\* A published handle belongs to an instance that nobody took over; a cleanup
\* owner and a delete took theirs over.  A command that is past its stop finds
\* neither of them.
OwnerInv(s) ==
    /\ handle[s] # None =>
         loop[handle[s]].pc # "free" /\ Target(handle[s]) = s /\ ~loop[handle[s]].handoff
    /\ cleanup[s] # None =>
         loop[cleanup[s]].pc # "free" /\ Target(cleanup[s]) = s /\ loop[cleanup[s]].handoff
    /\ handle[s] = None \/ cleanup[s] = None
    /\ cmd[s].pc = "joining" => handle[s] = None
    /\ cmd[s].pc \in {"publish", "join", "park", "cancel"} => handle[s] = None /\ cleanup[s] = None
    /\ cmd[s].pc \in DeletePcs => s \notin live
    /\ cmd[s].pc = "join" =>
         /\ cmd[s].loop \in Loops
         /\ loop[cmd[s].loop].pc # "free" /\ Target(cmd[s].loop) = s /\ loop[cmd[s].loop].handoff

\* Whoever is unfinished is published, awaited by a cleanup, or left behind by
\* the delete of its session, which never starts a loop again.  No task is left
\* behind but the one a delete is joining.
Stray(l, s) ==
    /\ s \notin live /\ handle[s] = None /\ cleanup[s] = None
    /\ cmd[s].pc \in StrayPcs
    /\ Works(loop[l]) /\ loop[l].role = "task" => cmd[s].pc = "join" /\ cmd[s].loop = l
Attended(l) ==
    Unfinished(l) =>
        \/ handle[Target(l)] = l
        \/ cleanup[Target(l)] = l
        \/ Stray(l, Target(l))

WorkerInv ==
    /\ \A l \in Loops : SlotInv(l) /\ Attended(l)
    /\ \A s \in Sessions : OwnerInv(s)
    /\ OneWorkerPerTarget

\* The config a loop was started with, and whether it still may claim for it.
Binding(w) == [tag |-> w.tag, max |-> w.max, rev |-> w.rev]
Serving(w) == w.role = "task" /\ Works(w) /\ ~w.cancelled
\* A loop in charge of its session, and a disable or rollback that is committed
\* but has not stopped the loop, or never will.
InCharge(s) == handle[s] # None /\ Serving(loop[handle[s]])
CutOff(s) == s \in host.cut \/ (cmd[s].pc = "quiesce" /\ cmd[s].next \in {"idle", "failed"})
\* A loop that a disable has passed by finds it, or the same binding again.
Outlived(g, w) == g.tag = None \/ (g.tag = w.tag /\ g.max = w.max)
Fits(s) ==
    \/ config[s] = Binding(loop[handle[s]])
    \/ CutOff(s) /\ Outlived(config[s], loop[handle[s]])

\* The loop in charge fits the config, also under the binding that a command is
\* about to save without stopping it; a command about to start a loop carries
\* the config as persisted.
BindingInv(s) ==
    /\ InCharge(s) =>
         /\ Fits(s)
         /\ cmd[s].pc = "save" /\ cmd[s].tag # None =>
              cmd[s].tag = loop[handle[s]].tag /\ cmd[s].max = loop[handle[s]].max
    /\ (\/ cmd[s].pc \in {"resume", "start", "publish"}
        \/ cmd[s].pc \in {"quiesce", "joining"} /\ cmd[s].next = "publish") =>
         config[s] = [tag |-> cmd[s].tag, max |-> cmd[s].max, rev |-> cmd[s].rev]

\* A receipt that says completed or failed says it of the claim at hand, and is
\* gone before the next claim.
LatePcs == {"judge", "pausefirst", "release", "verdict", "confirm", "pause", "reread", "finish",
            "settled", "exit"}
ReceiptInv(l) ==
    loop[l].receipt \in {"completed", "failed"} =>
        /\ loop[l].claim \in Issued /\ Exec(loop[l].claim) = loop[l].receipt
        /\ loop[l].pc \in LatePcs

\* Once the delete has parked the session's claims it owns none, and the parked
\* ones that still run are those it is about to cancel.
DeleteInv(s) ==
    cmd[s].pc = "cancel" =>
        /\ ActiveClaims(s) = {}
        /\ \A c \in Issued :
             Holder(c) = s /\ ClaimStands(c, "needs_review") /\ Exec(c) = "active" => c \in cmd[s].todo
-----------------------------------------------------------------------------
(* Steps that stay within one worker *)

\* Worker x is worker w some steps later.
SameWorker(w, x) ==
    /\ Works(w) /\ Works(x)
    /\ x.target = w.target /\ x.role = w.role /\ x.handoff = w.handoff
    /\ x.custodian = w.custodian /\ Binding(x) = Binding(w)
    /\ w.cancelled => x.cancelled

\* The slots are typed and so are the references to them.
Typed ==
    /\ loop \in [Loops -> LoopRecords] /\ cmd \in [Sessions -> CmdRecords]
    /\ config \in [Sessions -> Configs]
    /\ handle \in [Sessions -> Loops \cup {None}] /\ cleanup \in [Sessions -> Loops \cup {None}]
    /\ host \in HostRecords
    /\ \A l \in Loops : Works(loop[l]) \/ loop[l].pc = "gone" => Target(l) \in Sessions
    /\ \A s \in Sessions : CommandWellFormed(cmd[s])

\* They are, in every state of the runner.
LEMMA AllTyped == RunnerTypeOK => Typed
BY DEF RunnerTypeOK, Typed, SlotWellFormed, Works, Target

\* Sessions are only ever retired.
LEMMA LiveShrinks == [Next]_qvars => live' \subseteq live
<1>1. CASE RowCommand
  BY <1>1 DEF RowCommand, Create, UpdateMetadata, Delete, TransitionStatus, Requeue, LeaseExpires
<1>2. CASE ClaimCommand
  BY <1>2 DEF ClaimCommand, RecoverActiveClaim, ClaimPending, RenewLease, ResolveClaim, AbandonClaim,
              AbandonAborted, DetachOwner, SweepExpiredLeases, qvars
<1>3. CASE TagCommand
  BY <1>3 DEF TagCommand, PauseTag, ResumeTag, ResumeTagForEnable
<1>4. CASE ExecutionStep
  BY <1>4 DEF ExecutionStep, AdmitExecution, AdmitAttempt, SettleExecution, CancelExecution, RetireSession
<1> QED
  BY <1>1, <1>2, <1>3, <1>4 DEF Next, qvars

\* What a step that touches one slot does to the slots.
LEMMA OneBecomes ==
    ASSUME loop \in [Loops -> LoopRecords], NEW l \in Loops, NEW x, Become(l, x)
    PROVE  loop'[l] = x /\ \A m \in Loops \ {l} : loop'[m] = loop[m]
BY DEF Become

\* The fields of a slot that a step of the same worker may change.
LEMMA WorkerGoes ==
    ASSUME NEW w \in LoopRecords, Works(w), NEW p, p \notin {"free", "gone"},
           NEW c, NEW d, NEW e, NEW t, NEW n, NEW b
    PROVE  /\ SameWorker(w, [w EXCEPT !.pc = p])
           /\ SameWorker(w, [w EXCEPT !.pc = p, !.todo = t])
           /\ SameWorker(w, [w EXCEPT !.todo = t])
           /\ SameWorker(w, [w EXCEPT !.pc = p, !.claim = c])
           /\ SameWorker(w, [w EXCEPT !.pc = p, !.shown = d])
           /\ SameWorker(w, [w EXCEPT !.pc = p, !.receipt = e])
           /\ SameWorker(w, [w EXCEPT !.receipt = e, !.pc = p])
           /\ SameWorker(w, [w EXCEPT !.pc = p, !.blocked = b])
           /\ SameWorker(w, [w EXCEPT !.pc = p, !.cancelled = TRUE])
           /\ (w.cancelled => b) =>
                SameWorker(w, [w EXCEPT !.pc = p, !.claim = c, !.shown = d, !.receipt = e,
                                        !.completed = n, !.blocked = FALSE, !.cancelled = b])
BY DEF LoopRecords, Works, SameWorker, Binding

\* The worker of a slot goes on, and nobody else does anything.
Onward(l) ==
    /\ UNCHANGED <<handle, cleanup, cmd>>
    /\ \A m \in Loops \ {l} : loop'[m] = loop[m]
    /\ loop'[l] = loop[l] \/ SameWorker(loop[l], loop'[l])

\* Go goes on.
LEMMA GoOnward ==
    ASSUME Typed, NEW l \in Loops, Works(loop[l]), NEW p, p \notin {"free", "gone"}, Go(l, p),
           UNCHANGED <<handle, cleanup, cmd>>
    PROVE  Onward(l)
<1>1. loop[l] \in LoopRecords
  BY DEF Typed
<1>2. SameWorker(loop[l], [loop[l] EXCEPT !.pc = p])
  BY <1>1 DEF LoopRecords, SameWorker, Works, Binding
<1> QED
  BY <1>2, OneBecomes DEF Go, Onward, Typed

\* So does any change that keeps the worker.
LEMMA BecomeOnward ==
    ASSUME Typed, NEW l \in Loops, NEW x, Become(l, x), SameWorker(loop[l], x),
           UNCHANGED <<handle, cleanup, cmd>>
    PROVE  Onward(l)
BY OneBecomes DEF Onward, Typed

\* The end of a turn keeps the worker.
LEMMA TurnOverOnward ==
    ASSUME Typed, NEW l \in Loops, Works(loop[l]), NEW p, p \notin {"free", "gone"}, NEW n, NEW b,
           TurnOver(l, p, n, b), UNCHANGED <<handle, cleanup, cmd>>
    PROVE  Onward(l)
<1> DEFINE k == loop[l].cancelled \/ b
           x == [loop[l] EXCEPT !.pc = p, !.claim = NoClaim, !.shown = NoClaim, !.receipt = "none",
                                !.completed = n, !.blocked = FALSE, !.cancelled = k]
<1>1. Become(l, x)
  BY DEF TurnOver
<1>2. loop[l].cancelled => k
  OBVIOUS
<1>3. loop[l] \in LoopRecords
  BY DEF Typed
<1>4. SameWorker(loop[l], x)
  <2> HIDE DEF k
  <2> QED
    BY <1>2, <1>3, WorkerGoes
<1> QED
  BY <1>1, <1>4, BecomeOnward

\* The steps of a task before it has a claim, and of a keeper before it settles.
LEMMA EarlySteps ==
    ASSUME Typed, NEW l \in Loops,
           \/ LoopBegins(l) \/ ListCancelled(l) \/ PurgeCancelled(l) \/ ClaimNext(l)
           \/ PublishClaim(l) \/ KeeperRecovers(l) \/ KeeperCancels(l)
    PROVE  Onward(l)
<1>0. loop[l] \in LoopRecords
  BY DEF Typed
<1>1. CASE LoopBegins(l)
  BY <1>1, GoOnward DEF LoopBegins, TaskAt, Works
<1>2. CASE ListCancelled(l)
  <2>1. Works(loop[l])
    BY <1>2 DEF ListCancelled, Works
  <2>2. CASE Go(l, "exit")
    BY <1>2, <2>1, <2>2, GoOnward DEF ListCancelled
  <2>3. CASE Become(l, [loop[l] EXCEPT !.pc = "purge", !.todo = OwnCancelled(Target(l), loop[l].tag)])
    BY <1>0, <1>2, <2>1, <2>3, BecomeOnward, WorkerGoes DEF ListCancelled
  <2> QED
    BY <1>2, <2>2, <2>3 DEF ListCancelled
<1>3. CASE PurgeCancelled(l)
  <2>1. Works(loop[l]) /\ UNCHANGED <<handle, cleanup, cmd>>
    BY <1>3 DEF PurgeCancelled, Works
  <2>2. ASSUME NEW p \in {"ready", "recover", "exit"}, Go(l, p) PROVE Onward(l)
    BY <2>1, <2>2, GoOnward
  <2>3. ASSUME NEW c, NEW ans,
               Become(l, [loop[l] EXCEPT !.todo = IF ans = "error" THEN @ ELSE @ \ {c}])
        PROVE  Onward(l)
    <3> DEFINE t == IF ans = "error" THEN loop[l].todo ELSE loop[l].todo \ {c}
    <3>1. Become(l, [loop[l] EXCEPT !.todo = t])
      BY <2>3
    <3> HIDE DEF t
    <3>2. SameWorker(loop[l], [loop[l] EXCEPT !.todo = t])
      BY <1>0, <2>1, WorkerGoes
    <3> QED
      BY <2>1, <3>1, <3>2, BecomeOnward
  <2> QED
    BY <1>3, <2>2, <2>3 DEF PurgeCancelled
<1>4. CASE ClaimNext(l)
  <2>1. Works(loop[l]) /\ UNCHANGED <<handle, cleanup, cmd>>
    BY <1>4 DEF ClaimNext, TaskAt, Works
  <2>2. CASE Go(l, "exit")
    BY <2>1, <2>2, GoOnward
  <2>3. ASSUME NEW r,
               Become(l, [loop[l] EXCEPT !.pc = "claimed", !.claim = [req |-> r, gen |-> row'[r].gen]])
        PROVE  Onward(l)
    <3> DEFINE c == [req |-> r, gen |-> row'[r].gen]
    <3>1. SameWorker(loop[l], [loop[l] EXCEPT !.pc = "claimed", !.claim = c])
      <4> HIDE DEF c
      <4> QED
        BY <1>0, <2>1, WorkerGoes
    <3> QED
      BY <2>1, <2>3, <3>1, BecomeOnward
  <2> QED
    BY <1>4, <2>2, <2>3 DEF ClaimNext
<1>5. CASE PublishClaim(l)
  <2>1. Works(loop[l]) /\ UNCHANGED <<handle, cleanup, cmd>>
    BY <1>5 DEF PublishClaim, TaskAt, Works
  <2>2. SameWorker(loop[l], [loop[l] EXCEPT !.pc = "prepare", !.shown = loop[l].claim])
    BY <1>0, <2>1, WorkerGoes
  <2> QED
    BY <1>5, <2>1, <2>2, BecomeOnward DEF PublishClaim
<1>6. CASE KeeperRecovers(l)
  <2>1. Works(loop[l]) /\ UNCHANGED <<handle, cleanup, cmd>>
    BY <1>6 DEF KeeperRecovers, Works
  <2>2. ASSUME NEW c, NEW p \in {"cancel", "settled"},
               Become(l, [loop[l] EXCEPT !.pc = p, !.claim = c])
        PROVE  Onward(l)
    <3>1. SameWorker(loop[l], [loop[l] EXCEPT !.pc = p, !.claim = c])
      BY <1>0, <2>1, WorkerGoes
    <3> QED
      BY <2>1, <2>2, <3>1, BecomeOnward
  <2> QED
    BY <1>6, <2>2 DEF KeeperRecovers
<1>7. CASE KeeperCancels(l)
  <2>1. Works(loop[l]) /\ UNCHANGED <<handle, cleanup, cmd>>
    BY <1>7 DEF KeeperCancels, Works
  <2>2. ASSUME NEW e, NEW p \in {"release", "verdict"},
               Become(l, [loop[l] EXCEPT !.receipt = e, !.pc = p])
        PROVE  Onward(l)
    <3>1. SameWorker(loop[l], [loop[l] EXCEPT !.receipt = e, !.pc = p])
      BY <1>0, <2>1, WorkerGoes
    <3> QED
      BY <2>1, <2>2, <3>1, BecomeOnward
  <2> QED
    BY <1>7, <2>2 DEF KeeperCancels
<1> QED
  BY <1>1, <1>2, <1>3, <1>4, <1>5, <1>6, <1>7

\* The steps of a turn and of settling its claim.
LEMMA TurnSteps ==
    ASSUME Typed, NEW l \in Loops,
           \/ Admit(l) \/ AwaitReceipt(l) \/ RenewTick(l) \/ JudgeReceipt(l) \/ PauseForAttention(l)
           \/ ReleaseClaim(l) \/ WriteVerdict(l) \/ ConfirmVerdict(l) \/ TurnEnds(l)
           \/ FinishCancelled(l) \/ CapReached(l)
    PROVE  Onward(l)
<1>0. loop[l] \in LoopRecords
  BY DEF Typed
<1>1. Works(loop[l]) /\ UNCHANGED <<handle, cleanup, cmd>>
  BY DEF Admit, AwaitReceipt, RenewTick, JudgeReceipt, PauseForAttention, ReleaseClaim, WriteVerdict,
         ConfirmVerdict, TurnEnds, FinishCancelled, CapReached, TaskAt, Works
<1>go. ASSUME NEW p, p \notin {"free", "gone"}, Go(l, p) PROVE Onward(l)
  BY <1>1, <1>go, GoOnward
<1>stay. ASSUME loop' = loop PROVE Onward(l)
  BY <1>1, <1>stay DEF Onward
<1>receipt. ASSUME NEW e, Become(l, [loop[l] EXCEPT !.pc = "judge", !.receipt = e]) PROVE Onward(l)
  <2>1. SameWorker(loop[l], [loop[l] EXCEPT !.pc = "judge", !.receipt = e])
    BY <1>0, <1>1, WorkerGoes
  <2> QED
    BY <1>1, <1>receipt, <2>1, BecomeOnward
<1>block. ASSUME NEW p, p \notin {"free", "gone"}, NEW b,
                 Become(l, [loop[l] EXCEPT !.pc = p, !.blocked = b])
          PROVE  Onward(l)
  <2>1. SameWorker(loop[l], [loop[l] EXCEPT !.pc = p, !.blocked = b])
    BY <1>0, <1>1, <1>block DEF LoopRecords, SameWorker, Works, Binding
  <2> QED
    BY <1>1, <1>block, <2>1, BecomeOnward
<1>over. ASSUME NEW p \in {"ready", "cap"}, NEW n, NEW b, TurnOver(l, p, n, b) PROVE Onward(l)
  BY <1>1, <1>over, TurnOverOnward
<1>settled. Settled(l) \in {"reread", "settled"}
  BY DEF Settled
<1>accepted. Accepted(l) => Onward(l)
  <2> SUFFICES ASSUME Accepted(l) PROVE Onward(l)
    OBVIOUS
  <2> DEFINE p == IF loop[l].receipt \in PausingReceipts(l) THEN "pause" ELSE Settled(l)
             b == loop[l].blocked \/ loop[l].receipt = "notfound"
  <2>1. Become(l, [loop[l] EXCEPT !.pc = p, !.blocked = b]) /\ p \notin {"free", "gone"}
    BY <1>settled DEF Accepted
  <2> HIDE DEF p, b
  <2> QED
    BY <2>1, <1>block
<1>refused. Refused(l) => Onward(l)
  BY <1>settled, <1>block DEF Refused
<1>2. CASE Admit(l)
  BY <1>2, <1>go, <1>receipt DEF Admit
<1>3. CASE AwaitReceipt(l)
  BY <1>3, <1>receipt DEF AwaitReceipt
<1>4. CASE RenewTick(l)
  BY <1>4, <1>stay, <1>receipt DEF RenewTick
<1>5. CASE JudgeReceipt(l)
  BY <1>5, <1>go, <1>block DEF JudgeReceipt
<1>6. CASE PauseForAttention(l)
  BY <1>6, <1>go, <1>settled DEF PauseForAttention
<1>7. CASE ReleaseClaim(l)
  BY <1>7, <1>go, <1>settled DEF ReleaseClaim
<1>8. CASE WriteVerdict(l)
  BY <1>8, <1>go, <1>accepted, <1>refused DEF WriteVerdict
<1>9. CASE ConfirmVerdict(l)
  BY <1>9, <1>accepted, <1>refused DEF ConfirmVerdict
<1>10. CASE TurnEnds(l)
  <2>1. \/ Become(l, [loop[l] EXCEPT !.pc = "finish", !.blocked = FALSE])
        \/ \E p \in {"ready", "cap"} : \E n, b : TurnOver(l, p, n, b)
    BY <1>10, Zenon DEF TurnEnds
  <2> QED
    BY <2>1, <1>block, <1>over
<1>11. CASE FinishCancelled(l)
  BY <1>11, <1>go, <1>stay, <1>over DEF FinishCancelled
<1>12. CASE CapReached(l)
  <2>1. SameWorker(loop[l], [loop[l] EXCEPT !.pc = "exit", !.cancelled = TRUE])
    BY <1>0, <1>1, WorkerGoes
  <2> QED
    BY <1>1, <1>12, <2>1, BecomeOnward DEF CapReached
<1> QED
  BY <1>2, <1>3, <1>4, <1>5, <1>6, <1>7, <1>8, <1>9, <1>10, <1>11, <1>12

-----------------------------------------------------------------------------
(* One worker per session *)

\* A step within a worker, or of the queue alone, changes nobody's charge.
LEMMA OnwardInv ==
    ASSUME Typed, WorkerInv, live' \subseteq live, UNCHANGED <<handle, cleanup, cmd>>,
           \A m \in Loops : loop'[m] = loop[m] \/ SameWorker(loop[m], loop'[m])
    PROVE  WorkerInv'
<1>1. ASSUME NEW m \in Loops
      PROVE  /\ Target(m)' = Target(m) /\ loop'[m].role = loop[m].role
             /\ loop'[m].handoff = loop[m].handoff /\ loop'[m].custodian = loop[m].custodian
             /\ (loop'[m].pc = "free" <=> loop[m].pc = "free")
             /\ (loop'[m].pc = "gone" <=> loop[m].pc = "gone")
             /\ (Works(loop'[m]) <=> Works(loop[m]))
             /\ loop'[m].pc = "free" => loop'[m] = loop[m]
  BY DEF SameWorker, Works, Target
<1>2. ASSUME NEW m \in Loops PROVE SlotInv(m)'
  BY <1>1 DEF WorkerInv, SlotInv
<1>3. ASSUME NEW m \in Loops PROVE Unfinished(m)' <=> Unfinished(m)
  BY <1>1 DEF Unfinished, Works
<1>4. ASSUME NEW m \in Loops PROVE Attended(m)'
  <2>1. Stray(m, Target(m)) => Stray(m, Target(m))'
    BY <1>1 DEF Stray
  <2> QED
    BY <1>1, <1>3, <2>1 DEF WorkerInv, Attended
<1>5. ASSUME NEW s \in Sessions PROVE OwnerInv(s)'
  <2>1. handle[s] \in Loops \cup {None} /\ cleanup[s] \in Loops \cup {None} /\ OwnerInv(s)
    BY DEF Typed, WorkerInv
  <2> QED
    BY <1>1, <2>1 DEF OwnerInv
<1>6. OneWorkerPerTarget'
  BY <1>1, <1>3 DEF WorkerInv, OneWorkerPerTarget
<1> QED
  BY <1>2, <1>4, <1>5, <1>6 DEF WorkerInv

\* A command moves on without touching a loop.
LEMMA CommandInv ==
    ASSUME Typed, WorkerInv, live' \subseteq live, UNCHANGED <<loop, handle, cleanup>>,
           NEW s \in Sessions, \A q \in Sessions \ {s} : cmd'[q] = cmd[q],
           cmd'[s].pc \in {"publish", "park", "cancel"} => handle[s] = None /\ cleanup[s] = None,
           cmd'[s].pc \in DeletePcs => s \notin live,
           cmd'[s].pc \notin {"join", "joining"},
           cmd[s].pc \in StrayPcs /\ s \notin live =>
               /\ cmd'[s].pc \in StrayPcs
               /\ cmd[s].pc = "join" =>
                    ~(loop[cmd[s].loop].role = "task" /\ Works(loop[cmd[s].loop]))
    PROVE  WorkerInv'
<1>1. ASSUME NEW m \in Loops PROVE SlotInv(m)'
  BY DEF WorkerInv, SlotInv, Target
<1>2. ASSUME NEW m \in Loops PROVE (Unfinished(m)' <=> Unfinished(m)) /\ Target(m)' = Target(m)
  BY DEF Unfinished, Target
<1>3. ASSUME NEW m \in Loops, Unfinished(m) PROVE Target(m) \in Sessions
  <2>1. loop[m].pc = "free" => loop[m] = NoLoop
    BY DEF WorkerInv, SlotInv
  <2> QED
    BY <1>3, <2>1 DEF Typed, Unfinished, NoLoop, Works
<1>4. ASSUME NEW m \in Loops PROVE Attended(m)'
  <2> SUFFICES ASSUME Unfinished(m), Stray(m, Target(m)) PROVE Stray(m, Target(m))'
    BY <1>2 DEF WorkerInv, Attended
  <2>1. CASE Target(m) = s
    BY <1>2, <2>1 DEF Stray
  <2>2. CASE Target(m) # s
    <3>1. cmd'[Target(m)] = cmd[Target(m)]
      BY <1>3, <2>2
    <3> QED
      BY <1>2, <3>1 DEF Stray
  <2> QED
    BY <2>1, <2>2
<1>5. ASSUME NEW q \in Sessions PROVE OwnerInv(q)'
  <2>1. OwnerInv(q)
    BY DEF WorkerInv
  <2>2. CASE q = s
    BY <2>1, <2>2 DEF OwnerInv, Target, DeletePcs
  <2>3. CASE q # s
    BY <2>1, <2>3 DEF OwnerInv, Target
  <2> QED
    BY <2>2, <2>3
<1>6. OneWorkerPerTarget'
  BY <1>2 DEF WorkerInv, OneWorkerPerTarget
<1> QED
  BY <1>1, <1>4, <1>5, <1>6 DEF WorkerInv

\* A step that changes one slot of one session has to be checked there alone.
LEMMA SlotStepInv ==
    ASSUME Typed, Typed', WorkerInv, live' \subseteq live, NEW s \in Sessions, NEW l \in Loops,
           loop[l].pc = "free" \/ Target(l) = s, loop'[l].pc = "free" \/ Target(l)' = s,
           \A m \in Loops \ {l} : loop'[m] = loop[m],
           \A q \in Sessions \ {s} :
               handle'[q] = handle[q] /\ cleanup'[q] = cleanup[q] /\ cmd'[q] = cmd[q],
           cleanup'[s] \in {cleanup[s], None, l},
           SlotInv(l)', Attended(l)', OwnerInv(s)',
           \A m \in Loops \ {l} : Target(m) = s /\ Works(loop[m]) /\ loop[m].role = "cleanup" =>
               cleanup'[s] = m,
           \A m \in Loops \ {l} : Target(m) = s /\ Unfinished(m) =>
               /\ ~Unfinished(l)'
               /\ handle'[s] = m \/ cleanup'[s] = m \/ Stray(m, s)'
    PROVE  WorkerInv'
<1> USE RunnerAssumption
<1>1. ASSUME NEW m \in Loops, Unfinished(m) PROVE Target(m) \in Sessions
  <2>1. loop[m].pc = "free" => loop[m] = NoLoop
    BY DEF WorkerInv, SlotInv
  <2> QED
    BY <1>1, <2>1 DEF Typed, Unfinished, NoLoop, Works
<1>2. ASSUME NEW m \in Loops \ {l}, Unfinished(m)' PROVE Unfinished(m) /\ Target(m)' = Target(m)
  <2>1. CASE loop[m].pc = "gone"
    <3>1. Target(m) \in Sessions /\ Target(m)' = Target(m)
      BY <2>1 DEF Typed, Target
    <3>2. cleanup'[Target(m)] = m => cleanup[Target(m)] = m
      BY <3>1
    <3> QED
      BY <1>2, <2>1, <3>1, <3>2 DEF Unfinished
  <2>2. CASE loop[m].pc # "gone"
    BY <1>2, <2>2 DEF Unfinished, Target
  <2> QED
    BY <2>1, <2>2
<1>3. ASSUME NEW m \in Loops PROVE SlotInv(m)'
  <2>1. CASE m = l
    BY <2>1
  <2>2. CASE m # l
    <3>1. SlotInv(m) /\ loop'[m] = loop[m] /\ Target(m)' = Target(m)
      BY <2>2 DEF WorkerInv, Target
    <3>2. Works(loop[m]) /\ loop[m].role = "cleanup" => cleanup'[Target(m)] = m
      <4>1. Works(loop[m]) => Target(m) \in Sessions
        BY DEF Typed
      <4> QED
        BY <2>2, <3>1, <4>1 DEF SlotInv
    <3> QED
      BY <3>1, <3>2 DEF SlotInv
  <2> QED
    BY <2>1, <2>2
<1>4. ASSUME NEW m \in Loops PROVE Attended(m)'
  <2>1. CASE m = l
    BY <2>1
  <2>2. CASE m # l
    <3> SUFFICES ASSUME Unfinished(m)'
                 PROVE  handle'[Target(m)] = m \/ cleanup'[Target(m)] = m \/ Stray(m, Target(m))'
      BY <1>2, <2>2 DEF Attended
    <3>1. Unfinished(m) /\ Target(m) \in Sessions /\ Target(m)' = Target(m) /\ loop'[m] = loop[m]
      BY <1>1, <1>2, <2>2
    <3>2. CASE Target(m) = s
      BY <2>2, <3>1, <3>2 DEF Stray
    <3>3. CASE Target(m) # s
      <4>1. /\ handle'[Target(m)] = handle[Target(m)] /\ cleanup'[Target(m)] = cleanup[Target(m)]
            /\ cmd'[Target(m)] = cmd[Target(m)]
        BY <3>1, <3>3
      <4>2. handle[Target(m)] = m \/ cleanup[Target(m)] = m \/ Stray(m, Target(m))
        BY <3>1 DEF WorkerInv, Attended
      <4> QED
        BY <3>1, <4>1, <4>2 DEF Stray
    <3> QED
      BY <3>2, <3>3
  <2> QED
    BY <2>1, <2>2
<1>5. ASSUME NEW q \in Sessions PROVE OwnerInv(q)'
  <2>1. CASE q = s
    BY <2>1
  <2>2. CASE q # s
    <3>1. /\ OwnerInv(q) /\ handle'[q] = handle[q] /\ cleanup'[q] = cleanup[q] /\ cmd'[q] = cmd[q]
      BY <2>2 DEF WorkerInv
    <3>2. ASSUME NEW m \in Loops, loop[m].pc # "free", Target(m) = q
          PROVE  loop'[m] = loop[m] /\ Target(m)' = Target(m)
      BY <2>2, <3>2 DEF Target
    <3>3. handle[q] \in Loops \cup {None} /\ cleanup[q] \in Loops \cup {None}
      BY DEF Typed
    <3>4. handle[q] # None =>
            loop'[handle[q]] = loop[handle[q]] /\ Target(handle[q])' = Target(handle[q])
      BY <3>1, <3>2, <3>3 DEF OwnerInv, Target
    <3>5. cleanup[q] # None =>
            loop'[cleanup[q]] = loop[cleanup[q]] /\ Target(cleanup[q])' = Target(cleanup[q])
      BY <3>1, <3>2, <3>3 DEF OwnerInv, Target
    <3>6. cmd[q].pc = "join" =>
            loop'[cmd[q].loop] = loop[cmd[q].loop] /\ Target(cmd[q].loop)' = Target(cmd[q].loop)
      BY <3>1, <3>2 DEF OwnerInv, Target
    <3> QED
      BY <3>1, <3>4, <3>5, <3>6 DEF OwnerInv, Target
  <2> QED
    BY <2>1, <2>2
<1>6. OneWorkerPerTarget'
  <2> SUFFICES ASSUME NEW m \in Loops, NEW k \in Loops, Unfinished(m)', Unfinished(k)',
                      Target(m)' = Target(k)'
               PROVE  m = k
    BY DEF OneWorkerPerTarget
  <2>1. CASE m # l /\ k # l
    BY <1>2, <2>1 DEF WorkerInv, OneWorkerPerTarget
  <2>2. ASSUME NEW h \in Loops \ {l}, Unfinished(l)', Unfinished(h)', Target(l)' = Target(h)'
        PROVE  FALSE
    <3>1. Unfinished(h) /\ Target(h)' = Target(h)
      BY <1>2, <2>2
    <3>2. Target(l)' = s
      <4>1. loop'[l].pc = "free" => loop'[l] = NoLoop
        BY DEF SlotInv
      <4>2. ~(loop'[l] = NoLoop)
        BY <2>2 DEF Unfinished, NoLoop
      <4> QED
        BY <4>1, <4>2
    <3> QED
      BY <2>2, <3>1, <3>2
  <2> QED
    BY <2>1, <2>2
<1> QED
  BY <1>3, <1>4, <1>5, <1>6 DEF WorkerInv

\* What is left of a task.
LEMMA RemainsShape ==
    ASSUME NEW l, NEW b
    PROVE  /\ Remains(l, b).pc = "gone" /\ Remains(l, b).role = "task"
           /\ Remains(l, b).target = Target(l) /\ Remains(l, b).handoff = loop[l].handoff
           /\ Remains(l, b).custodian = b
BY DEF Remains, NoLoop

\* An empty slot has no business.
LEMMA EmptyIdle ==
    NoLoop.pc = "free" /\ ~NoLoop.custodian /\ NoLoop.target = None /\ ~NoLoop.handoff
BY DEF NoLoop

\* An instance that changes while its session's command waits keeps the
\* owners of the session in order, if it is still what they took it for.
LEMMA OwnerKept ==
    ASSUME Typed, NEW s \in Sessions, NEW l \in Loops, OwnerInv(s), live' \subseteq live,
           \A m \in Loops \ {l} : loop'[m] = loop[m], cmd'[s] = cmd[s],
           handle'[s] \in {handle[s], None}, cleanup'[s] \in {cleanup[s], None},
           handle'[s] = l => loop'[l].pc # "free" /\ Target(l)' = s /\ ~loop'[l].handoff,
           cleanup'[s] = l \/ (cmd[s].pc = "join" /\ cmd[s].loop = l) =>
               loop'[l].pc # "free" /\ Target(l)' = s /\ loop'[l].handoff
    PROVE  OwnerInv(s)'
<1> USE RunnerAssumption
<1>1. handle[s] \in Loops \cup {None} /\ cleanup[s] \in Loops \cup {None}
  BY DEF Typed
<1>2. handle'[s] # None =>
        loop'[handle'[s]].pc # "free" /\ Target(handle[s])' = s /\ ~loop'[handle'[s]].handoff
        /\ handle'[s] = handle[s]
  BY <1>1 DEF OwnerInv, Target
<1>3. cleanup'[s] # None =>
        loop'[cleanup'[s]].pc # "free" /\ Target(cleanup[s])' = s /\ loop'[cleanup'[s]].handoff
        /\ cleanup'[s] = cleanup[s]
  BY <1>1 DEF OwnerInv, Target
<1>4. cmd[s].pc = "join" =>
        /\ cmd[s].loop \in Loops
        /\ loop'[cmd[s].loop].pc # "free" /\ Target(cmd[s].loop)' = s /\ loop'[cmd[s].loop].handoff
  BY <1>1 DEF OwnerInv, Target
<1> QED
  BY <1>1, <1>2, <1>3, <1>4 DEF OwnerInv, Target

\* A task that drops its guard leaves its custodian, or its owner, in charge.
LEMMA DropWorkerInv ==
    ASSUME Typed, Typed', WorkerInv, NEW l \in Loops, TaskRunning(l), DropTask(l)
    PROVE  WorkerInv' /\ handle' = handle
<1>s. PICK s \in Sessions : s = Target(l)
  BY DEF TaskRunning, Works, Typed
<1> USE <1>s
<1> DEFINE x == Remains(l, ~loop[l].handoff)
<1>1. Works(loop[l]) /\ s \in Sessions
  BY DEF TaskRunning, Works, Typed
<1>2. loop'[l] = x /\ \A m \in Loops \ {l} : loop'[m] = loop[m]
  BY OneBecomes DEF DropTask, Typed
<1>3. OwnerInv(s) /\ Attended(l)
  BY <1>1 DEF WorkerInv
<1>4. handle' = handle
  BY <1>3, RunnerAssumption DEF DropTask, OwnerInv
<1>5. UNCHANGED <<live, cleanup, cmd>>
  BY DEF DropTask, qvars
<1>6. /\ x.pc = "gone" /\ x.target = s /\ x.handoff = loop[l].handoff
      /\ x.custodian = ~loop[l].handoff
  BY RemainsShape
<1>7. Target(l)' = s
  BY <1>2, <1>6 DEF Target
<1> HIDE DEF x
<1>8. SlotInv(l)'
  BY <1>2, <1>6 DEF SlotInv, Works
<1>9. Unfinished(l) /\ (handle[s] = l \/ cleanup[s] = l \/ Stray(l, s))
  BY <1>1, <1>3 DEF Unfinished, Works, Attended
<1>10. Attended(l)'
  BY <1>2, <1>4, <1>5, <1>6, <1>7, <1>9 DEF Attended, Stray, Works
<1>11. OwnerInv(s)'
  <2>1. /\ loop'[l].pc # "free"
        /\ handle[s] = l => ~loop'[l].handoff
        /\ cleanup[s] = l \/ (cmd[s].pc = "join" /\ cmd[s].loop = l) => loop'[l].handoff
    BY <1>2, <1>3, <1>6, RunnerAssumption DEF OwnerInv
  <2> QED
    BY <1>1, <1>2, <1>3, <1>4, <1>5, <1>7, <2>1, OwnerKept
<1>12. ASSUME NEW m \in Loops \ {l}, Target(m) = s PROVE ~Unfinished(m)
  BY <1>9, <1>12 DEF WorkerInv, OneWorkerPerTarget
<1>13. \A m \in Loops \ {l} : Target(m) = s /\ Works(loop[m]) /\ loop[m].role = "cleanup" => cleanup'[s] = m
  BY <1>5 DEF WorkerInv, SlotInv
<1>14. WorkerInv'
  BY <1>1, <1>2, <1>4, <1>5, <1>7, <1>8, <1>10, <1>11, <1>12, <1>13, SlotStepInv
<1> QED
  BY <1>4, <1>14

\* A slot that is left keeps what somebody still refers to.
LEMMA LeaveShape ==
    ASSUME loop \in [Loops -> LoopRecords], NEW l \in Loops, NEW owners, NEW c, NEW b,
           Leave(l, owners, c, b)
    PROVE  /\ \A m \in Loops \ {l} : loop'[m] = loop[m]
           /\ \/ loop'[l].pc = "gone" /\ Target(l)' = Target(l) /\ loop'[l].handoff = loop[l].handoff
                 /\ loop'[l].custodian = b
              \/ loop'[l] = NoLoop /\ owners[Target(l)] # l /\ c[Target(l)].loop # l /\ ~b
<1>1. CASE owners[Target(l)] = l \/ c[Target(l)].loop = l \/ b
  <2>1. Become(l, Remains(l, b))
    BY <1>1 DEF Leave
  <2>2. loop'[l] = Remains(l, b) /\ \A m \in Loops \ {l} : loop'[m] = loop[m]
    BY <2>1, OneBecomes
  <2> QED
    BY <2>2, RemainsShape DEF Target
<1>2. CASE ~(owners[Target(l)] = l \/ c[Target(l)].loop = l \/ b)
  <2>1. Become(l, NoLoop)
    BY <1>2 DEF Leave
  <2> QED
    BY <1>2, <2>1, OneBecomes
<1> QED
  BY <1>1, <1>2

\* The custodian takes over from its task, or gives way to the stopper.
LEMMA CustodianBeginsInv ==
    ASSUME Typed, Typed', WorkerInv, NEW l \in Loops, CustodianBegins(l)
    PROVE  WorkerInv'
<1>s. PICK s \in Sessions : s = Target(l)
  BY DEF CustodianBegins, Typed
<1> USE <1>s
<1>1. loop[l].pc = "gone" /\ loop[l].custodian /\ s \in Sessions /\ loop[l] \in LoopRecords
  BY DEF CustodianBegins, Typed
<1>2. OwnerInv(s) /\ Attended(l) /\ SlotInv(l)
  BY <1>1 DEF WorkerInv
<1>3. UNCHANGED <<live, cleanup, cmd>>
  BY DEF CustodianBegins, qvars
<1>4. \A m \in Loops \ {l} : Target(m) = s /\ Works(loop[m]) /\ loop[m].role = "cleanup" => cleanup'[s] = m
  BY <1>3 DEF WorkerInv, SlotInv
<1>5. CASE loop[l].handoff
  <2>1. handle' = handle /\ Leave(l, cleanup, cmd, FALSE)
    BY <1>1, <1>2, <1>5, RunnerAssumption DEF CustodianBegins, OwnerInv
  <2>2. /\ \A m \in Loops \ {l} : loop'[m] = loop[m]
        /\ \/ loop'[l].pc = "gone" /\ Target(l)' = s /\ loop'[l].handoff /\ ~loop'[l].custodian
           \/ loop'[l] = NoLoop /\ cleanup[s] # l /\ cmd[s].loop # l
    <3>1. /\ \A m \in Loops \ {l} : loop'[m] = loop[m]
          /\ \/ loop'[l].pc = "gone" /\ Target(l)' = Target(l) /\ loop'[l].handoff = loop[l].handoff
                /\ loop'[l].custodian = FALSE
             \/ loop'[l] = NoLoop /\ cleanup[Target(l)] # l /\ cmd[Target(l)].loop # l /\ ~FALSE
      BY <2>1, LeaveShape, Zenon DEF Typed
    <3> QED
      BY <1>5, <3>1
  <2>3. SlotInv(l)' /\ (loop'[l].pc = "free" \/ Target(l)' = s)
    BY <2>2, EmptyIdle DEF SlotInv, Works
  <2>4. handle[s] # l
    BY <1>1, <1>2, <1>5, RunnerAssumption DEF OwnerInv
  <2>5. OwnerInv(s)'
    <3>1. cleanup[s] = l \/ (cmd[s].pc = "join" /\ cmd[s].loop = l) =>
            loop'[l].pc # "free" /\ Target(l)' = s /\ loop'[l].handoff
      BY <2>2
    <3> QED
      BY <1>1, <1>2, <1>3, <2>1, <2>2, <2>4, <3>1, OwnerKept
  <2>6. Unfinished(l)' => cleanup[s] = l /\ Target(l)' = s
    BY <1>3, <2>2, EmptyIdle DEF Unfinished
  <2>7. Attended(l)'
    BY <1>3, <2>6 DEF Attended
  <2>8. ASSUME NEW m \in Loops \ {l}, Target(m) = s, Unfinished(m)
        PROVE  /\ ~Unfinished(l)'
               /\ handle'[s] = m \/ cleanup'[s] = m \/ Stray(m, s)'
    <3>1. handle[s] = m \/ cleanup[s] = m \/ Stray(m, s)
      BY <2>8 DEF WorkerInv, Attended
    <3>2. Unfinished(l)' => Unfinished(l)
      BY <1>1, <2>6 DEF Unfinished
    <3>3. ~Unfinished(l)
      BY <2>8 DEF WorkerInv, OneWorkerPerTarget
    <3>4. Stray(m, s) => Stray(m, s)'
      BY <1>3, <2>1, <2>2, <2>8 DEF Stray
    <3> QED
      BY <1>3, <2>1, <3>1, <3>2, <3>3, <3>4
  <2> QED
    BY <1>1, <1>3, <1>4, <2>1, <2>2, <2>3, <2>5, <2>7, <2>8, SlotStepInv
<1>6. CASE ~loop[l].handoff
  <2> DEFINE x == [loop[l] EXCEPT !.pc = "scan", !.role = "custodian", !.custodian = FALSE]
  <2>1. handle' = handle /\ Become(l, x)
    BY <1>6 DEF CustodianBegins
  <2>2. /\ x.pc = "scan" /\ x.role = "custodian" /\ ~x.custodian /\ x.target = s
        /\ x.handoff = loop[l].handoff
    BY <1>1 DEF LoopRecords, Target
  <2>3. loop'[l] = x /\ \A m \in Loops \ {l} : loop'[m] = loop[m]
    BY <2>1, OneBecomes DEF Typed
  <2> HIDE DEF x
  <2>4. SlotInv(l)' /\ Target(l)' = s
    BY <2>2, <2>3 DEF SlotInv, Target
  <2>5. Unfinished(l) /\ (handle[s] = l \/ cleanup[s] = l \/ Stray(l, s))
    BY <1>1, <1>2, <1>6 DEF Unfinished, Attended
  <2>6. Attended(l)'
    BY <1>3, <2>1, <2>2, <2>3, <2>4, <2>5 DEF Attended, Stray
  <2>7. OwnerInv(s)'
    <3>1. /\ loop'[l].pc # "free" /\ ~loop'[l].handoff /\ cleanup[s] # l
          /\ ~(cmd[s].pc = "join" /\ cmd[s].loop = l)
      BY <1>2, <1>6, <2>2, <2>3, RunnerAssumption DEF OwnerInv
    <3> QED
      BY <1>1, <1>2, <1>3, <2>1, <2>3, <2>4, <3>1, OwnerKept
  <2>8. ASSUME NEW m \in Loops \ {l}, Target(m) = s PROVE ~Unfinished(m)
    BY <2>5, <2>8 DEF WorkerInv, OneWorkerPerTarget
  <2> QED
    BY <1>1, <1>3, <1>4, <2>1, <2>3, <2>4, <2>6, <2>7, <2>8, SlotStepInv
<1> QED
  BY <1>5, <1>6

\* The cleanup owner starts once the task is gone.
LEMMA CleanupBeginsInv ==
    ASSUME Typed, Typed', WorkerInv, NEW l \in Loops, CleanupBegins(l)
    PROVE  WorkerInv'
<1>s. PICK s \in Sessions : s = Target(l)
  BY DEF CleanupBegins, Typed
<1> USE <1>s
<1> DEFINE x == [loop[l] EXCEPT !.pc = "recover", !.role = "cleanup"]
<1>1. loop[l].pc = "gone" /\ cleanup[s] = l /\ s \in Sessions /\ loop[l] \in LoopRecords
  BY DEF CleanupBegins, Typed
<1>2. OwnerInv(s)
  BY <1>1 DEF WorkerInv
<1>3. UNCHANGED <<live, handle, cleanup, cmd>>
  BY DEF CleanupBegins, qvars
<1>4. loop'[l] = x /\ \A m \in Loops \ {l} : loop'[m] = loop[m]
  BY OneBecomes DEF CleanupBegins, Typed
<1>5. x.pc = "recover" /\ x.role = "cleanup" /\ x.target = s /\ x.handoff = loop[l].handoff
  BY <1>1 DEF LoopRecords, Target
<1> HIDE DEF x
<1>6. Target(l)' = s /\ SlotInv(l)' /\ Attended(l)'
  BY <1>1, <1>3, <1>4, <1>5 DEF SlotInv, Attended, Target
<1>7. OwnerInv(s)'
  <2>1. loop'[l].pc # "free" /\ loop'[l].handoff /\ handle[s] # l
    BY <1>1, <1>2, <1>4, <1>5, RunnerAssumption DEF OwnerInv
  <2> QED
    BY <1>1, <1>2, <1>3, <1>4, <1>6, <2>1, OwnerKept
<1>8. Unfinished(l)
  BY <1>1 DEF Unfinished
<1>9. ASSUME NEW m \in Loops \ {l}, Target(m) = s PROVE ~Unfinished(m)
  BY <1>8, <1>9 DEF WorkerInv, OneWorkerPerTarget
<1>10. \A m \in Loops \ {l} : Target(m) = s /\ Works(loop[m]) /\ loop[m].role = "cleanup" => cleanup'[s] = m
  BY <1>3 DEF WorkerInv, SlotInv
<1> QED
  BY <1>1, <1>3, <1>4, <1>6, <1>7, <1>9, <1>10, SlotStepInv

\* A keeper that ends gives up the reference it was kept for.
LEMMA KeeperEndsInv ==
    ASSUME Typed, Typed', WorkerInv, NEW l \in Loops, KeeperEnds(l)
    PROVE  /\ WorkerInv'
           /\ \A q \in Sessions : handle'[q] = handle[q] \/ (handle[q] = l /\ handle'[q] = None)
<1>s. PICK s \in Sessions : s = Target(l)
  BY DEF KeeperEnds, Typed, Works
<1> USE <1>s
<1>1. loop[l].pc = "settled" /\ Works(loop[l]) /\ s \in Sessions /\ loop[l] \in LoopRecords
  BY DEF KeeperEnds, Typed, Works
<1>2. OwnerInv(s) /\ Attended(l) /\ SlotInv(l) /\ Unfinished(l)
  BY <1>1 DEF WorkerInv, Unfinished
<1>3. UNCHANGED <<live, cmd>> /\ Leave(l, cleanup', cmd, loop[l].custodian)
  BY DEF KeeperEnds, qvars
<1>4. /\ \A m \in Loops \ {l} : loop'[m] = loop[m]
      /\ \/ /\ loop'[l].pc = "gone" /\ Target(l)' = s /\ loop'[l].handoff = loop[l].handoff
            /\ loop'[l].custodian = loop[l].custodian
         \/ loop'[l] = NoLoop /\ cleanup'[s] # l /\ cmd[s].loop # l
  BY <1>3, LeaveShape DEF Typed
<1>5. SlotInv(l)' /\ (loop'[l].pc = "free" \/ Target(l)' = s)
  BY <1>4, EmptyIdle DEF SlotInv, Works
<1>6. ASSUME NEW m \in Loops \ {l}, Target(m) = s PROVE ~Unfinished(m)
  BY <1>2, <1>6 DEF WorkerInv, OneWorkerPerTarget
<1>7. ASSUME NEW m \in Loops \ {l}, Target(m) = s, Works(loop[m]), loop[m].role = "cleanup" PROVE FALSE
  BY <1>6, <1>7 DEF Unfinished, Works
<1>8. CASE loop[l].role = "custodian"
  <2>1. /\ cleanup' = cleanup /\ ~loop[l].custodian
        /\ handle' = IF handle[s] = l THEN [handle EXCEPT ![s] = None] ELSE handle
    BY <1>1, <1>2, <1>8 DEF KeeperEnds, SlotInv
  <2>2. /\ handle'[s] = IF handle[s] = l THEN None ELSE handle[s]
        /\ \A q \in Sessions \ {s} : handle'[q] = handle[q]
    BY <1>1, <2>1 DEF Typed
  <2>3. Unfinished(l)' => cleanup'[s] = l /\ Target(l)' = s
    BY <1>4, <2>1, EmptyIdle DEF Unfinished
  <2>4. Attended(l)'
    BY <2>3 DEF Attended
  <2>5. OwnerInv(s)'
    <3>1. cleanup[s] = l \/ (cmd[s].pc = "join" /\ cmd[s].loop = l) =>
            loop'[l].pc # "free" /\ Target(l)' = s /\ loop'[l].handoff
      BY <1>2, <1>4, <2>1, RunnerAssumption DEF OwnerInv
    <3>2. handle'[s] # l /\ handle'[s] \in {handle[s], None}
      BY <2>2, RunnerAssumption
    <3> QED
      BY <1>1, <1>2, <1>3, <1>4, <2>1, <3>1, <3>2, OwnerKept
  <2>6. WorkerInv'
    BY <1>1, <1>3, <1>4, <1>5, <1>6, <1>7, <2>1, <2>2, <2>4, <2>5, SlotStepInv
  <2> QED
    BY <1>1, <2>2, <2>6
<1>9. CASE loop[l].role = "cleanup"
  <2>1. handle' = handle /\ cleanup' = [cleanup EXCEPT ![s] = None] /\ cleanup[s] = l
    BY <1>1, <1>2, <1>9 DEF KeeperEnds, SlotInv
  <2>2. cleanup'[s] = None /\ \A q \in Sessions \ {s} : cleanup'[q] = cleanup[q]
    BY <1>1, <2>1 DEF Typed
  <2>3. loop[l].handoff /\ handle[s] = None
    BY <1>2, <2>1, RunnerAssumption DEF OwnerInv
  <2>4. ~Unfinished(l)'
    BY <1>4, <2>2, <2>3, EmptyIdle, RunnerAssumption DEF Unfinished
  <2>5. Attended(l)'
    BY <2>4 DEF Attended
  <2>6. OwnerInv(s)'
    <3>1. cmd[s].pc # "join" /\ handle'[s] # l /\ cleanup'[s] # l
      BY <1>2, <2>1, <2>2, <2>3, RunnerAssumption DEF OwnerInv
    <3> QED
      BY <1>1, <1>2, <1>3, <1>4, <2>1, <2>2, <3>1, OwnerKept
  <2>7. WorkerInv'
    BY <1>1, <1>3, <1>4, <1>5, <1>6, <1>7, <2>1, <2>2, <2>5, <2>6, SlotStepInv
  <2> QED
    BY <2>1, <2>7
<1> QED
  BY <1>8, <1>9 DEF KeeperEnds

\* Crashing leaves nothing behind.
LEMMA CrashWorkerInv ==
    ASSUME Crash
    PROVE  WorkerInv'
<1>1. /\ \A l \in Loops : loop'[l] = NoLoop
      /\ \A s \in Sessions : handle'[s] = None /\ cleanup'[s] = None /\ cmd'[s] = NoCmd
  BY DEF Crash
<1>2. ASSUME NEW l \in Loops PROVE SlotInv(l)' /\ ~Unfinished(l)'
  BY <1>1, EmptyIdle DEF SlotInv, Unfinished, Works
<1>3. ASSUME NEW s \in Sessions PROVE OwnerInv(s)'
  BY <1>1 DEF OwnerInv, NoCmd, DeletePcs
<1> QED
  BY <1>2, <1>3 DEF WorkerInv, Attended, OneWorkerPerTarget

\* A command that steps, and one that ends.
LEMMA StepShape ==
    ASSUME Typed, NEW s \in Sessions, NEW p, Step(s, p)
    PROVE  /\ \A q \in Sessions \ {s} : cmd'[q] = cmd[q]
           /\ cmd'[s].pc = p /\ cmd'[s].next = cmd[s].next /\ cmd'[s].tag = cmd[s].tag
           /\ cmd'[s].max = cmd[s].max /\ cmd'[s].rev = cmd[s].rev
           /\ cmd'[s].loop = cmd[s].loop /\ cmd'[s].todo = cmd[s].todo
<1>1. cmd[s] \in CmdRecords
  BY DEF Typed
<1>2. cmd'[s] = [cmd[s] EXCEPT !.pc = p] /\ \A q \in Sessions \ {s} : cmd'[q] = cmd[q]
  BY DEF Step, Typed
<1> QED
  BY <1>1, <1>2 DEF CmdRecords

\* The command has ended.
LEMMA EndShape ==
    ASSUME Typed, NEW s \in Sessions, End(s)
    PROVE  /\ \A q \in Sessions \ {s} : cmd'[q] = cmd[q]
           /\ cmd'[s] = NoCmd /\ cmd'[s].pc = "idle"
BY DEF End, Typed, NoCmd

\* A stop takes the published instance and appoints its owner.
LEMMA TakeShape ==
    ASSUME Typed, NEW s \in Sessions, NEW l \in Loops, handle[s] = l, TakeHandle(s)
    PROVE  /\ handle'[s] = None /\ \A q \in Sessions \ {s} : handle'[q] = handle[q]
           /\ \A m \in Loops \ {l} : loop'[m] = loop[m]
           /\ loop'[l].pc = loop[l].pc /\ loop'[l].role = loop[l].role
           /\ Target(l)' = Target(l) /\ loop'[l].custodian = loop[l].custodian
           /\ loop'[l].cancelled /\ loop'[l].handoff
           /\ loop'[l].receipt = loop[l].receipt /\ loop'[l].claim = loop[l].claim
<1>1. loop[l] \in LoopRecords
  BY DEF Typed
<1>2. /\ loop'[l] = [loop[l] EXCEPT !.cancelled = TRUE, !.handoff = TRUE]
      /\ \A m \in Loops \ {l} : loop'[m] = loop[m]
  BY DEF TakeHandle, Typed
<1>3. handle'[s] = None /\ \A q \in Sessions \ {s} : handle'[q] = handle[q]
  BY DEF TakeHandle, Typed
<1> QED
  BY <1>1, <1>2, <1>3 DEF LoopRecords, Target

\* A session with a published loop has no other unfinished instance.
LEMMA PublishedAlone ==
    ASSUME WorkerInv, NEW s \in Sessions, NEW l \in Loops, handle[s] = l,
           NEW m \in Loops \ {l}, Target(m) = s
    PROVE  ~Unfinished(m)
<1>1. OwnerInv(s) /\ Attended(m)
  BY DEF WorkerInv
<1> QED
  BY <1>1, RunnerAssumption DEF OwnerInv, Attended, Stray

\* stop_locked
LEMMA QuiesceInv ==
    ASSUME Typed, Typed', WorkerInv, NEW s \in Sessions, Quiesce(s)
    PROVE  WorkerInv' /\ handle'[s] = None
<1>0. cmd[s].pc = "quiesce" /\ cleanup[s] = None /\ UNCHANGED live /\ cmd[s] \in CmdRecords
  BY DEF Quiesce, qvars, Typed
<1>1. CASE handle[s] = None
  <2>1. UNCHANGED <<loop, handle, cleanup>>
        /\ IF cmd[s].next = "idle" THEN End(s) ELSE Step(s, cmd[s].next)
    BY <1>1 DEF Quiesce
  <2>2. /\ \A q \in Sessions \ {s} : cmd'[q] = cmd[q]
        /\ cmd'[s].pc \in {"idle", "save", "publish", "failed"}
    BY <1>0, <2>1, StepShape, EndShape DEF CmdRecords
  <2> QED
    BY <1>0, <1>1, <2>1, <2>2, CommandInv DEF DeletePcs, StrayPcs
<1>2. CASE handle[s] # None
  <2>1. TakeHandle(s) /\ cleanup' = [cleanup EXCEPT ![s] = handle[s]] /\ Step(s, "joining")
    BY <1>2 DEF Quiesce
  <2>2. PICK l \in Loops : l = handle[s]
    BY <1>2 DEF Typed
  <2>3. cleanup'[s] = l /\ \A q \in Sessions \ {s} : cleanup'[q] = cleanup[q]
    BY <2>1, <2>2 DEF Typed
  <2>4. cmd'[s].pc = "joining" /\ \A q \in Sessions \ {s} : cmd'[q] = cmd[q]
    BY <2>1, StepShape
  <2>5. /\ handle'[s] = None /\ \A q \in Sessions \ {s} : handle'[q] = handle[q]
        /\ \A m \in Loops \ {l} : loop'[m] = loop[m]
        /\ loop'[l].pc = loop[l].pc /\ loop'[l].role = loop[l].role
        /\ Target(l)' = Target(l) /\ loop'[l].custodian = loop[l].custodian /\ loop'[l].handoff
    BY <2>1, <2>2, TakeShape
  <2>6. loop[l].pc # "free" /\ Target(l) = s /\ SlotInv(l)
    BY <1>2, <2>2 DEF WorkerInv, OwnerInv
  <2>7. SlotInv(l)' /\ Attended(l)'
    BY <2>3, <2>5, <2>6 DEF SlotInv, Attended, Works
  <2>8. OwnerInv(s)'
    BY <2>3, <2>4, <2>5, <2>6 DEF OwnerInv, DeletePcs, Target
  <2>9. ASSUME NEW m \in Loops \ {l}, Target(m) = s PROVE ~Unfinished(m)
    BY <2>2, <2>9, PublishedAlone
  <2>10. ASSUME NEW m \in Loops \ {l}, Target(m) = s, Works(loop[m]) PROVE FALSE
    BY <2>9, <2>10 DEF Unfinished, Works
  <2> QED
    BY <1>0, <2>3, <2>4, <2>5, <2>6, <2>7, <2>8, <2>9, <2>10, SlotStepInv
<1> QED
  BY <1>1, <1>2

\* A new loop begins where nobody is left.
LEMMA LaunchInv ==
    ASSUME Typed, Typed', WorkerInv, NEW s \in Sessions, LaunchLoop(s)
    PROVE  WorkerInv'
<1>0. /\ handle[s] = None /\ cmd[s].pc \in {"start", "publish"} /\ UNCHANGED <<live, cleanup>>
      /\ End(s) /\ OwnerInv(s)
  BY DEF LaunchLoop, qvars, WorkerInv
<1>1. cleanup[s] = None
  BY <1>0 DEF LaunchLoop, OwnerInv
<1>2. PICK l \in Loops :
        /\ loop[l].pc = "free" /\ handle' = [handle EXCEPT ![s] = l]
        /\ Become(l, [NoLoop EXCEPT !.pc = "born", !.target = s, !.tag = cmd[s].tag,
                                    !.max = cmd[s].max, !.rev = cmd[s].rev])
  <2> DEFINE k == CHOOSE x \in FreeLoops : TRUE
  <2>1. k \in FreeLoops
    BY DEF LaunchLoop
  <2> QED
    BY <2>1 DEF LaunchLoop, FreeLoops
<1>3. /\ loop'[l].pc = "born" /\ Target(l)' = s /\ loop'[l].role = "task"
      /\ loop'[l].handoff = FALSE /\ loop'[l].custodian = FALSE
      /\ \A m \in Loops \ {l} : loop'[m] = loop[m]
  <2> DEFINE x == [NoLoop EXCEPT !.pc = "born", !.target = s, !.tag = cmd[s].tag,
                                 !.max = cmd[s].max, !.rev = cmd[s].rev]
  <2>1. x.pc = "born" /\ x.target = s /\ x.role = "task" /\ x.handoff = FALSE /\ x.custodian = FALSE
    BY DEF NoLoop
  <2>2. loop'[l] = x /\ \A m \in Loops \ {l} : loop'[m] = loop[m]
    BY <1>2, OneBecomes DEF Typed
  <2> HIDE DEF x
  <2> QED
    BY <2>1, <2>2 DEF Target
<1>4. handle'[s] = l /\ \A q \in Sessions \ {s} : handle'[q] = handle[q]
  BY <1>2 DEF Typed
<1>5. cmd'[s].pc = "idle" /\ \A q \in Sessions \ {s} : cmd'[q] = cmd[q]
  BY <1>0, EndShape
<1>6. SlotInv(l)' /\ Attended(l)'
  BY <1>3, <1>4 DEF SlotInv, Attended, Works
<1>7. OwnerInv(s)'
  BY <1>0, <1>1, <1>3, <1>4, <1>5, RunnerAssumption DEF OwnerInv, DeletePcs
<1>8. ASSUME NEW m \in Loops \ {l}, Target(m) = s PROVE ~Unfinished(m)
  <2>1. Attended(m)
    BY DEF WorkerInv
  <2> QED
    BY <1>0, <1>1, <1>8, <2>1, RunnerAssumption DEF Attended, Stray, StrayPcs, DeletePcs
<1>9. ASSUME NEW m \in Loops \ {l}, Target(m) = s, Works(loop[m]) PROVE FALSE
  BY <1>8, <1>9 DEF Unfinished, Works
<1> QED
  BY <1>0, <1>2, <1>3, <1>4, <1>5, <1>6, <1>7, <1>8, <1>9, SlotStepInv

\* The delete of a session takes the published instance to join it.
LEMMA DeleteTakesInv ==
    ASSUME Typed, Typed', WorkerInv, NEW s \in Sessions, DeleteTakes(s)
    PROVE  WorkerInv' /\ handle'[s] = None
<1>0. /\ cmd[s].pc = "wait" /\ cleanup[s] = None /\ UNCHANGED <<live, cleanup>> /\ cmd[s] \in CmdRecords
      /\ s \notin live
  BY DEF DeleteTakes, qvars, Typed, WorkerInv, OwnerInv, DeletePcs
<1>1. CASE handle[s] = None
  <2>1. UNCHANGED <<loop, handle>> /\ Step(s, "park")
    BY <1>1 DEF DeleteTakes
  <2>2. cmd'[s].pc = "park" /\ \A q \in Sessions \ {s} : cmd'[q] = cmd[q]
    BY <2>1, StepShape
  <2> QED
    BY <1>0, <1>1, <2>1, <2>2, CommandInv DEF DeletePcs, StrayPcs
<1>2. CASE handle[s] # None
  <2>1. TakeHandle(s) /\ cmd' = [cmd EXCEPT ![s].pc = "join", ![s].loop = handle[s]]
    BY <1>2 DEF DeleteTakes
  <2>2. PICK l \in Loops : l = handle[s]
    BY <1>2 DEF Typed
  <2>3. cmd'[s].pc = "join" /\ cmd'[s].loop = l /\ \A q \in Sessions \ {s} : cmd'[q] = cmd[q]
    BY <1>0, <2>1, <2>2 DEF Typed, CmdRecords
  <2>5. /\ handle'[s] = None /\ \A q \in Sessions \ {s} : handle'[q] = handle[q]
        /\ \A m \in Loops \ {l} : loop'[m] = loop[m]
        /\ loop'[l].pc = loop[l].pc /\ loop'[l].role = loop[l].role
        /\ Target(l)' = Target(l) /\ loop'[l].custodian = loop[l].custodian /\ loop'[l].handoff
    BY <2>1, <2>2, TakeShape
  <2>6. loop[l].pc # "free" /\ Target(l) = s /\ SlotInv(l)
    BY <1>2, <2>2 DEF WorkerInv, OwnerInv
  <2>7. SlotInv(l)' /\ Attended(l)'
    <3>1. Stray(l, s)'
      BY <1>0, <2>3, <2>5 DEF Stray, StrayPcs, DeletePcs
    <3> QED
      BY <1>0, <2>5, <2>6, <3>1, RunnerAssumption DEF SlotInv, Attended, Works
  <2>8. OwnerInv(s)'
    BY <1>0, <2>3, <2>5, <2>6 DEF OwnerInv, DeletePcs, Target
  <2>9. ASSUME NEW m \in Loops \ {l}, Target(m) = s PROVE ~Unfinished(m)
    BY <2>2, <2>9, PublishedAlone
  <2>10. ASSUME NEW m \in Loops \ {l}, Target(m) = s, Works(loop[m]) PROVE FALSE
    BY <2>9, <2>10 DEF Unfinished, Works
  <2> QED
    BY <1>0, <2>3, <2>5, <2>6, <2>7, <2>8, <2>9, <2>10, SlotStepInv
<1> QED
  BY <1>1, <1>2

\* The delete has joined the task, or gives up on its custodian.
LEMMA DeleteJoinsInv ==
    ASSUME Typed, Typed', WorkerInv, NEW s \in Sessions, DeleteJoins(s)
    PROVE  WorkerInv'
<1>0. /\ cmd[s].pc = "join" /\ UNCHANGED <<live, handle, cleanup>> /\ cmd[s] \in CmdRecords
      /\ OwnerInv(s)
  BY DEF DeleteJoins, qvars, Typed, WorkerInv
<1>1. PICK l \in Loops : l = cmd[s].loop
  BY <1>0 DEF OwnerInv
<1>2. /\ handle[s] = None /\ cleanup[s] = None /\ s \notin live
      /\ loop[l].pc # "free" /\ Target(l) = s /\ loop[l].handoff
  BY <1>0, <1>1 DEF OwnerInv, DeletePcs
<1>3. CASE /\ loop[l].pc = "gone" /\ cmd' = [cmd EXCEPT ![s].pc = "park", ![s].loop = None]
           /\ Leave(l, cleanup, cmd', loop[l].custodian)
  <2>1. cmd'[s].pc = "park" /\ cmd'[s].loop = None /\ \A q \in Sessions \ {s} : cmd'[q] = cmd[q]
    BY <1>0, <1>3 DEF Typed, CmdRecords
  <2>2. /\ \A m \in Loops \ {l} : loop'[m] = loop[m]
        /\ \/ loop'[l].pc = "gone" /\ Target(l)' = s /\ loop'[l].handoff
           \/ loop'[l] = NoLoop
    BY <1>2, <1>3, LeaveShape DEF Typed
  <2>3. ~Unfinished(l)' /\ SlotInv(l)' /\ (loop'[l].pc = "free" \/ Target(l)' = s)
    BY <1>0, <1>2, <2>2, EmptyIdle, RunnerAssumption DEF Unfinished, SlotInv, Works
  <2>4. OwnerInv(s)'
    BY <1>0, <1>2, <2>1 DEF OwnerInv, DeletePcs
  <2>5. ASSUME NEW m \in Loops \ {l}, Target(m) = s, Unfinished(m) PROVE Stray(m, s)'
    <3>1. Stray(m, s)
      BY <1>2, <2>5, RunnerAssumption DEF WorkerInv, Attended
    <3> QED
      BY <1>0, <1>1, <2>1, <2>2, <2>5, <3>1 DEF Stray, StrayPcs, DeletePcs
  <2>6. \A m \in Loops \ {l} : Target(m) = s /\ Works(loop[m]) /\ loop[m].role = "cleanup" => cleanup'[s] = m
    BY <1>0 DEF WorkerInv, SlotInv
  <2>7. Attended(l)'
    BY <2>3 DEF Attended
  <2> QED
    BY <1>0, <1>2, <2>1, <2>2, <2>3, <2>4, <2>5, <2>6, <2>7, SlotStepInv
<1>4. CASE /\ loop[l].role = "custodian" /\ UNCHANGED loop
           /\ cmd' = [cmd EXCEPT ![s].pc = "failed", ![s].loop = None]
  <2>1. cmd'[s].pc = "failed" /\ \A q \in Sessions \ {s} : cmd'[q] = cmd[q]
    BY <1>0, <1>4 DEF Typed, CmdRecords
  <2> QED
    BY <1>0, <1>1, <1>4, <2>1, CommandInv DEF StrayPcs, DeletePcs
<1> QED
  BY <1>1, <1>3, <1>4 DEF DeleteJoins

\* The other steps of commands touch no loop.
LEMMA PlainCommandInv ==
    ASSUME Typed, WorkerInv, NEW s \in Sessions, live' \subseteq live,
           \/ CleanupJoined(s) \/ WaitTimesOut(s) \/ SaveConfig(s) \/ ResumeForEnable(s)
           \/ StartFound(s) \/ RollBack(s) \/ ReplyError(s) \/ DeleteParks(s) \/ DeleteCancels(s)
           \/ ResumeBinding(s) \/ DeleteBegins(s) \/ RequestDropped(s) \/ \E t, m : ApplyConfig(s, t, m)
    PROVE  WorkerInv' /\ UNCHANGED <<loop, handle>>
<1>0. /\ UNCHANGED <<loop, handle, cleanup>> /\ cmd[s] \in CmdRecords /\ OwnerInv(s)
      /\ cmd \in [Sessions -> CmdRecords]
  BY DEF CleanupJoined, WaitTimesOut, SaveConfig, ResumeForEnable, StartFound, RollBack, ReplyError,
         DeleteParks, DeleteCancels, ResumeBinding, DeleteBegins, RequestDropped, ApplyConfig, Typed, WorkerInv
<1>step. ASSUME NEW p, Step(s, p) PROVE cmd'[s].pc = p /\ \A q \in Sessions \ {s} : cmd'[q] = cmd[q]
  BY <1>step, StepShape
<1>end. ASSUME End(s) PROVE cmd'[s].pc = "idle" /\ \A q \in Sessions \ {s} : cmd'[q] = cmd[q]
  BY <1>end, EndShape
<1> USE DEF DeletePcs, StrayPcs
<1>1. CASE CleanupJoined(s)
  <2>1. /\ cmd[s].pc = "joining" /\ handle[s] = None /\ cleanup[s] = None
        /\ \A q \in Sessions \ {s} : cmd'[q] = cmd[q]
        /\ cmd'[s].pc \in {"idle", "save", "publish", "failed"}
    BY <1>0, <1>1, <1>step, <1>end DEF CleanupJoined, OwnerInv, CmdRecords
  <2> QED
    BY <1>0, <2>1, CommandInv
<1>2. CASE WaitTimesOut(s)
  <2>1. /\ cmd[s].pc \in {"quiesce", "joining", "start", "wait"}
        /\ cmd[s].pc = "wait" => cmd'[s].pc = "failed"
        /\ cmd'[s].pc \in {"rollback", "failed"}
        /\ \A q \in Sessions \ {s} : cmd'[q] = cmd[q]
    BY <1>2, <1>step DEF WaitTimesOut
  <2> QED
    BY <1>0, <2>1, CommandInv
<1>3. CASE SaveConfig(s)
  <2>1. /\ cmd[s].pc = "save" /\ \A q \in Sessions \ {s} : cmd'[q] = cmd[q]
        /\ cmd'[s].pc \in {"quiesce", "resume", "failed"}
    BY <1>0, <1>3, <1>step DEF SaveConfig, CmdRecords
  <2> QED
    BY <1>0, <2>1, CommandInv
<1>4. CASE ResumeForEnable(s)
  <2>1. /\ cmd[s].pc = "resume" /\ \A q \in Sessions \ {s} : cmd'[q] = cmd[q]
        /\ cmd'[s].pc \in {"start", "rollback"}
    BY <1>4, <1>step DEF ResumeForEnable
  <2> QED
    BY <1>0, <2>1, CommandInv
<1>5. CASE StartFound(s) \/ RollBack(s)
  <2>1. /\ cmd[s].pc \in {"start", "rollback"} /\ \A q \in Sessions \ {s} : cmd'[q] = cmd[q]
        /\ cmd'[s].pc \in {"quiesce", "idle"}
    BY <1>0, <1>5, <1>end DEF StartFound, RollBack, CmdRecords
  <2> QED
    BY <1>0, <2>1, CommandInv
<1>6. CASE ReplyError(s)
  <2>1. /\ cmd[s].pc = "failed" /\ \A q \in Sessions \ {s} : cmd'[q] = cmd[q] /\ cmd'[s].pc = "idle"
    BY <1>6, <1>end DEF ReplyError
  <2>2. cmd'[s].pc = "idle"
    BY <1>6, <1>end DEF ReplyError
  <2> QED
    BY <1>0, <2>1, <2>2, CommandInv
<1>7. CASE DeleteParks(s) \/ DeleteCancels(s)
  <2>1. /\ cmd[s].pc \in {"park", "cancel"} /\ \A q \in Sessions \ {s} : cmd'[q] = cmd[q]
        /\ cmd'[s].pc \in {"cancel", "failed", "idle"}
    BY <1>0, <1>7, <1>end, <1>step DEF DeleteParks, DeleteCancels, CmdRecords
  <2>2. handle[s] = None /\ cleanup[s] = None /\ s \notin live
    BY <1>0, <2>1 DEF OwnerInv
  <2> QED
    BY <1>0, <2>1, <2>2, CommandInv
<1>8. CASE ResumeBinding(s)
  <2>1. CASE UNCHANGED cmd
    BY <1>0, <2>1, OnwardInv
  <2>2. CASE ~UNCHANGED cmd
    <3>1. PICK p \in {"start", "rollback"} :
            /\ cmd[s].pc = "idle" /\ s \in live
            /\ cmd' = [cmd EXCEPT ![s] =
                         [NoCmd EXCEPT !.pc = p, !.tag = config[s].tag, !.max = config[s].max,
                                       !.rev = config[s].rev]]
      BY <1>8, <2>2 DEF ResumeBinding, Unlocked
    <3>2. cmd'[s].pc = p /\ \A q \in Sessions \ {s} : cmd'[q] = cmd[q]
      BY <1>0, <3>1 DEF NoCmd
    <3> QED
      BY <1>0, <3>1, <3>2, CommandInv
  <2> QED
    BY <2>1, <2>2
<1>9. CASE DeleteBegins(s)
  <2>1. /\ cmd[s].pc = "idle" /\ s \notin live /\ cmd'[s].pc = "wait"
        /\ \A q \in Sessions \ {s} : cmd'[q] = cmd[q]
    BY <1>0, <1>9 DEF DeleteBegins, Unlocked, NoCmd
  <2> QED
    BY <1>0, <2>1, CommandInv
<1>10. ASSUME NEW t, NEW m, ApplyConfig(s, t, m) PROVE WorkerInv'
  <2> DEFINE p == IF t # None /\ ~RunningMatches(s, t, m) THEN "quiesce" ELSE "save"
  <2>1. /\ s \in live
        /\ cmd' = [cmd EXCEPT ![s] = [NoCmd EXCEPT !.tag = t, !.max = m, !.rev = config[s].rev,
                                                   !.next = "save", !.request = TRUE, !.pc = p]]
    BY <1>10 DEF ApplyConfig
  <2>2. p \in {"quiesce", "save"}
    OBVIOUS
  <2> HIDE DEF p
  <2>3. cmd'[s].pc = p /\ \A q \in Sessions \ {s} : cmd'[q] = cmd[q]
    BY <1>0, <2>1 DEF NoCmd
  <2> QED
    BY <1>0, <2>1, <2>2, <2>3, CommandInv
<1>11. CASE RequestDropped(s)
  <2>1. /\ cmd[s].pc \notin DeletePcs /\ cmd'[s].pc = "idle"
        /\ \A q \in Sessions \ {s} : cmd'[q] = cmd[q]
    BY <1>11, <1>end DEF RequestDropped, Typed, CommandWellFormed
  <2> QED
    BY <1>0, <2>1, CommandInv
<1> QED
  BY <1>0, <1>1, <1>2, <1>3, <1>4, <1>5, <1>6, <1>7, <1>8, <1>9, <1>10, <1>11

\* Nobody works when the runner starts.
LEMMA WorkerInit == RunnerInit => WorkerInv
<1> SUFFICES ASSUME RunnerInit PROVE WorkerInv
  OBVIOUS
<1>1. /\ \A l \in Loops : loop[l] = NoLoop
      /\ \A s \in Sessions : handle[s] = None /\ cleanup[s] = None /\ cmd[s] = NoCmd
  BY DEF RunnerInit
<1>2. ASSUME NEW l \in Loops PROVE SlotInv(l) /\ ~Unfinished(l)
  BY <1>1, EmptyIdle DEF SlotInv, Unfinished, Works
<1>3. ASSUME NEW s \in Sessions PROVE OwnerInv(s)
  BY <1>1 DEF OwnerInv, NoCmd, DeletePcs
<1> QED
  BY <1>2, <1>3 DEF WorkerInv, Attended, OneWorkerPerTarget

\* The steps of the runner, by what they do to slots and references.
QuietLoopStep(l) ==
    \/ LoopBegins(l) \/ ListCancelled(l) \/ PurgeCancelled(l) \/ ClaimNext(l)
    \/ PublishClaim(l) \/ KeeperRecovers(l) \/ KeeperCancels(l)
    \/ Admit(l) \/ AwaitReceipt(l) \/ RenewTick(l) \/ JudgeReceipt(l) \/ PauseForAttention(l)
    \/ ReleaseClaim(l) \/ WriteVerdict(l) \/ ConfirmVerdict(l) \/ TurnEnds(l)
    \/ FinishCancelled(l) \/ CapReached(l)
TaskDrops(l) == TaskRunning(l) /\ DropTask(l)
PlainCommand(s) ==
    \/ CleanupJoined(s) \/ WaitTimesOut(s) \/ SaveConfig(s) \/ ResumeForEnable(s)
    \/ StartFound(s) \/ RollBack(s) \/ ReplyError(s) \/ DeleteParks(s) \/ DeleteCancels(s)
    \/ ResumeBinding(s) \/ DeleteBegins(s) \/ RequestDropped(s) \/ \E t, m : ApplyConfig(s, t, m)
LoopsUntouched == UNCHANGED <<config, loop, handle, cleanup, cmd>>

\* Every step is of one of these kinds.
LEMMA StepKinds ==
    ASSUME [RunnerNext]_rvars
    PROVE  \/ \E l \in Loops : \/ QuietLoopStep(l) \/ TaskDrops(l) \/ CustodianBegins(l)
                               \/ CleanupBegins(l) \/ KeeperEnds(l)
           \/ \E s \in Sessions : \/ Quiesce(s) \/ LaunchLoop(s) \/ DeleteTakes(s) \/ DeleteJoins(s)
                                  \/ PlainCommand(s)
           \/ LoopsUntouched
           \/ Crash
<1>1. CASE \E l \in Loops : LoopStep(l) \/ TaskPanics(l)
  BY <1>1 DEF LoopStep, TaskPanics, TaskReturns, AbortLands, TaskAt, TaskRunning, QuietLoopStep, TaskDrops
<1>2. CASE \E s \in Sessions : CommandStep(s)
  BY <1>2 DEF CommandStep, PlainCommand
<1>3. CASE HostStep
  BY <1>3 DEF HostStep, PlainCommand, SweeperCollects, SweeperSweeps, CancellationEnds,
              RecoverExecution, LoopsUntouched
<1>4. CASE UserStep
  BY <1>4 DEF UserStep, PlainCommand, StopCurrentClaim, AgentDeclares, pvars, LoopsUntouched
<1>5. CASE QueueEnvironment \/ UNCHANGED rvars
  BY <1>5 DEF QueueEnvironment, pvars, rvars, LoopsUntouched
<1> QED
  BY <1>1, <1>2, <1>3, <1>4, <1>5 DEF RunnerNext

\* Every step keeps one worker per session.
LEMMA WorkerNext ==
    ASSUME RunnerInv, RunnerInv', WorkerInv, [RunnerNext]_rvars
    PROVE  WorkerInv'
<1>1. Typed /\ Typed'
  <2>1. Typed
    BY AllTyped DEF RunnerInv
  <2>2. RunnerTypeOK'
    BY DEF RunnerInv
  <2>3. Typed'
    BY <2>2 DEF RunnerTypeOK, Typed, SlotWellFormed, Works, Target
  <2> QED
    BY <2>1, <2>3
<1>2. live' \subseteq live
  BY RunnerRefines, LiveShrinks DEF RunnerInv
<1>3. ASSUME NEW l \in Loops, QuietLoopStep(l) PROVE WorkerInv'
  <2>1. Onward(l)
    BY <1>1, <1>3, EarlySteps, TurnSteps DEF QuietLoopStep
  <2> QED
    BY <1>1, <1>2, <2>1, OnwardInv DEF Onward
<1>4. ASSUME NEW l \in Loops, TaskDrops(l) PROVE WorkerInv'
  BY <1>1, <1>4, DropWorkerInv DEF TaskDrops
<1>5. ASSUME NEW l \in Loops, CustodianBegins(l) \/ CleanupBegins(l) \/ KeeperEnds(l) PROVE WorkerInv'
  BY <1>1, <1>5, CustodianBeginsInv, CleanupBeginsInv, KeeperEndsInv
<1>6. ASSUME NEW s \in Sessions, Quiesce(s) \/ LaunchLoop(s) \/ DeleteTakes(s) \/ DeleteJoins(s)
      PROVE  WorkerInv'
  BY <1>1, <1>6, QuiesceInv, LaunchInv, DeleteTakesInv, DeleteJoinsInv
<1>7. ASSUME NEW s \in Sessions, PlainCommand(s) PROVE WorkerInv'
  BY <1>1, <1>2, <1>7, PlainCommandInv DEF PlainCommand
<1>8. CASE LoopsUntouched
  BY <1>1, <1>2, <1>8, OnwardInv DEF LoopsUntouched
<1> QED
  BY <1>3, <1>4, <1>5, <1>6, <1>7, <1>8, StepKinds, CrashWorkerInv

\* A session never has two loop instances with unfinished business, however
\* stops, timeouts, panics, reconfigurations, deletes and restarts interleave.
THEOREM OneWorker == RunnerSpec => []OneWorkerPerTarget
<1>1. RunnerInv /\ RunnerInv' /\ WorkerInv /\ [RunnerNext]_rvars => WorkerInv'
  BY WorkerNext
<1>2. WorkerInv => OneWorkerPerTarget
  BY DEF WorkerInv
<1> QED
  BY <1>1, <1>2, WorkerInit, RunnerInitInv, RunnerNextInv, PTL DEF RunnerSpec

-----------------------------------------------------------------------------
(* The loop and the persisted config *)

\* The commands that will start a loop with the config they carry, and the steps
\* that forget no disable cut short.
Carries(c) ==
    \/ c.pc \in {"resume", "start", "publish"}
    \/ c.pc \in {"quiesce", "joining"} /\ c.next = "publish"

CutKept == host.cut \subseteq host'.cut

\* Only a new loop and a restart forget a disable cut short.
LEMMA CutStays ==
    ASSUME Typed, [RunnerNext]_rvars, ~Crash, \A s \in Sessions : ~LaunchLoop(s)
    PROVE  CutKept
<1>0. host \in HostRecords
  BY DEF Typed
<1>1. CASE \E l \in Loops : LoopStep(l) \/ TaskPanics(l)
  <2>l. PICK l \in Loops : LoopStep(l) \/ TaskPanics(l)
    BY <1>1
  <2>1. host'.cut = host.cut
    <3>1. CASE \/ LoopBegins(l) \/ ListCancelled(l) \/ PurgeCancelled(l) \/ ClaimNext(l) \/ PublishClaim(l)
               \/ Admit(l) \/ AwaitReceipt(l) \/ RenewTick(l) \/ JudgeReceipt(l) \/ PauseForAttention(l)
      BY <3>1 DEF LoopBegins, ListCancelled, PurgeCancelled, ClaimNext, PublishClaim, Admit, AwaitReceipt,
                  RenewTick, JudgeReceipt, PauseForAttention
    <3>2. CASE \/ ReleaseClaim(l) \/ WriteVerdict(l) \/ ConfirmVerdict(l) \/ TurnEnds(l)
               \/ FinishCancelled(l) \/ KeeperCancels(l) \/ CapReached(l) \/ KeeperRecovers(l)
      BY <3>2 DEF ReleaseClaim, WriteVerdict, ConfirmVerdict, TurnEnds, FinishCancelled, KeeperCancels,
                  CapReached, KeeperRecovers
    <3>3. CASE \/ TaskReturns(l) \/ AbortLands(l) \/ TaskPanics(l) \/ CustodianBegins(l) \/ CleanupBegins(l)
               \/ KeeperEnds(l)
      BY <1>0, <3>3 DEF TaskReturns, AbortLands, TaskPanics, DropTask, CustodianBegins, CleanupBegins, KeeperEnds,
                        HostRecords
    <3> QED
      BY <2>l, <3>1, <3>2, <3>3 DEF LoopStep
  <2> QED
    BY <2>1 DEF CutKept
<1>2. ASSUME NEW s \in Sessions, CommandStep(s) PROVE CutKept
  <2>1. UNCHANGED host \/ CutShort(s, cmd[s].tag = None)
    BY <1>2 DEF CommandStep, Quiesce, CleanupJoined, WaitTimesOut, SaveConfig, ResumeForEnable, StartFound,
         RollBack, ReplyError, DeleteTakes, DeleteJoins, DeleteParks, DeleteCancels
  <2> QED
    BY <1>0, <2>1 DEF CutShort, HostRecords, CutKept
<1>3. CASE HostStep
  <2>1. UNCHANGED host \/ host'.cut = host.cut
    BY <1>0, <1>3 DEF HostStep, SweeperCollects, SweeperSweeps, CancellationEnds, RecoverExecution,
         ResumeBinding, HostRecords
  <2> QED
    BY <2>1 DEF CutKept
<1>4. CASE UserStep
  BY <1>0, <1>4 DEF UserStep, StopCurrentClaim, AgentDeclares, ApplyConfig, DeleteBegins, RequestDropped,
       CutShort, HostRecords, CutKept, pvars
<1>5. CASE QueueEnvironment \/ UNCHANGED rvars
  BY <1>5 DEF QueueEnvironment, pvars, rvars, CutKept
<1> QED
  BY <1>1, <1>2, <1>3, <1>4, <1>5 DEF RunnerNext

\* A session whose command and config a step leaves alone, and whose loop it
\* does not bring to work.
LEMMA BindingKept ==
    ASSUME Typed, NEW s \in Sessions, BindingInv(s), config'[s] = config[s], cmd'[s] = cmd[s],
           handle'[s] \in {handle[s], None}, s \in host.cut => s \in host'.cut,
           handle[s] # None /\ Serving(loop'[handle[s]]) =>
               Serving(loop[handle[s]]) /\ Binding(loop'[handle[s]]) = Binding(loop[handle[s]])
    PROVE  BindingInv(s)'
<1>1. CASE handle'[s] = None
  BY <1>1 DEF BindingInv, InCharge
<1>2. CASE handle'[s] = handle[s] /\ handle[s] # None
  <2>1. handle[s] # None /\ Serving(loop'[handle[s]]) =>
          /\ loop'[handle[s]].tag = loop[handle[s]].tag /\ loop'[handle[s]].max = loop[handle[s]].max
    BY DEF Binding
  <2> QED
    BY <1>2, <2>1 DEF BindingInv, InCharge, Fits, CutOff, Outlived
<1> QED
  BY <1>1, <1>2

\* A step within a worker binds nobody anew; the completion cap cancels the
\* loop whose config it disables.
LEMMA QuietBinding ==
    ASSUME Typed, WorkerInv, \A s \in Sessions : BindingInv(s), NEW l \in Loops, QuietLoopStep(l),
           CutKept
    PROVE  \A s \in Sessions : BindingInv(s)'
<1>1. Onward(l)
  BY EarlySteps, TurnSteps DEF QuietLoopStep
<1>2. ASSUME NEW s \in Sessions, config'[s] = config[s] PROVE BindingInv(s)'
  <2>1. handle[s] \in Loops \cup {None} /\ handle'[s] = handle[s] /\ cmd'[s] = cmd[s]
    BY <1>1 DEF Typed, Onward
  <2>2. handle[s] # None /\ Serving(loop'[handle[s]]) =>
            Serving(loop[handle[s]]) /\ Binding(loop'[handle[s]]) = Binding(loop[handle[s]])
    BY <1>1, <2>1 DEF Onward, SameWorker, Serving
  <2> QED
    BY <1>2, <2>1, <2>2, BindingKept DEF CutKept
<1>3. CASE ~CapReached(l)
  <2>1. config' = config
    BY <1>3 DEF QuietLoopStep, LoopBegins, ListCancelled, PurgeCancelled, ClaimNext, PublishClaim,
                KeeperRecovers, KeeperCancels, Admit, AwaitReceipt, RenewTick, JudgeReceipt,
                PauseForAttention, ReleaseClaim, WriteVerdict, ConfirmVerdict, TurnEnds, FinishCancelled
  <2> QED
    BY <1>2, <2>1
<1>4. CASE CapReached(l)
  <2>s. PICK s \in Sessions : s = Target(l)
    BY <1>4 DEF CapReached, TaskAt, Typed, Works
  <2> USE <2>s
  <2>1. /\ TaskAt(l, "cap") /\ cmd[s].pc = "idle" /\ UNCHANGED <<handle, cmd>>
        /\ Become(l, [loop[l] EXCEPT !.pc = "exit", !.cancelled = TRUE])
        /\ \A q \in Sessions \ {s} : config'[q] = config[q]
    BY <1>4 DEF CapReached, Unlocked, Typed
  <2>2. handle[s] \in {None, l}
    <3>1. Unfinished(l)
      BY <2>1 DEF TaskAt, Unfinished
    <3>2. handle[s] \in Loops \cup {None}
      BY DEF Typed
    <3> QED
      BY <3>1, <3>2, PublishedAlone
  <2>3. loop'[l].cancelled
    <3>1. loop[l] \in LoopRecords /\ loop \in [Loops -> LoopRecords]
      BY DEF Typed
    <3>2. [loop[l] EXCEPT !.pc = "exit", !.cancelled = TRUE].cancelled
      BY <3>1 DEF LoopRecords
    <3> QED
      BY <2>1, <3>1, <3>2, OneBecomes
  <2>4. BindingInv(s)'
    BY <2>1, <2>2, <2>3 DEF BindingInv, InCharge, Serving
  <2> QED
    BY <1>2, <2>1, <2>4
<1> QED
  BY <1>3, <1>4

\* The end of a task and the work of its keepers.
LEMMA KeeperBinding ==
    ASSUME Typed, Typed', WorkerInv, \A s \in Sessions : BindingInv(s), NEW l \in Loops,
           TaskDrops(l) \/ CustodianBegins(l) \/ CleanupBegins(l) \/ KeeperEnds(l), CutKept
    PROVE  \A s \in Sessions : BindingInv(s)'
<1>0. loop[l] \in LoopRecords /\ loop \in [Loops -> LoopRecords] /\ UNCHANGED <<config, cmd>>
  BY DEF Typed, TaskDrops, DropTask, CustodianBegins, CleanupBegins, KeeperEnds
<1>1. (\A m \in Loops \ {l} : loop'[m] = loop[m]) /\ ~Serving(loop'[l])
  <2>1. CASE TaskDrops(l)
    BY <1>0, <2>1, OneBecomes, RemainsShape DEF TaskDrops, DropTask, Serving, Works
  <2>left. ASSUME NEW owners, NEW c, NEW b, Leave(l, owners, c, b)
           PROVE  (\A m \in Loops \ {l} : loop'[m] = loop[m]) /\ ~Serving(loop'[l])
    BY <1>0, <2>left, LeaveShape, EmptyIdle DEF Serving, Works
  <2>2. CASE CustodianBegins(l)
    <3>1. CASE Leave(l, cleanup, cmd, FALSE)
      BY <2>left, <3>1
    <3>2. CASE Become(l, [loop[l] EXCEPT !.pc = "scan", !.role = "custodian", !.custodian = FALSE])
      <4>1. [loop[l] EXCEPT !.pc = "scan", !.role = "custodian", !.custodian = FALSE].role = "custodian"
        BY <1>0 DEF LoopRecords
      <4> QED
        BY <1>0, <3>2, <4>1, OneBecomes DEF Serving
    <3> QED
      BY <2>2, <3>1, <3>2 DEF CustodianBegins
  <2>3. CASE CleanupBegins(l)
    <3>1. [loop[l] EXCEPT !.pc = "recover", !.role = "cleanup"].role = "cleanup"
      BY <1>0 DEF LoopRecords
    <3> QED
      BY <1>0, <2>3, <3>1, OneBecomes DEF CleanupBegins, Serving
  <2>4. CASE KeeperEnds(l)
    BY <2>left, <2>4 DEF KeeperEnds
  <2> QED
    BY <2>1, <2>2, <2>3, <2>4
<1>2. ASSUME NEW s \in Sessions PROVE handle'[s] \in {handle[s], None}
  BY DropWorkerInv, KeeperEndsInv DEF TaskDrops, CustodianBegins, CleanupBegins, Typed
<1>3. ASSUME NEW s \in Sessions PROVE BindingInv(s)'
  <2>1. handle[s] \in Loops \cup {None}
    BY DEF Typed
  <2>2. handle[s] # None /\ Serving(loop'[handle[s]]) =>
            Serving(loop[handle[s]]) /\ Binding(loop'[handle[s]]) = Binding(loop[handle[s]])
    BY <1>1, <2>1
  <2> QED
    BY <1>0, <1>2, <2>2, BindingKept DEF CutKept
<1> QED
  BY <1>3

\* The commands that stop a loop leave none in charge, and one that goes on to
\* start another still carries the config.
LEMMA StopBinding ==
    ASSUME Typed, WorkerInv, \A q \in Sessions : BindingInv(q), NEW s \in Sessions,
           handle'[s] = None, CutKept,
           \A q \in Sessions \ {s} : handle'[q] = handle[q] /\ cmd'[q] = cmd[q],
           config' = config,
           \A m \in Loops : loop'[m] = loop[m] \/ ~Serving(loop'[m]),
           Carries(cmd'[s]) => Carries(cmd[s]) /\ cmd'[s].tag = cmd[s].tag
                               /\ cmd'[s].max = cmd[s].max /\ cmd'[s].rev = cmd[s].rev
    PROVE  \A q \in Sessions : BindingInv(q)'
<1>1. BindingInv(s)'
  BY DEF BindingInv, InCharge, Carries
<1>2. ASSUME NEW q \in Sessions \ {s} PROVE BindingInv(q)'
  <2>1. handle[q] \in Loops \cup {None}
    BY DEF Typed
  <2>2. handle[q] # None /\ Serving(loop'[handle[q]]) =>
            Serving(loop[handle[q]]) /\ Binding(loop'[handle[q]]) = Binding(loop[handle[q]])
    BY <2>1
  <2> QED
    BY <2>2, BindingKept DEF CutKept
<1> QED
  BY <1>1, <1>2

\* A command that leaves every loop alone.
LEMMA CommandBinding ==
    ASSUME Typed, \A q \in Sessions : BindingInv(q), NEW s \in Sessions,
           UNCHANGED <<loop, handle>>, CutKept,
           \A q \in Sessions \ {s} : config'[q] = config[q] /\ cmd'[q] = cmd[q],
           Carries(cmd'[s]) =>
               config'[s] = [tag |-> cmd'[s].tag, max |-> cmd'[s].max, rev |-> cmd'[s].rev],
           InCharge(s) =>
               /\ Fits(s)'
               /\ cmd'[s].pc = "save" /\ cmd'[s].tag # None =>
                    cmd'[s].tag = loop[handle[s]].tag /\ cmd'[s].max = loop[handle[s]].max
    PROVE  \A q \in Sessions : BindingInv(q)'
<1>1. BindingInv(s)'
  BY DEF BindingInv, InCharge, Carries
<1>2. ASSUME NEW q \in Sessions \ {s} PROVE BindingInv(q)'
  BY BindingKept DEF CutKept
<1> QED
  BY <1>1, <1>2

\* The stops.
LEMMA StopsBind ==
    ASSUME Typed, Typed', WorkerInv, \A q \in Sessions : BindingInv(q), NEW s \in Sessions,
           Quiesce(s) \/ DeleteTakes(s) \/ DeleteJoins(s), CutKept
    PROVE  \A q \in Sessions : BindingInv(q)'
<1>0. config' = config /\ cmd[s] \in CmdRecords /\ loop \in [Loops -> LoopRecords] /\ OwnerInv(s)
  BY DEF Quiesce, DeleteTakes, DeleteJoins, Typed, WorkerInv
<1>1. handle'[s] = None
  BY <1>0, QuiesceInv, DeleteTakesInv DEF DeleteJoins, OwnerInv
<1>2. ASSUME handle[s] # None, TakeHandle(s)
      PROVE  /\ \A q \in Sessions \ {s} : handle'[q] = handle[q]
             /\ \A m \in Loops : loop'[m] = loop[m] \/ ~Serving(loop'[m])
  <2>1. PICK l \in Loops : l = handle[s]
    BY <1>2 DEF Typed
  <2> QED
    BY <1>2, <2>1, TakeShape DEF Serving
<1>3. CASE Quiesce(s)
  <2>1. /\ \A q \in Sessions \ {s} : handle'[q] = handle[q]
        /\ \A m \in Loops : loop'[m] = loop[m] \/ ~Serving(loop'[m])
    BY <1>2, <1>3 DEF Quiesce
  <2>2. \/ End(s)
        \/ Step(s, cmd[s].next) /\ cmd[s].pc = "quiesce" /\ cmd[s].next # "idle"
        \/ Step(s, "joining") /\ cmd[s].pc = "quiesce"
    BY <1>3 DEF Quiesce
  <2>3. /\ \A q \in Sessions \ {s} : cmd'[q] = cmd[q]
        /\ Carries(cmd'[s]) => Carries(cmd[s]) /\ cmd'[s].tag = cmd[s].tag
                               /\ cmd'[s].max = cmd[s].max /\ cmd'[s].rev = cmd[s].rev
    <3>1. cmd[s].next \in {"idle", "save", "publish", "failed"}
      BY <1>0 DEF CmdRecords
    <3> QED
      BY <2>2, <3>1, StepShape, EndShape DEF Carries
  <2> QED
    BY <1>0, <1>1, <2>1, <2>3, StopBinding
<1>4. CASE DeleteTakes(s)
  <2>1. /\ \A q \in Sessions \ {s} : handle'[q] = handle[q]
        /\ \A m \in Loops : loop'[m] = loop[m] \/ ~Serving(loop'[m])
    BY <1>2, <1>4 DEF DeleteTakes
  <2>2. (\A q \in Sessions \ {s} : cmd'[q] = cmd[q]) /\ cmd'[s].pc \in {"park", "join"}
    <3>1. CASE Step(s, "park")
      BY <3>1, StepShape
    <3>2. CASE cmd' = [cmd EXCEPT ![s].pc = "join", ![s].loop = handle[s]]
      <4>1. cmd'[s] = [cmd[s] EXCEPT !.pc = "join", !.loop = handle[s]]
            /\ \A q \in Sessions \ {s} : cmd'[q] = cmd[q]
        BY <3>2 DEF Typed
      <4> QED
        BY <1>0, <4>1 DEF CmdRecords
    <3> QED
      BY <1>4, <3>1, <3>2 DEF DeleteTakes
  <2>3. ~Carries(cmd'[s])
    BY <2>2 DEF Carries
  <2> QED
    BY <1>0, <1>1, <2>1, <2>2, <2>3, StopBinding
<1>5. CASE DeleteJoins(s)
  <2>l. PICK l \in Loops : l = cmd[s].loop
    BY <1>0, <1>5 DEF DeleteJoins, OwnerInv
  <2>1. /\ handle' = handle
        /\ \A m \in Loops : loop'[m] = loop[m] \/ ~Serving(loop'[m])
    <3>1. CASE loop' = loop
      BY <1>5, <3>1 DEF DeleteJoins
    <3>2. CASE Leave(l, cleanup, cmd', loop[l].custodian)
      BY <1>0, <1>5, <3>2, LeaveShape, EmptyIdle DEF DeleteJoins, Serving, Works
    <3> QED
      BY <1>5, <2>l, <3>1, <3>2 DEF DeleteJoins
  <2>2. PICK p \in {"park", "failed"} : cmd' = [cmd EXCEPT ![s].pc = p, ![s].loop = None]
    BY <1>5 DEF DeleteJoins
  <2>3. (\A q \in Sessions \ {s} : cmd'[q] = cmd[q]) /\ cmd'[s].pc \in {"park", "failed"}
    <3>1. cmd'[s] = [cmd[s] EXCEPT !.pc = p, !.loop = None]
          /\ \A q \in Sessions \ {s} : cmd'[q] = cmd[q]
      BY <2>2 DEF Typed
    <3> QED
      BY <1>0, <3>1 DEF CmdRecords
  <2>4. ~Carries(cmd'[s])
    BY <2>3 DEF Carries
  <2> QED
    BY <1>0, <1>1, <2>1, <2>3, <2>4, StopBinding
<1> QED
  BY <1>3, <1>4, <1>5

\* A new loop serves the config that its command carried.
LEMMA LaunchBinding ==
    ASSUME Typed, WorkerInv, \A q \in Sessions : BindingInv(q), NEW s \in Sessions, LaunchLoop(s)
    PROVE  \A q \in Sessions : BindingInv(q)'
<1>1. PICK l \in Loops :
        /\ loop[l].pc = "free" /\ handle' = [handle EXCEPT ![s] = l]
        /\ Become(l, [NoLoop EXCEPT !.pc = "born", !.target = s, !.tag = cmd[s].tag,
                                    !.max = cmd[s].max, !.rev = cmd[s].rev])
  <2> DEFINE k == CHOOSE x \in FreeLoops : TRUE
  <2>1. k \in FreeLoops
    BY DEF LaunchLoop
  <2> QED
    BY <2>1 DEF LaunchLoop, FreeLoops
<1>2. /\ Binding(loop'[l]) = [tag |-> cmd[s].tag, max |-> cmd[s].max, rev |-> cmd[s].rev]
      /\ \A m \in Loops \ {l} : loop'[m] = loop[m]
  <2> DEFINE x == [NoLoop EXCEPT !.pc = "born", !.target = s, !.tag = cmd[s].tag,
                                 !.max = cmd[s].max, !.rev = cmd[s].rev]
  <2>1. x.tag = cmd[s].tag /\ x.max = cmd[s].max /\ x.rev = cmd[s].rev
    BY DEF NoLoop
  <2>2. loop'[l] = x /\ \A m \in Loops \ {l} : loop'[m] = loop[m]
    BY <1>1, OneBecomes DEF Typed
  <2> HIDE DEF x
  <2> QED
    BY <2>1, <2>2 DEF Binding
<1>3. handle'[s] = l /\ \A q \in Sessions \ {s} : handle'[q] = handle[q]
  BY <1>1 DEF Typed
<1>4. cmd'[s].pc = "idle" /\ \A q \in Sessions \ {s} : cmd'[q] = cmd[q]
  BY EndShape DEF LaunchLoop
<1>5. config' = config /\ Carries(cmd[s])
  BY DEF LaunchLoop, Carries
<1>6. config[s] = [tag |-> cmd[s].tag, max |-> cmd[s].max, rev |-> cmd[s].rev]
  BY <1>5 DEF BindingInv, Carries
<1>c. host'.cut = host.cut \ {s}
  BY DEF LaunchLoop, Typed, HostRecords
<1>7. BindingInv(s)'
  <2>1. Fits(s)'
    BY <1>2, <1>3, <1>5, <1>6 DEF Fits
  <2> QED
    BY <1>3, <1>4, <1>5, <2>1 DEF BindingInv
<1>8. ASSUME NEW q \in Sessions \ {s} PROVE BindingInv(q)'
  <2>1. handle[q] \in Loops \cup {None} /\ OwnerInv(q)
    BY DEF Typed, WorkerInv
  <2>2. handle[q] # None => loop'[handle[q]] = loop[handle[q]]
    BY <1>1, <1>2, <2>1 DEF OwnerInv
  <2> QED
    BY <1>c, <1>3, <1>4, <1>5, <2>2, BindingKept
<1> QED
  BY <1>7, <1>8

\* A commit that is one gives a config other than the one before.
LEMMA CommitChanges ==
    ASSUME NEW g \in Configs, NEW t, NEW m
    PROVE  \/ Committed(g, t, m) = g
           \/ ~(g.tag = t /\ g.max = m)
BY DEF Committed

\* A commit writes what it was asked to.
LEMMA CommitWrites ==
    ASSUME NEW g \in Configs, NEW t, NEW m
    PROVE  Committed(g, t, m) = [tag |-> t, max |-> m, rev |-> Committed(g, t, m).rev]
BY DEF Committed, Configs

\* The commands that leave every loop alone: a save that keeps the loop was
\* decided for a loop that matches, and the lock kept it from being replaced.
LEMMA PlainBinding ==
    ASSUME Typed, WorkerInv, WorkerInv', \A q \in Sessions : BindingInv(q), NEW s \in Sessions,
           UNCHANGED <<loop, handle>>, CutKept, PlainCommand(s)
    PROVE  \A q \in Sessions : BindingInv(q)'
<1>0. /\ cmd[s] \in CmdRecords /\ OwnerInv(s) /\ OwnerInv(s)' /\ BindingInv(s) /\ config[s] \in Configs
      /\ cmd \in [Sessions -> CmdRecords] /\ config \in [Sessions -> Configs]
  BY DEF Typed, WorkerInv
<1> DEFINE Kept == \A q \in Sessions \ {s} : config'[q] = config[q] /\ cmd'[q] = cmd[q]
           Carried == Carries(cmd'[s]) =>
               config'[s] = [tag |-> cmd'[s].tag, max |-> cmd'[s].max, rev |-> cmd'[s].rev]
           Fit == InCharge(s) =>
                    /\ Fits(s)'
                    /\ cmd'[s].pc = "save" /\ cmd'[s].tag # None =>
                         cmd'[s].tag = loop[handle[s]].tag /\ cmd'[s].max = loop[handle[s]].max
<1> SUFFICES Kept /\ Carried /\ Fit
  BY <1>0, CommandBinding
<1>now. InCharge(s) => Fits(s)
  BY <1>0 DEF BindingInv
<1>carry. Carries(cmd[s]) => config[s] = [tag |-> cmd[s].tag, max |-> cmd[s].max, rev |-> cmd[s].rev]
  BY <1>0 DEF BindingInv, Carries
<1>same. ASSUME config'[s] = config[s], InCharge(s) /\ CutOff(s) => CutOff(s)'
         PROVE  InCharge(s) => Fits(s)'
  BY <1>same, <1>now DEF Fits
<1>calm. cmd[s].pc # "quiesce" => (CutOff(s) => CutOff(s)')
  BY DEF CutOff, CutKept
<1> HIDE DEF CutKept
<1>end. ASSUME End(s), config' = config, InCharge(s) /\ CutOff(s) => CutOff(s)'
        PROVE  Kept /\ Carried /\ Fit
  BY <1>end, <1>same, EndShape DEF Carries
<1>step. ASSUME NEW p, Step(s, p), config' = config, p # "save", InCharge(s) => cmd[s].pc # "quiesce",
                (\/ p \in {"resume", "start", "publish"}
                 \/ p \in {"quiesce", "joining"} /\ cmd[s].next = "publish") => Carries(cmd[s])
         PROVE  Kept /\ Carried /\ Fit
  BY <1>step, <1>same, <1>calm, <1>carry, StepShape DEF Carries
<1>1. CASE CleanupJoined(s)
  <2>1. cmd[s].pc = "joining" /\ handle[s] = None /\ config' = config
    BY <1>0, <1>1 DEF CleanupJoined, OwnerInv
  <2>2. CASE End(s)
    BY <2>1, <2>2, <1>end DEF InCharge
  <2>3. CASE Step(s, cmd[s].next)
    <3>1. cmd[s].next \in {"idle", "save", "publish", "failed"}
      BY <1>0 DEF CmdRecords
    <3>2. Kept /\ Carried
      BY <2>1, <2>3, <3>1, <1>carry, StepShape DEF Carries
    <3> QED
      BY <2>1, <3>2 DEF InCharge
  <2> QED
    BY <1>1, <2>2, <2>3 DEF CleanupJoined
<1>2. CASE WaitTimesOut(s)
  <2>1. handle[s] = None /\ config' = config
    BY <1>0, <1>2 DEF WaitTimesOut, OwnerInv
  <2>2. PICK p \in {"rollback", "failed"} : Step(s, p)
    BY <1>2 DEF WaitTimesOut
  <2> QED
    BY <2>1, <2>2, <1>step DEF InCharge
<1>3. CASE SaveConfig(s)
  <2>1. /\ cmd[s].pc = "save"
        /\ InCharge(s) /\ cmd[s].tag # None =>
             cmd[s].tag = loop[handle[s]].tag /\ cmd[s].max = loop[handle[s]].max
    BY <1>0, <1>3 DEF SaveConfig, BindingInv
  <2> DEFINE new == Committed(config[s], cmd[s].tag, cmd[s].max)
  <2>2. new = [tag |-> cmd[s].tag, max |-> cmd[s].max, rev |-> new.rev]
    BY <1>0, CommitWrites
  <2>3. new = config[s] \/ ~(config[s].tag = cmd[s].tag /\ config[s].max = cmd[s].max)
    BY <1>0, CommitChanges
  <2> HIDE DEF new
  <2>fit. ASSUME config'[s] = new, InCharge(s) /\ cmd[s].tag = None => CutOff(s)'
          PROVE  InCharge(s) => Fits(s)'
    <3> SUFFICES ASSUME InCharge(s) PROVE Fits(s)'
      OBVIOUS
    <3>1. CASE new = config[s]
      BY <1>calm, <1>same, <2>1, <2>fit, <3>1
    <3>2. CASE new # config[s] /\ cmd[s].tag = None
      <4>1. new.tag = None
        BY <2>2, <3>2
      <4> QED
        BY <2>fit, <3>2, <4>1 DEF Fits, Outlived
    <3>3. CASE new # config[s] /\ cmd[s].tag # None
      <4>1. new.tag = loop[handle[s]].tag /\ new.max = loop[handle[s]].max
        BY <2>1, <2>2, <3>3
      <4>2. config[s] # Binding(loop[handle[s]])
        BY <2>1, <2>3, <3>3 DEF Binding
      <4>3. CutOff(s)'
        BY <1>now, <1>calm, <2>1, <4>2 DEF Fits
      <4> QED
        BY <2>fit, <4>1, <4>3 DEF Fits, Outlived
    <3> QED
      BY <3>1, <3>2, <3>3
  <2>4. CASE Step(s, "failed") /\ config' = config
    BY <2>1, <2>4, <1>step
  <2>5. CASE Step(s, "failed") /\ CutShort(s, cmd[s].tag = None) /\ config' = [config EXCEPT ![s] = new]
    <3>1. Kept /\ config'[s] = new /\ cmd'[s].pc = "failed"
      BY <1>0, <2>5, StepShape
    <3>2. cmd[s].tag = None => CutOff(s)'
      BY <2>5 DEF CutShort, Typed, HostRecords, CutOff
    <3> QED
      BY <2>fit, <3>1, <3>2 DEF Carries
  <2>6. CASE /\ config' = [config EXCEPT ![s] = new]
             /\ cmd' = [cmd EXCEPT ![s].rev = new.rev,
                                   ![s].pc = IF cmd[s].tag = None THEN "quiesce" ELSE "resume",
                                   ![s].next = "idle"]
    <3> DEFINE p == IF cmd[s].tag = None THEN "quiesce" ELSE "resume"
    <3>1. Kept /\ config'[s] = new /\ cmd'[s] = [cmd[s] EXCEPT !.rev = new.rev, !.pc = p, !.next = "idle"]
      BY <1>0, <2>6
    <3>2. /\ cmd'[s].pc = p /\ cmd'[s].next = "idle" /\ cmd'[s].tag = cmd[s].tag
          /\ cmd'[s].max = cmd[s].max /\ cmd'[s].rev = new.rev
      <4> HIDE DEF p, Kept
      <4> QED
        BY <1>0, <3>1 DEF CmdRecords
    <3>3. cmd[s].tag = None => CutOff(s)'
      BY <3>2 DEF CutOff
    <3> QED
      BY <2>2, <2>fit, <3>1, <3>2, <3>3 DEF Carries
  <2> QED
    BY <1>3, <2>4, <2>5, <2>6 DEF SaveConfig, new
<1>4. CASE ResumeForEnable(s)
  <2>1. config' = config /\ cmd[s].pc = "resume"
    BY <1>4 DEF ResumeForEnable
  <2>2. PICK p \in {"start", "rollback"} : Step(s, p)
    BY <1>4 DEF ResumeForEnable
  <2> QED
    BY <2>1, <2>2, <1>step DEF Carries
<1>5. CASE StartFound(s)
  <2>1. config' = config /\ cmd[s].pc = "start"
    BY <1>5 DEF StartFound
  <2>2. CASE End(s)
    BY <2>1, <2>2, <1>calm, <1>end
  <2>3. CASE cmd' = [cmd EXCEPT ![s].pc = "quiesce", ![s].next = "publish"]
    <3>1. Kept /\ cmd'[s] = [cmd[s] EXCEPT !.pc = "quiesce", !.next = "publish"]
      BY <1>0, <2>1, <2>3
    <3>2. /\ cmd'[s].pc = "quiesce" /\ cmd'[s].tag = cmd[s].tag
          /\ cmd'[s].max = cmd[s].max /\ cmd'[s].rev = cmd[s].rev
      BY <1>0, <3>1 DEF CmdRecords
    <3> QED
      BY <2>1, <3>1, <3>2, <1>calm, <1>same, <1>carry DEF Carries
  <2> QED
    BY <1>5, <2>2, <2>3 DEF StartFound
<1>6. CASE RollBack(s)
  <2>1. /\ config'[s] = config[s] \/ config'[s].tag = None
        /\ \A q \in Sessions \ {s} : config'[q] = config[q]
        /\ cmd' = [cmd EXCEPT ![s].pc = "quiesce", ![s].next = "failed"]
    BY <1>0, <1>6, CommitWrites DEF RollBack, Disabled
  <2>2. Kept /\ cmd'[s] = [cmd[s] EXCEPT !.pc = "quiesce", !.next = "failed"]
    BY <1>0, <2>1
  <2>3. cmd'[s].pc = "quiesce" /\ cmd'[s].next = "failed"
    BY <1>0, <2>2 DEF CmdRecords
  <2> QED
    BY <2>1, <2>2, <2>3, <1>now DEF Carries, CutOff, Fits, Outlived
<1>7. CASE ReplyError(s)
  BY <1>7, <1>calm, <1>end DEF ReplyError
<1>8. CASE DeleteParks(s) \/ DeleteCancels(s)
  <2>1. handle[s] = None /\ config' = config
    BY <1>0, <1>8 DEF DeleteParks, DeleteCancels, OwnerInv
  <2>2. ASSUME NEW d, NEW p \in {"cancel"}, cmd' = [cmd EXCEPT ![s].pc = p, ![s].todo = d]
        PROVE  Kept /\ ~Carries(cmd'[s])
    <3>1. Kept /\ cmd'[s] = [cmd[s] EXCEPT !.pc = p, !.todo = d]
      BY <1>0, <2>1, <2>2
    <3>2. cmd'[s].pc = "cancel"
      BY <1>0, <3>1 DEF CmdRecords
    <3> QED
      BY <3>1, <3>2 DEF Carries
  <2>3. ASSUME NEW d, cmd[s].pc = "cancel", cmd' = [cmd EXCEPT ![s].todo = d]
        PROVE  Kept /\ ~Carries(cmd'[s])
    <3>1. Kept /\ cmd'[s] = [cmd[s] EXCEPT !.todo = d]
      BY <1>0, <2>1, <2>3
    <3>2. cmd'[s].pc = "cancel"
      BY <1>0, <2>3, <3>1 DEF CmdRecords
    <3> QED
      BY <3>1, <3>2 DEF Carries
  <2>4. CASE Step(s, "failed")
    BY <2>1, <2>4, <1>step DEF InCharge
  <2>5. CASE End(s)
    BY <2>1, <2>5, <1>end DEF InCharge
  <2>6. \/ Step(s, "failed") \/ End(s)
        \/ \E d : cmd' = [cmd EXCEPT ![s].pc = "cancel", ![s].todo = d]
        \/ cmd[s].pc = "cancel" /\ \E d : cmd' = [cmd EXCEPT ![s].todo = d]
    <3>1. CASE DeleteParks(s)
      BY <3>1, Zenon DEF DeleteParks
    <3>2. CASE DeleteCancels(s)
      BY <3>2, Zenon DEF DeleteCancels
    <3> QED
      BY <1>8, <3>1, <3>2
  <2> QED
    BY <2>1, <2>2, <2>3, <2>4, <2>5, <2>6 DEF InCharge
<1>9. CASE ResumeBinding(s)
  <2>1. config' = config /\ cmd[s].pc = "idle"
    BY <1>9 DEF ResumeBinding, Unlocked
  <2>2. CASE cmd' = cmd
    BY <2>1, <2>2, <1>calm, <1>same DEF Carries
  <2>3. ASSUME NEW p \in {"start", "rollback"},
               cmd' = [cmd EXCEPT ![s] = [NoCmd EXCEPT !.pc = p, !.tag = config[s].tag,
                                          !.max = config[s].max, !.rev = config[s].rev]]
        PROVE  Kept /\ Carried /\ Fit
    <3>1. Kept /\ cmd'[s] = [NoCmd EXCEPT !.pc = p, !.tag = config[s].tag,
                                          !.max = config[s].max, !.rev = config[s].rev]
      BY <1>0, <2>1, <2>3
    <3>2. /\ cmd'[s].pc = p /\ cmd'[s].tag = config[s].tag /\ cmd'[s].max = config[s].max
          /\ cmd'[s].rev = config[s].rev
      BY <3>1 DEF NoCmd
    <3>3. config[s] = [tag |-> config[s].tag, max |-> config[s].max, rev |-> config[s].rev]
      BY <1>0 DEF Configs
    <3> QED
      BY <2>1, <2>3, <3>1, <3>2, <3>3, <1>calm, <1>same
  <2> QED
    BY <1>9, <2>2, <2>3 DEF ResumeBinding
<1>10. CASE DeleteBegins(s)
  <2>1. Kept /\ config' = config /\ cmd[s].pc = "idle" /\ cmd'[s] = [NoCmd EXCEPT !.pc = "wait"]
    BY <1>0, <1>10 DEF DeleteBegins, Unlocked
  <2>2. cmd'[s].pc = "wait"
    BY <2>1 DEF NoCmd
  <2> QED
    BY <2>1, <2>2, <1>calm, <1>same DEF Carries
<1>11. ASSUME NEW t, NEW m, ApplyConfig(s, t, m)
       PROVE  Kept /\ Carried /\ Fit
  <2>1. config' = config /\ cmd[s].pc = "idle"
    BY <1>11 DEF ApplyConfig, Unlocked
  <2>2. PICK p \in {"quiesce", "save"} :
          /\ p = "save" => t = None \/ RunningMatches(s, t, m)
          /\ cmd' = [cmd EXCEPT ![s] = [NoCmd EXCEPT !.tag = t, !.max = m, !.rev = config[s].rev,
                                                     !.next = "save", !.request = TRUE, !.pc = p]]
    BY <1>11 DEF ApplyConfig
  <2>3. Kept /\ cmd'[s] = [NoCmd EXCEPT !.tag = t, !.max = m, !.rev = config[s].rev,
                                        !.next = "save", !.request = TRUE, !.pc = p]
    BY <1>0, <2>1, <2>2
  <2>4. cmd'[s].pc = p /\ cmd'[s].next = "save" /\ cmd'[s].tag = t /\ cmd'[s].max = m
    BY <2>3 DEF NoCmd
  <2> QED
    BY <2>1, <2>2, <2>3, <2>4, <1>calm, <1>same DEF Carries, RunningMatches
<1>12. CASE RequestDropped(s)
  <2>1. CutOff(s) => CutOff(s)'
    <3>1. host \in HostRecords
      BY DEF Typed
    <3> QED
      BY <1>12, <3>1 DEF RequestDropped, CutShort, HostRecords, CutOff
  <2> QED
    BY <1>12, <1>end, <2>1 DEF RequestDropped
<1> QED
  BY <1>1, <1>2, <1>3, <1>4, <1>5, <1>6, <1>7, <1>8, <1>9, <1>10, <1>11, <1>12 DEF PlainCommand

\* Every step keeps the bindings.
LEMMA BindingNext ==
    ASSUME RunnerInv, RunnerInv', WorkerInv, WorkerInv', \A s \in Sessions : BindingInv(s),
           [RunnerNext]_rvars
    PROVE  \A s \in Sessions : BindingInv(s)'
<1>1. Typed /\ Typed'
  <2>1. RunnerTypeOK'
    BY DEF RunnerInv
  <2>2. Typed'
    BY <2>1 DEF RunnerTypeOK, Typed, SlotWellFormed, Works, Target
  <2> QED
    BY <2>2, AllTyped DEF RunnerInv
<1>2. live' \subseteq live
  BY RunnerRefines, LiveShrinks DEF RunnerInv
<1>3. ASSUME NEW s \in Sessions, PlainCommand(s), CutKept PROVE \A q \in Sessions : BindingInv(q)'
  <2>1. UNCHANGED <<loop, handle>>
    BY <1>1, <1>2, <1>3, PlainCommandInv DEF PlainCommand
  <2> QED
    BY <1>1, <1>3, <2>1, PlainBinding
<1>4. CASE LoopsUntouched /\ CutKept
  <2>1. \A s \in Sessions : Serving(loop'[handle[s]]) => Serving(loop[handle[s]])
    BY <1>4 DEF LoopsUntouched
  <2> QED
    BY <1>1, <1>4, <2>1, BindingKept DEF LoopsUntouched, CutKept
<1>5. CASE Crash
  BY <1>5 DEF Crash, BindingInv, InCharge, NoCmd
<1>6. ASSUME NEW s \in Sessions, LaunchLoop(s) PROVE \A q \in Sessions : BindingInv(q)'
  BY <1>1, <1>6, LaunchBinding
<1>7. CutKept \/ Crash \/ \E s \in Sessions : LaunchLoop(s)
  BY <1>1, CutStays
<1> QED
  BY <1>1, <1>3, <1>4, <1>5, <1>6, <1>7, StepKinds, QuietBinding, KeeperBinding, StopsBind

\* The bindings hold in every state of the runner.
LEMMA BindingsHold == RunnerSpec => [](\A s \in Sessions : BindingInv(s))
<1>1. RunnerInit => \A s \in Sessions : BindingInv(s)
  BY DEF RunnerInit, BindingInv, InCharge, NoCmd
<1>2. RunnerInv /\ RunnerInv' /\ WorkerInv /\ [RunnerNext]_rvars => WorkerInv'
  BY WorkerNext
<1>3. RunnerInv /\ RunnerInv' /\ WorkerInv /\ WorkerInv' /\ (\A s \in Sessions : BindingInv(s))
        /\ [RunnerNext]_rvars => (\A s \in Sessions : BindingInv(s))'
  BY BindingNext
<1> QED
  BY <1>1, <1>2, <1>3, WorkerInit, RunnerInitInv, RunnerNextInv, PTL DEF RunnerSpec

\* Whatever timeouts, panics, crashes, deletes, dropped requests, failed calls
\* and completion caps interleave, a loop that can still claim, of a session
\* with no command under way, serves exactly the persisted config, down to its
\* revision; after a disable that was cut short between its commit and its stop
\* it serves at least the tag and the maximum of the config, if that is enabled.
THEOREM LoopMatchesConfig == RunnerSpec => []RunningMatchesConfig
<1>1. (\A s \in Sessions : BindingInv(s)) => RunningMatchesConfig
  <2> SUFFICES ASSUME \A s \in Sessions : BindingInv(s), NEW s \in Sessions, Unlocked(s), handle[s] # None,
                      TaskRunning(handle[s]), ~loop[handle[s]].cancelled
               PROVE  /\ config[s].tag # None =>
                            config[s].tag = loop[handle[s]].tag /\ config[s].max = loop[handle[s]].max
                      /\ s \notin host.cut => config[s] = Binding(loop[handle[s]])
    BY DEF RunningMatchesConfig, Binding
  <2>1. InCharge(s)
    BY DEF InCharge, TaskRunning, Serving, Works
  <2>2. Fits(s) /\ (CutOff(s) => s \in host.cut)
    BY <2>1 DEF BindingInv, CutOff, Unlocked
  <2> QED
    BY <2>2 DEF Fits, Outlived, Binding
<1> QED
  BY <1>1, BindingsHold, PTL

-----------------------------------------------------------------------------
(* The history of a claim *)

\* A write of one field of one generation.
LEMMA GenerationWritten ==
    ASSUME claims \in [Requirements -> [Generations -> ClaimRecords]],
           NEW r \in Requirements, NEW g \in Generations,
           NEW q \in Requirements, NEW h \in Generations
    PROVE  /\ \A x : claims' = [claims EXCEPT ![r][g].voided = x] =>
                claims'[q][h].holder = claims[q][h].holder /\ claims'[q][h].exec = claims[q][h].exec
           /\ \A x : claims' = [claims EXCEPT ![r][g].attempts = x] =>
                claims'[q][h].holder = claims[q][h].holder /\ claims'[q][h].exec = claims[q][h].exec
           /\ \A x : claims' = [claims EXCEPT ![r][g].exec = x] =>
                /\ claims'[q][h].holder = claims[q][h].holder
                /\ claims'[q][h].exec = claims[q][h].exec \/ (q = r /\ h = g)
           /\ \A x : claims' = [claims EXCEPT ![r][g].holder = x] =>
                /\ claims'[q][h].exec = claims[q][h].exec
                /\ IF q = r /\ h = g THEN claims'[q][h].holder = x
                                     ELSE claims'[q][h].holder = claims[q][h].holder
<1>1. claims[q][h] \in ClaimRecords
  OBVIOUS
<1>2. ASSUME NEW x
      PROVE  /\ claims' = [claims EXCEPT ![r][g].voided = x] =>
                  claims'[q][h] = IF q = r /\ h = g THEN [claims[q][h] EXCEPT !.voided = x]
                                                    ELSE claims[q][h]
             /\ claims' = [claims EXCEPT ![r][g].attempts = x] =>
                  claims'[q][h] = IF q = r /\ h = g THEN [claims[q][h] EXCEPT !.attempts = x]
                                                    ELSE claims[q][h]
             /\ claims' = [claims EXCEPT ![r][g].exec = x] =>
                  claims'[q][h] = IF q = r /\ h = g THEN [claims[q][h] EXCEPT !.exec = x]
                                                    ELSE claims[q][h]
             /\ claims' = [claims EXCEPT ![r][g].holder = x] =>
                  claims'[q][h] = IF q = r /\ h = g THEN [claims[q][h] EXCEPT !.holder = x]
                                                    ELSE claims[q][h]
  OBVIOUS
<1>3. ASSUME NEW x, NEW w \in ClaimRecords
      PROVE  /\ [w EXCEPT !.voided = x].holder = w.holder /\ [w EXCEPT !.voided = x].exec = w.exec
             /\ [w EXCEPT !.attempts = x].holder = w.holder /\ [w EXCEPT !.attempts = x].exec = w.exec
             /\ [w EXCEPT !.exec = x].holder = w.holder
             /\ [w EXCEPT !.holder = x].exec = w.exec /\ [w EXCEPT !.holder = x].holder = x
  BY DEF ClaimRecords
<1>4. ASSUME NEW x, claims' = [claims EXCEPT ![r][g].voided = x]
      PROVE  claims'[q][h].holder = claims[q][h].holder /\ claims'[q][h].exec = claims[q][h].exec
  BY <1>1, <1>2, <1>3, <1>4
<1>5. ASSUME NEW x, claims' = [claims EXCEPT ![r][g].attempts = x]
      PROVE  claims'[q][h].holder = claims[q][h].holder /\ claims'[q][h].exec = claims[q][h].exec
  BY <1>1, <1>2, <1>3, <1>5
<1>6. ASSUME NEW x, claims' = [claims EXCEPT ![r][g].exec = x]
      PROVE  /\ claims'[q][h].holder = claims[q][h].holder
             /\ claims'[q][h].exec = claims[q][h].exec \/ (q = r /\ h = g)
  BY <1>1, <1>2, <1>3, <1>6
<1>7. ASSUME NEW x, claims' = [claims EXCEPT ![r][g].holder = x]
      PROVE  /\ claims'[q][h].exec = claims[q][h].exec
             /\ IF q = r /\ h = g THEN claims'[q][h].holder = x
                                  ELSE claims'[q][h].holder = claims[q][h].holder
  BY <1>1, <1>2, <1>3, <1>7
<1> QED
  BY <1>4, <1>5, <1>6, <1>7

\* A claim keeps its holder, and its execution once it has ended; only an
\* admission starts one, and only a live session draws a new claim.
LEMMA History ==
    ASSUME QueueInv, [Next]_qvars, NEW c \in Claims
    PROVE  /\ c \in Issued =>
                /\ Holder(c)' = Holder(c)
                /\ Exec(c)' = Exec(c) \/ Exec(c) = "active" \/ AdmitExecution(c)
           /\ c \in Issued' /\ c \notin Issued => Holder(c)' \in live
<1> DEFINE Told == /\ c \in Issued =>
                        /\ Holder(c)' = Holder(c)
                        /\ Exec(c)' = Exec(c) \/ Exec(c) = "active" \/ AdmitExecution(c)
                   /\ c \in Issued' /\ c \notin Issued => Holder(c)' \in live
<1>0. /\ claims \in [Requirements -> [Generations -> ClaimRecords]]
      /\ c.req \in Requirements /\ c.gen \in Generations /\ c = [req |-> c.req, gen |-> c.gen]
  BY DEF QueueInv, TypeOK, Claims
<1>same. ASSUME Holder(c)' = Holder(c), Exec(c)' = Exec(c) \/ Exec(c) = "active" \/ AdmitExecution(c)
         PROVE  Told
  BY <1>same, <1>0 DEF Issued, Holder
<1>1. ASSUME claims' = claims PROVE Told
  BY <1>1, <1>same DEF Holder, Exec
<1>2. ASSUME NEW s \in Sessions, NEW t, NEW r \in Requirements, ClaimPending(s, t, r) PROVE Told
  <2>1. /\ s \in live /\ row[r] \in Rows /\ row[r].status = "pending" /\ row[r].gen + 1 \in Generations
        /\ claims' = [claims EXCEPT ![r][row[r].gen + 1].holder = s]
        /\ RowLedger(row[r], claims[r], runs[r])
    <3>1. row[r] \in Rows /\ RowLedger(row[r], claims[r], runs[r])
      BY DEF QueueInv, TypeOK, ClaimLedger
    <3>2. row[r].gen \in Nat
      BY <3>1 DEF Rows
    <3>3. /\ s \in live /\ row[r].status = "pending" /\ row[r].gen < MaxGeneration
          /\ claims' = [claims EXCEPT ![r][row[r].gen + 1].holder = s]
      BY <1>2 DEF ClaimPending, FirstClaimable, Claimable
    <3> QED
      BY <3>1, <3>2, <3>3, QueueAssumption DEF Generations
  <2>2. claims[r][row[r].gen + 1].holder = None
    BY <2>1 DEF RowLedger, UnusedAhead, Unclaimed, Rows
  <2>3. CASE c.req = r /\ c.gen = row[r].gen + 1
    <3>1. Holder(c)' = s /\ c \notin Issued
      BY <1>0, <2>1, <2>2, <2>3, GenerationWritten DEF Holder, Issued
    <3> QED
      BY <2>1, <3>1
  <2>4. CASE ~(c.req = r /\ c.gen = row[r].gen + 1)
    <3>1. Holder(c)' = Holder(c) /\ Exec(c)' = Exec(c)
      BY <1>0, <2>1, <2>4, GenerationWritten DEF Holder, Exec
    <3> QED
      BY <3>1, <1>same
  <2> QED
    BY <2>3, <2>4
<1>3. ASSUME NEW d \in Issued,
             AbandonClaim(d) \/ AdmitExecution(d) \/ AdmitAttempt(d) \/ CancelExecution(d)
                \/ \E o \in Outcomes : SettleExecution(d, o)
      PROVE  Told
  <2>0. d.req \in Requirements /\ d.gen \in Generations
    BY DEF Issued
  <2>1. \/ claims' = [claims EXCEPT ![d.req][d.gen].voided = TRUE]
        \/ claims' = [claims EXCEPT ![d.req][d.gen].attempts = claims[d.req][d.gen].attempts + 1]
        \/ /\ AdmitExecution(d) \/ Exec(d) = "active"
           /\ \E e : claims' = [claims EXCEPT ![d.req][d.gen].exec = e]
    BY <1>3 DEF AbandonClaim, AdmitExecution, AdmitAttempt, CancelExecution, SettleExecution, Exec
  <2>2. d = [req |-> d.req, gen |-> d.gen]
    BY DEF Issued
  <2>3. d.req = c.req /\ d.gen = c.gen => d = c
    BY <1>0, <2>2
  <2>4. Holder(c)' = Holder(c) /\ (Exec(c)' = Exec(c) \/ Exec(c) = "active" \/ AdmitExecution(c))
    <3>1. CASE claims' = [claims EXCEPT ![d.req][d.gen].voided = TRUE]
      BY <1>0, <2>0, <3>1, GenerationWritten DEF Holder, Exec
    <3>2. CASE claims' = [claims EXCEPT ![d.req][d.gen].attempts = claims[d.req][d.gen].attempts + 1]
      <4> DEFINE x == claims[d.req][d.gen].attempts + 1
      <4>1. claims' = [claims EXCEPT ![d.req][d.gen].attempts = x]
        BY <3>2
      <4> HIDE DEF x
      <4> QED
        BY <1>0, <2>0, <4>1, GenerationWritten DEF Holder, Exec
    <3>3. ASSUME NEW e, claims' = [claims EXCEPT ![d.req][d.gen].exec = e],
                 AdmitExecution(d) \/ Exec(d) = "active"
          PROVE  Holder(c)' = Holder(c) /\ (Exec(c)' = Exec(c) \/ d = c)
      BY <1>0, <2>0, <2>3, <3>3, GenerationWritten DEF Holder, Exec
    <3> QED
      BY <2>1, <3>1, <3>2, <3>3
  <2> QED
    BY <2>4, <1>same
<1>4. CASE RowCommand
  BY <1>1, <1>4 DEF RowCommand, Create, UpdateMetadata, Delete, TransitionStatus, Requeue, LeaseExpires
<1>5. CASE ClaimCommand
  BY <1>1, <1>2, <1>3, <1>5 DEF ClaimCommand, RecoverActiveClaim, RenewLease, ResolveClaim, DetachOwner,
                                AbandonAborted, SweepExpiredLeases, qvars
<1>6. CASE TagCommand
  BY <1>1, <1>6 DEF TagCommand, PauseTag, ResumeTag, ResumeTagForEnable
<1>7. CASE ExecutionStep
  BY <1>1, <1>3, <1>7 DEF ExecutionStep, RetireSession
<1>8. CASE UNCHANGED qvars
  BY <1>1, <1>8 DEF qvars
<1> QED
  BY <1>4, <1>5, <1>6, <1>7, <1>8 DEF Next

\* Hence the execution of a claim that has ended stays as it ended.
LEMMA EndedStays ==
    ASSUME QueueInv, [Next]_qvars, NEW c \in Issued, Exec(c) \in {"completed", "failed"}
    PROVE  Exec(c)' = Exec(c) /\ c \in Issued'
<1>1. c \in Claims /\ TypeOK
  BY DEF Issued, Claims, QueueInv
<1>2. ~AdmitExecution(c)
  BY DEF AdmitExecution, Exec
<1> QED
  BY <1>1, <1>2, History, IssuedGrows

-----------------------------------------------------------------------------
(* Verdicts and executions *)

\* A slot whose receipt says nothing yet, or still says it of the same claim.
Keeps(w, x) ==
    \/ x.receipt \notin {"completed", "failed"}
    \/ x.receipt = w.receipt /\ x.claim = w.claim /\ (w.pc \in LatePcs => x.pc \in LatePcs)

\* Such a slot keeps its receipt true.
LEMMA ReceiptKept ==
    ASSUME QueueInv, [Next]_qvars, NEW l \in Loops, ReceiptInv(l), Keeps(loop[l], loop'[l])
    PROVE  ReceiptInv(l)'
<1> SUFFICES ASSUME loop'[l].receipt \in {"completed", "failed"}
             PROVE  /\ loop'[l].claim \in Issued' /\ Exec(loop[l].claim)' = loop'[l].receipt
                    /\ loop'[l].pc \in LatePcs
  BY DEF ReceiptInv
<1>1. /\ loop'[l].receipt = loop[l].receipt /\ loop'[l].claim = loop[l].claim /\ loop'[l].pc \in LatePcs
      /\ loop[l].claim \in Issued /\ Exec(loop[l].claim) = loop[l].receipt
  BY DEF ReceiptInv, Keeps
<1>2. PICK c \in Issued : c = loop[l].claim
  BY <1>1
<1>3. Exec(c)' = Exec(c) /\ c \in Issued'
  BY <1>1, <1>2, EndedStays
<1> QED
  BY <1>1, <1>2, <1>3 DEF Exec

\* The changes of a slot that keep its receipt.
LEMMA SlotKeeps ==
    ASSUME NEW w \in LoopRecords, NEW p, NEW d, NEW e, NEW t, NEW n, NEW b
    PROVE  /\ (w.pc \in LatePcs => p \in LatePcs) =>
                /\ Keeps(w, [w EXCEPT !.pc = p])
                /\ Keeps(w, [w EXCEPT !.pc = p, !.todo = t])
                /\ Keeps(w, [w EXCEPT !.pc = p, !.shown = d])
                /\ Keeps(w, [w EXCEPT !.pc = p, !.blocked = b])
                /\ Keeps(w, [w EXCEPT !.pc = p, !.cancelled = b])
                /\ Keeps(w, [w EXCEPT !.pc = p, !.role = d, !.custodian = b])
                /\ Keeps(w, [w EXCEPT !.pc = p, !.role = d])
           /\ Keeps(w, [w EXCEPT !.todo = t])
           /\ e \notin {"completed", "failed"} =>
                /\ Keeps(w, [w EXCEPT !.pc = p, !.receipt = e])
                /\ Keeps(w, [w EXCEPT !.receipt = e, !.pc = p])
                /\ Keeps(w, [w EXCEPT !.pc = p, !.claim = d, !.shown = t, !.receipt = e,
                                      !.completed = n, !.blocked = FALSE, !.cancelled = b])
BY DEF LoopRecords, Keeps

\* The other claims of a slot begin without a receipt.
LEMMA FreshClaimKeeps ==
    ASSUME NEW w \in LoopRecords, w.receipt \notin {"completed", "failed"}, NEW p, NEW c
    PROVE  Keeps(w, [w EXCEPT !.pc = p, !.claim = c])
BY DEF LoopRecords, Keeps

\* The steps of a task before it has a receipt, and of a keeper before it has one.
LEMMA EarlyReceipts ==
    ASSUME loop \in [Loops -> LoopRecords], NEW l \in Loops, ReceiptInv(l),
           \/ LoopBegins(l) \/ ListCancelled(l) \/ PurgeCancelled(l) \/ ClaimNext(l)
           \/ PublishClaim(l) \/ KeeperRecovers(l)
    PROVE  Keeps(loop[l], loop'[l])
<1>0. loop[l] \in LoopRecords
  OBVIOUS
<1>1. loop[l].pc \in {"born", "scan", "purge", "ready", "claimed", "recover"}
  BY DEF LoopBegins, ListCancelled, PurgeCancelled, ClaimNext, PublishClaim, KeeperRecovers, TaskAt
<1>2. loop[l].pc \notin LatePcs /\ loop[l].receipt \notin {"completed", "failed"}
  BY <1>1 DEF ReceiptInv, LatePcs
<1>3. loop'[l] = loop[l] \/ \E x : loop'[l] = x /\ x.receipt = loop[l].receipt
  <2>b. ASSUME NEW x, Become(l, x) PROVE loop'[l] = x
    BY <2>b, OneBecomes
  <2>g. ASSUME NEW p, Go(l, p) PROVE loop'[l].receipt = loop[l].receipt
    BY <1>0, <2>b, <2>g DEF Go, LoopRecords
  <2>1. CASE LoopBegins(l) \/ ListCancelled(l)
    <3>1. \/ \E p : Go(l, p)
          \/ Become(l, [loop[l] EXCEPT !.pc = "purge", !.todo = OwnCancelled(Target(l), loop[l].tag)])
      BY <2>1, Zenon DEF LoopBegins, ListCancelled
    <3> DEFINE t == OwnCancelled(Target(l), loop[l].tag)
    <3> HIDE DEF t
    <3>2. Become(l, [loop[l] EXCEPT !.pc = "purge", !.todo = t]) => loop'[l].receipt = loop[l].receipt
      BY <1>0, <2>b DEF LoopRecords
    <3> QED
      BY <3>1, <3>2, <2>g DEF t
  <2>2. CASE PurgeCancelled(l)
    <3>1. \/ \E p : Go(l, p)
          \/ \E t : Become(l, [loop[l] EXCEPT !.todo = t])
      BY <2>2, Zenon DEF PurgeCancelled
    <3>2. ASSUME NEW t, Become(l, [loop[l] EXCEPT !.todo = t]) PROVE loop'[l].receipt = loop[l].receipt
      BY <1>0, <2>b, <3>2 DEF LoopRecords
    <3> QED
      BY <3>1, <3>2, <2>g
  <2>3. CASE ClaimNext(l) \/ KeeperRecovers(l)
    <3>1. \/ \E p : Go(l, p)
          \/ \E p, c : Become(l, [loop[l] EXCEPT !.pc = p, !.claim = c])
      <4>1. CASE ClaimNext(l)
        BY <4>1, Zenon DEF ClaimNext
      <4>2. CASE KeeperRecovers(l)
        BY <4>2, Zenon DEF KeeperRecovers
      <4> QED
        BY <2>3, <4>1, <4>2
    <3>2. ASSUME NEW p, NEW c, Become(l, [loop[l] EXCEPT !.pc = p, !.claim = c])
          PROVE  loop'[l].receipt = loop[l].receipt
      BY <1>0, <2>b, <3>2 DEF LoopRecords
    <3> QED
      BY <3>1, <3>2, <2>g
  <2>4. CASE PublishClaim(l)
    BY <1>0, <2>4, <2>b DEF PublishClaim, LoopRecords
  <2> QED
    BY <2>1, <2>2, <2>3, <2>4
<1> QED
  BY <1>2, <1>3 DEF Keeps

\* The steps that settle a claim keep the receipt they settle it by.
LEMMA SettlingReceipts ==
    ASSUME loop \in [Loops -> LoopRecords], NEW l \in Loops,
           \/ RenewTick(l) \/ JudgeReceipt(l) \/ PauseForAttention(l) \/ ReleaseClaim(l)
           \/ WriteVerdict(l) \/ ConfirmVerdict(l) \/ TurnEnds(l) \/ FinishCancelled(l) \/ CapReached(l)
    PROVE  Keeps(loop[l], loop'[l])
<1>0. loop[l] \in LoopRecords
  OBVIOUS
<1>b. ASSUME NEW x, Become(l, x), Keeps(loop[l], x) PROVE Keeps(loop[l], loop'[l])
  BY <1>b, OneBecomes
<1>stay. ASSUME loop' = loop PROVE Keeps(loop[l], loop'[l])
  BY <1>stay DEF Keeps
<1>go. ASSUME NEW p \in LatePcs, Go(l, p) PROVE Keeps(loop[l], loop'[l])
  BY <1>0, <1>b, <1>go, SlotKeeps DEF Go
<1>error. ASSUME Become(l, [loop[l] EXCEPT !.pc = "judge", !.receipt = "error"])
          PROVE  Keeps(loop[l], loop'[l])
  BY <1>0, <1>b, <1>error, SlotKeeps
<1>block. ASSUME NEW p \in LatePcs, NEW b, Become(l, [loop[l] EXCEPT !.pc = p, !.blocked = b])
          PROVE  Keeps(loop[l], loop'[l])
  BY <1>0, <1>b, <1>block, SlotKeeps
<1>over. ASSUME NEW p, NEW n, NEW k, TurnOver(l, p, n, k) PROVE Keeps(loop[l], loop'[l])
  <2> DEFINE b == loop[l].cancelled \/ k
             x == [loop[l] EXCEPT !.pc = p, !.claim = NoClaim, !.shown = NoClaim, !.receipt = "none",
                                  !.completed = n, !.blocked = FALSE, !.cancelled = b]
  <2>1. Become(l, x)
    BY <1>over DEF TurnOver
  <2>2. Keeps(loop[l], x)
    <3> HIDE DEF b
    <3> QED
      BY <1>0, SlotKeeps
  <2> QED
    BY <1>b, <2>1, <2>2
<1>settled. Settled(l) \in LatePcs
  BY DEF Settled, LatePcs
<1>accepted. Accepted(l) => Keeps(loop[l], loop'[l])
  <2> SUFFICES ASSUME Accepted(l) PROVE Keeps(loop[l], loop'[l])
    OBVIOUS
  <2> DEFINE p == IF loop[l].receipt \in PausingReceipts(l) THEN "pause" ELSE Settled(l)
             b == loop[l].blocked \/ loop[l].receipt = "notfound"
  <2>1. Become(l, [loop[l] EXCEPT !.pc = p, !.blocked = b]) /\ p \in LatePcs
    BY <1>settled DEF Accepted, LatePcs
  <2> HIDE DEF p, b
  <2> QED
    BY <2>1, <1>block
<1>refused. Refused(l) => Keeps(loop[l], loop'[l])
  BY <1>settled, <1>block DEF Refused
<1>1. CASE RenewTick(l)
  BY <1>1, <1>stay, <1>error DEF RenewTick
<1>2. CASE JudgeReceipt(l)
  BY <1>2, <1>go, <1>block DEF JudgeReceipt, LatePcs
<1>3. CASE PauseForAttention(l)
  <2>1. Go(l, "release") \/ Go(l, Settled(l))
    BY <1>3 DEF PauseForAttention
  <2> QED
    BY <2>1, <1>go, <1>settled DEF LatePcs
<1>4. CASE ReleaseClaim(l)
  BY <1>4, <1>go, <1>settled DEF ReleaseClaim, LatePcs
<1>5. CASE WriteVerdict(l)
  BY <1>5, <1>go, <1>accepted, <1>refused DEF WriteVerdict, LatePcs
<1>6. CASE ConfirmVerdict(l)
  BY <1>6, <1>accepted, <1>refused DEF ConfirmVerdict
<1>7. CASE TurnEnds(l)
  <2>1. \/ Become(l, [loop[l] EXCEPT !.pc = "finish", !.blocked = FALSE])
        \/ \E p, n, k : TurnOver(l, p, n, k)
    BY <1>7, Zenon DEF TurnEnds
  <2> QED
    BY <2>1, <1>block, <1>over DEF LatePcs
<1>8. CASE FinishCancelled(l)
  BY <1>8, <1>go, <1>stay, <1>over DEF FinishCancelled, LatePcs
<1>9. CASE CapReached(l)
  <2>1. Keeps(loop[l], [loop[l] EXCEPT !.pc = "exit", !.cancelled = TRUE])
    BY <1>0, SlotKeeps DEF LatePcs
  <2> QED
    BY <1>9, <1>b, <2>1 DEF CapReached
<1> QED
  BY <1>1, <1>2, <1>3, <1>4, <1>5, <1>6, <1>7, <1>8, <1>9

\* What the port answers about an execution that ended by itself is how it ended.
LEMMA AnswerTrue ==
    /\ \A c : ReceiptOf(c) \in {"completed", "failed"} => Exec(c) = ReceiptOf(c)
    /\ \A c, ans : CancelAutomation(c, ans) /\ ans \in {"completed", "failed"} =>
         Exec(c) = ans /\ UNCHANGED qvars
BY DEF ReceiptOf, CancelAutomation

\* A step of a loop or of its keepers keeps the receipts true.
LEMMA LoopReceipts ==
    ASSUME RunnerInv, [Next]_qvars, NEW l \in Loops, ReceiptInv(l),
           \/ QuietLoopStep(l) \/ TaskDrops(l) \/ CustodianBegins(l) \/ CleanupBegins(l) \/ KeeperEnds(l)
    PROVE  ReceiptInv(l)' /\ \A m \in Loops \ {l} : loop'[m] = loop[m]
<1>0. /\ loop \in [Loops -> LoopRecords] /\ loop[l] \in LoopRecords /\ QueueInv /\ Typed
      /\ SlotHolds(loop[l], Issued)
  BY AllTyped DEF RunnerInv, RunnerTypeOK
<1>kept. Keeps(loop[l], loop'[l]) => ReceiptInv(l)'
  BY <1>0, ReceiptKept
<1>1. ASSUME QuietLoopStep(l) PROVE \A m \in Loops \ {l} : loop'[m] = loop[m]
  <2>1. Onward(l)
    BY <1>0, <1>1, EarlySteps, TurnSteps DEF QuietLoopStep
  <2> QED
    BY <2>1 DEF Onward
<1>2. CASE AwaitReceipt(l) \/ KeeperCancels(l) \/ Admit(l)
  <2>1. CASE AwaitReceipt(l)
    <3>1. PICK e \in Receipts :
            /\ (Exec(loop[l].claim) \in Finished /\ e = ReceiptOf(loop[l].claim)) \/ e = "error"
            /\ Become(l, [loop[l] EXCEPT !.pc = "judge", !.receipt = e])
      BY <2>1 DEF AwaitReceipt
    <3>2. /\ loop'[l] = [loop[l] EXCEPT !.pc = "judge", !.receipt = e]
          /\ UNCHANGED qvars /\ loop[l].claim \in Issued
      BY <1>0, <2>1, <3>1, OneBecomes DEF AwaitReceipt, TaskAt, SlotHolds, ClaimPcs
    <3>3. loop'[l].receipt = e /\ loop'[l].claim = loop[l].claim /\ loop'[l].pc = "judge"
      BY <1>0, <3>2 DEF LoopRecords
    <3>4. e \in {"completed", "failed"} => Exec(loop[l].claim) = e
      BY <3>1, AnswerTrue
    <3>5. ReceiptInv(l)'
      BY <3>2, <3>3, <3>4 DEF ReceiptInv, LatePcs, Issued, Exec, qvars
    <3> QED
      BY <1>1, <2>1, <3>5 DEF QuietLoopStep
  <2>2. CASE KeeperCancels(l)
    <3>1. PICK ans \in Receipts, p \in {"release", "verdict"} :
            /\ CancelAutomation(loop[l].claim, ans)
            /\ Become(l, [loop[l] EXCEPT !.receipt = ans, !.pc = p])
      BY <2>2 DEF KeeperCancels
    <3>2. /\ loop'[l] = [loop[l] EXCEPT !.receipt = ans, !.pc = p]
          /\ loop[l].claim \in Issued
      BY <1>0, <2>2, <3>1, OneBecomes DEF KeeperCancels, SlotHolds, ClaimPcs
    <3>3. loop'[l].receipt = ans /\ loop'[l].claim = loop[l].claim /\ loop'[l].pc = p
      BY <1>0, <3>2 DEF LoopRecords
    <3>4. ans \in {"completed", "failed"} => Exec(loop[l].claim) = ans /\ UNCHANGED qvars
      BY <3>1, AnswerTrue
    <3>5. ReceiptInv(l)'
      BY <3>2, <3>3, <3>4 DEF ReceiptInv, LatePcs, Issued, Exec, qvars
    <3> QED
      BY <1>1, <2>2, <3>5 DEF QuietLoopStep
  <2>3. CASE Admit(l)
    <3>1. \/ Go(l, "await") /\ loop[l].pc = "prepare"
          \/ \E e \in {"error", "notfound"} : Become(l, [loop[l] EXCEPT !.pc = "judge", !.receipt = e])
      BY <2>3 DEF Admit, TaskAt
    <3>2. Keeps(loop[l], loop'[l])
      <4>1. ASSUME Go(l, "await"), loop[l].pc = "prepare" PROVE Keeps(loop[l], loop'[l])
        <5>1. loop'[l] = [loop[l] EXCEPT !.pc = "await"]
          BY <1>0, <4>1, OneBecomes DEF Go
        <5>2. loop[l].pc \notin LatePcs
          BY <4>1 DEF LatePcs
        <5> QED
          BY <1>0, <5>1, <5>2 DEF Keeps, LoopRecords
      <4>2. ASSUME NEW e \in {"error", "notfound"},
                   Become(l, [loop[l] EXCEPT !.pc = "judge", !.receipt = e])
            PROVE  Keeps(loop[l], loop'[l])
        <5>1. loop'[l] = [loop[l] EXCEPT !.pc = "judge", !.receipt = e]
          BY <1>0, <4>2, OneBecomes
        <5> QED
          BY <1>0, <5>1 DEF Keeps, LoopRecords
      <4> QED
        BY <3>1, <4>1, <4>2
    <3> QED
      BY <1>1, <1>kept, <2>3, <3>2 DEF QuietLoopStep
  <2> QED
    BY <1>2, <2>1, <2>2, <2>3
<1>3. CASE QuietLoopStep(l) /\ ~(AwaitReceipt(l) \/ KeeperCancels(l) \/ Admit(l))
  BY <1>0, <1>1, <1>3, <1>kept, EarlyReceipts, SettlingReceipts DEF QuietLoopStep
<1>4. CASE TaskDrops(l)
  <2>1. loop'[l] = Remains(l, ~loop[l].handoff) /\ \A m \in Loops \ {l} : loop'[m] = loop[m]
    BY <1>0, <1>4, OneBecomes DEF TaskDrops, DropTask
  <2>2. \A b : Remains(l, b).receipt = "none"
    BY DEF Remains, NoLoop
  <2> QED
    BY <2>1, <2>2, <1>kept DEF Keeps
<1>left. ASSUME NEW owners, NEW c, NEW b, Leave(l, owners, c, b)
         PROVE  ReceiptInv(l)' /\ \A m \in Loops \ {l} : loop'[m] = loop[m]
  <2>1. \A d : Remains(l, d).receipt = "none"
    BY DEF Remains, NoLoop
  <2>2. NoLoop.receipt = "none"
    BY DEF NoLoop
  <2>3. loop'[l] = Remains(l, b) \/ loop'[l] = NoLoop
    BY <1>0, <1>left, OneBecomes DEF Leave
  <2>4. \A m \in Loops \ {l} : loop'[m] = loop[m]
    BY <1>0, <1>left, OneBecomes DEF Leave
  <2> QED
    BY <2>1, <2>2, <2>3, <2>4, <1>kept DEF Keeps
<1>5. CASE CustodianBegins(l)
  <2>1. CASE Leave(l, cleanup, cmd, FALSE)
    BY <1>left, <2>1
  <2>2. CASE Become(l, [loop[l] EXCEPT !.pc = "scan", !.role = "custodian", !.custodian = FALSE])
    <3>1. loop[l].pc \notin LatePcs
      BY <1>5 DEF CustodianBegins, LatePcs
    <3>2. Keeps(loop[l], [loop[l] EXCEPT !.pc = "scan", !.role = "custodian", !.custodian = FALSE])
      BY <1>0, <3>1, SlotKeeps
    <3> QED
      BY <1>0, <2>2, <3>2, <1>kept, OneBecomes
  <2> QED
    BY <1>5, <2>1, <2>2 DEF CustodianBegins
<1>6. CASE CleanupBegins(l)
  <2>1. loop[l].pc \notin LatePcs
    BY <1>6 DEF CleanupBegins, LatePcs
  <2>2. Keeps(loop[l], [loop[l] EXCEPT !.pc = "recover", !.role = "cleanup"])
    BY <1>0, <2>1, SlotKeeps
  <2> QED
    BY <1>0, <1>6, <2>2, <1>kept, OneBecomes DEF CleanupBegins
<1>7. CASE KeeperEnds(l)
  BY <1>left, <1>7 DEF KeeperEnds
<1> QED
  BY <1>2, <1>3, <1>4, <1>5, <1>6, <1>7

\* So does every step of the runner: a command takes a loop with its receipt, or
\* starts one without.
LEMMA ReceiptNext ==
    ASSUME RunnerInv, RunnerInv', WorkerInv, \A l \in Loops : ReceiptInv(l), [RunnerNext]_rvars
    PROVE  \A l \in Loops : ReceiptInv(l)'
<1>0. /\ loop \in [Loops -> LoopRecords] /\ QueueInv /\ Typed /\ [Next]_qvars
  BY AllTyped, RunnerRefines DEF RunnerInv, RunnerTypeOK
<1>same. ASSUME NEW m \in Loops, loop'[m] = loop[m] PROVE ReceiptInv(m)'
  BY <1>0, <1>same, ReceiptKept DEF Keeps
<1>1. ASSUME NEW l \in Loops,
             \/ QuietLoopStep(l) \/ TaskDrops(l) \/ CustodianBegins(l) \/ CleanupBegins(l) \/ KeeperEnds(l)
      PROVE  \A m \in Loops : ReceiptInv(m)'
  BY <1>0, <1>1, <1>same, LoopReceipts
<1>take. ASSUME NEW s \in Sessions, handle[s] # None, TakeHandle(s) PROVE \A m \in Loops : ReceiptInv(m)'
  <2>1. PICK l \in Loops : l = handle[s]
    BY <1>0, <1>take DEF Typed
  <2>2. /\ \A m \in Loops \ {l} : loop'[m] = loop[m]
        /\ loop'[l].pc = loop[l].pc /\ loop'[l].receipt = loop[l].receipt /\ loop'[l].claim = loop[l].claim
    BY <1>0, <1>take, <2>1, TakeShape
  <2>3. ReceiptInv(l)'
    BY <1>0, <2>2, ReceiptKept DEF Keeps
  <2> QED
    BY <2>2, <2>3, <1>same
<1>2. ASSUME NEW s \in Sessions, Quiesce(s) \/ DeleteTakes(s) PROVE \A m \in Loops : ReceiptInv(m)'
  BY <1>2, <1>take, <1>same DEF Quiesce, DeleteTakes
<1>3. ASSUME NEW s \in Sessions, DeleteJoins(s) PROVE \A m \in Loops : ReceiptInv(m)'
  <2>1. PICK l \in Loops : l = cmd[s].loop
    BY <1>3 DEF DeleteJoins, WorkerInv, OwnerInv
  <2>2. CASE loop' = loop
    BY <2>2, <1>same
  <2>3. CASE Leave(l, cleanup, cmd', loop[l].custodian)
    <3>1. \A d : Remains(l, d).receipt = "none"
      BY DEF Remains, NoLoop
    <3>2. NoLoop.receipt = "none"
      BY DEF NoLoop
    <3>3. loop'[l] = Remains(l, loop[l].custodian) \/ loop'[l] = NoLoop
      BY <1>0, <2>3, OneBecomes DEF Leave
    <3>4. \A m \in Loops \ {l} : loop'[m] = loop[m]
      BY <1>0, <2>3, OneBecomes DEF Leave
    <3>5. ReceiptInv(l)'
      BY <1>0, <3>1, <3>2, <3>3, ReceiptKept DEF Keeps
    <3> QED
      BY <3>4, <3>5, <1>same
  <2> QED
    BY <1>3, <2>1, <2>2, <2>3 DEF DeleteJoins
<1>4. ASSUME NEW s \in Sessions, LaunchLoop(s) PROVE \A m \in Loops : ReceiptInv(m)'
  <2>1. PICK l \in Loops :
          Become(l, [NoLoop EXCEPT !.pc = "born", !.target = s, !.tag = cmd[s].tag,
                                   !.max = cmd[s].max, !.rev = cmd[s].rev])
    <3> DEFINE k == CHOOSE x \in FreeLoops : TRUE
    <3>1. k \in FreeLoops
      BY <1>4 DEF LaunchLoop
    <3> QED
      BY <1>4, <3>1 DEF LaunchLoop, FreeLoops
  <2>2. loop'[l].receipt = "none" /\ \A m \in Loops \ {l} : loop'[m] = loop[m]
    <3> DEFINE x == [NoLoop EXCEPT !.pc = "born", !.target = s, !.tag = cmd[s].tag,
                                   !.max = cmd[s].max, !.rev = cmd[s].rev]
    <3>1. x.receipt = "none"
      BY DEF NoLoop
    <3>2. Become(l, x)
      BY <2>1
    <3> HIDE DEF x
    <3> QED
      BY <1>0, <3>1, <3>2, OneBecomes
  <2>3. ReceiptInv(l)'
    BY <2>2 DEF ReceiptInv
  <2> QED
    BY <2>2, <2>3, <1>same
<1>5. ASSUME NEW s \in Sessions, PlainCommand(s) PROVE \A m \in Loops : ReceiptInv(m)'
  <2>1. live' \subseteq live
    BY <1>0, LiveShrinks
  <2>2. loop' = loop
    BY <1>0, <1>5, <2>1, PlainCommandInv DEF PlainCommand
  <2> QED
    BY <2>2, <1>same
<1>6. CASE LoopsUntouched
  BY <1>6, <1>same DEF LoopsUntouched
<1>7. CASE Crash
  BY <1>7 DEF Crash, ReceiptInv, NoLoop
<1> QED
  BY <1>1, <1>2, <1>3, <1>4, <1>5, <1>6, <1>7, StepKinds

\* A step that reports no result of an active claim.
NoVerdict ==
    \A r \in Requirements : row[r].status = "in_progress" => row'[r].status \notin {"done", "failed"}

\* Of the statements on rows, only a verdict does.
LEMMA PlainStatements ==
    ASSUME row \in [Requirements -> Rows]
    PROVE  /\ UNCHANGED row => NoVerdict
           /\ \A s, t, r : RecoverActiveClaim(s, t, r) \/ ClaimPending(s, t, r) => NoVerdict
           /\ \A c : AbandonAborted(c) => NoVerdict
           /\ \A c : RenewLease(c) \/ AbandonClaim(c) \/ ResolveClaim(c, "cancelled") => NoVerdict
           /\ \A s : DetachOwner(s) \/ SweepExpiredLeases(s) => NoVerdict
           /\ \A t : ResumeTag(t, {}) \/ ResumeTagForEnable(t) => NoVerdict
<1>1. UNCHANGED row => NoVerdict
  BY DEF NoVerdict
<1>aborted. \A c : AbandonAborted(c) => NoVerdict
  BY <1>1 DEF AbandonAborted, qvars
<1>parked. ASSUME NEW w \in Rows
           PROVE  /\ Parked(w).status = "needs_review" /\ FreshBudget(Requeued(w)).status = "pending"
                  /\ Refunded(Requeued(w)).status = "pending"
                  /\ \A x : [w EXCEPT !.lease = x].status = w.status
                  /\ \A s : Claimed(w, s).status = "in_progress"
                  /\ [w EXCEPT !.status = "cancelled"].status = "cancelled"
  BY DEF Rows, Parked, FreshBudget, Requeued, Refunded, Claimed
<1>one. ASSUME NEW q, NEW x, row' = [row EXCEPT ![q] = x], q \in Requirements => x.status \notin {"done", "failed"}
        PROVE  NoVerdict
  BY <1>one DEF NoVerdict
<1>lease. ASSUME NEW q, NEW x, row' = [row EXCEPT ![q].lease = x] PROVE NoVerdict
  BY <1>lease, <1>parked DEF NoVerdict
<1>2. ASSUME NEW s, NEW t, NEW r, RecoverActiveClaim(s, t, r) \/ ClaimPending(s, t, r) PROVE NoVerdict
  <2>1. CASE RecoverActiveClaim(s, t, r)
    BY <2>1, <1>lease DEF RecoverActiveClaim
  <2>2. CASE ClaimPending(s, t, r)
    <3>1. row' = [row EXCEPT ![r] = Claimed(row[r], s)] /\ r \in Requirements
      BY <2>2 DEF ClaimPending, FirstClaimable, Claimable
    <3>2. Claimed(row[r], s).status = "in_progress"
      BY <3>1, <1>parked
    <3> QED
      BY <3>1, <3>2, <1>one
  <2> QED
    BY <1>2, <2>1, <2>2
<1>3. ASSUME NEW c, RenewLease(c) \/ AbandonClaim(c) \/ ResolveClaim(c, "cancelled") PROVE NoVerdict
  <2>1. CASE RenewLease(c)
    BY <2>1, <1>lease DEF RenewLease
  <2>2. CASE AbandonClaim(c)
    BY <2>2, <1>one, <1>parked DEF AbandonClaim
  <2>3. CASE ResolveClaim(c, "cancelled")
    <3>1. row' = [row EXCEPT ![c.req] = [row[c.req] EXCEPT !.status = "cancelled"]]
      BY <2>3 DEF ResolveClaim
    <3> QED
      BY <3>1, <1>one, <1>parked
  <2> QED
    BY <1>3, <2>1, <2>2, <2>3
<1>4. ASSUME NEW s, DetachOwner(s) \/ SweepExpiredLeases(s) PROVE NoVerdict
  BY <1>4, <1>parked DEF DetachOwner, SweepExpiredLeases, NoVerdict
<1>5. ASSUME NEW t, ResumeTag(t, {}) \/ ResumeTagForEnable(t) PROVE NoVerdict
  <2>1. CASE ResumeTag(t, {})
    BY <2>1 DEF ResumeTag, NoVerdict
  <2>2. CASE ResumeTagForEnable(t)
    BY <2>2, <1>parked DEF ResumeTagForEnable, NoVerdict
  <2> QED
    BY <1>5, <2>1, <2>2
<1> QED
  BY <1>1, <1>aborted, <1>2, <1>3, <1>4, <1>5

\* Users and time report no result either.
LEMMA EnvironmentStatements ==
    ASSUME row \in [Requirements -> Rows], QueueEnvironment
    PROVE  NoVerdict
<1>1. ASSUME NEW r \in Requirements, LeaseExpires(r) \/ Requeue(r) \/ Delete(r)
      PROVE  NoVerdict
  BY <1>1 DEF LeaseExpires, Requeue, Delete, NoVerdict, Rows, Parked, BlankRow
<1>2. ASSUME NEW r \in Requirements, NEW t \in Tags, NEW k \in SortKeys,
             Create(r, t, k, "pending") \/ UpdateMetadata(r, t, k)
      PROVE  NoVerdict
  BY <1>2 DEF Create, UpdateMetadata, NoVerdict, Rows
<1>3. ASSUME NEW c \in Issued, AdmitAttempt(c) \/ \E o \in Outcomes : SettleExecution(c, o) PROVE NoVerdict
  BY <1>3 DEF AdmitAttempt, SettleExecution, NoVerdict
<1>4. ASSUME NEW t \in Tags, ResumeTag(t, {}) PROVE NoVerdict
  BY <1>4, PlainStatements
<1>5. ASSUME NEW s \in Sessions, RetireSession(s) PROVE NoVerdict
  BY <1>5 DEF RetireSession, NoVerdict
<1> QED
  BY <1>1, <1>2, <1>3, <1>4, <1>5 DEF QueueEnvironment

\* Only a loop's or a keeper's verdict, or the working agent, reports a result.
LEMMA WhoReports ==
    ASSUME row \in [Requirements -> Rows], RunnerNext
    PROVE  \/ NoVerdict
           \/ \E l \in Loops : WriteVerdict(l) /\ ResolveClaim(loop[l].claim, VerdictOf(loop[l].receipt))
           \/ \E d \in Issued, v \in Verdicts : AgentDeclares(d, v)
<1>s. UNCHANGED qvars => NoVerdict
  BY PlainStatements DEF qvars
<1>cancel. ASSUME NEW c, NEW ans, CancelAutomation(c, ans) PROVE NoVerdict
  BY <1>cancel, <1>s, PlainStatements DEF CancelAutomation, CancelExecution
<1>1. ASSUME NEW l \in Loops, LoopStep(l)
      PROVE  NoVerdict \/ (WriteVerdict(l) /\ ResolveClaim(loop[l].claim, VerdictOf(loop[l].receipt)))
  <2>1. CASE LoopBegins(l) \/ ListCancelled(l) \/ PublishClaim(l) \/ AwaitReceipt(l) \/ JudgeReceipt(l)
             \/ ConfirmVerdict(l) \/ TurnEnds(l) \/ CapReached(l) \/ CustodianBegins(l)
             \/ CleanupBegins(l) \/ KeeperEnds(l) \/ TaskReturns(l) \/ AbortLands(l)
    BY <2>1, <1>s DEF LoopBegins, ListCancelled, PublishClaim, AwaitReceipt, JudgeReceipt, ConfirmVerdict,
                      TurnEnds, CapReached, CustodianBegins, CleanupBegins, KeeperEnds, TaskReturns,
                      AbortLands, DropTask
  <2>2. CASE PurgeCancelled(l)
    BY <2>2, <1>s, <1>cancel DEF PurgeCancelled
  <2>3. CASE ClaimNext(l)
    BY <2>3, <1>s, PlainStatements DEF ClaimNext
  <2>4. CASE Admit(l)
    BY <2>4, <1>s, PlainStatements DEF Admit, AdmitExecution
  <2>5. CASE RenewTick(l)
    BY <2>5, <1>s, PlainStatements DEF RenewTick
  <2>6. CASE PauseForAttention(l)
    BY <2>6, <1>s, PlainStatements DEF PauseForAttention, PauseTag
  <2>7. CASE ReleaseClaim(l)
    BY <2>7, <1>s, PlainStatements DEF ReleaseClaim
  <2>8. CASE WriteVerdict(l)
    BY <2>8, <1>s DEF WriteVerdict
  <2>9. CASE FinishCancelled(l)
    BY <2>9, <1>s, <1>cancel DEF FinishCancelled
  <2>10. CASE KeeperRecovers(l)
    BY <2>10, <1>s, PlainStatements DEF KeeperRecovers
  <2>11. CASE KeeperCancels(l)
    BY <2>11, <1>cancel DEF KeeperCancels
  <2> QED
    BY <1>1, <2>1, <2>2, <2>3, <2>4, <2>5, <2>6, <2>7, <2>8, <2>9, <2>10, <2>11 DEF LoopStep
<1>2. ASSUME NEW l \in Loops, TaskPanics(l) PROVE NoVerdict
  BY <1>2, <1>s DEF TaskPanics, DropTask
<1>3. ASSUME NEW s \in Sessions, CommandStep(s) PROVE NoVerdict
  <2>1. CASE DeleteParks(s)
    BY <2>1, <1>s, PlainStatements DEF DeleteParks
  <2>2. CASE DeleteCancels(s)
    BY <2>2, <1>s, <1>cancel DEF DeleteCancels
  <2>3. CASE ResumeForEnable(s)
    BY <2>3, <1>s, PlainStatements DEF ResumeForEnable
  <2>4. CASE Quiesce(s) \/ CleanupJoined(s) \/ WaitTimesOut(s) \/ SaveConfig(s) \/ StartFound(s)
             \/ LaunchLoop(s) \/ RollBack(s) \/ ReplyError(s) \/ DeleteTakes(s) \/ DeleteJoins(s)
    BY <2>4, <1>s DEF Quiesce, CleanupJoined, WaitTimesOut, SaveConfig, StartFound, LaunchLoop, RollBack,
                      ReplyError, DeleteTakes, DeleteJoins
  <2> QED
    BY <1>3, <2>1, <2>2, <2>3, <2>4 DEF CommandStep
<1>4. CASE HostStep
  <2>1. CASE SweeperCollects \/ \E s \in Sessions : ResumeBinding(s)
    BY <2>1, <1>s DEF SweeperCollects, ResumeBinding
  <2>2. CASE SweeperSweeps
    BY <2>2, <1>s, PlainStatements DEF SweeperSweeps
  <2>3. ASSUME NEW c \in Claims, CancellationEnds(c) \/ RecoverExecution(c) PROVE NoVerdict
    BY <2>3, <1>s, <1>cancel, PlainStatements DEF CancellationEnds, RecoverExecution, CancelExecution
  <2> QED
    BY <1>4, <2>1, <2>2, <2>3 DEF HostStep
<1>5. CASE UserStep
  <2>1. ASSUME NEW s, (\E t, m : ApplyConfig(s, t, m)) \/ DeleteBegins(s) \/ RequestDropped(s) PROVE NoVerdict
    BY <2>1, <1>s DEF ApplyConfig, DeleteBegins, RequestDropped
  <2>2. ASSUME NEW c, StopCurrentClaim(c) PROVE NoVerdict
    BY <2>2, <1>s, PlainStatements DEF StopCurrentClaim
  <2> QED
    BY <1>5, <2>1, <2>2 DEF UserStep
<1>6. CASE Crash
  BY <1>6, <1>s DEF Crash
<1> QED
  BY <1>1, <1>2, <1>3, <1>4, <1>5, <1>6, EnvironmentStatements DEF RunnerNext

\* No runner reports a result its execution did not have: a receipt is read for
\* one claim, used for that claim, and written by a statement that only this
\* claim can match, whoever settles it and however late.
THEOREM ReportsAreTrue == RunnerSpec => VerdictMatchesExecution
<1>0. RunnerInit => \A l \in Loops : ReceiptInv(l)
  BY DEF RunnerInit, ReceiptInv, NoLoop
<1>1. RunnerInv /\ RunnerInv' /\ WorkerInv /\ [RunnerNext]_rvars => WorkerInv'
  BY WorkerNext
<1>2. RunnerInv /\ RunnerInv' /\ WorkerInv /\ (\A l \in Loops : ReceiptInv(l)) /\ [RunnerNext]_rvars =>
        (\A l \in Loops : ReceiptInv(l))'
  BY ReceiptNext
<1>3. RunnerInv /\ (\A l \in Loops : ReceiptInv(l)) /\ [RunnerNext]_rvars =>
        [\A c \in Issued :
           (ExactClaim(c) /\ ~\E v \in Verdicts : AgentDeclares(c, v)) =>
             /\ row'[c.req].status = "done" => Exec(c) = "completed"
             /\ row'[c.req].status = "failed" => Exec(c) = "failed"]_rvars
  <2> SUFFICES ASSUME RunnerInv, \A l \in Loops : ReceiptInv(l), RunnerNext, NEW c \in Issued,
                      ExactClaim(c), ~\E v \in Verdicts : AgentDeclares(c, v)
               PROVE  /\ row'[c.req].status = "done" => Exec(c) = "completed"
                      /\ row'[c.req].status = "failed" => Exec(c) = "failed"
    BY DEF rvars
  <2>0. /\ row \in [Requirements -> Rows] /\ c.req \in Requirements /\ row[c.req].status = "in_progress"
        /\ c = [req |-> c.req, gen |-> c.gen] /\ c.gen = row[c.req].gen
    BY DEF RunnerInv, QueueInv, TypeOK, Issued, ExactClaim
  <2>1. CASE NoVerdict
    BY <2>0, <2>1 DEF NoVerdict
  <2>other. ASSUME NEW d \in Issued, NEW v \in Verdicts, ResolveClaim(d, v), d # c
            PROVE  row'[c.req].status = "in_progress"
    <3>1. /\ d = [req |-> d.req, gen |-> d.gen] /\ d.req \in Requirements
          /\ d.gen = row[d.req].gen
      BY <2>other DEF ResolveClaim, ExactClaim, Issued
    <3>2. d.req # c.req
      BY <2>0, <2>other, <3>1
    <3> QED
      BY <2>0, <2>other, <3>1, <3>2 DEF ResolveClaim
  <2>2. ASSUME NEW l \in Loops, WriteVerdict(l), ResolveClaim(loop[l].claim, VerdictOf(loop[l].receipt))
        PROVE  /\ row'[c.req].status = "done" => Exec(c) = "completed"
               /\ row'[c.req].status = "failed" => Exec(c) = "failed"
    <3>1. loop[l].claim \in Issued /\ ReceiptInv(l)
      BY <2>2 DEF WriteVerdict, RunnerInv, RunnerTypeOK, SlotHolds, ClaimPcs
    <3>2. CASE loop[l].claim = c
      <4>1. row'[c.req].status = VerdictOf(loop[l].receipt)
        BY <2>0, <2>2, <3>2, VerdictOfReceipt DEF ResolveClaim, Parked, Rows
      <4> QED
        BY <3>1, <3>2, <4>1 DEF VerdictOf, ReceiptInv
    <3>3. CASE loop[l].claim # c
      BY <2>2, <2>other, <3>1, <3>3, VerdictOfReceipt
    <3> QED
      BY <3>2, <3>3
  <2>3. ASSUME NEW d \in Issued, NEW v \in Verdicts, AgentDeclares(d, v)
        PROVE  row'[c.req].status = "in_progress"
    BY <2>3, <2>other DEF AgentDeclares
  <2> QED
    BY <2>0, <2>1, <2>2, <2>3, WhoReports
<1> QED
  BY <1>0, <1>1, <1>2, <1>3, WorkerInit, RunnerInitInv, RunnerNextInv, PTL
     DEF RunnerSpec, VerdictMatchesExecution

-----------------------------------------------------------------------------
(* The delete of a session *)

\* A row that is parked for a session was so before the step, or was the
\* session's active claim.
LEMMA ParkedBefore ==
    ASSUME QueueInv, [Next]_qvars, NEW r \in Requirements, NEW s \in Sessions,
           row'[r].status = "needs_review", row'[r].owner = s
    PROVE  /\ row[r].status \in {"needs_review", "in_progress"} /\ row[r].owner = s
           /\ row[r].gen = row'[r].gen /\ row[r].token = row'[r].token
<1> DEFINE Same == /\ row[r].status \in {"needs_review", "in_progress"} /\ row[r].owner = s
                   /\ row[r].gen = row'[r].gen /\ row[r].token = row'[r].token
<1> USE QueueAssumption
<1>0. row \in [Requirements -> Rows] /\ row[r] \in Rows /\ PendingRow(row[r], runs[r])
  BY DEF QueueInv, TypeOK, ClaimLedger, RowLedger
<1>same. ASSUME row'[r] = row[r] PROVE Same
  BY <1>same
<1>parked. ASSUME row'[r] = Parked(row[r]), row[r].status = "in_progress" PROVE Same
  BY <1>0, <1>parked DEF Parked, Rows
<1>lease. ASSUME NEW x, row'[r] = [row[r] EXCEPT !.lease = x] PROVE Same
  BY <1>0, <1>lease DEF Rows
<1>pending. Requeued(row[r]).status = "pending" /\ FreshBudget(Requeued(row[r])).status = "pending"
            /\ Refunded(Requeued(row[r])).status = "pending"
  BY <1>0 DEF Requeued, FreshBudget, Refunded, Rows
<1>1. CASE RowCommand
  <2>1. PICK q \in Requirements :
          \/ \E t \in Tags, d \in SortKeys, v \in Statuses \ {"in_progress"} : Create(q, t, d, v)
          \/ \E t \in Tags, d \in SortKeys : UpdateMetadata(q, t, d)
          \/ Delete(q)
          \/ \E v \in Verdicts : TransitionStatus(q, v)
          \/ Requeue(q)
          \/ LeaseExpires(q)
    BY <1>1 DEF RowCommand
  <2>2. CASE q # r
    <3>1. row'[r] = row[r]
      BY <1>0, <2>1, <2>2 DEF Create, UpdateMetadata, Delete, TransitionStatus, Requeue, LeaseExpires
    <3> QED
      BY <3>1, <1>same
  <2>3. CASE q = r
    <3>1. ASSUME NEW t \in Tags, NEW d \in SortKeys, NEW v, Create(r, t, d, v) PROVE FALSE
      BY <1>0, <3>1 DEF Create, BlankRow
    <3>2. ASSUME NEW t \in Tags, NEW d \in SortKeys, UpdateMetadata(r, t, d) PROVE Same
      <4>1. row'[r] = [row[r] EXCEPT !.tag = t, !.sort = d]
        BY <1>0, <3>2 DEF UpdateMetadata
      <4> QED
        BY <1>0, <4>1 DEF Rows
    <3>3. ASSUME Delete(r) PROVE Same
      <4>1. [BlankRow EXCEPT !.status = "deleted"].status = "deleted"
        BY DEF BlankRow
      <4>2. row'[r] = [BlankRow EXCEPT !.status = "deleted"] \/
              (row'[r] = Parked(row[r]) /\ row[r].status = "in_progress")
        BY <1>0, <3>3 DEF Delete
      <4> QED
        BY <4>1, <4>2, <1>parked
    <3>4. ASSUME NEW v \in Verdicts, TransitionStatus(r, v) PROVE Same
      <4>1. row'[r] = [row[r] EXCEPT !.status = v] /\ row[r].status \in {"pending", "needs_review"}
        BY <1>0, <3>4 DEF TransitionStatus
      <4>2. row'[r].owner = row[r].owner /\ row'[r].gen = row[r].gen /\ row'[r].token = row[r].token
        BY <1>0, <4>1 DEF Rows
      <4> QED
        BY <1>0, <4>1, <4>2 DEF PendingRow
    <3>5. ASSUME Requeue(r) PROVE Same
      BY <1>0, <3>5, <1>pending DEF Requeue
    <3>6. ASSUME LeaseExpires(r) PROVE Same
      BY <1>0, <3>6, <1>lease DEF LeaseExpires
    <3> QED
      BY <2>1, <2>3, <3>1, <3>2, <3>3, <3>4, <3>5, <3>6
  <2> QED
    BY <2>2, <2>3
<1>2. CASE ClaimCommand
  <2>1. ASSUME NEW o \in Sessions, NEW t \in Tags, NEW q \in Requirements,
               RecoverActiveClaim(o, t, q) \/ ClaimPending(o, t, q)
        PROVE  Same
    <3>1. CASE q # r
      BY <1>0, <2>1, <3>1, <1>same DEF RecoverActiveClaim, ClaimPending
    <3>2. CASE q = r /\ RecoverActiveClaim(o, t, q)
      BY <1>0, <3>2, <1>lease DEF RecoverActiveClaim
    <3>3. CASE q = r /\ ClaimPending(o, t, q)
      <4>1. row'[r] = Claimed(row[r], o)
        BY <1>0, <3>3 DEF ClaimPending
      <4>2. Claimed(row[r], o).status = "in_progress"
        BY <1>0 DEF Claimed, Rows
      <4> QED
        BY <4>1, <4>2
    <3> QED
      BY <2>1, <3>1, <3>2, <3>3
  <2>2. ASSUME NEW c \in Issued, NEW v \in Verdicts, RenewLease(c) \/ ResolveClaim(c, v) \/ AbandonClaim(c)
        PROVE  Same
    <3>1. CASE c.req # r
      BY <1>0, <2>2, <3>1, <1>same DEF RenewLease, ResolveClaim, AbandonClaim
    <3>2. CASE c.req = r /\ RenewLease(c)
      BY <1>0, <3>2, <1>lease DEF RenewLease
    <3>3. CASE c.req = r /\ ResolveClaim(c, v)
      <4>1. row[r].status = "in_progress"
            /\ row'[r] = IF v = "needs_review" THEN Parked(row[r]) ELSE [row[r] EXCEPT !.status = v]
        BY <1>0, <3>3 DEF ResolveClaim, ExactClaim
      <4>2. [row[r] EXCEPT !.status = v].status = v
        BY <1>0 DEF Rows
      <4> QED
        BY <4>1, <4>2, <1>parked
    <3>4. CASE c.req = r /\ AbandonClaim(c)
      BY <1>0, <3>4, <1>pending DEF AbandonClaim
    <3> QED
      BY <2>2, <3>1, <3>2, <3>3, <3>4
  <2>3. ASSUME NEW o, DetachOwner(o) \/ SweepExpiredLeases(o) PROVE Same
    BY <1>0, <2>3, <1>same, <1>parked DEF DetachOwner, SweepExpiredLeases, ActiveClaims
  <2>4. ASSUME NEW c, AbandonAborted(c) PROVE Same
    BY <2>4, <1>same DEF AbandonAborted, qvars
  <2> QED
    BY <1>2, <2>1, <2>2, <2>3, <2>4 DEF ClaimCommand, Verdicts
<1>3. CASE TagCommand
  <2>1. ASSUME NEW t \in Tags, NEW q, PauseTag(t, q) PROVE Same
    BY <2>1, <1>same DEF PauseTag
  <2>2. ASSUME NEW t \in Tags, NEW ids \in SUBSET Requirements, ResumeTag(t, ids) PROVE Same
    BY <1>0, <2>2, <1>same, <1>pending DEF ResumeTag
  <2>3. ASSUME NEW t \in Tags, ResumeTagForEnable(t) PROVE Same
    BY <1>0, <2>3, <1>same, <1>pending, <1>parked DEF ResumeTagForEnable
  <2> QED
    BY <1>3, <2>1, <2>2, <2>3 DEF TagCommand
<1>4. CASE ExecutionStep \/ UNCHANGED qvars
  BY <1>4, <1>same DEF ExecutionStep, AdmitExecution, AdmitAttempt, SettleExecution, CancelExecution,
                       RetireSession, qvars
<1> QED
  BY <1>1, <1>2, <1>3, <1>4 DEF Next

\* A retired session draws no claim: what it owns of active claims stays nothing,
\* and no parked claim of it starts to run.
LEMMA RetiredIsIdle ==
    ASSUME QueueInv, [Next]_qvars, NEW s \in Sessions, s \notin live, ActiveClaims(s) = {}
    PROVE  /\ ActiveClaims(s)' = {}
           /\ \A c \in Issued' : Holder(c)' = s /\ ClaimStands(c, "needs_review")' /\ Exec(c)' = "active" =>
                /\ c \in Issued /\ Holder(c) = s /\ ClaimStands(c, "needs_review") /\ Exec(c) = "active"
<1>1. ActiveClaims(s)' = {}
  <2>1. CASE NoNewActive
    BY <2>1 DEF NoNewActive, ActiveClaims
  <2>2. ASSUME NEW o \in Sessions, NEW t \in Tags, NEW r \in Requirements, ClaimPending(o, t, r)
        PROVE  ActiveClaims(s)' = {}
    <3>1. o # s /\ row \in [Requirements -> Rows]
      BY <2>2 DEF ClaimPending, QueueInv, TypeOK
    <3>2. row'[r].owner = o /\ \A q \in Requirements \ {r} : row'[q] = row[q]
      BY <2>2, <3>1 DEF ClaimPending, Claimed, Rows
    <3> QED
      BY <3>1, <3>2 DEF ActiveClaims
  <2>3. CASE UNCHANGED qvars
    BY <2>3 DEF qvars, ActiveClaims
  <2> QED
    BY <2>1, <2>2, <2>3, OnlyClaimsActivate
<1>2. ASSUME NEW c \in Issued', Holder(c)' = s, ClaimStands(c, "needs_review")', Exec(c)' = "active"
      PROVE  c \in Issued /\ Holder(c) = s /\ ClaimStands(c, "needs_review") /\ Exec(c) = "active"
  <2>1. c \in Claims /\ c.req \in Requirements
    BY DEF Issued, Claims
  <2>2. c \in Issued
    BY <1>2, <2>1, History
  <2>3. Holder(c) = s
    BY <1>2, <2>1, <2>2, History
  <2>4. ~AdmitExecution(c)
    BY <2>3 DEF AdmitExecution, AutoworkAdmitted
  <2>5. Exec(c) = "active"
    BY <1>2, <2>1, <2>2, <2>4, History
  <2>6. /\ row'[c.req].status = "needs_review" /\ row'[c.req].gen = c.gen
        /\ row'[c.req].token = c.gen /\ row'[c.req].owner = s
    BY <1>2 DEF ClaimStands
  <2>7. /\ row[c.req].status \in {"needs_review", "in_progress"} /\ row[c.req].owner = s
        /\ row[c.req].gen = c.gen /\ row[c.req].token = c.gen
    BY <2>1, <2>6, ParkedBefore
  <2>8. row[c.req].status = "needs_review"
    BY <2>1, <2>7 DEF ActiveClaims
  <2> QED
    BY <2>2, <2>3, <2>5, <2>7, <2>8 DEF ClaimStands
<1> QED
  BY <1>1, <1>2

\* A command changes the state of its own session only, and only the two last
\* steps of a delete begin or end its cancellations.
LEMMA CancelPhase ==
    ASSUME Typed, [RunnerNext]_rvars, NEW s \in Sessions
    PROVE  \/ cmd'[s] = cmd[s]
           \/ cmd[s].pc # "cancel" /\ cmd'[s].pc # "cancel"
           \/ DeleteParks(s) \/ DeleteCancels(s) \/ Crash
<1> DEFINE Goal == \/ cmd'[s] = cmd[s]
                   \/ cmd[s].pc # "cancel" /\ cmd'[s].pc # "cancel"
                   \/ DeleteParks(s) \/ DeleteCancels(s) \/ Crash
<1>0. cmd \in [Sessions -> CmdRecords] /\ cmd[s] \in CmdRecords
  BY DEF Typed
<1>same. ASSUME cmd' = cmd PROVE Goal
  BY <1>same
<1>1. ASSUME NEW l \in Loops, QuietLoopStep(l) PROVE Goal
  <2>1. Onward(l)
    BY <1>1, EarlySteps, TurnSteps DEF QuietLoopStep
  <2> QED
    BY <2>1, <1>same DEF Onward
<1>2. ASSUME NEW l \in Loops, TaskDrops(l) \/ CustodianBegins(l) \/ CleanupBegins(l) \/ KeeperEnds(l) PROVE Goal
  BY <1>2, <1>same DEF TaskDrops, DropTask, CustodianBegins, CleanupBegins, KeeperEnds
<1>step. ASSUME NEW q \in Sessions, NEW p, Step(q, p), cmd[q].pc # "cancel", p # "cancel" PROVE Goal
  <2>1. (\A o \in Sessions \ {q} : cmd'[o] = cmd[o]) /\ cmd'[q].pc = p
    BY <1>step, StepShape
  <2> QED
    BY <1>step, <2>1
<1>end. ASSUME NEW q \in Sessions, End(q), cmd[q].pc # "cancel" PROVE Goal
  <2>1. (\A o \in Sessions \ {q} : cmd'[o] = cmd[o]) /\ cmd'[q].pc = "idle"
    BY <1>end, EndShape
  <2> QED
    BY <1>end, <2>1
<1>next. \A q \in Sessions : cmd[q].next \in {"idle", "save", "publish", "failed"}
  BY <1>0 DEF CmdRecords
<1>write. ASSUME NEW q \in Sessions, NEW c, cmd' = [cmd EXCEPT ![q] = c], cmd[q].pc # "cancel", c.pc # "cancel"
          PROVE  Goal
  BY <1>0, <1>write
<1>3. ASSUME NEW q \in Sessions, Quiesce(q) \/ CleanupJoined(q) \/ WaitTimesOut(q) \/ ReplyError(q) PROVE Goal
  BY <1>3, <1>step, <1>end, <1>next DEF Quiesce, CleanupJoined, WaitTimesOut, ReplyError
<1>4. ASSUME NEW q \in Sessions, SaveConfig(q) PROVE Goal
  <2>1. cmd[q].pc = "save"
    BY <1>4 DEF SaveConfig
  <2>2. CASE Step(q, "failed")
    BY <2>1, <2>2, <1>step
  <2> DEFINE v == Committed(config[q], cmd[q].tag, cmd[q].max).rev
             p == IF cmd[q].tag = None THEN "quiesce" ELSE "resume"
  <2>3. CASE cmd' = [cmd EXCEPT ![q].rev = v, ![q].pc = p, ![q].next = "idle"]
    <3>1. p # "cancel"
      OBVIOUS
    <3> HIDE DEF v, p
    <3>2. cmd' = [cmd EXCEPT ![q] = [cmd[q] EXCEPT !.rev = v, !.pc = p, !.next = "idle"]]
      BY <1>0, <2>3
    <3>3. [cmd[q] EXCEPT !.rev = v, !.pc = p, !.next = "idle"].pc = p
      BY <1>0 DEF CmdRecords
    <3> QED
      BY <2>1, <3>1, <3>2, <3>3, <1>write
  <2> QED
    BY <1>4, <2>2, <2>3 DEF SaveConfig
<1>5. ASSUME NEW q \in Sessions, ResumeForEnable(q) PROVE Goal
  BY <1>5, <1>step DEF ResumeForEnable
<1>6. ASSUME NEW q \in Sessions, NEW n, NEW x, NEW p \in {"quiesce", "join", "park", "failed"}, cmd[q].pc # "cancel",
             \/ cmd' = [cmd EXCEPT ![q].pc = p, ![q].next = n]
             \/ cmd' = [cmd EXCEPT ![q].pc = p, ![q].loop = x]
      PROVE  Goal
  <2>1. \/ cmd' = [cmd EXCEPT ![q] = [cmd[q] EXCEPT !.pc = p, !.next = n]]
        \/ cmd' = [cmd EXCEPT ![q] = [cmd[q] EXCEPT !.pc = p, !.loop = x]]
    BY <1>0, <1>6
  <2>2. [cmd[q] EXCEPT !.pc = p, !.next = n].pc = p /\ [cmd[q] EXCEPT !.pc = p, !.loop = x].pc = p
    BY <1>0 DEF CmdRecords
  <2> QED
    BY <1>6, <2>1, <2>2, <1>write
<1>7. ASSUME NEW q \in Sessions, StartFound(q) \/ RollBack(q) \/ LaunchLoop(q) PROVE Goal
  BY <1>7, <1>6, <1>end DEF StartFound, RollBack, LaunchLoop
<1>8. ASSUME NEW q \in Sessions, DeleteTakes(q) \/ DeleteJoins(q) PROVE Goal
  <2>1. CASE DeleteTakes(q)
    BY <2>1, <1>6, <1>step DEF DeleteTakes
  <2>2. CASE DeleteJoins(q)
    BY <2>2, <1>6 DEF DeleteJoins
  <2> QED
    BY <1>8, <2>1, <2>2
<1>9. ASSUME NEW q \in Sessions, DeleteParks(q) \/ DeleteCancels(q) PROVE Goal
  <2>1. CASE q = s
    BY <1>9, <2>1
  <2>2. CASE q # s
    <3>1. CASE Step(q, "failed") \/ End(q)
      BY <2>2, <3>1, StepShape, EndShape
    <3>2. ASSUME NEW x, \/ cmd' = [cmd EXCEPT ![q].pc = "cancel", ![q].todo = x]
                        \/ cmd' = [cmd EXCEPT ![q].todo = x]
          PROVE  Goal
      BY <1>0, <2>2, <3>2
    <3>3. \/ Step(q, "failed") \/ End(q)
          \/ \E x : cmd' = [cmd EXCEPT ![q].pc = "cancel", ![q].todo = x]
          \/ \E x : cmd' = [cmd EXCEPT ![q].todo = x]
      <4>1. CASE DeleteParks(q)
        BY <4>1, Zenon DEF DeleteParks
      <4>2. CASE DeleteCancels(q)
        BY <4>2, Zenon DEF DeleteCancels
      <4> QED
        BY <1>9, <4>1, <4>2
    <3> QED
      BY <3>1, <3>2, <3>3
  <2> QED
    BY <2>1, <2>2
<1>10. ASSUME NEW q \in Sessions, ResumeBinding(q) \/ DeleteBegins(q) \/ \E t, m : ApplyConfig(q, t, m) PROVE Goal
  <2>1. cmd[q].pc = "idle"
    BY <1>10 DEF ResumeBinding, DeleteBegins, ApplyConfig, Unlocked
  <2>2. CASE cmd' = cmd
    BY <2>2, <1>same
  <2>3. ASSUME NEW p \in {"start", "rollback"},
               cmd' = [cmd EXCEPT ![q] = [NoCmd EXCEPT !.pc = p, !.tag = config[q].tag,
                                          !.max = config[q].max, !.rev = config[q].rev]]
        PROVE  Goal
    <3>1. [NoCmd EXCEPT !.pc = p, !.tag = config[q].tag, !.max = config[q].max, !.rev = config[q].rev].pc = p
      BY DEF NoCmd
    <3> QED
      BY <2>1, <2>3, <3>1, <1>write
  <2>4. CASE ResumeBinding(q)
    BY <2>2, <2>3, <2>4 DEF ResumeBinding
  <2>5. CASE DeleteBegins(q)
    <3>1. [NoCmd EXCEPT !.pc = "wait"].pc = "wait"
      BY DEF NoCmd
    <3> QED
      BY <2>1, <2>5, <3>1, <1>write DEF DeleteBegins
  <2>6. ASSUME NEW t, NEW m, ApplyConfig(q, t, m) PROVE Goal
    <3>1. PICK p \in {"quiesce", "save"} :
            cmd' = [cmd EXCEPT ![q] = [NoCmd EXCEPT !.tag = t, !.max = m, !.rev = config[q].rev,
                                                    !.next = "save", !.request = TRUE, !.pc = p]]
      BY <2>6 DEF ApplyConfig
    <3>2. [NoCmd EXCEPT !.tag = t, !.max = m, !.rev = config[q].rev, !.next = "save",
                        !.request = TRUE, !.pc = p].pc = p
      BY DEF NoCmd
    <3> QED
      BY <2>1, <3>1, <3>2, <1>write
  <2> QED
    BY <1>10, <2>4, <2>5, <2>6
<1>11. CASE LoopsUntouched
  BY <1>11, <1>same DEF LoopsUntouched
<1>12. ASSUME NEW q \in Sessions, RequestDropped(q) PROVE Goal
  <2>1. cmd[q].pc # "cancel"
    BY <1>12 DEF RequestDropped, CommandWellFormed, Typed
  <2> QED
    BY <1>12, <2>1, <1>end DEF RequestDropped
<1> QED
  BY <1>1, <1>2, <1>3, <1>4, <1>5, <1>7, <1>8, <1>9, <1>10, <1>11, <1>12, StepKinds DEF PlainCommand

\* What an answered cancellation leaves is no running execution.
LEMMA CancelledEnds ==
    ASSUME claims \in [Requirements -> [Generations -> ClaimRecords]], NEW c \in Issued, NEW ans,
           CancelAutomation(c, ans), ans # "error"
    PROVE  Exec(c)' # "active"
<1>1. c.req \in Requirements /\ c.gen \in Generations
  BY DEF Issued
<1>2. CASE CancelExecution(c)
  <2>1. claims' = [claims EXCEPT ![c.req][c.gen].exec = "cancelled"]
    BY <1>2 DEF CancelExecution
  <2>2. claims'[c.req][c.gen].exec = "cancelled"
    BY <1>1, <2>1 DEF ClaimRecords
  <2> QED
    BY <2>2 DEF Exec
<1>3. CASE Exec(c) # "active" /\ UNCHANGED qvars
  BY <1>3 DEF Exec, qvars
<1> QED
  BY <1>2, <1>3 DEF CancelAutomation

\* The delete parks every claim of its session and cancels every parked one.
LEMMA DeleteNext ==
    ASSUME RunnerInv, WorkerInv, [RunnerNext]_rvars, NEW s \in Sessions, DeleteInv(s)
    PROVE  DeleteInv(s)'
<1>0. /\ Typed /\ QueueInv /\ [Next]_qvars /\ OwnerInv(s) /\ row \in [Requirements -> Rows]
      /\ claims \in [Requirements -> [Generations -> ClaimRecords]] /\ cmd[s] \in CmdRecords
      /\ cmd \in [Sessions -> CmdRecords] /\ cmd[s].todo \subseteq Issued
  BY AllTyped, RunnerRefines DEF RunnerInv, RunnerTypeOK, WorkerInv, QueueInv, TypeOK
<1>kept. ASSUME cmd[s].pc = "cancel",
                \A c \in cmd[s].todo : Exec(c)' = "active" => c \in cmd'[s].todo
         PROVE  DeleteInv(s)'
  <2>1. s \notin live /\ ActiveClaims(s) = {}
    BY <1>0, <1>kept DEF OwnerInv, DeletePcs, DeleteInv
  <2> QED
    BY <1>0, <1>kept, <2>1, RetiredIsIdle DEF DeleteInv
<1>1. CASE cmd'[s] = cmd[s]
  <2>1. CASE cmd[s].pc = "cancel"
    BY <1>1, <1>kept, <2>1
  <2>2. CASE cmd[s].pc # "cancel"
    BY <1>1, <2>2 DEF DeleteInv
  <2> QED
    BY <2>1, <2>2
<1>2. CASE cmd'[s].pc # "cancel"
  BY <1>2 DEF DeleteInv
<1>3. CASE DeleteParks(s)
  <2>1. CASE Step(s, "failed")
    <3>1. cmd'[s].pc = "failed"
      BY <1>0, <2>1, StepShape
    <3> QED
      BY <1>2, <3>1
  <2>2. CASE DetachOwner(s)
    <3> DEFINE T == {c \in Issued : /\ row[c.req].owner = s /\ row[c.req].gen = c.gen
                                    /\ row'[c.req].status = "needs_review"}
    <3>1. CASE cmd' = [cmd EXCEPT ![s].pc = "cancel", ![s].todo = T]
      <4>1. cmd'[s].todo = T
        <5> HIDE DEF T
        <5>1. cmd'[s] = [cmd[s] EXCEPT !.pc = "cancel", !.todo = T]
          BY <1>0, <3>1
        <5> QED
          BY <1>0, <5>1 DEF CmdRecords
      <4>2. /\ row' = [r \in Requirements |-> IF r \in ActiveClaims(s) THEN Parked(row[r]) ELSE row[r]]
            /\ claims' = claims
        BY <2>2 DEF DetachOwner
      <4>3. ASSUME NEW r \in Requirements
            PROVE  /\ row'[r].owner = row[r].owner /\ row'[r].gen = row[r].gen
                   /\ ~(row'[r].status = "in_progress" /\ row'[r].owner = s)
        <5>1. row[r] \in Rows
          BY <1>0
        <5>2. CASE r \in ActiveClaims(s)
          <6>1. row'[r] = Parked(row[r])
            BY <4>2, <5>2
          <6> QED
            BY <5>1, <6>1 DEF Parked, Rows
        <5>3. CASE r \notin ActiveClaims(s)
          <6>1. row'[r] = row[r]
            BY <4>2, <5>3
          <6> QED
            BY <5>3, <6>1 DEF ActiveClaims
        <5> QED
          BY <5>2, <5>3
      <4>4. ActiveClaims(s)' = {}
        BY <4>3 DEF ActiveClaims
      <4>5. ASSUME NEW c \in Issued', Holder(c)' = s, ClaimStands(c, "needs_review")' PROVE c \in cmd'[s].todo
        <5>1. c \in Issued /\ c.req \in Requirements
          BY <4>2 DEF Issued
        <5>2. row'[c.req].status = "needs_review" /\ row'[c.req].gen = c.gen /\ row'[c.req].owner = s
          BY <4>5 DEF ClaimStands
        <5> QED
          BY <4>1, <4>3, <5>1, <5>2
      <4> QED
        BY <4>4, <4>5 DEF DeleteInv
    <3>2. CASE Step(s, "failed")
      BY <2>1, <3>2
    <3> QED
      BY <1>3, <3>1, <3>2 DEF DeleteParks
  <2> QED
    BY <1>3, <2>1, <2>2 DEF DeleteParks
<1>4. CASE DeleteCancels(s)
  <2>1. CASE End(s)
    <3>1. cmd'[s].pc = "idle"
      BY <1>0, <2>1, EndShape
    <3> QED
      BY <1>2, <3>1
  <2>2. CASE Step(s, "failed")
    <3>1. cmd'[s].pc = "failed"
      BY <1>0, <2>2, StepShape
    <3> QED
      BY <1>2, <3>1
  <2>3. ASSUME NEW c \in cmd[s].todo, NEW ans, CancelAutomation(c, ans), ans # "error",
               cmd' = [cmd EXCEPT ![s].todo = @ \ {c}]
        PROVE  DeleteInv(s)'
    <3>1. Exec(c)' # "active"
      BY <1>0, <2>3, CancelledEnds
    <3>2. cmd'[s].todo = cmd[s].todo \ {c}
      <4>1. cmd'[s] = [cmd[s] EXCEPT !.todo = cmd[s].todo \ {c}]
        BY <1>0, <2>3
      <4> QED
        BY <1>0, <4>1 DEF CmdRecords
    <3>3. cmd[s].pc = "cancel"
      BY <1>4 DEF DeleteCancels
    <3> QED
      BY <3>1, <3>2, <3>3, <1>kept
  <2> QED
    BY <1>4, <2>1, <2>2, <2>3 DEF DeleteCancels
<1>5. CASE Crash
  <2>1. cmd'[s].pc = "idle"
    BY <1>5 DEF Crash, NoCmd
  <2> QED
    BY <1>2, <2>1
<1> QED
  BY <1>0, <1>1, <1>2, <1>3, <1>4, <1>5, CancelPhase

\* When the delete of a session reports success, no loop task of it is left, it
\* owns no active claim, and no claim that was ever parked for it still has a
\* running execution: whatever was claimed, stopped, parked or recovered before.
THEOREM DeleteIsThorough == RunnerSpec => DeleteLeavesNothingRunning
<1>0. RunnerInit => \A s \in Sessions : DeleteInv(s)
  BY DEF RunnerInit, DeleteInv, NoCmd
<1>1. RunnerInv /\ RunnerInv' /\ WorkerInv /\ [RunnerNext]_rvars => WorkerInv'
  BY WorkerNext
<1>2. RunnerInv /\ WorkerInv /\ (\A s \in Sessions : DeleteInv(s)) /\ [RunnerNext]_rvars =>
        (\A s \in Sessions : DeleteInv(s))'
  BY DeleteNext
<1>3. RunnerInv /\ WorkerInv /\ (\A s \in Sessions : DeleteInv(s)) /\ [RunnerNext]_rvars =>
        [\A s \in Sessions :
           (cmd[s].pc = "cancel" /\ cmd'[s].pc = "idle" /\ host'.crashes = host.crashes) =>
             /\ \A l \in Loops : TaskRunning(l) => Target(l) # s
             /\ ActiveClaims(s) = {}
             /\ \A c \in Issued :
                  Holder(c) = s /\ ClaimStands(c, "needs_review") => Exec(c) # "active"]_rvars
  <2> SUFFICES ASSUME RunnerInv, WorkerInv, \A s \in Sessions : DeleteInv(s), RunnerNext,
                      NEW s \in Sessions, cmd[s].pc = "cancel", cmd'[s].pc = "idle",
                      host'.crashes = host.crashes
               PROVE  /\ \A l \in Loops : TaskRunning(l) => Target(l) # s
                      /\ ActiveClaims(s) = {}
                      /\ \A c \in Issued :
                           Holder(c) = s /\ ClaimStands(c, "needs_review") => Exec(c) # "active"
    BY DEF rvars
  <2>0. /\ Typed /\ OwnerInv(s) /\ DeleteInv(s) /\ host \in HostRecords /\ cmd[s] \in CmdRecords
        /\ cmd \in [Sessions -> CmdRecords]
    BY AllTyped DEF RunnerInv, RunnerTypeOK, WorkerInv
  <2>1. ~Crash
    <3>1. host.crashes \in Nat
      BY <2>0 DEF HostRecords
    <3> QED
      BY <3>1 DEF Crash
  <2>2. DeleteCancels(s)
    BY <2>0, <2>1, CancelPhase DEF DeleteParks
  <2>3. cmd[s].todo = {}
    <3>1. ASSUME Step(s, "failed") PROVE FALSE
      BY <2>0, <3>1, StepShape
    <3>2. ASSUME NEW c, cmd' = [cmd EXCEPT ![s].todo = @ \ {c}] PROVE FALSE
      <4>1. cmd'[s] = [cmd[s] EXCEPT !.todo = cmd[s].todo \ {c}]
        BY <2>0, <3>2
      <4>2. cmd'[s].pc = "cancel"
        BY <2>0, <4>1 DEF CmdRecords
      <4> QED
        BY <4>2
    <3> QED
      BY <2>2, <3>1, <3>2 DEF DeleteCancels
  <2>4. ASSUME NEW l \in Loops, TaskRunning(l), Target(l) = s PROVE FALSE
    <3>1. Unfinished(l) /\ Works(loop[l]) /\ loop[l].role = "task" /\ Attended(l)
      BY <2>4 DEF TaskRunning, Unfinished, Works, WorkerInv
    <3>2. handle[s] = None /\ cleanup[s] = None
      BY <2>0 DEF OwnerInv
    <3> QED
      BY <2>4, <3>1, <3>2, RunnerAssumption DEF Attended, Stray
  <2> QED
    BY <2>0, <2>3, <2>4 DEF DeleteInv
<1> QED
  BY <1>0, <1>1, <1>2, <1>3, WorkerInit, RunnerInitInv, RunnerNextInv, PTL
     DEF RunnerSpec, DeleteLeavesNothingRunning

=============================================================================

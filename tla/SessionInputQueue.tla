-------------------------- MODULE SessionInputQueue --------------------------
(***************************************************************************)
(* The input queue of one AgentSession: what the user typed (composer      *)
(* inputs) and what channels, robots and other domains sent, from durable  *)
(* acceptance until a Turn starts from it, a running Turn takes it as       *)
(* steering, or it is cancelled or discarded.  Three parties race:          *)
(*  - clients, whose queue commands and Stops are single transactions of    *)
(*    AgentSessionStore and do not take the Session operation gate;         *)
(*  - the drain task, which holds the gate from its start to its end but    *)
(*    prepares files and Skills between two transactions;                   *)
(*  - the runtime of the running Turn, which claims steering inputs, ends,  *)
(*    pauses and leaves uncertain effects behind.                           *)
(*                                                                         *)
(* An input is named by its place in acceptance order.  Event sequence      *)
(* numbers are only compared with those of inputs, so the number of inputs  *)
(* accepted so far stands for the head's last_seq; a Turn is named by the   *)
(* input it started from (source_message_id), 0 is NULL.                    *)
(***************************************************************************)
EXTENDS Naturals, Sequences, FiniteSets

CONSTANTS
    MaxInputs,   \* bound: inputs accepted during one behaviour
    BatchLimit,  \* candidates that one drain reads: 64
    MaxWakes,    \* bound: drain tasks waiting for the gate
    MaxControls, \* bound: commands, stops, replays and faults of one behaviour
    Sources,     \* who sends inputs: "composer", "robot", "channel"
    Explored     \* operations beyond accepting, draining and reading

ASSUME InputAssumption ==
    /\ MaxInputs \in Nat \ {0}
    /\ BatchLimit \in Nat \ {0}
    /\ MaxWakes \in Nat \ {0}
    /\ MaxControls \in Nat
    /\ Sources \subseteq {"composer", "robot", "channel"}

Inputs == 1..MaxInputs
Turns == 0..MaxInputs

VARIABLES
    accepted,    \* how many inputs are accepted
    source,      \* per input: composer inputs carry a delivery_intent
    prefers,     \* delivery_intent: 0 is Queue, t is PreferCurrent(t)
    fate,        \* what became of it
    blocked,     \* inputs with a repairable message/input-blocked event
    queue,       \* QueueState, the replay of the input-queue-changed events
    head,        \* session head: status and active Turn
    unsettled,   \* the session has pending or unknown effects
    busy,        \* the runtime registry still holds a Turn generation
    steerRetry,  \* inbox of the running Turn: replayed inputs
    drain,       \* the drain task that holds the gate
    wakes,       \* drain tasks that wait for the gate
    retry,       \* a drain task waiting on behalf of a replayed input
    left,        \* history: what drains left behind since the last scheduled one
    controls,    \* how many of them happened
    view,        \* what a client last read, and whether its version is current
    line,        \* history: composer inputs in the order the user gave them
    userHeld,    \* history: inputs the user holds back by a Pause or a Stop
    lineage      \* history: the input an edit started from

stored == <<accepted, source, prefers, fate, blocked, queue>>
session == <<head, unsettled, busy, steerRetry>>
tasks == <<drain, wakes, retry, left>>
history == <<line, userHeld, lineage>>
vars == <<stored, session, tasks, controls, view, history>>

Settled == {"turn", "steering", "cancelled", "discarded"}

EmptyQueue == [heldThrough |-> 0, released |-> {}, order |-> <<>>,
               override |-> [i \in Inputs |-> 0], replacementHolds |-> {},
               position |-> [i \in Inputs |-> i]]
Stale == [fresh |-> FALSE, items |-> <<>>]
Ready == [status |-> "ready", turn |-> 0]
Idle == [phase |-> "idle", batch |-> <<>>, room |-> 0]

Init ==
    /\ accepted = 0
    /\ source = [i \in Inputs |-> "none"]
    /\ prefers = [i \in Inputs |-> 0]
    /\ fate = [i \in Inputs |-> "none"]
    /\ blocked = {}
    /\ queue = EmptyQueue
    /\ head = Ready
    /\ unsettled = FALSE
    /\ busy = FALSE
    /\ steerRetry = {}
    /\ drain = Idle
    /\ wakes = 0
    /\ retry = 0
    /\ left = {}
    /\ controls = 0
    /\ view = Stale
    /\ line = <<>>
    /\ userHeld = {}
    /\ lineage = [i \in Inputs |-> i]

-----------------------------------------------------------------------------
(* What the queue state says about an input.                               *)

Composer(i) == source[i] = "composer"
Pending == {i \in Inputs : fate[i] = "pending"}
PendingComposers == {i \in Pending : Composer(i)}

Held(i) ==
    /\ Composer(i)
    /\ i \notin queue.released
    /\ i \in queue.replacementHolds \/ i <= queue.heldThrough

\* A promotion overrides the intent the input was accepted with.
Intent(i) == IF queue.override[i] # 0 THEN queue.override[i] ELSE prefers[i]

Places(i) == {k \in 1..Len(queue.order) : queue.order[k] = i}

\* Faulty variant: the indices of the reordered inputs count down.
RankReversed(i) ==
    IF Places(i) = {} THEN MaxInputs + 1 ELSE Len(queue.order) - (CHOOSE k \in Places(i) : TRUE)

Rank(i) == IF Places(i) = {} THEN MaxInputs + 1 ELSE CHOOSE k \in Places(i) : TRUE

\* The sorts are stable and start from acceptance order.
ByPosition(i, j) ==
    \/ queue.position[i] < queue.position[j]
    \/ queue.position[i] = queue.position[j] /\ i < j
ByUser(i, j) == Rank(i) < Rank(j) \/ (Rank(i) = Rank(j) /\ ByPosition(i, j))

InOrder(S, Before(_, _)) ==
    [n \in 1..Cardinality(S) |->
        CHOOSE i \in S : Cardinality({j \in S : Before(j, i)}) = n - 1]

\* QueueState::sort: the user's permutation fills the slots of the composer
\* inputs; every other input keeps its own slot.
Sorted(S) ==
    LET all == InOrder(S, ByPosition)
        composers == InOrder({i \in S : Composer(i)}, ByUser)
    IN  [n \in DOMAIN all |->
            IF Composer(all[n])
            THEN composers[Cardinality({m \in 1..n : Composer(all[m])})]
            ELSE all[n]]

\* The drain's candidates; a replay also offers its own blocked input.
Eligible(also) == {i \in Pending : (i \notin blocked \/ i = also) /\ ~Held(i)}
DispatchOrder(also) == Sorted(Eligible(also))

\* Faulty variant: the user's permutation is forgotten.
FirstAccepted ==
    IF Eligible(0) = {} THEN 0
    ELSE CHOOSE i \in Eligible(0) : \A j \in Eligible(0) \ {i} : ByPosition(i, j)

\* The presentation does not load bodies and picks its root by another route.
Least(S, Before(_, _)) == CHOOSE i \in S : \A j \in S \ {i} : Before(i, j)
FirstEligibleRoot ==
    LET first == Least(Eligible(0), ByPosition)
    IN  IF Eligible(0) = {} THEN 0
        ELSE IF ~Composer(first) THEN first
        ELSE Least({i \in Eligible(0) : Composer(i)}, ByUser)

Placement(i) ==
    IF i \in blocked \/ Held(i) THEN "queued"
    ELSE IF Intent(i) # 0 /\ head = [status |-> "running", turn |-> Intent(i)]
         THEN "steering"
    ELSE IF head = Ready /\ FirstEligibleRoot = i THEN "transcript"
    ELSE "queued"

Snapshot ==
    LET items == InOrder(PendingComposers, ByUser)
    IN  [n \in DOMAIN items |->
            [id |-> items[n], delivery |-> Intent(items[n]), held |-> Held(items[n]),
             placement |-> Placement(items[n])]]

\* Faulty variant: blocked inputs keep the version.
VersionKindsUnblocked == {"composer", "steered", "started", "ended", "paused",
                          "resumed", "queue-changed", "cleared"}

\* The kinds of events whose sequence number a queue version observes.
VersionKinds == {"composer", "blocked", "steered", "started", "ended", "paused",
                 "resumed", "queue-changed", "cleared"}
Observe(kinds) == view' = IF kinds \cap VersionKinds = {} THEN view ELSE Stale

\* One more operation of a kind that a behaviour is only allowed so many of.
Control(kind) ==
    /\ kind \in Explored /\ controls < MaxControls
    /\ controls' = controls + 1

Wake == wakes < MaxWakes /\ wakes' = wakes + 1
NoTask == UNCHANGED tasks

-----------------------------------------------------------------------------
(* Acceptance, under the gate's read side: no drain is in progress.         *)

\* accept_session_input.  A preference names a Turn of this Session.
Accept(s, t) ==
    LET i == accepted + 1
    IN  /\ accepted < MaxInputs /\ drain = Idle
        /\ t \in {0} \cup {u \in Inputs : s = "composer" /\ fate[u] = "turn"}
        /\ accepted' = i
        /\ source' = [source EXCEPT ![i] = s]
        /\ prefers' = [prefers EXCEPT ![i] = t]
        /\ fate' = [fate EXCEPT ![i] = "pending"]
        /\ line' = IF s = "composer" THEN Append(line, i) ELSE line
        /\ Wake
        /\ Observe(IF s = "composer" THEN {"composer"} ELSE {})
        /\ UNCHANGED <<controls, blocked, queue, session, drain, retry, left, userHeld, lineage>>

\* The sender repeats an acceptance under its original key: nothing is saved
\* again, but the drain it wakes may try a blocked input once more.
Replay(i) ==
    /\ Control("replay")
    /\ i <= accepted /\ drain = Idle /\ retry = 0
    /\ retry' = i
    /\ UNCHANGED <<stored, session, drain, wakes, left, view, history>>

\* GET of the queue.
ReadQueue ==
    /\ ~view.fresh
    /\ view' = [fresh |-> TRUE, items |-> Snapshot]
    /\ UNCHANGED <<controls, stored, session, tasks, history>>

-----------------------------------------------------------------------------
(* Queue commands: one transaction each, refused unless the version the     *)
(* client read is still the current one.                                   *)

Command == view.fresh

\* Faulty variant: the change is recorded, the input's cancellation is not.
NotCancelled(S) == fate

Cancelled(S) == [i \in Inputs |-> IF i \in S THEN "cancelled" ELSE fate[i]]

\* Faulty variant: the command schedules no drain.
ChangedUnwoken == Observe({"queue-changed"}) /\ UNCHANGED <<session, tasks>>

Changed == Observe({"queue-changed"}) /\ Wake /\ UNCHANGED <<session, drain, retry, left>>

Remove(i) ==
    /\ Control("remove")
    /\ Command /\ i \in PendingComposers
    /\ fate' = Cancelled({i})
    /\ Changed
    /\ UNCHANGED <<accepted, source, prefers, blocked, queue, history>>

ClearQueue ==
    /\ Control("remove")
    /\ Command
    /\ fate' = Cancelled({i \in PendingComposers : Placement(i) = "queued"})
    /\ Changed
    /\ UNCHANGED <<accepted, source, prefers, blocked, queue, history>>

Reorder(order) ==
    /\ Control("reorder")
    /\ Command
    /\ queue' = [queue EXCEPT !.order = order]
    /\ line' = order
    /\ Changed
    /\ UNCHANGED <<accepted, source, prefers, fate, blocked, userHeld, lineage>>

\* Inputs the user sees in the conversation already are not held.
Pause ==
    LET shown == {i \in PendingComposers : Placement(i) # "queued"}
    IN  /\ Control("pause")
        /\ Command
        /\ queue' = [queue EXCEPT !.heldThrough = accepted, !.released = shown]
        /\ userHeld' = PendingComposers \ shown
        /\ Changed
        /\ UNCHANGED <<accepted, source, prefers, fate, blocked, line, lineage>>

Resume ==
    /\ Control("pause")
    /\ Command
    /\ queue' = [queue EXCEPT !.heldThrough = 0, !.replacementHolds = {}]
    /\ userHeld' = {}
    /\ Changed
    /\ UNCHANGED <<accepted, source, prefers, fate, blocked, line, lineage>>

\* Steer the running Turn with a queued input.
Promote(i) ==
    /\ Control("promote")
    /\ Command /\ i \in PendingComposers \ blocked
    /\ head.status = "running"
    /\ queue' = [queue EXCEPT !.released = @ \cup {i}, !.replacementHolds = @ \ {i},
                              !.override[i] = head.turn]
    /\ userHeld' = userHeld \ {i}
    /\ Changed
    /\ UNCHANGED <<accepted, source, prefers, fate, blocked, line, lineage>>

\* Faulty variant: the edited input is a new input to the hold.
ReplacedUnheld(i, j) ==
    [queue EXCEPT
        !.order = [k \in DOMAIN @ |-> IF @[k] = i THEN j ELSE @[k]],
        !.position[j] = queue.position[i],
        !.released = IF i \in @ THEN (@ \ {i}) \cup {j} ELSE @,
        !.override = [@ EXCEPT ![i] = 0, ![j] = queue.override[i]]]

\* The queue state after an edit of i into j.
Replaced(i, j) ==
    [queue EXCEPT
        !.order = [k \in DOMAIN @ |-> IF @[k] = i THEN j ELSE @[k]],
        !.position[j] = queue.position[i],
        !.replacementHolds = IF Held(i) THEN @ \cup {j} ELSE @,
        !.released = IF i \in @ THEN (@ \ {i}) \cup {j} ELSE @,
        !.override = [@ EXCEPT ![i] = 0, ![j] = queue.override[i]]]

Replace(i) ==
    LET j == accepted + 1
    IN  /\ Control("replace")
        /\ Command /\ i \in PendingComposers /\ accepted < MaxInputs
        /\ accepted' = j
        /\ source' = [source EXCEPT ![j] = "composer"]
        /\ prefers' = [prefers EXCEPT ![j] = prefers[i]]
        /\ fate' = [Cancelled({i}) EXCEPT ![j] = "pending"]
        /\ queue' = Replaced(i, j)
        /\ line' = [k \in DOMAIN line |-> IF line[k] = i THEN j ELSE line[k]]
        /\ userHeld' = IF i \in userHeld THEN userHeld \cup {j} ELSE userHeld
        /\ lineage' = [lineage EXCEPT ![j] = lineage[i]]
        /\ Changed
        /\ UNCHANGED blocked

-----------------------------------------------------------------------------
(* Stop.                                                                    *)

\* Faulty variant: the cutoff covers the next input too.
HeldForStopAndNext == [queue EXCEPT !.heldThrough = accepted + 1, !.released = {}]

\* Every composer input accepted so far is held, none is exempt.
HeldForStop == [queue EXCEPT !.heldThrough = accepted, !.released = {}]

\* stop_session_input before the claim: the input being prepared is cancelled
\* and the rest of the composer batch held.  The caller schedules no drain.
StopInput(i) ==
    /\ Control("stop")
    /\ i \in PendingComposers
    /\ head = Ready /\ FirstEligibleRoot = i
    /\ fate' = Cancelled({i})
    /\ queue' = HeldForStop
    /\ userHeld' = PendingComposers \ {i}
    /\ Observe({"blocked", "queue-changed"})
    /\ NoTask
    /\ UNCHANGED <<accepted, source, prefers, blocked, session, line, lineage>>

\* cancel_composer_turn: the same hold, written before the Turn's end.
StopTurn ==
    /\ Control("stop")
    /\ head.turn # 0
    /\ queue' = IF PendingComposers = {} THEN queue ELSE HeldForStop
    /\ userHeld' = PendingComposers
    /\ head' = Ready
    /\ Wake
    /\ Observe({"queue-changed", "ended"})
    /\ UNCHANGED <<accepted, source, prefers, fate, blocked, unsettled, busy, steerRetry,
                   drain, retry, left, line, lineage>>

\* Domain cancellation of the running Turn holds nothing.
CancelTurn ==
    /\ Control("stop")
    /\ head.turn # 0
    /\ head' = Ready
    /\ Wake
    /\ Observe({"ended"})
    /\ UNCHANGED <<stored, unsettled, busy, steerRetry, drain, retry, left, history>>

\* A robot withdraws its input, under the gate, if no Turn has it yet.
WithdrawRobot(i) ==
    /\ Control("withdraw")
    /\ drain = Idle
    /\ i \in Pending /\ source[i] = "robot"
    /\ fate' = Cancelled({i})
    /\ Observe({"blocked"})
    /\ UNCHANGED <<accepted, source, prefers, blocked, queue, session, tasks, history>>

\* clear_context: a new context floor discards what is still pending.
ClearContext ==
    /\ Control("clear")
    /\ drain = Idle
    /\ head = Ready /\ ~unsettled
    /\ fate' = [i \in Inputs |-> IF i \in Pending THEN "discarded" ELSE fate[i]]
    /\ queue' = EmptyQueue
    /\ busy' = FALSE
    /\ line' = <<>>
    /\ userHeld' = {}
    /\ Observe({"cleared"})
    /\ UNCHANGED <<accepted, source, prefers, blocked, head, unsettled, steerRetry, tasks, lineage>>

-----------------------------------------------------------------------------
(* The running Turn.                                                        *)

Destination(i) == source[i] = "channel"

\* steering_metadata_eligible: only composer inputs state a preference.  A reply
\* to a question (reply_to) never steers; no input has to, so that its behaviours
\* are among those of an input that might.
SteeringEligible(i) ==
    /\ ~Held(i)
    /\ Composer(i) => Intent(i) = head.turn
    /\ Destination(i) = Destination(head.turn)

Steerable(i) ==
    /\ busy /\ head.status = "running"
    /\ i \in Pending /\ (i \notin blocked \/ i \in steerRetry)
    /\ ~unsettled
    /\ SteeringEligible(i)

\* try_claim_session_input_as_steering.
Steer(i) ==
    /\ Steerable(i)
    /\ fate' = [fate EXCEPT ![i] = "steering"]
    /\ steerRetry' = {}
    /\ Observe(IF Composer(i) THEN {"steered"} ELSE {})
    /\ UNCHANGED <<controls, accepted, source, prefers, blocked, queue, head, unsettled, busy, tasks, history>>

\* Its files or Skills could not be prepared for the running Turn.
SteerBlocked(i) ==
    /\ Control("block")
    /\ Steerable(i)
    /\ blocked' = blocked \cup {i}
    /\ steerRetry' = {}
    /\ Observe({"blocked"})
    /\ UNCHANGED <<accepted, source, prefers, fate, queue, head, unsettled, busy, tasks, history>>

\* turn/completed or turn/failed.  The relay of a live runtime wakes the queue
\* after it released the runtime; a Turn recovered without one settles here.
EndTurn ==
    /\ head.turn # 0 /\ drain.phase # "deliver"
    /\ head' = Ready
    /\ IF busy THEN UNCHANGED wakes ELSE Wake
    /\ Observe({"ended"})
    /\ UNCHANGED <<controls, stored, unsettled, busy, steerRetry, drain, retry, left, history>>

\* The relay ends, releases the runtime's Turn and wakes the queue.
RelayReleases ==
    /\ busy
    /\ head.status # "running"
    /\ busy' = FALSE
    /\ steerRetry' = {}
    /\ Wake
    /\ UNCHANGED <<controls, stored, head, unsettled, drain, retry, left, view, history>>

TurnPauses ==
    /\ Control("suspend")
    /\ busy /\ head.status = "running"
    /\ head' = [head EXCEPT !.status = "paused"]
    /\ Observe({"paused"})
    /\ UNCHANGED <<stored, unsettled, busy, steerRetry, tasks, history>>

\* An authorized resume, also of a Turn that a restart left without runtime.
TurnResumes ==
    /\ ~busy /\ head.turn # 0 /\ drain.phase # "deliver"
    /\ head.status = "paused" \/ (head.status = "running" /\ ~unsettled)
    /\ head' = [head EXCEPT !.status = "running"]
    /\ busy' = TRUE
    /\ Observe({"resumed"})
    /\ UNCHANGED <<controls, stored, unsettled, steerRetry, tasks, history>>

\* effect/uncertain.
EffectUncertain ==
    /\ Control("effects")
    /\ busy /\ head.status = "running"
    /\ unsettled' = TRUE
    /\ head' = [head EXCEPT !.status = "reconciliation"]
    /\ Observe({"effect"})
    /\ UNCHANGED <<stored, busy, steerRetry, tasks, history>>

\* reconcile_native_effect_by_owner, under the gate.
Reconcile ==
    /\ unsettled /\ drain = Idle
    /\ unsettled' = FALSE
    /\ Wake
    /\ Observe({"effect"})
    /\ UNCHANGED <<controls, stored, head, busy, steerRetry, drain, retry, left, history>>

-----------------------------------------------------------------------------
(* The drain task.                                                          *)

DrainReady == head = Ready /\ ~unsettled /\ ~busy

\* Of its candidates, in order, a drain reads the first BatchLimit.
Reading(also) == [phase |-> "select", batch |-> DispatchOrder(also), room |-> BatchLimit]
Drop == [phase |-> "select", batch |-> Tail(drain.batch), room |-> drain.room - 1]
Members(batch) == {batch[k] : k \in DOMAIN batch}

\* The task ends and wakes nobody in its place.
GivesUp(rest) == drain' = Idle /\ left' = left \cup rest

\* A drain gets the gate.  While a Turn runs it only passes the news on.
DrainStart ==
    /\ drain = Idle /\ wakes > 0
    /\ wakes' = wakes - 1
    /\ drain' = IF DrainReady THEN Reading(0) ELSE Idle
    /\ left' = {}
    /\ UNCHANGED <<controls, stored, session, retry, view, history>>

\* The same on behalf of a replay, which does nothing for a settled input.
DrainRetry ==
    /\ drain = Idle /\ retry # 0
    /\ retry' = 0
    /\ drain' = IF fate[retry] = "pending" /\ DrainReady THEN Reading(retry) ELSE Idle
    /\ steerRetry' = IF fate[retry] = "pending" /\ head.status = "running" /\ busy
                     THEN steerRetry \cup {retry} ELSE steerRetry
    /\ UNCHANGED <<controls, stored, head, unsettled, busy, wakes, left, view, history>>

\* A read of the session or of the batch fails: the error is only logged.
StartFails ==
    /\ Control("error")
    /\ drain = Idle
    /\ \/ wakes > 0 /\ wakes' = wakes - 1 /\ UNCHANGED retry
       \/ retry # 0 /\ retry' = 0 /\ UNCHANGED wakes
    /\ GivesUp(Eligible(0))
    /\ UNCHANGED <<stored, session, view, history>>

\* Take the next candidate; one settled since the batch was read is skipped.
DrainSelect ==
    /\ drain.phase = "select"
    /\ drain.batch = <<>> \/ drain.room # 0
    /\ drain' = IF drain.batch = <<>> THEN Idle
                ELSE IF fate[Head(drain.batch)] # "pending" THEN Drop
                ELSE [drain EXCEPT !.phase = "prepare"]
    /\ UNCHANGED <<controls, stored, session, wakes, retry, left, view, history>>

\* None of the inputs it read started a Turn, and there are more of them.
BatchEnds ==
    /\ drain.phase = "select" /\ drain.batch # <<>> /\ drain.room = 0
    /\ GivesUp(Members(drain.batch))
    /\ UNCHANGED <<controls, stored, session, wakes, retry, view, history>>

\* A candidate cannot be read, blocked or claimed because of an error.
DrainFails ==
    /\ Control("error")
    /\ drain.phase \in {"select", "prepare"} /\ drain.batch # <<>> /\ drain.room # 0
    /\ GivesUp(Members(drain.batch))
    /\ UNCHANGED <<stored, session, wakes, retry, view, history>>

\* Preparation fails by itself and blocks the input, which a cancelled input
\* is spared: the next candidate follows.
PrepareFails ==
    LET i == Head(drain.batch)
    IN  /\ Control("block")
        /\ drain.phase = "prepare"
        /\ drain' = Drop
        /\ blocked' = IF fate[i] = "pending" THEN blocked \cup {i} ELSE blocked
        /\ Observe(IF fate[i] = "pending" THEN {"blocked"} ELSE {})
        /\ UNCHANGED <<accepted, source, prefers, fate, queue, session, wakes, retry, left, history>>

\* Preparation is stopped by the token that the input's cancellation signals.
PrepareStopped ==
    /\ drain.phase = "prepare" /\ fate[Head(drain.batch)] = "cancelled"
    /\ drain' = Idle
    /\ UNCHANGED <<controls, stored, session, wakes, retry, left, view, history>>

\* Faulty variant: the preparation stands for the input's own state.
ClaimableOncePrepared(i) == head = Ready /\ ~unsettled

\* try_claim_session_input_as_turn: the order is checked again for composers.
Claimable(i) ==
    /\ fate[i] = "pending" /\ ~Held(i)
    /\ head = Ready /\ ~unsettled
    /\ Composer(i) => Head(DispatchOrder(i)) = i

ClaimRoot ==
    LET i == Head(drain.batch)
    IN  /\ drain.phase = "prepare" /\ Claimable(i)
        /\ fate' = [fate EXCEPT ![i] = "turn"]
        /\ head' = [status |-> "running", turn |-> i]
        /\ drain' = [drain EXCEPT !.phase = "deliver"]
        /\ Observe({"started"})
        /\ UNCHANGED <<controls, accepted, source, prefers, blocked, queue, unsettled, busy, steerRetry,
                       wakes, retry, left, history>>

\* A refused claim ends the drain: a newer control owns its own wake.
ClaimRefused ==
    /\ drain.phase = "prepare" /\ ~Claimable(Head(drain.batch))
    /\ drain' = Idle
    /\ UNCHANGED <<controls, stored, session, wakes, retry, left, view, history>>

Delivered ==
    /\ drain.phase = "deliver"
    /\ busy' = TRUE
    /\ steerRetry' = {}
    /\ drain' = Idle
    /\ UNCHANGED <<controls, stored, head, unsettled, wakes, retry, left, view, history>>

\* The claimed Turn is settled as failed unless a Stop settled it first; its
\* input is never dispatched again and the rest of the batch goes on.
DeliveryFails ==
    LET mine == head.turn = Head(drain.batch)
    IN  /\ Control("block")
        /\ drain.phase = "deliver"
        /\ head' = IF mine THEN Ready ELSE head
        /\ Observe(IF mine THEN {"ended"} ELSE {})
        /\ drain' = Drop
        /\ UNCHANGED <<stored, unsettled, busy, steerRetry, wakes, retry, left, history>>

\* The Turn could not be settled, or it is not known that it was: the error
\* ends the drain.
DeliveryErrs ==
    /\ Control("error")
    /\ drain.phase = "deliver"
    /\ head' = head \/ (head.turn = Head(drain.batch) /\ head' = Ready)
    /\ Observe(IF head' = head THEN {} ELSE {"ended"})
    /\ GivesUp(Members(Tail(drain.batch)))
    /\ UNCHANGED <<stored, unsettled, busy, steerRetry, wakes, retry, history>>

\* The process dies; startup schedules one drain per live Session.
Restart ==
    /\ Control("restart")
    /\ drain' = Idle /\ wakes' = 1 /\ retry' = 0 /\ left' = {}
    /\ busy' = FALSE /\ steerRetry' = {}
    /\ UNCHANGED <<stored, head, unsettled, view, history>>

Orders(S) == {s \in [1..Cardinality(S) -> S] : \A i \in S : \E k \in DOMAIN s : s[k] = i}

Commands ==
    \/ \E i \in Inputs : Remove(i) \/ Promote(i) \/ Replace(i)
    \/ \E s \in Orders(PendingComposers) : Reorder(s)
    \/ ClearQueue \/ Pause \/ Resume
Controls ==
    \/ \E i \in Inputs : Replay(i) \/ StopInput(i) \/ WithdrawRobot(i)
    \/ StopTurn \/ CancelTurn \/ ClearContext \/ ReadQueue \/ Reconcile \/ Restart
Runtime ==
    \/ \E i \in Inputs : Steer(i) \/ SteerBlocked(i)
    \/ EndTurn \/ RelayReleases \/ TurnPauses \/ TurnResumes \/ EffectUncertain
Drain ==
    \/ DrainStart \/ DrainRetry \/ StartFails \/ DrainSelect \/ BatchEnds \/ DrainFails
    \/ PrepareFails \/ PrepareStopped \/ ClaimRoot \/ ClaimRefused \/ Delivered \/ DeliveryFails \/ DeliveryErrs

Next ==
    \/ \E s \in Sources, t \in Turns : Accept(s, t)
    \/ Commands \/ Controls \/ Runtime \/ Drain

Spec == Init /\ [][Next]_vars

-----------------------------------------------------------------------------
Items == [id : Inputs, delivery : Turns, held : BOOLEAN,
          placement : {"queued", "steering", "transcript"}]

\* Every variable keeps the shape the durable facts and the task owners give it.
TypeOK ==
    /\ accepted \in 0..MaxInputs
    /\ source \in [Inputs -> Sources \cup {"none"}]
    /\ prefers \in [Inputs -> Turns]
    /\ fate \in [Inputs -> Settled \cup {"none", "pending"}]
    /\ \A i \in Inputs : i <= accepted <=> fate[i] # "none"
    /\ blocked \subseteq 1..accepted
    /\ queue \in [heldThrough : 0..accepted, released : SUBSET Inputs, order : Seq(Inputs),
                  override : [Inputs -> Turns], replacementHolds : SUBSET Inputs,
                  position : [Inputs -> Inputs]]
    /\ head \in [status : {"ready", "running", "paused", "reconciliation"}, turn : Turns]
    /\ head.turn = 0 <=> head.status = "ready"
    /\ unsettled \in BOOLEAN /\ busy \in BOOLEAN
    /\ steerRetry \subseteq 1..accepted
    /\ drain \in [phase : {"idle", "select", "prepare", "deliver"}, batch : Seq(1..accepted),
                  room : 0..BatchLimit]
    /\ drain.phase \in {"prepare", "deliver"} => drain.batch # <<>> /\ drain.room # 0
    /\ controls \in 0..MaxControls
    /\ wakes \in 0..MaxWakes /\ retry \in 0..accepted
    /\ left \subseteq 1..accepted
    /\ view \in [fresh : BOOLEAN, items : Seq(Items)]
    /\ line \in Seq(1..accepted)
    /\ userHeld \subseteq 1..accepted
    /\ lineage \in [Inputs -> Inputs]

\* Replaying the queue events yields exactly the batch the user held: an edit
\* does not release an input, a promotion or a Resume does, and what is
\* accepted after a Pause or a Stop is never held by it.
HoldsWhatTheUserHeld == \A i \in PendingComposers : Held(i) <=> i \in userHeld

\* Reorders, edits and new inputs keep the user's order among the composer
\* inputs, whatever other sources are in between.
Queue == Sorted(Pending)
Precedes(q, i, j) == \E m, n \in DOMAIN q : m < n /\ q[m] = i /\ q[n] = j
ComposerOrder ==
    LET sorted == Queue
    IN  /\ \A i \in PendingComposers : \E m \in DOMAIN sorted, n \in DOMAIN line : sorted[m] = i /\ line[n] = i
        /\ \A i, j \in PendingComposers : Precedes(sorted, i, j) <=> Precedes(line, i, j)

\* The input shown as starting next is the one a drain would start next.
PresentationMatchesDispatch ==
    FirstEligibleRoot = IF DispatchOrder(0) = <<>> THEN 0 ELSE Head(DispatchOrder(0))

\* A command that passes the version check acts on the queue its author saw.
\* An uncertain effect of the running Turn moves steering inputs back into the
\* queue without a new version: the one exception.
ViewIsCurrent == view.fresh => view.items = Snapshot \/ head.status = "reconciliation"

\* Of an input and its edits at most one is ever waiting or delivered.
EditedInputRunsOnce ==
    \A i, j \in Inputs :
        /\ lineage[i] = lineage[j] /\ i # j
        /\ fate[i] \in {"pending", "turn", "steering"}
        => fate[j] \notin {"pending", "turn", "steering"}

\* What a Turn took, an owner cancelled or a context clear discarded stays so:
\* no race of drain, steering, Stop and command consumes an input twice.
SettledIsFinal == [][\A i \in Inputs : fate[i] \in Settled => fate'[i] = fate[i]]_vars

\* Nothing is left to run a waiting input: the Session could start a Turn, no
\* drain is scheduled and no runtime is left to schedule one.
Quiet == drain = Idle /\ wakes = 0 /\ retry = 0 /\ DrainReady

\* A composer input that may start is never left without a drain to start it,
\* but for those that a drain itself left behind, when it ended with an error or
\* none of the BatchLimit inputs before them started a Turn.
NoStrandedComposer == Quiet => \A i \in Eligible(0) : Composer(i) => i \in left

\* The same of every input: a Stop holds "no domain input".
NoStrandedInput == Quiet => Eligible(0) = {}
=============================================================================

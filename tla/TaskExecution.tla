---------------------------- MODULE TaskExecution ----------------------------
(***************************************************************************)
(* What an Agent Execution promises, without the machinery that keeps the  *)
(* promise: Steps are picked when their blockers are done, worked on by at *)
(* most one native Turn at a time, and given one verdict, while the user   *)
(* holds, releases, cancels or redoes work.  There are no leases, jobs,    *)
(* Attempts, versions or crashes here: whatever those do must look like    *)
(* one of these actions or like nothing at all.                            *)
(***************************************************************************)
EXTENDS Naturals

CONSTANTS Steps, Deps

VARIABLES
    mode,    \* of the whole: open, held (paused), over, cancelled
    work,    \* of each Step
    picked,  \* Steps chosen to start when all their blockers were done
    turns    \* native Turns at work for each Step

taskVars == <<mode, work, picked, turns>>

Verdicts == {"done", "failed", "dropped", "stopped"}
Blocking == {"failed", "dropped", "stopped"}
BlockersOf(s) == {b \in Steps : <<b, s>> \in Deps}
Live == mode \in {"open", "held"}

TaskInit ==
    /\ mode = "open"
    /\ work = [s \in Steps |-> "todo"]
    /\ picked = {}
    /\ turns = [s \in Steps |-> 0]

(***************************************************************************)
(* Only Pick adds to picked, every other action may drop Steps from it,    *)
(* and a Step that starts or gets a verdict of its own leaves it.          *)
(***************************************************************************)
Becomes(s, w) == work' = [work EXCEPT ![s] = w] /\ picked' \subseteq picked \ {s}

Pick(S) ==
    /\ mode = "open"
    /\ \A s \in S : work[s] = "todo" /\ \A b \in BlockersOf(s) : work[b] = "done"
    /\ picked' = picked \cup S
    /\ UNCHANGED <<mode, work, turns>>

Unpick ==
    /\ picked' \subseteq picked
    /\ UNCHANGED <<mode, work, turns>>

Start(s) ==
    /\ mode = "open" /\ work[s] = "todo" /\ s \in picked
    /\ turns[s] = 0
    /\ Becomes(s, "working")
    /\ UNCHANGED <<mode, turns>>

(* A Turn is started for a Step at work that has none; it may end at any time. *)
TurnStarts(s) ==
    /\ Live /\ work[s] = "working" /\ turns[s] = 0
    /\ turns' = [turns EXCEPT ![s] = 1]
    /\ UNCHANGED <<mode, work, picked>>
TurnEnds(s) ==
    /\ turns[s] = 1
    /\ turns' = [turns EXCEPT ![s] = 0]
    /\ UNCHANGED <<mode, work, picked>>

(* The Step asks the user (or is held for review), and goes on. *)
Ask(s) ==
    /\ Live /\ work[s] = "working"
    /\ Becomes(s, "asking")
    /\ UNCHANGED <<mode, turns>>
GoOn(s) ==
    /\ Live /\ work[s] = "asking"
    /\ Becomes(s, "working")
    /\ UNCHANGED <<mode, turns>>

(* Success is only ever reported once the Turn is over; a failure may be reported without it. *)
Finish(s) ==
    /\ Live /\ work[s] \in {"working", "asking"} /\ turns[s] = 0
    /\ \E w \in {"done", "failed", "stopped"} : Becomes(s, w)
    /\ UNCHANGED <<mode, turns>>
Fail(s) ==
    /\ Live /\ (work[s] = "working" \/ (work[s] = "todo" /\ s \in picked))
    /\ Becomes(s, "failed")
    /\ UNCHANGED <<mode, turns>>

(* An automatic retry never leaves a Turn of the earlier try behind. *)
Again(s) ==
    /\ Live /\ work[s] = "working" /\ turns[s] = 0
    /\ Becomes(s, "todo")
    /\ UNCHANGED <<mode, turns>>

Drop(s) ==
    /\ mode = "open" /\ work[s] = "todo"
    /\ \E b \in BlockersOf(s) : work[b] \in Blocking
    /\ work' = [work EXCEPT ![s] = "dropped"]
    /\ picked' \subseteq picked
    /\ UNCHANGED <<mode, turns>>

(* The user stops one Step, or everything that has no verdict yet. *)
Stopped(S) == [s \in Steps |-> IF s \in S /\ work[s] \notin Verdicts THEN "stopped" ELSE work[s]]
Stop(s) ==
    /\ Live /\ work[s] \notin Verdicts
    /\ work' = Stopped({s}) /\ picked' \subseteq picked
    /\ UNCHANGED <<mode, turns>>
CancelAll ==
    /\ Live
    /\ mode' = "cancelled"
    /\ work' = Stopped(Steps) /\ picked' \subseteq picked
    /\ UNCHANGED turns

(* The whole is given up as failed, with everything that has no verdict yet. *)
GiveUp ==
    /\ mode = "open" /\ mode' = "over"
    /\ work' = Stopped(Steps) /\ picked' \subseteq picked
    /\ UNCHANGED turns

(***************************************************************************)
(* The user asks for work to be done again, with all that was built on it, *)
(* once no Turn is at work for any of it.                                  *)
(***************************************************************************)
Redo(S) ==
    /\ mode # "cancelled" /\ S # {}
    /\ \A d \in Deps : d[1] \in S => d[2] \in S
    /\ \A s \in S : work[s] \in {"todo", "done", "failed", "dropped"} /\ turns[s] = 0
    /\ mode' = "open"
    /\ work' = [s \in Steps |-> IF s \in S THEN "todo" ELSE work[s]]
    /\ picked' \subseteq picked
    /\ UNCHANGED turns

Hold ==
    /\ mode = "open" /\ mode' = "held"
    /\ picked' \subseteq picked
    /\ UNCHANGED <<work, turns>>
Release ==
    /\ mode = "held" /\ mode' = "open"
    /\ UNCHANGED <<work, picked, turns>>
Close ==
    /\ mode = "open" /\ \A s \in Steps : work[s] \in Verdicts
    /\ mode' = "over"
    /\ picked' \subseteq picked
    /\ UNCHANGED <<work, turns>>

TaskNext ==
    \/ Unpick \/ CancelAll \/ GiveUp \/ Hold \/ Release \/ Close
    \/ \E S \in SUBSET Steps : Pick(S) \/ Redo(S)
    \/ \E s \in Steps :
          \/ Start(s) \/ TurnStarts(s) \/ TurnEnds(s) \/ Ask(s) \/ GoOn(s)
          \/ Finish(s) \/ Fail(s) \/ Again(s) \/ Drop(s) \/ Stop(s)

TaskSpec == TaskInit /\ [][TaskNext]_taskVars
=============================================================================

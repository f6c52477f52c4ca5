------------------------ MODULE RequirementQueueProofs ------------------------
(***************************************************************************)
(* The queue's invariants, proved for any number of requirements, tags,    *)
(* sessions and generations.                                               *)
(***************************************************************************)
EXTENDS RequirementQueue, FiniteSetTheorems, TLAPS

ClaimTables == [Generations -> ClaimRecords]

\* The blank row and the row left by delete are rows, and parking, requeueing
\* and refreshing the budget turn rows into rows.
LEMMA RowShapes ==
    /\ BlankRow \in Rows
    /\ Unclaimed \in ClaimRecords
    /\ \A w \in Rows : Parked(w) \in Rows /\ Requeued(w) \in Rows /\ FreshBudget(w) \in Rows
                       /\ Refunded(w) \in Rows /\ \A s \in Sessions : Claimed(w, s) \in Rows
<1>1. BlankRow \in Rows
  BY DEF Rows, BlankRow
<1>2. Unclaimed \in ClaimRecords
  BY QueueAssumption DEF Unclaimed, ClaimRecords
<1>3. ASSUME NEW w \in Rows PROVE Parked(w) \in Rows
  BY DEF Rows, Parked, Statuses
<1>4. ASSUME NEW w \in Rows PROVE Requeued(w) \in Rows
  BY DEF Rows, Requeued, Statuses
<1>5. ASSUME NEW w \in Rows PROVE FreshBudget(w) \in Rows
  BY DEF Rows, FreshBudget
<1>6. ASSUME NEW w \in Rows PROVE Refunded(w) \in Rows
  BY DEF Rows, Refunded
<1>7. ASSUME NEW w \in Rows, NEW s \in Sessions PROVE Claimed(w, s) \in Rows
  <2>1. w.gen + 1 \in Nat /\ w.attempts + 1 \in Nat
    BY DEF Rows
  <2> QED
    BY <2>1 DEF Rows, Claimed, Statuses
<1> QED
  BY <1>1, <1>2, <1>3, <1>4, <1>5, <1>6, <1>7

\* Parking decides a row and keeps the identity of its claim.
LEMMA ParkedShape ==
    ASSUME NEW w \in Rows
    PROVE  /\ Parked(w) \in Rows /\ Parked(w).status \in Verdicts
           /\ Parked(w).gen = w.gen /\ Parked(w).token = w.token
<1>1. Parked(w) \in Rows
  BY RowShapes
<1> QED
  BY <1>1 DEF Parked, Rows, Verdicts

\* A new row has an empty ledger, whichever status the user gives it.
LEMMA CreatedRow ==
    ASSUME NEW w \in Rows, NEW k \in ClaimTables, NEW n \in Nat, RowLedger(w, k, n),
           w.status = "absent", NEW v \in Statuses \ {"in_progress"},
           NEW t, NEW d
    PROVE  RowLedger([BlankRow EXCEPT !.status = v, !.tag = t, !.sort = d], k, n)
BY QueueAssumption DEF Rows, ClaimTables, RowLedger, PendingRow, ActiveRow, UnusedAhead, NoRunBeforeAdmission,
       AbandonedBehind, BlankRow, Unclaimed, Statuses, Generations

\* Retagging, reordering and the lease's clock say nothing about claims.
LEMMA TouchedRow ==
    ASSUME NEW w \in Rows, NEW k \in ClaimTables, NEW n \in Nat, RowLedger(w, k, n),
           NEW x \in Rows, w.status \in Statuses,
           x.status = w.status, x.owner = w.owner, x.gen = w.gen, x.token = w.token,
           x.attempts = w.attempts,
           x.lease = w.lease \/ (w.status = "in_progress" /\ x.lease # "none")
    PROVE  RowLedger(x, k, n)
BY DEF Rows, ClaimTables, RowLedger, PendingRow, ActiveRow, UnusedAhead, NoRunBeforeAdmission,
       AbandonedBehind, BlankRow, Statuses

\* Leaving in_progress or changing a status other than to pending or
\* in_progress keeps every fact of the ledger.
LEMMA SettledRow ==
    ASSUME NEW w \in Rows, NEW k \in ClaimTables, NEW n \in Nat, RowLedger(w, k, n),
           NEW x \in Rows, w.status \in Statuses,
           x.status \in Verdicts, x.gen = w.gen, x.token = w.token
    PROVE  RowLedger(x, k, n)
BY DEF Rows, ClaimTables, RowLedger, PendingRow, ActiveRow, UnusedAhead, NoRunBeforeAdmission,
       AbandonedBehind, BlankRow, Statuses, Verdicts

\* A deleted row holds no claim any more.
LEMMA DeletedRow ==
    ASSUME NEW w \in Rows, NEW k \in ClaimTables, NEW n \in Nat, RowLedger(w, k, n)
    PROVE  RowLedger([BlankRow EXCEPT !.status = "deleted"], k, n)
BY DEF Rows, ClaimTables, RowLedger, PendingRow, ActiveRow, UnusedAhead, NoRunBeforeAdmission,
       AbandonedBehind, BlankRow

\* A row the user queues again starts without executions.
LEMMA RequeuedRow ==
    ASSUME NEW w \in Rows, NEW k \in ClaimTables, NEW n \in Nat, RowLedger(w, k, n),
           w.status \in Statuses \ {"in_progress"}
    PROVE  /\ RowLedger(Requeued(w), k, 0)
           /\ RowLedger(FreshBudget(Requeued(w)), k, 0)
BY DEF Rows, ClaimTables, RowLedger, PendingRow, ActiveRow, UnusedAhead, NoRunBeforeAdmission,
       AbandonedBehind, BlankRow, Statuses, Requeued, FreshBudget

\* Claiming a pending row opens the next generation, which nothing has used.
LEMMA ClaimedRow ==
    ASSUME NEW w \in Rows, NEW k \in ClaimTables, NEW n \in Nat, RowLedger(w, k, n),
           NEW s \in Sessions, w.status = "pending", w.gen < MaxGeneration,
           NEW x \in Rows, x.status = "in_progress", x.owner = s, x.gen = w.gen + 1,
           x.token = w.gen + 1, x.lease = "live", x.attempts = w.attempts + 1
    PROVE  RowLedger(x, [k EXCEPT ![w.gen + 1].holder = s], n)
<1> DEFINE j == [k EXCEPT ![w.gen + 1].holder = s]
<1>1. w.gen \in Nat /\ w.attempts \in Nat /\ w.gen + 1 \in Generations /\ MaxGeneration \in Nat
  BY QueueAssumption DEF Rows, Generations
<1>2. k[w.gen + 1] = Unclaimed
  BY <1>1 DEF RowLedger, UnusedAhead
<1>3. /\ \A g \in Generations : g # w.gen + 1 => j[g] = k[g]
      /\ j[w.gen + 1].holder = s /\ j[w.gen + 1].exec = "absent"
      /\ j[w.gen + 1].attempts = 0 /\ ~j[w.gen + 1].voided
  BY <1>1, <1>2 DEF ClaimTables, Unclaimed
<1>4. n = 0
  BY DEF RowLedger, PendingRow
<1>5. UnusedAhead(x, j)
  BY <1>1, <1>3 DEF RowLedger, UnusedAhead, Generations
<1>6. AbandonedBehind(x, j)
  BY <1>1, <1>3 DEF RowLedger, AbandonedBehind, Generations
<1>7. ActiveRow(x, j)
  BY <1>1, <1>3, QueueAssumption DEF ActiveRow
<1>8. \A g \in Generations : j[g].exec = "absent" => j[g].attempts = 0
  BY <1>1, <1>3 DEF RowLedger
<1> QED
  BY <1>4, <1>5, <1>6, <1>7, <1>8 DEF RowLedger, PendingRow, NoRunBeforeAdmission

\* An abandoned claim never had an execution, so the row is as if unclaimed.
LEMMA AbandonedRow ==
    ASSUME NEW w \in Rows, NEW k \in ClaimTables, NEW n \in Nat, RowLedger(w, k, n),
           w.status = "in_progress", w.gen \in Generations, k[w.gen].exec = "absent",
           NEW x \in Rows, x.status = "pending", x.owner = None, x.gen = w.gen,
           x.token = 0, x.lease = "none"
    PROVE  RowLedger(x, [k EXCEPT ![w.gen].voided = TRUE], n)
<1> DEFINE j == [k EXCEPT ![w.gen].voided = TRUE]
<1>1. /\ \A g \in Generations : g # w.gen => j[g] = k[g]
      /\ j[w.gen] \in ClaimRecords
      /\ j[w.gen].exec = "absent" /\ j[w.gen].attempts = k[w.gen].attempts
  BY DEF ClaimTables, ClaimRecords
<1>2. n = 0 /\ w.token = w.gen
  BY DEF RowLedger, ActiveRow, NoRunBeforeAdmission
<1>3. UnusedAhead(x, j)
  BY <1>1 DEF RowLedger, UnusedAhead, Generations, Rows
<1>4. AbandonedBehind(x, j)
  BY <1>1, <1>2 DEF RowLedger, AbandonedBehind, Generations, Rows
<1>5. \A g \in Generations : j[g].exec = "absent" => j[g].attempts = 0
  BY <1>1 DEF RowLedger
<1> QED
  BY <1>2, <1>3, <1>4, <1>5 DEF RowLedger, PendingRow, ActiveRow, NoRunBeforeAdmission

\* The first execution of a claim is the first since the row was queued.
LEMMA AdmittedRow ==
    ASSUME NEW w \in Rows, NEW k \in ClaimTables, NEW n \in Nat, RowLedger(w, k, n),
           w.status \in Statuses, w.gen \in Generations, w.token # 0, k[w.gen].exec = "absent"
    PROVE  RowLedger(w, [k EXCEPT ![w.gen].exec = "active"], n + 1)
<1> DEFINE j == [k EXCEPT ![w.gen].exec = "active"]
<1>1. /\ \A g \in Generations : g # w.gen => j[g] = k[g]
      /\ j[w.gen].exec = "active" /\ j[w.gen].holder = k[w.gen].holder
      /\ j[w.gen].voided = k[w.gen].voided
  BY DEF ClaimTables, ClaimRecords
<1>2. n = 0 /\ w.status # "pending" /\ ~k[w.gen].voided
  BY DEF RowLedger, NoRunBeforeAdmission, PendingRow, AbandonedBehind, Statuses, Rows, Generations
<1>3. UnusedAhead(w, j)
  BY <1>1 DEF RowLedger, UnusedAhead, Generations, Rows
<1>4. AbandonedBehind(w, j)
  BY <1>1, <1>2 DEF RowLedger, AbandonedBehind
<1>5. ActiveRow(w, j)
  BY <1>1 DEF RowLedger, ActiveRow
<1>6. \A g \in Generations : j[g].exec = "absent" => j[g].attempts = 0
  BY <1>1 DEF RowLedger
<1> QED
  BY <1>1, <1>2, <1>3, <1>4, <1>5, <1>6 DEF RowLedger, PendingRow, NoRunBeforeAdmission, Statuses

\* An execution that exists may progress and settle; it never becomes absent.
LEMMA ProgressedRow ==
    ASSUME NEW w \in Rows, NEW k \in ClaimTables, NEW n \in Nat, RowLedger(w, k, n),
           NEW g \in Generations, k[g].exec # "absent", NEW j \in ClaimTables,
           \A h \in Generations : h # g => j[h] = k[h],
           j[g].exec # "absent", j[g].holder = k[g].holder, j[g].voided = k[g].voided,
           w.gen <= MaxGeneration, w.token \in {0, w.gen}
    PROVE  RowLedger(w, j, n)
<1>1. ~k[g].voided /\ k[g] # Unclaimed
  BY DEF RowLedger, AbandonedBehind, Unclaimed
<1>2. UnusedAhead(w, j)
  BY <1>1 DEF RowLedger, UnusedAhead
<1>3. AbandonedBehind(w, j)
  BY <1>1 DEF RowLedger, AbandonedBehind
<1>4. ActiveRow(w, j)
  BY QueueAssumption DEF RowLedger, ActiveRow, Generations, Rows
<1>5. \A h \in Generations : j[h].exec = "absent" => j[h].attempts = 0
  BY DEF RowLedger
<1>6. NoRunBeforeAdmission(w, j, n)
  BY QueueAssumption DEF RowLedger, NoRunBeforeAdmission, Generations, Rows
<1> QED
  BY <1>2, <1>3, <1>4, <1>5, <1>6 DEF RowLedger

-----------------------------------------------------------------------------
\* The inductive invariant: the ledger, over well-typed tables.
QueueInv == TypeOK /\ ClaimLedger

\* The tables that are not rows of requirements keep their types.
OthersTyped ==
    /\ paused \in [Tags -> BOOLEAN]
    /\ pausedBy \in [Tags -> Requirements \cup {None}]
    /\ live \subseteq Sessions

\* A row with its claims and executions is in order.
RowInOrder(r) ==
    /\ row[r] \in Rows /\ claims[r] \in ClaimTables /\ runs[r] \in Nat
    /\ row[r].gen <= MaxGeneration /\ row[r].token \in {0, row[r].gen}
    /\ RowLedger(row[r], claims[r], runs[r])

\* The three tables have one entry per requirement.
Tables(rw, cl, rn) ==
    /\ rw = [r \in Requirements |-> rw[r]]
    /\ cl = [r \in Requirements |-> cl[r]]
    /\ rn = [r \in Requirements |-> rn[r]]

\* The invariant, row by row.
LEMMA RowByRow ==
    QueueInv <=> OthersTyped /\ Tables(row, claims, runs) /\ \A r \in Requirements : RowInOrder(r)
BY DEF QueueInv, OthersTyped, RowInOrder, Tables, TypeOK, ClaimLedger, ClaimTables

\* The same after a step.
LEMMA RowByRowNext ==
    QueueInv' <=> OthersTyped' /\ Tables(row', claims', runs') /\ \A r \in Requirements : RowInOrder(r)'
BY DEF QueueInv, OthersTyped, RowInOrder, Tables, TypeOK, ClaimLedger, ClaimTables

\* A statement that writes one requirement has to be checked on it alone.
LEMMA OneRowStep ==
    ASSUME QueueInv, NEW r \in Requirements, OthersTyped', Tables(row', claims', runs'),
           \A q \in Requirements \ {r} :
               row'[q] = row[q] /\ claims'[q] = claims[q] /\ runs'[q] = runs[q],
           RowInOrder(r)'
    PROVE  QueueInv'
<1>1. ASSUME NEW q \in Requirements \ {r} PROVE RowInOrder(q)'
  BY RowByRow DEF RowInOrder
<1> QED
  BY <1>1, RowByRowNext

\* Commands on one row, without a claim.
LEMMA RowCommandInv ==
    ASSUME QueueInv, NEW r \in Requirements
    PROVE  /\ \A t \in Tags, d \in SortKeys, v \in Statuses \ {"in_progress"} :
                 Create(r, t, d, v) => QueueInv'
           /\ \A t \in Tags, d \in SortKeys : UpdateMetadata(r, t, d) => QueueInv'
           /\ Delete(r) => QueueInv'
           /\ \A v \in Verdicts : TransitionStatus(r, v) => QueueInv'
           /\ Requeue(r) => QueueInv'
           /\ LeaseExpires(r) => QueueInv'
<1>0. /\ OthersTyped /\ Tables(row, claims, runs) /\ RowInOrder(r)
      /\ row[r].gen \in Nat
  BY RowByRow DEF RowInOrder, Rows
<1>1. ASSUME NEW t \in Tags, NEW d \in SortKeys, NEW v \in Statuses \ {"in_progress"}, Create(r, t, d, v)
      PROVE  QueueInv'
  <2> DEFINE x == [BlankRow EXCEPT !.status = v, !.tag = t, !.sort = d]
  <2>1. x \in Rows /\ x.gen = 0 /\ x.token = 0 /\ row'[r] = x
    BY <1>0, <1>1 DEF Rows, BlankRow, Create, Tables
  <2>2. RowLedger(x, claims[r], runs[r])
    BY <1>0, <1>1, CreatedRow DEF Create, RowInOrder
  <2>3. RowInOrder(r)'
    BY <1>0, <1>1, <2>1, <2>2, QueueAssumption DEF Create, RowInOrder
  <2> QED
    BY <1>0, <1>1, <2>3, OneRowStep DEF Create, Tables, OthersTyped
<1>2. ASSUME NEW t \in Tags, NEW d \in SortKeys, UpdateMetadata(r, t, d) PROVE QueueInv'
  <2> DEFINE x == [row[r] EXCEPT !.tag = t, !.sort = d]
  <2>1. x \in Rows /\ row'[r] = x
    BY <1>0, <1>2 DEF Rows, UpdateMetadata, RowInOrder, Tables
  <2>2. RowLedger(x, claims[r], runs[r])
    BY <1>0, <1>2, <2>1, TouchedRow DEF UpdateMetadata, RowInOrder, Exists, Rows
  <2>3. RowInOrder(r)'
    BY <1>0, <1>2, <2>1, <2>2 DEF UpdateMetadata, RowInOrder, Rows
  <2> QED
    BY <1>0, <1>2, <2>3, OneRowStep DEF UpdateMetadata, Tables, OthersTyped
<1>3. ASSUME Delete(r) PROVE QueueInv'
  <2>1. OthersTyped'
    BY <1>0, <1>3 DEF Delete, OthersTyped
  <2>2. CASE row[r].status = "in_progress"
    <3>1. row'[r] = Parked(row[r])
      BY <1>0, <1>3, <2>2 DEF Delete, Tables
    <3>2. Parked(row[r]) \in Rows /\ Parked(row[r]).status \in Verdicts
          /\ Parked(row[r]).gen = row[r].gen /\ Parked(row[r]).token = row[r].token
      BY <1>0, ParkedShape DEF RowInOrder
    <3>3. RowLedger(Parked(row[r]), claims[r], runs[r])
      BY <1>0, <2>2, <3>2, SettledRow DEF RowInOrder, Statuses
    <3>4. RowInOrder(r)'
      BY <1>0, <1>3, <3>1, <3>2, <3>3 DEF Delete, RowInOrder
    <3> QED
      BY <1>0, <1>3, <2>1, <2>2, <3>4, OneRowStep DEF Delete, Tables
  <2>3. CASE row[r].status # "in_progress"
    <3> DEFINE x == [BlankRow EXCEPT !.status = "deleted"]
    <3>1. row'[r] = x /\ x \in Rows /\ x.gen = 0 /\ x.token = 0
      BY <1>0, <1>3, <2>3 DEF Delete, Tables, BlankRow, Rows
    <3>2. RowLedger(x, claims[r], runs[r])
      BY <1>0, DeletedRow DEF RowInOrder
    <3>3. RowInOrder(r)'
      BY <1>0, <1>3, <3>1, <3>2, QueueAssumption DEF Delete, RowInOrder
    <3> QED
      BY <1>0, <1>3, <2>1, <2>3, <3>3, OneRowStep DEF Delete, Tables
  <2> QED
    BY <2>2, <2>3
<1>4. ASSUME NEW v \in Verdicts, TransitionStatus(r, v) PROVE QueueInv'
  <2> DEFINE x == [row[r] EXCEPT !.status = v]
  <2>1. x \in Rows /\ row'[r] = x
    BY <1>0, <1>4 DEF Rows, TransitionStatus, RowInOrder, Tables, Statuses, Verdicts
  <2>2. RowLedger(x, claims[r], runs[r])
    BY <1>0, <1>4, <2>1, SettledRow DEF TransitionStatus, RowInOrder, Statuses, Rows
  <2>3. RowInOrder(r)'
    BY <1>0, <1>4, <2>1, <2>2 DEF TransitionStatus, RowInOrder, Rows
  <2> QED
    BY <1>0, <1>4, <2>3, OneRowStep DEF TransitionStatus, Tables, OthersTyped
<1>5. ASSUME Requeue(r) PROVE QueueInv'
  <2> DEFINE x == Requeued(row[r])
  <2>1. x \in Rows /\ row'[r] = x /\ runs'[r] = 0 /\ x.gen = row[r].gen /\ x.token = 0
    BY <1>0, <1>5, RowShapes DEF Rows, Requeue, RowInOrder, Tables, Requeued
  <2>2. RowLedger(x, claims[r], 0)
    BY <1>0, <1>5, RequeuedRow DEF Requeue, RowInOrder, Statuses
  <2>3. RowInOrder(r)'
    BY <1>0, <1>5, <2>1, <2>2 DEF Requeue, RowInOrder
  <2> QED
    BY <1>0, <1>5, <2>3, OneRowStep DEF Requeue, Tables, OthersTyped
<1>6. ASSUME LeaseExpires(r) PROVE QueueInv'
  <2> DEFINE x == [row[r] EXCEPT !.lease = "expired"]
  <2>1. x \in Rows /\ row'[r] = x
    BY <1>0, <1>6 DEF Rows, LeaseExpires, RowInOrder, Tables
  <2>2. RowLedger(x, claims[r], runs[r])
    BY <1>0, <1>6, <2>1, TouchedRow DEF LeaseExpires, RowInOrder, Statuses, Rows
  <2>3. RowInOrder(r)'
    BY <1>0, <1>6, <2>1, <2>2 DEF LeaseExpires, RowInOrder, Rows
  <2> QED
    BY <1>0, <1>6, <2>3, OneRowStep DEF LeaseExpires, Tables, OthersTyped
<1> QED
  BY <1>1, <1>2, <1>3, <1>4, <1>5, <1>6

\* An issued capability names a row and a generation of it.
LEMMA IssuedClaim ==
    ASSUME NEW c \in Issued
    PROVE  c.req \in Requirements /\ c.gen \in Generations
BY DEF Issued

\* Taking and re-entering a claim.
LEMMA ClaimingInv ==
    ASSUME QueueInv, NEW s \in Sessions, NEW t \in Tags, NEW r \in Requirements
    PROVE  /\ RecoverActiveClaim(s, t, r) => QueueInv'
           /\ ClaimPending(s, t, r) => QueueInv'
<1>0. OthersTyped /\ Tables(row, claims, runs) /\ RowInOrder(r)
  BY RowByRow
<1>1. ASSUME RecoverActiveClaim(s, t, r) PROVE QueueInv'
  <2> DEFINE x == [row[r] EXCEPT !.lease = "live"]
  <2>1. x \in Rows /\ row'[r] = x /\ row[r].status = "in_progress"
    BY <1>0, <1>1 DEF Rows, RecoverActiveClaim, Recoverable, ActiveClaims, RowInOrder, Tables
  <2>2. RowLedger(x, claims[r], runs[r])
    BY <1>0, <2>1, TouchedRow DEF RowInOrder, Statuses, Rows
  <2>3. RowInOrder(r)'
    BY <1>0, <1>1, <2>1, <2>2 DEF RecoverActiveClaim, RowInOrder, Rows
  <2> QED
    BY <1>0, <1>1, <2>3, OneRowStep DEF RecoverActiveClaim, Tables, OthersTyped
<1>2. ASSUME ClaimPending(s, t, r) PROVE QueueInv'
  <2> DEFINE x == Claimed(row[r], s)
             j == [claims[r] EXCEPT ![row[r].gen + 1].holder = s]
  <2>0. row[r].status = "pending" /\ row[r].gen < MaxGeneration /\ row[r].gen \in Nat
    BY <1>0, <1>2 DEF ClaimPending, FirstClaimable, Claimable, RowInOrder, Rows
  <2>1. row'[r] = x /\ claims'[r] = j /\ runs'[r] = runs[r]
    BY <1>0, <1>2 DEF ClaimPending, Tables
  <2>2. /\ x \in Rows /\ x.status = "in_progress" /\ x.owner = s /\ x.gen = row[r].gen + 1
        /\ x.token = row[r].gen + 1 /\ x.lease = "live" /\ x.attempts = row[r].attempts + 1
    <3>1. row[r] \in Rows /\ x \in Rows
      BY <1>0, RowShapes DEF RowInOrder
    <3> QED
      BY <3>1 DEF Rows, Claimed
  <2>3. j \in ClaimTables
    BY <1>0, <2>0 DEF RowInOrder, ClaimTables, ClaimRecords
  <2>4. RowLedger(x, j, runs[r])
    BY <1>0, <2>0, <2>2, ClaimedRow DEF RowInOrder
  <2>5. RowInOrder(r)'
    BY <1>0, <2>0, <2>1, <2>2, <2>3, <2>4, QueueAssumption DEF RowInOrder
  <2> QED
    BY <1>0, <1>2, <2>5, OneRowStep DEF ClaimPending, Tables, OthersTyped
<1> QED
  BY <1>1, <1>2

\* A statement that is refused leaves the invariant alone.
LEMMA QueueStutter ==
    ASSUME QueueInv, UNCHANGED qvars
    PROVE  QueueInv'
<1>1. OthersTyped /\ Tables(row, claims, runs) /\ \A r \in Requirements : RowInOrder(r)
  BY RowByRow
<1>2. OthersTyped' /\ Tables(row', claims', runs') /\ \A r \in Requirements : RowInOrder(r)'
  BY <1>1 DEF qvars, OthersTyped, Tables, RowInOrder
<1> QED
  BY <1>2, RowByRowNext

\* Statements that present a claim.
LEMMA HeldClaimInv ==
    ASSUME QueueInv, NEW c \in Issued
    PROVE  /\ RenewLease(c) => QueueInv'
           /\ \A v \in Verdicts : ResolveClaim(c, v) => QueueInv'
           /\ AbandonClaim(c) => QueueInv'
           /\ AbandonAborted(c) => QueueInv'
<1> DEFINE r == c.req
<1>0. /\ r \in Requirements /\ c.gen \in Generations
      /\ OthersTyped /\ Tables(row, claims, runs) /\ RowInOrder(r)
  BY IssuedClaim, RowByRow
<1>1. ASSUME RenewLease(c) PROVE QueueInv'
  <2> DEFINE x == [row[r] EXCEPT !.lease = "live"]
  <2>1. x \in Rows /\ row'[r] = x /\ row[r].status = "in_progress"
    BY <1>0, <1>1 DEF Rows, RenewLease, ExactClaim, RowInOrder, Tables
  <2>2. RowLedger(x, claims[r], runs[r])
    BY <1>0, <2>1, TouchedRow DEF RowInOrder, Statuses, Rows
  <2>3. RowInOrder(r)'
    BY <1>0, <1>1, <2>1, <2>2 DEF RenewLease, RowInOrder, Rows
  <2> QED
    BY <1>0, <1>1, <2>3, OneRowStep DEF RenewLease, Tables, OthersTyped
<1>2. ASSUME NEW v \in Verdicts, ResolveClaim(c, v) PROVE QueueInv'
  <2> DEFINE x == IF v = "needs_review" THEN Parked(row[r]) ELSE [row[r] EXCEPT !.status = v]
  <2>1. row'[r] = x /\ row[r].status = "in_progress"
    BY <1>0, <1>2 DEF ResolveClaim, ExactClaim, Tables
  <2>2. /\ x \in Rows /\ x.status \in Verdicts
        /\ x.gen = row[r].gen /\ x.token = row[r].token
    BY <1>0, <1>2 DEF Rows, RowInOrder, Parked, Statuses, Verdicts
  <2>3. RowLedger(x, claims[r], runs[r])
    BY <1>0, <2>1, <2>2, SettledRow DEF RowInOrder, Statuses
  <2>4. RowInOrder(r)'
    BY <1>0, <1>2, <2>1, <2>2, <2>3 DEF ResolveClaim, RowInOrder
  <2> QED
    BY <1>0, <1>2, <2>4, OneRowStep DEF ResolveClaim, Tables, OthersTyped
<1>3. ASSUME AbandonClaim(c) PROVE QueueInv'
  <2> DEFINE x == Refunded(Requeued(row[r]))
             j == [claims[r] EXCEPT ![c.gen].voided = TRUE]
  <2>0. row[r].status = "in_progress" /\ row[r].gen = c.gen /\ claims[r][c.gen].exec = "absent"
    BY <1>3 DEF AbandonClaim, AbandonGuard, ExactClaim
  <2>1. row'[r] = x /\ claims'[r] = j /\ runs'[r] = runs[r]
    BY <1>0, <1>3 DEF AbandonClaim, Tables
  <2>2. /\ x \in Rows /\ x.status = "pending" /\ x.owner = None /\ x.gen = row[r].gen
        /\ x.token = 0 /\ x.lease = "none"
    <3>1. Requeued(row[r]) \in Rows /\ x \in Rows
      BY <1>0, RowShapes DEF RowInOrder
    <3> QED
      BY <1>0, <3>1 DEF Rows, RowInOrder, Requeued, Refunded
  <2>3. j \in ClaimTables
    BY <1>0 DEF RowInOrder, ClaimTables, ClaimRecords
  <2>4. RowLedger(x, j, runs[r])
    BY <1>0, <2>0, <2>2, AbandonedRow DEF RowInOrder
  <2>5. RowInOrder(r)'
    BY <1>0, <2>0, <2>1, <2>2, <2>3, <2>4, QueueAssumption DEF RowInOrder
  <2> QED
    BY <1>0, <1>3, <2>5, OneRowStep DEF AbandonClaim, Tables, OthersTyped
<1>4. ASSUME AbandonAborted(c) PROVE QueueInv'
  <2>1. UNCHANGED qvars
    BY <1>4 DEF AbandonAborted
  <2> QED
    BY <2>1, QueueStutter
<1> QED
  BY <1>1, <1>2, <1>3, <1>4

\* Parking any set of active rows keeps the invariant: session detach and the
\* lease sweep.
LEMMA ParkingInv ==
    ASSUME QueueInv, NEW P \in SUBSET Requirements,
           \A r \in P : row[r].status = "in_progress",
           row' = [r \in Requirements |-> IF r \in P THEN Parked(row[r]) ELSE row[r]],
           UNCHANGED <<paused, pausedBy, live, claims, runs>>
    PROVE  QueueInv'
<1>0. OthersTyped /\ Tables(row, claims, runs) /\ \A r \in Requirements : RowInOrder(r)
  BY RowByRow
<1>1. ASSUME NEW r \in Requirements PROVE RowInOrder(r)'
  <2>1. CASE r \in P
    <3>1. /\ Parked(row[r]) \in Rows /\ Parked(row[r]).status \in Verdicts
          /\ Parked(row[r]).gen = row[r].gen /\ Parked(row[r]).token = row[r].token
      BY <1>0, ParkedShape DEF RowInOrder
    <3>2. RowLedger(Parked(row[r]), claims[r], runs[r])
      BY <1>0, <2>1, <3>1, SettledRow DEF RowInOrder, Statuses
    <3> QED
      BY <1>0, <2>1, <3>1, <3>2 DEF RowInOrder
  <2>2. CASE r \notin P
    BY <1>0, <2>2 DEF RowInOrder
  <2> QED
    BY <2>1, <2>2
<1> QED
  BY <1>0, <1>1, RowByRowNext DEF OthersTyped, Tables

\* The commands on tags.
LEMMA TagCommandInv ==
    ASSUME QueueInv, NEW t \in Tags
    PROVE  /\ \A r \in Requirements : PauseTag(t, r) => QueueInv'
           /\ \A ids \in SUBSET Requirements : ResumeTag(t, ids) => QueueInv'
           /\ ResumeTagForEnable(t) => QueueInv'
<1>0. OthersTyped /\ Tables(row, claims, runs) /\ \A r \in Requirements : RowInOrder(r)
  BY RowByRow
<1>1. ASSUME NEW r \in Requirements, PauseTag(t, r) PROVE QueueInv'
  <2>1. OthersTyped'
    BY <1>0, <1>1 DEF PauseTag, OthersTyped
  <2>2. \A q \in Requirements : RowInOrder(q)'
    BY <1>0, <1>1 DEF PauseTag, RowInOrder
  <2> QED
    BY <1>0, <1>1, <2>1, <2>2, RowByRowNext DEF PauseTag, Tables
<1>2. ASSUME NEW r \in Requirements, row[r].status \in Statuses \ {"in_progress"}
      PROVE  /\ FreshBudget(Requeued(row[r])) \in Rows
             /\ FreshBudget(Requeued(row[r])).gen <= MaxGeneration
             /\ FreshBudget(Requeued(row[r])).token = 0
             /\ RowLedger(FreshBudget(Requeued(row[r])), claims[r], 0)
  <2>1. Requeued(row[r]) \in Rows /\ FreshBudget(Requeued(row[r])) \in Rows
    BY <1>0, RowShapes DEF RowInOrder
  <2>2. /\ FreshBudget(Requeued(row[r])).gen = row[r].gen
        /\ FreshBudget(Requeued(row[r])).token = 0
    BY <1>0, <2>1 DEF RowInOrder, Requeued, FreshBudget, Rows
  <2>3. RowLedger(FreshBudget(Requeued(row[r])), claims[r], 0)
    BY <1>0, <1>2, RequeuedRow DEF RowInOrder
  <2> QED
    BY <1>0, <2>1, <2>2, <2>3 DEF RowInOrder
<1>3. ASSUME NEW ids \in SUBSET Requirements, ResumeTag(t, ids) PROVE QueueInv'
  <2>1. ASSUME NEW r \in Requirements PROVE RowInOrder(r)'
    <3>1. CASE r \in ids /\ row[r].tag = t /\ row[r].status \in {"failed", "needs_review"}
      <4>1. row'[r] = FreshBudget(Requeued(row[r])) /\ runs'[r] = 0 /\ claims'[r] = claims[r]
        BY <1>3, <3>1 DEF ResumeTag
      <4> QED
        BY <1>0, <1>2, <3>1, <4>1 DEF RowInOrder, Statuses
    <3>2. CASE ~(r \in ids /\ row[r].tag = t /\ row[r].status \in {"failed", "needs_review"})
      <4>1. row'[r] = row[r] /\ runs'[r] = runs[r] /\ claims'[r] = claims[r]
        BY <1>3, <3>2 DEF ResumeTag
      <4> QED
        BY <1>0, <4>1 DEF RowInOrder
    <3> QED
      BY <3>1, <3>2
  <2> QED
    BY <1>0, <1>3, <2>1, RowByRowNext DEF ResumeTag, Tables, OthersTyped
<1>4. ASSUME ResumeTagForEnable(t) PROVE QueueInv'
  <2>1. ASSUME NEW r \in Requirements PROVE RowInOrder(r)'
    <3>1. CASE row[r].tag = t /\ row[r].status \in {"failed", "pending"}
      <4>1. row'[r] = FreshBudget(Requeued(row[r])) /\ claims'[r] = claims[r]
        BY <1>4, <3>1 DEF ResumeTagForEnable
      <4>2. runs'[r] = 0
        BY <1>0, <1>4, <3>1 DEF ResumeTagForEnable, RowInOrder, RowLedger, PendingRow
      <4> QED
        BY <1>0, <1>2, <3>1, <4>1, <4>2 DEF RowInOrder, Statuses
    <3>2. CASE row[r].tag = t /\ row[r].status = "in_progress"
      <4>1. row'[r] = Parked(row[r]) /\ runs'[r] = runs[r] /\ claims'[r] = claims[r]
        BY <1>4, <3>2 DEF ResumeTagForEnable
      <4>2. /\ Parked(row[r]) \in Rows /\ Parked(row[r]).status \in Verdicts
            /\ Parked(row[r]).gen = row[r].gen /\ Parked(row[r]).token = row[r].token
        BY <1>0, ParkedShape DEF RowInOrder
      <4>3. RowLedger(Parked(row[r]), claims[r], runs[r])
        BY <1>0, <3>2, <4>2, SettledRow DEF RowInOrder, Statuses
      <4> QED
        BY <1>0, <4>1, <4>2, <4>3 DEF RowInOrder
    <3>3. CASE ~(row[r].tag = t /\ row[r].status \in {"failed", "pending", "in_progress"})
      <4>1. row'[r] = row[r] /\ runs'[r] = runs[r] /\ claims'[r] = claims[r]
        BY <1>4, <3>3 DEF ResumeTagForEnable
      <4> QED
        BY <1>0, <4>1 DEF RowInOrder
    <3> QED
      BY <3>1, <3>2, <3>3
  <2>2. Tables(row', claims', runs')
    BY <1>0, <1>4 DEF ResumeTagForEnable, Tables
  <2>3. OthersTyped'
    BY <1>0, <1>4 DEF ResumeTagForEnable, OthersTyped
  <2> QED
    BY <2>1, <2>2, <2>3, RowByRowNext
<1> QED
  BY <1>1, <1>3, <1>4

\* Admission, progress and end of an execution.
LEMMA ExecutionInv ==
    ASSUME QueueInv, NEW c \in Issued
    PROVE  /\ AdmitExecution(c) => QueueInv'
           /\ AdmitAttempt(c) => QueueInv'
           /\ \A o \in Outcomes : SettleExecution(c, o) => QueueInv'
           /\ CancelExecution(c) => QueueInv'
<1> DEFINE r == c.req
<1>0. /\ r \in Requirements /\ c.gen \in Generations
      /\ OthersTyped /\ Tables(row, claims, runs) /\ RowInOrder(r)
      /\ claims[r] \in ClaimTables /\ claims[r][c.gen] \in ClaimRecords
  BY IssuedClaim, RowByRow DEF RowInOrder, ClaimTables
<1>1. ASSUME AdmitExecution(c) PROVE QueueInv'
  <2> DEFINE j == [claims[r] EXCEPT ![c.gen].exec = "active"]
  <2>0. /\ row[r].status \in Statuses /\ row[r].gen = c.gen /\ row[r].token # 0
        /\ claims[r][c.gen].exec = "absent"
    BY <1>1 DEF AdmitExecution, AutoworkAdmitted, Exists
  <2>1. row'[r] = row[r] /\ claims'[r] = j /\ runs'[r] = runs[r] + 1
    BY <1>0, <1>1 DEF AdmitExecution, Tables
  <2>2. j \in ClaimTables
    BY <1>0 DEF ClaimTables, ClaimRecords
  <2>3. RowLedger(row[r], j, runs[r] + 1)
    BY <1>0, <2>0, AdmittedRow DEF RowInOrder
  <2>4. RowInOrder(r)'
    BY <1>0, <2>1, <2>2, <2>3 DEF RowInOrder
  <2> QED
    BY <1>0, <1>1, <2>4, OneRowStep DEF AdmitExecution, Tables, OthersTyped
<1>2. ASSUME NEW j \in ClaimTables, claims[r][c.gen].exec # "absent",
             claims' = [claims EXCEPT ![r] = j],
             UNCHANGED <<row, paused, pausedBy, live, runs>>,
             \A h \in Generations : h # c.gen => j[h] = claims[r][h],
             j[c.gen].exec # "absent", j[c.gen].holder = claims[r][c.gen].holder,
             j[c.gen].voided = claims[r][c.gen].voided
      PROVE  QueueInv'
  <2>1. RowLedger(row[r], j, runs[r])
    BY <1>0, <1>2, ProgressedRow DEF RowInOrder
  <2>2. RowInOrder(r)'
    BY <1>0, <1>2, <2>1 DEF RowInOrder, Tables
  <2> QED
    BY <1>0, <1>2, <2>2, OneRowStep DEF Tables, OthersTyped
<1>3. ASSUME AdmitAttempt(c) PROVE QueueInv'
  <2> DEFINE j == [claims[r] EXCEPT ![c.gen].attempts = claims[r][c.gen].attempts + 1]
  <2>1. claims[r][c.gen].exec = "active" /\ claims[r][c.gen].attempts + 1 \in 0..MaxAttempts
    BY <1>0, <1>3, QueueAssumption DEF AdmitAttempt, ClaimRecords
  <2>2. j \in ClaimTables
    BY <1>0, <2>1 DEF ClaimTables, ClaimRecords
  <2>3. claims' = [claims EXCEPT ![r] = j]
    BY <1>0, <1>3 DEF AdmitAttempt, Tables
  <2>4. /\ \A h \in Generations : h # c.gen => j[h] = claims[r][h]
        /\ j[c.gen].exec = "active" /\ j[c.gen].holder = claims[r][c.gen].holder
        /\ j[c.gen].voided = claims[r][c.gen].voided
    BY <1>0, <2>1 DEF ClaimTables, ClaimRecords
  <2> QED
    BY <1>2, <1>3, <2>1, <2>2, <2>3, <2>4 DEF AdmitAttempt
<1>4. ASSUME NEW o \in Finished, claims[r][c.gen].exec = "active",
             claims' = [claims EXCEPT ![r][c.gen].exec = o],
             UNCHANGED <<row, paused, pausedBy, live, runs>>
      PROVE  QueueInv'
  <2> DEFINE j == [claims[r] EXCEPT ![c.gen].exec = o]
  <2>1. o # "absent"
    BY QueueAssumption DEF Finished
  <2>2. j \in ClaimTables
    BY <1>0 DEF ClaimTables, ClaimRecords
  <2>3. claims' = [claims EXCEPT ![r] = j]
    BY <1>0, <1>4 DEF Tables
  <2>4. /\ \A h \in Generations : h # c.gen => j[h] = claims[r][h]
        /\ j[c.gen].exec = o /\ j[c.gen].holder = claims[r][c.gen].holder
        /\ j[c.gen].voided = claims[r][c.gen].voided
    BY <1>0 DEF ClaimTables, ClaimRecords
  <2> QED
    BY <1>2, <1>4, <2>1, <2>2, <2>3, <2>4
<1>5. ASSUME NEW o \in Outcomes, SettleExecution(c, o) PROVE QueueInv'
  BY <1>4, <1>5 DEF SettleExecution, Finished
<1>6. ASSUME CancelExecution(c) PROVE QueueInv'
  BY <1>4, <1>6 DEF CancelExecution, Finished
<1> QED
  BY <1>1, <1>3, <1>5, <1>6

\* The empty queue is in order.
LEMMA InitInv == Init => QueueInv
<1> SUFFICES ASSUME Init PROVE QueueInv
  OBVIOUS
<1>1. OthersTyped /\ Tables(row, claims, runs)
  BY DEF Init, OthersTyped, Tables
<1>2. ASSUME NEW r \in Requirements PROVE RowInOrder(r)
  <2>1. row[r] = BlankRow /\ claims[r] = [g \in Generations |-> Unclaimed] /\ runs[r] = 0
    BY DEF Init
  <2>2. row[r] \in Rows /\ claims[r] \in ClaimTables
    BY <2>1, RowShapes DEF ClaimTables
  <2>3. RowLedger(row[r], claims[r], runs[r])
    BY <2>1, QueueAssumption DEF RowLedger, PendingRow, ActiveRow, UnusedAhead,
           NoRunBeforeAdmission, AbandonedBehind, BlankRow, Unclaimed, Generations
  <2> QED
    BY <2>1, <2>2, <2>3, QueueAssumption DEF RowInOrder, BlankRow
<1> QED
  BY <1>1, <1>2, RowByRow

\* Every step keeps the invariant.
LEMMA NextInv == QueueInv /\ [Next]_qvars => QueueInv'
<1> SUFFICES ASSUME QueueInv, [Next]_qvars PROVE QueueInv'
  OBVIOUS
<1>1. CASE RowCommand
  BY <1>1, RowCommandInv DEF RowCommand
<1>2. CASE ClaimCommand
  <2>1. CASE \E s \in Sessions, t \in Tags, r \in Requirements :
                RecoverActiveClaim(s, t, r) \/ ClaimPending(s, t, r)
    BY <2>1, ClaimingInv
  <2>2. CASE \E c \in Issued :
                RenewLease(c) \/ (\E v \in Verdicts : ResolveClaim(c, v))
                    \/ AbandonClaim(c) \/ AbandonAborted(c)
    BY <2>2, HeldClaimInv
  <2>3. ASSUME NEW s \in Sessions, DetachOwner(s) PROVE QueueInv'
    <3> DEFINE P == ActiveClaims(s)
    <3>1. P \in SUBSET Requirements /\ \A r \in P : row[r].status = "in_progress"
      BY DEF ActiveClaims
    <3>2. /\ row' = [r \in Requirements |-> IF r \in P THEN Parked(row[r]) ELSE row[r]]
          /\ UNCHANGED <<paused, pausedBy, live, claims, runs>>
      BY <2>3 DEF DetachOwner
    <3> HIDE DEF P
    <3> QED
      BY <3>1, <3>2, ParkingInv
  <2>4. ASSUME NEW active \in SUBSET Sessions, SweepExpiredLeases(active) PROVE QueueInv'
    <3> DEFINE P == {r \in Requirements : /\ row[r].status = "in_progress"
                                           /\ row[r].lease = "expired"
                                           /\ row[r].owner \notin active}
    <3>1. P \in SUBSET Requirements /\ \A r \in P : row[r].status = "in_progress"
      OBVIOUS
    <3>2. /\ row' = [r \in Requirements |-> IF r \in P THEN Parked(row[r]) ELSE row[r]]
          /\ UNCHANGED <<paused, pausedBy, live, claims, runs>>
      BY <2>4 DEF SweepExpiredLeases
    <3> HIDE DEF P
    <3> QED
      BY <3>1, <3>2, ParkingInv
  <2> QED
    BY <1>2, <2>1, <2>2, <2>3, <2>4 DEF ClaimCommand
<1>3. CASE TagCommand
  BY <1>3, TagCommandInv, IssuedClaim DEF TagCommand
<1>4. CASE ExecutionStep
  <2>1. ASSUME NEW s \in Sessions, RetireSession(s) PROVE QueueInv'
    <3>1. OthersTyped /\ Tables(row, claims, runs) /\ \A r \in Requirements : RowInOrder(r)
      BY RowByRow
    <3>2. OthersTyped' /\ Tables(row', claims', runs') /\ \A r \in Requirements : RowInOrder(r)'
      BY <2>1, <3>1 DEF RetireSession, OthersTyped, Tables, RowInOrder
    <3> QED
      BY <3>2, RowByRowNext
  <2> QED
    BY <1>4, <2>1, ExecutionInv DEF ExecutionStep
<1>5. CASE UNCHANGED qvars
  BY <1>5, QueueStutter
<1> QED
  BY <1>1, <1>2, <1>3, <1>4, <1>5 DEF Next

\* The queue's tables and its claim ledger are in order in every reachable
\* state.
THEOREM QueueInvariant == Spec => []QueueInv
<1>1. Init => QueueInv
  BY InitInv
<1>2. QueueInv /\ [Next]_qvars => QueueInv'
  BY NextInv
<1> QED
  BY <1>1, <1>2, PTL DEF Spec

\* Type correctness of the queue's tables.
THEOREM TypeCorrect == Spec => []TypeOK
<1>1. QueueInv => TypeOK
  BY DEF QueueInv
<1> QED
  BY <1>1, QueueInvariant, PTL

\* The ledger of claims and executions agrees with every row.
THEOREM LedgerAgrees == Spec => []ClaimLedger
<1>1. QueueInv => ClaimLedger
  BY DEF QueueInv
<1> QED
  BY <1>1, QueueInvariant, PTL

\* Whatever expires, crashes, is stopped, abandoned or arrives late, a
\* requirement the user queued once starts at most one AgentExecution.
THEOREM NoSecondRun == Spec => []AtMostOneRunPerQueueing
<1>1. QueueInv => AtMostOneRunPerQueueing
  BY DEF QueueInv, ClaimLedger, RowLedger, AtMostOneRunPerQueueing
<1> QED
  BY <1>1, QueueInvariant, PTL

\* An abandoned claim has no execution and will have none.
THEOREM AbandonedStaysDead == Spec => []AbandonedClaimNeverRuns
<1>1. QueueInv => AbandonedClaimNeverRuns
  BY DEF QueueInv, ClaimLedger, RowLedger, AbandonedBehind, AbandonedClaimNeverRuns
<1> QED
  BY <1>1, QueueInvariant, PTL

-----------------------------------------------------------------------------
\* A step that makes no row active and hands no active row to another owner.
NoNewActive ==
    \A q \in Requirements : row'[q].status = "in_progress" =>
        row[q].status = "in_progress" /\ row'[q].owner = row[q].owner

\* Only the claim statement makes rows active.
LEMMA OnlyClaimsActivate ==
    ASSUME QueueInv, Next
    PROVE  \/ NoNewActive
           \/ \E s \in Sessions, t \in Tags, r \in Requirements : ClaimPending(s, t, r)
<1>0. row \in [Requirements -> Rows]
  BY DEF QueueInv, TypeOK
<1>1. CASE RowCommand
  <2>1. PICK r \in Requirements :
          \/ \E t \in Tags, d \in SortKeys, v \in Statuses \ {"in_progress"} : Create(r, t, d, v)
          \/ \E t \in Tags, d \in SortKeys : UpdateMetadata(r, t, d)
          \/ Delete(r)
          \/ \E v \in Verdicts : TransitionStatus(r, v)
          \/ Requeue(r)
          \/ LeaseExpires(r)
    BY <1>1 DEF RowCommand
  <2>2. \A q \in Requirements \ {r} : row'[q] = row[q]
    BY <1>0, <2>1 DEF Create, UpdateMetadata, Delete, TransitionStatus, Requeue, LeaseExpires
  <2>3. row'[r].status = "in_progress" =>
            row[r].status = "in_progress" /\ row'[r].owner = row[r].owner
    <3>1. ASSUME NEW t \in Tags, NEW d \in SortKeys, NEW v \in Statuses \ {"in_progress"}, Create(r, t, d, v)
          PROVE  row'[r].status # "in_progress"
      BY <1>0, <3>1 DEF Create, BlankRow
    <3>2. ASSUME NEW t \in Tags, NEW d \in SortKeys, UpdateMetadata(r, t, d)
          PROVE  row'[r].status = row[r].status /\ row'[r].owner = row[r].owner
      BY <1>0, <3>2 DEF UpdateMetadata, Rows
    <3>3. ASSUME Delete(r) PROVE row'[r].status # "in_progress"
      BY <1>0, <3>3 DEF Delete, Parked, BlankRow, Rows
    <3>4. ASSUME NEW v \in Verdicts, TransitionStatus(r, v) PROVE row'[r].status # "in_progress"
      BY <1>0, <3>4 DEF TransitionStatus, Verdicts, Rows
    <3>5. ASSUME Requeue(r) PROVE row'[r].status # "in_progress"
      BY <1>0, <3>5 DEF Requeue, Requeued, Rows
    <3>6. ASSUME LeaseExpires(r)
          PROVE  row'[r].status = row[r].status /\ row'[r].owner = row[r].owner
      BY <1>0, <3>6 DEF LeaseExpires, Rows
    <3> QED
      BY <2>1, <3>1, <3>2, <3>3, <3>4, <3>5, <3>6
  <2> QED
    BY <2>2, <2>3 DEF NoNewActive
<1>2. ASSUME NEW s \in Sessions, NEW t \in Tags, NEW r \in Requirements, RecoverActiveClaim(s, t, r)
      PROVE  NoNewActive
  BY <1>0, <1>2 DEF RecoverActiveClaim, NoNewActive, Rows
<1>3. ASSUME NEW c \in Issued, NEW v \in Verdicts,
             RenewLease(c) \/ ResolveClaim(c, v) \/ AbandonClaim(c) \/ AbandonAborted(c)
      PROVE  NoNewActive
  <2>1. c.req \in Requirements
    BY IssuedClaim
  <2>2. CASE RenewLease(c)
    BY <1>0, <2>1, <2>2 DEF RenewLease, NoNewActive, Rows
  <2>3. CASE ResolveClaim(c, v)
    BY <1>0, <2>1, <2>3 DEF ResolveClaim, ExactClaim, NoNewActive, Parked, Verdicts, Rows
  <2>4. CASE AbandonClaim(c)
    <3>1. Refunded(Requeued(row[c.req])).status = "pending"
      BY <1>0, <2>1 DEF Refunded, Requeued, Rows
    <3> QED
      BY <1>0, <2>1, <2>4, <3>1 DEF AbandonClaim, NoNewActive
  <2>5. CASE AbandonAborted(c)
    BY <2>5 DEF AbandonAborted, NoNewActive, qvars
  <2> QED
    BY <1>3, <2>2, <2>3, <2>4, <2>5
<1>4. ASSUME NEW s \in Sessions, DetachOwner(s) PROVE NoNewActive
  BY <1>0, <1>4 DEF DetachOwner, NoNewActive, Parked, Rows
<1>5. ASSUME NEW active \in SUBSET Sessions, SweepExpiredLeases(active) PROVE NoNewActive
  BY <1>0, <1>5 DEF SweepExpiredLeases, NoNewActive, Parked, Rows
<1>6. CASE TagCommand
  <2>1. ASSUME NEW r \in Requirements
        PROVE  /\ Parked(row[r]).status # "in_progress"
               /\ FreshBudget(Requeued(row[r])).status # "in_progress"
    BY <1>0 DEF Parked, FreshBudget, Requeued, Rows
  <2>2. ASSUME NEW t \in Tags, NEW r \in Requirements, PauseTag(t, r) PROVE NoNewActive
    BY <1>0, <2>2 DEF PauseTag, NoNewActive
  <2>3. ASSUME NEW t \in Tags, NEW ids \in SUBSET Requirements, ResumeTag(t, ids) PROVE NoNewActive
    BY <1>0, <2>1, <2>3 DEF ResumeTag, NoNewActive
  <2>4. ASSUME NEW t \in Tags, ResumeTagForEnable(t) PROVE NoNewActive
    BY <1>0, <2>1, <2>4 DEF ResumeTagForEnable, NoNewActive
  <2> QED
    BY <1>6, <2>2, <2>3, <2>4, IssuedClaim DEF TagCommand
<1>7. CASE ExecutionStep
  BY <1>0, <1>7 DEF ExecutionStep, AdmitExecution, AdmitAttempt, SettleExecution, CancelExecution,
                    RetireSession, NoNewActive
<1>8. CASE ClaimCommand
  BY <1>2, <1>3, <1>4, <1>5, <1>8 DEF ClaimCommand, Verdicts
<1> QED
  BY <1>1, <1>6, <1>7, <1>8 DEF Next

\* A session never holds two active claims at once.
THEOREM SingleActiveClaim == Spec => []OneActiveClaimPerOwner
<1>1. Init => OneActiveClaimPerOwner
  BY DEF Init, OneActiveClaimPerOwner, ActiveClaims, BlankRow
<1>2. QueueInv /\ OneActiveClaimPerOwner /\ [Next]_qvars => OneActiveClaimPerOwner'
  <2> SUFFICES ASSUME QueueInv, OneActiveClaimPerOwner, [Next]_qvars
               PROVE  OneActiveClaimPerOwner'
    OBVIOUS
  <2>1. CASE NoNewActive
    BY <2>1 DEF NoNewActive, OneActiveClaimPerOwner, ActiveClaims
  <2>2. ASSUME NEW s \in Sessions, NEW t \in Tags, NEW r \in Requirements, ClaimPending(s, t, r)
        PROVE  OneActiveClaimPerOwner'
    <3>1. ActiveClaims(s) = {} /\ row \in [Requirements -> Rows]
      BY <2>2 DEF ClaimPending, FirstClaimable, Claimable, QueueInv, TypeOK
    <3>2. row'[r].owner = s /\ \A q \in Requirements \ {r} : row'[q] = row[q]
      BY <2>2, <3>1 DEF ClaimPending, Claimed, Rows
    <3> QED
      BY <3>1, <3>2 DEF OneActiveClaimPerOwner, ActiveClaims
  <2>3. CASE UNCHANGED qvars
    BY <2>3 DEF qvars, OneActiveClaimPerOwner, ActiveClaims
  <2> QED
    BY <2>1, <2>2, <2>3, OnlyClaimsActivate
<1> QED
  BY <1>1, <1>2, QueueInvariant, PTL DEF Spec

-----------------------------------------------------------------------------
\* A row that a statement leaves as it is, or moves between tags, or whose
\* lease it renews, passes the triggers.
LEMMA TouchAllowed ==
    ASSUME NEW r \in Requirements, NEW w \in Rows, NEW n \in Nat, RowLedger(w, claims[r], n),
           NEW x \in Rows,
           x.status = w.status, x.owner = w.owner, x.gen = w.gen, x.token = w.token,
           x.attempts = w.attempts,
           x.lease = w.lease \/ (w.status = "in_progress" /\ x.lease # "none")
    PROVE  TriggersAllow(r, w, x)
BY QueueAssumption DEF TriggersAllow, ActiveToPending, AbsorbDoneCancelled, ActiveIdentityExit, InProgressUpdate,
       PendingUpdate, RowLedger, PendingRow, ActiveRow, Rows

\* So does a verdict on a row that has none.
LEMMA VerdictAllowed ==
    ASSUME NEW r \in Requirements, NEW w \in Rows, w.status \in {"pending", "needs_review", "in_progress"},
           NEW x \in Rows, x.status \in Verdicts, x.owner = w.owner, x.gen = w.gen,
           x.token = w.token, x.attempts = w.attempts
    PROVE  TriggersAllow(r, w, x)
BY DEF TriggersAllow, ActiveToPending, AbsorbDoneCancelled, ActiveIdentityExit, InProgressUpdate,
       PendingUpdate, Rows, Verdicts

\* So does a requeue of a row that is neither active nor finished for good.
LEMMA RequeueAllowed ==
    ASSUME NEW r \in Requirements, NEW w \in Rows, w.status \in {"pending", "failed", "needs_review"}
    PROVE  TriggersAllow(r, w, Requeued(w)) /\ TriggersAllow(r, w, FreshBudget(Requeued(w)))
<1>1. /\ Requeued(w).status = "pending" /\ Requeued(w).token = 0
      /\ Requeued(w).owner = None /\ Requeued(w).lease = "none"
  BY DEF Requeued, Rows
<1>2. /\ FreshBudget(Requeued(w)).status = "pending" /\ FreshBudget(Requeued(w)).token = 0
      /\ FreshBudget(Requeued(w)).owner = None /\ FreshBudget(Requeued(w)).lease = "none"
  BY DEF Requeued, FreshBudget, Rows
<1> QED
  BY <1>1, <1>2 DEF TriggersAllow, ActiveToPending, AbsorbDoneCancelled, ActiveIdentityExit,
       InProgressUpdate, PendingUpdate

\* Parking an active row passes the triggers.
LEMMA ParkAllowed ==
    ASSUME NEW r \in Requirements, NEW w \in Rows, w.status = "in_progress"
    PROVE  TriggersAllow(r, w, Parked(w))
<1>1. /\ Parked(w) \in Rows /\ Parked(w).status \in Verdicts /\ Parked(w).owner = w.owner
      /\ Parked(w).gen = w.gen /\ Parked(w).token = w.token /\ Parked(w).attempts = w.attempts
  BY ParkedShape DEF Parked, Rows
<1> QED
  BY <1>1, VerdictAllowed

\* Claiming a pending row passes the triggers.
LEMMA ClaimAllowed ==
    ASSUME NEW r \in Requirements, NEW w \in Rows, NEW n \in Nat, RowLedger(w, claims[r], n),
           w.status = "pending", NEW s \in Sessions
    PROVE  TriggersAllow(r, w, Claimed(w, s))
<1>1. /\ Claimed(w, s).status = "in_progress" /\ Claimed(w, s).owner = s
      /\ Claimed(w, s).gen = w.gen + 1 /\ Claimed(w, s).token = w.gen + 1
      /\ Claimed(w, s).lease = "live" /\ Claimed(w, s).attempts = w.attempts + 1
      /\ w.gen \in Nat
  BY DEF Claimed, Rows
<1>2. w.token = 0 /\ s # None
  BY QueueAssumption DEF RowLedger, PendingRow
<1> QED
  BY <1>1, <1>2 DEF TriggersAllow, ActiveToPending, AbsorbDoneCancelled, ActiveIdentityExit,
       InProgressUpdate, PendingUpdate

\* Abandoning a claim that has no execution, through the guard table, passes
\* the triggers.
LEMMA AbandonAllowed ==
    ASSUME NEW r \in Requirements, NEW w \in Rows, w.status = "in_progress",
           claims[r][w.gen].exec = "absent", claims'[r][w.gen].voided
    PROVE  TriggersAllow(r, w, Refunded(Requeued(w)))
<1> DEFINE x == Refunded(Requeued(w))
<1>1. /\ x.status = "pending" /\ x.token = 0 /\ x.owner = None /\ x.lease = "none"
      /\ x.gen = w.gen /\ x.attempts = (IF w.attempts > 0 THEN w.attempts - 1 ELSE 0)
  BY DEF Requeued, Refunded, Rows
<1> SUFFICES TriggersAllow(r, w, x)
  OBVIOUS
<1> HIDE DEF x
<1> QED
  BY <1>1 DEF TriggersAllow, ActiveToPending, AbsorbDoneCancelled, ActiveIdentityExit,
       InProgressUpdate, PendingUpdate

\* The action property for one requirement.
RowStepAllowed(r) == Exists(r) /\ Exists(r)' => TriggersAllow(r, row[r], row'[r])

\* No step updates a row in a way that a trigger of the schema aborts.
LEMMA StepAllowed ==
    ASSUME QueueInv, Next, NEW r \in Requirements
    PROVE  RowStepAllowed(r)
<1>0. /\ row \in [Requirements -> Rows] /\ row[r] \in Rows /\ runs[r] \in Nat
      /\ RowLedger(row[r], claims[r], runs[r])
  BY RowByRow DEF RowInOrder, QueueInv, TypeOK
<1>same. ASSUME row'[r] = row[r] PROVE RowStepAllowed(r)
  BY <1>0, <1>same, TouchAllowed DEF RowStepAllowed
<1>touch. ASSUME NEW l \in {"live", "expired"}, row[r].status = "in_progress",
                 row'[r] = [row[r] EXCEPT !.lease = l]
          PROVE  RowStepAllowed(r)
  <2>1. row'[r] \in Rows /\ row'[r].status = row[r].status /\ row'[r].owner = row[r].owner
        /\ row'[r].gen = row[r].gen /\ row'[r].token = row[r].token
        /\ row'[r].attempts = row[r].attempts /\ row'[r].lease # "none"
    BY <1>0, <1>touch DEF Rows
  <2> QED
    BY <1>0, <1>touch, <2>1, TouchAllowed DEF RowStepAllowed
<1>1. ASSUME NEW q \in Requirements, NEW t \in Tags, NEW d \in SortKeys,
             NEW v \in Statuses \ {"in_progress"}, Create(q, t, d, v)
      PROVE  RowStepAllowed(r)
  BY <1>0, <1>same, <1>1 DEF Create, RowStepAllowed, Exists, Statuses
<1>2. ASSUME NEW q \in Requirements, NEW t \in Tags, NEW d \in SortKeys, UpdateMetadata(q, t, d)
      PROVE  RowStepAllowed(r)
  <2>1. CASE q = r
    <3>1. row'[r] \in Rows /\ row'[r].status = row[r].status /\ row'[r].owner = row[r].owner
          /\ row'[r].gen = row[r].gen /\ row'[r].token = row[r].token
          /\ row'[r].attempts = row[r].attempts /\ row'[r].lease = row[r].lease
      BY <1>0, <1>2, <2>1 DEF UpdateMetadata, Rows
    <3> QED
      BY <1>0, <3>1, TouchAllowed DEF RowStepAllowed
  <2>2. CASE q # r
    BY <1>0, <1>same, <1>2, <2>2 DEF UpdateMetadata
  <2> QED
    BY <2>1, <2>2
<1>3. ASSUME NEW q \in Requirements, Delete(q) PROVE RowStepAllowed(r)
  <2>1. CASE q = r /\ row[r].status = "in_progress"
    BY <1>0, <1>3, <2>1, ParkAllowed DEF Delete, RowStepAllowed
  <2>2. CASE q = r /\ row[r].status # "in_progress"
    BY <1>0, <1>3, <2>2 DEF Delete, RowStepAllowed, Exists, Statuses, BlankRow
  <2>3. CASE q # r
    BY <1>0, <1>same, <1>3, <2>3 DEF Delete
  <2> QED
    BY <2>1, <2>2, <2>3
<1>4. ASSUME NEW q \in Requirements, NEW v \in Verdicts, TransitionStatus(q, v) PROVE RowStepAllowed(r)
  <2>1. CASE q = r
    <3>1. row'[r] \in Rows /\ row'[r].status = v /\ row'[r].owner = row[r].owner
          /\ row'[r].gen = row[r].gen /\ row'[r].token = row[r].token
          /\ row'[r].attempts = row[r].attempts
      BY <1>0, <1>4, <2>1 DEF TransitionStatus, Rows, Verdicts, Statuses
    <3> QED
      BY <1>0, <1>4, <2>1, <3>1, VerdictAllowed DEF RowStepAllowed, TransitionStatus
  <2>2. CASE q # r
    BY <1>0, <1>same, <1>4, <2>2 DEF TransitionStatus
  <2> QED
    BY <2>1, <2>2
<1>5. ASSUME NEW q \in Requirements, Requeue(q) PROVE RowStepAllowed(r)
  BY <1>0, <1>same, <1>5, RequeueAllowed DEF Requeue, RowStepAllowed
<1>6. ASSUME NEW q \in Requirements, LeaseExpires(q) PROVE RowStepAllowed(r)
  BY <1>0, <1>same, <1>touch, <1>6 DEF LeaseExpires
<1>7. ASSUME NEW s \in Sessions, NEW t \in Tags, NEW q \in Requirements, RecoverActiveClaim(s, t, q)
      PROVE  RowStepAllowed(r)
  BY <1>0, <1>same, <1>touch, <1>7 DEF RecoverActiveClaim, Recoverable, ActiveClaims
<1>8. ASSUME NEW s \in Sessions, NEW t \in Tags, NEW q \in Requirements, ClaimPending(s, t, q)
      PROVE  RowStepAllowed(r)
  <2>1. CASE q = r
    BY <1>0, <1>8, <2>1, ClaimAllowed DEF ClaimPending, FirstClaimable, Claimable, RowStepAllowed
  <2>2. CASE q # r
    BY <1>0, <1>same, <1>8, <2>2 DEF ClaimPending
  <2> QED
    BY <2>1, <2>2
<1>9. ASSUME NEW c \in Issued, RenewLease(c) PROVE RowStepAllowed(r)
  BY <1>0, <1>same, <1>touch, <1>9, IssuedClaim DEF RenewLease, ExactClaim
<1>10. ASSUME NEW c \in Issued, NEW v \in Verdicts, ResolveClaim(c, v) PROVE RowStepAllowed(r)
  <2>1. CASE c.req = r /\ v = "needs_review"
    BY <1>0, <1>10, <2>1, ParkAllowed DEF ResolveClaim, ExactClaim, RowStepAllowed
  <2>2. CASE c.req = r /\ v # "needs_review"
    <3>1. row'[r] = [row[r] EXCEPT !.status = v] /\ row[r].status = "in_progress"
      BY <1>0, <1>10, <2>2 DEF ResolveClaim, ExactClaim
    <3>2. row'[r] \in Rows /\ row'[r].status = v /\ row'[r].owner = row[r].owner
          /\ row'[r].gen = row[r].gen /\ row'[r].token = row[r].token
          /\ row'[r].attempts = row[r].attempts
      BY <1>0, <3>1 DEF Rows, Verdicts, Statuses
    <3> QED
      BY <1>0, <3>1, <3>2, VerdictAllowed DEF RowStepAllowed
  <2>3. CASE c.req # r
    BY <1>0, <1>same, <1>10, <2>3, IssuedClaim DEF ResolveClaim
  <2> QED
    BY <2>1, <2>2, <2>3
<1>11. ASSUME NEW c \in Issued, AbandonClaim(c) PROVE RowStepAllowed(r)
  <2>1. CASE c.req = r
    <3>1. row[r].status = "in_progress" /\ row[r].gen = c.gen /\ claims[r][c.gen].exec = "absent"
      BY <1>11, <2>1 DEF AbandonClaim, AbandonGuard, ExactClaim
    <3>2. claims'[r][c.gen].voided
      BY <1>0, <1>11, <2>1, IssuedClaim DEF AbandonClaim, QueueInv, TypeOK, ClaimRecords
    <3>3. row'[r] = Refunded(Requeued(row[r]))
      BY <1>0, <1>11, <2>1 DEF AbandonClaim
    <3> QED
      BY <1>0, <3>1, <3>2, <3>3, AbandonAllowed DEF RowStepAllowed
  <2>2. CASE c.req # r
    BY <1>0, <1>same, <1>11, <2>2, IssuedClaim DEF AbandonClaim
  <2> QED
    BY <2>1, <2>2
<1>12. ASSUME NEW s \in Sessions, DetachOwner(s) PROVE RowStepAllowed(r)
  BY <1>0, <1>same, <1>12, ParkAllowed DEF DetachOwner, ActiveClaims, RowStepAllowed
<1>13. ASSUME NEW active \in SUBSET Sessions, SweepExpiredLeases(active) PROVE RowStepAllowed(r)
  BY <1>0, <1>same, <1>13, ParkAllowed DEF SweepExpiredLeases, RowStepAllowed
<1>14. ASSUME NEW t \in Tags, NEW ids \in SUBSET Requirements, ResumeTag(t, ids) PROVE RowStepAllowed(r)
  BY <1>0, <1>same, <1>14, RequeueAllowed DEF ResumeTag, RowStepAllowed
<1>15. ASSUME NEW t \in Tags, ResumeTagForEnable(t) PROVE RowStepAllowed(r)
  <2>1. CASE row[r].tag = t /\ row[r].status \in {"failed", "pending"}
    BY <1>0, <1>15, <2>1, RequeueAllowed DEF ResumeTagForEnable, RowStepAllowed
  <2>2. CASE row[r].tag = t /\ row[r].status = "in_progress"
    BY <1>0, <1>15, <2>2, ParkAllowed DEF ResumeTagForEnable, RowStepAllowed
  <2>3. CASE ~(row[r].tag = t /\ row[r].status \in {"failed", "pending", "in_progress"})
    BY <1>same, <1>15, <2>3 DEF ResumeTagForEnable
  <2> QED
    BY <2>1, <2>2, <2>3
<1>16. CASE RowCommand
  BY <1>16, <1>1, <1>2, <1>3, <1>4, <1>5, <1>6 DEF RowCommand
<1>17. CASE ClaimCommand
  <2>1. ASSUME NEW c \in Issued, AbandonAborted(c) PROVE RowStepAllowed(r)
    BY <2>1, <1>same DEF AbandonAborted, qvars
  <2> QED
    BY <1>17, <1>7, <1>8, <1>9, <1>10, <1>11, <1>12, <1>13, <2>1 DEF ClaimCommand
<1>18. CASE TagCommand
  BY <1>18, <1>14, <1>15, <1>same DEF TagCommand, PauseTag
<1>19. CASE ExecutionStep
  BY <1>19, <1>same DEF ExecutionStep, AdmitExecution, AdmitAttempt, SettleExecution,
                        CancelExecution, RetireSession
<1> QED
  BY <1>16, <1>17, <1>18, <1>19 DEF Next

\* The schema's update triggers are a second line of defence: no update that a
\* statement of the repository makes runs into one of them.  The release of an
\* admitted claim is aborted before it updates anything.
THEOREM UpdatesAreLawful == Spec => UpdatesPassTriggers
<1>1. QueueInv /\ [Next]_qvars =>
        [\A r \in Requirements :
            (Exists(r) /\ Exists(r)') => TriggersAllow(r, row[r], row[r]')]_qvars
  BY StepAllowed DEF RowStepAllowed
<1> QED
  BY <1>1, QueueInvariant, PTL DEF Spec, UpdatesPassTriggers

-----------------------------------------------------------------------------
\* The claims of a row that were given back, and its retry budget.
GivenBack(w, k) == {g \in Generations : k[g].voided /\ g <= w.gen}
Budget(w, k) == w.attempts + Cardinality(GivenBack(w, k)) <= w.gen

\* The claims given back are finitely many.
LEMMA GivenBackFinite ==
    ASSUME NEW w \in Rows, NEW k
    PROVE  IsFiniteSet(GivenBack(w, k)) /\ Cardinality(GivenBack(w, k)) \in Nat
<1>1. IsFiniteSet(Generations)
  BY FS_Interval, QueueAssumption DEF Generations
<1>2. GivenBack(w, k) \subseteq Generations
  BY DEF GivenBack
<1> QED
  BY <1>1, <1>2, FS_Subset, FS_CardinalityType

\* A row that keeps its generation and its claims and is charged nothing.
LEMMA UnchargedBudget ==
    ASSUME NEW w \in Rows, NEW x \in Rows, NEW k, NEW j, Budget(w, k),
           x.gen = w.gen, x.attempts <= w.attempts,
           \A g \in Generations : j[g].voided <=> k[g].voided
    PROVE  Budget(x, j)
<1>1. GivenBack(x, j) = GivenBack(w, k)
  BY DEF GivenBack
<1> QED
  BY <1>1, GivenBackFinite DEF Budget, Rows

\* A row without claims has no charge.
LEMMA BlankBudget ==
    ASSUME NEW x \in Rows, NEW k, x.gen = 0, x.attempts = 0
    PROVE  Budget(x, k)
<1>1. GivenBack(x, k) = {}
  BY QueueAssumption DEF GivenBack, Generations
<1> QED
  BY <1>1, FS_EmptySet DEF Budget

\* A new claim is charged and its generation is not among those given back.
LEMMA ChargedBudget ==
    ASSUME NEW w \in Rows, NEW x \in Rows, NEW k, NEW j, Budget(w, k),
           x.gen = w.gen + 1, x.attempts = w.attempts + 1,
           \A g \in Generations : j[g].voided <=> k[g].voided,
           x.gen \in Generations => ~k[x.gen].voided
    PROVE  Budget(x, j)
<1>1. GivenBack(x, j) = GivenBack(w, k)
  BY DEF GivenBack, Rows, Generations
<1> QED
  BY <1>1, GivenBackFinite DEF Budget, Rows

\* An abandoned claim is given back once and its charge with it.
LEMMA RefundedBudget ==
    ASSUME NEW w \in Rows, NEW x \in Rows, NEW k, NEW j, Budget(w, k),
           w.gen \in Generations, ~k[w.gen].voided, w.attempts > 0,
           x.gen = w.gen, x.attempts = w.attempts - 1, j[w.gen].voided,
           \A g \in Generations \ {w.gen} : j[g].voided <=> k[g].voided
    PROVE  Budget(x, j)
<1>1. GivenBack(x, j) = GivenBack(w, k) \cup {w.gen} /\ w.gen \notin GivenBack(w, k)
  BY DEF GivenBack, Rows, Generations
<1>2. Cardinality(GivenBack(x, j)) = Cardinality(GivenBack(w, k)) + 1
  <2>1. IsFiniteSet(GivenBack(w, k))
    BY GivenBackFinite
  <2>2. Cardinality(GivenBack(w, k) \cup {w.gen}) = Cardinality(GivenBack(w, k)) + 1
    BY <1>1, <2>1, FS_AddElement
  <2> QED
    BY <1>1, <2>2
<1> QED
  BY <1>2, GivenBackFinite DEF Budget, Rows

\* No step charges a row more than its claims that were not given back.
LEMMA StepBudget ==
    ASSUME QueueInv, QueueInv', Next, NEW r \in Requirements, Budget(row[r], claims[r])
    PROVE  Budget(row'[r], claims'[r])
<1> DEFINE Goal == Budget(row'[r], claims'[r])
           SameVoids == \A g \in Generations : claims'[r][g].voided <=> claims[r][g].voided
<1>0. /\ row \in [Requirements -> Rows] /\ row[r] \in Rows /\ row'[r] \in Rows
      /\ claims \in [Requirements -> ClaimTables] /\ claims[r] \in ClaimTables
      /\ RowLedger(row[r], claims[r], runs[r])
  BY RowByRow DEF RowInOrder, QueueInv, TypeOK, ClaimTables
<1>keep. ASSUME SameVoids, row'[r].gen = row[r].gen, row'[r].attempts <= row[r].attempts
         PROVE  Goal
  BY <1>0, <1>keep, UnchargedBudget
<1>shape. ASSUME NEW w \in Rows
          PROVE  /\ Parked(w).gen = w.gen /\ Parked(w).attempts = w.attempts
                 /\ Requeued(w).gen = w.gen /\ Requeued(w).attempts = w.attempts
                 /\ FreshBudget(Requeued(w)).gen = w.gen
                 /\ FreshBudget(Requeued(w)).attempts = 0
                 /\ w.attempts <= w.attempts /\ 0 <= w.attempts
  BY DEF Parked, Requeued, FreshBudget, Rows
<1>parts. ASSUME NEW w \in Rows, claims' = claims,
                 \/ row'[r] = w /\ w = row[r]
                 \/ row'[r] = Parked(row[r]) \/ row'[r] = Requeued(row[r])
                 \/ row'[r] = FreshBudget(Requeued(row[r]))
          PROVE  Goal
  BY <1>0, <1>keep, <1>shape, <1>parts
<1>1. ASSUME NEW q \in Requirements, NEW t \in Tags, NEW d \in SortKeys,
             NEW v \in Statuses \ {"in_progress"}, Create(q, t, d, v)
      PROVE  Goal
  <2>1. CASE q = r
    <3>1. row'[r].gen = 0 /\ row'[r].attempts = 0
      BY <1>0, <1>1, <2>1 DEF Create, BlankRow
    <3> QED
      BY <1>0, <3>1, BlankBudget
  <2>2. CASE q # r
    BY <1>0, <1>parts, <1>1, <2>2 DEF Create
  <2> QED
    BY <2>1, <2>2
<1>2. ASSUME NEW q \in Requirements, NEW t \in Tags, NEW d \in SortKeys, UpdateMetadata(q, t, d)
      PROVE  Goal
  <2>1. row'[r].gen = row[r].gen /\ row'[r].attempts = row[r].attempts /\ claims' = claims
    BY <1>0, <1>2 DEF UpdateMetadata, Rows
  <2> QED
    BY <1>0, <1>keep, <1>shape, <2>1
<1>3. ASSUME NEW q \in Requirements, Delete(q) PROVE Goal
  <2>1. CASE q = r /\ row[r].status # "in_progress"
    <3>1. row'[r].gen = 0 /\ row'[r].attempts = 0
      BY <1>0, <1>3, <2>1 DEF Delete, BlankRow
    <3> QED
      BY <1>0, <3>1, BlankBudget
  <2>2. CASE ~(q = r /\ row[r].status # "in_progress")
    BY <1>0, <1>parts, <1>3, <2>2 DEF Delete
  <2> QED
    BY <2>1, <2>2
<1>4. ASSUME NEW q \in Requirements, NEW v \in Verdicts, TransitionStatus(q, v) PROVE Goal
  <2>1. row'[r].gen = row[r].gen /\ row'[r].attempts = row[r].attempts /\ claims' = claims
    BY <1>0, <1>4 DEF TransitionStatus, Rows
  <2> QED
    BY <1>0, <1>keep, <1>shape, <2>1
<1>5. ASSUME NEW q \in Requirements, Requeue(q) PROVE Goal
  BY <1>0, <1>parts, <1>5 DEF Requeue
<1>6. ASSUME NEW q \in Requirements, NEW l \in {"live", "expired"},
             row' = [row EXCEPT ![q].lease = l], claims' = claims
      PROVE  Goal
  <2>1. row'[r].gen = row[r].gen /\ row'[r].attempts = row[r].attempts
    BY <1>0, <1>6 DEF Rows
  <2> QED
    BY <1>0, <1>keep, <1>shape, <1>6, <2>1
<1>7. ASSUME NEW s \in Sessions, NEW t \in Tags, NEW q \in Requirements, RecoverActiveClaim(s, t, q)
      PROVE  Goal
  BY <1>6, <1>7 DEF RecoverActiveClaim
<1>8. ASSUME NEW s \in Sessions, NEW t \in Tags, NEW q \in Requirements, ClaimPending(s, t, q)
      PROVE  Goal
  <2>1. CASE q = r
    <3>1. /\ row[r].status = "pending" /\ row[r].gen \in Nat /\ row[r].attempts \in Nat
          /\ row'[r].gen = row[r].gen + 1 /\ row'[r].attempts = row[r].attempts + 1
      BY <1>0, <1>8, <2>1 DEF ClaimPending, FirstClaimable, Claimable, Claimed, Rows
    <3>2. row'[r].gen \in Generations => claims[r][row'[r].gen] = Unclaimed
      BY <1>0, <3>1 DEF RowLedger, UnusedAhead, Generations
    <3>3. SameVoids
      BY <1>0, <1>8, <2>1 DEF ClaimPending, ClaimTables, ClaimRecords
    <3> QED
      BY <1>0, <3>1, <3>2, <3>3, ChargedBudget DEF Unclaimed
  <2>2. CASE q # r
    <3>1. row'[r] = row[r] /\ claims'[r] = claims[r]
      BY <1>0, <1>8, <2>2 DEF ClaimPending
    <3> QED
      BY <1>0, <1>keep, <1>shape, <3>1
  <2> QED
    BY <2>1, <2>2
<1>9. ASSUME NEW c \in Issued, RenewLease(c) PROVE Goal
  BY <1>6, <1>9, IssuedClaim DEF RenewLease
<1>10. ASSUME NEW c \in Issued, NEW v \in Verdicts, ResolveClaim(c, v) PROVE Goal
  <2>1. CASE c.req = r /\ v # "needs_review"
    <3>1. row'[r].gen = row[r].gen /\ row'[r].attempts = row[r].attempts /\ claims' = claims
      BY <1>0, <1>10, <2>1 DEF ResolveClaim, Rows
    <3> QED
      BY <1>0, <1>keep, <1>shape, <3>1
  <2>2. CASE ~(c.req = r /\ v # "needs_review")
    BY <1>0, <1>parts, <1>10, <2>2, IssuedClaim DEF ResolveClaim
  <2> QED
    BY <2>1, <2>2
<1>11. ASSUME NEW c \in Issued, AbandonClaim(c) PROVE Goal
  <2>0. c.req \in Requirements /\ c.gen \in Generations
    BY IssuedClaim
  <2>1. CASE c.req = r
    <3>1. row[r].status = "in_progress" /\ row[r].gen = c.gen /\ row[r].attempts > 0
          /\ row[r].token # 0
      BY <1>0, <1>11, <2>1 DEF AbandonClaim, ExactClaim, RowLedger, ActiveRow, Rows
    <3>2. ~claims[r][c.gen].voided
      BY <1>0, <2>0, <3>1 DEF RowLedger, AbandonedBehind, Rows, Generations
    <3>3. /\ claims'[r][c.gen].voided
          /\ \A g \in Generations \ {c.gen} : claims'[r][g].voided <=> claims[r][g].voided
      BY <1>0, <1>11, <2>0, <2>1 DEF AbandonClaim, ClaimTables, ClaimRecords
    <3>4. row'[r] = Refunded(Requeued(row[r]))
      BY <1>0, <1>11, <2>1 DEF AbandonClaim
    <3>5. row'[r].gen = row[r].gen /\ row'[r].attempts = row[r].attempts - 1
      BY <1>0, <3>1, <3>4 DEF Refunded, Requeued, Rows
    <3> QED
      BY <1>0, <2>0, <3>1, <3>2, <3>3, <3>5, RefundedBudget
  <2>2. CASE c.req # r
    <3>1. row'[r] = row[r] /\ claims'[r] = claims[r]
      BY <1>0, <1>11, <2>0, <2>2 DEF AbandonClaim
    <3> QED
      BY <1>0, <1>keep, <1>shape, <3>1
  <2> QED
    BY <2>1, <2>2
<1>12. ASSUME NEW s \in Sessions, DetachOwner(s) PROVE Goal
  BY <1>0, <1>parts, <1>12 DEF DetachOwner
<1>13. ASSUME NEW active \in SUBSET Sessions, SweepExpiredLeases(active) PROVE Goal
  BY <1>0, <1>parts, <1>13 DEF SweepExpiredLeases
<1>14. ASSUME NEW t \in Tags, NEW ids \in SUBSET Requirements, ResumeTag(t, ids) PROVE Goal
  BY <1>0, <1>parts, <1>14 DEF ResumeTag
<1>15. ASSUME NEW t \in Tags, ResumeTagForEnable(t) PROVE Goal
  <2>1. \/ row'[r] = row[r] \/ row'[r] = Parked(row[r])
        \/ row'[r] = FreshBudget(Requeued(row[r]))
    BY <1>15 DEF ResumeTagForEnable
  <2> QED
    BY <1>0, <1>parts, <1>15, <2>1 DEF ResumeTagForEnable
<1>16. ASSUME NEW q \in Requirements, NEW g \in Generations, NEW y,
              \/ claims' = [claims EXCEPT ![q][g].exec = y]
              \/ claims' = [claims EXCEPT ![q][g].attempts = y],
              row' = row
       PROVE  Goal
  <2>1. SameVoids
    <3>1. CASE claims' = [claims EXCEPT ![q][g].exec = y]
      BY <1>0, <3>1 DEF ClaimTables, ClaimRecords
    <3>2. CASE claims' = [claims EXCEPT ![q][g].attempts = y]
      BY <1>0, <3>2 DEF ClaimTables, ClaimRecords
    <3> QED
      BY <1>16, <3>1, <3>2
  <2> QED
    BY <1>0, <1>keep, <1>shape, <1>16, <2>1
<1>execution. ASSUME NEW c \in Issued,
                 \/ AdmitExecution(c) \/ AdmitAttempt(c) \/ CancelExecution(c)
                 \/ \E o \in Outcomes : SettleExecution(c, o)
              PROVE  Goal
  <2>1. c.req \in Requirements /\ c.gen \in Generations
    BY IssuedClaim
  <2>2. CASE AdmitExecution(c)
    BY <1>16, <2>1, <2>2 DEF AdmitExecution
  <2>3. CASE AdmitAttempt(c)
    <3> DEFINE y == claims[c.req][c.gen].attempts + 1
    <3>1. claims' = [claims EXCEPT ![c.req][c.gen].attempts = y] /\ row' = row
      BY <2>3 DEF AdmitAttempt
    <3> HIDE DEF y
    <3> QED
      BY <1>16, <2>1, <3>1
  <2>4. CASE CancelExecution(c)
    BY <1>16, <2>1, <2>4 DEF CancelExecution
  <2>5. CASE \E o \in Outcomes : SettleExecution(c, o)
    BY <1>16, <2>1, <2>5 DEF SettleExecution
  <2> QED
    BY <2>2, <2>3, <2>4, <2>5, <1>execution
<1>17. CASE RowCommand
  BY <1>17, <1>1, <1>2, <1>3, <1>4, <1>5, <1>6 DEF RowCommand, LeaseExpires
<1>18. CASE ClaimCommand
  <2>1. ASSUME NEW c \in Issued, AbandonAborted(c) PROVE Goal
    <3>1. row'[r] = row[r] /\ claims'[r] = claims[r]
      BY <2>1 DEF AbandonAborted, qvars
    <3> QED
      BY <1>0, <1>keep, <1>shape, <3>1
  <2> QED
    BY <1>18, <1>7, <1>8, <1>9, <1>10, <1>11, <1>12, <1>13, <2>1 DEF ClaimCommand
<1>19. CASE TagCommand
  BY <1>19, <1>0, <1>14, <1>15, <1>parts DEF TagCommand, PauseTag
<1>20. CASE ExecutionStep
  BY <1>20, <1>0, <1>execution, <1>parts DEF ExecutionStep, RetireSession
<1> QED
  BY <1>17, <1>18, <1>19, <1>20 DEF Next

\* The retry budget of a requirement is charged only for claims that were not
\* given back.
THEOREM BudgetKept == Spec => []AttemptBudget
<1> DEFINE Kept == \A r \in Requirements : Budget(row[r], claims[r])
<1>1. Init => Kept
  <2> SUFFICES ASSUME Init, NEW r \in Requirements PROVE Budget(row[r], claims[r])
    OBVIOUS
  <2>1. row[r] = BlankRow /\ BlankRow \in Rows /\ BlankRow.gen = 0 /\ BlankRow.attempts = 0
    BY RowShapes DEF Init, BlankRow
  <2> QED
    BY <2>1, BlankBudget
<1>2. QueueInv /\ QueueInv' /\ Kept /\ [Next]_qvars => Kept'
  <2> SUFFICES ASSUME QueueInv, QueueInv', Kept, [Next]_qvars, NEW r \in Requirements
               PROVE  Budget(row'[r], claims'[r])
    OBVIOUS
  <2> QED
    BY StepBudget DEF qvars
<1>3. Kept => AttemptBudget
  BY DEF AttemptBudget, Budget, GivenBack
<1> QED
  BY <1>1, <1>2, <1>3, QueueInvariant, PTL DEF Spec

=============================================================================

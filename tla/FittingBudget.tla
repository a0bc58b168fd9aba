---------------------------- MODULE FittingBudget ----------------------------
(***************************************************************************)
(* The daily spending limit: the row of one day (usage_repository.py), the *)
(* check before a generation and its reconciliation with what Runware      *)
(* lists (budget.py), the synchronous fitting that checks, generates and   *)
(* records (service.py), and the asynchronous generations, whose cost any  *)
(* number of reports record (TaskCostRepository).                          *)
(*                                                                         *)
(* Each generation costs 1.  The day does not change.                      *)
(***************************************************************************)
EXTENDS Naturals, FiniteSets

CONSTANTS
    Fit,         \* synchronous fittings
    Task,        \* asynchronous generations: Pruna attempts and fallbacks
    MaxRunning,  \* VTON places
    DailyLimit,  \* daily_limit
    Legacy       \* legacy_amount of the day

BudgetAssumption ==
    /\ IsFiniteSet(Fit \cup Task) /\ Fit \cap Task = {}
    /\ MaxRunning \in Nat \ {0}
    /\ DailyLimit \in Nat /\ Legacy \in Nat

VARIABLES
    recorded,    \* recorded_amount
    reconciled,  \* reconciled_amount
    amount,      \* amount
    fresh,       \* reconciled_at is within the interval
    costs,       \* virtual_fitting_task_costs: the tasks with a row
    pc,          \* where each caller of the budget is
    total,       \* what the usage query told the caller
    spent,       \* what was really spent at Runware
    listed       \* what the usage query tells, later than it was spent

row == <<recorded, reconciled, amount, fresh>>

runware == <<spent, listed>>

vars == <<row, costs, pc, total, runware>>

Caller == Fit \cup Task

Pc == {"new", "look", "ask", "reconcile", "generate", "record", "recorded",
       "sent", "over"}

MaxSpent == Legacy + Cardinality(Caller)

TypeOK ==
    /\ {recorded, reconciled, amount, spent, listed} \subseteq 0..MaxSpent
    /\ fresh \in BOOLEAN /\ costs \in SUBSET Task
    /\ pc \in [Caller -> Pc]
    /\ total \in [Caller -> 0..MaxSpent]

\* What was spent before the columns were split is the legacy amount.
Init ==
    /\ recorded = 0 /\ reconciled = 0 /\ amount = Legacy /\ fresh = FALSE
    /\ costs = {}
    /\ pc = [c \in Caller |-> "new"] /\ total = [c \in Caller |-> 0]
    /\ spent = Legacy /\ listed = 0

Greatest(S) == CHOOSE x \in S : \A y \in S : y <= x

Go(c, to) == pc' = [pc EXCEPT ![c] = to]

-----------------------------------------------------------------------------
(* usage_repository.py *)

Effective == Greatest({amount, Legacy + recorded, reconciled})

\* ADD_SQL: one cost.
\* Mutant: the cost is added to the amount itself, as it was before the split.
Add_ToAmount ==
    /\ recorded' = recorded + 1
    /\ amount' = amount + 1
    /\ UNCHANGED <<reconciled, fresh>>

Add ==
    /\ recorded' = recorded + 1
    /\ amount' = Greatest({amount, Legacy + recorded + 1, reconciled})
    /\ UNCHANGED <<reconciled, fresh>>

\* RECONCILE_SQL with what the query told, which may be an old total.
\* Mutant: the latest total replaces the one before.
Reconcile_Latest(t) ==
    /\ reconciled' = t
    /\ amount' = Greatest({Legacy + recorded, t})
    /\ fresh' = TRUE
    /\ UNCHANGED recorded

Reconcile(t) ==
    /\ reconciled' = Greatest({reconciled, t})
    /\ amount' = Greatest({amount, Legacy + recorded, reconciled, t})
    /\ fresh' = TRUE
    /\ UNCHANGED recorded

-----------------------------------------------------------------------------
(* budget.py and its callers. *)

InSlot == {f \in Fit : pc[f] \in {"look", "ask", "reconcile", "generate"}}

\* A synchronous fitting enters its VTON place first.
Begin(c) ==
    /\ pc[c] = "new"
    /\ c \in Fit => Cardinality(InSlot) < MaxRunning
    /\ Go(c, "look")
    /\ UNCHANGED <<row, costs, total, runware>>

Decision(a) == IF a >= DailyLimit THEN "over" ELSE "generate"

\* ensure_available: the row; a reconciliation that is too old is made first.
Look(c) ==
    /\ pc[c] = "look"
    /\ Go(c, IF fresh THEN Decision(Effective) ELSE "ask")
    /\ UNCHANGED <<row, costs, total, runware>>

\* The usage query; when it fails, so does the request.
Ask(c) ==
    /\ pc[c] = "ask"
    /\ \/ Go(c, "reconcile") /\ total' = [total EXCEPT ![c] = listed]
       \/ Go(c, "over") /\ UNCHANGED total
    /\ UNCHANGED <<row, costs, runware>>

ReconcileAndDecide(c) ==
    /\ pc[c] = "reconcile"
    /\ Reconcile(total[c])
    /\ Go(c, Decision(amount'))
    /\ UNCHANGED <<costs, total, runware>>

\* The generation.  A synchronous one ends with a cost, or with an error or no
\* cost although it may have been spent; the cost of an asynchronous one comes
\* with its reports.
Generate(c) ==
    /\ pc[c] = "generate"
    /\ \/ spent' = spent + 1 /\ Go(c, IF c \in Fit THEN "record" ELSE "sent")
       \/ spent' \in {spent, spent + 1} /\ Go(c, "over")
    /\ UNCHANGED <<row, costs, total, listed>>

\* FittingBudget.record, after the VTON place was given back.
RecordFit(f) ==
    /\ f \in Fit /\ pc[f] = "record"
    /\ \/ Add /\ Go(f, "recorded")
       \/ Go(f, "over") /\ UNCHANGED row
    /\ UNCHANGED <<costs, total, runware>>

\* TaskCostRepository.record, for every report that names a cost: the row of
\* the task and the sum in one transaction.
RecordTask(t) ==
    /\ t \in Task /\ pc[t] = "sent"
    /\ t \notin costs
    /\ Add /\ costs' = costs \cup {t}
    /\ UNCHANGED <<pc, total, runware>>

\* Runware lists what was spent some time later.
RunwareLists ==
    /\ listed < spent
    /\ listed' \in (listed + 1)..spent
    /\ UNCHANGED <<row, costs, pc, total, spent>>

IntervalPasses ==
    /\ fresh /\ fresh' = FALSE
    /\ UNCHANGED <<recorded, reconciled, amount, costs, pc, total, runware>>

Next ==
    \/ \E c \in Caller :
         \/ Begin(c) \/ Look(c) \/ Ask(c) \/ ReconcileAndDecide(c)
         \/ Generate(c) \/ RecordFit(c) \/ RecordTask(c)
    \/ RunwareLists
    \/ IntervalPasses

Spec == Init /\ [][Next]_vars

-----------------------------------------------------------------------------
(* Properties. *)

\* Every cost that was reported is in the sum once, however often and in
\* whatever order it was reported.
CostsAddedOnce ==
    recorded = Cardinality(costs) + Cardinality({f \in Fit : pc[f] = "recorded"})

\* The limit is never applied to more than was spent, when the legacy amount
\* was right: a cost that is recorded after a total that already contains it
\* is not counted twice, in whatever order the two arrive.
NeverOvercounts == amount <= spent

\* The stored amount, on which the caller that reconciles decides, is the one
\* every other caller computes when it reads the row.
AmountIsEffective == amount = Effective

\* What the row may still add was spent and not yet counted, and what the
\* usage query told is not more than was spent.
Owed ==
    {f \in Fit : pc[f] = "record"} \cup {t \in Task \ costs : pc[t] = "sent"}

SumIsSpent ==
    /\ Legacy + recorded + Cardinality(Owed) <= spent
    /\ reconciled <= listed /\ listed <= spent
    /\ \A c \in Caller : total[c] <= listed

\* Every caller spends once.
ToSpend == {c \in Caller : pc[c] \in {"new", "look", "ask", "reconcile", "generate"}}

SpentIsBounded == spent + Cardinality(ToSpend) <= MaxSpent

\* Every cost counts once, and the amount is what is known and no more; with
\* what these rest on.
BudgetInvariant ==
    /\ TypeOK /\ CostsAddedOnce /\ NeverOvercounts /\ AmountIsEffective
    /\ SumIsSpent /\ SpentIsBounded

\* What was known to be spent is never forgotten by a total that arrives late.
NothingForgotten == [][amount' >= amount /\ reconciled' >= reconciled]_vars
=============================================================================

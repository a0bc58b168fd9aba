------------------------- MODULE RequestParts_proofs --------------------------
(***************************************************************************)
(* Proofs about the parts of StandaloneParts that requests go through: the *)
(* three limiters one server process keeps in memory, the daily budget, and*)
(* the readers of what other services answer; for any number of requests   *)
(* and places, every limit and every answer.                               *)
(***************************************************************************)
EXTENDS StandaloneParts, Sequences, FiniteSetTheorems, QueueLemmas, TLAPS

-----------------------------------------------------------------------------
(* The daily budget (FittingBudget).                                       *)

LEMMA BudgetStep == [Next]_vars => [Budget!Next]_(Budget!vars)
BY DEF Next, OthersRest, vars, budget, Budget!vars, Budget!row, Budget!runware

\* FittingBudget counts with its own instance of FiniteSets.
LEMMA BudgetCounts ==
    /\ \A S : Budget!IsFiniteSet(S) <=> IsFiniteSet(S)
    /\ \A S : Budget!Cardinality(S) = Cardinality(S)
<1>1. \A S : Budget!IsFiniteSet(S) <=> IsFiniteSet(S)
  BY DEF Budget!IsFiniteSet, IsFiniteSet
<1>2. \A S : Budget!Cardinality(S) = Cardinality(S)
  BY DEF Budget!Cardinality, Cardinality
<1> QED
  BY <1>1, <1>2

LEMMA GreatestOfThree ==
    ASSUME NEW a \in Nat, NEW b \in Nat, NEW c \in Nat
    PROVE  LET g == Budget!Greatest({a, b, c}) IN
             g \in {a, b, c} /\ a <= g /\ b <= g /\ c <= g
<1>1. \E x \in {a, b, c} : \A y \in {a, b, c} : y <= x
  <2>1. CASE b <= a /\ c <= a
    BY <2>1
  <2>2. CASE a <= b /\ c <= b
    BY <2>2
  <2>3. CASE a <= c /\ b <= c
    BY <2>3
  <2> QED
    BY <2>1, <2>2, <2>3
<1> DEFINE g == CHOOSE x \in {a, b, c} : \A y \in {a, b, c} : y <= x
<1>2. g \in {a, b, c} /\ \A y \in {a, b, c} : y <= g
  BY <1>1
<1>3. Budget!Greatest({a, b, c}) = g
  BY DEF Budget!Greatest
<1> HIDE DEF g
<1> QED
  BY <1>2, <1>3

LEMMA GreatestOfFour ==
    ASSUME NEW a \in Nat, NEW b \in Nat, NEW c \in Nat, NEW d \in Nat
    PROVE  LET g == Budget!Greatest({a, b, c, d}) IN
             g \in {a, b, c, d} /\ a <= g /\ b <= g /\ c <= g /\ d <= g
<1>1. \E x \in {a, b, c, d} : \A y \in {a, b, c, d} : y <= x
  <2>1. CASE b <= a /\ c <= a /\ d <= a
    BY <2>1
  <2>2. CASE a <= b /\ c <= b /\ d <= b
    BY <2>2
  <2>3. CASE a <= c /\ b <= c /\ d <= c
    BY <2>3
  <2>4. CASE a <= d /\ b <= d /\ c <= d
    BY <2>4
  <2> QED
    BY <2>1, <2>2, <2>3, <2>4
<1> DEFINE g == CHOOSE x \in {a, b, c, d} : \A y \in {a, b, c, d} : y <= x
<1>2. g \in {a, b, c, d} /\ \A y \in {a, b, c, d} : y <= g
  BY <1>1
<1>3. Budget!Greatest({a, b, c, d}) = g
  BY DEF Budget!Greatest
<1> HIDE DEF g
<1> QED
  BY <1>2, <1>3

\* The amounts as numbers, and the amount as the greatest of what is known.
LEMMA BudgetNumbers ==
    ASSUME Budget!BudgetInvariant
    PROVE  /\ {recorded, reconciled, amount, spent, listed, Legacy} \subseteq Nat
           /\ \A c \in Budget!Caller : total[c] \in Nat
           /\ Legacy + recorded <= amount /\ reconciled <= amount
           /\ IsFiniteSet(Budget!Caller) /\ Budget!MaxSpent \in Nat
<1>1. IsFiniteSet(Budget!Caller) /\ Legacy \in Nat
  BY OtherAssumption, BudgetCounts DEF Budget!BudgetAssumption, Budget!Caller
<1>2. Budget!MaxSpent \in Nat
  BY <1>1, BudgetCounts, FS_CardinalityType DEF Budget!MaxSpent
<1>3. /\ {recorded, reconciled, amount, spent, listed} \subseteq Nat
      /\ \A c \in Budget!Caller : total[c] \in Nat
  BY <1>2 DEF Budget!BudgetInvariant, Budget!TypeOK
<1>4. amount = Budget!Greatest({amount, Legacy + recorded, reconciled})
  BY DEF Budget!BudgetInvariant, Budget!AmountIsEffective, Budget!Effective
<1>5. Legacy + recorded <= amount /\ reconciled <= amount
  BY <1>1, <1>3, <1>4, GreatestOfThree
<1> QED
  BY <1>1, <1>2, <1>3, <1>5

BudgetKept == Budget!BudgetInvariant' /\ amount' >= amount /\ reconciled' >= reconciled

\* Where the callers that still owe a cost, that may still spend and that
\* recorded are after c went to `to`.
LEMMA CallerMoves ==
    ASSUME Budget!BudgetInvariant, NEW c \in Budget!Caller, NEW to,
           Budget!Go(c, to)
    PROVE  /\ budgetPc'[c] = to
           /\ \A d \in Budget!Caller \ {c} : budgetPc'[d] = budgetPc[d]
           /\ to \in Budget!Pc => budgetPc' \in [Budget!Caller -> Budget!Pc]
BY DEF Budget!BudgetInvariant, Budget!TypeOK, Budget!Go

LEMMA BudgetSetsCounted ==
    ASSUME Budget!BudgetInvariant
    PROVE  /\ IsFiniteSet(Budget!Owed) /\ Cardinality(Budget!Owed) \in Nat
           /\ IsFiniteSet(Budget!ToSpend) /\ Cardinality(Budget!ToSpend) \in Nat
           /\ IsFiniteSet(costs) /\ Cardinality(costs) \in Nat
<1>1. Budget!Owed \in SUBSET Budget!Caller /\ Budget!ToSpend \in SUBSET Budget!Caller
  BY DEF Budget!Owed, Budget!ToSpend, Budget!Caller
<1>2. costs \in SUBSET Budget!Caller
  BY DEF Budget!BudgetInvariant, Budget!TypeOK, Budget!Caller
<1>3. IsFiniteSet(Budget!Caller)
  BY BudgetNumbers
<1> QED
  BY <1>1, <1>2, <1>3, SubsetCounted

RecordedFits == {f \in Fit : budgetPc[f] = "recorded"}

LEMMA FitsCounted ==
    ASSUME Budget!BudgetInvariant
    PROVE  /\ IsFiniteSet(RecordedFits) /\ Cardinality(RecordedFits) \in Nat
           /\ recorded = Cardinality(costs) + Cardinality(RecordedFits)
<1>1. RecordedFits \in SUBSET Budget!Caller /\ IsFiniteSet(Budget!Caller)
  BY BudgetNumbers DEF RecordedFits, Budget!Caller
<1> QED
  BY <1>1, SubsetCounted, BudgetCounts
     DEF RecordedFits, Budget!BudgetInvariant, Budget!CostsAddedOnce

\* A step on the way to a generation, or one that ends before it.
LEMMA BudgetWayKeeps ==
    ASSUME Budget!BudgetInvariant, NEW c \in Budget!Caller, NEW to,
           budgetPc[c] \in {"new", "look", "ask", "reconcile"},
           to \in {"look", "ask", "reconcile", "generate", "over"},
           Budget!Go(c, to), UNCHANGED <<recorded, costs, spent, listed>>,
           total' \in [Budget!Caller -> Nat],
           \A d \in Budget!Caller : total'[d] <= listed,
           reconciled' \in Nat, amount' \in Nat, fresh' \in BOOLEAN,
           reconciled <= reconciled', reconciled' <= listed,
           amount <= amount', reconciled' <= amount', amount' <= spent
    PROVE  BudgetKept
<1>1. /\ {recorded, reconciled, amount, spent, listed, Legacy} \subseteq Nat
      /\ Legacy + recorded <= amount /\ Budget!MaxSpent \in Nat
      /\ listed <= spent /\ spent <= Budget!MaxSpent
  BY BudgetNumbers DEF Budget!BudgetInvariant, Budget!SumIsSpent, Budget!TypeOK
<1>2. /\ budgetPc'[c] = to
      /\ \A d \in Budget!Caller \ {c} : budgetPc'[d] = budgetPc[d]
      /\ budgetPc' \in [Budget!Caller -> Budget!Pc]
  BY CallerMoves DEF Budget!Pc
<1>3. Budget!Owed' = Budget!Owed /\ RecordedFits' = RecordedFits
  BY <1>2 DEF Budget!Owed, RecordedFits, Budget!Caller
<1>4. Budget!ToSpend' \in SUBSET Budget!ToSpend
  BY <1>2 DEF Budget!ToSpend
<1>5. Budget!TypeOK'
  <2>1. /\ {recorded', reconciled', amount', spent', listed'} \subseteq 0..Budget!MaxSpent
        /\ total' \in [Budget!Caller -> 0..Budget!MaxSpent]
    BY <1>1
  <2> QED
    BY <1>2, <2>1 DEF Budget!TypeOK, Budget!BudgetInvariant
<1>6. Budget!CostsAddedOnce'
  BY <1>3 DEF Budget!CostsAddedOnce, Budget!BudgetInvariant, RecordedFits
<1>7. Budget!NeverOvercounts' /\ Budget!AmountIsEffective'
  <2>1. amount' = Budget!Greatest({amount', Legacy + recorded', reconciled'})
    BY <1>1, GreatestOfThree
  <2> QED
    BY <2>1 DEF Budget!NeverOvercounts, Budget!AmountIsEffective, Budget!Effective
<1>8. Budget!SumIsSpent'
  BY <1>3 DEF Budget!SumIsSpent, Budget!BudgetInvariant
<1>9. Budget!SpentIsBounded'
  <2>1. Cardinality(Budget!ToSpend') <= Cardinality(Budget!ToSpend)
        /\ Cardinality(Budget!ToSpend') \in Nat /\ Cardinality(Budget!ToSpend) \in Nat
    BY <1>4, BudgetSetsCounted, SubsetCounted
  <2>2. spent + Cardinality(Budget!ToSpend) <= Budget!MaxSpent
    BY BudgetCounts DEF Budget!SpentIsBounded, Budget!BudgetInvariant
  <2>3. spent + Cardinality(Budget!ToSpend') <= Budget!MaxSpent
    BY <1>1, <2>1, <2>2
  <2> QED
    BY <2>3, BudgetCounts DEF Budget!SpentIsBounded
<1> QED
  BY <1>1, <1>5, <1>6, <1>7, <1>8, <1>9 DEF BudgetKept, Budget!BudgetInvariant

LEMMA BudgetTypes ==
    ASSUME Budget!BudgetInvariant
    PROVE  /\ total \in [Budget!Caller -> Nat] /\ fresh \in BOOLEAN
           /\ \A c \in Budget!Caller : total[c] <= listed
           /\ amount <= spent /\ listed <= spent /\ reconciled <= listed
BY BudgetNumbers
   DEF Budget!BudgetInvariant, Budget!TypeOK, Budget!SumIsSpent, Budget!NeverOvercounts

LEMMA BudgetReadKeeps ==
    ASSUME Budget!BudgetInvariant, NEW c \in Budget!Caller,
           Budget!Begin(c) \/ Budget!Look(c) \/ Budget!Ask(c)
    PROVE  BudgetKept
<1>1. PICK to \in {"look", "ask", "reconcile", "generate", "over"} :
        budgetPc[c] \in {"new", "look", "ask", "reconcile"} /\ Budget!Go(c, to)
  BY DEF Budget!Begin, Budget!Look, Budget!Ask, Budget!Decision
<1>2. UNCHANGED <<recorded, reconciled, amount, fresh, costs, spent, listed>>
  BY DEF Budget!Begin, Budget!Look, Budget!Ask, Budget!row, Budget!runware
<1>3. total' = total \/ total' = [total EXCEPT ![c] = listed]
  BY DEF Budget!Begin, Budget!Look, Budget!Ask
<1>4. /\ {reconciled, amount, listed} \subseteq Nat /\ reconciled <= amount
  BY BudgetNumbers
<1>5. total' \in [Budget!Caller -> Nat] /\ \A d \in Budget!Caller : total'[d] <= listed
  BY <1>3, <1>4, BudgetTypes
<1> QED
  BY <1>1, <1>2, <1>4, <1>5, BudgetTypes, BudgetWayKeeps

LEMMA ReconcileKeeps ==
    ASSUME Budget!BudgetInvariant, NEW c \in Budget!Caller,
           Budget!ReconcileAndDecide(c)
    PROVE  BudgetKept
<1>1. /\ budgetPc[c] = "reconcile"
      /\ reconciled' = Budget!Greatest({reconciled, total[c]})
      /\ amount' = Budget!Greatest({amount, Legacy + recorded, reconciled, total[c]})
      /\ fresh' = TRUE /\ UNCHANGED <<recorded, costs, total, spent, listed>>
      /\ Budget!Go(c, Budget!Decision(amount'))
  BY DEF Budget!ReconcileAndDecide, Budget!Reconcile, Budget!runware
<1>2. /\ {recorded, reconciled, amount, spent, listed, Legacy, total[c]} \subseteq Nat
      /\ Legacy + recorded <= amount /\ reconciled <= amount
      /\ total[c] <= listed /\ reconciled <= listed /\ listed <= spent /\ amount <= spent
  BY BudgetNumbers, BudgetTypes
<1>3. /\ reconciled' \in {reconciled, total[c]}
      /\ reconciled <= reconciled' /\ total[c] <= reconciled'
  <2>1. {reconciled, total[c]} = {reconciled, reconciled, total[c]}
    OBVIOUS
  <2> QED
    BY <1>1, <1>2, <2>1, GreatestOfThree
<1>4. /\ amount' \in {amount, Legacy + recorded, reconciled, total[c]}
      /\ amount <= amount' /\ reconciled <= amount' /\ total[c] <= amount'
  <2>1. PICK r \in Nat : r = Legacy + recorded
    BY <1>2
  <2>2. amount' = Budget!Greatest({amount, r, reconciled, total[c]})
    BY <1>1, <2>1
  <2> QED
    BY <1>2, <2>1, <2>2, GreatestOfFour
<1>5. Budget!Decision(amount') \in {"over", "generate"}
  BY DEF Budget!Decision
<1>6. reconciled' <= amount' /\ reconciled' <= listed /\ amount' <= spent
  BY <1>2, <1>3, <1>4
<1> QED
  BY <1>1, <1>2, <1>3, <1>4, <1>5, <1>6, BudgetTypes, BudgetWayKeeps

LEMMA GenerateKeeps ==
    ASSUME Budget!BudgetInvariant, NEW c \in Budget!Caller, Budget!Generate(c)
    PROVE  BudgetKept
<1>1. PICK to \in {"record", "sent", "over"} :
        /\ budgetPc[c] = "generate" /\ Budget!Go(c, to)
        /\ spent' \in {spent, spent + 1}
        /\ to # "over" => spent' = spent + 1
        /\ UNCHANGED <<recorded, reconciled, amount, fresh, costs, total, listed>>
  BY DEF Budget!Generate, Budget!row
<1>2. /\ {recorded, reconciled, amount, spent, listed, Legacy} \subseteq Nat
      /\ IsFiniteSet(Budget!Caller) /\ Budget!MaxSpent \in Nat
  BY BudgetNumbers
<1>3. /\ budgetPc'[c] = to
      /\ \A d \in Budget!Caller \ {c} : budgetPc'[d] = budgetPc[d]
      /\ budgetPc' \in [Budget!Caller -> Budget!Pc]
  BY <1>1, CallerMoves DEF Budget!Pc
<1>4. RecordedFits' = RecordedFits
  BY <1>1, <1>3 DEF RecordedFits, Budget!Caller
<1>5. /\ Cardinality(Budget!Owed') \in Nat
      /\ spent + Cardinality(Budget!Owed') <= spent' + Cardinality(Budget!Owed)
  <2>1. CASE to = "over"
    <3>1. Budget!Owed' = Budget!Owed
      BY <1>1, <1>3, <2>1 DEF Budget!Owed, Budget!Caller
    <3> QED
      BY <1>1, <1>2, <3>1, BudgetSetsCounted
  <2>2. CASE to # "over"
    <3>1. Budget!Owed' \in SUBSET (Budget!Owed \cup {c})
      BY <1>1, <1>3 DEF Budget!Owed, Budget!Caller
    <3>2. IsFiniteSet(Budget!Owed \cup {c})
          /\ Cardinality(Budget!Owed \cup {c}) <= Cardinality(Budget!Owed) + 1
          /\ Cardinality(Budget!Owed \cup {c}) \in Nat
      BY BudgetSetsCounted, OneMore, FS_AddElement, FS_CardinalityType
    <3>3. /\ Cardinality(Budget!Owed') <= Cardinality(Budget!Owed \cup {c})
          /\ Cardinality(Budget!Owed') \in Nat
      BY <3>1, <3>2, SubsetCounted
    <3>4. spent' = spent + 1
      BY <1>1, <2>2
    <3> QED
      BY <1>2, <3>2, <3>3, <3>4, BudgetSetsCounted
  <2> QED
    BY <2>1, <2>2
<1>6. spent' + Cardinality(Budget!ToSpend') <= Budget!MaxSpent
      /\ Cardinality(Budget!ToSpend') \in Nat
  <2>1. c \in Budget!ToSpend /\ Budget!ToSpend' = Budget!ToSpend \ {c}
    BY <1>1, <1>3 DEF Budget!ToSpend
  <2>2. Cardinality(Budget!ToSpend') = Cardinality(Budget!ToSpend) - 1
    BY <2>1, OneMore, BudgetSetsCounted
  <2>3. Cardinality(Budget!ToSpend') \in Nat
    BY <2>1, BudgetSetsCounted, SubsetCounted
  <2>4. spent + Cardinality(Budget!ToSpend) <= Budget!MaxSpent
    BY BudgetCounts DEF Budget!BudgetInvariant, Budget!SpentIsBounded
  <2> QED
    BY <1>1, <1>2, <2>2, <2>3, <2>4, BudgetSetsCounted
<1>7. Legacy + recorded + Cardinality(Budget!Owed') <= spent'
  <2>1. Legacy + recorded + Cardinality(Budget!Owed) <= spent
    BY BudgetCounts DEF Budget!BudgetInvariant, Budget!SumIsSpent
  <2> QED
    BY <1>1, <1>2, <1>5, <2>1, BudgetSetsCounted
<1>8. Budget!TypeOK'
  <2>1. spent' \in 0..Budget!MaxSpent
    BY <1>1, <1>2, <1>6
  <2> QED
    BY <1>1, <1>3, <2>1 DEF Budget!BudgetInvariant, Budget!TypeOK
<1>9. Budget!CostsAddedOnce'
  BY <1>1, <1>4 DEF Budget!CostsAddedOnce, Budget!BudgetInvariant, RecordedFits
<1>10. Budget!NeverOvercounts' /\ Budget!AmountIsEffective'
  BY <1>1, <1>2, BudgetTypes
     DEF Budget!NeverOvercounts, Budget!AmountIsEffective, Budget!Effective,
         Budget!BudgetInvariant
<1>11. Budget!SumIsSpent'
  BY <1>1, <1>2, <1>7, BudgetCounts, BudgetTypes DEF Budget!SumIsSpent
<1>12. Budget!SpentIsBounded'
  BY <1>6, BudgetCounts DEF Budget!SpentIsBounded
<1> QED
  BY <1>1, <1>2, <1>8, <1>9, <1>10, <1>11, <1>12 DEF BudgetKept, Budget!BudgetInvariant

\* A cost that is recorded was owed.
LEMMA AddKeeps ==
    ASSUME Budget!BudgetInvariant, Budget!Add, NEW c,
           c \in Budget!Owed, Budget!Owed' = Budget!Owed \ {c},
           costs' \in SUBSET Task, budgetPc' \in [Budget!Caller -> Budget!Pc],
           Budget!ToSpend' = Budget!ToSpend,
           Cardinality(costs') + Cardinality(RecordedFits')
             = Cardinality(costs) + Cardinality(RecordedFits) + 1,
           UNCHANGED <<total, spent, listed>>
    PROVE  BudgetKept
<1>1. /\ recorded' = recorded + 1
      /\ amount' = Budget!Greatest({amount, Legacy + recorded + 1, reconciled})
      /\ UNCHANGED <<reconciled, fresh>>
  BY DEF Budget!Add
<1>2. /\ {recorded, reconciled, amount, spent, listed, Legacy} \subseteq Nat
      /\ Budget!MaxSpent \in Nat /\ reconciled <= listed /\ listed <= spent
      /\ amount <= spent /\ reconciled <= amount /\ spent <= Budget!MaxSpent
  BY BudgetNumbers, BudgetTypes DEF Budget!BudgetInvariant, Budget!TypeOK
<1>3. /\ amount' \in {amount, Legacy + recorded + 1, reconciled}
      /\ amount <= amount' /\ Legacy + recorded + 1 <= amount'
      /\ reconciled <= amount'
  BY <1>1, <1>2, GreatestOfThree
<1>4. /\ Cardinality(Budget!Owed') = Cardinality(Budget!Owed) - 1
      /\ Cardinality(Budget!Owed') \in Nat
  BY OneMore, BudgetSetsCounted, SubsetCounted
<1>5. Legacy + recorded + Cardinality(Budget!Owed) <= spent
  BY BudgetCounts DEF Budget!BudgetInvariant, Budget!SumIsSpent
<1>6. /\ Legacy + recorded' + Cardinality(Budget!Owed') <= spent
      /\ Legacy + recorded + 1 <= spent
  BY <1>1, <1>2, <1>4, <1>5, BudgetSetsCounted
<1>7. amount' <= spent /\ amount' \in Nat
  BY <1>2, <1>3, <1>6
<1>8. Budget!TypeOK'
  <2>1. recorded' \in 0..Budget!MaxSpent /\ amount' \in 0..Budget!MaxSpent
    BY <1>1, <1>2, <1>6, <1>7
  <2> QED
    BY <1>1, <2>1 DEF Budget!BudgetInvariant, Budget!TypeOK
<1>9. Budget!CostsAddedOnce'
  <2>1. recorded' = Cardinality(costs') + Cardinality(RecordedFits')
    BY <1>1, <1>2, FitsCounted
  <2> QED
    BY <2>1, BudgetCounts DEF Budget!CostsAddedOnce, RecordedFits
<1>10. Budget!NeverOvercounts' /\ Budget!AmountIsEffective'
  <2>1. amount' = Budget!Greatest({amount', Legacy + recorded', reconciled'})
    <3>1. PICK r \in Nat : r = Legacy + recorded' /\ r <= amount'
      BY <1>1, <1>2, <1>3
    <3>2. PICK q \in Nat : q = reconciled' /\ q <= amount'
      BY <1>1, <1>2, <1>3
    <3>3. PICK g \in Nat : g = amount'
      BY <1>7
    <3>4. Budget!Greatest({g, r, q}) = g
      BY <3>1, <3>2, <3>3, GreatestOfThree
    <3> QED
      BY <3>1, <3>2, <3>3, <3>4
  <2> QED
    BY <1>7, <2>1 DEF Budget!NeverOvercounts, Budget!AmountIsEffective, Budget!Effective
<1>11. Budget!SumIsSpent'
  BY <1>1, <1>2, <1>6, BudgetCounts, BudgetTypes DEF Budget!SumIsSpent
<1>12. Budget!SpentIsBounded'
  BY DEF Budget!SpentIsBounded, Budget!BudgetInvariant
<1> QED
  BY <1>1, <1>2, <1>3, <1>8, <1>9, <1>10, <1>11, <1>12
     DEF BudgetKept, Budget!BudgetInvariant

LEMMA RecordFitKeeps ==
    ASSUME Budget!BudgetInvariant, NEW f \in Budget!Caller, Budget!RecordFit(f)
    PROVE  BudgetKept
<1>1. f \in Fit /\ budgetPc[f] = "record" /\ UNCHANGED <<costs, total, spent, listed>>
  BY DEF Budget!RecordFit, Budget!runware
<1>2. f \notin Task /\ costs \in SUBSET Task
  BY <1>1, OtherAssumption
     DEF Budget!BudgetAssumption, Budget!BudgetInvariant, Budget!TypeOK
<1>3. CASE Budget!Add /\ Budget!Go(f, "recorded")
  <2>1. /\ budgetPc'[f] = "recorded"
        /\ \A d \in Budget!Caller \ {f} : budgetPc'[d] = budgetPc[d]
        /\ budgetPc' \in [Budget!Caller -> Budget!Pc]
    BY <1>3, CallerMoves DEF Budget!Pc
  <2>2. f \in Budget!Owed /\ Budget!Owed' = Budget!Owed \ {f}
    BY <1>1, <1>2, <2>1 DEF Budget!Owed, Budget!Caller
  <2>3. Budget!ToSpend' = Budget!ToSpend
    BY <1>1, <2>1 DEF Budget!ToSpend
  <2>4. f \notin RecordedFits /\ RecordedFits' = RecordedFits \cup {f}
    BY <1>1, <2>1 DEF RecordedFits, Budget!Caller
  <2>5. Cardinality(RecordedFits') = Cardinality(RecordedFits) + 1
    BY <2>4, FitsCounted, OneMore
  <2>6. Cardinality(costs') + Cardinality(RecordedFits')
          = Cardinality(costs) + Cardinality(RecordedFits) + 1
    BY <1>1, <2>5, FitsCounted, BudgetSetsCounted
  <2> QED
    BY <1>1, <1>2, <1>3, <2>1, <2>2, <2>3, <2>6, AddKeeps
<1>4. CASE Budget!Go(f, "over") /\ UNCHANGED Budget!row
  <2>1. /\ budgetPc'[f] = "over"
        /\ \A d \in Budget!Caller \ {f} : budgetPc'[d] = budgetPc[d]
        /\ budgetPc' \in [Budget!Caller -> Budget!Pc]
    BY <1>4, CallerMoves DEF Budget!Pc
  <2>2. UNCHANGED <<recorded, reconciled, amount, fresh, costs, total, spent, listed>>
    BY <1>1, <1>4 DEF Budget!row
  <2>3. Budget!Owed' \in SUBSET Budget!Owed
    BY <1>1, <1>2, <2>1 DEF Budget!Owed, Budget!Caller
  <2>4. Budget!ToSpend' = Budget!ToSpend /\ RecordedFits' = RecordedFits
    BY <1>1, <2>1 DEF Budget!ToSpend, RecordedFits, Budget!Caller
  <2>5. Legacy + recorded + Cardinality(Budget!Owed') <= spent
    <3>1. Legacy + recorded + Cardinality(Budget!Owed) <= spent
      BY BudgetCounts DEF Budget!BudgetInvariant, Budget!SumIsSpent
    <3>2. /\ Cardinality(Budget!Owed') <= Cardinality(Budget!Owed)
          /\ Cardinality(Budget!Owed') \in Nat
      BY <2>3, BudgetSetsCounted, SubsetCounted
    <3> QED
      BY <3>1, <3>2, BudgetNumbers, BudgetSetsCounted
  <2>6. Budget!TypeOK'
    BY <2>1, <2>2 DEF Budget!TypeOK, Budget!BudgetInvariant
  <2>7. Budget!CostsAddedOnce'
    BY <2>2, <2>4 DEF Budget!CostsAddedOnce, Budget!BudgetInvariant, RecordedFits
  <2>8. Budget!SumIsSpent' /\ Budget!SpentIsBounded'
    BY <2>2, <2>4, <2>5, BudgetCounts
       DEF Budget!SumIsSpent, Budget!SpentIsBounded, Budget!BudgetInvariant
  <2>9. Budget!NeverOvercounts' /\ Budget!AmountIsEffective'
    BY <2>2 DEF Budget!NeverOvercounts, Budget!AmountIsEffective, Budget!Effective,
                Budget!BudgetInvariant
  <2> QED
    BY <2>2, <2>6, <2>7, <2>8, <2>9, BudgetNumbers DEF BudgetKept, Budget!BudgetInvariant
<1> QED
  BY <1>3, <1>4 DEF Budget!RecordFit

LEMMA RecordTaskKeeps ==
    ASSUME Budget!BudgetInvariant, NEW t \in Budget!Caller, Budget!RecordTask(t)
    PROVE  BudgetKept
<1>1. /\ t \in Task /\ budgetPc[t] = "sent" /\ t \notin costs
      /\ costs' = costs \cup {t}
      /\ Budget!Add /\ UNCHANGED <<budgetPc, total, spent, listed>>
  BY DEF Budget!RecordTask, Budget!runware
<1>2. t \notin Fit /\ costs \in SUBSET Task /\ budgetPc \in [Budget!Caller -> Budget!Pc]
  BY <1>1, OtherAssumption
     DEF Budget!BudgetAssumption, Budget!BudgetInvariant, Budget!TypeOK
<1>3. t \in Budget!Owed /\ Budget!Owed' = Budget!Owed \ {t}
  BY <1>1, <1>2 DEF Budget!Owed
<1>4. Budget!ToSpend' = Budget!ToSpend /\ RecordedFits' = RecordedFits
  BY <1>1 DEF Budget!ToSpend, RecordedFits
<1>5. Cardinality(costs') = Cardinality(costs) + 1
  BY <1>1, BudgetSetsCounted, OneMore
<1>6. Cardinality(costs') + Cardinality(RecordedFits')
        = Cardinality(costs) + Cardinality(RecordedFits) + 1
  BY <1>4, <1>5, FitsCounted, BudgetSetsCounted
<1> QED
  BY <1>1, <1>2, <1>3, <1>4, <1>6, AddKeeps

LEMMA BudgetRestKeeps ==
    ASSUME Budget!BudgetInvariant,
           Budget!RunwareLists \/ Budget!IntervalPasses \/ UNCHANGED Budget!vars
    PROVE  BudgetKept
<1>1. UNCHANGED <<recorded, reconciled, amount, costs, budgetPc, total, spent>>
  BY DEF Budget!RunwareLists, Budget!IntervalPasses, Budget!vars, Budget!row,
         Budget!runware
<1>2. fresh' \in BOOLEAN
  BY BudgetTypes
     DEF Budget!RunwareLists, Budget!IntervalPasses, Budget!vars, Budget!row
<1>3. listed' \in Nat /\ listed <= listed' /\ listed' <= spent
  <2>1. listed \in Nat /\ spent \in Nat /\ listed <= spent
    BY BudgetNumbers, BudgetTypes
  <2> QED
    BY <2>1
       DEF Budget!RunwareLists, Budget!IntervalPasses, Budget!vars, Budget!runware
<1>4. /\ {recorded, reconciled, amount, spent, listed, Legacy} \subseteq Nat
      /\ \A c \in Budget!Caller : total[c] \in Nat
      /\ Budget!MaxSpent \in Nat
  BY BudgetNumbers
<1>5. Budget!TypeOK'
  <2>1. spent \in 0..Budget!MaxSpent
    BY DEF Budget!BudgetInvariant, Budget!TypeOK
  <2>2. listed' \in 0..Budget!MaxSpent
    BY <1>3, <1>4, <2>1
  <2> QED
    BY <1>1, <1>2, <2>2 DEF Budget!BudgetInvariant, Budget!TypeOK
<1>6. Budget!SumIsSpent'
  <2>1. Budget!Owed' = Budget!Owed
    BY <1>1 DEF Budget!Owed
  <2>2. \A c \in Budget!Caller : total[c] <= listed'
    BY <1>3, <1>4, BudgetTypes
  <2>3. reconciled <= listed'
    BY <1>3, <1>4, BudgetTypes
  <2> QED
    BY <1>1, <1>3, <2>1, <2>2, <2>3 DEF Budget!SumIsSpent, Budget!BudgetInvariant
<1>7. Budget!CostsAddedOnce' /\ Budget!SpentIsBounded'
  BY <1>1 DEF Budget!CostsAddedOnce, Budget!SpentIsBounded, Budget!ToSpend,
              Budget!BudgetInvariant
<1>8. Budget!NeverOvercounts' /\ Budget!AmountIsEffective'
  BY <1>1 DEF Budget!NeverOvercounts, Budget!AmountIsEffective, Budget!Effective,
              Budget!BudgetInvariant
<1> QED
  BY <1>1, <1>4, <1>5, <1>6, <1>7, <1>8 DEF BudgetKept, Budget!BudgetInvariant

LEMMA BudgetNextKeeps ==
    Budget!BudgetInvariant /\ [Budget!Next]_(Budget!vars) => BudgetKept
BY BudgetReadKeeps, ReconcileKeeps, GenerateKeeps, RecordFitKeeps, RecordTaskKeeps,
   BudgetRestKeeps DEF Budget!Next

LEMMA BudgetInit == Budget!Init => Budget!BudgetInvariant
<1> SUFFICES ASSUME Budget!Init PROVE Budget!BudgetInvariant
  OBVIOUS
<1>1. /\ recorded = 0 /\ reconciled = 0 /\ amount = Legacy /\ fresh = FALSE
      /\ costs = {} /\ spent = Legacy /\ listed = 0
      /\ budgetPc = [c \in Budget!Caller |-> "new"]
      /\ total = [c \in Budget!Caller |-> 0]
  BY DEF Budget!Init
<1>2. /\ IsFiniteSet(Budget!Caller) /\ Legacy \in Nat
      /\ Cardinality(Budget!Caller) \in Nat
      /\ Budget!MaxSpent = Legacy + Cardinality(Budget!Caller)
  BY OtherAssumption, BudgetCounts, FS_CardinalityType
     DEF Budget!BudgetAssumption, Budget!Caller, Budget!MaxSpent
<1>3. Cardinality({}) = 0
  BY FS_EmptySet
<1>4. Budget!TypeOK
  <2>1. {recorded, reconciled, amount, spent, listed} \subseteq 0..Budget!MaxSpent
    BY <1>1, <1>2
  <2> QED
    BY <1>1, <1>2, <2>1 DEF Budget!TypeOK, Budget!Pc
<1>5. Budget!CostsAddedOnce
  <2>1. {f \in Fit : budgetPc[f] = "recorded"} = {}
    BY <1>1 DEF Budget!Caller
  <2> QED
    BY <1>1, <1>3, <2>1, BudgetCounts DEF Budget!CostsAddedOnce
<1>6. Budget!NeverOvercounts /\ Budget!AmountIsEffective
  <2>1. Budget!Greatest({Legacy, Legacy, 0}) = Legacy
    BY <1>2, GreatestOfThree
  <2>2. Legacy + 0 = Legacy
    BY <1>2
  <2> QED
    BY <1>1, <1>2, <2>1, <2>2
       DEF Budget!NeverOvercounts, Budget!AmountIsEffective, Budget!Effective
<1>7. Budget!SumIsSpent
  <2>1. Budget!Owed = {}
    BY <1>1 DEF Budget!Owed, Budget!Caller
  <2> QED
    BY <1>1, <1>2, <1>3, <2>1, BudgetCounts DEF Budget!SumIsSpent
<1>8. Budget!SpentIsBounded
  <2>1. Budget!ToSpend = Budget!Caller
    BY <1>1 DEF Budget!ToSpend
  <2> QED
    BY <1>1, <1>2, <2>1, BudgetCounts DEF Budget!SpentIsBounded
<1> QED
  BY <1>4, <1>5, <1>6, <1>7, <1>8 DEF Budget!BudgetInvariant

\* Every cost counts once, the amount never exceeds what was spent and is the
\* same for every reader (budget.py, usage_repository.py), for any number of
\* callers, in whatever order costs, totals and decisions come.
THEOREM BudgetIsRight == Spec => []BudgetInvariant
<1>1. Init => Budget!BudgetInvariant
  BY BudgetInit DEF Init
<1>2. Budget!BudgetInvariant /\ [Next]_vars => Budget!BudgetInvariant'
  BY BudgetStep, BudgetNextKeeps DEF BudgetKept
<1> QED
  BY <1>1, <1>2, PTL DEF Spec, BudgetInvariant

\* A total that arrives late never lowers what was known (usage_repository.py).
THEOREM SpendingIsRemembered == Spec => NothingForgotten
<1>1. Budget!BudgetInvariant /\ [Next]_vars
        => [amount' >= amount /\ reconciled' >= reconciled]_(Budget!vars)
  BY BudgetStep, BudgetNextKeeps DEF BudgetKept
<1> QED
  BY <1>1, BudgetIsRight, PTL
     DEF Spec, BudgetInvariant, NothingForgotten, Budget!NothingForgotten

-----------------------------------------------------------------------------
(* The limiter of the remote body image validation                         *)
(* (AsyncBodyValidationLimiter).                                           *)

LEMMA BodyStep == [Next]_vars => [Body!Next]_(Body!vars)
BY DEF Next, OthersRest, vars, body, Body!vars

\* The limiter has its own instances of the library.
LEMMA BodyWords ==
    /\ \A S : Body!IsFiniteSet(S) <=> IsFiniteSet(S)
    /\ \A S : Body!Cardinality(S) = Cardinality(S)
    /\ \A f : Body!IsInjective(f) <=> IsInjective(f)
    /\ \A f : Body!Range(f) = Range(f)
<1>1. \A S : Body!IsFiniteSet(S) <=> IsFiniteSet(S)
  BY DEF Body!IsFiniteSet, IsFiniteSet
<1>2. \A S : Body!Cardinality(S) = Cardinality(S)
  BY DEF Body!Cardinality, Cardinality
<1>3. /\ \A f : Body!IsInjective(f) <=> IsInjective(f)
      /\ \A f : Body!Range(f) = Range(f)
  BY DEF Body!IsInjective, IsInjective, Body!Range, Range
<1> QED
  BY <1>1, <1>2, <1>3

LEMMA BodyRemoves ==
    ASSUME NEW S, NEW s \in Seq(S), IsInjective(s), NEW e
    PROVE  Body!RemoveFirst(s, e) \in Seq(S) /\ Left(s, e, Body!RemoveFirst(s, e))
<1>0. DOMAIN s = 1..Len(s)
  OBVIOUS
<1>1. CASE \E i \in 1..Len(s) : s[i] = e
  <2>1. PICK i \in 1..Len(s) : s[i] = e
    BY <1>1
  <2>2. {j \in 1..Len(s) : s[j] = e} = {i}
    BY <2>1, OnePlace
  <2>3. Body!Min({i}) = i
    BY DEF Body!Min
  <2>4. Body!SelectInSeq(s, LAMBDA v : v = e) = i
    BY <2>2, <2>3 DEF Body!SelectInSeq
  <2>5. Body!RemoveFirst(s, e) = Without(s, i)
    BY <1>1, <2>4 DEF Body!RemoveFirst, Body!RemoveAt, Without
  <2> QED
    BY <2>1, <2>5, TakenOut
<1>2. CASE ~ \E i \in 1..Len(s) : s[i] = e
  <2>1. Body!RemoveFirst(s, e) = s
    BY <1>2 DEF Body!RemoveFirst
  <2>2. e \notin Range(s)
    BY <1>0, <1>2 DEF Range
  <2> QED
    BY <2>1, <2>2, TakenOut
<1> QED
  BY <1>1, <1>2

Queued == {r \in Request : bodyState[r] \notin {"out", "in"}}

LEMMA BodyFacts ==
    ASSUME Body!LimiterInvariant
    PROVE  /\ IsFiniteSet(Request) /\ MaxRunning \in Nat /\ MaxWaiting \in Nat
           /\ bodyRunning \in 0..MaxRunning /\ bodyRunning \in Nat
           /\ bodyQueue \in Seq(Request) /\ Len(bodyQueue) <= MaxWaiting
           /\ Len(bodyQueue) \in Nat
           /\ bodyState \in [Request -> Body!State]
           /\ IsFiniteSet(Body!Inside) /\ bodyRunning = Cardinality(Body!Inside)
           /\ IsInjective(bodyQueue) /\ Range(bodyQueue) = Queued
           /\ Body!NoLostWakeup
           /\ bodyQueue # <<>> => Head(bodyQueue) \in Queued
<1>1. IsFiniteSet(Request) /\ MaxRunning \in Nat /\ MaxWaiting \in Nat
  BY LimitAssumption, BodyWords DEF Body!LimiterAssumption
<1>2. Body!Inside \in SUBSET Request
  BY DEF Body!Inside
<1>3. IsFiniteSet(Body!Inside) /\ bodyRunning = Cardinality(Body!Inside)
  BY <1>1, <1>2, SubsetCounted, BodyWords DEF Body!LimiterInvariant, Body!PlacesCounted
<1>4. bodyQueue \in Seq(Request) /\ Len(bodyQueue) <= MaxWaiting
  BY DEF Body!LimiterInvariant, Body!TypeOK
<1>5. IsInjective(bodyQueue) /\ Range(bodyQueue) = Queued
  BY BodyWords DEF Body!LimiterInvariant, Body!TicketsFit, Queued
<1>6. bodyQueue # <<>> => Head(bodyQueue) \in Queued
  BY <1>4, <1>5, TailElements
<1>7. bodyRunning \in 0..MaxRunning /\ bodyState \in [Request -> Body!State]
      /\ Body!NoLostWakeup
  BY DEF Body!LimiterInvariant, Body!TypeOK
<1> QED
  BY <1>1, <1>3, <1>4, <1>5, <1>6, <1>7

\* The invariant after a step, from its parts.
LEMMA BodyHolds ==
    ASSUME IsFiniteSet(Request), bodyRunning' \in 0..MaxRunning,
           bodyQueue' \in Seq(Request), Len(bodyQueue') <= MaxWaiting,
           bodyState' \in [Request -> Body!State],
           bodyRunning' = Cardinality(Body!Inside'),
           IsInjective(bodyQueue'), Range(bodyQueue') = Queued',
           Body!NoLostWakeup'
    PROVE  Body!LimiterInvariant'
BY BodyWords
   DEF Body!LimiterInvariant, Body!TypeOK, Body!PlacesCounted, Body!TicketsFit, Queued

LEMMA BodyNotified ==
    ASSUME Body!LimiterInvariant, NEW r \in Request, NEW s \in {"out", "in"},
           Body!NotifyAll(r, s)
    PROVE  /\ bodyState' \in [Request -> Body!State] /\ bodyState'[r] = s
           /\ \A q \in Request : bodyState'[q] # "waiting"
           /\ Queued' = Queued \ {r}
           /\ Body!Inside' = IF s = "in" THEN Body!Inside \cup {r} ELSE Body!Inside \ {r}
<1>1. bodyState \in [Request -> Body!State]
  BY BodyFacts
<1>2. \A q \in Request : bodyState'[q] =
        IF q = r THEN s ELSE IF bodyState[q] = "waiting" THEN "woken" ELSE bodyState[q]
  BY DEF Body!NotifyAll
<1>3. bodyState' \in [Request -> Body!State]
  BY <1>1, <1>2 DEF Body!NotifyAll, Body!State
<1>4. \A q \in Request : bodyState'[q] # "waiting"
  BY <1>1, <1>2 DEF Body!State
<1>5. Queued' = Queued \ {r}
  BY <1>2 DEF Queued
<1>6. Body!Inside' = IF s = "in" THEN Body!Inside \cup {r} ELSE Body!Inside \ {r}
  BY <1>2 DEF Body!Inside
<1> QED
  BY <1>2, <1>3, <1>4, <1>5, <1>6

LEMMA BodyAwake ==
    ASSUME Body!LimiterInvariant, bodyQueue' \in Seq(Request), IsInjective(bodyQueue'),
           \A q \in Request : bodyState'[q] # "waiting"
    PROVE  Body!NoLostWakeup'
<1>1. ASSUME bodyQueue' # <<>> PROVE Head(bodyQueue') \in Request
  BY <1>1
<1> QED
  BY <1>1 DEF Body!NoLostWakeup

\* What each step does to the places and the queue, as FifoSlots tells it.
BodyDoes(r) ==
    \/ /\ bodyQueue = <<>> /\ bodyRunning < MaxRunning /\ r \notin Body!Inside
       /\ Body!Inside' = Body!Inside \cup {r} /\ UNCHANGED bodyQueue
    \/ /\ r \notin Body!Inside /\ r \notin Range(bodyQueue) /\ Len(bodyQueue) < MaxWaiting
       /\ bodyQueue' = Append(bodyQueue, r) /\ Body!Inside' = Body!Inside
    \/ /\ bodyQueue # <<>> /\ bodyRunning < MaxRunning
       /\ Body!Inside' = Body!Inside \cup {Head(bodyQueue)}
       /\ bodyQueue' = Tail(bodyQueue)
    \/ /\ r \in Range(bodyQueue) /\ bodyQueue' = Body!RemoveFirst(bodyQueue, r)
       /\ Body!Inside' = Body!Inside
    \/ /\ r \in Body!Inside /\ Body!Inside' = Body!Inside \ {r} /\ UNCHANGED bodyQueue
    \/ Body!Inside' = Body!Inside /\ UNCHANGED bodyQueue

LEMMA BodyAcquireKeeps ==
    ASSUME Body!LimiterInvariant, NEW r \in Request, Body!Acquire(r)
    PROVE  Body!LimiterInvariant' /\ BodyDoes(r)
<1>0. /\ bodyState[r] = "out" /\ r \notin Queued /\ r \notin Body!Inside
      /\ bodyState \in [Request -> Body!State]
  BY BodyFacts DEF Body!Acquire, Queued, Body!Inside
<1>1. CASE /\ bodyRunning < MaxRunning /\ bodyQueue = <<>>
           /\ bodyRunning' = bodyRunning + 1
           /\ bodyState' = Body!Becomes(r, "in") /\ UNCHANGED bodyQueue
  <2>1. /\ bodyState' \in [Request -> Body!State]
        /\ Body!Inside' = Body!Inside \cup {r} /\ Queued' = Queued
    BY <1>0, <1>1 DEF Body!Becomes, Body!State, Body!Inside, Queued
  <2>2. Cardinality(Body!Inside') = bodyRunning + 1
    BY <1>0, <2>1, BodyFacts, OneJoinsOrLeaves
  <2>3. bodyRunning' \in 0..MaxRunning
    BY <1>1, BodyFacts
  <2>4. Body!NoLostWakeup'
    BY <1>1 DEF Body!NoLostWakeup
  <2>5. Body!LimiterInvariant'
    BY <1>1, <2>1, <2>2, <2>3, <2>4, BodyFacts, BodyHolds
  <2> QED
    BY <1>0, <1>1, <2>1, <2>5 DEF BodyDoes
<1>2. CASE /\ bodyRunning >= MaxRunning \/ bodyQueue # <<>>
           /\ Len(bodyQueue) < MaxWaiting /\ bodyQueue' = Append(bodyQueue, r)
           /\ bodyState' = Body!Becomes(r, "waiting") /\ UNCHANGED bodyRunning
  <2>1. /\ bodyState' \in [Request -> Body!State]
        /\ Body!Inside' = Body!Inside /\ Queued' = Queued \cup {r}
        /\ \A q \in Request \ {r} : bodyState'[q] = bodyState[q]
    BY <1>0, <1>2 DEF Body!Becomes, Body!State, Body!Inside, Queued
  <2>2. /\ bodyQueue' \in Seq(Request) /\ Len(bodyQueue') = Len(bodyQueue) + 1
        /\ Range(bodyQueue') = Queued' /\ IsInjective(bodyQueue')
        /\ bodyQueue # <<>> => Head(bodyQueue') = Head(bodyQueue)
    BY <1>0, <1>2, <2>1, BodyFacts, AppendElement
  <2>3. Len(bodyQueue') <= MaxWaiting
    BY <1>2, <2>2, BodyFacts
  <2>4. Body!NoLostWakeup'
    <3>1. CASE bodyQueue = <<>>
      BY <1>2, <3>1, BodyFacts DEF Body!NoLostWakeup
    <3>2. CASE bodyQueue # <<>>
      <4>1. Head(bodyQueue') \in Request \ {r} /\ Head(bodyQueue') = Head(bodyQueue)
        BY <1>0, <2>2, <3>2, BodyFacts DEF Queued
      <4> QED
        BY <1>2, <2>1, <3>2, <4>1, BodyFacts DEF Body!NoLostWakeup
    <3> QED
      BY <3>1, <3>2
  <2>5. Body!LimiterInvariant'
    BY <1>2, <2>1, <2>2, <2>3, <2>4, BodyFacts, BodyHolds
  <2> QED
    BY <1>0, <1>2, <2>1, <2>5, BodyFacts DEF BodyDoes
<1> QED
  BY <1>1, <1>2 DEF Body!Acquire

\* A request that waits and goes on waiting, or whose wait is over.
LEMMA BodyWaitKeeps ==
    ASSUME Body!LimiterInvariant, NEW r \in Request,
           Body!Expire(r) \/ Body!Cancel(r) \/ Body!WaitAgain(r)
    PROVE  Body!LimiterInvariant' /\ BodyDoes(r)
<1>1. PICK s \in {"waiting", "expired", "cancelled"} :
        /\ bodyState[r] \in {"waiting", "woken", "expired"}
        /\ bodyState' = Body!Becomes(r, s)
        /\ s = "waiting" => ~Body!MyTurn(r)
        /\ UNCHANGED <<bodyRunning, bodyQueue>>
  BY DEF Body!Expire, Body!Cancel, Body!WaitAgain
<1>2. /\ bodyState' \in [Request -> Body!State] /\ bodyState'[r] = s
      /\ \A q \in Request \ {r} : bodyState'[q] = bodyState[q]
  BY <1>1, BodyFacts DEF Body!Becomes, Body!State
<1>3. Queued' = Queued /\ Body!Inside' = Body!Inside
  BY <1>1, <1>2 DEF Queued, Body!Inside
<1>4. Body!NoLostWakeup'
  <2> SUFFICES ASSUME bodyQueue # <<>>, bodyRunning < MaxRunning
               PROVE  bodyState'[Head(bodyQueue)] # "waiting"
    BY <1>1 DEF Body!NoLostWakeup
  <2>1. CASE Head(bodyQueue) = r
    BY <1>1, <1>2, <2>1 DEF Body!MyTurn
  <2>2. CASE Head(bodyQueue) # r
    <3>1. Head(bodyQueue) \in Request
      BY BodyFacts DEF Queued
    <3> QED
      BY <1>2, <2>2, <3>1, BodyFacts DEF Body!NoLostWakeup
  <2> QED
    BY <2>1, <2>2
<1>5. Body!LimiterInvariant'
  BY <1>1, <1>2, <1>3, <1>4, BodyFacts, BodyHolds
<1> QED
  BY <1>1, <1>3, <1>5 DEF BodyDoes

LEMMA BodyLeaveKeeps ==
    ASSUME Body!LimiterInvariant, NEW r \in Request,
           Body!TakeTurn(r) \/ Body!GiveUp(r)
    PROVE  Body!LimiterInvariant' /\ BodyDoes(r)
<1>0. r \in Queued /\ r \notin Body!Inside
  BY DEF Body!TakeTurn, Body!GiveUp, Queued, Body!Inside
<1>1. PICK s \in {"out", "in"} :
        /\ bodyQueue' = Body!RemoveFirst(bodyQueue, r) /\ Body!NotifyAll(r, s)
        /\ s = "in" => bodyRunning' = bodyRunning + 1 /\ Body!MyTurn(r)
        /\ s = "out" => bodyRunning' = bodyRunning
  BY DEF Body!TakeTurn, Body!GiveUp, Body!LeaveQueue
<1>2. bodyQueue' \in Seq(Request) /\ Left(bodyQueue, r, bodyQueue')
  BY <1>1, BodyFacts, BodyRemoves
<1>3. /\ Len(bodyQueue') <= MaxWaiting /\ IsInjective(bodyQueue')
      /\ Range(bodyQueue') = Queued'
  <2>1. Len(bodyQueue') \in Nat /\ Len(bodyQueue') <= Len(bodyQueue)
    BY <1>2 DEF Left
  <2>2. Len(bodyQueue') <= MaxWaiting
    BY <2>1, BodyFacts
  <2> QED
    BY <1>1, <1>2, <2>2, BodyFacts, BodyNotified DEF Left
<1>4. Body!NoLostWakeup'
  BY <1>1, <1>2, <1>3, BodyNotified, BodyAwake
<1>5. bodyRunning' \in 0..MaxRunning /\ bodyRunning' = Cardinality(Body!Inside')
  <2>1. CASE s = "in"
    <3>1. Body!Inside' = Body!Inside \cup {r}
      BY <1>1, <2>1, BodyNotified
    <3>2. Cardinality(Body!Inside') = bodyRunning + 1
      BY <1>0, <3>1, BodyFacts, OneJoinsOrLeaves
    <3>3. bodyRunning < MaxRunning /\ bodyRunning' = bodyRunning + 1
      BY <1>1, <2>1 DEF Body!MyTurn
    <3> QED
      BY <3>2, <3>3, BodyFacts
  <2>2. CASE s = "out"
    <3>1. Body!Inside' = Body!Inside \ {r}
      BY <1>1, <2>2, BodyNotified
    <3>2. Body!Inside' = Body!Inside
      BY <1>0, <3>1
    <3> QED
      BY <1>1, <2>2, <3>2, BodyFacts
  <2> QED
    BY <2>1, <2>2
<1>6. Body!LimiterInvariant'
  BY <1>1, <1>2, <1>3, <1>4, <1>5, BodyFacts, BodyNotified, BodyHolds
<1>7. BodyDoes(r)
  <2>1. CASE s = "in"
    <3>1. Head(bodyQueue) = r /\ bodyRunning < MaxRunning
      BY <1>1, <2>1 DEF Body!MyTurn
    <3>2. bodyQueue # <<>>
      <4>1. Range(<<>>) = {}
        BY DEF Range
      <4> QED
        BY <1>0, <4>1, BodyFacts
    <3>3. bodyQueue' = Tail(bodyQueue)
      BY <1>2, <3>1, <3>2 DEF Left
    <3>4. Body!Inside' = Body!Inside \cup {Head(bodyQueue)}
      BY <1>1, <2>1, <3>1, BodyNotified
    <3> QED
      BY <3>1, <3>2, <3>3, <3>4 DEF BodyDoes
  <2>2. CASE s = "out"
    <3>1. Body!Inside' = Body!Inside \ {r}
      BY <1>1, <2>2, BodyNotified
    <3>2. r \in Range(bodyQueue)
      BY <1>0, BodyFacts
    <3> QED
      BY <1>0, <1>1, <3>1, <3>2 DEF BodyDoes
  <2> QED
    BY <2>1, <2>2
<1> QED
  BY <1>6, <1>7

LEMMA BodyTooLateOrReleaseKeeps ==
    ASSUME Body!LimiterInvariant, NEW r \in Request,
           Body!AcquireTooLate(r) \/ Body!Release(r)
    PROVE  Body!LimiterInvariant' /\ BodyDoes(r)
<1>1. /\ Body!NotifyAll(r, "out") /\ UNCHANGED bodyQueue /\ r \notin Queued
  BY DEF Body!AcquireTooLate, Body!Release, Queued
<1>2. /\ bodyState' \in [Request -> Body!State] /\ Queued' = Queued
      /\ Body!Inside' = Body!Inside \ {r}
      /\ \A q \in Request : bodyState'[q] # "waiting"
  BY <1>1, BodyNotified
<1>3. Body!NoLostWakeup'
  BY <1>1, <1>2, BodyFacts, BodyAwake
<1>4. /\ bodyRunning' \in 0..MaxRunning /\ bodyRunning' = Cardinality(Body!Inside')
      /\ Body!Inside' = Body!Inside \/ r \in Body!Inside
  <2>1. CASE Body!AcquireTooLate(r)
    <3>1. r \notin Body!Inside /\ UNCHANGED bodyRunning
      BY <2>1 DEF Body!AcquireTooLate, Body!Inside
    <3>2. Body!Inside' = Body!Inside
      BY <1>2, <3>1
    <3> QED
      BY <3>1, <3>2, BodyFacts
  <2>2. CASE Body!Release(r)
    <3>1. r \in Body!Inside /\ bodyRunning' = bodyRunning - 1
      BY <2>2 DEF Body!Release, Body!Inside
    <3>2. /\ Cardinality(Body!Inside') = Cardinality(Body!Inside) - 1
          /\ Cardinality(Body!Inside) > 0
      BY <1>2, <3>1, BodyFacts, OneJoinsOrLeaves
    <3> QED
      BY <3>1, <3>2, BodyFacts
  <2> QED
    BY <2>1, <2>2
<1>5. Body!LimiterInvariant'
  BY <1>1, <1>2, <1>3, <1>4, BodyFacts, BodyHolds
<1> QED
  BY <1>1, <1>2, <1>4, <1>5 DEF BodyDoes

LEMMA BodyNextKeeps ==
    Body!LimiterInvariant /\ [Body!Next]_(Body!vars)
      => /\ Body!LimiterInvariant'
         /\ (Body!Inside' = Body!Inside /\ UNCHANGED bodyQueue) \/ \E r \in Request : BodyDoes(r)
<1> SUFFICES ASSUME Body!LimiterInvariant, [Body!Next]_(Body!vars)
             PROVE  /\ Body!LimiterInvariant'
                    /\ \/ Body!Inside' = Body!Inside /\ UNCHANGED bodyQueue
                       \/ \E r \in Request : BodyDoes(r)
  OBVIOUS
<1>1. CASE UNCHANGED Body!vars
  <2>1. /\ UNCHANGED <<bodyRunning, bodyQueue, bodyState>>
        /\ Body!Inside' = Body!Inside /\ Queued' = Queued
        /\ Body!NoLostWakeup'
    BY <1>1, BodyFacts DEF Body!vars, Body!Inside, Queued, Body!NoLostWakeup
  <2> QED
    BY <2>1, BodyFacts, BodyHolds
<1>2. CASE Body!Next
  BY <1>2, BodyAcquireKeeps, BodyWaitKeeps, BodyLeaveKeeps, BodyTooLateOrReleaseKeeps
     DEF Body!Next, Body!GoesOn
<1> QED
  BY <1>1, <1>2

LEMMA BodyInit == Body!Init => Body!LimiterInvariant /\ Body!Inside = {}
<1> SUFFICES ASSUME Body!Init PROVE Body!LimiterInvariant /\ Body!Inside = {}
  OBVIOUS
<1>1. /\ bodyRunning = 0 /\ bodyQueue = <<>> /\ bodyState = [r \in Request |-> "out"]
      /\ MaxRunning \in Nat /\ MaxWaiting \in Nat
  BY LimitAssumption DEF Body!Init, Body!LimiterAssumption
<1>2. Body!Inside = {} /\ Queued = {}
  BY <1>1 DEF Body!Inside, Queued
<1>3. Cardinality({}) = 0 /\ Range(<<>>) = {} /\ IsInjective(<<>>)
  BY FS_EmptySet DEF Range, IsInjective
<1>4. Len(<<>>) = 0 /\ <<>> \in Seq(Request)
  OBVIOUS
<1>5. Body!TypeOK
  BY <1>1, <1>4 DEF Body!TypeOK, Body!State
<1>6. Body!PlacesCounted /\ Body!NoLostWakeup /\ Body!TicketsFit
  BY <1>1, <1>2, <1>3, BodyWords
     DEF Body!PlacesCounted, Body!NoLostWakeup, Body!TicketsFit, Queued
<1> QED
  BY <1>2, <1>5, <1>6 DEF Body!LimiterInvariant

LEMMA BodyIsRight == Spec => []Body!LimiterInvariant
<1>1. Init => Body!LimiterInvariant
  BY BodyInit DEF Init
<1>2. Body!LimiterInvariant /\ [Next]_vars => Body!LimiterInvariant'
  BY BodyStep, BodyNextKeeps
<1> QED
  BY <1>1, <1>2, PTL DEF Spec

\* The limiter admits requests in their order and lets none pass those who wait
\* (async_concurrency.py), whatever is woken, times out or is cancelled, for any
\* number of requests and places.
THEOREM BodyIsFifo == Spec => BodyImplementsFifoSlots
<1>1. Init => Body!Slots!Init
  <2>1. Body!Init => Body!Inside = {} /\ bodyQueue = <<>>
    BY BodyInit DEF Body!Init
  <2> QED
    BY <2>1 DEF Init, Body!Slots!Init
<1>2. Body!LimiterInvariant /\ [Next]_vars => [Body!Slots!Next]_(Body!Slots!vars)
  <2> SUFFICES ASSUME Body!LimiterInvariant, [Next]_vars
               PROVE  [Body!Slots!Next]_(Body!Slots!vars)
    OBVIOUS
  <2>1. Body!Slots!Cardinality(Body!Inside) = bodyRunning
    <3>1. Body!Slots!Cardinality(Body!Inside) = Cardinality(Body!Inside)
      BY DEF Body!Slots!Cardinality, Cardinality
    <3> QED
      BY <3>1, BodyFacts
  <2>2. \A s : Body!Slots!Range(s) = Range(s)
    BY DEF Body!Slots!Range, Range
  <2>3. \A s, e : Body!Slots!RemoveFirst(s, e) = Body!RemoveFirst(s, e)
    BY DEF Body!Slots!RemoveFirst, Body!RemoveFirst, Body!Slots!RemoveAt, Body!RemoveAt,
           Body!Slots!SelectInSeq, Body!SelectInSeq, Body!Slots!Min, Body!Min
  <2>4. CASE Body!Inside' = Body!Inside /\ UNCHANGED bodyQueue
    BY <2>4 DEF Body!Slots!vars
  <2>5. ASSUME NEW r \in Request, BodyDoes(r)
        PROVE  [Body!Slots!Next]_(Body!Slots!vars)
    BY <2>1, <2>2, <2>3, <2>5
       DEF BodyDoes, Body!Slots!Next, Body!Slots!vars, Body!Slots!Enter, Body!Slots!Wait,
           Body!Slots!Admit, Body!Slots!GiveUp, Body!Slots!Leave, Body!Slots!Free
  <2> QED
    BY <2>4, <2>5, BodyStep, BodyNextKeeps
<1> QED
  BY <1>1, <1>2, BodyIsRight, PTL
     DEF Spec, BodyImplementsFifoSlots, Body!ImplementsFifoSlots, Body!Slots!Spec

-----------------------------------------------------------------------------
(* The limiter of the threads (BodyValidationLimiter).                     *)

LEMMA ThreadsStep == [Next]_vars => [Threads!Next]_(Threads!vars)
BY DEF Next, OthersRest, vars, threads, Threads!vars

LEMMA ThreadsWords ==
    /\ \A S : Threads!IsFiniteSet(S) <=> IsFiniteSet(S)
    /\ \A S : Threads!Cardinality(S) = Cardinality(S)
    /\ \A f : Threads!IsInjective(f) <=> IsInjective(f)
    /\ \A f : Threads!Range(f) = Range(f)
<1>1. \A S : Threads!IsFiniteSet(S) <=> IsFiniteSet(S)
  BY DEF Threads!IsFiniteSet, IsFiniteSet
<1>2. \A S : Threads!Cardinality(S) = Cardinality(S)
  BY DEF Threads!Cardinality, Cardinality
<1>3. /\ \A f : Threads!IsInjective(f) <=> IsInjective(f)
      /\ \A f : Threads!Range(f) = Range(f)
  BY DEF Threads!IsInjective, IsInjective, Threads!Range, Range
<1> QED
  BY <1>1, <1>2, <1>3

LEMMA ThreadsRemoves ==
    ASSUME NEW S, NEW s \in Seq(S), IsInjective(s), NEW e
    PROVE  Threads!RemoveFirst(s, e) \in Seq(S) /\ Left(s, e, Threads!RemoveFirst(s, e))
<1>0. DOMAIN s = 1..Len(s)
  OBVIOUS
<1>1. CASE \E i \in 1..Len(s) : s[i] = e
  <2>1. PICK i \in 1..Len(s) : s[i] = e
    BY <1>1
  <2>2. {j \in 1..Len(s) : s[j] = e} = {i}
    BY <2>1, OnePlace
  <2>3. Threads!Min({i}) = i
    BY DEF Threads!Min
  <2>4. Threads!SelectInSeq(s, LAMBDA v : v = e) = i
    BY <2>2, <2>3 DEF Threads!SelectInSeq
  <2>5. Threads!RemoveFirst(s, e) = Without(s, i)
    BY <1>1, <2>4 DEF Threads!RemoveFirst, Threads!RemoveAt, Without
  <2> QED
    BY <2>1, <2>5, TakenOut
<1>2. CASE ~ \E i \in 1..Len(s) : s[i] = e
  <2>1. Threads!RemoveFirst(s, e) = s
    BY <1>2 DEF Threads!RemoveFirst
  <2>2. e \notin Range(s)
    BY <1>0, <1>2 DEF Range
  <2> QED
    BY <2>1, <2>2, TakenOut
<1> QED
  BY <1>1, <1>2

InPlace == {r \in Request : threadsState[r] = "in"}
Waiters == {r \in Request : threadsState[r] \in {"waiting", "woken", "expired"}}
Sleepers == {r \in Request : threadsState[r] = "waiting"}
Lookers == {r \in Request : threadsState[r] \in {"woken", "expired"}} \ Range(threadsAsleep)

SleepersAsleep ==
    /\ threadsAsleep \in Seq(Request) /\ IsInjective(threadsAsleep)
    /\ Sleepers \subseteq Range(threadsAsleep)
    /\ \A r \in Range(threadsAsleep) :
           r \in Request /\ threadsState[r] \in {"waiting", "expired"}

PlacesLookedFor ==
    Sleepers # {} => MaxRunning - threadsRunning <= Cardinality(Lookers)

LEMMA ThreadsFacts ==
    ASSUME Threads!LimiterInvariant
    PROVE  /\ IsFiniteSet(Request) /\ MaxRunning \in Nat /\ MaxWaiting \in Nat
           /\ threadsRunning \in 0..MaxRunning /\ threadsRunning \in Nat
           /\ threadsWaiting \in 0..MaxWaiting /\ threadsWaiting \in Nat
           /\ threadsState \in [Request -> Threads!State]
           /\ SleepersAsleep /\ PlacesLookedFor
           /\ IsFiniteSet(InPlace) /\ threadsRunning = Cardinality(InPlace)
           /\ IsFiniteSet(Waiters) /\ threadsWaiting = Cardinality(Waiters)
           /\ IsFiniteSet(Lookers) /\ Cardinality(Lookers) \in Nat
<1>1. IsFiniteSet(Request) /\ MaxRunning \in Nat /\ MaxWaiting \in Nat
  BY LimitAssumption, ThreadsWords DEF Threads!LimiterAssumption
<1>2. /\ Threads!In({"in"}) = InPlace
      /\ Threads!In({"waiting", "woken", "expired"}) = Waiters
      /\ Threads!In({"waiting"}) = Sleepers
      /\ Threads!Looking = Lookers
  BY ThreadsWords
     DEF Threads!In, Threads!Looking, InPlace, Waiters, Sleepers, Lookers
<1>3. /\ InPlace \in SUBSET Request /\ Waiters \in SUBSET Request
      /\ Lookers \in SUBSET Request
  BY DEF InPlace, Waiters, Lookers
<1>4. /\ IsFiniteSet(InPlace) /\ IsFiniteSet(Waiters)
      /\ IsFiniteSet(Lookers) /\ Cardinality(Lookers) \in Nat
  BY <1>1, <1>3, SubsetCounted
<1>5. threadsRunning = Cardinality(InPlace) /\ threadsWaiting = Cardinality(Waiters)
  BY <1>2, ThreadsWords DEF Threads!LimiterInvariant, Threads!CountersAgree
<1>6. /\ threadsRunning \in 0..MaxRunning /\ threadsWaiting \in 0..MaxWaiting
      /\ threadsState \in [Request -> Threads!State]
  BY DEF Threads!LimiterInvariant, Threads!TypeOK
<1>7. SleepersAsleep
  BY <1>2, ThreadsWords
     DEF Threads!LimiterInvariant, Threads!TypeOK, Threads!SleepersFit, Threads!In,
         SleepersAsleep
<1>8. PlacesLookedFor
  BY <1>2, ThreadsWords
     DEF Threads!LimiterInvariant, Threads!FreePlacesLookedFor, PlacesLookedFor
<1> QED
  BY <1>1, <1>4, <1>5, <1>6, <1>7, <1>8

LEMMA ThreadsMade ==
    ASSUME threadsRunning \in 0..MaxRunning, threadsWaiting \in 0..MaxWaiting,
           threadsState \in [Request -> Threads!State], SleepersAsleep, PlacesLookedFor,
           threadsRunning = Cardinality(InPlace), threadsWaiting = Cardinality(Waiters)
    PROVE  Threads!LimiterInvariant
<1>1. IsFiniteSet(Request) /\ MaxRunning \in Nat
  BY LimitAssumption, ThreadsWords DEF Threads!LimiterAssumption
<1>2. /\ Threads!In({"in"}) = InPlace
      /\ Threads!In({"waiting", "woken", "expired"}) = Waiters
      /\ Threads!In({"waiting"}) = Sleepers
      /\ Threads!Looking = Lookers
  BY ThreadsWords
     DEF Threads!In, Threads!Looking, InPlace, Waiters, Sleepers, Lookers
<1>3. Threads!TypeOK
  BY DEF Threads!TypeOK, SleepersAsleep
<1>4. Threads!CountersAgree
  BY <1>2, ThreadsWords DEF Threads!CountersAgree
<1>5. Threads!SleepersFit
  BY <1>2, ThreadsWords DEF Threads!SleepersFit, SleepersAsleep, Threads!In
<1>6. Threads!FreePlacesLookedFor
  BY <1>2, ThreadsWords DEF Threads!FreePlacesLookedFor, PlacesLookedFor
<1>7. Threads!NoLostWakeup
  <2> DEFINE awake == Threads!In({"woken", "expired"})
  <2>1. awake \in SUBSET Request /\ Lookers \in SUBSET awake
    BY DEF Threads!In, Lookers
  <2>2. IsFiniteSet(awake) /\ Cardinality(awake) \in Nat
    BY <1>1, <2>1, SubsetCounted
  <2>3. Cardinality(Lookers) <= Cardinality(awake) /\ Cardinality(Lookers) \in Nat
    BY <2>1, <2>2, SubsetCounted
  <2> HIDE DEF awake
  <2>4. Sleepers # {} => MaxRunning - threadsRunning <= Cardinality(awake)
    BY <1>1, <2>2, <2>3 DEF PlacesLookedFor
  <2> QED
    BY <1>2, <2>4, ThreadsWords DEF Threads!NoLostWakeup, awake
<1> QED
  BY <1>3, <1>4, <1>5, <1>6, <1>7 DEF Threads!LimiterInvariant

LEMMA ThreadsHolds ==
    threadsRunning' \in 0..MaxRunning /\ threadsWaiting' \in 0..MaxWaiting
      /\ threadsState' \in [Request -> Threads!State] /\ SleepersAsleep' /\ PlacesLookedFor'
      /\ threadsRunning' = Cardinality(InPlace') /\ threadsWaiting' = Cardinality(Waiters')
      => Threads!LimiterInvariant'
<1>1. (threadsRunning \in 0..MaxRunning /\ threadsWaiting \in 0..MaxWaiting
       /\ threadsState \in [Request -> Threads!State] /\ SleepersAsleep /\ PlacesLookedFor
       /\ threadsRunning = Cardinality(InPlace) /\ threadsWaiting = Cardinality(Waiters))'
      => Threads!LimiterInvariant'
  BY ThreadsMade, PTL
<1> QED
  BY <1>1

\* No place is free: nobody has to look for one.
LEMMA NoneFree ==
    ASSUME IsFiniteSet(Request), MaxRunning \in Nat, threadsRunning' \in Nat,
           threadsRunning' >= MaxRunning
    PROVE  PlacesLookedFor'
<1>1. Lookers' \in SUBSET Request
  BY DEF Lookers
<1>2. Cardinality(Lookers') \in Nat
  BY <1>1, SubsetCounted
<1> QED
  BY <1>2 DEF PlacesLookedFor

\* notify, after which r is out: the oldest of the others looks from now on.
LEMMA ThreadsNotified ==
    ASSUME Threads!LimiterInvariant, NEW r \in Request, NEW others,
           others \in Seq(Request), IsInjective(others),
           Range(others) = Range(threadsAsleep) \ {r},
           \/ /\ others = <<>> /\ threadsAsleep' = others
              /\ threadsState' = [threadsState EXCEPT ![r] = "out"]
           \/ /\ others # <<>> /\ threadsAsleep' = Tail(others)
              /\ threadsState' = [threadsState EXCEPT ![r] = "out",
                    ![Head(others)] = IF @ = "waiting" THEN "woken" ELSE @]
    PROVE  /\ threadsState' \in [Request -> Threads!State] /\ SleepersAsleep'
           /\ InPlace' = InPlace \ {r} /\ Waiters' = Waiters \ {r}
           /\ Lookers \ {r} \subseteq Lookers'
           /\ Sleepers' # {} => \E h \in Lookers' : h \notin Lookers
<1>0. /\ threadsState \in [Request -> Threads!State] /\ SleepersAsleep
  BY ThreadsFacts
<1>1. CASE others = <<>>
  <2>1. Range(others) = {}
    BY <1>1 DEF Range
  <2>2. threadsAsleep' = <<>> /\ threadsState' = [threadsState EXCEPT ![r] = "out"]
    BY <1>1
  <2>3. /\ threadsState' \in [Request -> Threads!State]
        /\ threadsState'[r] = "out"
        /\ \A q \in Request \ {r} : threadsState'[q] = threadsState[q]
    BY <1>0, <2>2 DEF Threads!State
  <2>4. Range(threadsAsleep') = {} /\ IsInjective(threadsAsleep')
        /\ threadsAsleep' \in Seq(Request)
    BY <2>2 DEF Range, IsInjective
  <2>5. Sleepers' = {}
    BY <1>0, <2>1, <2>3 DEF Sleepers, SleepersAsleep
  <2>6. SleepersAsleep'
    BY <2>4, <2>5 DEF SleepersAsleep
  <2>7. InPlace' = InPlace \ {r} /\ Waiters' = Waiters \ {r}
    BY <2>3 DEF InPlace, Waiters
  <2>8. Lookers \ {r} \subseteq Lookers'
    BY <2>3, <2>4 DEF Lookers
  <2> QED
    BY <2>3, <2>5, <2>6, <2>7, <2>8
<1>2. CASE others # <<>>
  <2> DEFINE h == Head(others)
  <2>1. /\ h \in Range(threadsAsleep) /\ h # r
        /\ threadsAsleep' \in Seq(Request) /\ IsInjective(threadsAsleep')
        /\ Range(threadsAsleep') = Range(threadsAsleep) \ {r, h}
    BY <1>2, TailElements
  <2>2. threadsState' = [threadsState EXCEPT ![r] = "out",
                           ![h] = IF @ = "waiting" THEN "woken" ELSE @]
    BY <1>2
  <2> HIDE DEF h
  <2>3. h \in Request /\ threadsState[h] \in {"waiting", "expired"}
    BY <1>0, <2>1 DEF SleepersAsleep
  <2>4. /\ threadsState'[r] = "out" /\ threadsState'[h] \in {"woken", "expired"}
        /\ \A q \in Request \ {r, h} : threadsState'[q] = threadsState[q]
        /\ threadsState' \in [Request -> Threads!State]
    BY <1>0, <2>1, <2>2, <2>3 DEF Threads!State
  <2>5. SleepersAsleep'
    <3>1. Sleepers' \subseteq Range(threadsAsleep')
      BY <1>0, <2>1, <2>4 DEF Sleepers, SleepersAsleep
    <3>2. \A q \in Range(threadsAsleep') :
            q \in Request /\ threadsState'[q] \in {"waiting", "expired"}
      BY <1>0, <2>1, <2>4 DEF SleepersAsleep
    <3> QED
      BY <2>1, <3>1, <3>2 DEF SleepersAsleep
  <2>6. InPlace' = InPlace \ {r} /\ Waiters' = Waiters \ {r}
    BY <2>3, <2>4 DEF InPlace, Waiters
  <2>7. Lookers \ {r} \subseteq Lookers'
    BY <2>1, <2>4 DEF Lookers
  <2>8. h \in Lookers' /\ h \notin Lookers
    BY <2>1, <2>3, <2>4 DEF Lookers
  <2> QED
    BY <2>4, <2>5, <2>6, <2>7, <2>8
<1> QED
  BY <1>1, <1>2

LEMMA ThreadsNotify ==
    ASSUME Threads!LimiterInvariant, NEW r \in Request, r \notin Range(threadsAsleep),
           Threads!Notify(r, "out")
    PROVE  /\ threadsState' \in [Request -> Threads!State] /\ SleepersAsleep'
           /\ InPlace' = InPlace \ {r} /\ Waiters' = Waiters \ {r}
           /\ Lookers \ {r} \subseteq Lookers'
           /\ Sleepers' # {} => \E h \in Lookers' : h \notin Lookers
<1>1. /\ threadsAsleep \in Seq(Request) /\ IsInjective(threadsAsleep)
      /\ Range(threadsAsleep) = Range(threadsAsleep) \ {r}
  BY ThreadsFacts DEF SleepersAsleep
<1>2. \/ /\ threadsAsleep = <<>> /\ threadsAsleep' = threadsAsleep
         /\ threadsState' = [threadsState EXCEPT ![r] = "out"]
      \/ /\ threadsAsleep # <<>> /\ threadsAsleep' = Tail(threadsAsleep)
         /\ threadsState' = [threadsState EXCEPT ![r] = "out",
               ![Head(threadsAsleep)] = IF @ = "waiting" THEN "woken" ELSE @]
  BY DEF Threads!Notify
<1> QED
  BY <1>1, <1>2, ThreadsNotified

\* What a step that takes or gives back a place owes to those who sleep.
LEMMA ThreadsPlaces ==
    ASSUME Threads!LimiterInvariant, threadsRunning' \in 0..MaxRunning,
           Sleepers' # {} => Sleepers # {},
           \/ threadsRunning' = threadsRunning /\ Lookers \subseteq Lookers'
           \/ /\ threadsRunning' = threadsRunning + 1
              /\ \E x : Lookers \ {x} \subseteq Lookers'
           \/ /\ threadsRunning' = threadsRunning - 1 /\ Lookers \subseteq Lookers'
              /\ Sleepers' # {} => \E h \in Lookers' : h \notin Lookers
    PROVE  PlacesLookedFor'
<1> SUFFICES ASSUME Sleepers' # {}
             PROVE  MaxRunning - threadsRunning' <= Cardinality(Lookers')
  BY DEF PlacesLookedFor
<1>1. /\ IsFiniteSet(Request) /\ MaxRunning \in Nat /\ threadsRunning \in Nat
      /\ IsFiniteSet(Lookers) /\ Cardinality(Lookers) \in Nat
      /\ MaxRunning - threadsRunning <= Cardinality(Lookers)
  BY ThreadsFacts DEF PlacesLookedFor
<1>2. Lookers' \in SUBSET Request
  BY DEF Lookers
<1>3. IsFiniteSet(Lookers') /\ Cardinality(Lookers') \in Nat
  BY <1>1, <1>2, SubsetCounted
<1>4. CASE threadsRunning' = threadsRunning /\ Lookers \subseteq Lookers'
  <2>1. Cardinality(Lookers) <= Cardinality(Lookers')
    BY <1>3, <1>4, SubsetCounted
  <2> QED
    BY <1>1, <1>3, <1>4, <2>1
<1>5. CASE threadsRunning' = threadsRunning + 1 /\ \E x : Lookers \ {x} \subseteq Lookers'
  <2>1. PICK x : Lookers \ {x} \subseteq Lookers'
    BY <1>5
  <2>2. Cardinality(Lookers \ {x}) <= Cardinality(Lookers')
        /\ Cardinality(Lookers \ {x}) \in Nat
    BY <1>3, <2>1, SubsetCounted
  <2>3. Cardinality(Lookers) - 1 <= Cardinality(Lookers \ {x})
    <3>1. CASE x \in Lookers
      BY <1>1, <3>1, OneJoinsOrLeaves
    <3>2. CASE x \notin Lookers
      <4>1. Lookers \ {x} = Lookers
        BY <3>2
      <4>2. Cardinality(Lookers \ {x}) = Cardinality(Lookers)
        BY <4>1, Zenon
      <4> QED
        BY <1>1, <4>2
    <3> QED
      BY <3>1, <3>2
  <2> QED
    BY <1>1, <1>3, <1>5, <2>2, <2>3
<1>6. CASE /\ threadsRunning' = threadsRunning - 1 /\ Lookers \subseteq Lookers'
           /\ \E h \in Lookers' : h \notin Lookers
  <2>1. PICK h \in Lookers' : h \notin Lookers
    BY <1>6
  <2>2. Lookers \cup {h} \subseteq Lookers'
    BY <1>6, <2>1
  <2>3. Cardinality(Lookers \cup {h}) = Cardinality(Lookers) + 1
    BY <1>1, <2>1, OneJoinsOrLeaves
  <2>4. Cardinality(Lookers \cup {h}) <= Cardinality(Lookers')
    BY <1>3, <2>2, SubsetCounted
  <2> QED
    BY <1>1, <1>3, <1>6, <2>3, <2>4
<1> QED
  BY <1>4, <1>5, <1>6

\* r leaves the waiters of the condition, if it is still among them.
LEMMA ThreadsLeaves ==
    ASSUME SleepersAsleep, NEW r
    PROVE  LET others == Threads!RemoveFirst(threadsAsleep, r) IN
             /\ others \in Seq(Request) /\ IsInjective(others)
             /\ Range(others) = Range(threadsAsleep) \ {r}
BY ThreadsRemoves DEF SleepersAsleep, Left

LEMMA ThreadsAcquireKeeps ==
    ASSUME Threads!LimiterInvariant, NEW r \in Request, Threads!Acquire(r)
    PROVE  Threads!LimiterInvariant'
<1>0. /\ threadsState[r] = "out" /\ threadsState \in [Request -> Threads!State]
      /\ threadsRunning \in 0..MaxRunning /\ threadsWaiting \in 0..MaxWaiting
      /\ MaxRunning \in Nat /\ MaxWaiting \in Nat /\ IsFiniteSet(Request)
      /\ r \notin Range(threadsAsleep) /\ r \notin Lookers
      /\ r \notin InPlace /\ r \notin Waiters
  BY ThreadsFacts DEF Threads!Acquire, SleepersAsleep, Lookers, InPlace, Waiters
<1>1. CASE threadsRunning < MaxRunning /\ Threads!TakesPlace(r)
           /\ UNCHANGED <<threadsWaiting, threadsAsleep>>
  <2>1. /\ threadsRunning' = threadsRunning + 1
        /\ threadsState' = [threadsState EXCEPT ![r] = "in"]
        /\ threadsAsleep' = threadsAsleep /\ threadsWaiting' = threadsWaiting
    BY <1>1 DEF Threads!TakesPlace
  <2>2. /\ threadsState'[r] = "in" /\ threadsState' \in [Request -> Threads!State]
        /\ \A q \in Request \ {r} : threadsState'[q] = threadsState[q]
    BY <1>0, <2>1 DEF Threads!State
  <2>3. /\ InPlace' = InPlace \cup {r} /\ Waiters' = Waiters /\ Lookers' = Lookers
        /\ Sleepers' = Sleepers
    BY <1>0, <2>1, <2>2 DEF InPlace, Waiters, Lookers, Sleepers
  <2>4. SleepersAsleep'
    BY <1>0, <2>1, <2>2, <2>3, ThreadsFacts DEF SleepersAsleep
  <2>5. threadsRunning' = Cardinality(InPlace') /\ threadsRunning' \in 0..MaxRunning
    <3>1. Cardinality(InPlace \cup {r}) = Cardinality(InPlace) + 1
      BY <1>0, ThreadsFacts, OneJoinsOrLeaves
    <3>2. threadsRunning + 1 \in 0..MaxRunning
      BY <1>0, <1>1
    <3> QED
      BY <2>1, <2>3, <3>1, <3>2, ThreadsFacts
  <2>6. PlacesLookedFor'
    BY <2>1, <2>3, <2>5, ThreadsPlaces
  <2> QED
    BY <1>0, <2>1, <2>2, <2>3, <2>4, <2>5, <2>6, ThreadsFacts, ThreadsHolds
<1>2. CASE threadsRunning >= MaxRunning /\ threadsWaiting < MaxWaiting
           /\ threadsWaiting' = threadsWaiting + 1
           /\ Threads!Sleeps(r) /\ UNCHANGED threadsRunning
  <2>1. /\ threadsAsleep' = Append(threadsAsleep, r)
        /\ threadsState' = [threadsState EXCEPT ![r] = "waiting"]
    BY <1>2 DEF Threads!Sleeps
  <2>2. /\ threadsState'[r] = "waiting" /\ threadsState' \in [Request -> Threads!State]
        /\ \A q \in Request \ {r} : threadsState'[q] = threadsState[q]
    BY <1>0, <2>1 DEF Threads!State
  <2>3. /\ threadsAsleep' \in Seq(Request) /\ IsInjective(threadsAsleep')
        /\ Range(threadsAsleep') = Range(threadsAsleep) \cup {r}
    BY <1>0, <2>1, ThreadsFacts, AppendElement DEF SleepersAsleep
  <2>4. InPlace' = InPlace /\ Waiters' = Waiters \cup {r} /\ Sleepers' = Sleepers \cup {r}
    BY <1>0, <2>2 DEF InPlace, Waiters, Sleepers
  <2>5. SleepersAsleep'
    BY <1>0, <2>2, <2>3, <2>4, ThreadsFacts DEF SleepersAsleep
  <2>6. threadsWaiting' = Cardinality(Waiters') /\ threadsWaiting' \in 0..MaxWaiting
    <3>1. Cardinality(Waiters \cup {r}) = Cardinality(Waiters) + 1
      BY <1>0, ThreadsFacts, OneJoinsOrLeaves
    <3>2. threadsWaiting + 1 \in 0..MaxWaiting
      BY <1>0, <1>2
    <3> QED
      BY <1>2, <2>4, <3>1, <3>2, ThreadsFacts
  <2>7. threadsRunning' = threadsRunning /\ threadsRunning' \in Nat
        /\ threadsRunning' >= MaxRunning
    BY <1>2, ThreadsFacts
  <2>8. PlacesLookedFor'
    BY <1>0, <2>7, NoneFree
  <2> QED
    BY <1>0, <2>2, <2>4, <2>5, <2>6, <2>7, <2>8, ThreadsFacts, ThreadsHolds
<1> QED
  BY <1>1, <1>2 DEF Threads!Acquire

LEMMA ThreadsTooLateKeeps ==
    ASSUME Threads!LimiterInvariant, NEW r \in Request, Threads!AcquireTooLate(r)
    PROVE  Threads!LimiterInvariant'
<1>1. /\ threadsState[r] = "out" /\ Threads!Notify(r, "out")
      /\ threadsRunning >= MaxRunning
      /\ threadsRunning' = threadsRunning /\ threadsWaiting' = threadsWaiting
  BY DEF Threads!AcquireTooLate
<1>2. /\ r \notin Range(threadsAsleep) /\ InPlace \ {r} = InPlace
      /\ Waiters \ {r} = Waiters
  BY <1>1, ThreadsFacts DEF SleepersAsleep, InPlace, Waiters
<1>3. /\ threadsState' \in [Request -> Threads!State] /\ SleepersAsleep'
      /\ InPlace' = InPlace /\ Waiters' = Waiters
  BY <1>1, <1>2, ThreadsNotify
<1>4. PlacesLookedFor'
  BY <1>1, ThreadsFacts, NoneFree
<1> QED
  BY <1>1, <1>3, <1>4, ThreadsFacts, ThreadsHolds

LEMMA ThreadsExpireKeeps ==
    ASSUME Threads!LimiterInvariant, NEW r \in Request, Threads!Expire(r)
    PROVE  Threads!LimiterInvariant'
<1>0. /\ threadsState[r] = "waiting" /\ threadsState \in [Request -> Threads!State]
      /\ threadsState' = [threadsState EXCEPT ![r] = "expired"]
      /\ threadsRunning' = threadsRunning /\ threadsWaiting' = threadsWaiting
      /\ SleepersAsleep
  BY ThreadsFacts DEF Threads!Expire
<1>1. /\ threadsAsleep' \in Seq(Request) /\ IsInjective(threadsAsleep')
      /\ Range(threadsAsleep') \subseteq Range(threadsAsleep)
      /\ Range(threadsAsleep) \ {r} \subseteq Range(threadsAsleep')
  <2>1. CASE threadsAsleep' = threadsAsleep
    BY <1>0, <2>1 DEF SleepersAsleep
  <2>2. CASE threadsAsleep' = Threads!RemoveFirst(threadsAsleep, r)
    BY <1>0, <2>2, ThreadsLeaves
  <2> QED
    BY <2>1, <2>2 DEF Threads!Expire
<1>2. /\ threadsState'[r] = "expired" /\ threadsState' \in [Request -> Threads!State]
      /\ \A q \in Request \ {r} : threadsState'[q] = threadsState[q]
  BY <1>0 DEF Threads!State
<1>3. /\ InPlace' = InPlace /\ Waiters' = Waiters /\ Sleepers' = Sleepers \ {r}
      /\ Lookers \subseteq Lookers'
  BY <1>0, <1>1, <1>2 DEF InPlace, Waiters, Sleepers, Lookers
<1>4. SleepersAsleep'
  <2>1. Sleepers' \subseteq Range(threadsAsleep')
    BY <1>0, <1>1, <1>3 DEF SleepersAsleep
  <2>2. \A q \in Range(threadsAsleep') :
          q \in Request /\ threadsState'[q] \in {"waiting", "expired"}
    BY <1>0, <1>1, <1>2 DEF SleepersAsleep
  <2> QED
    BY <1>1, <2>1, <2>2 DEF SleepersAsleep
<1>5. PlacesLookedFor'
  BY <1>0, <1>3, ThreadsFacts, ThreadsPlaces
<1> QED
  BY <1>0, <1>2, <1>3, <1>4, <1>5, ThreadsFacts, ThreadsHolds

LEMMA ThreadsGetsPlaceKeeps ==
    ASSUME Threads!LimiterInvariant, NEW r \in Request, Threads!GetsPlace(r)
    PROVE  Threads!LimiterInvariant'
<1>0. /\ threadsState[r] \in {"woken", "expired"} /\ threadsRunning < MaxRunning
      /\ threadsState \in [Request -> Threads!State]
      /\ threadsState' = [threadsState EXCEPT ![r] = "in"]
      /\ threadsRunning' = threadsRunning + 1 /\ threadsWaiting' = threadsWaiting - 1
      /\ threadsAsleep' = Threads!RemoveFirst(threadsAsleep, r)
      /\ SleepersAsleep
  BY ThreadsFacts DEF Threads!GetsPlace, Threads!TakesPlace
<1>1. /\ threadsAsleep' \in Seq(Request) /\ IsInjective(threadsAsleep')
      /\ Range(threadsAsleep') = Range(threadsAsleep) \ {r}
  BY <1>0, ThreadsLeaves
<1>2. /\ threadsState'[r] = "in" /\ threadsState' \in [Request -> Threads!State]
      /\ \A q \in Request \ {r} : threadsState'[q] = threadsState[q]
  BY <1>0 DEF Threads!State
<1>3. /\ r \notin InPlace /\ InPlace' = InPlace \cup {r}
      /\ r \in Waiters /\ Waiters' = Waiters \ {r} /\ Sleepers' = Sleepers
      /\ Lookers \ {r} \subseteq Lookers'
  BY <1>0, <1>1, <1>2 DEF InPlace, Waiters, Sleepers, Lookers
<1>4. SleepersAsleep'
  <2>1. Sleepers' \subseteq Range(threadsAsleep')
    BY <1>0, <1>1, <1>3 DEF SleepersAsleep, Sleepers
  <2>2. \A q \in Range(threadsAsleep') :
          q \in Request /\ threadsState'[q] \in {"waiting", "expired"}
    BY <1>0, <1>1, <1>2 DEF SleepersAsleep
  <2> QED
    BY <1>1, <2>1, <2>2 DEF SleepersAsleep
<1>5. /\ Cardinality(InPlace') = Cardinality(InPlace) + 1
      /\ Cardinality(Waiters') = Cardinality(Waiters) - 1 /\ Cardinality(Waiters) > 0
  BY <1>3, ThreadsFacts, OneJoinsOrLeaves
<1>6. threadsRunning' \in 0..MaxRunning /\ threadsWaiting' \in 0..MaxWaiting
  BY <1>0, <1>5, ThreadsFacts
<1>7. PlacesLookedFor'
  BY <1>0, <1>3, <1>6, ThreadsPlaces
<1> QED
  BY <1>0, <1>2, <1>4, <1>5, <1>6, <1>7, ThreadsFacts, ThreadsHolds

LEMMA ThreadsWaitsAgainKeeps ==
    ASSUME Threads!LimiterInvariant, NEW r \in Request, Threads!WaitsAgain(r)
    PROVE  Threads!LimiterInvariant'
<1>0. /\ threadsState[r] = "woken" /\ threadsRunning >= MaxRunning
      /\ threadsState \in [Request -> Threads!State]
      /\ threadsState' = [threadsState EXCEPT ![r] = "waiting"]
      /\ threadsRunning' = threadsRunning /\ threadsWaiting' = threadsWaiting
      /\ threadsAsleep' = Append(threadsAsleep, r)
      /\ SleepersAsleep /\ r \notin Range(threadsAsleep)
  BY ThreadsFacts DEF Threads!WaitsAgain, Threads!Sleeps, SleepersAsleep
<1>1. /\ threadsAsleep' \in Seq(Request) /\ IsInjective(threadsAsleep')
      /\ Range(threadsAsleep') = Range(threadsAsleep) \cup {r}
  BY <1>0, AppendElement DEF SleepersAsleep
<1>2. /\ threadsState'[r] = "waiting" /\ threadsState' \in [Request -> Threads!State]
      /\ \A q \in Request \ {r} : threadsState'[q] = threadsState[q]
  BY <1>0 DEF Threads!State
<1>3. InPlace' = InPlace /\ Waiters' = Waiters /\ Sleepers' = Sleepers \cup {r}
  BY <1>0, <1>2 DEF InPlace, Waiters, Sleepers
<1>4. SleepersAsleep'
  <2>1. Sleepers' \subseteq Range(threadsAsleep')
    BY <1>0, <1>1, <1>3 DEF SleepersAsleep
  <2>2. \A q \in Range(threadsAsleep') :
          q \in Request /\ threadsState'[q] \in {"waiting", "expired"}
    BY <1>0, <1>1, <1>2 DEF SleepersAsleep
  <2> QED
    BY <1>1, <2>1, <2>2 DEF SleepersAsleep
<1>5. PlacesLookedFor'
  BY <1>0, ThreadsFacts, NoneFree
<1> QED
  BY <1>0, <1>2, <1>3, <1>4, <1>5, ThreadsFacts, ThreadsHolds

LEMMA ThreadsGivesUpKeeps ==
    ASSUME Threads!LimiterInvariant, NEW r \in Request, Threads!GivesUp(r)
    PROVE  Threads!LimiterInvariant'
<1> DEFINE others == Threads!RemoveFirst(threadsAsleep, r)
<1>0. /\ threadsState[r] \in {"woken", "expired"} /\ threadsRunning >= MaxRunning
      /\ threadsRunning' = threadsRunning /\ threadsWaiting' = threadsWaiting - 1
      /\ \/ /\ others = <<>> /\ threadsAsleep' = others
            /\ threadsState' = [threadsState EXCEPT ![r] = "out"]
         \/ /\ others # <<>> /\ threadsAsleep' = Tail(others)
            /\ threadsState' = [threadsState EXCEPT ![r] = "out",
                  ![Head(others)] = IF @ = "waiting" THEN "woken" ELSE @]
  BY DEF Threads!GivesUp
<1>1. /\ others \in Seq(Request) /\ IsInjective(others)
      /\ Range(others) = Range(threadsAsleep) \ {r}
  BY ThreadsFacts, ThreadsLeaves
<1> HIDE DEF others
<1>2. /\ r \in Waiters /\ r \notin InPlace
  BY <1>0 DEF Waiters, InPlace
<1>3. /\ threadsState' \in [Request -> Threads!State] /\ SleepersAsleep'
      /\ InPlace' = InPlace \ {r} /\ Waiters' = Waiters \ {r}
  BY <1>0, <1>1, ThreadsNotified
<1>4. /\ InPlace' = InPlace
      /\ Cardinality(Waiters') = Cardinality(Waiters) - 1 /\ Cardinality(Waiters) > 0
  BY <1>2, <1>3, ThreadsFacts, OneJoinsOrLeaves
<1>5. threadsWaiting' \in 0..MaxWaiting /\ threadsWaiting' = Cardinality(Waiters')
  BY <1>0, <1>4, ThreadsFacts
<1>6. PlacesLookedFor'
  BY <1>0, ThreadsFacts, NoneFree
<1> QED
  BY <1>0, <1>3, <1>4, <1>5, <1>6, ThreadsFacts, ThreadsHolds

LEMMA ThreadsReleaseKeeps ==
    ASSUME Threads!LimiterInvariant, NEW r \in Request, Threads!Release(r)
    PROVE  Threads!LimiterInvariant'
<1>0. /\ threadsState[r] = "in" /\ Threads!Notify(r, "out")
      /\ threadsRunning' = threadsRunning - 1 /\ threadsWaiting' = threadsWaiting
  BY DEF Threads!Release
<1>1. /\ r \notin Range(threadsAsleep) /\ r \in InPlace /\ r \notin Waiters
      /\ r \notin Lookers
  BY <1>0, ThreadsFacts DEF SleepersAsleep, InPlace, Waiters, Lookers
<1>2. /\ threadsState' \in [Request -> Threads!State] /\ SleepersAsleep'
      /\ InPlace' = InPlace \ {r} /\ Waiters' = Waiters \ {r}
      /\ Lookers \ {r} \subseteq Lookers'
      /\ Sleepers' # {} => \E h \in Lookers' : h \notin Lookers
  BY <1>0, <1>1, ThreadsNotify
<1>3. Waiters' = Waiters /\ Lookers \subseteq Lookers'
  BY <1>1, <1>2
<1>4. Cardinality(InPlace') = Cardinality(InPlace) - 1 /\ Cardinality(InPlace) > 0
  BY <1>1, <1>2, ThreadsFacts, OneJoinsOrLeaves
<1>5. threadsRunning' \in 0..MaxRunning /\ threadsRunning' = Cardinality(InPlace')
  BY <1>0, <1>4, ThreadsFacts
<1>6. Sleepers' # {} => Sleepers # {}
  <2>1. CASE threadsAsleep = <<>>
    <3>1. threadsState' = [threadsState EXCEPT ![r] = "out"]
      BY <1>0, <2>1 DEF Threads!Notify
    <3> QED
      BY <3>1, ThreadsFacts DEF Sleepers
  <2>2. CASE threadsAsleep # <<>>
    <3>1. threadsState' = [threadsState EXCEPT ![r] = "out",
               ![Head(threadsAsleep)] = IF @ = "waiting" THEN "woken" ELSE @]
      BY <1>0, <2>2 DEF Threads!Notify
    <3> QED
      BY <3>1, ThreadsFacts DEF Sleepers
  <2> QED
    BY <2>1, <2>2
<1>7. PlacesLookedFor'
  BY <1>0, <1>2, <1>3, <1>5, <1>6, ThreadsPlaces
<1> QED
  BY <1>0, <1>2, <1>3, <1>5, <1>7, ThreadsFacts, ThreadsHolds

LEMMA ThreadsNextKeeps ==
    Threads!LimiterInvariant /\ [Threads!Next]_(Threads!vars) => Threads!LimiterInvariant'
<1> SUFFICES ASSUME Threads!LimiterInvariant, [Threads!Next]_(Threads!vars)
             PROVE  Threads!LimiterInvariant'
  OBVIOUS
<1>1. CASE UNCHANGED Threads!vars
  <2>1. /\ threadsRunning' = threadsRunning /\ threadsWaiting' = threadsWaiting
        /\ threadsAsleep' = threadsAsleep /\ threadsState' = threadsState
    BY <1>1 DEF Threads!vars
  <2>2. /\ InPlace' = InPlace /\ Waiters' = Waiters /\ SleepersAsleep' /\ PlacesLookedFor'
    BY <2>1, ThreadsFacts
       DEF InPlace, Waiters, SleepersAsleep, PlacesLookedFor, Sleepers, Lookers
  <2> QED
    BY <2>1, <2>2, ThreadsFacts, ThreadsHolds
<1>2. CASE Threads!Next
  BY <1>2, ThreadsAcquireKeeps, ThreadsTooLateKeeps, ThreadsExpireKeeps,
     ThreadsGetsPlaceKeeps, ThreadsWaitsAgainKeeps, ThreadsGivesUpKeeps,
     ThreadsReleaseKeeps DEF Threads!Next, Threads!GoesOn
<1> QED
  BY <1>1, <1>2

LEMMA ThreadsInit == Threads!Init => Threads!LimiterInvariant
<1> SUFFICES ASSUME Threads!Init PROVE Threads!LimiterInvariant
  OBVIOUS
<1>1. /\ threadsRunning = 0 /\ threadsWaiting = 0 /\ threadsAsleep = <<>>
      /\ threadsState = [r \in Request |-> "out"]
      /\ MaxRunning \in Nat /\ MaxWaiting \in Nat
  BY LimitAssumption DEF Threads!Init, Threads!LimiterAssumption
<1>2. InPlace = {} /\ Waiters = {} /\ Sleepers = {}
  BY <1>1 DEF InPlace, Waiters, Sleepers
<1>3. Cardinality({}) = 0
  BY FS_EmptySet
<1>4. SleepersAsleep /\ PlacesLookedFor
  <2>1. Range(threadsAsleep) = {} /\ IsInjective(threadsAsleep)
        /\ threadsAsleep \in Seq(Request)
    BY <1>1 DEF Range, IsInjective
  <2> QED
    BY <1>2, <2>1 DEF SleepersAsleep, PlacesLookedFor
<1> QED
  BY <1>1, <1>2, <1>3, <1>4, ThreadsMade DEF Threads!State

LEMMA ThreadsAreRight == Spec => []Threads!LimiterInvariant
<1>1. Init => Threads!LimiterInvariant
  BY ThreadsInit DEF Init
<1>2. Threads!LimiterInvariant /\ [Next]_vars => Threads!LimiterInvariant'
  BY ThreadsStep, ThreadsNextKeeps
<1> QED
  BY <1>1, <1>2, PTL DEF Spec

-----------------------------------------------------------------------------
(* The limiter of the VTON and LLM calls (ConcurrencyLimiter).             *)

LEMMA VtonStep == [Next]_vars => [Vton!Next]_(Vton!vars)
BY DEF Next, OthersRest, vars, vton, Vton!vars

LEMMA VtonWords ==
    /\ \A S : Vton!IsFiniteSet(S) <=> IsFiniteSet(S)
    /\ \A S : Vton!Cardinality(S) = Cardinality(S)
    /\ \A f : Vton!IsInjective(f) <=> IsInjective(f)
    /\ \A f : Vton!Range(f) = Range(f)
<1>1. \A S : Vton!IsFiniteSet(S) <=> IsFiniteSet(S)
  BY DEF Vton!IsFiniteSet, IsFiniteSet
<1>2. \A S : Vton!Cardinality(S) = Cardinality(S)
  BY DEF Vton!Cardinality, Cardinality
<1>3. /\ \A f : Vton!IsInjective(f) <=> IsInjective(f)
      /\ \A f : Vton!Range(f) = Range(f)
  BY DEF Vton!IsInjective, IsInjective, Vton!Range, Range
<1> QED
  BY <1>1, <1>2, <1>3

LEMMA VtonRemoveFirst ==
    ASSUME NEW S, NEW s \in Seq(S), IsInjective(s), NEW i \in 1..Len(s)
    PROVE  Vton!RemoveFirst(s, s[i]) = Without(s, i)
<1> DEFINE e == s[i]
<1>1. s[i] = e
  OBVIOUS
<1> HIDE DEF e
<1>2. {j \in 1..Len(s) : s[j] = e} = {i}
  BY <1>1, OnePlace
<1>3. Vton!Min({i}) = i
  BY DEF Vton!Min
<1>4. Vton!SelectInSeq(s, LAMBDA v : v = e) = i
  BY <1>2, <1>3 DEF Vton!SelectInSeq
<1>5. Vton!RemoveFirst(s, e) = Without(s, i)
  BY <1>1, <1>4 DEF Vton!RemoveFirst, Vton!RemoveAt, Without
<1> QED
  BY <1>5 DEF e

LEMMA VtonRemoves ==
    ASSUME NEW S, NEW s \in Seq(S), IsInjective(s), NEW e
    PROVE  Vton!RemoveFirst(s, e) \in Seq(S) /\ Left(s, e, Vton!RemoveFirst(s, e))
<1>0. DOMAIN s = 1..Len(s)
  OBVIOUS
<1>1. CASE \E i \in 1..Len(s) : s[i] = e
  <2>1. PICK i \in 1..Len(s) : s[i] = e
    BY <1>1
  <2>2. Vton!RemoveFirst(s, e) = Without(s, i)
    BY <2>1, VtonRemoveFirst
  <2> QED
    BY <2>1, <2>2, TakenOut
<1>2. CASE ~ \E i \in 1..Len(s) : s[i] = e
  <2>1. Vton!RemoveFirst(s, e) = s
    BY <1>2 DEF Vton!RemoveFirst
  <2>2. e \notin Range(s)
    BY <1>0, <1>2 DEF Range
  <2> QED
    BY <2>1, <2>2, TakenOut
<1> QED
  BY <1>1, <1>2

Placed == {r \in Request : vtonState[r] \in {"handed", "handedStopped", "in"}}
Unserved == {r \in Request : vtonState[r] = "waiting"}

WaitersQueued ==
    /\ vtonWaiters \in Seq(Request) /\ IsInjective(vtonWaiters)
    /\ Unserved \subseteq Range(vtonWaiters)
    /\ \A r \in Range(vtonWaiters) :
           r \in Request /\ vtonState[r] \in {"waiting", "stopped"}

LEMMA VtonFacts ==
    ASSUME Vton!LimiterInvariant
    PROVE  /\ IsFiniteSet(Request) /\ MaxRunning \in Nat /\ MaxWaiting \in Nat
           /\ vtonRunning \in 0..MaxRunning /\ vtonRunning \in Nat
           /\ vtonState \in [Request -> Vton!State]
           /\ WaitersQueued /\ Len(vtonWaiters) <= MaxWaiting
           /\ Unserved # {} => vtonRunning = MaxRunning
           /\ IsFiniteSet(Placed) /\ vtonRunning = Cardinality(Placed)
<1>1. IsFiniteSet(Request) /\ MaxRunning \in Nat /\ MaxWaiting \in Nat
  BY LimitAssumption, VtonWords DEF Vton!LimiterAssumption
<1>2. /\ Vton!HasPlace = Placed /\ Vton!In({"waiting"}) = Unserved
  BY DEF Vton!In, Vton!HasPlace, Placed, Unserved
<1>3. Placed \in SUBSET Request
  BY DEF Placed
<1>4. IsFiniteSet(Placed)
  BY <1>1, <1>3, SubsetCounted
<1>5. /\ vtonRunning \in 0..MaxRunning /\ vtonState \in [Request -> Vton!State]
      /\ vtonWaiters \in Seq(Request) /\ Len(vtonWaiters) <= MaxWaiting
  BY DEF Vton!LimiterInvariant, Vton!TypeOK
<1>6. WaitersQueued
  BY <1>2, <1>5, VtonWords
     DEF Vton!LimiterInvariant, Vton!WaitersFit, Vton!In, WaitersQueued
<1>7. /\ vtonRunning = Cardinality(Placed)
      /\ Unserved # {} => vtonRunning = MaxRunning
  BY <1>2, VtonWords
     DEF Vton!LimiterInvariant, Vton!PlacesCounted, Vton!NoIdlePlace
<1> QED
  BY <1>1, <1>4, <1>5, <1>6, <1>7

LEMMA VtonMade ==
    ASSUME vtonRunning \in 0..MaxRunning, vtonState \in [Request -> Vton!State],
           WaitersQueued, Len(vtonWaiters) <= MaxWaiting,
           Unserved # {} => vtonRunning = MaxRunning, vtonRunning = Cardinality(Placed)
    PROVE  Vton!LimiterInvariant
<1>1. /\ Vton!HasPlace = Placed /\ Vton!In({"waiting"}) = Unserved
  BY DEF Vton!In, Vton!HasPlace, Placed, Unserved
<1>2. Vton!TypeOK
  BY DEF Vton!TypeOK, WaitersQueued
<1>3. Vton!PlacesCounted /\ Vton!NoIdlePlace
  BY <1>1, VtonWords DEF Vton!PlacesCounted, Vton!NoIdlePlace
<1>4. Vton!WaitersFit
  BY <1>1, VtonWords DEF Vton!WaitersFit, WaitersQueued, Vton!In
<1> QED
  BY <1>2, <1>3, <1>4 DEF Vton!LimiterInvariant

LEMMA VtonHolds ==
    vtonRunning' \in 0..MaxRunning /\ vtonState' \in [Request -> Vton!State]
      /\ WaitersQueued' /\ Len(vtonWaiters') <= MaxWaiting
      /\ (Unserved' # {} => vtonRunning' = MaxRunning)
      /\ vtonRunning' = Cardinality(Placed')
      => Vton!LimiterInvariant'
<1>1. (vtonRunning \in 0..MaxRunning /\ vtonState \in [Request -> Vton!State]
       /\ WaitersQueued /\ Len(vtonWaiters) <= MaxWaiting
       /\ (Unserved # {} => vtonRunning = MaxRunning)
       /\ vtonRunning = Cardinality(Placed))' => Vton!LimiterInvariant'
  BY VtonMade, PTL
<1> QED
  BY <1>1

LEMMA VtonAcquireKeeps ==
    ASSUME Vton!LimiterInvariant, NEW r \in Request, Vton!Acquire(r)
    PROVE  Vton!LimiterInvariant'
<1>0. /\ vtonState[r] = "out" /\ vtonState \in [Request -> Vton!State]
      /\ vtonRunning \in 0..MaxRunning /\ MaxRunning \in Nat /\ MaxWaiting \in Nat
      /\ r \notin Range(vtonWaiters) /\ r \notin Placed /\ WaitersQueued
      /\ Len(vtonWaiters) <= MaxWaiting
  BY VtonFacts DEF Vton!Acquire, WaitersQueued, Placed
<1>1. CASE /\ vtonRunning < MaxRunning /\ vtonRunning' = vtonRunning + 1
           /\ vtonState' = Vton!Becomes(r, "in") /\ UNCHANGED vtonWaiters
  <2>1. vtonState' = [vtonState EXCEPT ![r] = "in"] /\ vtonWaiters' = vtonWaiters
    BY <1>1 DEF Vton!Becomes
  <2>2. /\ vtonState'[r] = "in" /\ vtonState' \in [Request -> Vton!State]
        /\ \A q \in Request \ {r} : vtonState'[q] = vtonState[q]
    BY <1>0, <2>1 DEF Vton!State
  <2>3. Placed' = Placed \cup {r} /\ Unserved' = Unserved
    BY <1>0, <2>2 DEF Placed, Unserved
  <2>4. Unserved = {}
    BY <1>0, <1>1, VtonFacts
  <2>5. WaitersQueued'
    BY <1>0, <2>1, <2>2, <2>3 DEF WaitersQueued
  <2>6. vtonRunning' = Cardinality(Placed')
    <3>1. Cardinality(Placed \cup {r}) = Cardinality(Placed) + 1
      BY <1>0, VtonFacts, OneJoinsOrLeaves
    <3> QED
      BY <1>1, <2>3, <3>1, VtonFacts
  <2>7. vtonRunning' \in 0..MaxRunning
    BY <1>0, <1>1
  <2> QED
    BY <1>0, <2>1, <2>2, <2>3, <2>4, <2>5, <2>6, <2>7, VtonHolds
<1>2. CASE /\ vtonRunning >= MaxRunning /\ Len(vtonWaiters) < MaxWaiting
           /\ vtonWaiters' = Append(vtonWaiters, r)
           /\ vtonState' = Vton!Becomes(r, "waiting") /\ UNCHANGED vtonRunning
  <2>1. vtonState' = [vtonState EXCEPT ![r] = "waiting"]
    BY <1>2 DEF Vton!Becomes
  <2>2. /\ vtonState'[r] = "waiting" /\ vtonState' \in [Request -> Vton!State]
        /\ \A q \in Request \ {r} : vtonState'[q] = vtonState[q]
    BY <1>0, <2>1 DEF Vton!State
  <2>3. Placed' = Placed /\ Unserved' = Unserved \cup {r}
    BY <1>0, <2>2 DEF Placed, Unserved
  <2>4. /\ vtonWaiters' \in Seq(Request) /\ IsInjective(vtonWaiters')
        /\ Range(vtonWaiters') = Range(vtonWaiters) \cup {r}
        /\ Len(vtonWaiters') = Len(vtonWaiters) + 1
    BY <1>0, <1>2, AppendElement DEF WaitersQueued
  <2>5. WaitersQueued'
    BY <1>0, <2>2, <2>3, <2>4 DEF WaitersQueued
  <2>6. Len(vtonWaiters') <= MaxWaiting
    <3>1. Len(vtonWaiters) \in Nat
      BY <1>0 DEF WaitersQueued
    <3> QED
      BY <1>0, <1>2, <2>4, <3>1
  <2>7. vtonRunning' = MaxRunning /\ vtonRunning' = vtonRunning
    BY <1>0, <1>2
  <2> QED
    BY <1>0, <2>2, <2>3, <2>5, <2>6, <2>7, VtonFacts, VtonHolds
<1> QED
  BY <1>1, <1>2 DEF Vton!Acquire

\* A request that goes on, or stops waiting, keeps what it has.
LEMMA VtonWaitKeeps ==
    ASSUME Vton!LimiterInvariant, NEW r \in Request, Vton!Stop(r) \/ Vton!GoOn(r)
    PROVE  Vton!LimiterInvariant'
<1>1. PICK s \in {"stopped", "handedStopped", "in"} :
        /\ IF s = "stopped" THEN vtonState[r] = "waiting" ELSE vtonState[r] = "handed"
        /\ vtonState' = [vtonState EXCEPT ![r] = s]
        /\ vtonRunning' = vtonRunning /\ vtonWaiters' = vtonWaiters
  BY DEF Vton!Stop, Vton!GoOn, Vton!Becomes
<1>2. /\ vtonState'[r] = s /\ vtonState' \in [Request -> Vton!State]
      /\ \A q \in Request \ {r} : vtonState'[q] = vtonState[q]
  BY <1>1, VtonFacts DEF Vton!State
<1>3. Placed' = Placed /\ Unserved' \subseteq Unserved
  BY <1>1, <1>2 DEF Placed, Unserved
<1>4. WaitersQueued'
  BY <1>1, <1>2, <1>3, VtonFacts DEF WaitersQueued
<1> QED
  BY <1>1, <1>2, <1>3, <1>4, VtonFacts, VtonHolds

LEMMA VtonFirst ==
    ASSUME Vton!LimiterInvariant, Vton!Pending # {}
    PROVE  /\ Vton!First(Vton!Pending) \in Vton!Pending
           /\ \A j \in Vton!Pending : Vton!First(Vton!Pending) <= j
<1>1. Vton!Pending \in SUBSET Nat
  <2>1. DOMAIN vtonWaiters = 1..Len(vtonWaiters) /\ Len(vtonWaiters) \in Nat
    BY VtonFacts DEF WaitersQueued
  <2> QED
    BY <2>1 DEF Vton!Pending
<1>2. \E k \in Vton!Pending : \A j \in Vton!Pending : k <= j
  BY <1>1, LeastOf
<1> QED
  BY <1>2 DEF Vton!First

LEMMA VtonGiveBackKeeps ==
    ASSUME Vton!LimiterInvariant, NEW r \in Request,
           vtonState[r] \in {"handedStopped", "in"}, Vton!GiveBack(r)
    PROVE  Vton!LimiterInvariant'
<1>0. /\ vtonState \in [Request -> Vton!State] /\ WaitersQueued
      /\ r \in Placed /\ r \notin Range(vtonWaiters)
      /\ DOMAIN vtonWaiters = 1..Len(vtonWaiters) /\ Len(vtonWaiters) \in Nat
  BY VtonFacts DEF WaitersQueued, Placed
<1>1. CASE Vton!Pending = {}
  <2>1. /\ vtonWaiters' = <<>> /\ vtonRunning' = vtonRunning - 1
        /\ vtonState' = [vtonState EXCEPT ![r] = "out"]
    BY <1>1 DEF Vton!GiveBack, Vton!Becomes
  <2>2. /\ vtonState'[r] = "out" /\ vtonState' \in [Request -> Vton!State]
        /\ \A q \in Request \ {r} : vtonState'[q] = vtonState[q]
    BY <1>0, <2>1 DEF Vton!State
  <2>3. Unserved = {}
    BY <1>0, <1>1 DEF Unserved, WaitersQueued, Vton!Pending, Range
  <2>4. Placed' = Placed \ {r} /\ Unserved' = {}
    BY <2>2, <2>3 DEF Placed, Unserved
  <2>5. Cardinality(Placed') = Cardinality(Placed) - 1 /\ Cardinality(Placed) > 0
    BY <1>0, <2>4, VtonFacts, OneJoinsOrLeaves
  <2>6. vtonRunning' \in 0..MaxRunning /\ vtonRunning' = Cardinality(Placed')
    BY <2>1, <2>5, VtonFacts
  <2>7. /\ Range(vtonWaiters') = {} /\ IsInjective(vtonWaiters')
        /\ vtonWaiters' \in Seq(Request) /\ Len(vtonWaiters') = 0
    BY <2>1 DEF Range, IsInjective
  <2>8. WaitersQueued'
    BY <2>4, <2>7 DEF WaitersQueued
  <2> QED
    BY <2>2, <2>4, <2>6, <2>7, <2>8, VtonFacts, VtonHolds
<1>2. CASE Vton!Pending # {}
  <2> DEFINE i == Vton!First(Vton!Pending)
             w == vtonWaiters[i]
             behind == SubSeq(vtonWaiters, i + 1, Len(vtonWaiters))
  <2>1. /\ vtonWaiters' = behind /\ vtonRunning' = vtonRunning
        /\ vtonState' = [[vtonState EXCEPT ![r] = "out"] EXCEPT ![w] = "handed"]
    BY <1>2 DEF Vton!GiveBack, Vton!Becomes
  <2>2. i \in Vton!Pending /\ \A j \in Vton!Pending : i <= j
    BY <1>2, VtonFirst
  <2> HIDE DEF i
  <2>3. i \in 1..Len(vtonWaiters) /\ vtonState[w] = "waiting" /\ w \in Range(vtonWaiters)
    BY <1>0, <2>2 DEF Vton!Pending, Range
  <2>4. /\ behind \in Seq(Request) /\ Len(behind) <= Len(vtonWaiters) /\ IsInjective(behind)
        /\ Range(behind) = {vtonWaiters[j] : j \in (i + 1)..Len(vtonWaiters)}
    BY <1>0, <2>3, RestElements DEF WaitersQueued
  <2>5. Range(behind) \subseteq Range(vtonWaiters) \ {w}
    <3>1. \A j \in (i + 1)..Len(vtonWaiters) : j \in 1..Len(vtonWaiters) /\ j # i
      BY <1>0, <2>3
    <3> QED
      BY <1>0, <2>3, <2>4, <3>1 DEF WaitersQueued, IsInjective, Range
  <2>6. Unserved \ {w} \subseteq Range(behind)
    <3> SUFFICES ASSUME NEW q \in Unserved, q # w PROVE q \in Range(behind)
      OBVIOUS
    <3>1. PICK j \in 1..Len(vtonWaiters) : q = vtonWaiters[j]
      BY <1>0 DEF WaitersQueued, Range
    <3>2. j \in Vton!Pending
      BY <1>0, <3>1 DEF Vton!Pending, Unserved
    <3>3. i <= j /\ j # i
      BY <2>2, <3>1, <3>2
    <3>4. j \in (i + 1)..Len(vtonWaiters)
      BY <1>0, <2>3, <3>3
    <3> QED
      BY <2>4, <3>1, <3>4
  <2> HIDE DEF w, behind
  <2>7. w \in Request /\ w # r /\ w \notin Placed /\ w \in Unserved
    BY <1>0, <2>3 DEF WaitersQueued, Placed, Unserved
  <2>8. /\ vtonState'[r] = "out" /\ vtonState'[w] = "handed"
        /\ vtonState' \in [Request -> Vton!State]
        /\ \A q \in Request \ {r, w} : vtonState'[q] = vtonState[q]
    BY <1>0, <2>1, <2>7 DEF Vton!State
  <2>9. Placed' = (Placed \ {r}) \cup {w} /\ Unserved' = Unserved \ {w}
    BY <1>0, <2>7, <2>8 DEF Placed, Unserved
  <2>10. Cardinality(Placed') = Cardinality(Placed)
    BY <1>0, <2>7, <2>9, VtonFacts, SwapKeepsCount
  <2>11. WaitersQueued'
    <3>1. Unserved' \subseteq Range(vtonWaiters')
      BY <2>1, <2>6, <2>9
    <3>2. \A q \in Range(vtonWaiters') :
            q \in Request /\ vtonState'[q] \in {"waiting", "stopped"}
      BY <1>0, <2>1, <2>5, <2>8 DEF WaitersQueued
    <3> QED
      BY <2>1, <2>4, <3>1, <3>2 DEF WaitersQueued
  <2>12. Len(vtonWaiters') <= MaxWaiting
    <3>1. Len(behind) \in Nat
      BY <2>4
    <3> QED
      BY <1>0, <2>1, <2>4, <3>1, VtonFacts
  <2> QED
    BY <2>1, <2>8, <2>9, <2>10, <2>11, <2>12, VtonFacts, VtonHolds
<1> QED
  BY <1>1, <1>2

LEMMA VtonCleanUpKeeps ==
    ASSUME Vton!LimiterInvariant, NEW r \in Request, Vton!CleanUp(r)
    PROVE  Vton!LimiterInvariant'
<1>1. CASE vtonState[r] = "handedStopped" /\ Vton!GiveBack(r)
  BY <1>1, VtonGiveBackKeeps
<1>2. CASE /\ vtonState[r] = "stopped" /\ UNCHANGED vtonRunning
           /\ vtonWaiters' = Vton!RemoveFirst(vtonWaiters, r)
           /\ vtonState' = Vton!Becomes(r, "out")
  <2>0. vtonState' = [vtonState EXCEPT ![r] = "out"] /\ vtonRunning' = vtonRunning
    BY <1>2 DEF Vton!Becomes
  <2>1. /\ vtonWaiters' \in Seq(Request) /\ IsInjective(vtonWaiters')
        /\ Range(vtonWaiters') = Range(vtonWaiters) \ {r}
        /\ Len(vtonWaiters') <= Len(vtonWaiters)
    BY <1>2, VtonFacts, VtonRemoves DEF WaitersQueued, Left
  <2>2. /\ vtonState'[r] = "out" /\ vtonState' \in [Request -> Vton!State]
        /\ \A q \in Request \ {r} : vtonState'[q] = vtonState[q]
    BY <2>0, VtonFacts DEF Vton!State
  <2>3. Placed' = Placed /\ Unserved' = Unserved
    BY <1>2, <2>2 DEF Placed, Unserved
  <2>4. WaitersQueued'
    <3>1. Unserved' \subseteq Range(vtonWaiters')
      BY <1>2, <2>1, <2>3, VtonFacts DEF WaitersQueued, Unserved
    <3>2. \A q \in Range(vtonWaiters') :
            q \in Request /\ vtonState'[q] \in {"waiting", "stopped"}
      BY <2>1, <2>2, VtonFacts DEF WaitersQueued
    <3> QED
      BY <2>1, <3>1, <3>2 DEF WaitersQueued
  <2>5. Len(vtonWaiters') <= MaxWaiting
    <3>1. Len(vtonWaiters') \in Nat /\ Len(vtonWaiters) \in Nat
      BY <2>1, VtonFacts DEF WaitersQueued
    <3> QED
      BY <2>1, <3>1, VtonFacts
  <2> QED
    BY <2>0, <2>2, <2>3, <2>4, <2>5, VtonFacts, VtonHolds
<1> QED
  BY <1>1, <1>2 DEF Vton!CleanUp

LEMMA VtonNextKeeps ==
    Vton!LimiterInvariant /\ [Vton!Next]_(Vton!vars) => Vton!LimiterInvariant'
<1> SUFFICES ASSUME Vton!LimiterInvariant, [Vton!Next]_(Vton!vars)
             PROVE  Vton!LimiterInvariant'
  OBVIOUS
<1>1. CASE UNCHANGED Vton!vars
  <2>1. /\ vtonRunning' = vtonRunning /\ vtonWaiters' = vtonWaiters
        /\ vtonState' = vtonState
    BY <1>1 DEF Vton!vars
  <2>2. Placed' = Placed /\ Unserved' = Unserved /\ WaitersQueued'
    BY <2>1, VtonFacts DEF Placed, Unserved, WaitersQueued
  <2> QED
    BY <2>1, <2>2, VtonFacts, VtonHolds
<1>2. CASE Vton!Next
  <2>1. PICK r \in Request : \/ Vton!Acquire(r) \/ Vton!Stop(r) \/ Vton!GoOn(r)
                             \/ Vton!CleanUp(r) \/ Vton!Release(r)
    BY <1>2 DEF Vton!Next, Vton!GoesOn
  <2>2. CASE Vton!Release(r)
    BY <2>2, VtonGiveBackKeeps DEF Vton!Release
  <2> QED
    BY <2>1, <2>2, VtonAcquireKeeps, VtonWaitKeeps, VtonCleanUpKeeps
<1> QED
  BY <1>1, <1>2

LEMMA VtonInit == Vton!Init => Vton!LimiterInvariant
<1> SUFFICES ASSUME Vton!Init PROVE Vton!LimiterInvariant
  OBVIOUS
<1>1. /\ vtonRunning = 0 /\ vtonWaiters = <<>>
      /\ vtonState = [r \in Request |-> "out"]
      /\ MaxRunning \in Nat /\ MaxWaiting \in Nat
  BY LimitAssumption DEF Vton!Init, Vton!LimiterAssumption
<1>2. Placed = {} /\ Unserved = {}
  BY <1>1 DEF Placed, Unserved
<1>3. Cardinality({}) = 0
  BY FS_EmptySet
<1>4. WaitersQueued
  <2>1. Range(vtonWaiters) = {} /\ IsInjective(vtonWaiters) /\ vtonWaiters \in Seq(Request)
    BY <1>1 DEF Range, IsInjective
  <2> QED
    BY <1>2, <2>1 DEF WaitersQueued
<1>5. Len(vtonWaiters) <= MaxWaiting
  BY <1>1
<1> QED
  BY <1>1, <1>2, <1>3, <1>4, <1>5, VtonMade DEF Vton!State

LEMMA VtonIsRight == Spec => []Vton!LimiterInvariant
<1>1. Init => Vton!LimiterInvariant
  BY VtonInit DEF Init
<1>2. Vton!LimiterInvariant /\ [Next]_vars => Vton!LimiterInvariant'
  BY VtonStep, VtonNextKeeps
<1> QED
  BY <1>1, <1>2, PTL DEF Spec

\* The queue of FifoSlots: there is one order of those who wait.
Waiting == Vton!StillWaiting

LEMMA VtonOrder ==
    ASSUME IsFiniteSet(Request), WaitersQueued, NEW s, InOrder(s, vtonWaiters, Unserved)
    PROVE  Waiting = s
<1> DEFINE D == 1..Cardinality(Unserved)
           Ordered(t) == \A i, j \in DOMAIN t : i < j => Vton!CameBefore(t[i], t[j])
           Orders == {f \in [D -> Unserved] : \A i, j \in D : i # j => f[i] # f[j]}
<1>1. /\ DOMAIN vtonWaiters = 1..Len(vtonWaiters)
      /\ vtonWaiters \in Seq(Request) /\ IsInjective(vtonWaiters)
  BY DEF WaitersQueued
<1>2. \A a, b : Vton!CameBefore(a, b) <=> Ahead(vtonWaiters, a, b)
  BY <1>1 DEF Vton!CameBefore, Ahead
<1>3. IsFiniteSet(Unserved) /\ Cardinality(Unserved) \in Nat
  <2>1. Unserved \in SUBSET Request
    BY DEF Unserved
  <2> QED
    BY <2>1, SubsetCounted
<1>4. Vton!SetToSeqs(Vton!In({"waiting"})) = Orders
  <2>1. Vton!In({"waiting"}) = Unserved
    BY DEF Vton!In, Unserved
  <2> QED
    BY <2>1, VtonWords DEF Vton!SetToSeqs
<1>5. s \in Orders /\ Ordered(s)
  <2>1. /\ s \in Seq(Unserved) /\ Len(s) \in Nat /\ DOMAIN s = 1..Len(s)
        /\ IsInjective(s) /\ Range(s) = Unserved
    BY DEF InOrder
  <2>2. Len(s) = Cardinality(Unserved)
    BY <2>1, CountedOnce
  <2>3. \A i, j \in 1..Len(s) : i < j => Ahead(vtonWaiters, s[i], s[j])
    BY DEF InOrder
  <2> QED
    BY <1>2, <2>1, <2>2, <2>3 DEF IsInjective
<1>6. ASSUME NEW t \in Orders, Ordered(t) PROVE t = s
  <2>1. /\ t \in [D -> Unserved] /\ DOMAIN t = D
        /\ \A i, j \in D : i # j => t[i] # t[j]
    BY <1>6
  <2>2. t \in Seq(Unserved) /\ Len(t) = Cardinality(Unserved) /\ IsInjective(t)
    BY <1>3, <2>1 DEF IsInjective
  <2>3. Range(t) = Unserved
    <3>1. Range(t) \in SUBSET Unserved
      BY <2>1 DEF Range
    <3>2. IsFiniteSet(Range(t)) /\ Cardinality(Range(t)) = Cardinality(Unserved)
      BY <2>2, CountedOnce
    <3> QED
      BY <1>3, <3>1, <3>2, FS_Subset
  <2>4. \A i, j \in 1..Len(t) : i < j => Ahead(vtonWaiters, t[i], t[j])
    BY <1>2, <1>6, <2>1, <2>2
  <2>5. InOrder(t, vtonWaiters, Unserved)
    BY <2>2, <2>3, <2>4 DEF InOrder
  <2> QED
    BY <1>1, <2>5, OneOrder
<1> HIDE DEF Orders, Ordered, D
<1>7. Waiting = CHOOSE t \in Orders : Ordered(t)
  BY <1>4 DEF Waiting, Vton!StillWaiting, Ordered
<1> QED
  BY <1>5, <1>6, <1>7

\* There is such an order.
OrderExists == \E s : InOrder(s, vtonWaiters, Unserved)

LEMMA VtonOrdered ==
    ASSUME Vton!LimiterInvariant, OrderExists
    PROVE  InOrder(Waiting, vtonWaiters, Unserved)
<1>1. PICK s : InOrder(s, vtonWaiters, Unserved)
  BY DEF OrderExists
<1> QED
  BY <1>1, VtonFacts, VtonOrder

NoOtherOrder ==
    \A s : Vton!LimiterInvariant /\ InOrder(s, vtonWaiters, Unserved)
             => Waiting = s /\ OrderExists

LEMMA VtonOneOrder == NoOtherOrder
BY VtonFacts, VtonOrder DEF NoOtherOrder, OrderExists

LEMMA VtonOrderedNext ==
    ASSUME Vton!LimiterInvariant', NEW s, InOrder(s, vtonWaiters', Unserved')
    PROVE  Waiting' = s /\ OrderExists'
<1>1. NoOtherOrder'
  BY VtonOneOrder, PTL
<1> QED
  BY <1>1 DEF NoOtherOrder, InOrder, Ahead

\* What each step does to the places and the queue, as FifoSlots tells it.
VtonDoes(r) ==
    \/ /\ Waiting = <<>> /\ vtonRunning < MaxRunning /\ r \notin Placed
       /\ Placed' = Placed \cup {r} /\ Waiting' = Waiting
    \/ /\ r \notin Placed /\ r \notin Range(Waiting) /\ Len(Waiting) < MaxWaiting
       /\ Waiting' = Append(Waiting, r) /\ Placed' = Placed
    \/ /\ r \in Range(Waiting) /\ Waiting' = Vton!RemoveFirst(Waiting, r)
       /\ Placed' = Placed
    \/ r \in Placed /\ Placed' = Placed \ {r} /\ Waiting' = Waiting
    \/ /\ r \in Placed /\ Waiting # <<>>
       /\ Placed' = (Placed \ {r}) \cup {Head(Waiting)} /\ Waiting' = Tail(Waiting)
    \/ Placed' = Placed /\ Waiting' = Waiting

LEMMA WaitingFits ==
    ASSUME Vton!LimiterInvariant, OrderExists
    PROVE  /\ Waiting \in Seq(Unserved) /\ Len(Waiting) \in Nat
           /\ IsInjective(Waiting) /\ Range(Waiting) = Unserved
           /\ Len(Waiting) <= Len(vtonWaiters)
           /\ Unserved = {} => Waiting = <<>>
<1>1. /\ Waiting \in Seq(Unserved) /\ Len(Waiting) \in Nat
      /\ IsInjective(Waiting) /\ Range(Waiting) = Unserved
  BY VtonOrdered DEF InOrder
<1>2. /\ vtonWaiters \in Seq(Request) /\ IsInjective(vtonWaiters)
      /\ Unserved \in SUBSET Range(vtonWaiters)
  BY VtonFacts DEF WaitersQueued
<1>3. Len(Waiting) <= Len(vtonWaiters)
  <2>1. Len(Waiting) = Cardinality(Unserved)
    BY <1>1, CountedOnce
  <2>2. IsFiniteSet(Range(vtonWaiters)) /\ Cardinality(Range(vtonWaiters)) = Len(vtonWaiters)
    BY <1>2, CountedOnce
  <2> QED
    BY <1>2, <2>1, <2>2, SubsetCounted
<1>4. Unserved = {} => Waiting = <<>>
  BY VtonOrdered, NobodyInOrder
<1> QED
  BY <1>1, <1>3, <1>4

LEMMA VtonSameOrder ==
    ASSUME Vton!LimiterInvariant, Vton!LimiterInvariant', OrderExists,
           Unserved' = Unserved,
           \A a, b \in Unserved : Ahead(vtonWaiters, a, b) => Ahead(vtonWaiters', a, b)
    PROVE  Waiting' = Waiting /\ OrderExists'
<1>1. PICK s : s = Waiting /\ InOrder(s, vtonWaiters, Unserved)
  BY VtonOrdered
<1>2. InOrder(s, vtonWaiters', Unserved)
  BY <1>1, OrderKept
<1> QED
  BY <1>1, <1>2, VtonOrderedNext

LEMMA VtonAcquireDoes ==
    ASSUME Vton!LimiterInvariant, OrderExists, NEW r \in Request, Vton!Acquire(r)
    PROVE  VtonDoes(r) /\ OrderExists'
<1>0. /\ vtonState[r] = "out" /\ vtonState \in [Request -> Vton!State]
      /\ r \notin Range(vtonWaiters) /\ r \notin Placed /\ r \notin Unserved /\ WaitersQueued
      /\ vtonWaiters \in Seq(Request) /\ Vton!LimiterInvariant'
      /\ MaxRunning \in Nat /\ vtonRunning \in Nat
  BY VtonFacts, VtonAcquireKeeps DEF Vton!Acquire, WaitersQueued, Placed, Unserved
<1>1. CASE /\ vtonRunning < MaxRunning /\ vtonWaiters' = vtonWaiters
           /\ vtonState' = Vton!Becomes(r, "in")
  <2>1. /\ vtonState'[r] = "in" /\ \A q \in Request \ {r} : vtonState'[q] = vtonState[q]
    BY <1>0, <1>1 DEF Vton!Becomes
  <2>2. Placed' = Placed \cup {r} /\ Unserved' = Unserved
    BY <1>0, <2>1 DEF Placed, Unserved
  <2>3. Unserved = {}
    BY <1>0, <1>1, VtonFacts
  <2>4. Waiting = <<>>
    BY <2>3, WaitingFits
  <2>5. Waiting' = Waiting /\ OrderExists'
    BY <1>0, <1>1, <2>2, VtonSameOrder
  <2> QED
    BY <1>0, <1>1, <2>2, <2>4, <2>5 DEF VtonDoes
<1>2. CASE /\ Len(vtonWaiters) < MaxWaiting
           /\ vtonWaiters' = Append(vtonWaiters, r)
           /\ vtonState' = Vton!Becomes(r, "waiting")
  <2>1. /\ vtonState'[r] = "waiting" /\ \A q \in Request \ {r} : vtonState'[q] = vtonState[q]
    BY <1>0, <1>2 DEF Vton!Becomes
  <2>2. Placed' = Placed /\ Unserved' = Unserved \cup {r}
    BY <1>0, <2>1 DEF Placed, Unserved
  <2>3. PICK s : s = Waiting /\ InOrder(s, vtonWaiters, Unserved)
    BY VtonOrdered
  <2>4. InOrder(Append(s, r), vtonWaiters', Unserved')
    <3>1. Unserved \in SUBSET Range(vtonWaiters)
      BY <1>0 DEF WaitersQueued
    <3> QED
      BY <1>0, <1>2, <2>2, <2>3, <3>1, OrderAppended
  <2>5. Waiting' = Append(Waiting, r) /\ OrderExists'
    BY <1>0, <2>3, <2>4, VtonOrderedNext
  <2>6. r \notin Range(Waiting) /\ Len(Waiting) < MaxWaiting
    <3>1. Len(vtonWaiters) \in Nat /\ MaxWaiting \in Nat
      BY <1>0, VtonFacts
    <3> QED
      BY <1>0, <1>2, <3>1, WaitingFits
  <2> QED
    BY <1>0, <2>2, <2>5, <2>6 DEF VtonDoes
<1> QED
  BY <1>1, <1>2 DEF Vton!Acquire

LEMMA VtonWaitDoes ==
    ASSUME Vton!LimiterInvariant, OrderExists, NEW r \in Request,
           Vton!Stop(r) \/ Vton!GoOn(r)
    PROVE  VtonDoes(r) /\ OrderExists'
<1>0. /\ vtonState \in [Request -> Vton!State] /\ vtonWaiters' = vtonWaiters
      /\ Vton!LimiterInvariant'
  BY VtonFacts, VtonWaitKeeps DEF Vton!Stop, Vton!GoOn
<1>1. CASE vtonState[r] = "waiting" /\ vtonState' = Vton!Becomes(r, "stopped")
  <2>1. /\ vtonState'[r] = "stopped" /\ \A q \in Request \ {r} : vtonState'[q] = vtonState[q]
    BY <1>0, <1>1 DEF Vton!Becomes
  <2>2. Placed' = Placed /\ Unserved' = Unserved \ {r} /\ r \in Unserved
    BY <1>0, <1>1, <2>1 DEF Placed, Unserved
  <2>3. PICK s : s = Waiting /\ InOrder(s, vtonWaiters, Unserved)
    BY VtonOrdered
  <2>4. /\ s \in Seq(Unserved) /\ IsInjective(s) /\ Range(s) = Unserved
        /\ DOMAIN s = 1..Len(s)
    BY <2>3 DEF InOrder
  <2>5. PICK k \in 1..Len(s) : s[k] = r
    BY <2>2, <2>4 DEF Range
  <2>6. InOrder(Without(s, k), vtonWaiters', Unserved')
    BY <1>0, <2>2, <2>3, <2>5, OrderWithout
  <2>7. Waiting' = Without(s, k) /\ OrderExists'
    BY <1>0, <2>6, VtonOrderedNext
  <2>8. Vton!RemoveFirst(Waiting, r) = Without(s, k)
    BY <2>3, <2>4, <2>5, VtonRemoveFirst
  <2>9. r \in Range(Waiting)
    BY <2>2, <2>3, <2>4
  <2> QED
    BY <2>2, <2>7, <2>8, <2>9 DEF VtonDoes
<1>2. CASE \/ vtonState[r] = "handed" /\ vtonState' = Vton!Becomes(r, "handedStopped")
           \/ vtonState[r] = "handed" /\ vtonState' = Vton!Becomes(r, "in")
  <2>1. /\ vtonState'[r] \in {"handedStopped", "in"}
        /\ \A q \in Request \ {r} : vtonState'[q] = vtonState[q]
    BY <1>0, <1>2 DEF Vton!Becomes
  <2>2. Placed' = Placed /\ Unserved' = Unserved
    BY <1>2, <2>1 DEF Placed, Unserved
  <2>3. Waiting' = Waiting /\ OrderExists'
    BY <1>0, <2>2, VtonSameOrder
  <2> QED
    BY <2>2, <2>3 DEF VtonDoes
<1> QED
  BY <1>1, <1>2 DEF Vton!Stop, Vton!GoOn

LEMMA VtonLeaveDoes ==
    ASSUME Vton!LimiterInvariant, OrderExists, NEW r \in Request, Vton!CleanUp(r),
           vtonState[r] = "stopped"
    PROVE  VtonDoes(r) /\ OrderExists'
<1>0. /\ vtonState \in [Request -> Vton!State] /\ Vton!LimiterInvariant'
      /\ vtonWaiters \in Seq(Request) /\ IsInjective(vtonWaiters)
      /\ DOMAIN vtonWaiters = 1..Len(vtonWaiters)
  BY VtonFacts, VtonCleanUpKeeps DEF WaitersQueued
<1>1. /\ vtonWaiters' = Vton!RemoveFirst(vtonWaiters, r)
      /\ vtonState' = [vtonState EXCEPT ![r] = "out"]
  BY DEF Vton!CleanUp, Vton!Becomes
<1>2. /\ vtonState'[r] = "out" /\ \A q \in Request \ {r} : vtonState'[q] = vtonState[q]
  BY <1>0, <1>1
<1>3. Placed' = Placed /\ Unserved' = Unserved /\ r \notin Unserved
  BY <1>2 DEF Placed, Unserved
<1>4. ASSUME NEW a \in Unserved, NEW b \in Unserved, Ahead(vtonWaiters, a, b)
      PROVE  Ahead(vtonWaiters', a, b)
  <2>1. CASE \E i \in 1..Len(vtonWaiters) : vtonWaiters[i] = r
    <3>1. PICK i \in 1..Len(vtonWaiters) : vtonWaiters[i] = r
      BY <2>1
    <3>2. vtonWaiters' = Without(vtonWaiters, i)
      BY <1>0, <1>1, <3>1, VtonRemoveFirst
    <3>3. a # vtonWaiters[i] /\ b # vtonWaiters[i]
      BY <1>3, <3>1
    <3> QED
      BY <1>0, <1>4, <3>2, <3>3, AheadWithout
  <2>2. CASE ~ \E i \in 1..Len(vtonWaiters) : vtonWaiters[i] = r
    <3>1. vtonWaiters' = vtonWaiters
      BY <1>1, <2>2 DEF Vton!RemoveFirst
    <3> QED
      BY <1>4, <3>1
  <2> QED
    BY <2>1, <2>2
<1>5. Waiting' = Waiting /\ OrderExists'
  BY <1>0, <1>3, <1>4, VtonSameOrder
<1> QED
  BY <1>3, <1>5 DEF VtonDoes

LEMMA VtonGiveBackDoes ==
    ASSUME Vton!LimiterInvariant, OrderExists, NEW r \in Request,
           vtonState[r] \in {"handedStopped", "in"}, Vton!GiveBack(r)
    PROVE  VtonDoes(r) /\ OrderExists'
<1>0. /\ vtonState \in [Request -> Vton!State] /\ Vton!LimiterInvariant'
      /\ r \in Placed /\ r \notin Range(vtonWaiters) /\ r \notin Unserved
      /\ vtonWaiters \in Seq(Request) /\ IsInjective(vtonWaiters)
      /\ Unserved \subseteq Range(vtonWaiters) /\ Range(vtonWaiters) \subseteq Request
      /\ DOMAIN vtonWaiters = 1..Len(vtonWaiters) /\ Len(vtonWaiters) \in Nat
  BY VtonFacts, VtonGiveBackKeeps DEF WaitersQueued, Placed, Unserved
<1>1. CASE Vton!Pending = {}
  <2>1. vtonState' = [vtonState EXCEPT ![r] = "out"]
    BY <1>1 DEF Vton!GiveBack, Vton!Becomes
  <2>2. /\ vtonState'[r] = "out" /\ \A q \in Request \ {r} : vtonState'[q] = vtonState[q]
    BY <1>0, <2>1
  <2>3. Unserved = {}
    BY <1>0, <1>1 DEF Unserved, Vton!Pending, Range
  <2>4. Placed' = Placed \ {r} /\ Unserved' = Unserved
    BY <1>0, <2>2, <2>3 DEF Placed, Unserved
  <2>5. Waiting' = Waiting /\ OrderExists'
    BY <1>0, <2>3, <2>4, VtonSameOrder
  <2> QED
    BY <1>0, <2>4, <2>5 DEF VtonDoes
<1>2. CASE Vton!Pending # {}
  <2> DEFINE i == Vton!First(Vton!Pending)
             w == vtonWaiters[i]
             behind == SubSeq(vtonWaiters, i + 1, Len(vtonWaiters))
  <2>1. /\ vtonWaiters' = behind
        /\ vtonState' = [[vtonState EXCEPT ![r] = "out"] EXCEPT ![w] = "handed"]
    BY <1>2 DEF Vton!GiveBack, Vton!Becomes
  <2>2. i \in Vton!Pending /\ \A j \in Vton!Pending : i <= j
    BY <1>2, VtonFirst
  <2> HIDE DEF i
  <2>3. i \in 1..Len(vtonWaiters) /\ vtonState[w] = "waiting" /\ w \in Range(vtonWaiters)
    BY <1>0, <2>2 DEF Vton!Pending, Range
  <2>4. Range(behind) = {vtonWaiters[j] : j \in (i + 1)..Len(vtonWaiters)}
    BY <1>0, <2>3, RestElements
  <2>5. Unserved \ {w} \subseteq Range(behind)
    <3> SUFFICES ASSUME NEW q \in Unserved, q # w PROVE q \in Range(behind)
      OBVIOUS
    <3>1. PICK j \in 1..Len(vtonWaiters) : q = vtonWaiters[j]
      BY <1>0 DEF Range
    <3>2. j \in Vton!Pending
      BY <1>0, <3>1 DEF Vton!Pending, Unserved
    <3>3. i <= j /\ j # i
      BY <2>2, <3>1, <3>2
    <3>4. j \in (i + 1)..Len(vtonWaiters)
      BY <1>0, <2>3, <3>3
    <3> QED
      BY <2>4, <3>1, <3>4
  <2>6. ASSUME NEW a \in Unserved \ {w}, NEW b, Ahead(vtonWaiters, a, b)
        PROVE  Ahead(behind, a, b)
    BY <1>0, <2>3, <2>4, <2>5, <2>6, AheadBehind
  <2>7. w \in Unserved /\ w \in Request /\ w # r /\ w \notin Placed
    BY <1>0, <2>3 DEF Placed, Unserved
  <2>8. ASSUME NEW q \in Unserved, q # w PROVE ~Ahead(vtonWaiters, q, w)
    <3> SUFFICES ASSUME NEW m \in 1..Len(vtonWaiters), NEW n \in 1..Len(vtonWaiters),
                        m < n, vtonWaiters[m] = q, vtonWaiters[n] = w
                 PROVE  FALSE
      BY DEF Ahead
    <3>1. n = i
      BY <1>0, <2>3 DEF IsInjective
    <3>2. m \in Vton!Pending
      BY <1>0, <2>8 DEF Vton!Pending, Unserved
    <3> QED
      BY <1>0, <2>2, <2>3, <3>1, <3>2
  <2> HIDE DEF w, behind
  <2>9. /\ vtonState'[r] = "out" /\ vtonState'[w] = "handed"
        /\ \A q \in Request \ {r, w} : vtonState'[q] = vtonState[q]
    BY <1>0, <2>1, <2>7
  <2>10. Placed' = (Placed \ {r}) \cup {w} /\ Unserved' = Unserved \ {w}
    BY <1>0, <2>7, <2>9 DEF Placed, Unserved
  <2>11. PICK s : s = Waiting /\ InOrder(s, vtonWaiters, Unserved)
    BY VtonOrdered
  <2>12. /\ s \in Seq(Unserved) /\ IsInjective(s) /\ Range(s) = Unserved
         /\ DOMAIN s = 1..Len(s) /\ Len(s) \in Nat
    BY <2>11 DEF InOrder
  <2>13. s # <<>> /\ Head(s) = w /\ s[1] = w /\ 1 \in 1..Len(s)
    <3>1. PICK k \in 1..Len(s) : s[k] = w
      BY <2>7, <2>12 DEF Range
    <3>2. 1 \in 1..Len(s) /\ s # <<>> /\ Head(s) = s[1] /\ s[1] \in Unserved
      BY <2>12, <3>1
    <3>3. 1 < k => Ahead(vtonWaiters, s[1], s[k])
      BY <2>11, <3>1, <3>2 DEF InOrder
    <3>4. s[1] = w
      <4>1. SUFFICES ASSUME s[1] # w PROVE FALSE
        OBVIOUS
      <4>2. 1 < k
        BY <2>12, <3>1, <4>1
      <4> QED
        BY <2>8, <3>1, <3>2, <3>3, <4>1, <4>2
    <3> QED
      BY <3>2, <3>4
  <2>14. InOrder(Without(s, 1), vtonWaiters, Unserved \ {w})
    BY <2>11, <2>13, OrderWithout
  <2>15. InOrder(Without(s, 1), vtonWaiters', Unserved')
    <3>1. \A a, b \in Unserved \ {w} :
            Ahead(vtonWaiters, a, b) => Ahead(vtonWaiters', a, b)
      BY <2>1, <2>6
    <3> QED
      BY <2>10, <2>14, <3>1, OrderKept
  <2>16. Tail(s) = Without(s, 1)
    BY <2>12, <2>13, TailElements
  <2>17. Waiting' = Tail(s) /\ OrderExists'
    BY <1>0, <2>15, <2>16, VtonOrderedNext
  <2> QED
    BY <1>0, <2>10, <2>11, <2>13, <2>17 DEF VtonDoes
<1> QED
  BY <1>1, <1>2

LEMMA VtonNextDoes ==
    ASSUME Vton!LimiterInvariant, OrderExists, [Vton!Next]_(Vton!vars)
    PROVE  /\ OrderExists'
           /\ (Placed' = Placed /\ Waiting' = Waiting) \/ \E r \in Request : VtonDoes(r)
<1>1. CASE UNCHANGED Vton!vars
  <2>1. vtonWaiters' = vtonWaiters /\ vtonState' = vtonState
    BY <1>1 DEF Vton!vars
  <2>2. Placed' = Placed /\ Unserved' = Unserved /\ Vton!LimiterInvariant'
    BY <2>1, VtonNextKeeps DEF Placed, Unserved
  <2>3. Waiting' = Waiting /\ OrderExists'
    BY <2>1, <2>2, VtonSameOrder
  <2> QED
    BY <2>2, <2>3
<1>2. CASE Vton!Next
  <2>1. PICK r \in Request : \/ Vton!Acquire(r) \/ Vton!Stop(r) \/ Vton!GoOn(r)
                             \/ Vton!CleanUp(r) \/ Vton!Release(r)
    BY <1>2 DEF Vton!Next, Vton!GoesOn
  <2>2. CASE Vton!CleanUp(r)
    <3>1. CASE vtonState[r] = "handedStopped" /\ Vton!GiveBack(r)
      BY <3>1, VtonGiveBackDoes
    <3>2. CASE vtonState[r] = "stopped"
      BY <2>2, <3>2, VtonLeaveDoes
    <3> QED
      BY <2>2, <3>1, <3>2 DEF Vton!CleanUp
  <2>3. CASE Vton!Release(r)
    BY <2>3, VtonGiveBackDoes DEF Vton!Release
  <2> QED
    BY <2>1, <2>2, <2>3, VtonAcquireDoes, VtonWaitDoes
<1> QED
  BY <1>1, <1>2

\* Requests are admitted in their order and nobody passes those who wait
\* (virtual_fitting/concurrency.py), although a new request looks at the counter
\* only and a wait may end in the moment its place is handed over, for any
\* number of requests and places.
THEOREM VtonIsFifo == Spec => VtonImplementsFifoSlots
<1>1. Init => OrderExists /\ Vton!Slots!Init
  <2> SUFFICES ASSUME Init PROVE OrderExists /\ Vton!Slots!Init
    OBVIOUS
  <2>1. Vton!LimiterInvariant /\ vtonState = [r \in Request |-> "out"]
    BY VtonInit DEF Init, Vton!Init
  <2>2. Placed = {} /\ Unserved = {}
    BY <2>1 DEF Placed, Unserved
  <2>3. OrderExists
    BY <2>2, NobodyInOrder DEF OrderExists
  <2>4. Waiting = <<>>
    BY <2>1, <2>2, <2>3, WaitingFits
  <2> QED
    BY <2>2, <2>3, <2>4 DEF Vton!Slots!Init, Waiting, Placed, Vton!HasPlace, Vton!In
<1>2. Vton!LimiterInvariant /\ OrderExists /\ [Next]_vars
        => OrderExists' /\ [Vton!Slots!Next]_(Vton!Slots!vars)
  <2> SUFFICES ASSUME Vton!LimiterInvariant, OrderExists, [Next]_vars
               PROVE  OrderExists' /\ [Vton!Slots!Next]_(Vton!Slots!vars)
    OBVIOUS
  <2>1. Vton!HasPlace = Placed /\ Vton!HasPlace' = Placed'
    BY DEF Vton!HasPlace, Vton!In, Placed
  <2>2. Vton!StillWaiting = Waiting /\ Vton!StillWaiting' = Waiting'
    BY DEF Waiting
  <2>3. Vton!Slots!Cardinality(Placed) = vtonRunning
    <3>1. Vton!Slots!Cardinality(Placed) = Cardinality(Placed)
      BY DEF Vton!Slots!Cardinality, Cardinality
    <3> QED
      BY <3>1, VtonFacts
  <2>4. \A s : Vton!Slots!Range(s) = Range(s)
    BY DEF Vton!Slots!Range, Range
  <2>5. \A s, e : Vton!Slots!RemoveFirst(s, e) = Vton!RemoveFirst(s, e)
    BY DEF Vton!Slots!RemoveFirst, Vton!RemoveFirst, Vton!Slots!RemoveAt, Vton!RemoveAt,
           Vton!Slots!SelectInSeq, Vton!SelectInSeq, Vton!Slots!Min, Vton!Min
  <2>6. ASSUME Placed' = Placed, Waiting' = Waiting
        PROVE  [Vton!Slots!Next]_(Vton!Slots!vars)
    BY <2>1, <2>2, <2>6 DEF Vton!Slots!vars
  <2>7. ASSUME NEW r \in Request, VtonDoes(r)
        PROVE  [Vton!Slots!Next]_(Vton!Slots!vars)
    BY <2>1, <2>2, <2>3, <2>4, <2>5, <2>7
       DEF VtonDoes, Vton!Slots!Next, Vton!Slots!vars, Vton!Slots!Enter, Vton!Slots!Wait,
           Vton!Slots!GiveUp, Vton!Slots!Leave, Vton!Slots!PassOn, Vton!Slots!Free
  <2> QED
    BY <2>6, <2>7, VtonStep, VtonNextDoes
<1> QED
  BY <1>1, <1>2, VtonIsRight, PTL
     DEF Spec, VtonImplementsFifoSlots, Vton!ImplementsFifoSlots, Vton!Slots!Spec

\* The three limiters of a server process (virtual_fitting/concurrency.py,
\* body_image_validation/async_concurrency.py and concurrency.py), for any
\* number of requests, places and waiting places: the counters are the requests
\* that run and wait, nobody waits while a place is free, and no wakeup of a
\* thread is lost, however waits time out or are cancelled.
THEOREM SlotsAreRight == Spec => []SlotsInvariant
BY VtonIsRight, BodyIsRight, ThreadsAreRight, PTL DEF SlotsInvariant

-----------------------------------------------------------------------------
(* The clients of SQS and S3 (CloudCalls).                                 *)

LEMMA CloudStep == [Next]_vars => [Cloud!Next]_(Cloud!vars)
BY DEF Next, OthersRest, vars, cloud, Cloud!vars

LEMMA CloudInit == Init => Cloud!CloudInvariant
<1> SUFFICES ASSUME Init PROVE Cloud!CloudInvariant
  OBVIOUS
<1>1. Cloud!Init /\ MaxTries \in Nat
  BY OtherAssumption DEF Init, Cloud!CloudAssumption
<1>2. Cloud!TypeOK
  <2>1. {object, seen} = {"absent"}
    BY <1>1 DEF Cloud!Init
  <2>2. 0 \in 0..MaxTries /\ {"absent"} \subseteq {"absent", "mine", "other"}
    BY <1>1
  <2> QED
    BY <1>1, <2>1, <2>2 DEF Cloud!Init, Cloud!TypeOK, Cloud!Outcomes
<1>3. Cloud!AnswerFits
  BY <1>1 DEF Cloud!Init, Cloud!AnswerFits, Cloud!IsSqs, Cloud!SqsOperation
<1>4. Cloud!SqsTellsTheTruth /\ Cloud!PutTellsTheTruth /\ Cloud!ReadTellsTheTruth
  BY <1>1 DEF Cloud!Init, Cloud!SqsTellsTheTruth, Cloud!PutTellsTheTruth,
    Cloud!ReadTellsTheTruth, Cloud!IsSqs, Cloud!SqsOperation
<1> QED
  BY <1>2, <1>3, <1>4 DEF Cloud!CloudInvariant

LEMMA CloudNext == Cloud!CloudInvariant /\ [Cloud!Next]_(Cloud!vars) => Cloud!CloudInvariant'
<1> USE DEF Cloud!SqsOperation, Cloud!S3Operation, Cloud!FittingQueue
<1> SUFFICES ASSUME Cloud!CloudInvariant, [Cloud!Next]_(Cloud!vars)
             PROVE  Cloud!CloudInvariant'
  OBVIOUS
<1>0. MaxTries \in Nat \ {0}
  BY OtherAssumption DEF Cloud!CloudAssumption
<1>i. /\ Cloud!TypeOK /\ Cloud!AnswerFits /\ Cloud!SqsTellsTheTruth
      /\ Cloud!PutTellsTheTruth /\ Cloud!ReadTellsTheTruth
  BY DEF Cloud!CloudInvariant
<1>1. CASE Cloud!Begin
  <2>1. Cloud!TypeOK'
    BY <1>0, <1>1, <1>i DEF Cloud!Begin, Cloud!TypeOK, Cloud!Outcomes
  <2>2. Cloud!AnswerFits'
    BY <1>0, <1>1, <1>i DEF Cloud!Begin, Cloud!AnswerFits, Cloud!TypeOK, Cloud!IsSqs, Cloud!MayAsk
  <2>3. (Cloud!SqsTellsTheTruth /\ Cloud!PutTellsTheTruth /\ Cloud!ReadTellsTheTruth)'
    BY <1>0, <1>1, <1>i DEF Cloud!Begin, Cloud!AnswerFits, Cloud!IsSqs,
      Cloud!SqsTellsTheTruth, Cloud!PutTellsTheTruth, Cloud!ReadTellsTheTruth
  <2> QED
    BY <2>1, <2>2, <2>3 DEF Cloud!CloudInvariant
<1>2. CASE Cloud!Ask
  <2>1. Cloud!TypeOK'
    <3>1. op \in Cloud!SqsOperation \cup Cloud!S3Operation /\ queue \in Cloud!FittingQueue
      BY <1>2, <1>i DEF Cloud!Ask, Cloud!TypeOK
    <3>2. tries' \in 0..MaxTries
      BY <1>0, <1>2, <1>i DEF Cloud!Ask, Cloud!TypeOK, Cloud!Limit
    <3>3. acted' \in BOOLEAN /\ object' \in {"absent", "mine", "other"}
          /\ cloudAnswer' \in Cloud!Answers
      BY <1>2, <1>i DEF Cloud!Ask, Cloud!TypeOK, Cloud!NotDone, Cloud!Done, Cloud!Answers
    <3> QED
      BY <1>2, <1>i, <3>1, <3>2, <3>3 DEF Cloud!Ask, Cloud!TypeOK
  <2>2. Cloud!AnswerFits'
    <3>1. CASE Cloud!IsSqs
      <4>1. Cloud!Limit = 1 /\ tries = 0 /\ ~acted /\ tries' = 1 /\ phase' = "answered"
        BY <1>0, <1>2, <1>i, <3>1 DEF Cloud!Ask, Cloud!AnswerFits, Cloud!Limit, Cloud!TypeOK
      <4> QED
        BY <1>2, <1>i, <3>1, <4>1 DEF Cloud!Ask, Cloud!AnswerFits, Cloud!NotDone, Cloud!Done,
          Cloud!IsSqs, Cloud!MayAsk, Cloud!Refused, Cloud!Lost
    <3>2. CASE op = "put_if_absent"
      <4>1. tries' \in Nat /\ tries' # 0 /\ tries \in Nat /\ (tries' = 1 <=> tries = 0)
        BY <1>2, <1>i DEF Cloud!Ask, Cloud!TypeOK
      <4>2. /\ cloudAnswer' = "ok" => object' = "mine"
            /\ cloudAnswer' = "412" => object' # "absent"
            /\ tries' = 1 /\ cloudAnswer' \notin {"ok"} \cup Cloud!Lost => object' # "mine"
        BY <1>2, <1>i, <3>2, <4>1 DEF Cloud!Ask, Cloud!AnswerFits, Cloud!NotDone, Cloud!Done,
          Cloud!IsSqs, Cloud!Refused, Cloud!Lost
      <4> QED
        BY <1>2, <1>i, <3>2, <4>1, <4>2 DEF Cloud!Ask, Cloud!AnswerFits, Cloud!IsSqs, Cloud!MayAsk
    <3>3. CASE op \in {"head", "get"}
      <4>1. /\ cloudAnswer' = "ok" => seen' # "absent"
            /\ cloudAnswer' = "404" => seen' = "absent"
        BY <1>2, <1>i, <3>3 DEF Cloud!Ask, Cloud!NotDone, Cloud!Done, Cloud!IsSqs,
          Cloud!Refused, Cloud!Lost
      <4> QED
        BY <1>2, <1>i, <3>3, <4>1 DEF Cloud!Ask, Cloud!AnswerFits, Cloud!IsSqs, Cloud!MayAsk
    <3> QED
      BY <1>2, <1>i, <3>1, <3>2, <3>3 DEF Cloud!Ask, Cloud!TypeOK, Cloud!IsSqs
  <2>3. (Cloud!SqsTellsTheTruth /\ Cloud!PutTellsTheTruth /\ Cloud!ReadTellsTheTruth)'
    <3>1. outcome' = "none"
      BY <1>2, <1>i DEF Cloud!Ask, Cloud!AnswerFits
    <3>2. Cloud!IsSqs' => tries' <= 1 /\ op' \in Cloud!AllowedOperations[queue']
      BY <1>0, <1>2, <1>i DEF Cloud!Ask, Cloud!AnswerFits, Cloud!IsSqs, Cloud!MayAsk, Cloud!TypeOK
    <3> QED
      BY <3>1, <3>2 DEF Cloud!SqsTellsTheTruth, Cloud!PutTellsTheTruth, Cloud!ReadTellsTheTruth
  <2> QED
    BY <2>1, <2>2, <2>3 DEF Cloud!CloudInvariant
<1>3. CASE Cloud!OtherStores
  <2>1. Cloud!TypeOK'
    BY <1>3, <1>i DEF Cloud!OtherStores, Cloud!TypeOK
  <2>2. Cloud!AnswerFits'
    BY <1>3, <1>i DEF Cloud!OtherStores, Cloud!AnswerFits, Cloud!IsSqs, Cloud!MayAsk
  <2>3. (Cloud!SqsTellsTheTruth /\ Cloud!PutTellsTheTruth /\ Cloud!ReadTellsTheTruth)'
    BY <1>3, <1>i DEF Cloud!OtherStores, Cloud!AnswerFits, Cloud!IsSqs,
      Cloud!SqsTellsTheTruth, Cloud!PutTellsTheTruth, Cloud!ReadTellsTheTruth
  <2> QED
    BY <2>1, <2>2, <2>3 DEF Cloud!CloudInvariant
<1>4. CASE Cloud!Tell
  <2>1. /\ Cloud!SqsOutcome \in Cloud!Outcomes /\ Cloud!PutOutcome \in Cloud!Outcomes
        /\ Cloud!ReadOutcome \in Cloud!Outcomes
    BY DEF Cloud!SqsOutcome, Cloud!PutOutcome, Cloud!ReadOutcome, Cloud!Outcomes
  <2>2. Cloud!TypeOK'
    BY <1>4, <1>i, <2>1 DEF Cloud!Tell, Cloud!TypeOK
  <2>3. Cloud!AnswerFits'
    BY <1>4 DEF Cloud!Tell, Cloud!AnswerFits
  <2>4. Cloud!SqsTellsTheTruth'
    BY <1>4, <1>i DEF Cloud!Tell, Cloud!SqsTellsTheTruth, Cloud!AnswerFits, Cloud!IsSqs,
      Cloud!SqsOutcome, Cloud!Refused, Cloud!Lost, Cloud!MayAsk
  <2>5. Cloud!PutTellsTheTruth'
    BY <1>4, <1>i DEF Cloud!Tell, Cloud!PutTellsTheTruth, Cloud!AnswerFits, Cloud!IsSqs,
      Cloud!PutOutcome, Cloud!Retryable, Cloud!Lost
  <2>6. Cloud!ReadTellsTheTruth'
    BY <1>4, <1>i DEF Cloud!Tell, Cloud!ReadTellsTheTruth, Cloud!AnswerFits, Cloud!IsSqs,
      Cloud!ReadOutcome, Cloud!Retryable, Cloud!Lost
  <2> QED
    BY <2>2, <2>3, <2>4, <2>5, <2>6 DEF Cloud!CloudInvariant
<1>5. CASE UNCHANGED Cloud!vars
  BY <1>5, <1>i DEF Cloud!vars, Cloud!CloudInvariant, Cloud!TypeOK, Cloud!AnswerFits,
    Cloud!IsSqs, Cloud!MayAsk, Cloud!SqsTellsTheTruth, Cloud!PutTellsTheTruth,
    Cloud!ReadTellsTheTruth
<1> QED
  BY <1>1, <1>2, <1>3, <1>4, <1>5 DEF Cloud!Next

-----------------------------------------------------------------------------
(* The readers of Runware's answers (RunwareAnswers).                      *)

LEMMA AnswersStep == [Next]_vars => [Answers!Next]_(Answers!vars)
BY DEF Next, OthersRest, vars, answers, Answers!vars

\* RunwareAnswers counts with its own instance of FiniteSets.
LEMMA AnswersCount ==
    /\ \A S : Answers!IsFiniteSet(S) <=> IsFiniteSet(S)
    /\ \A S : Answers!Cardinality(S) = Cardinality(S)
<1>1. \A S : Answers!IsFiniteSet(S) <=> IsFiniteSet(S)
  BY DEF Answers!IsFiniteSet, IsFiniteSet
<1>2. \A S : Answers!Cardinality(S) = Cardinality(S)
  BY DEF Answers!Cardinality, Cardinality
<1> QED
  BY <1>1, <1>2

LEMMA ImageIsFinite ==
    ASSUME NEW S, IsFiniteSet(S), NEW f, DOMAIN f = S
    PROVE  IsFiniteSet({f[x] : x \in S})
<1> DEFINE T == {f[x] : x \in S}
           g == [x \in S |-> f[x]]
<1>1. g \in Surjection(S, T)
  <2>1. g \in [S -> T]
    OBVIOUS
  <2>2. \A t \in T : \E s \in S : g[s] = t
    OBVIOUS
  <2> QED
    BY <2>1, <2>2 DEF Surjection
<1>2. IsFiniteSet(T)
  BY <1>1, FS_Surjection
<1> QED
  BY <1>2

\* A set whose count is 1 is its only member; an empty one has none.
LEMMA TheOnly ==
    ASSUME NEW S, IsFiniteSet(S)
    PROVE  /\ Answers!Cardinality(S) = 1 => \E x : S = {x}
           /\ \A x : S = {x} => Answers!Cardinality(S) = 1
           /\ Answers!Cardinality(S) \in Nat
           /\ S # {} /\ ~(Answers!Cardinality(S) > 1) => Answers!Cardinality(S) = 1
<1>1. Answers!Cardinality(S) = Cardinality(S)
  BY AnswersCount
<1>2. Cardinality(S) = 1 <=> \E x : S = {x}
  BY FS_Singleton
<1>3. Cardinality(S) \in Nat /\ (Cardinality(S) = 0 <=> S = {})
  BY FS_CardinalityType, FS_EmptySet
<1>4. S # {} /\ ~(Cardinality(S) > 1) => Cardinality(S) = 1
  BY <1>3
<1>5. \A x : S = {x} => Cardinality(S) = 1
  BY <1>2, Zenon
<1>6. Cardinality(S) = 1 => \E x : S = {x}
  BY <1>2, Zenon
<1> QED
  BY <1>1, <1>3, <1>4, <1>5, <1>6, Zenon

LEMMA BodyParts ==
    ASSUME NEW sent \in Answers!Body
    PROVE  /\ sent.json \in BOOLEAN
           /\ IsFiniteSet(DOMAIN sent.results) /\ IsFiniteSet(DOMAIN sent.errors)
           /\ sent.results \in Seq(Answers!Results) /\ sent.errors \in Seq(Answers!Errors)
<1>1. \A S : \A s \in Answers!BoundedSeq(S, MaxEntries) : s \in Seq(S) /\ IsFiniteSet(DOMAIN s)
  <2> SUFFICES ASSUME NEW S, NEW s \in Answers!BoundedSeq(S, MaxEntries)
               PROVE  s \in Seq(S) /\ IsFiniteSet(DOMAIN s)
    OBVIOUS
  <2>1. PICK m \in 0..MaxEntries : s \in [1..m -> S]
    BY DEF Answers!BoundedSeq, Answers!SeqOf
  <2>2. m \in Nat /\ DOMAIN s = 1..m
    BY <2>1
  <2>3. IsFiniteSet(1..m)
    BY <2>2, FS_Interval
  <2> QED
    BY <2>1, <2>2, <2>3
<1>2. \A S : <<>> \in Seq(S) /\ IsFiniteSet(DOMAIN <<>>)
  <2>1. DOMAIN <<>> = {}
    OBVIOUS
  <2> QED
    BY <2>1, FS_EmptySet
<1> QED
  BY <1>1, <1>2 DEF Answers!Body

\* The entries about the task, one way or another.
LEMMA OwnEntries ==
    ASSUME NEW S, NEW entries \in Seq(S), IsFiniteSet(DOMAIN entries)
    PROVE  /\ Answers!Own(entries) \subseteq S
           /\ IsFiniteSet(Answers!Own(entries))
           /\ \A e \in Answers!Own(entries) : e.own /\ e \in Answers!ToSet(entries)
           /\ Answers!ToSet(entries) \subseteq S
           /\ \A i \in DOMAIN entries : entries[i].own => entries[i] \in Answers!Own(entries)
<1>1. \A i \in DOMAIN entries : entries[i] \in S
  OBVIOUS
<1>2. /\ Answers!Own(entries) \subseteq S
      /\ \A e \in Answers!Own(entries) : e.own /\ e \in Answers!ToSet(entries)
      /\ Answers!ToSet(entries) \subseteq S
      /\ \A i \in DOMAIN entries : entries[i].own => entries[i] \in Answers!Own(entries)
  BY <1>1 DEF Answers!Own, Answers!ToSet
<1>3. IsFiniteSet(Answers!Own(entries))
  <2> DEFINE K == {k \in DOMAIN entries : entries[k].own}
             f == [k \in K |-> entries[k]]
  <2>1. IsFiniteSet(K)
    BY FS_Subset
  <2>2. IsFiniteSet({f[k] : k \in K})
    BY <2>1, ImageIsFinite
  <2>3. {f[k] : k \in K} = Answers!Own(entries)
    BY DEF Answers!Own
  <2> QED
    BY <2>2, <2>3
<1> QED
  BY <1>2, <1>3

LEMMA ImagesOfOwn ==
    ASSUME NEW O, IsFiniteSet(O)
    PROVE  /\ IsFiniteSet({e.code : e \in O})
           /\ IsFiniteSet({r.ref : r \in O})
           /\ IsFiniteSet({Answers!Kind(e.code) : e \in O})
<1>1. IsFiniteSet({e.code : e \in O})
  <2> DEFINE f == [e \in O |-> e.code]
  <2>1. IsFiniteSet({f[e] : e \in O})
    BY ImageIsFinite
  <2> QED
    BY <2>1
<1>2. IsFiniteSet({r.ref : r \in O})
  <2> DEFINE f == [e \in O |-> e.ref]
  <2>1. IsFiniteSet({f[e] : e \in O})
    BY ImageIsFinite
  <2> QED
    BY <2>1
<1>3. IsFiniteSet({Answers!Kind(e.code) : e \in O})
  <2> DEFINE f == [e \in O |-> Answers!Kind(e.code)]
  <2>1. IsFiniteSet({f[e] : e \in O})
    BY ImageIsFinite
  <2> QED
    BY <2>1
<1> QED
  BY <1>1, <1>2, <1>3

\* What the entries about the task can be.
LEMMA OwnFits ==
    ASSUME NEW sent \in Answers!Body
    PROVE  /\ IsFiniteSet(Answers!Own(sent.errors)) /\ IsFiniteSet(Answers!Own(sent.results))
           /\ \A e \in Answers!Own(sent.errors) : e.own /\ e.code \in Answers!Codes
           /\ \A r \in Answers!Own(sent.results) :
                /\ r.own /\ r.status \in {"success", "processing", "error"}
                /\ r.ref \in Ref \cup {"none"} /\ r.code \in {"timeoutProvider", "none"}
           /\ Answers!ToSet(sent.errors) \subseteq Answers!Errors
           /\ sent.errors = <<>> => Answers!Own(sent.errors) = {}
<1>1. /\ Answers!Own(sent.errors) \subseteq Answers!Errors
      /\ Answers!Own(sent.results) \subseteq Answers!Results
      /\ IsFiniteSet(Answers!Own(sent.errors)) /\ IsFiniteSet(Answers!Own(sent.results))
      /\ \A e \in Answers!Own(sent.errors) : e.own
      /\ \A r \in Answers!Own(sent.results) : r.own
      /\ Answers!ToSet(sent.errors) \subseteq Answers!Errors
  BY BodyParts, OwnEntries
<1>2. \A e \in Answers!Errors : e.code \in Answers!Codes
  BY DEF Answers!Errors, Answers!Codes
<1>3. \A r \in Answers!Results :
        /\ r.status \in {"success", "processing", "error"}
        /\ r.ref \in Ref \cup {"none"} /\ r.code \in {"timeoutProvider", "none"}
  BY DEF Answers!Results, Answers!NoRef
<1>4. sent.errors = <<>> => Answers!Own(sent.errors) = {}
  BY DEF Answers!Own
<1> QED
  BY <1>1, <1>2, <1>3, <1>4

\* A reading that lets another generation be paid for.
Spends(verdict_) == verdict_ \in {"notAccepted", "fallback"}

\* What such a reading of an answer rests on.
Proven(sent, verdict_, evidence) ==
    /\ evidence # {} /\ \A code \in evidence : Answers!Kind(code) = verdict_
    /\ \A r \in Answers!Own(sent.results) : r.status = "error"

ErrorCodes(sent) == {e.code : e \in Answers!Own(sent.errors)}

LEMMA KindsOfCodes ==
    /\ Answers!Kind("none") = "unclear"
    /\ \A code : Answers!Kind(code) \in {"notAccepted", "fallback", "auth", "unclear"}
    /\ \A code : code \in {"timeoutProvider", "none"} => Answers!Kind(code) # "notAccepted"
BY DEF Answers!Kind

LEMMA SubmissionRead ==
    ASSUME NEW sent \in Answers!Body, NEW http
    PROVE  LET read == Answers!ReadSubmission(http, sent) IN
             /\ read \in Answers!SubmissionVerdict
             /\ Spends(read) => Proven(sent, read, ErrorCodes(sent))
             /\ read = "accepted" => ErrorCodes(sent) = {} /\ Answers!Own(sent.errors) = {}
<1> DEFINE own == Answers!Own(sent.errors)
           kinds == {Answers!Kind(e.code) : e \in own}
           kind == Answers!TaskErrorKind(own)
           read == Answers!ReadSubmission(http, sent)
<1>1. IsFiniteSet(own) /\ IsFiniteSet(kinds)
  BY OwnFits, ImagesOfOwn
<1>2. kind = IF Answers!Cardinality(kinds) = 1 THEN CHOOSE k \in kinds : TRUE
             ELSE IF "auth" \in kinds THEN "auth"
             ELSE IF kinds = {} THEN "no" ELSE "unclear"
  BY DEF Answers!TaskErrorKind
<1>3. kinds \subseteq {"notAccepted", "fallback", "auth", "unclear"}
  BY KindsOfCodes
<1>4. \/ kind \in kinds /\ kinds = {kind}
      \/ kind \in {"auth", "no", "unclear"}
  <2>1. CASE Answers!Cardinality(kinds) = 1
    <3>1. PICK x : kinds = {x}
      BY <1>1, <2>1, TheOnly
    <3>2. kind = x
      BY <1>2, <2>1, <3>1
    <3> QED
      BY <3>1, <3>2
  <2>2. CASE Answers!Cardinality(kinds) # 1
    BY <1>2, <2>2
  <2> QED
    BY <2>1, <2>2
<1>5. /\ read \in Answers!SubmissionVerdict
      /\ Spends(read) => read = kind /\ ~Answers!Contradicts(sent)
      /\ read = "accepted" => sent.errors = <<>>
  BY <1>3, <1>4 DEF Answers!ReadSubmission, Answers!Accepted2xx, Answers!ByHttp, Spends,
     Answers!SubmissionVerdict
<1>6. ASSUME Spends(read) PROVE Proven(sent, read, ErrorCodes(sent))
  <2>1. kind \in kinds /\ kinds = {kind} /\ read = kind /\ ~Answers!Contradicts(sent)
    BY <1>4, <1>5, <1>6 DEF Spends
  <2>2. \A code \in ErrorCodes(sent) : Answers!Kind(code) = read
    BY <2>1 DEF ErrorCodes
  <2>3. own # {} /\ ErrorCodes(sent) # {}
    BY <2>1 DEF ErrorCodes
  <2>4. \A r \in Answers!Own(sent.results) : r.status = "error"
    BY <2>1, <2>3, OwnFits DEF Answers!Contradicts
  <2> QED
    BY <2>2, <2>3, <2>4 DEF Proven
<1>7. read = "accepted" => own = {} /\ ErrorCodes(sent) = {}
  BY <1>5, OwnFits DEF ErrorCodes
<1> QED
  BY <1>5, <1>6, <1>7

LEMMA StatusRead ==
    ASSUME NEW sent \in Answers!Body, NEW http
    PROVE  LET read == Answers!ReadStatus(http, sent) IN
             /\ read \in Answers!StatusVerdict
             /\ Spends(read) => Proven(sent, read, Answers!FailuresOf(sent))
             /\ read \in {"processing", "succeeded"} =>
                  \E r \in Answers!Own(sent.results) : r.status \in {"processing", "success"}
             /\ read = "succeeded" => Answers!FailuresOf(sent) = {}
<1> DEFINE own == Answers!Own(sent.results)
           failures == Answers!FailuresOf(sent)
           first == Answers!FirstDecides(sent)
           parsed == Answers!ParseStatus(sent)
           single == Answers!SingleCode(failures)
<1>1. \/ /\ first = "no"
         /\ \A r \in own : r.status = "error"
      \/ \E r \in own : r.status = first /\ first \in {"processing", "success"}
  <2> DEFINE I == {i \in 1..Len(sent.results) :
                     sent.results[i].own /\ sent.results[i].status \in {"processing", "success"}}
  <2>1. first = LET i == IF I # {} THEN Answers!Min(I) ELSE 0
                IN  IF i = 0 THEN "no" ELSE sent.results[i].status
    BY DEF Answers!FirstDecides, Answers!SelectInSeq
  <2>2. sent.results \in Seq(Answers!Results) /\ DOMAIN sent.results = 1..Len(sent.results)
    BY BodyParts
  <2>3. ASSUME I # {} PROVE \E r \in own : r.status = first /\ first \in {"processing", "success"}
    <3>1. I \in SUBSET Nat
      OBVIOUS
    <3>2. \E x \in I : \A y \in I : x <= y
      BY <2>3, <3>1, LeastOf
    <3>3. Answers!Min(I) \in I
      BY <3>2 DEF Answers!Min
    <3>4. PICK i \in I : i = Answers!Min(I)
      BY <3>3
    <3>5. i # 0 /\ sent.results[i].status \in {"processing", "success"}
      BY <3>4
    <3>6. sent.results[i] \in own
      BY <2>2, <3>4 DEF Answers!Own
    <3> HIDE DEF I, own, first
    <3>7. first = sent.results[i].status
      BY <2>1, <2>3, <3>4, <3>5
    <3> QED
      BY <3>5, <3>6, <3>7
  <2>4. ASSUME I = {} PROVE first = "no" /\ \A r \in own : r.status = "error"
    <3>1. \A r \in own : r.status \notin {"processing", "success"}
      BY <2>2, <2>4 DEF Answers!Own
    <3> QED
      BY <2>1, <2>4, <3>1, OwnFits
  <2> QED
    BY <2>3, <2>4
<1>2. IsFiniteSet(failures)
  <2> DEFINE errs == Answers!Own(sent.errors)
             bad == {x \in own : x.status = "error"}
             codes == {e.code : e \in errs}
             others == {r.code : r \in bad}
  <2>1. IsFiniteSet(errs) /\ IsFiniteSet(bad)
    BY OwnFits, FS_Subset
  <2>2. IsFiniteSet(codes) /\ IsFiniteSet(others)
    BY <2>1, ImagesOfOwn
  <2>3. failures = codes \cup others
    BY DEF Answers!FailuresOf
  <2> HIDE DEF codes, others
  <2>4. IsFiniteSet(codes \cup others)
    BY <2>2, FS_Union
  <2> QED
    BY <2>3, <2>4
<1>3. \/ failures = {single}
      \/ Answers!Kind(single) = "unclear"
  <2>1. CASE Answers!Cardinality(failures) = 1
    <3>1. PICK x : failures = {x}
      BY <1>2, <2>1, TheOnly
    <3> QED
      BY <2>1, <3>1 DEF Answers!SingleCode
  <2>2. CASE Answers!Cardinality(failures) # 1
    BY <2>2, KindsOfCodes DEF Answers!SingleCode
  <2> QED
    BY <2>1, <2>2
<1>4. first \in {"no", "processing", "success"}
  BY <1>1
<1>5. first = "success" => Answers!Successes(sent) # {}
  BY <1>1 DEF Answers!Successes
<1>6. \/ parsed \in {"unknown", "notFound"}
      \/ parsed = "processing" /\ first = "processing"
      \/ parsed = "succeeded" /\ first = "success" /\ failures = {}
      \/ parsed = Answers!Kind(single) /\ first = "no" /\ failures # {}
  BY <1>4, <1>5 DEF Answers!ParseStatus
<1>7. Answers!ReadStatus(http, sent) \in {parsed, "authOfQuery", "rateLimited", "unknown"}
  BY DEF Answers!ReadStatus
<1>8. Spends(parsed) => Proven(sent, parsed, failures)
  BY <1>1, <1>3, <1>6, KindsOfCodes DEF Spends, Proven
<1>9. /\ parsed \in {"processing", "succeeded"} =>
           \E r \in own : r.status \in {"processing", "success"}
      /\ parsed = "succeeded" => failures = {}
      /\ parsed \in {"unknown", "notAccepted", "fallback", "auth", "unclear", "processing",
                     "succeeded", "notFound"}
  BY <1>1, <1>6, KindsOfCodes
<1> HIDE DEF parsed, failures, own
<1>10. \A read \in {parsed, "authOfQuery", "rateLimited", "unknown"} :
         /\ read \in Answers!StatusVerdict
         /\ Spends(read) => Proven(sent, read, failures)
         /\ read \in {"processing", "succeeded"} =>
              \E r \in own : r.status \in {"processing", "success"}
         /\ read = "succeeded" => failures = {}
  BY <1>8, <1>9 DEF Spends, Answers!StatusVerdict
<1> QED
  BY <1>7, <1>10 DEF failures, own

LEMMA WebhookRead ==
    ASSUME NEW sent \in Answers!Body
    PROVE  LET read == Answers!ReadWebhook(sent) IN
             /\ read \in Answers!WebhookVerdict
             /\ Spends(read) => Proven(sent, read, ErrorCodes(sent))
             /\ read = "succeeded" =>
                  /\ Answers!FailuresOf(sent) = {} /\ ErrorCodes(sent) = {}
                  /\ \E r \in Answers!Own(sent.results) : r.status = "success"
<1> DEFINE own == Answers!Own(sent.errors)
           codes == {e.code : e \in own}
           single == Answers!SingleCode(codes)
           read == Answers!ReadWebhook(sent)
<1>1. IsFiniteSet(codes)
  BY OwnFits, ImagesOfOwn
<1>2. \/ read \in {"refused", "notFound", "processing"}
      \/ /\ read = Answers!Kind(single) /\ own # {} /\ ~Answers!Conflicting(sent)
      \/ /\ read = "succeeded" /\ own = {} /\ Answers!Successes(sent) # {}
         /\ Answers!Supported(sent)
  BY DEF Answers!ReadWebhook
<1>3. own # {} => codes # {}
  OBVIOUS
<1>4. ASSUME own # {}, ~Answers!Conflicting(sent)
      PROVE  codes = {single} /\ Answers!Own(sent.results) = {}
  <2>1. ~(Answers!Cardinality(codes) > 1) /\ Answers!Own(sent.results) = {}
    BY <1>3, <1>4 DEF Answers!Conflicting
  <2>2. Answers!Cardinality(codes) = 1
    BY <1>1, <1>3, <1>4, <2>1, TheOnly
  <2>3. PICK x : codes = {x}
    BY <1>1, <2>2, TheOnly
  <2>4. single = x
    BY <2>2, <2>3 DEF Answers!SingleCode
  <2> QED
    BY <2>1, <2>3, <2>4
<1>5. ASSUME own = {}, Answers!Successes(sent) # {}, Answers!Supported(sent)
      PROVE  /\ Answers!FailuresOf(sent) = {} /\ codes = {}
             /\ \E r \in Answers!Own(sent.results) : r.status = "success"
  <2>1. \A r \in Answers!Own(sent.results) : r \in Answers!ToSet(sent.results)
    BY BodyParts, OwnEntries
  <2>2. \A r \in Answers!Own(sent.results) : r.status # "error"
    BY <1>5, <2>1 DEF Answers!Supported
  <2> QED
    BY <1>5, <2>2 DEF Answers!FailuresOf, Answers!Successes
<1>6. codes = ErrorCodes(sent)
  BY DEF ErrorCodes
<1> HIDE DEF codes, single, read
<1>7. Spends(read) => Proven(sent, read, codes)
  <2> SUFFICES ASSUME Spends(read) PROVE Proven(sent, read, codes)
    OBVIOUS
  <2>1. read = Answers!Kind(single) /\ own # {} /\ ~Answers!Conflicting(sent)
    BY <1>2 DEF Spends
  <2>2. codes = {single} /\ Answers!Own(sent.results) = {}
    BY <1>4, <2>1
  <2> QED
    BY <2>1, <2>2 DEF Proven
<1>8. /\ read \in Answers!WebhookVerdict
      /\ read = "succeeded" =>
           /\ Answers!FailuresOf(sent) = {} /\ codes = {}
           /\ \E r \in Answers!Own(sent.results) : r.status = "success"
  BY <1>2, <1>5, KindsOfCodes DEF Answers!WebhookVerdict
<1> QED
  BY <1>6, <1>7, <1>8 DEF read

\* The longest of what an answer asks for is kept.
LEMMA LongestIsKept ==
    ASSUME NEW told \in SUBSET Seconds, NEW w \in told
    PROVE  \/ Answers!Guidance(told).hold
           \/ \E s \in Answers!Guidance(told).seconds : s >= w
<1>0. /\ TooLarge \in Nat /\ \A x \in told : x \in Nat /\ x <= TooLarge
  BY OtherAssumption DEF Answers!AnswersAssumption
<1>1. CASE TooLarge \in told
  BY <1>1 DEF Answers!Guidance
<1>2. CASE TooLarge \notin told
  <2> DEFINE T == {TooLarge - x : x \in told}
  <2>1. T \in SUBSET Nat /\ T # {}
    BY <1>0
  <2>2. PICK y \in T : \A z \in T : y <= z
    BY <2>1, LeastOf
  <2>3. PICK s \in told : y = TooLarge - s
    BY <2>2
  <2>4. \A v \in told : v <= s
    <3> SUFFICES ASSUME NEW v \in told PROVE v <= s
      OBVIOUS
    <3>1. TooLarge - s <= TooLarge - v
      BY <2>2, <2>3
    <3> QED
      BY <1>0, <3>1
  <2>5. s \in Answers!Guidance(told).seconds
    BY <1>2, <2>4 DEF Answers!Guidance
  <2> QED
    BY <1>0, <2>4, <2>5
<1> QED
  BY <1>1, <1>2

LEMMA TheResult ==
    ASSUME NEW sent \in Answers!Body
    PROVE  LET refs == {r.ref : r \in Answers!Successes(sent)}
               ref == Answers!OneRef(refs)
           IN  /\ ref \in Ref \cup {Answers!NoRef}
               /\ \A r \in Answers!Successes(sent) : ref \in {r.ref, Answers!NoRef}
<1> DEFINE found == Answers!Successes(sent)
           refs == {r.ref : r \in found}
           ref == Answers!OneRef(refs)
<1>1. IsFiniteSet(found) /\ \A r \in found : r.ref \in Ref \cup {Answers!NoRef}
  BY OwnFits, FS_Subset DEF Answers!Successes, Answers!NoRef
<1>2. IsFiniteSet(refs)
  BY <1>1, ImagesOfOwn
<1>3. CASE Answers!Cardinality(refs) = 1
  <2>1. PICK x : refs = {x}
    BY <1>2, <1>3, TheOnly
  <2>2. ref = x
    BY <1>3, <2>1 DEF Answers!OneRef
  <2>3. \A r \in found : r.ref = x
    BY <2>1
  <2>4. x \in Ref \cup {Answers!NoRef}
    BY <1>1, <2>1
  <2> QED
    BY <2>2, <2>3, <2>4
<1>4. CASE Answers!Cardinality(refs) # 1
  <2>1. ref = Answers!NoRef
    BY <1>4 DEF Answers!OneRef
  <2> QED
    BY <2>1
<1> QED
  BY <1>3, <1>4

LEMMA ToldFits ==
    ASSUME NEW sent \in Answers!Body
    PROVE  Answers!Told(Answers!ToSet(sent.errors)) \in SUBSET Seconds
<1>1. \A e \in Answers!Errors : e.wait \subseteq Seconds
  BY DEF Answers!Errors
<1> QED
  BY <1>1, OwnFits DEF Answers!Told

\* A generation is paid for again, or a result stored, only where every part of
\* the answer agrees.
LEMMA ReadingIsProven ==
    ASSUME NEW sent \in Answers!Body, NEW http,
           answer.body = sent, reading = Answers!ReadBy(http, sent)
    PROVE  /\ reading \in Answers!Readings
           /\ Answers!SpendsWhenProven /\ Answers!ReadersAgree
           /\ Answers!SuccessIsProven /\ Answers!GuidanceIsKept
<1> DEFINE submission == Answers!ReadSubmission(http, sent)
           statusRead == Answers!ReadStatus(http, sent)
           webhook == Answers!ReadWebhook(sent)
           failures == Answers!FailuresOf(sent)
           told == Answers!Told(Answers!ToSet(sent.errors))
           ref == Answers!OneRef({r.ref : r \in Answers!Successes(sent)})
<1>1. reading = [submission |-> submission, status |-> statusRead, webhook |-> webhook,
                 ref |-> ref, guidance |-> Answers!Guidance(told)]
  BY DEF Answers!ReadBy
<1>2. /\ submission \in Answers!SubmissionVerdict
      /\ Spends(submission) => Proven(sent, submission, ErrorCodes(sent))
      /\ submission = "accepted" => ErrorCodes(sent) = {} /\ Answers!Own(sent.errors) = {}
  BY SubmissionRead
<1>3. /\ statusRead \in Answers!StatusVerdict
      /\ Spends(statusRead) => Proven(sent, statusRead, failures)
      /\ statusRead \in {"processing", "succeeded"} =>
           \E r \in Answers!Own(sent.results) : r.status \in {"processing", "success"}
      /\ statusRead = "succeeded" => failures = {}
  BY StatusRead
<1>4. /\ webhook \in Answers!WebhookVerdict
      /\ Spends(webhook) => Proven(sent, webhook, ErrorCodes(sent))
      /\ webhook = "succeeded" =>
           /\ failures = {} /\ ErrorCodes(sent) = {}
           /\ \E r \in Answers!Own(sent.results) : r.status = "success"
  BY WebhookRead
<1>5. told \in SUBSET Seconds
  BY ToldFits
<1>6. /\ ref \in Ref \cup {Answers!NoRef}
      /\ \A r \in Answers!Successes(sent) : ref \in {r.ref, Answers!NoRef}
  BY TheResult
<1>7. reading \in Answers!Readings
  <2> DEFINE guidance == Answers!Guidance(told)
  <2>1. guidance \in [hold : BOOLEAN, seconds : SUBSET Seconds]
    BY <1>5 DEF Answers!Guidance
  <2>2. /\ submission \in Answers!SubmissionVerdict /\ statusRead \in Answers!StatusVerdict
        /\ webhook \in Answers!WebhookVerdict
    BY <1>2, <1>3, <1>4
  <2>3. /\ submission \in Answers!SubmissionVerdict \cup {""}
        /\ statusRead \in Answers!StatusVerdict \cup {""}
        /\ webhook \in Answers!WebhookVerdict \cup {""}
    BY <2>2
  <2> HIDE DEF submission, statusRead, webhook, ref, guidance
  <2>4. reading = [submission |-> submission, status |-> statusRead, webhook |-> webhook,
                   ref |-> ref, guidance |-> guidance]
    BY <1>1 DEF guidance
  <2> DEFINE A == Answers!SubmissionVerdict \cup {""}
             B == Answers!StatusVerdict \cup {""}
             C == Answers!WebhookVerdict \cup {""}
             D == Ref \cup {Answers!NoRef}
             G == [hold : BOOLEAN, seconds : SUBSET Seconds]
  <2>5. submission \in A /\ statusRead \in B /\ webhook \in C /\ ref \in D /\ guidance \in G
    BY <1>6, <2>1, <2>3
  <2> HIDE DEF A, B, C, D, G
  <2>6. reading \in [submission : A, status : B, webhook : C, ref : D, guidance : G]
    BY <2>4, <2>5
  <2> QED
    BY <2>6 DEF Answers!Readings, A, B, C, D, G
<1>8. /\ reading.submission = submission /\ reading.status = statusRead
      /\ reading.webhook = webhook /\ reading.ref = ref
      /\ reading["submission"] = submission /\ reading["status"] = statusRead
      /\ reading["webhook"] = webhook
      /\ reading.guidance = Answers!Guidance(told)
  BY <1>1
<1>9. failures = ErrorCodes(sent) \cup
                 {r.code : r \in {x \in Answers!Own(sent.results) : x.status = "error"}}
  BY DEF Answers!FailuresOf, ErrorCodes
<1> HIDE DEF submission, statusRead, webhook, failures, told, ref
<1>10. Answers!SpendsWhenProven
  <2>1. /\ Answers!Evidence("status") = failures
        /\ Answers!Evidence("submission") = ErrorCodes(sent)
        /\ Answers!Evidence("webhook") = ErrorCodes(sent)
    BY DEF Answers!Evidence, failures, ErrorCodes
  <2> SUFFICES ASSUME NEW reader \in {"submission", "status", "webhook"}, Spends(reading[reader])
               PROVE  Proven(sent, reading[reader], Answers!Evidence(reader))
    BY DEF Answers!SpendsWhenProven, Spends, Proven
  <2> QED
    BY <1>2, <1>3, <1>4, <1>8, <2>1
<1>11. ASSUME NEW verdict_ \in {submission, statusRead, webhook}, Spends(verdict_)
       PROVE  /\ failures # {}
              /\ \A r \in Answers!Own(sent.results) : r.status = "error"
              /\ verdict_ = "notAccepted" => ErrorCodes(sent) # {}
  <2>1. \/ verdict_ \in {submission, webhook} /\ Proven(sent, verdict_, ErrorCodes(sent))
        \/ verdict_ = statusRead /\ Proven(sent, verdict_, failures)
    BY <1>2, <1>3, <1>4, <1>11
  <2>2. ASSUME Proven(sent, verdict_, failures), verdict_ = "notAccepted"
        PROVE  ErrorCodes(sent) # {}
    <3>1. \A r \in Answers!Own(sent.results) : Answers!Kind(r.code) # "notAccepted"
      BY OwnFits, KindsOfCodes
    <3> QED
      BY <1>9, <2>2, <3>1 DEF Proven
  <2> QED
    BY <1>9, <2>1, <2>2 DEF Proven
<1>12. Answers!ReadersAgree
  <2> DEFINE verdicts == {submission, statusRead, webhook}
             onItsWay == (verdicts \cap {"succeeded"}) \cup ({statusRead} \cap {"processing"})
  <2>1. ASSUME onItsWay # {} PROVE \A v \in verdicts : ~Spends(v)
    <3>1. \E r \in Answers!Own(sent.results) : r.status \in {"processing", "success"}
      BY <1>2, <1>3, <1>4, <2>1 DEF Answers!SubmissionVerdict, Answers!WebhookVerdict
    <3> QED
      BY <1>11, <3>1
  <2>2. ASSUME "accepted" \in verdicts PROVE "notAccepted" \notin verdicts
    <3>1. ErrorCodes(sent) = {}
      BY <1>2, <1>3, <1>4, <2>2 DEF Answers!StatusVerdict, Answers!WebhookVerdict
    <3> QED
      BY <1>11, <3>1 DEF Spends
  <2>3. Answers!Verdicts = verdicts
    BY <1>8 DEF Answers!Verdicts
  <2> QED
    BY <1>8, <2>1, <2>2, <2>3 DEF Answers!ReadersAgree, Spends
<1>13. Answers!SuccessIsProven
  <2>1. "succeeded" \in Answers!Verdicts => failures = {}
    BY <1>2, <1>3, <1>4, <1>8 DEF Answers!Verdicts, Answers!SubmissionVerdict
  <2> QED
    BY <1>6, <1>8, <2>1 DEF Answers!SuccessIsProven, failures
<1>14. Answers!GuidanceIsKept
  BY <1>5, <1>8, LongestIsKept DEF Answers!GuidanceIsKept, told
<1> QED
  BY <1>7, <1>10, <1>12, <1>13, <1>14

LEMMA AnswerIsRead ==
    /\ answer.body \in Answers!Body
    /\ reading = Answers!ReadBy(answer.http, answer.body)
    => /\ reading \in Answers!Readings
       /\ Answers!SpendsWhenProven /\ Answers!ReadersAgree
       /\ Answers!SuccessIsProven /\ Answers!GuidanceIsKept
BY ReadingIsProven

LEMMA ReadInit == Init => Answers!ReadInvariant
<1>1. Answers!Unread \in Answers!Readings
  BY DEF Answers!Unread, Answers!Readings
<1> QED
  BY <1>1 DEF Init, Answers!Init, Answers!ReadInvariant, Answers!IsRead

LEMMA ReadNext == Answers!ReadInvariant /\ [Answers!Next]_(Answers!vars) => Answers!ReadInvariant'
<1> SUFFICES ASSUME Answers!ReadInvariant, [Answers!Next]_(Answers!vars)
             PROVE  Answers!ReadInvariant'
  OBVIOUS
<1>1. CASE Answers!Answers
  <2>1. reading' = Answers!Unread /\ reading' \in Answers!Readings
        /\ answer' \in [http : Http, body : Answers!Body]
    BY <1>1 DEF Answers!Answers, Answers!ReadInvariant
  <2> QED
    BY <2>1 DEF Answers!ReadInvariant, Answers!IsRead
<1>2. CASE Answers!Read
  <2>1. answer' = answer /\ reading' = Answers!ReadBy(answer.http, answer.body)
    BY <1>2 DEF Answers!Read
  <2>2. answer.body \in Answers!Body
    <3>1. Answers!NoAnswer.body \in Answers!Body
      BY DEF Answers!NoAnswer, Answers!Body
    <3> QED
      BY <3>1 DEF Answers!ReadInvariant
  <2>3. (/\ reading \in Answers!Readings
         /\ Answers!SpendsWhenProven /\ Answers!ReadersAgree
         /\ Answers!SuccessIsProven /\ Answers!GuidanceIsKept)'
    <3>1. (/\ answer.body \in Answers!Body
           /\ reading = Answers!ReadBy(answer.http, answer.body))'
      BY <2>1, <2>2
    <3> QED
      BY <3>1, AnswerIsRead, PTL
  <2>4. answer' = Answers!NoAnswer \/ answer' \in [http : Http, body : Answers!Body]
    BY <2>1 DEF Answers!ReadInvariant
  <2> QED
    BY <2>1, <2>3, <2>4 DEF Answers!ReadInvariant, Answers!IsRead
<1>3. CASE UNCHANGED Answers!vars
  BY <1>3 DEF Answers!vars, Answers!ReadInvariant, Answers!IsRead, Answers!SpendsWhenProven,
    Answers!ReadersAgree, Answers!SuccessIsProven, Answers!GuidanceIsKept, Answers!Verdicts,
    Answers!Evidence
<1> QED
  BY <1>1, <1>2, <1>3 DEF Answers!Next

\* Whatever Runware sent, a body with any number of entries and of images: what
\* the readers of pruna.py, submitter.py, follow_up_handlers.py and
\* runware_webhook.py call spent or failed is proven by the entries of the very
\* task, and clients.py of SQS and S3 calls only that definite of which no try
\* can have reached the service.
THEOREM AnswersAreRight == Spec => []AnswersInvariant
<1>1. Init => Answers!ReadInvariant /\ Cloud!CloudInvariant
  BY ReadInit, CloudInit
<1>2. Answers!ReadInvariant /\ [Next]_vars => Answers!ReadInvariant'
  BY AnswersStep, ReadNext
<1>3. Cloud!CloudInvariant /\ [Next]_vars => Cloud!CloudInvariant'
  BY CloudStep, CloudNext
<1> QED
  BY <1>1, <1>2, <1>3, PTL DEF Spec, AnswersInvariant
=============================================================================

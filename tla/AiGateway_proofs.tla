--------------------------- MODULE AiGateway_proofs ---------------------------
(* Theorems about AiGateway, for any number of runs of any attempt keys. *)
EXTENDS AiGateway, FiniteSetTheorems, FunctionTheorems, TLAPS

-----------------------------------------------------------------------------
(* The budget, for any set of attempts, months and amounts.                  *)

Amounts == [Keys -> Nat]

-----------------------------------------------------------------------------
(* Sums over attempts. *)

(* n units labelled k are n things. *)
LEMMA UnitsOfOne ==
  ASSUME NEW k, NEW n \in Nat
  PROVE  /\ IsFiniteSet({k} \X (1..n))
         /\ Cardinality({k} \X (1..n)) = n
<1>1. IsFiniteSet(1..n) /\ Cardinality(1..n) = n
  BY FS_Interval
<1>2. IsFiniteSet({k}) /\ Cardinality({k}) = 1
  BY FS_Singleton
<1>3. QED
  BY <1>1, <1>2, FS_Product

(* Two finite sets apart have as many elements as both together. *)
LEMMA DisjointUnion ==
  ASSUME NEW S, NEW T, IsFiniteSet(S), IsFiniteSet(T), S \cap T = {}
  PROVE  Cardinality(S \cup T) = Cardinality(S) + Cardinality(T)
<1>1. Cardinality(S) \in Nat /\ Cardinality(T) \in Nat
  BY FS_CardinalityType
<1>2. Cardinality(S \cap T) = 0
  BY FS_EmptySet
<1>3. Cardinality(S \cup T) = Cardinality(S) + Cardinality(T) - Cardinality(S \cap T)
  BY FS_Union
<1>4. QED
  BY <1>1, <1>2, <1>3

(* The units of finitely many attempts are finitely many. *)
LEMMA SumType ==
  ASSUME NEW owed \in Amounts
  PROVE  IsFiniteSet(Units(owed)) /\ Sum(owed) \in Nat
<1> DEFINE Family == {{k} \X (1..owed[k]) : k \in Keys}
           f == [k \in Keys |-> {k} \X (1..owed[k])]
<1>1. f \in Surjection(Keys, Family)
  BY DEF Surjection
<1>2. IsFiniteSet(Family)
  BY <1>1, FS_Surjection, AttemptsAssumption
<1>3. \A T \in Family : IsFiniteSet(T)
  <2>1. \A k \in Keys : owed[k] \in Nat
    BY DEF Amounts
  <2>2. \A k \in Keys : IsFiniteSet({k} \X (1..owed[k]))
    BY <2>1, UnitsOfOne
  <2>3. QED
    BY <2>2
<1>4. IsFiniteSet(UNION Family)
  BY <1>2, <1>3, FS_UNION
<1>5. QED
  BY <1>4, FS_CardinalityType DEF Units, Sum

(* Changing one attempt's amount changes the sum by the difference. *)
LEMMA SumUpdate ==
  ASSUME NEW owed \in Amounts, NEW new \in Amounts, NEW k \in Keys,
         \A j \in Keys \ {k} : new[j] = owed[j]
  PROVE  /\ Sum(new) = Sum(owed) - owed[k] + new[k]
         /\ Sum(owed) - owed[k] \in Nat
<1> DEFINE Others == UNION {{j} \X (1..owed[j]) : j \in Keys \ {k}}
           Before == {k} \X (1..owed[k])
           After == {k} \X (1..new[k])
<1>2. Units(owed) = Others \cup Before
  BY DEF Units
<1>3. Units(new) = Others \cup After
  <2>1. Others = UNION {{j} \X (1..new[j]) : j \in Keys \ {k}}
    OBVIOUS
  <2>2. QED
    BY <2>1 DEF Units
<1>4. Others \cap Before = {} /\ Others \cap After = {}
  OBVIOUS
<1>5. IsFiniteSet(Others)
  BY SumType, <1>2, FS_Subset
<1>6. owed[k] \in Nat /\ new[k] \in Nat
  BY DEF Amounts
<1>7. /\ IsFiniteSet(Before) /\ Cardinality(Before) = owed[k]
      /\ IsFiniteSet(After) /\ Cardinality(After) = new[k]
  BY UnitsOfOne, <1>6
<1>8. Cardinality(Others) \in Nat
  BY <1>5, FS_CardinalityType
<1> HIDE DEF Others, Before, After
<1>10. Sum(owed) = Cardinality(Others) + owed[k]
  <2>1. Cardinality(Others \cup Before) = Cardinality(Others) + Cardinality(Before)
    BY <1>4, <1>5, <1>7, DisjointUnion
  <2>2. QED
    BY <2>1, <1>2, <1>7 DEF Sum
<1>11. Sum(new) = Cardinality(Others) + new[k]
  <2>1. Cardinality(Others \cup After) = Cardinality(Others) + Cardinality(After)
    BY <1>4, <1>5, <1>7, DisjointUnion
  <2>2. QED
    BY <2>1, <1>3, <1>7 DEF Sum
<1>12. QED
  BY <1>6, <1>8, <1>10, <1>11

(* Nothing owed adds up to nothing. *)
LEMMA SumOfNothing ==
  ASSUME NEW owed, owed = [k \in Keys |-> 0]
  PROVE  Sum(owed) = 0
<1>1. Units(owed) = {}
  BY DEF Units
<1>2. QED
  BY <1>1, FS_EmptySet DEF Sum

(* More owed of each attempt is more owed in all. *)
LEMMA SumGrows ==
  ASSUME NEW less \in Amounts, NEW more \in Amounts,
         \A k \in Keys : less[k] <= more[k]
  PROVE  Sum(less) <= Sum(more)
<1>1. \A k \in Keys : 1..less[k] \subseteq 1..more[k]
  BY DEF Amounts
<1>2. Units(less) \subseteq Units(more)
  BY <1>1 DEF Units
<1>3. QED
  BY <1>2, SumType, FS_Subset DEF Sum

(* Owing two amounts of each attempt is owing both sums. *)
LEMMA SumOfSums ==
  ASSUME NEW one \in Amounts, NEW other \in Amounts, NEW both \in Amounts,
         \A k \in Keys : both[k] = one[k] + other[k]
  PROVE  Sum(both) = Sum(one) + Sum(other)
<1> DEFINE Rest == UNION {{k} \X ((one[k] + 1)..both[k]) : k \in Keys}
           shift == [x \in Units(other) |-> <<x[1], x[2] + one[x[1]]>>]
<1>1. \A k \in Keys : one[k] \in Nat /\ other[k] \in Nat /\ both[k] = one[k] + other[k]
  BY DEF Amounts
<1>2. \A x : x \in Units(other) <=>
              \E k \in Keys : \E n \in 1..other[k] : x = <<k, n>>
  BY DEF Units
<1>3. \A x : x \in Rest <=>
              \E k \in Keys : \E n \in (one[k] + 1)..both[k] : x = <<k, n>>
  OBVIOUS
<1>4. Units(both) = Units(one) \cup Rest /\ Units(one) \cap Rest = {}
  <2>1. \A k \in Keys :
          /\ 1..both[k] = (1..one[k]) \cup ((one[k] + 1)..both[k])
          /\ (1..one[k]) \cap ((one[k] + 1)..both[k]) = {}
    BY <1>1
  <2>2. QED
    BY <2>1 DEF Units
<1>5. ExistsBijection(Units(other), Rest)
  <2>1. ASSUME NEW k \in Keys, NEW n \in 1..other[k]
        PROVE  /\ <<k, n>> \in Units(other)
               /\ shift[<<k, n>>] = <<k, n + one[k]>>
               /\ n + one[k] \in (one[k] + 1)..both[k]
    <3>1. <<k, n>> \in Units(other)
      BY <1>2
    <3>2. QED
      BY <1>1, <3>1
  <2>2. shift \in [Units(other) -> Rest]
    <3>1. ASSUME NEW x \in Units(other)
          PROVE  shift[x] \in Rest
      <4>1. PICK k \in Keys : \E n \in 1..other[k] : x = <<k, n>>
        BY <1>2
      <4>2. PICK n \in 1..other[k] : x = <<k, n>>
        BY <4>1
      <4>3. shift[x] = <<k, n + one[k]>> /\ n + one[k] \in (one[k] + 1)..both[k]
        BY <2>1, <4>2
      <4> HIDE DEF shift, Rest
      <4>4. QED
        BY <1>3, <4>3
    <3>2. shift = [x \in Units(other) |-> shift[x]]
      OBVIOUS
    <3> HIDE DEF shift, Rest
    <3>3. QED
      BY <3>1, <3>2
  <2>3. ASSUME NEW x \in Units(other), NEW y \in Units(other), shift[x] = shift[y]
        PROVE  x = y
    <3>k. PICK k \in Keys : \E n \in 1..other[k] : x = <<k, n>>
      BY <1>2
    <3>1. PICK n \in 1..other[k] : x = <<k, n>>
      BY <3>k
    <3>j. PICK j \in Keys : \E i \in 1..other[j] : y = <<j, i>>
      BY <1>2
    <3>2. PICK i \in 1..other[j] : y = <<j, i>>
      BY <3>j
    <3>3. <<k, n + one[k]>> = <<j, i + one[j]>>
      BY <2>1, <2>3, <3>1, <3>2
    <3>4. k = j /\ n + one[k] = i + one[k]
      BY <3>3
    <3>5. n = i
      BY <1>1, <3>4
    <3>6. QED
      BY <3>1, <3>2, <3>4, <3>5
  <2>4. ASSUME NEW y \in Rest
        PROVE  \E x \in Units(other) : shift[x] = y
    <3>0. PICK k \in Keys : \E n \in (one[k] + 1)..both[k] : y = <<k, n>>
      BY <1>3
    <3>1. PICK n \in (one[k] + 1)..both[k] : y = <<k, n>>
      BY <3>0
    <3>2. n - one[k] \in 1..other[k] /\ (n - one[k]) + one[k] = n
      BY <1>1
    <3>3. <<k, n - one[k]>> \in Units(other) /\ shift[<<k, n - one[k]>>] = y
      BY <2>1, <3>1, <3>2
    <3>4. QED
      BY <3>3
  <2> HIDE DEF shift, Rest
  <2>5. shift \in Bijection(Units(other), Rest)
    BY <2>2, <2>3, <2>4 DEF Bijection, Injection, IsInjective, Surjection
  <2>6. QED
    BY <2>5 DEF ExistsBijection
<1> HIDE DEF Rest
<1>6. IsFiniteSet(Rest) /\ Cardinality(Rest) = Sum(other)
  BY <1>5, SumType, FS_Bijection DEF Sum
<1>7. /\ IsFiniteSet(Units(one)) /\ Cardinality(Units(one)) = Sum(one)
      /\ Cardinality(Units(both)) = Sum(both)
  BY SumType DEF Sum
<1>8. Cardinality(Units(one) \cup Rest) = Cardinality(Units(one)) + Cardinality(Rest)
  BY <1>4, <1>6, <1>7, DisjointUnion
<1>9. QED
  BY <1>4, <1>6, <1>7, <1>8

-----------------------------------------------------------------------------
(* The three sums of a month, and how one attempt's change moves them. *)

(* What an attempt counts for is a number of units. *)
LEMMA CountsType ==
  ASSUME NEW u \in Usages, NEW m \in Months
  PROVE  Owes(u, m) \in Nat /\ Bill(u, m) \in Nat /\ Excess(u, m) \in Nat
BY DEF Usages, Owes, Bill, Excess

(* The amounts of a month are functions to the naturals, and so sums of them. *)
LEMMA MonthSums ==
  ASSUME TypeOK, NEW m \in Months
  PROVE  /\ OpenIn(m) \in Amounts /\ BilledIn(m) \in Amounts
         /\ ExcessIn(m) \in Amounts /\ HeldIn(m) \in Amounts
         /\ Sum(OpenIn(m)) \in Nat /\ Sum(BilledIn(m)) \in Nat
         /\ Sum(ExcessIn(m)) \in Nat /\ Sum(HeldIn(m)) \in Nat
<1>1. \A k \in Keys : usage[k] \in Usages
  BY DEF TypeOK
<1>2. OpenIn(m) \in Amounts /\ BilledIn(m) \in Amounts /\ ExcessIn(m) \in Amounts
  BY <1>1, CountsType DEF OpenIn, BilledIn, ExcessIn, Amounts
<1>3. \A k \in Keys : usage[k].amount \in Nat
  BY <1>1 DEF Usages
<1>4. HeldIn(m) \in Amounts
  BY <1>3 DEF HeldIn, Amounts
<1>5. QED
  BY <1>2, <1>4, SumType

(* One attempt changes: each sum moves by what it counted and counts now. *)
LEMMA ChangeOne ==
  ASSUME TypeOK, NEW k \in Keys, NEW u \in Usages,
         usage' = [usage EXCEPT ![k] = u], NEW m \in Months
  PROVE  /\ Sum(OpenIn(m))' = Sum(OpenIn(m)) - Owes(usage[k], m) + Owes(u, m)
         /\ Sum(OpenIn(m)) - Owes(usage[k], m) \in Nat
         /\ Sum(BilledIn(m))' = Sum(BilledIn(m)) - Bill(usage[k], m) + Bill(u, m)
         /\ Sum(ExcessIn(m))' = Sum(ExcessIn(m)) - Excess(usage[k], m) + Excess(u, m)
<1>1. usage \in [Keys -> Usages]
  BY DEF TypeOK
<1>2. usage'[k] = u /\ \A j \in Keys \ {k} : usage'[j] = usage[j]
  BY <1>1
<1>3. \A j \in Keys : usage[j] \in Usages /\ usage'[j] \in Usages
  BY <1>1, <1>2
<1> DEFINE Owes1 == [j \in Keys |-> Owes(usage'[j], m)]
           Bill1 == [j \in Keys |-> Bill(usage'[j], m)]
           Excess1 == [j \in Keys |-> Excess(usage'[j], m)]
<1>4. /\ Sum(Owes1) = Sum(OpenIn(m)) - Owes(usage[k], m) + Owes(u, m)
      /\ Sum(OpenIn(m)) - Owes(usage[k], m) \in Nat
  <2>1. OpenIn(m) \in Amounts /\ Owes1 \in Amounts
    BY <1>3, CountsType DEF Amounts, OpenIn
  <2>2. /\ \A j \in Keys \ {k} : Owes1[j] = OpenIn(m)[j]
        /\ Owes1[k] = Owes(u, m) /\ OpenIn(m)[k] = Owes(usage[k], m)
    BY <1>2 DEF OpenIn
  <2> HIDE DEF Owes1
  <2>3. QED
    BY <2>1, <2>2, SumUpdate
<1>5. Sum(Bill1) = Sum(BilledIn(m)) - Bill(usage[k], m) + Bill(u, m)
  <2>1. BilledIn(m) \in Amounts /\ Bill1 \in Amounts
    BY <1>3, CountsType DEF Amounts, BilledIn
  <2>2. /\ \A j \in Keys \ {k} : Bill1[j] = BilledIn(m)[j]
        /\ Bill1[k] = Bill(u, m) /\ BilledIn(m)[k] = Bill(usage[k], m)
    BY <1>2 DEF BilledIn
  <2> HIDE DEF Bill1
  <2>3. QED
    BY <2>1, <2>2, SumUpdate
<1>6. Sum(Excess1) = Sum(ExcessIn(m)) - Excess(usage[k], m) + Excess(u, m)
  <2>1. ExcessIn(m) \in Amounts /\ Excess1 \in Amounts
    BY <1>3, CountsType DEF Amounts, ExcessIn
  <2>2. /\ \A j \in Keys \ {k} : Excess1[j] = ExcessIn(m)[j]
        /\ Excess1[k] = Excess(u, m) /\ ExcessIn(m)[k] = Excess(usage[k], m)
    BY <1>2 DEF ExcessIn
  <2> HIDE DEF Excess1
  <2>3. QED
    BY <2>1, <2>2, SumUpdate
<1>7. /\ Sum(OpenIn(m))' = Sum(Owes1)
      /\ Sum(BilledIn(m))' = Sum(Bill1)
      /\ Sum(ExcessIn(m))' = Sum(Excess1)
  BY DEF OpenIn, BilledIn, ExcessIn, Owes, Bill, Excess, Sum, Units
<1>8. QED
  BY <1>4, <1>5, <1>6, <1>7

(* Attempts change without counting for more or less: the sums stand. *)
LEMMA ChangeNothing ==
  ASSUME NEW m \in Months,
         \A k \in Keys : /\ Owes(usage'[k], m) = Owes(usage[k], m)
                         /\ Bill(usage'[k], m) = Bill(usage[k], m)
                         /\ Excess(usage'[k], m) = Excess(usage[k], m)
  PROVE  /\ Sum(OpenIn(m))' = Sum(OpenIn(m))
         /\ Sum(BilledIn(m))' = Sum(BilledIn(m))
         /\ Sum(ExcessIn(m))' = Sum(ExcessIn(m))
<1>1. OpenIn(m)' = OpenIn(m) /\ BilledIn(m)' = BilledIn(m) /\ ExcessIn(m)' = ExcessIn(m)
  BY DEF OpenIn, BilledIn, ExcessIn
<1>2. QED
  BY <1>1 DEF Sum, Units

-----------------------------------------------------------------------------
(* The invariant. *)

(* No attempt, no hold, no amount: the empty ledger balances. *)
LEMMA InitInv == Init => BudgetInv
<1> SUFFICES ASSUME Init PROVE BudgetInv
  OBVIOUS
<1>1. 1 \in Months
  BY AttemptsAssumption DEF Months
<1>2. NoUsage \in Usages
  BY <1>1, AmountsAssumption DEF NoUsage, Usages, UsageStates
<1>3. TypeOK
  BY <1>1, <1>2 DEF Init, TypeOK, Pauses
<1>4. ASSUME NEW m \in Months
      PROVE  Sum(OpenIn(m)) = 0 /\ Sum(BilledIn(m)) = 0
  <2>1. OpenIn(m) = [k \in Keys |-> 0] /\ BilledIn(m) = [k \in Keys |-> 0]
    BY DEF Init, NoUsage, OpenIn, BilledIn, Owes, Bill, Open, Uncertain
  <2>2. QED
    BY <2>1, SumOfNothing
<1>5. LedgerBalances
  BY <1>4 DEF Init, LedgerBalances
<1>6. SpendBounded
  <2>1. \A m \in Months : Sum(ExcessIn(m)) \in Nat
    BY <1>3, MonthSums
  <2>2. \A m \in Months : settled[m] = 0 /\ reserved[m] = 0
    BY DEF Init
  <2>3. QED
    BY <2>1, <2>2, ThresholdsAssumption DEF SpendBounded
<1>7. HoldsFollowDoubt
  BY DEF Init, HoldsFollowDoubt
<1>8. QED
  BY <1>3, <1>5, <1>6, <1>7 DEF BudgetInv

(* Counters that move as the changed attempt's counts do still balance. *)
LEMMA BalanceKept ==
  ASSUME BudgetInv, NEW k \in Keys, NEW u \in Usages,
         usage' = [usage EXCEPT ![k] = u],
         DOMAIN reserved' = Months, DOMAIN settled' = Months,
         reserved' = [m \in Months |-> reserved'[m]],
         settled' = [m \in Months |-> settled'[m]],
         usage[k].state # "settled",
         \A m \in Months :
           /\ reserved'[m] = reserved[m] - Owes(usage[k], m) + Owes(u, m)
           /\ settled'[m] = settled[m] + Bill(u, m)
  PROVE  /\ LedgerBalances'
         /\ reserved' \in [Months -> Nat] /\ settled' \in [Months -> Nat]
<1> USE DEF BudgetInv
<1>1. ASSUME NEW m \in Months
      PROVE  /\ reserved'[m] = Sum(OpenIn(m))' /\ reserved'[m] \in Nat
             /\ settled'[m] = Sum(BilledIn(m))' /\ settled'[m] \in Nat
  <2>1. reserved[m] = Sum(OpenIn(m)) /\ settled[m] = Sum(BilledIn(m))
    BY DEF LedgerBalances
  <2>2. Sum(OpenIn(m)) \in Nat /\ Sum(BilledIn(m)) \in Nat
    BY MonthSums
  <2>3. Owes(u, m) \in Nat /\ Bill(u, m) \in Nat
    BY CountsType
  <2>4. Bill(usage[k], m) = 0
    BY DEF Bill
  <2>5. /\ Sum(OpenIn(m))' = Sum(OpenIn(m)) - Owes(usage[k], m) + Owes(u, m)
        /\ Sum(OpenIn(m)) - Owes(usage[k], m) \in Nat
        /\ Sum(BilledIn(m))' = Sum(BilledIn(m)) - Bill(usage[k], m) + Bill(u, m)
    BY ChangeOne
  <2>6. QED
    BY <2>1, <2>2, <2>3, <2>4, <2>5
<1>2. reserved' \in [Months -> Nat] /\ settled' \in [Months -> Nat]
  BY <1>1
<1>3. QED
  BY <1>1, <1>2 DEF LedgerBalances, Months

(* An admitted amount fits under the ceiling with all that is committed. *)
LEMMA AdmittedFits ==
  ASSUME TypeOK, NEW p \in Prices, NEW amount \in AdmittedAmounts(p)
  PROVE  /\ amount \in Nat
         /\ settled[clock.month] + reserved[clock.month] + amount <= Ceiling
<1>1. clock.month \in Months
  BY DEF TypeOK
<1>2. Sum(HeldIn(clock.month)) \in Nat
  BY <1>1, MonthSums
<1>3. settled[clock.month] \in Nat /\ reserved[clock.month] \in Nat
  BY <1>1 DEF TypeOK
<1>4. /\ limits.lighter \in Nat /\ limits.stop \in Nat
      /\ limits.lighter <= limits.stop /\ limits.stop <= Ceiling
  BY ThresholdsAssumption DEF TypeOK
<1>5. Normal[p] \in Nat /\ Lighter[p] \in Nat
  BY AmountsAssumption
<1>6. \/ amount = Normal[p] /\ Committed(clock.month) + amount <= limits.lighter
      \/ amount = Lighter[p] /\ Committed(clock.month) + amount <= limits.stop
  BY DEF AdmittedAmounts
<1>7. QED
  BY <1>2, <1>3, <1>4, <1>5, <1>6, ThresholdsAssumption DEF Committed

LEMMA AdmitKeeps ==
  ASSUME BudgetInv, NEW k \in Keys, NEW p \in Prices, AdmitReservation(k, p)
  PROVE  BudgetInv'
<1> USE DEF BudgetInv
<1>1. PICK amount \in AdmittedAmounts(p) :
        /\ NewUsage(k, p, "reserved", amount)
        /\ reserved' = [reserved EXCEPT ![clock.month] = reserved[clock.month] + amount]
  BY DEF AdmitReservation
<1> DEFINE u == [state |-> "reserved", month |-> clock.month,
                 amount |-> amount, billed |-> 0, price |-> p]
<1>2. /\ usage[k].state = "none" /\ usage' = [usage EXCEPT ![k] = u]
      /\ UNCHANGED <<clock, settled, limits, paused, hold>>
  BY <1>1 DEF AdmitReservation, NewUsage
<1>3. /\ amount \in Nat
      /\ settled[clock.month] + reserved[clock.month] + amount <= Ceiling
  BY AdmittedFits
<1>4. clock.month \in Months /\ reserved \in [Months -> Nat]
      /\ settled \in [Months -> Nat] /\ usage \in [Keys -> Usages]
  BY DEF TypeOK
<1>5. u \in Usages
  BY <1>3, <1>4 DEF Usages, UsageStates
<1>6. ASSUME NEW m \in Months
      PROVE  /\ Owes(usage[k], m) = 0 /\ Owes(u, m) = IF m = clock.month THEN amount ELSE 0
             /\ Bill(u, m) = 0 /\ Excess(u, m) = 0 /\ Excess(usage[k], m) = 0
  <2>1. usage[k].amount \in Nat
    BY <1>4 DEF Usages
  <2>2. QED
    BY <1>2, <1>3, <2>1 DEF Owes, Bill, Excess, Open, Uncertain
<1> HIDE DEF u
<1>7. \A m \in Months :
        /\ reserved'[m] = reserved[m] - Owes(usage[k], m) + Owes(u, m)
        /\ settled'[m] = settled[m] + Bill(u, m)
  BY <1>1, <1>2, <1>3, <1>4, <1>6
<1>8. /\ LedgerBalances'
      /\ reserved' \in [Months -> Nat] /\ settled' \in [Months -> Nat]
  BY <1>1, <1>2, <1>4, <1>5, <1>7, BalanceKept
<1>9. usage' \in [Keys -> Usages]
  BY <1>2, <1>4, <1>5
<1>10. TypeOK'
  BY <1>2, <1>8, <1>9 DEF TypeOK
<1>11. ASSUME NEW m \in Months
       PROVE  settled'[m] + reserved'[m] <= Ceiling + Sum(ExcessIn(m))'
  <2>1. Sum(ExcessIn(m))' = Sum(ExcessIn(m))
    <3>1. Sum(ExcessIn(m))' = Sum(ExcessIn(m)) - Excess(usage[k], m) + Excess(u, m)
      BY <1>2, <1>5, ChangeOne
    <3>2. QED
      BY <3>1, <1>6, MonthSums
  <2>2. Sum(ExcessIn(m)) \in Nat
    BY MonthSums
  <2>3. CASE m = clock.month
    <3>1. settled'[m] + reserved'[m] <= Ceiling
      BY <2>3, <1>1, <1>2, <1>3, <1>4
    <3>2. settled'[m] + reserved'[m] \in Int /\ Ceiling \in Nat
      BY <1>8, ThresholdsAssumption
    <3>3. QED
      BY <3>1, <3>2, <2>1, <2>2
  <2>4. CASE m # clock.month
    <3>1. settled'[m] + reserved'[m] = settled[m] + reserved[m]
      BY <2>4, <1>1, <1>2, <1>4
    <3>2. QED
      BY <3>1, <2>1 DEF SpendBounded
  <2>5. QED
    BY <2>3, <2>4
<1>12. SpendBounded'
  BY <1>11 DEF SpendBounded, Months
<1>13. HoldsFollowDoubt'
  <2>1. \A m \in Months : hold[k][m] \notin {"held", "released"}
    BY <1>2 DEF HoldsFollowDoubt, Uncertain
  <2>2. \A j \in Keys \ {k} : usage'[j] = usage[j]
    BY <1>2, <1>4
  <2>3. QED
    BY <1>2, <2>1, <2>2 DEF HoldsFollowDoubt
<1>14. QED
  BY <1>8, <1>10, <1>12, <1>13

(* Attempts that count for what they counted for leave the ledger alone. *)
LEMMA SameCounts ==
  ASSUME BudgetInv, UNCHANGED <<settled, reserved>>,
         \A m \in Months, k \in Keys :
           /\ Owes(usage'[k], m) = Owes(usage[k], m)
           /\ Bill(usage'[k], m) = Bill(usage[k], m)
           /\ Excess(usage'[k], m) = Excess(usage[k], m)
  PROVE  LedgerBalances' /\ SpendBounded'
<1>1. ASSUME NEW m \in Months
      PROVE  /\ Sum(OpenIn(m))' = Sum(OpenIn(m))
             /\ Sum(BilledIn(m))' = Sum(BilledIn(m))
             /\ Sum(ExcessIn(m))' = Sum(ExcessIn(m))
  BY ChangeNothing
<1>2. LedgerBalances'
  BY <1>1 DEF BudgetInv, LedgerBalances, Months
<1>3. SpendBounded'
  BY <1>1 DEF BudgetInv, SpendBounded, Months
<1>4. QED
  BY <1>2, <1>3

LEMMA RefuseKeeps ==
  ASSUME BudgetInv, NEW k \in Keys, NEW p \in Prices, RefuseReservation(k, p)
  PROVE  BudgetInv'
<1> USE DEF BudgetInv
<1> DEFINE u == [state |-> "refused", month |-> clock.month,
                 amount |-> 0, billed |-> 0, price |-> p]
<1>1. /\ usage[k].state = "none" /\ usage' = [usage EXCEPT ![k] = u]
      /\ UNCHANGED <<clock, settled, reserved, limits, paused, hold>>
  BY DEF RefuseReservation, NewUsage
<1>2. clock.month \in Months /\ usage \in [Keys -> Usages]
  BY DEF TypeOK
<1>3. u \in Usages
  BY <1>2 DEF Usages, UsageStates
<1>4. usage' \in [Keys -> Usages]
  BY <1>1, <1>2, <1>3
<1>5. TypeOK'
  BY <1>1, <1>4 DEF TypeOK
<1>6. \A m \in Months :
        /\ Owes(u, m) = 0 /\ Bill(u, m) = 0 /\ Excess(u, m) = 0
        /\ Owes(usage[k], m) = 0 /\ Bill(usage[k], m) = 0 /\ Excess(usage[k], m) = 0
  <2>1. usage[k].amount \in Nat
    BY <1>2 DEF Usages
  <2>2. QED
    BY <1>1, <2>1 DEF Owes, Bill, Excess, Open, Uncertain
<1>7. usage'[k] = u /\ \A j \in Keys \ {k} : usage'[j] = usage[j]
  BY <1>1, <1>2
<1> HIDE DEF u
<1>8. LedgerBalances' /\ SpendBounded'
  <2>1. \A m \in Months, j \in Keys :
          /\ Owes(usage'[j], m) = Owes(usage[j], m)
          /\ Bill(usage'[j], m) = Bill(usage[j], m)
          /\ Excess(usage'[j], m) = Excess(usage[j], m)
    BY <1>6, <1>7
  <2>2. QED
    BY <1>1, <2>1, SameCounts
<1>9. HoldsFollowDoubt'
  <2>1. \A m \in Months : hold[k][m] \notin {"held", "released"}
    BY <1>1 DEF HoldsFollowDoubt, Uncertain
  <2>2. QED
    BY <1>1, <1>7, <2>1 DEF HoldsFollowDoubt
<1>10. QED
  BY <1>5, <1>8, <1>9

(* Marking open attempts, dispatching or unknown, moves no amount.  A hold   *)
(* stays where an attempt in doubt stays in doubt.                           *)
LEMMA MarksKeep ==
  ASSUME BudgetInv, UNCHANGED <<clock, settled, reserved, limits, hold>>,
         paused' \in Pauses, usage' \in [Keys -> Usages],
         \A k \in Keys :
           \/ usage'[k] = usage[k]
           \/ /\ usage[k].state \in Open /\ usage'[k].state \in Uncertain
              /\ usage'[k].month = usage[k].month
              /\ usage'[k].amount = usage[k].amount
  PROVE  BudgetInv'
<1> USE DEF BudgetInv
<1>1. TypeOK'
  BY DEF TypeOK
<1>2. ASSUME NEW m \in Months, NEW k \in Keys
      PROVE  /\ Owes(usage'[k], m) = Owes(usage[k], m)
             /\ Bill(usage'[k], m) = Bill(usage[k], m)
             /\ Excess(usage'[k], m) = Excess(usage[k], m)
  <2>1. usage[k].amount \in Nat
    BY DEF TypeOK, Usages
  <2>2. CASE usage'[k] = usage[k]
    BY <2>2
  <2>3. CASE /\ usage[k].state \in Open /\ usage'[k].state \in Uncertain
             /\ usage'[k].month = usage[k].month
             /\ usage'[k].amount = usage[k].amount
    BY <2>1, <2>3 DEF Owes, Bill, Excess, Open, Uncertain
  <2>4. QED
    BY <2>2, <2>3
<1>3. LedgerBalances' /\ SpendBounded'
  BY <1>2, SameCounts
<1>4. HoldsFollowDoubt'
  BY DEF HoldsFollowDoubt, Open, Uncertain
<1>5. QED
  BY <1>1, <1>3, <1>4

(* Ending an attempt moves its reservation to its bill, if it has one. *)
LEMMA EndKeeps ==
  ASSUME BudgetInv, NEW k \in Keys, NEW billed \in Nat,
         NEW state \in {"settled", "released"},
         usage[k].state \in Open, state = "released" => billed = 0,
         EndUsage(k, state, billed), paused' \in Pauses
  PROVE  BudgetInv'
<1> USE DEF BudgetInv
<1> DEFINE u == [usage[k] EXCEPT !.state = state, !.billed = billed]
           mk == usage[k].month
           old == usage[k].amount
<1>1. /\ usage \in [Keys -> Usages] /\ usage[k] \in Usages
      /\ mk \in Months /\ old \in Nat
      /\ reserved \in [Months -> Nat] /\ settled \in [Months -> Nat]
      /\ hold \in [Keys -> [Months -> {"absent", "held", "released"}]]
  BY DEF TypeOK, Usages
<1>2. /\ usage' = [usage EXCEPT ![k] = u]
      /\ reserved' = [reserved EXCEPT ![mk] = reserved[mk] - old]
      /\ settled' = [settled EXCEPT ![mk] = settled[mk] + billed]
      /\ hold' = [hold EXCEPT ![k] = [n \in Months |->
                    IF hold[k][n] = "held" THEN "released" ELSE hold[k][n]]]
      /\ UNCHANGED <<clock, limits>>
  BY DEF EndUsage
<1>3. /\ u \in Usages /\ u.state = state /\ u.billed = billed
      /\ u.month = mk /\ u.amount = old
  BY <1>1 DEF Usages, UsageStates
<1> HIDE DEF u
<1>4. ASSUME NEW m \in Months
      PROVE  /\ Owes(usage[k], m) = (IF m = mk THEN old ELSE 0) /\ Owes(u, m) = 0
             /\ Bill(u, m) = (IF m = mk THEN billed ELSE 0)
             /\ Excess(usage[k], m) = 0
             /\ Excess(u, m) \in Nat
             /\ m = mk => Excess(u, m) >= billed - old
  <2>1. Owes(usage[k], m) = (IF m = mk THEN old ELSE 0)
    BY DEF Owes
  <2>2. Owes(u, m) = 0
    BY <1>3 DEF Owes, Open, Uncertain
  <2>3. Bill(u, m) = (IF m = mk THEN billed ELSE 0)
    BY <1>3 DEF Bill
  <2>4. Bill(usage[k], m) = 0
    BY DEF Bill, Open, Uncertain
  <2>5. Excess(usage[k], m) = 0
    BY <1>1, <2>4 DEF Excess
  <2>6. Excess(u, m) \in Nat /\ (m = mk => Excess(u, m) >= billed - old)
    <3>1. Excess(u, m) = IF Bill(u, m) > old THEN billed - old ELSE 0
      BY <1>3 DEF Excess
    <3>2. CASE m = mk
      BY <1>1, <2>3, <3>1, <3>2
    <3>3. CASE m # mk
      BY <1>1, <2>3, <3>1, <3>3
    <3>4. QED
      BY <3>2, <3>3
  <2>7. QED
    BY <2>1, <2>2, <2>3, <2>5, <2>6
<1>5. \A m \in Months :
        /\ reserved'[m] = reserved[m] - Owes(usage[k], m) + Owes(u, m)
        /\ settled'[m] = settled[m] + Bill(u, m)
  BY <1>1, <1>2, <1>4
<1>6. usage[k].state # "settled"
  BY DEF Open, Uncertain
<1>7. /\ LedgerBalances'
      /\ reserved' \in [Months -> Nat] /\ settled' \in [Months -> Nat]
  <2>1. /\ DOMAIN reserved' = Months /\ reserved' = [m \in Months |-> reserved'[m]]
        /\ DOMAIN settled' = Months /\ settled' = [m \in Months |-> settled'[m]]
    BY <1>1, <1>2
  <2>2. usage' = [usage EXCEPT ![k] = u] /\ u \in Usages
    BY <1>2, <1>3
  <2> HIDE DEF BudgetInv, mk, old
  <2>3. QED
    BY <2>1, <2>2, <1>5, <1>6, BalanceKept
<1>8. usage' \in [Keys -> Usages]
  BY <1>1, <1>2, <1>3
<1>9. hold' \in [Keys -> [Months -> {"absent", "held", "released"}]]
  BY <1>1, <1>2
<1>10. TypeOK'
  BY <1>2, <1>7, <1>8, <1>9 DEF TypeOK
<1>11. ASSUME NEW m \in Months
       PROVE  settled'[m] + reserved'[m] <= Ceiling + Sum(ExcessIn(m))'
  <2>1. Sum(ExcessIn(m))' = Sum(ExcessIn(m)) + Excess(u, m)
    <3>1. Sum(ExcessIn(m))' = Sum(ExcessIn(m)) - Excess(usage[k], m) + Excess(u, m)
      BY <1>2, <1>3, ChangeOne
    <3>2. QED
      BY <3>1, <1>4, MonthSums
  <2>2. settled[m] + reserved[m] <= Ceiling + Sum(ExcessIn(m))
    BY DEF SpendBounded
  <2>3. settled[m] \in Nat /\ reserved[m] \in Nat /\ Ceiling \in Nat
        /\ Sum(ExcessIn(m)) \in Nat /\ Excess(u, m) \in Nat
    BY <1>1, <1>4, MonthSums, ThresholdsAssumption
  <2>4. CASE m = mk
    <3>1. settled'[m] = settled[m] + billed /\ reserved'[m] = reserved[m] - old
      BY <2>4, <1>1, <1>2
    <3>2. Excess(u, m) >= billed - old
      BY <2>4, <1>4
    <3>3. QED
      BY <3>1, <3>2, <2>1, <2>2, <2>3, <1>1
  <2>5. CASE m # mk
    <3>1. settled'[m] = settled[m] /\ reserved'[m] = reserved[m]
      BY <2>5, <1>1, <1>2
    <3>2. QED
      BY <3>1, <2>1, <2>2, <2>3
  <2>6. QED
    BY <2>4, <2>5
<1>12. SpendBounded'
  BY <1>11 DEF SpendBounded, Months
<1>13. HoldsFollowDoubt'
  <2>1. \A j \in Keys \ {k} : usage'[j] = usage[j] /\ hold'[j] = hold[j]
    BY <1>1, <1>2
  <2>2. usage'[k].state \in {"settled", "released"}
    BY <1>1, <1>2, <1>3
  <2>3. \A m \in Months : hold'[k][m] # "held"
    BY <1>1, <1>2
  <2>4. QED
    BY <2>1, <2>2, <2>3 DEF HoldsFollowDoubt
<1>14. QED
  BY <1>7, <1>10, <1>12, <1>13

LEMMA RolloverKeeps ==
  ASSUME BudgetInv, Rollover
  PROVE  BudgetInv'
<1>1. /\ clock.month \in Months
      /\ \A k \in Keys : hold[k] \in [Months -> {"absent", "held", "released"}]
  BY DEF BudgetInv, TypeOK
<1>2. UNCHANGED <<clock, settled, reserved, limits, paused, usage>>
  BY DEF Rollover
<1>3. \A k \in Keys :
        \/ hold'[k] = hold[k]
        \/ hold'[k] = [hold[k] EXCEPT ![clock.month] = "held"] /\ Carried(k, clock.month)
  BY DEF Rollover
<1>4. \A k \in Keys : hold'[k] \in [Months -> {"absent", "held", "released"}]
  <2>1. ASSUME NEW k \in Keys
        PROVE  hold'[k] \in [Months -> {"absent", "held", "released"}]
    <3>1. hold[k] \in [Months -> {"absent", "held", "released"}]
      BY <1>1
    <3>2. CASE hold'[k] = hold[k]
      BY <3>1, <3>2
    <3>3. CASE hold'[k] = [hold[k] EXCEPT ![clock.month] = "held"]
      BY <3>1, <3>3
    <3>4. QED
      BY <1>3, <3>2, <3>3
  <2>2. QED
    BY <2>1
<1>5. hold' = [k \in Keys |-> hold'[k]]
  BY DEF Rollover
<1>6. TypeOK'
  <2>1. hold' \in [Keys -> [Months -> {"absent", "held", "released"}]]
    BY <1>4, <1>5
  <2>2. QED
    BY <1>2, <2>1 DEF BudgetInv, TypeOK
<1>7. LedgerBalances' /\ SpendBounded'
  BY <1>2, SameCounts
<1>8. HoldsFollowDoubt'
  <2>1. ASSUME NEW k \in Keys, NEW m \in Months
        PROVE  \/ hold'[k][m] = hold[k][m]
               \/ hold'[k][m] = "held" /\ Carried(k, m)
    <3>1. CASE m = clock.month
      BY <3>1, <1>1, <1>3
    <3>2. CASE m # clock.month
      BY <3>2, <1>1, <1>3
    <3>3. QED
      BY <3>1, <3>2
  <2>2. QED
    BY <1>2, <2>1 DEF BudgetInv, HoldsFollowDoubt, Carried
<1>9. QED
  BY <1>6, <1>7, <1>8 DEF BudgetInv

(* One step per action of AiBudget. *)
LEMMA NextKeeps ==
  ASSUME BudgetInv, [Next]_vars
  PROVE  BudgetInv'
<1>1. ASSUME NEW k \in Keys, NEW p \in Prices, AdmitReservation(k, p)
      PROVE  BudgetInv'
  BY <1>1, AdmitKeeps
<1>2. ASSUME NEW k \in Keys, NEW p \in Prices, RefuseReservation(k, p)
      PROVE  BudgetInv'
  BY <1>2, RefuseKeeps
<1>3. ASSUME NEW k \in Keys, NEW p \in Prices, MarkDispatching(k, p)
      PROVE  BudgetInv'
  <2>1. /\ usage[k].state = "reserved"
        /\ usage' = [usage EXCEPT ![k] = [usage[k] EXCEPT !.state = "dispatching"]]
        /\ UNCHANGED <<clock, settled, reserved, limits, paused, hold>>
    BY <1>3 DEF MarkDispatching
  <2>2. usage \in [Keys -> Usages] /\ usage[k] \in Usages /\ paused \in Pauses
    BY DEF BudgetInv, TypeOK
  <2>3. usage' \in [Keys -> Usages]
    BY <2>1, <2>2 DEF Usages, UsageStates
  <2>4. /\ usage'[k].state = "dispatching" /\ usage'[k].month = usage[k].month
        /\ usage'[k].amount = usage[k].amount
        /\ \A j \in Keys \ {k} : usage'[j] = usage[j]
    BY <2>1, <2>2 DEF Usages
  <2>5. "reserved" \in Open /\ "dispatching" \in Uncertain
    BY DEF Open, Uncertain
  <2>6. QED
    BY <2>1, <2>2, <2>3, <2>4, <2>5, MarksKeep
<1>4. ASSUME NEW k \in Keys, NEW p \in Prices, BlockDispatch(k, p)
      PROVE  BudgetInv'
  <2>1. usage[k].state \in Open /\ EndUsage(k, "released", 0) /\ paused' = paused
    BY <1>4 DEF BlockDispatch, Open
  <2>2. paused' \in Pauses
    BY <2>1 DEF BudgetInv, TypeOK
  <2>3. QED
    BY <2>1, <2>2, EndKeeps
<1>5. ASSUME NEW k \in Keys, NEW billed \in Bills, Settle(k, billed)
      PROVE  BudgetInv'
  <2>1. usage[k].state \in Open /\ EndUsage(k, "settled", billed)
    BY <1>5 DEF Settle, Open
  <2>2. paused' \in Pauses
    BY <1>5 DEF Settle, BudgetInv, TypeOK, Pauses
  <2>3. billed \in Nat
    BY AmountsAssumption
  <2>4. QED
    BY <2>1, <2>2, <2>3, EndKeeps
<1>6. ASSUME NEW k \in Keys, Release(k)
      PROVE  BudgetInv'
  <2>1. usage[k].state \in Open /\ EndUsage(k, "released", 0) /\ paused' = paused
    BY <1>6 DEF Release, Open, Uncertain
  <2>2. paused' \in Pauses
    BY <2>1 DEF BudgetInv, TypeOK
  <2>3. QED
    BY <2>1, <2>2, EndKeeps
<1>7. ASSUME NEW k \in Keys, MarkUnknown(k)
      PROVE  BudgetInv'
  <2>1. /\ usage[k].state = "dispatching"
        /\ usage' = [usage EXCEPT ![k] = [usage[k] EXCEPT !.state = "unknown"]]
        /\ UNCHANGED <<clock, settled, reserved, limits, paused, hold>>
    BY <1>7 DEF MarkUnknown
  <2>2. usage \in [Keys -> Usages] /\ usage[k] \in Usages /\ paused \in Pauses
    BY DEF BudgetInv, TypeOK
  <2>3. usage' \in [Keys -> Usages]
    BY <2>1, <2>2 DEF Usages, UsageStates
  <2>4. /\ usage'[k].state = "unknown" /\ usage'[k].month = usage[k].month
        /\ usage'[k].amount = usage[k].amount
        /\ \A j \in Keys \ {k} : usage'[j] = usage[j]
    BY <2>1, <2>2 DEF Usages
  <2>5. "dispatching" \in Open /\ "unknown" \in Uncertain
    BY DEF Open, Uncertain
  <2>6. QED
    BY <2>1, <2>2, <2>3, <2>4, <2>5, MarksKeep
<1>8. CASE Rollover
  BY <1>8, RolloverKeeps
<1>9. ASSUME NEW t \in Thresholds, NEW clearPause \in BOOLEAN, UpdateBudget(t, clearPause)
      PROVE  BudgetInv'
  <2>1. /\ limits' \in Thresholds /\ paused' \in Pauses
        /\ UNCHANGED <<clock, settled, reserved, usage, hold>>
    BY <1>9 DEF UpdateBudget, BudgetInv, TypeOK, Pauses
  <2>2. TypeOK'
    BY <2>1 DEF BudgetInv, TypeOK
  <2>3. LedgerBalances' /\ SpendBounded'
    BY <2>1, SameCounts
  <2>4. HoldsFollowDoubt'
    BY <2>1 DEF BudgetInv, HoldsFollowDoubt
  <2>5. QED
    BY <2>2, <2>3, <2>4 DEF BudgetInv
<1>10. CASE PrepareRestored
  <2>1. /\ \A k \in Keys : usage'[k] =
             IF usage[k].state \in {"reserved", "dispatching"}
             THEN [usage[k] EXCEPT !.state = "unknown"] ELSE usage[k]
        /\ usage' = [k \in Keys |-> usage'[k]]
        /\ paused' \in Pauses
        /\ UNCHANGED <<clock, settled, reserved, limits, hold>>
    BY <1>10 DEF PrepareRestored, Pauses
  <2>2. \A k \in Keys : usage[k] \in Usages
    BY DEF BudgetInv, TypeOK
  <2>3. ASSUME NEW k \in Keys
        PROVE  /\ usage'[k] \in Usages
               /\ \/ usage'[k] = usage[k]
                  \/ /\ usage[k].state \in Open /\ usage'[k].state \in Uncertain
                     /\ usage'[k].month = usage[k].month
                     /\ usage'[k].amount = usage[k].amount
    BY <2>1, <2>2 DEF Usages, UsageStates, Open, Uncertain
  <2>4. usage' \in [Keys -> Usages]
    BY <2>1, <2>3
  <2>5. QED
    BY <2>1, <2>3, <2>4, MarksKeep
<1>11. CASE CloseMonth \/ StartMonth \/ UNCHANGED vars
  <2>1. UNCHANGED <<settled, reserved, limits, paused, usage, hold>>
    BY <1>11 DEF CloseMonth, StartMonth, vars
  <2>2. clock' \in [month : Months, closing : BOOLEAN]
    <3>1. clock \in [month : Months, closing : BOOLEAN] /\ clock.month \in Months
      BY DEF BudgetInv, TypeOK
    <3>2. CASE CloseMonth
      BY <3>1, <3>2 DEF CloseMonth
    <3>3. CASE StartMonth
      <4>1. clock.month + 1 \in Months
        BY <3>1, <3>3, AttemptsAssumption DEF StartMonth, Months
      <4>2. QED
        BY <3>3, <4>1 DEF StartMonth
    <3>4. CASE UNCHANGED vars
      BY <3>1, <3>4 DEF vars
    <3>5. QED
      BY <1>11, <3>2, <3>3, <3>4
  <2>3. TypeOK'
    BY <2>1, <2>2 DEF BudgetInv, TypeOK
  <2>4. LedgerBalances' /\ SpendBounded'
    BY <2>1, SameCounts
  <2>5. HoldsFollowDoubt'
    BY <2>1 DEF BudgetInv, HoldsFollowDoubt
  <2>6. QED
    BY <2>3, <2>4, <2>5 DEF BudgetInv
<1>12. QED
  BY <1>1, <1>2, <1>3, <1>4, <1>5, <1>6, <1>7, <1>8, <1>9, <1>10, <1>11 DEF Next

-----------------------------------------------------------------------------
(* The invariant holds in every reachable state, for any set of attempts,   *)
(* months, prices, thresholds and bills.                                    *)
THEOREM BudgetInvariance == BudgetSpec => []BudgetInv
<1>1. Init => BudgetInv
  BY InitInv
<1>2. BudgetInv /\ [Next]_vars => BudgetInv'
  BY NextKeeps
<1>3. QED
  BY <1>1, <1>2, PTL DEF BudgetSpec

(* The counters are never negative and every field stays in its domain. *)
THEOREM BudgetTypeCorrect == BudgetSpec => []TypeOK
<1>1. BudgetInv => TypeOK
  BY DEF BudgetInv
<1>2. QED
  BY <1>1, BudgetInvariance, PTL

(* svc_ai_reserve and release_usage keep each month's counters equal to what*)
(* its attempts add up to.                                                  *)
THEOREM LedgerAlwaysBalances == BudgetSpec => []LedgerBalances
<1>1. BudgetInv => LedgerBalances
  BY DEF BudgetInv
<1>2. QED
  BY <1>1, BudgetInvariance, PTL

(* A month costs at most the ceiling and what was billed above reservations.*)
THEOREM SpendStaysBounded == BudgetSpec => []SpendBounded
<1>1. BudgetInv => SpendBounded
  BY DEF BudgetInv
<1>2. QED
  BY <1>1, BudgetInvariance, PTL

(* Holds of later months stand exactly for attempts still in doubt. *)
THEOREM HoldsAlwaysFollowDoubt == BudgetSpec => []HoldsFollowDoubt
<1>1. BudgetInv => HoldsFollowDoubt
  BY DEF BudgetInv
<1>2. QED
  BY <1>1, BudgetInvariance, PTL

-----------------------------------------------------------------------------
(* How an attempt's state may change in one step. *)
Advance ==
  {<<"none", "reserved">>, <<"none", "refused">>,
   <<"reserved", "dispatching">>, <<"reserved", "released">>, <<"reserved", "unknown">>,
   <<"dispatching", "settled">>, <<"dispatching", "released">>,
   <<"dispatching", "unknown">>, <<"unknown", "settled">>}

Advances(k) ==
  \/ usage'[k] = usage[k]
  \/ /\ <<usage[k].state, usage'[k].state>> \in Advance
     /\ usage[k].state # "none" =>
          /\ usage'[k].amount = usage[k].amount
          /\ usage'[k].month = usage[k].month
          /\ usage'[k].price = usage[k].price

(* A step that writes one attempt advances that one and leaves the others. *)
LEMMA OneAdvances ==
  ASSUME TypeOK, NEW k \in Keys, NEW u,
         usage' = [usage EXCEPT ![k] = u],
         <<usage[k].state, u.state>> \in Advance,
         usage[k].state # "none" =>
           u.amount = usage[k].amount /\ u.month = usage[k].month /\ u.price = usage[k].price
  PROVE  \A j \in Keys : Advances(j)
<1>1. usage'[k] = u /\ \A j \in Keys \ {k} : usage'[j] = usage[j]
  BY DEF TypeOK
<1>2. QED
  BY <1>1 DEF Advances

LEMMA NextAdvances ==
  ASSUME TypeOK, [Next]_vars
  PROVE  \A j \in Keys : Advances(j)
<1>1. \A k \in Keys : usage[k] \in Usages
  BY DEF TypeOK
<1>2. ASSUME NEW k \in Keys, NEW p \in Prices,
             AdmitReservation(k, p) \/ RefuseReservation(k, p)
      PROVE  \A j \in Keys : Advances(j)
  <2>1. PICK state, amount :
           state \in {"reserved", "refused"} /\ NewUsage(k, p, state, amount)
    BY <1>2 DEF AdmitReservation, RefuseReservation
  <2>2. usage[k].state = "none"
    BY <1>2 DEF AdmitReservation, RefuseReservation
  <2>3. QED
    BY <2>1, <2>2, OneAdvances DEF NewUsage, Advance
<1>3. ASSUME NEW k \in Keys, NEW from, NEW to, <<from, to>> \in Advance,
             usage[k].state = from, from # "none",
             usage' = [usage EXCEPT ![k] = [usage[k] EXCEPT !.state = to]]
      PROVE  \A j \in Keys : Advances(j)
  <2>1. /\ [usage[k] EXCEPT !.state = to].state = to
        /\ [usage[k] EXCEPT !.state = to].amount = usage[k].amount
        /\ [usage[k] EXCEPT !.state = to].month = usage[k].month
        /\ [usage[k] EXCEPT !.state = to].price = usage[k].price
    BY <1>1 DEF Usages
  <2>2. QED
    BY <1>3, <2>1, OneAdvances
<1>4. ASSUME NEW k \in Keys, NEW state, NEW billed,
             <<usage[k].state, state>> \in Advance, EndUsage(k, state, billed)
      PROVE  \A j \in Keys : Advances(j)
  <2> DEFINE u == [usage[k] EXCEPT !.state = state, !.billed = billed]
  <2>1. /\ u.state = state /\ u.amount = usage[k].amount
        /\ u.month = usage[k].month /\ u.price = usage[k].price
    BY <1>1 DEF Usages
  <2>2. usage' = [usage EXCEPT ![k] = u]
    BY <1>4 DEF EndUsage
  <2> HIDE DEF u
  <2>3. QED
    BY <1>4, <2>1, <2>2, OneAdvances
<1>5. ASSUME NEW k \in Keys, NEW p \in Prices, MarkDispatching(k, p)
      PROVE  \A j \in Keys : Advances(j)
  <2>1. /\ usage[k].state = "reserved"
        /\ usage' = [usage EXCEPT ![k] = [usage[k] EXCEPT !.state = "dispatching"]]
    BY <1>5 DEF MarkDispatching
  <2>2. <<"reserved", "dispatching">> \in Advance /\ "reserved" # "none"
    BY DEF Advance
  <2>3. QED
    BY <1>3, <2>1, <2>2
<1>6. ASSUME NEW k \in Keys, NEW p \in Prices, BlockDispatch(k, p)
      PROVE  \A j \in Keys : Advances(j)
  BY <1>4, <1>6 DEF BlockDispatch, Advance
<1>7. ASSUME NEW k \in Keys, NEW billed \in Bills, Settle(k, billed)
      PROVE  \A j \in Keys : Advances(j)
  BY <1>4, <1>7 DEF Settle, Uncertain, Advance
<1>8. ASSUME NEW k \in Keys, Release(k)
      PROVE  \A j \in Keys : Advances(j)
  BY <1>4, <1>8 DEF Release, Advance
<1>9. ASSUME NEW k \in Keys, MarkUnknown(k)
      PROVE  \A j \in Keys : Advances(j)
  <2>1. /\ usage[k].state = "dispatching"
        /\ usage' = [usage EXCEPT ![k] = [usage[k] EXCEPT !.state = "unknown"]]
    BY <1>9 DEF MarkUnknown
  <2>2. <<"dispatching", "unknown">> \in Advance /\ "dispatching" # "none"
    BY DEF Advance
  <2>3. QED
    BY <1>3, <2>1, <2>2
<1>10. CASE PrepareRestored
  BY <1>1, <1>10 DEF PrepareRestored, Usages, Advances, Advance
<1>11. CASE UNCHANGED usage
  BY <1>11 DEF Advances
<1>12. QED
  BY <1>2, <1>5, <1>6, <1>7, <1>8, <1>9, <1>10, <1>11
     DEF Next, Rollover, UpdateBudget, CloseMonth, StartMonth, vars

(* A settlement, release or restore never reopens an attempt that has its   *)
(* answer, and an unknown one can only be settled.                          *)
THEOREM AttemptsAdvance == BudgetSpec => AttemptsOnlyAdvance
<1>1. ASSUME TypeOK, [Next]_vars
      PROVE  [\A k \in Keys :
                /\ usage[k].state \in {"refused", "settled", "released"} =>
                     usage'[k] = usage[k]
                /\ usage[k].state = "unknown" =>
                     usage'[k].state \in {"unknown", "settled"}
                /\ usage[k].state # "none" =>
                     /\ usage'[k].amount = usage[k].amount
                     /\ usage'[k].month = usage[k].month]_vars
  <2>1. ASSUME NEW k \in Keys
        PROVE  /\ usage[k].state \in {"refused", "settled", "released"} =>
                    usage'[k] = usage[k]
               /\ usage[k].state = "unknown" =>
                    usage'[k].state \in {"unknown", "settled"}
               /\ usage[k].state # "none" =>
                    /\ usage'[k].amount = usage[k].amount
                    /\ usage'[k].month = usage[k].month
    BY <1>1, NextAdvances DEF Advances, Advance
  <2>2. QED
    BY <2>1
<1>2. QED
  BY <1>1, BudgetTypeCorrect, PTL DEF BudgetSpec, AttemptsOnlyAdvance

-----------------------------------------------------------------------------
(* Runs use the budget through its functions only. *)

(* A run's record stays a record of its kind when it moves. *)
LEMMA MovesType ==
  ASSUME GatewayTypeOK, NEW r \in Runs,
         NEW there \in {"idle"} \cup Awaits \cup Ended,
         NEW price \in Prices, NEW quote \in Prices, NEW bill \in Bills,
         Moves(r, there, price, quote, bill)
  PROVE  run' \in [Runs -> Runnings]
<1>1. [at |-> there, price |-> price, quote |-> quote, bill |-> bill] \in Runnings
  BY DEF Runnings
<1>2. run \in [Runs -> Runnings]
  BY DEF GatewayTypeOK
<1>3. QED
  BY <1>1, <1>2 DEF Moves

LEMMA GoesType ==
  ASSUME GatewayTypeOK, NEW r \in Runs,
         NEW there \in {"idle"} \cup Awaits \cup Ended, Goes(r, there)
  PROVE  run' \in [Runs -> Runnings]
<1>1. run[r].price \in Prices /\ run[r].quote \in Prices
  BY DEF GatewayTypeOK, Runnings
<1>2. 0 \in Bills
  BY RunsAssumption
<1>3. QED
  BY <1>1, <1>2, MovesType DEF Goes

LEMMA GatewayTypeInit == GatewayInit => GatewayTypeOK
<1>1. 0 \in Bills
  BY RunsAssumption
<1>2. QED
  BY <1>1 DEF GatewayInit, GatewayTypeOK, Runnings, Init, NoUsage

(* Reservations are made in amounts of the catalogue, and keep them. *)
LEMMA AmountsStay ==
  ASSUME TypeOK, GatewayTypeOK, [Next]_vars
  PROVE  \A k \in Keys : usage'[k].amount \in Bills
<1>1. /\ usage \in [Keys -> Usages]
      /\ \A k \in Keys : usage[k].amount \in Bills
  BY DEF TypeOK, GatewayTypeOK
<1>2. ASSUME NEW k \in Keys, NEW p \in Prices,
             AdmitReservation(k, p) \/ RefuseReservation(k, p)
      PROVE  \A j \in Keys : usage'[j].amount \in Bills
  <2>1. PICK state, amount :
           amount \in AdmittedAmounts(p) \cup {0} /\ NewUsage(k, p, state, amount)
    BY <1>2 DEF AdmitReservation, RefuseReservation
  <2>2. amount \in Bills
    BY <2>1, RunsAssumption DEF AdmittedAmounts
  <2>3. QED
    BY <1>1, <2>1, <2>2 DEF NewUsage
<1>3. ASSUME NEW k \in Keys, NEW state, NEW billed, EndUsage(k, state, billed)
      PROVE  \A j \in Keys : usage'[j].amount \in Bills
  BY <1>1, <1>3 DEF EndUsage, Usages
<1>4. ASSUME NEW k \in Keys, NEW p \in Prices, MarkDispatching(k, p)
      PROVE  \A j \in Keys : usage'[j].amount \in Bills
  BY <1>1, <1>4 DEF MarkDispatching, Usages
<1>5. ASSUME NEW k \in Keys, MarkUnknown(k)
      PROVE  \A j \in Keys : usage'[j].amount \in Bills
  BY <1>1, <1>5 DEF MarkUnknown, Usages
<1>6. CASE PrepareRestored
  BY <1>1, <1>6 DEF PrepareRestored, Usages
<1>7. CASE UNCHANGED usage
  BY <1>1, <1>7
<1>8. QED
  BY <1>2, <1>3, <1>4, <1>5, <1>6, <1>7
     DEF Next, BlockDispatch, Settle, Release, Rollover, UpdateBudget, CloseMonth,
         StartMonth, vars

(* Every step of the gateway is a call of a budget function, or none. *)
LEMMA GatewayStepIsBudgetStep ==
  ASSUME GatewayTypeOK, [GatewayNext]_allVars
  PROVE  [Next]_vars
<1>1. ASSUME NEW r \in Runs, Step(r)
      PROVE  [Next]_vars
  <2>1. /\ KeyOf[r] \in Keys /\ run[r].price \in Prices
        /\ run[r].quote \in Prices /\ run[r].bill \in Bills
    BY RunsAssumption DEF GatewayTypeOK, Runnings
  <2>2. CASE Reserve(r)
    BY <2>1, <2>2 DEF Reserve, Next
  <2>3. CASE MarkBeforeSending(r)
    BY <2>1, <2>3 DEF MarkBeforeSending, Next
  <2>4. CASE GiveUp(r) \/ AccountRejected(r)
    BY <2>1, <2>4 DEF GiveUp, AccountRejected, ReleaseAndEnd, Next
  <2>5. CASE AccountDoubt(r)
    BY <2>1, <2>5 DEF AccountDoubt, Next
  <2>6. CASE AccountBill(r)
    BY <2>1, <2>6 DEF AccountBill, Next
  <2>7. CASE \/ Start(r) \/ ReserveExisting(r) \/ CountTokens(r) \/ Send(r)
             \/ ProviderAnswers(r) \/ ProviderRejects(r) \/ ProviderFails(r) \/ Die(r)
    BY <2>7 DEF Start, ReserveExisting, CountTokens, Send, ProviderAnswers,
                AnsweredWith, ProviderRejects, ProviderFails, Die
  <2>8. QED
    BY <1>1, <2>2, <2>3, <2>4, <2>5, <2>6, <2>7 DEF Step
<1>2. CASE RestoreDatabase
  BY <1>2 DEF RestoreDatabase, Next
<1>3. CASE BudgetAlone
  BY <1>3 DEF BudgetAlone, Next
<1>4. CASE ChangeTariff \/ UNCHANGED allVars
  BY <1>4 DEF ChangeTariff, allVars
<1>5. QED
  BY <1>1, <1>2, <1>3, <1>4 DEF GatewayNext

LEMMA GatewayTypeStep ==
  ASSUME TypeOK, GatewayTypeOK, [GatewayNext]_allVars
  PROVE  GatewayTypeOK'
<1>0. \A k \in Keys : usage'[k].amount \in Bills
  BY AmountsStay, GatewayStepIsBudgetStep
<1>1. /\ tariff \in Prices /\ run \in [Runs -> Runnings]
      /\ sent \in [Keys -> Nat] /\ rejected \subseteq Keys
      /\ charge \in [Keys -> Bills]
      /\ \A k \in Keys : usage[k].amount \in Bills
  BY DEF GatewayTypeOK
<1>2. 0 \in Bills /\ \A r \in Runs : KeyOf[r] \in Keys
  BY RunsAssumption
<1>3. \A r \in Runs : run[r].price \in Prices /\ run[r].quote \in Prices
  BY <1>1 DEF Runnings
<1>4. ASSUME NEW r \in Runs, Step(r)
      PROVE  GatewayTypeOK'
  <2>1. CASE \E there \in {"idle"} \cup Awaits \cup Ended : Goes(r, there) /\ NoCall
    BY <2>1, <1>0, <1>1, GoesType DEF GatewayTypeOK, NoCall
  <2>2. CASE Start(r)
    <3>1. CASE Moves(r, "reserve", tariff, run[r].quote, 0)
      <4>1. run' \in [Runs -> Runnings]
        BY <3>1, <1>1, <1>2, <1>3, MovesType DEF Awaits
      <4>2. QED
        BY <2>2, <4>1, <1>0, <1>1 DEF Start, NoCall, GatewayTypeOK
    <3>2. CASE Goes(r, "done")
      BY <2>2, <3>2, <2>1 DEF Start, Ended
    <3>3. QED
      BY <2>2, <3>1, <3>2 DEF Start
  <2>3. CASE CountTokens(r)
    <3>1. CASE Goes(r, "give_up")
      BY <2>3, <3>1, <2>1 DEF CountTokens, Awaits
    <3>2. CASE Moves(r, "mark", run[r].price, tariff, 0)
      <4>1. run' \in [Runs -> Runnings]
        BY <3>2, <1>1, <1>2, <1>3, MovesType DEF Awaits
      <4>2. QED
        BY <2>3, <4>1, <1>0, <1>1 DEF CountTokens, NoCall, GatewayTypeOK
    <3>3. QED
      BY <2>3, <3>1, <3>2 DEF CountTokens
  <2>4. CASE ProviderAnswers(r)
    <3>1. PICK billed \in Bills : Moves(r, "settle", run[r].price, run[r].quote, billed)
      <4>1. charge[KeyOf[r]] \in Bills /\ UsageOf(r).amount \in Bills
        BY <1>1, <1>2 DEF UsageOf
      <4>2. QED
        BY <2>4, <4>1 DEF ProviderAnswers, AnsweredWith
    <3>2. run' \in [Runs -> Runnings]
      BY <3>1, <1>3, MovesType DEF Awaits
    <3>3. QED
      BY <2>4, <3>2, <1>0, <1>1 DEF ProviderAnswers, AnsweredWith, NoCall, GatewayTypeOK
  <2>5. CASE Send(r)
    <3>1. run' \in [Runs -> Runnings]
      BY <2>5, GoesType DEF Send, Awaits
    <3>2. sent' \in [Keys -> Nat] /\ charge' \in [Keys -> Bills]
      BY <2>5, <1>1, <1>2 DEF Send
    <3>3. QED
      BY <2>5, <3>1, <3>2, <1>0, <1>1 DEF Send, GatewayTypeOK
  <2>6. CASE ProviderRejects(r)
    <3>1. run' \in [Runs -> Runnings]
      BY <2>6, GoesType DEF ProviderRejects, Awaits
    <3>2. QED
      BY <2>6, <3>1, <1>0, <1>1, <1>2 DEF ProviderRejects, GatewayTypeOK
  <2>7. CASE Reserve(r) \/ ReserveExisting(r)
    BY <2>7, <2>1 DEF Reserve, ReserveExisting, Awaits, Ended
  <2>8. CASE GiveUp(r) \/ AccountRejected(r)
    BY <2>8, <2>1 DEF GiveUp, AccountRejected, ReleaseAndEnd, Ended
  <2>9. CASE MarkBeforeSending(r) \/ AccountDoubt(r) \/ AccountBill(r)
    BY <2>9, <2>1 DEF MarkBeforeSending, AccountDoubt, AccountBill, Awaits, Ended
  <2>10. CASE ProviderFails(r) \/ Die(r)
    BY <2>10, <2>1 DEF ProviderFails, Die, Awaits, Ended
  <2>11. QED
    BY <1>4, <2>2, <2>3, <2>4, <2>5, <2>6, <2>7, <2>8, <2>9, <2>10 DEF Step
<1>5. CASE RestoreDatabase
  <2>1. ASSUME NEW r \in Runs
        PROVE  run'[r] \in Runnings
    BY <1>1, <1>5 DEF RestoreDatabase, Runnings, Ended
  <2>2. run' = [r \in Runs |-> run'[r]]
    BY <1>5 DEF RestoreDatabase
  <2>3. run' \in [Runs -> Runnings]
    BY <2>1, <2>2
  <2>4. QED
    BY <2>3, <1>0, <1>1, <1>5 DEF RestoreDatabase, NoCall, GatewayTypeOK
<1>6. CASE ChangeTariff
  BY <1>0, <1>1, <1>6, RunsAssumption DEF ChangeTariff, GatewayTypeOK
<1>7. CASE BudgetAlone \/ UNCHANGED allVars
  BY <1>0, <1>1, <1>7 DEF BudgetAlone, allVars, gatewayVars, GatewayTypeOK
<1>8. QED
  BY <1>4, <1>5, <1>6, <1>7 DEF GatewayNext

-----------------------------------------------------------------------------
(* What one step of a run does to the run, its attempt's state and what the *)
(* provider has seen of it: the table every invariant below is read from.   *)
Becomes(r, from, to) == UsageOf(r).state = from /\ usage'[KeyOf[r]].state = to
SameState(r) == usage'[KeyOf[r]].state = UsageOf(r).state
Goto(r, from, to) == run[r].at = from /\ run'[r].at = to

Releases(r) ==
  \/ Becomes(r, "reserved", "released")
  \/ Becomes(r, "dispatching", "released")
  \/ UsageOf(r).state \notin {"reserved", "dispatching"} /\ SameState(r)

Accounts(r) ==
  \/ Goto(r, "give_up", "unavailable") /\ Releases(r)
  \/ Goto(r, "reject", "done") /\ Releases(r)
  \/ Goto(r, "doubt", "done") /\ Becomes(r, "dispatching", "unknown")
  \/ Goto(r, "doubt", "done") /\ UsageOf(r).state # "dispatching" /\ SameState(r)
  \/ Goto(r, "settle", "done") /\ Becomes(r, "dispatching", "settled")
  \/ Goto(r, "settle", "done") /\ Becomes(r, "unknown", "settled")
  \/ /\ Goto(r, "settle", "done") \/ Goto(r, "settle", "threw")
     /\ UsageOf(r).state \notin Uncertain
     /\ SameState(r)

Prepares(r) ==
  \/ Goto(r, "idle", "reserve") /\ SameState(r)
  \/ Goto(r, "idle", "done") /\ SameState(r)
  \/ Goto(r, "reserve", "count") /\ Becomes(r, "none", "reserved")
  \/ Goto(r, "reserve", "count") /\ Becomes(r, "reserved", "reserved")
  \/ Goto(r, "reserve", "done") /\ Becomes(r, "none", "refused")
  \/ Goto(r, "reserve", "done") /\ UsageOf(r).state # "reserved" /\ SameState(r)
  \/ Goto(r, "count", "give_up") /\ SameState(r)
  \/ Goto(r, "count", "mark") /\ SameState(r)
  \/ Goto(r, "mark", "send") /\ Becomes(r, "reserved", "dispatching")
  \/ Goto(r, "mark", "done") /\ Becomes(r, "reserved", "released")
  \/ Goto(r, "mark", "done") /\ UsageOf(r).state # "reserved" /\ SameState(r)

Turn(r) ==
  \/ Prepares(r) /\ UNCHANGED <<sent, rejected>>
  \/ /\ Goto(r, "send", "answer") /\ SameState(r)
     /\ sent' = [sent EXCEPT ![KeyOf[r]] = @ + 1] /\ UNCHANGED rejected
  \/ /\ Goto(r, "answer", "settle") \/ Goto(r, "answer", "doubt")
     /\ SameState(r) /\ UNCHANGED <<sent, rejected>>
  \/ /\ Goto(r, "answer", "reject") /\ SameState(r)
     /\ UNCHANGED sent /\ rejected' = rejected \cup {KeyOf[r]}
  \/ Accounts(r) /\ UNCHANGED <<sent, rejected>>
  \/ /\ run[r].at \in Awaits /\ run'[r].at = "threw"
     /\ SameState(r) /\ UNCHANGED <<sent, rejected>>

(* The others stay where they are. *)
Alone(r) ==
  /\ \A q \in Runs \ {r} : run'[q] = run[q]
  /\ \A k \in Keys \ {KeyOf[r]} : usage'[k] = usage[k]

LEMMA RunMoves ==
  ASSUME GatewayTypeOK, NEW r \in Runs, NEW there, NEW price, NEW quote, NEW bill,
         Moves(r, there, price, quote, bill)
  PROVE  run'[r].at = there /\ \A q \in Runs \ {r} : run'[q] = run[q]
<1>1. run \in [Runs -> Runnings]
  BY DEF GatewayTypeOK
<1>2. QED
  BY <1>1 DEF Moves

LEMMA RunGoes ==
  ASSUME GatewayTypeOK, NEW r \in Runs, NEW there, Goes(r, there)
  PROVE  run'[r].at = there /\ \A q \in Runs \ {r} : run'[q] = run[q]
BY RunMoves DEF Goes

(* A budget function writes the attempt it was called for. *)
LEMMA EndsOne ==
  ASSUME TypeOK, NEW k \in Keys, NEW state, NEW billed, EndUsage(k, state, billed)
  PROVE  usage'[k].state = state /\ \A j \in Keys \ {k} : usage'[j] = usage[j]
<1>1. usage \in [Keys -> Usages]
  BY DEF TypeOK
<1>2. [usage[k] EXCEPT !.state = state, !.billed = billed].state = state
  BY <1>1 DEF Usages
<1>3. QED
  BY <1>1, <1>2 DEF EndUsage

LEMMA MarksOne ==
  ASSUME TypeOK, NEW k \in Keys, NEW state,
         usage' = [usage EXCEPT ![k].state = state]
  PROVE  usage'[k].state = state /\ \A j \in Keys \ {k} : usage'[j] = usage[j]
<1>1. usage \in [Keys -> Usages]
  BY DEF TypeOK
<1>2. QED
  BY <1>1 DEF Usages

LEMMA CreatesOne ==
  ASSUME TypeOK, NEW k \in Keys, NEW p, NEW state, NEW amount,
         NewUsage(k, p, state, amount)
  PROVE  usage'[k].state = state /\ \A j \in Keys \ {k} : usage'[j] = usage[j]
<1>1. usage \in [Keys -> Usages]
  BY DEF TypeOK
<1>2. QED
  BY <1>1 DEF NewUsage

LEMMA StepIsTurn ==
  ASSUME TypeOK, GatewayTypeOK, NEW r \in Runs, Step(r)
  PROVE  Turn(r) /\ Alone(r)
<1>1. KeyOf[r] \in Keys
  BY RunsAssumption
<1> DEFINE k == KeyOf[r]
<1>2. ASSUME UNCHANGED vars
      PROVE  SameState(r) /\ \A j \in Keys : usage'[j] = usage[j]
  BY <1>1, <1>2 DEF SameState, UsageOf, vars
<1>3. ASSUME NEW here, NEW there, At(r, here), Goes(r, there)
      PROVE  Goto(r, here, there) /\ \A q \in Runs \ {r} : run'[q] = run[q]
  BY <1>3, RunGoes DEF At, Goto
<1>4. ASSUME NEW here, NEW there, NEW price, NEW quote, NEW bill,
             At(r, here), Moves(r, there, price, quote, bill)
      PROVE  Goto(r, here, there) /\ \A q \in Runs \ {r} : run'[q] = run[q]
  BY <1>4, RunMoves DEF At, Goto
<1>5. CASE Start(r)
  <2>1. /\ Goto(r, "idle", "reserve") \/ Goto(r, "idle", "done")
        /\ \A q \in Runs \ {r} : run'[q] = run[q]
    BY <1>3, <1>4, <1>5 DEF Start
  <2>2. QED
    BY <1>2, <1>5, <2>1 DEF Start, NoCall, Turn, Prepares, Alone
<1>6. CASE Reserve(r)
  <2>1. CASE AdmitReservation(KeyOf[r], run[r].price) /\ Goes(r, "count")
    <3>1. Goto(r, "reserve", "count") /\ \A q \in Runs \ {r} : run'[q] = run[q]
      BY <1>3, <1>6, <2>1 DEF Reserve
    <3>2. UsageOf(r).state = "none"
      BY <2>1 DEF AdmitReservation, UsageOf
    <3>3. PICK amount : NewUsage(KeyOf[r], run[r].price, "reserved", amount)
      BY <2>1 DEF AdmitReservation
    <3>4. usage'[k].state = "reserved" /\ \A j \in Keys \ {k} : usage'[j] = usage[j]
      BY <1>1, <3>3, CreatesOne
    <3>5. QED
      BY <1>6, <3>1, <3>2, <3>4 DEF Reserve, NoCall, Turn, Prepares, Becomes, Alone
  <2>2. CASE RefuseReservation(KeyOf[r], run[r].price) /\ Goes(r, "done")
    <3>1. Goto(r, "reserve", "done") /\ \A q \in Runs \ {r} : run'[q] = run[q]
      BY <1>3, <1>6, <2>2 DEF Reserve
    <3>2. UsageOf(r).state = "none"
      BY <2>2 DEF RefuseReservation, UsageOf
    <3>3. NewUsage(KeyOf[r], run[r].price, "refused", 0)
      BY <2>2 DEF RefuseReservation
    <3>4. usage'[k].state = "refused" /\ \A j \in Keys \ {k} : usage'[j] = usage[j]
      BY <1>1, <3>3, CreatesOne
    <3>5. QED
      BY <1>6, <3>1, <3>2, <3>4 DEF Reserve, NoCall, Turn, Prepares, Becomes, Alone
  <2>3. QED
    BY <1>6, <2>1, <2>2 DEF Reserve
<1>7. CASE ReserveExisting(r)
  <2>1. CASE UsageOf(r).state = "reserved"
    <3>1. Goto(r, "reserve", "count") /\ \A q \in Runs \ {r} : run'[q] = run[q]
      BY <1>3, <1>7, <2>1 DEF ReserveExisting
    <3>2. QED
      BY <1>2, <1>7, <2>1, <3>1
         DEF ReserveExisting, NoCall, Turn, Prepares, Becomes, SameState, Alone
  <2>2. CASE UsageOf(r).state # "reserved"
    <3>1. Goto(r, "reserve", "done") /\ \A q \in Runs \ {r} : run'[q] = run[q]
      BY <1>3, <1>7, <2>2 DEF ReserveExisting
    <3>2. QED
      BY <1>2, <1>7, <2>2, <3>1 DEF ReserveExisting, NoCall, Turn, Prepares, Alone
  <2>3. QED
    BY <2>1, <2>2
<1>8. CASE CountTokens(r)
  <2>1. /\ Goto(r, "count", "give_up") \/ Goto(r, "count", "mark")
        /\ \A q \in Runs \ {r} : run'[q] = run[q]
    BY <1>3, <1>4, <1>8 DEF CountTokens
  <2>2. QED
    BY <1>2, <1>8, <2>1 DEF CountTokens, NoCall, Turn, Prepares, Alone
<1>9. ASSUME NEW outcome, ReleaseAndEnd(r, outcome)
      PROVE  Releases(r) /\ \A j \in Keys \ {k} : usage'[j] = usage[j]
  <2>1. CASE Release(KeyOf[r])
    <3>1. EndUsage(k, "released", 0)
      BY <2>1 DEF Release
    <3>2. usage'[k].state = "released" /\ \A j \in Keys \ {k} : usage'[j] = usage[j]
      BY <1>1, <3>1, EndsOne
    <3>3. QED
      BY <2>1, <3>2 DEF Release, Releases, Becomes, UsageOf
  <2>2. CASE UsageOf(r).state \notin {"reserved", "dispatching"} /\ UNCHANGED vars
    BY <1>2, <2>2 DEF Releases
  <2>3. QED
    BY <1>9, <2>1, <2>2 DEF ReleaseAndEnd
<1>10. CASE GiveUp(r)
  <2>1. Goto(r, "give_up", "unavailable") /\ \A q \in Runs \ {r} : run'[q] = run[q]
    BY <1>3, <1>10 DEF GiveUp, ReleaseAndEnd
  <2>2. Releases(r) /\ (\A j \in Keys \ {k} : usage'[j] = usage[j]) /\ NoCall
    BY <1>9, <1>10 DEF GiveUp, ReleaseAndEnd
  <2>3. QED
    BY <2>1, <2>2 DEF NoCall, Turn, Accounts, Alone
<1>11. CASE AccountRejected(r)
  <2>1. Goto(r, "reject", "done") /\ \A q \in Runs \ {r} : run'[q] = run[q]
    BY <1>3, <1>11 DEF AccountRejected, ReleaseAndEnd
  <2>2. Releases(r) /\ (\A j \in Keys \ {k} : usage'[j] = usage[j]) /\ NoCall
    BY <1>9, <1>11 DEF AccountRejected, ReleaseAndEnd
  <2>3. QED
    BY <2>1, <2>2 DEF NoCall, Turn, Accounts, Alone
<1>12. CASE MarkBeforeSending(r)
  <2>1. CASE MarkDispatching(KeyOf[r], run[r].quote) /\ Goes(r, "send")
    <3>1. Goto(r, "mark", "send") /\ \A q \in Runs \ {r} : run'[q] = run[q]
      BY <1>3, <1>12, <2>1 DEF MarkBeforeSending
    <3>2. /\ UsageOf(r).state = "reserved"
          /\ usage' = [usage EXCEPT ![k].state = "dispatching"]
      BY <2>1 DEF MarkDispatching, UsageOf
    <3>3. usage'[k].state = "dispatching" /\ \A j \in Keys \ {k} : usage'[j] = usage[j]
      BY <1>1, <3>2, MarksOne
    <3>4. QED
      BY <1>12, <3>1, <3>2, <3>3
         DEF MarkBeforeSending, NoCall, Turn, Prepares, Becomes, Alone
  <2>2. CASE BlockDispatch(KeyOf[r], run[r].quote) /\ Goes(r, "done")
    <3>1. Goto(r, "mark", "done") /\ \A q \in Runs \ {r} : run'[q] = run[q]
      BY <1>3, <1>12, <2>2 DEF MarkBeforeSending
    <3>2. UsageOf(r).state = "reserved" /\ EndUsage(k, "released", 0)
      BY <2>2 DEF BlockDispatch, UsageOf
    <3>3. usage'[k].state = "released" /\ \A j \in Keys \ {k} : usage'[j] = usage[j]
      BY <1>1, <3>2, EndsOne
    <3>4. QED
      BY <1>12, <3>1, <3>2, <3>3
         DEF MarkBeforeSending, NoCall, Turn, Prepares, Becomes, Alone
  <2>3. CASE UsageOf(r).state # "reserved" /\ Goes(r, "done") /\ UNCHANGED vars
    <3>1. Goto(r, "mark", "done") /\ \A q \in Runs \ {r} : run'[q] = run[q]
      BY <1>3, <1>12, <2>3 DEF MarkBeforeSending
    <3>2. QED
      BY <1>2, <1>12, <2>3, <3>1 DEF MarkBeforeSending, NoCall, Turn, Prepares, Alone
  <2>4. QED
    BY <1>12, <2>1, <2>2, <2>3 DEF MarkBeforeSending
<1>13. CASE Send(r)
  <2>1. Goto(r, "send", "answer") /\ \A q \in Runs \ {r} : run'[q] = run[q]
    BY <1>3, <1>13 DEF Send
  <2>2. QED
    BY <1>2, <1>13, <2>1 DEF Send, Turn, Alone
<1>14. CASE ProviderAnswers(r) \/ ProviderFails(r)
  <2>1. /\ Goto(r, "answer", "settle") \/ Goto(r, "answer", "doubt")
        /\ \A q \in Runs \ {r} : run'[q] = run[q]
    BY <1>3, <1>4, <1>14 DEF ProviderAnswers, AnsweredWith, ProviderFails
  <2>2. QED
    BY <1>2, <1>14, <2>1
       DEF ProviderAnswers, AnsweredWith, ProviderFails, NoCall, Turn, Alone
<1>15. CASE ProviderRejects(r)
  <2>1. Goto(r, "answer", "reject") /\ \A q \in Runs \ {r} : run'[q] = run[q]
    BY <1>3, <1>15 DEF ProviderRejects
  <2>2. QED
    BY <1>2, <1>15, <2>1 DEF ProviderRejects, Turn, Alone
<1>16. CASE AccountDoubt(r)
  <2>1. Goto(r, "doubt", "done") /\ \A q \in Runs \ {r} : run'[q] = run[q]
    BY <1>3, <1>16 DEF AccountDoubt
  <2>2. CASE MarkUnknown(KeyOf[r])
    <3>1. /\ UsageOf(r).state = "dispatching"
          /\ usage' = [usage EXCEPT ![k].state = "unknown"]
      BY <2>2 DEF MarkUnknown, UsageOf
    <3>2. usage'[k].state = "unknown" /\ \A j \in Keys \ {k} : usage'[j] = usage[j]
      BY <1>1, <3>1, MarksOne
    <3>3. QED
      BY <1>16, <2>1, <3>1, <3>2
         DEF AccountDoubt, NoCall, Turn, Accounts, Becomes, Alone
  <2>3. CASE UsageOf(r).state # "dispatching" /\ UNCHANGED vars
    BY <1>2, <1>16, <2>1, <2>3 DEF AccountDoubt, NoCall, Turn, Accounts, Alone
  <2>4. QED
    BY <1>16, <2>2, <2>3 DEF AccountDoubt
<1>17. CASE AccountBill(r)
  <2>1. /\ Goto(r, "settle", "done") \/ Goto(r, "settle", "threw")
        /\ \A q \in Runs \ {r} : run'[q] = run[q]
    BY <1>3, <1>17 DEF AccountBill
  <2>2. CASE Settle(KeyOf[r], run[r].bill) /\ Goes(r, "done")
    <3>1. UsageOf(r).state \in Uncertain /\ EndUsage(k, "settled", run[r].bill)
      BY <2>2 DEF Settle, UsageOf
    <3>2. usage'[k].state = "settled" /\ \A j \in Keys \ {k} : usage'[j] = usage[j]
      BY <1>1, <3>1, EndsOne
    <3>3. Goto(r, "settle", "done")
      BY <1>3, <1>17, <2>2 DEF AccountBill
    <3>4. QED
      BY <1>17, <2>1, <3>1, <3>2, <3>3
         DEF AccountBill, NoCall, Turn, Accounts, Becomes, Uncertain, Alone
  <2>3. CASE UsageOf(r).state \notin Uncertain /\ UNCHANGED vars
    BY <1>2, <1>17, <2>1, <2>3 DEF AccountBill, NoCall, Turn, Accounts, Alone
  <2>4. QED
    BY <1>17, <2>2, <2>3 DEF AccountBill, Uncertain
<1>18. CASE Die(r)
  <2>1. run'[r].at = "threw" /\ \A q \in Runs \ {r} : run'[q] = run[q]
    BY <1>18, RunGoes DEF Die
  <2>2. QED
    BY <1>2, <1>18, <2>1 DEF Die, NoCall, Turn, Alone
<1>19. QED
  BY <1>5, <1>6, <1>7, <1>8, <1>10, <1>11, <1>12, <1>13, <1>14, <1>15,
     <1>16, <1>17, <1>18 DEF Step

-----------------------------------------------------------------------------
(* The inductive invariant: it is stronger than the promises because a       *)
(* dispatch is safe only while nobody else of the key is past it.            *)
Owned == SentOnce /\ OneOwner /\ OwnersDecided /\ SentDecided
Kept == NothingLeaks /\ SendersCounted /\ PaidCallsCountedUnlessGivenUp

LEMMA DecidedStays ==
  ASSUME NEW r \in Runs, Turn(r), UsageOf(r).state \in Decided
  PROVE  usage'[KeyOf[r]].state \in Decided
BY DEF Turn, Prepares, Accounts, Releases, Becomes, SameState, Decided

(* Only a dispatch of a reserved attempt makes a new owner. *)
LEMMA OwnersStay ==
  ASSUME NEW r \in Runs, Turn(r), run'[r].at \in Owning
  PROVE  \/ run[r].at \in Owning
         \/ Goto(r, "mark", "send") /\ Becomes(r, "reserved", "dispatching")
BY DEF Turn, Prepares, Accounts, Goto, Owning

LEMMA TurnKeepsOwned ==
  ASSUME TypeOK, GatewayTypeOK, Owned, NEW r \in Runs, Turn(r), Alone(r)
  PROVE  Owned'
<1> DEFINE k == KeyOf[r]
<1>1. k \in Keys
  BY RunsAssumption
<1>2. /\ SentOnce /\ OneOwner /\ OwnersDecided /\ SentDecided
      /\ sent \in [Keys -> Nat]
  BY DEF Owned, GatewayTypeOK
<1>3. /\ \A q \in Runs \ {r} : run'[q] = run[q]
      /\ \A j \in Keys \ {k} : usage'[j] = usage[j]
  BY DEF Alone
<1>4. /\ \A j \in Keys \ {k} : sent'[j] = sent[j] /\ (j \in rejected' <=> j \in rejected)
      /\ rejected \subseteq rejected'
  BY <1>1, <1>2 DEF Turn
<1>5. \/ sent' = sent
      \/ Goto(r, "send", "answer") /\ SameState(r) /\ sent'[k] = sent[k] + 1
  BY <1>1, <1>2 DEF Turn
<1>6. run[r].at \in Owning =>
        /\ usage[k].state \in Decided
        /\ sent[k] = IF run[r].at = "send" THEN 0 ELSE 1
        /\ run[r].at = "reject" => k \in rejected
  BY <1>2 DEF OwnersDecided, UsageOf, At
<1>7. usage[k].state \in Decided => usage'[k].state \in Decided
  BY DecidedStays DEF UsageOf
<1>8. SentOnce'
  <2>1. sent'[k] <= 1
    BY <1>1, <1>2, <1>5, <1>6 DEF SentOnce, Goto, Owning
  <2>2. QED
    BY <1>2, <1>4, <2>1 DEF SentOnce
<1>9. SentDecided'
  <2>1. sent'[k] > 0 => usage'[k].state \in Decided
    <3>1. CASE sent' = sent
      BY <1>1, <1>2, <1>7, <3>1 DEF SentDecided
    <3>2. CASE Goto(r, "send", "answer")
      BY <1>6, <1>7, <3>2 DEF Goto, Owning
    <3>3. QED
      BY <1>5, <3>1, <3>2
  <2>2. QED
    BY <1>2, <1>3, <1>4, <2>1 DEF SentDecided
<1>10. \/ run'[r].at \notin Owning
       \/ run[r].at \in Owning
       \/ /\ run'[r].at = "send" /\ usage[k].state = "reserved"
          /\ usage'[k].state = "dispatching"
  BY OwnersStay DEF Goto, Becomes, UsageOf
<1>11. ASSUME NEW q \in Runs \ {r}, KeyOf[q] = k, run[q].at \in Owning
       PROVE  run'[r].at \notin Owning /\ run[r].at \notin Owning
  <2>1. run[r].at \notin Owning
    BY <1>2, <1>11 DEF OneOwner
  <2>2. usage[k].state \in Decided
    BY <1>2, <1>11 DEF OwnersDecided, UsageOf
  <2>3. QED
    BY <1>10, <2>1, <2>2 DEF Decided
<1>12. OneOwner'
  <2>1. ASSUME NEW q1 \in Runs, NEW q2 \in Runs, KeyOf[q1] = KeyOf[q2],
               run'[q1].at \in Owning, run'[q2].at \in Owning, q1 # q2
        PROVE  FALSE
    <3>1. CASE q1 # r /\ q2 # r
      BY <1>2, <1>3, <2>1, <3>1 DEF OneOwner
    <3>2. CASE q1 = r
      BY <1>3, <1>11, <2>1, <3>2
    <3>3. CASE q2 = r
      BY <1>3, <1>11, <2>1, <3>3
    <3>4. QED
      BY <3>1, <3>2, <3>3
  <2>2. QED
    BY <2>1 DEF OneOwner
<1>13. OwnersDecided'
  <2>1. ASSUME NEW q \in Runs \ {r}, run'[q].at \in Owning
        PROVE  /\ usage'[KeyOf[q]].state \in Decided
               /\ sent'[KeyOf[q]] = IF run'[q].at = "send" THEN 0 ELSE 1
               /\ run'[q].at = "reject" => KeyOf[q] \in rejected'
    <3>1. /\ run'[q] = run[q] /\ KeyOf[q] \in Keys
          /\ usage[KeyOf[q]].state \in Decided
          /\ sent[KeyOf[q]] = IF run[q].at = "send" THEN 0 ELSE 1
          /\ run[q].at = "reject" => KeyOf[q] \in rejected
      BY <1>2, <1>3, <2>1, RunsAssumption DEF OwnersDecided, UsageOf, At
    <3>2. CASE KeyOf[q] = k
      <4>1. run[r].at \notin Owning
        BY <1>11, <2>1, <3>1, <3>2
      <4>2. sent' = sent
        BY <1>5, <4>1 DEF Goto, Owning
      <4>3. QED
        BY <1>4, <1>7, <3>1, <3>2, <4>2
    <3>3. CASE KeyOf[q] # k
      BY <1>3, <1>4, <3>1, <3>3
    <3>4. QED
      BY <3>2, <3>3
  <2>2. ASSUME run'[r].at \in Owning
        PROVE  /\ usage'[k].state \in Decided
               /\ sent'[k] = IF run'[r].at = "send" THEN 0 ELSE 1
               /\ run'[r].at = "reject" => k \in rejected'
    <3>1. CASE run[r].at \in Owning
      <4>1. usage'[k].state \in Decided
        BY <1>6, <1>7, <3>1
      <4>2. \/ Goto(r, "send", "answer") /\ sent'[k] = sent[k] + 1
            \/ /\ run[r].at = "answer" /\ run'[r].at \in {"settle", "doubt"}
               /\ sent' = sent
            \/ Goto(r, "answer", "reject") /\ sent' = sent /\ k \in rejected'
        BY <1>1, <1>2, <2>2, <3>1
           DEF Turn, Prepares, Accounts, Goto, Owning
      <4>3. QED
        BY <1>6, <3>1, <4>1, <4>2 DEF Goto
    <3>2. CASE run[r].at \notin Owning
      <4>1. /\ run'[r].at = "send" /\ usage[k].state = "reserved"
            /\ usage'[k].state = "dispatching"
        BY <1>10, <2>2, <3>2
      <4>2. sent' = sent
        BY <1>5, <3>2 DEF Goto, Owning
      <4>3. ~(sent[k] > 0)
        BY <1>1, <1>2, <4>1 DEF SentDecided, Decided
      <4>4. sent[k] = 0
        BY <1>1, <1>2, <4>3
      <4>5. QED
        BY <4>1, <4>2, <4>4 DEF Decided
    <3>3. QED
      BY <3>1, <3>2
  <2>3. QED
    BY <2>1, <2>2 DEF OwnersDecided, UsageOf, At
<1>14. QED
  BY <1>8, <1>9, <1>12, <1>13 DEF Owned

LEMMA TurnKeepsKept ==
  ASSUME TypeOK, GatewayTypeOK, Owned, Kept, NEW r \in Runs, Turn(r), Alone(r)
  PROVE  Kept'
<1> DEFINE k == KeyOf[r]
<1>1. k \in Keys
  BY RunsAssumption
<1>2. /\ OneOwner /\ OwnersDecided /\ SentDecided
      /\ NothingLeaks /\ SendersCounted /\ PaidCallsCountedUnlessGivenUp
      /\ sent \in [Keys -> Nat]
  BY DEF Owned, Kept, GatewayTypeOK
<1>3. /\ \A q \in Runs \ {r} : run'[q] = run[q]
      /\ \A j \in Keys \ {k} : usage'[j] = usage[j]
  BY DEF Alone
<1>4. /\ run[r].at # "unavailable"
      /\ \A q \in Runs : run[q].at = "unavailable" => run'[q].at = "unavailable"
  <2>1. run[r].at # "unavailable"
    BY DEF Turn, Prepares, Accounts, Goto, Awaits
  <2>2. QED
    BY <1>3, <2>1
<1>5. NothingLeaks'
  <2>1. ASSUME NEW j \in Keys \ {k}
        PROVE  /\ usage'[j].state = "reserved" =>
                    \E q \in Runs : KeyOf[q] = j /\ run'[q].at \in BeforeDispatch \cup {"threw"}
               /\ usage'[j].state = "dispatching" =>
                    \E q \in Runs : KeyOf[q] = j /\ run'[q].at \in Owning \cup {"threw"}
    BY <1>2, <1>3 DEF NothingLeaks, RunsOf
  <2>2. ASSUME usage'[k].state = "reserved"
        PROVE  \E q \in Runs : KeyOf[q] = k /\ run'[q].at \in BeforeDispatch \cup {"threw"}
    <3>1. CASE run'[r].at \in BeforeDispatch \cup {"threw"}
      BY <3>1
    <3>2. CASE run'[r].at \notin BeforeDispatch \cup {"threw"}
      <4>1. usage[k].state = "reserved" /\ run[r].at \notin BeforeDispatch \cup {"threw"}
        BY <2>2, <3>2
           DEF Turn, Prepares, Accounts, Releases, Becomes, SameState, UsageOf,
               Goto, BeforeDispatch, Awaits
      <4>2. PICK q \in Runs : KeyOf[q] = k /\ run[q].at \in BeforeDispatch \cup {"threw"}
        BY <1>1, <1>2, <4>1 DEF NothingLeaks, RunsOf
      <4>3. QED
        BY <1>3, <4>1, <4>2
    <3>3. QED
      BY <3>1, <3>2
  <2>3. ASSUME usage'[k].state = "dispatching"
        PROVE  \E q \in Runs : KeyOf[q] = k /\ run'[q].at \in Owning \cup {"threw"}
    <3>1. CASE run'[r].at \in Owning \cup {"threw"}
      BY <3>1
    <3>2. CASE run'[r].at \notin Owning \cup {"threw"}
      <4>1. usage[k].state = "dispatching" /\ run[r].at \notin Owning \cup {"threw"}
        BY <2>3, <3>2
           DEF Turn, Prepares, Accounts, Releases, Becomes, SameState, UsageOf,
               Goto, Owning, Awaits, Uncertain
      <4>2. PICK q \in Runs : KeyOf[q] = k /\ run[q].at \in Owning \cup {"threw"}
        BY <1>1, <1>2, <4>1 DEF NothingLeaks, RunsOf
      <4>3. QED
        BY <1>3, <4>1, <4>2
    <3>3. QED
      BY <3>1, <3>2
  <2>4. QED
    BY <2>1, <2>2, <2>3 DEF NothingLeaks, RunsOf
<1>6. PaidCallsCountedUnlessGivenUp'
  <2>1. ASSUME NEW j \in Keys \ {k}, sent'[j] > 0, j \notin rejected'
        PROVE  \/ usage'[j].state \in Uncertain \cup {"settled"}
               \/ \E q \in Runs : KeyOf[q] = j /\ run'[q].at = "unavailable"
    <3>1. sent'[j] = sent[j] /\ j \notin rejected
      BY <1>1, <1>2, <2>1 DEF Turn
    <3>2. \/ usage[j].state \in Uncertain \cup {"settled"}
          \/ \E q \in Runs : KeyOf[q] = j /\ run[q].at = "unavailable"
      BY <1>2, <2>1, <3>1
         DEF PaidCallsCountedUnlessGivenUp, MayBeBilled, Counted, GivenUp, RunsOf, At
    <3>3. QED
      BY <1>3, <3>2
  <2>2. ASSUME sent'[k] > 0, k \notin rejected'
        PROVE  \/ usage'[k].state \in Uncertain \cup {"settled"}
               \/ \E q \in Runs : KeyOf[q] = k /\ run'[q].at = "unavailable"
    <3>1. k \notin rejected
      BY <1>1, <2>2 DEF Turn
    <3>2. ~Goto(r, "reject", "done")
      BY <1>2, <3>1 DEF Goto, OwnersDecided, Owning, At
    <3>3. CASE \E q \in Runs : KeyOf[q] = k /\ run[q].at = "unavailable"
      BY <1>4, <3>3
    <3>4. CASE /\ ~\E q \in Runs : KeyOf[q] = k /\ run[q].at = "unavailable"
               /\ sent[k] > 0
      <4>1. usage[k].state \in Uncertain \cup {"settled"}
        BY <1>1, <1>2, <3>1, <3>4
           DEF PaidCallsCountedUnlessGivenUp, MayBeBilled, Counted, GivenUp, RunsOf, At
      <4>2. \/ Goto(r, "give_up", "unavailable")
            \/ usage'[k].state \in Uncertain \cup {"settled"}
        BY <3>1, <3>2, <4>1
           DEF Turn, Prepares, Accounts, Releases, Becomes, SameState, UsageOf,
               Goto, Uncertain
      <4>3. QED
        BY <4>2 DEF Goto
    <3>5. CASE ~(sent[k] > 0)
      <4>1. Goto(r, "send", "answer") /\ SameState(r)
        BY <2>2, <3>5 DEF Turn
      <4>2. \/ usage[k].state \in Uncertain \cup {"settled"}
            \/ \E q \in Runs : KeyOf[q] = k /\ run[q].at = "unavailable"
        BY <1>2, <4>1 DEF SendersCounted, Counted, GivenUp, RunsOf, At, Goto
      <4>3. QED
        BY <1>4, <4>1, <4>2 DEF SameState, UsageOf
    <3>6. QED
      BY <3>3, <3>4, <3>5
  <2>3. QED
    BY <2>1, <2>2
       DEF PaidCallsCountedUnlessGivenUp, MayBeBilled, Counted, GivenUp, RunsOf, At
<1>7. SendersCounted'
  <2>1. ASSUME NEW q \in Runs \ {r}, run'[q].at = "send"
        PROVE  \/ usage'[KeyOf[q]].state \in Uncertain \cup {"settled"}
               \/ \E p \in Runs : KeyOf[p] = KeyOf[q] /\ run'[p].at = "unavailable"
    <3>1. run[q].at = "send" /\ KeyOf[q] \in Keys
      BY <1>3, <2>1, RunsAssumption
    <3>2. CASE \E p \in Runs : KeyOf[p] = KeyOf[q] /\ run[p].at = "unavailable"
      BY <1>4, <3>2
    <3>3. CASE usage[KeyOf[q]].state \in Uncertain \cup {"settled"} /\ KeyOf[q] # k
      BY <1>3, <3>1, <3>3
    <3>4. CASE usage[KeyOf[q]].state \in Uncertain \cup {"settled"} /\ KeyOf[q] = k
      <4>1. run[r].at # "reject"
        BY <1>2, <3>1, <3>4 DEF OneOwner, Owning
      <4>2. \/ Goto(r, "give_up", "unavailable")
            \/ usage'[k].state \in Uncertain \cup {"settled"}
        BY <3>4, <4>1
           DEF Turn, Prepares, Accounts, Releases, Becomes, SameState, UsageOf,
               Goto, Uncertain
      <4>3. QED
        BY <3>4, <4>2 DEF Goto
    <3>5. QED
      BY <1>2, <3>1, <3>2, <3>3, <3>4 DEF SendersCounted, Counted, GivenUp, RunsOf, At
  <2>2. ASSUME run'[r].at = "send"
        PROVE  usage'[k].state \in Uncertain
    BY <2>2 DEF Turn, Prepares, Accounts, Goto, Becomes, Uncertain
  <2>3. QED
    BY <2>1, <2>2 DEF SendersCounted, Counted, GivenUp, RunsOf, At
<1>8. QED
  BY <1>5, <1>6, <1>7 DEF Kept

(* Steps that are no run's: they leave the runs alone or kill them all. *)
LEMMA OthersKeep ==
  ASSUME GatewayTypeOK, Owned, Kept,
         UNCHANGED <<usage, run, sent, rejected>>
  PROVE  Owned' /\ Kept'
BY DEF Owned, Kept, SentOnce, OneOwner, OwnersDecided, SentDecided, NothingLeaks,
       SendersCounted, PaidCallsCountedUnlessGivenUp, UsageOf, At, RunsOf, GivenUp,
       MayBeBilled, Counted

LEMMA RestoreKeeps ==
  ASSUME TypeOK, GatewayTypeOK, Owned, Kept, RestoreDatabase
  PROVE  Owned' /\ Kept'
<1>1. /\ sent' = sent /\ rejected' = rejected
      /\ \A r \in Runs : run'[r].at \notin Awaits
      /\ \A r \in Runs : run[r].at = "unavailable" => run'[r].at = "unavailable"
  BY DEF RestoreDatabase, NoCall, GatewayTypeOK, Runnings, Awaits
<1>2. \A k \in Keys :
        \/ usage[k].state \in {"reserved", "dispatching"} /\ usage'[k].state = "unknown"
        \/ /\ usage[k].state \notin {"reserved", "dispatching"}
           /\ usage'[k].state = usage[k].state
  BY DEF RestoreDatabase, PrepareRestored, TypeOK, Usages
<1>3. Owning \subseteq Awaits /\ "send" \in Awaits
  BY DEF Owning, Awaits
<1>4. Owned'
  BY <1>1, <1>2, <1>3
     DEF Owned, SentOnce, OneOwner, OwnersDecided, SentDecided, Decided, At
<1>5. NothingLeaks'
  BY <1>2 DEF NothingLeaks
<1>6. PaidCallsCountedUnlessGivenUp'
  BY <1>1, <1>2
     DEF Kept, PaidCallsCountedUnlessGivenUp, MayBeBilled, Counted, GivenUp, RunsOf, At, Uncertain
<1>7. SendersCounted'
  BY <1>1, <1>3 DEF SendersCounted, At
<1>8. QED
  BY <1>4, <1>5, <1>6, <1>7 DEF Kept

LEMMA GatewayStepKeeps ==
  ASSUME TypeOK, GatewayTypeOK, Owned, Kept, [GatewayNext]_allVars
  PROVE  Owned' /\ Kept'
<1>1. ASSUME NEW r \in Runs, Step(r)
      PROVE  Owned' /\ Kept'
  <2>1. Turn(r) /\ Alone(r)
    BY <1>1, StepIsTurn
  <2>2. QED
    BY <2>1, TurnKeepsOwned, TurnKeepsKept
<1>2. CASE RestoreDatabase
  BY <1>2, RestoreKeeps
<1>3. CASE BudgetAlone \/ ChangeTariff \/ UNCHANGED allVars
  <2>1. UNCHANGED <<usage, run, sent, rejected>>
    BY <1>3 DEF BudgetAlone, Rollover, CloseMonth, StartMonth, UpdateBudget,
                ChangeTariff, allVars, gatewayVars, vars
  <2>2. QED
    BY <2>1, OthersKeep
<1>4. QED
  BY <1>1, <1>2, <1>3 DEF GatewayNext

LEMMA GatewayStartsKept == GatewayInit => Owned /\ Kept
<1> SUFFICES ASSUME GatewayInit
             PROVE  Owned /\ Kept
  OBVIOUS
<1>1. /\ \A r \in Runs : run[r].at = "idle"
      /\ \A k \in Keys : sent[k] = 0 /\ usage[k].state = "none"
      /\ rejected = {}
  BY DEF GatewayInit, Init, NoUsage
<1>2. QED
  BY <1>1 DEF Owned, Kept, SentOnce, OneOwner, OwnersDecided, SentDecided,
              NothingLeaks, SendersCounted, PaidCallsCountedUnlessGivenUp,
              MayBeBilled, At, Owning

(* A run comes to account for an answer only by the answer. *)
LEMMA SettlersWereAnswered ==
  ASSUME GatewayTypeOK, NEW r \in Runs, Step(r), run'[r].at = "settle"
  PROVE  /\ run[r].at = "answer" /\ UNCHANGED <<charge, usage>>
         /\ run'[r].bill \in {charge[KeyOf[r]], UsageOf(r).amount}
<1>1. \A there : Goes(r, there) => there = "settle"
  BY RunGoes
<1>2. \A there, price, quote, bill :
        Moves(r, there, price, quote, bill) => there = "settle"
  BY RunMoves
<1>3. ProviderAnswers(r)
  BY <1>1, <1>2
     DEF Step, Start, Reserve, ReserveExisting, CountTokens, GiveUp, ReleaseAndEnd,
         MarkBeforeSending, Send, ProviderRejects, ProviderFails, AccountRejected,
         AccountDoubt, AccountBill, Die
<1>4. PICK billed \in {charge[KeyOf[r]], UsageOf(r).amount} :
        Moves(r, "settle", run[r].price, run[r].quote, billed)
  BY <1>3 DEF ProviderAnswers, AnsweredWith
<1>5. run'[r].bill = billed
  BY <1>4 DEF Moves, GatewayTypeOK
<1>6. QED
  BY <1>3, <1>4, <1>5 DEF ProviderAnswers, AnsweredWith, At, NoCall, vars

(* An attempt is settled only by its owner, with the bill of the answer. *)
LEMMA SettledByOwner ==
  ASSUME TypeOK, GatewayTypeOK, NEW r \in Runs, Step(r), NEW k \in Keys,
         usage[k].state # "settled", usage'[k].state = "settled"
  PROVE  /\ KeyOf[r] = k /\ At(r, "settle") /\ UNCHANGED <<sent, charge>>
         /\ usage'[k].billed = run[r].bill /\ usage'[k].amount = usage[k].amount
<1>1. Turn(r) /\ Alone(r)
  BY StepIsTurn
<1>2. KeyOf[r] = k
  BY <1>1 DEF Alone
<1>3. Goto(r, "settle", "done")
  BY <1>1, <1>2
     DEF Turn, Prepares, Accounts, Releases, Becomes, SameState, UsageOf
<1>4. AccountBill(r)
  <2>1. AccountBill(r) \/ Die(r)
    BY <1>3
       DEF Step, Goto, At, Start, Reserve, ReserveExisting, CountTokens, GiveUp, Send,
           MarkBeforeSending, ProviderAnswers, AnsweredWith, ProviderRejects,
           ProviderFails, AccountRejected, AccountDoubt
  <2>2. ~Die(r)
    BY <1>3, RunGoes DEF Die, Goto
  <2>3. QED
    BY <2>1, <2>2
<1>5. Settle(k, run[r].bill)
  BY <1>2, <1>4 DEF AccountBill, UsageOf, vars
<1>6. usage' = [usage EXCEPT ![k] =
                  [usage[k] EXCEPT !.state = "settled", !.billed = run[r].bill]]
  BY <1>5 DEF Settle, EndUsage
<1>7. usage \in [Keys -> Usages]
  BY DEF TypeOK
<1>8. /\ usage'[k].billed = run[r].bill /\ usage'[k].amount = usage[k].amount
  BY <1>6, <1>7 DEF Usages
<1>9. QED
  BY <1>2, <1>4, <1>8 DEF AccountBill, NoCall

(* What a call costs is said once, as it leaves. *)
LEMMA ChargesStay ==
  ASSUME GatewayTypeOK, Owned, [GatewayNext]_allVars
  PROVE  \A k \in Keys :
           \/ charge'[k] = charge[k] /\ sent'[k] = sent[k]
           \/ /\ sent[k] = 0
              /\ \E r \in Runs : KeyOf[r] = k /\ run[r].at = "send"
<1>1. /\ charge \in [Keys -> Bills] /\ sent \in [Keys -> Nat]
      /\ \A r \in Runs : KeyOf[r] \in Keys
  BY RunsAssumption DEF GatewayTypeOK
<1>2. ASSUME NEW r \in Runs, Send(r), NEW k \in Keys
      PROVE  \/ charge'[k] = charge[k] /\ sent'[k] = sent[k]
             \/ sent[k] = 0 /\ KeyOf[r] = k /\ run[r].at = "send"
  BY <1>1, <1>2 DEF Send, At, Owned, OwnersDecided, Owning
<1>3. CASE UNCHANGED <<charge, sent>>
  BY <1>3
<1>4. QED
  BY <1>2, <1>3
     DEF GatewayNext, Step, Start, Reserve, ReserveExisting, CountTokens, GiveUp,
         ReleaseAndEnd, MarkBeforeSending, ProviderAnswers, AnsweredWith,
         ProviderRejects, ProviderFails, AccountRejected, AccountDoubt, AccountBill,
         Die, NoCall, RestoreDatabase, BudgetAlone, ChangeTariff, allVars, gatewayVars

LEMMA ReportsStep ==
  ASSUME TypeOK, GatewayTypeOK, Owned, ChargesReported, [GatewayNext]_allVars
  PROVE  ChargesReported'
<1>1. /\ OneOwner /\ OwnersDecided
      /\ \A r \in Runs : KeyOf[r] \in Keys
  BY RunsAssumption DEF Owned
<1>2. \A k \in Keys :
        /\ usage[k].state # "none" => usage'[k].amount = usage[k].amount
        /\ usage[k].state = "settled" => usage'[k] = usage[k]
  BY GatewayStepIsBudgetStep, NextAdvances DEF Advances, Advance
<1>3. ASSUME NEW q \in Runs, run'[q] = run[q], run[q].at = "settle"
      PROVE  run'[q].bill \in {charge'[KeyOf[q]], usage'[KeyOf[q]].amount}
  <2>1. usage[KeyOf[q]].state # "none" /\ sent[KeyOf[q]] = 1
    BY <1>1, <1>3 DEF OwnersDecided, Owning, Decided, UsageOf, At
  <2>2. charge'[KeyOf[q]] = charge[KeyOf[q]]
    BY <1>1, <2>1, ChargesStay
  <2>3. QED
    BY <1>1, <1>2, <1>3, <2>1, <2>2 DEF ChargesReported, At, UsageOf
<1>4. ASSUME NEW q \in Runs, run'[q].at = "settle"
      PROVE  run'[q].bill \in {charge'[KeyOf[q]], usage'[KeyOf[q]].amount}
  <2>1. CASE run'[q] = run[q]
    BY <1>3, <1>4, <2>1
  <2>2. ASSUME NEW r \in Runs, Step(r), run'[q] # run[q]
        PROVE  run'[q].bill \in {charge'[KeyOf[q]], usage'[KeyOf[q]].amount}
    <3>1. q = r
      BY <2>2, StepIsTurn DEF Alone
    <3>2. QED
      BY <1>4, <2>2, <3>1, SettlersWereAnswered DEF UsageOf
  <2>3. CASE RestoreDatabase
    BY <1>4, <2>3 DEF RestoreDatabase, GatewayTypeOK, Runnings, Awaits
  <2>4. QED
    BY <2>1, <2>2, <2>3
       DEF GatewayNext, BudgetAlone, ChangeTariff, allVars, gatewayVars
<1>5. ASSUME NEW k \in Keys, usage'[k].state = "settled"
      PROVE  sent'[k] = 1 /\ usage'[k].billed \in {charge'[k], usage'[k].amount}
  <2>1. CASE usage[k].state = "settled"
    <3>1. sent[k] = 1 /\ usage[k].billed \in {charge[k], usage[k].amount}
      BY <2>1 DEF ChargesReported
    <3>2. charge'[k] = charge[k] /\ sent'[k] = sent[k]
      BY <3>1, ChargesStay
    <3>3. QED
      BY <1>2, <2>1, <3>1, <3>2
  <2>2. ASSUME NEW r \in Runs, Step(r), usage[k].state # "settled"
        PROVE  sent'[k] = 1 /\ usage'[k].billed \in {charge'[k], usage'[k].amount}
    <3>1. /\ KeyOf[r] = k /\ At(r, "settle") /\ UNCHANGED <<sent, charge>>
          /\ usage'[k].billed = run[r].bill /\ usage'[k].amount = usage[k].amount
      BY <1>5, <2>2, SettledByOwner
    <3>2. sent[k] = 1
      BY <1>1, <3>1 DEF OwnersDecided, Owning, At
    <3>3. run[r].bill \in {charge[k], usage[k].amount}
      BY <3>1 DEF ChargesReported, UsageOf
    <3>4. QED
      BY <3>1, <3>2, <3>3
  <2>3. CASE RestoreDatabase
    <3>1. usage[k].state = "settled"
      BY <1>5, <2>3 DEF RestoreDatabase, PrepareRestored, TypeOK, Usages
    <3>2. QED
      BY <2>1, <3>1
  <2>4. CASE BudgetAlone \/ ChangeTariff \/ UNCHANGED allVars
    <3>1. usage' = usage
      BY <2>4 DEF BudgetAlone, Rollover, CloseMonth, StartMonth, UpdateBudget,
                  ChangeTariff, allVars, vars
    <3>2. QED
      BY <1>5, <2>1, <3>1
  <2>5. QED
    BY <2>1, <2>2, <2>3, <2>4 DEF GatewayNext
<1>6. QED
  BY <1>4, <1>5 DEF ChargesReported, At, UsageOf

(* Every state of the gateway satisfies its inductive invariant: runs move   *)
(* the budget by its functions only, so its ledger stays what it was proved  *)
(* to be.                                                                    *)
THEOREM GatewayInvariance == GatewaySpec => []GatewayInv
<1>1. GatewayInit => BudgetInv /\ GatewayTypeOK /\ Owned /\ Kept /\ ChargesReported
  <2>1. GatewayInit => ChargesReported
    BY DEF GatewayInit, Init, NoUsage, ChargesReported, At
  <2>2. QED
    BY <2>1, InitInv, GatewayTypeInit, GatewayStartsKept DEF GatewayInit
<1>2. BudgetInv /\ GatewayTypeOK /\ Owned /\ Kept /\ ChargesReported
        /\ [GatewayNext]_allVars
      => BudgetInv' /\ GatewayTypeOK' /\ Owned' /\ Kept' /\ ChargesReported'
  <2>1. ASSUME BudgetInv, GatewayTypeOK, Owned, Kept, ChargesReported,
               [GatewayNext]_allVars
        PROVE  BudgetInv' /\ GatewayTypeOK' /\ Owned' /\ Kept' /\ ChargesReported'
    <3>1. TypeOK
      BY <2>1 DEF BudgetInv
    <3>2. BudgetInv'
      BY <2>1, GatewayStepIsBudgetStep, NextKeeps
    <3>3. QED
      BY <2>1, <3>1, <3>2, GatewayTypeStep, GatewayStepKeeps, ReportsStep
  <2>2. QED
    BY <2>1
<1>3. BudgetInv /\ GatewayTypeOK /\ Owned /\ Kept /\ ChargesReported => GatewayInv
  BY DEF Owned, Kept, GatewayInv
<1>4. QED
  BY <1>1, <1>2, <1>3, PTL DEF GatewaySpec

(* An attempt key reaches the provider at most once. *)
THEOREM NeverSentTwice == GatewaySpec => []SentOnce
<1>1. GatewayInv => SentOnce
  BY DEF GatewayInv
<1>2. QED
  BY <1>1, GatewayInvariance, PTL

(* Only a run that died leaves a reservation standing. *)
THEOREM ReservationsEnd == GatewaySpec => []NothingLeaks
<1>1. GatewayInv => NothingLeaks
  BY DEF GatewayInv
<1>2. QED
  BY <1>1, GatewayInvariance, PTL

(* A call that may have been billed stays counted, unless another run of its*)
(* attempt gave it up.                                                       *)
THEOREM PaidCallsStayCounted == GatewaySpec => []PaidCallsCountedUnlessGivenUp
<1>1. GatewayInv => PaidCallsCountedUnlessGivenUp
  BY DEF GatewayInv
<1>2. QED
  BY <1>1, GatewayInvariance, PTL

-----------------------------------------------------------------------------
(* From the ledger to the provider: what an attempt is charged is covered by *)
(* what it counts for, but for what nothing could foresee.                   *)
LEMMA ChargesType ==
  ASSUME TypeOK, GatewayTypeOK, NEW m \in Months
  PROVE  ChargesIn(m) \in Amounts /\ UnforeseenIn(m) \in Amounts
<1>1. ASSUME NEW k \in Keys
      PROVE  charge[k] \in Nat /\ usage[k].amount \in Nat
  BY AmountsAssumption DEF TypeOK, Usages, GatewayTypeOK
<1>2. ASSUME NEW k \in Keys
      PROVE  ChargeOf(k, m) \in Nat /\ Unforeseen(k, m) \in Nat
  BY <1>1 DEF ChargeOf, Unforeseen
<1>3. QED
  BY <1>2 DEF ChargesIn, UnforeseenIn, Amounts

LEMMA ChargeCovered ==
  ASSUME GatewayInv, NEW m \in Months, NEW k \in Keys
  PROVE  ChargeOf(k, m) + Excess(usage[k], m)
           <= Owes(usage[k], m) + Bill(usage[k], m) + Unforeseen(k, m)
<1>1. /\ usage[k] \in Usages /\ charge[k] \in Nat
      /\ MayBeBilled(k) => Counted(k) \/ GivenUp(k)
      /\ usage[k].state = "settled" => usage[k].billed \in {charge[k], usage[k].amount}
  BY AmountsAssumption
     DEF GatewayInv, BudgetInv, TypeOK, GatewayTypeOK, ChargesReported,
         PaidCallsCountedUnlessGivenUp
<1>2. /\ usage[k].amount \in Nat /\ usage[k].billed \in Nat
  BY <1>1 DEF Usages
<1>3. CASE ~MayBeBilled(k) \/ usage[k].month # m \/ GivenUp(k)
  <2>1. /\ Excess(usage[k], m) <= Bill(usage[k], m)
        /\ Excess(usage[k], m) \in Nat /\ Bill(usage[k], m) \in Nat
        /\ Owes(usage[k], m) \in Nat
    BY <1>2 DEF Owes, Bill, Excess
  <2>2. ChargeOf(k, m) <= Unforeseen(k, m)
    BY <1>1, <1>2, <1>3 DEF ChargeOf, Unforeseen
  <2>3. ChargeOf(k, m) \in Nat /\ Unforeseen(k, m) \in Nat
    BY <1>1, <1>2 DEF ChargeOf, Unforeseen
  <2>4. QED
    BY <2>1, <2>2, <2>3
<1>4. CASE MayBeBilled(k) /\ usage[k].month = m /\ ~GivenUp(k)
  <2>1. usage[k].state \in {"dispatching", "unknown", "settled"}
    BY <1>1, <1>4 DEF Counted, Uncertain
  <2>2. /\ ChargeOf(k, m) = charge[k]
        /\ Unforeseen(k, m) =
             IF charge[k] > usage[k].amount THEN charge[k] - usage[k].amount ELSE 0
    BY <1>4 DEF ChargeOf, Unforeseen
  <2>3. CASE usage[k].state = "settled"
    <3>1. /\ Owes(usage[k], m) = 0 /\ Bill(usage[k], m) = usage[k].billed
          /\ Excess(usage[k], m) =
               IF usage[k].billed > usage[k].amount
               THEN usage[k].billed - usage[k].amount ELSE 0
      BY <1>4, <2>3 DEF Owes, Bill, Excess, Open, Uncertain
    <3>2. QED
      BY <1>1, <1>2, <2>2, <2>3, <3>1
  <2>4. CASE usage[k].state \in {"dispatching", "unknown"}
    <3>1. /\ Owes(usage[k], m) = usage[k].amount /\ Bill(usage[k], m) = 0
          /\ Excess(usage[k], m) = 0
      BY <1>2, <1>4, <2>4 DEF Owes, Bill, Excess, Open, Uncertain
    <3>2. QED
      BY <1>1, <1>2, <2>2, <3>1
  <2>5. QED
    BY <2>1, <2>3, <2>4
<1>5. QED
  BY <1>3, <1>4

(* A month's calls really cost at most the ceiling, and what nothing could  *)
(* foresee, for any number of runs, attempts, months, prices and thresholds.*)
THEOREM ChargesStayBounded == GatewaySpec => []ChargesBounded
<1>1. ASSUME GatewayInv, NEW m \in Months
      PROVE  Sum(ChargesIn(m)) <= Ceiling + Sum(UnforeseenIn(m))
  <2> DEFINE Told == [k \in Keys |-> Owes(usage[k], m) + Bill(usage[k], m)]
             Cost == [k \in Keys |-> ChargesIn(m)[k] + ExcessIn(m)[k]]
             Covered == [k \in Keys |-> Told[k] + UnforeseenIn(m)[k]]
  <2>1. /\ TypeOK /\ GatewayTypeOK /\ LedgerBalances /\ SpendBounded
        /\ \A k \in Keys : usage[k] \in Usages
    BY <1>1 DEF GatewayInv, BudgetInv, TypeOK
  <2>2. /\ ChargesIn(m) \in Amounts /\ UnforeseenIn(m) \in Amounts
        /\ OpenIn(m) \in Amounts /\ BilledIn(m) \in Amounts /\ ExcessIn(m) \in Amounts
    BY <2>1, ChargesType, MonthSums
  <2>3. \A k \in Keys :
          /\ OpenIn(m)[k] = Owes(usage[k], m) /\ BilledIn(m)[k] = Bill(usage[k], m)
          /\ ExcessIn(m)[k] = Excess(usage[k], m)
          /\ ChargesIn(m)[k] = ChargeOf(k, m) /\ UnforeseenIn(m)[k] = Unforeseen(k, m)
    BY DEF OpenIn, BilledIn, ExcessIn, ChargesIn, UnforeseenIn
  <2>4. Told \in Amounts /\ Cost \in Amounts /\ Covered \in Amounts
    <3>1. \A k \in Keys : /\ OpenIn(m)[k] \in Nat /\ BilledIn(m)[k] \in Nat
                          /\ ExcessIn(m)[k] \in Nat /\ ChargesIn(m)[k] \in Nat
                          /\ UnforeseenIn(m)[k] \in Nat
      BY <2>2 DEF Amounts
    <3>2. QED
      BY <2>3, <3>1 DEF Amounts
  <2>5. /\ \A k \in Keys : Told[k] = OpenIn(m)[k] + BilledIn(m)[k]
        /\ \A k \in Keys : Cost[k] = ChargesIn(m)[k] + ExcessIn(m)[k]
        /\ \A k \in Keys : Covered[k] = Told[k] + UnforeseenIn(m)[k]
    BY <2>3
  <2>6. \A k \in Keys : Cost[k] <= Covered[k]
    BY <1>1, <2>3, ChargeCovered
  <2> HIDE DEF Told, Cost, Covered
  <2>7. /\ Sum(Told) = Sum(OpenIn(m)) + Sum(BilledIn(m))
        /\ Sum(Cost) = Sum(ChargesIn(m)) + Sum(ExcessIn(m))
        /\ Sum(Covered) = Sum(Told) + Sum(UnforeseenIn(m))
    BY <2>2, <2>4, <2>5, SumOfSums
  <2>8. Sum(Cost) <= Sum(Covered)
    BY <2>4, <2>6, SumGrows
  <2>9. Sum(OpenIn(m)) + Sum(BilledIn(m)) <= Ceiling + Sum(ExcessIn(m))
    <3>1. /\ reserved[m] = Sum(OpenIn(m)) /\ settled[m] = Sum(BilledIn(m))
          /\ settled[m] + reserved[m] <= Ceiling + Sum(ExcessIn(m))
      BY <2>1 DEF LedgerBalances, SpendBounded
    <3>2. Sum(OpenIn(m)) \in Nat /\ Sum(BilledIn(m)) \in Nat
      BY <2>2, SumType
    <3>3. QED
      BY <3>1, <3>2
  <2>10. /\ Sum(ChargesIn(m)) \in Nat /\ Sum(UnforeseenIn(m)) \in Nat
         /\ Sum(OpenIn(m)) \in Nat /\ Sum(BilledIn(m)) \in Nat
         /\ Sum(ExcessIn(m)) \in Nat /\ Ceiling \in Nat
    BY <2>2, SumType, ThresholdsAssumption
  <2>11. QED
    BY <2>7, <2>8, <2>9, <2>10
<1>2. GatewayInv => ChargesBounded
  BY <1>1 DEF ChargesBounded
<1>3. QED
  BY <1>2, GatewayInvariance, PTL

-----------------------------------------------------------------------------
(* A run's price versions are its own, and an attempt's price never changes. *)
LEMMA AuthorizedStep ==
  ASSUME TypeOK, GatewayTypeOK, Owned, AuthorizedTariff, [GatewayNext]_allVars
  PROVE  AuthorizedTariff'
<1>1. /\ run \in [Runs -> Runnings] /\ \A r \in Runs : KeyOf[r] \in Keys
      /\ OwnersDecided
  BY RunsAssumption DEF GatewayTypeOK, Owned
<1>2. \A k \in Keys :
        usage[k].state # "none" => usage'[k].price = usage[k].price
  <2>1. [Next]_vars
    BY GatewayStepIsBudgetStep
  <2>2. QED
    BY <2>1, NextAdvances DEF Advances
<1>3. ASSUME NEW q \in Runs, run[q].at \in {"send", "answer"}, run'[q].quote = run[q].quote
      PROVE  run'[q].quote = usage'[KeyOf[q]].price
  <2>1. usage[KeyOf[q]].state # "none"
    BY <1>1, <1>3 DEF OwnersDecided, Owning, UsageOf, Decided
  <2>2. QED
    BY <1>1, <1>2, <1>3, <2>1 DEF AuthorizedTariff, UsageOf
<1>4. ASSUME NEW r \in Runs, Step(r)
      PROVE  AuthorizedTariff'
  <2>1. Turn(r) /\ Alone(r)
    BY <1>4, StepIsTurn
  <2>2. ASSUME NEW q \in Runs \ {r}, run'[q].at \in {"send", "answer"}
        PROVE  run'[q].quote = usage'[KeyOf[q]].price
    BY <1>3, <2>1, <2>2 DEF Alone
  <2>3. ASSUME run'[r].at \in {"send", "answer"}
        PROVE  run'[r].quote = usage'[KeyOf[r]].price
    <3>1. Goto(r, "mark", "send") \/ Goto(r, "send", "answer")
      BY <2>1, <2>3 DEF Turn, Prepares, Accounts, Goto
    <3>2. CASE Goto(r, "send", "answer")
      <4>1. Send(r)
        <5>1. Send(r) \/ Die(r)
          BY <1>4, <3>2
             DEF Step, Goto, At, Start, Reserve, ReserveExisting, CountTokens, GiveUp,
                 MarkBeforeSending, ProviderAnswers, AnsweredWith, ProviderRejects, ProviderFails,
                 AccountRejected, AccountDoubt, AccountBill
        <5>2. ~Die(r)
          BY <3>2, RunGoes DEF Die, Goto
        <5>3. QED
          BY <5>1, <5>2
      <4>2. run'[r].quote = run[r].quote
        BY <1>1, <4>1 DEF Send, Goes, Moves
      <4>3. QED
        BY <1>3, <3>2, <4>2 DEF Goto
    <3>3. CASE Goto(r, "mark", "send")
      <4>1. MarkDispatching(KeyOf[r], run[r].quote) /\ Goes(r, "send")
        <5>1. MarkBeforeSending(r) \/ Die(r)
          BY <1>4, <3>3
             DEF Step, Goto, At, Start, Reserve, ReserveExisting, CountTokens, GiveUp,
                 Send, ProviderAnswers, AnsweredWith, ProviderRejects, ProviderFails,
                 AccountRejected, AccountDoubt, AccountBill
        <5>2. ~Goes(r, "done") /\ ~Die(r)
          BY <3>3, RunGoes DEF Die, Goto
        <5>3. QED
          BY <5>1, <5>2 DEF MarkBeforeSending
      <4>2. run'[r].quote = run[r].quote
        BY <1>1, <4>1 DEF Goes, Moves
      <4>3. usage[KeyOf[r]].price = run[r].quote /\ usage[KeyOf[r]].state # "none"
        BY <4>1 DEF MarkDispatching, DispatchBlocked
      <4>4. QED
        BY <1>1, <1>2, <4>2, <4>3
    <3>4. QED
      BY <3>1, <3>2, <3>3
  <2>4. QED
    BY <2>2, <2>3 DEF AuthorizedTariff, UsageOf
<1>5. CASE RestoreDatabase
  <2>1. \A r \in Runs : run'[r].at \notin Awaits
    BY <1>1, <1>5 DEF RestoreDatabase, Runnings, Awaits
  <2>2. QED
    BY <2>1 DEF AuthorizedTariff, Awaits
<1>6. CASE BudgetAlone \/ ChangeTariff \/ UNCHANGED allVars
  <2>1. run' = run
    BY <1>6 DEF BudgetAlone, ChangeTariff, allVars, gatewayVars
  <2>2. QED
    BY <1>3, <2>1 DEF AuthorizedTariff, UsageOf
<1>7. QED
  BY <1>4, <1>5, <1>6 DEF GatewayNext

(* No call is sent under a tariff its reservation was not made for. *)
THEOREM CallsAreAuthorized == GatewaySpec => []AuthorizedTariff
<1>1. GatewayInit => GatewayTypeOK /\ AuthorizedTariff
  BY GatewayTypeInit DEF GatewayInit, AuthorizedTariff
<1>2. /\ TypeOK /\ GatewayTypeOK /\ Owned /\ AuthorizedTariff /\ [GatewayNext]_allVars
      => GatewayTypeOK' /\ AuthorizedTariff'
  BY GatewayTypeStep, AuthorizedStep
<1>3. GatewayInv => TypeOK /\ Owned
  BY DEF GatewayInv, BudgetInv, Owned
<1>4. QED
  BY <1>1, <1>2, <1>3, GatewayInvariance, PTL DEF GatewaySpec

=============================================================================

-------------------------- MODULE LedgerRules_proofs --------------------------
(***************************************************************************)
(* The arithmetic of LedgerRules for every amount of money, and the sums   *)
(* over finite sets the modules about payments and imports are built with. *)
(***************************************************************************)
EXTENDS LedgerRules, Functions, FiniteSetTheorems, TLAPS

(* The tolerance of 0.005 in the over-payment test of CreatePaymentTx lets *)
(* nothing through: amounts are whole cents, and a payment is refused as   *)
(* soon as it asks for one cent more than is left.                         *)
THEOREM ExceedsRemainingIsExact ==
    ASSUME NEW asked \in Nat, NEW paid \in Nat, NEW amount \in Nat
    PROVE  ExceedsRemaining(asked, paid, amount) <=> asked > Remaining(paid, amount)
  BY DEF ExceedsRemaining, Remaining, Mills

(* What one payment at a time preserves: an allocation that passes the     *)
(* test keeps the sum of the allocations within the item's amount.         *)
THEOREM AllowedPaymentFits ==
    ASSUME NEW asked \in Nat, NEW paid \in Nat, NEW amount \in Nat,
           paid <= amount, ~ExceedsRemaining(asked, paid, amount)
    PROVE  paid + asked <= amount
  BY DEF ExceedsRemaining, Remaining, Mills

(* The tolerance of 0.004 in recalculateUserPaymentStatus forgives no cent:*)
(* an item is 'paid' when every cent of it is, 'unpaid' when none is.      *)
THEOREM ItemStatusIsExact ==
    ASSUME NEW paid \in Nat, NEW amount \in Nat
    PROVE  /\ ItemStatusOf(paid, amount) \in ItemStatuses
           /\ ItemStatusOf(paid, amount) = "unpaid" <=> paid = 0
           /\ ItemStatusOf(paid, amount) = "paid" <=> paid > 0 /\ paid >= amount
           /\ ItemStatusOf(paid, amount) = "partial" <=> paid > 0 /\ paid < amount
  <1>1. CASE paid = 0
    BY <1>1 DEF ItemStatusOf, ItemStatuses, Mills
  <1>2. CASE paid > 0 /\ paid >= amount
    BY <1>2 DEF ItemStatusOf, ItemStatuses, Mills
  <1>3. CASE paid > 0 /\ paid < amount
    BY <1>3 DEF ItemStatusOf, ItemStatuses, Mills
  <1> QED
    BY <1>1, <1>2, <1>3

(* calculateFee's (base + 999) / 1000 is the least number of cents that is *)
(* not below one thousandth of the base.                                   *)
LEMMA WechatFee ==
    ASSUME NEW base \in Nat
    PROVE  /\ Fee(base, "wechat") \in Nat
           /\ 1000 * Fee(base, "wechat") >= base
           /\ 1000 * Fee(base, "wechat") < base + 1000
  BY DEF Fee

(* Whatever way of paying, the fee is a whole, non-negative number of      *)
(* cents; only WeChat has one, and it is the ceiling of one thousandth.    *)
THEOREM FeeIsCeiling ==
    ASSUME NEW base \in Nat, NEW method \in Methods
    PROVE  /\ Fee(base, method) \in Nat
           /\ method # "wechat" => Fee(base, method) = 0
           /\ method = "wechat" =>
                \A fee \in Nat : 1000 * fee >= base <=> fee >= Fee(base, method)
  <1>1. CASE method = "wechat"
    <2>1. \A fee \in Nat : 1000 * fee >= base <=> fee >= Fee(base, "wechat")
      BY WechatFee
    <2> QED
      BY <1>1, <2>1, WechatFee
  <1>2. CASE method # "wechat"
    BY <1>2 DEF Fee
  <1> QED
    BY <1>1, <1>2

(* Paying in two parts never lowers the fee and adds at most one cent.     *)
THEOREM InstalmentsKeepTheFee ==
    ASSUME NEW first \in Nat, NEW second \in Nat, NEW method \in Methods
    PROVE  /\ Fee(first + second, method) <= Fee(first, method) + Fee(second, method)
           /\ Fee(first, method) + Fee(second, method) <= Fee(first + second, method) + 1
  <1>1. CASE method = "wechat"
    <2>1. first + second \in Nat
      OBVIOUS
    <2>2. /\ 1000 * Fee(first, "wechat") >= first /\ 1000 * Fee(first, "wechat") < first + 1000
          /\ Fee(first, "wechat") \in Nat
      BY WechatFee
    <2>3. /\ 1000 * Fee(second, "wechat") >= second /\ 1000 * Fee(second, "wechat") < second + 1000
          /\ Fee(second, "wechat") \in Nat
      BY WechatFee
    <2>4. /\ 1000 * Fee(first + second, "wechat") >= first + second
          /\ 1000 * Fee(first + second, "wechat") < first + second + 1000
          /\ Fee(first + second, "wechat") \in Nat
      BY <2>1, WechatFee
    <2> QED
      BY <1>1, <2>2, <2>3, <2>4
  <1>2. CASE method # "wechat"
    BY <1>2 DEF Fee
  <1> QED
    BY <1>1, <1>2

-----------------------------------------------------------------------------
(* Sums over finite sets, which stand for the SUM(...) of the SQL queries. *)
(* SumFunctionOnSet is a fold: it takes an element, adds its term to the   *)
(* sum of the others, and the element it takes is any.                     *)
Any(S) == CHOOSE x \in S : TRUE
SumStep(f, sum, S) == IF S = {} THEN 0 ELSE f[Any(S)] + sum[S \ {Any(S)}]
IsSum(f, sum, S) == sum = [s \in SUBSET S |-> SumStep(f, sum, s)]

(* A non-empty collection of subsets of a finite set has a minimal one:    *)
(* induction over finite sets, as the absence of a least counterexample.   *)
LEMMA Smallest ==
    ASSUME NEW S, IsFiniteSet(S), NEW B \in SUBSET SUBSET S, B # {}
    PROVE  \E T \in B : \A U \in SUBSET T : U # T => U \notin B
  <1>1. IsWellFoundedOn(StrictSubsetOrdering(S), FiniteSubsetsOf(S))
    BY FS_StrictSubsetOrderingWellFounded
  <1>2. B \subseteq FiniteSubsetsOf(S)
    BY FS_FiniteSubsetsOfFinite
  <1>3. PICK T \in B : \A U \in B : ~(<<U, T>> \in StrictSubsetOrdering(S))
    BY <1>1, <1>2, WFMin
  <1> QED
    BY <1>3 DEF StrictSubsetOrdering

(* A non-empty set of numbers has a least one.                             *)
LEMMA SmallestNat ==
    ASSUME NEW N \in SUBSET Nat, N # {}
    PROVE  \E n \in N : \A m \in N : n <= m
  <1>1. PICK k \in N : TRUE
    OBVIOUS
  <1> DEFINE B == {s \in SUBSET (0..k) : \E n \in N : s = 0..n}
  <1>2. PICK T \in B : \A U \in SUBSET T : U # T => U \notin B
    <2>1. B # {} /\ B \in SUBSET SUBSET (0..k)
      OBVIOUS
    <2>2. IsFiniteSet(0..k)
      BY FS_Interval
    <2> HIDE DEF B
    <2> QED
      BY <2>1, <2>2, Smallest
  <1>3. PICK n \in N : T = 0..n
    OBVIOUS
  <1>4. ASSUME NEW m \in N, m < n
        PROVE  FALSE
    <2>1. n \in 0..n /\ n \notin 0..m
      BY <1>4
    <2>2. 0..m \in SUBSET T /\ 0..m # T
      BY <1>3, <1>4, <2>1
    <2>3. 0..m \in B
      BY <2>2
    <2> QED
      BY <2>2, <2>3, <1>2
  <1> QED
    BY <1>4

(* There is a function that satisfies the recursion of the fold: by        *)
(* induction on how large the sets are on which it does.                   *)
LEMMA SumExists ==
    ASSUME NEW f, NEW S, IsFiniteSet(S)
    PROVE  \E sum : IsSum(f, sum, S)
  <1> DEFINE Upto(n) == {s \in SUBSET S : Cardinality(s) <= n}
             Has(n) == \E sum : /\ DOMAIN sum = SUBSET S
                                /\ \A s \in Upto(n) : sum[s] = SumStep(f, sum, s)
             Bad == {n \in Nat : ~Has(n)}
  <1>1. \A s \in SUBSET S : /\ IsFiniteSet(s) /\ Cardinality(s) \in Nat
                            /\ Cardinality(s) <= Cardinality(S)
                            /\ s # {} => /\ Any(s) \in s
                                         /\ Cardinality(s \ {Any(s)}) = Cardinality(s) - 1
                                         /\ s \ {Any(s)} \in SUBSET S
                            /\ Cardinality(s) = 0 <=> s = {}
    <2> TAKE s \in SUBSET S
    <2>1. IsFiniteSet(s) /\ Cardinality(s) <= Cardinality(S)
      BY FS_Subset
    <2>2. Cardinality(s) \in Nat
      BY <2>1, FS_CardinalityType
    <2>3. ASSUME s # {}
          PROVE  Any(s) \in s /\ Cardinality(s \ {Any(s)}) = Cardinality(s) - 1
      <3>1. Any(s) \in s
        BY <2>3 DEF Any
      <3> QED
        BY <3>1, <2>1, FS_RemoveElement
    <2> QED
      BY <2>1, <2>2, <2>3, FS_EmptySet
  <1>2. Bad = {}
    <2> SUFFICES ASSUME Bad # {}
                 PROVE  FALSE
      OBVIOUS
    <2>1. PICK n \in Bad : \A m \in Bad : n <= m
      <3>1. Bad \in SUBSET Nat
        OBVIOUS
      <3> HIDE DEF Bad
      <3> QED
        BY <3>1, SmallestNat
    <2>2. n # 0
      <3> DEFINE zero == [s \in SUBSET S |-> 0]
      <3>1. DOMAIN zero = SUBSET S
        OBVIOUS
      <3>2. ASSUME NEW s \in Upto(0)
            PROVE  zero[s] = SumStep(f, zero, s)
        <4>1. s \in SUBSET S /\ Cardinality(s) <= 0
          OBVIOUS
        <4>2. Cardinality(s) = 0
          <5>1. Cardinality(s) \in Nat
            BY <1>1, <4>1
          <5> HIDE DEF zero
          <5> QED
            BY <4>1, <5>1
        <4>3. s = {} /\ zero[s] = 0
          BY <1>1, <4>1, <4>2
        <4> QED
          BY <4>3 DEF SumStep
      <3>3. Has(0)
        BY <3>1, <3>2
      <3> QED
        BY <3>3
    <2>3. n - 1 \in Nat /\ Has(n - 1)
      <3>1. n \in Nat /\ n - 1 \in Nat /\ ~(n <= n - 1)
        BY <2>2
      <3> HIDE DEF Has
      <3> QED
        BY <3>1, <2>1
    <2>4. PICK g : /\ DOMAIN g = SUBSET S
                   /\ \A s \in Upto(n - 1) : g[s] = SumStep(f, g, s)
      BY <2>3
    <2> DEFINE h == [s \in SUBSET S |-> IF Cardinality(s) <= n - 1 THEN g[s]
                                        ELSE f[Any(s)] + g[s \ {Any(s)}]]
    <2>5. ASSUME NEW s \in Upto(n)
          PROVE  h[s] = SumStep(f, h, s)
      <3>1. CASE s = {}
        <4>1. Cardinality(s) <= n - 1 /\ s \in Upto(n - 1)
          <5>1. n - 1 \in Nat /\ s \in SUBSET S
            BY <2>3
          <5>2. Cardinality(s) = 0
            BY <3>1, <1>1, <5>1
          <5> QED
            BY <5>1, <5>2
        <4>2. h[s] = g[s] /\ g[s] = SumStep(f, g, s)
          BY <4>1, <2>4
        <4> QED
          BY <3>1, <4>2 DEF SumStep
      <3>2. CASE s # {}
        <4>1. /\ s \ {Any(s)} \in SUBSET S
              /\ Cardinality(s \ {Any(s)}) <= n - 1
          BY <3>2, <1>1, <2>3
        <4>2. h[s \ {Any(s)}] = g[s \ {Any(s)}]
          BY <4>1
        <4>3. h[s] = f[Any(s)] + g[s \ {Any(s)}]
          <5>1. CASE Cardinality(s) <= n - 1
            BY <5>1, <2>4, <3>2 DEF SumStep
          <5>2. CASE ~(Cardinality(s) <= n - 1)
            BY <5>2
          <5> QED
            BY <5>1, <5>2
        <4> QED
          BY <4>2, <4>3, <3>2 DEF SumStep
      <3> QED
        BY <3>1, <3>2
    <2>6. Has(n)
      <3>1. DOMAIN h = SUBSET S
        OBVIOUS
      <3> HIDE DEF h
      <3> QED
        BY <3>1, <2>5
    <2> QED
      BY <2>6, <2>1
  <1>3. Has(Cardinality(S))
    BY <1>1, <1>2
  <1>4. PICK g : /\ DOMAIN g = SUBSET S
                 /\ \A s \in Upto(Cardinality(S)) : g[s] = SumStep(f, g, s)
    BY <1>3
  <1>5. \A s \in SUBSET S : g[s] = SumStep(f, g, s)
    BY <1>1, <1>4
  <1>6. IsSum(f, [s \in SUBSET S |-> g[s]], S)
    <2> DEFINE k == [s \in SUBSET S |-> g[s]]
    <2>1. ASSUME NEW s \in SUBSET S
          PROVE  g[s] = SumStep(f, k, s)
      <3>1. s \ {Any(s)} \in SUBSET S
        OBVIOUS
      <3>2. k[s \ {Any(s)}] = g[s \ {Any(s)}]
        BY <3>1
      <3> QED
        BY <3>2, <1>5 DEF SumStep
    <2> QED
      BY <2>1 DEF IsSum
  <1> QED
    BY <1>6

(* Two such functions agree, also if one of them is for a smaller set.     *)
LEMMA SumUnique ==
    ASSUME NEW f, NEW S, IsFiniteSet(S), NEW g, IsSum(f, g, S),
           NEW T \in SUBSET S, NEW h, IsSum(f, h, T)
    PROVE  \A s \in SUBSET T : g[s] = h[s]
  <1> DEFINE B == {s \in SUBSET T : g[s] # h[s]}
  <1> SUFFICES ASSUME B # {}
               PROVE  FALSE
    OBVIOUS
  <1>1. IsFiniteSet(T)
    BY FS_Subset
  <1>2. PICK s \in B : \A U \in SUBSET s : U # s => U \notin B
    <2>1. B \in SUBSET SUBSET T
      OBVIOUS
    <2> HIDE DEF B
    <2> QED
      BY <1>1, <2>1, Smallest
  <1>3. g[s] = SumStep(f, g, s) /\ h[s] = SumStep(f, h, s)
    BY DEF IsSum
  <1>4. s # {}
    BY <1>3 DEF SumStep
  <1>5. Any(s) \in s
    BY <1>4 DEF Any
  <1>6. g[s \ {Any(s)}] = h[s \ {Any(s)}]
    BY <1>2, <1>5
  <1> QED
    BY <1>3, <1>4, <1>6 DEF SumStep

(* The definition of the community module, unfolded.                       *)
LEMMA SumIsFold ==
    ASSUME NEW f, NEW S
    PROVE  SumFunctionOnSet(f, S) = (CHOOSE g : IsSum(f, g, S))[S]
  BY DEF SumFunctionOnSet, FoldFunctionOnSet, MapThenFoldSet, SumStep, IsSum, Any

(* The recursion, for the sum itself.                                      *)
LEMMA SumUnfold ==
    ASSUME NEW f, NEW S, IsFiniteSet(S)
    PROVE  /\ S = {} => SumFunctionOnSet(f, S) = 0
           /\ S # {} => SumFunctionOnSet(f, S)
                          = f[Any(S)] + SumFunctionOnSet(f, S \ {Any(S)})
  <1>1. PICK g : g = (CHOOSE gg : IsSum(f, gg, S))
    OBVIOUS
  <1>2. IsSum(f, g, S) /\ SumFunctionOnSet(f, S) = g[S]
    BY <1>1, SumExists, SumIsFold
  <1>3. g[S] = SumStep(f, g, S)
    BY <1>2 DEF IsSum
  <1>4. ASSUME S # {}
        PROVE  g[S \ {Any(S)}] = SumFunctionOnSet(f, S \ {Any(S)})
    <2> DEFINE T == S \ {Any(S)}
    <2>1. IsFiniteSet(T) /\ T \in SUBSET S
      BY FS_Subset
    <2>2. PICK h : h = (CHOOSE gg : IsSum(f, gg, T))
      OBVIOUS
    <2>3. IsSum(f, h, T) /\ SumFunctionOnSet(f, T) = h[T]
      BY <2>1, <2>2, SumExists, SumIsFold
    <2> HIDE DEF T
    <2>4. g[T] = h[T]
      BY <2>1, <2>3, <1>2, SumUnique
    <2> QED
      BY <2>3, <2>4 DEF T
  <1> QED
    BY <1>2, <1>3, <1>4 DEF SumStep

(* A sum of nothing is zero.                                               *)
LEMMA SumEmpty ==
    ASSUME NEW f
    PROVE  SumFunctionOnSet(f, {}) = 0
  BY FS_EmptySet, SumUnfold

(* A sum depends on its terms only.                                        *)
LEMMA SumSame ==
    ASSUME NEW f, NEW g, NEW S, IsFiniteSet(S), \A x \in S : f[x] = g[x]
    PROVE  SumFunctionOnSet(f, S) = SumFunctionOnSet(g, S)
  <1> DEFINE B == {T \in SUBSET S : SumFunctionOnSet(f, T) # SumFunctionOnSet(g, T)}
  <1> SUFFICES ASSUME B # {}
               PROVE  FALSE
    OBVIOUS
  <1>1. PICK T \in B : \A U \in SUBSET T : U # T => U \notin B
    <2>1. B \in SUBSET SUBSET S
      OBVIOUS
    <2> HIDE DEF B
    <2> QED
      BY <2>1, Smallest
  <1>2. IsFiniteSet(T) /\ T \in SUBSET S
    BY FS_Subset
  <1>3. T # {}
    BY <1>2, SumUnfold
  <1>4. Any(T) \in T
    BY <1>3 DEF Any
  <1>5. T \ {Any(T)} \notin B
    BY <1>1, <1>4
  <1>6. SumFunctionOnSet(f, T \ {Any(T)}) = SumFunctionOnSet(g, T \ {Any(T)})
    BY <1>2, <1>5
  <1> QED
    BY <1>2, <1>3, <1>4, <1>6, SumUnfold

(* A sum of integers is an integer.                                        *)
LEMMA SumInt ==
    ASSUME NEW f, NEW S, IsFiniteSet(S), \A x \in S : f[x] \in Int
    PROVE  SumFunctionOnSet(f, S) \in Int
  <1> DEFINE B == {T \in SUBSET S : SumFunctionOnSet(f, T) \notin Int}
  <1> SUFFICES ASSUME B # {}
               PROVE  FALSE
    OBVIOUS
  <1>1. PICK T \in B : \A U \in SUBSET T : U # T => U \notin B
    <2>1. B \in SUBSET SUBSET S
      OBVIOUS
    <2> HIDE DEF B
    <2> QED
      BY <2>1, Smallest
  <1>2. IsFiniteSet(T) /\ T \in SUBSET S
    BY FS_Subset
  <1>3. T # {}
    <2>1. SumFunctionOnSet(f, {}) = 0
      BY SumEmpty
    <2>2. SumFunctionOnSet(f, {}) \in Int
      BY <2>1
    <2> QED
      BY <2>2
  <1>4. Any(T) \in T /\ f[Any(T)] \in Int
    BY <1>2, <1>3 DEF Any
  <1>5. SumFunctionOnSet(f, T \ {Any(T)}) \in Int
    BY <1>1, <1>2, <1>4
  <1>6. SumFunctionOnSet(f, T) = f[Any(T)] + SumFunctionOnSet(f, T \ {Any(T)})
    BY <1>2, <1>3, SumUnfold
  <1> QED
    BY <1>4, <1>5, <1>6

(* The order of the terms does not matter: any of them can be split off.   *)
LEMMA SumRemove ==
    ASSUME NEW f, NEW S, IsFiniteSet(S), \A x \in S : f[x] \in Int, NEW x \in S
    PROVE  SumFunctionOnSet(f, S) = f[x] + SumFunctionOnSet(f, S \ {x})
  <1> DEFINE Sum(T) == SumFunctionOnSet(f, T)
             B == {T \in SUBSET S : \E y \in T : Sum(T) # f[y] + Sum(T \ {y})}
  <1> SUFFICES ASSUME B # {}
               PROVE  FALSE
    OBVIOUS
  <1>1. PICK T \in B : \A U \in SUBSET T : U # T => U \notin B
    <2>1. B \in SUBSET SUBSET S
      OBVIOUS
    <2> HIDE DEF B
    <2> QED
      BY <2>1, Smallest
  <1>2. PICK y \in T : Sum(T) # f[y] + Sum(T \ {y})
    OBVIOUS
  <1> DEFINE a == Any(T)
  <1>3. IsFiniteSet(T) /\ T \in SUBSET S
    BY FS_Subset
  <1>4. a \in T
    BY DEF Any
  <1>5. Sum(T) = f[a] + Sum(T \ {a})
    BY <1>3, <1>4, SumUnfold
  <1>6. a # y
    BY <1>2, <1>5
  <1>7. T \ {a} \notin B /\ T \ {y} \notin B
    BY <1>1, <1>4
  <1>8. Sum(T \ {a}) = f[y] + Sum((T \ {a}) \ {y})
    BY <1>3, <1>6, <1>7
  <1>9. Sum(T \ {y}) = f[a] + Sum((T \ {y}) \ {a})
    BY <1>3, <1>4, <1>6, <1>7
  <1>10. (T \ {y}) \ {a} = (T \ {a}) \ {y}
    OBVIOUS
  <1>11. Sum((T \ {a}) \ {y}) \in Int
    <2>1. IsFiniteSet((T \ {a}) \ {y}) /\ \A z \in (T \ {a}) \ {y} : f[z] \in Int
      BY <1>3, FS_RemoveElement
    <2> QED
      BY <2>1, SumInt
  <1>12. f[a] \in Int /\ f[y] \in Int
    BY <1>3, <1>4
  <1>13. Sum(T \ {y}) = f[a] + Sum((T \ {a}) \ {y})
    BY <1>9, <1>10
  <1>14. \A m, n, k \in Int : m + (n + k) = n + (m + k)
    OBVIOUS
  <1> HIDE DEF Sum, a
  <1>15. Sum(T) = f[y] + (f[a] + Sum((T \ {a}) \ {y}))
    BY <1>5, <1>8, <1>11, <1>12, <1>14
  <1> QED
    BY <1>2, <1>13, <1>15

(* A sum of natural numbers is one, and zero only if every term is.        *)
LEMMA SumNat ==
    ASSUME NEW f, NEW S, IsFiniteSet(S), \A x \in S : f[x] \in Nat
    PROVE  /\ SumFunctionOnSet(f, S) \in Nat
           /\ SumFunctionOnSet(f, S) = 0 <=> \A x \in S : f[x] = 0
  <1> DEFINE Right(T) == /\ SumFunctionOnSet(f, T) \in Nat
                         /\ SumFunctionOnSet(f, T) = 0 <=> \A x \in T : f[x] = 0
             B == {T \in SUBSET S : ~Right(T)}
  <1> SUFFICES ASSUME B # {}
               PROVE  FALSE
    OBVIOUS
  <1>1. PICK T \in B : \A U \in SUBSET T : U # T => U \notin B
    <2>1. B \in SUBSET SUBSET S
      OBVIOUS
    <2> HIDE DEF B
    <2> QED
      BY <2>1, Smallest
  <1>2. IsFiniteSet(T) /\ T \in SUBSET S
    BY FS_Subset
  <1>3. T # {}
    <2>1. SumFunctionOnSet(f, {}) = 0
      BY SumEmpty
    <2>2. Right({})
      BY <2>1
    <2> QED
      BY <2>2
  <1>4. Any(T) \in T /\ f[Any(T)] \in Nat
    BY <1>2, <1>3 DEF Any
  <1>5. T \ {Any(T)} \in SUBSET S /\ T \ {Any(T)} \notin B
    BY <1>1, <1>2, <1>4
  <1>6. /\ SumFunctionOnSet(f, T \ {Any(T)}) \in Nat
        /\ SumFunctionOnSet(f, T \ {Any(T)}) = 0 <=> \A x \in T \ {Any(T)} : f[x] = 0
    BY <1>5
  <1>7. SumFunctionOnSet(f, T) = f[Any(T)] + SumFunctionOnSet(f, T \ {Any(T)})
    BY <1>2, <1>3, SumUnfold
  <1>8. SumFunctionOnSet(f, T) \in Nat
    BY <1>4, <1>6, <1>7
  <1>9. SumFunctionOnSet(f, T) = 0 <=>
            f[Any(T)] = 0 /\ SumFunctionOnSet(f, T \ {Any(T)}) = 0
    BY <1>4, <1>6, <1>7
  <1>10. SumFunctionOnSet(f, T) = 0 <=> \A x \in T : f[x] = 0
    BY <1>4, <1>6, <1>9
  <1> QED
    BY <1>8, <1>10

(* Terms that are zero do not count.                                       *)
LEMMA SumOfSubset ==
    ASSUME NEW f, NEW S, IsFiniteSet(S), \A x \in S : f[x] \in Int,
           NEW T \in SUBSET S, \A x \in S \ T : f[x] = 0
    PROVE  SumFunctionOnSet(f, S) = SumFunctionOnSet(f, T)
  <1> DEFINE B == {U \in SUBSET S : T \subseteq U
                                     /\ SumFunctionOnSet(f, U) # SumFunctionOnSet(f, T)}
  <1> SUFFICES ASSUME B # {}
               PROVE  FALSE
    OBVIOUS
  <1>1. PICK U \in B : \A V \in SUBSET U : V # U => V \notin B
    <2>1. B \in SUBSET SUBSET S
      OBVIOUS
    <2> HIDE DEF B
    <2> QED
      BY <2>1, Smallest
  <1>2. PICK x \in U \ T : TRUE
    OBVIOUS
  <1>3. f[x] = 0
    OBVIOUS
  <1>4. SumFunctionOnSet(f, U \ {x}) = SumFunctionOnSet(f, T)
    BY <1>1, <1>2
  <1>5. IsFiniteSet(U) /\ \A y \in U : f[y] \in Int
    BY FS_Subset
  <1>6. SumFunctionOnSet(f, U) = f[x] + SumFunctionOnSet(f, U \ {x})
    BY <1>5, SumRemove
  <1>7. SumFunctionOnSet(f, U \ {x}) \in Int
    BY <1>5, FS_RemoveElement, SumInt
  <1> QED
    BY <1>3, <1>4, <1>6, <1>7

(* The same terms under other names have the same sum.                     *)
LEMMA SumRenamed ==
    ASSUME NEW f, NEW g, NEW name, NEW S, IsFiniteSet(S),
           \A x, y \in S : name[x] = name[y] => x = y,
           \A x \in S : g[x] \in Int /\ f[name[x]] = g[x]
    PROVE  SumFunctionOnSet(f, {name[x] : x \in S}) = SumFunctionOnSet(g, S)
  <1> DEFINE Named(T) == {name[x] : x \in T}
             B == {T \in SUBSET S : SumFunctionOnSet(f, Named(T)) # SumFunctionOnSet(g, T)}
  <1> SUFFICES ASSUME B # {}
               PROVE  FALSE
    OBVIOUS
  <1>1. PICK T \in B : \A U \in SUBSET T : U # T => U \notin B
    <2>1. B \in SUBSET SUBSET S
      OBVIOUS
    <2> HIDE DEF B
    <2> QED
      BY <2>1, Smallest
  <1>2. IsFiniteSet(T) /\ T \in SUBSET S /\ IsFiniteSet(Named(T))
    <2>1. IsFiniteSet(T)
      BY FS_Subset
    <2>2. [x \in T |-> name[x]] \in Surjection(T, Named(T))
      BY DEF Surjection
    <2> QED
      BY <2>1, <2>2, FS_Surjection
  <1>3. T # {}
    <2>1. Named({}) = {}
      OBVIOUS
    <2> QED
      BY <2>1, SumEmpty
  <1>4. PICK x \in T : TRUE
    BY <1>3
  <1>5. /\ Named(T) \ {name[x]} = Named(T \ {x}) /\ name[x] \in Named(T)
        /\ \A n \in Named(T) : f[n] \in Int
    BY <1>2, <1>4
  <1>6. SumFunctionOnSet(f, Named(T \ {x})) = SumFunctionOnSet(g, T \ {x})
    BY <1>1, <1>2, <1>4
  <1> HIDE DEF Named
  <1>7. SumFunctionOnSet(f, Named(T)) = f[name[x]] + SumFunctionOnSet(f, Named(T \ {x}))
    <2> DEFINE N == Named(T)
               n == name[x]
    <2>1. IsFiniteSet(N) /\ n \in N /\ (\A m \in N : f[m] \in Int) /\ N \ {n} = Named(T \ {x})
      BY <1>2, <1>5
    <2> HIDE DEF N, n
    <2>2. SumFunctionOnSet(f, N) = f[n] + SumFunctionOnSet(f, N \ {n})
      BY <2>1, SumRemove
    <2> QED
      BY <2>1, <2>2 DEF N, n
  <1>8. SumFunctionOnSet(g, T) = g[x] + SumFunctionOnSet(g, T \ {x})
    BY <1>2, SumRemove
  <1>9. f[name[x]] = g[x]
    BY <1>2, <1>4
  <1> QED
    BY <1>6, <1>7, <1>8, <1>9

(* The sum over two sets without a common element.                         *)
LEMMA SumUnion ==
    ASSUME NEW f, NEW S, NEW T, IsFiniteSet(S), IsFiniteSet(T), S \cap T = {},
           \A x \in S \cup T : f[x] \in Int
    PROVE  SumFunctionOnSet(f, S \cup T) = SumFunctionOnSet(f, S) + SumFunctionOnSet(f, T)
  <1> DEFINE B == {U \in SUBSET T : SumFunctionOnSet(f, S \cup U)
                                      # SumFunctionOnSet(f, S) + SumFunctionOnSet(f, U)}
  <1> SUFFICES ASSUME B # {}
               PROVE  FALSE
    OBVIOUS
  <1>1. PICK U \in B : \A V \in SUBSET U : V # U => V \notin B
    <2>1. B \in SUBSET SUBSET T
      OBVIOUS
    <2> HIDE DEF B
    <2> QED
      BY <2>1, Smallest
  <1>2. IsFiniteSet(U) /\ U \in SUBSET T /\ IsFiniteSet(S \cup U)
    BY FS_Subset, FS_Union
  <1>3. SumFunctionOnSet(f, S) \in Int
    BY SumInt
  <1>4. U # {}
    <2>1. S \cup {} = S /\ \A n \in Int : n + 0 = n
      OBVIOUS
    <2> QED
      BY <1>3, <2>1, SumEmpty
  <1>5. PICK x \in U : TRUE
    BY <1>4
  <1>6. /\ (S \cup U) \ {x} = S \cup (U \ {x}) /\ x \in S \cup U
        /\ f[x] \in Int /\ U \ {x} \notin B /\ U \ {x} \in SUBSET T
    BY <1>1, <1>2, <1>5
  <1>7. SumFunctionOnSet(f, S \cup (U \ {x}))
          = SumFunctionOnSet(f, S) + SumFunctionOnSet(f, U \ {x})
    BY <1>6
  <1>8. SumFunctionOnSet(f, S \cup U) = f[x] + SumFunctionOnSet(f, S \cup (U \ {x}))
    <2>1. \A y \in S \cup U : f[y] \in Int
      BY <1>2
    <2> QED
      BY <1>2, <1>6, <2>1, SumRemove
  <1>9. SumFunctionOnSet(f, U) = f[x] + SumFunctionOnSet(f, U \ {x})
    BY <1>2, <1>5, SumRemove
  <1>10. SumFunctionOnSet(f, U \ {x}) \in Int
    <2>1. IsFiniteSet(U \ {x}) /\ \A y \in U \ {x} : f[y] \in Int
      BY <1>2, FS_RemoveElement
    <2> QED
      BY <2>1, SumInt
  <1>11. SumFunctionOnSet(f, S \cup U) = SumFunctionOnSet(f, S) + SumFunctionOnSet(f, U)
    BY <1>3, <1>6, <1>7, <1>8, <1>9, <1>10
  <1> QED
    BY <1>11

(* Term by term: the sum of the differences is the difference of the sums. *)
LEMMA SumMinus ==
    ASSUME NEW f, NEW g, NEW h, NEW S, IsFiniteSet(S),
           \A x \in S : f[x] \in Int /\ g[x] \in Int /\ h[x] = f[x] - g[x]
    PROVE  SumFunctionOnSet(h, S) = SumFunctionOnSet(f, S) - SumFunctionOnSet(g, S)
  <1> DEFINE B == {T \in SUBSET S : SumFunctionOnSet(h, T)
                                      # SumFunctionOnSet(f, T) - SumFunctionOnSet(g, T)}
  <1> SUFFICES ASSUME B # {}
               PROVE  FALSE
    OBVIOUS
  <1>1. PICK T \in B : \A U \in SUBSET T : U # T => U \notin B
    <2>1. B \in SUBSET SUBSET S
      OBVIOUS
    <2> HIDE DEF B
    <2> QED
      BY <2>1, Smallest
  <1>2. IsFiniteSet(T) /\ T \in SUBSET S
    BY FS_Subset
  <1>3. T # {}
    BY SumEmpty
  <1>4. PICK x \in T : TRUE
    BY <1>3
  <1>5. T \ {x} \notin B /\ T \ {x} \in SUBSET S
    BY <1>1, <1>2
  <1>6. SumFunctionOnSet(h, T \ {x})
          = SumFunctionOnSet(f, T \ {x}) - SumFunctionOnSet(g, T \ {x})
    BY <1>5
  <1>7. \A y \in T : f[y] \in Int /\ g[y] \in Int /\ h[y] \in Int
    BY <1>2
  <1>8. /\ SumFunctionOnSet(f, T) = f[x] + SumFunctionOnSet(f, T \ {x})
        /\ SumFunctionOnSet(g, T) = g[x] + SumFunctionOnSet(g, T \ {x})
        /\ SumFunctionOnSet(h, T) = h[x] + SumFunctionOnSet(h, T \ {x})
    BY <1>2, <1>7, SumRemove
  <1>9. SumFunctionOnSet(f, T \ {x}) \in Int /\ SumFunctionOnSet(g, T \ {x}) \in Int
    <2>1. IsFiniteSet(T \ {x})
      BY <1>2, FS_RemoveElement
    <2>2. (\A y \in T \ {x} : f[y] \in Int) /\ (\A y \in T \ {x} : g[y] \in Int)
      BY <1>7
    <2> QED
      BY <2>1, <2>2, SumInt
  <1>10. f[x] \in Int /\ g[x] \in Int /\ h[x] = f[x] - g[x]
    BY <1>2, <1>4
  <1>11. SumFunctionOnSet(h, T) = SumFunctionOnSet(f, T) - SumFunctionOnSet(g, T)
    BY <1>6, <1>8, <1>9, <1>10
  <1> QED
    BY <1>11

(* Adding up part by part.                                                 *)
LEMMA SumByParts ==
    ASSUME NEW f, NEW g, NEW part, NEW K, IsFiniteSet(K),
           \A k \in K : IsFiniteSet(part[k]) /\ g[k] = SumFunctionOnSet(f, part[k]),
           \A k, l \in K : k # l => part[k] \cap part[l] = {},
           \A k \in K : \A x \in part[k] : f[x] \in Int
    PROVE  SumFunctionOnSet(f, UNION {part[k] : k \in K}) = SumFunctionOnSet(g, K)
  <1> DEFINE All(T) == UNION {part[k] : k \in T}
             B == {T \in SUBSET K : ~(/\ IsFiniteSet(All(T))
                                      /\ SumFunctionOnSet(f, All(T)) = SumFunctionOnSet(g, T))}
  <1> SUFFICES ASSUME B # {}
               PROVE  FALSE
    OBVIOUS
  <1>1. PICK T \in B : \A U \in SUBSET T : U # T => U \notin B
    <2>1. B \in SUBSET SUBSET K
      OBVIOUS
    <2> HIDE DEF B
    <2> QED
      BY <2>1, Smallest
  <1>2. IsFiniteSet(T) /\ T \in SUBSET K
    BY FS_Subset
  <1>3. T # {}
    <2>1. All({}) = {}
      OBVIOUS
    <2> QED
      BY <2>1, SumEmpty, FS_EmptySet
  <1>4. PICK k \in T : TRUE
    BY <1>3
  <1>5. /\ All(T) = All(T \ {k}) \cup part[k] /\ All(T \ {k}) \cap part[k] = {}
        /\ k \in K /\ T \ {k} \in SUBSET K
    BY <1>2, <1>4
  <1>6. /\ IsFiniteSet(All(T \ {k}))
        /\ SumFunctionOnSet(f, All(T \ {k})) = SumFunctionOnSet(g, T \ {k})
    BY <1>1, <1>4, <1>5
  <1>7. IsFiniteSet(part[k]) /\ g[k] = SumFunctionOnSet(f, part[k])
    BY <1>5
  <1>8. \A x \in All(T \ {k}) \cup part[k] : f[x] \in Int
    BY <1>2, <1>5
  <1>9. \A l \in K : g[l] \in Int
    BY SumInt
  <1> HIDE DEF All
  <1>10. SumFunctionOnSet(f, All(T)) = SumFunctionOnSet(g, T \ {k}) + g[k]
    <2> DEFINE P == All(T \ {k})
               Q == part[k]
    <2>1. /\ IsFiniteSet(P) /\ IsFiniteSet(Q) /\ P \cap Q = {} /\ All(T) = P \cup Q
          /\ \A x \in P \cup Q : f[x] \in Int
      BY <1>5, <1>6, <1>7, <1>8
    <2> HIDE DEF P, Q
    <2>2. SumFunctionOnSet(f, P \cup Q) = SumFunctionOnSet(f, P) + SumFunctionOnSet(f, Q)
      BY <2>1, SumUnion
    <2> QED
      BY <1>6, <1>7, <2>1, <2>2 DEF P, Q
  <1>11. SumFunctionOnSet(g, T) = g[k] + SumFunctionOnSet(g, T \ {k})
    BY <1>2, <1>4, <1>9, SumRemove
  <1>12. SumFunctionOnSet(g, T \ {k}) \in Int /\ g[k] \in Int
    <2>1. IsFiniteSet(T \ {k}) /\ \A l \in T \ {k} : g[l] \in Int
      BY <1>2, <1>9, FS_RemoveElement
    <2> QED
      BY <1>5, <1>9, <2>1, SumInt
  <1>13. SumFunctionOnSet(f, All(T)) = SumFunctionOnSet(g, T)
    BY <1>10, <1>11, <1>12
  <1>14. IsFiniteSet(All(T))
    <2> DEFINE P == All(T \ {k})
               Q == part[k]
    <2>1. IsFiniteSet(P) /\ IsFiniteSet(Q) /\ All(T) = P \cup Q
      BY <1>5, <1>6, <1>7
    <2> HIDE DEF P, Q
    <2>2. IsFiniteSet(P \cup Q)
      BY <2>1, FS_Union
    <2> QED
      BY <2>1, <2>2
  <1> QED
    BY <1>13, <1>14
=============================================================================

---------------------------- MODULE TradeProofs ----------------------------
(***************************************************************************)
(* Proofs about Trade, for any number of players, items, slots and         *)
(* windows of any size:                                                    *)
(*   TradeTypes         inventories, zeny and windows keep their types;    *)
(*   TradeMutual        trading partners have each other, while nobody can *)
(*                      ask for a trade in the middle of one;              *)
(*   TradeNothingDoubled  whatever a commit leaves out, nothing is lost    *)
(*                      or doubled;                                        *)
(*   TradeIsExchange    the trade implements Exchange, under Careful.      *)
(*                                                                         *)
(* What Total, Checked and Handed compute is found by induction over sets  *)
(* of numbers (Inductive, Recursion): first sums and inventories, then the *)
(* deals one after the other, then trade_check and the hand-over side by   *)
(* side, and last the windows from step to step.                           *)
(***************************************************************************)
EXTENDS Trade, WellFoundedInduction, TLAPS

----------------------------------------------------------------------------
(* Induction over an interval of numbers, and functions defined by it *)

\* A set of numbers that is not empty has a smallest member.
LEMMA Smallest ==
  ASSUME NEW T, T \subseteq Nat, T # {}
  PROVE  \E x \in T : \A y \in T : x <= y
<1> DEFINE R == OpToRel(<, Nat)
<1>1. IsWellFoundedOn(R, Nat)
  BY NatLessThanWellFounded
<1> HIDE DEF R
<1>2. PICK x \in T : \A y \in T : ~(<<y, x>> \in R)
  BY <1>1, WFMin
<1>3. ASSUME NEW y \in T PROVE x <= y
  <2>1. y \in Nat /\ x \in Nat
    OBVIOUS
  <2>2. y < x => <<y, x>> \in R
    BY <2>1 DEF R, OpToRel
  <2> QED
    BY <1>2, <2>1, <2>2
<1> QED
  BY <1>3

\* What is so of 0 and goes from each number below n to the next is so up to n.
LEMMA Inductive ==
  ASSUME NEW n \in Nat, NEW T, 0 \in T,
         ASSUME NEW i \in Nat, i < n, i \in T PROVE i + 1 \in T
  PROVE  \A i \in 0..n : i \in T
<1> SUFFICES ASSUME NEW k \in 0..n, k \notin T PROVE FALSE
  OBVIOUS
<1> DEFINE U == {i \in 0..n : i \notin T}
<1>1. U \subseteq Nat /\ U # {}
  OBVIOUS
<1> HIDE DEF U
<1>2. PICK x \in U : \A y \in U : x <= y
  BY <1>1, Smallest
<1>3. x \in 0..n /\ x \notin T
  BY DEF U
<1>4. x # 0 /\ x - 1 \in Nat /\ x - 1 < n /\ x - 1 \in 0..n
  BY <1>3
<1>5. x - 1 \notin U
  BY <1>2, <1>3, <1>4
<1>6. x - 1 \in T
  BY <1>4, <1>5 DEF U
<1>7. (x - 1) + 1 \in T /\ (x - 1) + 1 = x
  BY <1>3, <1>4, <1>6
<1> QED
  BY <1>3, <1>7

\* f starts at b, and each value comes from the one before by the step of s.
Follows(f, b, s, n) == f[0] = b /\ \A i \in 1..n : f[i] = s[i][f[i - 1]]

\* A function on 0..n that starts at b and whose every value comes from the one
\* before exists.
LEMMA Recursion ==
  ASSUME NEW n \in Nat, NEW S, NEW b \in S, NEW s \in [1..n -> [S -> S]]
  PROVE  \E f \in [0..n -> S] : Follows(f, b, s, n)
<1> DEFINE Good(k, f) == /\ f \in [0..k -> S] /\ f[0] = b
                         /\ \A i \in 1..k : f[i] = s[i][f[i - 1]]
           T == {k \in Nat : k <= n => \E f : Good(k, f)}
<1>1. 0 \in T
  <2>1. Good(0, [i \in 0..0 |-> b])
    OBVIOUS
  <2> QED
    BY <2>1
<1>2. ASSUME NEW k \in Nat, k < n, k \in T PROVE k + 1 \in T
  <2>1. PICK f : Good(k, f)
    BY <1>2
  <2> DEFINE g == [i \in 0..(k + 1) |-> IF i <= k THEN f[i] ELSE s[k + 1][f[k]]]
  <2>2. k + 1 \in 1..n /\ k \in 0..k /\ k + 1 \in Nat
    BY <1>2
  <2>3. s[k + 1][f[k]] \in S
    BY <2>1, <2>2
  <2>4. g \in [0..(k + 1) -> S] /\ g[0] = b /\ \A i \in 0..k : g[i] = f[i]
    BY <2>1, <2>3
  <2>5. ASSUME NEW i \in 1..(k + 1) PROVE g[i] = s[i][g[i - 1]]
    <3>1. CASE i <= k
      BY <2>1, <3>1
    <3>2. CASE i = k + 1
      BY <2>1, <3>2
    <3> QED
      BY <3>1, <3>2
  <2> HIDE DEF g
  <2>6. Good(k + 1, g)
    BY <2>4, <2>5
  <2> HIDE DEF Good
  <2> QED
    BY <2>2, <2>6
<1> HIDE DEF T
<1>3. n \in T
  <2>1. \A i \in 0..n : i \in T
    BY <1>1, <1>2, Inductive
  <2> QED
    BY <2>1
<1>4. PICK f : Good(n, f)
  BY <1>3 DEF T
<1> QED
  BY <1>4 DEF Follows

----------------------------------------------------------------------------
(* Sums *)

\* Sums that start at 0 and grow by f are the totals of f.
LEMMA SumIs ==
  ASSUME NEW N \in Nat, NEW f \in [1..N -> Int], NEW F \in [0..N -> Int],
         F[0] = 0, \A i \in 1..N : F[i] = F[i - 1] + f[i], NEW n \in 0..N
  PROVE  Total(f, n) = F[n]
<1> DEFINE upto[i \in 0..n] == IF i = 0 THEN 0 ELSE upto[i - 1] + f[i]
           G == [i \in 0..n |-> F[i]]
<1>1. upto = CHOOSE g : g = [i \in 0..n |-> IF i = 0 THEN 0 ELSE g[i - 1] + f[i]]
  BY DEF upto
<1>2. Total(f, n) = upto[n]
  BY DEF Total
<1> HIDE DEF upto
<1>3. G = [i \in 0..n |-> IF i = 0 THEN 0 ELSE G[i - 1] + f[i]]
  <2>1. ASSUME NEW i \in 0..n
        PROVE  F[i] = IF i = 0 THEN 0 ELSE G[i - 1] + f[i]
    <3>1. CASE i # 0
      <4>1. i \in 1..N /\ i - 1 \in 0..n
        BY <3>1
      <4> QED
        BY <3>1, <4>1
    <3> QED
      BY <3>1
  <2> QED
    BY <2>1
<1> HIDE DEF G
<1>4. upto = [i \in 0..n |-> IF i = 0 THEN 0 ELSE upto[i - 1] + f[i]]
  BY <1>1, <1>3
<1> DEFINE T == {i \in Nat : i <= n => upto[i] = F[i]}
<1>5. 0 \in T
  BY <1>4
<1>6. ASSUME NEW i \in Nat, i < n, i \in T PROVE i + 1 \in T
  <2>1. i + 1 \in 1..N /\ i + 1 \in 0..n /\ (i + 1) - 1 = i /\ i + 1 # 0
    BY <1>6
  <2>2. upto[i + 1] = upto[i] + f[i + 1]
    BY <1>4, <2>1
  <2>3. F[i + 1] = F[i] + f[i + 1]
    BY <2>1
  <2>4. upto[i] = F[i]
    BY <1>6
  <2> QED
    BY <2>1, <2>2, <2>3, <2>4
<1> HIDE DEF T
<1>7. \A i \in 0..n : i \in T
  <2>1. n \in Nat
    OBVIOUS
  <2> QED
    BY <1>5, <1>6, <2>1, Inductive
<1>8. n \in T
  BY <1>7
<1> QED
  BY <1>2, <1>8 DEF T

\* The sum of no numbers, and of one more.
LEMMA Sums ==
  ASSUME NEW N \in Nat, NEW f \in [1..N -> Int]
  PROVE  /\ Total(f, 0) = 0
         /\ \A i \in 0..N : Total(f, i) \in Int
         /\ \A i \in 1..N : Total(f, i) = Total(f, i - 1) + f[i]
<1> DEFINE s == [i \in 1..N |-> [a \in Int |-> a + f[i]]]
<1>1. s \in [1..N -> [Int -> Int]] /\ 0 \in Int
  OBVIOUS
<1>2. \A i \in 1..N, a \in Int : s[i][a] = a + f[i]
  OBVIOUS
<1> HIDE DEF s
<1>3. PICK F \in [0..N -> Int] : F[0] = 0 /\ \A i \in 1..N : F[i] = s[i][F[i - 1]]
  <2>1. \E F \in [0..N -> Int] : Follows(F, 0, s, N)
    BY <1>1, Recursion
  <2> QED
    BY <2>1 DEF Follows
<1>4. \A i \in 1..N : F[i] = F[i - 1] + f[i]
  <2> SUFFICES ASSUME NEW i \in 1..N PROVE F[i] = F[i - 1] + f[i]
    OBVIOUS
  <2>1. i - 1 \in 0..N
    OBVIOUS
  <2> QED
    BY <1>2, <1>3, <2>1
<1>5. \A n \in 0..N : Total(f, n) = F[n]
  BY <1>3, <1>4, SumIs
<1>6. \A i \in 1..N : i \in 0..N /\ i - 1 \in 0..N
  OBVIOUS
<1> QED
  BY <1>3, <1>4, <1>5, <1>6

\* Sums of two functions that differ in one place differ as they do there.
LEMMA SumOneOff ==
  ASSUME NEW N \in Nat, NEW f \in [1..N -> Int], NEW g \in [1..N -> Int],
         NEW k \in 1..N, \A i \in 1..N : i # k => g[i] = f[i]
  PROVE  Total(g, N) = Total(f, N) - f[k] + g[k]
<1> DEFINE T == {n \in Nat : n <= N =>
                   Total(g, n) = Total(f, n) + (IF k <= n THEN g[k] - f[k] ELSE 0)}
<1>1. 0 \in T
  <2>1. Total(f, 0) = 0 /\ Total(g, 0) = 0 /\ ~(k <= 0)
    BY Sums
  <2> QED
    BY <2>1
<1>2. ASSUME NEW n \in Nat, n < N, n \in T PROVE n + 1 \in T
  <2>1. n + 1 \in 1..N /\ (n + 1) - 1 = n /\ n \in 0..N /\ n + 1 \in 0..N
    BY <1>2
  <2>2. /\ Total(f, n) \in Int /\ Total(g, n) \in Int
        /\ Total(f, n + 1) = Total(f, n) + f[n + 1]
        /\ Total(g, n + 1) = Total(g, n) + g[n + 1]
    BY <2>1, Sums
  <2>3. Total(g, n) = Total(f, n) + (IF k <= n THEN g[k] - f[k] ELSE 0)
    BY <1>2
  <2>4. f[n + 1] \in Int /\ g[n + 1] \in Int /\ f[k] \in Int /\ g[k] \in Int
    BY <2>1
  <2>5. CASE n + 1 = k
    <3>1. Total(g, n) = Total(f, n) /\ f[n + 1] = f[k] /\ g[n + 1] = g[k]
      BY <2>2, <2>3, <2>5
    <3>2. Total(g, n + 1) = Total(f, n + 1) + (g[k] - f[k])
      BY <2>2, <2>4, <3>1
    <3>3. k <= n + 1 /\ n + 1 \in Nat
      BY <2>5
    <3> QED
      BY <3>2, <3>3
  <2>6. CASE n + 1 # k
    <3>1. g[n + 1] = f[n + 1] /\ (k <= n + 1 <=> k <= n)
      BY <2>1, <2>6
    <3> QED
      BY <2>2, <2>3, <2>4, <3>1
  <2> QED
    BY <2>5, <2>6
<1> HIDE DEF T
<1>3. \A n \in 0..N : n \in T
  BY <1>1, <1>2, Inductive
<1>4. N \in T /\ Total(f, N) \in Int /\ f[k] \in Int /\ g[k] \in Int
  BY <1>3, Sums
<1> QED
  BY <1>4 DEF T

\* Sums of numbers that are not negative grow.
LEMMA SumGrows ==
  ASSUME NEW N \in Nat, NEW f \in [1..N -> Nat]
  PROVE  /\ \A n \in 0..N : Total(f, n) \in Nat
         /\ \A m, n \in 0..N : m <= n => Total(f, m) <= Total(f, n)
<1>1. f \in [1..N -> Int]
  OBVIOUS
<1> DEFINE T == {n \in Nat : n <= N => /\ Total(f, n) \in Nat
                                       /\ \A m \in 0..n : Total(f, m) <= Total(f, n)}
<1>2. 0 \in T
  BY <1>1, Sums
<1>3. ASSUME NEW n \in Nat, n < N, n \in T PROVE n + 1 \in T
  <2>1. n + 1 \in 1..N /\ (n + 1) - 1 = n
    BY <1>3
  <2>2. Total(f, n + 1) = Total(f, n) + f[n + 1] /\ f[n + 1] \in Nat
    BY <1>1, <2>1, Sums
  <2>3. Total(f, n) \in Nat /\ \A m \in 0..n : Total(f, m) <= Total(f, n)
    BY <1>3
  <2>4. ASSUME NEW m \in 0..(n + 1) PROVE Total(f, m) <= Total(f, n + 1)
    <3>1. CASE m \in 0..n
      <4>1. m \in 0..N
        BY <2>1, <3>1
      <4>2. Total(f, m) \in Int
        BY <1>1, <4>1, Sums
      <4> QED
        BY <2>2, <2>3, <3>1, <4>2
    <3>2. CASE m = n + 1
      BY <2>2, <2>3, <3>2
    <3> QED
      BY <3>1, <3>2
  <2> QED
    BY <2>1, <2>2, <2>3, <2>4
<1> HIDE DEF T
<1>4. \A n \in 0..N : n \in T
  BY <1>2, <1>3, Inductive
<1> QED
  BY <1>4 DEF T

\* The sum of zeros and ones counts the ones.
LEMMA SumOfBits ==
  ASSUME NEW N \in Nat, NEW f \in [1..N -> {0, 1}]
  PROVE  /\ Total(f, N) \in 0..N
         /\ (\A i \in 1..N : f[i] = 1) <=> Total(f, N) = N
<1>1. f \in [1..N -> Int]
  OBVIOUS
<1> DEFINE T == {n \in Nat : n <= N =>
                   /\ Total(f, n) \in 0..n
                   /\ (\A i \in 1..n : f[i] = 1) <=> Total(f, n) = n}
<1>2. 0 \in T
  BY <1>1, Sums
<1>3. ASSUME NEW n \in Nat, n < N, n \in T PROVE n + 1 \in T
  <2>1. n + 1 \in 1..N /\ (n + 1) - 1 = n
    BY <1>3
  <2>2. Total(f, n + 1) = Total(f, n) + f[n + 1] /\ f[n + 1] \in {0, 1}
    BY <1>1, <2>1, Sums
  <2>3. Total(f, n) \in 0..n /\ ((\A i \in 1..n : f[i] = 1) <=> Total(f, n) = n)
    BY <1>3
  <2>4. (\A i \in 1..(n + 1) : f[i] = 1)
          <=> (\A i \in 1..n : f[i] = 1) /\ f[n + 1] = 1
    <3>1. ASSUME NEW i \in 1..(n + 1) PROVE i \in 1..n \/ i = n + 1
      OBVIOUS
    <3>2. \A i \in 1..n : i \in 1..(n + 1)
      OBVIOUS
    <3>3. n + 1 \in 1..(n + 1)
      OBVIOUS
    <3> QED
      BY <3>1, <3>2, <3>3
  <2>5. Total(f, n + 1) \in 0..(n + 1)
    BY <2>2, <2>3
  <2>6. (\A i \in 1..(n + 1) : f[i] = 1) <=> Total(f, n + 1) = n + 1
    <3>1. Total(f, n + 1) = n + 1 <=> Total(f, n) = n /\ f[n + 1] = 1
      BY <2>2, <2>3
    <3> QED
      BY <2>3, <2>4, <3>1
  <2> QED
    BY <2>5, <2>6
<1> HIDE DEF T
<1>4. \A n \in 0..N : n \in T
  BY <1>2, <1>3, Inductive
<1>5. N \in T
  BY <1>4
<1> QED
  BY <1>5 DEF T

\* The least of some slots is one of them; the least of two numbers.
LEMMA MinOfSlots ==
  ASSUME NEW S, S \subseteq Nat, S # {}
  PROVE  Min(S) \in S /\ \A i \in S : Min(S) <= i
BY Smallest DEF Min

\* The lesser of two numbers.
LEMMA MinOfTwo ==
  ASSUME NEW a \in Int, NEW b \in Int
  PROVE  Min({a, b}) = IF a <= b THEN a ELSE b
BY DEF Min

----------------------------------------------------------------------------
(* Inventories *)

\* An inventory as TradeTypeOK has it, and one whose amounts may be anything.
Bag      == [1..MaxSlots -> [item : Items \cup {NoItem}, amount : Int, worn : BOOLEAN]]
\* An inventory as the game keeps it: a slot is free if and only if nothing is in it.
Valid(v) == /\ v \in [1..MaxSlots -> Slot]
            /\ \A i \in 1..MaxSlots : v[i].item = NoItem <=> v[i].amount = 0

\* The bounds are numbers, and the first slot exists.
LEMMA Numbers ==
  /\ MaxWeight \in Nat /\ MaxAmount \in Nat /\ MaxZeny \in Nat /\ DealSlots \in Nat
  /\ MaxSlots \in Nat /\ MaxSlots > 0 /\ MaxFortune \in Nat
  /\ NoItem \notin Items
BY BoundsAssumption, ItemsAssumption

\* An inventory of the right type, read as one whose amounts are any numbers.
LEMMA ValidBag ==
  ASSUME NEW v, Valid(v)
  PROVE  v \in Bag /\ \A i \in 1..MaxSlots : v[i].amount \in 0..MaxAmount
BY Numbers DEF Valid, Bag, Slot

\* What is in a slot.
LEMMA EachSlot ==
  ASSUME NEW v, Valid(v), NEW i \in 1..MaxSlots
  PROVE  /\ v[i].amount \in Nat /\ (v[i].item = NoItem <=> v[i].amount = 0)
         /\ v[i].item \in Items \cup {NoItem}
<1>1. v[i] \in Slot
  BY DEF Valid
<1>2. \A m \in 0..MaxAmount : m \in Nat
  BY Numbers
<1> QED
  BY <1>1, <1>2 DEF Valid, Slot

\* w is the slot in which n of x end up.
Goes(v, w, x, n, alike, max) ==
  /\ w \in 1..MaxSlots
  /\ v[w].item \in alike \cup {NoItem}
  /\ IF x \in Stackable /\ \E i \in 1..MaxSlots : v[i].item \in alike
     THEN v[w].item \in alike ELSE v[w].item = NoItem
  /\ v[w].amount + n <= max
  /\ \A i \in 1..MaxSlots : i # w => Put(v, x, n, alike)[i] = v[i]
  /\ IF v[w].item = NoItem
     THEN Put(v, x, n, alike)[w] = [item |-> x, amount |-> n, worn |-> FALSE]
     ELSE /\ Put(v, x, n, alike)[w].item = v[w].item
          /\ Put(v, x, n, alike)[w].amount = v[w].amount + n

\* Put changes the one slot it picks: it adds to what is there or fills it.
LEMMA PutGoes ==
  ASSUME NEW v \in Bag, NEW x \in Items \cup {NoItem}, NEW n \in Int, NEW alike,
         NEW max, Fits(v, x, n, alike, max)
  PROVE  /\ Put(v, x, n, alike) \in Bag
         /\ \E w \in 1..MaxSlots : Goes(v, w, x, n, alike, max)
<1> DEFINE w == Min(SlotFor(v, x, alike))
           S == SlotFor(v, x, alike)
<1>1. S \subseteq Nat /\ S # {} /\ \A i \in S : i \in 1..MaxSlots
  BY DEF Fits, SlotFor, Has
<1>2. w \in S
  <2> HIDE DEF S
  <2>1. Min(S) \in S
    BY <1>1, MinOfSlots
  <2> QED
    BY <2>1 DEF S
<1>3. /\ w \in 1..MaxSlots /\ v[w].amount + n <= max
      /\ v[w].item \in alike \cup {NoItem}
      /\ IF x \in Stackable /\ \E i \in 1..MaxSlots : v[i].item \in alike
         THEN v[w].item \in alike ELSE v[w].item = NoItem
  <2>1. w \in 1..MaxSlots
    BY <1>1, <1>2
  <2>2. v[w].amount + n <= max
    BY DEF Fits
  <2>3. CASE x \in Stackable /\ Has(v, alike) # {}
    <3>1. w \in Has(v, alike)
      BY <1>2, <2>3 DEF SlotFor
    <3> QED
      BY <2>1, <2>2, <2>3, <3>1 DEF Has
  <2>4. CASE ~(x \in Stackable /\ Has(v, alike) # {})
    <3>1. w \in Has(v, {NoItem})
      BY <1>2, <2>4 DEF SlotFor
    <3> QED
      BY <2>1, <2>2, <2>4, <3>1 DEF Has
  <2> QED
    BY <2>3, <2>4
<1> DEFINE u == Put(v, x, n, alike)
<1>4. u = [v EXCEPT ![w] = IF v[w].item = NoItem
                           THEN [item |-> x, amount |-> n, worn |-> FALSE]
                           ELSE [item |-> v[w].item, amount |-> v[w].amount + n, worn |-> v[w].worn]]
  BY DEF Put
<1> HIDE DEF w, u, S
<1>5. v[w] \in [item : Items \cup {NoItem}, amount : Int, worn : BOOLEAN]
  BY <1>3 DEF Bag
<1>6. u \in Bag
  BY <1>3, <1>4, <1>5 DEF Bag
<1>7. \A i \in 1..MaxSlots : i # w => u[i] = v[i]
  BY <1>3, <1>4 DEF Bag
<1>8. IF v[w].item = NoItem
      THEN u[w] = [item |-> x, amount |-> n, worn |-> FALSE]
      ELSE u[w].item = v[w].item /\ u[w].amount = v[w].amount + n
  <2>1. u[w] = IF v[w].item = NoItem
               THEN [item |-> x, amount |-> n, worn |-> FALSE]
               ELSE [item |-> v[w].item, amount |-> v[w].amount + n, worn |-> v[w].worn]
    BY <1>3, <1>4 DEF Bag
  <2> QED
    BY <1>5, <2>1
<1> QED
  BY <1>3, <1>6, <1>7, <1>8 DEF u, Goes

\* pc_additem keeps an inventory well formed.
LEMMA PutValid ==
  ASSUME NEW v, Valid(v), NEW x \in Items, NEW n \in Nat \ {0},
         NEW max \in 0..MaxAmount, Fits(v, x, n, Same(x), max)
  PROVE  Valid(Put(v, x, n, Same(x)))
<1> DEFINE u == Put(v, x, n, Same(x))
<1>1. v \in Bag /\ n \in Int /\ x \in Items \cup {NoItem}
  BY ValidBag
<1>2. u \in Bag
  BY <1>1, PutGoes
<1>3. PICK w \in 1..MaxSlots : Goes(v, w, x, n, Same(x), max)
  BY <1>1, PutGoes
<1>4. \A i \in 1..MaxSlots : i # w => u[i] = v[i]
  BY <1>3 DEF Goes
<1>5. /\ v[w].item \in {x, NoItem} /\ v[w].amount + n <= max
      /\ IF v[w].item = NoItem
         THEN u[w] = [item |-> x, amount |-> n, worn |-> FALSE]
         ELSE u[w].item = v[w].item /\ u[w].amount = v[w].amount + n
  BY <1>3 DEF Goes, Same
<1> HIDE DEF u
<1>6. v[w].amount \in 0..MaxAmount /\ (v[w].item = NoItem <=> v[w].amount = 0)
  BY ValidBag DEF Valid
<1>7. u[w].item \in Items /\ u[w].amount \in 1..MaxAmount
  BY <1>5, <1>6, Numbers
<1>8. ASSUME NEW i \in 1..MaxSlots
      PROVE  u[i] \in Slot /\ (u[i].item = NoItem <=> u[i].amount = 0)
  <2>1. CASE i = w
    <3>1. u[w] \in [item : Items \cup {NoItem}, amount : Int, worn : BOOLEAN]
      BY <1>2 DEF Bag
    <3> QED
      BY <1>7, <2>1, <3>1, Numbers DEF Slot
  <2>2. CASE i # w
    BY <1>4, <2>2 DEF Valid
  <2> QED
    BY <2>1, <2>2
<1> QED
  BY <1>2, <1>8 DEF Valid, Bag, u

\* Take changes one slot, and empties it when nothing is left.
LEMMA TakeBag ==
  ASSUME NEW v \in Bag, NEW i \in 1..MaxSlots, NEW n \in Int
  PROVE  /\ Take(v, i, n) \in Bag
         /\ \A j \in 1..MaxSlots : j # i => Take(v, i, n)[j] = v[j]
         /\ Take(v, i, n)[i].amount = v[i].amount - n
         /\ Take(v, i, n)[i].item = IF v[i].amount = n THEN NoItem ELSE v[i].item
<1>1. v[i] \in [item : Items \cup {NoItem}, amount : Int, worn : BOOLEAN]
  BY DEF Bag
<1>2. CASE v[i].amount = n
  BY <1>1, <1>2 DEF Take, Empty, Bag
<1>3. CASE v[i].amount # n
  BY <1>1, <1>3 DEF Take, Empty, Bag
<1> QED
  BY <1>2, <1>3

\* pc_delitem of no more than there is keeps an inventory well formed.
LEMMA TakeValid ==
  ASSUME NEW v, Valid(v), NEW i \in 1..MaxSlots, NEW n \in Nat, n <= v[i].amount
  PROVE  Valid(Take(v, i, n))
<1> DEFINE u == Take(v, i, n)
<1>1. v \in Bag /\ n \in Int /\ \A j \in 1..MaxSlots : v[j].amount \in 0..MaxAmount
  BY ValidBag
<1>2. /\ u \in Bag /\ \A j \in 1..MaxSlots : j # i => u[j] = v[j]
      /\ u[i].amount = v[i].amount - n
      /\ u[i].item = IF v[i].amount = n THEN NoItem ELSE v[i].item
  <2>1. v \in Bag /\ n \in Int
    BY <1>1
  <2> QED
    BY <2>1, TakeBag
<1> HIDE DEF u
<1>3. ASSUME NEW j \in 1..MaxSlots
      PROVE  u[j] \in Slot /\ (u[j].item = NoItem <=> u[j].amount = 0)
  <2>1. CASE j = i
    <3>1. u[i] \in [item : Items \cup {NoItem}, amount : Int, worn : BOOLEAN]
      BY <1>2 DEF Bag
    <3>2. u[i].amount \in 0..MaxAmount
      BY <1>1, <1>2, Numbers
    <3>3. u[i] \in Slot
      BY <3>1, <3>2 DEF Slot
    <3>4. u[i].item = NoItem <=> u[i].amount = 0
      BY <1>1, <1>2 DEF Valid
    <3> QED
      BY <2>1, <3>3, <3>4
  <2>2. CASE j # i
    BY <1>2, <2>2 DEF Valid
  <2> QED
    BY <2>1, <2>2
<1> QED
  BY <1>2, <1>3 DEF Valid, Bag, u

----------------------------------------------------------------------------
(* The deals of two players, one after the other *)

\* What p's k-th entry says: he gives q that much of what is in that slot.
Gift(p, q, k) == [from |-> p, to |-> q, index |-> deal[p].item[k].index,
                  amount |-> deal[p].item[k].amount]
\* What one player may give another.
Gifts == {d \in [from : Players, to : Players, index : 1..MaxSlots, amount : Nat] :
            d.from # d.to}
\* Everybody's inventory.
Bags  == [Players -> Bag]

\* The windows take turns in the list of deals.
LEMMA TakeTurns ==
  ASSUME deal \in [Players -> Deal], NEW p \in Players, NEW q \in Players, p # q,
         NEW k \in 1..DealSlots
  PROVE  /\ Gift(p, q, k) \in Gifts /\ Gift(q, p, k) \in Gifts
         /\ 2 * k - 1 \in 1..DealCount /\ Deals(p, q)[2 * k - 1] = Gift(p, q, k)
         /\ 2 * k \in 1..DealCount /\ Deals(p, q)[2 * k] = Gift(q, p, k)
<1>1. /\ 2 * k - 1 \in 1..DealCount /\ 2 * k \in 1..DealCount
      /\ (2 * k - 1) % 2 = 1 /\ ((2 * k - 1) + 1) \div 2 = k
      /\ (2 * k) % 2 = 0 /\ (2 * k + 1) \div 2 = k
  BY Numbers DEF DealCount
<1>2. Deals(p, q)[2 * k - 1] = Gift(p, q, k)
  BY <1>1 DEF Deals, Gift
<1>3. Deals(p, q)[2 * k] = Gift(q, p, k)
  BY <1>1 DEF Deals, Gift
<1>4. ASSUME NEW r \in Players
      PROVE  /\ deal[r].item[k].index \in 1..MaxSlots
             /\ deal[r].item[k].amount \in Nat
  <2>1. deal[r] \in Deal
    OBVIOUS
  <2>2. deal[r].item[k] \in [index : 1..MaxSlots, amount : 0..MaxAmount,
                             shown : Items \cup {NoItem}]
    BY <2>1 DEF Deal
  <2> QED
    BY <2>2, Numbers
<1>5. Gift(p, q, k) \in Gifts
  BY <1>4 DEF Gift, Gifts
<1>6. Gift(q, p, k) \in Gifts
  BY <1>4 DEF Gift, Gifts
<1> QED
  BY <1>1, <1>2, <1>3, <1>5, <1>6

\* Every deal is one of the two kinds.
LEMMA AllGifts ==
  ASSUME deal \in [Players -> Deal], NEW p \in Players, NEW q \in Players, p # q,
         NEW j \in 1..DealCount
  PROVE  Deals(p, q)[j] \in Gifts
<1> DEFINE k == (j + 1) \div 2
<1>1. k \in 1..DealSlots /\ (j = 2 * k - 1 \/ j = 2 * k)
  BY Numbers DEF DealCount
<1> HIDE DEF k
<1> QED
  BY <1>1, TakeTurns

\* A deal that pc_additem accepts changes the two inventories it names.
LEMMA HandDone ==
  ASSUME NEW inv \in Bags, NEW d \in Gifts, NEW x, x = inv[d.from][d.index].item,
         d.amount # 0, Adds(inv[d.to], x, d.amount)
  PROVE  /\ Hand(inv, d) \in Bags
         /\ Hand(inv, d)[d.to] = Put(inv[d.to], x, d.amount, Same(x))
         /\ Hand(inv, d)[d.from] = Take(inv[d.from], d.index, d.amount)
         /\ \A r \in Players : r \notin {d.from, d.to} => Hand(inv, d)[r] = inv[r]
<1>1. /\ d.from \in Players /\ d.to \in Players /\ d.from # d.to
      /\ d.index \in 1..MaxSlots /\ d.amount \in Int
      /\ inv[d.from] \in Bag /\ inv[d.to] \in Bag
  BY DEF Gifts, Bags
<1>2. x \in Items \cup {NoItem}
  BY <1>1 DEF Bag
<1>3. Put(inv[d.to], x, d.amount, Same(x)) \in Bag
  BY <1>1, <1>2, PutGoes DEF Adds
<1>4. Take(inv[d.from], d.index, d.amount) \in Bag
  BY <1>1, TakeBag
<1>5. Hand(inv, d) = [inv EXCEPT ![d.to] = Put(inv[d.to], x, d.amount, Same(x)),
                                 ![d.from] = Take(inv[d.from], d.index, d.amount)]
  BY <1>1 DEF Hand, Bags
<1> DEFINE put == Put(inv[d.to], x, d.amount, Same(x))
           taken == Take(inv[d.from], d.index, d.amount)
           new == Hand(inv, d)
<1>6. new = [inv EXCEPT ![d.to] = put, ![d.from] = taken]
  BY <1>5
<1>7. put \in Bag /\ taken \in Bag
  BY <1>3, <1>4
<1> HIDE DEF put, taken, new
<1>8. /\ new \in Bags /\ new[d.to] = put /\ new[d.from] = taken
      /\ \A r \in Players : r \notin {d.from, d.to} => new[r] = inv[r]
  BY <1>1, <1>6, <1>7 DEF Bags
<1> QED
  BY <1>8 DEF put, taken, new

\* An empty deal and one that pc_additem refuses change nothing.
LEMMA HandNot ==
  ASSUME NEW inv, NEW d,
         d.amount = 0 \/ ~Adds(inv[d.to], inv[d.from][d.index].item, d.amount)
  PROVE  Hand(inv, d) = inv
BY DEF Hand

\* A deal leaves inventories.
LEMMA HandBags ==
  ASSUME NEW inv \in Bags, NEW d \in Gifts
  PROVE  Hand(inv, d) \in Bags
BY HandDone, HandNot

\* The course of the inventories while the deals are done.
Course(h, p, q) ==
  /\ h[0] = inventory
  /\ \A j \in 1..DealCount : h[j] = Hand(h[j - 1], Deals(p, q)[j])

\* The recursive function Handed is the end of a course of inventories.
LEMMA HandCourse ==
  ASSUME deal \in [Players -> Deal], inventory \in Bags,
         NEW p \in Players, NEW q \in Players, p # q
  PROVE  \E h \in [0..DealCount -> Bags] :
           Course(h, p, q) /\ Handed(p, q) = h[DealCount]
<1> DEFINE all == Deals(p, q)
           s == [j \in 1..DealCount |-> [a \in Bags |-> Hand(a, all[j])]]
           inv[j \in 0..DealCount] == IF j = 0 THEN inventory
                                               ELSE Hand(inv[j - 1], all[j])
<1>1. inv = CHOOSE g : g = [j \in 0..DealCount |->
                              IF j = 0 THEN inventory ELSE Hand(g[j - 1], all[j])]
  BY DEF inv
<1>2. Handed(p, q) = inv[DealCount]
  BY DEF Handed
<1> HIDE DEF inv
<1>3. DealCount \in Nat
  BY Numbers DEF DealCount
<1>4. s \in [1..DealCount -> [Bags -> Bags]]
  <2>1. \A j \in 1..DealCount : all[j] \in Gifts
    BY AllGifts
  <2> HIDE DEF all
  <2> QED
    BY <2>1, HandBags
<1>5. \A j \in 1..DealCount, a \in Bags : s[j][a] = Hand(a, all[j])
  OBVIOUS
<1> HIDE DEF s, all
<1>6. PICK h \in [0..DealCount -> Bags] : Follows(h, inventory, s, DealCount)
  BY <1>3, <1>4, Recursion
<1>7. \A j \in 1..DealCount : j - 1 \in 0..DealCount
  BY <1>3
<1>8. h[0] = inventory /\ \A j \in 1..DealCount : h[j] = Hand(h[j - 1], all[j])
  BY <1>5, <1>6, <1>7 DEF Follows
<1>9. \E g : g = [j \in 0..DealCount |->
                    IF j = 0 THEN inventory ELSE Hand(g[j - 1], all[j])]
  <2>1. h = [j \in 0..DealCount |->
               IF j = 0 THEN inventory ELSE Hand(h[j - 1], all[j])]
    BY <1>3, <1>8
  <2> QED
    BY <2>1
<1>10. inv = [j \in 0..DealCount |->
                IF j = 0 THEN inventory ELSE Hand(inv[j - 1], all[j])]
  BY <1>1, <1>9
<1>11. \A j \in 0..DealCount : inv[j] = h[j]
  <2> DEFINE T == {j \in Nat : j <= DealCount => inv[j] = h[j]}
  <2>1. 0 \in T
    BY <1>3, <1>8, <1>10
  <2>2. ASSUME NEW j \in Nat, j < DealCount, j \in T PROVE j + 1 \in T
    <3> DEFINE k == j + 1
    <3>1. k \in 1..DealCount /\ k \in 0..DealCount /\ k - 1 = j /\ k # 0 /\ k \in Nat
      BY <1>3, <2>2
    <3> HIDE DEF k
    <3>2. inv[k] = Hand(inv[k - 1], all[k]) /\ h[k] = Hand(h[k - 1], all[k])
      BY <1>8, <1>10, <3>1
    <3>3. inv[k] = h[k]
      <4>1. inv[j] = h[j]
        BY <1>3, <2>2
      <4>2. inv[k - 1] = h[k - 1]
        BY <3>1, <4>1
      <4> HIDE DEF T
      <4> QED
        BY <3>2, <4>2, Zenon
    <3>4. k \in T
      BY <3>1, <3>3
    <3> QED
      BY <3>4 DEF k
  <2> HIDE DEF T
  <2>3. \A j \in 0..DealCount : j \in T
    BY <1>3, <2>1, <2>2, Inductive
  <2> QED
    BY <1>3, <2>3 DEF T
<1>12. DealCount \in 0..DealCount
  BY <1>3
<1> QED
  BY <1>2, <1>8, <1>11, <1>12 DEF Course, all

----------------------------------------------------------------------------
(* Types *)

\* The entries in use are the first of a window, and each names another slot.
Ordered(p) ==
  \A k \in 1..DealSlots : deal[p].item[k].amount > 0 =>
    \A l \in 1..DealSlots : l < k => /\ deal[p].item[l].amount > 0
                                     /\ deal[p].item[l].index # deal[p].item[k].index

\* The types, and windows in order; nobody is his own partner.
TypeInv == /\ TradeTypeOK
           /\ \A p \in Players : Ordered(p) /\ partner[p] # p

\* After a of p's deals his slots still hold what the others promise.
Ready(v, p, a) ==
  \A k \in 1..DealSlots : k > a /\ deal[p].item[k].amount > 0 =>
    LET i == deal[p].item[k].index IN
      v[i].item = inventory[p][i].item /\ v[i].amount >= deal[p].item[k].amount

\* The inventories after a deals of p and b of q.
Kept(inv, p, q, a, b) ==
  /\ inv \in Bags
  /\ \A r \in Players : Valid(inv[r])
  /\ \A r \in Players : r \notin {p, q} => inv[r] = inventory[r]
  /\ Ready(inv[p], p, a) /\ Ready(inv[q], q, b)

\* The fields of an entry of a window.
LEMMA EntryTypes ==
  ASSUME TradeTypeOK, NEW p \in Players, NEW k \in 1..DealSlots
  PROVE  /\ deal[p].item[k].index \in 1..MaxSlots
         /\ deal[p].item[k].amount \in 0..MaxAmount
         /\ deal[p].item[k].amount \in Nat
         /\ deal[p].item[k].shown \in Items \cup {NoItem}
         /\ deal[p].item \in [1..DealSlots -> [index : 1..MaxSlots, amount : 0..MaxAmount,
                                               shown : Items \cup {NoItem}]]
<1>1. deal[p] \in Deal
  BY DEF TradeTypeOK
<1>2. deal[p].item[k] \in [index : 1..MaxSlots, amount : 0..MaxAmount,
                           shown : Items \cup {NoItem}]
  BY <1>1 DEF Deal
<1>3. deal[p].item \in [1..DealSlots -> [index : 1..MaxSlots, amount : 0..MaxAmount,
                                         shown : Items \cup {NoItem}]]
  BY <1>1 DEF Deal
<1>4. \A m \in 0..MaxAmount : m \in Nat
  BY Numbers
<1> QED
  BY <1>2, <1>3, <1>4

\* The inventories the players have are well formed.
LEMMA HeldBags ==
  ASSUME TradeTypeOK
  PROVE  inventory \in Bags /\ \A r \in Players : Valid(inventory[r])
<1>1. ASSUME NEW r \in Players PROVE Valid(inventory[r])
  BY DEF TradeTypeOK, Valid
<1>2. inventory \in [Players -> [1..MaxSlots -> Slot]]
  BY DEF TradeTypeOK
<1> QED
  BY <1>1, <1>2, ValidBag DEF Bags

\* What impossible_trade_check lets pass is there.
LEMMA HasPromised ==
  ASSUME TradeTypeOK, NEW r \in Players, ~Impossible(r), NEW k \in 1..DealSlots
  PROVE  inventory[r][deal[r].item[k].index].amount >= deal[r].item[k].amount
<1> DEFINE i == deal[r].item[k].index
           n == deal[r].item[k].amount
           m == inventory[r][i].amount
<1>1. n \in Nat /\ m \in Nat
  BY EntryTypes, HeldBags, EachSlot
<1>2. ~(n > (IF inventory[r][i].worn THEN 0 ELSE m))
  BY DEF Impossible
<1> HIDE DEF i, n, m
<1>3. m >= n
  BY <1>1, <1>2
<1> QED
  BY <1>3 DEF i, n, m

\* A deal takes nothing from what later deals promise.
LEMMA HandKeeps ==
  ASSUME TypeInv, NEW p \in Players, NEW q \in Players, p # q,
         NEW a \in 0..(DealSlots - 1), NEW b, NEW inv, Kept(inv, p, q, a, b)
  PROVE  Kept(Hand(inv, Gift(p, q, a + 1)), p, q, a + 1, b)
<1> DEFINE k == a + 1
           d == Gift(p, q, k)
           i == deal[p].item[k].index
           n == deal[p].item[k].amount
           x == inv[p][i].item
           new == Hand(inv, d)
<1>1. k \in 1..DealSlots /\ k > a /\ a \in Nat
  BY Numbers
<1>2. TradeTypeOK /\ Ordered(p)
  BY DEF TypeInv
<1>3. i \in 1..MaxSlots /\ n \in Nat /\ d \in Gifts
  BY <1>1, <1>2, EntryTypes, TakeTurns DEF TradeTypeOK
<1>4. d.from = p /\ d.to = q /\ d.index = i /\ d.amount = n
  BY DEF Gift
<1>5. Ready(inv[p], p, k)
  <2>1. Ready(inv[p], p, a)
    BY DEF Kept
  <2>2. \A l \in 1..DealSlots : l > k => l > a
    BY <1>1, Numbers
  <2> HIDE DEF k
  <2> QED
    BY <2>1, <2>2 DEF Ready
<1>6. CASE n = 0 \/ ~Adds(inv[q], x, n)
  <2>1. new = inv
    BY <1>4, <1>6, HandNot
  <2> QED
    BY <1>5, <2>1 DEF Kept
<1>7. CASE n # 0 /\ Adds(inv[q], x, n)
  <2>1. /\ new \in Bags /\ new[q] = Put(inv[q], x, n, Same(x))
        /\ new[p] = Take(inv[p], i, n)
        /\ \A r \in Players : r \notin {p, q} => new[r] = inv[r]
    <3>1. inv \in Bags
      BY DEF Kept
    <3> HIDE DEF n, i, d
    <3>2. x = inv[d.from][d.index].item /\ d.amount # 0 /\ Adds(inv[d.to], x, d.amount)
      BY <1>4, <1>7
    <3> HIDE DEF x
    <3> QED
      BY <1>3, <1>4, <3>1, <3>2, HandDone
  <2>2. inv[p][i].amount >= n /\ Valid(inv[p]) /\ Valid(inv[q])
    <3>1. Ready(inv[p], p, a) /\ Valid(inv[p]) /\ Valid(inv[q])
      BY DEF Kept
    <3>2. n > 0
      BY <1>3, <1>7
    <3> QED
      BY <1>1, <3>1, <3>2 DEF Ready
  <2> HIDE DEF n, i, d, new, x
  <2>3. x \in Items
    <3>1. inv[p][i].amount \in 0..MaxAmount
      BY <1>3, <2>2, ValidBag
    <3>2. inv[p][i].amount # 0
      BY <1>3, <1>7, <2>2, <3>1, Numbers
    <3>3. inv[p][i].item # NoItem /\ inv[p][i].item \in Items \cup {NoItem}
      BY <1>3, <2>2, <3>2 DEF Valid, Slot
    <3> QED
      BY <3>3 DEF x
  <2>4. n \in Nat \ {0} /\ Limit[x] \in 0..MaxAmount /\ Fits(inv[q], x, n, Same(x), Limit[x])
    BY <1>3, <1>7, <2>3, BoundsAssumption DEF Adds
  <2>5. Valid(new[q])
    BY <2>1, <2>2, <2>3, <2>4, PutValid
  <2>6. Valid(new[p])
    BY <1>3, <2>1, <2>2, TakeValid
  <2>7. \A r \in Players : Valid(new[r])
    BY <2>1, <2>5, <2>6 DEF Kept
  <2>8. Ready(new[p], p, k)
    <3> SUFFICES ASSUME NEW l \in 1..DealSlots, l > k, deal[p].item[l].amount > 0
                 PROVE  new[p][deal[p].item[l].index] = inv[p][deal[p].item[l].index]
      BY <1>5 DEF Ready
    <3>1. deal[p].item[l].index # i
      BY <1>1, <1>2 DEF Ordered, i
    <3>2. deal[p].item[l].index \in 1..MaxSlots
      BY <1>2, EntryTypes
    <3>3. inv[p] \in Bag
      BY <2>2, ValidBag
    <3>4. \A j \in 1..MaxSlots : j # i => new[p][j] = inv[p][j]
      <4>1. n \in Int
        BY <1>3
      <4>2. \A j \in 1..MaxSlots : j # i => Take(inv[p], i, n)[j] = inv[p][j]
        <5> HIDE DEF i, n
        <5> QED
          BY <1>3, <3>3, <4>1, TakeBag
      <4> QED
        BY <2>1, <4>2
    <3> QED
      BY <3>1, <3>2, <3>4
  <2>9. Ready(new[q], q, b)
    <3>1. PICK w \in 1..MaxSlots : Goes(inv[q], w, x, n, Same(x), Limit[x])
      <4>1. inv[q] \in Bag
        BY <2>2, ValidBag
      <4> QED
        BY <2>3, <2>4, <4>1, PutGoes
    <3>2. /\ inv[q][w].item \in {x, NoItem}
          /\ \A j \in 1..MaxSlots : j # w => new[q][j] = inv[q][j]
          /\ inv[q][w].item # NoItem => /\ new[q][w].item = inv[q][w].item
                                        /\ new[q][w].amount = inv[q][w].amount + n
      BY <2>1, <3>1 DEF Goes, Same
    <3> SUFFICES ASSUME NEW l \in 1..DealSlots, l > b, deal[q].item[l].amount > 0
                 PROVE  LET j == deal[q].item[l].index IN
                          /\ new[q][j].item = inventory[q][j].item
                          /\ new[q][j].amount >= deal[q].item[l].amount
      BY DEF Ready
    <3> DEFINE j == deal[q].item[l].index
    <3>3. /\ j \in 1..MaxSlots /\ deal[q].item[l].amount \in Nat
          /\ inv[q][j].item = inventory[q][j].item
          /\ inv[q][j].amount >= deal[q].item[l].amount
      BY <1>2, EntryTypes DEF Kept, Ready
    <3>4. inv[q][j].amount \in Nat /\ inv[q][j].item # NoItem
      <4>1. inv[q][j].amount \in Nat
        BY <2>2, <3>3, EachSlot
      <4>2. inv[q][j].item = NoItem <=> inv[q][j].amount = 0
        BY <2>2, <3>3, EachSlot
      <4>3. deal[q].item[l].amount > 0
        OBVIOUS
      <4> HIDE DEF j
      <4> QED
        BY <3>3, <4>1, <4>2, <4>3
    <3>5. CASE j = w
      BY <3>2, <3>3, <3>4, <3>5, <2>4
    <3>6. CASE j # w
      BY <3>2, <3>3, <3>6
    <3> QED
      BY <3>5, <3>6
  <2> QED
    BY <2>1, <2>7, <2>8, <2>9 DEF Kept, k, d, new
<1> QED
  BY <1>6, <1>7

\* It does not matter which of the two is called p.
LEMMA KeptEither ==
  ASSUME NEW inv, NEW p, NEW q, NEW a, NEW b, Kept(inv, p, q, a, b)
  PROVE  Kept(inv, q, p, b, a)
BY DEF Kept

\* All along the course of the deals.
LEMMA CourseKeeps ==
  ASSUME TypeInv, NEW p \in Players, NEW q \in Players, p # q,
         ~Impossible(p), ~Impossible(q), NEW h, Course(h, p, q)
  PROVE  \A k \in 0..DealSlots : Kept(h[2 * k], p, q, k, k)
<1>1. TradeTypeOK /\ h[0] = inventory
  BY DEF TypeInv, Course
<1>2. ASSUME NEW r \in Players, ~Impossible(r)
      PROVE  Ready(inventory[r], r, 0)
  <2> SUFFICES ASSUME NEW k \in 1..DealSlots, deal[r].item[k].amount > 0
               PROVE  inventory[r][deal[r].item[k].index].amount >= deal[r].item[k].amount
    BY DEF Ready
  <2> QED
    BY <1>1, <1>2, HasPromised
<1> DEFINE T == {k \in Nat : k <= DealSlots => Kept(h[2 * k], p, q, k, k)}
<1>3. 0 \in T
  <2>1. Kept(inventory, p, q, 0, 0)
    BY <1>1, <1>2, HeldBags DEF Kept
  <2> QED
    BY <1>1, <2>1
<1>4. ASSUME NEW k \in Nat, k < DealSlots, k \in T PROVE k + 1 \in T
  <2> DEFINE l == k + 1
  <2>1. /\ l \in 1..DealSlots /\ l \in Nat /\ k \in 0..(DealSlots - 1)
        /\ (2 * l - 1) - 1 = 2 * k /\ 2 * l \in Int
    BY <1>4, Numbers
  <2>2. Kept(h[2 * k], p, q, k, k)
    BY <1>4, Numbers
  <2> HIDE DEF T
  <2>3. Kept(Hand(h[2 * k], Gift(p, q, l)), p, q, l, k)
    BY <2>1, <2>2, HandKeeps
  <2>4. Kept(Hand(Hand(h[2 * k], Gift(p, q, l)), Gift(q, p, l)), p, q, l, l)
    <3>1. Kept(Hand(h[2 * k], Gift(p, q, l)), q, p, k, l)
      BY <2>3, KeptEither
    <3>2. Kept(Hand(Hand(h[2 * k], Gift(p, q, l)), Gift(q, p, l)), q, p, l, l)
      BY <2>1, <3>1, HandKeeps
    <3> QED
      BY <3>2, KeptEither
  <2> HIDE DEF l
  <2>5. h[2 * l] = Hand(Hand(h[2 * k], Gift(p, q, l)), Gift(q, p, l))
    <3>1. /\ 2 * l - 1 \in 1..DealCount /\ Deals(p, q)[2 * l - 1] = Gift(p, q, l)
          /\ 2 * l \in 1..DealCount /\ Deals(p, q)[2 * l] = Gift(q, p, l)
      BY <1>1, <2>1, TakeTurns DEF TradeTypeOK
    <3>2. h[2 * l - 1] = Hand(h[(2 * l - 1) - 1], Deals(p, q)[2 * l - 1])
      BY <3>1 DEF Course
    <3>3. h[2 * l] = Hand(h[2 * l - 1], Deals(p, q)[2 * l])
      BY <3>1 DEF Course
    <3> QED
      BY <2>1, <3>1, <3>2, <3>3, Zenon
  <2>6. Kept(h[2 * l], p, q, l, l)
    BY <2>4, <2>5, Zenon
  <2>7. l \in T
    BY <2>1, <2>6 DEF T
  <2> QED
    BY <2>7 DEF l
<1> HIDE DEF T
<1>5. \A k \in 0..DealSlots : k \in T
  BY <1>3, <1>4, Numbers, Inductive
<1> QED
  BY <1>5, Numbers DEF T

\* After all the deals the inventories are well formed: no deal takes from a slot
\* what a later one promises of it.
LEMMA HandedKept ==
  ASSUME TypeInv, NEW p \in Players, NEW q \in Players, p # q,
         ~Impossible(p), ~Impossible(q)
  PROVE  Kept(Handed(p, q), p, q, DealSlots, DealSlots)
<1>1. TradeTypeOK /\ inventory \in Bags /\ deal \in [Players -> Deal]
  BY HeldBags DEF TypeInv, TradeTypeOK
<1>2. PICK h \in [0..DealCount -> Bags] : Course(h, p, q) /\ Handed(p, q) = h[DealCount]
  BY <1>1, HandCourse
<1>3. Kept(h[2 * DealSlots], p, q, DealSlots, DealSlots)
  <2>1. \A k \in 0..DealSlots : Kept(h[2 * k], p, q, k, k)
    BY <1>2, CourseKeeps
  <2> QED
    BY <2>1, Numbers
<1> QED
  BY <1>2, <1>3 DEF DealCount

----------------------------------------------------------------------------

\* The part of it about windows,
WindowInv ==
  /\ partner \in [Players -> Players \cup {Nobody}]
  /\ trading \in [Players -> BOOLEAN]
  /\ deal_locked \in [Players -> 0..2]
  /\ deal \in [Players -> Deal]
  /\ \A p \in Players : Ordered(p) /\ partner[p] # p
\* and the part about goods.
GoodsInv ==
  /\ inventory \in [Players -> [1..MaxSlots -> Slot]]
  /\ \A p \in Players : Valid(inventory[p])
  /\ zeny \in [Players -> 0..MaxZeny]

\* The types of the windows and those of the goods, apart.
LEMMA TypeParts ==
  /\ TypeInv <=> /\ WindowInv /\ GoodsInv
                 /\ here \subseteq Players /\ fortune \in 0..MaxFortune
  /\ TypeInv' <=> /\ WindowInv' /\ GoodsInv'
                  /\ here' \subseteq Players /\ fortune' \in 0..MaxFortune
BY DEF TypeInv, TradeTypeOK, WindowInv, GoodsInv, Valid

\* An empty window is a window, and uses no entry.
LEMMA NoDealOK ==
  NoDeal \in Deal /\ \A k \in 1..DealSlots : NoDeal.item[k].amount = 0
BY Numbers DEF NoDeal, Unused, Deal

\* Windows stay as they are, lose their partner or are closed.
LEMMA WindowsLess ==
  ASSUME WindowInv, trading' \in [Players -> BOOLEAN],
         DOMAIN partner' = Players, DOMAIN deal_locked' = Players, DOMAIN deal' = Players,
         partner' = [r \in Players |-> partner'[r]],
         deal_locked' = [r \in Players |-> deal_locked'[r]],
         deal' = [r \in Players |-> deal'[r]],
         \A r \in Players : /\ partner'[r] \in {partner[r], Nobody}
                            /\ deal_locked'[r] \in 0..2
                            /\ deal'[r] \in {deal[r], NoDeal}
  PROVE  WindowInv'
<1>1. ASSUME NEW r \in Players
      PROVE  /\ partner'[r] \in Players \cup {Nobody} /\ partner'[r] # r
             /\ deal'[r] \in Deal /\ Ordered(r)'
  <2>1. partner'[r] # r /\ partner'[r] \in Players \cup {Nobody}
    BY NobodyAssumption DEF WindowInv
  <2>2. CASE deal'[r] = deal[r]
    BY <2>1, <2>2 DEF WindowInv, Ordered
  <2>3. CASE deal'[r] = NoDeal
    <3>1. Ordered(r)'
      BY <2>3, NoDealOK DEF Ordered
    <3> QED
      BY <2>1, <2>3, <3>1, NoDealOK
  <2> QED
    BY <2>2, <2>3
<1> QED
  BY <1>1 DEF WindowInv

\* A cancelled trade leaves windows of the right type.
LEMMA CancelTypes ==
  ASSUME WindowInv, NEW p \in Players, Cancel(p)
  PROVE  WindowInv'
<1>1. CASE trading[p]
  <2> DEFINE S == {p} \cup IF There(p) THEN {partner[p]} ELSE {}
  <2>1. Close(S)
    BY <1>1 DEF Cancel
  <2> HIDE DEF S
  <2>2. /\ trading' \in [Players -> BOOLEAN]
        /\ \A r \in Players : /\ partner'[r] \in {partner[r], Nobody}
                              /\ deal_locked'[r] \in 0..2
                              /\ deal'[r] \in {deal[r], NoDeal}
    BY <2>1 DEF Close, WindowInv
  <2> QED
    BY <2>1, <2>2, WindowsLess DEF Close
<1>2. CASE ~trading[p]
  BY <1>2, WindowsLess DEF Cancel, Parted, WindowInv
<1> QED
  BY <1>1, <1>2

\* So does a request.
LEMMA RequestTypes ==
  ASSUME WindowInv, NEW p \in Players, NEW q \in Players, TradeRequest(p, q)
  PROVE  WindowInv'
<1>1. p # q /\ UNCHANGED <<trading, deal_locked, deal>>
  BY DEF TradeRequest
<1>2. Parted(p) \in [Players -> Players \cup {Nobody}] /\ \A r \in Players : Parted(p)[r] # r
  BY NobodyAssumption DEF Parted, WindowInv
<1>3. partner' = Parted(p) \/ partner' = [Parted(p) EXCEPT ![p] = q, ![q] = p]
  BY DEF TradeRequest
<1>4. /\ partner' \in [Players -> Players \cup {Nobody}]
      /\ \A r \in Players : partner'[r] # r
  BY <1>1, <1>2, <1>3
<1>5. \A r \in Players : Ordered(r)'
  BY <1>1 DEF Ordered, WindowInv
<1> QED
  BY <1>1, <1>4, <1>5 DEF WindowInv

\* So does its answer.
LEMMA AckTypes ==
  ASSUME WindowInv, here \subseteq Players, NEW p \in Players, NEW accept \in BOOLEAN,
         TradeAck(p, accept)
  PROVE  WindowInv'
<1> DEFINE q == partner[p]
           wrong == q \notin here \/ trading[q] \/ partner[q] # p
<1>1. CASE ~wrong /\ accept
  <2>1. q \in Players /\ Open(p, q)
    BY <1>1 DEF TradeAck
  <2>2. /\ trading' \in [Players -> BOOLEAN] /\ UNCHANGED <<partner, deal_locked>>
        /\ deal' = [deal EXCEPT ![p] = NoDeal, ![q] = NoDeal]
    BY <2>1 DEF Open, WindowInv
  <2> HIDE DEF q
  <2> QED
    BY <2>1, <2>2, WindowsLess DEF WindowInv
<1>2. CASE ~(~wrong /\ accept)
  <2>1. /\ UNCHANGED <<trading, deal>>
        /\ deal_locked' = [r \in Players |-> IF ~wrong /\ r \in {p, q}
                                             THEN 0 ELSE deal_locked[r]]
        /\ \/ partner' = [partner EXCEPT ![p] = Nobody]
           \/ partner' = [partner EXCEPT ![p] = Nobody, ![q] = Nobody]
    BY <1>2 DEF TradeAck
  <2> HIDE DEF q, wrong
  <2>2. \A r \in Players : /\ partner'[r] \in {partner[r], Nobody}
                           /\ deal_locked'[r] \in 0..2
                           /\ deal'[r] \in {deal[r], NoDeal}
    BY <2>1 DEF WindowInv
  <2>3. /\ partner' = [r \in Players |-> partner'[r]]
        /\ deal_locked' = [r \in Players |-> deal_locked'[r]]
        /\ deal' = [r \in Players |-> deal'[r]] /\ trading' \in [Players -> BOOLEAN]
    BY <2>1 DEF WindowInv
  <2> QED
    BY <2>2, <2>3, WindowsLess
<1> QED
  BY <1>1, <1>2

\* An item goes where it is already, or after all that is there.
LEMMA AddItemTypes ==
  ASSUME WindowInv, GoodsInv, NEW p \in Players, NEW i \in 1..MaxSlots,
         NEW n \in 1..MaxAmount, TradeAddItem(p, i, n)
  PROVE  WindowInv'
<1>1. CASE ~There(p)
  BY <1>1, CancelTypes DEF TradeAddItem
<1>2. CASE There(p)
  <2> DEFINE S   == DealSlot(p, i)
             k   == Min(S)
             x   == inventory[p][i].item
             had == deal[p].item[k].amount
             now == Min({had + n, inventory[p][i].amount})
             e   == [index |-> i, amount |-> now, shown |-> x]
  <2>1. /\ n <= inventory[p][i].amount /\ x \in Tradable /\ S # {}
        /\ deal' = [deal EXCEPT ![p].item[k] = e, ![p].weight = @ + Weight[x] * (now - had)]
        /\ UNCHANGED <<partner, trading, deal_locked>>
    BY <1>2 DEF TradeAddItem
  <2>2. x \in Items /\ Weight[x] \in Nat
    BY <2>1, ItemsAssumption, BoundsAssumption
  <2>3. deal[p] \in Deal /\ Ordered(p)
    BY DEF WindowInv
  <2>4. \A l \in 1..DealSlots : deal[p].item[l] \in [index  : 1..MaxSlots,
                                    amount : 0..MaxAmount, shown  : Items \cup {NoItem}]
    BY <2>3 DEF Deal
  <2>5. k \in 1..DealSlots /\ k \in S /\ \A l \in S : k <= l
    <3>1. S \subseteq Nat /\ S \subseteq 1..DealSlots
      BY Numbers DEF DealSlot
    <3> HIDE DEF S
    <3> QED
      BY <2>1, <3>1, MinOfSlots
  <2>6. inventory[p][i].amount \in 0..MaxAmount
    BY DEF GoodsInv, Slot
  <2>7. now \in 1..MaxAmount
    <3>1. had \in 0..MaxAmount
      BY <2>4, <2>5
    <3>2. had + n \in Int /\ inventory[p][i].amount \in Int
      BY <2>6, <3>1, Numbers
    <3>3. now = IF had + n <= inventory[p][i].amount THEN had + n
                                                     ELSE inventory[p][i].amount
      <4> HIDE DEF had
      <4> QED
        BY <3>2, MinOfTwo
    <3> HIDE DEF now, had
    <3> QED
      BY <2>1, <2>6, <3>1, <3>3, Numbers
  <2>8. had \in Int /\ now \in Int
    BY <2>4, <2>5, <2>7, Numbers
  <2>9. S = {l \in 1..DealSlots : deal[p].item[l].index = i \/ deal[p].item[l].amount = 0}
    BY DEF DealSlot
  <2> HIDE DEF S, k, had, now, x
  <2>10. e \in [index : 1..MaxSlots, amount : 0..MaxAmount, shown : Items \cup {NoItem}]
    BY <2>2, <2>7, Numbers
  <2>11. Weight[x] * (now - had) \in Int
    BY <2>2, <2>8
  <2> HIDE DEF e
  <2> DEFINE add == Weight[x] * (now - had)
  <2>12. /\ \A r \in Players : r # p => deal'[r] = deal[r]
         /\ deal'[p] = [item |-> [deal[p].item EXCEPT ![k] = e], zeny |-> deal[p].zeny,
                        weight |-> deal[p].weight + add]
         /\ deal' = [r \in Players |-> deal'[r]]
    <3> HIDE DEF add
    <3>1. deal' = [deal EXCEPT ![p].item[k] = e, ![p].weight = @ + add]
      BY <2>1 DEF add
    <3> QED
      BY <2>3, <3>1 DEF WindowInv, Deal
  <2> HIDE DEF add
  <2>13. deal'[p] \in Deal
    <3>1. add \in Int
      BY <2>11 DEF add
    <3>2. deal[p].weight + add \in Int
      BY <2>3, <3>1 DEF Deal
    <3>3. [deal[p].item EXCEPT ![k] = e]
            \in [1..DealSlots -> [index : 1..MaxSlots, amount : 0..MaxAmount,
                                  shown : Items \cup {NoItem}]]
      BY <2>3, <2>5, <2>10 DEF Deal
    <3> QED
      BY <2>3, <2>12, <3>2, <3>3 DEF Deal
  <2>14. /\ deal'[p].item[k] = e
         /\ \A l \in 1..DealSlots : l # k => deal'[p].item[l] = deal[p].item[l]
    <3>1. deal'[p].item = [deal[p].item EXCEPT ![k] = e]
      BY <2>12
    <3>2. deal[p].item \in [1..DealSlots -> [index : 1..MaxSlots, amount : 0..MaxAmount,
                                             shown : Items \cup {NoItem}]]
      BY <2>3 DEF Deal
    <3> QED
      BY <2>5, <3>1, <3>2
  <2>15. e.amount > 0 /\ e.index = i
    BY <2>7 DEF e
  <2>16. \A l \in 1..DealSlots : l < k => /\ deal[p].item[l].index # i
                                          /\ deal[p].item[l].amount > 0
    <3> SUFFICES ASSUME NEW l \in 1..DealSlots, l < k
                 PROVE  deal[p].item[l].index # i /\ deal[p].item[l].amount > 0
      OBVIOUS
    <3>1. l \notin S
      BY <2>5
    <3>2. deal[p].item[l].amount \in 0..MaxAmount
      BY <2>4
    <3> QED
      BY <2>9, <3>1, <3>2, Numbers
  <2>17. Ordered(p)'
    <3> SUFFICES ASSUME NEW m \in 1..DealSlots, deal'[p].item[m].amount > 0,
                        NEW l \in 1..DealSlots, l < m
                 PROVE  /\ deal'[p].item[l].amount > 0
                        /\ deal'[p].item[l].index # deal'[p].item[m].index
      BY DEF Ordered
    <3>1. CASE m = k
      BY <2>14, <2>15, <2>16, <3>1
    <3>2. CASE m # k
      <4>1. deal[p].item[m].amount > 0 /\ deal'[p].item[m] = deal[p].item[m]
        BY <2>14, <3>2
      <4>2. /\ deal[p].item[l].amount > 0
            /\ deal[p].item[l].index # deal[p].item[m].index
        BY <2>3, <4>1 DEF Ordered
      <4>3. CASE l # k
        BY <2>14, <4>1, <4>2, <4>3
      <4>4. CASE l = k
        <5>1. deal[p].item[k].index = i
          BY <2>5, <2>9, <4>2, <4>4
        <5> QED
          BY <2>14, <2>15, <4>1, <4>2, <4>4, <5>1
      <4> QED
        BY <4>3, <4>4
    <3> QED
      BY <3>1, <3>2
  <2>18. \A r \in Players : r # p => Ordered(r)'
    BY <2>12 DEF Ordered, WindowInv
  <2> QED
    BY <2>1, <2>12, <2>13, <2>17, <2>18 DEF WindowInv
<1> QED
  BY <1>1, <1>2

\* So does zeny put into a window.
LEMMA AddZenyTypes ==
  ASSUME WindowInv, NEW p \in Players, NEW z \in 0..MaxZeny, TradeAddZeny(p, z)
  PROVE  WindowInv'
<1>1. CASE Cancel(p)
  BY <1>1, CancelTypes
<1>2. CASE /\ deal' = [deal EXCEPT ![p].zeny = z]
           /\ UNCHANGED <<partner, trading, deal_locked>>
  <2>1. deal[p] \in Deal
    BY DEF WindowInv
  <2>2. deal' \in [Players -> Deal]
    BY <1>2, <2>1 DEF WindowInv, Deal
  <2>3. \A r \in Players : deal'[r].item = deal[r].item
    BY <1>2, <2>1 DEF WindowInv, Deal
  <2> QED
    BY <1>2, <2>2, <2>3 DEF WindowInv, Ordered
<1> QED
  BY <1>1, <1>2 DEF TradeAddZeny

\* So does OK.
LEMMA OkTypes ==
  ASSUME WindowInv, NEW p \in Players, TradeOk(p)
  PROVE  WindowInv'
<1>1. CASE Cancel(p)
  BY <1>1, CancelTypes
<1>2. CASE /\ deal_locked' = [deal_locked EXCEPT ![p] = 1]
           /\ UNCHANGED <<partner, trading, deal>>
  BY <1>2 DEF WindowInv, Ordered
<1> QED
  BY <1>1, <1>2 DEF TradeOk

----------------------------------------------------------------------------

\* What a commit does.
CommitSwaps(p, q) ==
  /\ ~Impossible(p) /\ ~Impossible(q) /\ Possible(p, q)
  /\ inventory' = Handed(p, q)
  /\ zeny' = [zeny EXCEPT ![p] = Zeny(p, deal[p].zeny, deal[q].zeny),
                          ![q] = Zeny(q, deal[q].zeny, deal[p].zeny)]
  /\ Close({p, q})

\* What trade_tradecommit may do: cancel, wait for the other, or carry out the trade.
LEMMA CommitCases ==
  ASSUME TypeInv, NEW p \in Players, TradeCommit(p)
  PROVE  /\ UNCHANGED <<here, fortune>>
         /\ \/ /\ UNCHANGED goods_vars
               /\ \/ Cancel(p)
                  \/ There(p) /\ Cancel(partner[p])
            \/ /\ deal_locked' = [deal_locked EXCEPT ![p] = 2]
               /\ UNCHANGED <<goods_vars, partner, trading, deal>>
            \/ There(p) /\ deal_locked[partner[p]] >= 2 /\ CommitSwaps(p, partner[p])
<1> DEFINE q == partner[p]
<1>1. There(p) => q \in Players
  BY DEF TypeInv, TradeTypeOK, There
<1>2. There(p) => (deal_locked[q] < 2 <=> ~(deal_locked[q] >= 2))
  <2>1. There(p) => deal_locked[q] \in 0..2
    BY <1>1 DEF TypeInv, TradeTypeOK
  <2> HIDE DEF q
  <2> QED
    BY <2>1
<1>3. CASE ~There(p)
  <2>1. Cancel(p) /\ UNCHANGED goods_vars /\ UNCHANGED <<here, fortune>>
    BY <1>3 DEF TradeCommit, goods_vars
  <2> QED
    BY <2>1
<1> DEFINE done == /\ deal_locked' = [deal_locked EXCEPT ![p] = 2]
                   /\ UNCHANGED <<goods_vars, partner, trading, deal>>
<1>4. CASE There(p) /\ deal_locked[q] < 2
  <2>1. done /\ UNCHANGED <<here, fortune>>
    BY <1>4 DEF TradeCommit
  <2> HIDE DEF done
  <2> QED
    BY <2>1 DEF done
<1>5. CASE /\ There(p) /\ deal_locked[q] >= 2
           /\ Impossible(p) \/ Impossible(q) \/ ~Possible(p, q)
  BY <1>2, <1>5 DEF TradeCommit
<1>6. CASE /\ There(p) /\ deal_locked[q] >= 2
           /\ ~(Impossible(p) \/ Impossible(q) \/ ~Possible(p, q))
  <2>1. /\ inventory' = Handed(p, q)
        /\ zeny' = [zeny EXCEPT ![p] = Zeny(p, deal[p].zeny, deal[q].zeny),
                                ![q] = Zeny(q, deal[q].zeny, deal[p].zeny)]
        /\ Close({p, q}) /\ UNCHANGED <<here, fortune>>
    BY <1>2, <1>6 DEF TradeCommit
  <2>2. CommitSwaps(p, q)
    BY <1>6, <2>1 DEF CommitSwaps
  <2> QED
    BY <1>6, <2>1, <2>2
<1> QED
  BY <1>2, <1>3, <1>4, <1>5, <1>6

\* The zeny of a possible trade moves in full: pc_getzeny's limit is not met.
LEMMA MoneyMoves ==
  ASSUME TradeTypeOK, NEW p \in Players, NEW q \in Players, Possible(p, q)
  PROVE  /\ Zeny(p, deal[p].zeny, deal[q].zeny) = zeny[p] - deal[p].zeny + deal[q].zeny
         /\ Zeny(q, deal[q].zeny, deal[p].zeny) = zeny[q] - deal[q].zeny + deal[p].zeny
         /\ zeny[p] - deal[p].zeny + deal[q].zeny \in 0..MaxZeny
         /\ zeny[q] - deal[q].zeny + deal[p].zeny \in 0..MaxZeny
<1> DEFINE a == deal[p].zeny
           b == deal[q].zeny
<1>1. zeny[p] \in 0..MaxZeny /\ zeny[q] \in 0..MaxZeny
  BY DEF TradeTypeOK
<1>2. a \in 0..MaxZeny /\ b \in 0..MaxZeny
  <2>1. deal[p] \in Deal /\ deal[q] \in Deal
    BY DEF TradeTypeOK
  <2> QED
    BY <2>1 DEF Deal
<1>3. a <= zeny[p] /\ zeny[q] <= MaxZeny - a /\ b <= zeny[q] /\ zeny[p] <= MaxZeny - b
  BY DEF Possible
<1> HIDE DEF a, b
<1>4. /\ zeny[p] - a + b \in 0..MaxZeny /\ zeny[q] - b + a \in 0..MaxZeny
      /\ zeny[p] - a + b \in Int /\ zeny[q] - b + a \in Int /\ MaxZeny \in Int
  BY <1>1, <1>2, <1>3, Numbers
<1>5. /\ Min({MaxZeny, zeny[p] - a + b}) = zeny[p] - a + b
      /\ Min({MaxZeny, zeny[q] - b + a}) = zeny[q] - b + a
  <2> DEFINE c == zeny[p] - a + b
             e == zeny[q] - b + a
  <2>1. c \in 0..MaxZeny /\ e \in 0..MaxZeny /\ c \in Int /\ e \in Int /\ MaxZeny \in Int
    BY <1>4
  <2> HIDE DEF c, e
  <2>2. Min({MaxZeny, c}) = c /\ Min({MaxZeny, e}) = e
    BY <2>1, MinOfTwo
  <2> QED
    BY <2>2 DEF c, e
<1> QED
  BY <1>4, <1>5 DEF Zeny, a, b

\* A commit keeps the types.
LEMMA CommitTypes ==
  ASSUME TypeInv, NEW p \in Players, TradeCommit(p)
  PROVE  TypeInv'
<1> DEFINE q == partner[p]
<1>1. TradeTypeOK /\ WindowInv /\ GoodsInv /\ here \subseteq Players /\ fortune \in 0..MaxFortune
  BY TypeParts DEF TypeInv
<1>2. UNCHANGED <<here, fortune>>
  BY CommitCases
<1>3. There(p) => q \in Players /\ p # q
  BY DEF TypeInv, TradeTypeOK, There
<1>4. UNCHANGED goods_vars => GoodsInv'
  BY <1>1 DEF goods_vars, GoodsInv
<1>5. CASE /\ UNCHANGED goods_vars
           /\ \/ Cancel(p)
              \/ There(p) /\ Cancel(q)
  <2>1. WindowInv'
    BY <1>1, <1>3, <1>5, CancelTypes
  <2> QED
    BY <1>1, <1>2, <1>4, <1>5, <2>1, TypeParts
<1>6. CASE /\ deal_locked' = [deal_locked EXCEPT ![p] = 2]
           /\ UNCHANGED <<goods_vars, partner, trading, deal>>
  <2>1. WindowInv'
    BY <1>1, <1>6 DEF WindowInv, Ordered
  <2> QED
    BY <1>1, <1>2, <1>4, <1>6, <2>1, TypeParts
<1>7. CASE There(p) /\ CommitSwaps(p, q)
  <2>1. q \in Players /\ p # q /\ Possible(p, q) /\ ~Impossible(p) /\ ~Impossible(q)
    BY <1>3, <1>7 DEF CommitSwaps
  <2>2. Kept(inventory', p, q, DealSlots, DealSlots)
    <3>1. Kept(Handed(p, q), p, q, DealSlots, DealSlots)
      BY <2>1, HandedKept
    <3>2. inventory' = Handed(p, q)
      BY <1>7 DEF CommitSwaps
    <3> QED
      BY <3>1, <3>2
  <2>3. zeny' \in [Players -> 0..MaxZeny]
    <3>1. zeny' = [zeny EXCEPT ![p] = zeny[p] - deal[p].zeny + deal[q].zeny,
                               ![q] = zeny[q] - deal[q].zeny + deal[p].zeny]
      BY <1>1, <1>7, <2>1, MoneyMoves DEF CommitSwaps
    <3>2. /\ zeny[p] - deal[p].zeny + deal[q].zeny \in 0..MaxZeny
          /\ zeny[q] - deal[q].zeny + deal[p].zeny \in 0..MaxZeny
      BY <1>1, <2>1, MoneyMoves
    <3> QED
      BY <1>1, <2>1, <3>1, <3>2 DEF GoodsInv
  <2>4. GoodsInv'
    <3>1. inventory' \in [Players -> [1..MaxSlots -> Slot]]
      BY <2>2 DEF Kept, Bags, Valid
    <3> QED
      BY <2>2, <2>3, <3>1 DEF GoodsInv, Kept, Valid
  <2>5. WindowInv'
    <3>1. Close({p, q})
      BY <1>7 DEF CommitSwaps
    <3> DEFINE S == {p, q}
    <3> HIDE DEF S
    <3>2. /\ trading' \in [Players -> BOOLEAN]
          /\ \A r \in Players : /\ partner'[r] \in {partner[r], Nobody}
                                /\ deal_locked'[r] \in 0..2
                                /\ deal'[r] \in {deal[r], NoDeal}
      BY <1>1, <3>1 DEF Close, WindowInv
    <3> QED
      BY <1>1, <3>1, <3>2, WindowsLess DEF Close
  <2> QED
    BY <1>1, <1>2, <2>4, <2>5, TypeParts
<1> QED
  BY <1>5, <1>6, <1>7, CommitCases

\* So does whatever else happens to players.
LEMMA FortuneTypes ==
  ASSUME TypeInv, NEW p \in Players, Chance(p)
  PROVE  TypeInv'
<1>1. TradeTypeOK /\ WindowInv /\ GoodsInv /\ here \subseteq Players /\ fortune \in 0..MaxFortune
  BY TypeParts DEF TypeInv
<1>2. Happens => fortune' \in 0..MaxFortune
  BY <1>1, Numbers DEF Happens
<1>3. UNCHANGED window_vars => WindowInv'
  BY <1>1 DEF WindowInv, Ordered, window_vars
<1>4. ASSUME NEW v, Valid(v), inventory' = [inventory EXCEPT ![p] = v], UNCHANGED zeny
      PROVE  GoodsInv'
  BY <1>1, <1>4 DEF GoodsInv, Valid
<1>5. ASSUME NEW z \in 0..MaxZeny, zeny' = [zeny EXCEPT ![p] = z], UNCHANGED inventory
      PROVE  GoodsInv'
  BY <1>1, <1>5 DEF GoodsInv, Valid
<1>6. Valid(inventory[p]) /\ zeny[p] \in 0..MaxZeny
  BY <1>1 DEF GoodsInv
<1>7. ASSUME NEW x \in Found, Finds(p, x) PROVE TypeInv'
  <2>1. x \in Items /\ Limit[x] \in 0..MaxAmount
    BY ItemsAssumption, BoundsAssumption
  <2>2. Fits(inventory[p], x, 1, Same(x), Limit[x])
    BY <1>7 DEF Finds, Adds
  <2>3. Valid(Put(inventory[p], x, 1, Same(x)))
    BY <1>6, <2>1, <2>2, PutValid
  <2>4. inventory' = [inventory EXCEPT ![p] = Put(inventory[p], x, 1, Same(x))]
    BY <1>7 DEF Finds
  <2>5. GoodsInv'
    BY <1>4, <1>7, <2>3, <2>4 DEF Finds
  <2> QED
    BY <1>1, <1>2, <1>3, <1>7, <2>5, TypeParts DEF Finds
<1>8. ASSUME NEW i \in 1..MaxSlots, UsesUp(p, i) PROVE TypeInv'
  <2>1. inventory[p][i].item # NoItem
    BY <1>8, ItemsAssumption DEF UsesUp
  <2>2. 1 <= inventory[p][i].amount
    <3>1. inventory[p][i].amount \in 0..MaxAmount /\ inventory[p][i].amount # 0
      BY <1>6, <2>1, ValidBag DEF Valid
    <3> QED
      BY <3>1, Numbers
  <2>3. Valid(Take(inventory[p], i, 1))
    BY <1>6, <2>2, TakeValid
  <2>4. inventory' = [inventory EXCEPT ![p] = Take(inventory[p], i, 1)]
    BY <1>8 DEF UsesUp
  <2>5. GoodsInv'
    BY <1>4, <1>8, <2>3, <2>4 DEF UsesUp
  <2> QED
    BY <1>1, <1>2, <1>3, <1>8, <2>5, TypeParts DEF UsesUp
<1>9. ASSUME NEW i \in 1..MaxSlots, Wears(p, i) PROVE TypeInv'
  <2> DEFINE v == [inventory[p] EXCEPT ![i].worn = ~inventory[p][i].worn]
  <2>1. inventory' = [inventory EXCEPT ![p] = v]
    BY <1>9 DEF Wears
  <2>2. inventory[p][i] \in Slot
    BY <1>6 DEF Valid
  <2>3. Valid(v)
    BY <1>6, <2>2 DEF Valid, Slot
  <2>4. GoodsInv'
    BY <1>4, <1>9, <2>1, <2>3 DEF Wears
  <2> QED
    BY <1>1, <1>2, <1>3, <1>9, <2>4, TypeParts DEF Wears
<1>10. CASE Spends(p) \/ Earns(p)
  <2>1. zeny[p] > 0 => zeny[p] - 1 \in 0..MaxZeny
    BY <1>6, Numbers
  <2>2. Min({zeny[p] + 1, MaxZeny}) \in 0..MaxZeny
    <3>1. zeny[p] + 1 \in Int /\ MaxZeny \in Int
      BY <1>6, Numbers
    <3>2. Min({zeny[p] + 1, MaxZeny}) = IF zeny[p] + 1 <= MaxZeny THEN zeny[p] + 1
                                                                  ELSE MaxZeny
      BY <3>1, MinOfTwo
    <3> QED
      BY <1>6, <3>2, Numbers
  <2>3. GoodsInv'
    BY <1>5, <1>10, <2>1, <2>2 DEF Spends, Earns
  <2> QED
    BY <1>1, <1>2, <1>3, <1>10, <2>3, TypeParts DEF Spends, Earns
<1>11. CASE Leaves(p)
  <2>1. here' \subseteq Players /\ UNCHANGED goods_vars /\ fortune' \in 0..MaxFortune
    BY <1>1, <1>2, <1>11 DEF Leaves
  <2>2. GoodsInv'
    BY <1>1, <2>1 DEF GoodsInv, goods_vars
  <2>3. WindowInv'
    <3>1. CASE partner[p] # Nobody /\ trading[p]
      BY <1>1, <1>11, <3>1, CancelTypes DEF Leaves
    <3>2. CASE ~(partner[p] # Nobody /\ trading[p])
      <4>1. /\ partner' = Parted(p)
            /\ trading' = [trading EXCEPT ![p] = FALSE]
            /\ deal_locked' = [deal_locked EXCEPT ![p] = 0]
            /\ deal' = [deal EXCEPT ![p] = NoDeal]
        BY <1>11, <3>2 DEF Leaves
      <4>2. /\ trading' \in [Players -> BOOLEAN]
            /\ \A r \in Players : /\ partner'[r] \in {partner[r], Nobody}
                                  /\ deal_locked'[r] \in 0..2
                                  /\ deal'[r] \in {deal[r], NoDeal}
        BY <1>1, <4>1 DEF WindowInv, Parted
      <4> QED
        BY <1>1, <4>1, <4>2, WindowsLess DEF WindowInv, Parted
    <3> QED
      BY <3>1, <3>2
  <2> QED
    BY <2>1, <2>2, <2>3, TypeParts
<1>12. CASE Enters(p)
  <2>1. here' \subseteq Players /\ UNCHANGED <<goods_vars, window_vars, fortune>>
    BY <1>1, <1>12 DEF Enters
  <2>2. GoodsInv'
    BY <1>1, <2>1 DEF GoodsInv, goods_vars
  <2> QED
    BY <1>1, <1>3, <2>1, <2>2, TypeParts
<1> QED
  BY <1>7, <1>8, <1>9, <1>10, <1>11, <1>12 DEF Chance

\* So does every step.
LEMMA TypeStep ==
  ASSUME TypeInv, [TradeNext]_trade_vars
  PROVE  TypeInv'
<1>1. WindowInv /\ GoodsInv /\ here \subseteq Players /\ fortune \in 0..MaxFortune
  BY TypeParts
<1>2. ASSUME UNCHANGED <<here, fortune, goods_vars>>, WindowInv'
      PROVE  TypeInv'
  <2>1. GoodsInv'
    BY <1>1, <1>2 DEF GoodsInv, goods_vars
  <2> QED
    BY <1>1, <1>2, <2>1, TypeParts
<1>3. ASSUME NEW p \in Players, Window(p) PROVE TypeInv'
  <2>1. ASSUME NEW q \in Players, TradeRequest(p, q) PROVE TypeInv'
    BY <1>1, <1>2, <2>1, RequestTypes DEF TradeRequest, goods_vars
  <2>2. ASSUME NEW accept \in BOOLEAN, TradeAck(p, accept) PROVE TypeInv'
    BY <1>1, <1>2, <2>2, AckTypes DEF TradeAck, goods_vars
  <2>3. ASSUME NEW i \in 1..MaxSlots, NEW n \in 1..MaxAmount, TradeAddItem(p, i, n)
        PROVE  TypeInv'
    BY <1>1, <1>2, <2>3, AddItemTypes DEF TradeAddItem, goods_vars
  <2>4. ASSUME NEW z \in 0..MaxZeny, TradeAddZeny(p, z) PROVE TypeInv'
    BY <1>1, <1>2, <2>4, AddZenyTypes DEF TradeAddZeny, goods_vars
  <2>5. CASE TradeOk(p)
    BY <1>1, <1>2, <2>5, OkTypes DEF TradeOk, goods_vars
  <2>6. CASE TradeCancel(p)
    BY <1>1, <1>2, <2>6, CancelTypes DEF TradeCancel, goods_vars
  <2>7. CASE TradeCommit(p)
    BY <2>7, CommitTypes
  <2> QED
    BY <1>3, <2>1, <2>2, <2>3, <2>4, <2>5, <2>6, <2>7 DEF Window
<1>4. ASSUME NEW p \in Players, Chance(p) PROVE TypeInv'
  BY <1>4, FortuneTypes
<1>5. CASE UNCHANGED trade_vars
  <2>1. WindowInv'
    BY <1>1, <1>5 DEF WindowInv, Ordered, trade_vars
  <2> QED
    BY <1>2, <1>5, <2>1 DEF trade_vars, goods_vars
<1> QED
  BY <1>3, <1>4, <1>5 DEF TradeNext

\* And they hold at first.
LEMMA TypeStart ==
  ASSUME TradeInit
  PROVE  TypeInv
<1>1. here \subseteq Players /\ fortune \in 0..MaxFortune
  BY Numbers DEF TradeInit
<1>2. GoodsInv
  BY StartAssumption DEF TradeInit, GoodsInv, Valid
<1>3. WindowInv
  BY NoDealOK, NobodyAssumption DEF TradeInit, WindowInv, Ordered
<1> QED
  BY <1>1, <1>2, <1>3, TypeParts

\* Inventories, zeny and windows keep their types: no trade makes an amount negative,
\* overfills a slot or leaves one that is occupied by nothing (trade_tradecommit,
\* pc_additem, pc_delitem, pc_payzeny, pc_getzeny).
THEOREM TradeTypes == TradeSpec => []TradeTypeOK
<1>1. TypeInv => TradeTypeOK
  BY DEF TypeInv
<1> QED
  BY <1>1, TypeStart, TypeStep, PTL DEF TradeSpec

----------------------------------------------------------------------------
(* What goods are worth, whatever an item is worth *)

\* What a piece of an item may be worth.
Values == [Items -> Nat]
\* What is in each slot is worth that much,
Pieces(v, val) == [i \in 1..MaxSlots |-> IF v[i].item = NoItem THEN 0
                                         ELSE val[v[i].item] * v[i].amount]
\* and all together that.
Worth(v, val)  == Total(Pieces(v, val), MaxSlots)

\* Only pieces of g are worth anything: worth counts them.
Of(g) == [x \in Items |-> IF x = g THEN 1 ELSE 0]

\* What a player carries weighs what it is worth when worth is weight.
LEMMA LoadIsWorth ==
  ASSUME NEW v
  PROVE  Load(v) = Worth(v, Weight)
BY DEF Load, Worth, Pieces

\* Amounts times worth, for sums and differences.
LEMMA Product ==
  ASSUME NEW a \in Nat, NEW m \in Nat, NEW n \in Nat
  PROVE  /\ a * m \in Nat /\ a * (m + n) = a * m + a * n
         /\ n <= m => m - n \in Nat /\ a * (m - n) = a * m - a * n
<1>1. a * m \in Nat /\ a * (m + n) = a * m + a * n
  OBVIOUS
<1>2. ASSUME n <= m PROVE m - n \in Nat /\ a * (m - n) = a * m - a * n
  BY <1>2
<1> QED
  BY <1>1, <1>2

\* Worth is a number.
LEMMA PiecesNat ==
  ASSUME NEW v, Valid(v), NEW val \in Values
  PROVE  /\ Pieces(v, val) \in [1..MaxSlots -> Nat] /\ Pieces(v, val) \in [1..MaxSlots -> Int]
         /\ Worth(v, val) \in Nat
<1>1. ASSUME NEW i \in 1..MaxSlots
      PROVE  (IF v[i].item = NoItem THEN 0 ELSE val[v[i].item] * v[i].amount) \in Nat
  <2>1. CASE v[i].item # NoItem
    <3>1. v[i].item \in Items /\ v[i].amount \in Nat
      BY <2>1, ValidBag, Numbers DEF Bag
    <3>2. val[v[i].item] \in Nat
      BY <3>1 DEF Values
    <3> QED
      BY <2>1, <3>1, <3>2, Product
  <2> QED
    BY <2>1
<1>2. Pieces(v, val) \in [1..MaxSlots -> Nat]
  BY <1>1 DEF Pieces
<1>3. Pieces(v, val) \in [1..MaxSlots -> Int]
  BY <1>2
<1>4. Worth(v, val) \in Nat
  <2> DEFINE f == Pieces(v, val)
  <2> HIDE DEF f
  <2>1. f \in [1..MaxSlots -> Nat]
    BY <1>2 DEF f
  <2>2. Total(f, MaxSlots) \in Nat
    BY <2>1, Numbers, SumGrows
  <2> QED
    BY <2>2 DEF f, Worth
<1> QED
  BY <1>2, <1>3, <1>4

\* How many of an item there are is what they are worth if only it is worth 1.
LEMMA CountIsWorth ==
  ASSUME NEW v, Valid(v), NEW g \in Items
  PROVE  Of(g) \in Values /\ Count(v, g) = Worth(v, Of(g))
<1>1. Of(g) \in Values
  BY DEF Of, Values
<1>2. ASSUME NEW i \in 1..MaxSlots
      PROVE  (IF v[i].item = g THEN v[i].amount ELSE 0)
             = (IF v[i].item = NoItem THEN 0 ELSE Of(g)[v[i].item] * v[i].amount)
  <2>1. CASE v[i].item = NoItem
    BY <2>1, Numbers
  <2>2. CASE v[i].item # NoItem
    <3>1. v[i].item \in Items /\ v[i].amount \in Nat
      BY <2>2, ValidBag, Numbers DEF Bag
    <3>2. Of(g)[v[i].item] = IF v[i].item = g THEN 1 ELSE 0
      BY <3>1 DEF Of
    <3> QED
      BY <2>2, <3>1, <3>2
  <2> QED
    BY <2>1, <2>2
<1>3. [i \in 1..MaxSlots |-> IF v[i].item = g THEN v[i].amount ELSE 0] = Pieces(v, Of(g))
  BY <1>2 DEF Pieces
<1> QED
  BY <1>1, <1>3 DEF Count, Worth

\* Inventories that differ in one slot differ in worth as that slot does.
LEMMA WorthOneOff ==
  ASSUME NEW v, Valid(v), NEW u, Valid(u), NEW val \in Values, NEW w \in 1..MaxSlots,
         \A i \in 1..MaxSlots : i # w => u[i].item = v[i].item /\ u[i].amount = v[i].amount
  PROVE  /\ Worth(u, val) = Worth(v, val) - Pieces(v, val)[w] + Pieces(u, val)[w]
         /\ Worth(u, val) \in Nat /\ Worth(v, val) \in Nat
         /\ Pieces(v, val)[w] \in Nat /\ Pieces(u, val)[w] \in Nat
<1> DEFINE f == Pieces(v, val)
           g == Pieces(u, val)
<1>1. \A i \in 1..MaxSlots : i # w => g[i] = f[i]
  BY DEF Pieces
<1>2. f \in [1..MaxSlots -> Int] /\ g \in [1..MaxSlots -> Int] /\ MaxSlots \in Nat
  BY PiecesNat, Numbers
<1>3. f \in [1..MaxSlots -> Nat] /\ g \in [1..MaxSlots -> Nat]
  BY PiecesNat
<1>4. Worth(u, val) \in Nat /\ Worth(v, val) \in Nat
  BY PiecesNat
<1> HIDE DEF f, g
<1>5. Total(g, MaxSlots) = Total(f, MaxSlots) - f[w] + g[w]
  BY <1>1, <1>2, SumOneOff
<1>6. f[w] \in Nat /\ g[w] \in Nat
  BY <1>3
<1> QED
  BY <1>4, <1>5, <1>6 DEF f, g, Worth

\* Put adds the worth of what is added.
LEMMA WorthPut ==
  ASSUME NEW v, Valid(v), NEW val \in Values, NEW x \in Items, NEW n \in Nat \ {0},
         NEW max \in 0..MaxAmount, Fits(v, x, n, Same(x), max)
  PROVE  /\ Worth(Put(v, x, n, Same(x)), val) = Worth(v, val) + val[x] * n
         /\ val[x] * n \in Nat
<1> DEFINE u == Put(v, x, n, Same(x))
<1>1. v \in Bag /\ n \in Int /\ x \in Items \cup {NoItem} /\ val[x] \in Nat
  BY ValidBag DEF Values
<1>2. PICK w \in 1..MaxSlots : Goes(v, w, x, n, Same(x), max)
  BY <1>1, PutGoes
<1>3. /\ \A i \in 1..MaxSlots : i # w => u[i] = v[i]
      /\ v[w].item \in {x, NoItem}
      /\ IF v[w].item = NoItem
         THEN u[w] = [item |-> x, amount |-> n, worn |-> FALSE]
         ELSE u[w].item = v[w].item /\ u[w].amount = v[w].amount + n
  BY <1>2 DEF Goes, Same
<1>4. Valid(u)
  BY PutValid
<1>5. v[w].amount \in Nat
  BY ValidBag, Numbers
<1> HIDE DEF u
<1>6. u[w].item = x /\ x # NoItem
  BY <1>3, Numbers
<1>7. /\ Worth(u, val) = Worth(v, val) - Pieces(v, val)[w] + Pieces(u, val)[w]
      /\ Worth(u, val) \in Nat /\ Worth(v, val) \in Nat
      /\ Pieces(v, val)[w] \in Nat /\ Pieces(u, val)[w] \in Nat
  BY <1>3, <1>4, WorthOneOff
<1>8. Pieces(u, val)[w] = val[x] * u[w].amount
  BY <1>6 DEF Pieces
<1>9. val[x] * n \in Nat
  BY <1>1, Product
<1>10. CASE v[w].item = NoItem
  <2>1. Pieces(v, val)[w] = 0 /\ u[w].amount = n
    BY <1>3, <1>10 DEF Pieces
  <2> QED
    BY <1>7, <1>8, <1>9, <2>1 DEF u
<1>11. CASE v[w].item # NoItem
  <2>1. /\ Pieces(v, val)[w] = val[x] * v[w].amount
        /\ u[w].amount = v[w].amount + n
    BY <1>3, <1>11 DEF Pieces
  <2>2. val[x] * (v[w].amount + n) = val[x] * v[w].amount + val[x] * n
    BY <1>1, <1>5, Product
  <2>3. Pieces(u, val)[w] = Pieces(v, val)[w] + val[x] * n
    BY <1>8, <2>1, <2>2
  <2> QED
    BY <1>7, <1>9, <2>3 DEF u
<1> QED
  BY <1>10, <1>11

\* Take takes the worth of what is taken.
LEMMA WorthTake ==
  ASSUME NEW v, Valid(v), NEW val \in Values, NEW i \in 1..MaxSlots,
         NEW n \in Nat \ {0}, n <= v[i].amount
  PROVE  /\ Worth(Take(v, i, n), val) = Worth(v, val) - val[v[i].item] * n
         /\ v[i].item \in Items /\ val[v[i].item] * n \in Nat
         /\ Worth(Take(v, i, n), val) \in Nat
<1> DEFINE u == Take(v, i, n)
           x == v[i].item
           m == v[i].amount
<1>1. v \in Bag /\ n \in Int /\ m \in Nat
  BY ValidBag, Numbers
<1>2. x \in Items /\ val[x] \in Nat
  <2>1. x # NoItem
    BY <1>1 DEF Valid
  <2> QED
    BY <1>1, <2>1 DEF Bag, Values
<1>3. /\ \A j \in 1..MaxSlots : j # i => u[j] = v[j]
      /\ u[i].amount = m - n
      /\ u[i].item = IF m = n THEN NoItem ELSE x
  BY <1>1, TakeBag
<1>4. Valid(u)
  <2>1. n \in Nat
    OBVIOUS
  <2> QED
    BY <2>1, TakeValid
<1> HIDE DEF u
<1>5. /\ Worth(u, val) = Worth(v, val) - Pieces(v, val)[i] + Pieces(u, val)[i]
      /\ Worth(u, val) \in Nat /\ Worth(v, val) \in Nat
      /\ Pieces(v, val)[i] \in Nat /\ Pieces(u, val)[i] \in Nat
  BY <1>3, <1>4, WorthOneOff
<1>6. Pieces(v, val)[i] = val[x] * m
  BY <1>2, Numbers DEF Pieces
<1>7. val[x] * n \in Nat /\ val[x] * (m - n) = val[x] * m - val[x] * n
  BY <1>1, <1>2, Product
<1>8. Pieces(u, val)[i] = Pieces(v, val)[i] - val[x] * n
  <2>1. CASE m = n
    BY <1>3, <1>5, <1>6, <2>1 DEF Pieces
  <2>2. CASE m # n
    <3>1. Pieces(u, val)[i] = val[x] * (m - n)
      BY <1>2, <1>3, <2>2, Numbers DEF Pieces
    <3> QED
      BY <1>6, <1>7, <3>1
  <2> QED
    BY <2>1, <2>2
<1> QED
  BY <1>2, <1>5, <1>7, <1>8 DEF u

----------------------------------------------------------------------------
(* What two players have together *)

\* What p and q have is worth that much.
Both(inv, p, q, val) == Worth(inv[p], val) + Worth(inv[q], val)

\* A deal moves worth from the one to the other, done or refused.
LEMMA HandSums ==
  ASSUME TypeInv, NEW p \in Players, NEW q \in Players, p # q,
         NEW a \in 0..(DealSlots - 1), NEW b, NEW inv, Kept(inv, p, q, a, b),
         NEW val \in Values
  PROVE  Both(Hand(inv, Gift(p, q, a + 1)), p, q, val) = Both(inv, p, q, val)
<1> DEFINE k == a + 1
           d == Gift(p, q, k)
           i == deal[p].item[k].index
           n == deal[p].item[k].amount
           x == inv[p][i].item
           new == Hand(inv, d)
<1>1. k \in 1..DealSlots /\ k > a
  BY Numbers
<1>2. TradeTypeOK /\ inv \in Bags /\ Valid(inv[p]) /\ Valid(inv[q]) /\ Ready(inv[p], p, a)
  BY DEF TypeInv, Kept
<1>3. i \in 1..MaxSlots /\ n \in Nat /\ d \in Gifts
  BY <1>1, <1>2, EntryTypes, TakeTurns DEF TradeTypeOK
<1>4. d.from = p /\ d.to = q /\ d.index = i /\ d.amount = n
  BY DEF Gift
<1>5. CASE n = 0 \/ ~Adds(inv[q], x, n)
  <2>1. new = inv
    BY <1>4, <1>5, HandNot
  <2> QED
    BY <2>1
<1>6. CASE n # 0 /\ Adds(inv[q], x, n)
  <2>1. new[q] = Put(inv[q], x, n, Same(x)) /\ new[p] = Take(inv[p], i, n)
    <3> HIDE DEF n, i, d
    <3>1. x = inv[d.from][d.index].item /\ d.amount # 0 /\ Adds(inv[d.to], x, d.amount)
      BY <1>4, <1>6
    <3> HIDE DEF x
    <3> QED
      BY <1>2, <1>3, <1>4, <3>1, HandDone
  <2>2. n <= inv[p][i].amount
    <3>1. n > 0
      BY <1>3, <1>6
    <3>2. inv[p][i].amount >= n
      BY <1>1, <1>2, <3>1 DEF Ready
    <3>3. inv[p][i].amount \in Nat
      BY <1>2, <1>3, EachSlot
    <3> HIDE DEF n, i
    <3> QED
      BY <1>3, <3>2, <3>3
  <2> HIDE DEF n, i, d, new
  <2>3. /\ Worth(Take(inv[p], i, n), val) = Worth(inv[p], val) - val[x] * n
        /\ x \in Items /\ val[x] * n \in Nat
    <3>1. n \in Nat \ {0}
      BY <1>3, <1>6
    <3> QED
      BY <1>2, <1>3, <2>2, <3>1, WorthTake
  <2>4. Worth(Put(inv[q], x, n, Same(x)), val) = Worth(inv[q], val) + val[x] * n
    <3>1. n \in Nat \ {0} /\ Limit[x] \in 0..MaxAmount /\ Fits(inv[q], x, n, Same(x), Limit[x])
      BY <1>3, <1>6, <2>3, BoundsAssumption DEF Adds
    <3> HIDE DEF x
    <3> QED
      BY <1>2, <2>3, <3>1, WorthPut
  <2>5. Worth(inv[p], val) \in Nat /\ Worth(inv[q], val) \in Nat
    BY <1>2, PiecesNat
  <2>6. Both(new, p, q, val) = Both(inv, p, q, val)
    <3> DEFINE w == val[x] * n
    <3>1. w \in Nat /\ Worth(new[p], val) = Worth(inv[p], val) - w
                    /\ Worth(new[q], val) = Worth(inv[q], val) + w
      BY <2>1, <2>3, <2>4
    <3> HIDE DEF w
    <3> QED
      BY <2>5, <3>1 DEF Both
  <2> QED
    BY <2>6 DEF new, d
<1> QED
  BY <1>5, <1>6

\* So do all of them, one after the other.
LEMMA HandedSums ==
  ASSUME TypeInv, NEW p \in Players, NEW q \in Players, p # q,
         ~Impossible(p), ~Impossible(q), NEW val \in Values
  PROVE  Both(Handed(p, q), p, q, val) = Both(inventory, p, q, val)
<1>1. TradeTypeOK /\ inventory \in Bags /\ deal \in [Players -> Deal]
  BY HeldBags DEF TypeInv, TradeTypeOK
<1>2. PICK h \in [0..DealCount -> Bags] : Course(h, p, q) /\ Handed(p, q) = h[DealCount]
  BY <1>1, HandCourse
<1>3. \A k \in 0..DealSlots : Kept(h[2 * k], p, q, k, k)
  BY <1>2, CourseKeeps
<1> DEFINE T == {k \in Nat : k <= DealSlots =>
                   Both(h[2 * k], p, q, val) = Both(inventory, p, q, val)}
<1>4. 0 \in T
  BY <1>2 DEF Course
<1>5. ASSUME NEW k \in Nat, k < DealSlots, k \in T PROVE k + 1 \in T
  <2> DEFINE l == k + 1
             one == Hand(h[2 * k], Gift(p, q, l))
  <2>1. /\ l \in 1..DealSlots /\ l \in Nat /\ k \in 0..(DealSlots - 1) /\ k \in 0..DealSlots
        /\ (2 * l - 1) - 1 = 2 * k /\ 2 * l \in Int
    BY <1>5, Numbers
  <2>2. Kept(h[2 * k], p, q, k, k) /\ Both(h[2 * k], p, q, val) = Both(inventory, p, q, val)
    BY <1>3, <1>5, <2>1, Numbers
  <2>3. Kept(one, p, q, l, k) /\ Both(one, p, q, val) = Both(h[2 * k], p, q, val)
    BY <2>1, <2>2, HandKeeps, HandSums
  <2> HIDE DEF T, one
  <2>4. Both(Hand(one, Gift(q, p, l)), p, q, val) = Both(one, p, q, val)
    <3>1. Kept(one, q, p, k, l)
      BY <2>3, KeptEither
    <3>2. Both(Hand(one, Gift(q, p, l)), q, p, val) = Both(one, q, p, val)
      BY <2>1, <3>1, HandSums
    <3>3. Valid(one[p]) /\ Valid(one[q])
      BY <3>1 DEF Kept
    <3>4. Kept(Hand(one, Gift(q, p, l)), q, p, l, l)
      BY <2>1, <3>1, HandKeeps
    <3>5. Valid(Hand(one, Gift(q, p, l))[p]) /\ Valid(Hand(one, Gift(q, p, l))[q])
      BY <3>4 DEF Kept
    <3> QED
      BY <3>2, <3>3, <3>5, PiecesNat DEF Both
  <2> HIDE DEF l
  <2>5. h[2 * l] = Hand(one, Gift(q, p, l))
    <3>1. /\ 2 * l - 1 \in 1..DealCount /\ Deals(p, q)[2 * l - 1] = Gift(p, q, l)
          /\ 2 * l \in 1..DealCount /\ Deals(p, q)[2 * l] = Gift(q, p, l)
      BY <1>1, <2>1, TakeTurns
    <3>2. h[2 * l - 1] = Hand(h[(2 * l - 1) - 1], Deals(p, q)[2 * l - 1])
      BY <1>2, <3>1 DEF Course
    <3>3. h[2 * l] = Hand(h[2 * l - 1], Deals(p, q)[2 * l])
      BY <1>2, <3>1 DEF Course
    <3> QED
      BY <2>1, <3>1, <3>2, <3>3, Zenon DEF one
  <2>6. l \in T
    BY <2>1, <2>2, <2>3, <2>4, <2>5 DEF T
  <2> QED
    BY <2>6 DEF l
<1> HIDE DEF T
<1>6. \A k \in 0..DealSlots : k \in T
  BY <1>4, <1>5, Numbers, Inductive
<1>7. Both(h[2 * DealSlots], p, q, val) = Both(inventory, p, q, val)
  BY <1>6, Numbers DEF T
<1> QED
  BY <1>2, <1>7 DEF DealCount

----------------------------------------------------------------------------
(* The inventory that trade_check fills and the one that trade_tradecommit *)
(* fills: slots given away stay occupied in the first.                     *)

\* An inventory of trade_check: a free slot holds nothing, but one from which all has
\* been given stays occupied.
Proper(v) == /\ v \in [1..MaxSlots -> Slot]
             /\ \A i \in 1..MaxSlots : v[i].item = NoItem => v[i].amount = 0
\* Items that stack are in one slot.
Unique(v) == \A i, j \in 1..MaxSlots :
               v[i].item \in Stackable /\ v[i].item = v[j].item => i = j
\* As many slots hold something.
Pos(v)   == [i \in 1..MaxSlots |-> IF v[i].amount > 0 THEN 1 ELSE 0]
\* Slot i of v holds n of x.
Holds(v, i, x, n) == v[i].item = x /\ v[i].amount = n
\* What stacks is in u if it is in v, as much of it.
Shares(v, u) ==
  \A x \in Stackable, n \in 1..MaxAmount :
    (\E i \in 1..MaxSlots : Holds(v, i, x, n)) => \E i \in 1..MaxSlots : Holds(u, i, x, n)
\* The inventory of trade_check and the one that is handed over: what stacks is in both,
\* and as many slots hold something.
Twins(c, h) == /\ Proper(c) /\ Valid(h) /\ Unique(c) /\ Unique(h)
               /\ Shares(c, h) /\ Shares(h, c)
               /\ Total(Pos(c), MaxSlots) = Total(Pos(h), MaxSlots)

\* An inventory of trade_check, read as one whose amounts are any numbers.
LEMMA ProperBag ==
  ASSUME NEW v, Proper(v)
  PROVE  v \in Bag /\ \A i \in 1..MaxSlots : v[i].amount \in 0..MaxAmount /\ v[i].amount \in Nat
BY Numbers DEF Proper, Bag, Slot

\* A well formed inventory is one trade_check may have.
LEMMA ValidProper ==
  ASSUME NEW v, Valid(v)
  PROVE  Proper(v)
BY DEF Valid, Proper

\* Before the first deal the two inventories are the same.
LEMMA TwinsAtFirst ==
  ASSUME NEW v, Valid(v), Unique(v)
  PROVE  Twins(v, v)
BY ValidProper DEF Twins, Shares

\* There is a free slot in the one if there is in the other.
LEMMA RoomInBoth ==
  ASSUME NEW c, NEW h, Twins(c, h), NEW i \in 1..MaxSlots, c[i].amount = 0
  PROVE  \E j \in 1..MaxSlots : h[j].item = NoItem
<1>1. Pos(c) \in [1..MaxSlots -> {0, 1}] /\ Pos(h) \in [1..MaxSlots -> {0, 1}]
  BY DEF Pos
<1>2. Pos(c)[i] # 1
  BY DEF Pos
<1>3. Total(Pos(c), MaxSlots) # MaxSlots
  <2> DEFINE f == Pos(c)
  <2> HIDE DEF f
  <2>1. f \in [1..MaxSlots -> {0, 1}] /\ f[i] # 1
    BY <1>1, <1>2 DEF f
  <2>2. Total(f, MaxSlots) # MaxSlots
    BY <2>1, Numbers, SumOfBits
  <2> QED
    BY <2>2 DEF f
<1>4. \E j \in 1..MaxSlots : Pos(h)[j] # 1
  <2> DEFINE f == Pos(h)
  <2> HIDE DEF f
  <2>1. f \in [1..MaxSlots -> {0, 1}] /\ Total(f, MaxSlots) # MaxSlots
    BY <1>1, <1>3 DEF f, Twins
  <2>2. \E j \in 1..MaxSlots : f[j] # 1
    BY <2>1, Numbers, SumOfBits
  <2> QED
    BY <2>2 DEF f
<1>5. PICK j \in 1..MaxSlots : ~(h[j].amount > 0)
  BY <1>4 DEF Pos
<1>6. h[j].amount \in Nat /\ (h[j].item = NoItem <=> h[j].amount = 0)
  <2>1. Valid(h)
    BY DEF Twins
  <2> QED
    BY <2>1, ValidBag, Numbers DEF Valid
<1> QED
  BY <1>5, <1>6

\* n of x are added to slot w of v, which holds m of them or is free.
Added(v, u, w, x, m, n) ==
  /\ w \in 1..MaxSlots /\ v[w].item \in {x, NoItem} /\ v[w].amount = m
  /\ u[w].item = x /\ u[w].amount = m + n
  /\ \A i \in 1..MaxSlots : i # w => u[i] = v[i]
  /\ (x \in Stackable /\ \E i \in 1..MaxSlots : v[i].item = x) => v[w].item = x
  /\ x \notin Stackable => v[w].item = NoItem

\* Adding keeps what stacks in one slot.
LEMMA AddedUnique ==
  ASSUME NEW v, NEW u, NEW w, NEW x, NEW m, NEW n, Added(v, u, w, x, m, n), Unique(v)
  PROVE  Unique(u)
<1> SUFFICES ASSUME NEW i \in 1..MaxSlots, NEW j \in 1..MaxSlots,
                    u[i].item \in Stackable, u[i].item = u[j].item
             PROVE  i = j
  BY DEF Unique
<1>1. ASSUME NEW k \in 1..MaxSlots, k # w, u[k].item = x, x \in Stackable PROVE FALSE
  <2>1. v[k].item = x /\ v[w].item = x
    BY <1>1 DEF Added
  <2> QED
    BY <1>1, <2>1 DEF Added, Unique
<1>2. CASE i # w /\ j # w
  BY <1>2 DEF Added, Unique
<1>3. CASE i = w /\ j # w
  BY <1>1, <1>3 DEF Added
<1>4. CASE i # w /\ j = w
  BY <1>1, <1>4 DEF Added
<1> QED
  BY <1>2, <1>3, <1>4

\* Adding the same to both keeps the amounts of what stacks the same.
LEMMA AddedShares ==
  ASSUME NEW v1, NEW u1, NEW w1, NEW v2, NEW u2, NEW w2, NEW x, NEW m, NEW n,
         Added(v1, u1, w1, x, m, n), Added(v2, u2, w2, x, m, n),
         Unique(v1), \A i \in 1..MaxSlots : v2[i].item = NoItem => v2[i].amount = 0,
         Shares(v1, v2)
  PROVE  Shares(u1, u2)
<1> SUFFICES ASSUME NEW y \in Stackable, NEW l \in 1..MaxAmount,
                    NEW i \in 1..MaxSlots, Holds(u1, i, y, l)
             PROVE  \E j \in 1..MaxSlots : Holds(u2, j, y, l)
  BY DEF Shares
<1>1. CASE i = w1
  <2>1. y = x /\ l = m + n
    BY <1>1 DEF Holds, Added
  <2>2. w2 \in 1..MaxSlots /\ Holds(u2, w2, y, l)
    BY <2>1 DEF Holds, Added
  <2> QED
    BY <2>2
<1>2. CASE i # w1
  <2>1. Holds(v1, i, y, l)
    BY <1>2 DEF Holds, Added
  <2>2. PICK j \in 1..MaxSlots : Holds(v2, j, y, l)
    BY <2>1 DEF Shares
  <2>3. j # w2
    <3>1. SUFFICES ASSUME j = w2 PROVE FALSE
      OBVIOUS
    <3>2. v2[w2].item = y /\ v2[w2].amount = l /\ l # 0
      BY <2>2, <3>1, Numbers DEF Holds
    <3>3. y = x
      BY <2>2, <3>1, <3>2 DEF Added
    <3>4. v1[i].item = x /\ x \in Stackable
      BY <2>1, <3>3 DEF Holds
    <3>5. v1[w1].item = x
      BY <3>4 DEF Added
    <3> QED
      BY <1>2, <3>4, <3>5 DEF Added, Unique
  <2>4. Holds(u2, j, y, l)
    BY <2>2, <2>3 DEF Holds, Added
  <2> QED
    BY <2>4
<1> QED
  BY <1>1, <1>2

\* A slot that changes from m pieces to l counts as before if both or neither
\* are none.
LEMMA PosOneOff ==
  ASSUME NEW v, NEW u, NEW w \in 1..MaxSlots,
         \A i \in 1..MaxSlots : i # w => u[i].amount = v[i].amount
  PROVE  Total(Pos(u), MaxSlots) = Total(Pos(v), MaxSlots)
           - (IF v[w].amount > 0 THEN 1 ELSE 0) + (IF u[w].amount > 0 THEN 1 ELSE 0)
<1> DEFINE f == Pos(v)
           g == Pos(u)
<1>1. f \in [1..MaxSlots -> Int] /\ g \in [1..MaxSlots -> Int] /\ MaxSlots \in Nat
  BY Numbers DEF Pos
<1>2. \A i \in 1..MaxSlots : i # w => g[i] = f[i]
  BY DEF Pos
<1>3. /\ f[w] = (IF v[w].amount > 0 THEN 1 ELSE 0)
      /\ g[w] = (IF u[w].amount > 0 THEN 1 ELSE 0)
  BY DEF Pos
<1> HIDE DEF f, g
<1>4. Total(g, MaxSlots) = Total(f, MaxSlots) - f[w] + g[w]
  BY <1>1, <1>2, SumOneOff
<1> QED
  BY <1>3, <1>4 DEF f, g

\* A slot that is the same in both.
Match(c, h, i) == c[i].item = h[i].item /\ c[i].amount = h[i].amount /\ c[i].amount > 0

\* What fits the one inventory fits the other, and the twins stay twins.
LEMMA TwinsPut ==
  ASSUME NEW c, NEW h, Twins(c, h), NEW x \in Items, NEW n \in 1..MaxAmount,
         Fits(c, x, n, Same(x), MaxAmount)
  PROVE  /\ Fits(h, x, n, Same(x), MaxAmount)
         /\ Twins(Put(c, x, n, Same(x)), Put(h, x, n, Same(x)))
         /\ \A i \in 1..MaxSlots :
              Match(c, h, i) => Match(Put(c, x, n, Same(x)), Put(h, x, n, Same(x)), i)
<1> DEFINE cu == Put(c, x, n, Same(x))
           hu == Put(h, x, n, Same(x))
<1>1. Proper(c) /\ Valid(h) /\ Unique(c) /\ Unique(h) /\ Shares(c, h) /\ Shares(h, c)
  BY DEF Twins
<1>2. /\ c \in Bag /\ h \in Bag /\ n \in Nat \ {0} /\ n \in Int /\ n <= MaxAmount
      /\ x \in Items \cup {NoItem} /\ x # NoItem /\ MaxAmount \in 0..MaxAmount
      /\ \A i \in 1..MaxSlots : /\ c[i].amount \in 0..MaxAmount /\ c[i].amount \in Nat
                                /\ h[i].amount \in 0..MaxAmount /\ h[i].amount \in Nat
                                /\ c[i].item = NoItem => c[i].amount = 0
                                /\ h[i].item = NoItem <=> h[i].amount = 0
  BY <1>1, ProperBag, ValidProper, Numbers DEF Valid, Proper
<1>3. PICK w \in 1..MaxSlots : Goes(c, w, x, n, Same(x), MaxAmount)
  BY <1>2, PutGoes
<1>4. Added(c, cu, w, x, c[w].amount, n) /\ c[w].amount + n <= MaxAmount
  <2>1. /\ c[w].item \in {x, NoItem} /\ c[w].amount + n <= MaxAmount
        /\ IF x \in Stackable /\ \E i \in 1..MaxSlots : c[i].item = x
           THEN c[w].item = x ELSE c[w].item = NoItem
        /\ \A i \in 1..MaxSlots : i # w => cu[i] = c[i]
        /\ IF c[w].item = NoItem
           THEN cu[w] = [item |-> x, amount |-> n, worn |-> FALSE]
           ELSE cu[w].item = c[w].item /\ cu[w].amount = c[w].amount + n
    BY <1>3 DEF Goes, Same
  <2> HIDE DEF cu
  <2>2. cu[w].item = x /\ cu[w].amount = c[w].amount + n
    BY <1>2, <2>1
  <2> QED
    BY <2>1, <2>2 DEF Added
<1> DEFINE m == c[w].amount
           there == x \in Stackable /\ \E i \in 1..MaxSlots : h[i].item = x
<1>5. ASSUME there
      PROVE  /\ Has(h, Same(x)) # {}
             /\ \A j \in Has(h, Same(x)) : h[j].amount = m
  <2> SUFFICES ASSUME NEW j \in 1..MaxSlots, h[j].item = x
               PROVE  h[j].amount = m
    BY <1>5 DEF Has, Same
  <2>1. h[j].amount \in 1..MaxAmount /\ Holds(h, j, x, h[j].amount)
    BY <1>2 DEF Holds
  <2>2. PICK i \in 1..MaxSlots : Holds(c, i, x, h[j].amount)
    BY <1>1, <1>5, <2>1 DEF Shares
  <2>3. c[i].item = x /\ c[w].item = x
    BY <1>4, <1>5, <2>2 DEF Holds, Added
  <2>4. i = w
    BY <1>1, <1>5, <2>3 DEF Unique
  <2> QED
    BY <2>2, <2>4 DEF Holds
<1>6. ASSUME ~there
      PROVE  /\ m = 0 /\ Has(h, {NoItem}) # {}
             /\ \A j \in Has(h, {NoItem}) : h[j].amount = 0
  <2>1. m = 0
    <3>1. CASE c[w].item = NoItem
      BY <1>2, <3>1
    <3>2. CASE c[w].item # NoItem
      <4>1. c[w].item = x /\ x \in Stackable
        BY <1>4, <3>2 DEF Added
      <4>2. SUFFICES ASSUME m # 0 PROVE FALSE
        OBVIOUS
      <4>3. m \in 1..MaxAmount /\ Holds(c, w, x, m)
        BY <1>2, <4>1, <4>2 DEF Holds
      <4>4. PICK j \in 1..MaxSlots : Holds(h, j, x, m)
        BY <1>1, <4>1, <4>3 DEF Shares
      <4> QED
        BY <1>6, <4>1, <4>4 DEF Holds
    <3> QED
      BY <3>1, <3>2
  <2>2. \E j \in 1..MaxSlots : h[j].item = NoItem
    BY <2>1, RoomInBoth
  <2> QED
    BY <1>2, <2>1, <2>2 DEF Has
<1>7. /\ SlotFor(h, x, Same(x)) # {}
      /\ SlotFor(h, x, Same(x)) \subseteq 1..MaxSlots
      /\ \A j \in SlotFor(h, x, Same(x)) : h[j].amount = m
  <2>1. CASE there
    <3>1. SlotFor(h, x, Same(x)) = Has(h, Same(x))
      BY <1>5, <2>1 DEF SlotFor
    <3> QED
      BY <1>5, <2>1, <3>1 DEF Has
  <2>2. CASE ~there
    <3>1. SlotFor(h, x, Same(x)) = Has(h, {NoItem})
      BY <2>2 DEF SlotFor, Has, Same
    <3> QED
      BY <1>6, <2>2, <3>1 DEF Has
  <2> QED
    BY <2>1, <2>2
<1>8. Fits(h, x, n, Same(x), MaxAmount)
  <2> DEFINE S == SlotFor(h, x, Same(x))
  <2> HIDE DEF S, m
  <2>1. S # {} /\ S \subseteq Nat /\ \A j \in S : h[j].amount = m
    BY <1>7, Numbers DEF S
  <2>2. Min(S) \in S
    BY <2>1, MinOfSlots
  <2>3. h[Min(S)].amount + n <= MaxAmount
    BY <1>4, <2>1, <2>2 DEF m
  <2> QED
    BY <2>1, <2>3 DEF S, Fits
<1>9. PICK wh \in 1..MaxSlots : Goes(h, wh, x, n, Same(x), MaxAmount)
  BY <1>2, <1>8, PutGoes
<1>10. /\ h[wh].item \in {x, NoItem}
       /\ IF x \in Stackable /\ \E i \in 1..MaxSlots : h[i].item = x
          THEN h[wh].item = x ELSE h[wh].item = NoItem
       /\ \A i \in 1..MaxSlots : i # wh => hu[i] = h[i]
       /\ IF h[wh].item = NoItem
          THEN hu[wh] = [item |-> x, amount |-> n, worn |-> FALSE]
          ELSE hu[wh].item = h[wh].item /\ hu[wh].amount = h[wh].amount + n
  BY <1>9 DEF Goes, Same
<1>11. h[wh].amount = m
  <2>1. CASE there
    <3>1. wh \in Has(h, Same(x))
      BY <1>10, <2>1 DEF Has, Same
    <3> QED
      BY <1>5, <2>1, <3>1
  <2>2. CASE ~there
    <3>1. wh \in Has(h, {NoItem})
      BY <1>10, <2>2 DEF Has
    <3> QED
      BY <1>6, <2>2, <3>1
  <2> QED
    BY <2>1, <2>2
<1> HIDE DEF m, there, hu, cu
<1>12. m \in Nat
  BY <1>2 DEF m
<1>13. Added(h, hu, wh, x, m, n)
  <2>1. hu[wh].item = x /\ hu[wh].amount = m + n
    BY <1>2, <1>10, <1>11
  <2> QED
    BY <1>10, <1>11, <2>1 DEF Added
<1>14. Added(c, cu, w, x, m, n)
  BY <1>4 DEF m
<1>15. Unique(cu) /\ Unique(hu)
  BY <1>1, <1>13, <1>14, AddedUnique
<1>16. Shares(cu, hu)
  BY <1>1, <1>2, <1>13, <1>14, AddedShares
<1>17. Shares(hu, cu)
  BY <1>1, <1>2, <1>13, <1>14, AddedShares
<1>18. Valid(hu)
  BY <1>1, <1>2, <1>8, PutValid DEF hu
<1>19. Proper(cu)
  <2>1. cu \in Bag
    BY <1>2, PutGoes DEF cu
  <2>2. cu[w].amount \in 0..MaxAmount /\ cu[w].item = x
    BY <1>2, <1>4, <1>12, <1>14, Numbers DEF Added, m
  <2>3. ASSUME NEW i \in 1..MaxSlots
        PROVE  cu[i] \in Slot /\ (cu[i].item = NoItem => cu[i].amount = 0)
    <3>1. CASE i = w
      <4>1. cu[w] \in [item : Items \cup {NoItem}, amount : Int, worn : BOOLEAN]
        BY <2>1 DEF Bag
      <4> QED
        BY <1>2, <2>2, <3>1, <4>1 DEF Slot
    <3>2. CASE i # w
      BY <1>1, <1>14, <3>2 DEF Added, Proper
    <3> QED
      BY <3>1, <3>2
  <2> QED
    BY <2>1, <2>3 DEF Proper, Bag
<1>20. Total(Pos(cu), MaxSlots) = Total(Pos(hu), MaxSlots)
  <2>1. Total(Pos(cu), MaxSlots) = Total(Pos(c), MaxSlots)
          - (IF m > 0 THEN 1 ELSE 0) + (IF m + n > 0 THEN 1 ELSE 0)
    <3>1. /\ \A i \in 1..MaxSlots : i # w => cu[i].amount = c[i].amount
          /\ c[w].amount = m /\ cu[w].amount = m + n
      BY <1>14 DEF Added
    <3>2. Total(Pos(cu), MaxSlots) = Total(Pos(c), MaxSlots)
            - (IF c[w].amount > 0 THEN 1 ELSE 0)
            + (IF cu[w].amount > 0 THEN 1 ELSE 0)
      BY <3>1, PosOneOff
    <3> QED
      BY <3>1, <3>2
  <2>2. Total(Pos(hu), MaxSlots) = Total(Pos(h), MaxSlots)
          - (IF m > 0 THEN 1 ELSE 0) + (IF m + n > 0 THEN 1 ELSE 0)
    <3>1. /\ \A i \in 1..MaxSlots : i # wh => hu[i].amount = h[i].amount
          /\ h[wh].amount = m /\ hu[wh].amount = m + n
      BY <1>13 DEF Added
    <3>2. Total(Pos(hu), MaxSlots) = Total(Pos(h), MaxSlots)
            - (IF h[wh].amount > 0 THEN 1 ELSE 0)
            + (IF hu[wh].amount > 0 THEN 1 ELSE 0)
      BY <3>1, PosOneOff
    <3> QED
      BY <3>1, <3>2
  <2>3. Total(Pos(c), MaxSlots) = Total(Pos(h), MaxSlots)
    BY DEF Twins
  <2> QED
    BY <2>1, <2>2, <2>3
<1>21. ASSUME NEW i \in 1..MaxSlots, Match(c, h, i)
       PROVE  Match(cu, hu, i)
  <2>1. c[i].item = h[i].item /\ c[i].amount = h[i].amount /\ c[i].item # NoItem
    BY <1>2, <1>21 DEF Match
  <2>2. i = w <=> i = wh
    <3>1. ASSUME i = w PROVE i = wh
      <4>1. h[i].item = x /\ x \in Stackable
        BY <1>14, <2>1, <3>1 DEF Added
      <4>2. h[wh].item = x
        BY <1>13, <4>1 DEF Added
      <4> QED
        BY <1>1, <4>1, <4>2 DEF Unique
    <3>2. ASSUME i = wh PROVE i = w
      <4>1. c[i].item = x /\ x \in Stackable
        BY <1>13, <2>1, <3>2 DEF Added
      <4>2. c[w].item = x
        BY <1>14, <4>1 DEF Added
      <4> QED
        BY <1>1, <4>1, <4>2 DEF Unique
    <3> QED
      BY <3>1, <3>2
  <2>3. CASE i = w
    BY <1>2, <1>12, <1>13, <1>14, <2>2, <2>3 DEF Added, Match
  <2>4. CASE i # w
    BY <1>13, <1>14, <1>21, <2>2, <2>4 DEF Added, Match
  <2> QED
    BY <2>3, <2>4
<1> QED
  BY <1>8, <1>15, <1>16, <1>17, <1>18, <1>19, <1>20, <1>21 DEF Twins, cu, hu

\* What trade_check leaves of a slot some of which is given away.
Given(v, i, n) == [v EXCEPT ![i].amount = @ - n]

\* Giving the same from the same slot of both.
LEMMA TwinsTake ==
  ASSUME NEW c, NEW h, Twins(c, h), NEW i \in 1..MaxSlots, Match(c, h, i),
         NEW n \in Nat \ {0}, n <= h[i].amount
  PROVE  /\ Twins(Given(c, i, n), Take(h, i, n))
         /\ \A j \in 1..MaxSlots :
              j # i /\ Match(c, h, j) => Match(Given(c, i, n), Take(h, i, n), j)
<1> DEFINE cu == Given(c, i, n)
           hu == Take(h, i, n)
           x == h[i].item
           m == h[i].amount
<1>1. Proper(c) /\ Valid(h) /\ Unique(c) /\ Unique(h) /\ Shares(c, h) /\ Shares(h, c)
  BY DEF Twins
<1>2. /\ c \in Bag /\ h \in Bag /\ n \in Int
      /\ \A j \in 1..MaxSlots : /\ c[j].amount \in 0..MaxAmount /\ c[j].amount \in Nat
                                /\ h[j].amount \in 0..MaxAmount /\ h[j].amount \in Nat
                                /\ h[j].item = NoItem <=> h[j].amount = 0
  <2>1. Proper(h) /\ \A j \in 1..MaxSlots : h[j].item = NoItem <=> h[j].amount = 0
    BY <1>1, ValidProper DEF Valid
  <2> QED
    BY <1>1, <2>1, ProperBag
<1>3. c[i].item = x /\ c[i].amount = m /\ m > 0
  BY DEF Match
<1>4. /\ cu \in Bag /\ \A j \in 1..MaxSlots : j # i => cu[j] = c[j]
      /\ cu[i].item = x /\ cu[i].amount = m - n
  <2>1. c[i] \in [item : Items \cup {NoItem}, amount : Int, worn : BOOLEAN]
    BY <1>2 DEF Bag
  <2>2. cu = [c EXCEPT ![i] = [item |-> c[i].item, amount |-> c[i].amount - n,
                               worn |-> c[i].worn]]
    <3>1. [c[i] EXCEPT !.amount = c[i].amount - n]
            = [item |-> c[i].item, amount |-> c[i].amount - n, worn |-> c[i].worn]
      BY <2>1
    <3>2. cu = [c EXCEPT ![i] = [c[i] EXCEPT !.amount = c[i].amount - n]]
      BY DEF Given
    <3> QED
      BY <3>1, <3>2
  <2> HIDE DEF cu
  <2> DEFINE e == [item |-> c[i].item, amount |-> c[i].amount - n, worn |-> c[i].worn]
  <2>3. /\ e \in [item : Items \cup {NoItem}, amount : Int, worn : BOOLEAN]
        /\ e.item = x /\ e.amount = m - n
    BY <1>2, <1>3, <2>1
  <2> HIDE DEF e
  <2>4. /\ cu \in Bag /\ cu[i] = e
        /\ \A j \in 1..MaxSlots : j # i => cu[j] = c[j]
    <3>1. cu = [c EXCEPT ![i] = e]
      BY <2>2 DEF e
    <3> QED
      BY <1>2, <2>3, <3>1 DEF Bag
  <2> QED
    BY <2>3, <2>4
<1>5. /\ hu \in Bag /\ \A j \in 1..MaxSlots : j # i => hu[j] = h[j]
      /\ hu[i].amount = m - n /\ hu[i].item = IF m = n THEN NoItem ELSE x
  BY <1>2, TakeBag
<1>6. Valid(hu)
  <2>1. n \in Nat
    OBVIOUS
  <2> QED
    BY <1>1, <2>1, TakeValid
<1>7. m \in Nat /\ n \in Nat /\ n <= m /\ n # 0 /\ m <= MaxAmount /\ x # NoItem /\ x \in Items
  <2>1. m \in 0..MaxAmount /\ m # 0
    BY <1>2, <1>3
  <2>2. x # NoItem /\ x \in Items \cup {NoItem}
    BY <1>2, <2>1 DEF Bag
  <2> QED
    BY <1>2, <2>1, <2>2, Numbers
<1> HIDE DEF cu, hu, x, m
<1>8. Unique(cu)
  BY <1>1, <1>3, <1>4 DEF Unique
<1>9. Unique(hu)
  <2>1. NoItem \notin Stackable
    BY ItemsAssumption
  <2>2. \A j \in 1..MaxSlots : hu[j].item \in Stackable => hu[j].item = h[j].item
    BY <1>5, <2>1 DEF x
  <2> QED
    BY <1>1, <2>2 DEF Unique
<1>10. Shares(cu, hu)
  <2> SUFFICES ASSUME NEW y \in Stackable, NEW l \in 1..MaxAmount,
                      NEW j \in 1..MaxSlots, Holds(cu, j, y, l)
               PROVE  \E k \in 1..MaxSlots : Holds(hu, k, y, l)
    BY DEF Shares
  <2>1. CASE j = i
    <3>1. y = x /\ l = m - n /\ m # n
      BY <1>4, <1>7, <2>1, Numbers DEF Holds
    <3>2. Holds(hu, i, y, l)
      BY <1>5, <3>1 DEF Holds
    <3> QED
      BY <3>2
  <2>2. CASE j # i
    <3>1. Holds(c, j, y, l)
      BY <1>4, <2>2 DEF Holds
    <3>2. PICK k \in 1..MaxSlots : Holds(h, k, y, l)
      BY <1>1, <3>1 DEF Shares
    <3>3. k # i
      <4>1. SUFFICES ASSUME k = i PROVE FALSE
        OBVIOUS
      <4>2. c[j].item = y /\ c[i].item = y
        BY <1>3, <3>1, <3>2, <4>1 DEF Holds, x
      <4> QED
        BY <1>1, <2>2, <4>2 DEF Unique
    <3>4. Holds(hu, k, y, l)
      BY <1>5, <3>2, <3>3 DEF Holds
    <3> QED
      BY <3>4
  <2> QED
    BY <2>1, <2>2
<1>11. Shares(hu, cu)
  <2> SUFFICES ASSUME NEW y \in Stackable, NEW l \in 1..MaxAmount,
                      NEW j \in 1..MaxSlots, Holds(hu, j, y, l)
               PROVE  \E k \in 1..MaxSlots : Holds(cu, k, y, l)
    BY DEF Shares
  <2>1. CASE j = i
    <3>1. l = m - n /\ m # n
      BY <1>5, <1>7, <2>1, Numbers DEF Holds
    <3>2. y = x
      BY <1>5, <2>1, <3>1 DEF Holds
    <3>3. Holds(cu, i, y, l)
      BY <1>4, <3>1, <3>2 DEF Holds
    <3> QED
      BY <3>3
  <2>2. CASE j # i
    <3>1. Holds(h, j, y, l)
      BY <1>5, <2>2 DEF Holds
    <3>2. PICK k \in 1..MaxSlots : Holds(c, k, y, l)
      BY <1>1, <3>1 DEF Shares
    <3>3. k # i
      <4>1. SUFFICES ASSUME k = i PROVE FALSE
        OBVIOUS
      <4>2. h[j].item = y /\ h[i].item = y
        BY <1>3, <3>1, <3>2, <4>1 DEF Holds, x
      <4> QED
        BY <1>1, <2>2, <4>2 DEF Unique
    <3>4. Holds(cu, k, y, l)
      BY <1>4, <3>2, <3>3 DEF Holds
    <3> QED
      BY <3>4
  <2> QED
    BY <2>1, <2>2
<1>12. Proper(cu)
  <2>1. cu[i].amount \in 0..MaxAmount
    BY <1>4, <1>7, Numbers
  <2>2. cu[i].item # NoItem
    BY <1>4, <1>7
  <2>3. ASSUME NEW j \in 1..MaxSlots
        PROVE  cu[j] \in Slot /\ (cu[j].item = NoItem => cu[j].amount = 0)
    <3>1. CASE j = i
      <4>1. cu[i] \in [item : Items \cup {NoItem}, amount : Int, worn : BOOLEAN]
        BY <1>4 DEF Bag
      <4> QED
        BY <2>1, <2>2, <3>1, <4>1 DEF Slot
    <3>2. CASE j # i
      BY <1>1, <1>4, <3>2 DEF Proper
    <3> QED
      BY <3>1, <3>2
  <2> QED
    BY <1>4, <2>3 DEF Proper, Bag
<1>13. Total(Pos(cu), MaxSlots) = Total(Pos(hu), MaxSlots)
  <2>1. /\ \A j \in 1..MaxSlots : j # i => cu[j].amount = c[j].amount
        /\ \A j \in 1..MaxSlots : j # i => hu[j].amount = h[j].amount
    BY <1>4, <1>5
  <2>2. Total(Pos(cu), MaxSlots) = Total(Pos(c), MaxSlots)
          - (IF c[i].amount > 0 THEN 1 ELSE 0) + (IF cu[i].amount > 0 THEN 1 ELSE 0)
    BY <2>1, PosOneOff
  <2>3. Total(Pos(hu), MaxSlots) = Total(Pos(h), MaxSlots)
          - (IF h[i].amount > 0 THEN 1 ELSE 0) + (IF hu[i].amount > 0 THEN 1 ELSE 0)
    BY <2>1, PosOneOff
  <2>4. Total(Pos(c), MaxSlots) = Total(Pos(h), MaxSlots)
    BY DEF Twins
  <2>5. c[i].amount = h[i].amount /\ cu[i].amount = hu[i].amount
    BY <1>3, <1>4, <1>5 DEF m
  <2> QED
    BY <2>2, <2>3, <2>4, <2>5
<1>14. \A j \in 1..MaxSlots : j # i /\ Match(c, h, j) => Match(cu, hu, j)
  BY <1>4, <1>5 DEF Match
<1> QED
  BY <1>6, <1>8, <1>9, <1>10, <1>11, <1>12, <1>13, <1>14 DEF Twins, cu, hu

----------------------------------------------------------------------------
(* The course of the check *)

\* What trade_check computes.
Checks == [ok : BOOLEAN, inv : Bags]

\* A deal passes: the one has it and it fits the other.
Passes(s, d) ==
  LET x == s.inv[d.from][d.index].item IN
    /\ d.amount <= s.inv[d.from][d.index].amount
    /\ Fits(s.inv[d.to], x, d.amount, Namesake(x), MaxAmount)

\* A deal that passes changes the two inventories it names.
LEMMA CheckDone ==
  ASSUME NEW s \in Checks, NEW d \in Gifts, s.ok, d.amount # 0, Passes(s, d),
         NEW x, x = s.inv[d.from][d.index].item
  PROVE  /\ Check(s, d) \in Checks /\ Check(s, d).ok
         /\ Check(s, d).inv[d.to] = Put(s.inv[d.to], x, d.amount, Namesake(x))
         /\ Check(s, d).inv[d.from] = Given(s.inv[d.from], d.index, d.amount)
<1>1. /\ d.from \in Players /\ d.to \in Players /\ d.from # d.to
      /\ d.index \in 1..MaxSlots /\ d.amount \in Int
      /\ s.inv[d.from] \in Bag /\ s.inv[d.to] \in Bag /\ s.inv \in Bags
  BY DEF Gifts, Checks, Bags
<1>2. x \in Items \cup {NoItem}
  BY <1>1 DEF Bag
<1>3. Put(s.inv[d.to], x, d.amount, Namesake(x)) \in Bag
  BY <1>1, <1>2, PutGoes DEF Passes
<1>4. Given(s.inv[d.from], d.index, d.amount) \in Bag
  <2>1. s.inv[d.from][d.index] \in [item : Items \cup {NoItem}, amount : Int, worn : BOOLEAN]
    BY <1>1 DEF Bag
  <2> DEFINE v == s.inv[d.from]
             g == [v[d.index] EXCEPT !.amount = @ - d.amount]
  <2>2. g \in [item : Items \cup {NoItem}, amount : Int, worn : BOOLEAN]
    BY <1>1, <2>1
  <2>3. Given(v, d.index, d.amount) = [v EXCEPT ![d.index] = g]
    BY DEF Given
  <2>4. v \in Bag
    BY <1>1
  <2> HIDE DEF v, g
  <2>5. [v EXCEPT ![d.index] = g] \in Bag
    BY <2>2, <2>4 DEF Bag
  <2> QED
    BY <2>3, <2>5 DEF v
<1>5. Check(s, d) = [s EXCEPT !.inv = [s.inv EXCEPT
                       ![d.to] = Put(s.inv[d.to], x, d.amount, Namesake(x)),
                       ![d.from] = Given(s.inv[d.from], d.index, d.amount)]]
  BY <1>1 DEF Check, Passes, Given, Checks, Bags
<1> DEFINE put == Put(s.inv[d.to], x, d.amount, Namesake(x))
           left == Given(s.inv[d.from], d.index, d.amount)
           inv == s.inv
<1>6. Check(s, d) = [s EXCEPT !.inv = [inv EXCEPT ![d.to] = put, ![d.from] = left]]
  BY <1>5
<1>7. put \in Bag /\ left \in Bag /\ inv \in Bags
  BY <1>1, <1>3, <1>4
<1> HIDE DEF put, left, inv
<1>8. /\ [inv EXCEPT ![d.to] = put, ![d.from] = left] \in Bags
      /\ [inv EXCEPT ![d.to] = put, ![d.from] = left][d.to] = put
      /\ [inv EXCEPT ![d.to] = put, ![d.from] = left][d.from] = left
  BY <1>1, <1>7 DEF Bags
<1>9. Check(s, d) \in Checks /\ Check(s, d).ok
      /\ Check(s, d).inv = [inv EXCEPT ![d.to] = put, ![d.from] = left]
  BY <1>6, <1>8 DEF Checks
<1> QED
  BY <1>8, <1>9 DEF put, left

\* An empty deal changes nothing, one that does not pass ends the check.
LEMMA CheckNot ==
  ASSUME NEW s \in Checks, NEW d \in Gifts,
         ~s.ok \/ d.amount = 0 \/ ~Passes(s, d)
  PROVE  /\ Check(s, d) \in Checks
         /\ d.amount = 0 => Check(s, d) = s
         /\ Check(s, d).ok => s.ok /\ d.amount = 0
<1>1. CASE ~s.ok \/ d.amount = 0
  <2>1. Check(s, d) = s
    BY <1>1 DEF Check
  <2> QED
    BY <1>1, <2>1
<1>2. CASE s.ok /\ d.amount # 0 /\ ~Passes(s, d)
  <2>1. Check(s, d) = [s EXCEPT !.ok = FALSE]
    BY <1>2 DEF Check, Passes
  <2> QED
    BY <1>2, <2>1 DEF Checks
<1> QED
  BY <1>1, <1>2

\* A check leaves inventories, and never recovers.
LEMMA CheckTypes ==
  ASSUME NEW s \in Checks, NEW d \in Gifts
  PROVE  Check(s, d) \in Checks /\ (Check(s, d).ok => s.ok)
<1>1. CASE s.ok /\ d.amount # 0 /\ Passes(s, d)
  BY <1>1, CheckDone
<1>2. CASE ~(s.ok /\ d.amount # 0 /\ Passes(s, d))
  BY <1>2, CheckNot
<1> QED
  BY <1>1, <1>2

\* The course of trade_check.
Trial(c, p, q) ==
  /\ c[0] = [ok |-> TRUE, inv |-> inventory]
  /\ \A j \in 1..DealCount : c[j] = Check(c[j - 1], Deals(p, q)[j])

\* The recursive function Checked is the end of a course of checks.
LEMMA CheckCourse ==
  ASSUME deal \in [Players -> Deal], inventory \in Bags,
         NEW p \in Players, NEW q \in Players, p # q
  PROVE  \E c \in [0..DealCount -> Checks] :
           Trial(c, p, q) /\ Checked(p, q) = c[DealCount]
<1> DEFINE all == Deals(p, q)
           first == [ok |-> TRUE, inv |-> inventory]
           f == [j \in 1..DealCount |-> [a \in Checks |-> Check(a, all[j])]]
           s[j \in 0..DealCount] == IF j = 0 THEN first ELSE Check(s[j - 1], all[j])
<1>1. s = CHOOSE g : g = [j \in 0..DealCount |->
                            IF j = 0 THEN first ELSE Check(g[j - 1], all[j])]
  BY DEF s
<1>2. Checked(p, q) = s[DealCount]
  BY DEF Checked
<1> HIDE DEF s
<1>3. DealCount \in Nat /\ first \in Checks
  BY Numbers DEF DealCount, Checks
<1>4. f \in [1..DealCount -> [Checks -> Checks]]
  <2>1. \A j \in 1..DealCount : all[j] \in Gifts
    BY AllGifts
  <2> HIDE DEF all
  <2> QED
    BY <2>1, CheckTypes
<1>5. \A j \in 1..DealCount, a \in Checks : f[j][a] = Check(a, all[j])
  OBVIOUS
<1> HIDE DEF f, all, first
<1>6. PICK c \in [0..DealCount -> Checks] : Follows(c, first, f, DealCount)
  BY <1>3, <1>4, Recursion
<1>7. \A j \in 1..DealCount : j - 1 \in 0..DealCount
  BY <1>3
<1>8. c[0] = first /\ \A j \in 1..DealCount : c[j] = Check(c[j - 1], all[j])
  BY <1>5, <1>6, <1>7 DEF Follows
<1>9. \E g : g = [j \in 0..DealCount |->
                    IF j = 0 THEN first ELSE Check(g[j - 1], all[j])]
  <2>1. c = [j \in 0..DealCount |->
               IF j = 0 THEN first ELSE Check(c[j - 1], all[j])]
    BY <1>3, <1>8
  <2> QED
    BY <2>1
<1>10. s = [j \in 0..DealCount |->
              IF j = 0 THEN first ELSE Check(s[j - 1], all[j])]
  BY <1>1, <1>9
<1>11. \A j \in 0..DealCount : s[j] = c[j]
  <2> DEFINE T == {j \in Nat : j <= DealCount => s[j] = c[j]}
  <2>1. 0 \in T
    BY <1>3, <1>8, <1>10
  <2>2. ASSUME NEW j \in Nat, j < DealCount, j \in T PROVE j + 1 \in T
    <3> DEFINE k == j + 1
    <3>1. k \in 1..DealCount /\ k \in 0..DealCount /\ k - 1 = j /\ k # 0 /\ k \in Nat
      BY <1>3, <2>2
    <3> HIDE DEF k
    <3>2. s[k] = Check(s[k - 1], all[k]) /\ c[k] = Check(c[k - 1], all[k])
      BY <1>8, <1>10, <3>1
    <3>3. s[k] = c[k]
      <4>1. s[j] = c[j]
        BY <1>3, <2>2
      <4>2. s[k - 1] = c[k - 1]
        BY <3>1, <4>1
      <4> HIDE DEF T
      <4> QED
        BY <3>2, <4>2, Zenon
    <3>4. k \in T
      BY <3>1, <3>3
    <3> QED
      BY <3>4 DEF k
  <2> HIDE DEF T
  <2>3. \A j \in 0..DealCount : j \in T
    BY <1>3, <2>1, <2>2, Inductive
  <2> QED
    BY <1>3, <2>3 DEF T
<1>12. DealCount \in 0..DealCount
  BY <1>3
<1> QED
  BY <1>2, <1>8, <1>11, <1>12 DEF Trial, all, first

----------------------------------------------------------------------------
(* Windows that show what they hold *)

\* What a trade needs to move all it shows, each the absence of a case in which the
\* code does not: nobody can ask for a trade while he trades (a chat room or @trade
\* gets past the check of clif_parse_TradeRequest); what players come by meanwhile
\* weighs nothing, and nothing else is used up (a slot emptied under a window may
\* take another item, a heavier load be refused); no item has a limit of its own
\* (trade_check compares with MAX_AMOUNT, pc_additem with stack.amount); items of
\* one name and cards are alike (pc_additem tells their marks apart, trade_check does
\* not); and what stacks is in one slot at first.
Careful ==
  /\ AskAnyway = {}
  /\ \A x \in Found : Weight[x] = 0 /\ \A y \in Used : y = x
  /\ \A x \in Items : Limit[x] = MaxAmount
  /\ \A x, y \in Items : NameOf[x] = NameOf[y] => x = y
  /\ \A p \in Players : Unique(Start[p])

\* p's k-th entry is in use.
Uses(p, k) == deal[p].item[k].amount > 0
\* What each entry of a window is worth.
Priced(p, val) == [k \in 1..DealSlots |->
                     IF Uses(p, k) THEN val[deal[p].item[k].shown] * deal[p].item[k].amount
                                   ELSE 0]
\* What p shows is what is in his slots, unless it has been used up.
Shows(p) ==
  \A k \in 1..DealSlots : Uses(p, k) =>
    LET x == inventory[p][deal[p].item[k].index].item IN
      /\ deal[p].item[k].shown \in Items
      /\ x # deal[p].item[k].shown => x = NoItem /\ deal[p].item[k].shown \in Used
\* deal.weight is the weight of what the window shows.
Weighed(p) == deal[p].weight = Total(Priced(p, Weight), DealSlots)
\* A player's partner can carry what the window shows.
Bearable(p) == (\E k \in 1..DealSlots : Uses(p, k)) =>
                 Load(inventory[partner[p]]) + deal[p].weight <= MaxWeight

\* The totals of a window are numbers that only grow.
LEMMA PricedNat ==
  ASSUME TradeTypeOK, NEW p \in Players, Shows(p), NEW val \in Values
  PROVE  /\ Priced(p, val) \in [1..DealSlots -> Nat]
         /\ Total(Priced(p, val), 0) = 0
         /\ \A k \in 0..DealSlots : Total(Priced(p, val), k) \in Nat
         /\ \A k \in 1..DealSlots : Total(Priced(p, val), k)
                                      = Total(Priced(p, val), k - 1) + Priced(p, val)[k]
         /\ \A k \in 0..DealSlots :
              Total(Priced(p, val), k) <= Total(Priced(p, val), DealSlots)
<1>1. ASSUME NEW k \in 1..DealSlots, Uses(p, k)
      PROVE  val[deal[p].item[k].shown] * deal[p].item[k].amount \in Nat
  <2> DEFINE a == val[deal[p].item[k].shown]
             m == deal[p].item[k].amount
  <2>1. a \in Nat
    BY <1>1 DEF Shows, Values
  <2>2. m \in Nat
    BY EntryTypes
  <2> HIDE DEF a, m
  <2>3. a * m \in Nat
    BY <2>1, <2>2, Product
  <2> QED
    BY <2>3 DEF a, m
<1>2. Priced(p, val) \in [1..DealSlots -> Nat]
  BY <1>1 DEF Priced
<1> DEFINE f == Priced(p, val)
<1>3. f \in [1..DealSlots -> Nat] /\ f \in [1..DealSlots -> Int] /\ DealSlots \in Nat
  BY <1>2, Numbers
<1> HIDE DEF f
<1>4. /\ Total(f, 0) = 0
      /\ \A k \in 1..DealSlots : Total(f, k) = Total(f, k - 1) + f[k]
  BY <1>3, Sums
<1>5. /\ \A k \in 0..DealSlots : Total(f, k) \in Nat
      /\ \A j, k \in 0..DealSlots : j <= k => Total(f, j) <= Total(f, k)
  BY <1>3, SumGrows
<1>6. \A k \in 0..DealSlots : Total(f, k) <= Total(f, DealSlots)
  <2>1. DealSlots \in 0..DealSlots /\ \A k \in 0..DealSlots : k <= DealSlots
    BY <1>3
  <2> QED
    BY <1>5, <2>1
<1> QED
  BY <1>2, <1>4, <1>5, <1>6 DEF f

----------------------------------------------------------------------------
(* The check and the deals side by side *)

\* The slots that p's next deals name are the same in both.
Alongside(c, h, p, a) ==
  \A k \in 1..DealSlots : k > a /\ Uses(p, k) => Match(c, h, deal[p].item[k].index)

\* After a deals of p and b of q, p has what he had, less what he gave, and what
\* he got.
Balance(v, p, q, a, b) ==
  \A val \in Values : Worth(v, val) = Worth(inventory[p], val)
                        - Total(Priced(p, val), a) + Total(Priced(q, val), b)

\* Check and hand-over after a deals of p and b of q.
Abreast(c, h, p, q, a, b) ==
  /\ c \in Checks /\ Kept(h, p, q, a, b)
  /\ Twins(c.inv[p], h[p]) /\ Twins(c.inv[q], h[q])
  /\ Alongside(c.inv[p], h[p], p, a) /\ Alongside(c.inv[q], h[q], q, b)
  /\ Balance(h[p], p, q, a, b) /\ Balance(h[q], q, p, b, a)

\* It does not matter which of the two is called p.
LEMMA AbreastEither ==
  ASSUME NEW c, NEW h, NEW p, NEW q, NEW a, NEW b, Abreast(c, h, p, q, a, b)
  PROVE  Abreast(c, h, q, p, b, a)
BY KeptEither DEF Abreast

\* A deal that passes trade_check is accepted by pc_additem, and check and
\* hand-over stay abreast.
LEMMA AbreastStep ==
  ASSUME TypeInv, Careful, NEW p \in Players, NEW q \in Players, p # q,
         \A r \in {p, q} : Shows(r) /\ Weighed(r) /\ Bearable(r), partner[p] = q,
         NEW a \in 0..(DealSlots - 1), NEW b \in 0..DealSlots, NEW c, NEW h,
         Abreast(c, h, p, q, a, b), Check(c, Gift(p, q, a + 1)).ok
  PROVE  Abreast(Check(c, Gift(p, q, a + 1)), Hand(h, Gift(p, q, a + 1)), p, q, a + 1, b)
<1> DEFINE k == a + 1
           d == Gift(p, q, k)
           i == deal[p].item[k].index
           n == deal[p].item[k].amount
           x == deal[p].item[k].shown
           c2 == Check(c, d)
           h2 == Hand(h, d)
<1>1. k \in 1..DealSlots /\ a \in 0..DealSlots /\ k \in 0..DealSlots /\ k - 1 = a /\ k > a
  BY Numbers
<1>2. TradeTypeOK /\ Ordered(p) /\ Shows(p) /\ Shows(q)
  BY DEF TypeInv
<1>3. i \in 1..MaxSlots /\ n \in Nat /\ n \in 0..MaxAmount /\ d \in Gifts
  BY <1>1, <1>2, EntryTypes, TakeTurns DEF TradeTypeOK
<1>4. d.from = p /\ d.to = q /\ d.index = i /\ d.amount = n
  BY DEF Gift
<1>5. /\ c \in Checks /\ Kept(h, p, q, a, b) /\ Twins(c.inv[p], h[p]) /\ Twins(c.inv[q], h[q])
      /\ Alongside(c.inv[p], h[p], p, a) /\ Alongside(c.inv[q], h[q], q, b)
      /\ Balance(h[p], p, q, a, b) /\ Balance(h[q], q, p, b, a)
  BY DEF Abreast
<1>6. Kept(h2, p, q, k, b)
  BY <1>5, HandKeeps
<1>7. c2 \in Checks /\ c2.ok
  BY <1>3, <1>5, CheckTypes
<1>8. \A val \in Values : Total(Priced(p, val), k) = Total(Priced(p, val), a) + Priced(p, val)[k]
  <2> SUFFICES ASSUME NEW val \in Values
               PROVE  Total(Priced(p, val), k) = Total(Priced(p, val), a) + Priced(p, val)[k]
    OBVIOUS
  <2>1. Total(Priced(p, val), k) = Total(Priced(p, val), k - 1) + Priced(p, val)[k]
    <3> HIDE DEF k
    <3> QED
      BY <1>1, <1>2, PricedNat
  <2> QED
    BY <1>1, <2>1
<1> HIDE DEF k, d, i, n, x, c2, h2
<1>9. CASE n = 0
  <2>1. c2 = c /\ h2 = h
    BY <1>3, <1>4, <1>5, <1>9, CheckNot, HandNot DEF c2, h2
  <2>2. \A val \in Values : Priced(p, val)[k] = 0
    BY <1>1, <1>9 DEF Priced, Uses, n
  <2>3. \A val \in Values : Total(Priced(p, val), k) = Total(Priced(p, val), a)
    <3> SUFFICES ASSUME NEW val \in Values
                 PROVE  Total(Priced(p, val), k) = Total(Priced(p, val), a)
      OBVIOUS
    <3>1. Total(Priced(p, val), a) \in Nat
      BY <1>1, <1>2, PricedNat
    <3> QED
      BY <1>8, <2>2, <3>1
  <2>4. Balance(h[p], p, q, k, b) /\ Balance(h[q], q, p, b, k)
    BY <1>5, <2>3 DEF Balance
  <2>5. Alongside(c.inv[p], h[p], p, k)
    BY <1>1, <1>5, Numbers DEF Alongside
  <2> QED
    BY <1>5, <1>6, <2>1, <2>4, <2>5 DEF Abreast, k, c2, h2, d
<1>10. CASE n # 0
  <2>1. Passes(c, d) /\ c.ok
    <3>1. ~(~c.ok \/ d.amount = 0 \/ ~Passes(c, d))
      BY <1>3, <1>4, <1>5, <1>7, <1>10, CheckNot DEF c2
    <3> QED
      BY <3>1
  <2>2. n \in Nat \ {0} /\ n \in 1..MaxAmount /\ Uses(p, k)
    BY <1>3, <1>10, Numbers DEF Uses, n
  <2>3. /\ Match(c.inv[p], h[p], i) /\ h[p][i].item = inventory[p][i].item
        /\ n <= h[p][i].amount
    BY <1>1, <1>5, <2>2 DEF Alongside, Kept, Ready, Uses, i, n
  <2>4. Valid(h[p]) /\ Valid(h[q]) /\ h \in Bags
    BY <1>5 DEF Kept
  <2>5. h[p][i].item # NoItem
    <3>1. /\ h[p][i].amount \in Nat
          /\ h[p][i].item = NoItem <=> h[p][i].amount = 0
      BY <1>3, <2>4, EachSlot
    <3> HIDE DEF i, n
    <3> QED
      BY <2>2, <2>3, <3>1
  <2>6. h[p][i].item = x /\ x \in Items /\ c.inv[p][i].item = x
    <3>1. /\ x \in Items
          /\ inventory[p][i].item # x => inventory[p][i].item = NoItem
      BY <1>1, <1>2, <2>2 DEF Shows, x, i
    <3> QED
      BY <2>3, <2>5, <3>1 DEF Match
  <2>7. Namesake(x) = Same(x) /\ Limit[x] = MaxAmount
    BY <2>6 DEF Careful, Namesake, Same
  <2>8. Fits(c.inv[q], x, n, Same(x), MaxAmount)
    BY <1>4, <2>1, <2>6, <2>7 DEF Passes
  <2> DEFINE cq == Put(c.inv[q], x, n, Same(x))
             hq == Put(h[q], x, n, Same(x))
             cp == Given(c.inv[p], i, n)
             hp == Take(h[p], i, n)
  <2>9. /\ Fits(h[q], x, n, Same(x), MaxAmount) /\ Twins(cq, hq)
        /\ \A j \in 1..MaxSlots : Match(c.inv[q], h[q], j) => Match(cq, hq, j)
    BY <1>5, <2>2, <2>6, <2>8, TwinsPut
  <2>10. /\ Twins(cp, hp)
         /\ \A j \in 1..MaxSlots : j # i /\ Match(c.inv[p], h[p], j) => Match(cp, hp, j)
    BY <1>3, <1>5, <2>2, <2>3, TwinsTake
  <2>11. c2.inv[q] = cq /\ c2.inv[p] = cp
    <3>1. x = c.inv[d.from][d.index].item /\ d.amount # 0
      BY <1>4, <1>10, <2>6
    <3>2. /\ Check(c, d).inv[d.to] = Put(c.inv[d.to], x, d.amount, Namesake(x))
          /\ Check(c, d).inv[d.from] = Given(c.inv[d.from], d.index, d.amount)
      BY <1>3, <1>5, <2>1, <3>1, CheckDone
    <3> QED
      BY <1>4, <2>7, <3>2 DEF c2
  <2>12. /\ \A val \in Values : Worth(hq, val) = Worth(h[q], val) + val[x] * n
         /\ \A val \in Values : Worth(hp, val) = Worth(h[p], val) - val[x] * n
         /\ \A val \in Values : Worth(h[p], val) \in Nat /\ Worth(h[q], val) \in Nat
    <3>1. MaxAmount \in 0..MaxAmount
      BY Numbers
    <3>2. ASSUME NEW val \in Values
          PROVE  Worth(hq, val) = Worth(h[q], val) + val[x] * n
      BY <2>2, <2>4, <2>6, <2>9, <3>1, WorthPut
    <3>3. ASSUME NEW val \in Values
          PROVE  Worth(hp, val) = Worth(h[p], val) - val[x] * n
      <4>1. Worth(hp, val) = Worth(h[p], val) - val[h[p][i].item] * n
        BY <1>3, <2>2, <2>3, <2>4, WorthTake
      <4> QED
        BY <2>6, <4>1
    <3> QED
      BY <2>4, <3>2, <3>3, PiecesNat
  <2>13. \A val \in Values : Priced(p, val)[k] = val[x] * n /\ val[x] * n \in Nat
    <3>1. \A val \in Values : Priced(p, val)[k] = val[x] * n
      BY <1>1, <2>2 DEF Priced, x, n
    <3>2. \A val \in Values : Priced(p, val)[k] \in Nat
      BY <1>1, <1>2, PricedNat
    <3> QED
      BY <3>1, <3>2
  <2>14. Load(h[q]) + Weight[x] * n <= MaxWeight
    <3> DEFINE W == Weight
               P == Priced(p, W)
               Q == Priced(q, W)
    <3>1. W \in Values
      BY BoundsAssumption DEF Values
    <3>2. /\ Total(P, a) \in Nat /\ Total(P, k) \in Nat /\ Total(P, DealSlots) \in Nat
          /\ Total(P, k) <= Total(P, DealSlots) /\ Total(Q, b) \in Nat
          /\ Total(P, k) = Total(P, a) + W[x] * n /\ W[x] * n \in Nat
      <4>1. DealSlots \in 0..DealSlots
        BY Numbers
      <4>2. /\ \A j \in 0..DealSlots : Total(P, j) \in Nat /\ Total(Q, j) \in Nat
            /\ \A j \in 0..DealSlots : Total(P, j) <= Total(P, DealSlots)
        BY <1>2, <3>1, PricedNat
      <4>3. Total(P, k) = Total(P, a) + W[x] * n /\ W[x] * n \in Nat
        BY <1>8, <2>13, <3>1
      <4> HIDE DEF P, Q
      <4> QED
        BY <1>1, <4>1, <4>2, <4>3
    <3>3. Worth(h[q], W) = Worth(inventory[q], W) - Total(Q, b) + Total(P, a)
      BY <1>5, <3>1 DEF Balance
    <3>4. Worth(inventory[q], W) + Total(P, DealSlots) <= MaxWeight
      BY <1>1, <2>2, LoadIsWorth DEF Bearable, Weighed
    <3>5. Worth(inventory[q], W) \in Nat /\ Worth(h[q], W) \in Nat
      BY <1>2, <2>4, <3>1, HeldBags, PiecesNat
    <3> HIDE DEF P, Q, W
    <3>6. Worth(h[q], W) + W[x] * n <= MaxWeight
      BY <3>2, <3>3, <3>4, <3>5, Numbers
    <3> QED
      BY <3>6, LoadIsWorth DEF W
  <2>15. h2[q] = hq /\ h2[p] = hp
    <3>1. Adds(h[q], x, n)
      BY <2>7, <2>9, <2>14 DEF Adds
    <3>2. x = h[d.from][d.index].item /\ d.amount # 0 /\ Adds(h[d.to], x, d.amount)
      BY <1>4, <1>10, <2>6, <3>1
    <3>3. /\ Hand(h, d)[d.to] = Put(h[d.to], x, d.amount, Same(x))
          /\ Hand(h, d)[d.from] = Take(h[d.from], d.index, d.amount)
      BY <1>3, <2>4, <3>2, HandDone
    <3> QED
      BY <1>4, <3>3 DEF h2
  <2> HIDE DEF cq, hq, cp, hp
  <2>16. Alongside(c2.inv[q], h2[q], q, b)
    <3>1. \A j \in 1..DealSlots : deal[q].item[j].index \in 1..MaxSlots
      BY <1>2, EntryTypes
    <3> QED
      BY <1>5, <2>9, <2>11, <2>15, <3>1 DEF Alongside
  <2>17. Alongside(c2.inv[p], h2[p], p, k)
    <3> SUFFICES ASSUME NEW j \in 1..DealSlots, j > k, Uses(p, j)
                 PROVE  Match(c2.inv[p], h2[p], deal[p].item[j].index)
      BY DEF Alongside
    <3>1. deal[p].item[j].index # i /\ deal[p].item[j].index \in 1..MaxSlots
      BY <1>1, <1>2, EntryTypes DEF Ordered, Uses, i
    <3>2. Match(c.inv[p], h[p], deal[p].item[j].index)
      BY <1>1, <1>5, Numbers DEF Alongside
    <3> QED
      BY <2>10, <2>11, <2>15, <3>1, <3>2
  <2>18. Balance(h2[p], p, q, k, b) /\ Balance(h2[q], q, p, b, k)
    <3>1. ASSUME NEW val \in Values
          PROVE  /\ Worth(hp, val) = Worth(inventory[p], val)
                       - Total(Priced(p, val), k) + Total(Priced(q, val), b)
                 /\ Worth(hq, val) = Worth(inventory[q], val)
                       - Total(Priced(q, val), b) + Total(Priced(p, val), k)
      <4>1. /\ Total(Priced(p, val), a) \in Nat /\ Total(Priced(q, val), b) \in Nat
        BY <1>1, <1>2, PricedNat
      <4>2. Worth(inventory[p], val) \in Nat /\ Worth(inventory[q], val) \in Nat
        BY <1>2, HeldBags, PiecesNat
      <4>3. /\ Total(Priced(p, val), k) = Total(Priced(p, val), a) + val[x] * n
            /\ val[x] * n \in Nat
        BY <1>8, <2>13
      <4>4. /\ Worth(h[p], val) = Worth(inventory[p], val)
                 - Total(Priced(p, val), a) + Total(Priced(q, val), b)
            /\ Worth(h[q], val) = Worth(inventory[q], val)
                 - Total(Priced(q, val), b) + Total(Priced(p, val), a)
        BY <1>5 DEF Balance
      <4>5. /\ Worth(hq, val) = Worth(h[q], val) + val[x] * n
            /\ Worth(hp, val) = Worth(h[p], val) - val[x] * n
        BY <2>12
      <4> QED
        BY <4>1, <4>2, <4>3, <4>4, <4>5
    <3> QED
      BY <2>15, <3>1 DEF Balance
  <2> QED
    BY <1>6, <1>7, <2>9, <2>10, <2>11, <2>15, <2>16, <2>17, <2>18
       DEF Abreast, k, c2, h2, d
<1> QED
  BY <1>9, <1>10

\* A check that passes to the end passed all along.
LEMMA TrialOk ==
  ASSUME deal \in [Players -> Deal], NEW p \in Players, NEW q \in Players, p # q,
         NEW c \in [0..DealCount -> Checks], Trial(c, p, q), c[DealCount].ok
  PROVE  \A j \in 0..DealCount : c[j].ok
<1>1. DealCount \in Nat
  BY Numbers DEF DealCount
<1>2. ASSUME NEW j \in 1..DealCount
      PROVE  j - 1 \in 0..DealCount /\ (c[j].ok => c[j - 1].ok)
  <2>1. j - 1 \in 0..DealCount
    BY <1>1
  <2>2. c[j - 1] \in Checks /\ Deals(p, q)[j] \in Gifts
    BY <2>1, AllGifts
  <2>3. c[j] = Check(c[j - 1], Deals(p, q)[j])
    BY DEF Trial
  <2> QED
    BY <2>1, <2>2, <2>3, CheckTypes
<1> DEFINE T == {i \in Nat : i <= DealCount => c[DealCount - i].ok}
<1>3. 0 \in T
  BY <1>1
<1>4. ASSUME NEW i \in Nat, i < DealCount, i \in T PROVE i + 1 \in T
  <2> DEFINE j == DealCount - i
  <2>1. j \in 1..DealCount /\ DealCount - (i + 1) = j - 1 /\ i + 1 \in Nat
    BY <1>1, <1>4
  <2>2. c[j].ok
    BY <1>1, <1>4
  <2> HIDE DEF j
  <2>3. c[j - 1].ok
    BY <1>2, <2>1, <2>2
  <2>4. c[DealCount - (i + 1)].ok
    BY <2>1, <2>3
  <2> QED
    BY <2>1, <2>4
<1> HIDE DEF T
<1>5. \A i \in 0..DealCount : i \in T
  BY <1>1, <1>3, <1>4, Inductive
<1> QED
  <2> SUFFICES ASSUME NEW j \in 0..DealCount PROVE c[j].ok
    OBVIOUS
  <2>1. DealCount - j \in 0..DealCount /\ DealCount - (DealCount - j) = j
    BY <1>1
  <2>2. DealCount - j \in T /\ DealCount - j <= DealCount
    BY <1>1, <1>5, <2>1
  <2> QED
    BY <2>1, <2>2 DEF T

\* What the windows of p and q have to be for a trade to move what they show.
Fair(p) == Shows(p) /\ Weighed(p) /\ Bearable(p) /\ Unique(inventory[p])

\* Before the first deal check and hand-over are abreast.
LEMMA AbreastAtFirst ==
  ASSUME TypeInv, Careful, NEW p \in Players, NEW q \in Players, p # q,
         Fair(p), Fair(q), ~Impossible(p), ~Impossible(q)
  PROVE  Abreast([ok |-> TRUE, inv |-> inventory], inventory, p, q, 0, 0)
<1>1. TradeTypeOK /\ inventory \in Bags /\ \A r \in Players : Valid(inventory[r])
  BY HeldBags DEF TypeInv
<1>2. ASSUME NEW r \in Players, ~Impossible(r)
      PROVE  /\ Ready(inventory[r], r, 0)
             /\ Alongside(inventory[r], inventory[r], r, 0)
  <2>1. ASSUME NEW k \in 1..DealSlots, deal[r].item[k].amount > 0
        PROVE  LET i == deal[r].item[k].index IN
                 /\ inventory[r][i].amount >= deal[r].item[k].amount
                 /\ inventory[r][i].amount > 0
    <3> DEFINE i == deal[r].item[k].index
               n == deal[r].item[k].amount
    <3>1. inventory[r][i].amount \in Nat /\ n \in Nat
      BY <1>1, EntryTypes, EachSlot
    <3>2. inventory[r][i].amount >= n
      BY <1>1, <1>2, HasPromised
    <3> HIDE DEF i
    <3>3. inventory[r][i].amount > 0
      BY <2>1, <3>1, <3>2
    <3> QED
      BY <3>2, <3>3 DEF i
  <2> QED
    BY <2>1 DEF Ready, Alongside, Match, Uses
<1>3. Kept(inventory, p, q, 0, 0)
  BY <1>1, <1>2 DEF Kept
<1>4. Twins(inventory[p], inventory[p]) /\ Twins(inventory[q], inventory[q])
  BY <1>1, TwinsAtFirst DEF Fair
<1>5. Balance(inventory[p], p, q, 0, 0) /\ Balance(inventory[q], q, p, 0, 0)
  <2>1. ASSUME NEW val \in Values
        PROVE  /\ Total(Priced(p, val), 0) = 0 /\ Total(Priced(q, val), 0) = 0
               /\ Worth(inventory[p], val) \in Nat /\ Worth(inventory[q], val) \in Nat
    BY <1>1, PricedNat, PiecesNat DEF Fair
  <2> QED
    BY <2>1 DEF Balance
<1> DEFINE c == [ok |-> TRUE, inv |-> inventory]
<1>6. c \in Checks /\ c.inv = inventory
  BY <1>1 DEF Checks
<1> HIDE DEF c
<1>7. Alongside(c.inv[p], inventory[p], p, 0) /\ Alongside(c.inv[q], inventory[q], q, 0)
  BY <1>2, <1>6
<1>8. Abreast(c, inventory, p, q, 0, 0)
  BY <1>3, <1>4, <1>5, <1>6, <1>7 DEF Abreast
<1> QED
  BY <1>8 DEF c

\* When the check passes, every deal is done.
LEMMA CourseAbreast ==
  ASSUME TypeInv, Careful, NEW p \in Players, NEW q \in Players, p # q,
         partner[p] = q, partner[q] = p,
         Fair(p), Fair(q), ~Impossible(p), ~Impossible(q),
         NEW c \in [0..DealCount -> Checks], Trial(c, p, q), c[DealCount].ok,
         NEW h, Course(h, p, q)
  PROVE  Abreast(c[DealCount], h[DealCount], p, q, DealSlots, DealSlots)
<1>1. deal \in [Players -> Deal]
  BY DEF TypeInv, TradeTypeOK
<1>2. \A j \in 0..DealCount : c[j].ok
  BY <1>1, TrialOk
<1>3. \A r \in {p, q} : Shows(r) /\ Weighed(r) /\ Bearable(r)
  BY DEF Fair
<1> DEFINE T == {k \in Nat : k <= DealSlots => Abreast(c[2 * k], h[2 * k], p, q, k, k)}
<1>4. 0 \in T
  <2>1. c[0] = [ok |-> TRUE, inv |-> inventory] /\ h[0] = inventory
    BY DEF Trial, Course
  <2>2. Abreast(c[0], h[0], p, q, 0, 0)
    BY <2>1, AbreastAtFirst
  <2>3. Abreast(c[2 * 0], h[2 * 0], p, q, 0, 0)
    BY <2>2
  <2> QED
    BY <2>3
<1>5. ASSUME NEW k \in Nat, k < DealSlots, k \in T PROVE k + 1 \in T
  <2> DEFINE l == k + 1
             m == 2 * l - 1
             n == 2 * l
  <2>1. /\ l \in 1..DealSlots /\ l \in Nat /\ k \in 0..(DealSlots - 1)
        /\ k \in 0..DealSlots /\ l \in 0..DealSlots /\ k + 1 = l
        /\ m - 1 = 2 * k /\ n - 1 = m
        /\ m \in 1..DealCount /\ n \in 1..DealCount
        /\ m \in 0..DealCount /\ n \in 0..DealCount
    BY <1>5, Numbers DEF DealCount
  <2>2. Abreast(c[2 * k], h[2 * k], p, q, k, k)
    BY <1>5, Numbers
  <2> HIDE DEF T
  <2>3. /\ Deals(p, q)[m] = Gift(p, q, l) /\ Deals(p, q)[n] = Gift(q, p, l)
    <3>1. Deals(p, q)[2 * l - 1] = Gift(p, q, l) /\ Deals(p, q)[2 * l] = Gift(q, p, l)
      <4> HIDE DEF l
      <4> QED
        BY <1>1, <2>1, TakeTurns
    <3> QED
      BY <3>1
  <2> HIDE DEF l, m, n
  <2>4. /\ c[m] = Check(c[2 * k], Gift(p, q, l)) /\ h[m] = Hand(h[2 * k], Gift(p, q, l))
        /\ c[n] = Check(c[m], Gift(q, p, l)) /\ h[n] = Hand(h[m], Gift(q, p, l))
    <3>1. /\ c[m] = Check(c[m - 1], Deals(p, q)[m]) /\ h[m] = Hand(h[m - 1], Deals(p, q)[m])
          /\ c[n] = Check(c[n - 1], Deals(p, q)[n]) /\ h[n] = Hand(h[n - 1], Deals(p, q)[n])
      BY <2>1 DEF Trial, Course
    <3> QED
      BY <2>1, <2>3, <3>1
  <2>5. c[m].ok /\ c[n].ok
    BY <1>2, <2>1
  <2> DEFINE c0 == c[2 * k]
             h0 == h[2 * k]
             c1 == c[m]
             h1 == h[m]
             c2 == c[n]
             h2 == h[n]
  <2>6. /\ Abreast(c0, h0, p, q, k, k)
        /\ c1 = Check(c0, Gift(p, q, l)) /\ h1 = Hand(h0, Gift(p, q, l))
        /\ c2 = Check(c1, Gift(q, p, l)) /\ h2 = Hand(h1, Gift(q, p, l))
        /\ c1.ok /\ c2.ok
    BY <2>2, <2>4, <2>5
  <2> HIDE DEF c0, h0, c1, h1, c2, h2
  <2>7. Abreast(c1, h1, p, q, l, k)
    <3>1. Check(c0, Gift(p, q, k + 1)).ok
      BY <2>1, <2>6
    <3>2. Abreast(Check(c0, Gift(p, q, k + 1)), Hand(h0, Gift(p, q, k + 1)), p, q, k + 1, k)
      BY <1>3, <2>1, <2>6, <3>1, AbreastStep
    <3> QED
      BY <2>1, <2>6, <3>2
  <2>8. Abreast(c2, h2, p, q, l, l)
    <3>1. Abreast(c1, h1, q, p, k, l)
      BY <2>7, AbreastEither
    <3>2. Check(c1, Gift(q, p, k + 1)).ok /\ \A r \in {q, p} : Shows(r) /\ Weighed(r) /\ Bearable(r)
      BY <1>3, <2>1, <2>6
    <3>3. Abreast(Check(c1, Gift(q, p, k + 1)), Hand(h1, Gift(q, p, k + 1)), q, p, k + 1, l)
      BY <2>1, <3>1, <3>2, AbreastStep
    <3>4. Abreast(c2, h2, q, p, l, l)
      BY <2>1, <2>6, <3>3
    <3> QED
      BY <3>4, AbreastEither
  <2>9. Abreast(c[2 * l], h[2 * l], p, q, l, l)
    BY <2>8 DEF c2, h2, n
  <2>10. l \in T
    BY <2>1, <2>9 DEF T
  <2> QED
    BY <2>10 DEF l
<1> HIDE DEF T
<1>6. \A k \in 0..DealSlots : k \in T
  BY <1>4, <1>5, Numbers, Inductive
<1>7. DealSlots \in T /\ DealSlots <= DealSlots
  BY <1>6, Numbers
<1> QED
  BY <1>7 DEF T, DealCount

\* A trade moves what the windows show, both ways, and all of it.
LEMMA Settled ==
  ASSUME TypeInv, Careful, NEW p \in Players, NEW q \in Players, p # q,
         partner[p] = q, partner[q] = p,
         Fair(p), Fair(q), ~Impossible(p), ~Impossible(q), Checked(p, q).ok
  PROVE  /\ \A r \in Players : Valid(Handed(p, q)[r])
         /\ \A r \in Players : r \notin {p, q} => Handed(p, q)[r] = inventory[r]
         /\ Unique(Handed(p, q)[p]) /\ Unique(Handed(p, q)[q])
         /\ Balance(Handed(p, q)[p], p, q, DealSlots, DealSlots)
         /\ Balance(Handed(p, q)[q], q, p, DealSlots, DealSlots)
<1>1. TradeTypeOK /\ inventory \in Bags /\ deal \in [Players -> Deal]
  BY HeldBags DEF TypeInv, TradeTypeOK
<1>2. PICK h \in [0..DealCount -> Bags] : Course(h, p, q) /\ Handed(p, q) = h[DealCount]
  BY <1>1, HandCourse
<1>3. PICK c \in [0..DealCount -> Checks] : Trial(c, p, q) /\ Checked(p, q) = c[DealCount]
  BY <1>1, CheckCourse
<1>4. Abreast(c[DealCount], Handed(p, q), p, q, DealSlots, DealSlots)
  <2>1. c[DealCount].ok
    BY <1>3
  <2>2. Abreast(c[DealCount], h[DealCount], p, q, DealSlots, DealSlots)
    BY <1>2, <1>3, <2>1, CourseAbreast
  <2> QED
    BY <1>2, <2>2
<1> QED
  BY <1>4 DEF Abreast, Kept, Twins

\* A window counts what it shows as an inventory counts what it holds.
LEMMA WindowIsPriced ==
  ASSUME TypeInv, NEW p \in Players, Shows(p), NEW g \in Items, g # Money
  PROVE  /\ Of(g) \in Values
         /\ InWindow(p)[g] = Total(Priced(p, Of(g)), DealSlots)
         /\ InWindow(p)[g] \in Nat
<1>1. TradeTypeOK
  BY DEF TypeInv
<1>2. Of(g) \in Values
  BY DEF Of, Values
<1>3. ASSUME NEW k \in 1..DealSlots
      PROVE  (IF deal[p].item[k].shown = g THEN deal[p].item[k].amount ELSE 0)
             = (IF Uses(p, k) THEN Of(g)[deal[p].item[k].shown] * deal[p].item[k].amount
                              ELSE 0)
  <2> DEFINE x == deal[p].item[k].shown
             n == deal[p].item[k].amount
  <2>1. n \in Nat
    BY <1>1, EntryTypes
  <2>2. CASE Uses(p, k)
    <3>1. x \in Items
      BY <2>2 DEF Shows
    <3>2. Of(g)[x] = IF x = g THEN 1 ELSE 0
      BY <3>1 DEF Of
    <3> QED
      BY <2>1, <2>2, <3>2
  <2>3. CASE ~Uses(p, k)
    BY <2>1, <2>3 DEF Uses
  <2> QED
    BY <2>2, <2>3
<1>4. [k \in 1..DealSlots |-> IF deal[p].item[k].shown = g
                              THEN deal[p].item[k].amount ELSE 0] = Priced(p, Of(g))
  BY <1>3 DEF Priced
<1>5. InWindow(p)[g] = Total(Priced(p, Of(g)), DealSlots)
  BY <1>4 DEF InWindow
<1>6. Total(Priced(p, Of(g)), DealSlots) \in Nat
  <2>1. DealSlots \in 0..DealSlots
    BY Numbers
  <2> QED
    BY <1>1, <1>2, <2>1, PricedNat
<1> QED
  BY <1>2, <1>5, <1>6

\* What is left of p's things without the slots of his first k entries.
Beside(p, val, k) ==
  [i \in 1..MaxSlots |-> IF \E l \in 1..k : Uses(p, l) /\ deal[p].item[l].index = i
                         THEN 0 ELSE Pieces(inventory[p], val)[i]]

\* Each entry is worth no more than the slot it names, and names one of its own.
LEMMA WindowHeld ==
  ASSUME TypeInv, NEW p \in Players, Shows(p), ~Impossible(p), NEW val \in Values
  PROVE  Total(Priced(p, val), DealSlots) <= Worth(inventory[p], val)
<1>1. TradeTypeOK /\ Ordered(p) /\ Valid(inventory[p]) /\ DealSlots \in Nat /\ MaxSlots \in Nat
  BY HeldBags, Numbers DEF TypeInv
<1> DEFINE f == Pieces(inventory[p], val)
           g == Priced(p, val)
           B(k) == Beside(p, val, k)
<1>2. f \in [1..MaxSlots -> Nat] /\ Worth(inventory[p], val) = Total(f, MaxSlots)
  BY <1>1, PiecesNat DEF Worth
<1>3. /\ Total(g, 0) = 0
      /\ \A k \in 0..DealSlots : Total(g, k) \in Nat
      /\ \A k \in 1..DealSlots : Total(g, k) = Total(g, k - 1) + g[k]
  BY <1>1, PricedNat
<1>4. \A k \in 0..DealSlots : B(k) \in [1..MaxSlots -> Nat] /\ B(k) \in [1..MaxSlots -> Int]
  <2> SUFFICES ASSUME NEW k \in 0..DealSlots
               PROVE  B(k) \in [1..MaxSlots -> Nat] /\ B(k) \in [1..MaxSlots -> Int]
    OBVIOUS
  <2>1. B(k) = [i \in 1..MaxSlots |->
                  IF \E l \in 1..k : Uses(p, l) /\ deal[p].item[l].index = i
                  THEN 0 ELSE f[i]]
    BY DEF Beside
  <2> HIDE DEF B, f
  <2>2. B(k) \in [1..MaxSlots -> Nat]
    BY <1>2, <2>1
  <2>3. \A s \in [1..MaxSlots -> Nat] : s \in [1..MaxSlots -> Int]
    OBVIOUS
  <2> QED
    BY <2>2, <2>3
<1>5. \A k \in 0..DealSlots : Total(B(k), MaxSlots) \in Nat
  <2> SUFFICES ASSUME NEW k \in 0..DealSlots PROVE Total(B(k), MaxSlots) \in Nat
    OBVIOUS
  <2> DEFINE b == B(k)
  <2>1. b \in [1..MaxSlots -> Nat]
    BY <1>4
  <2> HIDE DEF b, B
  <2>2. MaxSlots \in Nat /\ MaxSlots \in 0..MaxSlots
    BY <1>1
  <2>3. Total(b, MaxSlots) \in Nat
    BY <2>1, <2>2, SumGrows
  <2> QED
    BY <2>3 DEF b
<1> DEFINE T == {k \in Nat : k <= DealSlots =>
                   Total(B(k), MaxSlots) + Total(g, k) <= Total(f, MaxSlots)}
<1>6. 0 \in T
  <2>1. B(0) = f
    <3>1. \A l \in 1..0 : FALSE
      OBVIOUS
    <3>2. B(0) = [i \in 1..MaxSlots |->
                    IF \E l \in 1..0 : Uses(p, l) /\ deal[p].item[l].index = i
                    THEN 0 ELSE f[i]]
      BY DEF Beside
    <3>3. B(0) = [i \in 1..MaxSlots |-> f[i]]
      <4> HIDE DEF B, f
      <4> QED
        BY <3>1, <3>2
    <3> HIDE DEF B, f
    <3> QED
      BY <1>2, <3>3
  <2>2. Total(B(0), MaxSlots) = Total(f, MaxSlots) /\ Total(B(0), MaxSlots) \in Nat
    <3> HIDE DEF B, f
    <3> QED
      BY <1>1, <1>5, <2>1
  <2> HIDE DEF B, f, g
  <2> QED
    BY <1>3, <2>2
<1>7. ASSUME NEW j \in Nat, j < DealSlots, j \in T PROVE j + 1 \in T
  <2> DEFINE k == j + 1
             i == deal[p].item[k].index
             n == deal[p].item[k].amount
  <2>1. /\ k \in 1..DealSlots /\ k - 1 = j /\ k \in Nat /\ k \in 0..DealSlots
        /\ j \in 0..DealSlots
        /\ \A l \in 1..k : l \in 1..j \/ l = k
        /\ \A l \in 1..j : l \in 1..k /\ l \in 1..DealSlots /\ l < k
        /\ k \in 1..k
    BY <1>1, <1>7
  <2>2. Total(B(j), MaxSlots) + Total(g, j) <= Total(f, MaxSlots)
    BY <1>1, <1>7
  <2> HIDE DEF T, k, f, g
  <2>3. /\ Total(g, k) = Total(g, j) + g[k] /\ Total(g, j) \in Nat
        /\ Total(B(j), MaxSlots) \in Nat
    <3> HIDE DEF B
    <3> QED
      BY <1>3, <1>5, <2>1
  <2>4. i \in 1..MaxSlots /\ n \in Nat
    BY <1>1, <2>1, EntryTypes
  <2>5. CASE ~Uses(p, k)
    <3>1. g[k] = 0
      BY <2>1, <2>5 DEF g, Priced
    <3>2. B(k) = B(j)
      BY <2>1, <2>5 DEF Beside
    <3>3. Total(B(k), MaxSlots) + Total(g, k) <= Total(f, MaxSlots)
      <4> HIDE DEF B
      <4> QED
        BY <2>2, <2>3, <3>1, <3>2
    <3> QED
      BY <2>1, <3>3 DEF T, k
  <2>6. CASE Uses(p, k)
    <3> DEFINE x == deal[p].item[k].shown
               m == inventory[p][i].amount
               b == B(j)
               d == B(k)
    <3>1. n > 0 /\ x \in Items /\ m \in Nat /\ n <= m /\ inventory[p][i].item = x /\ val[x] \in Nat
      <4>1. n > 0
        BY <2>6 DEF Uses
      <4>2. m \in Nat /\ (m = 0 <=> inventory[p][i].item = NoItem)
        BY <1>1, <2>4, EachSlot
      <4>4. n <= m
        <5>1. m >= n
          BY <1>1, <2>1, HasPromised
        <5> HIDE DEF m, n
        <5> QED
          BY <2>4, <4>2, <5>1
      <4>5. inventory[p][i].item # NoItem
        <5> HIDE DEF m, n, i
        <5> QED
          BY <2>4, <4>1, <4>2, <4>4
      <4>6. x \in Items /\ inventory[p][i].item = x
        BY <2>1, <2>6, <4>5 DEF Shows
      <4> QED
        BY <4>1, <4>2, <4>4, <4>6 DEF Values
    <3>2. g[k] = val[x] * n
      BY <2>1, <2>6 DEF g, Priced
    <3>3. f[i] = val[x] * m
      BY <2>4, <3>1, Numbers DEF f, Pieces
    <3>4. b[i] = f[i]
      <4>1. ~\E l \in 1..j : Uses(p, l) /\ deal[p].item[l].index = i
        BY <1>1, <2>1, <2>6 DEF Ordered, Uses
      <4> QED
        BY <2>4, <4>1 DEF Beside, f
    <3>5. d[i] = 0
      BY <2>1, <2>4, <2>6 DEF Beside
    <3>6. \A s \in 1..MaxSlots : s # i => d[s] = b[s]
      BY <2>1 DEF Beside
    <3>7. b \in [1..MaxSlots -> Int] /\ d \in [1..MaxSlots -> Int]
      BY <1>4, <2>1
    <3> HIDE DEF b, d, B, x, m, i, n
    <3>8. Total(d, MaxSlots) = Total(b, MaxSlots) - b[i] + d[i]
      BY <1>1, <2>4, <3>6, <3>7, SumOneOff
    <3>9. /\ val[x] * m \in Nat /\ m - n \in Nat /\ val[x] * n \in Nat
          /\ val[x] * (m - n) = val[x] * m - val[x] * n /\ val[x] * (m - n) \in Nat
      BY <2>4, <3>1, Product
    <3>10. val[x] * n <= val[x] * m
      BY <3>9
    <3>11. Total(b, MaxSlots) + Total(g, j) <= Total(f, MaxSlots) /\ Total(b, MaxSlots) \in Nat
      BY <2>2, <2>3 DEF b
    <3>12. Total(f, MaxSlots) \in Nat
      BY <1>1, <1>2, PiecesNat DEF f
    <3>13. Total(d, MaxSlots) + Total(g, k) <= Total(f, MaxSlots)
      BY <2>3, <3>2, <3>3, <3>4, <3>5, <3>8, <3>9, <3>10, <3>11, <3>12
    <3> QED
      BY <2>1, <3>13 DEF T, k, d
  <2> QED
    BY <2>5, <2>6
<1> HIDE DEF T
<1>8. \A k \in 0..DealSlots : k \in T
  BY <1>1, <1>6, <1>7, Inductive
<1>9. Total(B(DealSlots), MaxSlots) + Total(g, DealSlots) <= Total(f, MaxSlots)
  <2>1. DealSlots \in T /\ DealSlots <= DealSlots
    BY <1>1, <1>8
  <2> QED
    BY <2>1 DEF T
<1>10. /\ Total(B(DealSlots), MaxSlots) \in Nat /\ Total(g, DealSlots) \in Nat
       /\ Total(f, MaxSlots) \in Nat
  <2>1. DealSlots \in 0..DealSlots
    BY <1>1
  <2> HIDE DEF B, f, g
  <2>2. Total(f, MaxSlots) \in Nat
    BY <1>1, <1>2, PiecesNat DEF f
  <2> QED
    BY <1>3, <1>5, <2>1, <2>2
<1> HIDE DEF B, f, g
<1>11. Total(g, DealSlots) <= Total(f, MaxSlots)
  BY <1>9, <1>10
<1> QED
  BY <1>2, <1>11 DEF f, g

----------------------------------------------------------------------------
(* Partners *)

\* The partnerships as they have to be for every step to keep them: partners
\* are in the game, so nobody ever looks for one who is gone.
MutualInv ==
  /\ here \subseteq Players
  /\ partner \in [Players -> Players \cup {Nobody}]
  /\ trading \in [Players -> BOOLEAN]
  /\ deal_locked \in [Players -> 0..2]
  /\ \A p \in Players : partner[p] # Nobody => p \in here
  /\ PartnersMutual

\* Whoever has a partner finds him in the game.
LEMMA PartnerIsThere ==
  ASSUME MutualInv, NEW p \in Players, partner[p] # Nobody
  PROVE  /\ partner[p] \in Players /\ partner[p] \in here /\ p \in here
         /\ partner[partner[p]] = p /\ There(p)
         /\ trading[partner[p]] = trading[p]
BY NobodyAssumption DEF MutualInv, PartnersMutual, There

\* A player and his partner, if he has one, part: they are nobody's partner,
\* their windows are closed, and he may have left.
LEMMA PartOK ==
  ASSUME MutualInv, NEW p \in Players, NEW S \in SUBSET Players, p \in S,
         partner[p] # Nobody => partner[p] \in S,
         \A q \in S : q = p \/ q = partner[p],
         here' \subseteq Players, \A q \in here : q = p \/ q \in here',
         partner' = [q \in Players |-> IF q \in S THEN Nobody ELSE partner[q]],
         trading' = [q \in Players |-> q \notin S /\ trading[q]],
         deal_locked' = [q \in Players |-> IF q \in S THEN 0 ELSE deal_locked[q]]
  PROVE  MutualInv'
<1>1. /\ partner' = [q \in Players |-> IF q \in S THEN Nobody ELSE partner[q]]
      /\ trading' = [q \in Players |-> q \notin S /\ trading[q]]
      /\ deal_locked' = [q \in Players |-> IF q \in S THEN 0 ELSE deal_locked[q]]
  OBVIOUS
<1>2. /\ partner' \in [Players -> Players \cup {Nobody}]
      /\ trading' \in [Players -> BOOLEAN]
      /\ deal_locked' \in [Players -> 0..2]
      /\ \A q \in Players : partner'[q] # Nobody => q \in here'
  BY <1>1 DEF MutualInv
<1>3. ASSUME NEW q \in Players, q \notin S, partner[q] # Nobody
      PROVE  partner[q] \in Players \ S
  <2>1. partner[q] \in Players /\ partner[partner[q]] = q
    BY <1>3, PartnerIsThere
  <2>2. partner[q] # p
    BY <2>1, <1>3, NobodyAssumption
  <2>3. CASE partner[q] = partner[p]
    BY <2>1, <2>3, <1>3, PartnerIsThere
  <2> QED
    BY <2>1, <2>2, <2>3
<1>4. PartnersMutual'
  <2>1. ASSUME NEW q \in Players, partner'[q] # Nobody
        PROVE  partner'[partner'[q]] = q /\ trading'[partner'[q]] = trading'[q]
    <3>1. q \notin S /\ partner'[q] = partner[q]
      BY <1>1, <2>1
    <3>2. /\ partner[q] \in Players \ S /\ partner[partner[q]] = q
          /\ trading[partner[q]] = trading[q]
      BY <1>3, <2>1, <3>1, PartnerIsThere
    <3> QED
      BY <1>1, <3>1, <3>2
  <2>2. ASSUME NEW q \in Players
        PROVE  /\ trading'[q] => partner'[q] # Nobody
               /\ deal_locked'[q] > 0 => trading'[q]
    <3>1. CASE q \in S
      <4>1. ~trading'[q] /\ deal_locked'[q] = 0
        BY <1>1, <3>1, Zenon
      <4> QED
        BY <4>1
    <3>2. CASE q \notin S
      BY <1>1, <3>2 DEF MutualInv, PartnersMutual
    <3> QED
      BY <3>1, <3>2
  <2> QED
    BY <2>1, <2>2 DEF PartnersMutual
<1> QED
  BY <1>2, <1>4 DEF MutualInv

\* Who has to part when p does.
Pair(p) == {p} \cup IF There(p) THEN {partner[p]} ELSE {}

LEMMA PairOK ==
  ASSUME MutualInv, NEW p \in Players
  PROVE  /\ Pair(p) \in SUBSET Players /\ p \in Pair(p)
         /\ partner[p] # Nobody => partner[p] \in Pair(p)
         /\ \A q \in Pair(p) : q = p \/ q = partner[p]
         /\ Parted(p) = [q \in Players |-> IF q \in Pair(p) THEN Nobody
                                                           ELSE partner[q]]
         /\ partner[p] # Nobody => Pair(p) = {p, partner[p]}
<1>1. There(p) => partner[p] \in Players
  BY NobodyAssumption DEF MutualInv, There
<1>2. partner[p] # Nobody => There(p)
  BY PartnerIsThere
<1> QED
  BY <1>1, <1>2 DEF Pair, Parted

LEMMA PairIdle ==
  ASSUME MutualInv, NEW p \in Players, ~trading[p], NEW q \in Pair(p)
  PROVE  q \in Players /\ trading[q] = FALSE /\ deal_locked[q] = 0
<1>1. trading[q] = FALSE /\ q \in Players
  BY PairOK, PartnerIsThere, NobodyAssumption DEF MutualInv
<1> QED
  BY <1>1 DEF MutualInv, PartnersMutual

\* Without an open window there is nothing to close.
LEMMA PartIdle ==
  ASSUME MutualInv, NEW p \in Players, ~trading[p], here' = here,
         partner' = Parted(p), UNCHANGED <<trading, deal_locked>>
  PROVE  MutualInv'
<1> DEFINE S == Pair(p)
<1>1. ASSUME NEW q \in S
      PROVE  q \in Players /\ trading[q] = FALSE /\ deal_locked[q] = 0
  BY PairIdle
<1>2. trading' = [q \in Players |-> q \notin S /\ trading[q]]
  BY <1>1 DEF MutualInv
<1>3. deal_locked' = [q \in Players |-> IF q \in S THEN 0 ELSE deal_locked[q]]
  BY <1>1 DEF MutualInv
<1>4. here' \subseteq Players
  BY DEF MutualInv
<1> HIDE DEF S
<1> QED
  BY <1>2, <1>3, <1>4, PairOK, PartOK DEF S

LEMMA ClosePair ==
  ASSUME MutualInv, NEW p \in Players, here' = here, Close(Pair(p))
  PROVE  MutualInv'
<1>1. here' \subseteq Players
  BY DEF MutualInv
<1> QED
  BY <1>1, PairOK, PartOK DEF Close

LEMMA CancelOK ==
  ASSUME MutualInv, NEW p \in Players, here' = here, Cancel(p)
  PROVE  MutualInv'
<1>1. CASE trading[p]
  BY <1>1, ClosePair DEF Cancel, Pair
<1>2. CASE ~trading[p]
  BY <1>2, PartIdle DEF Cancel
<1> QED
  BY <1>1, <1>2

\* What does not touch partnerships keeps them.
LEMMA SamePartners ==
  ASSUME MutualInv, UNCHANGED <<here, partner, trading, deal_locked>>
  PROVE  MutualInv'
BY DEF MutualInv, PartnersMutual

----------------------------------------------------------------------------
(* The operations of the trade window *)

LEMMA RequestOK ==
  ASSUME MutualInv, AskAnyway = {}, NEW p \in Players, NEW q \in Players,
         TradeRequest(p, q)
  PROVE  MutualInv'
<1>1. /\ ~trading[p] /\ here' = here /\ p # q /\ p \in here /\ q \in here
      /\ UNCHANGED <<trading, deal_locked>>
  BY DEF TradeRequest, MutualInv
<1>2. CASE partner' = Parted(p)
  BY <1>1, <1>2, PartIdle
<1>3. CASE /\ Parted(p)[q] = Nobody
           /\ partner' = [Parted(p) EXCEPT ![p] = q, ![q] = p]
  <2> DEFINE old == Parted(p)
  <2>1. old \in [Players -> Players \cup {Nobody}]
    BY DEF Parted, MutualInv
  <2>2. partner' \in [Players -> Players \cup {Nobody}]
    BY <1>3, <2>1
  <2>3. \A r \in Players : partner'[r] = IF r = p THEN q ELSE IF r = q THEN p
                                         ELSE old[r]
    BY <1>1, <1>3, <2>1
  <2>4. \A r \in Players : old[r] # Nobody => /\ old[r] = partner[r]
                                              /\ r # p /\ r # q
    BY <1>3 DEF Parted
  <2>5. ASSUME NEW r \in Players, old[r] # Nobody
        PROVE  /\ partner[r] # p /\ partner[r] # q /\ partner[r] \in Players
               /\ old[partner[r]] = r
    <3>1. /\ old[r] = partner[r] /\ r # p /\ r # q /\ r # Nobody
          /\ ~(There(p) /\ r = partner[p])
      BY <2>4, <2>5, NobodyAssumption DEF Parted
    <3>2. partner[r] \in Players /\ partner[partner[r]] = r
      BY <2>5, <3>1, PartnerIsThere
    <3>3. partner[r] # p
      <4>1. SUFFICES ASSUME partner[r] = p PROVE FALSE
        OBVIOUS
      <4> QED
        BY <3>1, <3>2, <4>1, PartnerIsThere
    <3>4. old[partner[r]] = r
      <4>1. ~(There(p) /\ partner[r] = partner[p])
        BY <3>1, <3>2, PartnerIsThere DEF There
      <4> QED
        BY <3>2, <3>3, <4>1 DEF Parted
    <3>5. partner[r] # q
      BY <1>3, <3>1, <3>4
    <3> QED
      BY <3>2, <3>3, <3>4, <3>5
  <2>6. ~trading[q]
    <3>1. CASE partner[q] = Nobody
      BY <3>1 DEF MutualInv, PartnersMutual
    <3>2. CASE partner[q] # Nobody
      <4>1. There(p) /\ q = partner[p]
        BY <1>1, <1>3, <3>2 DEF Parted
      <4> QED
        BY <4>1, <1>1, PartnerIsThere DEF There
    <3> QED
      BY <3>1, <3>2
  <2>7. ASSUME NEW r \in Players, trading[r] PROVE old[r] # Nobody
    <3>1. partner[r] # Nobody /\ r # p
      BY <1>1, <2>7 DEF MutualInv, PartnersMutual
    <3>2. ~(There(p) /\ r = partner[p])
      BY <1>1, <2>7, PartnerIsThere DEF There
    <3> QED
      BY <3>1, <3>2 DEF Parted
  <2> HIDE DEF old
  <2>8. PartnersMutual'
    <3>1. ASSUME NEW r \in Players, partner'[r] # Nobody
          PROVE  partner'[partner'[r]] = r /\ trading[partner'[r]] = trading[r]
      <4>1. CASE r = p \/ r = q
        <5>1. partner'[p] = q /\ partner'[q] = p
          BY <1>1, <2>3
        <5>2. trading[p] = trading[q]
          BY <1>1, <2>6 DEF MutualInv
        <5> QED
          BY <4>1, <5>1, <5>2
      <4>2. CASE r # p /\ r # q
        <5>1. partner'[r] = partner[r] /\ old[r] # Nobody
          BY <2>3, <2>4, <3>1, <4>2
        <5>2. partner'[partner[r]] = r
          BY <2>3, <2>5, <5>1
        <5>3. trading[partner[r]] = trading[r]
          BY <3>1, <5>1, PartnerIsThere
        <5> QED
          BY <5>1, <5>2, <5>3
      <4> QED
        BY <4>1, <4>2
    <3>2. ASSUME NEW r \in Players, trading[r] PROVE partner'[r] # Nobody
      BY <1>1, <2>3, <2>6, <2>7, <3>2
    <3> QED
      BY <1>1, <3>1, <3>2 DEF MutualInv, PartnersMutual
  <2>9. \A r \in Players : partner'[r] # Nobody => r \in here'
    BY <1>1, <2>3, <2>4 DEF MutualInv
  <2> QED
    BY <1>1, <2>2, <2>8, <2>9 DEF MutualInv
<1> QED
  BY <1>2, <1>3 DEF TradeRequest

LEMMA AckOK ==
  ASSUME MutualInv, NEW p \in Players, NEW accept \in BOOLEAN,
         TradeAck(p, accept)
  PROVE  MutualInv'
<1> DEFINE q == partner[p]
<1>1. /\ ~trading[p] /\ q # Nobody /\ here' = here
  BY DEF TradeAck
<1>2. /\ q \in Players /\ q \in here /\ partner[q] = p /\ ~trading[q]
      /\ p \in here /\ There(p)
  BY <1>1, PartnerIsThere
<1>3. CASE accept
  <2>1. /\ trading' = [trading EXCEPT ![p] = TRUE, ![q] = TRUE]
        /\ UNCHANGED <<partner, deal_locked>>
    BY <1>2, <1>3 DEF TradeAck, Open
  <2>2. trading' \in [Players -> BOOLEAN]
    BY <2>1 DEF MutualInv
  <2>3. \A r \in Players : trading'[r] = (r \in {p, q} \/ trading[r])
    BY <1>2, <2>1 DEF MutualInv
  <2>4. \A r \in Players : partner[r] # Nobody =>
          (r \in {p, q} <=> partner[r] \in {p, q})
    BY <1>2, PartnerIsThere
  <2>5. PartnersMutual'
    <3>1. ASSUME NEW r \in Players, partner[r] # Nobody
          PROVE  /\ partner[partner[r]] = r
                 /\ trading'[partner[r]] = trading'[r]
      <4>1. /\ partner[r] \in Players /\ partner[partner[r]] = r
            /\ trading[partner[r]] = trading[r]
        BY <3>1, PartnerIsThere
      <4> QED
        BY <2>3, <2>4, <3>1, <4>1
    <3>2. ASSUME NEW r \in Players
          PROVE  /\ trading'[r] => partner[r] # Nobody
                 /\ deal_locked[r] > 0 => trading'[r]
      <4>1. p # Nobody /\ q # Nobody
        BY <1>1, NobodyAssumption
      <4> QED
        BY <1>2, <2>3, <4>1 DEF MutualInv, PartnersMutual
    <3> QED
      BY <2>1, <3>1, <3>2 DEF PartnersMutual
  <2> QED
    BY <1>1, <2>1, <2>2, <2>5 DEF MutualInv
<1>4. CASE ~accept
  <2>1. /\ partner' = [partner EXCEPT ![p] = Nobody, ![q] = Nobody]
        /\ deal_locked' = [r \in Players |-> IF r \in {p, q} THEN 0
                                                             ELSE deal_locked[r]]
        /\ UNCHANGED trading
    BY <1>2, <1>4 DEF TradeAck
  <2>2. partner' = Parted(p)
    BY <1>2, <2>1 DEF Parted, MutualInv
  <2>3. deal_locked' = deal_locked
    <3>1. \A r \in {p, q} : deal_locked[r] = 0
      BY <1>1, <1>2 DEF MutualInv, PartnersMutual
    <3> QED
      BY <2>1, <3>1 DEF MutualInv
  <2> QED
    BY <1>1, <2>1, <2>2, <2>3, PartIdle
<1> QED
  BY <1>3, <1>4

LEMMA AddOK ==
  ASSUME MutualInv, NEW p \in Players, NEW i,
         NEW n, TradeAddItem(p, i, n) \/ TradeAddZeny(p, n)
  PROVE  MutualInv'
<1>1. here' = here
  BY DEF TradeAddItem, TradeAddZeny
<1>2. Cancel(p) \/ UNCHANGED <<partner, trading, deal_locked>>
  BY DEF TradeAddItem, TradeAddZeny
<1> QED
  BY <1>1, <1>2, CancelOK, SamePartners

LEMMA OkOK ==
  ASSUME MutualInv, NEW p \in Players, TradeOk(p)
  PROVE  MutualInv'
<1>1. here' = here /\ trading[p]
  BY DEF TradeOk, MayAdd
<1>2. CASE /\ deal_locked' = [deal_locked EXCEPT ![p] = 1]
           /\ UNCHANGED <<partner, trading, deal>>
  BY <1>1, <1>2 DEF MutualInv, PartnersMutual
<1>3. CASE Cancel(p)
  BY <1>1, <1>3, CancelOK
<1> QED
  BY <1>2, <1>3 DEF TradeOk

LEMMA CommitOK ==
  ASSUME MutualInv, NEW p \in Players, TradeCommit(p)
  PROVE  MutualInv'
<1> DEFINE q == partner[p]
<1>1. here' = here /\ trading[p] /\ q # Nobody
  BY DEF TradeCommit, MutualInv, PartnersMutual
<1>2. q \in Players /\ There(p)
  BY <1>1, PartnerIsThere
<1>3. \/ deal_locked' = [deal_locked EXCEPT ![p] = 2] /\ UNCHANGED <<partner, trading>>
      \/ Cancel(p) \/ Cancel(q) \/ Close({p, q})
  BY <1>2 DEF TradeCommit
<1>4. CASE /\ deal_locked' = [deal_locked EXCEPT ![p] = 2]
           /\ UNCHANGED <<partner, trading>>
  BY <1>1, <1>4 DEF MutualInv, PartnersMutual
<1>5. CASE Cancel(p) \/ Cancel(q)
  BY <1>1, <1>2, <1>5, CancelOK
<1>6. CASE Close({p, q})
  BY <1>1, <1>6, PairOK, ClosePair
<1> QED
  BY <1>3, <1>4, <1>5, <1>6

----------------------------------------------------------------------------
(* What happens to players *)

\* Somebody who leaves parts first, and then nobody's partner is missing.
LEMMA LeaveOK ==
  ASSUME MutualInv, NEW p \in Players, Leaves(p)
  PROVE  MutualInv'
<1> DEFINE S == Pair(p)
<1>1. here' = here \ {p} /\ here' \subseteq Players
  BY DEF Leaves, MutualInv
<1>2. /\ partner' = [q \in Players |-> IF q \in S THEN Nobody ELSE partner[q]]
      /\ trading' = [q \in Players |-> q \notin S /\ trading[q]]
      /\ deal_locked' = [q \in Players |-> IF q \in S THEN 0 ELSE deal_locked[q]]
  <2>1. CASE partner[p] # Nobody /\ trading[p]
    BY <2>1 DEF Leaves, Cancel, Close, Pair
  <2>2. CASE ~(partner[p] # Nobody /\ trading[p])
    <3>1. /\ partner' = Parted(p)
          /\ trading' = [trading EXCEPT ![p] = FALSE]
          /\ deal_locked' = [deal_locked EXCEPT ![p] = 0]
      BY <2>2 DEF Leaves
    <3>2. ~trading[p]
      BY <2>2 DEF MutualInv, PartnersMutual
    <3>3. ASSUME NEW q \in S
          PROVE  q \in Players /\ trading[q] = FALSE /\ deal_locked[q] = 0
      BY <3>2, PairIdle
    <3>4. p \in S
      BY PairOK
    <3> HIDE DEF S
    <3>5. trading' = [q \in Players |-> q \notin S /\ trading[q]]
      BY <3>1, <3>3, <3>4 DEF MutualInv
    <3>6. deal_locked' = [q \in Players |-> IF q \in S THEN 0 ELSE deal_locked[q]]
      BY <3>1, <3>3, <3>4 DEF MutualInv
    <3> QED
      BY <3>1, <3>5, <3>6, PairOK DEF S
  <2> QED
    BY <2>1, <2>2
<1> HIDE DEF S
<1> QED
  BY <1>1, <1>2, PairOK, PartOK DEF S

LEMMA StepOK ==
  ASSUME MutualInv, AskAnyway = {}, [TradeNext]_trade_vars
  PROVE  MutualInv'
<1>1. ASSUME NEW p \in Players, Window(p) PROVE MutualInv'
  <2>1. CASE \E q \in Players : TradeRequest(p, q)
    BY <2>1, RequestOK
  <2>2. CASE \E accept \in BOOLEAN : TradeAck(p, accept)
    BY <2>2, AckOK
  <2>3. CASE \/ \E i \in 1..MaxSlots, n \in 1..MaxAmount : TradeAddItem(p, i, n)
             \/ \E z \in 0..MaxZeny : TradeAddZeny(p, z)
    BY <2>3, AddOK
  <2>4. CASE TradeOk(p)
    BY <2>4, OkOK
  <2>5. CASE TradeCancel(p)
    BY <2>5, CancelOK DEF TradeCancel
  <2>6. CASE TradeCommit(p)
    BY <2>6, CommitOK
  <2> QED
    BY <1>1, <2>1, <2>2, <2>3, <2>4, <2>5, <2>6 DEF Window
<1>2. ASSUME NEW p \in Players, Chance(p) PROVE MutualInv'
  <2>1. CASE Leaves(p)
    BY <2>1, LeaveOK
  <2>2. CASE Enters(p)
    BY <2>2 DEF Enters, window_vars, MutualInv, PartnersMutual
  <2>3. CASE UNCHANGED <<here, window_vars>>
    BY <2>3, SamePartners DEF window_vars
  <2> QED
    BY <1>2, <2>1, <2>2, <2>3
       DEF Chance, Finds, UsesUp, Wears, Spends, Earns
<1>3. CASE UNCHANGED trade_vars
  BY <1>3, SamePartners DEF trade_vars
<1> QED
  BY <1>1, <1>2, <1>3 DEF TradeNext

----------------------------------------------------------------------------
(* The theorem *)

\* If no player can ask for a trade while he trades, then in every reachable
\* state partners have each other, windows are open for both or for neither,
\* and no window is left open or locked without a partner, whoever asks,
\* answers, cancels, commits or leaves, in whatever order (src/map/trade.c).
THEOREM TradeMutual ==
  ASSUME AskAnyway = {}
  PROVE  TradeSpec => []PartnersMutual
<1>1. TradeInit => MutualInv
  BY NobodyAssumption DEF TradeInit, MutualInv, PartnersMutual
<1>2. MutualInv /\ [TradeNext]_trade_vars => MutualInv'
  BY StepOK
<1>3. MutualInv => PartnersMutual
  BY DEF MutualInv
<1> QED
  BY <1>1, <1>2, <1>3, PTL DEF TradeSpec

\* A sum of zeros is 0.
LEMMA SumOfNone ==
  ASSUME NEW N \in Nat, NEW f, f = [i \in 1..N |-> 0]
  PROVE  Total(f, N) = 0
<1>1. f \in [1..N -> Int] /\ \A i \in 1..N : f[i] = 0
  OBVIOUS
<1> DEFINE T == {n \in Nat : n <= N => Total(f, n) = 0}
<1>2. 0 \in T
  BY <1>1, Sums
<1>3. ASSUME NEW n \in Nat, n < N, n \in T PROVE n + 1 \in T
  <2> DEFINE m == n + 1
  <2>1. m \in 1..N /\ m - 1 = n /\ m \in Nat
    BY <1>3
  <2>2. Total(f, n) = 0
    BY <1>3
  <2> HIDE DEF m, T
  <2>3. Total(f, m) = Total(f, m - 1) + f[m] /\ f[m] = 0
    BY <1>1, <2>1, Sums
  <2>4. m \in T
    BY <2>1, <2>2, <2>3 DEF T
  <2> QED
    BY <2>4 DEF m
<1> HIDE DEF T
<1>4. \A n \in 0..N : n \in T
  BY <1>2, <1>3, Inductive
<1>5. N \in T
  BY <1>4
<1> QED
  BY <1>5 DEF T

----------------------------------------------------------------------------
(* Windows stay fair *)

\* The invariant: partners have each other, and windows are fair; closed ones empty.
OfferInv ==
  /\ TypeInv /\ MutualInv
  /\ \A p \in Players : Fair(p) /\ (~trading[p] => deal[p] = NoDeal)

\* A player's window shows the same to the same, or is empty.
WindowKept(p) ==
  \/ deal'[p] = NoDeal
  \/ /\ trading'[p] /\ partner'[p] = partner[p]
     /\ deal'[p].item = deal[p].item /\ deal'[p].weight = deal[p].weight
\* His offer stands as it was, or not at all.
OfferStays(p) ==
  \/ deal_locked'[p] = 0
  \/ deal_locked[p] > 0 /\ partner'[p] = partner[p] /\ deal'[p] = deal[p]

\* Only an open window has entries in use, and its player has a partner.
LEMMA UsesTrade ==
  ASSUME OfferInv, NEW p \in Players, NEW k \in 1..DealSlots, Uses(p, k)
  PROVE  trading[p] /\ partner[p] \in Players /\ partner[partner[p]] = p
<1>1. trading[p]
  BY NoDealOK DEF OfferInv, Uses
<1> QED
  BY <1>1, PartnerIsThere DEF OfferInv, MutualInv, PartnersMutual

\* An empty window is fair.
LEMMA NoDealFair ==
  ASSUME NEW p, deal'[p] = NoDeal, Unique(inventory'[p])
  PROVE  Fair(p)'
<1>1. \A k \in 1..DealSlots : ~(deal'[p].item[k].amount > 0)
  BY NoDealOK
<1>2. Priced(p, Weight)' = [k \in 1..DealSlots |-> 0]
  BY <1>1 DEF Priced, Uses
<1>3. DealSlots \in Nat
  BY Numbers
<1>4. Total(Priced(p, Weight), DealSlots)' = 0
  BY <1>2, <1>3, SumOfNone
<1>5. deal'[p].weight = 0
  BY DEF NoDeal
<1> QED
  BY <1>1, <1>4, <1>5 DEF Fair, Shows, Weighed, Bearable, Uses

\* A window that shows what it showed, of things still there, to somebody who
\* carries no more, is still fair.
LEMMA SameFair ==
  ASSUME NEW p, Fair(p), partner'[p] = partner[p],
         deal'[p].item = deal[p].item, deal'[p].weight = deal[p].weight,
         Unique(inventory'[p]),
         \A k \in 1..DealSlots : Uses(p, k) =>
           LET x == inventory'[p][deal[p].item[k].index].item IN
             x # deal[p].item[k].shown => x = NoItem /\ deal[p].item[k].shown \in Used,
         (\E k \in 1..DealSlots : Uses(p, k)) =>
           Load(inventory'[partner[p]]) + deal[p].weight <= MaxWeight
  PROVE  Fair(p)'
<1>1. \A k \in 1..DealSlots : Uses(p, k)' <=> Uses(p, k)
  BY DEF Uses
<1>2. Shows(p)'
  BY <1>1 DEF Fair, Shows
<1>3. Weighed(p)'
  <2>1. Priced(p, Weight)' = Priced(p, Weight)
    BY <1>1 DEF Priced
  <2> QED
    BY <2>1 DEF Fair, Weighed
<1>4. Bearable(p)'
  BY <1>1 DEF Bearable
<1> QED
  BY <1>2, <1>3, <1>4 DEF Fair

\* Windows that are kept stay fair while nobody's things change.
LEMMA WindowsFair ==
  ASSUME OfferInv, TypeInv', MutualInv', inventory' = inventory,
         \A p \in Players : WindowKept(p)
  PROVE  OfferInv'
<1>1. ASSUME NEW p \in Players PROVE Fair(p)'
  <2>1. Fair(p) /\ Unique(inventory[p])
    BY DEF OfferInv, Fair
  <2>2. CASE deal'[p] = NoDeal
    BY <2>1, <2>2, NoDealFair
  <2>3. CASE /\ trading'[p] /\ partner'[p] = partner[p]
             /\ deal'[p].item = deal[p].item /\ deal'[p].weight = deal[p].weight
    BY <2>1, <2>3, SameFair DEF Fair, Shows, Bearable
  <2> QED
    BY <2>2, <2>3 DEF WindowKept
<1> QED
  BY <1>1 DEF OfferInv, WindowKept

\* Closing windows empties some and keeps the others.
LEMMA CloseKept ==
  ASSUME OfferInv, NEW S, Close(S)
  PROVE  \A p \in Players : WindowKept(p) /\ OfferStays(p)
<1> SUFFICES ASSUME NEW p \in Players
             PROVE  WindowKept(p) /\ OfferStays(p)
  OBVIOUS
<1>1. CASE p \in S
  BY <1>1 DEF Close, WindowKept, OfferStays
<1>2. CASE p \notin S
  <2>1. /\ partner'[p] = partner[p] /\ trading'[p] = trading[p]
        /\ deal_locked'[p] = deal_locked[p] /\ deal'[p] = deal[p]
    BY <1>2 DEF Close, OfferInv, MutualInv
  <2> QED
    BY <2>1 DEF OfferInv, WindowKept, OfferStays, MutualInv
<1> QED
  BY <1>1, <1>2

\* Who has no window open parts without touching those of others.
LEMMA PartKept ==
  ASSUME OfferInv, NEW p \in Players, ~trading[p], NEW r \in Players, trading[r]
  PROVE  r # p /\ Parted(p)[r] = partner[r] /\ partner[r] # Nobody
<1>1. partner[r] # Nobody
  BY DEF OfferInv, MutualInv, PartnersMutual
<1>2. There(p) => r # partner[p]
  BY PartnerIsThere DEF There, OfferInv
<1> QED
  BY <1>1, <1>2 DEF Parted

\* A step that touches no window and no partner of one who trades keeps all windows
\* and offers.
LEMMA IdleKept ==
  ASSUME OfferInv, UNCHANGED <<trading, deal>>,
         \A r \in Players : deal_locked'[r] \in {deal_locked[r], 0},
         \A r \in Players : trading[r] => partner'[r] = partner[r]
  PROVE  \A r \in Players : WindowKept(r) /\ OfferStays(r)
<1> SUFFICES ASSUME NEW r \in Players
             PROVE  WindowKept(r) /\ OfferStays(r)
  OBVIOUS
<1>1. deal_locked[r] \in 0..2 /\ (deal_locked[r] > 0 => trading[r])
  BY DEF OfferInv, MutualInv, PartnersMutual
<1> QED
  BY <1>1 DEF OfferInv, WindowKept, OfferStays

\* So does a step that touches no window at all.
LEMMA AllKept ==
  ASSUME OfferInv, UNCHANGED window_vars
  PROVE  \A r \in Players : WindowKept(r) /\ OfferStays(r)
BY IdleKept DEF window_vars

\* A cancelled trade takes offers back and makes none.
LEMMA CancelKept ==
  ASSUME OfferInv, NEW p \in Players, Cancel(p)
  PROVE  \A r \in Players : WindowKept(r) /\ OfferStays(r)
<1>1. CASE trading[p]
  BY <1>1, CloseKept DEF Cancel
<1>2. CASE ~trading[p]
  BY <1>2, PartKept, IdleKept DEF Cancel
<1> QED
  BY <1>1, <1>2

\* A request leaves those who trade alone, when nobody can ask while he trades.
LEMMA RequestKept ==
  ASSUME OfferInv, Careful, NEW p \in Players, NEW q \in Players, TradeRequest(p, q)
  PROVE  \A r \in Players : WindowKept(r) /\ OfferStays(r)
<1>1. ~trading[p] /\ UNCHANGED <<trading, deal_locked, deal>>
  BY DEF TradeRequest, Careful, OfferInv, MutualInv
<1>2. ASSUME NEW r \in Players, trading[r] PROVE partner'[r] = partner[r]
  <2>1. r # p /\ Parted(p)[r] = partner[r] /\ partner[r] # Nobody
    BY <1>1, <1>2, PartKept
  <2>2. CASE Parted(p)[q] = Nobody /\ partner' = [Parted(p) EXCEPT ![p] = q, ![q] = p]
    <3>1. r # q
      BY <2>1, <2>2
    <3> QED
      BY <2>1, <2>2, <3>1 DEF Parted
  <2> QED
    BY <2>1, <2>2 DEF TradeRequest
<1> QED
  BY <1>1, <1>2, IdleKept

\* Its answer opens empty windows or leaves all as they are.
LEMMA AckKept ==
  ASSUME OfferInv, NEW p \in Players, NEW accept \in BOOLEAN, TradeAck(p, accept)
  PROVE  \A r \in Players : WindowKept(r) /\ OfferStays(r)
<1> DEFINE q == partner[p]
<1>1. ~trading[p] /\ q # Nobody
  BY DEF TradeAck
<1>2. q \in Players /\ q \in here /\ partner[q] = p /\ trading[q] = trading[p]
  BY <1>1, PartnerIsThere DEF OfferInv
<1>3. CASE accept
  <2>1. Open(p, q)
    BY <1>1, <1>2, <1>3 DEF TradeAck
  <2>2. ASSUME NEW r \in Players PROVE WindowKept(r) /\ OfferStays(r)
    <3>1. CASE r \in {p, q}
      <4>1. deal'[r] = NoDeal /\ deal_locked'[r] = deal_locked[r]
        BY <1>2, <2>1, <3>1 DEF Open, OfferInv, TypeInv, TradeTypeOK
      <4>2. ~trading[r] /\ deal_locked[r] \in 0..2 /\ (deal_locked[r] > 0 => trading[r])
        BY <1>1, <1>2, <3>1 DEF OfferInv, MutualInv, PartnersMutual
      <4> QED
        BY <4>1, <4>2 DEF WindowKept, OfferStays
    <3>2. CASE r \notin {p, q}
      <4>1. /\ partner'[r] = partner[r] /\ trading'[r] = trading[r]
            /\ deal_locked'[r] = deal_locked[r] /\ deal'[r] = deal[r]
        BY <1>2, <2>1, <3>2 DEF Open, OfferInv, TypeInv, TradeTypeOK
      <4>2. deal_locked[r] \in 0..2
        BY DEF OfferInv, MutualInv
      <4> QED
        BY <4>1, <4>2 DEF OfferInv, WindowKept, OfferStays
    <3> QED
      BY <3>1, <3>2
  <2> QED
    BY <2>2
<1>4. CASE ~accept
  <2>1. /\ partner' = [partner EXCEPT ![p] = Nobody, ![q] = Nobody]
        /\ deal_locked' = [r \in Players |-> IF r \in {p, q} THEN 0
                                                             ELSE deal_locked[r]]
        /\ UNCHANGED <<trading, deal>>
    BY <1>1, <1>2, <1>4 DEF TradeAck
  <2>2. \A r \in Players : trading[r] => partner'[r] = partner[r]
    BY <1>1, <1>2, <2>1 DEF OfferInv, MutualInv
  <2>3. \A r \in Players : deal_locked'[r] \in {deal_locked[r], 0}
    BY <2>1
  <2> QED
    BY <2>1, <2>2, <2>3, IdleKept
<1> QED
  BY <1>3, <1>4

\* Zeny goes into a window that offers nothing yet, or both are closed.
LEMMA AddZenyKept ==
  ASSUME OfferInv, NEW p \in Players, NEW z \in 0..MaxZeny, TradeAddZeny(p, z)
  PROVE  \A r \in Players : WindowKept(r) /\ OfferStays(r)
<1>1. CASE Cancel(p)
  BY <1>1, CancelKept
<1>2. CASE /\ deal' = [deal EXCEPT ![p].zeny = z]
           /\ UNCHANGED <<partner, trading, deal_locked>>
  <2>1. trading[p] /\ deal_locked[p] = 0
    BY DEF TradeAddZeny, MayAdd
  <2>2. deal[p] \in Deal
    BY DEF OfferInv, TypeInv, TradeTypeOK
  <2>3. /\ deal'[p].item = deal[p].item /\ deal'[p].weight = deal[p].weight
        /\ \A r \in Players : r # p => deal'[r] = deal[r]
    BY <1>2, <2>2 DEF OfferInv, TypeInv, TradeTypeOK, Deal
  <2>4. ASSUME NEW r \in Players PROVE WindowKept(r) /\ OfferStays(r)
    <3>1. deal_locked[r] \in 0..2 /\ (~trading[r] => deal[r] = NoDeal)
      BY DEF OfferInv, MutualInv
    <3>2. CASE r = p
      BY <1>2, <2>1, <2>3, <3>2 DEF WindowKept, OfferStays
    <3>3. CASE r # p
      BY <1>2, <2>3, <3>1, <3>3 DEF WindowKept, OfferStays
    <3> QED
      BY <3>2, <3>3
  <2> QED
    BY <2>4
<1> QED
  BY <1>1, <1>2 DEF TradeAddZeny

\* TradeOk, and the first half of a commit.
LEMMA LockKept ==
  ASSUME OfferInv, NEW p \in Players, trading[p], NEW n,
         deal_locked' = [deal_locked EXCEPT ![p] = n],
         UNCHANGED <<partner, trading, deal>>
  PROVE  /\ \A r \in Players : WindowKept(r)
         /\ \A r \in Players : r # p => OfferStays(r)
         /\ deal_locked[p] > 0 => OfferStays(p)
<1>1. ASSUME NEW r \in Players
      PROVE  deal_locked[r] \in 0..2 /\ (~trading[r] => deal[r] = NoDeal)
  BY DEF OfferInv, MutualInv
<1>2. \A r \in Players : r # p => deal_locked'[r] = deal_locked[r]
  BY DEF OfferInv, MutualInv
<1> QED
  BY <1>1, <1>2 DEF WindowKept, OfferStays

\* A player who leaves takes his offer and his partner's with him.
LEMMA LeaveKept ==
  ASSUME OfferInv, NEW p \in Players, Leaves(p)
  PROVE  \A r \in Players : WindowKept(r) /\ OfferStays(r)
<1>1. CASE partner[p] # Nobody /\ trading[p]
  BY <1>1, CancelKept DEF Leaves
<1>2. CASE ~(partner[p] # Nobody /\ trading[p])
  <2>1. /\ partner' = Parted(p)
        /\ trading' = [trading EXCEPT ![p] = FALSE]
        /\ deal_locked' = [deal_locked EXCEPT ![p] = 0]
        /\ deal' = [deal EXCEPT ![p] = NoDeal]
    BY <1>2 DEF Leaves
  <2>2. ~trading[p]
    BY <1>2 DEF OfferInv, MutualInv, PartnersMutual
  <2>3. UNCHANGED <<trading, deal>>
    BY <2>1, <2>2 DEF OfferInv, MutualInv, TypeInv, TradeTypeOK
  <2>4. \A r \in Players : deal_locked'[r] \in {deal_locked[r], 0}
    BY <2>1 DEF OfferInv, MutualInv
  <2>5. \A r \in Players : trading[r] => partner'[r] = partner[r]
    BY <2>1, <2>2, PartKept
  <2> QED
    BY <2>3, <2>4, <2>5, IdleKept
<1> QED
  BY <1>1, <1>2

----------------------------------------------------------------------------
(* Things come and go *)

\* pc_additem adds to one slot.
LEMMA PutAdded ==
  ASSUME NEW v, Valid(v), NEW x \in Items, NEW n \in Nat \ {0}, NEW max,
         Fits(v, x, n, Same(x), max)
  PROVE  \E w \in 1..MaxSlots : Added(v, Put(v, x, n, Same(x)), w, x, v[w].amount, n)
<1> DEFINE u == Put(v, x, n, Same(x))
<1>1. v \in Bag /\ n \in Int /\ n \in Nat /\ x \in Items \cup {NoItem} /\ x # NoItem
  BY ValidBag, Numbers
<1>2. PICK w \in 1..MaxSlots : Goes(v, w, x, n, Same(x), max)
  BY <1>1, PutGoes
<1>3. /\ v[w].item \in {x, NoItem}
      /\ IF x \in Stackable /\ \E i \in 1..MaxSlots : v[i].item = x
         THEN v[w].item = x ELSE v[w].item = NoItem
      /\ \A i \in 1..MaxSlots : i # w => u[i] = v[i]
      /\ IF v[w].item = NoItem
         THEN u[w] = [item |-> x, amount |-> n, worn |-> FALSE]
         ELSE u[w].item = v[w].item /\ u[w].amount = v[w].amount + n
  BY <1>2 DEF Goes, Same
<1> HIDE DEF u
<1>4. v[w].item = NoItem => v[w].amount = 0
  BY DEF Valid
<1>5. u[w].item = x /\ u[w].amount = v[w].amount + n
  BY <1>1, <1>3, <1>4
<1>6. Added(v, u, w, x, v[w].amount, n)
  BY <1>3, <1>5 DEF Added
<1> QED
  BY <1>6 DEF u

\* pc_delitem keeps what stacks in one slot.
LEMMA TakeUnique ==
  ASSUME NEW v, Valid(v), Unique(v), NEW i \in 1..MaxSlots, NEW n \in Nat
  PROVE  Unique(Take(v, i, n))
<1> DEFINE u == Take(v, i, n)
<1>1. v \in Bag /\ n \in Int
  BY ValidBag
<1>2. /\ \A j \in 1..MaxSlots : j # i => u[j] = v[j]
      /\ u[i].item = IF v[i].amount = n THEN NoItem ELSE v[i].item
  BY <1>1, TakeBag
<1> HIDE DEF u
<1>3. NoItem \notin Stackable
  BY ItemsAssumption
<1>4. \A j \in 1..MaxSlots : u[j].item \in Stackable => u[j].item = v[j].item
  BY <1>2, <1>3
<1>5. Unique(u)
  BY <1>4 DEF Unique
<1> QED
  BY <1>5 DEF u

\* Windows stay fair when p's things come and go as Careful has it.
LEMMA ThingsFair ==
  ASSUME OfferInv, TypeInv', MutualInv', NEW p \in Players, NEW v, Unique(v),
         inventory' = [inventory EXCEPT ![p] = v], UNCHANGED window_vars,
         \A i \in 1..MaxSlots :
           \/ v[i].item = inventory[p][i].item
           \/ inventory[p][i].item = NoItem /\ \A y \in Used : y = v[i].item
           \/ v[i].item = NoItem /\ inventory[p][i].item \in Used,
         Load(v) \in Nat, Load(inventory[p]) \in Nat, Load(v) <= Load(inventory[p])
  PROVE  OfferInv'
<1>1. inventory'[p] = v /\ \A r \in Players : r # p => inventory'[r] = inventory[r]
  BY DEF OfferInv, TypeInv, TradeTypeOK
<1>2. TradeTypeOK /\ MaxWeight \in Nat
  BY Numbers DEF OfferInv, TypeInv
<1>3. ASSUME NEW r \in Players PROVE Fair(r)'
  <2>1. Fair(r) /\ Shows(r) /\ Bearable(r) /\ Unique(inventory[r])
    BY DEF OfferInv, Fair
  <2>2. ASSUME NEW k \in 1..DealSlots, Uses(r, k)
        PROVE  LET x == inventory'[r][deal[r].item[k].index].item IN
                 x # deal[r].item[k].shown => x = NoItem /\ deal[r].item[k].shown \in Used
    <3> DEFINE i == deal[r].item[k].index
               s == deal[r].item[k].shown
    <3>1. /\ i \in 1..MaxSlots /\ s \in Items /\ s # NoItem
          /\ inventory[r][i].item # s => inventory[r][i].item = NoItem /\ s \in Used
      BY <1>2, <2>1, <2>2, EntryTypes, Numbers DEF Shows
    <3> HIDE DEF i, s
    <3>2. inventory'[r][i].item # s => inventory'[r][i].item = NoItem /\ s \in Used
      <4>1. CASE r = p
        BY <1>1, <3>1, <4>1
      <4>2. CASE r # p
        BY <1>1, <3>1, <4>2
      <4> QED
        BY <4>1, <4>2
    <3> QED
      BY <3>2 DEF i, s
  <2>3. ASSUME NEW k \in 1..DealSlots, Uses(r, k)
        PROVE  Load(inventory'[partner[r]]) + deal[r].weight <= MaxWeight
    <3>1. partner[r] \in Players
      BY <2>3, UsesTrade
    <3>2. Load(inventory[partner[r]]) + deal[r].weight <= MaxWeight
      BY <2>1, <2>3 DEF Bearable
    <3>3. deal[r].weight \in Int
      BY <1>2 DEF TradeTypeOK, Deal
    <3>4. CASE partner[r] = p
      BY <1>1, <1>2, <3>2, <3>3, <3>4
    <3>5. CASE partner[r] # p
      BY <1>1, <3>1, <3>2, <3>5
    <3> QED
      BY <3>4, <3>5
  <2>4. Unique(inventory'[r])
    BY <1>1, <2>1
  <2>5. partner'[r] = partner[r] /\ deal'[r] = deal[r]
    BY DEF window_vars
  <2> QED
    BY <2>1, <2>2, <2>3, <2>4, <2>5, SameFair
<1> QED
  BY <1>3 DEF OfferInv, window_vars

\* Windows stay fair when a player finds something,
LEMMA FindsFair ==
  ASSUME OfferInv, Careful, TypeInv', MutualInv', NEW p \in Players, NEW x \in Found,
         Finds(p, x)
  PROVE  OfferInv'
<1> DEFINE v == inventory[p]
           u == Put(v, x, 1, Same(x))
<1>1. Valid(v) /\ Unique(v) /\ x \in Items /\ Weight \in Values /\ Weight[x] = 0
  BY HeldBags, ItemsAssumption, BoundsAssumption
     DEF OfferInv, TypeInv, Fair, Careful, Values
<1>2. Fits(v, x, 1, Same(x), Limit[x]) /\ Limit[x] \in 0..MaxAmount
  BY <1>1, BoundsAssumption DEF Finds, Adds
<1>3. inventory' = [inventory EXCEPT ![p] = u] /\ UNCHANGED window_vars
  BY DEF Finds
<1>4. 1 \in Nat \ {0}
  OBVIOUS
<1>5. Valid(u)
  BY <1>1, <1>2, <1>4, PutValid
<1>6. PICK w \in 1..MaxSlots : Added(v, u, w, x, v[w].amount, 1)
  BY <1>1, <1>2, <1>4, PutAdded
<1>7. Load(v) \in Nat /\ Load(u) = Load(v)
  <2>1. Worth(v, Weight) \in Nat
    BY <1>1, PiecesNat
  <2>2. Worth(u, Weight) = Worth(v, Weight) + Weight[x] * 1
    BY <1>1, <1>2, <1>4, WorthPut
  <2> HIDE DEF u, v
  <2>3. Worth(u, Weight) = Worth(v, Weight)
    BY <1>1, <2>1, <2>2
  <2> QED
    BY <2>1, <2>3, LoadIsWorth
<1> HIDE DEF u
<1>8. Unique(u)
  BY <1>1, <1>6, AddedUnique
<1>9. \A y \in Used : y = x
  BY DEF Careful
<1>10. \A i \in 1..MaxSlots :
         \/ u[i].item = v[i].item
         \/ v[i].item = NoItem /\ \A y \in Used : y = u[i].item
         \/ u[i].item = NoItem /\ v[i].item \in Used
  <2> SUFFICES ASSUME NEW i \in 1..MaxSlots, u[i].item # v[i].item
               PROVE  v[i].item = NoItem /\ \A y \in Used : y = u[i].item
    OBVIOUS
  <2>1. i = w
    BY <1>6 DEF Added
  <2> QED
    BY <1>6, <1>9, <2>1 DEF Added
<1>11. Load(u) \in Nat /\ Load(u) <= Load(v)
  BY <1>7
<1> QED
  BY <1>3, <1>7, <1>8, <1>10, <1>11, ThingsFair

\* when he uses something up,
LEMMA UsesUpFair ==
  ASSUME OfferInv, TypeInv', MutualInv', NEW p \in Players, NEW i \in 1..MaxSlots,
         UsesUp(p, i)
  PROVE  OfferInv'
<1> DEFINE v == inventory[p]
           u == Take(v, i, 1)
<1>1. Valid(v) /\ Unique(v) /\ Weight \in Values
  BY HeldBags, BoundsAssumption DEF OfferInv, TypeInv, Fair, Values
<1>2. /\ inventory' = [inventory EXCEPT ![p] = u] /\ UNCHANGED window_vars
      /\ v[i].item \in Used
  BY DEF UsesUp
<1>3. v \in Bag /\ v[i].amount \in Nat /\ v[i].item # NoItem /\ 1 <= v[i].amount
  <2>1. v[i].item # NoItem
    BY <1>2, ItemsAssumption
  <2>2. v[i].amount \in 0..MaxAmount /\ v[i].amount # 0
    BY <1>1, <2>1, ValidBag DEF Valid
  <2> QED
    BY <1>1, <2>1, <2>2, ValidBag, Numbers
<1>4. Unique(u)
  BY <1>1, TakeUnique
<1>5. /\ \A j \in 1..MaxSlots : j # i => u[j] = v[j]
      /\ u[i].item = IF v[i].amount = 1 THEN NoItem ELSE v[i].item
  <2>1. 1 \in Int /\ v \in Bag
    BY <1>3
  <2> HIDE DEF v
  <2> QED
    BY <2>1, TakeBag
<1>6. Load(v) \in Nat /\ Load(u) \in Nat /\ Load(u) <= Load(v)
  <2>1. Worth(v, Weight) \in Nat
    BY <1>1, PiecesNat
  <2>2. 1 \in Nat \ {0}
    OBVIOUS
  <2>3. /\ Worth(u, Weight) = Worth(v, Weight) - Weight[v[i].item] * 1
        /\ Weight[v[i].item] * 1 \in Nat /\ Worth(u, Weight) \in Nat
    BY <1>1, <1>3, <2>2, WorthTake
  <2> HIDE DEF u, v
  <2>4. Worth(u, Weight) <= Worth(v, Weight)
    BY <2>1, <2>3
  <2> QED
    BY <2>1, <2>3, <2>4, LoadIsWorth
<1> HIDE DEF u
<1>7. \A j \in 1..MaxSlots :
         \/ u[j].item = v[j].item
         \/ v[j].item = NoItem /\ \A y \in Used : y = u[j].item
         \/ u[j].item = NoItem /\ v[j].item \in Used
  <2> SUFFICES ASSUME NEW j \in 1..MaxSlots, u[j].item # v[j].item
               PROVE  u[j].item = NoItem /\ v[j].item \in Used
    OBVIOUS
  <2>1. j = i
    BY <1>5
  <2> QED
    BY <1>2, <1>5, <2>1
<1> QED
  BY <1>2, <1>4, <1>6, <1>7, ThingsFair

\* and when he puts equipment on.
LEMMA WearsFair ==
  ASSUME OfferInv, TypeInv', MutualInv', NEW p \in Players, NEW i \in 1..MaxSlots,
         Wears(p, i)
  PROVE  OfferInv'
<1> DEFINE v == inventory[p]
           u == [v EXCEPT ![i].worn = ~v[i].worn]
<1>1. Valid(v) /\ Unique(v) /\ Weight \in Values
  BY HeldBags, BoundsAssumption DEF OfferInv, TypeInv, Fair, Values
<1>2. inventory' = [inventory EXCEPT ![p] = u] /\ UNCHANGED window_vars
  BY DEF Wears
<1>3. \A j \in 1..MaxSlots : u[j].item = v[j].item /\ u[j].amount = v[j].amount
  <2>1. v \in [1..MaxSlots -> Slot]
    BY <1>1 DEF Valid
  <2> HIDE DEF v
  <2> QED
    BY <2>1 DEF Slot
<1> HIDE DEF u
<1>4. Unique(u)
  BY <1>1, <1>3 DEF Unique
<1>5. Load(u) = Load(v) /\ Load(v) \in Nat
  <2>1. Pieces(u, Weight) = Pieces(v, Weight)
    BY <1>3 DEF Pieces
  <2>2. Worth(u, Weight) = Worth(v, Weight)
    BY <2>1 DEF Worth
  <2>3. Worth(v, Weight) \in Nat
    BY <1>1, PiecesNat
  <2> QED
    BY <2>2, <2>3, LoadIsWorth
<1>6. Load(u) \in Nat /\ Load(u) <= Load(v)
  BY <1>5
<1> QED
  BY <1>2, <1>3, <1>4, <1>5, <1>6, ThingsFair

\* Weights of differences.
LEMMA Difference ==
  ASSUME NEW a \in Nat, NEW m \in Nat, NEW n \in Nat, NEW k \in Nat, m - n <= k
  PROVE  /\ a * m \in Nat /\ a * n \in Nat /\ a * k \in Nat /\ a * (m - n) \in Int
         /\ a * (m - n) = a * m - a * n
         /\ a * (m - n) <= a * k
<1>1. a * m \in Nat /\ a * n \in Nat /\ a * k \in Nat
  BY Product
<1>2. a * (m - n) = a * m - a * n
  <2>1. CASE n <= m
    BY <2>1, Product
  <2>2. CASE ~(n <= m)
    <3>1. m <= n /\ m - n \in Int /\ n - m \in Nat
      BY <2>2
    <3>2. a * (n - m) = a * n - a * m
      BY <3>1, Product
    <3>3. a * (m - n) = 0 - a * (n - m)
      BY <3>1
    <3> QED
      BY <1>1, <3>2, <3>3
  <2> QED
    BY <2>1, <2>2
<1>3. a * m <= a * (n + k)
  <2>1. n + k \in Nat /\ m <= n + k
    OBVIOUS
  <2>2. (n + k) - m \in Nat /\ a * ((n + k) - m) = a * (n + k) - a * m
    BY <2>1, Product
  <2>3. a * ((n + k) - m) \in Nat /\ a * (n + k) \in Nat
    BY <2>1, <2>2, Product
  <2> QED
    BY <1>1, <2>2, <2>3
<1>4. a * (n + k) = a * n + a * k
  BY Product
<1> QED
  BY <1>1, <1>2, <1>3, <1>4

\* What trade_tradeadditem does to the window of p.
LEMMA AddItemDoes ==
  ASSUME TypeInv, NEW p \in Players, NEW i \in 1..MaxSlots, NEW n \in 1..MaxAmount,
         TradeAddItem(p, i, n), There(p)
  PROVE  LET x == inventory[p][i].item IN
    /\ x \in Items
    /\ Load(inventory[partner[p]]) + deal[p].weight + Weight[x] * n <= MaxWeight
    /\ \A r \in Players : r # p => deal'[r] = deal[r]
    /\ UNCHANGED <<partner, trading, deal_locked>>
    /\ \E k \in 1..DealSlots, now \in 1..MaxAmount :
         LET had == deal[p].item[k].amount IN
           /\ deal[p].item[k].index = i \/ had = 0
           /\ now - had <= n
           /\ deal'[p].item = [deal[p].item EXCEPT
                ![k] = [index |-> i, amount |-> now, shown |-> x]]
           /\ deal'[p].weight = deal[p].weight + Weight[x] * (now - had)
<1> DEFINE S   == DealSlot(p, i)
           k   == Min(S)
           x   == inventory[p][i].item
           m   == inventory[p][i].amount
           had == deal[p].item[k].amount
           now == Min({had + n, m})
           e   == [index |-> i, amount |-> now, shown |-> x]
<1>1. /\ n <= m /\ x \in Tradable /\ S # {}
      /\ Load(inventory[partner[p]]) + deal[p].weight + Weight[x] * n <= MaxWeight
      /\ deal' = [deal EXCEPT ![p].item[k] = e, ![p].weight = @ + Weight[x] * (now - had)]
      /\ UNCHANGED <<partner, trading, deal_locked>>
  BY DEF TradeAddItem
<1>2. TradeTypeOK /\ deal[p] \in Deal /\ deal \in [Players -> Deal]
  BY DEF TypeInv, TradeTypeOK
<1>3. x \in Items /\ m \in 0..MaxAmount
  <2>1. inventory[p][i] \in Slot
    <3>1. Valid(inventory[p])
      BY <1>2, HeldBags
    <3> QED
      BY <3>1 DEF Valid
  <2>2. Tradable \subseteq Items
    BY ItemsAssumption
  <2>3. x \in Tradable
    BY <1>1
  <2> QED
    BY <2>1, <2>2, <2>3 DEF Slot
<1>4. k \in 1..DealSlots /\ k \in S
  <2>1. S \subseteq Nat /\ S \subseteq 1..DealSlots
    BY Numbers DEF DealSlot
  <2> HIDE DEF S
  <2> QED
    BY <1>1, <2>1, MinOfSlots
<1>5. deal[p].item[k].index = i \/ had = 0
  BY <1>4 DEF DealSlot
<1> HIDE DEF S, k
<1>6. had \in 0..MaxAmount
  BY <1>2, <1>4, EntryTypes
<1>7. now \in 1..MaxAmount /\ now - had <= n
  <2>1. had + n \in Int /\ m \in Int
    BY <1>3, <1>6, Numbers
  <2>2. now = IF had + n <= m THEN had + n ELSE m
    <3> HIDE DEF had, m
    <3> QED
      BY <2>1, MinOfTwo
  <2> HIDE DEF now, had, m
  <2> QED
    BY <1>1, <1>3, <1>6, <2>2, Numbers
<1> HIDE DEF x, had, now, e, m
<1> DEFINE add == Weight[x] * (now - had)
<1>8. /\ \A r \in Players : r # p => deal'[r] = deal[r]
      /\ deal'[p].item = [deal[p].item EXCEPT ![k] = e]
      /\ deal'[p].weight = deal[p].weight + add
  <2> HIDE DEF add
  <2>1. deal' = [deal EXCEPT ![p].item[k] = e, ![p].weight = @ + add]
    BY <1>1 DEF add
  <2> QED
    BY <1>2, <2>1 DEF Deal
<1> QED
  BY <1>1, <1>3, <1>4, <1>5, <1>7, <1>8 DEF x, had, e

\* An item put into a window that offers nothing yet is one its player has and his
\* partner can carry: the window stays fair.
LEMMA AddItemFair ==
  ASSUME OfferInv, TypeInv', MutualInv', NEW p \in Players, NEW i \in 1..MaxSlots,
         NEW n \in 1..MaxAmount, TradeAddItem(p, i, n)
  PROVE  OfferInv' /\ \A r \in Players : OfferStays(r)
<1>1. inventory' = inventory /\ trading[p] /\ deal_locked[p] = 0
  BY DEF TradeAddItem, MayAdd, goods_vars
<1>2. CASE ~There(p)
  <2>1. Cancel(p)
    BY <1>2 DEF TradeAddItem
  <2> QED
    BY <1>1, <2>1, CancelKept, WindowsFair
<1>3. CASE There(p)
  <2> DEFINE x == inventory[p][i].item
             w == Load(inventory[partner[p]])
  <2>1. /\ x \in Items
        /\ w + deal[p].weight + Weight[x] * n <= MaxWeight
        /\ \A r \in Players : r # p => deal'[r] = deal[r]
        /\ UNCHANGED <<partner, trading, deal_locked>>
    BY <1>3, AddItemDoes DEF OfferInv
  <2>2. PICK k \in 1..DealSlots, now \in 1..MaxAmount :
          /\ deal[p].item[k].index = i \/ deal[p].item[k].amount = 0
          /\ now - deal[p].item[k].amount <= n
          /\ deal'[p].item = [deal[p].item EXCEPT
                ![k] = [index |-> i, amount |-> now, shown |-> x]]
          /\ deal'[p].weight = deal[p].weight + Weight[x] * (now - deal[p].item[k].amount)
    <3> HIDE DEF x
    <3> QED
      BY <1>3, AddItemDoes DEF OfferInv, x
  <2> DEFINE had == deal[p].item[k].amount
             e == [index |-> i, amount |-> now, shown |-> x]
  <2>3. /\ TradeTypeOK /\ Shows(p) /\ Weighed(p) /\ Bearable(p) /\ Unique(inventory[p])
        /\ TradeTypeOK' /\ Weight \in Values /\ Weight[x] \in Nat
    BY <2>1, BoundsAssumption DEF OfferInv, TypeInv, Fair, Values
  <2>4. had \in Nat /\ now \in Nat /\ now > 0 /\ n \in Nat
    BY <2>3, EntryTypes, Numbers
  <2>5. /\ \A l \in 1..DealSlots : l # k => deal'[p].item[l] = deal[p].item[l]
        /\ deal'[p].item[k] = e
    <3>1. deal[p].item \in [1..DealSlots -> [index  : 1..MaxSlots, amount : 0..MaxAmount,
                                             shown  : Items \cup {NoItem}]]
      BY <2>3, EntryTypes
    <3> HIDE DEF e
    <3>2. deal'[p].item = [deal[p].item EXCEPT ![k] = e]
      BY <2>2 DEF e
    <3> QED
      BY <3>1, <3>2
  <2>6. had > 0 => deal[p].item[k].shown = x
    <3>1. ASSUME had > 0 PROVE deal[p].item[k].shown = x
      <4>1. deal[p].item[k].index = i /\ x # NoItem /\ Uses(p, k)
        BY <2>1, <2>2, <3>1, Numbers DEF Uses
      <4> QED
        BY <2>3, <4>1 DEF Shows
    <3> QED
      BY <3>1
  <2>7. /\ Weight[x] * now \in Nat /\ Weight[x] * had \in Nat /\ Weight[x] * n \in Nat
        /\ Weight[x] * (now - had) \in Int
        /\ Weight[x] * (now - had) = Weight[x] * now - Weight[x] * had
        /\ Weight[x] * (now - had) <= Weight[x] * n
    <3>1. now - had <= n
      BY <2>2
    <3> HIDE DEF had, x
    <3> QED
      BY <2>3, <2>4, <3>1, Difference
  <2>8. Shows(p)'
    <3> SUFFICES ASSUME NEW l \in 1..DealSlots, Uses(p, l)'
                 PROVE  LET y == inventory[p][deal'[p].item[l].index].item IN
                          /\ deal'[p].item[l].shown \in Items
                          /\ y # deal'[p].item[l].shown
                             => y = NoItem /\ deal'[p].item[l].shown \in Used
      BY <1>1 DEF Shows
    <3>1. CASE l = k
      BY <2>1, <2>5, <3>1
    <3>2. CASE l # k
      BY <2>3, <2>5, <3>2 DEF Shows, Uses
    <3> QED
      BY <3>1, <3>2
  <2> DEFINE f == Priced(p, Weight)
             g == Priced(p, Weight)'
  <2>9. Weighed(p)'
    <3>1. f \in [1..DealSlots -> Int]
      <4>1. f \in [1..DealSlots -> Nat]
        BY <2>3, PricedNat
      <4> QED
        BY <4>1
    <3>2. g \in [1..DealSlots -> Int] /\ \A l \in 1..DealSlots : l # k => g[l] = f[l]
      <4>1. \A l \in 1..DealSlots : l # k => g[l] = f[l]
        BY <2>5 DEF Priced, Uses
      <4>2. g[k] = Weight[x] * now
        BY <2>4, <2>5 DEF Priced, Uses
      <4>3. g = [l \in 1..DealSlots |-> g[l]]
        BY DEF Priced
      <4> HIDE DEF f, g, x
      <4>4. g[k] \in Int
        BY <2>7, <4>2
      <4> QED
        BY <3>1, <4>1, <4>3, <4>4
    <3>3. g[k] = Weight[x] * now
      BY <2>4, <2>5 DEF Priced, Uses
    <3>4. f[k] = Weight[x] * had
      <4>1. CASE had > 0
        BY <2>6, <4>1 DEF Priced, Uses
      <4>2. CASE ~(had > 0)
        <5>1. had = 0
          BY <2>4, <4>2
        <5>2. f[k] = 0
          BY <4>2 DEF Priced, Uses
        <5>3. Weight[x] * 0 = 0
          BY <2>3
        <5> QED
          BY <5>1, <5>2, <5>3
      <4> QED
        BY <4>1, <4>2
    <3>5. DealSlots \in Nat /\ DealSlots \in 0..DealSlots
      BY Numbers
    <3> HIDE DEF f, g
    <3>6. Total(g, DealSlots) = Total(f, DealSlots) - f[k] + g[k]
      BY <3>1, <3>2, <3>5, SumOneOff
    <3>7. Total(f, DealSlots) \in Int /\ deal[p].weight = Total(f, DealSlots)
      BY <2>3, <3>1, <3>5, Sums DEF Weighed, f
    <3>8. deal'[p].weight = deal[p].weight + Weight[x] * (now - had)
      BY <2>2
    <3>9. deal'[p].weight = Total(g, DealSlots)
      <4> HIDE DEF x, had
      <4> QED
        BY <2>7, <3>3, <3>4, <3>6, <3>7, <3>8
    <3> QED
      BY <3>9 DEF Weighed, g
  <2>10. w + deal'[p].weight <= MaxWeight
    <3>1. w \in Nat
      <4>1. partner[p] \in Players
        BY <1>3, NobodyAssumption, PartnerIsThere DEF There, OfferInv
      <4>2. Worth(inventory[partner[p]], Weight) \in Nat
        BY <2>3, <4>1, HeldBags, PiecesNat
      <4> QED
        BY <4>2, LoadIsWorth
    <3>2. deal[p].weight \in Int
      BY <2>3 DEF TradeTypeOK, Deal
    <3>3. deal'[p].weight = deal[p].weight + Weight[x] * (now - had)
      BY <2>2
    <3> HIDE DEF w, x, had
    <3> QED
      BY <2>1, <2>7, <3>1, <3>2, <3>3, Numbers
  <2>11. Fair(p)'
    <3>1. Bearable(p)'
      BY <1>1, <2>1, <2>10 DEF Bearable
    <3> QED
      BY <1>1, <2>3, <2>8, <2>9, <3>1 DEF Fair
  <2>12. ASSUME NEW r \in Players, r # p PROVE Fair(r)'
    <3>1. Fair(r) /\ Unique(inventory[r])
      BY DEF OfferInv, Fair
    <3> QED
      BY <1>1, <2>1, <2>12, <3>1, SameFair DEF Fair, Shows, Bearable
  <2>13. OfferInv'
    BY <1>1, <2>1, <2>11, <2>12 DEF OfferInv
  <2>14. ASSUME NEW r \in Players PROVE OfferStays(r)
    <3>1. deal_locked[r] \in 0..2
      BY DEF OfferInv, MutualInv
    <3> QED
      BY <1>1, <2>1, <3>1 DEF OfferStays
  <2> QED
    BY <2>13, <2>14
<1> QED
  BY <1>2, <1>3

\* A commit that goes through, by one who has a partner.
LEMMA SwapPair ==
  ASSUME OfferInv, Careful, NEW p \in Players, There(p), CommitSwaps(p, partner[p])
  PROVE  LET q == partner[p] IN
    /\ q \in Players /\ p # q /\ partner[q] = p
    /\ \A r \in Players : Valid(inventory'[r])
    /\ \A r \in Players : r \notin {p, q} => inventory'[r] = inventory[r]
    /\ Unique(inventory'[p]) /\ Unique(inventory'[q])
    /\ Balance(inventory'[p], p, q, DealSlots, DealSlots)
    /\ Balance(inventory'[q], q, p, DealSlots, DealSlots)
<1> DEFINE q == partner[p]
<1>1. q \in Players /\ partner[q] = p /\ p # q
  BY NobodyAssumption, PartnerIsThere DEF There, OfferInv, TypeInv
<1>2. TypeInv /\ Fair(p) /\ Fair(q)
  BY <1>1 DEF OfferInv
<1>3. ~Impossible(p) /\ ~Impossible(q) /\ Checked(p, q).ok /\ inventory' = Handed(p, q)
  BY DEF CommitSwaps, Possible
<1> HIDE DEF q
<1>4. /\ \A r \in Players : Valid(Handed(p, q)[r])
      /\ \A r \in Players : r \notin {p, q} => Handed(p, q)[r] = inventory[r]
      /\ Unique(Handed(p, q)[p]) /\ Unique(Handed(p, q)[q])
      /\ Balance(Handed(p, q)[p], p, q, DealSlots, DealSlots)
      /\ Balance(Handed(p, q)[q], q, p, DealSlots, DealSlots)
  <2>1. partner[p] = q
    BY DEF q
  <2> QED
    BY <1>1, <1>2, <1>3, <2>1, Settled
<1> QED
  BY <1>1, <1>3, <1>4 DEF q

\* After a trade both have what they may have, and their windows are empty.
LEMMA SwapFair ==
  ASSUME OfferInv, Careful, TypeInv', MutualInv', NEW p \in Players, There(p),
         CommitSwaps(p, partner[p])
  PROVE  OfferInv'
<1> DEFINE q == partner[p]
<1>1. /\ q \in Players /\ p # q /\ partner[q] = p
      /\ \A r \in Players : r \notin {p, q} => inventory'[r] = inventory[r]
      /\ Unique(inventory'[p]) /\ Unique(inventory'[q])
  BY SwapPair
<1>2. Close({p, q})
  BY DEF CommitSwaps
<1>3. ASSUME NEW r \in Players PROVE Fair(r)' /\ (~trading'[r] => deal'[r] = NoDeal)
  <2>1. CASE r \in {p, q}
    <3>1. deal'[r] = NoDeal
      BY <1>2, <2>1 DEF Close
    <3> QED
      BY <1>1, <2>1, <3>1, NoDealFair
  <2>2. CASE r \notin {p, q}
    <3>1. /\ partner'[r] = partner[r] /\ deal'[r] = deal[r]
          /\ inventory'[r] = inventory[r] /\ trading'[r] = trading[r]
      BY <1>1, <1>2, <2>2 DEF Close, OfferInv, MutualInv
    <3>2. Fair(r) /\ Shows(r) /\ Unique(inventory[r]) /\ (~trading[r] => deal[r] = NoDeal)
      BY DEF OfferInv, Fair
    <3>3. (\E k \in 1..DealSlots : Uses(r, k)) =>
            Load(inventory'[partner[r]]) + deal[r].weight <= MaxWeight
      <4>1. SUFFICES ASSUME NEW k \in 1..DealSlots, Uses(r, k)
                     PROVE  Load(inventory'[partner[r]]) + deal[r].weight <= MaxWeight
        OBVIOUS
      <4>2. partner[r] \in Players /\ partner[partner[r]] = r
        BY <4>1, UsesTrade
      <4>3. partner[r] \notin {p, q}
        BY <1>1, <2>2, <4>2
      <4>4. Load(inventory[partner[r]]) + deal[r].weight <= MaxWeight
        BY <3>2, <4>1 DEF OfferInv, Fair, Bearable
      <4> QED
        BY <1>1, <4>2, <4>3, <4>4
    <3>4. Fair(r)'
      BY <3>1, <3>2, <3>3, SameFair DEF Shows
    <3> QED
      BY <3>1, <3>2, <3>4
  <2> QED
    BY <2>1, <2>2
<1> QED
  BY <1>3 DEF OfferInv

----------------------------------------------------------------------------
(* A trade is an exchange *)

\* What p offers, for Exchange.
Offered(p) == IF deal_locked[p] = 0 THEN Nothing
              ELSE [to |-> partner[p], goods |-> InWindow(p)]
\* What everybody offers.
AllOffers == [p \in Players |-> Offered(p)]

\* An offer that stays, stays or is withdrawn.
LEMMA StaysOffered ==
  ASSUME NEW p, OfferStays(p)
  PROVE  Offered(p)' \in {Offered(p), Nothing}
<1>1. CASE deal_locked'[p] = 0
  BY <1>1 DEF Offered
<1>2. CASE deal_locked[p] > 0 /\ partner'[p] = partner[p] /\ deal'[p] = deal[p]
  <2>1. InWindow(p)' = InWindow(p) /\ deal_locked[p] # 0
    BY <1>2 DEF InWindow
  <2> QED
    BY <1>2, <2>1 DEF Offered
<1> QED
  BY <1>1, <1>2 DEF OfferStays

\* An offer is what the lock, the partner and the window make it.
LEMMA SameOffered ==
  ASSUME NEW p, deal_locked'[p] = deal_locked[p], partner'[p] = partner[p],
         deal'[p] = deal[p]
  PROVE  Offered(p)' = Offered(p)
BY DEF Offered, InWindow

\* Who has pressed OK and has a partner offers him what his window shows.
LEMMA OffersStand ==
  ASSUME NEW p, partner[p] # Nobody, deal_locked[p] # 0
  PROVE  /\ Offered(p) # Nothing
         /\ Offered(p).to = partner[p] /\ Offered(p).goods = InWindow(p)
BY DEF Offered, Nothing

\* Exchange's offers are the windows of those who have pressed OK.
LEMMA SwapNames ==
  Swap!ExchangeSpec <=> Swap!ExchangeInit /\ [][Swap!ExchangeNext]_<<Wealth, AllOffers>>
BY DEF Swap!ExchangeSpec, AllOffers, Offered

\* Player by player.
LEMMA EachOffer ==
  \A p \in Players : AllOffers[p] = Offered(p) /\ AllOffers'[p] = Offered(p)'
BY DEF AllOffers, Offered

\* Wealth is a matter of inventories and zeny.
LEMMA SameGoods ==
  ASSUME UNCHANGED goods_vars
  PROVE  Wealth' = Wealth
BY DEF goods_vars, Wealth

\* Offers that stay or end while no goods move: Exchange's Withdraws.
LEMMA StaysWithdraws ==
  ASSUME UNCHANGED goods_vars, \A p \in Players : OfferStays(p)
  PROVE  Swap!Withdraws
<1>1. Wealth' = Wealth
  BY SameGoods
<1>2. \A p \in Players : AllOffers'[p] \in {AllOffers[p], Nothing}
  BY StaysOffered, EachOffer
<1> QED
  BY <1>1, <1>2 DEF Swap!Withdraws, AllOffers, Offered

\* OK is Exchange's Offers.
LEMMA OkOffers ==
  ASSUME OfferInv, NEW p \in Players, TradeOk(p), There(p)
  PROVE  Swap!Offers(p)
<1>1. /\ deal_locked[p] = 0 /\ deal_locked' = [deal_locked EXCEPT ![p] = 1]
      /\ UNCHANGED <<partner, deal>> /\ UNCHANGED goods_vars /\ partner[p] # Nobody
  BY DEF TradeOk, MayAdd, There
<1>2. deal_locked'[p] = 1 /\ \A r \in Players : r # p => deal_locked'[r] = deal_locked[r]
  BY <1>1 DEF OfferInv, MutualInv
<1>3. Offered(p) = Nothing
  BY <1>1 DEF Offered
<1>4. Offered(p)' # Nothing
  BY <1>1, <1>2 DEF Offered, Nothing
<1>5. \A r \in Players \ {p} : Offered(r)' = Offered(r)
  BY <1>1, <1>2, SameOffered
<1>6. Wealth' = Wealth
  BY <1>1, SameGoods
<1>7. /\ AllOffers[p] = Nothing /\ AllOffers'[p] # Nothing
      /\ \A r \in Players \ {p} : AllOffers'[r] = AllOffers[r]
  BY <1>3, <1>4, <1>5, EachOffer
<1> QED
  BY <1>6, <1>7 DEF Swap!Offers, Swap!Standing, AllOffers, Offered

\* What happens to one player and to no window is Exchange's Fortune.
LEMMA ChanceFortune ==
  ASSUME OfferInv, NEW p \in Players, UNCHANGED window_vars,
         \A r \in Players : r # p => inventory'[r] = inventory[r] /\ zeny'[r] = zeny[r]
  PROVE  Swap!Fortune(p)
<1>1. \A r \in Players \ {p} : Wealth'[r] = Wealth[r]
  BY DEF Wealth
<1>2. AllOffers' = AllOffers
  BY SameOffered DEF AllOffers, window_vars
<1> QED
  BY <1>1, <1>2 DEF Swap!Fortune, AllOffers, Offered

\* A trade carried out is Exchange's Swaps: what both windows show changes hands.
LEMMA SwapSwaps ==
  ASSUME OfferInv, Careful, NEW p \in Players, There(p), NEW q \in Players,
         q = partner[p], CommitSwaps(p, q), deal_locked[p] > 0, deal_locked[q] > 0
  PROVE  Swap!Swaps(p, q)
<1> DEFINE G == Items \cup {Money}
<1>1. /\ q \in Players /\ p # q /\ partner[q] = p /\ partner[p] = q
      /\ \A r \in Players : Valid(inventory'[r])
      /\ \A r \in Players : r \notin {p, q} => inventory'[r] = inventory[r]
      /\ Balance(inventory'[p], p, q, DealSlots, DealSlots)
      /\ Balance(inventory'[q], q, p, DealSlots, DealSlots)
  BY SwapPair
<1>2. /\ TypeInv /\ TradeTypeOK /\ Shows(p) /\ Shows(q) /\ p # Nobody /\ q # Nobody
      /\ Valid(inventory[p]) /\ Valid(inventory[q])
  BY <1>1, NobodyAssumption, HeldBags DEF OfferInv, Fair, TypeInv
<1>3. /\ ~Impossible(p) /\ ~Impossible(q) /\ Possible(p, q) /\ Close({p, q})
      /\ zeny' = [zeny EXCEPT ![p] = Zeny(p, deal[p].zeny, deal[q].zeny),
                              ![q] = Zeny(q, deal[q].zeny, deal[p].zeny)]
  BY DEF CommitSwaps
<1>4. /\ zeny'[p] = zeny[p] - deal[p].zeny + deal[q].zeny
      /\ zeny'[q] = zeny[q] - deal[q].zeny + deal[p].zeny
      /\ \A r \in Players : r \notin {p, q} => zeny'[r] = zeny[r]
  <2>1. zeny \in [Players -> 0..MaxZeny]
    BY <1>2 DEF TradeTypeOK
  <2> QED
    BY <1>1, <1>2, <1>3, <2>1, MoneyMoves
<1>5. ASSUME NEW a \in Players, NEW b \in Players, Shows(a), Shows(b), ~Impossible(a),
             Valid(inventory[a]), Valid(inventory'[a]),
             Balance(inventory'[a], a, b, DealSlots, DealSlots),
             zeny'[a] = zeny[a] - deal[a].zeny + deal[b].zeny
      PROVE  \A g \in G : /\ InWindow(a)[g] <= Wealth[a][g]
                          /\ Wealth'[a][g] = Wealth[a][g] - InWindow(a)[g] + InWindow(b)[g]
  <2> SUFFICES ASSUME NEW g \in G
               PROVE  /\ InWindow(a)[g] <= Wealth[a][g]
                      /\ Wealth'[a][g] = Wealth[a][g] - InWindow(a)[g] + InWindow(b)[g]
    OBVIOUS
  <2>1. CASE g = Money
    <3>1. /\ InWindow(a)[g] = deal[a].zeny /\ InWindow(b)[g] = deal[b].zeny
          /\ Wealth[a][g] = zeny[a] /\ Wealth'[a][g] = zeny'[a]
      BY <2>1 DEF InWindow, Wealth
    <3>2. zeny[a] \in Int /\ deal[a].zeny \in Int /\ ~(deal[a].zeny > zeny[a])
      <4>1. deal[a] \in Deal /\ zeny[a] \in 0..MaxZeny
        BY <1>2 DEF TradeTypeOK
      <4>2. zeny[a] \in Int /\ deal[a].zeny \in Int
        BY <4>1, Numbers DEF Deal
      <4> QED
        BY <1>5, <4>2 DEF Impossible
    <3> QED
      BY <1>5, <3>1, <3>2
  <2>2. CASE g # Money
    <3>1. g \in Items
      BY <2>2
    <3>2. /\ Of(g) \in Values
          /\ InWindow(a)[g] = Total(Priced(a, Of(g)), DealSlots)
          /\ InWindow(b)[g] = Total(Priced(b, Of(g)), DealSlots)
      BY <1>2, <1>5, <2>2, <3>1, WindowIsPriced
    <3>3. Wealth[a][g] = Worth(inventory[a], Of(g))
      BY <1>5, <2>2, <3>1, CountIsWorth DEF Wealth
    <3>4. Wealth'[a][g] = Worth(inventory'[a], Of(g))
      <4>1. Wealth'[a][g] = Count(inventory'[a], g)
        BY <2>2, <3>1 DEF Wealth
      <4> QED
        BY <1>5, <3>1, <4>1, CountIsWorth
    <3>5. Total(Priced(a, Of(g)), DealSlots) <= Worth(inventory[a], Of(g))
      BY <1>2, <1>5, <3>2, WindowHeld
    <3>6. Worth(inventory'[a], Of(g)) = Worth(inventory[a], Of(g))
            - Total(Priced(a, Of(g)), DealSlots) + Total(Priced(b, Of(g)), DealSlots)
      BY <1>5, <3>2 DEF Balance
    <3> QED
      BY <3>2, <3>3, <3>4, <3>5, <3>6
  <2> QED
    BY <2>1, <2>2
<1>6. \A g \in G : /\ InWindow(p)[g] <= Wealth[p][g]
                   /\ Wealth'[p][g] = Wealth[p][g] - InWindow(p)[g] + InWindow(q)[g]
  <2> HIDE DEF G
  <2> QED
    BY <1>1, <1>2, <1>3, <1>4, <1>5
<1>7. \A g \in G : /\ InWindow(q)[g] <= Wealth[q][g]
                   /\ Wealth'[q][g] = Wealth[q][g] - InWindow(q)[g] + InWindow(p)[g]
  <2> HIDE DEF G
  <2> QED
    BY <1>1, <1>2, <1>3, <1>4, <1>5
<1>8. \A r \in Players : r \notin {p, q} => Wealth'[r] = Wealth[r]
  BY <1>1, <1>4 DEF Wealth
<1>9. /\ Wealth'[p] = [g \in G |-> Wealth[p][g] - InWindow(p)[g] + InWindow(q)[g]]
      /\ Wealth'[q] = [g \in G |-> Wealth[q][g] - InWindow(q)[g] + InWindow(p)[g]]
  <2>1. /\ Wealth'[p] = [g \in G |-> Wealth'[p][g]]
        /\ Wealth'[q] = [g \in G |-> Wealth'[q][g]]
    BY <1>1 DEF Wealth
  <2> HIDE DEF G
  <2> QED
    BY <1>6, <1>7, <2>1
<1>10. Wealth' = [Wealth EXCEPT
         ![p] = [g \in G |-> Wealth[p][g] - InWindow(p)[g] + InWindow(q)[g]],
         ![q] = [g \in G |-> Wealth[q][g] - InWindow(q)[g] + InWindow(p)[g]]]
  <2> DEFINE a == [g \in G |-> Wealth[p][g] - InWindow(p)[g] + InWindow(q)[g]]
             b == [g \in G |-> Wealth[q][g] - InWindow(q)[g] + InWindow(p)[g]]
  <2>1. Wealth'[p] = a /\ Wealth'[q] = b
    BY <1>9
  <2>2. /\ Wealth = [r \in Players |-> Wealth[r]]
        /\ Wealth' = [r \in Players |-> Wealth'[r]]
    BY DEF Wealth
  <2> HIDE DEF a, b
  <2>3. Wealth' = [Wealth EXCEPT ![p] = a, ![q] = b]
    BY <1>1, <1>8, <2>1, <2>2
  <2> QED
    BY <2>3 DEF a, b
<1>11. /\ Offered(p) # Nothing /\ Offered(p).to = q /\ Offered(p).goods = InWindow(p)
       /\ Offered(q) # Nothing /\ Offered(q).to = p /\ Offered(q).goods = InWindow(q)
  <2>1. deal_locked[p] # 0 /\ deal_locked[q] # 0
    OBVIOUS
  <2> QED
    BY <1>1, <1>2, <2>1, OffersStand
<1>12. AllOffers' = [AllOffers EXCEPT ![p] = Nothing, ![q] = Nothing]
  <2>1. Offered(p)' = Nothing /\ Offered(q)' = Nothing
    BY <1>1, <1>3 DEF Close, Offered
  <2>2. \A r \in Players : r \notin {p, q} => Offered(r)' = Offered(r)
    <3>1. ASSUME NEW r \in Players, r \notin {p, q}
          PROVE  /\ deal_locked'[r] = deal_locked[r] /\ partner'[r] = partner[r]
                 /\ deal'[r] = deal[r]
      BY <1>3, <3>1 DEF Close
    <3> QED
      BY <3>1, SameOffered
  <2>3. AllOffers = [r \in Players |-> Offered(r)]
    BY DEF AllOffers
  <2>4. AllOffers' = [r \in Players |-> Offered(r)']
    BY DEF AllOffers
  <2>5. \A r \in Players : AllOffers'[r] = IF r \in {p, q} THEN Nothing ELSE AllOffers[r]
    BY <2>1, <2>2, <2>3, <2>4
  <2>6. /\ AllOffers' = [r \in Players |-> AllOffers'[r]]
        /\ AllOffers = [r \in Players |-> AllOffers[r]]
    BY DEF AllOffers
  <2> QED
    BY <1>1, <2>5, <2>6
<1>13. /\ AllOffers[p] # Nothing /\ AllOffers[p].to = q /\ AllOffers[p].goods = InWindow(p)
       /\ AllOffers[q] # Nothing /\ AllOffers[q].to = p /\ AllOffers[q].goods = InWindow(q)
  BY <1>1, <1>11, EachOffer
<1>14. Swap!Swaps(p, q)
  <2>1. Wealth' = [Wealth EXCEPT
         ![p] = [g \in G |-> Wealth[p][g] - AllOffers[p].goods[g] + AllOffers[q].goods[g]],
         ![q] = [g \in G |-> Wealth[q][g] - AllOffers[q].goods[g] + AllOffers[p].goods[g]]]
    BY <1>10, <1>13
  <2>2. \A g \in G : /\ AllOffers[p].goods[g] <= Wealth[p][g]
                     /\ AllOffers[q].goods[g] <= Wealth[q][g]
    BY <1>6, <1>7, <1>13
  <2>3. Swap!Swaps(p, q) <=>
          /\ AllOffers[p] # Nothing /\ AllOffers[q] # Nothing /\ p # q
          /\ AllOffers[p].to = q /\ AllOffers[q].to = p
          /\ \A g \in G : /\ AllOffers[p].goods[g] <= Wealth[p][g]
                          /\ AllOffers[q].goods[g] <= Wealth[q][g]
          /\ Wealth' = [Wealth EXCEPT
               ![p] = [g \in G |-> Wealth[p][g] - AllOffers[p].goods[g]
                                     + AllOffers[q].goods[g]],
               ![q] = [g \in G |-> Wealth[q][g] - AllOffers[q].goods[g]
                                     + AllOffers[p].goods[g]]]
          /\ AllOffers' = [AllOffers EXCEPT ![p] = Nothing, ![q] = Nothing]
    BY DEF Swap!Swaps, Swap!Standing, AllOffers, Offered
  <2> HIDE DEF G
  <2> QED
    BY <1>1, <1>12, <1>13, <2>1, <2>2, <2>3
<1> QED
  BY <1>14

\* What a step does to the windows and to the goods.
LEMMA OfferStep ==
  ASSUME OfferInv, Careful, [TradeNext]_trade_vars
  PROVE  /\ OfferInv'
         /\ \/ UNCHANGED goods_vars /\ \A r \in Players : OfferStays(r)
            \/ \E p \in Players : \/ TradeOk(p) /\ There(p)
                                  \/ fortune' # fortune /\ Swap!Fortune(p)
            \/ \E p, q \in Players :
                 /\ There(p) /\ q = partner[p] /\ CommitSwaps(p, q)
                 /\ deal_locked[p] > 0 /\ deal_locked[q] > 0
<1> DEFINE quiet == UNCHANGED goods_vars /\ \A r \in Players : OfferStays(r)
           busy  == \E p \in Players : \/ TradeOk(p) /\ There(p)
                                       \/ fortune' # fortune /\ Swap!Fortune(p)
           swap  == \E p, q \in Players :
                      /\ There(p) /\ q = partner[p] /\ CommitSwaps(p, q)
                      /\ deal_locked[p] > 0 /\ deal_locked[q] > 0
           Goal  == OfferInv' /\ (quiet \/ busy \/ swap)
<1>1. TypeInv' /\ MutualInv' /\ fortune \in Int
  <2>1. AskAnyway = {} /\ TypeInv /\ MutualInv
    BY DEF Careful, OfferInv
  <2>2. fortune \in Int
    BY <2>1, Numbers DEF TypeInv, TradeTypeOK
  <2> QED
    BY <2>1, <2>2, TypeStep, StepOK
<1>2. ASSUME UNCHANGED goods_vars, \A r \in Players : WindowKept(r) /\ OfferStays(r)
      PROVE  Goal
  <2>1. inventory' = inventory
    BY <1>2 DEF goods_vars
  <2> QED
    BY <1>1, <1>2, <2>1, WindowsFair
<1>3. ASSUME NEW p \in Players, Window(p) PROVE Goal
  <2> HIDE DEF Goal
  <2>1. ASSUME NEW q \in Players, TradeRequest(p, q) PROVE Goal
    <3>1. UNCHANGED goods_vars
      BY <2>1 DEF TradeRequest, goods_vars
    <3> QED
      BY <1>2, <2>1, <3>1, RequestKept
  <2>2. ASSUME NEW accept \in BOOLEAN, TradeAck(p, accept) PROVE Goal
    <3>1. UNCHANGED goods_vars
      BY <2>2 DEF TradeAck, goods_vars
    <3> QED
      BY <1>2, <2>2, <3>1, AckKept
  <2>3. ASSUME NEW i \in 1..MaxSlots, NEW n \in 1..MaxAmount, TradeAddItem(p, i, n)
        PROVE  Goal
    <3>1. UNCHANGED goods_vars
      BY <2>3 DEF TradeAddItem, goods_vars
    <3>2. OfferInv' /\ \A r \in Players : OfferStays(r)
      BY <1>1, <2>3, AddItemFair
    <3> QED
      BY <3>1, <3>2 DEF Goal
  <2>4. ASSUME NEW z \in 0..MaxZeny, TradeAddZeny(p, z) PROVE Goal
    <3>1. UNCHANGED goods_vars
      BY <2>4 DEF TradeAddZeny, goods_vars
    <3> QED
      BY <1>2, <2>4, <3>1, AddZenyKept
  <2>5. CASE TradeOk(p)
    <3>1. UNCHANGED goods_vars /\ inventory' = inventory
      BY <2>5 DEF TradeOk, goods_vars
    <3>2. CASE ~There(p)
      <4>1. Cancel(p)
        BY <2>5, <3>2 DEF TradeOk
      <4> QED
        BY <1>2, <3>1, <4>1, CancelKept
    <3>3. CASE There(p)
      <4>1. /\ trading[p] /\ deal_locked' = [deal_locked EXCEPT ![p] = 1]
            /\ UNCHANGED <<partner, trading, deal>>
        BY <2>5, <3>3 DEF TradeOk, MayAdd
      <4>2. \A r \in Players : WindowKept(r)
        BY <4>1, LockKept
      <4>3. OfferInv'
        BY <1>1, <3>1, <4>2, WindowsFair
      <4> QED
        BY <2>5, <3>3, <4>3 DEF Goal
    <3> QED
      BY <3>2, <3>3
  <2>6. CASE TradeCancel(p)
    <3>1. UNCHANGED goods_vars /\ Cancel(p)
      BY <2>6 DEF TradeCancel, goods_vars
    <3> QED
      BY <1>2, <3>1, CancelKept
  <2>7. CASE TradeCommit(p)
    <3>1. TypeInv /\ trading[p] /\ deal_locked[p] > 0
      BY <2>7 DEF OfferInv, TradeCommit
    <3>2. CASE UNCHANGED goods_vars /\ (Cancel(p) \/ (There(p) /\ Cancel(partner[p])))
      <4>1. There(p) => partner[p] \in Players
        BY <3>1 DEF There, TypeInv, TradeTypeOK
      <4> QED
        BY <1>2, <3>2, <4>1, CancelKept
    <3>3. CASE /\ deal_locked' = [deal_locked EXCEPT ![p] = 2]
               /\ UNCHANGED <<goods_vars, partner, trading, deal>>
      <4>1. \A r \in Players : WindowKept(r) /\ OfferStays(r)
        BY <3>1, <3>3, LockKept
      <4>2. UNCHANGED goods_vars
        BY <3>3
      <4> QED
        BY <1>2, <4>1, <4>2
    <3>4. CASE There(p) /\ deal_locked[partner[p]] >= 2 /\ CommitSwaps(p, partner[p])
      <4>1. partner[p] \in Players
        BY <3>1, <3>4 DEF There, TypeInv, TradeTypeOK
      <4>2. deal_locked[partner[p]] > 0
        <5>1. deal_locked[partner[p]] \in 0..2
          BY <3>1, <4>1 DEF TypeInv, TradeTypeOK
        <5>2. deal_locked[partner[p]] >= 2
          BY <3>4
        <5> QED
          BY <5>1, <5>2
      <4>3. PICK q \in Players : q = partner[p]
        BY <4>1
      <4>5. CommitSwaps(p, q) /\ deal_locked[q] > 0 /\ There(p)
        BY <3>4, <4>2, <4>3
      <4>6. swap
        BY <3>1, <4>3, <4>5
      <4>4. OfferInv'
        BY <1>1, <3>4, SwapFair
      <4> HIDE DEF swap
      <4> QED
        BY <4>4, <4>6 DEF Goal
    <3> QED
      BY <2>7, <3>1, <3>2, <3>3, <3>4, CommitCases
  <2> QED
    BY <1>3, <2>1, <2>2, <2>3, <2>4, <2>5, <2>6, <2>7 DEF Window
<1>4. ASSUME NEW p \in Players, Chance(p) PROVE Goal
  <2>1. ASSUME UNCHANGED window_vars, Happens,
               \A r \in Players : r # p => inventory'[r] = inventory[r] /\ zeny'[r] = zeny[r]
        PROVE  busy
    <3>1. Swap!Fortune(p)
      BY <2>1, ChanceFortune
    <3>2. fortune' # fortune
      BY <1>1, <2>1 DEF Happens
    <3> QED
      BY <3>1, <3>2
  <2> HIDE DEF busy
  <2>2. ASSUME NEW x \in Found, Finds(p, x) PROVE Goal
    <3>1. OfferInv'
      BY <1>1, <2>2, FindsFair
    <3>2. busy
      BY <2>1, <2>2 DEF Finds, OfferInv, TypeInv, TradeTypeOK
    <3> QED
      BY <3>1, <3>2
  <2>3. ASSUME NEW i \in 1..MaxSlots, UsesUp(p, i) PROVE Goal
    <3>1. OfferInv'
      BY <1>1, <2>3, UsesUpFair
    <3>2. busy
      BY <2>1, <2>3 DEF UsesUp, OfferInv, TypeInv, TradeTypeOK
    <3> QED
      BY <3>1, <3>2
  <2>4. ASSUME NEW i \in 1..MaxSlots, Wears(p, i) PROVE Goal
    <3>1. OfferInv'
      BY <1>1, <2>4, WearsFair
    <3>2. busy
      BY <2>1, <2>4 DEF Wears, OfferInv, TypeInv, TradeTypeOK
    <3> QED
      BY <3>1, <3>2
  <2>5. CASE Spends(p) \/ Earns(p)
    <3>1. UNCHANGED window_vars /\ inventory' = inventory /\ Happens
      BY <2>5 DEF Spends, Earns
    <3>2. busy
      BY <2>1, <2>5 DEF Spends, Earns, OfferInv, TypeInv, TradeTypeOK
    <3>3. OfferInv'
      BY <1>1, <3>1, AllKept, WindowsFair
    <3> QED
      BY <3>2, <3>3
  <2>6. CASE Leaves(p)
    <3>1. UNCHANGED goods_vars
      BY <2>6 DEF Leaves
    <3> QED
      BY <1>2, <2>6, <3>1, LeaveKept
  <2>7. CASE Enters(p)
    <3>1. UNCHANGED goods_vars /\ UNCHANGED window_vars
      BY <2>7 DEF Enters
    <3> QED
      BY <1>2, <3>1, AllKept
  <2> HIDE DEF Goal
  <2> QED
    BY <1>4, <2>2, <2>3, <2>4, <2>5, <2>6, <2>7 DEF Chance
<1>5. Goal
  <2> HIDE DEF Goal
  <2>1. CASE TradeNext
    <3>1. PICK p \in Players : Window(p) \/ Chance(p)
      BY <2>1 DEF TradeNext
    <3> QED
      BY <3>1, <1>3, <1>4
  <2>2. TradeNext \/ UNCHANGED trade_vars
    OBVIOUS
  <2>3. CASE UNCHANGED trade_vars
    <3>1. UNCHANGED goods_vars /\ UNCHANGED window_vars
      BY <2>3 DEF trade_vars, goods_vars, window_vars
    <3> QED
      BY <1>2, <3>1, AllKept
  <2> QED
    BY <2>1, <2>2, <2>3
<1> QED
  BY <1>5

\* Every step of the trade is a step of Exchange or changes nothing there.
LEMMA ExchangeStep ==
  ASSUME OfferInv, Careful, [TradeNext]_trade_vars
  PROVE  [Swap!ExchangeNext]_<<Wealth, AllOffers>>
<1>1. CASE UNCHANGED goods_vars /\ \A r \in Players : OfferStays(r)
  BY <1>1, StaysWithdraws DEF Swap!ExchangeNext
<1>2. ASSUME NEW p \in Players,
             (TradeOk(p) /\ There(p)) \/ (fortune' # fortune /\ Swap!Fortune(p))
      PROVE  Swap!ExchangeNext
  BY <1>2, OkOffers DEF Swap!ExchangeNext
<1>3. ASSUME NEW p \in Players, NEW q \in Players, There(p), q = partner[p],
             CommitSwaps(p, q), deal_locked[p] > 0, deal_locked[q] > 0
      PROVE  Swap!ExchangeNext
  <2>1. Swap!Swaps(p, q)
    BY <1>3, SwapSwaps
  <2> QED
    BY <2>1 DEF Swap!ExchangeNext
<1> QED
  BY <1>1, <1>2, <1>3, OfferStep

\* All windows are empty at first, so nothing is offered.
LEMMA OfferStart ==
  ASSUME TradeInit, Careful
  PROVE  OfferInv /\ Swap!ExchangeInit
<1>1. TypeInv /\ MutualInv
  BY TypeStart, NobodyAssumption DEF TradeInit, MutualInv, PartnersMutual
<1>2. ASSUME NEW p \in Players
      PROVE  Fair(p) /\ deal[p] = NoDeal /\ Offered(p) = Nothing
  <2>1. deal[p] = NoDeal /\ deal_locked[p] = 0 /\ inventory[p] = Start[p]
    BY DEF TradeInit
  <2>2. Unique(inventory[p])
    BY <2>1 DEF Careful
  <2>3. \A k \in 1..DealSlots : ~(deal[p].item[k].amount > 0)
    BY <2>1, NoDealOK
  <2>4. Weighed(p)
    <3>1. Priced(p, Weight) = [k \in 1..DealSlots |-> 0]
      BY <2>3 DEF Priced, Uses
    <3>2. Total(Priced(p, Weight), DealSlots) = 0
      BY <3>1, Numbers, SumOfNone
    <3> QED
      BY <2>1, <3>2 DEF Weighed, NoDeal
  <2>5. Shows(p) /\ Bearable(p)
    BY <2>3 DEF Shows, Bearable, Uses
  <2> QED
    BY <2>1, <2>2, <2>4, <2>5 DEF Fair, Offered
<1>3. Swap!ExchangeInit
  BY <1>2 DEF Swap!ExchangeInit, Swap!Standing, Offered
<1> QED
  BY <1>1, <1>2, <1>3 DEF OfferInv

\* The trade implements Exchange (trade_traderequest to trade_tradecommit): goods
\* move between players only when both have pressed OK and TRADE with each other, and
\* then exactly what their windows show moves, whatever else happens meanwhile.  Each
\* conjunct of Careful is needed: see its comment.
THEOREM TradeIsExchange == Careful => (TradeSpec => IsExchange)
<1> SUFFICES ASSUME Careful PROVE TradeSpec => IsExchange
  OBVIOUS
<1>1. TradeInit => OfferInv /\ Swap!ExchangeInit
  BY OfferStart
<1>2. OfferInv /\ [TradeNext]_trade_vars
        => OfferInv' /\ [Swap!ExchangeNext]_<<Wealth, AllOffers>>
  BY OfferStep, ExchangeStep
<1>3. IsExchange <=> Swap!ExchangeInit /\ [][Swap!ExchangeNext]_<<Wealth, AllOffers>>
  BY SwapNames DEF IsExchange
<1> QED
  BY <1>1, <1>2, <1>3, PTL DEF TradeSpec

----------------------------------------------------------------------------
(* What a commit leaves the two together *)

\* A commit leaves the two together what they had, and everybody else his own.
LEMMA CommitConserves ==
  ASSUME TypeInv, NEW p \in Players, NEW q \in Players, p # q, CommitSwaps(p, q)
  PROVE  /\ \A g \in Items \cup {Money} :
              Wealth'[p][g] + Wealth'[q][g] = Wealth[p][g] + Wealth[q][g]
         /\ \A r \in Players \ {p, q} : Wealth'[r] = Wealth[r]
<1>1. /\ TradeTypeOK /\ ~Impossible(p) /\ ~Impossible(q) /\ Possible(p, q)
      /\ inventory' = Handed(p, q)
      /\ zeny' = [zeny EXCEPT ![p] = Zeny(p, deal[p].zeny, deal[q].zeny),
                              ![q] = Zeny(q, deal[q].zeny, deal[p].zeny)]
  BY DEF TypeInv, CommitSwaps
<1>2. Kept(inventory', p, q, DealSlots, DealSlots)
  BY <1>1, HandedKept
<1>3. zeny \in [Players -> 0..MaxZeny]
  BY <1>1 DEF TradeTypeOK
<1>4. /\ zeny'[p] = zeny[p] - deal[p].zeny + deal[q].zeny
      /\ zeny'[q] = zeny[q] - deal[q].zeny + deal[p].zeny
      /\ \A r \in Players \ {p, q} : zeny'[r] = zeny[r]
  BY <1>1, <1>3, MoneyMoves
<1>5. zeny'[p] + zeny'[q] = zeny[p] + zeny[q]
  <2>1. deal[p].zeny \in Int /\ deal[q].zeny \in Int /\ zeny[p] \in Int /\ zeny[q] \in Int
    <3>1. deal[p] \in Deal /\ deal[q] \in Deal
      BY <1>1 DEF TradeTypeOK
    <3> QED
      BY <1>3, <3>1, Numbers DEF Deal
  <2> QED
    BY <1>4, <2>1
<1>6. ASSUME NEW g \in Items
      PROVE  Count(inventory'[p], g) + Count(inventory'[q], g)
             = Count(inventory[p], g) + Count(inventory[q], g)
  <2>1. /\ Valid(inventory'[p]) /\ Valid(inventory'[q])
        /\ Valid(inventory[p]) /\ Valid(inventory[q])
    BY <1>1, <1>2, HeldBags DEF Kept
  <2>2. Of(g) \in Values /\ Both(inventory', p, q, Of(g)) = Both(inventory, p, q, Of(g))
    BY <1>1, <2>1, CountIsWorth, HandedSums
  <2> QED
    BY <2>1, <2>2, CountIsWorth DEF Both
<1>7. \A r \in Players \ {p, q} : inventory'[r] = inventory[r]
  BY <1>2 DEF Kept
<1>8. \A g \in Items \cup {Money} :
        Wealth'[p][g] + Wealth'[q][g] = Wealth[p][g] + Wealth[q][g]
  <2> SUFFICES ASSUME NEW g \in Items \cup {Money}
               PROVE  Wealth'[p][g] + Wealth'[q][g] = Wealth[p][g] + Wealth[q][g]
    OBVIOUS
  <2>1. CASE g = Money
    BY <1>5, <2>1 DEF Wealth
  <2>2. CASE g # Money
    BY <1>6, <2>2 DEF Wealth
  <2> QED
    BY <2>1, <2>2
<1>9. \A r \in Players \ {p, q} : Wealth'[r] = Wealth[r]
  BY <1>4, <1>7 DEF Wealth
<1> QED
  BY <1>8, <1>9

\* Goods stay where they are but for a commit and for what happens to players.
LEMMA GoodsStay ==
  ASSUME TypeInv, [TradeNext]_trade_vars, fortune' = fortune
  PROVE  \/ UNCHANGED goods_vars
         \/ \E p \in Players : /\ There(p) /\ partner[p] \in Players /\ partner[p] # p
                               /\ deal_locked[p] > 0 /\ deal_locked[partner[p]] > 0
                               /\ CommitSwaps(p, partner[p])
<1>1. CASE UNCHANGED trade_vars
  BY <1>1 DEF trade_vars, goods_vars
<1>2. ASSUME NEW p \in Players, Chance(p) PROVE UNCHANGED goods_vars
  <2>1. fortune' # fortune + 1
    BY Numbers DEF TypeInv, TradeTypeOK
  <2>2. ~Happens
    BY <2>1 DEF Happens
  <2>3. Enters(p)
    BY <1>2, <2>2 DEF Chance, Finds, UsesUp, Wears, Spends, Earns, Leaves
  <2> QED
    BY <2>3 DEF Enters
<1>3. ASSUME NEW p \in Players, TradeCommit(p)
      PROVE  \/ UNCHANGED goods_vars
             \/ /\ There(p) /\ partner[p] \in Players /\ partner[p] # p
                /\ deal_locked[p] > 0 /\ deal_locked[partner[p]] > 0
                /\ CommitSwaps(p, partner[p])
  <2>1. deal_locked[p] > 0 /\ (There(p) => partner[p] \in Players)
    BY <1>3 DEF TradeCommit, There, TypeInv, TradeTypeOK
  <2>2. partner[p] # p
    BY DEF TypeInv
  <2>3. There(p) => deal_locked[partner[p]] \in 0..2
    BY <2>1 DEF TypeInv, TradeTypeOK
  <2> DEFINE n == deal_locked[partner[p]]
  <2> HIDE DEF n
  <2>4. There(p) /\ n >= 2 => n > 0
    BY <2>3 DEF n
  <2>5. UNCHANGED goods_vars \/ (There(p) /\ n >= 2 /\ CommitSwaps(p, partner[p]))
    BY <1>3, CommitCases DEF n
  <2> QED
    BY <2>1, <2>2, <2>4, <2>5 DEF n
<1>4. ASSUME NEW p \in Players, Window(p)
      PROVE  UNCHANGED goods_vars \/ TradeCommit(p)
  BY <1>4 DEF Window, TradeRequest, TradeAck, TradeAddItem, TradeAddZeny, TradeOk, TradeCancel
<1> QED
  BY <1>1, <1>2, <1>3, <1>4 DEF TradeNext

\* Whatever pc_additem refuses at the commit, and whatever else happens to the
\* players, a trade loses and doubles nothing: goods leave a player only for one he
\* trades with, both have pressed OK, and together they keep what they had
\* (trade_tradecommit).  Nothing is asked of the items or of who may ask for trades.
THEOREM TradeNothingDoubled == TradeSpec => NothingDoubled
<1> DEFINE A == \A p \in Players : fortune' = fortune /\ Wealth'[p] # Wealth[p] =>
                  \E q \in Players \ {p} :
                    /\ partner[p] = q \/ partner[q] = p
                    /\ deal_locked[p] > 0 /\ deal_locked[q] > 0
                    /\ \A g \in Items \cup {Money} :
                         Wealth'[p][g] + Wealth'[q][g] = Wealth[p][g] + Wealth[q][g]
                    /\ \A r \in Players \ {p, q} : Wealth'[r] = Wealth[r]
<1>1. TypeInv /\ [TradeNext]_trade_vars => TypeInv' /\ A
  <2> SUFFICES ASSUME TypeInv, [TradeNext]_trade_vars PROVE TypeInv' /\ A
    OBVIOUS
  <2>1. TypeInv'
    BY TypeStep
  <2> SUFFICES ASSUME NEW p \in Players, fortune' = fortune, Wealth'[p] # Wealth[p]
               PROVE  \E q \in Players \ {p} :
                        /\ partner[p] = q \/ partner[q] = p
                        /\ deal_locked[p] > 0 /\ deal_locked[q] > 0
                        /\ \A g \in Items \cup {Money} :
                             Wealth'[p][g] + Wealth'[q][g] = Wealth[p][g] + Wealth[q][g]
                        /\ \A r \in Players \ {p, q} : Wealth'[r] = Wealth[r]
    BY <2>1
  <2>2. ~UNCHANGED goods_vars
    BY SameGoods
  <2>3. PICK s \in Players : /\ There(s) /\ partner[s] \in Players /\ partner[s] # s
                             /\ deal_locked[s] > 0 /\ deal_locked[partner[s]] > 0
                             /\ CommitSwaps(s, partner[s])
    BY <2>2, GoodsStay
  <2> DEFINE t == partner[s]
  <2>4. /\ t \in Players /\ s # t
        /\ \A g \in Items \cup {Money} :
             Wealth'[s][g] + Wealth'[t][g] = Wealth[s][g] + Wealth[t][g]
        /\ \A r \in Players \ {s, t} : Wealth'[r] = Wealth[r]
    BY <2>3, CommitConserves
  <2>5. p = s \/ p = t
    BY <2>4
  <2>6. CASE p = s
    <3>1. t \in Players \ {p}
      BY <2>4, <2>6
    <3> QED
      BY <2>3, <2>4, <2>6, <3>1
  <2>7. CASE p = t
    <3>1. s \in Players \ {p}
      BY <2>4, <2>7
    <3>2. \A g \in Items \cup {Money} :
            Wealth'[p][g] + Wealth'[s][g] = Wealth[p][g] + Wealth[s][g]
      <4>1. ASSUME NEW g \in Items \cup {Money}, NEW r \in Players
            PROVE  Wealth[r][g] \in Int /\ Wealth'[r][g] \in Int
        <5>1. CASE g = Money
          BY <2>1, <5>1, Numbers DEF TypeInv, TradeTypeOK, Wealth
        <5>2. CASE g # Money
          <6>1. Valid(inventory[r]) /\ Valid(inventory'[r])
            BY <2>1 DEF TypeInv, TradeTypeOK, Valid
          <6>2. Count(inventory[r], g) \in Int /\ Count(inventory'[r], g) \in Int
            BY <5>2, <6>1, CountIsWorth, PiecesNat
          <6> QED
            BY <5>2, <6>2 DEF Wealth
        <5> QED
          BY <5>1, <5>2
      <4> QED
        BY <2>4, <2>7, <4>1
    <3> QED
      BY <2>3, <2>4, <2>7, <3>1, <3>2
  <2> QED
    BY <2>5, <2>6, <2>7
<1>2. TradeInit => TypeInv
  BY TypeStart
<1> QED
  BY <1>1, <1>2, PTL DEF TradeSpec, NothingDoubled
=============================================================================

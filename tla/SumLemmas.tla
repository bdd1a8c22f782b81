----------------------------- MODULE SumLemmas -----------------------------
(***************************************************************************)
(* Lemmas about the sums and concatenations of Sums.  They are proved by   *)
(* induction over how many terms there are, from the well-foundedness of   *)
(* the natural numbers: a property is stated as a set of numbers, since a  *)
(* theorem of the library that takes a predicate cannot be instantiated.   *)
(***************************************************************************)
EXTENDS Sums, WellFoundedInduction, SequenceTheorems, TLAPS

(* Induction over a set of numbers: a smallest number that is not in it    *)
(* would have a predecessor that is.                                       *)
LEMMA NatSetInduction ==
    ASSUME NEW S, 0 \in S, \A n \in Nat : n \in S => n + 1 \in S
    PROVE  \A n \in Nat : n \in S
<1> DEFINE R == OpToRel(<, Nat)
           T == {n \in Nat : n \notin S}
<1>1. IsWellFoundedOn(R, Nat)
  BY NatLessThanWellFounded
<1>2. \A m, n \in Nat : m < n => <<m, n>> \in R
  BY DEF OpToRel
<1> HIDE DEF R
<1>3. SUFFICES ASSUME T # {} PROVE FALSE
  OBVIOUS
<1>4. PICK m \in T : \A n \in T : ~(<<n, m>> \in R)
  BY <1>1, <1>3, WFMin
<1>5. m \in Nat /\ m # 0 /\ m \notin S
  BY <1>4
<1>6. m - 1 \in Nat /\ m - 1 < m /\ (m - 1) + 1 = m
  BY <1>5
<1>7. m - 1 \notin T
  BY <1>2, <1>4, <1>5, <1>6
<1> QED BY <1>5, <1>6, <1>7

(***************************************************************************)
(* Sums.                                                                   *)
(***************************************************************************)
(* g is the function SumTo(f, n) defines.                                  *)
IsSum(g, f, n) == g = [i \in 0..n |-> IF i = 0 THEN 0 ELSE g[i - 1] + f[i]]

(* The recursion has a solution.                                           *)
LEMMA SumExists ==
    ASSUME NEW f
    PROVE  \A n \in Nat : \E g : IsSum(g, f, n)
<1> DEFINE S == {n \in Nat : \E g : IsSum(g, f, n)}
<1>1. 0 \in S
  <2>1. IsSum([i \in 0..0 |-> 0], f, 0)
    BY DEF IsSum
  <2> QED BY <2>1
<1>2. ASSUME NEW n \in Nat, n \in S
      PROVE  n + 1 \in S
  <2>1. PICK g : IsSum(g, f, n)
    BY <1>2
  <2> DEFINE h == [i \in 0..(n + 1) |-> IF i = n + 1 THEN g[n] + f[i] ELSE g[i]]
  <2>2. \A i \in 0..n : g[i] = IF i = 0 THEN 0 ELSE g[i - 1] + f[i]
    BY <2>1 DEF IsSum
  <2>3. \A i \in 0..(n + 1) : h[i] = IF i = 0 THEN 0 ELSE h[i - 1] + f[i]
    BY <2>2
  <2>4. h = [i \in 0..(n + 1) |-> h[i]]
    OBVIOUS
  <2>5. h = [i \in 0..(n + 1) |-> IF i = 0 THEN 0 ELSE h[i - 1] + f[i]]
    BY <2>3, <2>4
  <2>6. IsSum(h, f, n + 1)
    BY <2>5 DEF IsSum
  <2> QED BY <2>6
<1> HIDE DEF S
<1>3. \A n \in Nat : n \in S
  BY <1>1, <1>2, NatSetInduction
<1> QED BY <1>3 DEF S

(* Two of its solutions agree as far as both go.                           *)
LEMMA SumUnique ==
    ASSUME NEW f, NEW m \in Nat, NEW n \in Nat, m <= n,
           NEW g, IsSum(g, f, m), NEW h, IsSum(h, f, n)
    PROVE  \A i \in 0..m : g[i] = h[i]
<1> DEFINE S == {i \in Nat : i <= m => g[i] = h[i]}
<1>1. \A i \in 0..m : g[i] = IF i = 0 THEN 0 ELSE g[i - 1] + f[i]
  BY DEF IsSum
<1>2. \A i \in 0..n : h[i] = IF i = 0 THEN 0 ELSE h[i - 1] + f[i]
  BY DEF IsSum
<1>3. 0 \in S
  BY <1>1, <1>2
<1>4. ASSUME NEW i \in Nat, i \in S
      PROVE  i + 1 \in S
  <2>1. CASE i + 1 <= m
    <3>1. i + 1 \in 0..m /\ i + 1 \in 0..n /\ i + 1 # 0 /\ (i + 1) - 1 = i /\ i <= m
      BY <2>1
    <3>2. g[i + 1] = g[i] + f[i + 1] /\ h[i + 1] = h[i] + f[i + 1]
      BY <1>1, <1>2, <3>1
    <3> QED BY <1>4, <3>1, <3>2
  <2> QED BY <2>1
<1> HIDE DEF S
<1>5. \A i \in Nat : i \in S
  BY <1>3, <1>4, NatSetInduction
<1> QED BY <1>5 DEF S

(* SumTo is the value at n of a solution of its recursion.                 *)
LEMMA SumSolution ==
    ASSUME NEW f, NEW n \in Nat
    PROVE  \E g : IsSum(g, f, n) /\ SumTo(f, n) = g[n]
<1>1. \E g : IsSum(g, f, n)
  BY SumExists
<1> DEFINE G == CHOOSE g : IsSum(g, f, n)
<1>2. IsSum(G, f, n)
  BY <1>1
<1>3. SumTo(f, n) = G[n]
  BY DEF SumTo, IsSum
<1> QED BY <1>2, <1>3

(* What the sum of no numbers is, and that of one more.                    *)
LEMMA SumZero ==
    ASSUME NEW f
    PROVE  SumTo(f, 0) = 0
<1>1. PICK g : IsSum(g, f, 0) /\ SumTo(f, 0) = g[0]
  BY SumSolution
<1> QED BY <1>1 DEF IsSum

(* The sum of one number more.                                             *)
LEMMA SumStep ==
    ASSUME NEW f, NEW n \in Nat
    PROVE  SumTo(f, n + 1) = SumTo(f, n) + f[n + 1]
<1>1. PICK g : IsSum(g, f, n) /\ SumTo(f, n) = g[n]
  BY SumSolution
<1>2. PICK h : IsSum(h, f, n + 1) /\ SumTo(f, n + 1) = h[n + 1]
  BY SumSolution
<1>3. g[n] = h[n]
  BY <1>1, <1>2, SumUnique
<1>4. h[n + 1] = h[n] + f[n + 1]
  BY <1>2 DEF IsSum
<1> QED BY <1>1, <1>2, <1>3, <1>4

(* Sums of numbers are numbers.                                            *)
LEMMA SumIsInt ==
    ASSUME NEW f, NEW n \in Nat, \A i \in 1..n : f[i] \in Int
    PROVE  SumTo(f, n) \in Int
<1> DEFINE S == {m \in Nat : m <= n => SumTo(f, m) \in Int}
<1>1. 0 \in S
  BY SumZero
<1>2. ASSUME NEW m \in Nat, m \in S
      PROVE  m + 1 \in S
  <2>1. m + 1 <= n => m + 1 \in 1..n /\ m <= n
    OBVIOUS
  <2> QED BY <1>2, <2>1, SumStep
<1> HIDE DEF S
<1>3. \A m \in Nat : m \in S
  BY <1>1, <1>2, NatSetInduction
<1> QED BY <1>3 DEF S

(* A sum of natural numbers does not get smaller with more of them.        *)
LEMMA SumGrows ==
    ASSUME NEW f, NEW n \in Nat, \A i \in 1..n : f[i] \in Nat
    PROVE  \A m \in 0..n : SumTo(f, m) \in Nat /\ SumTo(f, m) <= SumTo(f, n)
<1> DEFINE S == {k \in Nat : k <= n =>
                    /\ SumTo(f, k) \in Nat
                    /\ \A m \in 0..k : SumTo(f, m) <= SumTo(f, k)}
<1>1. 0 \in S
  BY SumZero
<1>2. ASSUME NEW k \in Nat, k \in S, k + 1 <= n
      PROVE  /\ SumTo(f, k + 1) \in Nat
             /\ \A m \in 0..(k + 1) : SumTo(f, m) <= SumTo(f, k + 1)
  <2>1. k + 1 \in 1..n /\ k <= n
    BY <1>2
  <2>2. /\ SumTo(f, k) \in Nat
        /\ \A m \in 0..k : SumTo(f, m) <= SumTo(f, k)
    BY <1>2, <2>1
  <2>3. SumTo(f, k + 1) = SumTo(f, k) + f[k + 1] /\ f[k + 1] \in Nat
    BY <2>1, SumStep
  <2>4. \A m \in 0..k : SumTo(f, m) \in Nat
    <3>1. \A m \in 0..k : \A i \in 1..m : f[i] \in Int
      BY <2>1
    <3>2. \A m \in 0..k : SumTo(f, m) \in Int
      BY <3>1, SumIsInt
    <3> DEFINE Z == {m \in Nat : m <= k => SumTo(f, m) >= 0}
    <3>3. 0 \in Z
      BY SumZero
    <3>4. ASSUME NEW m \in Nat, m \in Z
          PROVE  m + 1 \in Z
      <4>1. m + 1 <= k => m + 1 \in 1..n /\ m \in 0..k
        BY <2>1
      <4>2. m + 1 <= k => SumTo(f, m) >= 0 /\ f[m + 1] \in Nat
        BY <3>4, <4>1
      <4> QED BY <3>2, <4>1, <4>2, SumStep
    <3> HIDE DEF Z
    <3>5. \A m \in Nat : m \in Z
      BY <3>3, <3>4, NatSetInduction
    <3> QED BY <3>2, <3>5 DEF Z
  <2>5. \A m \in 0..(k + 1) : m \in 0..k \/ m = k + 1
    OBVIOUS
  <2> QED BY <2>2, <2>3, <2>4, <2>5
<1> HIDE DEF S
<1>3. \A k \in Nat : k \in S => k + 1 \in S
  BY <1>2 DEF S
<1>4. \A k \in Nat : k \in S
  BY <1>1, <1>3, NatSetInduction
<1>5. n \in S
  BY <1>4
<1>6. \A m \in 0..n : m \in S /\ m \in Nat /\ m <= n
  BY <1>4
<1> QED BY <1>5, <1>6 DEF S

(* The terms alone decide the sum.                                         *)
LEMMA SumSame ==
    ASSUME NEW f, NEW g, NEW n \in Nat, \A i \in 1..n : f[i] = g[i]
    PROVE  SumTo(f, n) = SumTo(g, n)
<1> DEFINE S == {m \in Nat : m <= n => SumTo(f, m) = SumTo(g, m)}
<1>1. 0 \in S
  BY SumZero
<1>2. ASSUME NEW m \in Nat, m \in S
      PROVE  m + 1 \in S
  <2>1. m + 1 <= n => m + 1 \in 1..n /\ m <= n
    OBVIOUS
  <2> QED BY <1>2, <2>1, SumStep
<1> HIDE DEF S
<1>3. \A m \in Nat : m \in S
  BY <1>1, <1>2, NatSetInduction
<1> QED BY <1>3 DEF S

(* One number changed changes the sum by as much.                          *)
LEMMA SumChange ==
    ASSUME NEW f, NEW g, NEW n \in Nat, NEW u \in 1..n, \A i \in 1..n : f[i] \in Int,
           g[u] \in Int, \A i \in 1..n : i # u => g[i] = f[i]
    PROVE  SumTo(g, n) = SumTo(f, n) - f[u] + g[u]
<1> DEFINE S == {m \in Nat : m <= n =>
                    SumTo(g, m) = IF m < u THEN SumTo(f, m) ELSE SumTo(f, m) - f[u] + g[u]}
<1>1. 0 \in S
  BY SumZero
<1>2. ASSUME NEW m \in Nat, m \in S, m + 1 <= n
      PROVE  SumTo(g, m + 1) = IF m + 1 < u THEN SumTo(f, m + 1)
                               ELSE SumTo(f, m + 1) - f[u] + g[u]
  <2>1. /\ m + 1 \in 1..n /\ m <= n /\ f[u] \in Int /\ f[m + 1] \in Int
        /\ \A i \in 1..m : f[i] \in Int
    BY <1>2
  <2>2. SumTo(g, m) = IF m < u THEN SumTo(f, m) ELSE SumTo(f, m) - f[u] + g[u]
    BY <1>2, <2>1
  <2>3. /\ SumTo(f, m + 1) = SumTo(f, m) + f[m + 1]
        /\ SumTo(g, m + 1) = SumTo(g, m) + g[m + 1]
    BY SumStep
  <2>4. SumTo(f, m) \in Int
    BY <2>1, SumIsInt
  <2>5. CASE m + 1 = u
    BY <2>1, <2>2, <2>3, <2>4, <2>5
  <2>6. CASE m + 1 # u
    <3>1. g[m + 1] = f[m + 1] /\ (m + 1 < u <=> m < u)
      BY <2>1, <2>6
    <3> QED BY <2>1, <2>2, <2>3, <2>4, <3>1
  <2> QED BY <2>5, <2>6
<1> HIDE DEF S
<1>3. \A m \in Nat : m \in S => m + 1 \in S
  BY <1>2 DEF S
<1>4. \A m \in Nat : m \in S
  BY <1>1, <1>3, NatSetInduction
<1> QED BY <1>4 DEF S

(* The sum of the first m terms and that of the n behind them.             *)
LEMMA SumSplit ==
    ASSUME NEW f, NEW m \in Nat, NEW n \in Nat, \A i \in 1..(m + n) : f[i] \in Int,
           NEW g, \A i \in 1..n : g[i] = f[m + i]
    PROVE  SumTo(f, m + n) = SumTo(f, m) + SumTo(g, n)
<1> DEFINE S == {k \in Nat : k <= n => SumTo(f, m + k) = SumTo(f, m) + SumTo(g, k)}
<1>1. SumTo(f, m) \in Int
  BY SumIsInt
<1>2. 0 \in S
  BY <1>1, SumZero
<1>3. ASSUME NEW k \in Nat, k \in S, k + 1 <= n
      PROVE  SumTo(f, m + (k + 1)) = SumTo(f, m) + SumTo(g, k + 1)
  <2>1. k <= n /\ k + 1 \in 1..n /\ m + k \in Nat /\ m + (k + 1) = (m + k) + 1
    BY <1>3
  <2>2. \A i \in 1..k : g[i] \in Int
    <3>1. \A i \in 1..k : i \in 1..n /\ m + i \in 1..(m + n)
      BY <2>1
    <3> QED BY <3>1
  <2>3. SumTo(g, k) \in Int /\ f[m + (k + 1)] \in Int
    <3>1. m + (k + 1) \in 1..(m + n)
      BY <2>1
    <3> QED BY <2>2, <3>1, SumIsInt
  <2>4. SumTo(f, (m + k) + 1) = SumTo(f, m + k) + f[(m + k) + 1]
    BY <2>1, SumStep
  <2>5. SumTo(g, k + 1) = SumTo(g, k) + f[m + (k + 1)]
    BY <2>1, SumStep
  <2>6. SumTo(f, m + k) = SumTo(f, m) + SumTo(g, k)
    BY <1>3, <2>1
  <2> QED BY <1>1, <2>1, <2>3, <2>4, <2>5, <2>6
<1> HIDE DEF S
<1>4. \A k \in Nat : k \in S => k + 1 \in S
  BY <1>3 DEF S
<1>5. \A k \in Nat : k \in S
  BY <1>2, <1>4, NatSetInduction
<1> QED BY <1>5 DEF S

(***************************************************************************)
(* Sequences.                                                              *)
(***************************************************************************)
(* A sum is its first number and the sum of the rest.                      *)
LEMMA SumTail ==
    ASSUME NEW f, NEW k \in Nat, \A i \in 1..(k + 1) : f[i] \in Int,
           NEW g, \A i \in 1..k : g[i] = f[i + 1]
    PROVE  SumTo(f, k + 1) = f[1] + SumTo(g, k)
<1> DEFINE one == 1
<1>1. one \in Nat /\ one = 1 /\ 1 + k = k + 1 /\ \A i \in Int : 1 + i = i + 1
  OBVIOUS
<1> HIDE DEF one
<1>2. \A i \in 1..(one + k) : f[i] \in Int
  BY <1>1
<1>3. \A i \in 1..k : g[i] = f[one + i]
  BY <1>1
<1>4. SumTo(f, one + k) = SumTo(f, one) + SumTo(g, k)
  BY <1>1, <1>2, <1>3, SumSplit
<1>5. SumTo(f, 1) = f[1]
  <2>1. SumTo(f, 0) = 0 /\ SumTo(f, 0 + 1) = SumTo(f, 0) + f[0 + 1]
    BY SumZero, SumStep
  <2>2. 1 \in 1..(k + 1)
    OBVIOUS
  <2> QED BY <2>1, <2>2
<1> QED BY <1>1, <1>4, <1>5

(* A function from 1..n is a sequence.                                     *)
LEMMA FunctionIsSeq ==
    ASSUME NEW S, NEW n \in Nat, NEW f \in [1..n -> S]
    PROVE  f \in Seq(S) /\ Len(f) = n /\ DOMAIN f = 1..n
BY SMT

(***************************************************************************)
(* Concatenations.                                                         *)
(***************************************************************************)
(* One sequence after another, under a name the provers leave alone.       *)
Then(s, t) == s \o t

(* Concatenation keeps to the elements, is associative and has the empty   *)
(* sequence on both sides of it.                                           *)
LEMMA ThenProperties ==
    ASSUME NEW T, NEW s \in Seq(T), NEW t \in Seq(T), NEW u \in Seq(T)
    PROVE  /\ Then(s, t) \in Seq(T)
           /\ Then(Then(s, t), u) = Then(s, Then(t, u))
           /\ Then(s, <<>>) = s /\ Then(<<>>, s) = s
<1>1. s \o t \in Seq(T)
  BY ConcatProperties
<1>2. (s \o t) \o u = s \o (t \o u)
  BY ConcatAssociative
<1>3. s \o <<>> = s /\ <<>> \o s = s
  BY ConcatEmptySeq
<1> QED BY <1>1, <1>2, <1>3, Zenon DEF Then

(* g is the function ConcatTo(f, n) defines.                               *)
IsConcat(g, f, n) == g = [i \in 0..n |-> IF i = 0 THEN <<>> ELSE Then(g[i - 1], f[i])]

(* The recursion has a solution.                                           *)
LEMMA ConcatExists ==
    ASSUME NEW f
    PROVE  \A n \in Nat : \E g : IsConcat(g, f, n)
<1> DEFINE S == {n \in Nat : \E g : IsConcat(g, f, n)}
<1>1. 0 \in S
  <2>1. IsConcat([i \in 0..0 |-> <<>>], f, 0)
    BY DEF IsConcat
  <2> QED BY <2>1
<1>2. ASSUME NEW n \in Nat, n \in S
      PROVE  n + 1 \in S
  <2>1. PICK g : IsConcat(g, f, n)
    BY <1>2
  <2> DEFINE h == [i \in 0..(n + 1) |-> IF i = n + 1 THEN Then(g[n], f[i]) ELSE g[i]]
  <2>2. \A i \in 0..n : g[i] = IF i = 0 THEN <<>> ELSE Then(g[i - 1], f[i])
    BY <2>1 DEF IsConcat
  <2>3. \A i \in 0..(n + 1) : h[i] = IF i = 0 THEN <<>> ELSE Then(h[i - 1], f[i])
    BY <2>2
  <2>4. h = [i \in 0..(n + 1) |-> h[i]]
    OBVIOUS
  <2>5. h = [i \in 0..(n + 1) |-> IF i = 0 THEN <<>> ELSE Then(h[i - 1], f[i])]
    BY <2>3, <2>4
  <2>6. IsConcat(h, f, n + 1)
    BY <2>5 DEF IsConcat
  <2> QED BY <2>6
<1> HIDE DEF S
<1>3. \A n \in Nat : n \in S
  BY <1>1, <1>2, NatSetInduction
<1> QED BY <1>3 DEF S

(* Two of its solutions agree as far as both go.                           *)
LEMMA ConcatUnique ==
    ASSUME NEW f, NEW m \in Nat, NEW n \in Nat, m <= n,
           NEW g, IsConcat(g, f, m), NEW h, IsConcat(h, f, n)
    PROVE  \A i \in 0..m : g[i] = h[i]
<1> DEFINE S == {i \in Nat : i <= m => g[i] = h[i]}
<1>1. \A i \in 0..m : g[i] = IF i = 0 THEN <<>> ELSE Then(g[i - 1], f[i])
  BY DEF IsConcat
<1>2. \A i \in 0..n : h[i] = IF i = 0 THEN <<>> ELSE Then(h[i - 1], f[i])
  BY DEF IsConcat
<1>3. 0 \in S
  BY <1>1, <1>2
<1>4. ASSUME NEW i \in Nat, i \in S
      PROVE  i + 1 \in S
  <2>1. CASE i + 1 <= m
    <3>1. i + 1 \in 0..m /\ i + 1 \in 0..n /\ i + 1 # 0 /\ (i + 1) - 1 = i /\ i <= m
      BY <2>1
    <3>2. g[i + 1] = Then(g[i], f[i + 1]) /\ h[i + 1] = Then(h[i], f[i + 1])
      BY <1>1, <1>2, <3>1
    <3> QED BY <1>4, <3>1, <3>2
  <2> QED BY <2>1
<1> HIDE DEF S
<1>5. \A i \in Nat : i \in S
  BY <1>3, <1>4, NatSetInduction
<1> QED BY <1>5 DEF S

(* ConcatTo is the value at n of a solution of its recursion.              *)
LEMMA ConcatSolution ==
    ASSUME NEW f, NEW n \in Nat
    PROVE  \E g : IsConcat(g, f, n) /\ ConcatTo(f, n) = g[n]
<1>1. \E g : IsConcat(g, f, n)
  BY ConcatExists
<1> DEFINE G == CHOOSE g : IsConcat(g, f, n)
<1>2. IsConcat(G, f, n)
  BY <1>1
<1>3. ConcatTo(f, n) = G[n]
  BY Zenon DEF ConcatTo, IsConcat, Then
<1> QED BY <1>2, <1>3

(* What no sequences make, and what one more adds.                         *)
LEMMA ConcatZero ==
    ASSUME NEW f
    PROVE  ConcatTo(f, 0) = <<>>
<1>1. PICK g : IsConcat(g, f, 0) /\ ConcatTo(f, 0) = g[0]
  BY ConcatSolution
<1> QED BY <1>1 DEF IsConcat

(* The concatenation of one sequence more.                                 *)
LEMMA ConcatStep ==
    ASSUME NEW f, NEW n \in Nat
    PROVE  ConcatTo(f, n + 1) = Then(ConcatTo(f, n), f[n + 1])
<1>1. PICK g : IsConcat(g, f, n) /\ ConcatTo(f, n) = g[n]
  BY ConcatSolution
<1>2. PICK h : IsConcat(h, f, n + 1) /\ ConcatTo(f, n + 1) = h[n + 1]
  BY ConcatSolution
<1>3. g[n] = h[n]
  BY <1>1, <1>2, ConcatUnique
<1>4. h[n + 1] = Then(h[n], f[n + 1])
  BY <1>2 DEF IsConcat
<1> QED BY <1>1, <1>2, <1>3, <1>4

(* Sequences over a set make a sequence over it.                           *)
LEMMA ConcatIsSeq ==
    ASSUME NEW T, NEW f, NEW n \in Nat, \A i \in 1..n : f[i] \in Seq(T)
    PROVE  ConcatTo(f, n) \in Seq(T)
<1> DEFINE S == {m \in Nat : m <= n => ConcatTo(f, m) \in Seq(T)}
<1>1. 0 \in S
  <2>1. ConcatTo(f, 0) \in Seq(T)
    BY ConcatZero, EmptySeq
  <2> QED BY <2>1
<1>2. ASSUME NEW m \in Nat, m \in S
      PROVE  m + 1 \in S
  <2>1. m + 1 <= n => m + 1 \in 1..n /\ m <= n
    OBVIOUS
  <2> QED BY <1>2, <2>1, ConcatStep, ThenProperties
<1> HIDE DEF S
<1>3. \A m \in Nat : m \in S
  BY <1>1, <1>2, NatSetInduction
<1> QED BY <1>3 DEF S

(* The sequences alone decide what they make.                              *)
LEMMA ConcatSame ==
    ASSUME NEW f, NEW g, NEW n \in Nat, \A i \in 1..n : f[i] = g[i]
    PROVE  ConcatTo(f, n) = ConcatTo(g, n)
<1> DEFINE S == {m \in Nat : m <= n => ConcatTo(f, m) = ConcatTo(g, m)}
<1>1. 0 \in S
  BY ConcatZero
<1>2. ASSUME NEW m \in Nat, m \in S
      PROVE  m + 1 \in S
  <2>1. m + 1 <= n => m + 1 \in 1..n /\ m <= n
    OBVIOUS
  <2> QED BY <1>2, <2>1, ConcatStep
<1> HIDE DEF S
<1>3. \A m \in Nat : m \in S
  BY <1>1, <1>2, NatSetInduction
<1> QED BY <1>3 DEF S

(* n sequences over T, and functions that make a sequence over T of an     *)
(* element of S, under names that the provers leave alone as well.         *)
Parts(T, n) == [1..n -> Seq(T)]
Makers(S, T) == [S -> Seq(T)]

(* The l sequences of f over T are m, and the n of g behind them.          *)
Splits(f, l, T, m, g, n) ==
    /\ m \in Nat /\ n \in Nat /\ l = m + n /\ f \in Parts(T, l)
    /\ \A i \in 1..n : g[i] = f[m + i]

(* What the first m sequences make, and the n behind them.                 *)
LEMMA ConcatSplit ==
    ASSUME NEW T, NEW f, NEW g, NEW l, NEW m, NEW n, Splits(f, l, T, m, g, n)
    PROVE  ConcatTo(f, l) = Then(ConcatTo(f, m), ConcatTo(g, n))
<1>0. /\ m \in Nat /\ n \in Nat /\ l = m + n /\ f \in Parts(T, l)
      /\ \A i \in 1..n : g[i] = f[m + i]
      /\ \A i \in 1..l : f[i] \in Seq(T)
  BY DEF Splits, Parts
<1> DEFINE S == {k \in Nat : k <= n =>
                     ConcatTo(f, m + k) = Then(ConcatTo(f, m), ConcatTo(g, k))}
<1>1. ConcatTo(f, m) \in Seq(T)
  <2>1. \A i \in 1..m : f[i] \in Seq(T)
    BY <1>0
  <2> QED BY <1>0, <2>1, ConcatIsSeq
<1>2. 0 \in S
  <2>1. ConcatTo(f, m) = Then(ConcatTo(f, m), <<>>)
    BY <1>1, ThenProperties, Zenon
  <2>2. m + 0 = m
    BY <1>0
  <2>3. ConcatTo(f, m + 0) = Then(ConcatTo(f, m), ConcatTo(g, 0))
    BY <2>1, <2>2, ConcatZero
  <2> QED BY <2>3
<1>3. ASSUME NEW k \in Nat, k \in S, k + 1 <= n
      PROVE  ConcatTo(f, m + (k + 1)) = Then(ConcatTo(f, m), ConcatTo(g, k + 1))
  <2>1. k <= n /\ k + 1 \in 1..n /\ m + k \in Nat /\ m + (k + 1) = (m + k) + 1
    BY <1>0, <1>3
  <2>2. \A i \in 1..k : g[i] \in Seq(T)
    <3>1. \A i \in 1..k : i \in 1..n /\ m + i \in 1..(m + n)
      BY <1>0, <2>1
    <3> QED BY <1>0, <3>1
  <2>3. ConcatTo(g, k) \in Seq(T) /\ f[m + (k + 1)] \in Seq(T)
    <3>1. m + (k + 1) \in 1..(m + n)
      BY <1>0, <2>1
    <3> QED BY <1>0, <2>2, <3>1, ConcatIsSeq
  <2>4. ConcatTo(f, (m + k) + 1) = Then(ConcatTo(f, m + k), f[(m + k) + 1])
    BY <2>1, ConcatStep
  <2>5. ConcatTo(g, k + 1) = Then(ConcatTo(g, k), f[m + (k + 1)])
    <3>1. g[k + 1] = f[m + (k + 1)]
      BY <1>0, <2>1
    <3> QED BY <3>1, ConcatStep
  <2>6. ConcatTo(f, m + k) = Then(ConcatTo(f, m), ConcatTo(g, k))
    BY <1>3, <2>1
  <2>7. Then(Then(ConcatTo(f, m), ConcatTo(g, k)), f[m + (k + 1)])
          = Then(ConcatTo(f, m), Then(ConcatTo(g, k), f[m + (k + 1)]))
    <3>1. f[m + (k + 1)] \in Seq(T)
      BY <2>3
    <3>2. \A s, t, u \in Seq(T) : Then(Then(s, t), u) = Then(s, Then(t, u))
      BY ThenProperties
    <3> QED BY <1>1, <2>3, <3>1, <3>2, Zenon
  <2> QED BY <2>1, <2>4, <2>5, <2>6, <2>7
<1> HIDE DEF S
<1>4. \A k \in Nat : k \in S => k + 1 \in S
  BY <1>3 DEF S
<1>5. \A k \in Nat : k \in S
  BY <1>2, <1>4, NatSetInduction
<1>6. n \in S /\ n <= n
  BY <1>0, <1>5
<1> QED BY <1>0, <1>6, Zenon DEF S

(* Empty sequences make none.                                              *)
LEMMA ConcatNone ==
    ASSUME NEW f, NEW n \in Nat, \A i \in 1..n : f[i] = <<>>
    PROVE  ConcatTo(f, n) = <<>>
<1> DEFINE S == {m \in Nat : m <= n => ConcatTo(f, m) = <<>>}
<1>1. 0 \in S
  BY ConcatZero
<1>2. ASSUME NEW m \in Nat, m \in S
      PROVE  m + 1 \in S
  <2>1. m + 1 <= n => m + 1 \in 1..n /\ m <= n
    OBVIOUS
  <2>2. Then(<<>>, <<>>) = <<>>
    BY ThenProperties, EmptySeq
  <2> QED BY <1>2, <2>1, <2>2, ConcatStep
<1> HIDE DEF S
<1>3. \A m \in Nat : m \in S
  BY <1>1, <1>2, NatSetInduction
<1> QED BY <1>3 DEF S

(* One sequence among empty ones makes itself.                             *)
LEMMA ConcatOne ==
    ASSUME NEW T, NEW f, NEW n \in Nat, NEW u \in 1..n, f[u] \in Seq(T),
           \A i \in 1..n : i # u => f[i] = <<>>
    PROVE  ConcatTo(f, n) = f[u]
<1> DEFINE S == {m \in Nat : m <= n => ConcatTo(f, m) = IF m < u THEN <<>> ELSE f[u]}
<1>1. 0 \in S
  BY ConcatZero
<1>2. ASSUME NEW m \in Nat, m \in S, m + 1 <= n
      PROVE  ConcatTo(f, m + 1) = IF m + 1 < u THEN <<>> ELSE f[u]
  <2>1. m + 1 \in 1..n /\ m <= n
    BY <1>2
  <2>2. ConcatTo(f, m) = IF m < u THEN <<>> ELSE f[u]
    BY <1>2, <2>1
  <2>3. ConcatTo(f, m + 1) = Then(ConcatTo(f, m), f[m + 1])
    BY ConcatStep
  <2>4. Then(<<>>, <<>>) = <<>> /\ Then(<<>>, f[u]) = f[u] /\ Then(f[u], <<>>) = f[u]
    BY ThenProperties, EmptySeq
  <2>5. CASE m + 1 = u
    BY <2>2, <2>3, <2>4, <2>5
  <2>6. CASE m + 1 # u
    <3>1. f[m + 1] = <<>> /\ (m + 1 < u <=> m < u)
      BY <2>1, <2>6
    <3> QED BY <2>2, <2>3, <2>4, <3>1
  <2> QED BY <2>5, <2>6
<1> HIDE DEF S
<1>3. \A m \in Nat : m \in S => m + 1 \in S
  BY <1>2 DEF S
<1>4. \A m \in Nat : m \in S
  BY <1>1, <1>3, NatSetInduction
<1> QED BY <1>4 DEF S

(* The l sequences of f are m empty ones, and n of an element of g each.   *)
Singles(f, l, T, m, g, n) ==
    /\ m \in Nat /\ n \in Nat /\ l = m + n
    /\ \A i \in 1..m : f[i] = <<>>
    /\ \A k \in 1..n : g[k] \in T /\ f[m + k] = <<g[k]>>

(* What they make.                                                         *)
LEMMA ConcatSingles ==
    ASSUME NEW T, NEW f, NEW l, NEW m, NEW g, NEW n, Singles(f, l, T, m, g, n)
    PROVE  /\ ConcatTo(f, l) \in Seq(T)
           /\ Len(ConcatTo(f, l)) = n
           /\ \A k \in 1..n : ConcatTo(f, l)[k] = g[k]
<1>0. /\ m \in Nat /\ n \in Nat /\ l = m + n
      /\ \A i \in 1..m : f[i] = <<>>
      /\ \A k \in 1..n : g[k] \in T /\ f[m + k] = <<g[k]>>
  BY DEF Singles
<1> DEFINE Made(k) == ConcatTo(f, m + k)
           S == {k \in Nat : k <= n =>
                   /\ Made(k) \in Seq(T) /\ Len(Made(k)) = k
                   /\ \A i \in 1..k : Made(k)[i] = g[i]}
<1>1. 0 \in S
  <2>1. m + 0 = m /\ ConcatTo(f, m) = <<>>
    BY <1>0, ConcatNone
  <2>2. Made(0) = <<>>
    BY <2>1
  <2> HIDE DEF Made
  <2>3. <<>> \in Seq(T) /\ Len(<<>>) = 0
    BY EmptySeq
  <2>4. Made(0) \in Seq(T) /\ Len(Made(0)) = 0
    BY <2>2, <2>3, Zenon
  <2> QED BY <2>4
<1>2. ASSUME NEW k \in Nat, k \in S, k + 1 <= n
      PROVE  k + 1 \in S
  <2>1. k <= n /\ k + 1 \in 1..n /\ m + k \in Nat /\ m + (k + 1) = (m + k) + 1
    BY <1>0, <1>2
  <2>2. /\ Made(k) \in Seq(T) /\ Len(Made(k)) = k
        /\ \A i \in 1..k : Made(k)[i] = g[i]
    BY <1>2, <2>1
  <2>3. g[k + 1] \in T /\ f[m + (k + 1)] = <<g[k + 1]>>
    BY <1>0, <2>1
  <2>4. Made(k + 1) = Then(Made(k), <<g[k + 1]>>)
    <3>1. ConcatTo(f, (m + k) + 1) = Then(ConcatTo(f, m + k), f[(m + k) + 1])
      BY <2>1, ConcatStep
    <3> QED BY <2>1, <2>3, <3>1, Zenon
  <2> HIDE DEF Made
  <2>5. Then(Made(k), <<g[k + 1]>>) = Append(Made(k), g[k + 1])
    BY <2>2, <2>3, AppendIsConcat DEF Then
  <2>6. /\ Made(k + 1) \in Seq(T) /\ Len(Made(k + 1)) = k + 1
        /\ \A i \in 1..k : Made(k + 1)[i] = Made(k)[i]
        /\ Made(k + 1)[k + 1] = g[k + 1]
    <3>1. Made(k + 1) = Append(Made(k), g[k + 1])
      BY <2>4, <2>5
    <3>2. /\ Append(Made(k), g[k + 1]) \in Seq(T)
          /\ Len(Append(Made(k), g[k + 1])) = k + 1
          /\ \A i \in 1..k : Append(Made(k), g[k + 1])[i] = Made(k)[i]
          /\ Append(Made(k), g[k + 1])[k + 1] = g[k + 1]
      BY <2>2, <2>3, AppendProperties
    <3> QED BY <3>1, <3>2
  <2>7. \A i \in 1..(k + 1) : Made(k + 1)[i] = g[i]
    BY <2>2, <2>6
  <2> QED BY <2>6, <2>7
<1> HIDE DEF S
<1>3. \A k \in Nat : k \in S => k + 1 \in S
  <2>1. ASSUME NEW k \in Nat, ~(k + 1 <= n) PROVE k + 1 \in S
    <3>1. k + 1 \in Nat
      OBVIOUS
    <3> QED BY <2>1, <3>1, Zenon DEF S
  <2> QED BY <1>2, <2>1, Zenon
<1>4. \A k \in Nat : k \in S
  BY <1>1, <1>3, NatSetInduction
<1>5. n \in S /\ n <= n
  BY <1>0, <1>4
<1> QED BY <1>0, <1>5, Zenon DEF S, Made

(***************************************************************************)
(* What a function G makes of each element of a sequence, concatenated.    *)
(***************************************************************************)
Gathered(G, s) == ConcatTo([i \in DOMAIN s |-> G[s[i]]], Len(s))

(* What is gathered from a sequence consists of what G makes.              *)
LEMMA GatheredType ==
    ASSUME NEW S, NEW T, NEW G \in Makers(S, T), NEW s \in Seq(S)
    PROVE  Gathered(G, s) \in Seq(T)
<1>1. Len(s) \in Nat /\ DOMAIN s = 1..Len(s) /\ \A i \in 1..Len(s) : s[i] \in S
  BY LenProperties, ElementOfSeq
<1>2. \A i \in 1..Len(s) : [j \in DOMAIN s |-> G[s[j]]][i] \in Seq(T)
  BY <1>1 DEF Makers
<1> HIDE <1>2
<1> QED BY <1>1, <1>2, ConcatIsSeq DEF Gathered

(* Nothing is gathered from nothing.                                       *)
LEMMA GatheredEmpty ==
    ASSUME NEW G
    PROVE  Gathered(G, <<>>) = <<>>
BY ConcatZero DEF Gathered

(* A sequence behind another.                                              *)
LEMMA GatheredThen ==
    ASSUME NEW S, NEW T, NEW G \in Makers(S, T), NEW s \in Seq(S), NEW t \in Seq(S)
    PROVE  Gathered(G, Then(s, t)) = Then(Gathered(G, s), Gathered(G, t))
<1> DEFINE st == s \o t
           f == [i \in DOMAIN st |-> G[st[i]]]
           a == [i \in DOMAIN s |-> G[s[i]]]
           b == [i \in DOMAIN t |-> G[t[i]]]
<1>1. /\ Len(s) \in Nat /\ DOMAIN s = 1..Len(s) /\ Len(t) \in Nat /\ DOMAIN t = 1..Len(t)
  BY LenProperties
<1>2. /\ st \in Seq(S) /\ Len(st) = Len(s) + Len(t)
      /\ \A i \in 1..(Len(s) + Len(t)) :
           st[i] = IF i <= Len(s) THEN s[i] ELSE t[i - Len(s)]
  BY ConcatProperties
<1>3. DOMAIN st = 1..Len(st) /\ \A i \in 1..Len(st) : st[i] \in S
  BY <1>2, LenProperties, ElementOfSeq
<1> HIDE DEF st
<1>4. \A i \in 1..(Len(s) + Len(t)) : f[i] \in Seq(T)
  BY <1>2, <1>3 DEF Makers
<1>5. \A i \in 1..Len(s) : f[i] = a[i]
  BY <1>1, <1>2, <1>3
<1>6. \A i \in 1..Len(t) : b[i] = f[Len(s) + i]
  <2>1. ASSUME NEW i \in 1..Len(t) PROVE st[Len(s) + i] = t[i]
    <3>1. Len(s) + i \in 1..(Len(s) + Len(t)) /\ ~(Len(s) + i <= Len(s))
          /\ (Len(s) + i) - Len(s) = i
      BY <1>1
    <3> QED BY <1>2, <3>1
  <2> QED BY <1>1, <1>2, <1>3, <2>1
<1>7. Gathered(G, st) = ConcatTo(f, Len(s) + Len(t))
  BY <1>2, Zenon DEF Gathered
<1>8. Gathered(G, s) = ConcatTo(a, Len(s)) /\ Gathered(G, t) = ConcatTo(b, Len(t))
  BY Zenon DEF Gathered
<1> DEFINE m == Len(s)
           n == Len(t)
           l == m + n
<1>9. m \in Nat /\ n \in Nat /\ \A i \in 1..m : f[i] = a[i]
  BY <1>1, <1>5
<1>10. f \in Parts(T, l) /\ l = m + n
  BY <1>2, <1>3, <1>4 DEF Parts
<1>11. \A i \in 1..n : b[i] = f[m + i]
  BY <1>6
<1> HIDE DEF f, a, b, m, n, l
<1>12. ConcatTo(f, m) = ConcatTo(a, m)
  BY <1>9, ConcatSame
<1>13. ConcatTo(f, l) = Then(ConcatTo(f, m), ConcatTo(b, n))
  <2>1. Splits(f, l, T, m, b, n)
    BY <1>9, <1>10, <1>11, Zenon DEF Splits
  <2> QED BY <2>1, ConcatSplit
<1> QED BY <1>7, <1>8, <1>12, <1>13, Zenon DEF st, Then, m, n, l

(* One element alone, and one behind a sequence.                           *)
LEMMA GatheredOne ==
    ASSUME NEW S, NEW T, NEW G \in Makers(S, T), NEW e \in S
    PROVE  Gathered(G, <<e>>) = G[e]
<1> DEFINE f == [i \in DOMAIN <<e>> |-> G[<<e>>[i]]]
<1>1. DOMAIN <<e>> = 1..1 /\ Len(<<e>>) = 1 /\ f[1] = G[e]
  OBVIOUS
<1>2. Gathered(G, <<e>>) = ConcatTo(f, 1)
  BY <1>1, Zenon DEF Gathered
<1>3. f[1] \in Seq(T) /\ \A i \in 1..1 : i # 1 => f[i] = <<>>
  BY <1>1 DEF Makers
<1> HIDE DEF f
<1>4. ConcatTo(f, 1) = f[1]
  BY <1>3, ConcatOne
<1> QED BY <1>1, <1>2, <1>4

(* One element more adds what G makes of it, at the end.                   *)
LEMMA GatheredAppend ==
    ASSUME NEW S, NEW T, NEW G \in Makers(S, T), NEW s \in Seq(S), NEW e \in S
    PROVE  Gathered(G, Append(s, e)) = Then(Gathered(G, s), G[e])
<1> DEFINE one == <<e>>
<1>1. Append(s, e) = Then(s, one)
  BY AppendIsConcat DEF Then
<1>2. one \in Seq(S)
  OBVIOUS
<1>3. Gathered(G, one) = G[e]
  BY GatheredOne
<1> HIDE DEF one
<1>4. Gathered(G, Then(s, one)) = Then(Gathered(G, s), Gathered(G, one))
  BY <1>2, GatheredThen
<1> QED BY <1>1, <1>3, <1>4, Zenon

(* Where G makes nothing of any element.                                   *)
LEMMA GatheredNone ==
    ASSUME NEW S, NEW G, NEW s \in Seq(S), \A i \in 1..Len(s) : G[s[i]] = <<>>
    PROVE  Gathered(G, s) = <<>>
<1> DEFINE f == [i \in DOMAIN s |-> G[s[i]]]
<1>1. Len(s) \in Nat /\ DOMAIN s = 1..Len(s)
  BY LenProperties
<1>2. \A i \in 1..Len(s) : f[i] = <<>>
  BY <1>1
<1>3. Gathered(G, s) = ConcatTo(f, Len(s))
  BY Zenon DEF Gathered
<1> HIDE DEF f
<1> QED BY <1>1, <1>2, <1>3, ConcatNone

(* Sequences that were made by concatenation themselves.                   *)
LEMMA GatheredConcat ==
    ASSUME NEW S, NEW T, NEW G \in Makers(S, T),
           NEW n \in Nat, NEW f, \A i \in 1..n : f[i] \in Seq(S),
           NEW h, \A i \in 1..n : h[i] = Gathered(G, f[i])
    PROVE  Gathered(G, ConcatTo(f, n)) = ConcatTo(h, n)
<1> DEFINE Q == {m \in Nat : m <= n => Gathered(G, ConcatTo(f, m)) = ConcatTo(h, m)}
<1>1. 0 \in Q
  BY ConcatZero, GatheredEmpty
<1>2. ASSUME NEW m \in Nat, m \in Q, m + 1 <= n
      PROVE  Gathered(G, ConcatTo(f, m + 1)) = ConcatTo(h, m + 1)
  <2>1. m <= n /\ m + 1 \in 1..n
    BY <1>2
  <2>2. Gathered(G, ConcatTo(f, m)) = ConcatTo(h, m)
    BY <1>2, <2>1
  <2>3. ConcatTo(f, m + 1) = Then(ConcatTo(f, m), f[m + 1])
    BY ConcatStep
  <2>4. \A i \in 1..m : f[i] \in Seq(S)
    BY <2>1
  <2>5. ConcatTo(f, m) \in Seq(S) /\ f[m + 1] \in Seq(S)
    BY <2>1, <2>4, ConcatIsSeq
  <2>6. Gathered(G, Then(ConcatTo(f, m), f[m + 1]))
          = Then(Gathered(G, ConcatTo(f, m)), Gathered(G, f[m + 1]))
    BY <2>5, GatheredThen
  <2>7. ConcatTo(h, m + 1) = Then(ConcatTo(h, m), h[m + 1])
    BY ConcatStep
  <2>8. h[m + 1] = Gathered(G, f[m + 1])
    BY <2>1
  <2> QED BY <2>2, <2>3, <2>6, <2>7, <2>8, Zenon
<1> HIDE DEF Q
<1>3. \A m \in Nat : m \in Q => m + 1 \in Q
  BY <1>2 DEF Q
<1>4. \A m \in Nat : m \in Q
  BY <1>1, <1>3, NatSetInduction
<1> QED BY <1>4 DEF Q
=============================================================================

---------------------------- MODULE SeqSumProofs ----------------------------
EXTENDS SeqSum, WellFoundedInduction, SequenceTheorems, TLAPS

(* The sums of the first 0, 1 .. n numbers of s.                           *)
Sums(s, n, f) ==
    /\ f \in [0 .. n -> Int]
    /\ f[0] = 0
    /\ \A i \in 1 .. n : f[i] = f[i - 1] + s[i]

(* A nonempty set of natural numbers has a least member.                   *)
LEMMA LeastNat ==
    ASSUME NEW T \in SUBSET Nat, T # {}
    PROVE  \E x \in T : \A y \in T : x <= y
<1>1. PICK x \in T : \A y \in T : ~(<<y, x>> \in OpToRel(<, Nat))
  BY NatLessThanWellFounded, WFMin
<1>2. \A y \in T : ~(y < x)
  BY <1>1, Zenon DEF OpToRel
<1> QED
  BY <1>2

(* The function of the prefix sums that SeqSum defines exists: induction   *)
(* on the length, by the least length for which it does not.               *)
LEMMA SumsExist ==
    ASSUME NEW s \in Seq(Int)
    PROVE  \E f : Sums(s, Len(s), f)
<1> DEFINE Bad == {n \in 0 .. Len(s) : ~\E f : Sums(s, n, f)}
<1>1. Len(s) \in Nat
  OBVIOUS
<1> SUFFICES ASSUME ~\E f : Sums(s, Len(s), f) PROVE FALSE
  OBVIOUS
<1>2. Bad # {}
  <2>1. Len(s) \in 0 .. Len(s)
    BY <1>1
  <2> QED
    BY <2>1
<1>3. Bad \in SUBSET Nat
  BY <1>1
<1>4. PICK n \in Nat : n \in Bad /\ \A k \in Bad : n <= k
  <2> HIDE DEF Bad
  <2> QED
    BY <1>2, <1>3, LeastNat
<1>5. CASE n = 0
  <2>1. Sums(s, 0, [i \in 0 .. 0 |-> 0])
    BY DEF Sums
  <2> QED
    BY <1>4, <1>5, <2>1
<1>6. CASE n # 0
  <2>1. n \in 1 .. Len(s) /\ n - 1 \in 0 .. Len(s) /\ ~(n <= n - 1)
    BY <1>1, <1>4, <1>6
  <2>2. PICK f : Sums(s, n - 1, f)
    BY <1>4, <2>1
  <2> DEFINE g == [i \in 0 .. n |-> IF i = n THEN f[n - 1] + s[n] ELSE f[i]]
  <2>3. g \in [0 .. n -> Int]
    <3>1. s[n] \in Int /\ \A i \in 0 .. n - 1 : f[i] \in Int
      BY <2>1, <2>2 DEF Sums
    <3>2. \A i \in 0 .. n : i = n \/ i \in 0 .. n - 1
      BY <2>1
    <3>3. n - 1 \in 0 .. n - 1
      BY <2>1
    <3> QED
      BY <3>1, <3>2, <3>3
  <2>4. g[0] = 0
    BY <2>1, <2>2 DEF Sums
  <2>5. ASSUME NEW i \in 1 .. n PROVE g[i] = g[i - 1] + s[i]
    <3>1. g[i - 1] = f[i - 1]
      BY <2>1
    <3>2. CASE i = n
      BY <2>1, <3>1, <3>2
    <3>3. CASE i # n
      <4>1. i \in 1 .. n - 1 /\ g[i] = f[i]
        BY <2>1, <3>3
      <4> QED
        BY <2>2, <3>1, <4>1 DEF Sums
    <3> QED
      BY <3>2, <3>3
  <2>6. Sums(s, n, g)
    BY <2>3, <2>4, <2>5 DEF Sums
  <2> QED
    BY <1>4, <2>6
<1> QED
  BY <1>5, <1>6

(* There is only one such function, and SeqSum is its last value.          *)
LEMMA SumsLast ==
    ASSUME NEW s \in Seq(Int), NEW f, Sums(s, Len(s), f)
    PROVE  SeqSum(s) = f[Len(s)]
<1> DEFINE N == Len(s)
           Def(g) == g = [i \in 0 .. N |-> IF i = 0 THEN 0 ELSE g[i - 1] + s[i]]
           sum == CHOOSE g : Def(g)
<1>1. N \in Nat
  OBVIOUS
<1>2. Def(f)
  <2>1. f = [i \in 0 .. N |-> f[i]]
    BY DEF Sums
  <2>2. \A i \in 0 .. N : f[i] = IF i = 0 THEN 0 ELSE f[i - 1] + s[i]
    BY <1>1 DEF Sums
  <2> QED
    BY <2>1, <2>2
<1>3. Def(sum)
  BY <1>2
<1>4. SeqSum(s) = sum[N]
  BY DEF SeqSum
<1> HIDE DEF sum
<1>5. ASSUME NEW i \in 0 .. N PROVE sum[i] = IF i = 0 THEN 0 ELSE sum[i - 1] + s[i]
  BY <1>3
<1> DEFINE Bad == {n \in 0 .. N : sum[n] # f[n]}
<1> SUFFICES ASSUME sum[N] # f[N] PROVE FALSE
  BY <1>4
<1>6. Bad # {}
  <2>1. N \in 0 .. N
    BY <1>1
  <2> QED
    BY <2>1
<1>7. PICK n \in Nat : n \in Bad /\ \A k \in Bad : n <= k
  <2>1. Bad \in SUBSET Nat
    BY <1>1
  <2> HIDE DEF Bad
  <2> QED
    BY <1>6, <2>1, LeastNat
<1>8. CASE n = 0
  BY <1>1, <1>5, <1>7, <1>8 DEF Sums
<1>9. CASE n # 0
  <2>1. n \in 1 .. N /\ n - 1 \in 0 .. N /\ ~(n <= n - 1)
    BY <1>1, <1>7, <1>9
  <2>2. sum[n - 1] = f[n - 1]
    BY <1>7, <2>1
  <2>3. sum[n] = sum[n - 1] + s[n]
    BY <1>5, <1>9, <2>1
  <2>4. f[n] = f[n - 1] + s[n]
    BY <2>1 DEF Sums
  <2> QED
    BY <1>7, <2>2, <2>3, <2>4
<1> QED
  BY <1>8, <1>9

(* The sums of the prefixes, by SeqSum.                                    *)
LEMMA SumsOf ==
    ASSUME NEW s \in Seq(Int)
    PROVE  \E f : Sums(s, Len(s), f) /\ SeqSum(s) = f[Len(s)]
BY SumsExist, SumsLast

(* g is f moved by e.                                                      *)
Moved(s, n, f, g, e) ==
    /\ s \in Seq(Int) /\ n \in Nat /\ n <= Len(s) /\ e \in Int
    /\ Sums(s, n, f)
    /\ g[0] = f[0] + e
    /\ \A i \in 1 .. n : g[i] = g[i - 1] + s[i]

(* Sums of sequences with the same members differ by what they start from. *)
LEMMA SumsAgree ==
    ASSUME NEW s, NEW n, NEW f, NEW g, NEW e, Moved(s, n, f, g, e)
    PROVE  g[n] = f[n] + e
<1> USE DEF Moved
<1> DEFINE Bad == {k \in 0 .. n : g[k] # f[k] + e}
<1> SUFFICES ASSUME g[n] # f[n] + e PROVE FALSE
  OBVIOUS
<1>1. Bad # {}
  <2>1. n \in 0 .. n
    OBVIOUS
  <2> QED
    BY <2>1
<1>2. PICK m \in Nat : m \in Bad /\ \A k \in Bad : m <= k
  <2>1. Bad \in SUBSET Nat
    OBVIOUS
  <2> HIDE DEF Bad
  <2> QED
    BY <1>1, <2>1, LeastNat
<1>3. m # 0
  BY <1>2
<1>4. m \in 1 .. n /\ m - 1 \in 0 .. n /\ ~(m <= m - 1)
  BY <1>2, <1>3
<1>5. g[m - 1] = f[m - 1] + e
  BY <1>2, <1>4
<1>6. f[m - 1] \in Int /\ s[m] \in Int
  <2>1. m \in 1 .. Len(s)
    BY <1>4
  <2> QED
    BY <1>4, <2>1 DEF Sums
<1>7. f[m] = f[m - 1] + s[m]
  BY <1>4 DEF Sums
<1>8. g[m] = g[m - 1] + s[m]
  BY <1>4
<1>9. g[m] = f[m] + e
  BY <1>5, <1>6, <1>7, <1>8
<1> QED
  BY <1>2, <1>9

(* The sum of nothing.                                                     *)
LEMMA SumEmpty ==
    SeqSum(<<>>) = 0
<1>1. <<>> \in Seq(Int) /\ Len(<<>>) = 0
  OBVIOUS
<1>2. PICK f : Sums(<<>>, 0, f) /\ SeqSum(<<>>) = f[0]
  BY <1>1, SumsOf
<1> QED
  BY <1>2 DEF Sums

(* A sum of integers is one.                                               *)
LEMMA SumInt ==
    ASSUME NEW s \in Seq(Int)
    PROVE  SeqSum(s) \in Int
<1>1. PICK f : Sums(s, Len(s), f) /\ SeqSum(s) = f[Len(s)]
  BY SumsOf
<1>2. Len(s) \in 0 .. Len(s)
  OBVIOUS
<1> QED
  BY <1>1, <1>2 DEF Sums

(* The sum of a longer sequence.                                           *)
LEMMA SumAppend ==
    ASSUME NEW s \in Seq(Int), NEW e \in Int
    PROVE  SeqSum(Append(s, e)) = SeqSum(s) + e
<1> DEFINE t == Append(s, e)
           n == Len(s)
<1>1. t \in Seq(Int) /\ Len(t) = n + 1 /\ n \in Nat
  OBVIOUS
<1>2. (\A i \in 1 .. n : t[i] = s[i]) /\ t[n + 1] = e
  OBVIOUS
<1> HIDE DEF t
<1>3. PICK f : Sums(s, n, f) /\ SeqSum(s) = f[n]
  BY SumsOf
<1>4. PICK g : Sums(t, n + 1, g) /\ SeqSum(t) = g[n + 1]
  BY <1>1, SumsOf
<1>5. g[n + 1] = g[n] + e
  <2>1. n + 1 \in 1 .. n + 1 /\ (n + 1) - 1 = n
    BY <1>1
  <2>2. g[n + 1] = g[(n + 1) - 1] + t[n + 1]
    BY <1>4, <2>1 DEF Sums
  <2> QED
    BY <1>2, <2>1, <2>2
<1> DEFINE h == [i \in 0 .. n |-> g[i]]
<1>6. h[n] = f[n] + 0
  <2>1. h \in [0 .. n -> Int] /\ h[0] = f[0] + 0
    BY <1>1, <1>3, <1>4 DEF Sums
  <2>2. \A i \in 1 .. n : h[i] = h[i - 1] + s[i]
    BY <1>1, <1>2, <1>4 DEF Sums
  <2>3. n <= Len(s) /\ 0 \in Int
    OBVIOUS
  <2> HIDE DEF h, n
  <2>4. Moved(s, n, f, h, 0)
    BY <1>1, <1>3, <2>1, <2>2, <2>3 DEF Moved
  <2> QED
    BY <2>4, SumsAgree
<1>7. f[n] \in Int /\ h[n] = g[n]
  BY <1>1, <1>3 DEF Sums
<1> QED
  BY <1>3, <1>4, <1>5, <1>6, <1>7 DEF t

(* The sum by the first member and the rest.                               *)
LEMMA SumTail ==
    ASSUME NEW s \in Seq(Int), s # <<>>
    PROVE  SeqSum(s) = s[1] + SeqSum(Tail(s))
<1> DEFINE t == Tail(s)
           n == Len(t)
<1>1. t \in Seq(Int) /\ Len(s) = n + 1 /\ n \in Nat /\ s[1] \in Int
  OBVIOUS
<1>2. \A i \in 1 .. n : t[i] = s[i + 1]
  OBVIOUS
<1> HIDE DEF t
<1>3. PICK f : Sums(t, n, f) /\ SeqSum(t) = f[n]
  BY <1>1, SumsOf
<1>4. PICK g : Sums(s, n + 1, g) /\ SeqSum(s) = g[n + 1]
  BY <1>1, SumsOf
<1> DEFINE h == [i \in 0 .. n |-> g[i + 1]]
<1>5. h[n] = f[n] + s[1]
  <2>1. h \in [0 .. n -> Int] /\ h[0] = f[0] + s[1]
    BY <1>1, <1>3, <1>4 DEF Sums
  <2>2. ASSUME NEW i \in 1 .. n PROVE h[i] = h[i - 1] + t[i]
    <3>1. i + 1 \in 1 .. n + 1 /\ i - 1 \in 0 .. n /\ (i + 1) - 1 = (i - 1) + 1
      BY <1>1
    <3>2. g[i + 1] = g[(i + 1) - 1] + s[i + 1]
      BY <1>4, <3>1 DEF Sums
    <3>3. h[i] = g[i + 1] /\ h[i - 1] = g[(i - 1) + 1]
      BY <3>1
    <3> QED
      BY <1>2, <3>1, <3>2, <3>3
  <2>3. n <= Len(t)
    BY <1>1
  <2> HIDE DEF h, n
  <2>4. Moved(t, n, f, h, s[1])
    BY <1>1, <1>3, <2>1, <2>2, <2>3 DEF Moved
  <2> QED
    BY <2>4, SumsAgree
<1>6. f[n] \in Int /\ h[n] = g[n + 1]
  BY <1>1, <1>3 DEF Sums
<1> QED
  BY <1>1, <1>3, <1>4, <1>5, <1>6 DEF t

(* A sum of natural numbers is one.                                        *)
LEMMA SumNat ==
    ASSUME NEW s \in Seq(Nat)
    PROVE  SeqSum(s) \in Nat
<1> DEFINE n == Len(s)
<1>1. s \in Seq(Int) /\ n \in Nat
  OBVIOUS
<1>2. PICK f : Sums(s, n, f) /\ SeqSum(s) = f[n]
  BY <1>1, SumsOf
<1> DEFINE Bad == {k \in 0 .. n : ~(f[k] \in Nat)}
<1> SUFFICES ASSUME ~(f[n] \in Nat) PROVE FALSE
  BY <1>2
<1>3. Bad # {}
  <2>1. n \in 0 .. n
    BY <1>1
  <2> QED
    BY <2>1
<1>4. PICK m \in Nat : m \in Bad /\ \A k \in Bad : m <= k
  <2>1. Bad \in SUBSET Nat
    BY <1>1
  <2> HIDE DEF Bad
  <2> QED
    BY <1>3, <2>1, LeastNat
<1>5. m # 0
  BY <1>2, <1>4 DEF Sums
<1>6. m \in 1 .. n /\ m - 1 \in 0 .. n /\ ~(m <= m - 1)
  BY <1>1, <1>4, <1>5
<1>7. f[m - 1] \in Nat /\ s[m] \in Nat
  BY <1>4, <1>6
<1>8. f[m] = f[m - 1] + s[m]
  BY <1>2, <1>6 DEF Sums
<1> QED
  BY <1>4, <1>7, <1>8
(* The sum of zeros.                                                       *)
LEMMA SumZeros ==
    ASSUME NEW s \in Seq(Int), \A i \in 1 .. Len(s) : s[i] = 0
    PROVE  SeqSum(s) = 0
<1> DEFINE f == [i \in 0 .. Len(s) |-> 0]
<1>1. Sums(s, Len(s), f)
  BY DEF Sums
<1>2. Len(s) \in 0 .. Len(s)
  OBVIOUS
<1>3. SeqSum(s) = f[Len(s)]
  <2> HIDE DEF f
  <2> QED
    BY <1>1, SumsLast
<1> QED
  BY <1>2, <1>3

(* The sum of a sequence with another number in place k.                   *)
LEMMA SumChange ==
    ASSUME NEW s \in Seq(Int), NEW k \in 1 .. Len(s), NEW e \in Int
    PROVE  SeqSum([s EXCEPT ![k] = e]) = SeqSum(s) - s[k] + e
<1> DEFINE t == [s EXCEPT ![k] = e]
           n == Len(s)
           c == e - s[k]
<1>1. n \in Nat /\ s[k] \in Int /\ c \in Int
  OBVIOUS
<1>2. t \in Seq(Int) /\ Len(t) = n /\ t[k] = e /\ \A i \in 1 .. n : i # k => t[i] = s[i]
  OBVIOUS
<1>3. PICK f : Sums(s, n, f) /\ SeqSum(s) = f[n]
  BY SumsOf
<1> DEFINE h == [i \in 0 .. n |-> IF i < k THEN f[i] ELSE f[i] + c]
<1>4. f \in [0 .. n -> Int] /\ f[0] = 0 /\ \A i \in 1 .. n : f[i] = f[i - 1] + s[i]
  BY <1>3 DEF Sums
<1> HIDE DEF t, c
<1>5. h \in [0 .. n -> Int] /\ h[0] = 0 /\ h[n] = f[n] + c
  BY <1>1, <1>4
<1>6. ASSUME NEW i \in 1 .. n PROVE h[i] = h[i - 1] + t[i]
  <2>1. i - 1 \in 0 .. n /\ i \in 0 .. n
    BY <1>1
  <2>2. f[i] = f[i - 1] + s[i] /\ f[i] \in Int /\ f[i - 1] \in Int /\ s[i] \in Int
    BY <1>4, <2>1
  <2>3. CASE i < k
    <3>1. h[i] = f[i] /\ h[i - 1] = f[i - 1] /\ t[i] = s[i]
      BY <1>2, <2>1, <2>3
    <3> QED
      BY <2>2, <3>1
  <2>4. CASE i = k
    <3>1. h[i] = f[i] + c /\ h[i - 1] = f[i - 1] /\ t[i] = e /\ c = e - s[i]
      BY <1>2, <2>1, <2>4 DEF c
    <3> HIDE DEF h
    <3> QED
      BY <2>2, <3>1
  <2>5. CASE i > k
    <3>1. h[i] = f[i] + c /\ h[i - 1] = f[i - 1] + c /\ t[i] = s[i]
      BY <1>2, <2>1, <2>5
    <3> QED
      BY <1>1, <2>2, <3>1
  <2> QED
    BY <2>3, <2>4, <2>5
<1> HIDE DEF h
<1>7. Sums(t, Len(t), h)
  BY <1>2, <1>5, <1>6 DEF Sums
<1>8. SeqSum(t) = h[n]
  BY <1>2, <1>7, SumsLast
<1>9. f[n] \in Int
  BY <1>1, <1>4
<1> QED
  BY <1>1, <1>3, <1>5, <1>8, <1>9 DEF t, c

-----------------------------------------------------------------------------
(* Loops *)

(* A loop that keeps a set ends in it.                                     *)
LEMMA LoopStays ==
    ASSUME NEW n \in Nat, NEW A, NEW u, u[0] \in A,
           \A k \in 1 .. n : u[k - 1] \in A => u[k] \in A
    PROVE  u[n] \in A
<1> DEFINE Bad == {k \in 0 .. n : u[k] \notin A}
<1> SUFFICES ASSUME u[n] \notin A PROVE FALSE
  OBVIOUS
<1>1. n \in Bad /\ Bad \in SUBSET Nat
  OBVIOUS
<1>2. PICK k \in Nat : k \in Bad /\ \A j \in Bad : k <= j
  <2>1. Bad # {}
    BY <1>1
  <2> HIDE DEF Bad
  <2> QED
    BY <1>1, <2>1, LeastNat
<1>3. k \in 1 .. n /\ k - 1 \in 0 .. n /\ ~(k <= k - 1)
  BY <1>2
<1>4. u[k - 1] \in A
  BY <1>2, <1>3
<1> QED
  BY <1>2, <1>3, <1>4

(* u is what the first 0, 1 .. n rounds of a loop make of a.               *)
Rounds(n, A, a, step, u) ==
    u \in [0 .. n -> A] /\ u[0] = a /\ \A k \in 1 .. n : u[k] = step[k][u[k - 1]]

(* The values of a loop, from the first to the last.                       *)
LEMMA LoopExists ==
    ASSUME NEW n \in Nat, NEW A, NEW a \in A, NEW step \in [1 .. n -> [A -> A]]
    PROVE  \E u : Rounds(n, A, a, step, u)
<1> DEFINE Runs(m, u) ==
                u \in [0 .. m -> A] /\ u[0] = a /\ \A k \in 1 .. m : u[k] = step[k][u[k - 1]]
           Bad == {m \in 0 .. n : ~\E u : Runs(m, u)}
<1> SUFFICES ASSUME ~\E u : Runs(n, u) PROVE FALSE
  BY DEF Rounds
<1>1. n \in Bad /\ Bad \in SUBSET Nat
  <2> HIDE DEF Runs
  <2>1. n \in 0 .. n
    OBVIOUS
  <2> QED
    BY <2>1
<1>2. PICK m \in Nat : m \in Bad /\ \A j \in Bad : m <= j
  <2>1. Bad # {}
    BY <1>1
  <2> HIDE DEF Bad
  <2> QED
    BY <1>1, <2>1, LeastNat
<1>3. CASE m = 0
  <2>1. Runs(0, [k \in 0 .. 0 |-> a])
    OBVIOUS
  <2> QED
    BY <1>2, <1>3, <2>1
<1>4. CASE m # 0
  <2>1. m \in 1 .. n /\ m - 1 \in 0 .. n /\ ~(m <= m - 1)
    BY <1>2, <1>4
  <2>2. PICK u : Runs(m - 1, u)
    BY <1>2, <2>1
  <2> DEFINE v == [k \in 0 .. m |-> IF k = m THEN step[m][u[m - 1]] ELSE u[k]]
  <2>3. \A k \in 0 .. m : k = m \/ k \in 0 .. m - 1
    BY <2>1
  <2>4. m - 1 \in 0 .. m - 1 /\ 0 \in 0 .. m - 1
    BY <2>1
  <2>5. u \in [0 .. m - 1 -> A] /\ u[0] = a /\ \A k \in 1 .. m - 1 : u[k] = step[k][u[k - 1]]
    BY <2>2
  <2>6. step[m] \in [A -> A] /\ u[m - 1] \in A
    BY <2>1, <2>4, <2>5
  <2>7. v \in [0 .. m -> A]
    BY <2>3, <2>5, <2>6
  <2>8. v[0] = a
    BY <2>1, <2>5, SMTT(60)
  <2>9. ASSUME NEW k \in 1 .. m PROVE v[k] = step[k][v[k - 1]]
    <3>1. v[k - 1] = u[k - 1]
      BY <2>1
    <3>2. CASE k = m
      BY <2>1, <3>1, <3>2
    <3>3. CASE k # m
      <4>1. k \in 1 .. m - 1 /\ v[k] = u[k]
        BY <2>1, <3>3, SMTT(60)
      <4> QED
        BY <2>5, <3>1, <4>1
    <3> QED
      BY <3>2, <3>3
  <2>10. Runs(m, v)
    BY <2>7, <2>8, <2>9
  <2> QED
    BY <1>2, <2>10
<1> QED
  BY <1>3, <1>4

=============================================================================

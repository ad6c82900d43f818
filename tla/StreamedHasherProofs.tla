------------------------ MODULE StreamedHasherProofs ------------------------
(***************************************************************************)
(* Proofs about StreamedHasher and the row caps of TraceBudget: the        *)
(* binary search of max_height_for_budget finds the largest height that    *)
(* fits, the stream is complete, and the streamed and the buffered path    *)
(* end alike, for every set of executions, budgets and workers.            *)
(***************************************************************************)
EXTENDS StreamedHasher, WellFoundedInduction, TLAPS

\* Induction over the naturals, with the set of numbers that have the property
\* in place of the property.
LEMMA SetInduction ==
    ASSUME NEW A, 0 \in A, \A n \in Nat : n \in A => n + 1 \in A
    PROVE  \A n \in Nat : n \in A
<1> DEFINE R == {ss \in Nat \X Nat : ss[1] < ss[2]}
           B == {n \in Nat : n \notin A}
<1>1. IsWellFoundedOn(R, Nat)
  BY NatLessThanWellFounded DEF OpToRel
<1>2. \A x, y \in Nat : y < x => <<y, x>> \in R
  OBVIOUS
<1>3. SUFFICES ASSUME B # {} PROVE FALSE
  OBVIOUS
<1>4. B \subseteq Nat
  OBVIOUS
<1> HIDE DEF R
<1>5. PICK x \in B : \A y \in B : ~(<<y, x>> \in R)
  BY <1>1, <1>3, <1>4, WFMin, Zenon
<1>6. x # 0 /\ x \in Nat /\ x - 1 \in Nat /\ x - 1 < x
  OBVIOUS
<1>7. x - 1 \in A
  BY <1>2, <1>5, <1>6, Zenon
<1>8. (x - 1) + 1 \in A
  BY <1>6, <1>7
<1> QED
  BY <1>6, <1>8

\* f is defined by primitive recursion, from a first value and a step.
Recursive(f, S, base, step) ==
    f \in [Nat -> S] /\ f[0] = base /\ \A n \in Nat : f[n + 1] = step[<<n, f[n]>>]

\* Primitive recursion defines a function.
LEMMA Recursion ==
    ASSUME NEW S, NEW base \in S, NEW step \in [Nat \X S -> S]
    PROVE  \E f : Recursive(f, S, base, step)
<1> DEFINE Upto(n, g) == /\ g \in [0..n -> S] /\ g[0] = base
                         /\ \A k \in 0..(n - 1) : g[k + 1] = step[<<k, g[k]>>]
           A == {n \in Nat : \E g : Upto(n, g)}
<1>1. \A n \in Nat : n \in A
  <2>1. 0 \in A
    <3>1. Upto(0, [k \in 0..0 |-> base])
      OBVIOUS
    <3> QED
      BY <3>1, Zenon
  <2>2. ASSUME NEW n \in Nat, n \in A PROVE n + 1 \in A
    <3>1. PICK g : Upto(n, g)
      BY <2>2
    <3> DEFINE h == [k \in 0..(n + 1) |-> IF k = n + 1 THEN step[<<n, g[n]>>] ELSE g[k]]
    <3>2. g[n] \in S /\ step[<<n, g[n]>>] \in S
      BY <3>1
    <3>3. h \in [0..(n + 1) -> S] /\ h[0] = base
      BY <3>1, <3>2
    <3>4. ASSUME NEW k \in 0..(n + 1 - 1) PROVE h[k + 1] = step[<<k, h[k]>>]
      <4>1. CASE k = n
        <5>1. h[n + 1] = step[<<n, g[n]>>] /\ h[n] = g[n]
          OBVIOUS
        <5> HIDE DEF h
        <5> QED
          BY <4>1, <5>1
      <4>2. CASE k # n
        <5>1. k \in 0..(n - 1) /\ k + 1 \in 0..(n + 1) /\ k + 1 # n + 1 /\ k # n + 1
          BY <4>2
        <5>2. h[k + 1] = g[k + 1] /\ h[k] = g[k]
          BY <5>1
        <5> QED
          BY <3>1, <5>1, <5>2
      <4> QED
        BY <4>1, <4>2
    <3> HIDE DEF h
    <3>5. Upto(n + 1, h)
      BY <3>3, <3>4
    <3> HIDE DEF Upto
    <3> QED
      BY <3>5
  <2> HIDE DEF A
  <2> QED
    BY <2>1, <2>2, SetInduction
<1>2. \A n, m \in Nat : \A g, h : Upto(n, g) /\ Upto(m, h) /\ n <= m => g[n] = h[n]
  <2>1. SUFFICES ASSUME NEW n \in Nat, NEW m \in Nat, NEW g, NEW h,
                        Upto(n, g), Upto(m, h), n <= m
                 PROVE  g[n] = h[n]
    <3> HIDE DEF Upto
    <3> QED
      OBVIOUS
  <2> DEFINE E == {k \in Nat : k <= n => g[k] = h[k]}
  <2>2. 0 \in E
    BY <2>1
  <2>3. ASSUME NEW k \in Nat, k \in E PROVE k + 1 \in E
    <3>1. SUFFICES ASSUME k + 1 <= n PROVE g[k + 1] = h[k + 1]
      OBVIOUS
    <3>2. k \in 0..(n - 1) /\ k \in 0..(m - 1) /\ g[k] = h[k]
      BY <2>1, <2>3, <3>1
    <3>3. g[k + 1] = step[<<k, g[k]>>]
      BY <2>1, <3>2
    <3>4. h[k + 1] = step[<<k, h[k]>>]
      BY <2>1, <3>2
    <3> QED
      BY <3>2, <3>3, <3>4
  <2>4. \A k \in Nat : k \in E
    <3> HIDE DEF E
    <3> QED
      BY <2>2, <2>3, SetInduction
  <2> QED
    BY <2>4
<1> DEFINE G(n) == CHOOSE g : Upto(n, g)
           f == [n \in Nat |-> G(n)[n]]
<1>3. \A n \in Nat : Upto(n, G(n))
  <2> HIDE DEF Upto
  <2> QED
    BY <1>1
<1> HIDE DEF G
<1>4. f \in [Nat -> S] /\ f[0] = base
  BY <1>3
<1>5. ASSUME NEW n \in Nat PROVE f[n + 1] = step[<<n, f[n]>>]
  <2>1. G(n + 1)[n + 1] = step[<<n, G(n + 1)[n]>>]
    BY <1>3
  <2>2. G(n + 1)[n] = G(n)[n]
    <3>1. Upto(n, G(n)) /\ Upto(n + 1, G(n + 1)) /\ n <= n + 1 /\ n + 1 \in Nat
      BY <1>3
    <3> HIDE DEF Upto
    <3> QED
      BY <1>2, <3>1
  <2> QED
    BY <2>1, <2>2
<1> QED
  BY <1>4, <1>5, Zenon DEF Recursive

----------------------------------------------------------------------------
\* power_of_two is the function its recursion describes.
LEMMA PowerOfTwo ==
    /\ power_of_two \in [Nat -> Nat]
    /\ power_of_two[0] = 1
    /\ \A k \in Nat : power_of_two[k + 1] = 2 * power_of_two[k]
<1> DEFINE step == [ns \in Nat \X Nat |-> 2 * ns[2]]
<1>1. step \in [Nat \X Nat -> Nat] /\ \A n, m \in Nat : step[<<n, m>>] = 2 * m
  OBVIOUS
<1> HIDE DEF step
<1>2. PICK f : Recursive(f, Nat, 1, step)
  BY <1>1, Recursion, Zenon
<1>3. f \in [Nat -> Nat] /\ f[0] = 1 /\ \A n \in Nat : f[n + 1] = 2 * f[n]
  BY <1>1, <1>2, Zenon DEF Recursive
<1>4. f = [k \in Nat |-> IF k = 0 THEN 1 ELSE 2 * f[k - 1]]
  <2>1. ASSUME NEW k \in Nat, k # 0 PROVE f[k] = 2 * f[k - 1]
    <3>1. k - 1 \in Nat /\ (k - 1) + 1 = k
      BY <2>1
    <3> QED
      BY <1>3, <3>1
  <2> QED
    BY <1>3, <2>1
<1>5. power_of_two = [k \in Nat |-> IF k = 0 THEN 1 ELSE 2 * power_of_two[k - 1]]
  BY <1>4 DEF power_of_two
<1> DEFINE A == {n \in Nat : power_of_two[n] \in Nat}
<1>6. power_of_two[0] = 1 /\ \A k \in Nat : power_of_two[k + 1] = 2 * power_of_two[k]
  <2>1. ASSUME NEW k \in Nat PROVE power_of_two[k + 1] = 2 * power_of_two[k]
    <3>1. k + 1 \in Nat /\ k + 1 # 0 /\ (k + 1) - 1 = k
      OBVIOUS
    <3> QED
      BY <1>5, <3>1
  <2> QED
    BY <1>5, <2>1
<1>7. 0 \in A /\ \A n \in Nat : n \in A => n + 1 \in A
  BY <1>6
<1>8. \A n \in Nat : n \in A
  <2> HIDE DEF A
  <2> QED
    BY <1>7, SetInduction
<1> QED
  BY <1>5, <1>6, <1>8

\* usize::next_power_of_two returns at least its argument.
LEMMA NextPowerOfTwo ==
    ASSUME NEW n \in Nat
    PROVE  next_power_of_two(n) \in Nat /\ next_power_of_two(n) >= n
<1> DEFINE A == {k \in Nat : power_of_two[k] > k}
<1>1. 0 \in A /\ \A k \in Nat : k \in A => k + 1 \in A
  BY PowerOfTwo
<1>2. \A k \in Nat : k \in A
  <2> HIDE DEF A
  <2> QED
    BY <1>1, SetInduction
<1> DEFINE R == {ss \in Nat \X Nat : ss[1] < ss[2]}
           B == {k \in Nat : power_of_two[k] >= n}
<1>3. IsWellFoundedOn(R, Nat)
  BY NatLessThanWellFounded DEF OpToRel
<1>4. \A x, y \in Nat : y < x => <<y, x>> \in R
  OBVIOUS
<1>5. n \in B /\ B \subseteq Nat
  BY <1>2, PowerOfTwo
<1>6. PICK k \in B : \A j \in B : ~(<<j, k>> \in R)
  <2> HIDE DEF R, B
  <2> QED
    BY <1>3, <1>5, WFMin, Zenon
<1> HIDE DEF R
<1>7. k \in 0..n /\ power_of_two[k] >= n /\ \A j \in 0..(k - 1) : power_of_two[j] < n
  <2>1. k \in Nat /\ k <= n
    <3>1. k \in Nat /\ ~(<<n, k>> \in R)
      BY <1>5, <1>6
    <3>2. ~(n < k)
      BY <1>4, <3>1
    <3> QED
      BY <3>1, <3>2
  <2>2. ASSUME NEW j \in 0..(k - 1) PROVE power_of_two[j] < n
    <3>1. j \in Nat /\ j < k
      BY <2>1, <2>2
    <3>2. j \notin B
      BY <1>4, <1>6, <2>1, <3>1, Zenon
    <3> QED
      BY <3>1, <3>2, PowerOfTwo
  <2> QED
    BY <1>6, <2>1, <2>2
<1> DEFINE c == CHOOSE x \in 0..n : /\ power_of_two[x] >= n
                                    /\ \A j \in 0..(x - 1) : power_of_two[j] < n
<1>8. c \in 0..n /\ power_of_two[c] >= n
  BY <1>7
<1>9. next_power_of_two(n) = power_of_two[c]
  BY DEF next_power_of_two
<1> HIDE DEF c
<1> QED
  BY <1>8, <1>9, PowerOfTwo

\* Padding never makes a trace shorter.
LEMMA PadToTraceLength ==
    ASSUME NEW n \in Nat
    PROVE  pad_to_trace_length(n) \in Nat /\ pad_to_trace_length(n) >= n
BY NextPowerOfTwo, BudgetAssumption DEF pad_to_trace_length, AtLeast

\* hasher_rows adds up the rows of the requests one by one.
LEMMA HasherRows ==
    ASSUME NEW requests \in Seq(Nat)
    PROVE  /\ hasher_rows(requests) \in [0..Len(requests) -> Nat]
           /\ hasher_rows(requests)[0] = 0
           /\ \A n \in 1..Len(requests) :
                 hasher_rows(requests)[n] = hasher_rows(requests)[n - 1] + requests[n]
<1> DEFINE N == Len(requests)
           add(n) == IF n + 1 \in 1..N THEN requests[n + 1] ELSE 0
           step == [ns \in Nat \X Nat |-> ns[2] + add(ns[1])]
           Total(t) == t = [n \in 0..N |-> IF n = 0 THEN 0 ELSE t[n - 1] + requests[n]]
           T == CHOOSE t : Total(t)
<1>1. N \in Nat /\ \A n \in Nat : add(n) \in Nat
  OBVIOUS
<1>2. \A n \in 1..N : add(n - 1) = requests[n]
  OBVIOUS
<1> HIDE DEF add
<1>3. step \in [Nat \X Nat -> Nat] /\ \A n, m \in Nat : step[<<n, m>>] = m + add(n)
  <2>1. ASSUME NEW ns \in Nat \X Nat PROVE ns[2] + add(ns[1]) \in Nat
    <3>1. ns[1] \in Nat /\ ns[2] \in Nat
      OBVIOUS
    <3>2. add(ns[1]) \in Nat
      BY <1>1, <3>1
    <3> QED
      BY <3>1, <3>2
  <2>2. step \in [Nat \X Nat -> Nat]
    BY <2>1
  <2>3. \A n, m \in Nat : step[<<n, m>>] = m + add(n)
    OBVIOUS
  <2> QED
    BY <2>2, <2>3
<1> HIDE DEF step, N
<1>4. PICK f : Recursive(f, Nat, 0, step)
  BY <1>3, Recursion, Zenon
<1>5. f \in [Nat -> Nat] /\ f[0] = 0 /\ \A n \in Nat : f[n + 1] = f[n] + add(n)
  BY <1>3, <1>4, Zenon DEF Recursive
<1> DEFINE g == [n \in 0..N |-> f[n]]
<1>6. Total(g)
  <2>1. ASSUME NEW n \in 0..N, n # 0 PROVE g[n] = g[n - 1] + requests[n]
    <3>1. n - 1 \in Nat /\ (n - 1) + 1 = n /\ n \in 1..N /\ n - 1 \in 0..N
      BY <1>1, <2>1
    <3>2. f[n] = f[n - 1] + add(n - 1)
      BY <1>5, <3>1
    <3> QED
      BY <1>2, <3>1, <3>2
  <2> QED
    BY <1>1, <1>5, <2>1, Zenon
<1> HIDE DEF g
<1>7. Total(T)
  <2> HIDE DEF Total
  <2> QED
    BY <1>6
<1>8. hasher_rows(requests) = T
  BY DEF hasher_rows, N
<1> HIDE DEF T
<1> DEFINE Row(n) == IF n = 0 THEN 0 ELSE T[n - 1] + requests[n]
<1> HIDE DEF Row
<1>9. T = [n \in 0..N |-> Row(n)]
  BY <1>7, Zenon DEF Row
<1>10. T[0] = 0 /\ \A n \in 1..N : T[n] = T[n - 1] + requests[n]
  <2>1. Row(0) = 0 /\ \A n \in 1..N : Row(n) = T[n - 1] + requests[n]
    BY <1>1 DEF Row
  <2>2. \A n \in 0..N : T[n] = Row(n)
    BY <1>9
  <2>3. 0 \in 0..N /\ \A n \in 1..N : n \in 0..N
    BY <1>1
  <2> QED
    BY <2>1, <2>2, <2>3
<1> DEFINE A == {n \in Nat : n <= N => T[n] \in Nat}
<1>11. 0 \in A
  BY <1>10
<1>12. ASSUME NEW n \in Nat, n \in A PROVE n + 1 \in A
  <2>1. SUFFICES ASSUME n + 1 <= N PROVE T[n + 1] \in Nat
    OBVIOUS
  <2>2. n + 1 \in 1..N /\ (n + 1) - 1 = n /\ n <= N
    BY <1>1, <2>1
  <2>3. T[n] \in Nat /\ requests[n + 1] \in Nat
    BY <1>12, <2>2 DEF N
  <2> QED
    BY <1>10, <2>2, <2>3
<1>13. \A n \in Nat : n \in A
  <2> HIDE DEF A
  <2> QED
    BY <1>11, <1>12, SetInduction, Zenon
<1> HIDE DEF Total
<1>14. T \in [0..N -> Nat]
  <2>1. \A n \in 0..N : T[n] \in Nat
    BY <1>1, <1>13
  <2>2. \A n \in 0..N : Row(n) \in Nat
    BY <1>9, <2>1
  <2> HIDE DEF A
  <2> QED
    BY <1>9, <2>2
<1> QED
  BY <1>8, <1>10, <1>14 DEF N

\* The rows built so far never exceed the rows of the whole stream.
LEMMA HasherRowsGrow ==
    ASSUME NEW requests \in Seq(Nat), NEW n \in 0..Len(requests)
    PROVE  hasher_rows(requests)[n] <= hasher_rows(requests)[Len(requests)]
<1> DEFINE T == hasher_rows(requests)
           N == Len(requests)
           A == {d \in Nat : n + d <= N => T[n] <= T[n + d]}
<1>1. /\ N \in Nat /\ T \in [0..N -> Nat]
      /\ \A k \in 1..N : T[k] = T[k - 1] + requests[k] /\ requests[k] \in Nat
  BY HasherRows
<1> HIDE DEF T, N
<1>2. n \in Nat /\ n <= N /\ N - n \in Nat /\ n + (N - n) = N
  BY <1>1 DEF N
<1>3. 0 \in A
  BY <1>1, <1>2
<1>4. ASSUME NEW d \in Nat, d \in A PROVE d + 1 \in A
  <2>1. SUFFICES ASSUME n + (d + 1) <= N PROVE T[n] <= T[n + (d + 1)]
    OBVIOUS
  <2> DEFINE k == n + (d + 1)
  <2>2. k \in 1..N /\ k - 1 = n + d /\ n + d \in 0..N /\ n \in 0..N /\ n + d <= N
    BY <1>1, <1>2, <2>1
  <2> HIDE DEF k
  <2>3. T[k] = T[n + d] + requests[k] /\ requests[k] \in Nat
    BY <1>1, <2>2
  <2>4. T[n] <= T[n + d] /\ T[n] \in Nat /\ T[n + d] \in Nat
    BY <1>1, <1>4, <2>2
  <2>5. T[n] <= T[k]
    BY <2>3, <2>4
  <2> QED
    BY <2>5 DEF k
<1>5. N - n \in A
  <2> HIDE DEF A
  <2> QED
    BY <1>2, <1>3, <1>4, SetInduction, Zenon
<1> QED
  BY <1>2, <1>5 DEF T, N

----------------------------------------------------------------------------
Mid(lo, hi) == lo + (hi - lo) \div 2

\* The recursion of the binary search defines a function.
LEMMA BisectRecursion ==
    ASSUME NEW i, NEW b
    PROVE  \A lo, hi \in Nat :
              bisect(i, b)[<<lo, hi>>] =
                 IF hi - lo <= 1 THEN lo
                 ELSE IF fits(OnlyAir(i, Mid(lo, hi)), b) THEN bisect(i, b)[<<Mid(lo, hi), hi>>]
                 ELSE bisect(i, b)[<<lo, Mid(lo, hi)>>]
<1> DEFINE Fit(m) == fits(OnlyAir(i, m), b)
           S == [Nat \X Nat -> Nat]
           Round(g) == [p \in Nat \X Nat |->
                          IF p[2] - p[1] <= 1 THEN p[1]
                          ELSE IF Fit(Mid(p[1], p[2])) THEN g[<<Mid(p[1], p[2]), p[2]>>]
                          ELSE g[<<p[1], Mid(p[1], p[2])>>]]
           base == [p \in Nat \X Nat |-> p[1]]
           step == [ng \in Nat \X S |-> Round(ng[2])]
           Search(f) == f = Round(f)
<1>1. \A lo, hi \in Nat : hi - lo > 1 => /\ Mid(lo, hi) \in Nat
                                        /\ lo < Mid(lo, hi) /\ Mid(lo, hi) < hi
  BY DEF Mid
<1> HIDE DEF Fit
<1>2. ASSUME NEW g \in S
      PROVE  /\ Round(g) \in S
             /\ \A lo, hi \in Nat :
                   Round(g)[<<lo, hi>>] =
                     IF hi - lo <= 1 THEN lo
                     ELSE IF Fit(Mid(lo, hi)) THEN g[<<Mid(lo, hi), hi>>]
                     ELSE g[<<lo, Mid(lo, hi)>>]
  <2>1. ASSUME NEW p \in Nat \X Nat
        PROVE  (IF p[2] - p[1] <= 1 THEN p[1]
                ELSE IF Fit(Mid(p[1], p[2])) THEN g[<<Mid(p[1], p[2]), p[2]>>]
                ELSE g[<<p[1], Mid(p[1], p[2])>>]) \in Nat
    <3>1. p[1] \in Nat /\ p[2] \in Nat
      OBVIOUS
    <3>2. p[2] - p[1] > 1 => Mid(p[1], p[2]) \in Nat
      BY <1>1, <3>1
    <3>3. \A x, y \in Nat : g[<<x, y>>] \in Nat
      BY <1>2
    <3> QED
      BY <3>1, <3>2, <3>3
  <2>2. Round(g) \in S
    BY <2>1
  <2>3. ASSUME NEW lo \in Nat, NEW hi \in Nat
        PROVE  Round(g)[<<lo, hi>>] =
                 IF hi - lo <= 1 THEN lo
                 ELSE IF Fit(Mid(lo, hi)) THEN g[<<Mid(lo, hi), hi>>]
                 ELSE g[<<lo, Mid(lo, hi)>>]
    OBVIOUS
  <2> QED
    BY <2>2, <2>3
<1> HIDE DEF Round
<1>3. base \in S /\ \A lo, hi \in Nat : base[<<lo, hi>>] = lo
  OBVIOUS
<1>4. step \in [Nat \X S -> S] /\ \A n \in Nat, g \in S : step[<<n, g>>] = Round(g)
  <2>1. ASSUME NEW ng \in Nat \X S PROVE Round(ng[2]) \in S
    <3>1. ng[2] \in S
      OBVIOUS
    <3> HIDE DEF S
    <3> QED
      BY <1>2, <3>1
  <2> HIDE DEF S
  <2>2. step \in [Nat \X S -> S]
    BY <2>1
  <2>3. \A n \in Nat, g \in S : step[<<n, g>>] = Round(g)
    OBVIOUS
  <2> QED
    BY <2>2, <2>3
<1> HIDE DEF base, step, S
<1>5. PICK G : Recursive(G, S, base, step)
  BY <1>3, <1>4, Recursion
<1>6. G \in [Nat -> S] /\ G[0] = base /\ \A n \in Nat : G[n + 1] = Round(G[n])
  BY <1>4, <1>5, Zenon DEF Recursive
\* One more round changes nothing once there have been as many as the distance.
<1>7. \A n, lo, hi \in Nat : hi - lo <= n => G[n + 1][<<lo, hi>>] = G[n][<<lo, hi>>]
  <2> DEFINE A == {n \in Nat : \A lo, hi \in Nat :
                      hi - lo <= n => G[n + 1][<<lo, hi>>] = G[n][<<lo, hi>>]}
  <2>1. ASSUME NEW n \in Nat, NEW lo \in Nat, NEW hi \in Nat, hi - lo <= 1
        PROVE  G[n + 1][<<lo, hi>>] = lo
    <3>1. G[n] \in S /\ G[n + 1] = Round(G[n])
      BY <1>6
    <3> QED
      BY <1>2, <2>1, <3>1, Zenon
  <2>2. 0 \in A
    <3>1. ASSUME NEW lo \in Nat, NEW hi \in Nat, hi - lo <= 0
          PROVE  G[0 + 1][<<lo, hi>>] = G[0][<<lo, hi>>]
      <4>1. G[0 + 1][<<lo, hi>>] = lo
        BY <2>1, <3>1
      <4>2. G[0][<<lo, hi>>] = lo
        BY <1>3, <1>6
      <4> QED
        BY <4>1, <4>2
    <3> QED
      BY <3>1
  <2>3. ASSUME NEW n \in Nat, n \in A PROVE n + 1 \in A
    <3>1. SUFFICES ASSUME NEW lo \in Nat, NEW hi \in Nat, hi - lo <= n + 1
                   PROVE  G[(n + 1) + 1][<<lo, hi>>] = G[n + 1][<<lo, hi>>]
      OBVIOUS
    <3>2. \A x, y \in Nat : y - x <= n => G[n + 1][<<x, y>>] = G[n][<<x, y>>]
      BY <2>3
    <3> HIDE DEF A
    <3>3. CASE hi - lo <= 1
      <4>1. n + 1 \in Nat
        OBVIOUS
      <4> QED
        BY <2>1, <3>3, <4>1
    <3>4. CASE hi - lo > 1
      <4> DEFINE mid == Mid(lo, hi)
      <4>1. mid \in Nat /\ hi - mid <= n /\ mid - lo <= n
        BY <1>1, <3>1, <3>4
      <4>2. /\ G[n + 1] \in S /\ G[(n + 1) + 1] = Round(G[n + 1])
            /\ G[n] \in S /\ G[n + 1] = Round(G[n])
        BY <1>6
      <4>3. G[(n + 1) + 1][<<lo, hi>>] = IF Fit(mid) THEN G[n + 1][<<mid, hi>>]
                                         ELSE G[n + 1][<<lo, mid>>]
        BY <1>2, <3>4, <4>2
      <4>4. G[n + 1][<<lo, hi>>] = IF Fit(mid) THEN G[n][<<mid, hi>>] ELSE G[n][<<lo, mid>>]
        BY <1>2, <3>4, <4>2
      <4> HIDE DEF mid
      <4> QED
        BY <3>2, <4>1, <4>3, <4>4
    <3> QED
      BY <3>1, <3>3, <3>4
  <2>4. \A n \in Nat : n \in A
    <3> HIDE DEF A
    <3> QED
      BY <2>2, <2>3, SetInduction
  <2> QED
    BY <2>4
<1>8. \A n, lo, hi \in Nat :
         hi - lo <= n => \A d \in Nat : G[n + d][<<lo, hi>>] = G[n][<<lo, hi>>]
  <2>1. SUFFICES ASSUME NEW n \in Nat, NEW lo \in Nat, NEW hi \in Nat, hi - lo <= n
                 PROVE  \A d \in Nat : G[n + d][<<lo, hi>>] = G[n][<<lo, hi>>]
    OBVIOUS
  <2> DEFINE A == {d \in Nat : G[n + d][<<lo, hi>>] = G[n][<<lo, hi>>]}
  <2>2. 0 \in A
    OBVIOUS
  <2>3. ASSUME NEW d \in Nat, d \in A PROVE d + 1 \in A
    <3>1. n + d \in Nat /\ hi - lo <= n + d /\ (n + d) + 1 = n + (d + 1)
      BY <2>1
    <3>2. G[(n + d) + 1][<<lo, hi>>] = G[n + d][<<lo, hi>>]
      BY <1>7, <3>1
    <3> QED
      BY <2>3, <3>1, <3>2
  <2>4. \A d \in Nat : d \in A
    <3> HIDE DEF A
    <3> QED
      BY <2>2, <2>3, SetInduction
  <2> QED
    BY <2>4
<1> DEFINE f == [p \in Nat \X Nat |-> G[p[2]][p]]
<1>9. f \in S /\ \A lo, hi \in Nat : f[<<lo, hi>>] = G[hi][<<lo, hi>>]
  <2>1. ASSUME NEW p \in Nat \X Nat PROVE G[p[2]][p] \in Nat
    <3>1. G[p[2]] \in [Nat \X Nat -> Nat]
      BY <1>6 DEF S
    <3> QED
      BY <3>1
  <2> QED
    BY <2>1 DEF S
<1>10. ASSUME NEW lo \in Nat, NEW hi \in Nat
       PROVE  G[hi][<<lo, hi>>] = IF hi - lo <= 1 THEN lo
                                  ELSE IF Fit(Mid(lo, hi)) THEN G[hi][<<Mid(lo, hi), hi>>]
                                  ELSE G[Mid(lo, hi)][<<lo, Mid(lo, hi)>>]
  <2> DEFINE mid == Mid(lo, hi)
  <2>1. G[hi + 1][<<lo, hi>>] = G[hi][<<lo, hi>>]
    BY <1>7
  <2>2. G[hi] \in S /\ G[hi + 1] = Round(G[hi])
    BY <1>6
  <2>3. G[hi + 1][<<lo, hi>>] = IF hi - lo <= 1 THEN lo
                                ELSE IF Fit(mid) THEN G[hi][<<mid, hi>>]
                                ELSE G[hi][<<lo, mid>>]
    BY <1>2, <2>2
  <2>4. ASSUME hi - lo > 1 PROVE G[hi][<<lo, mid>>] = G[mid][<<lo, mid>>]
    <3> DEFINE d == hi - mid
    <3>1. mid \in Nat /\ d \in Nat /\ mid - lo <= mid /\ mid + d = hi
      BY <1>1, <2>4
    <3> HIDE DEF mid, d
    <3>2. G[mid + d][<<lo, mid>>] = G[mid][<<lo, mid>>]
      BY <1>8, <3>1
    <3> QED
      BY <3>1, <3>2
  <2> QED
    BY <2>1, <2>3, <2>4
<1>11. Search(f)
  <2> HIDE DEF f
  <2>1. ASSUME NEW lo \in Nat, NEW hi \in Nat PROVE f[<<lo, hi>>] = Round(f)[<<lo, hi>>]
    <3>1. hi - lo > 1 => Mid(lo, hi) \in Nat
      BY <1>1
    <3>2. Round(f)[<<lo, hi>>] = IF hi - lo <= 1 THEN lo
                                 ELSE IF Fit(Mid(lo, hi)) THEN f[<<Mid(lo, hi), hi>>]
                                 ELSE f[<<lo, Mid(lo, hi)>>]
      <4>1. f \in S
        BY <1>9
      <4> QED
        BY <1>2, <4>1
    <3> QED
      BY <1>9, <1>10, <3>1, <3>2
  <2>2. Round(f) \in S
    BY <1>2, <1>9
  <2>3. \A p \in Nat \X Nat : f[p] = Round(f)[p]
    <3>1. SUFFICES ASSUME NEW p \in Nat \X Nat PROVE f[p] = Round(f)[p]
      OBVIOUS
    <3>2. p = <<p[1], p[2]>> /\ p[1] \in Nat /\ p[2] \in Nat
      OBVIOUS
    <3> QED
      BY <2>1, <3>2
  <2> QED
    BY <1>9, <2>2, <2>3 DEF S
<1> HIDE DEF f
<1> DEFINE B == CHOOSE g : Search(g)
<1>12. Search(B)
  <2> HIDE DEF Search
  <2> QED
    BY <1>11
<1>13. bisect(i, b) = B
  BY DEF bisect, Round, Fit, Mid
<1> HIDE DEF B
<1>14. \A lo, hi \in Nat : B[<<lo, hi>>] = IF hi - lo <= 1 THEN lo
                                           ELSE IF Fit(Mid(lo, hi)) THEN B[<<Mid(lo, hi), hi>>]
                                           ELSE B[<<lo, Mid(lo, hi)>>]
  <2>1. SUFFICES ASSUME NEW lo \in Nat, NEW hi \in Nat
                 PROVE  Round(B)[<<lo, hi>>] = IF hi - lo <= 1 THEN lo
                                               ELSE IF Fit(Mid(lo, hi)) THEN B[<<Mid(lo, hi), hi>>]
                                               ELSE B[<<lo, Mid(lo, hi)>>]
    BY <1>12, Zenon
  <2> QED
    BY DEF Round
<1> HIDE DEF Search
<1>15. SUFFICES ASSUME NEW lo \in Nat, NEW hi \in Nat
                PROVE  B[<<lo, hi>>] =
                          IF hi - lo <= 1 THEN lo
                          ELSE IF Fit(Mid(lo, hi)) THEN B[<<Mid(lo, hi), hi>>]
                          ELSE B[<<lo, Mid(lo, hi)>>]
  BY <1>13, Zenon DEF Fit
<1> QED
  BY <1>14

\* Between a lower bound and an upper bound that does not fit, the search ends at
\* a height whose successor does not fit, and that fits unless it never moved.
LEMMA BisectSearch ==
    ASSUME NEW i, NEW b, NEW lo \in Nat, NEW hi \in Nat, lo < hi, ~fits(OnlyAir(i, hi), b)
    PROVE  LET r == bisect(i, b)[<<lo, hi>>]
           IN  /\ r \in Nat /\ lo <= r /\ r < hi
               /\ ~fits(OnlyAir(i, r + 1), b)
               /\ r = lo \/ fits(OnlyAir(i, r), b)
<1> DEFINE Fit(m) == fits(OnlyAir(i, m), b)
           Found(r, l, h) == /\ r \in Nat /\ l <= r /\ r < h /\ ~Fit(r + 1)
                             /\ r = l \/ Fit(r)
           B == bisect(i, b)
           A == {n \in Nat : \A l, h \in Nat :
                    l < h /\ h - l <= n /\ ~Fit(h) => Found(B[<<l, h>>], l, h)}
<1>1. ASSUME NEW l \in Nat, NEW h \in Nat
      PROVE  B[<<l, h>>] = IF h - l <= 1 THEN l
                           ELSE IF Fit(Mid(l, h)) THEN B[<<Mid(l, h), h>>]
                           ELSE B[<<l, Mid(l, h)>>]
  BY BisectRecursion
<1>2. \A l, h \in Nat : h - l > 1 => Mid(l, h) \in Nat /\ l < Mid(l, h) /\ Mid(l, h) < h
  BY DEF Mid
<1> HIDE DEF Fit, B
<1>3. 0 \in A
  <2>1. \A l, h \in Nat : ~(l < h /\ h - l <= 0)
    OBVIOUS
  <2> HIDE DEF Found
  <2> QED
    BY <2>1
<1>4. ASSUME NEW n \in Nat, n \in A PROVE n + 1 \in A
  <2>1. SUFFICES ASSUME NEW l \in Nat, NEW h \in Nat, l < h, h - l <= n + 1, ~Fit(h)
                 PROVE  Found(B[<<l, h>>], l, h)
    <3> HIDE DEF Found
    <3> QED
      OBVIOUS
  <2>2. \A x, y \in Nat : x < y /\ y - x <= n /\ ~Fit(y) => Found(B[<<x, y>>], x, y)
    <3> HIDE DEF Found
    <3> QED
      BY <1>4
  <2> HIDE DEF A
  <2>3. CASE h - l <= 1
    <3>1. l + 1 = h
      BY <2>1, <2>3
    <3>2. B[<<l, h>>] = l
      BY <1>1, <2>3, Zenon
    <3> QED
      BY <2>1, <3>1, <3>2
  <2>4. CASE h - l > 1
    <3> DEFINE mid == Mid(l, h)
    <3>1. mid \in Nat /\ l < mid /\ mid < h /\ h - mid <= n /\ mid - l <= n
      BY <1>2, <2>1, <2>4
    <3>2. B[<<l, h>>] = IF Fit(mid) THEN B[<<mid, h>>] ELSE B[<<l, mid>>]
      BY <1>1, <2>4
    <3> HIDE DEF mid
    <3>3. CASE Fit(mid)
      <4>1. Found(B[<<mid, h>>], mid, h)
        BY <2>1, <2>2, <3>1
      <4> QED
        BY <3>1, <3>2, <3>3, <4>1
    <3>4. CASE ~Fit(mid)
      <4>1. Found(B[<<l, mid>>], l, mid)
        BY <2>2, <3>1, <3>4
      <4> QED
        BY <2>1, <3>1, <3>2, <3>4, <4>1
    <3> QED
      BY <3>3, <3>4
  <2> QED
    BY <2>3, <2>4
<1>5. hi - lo \in A
  <2>1. hi - lo \in Nat
    OBVIOUS
  <2> HIDE DEF A
  <2> QED
    BY <1>3, <1>4, <2>1, SetInduction
<1>6. Found(B[<<lo, hi>>], lo, hi)
  <2>1. ~Fit(hi)
    BY DEF Fit
  <2> HIDE DEF Found
  <2> QED
    BY <1>5, <2>1
<1> QED
  BY <1>6 DEF Fit, B

\* prover_peak_bytes is non-decreasing in every height, so what fits still fits
\* when no height is larger.
LEMMA FitsMonotone ==
    ASSUME NEW low, NEW high, NEW b \in Nat,
           \A i \in Airs : low[i] \in Nat /\ high[i] \in Nat /\ low[i] <= high[i],
           fits(high, b)
    PROVE  fits(low, b)
<1> DEFINE M(h) == AtLeast(h[1], AtLeast(h[2], h[3]))
           W(h) == h[1] * 4248 + h[2] * 2016 + h[3] * 1296 + M(h) * 2560
<1>1. /\ low[1] \in Nat /\ low[2] \in Nat /\ low[3] \in Nat
      /\ high[1] \in Nat /\ high[2] \in Nat /\ high[3] \in Nat
      /\ low[1] <= high[1] /\ low[2] <= high[2] /\ low[3] <= high[3]
  BY DEF Airs, Columns
<1>2. M(low) \in Nat /\ M(high) \in Nat /\ M(low) <= M(high)
  BY <1>1 DEF AtLeast
<1>3. ASSUME NEW h, h[1] \in Nat, h[2] \in Nat, h[3] \in Nat, M(h) \in Nat
      PROVE  prover_peak_bytes(h) =
                IF 5 * W(h) > U64Max THEN None ELSE (5 * W(h) + 3) \div 4
  BY <1>3 DEF prover_peak_bytes, Columns, Blowup, QuotientDegree, FELT_BYTES, SharedRowBytes
<1> HIDE DEF M
<1>4. W(low) \in Nat /\ W(high) \in Nat /\ W(low) <= W(high)
  BY <1>1, <1>2
<1> HIDE DEF W
<1>5. ~(5 * W(high) > U64Max) /\ (5 * W(high) + 3) \div 4 <= b
  BY <1>1, <1>2, <1>3 DEF fits
<1>6. /\ ~(5 * W(low) > U64Max)
      /\ (5 * W(low) + 3) \div 4 \in Nat /\ (5 * W(low) + 3) \div 4 <= b
  BY <1>4, <1>5, BudgetAssumption
<1>7. prover_peak_bytes(low) = (5 * W(low) + 3) \div 4
  BY <1>1, <1>2, <1>3, <1>6
<1> QED
  BY <1>6, <1>7, BudgetAssumption DEF fits

\* An empty trace fits every budget.
LEMMA NothingFits ==
    ASSUME NEW i \in Airs, NEW b \in Nat
    PROVE  fits(OnlyAir(i, 0), b)
<1>1. \A j \in {1, 2, 3} : OnlyAir(i, 0)[j] = 0
  BY DEF OnlyAir, Airs, Columns
<1>2. prover_peak_bytes(OnlyAir(i, 0)) = 0
  BY <1>1, BudgetAssumption DEF prover_peak_bytes, AtLeast, Columns, Blowup, QuotientDegree,
     FELT_BYTES, SharedRowBytes
<1> QED
  BY <1>2, BudgetAssumption DEF fits

\* The heights of a trace in which one AIR alone has rows.
LEMMA OnlyAirHeights ==
    ASSUME NEW i \in Airs, NEW n \in Nat
    PROVE  /\ OnlyAir(i, n)[i] = n
           /\ \A j \in Airs : OnlyAir(i, n)[j] \in Nat /\ (j # i => OnlyAir(i, n)[j] = 0)
BY DEF OnlyAir

\* max_height_for_budget returns the largest height of one AIR that fits the
\* budget with every other AIR empty: it fits, and no larger usize does.
THEOREM LargestHeight ==
    ASSUME NEW i \in Airs, NEW b \in Nat
    PROVE  /\ max_height_for_budget(i, b) \in 0..UsizeMax
           /\ fits(OnlyAir(i, max_height_for_budget(i, b)), b)
           /\ \A n \in 0..UsizeMax : fits(OnlyAir(i, n), b) => n <= max_height_for_budget(i, b)
<1>1. UsizeMax \in Nat /\ 0 < UsizeMax
  BY BudgetAssumption
<1>2. CASE fits(OnlyAir(i, UsizeMax), b)
  BY <1>1, <1>2 DEF max_height_for_budget
<1>3. CASE ~fits(OnlyAir(i, UsizeMax), b)
  <2> DEFINE r == bisect(i, b)[<<0, UsizeMax>>]
  <2>1. max_height_for_budget(i, b) = r
    BY <1>3 DEF max_height_for_budget
  <2>2. /\ r \in Nat /\ r < UsizeMax /\ ~fits(OnlyAir(i, r + 1), b)
        /\ r = 0 \/ fits(OnlyAir(i, r), b)
    BY <1>1, <1>3, BisectSearch
  <2> HIDE DEF r
  <2>3. fits(OnlyAir(i, r), b)
    BY <2>2, NothingFits
  <2>4. ASSUME NEW n \in 0..UsizeMax, fits(OnlyAir(i, n), b), ~(n <= r) PROVE FALSE
    <3>1. n \in Nat /\ r + 1 \in Nat /\ r + 1 <= n
      BY <1>1, <2>2, <2>4
    <3>2. \A j \in Airs : /\ OnlyAir(i, r + 1)[j] \in Nat /\ OnlyAir(i, n)[j] \in Nat
                          /\ OnlyAir(i, r + 1)[j] <= OnlyAir(i, n)[j]
      BY <3>1, OnlyAirHeights
    <3> QED
      BY <2>2, <2>4, <3>2, FitsMonotone
  <2> QED
    BY <1>1, <2>1, <2>2, <2>3, <2>4
<1> QED
  BY <1>2, <1>3

\* max_trace_len is a number, at least what every AIR alone may take.
LEMMA CapType ==
    ASSUME NEW b \in Nat
    PROVE  /\ max_trace_len(b) \in Nat
           /\ \A i \in Airs : AtMost(MAX_TRACE_LEN, max_height_for_budget(i, b)) <= max_trace_len(b)
<1> DEFINE H(i) == max_height_for_budget(i, b)
<1>1. Airs = {1, 2, 3}
  BY DEF Airs, Columns
<1>2. MAX_TRACE_LEN \in Nat /\ UsizeMax \in Nat /\ \A i \in Airs : H(i) \in 0..UsizeMax
  BY LargestHeight, BudgetAssumption
<1>3. H(1) \in Nat /\ H(2) \in Nat /\ H(3) \in Nat
  BY <1>1, <1>2
<1>4. max_trace_len(b) = AtMost(MAX_TRACE_LEN, AtLeast(H(1), AtLeast(H(2), H(3))))
  BY DEF max_trace_len, max_any_height_for_budget
<1> HIDE DEF H
<1>5. AtMost(MAX_TRACE_LEN, AtLeast(H(1), AtLeast(H(2), H(3)))) \in Nat
  BY <1>2, <1>3 DEF AtMost, AtLeast
<1>6. \A i \in {1, 2, 3} :
         AtMost(MAX_TRACE_LEN, H(i)) <= AtMost(MAX_TRACE_LEN, AtLeast(H(1), AtLeast(H(2), H(3))))
  BY <1>2, <1>3 DEF AtMost, AtLeast
<1> QED
  BY <1>1, <1>4, <1>5, <1>6 DEF H

\* The cap on the rows of one AIR turns away no shape the budget check accepts,
\* unless the shape is too tall for any budget.
LEMMA Permissive ==
    ASSUME NEW r, r.core \in Nat, r.non_hasher \in Nat, r.permutations \in Nat,
           NEW total \in Nat, NEW b \in Nat, fits(Heights(r, total), b),
           \A i \in Airs : ~(Heights(r, total)[i] > MAX_TRACE_LEN)
    PROVE  r.non_hasher + total <= max_trace_len(b)
<1> DEFINE n == r.non_hasher + total
           hs == Heights(r, total)
           h == pad_to_trace_length(n)
<1>1. Airs = {1, 2, 3}
  BY DEF Airs, Columns
<1>2. n \in Nat
  OBVIOUS
<1>3. hs[1] = pad_to_trace_length(r.core) /\ hs[2] = h
      /\ hs[3] = pad_to_trace_length(r.permutations)
  BY DEF Heights
<1>4. \A i \in Airs : hs[i] \in Nat
  BY <1>1, <1>2, <1>3, PadToTraceLength
<1>5. h \in Nat /\ n <= h
  BY <1>2, PadToTraceLength
<1>6. MAX_TRACE_LEN \in Nat /\ UsizeMax \in Nat /\ MAX_TRACE_LEN <= UsizeMax
  BY BudgetAssumption
<1>7. h <= MAX_TRACE_LEN
  BY <1>1, <1>3, <1>5, <1>6
<1> HIDE DEF n, hs, h
<1>8. fits(OnlyAir(2, h), b)
  <2>1. \A j \in Airs : OnlyAir(2, h)[j] \in Nat /\ OnlyAir(2, h)[j] <= hs[j]
    BY <1>1, <1>3, <1>4, <1>5, OnlyAirHeights
  <2> QED
    BY <1>4, <2>1, FitsMonotone DEF hs
<1>9. max_height_for_budget(2, b) \in Nat /\ h <= max_height_for_budget(2, b)
  BY <1>1, <1>5, <1>6, <1>7, <1>8, LargestHeight
<1>10. h <= AtMost(MAX_TRACE_LEN, max_height_for_budget(2, b))
       /\ AtMost(MAX_TRACE_LEN, max_height_for_budget(2, b)) \in Nat
  BY <1>6, <1>7, <1>9 DEF AtMost
<1>11. /\ AtMost(MAX_TRACE_LEN, max_height_for_budget(2, b)) <= max_trace_len(b)
       /\ max_trace_len(b) \in Nat
  BY <1>1, CapType
<1> QED
  BY <1>2, <1>5, <1>10, <1>11 DEF n

----------------------------------------------------------------------------
\* What the builder leaves: the whole hasher, or the cap it met on the way.
Built ==
    \/ hasher = [kind |-> "hasher",
                 cap  |-> hasher_rows(execution.requests)[Len(execution.requests)]]
    \/ /\ hasher = TraceLenExceeded(cap)
       /\ \E n \in 0..Len(execution.requests) : hasher_rows(execution.requests)[n] > cap

\* The inductive invariant: the receiver lives exactly while the task is queued or
\* run, the sender lives until the stream is complete, and a finished task has
\* left what it made of the whole stream.
IInv ==
    /\ execution \in Executions /\ budget \in Budgets
    /\ pc \in {"entry", "buffered", "execute", "take", "wait", "done"}
    /\ sent \in 0..Len(execution.requests) /\ channel \in Seq(Nat)
    /\ pc \in {"entry", "buffered"} =>
          builder = "none" /\ sent = 0 /\ rows = 0 /\ channel = << >>
    /\ pc \in {"execute", "take"} => senderAlive
    /\ pc \in {"take", "wait"} => sent = Len(execution.requests)
    /\ receiverAlive \in BOOLEAN
    /\ receiverAlive <=> builder \in Workers \cup {"queued"}
    /\ receiverAlive => pc \in {"execute", "take", "wait"}
    /\ StreamIsComplete
    /\ builder = "finished" => Built
    /\ SameAsBuffered

\* The inputs of a call have the types of the code.
LEMMA Inputs ==
    ASSUME execution \in Executions, budget \in Budgets
    PROVE  /\ execution.requests \in Seq(Nat) /\ Len(execution.requests) \in Nat
           /\ budget \in Nat /\ cap \in Nat
           /\ execution.rows.core \in Nat /\ execution.rows.non_hasher \in Nat
           /\ execution.rows.permutations \in Nat
<1>1. budget \in Nat /\ execution.requests \in Seq(Nat)
  BY ExecutionsAssumption
<1> QED
  BY <1>1, ExecutionsAssumption, CapType DEF cap

\* Receiving takes the first element of a window on the stream, sending extends it.
LEMMA Window ==
    ASSUME NEW s \in Seq(Nat), NEW m \in Nat, NEW n \in 0..Len(s), m <= n
    PROVE  /\ SubSeq(s, m + 1, n) \in Seq(Nat) /\ Len(SubSeq(s, m + 1, n)) = n - m
           /\ m < n => /\ Head(SubSeq(s, m + 1, n)) = s[m + 1]
                       /\ Tail(SubSeq(s, m + 1, n)) = SubSeq(s, m + 2, n)
           /\ n < Len(s) => Append(SubSeq(s, m + 1, n), s[n + 1]) = SubSeq(s, m + 1, n + 1)
OBVIOUS

\* The invariant holds before the call begins.
LEMMA InitInvariant == Init => IInv
<1> SUFFICES ASSUME Init PROVE IInv
  OBVIOUS
<1>1. execution.requests \in Seq(Nat) /\ Len(execution.requests) \in Nat
  BY Inputs DEF Init
<1>2. builder \notin Workers \cup {"queued"}
  BY WorkersAssumption DEF Init
<1>3. StreamIsComplete
  BY DEF Init, StreamIsComplete
<1>4. SameAsBuffered
  BY DEF Init, SameAsBuffered
<1>5. sent \in 0..Len(execution.requests) /\ channel \in Seq(Nat) /\ receiverAlive = FALSE
  BY <1>1 DEF Init
<1>6. /\ execution \in Executions /\ budget \in Budgets /\ pc = "entry" /\ builder = "none"
      /\ sent = 0 /\ rows = 0 /\ channel = << >>
  BY DEF Init
<1> QED
  BY <1>2, <1>3, <1>4, <1>5, <1>6, Zenon DEF IInv

\* What the caller of either path returns.
LEMMA PathsAgree ==
    ASSUME execution \in Executions, budget \in Budgets, Built, execution.ending = "ok"
    PROVE  LET streamed == IF hasher.kind # "hasher" THEN hasher
                           ELSE build_trace_inner(execution.rows, hasher.cap, budget)
               expected == buffered_result(execution, budget)
           IN  streamed.kind = expected.kind
               /\ (expected.kind # "trace_len_exceeded" => streamed = expected)
<1> DEFINE reqs == execution.requests
           total == hasher_rows(reqs)[Len(reqs)]
<1>1. reqs \in Seq(Nat) /\ Len(reqs) \in Nat /\ cap \in Nat /\ execution.rows.non_hasher \in Nat
  BY Inputs
<1>2. buffered_result(execution, budget) = build_trace_inner(execution.rows, total, budget)
  BY DEF buffered_result
<1>3. CASE hasher = [kind |-> "hasher", cap |-> total]
  <2>1. hasher.kind = "hasher" /\ hasher.cap = total
    BY <1>3
  <2> QED
    BY <1>2, <2>1
<1>4. CASE /\ hasher = TraceLenExceeded(cap)
           /\ \E n \in 0..Len(reqs) : hasher_rows(reqs)[n] > cap
  <2>1. PICK n \in 0..Len(reqs) : hasher_rows(reqs)[n] > cap
    BY <1>4
  <2>2. hasher_rows(reqs)[n] <= total /\ hasher_rows(reqs)[n] \in Nat /\ total \in Nat
    BY <1>1, HasherRows, HasherRowsGrow
  <2>3. total > cap - execution.rows.non_hasher
    <3> HIDE DEF total
    <3> QED
      BY <1>1, <2>1, <2>2
  <2>4. build_trace_inner(execution.rows, total, budget).kind = "trace_len_exceeded"
    <3> HIDE DEF total
    <3> QED
      BY <2>3 DEF build_trace_inner, TraceLenExceeded, cap
  <2>5. hasher.kind = "trace_len_exceeded"
    BY <1>4 DEF TraceLenExceeded
  <2> QED
    BY <1>2, <2>4, <2>5
<1> QED
  BY <1>3, <1>4 DEF Built

\* The step of a worker or of the caller, one by one.
LEMMA NextInvariant == IInv /\ [Next]_vars => IInv'
<1> SUFFICES ASSUME IInv, [Next]_vars PROVE IInv'
  OBVIOUS
<1> DEFINE reqs == execution.requests
           hr == hasher_rows(reqs)
<1>1. /\ execution \in Executions /\ budget \in Budgets
      /\ reqs \in Seq(Nat) /\ Len(reqs) \in Nat /\ cap \in Nat
  BY Inputs DEF IInv
<1>2. /\ hr \in [0..Len(reqs) -> Nat] /\ hr[0] = 0
      /\ \A n \in 1..Len(reqs) : hr[n] = hr[n - 1] + reqs[n]
  BY <1>1, HasherRows
<1>3. CASE Enter
  <2>1. /\ execution' = execution /\ budget' = budget /\ sent' = sent /\ channel' = channel
        /\ rows' = rows /\ hasher' = hasher /\ pc = "entry" /\ sent = 0 /\ rows = 0
        /\ channel = << >> /\ builder = "none"
    BY <1>3 DEF Enter, inputs, IInv
  <2>2. SameAsBuffered'
    BY <1>3, <2>1 DEF Enter, SameAsBuffered
  <2>3. CASE rayon_has_no_parallel_worker
    <3>1. ~receiverAlive
      BY <2>1, WorkersAssumption DEF IInv
    <3>2. pc' = "buffered" /\ builder' = "none" /\ receiverAlive' = receiverAlive
      BY <1>3, <2>1, <2>3 DEF Enter
    <3>3. StreamIsComplete'
      BY <3>1, <3>2 DEF StreamIsComplete
    <3> QED
      BY <2>1, <2>2, <3>1, <3>2, <3>3, WorkersAssumption DEF IInv
  <2>4. CASE ~rayon_has_no_parallel_worker
    <3>1. pc' = "execute" /\ senderAlive' = TRUE /\ receiverAlive' = TRUE /\ builder' = "queued"
      BY <1>3, <2>4 DEF Enter
    <3>2. StreamIsComplete'
      <4>1. SubSeq(reqs, 1, 0) = << >>
        BY <1>1
      <4> QED
        BY <1>2, <2>1, <4>1 DEF StreamIsComplete
    <3> QED
      BY <2>1, <2>2, <3>1, <3>2 DEF IInv
  <2> QED
    BY <2>3, <2>4
<1>4. CASE Buffered
  <2>1. /\ execution' = execution /\ budget' = budget /\ sent' = sent /\ channel' = channel
        /\ rows' = rows /\ hasher' = hasher /\ builder' = builder /\ builder = "none"
        /\ receiverAlive' = receiverAlive /\ pc' = "done" /\ pc = "buffered"
    BY <1>4 DEF Buffered, inputs, IInv
  <2>2. ~receiverAlive
    BY <2>1, WorkersAssumption DEF IInv
  <2>3. StreamIsComplete'
    BY <2>1, <2>2 DEF StreamIsComplete
  <2>4. SameAsBuffered'
    BY <1>4, <2>1 DEF Buffered, SameAsBuffered
  <2> QED
    BY <2>1, <2>2, <2>3, <2>4, WorkersAssumption DEF IInv
<1>5. CASE Record
  <2>1. /\ execution' = execution /\ budget' = budget /\ pc' = pc /\ pc = "execute"
        /\ senderAlive' = senderAlive /\ receiverAlive' = receiverAlive /\ builder' = builder
        /\ rows' = rows /\ hasher' = hasher /\ sent' = sent + 1 /\ sent < Len(reqs)
        /\ sent' \in 0..Len(reqs) /\ sent \in 0..Len(reqs)
    BY <1>1, <1>5 DEF Record, inputs, IInv
  <2>2. StreamIsComplete'
    <3>1. SUFFICES ASSUME receiverAlive PROVE StreamIsComplete'
      BY <2>1 DEF StreamIsComplete
    <3> DEFINE built == sent - Len(channel)
    <3>2. /\ channel = SubSeq(reqs, built + 1, sent) /\ rows = hr[built]
          /\ built \in Nat /\ built <= sent /\ channel \in Seq(Nat) /\ Len(channel) \in Nat
      BY <2>1, <3>1 DEF IInv, StreamIsComplete
    <3>3. channel' = Append(channel, reqs[sent + 1])
      BY <1>5, <2>1, <3>1 DEF Record
    <3>4. channel' = SubSeq(reqs, built + 1, sent + 1)
      <4> HIDE DEF built, reqs
      <4> QED
        BY <1>1, <2>1, <3>2, <3>3, Window
    <3>5. Len(channel') = Len(channel) + 1
      BY <3>2, <3>3
    <3>6. sent' - Len(channel') = built
      BY <2>1, <3>2, <3>5
    <3>7. /\ built >= 0 /\ channel' = SubSeq(execution.requests', built + 1, sent')
          /\ rows' = hasher_rows(execution.requests')[built]
      BY <2>1, <3>2, <3>4
    <3> HIDE DEF built
    <3> QED
      BY <3>6, <3>7, Zenon DEF StreamIsComplete
  <2>3. channel' \in Seq(Nat)
    BY <1>1, <1>5, <2>1 DEF IInv, Record
  <2>4. SameAsBuffered'
    BY <2>1 DEF SameAsBuffered
  <2>5. builder' = "finished" => Built'
    BY <2>1 DEF IInv, Built, cap
  <2> QED
    BY <2>1, <2>2, <2>3, <2>4, <2>5 DEF IInv
<1>6. CASE ExecutionFails \/ ExecutionSucceeds \/ TakeHasherReplay
  <2>1. /\ execution' = execution /\ budget' = budget /\ sent' = sent /\ channel' = channel
        /\ rows' = rows /\ hasher' = hasher /\ builder' = builder
        /\ receiverAlive' = receiverAlive
    BY <1>6 DEF ExecutionFails, ExecutionSucceeds, TakeHasherReplay, inputs
  <2>2. /\ pc \in {"execute", "take"} /\ pc' \in {"take", "wait"} /\ sent = Len(reqs)
        /\ pc' = "take" => senderAlive'
    BY <1>6 DEF ExecutionFails, ExecutionSucceeds, TakeHasherReplay, IInv
  <2>3. StreamIsComplete' /\ SameAsBuffered' /\ (builder' = "finished" => Built')
    BY <2>1, <2>2, Zenon DEF IInv, StreamIsComplete, SameAsBuffered, Built, cap
  <2> QED
    BY <2>1, <2>2, <2>3 DEF IInv
<1>7. CASE ScopeEnds
  <2>1. /\ execution' = execution /\ budget' = budget /\ sent' = sent /\ channel' = channel
        /\ rows' = rows /\ hasher' = hasher /\ builder' = builder /\ builder = "finished"
        /\ receiverAlive' = receiverAlive /\ pc' = "done"
    BY <1>7 DEF ScopeEnds, inputs
  <2>2. ~receiverAlive /\ Built
    BY <2>1, WorkersAssumption DEF IInv
  <2>3. StreamIsComplete' /\ Built'
    BY <2>1, <2>2 DEF StreamIsComplete, Built, cap
  <2>4. SameAsBuffered'
    <3>1. CASE execution.ending # "ok"
      BY <1>7, <2>1, <3>1 DEF ScopeEnds, SameAsBuffered, buffered_result
    <3>2. CASE execution.ending = "ok"
      <4>1. result' = IF hasher.kind # "hasher" THEN hasher
                      ELSE build_trace_inner(execution.rows, hasher.cap, budget)
        BY <1>7, <3>2 DEF ScopeEnds
      <4> QED
        BY <1>1, <2>1, <2>2, <3>2, <4>1, PathsAgree DEF SameAsBuffered
    <3> QED
      BY <3>1, <3>2
  <2> QED
    BY <2>1, <2>2, <2>3, <2>4, WorkersAssumption DEF IInv
<1>8. ASSUME NEW w \in Workers, StartBuilder(w) PROVE IInv'
  <2>1. /\ execution' = execution /\ budget' = budget /\ sent' = sent /\ channel' = channel
        /\ rows' = rows /\ hasher' = hasher /\ builder' = w /\ builder = "queued"
        /\ receiverAlive' = receiverAlive /\ pc' = pc /\ senderAlive' = senderAlive
        /\ result' = result
    BY <1>8 DEF StartBuilder, inputs
  <2>2. receiverAlive /\ builder' # "finished"
    BY <2>1, WorkersAssumption DEF IInv
  <2>3. StreamIsComplete' /\ SameAsBuffered'
    BY <2>1 DEF IInv, StreamIsComplete, SameAsBuffered
  <2> QED
    BY <2>1, <2>2, <2>3 DEF IInv
<1>9. ASSUME NEW w \in Workers, Build(w) PROVE IInv'
  <2> DEFINE built == sent - Len(channel)
  <2>1. /\ execution' = execution /\ budget' = budget /\ sent' = sent /\ pc' = pc
        /\ senderAlive' = senderAlive /\ result' = result /\ builder = w /\ channel # << >>
        /\ rows' = rows + Head(channel)
    BY <1>9 DEF Build, inputs
  <2>2. receiverAlive /\ pc \in {"execute", "take", "wait"}
    BY <2>1 DEF IInv
  <2>3. /\ channel = SubSeq(reqs, built + 1, sent) /\ rows = hr[built]
        /\ built \in Nat /\ built <= sent /\ channel \in Seq(Nat) /\ Len(channel) \in Nat
        /\ sent \in 0..Len(reqs)
    BY <1>1, <2>2 DEF IInv, StreamIsComplete
  <2>4. built < sent
    BY <2>1, <2>3
  <2>5. Head(channel) = reqs[built + 1] /\ Tail(channel) = SubSeq(reqs, built + 2, sent)
    <3> HIDE DEF built, reqs
    <3> QED
      BY <1>1, <2>3, <2>4, Window
  <2>6. built + 1 \in 1..Len(reqs) /\ (built + 1) - 1 = built
    BY <1>1, <2>3, <2>4
  <2>7. rows' = hr[built + 1]
    <3> HIDE DEF built, hr
    <3> QED
      BY <1>2, <2>1, <2>3, <2>5, <2>6
  <2>8. SameAsBuffered'
    BY <2>1, <2>2 DEF SameAsBuffered
  <2>9. CASE rows' > cap
    <3>1. /\ hasher' = TraceLenExceeded(cap) /\ builder' = "finished" /\ receiverAlive' = FALSE
          /\ channel' = << >>
      BY <1>9, <2>9 DEF Build
    <3>2. cap' = cap /\ hr' = hr /\ reqs' = reqs
      BY <2>1 DEF cap
    <3>3. Built'
      <4>1. built + 1 \in 0..Len(reqs) /\ hr[built + 1] > cap
        BY <2>6, <2>7, <2>9
      <4> HIDE DEF built
      <4> QED
        BY <2>1, <3>1, <3>2, <4>1 DEF Built, TraceLenExceeded
    <3>4. StreamIsComplete'
      BY <3>1 DEF StreamIsComplete
    <3>5. /\ "finished" \notin Workers \cup {"queued"} /\ channel' \in Seq(Nat)
          /\ sent' \in 0..Len(execution.requests')
      BY <2>1, <2>3, <3>1, WorkersAssumption
    <3> QED
      BY <2>1, <2>2, <2>8, <3>1, <3>3, <3>4, <3>5, Zenon DEF IInv
  <2>10. CASE ~(rows' > cap)
    <3>1. /\ hasher' = hasher /\ builder' = builder /\ receiverAlive' = receiverAlive
          /\ channel' = Tail(channel)
      BY <1>9, <2>10 DEF Build
    <3>2. channel' \in Seq(Nat) /\ Len(channel') = Len(channel) - 1
      BY <2>1, <2>3, <3>1
    <3>3. sent' - Len(channel') = built + 1
      BY <2>1, <2>3, <3>2
    <3>4. StreamIsComplete'
      <4> DEFINE n == built + 1
      <4>1. n >= 0 /\ n + 1 = built + 2 /\ sent' - Len(channel') = n
        BY <2>3, <3>3
      <4>2. /\ channel' = SubSeq(execution.requests', n + 1, sent')
            /\ rows' = hasher_rows(execution.requests')[n]
        BY <2>1, <2>5, <2>7, <3>1, <4>1, Zenon
      <4> HIDE DEF n
      <4> QED
        BY <4>1, <4>2, Zenon DEF StreamIsComplete
    <3>5. builder' # "finished"
      BY <2>1, <3>1, WorkersAssumption
    <3> QED
      BY <2>1, <2>2, <2>8, <3>1, <3>2, <3>4, <3>5 DEF IInv
  <2> QED
    BY <2>9, <2>10
<1>10. ASSUME NEW w \in Workers, StreamEnds(w) PROVE IInv'
  <2>1. /\ execution' = execution /\ budget' = budget /\ sent' = sent /\ pc' = pc
        /\ senderAlive' = senderAlive /\ result' = result /\ builder = w /\ channel = << >>
        /\ rows' = rows /\ channel' = channel /\ ~senderAlive
        /\ hasher' = [kind |-> "hasher", cap |-> rows]
        /\ builder' = "finished" /\ receiverAlive' = FALSE
    BY <1>10 DEF StreamEnds, inputs
  <2>2. receiverAlive /\ pc = "wait" /\ sent = Len(reqs)
    BY <2>1 DEF IInv
  <2>3. rows = hr[Len(reqs)]
    BY <1>1, <2>1, <2>2 DEF IInv, StreamIsComplete
  <2>4. Built'
    BY <2>1, <2>3 DEF Built
  <2>5. StreamIsComplete' /\ SameAsBuffered'
    BY <2>1, <2>2, Zenon DEF StreamIsComplete, SameAsBuffered
  <2> QED
    BY <2>1, <2>2, <2>4, <2>5, WorkersAssumption, Zenon DEF IInv
<1>11. CASE UNCHANGED <<execution, budget, pc, sent, channel, senderAlive, receiverAlive, builder,
                        rows, hasher, result>>
  <2>1. StreamIsComplete' <=> StreamIsComplete
    BY <1>11 DEF StreamIsComplete
  <2>2. SameAsBuffered' <=> SameAsBuffered
    BY <1>11 DEF SameAsBuffered
  <2>3. Built' <=> Built
    BY <1>11 DEF Built, cap
  <2> QED
    BY <1>11, <2>1, <2>2, <2>3 DEF IInv
<1>12. (\E w \in Workers : FinishForeign(w)) \/ UNCHANGED vars
       => UNCHANGED <<execution, budget, pc, sent, channel, senderAlive, receiverAlive, builder,
                      rows, hasher, result>>
  BY DEF FinishForeign, vars, inputs
<1> QED
  BY <1>3, <1>4, <1>5, <1>6, <1>7, <1>8, <1>9, <1>10, <1>11, <1>12
     DEF Next, CallerStep, WorkerStep

\* The invariant holds in every behaviour.
THEOREM Invariant == Spec => []IInv
<1> QED
  BY InitInvariant, NextInvariant, PTL DEF Spec

\* For all executions, budgets and workers, the stream loses, repeats and reorders
\* nothing.
THEOREM StreamsAreComplete == Spec => []StreamIsComplete
<1>1. IInv => StreamIsComplete
  BY DEF IInv
<1> QED
  BY <1>1, Invariant, PTL

\* The streamed and the buffered path end alike.
THEOREM PathsEndAlike == Spec => []SameAsBuffered
<1>1. IInv => SameAsBuffered
  BY DEF IInv
<1> QED
  BY <1>1, Invariant, PTL

\* The permissive cap never turns away a shape the budget check would accept.
THEOREM CapsArePermissive == Spec => []TierOneIsPermissive
<1>1. IInv => TierOneIsPermissive
  <2>1. SUFFICES ASSUME IInv PROVE TierOneIsPermissive
    OBVIOUS
  <2> DEFINE total == hasher_rows(execution.requests)[Len(execution.requests)]
  <2>2. /\ execution.requests \in Seq(Nat) /\ Len(execution.requests) \in Nat /\ budget \in Nat
        /\ execution.rows.core \in Nat /\ execution.rows.non_hasher \in Nat
        /\ execution.rows.permutations \in Nat
    BY <2>1, Inputs DEF IInv
  <2>3. total \in Nat
    BY <2>2, HasherRows
  <2> HIDE DEF total
  <2>4. fits(Heights(execution.rows, total), budget) =>
           \/ execution.rows.non_hasher + total <= cap
           \/ \E i \in Airs : Heights(execution.rows, total)[i] > MAX_TRACE_LEN
    BY <2>2, <2>3, Permissive DEF cap
  <2> QED
    BY <2>4 DEF TierOneIsPermissive, total
<1> QED
  BY <1>1, Invariant, PTL

=============================================================================

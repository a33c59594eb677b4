--------------------------- MODULE ProcessProofs ---------------------------
(* Proofs about one server process: the delays, for any policies, retry    *)
(* configurations and numbers of failures; and RequestTracker and Ingress, *)
(* for any finite set of requests and any shutdowns, with any number of    *)
(* slots for large uploads.                                                *)
EXTENDS Delays, Ingress, FiniteSetTheorems, TLAPS

-----------------------------------------------------------------------------
(* Iteration of a function over the naturals.  The recursive functions of  *)
(* the delays are iterations; that they have values at all, and which,     *)
(* follows from the least number that would be an exception.               *)
LEMMA LeastNumber ==
  ASSUME NEW n \in Nat, NEW B \in SUBSET (0 .. n), B # {}
  PROVE  \E k \in B : \A m \in B : k <= m
<1> DEFINE S == 0 .. n
           R == StrictSubsetOrdering(S)
           F == {0 .. k : k \in B}
<1>1. IsWellFoundedOn(R, SUBSET S)
  <2>1. IsFiniteSet(S)
    BY FS_Interval
  <2> HIDE DEF S
  <2>2. QED
    BY <2>1, FS_StrictSubsetOrderingWellFounded, FS_FiniteSubsetsOfFinite
<1>2. F \subseteq SUBSET S /\ F # {}
  <2>1. \A k \in B : 0 .. k \in SUBSET S
    OBVIOUS
  <2>2. PICK k \in B : TRUE
    OBVIOUS
  <2>3. 0 .. k \in F
    OBVIOUS
  <2>4. QED
    BY <2>1, <2>3
<1>3. PICK T \in F : \A U \in F : <<U, T>> \notin R
  <2> HIDE DEF R, F, S
  <2>1. QED
    BY <1>1, <1>2, WFMin
<1>4. PICK k \in B : T = 0 .. k
  BY <1>3
<1>5. ASSUME NEW m \in B, ~(k <= m)
      PROVE  FALSE
  <2>1. 0 .. m \subseteq 0 .. k /\ 0 .. m # 0 .. k /\ 0 .. k \subseteq S
    <3>1. k \in 0 .. k /\ k \notin 0 .. m
      BY <1>5
    <3>2. QED
      BY <1>5, <3>1
  <2>2. <<0 .. m, T>> \in R
    BY <1>4, <2>1 DEF StrictSubsetOrdering
  <2>3. QED
    BY <1>3, <2>2
<1>6. QED
  BY <1>5

LEMMA IntervalInduction ==
  ASSUME NEW n \in Nat, NEW G \in SUBSET (0 .. n), 0 \in G,
         \A i \in G : i < n => i + 1 \in G
  PROVE  \A i \in 0 .. n : i \in G
<1> DEFINE B == (0 .. n) \ G
<1>1. SUFFICES ASSUME B # {}
               PROVE  FALSE
  OBVIOUS
<1>2. PICK k \in B : \A m \in B : k <= m
  <2>1. B \in SUBSET (0 .. n)
    OBVIOUS
  <2> HIDE DEF B
  <2>2. QED
    BY <1>1, <2>1, LeastNumber
<1>3. k \in 1 .. n /\ k - 1 \in 0 .. n /\ ~(k <= k - 1)
  BY <1>2
<1>4. k - 1 \in G
  BY <1>2, <1>3
<1>5. QED
  BY <1>2, <1>3, <1>4

Iteration(a, g, n, f) ==
  /\ f \in [0 .. n -> Nat]
  /\ f[0] = a
  /\ \A i \in 1 .. n : f[i] = g[f[i - 1]]

Iterated(a, g, n) == (CHOOSE f : Iteration(a, g, n, f))[n]

LEMMA IterationsExist ==
  ASSUME NEW a \in Nat, NEW g \in [Nat -> Nat], NEW n \in Nat
  PROVE  \E f : Iteration(a, g, n, f)
<1> DEFINE G == {k \in 0 .. n : \E f : Iteration(a, g, k, f)}
<1>1. 0 \in G
  <2>1. Iteration(a, g, 0, [i \in 0 .. 0 |-> a])
    BY DEF Iteration
  <2>2. QED
    BY <2>1
<1>2. ASSUME NEW k \in G, k < n
      PROVE  k + 1 \in G
  <2>1. PICK f : Iteration(a, g, k, f)
    BY <1>2
  <2> DEFINE h == [i \in 0 .. (k + 1) |-> IF i = k + 1 THEN g[f[k]] ELSE f[i]]
  <2>2. f \in [0 .. k -> Nat] /\ f[k] \in Nat /\ g[f[k]] \in Nat
    <3>1. f \in [0 .. k -> Nat]
      BY <2>1 DEF Iteration
    <3>2. k \in 0 .. k
      OBVIOUS
    <3>3. f[k] \in Nat
      BY <3>1, <3>2
    <3>4. QED
      BY <3>1, <3>3
  <2>3. h \in [0 .. (k + 1) -> Nat]
    <3>1. \A i \in 0 .. (k + 1) : i # k + 1 => i \in 0 .. k
      OBVIOUS
    <3>2. \A i \in 0 .. (k + 1) : (IF i = k + 1 THEN g[f[k]] ELSE f[i]) \in Nat
      BY <2>2, <3>1
    <3>3. QED
      BY <3>2
  <2>4. h[0] = a
    BY <2>1 DEF Iteration
  <2>5. ASSUME NEW i \in 1 .. (k + 1)
        PROVE  h[i] = g[h[i - 1]]
    <3>1. CASE i = k + 1
      <4>1. h[i] = g[f[k]] /\ h[i - 1] = f[k]
        BY <3>1
      <4>2. QED
        BY <4>1
    <3>2. CASE i # k + 1
      <4>1. i \in 1 .. k /\ h[i] = f[i] /\ h[i - 1] = f[i - 1]
        BY SMTT(30), <3>2
      <4>2. QED
        BY <2>1, <4>1 DEF Iteration
    <3>3. QED
      BY <3>1, <3>2
  <2>6. Iteration(a, g, k + 1, h)
    <3> HIDE DEF h
    <3>1. QED
      BY <2>3, <2>4, <2>5 DEF Iteration
  <2>7. k + 1 \in 0 .. n
    BY <1>2
  <2>8. QED
    BY <2>6, <2>7
<1>3. n \in G
  <2>1. G \in SUBSET (0 .. n) /\ n \in 0 .. n
    OBVIOUS
  <2> HIDE DEF G
  <2>2. QED
    BY <1>1, <1>2, <2>1, IntervalInduction
<1>4. QED
  BY <1>3

LEMMA IterationsAgree ==
  ASSUME NEW a \in Nat, NEW g \in [Nat -> Nat], NEW n \in Nat, NEW m \in Nat,
         n <= m, NEW f, NEW h, Iteration(a, g, n, f), Iteration(a, g, m, h)
  PROVE  f[n] = h[n]
<1> DEFINE G == {k \in 0 .. n : f[k] = h[k]}
<1>1. 0 \in G
  BY DEF Iteration
<1>2. ASSUME NEW k \in G, k < n
      PROVE  k + 1 \in G
  <2>1. k + 1 \in 1 .. n /\ k + 1 \in 1 .. m /\ (k + 1) - 1 = k
    BY <1>2
  <2>2. f[k + 1] = g[f[k]] /\ h[k + 1] = g[h[k]]
    BY <2>1 DEF Iteration
  <2>3. QED
    BY <2>1, <2>2
<1>3. n \in G
  <2>1. G \in SUBSET (0 .. n) /\ n \in 0 .. n
    OBVIOUS
  <2> HIDE DEF G
  <2>2. QED
    BY <1>1, <1>2, <2>1, IntervalInduction
<1>4. QED
  BY <1>3

LEMMA IteratedIs ==
  ASSUME NEW a \in Nat, NEW g \in [Nat -> Nat], NEW n \in Nat,
         NEW f, Iteration(a, g, n, f)
  PROVE  Iterated(a, g, n) = f[n]
<1> DEFINE h == CHOOSE h : Iteration(a, g, n, h)
<1>1. Iteration(a, g, n, h)
  OBVIOUS
<1>2. h[n] = f[n]
  <2> HIDE DEF h
  <2>1. QED
    BY <1>1, IterationsAgree
<1>3. QED
  BY <1>2 DEF Iterated

LEMMA IteratedFacts ==
  ASSUME NEW a \in Nat, NEW g \in [Nat -> Nat], NEW n \in Nat
  PROVE  /\ Iterated(a, g, n) \in Nat
         /\ Iterated(a, g, 0) = a
         /\ Iterated(a, g, n + 1) = g[Iterated(a, g, n)]
<1>1. PICK f : Iteration(a, g, n + 1, f)
  BY IterationsExist
<1>2. PICK h : Iteration(a, g, n, h)
  BY IterationsExist
<1>3. PICK z : Iteration(a, g, 0, z)
  BY IterationsExist
<1>4. Iterated(a, g, 0) = z[0] /\ z[0] = a
  <2>1. z[0] = a
    BY <1>3 DEF Iteration
  <2>2. QED
    BY <1>3, <2>1, IteratedIs
<1>5. Iterated(a, g, n) = h[n] /\ h[n] \in Nat
  <2>1. h[n] \in Nat
    BY <1>2 DEF Iteration
  <2>2. QED
    BY <1>2, <2>1, IteratedIs
<1>6. Iterated(a, g, n + 1) = f[n + 1]
  BY <1>1, IteratedIs
<1>7. f[n + 1] = g[f[n]]
  <2>1. n + 1 \in 1 .. (n + 1) /\ (n + 1) - 1 = n
    OBVIOUS
  <2>2. QED
    BY <1>1, <2>1 DEF Iteration
<1>8. f[n] = h[n]
  BY <1>1, <1>2, IterationsAgree
<1>9. QED
  BY <1>4, <1>5, <1>6, <1>7, <1>8

IsFunction(f, S) == f = [i \in S |-> f[i]]

(* A function that is defined by recursion is an iteration.                *)
LEMMA RecursionIterates ==
  ASSUME NEW a \in Nat, NEW g \in [Nat -> Nat], NEW n \in Nat, NEW f,
         IsFunction(f, 0 .. n), f[0] = a,
         \A i \in 1 .. n : f[i - 1] \in Nat => f[i] = g[f[i - 1]]
  PROVE  Iteration(a, g, n, f)
<1> DEFINE G == {i \in 0 .. n : f[i] \in Nat}
<1>1. 0 \in G
  OBVIOUS
<1>2. ASSUME NEW i \in G, i < n
      PROVE  i + 1 \in G
  <2>1. i + 1 \in 1 .. n /\ (i + 1) - 1 = i /\ i + 1 \in 0 .. n
    BY <1>2
  <2>2. f[i] \in Nat /\ f[i + 1] = g[f[i]]
    BY <2>1
  <2>3. f[i + 1] \in Nat
    BY <2>2
  <2>4. QED
    BY <2>1, <2>3
<1>3. \A i \in 0 .. n : i \in G
  <2>1. G \in SUBSET (0 .. n)
    OBVIOUS
  <2> HIDE DEF G
  <2>2. QED
    BY <1>1, <1>2, <2>1, IntervalInduction
<1>4. f \in [0 .. n -> Nat]
  BY <1>3 DEF IsFunction
<1>5. \A i \in 1 .. n : i - 1 \in 0 .. n
  OBVIOUS
<1>6. QED
  BY <1>3, <1>4, <1>5 DEF Iteration

(* The same for functions that begin at one.                               *)
FromOne(a, g, m, f) ==
  /\ IsFunction(f, 1 .. m)
  /\ f[1] = a
  /\ \A i \in 2 .. m : f[i - 1] \in Nat => f[i] = g[f[i - 1]]

LEMMA FromOneExists ==
  ASSUME NEW a \in Nat, NEW g \in [Nat -> Nat], NEW m \in Nat \ {0}
  PROVE  \E f : /\ FromOne(a, g, m, f)
                /\ \A i \in 2 .. m : f[i - 1] \in Nat
<1>1. PICK h : Iteration(a, g, m, h)
  BY IterationsExist
<1> DEFINE f == [i \in 1 .. m |-> h[i - 1]]
<1>2. IsFunction(f, 1 .. m)
  BY DEF IsFunction
<1>3. f[1] = a
  BY <1>1 DEF Iteration
<1>4. ASSUME NEW i \in 2 .. m
      PROVE  f[i - 1] \in Nat /\ f[i] = g[f[i - 1]]
  <2>1. /\ i - 1 \in 1 .. m /\ (i - 1) - 1 \in 0 .. m
        /\ i \in 1 .. m
    OBVIOUS
  <2>2. f[i] = h[i - 1] /\ f[i - 1] = h[(i - 1) - 1]
    BY <2>1
  <2>3. h[i - 1] = g[h[(i - 1) - 1]] /\ h[(i - 1) - 1] \in Nat
    BY <1>1, <2>1 DEF Iteration
  <2>4. QED
    BY <2>2, <2>3
<1>5. QED
  <2> HIDE DEF f
  <2>1. FromOne(a, g, m, f)
    BY <1>2, <1>3, <1>4 DEF FromOne
  <2>2. QED
    BY <1>4, <2>1

LEMMA FromOneIterates ==
  ASSUME NEW a \in Nat, NEW g \in [Nat -> Nat], NEW m \in Nat \ {0}, NEW f,
         FromOne(a, g, m, f)
  PROVE  f[m] = Iterated(a, g, m - 1)
<1> DEFINE n == m - 1
           h == [i \in 0 .. n |-> f[i + 1]]
<1>1. n \in Nat /\ n + 1 = m
  OBVIOUS
<1> HIDE DEF n
<1>2. IsFunction(h, 0 .. n) /\ h[0] = a
  BY <1>1 DEF IsFunction, FromOne
<1>3. ASSUME NEW i \in 1 .. n, h[i - 1] \in Nat
      PROVE  h[i] = g[h[i - 1]]
  <2>1. /\ i + 1 \in 2 .. m /\ (i + 1) - 1 = i /\ (i - 1) + 1 = i
        /\ i - 1 \in 0 .. n /\ i \in 0 .. n
    BY <1>1
  <2>2. h[i] = f[i + 1] /\ h[i - 1] = f[i]
    BY <2>1
  <2>3. f[i] \in Nat => f[i + 1] = g[f[i]]
    BY <2>1 DEF FromOne
  <2>4. QED
    BY <1>3, <2>2, <2>3
<1>4. h[n] = f[m]
  BY <1>1
<1>5. Iteration(a, g, n, h)
  <2> HIDE DEF h
  <2>1. QED
    BY <1>1, <1>2, <1>3, RecursionIterates
<1>6. Iterated(a, g, n) = h[n]
  <2> HIDE DEF h
  <2>1. QED
    BY <1>1, <1>5, IteratedIs
<1>7. QED
  BY <1>4, <1>6 DEF n

-----------------------------------------------------------------------------
(* The recursions of the delays are iterations of these.                   *)
Twice == [x \in Nat |-> 2 * x]

LEMMA TwoToIterates ==
  ASSUME NEW n \in Nat
  PROVE  TwoTo(n) = Iterated(1, Twice, n)
<1> DEFINE Powers(f) == f = [i \in 0 .. n |-> IF i = 0 THEN 1 ELSE 2 * f[i - 1]]
           power == CHOOSE f : Powers(f)
<1>1. Twice \in [Nat -> Nat]
  BY DEF Twice
<1>2. PICK f : Iteration(1, Twice, n, f)
  BY <1>1, IterationsExist
<1>3. Powers(f)
  <2>1. f = [i \in 0 .. n |-> f[i]] /\ f[0] = 1
    BY <1>2 DEF Iteration
  <2>2. ASSUME NEW i \in 0 .. n, i # 0
        PROVE  f[i] = 2 * f[i - 1]
    <3>1. i \in 1 .. n /\ i - 1 \in 0 .. n
      BY <2>2
    <3>2. f[i] = Twice[f[i - 1]] /\ f[i - 1] \in Nat
      BY <1>2, <3>1 DEF Iteration
    <3>3. QED
      BY <3>2 DEF Twice
  <2>3. QED
    BY <2>1, <2>2
<1>4. ASSUME NEW p, Powers(p)
      PROVE  Iteration(1, Twice, n, p)
  <2>1. DOMAIN p = 0 .. n
    BY <1>4
  <2>2. \A i \in 0 .. n : p[i] = IF i = 0 THEN 1 ELSE 2 * p[i - 1]
    BY <1>4
  <2>3. IsFunction(p, 0 .. n)
    BY <1>4, <2>2 DEF IsFunction
  <2> HIDE DEF Powers
  <2>4. p[0] = 1 /\ \A i \in 1 .. n : p[i - 1] \in Nat => p[i] = Twice[p[i - 1]]
    BY <2>2 DEF Twice
  <2>5. QED
    BY <1>1, <2>3, <2>4, RecursionIterates
<1>5. Iteration(1, Twice, n, power)
  <2> HIDE DEF Powers
  <2>1. QED
    BY <1>3, <1>4
<1>6. TwoTo(n) = power[n]
  BY DEF TwoTo
<1>7. QED
  <2> HIDE DEF power
  <2>1. QED
    BY <1>1, <1>5, <1>6, IteratedIs

Product(rate) == [x \in Nat |-> x * rate]

LEMMA WaitIterates ==
  ASSUME NEW c, c.initial \in Nat, c.rate \in Nat, NEW n \in Nat
  PROVE  /\ Product(c.rate) \in [Nat -> Nat]
         /\ Wait(c, n) = Iterated(c.initial, Product(c.rate), n)
<1> DEFINE a == c.initial
           rate == c.rate
           Waits(f) ==
             f = [i \in 0 .. n |-> IF i = 0 THEN a ELSE f[i - 1] * rate]
           wait == CHOOSE f : Waits(f)
<1>1. Product(rate) \in [Nat -> Nat]
  <2>1. \A x \in Nat : x * rate \in Nat
    OBVIOUS
  <2>2. QED
    BY <2>1 DEF Product
<1>2. PICK f : Iteration(a, Product(rate), n, f)
  BY <1>1, IterationsExist
<1>3. Waits(f)
  <2>1. f = [i \in 0 .. n |-> f[i]] /\ f[0] = a
    BY <1>2 DEF Iteration
  <2>2. ASSUME NEW i \in 0 .. n, i # 0
        PROVE  f[i] = f[i - 1] * rate
    <3>1. i \in 1 .. n /\ i - 1 \in 0 .. n
      BY <2>2
    <3>2. f[i] = Product(rate)[f[i - 1]] /\ f[i - 1] \in Nat
      BY <1>2, <3>1 DEF Iteration
    <3>3. QED
      BY <3>2 DEF Product
  <2>3. QED
    BY <2>1, <2>2
<1>4. ASSUME NEW p, Waits(p)
      PROVE  Iteration(a, Product(rate), n, p)
  <2>1. DOMAIN p = 0 .. n
    BY <1>4
  <2>2. \A i \in 0 .. n : p[i] = IF i = 0 THEN a ELSE p[i - 1] * rate
    BY <1>4
  <2>3. IsFunction(p, 0 .. n)
    BY <1>4, <2>2 DEF IsFunction
  <2> HIDE DEF Waits
  <2>4. /\ p[0] = a
        /\ \A i \in 1 .. n : p[i - 1] \in Nat => p[i] = Product(rate)[p[i - 1]]
    BY <2>2 DEF Product
  <2>5. QED
    BY <1>1, <2>3, <2>4, RecursionIterates
<1>5. Iteration(a, Product(rate), n, wait)
  <2> HIDE DEF Waits
  <2>1. QED
    BY <1>3, <1>4
<1>6. Wait(c, n) = wait[n]
  BY DEF Wait
<1>7. QED
  <2> HIDE DEF wait
  <2>1. QED
    BY <1>1, <1>5, <1>6, IteratedIs

DoubledIn(p) == [x \in Nat |-> Capped(p, 2 * x)]

LEMMA DoubledIterates ==
  ASSUME NEW p, p.base \in Nat, p.max \in Nat, NEW m \in Nat \ {0}
  PROVE  /\ DoubledIn(p) \in [Nat -> Nat]
         /\ Doubled(p, m) = Iterated(p.base, DoubledIn(p), m - 1)
<1> DEFINE a == p.base
           Seconds(f) == f = [i \in 1 .. m |->
                                IF i = 1 THEN a ELSE Capped(p, 2 * f[i - 1])]
           seconds == CHOOSE f : Seconds(f)
<1>1. DoubledIn(p) \in [Nat -> Nat]
  <2>1. \A x \in Nat : Capped(p, 2 * x) \in Nat
    BY DEF Capped
  <2>2. QED
    BY <2>1 DEF DoubledIn
<1>2. PICK f : /\ FromOne(a, DoubledIn(p), m, f)
               /\ \A i \in 2 .. m : f[i - 1] \in Nat
  BY <1>1, FromOneExists
<1>3. Seconds(f)
  <2>1. f = [i \in 1 .. m |-> f[i]]
    BY <1>2 DEF FromOne, IsFunction
  <2>2. ASSUME NEW i \in 1 .. m, i # 1
        PROVE  f[i] = Capped(p, 2 * f[i - 1])
    <3>1. i \in 2 .. m
      BY <2>2
    <3>2. f[i] = DoubledIn(p)[f[i - 1]] /\ f[i - 1] \in Nat
      BY <1>2, <3>1 DEF FromOne
    <3>3. QED
      BY <3>2 DEF DoubledIn
  <2>3. QED
    BY <1>2, <2>1, <2>2 DEF FromOne
<1>4. ASSUME NEW h, Seconds(h)
      PROVE  h[m] = Iterated(a, DoubledIn(p), m - 1)
  <2>1. \A i \in 1 .. m : h[i] = IF i = 1 THEN a ELSE Capped(p, 2 * h[i - 1])
    BY <1>4
  <2>2. IsFunction(h, 1 .. m)
    BY <1>4, <2>1 DEF IsFunction
  <2> HIDE DEF Seconds
  <2>3. h[1] = a
    BY <2>1
  <2>4. \A i \in 2 .. m : h[i - 1] \in Nat => h[i] = DoubledIn(p)[h[i - 1]]
    BY <2>1 DEF DoubledIn
  <2>5. FromOne(a, DoubledIn(p), m, h)
    BY <2>2, <2>3, <2>4 DEF FromOne
  <2>6. QED
    BY <1>1, <2>5, FromOneIterates
<1>5. seconds[m] = Iterated(a, DoubledIn(p), m - 1)
  <2> HIDE DEF Seconds
  <2>1. QED
    BY <1>3, <1>4
<1>6. Doubled(p, m) = seconds[m]
  BY DEF Doubled
<1>7. QED
  BY <1>1, <1>5, <1>6

Grown(c) ==
  [x \in Nat |-> IF x * c.rate > c.max THEN c.max ELSE x * c.rate]

LEMMA IntervalIterates ==
  ASSUME NEW c, c.initial \in Nat, c.rate \in Nat, c.max \in Nat,
         NEW m \in Nat \ {0}
  PROVE  /\ Grown(c) \in [Nat -> Nat]
         /\ DesignInterval(c, m) = Iterated(c.initial, Grown(c), m - 1)
<1> DEFINE a == c.initial
           Intervals(f) ==
             f = [i \in 1 .. m |->
                    IF i = 1 THEN a
                    ELSE IF f[i - 1] * c.rate > c.max THEN c.max
                    ELSE f[i - 1] * c.rate]
           interval == CHOOSE f : Intervals(f)
<1>1. Grown(c) \in [Nat -> Nat]
  <2>1. \A x \in Nat : x * c.rate \in Nat
    OBVIOUS
  <2>2. QED
    BY <2>1 DEF Grown
<1>2. PICK f : /\ FromOne(a, Grown(c), m, f)
               /\ \A i \in 2 .. m : f[i - 1] \in Nat
  BY <1>1, FromOneExists
<1>3. Intervals(f)
  <2>1. f = [i \in 1 .. m |-> f[i]]
    BY <1>2 DEF FromOne, IsFunction
  <2>2. ASSUME NEW i \in 1 .. m, i # 1
        PROVE  f[i] = IF f[i - 1] * c.rate > c.max THEN c.max
                                                   ELSE f[i - 1] * c.rate
    <3>1. i \in 2 .. m
      BY <2>2
    <3>2. f[i] = Grown(c)[f[i - 1]] /\ f[i - 1] \in Nat
      BY <1>2, <3>1 DEF FromOne
    <3>3. QED
      BY <3>2 DEF Grown
  <2>3. QED
    BY <1>2, <2>1, <2>2 DEF FromOne
<1>4. ASSUME NEW h, Intervals(h)
      PROVE  h[m] = Iterated(a, Grown(c), m - 1)
  <2>1. \A i \in 1 .. m :
          h[i] = IF i = 1 THEN a
                 ELSE IF h[i - 1] * c.rate > c.max THEN c.max
                 ELSE h[i - 1] * c.rate
    BY <1>4
  <2>2. IsFunction(h, 1 .. m)
    BY <1>4, <2>1 DEF IsFunction
  <2> HIDE DEF Intervals
  <2>3. h[1] = a
    BY <2>1
  <2>4. \A i \in 2 .. m : h[i - 1] \in Nat => h[i] = Grown(c)[h[i - 1]]
    BY <2>1 DEF Grown
  <2>5. FromOne(a, Grown(c), m, h)
    BY <2>2, <2>3, <2>4 DEF FromOne
  <2>6. QED
    BY <1>1, <2>5, FromOneIterates
<1>5. interval[m] = Iterated(a, Grown(c), m - 1)
  <2> HIDE DEF Intervals
  <2>1. QED
    BY <1>3, <1>4
<1>6. DesignInterval(c, m) = interval[m]
  BY DEF DesignInterval
<1>7. QED
  BY <1>1, <1>5, <1>6
-----------------------------------------------------------------------------
(* Doubling and capping at each step is doubling first and capping once.   *)
LEMMA DoublingIsCapped ==
  ASSUME NEW p, p.base \in Nat, p.max \in Nat, p.max = 0 \/ p.base <= p.max,
         NEW m \in Nat \ {0}
  PROVE  /\ TwoTo(m - 1) \in Nat \ {0}
         /\ Doubled(p, m) = IF p.max = 0 \/ p.base * TwoTo(m - 1) <= p.max
                              THEN p.base * TwoTo(m - 1) ELSE p.max
<1> DEFINE n == m - 1
           d(k) == Iterated(p.base, DoubledIn(p), k)
           t(k) == Iterated(1, Twice, k)
           G == {k \in 0 .. n :
                   /\ t(k) \in Nat \ {0} /\ d(k) \in Nat
                   /\ p.max = 0 \/ p.base * t(k) <= p.max => d(k) = p.base * t(k)
                   /\ ~(p.max = 0 \/ p.base * t(k) <= p.max) => d(k) = p.max}
<1>1. n \in Nat
  OBVIOUS
<1>2. Twice \in [Nat -> Nat] /\ DoubledIn(p) \in [Nat -> Nat]
  BY DoubledIterates DEF Twice
<1>3. /\ d(0) = p.base /\ t(0) = 1
      /\ \A k \in Nat : d(k + 1) = DoubledIn(p)[d(k)] /\ t(k + 1) = Twice[t(k)]
  BY ZenonT(60), <1>2, IteratedFacts
<1> HIDE DEF d, t, n
<1>4. 0 \in G
  BY <1>1, <1>3
<1>5. ASSUME NEW k \in G, k < n
      PROVE  k + 1 \in G
  <2>1. t(k) \in Nat \ {0} /\ d(k) \in Nat /\ k \in Nat /\ k + 1 \in 0 .. n
    BY <1>1, <1>5
  <2>2. t(k + 1) = 2 * t(k) /\ d(k + 1) = Capped(p, 2 * d(k))
    BY <1>3, <2>1 DEF Twice, DoubledIn
  <2> DEFINE x == p.base * t(k)
             y == p.base * t(k + 1)
  <2>3. x \in Nat /\ y = 2 * x
    BY <2>1, <2>2
  <2>4. /\ p.max = 0 \/ x <= p.max => d(k) = x
        /\ ~(p.max = 0 \/ x <= p.max) => d(k) = p.max
    BY <1>5
  <2> HIDE DEF x, y
  <2>5. /\ p.max = 0 \/ y <= p.max => d(k + 1) = y
        /\ ~(p.max = 0 \/ y <= p.max) => d(k + 1) = p.max
    BY <2>1, <2>2, <2>3, <2>4 DEF Capped
  <2>6. t(k + 1) \in Nat \ {0} /\ d(k + 1) \in Nat
    BY <2>1, <2>2 DEF Capped
  <2>7. QED
    BY <2>1, <2>5, <2>6 DEF y
<1>6. n \in G
  <2>1. G \in SUBSET (0 .. n) /\ n \in 0 .. n
    BY <1>1
  <2> HIDE DEF G
  <2>2. QED
    BY <1>1, <1>4, <1>5, <2>1, IntervalInduction
<1>7. Doubled(p, m) = d(n) /\ TwoTo(n) = t(n)
  BY <1>1, DoubledIterates, TwoToIterates DEF d, t, n
<1>8. QED
  BY <1>6, <1>7 DEF n

(* So is multiplying by the rate, as long as the first wait is no longer   *)
(* than the longest one.                                                   *)
LEMMA WaitingIsCapped ==
  ASSUME NEW c, c.initial \in Nat, c.rate \in Nat, c.max \in Nat,
         c.initial <= c.max, NEW n \in Nat
  PROVE  /\ Wait(c, n) \in Nat
         /\ DesignInterval(c, n + 1) =
              IF Wait(c, n) > c.max THEN c.max ELSE Wait(c, n)
<1> DEFINE d(k) == Iterated(c.initial, Grown(c), k)
           w(k) == Iterated(c.initial, Product(c.rate), k)
           G == {k \in 0 .. n :
                   /\ w(k) \in Nat /\ d(k) \in Nat
                   /\ w(k) <= c.max => d(k) = w(k)
                   /\ ~(w(k) <= c.max) => d(k) = c.max}
<1>1. Product(c.rate) \in [Nat -> Nat] /\ Grown(c) \in [Nat -> Nat]
  <2>1. 1 \in Nat \ {0}
    OBVIOUS
  <2>2. QED
    BY <2>1, WaitIterates, IntervalIterates
<1>2. /\ d(0) = c.initial /\ w(0) = c.initial
      /\ \A k \in Nat : /\ d(k + 1) = Grown(c)[d(k)]
                        /\ w(k + 1) = Product(c.rate)[w(k)]
  BY ZenonT(60), <1>1, IteratedFacts
<1> HIDE DEF d, w
<1>3. 0 \in G
  BY <1>2
<1>4. ASSUME NEW k \in G, k < n
      PROVE  k + 1 \in G
  <2>1. w(k) \in Nat /\ d(k) \in Nat /\ k \in Nat /\ k + 1 \in 0 .. n
    BY <1>4
  <2> DEFINE x == w(k) * c.rate
             y == d(k) * c.rate
  <2>2. x \in Nat /\ y \in Nat
    BY <2>1
  <2>3. w(k + 1) = x /\ d(k + 1) = IF y > c.max THEN c.max ELSE y
    BY <1>2, <2>1 DEF Product, Grown
  <2>4. CASE w(k) <= c.max
    <3>1. x = y
      BY <1>4, <2>4
    <3> HIDE DEF x, y
    <3>2. QED
      BY <2>1, <2>2, <2>3, <3>1
  <2>5. CASE ~(w(k) <= c.max)
    <3>1. CASE c.rate = 0
      <4>1. x = 0 /\ y = 0
        BY <2>1, <3>1
      <4> HIDE DEF x, y
      <4>2. QED
        BY <2>1, <2>2, <2>3, <4>1
    <3>2. CASE c.rate # 0
      <4>1. x >= w(k) /\ y >= c.max
        <5>1. d(k) = c.max
          BY <1>4, <2>5
        <5>2. \A i \in Nat : i * c.rate >= i
          BY <3>2
        <5>3. QED
          BY <2>1, <5>1, <5>2
      <4> HIDE DEF x, y
      <4>2. ~(x <= c.max) /\ d(k + 1) = c.max
        BY <2>1, <2>2, <2>3, <2>5, <4>1
      <4>3. QED
        BY <2>1, <2>2, <2>3, <4>2
    <3>3. QED
      BY <3>1, <3>2
  <2>6. QED
    BY <2>4, <2>5
<1>5. n \in G
  <2>1. G \in SUBSET (0 .. n) /\ n \in 0 .. n
    OBVIOUS
  <2> HIDE DEF G
  <2>2. QED
    BY <1>3, <1>4, <2>1, IntervalInduction
<1>6. Wait(c, n) = w(n)
  BY WaitIterates DEF w
<1>7. DesignInterval(c, n + 1) = d(n)
  <2>1. n + 1 \in Nat \ {0} /\ (n + 1) - 1 = n
    OBVIOUS
  <2>2. DesignInterval(c, n + 1) = Iterated(c.initial, Grown(c), (n + 1) - 1)
    BY <2>1, IntervalIterates
  <2>3. QED
    BY <2>1, <2>2 DEF d
<1>8. QED
  BY <1>5, <1>6, <1>7

-----------------------------------------------------------------------------
(* The first value of a policy or a configuration is within its cap.       *)
StartsWithinCap ==
  /\ \A p \in Policies :
       p.kind = "exponential" => p.max = 0 \/ p.base <= p.max
  /\ \A c \in Configs : c.initial <= c.max

(* Every wait fits a duration before it is capped.                         *)
NoWaitOverflows ==
  \A c \in Configs : \A n \in 0 .. (MaxAttempts - 1) :
    Wait(c, n) <= GreatestDuration

PolicyInv == policy \in Policies /\ failureCount \in Nat /\ MatchesFormula

BackoffInv ==
  config \in Configs /\ attempt \in 0 .. MaxAttempts /\ FollowsDesign

LEMMA FailureMatches ==
  ASSUME StartsWithinCap, PolicyInv, Failure
  PROVE  PolicyInv'
<1>1. /\ policy \in Policies /\ policy' = policy
      /\ failureCount' \in Nat \ {0}
      /\ duration' = CalculateCooldown(policy, failureCount')
  BY DEF PolicyInv, Failure
<1>2. /\ policy.base \in Nat /\ policy.max \in Nat
      /\ policy.kind \in {"fixed", "linear", "exponential"}
      /\ policy.kind = "fixed" => policy.max = 0
      /\ policy.kind = "exponential" =>
           policy.max = 0 \/ policy.base <= policy.max
  BY <1>1, PoliciesAssumption DEF StartsWithinCap
<1>3. CASE policy.kind = "fixed"
  BY <1>1, <1>2, <1>3 DEF PolicyInv, MatchesFormula, Formula, CalculateCooldown
<1>4. CASE policy.kind = "linear"
  <2> DEFINE x == policy.base * failureCount'
  <2>1. x \in Nat
    BY <1>1, <1>2
  <2>2. Formula' = x /\ duration' = Capped(policy, x)
    BY <1>1, <1>4 DEF Formula, CalculateCooldown
  <2> HIDE DEF x
  <2>3. QED
    BY <1>1, <1>2, <2>1, <2>2 DEF PolicyInv, MatchesFormula, Capped
<1>5. CASE policy.kind = "exponential"
  <2>1. Formula' = policy.base * TwoTo(failureCount' - 1)
    BY <1>1, <1>5 DEF Formula
  <2>2. duration' = Doubled(policy, failureCount')
    BY <1>1, <1>5 DEF CalculateCooldown
  <2>3. duration' = IF policy.max = 0 \/ Formula' <= policy.max
                      THEN Formula' ELSE policy.max
    BY <1>1, <1>2, <1>5, <2>1, <2>2, DoublingIsCapped
  <2>4. QED
    BY <1>1, <2>3 DEF PolicyInv, MatchesFormula
<1>6. QED
  BY <1>2, <1>3, <1>4, <1>5

LEMMA RetryWaitFollows ==
  ASSUME StartsWithinCap, NoWaitOverflows, BackoffInv, RetryWait
  PROVE  BackoffInv'
<1>1. /\ config \in Configs /\ config' = config
      /\ attempt \in Nat /\ attempt < MaxAttempts
      /\ attempt' = attempt + 1
      /\ waitTime' \in CalculateBackoff(attempt)
  BY DEF BackoffInv, RetryWait
<1>2. /\ config.initial \in Nat /\ config.rate \in Nat /\ config.max \in Nat
      /\ config.initial <= config.max /\ MaxAttempts \in Nat
  BY <1>1, ConfigsAssumption DEF StartsWithinCap
<1>3. attempt \in 0 .. (MaxAttempts - 1) /\ attempt' \in 0 .. MaxAttempts
  BY <1>1, <1>2
<1>4. Durations(Wait(config, attempt)) = {Wait(config, attempt)}
  BY <1>1, <1>3 DEF Durations, NoWaitOverflows
<1>5. waitTime' = IF Wait(config, attempt) > config.max
                    THEN config.max ELSE Wait(config, attempt)
  BY <1>1, <1>4 DEF CalculateBackoff
<1>6. waitTime' = DesignInterval(config, attempt + 1)
  BY <1>1, <1>2, <1>5, WaitingIsCapped
<1>7. QED
  BY <1>1, <1>3, <1>6 DEF BackoffInv, FollowsDesign

(* Both delays follow their design at every failure and every attempt, for *)
(* all policies and configurations whose first value is within the cap, as *)
(* long as no wait overflows before it is capped.                          *)
THEOREM DelaysAlwaysFollowDesign ==
  ASSUME StartsWithinCap, NoWaitOverflows
  PROVE  DelaysSpec => []DelaysFollowDesign
<1>1. PolicyInit /\ BackoffInit => PolicyInv /\ BackoffInv
  BY ConfigsAssumption
  DEF PolicyInit, BackoffInit, PolicyInv, BackoffInv, MatchesFormula, FollowsDesign
<1>2. /\ PolicyInv /\ BackoffInv
      /\ [Failure]_policyVars /\ [RetryWait]_backoffVars
      => PolicyInv' /\ BackoffInv'
  <2>1. SUFFICES ASSUME PolicyInv, BackoffInv,
                        [Failure]_policyVars, [RetryWait]_backoffVars
                 PROVE  PolicyInv' /\ BackoffInv'
    OBVIOUS
  <2>3. PolicyInv'
    <3>1. CASE UNCHANGED policyVars
      BY <2>1, <3>1 DEF policyVars, PolicyInv, MatchesFormula, Formula
    <3>2. QED
      BY <2>1, <3>1, FailureMatches
  <2>4. BackoffInv'
    <3>1. CASE UNCHANGED backoffVars
      BY <2>1, <3>1 DEF backoffVars, BackoffInv, FollowsDesign
    <3>2. QED
      BY <2>1, <3>1, RetryWaitFollows
  <2>5. QED
    BY <2>3, <2>4
<1>3. PolicyInv /\ BackoffInv => DelaysFollowDesign
  BY DEF PolicyInv, BackoffInv, DelaysFollowDesign
<1>4. QED
  BY <1>1, <1>2, <1>3, PTL DEF DelaysSpec, PolicySpec, BackoffSpec

(* No default policy, and none for a reason without one, gives a cooldown  *)
(* that is none or longer than an hour, however often a provider fails.    *)
THEOREM DefaultsAlwaysBlock ==
  ASSUME NEW reason, NEW n \in Nat \ {0}
  PROVE  CalculateCooldown(PolicyFor(reason), n) \in 1 .. 3600
<1> DEFINE p == PolicyFor(reason)
<1>1. \/ \E s \in {5, 300, 3600} : p = Fixed(s)
      \/ \E m \in {300, 600} : p = Linear(5, m)
      \/ p = Exponential(5, 1800)
  BY DEF PolicyFor, DefaultPolicies
<1> HIDE DEF p
<1>2. ASSUME NEW s \in {5, 300, 3600}, p = Fixed(s)
      PROVE  CalculateCooldown(p, n) \in 1 .. 3600
  BY <1>2 DEF Fixed, CalculateCooldown
<1>3. ASSUME NEW m \in {300, 600}, p = Linear(5, m)
      PROVE  CalculateCooldown(p, n) \in 1 .. 3600
  BY <1>3 DEF Linear, CalculateCooldown, Capped
<1>4. ASSUME p = Exponential(5, 1800)
      PROVE  CalculateCooldown(p, n) \in 1 .. 3600
  <2>1. p.base = 5 /\ p.max = 1800 /\ p.kind = "exponential"
    BY <1>4 DEF Exponential
  <2>2. CalculateCooldown(p, n) = Doubled(p, n)
    BY <2>1 DEF CalculateCooldown
  <2>3. /\ TwoTo(n - 1) \in Nat \ {0}
        /\ Doubled(p, n) = IF p.max = 0 \/ p.base * TwoTo(n - 1) <= p.max
                             THEN p.base * TwoTo(n - 1) ELSE p.max
    BY <2>1, DoublingIsCapped
  <2>4. QED
    BY <2>1, <2>2, <2>3
<1>5. QED
  BY SMTT(30), <1>1, <1>2, <1>3, <1>4 DEF p

-----------------------------------------------------------------------------
(* The invariant of the tracker.  Its counters count the requests between  *)
(* the operations that raise and lower them.                               *)
Joined == {r \in Requests : request[r] \in {"added", "working", "uncounted"}}
Working == {r \in Requests : request[r] = "working"}

(* What a shutdown has seen stays true of the requests it waits for: those *)
(* that were at work when the flag was set only move on.                   *)
Past == {"uncounted", "notifying", "gone"}

EarlyInv ==
  /\ early # {} => isShutdown
  /\ \A r \in early : request[r] \in {"working"} \cup Past

ShutdownInv(s) ==
  /\ shutdown[s] \notin {"idle", "noticed"} => isShutdown
  /\ done[s] => /\ shutdown[s] \notin {"idle", "noticed"}
                /\ \A r \in early : request[r] # "working"
  /\ shutdown[s] = "clean" => \A r \in early : request[r] # "working"

TrackerInv ==
  /\ TrackerTypeOK
  /\ wg = Cardinality(Joined) /\ activeCount = Cardinality(Working)
  /\ EarlyInv
  /\ \A s \in Shutdowns : ShutdownInv(s)

(* The invariant of the admission.  A request is in ingress while it is at *)
(* work, and has been answered when it leaves; those in the queue are the  *)
(* ones that wait, each once, and there is a queue only for full slots.    *)
StageInv(r) ==
  /\ stage[r] \in {"queued", "serving"} => request[r] = "working"
  /\ request[r] \in Past => stage[r] = "answered"
  /\ r \in holding => stage[r] = "serving"
  /\ stage[r] = "queued" => \E i \in DOMAIN queue : queue[i] = r

QueueInv ==
  /\ \A i \in DOMAIN queue : stage[queue[i]] = "queued"
  /\ \A i, j \in DOMAIN queue : queue[i] = queue[j] => i = j
  /\ Cardinality(holding) <= UploadSlots
  /\ queue # <<>> => Cardinality(holding) = UploadSlots

IngressTypeOK ==
  /\ stage \in [Requests -> {"new", "queued", "serving", "answered"}]
  /\ holding \subseteq Requests
  /\ queue \in Seq(Requests)

IngressInv ==
  /\ TrackerInv
  /\ IngressTypeOK
  /\ \A r \in Requests : StageInv(r)
  /\ QueueInv

-----------------------------------------------------------------------------
(* Counting.                                                               *)
LEMMA FiniteNow ==
  /\ \A S \in SUBSET Requests : IsFiniteSet(S) /\ Cardinality(S) \in Nat
  /\ Joined \subseteq Requests /\ Working \subseteq Requests
  /\ Joined' \subseteq Requests /\ Working' \subseteq Requests
<1>1. \A S \in SUBSET Requests : IsFiniteSet(S) /\ Cardinality(S) \in Nat
  BY TrackerAssumption, FS_Subset, FS_CardinalityType
<1>2. QED
  BY <1>1 DEF Joined, Working

(* One request moves from one phase to another one.                        *)
LEMMA MoveCounts ==
  ASSUME TrackerInv, NEW r \in Requests, NEW from, NEW to \in RequestPhase,
         Move(r, from, to)
  PROVE  /\ request' \in [Requests -> RequestPhase]
         /\ request'[r] = to /\ \A q \in Requests \ {r} : request'[q] = request[q]
         /\ from = request[r] /\ shutdown' = shutdown
         /\ Cardinality(Joined') =
              Cardinality(Joined)
                + IF r \in Joined' THEN (IF r \in Joined THEN 0 ELSE 1)
                  ELSE (IF r \in Joined THEN -1 ELSE 0)
         /\ Cardinality(Working') =
              Cardinality(Working)
                + IF r \in Working' THEN (IF r \in Working THEN 0 ELSE 1)
                  ELSE (IF r \in Working THEN -1 ELSE 0)
<1>1. /\ request' \in [Requests -> RequestPhase]
      /\ request'[r] = to /\ \A q \in Requests \ {r} : request'[q] = request[q]
      /\ from = request[r] /\ shutdown' = shutdown
  BY DEF TrackerInv, TrackerTypeOK, Move
<1>2. Joined' = IF r \in Joined' THEN Joined \cup {r} ELSE Joined \ {r}
  BY <1>1 DEF Joined
<1>3. Working' = IF r \in Working' THEN Working \cup {r} ELSE Working \ {r}
  BY <1>1 DEF Working
<1>4. ASSUME NEW S \in SUBSET Requests, NEW T \in SUBSET Requests,
             T = IF r \in T THEN S \cup {r} ELSE S \ {r}
      PROVE  Cardinality(T) =
               Cardinality(S) + IF r \in T THEN (IF r \in S THEN 0 ELSE 1)
                                ELSE (IF r \in S THEN -1 ELSE 0)
  <2>1. IsFiniteSet(S) /\ Cardinality(S) \in Nat
    BY FiniteNow
  <2>2. CASE r \in T
    BY <1>4, <2>1, <2>2, FS_AddElement
  <2>3. CASE r \notin T
    <3>1. T = S \ {r}
      BY <1>4, <2>3
    <3>2. Cardinality(T) = IF r \in S THEN Cardinality(S) - 1 ELSE Cardinality(S)
      BY <2>1, <3>1, FS_RemoveElement
    <3>3. QED
      BY <2>1, <2>3, <3>2
  <2>4. QED
    BY <2>2, <2>3
<1>5. QED
  BY <1>1, <1>2, <1>3, <1>4, FiniteNow

-----------------------------------------------------------------------------
(* The tracker.                                                            *)
LEMMA TrackerInit ==
  Init => TrackerInv
<1> SUFFICES ASSUME Init PROVE TrackerInv
  OBVIOUS
<1>1. Joined = {} /\ Working = {}
  BY DEF Init, Joined, Working
<1>2. TrackerTypeOK
  <2>1. 0 \in 0 .. NotifyCap
    BY TrackerAssumption
  <2>2. QED
    BY <2>1 DEF Init, TrackerTypeOK, RequestPhase, ShutdownPhase
<1>3. EarlyInv /\ \A s \in Shutdowns : ShutdownInv(s)
  BY DEF Init, EarlyInv, ShutdownInv
<1>4. wg = Cardinality(Joined) /\ activeCount = Cardinality(Working)
  BY <1>1, FS_EmptySet DEF Init
<1>5. QED
  BY <1>2, <1>3, <1>4 DEF TrackerInv

(* A request that moves on leaves what the shutdowns saw as it was: it is  *)
(* not at work again.                                                      *)
LEMMA ShutdownsUndisturbed ==
  ASSUME TrackerInv, NEW r \in Requests,
         \A q \in Requests \ {r} : request'[q] = request[q],
         request'[r] = "working" => request[r] = "added",
         request[r] \in {"working"} \cup Past => request'[r] \in Past,
         UNCHANGED <<shutdown, done, isShutdown, early>>
  PROVE  EarlyInv' /\ \A s \in Shutdowns : ShutdownInv(s)'
<1>1. early \subseteq Requests
  BY DEF TrackerInv, TrackerTypeOK
<1>2. ASSUME NEW q \in early
      PROVE  /\ request'[q] \in {"working"} \cup Past
             /\ request[q] # "working" => request'[q] # "working"
  BY <1>1, <1>2 DEF TrackerInv, EarlyInv, Past
<1>3. EarlyInv'
  BY <1>2 DEF TrackerInv, EarlyInv
<1>4. \A s \in Shutdowns : ShutdownInv(s)'
  BY <1>2 DEF TrackerInv, ShutdownInv
<1>5. QED
  BY <1>3, <1>4

LEMMA RequestSteps ==
  ASSUME TrackerInv, NEW r \in Requests, Enter(r) \/ DoneUncount(r) \/ Leave(r)
  PROVE  TrackerInv'
<1>1. /\ wg = Cardinality(Joined) /\ activeCount = Cardinality(Working)
      /\ TrackerTypeOK /\ wg \in Nat /\ activeCount \in Nat /\ NotifyCap \in Nat
  BY TrackerAssumption DEF TrackerInv, TrackerTypeOK
<1>2. Cardinality(Joined') \in Nat /\ Cardinality(Working') \in Nat
  BY FiniteNow
<1>3. CASE AddCheck(r)
  <2>1. PICK to \in {"refused", "checked"} : Move(r, "new", to)
    BY <1>3 DEF AddCheck
  <2>2. UNCHANGED <<counters, flags>> /\ to \in RequestPhase
    BY <1>3 DEF AddCheck, RequestPhase
  <2>3. r \notin Joined /\ r \notin Working /\ r \notin Joined' /\ r \notin Working'
    <3>1. request[r] = "new" /\ request'[r] = to
      BY <2>1, <2>2, MoveCounts
    <3>2. QED
      BY <2>1, <3>1 DEF Joined, Working
  <2>4. wg' = Cardinality(Joined') /\ activeCount' = Cardinality(Working')
    BY <1>1, <2>1, <2>2, <2>3, MoveCounts DEF counters
  <2>5. EarlyInv' /\ \A s \in Shutdowns : ShutdownInv(s)'
    BY <2>1, <2>2, MoveCounts, ShutdownsUndisturbed DEF flags, Past
  <2>6. TrackerTypeOK'
    BY <1>1, <2>1, <2>2, MoveCounts DEF TrackerTypeOK, counters, flags
  <2>7. QED
    BY <2>4, <2>5, <2>6 DEF TrackerInv
<1>4. CASE AddJoin(r)
  <2>1. Move(r, "checked", "added") /\ "added" \in RequestPhase
    BY <1>4 DEF AddJoin, RequestPhase
  <2>2. r \notin Joined /\ r \notin Working /\ r \in Joined' /\ r \notin Working'
    <3>1. request[r] = "checked" /\ request'[r] = "added"
      BY <2>1, MoveCounts
    <3>2. QED
      BY <3>1 DEF Joined, Working
  <2>3. wg' = Cardinality(Joined') /\ activeCount' = Cardinality(Working')
    BY <1>1, <1>4, <2>1, <2>2, MoveCounts DEF AddJoin
  <2>4. EarlyInv' /\ \A s \in Shutdowns : ShutdownInv(s)'
    BY <1>4, <2>1, MoveCounts, ShutdownsUndisturbed DEF AddJoin, flags, Past
  <2>5. TrackerTypeOK'
    BY <1>1, <1>4, <2>1, MoveCounts DEF AddJoin, TrackerTypeOK, flags
  <2>6. QED
    BY <2>3, <2>4, <2>5 DEF TrackerInv
<1>5. CASE AddCount(r)
  <2>1. Move(r, "added", "working") /\ "working" \in RequestPhase
    BY <1>5 DEF AddCount, RequestPhase
  <2>2. r \in Joined /\ r \notin Working /\ r \in Joined' /\ r \in Working'
    <3>1. request[r] = "added" /\ request'[r] = "working"
      BY <2>1, MoveCounts
    <3>2. QED
      BY <3>1 DEF Joined, Working
  <2>3. wg' = Cardinality(Joined') /\ activeCount' = Cardinality(Working')
    BY <1>1, <1>5, <2>1, <2>2, MoveCounts DEF AddCount
  <2>4. EarlyInv' /\ \A s \in Shutdowns : ShutdownInv(s)'
    BY <1>5, <2>1, MoveCounts, ShutdownsUndisturbed DEF AddCount, flags, Past
  <2>5. TrackerTypeOK'
    BY <1>1, <1>5, <2>1, MoveCounts DEF AddCount, TrackerTypeOK, flags
  <2>6. QED
    BY <2>3, <2>4, <2>5 DEF TrackerInv
<1>6. CASE DoneUncount(r)
  <2>1. Move(r, "working", "uncounted") /\ "uncounted" \in RequestPhase
    BY <1>6 DEF DoneUncount, RequestPhase
  <2>2. r \in Joined /\ r \in Working /\ r \in Joined' /\ r \notin Working'
    <3>1. request[r] = "working" /\ request'[r] = "uncounted"
      BY <2>1, MoveCounts
    <3>2. QED
      BY <3>1 DEF Joined, Working
  <2>3. wg' = Cardinality(Joined') /\ activeCount' = Cardinality(Working')
    BY <1>1, <1>6, <2>1, <2>2, MoveCounts DEF DoneUncount
  <2>4. EarlyInv' /\ \A s \in Shutdowns : ShutdownInv(s)'
    BY <1>6, <2>1, MoveCounts, ShutdownsUndisturbed DEF DoneUncount, flags, Past
  <2>5. TrackerTypeOK'
    BY <1>1, <1>2, <1>6, <2>1, <2>3, MoveCounts DEF DoneUncount, TrackerTypeOK, flags
  <2>6. QED
    BY <2>3, <2>4, <2>5 DEF TrackerInv
<1>7. CASE DoneLeave(r)
  <2>1. Move(r, "uncounted", "notifying") /\ "notifying" \in RequestPhase
    BY <1>7 DEF DoneLeave, RequestPhase
  <2>2. r \in Joined /\ r \notin Working /\ r \notin Joined' /\ r \notin Working'
    <3>1. request[r] = "uncounted" /\ request'[r] = "notifying"
      BY <2>1, MoveCounts
    <3>2. QED
      BY <3>1 DEF Joined, Working
  <2>3. wg' = Cardinality(Joined') /\ activeCount' = Cardinality(Working')
    BY <1>1, <1>7, <2>1, <2>2, MoveCounts DEF DoneLeave
  <2>4. EarlyInv' /\ \A s \in Shutdowns : ShutdownInv(s)'
    BY <1>7, <2>1, MoveCounts, ShutdownsUndisturbed DEF DoneLeave, flags, Past
  <2>5. TrackerTypeOK'
    BY <1>1, <1>2, <1>7, <2>1, <2>3, MoveCounts DEF DoneLeave, TrackerTypeOK, flags
  <2>6. QED
    BY <2>3, <2>4, <2>5 DEF TrackerInv
<1>8. CASE DoneNotify(r)
  <2>1. Move(r, "notifying", "gone") /\ "gone" \in RequestPhase
    BY <1>8 DEF DoneNotify, RequestPhase
  <2>2. r \notin Joined /\ r \notin Working /\ r \notin Joined' /\ r \notin Working'
    <3>1. request[r] = "notifying" /\ request'[r] = "gone"
      BY <2>1, MoveCounts
    <3>2. QED
      BY <3>1 DEF Joined, Working
  <2>3. wg' = Cardinality(Joined') /\ activeCount' = Cardinality(Working')
    BY <1>1, <1>8, <2>1, <2>2, MoveCounts DEF DoneNotify, counters
  <2>4. EarlyInv' /\ \A s \in Shutdowns : ShutdownInv(s)'
    BY <1>8, <2>1, MoveCounts, ShutdownsUndisturbed DEF DoneNotify, Past
  <2>5. notifyCh' \in 0 .. NotifyCap
    BY <1>1, <1>8 DEF DoneNotify, TrackerTypeOK
  <2>6. TrackerTypeOK'
    BY <1>1, <1>8, <2>1, <2>5, MoveCounts DEF DoneNotify, TrackerTypeOK, counters
  <2>7. QED
    BY <2>3, <2>4, <2>6 DEF TrackerInv
<1>9. QED
  BY <1>3, <1>4, <1>5, <1>6, <1>7, <1>8 DEF Enter, Leave

(* The steps of a shutdown leave the requests and their counters alone.    *)
LEMMA ShutdownSteps ==
  ASSUME TrackerInv, NEW s \in Shutdowns,
         MakeNotifyCh(s) \/ Progress(s) \/ WaitGroupEmpty(s) \/ SelectDeadline(s)
  PROVE  TrackerInv'
<1>1. /\ wg = Cardinality(Joined) /\ activeCount = Cardinality(Working)
      /\ TrackerTypeOK /\ EarlyInv /\ \A t \in Shutdowns : ShutdownInv(t)
      /\ NotifyCap \in Nat
  BY TrackerAssumption DEF TrackerInv
<1>2. UNCHANGED <<request, counters>>
  BY DEF MakeNotifyCh, Progress, MarkShutdown, CloseShutdownCh, CheckCount, SelectDone,
         SelectNotify, Drained, SelectDeadline, Step, WaitGroupEmpty
<1>3. Joined' = Joined /\ Working' = Working /\ wg' = wg /\ activeCount' = activeCount
  BY <1>2 DEF Joined, Working, counters
<1>4. activeCount = 0 => Working = {}
  BY <1>1, FiniteNow, FS_EmptySet
<1>5. wg = 0 => Joined = {}
  BY <1>1, FiniteNow, FS_EmptySet
<1>6. early \subseteq Requests
  BY <1>1 DEF TrackerTypeOK
<1>7. activeCount = 0 => \A r \in early : request[r] # "working"
  BY <1>4, <1>6 DEF Working
<1>8. wg = 0 => \A r \in early : request[r] # "working"
  BY <1>5, <1>6 DEF Joined
<1>9. TrackerTypeOK'
  <2>1. CASE MakeNotifyCh(s)
    BY <1>1, <1>3, <1>2, <2>1 DEF MakeNotifyCh, Step, TrackerTypeOK, ShutdownPhase
  <2>2. CASE MarkShutdown(s)
    BY <1>1, <1>3, <1>2, <2>2 DEF MarkShutdown, Step, TrackerTypeOK, ShutdownPhase
  <2>3. CASE CloseShutdownCh(s)
    BY <1>1, <1>3, <1>2, <2>3 DEF CloseShutdownCh, Step, TrackerTypeOK, ShutdownPhase
  <2>4. CASE CheckCount(s)
    BY <1>1, <1>3, <1>2, <2>4 DEF CheckCount, Step, TrackerTypeOK, ShutdownPhase, flags
  <2>5. CASE SelectDone(s)
    BY <1>1, <1>3, <1>2, <2>5 DEF SelectDone, Step, TrackerTypeOK, ShutdownPhase, flags
  <2>6. CASE SelectNotify(s)
    <3>1. notifyCh' \in 0 .. NotifyCap
      BY <1>1, <2>6 DEF SelectNotify, TrackerTypeOK
    <3>2. QED
      BY <1>1, <1>3, <1>2, <2>6, <3>1 DEF SelectNotify, Step, TrackerTypeOK, ShutdownPhase
  <2>7. CASE Drained(s)
    BY <1>1, <1>3, <1>2, <2>7 DEF Drained, Step, TrackerTypeOK, ShutdownPhase, flags
  <2>8. CASE SelectDeadline(s)
    BY <1>1, <1>3, <1>2, <2>8 DEF SelectDeadline, Step, TrackerTypeOK, ShutdownPhase, flags
  <2>9. CASE WaitGroupEmpty(s)
    BY <1>1, <1>3, <1>2, <2>9 DEF WaitGroupEmpty, TrackerTypeOK
  <2>10. QED
    BY <2>1, <2>2, <2>3, <2>4, <2>5, <2>6, <2>7, <2>8, <2>9 DEF Progress
<1>10. EarlyInv' /\ \A t \in Shutdowns : ShutdownInv(t)'
  <2>1. CASE MakeNotifyCh(s)
    BY <1>1, <1>2, <2>1 DEF MakeNotifyCh, Step, TrackerTypeOK, EarlyInv, ShutdownInv
  <2>2. CASE MarkShutdown(s)
    <3>1. early' = early \/ (~isShutdown /\ early' = Working)
      BY <2>2 DEF MarkShutdown, Working
    <3>2. EarlyInv'
      BY <1>1, <1>2, <2>2, <3>1 DEF MarkShutdown, EarlyInv, Working
    <3>3. \A t \in Shutdowns : ShutdownInv(t)'
      BY <1>1, <1>2, <2>2, <3>1 DEF MarkShutdown, Step, TrackerTypeOK, ShutdownInv
    <3>4. QED
      BY <3>2, <3>3
  <2>3. CASE CloseShutdownCh(s)
    BY <1>1, <1>2, <2>3 DEF CloseShutdownCh, Step, TrackerTypeOK, EarlyInv, ShutdownInv
  <2>4. CASE CheckCount(s)
    BY <1>1, <1>2, <1>7, <2>4 DEF CheckCount, Step, TrackerTypeOK, EarlyInv, ShutdownInv, flags
  <2>5. CASE SelectDone(s)
    BY <1>1, <1>2, <2>5 DEF SelectDone, Step, TrackerTypeOK, EarlyInv, ShutdownInv, flags
  <2>6. CASE SelectNotify(s)
    BY <1>1, <1>2, <2>6 DEF SelectNotify, Step, TrackerTypeOK, EarlyInv, ShutdownInv
  <2>7. CASE Drained(s)
    BY <1>1, <1>2, <2>7 DEF Drained, Step, TrackerTypeOK, EarlyInv, ShutdownInv, flags
  <2>8. CASE SelectDeadline(s)
    BY <1>1, <1>2, <2>8 DEF SelectDeadline, Step, TrackerTypeOK, EarlyInv, ShutdownInv, flags
  <2>9. CASE WaitGroupEmpty(s)
    BY <1>1, <1>2, <1>8, <2>9 DEF WaitGroupEmpty, TrackerTypeOK, EarlyInv, ShutdownInv
  <2>10. QED
    BY <2>1, <2>2, <2>3, <2>4, <2>5, <2>6, <2>7, <2>8, <2>9 DEF Progress
<1>11. QED
  BY <1>1, <1>3, <1>9, <1>10 DEF TrackerInv

LEMMA TrackerStutters ==
  ASSUME TrackerInv, UNCHANGED vars
  PROVE  TrackerInv'
<1>1. Joined' = Joined /\ Working' = Working
  BY DEF vars, Joined, Working
<1>2. TrackerTypeOK' /\ EarlyInv' /\ \A s \in Shutdowns : ShutdownInv(s)'
  BY DEF vars, flags, counters, TrackerInv, TrackerTypeOK, EarlyInv, ShutdownInv
<1>3. QED
  BY <1>1, <1>2 DEF vars, counters, TrackerInv

-----------------------------------------------------------------------------
(* The admission.                                                          *)
LEMMA AdmissionInit ==
  IngressInit => IngressInv
<1> SUFFICES ASSUME IngressInit PROVE IngressInv
  OBVIOUS
<1>1. TrackerInv
  BY TrackerInit DEF IngressInit
<1>2. IngressTypeOK
  BY DEF IngressInit, IngressTypeOK
<1>3. Cardinality(holding) = 0
  BY FS_EmptySet DEF IngressInit
<1>4. QueueInv
  BY <1>3, IngressAssumption DEF IngressInit, QueueInv
<1>5. \A r \in Requests : StageInv(r)
  BY DEF IngressInit, Init, StageInv, Past
<1>6. QED
  BY <1>1, <1>2, <1>4, <1>5 DEF IngressInv

(* A request that moves on in the tracker while it stays where it is in    *)
(* ingress: before it entered, or when it has been answered.               *)
LEMMA TrackerMoves ==
  ASSUME IngressInv, TrackerInv', UNCHANGED uploadVars,
         \A q \in Requests :
           \/ request'[q] = request[q]
           \/ stage[q] = "answered"
           \/ request[q] # "working" /\ (request'[q] \in Past => request[q] \in Past)
  PROVE  IngressInv'
<1>1. IngressTypeOK' /\ QueueInv'
  BY DEF IngressInv, uploadVars, IngressTypeOK, QueueInv
<1>2. ASSUME NEW q \in Requests
      PROVE  StageInv(q)'
  BY DEF IngressInv, uploadVars, StageInv
<1>3. QED
  BY <1>1, <1>2 DEF IngressInv

LEMMA TrackerLeft ==
  ASSUME IngressInv, UNCHANGED vars
  PROVE  TrackerInv' /\ request' = request
BY TrackerStutters DEF IngressInv, vars

(* What every step of a request at work relies on.                         *)
LEMMA AtWork ==
  ASSUME IngressInv, NEW r \in Requests, NEW from, NEW to, To(r, from, to)
  PROVE  /\ TrackerInv' /\ request' = request
         /\ request[r] = "working" /\ stage[r] = from
         /\ stage' = [stage EXCEPT ![r] = to]
         /\ IngressTypeOK /\ QueueInv /\ \A q \in Requests : StageInv(q)
BY TrackerLeft DEF To, IngressInv

LEMMA TurnAwaySafe ==
  ASSUME IngressInv, NEW r \in Requests, TurnAway(r) \/ PassSmall(r)
  PROVE  IngressInv'
<1>1. PICK to \in {"answered", "serving"} : To(r, "new", to)
  BY DEF TurnAway, PassSmall
<1>2. UNCHANGED <<holding, queue>>
  BY DEF TurnAway, PassSmall
<1>3. IngressTypeOK'
  BY <1>1, <1>2, AtWork DEF IngressTypeOK
<1>4. QueueInv'
  <2>1. \A i \in DOMAIN queue : queue[i] \in Requests /\ queue[i] # r
    BY <1>1, AtWork DEF IngressTypeOK, QueueInv
  <2>2. \A i \in DOMAIN queue : stage'[queue[i]] = "queued"
    BY <1>1, <2>1, AtWork DEF IngressTypeOK, QueueInv
  <2>3. QED
    BY <1>1, <1>2, <2>2, AtWork DEF QueueInv
<1>5. ASSUME NEW q \in Requests
      PROVE  StageInv(q)'
  BY <1>1, <1>2, AtWork DEF IngressTypeOK, StageInv, Past
<1>6. QED
  BY <1>1, <1>3, <1>4, <1>5, AtWork DEF IngressInv

LEMMA TakeSlotSafe ==
  ASSUME IngressInv, NEW r \in Requests, TakeSlot(r)
  PROVE  IngressInv'
<1>1. To(r, "new", "serving")
  BY DEF TakeSlot
<1>2. /\ Cardinality(holding) < UploadSlots /\ holding' = holding \cup {r} /\ queue' = queue
      /\ UploadSlots \in Nat
  BY IngressAssumption DEF TakeSlot
<1>3. IngressTypeOK'
  BY <1>1, <1>2, AtWork DEF IngressTypeOK
<1>4. r \notin holding /\ IsFiniteSet(holding) /\ Cardinality(holding) \in Nat
  <2>1. r \notin holding
    BY <1>1, AtWork DEF StageInv
  <2>2. QED
    BY <1>1, <2>1, AtWork, FiniteNow DEF IngressTypeOK
<1>5. Cardinality(holding') = Cardinality(holding) + 1
  BY <1>2, <1>4, FS_AddElement
<1>6. queue = <<>>
  BY <1>1, <1>2, <1>4, AtWork DEF QueueInv
<1>7. QueueInv'
  BY <1>2, <1>4, <1>5, <1>6 DEF QueueInv
<1>8. ASSUME NEW q \in Requests
      PROVE  StageInv(q)'
  BY <1>1, <1>2, AtWork DEF IngressTypeOK, StageInv, Past
<1>9. QED
  BY <1>1, <1>3, <1>7, <1>8, AtWork DEF IngressInv

LEMMA WaitForSlotSafe ==
  ASSUME IngressInv, NEW r \in Requests, WaitForSlot(r)
  PROVE  IngressInv'
<1>1. To(r, "new", "queued")
  BY DEF WaitForSlot
<1>2. /\ Cardinality(holding) >= UploadSlots /\ holding' = holding
      /\ queue' = Append(queue, r)
  BY DEF WaitForSlot
<1>3. /\ queue \in Seq(Requests) /\ queue' \in Seq(Requests)
      /\ Len(queue') = Len(queue) + 1 /\ queue'[Len(queue) + 1] = r
      /\ \A i \in DOMAIN queue : queue'[i] = queue[i] /\ i \in DOMAIN queue'
      /\ DOMAIN queue' = DOMAIN queue \cup {Len(queue) + 1}
      /\ Len(queue) + 1 \notin DOMAIN queue
  BY <1>1, <1>2, AtWork DEF IngressTypeOK
<1>4. \A q \in Requests : stage'[q] = IF q = r THEN "queued" ELSE stage[q]
  BY <1>1, AtWork DEF IngressTypeOK
<1>5. IngressTypeOK'
  BY <1>1, <1>2, <1>3, AtWork DEF IngressTypeOK
<1>6. QueueInv'
  <2>1. \A i \in DOMAIN queue : queue[i] \in Requests /\ stage[queue[i]] = "queued" /\ queue[i] # r
    BY <1>1, <1>3, AtWork DEF QueueInv
  <2>2. \A i \in DOMAIN queue' : stage'[queue'[i]] = "queued"
    BY <1>3, <1>4, <2>1
  <2>3. \A i, j \in DOMAIN queue' : queue'[i] = queue'[j] => i = j
    BY <1>1, <1>3, <2>1, AtWork DEF QueueInv
  <2>4. Cardinality(holding) \in Nat /\ UploadSlots \in Nat
    BY <1>1, AtWork, FiniteNow, IngressAssumption DEF IngressTypeOK
  <2>5. Cardinality(holding') = UploadSlots
    BY <1>1, <1>2, <2>4, AtWork DEF QueueInv
  <2>6. QED
    BY <2>2, <2>3, <2>4, <2>5 DEF QueueInv
<1>7. ASSUME NEW q \in Requests
      PROVE  StageInv(q)'
  <2>1. StageInv(q) /\ StageInv(r) /\ request' = request /\ request[r] = "working"
        /\ stage[r] = "new"
    BY <1>1, AtWork
  <2>2. stage'[q] = "queued" => \E i \in DOMAIN queue' : queue'[i] = q
    <3>1. CASE q = r
      BY <1>3, <3>1
    <3>2. CASE q # r
      BY <1>3, <1>4, <2>1, <3>2 DEF StageInv
    <3>3. QED
      BY <3>1, <3>2
  <2>3. QED
    BY <1>2, <1>4, <2>1, <2>2 DEF StageInv, Past
<1>8. QED
  BY <1>1, <1>5, <1>6, <1>7, AtWork DEF IngressInv

(* What is left of the queue without one of its members.                   *)
LEMMA WithoutOne ==
  ASSUME queue \in Seq(Requests), NEW i \in DOMAIN queue, NEW left, left = QueueWithout(i),
         \A j, k \in DOMAIN queue : queue[j] = queue[k] => j = k
  PROVE  /\ left \in Seq(Requests) /\ queue # <<>>
         /\ \A j \in DOMAIN left : \E k \in DOMAIN queue \ {i} : left[j] = queue[k]
         /\ \A k \in DOMAIN queue \ {i} : \E j \in DOMAIN left : left[j] = queue[k]
         /\ \A j, k \in DOMAIN left : left[j] = left[k] => j = k
<1>1. /\ Len(queue) \in Nat \ {0} /\ i \in 1 .. Len(queue) /\ DOMAIN queue = 1 .. Len(queue)
      /\ \A j \in 1 .. Len(queue) : queue[j] \in Requests
  OBVIOUS
<1> DEFINE n == Len(queue) - 1
<1>2. /\ n \in Nat /\ DOMAIN left = 1 .. n
      /\ \A j \in 1 .. n : left[j] = IF j < i THEN queue[j] ELSE queue[j + 1]
      /\ left = [j \in 1 .. n |-> left[j]]
  BY <1>1 DEF QueueWithout
<1>3. n + 1 = Len(queue)
  BY <1>1
<1> HIDE DEF n
<1>4. \A j \in 1 .. n : left[j] \in Requests
  BY <1>1, <1>2, <1>3
<1>5. left \in Seq(Requests)
  BY <1>2, <1>4
<1>6. ASSUME NEW j \in DOMAIN left
      PROVE  \E k \in DOMAIN queue \ {i} : left[j] = queue[k]
  <2>1. j \in 1 .. n
    BY <1>2
  <2>2. CASE j < i
    BY <1>1, <1>2, <1>3, <2>1, <2>2
  <2>3. CASE ~(j < i)
    <3>1. j + 1 \in DOMAIN queue \ {i} /\ left[j] = queue[j + 1]
      BY <1>1, <1>2, <1>3, <2>1, <2>3
    <3>2. QED
      BY <3>1
  <2>4. QED
    BY <2>2, <2>3
<1>7. ASSUME NEW k \in DOMAIN queue \ {i}
      PROVE  \E j \in DOMAIN left : left[j] = queue[k]
  <2>1. CASE k < i
    <3>1. k \in 1 .. n /\ left[k] = queue[k]
      BY <1>1, <1>2, <1>3, <2>1
    <3>2. QED
      BY <1>2, <3>1
  <2>2. CASE ~(k < i)
    <3>1. k - 1 \in 1 .. n /\ ~(k - 1 < i) /\ (k - 1) + 1 = k
      <4>1. k \in 1 .. n + 1 /\ i \in 1 .. n + 1 /\ k # i
        BY <1>1, <1>3
      <4>2. QED
        BY <1>2, <2>2, <4>1
    <3>2. left[k - 1] = queue[k]
      BY <1>2, <3>1
    <3>3. QED
      BY <1>2, <3>1, <3>2
  <2>3. QED
    BY <2>1, <2>2
<1>8. ASSUME NEW j \in DOMAIN left, NEW k \in DOMAIN left, left[j] = left[k]
      PROVE  j = k
  <2> DEFINE At(x) == IF x < i THEN x ELSE x + 1
  <2>1. j \in 1 .. n /\ k \in 1 .. n
    BY <1>2
  <2>2. At(j) \in DOMAIN queue /\ At(k) \in DOMAIN queue
    <3>1. DOMAIN queue = 1 .. n + 1 /\ i \in 1 .. n + 1
      BY <1>1, <1>3
    <3>2. QED
      BY <1>2, <2>1, <3>1
  <2>3. left[j] = queue[At(j)] /\ left[k] = queue[At(k)]
    BY <1>2, <2>1
  <2>4. At(j) = At(k)
    BY <1>8, <2>2, <2>3
  <2>5. QED
    BY <1>1, <2>1, <2>4
<1>9. QED
  BY <1>1, <1>5, <1>6, <1>7, <1>8

LEMMA GiveUpSafe ==
  ASSUME IngressInv, NEW r \in Requests, GiveUp(r)
  PROVE  IngressInv'
<1>1. To(r, "queued", "answered") /\ holding' = holding
  BY DEF GiveUp
<1>2. PICK i \in DOMAIN queue : queue[i] = r /\ queue' = QueueWithout(i)
  BY DEF GiveUp
<1>3. /\ queue' \in Seq(Requests) /\ queue # <<>>
      /\ \A j \in DOMAIN queue' : \E k \in DOMAIN queue \ {i} : queue'[j] = queue[k]
      /\ \A k \in DOMAIN queue \ {i} : \E j \in DOMAIN queue' : queue'[j] = queue[k]
      /\ \A j, k \in DOMAIN queue' : queue'[j] = queue'[k] => j = k
  BY <1>1, <1>2, AtWork, WithoutOne DEF IngressTypeOK, QueueInv
<1>4. \A q \in Requests : stage'[q] = IF q = r THEN "answered" ELSE stage[q]
  BY <1>1, AtWork DEF IngressTypeOK
<1>5. IngressTypeOK'
  BY <1>1, <1>3, AtWork DEF IngressTypeOK
<1>6. QueueInv'
  <2>1. \A k \in DOMAIN queue \ {i} :
          queue[k] \in Requests /\ queue[k] # r /\ stage[queue[k]] = "queued"
    BY <1>1, <1>2, AtWork DEF QueueInv, IngressTypeOK
  <2>2. \A j \in DOMAIN queue' : stage'[queue'[j]] = "queued"
    BY <1>3, <1>4, <2>1
  <2>3. QED
    BY <1>1, <1>3, <2>2, AtWork DEF QueueInv
<1>7. ASSUME NEW q \in Requests
      PROVE  StageInv(q)'
  <2>1. StageInv(q) /\ StageInv(r) /\ request' = request /\ request[r] = "working"
        /\ stage[r] = "queued"
    BY <1>1, AtWork
  <2>2. stage'[q] = "queued" => \E j \in DOMAIN queue' : queue'[j] = q
    BY <1>2, <1>3, <1>4, <2>1 DEF StageInv
  <2>3. QED
    BY <1>1, <1>4, <2>1, <2>2 DEF StageInv, Past
<1>8. QED
  BY <1>1, <1>5, <1>6, <1>7, AtWork DEF IngressInv

(* A request that ends gives its slot back, if it had one ...              *)
LEMMA ReleaseSafe ==
  ASSUME IngressInv, NEW r \in Requests, Serve(r), r \notin holding \/ queue = <<>>
  PROVE  IngressInv'
<1>1. /\ TrackerInv' /\ request' = request
      /\ IngressTypeOK /\ QueueInv /\ \A q \in Requests : StageInv(q)
  BY TrackerLeft DEF Serve, IngressInv
<1>2. /\ request[r] = "working" /\ stage[r] = "serving"
      /\ stage' = [q \in Requests |-> IF q = r THEN "answered" ELSE stage[q]]
      /\ holding' = holding \ {r} /\ queue' = queue
  BY DEF Serve
<1>3. IngressTypeOK'
  BY <1>1, <1>2 DEF IngressTypeOK
<1>4. QueueInv'
  <2>1. \A i \in DOMAIN queue : queue[i] \in Requests /\ queue[i] # r
    BY <1>1, <1>2 DEF IngressTypeOK, QueueInv
  <2>2. \A i \in DOMAIN queue' : stage'[queue'[i]] = "queued"
    BY <1>1, <1>2, <2>1 DEF QueueInv
  <2>3. IsFiniteSet(holding) /\ Cardinality(holding) \in Nat /\ UploadSlots \in Nat
    BY <1>1, FiniteNow, IngressAssumption DEF IngressTypeOK
  <2>4. Cardinality(holding') = IF r \in holding THEN Cardinality(holding) - 1 ELSE Cardinality(holding)
    BY <1>2, <2>3, FS_RemoveElement
  <2>5. QED
    BY <1>1, <1>2, <2>2, <2>3, <2>4 DEF QueueInv
<1>5. ASSUME NEW q \in Requests
      PROVE  StageInv(q)'
  BY <1>1, <1>2 DEF IngressTypeOK, StageInv, Past
<1>6. QED
  BY <1>1, <1>3, <1>4, <1>5 DEF IngressInv

(* ... to the first in the queue.                                          *)
LEMMA HandOverSafe ==
  ASSUME IngressInv, NEW r \in Requests, Serve(r), r \in holding, queue # <<>>
  PROVE  IngressInv'
<1>1. /\ TrackerInv' /\ request' = request
      /\ IngressTypeOK /\ QueueInv /\ \A q \in Requests : StageInv(q)
  BY TrackerLeft DEF Serve, IngressInv
<1> DEFINE h == Head(queue)
           mine == {h}
<1>2. /\ request[r] = "working" /\ stage[r] = "serving"
      /\ stage' = [q \in Requests |-> IF q = r THEN "answered"
                                      ELSE IF q \in mine THEN "serving" ELSE stage[q]]
      /\ holding' = (holding \ {r}) \cup mine /\ queue' = Tail(queue)
  BY DEF Serve
<1>3. /\ queue \in Seq(Requests) /\ Len(queue) \in Nat \ {0} /\ DOMAIN queue = 1 .. Len(queue)
      /\ 1 \in DOMAIN queue /\ h = queue[1] /\ h \in Requests /\ mine = {h}
  BY <1>1 DEF IngressTypeOK
<1> HIDE DEF h, mine
<1>4. /\ queue' \in Seq(Requests) /\ Len(queue') = Len(queue) - 1
      /\ DOMAIN queue' = 1 .. Len(queue) - 1
      /\ \A i \in 1 .. Len(queue) - 1 : queue'[i] = queue[i + 1] /\ i + 1 \in DOMAIN queue
  BY <1>2, <1>3
<1>5. stage[h] = "queued" /\ h # r /\ h \notin holding
  BY <1>1, <1>2, <1>3 DEF QueueInv, StageInv
<1>6. \A q \in Requests : stage'[q] = IF q = r THEN "answered" ELSE IF q = h THEN "serving"
                                      ELSE stage[q]
  BY <1>2, <1>3
<1>7. IngressTypeOK'
  <2>1. stage' \in [Requests -> {"new", "queued", "serving", "answered"}]
    BY <1>1, <1>2 DEF IngressTypeOK
  <2>2. QED
    BY <1>1, <1>2, <1>3, <1>4, <2>1 DEF IngressTypeOK
<1>8. QueueInv'
  <2>1. \A i \in 1 .. Len(queue) - 1 :
          LET q == queue[i + 1] IN q \in Requests /\ q # r /\ q # h /\ stage[q] = "queued"
    <3>1. ASSUME NEW i \in 1 .. Len(queue) - 1
          PROVE  LET q == queue[i + 1] IN q \in Requests /\ q # r /\ q # h /\ stage[q] = "queued"
      <4>1. i + 1 \in DOMAIN queue /\ i + 1 # 1
        BY <1>3, <1>4
      <4>2. queue[i + 1] # queue[1]
        BY <1>1, <1>3, <4>1 DEF QueueInv
      <4>3. stage[queue[i + 1]] = "queued" /\ queue[i + 1] \in Requests
        BY <1>1, <1>3, <4>1 DEF QueueInv
      <4>4. QED
        BY <1>2, <1>3, <4>2, <4>3
    <3>2. QED
      BY <3>1
  <2>2. \A i \in DOMAIN queue' : stage'[queue'[i]] = "queued"
    BY <1>4, <1>6, <2>1
  <2>3. ASSUME NEW i \in DOMAIN queue', NEW j \in DOMAIN queue', queue'[i] = queue'[j]
        PROVE  i = j
    <3>1. i \in Int /\ j \in Int /\ queue[i + 1] = queue[j + 1]
      BY <1>3, <1>4, <2>3
    <3>2. i + 1 = j + 1
      BY <1>1, <1>4, <2>3, <3>1 DEF QueueInv
    <3>3. QED
      BY <3>1, <3>2
  <2>4. IsFiniteSet(holding) /\ Cardinality(holding) \in Nat /\ UploadSlots \in Nat
    BY <1>1, FiniteNow, IngressAssumption DEF IngressTypeOK
  <2> DEFINE rest == holding \ {r}
  <2>5. /\ IsFiniteSet(rest) /\ h \notin rest
        /\ Cardinality(rest) = Cardinality(holding) - 1
    BY <1>5, <2>4, FS_RemoveElement
  <2>6. Cardinality(holding') = Cardinality(holding)
    <3>1. holding' = rest \cup {h}
      BY <1>2, <1>3
    <3> HIDE DEF rest
    <3>2. Cardinality(rest \cup {h}) = Cardinality(rest) + 1
      BY <2>5, FS_AddElement
    <3>3. QED
      BY <2>4, <2>5, <3>1, <3>2
  <2>7. Cardinality(holding') = UploadSlots
    BY <1>1, <2>6 DEF QueueInv
  <2>8. QED
    BY <2>2, <2>3, <2>4, <2>7 DEF QueueInv
<1>9. ASSUME NEW q \in Requests
      PROVE  StageInv(q)'
  <2>1. StageInv(q) /\ StageInv(r) /\ StageInv(h) /\ request' = request
        /\ request[r] = "working" /\ request[h] = "working"
    BY <1>1, <1>2, <1>3, <1>5 DEF StageInv
  <2>2. stage'[q] = "queued" => \E j \in DOMAIN queue' : queue'[j] = q
    <3>1. SUFFICES ASSUME stage'[q] = "queued" PROVE \E j \in DOMAIN queue' : queue'[j] = q
      OBVIOUS
    <3>2. stage[q] = "queued" /\ q # h
      BY <1>6, <3>1
    <3>3. PICK i \in DOMAIN queue : queue[i] = q
      BY <2>1, <3>2 DEF StageInv
    <3>4. i \in 1 .. Len(queue) /\ i # 1
      BY <1>3, <3>2, <3>3
    <3>5. i - 1 \in 1 .. Len(queue) - 1 /\ (i - 1) + 1 = i
      BY <1>3, <3>4
    <3>6. queue'[i - 1] = q
      BY <1>4, <3>3, <3>5
    <3>7. QED
      BY <1>4, <3>5, <3>6
  <2>3. q \in holding' => stage'[q] = "serving"
    BY <1>2, <1>3, <1>5, <1>6, <2>1 DEF StageInv
  <2>4. QED
    BY <1>5, <1>6, <2>1, <2>2, <2>3 DEF StageInv, Past
<1>10. QED
  BY <1>1, <1>7, <1>8, <1>9 DEF IngressInv

LEMMA DepartSafe ==
  ASSUME IngressInv, NEW r \in Requests, Depart(r)
  PROVE  IngressInv'
<1>1. TrackerInv'
  BY RequestSteps DEF Depart, IngressInv
<1>2. /\ UNCHANGED uploadVars /\ stage[r] = "answered"
      /\ \A q \in Requests : request'[q] = request[q] \/ q = r
  BY DEF Depart, DoneUncount, Move, IngressInv, TrackerInv, TrackerTypeOK
<1>3. QED
  BY <1>1, <1>2, TrackerMoves

LEMMA EnterAndLeaveSafe ==
  ASSUME IngressInv, NEW r \in Requests, Enter(r) \/ Leave(r), UNCHANGED uploadVars
  PROVE  IngressInv'
<1>1. TrackerInv'
  BY RequestSteps DEF IngressInv
<1>2. /\ \A q \in Requests : request'[q] = request[q] \/ q = r
      /\ request[r] # "working" /\ (request'[r] \in Past => request[r] \in Past)
  BY DEF Enter, Leave, AddCheck, AddJoin, AddCount, DoneLeave, DoneNotify, Move, Past,
         IngressInv, TrackerInv, TrackerTypeOK
<1>3. QED
  BY <1>1, <1>2, TrackerMoves

LEMMA AdmissionStep ==
  IngressInv /\ [IngressNext]_ingressVars => IngressInv'
<1> SUFFICES ASSUME IngressInv, [IngressNext]_ingressVars PROVE IngressInv'
  OBVIOUS
<1>1. ASSUME NEW r \in Requests, RequestStep(r)
      PROVE  IngressInv'
  <2>1. CASE TurnAway(r) \/ PassSmall(r)
    BY <2>1, TurnAwaySafe
  <2>2. CASE TakeSlot(r)
    BY <2>2, TakeSlotSafe
  <2>3. CASE WaitForSlot(r)
    BY <2>3, WaitForSlotSafe
  <2>4. CASE GiveUp(r)
    BY <2>4, GiveUpSafe
  <2>5. CASE Serve(r)
    BY <2>5, ReleaseSafe, HandOverSafe
  <2>6. CASE Depart(r)
    BY <2>6, DepartSafe
  <2>7. CASE (Enter(r) \/ Leave(r)) /\ UNCHANGED uploadVars
    BY <2>7, EnterAndLeaveSafe
  <2>8. QED
    BY <1>1, <2>1, <2>2, <2>3, <2>4, <2>5, <2>6, <2>7 DEF RequestStep
<1>2. ASSUME NEW s \in Shutdowns,
             MakeNotifyCh(s) \/ Progress(s) \/ WaitGroupEmpty(s) \/ SelectDeadline(s),
             UNCHANGED uploadVars
      PROVE  IngressInv'
  <2>1. TrackerInv'
    BY <1>2, ShutdownSteps DEF IngressInv
  <2>2. request' = request
    BY <1>2 DEF MakeNotifyCh, Progress, MarkShutdown, CloseShutdownCh, CheckCount, SelectDone,
                SelectNotify, Drained, SelectDeadline, Step, WaitGroupEmpty
  <2>3. QED
    BY <1>2, <2>1, <2>2, TrackerMoves
<1>3. CASE UNCHANGED ingressVars
  BY <1>3, TrackerLeft, TrackerMoves DEF ingressVars
<1>4. QED
  BY <1>1, <1>2, <1>3 DEF IngressNext, ShutdownStep, WaitStep

-----------------------------------------------------------------------------
LEMMA InvariantHolds ==
  IngressSpec => []IngressInv
<1>1. QED
  BY AdmissionInit, AdmissionStep, PTL DEF IngressSpec

(* A shutdown that returned true waited for the answer, and for the slot,  *)
(* of every request that was at work when new ones began to be refused     *)
(* (GracefulShutdown, uploadLimiter.acquire).                              *)
THEOREM AnswersAreAlwaysAwaited ==
  IngressSpec => []WaitsForAnswers
<1>1. ASSUME IngressInv
      PROVE  WaitsForAnswers
  <2>1. early \subseteq Requests
    BY <1>1 DEF IngressInv, TrackerInv, TrackerTypeOK
  <2>2. ASSUME NEW s \in Shutdowns, shutdown[s] = "clean", NEW r \in early
        PROVE  request[r] \in Past
    BY <1>1, <2>2 DEF IngressInv, TrackerInv, EarlyInv, ShutdownInv, Past
  <2>3. QED
    BY <1>1, <2>1, <2>2 DEF IngressInv, StageInv, WaitsForAnswers
<1>2. QED
  BY <1>1, InvariantHolds, PTL

(* An upload waits only while others hold all the slots, for any number of *)
(* slots and of uploads that come, end and give up (uploadLimiter).        *)
THEOREM NobodyWaitsForAFreeSlot ==
  IngressSpec => []QueueMeansFull
<1>1. ASSUME IngressInv
      PROVE  QueueMeansFull
  <2>1. holding \subseteq Requests
    BY <1>1 DEF IngressInv, IngressTypeOK
  <2>2. QED
    BY <1>1, <2>1 DEF IngressInv, QueueInv, StageInv, QueueMeansFull
<1>2. QED
  BY <1>1, InvariantHolds, PTL

(* The slots given out are never more than there are (maxConcurrency of    *)
(* uploadLimiter), and the tracker's counters count the requests that have *)
(* entered and not left (Add, Done).                                       *)
THEOREM CountersAreExact ==
  IngressSpec => [](/\ Cardinality(holding) <= UploadSlots
                    /\ wg = Cardinality(Joined)
                    /\ activeCount = Cardinality(Working))
<1>1. IngressInv => /\ Cardinality(holding) <= UploadSlots
                    /\ wg = Cardinality(Joined)
                    /\ activeCount = Cardinality(Working)
  BY DEF IngressInv, QueueInv, TrackerInv
<1>2. QED
  BY <1>1, InvariantHolds, PTL
=============================================================================

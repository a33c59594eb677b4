---------------------------- MODULE UsageProofs ----------------------------
(* Proofs about the usage statistics, and what they need to know of sums.  *)
(* SumFunctionOnSet is defined by recursion over subsets; what it returns  *)
(* follows from the fact that a non-empty family of subsets of a finite    *)
(* set has a smallest member, which needs no predicate as a parameter.     *)
EXTENDS UsageStats, FiniteSetTheorems, TLAPS

-----------------------------------------------------------------------------
(* Finite sets. *)
LEMMA SmallestMember ==
  ASSUME NEW S, IsFiniteSet(S), NEW B \in SUBSET SUBSET S, B # {}
  PROVE  \E T \in B : \A U \in B : U \subseteq T => U = T
<1> DEFINE R == StrictSubsetOrdering(S)
<1>1. IsWellFoundedOn(R, SUBSET S)
  BY FS_StrictSubsetOrderingWellFounded, FS_FiniteSubsetsOfFinite
<1> HIDE DEF R
<1>2. PICK T \in B : \A U \in B : <<U, T>> \notin R
  BY <1>1, WFMin
<1>3. \A U \in B : U \subseteq T => U = T
  BY <1>2 DEF R, StrictSubsetOrdering
<1>4. QED
  BY <1>3

(* What holds of no set that grows to S by one element after another fails *)
(* for the empty one or at one of the steps.                               *)
LEMMA SetInduction ==
  ASSUME NEW S, IsFiniteSet(S), NEW G \in SUBSET SUBSET S, {} \in G,
         \A T \in G : \A x \in S \ T : T \cup {x} \in G
  PROVE  S \in G
<1> DEFINE B == (SUBSET S) \ G
<1>1. SUFFICES ASSUME S \notin G
               PROVE  FALSE
  OBVIOUS
<1>2. PICK T \in B : \A U \in B : U \subseteq T => U = T
  <2>1. B \in SUBSET SUBSET S /\ B # {}
    BY <1>1
  <2> HIDE DEF B
  <2>2. QED
    BY <2>1, SmallestMember
<1>3. PICK x \in T : TRUE
  BY <1>2
<1>4. T \ {x} \in G /\ x \in S \ (T \ {x}) /\ (T \ {x}) \cup {x} = T
  BY <1>2, <1>3
<1>5. QED
  BY <1>2, <1>4

(* A finite set of integers that is not empty has a greatest one. *)
LEMMA GreatestInteger ==
  ASSUME NEW S \in SUBSET Int, IsFiniteSet(S), S # {}
  PROVE  Max(S) \in S /\ \A y \in S : y <= Max(S)
<1> DEFINE G == {T \in SUBSET S : T # {} => \E m \in T : \A y \in T : y <= m}
<1>1. ASSUME NEW T \in G, NEW x \in S \ T
      PROVE  T \cup {x} \in G
  <2>1. CASE T = {}
    BY <2>1
  <2>2. CASE T # {}
    <3>1. PICK m \in T : \A y \in T : y <= m
      BY <2>2
    <3>2. m \in Int /\ x \in Int /\ T \subseteq Int
      BY <3>1
    <3>3. CASE x <= m
      BY <3>1, <3>2, <3>3
    <3>4. CASE ~(x <= m)
      <4>1. \A y \in T : y <= x
        BY <3>1, <3>2, <3>4
      <4>2. QED
        BY <3>2, <4>1
    <3>5. QED
      BY <3>3, <3>4
  <2>3. QED
    BY <2>1, <2>2
<1>2. {} \in G
  OBVIOUS
<1>3. S \in G
  <2> HIDE DEF G
  <2>1. G \in SUBSET SUBSET S
    BY DEF G
  <2>2. QED
    BY <1>1, <1>2, <2>1, SetInduction
<1>4. PICK m \in S : \A y \in S : y <= m
  BY <1>3
<1>5. \A y \in S : m >= y
  BY <1>4
<1>6. QED
  BY <1>5 DEF Max

-----------------------------------------------------------------------------
(* Sums.  Summing is what SumFunctionOnSet recurses with.                  *)
Pick(s) == CHOOSE x \in s : TRUE

Sums(f, S, sum) ==
  sum = [s \in SUBSET S |-> IF s = {} THEN 0 ELSE f[Pick(s)] + sum[s \ {Pick(s)}]]

Summing(f, S) == CHOOSE sum : Sums(f, S, sum)

LEMMA SumIsSumming ==
  ASSUME NEW f, NEW S
  PROVE  SumFunctionOnSet(f, S) = Summing(f, S)[S]
BY Zenon DEF SumFunctionOnSet, FoldFunctionOnSet, MapThenFoldSet, Summing, Sums, Pick

LEMMA PickIsMember ==
  ASSUME NEW s, s # {}
  PROVE  Pick(s) \in s
BY DEF Pick

LEMMA SumsAgree ==
  ASSUME NEW f, NEW S, IsFiniteSet(S), NEW T \in SUBSET S, NEW a, NEW b,
         Sums(f, S, a), Sums(f, T, b)
  PROVE  \A s \in SUBSET T : a[s] = b[s]
<1> DEFINE B == {s \in SUBSET T : a[s] # b[s]}
<1>1. SUFFICES ASSUME B # {}
               PROVE  FALSE
  OBVIOUS
<1>2. PICK s \in B : \A u \in B : u \subseteq s => u = s
  <2>1. B \in SUBSET SUBSET T /\ IsFiniteSet(T)
    BY FS_Subset
  <2> HIDE DEF B
  <2>2. QED
    BY <1>1, <2>1, SmallestMember
<1>3. /\ a[s] = IF s = {} THEN 0 ELSE f[Pick(s)] + a[s \ {Pick(s)}]
      /\ b[s] = IF s = {} THEN 0 ELSE f[Pick(s)] + b[s \ {Pick(s)}]
  BY DEF Sums
<1>4. CASE s = {}
  BY <1>3, <1>4
<1>5. CASE s # {}
  <2>1. Pick(s) \in s
    BY <1>5, PickIsMember
  <2>2. a[s \ {Pick(s)}] = b[s \ {Pick(s)}]
    BY <1>2, <2>1
  <2>3. QED
    BY <1>3, <1>5, <2>2
<1>6. QED
  BY <1>4, <1>5

LEMMA SummingSums ==
  ASSUME NEW f, NEW S, IsFiniteSet(S)
  PROVE  Sums(f, S, Summing(f, S))
<1> DEFINE B == {T \in SUBSET S : ~Sums(f, T, Summing(f, T))}
<1>1. SUFFICES ASSUME B # {}
               PROVE  FALSE
  OBVIOUS
<1>2. PICK T \in B : \A U \in B : U \subseteq T => U = T
  <2>1. B \in SUBSET SUBSET S
    OBVIOUS
  <2> HIDE DEF B
  <2>2. QED
    BY <1>1, <2>1, SmallestMember
<1>3. \A U \in SUBSET T : U # T => Sums(f, U, Summing(f, U))
  BY <1>2
<1> DEFINE rest(s) == s \ {Pick(s)}
           sum == [s \in SUBSET T |-> IF s = {} THEN 0
                                      ELSE f[Pick(s)] + Summing(f, rest(s))[rest(s)]]
<1>4. ASSUME NEW s \in SUBSET T, s # {}
      PROVE  sum[rest(s)] = Summing(f, rest(s))[rest(s)]
  <2> DEFINE u == rest(s)
             v == rest(u)
  <2>1. u \in SUBSET T /\ u # T /\ IsFiniteSet(u)
    BY <1>2, <1>4, PickIsMember, FS_Subset
  <2>2. Sums(f, u, Summing(f, u))
    BY <1>3, <2>1
  <2>3. Summing(f, u)[u] = IF u = {} THEN 0 ELSE f[Pick(u)] + Summing(f, u)[v]
    BY <2>2 DEF Sums
  <2>4. CASE u = {}
    BY <2>1, <2>3, <2>4
  <2>5. CASE u # {}
    <3>1. v \in SUBSET u /\ v \in SUBSET T /\ v # T
      BY <2>1
    <3>2. Sums(f, v, Summing(f, v))
      BY <1>3, <3>1
    <3> HIDE DEF u, v
    <3>3. \A w \in SUBSET v : Summing(f, u)[w] = Summing(f, v)[w]
      BY <2>1, <2>2, <3>1, <3>2, SumsAgree
    <3>4. Summing(f, u)[v] = Summing(f, v)[v]
      BY <3>3
    <3>5. sum[u] = f[Pick(u)] + Summing(f, v)[v]
      BY <2>1, <2>5 DEF v
    <3>6. QED
      BY <2>3, <2>5, <3>4, <3>5 DEF u
  <2>6. QED
    BY <2>4, <2>5
<1>5. Sums(f, T, sum)
  <2>1. \A s \in SUBSET T : sum[s] = IF s = {} THEN 0 ELSE f[Pick(s)] + sum[s \ {Pick(s)}]
    BY <1>4
  <2>2. sum = [s \in SUBSET T |-> sum[s]]
    OBVIOUS
  <2> HIDE DEF sum
  <2>3. QED
    BY <2>1, <2>2 DEF Sums
<1>6. QED
  BY <1>2, <1>5 DEF Summing
(* The equation of the recursion. *)
LEMMA SumEquation ==
  ASSUME NEW f, NEW S, IsFiniteSet(S)
  PROVE  SumFunctionOnSet(f, S) =
           IF S = {} THEN 0 ELSE f[Pick(S)] + SumFunctionOnSet(f, S \ {Pick(S)})
<1> DEFINE T == S \ {Pick(S)}
<1>1. T \in SUBSET S /\ IsFiniteSet(T)
  BY FS_Subset
<1>2. Sums(f, S, Summing(f, S)) /\ Sums(f, T, Summing(f, T))
  BY <1>1, SummingSums
<1>3. Summing(f, S)[T] = Summing(f, T)[T]
  <2> HIDE DEF T
  <2>1. QED
    BY <1>1, <1>2, SumsAgree
<1>4. Summing(f, S)[S] = IF S = {} THEN 0 ELSE f[Pick(S)] + Summing(f, S)[T]
  BY <1>2 DEF Sums
<1> HIDE DEF T
<1>5. QED
  BY <1>3, <1>4, SumIsSumming DEF T

LEMMA SumOfNone ==
  ASSUME NEW f
  PROVE  SumFunctionOnSet(f, {}) = 0
BY SumEquation, FS_EmptySet

LEMMA SumType ==
  ASSUME NEW S, IsFiniteSet(S), NEW f, \A x \in S : f[x] \in Nat
  PROVE  SumFunctionOnSet(f, S) \in Nat
<1> DEFINE B == {T \in SUBSET S : SumFunctionOnSet(f, T) \notin Nat}
<1>1. SUFFICES ASSUME B # {}
               PROVE  FALSE
  OBVIOUS
<1>2. PICK T \in B : \A U \in B : U \subseteq T => U = T
  <2>1. B \in SUBSET SUBSET S
    OBVIOUS
  <2> HIDE DEF B
  <2>2. QED
    BY <1>1, <2>1, SmallestMember
<1>3. T # {} /\ IsFiniteSet(T)
  <2>1. SumFunctionOnSet(f, {}) \in Nat
    BY SumOfNone
  <2>2. SumFunctionOnSet(f, T) \notin Nat /\ T \in SUBSET S
    BY <1>2
  <2>3. QED
    BY <2>1, <2>2, FS_Subset
<1>4. Pick(T) \in T /\ SumFunctionOnSet(f, T \ {Pick(T)}) \in Nat
  BY <1>2, <1>3, PickIsMember
<1>5. SumFunctionOnSet(f, T) = f[Pick(T)] + SumFunctionOnSet(f, T \ {Pick(T)})
  BY <1>3, SumEquation
<1>6. QED
  BY <1>2, <1>4, <1>5

(* Any element may be the first to be added up. *)
LEMMA SumStep ==
  ASSUME NEW S, IsFiniteSet(S), NEW f, \A x \in S : f[x] \in Nat, NEW x \in S
  PROVE  SumFunctionOnSet(f, S) = f[x] + SumFunctionOnSet(f, S \ {x})
<1> DEFINE B == {T \in SUBSET S : \E y \in T :
                   SumFunctionOnSet(f, T) # f[y] + SumFunctionOnSet(f, T \ {y})}
<1>1. SUFFICES ASSUME B # {}
               PROVE  FALSE
  OBVIOUS
<1>2. PICK T \in B : \A U \in B : U \subseteq T => U = T
  <2>1. B \in SUBSET SUBSET S
    OBVIOUS
  <2> HIDE DEF B
  <2>2. QED
    BY <1>1, <2>1, SmallestMember
<1>3. PICK y \in T : SumFunctionOnSet(f, T) # f[y] + SumFunctionOnSet(f, T \ {y})
  BY <1>2
<1> DEFINE c == Pick(T)
           R == T \ {c, y}
<1>4. c \in T /\ IsFiniteSet(T) /\ T \subseteq S
  BY <1>2, PickIsMember, FS_Subset
<1>5. SumFunctionOnSet(f, T) = f[c] + SumFunctionOnSet(f, T \ {c})
  BY <1>4, SumEquation
<1>6. c # y
  BY <1>3, <1>5
<1>7. \A U \in SUBSET T : U # T =>
        \A z \in U : SumFunctionOnSet(f, U) = f[z] + SumFunctionOnSet(f, U \ {z})
  BY <1>2
<1> HIDE DEF B, c
<1>8. SumFunctionOnSet(f, T \ {c}) = f[y] + SumFunctionOnSet(f, R)
  <2>1. T \ {c} \in SUBSET T /\ T \ {c} # T /\ y \in T \ {c} /\ (T \ {c}) \ {y} = R
    BY <1>3, <1>4, <1>6
  <2>2. QED
    BY <1>7, <2>1
<1>9. SumFunctionOnSet(f, T \ {y}) = f[c] + SumFunctionOnSet(f, R)
  <2>1. T \ {y} \in SUBSET T /\ T \ {y} # T /\ c \in T \ {y} /\ (T \ {y}) \ {c} = R
    BY <1>3, <1>4, <1>6
  <2>2. QED
    BY <1>7, <2>1
<1>10. f[c] \in Nat /\ f[y] \in Nat /\ SumFunctionOnSet(f, R) \in Nat
  <2>1. R \subseteq S /\ IsFiniteSet(R)
    BY <1>4, FS_Subset
  <2>2. QED
    BY <1>3, <1>4, <2>1, SumType
<1>11. QED
  BY <1>3, <1>5, <1>8, <1>9, <1>10

(* What does not look at the order of a sum. *)
LEMMA SumSame ==
  ASSUME NEW S, IsFiniteSet(S), NEW f, NEW g, \A x \in S : f[x] \in Nat /\ g[x] = f[x]
  PROVE  SumFunctionOnSet(f, S) = SumFunctionOnSet(g, S)
<1> DEFINE G == {T \in SUBSET S : SumFunctionOnSet(f, T) = SumFunctionOnSet(g, T)}
<1>1. {} \in G
  BY SumOfNone
<1>2. ASSUME NEW T \in G, NEW x \in S \ T
      PROVE  T \cup {x} \in G
  <2>1. (T \cup {x}) \ {x} = T /\ IsFiniteSet(T \cup {x})
    BY <1>2, FS_Subset
  <2>2. SumFunctionOnSet(f, T \cup {x}) = f[x] + SumFunctionOnSet(f, T)
    BY <2>1, SumStep
  <2>3. SumFunctionOnSet(g, T \cup {x}) = g[x] + SumFunctionOnSet(g, T)
    BY <2>1, SumStep
  <2>4. QED
    BY <2>2, <2>3
<1>3. S \in G
  <2>1. G \in SUBSET SUBSET S
    OBVIOUS
  <2> HIDE DEF G
  <2>2. QED
    BY <1>1, <1>2, <2>1, SetInduction
<1>4. QED
  BY <1>3

LEMMA SumOfUnion ==
  ASSUME NEW f, NEW S, NEW T, IsFiniteSet(S), IsFiniteSet(T), S \cap T = {},
         \A x \in S \cup T : f[x] \in Nat
  PROVE  SumFunctionOnSet(f, S \cup T) = SumFunctionOnSet(f, S) + SumFunctionOnSet(f, T)
<1> DEFINE G == {U \in SUBSET T :
                   SumFunctionOnSet(f, S \cup U) =
                     SumFunctionOnSet(f, S) + SumFunctionOnSet(f, U)}
<1>0. IsFiniteSet(S \cup T)
  BY FS_Union
<1>1. {} \in G
  <2>1. SumFunctionOnSet(f, S) \in Nat /\ S \cup {} = S
    BY SumType
  <2>2. QED
    BY <2>1, SumOfNone
<1>2. ASSUME NEW U \in G, NEW x \in T \ U
      PROVE  U \cup {x} \in G
  <2>1. /\ (U \cup {x}) \ {x} = U /\ IsFiniteSet(U \cup {x}) /\ IsFiniteSet(U)
        /\ (S \cup (U \cup {x})) \ {x} = S \cup U /\ IsFiniteSet(S \cup (U \cup {x}))
    BY <1>0, <1>2, FS_Subset
  <2>2. SumFunctionOnSet(f, U \cup {x}) = f[x] + SumFunctionOnSet(f, U)
    BY <2>1, SumStep
  <2>3. SumFunctionOnSet(f, S \cup (U \cup {x})) = f[x] + SumFunctionOnSet(f, S \cup U)
    BY <2>1, SumStep
  <2>4. /\ SumFunctionOnSet(f, S) \in Nat /\ SumFunctionOnSet(f, U) \in Nat
        /\ f[x] \in Nat
    BY <2>1, SumType
  <2>5. QED
    BY <2>2, <2>3, <2>4
<1>3. T \in G
  <2>1. G \in SUBSET SUBSET T
    OBVIOUS
  <2> HIDE DEF G
  <2>2. QED
    BY <1>1, <1>2, <2>1, SetInduction
<1>4. QED
  BY <1>3

LEMMA SumOfSubset ==
  ASSUME NEW f, NEW T, IsFiniteSet(T), \A x \in T : f[x] \in Nat, NEW S \in SUBSET T
  PROVE  SumFunctionOnSet(f, S) <= SumFunctionOnSet(f, T)
<1>1. IsFiniteSet(S) /\ IsFiniteSet(T \ S) /\ S \cup (T \ S) = T
  BY FS_Subset
<1>2. SumFunctionOnSet(f, T) = SumFunctionOnSet(f, S) + SumFunctionOnSet(f, T \ S)
  <2>1. S \cap (T \ S) = {} /\ \A x \in S \cup (T \ S) : f[x] \in Nat
    BY <1>1
  <2>2. SumFunctionOnSet(f, S \cup (T \ S)) = SumFunctionOnSet(f, S) + SumFunctionOnSet(f, T \ S)
    BY <1>1, <2>1, SumOfUnion
  <2>3. QED
    BY <1>1, <2>2
<1>3. SumFunctionOnSet(f, S) \in Nat /\ SumFunctionOnSet(f, T \ S) \in Nat
  BY <1>1, SumType
<1>4. QED
  BY <1>2, <1>3

-----------------------------------------------------------------------------
(* Buckets of a width.                                                     *)
LEMMA Multiples ==
  ASSUME NEW w \in Nat \ {0}, NEW k \in Int, NEW n \in Int
  PROVE  k < n => w * k + w <= w * n
<1> SUFFICES ASSUME k < n
             PROVE  w * k + w <= w * n
  OBVIOUS
<1>1. PICK d \in Nat : n = k + 1 + d
  <2>1. n - k - 1 \in Nat
    OBVIOUS
  <2>2. QED
    BY <2>1
<1>2. w * n = w * k + w + w * d
  BY <1>1
<1>3. w * d \in Nat /\ w * k \in Int
  OBVIOUS
<1>4. QED
  BY <1>2, <1>3

LEMMA Quotients ==
  ASSUME NEW w \in Nat \ {0}, NEW t \in Int
  PROVE  \E k \in Int : t = w * k + (t % w) /\ t % w \in 0 .. (w - 1)
<1>1. t \div w \in Int /\ t = w * (t \div w) + (t % w) /\ t % w \in 0 .. (w - 1)
  OBVIOUS
<1>2. QED
  BY <1>1

LEMMA Remainders ==
  ASSUME NEW w \in Nat \ {0}, NEW k \in Int, NEW d \in 0 .. (w - 1)
  PROVE  (w * k + d) % w = d
<1> DEFINE t == w * k + d
<1>1. t \in Int
  OBVIOUS
<1>2. PICK n \in Int : t = w * n + (t % w) /\ t % w \in 0 .. (w - 1)
  BY <1>1, Quotients
<1>3. w * k \in Int /\ w * n \in Int
  OBVIOUS
<1>4. ~(k < n)
  BY <1>2, <1>3, Multiples
<1>5. ~(n < k)
  BY <1>2, <1>3, Multiples
<1>6. k = n
  BY <1>4, <1>5
<1>7. QED
  BY <1>2, <1>6

(* Where the bucket of a moment begins, if buckets begin z early.          *)
LEMMA BucketStart ==
  ASSUME NEW w \in Nat \ {0}, NEW z \in Int, NEW t \in Int,
         NEW b \in Int, b = t - ((t + z) % w)
  PROVE  /\ b <= t /\ t < b + w /\ (b + z) % w = 0
<1>0. t + z \in Int
  OBVIOUS
<1>1. PICK k \in Int : t + z = w * k + ((t + z) % w) /\ (t + z) % w \in 0 .. (w - 1)
  BY <1>0, Quotients, Zenon
<1> DEFINE m == (t + z) % w
<1>2. b + z = w * k + 0 /\ w * k \in Int /\ m \in 0 .. (w - 1) /\ b = t - m
  BY <1>1
<1>3. (b + z) % w = 0
  <2>1. 0 \in 0 .. (w - 1)
    OBVIOUS
  <2>2. QED
    BY <1>2, <2>1, Remainders
<1> HIDE DEF m
<1>4. b <= t /\ t < b + w
  BY <1>2
<1>5. QED
  BY <1>3, <1>4

LEMMA SameBucket ==
  ASSUME NEW w \in Nat \ {0}, NEW z \in Int, NEW b \in Int, (b + z) % w = 0,
         NEW t \in Int
  PROVE  /\ t - ((t + z) % w) = b <=> b <= t /\ t < b + w
         /\ t < b <=> t - ((t + z) % w) < b
         /\ t < b <=> t - ((t + z) % w) + w <= b
<1>0. t + z \in Int /\ b + z \in Int
  OBVIOUS
<1>1. PICK k \in Int : b + z = w * k
  <2>1. PICK k \in Int : b + z = w * k + ((b + z) % w)
    BY <1>0, Quotients, Zenon
  <2>2. QED
    BY <2>1
<1>2. PICK n \in Int : t + z = w * n + ((t + z) % w) /\ (t + z) % w \in 0 .. (w - 1)
  BY <1>0, Quotients, Zenon
<1>3. w * k \in Int /\ w * n \in Int
  OBVIOUS
<1>4. /\ k < n => w * k + w <= w * n
      /\ n < k => w * n + w <= w * k
  BY Multiples
<1>5. k < n \/ n < k \/ w * n = w * k
  OBVIOUS
<1> DEFINE m == (t + z) % w
           wk == w * k
           wn == w * n
<1>6. wk \in Int /\ wn \in Int /\ m \in 0 .. (w - 1) /\ b + z = wk /\ t + z = wn + m
  BY <1>1, <1>2, <1>3
<1>7. wk + w <= wn \/ wn + w <= wk \/ wn = wk
  BY <1>4, <1>5
<1> HIDE DEF m, wk, wn
<1>8. /\ t - m = b <=> b <= t /\ t < b + w
      /\ t < b <=> t - m < b
      /\ t < b <=> t - m + w <= b
  BY <1>6, <1>7
<1>9. QED
  BY <1>8 DEF m

-----------------------------------------------------------------------------
(* Time zones that are whole hours from UTC.                               *)
WholeHours == Zone % Width[Hour] = 0

(* Counts, and counts that no bucket exceeds the truth in.                 *)
Counts(f) ==
  /\ IsFiniteSet(DOMAIN f) /\ DOMAIN f \subseteq Int
  /\ \A t \in DOMAIN f : f[t] \in Nat

Within(f, g, e) ==
  /\ Counts(f)
  /\ \A b \in DOMAIN f : Truncate(b, g) = b /\ f[b] <= Total(e, b, b + Width[g])

Sound(f, g) == Within(f, g, ended)

OvercountInv ==
  /\ now \in Nat
  /\ Counts(ended) /\ Counts(raw)
  /\ \A t \in DOMAIN raw : raw[t] <= CountAt(ended, t)
  /\ DOMAIN rows = Granularities
  /\ \A g \in Granularities : Sound(rows[g], g)
  /\ DOMAIN worker = Workers
  /\ \A w \in Workers :
       /\ worker[w] = [job |-> worker[w].job, g |-> worker[w].g,
                       todo |-> worker[w].todo, age |-> worker[w].age]
       /\ \/ worker[w].g = 0 /\ DOMAIN worker[w].todo = {}
          \/ worker[w].g \in Granularities /\ Sound(worker[w].todo, worker[w].g)

(* What the exactness of an hour rests on.  A minute is passed when the    *)
(* next aggregation will not look at it again, or one that runs read it    *)
(* when nothing could be late any more.                                    *)
Recent(t) == now - Width[Hour] < t
Aggregating(w) == worker[w].job = "aggregate" /\ worker[w].g = Minute
Began(w) == now - worker[w].age
Pending(w, t) == Aggregating(w) /\ t \in DOMAIN worker[w].todo

Passed(t) ==
  \/ \E b \in Buckets(Minute) : t + Overlap < b
  \/ \E w \in Workers : Aggregating(w) /\ t + Overlap + 1 < Began(w)

Known(t) ==
  \/ CountAt(rows[Minute], t) = CountAt(ended, t)
  \/ \E w \in Workers : Pending(w, t)

Attempts ==
  /\ \A t \in DOMAIN ended : t <= now
  /\ \A t \in Int : now - KeepRaw <= t => CountAt(raw, t) = CountAt(ended, t)

Busy ==
  /\ mishaps \in Nat
  /\ \A w \in Workers :
       /\ worker[w].age \in 0 .. MaxStall
       /\ worker[w].job \in {"none", "aggregate", "recalculate"}
       /\ Idle(w) => worker[w] = NoJob

Exact(w, t) ==
  /\ t < Began(w)
  /\ Recent(t) /\ t + MaxLate < Began(w) => worker[w].todo[t] = CountAt(ended, t)

Quiet ==
  /\ \A b \in Buckets(Minute) : b < now
  /\ \A w \in Workers : worker[w].job # "recalculate"
  /\ \A w \in Workers : \A t \in Int : Pending(w, t) => Exact(w, t)
  /\ \A t \in Int : Recent(t) /\ Passed(t) => Known(t)

QuietInv == Attempts /\ Busy /\ (mishaps = 0 => Quiet)

(* What the load and the machines have to keep to for an hour to be exact: *)
(* an attempt is stored, and the aggregation that reads it has written, in *)
(* the minutes that are looked at again; what is in the hour is not yet    *)
(* cleaned up.                                                             *)
InTime ==
  /\ MaxLate + MaxStall <= Overlap + 1
  /\ Width[Hour] <= KeepRaw /\ Width[Hour] <= KeepRows[Minute]

-----------------------------------------------------------------------------
(* Truncate. *)
LEMMA Widths ==
  ASSUME NEW g \in Granularities
  PROVE  Width[g] \in Nat \ {0} /\ (IF g = Day THEN Zone ELSE 0) \in Int
BY UsageAssumption DEF Granularities, Minute, Hour, Day

LEMMA TruncateFacts ==
  ASSUME NEW g \in Granularities, NEW t \in Int
  PROVE  /\ Truncate(t, g) \in Int /\ Truncate(t, g) <= t
         /\ t < Truncate(t, g) + Width[g]
         /\ Truncate(Truncate(t, g), g) = Truncate(t, g)
<1> DEFINE w == Width[g]
           z == IF g = Day THEN Zone ELSE 0
           b == t - ((t + z) % w)
<1>1. w \in Nat \ {0} /\ z \in Int
  BY Widths
<1>2. Truncate(t, g) = b
  BY DEF Truncate
<1>3. Truncate(b, g) = b - ((b + z) % w)
  BY DEF Truncate
<1> HIDE DEF w, z
<1>4. b \in Int
  BY <1>1
<1>5. b <= t /\ t < b + w /\ (b + z) % w = 0
  BY <1>1, <1>4, BucketStart
<1> HIDE DEF b
<1>6. QED
  BY <1>2, <1>3, <1>4, <1>5 DEF w

LEMMA AlignedFacts ==
  ASSUME NEW g \in Granularities, NEW b \in Int, Truncate(b, g) = b, NEW t \in Int
  PROVE  /\ Truncate(t, g) = b <=> b <= t /\ t < b + Width[g]
         /\ t < b <=> Truncate(t, g) < b
         /\ t < b <=> Truncate(t, g) + Width[g] <= b
<1> DEFINE w == Width[g]
           z == IF g = Day THEN Zone ELSE 0
<1>1. w \in Nat \ {0} /\ z \in Int
  BY Widths
<1>2. Truncate(t, g) = t - ((t + z) % w) /\ b - ((b + z) % w) = b
  BY DEF Truncate
<1> HIDE DEF w, z
<1>3. (b + z) % w = 0
  <2>1. (b + z) % w \in Int
    BY <1>1
  <2>2. QED
    BY <1>2, <2>1
<1>4. /\ t - ((t + z) % w) = b <=> b <= t /\ t < b + w
      /\ t < b <=> t - ((t + z) % w) < b
      /\ t < b <=> t - ((t + z) % w) + w <= b
  BY <1>1, <1>3, SameBucket
<1>5. QED
  BY <1>2, <1>4 DEF w

(* Every moment begins a minute; where a day begins, an hour does. *)
LEMMA MinutesAligned ==
  ASSUME NEW t \in Int
  PROVE  Truncate(t, Minute) = t /\ Width[Minute] = 1 /\ Minute \in Granularities
BY UsageAssumption DEF Truncate, Minute, Day, Granularities

LEMMA DaysAligned ==
  ASSUME WholeHours, NEW b \in Int, Truncate(b, Day) = b
  PROVE  Truncate(b, Hour) = b
<1> DEFINE h == Width[Hour]
           d == Width[Day]
<1>1. /\ h \in Nat \ {0} /\ d \in Nat \ {0} /\ d % h = 0
      /\ Zone \in Int /\ Zone % h = 0
  BY UsageAssumption DEF WholeHours, Hour, Day
<1>2. (b + Zone) % d = 0 /\ b + Zone \in Int
  <2>1. b = b - ((b + Zone) % d)
    BY DEF Truncate
  <2> HIDE DEF d
  <2>2. QED
    BY <1>1, <2>1
<1>3. Truncate(b, Hour) = b - (b % h)
  BY DEF Truncate, Hour, Day
<1> HIDE DEF h, d
<1>4. PICK k \in Int : b + Zone = d * k + ((b + Zone) % d)
  BY <1>1, <1>2, Quotients, Zenon
<1>5. PICK m \in Int : d = h * m + (d % h)
  <2>1. d \in Int
    BY <1>1
  <2>2. QED
    BY <1>1, <2>1, Quotients, Zenon
<1>6. PICK n \in Int : Zone = h * n + (Zone % h)
  BY <1>1, Quotients, Zenon
<1>7. b = h * (m * k - n) + 0 /\ m * k - n \in Int
  <2>1. b = d * k - h * n /\ d = h * m
    BY <1>1, <1>2, <1>4, <1>5, <1>6
  <2>2. QED
    BY <1>1, <2>1
<1>8. b % h = 0
  <2>1. 0 \in 0 .. (h - 1)
    BY <1>1
  <2>2. (h * (m * k - n) + 0) % h = 0
    BY <1>1, <1>7, <2>1, Remainders
  <2>3. QED
    BY <1>7, <2>2
<1>9. QED
  BY <1>3, <1>8

(* Buckets of one granularity begin where buckets of the finer one do.     *)
LEMMA FinerAligned ==
  ASSUME WholeHours, NEW g \in {Hour, Day}, NEW b \in Int, Truncate(b, g) = b
  PROVE  Truncate(b, g - 1) = b /\ g - 1 \in Granularities
BY DaysAligned, MinutesAligned DEF Minute, Hour, Day, Granularities

-----------------------------------------------------------------------------
(* Totals.                                                                 *)
Window(f, p, q) == {t \in DOMAIN f : p <= t /\ t < q}

LEMMA TotalIsSum ==
  ASSUME NEW f, Counts(f), NEW p, NEW q
  PROVE  /\ Total(f, p, q) = SumFunctionOnSet(f, Window(f, p, q))
         /\ Total(f, p, q) \in Nat
         /\ IsFiniteSet(Window(f, p, q))
<1> DEFINE D == Window(f, p, q)
           r == Restrict(f, D)
<1>1. IsFiniteSet(D) /\ D \subseteq DOMAIN f
  BY FS_Subset DEF Counts, Window
<1>2. Total(f, p, q) = SumFunctionOnSet(r, D)
  BY DEF Total, Between, SumFunction, Window, Restrict
<1>3. \A x \in D : f[x] \in Nat /\ r[x] = f[x]
  BY <1>1 DEF Restrict, Counts
<1> HIDE DEF D, r
<1>4. SumFunctionOnSet(f, D) = SumFunctionOnSet(r, D)
  BY <1>1, <1>3, SumSame
<1>5. SumFunctionOnSet(f, D) \in Nat
  BY <1>1, <1>3, SumType
<1>6. QED
  BY <1>1, <1>2, <1>4, <1>5 DEF D

LEMMA SumIsTotal ==
  ASSUME NEW f, Counts(f)
  PROVE  SumFunction(f) = SumFunctionOnSet(f, DOMAIN f)
BY DEF SumFunction

LEMMA TotalWidens ==
  ASSUME NEW f, Counts(f), NEW p \in Int, NEW q \in Int, NEW u \in Int, NEW v \in Int,
         u <= p, q <= v
  PROVE  Total(f, p, q) <= Total(f, u, v)
<1>1. Window(f, p, q) \in SUBSET Window(f, u, v)
  BY DEF Window, Counts
<1>2. IsFiniteSet(Window(f, u, v)) /\ \A x \in Window(f, u, v) : f[x] \in Nat
  BY TotalIsSum DEF Window, Counts
<1>3. QED
  BY <1>1, <1>2, TotalIsSum, SumOfSubset

LEMMA TotalSplits ==
  ASSUME NEW f, Counts(f), NEW p \in Int, NEW q \in Int, NEW r \in Int, p <= q, q <= r
  PROVE  Total(f, p, r) = Total(f, p, q) + Total(f, q, r)
<1>1. /\ Window(f, p, q) \cup Window(f, q, r) = Window(f, p, r)
      /\ Window(f, p, q) \cap Window(f, q, r) = {}
  BY DEF Window, Counts
<1>2. \A x \in Window(f, p, q) \cup Window(f, q, r) : f[x] \in Nat
  BY DEF Window, Counts
<1>3. QED
  BY <1>1, <1>2, TotalIsSum, SumOfUnion

LEMMA TotalOfNone ==
  ASSUME NEW f, Counts(f), NEW p \in Int, NEW q \in Int, q <= p
  PROVE  Total(f, p, q) = 0
<1>1. Window(f, p, q) = {}
  BY DEF Window, Counts
<1>2. QED
  BY <1>1, TotalIsSum, SumOfNone

(* The rows of one granularity, up to where one of its buckets begins, do  *)
(* not count more than there was.                                          *)
LEMMA SoundTotals ==
  ASSUME Counts(ended), NEW g \in Granularities, NEW f, Sound(f, g),
         NEW p \in Int, NEW q \in Int, Truncate(q, g) = q
  PROVE  Total(f, p, q) <= Total(ended, p, q)
<1> DEFINE D == Window(f, p, q)
           Cover(T) == {t \in DOMAIN ended : Truncate(t, g) \in T}
           G == {T \in SUBSET D :
                   SumFunctionOnSet(f, T) <= SumFunctionOnSet(ended, Cover(T))}
<1>1. /\ IsFiniteSet(D) /\ D \subseteq DOMAIN f /\ DOMAIN f \subseteq Int
      /\ \A b \in D : f[b] \in Nat
  <2>1. Counts(f)
    BY DEF Sound, Within
  <2>2. QED
    BY <2>1, TotalIsSum DEF Counts, Window
<1>2. \A T : IsFiniteSet(Cover(T)) /\ \A t \in Cover(T) : ended[t] \in Nat
  BY FS_Subset DEF Counts
<1>3. {} \in G
  <2>1. Cover({}) = {}
    OBVIOUS
  <2>2. QED
    BY <2>1, SumOfNone
<1>4. ASSUME NEW T \in G, NEW b \in D \ T
      PROVE  T \cup {b} \in G
  <2>1. Truncate(b, g) = b /\ f[b] <= Truth(b, g) /\ b \in Int
    BY <1>1 DEF Sound, Within, Truth
  <2> DEFINE W == Window(ended, b, b + Width[g])
  <2>2. Cover(T \cup {b}) = Cover(T) \cup W /\ Cover(T) \cap W = {}
    <3>1. \A t \in DOMAIN ended : Truncate(t, g) = b <=> t \in W
      BY <2>1, AlignedFacts DEF Window, Counts
    <3>2. QED
      BY <3>1 DEF Window
  <2>3. Truth(b, g) = SumFunctionOnSet(ended, W) /\ IsFiniteSet(W)
    BY TotalIsSum DEF Truth
  <2>4. \A t \in Cover(T) \cup W : ended[t] \in Nat
    BY <2>2, <1>2
  <2>5. SumFunctionOnSet(ended, Cover(T \cup {b})) =
          SumFunctionOnSet(ended, Cover(T)) + SumFunctionOnSet(ended, W)
    <3>1. IsFiniteSet(Cover(T))
      BY <1>2
    <3> HIDE DEF W, Cover
    <3>2. QED
      BY ZenonT(60), <2>2, <2>3, <2>4, <3>1, SumOfUnion
  <2>6. SumFunctionOnSet(f, T \cup {b}) = f[b] + SumFunctionOnSet(f, T)
    <3>1. IsFiniteSet(T \cup {b}) /\ (T \cup {b}) \ {b} = T
      BY <1>1, <1>4, FS_Subset
    <3>2. \A x \in T \cup {b} : f[x] \in Nat
      BY <1>1, <1>4
    <3>3. QED
      BY <3>1, <3>2, SumStep
  <2>7. /\ SumFunctionOnSet(f, T) \in Nat /\ SumFunctionOnSet(ended, Cover(T)) \in Nat
        /\ SumFunctionOnSet(ended, W) \in Nat /\ f[b] \in Nat
    <3>1. IsFiniteSet(T) /\ \A x \in T : f[x] \in Nat
      BY <1>1, <1>4, FS_Subset
    <3>2. QED
      BY <1>1, <1>2, <2>3, <2>4, <3>1, SumType
  <2>8. SumFunctionOnSet(f, T) <= SumFunctionOnSet(ended, Cover(T))
    BY <1>4
  <2>9. SumFunctionOnSet(f, T \cup {b}) <= SumFunctionOnSet(ended, Cover(T \cup {b}))
    BY <2>1, <2>3, <2>5, <2>6, <2>7, <2>8
  <2>10. QED
    BY <1>4, <2>9
<1>5. SumFunctionOnSet(f, D) <= SumFunctionOnSet(ended, Cover(D))
  <2>1. G \in SUBSET SUBSET D
    OBVIOUS
  <2>2. D \in G
    <3> HIDE DEF G, D
    <3>1. QED
      BY <1>1, <1>3, <1>4, <2>1, SetInduction
  <2>3. QED
    BY <2>2
<1>6. Cover(D) \in SUBSET Window(ended, p, q)
  <2>1. ASSUME NEW t \in Cover(D)
        PROVE  p <= t /\ t < q
    <3>1. /\ t \in Int /\ Truncate(t, g) \in Int /\ p <= Truncate(t, g)
          /\ Truncate(t, g) < q /\ Truncate(t, g) <= t
      BY <2>1, TruncateFacts DEF Window, Counts
    <3>2. t < q
      BY <3>1, AlignedFacts
    <3>3. QED
      BY <3>1, <3>2
  <2>2. QED
    BY <2>1 DEF Window
<1>7. SumFunctionOnSet(ended, Cover(D)) <= SumFunctionOnSet(ended, Window(ended, p, q))
  <2>1. \A t \in Window(ended, p, q) : ended[t] \in Nat
    BY DEF Window, Counts
  <2> HIDE DEF Cover, D
  <2>2. QED
    BY <1>6, <2>1, TotalIsSum, SumOfSubset
<1>8. /\ Total(f, p, q) = SumFunctionOnSet(f, D) /\ Total(f, p, q) \in Nat
      /\ Total(ended, p, q) = SumFunctionOnSet(ended, Window(ended, p, q))
      /\ Total(ended, p, q) \in Nat /\ SumFunctionOnSet(ended, Cover(D)) \in Nat
  BY <1>2, TotalIsSum, SumType DEF Sound, Within, Truth
<1> HIDE DEF D, Cover
<1>9. QED
  BY <1>5, <1>7, <1>8

LEMMA MaxOfTwo ==
  ASSUME NEW a \in Int, NEW b \in Int
  PROVE  Max({a, b}) \in {a, b} /\ a <= Max({a, b}) /\ b <= Max({a, b})
<1>1. IsFiniteSet({a, b}) /\ {a, b} # {} /\ {a, b} \in SUBSET Int
  <2>1. IsFiniteSet({a}) /\ {a, b} = {a} \cup {b}
    BY FS_Singleton
  <2>2. QED
    BY <2>1, FS_AddElement
<1>2. QED
  BY <1>1, GreatestInteger

LEMMA MinOfTwo ==
  ASSUME NEW a \in Int, NEW b \in Int
  PROVE  Min({a, b}) \in {a, b} /\ Min({a, b}) <= a /\ Min({a, b}) <= b
<1>1. \E m \in {a, b} : \A y \in {a, b} : m =< y
  <2>1. CASE a <= b
    BY <2>1
  <2>2. CASE ~(a <= b)
    BY <2>2
  <2>3. QED
    BY <2>1, <2>2
<1>2. QED
  BY <1>1 DEF Min

LEMMA OneMinute ==
  ASSUME NEW f, Counts(f), NEW t \in Int
  PROVE  Total(f, t, t + 1) = CountAt(f, t) /\ CountAt(f, t) \in Nat
<1>1. Total(f, t, t + 1) = SumFunctionOnSet(f, Window(f, t, t + 1))
  BY TotalIsSum
<1>2. CASE t \in DOMAIN f
  <2>1. Window(f, t, t + 1) = {t}
    BY <1>2 DEF Window, Counts
  <2>2. IsFiniteSet({t}) /\ f[t] \in Nat /\ {t} \ {t} = {}
    BY <1>2, FS_Singleton DEF Counts
  <2>3. SumFunctionOnSet(f, {t}) = f[t] + SumFunctionOnSet(f, {t} \ {t})
    BY <2>2, SumStep
  <2>4. SumFunctionOnSet(f, {t}) = f[t]
    BY <2>2, <2>3, SumOfNone
  <2>5. QED
    BY <1>1, <1>2, <2>1, <2>2, <2>4 DEF CountAt
<1>3. CASE t \notin DOMAIN f
  <2>1. Window(f, t, t + 1) = {}
    BY <1>3 DEF Window, Counts
  <2>2. QED
    BY <1>1, <1>3, <2>1, SumOfNone DEF CountAt
<1>4. QED
  BY <1>2, <1>3

LEMMA TruthOfMinute ==
  ASSUME Counts(ended), NEW t \in Int
  PROVE  Truth(t, Minute) = CountAt(ended, t)
BY OneMinute, MinutesAligned DEF Truth

LEMMA RawSound ==
  ASSUME OvercountInv
  PROVE  Sound(raw, Minute)
BY TruthOfMinute, MinutesAligned DEF OvercountInv, Sound, Within, Truth, Counts

LEMMA RawBackfillStartType ==
  ASSUME OvercountInv
  PROVE  RawBackfillStart \in Int
<1>1. LatestOr(Buckets(Minute), 0) \in Int
  <2>1. Buckets(Minute) \in SUBSET Int /\ IsFiniteSet(Buckets(Minute))
    BY MinutesAligned DEF OvercountInv, Sound, Within, Truth, Counts, Buckets
  <2> HIDE DEF Buckets
  <2>2. CASE Buckets(Minute) = {}
    BY <2>2 DEF LatestOr
  <2>3. CASE Buckets(Minute) # {}
    BY <2>1, <2>3, GreatestInteger DEF LatestOr
  <2>4. QED
    BY <2>2, <2>3
<1>2. now - RawBackfillWindow \in Int
  BY UsageAssumption DEF RawBackfillWindow, OvercountInv, Hour
<1>3. LatestOr(Buckets(Minute), 0) - Overlap \in Int
  BY <1>1 DEF Overlap
<1>4. QED
  BY <1>2, <1>3, MaxOfTwo DEF RawBackfillStart

(* Where the hour of a moment begins in a zone of whole hours. *)
LEMMA HoursInLocation ==
  ASSUME WholeHours, NEW t \in Int
  PROVE  HourInLocation(t) = Truncate(t, Hour)
<1> DEFINE h == Width[Hour]
<1>1. h \in Nat \ {0} /\ Zone \in Int /\ Zone % h = 0
  BY UsageAssumption DEF WholeHours, Hour
<1>2. PICK n \in Int : Zone = h * n + (Zone % h)
  BY <1>1, Quotients, Zenon
<1>3. PICK k \in Int : t = h * k + (t % h) /\ t % h \in 0 .. (h - 1)
  BY <1>1, Quotients, Zenon
<1>4. HourInLocation(t) = t - ((t + Zone) % h) /\ Truncate(t, Hour) = t - (t % h)
  BY DEF HourInLocation, Truncate, Hour, Day
<1> HIDE DEF h
<1>5. t + Zone = h * (k + n) + (t % h) /\ k + n \in Int
  <2>1. h * (k + n) = h * k + h * n
    BY <1>1
  <2>2. /\ t % h \in Int /\ h * k \in Int /\ h * n \in Int /\ Zone = h * n
        /\ t = h * k + (t % h)
    BY <1>1, <1>2, <1>3
  <2> DEFINE m == t % h
             hk == h * k
             hn == h * n
  <2> HIDE DEF m, hk, hn
  <2>3. t + hn = (hk + hn) + m
    BY <2>2 DEF m, hk, hn
  <2>4. QED
    BY <2>1, <2>2, <2>3 DEF m, hk, hn
<1>6. (h * (k + n) + (t % h)) % h = t % h
  BY <1>1, <1>3, <1>5, Remainders
<1>7. QED
  BY <1>4, <1>5, <1>6

(* What an answer is made of follows one after the other. *)
LEMMA ThreeLayers ==
  ASSUME OvercountInv, NEW p1 \in Int, NEW q1 \in Int, NEW p2 \in Int, NEW q2 \in Int,
         NEW p3 \in Int, NEW q3 \in Int, NEW u \in Int, NEW v \in Int,
         NEW g \in {Hour, Day}, Truncate(q1, g) = q1,
         u <= p1, p1 <= q1, q1 <= p2, q2 <= p3, p2 <= p3, p3 <= q3, q3 <= v
  PROVE  Total(rows[g], p1, q1) + Total(rows[Minute], p2, q2) + Total(raw, p3, q3)
           <= Total(ended, u, v)
<1>1. /\ Counts(ended) /\ Sound(rows[g], g) /\ Sound(rows[Minute], Minute)
      /\ Sound(raw, Minute) /\ g \in Granularities
  BY RawSound DEF OvercountInv, Granularities
<1>2. Total(rows[g], p1, q1) <= Total(ended, u, q1)
  <2>1. Total(rows[g], p1, q1) <= Total(ended, p1, q1)
    BY <1>1, SoundTotals
  <2>2. Total(ended, p1, q1) <= Total(ended, u, q1)
    BY <1>1, TotalWidens
  <2>3. QED
    BY <1>1, <2>1, <2>2, TotalIsSum DEF Sound, Within, Truth
<1>3. Total(rows[Minute], p2, q2) <= Total(ended, q1, p3)
  <2>1. Total(rows[Minute], p2, q2) <= Total(ended, p2, q2)
    BY <1>1, SoundTotals, MinutesAligned
  <2>2. Total(ended, p2, q2) <= Total(ended, q1, p3)
    BY <1>1, TotalWidens
  <2>3. QED
    BY <1>1, <2>1, <2>2, TotalIsSum DEF Sound, Within, Truth
<1>4. Total(raw, p3, q3) <= Total(ended, p3, v)
  <2>1. Total(raw, p3, q3) <= Total(ended, p3, q3)
    BY <1>1, SoundTotals, MinutesAligned
  <2>2. Total(ended, p3, q3) <= Total(ended, p3, v)
    BY <1>1, TotalWidens
  <2>3. QED
    BY <1>1, <2>1, <2>2, TotalIsSum DEF Sound, Within, Truth
<1>5. Total(ended, u, v) = Total(ended, u, q1) + Total(ended, q1, v)
  BY <1>1, TotalSplits
<1>6. Total(ended, q1, v) = Total(ended, q1, p3) + Total(ended, p3, v)
  BY <1>1, TotalSplits
<1>7. /\ Total(ended, u, q1) \in Nat /\ Total(ended, q1, p3) \in Nat
      /\ Total(ended, p3, v) \in Nat /\ Total(rows[g], p1, q1) \in Nat
      /\ Total(rows[Minute], p2, q2) \in Nat /\ Total(raw, p3, q3) \in Nat
  BY <1>1, TotalIsSum DEF Sound, Within, Truth
<1>8. QED
  BY <1>2, <1>3, <1>4, <1>5, <1>6, <1>7

LEMMA TotalOfAll ==
  ASSUME NEW f, Counts(f), NEW p, NEW q
  PROVE  Total(f, p, q) <= SumFunction(f)
<1>1. Window(f, p, q) \in SUBSET DOMAIN f
  BY DEF Window
<1>2. QED
  BY <1>1, SumIsTotal, TotalIsSum, SumOfSubset DEF Counts

LEMMA AnswersNeverOvercount ==
  ASSUME OvercountInv, WholeHours
  PROVE  NeverOvercounts
<1> DEFINE day == Truncate(now, Day)
           hour == Truncate(now, Hour)
           back == RawBackfillStart
<1>1. /\ now \in Int /\ back \in Int /\ day \in Int /\ hour \in Int
      /\ day <= now /\ hour <= now /\ Truncate(day, Day) = day /\ Truncate(hour, Hour) = hour
      /\ now < day + Width[Day] /\ now < hour + Width[Hour]
  BY RawBackfillStartType, TruncateFacts DEF OvercountInv, Granularities
<1>2. day <= hour
  <2>1. Truncate(day, Hour) = day
    BY <1>1, DaysAligned
  <2>2. ~(now < day) /\ Hour \in Granularities
    BY <1>1 DEF Granularities
  <2>3. ~(hour < day)
    BY <1>1, <2>1, <2>2, AlignedFacts
  <2>4. QED
    BY <1>1, <2>3
<1>3. HourInLocation(now) = hour
  BY <1>1, HoursInLocation
<1>4. \A g \in Granularities : \A t \in Buckets(g) : rows[g][t] <= Truth(t, g)
  BY DEF OvercountInv, Sound, Within, Truth, Buckets
<1>5. ASSUME NEW g \in {Hour, Day}
      PROVE  CurrentBucket(g) <= Truth(Truncate(now, g), g)
  <2> DEFINE current == Truncate(now, g)
             real == Min({back, now - 1})
  <2>1. current \in {day, hour} /\ g \in Granularities /\ Width[g] \in Nat
        /\ current + Width[g] >= now + 1 /\ current \in Int
    BY <1>1, <1>5, Widths DEF Granularities
  <2>2. real \in Int
    <3>1. back \in Int /\ now - 1 \in Int
      BY <1>1
    <3> HIDE DEF back
    <3>2. QED
      BY <3>1, MinOfTwo
  <2> HIDE DEF real
  <2>3. /\ Max({day, current}) \in {day, current} /\ current <= Max({day, current})
        /\ Max({day, current}) <= hour
    BY <1>1, <1>2, <2>1, MaxOfTwo
  <2>4. Max({hour, current}) = hour
    BY <1>1, <1>2, <2>1, MaxOfTwo
  <2>5. /\ Max({real, hour}) \in {real, hour} /\ real <= Max({real, hour})
        /\ hour <= Max({real, hour}) /\ Max({real, hour}) \in Int
    BY <1>1, <2>2, MaxOfTwo
  <2>6. Max({real, hour}) <= now + 1
    <3>1. real <= now - 1
      BY <1>1, MinOfTwo DEF real
    <3>2. QED
      BY <1>1, <2>2, <2>5, <3>1
  <2> DEFINE p1 == Max({day, current})
             p3 == Max({real, hour})
  <2>7. CurrentBucket(g) = Total(rows[Hour], p1, hour)
                             + Total(rows[Minute], hour, real) + Total(raw, p3, now + 1)
    BY <1>3, <2>4 DEF CurrentBucket, real
  <2>8. p1 \in Int /\ p3 \in Int /\ now + 1 \in Int /\ current + Width[g] \in Int
    BY <1>1, <2>1, <2>3, <2>5
  <2> HIDE DEF p1, p3, current
  <2>9. Total(rows[Hour], p1, hour) + Total(rows[Minute], hour, real)
          + Total(raw, p3, now + 1) <= Total(ended, current, current + Width[g])
    <3>1. current <= p1 /\ p1 <= hour /\ hour <= hour /\ real <= p3 /\ hour <= p3
          /\ p3 <= now + 1 /\ now + 1 <= current + Width[g]
      BY <1>1, <2>1, <2>3, <2>5, <2>6, <2>8 DEF p1, p3
    <3>2. /\ Hour \in {Hour, Day} /\ hour \in Int /\ Truncate(hour, Hour) = hour
          /\ current \in Int
      BY <1>1, <2>1
    <3> HIDE DEF hour
    <3>3. QED
      BY ZenonT(60), <2>2, <2>8, <3>1, <3>2, ThreeLayers
  <2>10. QED
    BY <2>7, <2>9 DEF Truth, current
<1>6. ProviderTotal <= SumFunction(ended)
  <2> DEFINE d == Truncate(back, Day)
             h == Truncate(back, Hour)
             u == IF d < 0 THEN d ELSE 0
             v == IF now + 1 < back THEN back ELSE now + 1
  <2>1. /\ d \in Int /\ h \in Int /\ d <= back /\ h <= back
        /\ Truncate(d, Day) = d /\ Truncate(h, Hour) = h
        /\ Day \in Granularities /\ Hour \in Granularities /\ Minute \in Granularities
    BY <1>1, TruncateFacts DEF Granularities
  <2>2. d <= h
    <3>1. Truncate(d, Hour) = d
      BY <2>1, DaysAligned
    <3>2. ~(back < d)
      BY <1>1, <2>1
    <3>3. ~(h < d)
      BY <1>1, <2>1, <3>1, <3>2, AlignedFacts
    <3>4. QED
      BY <2>1, <3>3
  <2>3. u \in Int /\ v \in Int /\ u <= d /\ u <= 0 /\ back <= v /\ now + 1 <= v
    BY <1>1, <2>1
  <2>4. ProviderTotal = (Total(rows[Day], 0, d) + Total(rows[Hour], d, h)
                           + Total(rows[Minute], h, back)) + Total(raw, back, now + 1)
    BY <1>1, HoursInLocation DEF ProviderTotal, RowsBefore
  <2>5. /\ Counts(ended) /\ Sound(rows[Day], Day) /\ Sound(rows[Hour], Hour)
        /\ Sound(rows[Minute], Minute) /\ Sound(raw, Minute)
    BY <2>1, RawSound DEF OvercountInv
  <2> HIDE DEF d, h, u, v, back
  <2>6. Total(rows[Day], 0, d) <= Total(ended, u, d)
    <3>1. Total(rows[Day], 0, d) <= Total(ended, 0, d)
      BY <2>1, <2>5, SoundTotals
    <3>2. Total(ended, 0, d) <= Total(ended, u, d)
      BY <2>1, <2>3, <2>5, TotalWidens
    <3>3. QED
      BY <2>5, <3>1, <3>2, TotalIsSum DEF Sound, Within, Truth
  <2>7. Total(rows[Hour], d, h) <= Total(ended, d, h)
    BY <2>1, <2>5, SoundTotals
  <2>8. Total(rows[Minute], h, back) <= Total(ended, h, back)
    BY <1>1, <2>1, <2>5, SoundTotals, MinutesAligned
  <2>9. Total(raw, back, now + 1) <= Total(ended, back, v)
    <3>1. Total(raw, back, now + 1) <= Total(ended, back, now + 1)
      BY <1>1, <2>1, <2>5, SoundTotals, MinutesAligned
    <3>2. Total(ended, back, now + 1) <= Total(ended, back, v)
      BY <1>1, <2>3, <2>5, TotalWidens
    <3>3. QED
      BY <2>5, <3>1, <3>2, TotalIsSum DEF Sound, Within, Truth
  <2>10. /\ Total(ended, u, h) = Total(ended, u, d) + Total(ended, d, h)
         /\ Total(ended, u, back) = Total(ended, u, h) + Total(ended, h, back)
         /\ Total(ended, u, v) = Total(ended, u, back) + Total(ended, back, v)
    <3>1. u <= h /\ u <= back
      BY <1>1, <2>1, <2>2, <2>3
    <3>2. QED
      BY <1>1, <2>1, <2>2, <2>3, <2>5, <3>1, TotalSplits
  <2>11. Total(ended, u, v) <= SumFunction(ended)
    BY <2>5, TotalOfAll
  <2>12. /\ Total(rows[Day], 0, d) \in Nat /\ Total(rows[Hour], d, h) \in Nat
         /\ Total(rows[Minute], h, back) \in Nat /\ Total(raw, back, now + 1) \in Nat
         /\ Total(ended, u, d) \in Nat /\ Total(ended, d, h) \in Nat
         /\ Total(ended, h, back) \in Nat /\ Total(ended, back, v) \in Nat
         /\ SumFunction(ended) \in Nat
    BY <2>5, TotalIsSum, SumIsTotal, SumType DEF Sound, Within, Truth, Counts
  <2>13. QED
    BY <2>4, <2>6, <2>7, <2>8, <2>9, <2>10, <2>11, <2>12
<1>7. QED
  BY <1>4, <1>5, <1>6 DEF NeverOvercounts

-----------------------------------------------------------------------------
(* What is done to rows.                                                   *)
LEMMA SumBelow ==
  ASSUME NEW S, IsFiniteSet(S), NEW f, NEW g,
         \A x \in S : f[x] \in Nat /\ g[x] \in Nat /\ f[x] <= g[x]
  PROVE  SumFunctionOnSet(f, S) <= SumFunctionOnSet(g, S)
<1> DEFINE G == {T \in SUBSET S : SumFunctionOnSet(f, T) <= SumFunctionOnSet(g, T)}
<1>1. {} \in G
  BY SumOfNone
<1>2. ASSUME NEW T \in G, NEW x \in S \ T
      PROVE  T \cup {x} \in G
  <2>1. (T \cup {x}) \ {x} = T /\ IsFiniteSet(T \cup {x}) /\ IsFiniteSet(T)
    BY <1>2, FS_Subset
  <2>2. SumFunctionOnSet(f, T \cup {x}) = f[x] + SumFunctionOnSet(f, T)
    BY <2>1, SumStep
  <2>3. SumFunctionOnSet(g, T \cup {x}) = g[x] + SumFunctionOnSet(g, T)
    BY <2>1, SumStep
  <2>4. /\ SumFunctionOnSet(f, T) \in Nat /\ SumFunctionOnSet(g, T) \in Nat
        /\ SumFunctionOnSet(f, T) <= SumFunctionOnSet(g, T)
    BY <2>1, SumType
  <2>5. QED
    BY <2>2, <2>3, <2>4
<1>3. S \in G
  <2>1. G \in SUBSET SUBSET S
    OBVIOUS
  <2> HIDE DEF G
  <2>2. QED
    BY <1>1, <1>2, <2>1, SetInduction
<1>4. QED
  BY <1>3

Grows(e, f) == \A t \in DOMAIN e : t \in DOMAIN f /\ e[t] <= f[t]

LEMMA TotalGrows ==
  ASSUME NEW e, NEW f, Counts(e), Counts(f), Grows(e, f), NEW p, NEW q
  PROVE  Total(e, p, q) <= Total(f, p, q)
<1> DEFINE D == Window(e, p, q)
<1>1. D \in SUBSET Window(f, p, q) /\ IsFiniteSet(D)
  BY TotalIsSum DEF Window, Grows
<1>2. \A x \in D : e[x] \in Nat /\ f[x] \in Nat /\ e[x] <= f[x]
  BY DEF Window, Grows, Counts
<1>3. \A x \in Window(f, p, q) : f[x] \in Nat
  BY DEF Window, Counts
<1> HIDE DEF D
<1>4. SumFunctionOnSet(e, D) <= SumFunctionOnSet(f, D)
  BY <1>1, <1>2, SumBelow
<1>5. SumFunctionOnSet(f, D) <= SumFunctionOnSet(f, Window(f, p, q))
  BY <1>1, <1>3, TotalIsSum, SumOfSubset
<1>6. SumFunctionOnSet(e, D) \in Nat /\ SumFunctionOnSet(f, D) \in Nat
  BY <1>1, <1>2, SumType
<1>7. QED
  BY <1>4, <1>5, <1>6, TotalIsSum DEF D

LEMMA WithinGrows ==
  ASSUME NEW e, NEW f, Counts(e), Counts(f), Grows(e, f),
         NEW r, NEW g, Within(r, g, e)
  PROVE  Within(r, g, f)
<1>1. ASSUME NEW b \in DOMAIN r
      PROVE  r[b] <= Total(f, b, b + Width[g])
  <2>1. r[b] <= Total(e, b, b + Width[g]) /\ r[b] \in Nat
    BY DEF Within, Counts
  <2>2. Total(e, b, b + Width[g]) <= Total(f, b, b + Width[g])
    BY TotalGrows
  <2>3. QED
    BY <2>1, <2>2, TotalIsSum
<1>2. QED
  BY <1>1 DEF Within

LEMMA WithinRestricted ==
  ASSUME NEW e, NEW r, NEW g, Within(r, g, e), NEW p, NEW q, NEW t
  PROVE  Within(Between(r, p, q), g, e) /\ Within(Without(r, t), g, e)
<1>1. ASSUME NEW S \in SUBSET DOMAIN r
      PROVE  Within(Restrict(r, S), g, e)
  <2>1. IsFiniteSet(S)
    BY FS_Subset DEF Within, Counts
  <2>2. QED
    BY <2>1 DEF Within, Counts, Restrict
<1>2. QED
  BY <1>1 DEF Between, Without

LEMMA WithinPut ==
  ASSUME NEW e, NEW r, NEW g, Within(r, g, e), NEW t \in Int, NEW n \in Nat,
         Truncate(t, g) = t, n <= Total(e, t, t + Width[g])
  PROVE  Within(Put(r, t, n), g, e)
<1>1. IsFiniteSet(DOMAIN r \cup {t})
  BY FS_AddElement DEF Within, Counts
<1>2. /\ DOMAIN Put(r, t, n) = DOMAIN r \cup {t}
      /\ \A x \in DOMAIN r \cup {t} : Put(r, t, n)[x] = IF x = t THEN n ELSE r[x]
  BY DEF Put
<1>3. QED
  BY <1>1, <1>2 DEF Within, Counts

LEMMA WithinNone ==
  ASSUME NEW e, NEW g
  PROVE  Within(NoRows, g, e) /\ DOMAIN NoRows = {}
<1>1. DOMAIN NoRows = {}
  BY DEF NoRows
<1>2. QED
  BY <1>1, FS_EmptySet DEF Within, Counts

LEMMA NextBucket ==
  ASSUME NEW g \in Granularities, NEW b \in Int, Truncate(b, g) = b
  PROVE  Truncate(b + Width[g], g) = b + Width[g] /\ b + Width[g] \in Int
<1> DEFINE t == b + Width[g]
           c == Truncate(t, g)
<1>1. t \in Int /\ Width[g] \in Nat \ {0}
  BY Widths
<1>2. c \in Int /\ c <= t /\ t < c + Width[g] /\ Truncate(c, g) = c
  BY <1>1, TruncateFacts
<1>3. b < c
  BY <1>1, <1>2
<1>4. b + Width[g] <= c
  BY <1>2, <1>3, AlignedFacts
<1>5. QED
  BY <1>1, <1>2, <1>4

LEMMA Starts ==
  ASSUME NEW g \in Granularities, NEW S \in SUBSET Int, IsFiniteSet(S),
         NEW B, B = {Truncate(t, g) : t \in S}
  PROVE  IsFiniteSet(B) /\ \A b \in B : b \in Int /\ Truncate(b, g) = b
<1> DEFINE F == [t \in S |-> Truncate(t, g)]
<1>1. F \in Surjection(S, B)
  BY DEF Surjection
<1> HIDE DEF F
<1>2. IsFiniteSet(B)
  BY <1>1, FS_Surjection
<1>3. QED
  BY <1>2, TruncateFacts

(* Rows made by adding up finer ones. *)
LEMMA SummedSound ==
  ASSUME Counts(ended), WholeHours, NEW g \in {Hour, Day}, NEW f, Sound(f, g - 1),
         NEW B, IsFiniteSet(B), \A b \in B : b \in Int /\ Truncate(b, g) = b
  PROVE  Sound([b \in B |-> Total(f, b, b + Width[g])], g)
<1>1. g \in Granularities /\ g - 1 \in Granularities /\ Counts(f)
  BY DEF Granularities, Minute, Hour, Day, Sound, Within
<1>2. ASSUME NEW b \in B
      PROVE  /\ Total(f, b, b + Width[g]) \in Nat
             /\ Total(f, b, b + Width[g]) <= Total(ended, b, b + Width[g])
  <2>1. Truncate(b + Width[g], g) = b + Width[g] /\ b + Width[g] \in Int
    BY <1>1, NextBucket
  <2>2. Truncate(b + Width[g], g - 1) = b + Width[g]
    BY <2>1, FinerAligned
  <2>3. QED
    BY <1>1, <2>1, <2>2, SoundTotals, TotalIsSum
<1>3. QED
  BY <1>2 DEF Sound, Within, Counts

(* Rolling up, whatever the moment it starts from.                         *)
LEMMA RolledUpSound ==
  ASSUME OvercountInv, WholeHours, NEW g \in {Hour, Day}, NEW from
  PROVE  Sound(RolledUp(g, from), g)
<1> DEFINE source == Between(rows[g - 1], from, Truncate(now, g))
           B == {Truncate(t, g) : t \in DOMAIN source}
<1>1. g \in Granularities /\ g - 1 \in Granularities /\ Counts(ended)
  BY DEF Granularities, Minute, Hour, Day, OvercountInv
<1>2. Sound(source, g - 1) /\ Counts(source)
  <2>1. Within(rows[g - 1], g - 1, ended)
    BY <1>1 DEF OvercountInv, Sound
  <2>2. Within(source, g - 1, ended)
    BY <2>1, WithinRestricted
  <2>3. QED
    BY <2>2 DEF Sound, Within
<1>3. RolledUp(g, from) = [b \in B |-> Total(source, b, b + Width[g])]
  BY DEF RolledUp
<1> HIDE DEF source
<1>4. IsFiniteSet(B) /\ \A b \in B : b \in Int /\ Truncate(b, g) = b
  BY <1>1, <1>2, Starts DEF Counts
<1> HIDE DEF B
<1>5. QED
  BY <1>1, <1>2, <1>3, <1>4, SummedSound

-----------------------------------------------------------------------------
(* No step makes a row count more than there was.                          *)
LEMMA InitNeverOvercounts ==
  ASSUME UsageInit, WholeHours
  PROVE  OvercountInv
<1>1. PICK History \in Histories : ended = [t \in History |-> 1]
  BY DEF UsageInit
<1>2. History \subseteq 0 .. (First - 1) /\ First \in Nat
  BY <1>1, UsageAssumption
<1>3. IsFiniteSet(History) /\ History \subseteq Int
  <2>1. IsFiniteSet(0 .. (First - 1))
    BY <1>2, FS_Interval
  <2>2. IsFiniteSet(History)
    BY <1>2, <2>1, FS_Subset, Zenon
  <2>3. QED
    BY <1>2, <2>2
<1>4. Counts(ended) /\ raw = ended /\ now \in Nat
  BY <1>1, <1>2, <1>3 DEF Counts, UsageInit
<1>5. Sound(raw, Minute)
  BY <1>4, TruthOfMinute, MinutesAligned DEF Sound, Within, Truth, Counts, CountAt
<1>6. ASSUME NEW g \in Granularities
      PROVE  Sound(rows[g], g)
  <2> DEFINE B == {Truncate(t, g) : t \in DOMAIN raw}
             C == {b \in B : b + Width[g] <= First}
  <2>1. rows[g] = [b \in C |-> Total(raw, b, b + Width[g])]
    BY DEF UsageInit
  <2>2. IsFiniteSet(B) /\ \A b \in B : b \in Int /\ Truncate(b, g) = b
    BY <1>4, Starts DEF Counts
  <2>3. IsFiniteSet(C) /\ C \subseteq B
    BY <2>2, FS_Subset
  <2> HIDE DEF B, C
  <2>4. \A b \in C : /\ Total(raw, b, b + Width[g]) \in Nat
                     /\ Total(raw, b, b + Width[g]) = Total(ended, b, b + Width[g])
    BY <1>4, TotalIsSum
  <2>5. QED
    BY <2>1, <2>2, <2>3, <2>4 DEF Sound, Within, Counts
<1>7. \A w \in Workers : worker[w] = NoJob /\ DOMAIN NoJob.todo = {} /\ NoJob.g = 0
  BY WithinNone DEF UsageInit, NoJob
<1>8. \A t \in DOMAIN raw : raw[t] <= CountAt(ended, t)
  BY <1>4 DEF CountAt, Counts
<1>9. DOMAIN rows = Granularities /\ DOMAIN worker = Workers
  BY DEF UsageInit
<1>10. QED
  BY <1>4, <1>6, <1>7, <1>8, <1>9 DEF OvercountInv, NoJob

LEMMA GivenSound ==
  ASSUME OvercountInv, NEW w \in Workers, NEW job, NEW g, NEW todo, Give(w, job, g, todo),
         \/ g = 0 /\ DOMAIN todo = {}
         \/ g \in Granularities /\ Sound(todo, g),
         DOMAIN rows' = Granularities,
         \A h \in Granularities : Sound(rows'[h], h)
  PROVE  OvercountInv'
<1>1. /\ now' = now /\ ended' = ended /\ raw' = raw
      /\ worker' = [worker EXCEPT ![w] = [job |-> job, g |-> g, todo |-> todo,
                                          age |-> worker[w].age]]
  BY DEF Give
<1>2. ASSUME NEW v \in Workers
      PROVE  /\ worker'[v] = [job |-> worker'[v].job, g |-> worker'[v].g,
                              todo |-> worker'[v].todo, age |-> worker'[v].age]
             /\ \/ worker'[v].g = 0 /\ DOMAIN worker'[v].todo = {}
                \/ worker'[v].g \in Granularities /\ Sound(worker'[v].todo, worker'[v].g)
  BY <1>1, <1>2 DEF OvercountInv
<1>3. QED
  BY <1>1, <1>2 DEF OvercountInv, Sound, Counts, CountAt

LEMMA AggregateMinuteNeverOvercounts ==
  ASSUME OvercountInv, NEW w \in Workers, AggregateMinute(w)
  PROVE  OvercountInv'
<1>1. Within(raw, Minute, ended)
  BY RawSound DEF Sound
<1>2. Within(Between(raw, MinuteStart, now), Minute, ended)
  BY <1>1, WithinRestricted
<1>3. Give(w, "aggregate", Minute, Between(raw, MinuteStart, now)) /\ rows' = rows
  BY DEF AggregateMinute
<1>4. QED
  BY <1>2, <1>3, GivenSound, MinutesAligned DEF OvercountInv, Sound

LEMMA ClearStatsNeverOvercounts ==
  ASSUME OvercountInv, NEW w \in Workers, ClearStats(w)
  PROVE  OvercountInv'
<1>1. Give(w, "recalculate", 0, NoRows) /\ rows' = [g \in Granularities |-> NoRows]
  BY DEF ClearStats
<1>2. \A g \in Granularities : Sound(rows'[g], g)
  BY <1>1, WithinNone DEF Sound
<1>3. QED
  BY <1>1, <1>2, WithinNone, GivenSound

LEMMA AggregateAllNeverOvercounts ==
  ASSUME OvercountInv, NEW w \in Workers, AggregateAllMinutes(w)
  PROVE  OvercountInv'
<1>1. Within(raw, Minute, ended)
  BY RawSound DEF Sound
<1>2. Within(Between(raw, 0, now), Minute, ended)
  BY <1>1, WithinRestricted
<1>3. Give(w, "recalculate", Minute, Between(raw, 0, now)) /\ rows' = rows
  BY DEF AggregateAllMinutes
<1>4. QED
  BY <1>2, <1>3, GivenSound, MinutesAligned DEF OvercountInv, Sound

LEMMA UpsertNeverOvercounts ==
  ASSUME OvercountInv, NEW w \in Workers, Upsert(w)
  PROVE  OvercountInv'
<1> DEFINE g == worker[w].g
           todo == worker[w].todo
<1>1. PICK t \in DOMAIN todo :
        /\ rows' = [rows EXCEPT ![g] = Put(@, t, todo[t])]
        /\ Give(w, worker[w].job, g, Without(todo, t))
  BY DEF Upsert
<1>2. g \in Granularities /\ Within(todo, g, ended)
  BY <1>1 DEF OvercountInv, Sound
<1>3. Within(rows[g], g, ended)
  BY <1>2 DEF OvercountInv, Sound
<1>4. /\ t \in Int /\ todo[t] \in Nat /\ Truncate(t, g) = t
      /\ todo[t] <= Total(ended, t, t + Width[g])
  BY <1>1, <1>2 DEF Within, Counts
<1> HIDE DEF g, todo
<1>5. Within(Put(rows[g], t, todo[t]), g, ended)
  BY <1>3, <1>4, WithinPut
<1>6. Within(Without(todo, t), g, ended)
  BY <1>2, WithinRestricted
<1>7. DOMAIN rows' = Granularities /\ \A h \in Granularities : Sound(rows'[h], h)
  BY <1>1, <1>2, <1>5 DEF OvercountInv, Sound
<1>8. QED
  BY <1>1, <1>2, <1>6, <1>7, GivenSound DEF Sound

LEMMA RollUpNeverOvercounts ==
  ASSUME OvercountInv, WholeHours, NEW w \in Workers, RollUp(w)
  PROVE  OvercountInv'
<1> DEFINE g == worker[w].g + 1
           from == IF worker[w].job = "recalculate" THEN 0 ELSE RollUpStart(g)
<1>1. Give(w, worker[w].job, g, RolledUp(g, from)) /\ rows' = rows
  BY DEF RollUp
<1>2. g \in {Hour, Day} /\ g \in Granularities
  BY DEF RollUp, Granularities, Minute, Hour, Day
<1> HIDE DEF g, from
<1>3. Sound(RolledUp(g, from), g)
  BY <1>2, RolledUpSound
<1>4. QED
  BY <1>1, <1>2, <1>3, GivenSound DEF OvercountInv

LEMMA StoppedSound ==
  ASSUME OvercountInv, NEW w \in Workers, worker' = [worker EXCEPT ![w] = NoJob],
         UNCHANGED <<now, ended, raw, rows>>
  PROVE  OvercountInv'
<1>1. /\ NoJob = [job |-> NoJob.job, g |-> NoJob.g, todo |-> NoJob.todo, age |-> NoJob.age]
      /\ NoJob.g = 0 /\ DOMAIN NoJob.todo = {}
  BY WithinNone DEF NoJob
<1>2. ASSUME NEW v \in Workers
      PROVE  /\ worker'[v] = [job |-> worker'[v].job, g |-> worker'[v].g,
                              todo |-> worker'[v].todo, age |-> worker'[v].age]
             /\ \/ worker'[v].g = 0 /\ DOMAIN worker'[v].todo = {}
                \/ worker'[v].g \in Granularities /\ Sound(worker'[v].todo, worker'[v].g)
  <2>1. CASE v = w
    BY <1>1, <2>1 DEF OvercountInv
  <2>2. CASE v # w
    BY <2>2 DEF OvercountInv
  <2>3. QED
    BY <2>1, <2>2
<1>3. QED
  BY <1>2 DEF OvercountInv, Sound, Counts, CountAt

LEMMA Incremented ==
  ASSUME NEW f, Counts(f), NEW t \in Int
  PROVE  /\ Counts(Increment(f, t)) /\ Grows(f, Increment(f, t))
         /\ \A x \in Int : CountAt(Increment(f, t), x) =
                             IF x = t THEN CountAt(f, x) + 1 ELSE CountAt(f, x)
         /\ DOMAIN Increment(f, t) = DOMAIN f \cup {t}
<1> DEFINE n == CountAt(f, t) + 1
<1>1. n \in Nat /\ (t \in DOMAIN f => f[t] <= n)
  BY DEF CountAt, Counts
<1>2. IsFiniteSet(DOMAIN f \cup {t})
  BY FS_AddElement DEF Counts
<1>3. /\ DOMAIN Increment(f, t) = DOMAIN f \cup {t}
      /\ \A x \in DOMAIN f \cup {t} : Increment(f, t)[x] = IF x = t THEN n ELSE f[x]
  BY DEF Increment, Put
<1>4. \A x \in Int : CountAt(Increment(f, t), x) =
                       IF x = t THEN CountAt(f, x) + 1 ELSE CountAt(f, x)
  BY <1>3 DEF CountAt
<1> HIDE DEF n
<1>5. QED
  BY <1>1, <1>2, <1>3, <1>4 DEF Counts, Grows

LEMMA EndAttemptNeverOvercounts ==
  ASSUME OvercountInv, NEW t \in Int, EndAttempt(t)
  PROVE  OvercountInv'
<1>1. /\ ended' = Increment(ended, t) /\ raw' = Increment(raw, t)
      /\ now' = now /\ rows' = rows /\ worker' = worker
  BY DEF EndAttempt
<1>2. /\ Counts(ended) /\ Counts(ended') /\ Grows(ended, ended')
      /\ Counts(raw) /\ Counts(raw')
  BY <1>1, Incremented DEF OvercountInv
<1>3. \A x \in DOMAIN raw' : raw'[x] <= CountAt(ended', x)
  <2>1. \A x \in Int : CountAt(raw, x) <= CountAt(ended, x)
    BY <1>2, OneMinute DEF OvercountInv, CountAt
  <2>2. \A x \in Int : CountAt(raw', x) <= CountAt(ended', x)
    <3>1. ASSUME NEW x \in Int
          PROVE  CountAt(raw', x) <= CountAt(ended', x)
      <4>1. /\ CountAt(raw', x) = IF x = t THEN CountAt(raw, x) + 1 ELSE CountAt(raw, x)
            /\ CountAt(ended', x) =
                 IF x = t THEN CountAt(ended, x) + 1 ELSE CountAt(ended, x)
        BY <1>1, <1>2, Incremented
      <4>2. CountAt(raw, x) \in Nat /\ CountAt(ended, x) \in Nat
        BY <1>2, OneMinute
      <4>3. QED
        BY <2>1, <4>1, <4>2
    <3>2. QED
      BY <3>1
  <2>3. QED
    BY <1>2, <2>2 DEF CountAt, Counts
<1>4. \A r, g : Within(r, g, ended) => Within(r, g, ended')
  BY <1>2, WithinGrows
<1>5. QED
  BY <1>1, <1>2, <1>3, <1>4 DEF OvercountInv, Sound

LEMMA CleanupNeverOvercounts ==
  ASSUME OvercountInv, Cleanup
  PROVE  OvercountInv'
<1>1. /\ raw' = Between(raw, now - KeepRaw, now + 1)
      /\ rows' = [g \in Granularities |->
                    IF g = Day THEN rows[g]
                    ELSE Between(rows[g], now - KeepRows[g], now + 1)]
      /\ now' = now /\ ended' = ended /\ worker' = worker
  BY DEF Cleanup
<1>2. \A g \in Granularities : Within(rows'[g], g, ended)
  BY <1>1, WithinRestricted DEF OvercountInv, Sound
<1>3. Within(raw', Minute, ended)
  BY <1>1, RawSound, WithinRestricted DEF Sound
<1>4. \A t \in DOMAIN raw' : t \in DOMAIN raw /\ raw'[t] = raw[t]
  BY <1>1 DEF Between, Restrict
<1>5. QED
  BY ZenonT(60), <1>1, <1>2, <1>3, <1>4 DEF OvercountInv, Sound, Within, Counts, CountAt

LEMMA TickNeverOvercounts ==
  ASSUME OvercountInv, Tick
  PROVE  OvercountInv'
<1>1. /\ now' = now + 1 /\ ended' = ended /\ raw' = raw /\ rows' = rows
      /\ worker' = [w \in Workers |-> IF Idle(w) THEN NoJob
                                      ELSE [worker[w] EXCEPT !.age = @ + 1]]
  BY DEF Tick
<1>2. /\ NoJob = [job |-> NoJob.job, g |-> NoJob.g, todo |-> NoJob.todo, age |-> NoJob.age]
      /\ NoJob.g = 0 /\ DOMAIN NoJob.todo = {}
  BY WithinNone DEF NoJob
<1>3. ASSUME NEW w \in Workers
      PROVE  /\ worker'[w] = [job |-> worker'[w].job, g |-> worker'[w].g,
                              todo |-> worker'[w].todo, age |-> worker'[w].age]
             /\ \/ worker'[w].g = 0 /\ DOMAIN worker'[w].todo = {}
                \/ worker'[w].g \in Granularities /\ Sound(worker'[w].todo, worker'[w].g)
  <2>1. CASE Idle(w)
    BY <1>1, <1>2, <2>1
  <2>2. CASE ~Idle(w)
    <3>1. worker'[w] = [worker[w] EXCEPT !.age = @ + 1]
      BY <1>1, <2>2
    <3>2. worker'[w] = [job |-> worker[w].job, g |-> worker[w].g,
                        todo |-> worker[w].todo, age |-> worker[w].age + 1]
      BY <3>1 DEF OvercountInv
    <3>3. QED
      BY <3>2 DEF OvercountInv
  <2>3. QED
    BY <2>1, <2>2
<1>4. now' \in Nat /\ DOMAIN worker' = Workers
  BY <1>1 DEF OvercountInv
<1>5. QED
  BY <1>1, <1>3, <1>4 DEF OvercountInv, Sound, Counts, CountAt

LEMMA NextNeverOvercounts ==
  ASSUME OvercountInv, WholeHours, [UsageNext]_usageVars
  PROVE  OvercountInv'
<1>1. CASE UNCHANGED usageVars
  BY <1>1 DEF OvercountInv, Sound, Within, Counts, CountAt, usageVars
<1>2. ASSUME NEW w \in Workers, Aggregation(w)
      PROVE  OvercountInv'
  <2>1. CASE AggregateMinute(w)
    BY <2>1, AggregateMinuteNeverOvercounts
  <2>2. CASE Upsert(w)
    BY <2>2, UpsertNeverOvercounts
  <2>3. CASE RollUp(w)
    BY <2>3, RollUpNeverOvercounts
  <2>4. CASE Finish(w)
    BY <2>4, StoppedSound DEF Finish
  <2>5. QED
    BY <1>2, <2>1, <2>2, <2>3, <2>4 DEF Aggregation
<1>3. ASSUME NEW w \in Workers, ClearStats(w)
      PROVE  OvercountInv'
  BY <1>3, ClearStatsNeverOvercounts
<1>4. ASSUME NEW w \in Workers, AggregateAllMinutes(w)
      PROVE  OvercountInv'
  BY <1>4, AggregateAllNeverOvercounts
<1>5. ASSUME NEW w \in Workers, Fail(w)
      PROVE  OvercountInv'
  BY <1>5, StoppedSound DEF Fail
<1>6. ASSUME NEW t \in Times, EndAttempt(t)
      PROVE  OvercountInv'
  BY <1>6, EndAttemptNeverOvercounts, UsageAssumption DEF Times
<1>7. CASE Cleanup
  BY <1>7, CleanupNeverOvercounts
<1>8. CASE Tick
  BY <1>8, TickNeverOvercounts
<1>9. QED
  BY <1>1, <1>2, <1>3, <1>4, <1>5, <1>6, <1>7, <1>8 DEF UsageNext

(* No attempt is counted twice, in no row and in no answer: whatever the   *)
(* number of instances, widths of buckets, retentions and histories, and   *)
(* however aggregations, recalculations, failures and clean-ups interleave,*)
(* in a time zone that is whole hours from UTC.                            *)
THEOREM NothingIsCountedTwice ==
  ASSUME WholeHours
  PROVE  UsageSpec => []NeverOvercounts
<1>1. UsageInit => OvercountInv
  BY InitNeverOvercounts
<1>2. OvercountInv /\ [UsageNext]_usageVars => OvercountInv'
  BY NextNeverOvercounts
<1>3. OvercountInv => NeverOvercounts
  BY AnswersNeverOvercount
<1>4. QED
  BY <1>1, <1>2, <1>3, PTL DEF UsageSpec

-----------------------------------------------------------------------------
(* A quiet hour is exact.                                                  *)
LEMMA TotalBelow ==
  ASSUME NEW e, NEW f, Counts(e), Counts(f), NEW p \in Int, NEW q \in Int,
         \A t \in Int : p <= t /\ t < q => CountAt(e, t) <= CountAt(f, t)
  PROVE  Total(e, p, q) <= Total(f, p, q)
<1> DEFINE D == Window(e, p, q)
           G == {T \in SUBSET D :
                   SumFunctionOnSet(e, T) <= SumFunctionOnSet(f, T \cap DOMAIN f)}
<1>1. {} \in G
  <2>1. {} \cap DOMAIN f = {}
    OBVIOUS
  <2>2. QED
    BY <2>1, SumOfNone
<1>2. /\ IsFiniteSet(D) /\ \A x \in D : e[x] \in Nat /\ x \in Int
      /\ \A x \in DOMAIN f : f[x] \in Nat
  BY TotalIsSum DEF Window, Counts
<1>3. ASSUME NEW T \in G, NEW x \in D \ T
      PROVE  T \cup {x} \in G
  <2> DEFINE U == T \cap DOMAIN f
  <2>1. /\ (T \cup {x}) \ {x} = T /\ IsFiniteSet(T \cup {x}) /\ IsFiniteSet(T)
        /\ IsFiniteSet(U) /\ \A y \in T \cup {x} : e[y] \in Nat
    BY <1>2, <1>3, FS_Subset
  <2>2. SumFunctionOnSet(e, T \cup {x}) = e[x] + SumFunctionOnSet(e, T)
    BY <2>1, SumStep
  <2>3. /\ SumFunctionOnSet(e, T) \in Nat /\ SumFunctionOnSet(f, U) \in Nat
        /\ SumFunctionOnSet(e, T) <= SumFunctionOnSet(f, U) /\ e[x] \in Nat
    BY <1>2, <1>3, <2>1, SumType
  <2>4. CountAt(e, x) <= CountAt(f, x) /\ CountAt(e, x) = e[x]
    BY <1>2, <1>3 DEF Window, CountAt
  <2>5. CASE x \in DOMAIN f
    <3>1. (T \cup {x}) \cap DOMAIN f = U \cup {x} /\ x \notin U
      BY <1>3, <2>5
    <3>2. (U \cup {x}) \ {x} = U /\ IsFiniteSet(U \cup {x})
          /\ \A y \in U \cup {x} : f[y] \in Nat
      BY <1>2, <2>1, <2>5, <3>1, FS_AddElement
    <3> HIDE DEF U
    <3>3. SumFunctionOnSet(f, U \cup {x}) = f[x] + SumFunctionOnSet(f, U)
      BY <3>2, SumStep
    <3>4. e[x] <= f[x] /\ f[x] \in Nat
      BY <1>2, <2>4, <2>5 DEF CountAt
    <3>5. SumFunctionOnSet(e, T \cup {x}) <= SumFunctionOnSet(f, U \cup {x})
      BY <2>2, <2>3, <3>3, <3>4
    <3>6. QED
      BY <1>3, <3>1, <3>5
  <2>6. CASE x \notin DOMAIN f
    <3>1. (T \cup {x}) \cap DOMAIN f = U
      BY <2>6
    <3>2. e[x] = 0
      BY <2>3, <2>4, <2>6 DEF CountAt
    <3> HIDE DEF U
    <3>3. SumFunctionOnSet(e, T \cup {x}) <= SumFunctionOnSet(f, U)
      BY <2>2, <2>3, <3>2
    <3>4. QED
      BY <1>3, <3>1, <3>3
  <2>7. QED
    BY <2>5, <2>6
<1>4. D \in G
  <2>1. G \in SUBSET SUBSET D
    OBVIOUS
  <2> HIDE DEF G, D
  <2>2. QED
    BY <1>1, <1>2, <1>3, <2>1, SetInduction
<1>5. /\ IsFiniteSet(D \cap DOMAIN f)
      /\ D \cap DOMAIN f \in SUBSET Window(f, p, q)
  BY <1>2, FS_Subset DEF Window
<1>6. SumFunctionOnSet(f, D \cap DOMAIN f) <= SumFunctionOnSet(f, Window(f, p, q))
  <2>1. \A x \in Window(f, p, q) : f[x] \in Nat
    BY <1>2 DEF Window
  <2> HIDE DEF D
  <2>2. QED
    BY <1>5, <2>1, TotalIsSum, SumOfSubset
<1>7. SumFunctionOnSet(e, D) <= SumFunctionOnSet(f, D \cap DOMAIN f)
  BY <1>4
<1>8. /\ SumFunctionOnSet(e, D) \in Nat /\ SumFunctionOnSet(f, D \cap DOMAIN f) \in Nat
      /\ SumFunctionOnSet(f, Window(f, p, q)) \in Nat
      /\ Total(e, p, q) = SumFunctionOnSet(e, D)
      /\ Total(f, p, q) = SumFunctionOnSet(f, Window(f, p, q))
  BY <1>2, <1>5, TotalIsSum, SumType
<1> HIDE DEF D
<1>9. QED
  BY <1>6, <1>7, <1>8

LEMMA TotalSame ==
  ASSUME NEW e, NEW f, Counts(e), Counts(f), NEW p \in Int, NEW q \in Int,
         \A t \in Int : p <= t /\ t < q => CountAt(e, t) = CountAt(f, t)
  PROVE  Total(e, p, q) = Total(f, p, q)
<1>1. \A t \in Int : CountAt(e, t) \in Nat /\ CountAt(f, t) \in Nat
  BY OneMinute
<1>2. Total(e, p, q) <= Total(f, p, q)
  BY <1>1, TotalBelow
<1>3. Total(f, p, q) <= Total(e, p, q)
  BY <1>1, TotalBelow
<1>4. QED
  BY <1>2, <1>3, TotalIsSum

LEMMA HoursFromZero == Truncate(0, Hour) = 0
<1> DEFINE h == Width[Hour]
<1>1. h \in Nat \ {0}
  BY UsageAssumption DEF Hour
<1>2. Truncate(0, Hour) = 0 - ((0 + 0) % h)
  BY DEF Truncate, Hour, Day
<1> HIDE DEF h
<1>3. 0 \in Int /\ 0 \in 0 .. (h - 1) /\ h * 0 + 0 = 0
  BY <1>1
<1>4. (h * 0 + 0) % h = 0
  BY <1>1, <1>3, Remainders
<1>5. QED
  BY <1>2, <1>3, <1>4

LEMMA QuietAnswer ==
  ASSUME OvercountInv, WholeHours, InTime, QuietInv
  PROVE  QuietHourIsExact
<1> SUFFICES ASSUME mishaps = 0, \A w \in Workers : Idle(w)
             PROVE  CurrentBucket(Hour) = Truth(Truncate(now, Hour), Hour)
  BY DEF QuietHourIsExact
<1> DEFINE day == Truncate(now, Day)
           hour == Truncate(now, Hour)
           back == RawBackfillStart
           real == Min({back, now - 1})
           p3 == Max({real, hour})
           end == hour + Width[Hour]
<1>1. /\ now \in Nat /\ back \in Int /\ day \in Int /\ hour \in Int
      /\ day <= now /\ hour <= now /\ Truncate(day, Day) = day /\ Truncate(hour, Hour) = hour
      /\ now < hour + Width[Hour] /\ Width[Hour] \in Nat
      /\ Hour \in Granularities /\ Minute \in Granularities
  BY RawBackfillStartType, TruncateFacts, Widths DEF OvercountInv, Granularities
<1>2. day <= hour /\ 0 <= hour
  <2>1. Truncate(day, Hour) = day
    BY <1>1, DaysAligned
  <2>2. ~(now < day) /\ ~(now < 0)
    BY <1>1
  <2>3. Truncate(0, Hour) = 0
    BY HoursFromZero
  <2>4. ~(hour < day) /\ ~(hour < 0)
    BY <1>1, <2>1, <2>2, <2>3, AlignedFacts
  <2>5. QED
    BY <1>1, <2>4
<1>3. HourInLocation(now) = hour
  BY <1>1, HoursInLocation
<1>4. real \in Int /\ real <= now - 1 /\ real <= back
  <2>1. back \in Int /\ now - 1 \in Int
    BY <1>1
  <2> DEFINE last == now - 1
  <2> HIDE DEF back, last
  <2>2. Min({back, last}) \in {back, last} /\ Min({back, last}) <= back
        /\ Min({back, last}) <= last
    BY <2>1, MinOfTwo DEF last
  <2>3. real = Min({back, last}) /\ last = now - 1
    BY DEF last
  <2> HIDE DEF real
  <2>4. QED
    BY <2>1, <2>2, <2>3
<1>5. Max({day, hour}) = hour /\ Max({hour, hour}) = hour
  <2> HIDE DEF day, hour, real, back
  <2>1. Max({day, hour}) \in {day, hour} /\ hour <= Max({day, hour})
    BY <1>1, MaxOfTwo
  <2>2. Max({hour, hour}) \in {hour, hour}
    BY <1>1, MaxOfTwo
  <2>3. QED
    BY <1>1, <1>2, <2>1, <2>2
<1> HIDE DEF real
<1>6. p3 \in {real, hour} /\ real <= p3 /\ hour <= p3 /\ p3 \in Int /\ p3 <= now + 1
  <2>1. p3 \in {real, hour} /\ real <= p3 /\ hour <= p3
    BY <1>1, <1>4, MaxOfTwo
  <2>2. QED
    BY <1>1, <1>4, <2>1
<1>7. CurrentBucket(Hour) = Total(rows[Hour], hour, hour)
                              + Total(rows[Minute], hour, real) + Total(raw, p3, now + 1)
  BY <1>3, <1>5 DEF CurrentBucket, real
<1>8. /\ Counts(ended) /\ Counts(raw) /\ Counts(rows[Hour]) /\ Counts(rows[Minute])
  BY <1>1 DEF OvercountInv, Sound, Within
<1>9. Total(rows[Hour], hour, hour) = 0
  BY <1>1, <1>8, TotalOfNone
<1>10. ASSUME NEW t \in Int, hour <= t, t < real
       PROVE  CountAt(rows[Minute], t) = CountAt(ended, t)
  <2>1. Recent(t)
    BY <1>1, <1>10 DEF Recent
  <2>2. now - RawBackfillWindow <= t
    <3>1. RawBackfillWindow = 2 * Width[Hour]
      BY DEF RawBackfillWindow
    <3>2. QED
      BY <1>1, <1>10, <3>1
  <2> DEFINE latest == LatestOr(Buckets(Minute), 0)
  <2>3. /\ latest \in Int
        /\ Buckets(Minute) # {} => latest \in Buckets(Minute)
        /\ Buckets(Minute) = {} => latest = 0
    <3>1. Buckets(Minute) \in SUBSET Int /\ IsFiniteSet(Buckets(Minute))
      BY <1>8 DEF Counts, Buckets
    <3> HIDE DEF Buckets
    <3>2. CASE Buckets(Minute) = {}
      BY <3>2 DEF LatestOr
    <3>3. CASE Buckets(Minute) # {}
      <4>1. Max(Buckets(Minute)) \in Buckets(Minute)
        BY <3>1, <3>3, GreatestInteger
      <4>2. QED
        BY <3>1, <3>3, <4>1 DEF LatestOr
    <3>4. QED
      BY <3>2, <3>3
  <2>4. back = Max({now - RawBackfillWindow, latest - Overlap})
    BY DEF RawBackfillStart
  <2>5. t < back
    BY <1>1, <1>4, <1>10
  <2> HIDE DEF latest, back
  <2>6. t < latest - Overlap
    <3>1. now - RawBackfillWindow \in Int /\ latest - Overlap \in Int
      BY <1>1, <2>3 DEF RawBackfillWindow, Overlap
    <3>2. back \in {now - RawBackfillWindow, latest - Overlap}
      BY <2>4, <3>1, MaxOfTwo
    <3>3. QED
      BY <2>2, <2>5, <3>1, <3>2
  <2>7. Buckets(Minute) # {}
    BY <1>1, <1>2, <1>10, <2>3, <2>6 DEF Overlap
  <2>8. Passed(t)
    BY <2>3, <2>6, <2>7 DEF Passed, Overlap
  <2>9. Known(t)
    BY <2>1, <2>8 DEF QuietInv, Quiet
  <2>10. \A w \in Workers : ~Pending(w, t)
    BY DEF Pending, Aggregating, Idle
  <2>11. QED
    BY <2>9, <2>10 DEF Known
<1>11. Total(rows[Minute], hour, real) = Total(ended, hour, real)
  BY <1>1, <1>4, <1>8, <1>10, TotalSame
<1>12. Total(raw, p3, now + 1) = Total(ended, p3, now + 1)
  <2>1. ASSUME NEW t \in Int, p3 <= t, t < now + 1
        PROVE  CountAt(raw, t) = CountAt(ended, t)
    <3>1. now - KeepRaw <= t
      BY <1>1, <1>6, <2>1, UsageAssumption DEF InTime
    <3>2. QED
      BY <3>1 DEF QuietInv, Attempts
  <2> HIDE DEF p3
  <2>2. QED
    BY <1>1, <1>6, <1>8, <2>1, TotalSame
<1>13. Total(ended, now + 1, end) = 0
  <2>1. Window(ended, now + 1, end) = {}
    BY <1>1, <1>8 DEF Window, QuietInv, Attempts, Counts
  <2>2. QED
    BY <1>8, <2>1, TotalIsSum, SumOfNone
<1>14. Total(ended, hour, real) + Total(ended, p3, now + 1) = Total(ended, hour, now + 1)
  <2>1. CASE hour <= real
    <3>1. p3 = real
      BY <1>1, <1>4, <1>6, <2>1
    <3>2. QED
      BY <1>1, <1>4, <1>6, <1>8, <2>1, <3>1, TotalSplits
  <2>2. CASE ~(hour <= real)
    <3>1. p3 = hour
      BY <1>1, <1>4, <1>6, <2>2
    <3>2. Total(ended, hour, real) = 0
      BY <1>1, <1>4, <1>8, <2>2, TotalOfNone
    <3>3. QED
      BY <1>8, <3>1, <3>2, TotalIsSum
  <2>3. QED
    BY <2>1, <2>2
<1>15. Total(ended, hour, end) = Total(ended, hour, now + 1) + Total(ended, now + 1, end)
  BY <1>1, <1>8, TotalSplits
<1>16. /\ Total(ended, hour, real) \in Nat /\ Total(ended, p3, now + 1) \in Nat
       /\ Total(ended, hour, now + 1) \in Nat
  BY <1>8, TotalIsSum
<1>17. QED
  BY <1>7, <1>9, <1>11, <1>12, <1>13, <1>14, <1>15, <1>16 DEF Truth

LEMMA Numbers ==
  ASSUME OvercountInv, InTime
  PROVE  /\ now \in Nat /\ MaxLate \in Nat /\ MaxStall \in Nat /\ KeepRaw \in Nat
         /\ Width[Hour] \in Nat /\ KeepRows[Minute] \in Nat /\ Overlap = 2
         /\ MaxLate + MaxStall <= 3
         /\ Width[Hour] <= KeepRaw /\ Width[Hour] <= KeepRows[Minute]
         /\ Minute \in Granularities /\ Buckets(Minute) = DOMAIN rows[Minute]
         /\ Counts(rows[Minute]) /\ Counts(raw) /\ Counts(ended)
<1>1. Minute \in Granularities /\ Hour \in Granularities
  BY DEF Granularities
<1>2. Counts(rows[Minute])
  BY <1>1 DEF OvercountInv, Sound, Within
<1>3. /\ MaxLate \in Nat /\ MaxStall \in Nat /\ KeepRaw \in Nat
      /\ Width[Hour] \in Nat /\ KeepRows[Minute] \in Nat
  BY UsageAssumption DEF Hour, Minute
<1>4. Overlap = 2 /\ MaxLate + MaxStall <= 3
  BY <1>3 DEF Overlap, InTime
<1>5. QED
  BY <1>1, <1>2, <1>3, <1>4 DEF OvercountInv, InTime, Buckets

(* A minute is passed only when no attempt of it can be late any more.     *)
LEMMA PassedEarlier ==
  ASSUME OvercountInv, InTime, Busy, Quiet, NEW t \in Int, Passed(t)
  PROVE  t + 3 < now
<1>1. CASE \E b \in Buckets(Minute) : t + Overlap < b
  <2>1. PICK b \in Buckets(Minute) : t + Overlap < b
    BY <1>1
  <2>2. b < now /\ b \in Int /\ now \in Int /\ Overlap = 2
    BY <2>1, Numbers DEF Quiet, Counts
  <2>3. QED
    BY <2>1, <2>2
<1>2. CASE \E w \in Workers : Aggregating(w) /\ t + Overlap + 1 < Began(w)
  <2>1. PICK w \in Workers : t + Overlap + 1 < Began(w)
    BY <1>2
  <2>2. now \in Int /\ Overlap = 2 /\ worker[w].age \in Nat
    BY Numbers DEF Busy
  <2>3. QED
    BY <2>1, <2>2 DEF Began
<1>3. QED
  BY <1>1, <1>2 DEF Passed

LEMMA LeastInteger ==
  ASSUME NEW S \in SUBSET Int, IsFiniteSet(S), NEW x \in S
  PROVE  Min(S) \in S /\ Min(S) <= x
<1> DEFINE N == {0 - y : y \in S}
           F == [y \in S |-> 0 - y]
<1>1. F \in Surjection(S, N)
  BY DEF Surjection
<1>2. N \in SUBSET Int /\ N # {}
  OBVIOUS
<1> HIDE DEF F, N
<1>3. IsFiniteSet(N)
  BY <1>1, FS_Surjection
<1>4. Max(N) \in N /\ \A y \in N : y <= Max(N)
  BY <1>2, <1>3, GreatestInteger
<1>5. PICK m \in S : Max(N) = 0 - m
  BY <1>4 DEF N
<1>6. \A y \in S : m =< y
  <2>1. \A y \in S : 0 - y <= 0 - m
    BY <1>4, <1>5 DEF N
  <2>2. QED
    BY <2>1
<1>7. \E k \in S : \A y \in S : k =< y
  BY <1>6
<1>8. Min(S) \in S /\ \A y \in S : Min(S) =< y
  BY <1>7 DEF Min
<1>9. QED
  BY <1>8

LEMMA InitQuiet ==
  ASSUME UsageInit, WholeHours
  PROVE  QuietInv
<1>1. PICK History \in Histories : ended = [t \in History |-> 1]
  BY DEF UsageInit
<1>2. /\ \A t \in History : t \in Int /\ t < First
      /\ First \in Nat /\ now = First /\ raw = ended /\ DOMAIN raw = History
  <2>1. First \in Nat /\ \A t \in History : t \in 0 .. (First - 1)
    BY UsageAssumption
  <2>2. \A t \in History : t \in Int /\ t < First
    BY <2>1
  <2>3. QED
    BY <1>1, <2>1, <2>2 DEF UsageInit
<1>3. Counts(raw)
  BY <1>2, InitNeverOvercounts DEF OvercountInv
<1>4. DOMAIN rows[Minute] = History /\ \A b \in History : rows[Minute][b] = raw[b]
  <2> DEFINE C == {b \in {Truncate(t, Minute) : t \in DOMAIN raw} : b + Width[Minute] <= First}
  <2>1. rows[Minute] = [b \in C |-> Total(raw, b, b + Width[Minute])]
    BY MinutesAligned DEF UsageInit
  <2>2. \A b \in History : b \in Int /\ Truncate(b, Minute) = b /\ Width[Minute] = 1
    BY <1>2, MinutesAligned
  <2>3. C = History
    BY <1>2, <2>2
  <2>4. \A b \in History : Total(raw, b, b + Width[Minute]) = raw[b]
    BY <1>2, <1>3, <2>2, OneMinute DEF CountAt
  <2> HIDE DEF C
  <2>5. rows[Minute] = [b \in History |-> Total(raw, b, b + Width[Minute])]
    BY <2>1, <2>3, Zenon
  <2>6. /\ DOMAIN rows[Minute] = History
        /\ \A b \in History : rows[Minute][b] = Total(raw, b, b + Width[Minute])
    BY <2>5
  <2>7. QED
    BY <2>4, <2>6, Zenon
<1>5. Attempts
  BY <1>2 DEF Attempts
<1>6. Busy
  BY UsageAssumption DEF UsageInit, Busy, NoJob
<1>7. Quiet
  <2>1. \A b \in Buckets(Minute) : b < now
    <3>1. Buckets(Minute) = History
      BY <1>4 DEF Buckets
    <3>2. QED
      BY <1>2, <3>1
  <2>2. \A w \in Workers : worker[w].job = "none"
    BY DEF UsageInit, NoJob
  <2>3. \A t \in Int : Known(t)
    BY <1>2, <1>4 DEF Known, CountAt
  <2>4. QED
    BY <2>1, <2>2, <2>3 DEF Quiet, Pending, Aggregating
<1>8. QED
  BY <1>5, <1>6, <1>7 DEF QuietInv

LEMMA AggregateMinuteQuiet ==
  ASSUME OvercountInv, InTime, QuietInv, NEW w \in Workers, AggregateMinute(w)
  PROVE  QuietInv'
<1> DEFINE todo == Between(raw, MinuteStart, now)
<1>1. /\ now' = now /\ ended' = ended /\ raw' = raw /\ rows' = rows /\ mishaps' = mishaps
      /\ worker[w] = NoJob /\ DOMAIN worker = Workers
      /\ worker' = [worker EXCEPT ![w] = [job |-> "aggregate", g |-> Minute, todo |-> todo,
                                          age |-> worker[w].age]]
  BY DEF AggregateMinute, Give, QuietInv, Busy, OvercountInv
<1>2. /\ worker'[w] = [job |-> "aggregate", g |-> Minute, todo |-> todo, age |-> 0]
      /\ \A v \in Workers \ {w} : worker'[v] = worker[v]
  BY <1>1 DEF NoJob
<1>3. Attempts'
  BY <1>1 DEF QuietInv, Attempts, CountAt
<1>4. Busy'
  <2>1. ASSUME NEW v \in Workers
        PROVE  /\ worker'[v].age \in 0 .. MaxStall
               /\ worker'[v].job \in {"none", "aggregate", "recalculate"}
               /\ worker'[v].job = "none" => worker'[v] = NoJob
    <3>1. CASE v = w
      BY <1>2, <3>1, Numbers
    <3>2. CASE v # w
      BY <1>2, <3>2 DEF QuietInv, Busy, Idle
    <3>3. QED
      BY <3>1, <3>2
  <2>2. QED
    BY <1>1, <2>1 DEF Busy, QuietInv, Idle
<1>5. ASSUME mishaps = 0
      PROVE  Quiet'
  <2>0. Quiet /\ Busy /\ Attempts
    BY <1>5 DEF QuietInv
  <2>1. (\A b \in Buckets(Minute) : b < now)'
    BY <1>1, <2>0 DEF Quiet, Buckets
  <2>2. \A v \in Workers : worker'[v].job # "recalculate"
    BY <1>2, <2>0 DEF Quiet
  <2>3. \A t \in DOMAIN todo : t \in DOMAIN raw /\ t < now /\ todo[t] = raw[t]
    BY DEF Between, Restrict
  <2>4. \A t \in Int : Recent(t) => CountAt(raw, t) = CountAt(ended, t)
    BY <2>0, Numbers DEF Attempts, Recent
  <2>5. ASSUME NEW v \in Workers, NEW t \in Int, Pending(v, t)'
        PROVE  Exact(v, t)'
    <3>1. CASE v = w
      <4>1. t \in DOMAIN todo /\ worker'[v].todo = todo /\ worker'[v].age = 0
        BY <1>2, <2>5, <3>1 DEF Pending
      <4>2. t < now - 0 /\ (Recent(t) => todo[t] = CountAt(ended, t))
        BY <2>3, <2>4, <4>1, Numbers DEF CountAt
      <4>3. QED
        BY <1>1, <4>1, <4>2 DEF Exact, Began, Recent, CountAt
    <3>2. CASE v # w
      <4>1. worker'[v] = worker[v]
        BY <1>2, <3>2
      <4>2. Pending(v, t)
        BY <2>5, <4>1 DEF Pending, Aggregating
      <4>3. Exact(v, t)
        BY <2>0, <4>2 DEF Quiet
      <4>4. QED
        BY <1>1, <4>1, <4>3 DEF Exact, Began, Recent, CountAt
    <3>3. QED
      BY <3>1, <3>2
  <2>6. ASSUME NEW t \in Int, Recent(t)', Passed(t)'
        PROVE  Known(t)'
    <3>1. Recent(t)
      BY <1>1, <2>6 DEF Recent
    <3>2. ASSUME Known(t)
          PROVE  Known(t)'
      <4>1. CASE CountAt(rows[Minute], t) = CountAt(ended, t)
        BY <1>1, <4>1 DEF Known, CountAt
      <4>2. CASE \E v \in Workers : Pending(v, t)
        <5>1. PICK v \in Workers : Pending(v, t)
          BY <4>2
        <5>2. v # w
          BY <1>1, <5>1 DEF Pending, Aggregating, NoJob
        <5>3. Pending(v, t)'
          BY <1>2, <5>1, <5>2 DEF Pending, Aggregating
        <5>4. QED
          BY <5>3 DEF Known
      <4>3. QED
        BY <3>2, <4>1, <4>2 DEF Known
    <3>3. CASE Passed(t)
      BY <2>0, <3>1, <3>2, <3>3 DEF Quiet
    <3>4. CASE ~Passed(t)
      <4>1. t + 3 < now
        <5>1. PICK v \in Workers : Aggregating(v)' /\ (t + Overlap + 1 < Began(v))'
          BY <1>1, <2>6, <3>4 DEF Passed, Buckets
        <5>2. v = w
          BY <1>1, <1>2, <3>4, <5>1 DEF Passed, Aggregating, Began
        <5>3. QED
          BY <1>1, <1>2, <5>1, <5>2, Numbers DEF Began
      <4>2. CASE t \in DOMAIN todo
        BY <1>2, <4>2 DEF Known, Pending, Aggregating
      <4>3. CASE t \notin DOMAIN raw
        <5>1. CountAt(ended, t) = 0
          BY <2>4, <3>1, <4>3 DEF CountAt
        <5>2. CountAt(rows[Minute], t) \in Nat /\ CountAt(rows[Minute], t) <= CountAt(ended, t)
          <6>1. Sound(rows[Minute], Minute)
            BY Numbers DEF OvercountInv
          <6>2. \A b \in DOMAIN rows[Minute] : rows[Minute][b] <= Truth(b, Minute)
            BY <6>1 DEF Sound, Within, Truth
          <6>3. Truth(t, Minute) = CountAt(ended, t)
            BY Numbers, TruthOfMinute
          <6>4. CountAt(rows[Minute], t) \in Nat /\ CountAt(ended, t) \in Nat
            BY Numbers, OneMinute
          <6>5. QED
            BY <6>2, <6>3, <6>4 DEF CountAt
        <5>3. Known(t)
          BY <5>1, <5>2 DEF Known
        <5>4. QED
          BY <3>2, <5>3
      <4>4. CASE t \in DOMAIN raw /\ t \notin DOMAIN todo
        <5>1. ~(MinuteStart <= t)
          BY <4>1, <4>4, Numbers DEF Between, Restrict
        <5>2. CASE Buckets(Minute) # {}
          <6>1. Max(Buckets(Minute)) \in Buckets(Minute) /\ Max(Buckets(Minute)) \in Int
            BY <5>2, GreatestInteger, Numbers DEF Counts
          <6>2. MinuteStart = Max(Buckets(Minute)) - Overlap
            BY <5>2 DEF MinuteStart
          <6>3. t + Overlap < Max(Buckets(Minute))
            BY <5>1, <6>1, <6>2, Numbers
          <6>4. QED
            BY <3>4, <6>1, <6>3 DEF Passed
        <5>3. CASE Buckets(Minute) = {}
          <6>1. MinuteStart = Min(Attempted)
            BY <4>4, <5>3 DEF MinuteStart, Attempted
          <6>2. Min(Attempted) <= t
            BY <4>4, LeastInteger, Numbers DEF Attempted, Counts
          <6>3. QED
            BY <5>1, <6>1, <6>2
        <5>4. QED
          BY <5>2, <5>3
      <4>5. QED
        BY <4>2, <4>3, <4>4
    <3>5. QED
      BY <3>3, <3>4
  <2>7. QED
    BY <2>1, <2>2, <2>5, <2>6 DEF Quiet
<1>6. QED
  BY <1>1, <1>3, <1>4, <1>5 DEF QuietInv

(* A worker that is not aggregating minutes may do anything to its job.    *)
LEMMA OtherJobQuiet ==
  ASSUME OvercountInv, InTime, QuietInv, NEW w \in Workers, NEW job, NEW g, NEW todo, NEW age,
         worker' = [worker EXCEPT ![w] = [job |-> job, g |-> g, todo |-> todo, age |-> age]],
         UNCHANGED <<now, ended, raw, mishaps>>, rows'[Minute] = rows[Minute],
         job \in {"none", "aggregate", "recalculate"}, age \in 0 .. MaxStall,
         job = "none" => [job |-> job, g |-> g, todo |-> todo, age |-> age] = NoJob,
         mishaps = 0 => job # "recalculate",
         Aggregating(w) => DOMAIN worker[w].todo = {},
         job = "aggregate" => g # Minute
  PROVE  QuietInv'
<1>1. /\ worker'[w] = [job |-> job, g |-> g, todo |-> todo, age |-> age]
      /\ \A v \in Workers \ {w} : worker'[v] = worker[v]
  BY DEF OvercountInv
<1>2. Attempts'
  BY DEF QuietInv, Attempts, CountAt
<1>3. Busy'
  <2>1. ASSUME NEW v \in Workers
        PROVE  /\ worker'[v].age \in 0 .. MaxStall
               /\ worker'[v].job \in {"none", "aggregate", "recalculate"}
               /\ worker'[v].job = "none" => worker'[v] = NoJob
    <3>1. CASE v = w
      BY <1>1, <3>1
    <3>2. CASE v # w
      BY <1>1, <3>2 DEF QuietInv, Busy, Idle
    <3>3. QED
      BY <3>1, <3>2
  <2>2. QED
    BY <2>1 DEF Busy, QuietInv, Idle
<1>4. \A v \in Workers : Aggregating(v)' => v # w /\ worker'[v] = worker[v] /\ Aggregating(v)
  BY <1>1 DEF Aggregating
<1>5. ASSUME mishaps = 0
      PROVE  Quiet'
  <2>0. Quiet
    BY <1>5 DEF QuietInv
  <2>1. (\A b \in Buckets(Minute) : b < now)'
    BY <2>0 DEF Quiet, Buckets
  <2>2. \A v \in Workers : worker'[v].job # "recalculate"
    BY <1>1, <1>5, <2>0 DEF Quiet
  <2>3. ASSUME NEW v \in Workers, NEW t \in Int, Pending(v, t)'
        PROVE  Exact(v, t)'
    <3>1. worker'[v] = worker[v] /\ Pending(v, t)
      BY <1>4, <2>3 DEF Pending
    <3>2. Exact(v, t)
      BY <2>0, <3>1 DEF Quiet
    <3>3. QED
      BY <3>1, <3>2 DEF Exact, Began, Recent, CountAt
  <2>4. ASSUME NEW t \in Int, Recent(t)', Passed(t)'
        PROVE  Known(t)'
    <3>1. Recent(t) /\ Passed(t)
      BY <1>4, <2>4 DEF Recent, Passed, Began, Buckets
    <3>2. Known(t)
      BY <2>0, <3>1 DEF Quiet
    <3>3. \A v \in Workers : Pending(v, t) => Pending(v, t)'
      BY <1>1 DEF Pending, Aggregating
    <3>4. QED
      BY <3>2, <3>3 DEF Known, CountAt
  <2>5. QED
    BY <2>1, <2>2, <2>3, <2>4 DEF Quiet
<1>6. QED
  BY <1>2, <1>3, <1>5 DEF QuietInv

LEMMA RollUpQuiet ==
  ASSUME OvercountInv, InTime, QuietInv, NEW w \in Workers, RollUp(w)
  PROVE  QuietInv'
<1> DEFINE job == worker[w].job
           g == worker[w].g + 1
           todo == RolledUp(g, IF job = "recalculate" THEN 0 ELSE RollUpStart(g))
           age == worker[w].age
<1>1. /\ worker' = [worker EXCEPT ![w] = [job |-> job, g |-> g, todo |-> todo, age |-> age]]
      /\ UNCHANGED <<now, ended, raw, mishaps>> /\ rows'[Minute] = rows[Minute]
  BY DEF RollUp, Give
<1>2. (Aggregating(w) => DOMAIN worker[w].todo = {}) /\ worker[w].g # 0 /\ g # Minute
  BY WithinNone DEF RollUp, Written, Minute, Hour
<1>3. /\ job \in {"none", "aggregate", "recalculate"} /\ age \in 0 .. MaxStall
      /\ mishaps = 0 => job # "recalculate"
  BY DEF QuietInv, Busy, Quiet
<1>4. job # "none"
  BY <1>2 DEF QuietInv, Busy, Idle, NoJob
<1>5. job = "none" => [job |-> job, g |-> g, todo |-> todo, age |-> age] = NoJob
  BY <1>4
<1>6. job = "aggregate" => g # Minute
  BY <1>2
<1> HIDE DEF job, g, todo, age
<1>7. QED
  BY <1>1, <1>2, <1>3, <1>5, <1>6, OtherJobQuiet

LEMMA FinishQuiet ==
  ASSUME OvercountInv, InTime, QuietInv, NEW w \in Workers, Finish(w)
  PROVE  QuietInv'
<1>1. /\ worker' = [worker EXCEPT ![w] = [job |-> "none", g |-> 0, todo |-> NoRows, age |-> 0]]
      /\ UNCHANGED <<now, ended, raw, mishaps>> /\ rows'[Minute] = rows[Minute]
  BY DEF Finish, NoJob
<1>2. ~Aggregating(w) /\ "none" # "aggregate" /\ "none" # "recalculate"
  BY DEF Finish, Aggregating, Minute, Day
<1>3. /\ 0 \in 0 .. MaxStall /\ "none" \in {"none", "aggregate", "recalculate"}
      /\ [job |-> "none", g |-> 0, todo |-> NoRows, age |-> 0] = NoJob
  BY Numbers DEF NoJob
<1>4. QED
  BY <1>1, <1>2, <1>3, OtherJobQuiet, Zenon

LEMMA UpsertQuiet ==
  ASSUME OvercountInv, InTime, QuietInv, NEW w \in Workers, Upsert(w)
  PROVE  QuietInv'
<1> DEFINE job == worker[w].job
           g == worker[w].g
           todo == worker[w].todo
           age == worker[w].age
<1>1. PICK n \in DOMAIN todo :
        /\ rows' = [rows EXCEPT ![g] = Put(rows[g], n, todo[n])]
        /\ worker' = [worker EXCEPT ![w] = [job |-> job, g |-> g, todo |-> Without(todo, n),
                                            age |-> age]]
        /\ UNCHANGED <<now, ended, raw, mishaps>>
  BY DEF Upsert, Give
<1>2. /\ g \in Granularities /\ Sound(todo, g) /\ Counts(todo) /\ n \in Int
  <2>1. g \in Granularities /\ Sound(todo, g)
    BY <1>1 DEF OvercountInv
  <2>2. QED
    BY <1>1, <2>1 DEF Sound, Within, Counts
<1>3. job \in {"aggregate", "recalculate"} /\ age \in 0 .. MaxStall
      /\ (mishaps = 0 => job = "aggregate")
  <2>1. ~Idle(w)
    BY <1>1, WithinNone DEF QuietInv, Busy, NoJob
  <2>2. QED
    BY <2>1 DEF QuietInv, Busy, Quiet, Idle
<1>4. /\ worker'[w] = [job |-> job, g |-> g, todo |-> Without(todo, n), age |-> age]
      /\ \A v \in Workers \ {w} : worker'[v] = worker[v]
  BY <1>1 DEF OvercountInv
<1>5. Attempts'
  BY <1>1 DEF QuietInv, Attempts, CountAt
<1>6. Busy'
  <2>1. ASSUME NEW v \in Workers
        PROVE  /\ worker'[v].age \in 0 .. MaxStall
               /\ worker'[v].job \in {"none", "aggregate", "recalculate"}
               /\ worker'[v].job = "none" => worker'[v] = NoJob
    <3>1. CASE v = w
      BY <1>3, <1>4, <3>1
    <3>2. CASE v # w
      BY <1>4, <3>2 DEF QuietInv, Busy, Idle
    <3>3. QED
      BY <3>1, <3>2
  <2>2. QED
    BY <1>1, <2>1 DEF Busy, QuietInv, Idle
<1>7. /\ DOMAIN Without(todo, n) = DOMAIN todo \ {n}
      /\ \A t \in DOMAIN todo \ {n} : Without(todo, n)[t] = todo[t]
  BY DEF Without, Restrict
<1>8. \A v \in Workers : \A t \in Int :
        /\ Aggregating(v)' <=> Aggregating(v)
        /\ Pending(v, t)' <=> Pending(v, t) /\ (v # w \/ t # n)
        /\ Began(v)' = Began(v)
        /\ Pending(v, t)' => worker'[v].todo[t] = worker[v].todo[t]
  BY <1>1, <1>4, <1>7 DEF Aggregating, Pending, Began
<1>9. ASSUME mishaps = 0
      PROVE  Quiet'
  <2>0. Quiet /\ Busy
    BY <1>9 DEF QuietInv
  <2>1. \A v \in Workers : worker'[v].job # "recalculate"
    BY <1>3, <1>4, <1>9, <2>0 DEF Quiet
  <2>2. ASSUME NEW v \in Workers, NEW t \in Int, Pending(v, t)'
        PROVE  Exact(v, t)'
    <3>1. Pending(v, t) /\ Began(v)' = Began(v) /\ worker'[v].todo[t] = worker[v].todo[t]
      BY <1>8, <2>2
    <3>2. Exact(v, t)
      BY <2>0, <3>1 DEF Quiet
    <3>3. QED
      BY <1>1, <3>1, <3>2 DEF Exact, Recent, CountAt
  <2>3. CASE g # Minute
    <3>1. rows'[Minute] = rows[Minute] /\ ~Aggregating(w)
      BY <1>1, <2>3 DEF Aggregating
    <3>2. \A v \in Workers : \A t \in Int : Pending(v, t)' <=> Pending(v, t)
      BY <1>8, <3>1 DEF Pending
    <3>3. ASSUME NEW t \in Int, Recent(t)', Passed(t)'
          PROVE  Known(t)'
      <4>1. Recent(t) /\ Passed(t)
        BY <1>1, <1>8, <3>1, <3>3 DEF Recent, Passed, Buckets
      <4>2. Known(t)
        BY <2>0, <4>1 DEF Quiet
      <4>3. QED
        BY <1>1, <3>1, <3>2, <4>2 DEF Known, CountAt
    <3>4. (\A b \in Buckets(Minute) : b < now)'
      BY <1>1, <2>0, <3>1 DEF Quiet, Buckets
    <3>5. QED
      BY <2>1, <2>2, <3>3, <3>4 DEF Quiet
  <2>4. CASE g = Minute
    <3>1. /\ rows'[Minute] = Put(rows[Minute], n, todo[n])
          /\ Buckets(Minute)' = Buckets(Minute) \cup {n}
          /\ \A t \in Int : CountAt(rows[Minute], t)' =
                              IF t = n THEN todo[n] ELSE CountAt(rows[Minute], t)
      <4>1. rows'[Minute] = Put(rows[Minute], n, todo[n])
        BY <1>1, <2>4, Numbers DEF OvercountInv
      <4>2. /\ DOMAIN Put(rows[Minute], n, todo[n]) = DOMAIN rows[Minute] \cup {n}
            /\ \A t \in DOMAIN rows[Minute] \cup {n} :
                 Put(rows[Minute], n, todo[n])[t] = IF t = n THEN todo[n] ELSE rows[Minute][t]
        BY DEF Put
      <4>3. QED
        BY <4>1, <4>2 DEF Buckets, CountAt
    <3>2. Pending(w, n)
      BY <1>1, <1>3, <1>9, <2>4 DEF Pending, Aggregating
    <3>3. Exact(w, n)
      BY <1>2, <2>0, <3>2 DEF Quiet
    <3>4. Began(w) \in Int /\ Began(w) <= now /\ now - MaxStall <= Began(w) /\ n < Began(w)
      BY <1>3, <3>3, Numbers DEF Began, Exact
    <3>5. (\A b \in Buckets(Minute) : b < now)'
      BY <1>1, <1>2, <2>0, <3>1, <3>4, Numbers DEF Quiet, Counts
    <3>6. ASSUME NEW t \in Int, Recent(t)', Passed(t)'
          PROVE  Known(t)'
      <4>1. Recent(t)
        BY <1>1, <3>6 DEF Recent
      <4>2. Passed(t)
        <5>1. CASE \E b \in Buckets(Minute) : t + Overlap < b
          BY <5>1 DEF Passed
        <5>2. CASE \E v \in Workers : Aggregating(v)' /\ (t + Overlap + 1 < Began(v))'
          BY <1>8, <5>2 DEF Passed
        <5>3. CASE t + Overlap < n
          <6>1. t + Overlap + 1 < Began(w)
            BY <1>2, <3>4, <5>3, Numbers
          <6>2. QED
            BY <3>2, <6>1 DEF Passed, Pending
        <5>4. QED
          BY <3>1, <3>6, <5>1, <5>2, <5>3 DEF Passed
      <4>3. Known(t)
        BY <2>0, <4>1, <4>2 DEF Quiet
      <4>4. CASE t = n
        <5>1. t + 3 < now
          BY <2>0, <4>2, PassedEarlier
        <5>2. n + MaxLate < Began(w)
          BY <1>2, <3>4, <4>4, <5>1, Numbers
        <5>3. todo[n] = CountAt(ended, n)
          BY <3>3, <4>1, <4>4, <5>2 DEF Exact
        <5>4. QED
          BY <1>1, <3>1, <4>4, <5>3 DEF Known, CountAt
      <4>5. CASE t # n
        <5>1. CountAt(rows[Minute], t)' = CountAt(rows[Minute], t)
          BY <3>1, <4>5
        <5>2. \A v \in Workers : Pending(v, t) => Pending(v, t)'
          BY <1>8, <4>5
        <5>3. CountAt(ended, t)' = CountAt(ended, t)
          BY <1>1 DEF CountAt
        <5>4. QED
          BY <4>3, <5>1, <5>2, <5>3 DEF Known
      <4>6. QED
        BY <4>4, <4>5
    <3>7. QED
      BY <2>1, <2>2, <3>5, <3>6 DEF Quiet
  <2>5. QED
    BY <2>3, <2>4
<1>10. QED
  BY <1>1, <1>5, <1>6, <1>9 DEF QuietInv

(* After a failure or a recalculation nothing is claimed.                  *)
LEMMA MishapQuiet ==
  ASSUME OvercountInv, QuietInv, NEW w \in Workers, NEW job, NEW g, NEW todo, NEW age,
         worker' = [worker EXCEPT ![w] = [job |-> job, g |-> g, todo |-> todo, age |-> age]],
         UNCHANGED <<now, ended, raw>>, mishaps' \in Nat, mishaps' # 0,
         job \in {"none", "aggregate", "recalculate"}, age \in 0 .. MaxStall,
         job = "none" => [job |-> job, g |-> g, todo |-> todo, age |-> age] = NoJob
  PROVE  QuietInv'
<1>1. /\ worker'[w] = [job |-> job, g |-> g, todo |-> todo, age |-> age]
      /\ \A v \in Workers \ {w} : worker'[v] = worker[v]
  BY DEF OvercountInv
<1>2. Attempts'
  BY DEF QuietInv, Attempts, CountAt
<1>3. ASSUME NEW v \in Workers
      PROVE  /\ worker'[v].age \in 0 .. MaxStall
             /\ worker'[v].job \in {"none", "aggregate", "recalculate"}
             /\ worker'[v].job = "none" => worker'[v] = NoJob
  <2>1. CASE v = w
    BY <1>1, <2>1
  <2>2. CASE v # w
    BY <1>1, <2>2 DEF QuietInv, Busy, Idle
  <2>3. QED
    BY <2>1, <2>2
<1>4. Busy'
  BY <1>3 DEF Busy, Idle
<1>5. QED
  BY <1>2, <1>4 DEF QuietInv

LEMMA FailQuiet ==
  ASSUME OvercountInv, InTime, QuietInv, NEW w \in Workers, Fail(w)
  PROVE  QuietInv'
<1>1. /\ worker' = [worker EXCEPT ![w] = [job |-> "none", g |-> 0, todo |-> NoRows, age |-> 0]]
      /\ UNCHANGED <<now, ended, raw>>
  BY DEF Fail, NoJob
<1>2. mishaps' \in Nat /\ mishaps' # 0
  BY DEF Fail, QuietInv, Busy
<1>3. /\ 0 \in 0 .. MaxStall
      /\ [job |-> "none", g |-> 0, todo |-> NoRows, age |-> 0] = NoJob
  BY Numbers DEF NoJob
<1>4. QED
  BY <1>1, <1>2, <1>3, MishapQuiet

LEMMA ClearStatsQuiet ==
  ASSUME OvercountInv, InTime, QuietInv, NEW w \in Workers, ClearStats(w)
  PROVE  QuietInv'
<1> DEFINE age == worker[w].age
<1>1. /\ worker' = [worker EXCEPT ![w] = [job |-> "recalculate", g |-> 0, todo |-> NoRows,
                                          age |-> age]]
      /\ UNCHANGED <<now, ended, raw>>
  BY DEF ClearStats, Give
<1>2. mishaps' \in Nat /\ mishaps' # 0
  BY DEF ClearStats, QuietInv, Busy
<1>3. age \in 0 .. MaxStall
  BY DEF QuietInv, Busy
<1> HIDE DEF age
<1>4. QED
  BY <1>1, <1>2, <1>3, MishapQuiet

LEMMA AggregateAllQuiet ==
  ASSUME OvercountInv, InTime, QuietInv, NEW w \in Workers, AggregateAllMinutes(w)
  PROVE  QuietInv'
<1> DEFINE age == worker[w].age
           todo == Between(raw, 0, now)
<1>1. /\ worker' = [worker EXCEPT ![w] = [job |-> "recalculate", g |-> Minute, todo |-> todo,
                                          age |-> age]]
      /\ UNCHANGED <<now, ended, raw>>
  BY DEF AggregateAllMinutes, Give
<1>2. mishaps' \in Nat /\ mishaps' # 0
  BY DEF AggregateAllMinutes, QuietInv, Busy, Quiet
<1>3. age \in 0 .. MaxStall
  BY DEF QuietInv, Busy
<1> HIDE DEF age, todo
<1>4. QED
  BY <1>1, <1>2, <1>3, MishapQuiet

LEMMA EndAttemptQuiet ==
  ASSUME OvercountInv, InTime, QuietInv, NEW n \in Int, EndAttempt(n)
  PROVE  QuietInv'
<1>1. /\ ended' = Increment(ended, n) /\ raw' = Increment(raw, n)
      /\ now - MaxLate <= n /\ n <= now
      /\ now' = now /\ rows' = rows /\ worker' = worker /\ mishaps' = mishaps
  BY DEF EndAttempt
<1>2. /\ DOMAIN ended' = DOMAIN ended \cup {n}
      /\ \A t \in Int : CountAt(ended, t)' =
                          IF t = n THEN CountAt(ended, t) + 1 ELSE CountAt(ended, t)
      /\ \A t \in Int : CountAt(raw, t)' =
                          IF t = n THEN CountAt(raw, t) + 1 ELSE CountAt(raw, t)
  BY <1>1, Incremented, Numbers
<1>3. Attempts'
  BY <1>1, <1>2 DEF QuietInv, Attempts
<1>4. Busy'
  BY <1>1 DEF QuietInv, Busy, Idle
<1>5. ASSUME mishaps = 0
      PROVE  Quiet'
  <2>0. Quiet /\ Busy
    BY <1>5 DEF QuietInv
  <2>1. (\A b \in Buckets(Minute) : b < now)' /\ \A v \in Workers : worker'[v].job # "recalculate"
    BY <1>1, <2>0 DEF Quiet, Buckets
  <2>2. ASSUME NEW v \in Workers, NEW t \in Int, Pending(v, t)'
        PROVE  Exact(v, t)'
    <3>1. Pending(v, t) /\ Began(v) \in Int /\ Began(v) <= now /\ Began(v)' = Began(v)
      BY <1>1, <2>0, <2>2, Numbers DEF Pending, Aggregating, Began, Busy
    <3>2. Exact(v, t)
      BY <2>0, <3>1 DEF Quiet
    <3>3. t + MaxLate < Began(v) => CountAt(ended, t)' = CountAt(ended, t)
      BY <1>1, <1>2, <3>1, Numbers
    <3>4. QED
      BY <1>1, <3>1, <3>2, <3>3 DEF Exact, Recent
  <2>3. ASSUME NEW t \in Int, Recent(t)', Passed(t)'
        PROVE  Known(t)'
    <3>1. Recent(t) /\ Passed(t)
      BY <1>1, <2>3 DEF Recent, Passed, Buckets, Aggregating, Began
    <3>2. t + 3 < now
      BY <2>0, <3>1, PassedEarlier
    <3>3. CountAt(ended, t)' = CountAt(ended, t)
      BY <1>1, <1>2, <3>2, Numbers
    <3>4. Known(t)
      BY <2>0, <3>1 DEF Quiet
    <3>5. QED
      BY <1>1, <3>3, <3>4 DEF Known, Pending, Aggregating, CountAt
  <2>4. QED
    BY <2>1, <2>2, <2>3 DEF Quiet
<1>6. QED
  BY <1>1, <1>3, <1>4, <1>5 DEF QuietInv

LEMMA Bounded ==
  ASSUME NEW f, NEW p, NEW q
  PROVE  /\ DOMAIN Between(f, p, q) = {t \in DOMAIN f : p <= t /\ t < q}
         /\ \A t \in Int : p <= t /\ t < q => CountAt(Between(f, p, q), t) = CountAt(f, t)
<1>1. /\ DOMAIN Between(f, p, q) = {t \in DOMAIN f : p <= t /\ t < q}
      /\ \A t \in DOMAIN f : p <= t /\ t < q => Between(f, p, q)[t] = f[t]
  BY DEF Between, Restrict
<1>2. QED
  BY <1>1 DEF CountAt

LEMMA CleanupQuiet ==
  ASSUME OvercountInv, InTime, QuietInv, Cleanup
  PROVE  QuietInv'
<1>1. /\ raw' = Between(raw, now - KeepRaw, now + 1)
      /\ rows'[Minute] = Between(rows[Minute], now - KeepRows[Minute], now + 1)
      /\ now' = now /\ ended' = ended /\ worker' = worker /\ mishaps' = mishaps
  BY Numbers DEF Cleanup, Minute, Day
<1>2. /\ DOMAIN raw' = {t \in DOMAIN raw : now - KeepRaw <= t /\ t < now + 1}
      /\ \A t \in Int : now - KeepRaw <= t /\ t < now + 1 => CountAt(raw', t) = CountAt(raw, t)
  BY ZenonT(60), <1>1, Bounded
<1>3. /\ DOMAIN rows'[Minute] \subseteq DOMAIN rows[Minute]
      /\ \A t \in Int : now - KeepRows[Minute] <= t /\ t < now + 1
                         => CountAt(rows'[Minute], t) = CountAt(rows[Minute], t)
  <2> DEFINE old == rows[Minute]
             p == now - KeepRows[Minute]
             q == now + 1
  <2>1. rows'[Minute] = Between(old, p, q)
    BY <1>1
  <2> HIDE DEF old, p, q
  <2>2. DOMAIN Between(old, p, q) = {t \in DOMAIN old : p <= t /\ t < q}
    BY Bounded
  <2>3. \A t \in Int : p <= t /\ t < q => CountAt(Between(old, p, q), t) = CountAt(old, t)
    BY Bounded
  <2>4. DOMAIN rows'[Minute] \subseteq DOMAIN old
    BY <2>1, <2>2
  <2>5. \A t \in Int : p <= t /\ t < q => CountAt(rows'[Minute], t) = CountAt(old, t)
    BY <2>1, <2>3
  <2>6. QED
    BY <2>4, <2>5 DEF old, p, q
<1>4. Attempts'
  <2>1. ASSUME NEW t \in Int, now - KeepRaw <= t
        PROVE  CountAt(raw', t) = CountAt(ended, t)
    <3>1. CountAt(raw, t) = CountAt(ended, t)
      BY <2>1 DEF QuietInv, Attempts
    <3>2. CASE t < now + 1
      BY <1>2, <2>1, <3>1, <3>2
    <3>3. CASE ~(t < now + 1)
      <4>1. t \notin DOMAIN raw'
        BY <1>2, <3>3
      <4>2. t \notin DOMAIN ended
        BY <3>3, Numbers DEF QuietInv, Attempts
      <4>3. QED
        BY <4>1, <4>2 DEF CountAt
    <3>4. QED
      BY <3>2, <3>3
  <2>2. QED
    BY <1>1, <2>1 DEF Attempts, QuietInv, CountAt
<1>5. Busy'
  BY <1>1 DEF QuietInv, Busy, Idle
<1>6. ASSUME mishaps = 0
      PROVE  Quiet'
  <2>0. Quiet /\ Busy
    BY <1>6 DEF QuietInv
  <2>1. Buckets(Minute)' \subseteq Buckets(Minute)
    BY <1>3 DEF Buckets
  <2>2. (\A b \in Buckets(Minute) : b < now)' /\ \A v \in Workers : worker'[v].job # "recalculate"
    BY <1>1, <2>0, <2>1 DEF Quiet
  <2>3. ASSUME NEW v \in Workers, NEW t \in Int, Pending(v, t)'
        PROVE  Exact(v, t)'
    <3>1. Pending(v, t)
      BY <1>1, <2>3 DEF Pending, Aggregating
    <3>2. Exact(v, t)
      BY <2>0, <3>1 DEF Quiet
    <3>3. QED
      BY <1>1, <3>2 DEF Exact, Recent, Began, CountAt
  <2>4. ASSUME NEW t \in Int, Recent(t)', Passed(t)'
        PROVE  Known(t)'
    <3>1. Recent(t) /\ Passed(t)
      BY <1>1, <2>1, <2>4 DEF Recent, Passed, Aggregating, Began
    <3>2. t + 3 < now
      BY <2>0, <3>1, PassedEarlier
    <3>3. now - KeepRows[Minute] <= t /\ t < now + 1
      BY <3>1, <3>2, Numbers DEF Recent
    <3>4. CountAt(rows'[Minute], t) = CountAt(rows[Minute], t)
      BY <1>3, <3>3
    <3>5. Known(t)
      BY <2>0, <3>1 DEF Quiet
    <3>6. QED
      BY <1>1, <3>4, <3>5 DEF Known, Pending, Aggregating, CountAt
  <2>5. QED
    BY <2>2, <2>3, <2>4 DEF Quiet
<1>7. QED
  BY <1>1, <1>4, <1>5, <1>6 DEF QuietInv

LEMMA TickQuiet ==
  ASSUME OvercountInv, InTime, QuietInv, Tick
  PROVE  QuietInv'
<1>1. /\ now' = now + 1 /\ ended' = ended /\ raw' = raw /\ rows' = rows /\ mishaps' = mishaps
      /\ worker' = [w \in Workers |-> IF Idle(w) THEN NoJob
                                      ELSE [worker[w] EXCEPT !.age = @ + 1]]
  BY DEF Tick
<1>2. ASSUME NEW w \in Workers
      PROVE  /\ worker'[w].job = worker[w].job /\ worker'[w].g = worker[w].g
             /\ worker'[w].todo = worker[w].todo
             /\ Idle(w) => worker'[w] = NoJob
             /\ ~Idle(w) => worker'[w].age = worker[w].age + 1
  <2>1. CASE Idle(w)
    BY <1>1, <2>1 DEF QuietInv, Busy
  <2>2. CASE ~Idle(w)
    <3>1. worker'[w] = [worker[w] EXCEPT !.age = @ + 1]
      BY <1>1, <2>2
    <3>2. worker'[w] = [job |-> worker[w].job, g |-> worker[w].g,
                        todo |-> worker[w].todo, age |-> worker[w].age + 1]
      BY <3>1 DEF OvercountInv
    <3>3. QED
      BY <2>2, <3>2
  <2>3. QED
    BY <2>1, <2>2
<1>3. Attempts'
  BY <1>1, Numbers DEF QuietInv, Attempts, CountAt, Counts
<1>4. Busy'
  <2>1. ASSUME NEW w \in Workers
        PROVE  worker'[w].age \in 0 .. MaxStall
    <3>1. CASE Idle(w)
      BY <1>2, <3>1, Numbers DEF NoJob
    <3>2. CASE ~Idle(w)
      <4>1. worker[w].age < MaxStall /\ worker[w].age \in 0 .. MaxStall
        BY <3>2 DEF Tick, QuietInv, Busy
      <4>2. QED
        BY <1>2, <3>2, <4>1, Numbers
    <3>3. QED
      BY <3>1, <3>2
  <2>2. QED
    BY <1>1, <1>2, <2>1 DEF QuietInv, Busy, Idle
<1>5. \A w \in Workers : Aggregating(w)' => Aggregating(w) /\ Began(w)' = Began(w)
  BY <1>1, <1>2, Numbers DEF Aggregating, Began, Idle, QuietInv, Busy
<1>6. \A t \in Int : Recent(t)' => Recent(t)
  BY <1>1, Numbers DEF Recent
<1>7. ASSUME mishaps = 0
      PROVE  Quiet'
  <2>0. Quiet /\ Busy
    BY <1>7 DEF QuietInv
  <2>1. (\A b \in Buckets(Minute) : b < now)'
    BY <1>1, <2>0, Numbers DEF Quiet, Buckets, Counts
  <2>2. \A v \in Workers : worker'[v].job # "recalculate"
    BY <1>2, <2>0 DEF Quiet
  <2>3. ASSUME NEW v \in Workers, NEW t \in Int, Pending(v, t)'
        PROVE  Exact(v, t)'
    <3>1. Pending(v, t) /\ Began(v)' = Began(v) /\ worker'[v].todo = worker[v].todo
      BY <1>2, <1>5, <2>3 DEF Pending
    <3>2. Exact(v, t)
      BY <2>0, <3>1 DEF Quiet
    <3>3. QED
      BY <1>1, <1>6, <3>1, <3>2 DEF Exact, CountAt
  <2>4. ASSUME NEW t \in Int, Recent(t)', Passed(t)'
        PROVE  Known(t)'
    <3>1. Recent(t) /\ Passed(t)
      BY <1>1, <1>5, <1>6, <2>4 DEF Passed, Buckets
    <3>2. Known(t)
      BY <2>0, <3>1 DEF Quiet
    <3>3. QED
      BY <1>1, <1>2, <3>2 DEF Known, Pending, Aggregating, CountAt
  <2>5. QED
    BY <2>1, <2>2, <2>3, <2>4 DEF Quiet
<1>8. QED
  BY <1>1, <1>3, <1>4, <1>7 DEF QuietInv

LEMMA NextQuiet ==
  ASSUME OvercountInv, InTime, QuietInv, [UsageNext]_usageVars
  PROVE  QuietInv'
<1>1. CASE UNCHANGED usageVars
  BY <1>1 DEF QuietInv, Attempts, Busy, Quiet, Idle, Exact, Pending, Aggregating, Began,
              Recent, Passed, Known, Buckets, CountAt, usageVars
<1>2. ASSUME NEW w \in Workers, Aggregation(w)
      PROVE  QuietInv'
  BY <1>2, AggregateMinuteQuiet, UpsertQuiet, RollUpQuiet, FinishQuiet DEF Aggregation
<1>3. ASSUME NEW w \in Workers, ClearStats(w) \/ AggregateAllMinutes(w) \/ Fail(w)
      PROVE  QuietInv'
  BY <1>3, ClearStatsQuiet, AggregateAllQuiet, FailQuiet
<1>4. ASSUME NEW t \in Times, EndAttempt(t)
      PROVE  QuietInv'
  BY <1>4, EndAttemptQuiet, UsageAssumption DEF Times
<1>5. CASE Cleanup
  BY <1>5, CleanupQuiet
<1>6. CASE Tick
  BY <1>6, TickQuiet
<1>7. QED
  BY <1>1, <1>2, <1>3, <1>4, <1>5, <1>6 DEF UsageNext

(* A query for the current hour between two aggregations counts every      *)
(* attempt, however the batches of several instances overtook each other,  *)
(* if attempts are stored and batches written in the minutes that are      *)
(* aggregated again, and no more than an hour is asked of what is kept.    *)
THEOREM TheHourIsExact ==
  ASSUME WholeHours, InTime
  PROVE  UsageSpec => []QuietHourIsExact
<1>1. UsageInit => OvercountInv /\ QuietInv
  BY InitNeverOvercounts, InitQuiet
<1>2. OvercountInv /\ QuietInv /\ [UsageNext]_usageVars => OvercountInv' /\ QuietInv'
  BY NextNeverOvercounts, NextQuiet
<1>3. OvercountInv /\ QuietInv => QuietHourIsExact
  BY QuietAnswer
<1>4. QED
  BY <1>1, <1>2, <1>3, PTL DEF UsageSpec
=============================================================================

--------------------------- MODULE RecursionLemmas ---------------------------
(***************************************************************************)
(* What the proofs need to know of recursive functions and of sums over    *)
(* finite sets, proved from least counterexamples: the induction theorems  *)
(* of the library take the property as a parameter, which the provers do   *)
(* not instantiate, whereas a set of counterexamples is an ordinary value. *)
(***************************************************************************)
EXTENDS FiniteSetsExt, FiniteSetTheorems, TLAPS

(* Among subsets of a finite set there is a minimal one.                   *)
LEMMA SmallestSet ==
  ASSUME NEW S, IsFiniteSet(S), NEW C, C \subseteq SUBSET S, C # {}
  PROVE  \E s \in C : \A t \in C : t \subseteq s => t = s
<1>1. IsWellFoundedOn(StrictSubsetOrdering(S), SUBSET S)
  BY FS_StrictSubsetOrderingWellFounded, FS_FiniteSubsetsOfFinite
<1>2. PICK s \in C : \A t \in C : ~(<<t, s>> \in StrictSubsetOrdering(S))
  BY <1>1, WFMin
<1>3. ASSUME NEW t \in C, t \subseteq s
      PROVE  t = s
  BY <1>2, <1>3 DEF StrictSubsetOrdering
<1>4. QED
  BY <1>2, <1>3

(* Among natural numbers there is a least one.                             *)
LEMMA LeastNumber ==
  ASSUME NEW A, A \subseteq Nat, A # {}
  PROVE  \E m \in A : \A n \in A : m =< n
<1>1. PICK k \in A : TRUE
  OBVIOUS
<1> DEFINE B == {n \in A : n =< k}
           C == {1 .. n : n \in B}
<1>2. IsFiniteSet(1 .. k)
  BY FS_Interval
<1>3. C \subseteq SUBSET (1 .. k) /\ C # {}
  <2>1. k \in B
    OBVIOUS
  <2>2. \A n \in B : 1 .. n \subseteq 1 .. k
    OBVIOUS
  <2>3. QED
    BY <2>1, <2>2
<1>4. PICK s \in C : \A t \in C : t \subseteq s => t = s
  <2>1. PICK U : U = 1 .. k
    OBVIOUS
  <2>2. IsFiniteSet(U) /\ C \subseteq SUBSET U /\ C # {}
    BY <1>2, <1>3, <2>1
  <2> HIDE DEF C
  <2>3. QED
    BY <2>2, SmallestSet
<1>5. PICK m \in B : s = 1 .. m
  BY <1>4
<1>6. ASSUME NEW n \in A
      PROVE  m =< n
  <2> SUFFICES ASSUME n < m PROVE FALSE
    OBVIOUS
  <2>1. n \in B /\ n \in Nat /\ m \in Nat
    OBVIOUS
  <2>2. 1 .. n \in C /\ 1 .. n \subseteq 1 .. m /\ m \in 1 .. m /\ m \notin 1 .. n
    BY <2>1
  <2>3. QED
    BY <1>4, <1>5, <2>2
<1>7. QED
  BY <1>6

(* A step that is iterated from a first value gives a value for each       *)
(* number of rounds.                                                       *)
LEMMA Iteration ==
  ASSUME NEW X, NEW x \in X, NEW step \in [X -> X]
  PROVE  \E f \in [Nat -> X] :
           f = [n \in Nat |-> IF n = 0 THEN x ELSE step[f[n - 1]]]
<1> DEFINE Run(n) == {f \in [0 .. n -> X] :
                        f[0] = x /\ \A i \in 1 .. n : f[i] = step[f[i - 1]]}
<1>1. \A n \in Nat : Run(n) # {}
  <2> DEFINE A == {n \in Nat : Run(n) = {}}
  <2> SUFFICES ASSUME A # {} PROVE FALSE
    OBVIOUS
  <2>1. PICK m \in A : \A n \in A : m =< n
    <3> HIDE DEF Run
    <3> QED BY LeastNumber
  <2>2. m # 0
    <3>1. [i \in 0 .. 0 |-> x] \in Run(0)
      OBVIOUS
    <3>2. QED
      BY <3>1
  <2>3. m \in Nat /\ m - 1 \in Nat /\ m - 1 \notin A
    <3>1. m \in Nat /\ m - 1 \in Nat /\ ~(m =< m - 1)
      BY <2>2
    <3> HIDE DEF A
    <3>2. QED
      BY <2>1, <3>1
  <2>4. PICK f \in Run(m - 1) : TRUE
    BY <2>3
  <2> DEFINE g == [i \in 0 .. m |-> IF i = m THEN step[f[m - 1]] ELSE f[i]]
  <2>5. f \in [0 .. m - 1 -> X] /\ f[0] = x
    OBVIOUS
  <2>6. \A i \in 1 .. m - 1 : f[i] = step[f[i - 1]]
    OBVIOUS
  <2>7. g \in [0 .. m -> X] /\ g[0] = x
    BY <2>2, <2>3, <2>5
  <2>8. \A i \in 1 .. m : g[i] = step[g[i - 1]]
    BY <2>3, <2>5, <2>6
  <2>9. g \in Run(m)
    BY <2>7, <2>8
  <2>10. QED
    BY <2>9
<1>2. ASSUME NEW m \in Nat, NEW n \in Nat, NEW f \in Run(m), NEW g \in Run(n),
             NEW i \in Nat, i =< m, i =< n
      PROVE  f[i] = g[i]
  <2> DEFINE A == {j \in 0 .. i : f[j] # g[j]}
  <2> SUFFICES ASSUME f[i] # g[i] PROVE FALSE
    OBVIOUS
  <2>0. i \in A /\ A \subseteq Nat
    OBVIOUS
  <2>1. PICK j \in A : \A k \in A : j =< k
    <3> HIDE DEF A
    <3> QED BY <2>0, LeastNumber
  <2>2. f[0] = x /\ g[0] = x
    OBVIOUS
  <2>3. j \in 1 .. i /\ j - 1 \in 0 .. i /\ j - 1 \notin A
    <3>1. j \in 1 .. i /\ j - 1 \in 0 .. i /\ ~(j =< j - 1)
      BY <2>2
    <3> HIDE DEF A
    <3>2. QED
      BY <2>1, <3>1
  <2>4. f[j - 1] = g[j - 1]
    BY <2>3
  <2>5. f[j] = step[f[j - 1]] /\ g[j] = step[g[j - 1]]
    BY <1>2, <2>3
  <2>6. QED
    BY <2>1, <2>4, <2>5
<1> DEFINE r == [n \in Nat |-> CHOOSE f : f \in Run(n)]
           h == [n \in Nat |-> r[n][n]]
<1>3. \A n \in Nat : r[n] \in Run(n)
  <2> HIDE DEF Run
  <2> QED BY <1>1
<1>4. ASSUME NEW n \in Nat
      PROVE  h[n] \in X /\ h[n] = IF n = 0 THEN x ELSE step[h[n - 1]]
  <2>1. r[n] \in Run(n)
    BY <1>3
  <2> HIDE DEF r
  <2>2. h[n] = r[n][n]
    OBVIOUS
  <2>3. /\ r[n] \in [0 .. n -> X] /\ r[n][0] = x
        /\ \A i \in 1 .. n : r[n][i] = step[r[n][i - 1]]
    BY <2>1
  <2>4. h[n] \in X
    BY <2>2, <2>3
  <2>5. CASE n = 0
    BY <2>2, <2>3, <2>4, <2>5
  <2>6. CASE n # 0
    <3>1. n - 1 \in Nat /\ n \in 1 .. n
      BY <2>6
    <3>2. h[n - 1] = r[n - 1][n - 1] /\ r[n - 1] \in Run(n - 1)
      BY <1>3, <3>1
    <3>3. r[n - 1][n - 1] = r[n][n - 1]
      <4> HIDE DEF Run
      <4> QED BY <1>2, <2>1, <3>1, <3>2
    <3>4. r[n][n] = step[r[n][n - 1]]
      BY <2>3, <3>1
    <3>5. QED
      BY <2>2, <2>4, <2>6, <3>2, <3>3, <3>4
  <2>7. QED
    BY <2>5, <2>6
<1>5. h \in [Nat -> X]
  <2>1. h = [n \in Nat |-> h[n]]
    OBVIOUS
  <2> HIDE DEF h
  <2>2. QED
    BY <1>4, <2>1
<1>6. h = [n \in Nat |-> IF n = 0 THEN x ELSE step[h[n - 1]]]
  <2> HIDE DEF h
  <2> QED BY <1>4, <1>5
<1>7. QED
  BY <1>5, <1>6

-----------------------------------------------------------------------------
(* Sums over finite sets, as MapThenSumSet defines them. *)

Pick(s) == CHOOSE x \in s : TRUE

(* g sums the weights w of every subset of S.                              *)
SumOver(g, S, w) ==
  g = [s \in SUBSET S |-> IF s = {} THEN 0
                          ELSE w[Pick(s)] + g[s \ {Pick(s)}]]

(* The two cases of a sum: no element, and one that is picked.             *)
LEMMA SumFacts ==
  ASSUME NEW S, NEW w, NEW g, SumOver(g, S, w)
  PROVE  /\ g[{}] = 0
         /\ \A s \in SUBSET S : s # {} =>
              /\ Pick(s) \in s /\ s \ {Pick(s)} \in SUBSET S
              /\ g[s] = w[Pick(s)] + g[s \ {Pick(s)}]
<1>1. \A s : s # {} => Pick(s) \in s
  BY Zenon DEF Pick
<1>2. \A s \in SUBSET S :
        g[s] = IF s = {} THEN 0 ELSE w[Pick(s)] + g[s \ {Pick(s)}]
  BY Zenon DEF SumOver
<1>3. g[{}] = 0
  BY <1>2
<1>4. \A s \in SUBSET S : s # {} => g[s] = w[Pick(s)] + g[s \ {Pick(s)}]
  BY <1>2
<1>5. QED
  BY <1>1, <1>3, <1>4

(* The sums of a set are those of a smaller one where both are defined.    *)
LEMMA SumsAgree ==
  ASSUME NEW S, IsFiniteSet(S), NEW T, NEW w, NEW f, NEW g,
         SumOver(f, S, w), SumOver(g, T, w)
  PROVE  \A s \in SUBSET S : s \in SUBSET T => f[s] = g[s]
<1> DEFINE C == {s \in SUBSET S : s \in SUBSET T /\ f[s] # g[s]}
<1> SUFFICES ASSUME C # {} PROVE FALSE
  OBVIOUS
<1>1. PICK s \in C : \A t \in C : t \subseteq s => t = s
  <2> C \subseteq SUBSET S
    OBVIOUS
  <2> HIDE DEF C
  <2> QED BY SmallestSet
<1>2. s \in SUBSET S /\ s \in SUBSET T /\ f[s] # g[s]
  BY <1>1
<1>3. s # {}
  <2>1. f[{}] = 0 /\ g[{}] = 0
    BY SumFacts
  <2>2. QED
    BY <1>2, <2>1
<1>4. /\ Pick(s) \in s
      /\ f[s] = w[Pick(s)] + f[s \ {Pick(s)}]
      /\ g[s] = w[Pick(s)] + g[s \ {Pick(s)}]
  BY <1>2, <1>3, SumFacts
<1>5. s \ {Pick(s)} \notin C
  <2>1. s \ {Pick(s)} \subseteq s /\ s \ {Pick(s)} # s
    BY <1>4
  <2> HIDE DEF C
  <2>2. QED
    BY <1>1, <2>1
<1>6. f[s \ {Pick(s)}] = g[s \ {Pick(s)}]
  BY <1>2, <1>5
<1>7. QED
  BY <1>2, <1>4, <1>6

(* The sums of a set contain those of its subsets.                         *)
LEMMA SumRestricts ==
  ASSUME NEW S, NEW T \in SUBSET S, NEW w, NEW g, SumOver(g, S, w)
  PROVE  SumOver([s \in SUBSET T |-> g[s]], T, w)
<1> DEFINE h == [s \in SUBSET T |-> g[s]]
<1>1. ASSUME NEW s \in SUBSET T
      PROVE  h[s] = IF s = {} THEN 0 ELSE w[Pick(s)] + h[s \ {Pick(s)}]
  <2>1. s \in SUBSET S /\ s \ {Pick(s)} \in SUBSET T
    OBVIOUS
  <2>2. h[s] = g[s] /\ h[s \ {Pick(s)}] = g[s \ {Pick(s)}]
    BY <2>1
  <2> HIDE DEF h
  <2>3. g[{}] = 0
    BY SumFacts
  <2>4. s # {} => g[s] = w[Pick(s)] + g[s \ {Pick(s)}]
    BY <2>1, SumFacts
  <2>5. QED
    BY <2>2, <2>3, <2>4
<1>2. h = [s \in SUBSET T |-> h[s]]
  OBVIOUS
<1> HIDE DEF h
<1>3. h = [s \in SUBSET T |-> IF s = {} THEN 0
                              ELSE w[Pick(s)] + h[s \ {Pick(s)}]]
  BY <1>1, <1>2
<1>4. SumOver(h, T, w)
  BY <1>3 DEF SumOver
<1>5. QED
  BY <1>4 DEF h

(* A finite set has sums.                                                  *)
LEMMA SumExists ==
  ASSUME NEW S, IsFiniteSet(S), NEW w
  PROVE  \E g : SumOver(g, S, w)
<1> DEFINE C == {s \in SUBSET S : ~ \E g : SumOver(g, s, w)}
<1> SUFFICES ASSUME C # {} PROVE FALSE
  OBVIOUS
<1>1. PICK s \in C : \A t \in C : t \subseteq s => t = s
  <2> C \subseteq SUBSET S
    OBVIOUS
  <2> HIDE DEF C
  <2> QED BY SmallestSet
<1>2. \A t \in SUBSET s : IsFiniteSet(t)
  BY FS_Subset
<1> DEFINE G == [t \in SUBSET s |-> CHOOSE g : SumOver(g, t, w)]
           v == [t \in SUBSET s |-> G[t][t]]
           g == [t \in SUBSET s |-> IF t = {} THEN 0
                                    ELSE w[Pick(t)] + v[t \ {Pick(t)}]]
<1>3. ASSUME NEW t \in SUBSET s, t # s
      PROVE  SumOver(G[t], t, w)
  <2>1. t \notin C /\ t \in SUBSET S
    BY <1>1, <1>3
  <2>2. \E f : SumOver(f, t, w)
    BY <2>1
  <2>3. QED
    BY <2>2
<1>4. ASSUME NEW t \in SUBSET s, t # s
      PROVE  g[t] = v[t]
  <2>1. SumOver(G[t], t, w)
    BY <1>3, <1>4
  <2>2. v[t] = G[t][t]
    OBVIOUS
  <2>3. CASE t = {}
    <3>1. G[t][{}] = 0
      <4> HIDE DEF G
      <4> QED BY <2>1, SumFacts
    <3>2. QED
      BY <2>2, <2>3, <3>1
  <2>4. CASE t # {}
    <3> DEFINE u == t \ {Pick(t)}
    <3>1. Pick(t) \in t /\ G[t][t] = w[Pick(t)] + G[t][u]
      <4> t \in SUBSET t
        OBVIOUS
      <4>1. PICK f : f = G[t]
        OBVIOUS
      <4>2. SumOver(f, t, w)
        BY <2>1, <4>1
      <4>3. Pick(t) \in t /\ f[t] = w[Pick(t)] + f[t \ {Pick(t)}]
        BY <2>4, <4>2, SumFacts
      <4>4. QED
        BY <4>1, <4>3
    <3>2. u \in SUBSET s /\ u # s /\ u \in SUBSET t /\ u \in SUBSET u
      BY <3>1
    <3>3. SumOver(G[u], u, w)
      BY <1>3, <3>2
    <3>4. G[t][u] = G[u][u]
      <4> HIDE DEF G, u
      <4> QED BY <1>2, <2>1, <3>2, <3>3, SumsAgree
    <3>5. v[u] = G[u][u]
      BY <3>2
    <3>6. g[t] = w[Pick(t)] + v[u]
      BY <2>4
    <3>7. QED
      BY <2>2, <3>1, <3>4, <3>5, <3>6
  <2>5. QED
    BY <2>3, <2>4
<1>5. ASSUME NEW t \in SUBSET s
      PROVE  g[t] = IF t = {} THEN 0 ELSE w[Pick(t)] + g[t \ {Pick(t)}]
  <2>1. CASE t = {}
    BY <2>1
  <2>2. CASE t # {}
    <3> DEFINE u == t \ {Pick(t)}
    <3>1. Pick(t) \in t
      BY <2>2, Zenon DEF Pick
    <3>2. u \in SUBSET s /\ u # s
      BY <3>1
    <3>3. g[u] = v[u]
      BY <1>4, <3>2
    <3>4. g[t] = w[Pick(t)] + v[u]
      BY <2>2
    <3>5. QED
      BY <2>2, <3>3, <3>4
  <2>3. QED
    BY <2>1, <2>2
<1>6. g = [t \in SUBSET s |-> g[t]]
  OBVIOUS
<1> HIDE DEF g
<1>7. g = [t \in SUBSET s |-> IF t = {} THEN 0
                              ELSE w[Pick(t)] + g[t \ {Pick(t)}]]
  BY <1>5, <1>6
<1>8. SumOver(g, s, w)
  BY <1>7 DEF SumOver
<1>9. QED
  BY <1>1, <1>8

(* Sums of natural weights are natural.                                    *)
LEMMA SumIsNat ==
  ASSUME NEW S, IsFiniteSet(S), NEW w, \A x \in S : w[x] \in Nat,
         NEW g, SumOver(g, S, w)
  PROVE  \A s \in SUBSET S : g[s] \in Nat
<1> DEFINE C == {s \in SUBSET S : g[s] \notin Nat}
<1> SUFFICES ASSUME C # {} PROVE FALSE
  OBVIOUS
<1>1. PICK s \in C : \A t \in C : t \subseteq s => t = s
  <2> C \subseteq SUBSET S
    OBVIOUS
  <2> HIDE DEF C
  <2> QED BY SmallestSet
<1>2. s \in SUBSET S /\ g[s] \notin Nat
  BY <1>1
<1>3. s # {}
  <2>1. g[{}] = 0
    BY SumFacts
  <2>2. QED
    BY <1>2, <2>1
<1>4. Pick(s) \in s /\ g[s] = w[Pick(s)] + g[s \ {Pick(s)}]
  BY <1>2, <1>3, SumFacts
<1>5. s \ {Pick(s)} \notin C
  <2>1. s \ {Pick(s)} \subseteq s /\ s \ {Pick(s)} # s
    BY <1>4
  <2> HIDE DEF C
  <2>2. QED
    BY <1>1, <2>1
<1>6. g[s \ {Pick(s)}] \in Nat /\ w[Pick(s)] \in Nat
  BY <1>2, <1>4, <1>5
<1>7. QED
  BY <1>2, <1>4, <1>6

(* Whichever element is taken away, its weight is what the sum loses.      *)
Additive(g, S, w) ==
  \A s \in SUBSET S : \A x \in s : g[s] = w[x] + g[s \ {x}]

(* Any element may be taken off a sum first.                               *)
LEMMA SumIsAdditive ==
  ASSUME NEW S, IsFiniteSet(S), NEW w, \A x \in S : w[x] \in Nat,
         NEW g, SumOver(g, S, w)
  PROVE  Additive(g, S, w)
<1> DEFINE C == {s \in SUBSET S : \E x \in s : g[s] # w[x] + g[s \ {x}]}
<1> SUFFICES ASSUME C # {} PROVE FALSE
  BY DEF Additive
<1>1. PICK s \in C : \A t \in C : t \subseteq s => t = s
  <2> C \subseteq SUBSET S
    OBVIOUS
  <2> HIDE DEF C
  <2> QED BY SmallestSet
<1>2. s \in SUBSET S /\ \A y \in S : w[y] \in Nat
  BY <1>1
<1>3. PICK x \in s : g[s] # w[x] + g[s \ {x}]
  BY <1>1
<1> DEFINE y == Pick(s)
<1>4. y \in s /\ g[s] = w[y] + g[s \ {y}]
  BY <1>2, <1>3, SumFacts
<1> HIDE DEF y
<1>5. x # y
  BY <1>3, <1>4
<1>6. \A z \in s : s \ {z} \notin C
  <2> HIDE DEF C
  <2> QED BY <1>1
<1>7. g[s \ {y}] = w[x] + g[(s \ {y}) \ {x}]
  <2>1. s \ {y} \notin C /\ s \ {y} \in SUBSET S /\ x \in s \ {y}
    BY <1>2, <1>4, <1>5, <1>6
  <2>2. QED
    BY <2>1
<1>8. g[s \ {x}] = w[y] + g[(s \ {x}) \ {y}]
  <2>1. s \ {x} \notin C /\ s \ {x} \in SUBSET S /\ y \in s \ {x}
    BY <1>2, <1>4, <1>5, <1>6
  <2>2. QED
    BY <2>1
<1>9. (s \ {x}) \ {y} = (s \ {y}) \ {x}
  OBVIOUS
<1>10. g[(s \ {y}) \ {x}] \in Nat /\ w[x] \in Nat /\ w[y] \in Nat
  <2>1. (s \ {y}) \ {x} \in SUBSET S
    BY <1>2
  <2>2. QED
    BY <1>2, <1>3, <1>4, <2>1, SumIsNat
<1>11. \A a, b, c \in Nat : a + (b + c) = b + (a + c)
  OBVIOUS
<1>12. g[s] = w[y] + (w[x] + g[(s \ {y}) \ {x}])
  BY <1>4, <1>7
<1>13. g[s \ {x}] = w[y] + g[(s \ {y}) \ {x}]
  BY <1>8, <1>9
<1>14. g[s] = w[x] + g[s \ {x}]
  BY <1>10, <1>11, <1>12, <1>13
<1>15. QED
  BY <1>3, <1>14

(* A subset weighs no more.                                                *)
LEMMA SumMonotone ==
  ASSUME NEW S, IsFiniteSet(S), NEW w, \A x \in S : w[x] \in Nat,
         NEW g, SumOver(g, S, w)
  PROVE  \A s \in SUBSET S : \A t \in SUBSET s : g[t] =< g[s]
<1> DEFINE C == {s \in SUBSET S : \E t \in SUBSET s : ~(g[t] =< g[s])}
<1> SUFFICES ASSUME C # {} PROVE FALSE
  OBVIOUS
<1>1. PICK s \in C : \A t \in C : t \subseteq s => t = s
  <2> C \subseteq SUBSET S
    OBVIOUS
  <2> HIDE DEF C
  <2> QED BY SmallestSet
<1>2. s \in SUBSET S
  BY <1>1
<1>3. PICK t \in SUBSET s : ~(g[t] =< g[s])
  BY <1>1
<1>4. \A u \in SUBSET S : g[u] \in Nat
  BY SumIsNat
<1>5. t # s
  BY <1>2, <1>3, <1>4
<1>6. PICK x \in s : x \notin t
  BY <1>5
<1>7. s \ {x} \notin C /\ s \ {x} \in SUBSET S /\ t \in SUBSET (s \ {x})
  <2>1. s \ {x} \subseteq s /\ s \ {x} # s
    OBVIOUS
  <2> HIDE DEF C
  <2>2. QED
    BY <1>1, <1>2, <1>6, <2>1
<1>8. g[t] =< g[s \ {x}]
  BY <1>7
<1>9. g[s] = w[x] + g[s \ {x}]
  <2>1. Additive(g, S, w)
    BY SumIsAdditive
  <2>2. QED
    BY <1>2, <2>1 DEF Additive
<1>10. /\ w[x] \in Nat /\ g[s \ {x}] \in Nat /\ g[t] \in Nat /\ g[s] \in Nat
  BY <1>2, <1>4, <1>7
<1>11. \A a, b, c, d \in Nat : b = d + c /\ a =< c => a =< b
  OBVIOUS
<1>12. g[t] =< g[s]
  BY <1>8, <1>9, <1>10, <1>11
<1>13. QED
  BY <1>3, <1>12

-----------------------------------------------------------------------------
(* Recursion over positions, and folds that take a set apart member by      *)
(* member, as MapThenFoldSet defines them.                                  *)

(* f goes step by step from x over the first n positions.                  *)
Stepwise(f, n, X, x, step) ==
  /\ f \in [0 .. n -> X] /\ f[0] = x
  /\ \A i \in 1 .. n : f[i] = step[<<i, f[i - 1]>>]

(* A step for each position leads from a first value to one at each of     *)
(* them.                                                                   *)
LEMMA Recursion ==
  ASSUME NEW X, NEW x \in X, NEW n \in Nat, NEW step \in [(1 .. n) \X X -> X]
  PROVE  \E f : Stepwise(f, n, X, x, step)
<1> DEFINE Run(m) == {f \in [0 .. m -> X] :
                        /\ f[0] = x
                        /\ \A i \in 1 .. m : f[i] = step[<<i, f[i - 1]>>]}
<1>1. Run(n) # {}
  <2> DEFINE A == {m \in 0 .. n : Run(m) = {}}
  <2> SUFFICES ASSUME A # {} PROVE FALSE
    OBVIOUS
  <2>1. PICK m \in A : \A k \in A : m =< k
    <3> A \subseteq Nat
      OBVIOUS
    <3> HIDE DEF A
    <3> QED BY LeastNumber
  <2>2. m # 0
    <3>1. [i \in 0 .. 0 |-> x] \in Run(0)
      OBVIOUS
    <3>2. QED
      BY <3>1
  <2>3. m \in 1 .. n /\ m - 1 \in 0 .. n /\ m - 1 \notin A
    <3>1. m \in 1 .. n /\ m - 1 \in 0 .. n /\ ~(m =< m - 1)
      BY <2>2
    <3> HIDE DEF A
    <3>2. QED
      BY <2>1, <3>1
  <2>4. PICK f \in Run(m - 1) : TRUE
    BY <2>3
  <2> DEFINE g == [i \in 0 .. m |-> IF i = m THEN step[<<m, f[m - 1]>>]
                                    ELSE f[i]]
  <2>5. f \in [0 .. m - 1 -> X] /\ f[0] = x
    OBVIOUS
  <2>6. \A i \in 1 .. m - 1 : f[i] = step[<<i, f[i - 1]>>]
    OBVIOUS
  <2>7. f[m - 1] \in X /\ step[<<m, f[m - 1]>>] \in X
    BY <2>3, <2>5
  <2>8. g \in [0 .. m -> X] /\ g[0] = x
    BY <2>3, <2>5, <2>7
  <2>9. \A i \in 1 .. m : g[i] = step[<<i, g[i - 1]>>]
    <3>1. ASSUME NEW i \in 1 .. m, i # m
          PROVE  g[i] = step[<<i, g[i - 1]>>]
      <4>1. g[i] = f[i] /\ g[i - 1] = f[i - 1] /\ i \in 1 .. m - 1
        BY <2>3, <3>1
      <4>2. QED
        BY <2>6, <4>1
    <3>2. g[m] = step[<<m, g[m - 1]>>]
      <4>1. g[m] = step[<<m, f[m - 1]>>]
        BY <2>3
      <4>2. g[m - 1] = f[m - 1]
        BY <2>3
      <4> HIDE DEF g
      <4>3. QED
        BY <4>1, <4>2
    <3>3. QED
      BY <3>1, <3>2
  <2>10. g \in Run(m)
    BY <2>8, <2>9
  <2>11. QED
    BY <2>10
<1>2. PICK f \in Run(n) : TRUE
  BY <1>1
<1>3. f \in [0 .. n -> X] /\ f[0] = x
  OBVIOUS
<1>4. \A i \in 1 .. n : f[i] = step[<<i, f[i - 1]>>]
  OBVIOUS
<1>5. QED
  BY <1>3, <1>4 DEF Stepwise

(* g folds every subset of S, from x on, the member pick[s] of s last.     *)
FoldOver(g, S, x, pick, step) ==
  g = [s \in SUBSET S |-> IF s = {} THEN x
                          ELSE step[<<pick[s], g[s \ {pick[s]}]>>]]

(* The two cases of a fold.                                                *)
LEMMA FoldFacts ==
  ASSUME NEW S, NEW x, NEW pick, NEW step, NEW g, FoldOver(g, S, x, pick, step)
  PROVE  /\ g[{}] = x
         /\ \A s \in SUBSET S :
              s # {} => g[s] = step[<<pick[s], g[s \ {pick[s]}]>>]
<1>1. \A s \in SUBSET S :
        g[s] = IF s = {} THEN x ELSE step[<<pick[s], g[s \ {pick[s]}]>>]
  BY Zenon DEF FoldOver
<1>2. g[{}] = x
  BY <1>1
<1>3. \A s \in SUBSET S : s # {} => g[s] = step[<<pick[s], g[s \ {pick[s]}]>>]
  BY <1>1
<1>4. QED
  BY <1>2, <1>3

(* What holds of the empty set and is kept by each step holds of all sets. *)
LEMMA FoldTyped ==
  ASSUME NEW S, IsFiniteSet(S), NEW pick,
         \A s \in SUBSET S : s # {} => pick[s] \in s,
         NEW g, NEW X, g[{}] \in X,
         \A s \in SUBSET S : s # {} /\ g[s \ {pick[s]}] \in X => g[s] \in X
  PROVE  \A s \in SUBSET S : g[s] \in X
<1> DEFINE C == {s \in SUBSET S : g[s] \notin X}
<1> SUFFICES ASSUME C # {} PROVE FALSE
  OBVIOUS
<1>1. PICK s \in C : \A t \in C : t \subseteq s => t = s
  <2> C \subseteq SUBSET S
    OBVIOUS
  <2> HIDE DEF C
  <2> QED BY SmallestSet
<1>2. s \in SUBSET S /\ g[s] \notin X /\ s # {}
  BY <1>1
<1>3. pick[s] \in s
  BY <1>2
<1>4. s \ {pick[s]} \notin C
  <2>1. s \ {pick[s]} \subseteq s /\ s \ {pick[s]} # s
    BY <1>3
  <2> HIDE DEF C
  <2>2. QED
    BY <1>1, <2>1
<1>5. g[s \ {pick[s]}] \in X
  BY <1>2, <1>4
<1>6. QED
  BY <1>2, <1>5

(* What is folded is the same from whichever set one starts.               *)
LEMMA FoldsAgree ==
  ASSUME NEW S, IsFiniteSet(S), NEW T, NEW x, NEW pick, NEW step,
         \A s \in SUBSET S : s # {} => pick[s] \in s,
         NEW f, NEW g, FoldOver(f, S, x, pick, step), FoldOver(g, T, x, pick, step)
  PROVE  \A s \in SUBSET S : s \in SUBSET T => f[s] = g[s]
<1> DEFINE C == {s \in SUBSET S : s \in SUBSET T /\ f[s] # g[s]}
<1> SUFFICES ASSUME C # {} PROVE FALSE
  OBVIOUS
<1>1. PICK s \in C : \A t \in C : t \subseteq s => t = s
  <2> C \subseteq SUBSET S
    OBVIOUS
  <2> HIDE DEF C
  <2> QED BY SmallestSet
<1>2. s \in SUBSET S /\ s \in SUBSET T /\ f[s] # g[s]
  BY <1>1
<1>3. s # {}
  <2>1. f[{}] = x /\ g[{}] = x
    BY FoldFacts
  <2>2. QED
    BY <1>2, <2>1
<1>4. /\ pick[s] \in s
      /\ f[s] = step[<<pick[s], f[s \ {pick[s]}]>>]
      /\ g[s] = step[<<pick[s], g[s \ {pick[s]}]>>]
  BY <1>2, <1>3, FoldFacts
<1>5. s \ {pick[s]} \notin C
  <2>1. s \ {pick[s]} \subseteq s /\ s \ {pick[s]} # s
    BY <1>4
  <2> HIDE DEF C
  <2>2. QED
    BY <1>1, <2>1
<1>6. f[s \ {pick[s]}] = g[s \ {pick[s]}]
  BY <1>2, <1>5
<1>7. QED
  BY <1>2, <1>4, <1>6

(* A finite set can be folded.                                             *)
LEMMA FoldExists ==
  ASSUME NEW S, IsFiniteSet(S), NEW x, NEW pick, NEW step,
         \A s \in SUBSET S : s # {} => pick[s] \in s
  PROVE  \E g : FoldOver(g, S, x, pick, step)
<1> DEFINE C == {s \in SUBSET S : ~ \E g : FoldOver(g, s, x, pick, step)}
<1> SUFFICES ASSUME C # {} PROVE FALSE
  OBVIOUS
<1>1. PICK s \in C : \A t \in C : t \subseteq s => t = s
  <2> C \subseteq SUBSET S
    OBVIOUS
  <2> HIDE DEF C
  <2> QED BY SmallestSet
<1>2. /\ \A t \in SUBSET s : IsFiniteSet(t) /\ t \in SUBSET S
      /\ \A t \in SUBSET s : t # {} => pick[t] \in t
  BY FS_Subset
<1> DEFINE G == [t \in SUBSET s |-> CHOOSE g : FoldOver(g, t, x, pick, step)]
           v == [t \in SUBSET s |-> G[t][t]]
           g == [t \in SUBSET s |-> IF t = {} THEN x
                                    ELSE step[<<pick[t], v[t \ {pick[t]}]>>]]
<1>3. ASSUME NEW t \in SUBSET s, t # s
      PROVE  FoldOver(G[t], t, x, pick, step)
  <2>1. t \notin C /\ t \in SUBSET S
    BY <1>1, <1>3
  <2>2. \E f : FoldOver(f, t, x, pick, step)
    BY <2>1
  <2>3. QED
    BY <2>2
<1>4. ASSUME NEW t \in SUBSET s, t # s
      PROVE  g[t] = v[t]
  <2>1. FoldOver(G[t], t, x, pick, step)
    BY <1>3, <1>4
  <2>2. v[t] = G[t][t]
    OBVIOUS
  <2>3. CASE t = {}
    <3>1. G[t][{}] = x
      <4> HIDE DEF G
      <4> QED BY <2>1, FoldFacts
    <3>2. QED
      BY <2>2, <2>3, <3>1
  <2>4. CASE t # {}
    <3> DEFINE u == t \ {pick[t]}
    <3>1. pick[t] \in t /\ G[t][t] = step[<<pick[t], G[t][u]>>]
      <4>1. PICK f : f = G[t]
        OBVIOUS
      <4>2. FoldOver(f, t, x, pick, step)
        BY <2>1, <4>1
      <4>3. t \in SUBSET t /\ pick[t] \in t
        BY <1>2, <2>4
      <4>4. f[t] = step[<<pick[t], f[t \ {pick[t]}]>>]
        BY <2>4, <4>2, <4>3, FoldFacts
      <4>5. QED
        BY <4>1, <4>3, <4>4
    <3>2. u \in SUBSET s /\ u # s /\ u \in SUBSET t /\ u \in SUBSET u
      BY <3>1
    <3>3. FoldOver(G[u], u, x, pick, step)
      BY <1>3, <3>2
    <3>4. G[t][u] = G[u][u]
      <4>1. IsFiniteSet(t) /\ \A r \in SUBSET t : r # {} => pick[r] \in r
        BY <1>2
      <4>2. PICK e : e = G[t]
        OBVIOUS
      <4>3. PICK f : f = G[u]
        OBVIOUS
      <4> HIDE DEF G, u
      <4>4. FoldOver(e, t, x, pick, step) /\ FoldOver(f, u, x, pick, step)
        BY <2>1, <3>3, <4>2, <4>3
      <4>5. \A r \in SUBSET t : r \in SUBSET u => e[r] = f[r]
        BY <4>1, <4>4, FoldsAgree
      <4>6. QED
        BY <3>2, <4>2, <4>3, <4>5
    <3>5. v[u] = G[u][u]
      BY <3>2
    <3>6. g[t] = step[<<pick[t], v[u]>>]
      BY <2>4
    <3>7. QED
      BY <2>2, <3>1, <3>4, <3>5, <3>6
  <2>5. QED
    BY <2>3, <2>4
<1>5. ASSUME NEW t \in SUBSET s
      PROVE  g[t] = IF t = {} THEN x ELSE step[<<pick[t], g[t \ {pick[t]}]>>]
  <2>1. CASE t = {}
    BY <2>1
  <2>2. CASE t # {}
    <3> DEFINE u == t \ {pick[t]}
    <3>1. pick[t] \in t
      BY <1>2, <2>2
    <3>2. u \in SUBSET s /\ u # s
      BY <3>1
    <3>3. g[u] = v[u]
      BY <1>4, <3>2
    <3>4. g[t] = step[<<pick[t], v[u]>>]
      BY <2>2
    <3> HIDE DEF g, v, G
    <3>5. QED
      BY <2>2, <3>3, <3>4
  <2>3. QED
    BY <2>1, <2>2
<1>6. g = [t \in SUBSET s |-> g[t]]
  OBVIOUS
<1> HIDE DEF g
<1>7. g = [t \in SUBSET s |-> IF t = {} THEN x
                              ELSE step[<<pick[t], g[t \ {pick[t]}]>>]]
  BY <1>5, <1>6
<1>8. FoldOver(g, s, x, pick, step)
  BY <1>7 DEF FoldOver
<1>9. QED
  BY <1>1, <1>8
-----------------------------------------------------------------------------
(* Sequences taken from left to right: FoldLeft is defined on every set of  *)
(* places, by taking the last one away.                                     *)

(* A set of places that is not empty has a last one.                       *)
LEMMA LastPlaces ==
  ASSUME NEW n \in Nat
  PROVE  \A s \in SUBSET (1 .. n) : s # {} => Max(s) \in s
<1>1. ASSUME NEW s \in SUBSET (1 .. n), s # {}
      PROVE  Max(s) \in s
  <2> DEFINE A == {k \in Nat : \A y \in s : y =< k}
  <2>1. n \in A
    OBVIOUS
  <2>2. PICK k \in A : \A j \in A : k =< j
    <3> A \subseteq Nat
      OBVIOUS
    <3> HIDE DEF A
    <3> QED BY <2>1, LeastNumber
  <2>3. k \in s
    <3>1. k \in Nat /\ \A y \in s : y =< k /\ y \in Nat /\ y # 0
      OBVIOUS
    <3>2. CASE k \notin s
      <4>1. \A y \in s : y =< k - 1
        BY <3>1, <3>2
      <4>2. k # 0
        <5>1. PICK y \in s : TRUE
          BY <1>1
        <5>2. QED
          BY <3>1, <5>1
      <4>3. k - 1 \in Nat /\ ~(k =< k - 1)
        BY <3>1, <4>2
      <4>4. k - 1 \in A
        BY <4>1, <4>3
      <4> HIDE DEF A
      <4>5. QED
        BY <2>2, <4>3, <4>4
    <3>3. QED
      BY <3>2
  <2>4. \A y \in s : k >= y
    OBVIOUS
  <2>5. QED
    BY <2>3, <2>4 DEF Max
<1>2. QED
  BY <1>1

(* g folds the first n places from x on, whatever set of them is taken.     *)
LeftFolded(g, n, X, x, step) ==
  /\ g[{}] = x
  /\ \A s \in SUBSET (1 .. n) : s # {} /\ g[s \ {Max(s)}] \in X =>
       g[s] = step[<<Max(s), g[s \ {Max(s)}]>>]

(* A step for each place defines a function of the sets of places, ...     *)
LEMMA LeftFold ==
  ASSUME NEW n \in Nat, NEW X, NEW x \in X, NEW step,
         \A i \in 1 .. n : \A v \in X : step[<<i, v>>] \in X
  PROVE  \E g \in [SUBSET (1 .. n) -> X] : LeftFolded(g, n, X, x, step)
<1>1. PICK S : S = 1 .. n
  OBVIOUS
<1>2. IsFiniteSet(S)
  BY <1>1, FS_Interval
<1>3. PICK pick : pick = [s \in SUBSET S |-> Max(s)]
  OBVIOUS
<1>4. \A s \in SUBSET S : pick[s] = Max(s) /\ (s # {} => pick[s] \in s)
  BY <1>1, <1>3, LastPlaces
<1>5. PICK g : FoldOver(g, S, x, pick, step)
  BY <1>2, <1>4, FoldExists
<1>6. g[{}] = x
  BY <1>5, FoldFacts
<1>7. \A s \in SUBSET S : s # {} => g[s] = step[<<pick[s], g[s \ {pick[s]}]>>]
  BY <1>5, FoldFacts
<1>8. \A s \in SUBSET S : g[s] \in X
  <2>1. ASSUME NEW s \in SUBSET S, s # {}, g[s \ {pick[s]}] \in X
        PROVE  g[s] \in X
    <3>1. pick[s] \in 1 .. n
      BY <1>1, <1>4, <2>1
    <3>2. QED
      BY <1>7, <2>1, <3>1
  <2>2. QED
    BY <1>2, <1>4, <1>6, <2>1, FoldTyped
<1>9. g = [s \in SUBSET S |-> g[s]]
  BY <1>5, Zenon DEF FoldOver
<1>10. g \in [SUBSET S -> X]
  BY <1>8, <1>9
<1>11. LeftFolded(g, n, X, x, step)
  <2>1. \A s \in SUBSET S : pick[s] = Max(s)
    BY <1>4
  <2>2. \A s \in SUBSET S : s # {} => g[s] = step[<<Max(s), g[s \ {Max(s)}]>>]
    BY <1>7, <2>1
  <2>3. QED
    BY <1>1, <1>6, <2>2 DEF LeftFolded
<1>12. QED
  BY <1>1, <1>10, <1>11

(* ... and such a function is reached in as many steps as there are places. *)
LEMMA FoldSteps ==
  ASSUME NEW n \in Nat, NEW X, NEW x \in X, NEW step, NEW g,
         LeftFolded(g, n, X, x, step),
         \A i \in 1 .. n : \A v \in X : step[<<i, v>>] \in X
  PROVE  \E f : Stepwise(f, n, X, x, step) /\ f[n] = g[1 .. n]
<1> DEFINE f == [i \in 0 .. n |-> g[1 .. i]]
<1>1. 1 .. 0 = {}
  OBVIOUS
<1>2. f[0] = x /\ f[n] = g[1 .. n]
  BY <1>1 DEF LeftFolded
<1>3. ASSUME NEW i \in 1 .. n, f[i - 1] \in X
      PROVE  f[i] = step[<<i, f[i - 1]>>]
  <2>1. 1 .. i \in SUBSET (1 .. n) /\ 1 .. i # {}
    <3>1. i \in 1 .. i
      OBVIOUS
    <3>2. \A j \in 1 .. i : j \in 1 .. n
      OBVIOUS
    <3>3. QED
      BY <3>1, <3>2
  <2>2. Max(1 .. i) = i
    BY DEF Max
  <2>3. (1 .. i) \ {i} = 1 .. i - 1
    OBVIOUS
  <2>4. f[i - 1] = g[1 .. i - 1] /\ f[i] = g[1 .. i]
    OBVIOUS
  <2> HIDE DEF f
  <2>5. g[(1 .. i) \ {Max(1 .. i)}] = f[i - 1]
    BY <2>2, <2>3, <2>4
  <2>6. g[1 .. i] = step[<<Max(1 .. i), g[(1 .. i) \ {Max(1 .. i)}]>>]
    BY <1>3, <2>1, <2>5 DEF LeftFolded
  <2>7. QED
    BY <2>2, <2>4, <2>5, <2>6
<1> HIDE DEF f
<1>4. \A i \in 0 .. n : f[i] \in X
  <2> DEFINE A == {i \in 0 .. n : f[i] \notin X}
  <2> SUFFICES ASSUME A # {} PROVE FALSE
    OBVIOUS
  <2>1. PICK m \in A : \A k \in A : m =< k
    <3> A \subseteq Nat
      OBVIOUS
    <3> HIDE DEF A
    <3> QED BY LeastNumber
  <2>2. m \in 1 .. n /\ f[m] \notin X
    BY <1>2
  <2>3. m - 1 \notin A
    <3>1. m - 1 \in 0 .. n /\ ~(m =< m - 1)
      BY <2>2
    <3> HIDE DEF A
    <3>2. QED
      BY <2>1, <3>1
  <2>4. f[m - 1] \in X
    BY <2>2, <2>3
  <2>5. QED
    BY <1>3, <2>2, <2>4
<1>5. f = [i \in 0 .. n |-> f[i]]
  BY DEF f
<1>6. f \in [0 .. n -> X]
  BY <1>4, <1>5
<1>7. \A i \in 1 .. n : f[i] = step[<<i, f[i - 1]>>]
  BY <1>3, <1>4
<1>8. QED
  BY <1>2, <1>6, <1>7 DEF Stepwise
=============================================================================

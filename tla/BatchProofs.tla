----------------------------- MODULE BatchProofs -----------------------------
(***************************************************************************)
(* Proofs about Batch, for any bodies, outcomes and limits.                *)
(*                                                                         *)
(* The rules come first. A body without details has only valid items       *)
(* (ValidBody), all slots find their places among different pairs (Placed, *)
(* one slot after the other: PlaceKeeps), and what is left of the raw      *)
(* budget is what the reports before did not take (EntriesFacts). The left *)
(* folds of the code's loops are gone through step by step with the lemmas *)
(* of RecursionLemmas.                                                     *)
(*                                                                         *)
(* BatchInv then says which of these results each phase has reached, that  *)
(* an answer bears the identity of its pair and that answers are collected *)
(* in the order of the pairs. The theorems are at the end.                 *)
(***************************************************************************)
EXTENDS Batch, RecursionLemmas

-----------------------------------------------------------------------------
(* What a body without details says *)

(* The indicators are pushed one by one.                                   *)
Pushing(f, items, n, X) ==
  /\ f \in [0 .. n -> X]
  /\ f[0] = <<>> /\ f[n] = FoldLeft(Push, <<>>, items)
  /\ \A i \in 1 .. n : f[i] = Push(f[i - 1], items[i])

(* Pushing the items has an intermediate list for each length, in any set  *)
(* of lists that Push does not leave.                                      *)
LEMMA PushSteps ==
  ASSUME NEW items, NEW n \in Nat, DOMAIN items = 1 .. n,
         NEW X, \A i \in 1 .. n : \A v \in X : Push(v, items[i]) \in X,
         <<>> \in X
  PROVE  \E f : Pushing(f, items, n, X)
<1> DEFINE F(h) == [s \in SUBSET (DOMAIN items) |->
                      IF s = {} THEN <<>>
                      ELSE Push(h[s \ {Max(s)}], items[Max(s)])]
           iter == CHOOSE h : h = F(h)
<1>1. PICK step : step = [q \in (1 .. n) \X X |-> Push(q[2], items[q[1]])]
  OBVIOUS
<1>2. \A i \in 1 .. n : \A v \in X :
        step[<<i, v>>] = Push(v, items[i]) /\ step[<<i, v>>] \in X
  BY <1>1
<1>3. PICK e \in X : e = <<>>
  OBVIOUS
<1>4. \A i \in 1 .. n : \A v \in X : step[<<i, v>>] \in X
  BY <1>2
<1>5. PICK g \in [SUBSET (1 .. n) -> X] : LeftFolded(g, n, X, e, step)
  BY <1>4, LeftFold
<1>6. \A s \in SUBSET (1 .. n) :
        g[s] = IF s = {} THEN <<>> ELSE Push(g[s \ {Max(s)}], items[Max(s)])
  <2>1. g[{}] = <<>>
    BY <1>3, <1>5 DEF LeftFolded
  <2>2. ASSUME NEW s \in SUBSET (1 .. n), s # {}
        PROVE  g[s] = Push(g[s \ {Max(s)}], items[Max(s)])
    <3>1. Max(s) \in 1 .. n /\ g[s \ {Max(s)}] \in X
      BY <2>2, LastPlaces
    <3>2. g[s] = step[<<Max(s), g[s \ {Max(s)}]>>]
      BY <1>5, <2>2, <3>1 DEF LeftFolded
    <3>3. QED
      BY <1>2, <3>1, <3>2
  <2>3. QED
    BY <2>1, <2>2
<1>7. g = F(g)
  BY <1>6
<1>8. iter = F(iter)
  <2> HIDE DEF F
  <2> QED BY <1>7, Zenon
<1>9. FoldLeft(Push, <<>>, items) = iter[1 .. n]
  BY DEF FoldLeft, MapThenFoldSet
<1> HIDE DEF iter
<1>10. PICK h : h = iter
  OBVIOUS
<1>11. LeftFolded(h, n, X, e, step)
  <2>1. h[{}] = <<>>
    BY <1>8, <1>10
  <2>2. \A s \in SUBSET (1 .. n) : s # {} =>
          h[s] = Push(h[s \ {Max(s)}], items[Max(s)])
    BY <1>8, <1>10
  <2>3. ASSUME NEW s \in SUBSET (1 .. n), s # {}, h[s \ {Max(s)}] \in X
        PROVE  h[s] = step[<<Max(s), h[s \ {Max(s)}]>>]
    <3>1. Max(s) \in 1 .. n
      BY <2>3, LastPlaces
    <3>2. QED
      BY <1>2, <2>2, <2>3, <3>1
  <2>4. QED
    BY <1>3, <2>1, <2>3 DEF LeftFolded
<1>12. PICK f : Stepwise(f, n, X, e, step) /\ f[n] = h[1 .. n]
  BY <1>4, <1>11, FoldSteps
<1>13. f \in [0 .. n -> X] /\ f[0] = <<>>
  BY <1>3, <1>12 DEF Stepwise
<1>14. ASSUME NEW i \in 1 .. n
       PROVE  f[i] = Push(f[i - 1], items[i])
  <2>1. f[i] = step[<<i, f[i - 1]>>]
    BY <1>12 DEF Stepwise
  <2>2. f[i - 1] \in X
    BY <1>13
  <2>3. QED
    BY <1>2, <2>1, <2>2
<1>15. QED
  BY <1>9, <1>10, <1>12, <1>13, <1>14 DEF Pushing

(* If all are valid, none is passed over.                                  *)
LEMMA AllPushed ==
  ASSUME NEW items, NEW n \in Nat, DOMAIN items = 1 .. n,
         \A i \in 1 .. n : Valid(items[i])
  PROVE  FoldLeft(Push, <<>>, items) = [i \in 1 .. n |-> Indicator(items[i])]
<1> DEFINE I == {Indicator(items[i]) : i \in 1 .. n}
           X == Seq(I)
           Pushed(i) == [j \in 1 .. i |-> Indicator(items[j])]
<1>1. \A i \in 1 .. n : \A v \in X : Push(v, items[i]) = Append(v, Indicator(items[i]))
  BY DEF Push
<1>2. \A i \in 1 .. n : Indicator(items[i]) \in I
  OBVIOUS
<1>3. \A i \in 1 .. n : \A v \in X : Push(v, items[i]) \in X
  <2> HIDE DEF I
  <2> QED BY <1>1, <1>2
<1>4. PICK f : /\ f \in [0 .. n -> X]
               /\ f[0] = <<>> /\ f[n] = FoldLeft(Push, <<>>, items)
               /\ \A i \in 1 .. n : f[i] = Push(f[i - 1], items[i])
  <2>1. PICK Y : Y = X
    OBVIOUS
  <2>2. <<>> \in Y /\ \A i \in 1 .. n : \A v \in Y : Push(v, items[i]) \in Y
    <3> HIDE DEF I
    <3> QED BY <1>3, <2>1
  <2> HIDE DEF X
  <2>3. PICK f : Pushing(f, items, n, Y)
    BY <2>2, PushSteps
  <2>4. QED
    BY <2>1, <2>3 DEF Pushing
<1> DEFINE A == {i \in 0 .. n : f[i] # Pushed(i)}
<1>5. A = {}
  <2> SUFFICES ASSUME A # {} PROVE FALSE
    OBVIOUS
  <2>1. PICK m \in A : \A k \in A : m =< k
    <3> A \subseteq Nat
      OBVIOUS
    <3> HIDE DEF A
    <3> QED BY LeastNumber
  <2>2. m \in 1 .. n /\ f[m] # Pushed(m)
    <3>1. Pushed(0) = <<>>
      OBVIOUS
    <3> HIDE DEF Pushed
    <3>2. QED
      BY <1>4, <3>1
  <2>3. m - 1 \in 0 .. n /\ m - 1 \notin A
    <3>1. m - 1 \in 0 .. n /\ ~(m =< m - 1)
      BY <2>2
    <3> HIDE DEF A
    <3>2. QED
      BY <2>1, <3>1
  <2>4. f[m - 1] = Pushed(m - 1)
    BY <2>3
  <2>5. f[m] = Append(Pushed(m - 1), Indicator(items[m]))
    <3>1. f[m - 1] \in X
      BY <2>3
    <3> HIDE DEF X, Pushed
    <3>2. QED
      BY <1>1, <1>4, <2>2, <2>4, <3>1
  <2>6. Append(Pushed(m - 1), Indicator(items[m])) = Pushed(m)
    BY <2>2
  <2>7. QED
    BY <2>2, <2>5, <2>6
<1>6. f[n] = Pushed(n)
  <2>1. n \in 0 .. n /\ n \notin A
    <3> HIDE DEF A
    <3> QED BY <1>5
  <2>2. QED
    BY <2>1
<1>7. QED
  BY <1>4, <1>6

(* The details of an array's items are a sum, so there is none only if each *)
(* item has none.                                                          *)
LEMMA ItemFacts ==
  ASSUME NEW item, item # OtherType => item.unknown \in Nat
  PROVE  /\ ItemDetails(item) \in Nat
         /\ ItemDetails(item) = 0 => Valid(item)
<1>2. CASE item = OtherType
  BY <1>2 DEF ItemDetails
<1>3. CASE item # OtherType
  <2> DEFINE a == One(item.type \notin Kinds)
             b == One(item.value \notin Texts)
             c == One(item.type \in Kinds /\ item.value \in Texts /\ ~Valid(item))
  <2>1. a \in {0, 1} /\ b \in {0, 1} /\ c \in {0, 1}
    BY DEF One
  <2>2. a = 0 /\ b = 0 /\ c = 0 => Valid(item)
    BY DEF One
  <2>3. ItemDetails(item) = a + b + c + item.unknown
    BY <1>3 DEF ItemDetails
  <2> HIDE DEF a, b, c
  <2>4. QED
    BY <1>3, <2>1, <2>2, <2>3
<1>4. QED
  BY <1>2, <1>3

(* The details of a field are counted by a sum: without details no item    *)
(* has one.                                                                *)
LEMMA DetailsAreSummed ==
  ASSUME NEW field, NEW n \in Nat, DOMAIN field = 1 .. n,
         \A i \in 1 .. n : ItemDetails(field[i]) \in Nat
  PROVE  LET sum == MapThenSumSet(LAMBDA i : ItemDetails(field[i]), DOMAIN field)
         IN  /\ sum \in Nat
             /\ sum = 0 => \A i \in 1 .. n : ItemDetails(field[i]) = 0
<1> DEFINE F(h) == [s \in SUBSET (DOMAIN field) |->
                      IF s = {} THEN 0
                      ELSE ItemDetails(field[Pick(s)]) + h[s \ {Pick(s)}]]
           iter == CHOOSE h : h = F(h)
<1>1. PICK S : S = 1 .. n
  OBVIOUS
<1>2. IsFiniteSet(S) /\ S = DOMAIN field
  BY <1>1, FS_Interval
<1>3. PICK w : w = [i \in S |-> ItemDetails(field[i])]
  OBVIOUS
<1>4. \A x \in S : w[x] \in Nat
  BY <1>1, <1>3
<1>5. \A h : F(h) = [s \in SUBSET S |-> IF s = {} THEN 0
                                       ELSE w[Pick(s)] + h[s \ {Pick(s)}]]
  <2>1. \A s : s # {} => Pick(s) \in s
    BY Zenon DEF Pick
  <2>2. \A s \in SUBSET S : s # {} => w[Pick(s)] = ItemDetails(field[Pick(s)])
    BY <1>3, <2>1
  <2>3. QED
    BY <1>2, <2>2
<1>6. PICK g : SumOver(g, S, w)
  BY <1>2, SumExists
<1>7. g = F(g)
  <2> HIDE DEF F
  <2> QED BY <1>5, <1>6, Zenon DEF SumOver
<1>8. iter = F(iter)
  <2> HIDE DEF F
  <2> QED BY <1>7, Zenon
<1>9. MapThenSumSet(LAMBDA i : ItemDetails(field[i]), DOMAIN field) = iter[S]
  BY <1>2 DEF MapThenSumSet, MapThenFoldSet, Pick
<1>10. SumOver(iter, S, w)
  <2> HIDE DEF F, iter
  <2> QED BY <1>5, <1>8, Zenon DEF SumOver
<1> HIDE DEF iter
<1>11. \A s \in SUBSET S : iter[s] \in Nat
  BY <1>2, <1>4, <1>10, SumIsNat
<1>12. \A x \in S : iter[S] = w[x] + iter[S \ {x}]
  <2>1. PICK h : h = iter
    OBVIOUS
  <2>2. SumOver(h, S, w) /\ S \in SUBSET S
    BY <1>10, <2>1
  <2>3. Additive(h, S, w)
    BY <1>2, <1>4, <2>2, SumIsAdditive
  <2>4. \A x \in S : h[S] = w[x] + h[S \ {x}]
    BY <2>2, <2>3 DEF Additive
  <2>5. QED
    BY <2>1, <2>4
<1>13. ASSUME iter[S] = 0, NEW i \in 1 .. n
       PROVE  ItemDetails(field[i]) = 0
  <2>1. i \in S /\ S \in SUBSET S /\ S \ {i} \in SUBSET S
    BY <1>1
  <2>2. iter[S] = w[i] + iter[S \ {i}] /\ w[i] \in Nat /\ iter[S \ {i}] \in Nat
    BY <1>4, <1>11, <1>12, <2>1
  <2>3. w[i] = 0
    BY <1>13, <2>2
  <2>4. QED
    BY <1>3, <2>1, <2>3
<1>14. QED
  BY <1>9, <1>11, <1>13

(* The providers of a body without details are known and different.        *)
LEMMA ProvidersFacts ==
  ASSUME NEW field, Array(field), field # Missing, ProvidersDetails(field) = 0,
         Missing \notin {OtherType, <<>>}
  PROVE  field \in Seq(KnownProviders) /\ Len(field) > 0 /\ IsInjective(field)
<1>1. field \notin {OtherType, <<>>}
  BY DEF ProvidersDetails
<1>2. field \in Seq(ToSet(field))
  BY <1>1 DEF Array
<1> DEFINE Bad == {n \in DOMAIN field :
                     \/ field[n] \notin KnownProviders
                     \/ \E m \in 1 .. n - 1 : field[m] = field[n]}
<1>3. Cardinality(Bad) = 0
  BY <1>1 DEF ProvidersDetails
<1>4. Len(field) \in Nat /\ DOMAIN field = 1 .. Len(field)
  BY <1>2
<1>5. Bad = {}
  <2>1. IsFiniteSet(1 .. Len(field)) /\ Bad \subseteq 1 .. Len(field)
    BY <1>4, FS_Interval
  <2> HIDE DEF Bad
  <2>2. IsFiniteSet(Bad)
    BY <2>1, FS_Subset
  <2>3. QED
    BY <1>3, <2>2, FS_EmptySet
<1>6. \A n \in 1 .. Len(field) : field[n] \in KnownProviders
  BY <1>4, <1>5
<1>7. field \in Seq(KnownProviders)
  BY <1>2, <1>4, <1>6
<1>8. Len(field) > 0
  BY <1>1, <1>2
<1>9. IsInjective(field)
  <2>1. \A m, n \in 1 .. Len(field) : m < n => field[m] # field[n]
    <3>1. \A m, n \in 1 .. Len(field) : m < n => m \in 1 .. n - 1
      OBVIOUS
    <3>2. QED
      BY <1>4, <1>5, <3>1
  <2>2. \A m, n \in 1 .. Len(field) : field[m] = field[n] => m = n
    BY <2>1
  <2>3. QED
    BY <1>4, <2>2 DEF IsInjective
<1>10. QED
  BY <1>7, <1>8, <1>9

(* Different known providers are no more than there are.                   *)
LEMMA ProvidersBounded ==
  ASSUME NEW list, list \in Seq(KnownProviders), IsInjective(list)
  PROVE  Len(list) =< Cardinality(KnownProviders)
<1>1. Len(list) \in Nat /\ list \in [1 .. Len(list) -> KnownProviders]
  OBVIOUS
<1>2. list \in Injection(1 .. Len(list), KnownProviders)
  BY <1>1 DEF IsInjective, Injection
<1>3. PICK S : S = 1 .. Len(list)
  OBVIOUS
<1>4. Cardinality(S) =< Cardinality(KnownProviders)
  BY <1>2, <1>3, ProvidersAssumption, FS_Injection
<1>5. Cardinality(S) = Len(list)
  BY <1>1, <1>3, FS_Interval
<1>6. QED
  BY <1>4, <1>5

(* The details of a body are counted, and there is none only if the arrays  *)
(* have none.                                                              *)
LEMMA DetailsParts ==
  ASSUME NEW body \in Bodies
  PROVE  LET field == body.indicators
             count == Len(field)
         IN  /\ Details(body) \in Nat
             /\ Details(body) = 0 =>
                  /\ ProvidersDetails(body.providers) = 0
                  /\ field \notin {Missing, OtherType}
                  /\ count \in Nat \ {0} /\ count =< MaxBatch
                  /\ DOMAIN field = 1 .. count
                  /\ \A i \in 1 .. count : Valid(field[i])
<1> DEFINE field == body.indicators
           count == Len(field)
           a == IndicatorsDetails(field)
           b == ProvidersDetails(body.providers)
           c == One(body.include_raw = OtherType)
<1>1. body.unknown \in Nat /\ c \in {0, 1}
  BY BodiesAssumption DEF One
<1>2. ASSUME field \notin {Missing, OtherType}
      PROVE  /\ count \in Nat /\ DOMAIN field = 1 .. count
             /\ \A i \in 1 .. count : /\ ItemDetails(field[i]) \in Nat
                                      /\ ItemDetails(field[i]) = 0 => Valid(field[i])
             /\ a \in Nat
             /\ a = 0 => /\ count # 0 /\ count =< MaxBatch
                         /\ \A i \in 1 .. count : Valid(field[i])
  <2>1. field \in Seq(ToSet(field))
    BY <1>2, BodiesAssumption DEF Array
  <2>2. count \in Nat /\ DOMAIN field = 1 .. count
    BY <2>1
  <2>3. \A i \in 1 .. count : field[i] # OtherType => field[i].unknown \in Nat
    BY <1>2, <2>2, BodiesAssumption
  <2>4. \A i \in 1 .. count : /\ ItemDetails(field[i]) \in Nat
                              /\ ItemDetails(field[i]) = 0 => Valid(field[i])
    BY <2>3, ItemFacts
  <2> DEFINE sum == MapThenSumSet(LAMBDA n : ItemDetails(field[n]), DOMAIN field)
             d == One(field = <<>> \/ Len(field) > MaxBatch)
  <2>5. /\ sum \in Nat
        /\ sum = 0 => \A i \in 1 .. count : ItemDetails(field[i]) = 0
    BY <2>2, <2>4, DetailsAreSummed
  <2>6. a = d + sum
    BY <1>2 DEF IndicatorsDetails
  <2>7. d \in {0, 1} /\ (d = 0 => field # <<>> /\ count =< MaxBatch)
    BY <2>2, SizesAssumption DEF One
  <2>8. count = 0 => field = <<>>
    BY <2>1
  <2> HIDE DEF sum, d, a, count
  <2>9. QED
    BY <2>2, <2>4, <2>5, <2>6, <2>7, <2>8
<1>3. a \in Nat /\ (a = 0 => field \notin {Missing, OtherType})
  <2>1. CASE field \in {Missing, OtherType}
    BY <2>1 DEF IndicatorsDetails
  <2>2. CASE field \notin {Missing, OtherType}
    BY <1>2, <2>2
  <2>3. QED
    BY <2>1, <2>2
<1>4. b \in Nat
  <2> DEFINE providers == body.providers
  <2>1. CASE providers \in {Missing, OtherType, <<>>}
    BY <2>1, MarksAssumption DEF ProvidersDetails
  <2>2. CASE providers \notin {Missing, OtherType, <<>>}
    <3> DEFINE Bad == {n \in DOMAIN providers :
                         \/ providers[n] \notin KnownProviders
                         \/ \E m \in 1 .. n - 1 : providers[m] = providers[n]}
    <3>1. providers \in Seq(ToSet(providers))
      BY <2>2, BodiesAssumption DEF Array
    <3>2. Len(providers) \in Nat /\ DOMAIN providers = 1 .. Len(providers)
      BY <3>1
    <3>3. IsFiniteSet(1 .. Len(providers)) /\ Bad \subseteq 1 .. Len(providers)
      BY <3>2, FS_Interval
    <3>4. b = Cardinality(Bad)
      BY <2>2 DEF ProvidersDetails
    <3> HIDE DEF Bad
    <3>5. QED
      BY <3>3, <3>4, FS_Subset, FS_CardinalityType
  <2>3. QED
    BY <2>1, <2>2
<1>5. Details(body) \in Nat /\ (Details(body) = 0 => a = 0 /\ b = 0)
  <2>1. Details(body) = IF a + b + c + body.unknown > DetailLimit THEN DetailLimit
                        ELSE a + b + c + body.unknown
    BY DEF Details
  <2>2. DetailLimit \in Nat /\ DetailLimit # 0
    BY SizesAssumption
  <2> HIDE DEF a, b, c
  <2>3. QED
    BY <1>1, <1>3, <1>4, <2>1, <2>2
<1> HIDE DEF a, b
<1>6. QED
  BY <1>2, <1>3, <1>5 DEF b

(* A request: what is asked of a list of providers.                        *)
Asks(q, width, count) ==
  /\ width \in Nat \ {0} /\ count \in Nat \ {0}
  /\ count =< MaxBatch /\ width =< Cardinality(KnownProviders)
  /\ q.providers \in Seq(KnownProviders) /\ Len(q.providers) = width
  /\ Len(q.indicators) = count
  /\ q.include_raw \in BOOLEAN

(* A body without details has only valid items, and validation asks each   *)
(* known provider once (validate_request).                                 *)
LEMMA ValidBody ==
  ASSUME NEW body \in Bodies, Details(body) = 0
  PROVE  LET count == Len(body.indicators)
             asked == IF body.providers = Missing THEN EnabledOrder
                      ELSE body.providers
         IN  /\ DOMAIN body.indicators = 1 .. count
             /\ \A i \in 1 .. count : Valid(body.indicators[i])
             /\ Validated(body).indicators
                  = [i \in 1 .. count |-> Indicator(body.indicators[i])]
             /\ Validated(body).providers = asked
             /\ Asks(Validated(body), Len(asked), count)
<1> DEFINE field == body.indicators
           count == Len(field)
           asked == IF body.providers = Missing THEN EnabledOrder
                    ELSE body.providers
<1>1. ProvidersDetails(body.providers) = 0
  BY DetailsParts
<1>2. /\ field \notin {Missing, OtherType}
      /\ count \in Nat \ {0} /\ count =< MaxBatch /\ DOMAIN field = 1 .. count
      /\ \A i \in 1 .. count : Valid(field[i])
  BY DetailsParts
<1>3. Validated(body).indicators = [i \in 1 .. count |-> Indicator(field[i])]
  <2> HIDE DEF field
  <2>1. FoldLeft(Push, <<>>, field) = [i \in 1 .. count |-> Indicator(field[i])]
    BY <1>2, AllPushed
  <2>2. Validated(body).indicators = FoldLeft(Push, <<>>, field)
    BY DEF Validated, field
  <2>3. QED
    BY <2>1, <2>2
<1>4. Validated(body).providers = asked /\ Validated(body).include_raw \in BOOLEAN
  BY DEF Validated
<1>5. asked \in Seq(KnownProviders) /\ Len(asked) > 0 /\ IsInjective(asked)
  <2>1. CASE body.providers = Missing
    BY <2>1, ProvidersAssumption
  <2>2. CASE body.providers # Missing
    BY <1>1, <2>2, BodiesAssumption, MarksAssumption, ProvidersFacts
  <2>3. QED
    BY <2>1, <2>2
<1>6. Len(asked) \in Nat \ {0} /\ Len(asked) =< Cardinality(KnownProviders)
  BY <1>5, ProvidersBounded
<1>7. Len(Validated(body).indicators) = count
  BY <1>2, <1>3
<1>8. QED
  BY <1>2, <1>3, <1>4, <1>5, <1>6, <1>7 DEF Asks

-----------------------------------------------------------------------------
(* Slots and pairs *)

(* The slots are placed one by one.                                        *)
Placing(f, slots, n, X) ==
  /\ f \in [0 .. n -> X]
  /\ f[0] = NoPairs /\ f[n] = Assemble(slots)
  /\ \A i \in 1 .. n : f[i] = Place(f[i - 1], slots[i])

(* Assembling by Place has an intermediate batch for each number of slots, *)
(* within any set of batches Place stays in.                               *)
LEMMA PlaceSteps ==
  ASSUME NEW slots, NEW n \in Nat, DOMAIN slots = 1 .. n,
         NEW X, \A i \in 1 .. n : \A v \in X : Place(v, slots[i]) \in X,
         NoPairs \in X
  PROVE  \E f : Placing(f, slots, n, X)
<1> DEFINE F(h) == [s \in SUBSET (DOMAIN slots) |->
                      IF s = {} THEN NoPairs
                      ELSE Place(h[s \ {Max(s)}], slots[Max(s)])]
           iter == CHOOSE h : h = F(h)
<1>1. PICK step : step = [q \in (1 .. n) \X X |-> Place(q[2], slots[q[1]])]
  OBVIOUS
<1>2. \A i \in 1 .. n : \A v \in X :
        step[<<i, v>>] = Place(v, slots[i]) /\ step[<<i, v>>] \in X
  BY <1>1
<1>3. PICK e \in X : e = NoPairs
  OBVIOUS
<1>4. \A i \in 1 .. n : \A v \in X : step[<<i, v>>] \in X
  BY <1>2
<1>5. PICK g \in [SUBSET (1 .. n) -> X] : LeftFolded(g, n, X, e, step)
  BY <1>4, LeftFold
<1>6. \A s \in SUBSET (1 .. n) :
        g[s] = IF s = {} THEN NoPairs ELSE Place(g[s \ {Max(s)}], slots[Max(s)])
  <2>1. g[{}] = NoPairs
    BY <1>3, <1>5 DEF LeftFolded
  <2>2. ASSUME NEW s \in SUBSET (1 .. n), s # {}
        PROVE  g[s] = Place(g[s \ {Max(s)}], slots[Max(s)])
    <3>1. Max(s) \in 1 .. n /\ g[s \ {Max(s)}] \in X
      BY <2>2, LastPlaces
    <3>2. g[s] = step[<<Max(s), g[s \ {Max(s)}]>>]
      BY <1>5, <2>2, <3>1 DEF LeftFolded
    <3>3. QED
      BY <1>2, <3>1, <3>2
  <2>3. QED
    BY <2>1, <2>2
<1>7. g = F(g)
  BY <1>6
<1>8. iter = F(iter)
  <2> HIDE DEF F
  <2> QED BY <1>7, Zenon
<1>9. Assemble(slots) = iter[1 .. n]
  BY DEF Assemble, FoldLeft, MapThenFoldSet
<1> HIDE DEF iter
<1>10. PICK h : h = iter
  OBVIOUS
<1>11. LeftFolded(h, n, X, e, step)
  <2>1. h[{}] = NoPairs
    BY <1>8, <1>10
  <2>2. \A s \in SUBSET (1 .. n) : s # {} =>
          h[s] = Place(h[s \ {Max(s)}], slots[Max(s)])
    BY <1>8, <1>10
  <2>3. ASSUME NEW s \in SUBSET (1 .. n), s # {}, h[s \ {Max(s)}] \in X
        PROVE  h[s] = step[<<Max(s), h[s \ {Max(s)}]>>]
    <3>1. Max(s) \in 1 .. n
      BY <2>3, LastPlaces
    <3>2. QED
      BY <1>2, <2>2, <2>3, <3>1
  <2>4. QED
    BY <1>3, <2>1, <2>3 DEF LeftFolded
<1>12. PICK f : Stepwise(f, n, X, e, step) /\ f[n] = h[1 .. n]
  BY <1>4, <1>11, FoldSteps
<1>13. f \in [0 .. n -> X] /\ f[0] = NoPairs
  BY <1>3, <1>12 DEF Stepwise
<1>14. ASSUME NEW i \in 1 .. n
       PROVE  f[i] = Place(f[i - 1], slots[i])
  <2>1. f[i] = step[<<i, f[i - 1]>>]
    BY <1>12 DEF Stepwise
  <2>2. f[i - 1] \in X
    BY <1>13
  <2>3. QED
    BY <1>2, <2>1, <2>2
<1>15. QED
  BY <1>9, <1>10, <1>12, <1>13, <1>14 DEF Placing

(* Places in rows of one width.                                            *)
LEMMA RowsAndColumns ==
  ASSUME NEW width \in Nat \ {0}, NEW count \in Nat
  PROVE  /\ count * width \in Nat
         /\ \A s \in 1 .. count * width :
              /\ ((s - 1) % width) + 1 \in 1 .. width
              /\ ((s - 1) \div width) + 1 \in 1 .. count
         /\ \A i \in 1 .. count, p \in 1 .. width :
              /\ (i - 1) * width + p \in 1 .. count * width
              /\ (((i - 1) * width + p - 1) % width) + 1 = p
              /\ (((i - 1) * width + p - 1) \div width) + 1 = i
<1>1. count * width \in Nat
  OBVIOUS
<1>2. ASSUME NEW s \in 1 .. count * width
      PROVE  /\ ((s - 1) % width) + 1 \in 1 .. width
             /\ ((s - 1) \div width) + 1 \in 1 .. count
  <2> DEFINE d == (s - 1) \div width
             m == (s - 1) % width
  <2>1. s - 1 \in Nat /\ s - 1 < count * width
    BY <1>1
  <2>2. d \in Nat /\ m \in 0 .. width - 1 /\ s - 1 = d * width + m
    BY <2>1
  <2> HIDE DEF d, m
  <2>3. d * width < count * width
    BY <2>1, <2>2
  <2>4. d < count
    BY <2>2, <2>3
  <2>5. m + 1 \in 1 .. width /\ d + 1 \in 1 .. count
    BY <2>2, <2>4
  <2>6. QED
    BY <2>5 DEF d, m
<1>3. ASSUME NEW i \in 1 .. count, NEW p \in 1 .. width
      PROVE  /\ (i - 1) * width + p \in 1 .. count * width
             /\ (((i - 1) * width + p - 1) % width) + 1 = p
             /\ (((i - 1) * width + p - 1) \div width) + 1 = i
  <2>1. PICK j \in Nat : j = i - 1
    OBVIOUS
  <2>2. PICK q \in Nat : q = p - 1
    OBVIOUS
  <2>3. q < width /\ j < count
    BY <2>1, <2>2
  <2>4. (j * width + q) % width = q /\ (j * width + q) \div width = j
    BY <2>3
  <2>5. j * width + p = j * width + q + 1
    BY <2>2
  <2>6. j * width + width =< count * width
    BY <2>3
  <2>7. j * width + p \in 1 .. count * width
    BY <1>1, <2>1, <2>2, <2>6
  <2>8. j * width + p - 1 = j * width + q
    BY <2>2
  <2>9. QED
    BY <2>1, <2>2, <2>4, <2>7, <2>8
<1>4. QED
  BY <1>1, <1>2, <1>3

(* Each indicator has a slot with each provider.                           *)
LEMMA SlotsFacts ==
  ASSUME NEW q, NEW width, NEW count, Asks(q, width, count)
  PROVE  LET slots == Slots(q)
         IN  /\ count * width \in Nat \ {0}
             /\ DOMAIN slots = 1 .. count * width
             /\ slots \in Seq(ToSet(slots)) /\ Len(slots) = count * width
             /\ \A i \in 1 .. count, p \in 1 .. width :
                  slots[(i - 1) * width + p] =
                    [provider |-> q.providers[p],
                     indicator |-> q.indicators[i]]
<1> DEFINE slots == Slots(q)
<1>1. width \in Nat \ {0} /\ count \in Nat \ {0}
  BY DEF Asks
<1>2. slots = [s \in 1 .. count * width |->
         [provider |-> q.providers[((s - 1) % width) + 1],
          indicator |-> q.indicators[((s - 1) \div width) + 1]]]
  BY DEF Slots, Asks
<1>3. count * width \in Nat \ {0}
  BY <1>1
<1> HIDE DEF slots
<1>4. slots \in Seq(ToSet(slots)) /\ Len(slots) = count * width
  <2>1. PICK n \in Nat : n = count * width
    BY <1>3
  <2>2. DOMAIN slots = 1 .. n /\ slots = [s \in 1 .. n |-> slots[s]]
    BY <1>2, <2>1
  <2>3. \A s \in 1 .. n : slots[s] \in ToSet(slots)
    BY <2>2 DEF ToSet
  <2>4. slots \in [1 .. n -> ToSet(slots)]
    BY <2>2, <2>3
  <2>5. slots \in Seq(ToSet(slots)) /\ Len(slots) = n
    BY <2>2, <2>4
  <2>6. QED
    BY <2>1, <2>5
<1>5. ASSUME NEW i \in 1 .. count, NEW p \in 1 .. width
      PROVE  slots[(i - 1) * width + p] =
               [provider |-> q.providers[p],
                indicator |-> q.indicators[i]]
  <2>1. PICK s : s = (i - 1) * width + p
    OBVIOUS
  <2>2. s \in 1 .. count * width /\ ((s - 1) % width) + 1 = p
        /\ ((s - 1) \div width) + 1 = i
    BY <1>1, <1>5, <2>1, RowsAndColumns
  <2>3. QED
    BY <1>2, <2>1, <2>2
<1>6. QED
  BY <1>2, <1>3, <1>4, <1>5 DEF slots

(* The first i slots have their places in b: each has the pair of its own   *)
(* identity, and no identity has two pairs.                                *)
BatchType(T) == [pairs : Seq(T), positions : Seq(Nat)]

Placed(b, slots, i) ==
  /\ Len(b.pairs) =< i /\ (i # 0 => Len(b.pairs) # 0)
  /\ DOMAIN b.positions = 1 .. i
  /\ \A s \in 1 .. i :
       /\ b.positions[s] \in 1 .. Len(b.pairs)
       /\ Identity(b.pairs[b.positions[s]]) = Identity(slots[s])
  /\ \A m, n \in 1 .. Len(b.pairs) :
       Identity(b.pairs[m]) = Identity(b.pairs[n]) => m = n

(* Placing a slot keeps the pairs and the positions sequences.             *)
LEMMA PlaceType ==
  ASSUME NEW T, NEW b \in BatchType(T), NEW slot \in T
  PROVE  Place(b, slot) \in BatchType(T)
<1> DEFINE same == {n \in DOMAIN b.pairs : Identity(b.pairs[n]) = Identity(slot)}
<1>1. /\ b.pairs \in Seq(T) /\ b.positions \in Seq(Nat)
      /\ Len(b.pairs) \in Nat /\ DOMAIN b.pairs = 1 .. Len(b.pairs)
  BY DEF BatchType
<1>2. CASE same = {}
  BY <1>1, <1>2 DEF Place, BatchType
<1>3. CASE same # {}
  <2>1. Min(same) \in same
    <3>1. PICK k \in same : \A j \in same : k =< j
      <4> same \subseteq Nat
        BY <1>1
      <4> HIDE DEF same
      <4> QED BY <1>3, LeastNumber
    <3> HIDE DEF same
    <3>2. QED
      BY <3>1 DEF Min
  <2>2. Append(b.positions, Min(same)) \in Seq(Nat)
    BY <1>1, <2>1
  <2>3. Place(b, slot) = [b EXCEPT !.positions = Append(@, Min(same))]
    BY <1>3 DEF Place
  <2> HIDE DEF same
  <2>4. QED
    BY <2>2, <2>3 DEF BatchType
<1>4. QED
  BY <1>2, <1>3

(* One more slot is placed.                                                *)
LEMMA PlaceKeeps ==
  ASSUME NEW T, NEW b \in BatchType(T), NEW slots, NEW i \in Nat \ {0},
         slots[i] \in T, Placed(b, slots, i - 1)
  PROVE  Placed(Place(b, slots[i]), slots, i)
<1> DEFINE slot == slots[i]
           c == Place(b, slot)
           k == Len(b.pairs)
           same == {n \in DOMAIN b.pairs : Identity(b.pairs[n]) = Identity(slot)}
<1>1. /\ b.pairs \in Seq(T) /\ b.positions \in Seq(Nat)
      /\ k \in Nat /\ DOMAIN b.pairs = 1 .. k
  BY DEF BatchType
<1>2. /\ k =< i - 1 /\ (i - 1 # 0 => k # 0)
      /\ DOMAIN b.positions = 1 .. i - 1
      /\ \A s \in 1 .. i - 1 :
           /\ b.positions[s] \in 1 .. k
           /\ Identity(b.pairs[b.positions[s]]) = Identity(slots[s])
      /\ \A m, n \in 1 .. k : Identity(b.pairs[m]) = Identity(b.pairs[n]) => m = n
  BY DEF Placed
<1>3. Len(b.positions) = i - 1
  BY <1>1, <1>2
<1>4. \A j : LET q == Append(b.positions, j)
             IN  /\ DOMAIN q = 1 .. i /\ q[i] = j
                 /\ \A s \in 1 .. i - 1 : q[s] = b.positions[s]
  BY <1>1, <1>3
<1>5. CASE same = {}
  <2>1. c = [pairs |-> Append(b.pairs, slot),
             positions |-> Append(b.positions, k + 1)]
    BY <1>5 DEF Place
  <2>2. /\ Len(c.pairs) = k + 1 /\ c.pairs[k + 1] = slot
        /\ \A n \in 1 .. k : c.pairs[n] = b.pairs[n]
    BY <1>1, <2>1
  <2>3. /\ DOMAIN c.positions = 1 .. i /\ c.positions[i] = k + 1
        /\ \A s \in 1 .. i - 1 : c.positions[s] = b.positions[s]
    BY <1>4, <2>1
  <2>4. \A n \in 1 .. k : Identity(c.pairs[n]) # Identity(slot)
    BY <1>1, <1>5, <2>2
  <2> HIDE DEF c, k, slot
  <2>5. ASSUME NEW m \in 1 .. k + 1, NEW n \in 1 .. k + 1,
               Identity(c.pairs[m]) = Identity(c.pairs[n])
        PROVE  m = n
    <3>1. CASE m = k + 1 \/ n = k + 1
      BY <1>1, <2>2, <2>4, <2>5, <3>1
    <3>2. CASE m # k + 1 /\ n # k + 1
      <4>1. m \in 1 .. k /\ n \in 1 .. k
        BY <1>1, <3>2
      <4>2. Identity(b.pairs[m]) = Identity(b.pairs[n])
        BY <2>2, <2>5, <4>1
      <4>3. QED
        BY <1>2, <4>1, <4>2 DEF k
    <3>3. QED
      BY <3>1, <3>2
  <2>6. ASSUME NEW s \in 1 .. i
        PROVE  /\ c.positions[s] \in 1 .. k + 1
               /\ Identity(c.pairs[c.positions[s]]) = Identity(slots[s])
    <3>1. CASE s = i
      BY <1>1, <2>2, <2>3, <3>1 DEF slot
    <3>2. CASE s # i
      <4>1. s \in 1 .. i - 1
        BY <3>2
      <4>2. /\ c.positions[s] = b.positions[s] /\ b.positions[s] \in 1 .. k
            /\ Identity(b.pairs[b.positions[s]]) = Identity(slots[s])
        BY <1>2, <2>3, <4>1 DEF k
      <4>3. c.pairs[b.positions[s]] = b.pairs[b.positions[s]]
        BY <2>2, <4>2
      <4>4. QED
        BY <1>1, <4>2, <4>3
    <3>3. QED
      BY <3>1, <3>2
  <2>7. k + 1 =< i /\ k + 1 # 0
    BY <1>1, <1>2 DEF k
  <2>8. Placed(c, slots, i)
    BY <2>2, <2>3, <2>5, <2>6, <2>7 DEF Placed
  <2>9. QED
    BY <2>8 DEF c, slot
<1>6. CASE same # {}
  <2>1. Min(same) \in same
    <3>1. PICK j \in same : \A n \in same : j =< n
      <4> same \subseteq Nat
        BY <1>1
      <4> HIDE DEF same
      <4> QED BY <1>6, LeastNumber
    <3> HIDE DEF same
    <3>2. QED
      BY <3>1 DEF Min
  <2>2. PICK j : j = Min(same)
    OBVIOUS
  <2>3. j \in 1 .. k /\ Identity(b.pairs[j]) = Identity(slot)
    BY <1>1, <2>1, <2>2
  <2>4. c = [b EXCEPT !.positions = Append(@, Min(same))]
    BY <1>6 DEF Place
  <2> HIDE DEF same
  <2>5. c.pairs = b.pairs /\ c.positions = Append(b.positions, j)
    BY <2>2, <2>4 DEF BatchType
  <2>6. /\ DOMAIN c.positions = 1 .. i /\ c.positions[i] = j
        /\ \A s \in 1 .. i - 1 : c.positions[s] = b.positions[s]
    BY <1>4, <2>5
  <2> HIDE DEF c
  <2>7. ASSUME NEW s \in 1 .. i
        PROVE  /\ c.positions[s] \in 1 .. k
               /\ Identity(b.pairs[c.positions[s]]) = Identity(slots[s])
    <3>1. CASE s = i
      BY <2>3, <2>6, <3>1
    <3>2. CASE s # i
      <4>1. s \in 1 .. i - 1
        BY <3>2
      <4>2. QED
        BY <1>2, <2>6, <4>1
    <3>3. QED
      BY <3>1, <3>2
  <2>8. k =< i /\ k # 0
    BY <1>1, <1>2, <2>3
  <2>9. Placed(c, slots, i)
    BY <1>2, <2>5, <2>6, <2>7, <2>8 DEF Placed
  <2>10. QED
    BY <2>9 DEF c
<1>7. QED
  BY <1>5, <1>6

(* All slots are placed.                                                   *)
LEMMA AssembleFacts ==
  ASSUME NEW T, NEW slots \in Seq(T)
  PROVE  /\ Assemble(slots) \in BatchType(T)
         /\ Placed(Assemble(slots), slots, Len(slots))
<1> DEFINE n == Len(slots)
           X == BatchType(T)
<1>1. n \in Nat /\ DOMAIN slots = 1 .. n /\ \A i \in 1 .. n : slots[i] \in T
  OBVIOUS
<1>2. NoPairs \in X
  BY DEF NoPairs, BatchType
<1>3. \A i \in 1 .. n : \A v \in X : Place(v, slots[i]) \in X
  BY <1>1, PlaceType
<1>4. PICK f : Placing(f, slots, n, X)
  <2> HIDE DEF X, n
  <2> QED BY <1>1, <1>2, <1>3, PlaceSteps
<1>5. /\ f \in [0 .. n -> X] /\ f[0] = NoPairs /\ f[n] = Assemble(slots)
      /\ \A i \in 1 .. n : f[i] = Place(f[i - 1], slots[i])
  BY <1>4 DEF Placing
<1> HIDE DEF X, n
<1> DEFINE A == {i \in 0 .. n : ~Placed(f[i], slots, i)}
<1>6. A = {}
  <2> SUFFICES ASSUME A # {} PROVE FALSE
    OBVIOUS
  <2>1. PICK m \in A : \A k \in A : m =< k
    <3> A \subseteq Nat
      OBVIOUS
    <3> HIDE DEF A
    <3> QED BY LeastNumber
  <2>2. m \in 0 .. n /\ ~Placed(f[m], slots, m)
    OBVIOUS
  <2>3. m # 0
    <3>1. Placed(NoPairs, slots, 0)
      BY DEF Placed, NoPairs
    <3>2. QED
      BY <1>5, <2>2, <3>1
  <2>4. m - 1 \in 0 .. n /\ m - 1 \notin A
    <3>1. m - 1 \in 0 .. n /\ ~(m =< m - 1)
      BY <1>1, <2>2, <2>3
    <3> HIDE DEF A
    <3>2. QED
      BY <2>1, <3>1
  <2>5. Placed(f[m - 1], slots, m - 1)
    BY <2>4
  <2>6. /\ f[m - 1] \in BatchType(T) /\ m \in 1 .. n /\ m \in Nat \ {0}
        /\ slots[m] \in T /\ f[m] = Place(f[m - 1], slots[m])
    BY <1>1, <1>5, <2>2, <2>3, <2>4 DEF X
  <2>7. PICK b : b = f[m - 1]
    OBVIOUS
  <2>8. Placed(Place(b, slots[m]), slots, m)
    BY <2>5, <2>6, <2>7, PlaceKeeps
  <2>9. QED
    BY <2>2, <2>6, <2>7, <2>8
<1>7. n \in 0 .. n /\ n \notin A
  <2> HIDE DEF A
  <2> QED BY <1>1, <1>6
<1>8. Placed(f[n], slots, n)
  BY <1>7
<1>9. QED
  BY <1>1, <1>5, <1>8 DEF X, n

-----------------------------------------------------------------------------
(* What fits into a response *)

(* What is left of the budget is never more than it was and never negative. *)
LEMMA LeftFacts ==
  ASSUME NEW outcomes, NEW n \in Nat, Len(outcomes) = n,
         \A s \in 1 .. n : outcomes[s].raw \in Nat
  PROVE  LET left == LeftForRaw(outcomes)
         IN  /\ left[0] = RawBudget
             /\ \A s \in 0 .. n : left[s] \in 0 .. RawBudget
             /\ \A s \in 1 .. n :
                  left[s] = IF outcomes[s].raw > 0 /\ outcomes[s].raw =< left[s - 1]
                            THEN left[s - 1] - outcomes[s].raw ELSE left[s - 1]
<1> DEFINE X == 0 .. RawBudget
           after(s, v) == IF outcomes[s].raw > 0 /\ outcomes[s].raw =< v
                          THEN v - outcomes[s].raw ELSE v
           F(h) == [s \in 0 .. Len(outcomes) |->
                      IF s = 0 THEN RawBudget ELSE after(s, h[s - 1])]
           left == CHOOSE h : h = F(h)
<1>1. RawBudget \in X
  BY SizesAssumption
<1>2. \A s \in 1 .. n : \A v \in X : after(s, v) \in X
  BY SizesAssumption
<1>3. PICK step : step = [q \in (1 .. n) \X X |-> after(q[1], q[2])]
  OBVIOUS
<1>4. /\ step \in [(1 .. n) \X X -> X]
      /\ \A s \in 1 .. n : \A v \in X : step[<<s, v>>] = after(s, v)
  <2> HIDE DEF after, X
  <2> QED BY <1>2, <1>3
<1>5. PICK f \in [0 .. n -> X] :
         f = [s \in 0 .. n |-> IF s = 0 THEN RawBudget ELSE step[<<s, f[s - 1]>>]]
  <2>1. PICK Y : Y = X
    OBVIOUS
  <2>2. RawBudget \in Y /\ step \in [(1 .. n) \X Y -> Y]
    BY <1>1, <1>4, <2>1
  <2> HIDE DEF X
  <2>3. \E f \in [0 .. n -> Y] :
         f = [s \in 0 .. n |-> IF s = 0 THEN RawBudget ELSE step[<<s, f[s - 1]>>]]
    <3>1. RawBudget \in Y /\ n \in Nat
      BY <2>2
    <3>2. PICK f : Stepwise(f, n, Y, RawBudget, step)
      BY <2>2, <3>1, Recursion
    <3>3. QED
      BY <3>2 DEF Stepwise
  <2>4. QED
    BY <2>1, <2>3
<1>6. f = F(f)
  <2>1. \A s \in 0 .. n : f[s] = IF s = 0 THEN RawBudget ELSE after(s, f[s - 1])
    <3>1. ASSUME NEW s \in 0 .. n, s # 0
          PROVE  f[s] = after(s, f[s - 1])
      <4>1. s \in 1 .. n /\ s - 1 \in 0 .. n
        BY <3>1
      <4> HIDE DEF after, X
      <4>2. f[s - 1] \in X /\ f[s] = step[<<s, f[s - 1]>>]
        BY <1>5, <3>1, <4>1
      <4>3. QED
        BY <1>4, <4>1, <4>2
    <3>2. f[0] = RawBudget
      <4> HIDE DEF after, X
      <4> QED BY <1>5
    <3> HIDE DEF after, X
    <3>3. QED
      BY <3>1, <3>2
  <2>2. f = [s \in 0 .. n |-> f[s]]
    OBVIOUS
  <2> HIDE DEF after, X
  <2>3. QED
    BY <2>1, <2>2
<1>7. left = F(left)
  <2> HIDE DEF F
  <2> QED BY <1>6, Zenon
<1>8. left = LeftForRaw(outcomes)
  BY DEF LeftForRaw
<1> HIDE DEF left, after, X
<1>9. /\ left[0] = RawBudget
      /\ \A s \in 1 .. n : left[s] = after(s, left[s - 1])
  BY <1>7
<1> DEFINE A == {s \in 0 .. n : left[s] \notin X}
<1>10. A = {}
  <2> SUFFICES ASSUME A # {} PROVE FALSE
    OBVIOUS
  <2>1. PICK m \in A : \A k \in A : m =< k
    <3> A \subseteq Nat
      OBVIOUS
    <3> HIDE DEF A
    <3> QED BY LeastNumber
  <2>2. m \in 0 .. n /\ left[m] \notin X
    OBVIOUS
  <2>3. m # 0
    BY <1>1, <1>9, <2>2
  <2>4. m - 1 \in 0 .. n /\ m - 1 \notin A
    <3>1. m - 1 \in 0 .. n /\ ~(m =< m - 1)
      BY <2>2, <2>3
    <3> HIDE DEF A
    <3>2. QED
      BY <2>1, <3>1
  <2>5. left[m - 1] \in X /\ m \in 1 .. n
    BY <2>2, <2>3, <2>4
  <2>6. QED
    BY <1>2, <1>9, <2>2, <2>5
<1>11. \A s \in 0 .. n : left[s] \in X
  BY <1>10
<1>12. QED
  BY <1>8, <1>9, <1>11 DEF after, X

(* The raw bytes of a response are the sum over the entries with a report.  *)
LEMMA RawIsSum ==
  ASSUME NEW entries, NEW S, IsFiniteSet(S), Included(entries) \in SUBSET S,
         NEW w, \A s \in Included(entries) : w[s] = entries[s].raw,
         NEW g, SumOver(g, S, w)
  PROVE  RawSize(entries) = g[Included(entries)]
<1> DEFINE I == Included(entries)
           F(h) == [s \in SUBSET I |-> IF s = {} THEN 0
                                       ELSE entries[Pick(s)].raw + h[s \ {Pick(s)}]]
           iter == CHOOSE h : h = F(h)
<1>1. RawSize(entries) = iter[I]
  BY DEF RawSize, MapThenSumSet, MapThenFoldSet, Pick
<1>2. PICK J : J = I
  OBVIOUS
<1>3. IsFiniteSet(J) /\ J \in SUBSET S /\ J \in SUBSET J
  BY <1>2, FS_Subset
<1>4. \A h : F(h) = [s \in SUBSET J |-> IF s = {} THEN 0
                                       ELSE w[Pick(s)] + h[s \ {Pick(s)}]]
  <2>1. \A s : s # {} => Pick(s) \in s
    BY Zenon DEF Pick
  <2>2. \A s \in SUBSET I : s # {} => w[Pick(s)] = entries[Pick(s)].raw
    BY <2>1
  <2> HIDE DEF I
  <2>3. QED
    BY <1>2, <2>2
<1> HIDE DEF I
<1>5. PICK f : SumOver(f, J, w)
  BY <1>3, SumExists
<1>6. f = F(f)
  <2> HIDE DEF F
  <2> QED BY <1>4, <1>5, Zenon DEF SumOver
<1>7. iter = F(iter)
  <2> HIDE DEF F
  <2> QED BY <1>6, Zenon
<1>8. PICK h : h = iter
  OBVIOUS
<1>9. SumOver(h, J, w)
  <2> HIDE DEF F, iter
  <2> QED BY <1>4, <1>7, <1>8, Zenon DEF SumOver
<1> HIDE DEF iter
<1>10. \A s \in SUBSET J : s \in SUBSET S => h[s] = g[s]
  BY <1>3, <1>9, SumsAgree
<1>11. QED
  BY <1>1, <1>2, <1>3, <1>8, <1>10 DEF I

(* With each entry the raw bytes grow by its own.                          *)
LEMMA RawOfPrefix ==
  ASSUME NEW E, NEW entries \in Seq(E), NEW n \in Nat, Len(entries) = n,
         \A s \in 1 .. n : entries[s].raw \in Nat
  PROVE  LET raw(k) == RawSize(SubSeq(entries, 1, k))
         IN  /\ raw(0) = 0 /\ raw(n) = RawSize(entries)
             /\ \A k \in 0 .. n : raw(k) \in Nat
             /\ \A k \in 1 .. n : raw(k) = raw(k - 1) + entries[k].raw
<1> DEFINE raw(k) == RawSize(SubSeq(entries, 1, k))
           In(k) == {s \in 1 .. k : entries[s].raw > 0}
<1>1. PICK S : S = 1 .. n
  OBVIOUS
<1>2. IsFiniteSet(S)
  BY <1>1, FS_Interval
<1>3. PICK w : w = [s \in S |-> entries[s].raw]
  OBVIOUS
<1>4. \A s \in S : w[s] \in Nat /\ w[s] = entries[s].raw
  BY <1>1, <1>3
<1>5. PICK g : SumOver(g, S, w)
  BY <1>2, SumExists
<1>6. ASSUME NEW k \in 0 .. n
      PROVE  In(k) \in SUBSET S /\ raw(k) = g[In(k)]
  <2>1. PICK e : e = SubSeq(entries, 1, k)
    OBVIOUS
  <2>2. DOMAIN e = 1 .. k /\ \A s \in 1 .. k : e[s] = entries[s]
    BY <2>1
  <2>3. Included(e) = In(k)
    BY <2>2 DEF Included
  <2>4. In(k) \in SUBSET S /\ \A s \in In(k) : w[s] = e[s].raw
    BY <1>1, <1>4, <2>2
  <2> HIDE DEF In
  <2>5. RawSize(e) = g[Included(e)]
    BY <1>2, <1>5, <2>3, <2>4, RawIsSum
  <2>6. QED
    BY <2>1, <2>3, <2>4, <2>5
<1>7. \A s \in SUBSET S : g[s] \in Nat
  BY <1>2, <1>4, <1>5, SumIsNat
<1>8. \A s \in SUBSET S : \A x \in s : g[s] = w[x] + g[s \ {x}]
  <2>1. \A x \in S : w[x] \in Nat
    BY <1>4
  <2> HIDE DEF raw, In
  <2>2. Additive(g, S, w)
    BY <1>2, <1>5, <2>1, SumIsAdditive
  <2>3. QED
    BY <2>2 DEF Additive
<1>9. raw(0) = 0
  <2>1. In(0) = {}
    OBVIOUS
  <2>2. g[{}] = 0
    BY <1>5, SumFacts
  <2> HIDE DEF raw, In
  <2>3. 0 \in 0 .. n
    OBVIOUS
  <2>4. raw(0) = g[In(0)]
    BY <1>6, <2>3
  <2>5. QED
    BY <2>1, <2>2, <2>4
<1>10. raw(n) = RawSize(entries)
  <2>1. SubSeq(entries, 1, n) = entries
    OBVIOUS
  <2>2. QED
    BY <2>1
<1>11. \A k \in 0 .. n : raw(k) \in Nat
  <2> HIDE DEF raw, In
  <2> QED BY <1>6, <1>7
<1>12. ASSUME NEW k \in 1 .. n
       PROVE  raw(k) = raw(k - 1) + entries[k].raw
  <2>1. k \in 0 .. n /\ k - 1 \in 0 .. n /\ k \in S
    BY <1>1
  <2>2. raw(k) = g[In(k)] /\ raw(k - 1) = g[In(k - 1)] /\ In(k) \in SUBSET S
    <3> HIDE DEF raw, In
    <3> QED BY <1>6, <2>1
  <2>3. CASE entries[k].raw > 0
    <3>1. k \in In(k) /\ In(k) \ {k} = In(k - 1)
      BY <2>3
    <3>2. PICK I : I = In(k)
      OBVIOUS
    <3> HIDE DEF raw, In
    <3>3. I \in SUBSET S /\ k \in I
      BY <2>2, <3>1, <3>2
    <3>5. g[I] = w[k] + g[I \ {k}]
      BY <1>8, <3>3
    <3>6. g[I \ {k}] \in Nat /\ w[k] \in Nat /\ w[k] = entries[k].raw
      BY <1>4, <1>7, <2>1, <3>3
    <3>7. \A a, b \in Nat : a + b = b + a
      OBVIOUS
    <3>8. w[k] + g[I \ {k}] = g[I \ {k}] + w[k]
      BY <3>6, <3>7
    <3>9. QED
      BY <2>2, <3>1, <3>2, <3>5, <3>6, <3>8
  <2>4. CASE ~(entries[k].raw > 0)
    <3>1. In(k) = In(k - 1) /\ entries[k].raw = 0
      BY <2>4
    <3>2. raw(k - 1) \in Nat
      <4> HIDE DEF raw
      <4> QED BY <1>11, <2>1
    <3> HIDE DEF raw, In
    <3>3. QED
      BY <2>2, <3>1, <3>2
  <2>5. QED
    BY <2>3, <2>4
<1>13. QED
  BY <1>9, <1>10, <1>11, <1>12

(* The size of an envelope is a number.                                    *)
LEMMA EnvelopeType ==
  ASSUME NEW entries, NEW n \in Nat, DOMAIN entries = 1 .. n,
         \A s \in 1 .. n : entries[s].outcome.size \in Nat
  PROVE  EnvelopeSize(entries) \in Nat
<1> DEFINE weight(s) == entries[s].outcome.size
                          + ReasonSize * One(entries[s].reason # None)
           F(h) == [s \in SUBSET (DOMAIN entries) |->
                      IF s = {} THEN 0
                      ELSE weight(Pick(s)) + h[s \ {Pick(s)}]]
           iter == CHOOSE h : h = F(h)
<1>1. \A s \in 1 .. n : weight(s) \in Nat
  BY FrameAssumption DEF One
<1>2. EnvelopeSize(entries) = FrameSize + iter[DOMAIN entries]
  BY DEF EnvelopeSize, MapThenSumSet, MapThenFoldSet, Pick
<1> HIDE DEF weight
<1>3. PICK S : S = 1 .. n
  OBVIOUS
<1>4. IsFiniteSet(S) /\ S = DOMAIN entries /\ S \in SUBSET S
  BY <1>3, FS_Interval
<1>5. PICK w : w = [s \in S |-> weight(s)]
  OBVIOUS
<1>6. \A h : F(h) = [s \in SUBSET S |-> IF s = {} THEN 0
                                       ELSE w[Pick(s)] + h[s \ {Pick(s)}]]
  <2>1. \A s : s # {} => Pick(s) \in s
    BY Zenon DEF Pick
  <2>2. \A s \in SUBSET S : s # {} => w[Pick(s)] = weight(Pick(s))
    BY <1>5, <2>1
  <2>3. QED
    BY <1>4, <2>2
<1>7. PICK g : SumOver(g, S, w)
  BY <1>4, SumExists
<1>8. g = F(g)
  <2> HIDE DEF F
  <2> QED BY <1>6, <1>7, Zenon DEF SumOver
<1>9. iter = F(iter)
  <2> HIDE DEF F
  <2> QED BY <1>8, Zenon
<1>10. PICK h : h = iter
  OBVIOUS
<1>11. SumOver(h, S, w)
  <2> HIDE DEF F, iter
  <2> QED BY <1>6, <1>9, <1>10, Zenon DEF SumOver
<1> HIDE DEF iter
<1>12. \A s \in S : w[s] \in Nat
  BY <1>1, <1>3, <1>5
<1>13. h[S] \in Nat
  BY <1>4, <1>11, <1>12, SumIsNat
<1>14. QED
  BY <1>2, <1>4, <1>10, <1>13, FrameAssumption

(* The raw reports of a response stay within their budget, none is left out *)
(* that would have fitted, and what passes as an envelope can be written.  *)
LEMMA EntriesFacts ==
  ASSUME NEW q, q.include_raw \in BOOLEAN,
         NEW outcomes, NEW n \in Nat, DOMAIN outcomes = 1 .. n, Len(outcomes) = n,
         \A s \in 1 .. n : outcomes[s].raw \in Nat /\ outcomes[s].size \in Nat
  PROVE  LET entries == Entries(q, outcomes)
         IN  /\ DOMAIN entries = 1 .. n
             /\ \A s \in 1 .. n : entries[s].outcome = outcomes[s]
             /\ RawSize(entries) =< RawBudget
             /\ \A s \in 1 .. n : entries[s].reason = "response_size_limit" =>
                  RawSize(SubSeq(entries, 1, s - 1)) + outcomes[s].raw > RawBudget
             /\ EnvelopeFits(entries) => Writable(entries)
<1> DEFINE entries == Entries(q, outcomes)
           left == LeftForRaw(outcomes)
<1>1. entries = [s \in 1 .. n |->
        [outcome |-> outcomes[s],
         raw |-> IF q.include_raw /\ outcomes[s].raw =< left[s - 1]
                   THEN outcomes[s].raw ELSE 0,
         reason |-> IF ~q.include_raw THEN None
                    ELSE IF outcomes[s].raw = 0 THEN "not_available"
                    ELSE IF outcomes[s].raw > left[s - 1] THEN "response_size_limit"
                    ELSE None]]
  BY DEF Entries
<1>2. /\ left[0] = RawBudget
      /\ \A s \in 0 .. n : left[s] \in 0 .. RawBudget
      /\ \A s \in 1 .. n :
           left[s] = IF outcomes[s].raw > 0 /\ outcomes[s].raw =< left[s - 1]
                     THEN left[s - 1] - outcomes[s].raw ELSE left[s - 1]
  BY LeftFacts
<1> HIDE DEF entries, left
<1>3. /\ DOMAIN entries = 1 .. n
      /\ \A s \in 1 .. n :
           /\ entries[s].outcome = outcomes[s] /\ entries[s].raw \in Nat
           /\ entries[s].raw = IF q.include_raw /\ outcomes[s].raw =< left[s - 1]
                               THEN outcomes[s].raw ELSE 0
           /\ entries[s].reason = "response_size_limit" =>
                q.include_raw /\ outcomes[s].raw > left[s - 1]
  BY <1>1, MarksAssumption
<1>4. entries \in Seq({entries[s] : s \in 1 .. n}) /\ Len(entries) = n
  <2>1. entries = [s \in 1 .. n |-> entries[s]]
    BY <1>1
  <2>2. QED
    BY <2>1
<1> DEFINE raw(k) == RawSize(SubSeq(entries, 1, k))
<1>5. /\ raw(0) = 0 /\ raw(n) = RawSize(entries)
      /\ \A k \in 0 .. n : raw(k) \in Nat
      /\ \A k \in 1 .. n : raw(k) = raw(k - 1) + entries[k].raw
  <2>1. PICK E : E = {entries[s] : s \in 1 .. n}
    OBVIOUS
  <2>2. entries \in Seq(E)
    BY <1>4, <2>1
  <2>3. QED
    BY <1>3, <1>4, <2>2, RawOfPrefix
<1> HIDE DEF raw
<1>6. RawBudget \in Nat
  BY SizesAssumption
<1> DEFINE A == {k \in 0 .. n :
                   IF q.include_raw THEN raw(k) + left[k] # RawBudget
                   ELSE raw(k) # 0}
<1>7. A = {}
  <2> SUFFICES ASSUME A # {} PROVE FALSE
    OBVIOUS
  <2>1. PICK m \in A : \A k \in A : m =< k
    <3> A \subseteq Nat
      OBVIOUS
    <3> HIDE DEF A
    <3> QED BY LeastNumber
  <2>2. m \in 0 .. n /\ IF q.include_raw THEN raw(m) + left[m] # RawBudget
                        ELSE raw(m) # 0
    OBVIOUS
  <2>3. m # 0
    BY <1>2, <1>5, <1>6, <2>2
  <2>4. m - 1 \in 0 .. n /\ m - 1 \notin A
    <3>1. m - 1 \in 0 .. n /\ ~(m =< m - 1)
      BY <2>2, <2>3
    <3> HIDE DEF A
    <3>2. QED
      BY <2>1, <3>1
  <2>5. IF q.include_raw THEN raw(m - 1) + left[m - 1] = RawBudget
        ELSE raw(m - 1) = 0
    BY <2>4
  <2> HIDE DEF A
  <2>6. /\ m \in 1 .. n /\ raw(m) \in Nat /\ raw(m - 1) \in Nat
        /\ left[m] \in Nat /\ left[m - 1] \in Nat /\ outcomes[m].raw \in Nat
        /\ raw(m) = raw(m - 1) + entries[m].raw
    BY <1>2, <1>5, <1>6, <2>2, <2>3, <2>4
  <2>7. CASE q.include_raw
    <3>1. CASE outcomes[m].raw =< left[m - 1]
      <4>1. entries[m].raw = outcomes[m].raw
        BY <1>3, <2>6, <2>7, <3>1
      <4>2. left[m] = left[m - 1] - outcomes[m].raw
        <5>1. CASE outcomes[m].raw = 0
          BY <1>2, <2>6, <3>1, <5>1
        <5>2. CASE outcomes[m].raw # 0
          BY <1>2, <2>6, <3>1, <5>2
        <5>3. QED
          BY <5>1, <5>2
      <4>3. QED
        BY <2>2, <2>5, <2>6, <2>7, <4>1, <4>2
    <3>2. CASE ~(outcomes[m].raw =< left[m - 1])
      <4>1. entries[m].raw = 0 /\ left[m] = left[m - 1]
        BY <1>2, <1>3, <2>6, <3>2
      <4>2. QED
        BY <2>2, <2>5, <2>6, <2>7, <4>1
    <3>3. QED
      BY <3>1, <3>2
  <2>8. CASE ~q.include_raw
    <3>1. entries[m].raw = 0
      BY <1>3, <2>6, <2>8
    <3>2. QED
      BY <2>2, <2>5, <2>6, <2>8, <3>1
  <2>9. QED
    BY <2>7, <2>8
<1>8. \A k \in 0 .. n : IF q.include_raw THEN raw(k) + left[k] = RawBudget
                        ELSE raw(k) = 0
  BY <1>7
<1> HIDE DEF A
<1>9. RawSize(entries) =< RawBudget /\ RawSize(entries) \in Nat
  <2>1. n \in 0 .. n /\ raw(n) \in Nat /\ left[n] \in Nat
    BY <1>2, <1>5, <1>6
  <2>2. raw(n) =< RawBudget
    BY <1>6, <1>8, <2>1
  <2>3. QED
    BY <1>5, <2>1, <2>2
<1>10. ASSUME NEW s \in 1 .. n, entries[s].reason = "response_size_limit"
       PROVE  RawSize(SubSeq(entries, 1, s - 1)) + outcomes[s].raw > RawBudget
  <2>1. q.include_raw /\ outcomes[s].raw > left[s - 1]
    BY <1>3, <1>10
  <2>2. s - 1 \in 0 .. n /\ raw(s - 1) \in Nat /\ left[s - 1] \in Nat
    BY <1>2, <1>5, <1>6
  <2>3. raw(s - 1) + left[s - 1] = RawBudget
    BY <1>8, <2>1, <2>2
  <2>4. raw(s - 1) + outcomes[s].raw > RawBudget
    BY <1>6, <2>1, <2>2, <2>3
  <2>5. QED
    BY <2>4 DEF raw
<1>11. ASSUME EnvelopeFits(entries)
       PROVE  Writable(entries)
  <2>1. EnvelopeSize(entries) \in Nat
    BY <1>3, EnvelopeType
  <2>2. Cardinality(Included(entries)) \in Nat
    <3>1. IsFiniteSet(1 .. n) /\ Included(entries) \subseteq 1 .. n
      BY <1>3, FS_Interval DEF Included
    <3>2. IsFiniteSet(Included(entries))
      BY <3>1, FS_Subset
    <3>3. QED
      BY <3>2, FS_CardinalityType
  <2>3. EnvelopeLimit \in Nat
    BY SizesAssumption
  <2>4. QED
    BY <1>6, <1>9, <1>11, <2>1, <2>2, <2>3
       DEF EnvelopeFits, Writable, ResponseSize, RawFraming
<1>12. QED
  BY <1>3, <1>9, <1>10, <1>11 DEF entries

-----------------------------------------------------------------------------
(* A request and its batch *)

(* What is known of a request and of its batch: the slots have their places, *)
(* and the pairs are different.                                            *)
Prepared(q, b, width, count) ==
  /\ Asks(q, width, count)
  /\ count * width \in Nat \ {0}
  /\ DOMAIN Slots(q) = 1 .. count * width
  /\ b \in BatchType(ToSet(Slots(q)))
  /\ Placed(b, Slots(q), count * width)

(* A body without details gives a request whose batch is assembled from    *)
(* its slots.                                                              *)
LEMMA BodyPrepared ==
  ASSUME NEW body \in Bodies, Details(body) = 0
  PROVE  \E width, count :
           Prepared(Validated(body), Assemble(Slots(Validated(body))), width, count)
<1>1. PICK q : q = Validated(body)
  OBVIOUS
<1>2. PICK width, count : Asks(q, width, count)
  BY <1>1, ValidBody
<1>3. PICK slots : slots = Slots(q)
  OBVIOUS
<1>4. PICK n : n = count * width
  OBVIOUS
<1>5. /\ n \in Nat \ {0} /\ DOMAIN slots = 1 .. n
      /\ slots \in Seq(ToSet(slots)) /\ Len(slots) = n
  BY <1>2, <1>3, <1>4, SlotsFacts
<1>6. PICK T : T = ToSet(slots)
  OBVIOUS
<1>7. slots \in Seq(T)
  BY <1>5, <1>6
<1>8. Assemble(slots) \in BatchType(T) /\ Placed(Assemble(slots), slots, Len(slots))
  BY <1>7, AssembleFacts
<1>9. QED
  BY <1>1, <1>2, <1>3, <1>4, <1>5, <1>6, <1>8 DEF Prepared

(* What the state of a batch is like at any time.                          *)
Phases ==
  /\ phase \in {"headers", "body", "lookups", "answered"}
  /\ received \in 0 .. MaxRequestBytes
  /\ phase \in {"headers", "body"} => request = None
  /\ phase = "lookups" => request # None

TakenOver ==
  IF request = None
    THEN submitted = None /\ batch = NoPairs /\ collected = <<>>
    ELSE /\ submitted \in Bodies /\ Details(submitted) = 0
         /\ request = Validated(submitted)
         /\ batch = Assemble(Slots(request))

AnswersInv ==
  /\ DOMAIN answers = DOMAIN pairs
  /\ \A n \in DOMAIN answers : answers[n] # None =>
       /\ answers[n].identity = Identity(pairs[n])
       /\ answers[n].size \in Nat /\ answers[n].raw \in Nat

CollectedInv ==
  /\ collected \in Seq(Nat) /\ Len(collected) =< Len(pairs)
  /\ \A n \in 1 .. Len(collected) : collected[n] = n /\ answers[n] # None

ResponseInv ==
  /\ phase # "answered" => response = NoResponse
  /\ response.status \in {0, 200, 400, 408, 413, 415, 422, 500}
  /\ response.code # "writer"
  /\ Done => /\ request # None /\ Len(collected) = Len(pairs)
             /\ response.entries = Entries(request, Results)

BatchInv == Phases /\ TakenOver /\ AnswersInv /\ CollectedInv /\ ResponseInv

(* The pairs are numbered, and there are some as soon as there is a request. *)
LEMMA PairsFacts ==
  ASSUME TakenOver
  PROVE  /\ Len(pairs) \in Nat /\ DOMAIN pairs = 1 .. Len(pairs)
         /\ request = None => pairs = <<>> /\ batch.positions = <<>>
         /\ request # None =>
              /\ Len(pairs) # 0
              /\ \E width, count : Prepared(request, batch, width, count)
<1>1. CASE request = None
  <2>1. pairs = <<>> /\ batch.positions = <<>>
    BY <1>1 DEF TakenOver, NoPairs, pairs
  <2>2. QED
    BY <1>1, <2>1
<1>2. CASE request # None
  <2>1. PICK width, count : Prepared(request, batch, width, count)
    BY <1>2, BodyPrepared DEF TakenOver
  <2>2. PICK T : T = ToSet(Slots(request))
    OBVIOUS
  <2>3. batch \in BatchType(T) /\ Len(pairs) # 0
    BY <2>1, <2>2 DEF Prepared, Placed, pairs
  <2>4. pairs \in Seq(T)
    BY <2>3 DEF BatchType, pairs
  <2>5. QED
    BY <1>2, <2>1, <2>3, <2>4
<1>3. QED
  BY <1>1, <1>2

(* When all pairs are collected, each slot has a result of its own identity. *)
LEMMA ResultsFacts ==
  ASSUME TakenOver, AnswersInv, CollectedInv, request # None,
         Len(collected) = Len(pairs)
  PROVE  \E n \in Nat :
           /\ request.include_raw \in BOOLEAN
           /\ DOMAIN Results = 1 .. n /\ Len(Results) = n /\ DOMAIN Slots(request) = 1 .. n
           /\ \A s \in 1 .. n :
                /\ Results[s].raw \in Nat /\ Results[s].size \in Nat
                /\ Results[s].identity = Identity(Slots(request)[s])
<1>1. PICK width, count : Prepared(request, batch, width, count)
  BY PairsFacts
<1>2. PICK n \in Nat : n = count * width
  BY <1>1 DEF Prepared
<1>3. /\ request.include_raw \in BOOLEAN /\ DOMAIN Slots(request) = 1 .. n
      /\ DOMAIN batch.positions = 1 .. n
      /\ \A s \in 1 .. n :
           /\ batch.positions[s] \in 1 .. Len(pairs)
           /\ Identity(pairs[batch.positions[s]]) = Identity(Slots(request)[s])
  BY <1>1, <1>2 DEF Prepared, Placed, Asks, pairs
<1>4. Results = [s \in 1 .. n |-> answers[collected[batch.positions[s]]]]
  BY <1>3 DEF Results
<1>5. DOMAIN Results = 1 .. n /\ Len(Results) = n
  BY <1>4
<1>6. ASSUME NEW s \in 1 .. n
      PROVE  /\ Results[s].raw \in Nat /\ Results[s].size \in Nat
             /\ Results[s].identity = Identity(Slots(request)[s])
  <2>1. PICK p : p = batch.positions[s]
    OBVIOUS
  <2>2. p \in 1 .. Len(pairs) /\ Identity(pairs[p]) = Identity(Slots(request)[s])
    BY <1>3, <2>1
  <2>3. collected[p] = p /\ answers[p] # None
    BY <2>2 DEF CollectedInv
  <2>4. p \in DOMAIN answers
    BY <2>2, PairsFacts DEF AnswersInv
  <2>5. /\ answers[p].identity = Identity(pairs[p])
        /\ answers[p].size \in Nat /\ answers[p].raw \in Nat
    BY <2>3, <2>4 DEF AnswersInv
  <2>6. Results[s] = answers[p]
    BY <1>4, <2>1, <2>3
  <2>7. QED
    BY <2>2, <2>5, <2>6
<1>7. QED
  BY <1>3, <1>5, <1>6

-----------------------------------------------------------------------------
(* The invariant *)

(* Nothing has been read, asked or answered at the beginning.              *)
LEMMA InitBatch == Init => BatchInv
<1> SUFFICES ASSUME Init PROVE BatchInv
  OBVIOUS
<1>1. /\ phase = "headers" /\ received = 0 /\ submitted = None /\ request = None
      /\ batch = NoPairs /\ answers = <<>> /\ collected = <<>>
      /\ response = NoResponse
  BY DEF Init
<1>2. pairs = <<>>
  BY <1>1 DEF pairs, NoPairs
<1>3. Phases /\ TakenOver
  BY <1>1, ChunksAssumption DEF Phases, TakenOver
<1>4. AnswersInv /\ CollectedInv
  BY <1>1, <1>2 DEF AnswersInv, CollectedInv
<1>5. ResponseInv
  BY <1>1, MarksAssumption DEF ResponseInv, NoResponse, Done
<1>6. QED
  BY <1>3, <1>4, <1>5 DEF BatchInv

(* What an answer without entries leaves as it was.                        *)
LEMMA RefuseKeeps ==
  ASSUME BatchInv, phase # "answered", NEW status, NEW code, Refuse(status, code),
         status \in {400, 408, 413, 415, 422}, code # "writer"
  PROVE  BatchInv'
<1>1. /\ phase' = "answered" /\ received' = 0
      /\ response' = [status |-> status, code |-> code, entries |-> <<>>]
      /\ submitted' = submitted /\ request' = request /\ batch' = batch
      /\ answers' = answers /\ collected' = collected
  BY DEF Refuse, Respond, requestVars
<1>2. Phases' /\ TakenOver' /\ AnswersInv' /\ CollectedInv'
  BY <1>1, ChunksAssumption
     DEF BatchInv, Phases, TakenOver, AnswersInv, CollectedInv, pairs
<1>3. response'.status = status /\ response'.code = code
  BY <1>1
<1>4. ResponseInv'
  BY <1>1, <1>3 DEF ResponseInv, Done
<1>5. QED
  BY <1>2, <1>4 DEF BatchInv

(* The body is read, and refused or not.                                   *)
LEMMA ReadingKeeps ==
  ASSUME BatchInv, ReadHeaders \/ ReadChunk \/ BodyLate \/ BodyInvalid
  PROVE  BatchInv'
<1>1. \A code \in {"unsupported_media_type", "request_too_large",
                   "request_body_timeout", "invalid_json", "validation_error"} :
        code # "writer"
  OBVIOUS
<1>2. ASSUME NEW held \in 0 .. MaxRequestBytes, received' = held,
             phase' = "body", phase \in {"headers", "body"},
             UNCHANGED <<requestVars, answers, collected, response>>
      PROVE  BatchInv'
  <2>1. /\ submitted' = submitted /\ request' = request /\ batch' = batch
        /\ answers' = answers /\ collected' = collected /\ response' = response
    BY <1>2 DEF requestVars
  <2>2. Phases' /\ TakenOver' /\ AnswersInv' /\ CollectedInv'
    BY <1>2, <2>1
       DEF BatchInv, Phases, TakenOver, AnswersInv, CollectedInv, pairs
  <2>3. ResponseInv'
    BY <1>2, <2>1 DEF BatchInv, ResponseInv, Done, Results, pairs
  <2>4. QED
    BY <2>2, <2>3 DEF BatchInv
<1>3. received \in 0 .. MaxRequestBytes
  BY DEF BatchInv, Phases
<1>4. CASE ReadHeaders
  <2>1. CASE Refuse(415, "unsupported_media_type")
    BY <1>4, <2>1, RefuseKeeps DEF ReadHeaders
  <2>2. CASE ~Refuse(415, "unsupported_media_type")
    BY <1>2, <1>3, <1>4, <2>2 DEF ReadHeaders
  <2>3. QED
    BY <2>1, <2>2
<1>5. CASE ReadChunk
  <2>1. CASE Refuse(413, "request_too_large")
    BY <1>5, <2>1, RefuseKeeps DEF ReadChunk
  <2>2. CASE ~Refuse(413, "request_too_large")
    <3>1. PICK n \in Chunks :
            /\ ~(n > MaxRequestBytes - received) /\ received' = received + n
            /\ phase = "body"
            /\ UNCHANGED <<phase, requestVars, answers, collected, response>>
      BY <1>5, <2>2 DEF ReadChunk
    <3>2. received + n \in 0 .. MaxRequestBytes
      BY <1>3, <3>1, ChunksAssumption
    <3>3. QED
      BY <1>2, <3>1, <3>2
  <2>3. QED
    BY <2>1, <2>2
<1>6. CASE BodyLate
  BY <1>6, RefuseKeeps DEF BodyLate
<1>7. CASE BodyInvalid
  BY <1>7, RefuseKeeps DEF BodyInvalid
<1>8. QED
  BY <1>4, <1>5, <1>6, <1>7

(* A valid body is taken over.                                             *)
LEMMA BodyEndsKeeps ==
  ASSUME BatchInv, BodyEnds
  PROVE  BatchInv'
<1>1. phase = "body" /\ request = None /\ collected = <<>> /\ response = NoResponse
  BY DEF BodyEnds, BatchInv, Phases, TakenOver, ResponseInv
<1>2. CASE Refuse(422, "validation_error")
  BY <1>1, <1>2, RefuseKeeps
<1>3. CASE ~Refuse(422, "validation_error")
  <2>1. PICK body \in Bodies :
          /\ ~(Details(body) > 0)
          /\ phase' = "lookups" /\ submitted' = body
          /\ request' = Validated(body) /\ batch' = Assemble(Slots(request'))
          /\ answers' = [n \in DOMAIN batch'.pairs |-> None]
          /\ received' = 0 /\ collected' = collected /\ response' = response
    BY <1>3 DEF BodyEnds
  <2>2. Details(body) = 0
    BY <2>1, DetailsParts
  <2>3. Validated(body) # None
    BY <2>2, MarksAssumption
  <2>4. Phases' /\ TakenOver'
    BY <2>1, <2>2, <2>3, ChunksAssumption DEF Phases, TakenOver
  <2>5. AnswersInv'
    BY <2>1 DEF AnswersInv, pairs
  <2>6. Len(pairs') \in Nat
    <3>1. PICK b : b = Assemble(Slots(Validated(body)))
      OBVIOUS
    <3>2. PICK width, count : Prepared(Validated(body), b, width, count)
      BY <2>2, <3>1, BodyPrepared
    <3>3. PICK T : T = ToSet(Slots(Validated(body)))
      OBVIOUS
    <3>4. b \in BatchType(T)
      BY <3>2, <3>3 DEF Prepared
    <3>5. b.pairs \in Seq(T)
      BY <3>4 DEF BatchType
    <3>6. pairs' = b.pairs
      BY <2>1, <3>1 DEF pairs
    <3>7. QED
      BY <3>5, <3>6
  <2>7. CollectedInv'
    BY <1>1, <2>1, <2>6 DEF CollectedInv
  <2>8. ResponseInv'
    BY <1>1, <2>1, MarksAssumption DEF ResponseInv, NoResponse, Done
  <2>9. QED
    BY <2>4, <2>5, <2>7, <2>8 DEF BatchInv
<1>4. QED
  BY <1>2, <1>3

(* A lookup returns with the identity of its pair.                         *)
LEMMA LookupKeeps ==
  ASSUME BatchInv, NEW n, LookupReturns(n)
  PROVE  BatchInv'
<1>1. PICK o \in Outcomes :
        answers' = [answers EXCEPT ![n] =
          [identity |-> Identity(pairs[n]), size |-> o.size, raw |-> o.raw]]
  BY DEF LookupReturns
<1>2. /\ phase = "lookups" /\ n \in UnderWay /\ answers[n] = None
      /\ phase' = phase /\ received' = received /\ submitted' = submitted
      /\ request' = request /\ batch' = batch /\ collected' = collected
      /\ response' = response
  BY DEF LookupReturns, requestVars
<1>3. o.size \in Nat /\ o.raw \in Nat
  BY OutcomesAssumption
<1>4. n \in DOMAIN answers /\ n \in DOMAIN pairs
  BY <1>2 DEF BatchInv, AnswersInv, UnderWay
<1>5. PICK answer :
        answer = [identity |-> Identity(pairs[n]), size |-> o.size, raw |-> o.raw]
  OBVIOUS
<1>6. /\ answer.identity = Identity(pairs[n])
      /\ answer.size \in Nat /\ answer.raw \in Nat
  BY <1>3, <1>5
<1>7. /\ DOMAIN answers' = DOMAIN answers /\ answers'[n] = answer
      /\ \A m \in DOMAIN answers : m # n => answers'[m] = answers[m]
  BY <1>1, <1>4, <1>5
<1>8. Phases' /\ TakenOver'
  BY <1>2 DEF BatchInv, Phases, TakenOver
<1>9. AnswersInv'
  BY <1>2, <1>6, <1>7 DEF BatchInv, AnswersInv, pairs
<1>10. CollectedInv'
  <2>1. Len(pairs) \in Nat /\ DOMAIN answers = 1 .. Len(pairs)
    BY PairsFacts DEF BatchInv, AnswersInv
  <2>2. ASSUME NEW m \in 1 .. Len(collected)
        PROVE  collected[m] = m /\ answers'[m] # None
    <3>1. collected[m] = m /\ answers[m] # None /\ m \in 1 .. Len(pairs)
      BY <2>1 DEF BatchInv, CollectedInv
    <3>2. QED
      BY <1>2, <1>7, <2>1, <3>1
  <2>3. QED
    BY <1>2, <2>2 DEF BatchInv, CollectedInv, pairs
<1>11. ResponseInv'
  BY <1>2 DEF BatchInv, ResponseInv, NoResponse, Done
<1>12. QED
  BY <1>8, <1>9, <1>10, <1>11 DEF BatchInv

(* The next pair is collected.                                             *)
LEMMA CollectKeeps ==
  ASSUME BatchInv, Collect
  PROVE  BatchInv'
<1>1. /\ phase = "lookups" /\ Len(collected) < Len(pairs)
      /\ answers[Len(collected) + 1] # None
      /\ collected' = Append(collected, Len(collected) + 1)
      /\ phase' = phase /\ received' = received /\ submitted' = submitted
      /\ request' = request /\ batch' = batch /\ answers' = answers
      /\ response' = response
  BY DEF Collect, requestVars
<1>2. request # None /\ request' # None
  BY <1>1 DEF BatchInv, Phases
<1>3. Phases' /\ TakenOver' /\ AnswersInv'
  BY <1>1, <1>2 DEF BatchInv, Phases, TakenOver, AnswersInv, pairs
<1>4. CollectedInv'
  <2>1. Len(pairs) \in Nat
    BY PairsFacts DEF BatchInv
  <2>2. PICK k \in Nat : k = Len(collected)
    BY DEF BatchInv, CollectedInv
  <2>3. /\ collected' \in Seq(Nat) /\ Len(collected') = k + 1
        /\ collected'[k + 1] = k + 1
        /\ \A m \in 1 .. k : collected'[m] = collected[m]
    BY <1>1, <2>2 DEF BatchInv, CollectedInv
  <2>4. \A m \in 1 .. k + 1 : collected'[m] = m /\ answers'[m] # None
    <3>1. ASSUME NEW m \in 1 .. k + 1
          PROVE  collected'[m] = m /\ answers'[m] # None
      <4>1. CASE m = k + 1
        BY <1>1, <2>2, <2>3, <4>1
      <4>2. CASE m # k + 1
        <5>1. m \in 1 .. k
          BY <4>2
        <5>2. QED
          BY <1>1, <2>2, <2>3, <5>1 DEF BatchInv, CollectedInv
      <4>3. QED
        BY <4>1, <4>2
    <3>2. QED
      BY <3>1
  <2>5. k + 1 =< Len(pairs')
    BY <1>1, <2>1, <2>2 DEF pairs
  <2>6. QED
    BY <2>3, <2>4, <2>5 DEF CollectedInv
<1>5. ResponseInv'
  BY <1>1 DEF BatchInv, ResponseInv, NoResponse, Done
<1>6. QED
  BY <1>3, <1>4, <1>5 DEF BatchInv

(* The response is written: an envelope that fits can be.                  *)
LEMMA ProjectKeeps ==
  ASSUME BatchInv, Project
  PROVE  BatchInv'
<1>1. /\ phase = "lookups" /\ Len(collected) = Len(pairs)
      /\ submitted' = submitted /\ request' = request /\ batch' = batch
      /\ answers' = answers /\ collected' = collected
  BY DEF Project, requestVars
<1>2. request # None
  BY <1>1 DEF BatchInv, Phases
<1>3. PICK entries : entries = Entries(request, Results)
  OBVIOUS
<1>4. EnvelopeFits(entries) => Writable(entries)
  <2>1. PICK q : q = request
    OBVIOUS
  <2>2. PICK outcomes : outcomes = Results
    OBVIOUS
  <2>3. PICK n \in Nat :
          /\ q.include_raw \in BOOLEAN
          /\ DOMAIN outcomes = 1 .. n /\ Len(outcomes) = n
          /\ \A s \in 1 .. n : outcomes[s].raw \in Nat /\ outcomes[s].size \in Nat
    BY <1>1, <1>2, <2>1, <2>2, ResultsFacts DEF BatchInv
  <2>4. QED
    BY <1>3, <2>1, <2>2, <2>3, EntriesFacts
<1>5. \/ Respond(500, "envelope", <<>>) \/ Respond(200, None, entries)
      \/ Respond(500, "late", <<>>)
  BY <1>3, <1>4 DEF Project
<1>6. phase' = "answered" /\ received' = 0
  BY <1>5 DEF Respond
<1>7. Phases' /\ TakenOver' /\ AnswersInv' /\ CollectedInv'
  BY <1>1, <1>6, ChunksAssumption
     DEF BatchInv, Phases, TakenOver, AnswersInv, CollectedInv, pairs
<1>8. Results' = Results /\ pairs' = pairs
  BY <1>1 DEF Results, pairs
<1>9. ResponseInv'
  <2>1. CASE Respond(200, None, entries)
    <3>1. response' = [status |-> 200, code |-> None, entries |-> entries]
      BY <2>1 DEF Respond
    <3>2. QED
      BY <1>1, <1>2, <1>3, <1>6, <1>8, <3>1, MarksAssumption DEF ResponseInv, Done
  <2>2. CASE Respond(500, "envelope", <<>>) \/ Respond(500, "late", <<>>)
    <3>1. PICK code \in {"envelope", "late"} :
            response' = [status |-> 500, code |-> code, entries |-> <<>>]
      BY <2>2 DEF Respond
    <3>2. response'.status = 500 /\ response'.code # "writer"
      BY <3>1
    <3>3. QED
      BY <1>6, <3>2 DEF ResponseInv, Done
  <2>3. QED
    BY <1>5, <2>1, <2>2
<1>10. QED
  BY <1>7, <1>9 DEF BatchInv

(* Every step keeps the invariant.                                         *)
LEMMA NextBatch == BatchInv /\ [Next]_vars => BatchInv'
<1> SUFFICES ASSUME BatchInv, [Next]_vars PROVE BatchInv'
  OBVIOUS
<1>1. CASE ReadHeaders \/ ReadChunk \/ BodyLate \/ BodyInvalid
  BY <1>1, ReadingKeeps
<1>2. CASE BodyEnds
  BY <1>2, BodyEndsKeeps
<1>3. CASE \E n \in DOMAIN answers : LookupReturns(n)
  BY <1>3, LookupKeeps
<1>4. CASE Collect
  BY <1>4, CollectKeeps
<1>5. CASE Project
  BY <1>5, ProjectKeeps
<1>6. CASE UNCHANGED vars
  <2>1. /\ phase' = phase /\ received' = received /\ submitted' = submitted
        /\ request' = request /\ batch' = batch /\ answers' = answers
        /\ collected' = collected /\ response' = response
    BY <1>6 DEF vars, requestVars
  <2>2. QED
    BY <2>1 DEF BatchInv, Phases, TakenOver, AnswersInv, CollectedInv,
                ResponseInv, Done, Results, pairs
<1>7. QED
  BY <1>1, <1>2, <1>3, <1>4, <1>5, <1>6 DEF Next

(* So it holds throughout.                                                 *)
LEMMA BatchHolds == Spec => []BatchInv
  BY InitBatch, NextBatch, PTL DEF Spec

-----------------------------------------------------------------------------
(* Theorems *)

(* The positions and the collected answers are numbers of pairs, and the    *)
(* body never exceeds its limit (enrich_admitted).                         *)
THEOREM TypeCorrect == Spec => []TypeOK
<1>1. ASSUME BatchInv PROVE TypeOK
  <2> USE <1>1
  <2>1. DOMAIN pairs = 1 .. Len(pairs) /\ (request = None) = (pairs = <<>>)
    <3>1. TakenOver
      BY DEF BatchInv
    <3>2. CASE request = None
      BY <3>1, <3>2, PairsFacts
    <3>3. CASE request # None
      <4>1. Len(pairs) # 0 /\ DOMAIN pairs = 1 .. Len(pairs)
        BY <3>1, <3>3, PairsFacts
      <4>2. pairs # <<>>
        BY <4>1
      <4>3. QED
        BY <3>3, <4>1, <4>2
    <3>4. QED
      BY <3>2, <3>3
  <2>2. \A s \in DOMAIN batch.positions : batch.positions[s] \in DOMAIN pairs
    <3>1. CASE request = None
      BY <3>1, PairsFacts DEF BatchInv
    <3>2. CASE request # None
      <4>1. PICK width, count : Prepared(request, batch, width, count)
        BY <3>2, PairsFacts DEF BatchInv
      <4>2. QED
        BY <2>1, <4>1 DEF Prepared, Placed, pairs
    <3>3. QED
      BY <3>1, <3>2
  <2>3. \A n \in DOMAIN collected : collected[n] \in DOMAIN pairs
    <3>1. /\ collected \in Seq(Nat) /\ Len(collected) =< Len(pairs)
          /\ \A n \in 1 .. Len(collected) : collected[n] = n
      BY DEF BatchInv, CollectedInv
    <3>2. Len(pairs) \in Nat
      BY PairsFacts DEF BatchInv
    <3>3. DOMAIN collected = 1 .. Len(collected) /\ Len(collected) \in Nat
      BY <3>1
    <3>4. QED
      BY <2>1, <3>1, <3>2, <3>3
  <2>4. submitted \in Bodies \cup {None}
    BY DEF BatchInv, TakenOver
  <2>5. QED
    BY <2>1, <2>2, <2>3, <2>4
       DEF TypeOK, BatchInv, Phases, AnswersInv, ResponseInv
<1>2. QED
  BY <1>1, BatchHolds, PTL

(* Every slot has the answer to its own question, whichever slots share a   *)
(* lookup and in whichever order lookups end (enrich_admitted).            *)
THEOREM AnswersAreOwn == Spec => []OwnAnswers
<1>1. ASSUME BatchInv PROVE OwnAnswers
  <2> USE <1>1
  <2>1. SUFFICES ASSUME Done
                 PROVE  LET slots == Slots(request)
                        IN  \A s \in DOMAIN slots :
                              response.entries[s].outcome.identity =
                                <<slots[s].provider, slots[s].indicator.kind,
                                  slots[s].indicator.lookup_value>>
    BY DEF OwnAnswers
  <2>2. /\ request # None /\ Len(collected) = Len(pairs)
        /\ response.entries = Entries(request, Results)
    BY <2>1 DEF BatchInv, ResponseInv
  <2>3. PICK n \in Nat :
          /\ request.include_raw \in BOOLEAN
          /\ DOMAIN Results = 1 .. n /\ Len(Results) = n
          /\ DOMAIN Slots(request) = 1 .. n
          /\ \A s \in 1 .. n :
               /\ Results[s].raw \in Nat /\ Results[s].size \in Nat
               /\ Results[s].identity = Identity(Slots(request)[s])
    BY <2>2, ResultsFacts DEF BatchInv
  <2>4. PICK q : q = request
    OBVIOUS
  <2>5. PICK outcomes : outcomes = Results
    OBVIOUS
  <2>6. /\ q.include_raw \in BOOLEAN /\ DOMAIN outcomes = 1 .. n
        /\ Len(outcomes) = n
        /\ \A s \in 1 .. n : outcomes[s].raw \in Nat /\ outcomes[s].size \in Nat
    BY <2>3, <2>4, <2>5
  <2>7. \A s \in 1 .. n : Entries(q, outcomes)[s].outcome = outcomes[s]
    BY <2>6, EntriesFacts
  <2>8. \A s \in 1 .. n :
          response.entries[s].outcome.identity = Identity(Slots(request)[s])
    BY <2>2, <2>3, <2>4, <2>5, <2>7
  <2>9. QED
    BY <2>3, <2>8 DEF Identity
<1>2. QED
  BY <1>1, BatchHolds, PTL

(* A batch is looked up with all of its items and providers or not at all   *)
(* (validate_request, enrich_admitted).                                    *)
THEOREM BatchIsWhole == Spec => []WholeBatch
<1>1. ASSUME BatchInv PROVE WholeBatch
  <2> USE <1>1
  <2> DEFINE items == submitted.indicators
             count == Len(items)
             asked == IF submitted.providers = Missing THEN EnabledOrder
                      ELSE submitted.providers
             width == Len(asked)
  <2>1. SUFFICES ASSUME request # None
                 PROVE  /\ \A n \in DOMAIN items : Valid(items[n])
                        /\ Len(Slots(request)) = count * width
                        /\ \A i \in DOMAIN items, p \in DOMAIN asked :
                             LET slot == Slots(request)[(i - 1) * width + p]
                             IN  /\ slot.provider = asked[p]
                                 /\ slot.indicator.input = items[i].value
    BY DEF WholeBatch
  <2>2. submitted \in Bodies /\ Details(submitted) = 0 /\ request = Validated(submitted)
    BY <2>1 DEF BatchInv, TakenOver
  <2>3. /\ DOMAIN items = 1 .. count
        /\ \A i \in 1 .. count : Valid(items[i])
        /\ request.indicators = [i \in 1 .. count |-> Indicator(items[i])]
        /\ request.providers = asked
        /\ Asks(request, width, count)
    BY <2>2, ValidBody
  <2>4. PICK q : q = request
    OBVIOUS
  <2>5. DOMAIN asked = 1 .. width
    BY <2>3 DEF Asks
  <2> HIDE DEF items, asked, count, width
  <2>6. /\ Len(Slots(q)) = count * width
        /\ \A i \in 1 .. count, p \in 1 .. width :
             Slots(q)[(i - 1) * width + p] =
               [provider |-> q.providers[p], indicator |-> q.indicators[i]]
    BY <2>3, <2>4, SlotsFacts
  <2>7. ASSUME NEW i \in 1 .. count, NEW p \in 1 .. width
        PROVE  /\ Slots(request)[(i - 1) * width + p].provider = asked[p]
               /\ Slots(request)[(i - 1) * width + p].indicator.input = items[i].value
    <3>1. PICK slot : slot = Slots(request)[(i - 1) * width + p]
      OBVIOUS
    <3>2. slot = [provider |-> asked[p], indicator |-> Indicator(items[i])]
      BY <2>3, <2>4, <2>6, <3>1
    <3>3. slot.provider = asked[p] /\ slot.indicator.input = items[i].value
      BY <3>2 DEF Indicator
    <3>4. QED
      BY <3>1, <3>3
  <2>8. QED
    BY <2>3, <2>4, <2>5, <2>6, <2>7
<1>2. QED
  BY <1>1, BatchHolds, PTL

(* Two pairs of a batch differ in what is looked up, and since there are no *)
(* more than indicators and providers allow, none waits for another one     *)
(* (enrich_admitted: unique, buffered).                                    *)
THEOREM LookedUpOnce == Spec => []EachLookedUpOnce
<1>1. ASSUME BatchInv PROVE EachLookedUpOnce
  <2> USE <1>1
  <2>1. SUFFICES ASSUME request # None
                 PROVE  /\ \A m, n \in DOMAIN pairs : m # n =>
                             Identity(pairs[m]) # Identity(pairs[n])
                        /\ \A n \in DOMAIN pairs :
                             n > Len(collected) => n \in UnderWay
    BY DEF EachLookedUpOnce, Identity
  <2>2. /\ Len(pairs) \in Nat /\ DOMAIN pairs = 1 .. Len(pairs)
        /\ \E width, count : Prepared(request, batch, width, count)
    BY <2>1, PairsFacts DEF BatchInv
  <2>3. PICK width, count : Prepared(request, batch, width, count)
    BY <2>2
  <2>4. \A m, n \in DOMAIN pairs : m # n => Identity(pairs[m]) # Identity(pairs[n])
    BY <2>2, <2>3 DEF Prepared, Placed, pairs
  <2>5. PICK k : k = Cardinality(KnownProviders)
    OBVIOUS
  <2>6. /\ width \in Nat /\ count \in Nat /\ k \in Nat /\ MaxBatch \in Nat
        /\ count =< MaxBatch /\ width =< k
    BY <2>3, <2>5, ProvidersAssumption, SizesAssumption, FS_CardinalityType
       DEF Prepared, Asks
  <2>7. Len(pairs) =< count * width
    BY <2>3 DEF Prepared, Placed, pairs
  <2>8. count * width =< MaxBatch * width
    BY <2>6
  <2>9. MaxBatch * width =< MaxBatch * k
    BY <2>6
  <2>10. Len(pairs) =< Buffered
    <3>1. MaxBatch * k =< Buffered /\ Buffered \in Nat
      BY <2>5, BufferedAssumption
    <3>2. QED
      BY <2>2, <2>6, <2>7, <2>8, <2>9, <3>1
  <2>11. Len(collected) \in Nat
    BY DEF BatchInv, CollectedInv
  <2>12. \A n \in DOMAIN pairs : n > Len(collected) => n \in UnderWay
    BY <2>2, <2>10, <2>11, BufferedAssumption DEF UnderWay
  <2>13. QED
    BY <2>4, <2>12
<1>2. QED
  BY <1>1, BatchHolds, PTL

(* The raw reports stay within their budget, and none is left out that      *)
(* would have fitted when its turn came (project).                         *)
THEOREM RawKeepsBudget == Spec => []RawWithinBudget
<1>1. ASSUME BatchInv PROVE RawWithinBudget
  <2> USE <1>1
  <2>1. SUFFICES ASSUME Done
                 PROVE  /\ RawSize(response.entries) =< RawBudget
                        /\ \A s \in DOMAIN response.entries :
                             response.entries[s].reason = "response_size_limit" =>
                               RawSize(SubSeq(response.entries, 1, s - 1))
                                 + response.entries[s].outcome.raw > RawBudget
    BY DEF RawWithinBudget
  <2>2. /\ request # None /\ Len(collected) = Len(pairs)
        /\ response.entries = Entries(request, Results)
    BY <2>1 DEF BatchInv, ResponseInv
  <2>3. PICK q : q = request
    OBVIOUS
  <2>4. PICK outcomes : outcomes = Results
    OBVIOUS
  <2>5. PICK n \in Nat :
          /\ q.include_raw \in BOOLEAN
          /\ DOMAIN outcomes = 1 .. n /\ Len(outcomes) = n
          /\ \A s \in 1 .. n : outcomes[s].raw \in Nat /\ outcomes[s].size \in Nat
    BY <2>2, <2>3, <2>4, ResultsFacts DEF BatchInv
  <2>6. PICK entries : entries = Entries(q, outcomes)
    OBVIOUS
  <2>7. /\ DOMAIN entries = 1 .. n
        /\ \A s \in 1 .. n : entries[s].outcome = outcomes[s]
        /\ RawSize(entries) =< RawBudget
        /\ \A s \in 1 .. n : entries[s].reason = "response_size_limit" =>
             RawSize(SubSeq(entries, 1, s - 1)) + outcomes[s].raw > RawBudget
    <3>1. /\ DOMAIN Entries(q, outcomes) = 1 .. n
          /\ \A s \in 1 .. n : Entries(q, outcomes)[s].outcome = outcomes[s]
      BY <2>5, EntriesFacts
    <3>2. RawSize(Entries(q, outcomes)) =< RawBudget
      BY <2>5, EntriesFacts
    <3>3. \A s \in 1 .. n :
            Entries(q, outcomes)[s].reason = "response_size_limit" =>
              RawSize(SubSeq(Entries(q, outcomes), 1, s - 1))
                + outcomes[s].raw > RawBudget
      BY <2>5, EntriesFacts
    <3>4. QED
      BY <2>6, <3>1, <3>2, <3>3
  <2>8. response.entries = entries
    BY <2>2, <2>3, <2>4, <2>6
  <2>9. QED
    BY <2>7, <2>8
<1>2. QED
  BY <1>1, BatchHolds, PTL

(* The writer never runs into its limit with a response whose envelope was  *)
(* found to fit (project, LimitedWriter).                                  *)
THEOREM WriterNeverOverflows == Spec => []NoLateOverflow
<1>1. BatchInv => NoLateOverflow
  BY DEF BatchInv, ResponseInv, NoLateOverflow
<1>2. QED
  BY <1>1, BatchHolds, PTL
=============================================================================

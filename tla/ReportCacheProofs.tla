-------------------------- MODULE ReportCacheProofs --------------------------
(***************************************************************************)
(* Proofs about ReportCache, for every value of its constants.             *)
(*                                                                         *)
(* 1. Bytes and Within: fewer rows fit where more did. Rank counts a row's *)
(*    elders, so a round of `evict` cuts the table at a rank.              *)
(* 2. EvictFacts: the rounds end within the limits, whatever the chunk,    *)
(*    and what is left is LeftOf the table: younger than all that is gone, *)
(*    none of which fitted with its youngers.                              *)
(* 3. Typed is inductive by itself, and CacheBounded with it; NothingLost- *)
(*    Early and ToldIsServable hold of every step of a typed state.        *)
(* 4. NoResurrection needs PlaceInv: a report is in the table, in a hand   *)
(*    or gone, so that one that was found expired cannot come back.        *)
(***************************************************************************)
EXTENDS ReportCache, RecursionLemmas

(* The bytes of a set of rows are the sum of their sizes.                  *)
LEMMA BytesIsSum ==
  ASSUME NEW S, IsFiniteSet(S), NEW w, \A r \in S : w[r] = r.bytes,
         NEW g, SumOver(g, S, w)
  PROVE  Bytes(S) = g[S]
<1> DEFINE F(h) == [s \in SUBSET S |->
                      IF s = {} THEN 0
                      ELSE Pick(s).bytes + h[s \ {Pick(s)}]]
           iter == CHOOSE h : h = F(h)
<1>1. \A s \in SUBSET S : s # {} => Pick(s) \in s /\ w[Pick(s)] = Pick(s).bytes
  <2>1. \A s : s # {} => Pick(s) \in s
    BY Zenon DEF Pick
  <2>2. QED
    BY <2>1
<1>2. \A h : F(h) = [s \in SUBSET S |-> IF s = {} THEN 0
                                       ELSE w[Pick(s)] + h[s \ {Pick(s)}]]
  BY <1>1
<1>3. g = F(g)
  BY <1>2, Zenon DEF SumOver
<1>4. Bytes(S) = iter[S]
  BY DEF Bytes, MapThenSumSet, MapThenFoldSet, Pick
<1>5. iter = F(iter)
  <2> HIDE DEF F
  <2> QED BY <1>3, Zenon
<1>6. SumOver(iter, S, w)
  <2> HIDE DEF F, iter
  <2> QED BY <1>2, <1>5, Zenon DEF SumOver
<1> HIDE DEF iter
<1>7. iter[S] = g[S]
  BY <1>6, SumsAgree
<1>8. QED
  BY <1>4, <1>7

(* What the table may hold: one row for a key.                             *)
OneRowPerKey(S) == S \subseteq RowType /\ \A r, s \in S : r.key = s.key => r = s

(* The fields of a row and the numbers among them.                         *)
LEMMA RowFields ==
  ASSUME NEW r \in RowType
  PROVE  /\ r.key \in Keys /\ r.key \in Nat /\ r.id \in Ids /\ r.id \in Nat
         /\ r.class \in Classes /\ r.fetched \in Clock /\ r.fetched \in Nat
         /\ r.bytes \in Nat /\ r.expires \in Nat
<1>1. /\ r.key \in Keys /\ r.id \in Ids /\ r.class \in Classes
      /\ r.fetched \in Clock /\ r.bytes \in Sizes /\ r.expires \in Nat
  BY DEF RowType
<1>2. r.id \in Nat /\ r.fetched \in Nat
  BY <1>1, BoundsAssumption DEF Ids, Clock
<1>3. r.key \in Nat /\ r.bytes \in Nat
  BY <1>1, KeysAssumption, SizesAssumption
<1>4. QED
  BY <1>1, <1>2, <1>3

(* It is finite, since the keys are, and so is all that is left of it.     *)
LEMMA TableFinite ==
  ASSUME NEW S, OneRowPerKey(S)
  PROVE  IsFiniteSet(S)
<1> DEFINE f == [r \in S |-> r.key]
<1>1. f \in [S -> Keys]
  BY RowFields DEF OneRowPerKey
<1>2. \A r, s \in S : f[r] = f[s] => r = s
  BY DEF OneRowPerKey
<1>3. f \in Injection(S, Keys)
  BY <1>1, <1>2 DEF Injection, IsInjective
<1>4. QED
  BY <1>3, FS_Injection, KeysAssumption

(* Part of a table is a table, and a real part has fewer rows.             *)
LEMMA TablePart ==
  ASSUME NEW S, OneRowPerKey(S), NEW T \in SUBSET S
  PROVE  /\ OneRowPerKey(T) /\ IsFiniteSet(T)
         /\ Cardinality(T) \in Nat /\ Cardinality(S) \in Nat
         /\ Cardinality(T) =< Cardinality(S)
         /\ T # S => Cardinality(T) < Cardinality(S)
<1>1. OneRowPerKey(T)
  BY DEF OneRowPerKey
<1>2. IsFiniteSet(S) /\ IsFiniteSet(T)
  BY <1>1, TableFinite
<1>3. Cardinality(T) \in Nat /\ Cardinality(S) \in Nat
  BY <1>2, FS_CardinalityType
<1>4. Cardinality(T) =< Cardinality(S) /\ (Cardinality(S) = Cardinality(T) => S = T)
  BY <1>2, FS_Subset
<1>5. QED
  BY <1>1, <1>2, <1>3, <1>4

(* Fewer rows have no more bytes, and no rows have none.                   *)
LEMMA BytesOfPart ==
  ASSUME NEW S, OneRowPerKey(S), NEW T \in SUBSET S
  PROVE  Bytes(T) \in Nat /\ Bytes(S) \in Nat /\ Bytes(T) =< Bytes(S)
<1> DEFINE w == [r \in S |-> r.bytes]
<1>1. IsFiniteSet(S) /\ IsFiniteSet(T)
  BY TablePart, TableFinite
<1>2. \A r \in S : w[r] \in Nat /\ w[r] = r.bytes
  BY RowFields DEF OneRowPerKey
<1> HIDE DEF w
<1>3. PICK g : SumOver(g, S, w)
  BY <1>1, SumExists
<1> DEFINE h == [s \in SUBSET T |-> g[s]]
<1>4. SumOver(h, T, w)
  BY <1>3, SumRestricts
<1>5. h[T] = g[T]
  OBVIOUS
<1> HIDE DEF h
<1>6. Bytes(S) = g[S]
  BY <1>1, <1>2, <1>3, BytesIsSum
<1>7. Bytes(T) = h[T]
  <2>1. \A r \in T : w[r] = r.bytes
    BY <1>2
  <2>2. QED
    BY <1>1, <1>4, <2>1, BytesIsSum
<1>8. g[S] \in Nat /\ g[T] \in Nat
  <2>1. S \in SUBSET S
    OBVIOUS
  <2>2. QED
    BY <1>1, <1>2, <1>3, <2>1, SumIsNat
<1>9. g[T] =< g[S]
  <2>1. S \in SUBSET S
    OBVIOUS
  <2>2. QED
    BY <1>1, <1>2, <1>3, <2>1, SumMonotone
<1>10. QED
  BY <1>5, <1>6, <1>7, <1>8, <1>9

(* No rows have no bytes.                                                  *)
LEMMA BytesOfNone == Bytes({}) = 0
<1>1. IsFiniteSet({})
  BY FS_EmptySet
<1> DEFINE w == [r \in {} |-> 0]
<1> HIDE DEF w
<1>2. PICK g : SumOver(g, {}, w)
  BY <1>1, SumExists
<1>3. Bytes({}) = g[{}]
  <2>1. \A r \in {} : w[r] = r.bytes
    OBVIOUS
  <2>2. QED
    BY <1>1, <1>2, <2>1, BytesIsSum
<1>4. QED
  BY <1>2, <1>3, SumFacts

(* Where a table fits, part of it does, ...                                *)
LEMMA WithinPart ==
  ASSUME NEW S, OneRowPerKey(S), NEW T \in SUBSET S, NEW cfg \in ConfigType,
         Within(S, cfg)
  PROVE  Within(T, cfg)
<1>1. cfg.entries \in Nat /\ cfg.bytes \in Nat
  BY DEF ConfigType
<1>2. /\ Cardinality(T) \in Nat /\ Cardinality(S) \in Nat
      /\ Cardinality(T) =< Cardinality(S)
  BY TablePart
<1>3. Bytes(T) \in Nat /\ Bytes(S) \in Nat /\ Bytes(T) =< Bytes(S)
  BY BytesOfPart
<1>4. QED
  BY <1>1, <1>2, <1>3 DEF Within

(* ... and no rows always do.                                              *)
LEMMA WithinNone ==
  ASSUME NEW cfg \in ConfigType
  PROVE  Within({}, cfg)
<1>1. cfg.entries \in Nat /\ cfg.bytes \in Nat
  BY DEF ConfigType
<1>2. Cardinality({}) = 0 /\ Bytes({}) = 0
  BY FS_EmptySet, BytesOfNone
<1>3. QED
  BY <1>1, <1>2 DEF Within

-----------------------------------------------------------------------------
(* The order of `evict`. *)

Youngest(S, r) == {s \in S : s = r \/ Older(r, s)}

Rank(S, r) == Cardinality({s \in S : Older(s, r)})

(* The rows of a table are in a strict total order, ...                    *)
LEMMA OlderOrder ==
  ASSUME NEW S, OneRowPerKey(S)
  PROVE  /\ \A r, s, t \in S : Older(r, s) /\ Older(s, t) => Older(r, t)
         /\ \A r, s \in S : Older(r, s) => ~Older(s, r) /\ r # s
         /\ \A r, s \in S : r = s \/ Older(r, s) \/ Older(s, r)
<1>1. \A r \in S : r.fetched \in Nat /\ r.key \in Nat
  BY RowFields DEF OneRowPerKey
<1>2. \A r, s \in S : r.key = s.key => r = s
  BY DEF OneRowPerKey
<1>3. QED
  BY <1>1, <1>2 DEF Older

(* ... their ranks count up in it, ...                                     *)
LEMMA RankRises ==
  ASSUME NEW S, OneRowPerKey(S), NEW r \in S, NEW s \in S
  PROVE  /\ Rank(S, r) \in Nat /\ Rank(S, s) \in Nat
         /\ Older(r, s) <=> Rank(S, r) < Rank(S, s)
<1>1. ASSUME NEW a \in S, NEW b \in S, Older(a, b)
      PROVE  Rank(S, a) < Rank(S, b)
  <2> DEFINE A == {s_1 \in S : Older(s_1, a)}
             B == {s_1 \in S : Older(s_1, b)}
  <2>1. A \in SUBSET B
    BY <1>1, OlderOrder
  <2>2. a \in B /\ a \notin A
    BY <1>1, OlderOrder
  <2>3. B \in SUBSET S
    OBVIOUS
  <2> HIDE DEF A, B
  <2>4. Cardinality(A) < Cardinality(B)
    BY <2>1, <2>2, <2>3, TablePart
  <2>5. QED
    BY <2>4 DEF Rank, A, B
<1>2. \A a \in S : Rank(S, a) \in Nat
  <2> TAKE a \in S
  <2>1. {b \in S : Older(b, a)} \in SUBSET S
    OBVIOUS
  <2>2. QED
    BY <2>1, TablePart DEF Rank
<1>3. ~(Rank(S, r) < Rank(S, r))
  BY <1>2
<1>4. Rank(S, r) < Rank(S, s) => ~(Rank(S, s) < Rank(S, r))
  BY <1>2
<1>5. QED
  BY <1>1, <1>2, <1>3, <1>4, OlderOrder

(* ... and without the rows of a lower rank the younger ones are left.     *)
LEMMA OldestFacts ==
  ASSUME NEW S, OneRowPerKey(S)
  PROVE  /\ Oldest(S, 0) = {}
         /\ \A r \in S : S \ Oldest(S, Rank(S, r)) = Youngest(S, r)
         /\ S # {} => \A n \in Nat \ {0} : Oldest(S, n) # {}
<1>1. \A r \in S : \A n : r \in Oldest(S, n) <=> Rank(S, r) < n
  BY DEF Oldest, Rank
<1>2. \A r \in S : Rank(S, r) \in Nat
  BY RankRises
<1>3. \A n : Oldest(S, n) \subseteq S
  BY DEF Oldest
<1>4. Oldest(S, 0) = {}
  BY <1>1, <1>2, <1>3
<1>5. ASSUME NEW r \in S
      PROVE  S \ Oldest(S, Rank(S, r)) = Youngest(S, r)
  <2>1. \A s \in S : s \in Oldest(S, Rank(S, r)) <=> Older(s, r)
    BY <1>1, RankRises
  <2>2. \A s \in S : ~Older(s, r) <=> s = r \/ Older(r, s)
    BY OlderOrder
  <2>3. QED
    BY <2>1, <2>2 DEF Youngest
<1>6. ASSUME S # {}, NEW n \in Nat \ {0}
      PROVE  Oldest(S, n) # {}
  <2> DEFINE A == {Rank(S, r) : r \in S}
  <2>1. A \subseteq Nat /\ A # {}
    BY <1>2, <1>6
  <2> HIDE DEF A
  <2>2. PICK m \in A : \A k \in A : m =< k
    BY <2>1, LeastNumber
  <2>3. PICK r \in S : m = Rank(S, r)
    BY DEF A
  <2>4. \A s \in S : ~(Rank(S, s) < m)
    BY <1>2, <2>2, <2>3 DEF A
  <2>5. \A s \in S : ~Older(s, r)
    BY <2>3, <2>4, RankRises
  <2>6. {s \in S : Older(s, r)} = {}
    BY <2>5
  <2>7. Rank(S, r) = 0
    BY <2>6, FS_EmptySet DEF Rank
  <2>8. QED
    BY <1>1, <1>6, <2>7
<1>7. QED
  BY <1>4, <1>5, <1>6

-----------------------------------------------------------------------------
(* The rounds of `evict`. *)

(* A round of a table over its limits removes at least one row, and no     *)
(* shorter round would have been enough.                                   *)
LEMMA RoundFacts ==
  ASSUME NEW S, OneRowPerKey(S), NEW cfg \in ConfigType, ~Within(S, cfg)
  PROVE  /\ Round(S, cfg) \in Nat \ {0}
         /\ \A m \in Nat : m < Round(S, cfg) => ~Within(S \ Oldest(S, m), cfg)
<1> DEFINE most == IF Cardinality(S) < Chunk THEN Cardinality(S) ELSE Chunk
           enough == {n \in 0 .. most : Within(S \ Oldest(S, n), cfg)}
<1>1. Cardinality(S) \in Nat /\ Cardinality(S) # 0
  <2>1. S # {} /\ IsFiniteSet(S)
    BY WithinNone, TableFinite
  <2>2. QED
    BY <2>1, FS_CardinalityType, FS_EmptySet
<1>2. most \in Nat \ {0}
  BY <1>1, SizesAssumption
<1>3. 0 \notin enough
  <2>1. S \ Oldest(S, 0) = S
    BY OldestFacts
  <2>2. QED
    BY <2>1
<1>4. Round(S, cfg) = IF enough = {} THEN most
                      ELSE CHOOSE n \in enough : \A m \in enough : n =< m
  BY DEF Round
<1>5. enough \subseteq Nat /\ enough \subseteq 0 .. most
  BY <1>2
<1>6. \A m \in Nat : m =< most /\ m \notin enough => ~Within(S \ Oldest(S, m), cfg)
  BY <1>2
<1> HIDE DEF enough, most
<1>7. CASE enough = {}
  <2>1. Round(S, cfg) = most
    BY <1>4, <1>7
  <2>2. QED
    BY <1>2, <1>6, <1>7, <2>1
<1>8. CASE enough # {}
  <2>1. \E n \in enough : \A m \in enough : n =< m
    BY <1>5, <1>8, LeastNumber
  <2>2. Round(S, cfg) \in enough /\ \A m \in enough : Round(S, cfg) =< m
    BY <1>4, <1>8, <2>1
  <2>3. Round(S, cfg) \in Nat \ {0} /\ Round(S, cfg) =< most
    <3>1. Round(S, cfg) \in 0 .. most /\ Round(S, cfg) # 0
      BY <1>3, <1>5, <2>2
    <3>2. QED
      BY <1>2, <3>1
  <2>4. \A m \in Nat : m < Round(S, cfg) => m =< most /\ m \notin enough
    BY <1>2, <2>2, <2>3
  <2>5. QED
    BY <1>6, <2>3, <2>4
<1>9. QED
  BY <1>7, <1>8

(* T is what is left of S: it is younger than what is gone, and nothing    *)
(* that is gone would have fitted with all that is younger than itself.    *)
LeftOf(T, S, cfg) ==
  /\ T \subseteq S
  /\ \A r \in S \ T : ~Within(Youngest(S, r), cfg) /\ \A s \in T : Older(r, s)

(* A round leaves such a part, ...                                         *)
LEMMA RoundLeaves ==
  ASSUME NEW S, OneRowPerKey(S), NEW cfg \in ConfigType, ~Within(S, cfg)
  PROVE  LET T == S \ Oldest(S, Round(S, cfg))
         IN  LeftOf(T, S, cfg) /\ T # S
<1>1. PICK n \in Nat \ {0} : n = Round(S, cfg)
  BY RoundFacts
<1>2. \A m \in Nat : m < n => ~Within(S \ Oldest(S, m), cfg)
  BY <1>1, RoundFacts
<1> DEFINE T == S \ Oldest(S, n)
<1>3. \A r \in S : Rank(S, r) \in Nat /\ (r \in T <=> ~(Rank(S, r) < n))
  BY RankRises DEF Oldest, Rank
<1>4. ASSUME NEW r \in S \ T
      PROVE  ~Within(Youngest(S, r), cfg)
  <2>1. r \in S /\ Rank(S, r) \in Nat /\ Rank(S, r) < n
    BY <1>3
  <2>2. ~Within(S \ Oldest(S, Rank(S, r)), cfg)
    BY <1>2, <2>1
  <2>3. S \ Oldest(S, Rank(S, r)) = Youngest(S, r)
    BY <2>1, OldestFacts
  <2>4. QED
    BY <2>2, <2>3
<1>5. ASSUME NEW r \in S \ T, NEW s \in T
      PROVE  Older(r, s)
  <2>1. Rank(S, r) < n /\ ~(Rank(S, s) < n) /\ r \in S /\ s \in S
    BY <1>3
  <2>2. Rank(S, r) < Rank(S, s)
    BY <1>3, <2>1
  <2>3. QED
    BY <2>1, <2>2, RankRises
<1>6. T # S
  <2>1. S # {}
    BY WithinNone
  <2>2. Oldest(S, n) # {} /\ Oldest(S, n) \subseteq S
    BY <2>1, OldestFacts DEF Oldest
  <2>3. QED
    BY <2>2
<1>7. QED
  BY <1>1, <1>4, <1>5, <1>6 DEF LeftOf

(* ... and what is left of what was left is one.                           *)
LEMMA LeftOfLeft ==
  ASSUME NEW S, OneRowPerKey(S), NEW T, NEW U, NEW cfg \in ConfigType,
         LeftOf(T, S, cfg), LeftOf(U, T, cfg)
  PROVE  LeftOf(U, S, cfg)
<1>1. U \subseteq T /\ T \subseteq S
  BY DEF LeftOf
<1>2. ASSUME NEW r \in S \ U
      PROVE  ~Within(Youngest(S, r), cfg) /\ \A s \in U : Older(r, s)
  <2>1. CASE r \notin T
    BY <1>1, <2>1 DEF LeftOf
  <2>2. CASE r \in T
    <3>1. ~Within(Youngest(T, r), cfg) /\ \A s \in U : Older(r, s)
      BY <2>2 DEF LeftOf
    <3>2. Youngest(S, r) = Youngest(T, r)
      <4>1. \A s \in S \ T : Older(s, r) /\ s \in S /\ r \in S
        BY <1>1, <2>2 DEF LeftOf
      <4>2. \A s \in S \ T : ~Older(r, s) /\ s # r
        BY <4>1, OlderOrder
      <4>3. QED
        BY <1>1, <4>2 DEF Youngest
    <3>3. QED
      BY <3>1, <3>2
  <2>3. QED
    BY <2>1, <2>2
<1>3. QED
  BY <1>1, <1>2 DEF LeftOf

(* The loop ends within the limits, whatever the chunk, and leaves as much *)
(* as it can: every round is needed.                                       *)
LEMMA EvictFacts ==
  ASSUME NEW S, OneRowPerKey(S), NEW cfg \in ConfigType
  PROVE  LeftOf(Evict(S, cfg), S, cfg) /\ Within(Evict(S, cfg), cfg)
<1> DEFINE F(h) == [n \in Nat |->
                      IF n = 0 THEN S
                      ELSE IF Within(h[n - 1], cfg) THEN h[n - 1]
                      ELSE h[n - 1] \ Oldest(h[n - 1], Round(h[n - 1], cfg))]
           after == CHOOSE h : h = F(h)
           step == [T \in SUBSET S |->
                      IF Within(T, cfg) THEN T ELSE T \ Oldest(T, Round(T, cfg))]
<1>1. Evict(S, cfg) = after[Cardinality(S)]
  BY DEF Evict
<1>2. step \in [SUBSET S -> SUBSET S]
  OBVIOUS
<1>3. PICK f \in [Nat -> SUBSET S] :
        f = [n \in Nat |-> IF n = 0 THEN S ELSE step[f[n - 1]]]
  <2>1. PICK X : X = SUBSET S
    OBVIOUS
  <2> HIDE DEF step
  <2>2. S \in X /\ step \in [X -> X]
    BY <1>2, <2>1
  <2>3. \E f \in [Nat -> X] :
          f = [n \in Nat |-> IF n = 0 THEN S ELSE step[f[n - 1]]]
    BY <2>2, Iteration
  <2>4. QED
    BY <2>1, <2>3
<1>4. f = F(f)
  <2>1. \A n \in Nat : n # 0 => n - 1 \in Nat /\ f[n - 1] \in SUBSET S
    OBVIOUS
  <2>2. \A n \in Nat :
          f[n] = IF n = 0 THEN S
                 ELSE IF Within(f[n - 1], cfg) THEN f[n - 1]
                 ELSE f[n - 1] \ Oldest(f[n - 1], Round(f[n - 1], cfg))
    <3> TAKE n \in Nat
    <3>1. f[n] = IF n = 0 THEN S ELSE step[f[n - 1]]
      BY <1>3
    <3>2. QED
      BY <2>1, <3>1
  <2>3. f = [n \in Nat |-> f[n]]
    OBVIOUS
  <2>4. QED
    BY <2>2, <2>3
<1>5. after = F(after)
  <2> HIDE DEF F
  <2> QED BY <1>4, Zenon
<1>6. after[0] = S
  <2> HIDE DEF after
  <2> QED BY <1>5
<1>7. ASSUME NEW n \in Nat, n # 0
      PROVE  after[n] = IF Within(after[n - 1], cfg) THEN after[n - 1]
                        ELSE after[n - 1] \ Oldest(after[n - 1],
                                                   Round(after[n - 1], cfg))
  <2> HIDE DEF after
  <2> QED BY <1>5, <1>7
<1> HIDE DEF after, step, F
<1> DEFINE Good(n) == /\ LeftOf(after[n], S, cfg)
                      /\ \/ Within(after[n], cfg)
                         \/ Cardinality(after[n]) + n =< Cardinality(S)
<1>8. Good(0)
  <2>1. Cardinality(S) \in Nat
    BY TableFinite, FS_CardinalityType
  <2>2. LeftOf(S, S, cfg)
    BY DEF LeftOf
  <2>3. QED
    BY <1>6, <2>1, <2>2
<1>9. ASSUME NEW n \in Nat, n # 0, Good(n - 1)
      PROVE  Good(n)
  <2> DEFINE T == after[n - 1]
             U == after[n]
  <2>1. LeftOf(T, S, cfg) /\ T \in SUBSET S /\ OneRowPerKey(T)
    BY <1>9, TablePart DEF LeftOf
  <2>2. CASE Within(T, cfg)
    BY <1>7, <1>9, <2>2
  <2>3. CASE ~Within(T, cfg)
    <3>1. U = T \ Oldest(T, Round(T, cfg))
      BY <1>7, <1>9, <2>3
    <3>2. LeftOf(U, T, cfg) /\ U # T
      BY <2>1, <2>3, <3>1, RoundLeaves
    <3>3. LeftOf(U, S, cfg)
      BY <2>1, <3>2, LeftOfLeft
    <3>4. Cardinality(T) + (n - 1) =< Cardinality(S)
      BY <1>9, <2>3
    <3>5. U \in SUBSET T
      BY <3>2 DEF LeftOf
    <3>6. /\ Cardinality(U) < Cardinality(T)
          /\ Cardinality(U) \in Nat /\ Cardinality(T) \in Nat
      BY <2>1, <3>2, <3>5, TablePart
    <3>7. Cardinality(S) \in Nat
      BY TableFinite, FS_CardinalityType
    <3>8. Cardinality(U) + n =< Cardinality(S)
      BY <3>4, <3>6, <3>7
    <3>9. QED
      BY <3>3, <3>8
  <2>4. QED
    BY <2>2, <2>3
<1>10. \A n \in Nat : Good(n)
  <2> DEFINE A == {n \in Nat : ~Good(n)}
  <2> SUFFICES ASSUME A # {} PROVE FALSE
    OBVIOUS
  <2>1. PICK m \in A : \A n \in A : m =< n
    <3> A \subseteq Nat
      OBVIOUS
    <3> HIDE DEF A
    <3> QED BY LeastNumber
  <2>2. m \in Nat /\ ~Good(m)
    OBVIOUS
  <2>3. m # 0
    BY <1>8, <2>2
  <2>4. m - 1 \in Nat /\ ~(m =< m - 1)
    BY <2>2, <2>3
  <2>5. m - 1 \notin A
    <3> HIDE DEF A
    <3> QED BY <2>1, <2>4
  <2>6. Good(m - 1)
    <3> HIDE DEF Good
    <3> QED BY <2>4, <2>5
  <2>7. QED
    <3> HIDE DEF Good
    <3> QED BY <1>9, <2>2, <2>3, <2>6
<1>11. Cardinality(S) \in Nat
  BY TableFinite, FS_CardinalityType
<1> DEFINE E == after[Cardinality(S)]
<1>12. Good(Cardinality(S))
  <2> HIDE DEF Good
  <2> QED BY <1>10, <1>11
<1>13. LeftOf(E, S, cfg)
  BY <1>12
<1>14. Within(E, cfg)
  <2>1. CASE Within(E, cfg)
    BY <2>1
  <2>2. CASE Cardinality(E) + Cardinality(S) =< Cardinality(S)
    <3>1. IsFiniteSet(E) /\ Cardinality(E) \in Nat
      BY <1>13, TablePart DEF LeftOf
    <3>2. Cardinality(E) = 0
      BY <1>11, <2>2, <3>1
    <3>3. E = {}
      BY <3>1, <3>2, FS_EmptySet
    <3>4. QED
      BY <3>3, WithinNone
  <2>3. QED
    BY <1>12, <2>1, <2>2
<1>15. QED
  BY <1>1, <1>13, <1>14

-----------------------------------------------------------------------------
(* Types. *)

Typed == TypeOK /\ hand \in [Keys -> ReportType \cup {None}]

(* A configuration has limits, and a time to live for each class.          *)
LEMMA ConfigFacts ==
  ASSUME NEW c \in Configs
  PROVE  c \in ConfigType /\ \A x \in Classes : c.ttl[x] \in Nat
BY ConfigsAssumption DEF ConfigType

(* The mark stays within the clock.                                        *)
LEMMA LaterClock == \A a, b \in Clock : Later(a, b) \in Clock
BY DEF Later

(* A report becomes the row of its key.                                    *)
LEMMA SavedFacts ==
  ASSUME Typed, NEW k \in Keys, hand[k] # None
  PROVE  /\ hand[k] \in ReportType /\ hand[k].id \in Ids /\ hand[k].key = k
         /\ Saved(hand[k]) \in RowType
         /\ Saved(hand[k]).key = k /\ Saved(hand[k]).id = hand[k].id
         /\ Saved(hand[k]).class = hand[k].class
         /\ Saved(hand[k]).fetched = hand[k].fetched
         /\ Saved(hand[k]).expires = hand[k].fetched + config.ttl[hand[k].class]
<1>1. hand[k] \in ReportType /\ hand[k].key = k
  BY DEF Typed, TypeOK
<1>2. /\ hand[k].id \in Ids /\ hand[k].class \in Classes
      /\ hand[k].fetched \in Clock /\ hand[k].bytes \in Sizes
  BY <1>1 DEF ReportType
<1>3. hand[k].fetched + config.ttl[hand[k].class] \in Nat
  <2>1. config.ttl[hand[k].class] \in Nat
    BY <1>2, ConfigFacts DEF Typed, TypeOK
  <2>2. hand[k].fetched \in Nat
    BY <1>2 DEF Clock
  <2>3. QED
    BY <2>1, <2>2
<1>4. Saved(hand[k]) \in RowType
  BY <1>1, <1>2, <1>3 DEF Saved, RowType
<1>5. QED
  BY <1>1, <1>2, <1>4 DEF Saved

(* What cache_put hands to `evict`: the row of the key is replaced.        *)
LEMMA ReplacedTable ==
  ASSUME Typed, NEW k \in Keys, hand[k] # None, NEW now
  PROVE  OneRowPerKey((DeleteExpired(rows, now, config) \ RowOf(k))
                        \cup {Saved(hand[k])})
<1>1. Saved(hand[k]) \in RowType /\ Saved(hand[k]).key = k
  BY SavedFacts
<1>2. /\ DeleteExpired(rows, now, config) \subseteq rows /\ rows \subseteq RowType
      /\ \A r, s \in rows : r.key = s.key => r = s
  BY DEF DeleteExpired, Typed, TypeOK
<1>3. \A r \in DeleteExpired(rows, now, config) \ RowOf(k) : r \in rows /\ r.key # k
  BY <1>2 DEF RowOf
<1>4. QED
  BY <1>1, <1>2, <1>3 DEF OneRowPerKey

(* The rows of a typed state are a table.                                  *)
LEMMA RowsTable ==
  ASSUME Typed
  PROVE  OneRowPerKey(rows) /\ config \in ConfigType
BY ConfigFacts DEF Typed, TypeOK, OneRowPerKey

(* The same, as the proof of a step uses it.                               *)
Parts ==
  /\ wall \in Clock /\ mark \in Clock /\ durableMark \in Clock
  /\ config \in Configs /\ OneRowPerKey(rows)
  /\ hand \in [Keys -> ReportType \cup {None}]
  /\ \A k \in Keys : hand[k] # None => hand[k].key = k
  /\ reports \in 0 .. MaxReports /\ dead \subseteq Ids
  /\ told = None \/ told \in [id : Ids, until : Nat]

(* Being typed is having these parts.                                      *)
LEMMA TypedParts == Typed <=> Parts
<1>1. Typed => Parts
  BY DEF Typed, TypeOK, Parts, OneRowPerKey
<1>2. Parts => \A k \in Keys : hand[k] = None \/ hand[k] \in ReportType
  BY DEF Parts
<1>3. QED
  BY <1>1, <1>2 DEF Typed, TypeOK, Parts, OneRowPerKey

(* A new database is well-formed.                                          *)
LEMMA InitTyped == Init => Typed
<1> SUFFICES ASSUME Init PROVE Typed
  OBVIOUS
<1>1. hand \in [Keys -> ReportType \cup {None}] /\ \A k \in Keys : hand[k] = None
  BY DEF Init
<1>2. reports \in 0 .. MaxReports
  BY BoundsAssumption DEF Init
<1>3. QED
  BY <1>1, <1>2 DEF Init, Typed, TypeOK

(* One step of the proof per action.                                       *)
LEMMA StepTyped ==
  ASSUME Typed, [Next]_vars
  PROVE  Typed'
<1>1. Parts
  BY TypedParts
<1>2. SUFFICES Parts'
  <2>1. Parts' => \A k \in Keys : hand'[k] = None \/ hand'[k] \in ReportType
    BY DEF Parts
  <2>2. QED
    BY <1>2, <2>1 DEF Typed, TypeOK, Parts, OneRowPerKey
<1> USE DEF Parts
<1>3. Later(mark, wall) \in Clock /\ Later(durableMark, wall) \in Clock
      /\ Later(durableMark, Later(mark, wall)) \in Clock
  BY <1>1, LaterClock
<1>4. [k \in Keys |-> None] \in [Keys -> ReportType \cup {None}]
      /\ \A k \in Keys : [i \in Keys |-> None][k] = None
  OBVIOUS
<1>5. CASE Tick
  <2>1. wall' \in Clock
    BY <1>1, <1>5, BoundsAssumption DEF Tick, Clock
  <2>2. QED
    BY <1>1, <1>5, <2>1 DEF Tick
<1>6. CASE Rollback
  BY <1>1, <1>6 DEF Rollback
<1>7. CASE Observe
  BY <1>1, <1>3, <1>7 DEF Observe
<1>8. CASE QuotaCommit
  <2>1. durableMark' \in Clock /\ mark' \in Clock
    BY <1>1, <1>3, <1>8 DEF QuotaCommit
  <2>2. QED
    BY <1>1, <1>8, <2>1 DEF QuotaCommit
<1>9. CASE Restart
  <2>1. mark' \in Clock /\ config' \in Configs
    BY <1>1, <1>3, <1>9 DEF Restart
  <2>2. OneRowPerKey(rows')
    <3> DEFINE S == rows \ Expired(rows, mark', config')
    <3>1. OneRowPerKey(S)
      BY <1>1, TablePart
    <3>2. rows' = Evict(S, config') /\ config' \in ConfigType
      BY <1>9, <2>1, ConfigFacts DEF Restart
    <3> HIDE DEF S
    <3>3. LeftOf(rows', S, config')
      BY <3>1, <3>2, EvictFacts
    <3>4. QED
      BY <3>1, <3>3, TablePart DEF LeftOf
  <2>3. hand' = [k \in Keys |-> None]
    BY <1>9 DEF Restart
  <2>4. hand' \in [Keys -> ReportType \cup {None}] /\ \A k \in Keys : hand'[k] = None
    BY <1>4, <2>3
  <2>5. QED
    BY <1>1, <1>9, <2>1, <2>2, <2>4 DEF Restart
<1>10. CASE Cleanup
  <2>1. rows' \in SUBSET rows
    BY <1>10 DEF Cleanup, DeleteExpired
  <2>2. OneRowPerKey(rows')
    BY <1>1, <2>1, TablePart
  <2>3. QED
    BY <1>1, <1>3, <1>10, <2>2 DEF Cleanup
<1>11. ASSUME NEW k \in Keys, Decode(k)
       PROVE  Parts'
  <2>1. PICK c \in Classes, b \in Sizes :
          hand' = [hand EXCEPT ![k] = [key |-> k, id |-> reports', class |-> c,
                                       fetched |-> wall, bytes |-> b]]
    BY <1>11 DEF Decode
  <2>2. reports' \in 0 .. MaxReports /\ reports' \in Ids
    BY <1>1, <1>11, BoundsAssumption DEF Decode, Ids
  <2> DEFINE r == [key |-> k, id |-> reports', class |-> c,
                   fetched |-> wall, bytes |-> b]
  <2>3. r \in ReportType /\ r.key = k
    BY <1>1, <2>2 DEF ReportType
  <2>4. hand' = [hand EXCEPT ![k] = r]
    BY <2>1
  <2> HIDE DEF r
  <2>5. /\ hand' \in [Keys -> ReportType \cup {None}]
        /\ \A l \in Keys : hand'[l] # None => hand'[l].key = l
    BY <1>1, <2>3, <2>4
  <2>6. QED
    BY <1>1, <1>11, <2>2, <2>5 DEF Decode
<1>12. ASSUME NEW k \in Keys, MissExpired(k)
       PROVE  Parts'
  <2>1. PICK r \in RowOf(k) : rows' = rows \ {r} /\ dead' = dead \cup {r.id}
    BY <1>12 DEF MissExpired
  <2>2. r \in rows /\ r.id \in Ids
    BY <1>1, RowFields DEF RowOf, OneRowPerKey
  <2>3. OneRowPerKey(rows')
    BY <1>1, <2>1, TablePart
  <2>4. QED
    BY <1>1, <1>3, <1>12, <2>1, <2>2, <2>3 DEF MissExpired
<1>13. ASSUME NEW k \in Keys, hand' = [hand EXCEPT ![k] = None]
       PROVE  /\ hand' \in [Keys -> ReportType \cup {None}]
              /\ \A l \in Keys : hand'[l] # None => hand'[l].key = l
  BY <1>1, <1>13
<1>14. ASSUME NEW k \in Keys, Discard(k)
       PROVE  Parts'
  <2>1. mark' \in Clock
    BY <1>1, <1>3, <1>14 DEF Discard
  <2>2. /\ hand' \in [Keys -> ReportType \cup {None}]
        /\ \A l \in Keys : hand'[l] # None => hand'[l].key = l
    BY <1>13, <1>14 DEF Discard
  <2>3. QED
    BY <1>1, <1>14, <2>1, <2>2 DEF Discard
<1>15. ASSUME NEW k \in Keys, Put(k)
       PROVE  Parts'
  <2> DEFINE S == (DeleteExpired(rows, mark', config) \ RowOf(k))
                    \cup {Saved(hand[k])}
  <2>1. /\ hand[k] # None /\ rows' = Evict(S, config) /\ mark' = Later(mark, wall)
        /\ hand' = [hand EXCEPT ![k] = None]
        /\ told' = None \/ told' = [id |-> hand[k].id,
                                    until |-> Saved(hand[k]).expires]
    BY <1>15 DEF Put, Tell
  <2>2. OneRowPerKey(S) /\ config \in ConfigType
    BY <1>1, <2>1, ReplacedTable, ConfigFacts
  <2> HIDE DEF S
  <2>3. LeftOf(rows', S, config)
    BY <2>1, <2>2, EvictFacts
  <2>4. OneRowPerKey(rows')
    BY <2>2, <2>3, TablePart DEF LeftOf
  <2>5. hand[k].id \in Ids /\ Saved(hand[k]).expires \in Nat
    BY <2>1, SavedFacts, RowFields
  <2>6. told' = None \/ told' \in [id : Ids, until : Nat]
    BY <2>1, <2>5
  <2>7. /\ hand' \in [Keys -> ReportType \cup {None}]
        /\ \A l \in Keys : hand'[l] # None => hand'[l].key = l
    BY <1>13, <2>1
  <2>8. QED
    BY <1>1, <1>3, <1>15, <2>1, <2>4, <2>6, <2>7 DEF Put
<1>16. CASE UNCHANGED vars
  BY <1>1, <1>16 DEF vars
<1>17. QED
  BY <1>5, <1>6, <1>7, <1>8, <1>9, <1>10, <1>11, <1>12, <1>14, <1>15, <1>16 DEF Next

(* The primary key, types and the history's bounds hold in every state     *)
(* (cache_put, cache_get, cleanup, initialize).                            *)
THEOREM TypeCorrect == Spec => []TypeOK
<1>1. Typed /\ [Next]_vars => Typed'
  BY StepTyped
<1>2. Typed => TypeOK
  BY DEF Typed
<1>3. QED
  BY <1>1, <1>2, InitTyped, PTL DEF Spec

-----------------------------------------------------------------------------
(* The limits. *)

(* The limits are kept: a put and the opening of the table evict, and any  *)
(* other step only deletes.                                                *)
LEMMA StepWithin ==
  ASSUME Typed, CacheBounded, [Next]_vars, Typed'
  PROVE  CacheBounded'
<1>1. OneRowPerKey(rows) /\ config \in ConfigType /\ Within(rows, config)
  BY RowsTable DEF CacheBounded
<1>2. CASE Restart
  <2> DEFINE S == rows \ Expired(rows, mark', config')
  <2>1. rows' = Evict(S, config') /\ config' \in ConfigType /\ OneRowPerKey(S)
    BY <1>1, <1>2, TablePart, ConfigFacts DEF Restart
  <2> HIDE DEF S
  <2>2. QED
    BY <2>1, EvictFacts DEF CacheBounded
<1>3. ASSUME NEW k \in Keys, Put(k)
      PROVE  CacheBounded'
  <2> DEFINE S == (DeleteExpired(rows, mark', config) \ RowOf(k))
                    \cup {Saved(hand[k])}
  <2>1. hand[k] # None /\ rows' = Evict(S, config) /\ config' = config
    BY <1>3 DEF Put
  <2>2. OneRowPerKey(S)
    BY <2>1, ReplacedTable
  <2> HIDE DEF S
  <2>3. QED
    BY <1>1, <2>1, <2>2, EvictFacts DEF CacheBounded
<1>4. CASE ~Restart /\ ~ \E k \in Keys : Put(k)
  <2>1. rows' \in SUBSET rows /\ config' = config
    BY <1>4 DEF Next, Tick, Rollback, Observe, QuotaCommit, Cleanup, Decode,
                MissExpired, Discard, DeleteExpired, vars
  <2>2. QED
    BY <1>1, <2>1, WithinPart DEF CacheBounded
<1>5. QED
  BY <1>2, <1>3, <1>4

(* The table never exceeds the limits of the process that has it open:     *)
(* not after a put, not when it is opened with tighter limits. The loop of *)
(* `evict` is shown to end within them for every chunk, row and size.      *)
THEOREM TableWithinLimits == Spec => []CacheBounded
<1>1. Init => Typed /\ CacheBounded
  <2>1. Init => rows = {} /\ config \in ConfigType
    BY ConfigFacts DEF Init
  <2>2. QED
    BY <2>1, InitTyped, WithinNone DEF CacheBounded
<1>2. Typed /\ CacheBounded /\ [Next]_vars => Typed' /\ CacheBounded'
  BY StepTyped, StepWithin
<1>3. QED
  BY <1>1, <1>2, PTL DEF Spec

-----------------------------------------------------------------------------
(* Reports that have expired. *)

(* A report is in one place only, and none that has died in any: in the    *)
(* table, in a flight's hand, or gone.                                     *)
PlaceInv ==
  /\ \A i \in dead : i =< reports
  /\ \A r \in rows : r.id =< reports /\ r.id \notin dead
  /\ \A r, s \in rows : r.id = s.id => r = s
  /\ \A k \in Keys : hand[k] # None =>
       /\ hand[k].id =< reports /\ hand[k].id \notin dead
       /\ \A r \in rows : r.id # hand[k].id
       /\ \A l \in Keys : l # k /\ hand[l] # None => hand[l].id # hand[k].id

(* No report has come yet.                                                 *)
LEMMA InitPlace == Init => PlaceInv
BY DEF Init, PlaceInv

(* Fewer rows and fewer hands are still in one place each.                 *)
LEMMA PlaceShrinks ==
  ASSUME PlaceInv, rows' \subseteq rows, UNCHANGED <<reports, dead>>,
         \A k \in Keys : hand'[k] = hand[k] \/ hand'[k] = None
  PROVE  PlaceInv'
BY DEF PlaceInv

(* Every step moves a report from one place to the next.                   *)
LEMMA StepPlace ==
  ASSUME Typed, PlaceInv, [Next]_vars, Typed'
  PROVE  PlaceInv'
<1>1. /\ hand \in [Keys -> ReportType \cup {None}] /\ reports \in Nat
      /\ dead \subseteq Nat /\ \A r \in rows : r.id \in Nat
      /\ \A k \in Keys : hand[k] # None => hand[k].id \in Nat
  <2>1. \A i \in Ids : i \in Nat
    BY BoundsAssumption DEF Ids
  <2>2. \A r \in rows : r.id \in Ids
    BY RowFields DEF Typed, TypeOK
  <2>3. \A k \in Keys : hand[k] # None => hand[k].id \in Ids
    BY SavedFacts
  <2>4. reports \in Nat /\ dead \subseteq Ids
    BY BoundsAssumption DEF Typed, TypeOK
  <2>5. QED
    BY <2>1, <2>2, <2>3, <2>4 DEF Typed
<1>2. CASE Restart
  <2> DEFINE S == rows \ Expired(rows, mark', config')
  <2>1. /\ rows' = Evict(S, config') /\ config' \in ConfigType /\ OneRowPerKey(S)
    BY <1>2, RowsTable, TablePart, ConfigFacts DEF Restart, Typed, TypeOK
  <2>2. S \subseteq rows
    OBVIOUS
  <2> HIDE DEF S
  <2>3. rows' \subseteq rows
    BY <2>1, <2>2, EvictFacts DEF LeftOf
  <2>4. UNCHANGED <<reports, dead>> /\ \A k \in Keys : hand'[k] = None
    BY <1>2 DEF Restart
  <2>5. QED
    BY <2>3, <2>4, PlaceShrinks
<1>3. ASSUME NEW k \in Keys, Decode(k)
      PROVE  PlaceInv'
  <2>1. PICK c \in Classes, b \in Sizes :
          hand' = [hand EXCEPT ![k] = [key |-> k, id |-> reports', class |-> c,
                                       fetched |-> wall, bytes |-> b]]
    BY <1>3 DEF Decode
  <2>2. reports' = reports + 1 /\ UNCHANGED <<rows, dead>>
    BY <1>3 DEF Decode
  <2>3. hand'[k].id = reports' /\ \A l \in Keys : l # k => hand'[l] = hand[l]
    BY <1>1, <2>1
  <2>4. \A i \in Nat : i =< reports => i =< reports' /\ i # reports'
    BY <1>1, <2>2
  <2>5. reports' =< reports'
    BY <1>1, <2>2
  <2>6. reports' \notin dead /\ \A r \in rows : r.id # reports'
    BY <1>1, <2>4 DEF PlaceInv
  <2>7. \A l \in Keys : l # k /\ hand[l] # None => hand[l].id # reports'
    BY <1>1, <2>4 DEF PlaceInv
  <2>8. QED
    BY <1>1, <2>2, <2>3, <2>4, <2>5, <2>6, <2>7 DEF PlaceInv
<1>4. ASSUME NEW k \in Keys, MissExpired(k)
      PROVE  PlaceInv'
  <2>1. PICK r \in RowOf(k) : rows' = rows \ {r} /\ dead' = dead \cup {r.id}
    BY <1>4 DEF MissExpired
  <2>2. r \in rows /\ UNCHANGED <<hand, reports>>
    BY <1>4 DEF MissExpired, RowOf
  <2>3. QED
    BY <2>1, <2>2 DEF PlaceInv
<1>5. ASSUME NEW k \in Keys, Put(k)
      PROVE  PlaceInv'
  <2> DEFINE S == (DeleteExpired(rows, mark', config) \ RowOf(k))
                    \cup {Saved(hand[k])}
  <2>1. /\ hand[k] # None /\ rows' = Evict(S, config)
        /\ hand' = [hand EXCEPT ![k] = None] /\ UNCHANGED <<reports, dead>>
    BY <1>5 DEF Put
  <2>2. OneRowPerKey(S) /\ S \subseteq rows \cup {Saved(hand[k])}
    BY <2>1, ReplacedTable DEF DeleteExpired
  <2> HIDE DEF S
  <2>3. rows' \subseteq rows \cup {Saved(hand[k])}
    BY <2>1, <2>2, RowsTable, EvictFacts DEF LeftOf
  <2>4. Saved(hand[k]).id = hand[k].id
    BY <2>1, SavedFacts
  <2>5. hand'[k] = None /\ \A l \in Keys : l # k => hand'[l] = hand[l]
    BY <1>1, <2>1
  <2>6. QED
    BY <2>1, <2>3, <2>4, <2>5 DEF PlaceInv
<1>6. ASSUME NEW k \in Keys, Discard(k)
      PROVE  PlaceInv'
  <2>1. /\ rows' \subseteq rows /\ UNCHANGED <<reports, dead>>
        /\ \A l \in Keys : hand'[l] = hand[l] \/ hand'[l] = None
    BY <1>1, <1>6 DEF Discard
  <2>2. QED
    BY <2>1, PlaceShrinks
<1>7. CASE \/ Tick \/ Rollback \/ Observe \/ QuotaCommit \/ Cleanup
           \/ UNCHANGED vars
  <2>1. rows' \subseteq rows /\ UNCHANGED <<reports, dead, hand>>
    BY <1>7 DEF Tick, Rollback, Observe, QuotaCommit, Cleanup, DeleteExpired, vars
  <2>2. QED
    BY <2>1, PlaceShrinks
<1>8. QED
  BY <1>2, <1>3, <1>4, <1>5, <1>6, <1>7 DEF Next

(* A report that was once refused because it had expired has left the      *)
(* table for good, so nothing can serve it again: no restart, clock set    *)
(* back or longer time to live (cache_get, the DELETE of an expired row).  *)
THEOREM ExpiredStaysDead == Spec => []NoResurrection
<1>1. Init => Typed /\ PlaceInv
  BY InitTyped, InitPlace
<1>2. Typed /\ PlaceInv /\ [Next]_vars => Typed' /\ PlaceInv'
  BY StepTyped, StepPlace
<1>3. PlaceInv => NoResurrection
  BY DEF PlaceInv, NoResurrection
<1>4. QED
  BY <1>1, <1>2, <1>3, PTL DEF Spec

-----------------------------------------------------------------------------
(* What a caller is told. *)

(* A put tells of a report that is in the table and servable.              *)
LEMMA StepTold ==
  ASSUME Typed, [Next]_vars, told' # None, ~UNCHANGED vars
  PROVE  \E r \in rows' : /\ r.id = told'.id /\ told'.until = Expiry(r, config)
                          /\ Servable(r, mark')
<1>1. PICK k \in Keys : Put(k)
  BY DEF Next, Tick, Rollback, Observe, QuotaCommit, Restart, Cleanup, Decode,
         MissExpired, Discard
<1> DEFINE q == Saved(hand[k])
           S == (DeleteExpired(rows, mark', config) \ RowOf(k)) \cup {q}
<1>2. /\ hand[k] # None /\ rows' = Evict(S, config)
      /\ config.ttl[hand[k].class] > 0 /\ hand[k].fetched =< wall
      /\ mark' < q.expires
      /\ \E s \in rows' : s.key = k
      /\ told' = [id |-> hand[k].id, until |-> q.expires]
  BY <1>1 DEF Put, Tell
<1>3. OneRowPerKey(S) /\ q \in S /\ q.key = k
  BY <1>2, ReplacedTable, SavedFacts
<1> HIDE DEF S
<1>4. rows' \subseteq S
  BY <1>2, <1>3, RowsTable, EvictFacts DEF LeftOf
<1>5. q \in rows'
  BY <1>2, <1>3, <1>4 DEF OneRowPerKey
<1>6. /\ q.id = hand[k].id /\ q.class = hand[k].class
      /\ q.fetched = hand[k].fetched
      /\ q.expires = hand[k].fetched + config.ttl[hand[k].class]
      /\ q \in RowType
  BY <1>2, SavedFacts
<1> HIDE DEF q
<1>7. Expiry(q, config) = q.expires
  BY <1>6 DEF Expiry
<1>8. Servable(q, mark')
  BY <1>2, <1>6, <1>7 DEF Servable
<1>9. QED
  BY <1>2, <1>5, <1>6, <1>7, <1>8

(* An expiry that is told is that of a row in the table which cache_get    *)
(* would return at once (cache_put, its count of the retained row).        *)
THEOREM ToldReportsAreServable == Spec => ToldIsServable
<1>1. Typed /\ [Next]_vars => Typed'
  BY StepTyped
<1>2. Typed /\ [Next]_vars =>
        [told' # None =>
           \E r \in rows' : r.id = told'.id /\ told'.until = Expiry(r, config)
                            /\ Servable(r, mark')]_vars
  BY StepTold
<1>3. QED
  BY <1>1, <1>2, InitTyped, PTL DEF Spec, ToldIsServable

-----------------------------------------------------------------------------
(* What is lost. *)

(* An eviction of a part of the rows that has all the live ones loses them *)
(* in order.                                                               *)
LEMMA EvictionInOrder ==
  ASSUME NEW before, OneRowPerKey(before), config' \in ConfigType,
         NEW S \in SUBSET before, \A r \in before \ S : ~Alive(r),
         rows' = Evict(S, config')
  PROVE  LostInOrder(before)
<1> SUFFICES ASSUME NEW r \in before \ rows', Alive(r)
             PROVE  /\ ~Within({s \in before : s = r \/ Older(r, s)}, config')
                    /\ \A s \in rows' : Older(r, s)
  BY DEF LostInOrder
<1>1. OneRowPerKey(S)
  BY TablePart
<1>2. LeftOf(rows', S, config') /\ r \in S
  BY <1>1, EvictFacts
<1>3. ~Within(Youngest(S, r), config') /\ \A s \in rows' : Older(r, s)
  BY <1>2 DEF LeftOf
<1>4. Youngest(S, r) \in SUBSET Youngest(before, r) /\ OneRowPerKey(Youngest(before, r))
  <2>1. Youngest(before, r) \in SUBSET before
    BY DEF Youngest
  <2>2. QED
    BY <2>1, TablePart DEF Youngest
<1>5. ~Within(Youngest(before, r), config')
  BY <1>3, <1>4, WithinPart
<1>6. QED
  BY <1>3, <1>5 DEF Youngest

(* A row that the clean-up may delete is one cache_get no longer returns.  *)
LEMMA ExpiredIsDead ==
  ASSUME NEW S, NEW r \in RowType, r \in Expired(S, mark', config'),
         config' \in Configs, mark' \in Nat, wall' = wall, wall \in Nat
  PROVE  ~Alive(r)
<1>1. /\ r.fetched \in Nat /\ r.expires \in Nat /\ config'.ttl[r.class] \in Nat
  BY RowFields, ConfigFacts
<1>2. \/ r.expires =< mark' \/ r.fetched > wall
      \/ r.fetched =< mark' - config'.ttl[r.class]
  BY DEF Expired
<1> DEFINE e == r.expires
           h == r.fetched
           t == config'.ttl[r.class]
<1>3. Alive(r) => h =< wall /\ mark' < e /\ mark' < h + t
  <2>1. Expiry(r, config') = IF e =< h + t THEN e ELSE h + t
    BY DEF Expiry
  <2>2. Alive(r) => mark' < Expiry(r, config') /\ h =< wall
    BY DEF Alive
  <2> HIDE DEF e, h, t
  <2>3. QED
    BY <1>1, <2>1, <2>2 DEF e, h, t
<1>4. QED
  BY <1>1, <1>2, <1>3

(* The mark that a step works with.                                        *)
LEMMA MarkAfter ==
  ASSUME Typed, mark' = Later(mark, wall) \/ mark' = Later(durableMark, wall)
  PROVE  mark' \in Nat /\ wall \in Nat
BY DEF Typed, TypeOK, Clock, Later

(* Every step evicts in the order of age.                                  *)
LEMMA StepInOrder ==
  ASSUME Typed, [Next]_vars
  PROVE  EvictionStep
<1>1. OneRowPerKey(rows) /\ config \in ConfigType
  BY RowsTable
<1>2. ASSUME NEW k \in Keys, Put(k)
      PROVE  LostInOrder((rows \ RowOf(k)) \cup {Saved(hand[k])})
  <2> DEFINE q == Saved(hand[k])
             before == (rows \ RowOf(k)) \cup {q}
             S == (DeleteExpired(rows, mark', config) \ RowOf(k)) \cup {q}
  <2>1. hand[k] # None /\ rows' = Evict(S, config) /\ config' = config
    BY <1>2 DEF Put
  <2>2. OneRowPerKey(before)
    <3>1. q \in RowType /\ q.key = k
      BY <2>1, SavedFacts
    <3>2. \A r \in rows \ RowOf(k) : r \in RowType /\ r.key # k
      BY <1>1 DEF RowOf, OneRowPerKey
    <3> HIDE DEF q
    <3>3. QED
      BY <1>1, <3>1, <3>2 DEF OneRowPerKey
  <2>3. S \in SUBSET before
    BY DEF DeleteExpired
  <2>4. \A r \in before \ S : r \in RowType /\ r \in Expired(rows, mark', config')
    BY <1>1, <2>1 DEF DeleteExpired, OneRowPerKey
  <2>5. \A r \in before \ S : ~Alive(r)
    <3>1. mark' = Later(mark, wall) /\ wall' = wall
      BY <1>2 DEF Put
    <3>2. mark' \in Nat /\ wall \in Nat
      BY <3>1, MarkAfter
    <3>3. config' \in Configs
      BY <2>1 DEF Typed, TypeOK
    <3>4. QED
      BY <2>4, <3>1, <3>2, <3>3, ExpiredIsDead
  <2> HIDE DEF before, S
  <2>6. LostInOrder(before)
    BY <1>1, <2>1, <2>2, <2>3, <2>5, EvictionInOrder
  <2>7. QED
    BY <2>6 DEF before
<1>3. CASE Restart
  <2> DEFINE S == rows \ Expired(rows, mark', config')
  <2>1. rows' = Evict(S, config') /\ config' \in ConfigType
    BY <1>3, ConfigFacts DEF Restart
  <2>2. S \in SUBSET rows
    OBVIOUS
  <2>3. \A r \in rows \ S : ~Alive(r)
    <3> TAKE r \in rows \ S
    <3>1. r \in RowType /\ r \in Expired(rows, mark', config')
      BY <1>1 DEF OneRowPerKey
    <3>2. mark' = Later(durableMark, wall) /\ wall' = wall
      BY <1>3 DEF Restart
    <3>3. mark' \in Nat /\ wall \in Nat
      BY <3>2, MarkAfter
    <3>4. config' \in Configs
      BY <1>3 DEF Restart
    <3>5. QED
      BY <3>1, <3>2, <3>3, <3>4, ExpiredIsDead
  <2> HIDE DEF S
  <2>4. QED
    <3>1. LostInOrder(rows)
      BY <1>1, <2>1, <2>2, <2>3, EvictionInOrder
    <3>2. \A k \in Keys : Putting(k) => Put(k)
      BY DEF Putting
    <3>3. QED
      BY <1>2, <3>1, <3>2 DEF EvictionStep, Putting
<1>4. CASE \E k \in Keys : MissExpired(k)
  <2>0. PICK k \in Keys : MissExpired(k)
    BY <1>4
  <2>1. PICK r \in RowOf(k) :
          mark' >= Expiry(r, config) /\ rows' = rows \ {r} /\ config' = config
          /\ mark' = Later(mark, wall)
    BY <2>0 DEF MissExpired
  <2>2. Expiry(r, config) \in Nat /\ mark' \in Nat
    <3>1. r \in RowType
      BY <1>1 DEF RowOf, OneRowPerKey
    <3>2. /\ r.fetched \in Nat /\ r.expires \in Nat /\ config.ttl[r.class] \in Nat
          /\ mark \in Nat /\ wall \in Nat
      BY <3>1, RowFields, ConfigFacts DEF Typed, TypeOK, Clock
    <3>3. QED
      BY <2>1, <3>2 DEF Expiry, Later
  <2>3. ~Alive(r)
    BY <2>1, <2>2 DEF Alive
  <2>4. LostInOrder(rows)
    BY <2>1, <2>3 DEF LostInOrder
  <2>5. QED
    BY <1>2, <2>4 DEF EvictionStep, Putting
<1>5. CASE Cleanup
  <2>1. rows' = DeleteExpired(rows, mark', config')
    BY <1>5 DEF Cleanup
  <2>2. /\ config' \in Configs /\ wall' = wall /\ mark' = Later(mark, wall)
    BY <1>5 DEF Cleanup, Typed, TypeOK
  <2>3. mark' \in Nat /\ wall \in Nat
    BY <2>2, MarkAfter
  <2>4. \A r \in rows \ rows' : r \in RowType /\ r \in Expired(rows, mark', config')
    BY <1>1, <2>1 DEF DeleteExpired, OneRowPerKey
  <2>5. \A r \in rows \ rows' : ~Alive(r)
    BY <2>2, <2>3, <2>4, ExpiredIsDead
  <2>6. LostInOrder(rows)
    BY <2>5 DEF LostInOrder
  <2>7. QED
    BY <1>2, <2>6 DEF EvictionStep, Putting
<1>6. CASE \E k \in Keys : Put(k)
  <2>1. PICK k \in Keys : Put(k)
    BY <1>6
  <2>2. hand[k] # None /\ hand'[k] = None
    BY <2>1 DEF Put, Typed
  <2>3. QED
    BY <1>2, <2>1, <2>2 DEF EvictionStep, Putting
<1>7. CASE \/ Tick \/ Rollback \/ Observe \/ QuotaCommit \/ UNCHANGED vars
           \/ \E k \in Keys : Decode(k) \/ Discard(k)
  <2>1. rows' = rows
    BY <1>7 DEF Tick, Rollback, Observe, QuotaCommit, Decode, Discard, vars
  <2>2. QED
    BY <1>2, <2>1 DEF EvictionStep, Putting
<1>8. QED
  BY <1>3, <1>4, <1>5, <1>6, <1>7 DEF Next

(* A row that could still be served is lost only to a newer report of its  *)
(* key or because it does not fit in with the younger rows, and never      *)
(* before an older one (delete_expired, evict, initialize).                *)
THEOREM NothingIsLostEarly == Spec => NothingLostEarly
<1>1. Typed /\ [Next]_vars => Typed'
  BY StepTyped
<1>2. Typed /\ [Next]_vars => EvictionStep
  BY StepInOrder
<1>3. QED
  BY <1>1, <1>2, InitTyped, PTL DEF Spec, NothingLostEarly
=============================================================================

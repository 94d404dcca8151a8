---------------------------- MODULE AlertPagesProofs ----------------------------
(***************************************************************************)
(* Proofs about AlertPages, for every set of alerts, every page size,      *)
(* every limit and any number of changes.                                  *)
(*                                                                         *)
(* What the count promises says nothing of offsets, so it is far from      *)
(* inductive.  IInv bounds what lies on the wrong side of the offset: each *)
(* resolved alert pulls at most one unseen alert back over it, and each    *)
(* alert that fires pushes at most one seen alert on beyond it.            *)
(*                                                                         *)
(* The first lemmas are about ranks: an alert has the rank of its position *)
(* in the Hub's order, and no rank is left out.                            *)
(***************************************************************************)
EXTENDS AlertPages, FiniteSetTheorems, TLAPS

RankIn(F, a) == Cardinality({b \in F : b < a})

-----------------------------------------------------------------------------

(* A rank is a natural number.                                             *)
LEMMA RankType ==
  ASSUME NEW F \in SUBSET Nat, IsFiniteSet(F), NEW a \in Nat
  PROVE  RankIn(F, a) \in Nat /\ IsFiniteSet({b \in F : b < a})
<1>1. IsFiniteSet({b \in F : b < a})
  BY FS_Subset
<1> QED
  BY <1>1, FS_CardinalityType DEF RankIn

(* Ranks follow the order of the IDs; an alert that fires counts for those *)
(* behind it.                                                              *)
LEMMA RankOrder ==
  ASSUME NEW F \in SUBSET Nat, IsFiniteSet(F), NEW a \in Nat, NEW c \in Nat,
         a < c
  PROVE  /\ RankIn(F, a) <= RankIn(F, c)
         /\ a \in F => RankIn(F, a) < RankIn(F, c)
<1> DEFINE A == {b \in F : b < a}
           C == {b \in F : b < c}
<1>1. IsFiniteSet(A) /\ IsFiniteSet(C)
  BY RankType
<1>2. A \subseteq C
  <2> SUFFICES ASSUME NEW b \in F, b < a PROVE b < c
    OBVIOUS
  <2> b \in Nat
    OBVIOUS
  <2> QED
    OBVIOUS
<1>3. Cardinality(A) \in Nat /\ Cardinality(C) \in Nat
  BY <1>1, FS_CardinalityType
<1>4. Cardinality(A) <= Cardinality(C)
  BY <1>1, <1>2, FS_Subset
<1>5. ASSUME a \in F PROVE Cardinality(A) < Cardinality(C)
  <2>1. a \in C /\ a \notin A
    BY <1>5
  <2>2. Cardinality(A) # Cardinality(C)
    BY <1>1, <1>2, <2>1, FS_Subset
  <2> QED
    BY <1>3, <1>4, <2>2
<1> QED
  BY <1>4, <1>5 DEF RankIn

(* No two firing alerts have the same rank.                                *)
LEMMA RankInjective ==
  ASSUME NEW F \in SUBSET Nat, IsFiniteSet(F), NEW a \in F, NEW c \in F,
         RankIn(F, a) = RankIn(F, c)
  PROVE  a = c
<1>1. RankIn(F, a) \in Nat /\ RankIn(F, c) \in Nat /\ a \in Nat /\ c \in Nat
  BY RankType
<1>2. ~(a < c)
  BY <1>1, RankOrder
<1>3. ~(c < a)
  BY <1>1, RankOrder
<1> QED
  BY <1>1, <1>2, <1>3

(* Every rank up to that of a firing alert is the rank of one.             *)
LEMMA NoRankLeftOut ==
  ASSUME NEW F \in SUBSET Nat, IsFiniteSet(F), NEW a \in F,
         NEW r \in Nat, r <= RankIn(F, a)
  PROVE  \E b \in F : RankIn(F, b) = r
<1> DEFINE S == {b \in F : b <= a}
           A == {b \in F : b < a}
           T == 0 .. RankIn(F, a)
           f == [b \in S |-> RankIn(F, b)]
<1>1. RankIn(F, a) \in Nat /\ IsFiniteSet(A) /\ a \in Nat
  BY RankType
<1>2. S = A \cup {a} /\ a \notin A
  <2>1. \A b \in F : b <= a <=> b < a \/ b = a
    <3> TAKE b \in F
    <3> b \in Nat /\ a \in Nat
      OBVIOUS
    <3> QED
      OBVIOUS
  <2>2. a <= a /\ ~(a < a)
    BY <1>1
  <2> QED
    BY <2>1, <2>2, Zenon
<1>3. IsFiniteSet(S) /\ Cardinality(S) = RankIn(F, a) + 1
  <2> HIDE DEF S, A
  <2>1. IsFiniteSet(A \cup {a}) /\ Cardinality(A \cup {a}) = Cardinality(A) + 1
    BY <1>1, <1>2, FS_AddElement
  <2> QED
    BY <1>2, <2>1 DEF RankIn, A
<1>4. IsFiniteSet(T) /\ Cardinality(T) = RankIn(F, a) + 1
  BY <1>1, FS_Interval
<1>5. f \in [S -> T]
  <2> SUFFICES ASSUME NEW b \in S PROVE RankIn(F, b) \in T
    OBVIOUS
  <2>1. b \in Nat /\ RankIn(F, b) \in Nat
    BY RankType
  <2>2. b < a => RankIn(F, b) <= RankIn(F, a)
    BY <1>1, <2>1, RankOrder
  <2>3. b < a \/ b = a
    BY <1>1, <2>1
  <2> QED
    BY <1>1, <2>1, <2>2, <2>3
<1>6. ASSUME NEW b \in S, NEW c \in S, f[b] = f[c] PROVE b = c
  <2>1. RankIn(F, b) = RankIn(F, c)
    BY <1>6
  <2> QED
    BY <2>1, RankInjective
<1> HIDE DEF f, T
<1>7. f \in Injection(S, T)
  BY <1>5, <1>6 DEF Injection, IsInjective
<1>8. f \in Surjection(S, T)
  BY <1>3, <1>4, <1>7, FS_Injection
<1>9. r \in T
  BY <1>1 DEF T
<1>10. PICK b \in S : f[b] = r
  BY <1>8, <1>9 DEF Surjection
<1> QED
  BY <1>10 DEF f

(* When an alert is resolved, those behind it move up by one.              *)
LEMMA RankAfterResolve ==
  ASSUME NEW F \in SUBSET Nat, IsFiniteSet(F), NEW x \in F, NEW a \in Nat
  PROVE  RankIn(F \ {x}, a) = IF x < a THEN RankIn(F, a) - 1 ELSE RankIn(F, a)
<1> DEFINE A == {b \in F : b < a}
           B == {b \in F \ {x} : b < a}
<1>1. IsFiniteSet(A)
  BY RankType
<1>2. B = A \ {x} /\ (x \in A <=> x < a)
  OBVIOUS
<1>3. Cardinality(A \ {x}) = IF x \in A THEN Cardinality(A) - 1 ELSE Cardinality(A)
  BY <1>1, FS_RemoveElement
<1> HIDE DEF A, B
<1>4. Cardinality(B) = IF x < a THEN Cardinality(A) - 1 ELSE Cardinality(A)
  BY <1>2, <1>3
<1> QED
  BY <1>4 DEF RankIn, A, B

(* When an alert fires, those behind it move down by one.                  *)
LEMMA RankAfterFire ==
  ASSUME NEW F \in SUBSET Nat, IsFiniteSet(F), NEW x \in Nat \ F, NEW a \in Nat
  PROVE  RankIn(F \cup {x}, a) = IF x < a THEN RankIn(F, a) + 1 ELSE RankIn(F, a)
<1> DEFINE G == F \cup {x}
<1>1. G \in SUBSET Nat /\ IsFiniteSet(G) /\ x \in G /\ G \ {x} = F
  BY FS_AddElement
<1> HIDE DEF G
<1>2. RankIn(F, a) = IF x < a THEN RankIn(G, a) - 1 ELSE RankIn(G, a)
  BY <1>1, RankAfterResolve
<1>3. RankIn(F, a) \in Nat /\ RankIn(G, a) \in Nat
  BY <1>1, RankType
<1>4. RankIn(G, a) = IF x < a THEN RankIn(F, a) + 1 ELSE RankIn(F, a)
  BY <1>2, <1>3
<1> QED
  BY <1>4 DEF G

-----------------------------------------------------------------------------

PageIn(F, o) == {a \in F : o <= RankIn(F, a) /\ RankIn(F, a) < o + PageSize}

(* A page is no longer than PageSize; a full one ends with the last of its *)
(* ranks, and one that is not full is the last: nothing lies beyond it.    *)
LEMMA PageBounds ==
  ASSUME NEW F \in SUBSET Nat, IsFiniteSet(F), NEW o \in Nat
  PROVE  /\ IsFiniteSet(PageIn(F, o))
         /\ Cardinality(PageIn(F, o)) \in 0 .. PageSize
         /\ Cardinality(PageIn(F, o)) = PageSize
              => \E a \in F : RankIn(F, a) = o + PageSize - 1
         /\ Cardinality(PageIn(F, o)) # PageSize
              => \A a \in F : o <= RankIn(F, a) => a \in PageIn(F, o)
<1> DEFINE P == PageIn(F, o)
           T == o .. (o + PageSize - 1)
           f == [a \in P |-> RankIn(F, a)]
<1> USE PagesAssumption
<1>1. \A a \in F : a \in Nat /\ RankIn(F, a) \in Nat
  BY RankType
<1>2. P \subseteq F
  BY DEF PageIn
<1>3. IsFiniteSet(P)
  BY <1>2, FS_Subset
<1>4. IsFiniteSet(T) /\ Cardinality(T) = PageSize
  <2>1. IsFiniteSet(T) /\ Cardinality(T) =
          IF o > o + PageSize - 1 THEN 0 ELSE o + PageSize - 1 - o + 1
    BY FS_Interval
  <2> QED
    BY <2>1
<1>5. f \in [P -> T]
  <2> SUFFICES ASSUME NEW a \in P PROVE RankIn(F, a) \in T
    OBVIOUS
  <2> QED
    BY <1>1, <1>2 DEF PageIn
<1>6. ASSUME NEW a \in P, NEW c \in P, f[a] = f[c] PROVE a = c
  BY <1>2, <1>6, RankInjective
<1> HIDE DEF f, T, P
<1>7. f \in Injection(P, T)
  BY <1>5, <1>6 DEF Injection, IsInjective
<1>8. Cardinality(P) \in 0 .. PageSize
  BY <1>3, <1>4, <1>7, FS_Injection, FS_CardinalityType
<1>9. ASSUME Cardinality(P) = PageSize
      PROVE  \E a \in F : RankIn(F, a) = o + PageSize - 1
  <2>1. f \in Surjection(P, T)
    BY <1>4, <1>7, <1>9, FS_Injection
  <2>2. o + PageSize - 1 \in T
    BY DEF T
  <2>3. PICK a \in P : f[a] = o + PageSize - 1
    BY <2>1, <2>2 DEF Surjection
  <2> QED
    BY <1>2, <2>3 DEF f
<1>10. ASSUME NEW a \in F, o <= RankIn(F, a), a \notin P
       PROVE  Cardinality(P) = PageSize
  <2>1. o + PageSize <= RankIn(F, a)
    BY <1>1, <1>10 DEF P, PageIn
  <2>2. ASSUME NEW r \in T PROVE \E b \in P : f[b] = r
    <3>1. r \in Nat /\ o <= r /\ r < o + PageSize
      BY DEF T
    <3>2. PICK b \in F : RankIn(F, b) = r
      BY <1>1, <2>1, <3>1, NoRankLeftOut
    <3> QED
      BY <3>1, <3>2 DEF P, PageIn, f
  <2>3. f \in Surjection(P, T)
    BY <1>5, <2>2 DEF Surjection
  <2> QED
    BY <1>4, <1>7, <2>3, FS_Injection
<1> QED
  BY <1>3, <1>8, <1>9, <1>10 DEF P

-----------------------------------------------------------------------------

Overtaken == {a \in steady \ seen : Rank(a) < offset}
PushedOn == {a \in seen \cap firing : offset <= Rank(a)}

UnderWay == counting =>
    /\ firing \subseteq touched
    /\ count = 0
    /\ ~repeats => /\ Cardinality(Overtaken) <= resolves
                   /\ Cardinality(PushedOn) <= fires

IInv == TypeOK /\ UnderWay /\ LimitIsHonest /\ StuckIsHonest

(* All sets of alerts are finite sets of natural numbers.                  *)
LEMMA SetsAreFinite ==
  ASSUME TypeOK
  PROVE  /\ firing \in SUBSET Nat /\ IsFiniteSet(firing)
         /\ steady \in SUBSET Nat /\ IsFiniteSet(steady)
         /\ seen \in SUBSET Nat /\ IsFiniteSet(seen)
         /\ touched \in SUBSET Nat /\ IsFiniteSet(touched)
         /\ IsFiniteSet(Overtaken) /\ Cardinality(Overtaken) \in Nat
         /\ IsFiniteSet(PushedOn) /\ Cardinality(PushedOn) \in Nat
<1>1. /\ firing \subseteq Alerts /\ touched \subseteq Alerts
      /\ steady \subseteq Alerts /\ seen \subseteq Alerts
  BY DEF TypeOK
<1>2. /\ IsFiniteSet(firing) /\ IsFiniteSet(touched)
      /\ IsFiniteSet(steady) /\ IsFiniteSet(seen)
  BY <1>1, AlertsAssumption, FS_Subset
<1>3. Overtaken \subseteq steady /\ PushedOn \subseteq seen
  BY DEF Overtaken, PushedOn
<1>4. IsFiniteSet(Overtaken) /\ IsFiniteSet(PushedOn)
  BY <1>2, <1>3, FS_Subset
<1> QED
  BY <1>1, <1>2, <1>4, AlertsAssumption, FS_CardinalityType

(* Initially nobody counts.                                                *)
LEMMA InitIInv == Init => IInv
<1> SUFFICES ASSUME Init PROVE IInv
  OBVIOUS
<1>1. TypeOK
  <2>1. /\ offset \in 0 .. MaxInstances /\ count \in 0 .. MaxInstances
        /\ fires \in 0 .. MaxChanges /\ resolves \in 0 .. MaxChanges
    BY PagesAssumption, ChangesAssumption DEF Init
  <2>2. outcome \in Outcomes
    BY DEF Init, Outcomes
  <2> QED
    BY <2>1, <2>2, Zenon DEF Init, TypeOK
<1>2. UnderWay /\ LimitIsHonest /\ StuckIsHonest
  BY DEF Init, UnderWay, LimitIsHonest, StuckIsHonest
<1> QED
  BY <1>1, <1>2 DEF IInv

(* At most one alert more is overtaken per alert resolved, namely the one  *)
(* that was first on the page being asked for.                             *)
LEMMA ResolveOvertakes ==
  ASSUME IInv, counting, ~repeats, NEW x \in Alerts, Resolve(x)
  PROVE  Cardinality(Overtaken') <= resolves'
<1>1. /\ firing \in SUBSET Nat /\ IsFiniteSet(firing) /\ x \in firing
      /\ steady \subseteq firing
      /\ IsFiniteSet(Overtaken) /\ Cardinality(Overtaken) \in Nat
      /\ Cardinality(Overtaken) <= resolves
      /\ resolves \in Nat /\ offset \in Nat
  BY SetsAreFinite, PagesAssumption, ChangesAssumption
     DEF IInv, UnderWay, TypeOK, Resolve
<1>2. /\ firing' = firing \ {x} /\ steady' = steady \ {x}
      /\ seen' = seen /\ offset' = offset /\ resolves' = resolves + 1
  BY DEF Resolve
<1>3. \A a \in firing : a \in Nat /\ RankIn(firing, a) \in Nat
  BY <1>1, RankType
<1>4. ASSUME NEW a \in Overtaken'
      PROVE  a \in firing /\ (a \in Overtaken \/ RankIn(firing, a) = offset)
  <2>1. a \in steady /\ a \notin seen /\ a \in firing
    BY <1>1, <1>2 DEF Overtaken
  <2>2. RankIn(firing \ {x}, a) < offset
    BY <1>2 DEF Overtaken, Rank, RankIn
  <2>3. RankIn(firing \ {x}, a) =
          IF x < a THEN RankIn(firing, a) - 1 ELSE RankIn(firing, a)
    BY <1>1, <1>3, <2>1, RankAfterResolve
  <2>4. RankIn(firing, a) < offset \/ RankIn(firing, a) = offset
    BY <1>1, <1>3, <2>1, <2>2, <2>3
  <2> QED
    BY <2>1, <2>4 DEF Overtaken, Rank, RankIn
<1>5. CASE Overtaken' \subseteq Overtaken
  <2>1. Cardinality(Overtaken') <= Cardinality(Overtaken)
        /\ Cardinality(Overtaken') \in Nat
    BY <1>1, <1>5, FS_Subset, FS_CardinalityType
  <2> QED
    BY <1>1, <1>2, <2>1
<1>6. ASSUME NEW c \in Overtaken', c \notin Overtaken
      PROVE  Cardinality(Overtaken') <= resolves'
  <2>1. Overtaken' \subseteq Overtaken \cup {c}
    <3> SUFFICES ASSUME NEW a \in Overtaken', a \notin Overtaken PROVE a = c
      OBVIOUS
    <3>1. a \in firing /\ c \in firing
          /\ RankIn(firing, a) = RankIn(firing, c)
      BY <1>4, <1>6
    <3> QED
      BY <1>1, <3>1, RankInjective
  <2>2. /\ IsFiniteSet(Overtaken \cup {c})
        /\ Cardinality(Overtaken \cup {c}) = Cardinality(Overtaken) + 1
    BY <1>1, <1>6, FS_AddElement
  <2>3. Cardinality(Overtaken') <= Cardinality(Overtaken \cup {c})
        /\ Cardinality(Overtaken') \in Nat
    BY <2>1, <2>2, FS_Subset, FS_CardinalityType
  <2> QED
    BY <1>1, <1>2, <2>2, <2>3
<1> QED
  BY <1>5, <1>6

(* No seen alert is pushed on by one that is resolved.                     *)
LEMMA ResolvePushesNone ==
  ASSUME IInv, counting, ~repeats, NEW x \in Alerts, Resolve(x)
  PROVE  Cardinality(PushedOn') <= fires'
<1>1. /\ firing \in SUBSET Nat /\ IsFiniteSet(firing) /\ x \in firing
      /\ IsFiniteSet(PushedOn) /\ Cardinality(PushedOn) \in Nat
      /\ Cardinality(PushedOn) <= fires
      /\ fires \in Nat /\ offset \in Nat
  BY SetsAreFinite, PagesAssumption, ChangesAssumption
     DEF IInv, UnderWay, TypeOK, Resolve
<1>2. /\ firing' = firing \ {x} /\ fires' = fires
      /\ seen' = seen /\ offset' = offset
  BY DEF Resolve
<1>3. \A a \in firing : a \in Nat /\ RankIn(firing, a) \in Nat
  BY <1>1, RankType
<1>4. ASSUME NEW a \in PushedOn' PROVE a \in PushedOn
  <2>1. a \in seen /\ a \in firing
    BY <1>2 DEF PushedOn
  <2>2. offset <= RankIn(firing \ {x}, a)
    BY <1>2 DEF PushedOn, Rank, RankIn
  <2>3. RankIn(firing \ {x}, a) =
          IF x < a THEN RankIn(firing, a) - 1 ELSE RankIn(firing, a)
    BY <1>1, <1>3, <2>1, RankAfterResolve
  <2>4. offset <= RankIn(firing, a)
    BY <1>1, <1>3, <2>1, <2>2, <2>3
  <2> QED
    BY <2>1, <2>4 DEF PushedOn, Rank, RankIn
<1>5. Cardinality(PushedOn') <= Cardinality(PushedOn)
      /\ Cardinality(PushedOn') \in Nat
  BY <1>1, <1>4, FS_Subset, FS_CardinalityType
<1> QED
  BY <1>1, <1>2, <1>5

(* No alert that fires is overtaken: it only adds to the ranks.            *)
LEMMA FireOvertakesNone ==
  ASSUME IInv, counting, ~repeats, NEW x \in Alerts, Fire(x)
  PROVE  Cardinality(Overtaken') <= resolves'
<1>1. /\ firing \in SUBSET Nat /\ IsFiniteSet(firing) /\ x \in Nat \ firing
      /\ steady \subseteq firing
      /\ IsFiniteSet(Overtaken) /\ Cardinality(Overtaken) \in Nat
      /\ Cardinality(Overtaken) <= resolves
      /\ resolves \in Nat /\ offset \in Nat
  BY SetsAreFinite, AlertsAssumption, PagesAssumption, ChangesAssumption
     DEF IInv, UnderWay, TypeOK, Fire
<1>2. /\ firing' = firing \cup {x} /\ steady' = steady /\ resolves' = resolves
      /\ seen' = seen /\ offset' = offset
  BY DEF Fire
<1>3. \A a \in firing : a \in Nat /\ RankIn(firing, a) \in Nat
  BY <1>1, RankType
<1>4. ASSUME NEW a \in Overtaken' PROVE a \in Overtaken
  <2>1. a \in steady /\ a \notin seen /\ a \in firing
    BY <1>1, <1>2 DEF Overtaken
  <2>2. RankIn(firing \cup {x}, a) < offset
    BY <1>2 DEF Overtaken, Rank, RankIn
  <2>3. RankIn(firing \cup {x}, a) =
          IF x < a THEN RankIn(firing, a) + 1 ELSE RankIn(firing, a)
    BY <1>1, <1>3, <2>1, RankAfterFire
  <2>4. RankIn(firing, a) < offset
    BY <1>1, <1>3, <2>1, <2>2, <2>3
  <2> QED
    BY <2>1, <2>4 DEF Overtaken, Rank, RankIn
<1>5. Cardinality(Overtaken') <= Cardinality(Overtaken)
      /\ Cardinality(Overtaken') \in Nat
  BY <1>1, <1>4, FS_Subset, FS_CardinalityType
<1> QED
  BY <1>1, <1>2, <1>5

(* At most one alert more is pushed on per alert that fires: the seen one  *)
(* that was the last before the offset, or the new one, should it have     *)
(* fired, been seen and been resolved before.                              *)
LEMMA FirePushes ==
  ASSUME IInv, counting, ~repeats, NEW x \in Alerts, Fire(x)
  PROVE  Cardinality(PushedOn') <= fires'
<1> DEFINE F == firing \cup {x}
<1>1. /\ firing \in SUBSET Nat /\ IsFiniteSet(firing) /\ x \in Nat \ firing
      /\ IsFiniteSet(PushedOn) /\ Cardinality(PushedOn) \in Nat
      /\ Cardinality(PushedOn) <= fires
      /\ fires \in Nat /\ offset \in Nat
  BY SetsAreFinite, AlertsAssumption, PagesAssumption, ChangesAssumption
     DEF IInv, UnderWay, TypeOK, Fire
<1>2. /\ firing' = F /\ fires' = fires + 1
      /\ seen' = seen /\ offset' = offset
  BY DEF Fire
<1>3. F \in SUBSET Nat /\ IsFiniteSet(F)
  BY <1>1, FS_AddElement
<1>4. \A a \in firing : a \in Nat /\ RankIn(firing, a) \in Nat
  BY <1>1, RankType
<1>5. \A a \in F : a \in Nat /\ RankIn(F, a) \in Nat
  BY <1>3, RankType
<1>6. \A a \in firing :
        RankIn(F, a) = IF x < a THEN RankIn(firing, a) + 1 ELSE RankIn(firing, a)
  BY <1>1, <1>4, RankAfterFire
<1> HIDE DEF F
<1>7. ASSUME NEW a \in PushedOn', a \notin PushedOn, a # x
      PROVE  a \in firing /\ x < a /\ RankIn(F, a) = offset
  <2>1. a \in seen /\ a \in firing
    BY <1>2, <1>7 DEF PushedOn, F
  <2>2. offset <= RankIn(F, a)
    BY <1>2 DEF PushedOn, Rank, RankIn
  <2>3. ~(offset <= RankIn(firing, a))
    BY <1>7, <2>1 DEF PushedOn, Rank, RankIn
  <2> QED
    BY <1>1, <1>4, <1>6, <2>1, <2>2, <2>3
<1>8. ASSUME NEW a \in PushedOn', a \notin PushedOn,
             NEW c \in PushedOn', c \notin PushedOn
      PROVE  a = c
  <2>1. /\ a \in F /\ c \in F
        /\ offset <= RankIn(F, a) /\ offset <= RankIn(F, c)
    BY <1>2 DEF PushedOn, Rank, RankIn
  <2>2. x \in F
    BY DEF F
  <2>3. CASE a # x /\ c # x
    <3>1. RankIn(F, a) = RankIn(F, c)
      BY <1>7, <1>8, <2>3
    <3> QED
      BY <1>3, <2>1, <3>1, RankInjective
  <2>4. ASSUME NEW b \in PushedOn', b \notin PushedOn, b # x,
               offset <= RankIn(F, x)
        PROVE  FALSE
    <3>1. b \in firing /\ x < b /\ RankIn(F, b) = offset
      BY <1>7, <2>4
    <3>2. RankIn(F, x) < RankIn(F, b)
      BY <1>1, <1>3, <1>4, <2>2, <3>1, RankOrder
    <3> QED
      BY <1>1, <1>5, <2>2, <2>4, <3>1, <3>2
  <2> QED
    BY <1>8, <2>1, <2>3, <2>4
<1>9. CASE PushedOn' \subseteq PushedOn
  <2>1. Cardinality(PushedOn') <= Cardinality(PushedOn)
        /\ Cardinality(PushedOn') \in Nat
    BY <1>1, <1>9, FS_Subset, FS_CardinalityType
  <2> QED
    BY <1>1, <1>2, <2>1
<1>10. ASSUME NEW c \in PushedOn', c \notin PushedOn
       PROVE  Cardinality(PushedOn') <= fires'
  <2>1. PushedOn' \subseteq PushedOn \cup {c}
    BY <1>8, <1>10
  <2>2. /\ IsFiniteSet(PushedOn \cup {c})
        /\ Cardinality(PushedOn \cup {c}) = Cardinality(PushedOn) + 1
    BY <1>1, <1>10, FS_AddElement
  <2>3. Cardinality(PushedOn') <= Cardinality(PushedOn \cup {c})
        /\ Cardinality(PushedOn') \in Nat
    BY <2>1, <2>2, FS_Subset, FS_CardinalityType
  <2> QED
    BY <1>1, <1>2, <2>2, <2>3
<1> QED
  BY <1>9, <1>10

-----------------------------------------------------------------------------

(* The page the Hub answers with: what PageBounds says of it.              *)
LEMMA PageRead ==
  ASSUME IInv, counting
  PROVE  /\ Page \subseteq firing /\ Read \subseteq touched
         /\ IsFiniteSet(Page) /\ Cardinality(Page) \in Nat
         /\ IsFiniteSet(Read) /\ Cardinality(Read) \in Nat
         /\ FullPage /\ ~repeats
              => \E a \in firing : Rank(a) = offset + PageSize - 1
         /\ ~FullPage /\ ~repeats
              => \A a \in firing : offset <= Rank(a) => a \in Page
         /\ ~FullPage /\ repeats => firing = Page
<1> DEFINE o == IF repeats THEN 0 ELSE offset
<1>1. /\ firing \in SUBSET Nat /\ IsFiniteSet(firing)
      /\ IsFiniteSet(touched) /\ o \in Nat
      /\ firing \subseteq touched /\ seen \subseteq touched
  BY SetsAreFinite, PagesAssumption DEF IInv, UnderWay, TypeOK
<1>2. Page = PageIn(firing, o)
  BY DEF Page, PageAt, PageIn, Rank, RankIn
<1> HIDE DEF o
<1>3. /\ IsFiniteSet(Page)
      /\ Cardinality(Page) \in 0 .. PageSize
      /\ FullPage => \E a \in firing : RankIn(firing, a) = o + PageSize - 1
      /\ ~FullPage => \A a \in firing : o <= RankIn(firing, a) => a \in Page
  BY <1>1, <1>2, PageBounds DEF FullPage
<1>4. Page \subseteq firing /\ Read \subseteq touched
  BY <1>1, <1>2 DEF PageIn, Read
<1>5. IsFiniteSet(Read) /\ Cardinality(Read) \in Nat
  BY <1>1, <1>4, FS_Subset, FS_CardinalityType
<1>6. ~FullPage /\ repeats => firing = Page
  <2> SUFFICES ASSUME ~FullPage, repeats, NEW a \in firing PROVE a \in Page
    BY <1>4
  <2>1. a \in Nat /\ RankIn(firing, a) \in Nat /\ o = 0
    BY <1>1, RankType DEF o
  <2> QED
    BY <1>3, <2>1
<1>7. Cardinality(Page) \in Nat
  BY <1>3, PagesAssumption
<1>8. ~repeats => o = offset
  BY DEF o
<1> QED
  BY <1>3, <1>4, <1>5, <1>6, <1>7, <1>8 DEF Rank, RankIn

-----------------------------------------------------------------------------

(* An alert that fires keeps the invariant.                                *)
LEMMA FireKeeps ==
  ASSUME IInv, NEW x \in Alerts, Fire(x)
  PROVE  IInv'
<1>1. TypeOK'
  <2>1. fires' \in 0 .. MaxChanges
    BY ChangesAssumption DEF IInv, TypeOK, Fire, MayChange
  <2> QED
    BY <2>1, Zenon DEF IInv, TypeOK, UnderWay, Fire
<1>2. UnderWay'
  <2> SUFFICES ASSUME counting' PROVE UnderWay'
    BY DEF UnderWay
  <2>1. counting /\ firing' \subseteq touched' /\ count' = 0 /\ repeats' = repeats
    BY DEF IInv, UnderWay, Fire
  <2> QED
    BY <2>1, FireOvertakesNone, FirePushes DEF UnderWay
<1>3. LimitIsHonest'
  <2>1. touched \subseteq touched' /\ IsFiniteSet(touched') /\ IsFiniteSet(touched)
    BY <1>1, AlertsAssumption, FS_Subset DEF Fire, TypeOK, IInv
  <2>2. /\ Cardinality(touched) <= Cardinality(touched')
        /\ Cardinality(touched) \in Nat /\ Cardinality(touched') \in Nat
    BY <2>1, FS_Subset, FS_CardinalityType
  <2> QED
    BY <2>2, PagesAssumption DEF IInv, LimitIsHonest, Fire
<1>4. StuckIsHonest'
  BY PagesAssumption, ChangesAssumption DEF IInv, TypeOK, StuckIsHonest, Fire
<1> QED
  BY <1>1, <1>2, <1>3, <1>4 DEF IInv

(* So does one that is resolved.                                           *)
LEMMA ResolveKeeps ==
  ASSUME IInv, NEW x \in Alerts, Resolve(x)
  PROVE  IInv'
<1>1. TypeOK'
  <2>1. resolves' \in 0 .. MaxChanges
    BY ChangesAssumption DEF IInv, TypeOK, Resolve, MayChange
  <2> QED
    BY <2>1, Zenon DEF IInv, TypeOK, UnderWay, Resolve
<1>2. UnderWay'
  <2> SUFFICES ASSUME counting' PROVE UnderWay'
    BY DEF UnderWay
  <2>1. counting /\ firing' \subseteq touched' /\ count' = 0 /\ repeats' = repeats
    BY DEF IInv, UnderWay, Resolve
  <2> QED
    BY <2>1, ResolveOvertakes, ResolvePushesNone DEF UnderWay
<1>3. LimitIsHonest' /\ StuckIsHonest'
  BY DEF IInv, LimitIsHonest, StuckIsHonest, Resolve
<1> QED
  BY <1>1, <1>2, <1>3 DEF IInv

(* A count begins with nothing seen and nothing before its offset.         *)
LEMMA BeginKeeps ==
  ASSUME IInv, Begin
  PROVE  IInv'
<1>1. TypeOK'
  <2>1. /\ offset' \in 0 .. MaxInstances /\ count' \in 0 .. MaxInstances
        /\ fires' \in 0 .. MaxChanges /\ resolves' \in 0 .. MaxChanges
    BY PagesAssumption, ChangesAssumption DEF Begin
  <2>2. outcome' \in Outcomes
    BY DEF Begin, Outcomes
  <2> QED
    BY <2>1, <2>2, Zenon DEF IInv, TypeOK, Begin
<1>2. firing \in SUBSET Nat /\ IsFiniteSet(firing)
  BY SetsAreFinite DEF IInv
<1>3. Overtaken' = {}
  <2> SUFFICES ASSUME NEW a \in firing, RankIn(firing, a) < 0 PROVE FALSE
    BY DEF Overtaken, Rank, RankIn, Begin
  <2>1. a \in Nat /\ RankIn(firing, a) \in Nat
    BY <1>2, RankType
  <2> QED
    BY <2>1
<1>4. PushedOn' = {}
  BY DEF PushedOn, Begin
<1>5. UnderWay'
  <2>1. firing' \subseteq touched' /\ count' = 0 /\ resolves' = 0 /\ fires' = 0
    BY DEF Begin
  <2>2. Cardinality(Overtaken') = 0 /\ Cardinality(PushedOn') = 0
    BY <1>3, <1>4, FS_EmptySet
  <2> QED
    BY <2>1, <2>2 DEF UnderWay
<1>6. LimitIsHonest' /\ StuckIsHonest'
  BY DEF LimitIsHonest, StuckIsHonest, Begin
<1> QED
  BY <1>1, <1>5, <1>6 DEF IInv

(* A full page that brings something new moves the offset behind it:       *)
(* nothing unseen is left before the new offset that was not overtaken,    *)
(* and nothing of the page lies beyond it.                                 *)
LEMMA NextPageKeeps ==
  ASSUME IInv, NextPage
  PROVE  IInv'
<1>1. /\ counting /\ FullPage /\ offset' = offset + PageSize /\ seen' = Read
      /\ Read = seen \cup Page
      /\ Read \subseteq touched /\ Page \subseteq firing
      /\ UNCHANGED <<firing, repeats, counting, outcome, count, history>>
      /\ offset + PageSize <= MaxInstances
  BY PageRead DEF NextPage, Read
<1>2. TypeOK'
  <2>1. offset' \in 0 .. MaxInstances
    BY <1>1, PagesAssumption DEF IInv, TypeOK
  <2> QED
    BY <1>1, <2>1, Zenon DEF IInv, TypeOK, history
<1>3. UnderWay'
  <2> SUFFICES ASSUME ~repeats
               PROVE  /\ Cardinality(Overtaken') <= resolves'
                      /\ Cardinality(PushedOn') <= fires'
    BY <1>1 DEF IInv, UnderWay, history
  <2>1. /\ IsFiniteSet(Overtaken) /\ Cardinality(Overtaken) \in Nat
        /\ IsFiniteSet(PushedOn) /\ Cardinality(PushedOn) \in Nat
        /\ Cardinality(Overtaken) <= resolves
        /\ Cardinality(PushedOn) <= fires
        /\ firing \in SUBSET Nat /\ IsFiniteSet(firing)
        /\ steady \subseteq firing
        /\ resolves \in Nat /\ fires \in Nat /\ offset \in Nat
    BY <1>1, SetsAreFinite, PagesAssumption, ChangesAssumption
       DEF IInv, UnderWay, TypeOK
  <2>2. \A a \in firing : a \in Nat /\ Rank(a) \in Nat
    BY <2>1, RankType DEF Rank, RankIn
  <2>3. \A a \in firing : a \in Page <=> offset <= Rank(a) /\ Rank(a) < offset + PageSize
    BY DEF Page, PageAt
  <2>4. /\ Overtaken' = {a \in steady \ Read : Rank(a) < offset + PageSize}
        /\ PushedOn' = {a \in Read \cap firing : offset + PageSize <= Rank(a)}
    BY <1>1 DEF Overtaken, PushedOn, Rank, history
  <2>5. Overtaken' \subseteq Overtaken
    <3> SUFFICES ASSUME NEW a \in steady, a \notin Read, Rank(a) < offset + PageSize
                 PROVE  a \notin seen /\ Rank(a) < offset
      BY <2>4 DEF Overtaken
    <3>1. a \notin seen /\ a \notin Page
      BY DEF Read
    <3> QED
      BY <2>1, <2>2, <2>3, <3>1
  <2>6. PushedOn' \subseteq PushedOn
    <3> SUFFICES ASSUME NEW a \in Read, a \in firing, offset + PageSize <= Rank(a)
                 PROVE  a \in seen /\ offset <= Rank(a)
      BY <2>4 DEF PushedOn
    <3>1. a \notin Page /\ offset <= Rank(a)
      BY <2>1, <2>2, <2>3, PagesAssumption
    <3> QED
      BY <3>1 DEF Read
  <2>7. /\ Cardinality(Overtaken') <= Cardinality(Overtaken)
        /\ Cardinality(PushedOn') <= Cardinality(PushedOn)
        /\ Cardinality(Overtaken') \in Nat /\ Cardinality(PushedOn') \in Nat
    BY <2>1, <2>5, <2>6, FS_Subset, FS_CardinalityType
  <2> QED
    BY <1>1, <2>1, <2>7 DEF history
<1>4. LimitIsHonest' /\ StuckIsHonest'
  BY <1>1 DEF IInv, LimitIsHonest, StuckIsHonest, history
<1> QED
  BY <1>2, <1>3, <1>4 DEF IInv

-----------------------------------------------------------------------------

(* A count that ends in any way forgets what it has seen.                  *)
LEMMA EndKeeps ==
  ASSUME IInv, NEW result \in Outcomes, NEW n \in 0 .. MaxInstances,
         End(result, n)
  PROVE  TypeOK' /\ UnderWay'
<1>1. offset' \in 0 .. MaxInstances
  BY PagesAssumption DEF End
<1>2. TypeOK'
  BY <1>1, Zenon DEF IInv, TypeOK, End, history
<1>3. UnderWay'
  BY DEF UnderWay, End
<1> QED
  BY <1>2, <1>3

(* What a last page means: nobody was counted twice, and whoever fired all *)
(* along was seen, is on the page, or was overtaken.                       *)
LEMMA LastPageBounds ==
  ASSUME IInv, LastPage
  PROVE  /\ Cardinality(Read) \in 0 .. MaxInstances
         /\ Cardinality(Read) <= Cardinality(touched)
         /\ Cardinality(steady) - resolves <= Cardinality(Read)
<1>1. counting /\ ~TooMany /\ ~FullPage
  BY DEF LastPage, End
<1>2. /\ Read \subseteq touched /\ IsFiniteSet(Read) /\ Cardinality(Read) \in Nat
      /\ ~repeats => \A a \in firing : offset <= Rank(a) => a \in Page
      /\ repeats => firing = Page
  BY <1>1, PageRead
<1>3. /\ firing \in SUBSET Nat /\ IsFiniteSet(firing)
      /\ IsFiniteSet(steady) /\ IsFiniteSet(touched) /\ steady \subseteq firing
      /\ IsFiniteSet(Overtaken) /\ Cardinality(Overtaken) \in Nat
      /\ ~repeats => Cardinality(Overtaken) <= resolves
      /\ resolves \in Nat /\ offset \in Nat
  BY <1>1, SetsAreFinite, PagesAssumption, ChangesAssumption
     DEF IInv, UnderWay, TypeOK
<1>4. Cardinality(Read) <= Cardinality(touched) /\ Cardinality(touched) \in Nat
  BY <1>2, <1>3, FS_Subset, FS_CardinalityType
<1>5. Cardinality(Read) \in 0 .. MaxInstances
  BY <1>1, <1>2, PagesAssumption DEF TooMany
<1> DEFINE missed == steady \ Read
<1>6. Cardinality(missed) \in Nat /\ Cardinality(missed) <= resolves
  <2>1. CASE repeats
    <3>1. missed = {}
      BY <1>2, <1>3, <2>1 DEF Read
    <3> QED
      BY <1>3, <3>1, FS_EmptySet
  <2>2. CASE ~repeats
    <3>1. missed \subseteq Overtaken
      <4> SUFFICES ASSUME NEW a \in steady, a \notin Read
                   PROVE  a \notin seen /\ Rank(a) < offset
        BY DEF Overtaken
      <4>1. a \in firing /\ a \notin seen /\ a \notin Page
        BY <1>3 DEF Read
      <4>2. Rank(a) \in Nat
        BY <1>3, <4>1, RankType DEF Rank, RankIn
      <4> QED
        BY <1>2, <1>3, <2>2, <4>1, <4>2
    <3>2. Cardinality(missed) <= Cardinality(Overtaken)
          /\ Cardinality(missed) \in Nat
      BY <1>3, <3>1, FS_Subset, FS_CardinalityType
    <3> QED
      BY <1>3, <2>2, <3>2
  <2> QED
    BY <2>1, <2>2
<1>7. /\ Cardinality(missed) = Cardinality(steady) - Cardinality(steady \cap Read)
      /\ Cardinality(steady) \in Nat
  BY <1>3, FS_Difference, FS_CardinalityType
<1>8. Cardinality(steady \cap Read) <= Cardinality(Read)
      /\ Cardinality(steady \cap Read) \in Nat
  BY <1>2, <1>3, FS_Intersection, FS_CardinalityType
<1> HIDE DEF missed
<1> QED
  BY <1>2, <1>3, <1>4, <1>5, <1>6, <1>7, <1>8

(* When the limit is exceeded, that many alerts have fired: all that were  *)
(* read, or the last one on the page and all before it.                    *)
LEMMA ExceedsTheLimit ==
  ASSUME IInv, Exceed, ~repeats
  PROVE  Cardinality(touched) > MaxInstances
<1>1. /\ counting /\ Read \subseteq touched /\ Cardinality(Read) \in Nat
      /\ IsFiniteSet(touched) /\ Cardinality(touched) \in Nat
      /\ firing \subseteq touched /\ firing \in SUBSET Nat
      /\ IsFiniteSet(firing) /\ offset \in Nat
  BY PagesAssumption, PageRead, SetsAreFinite, FS_CardinalityType
     DEF Exceed, End, IInv, UnderWay, TypeOK
<1>2. CASE TooMany
  <2>1. Cardinality(Read) <= Cardinality(touched)
    BY <1>1, FS_Subset
  <2> QED
    BY <1>1, <1>2, <2>1, PagesAssumption DEF TooMany
<1>3. CASE FullPage /\ offset + PageSize > MaxInstances
  <2>1. PICK a \in firing : Rank(a) = offset + PageSize - 1
    BY <1>1, <1>3, PageRead
  <2> DEFINE before == {b \in firing : b < a}
  <2>2. IsFiniteSet(before) /\ before \subseteq firing /\ a \in Nat
    BY <1>1, RankType
  <2>3. a \notin before
    BY <2>2
  <2>4. Cardinality(before) = offset + PageSize - 1
    BY <2>1 DEF Rank
  <2> HIDE DEF before
  <2>5. Cardinality(before \cup {a}) = offset + PageSize
    <3>1. Cardinality(before \cup {a}) = Cardinality(before) + 1
      BY <2>2, <2>3, FS_AddElement
    <3> QED
      BY <1>1, <2>4, <3>1, PagesAssumption
  <2>6. before \cup {a} \subseteq touched
    BY <1>1, <2>2
  <2>7. Cardinality(before \cup {a}) <= Cardinality(touched)
    BY <1>1, <2>6, FS_Subset
  <2> QED
    BY <1>1, <1>3, <2>5, <2>7, PagesAssumption
<1> QED
  BY <1>2, <1>3 DEF Exceed

(* However a request ends, the invariant is kept.                          *)
LEMMA RequestKeeps ==
  ASSUME IInv, RequestEnds
  PROVE  IInv'
<1> USE PagesAssumption, ChangesAssumption
<1>0. "counted" \in Outcomes /\ "failed" \in Outcomes
      /\ "exceeded" \in Outcomes /\ "stuck" \in Outcomes
      /\ 0 \in 0 .. MaxInstances
  BY DEF Outcomes
<1>1. CASE LastPage
  <2>1. TypeOK' /\ UnderWay'
    BY <1>0, <1>1, LastPageBounds, EndKeeps DEF LastPage
  <2>2. LimitIsHonest' /\ StuckIsHonest'
    BY <1>1 DEF LastPage, End, LimitIsHonest, StuckIsHonest
  <2> QED
    BY <2>1, <2>2 DEF IInv
<1>2. CASE NextPage
  BY <1>2, NextPageKeeps
<1>3. CASE Exceed
  <2>1. TypeOK' /\ UnderWay'
    BY <1>0, <1>3, EndKeeps DEF Exceed
  <2>2. LimitIsHonest'
    BY <1>3, ExceedsTheLimit DEF Exceed, End, LimitIsHonest, history
  <2>3. StuckIsHonest'
    BY <1>3 DEF Exceed, End, StuckIsHonest
  <2> QED
    BY <2>1, <2>2, <2>3 DEF IInv
<1>4. CASE NoProgress
  <2>1. TypeOK' /\ UnderWay'
    BY <1>0, <1>4, EndKeeps DEF NoProgress
  <2>2. StuckIsHonest'
    <3> SUFFICES ASSUME ~repeats PROVE fires >= PageSize
      BY <1>4 DEF NoProgress, End, StuckIsHonest, history
    <3>1. /\ counting /\ Page \subseteq seen /\ Page \subseteq firing
          /\ Cardinality(Page) = PageSize
      BY <1>4, PageRead DEF NoProgress, End, Read, FullPage
    <3>2. /\ IsFiniteSet(PushedOn) /\ Cardinality(PushedOn) \in Nat
          /\ Cardinality(PushedOn) <= fires /\ fires \in Nat
      BY <3>1, SetsAreFinite DEF IInv, UnderWay, TypeOK
    <3>3. Page \subseteq PushedOn
      BY <3>1 DEF Page, PageAt, PushedOn
    <3>4. Cardinality(Page) <= Cardinality(PushedOn)
      BY <3>2, <3>3, FS_Subset
    <3> QED
      BY <3>1, <3>2, <3>4
  <2>3. LimitIsHonest'
    BY <1>4 DEF NoProgress, End, LimitIsHonest
  <2> QED
    BY <2>1, <2>2, <2>3 DEF IInv
<1>5. CASE RequestFails
  <2>1. TypeOK' /\ UnderWay'
    BY <1>0, <1>5, EndKeeps DEF RequestFails
  <2>2. LimitIsHonest' /\ StuckIsHonest'
    BY <1>5 DEF RequestFails, End, LimitIsHonest, StuckIsHonest
  <2> QED
    BY <2>1, <2>2 DEF IInv
<1> QED
  BY <1>1, <1>2, <1>3, <1>4, <1>5 DEF RequestEnds

(* Every step keeps the strengthened invariant.                            *)
LEMMA IInvStep == IInv /\ [Next]_vars => IInv'
<1> SUFFICES ASSUME IInv, [Next]_vars PROVE IInv'
  OBVIOUS
<1>1. CASE UNCHANGED vars
  BY <1>1, Zenon DEF vars, history, IInv, TypeOK, UnderWay, LimitIsHonest,
     StuckIsHonest, Overtaken, PushedOn, Rank
<1> QED
  BY <1>1, FireKeeps, ResolveKeeps, BeginKeeps, RequestKeeps DEF Next

(* The strengthened invariant holds in every reachable state.              *)
THEOREM Invariance == Spec => []IInv
  BY InitIInv, IInvStep, PTL DEF Spec

(* Every variable keeps its type: the count sees only what fired meanwhile *)
(* and never asks beyond MAX_ALERT_INSTANCES (api.py:384).                 *)
THEOREM TypeCorrect == Spec => []TypeOK
<1>1. IInv => TypeOK
  BY DEF IInv
<1> QED
  BY <1>1, Invariance, PTL

(* "exceeded its safety limit" is said only of a Hub that had more alerts  *)
(* than the limit, or that does not page (api.py:384, 402-408).            *)
THEOREM ExceededIsTrue == Spec => []LimitIsHonest
<1>1. IInv => LimitIsHonest
  BY DEF IInv
<1> QED
  BY <1>1, Invariance, PTL

(* "made no progress" is said only of a Hub that does not page, or where a *)
(* page of alerts fired during the count (api.py:406-407).                 *)
THEOREM NoProgressIsTrue == Spec => []StuckIsHonest
<1>1. IInv => StuckIsHonest
  BY DEF IInv
<1> QED
  BY <1>1, Invariance, PTL

-----------------------------------------------------------------------------

(* AlertCount takes Cardinality from an instance of FiniteSets of its own. *)
LEMMA SameCardinality ==
  ASSUME NEW S
  PROVE  Promise!Cardinality(S) = Cardinality(S)
BY DEF Cardinality, Promise!Cardinality, IsFiniteSet, Promise!IsFiniteSet

(* The count is as good as AlertCount promises: each page but the last     *)
(* stutters, the last one is its Answer (api.py:381-408).                  *)
THEOREM Refinement == Spec => ImplementsCount
<1>1. Init => Promise!Init
  BY DEF Init, Promise!Init
<1>2. ASSUME IInv, [Next]_vars PROVE [Promise!Next]_(Promise!vars)
  <2> USE DEF Promise!vars, vars, history
  <2>1. ASSUME NEW a \in Alerts, Fire(a) PROVE Promise!Next
    BY <2>1 DEF Fire, Promise!Fire, Promise!Next
  <2>2. ASSUME NEW a \in Alerts, Resolve(a) PROVE Promise!Next
    BY <2>2 DEF Resolve, Promise!Resolve, Promise!Next
  <2>3. CASE Begin
    BY <2>3 DEF Begin, Promise!Begin, Promise!Next
  <2>4. CASE LastPage
    <3>1. /\ Cardinality(Read) <= Cardinality(touched)
          /\ Cardinality(steady) - resolves <= Cardinality(Read)
          /\ Cardinality(Read) \in 0 .. Cardinality(Alerts)
      <4>1. /\ Read \subseteq Alerts /\ Cardinality(Read) \in Nat
        BY <1>2, <2>4, PageRead DEF LastPage, End, IInv, TypeOK
      <4>2. /\ Cardinality(Read) <= Cardinality(Alerts)
            /\ Cardinality(Alerts) \in Nat
        BY <4>1, AlertsAssumption, FS_Subset, FS_CardinalityType
      <4> QED
        BY <1>2, <2>4, <4>1, <4>2, LastPageBounds
    <3>2. Promise!Answer(Cardinality(Read))
      BY <2>4, <3>1, SameCardinality DEF LastPage, End, Promise!Answer
    <3> QED
      BY <3>1, <3>2, SameCardinality DEF Promise!Next
  <2>5. CASE NextPage
    BY <2>5 DEF NextPage
  <2>6. CASE Exceed \/ NoProgress \/ RequestFails
    <3>1. counting /\ count = 0
      BY <1>2, <2>6 DEF Exceed, NoProgress, RequestFails, End, IInv, UnderWay
    <3>2. Promise!Fail
      BY <2>6, <3>1 DEF Exceed, NoProgress, RequestFails, End, Promise!Fail
    <3> QED
      BY <3>2 DEF Promise!Next
  <2>7. CASE UNCHANGED vars
    BY <2>7
  <2> QED
    BY <1>2, <2>1, <2>2, <2>3, <2>4, <2>5, <2>6, <2>7 DEF Next, RequestEnds
<1> QED
  BY <1>1, <1>2, Invariance, PTL DEF Spec, ImplementsCount, Promise!CountSpec

=============================================================================

--------------------------- MODULE AnalyzerProofs ---------------------------
(***************************************************************************)
(* The safety properties of Analyzer, for any size of the image, strides,  *)
(* interval and durations.  IInv is inductive: CounterInv ties the counter *)
(* of an extent to the rounds that went against its pool, PlacementInv     *)
(* ties the lists of a round to the map they were built from, BudgetInv    *)
(* ties the length of a round to its budget, and StopInv counts what the   *)
(* two loops can still do once the image is being closed.                  *)
(***************************************************************************)
EXTENDS Analyzer, TLAPS, FiniteSetTheorems, WellFoundedInduction

(* Helpers.                                                                *)

LEMMA ModSmall == ASSUME NEW a \in Nat, NEW n \in Nat, a < n PROVE a % n = a
  OBVIOUS

LEMMA ModRange == ASSUME NEW a \in Int, NEW n \in Nat, n > 0 PROVE a % n \in 0 .. n - 1
  OBVIOUS

LEMMA FirstOfSubset == ASSUME NEW S, NEW n PROVE FirstOf(S, n) \subseteq S
  BY DEF FirstOf

LEMMA ExtentsFinite == ASSUME NEW S \in SUBSET Extent PROVE IsFiniteSet(S) /\ Cardinality(S) \in Nat
<1>1. IsFiniteSet(Extent)
  BY SizeAssumption, FS_Interval DEF Extent
<1> QED BY <1>1, FS_Subset, FS_CardinalityType

\* The place of e in the list is the number of those before it: two extents have
\* different places, so that no more than n have one of the first n.
LEMMA FirstOfBounded ==
  ASSUME NEW S \in SUBSET Extent, NEW n \in Nat
  PROVE  Cardinality(FirstOf(S, n)) <= n
<1> DEFINE Before(e) == {f \in S : f < e}
           F == FirstOf(S, n)
           place == [e \in F |-> Cardinality(Before(e))]
<1>1. \A e \in S : Before(e) \in SUBSET Extent /\ e \in Int
  <2>1. \A e \in S : e \in Int
    BY SizeAssumption DEF Extent
  <2> QED BY <2>1
<1>2. \A e \in S : IsFiniteSet(Before(e)) /\ Cardinality(Before(e)) \in Nat
  BY <1>1, ExtentsFinite
<1>3. \A e \in F : e \in S /\ Cardinality(Before(e)) \in 0 .. n - 1
  BY <1>2 DEF FirstOf
<1>4. ASSUME NEW e \in S, NEW g \in S, e < g
      PROVE  Cardinality(Before(e)) # Cardinality(Before(g))
  <2>1. Before(e) \in SUBSET Before(g) /\ e \in Before(g) /\ e \notin Before(e)
    BY <1>1, <1>4
  <2> QED BY <1>2, <2>1, FS_Subset
<1>5. \A e, g \in F : place[e] = place[g] => e = g
  <2> SUFFICES ASSUME NEW e \in F, NEW g \in F, e # g
               PROVE  Cardinality(Before(e)) # Cardinality(Before(g))
    OBVIOUS
  <2>1. e \in Int /\ g \in Int /\ e \in S /\ g \in S
    BY <1>1, <1>3
  <2>2. e < g \/ g < e
    BY <2>1
  <2> QED BY <1>4, <2>1, <2>2
<1>6. place \in Injection(F, 0 .. n - 1)
  <2>1. place \in [F -> 0 .. n - 1]
    BY <1>3
  <2> QED BY <1>5, <2>1 DEF Injection, IsInjective
<1>7. IsFiniteSet(0 .. n - 1) /\ Cardinality(0 .. n - 1) = n
  BY FS_Interval
<1> HIDE DEF place, F
<1>8. Cardinality(F) <= Cardinality(0 .. n - 1)
  BY <1>6, <1>7, FS_Injection
<1> QED BY <1>7, <1>8 DEF F

LEMMA SmallestExtent ==
  ASSUME NEW S \in SUBSET Extent, S # {}
  PROVE  \E e \in S : \A f \in S : e <= f
<1> DEFINE Less == OpToRel(<, Nat)
<1>1. IsWellFoundedOn(Less, Nat)
  BY NatLessThanWellFounded
<1>2. S \subseteq Nat
  BY SizeAssumption DEF Extent
<1>3. \A m, n \in Nat : m < n => <<m, n>> \in Less
  BY DEF OpToRel
<1> HIDE DEF Less
<1>4. PICK e \in S : \A f \in S : ~(<<f, e>> \in Less)
  BY <1>1, <1>2, WFMin
<1>5. ASSUME NEW f \in S PROVE e <= f
  <2>1. e \in Nat /\ f \in Nat /\ ~(<<f, e>> \in Less)
    BY <1>2, <1>4
  <2>2. ~(f < e)
    BY <1>3, <2>1
  <2> QED BY <2>1, <2>2
<1> QED BY <1>5

LEMMA FirstOfNonEmpty ==
  ASSUME NEW S \in SUBSET Extent, S # {}, NEW n \in Nat, n > 0
  PROVE  FirstOf(S, n) # {}
<1>1. PICK e \in S : \A f \in S : e <= f
  BY SmallestExtent
<1>2. {f \in S : f < e} = {}
  <2>1. \A f \in S : f \in Int
    BY SizeAssumption DEF Extent
  <2> QED BY <1>1, <2>1
<1>3. Cardinality({f \in S : f < e}) = 0
  BY <1>2, FS_EmptySet
<1> QED BY <1>3 DEF FirstOf

-----------------------------------------------------------------------------
(* Every action preserves the invariant.                                   *)

LEMMA PacePreserves == ASSUME IInv, Pace PROVE IInv'
<1>1. TypeOK'
  <2>1. maxMigrationNum' \in 0 .. UINT - 1
    BY BudgetAssumption, ModRange DEF IInv, TypeOK, Pace, Wider
  <2> QED BY <2>1 DEF IInv, TypeOK, Pace, finVars, histVars
<1>2. CounterInv'
  BY DEF IInv, CounterInv, Pace, InHdd, Stride, histVars
<1>3. PlacementInv'
  BY DEF IInv, PlacementInv, Pace, InHdd, Stride, histVars
<1>4. BudgetInv'
  <2> SUFFICES ASSUME others = 0, ~slow PROVE maxMigrationNum' <= BudgetCap
    BY DEF BudgetInv, Pace, histVars
  <2>1. /\ maxMigrationNum \in Nat /\ analyzeTime \in 0 .. INTERVAL
        /\ maxMigrationNum <= BudgetCap
        /\ analyzeTime = INTERVAL => maxMigrationNum > 0
    BY BudgetAssumption DEF IInv, TypeOK, BudgetInv, Pace
  <2>2. CASE SleepTime > Margin
    <3>1. maxMigrationNum # BudgetCap => (maxMigrationNum + 1) % UINT = maxMigrationNum + 1
      BY <2>1, BudgetAssumption, ModSmall
    <3> QED BY <2>1, <2>2, <3>1, BudgetAssumption DEF Pace, Wider
  <2>3. CASE ~(SleepTime > Margin) /\ SleepTime > 0
    BY <2>1, <2>3 DEF Pace
  <2>4. CASE ~(SleepTime > Margin) /\ ~(SleepTime > 0)
    <3>1. analyzeTime = INTERVAL
      BY <2>1, <2>4, TimeAssumption DEF SleepTime
    <3>2. (maxMigrationNum - 1) % UINT = maxMigrationNum - 1
      BY <2>1, <3>1, BudgetAssumption, ModSmall
    <3>3. maxMigrationNum' = (maxMigrationNum - 1) % UINT
      BY <2>4 DEF Pace
    <3> QED BY <2>1, <3>2, <3>3, BudgetAssumption
  <2> QED BY <2>2, <2>3, <2>4
<1>5. StopInv'
  BY DEF IInv, StopInv, Pace, finVars, histVars
<1> QED BY <1>1, <1>2, <1>3, <1>4, <1>5 DEF IInv

LEMMA HandleCounts ==
  ASSUME NEW H \in SUBSET Extent, IInv, Handle(H), NEW e \in Extent
  PROVE  /\ extentMap'[e] \in (HDD_STRIDE .. SSD_STRIDE) \ {0}
         /\ opposed'[e] \in 0 .. Stride(e)'
         /\ InHdd(e)' <=> InHdd(e)
         /\ InHdd(e)  => extentMap'[e] = AtMost(HDD_STRIDE + opposed'[e], -1)
         /\ ~InHdd(e) => -extentMap'[e] = AtMost(opposed'[e] - SSD_STRIDE, -1)
         /\ e \in SsdCandidates(H) \cup HddCandidates(H) => opposed'[e] = Stride(e)
<1>1. /\ extentMap'[e] = IF e \in H THEN TendSsd(extentMap[e]) ELSE TendHdd(extentMap[e])
      /\ opposed'[e] = IF InHdd(e) = (e \in H) THEN AtMost(opposed[e] + 1, Stride(e)) ELSE 0
  BY DEF Handle
<1>2. /\ extentMap[e] \in (HDD_STRIDE .. SSD_STRIDE) \ {0}
      /\ opposed[e] \in 0 .. Stride(e)
      /\ InHdd(e)  => extentMap[e] = AtMost(HDD_STRIDE + opposed[e], -1)
      /\ ~InHdd(e) => -extentMap[e] = AtMost(opposed[e] - SSD_STRIDE, -1)
  BY DEF IInv, TypeOK, CounterInv
<1>3. CASE InHdd(e) /\ e \in H
  BY <1>1, <1>2, <1>3, StrideAssumption DEF InHdd, Stride, AtMost, TendSsd, SsdCandidates, HddCandidates
<1>4. CASE InHdd(e) /\ e \notin H
  BY <1>1, <1>2, <1>4, StrideAssumption DEF InHdd, Stride, AtMost, TendHdd, SsdCandidates, HddCandidates
<1>5. CASE ~InHdd(e) /\ e \in H
  BY <1>1, <1>2, <1>5, StrideAssumption DEF InHdd, Stride, AtMost, TendSsd, SsdCandidates, HddCandidates
<1>6. CASE ~InHdd(e) /\ e \notin H
  BY <1>1, <1>2, <1>6, StrideAssumption DEF InHdd, Stride, AtMost, TendHdd, SsdCandidates, HddCandidates
<1> QED BY <1>3, <1>4, <1>5, <1>6

LEMMA HandlePreserves == ASSUME NEW H \in SUBSET Extent, IInv, Handle(H) PROVE IInv'
<1>1. /\ ssdPlacement' \subseteq SsdCandidates(H)
      /\ hddPlacement' \subseteq HddCandidates(H)
  BY FirstOfSubset DEF Handle
<1>2. /\ SsdCandidates(H) \subseteq {e \in Extent : InHdd(e)}
      /\ HddCandidates(H) \subseteq {e \in Extent : ~InHdd(e)}
  BY DEF SsdCandidates, HddCandidates, InHdd
<1>3. \A e \in Extent : InHdd(e)' <=> InHdd(e)
  BY HandleCounts
<1>4. TypeOK'
  <2>1. extentMap' \in [Extent -> (HDD_STRIDE .. SSD_STRIDE) \ {0}]
    <3>1. extentMap' = [e \in Extent |-> extentMap'[e]]
      BY DEF Handle
    <3> QED BY <3>1, HandleCounts
  <2>2. opposed' \in [Extent -> Nat]
    <3>1. opposed' = [e \in Extent |-> opposed'[e]]
      BY DEF Handle
    <3>2. \A e \in Extent : opposed'[e] \in Nat
      BY HandleCounts
    <3> QED BY <3>1, <3>2
  <2>3. /\ DOMAIN beyondMap' \subseteq Beyond
        /\ \A id \in DOMAIN beyondMap' : beyondMap'[id] \in {0, HDD_STRIDE}
    BY StrideAssumption DEF IInv, TypeOK, Handle, TendHdd
  <2>4. analyzeTime' \in 0 .. INTERVAL
    BY TimeAssumption DEF Handle, Elapsed, AtMost
  <2> QED BY <1>1, <1>2, <2>1, <2>2, <2>3, <2>4 DEF IInv, TypeOK, Handle, finVars, histVars
<1>5. CounterInv'
  BY HandleCounts, <1>3 DEF CounterInv
<1>6. PlacementInv'
  <2>1. \A e \in Extent : Stride(e)' = Stride(e)
    BY <1>3 DEF Stride
  <2>2. Cardinality(hddPlacement') + Cardinality(ssdPlacement') <= maxMigrationNum
    <3>1. /\ maxMigrationNum \in Nat
          /\ Cardinality(ssdPlacement') \in Nat
          /\ Cardinality(hddPlacement') \in Nat
      BY <1>1, <1>2, ExtentsFinite, BudgetAssumption DEF IInv, TypeOK
    <3>2. Cardinality(ssdPlacement') <= maxMigrationNum
      BY <1>2, <3>1, FirstOfBounded DEF Handle
    <3>3. Cardinality(hddPlacement') <= maxMigrationNum - Cardinality(ssdPlacement')
      <4> DEFINE n == maxMigrationNum - Cardinality(ssdPlacement')
      <4>1. n \in Nat
        BY <3>1, <3>2
      <4>2. hddPlacement' = FirstOf(HddCandidates(H), n)
        BY DEF Handle
      <4> HIDE DEF n
      <4>3. Cardinality(hddPlacement') <= n
        BY <1>2, <4>1, <4>2, FirstOfBounded
      <4> QED BY <4>3 DEF n
    <3> QED BY <3>1, <3>3
  <2>3. \A e \in SsdCandidates(H) : InHdd(e)' /\ e \in hot' /\ opposed'[e] = Stride(e)'
    BY <1>2, <1>3, <2>1, HandleCounts DEF SsdCandidates, Handle
  <2>4. \A e \in HddCandidates(H) : ~InHdd(e)' /\ e \notin hot' /\ opposed'[e] = Stride(e)'
    BY <1>2, <1>3, <2>1, HandleCounts DEF HddCandidates, Handle
  <2> QED BY <1>1, <2>2, <2>3, <2>4 DEF PlacementInv, Handle
<1>7. BudgetInv'
  <2>1. maxMigrationNum' = maxMigrationNum /\ others' = others /\ maxMigrationNum \in Nat
    BY BudgetAssumption DEF IInv, TypeOK, Handle
  <2>2. ~slow' => ~slow
    BY DEF Handle
  <2>3. ~slow' /\ analyzeTime' = INTERVAL => maxMigrationNum # 0
    <3>1. PICK t \in AnalysisTime :
            analyzeTime' = Elapsed(t) /\ slow' = (slow \/ (maxMigrationNum = 0 /\ t >= INTERVAL))
      BY DEF Handle
    <3>2. analyzeTime' = INTERVAL => t >= INTERVAL
      BY <3>1, TimeAssumption DEF Elapsed, AtMost
    <3>3. maxMigrationNum = 0 /\ t >= INTERVAL => slow'
      BY <3>1, Zenon
    <3> QED BY <3>2, <3>3
  <2> QED BY <2>1, <2>2, <2>3 DEF IInv, BudgetInv
<1>8. StopInv'
  BY DEF IInv, StopInv, Handle, finVars, histVars
<1> QED BY <1>4, <1>5, <1>6, <1>7, <1>8 DEF IInv

\* What is left of the lists is covered by the budget, and only gets less.
LEMMA ListsShrink ==
  ASSUME IInv, step \in {"toHdd", "toSsd"},
         NEW H \in SUBSET hddPlacement, NEW S \in SUBSET ssdPlacement
  PROVE  others = 0 =>
         /\ Cardinality(H) + Cardinality(S) <= maxMigrationNum
         /\ hddPlacement \cup ssdPlacement # {} => maxMigrationNum > 0
<1>1. /\ hddPlacement \in SUBSET Extent /\ ssdPlacement \in SUBSET Extent
      /\ maxMigrationNum \in Nat
      /\ others = 0 => Cardinality(hddPlacement) + Cardinality(ssdPlacement) <= maxMigrationNum
  BY BudgetAssumption DEF IInv, TypeOK, PlacementInv
<1>2. /\ IsFiniteSet(hddPlacement) /\ Cardinality(hddPlacement) \in Nat
      /\ IsFiniteSet(ssdPlacement) /\ Cardinality(ssdPlacement) \in Nat
      /\ Cardinality(H) \in Nat /\ Cardinality(S) \in Nat
  BY <1>1, ExtentsFinite
<1>3. Cardinality(H) <= Cardinality(hddPlacement) /\ Cardinality(S) <= Cardinality(ssdPlacement)
  BY <1>2, FS_Subset
<1>4. hddPlacement # {} => Cardinality(hddPlacement) # 0
  BY <1>2, FS_EmptySet
<1>5. ssdPlacement # {} => Cardinality(ssdPlacement) # 0
  BY <1>2, FS_EmptySet
<1> QED BY <1>1, <1>2, <1>3, <1>4, <1>5

LEMMA MigrateToHddPreserves == ASSUME IInv, MigrateToHdd PROVE IInv'
<1>1. TypeOK'
  BY StrideAssumption, TimeAssumption DEF IInv, TypeOK, MigrateToHdd, AtMost, Elapsed, finVars, histVars
<1>2. CounterInv'
  BY StrideAssumption DEF IInv, TypeOK, CounterInv, PlacementInv, MigrateToHdd, InHdd, Stride, AtMost
<1>3. PlacementInv'
  <2>1. others = 0 => Cardinality(hddPlacement') + Cardinality(ssdPlacement') <= maxMigrationNum
    BY ListsShrink DEF MigrateToHdd
  <2>2. \A e \in Extent : e \in ssdPlacement' =>
          InHdd(e)' /\ e \in hot' /\ opposed'[e] = Stride(e)'
    BY StrideAssumption DEF IInv, TypeOK, PlacementInv, MigrateToHdd, InHdd, Stride
  <2>3. \A e \in Extent : e \in hddPlacement' =>
          ~InHdd(e)' /\ e \notin hot' /\ opposed'[e] = Stride(e)'
    BY StrideAssumption DEF IInv, TypeOK, PlacementInv, MigrateToHdd, InHdd, Stride
  <2> QED BY <1>1, <2>1, <2>2, <2>3 DEF TypeOK, PlacementInv, MigrateToHdd
<1>4. BudgetInv'
  <2>1. others = 0 => maxMigrationNum > 0
    BY ListsShrink DEF MigrateToHdd
  <2> QED BY <2>1 DEF IInv, BudgetInv, MigrateToHdd
<1>5. StopInv'
  BY DEF IInv, TypeOK, StopInv, MigrateToHdd, finVars, histVars
<1> QED BY <1>1, <1>2, <1>3, <1>4, <1>5 DEF IInv

LEMMA MigrateToSsdPreserves == ASSUME IInv, MigrateToSsd PROVE IInv'
<1>1. TypeOK'
  BY StrideAssumption, TimeAssumption DEF IInv, TypeOK, MigrateToSsd, AtMost, Elapsed, finVars, histVars
<1>2. CounterInv'
  BY StrideAssumption DEF IInv, TypeOK, CounterInv, PlacementInv, MigrateToSsd, InHdd, Stride, AtMost
<1>3. PlacementInv'
  <2>1. others = 0 => Cardinality(hddPlacement') + Cardinality(ssdPlacement') <= maxMigrationNum
    BY ListsShrink DEF MigrateToSsd
  <2>2. \A e \in Extent : e \in ssdPlacement' =>
          InHdd(e)' /\ e \in hot' /\ opposed'[e] = Stride(e)'
    BY StrideAssumption DEF IInv, TypeOK, PlacementInv, MigrateToSsd, InHdd, Stride
  <2>3. \A e \in Extent : e \in hddPlacement' =>
          ~InHdd(e)' /\ e \notin hot' /\ opposed'[e] = Stride(e)'
    BY StrideAssumption DEF IInv, TypeOK, PlacementInv, MigrateToSsd, InHdd, Stride
  <2> QED BY <1>1, <2>1, <2>2, <2>3 DEF TypeOK, PlacementInv, MigrateToSsd
<1>4. BudgetInv'
  <2>1. others = 0 => maxMigrationNum > 0
    BY ListsShrink DEF MigrateToSsd
  <2> QED BY <2>1 DEF IInv, BudgetInv, MigrateToSsd
<1>5. StopInv'
  BY DEF IInv, TypeOK, StopInv, MigrateToSsd, finVars, histVars
<1> QED BY <1>1, <1>2, <1>3, <1>4, <1>5 DEF IInv

LEMMA HddDonePreserves == ASSUME IInv, HddDone PROVE IInv'
<1>1. TypeOK'
  BY DEF IInv, TypeOK, HddDone, finVars, histVars
<1>2. CounterInv'
  BY DEF IInv, CounterInv, HddDone, InHdd, Stride, histVars
<1>3. PlacementInv'
  BY DEF IInv, PlacementInv, HddDone, InHdd, Stride, histVars
<1>4. BudgetInv'
  BY DEF IInv, BudgetInv, HddDone, histVars
<1>5. StopInv'
  BY DEF IInv, StopInv, HddDone, finVars, histVars
<1> QED BY <1>1, <1>2, <1>3, <1>4, <1>5 DEF IInv

LEMMA SsdDonePreserves == ASSUME IInv, SsdDone PROVE IInv'
<1>1. TypeOK'
  BY DEF IInv, TypeOK, SsdDone, finVars, histVars
<1>2. CounterInv'
  BY DEF IInv, CounterInv, SsdDone, InHdd, Stride, histVars
<1>3. PlacementInv'
  BY DEF IInv, PlacementInv, SsdDone, InHdd, Stride, histVars
<1>4. BudgetInv'
  BY DEF IInv, BudgetInv, SsdDone, histVars
<1>5. StopInv'
  BY DEF IInv, StopInv, SsdDone, finVars, histVars
<1> QED BY <1>1, <1>2, <1>3, <1>4, <1>5 DEF IInv

LEMMA SeeMigratingPreserves == ASSUME IInv, SeeMigrating PROVE IInv'
<1>1. TypeOK'
  BY DEF IInv, TypeOK, SeeMigrating, finVars, histVars
<1>2. CounterInv'
  BY DEF IInv, CounterInv, SeeMigrating, InHdd, Stride, histVars
<1>3. PlacementInv'
  BY DEF IInv, PlacementInv, SeeMigrating, InHdd, Stride, histVars
<1>4. BudgetInv'
  BY DEF IInv, BudgetInv, SeeMigrating, histVars
<1>5. StopInv'
  BY DEF IInv, StopInv, SeeMigrating, finVars, histVars
<1> QED BY <1>1, <1>2, <1>3, <1>4, <1>5 DEF IInv

LEMMA NotifyMigraterPreserves == ASSUME IInv, NotifyMigrater PROVE IInv'
<1>1. TypeOK'
  BY DEF IInv, TypeOK, NotifyMigrater, finVars, histVars
<1>2. CounterInv'
  BY DEF IInv, CounterInv, NotifyMigrater, InHdd, Stride, histVars
<1>3. PlacementInv'
  BY DEF IInv, PlacementInv, NotifyMigrater, InHdd, Stride, histVars
<1>4. BudgetInv'
  BY DEF IInv, BudgetInv, NotifyMigrater, histVars
<1>5. StopInv'
  BY DEF IInv, StopInv, NotifyMigrater, finVars, histVars
<1> QED BY <1>1, <1>2, <1>3, <1>4, <1>5 DEF IInv

LEMMA NotifyAnalyzerPreserves == ASSUME IInv, NotifyAnalyzer PROVE IInv'
<1>1. TypeOK'
  BY DEF IInv, TypeOK, NotifyAnalyzer, finVars, histVars
<1>2. CounterInv'
  BY DEF IInv, CounterInv, NotifyAnalyzer, InHdd, Stride, histVars
<1>3. PlacementInv'
  BY DEF IInv, PlacementInv, NotifyAnalyzer, InHdd, Stride, histVars
<1>4. BudgetInv'
  BY DEF IInv, BudgetInv, NotifyAnalyzer, histVars
<1>5. StopInv'
  BY DEF IInv, StopInv, NotifyAnalyzer, finVars, histVars
<1> QED BY <1>1, <1>2, <1>3, <1>4, <1>5 DEF IInv

LEMMA OtherImagePacesPreserves == ASSUME IInv, OtherImagePaces PROVE IInv'
<1>1. others \in 0 .. MaxOthers /\ others' = others + 1 /\ others' # 0 /\ others' \in 0 .. MaxOthers
  BY BudgetAssumption DEF IInv, TypeOK, OtherImagePaces
<1>2. TypeOK'
  BY <1>1 DEF IInv, TypeOK, OtherImagePaces, finVars, histVars
<1>3. CounterInv'
  BY DEF IInv, CounterInv, OtherImagePaces, InHdd, Stride
<1>4. PlacementInv'
  BY <1>1 DEF IInv, PlacementInv, OtherImagePaces, InHdd, Stride
<1>5. BudgetInv'
  BY <1>1 DEF BudgetInv
<1>6. StopInv'
  BY DEF IInv, StopInv, OtherImagePaces, finVars
<1> QED BY <1>2, <1>3, <1>4, <1>5, <1>6 DEF IInv

LEMMA CancelPreserves == ASSUME IInv, Cancel PROVE IInv'
<1>1. TypeOK'
  BY DEF IInv, TypeOK, Cancel, finVars, histVars
<1>2. CounterInv'
  BY DEF IInv, CounterInv, Cancel, InHdd, Stride, histVars
<1>3. PlacementInv'
  BY DEF IInv, PlacementInv, Cancel, InHdd, Stride, histVars
<1>4. BudgetInv'
  BY DEF IInv, BudgetInv, Cancel, histVars
<1>5. StopInv'
  BY DEF IInv, StopInv, Cancel, finVars, histVars
<1> QED BY <1>1, <1>2, <1>3, <1>4, <1>5 DEF IInv

LEMMA TouchBeyondPreserves == ASSUME NEW id \in Beyond, IInv, TouchBeyond(id) PROVE IInv'
<1>1. TypeOK'
  BY DEF IInv, TypeOK, TouchBeyond, finVars, histVars
<1>2. CounterInv'
  BY DEF IInv, CounterInv, TouchBeyond, InHdd, Stride, histVars
<1>3. PlacementInv'
  BY DEF IInv, PlacementInv, TouchBeyond, InHdd, Stride, histVars
<1>4. BudgetInv'
  BY DEF IInv, BudgetInv, TouchBeyond, histVars
<1>5. StopInv'
  BY DEF IInv, StopInv, TouchBeyond, finVars, histVars
<1> QED BY <1>1, <1>2, <1>3, <1>4, <1>5 DEF IInv

-----------------------------------------------------------------------------
LEMMA InitInv == ASSUME Init PROVE IInv
<1>1. TypeOK
  <2>1. extentMap \in [Extent -> (HDD_STRIDE .. SSD_STRIDE) \ {0}]
    BY StrideAssumption DEF Init
  <2>2. DOMAIN beyondMap = {}
    BY DEF Init
  <2>3. /\ maxMigrationNum \in 0 .. UINT - 1
        /\ analyzeTime \in 0 .. INTERVAL
        /\ opposed \in [Extent -> Nat]
        /\ afterStop \in Nat
        /\ others \in 0 .. MaxOthers
    BY BudgetAssumption, TimeAssumption DEF Init
  <2>4. /\ step \in {"pace", "sleep", "rest", "toHdd", "toSsd", "cancelled"}
        /\ hot \in SUBSET Extent
        /\ hddPlacement \in SUBSET Extent
        /\ ssdPlacement \in SUBSET Extent
        /\ seenMigrating \in BOOLEAN
        /\ toFinilize \in BOOLEAN
        /\ staticToFinilize \in BOOLEAN
        /\ slow \in BOOLEAN
    BY DEF Init
  <2> QED BY <2>1, <2>2, <2>3, <2>4 DEF TypeOK
<1>2. CounterInv
  BY StrideAssumption DEF Init, CounterInv, InHdd, Stride, AtMost
<1>3. PlacementInv
  BY DEF Init, PlacementInv
<1>4. BudgetInv
  BY BudgetAssumption, TimeAssumption DEF Init, BudgetInv
<1>5. StopInv
  BY DEF Init, StopInv
<1> QED BY <1>1, <1>2, <1>3, <1>4, <1>5 DEF IInv

LEMMA StutterPreserves == ASSUME IInv, UNCHANGED vars PROVE IInv'
  BY DEF IInv, TypeOK, CounterInv, PlacementInv, BudgetInv, StopInv, InHdd, Stride, vars

LEMMA NextPreserves == ASSUME IInv, [Next]_vars PROVE IInv'
<1>1. ASSUME NEW H \in SUBSET Extent, Handle(H) PROVE IInv'
  BY <1>1, HandlePreserves
<1>2. ASSUME NEW id \in Beyond, TouchBeyond(id) PROVE IInv'
  BY <1>2, TouchBeyondPreserves
<1>3. CASE AnalyzerThread
  BY <1>1, <1>3, PacePreserves, MigrateToHddPreserves, HddDonePreserves, MigrateToSsdPreserves,
     SsdDonePreserves DEF AnalyzerThread, Tendencies
<1>4. CASE UNCHANGED vars
  BY <1>4, StutterPreserves
<1> QED
  BY <1>2, <1>3, <1>4, SeeMigratingPreserves, NotifyMigraterPreserves, NotifyAnalyzerPreserves,
     OtherImagePacesPreserves, CancelPreserves DEF Next

\* The invariant holds in every reachable state.
THEOREM Invariance == Spec => []IInv
<1>1. Init => IInv
  BY InitInv
<1>2. IInv /\ [Next]_vars => IInv'
  BY NextPreserves
<1> QED BY <1>1, <1>2, PTL DEF Spec

\* Every variable keeps its type: a settled counter is never 0 and never leaves
\* the two strides, whatever the workload and however often extents move.
THEOREM TypeCorrect == Spec => []TypeOK
<1>1. IInv => TypeOK
  BY DEF IInv
<1> QED BY <1>1, Invariance, PTL

\* An extent is listed for a migration only after a whole stride of rounds in a
\* row against its pool, all since its last move.
THEOREM NoThrashing == Spec => []MovedOnlyAfterStride
<1>1. IInv => MovedOnlyAfterStride
  BY DEF IInv, PlacementInv, MovedOnlyAfterStride
<1> QED BY <1>1, Invariance, PTL

\* The lists of a round stay true to the extent map until they are used up.
THEOREM ListsStayTrue == Spec => []MigratesFromWhereItIs
<1>1. IInv => MigratesFromWhereItIs
  BY DEF IInv, PlacementInv, MigratesFromWhereItIs
<1> QED BY <1>1, Invariance, PTL

\* While no other image changes the budget, a round never has more to move than it
\* allows, and it is decremented at 0 only after a round that moved nothing has
\* taken INTERVAL seconds.
THEOREM NoWrap == Spec => []BudgetNeverWraps
<1>1. IInv => BudgetNeverWraps
  BY DEF IInv, BudgetInv, PlacementInv, BudgetNeverWraps
<1> QED BY <1>1, Invariance, PTL

\* A close waits for two migrations at most.
THEOREM StopsSoon == Spec => []AtMostTwoAfterStop
<1>1. IInv => AtMostTwoAfterStop
  BY DEF IInv, StopInv, AtMostTwoAfterStop
<1> QED BY <1>1, Invariance, PTL

\* An extent whose stride is over after the count of a round is a candidate of it.
LEMMA DueIsCandidate ==
  ASSUME NEW H \in SUBSET Extent, IInv, Handle(H), NEW e \in Extent, Due(e)'
  PROVE  e \in SsdCandidates(H) \cup HddCandidates(H)
<1>1. /\ opposed'[e] = IF InHdd(e) = (e \in H) THEN AtMost(opposed[e] + 1, Stride(e)) ELSE 0
      /\ opposed'[e] = Stride(e)
  BY HandleCounts DEF Handle, Due, Stride
<1>2. /\ extentMap[e] \in Int
      /\ opposed[e] \in 0 .. Stride(e)
      /\ InHdd(e)  => extentMap[e] = AtMost(HDD_STRIDE + opposed[e], -1)
      /\ ~InHdd(e) => -extentMap[e] = AtMost(opposed[e] - SSD_STRIDE, -1)
  BY StrideAssumption DEF IInv, TypeOK, CounterInv
<1>3. CASE InHdd(e)
  <2>1. Stride(e) = -HDD_STRIDE
    BY <1>3 DEF Stride
  <2>2. e \in H
    BY <1>1, <1>3, <2>1, StrideAssumption DEF InHdd
  <2>3. opposed'[e] = AtMost(opposed[e] + 1, Stride(e))
    BY <1>1, <1>3, <2>2 DEF InHdd
  <2>4. opposed[e] \in Int /\ opposed[e] >= -HDD_STRIDE - 1
    BY <1>1, <1>2, <2>1, <2>3, StrideAssumption DEF AtMost
  <2>5. extentMap[e] = -1
    BY <1>2, <1>3, <2>4, StrideAssumption DEF AtMost
  <2> QED BY <2>2, <2>5 DEF SsdCandidates
<1>4. CASE ~InHdd(e)
  <2>1. Stride(e) = SSD_STRIDE
    BY <1>4 DEF Stride
  <2>2. e \notin H
    BY <1>1, <1>4, <2>1, StrideAssumption DEF InHdd
  <2>3. opposed'[e] = AtMost(opposed[e] + 1, Stride(e))
    BY <1>1, <1>4, <2>2 DEF InHdd
  <2>4. opposed[e] \in Int /\ opposed[e] >= SSD_STRIDE - 1
    BY <1>1, <1>2, <2>1, <2>3, StrideAssumption DEF AtMost
  <2>5. extentMap[e] = 1
    BY <1>2, <1>4, <2>4, StrideAssumption DEF AtMost
  <2> QED BY <2>2, <2>5 DEF HddCandidates
<1> QED BY <1>3, <1>4

\* analyze_placement and filter_placement never move an extent away from where it
\* tends to, and a round with a budget and an extent that is due moves one.
THEOREM RoundsServe == Spec => EveryRoundServes
<1> DEFINE Stays == hot' = hot => \A e \in Extent : Suited(e) => Suited(e)'
           Moves == step = "sleep" /\ step' = "toHdd" /\ maxMigrationNum > 0 /\ (\E e \in Extent : Due(e)')
                      => hddPlacement' \cup ssdPlacement' # {}
<1>1. ASSUME IInv, [Next]_vars PROVE Stays
  <2> SUFFICES ASSUME hot' = hot, NEW e \in Extent, Suited(e) PROVE Suited(e)'
    OBVIOUS
  <2> USE <1>1
  <2>1. ASSUME NEW H \in SUBSET Extent, Handle(H) PROVE InHdd(e)' = InHdd(e)
    BY <2>1, HandleCounts DEF InHdd
  <2>2. CASE MigrateToHdd
    <3>1. PICK f \in hddPlacement : extentMap' = [extentMap EXCEPT ![f] = HDD_STRIDE]
      BY <2>2 DEF MigrateToHdd
    <3>2. f # e
      BY DEF IInv, PlacementInv, Suited
    <3> QED BY <3>1, <3>2 DEF InHdd, Suited
  <2>3. CASE MigrateToSsd
    <3>1. PICK f \in ssdPlacement : extentMap' = [extentMap EXCEPT ![f] = SSD_STRIDE]
      BY <2>3 DEF MigrateToSsd
    <3>2. f # e
      BY DEF IInv, PlacementInv, Suited
    <3> QED BY <3>1, <3>2 DEF InHdd, Suited
  <2>4. \/ UNCHANGED extentMap \/ MigrateToHdd \/ MigrateToSsd
        \/ \E H \in SUBSET Extent : Handle(H)
    BY DEF Next, vars, AnalyzerThread, Tendencies, Pace, HddDone, SsdDone,
        SeeMigrating, NotifyMigrater, NotifyAnalyzer, OtherImagePaces, Cancel, TouchBeyond
  <2> QED BY <2>1, <2>2, <2>3, <2>4 DEF Suited, InHdd
<1>2. ASSUME IInv, [Next]_vars PROVE Moves
  <2> SUFFICES ASSUME step = "sleep", step' = "toHdd", maxMigrationNum > 0,
                      NEW e \in Extent, Due(e)'
               PROVE  hddPlacement' \cup ssdPlacement' # {}
    OBVIOUS
  <2>1. PICK H \in SUBSET Extent : Handle(H)
    BY <1>2 DEF Next, vars, AnalyzerThread, Tendencies, Pace, MigrateToHdd, HddDone,
        MigrateToSsd, SsdDone, SeeMigrating, NotifyMigrater, NotifyAnalyzer,
        OtherImagePaces, Cancel, TouchBeyond
  <2>2. /\ SsdCandidates(H) \in SUBSET Extent /\ HddCandidates(H) \in SUBSET Extent
        /\ maxMigrationNum \in Nat
    BY <1>2, BudgetAssumption DEF IInv, TypeOK, SsdCandidates, HddCandidates
  <2>3. CASE SsdCandidates(H) # {}
    BY <2>1, <2>2, <2>3, FirstOfNonEmpty DEF Handle
  <2>4. CASE SsdCandidates(H) = {}
    <3>1. ssdPlacement' = {} /\ Cardinality(ssdPlacement') = 0
      BY <2>1, <2>4, FirstOfSubset, FS_EmptySet DEF Handle
    <3>2. hddPlacement' = FirstOf(HddCandidates(H), maxMigrationNum)
      BY <2>1, <2>2, <3>1 DEF Handle
    <3>3. HddCandidates(H) # {}
      BY <1>2, <2>1, <2>4, DueIsCandidate
    <3> QED BY <2>2, <3>2, <3>3, FirstOfNonEmpty
  <2> QED BY <2>3, <2>4
<1>3. IInv /\ [Next]_vars => [Stays /\ Moves]_vars
  BY <1>1, <1>2
<1> QED BY <1>3, Invariance, PTL DEF Spec, EveryRoundServes
=============================================================================

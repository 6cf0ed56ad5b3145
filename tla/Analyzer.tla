------------------------------ MODULE Analyzer ------------------------------
(***************************************************************************)
(* The placement decisions of WHOBBS: the analyzer thread of one open image *)
(* wakes up about every INTERVAL seconds, turns the requests it recorded    *)
(* into a tendency of each extent (HDD or SSD), moves the extent's counter  *)
(* in the extent map, and migrates extents whose counter has run out, as    *)
(* many as a budget allows.                                                 *)
(*                                                                         *)
(* A negative counter is an extent in the HDD pool, a positive one in the   *)
(* SSD pool.  The scores are abstracted to their outcome: in each round any *)
(* set of extents may tend to the SSD pool.  A migration is one step here   *)
(* (module ExtentMigration has its inside) and takes some seconds.          *)
(***************************************************************************)
EXTENDS Integers, FiniteSets

CONSTANTS
  MapSize,         \* extent_map.map_size: whole extents of the image when opened
  Beyond,          \* extent ids past map_size that requests may touch
  HDD_STRIDE,      \* WHOBBS.h: counter of an extent that has just come to the HDD pool
  SSD_STRIDE,      \* WHOBBS.h: the same for the SSD pool
  INTERVAL,        \* WHOBBS.h: seconds between two rounds
  Margin,          \* the 10 s of sleep above which the budget grows
  MigrationTime,   \* seconds a migration may take, its sleep(1) included
  AnalysisTime,    \* seconds create_report and the rest of a round may take
  BudgetCap,       \* bound of the model on the growth of the budget
  MaxOthers,       \* bound of the model on the steps of other images' analyzers
  UINT             \* 2^64, scaled down: max_migration_num is a uint64_t

ASSUME SizeAssumption == MapSize \in Nat /\ Beyond \subseteq Nat /\ \A id \in Beyond : id >= MapSize
ASSUME StrideAssumption == HDD_STRIDE \in Int /\ HDD_STRIDE < 0 /\ SSD_STRIDE \in Int /\ SSD_STRIDE > 0
ASSUME TimeAssumption ==
  /\ INTERVAL \in Nat /\ Margin \in Nat /\ Margin < INTERVAL
  /\ MigrationTime \subseteq Nat \ {0}
  /\ AnalysisTime \subseteq Nat
ASSUME BudgetAssumption ==
  /\ BudgetCap \in Nat /\ UINT \in Nat /\ MaxOthers \in Nat
  /\ 0 < BudgetCap /\ BudgetCap < UINT - 1

Extent == 0 .. MapSize - 1
AnyExtent == Extent \cup Beyond

VARIABLES
  extentMap,          \* extent_map.map of the extents of the image
  beyondMap,          \* extent_map.map of the ids get_pool has inserted
  maxMigrationNum,    \* Analyzer::max_migration_num
  analyzeTime,        \* analyze_time of the last round, at most INTERVAL
  step,               \* where the analyzer thread is
  hot,                \* the extents that tended to the SSD pool this round
  hddPlacement,       \* placement_map_filtered[HDD_POOL], what is left of it
  ssdPlacement,       \* placement_map_filtered[SSD_POOL], what is left of it
  seenMigrating,      \* finilize_WHOBBS has found a migration under way
  toFinilize,         \* to_finilize of this image's migrater
  staticToFinilize,   \* Analyzer::to_finilize, one for all images of the process
  opposed,            \* history: rounds in a row an extent tended away from its pool
  afterStop,          \* history: migrations finished since to_finilize was set
  others,             \* history: steps of other images' analyzers on the budget
  slow                \* history: some round with no budget has taken INTERVAL seconds

vars == <<extentMap, beyondMap, maxMigrationNum, analyzeTime, step, hot,
          hddPlacement, ssdPlacement, seenMigrating, toFinilize, staticToFinilize,
          opposed, afterStop, others, slow>>

finVars == <<seenMigrating, toFinilize, staticToFinilize>>
histVars == <<opposed, afterStop, others, slow>>

\* The front of a list, whose ids ascend.
IsFirst(e, S) == \A f \in S : e <= f

\* The first n of S, in the order std::map and the lists made from it have.
FirstOf(S, n) == {e \in S : Cardinality({f \in S : f < e}) < n}

AtMost(x, y) == IF x <= y THEN x ELSE y

InHdd(e) == extentMap[e] < 0

\* Rounds in a row an extent must tend away from its pool before it is moved.
Stride(e) == IF InHdd(e) THEN -HDD_STRIDE ELSE SSD_STRIDE

\* The time of a round only matters up to INTERVAL.
Elapsed(t) == AtMost(t, INTERVAL)

\* Two variables are static: MAX_MIGRATION and false for the first image of a
\* process, and what earlier images left there for a later one (a budget they
\* took past 0 is a step of OtherImagePaces).
Init ==
  /\ extentMap       = [e \in Extent |-> HDD_STRIDE]
  /\ beyondMap       = [id \in {} |-> 0]
  /\ maxMigrationNum \in 0 .. BudgetCap
  /\ analyzeTime     = 0
  /\ step            = "pace"
  /\ hot             = {}
  /\ hddPlacement    = {}
  /\ ssdPlacement    = {}
  /\ seenMigrating   = FALSE
  /\ toFinilize      = FALSE
  /\ staticToFinilize \in BOOLEAN
  /\ opposed         = [e \in Extent |-> 0]
  /\ afterStop       = 0
  /\ others          = 0
  /\ slow            = FALSE

\* What is left of INTERVAL.
SleepTime == IF staticToFinilize THEN INTERVAL ELSE INTERVAL - analyzeTime

-----------------------------------------------------------------------------
(* Mutated definitions: bugs that the properties below have to refute.     *)

\* The budget is never widened.
Pace_NeverWidens ==
  /\ step = "pace"
  /\ maxMigrationNum' = IF SleepTime > 0 THEN maxMigrationNum ELSE (maxMigrationNum - 1) % UINT
  /\ step' = IF toFinilize /\ staticToFinilize THEN "rest" ELSE "sleep"
  /\ UNCHANGED <<extentMap, beyondMap, analyzeTime, hot, hddPlacement,
                 ssdPlacement, finVars, histVars>>

\* The countdown is not started again when the tendency changes.
TendHdd_NoReset(v) ==
  IF v > 1 THEN v - 1 ELSE v

\* Every extent that has counted down far enough is moved, also if it is there.
SsdCandidates_AtLeast(H) == {e \in H : extentMap[e] >= -1}

\* Waits for a 0 that the countdown never reaches.
HddCandidates_Zero(H) == {e \in Extent \ H : extentMap[e] = 0}

\* The loop does not look at to_finilize.
MigrateToSsd_NoBreak ==
  /\ step = "toSsd"
  /\ \E e \in ssdPlacement :
       /\ IsFirst(e, ssdPlacement)
       /\ extentMap' = [extentMap EXCEPT ![e] = SSD_STRIDE]
       /\ opposed' = [opposed EXCEPT ![e] = 0]
       /\ ssdPlacement' = ssdPlacement \ {e}
  /\ \E t \in MigrationTime : analyzeTime' = Elapsed(analyzeTime + t)
  /\ afterStop' = IF toFinilize /\ staticToFinilize THEN afterStop + 1 ELSE afterStop
  /\ UNCHANGED <<beyondMap, maxMigrationNum, step, hot, hddPlacement, finVars, others, slow>>

-----------------------------------------------------------------------------
\* max_migration_num ++, which the model stops at BudgetCap.
Wider(m) == IF m = BudgetCap THEN m ELSE (m + 1) % UINT

\* Top of startAnalyzer's loop: a short round leaves time to sleep and widens
\* the budget, a round of INTERVAL seconds or more narrows it.  With both flags
\* set the image is being closed and the sleep is the whole INTERVAL: the closing
\* thread looks every second and cancels this one before it is over.
Pace ==
  /\ step = "pace"
  /\ maxMigrationNum' =
       IF SleepTime > Margin THEN Wider(maxMigrationNum)
       ELSE IF SleepTime > 0 THEN maxMigrationNum
       ELSE (maxMigrationNum - 1) % UINT
  /\ step' = IF toFinilize /\ staticToFinilize THEN "rest" ELSE "sleep"
  /\ UNCHANGED <<extentMap, beyondMap, analyzeTime, hot, hddPlacement,
                 ssdPlacement, finVars, histVars>>

\* analyze_placement for one entry of the extent map that tends to the SSD ...
TendSsd(v) ==
  IF v < -1 THEN v + 1
  ELSE IF v < 0 THEN v
  ELSE IF v < SSD_STRIDE THEN SSD_STRIDE ELSE v

\* ... or to the HDD.
TendHdd(v) ==
  IF v > 1 THEN v - 1
  ELSE IF v > 0 THEN v
  ELSE IF v > HDD_STRIDE THEN HDD_STRIDE ELSE v

\* filter_placement: moves to the SSD pool go first.
SsdCandidates(H) == {e \in H : extentMap[e] = -1}
HddCandidates(H) == {e \in Extent \ H : extentMap[e] = 1}

\* Mutated: the time of a round is added to that of the round before.
Handle_TimeAddsUp(H) ==
  /\ step = "sleep"
  /\ hot' = H
  /\ extentMap' = [e \in Extent |-> IF e \in H THEN TendSsd(extentMap[e]) ELSE TendHdd(extentMap[e])]
  /\ beyondMap' = [id \in DOMAIN beyondMap |-> TendHdd(beyondMap[id])]
  /\ ssdPlacement' = FirstOf(SsdCandidates(H), maxMigrationNum)
  /\ hddPlacement' = FirstOf(HddCandidates(H), maxMigrationNum - Cardinality(ssdPlacement'))
  /\ opposed' = [e \in Extent |-> IF InHdd(e) = (e \in H) THEN AtMost(opposed[e] + 1, Stride(e)) ELSE 0]
  /\ \E t \in AnalysisTime :
       /\ analyzeTime' = Elapsed(analyzeTime + t)
       /\ slow' = (slow \/ (maxMigrationNum = 0 /\ t >= INTERVAL))
  /\ step' = "toHdd"
  /\ UNCHANGED <<maxMigrationNum, finVars, afterStop, others>>

\* handle up to the migrations: entries past map_size never tend to the SSD.
\* filter_placement reads the budget at every entry; another image that changes
\* it in between makes the lists those of a budget in between.
Handle(H) ==
  /\ step = "sleep"
  /\ hot' = H
  /\ extentMap' = [e \in Extent |-> IF e \in H THEN TendSsd(extentMap[e]) ELSE TendHdd(extentMap[e])]
  /\ beyondMap' = [id \in DOMAIN beyondMap |-> TendHdd(beyondMap[id])]
  /\ ssdPlacement' = FirstOf(SsdCandidates(H), maxMigrationNum)
  /\ hddPlacement' = FirstOf(HddCandidates(H), maxMigrationNum - Cardinality(ssdPlacement'))
  /\ opposed' = [e \in Extent |-> IF InHdd(e) = (e \in H) THEN AtMost(opposed[e] + 1, Stride(e)) ELSE 0]
  /\ \E t \in AnalysisTime :
       /\ analyzeTime' = Elapsed(t)
       /\ slow' = (slow \/ (maxMigrationNum = 0 /\ t >= INTERVAL))
  /\ step' = "toHdd"
  /\ UNCHANGED <<maxMigrationNum, finVars, afterStop, others>>

\* do_concurrent_migrate(e, SSD_POOL, HDD_POOL), sleep(1), and the check that
\* breaks out of the loop.
MigrateToHdd ==
  /\ step = "toHdd"
  /\ \E e \in hddPlacement :
       /\ IsFirst(e, hddPlacement)
       /\ extentMap' = [extentMap EXCEPT ![e] = HDD_STRIDE]
       /\ opposed' = [opposed EXCEPT ![e] = 0]
       /\ hddPlacement' = IF toFinilize THEN {} ELSE hddPlacement \ {e}
  /\ \E t \in MigrationTime : analyzeTime' = Elapsed(analyzeTime + t)
  /\ afterStop' = IF toFinilize /\ staticToFinilize THEN afterStop + 1 ELSE afterStop
  /\ UNCHANGED <<beyondMap, maxMigrationNum, step, hot, ssdPlacement, finVars, others, slow>>

HddDone ==
  /\ step = "toHdd"
  /\ hddPlacement = {}
  /\ step' = "toSsd"
  /\ UNCHANGED <<extentMap, beyondMap, maxMigrationNum, analyzeTime, hot,
                 hddPlacement, ssdPlacement, finVars, histVars>>

\* do_concurrent_migrate(e, HDD_POOL, SSD_POOL), likewise.
MigrateToSsd ==
  /\ step = "toSsd"
  /\ \E e \in ssdPlacement :
       /\ IsFirst(e, ssdPlacement)
       /\ extentMap' = [extentMap EXCEPT ![e] = SSD_STRIDE]
       /\ opposed' = [opposed EXCEPT ![e] = 0]
       /\ ssdPlacement' = IF toFinilize THEN {} ELSE ssdPlacement \ {e}
  /\ \E t \in MigrationTime : analyzeTime' = Elapsed(analyzeTime + t)
  /\ afterStop' = IF toFinilize /\ staticToFinilize THEN afterStop + 1 ELSE afterStop
  /\ UNCHANGED <<beyondMap, maxMigrationNum, step, hot, hddPlacement, finVars, others, slow>>

SsdDone ==
  /\ step = "toSsd"
  /\ ssdPlacement = {}
  /\ step' = "pace"
  /\ UNCHANGED <<extentMap, beyondMap, maxMigrationNum, analyzeTime, hot,
                 hddPlacement, ssdPlacement, finVars, histVars>>

-----------------------------------------------------------------------------
\* Other threads.  finilize_WHOBBS finds the analyzer thread between
\* set_migrating(true) and set_migrating(false) ...
SeeMigrating ==
  /\ step \in {"toHdd", "toSsd"}
  /\ seenMigrating' = TRUE
  /\ UNCHANGED <<extentMap, beyondMap, maxMigrationNum, analyzeTime, step, hot,
                 hddPlacement, ssdPlacement, toFinilize, staticToFinilize, histVars>>

\* ... and sets the one flag and then the other, whatever the thread does then.
NotifyMigrater ==
  /\ seenMigrating
  /\ toFinilize' = TRUE
  /\ UNCHANGED <<extentMap, beyondMap, maxMigrationNum, analyzeTime, step, hot,
                 hddPlacement, ssdPlacement, seenMigrating, staticToFinilize, histVars>>

NotifyAnalyzer ==
  /\ toFinilize
  /\ staticToFinilize' = TRUE
  /\ UNCHANGED <<extentMap, beyondMap, maxMigrationNum, analyzeTime, step, hot,
                 hddPlacement, ssdPlacement, seenMigrating, toFinilize, histVars>>

\* max_migration_num is static: the analyzer threads of the other images open in
\* the process widen and narrow it too, without a lock.  One step stands for any
\* number of their rounds, updates lost between two threads included.
OtherImagePaces ==
  /\ others < MaxOthers
  /\ others' = others + 1
  /\ maxMigrationNum' \in 0 .. UINT - 1
  /\ UNCHANGED <<extentMap, beyondMap, analyzeTime, step, hot, hddPlacement,
                 ssdPlacement, finVars, opposed, afterStop, slow>>

\* pthread_cancel.
Cancel ==
  /\ step' = "cancelled"
  /\ UNCHANGED <<extentMap, beyondMap, maxMigrationNum, analyzeTime, hot,
                 hddPlacement, ssdPlacement, finVars, histVars>>

\* A request past map_size: get_pool's operator[] inserts the entry, with 0.
TouchBeyond(id) ==
  /\ id \in Beyond \ DOMAIN beyondMap
  /\ beyondMap' = [b \in DOMAIN beyondMap \cup {id} |-> IF b = id THEN 0 ELSE beyondMap[b]]
  /\ UNCHANGED <<extentMap, maxMigrationNum, analyzeTime, step, hot, hddPlacement,
                 ssdPlacement, finVars, histVars>>

\* tend_to(SSD_POOL): the scores of a round single out any set of extents.
Tendencies == SUBSET Extent

AnalyzerThread ==
  \/ Pace
  \/ \E H \in Tendencies : Handle(H)
  \/ MigrateToHdd
  \/ HddDone
  \/ MigrateToSsd
  \/ SsdDone

Next ==
  \/ AnalyzerThread
  \/ SeeMigrating
  \/ NotifyMigrater
  \/ NotifyAnalyzer
  \/ OtherImagePaces
  \/ Cancel
  \/ \E id \in Beyond : TouchBeyond(id)

Spec == Init /\ [][Next]_vars

\* The analyzer thread is always runnable, or asleep for at most INTERVAL.
FairSpec == Spec /\ WF_vars(AnalyzerThread)

-----------------------------------------------------------------------------
\* Every variable has its type: in particular a settled counter is never 0 and
\* never leaves the two strides, and an entry past map_size stays in the HDD pool.
TypeOK ==
  /\ extentMap       \in [Extent -> (HDD_STRIDE .. SSD_STRIDE) \ {0}]
  /\ DOMAIN beyondMap \subseteq Beyond
  /\ \A id \in DOMAIN beyondMap : beyondMap[id] \in {0, HDD_STRIDE}
  /\ maxMigrationNum \in 0 .. UINT - 1
  /\ analyzeTime     \in 0 .. INTERVAL
  /\ step            \in {"pace", "sleep", "rest", "toHdd", "toSsd", "cancelled"}
  /\ hot             \in SUBSET Extent
  /\ hddPlacement    \in SUBSET Extent
  /\ ssdPlacement    \in SUBSET Extent
  /\ seenMigrating   \in BOOLEAN
  /\ toFinilize      \in BOOLEAN
  /\ staticToFinilize \in BOOLEAN
  /\ opposed         \in [Extent -> Nat]
  /\ afterStop       \in Nat
  /\ others          \in 0 .. MaxOthers
  /\ slow            \in BOOLEAN

\* No thrashing: an extent is moved to the SSD pool only after -HDD_STRIDE
\* rounds in a row in which it tended there, and back only after SSD_STRIDE
\* rounds the other way, all since its last move: what analyze_placement's
\* counting, its resets and the strides written by the migrater amount to.
MovedOnlyAfterStride ==
  \A e \in hddPlacement \cup ssdPlacement : opposed[e] = Stride(e)

\* do_concurrent_migrate is told the pool the extent is in, and takes it where it
\* tends to: the two lists are built before the migrations and used while these
\* change the extent map.
MigratesFromWhereItIs ==
  /\ \A e \in ssdPlacement : InHdd(e) /\ e \in hot
  /\ \A e \in hddPlacement : ~InHdd(e) /\ e \notin hot

\* max_migration_num is unsigned and is decremented without a test.  While no
\* other image has touched it, what a round still has to move is covered by it,
\* although the two lists are cut one after the other; so a round with no budget
\* moves nothing, and the budget goes below 0, to 2^64 - 1, only after such a
\* round has taken INTERVAL seconds over its analysis alone.  Nothing in the code
\* rules that out, or two images that narrow the budget in turn.
BudgetNeverWraps ==
  others = 0 =>
    /\ ~slow => maxMigrationNum <= BudgetCap
    /\ step \in {"toHdd", "toSsd"} =>
         Cardinality(hddPlacement) + Cardinality(ssdPlacement) <= maxMigrationNum

\* After both flags are set at most two more migrations end: the one under way
\* and the first of the SSD list, whose loop also tests the flag at its end.
AtMostTwoAfterStop == afterStop <= 2

\* The extent is in the pool it tends to.
Suited(e) == InHdd(e) <=> e \notin hot

\* The extent has tended to the other pool for a whole stride.
Due(e) == opposed[e] = Stride(e)

\* No round is in vain: while the workload stays as it is no extent leaves the
\* pool it tends to, and a round that has a budget and an extent whose stride is
\* over moves one, whichever of the two lists comes first.
EveryRoundServes ==
  [][/\ hot' = hot => \A e \in Extent : Suited(e) => Suited(e)'
     /\ step = "sleep" /\ step' = "toHdd" /\ maxMigrationNum > 0 /\ (\E e \in Extent : Due(e)')
          => hddPlacement' \cup ssdPlacement' # {}]_vars

\* The image stays open.
StaysOpen == [](~toFinilize /\ step # "cancelled")

\* Analysis alone does not fill a round up to the margin: if it did in every round,
\* a budget of 0 would be neither widened nor narrowed, and nothing ever moved.
NoStandstill == \A t \in AnalysisTime : t < INTERVAL - Margin \/ t >= INTERVAL

\* An extent that tends to the SSD in every round from some time on is in the
\* SSD pool from some time on, whatever the others do and however long
\* migrations take: neither the budget nor the order of ids starves it.
HotExtentsReachSsd ==
  StaysOpen /\ NoStandstill => \A e \in Extent : <>[](e \in hot) => <>[](extentMap[e] > 0)

\* Once the workload settles, so does the placement: exactly the extents that
\* tend to the SSD are there, although filter_placement lets moves to the SSD
\* pool use up the budget first.  (Without a settled workload an extent that
\* tends to the HDD for ever can be starved by others that go back and forth.)
PlacementConverges ==
  StaysOpen /\ NoStandstill => \A H \in SUBSET Extent :
    <>[](hot = H) => <>[](\A e \in Extent : extentMap[e] > 0 <=> e \in H)

-----------------------------------------------------------------------------
(* The inductive invariant behind the safety properties.                   *)

\* The counter of an extent is the stride it was given, less the rounds in a row
\* that were against its pool.
CounterInv ==
  \A e \in Extent :
    /\ opposed[e] \in 0 .. Stride(e)
    /\ InHdd(e)  => extentMap[e] = AtMost(HDD_STRIDE + opposed[e], -1)
    /\ ~InHdd(e) => -extentMap[e] = AtMost(opposed[e] - SSD_STRIDE, -1)

\* Listed extents have counted down, are still where they were when they were
\* listed and tend away from there, and are covered by the budget of the round
\* unless another image has changed it.
PlacementInv ==
  /\ \A e \in ssdPlacement : InHdd(e) /\ e \in hot /\ opposed[e] = Stride(e)
  /\ \A e \in hddPlacement : ~InHdd(e) /\ e \notin hot /\ opposed[e] = Stride(e)
  /\ others = 0 /\ step \in {"toHdd", "toSsd"} =>
       Cardinality(hddPlacement) + Cardinality(ssdPlacement) <= maxMigrationNum

\* In an undisturbed budget only a round that migrated something takes INTERVAL.
BudgetInv ==
  others = 0 /\ ~slow =>
    /\ maxMigrationNum <= BudgetCap
    /\ step \in {"toHdd", "toSsd", "pace"} /\ analyzeTime = INTERVAL => maxMigrationNum > 0

\* How many migrations have ended since both flags were set.
StopInv ==
  /\ ~(toFinilize /\ staticToFinilize) => afterStop = 0
  /\ step = "sleep" => afterStop = 0
  /\ step = "toHdd" => afterStop = 0 \/ (afterStop = 1 /\ hddPlacement = {})
  /\ step = "toSsd" => afterStop <= 1 \/ (afterStop = 2 /\ ssdPlacement = {})
  /\ afterStop <= 2

IInv == TypeOK /\ CounterInv /\ PlacementInv /\ BudgetInv /\ StopInv

=============================================================================

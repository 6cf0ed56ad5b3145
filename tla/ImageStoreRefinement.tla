------------------------ MODULE ImageStoreRefinement ------------------------
(***************************************************************************)
(* ExtentMigration implements ImageStore, for any sets of extents and      *)
(* requests: every step of the requests, of RADOS and of the migrater is a *)
(* step of the image store or leaves it alone.  The invariant of           *)
(* ExtentMigrationProofs does the work: the migrater's steps are invisible *)
(* because the map is repointed between equal objects, and a read is       *)
(* answered from the authoritative copy or from a source object that lies  *)
(* between what the read must see and that copy.                           *)
(***************************************************************************)
EXTENDS ExtentMigrationProofs

\* What is left alone leaves its image alone.
LEMMA SameStore ==
  ASSUME UNCHANGED <<extentMap, content, astray, faulted>>
  PROVE  UNCHANGED <<Store, Waived>>
  BY DEF Store, Waived, Home

LEMMA SameReads ==
  ASSUME UNCHANGED <<must, result, strayRead, astray, faulted, ext>>
  PROVE  UNCHANGED <<Floors, Results>>
  BY DEF Floors, Results, Promised, Waived

LEMMA StageMoves ==
  ASSUME TypeOK, NEW q \in Request, NEW s, pc' = [pc EXCEPT ![q] = s]
  PROVE  Stages' = [Stages EXCEPT ![q] = StageOf(s)]
  BY DEF TypeOK, Stages

LEMMA StageStays ==
  ASSUME TypeOK, NEW q \in Request, NEW s, pc' = [pc EXCEPT ![q] = s],
         StageOf(s) = StageOf(pc[q])
  PROVE  UNCHANGED Stages
  BY DEF TypeOK, Stages

LEMMA StageAt == ASSUME NEW q \in Request PROVE Stages[q] = StageOf(pc[q])
  BY DEF Stages

-----------------------------------------------------------------------------
(* Requests.                                                               *)

LEMMA InvokeImage == ASSUME NEW q \in Request, DataInv, Invoke(q) PROVE Image!Open(q)
<1>1. Stages[q] = "new" /\ Stages' = [Stages EXCEPT ![q] = "open"]
  BY StageAt, StageMoves DEF DataInv, Invoke, StageOf
<1>2. UNCHANGED <<Store, Waived, strayRead, ext>>
  BY SameStore DEF Invoke
<1>3. UNCHANGED Results
  BY DEF Invoke, Results, Promised, Waived
<1>4. Floors' = IF q \in Read THEN [Floors EXCEPT ![q] = Store[ext[q]]] ELSE Floors
  <2>1. CASE q \notin Read
    BY <2>1 DEF Invoke, Floors, Promised, Waived
  <2>2. CASE q \in Read
    <3>1. ext[q] \in Extent /\ must \in [Read -> SUBSET Mutation]
      BY DEF DataInv, TypeOK
    <3>2. q \notin strayRead
      BY <2>2 DEF DataInv, ReadInv, Invoke
    <3> QED BY <2>2, <3>1, <3>2 DEF Invoke, Floors, Store, Promised, Waived
  <2> QED BY <2>1, <2>2
<1> QED BY <1>1, <1>2, <1>3, <1>4 DEF Image!Open

\* The steps between the poll loop and RADOS.
LEMMA GetPoolImage == ASSUME NEW q \in Request, DataInv, GetPool(q) PROVE UNCHANGED Image!vars
<1>1. UNCHANGED Stages
  BY StageStays DEF DataInv, GetPool, StageOf
<1> QED BY <1>1, SameStore, SameReads DEF GetPool, histVars, Image!vars

LEMMA DiscardPoolImage == ASSUME NEW q \in Request, DataInv, DiscardPool(q) PROVE Image!Open(q)
<1>1. Stages[q] = "new" /\ Stages' = [Stages EXCEPT ![q] = "open"]
  BY StageAt, StageMoves DEF DataInv, DiscardPool, StageOf
<1>2. q \notin Read
  BY RequestsAreDisjoint DEF DiscardPool
<1> QED BY <1>1, <1>2, SameStore, SameReads DEF DiscardPool, histVars, Image!Open

LEMMA WaiveImage ==
  ASSUME DataInv, NEW e \in Extent, Waived' = Waived \cup {e},
         UNCHANGED <<extentMap, content, must, result, strayRead, ext, Stages>>
  PROVE  Image!Waive(e)
<1>1. Store' = [Store EXCEPT ![e] = {}]
  BY DEF Store, Home
<1>2. /\ Floors' = [r \in Read |-> IF ext[r] = e THEN {} ELSE Floors[r]]
      /\ Results' = [r \in Read |-> IF ext[r] = e THEN {} ELSE Results[r]]
  BY DEF Floors, Results, Promised
<1> QED BY <1>1, <1>2 DEF Image!Waive

LEMMA QueueAioWriteImage ==
  ASSUME NEW q \in Request, DataInv, QueueAioWrite(q)
  PROVE  Image!Waive(ext[q]) \/ UNCHANGED Image!vars
<1>1. UNCHANGED Stages
  BY StageStays DEF DataInv, QueueAioWrite, StageOf
<1>2. CASE TooLate(pool[q], ext[q])
  <2>1. ext[q] \in Extent
    BY DEF DataInv, TypeOK
  <2> QED BY <1>1, <1>2, <2>1, WaiveImage DEF QueueAioWrite, Waived
<1>3. CASE ~TooLate(pool[q], ext[q])
  BY <1>1, <1>3, SameStore, SameReads DEF QueueAioWrite, Image!vars
<1> QED BY <1>2, <1>3

LEMMA RefuseWriteImage == ASSUME NEW q \in Request, DataInv, RefuseWrite(q) PROVE Image!Refuse(q)
<1>1. Stages[q] = "open" /\ Stages' = [Stages EXCEPT ![q] = "failed"]
  BY StageAt, StageMoves DEF DataInv, RefuseWrite, StageOf
<1> QED BY <1>1, SameStore, SameReads DEF RefuseWrite, histVars, Image!Refuse

LEMMA SubmitWriteImage == ASSUME NEW q \in Request, DataInv, SubmitWrite(q) PROVE UNCHANGED Image!vars
<1>1. UNCHANGED Stages
  BY StageStays DEF DataInv, SubmitWrite, StageOf
<1> QED BY <1>1, SameStore, SameReads DEF SubmitWrite, histVars, Image!vars

LEMMA SubmitReadImage ==
  ASSUME NEW q \in Request, DataInv, SubmitRead(q)
  PROVE  Image!Forgo(q) \/ UNCHANGED Image!vars
<1>1. UNCHANGED Stages /\ Stages[q] = "open"
  BY StageAt, StageStays DEF DataInv, SubmitRead, StageOf
<1>2. UNCHANGED <<Store, Waived>>
  BY SameStore DEF SubmitRead
<1>3. CASE Home(ext[q]) # pool[q]
  <2>1. /\ Floors' = [Floors EXCEPT ![q] = {}]
        /\ Results' = [Results EXCEPT ![q] = {}]
    BY <1>3 DEF SubmitRead, Floors, Results, Promised, Waived
  <2> QED BY <1>1, <1>2, <1>3, <2>1 DEF SubmitRead, Image!Forgo
<1>4. CASE Home(ext[q]) = pool[q]
  BY <1>1, <1>2, <1>4, SameReads DEF SubmitRead, Image!vars
<1> QED BY <1>3, <1>4

-----------------------------------------------------------------------------
(* RADOS.                                                                  *)

\* A mutation of an extent that keeps its promise takes effect on the
\* authoritative copy.
LEMMA ApplyMutationImage == ASSUME NEW q \in Request, DataInv, ApplyMutation(q) PROVE Image!Take(q)
<1>1. Stages[q] = "open" /\ Stages' = [Stages EXCEPT ![q] = "taken"]
  BY StageAt, StageMoves DEF DataInv, ApplyMutation, StageOf
<1>2. UNCHANGED <<Floors, Results, Waived>>
  BY SameReads DEF ApplyMutation, histVars, Waived
<1>3. Store' = IF ext[q] \in Waived THEN Store
               ELSE [Store EXCEPT ![ext[q]] = @ \cup {q}]
  <2>1. /\ content \in [Pool -> [Extent -> SUBSET Mutation]]
        /\ ext[q] \in Extent
        /\ \A e \in Extent : Home(e) \in Pool
    BY HomeInPool DEF DataInv, TypeOK
  <2>2. ext[q] \notin Waived => pool[q] = Home(ext[q])
    BY DEF DataInv, FlowInv, UnderWay, ApplyMutation, Waived
  <2>3. \A e \in Extent : Home(e)' = Home(e)
    BY DEF ApplyMutation, Home
  <2>4. ASSUME NEW e \in Extent \ Waived
        PROVE  content'[Home(e)][e] =
                 IF e = ext[q] THEN content[Home(e)][e] \cup {q} ELSE content[Home(e)][e]
    BY <2>1, <2>2, <2>4 DEF ApplyMutation
  <2> DEFINE Held(e) == IF e \in Waived THEN {}
                        ELSE content[Home(e)][e] \cup IF e = ext[q] THEN {q} ELSE {}
  <2>5. Store' = [e \in Extent |-> Held(e)]
    <3>1. Store' = [e \in Extent |-> IF e \in Waived THEN {} ELSE content'[Home(e)][e]]
      BY <1>2, <2>3 DEF Store
    <3>2. \A e \in Extent :
            (IF e \in Waived THEN {} ELSE content'[Home(e)][e]) = Held(e)
      <4> SUFFICES ASSUME NEW e \in Extent, e \notin Waived
                   PROVE  content'[Home(e)][e] = content[Home(e)][e] \cup IF e = ext[q] THEN {q} ELSE {}
        OBVIOUS
      <4>1. CASE e = ext[q]
        BY <2>4, <4>1
      <4>2. CASE e # ext[q]
        BY <2>4, <4>2
      <4> QED BY <4>1, <4>2
    <3> HIDE DEF Held
    <3> QED BY <3>1, <3>2
  <2>6. ASSUME NEW e \in Extent
        PROVE  Held(e) = IF e \notin Waived /\ e = ext[q] THEN Store[e] \cup {q} ELSE Store[e]
    BY DEF Store
  <2>7. Store = [e \in Extent |-> Store[e]]
    BY DEF Store
  <2> QED BY <2>1, <2>5, <2>6, <2>7
<1> QED BY <1>1, <1>2, <1>3 DEF ApplyMutation, histVars, Image!Take

\* What a source object still holds while the migrater is about to remove it
\* lies between what the read must see and the authoritative copy.
LEMMA ServeReadImage == ASSUME NEW q \in Request, DataInv, ServeRead(q) PROVE Image!Answer(q)
<1>1. Stages[q] = "open" /\ Stages' = [Stages EXCEPT ![q] = "ok"]
  BY StageAt, StageMoves DEF DataInv, ServeRead, StageOf
<1>2. UNCHANGED <<Store, Floors, Waived>>
  BY SameStore DEF ServeRead, histVars, Floors, Promised, Waived
<1>3. CASE ~Promised(q)
  <2>1. UNCHANGED Results
    BY <1>3 DEF ServeRead, histVars, Results, Promised, Waived
  <2> QED BY <1>1, <1>2, <1>3, <2>1
          DEF ServeRead, histVars, Promised, Image!Answer, Image!Free
<1>4. CASE Promised(q)
  <2> DEFINE s == content[pool[q]][ext[q]]
  <2>1. /\ content \in [Pool -> [Extent -> SUBSET Mutation]]
        /\ ext[q] \in Extent /\ pool[q] \in Pool
        /\ result \in [Read -> SUBSET Mutation]
        /\ q \in Read
    BY DEF DataInv, TypeOK, ServeRead
  <2>2. Floors[q] \subseteq s
    BY <1>4, <2>1 DEF DataInv, ReadInv, ServeRead, Promised, Floors, Waived
  <2>3. s \subseteq Store[ext[q]]
    <3>1. CASE pool[q] = Home(ext[q])
      BY <1>4, <2>1, <3>1 DEF Store, Promised
    <3>2. CASE pool[q] # Home(ext[q])
      <4>1. /\ migExtent = ext[q] /\ pool[q] = OtherPool(migTo)
            /\ phase \in Moved
        BY <1>4, <2>1, <3>2 DEF DataInv, ReadInv, ServeRead, Promised, Waived, Moved
      <4>2. s \subseteq content[migTo][ext[q]] /\ Home(ext[q]) = migTo
        BY <1>4, <4>1 DEF DataInv, ContentInv, MarkInv, Promised, Waived
      <4> QED BY <1>4, <2>1, <4>2 DEF Store, Promised
    <3> QED BY <3>1, <3>2
  <2>4. Results' = [Results EXCEPT ![q] = s]
    BY <1>4, <2>1 DEF ServeRead, histVars, Results, Promised, Waived
  <2> QED BY <1>1, <1>2, <1>4, <2>2, <2>3, <2>4
          DEF ServeRead, histVars, Promised, Image!Answer, Image!Free
<1> QED BY <1>3, <1>4

LEMMA FailRequestImage == ASSUME NEW q \in Request, DataInv, FailRequest(q) PROVE Image!Refuse(q)
<1>1. Stages[q] = "open" /\ Stages' = [Stages EXCEPT ![q] = "failed"]
  BY StageAt, StageMoves DEF DataInv, FailRequest, StageOf
<1> QED BY <1>1, SameStore, SameReads DEF FailRequest, histVars, Image!Refuse

LEMMA CompleteAioWriteImage ==
  ASSUME NEW q \in Request, DataInv, CompleteAioWrite(q)
  PROVE  Image!Acknowledge(q)
<1>1. Stages[q] = "taken" /\ Stages' = [Stages EXCEPT ![q] = "ok"]
  BY StageAt, StageMoves DEF DataInv, CompleteAioWrite, StageOf
<1> QED BY <1>1, SameStore, SameReads DEF CompleteAioWrite, histVars, Image!Acknowledge

-----------------------------------------------------------------------------
(* The migrater.                                                           *)

LEMMA SameStages == ASSUME UNCHANGED reqVars PROVE UNCHANGED Stages
  BY DEF reqVars, Stages

\* A step that leaves every extent that keeps its promise what it holds, and
\* the requests alone, is invisible.
LEMMA Invisible ==
  ASSUME UNCHANGED <<reqVars, must, astray, strayRead, faulted>>,
         \A e \in Extent \ Waived : content'[Home(e)'][e] = content[Home(e)][e]
  PROVE  UNCHANGED Image!vars
<1>1. UNCHANGED <<Store, Waived>>
  BY DEF Store, Waived
<1>2. UNCHANGED <<Floors, Results, Stages>>
  BY SameReads, SameStages DEF reqVars
<1> QED BY <1>1, <1>2 DEF reqVars, Image!vars

LEMMA LockExtentImage == ASSUME NEW e \in Extent, DataInv, LockExtent(e) PROVE UNCHANGED Image!vars
<1>1. \A f \in Extent : Home(f)' = Home(f)
  <2> SUFFICES ASSUME NEW f \in Extent, Home(f)' # Home(f) PROVE FALSE
    OBVIOUS
  <2>1. [Next]_vars
    BY DEF Next
  <2> QED BY <2>1, HomeChanges DEF LockExtent, UpdateExtentMap
<1> QED BY <1>1, Invisible DEF LockExtent, histVars

LEMMA QuietStepImage ==
  ASSUME DataInv,
         \/ StartFlush \/ SubmitCopyRead \/ SubmitCopyWrite \/ SubmitRemove
         \/ StickAtCopyWrite \/ StickAtRemove \/ SnapSet \/ SnapUnset
  PROVE  UNCHANGED Image!vars
<1>1. UNCHANGED <<extentMap, content, reqVars, histVars>>
  BY SnapLeavesAll DEF StartFlush, SubmitCopyRead, SubmitCopyWrite, SubmitRemove,
      StickAtCopyWrite, StickAtRemove
<1> QED BY <1>1, Invisible DEF histVars, Home

LEMMA CopyReadImage ==
  ASSUME NEW ok \in BOOLEAN, DataInv, CopyRead(ok)
  PROVE  Image!Waive(migExtent) \/ UNCHANGED Image!vars
<1>1. CASE faulted' = faulted
  BY <1>1, Invisible DEF CopyRead, Home
<1>2. CASE faulted' = faulted \cup {migExtent}
  <2>1. migExtent \in Extent /\ Waived' = Waived \cup {migExtent}
    BY <1>2 DEF DataInv, TypeOK, CopyRead, Waived
  <2> QED BY <2>1, WaiveImage, SameStages DEF CopyRead, reqVars
<1> QED BY <1>1, <1>2 DEF CopyRead

\* write_full only touches the target object.
LEMMA CopyWriteImage ==
  ASSUME NEW ok \in BOOLEAN, DataInv, CopyWrite(ok)
  PROVE  Image!Waive(migExtent) \/ UNCHANGED Image!vars
<1>1. CASE ok
  <2>1. content \in [Pool -> [Extent -> SUBSET Mutation]] /\ migTo \in Pool
    BY DEF DataInv, TypeOK
  <2>2. \A e \in Extent : Home(e)' = Home(e)
    BY DEF CopyWrite, Home
  <2>3. \A e \in Extent : content'[Home(e)][e] = content[Home(e)][e]
    BY <1>1, <2>1, MigraterOffHome, HomeInPool DEF CopyWrite
  <2> QED BY <1>1, <2>2, <2>3, Invisible DEF CopyWrite
<1>2. CASE ~ok
  <2>1. migExtent \in Extent /\ Waived' = Waived \cup {migExtent}
    BY <1>2 DEF DataInv, TypeOK, CopyWrite, Waived
  <2> QED BY <1>2, <2>1, WaiveImage, SameStages DEF CopyWrite, reqVars
<1> QED BY <1>1, <1>2

\* The map is repointed between objects that hold the same.
LEMMA UpdateExtentMapImage == ASSUME DataInv, UpdateExtentMap PROVE UNCHANGED Image!vars
<1>1. ASSUME NEW e \in Extent \ Waived
      PROVE  content[Home(e)'][e] = content[Home(e)][e]
  <2>1. [Next]_vars
    BY DEF Next, MigraterStep
  <2> QED BY <1>1, <2>1, RepointsBetweenEquals DEF Waived
<1> QED BY <1>1, Invisible DEF UpdateExtentMap, histVars

LEMMA RemoveSourceImage ==
  ASSUME NEW ok \in BOOLEAN, DataInv, RemoveSource(ok)
  PROVE  UNCHANGED Image!vars
<1>1. content \in [Pool -> [Extent -> SUBSET Mutation]]
  BY DEF DataInv, TypeOK
<1>2. \A e \in Extent : Home(e)' = Home(e)
  BY DEF RemoveSource, Home
<1>3. \A e \in Extent : content'[Home(e)][e] = content[Home(e)][e]
  BY <1>1, MigraterOffHome, HomeInPool DEF RemoveSource
<1> QED BY <1>2, <1>3, Invisible DEF RemoveSource

-----------------------------------------------------------------------------
LEMMA InitImage == Init => Image!Init
<1> SUFFICES ASSUME Init PROVE Image!Init
  OBVIOUS
<1>1. Store = [e \in Extent |-> {}] /\ Waived = {}
  BY DEF Init, Store, Waived, Home, SettledPool, Pool, HDD_POOL, SSD_POOL,
      HDD_STRIDE, MIGRATING_TO_SSD, MIGRATING_TO_HDD
<1>2. Stages = [q \in Request |-> "new"]
  BY DEF Init, Stages, StageOf
<1>3. Floors = [r \in Read |-> {}] /\ Results = [r \in Read |-> {}]
  BY DEF Init, Floors, Results
<1>4. ext \in [Image!Request -> Extent] /\ Image!Request = Request
  BY DEF Init, Image!Request, Request
<1> QED BY <1>1, <1>2, <1>3, <1>4 DEF Init, Image!Init

LEMMA NextImage == ASSUME DataInv, [Next]_vars PROVE [Image!Next]_(Image!vars)
<1> USE DEF Image!Next, Image!Request
<1>1. ASSUME NEW q \in Request, ClientStep(q) PROVE [Image!Next]_(Image!vars)
  <2>1. QueueAioWrite(q) => ext[q] \in Extent
    BY DEF DataInv, TypeOK
  <2>2. SubmitRead(q) => q \in Read
    BY DEF SubmitRead
  <2> QED BY <1>1, <2>1, <2>2, InvokeImage, GetPoolImage, DiscardPoolImage,
            QueueAioWriteImage, RefuseWriteImage, SubmitWriteImage, SubmitReadImage
          DEF ClientStep, Request
<1>2. ASSUME NEW q \in Request, RadosStep(q) PROVE [Image!Next]_(Image!vars)
  <2>1. (ApplyMutation(q) \/ CompleteAioWrite(q) => q \in Mutation) /\ (ServeRead(q) => q \in Read)
    BY DEF ApplyMutation, CompleteAioWrite, ServeRead
  <2> QED BY <1>2, <2>1, ApplyMutationImage, ServeReadImage, FailRequestImage,
            CompleteAioWriteImage DEF RadosStep, Request
<1>3. ASSUME NEW e \in Extent, LockExtent(e) PROVE [Image!Next]_(Image!vars)
  BY <1>3, LockExtentImage
<1>4. CASE MigraterStep
  <2>1. migExtent \in Extent
    BY DEF DataInv, TypeOK
  <2> QED BY <1>4, <2>1, QuietStepImage, CopyReadImage, CopyWriteImage,
            UpdateExtentMapImage, RemoveSourceImage DEF MigraterStep
<1>5. CASE UNCHANGED vars
  BY <1>5, Invisible DEF vars, histVars, Home
<1>6. CASE SnapSet \/ SnapUnset
  BY <1>6, QuietStepImage
<1> QED BY <1>1, <1>2, <1>3, <1>4, <1>5, <1>6 DEF Next

\* The data path of aio_write, aio_read and aio_discard together with
\* do_concurrent_migrate implements an image store without pools.
THEOREM MigrationIsInvisible == Spec => ImplementsImageStore
<1>1. Init => Image!Init
  BY InitImage
<1>2. IInv /\ [Next]_vars => [Image!Next]_(Image!vars)
  BY NextImage DEF IInv
<1> QED BY <1>1, <1>2, Invariance, PTL DEF Spec, ImplementsImageStore, Image!Spec
=============================================================================

----------------------- MODULE ExtentMigrationProofs -----------------------
(***************************************************************************)
(* The safety properties of ExtentMigration, for any sets of extents and   *)
(* requests.  IInv is inductive: MarkInv ties the mark in the extent map   *)
(* to the progress of the migrater, FlowInv says where the mutations under *)
(* way are bound for, ContentInv what the two objects and the migrater's   *)
(* buffer hold, ReadInv what a read under way can still see, and StaleInv  *)
(* that the pool an extent is not in has nothing of it; these are DataInv. *)
(* AwaitInv adds that whom the migrater waits for has been listed or       *)
(* submitted, so that nobody can come back into its waits.                 *)
(***************************************************************************)
EXTENDS ExtentMigration, TLAPS

LEMMA HomeInPool ==
  ASSUME NEW e \in Extent
  PROVE  Home(e) \in Pool /\ OtherPool(Home(e)) \in Pool /\ OtherPool(Home(e)) # Home(e)
  BY DEF Home, SettledPool, OtherPool, Pool, HDD_POOL, SSD_POOL

(* Every action preserves the invariant.                                   *)

LEMMA InvokePreserves == ASSUME NEW q \in Request, DataInv, Invoke(q) PROVE DataInv'
<1>1. TypeOK'
  <2>1. /\ content \in [Pool -> [Extent -> SUBSET Mutation]]
        /\ ext[q] \in Extent
        /\ Home(ext[q]) \in Pool
    BY HomeInPool DEF DataInv, TypeOK
  <2>2. must' \in [Read -> SUBSET Mutation]
    BY <2>1 DEF DataInv, TypeOK, snapVars, Invoke
  <2>3. pc' \in [Request -> Progress]
    BY DEF DataInv, TypeOK, Progress, Invoke
  <2> QED
    BY <2>2, <2>3 DEF DataInv, TypeOK, Invoke, snapVars, migVars
<1>2. MarkInv'
  BY DEF DataInv, MarkInv, Invoke, Home, migVars
<1>3. FlowInv'
  BY DEF DataInv, FlowInv, UnderWay, Invoke, Home, migVars
<1>4. ContentInv'
  BY DEF DataInv, ContentInv, Moved, Effective, Invoke, Home, migVars
<1>5. ReadInv'
  <2>1. /\ UNCHANGED <<ext, pool, strayRead, astray, faulted, extentMap, content, result, migVars>>
        /\ pc[q] = "new" /\ pc' = [pc EXCEPT ![q] = "poll"]
        /\ must' = IF q \in Read THEN [must EXCEPT ![q] = content[Home(ext[q])][ext[q]]] ELSE must
        /\ must \in [Read -> SUBSET Mutation] /\ pc \in [Request -> Progress]
        /\ ReadInv
    BY DEF DataInv, TypeOK, Invoke
  <2>2. \A r \in Read : r # q => pc'[r] = pc[r] /\ must'[r] = must[r]
    BY <2>1
  <2>3. /\ pc'[q] = "poll"
        /\ q \in Read => must'[q] = content[Home(ext[q])][ext[q]]
    BY <2>1
  <2>4. q \notin strayRead
    BY <2>1 DEF ReadInv
  <2>5. ASSUME NEW r \in strayRead
        PROVE  pc'[r] \in {"submitted", "done", "failed"}
    BY <2>1, <2>4 DEF ReadInv
  <2>6. ASSUME NEW r \in Read \ strayRead, ext[r] \notin astray \cup faulted
        PROVE  /\ pc'[r] \in {"poll", "chosen"} => must'[r] \subseteq content[Home(ext[r])][ext[r]]
               /\ pc'[r] = "submitted" =>
                    /\ must'[r] \subseteq content[pool[r]][ext[r]]
                    /\ \/ pool[r] = Home(ext[r])
                       \/ /\ migExtent = ext[r]
                          /\ pool[r] = OtherPool(migTo)
                          /\ phase \in {"moved", "stuckRemove"} \/ (phase = "removing" /\ r \in ahead)
               /\ pc'[r] = "done" => must'[r] \subseteq result[r]
    <3>1. CASE r = q
      BY <2>3, <3>1
    <3>2. CASE r # q
      BY <2>1, <2>2, <2>6, <3>2 DEF ReadInv
    <3> QED BY <3>1, <3>2
  <2>7. \A e : Home(e)' = Home(e)
    BY <2>1 DEF Home
  <2> QED BY SMTT(30), <2>1, <2>5, <2>6, <2>7 DEF ReadInv, migVars
<1>6. StaleInv'
  BY DEF migVars, DataInv, StaleInv, Home, Invoke
<1> QED BY <1>1, <1>2, <1>3, <1>4, <1>5, <1>6 DEF DataInv

LEMMA GetPoolPreserves == ASSUME NEW q \in Request, DataInv, GetPool(q) PROVE DataInv'
<1>1. TypeOK'
  BY DEF DataInv, TypeOK, snapVars, Pool, Progress, GetPool, SettledPool, migVars,
      histVars
<1>2. MarkInv'
  BY DEF DataInv, MarkInv, GetPool, Home, migVars
<1>3. FlowInv'
  BY DEF DataInv, FlowInv, UnderWay, GetPool, Home, migVars, histVars
<1>4. ContentInv'
  BY DEF DataInv, ContentInv, Moved, Effective, GetPool, Home, migVars, histVars
<1>5. ReadInv'
  BY SMTT(30) DEF DataInv, ReadInv, GetPool, Home, migVars, histVars
<1>6. StaleInv'
  BY DEF histVars, migVars, DataInv, StaleInv, Home, GetPool
<1> QED BY <1>1, <1>2, <1>3, <1>4, <1>5, <1>6 DEF DataInv

LEMMA DiscardPoolPreserves == ASSUME NEW q \in Request, DataInv, DiscardPool(q) PROVE DataInv'
<1>1. TypeOK'
  BY DEF DataInv, TypeOK, snapVars, Pool, Progress, DiscardPool, migVars, histVars,
      DEFAULT_POOL
<1>2. MarkInv'
  BY DEF DataInv, MarkInv, DiscardPool, Home, migVars
<1>3. FlowInv'
  BY DEF DataInv, FlowInv, UnderWay, DiscardPool, Home, migVars, histVars
<1>4. ContentInv'
  BY SMTT(30) DEF DataInv, ContentInv, Moved, Effective, DiscardPool, Home, migVars, histVars
<1>5. ReadInv'
  BY SMTT(30), RequestsAreDisjoint DEF DataInv, ReadInv, DiscardPool, Home,
      migVars, histVars
<1>6. StaleInv'
  BY DEF histVars, migVars, DataInv, StaleInv, Home, DiscardPool
<1> QED BY <1>1, <1>2, <1>3, <1>4, <1>5, <1>6 DEF DataInv

LEMMA QueueAioWritePreserves == ASSUME NEW q \in Request, DataInv, QueueAioWrite(q) PROVE DataInv'
<1>1. TypeOK'
  BY DEF DataInv, TypeOK, snapVars, Progress, QueueAioWrite, migVars
<1>2. MarkInv'
  BY DEF DataInv, MarkInv, QueueAioWrite, Home, migVars
<1>3. FlowInv'
  BY DEF DataInv, FlowInv, UnderWay, Copying, QueueAioWrite, TooLate, Home,
      migVars
<1>4. ContentInv'
  BY SMTT(30) DEF DataInv, ContentInv, Moved, Effective, QueueAioWrite, Home, migVars
<1>5. ReadInv'
  BY SMTT(30) DEF DataInv, ReadInv, QueueAioWrite, Home, migVars
<1>6. StaleInv'
  BY DEF migVars, DataInv, StaleInv, Home, QueueAioWrite
<1> QED BY <1>1, <1>2, <1>3, <1>4, <1>5, <1>6 DEF DataInv

LEMMA RefuseWritePreserves == ASSUME NEW q \in Request, DataInv, RefuseWrite(q) PROVE DataInv'
<1>1. TypeOK'
  BY DEF DataInv, TypeOK, snapVars, Progress, RefuseWrite, migVars, histVars
<1>2. MarkInv'
  BY DEF DataInv, MarkInv, RefuseWrite, Home, migVars
<1>3. FlowInv'
  BY DEF DataInv, FlowInv, UnderWay, RefuseWrite, Home, migVars, histVars
<1>4. ContentInv'
  BY DEF DataInv, ContentInv, Moved, Effective, RefuseWrite, Home, migVars, histVars
<1>5. ReadInv'
  BY SMTT(30), RequestsAreDisjoint DEF DataInv, ReadInv, RefuseWrite, Home,
      Mutation, migVars, histVars
<1>6. StaleInv'
  BY DEF histVars, migVars, DataInv, StaleInv, Home, RefuseWrite
<1> QED BY <1>1, <1>2, <1>3, <1>4, <1>5, <1>6 DEF DataInv

LEMMA SubmitWritePreserves == ASSUME NEW q \in Request, DataInv, SubmitWrite(q) PROVE DataInv'
<1>1. TypeOK'
  BY DEF DataInv, TypeOK, snapVars, Progress, SubmitWrite, migVars, histVars
<1>2. MarkInv'
  BY DEF DataInv, MarkInv, SubmitWrite, Home, migVars
<1>3. FlowInv'
  BY DEF DataInv, FlowInv, UnderWay, SubmitWrite, Home, migVars, histVars
<1>4. ContentInv'
  BY SMTT(30) DEF DataInv, ContentInv, Moved, Effective, SubmitWrite, Home, migVars, histVars
<1>5. ReadInv'
  BY SMTT(30), RequestsAreDisjoint DEF DataInv, ReadInv, SubmitWrite, Home,
      Mutation, migVars, histVars
<1>6. StaleInv'
  BY DEF histVars, migVars, DataInv, StaleInv, Home, SubmitWrite
<1> QED BY <1>1, <1>2, <1>3, <1>4, <1>5, <1>6 DEF DataInv

LEMMA SubmitReadPreserves == ASSUME NEW q \in Request, DataInv, SubmitRead(q) PROVE DataInv'
<1>1. TypeOK'
  BY DEF DataInv, TypeOK, snapVars, Progress, SubmitRead, migVars
<1>2. MarkInv'
  BY DEF DataInv, MarkInv, SubmitRead, Home, migVars
<1>3. FlowInv'
  BY RequestsAreDisjoint DEF DataInv, FlowInv, UnderWay, SubmitRead, Home,
      Mutation, migVars
<1>4. ContentInv'
  BY DEF DataInv, ContentInv, Moved, Effective, SubmitRead, Home, migVars
<1>5. ReadInv'
  BY SMTT(30) DEF DataInv, TypeOK, ReadInv, SubmitRead, Home, migVars
<1>6. StaleInv'
  BY DEF migVars, DataInv, StaleInv, Home, SubmitRead
<1> QED BY <1>1, <1>2, <1>3, <1>4, <1>5, <1>6 DEF DataInv

LEMMA ApplyMutationPreserves == ASSUME NEW q \in Request, DataInv, ApplyMutation(q) PROVE DataInv'
<1>1. TypeOK'
  BY DEF DataInv, TypeOK, snapVars, Progress, ApplyMutation, migVars, histVars
<1>2. MarkInv'
  BY DEF DataInv, MarkInv, ApplyMutation, Home, migVars
<1>3. FlowInv'
  BY DEF DataInv, FlowInv, UnderWay, ApplyMutation, Home, migVars, histVars
<1>4. ContentInv'
  BY SMTT(30) DEF DataInv, TypeOK, MarkInv, FlowInv, ContentInv, UnderWay, Copying,
      Effective, ApplyMutation, Home, OtherPool, Pool, HDD_POOL, SSD_POOL,
      migVars, histVars
<1>5. ReadInv'
  BY SMTT(30), RequestsAreDisjoint DEF DataInv, TypeOK, ReadInv, ApplyMutation, Home,
      Mutation, migVars, histVars
<1>6. StaleInv'
  BY SMTT(30) DEF MarkInv, FlowInv, UnderWay, OtherPool, histVars, HDD_POOL,
      SSD_POOL, MIGRATING_TO_SSD, MIGRATING_TO_HDD, migVars, DataInv, StaleInv,
      Home, ApplyMutation
<1> QED BY <1>1, <1>2, <1>3, <1>4, <1>5, <1>6 DEF DataInv

LEMMA ServeReadPreserves == ASSUME NEW q \in Request, DataInv, ServeRead(q) PROVE DataInv'
<1>1. TypeOK'
  BY DEF DataInv, TypeOK, snapVars, Progress, ServeRead, migVars, histVars
<1>2. MarkInv'
  BY DEF DataInv, MarkInv, ServeRead, Home, migVars
<1>3. FlowInv'
  BY DEF DataInv, FlowInv, UnderWay, ServeRead, Home, migVars, histVars
<1>4. ContentInv'
  BY RequestsAreDisjoint DEF DataInv, ContentInv, Moved, Effective, ServeRead, Home,
      Mutation, migVars, histVars
<1>5. ReadInv'
  BY SMTT(30) DEF DataInv, TypeOK, ReadInv, ServeRead, Home, migVars, histVars
<1>6. StaleInv'
  BY DEF histVars, migVars, DataInv, StaleInv, Home, ServeRead
<1> QED BY <1>1, <1>2, <1>3, <1>4, <1>5, <1>6 DEF DataInv

LEMMA FailRequestPreserves == ASSUME NEW q \in Request, DataInv, FailRequest(q) PROVE DataInv'
<1>1. TypeOK'
  BY DEF DataInv, TypeOK, snapVars, Progress, FailRequest, migVars, histVars
<1>2. MarkInv'
  BY DEF DataInv, MarkInv, FailRequest, Home, migVars
<1>3. FlowInv'
  BY DEF DataInv, FlowInv, UnderWay, FailRequest, Home, migVars, histVars
<1>4. ContentInv'
  BY DEF DataInv, ContentInv, Moved, Effective, FailRequest, Home, migVars, histVars
<1>5. ReadInv'
  BY SMTT(30) DEF DataInv, ReadInv, FailRequest, Home, migVars, histVars
<1>6. StaleInv'
  BY DEF histVars, migVars, DataInv, StaleInv, Home, FailRequest
<1> QED BY <1>1, <1>2, <1>3, <1>4, <1>5, <1>6 DEF DataInv

LEMMA CompleteAioWritePreserves == ASSUME NEW q \in Request, DataInv, CompleteAioWrite(q) PROVE DataInv'
<1>1. TypeOK'
  BY DEF DataInv, TypeOK, snapVars, Progress, CompleteAioWrite, migVars, histVars
<1>2. MarkInv'
  BY DEF DataInv, MarkInv, CompleteAioWrite, Home, migVars
<1>3. FlowInv'
  BY DEF DataInv, FlowInv, UnderWay, CompleteAioWrite, Home, migVars, histVars
<1>4. ContentInv'
  BY DEF DataInv, ContentInv, Moved, Effective, CompleteAioWrite, Home, migVars,
      histVars
<1>5. ReadInv'
  BY SMTT(30), RequestsAreDisjoint DEF DataInv, ReadInv, CompleteAioWrite, Home,
      Mutation, migVars, histVars
<1>6. StaleInv'
  BY DEF histVars, migVars, DataInv, StaleInv, Home, CompleteAioWrite
<1> QED BY <1>1, <1>2, <1>3, <1>4, <1>5, <1>6 DEF DataInv

LEMMA LockExtentPreserves == ASSUME NEW e \in Extent, DataInv, LockExtent(e) PROVE DataInv'
<1>1. TypeOK'
  BY DEF DataInv, TypeOK, snapVars, Pool, Phase, LockExtent, OtherPool, reqVars, histVars
<1>2. MarkInv'
  BY DEF DataInv, TypeOK, MarkInv, Marked, Moved, LockExtent, Migrating
<1>3. FlowInv'
  BY DEF DataInv, MarkInv, FlowInv, Marked, Moved, UnderWay, Copying, LockExtent,
      Home, SettledPool, OtherPool, Migrating, reqVars, histVars,
      MIGRATING_TO_SSD, MIGRATING_TO_HDD
<1>4. ContentInv'
  BY SMTT(30) DEF DataInv, MarkInv, ContentInv, Marked, Moved, Effective, LockExtent, Home,
      SettledPool, OtherPool, Migrating, reqVars, histVars,
      MIGRATING_TO_SSD, MIGRATING_TO_HDD
<1>5. ReadInv'
  BY SMTT(30) DEF DataInv, MarkInv, ReadInv, Marked, Moved, LockExtent, Home,
      SettledPool, OtherPool, Migrating, reqVars, histVars,
      MIGRATING_TO_SSD, MIGRATING_TO_HDD
<1>6. StaleInv'
  BY DEF MarkInv, Marked, Moved, Migrating, histVars, DataInv, StaleInv, Home,
      LockExtent
<1> QED BY <1>1, <1>2, <1>3, <1>4, <1>5, <1>6 DEF DataInv

LEMMA StartFlushPreserves == ASSUME DataInv, StartFlush PROVE DataInv'
<1>1. TypeOK'
  BY DEF DataInv, TypeOK, snapVars, Phase, StartFlush, AioWriteList, reqVars, histVars
<1>2. MarkInv'
  BY DEF DataInv, MarkInv, Marked, Moved, StartFlush
<1>3. FlowInv'
  BY DEF DataInv, TypeOK, MarkInv, FlowInv, Pool, Marked, Moved, UnderWay, Copying,
      StartFlush, Home, OtherPool, AioWriteList, reqVars, histVars,
      MIGRATING_TO_SSD, MIGRATING_TO_HDD
<1>4. ContentInv'
  BY DEF DataInv, ContentInv, Moved, Effective, StartFlush, Home, reqVars, histVars
<1>5. ReadInv'
  BY DEF DataInv, ReadInv, StartFlush, Home, reqVars, histVars
<1>6. StaleInv'
  BY DEF Marked, Moved, histVars, DataInv, StaleInv, Home, StartFlush
<1> QED BY <1>1, <1>2, <1>3, <1>4, <1>5, <1>6 DEF DataInv

LEMMA SubmitCopyReadPreserves == ASSUME DataInv, SubmitCopyRead PROVE DataInv'
<1>1. TypeOK'
  BY DEF DataInv, TypeOK, snapVars, Phase, SubmitCopyRead, AtSnapshot, Outstanding,
      reqVars, histVars
<1>2. MarkInv'
  BY DEF DataInv, MarkInv, Marked, Moved, SubmitCopyRead
<1>3. FlowInv'
  BY DEF DataInv, TypeOK, MarkInv, FlowInv, Pool, Marked, Moved, UnderWay,
      SubmitCopyRead, Home, OtherPool, AioWriteList, reqVars, histVars,
      MIGRATING_TO_SSD, MIGRATING_TO_HDD
<1>4. ContentInv'
  BY DEF DataInv, ContentInv, Moved, Effective, SubmitCopyRead, Home, reqVars,
      histVars
<1>5. ReadInv'
  BY DEF DataInv, ReadInv, SubmitCopyRead, Home, reqVars, histVars
<1>6. StaleInv'
  BY DEF Marked, Moved, histVars, DataInv, StaleInv, Home, SubmitCopyRead
<1> QED BY <1>1, <1>2, <1>3, <1>4, <1>5, <1>6 DEF DataInv

LEMMA CopyReadPreserves == ASSUME NEW ok \in BOOLEAN, DataInv, CopyRead(ok) PROVE DataInv'
<1>1. TypeOK'
  <2>1. OtherPool(migTo) \in Pool /\ content[OtherPool(migTo)][migExtent] \subseteq Mutation
    BY DEF DataInv, TypeOK, Pool, OtherPool, HDD_POOL, SSD_POOL
  <2>2. migBuf' \subseteq Mutation
    BY <2>1 DEF CopyRead, ReadAmiss
  <2> QED BY <2>2 DEF DataInv, TypeOK, Phase, CopyRead, reqVars
<1>2. MarkInv'
  BY DEF DataInv, MarkInv, Marked, Moved, CopyRead
<1>3. FlowInv'
  BY DEF DataInv, FlowInv, UnderWay, Copying, CopyRead, Home, reqVars
<1>4. ContentInv'
  BY DEF DataInv, ContentInv, Moved, Effective, CopyRead, Home, reqVars
<1>5. ReadInv'
  BY DEF DataInv, ReadInv, CopyRead, Home, reqVars
<1>6. StaleInv'
  BY DEF Marked, Moved, DataInv, StaleInv, Home, CopyRead
<1> QED BY <1>1, <1>2, <1>3, <1>4, <1>5, <1>6 DEF DataInv

LEMMA SubmitCopyWritePreserves == ASSUME DataInv, SubmitCopyWrite PROVE DataInv'
<1>1. TypeOK'
  BY DEF DataInv, TypeOK, snapVars, Phase, SubmitCopyWrite, Outstanding, reqVars,
      histVars
<1>2. MarkInv'
  BY DEF DataInv, MarkInv, Marked, Moved, SubmitCopyWrite
<1>3. FlowInv'
  BY DEF DataInv, FlowInv, UnderWay, Copying, SubmitCopyWrite, Home, reqVars,
      histVars
<1>4. ContentInv'
  BY DEF DataInv, ContentInv, Moved, Effective, SubmitCopyWrite, Home, reqVars,
      histVars
<1>5. ReadInv'
  BY DEF DataInv, ReadInv, SubmitCopyWrite, Home, reqVars, histVars
<1>6. StaleInv'
  BY DEF Marked, Moved, histVars, DataInv, StaleInv, Home, SubmitCopyWrite
<1> QED BY <1>1, <1>2, <1>3, <1>4, <1>5, <1>6 DEF DataInv

LEMMA StickAtCopyWritePreserves == ASSUME DataInv, StickAtCopyWrite PROVE DataInv'
<1>1. TypeOK'
  BY DEF DataInv, TypeOK, snapVars, Phase, StickAtCopyWrite, reqVars, histVars
<1>2. MarkInv'
  BY DEF DataInv, MarkInv, Marked, Moved, StickAtCopyWrite, Home
<1>3. FlowInv'
  BY DEF DataInv, FlowInv, UnderWay, Copying, StickAtCopyWrite, Home, reqVars, histVars
<1>4. ContentInv'
  BY DEF DataInv, ContentInv, Moved, Effective, StickAtCopyWrite, Home, reqVars,
      histVars
<1>5. ReadInv'
  BY DEF DataInv, ReadInv, StickAtCopyWrite, Home, reqVars, histVars
<1>6. StaleInv'
  BY DEF Marked, histVars, DataInv, StaleInv, Home, StickAtCopyWrite
<1> QED BY <1>1, <1>2, <1>3, <1>4, <1>5, <1>6 DEF DataInv

LEMMA CopyWritePreserves == ASSUME NEW ok \in BOOLEAN, DataInv, CopyWrite(ok) PROVE DataInv'
<1>1. TypeOK'
  BY DEF DataInv, TypeOK, snapVars, Phase, CopyWrite, reqVars
<1>2. MarkInv'
  BY DEF DataInv, MarkInv, Marked, Moved, CopyWrite
<1>3. FlowInv'
  BY DEF DataInv, FlowInv, UnderWay, Copying, CopyWrite, Home, reqVars
<1>4. ContentInv'
  BY DEF DataInv, TypeOK, MarkInv, ContentInv, Marked, Moved, Effective, CopyWrite,
      Home, OtherPool, reqVars, MIGRATING_TO_SSD, MIGRATING_TO_HDD
<1>5. ReadInv'
  BY SMTT(30) DEF DataInv, MarkInv, ContentInv, ReadInv, Marked, Moved, CopyWrite, Home,
      OtherPool, reqVars, MIGRATING_TO_SSD, MIGRATING_TO_HDD
<1>6. StaleInv'
  BY DEF DataInv, StaleInv, Home, CopyWrite
<1> QED BY <1>1, <1>2, <1>3, <1>4, <1>5, <1>6 DEF DataInv

LEMMA UpdateExtentMapPreserves == ASSUME DataInv, UpdateExtentMap PROVE DataInv'
<1>1. TypeOK'
  BY DEF DataInv, TypeOK, snapVars, Phase, UpdateExtentMap, reqVars, histVars
<1>2. MarkInv'
  BY DEF DataInv, TypeOK, MarkInv, Pool, Marked, Moved, UpdateExtentMap, Home,
      SettledPool, Migrating, HDD_STRIDE, SSD_STRIDE, MIGRATING_TO_SSD,
      MIGRATING_TO_HDD
<1>3. FlowInv'
  BY DEF DataInv, FlowInv, UnderWay, Copying, UpdateExtentMap, Home, reqVars,
      histVars
<1>4. ContentInv'
  BY SMTT(30) DEF DataInv, UpdateExtentMap, ContentInv, Moved, Effective, Mutation, Request,
      TypeOK, MarkInv, Marked, Moved, Migrating, Home, OtherPool, SettledPool,
      Pool, reqVars, histVars, HDD_POOL, SSD_POOL, HDD_STRIDE, SSD_STRIDE,
      MIGRATING_TO_SSD, MIGRATING_TO_HDD
<1>5. ReadInv'
  BY SMTT(30) DEF DataInv, UpdateExtentMap, ReadInv, ContentInv, Moved, Effective,
      Outstanding, Mutation, Request, TypeOK, MarkInv, Marked, Moved, Migrating,
      Home, OtherPool, SettledPool, Pool, reqVars, histVars, HDD_POOL,
      SSD_POOL, HDD_STRIDE, SSD_STRIDE, MIGRATING_TO_SSD, MIGRATING_TO_HDD
<1>6. StaleInv'
  BY DEF Marked, Moved, histVars, DataInv, StaleInv, Home, UpdateExtentMap
<1> QED BY <1>1, <1>2, <1>3, <1>4, <1>5, <1>6 DEF DataInv

LEMMA SubmitRemovePreserves == ASSUME DataInv, SubmitRemove PROVE DataInv'
<1>1. TypeOK'
  BY DEF DataInv, TypeOK, snapVars, Phase, Pool, reqVars, histVars, HDD_STRIDE,
      SSD_STRIDE, HDD_POOL, SSD_POOL, SubmitRemove, Outstanding
<1>2. MarkInv'
  BY DEF DataInv, SubmitRemove, TypeOK, MarkInv, Marked, Moved, Migrating, Home,
      OtherPool, SettledPool, Pool, reqVars, histVars, HDD_POOL, SSD_POOL,
      HDD_STRIDE, SSD_STRIDE, MIGRATING_TO_SSD, MIGRATING_TO_HDD
<1>3. FlowInv'
  BY DEF DataInv, SubmitRemove, FlowInv, UnderWay, Copying, TypeOK, MarkInv,
      Marked, Moved, Migrating, Home, OtherPool, SettledPool, Pool, reqVars,
      histVars, HDD_POOL, SSD_POOL, HDD_STRIDE, SSD_STRIDE,
      MIGRATING_TO_SSD, MIGRATING_TO_HDD
<1>4. ContentInv'
  BY SMTT(30) DEF DataInv, SubmitRemove, ContentInv, Moved, Effective, Mutation, Request,
      TypeOK, MarkInv, Marked, Moved, Migrating, Home, OtherPool, SettledPool,
      Pool, reqVars, histVars, HDD_POOL, SSD_POOL, HDD_STRIDE, SSD_STRIDE,
      MIGRATING_TO_SSD, MIGRATING_TO_HDD
<1>5. ReadInv'
  BY SMTT(30) DEF DataInv, SubmitRemove, ReadInv, ContentInv, Moved, Effective,
      Outstanding, Mutation, Request, TypeOK, MarkInv, Marked, Moved, Migrating,
      Home, OtherPool, SettledPool, Pool, reqVars, histVars, HDD_POOL,
      SSD_POOL, HDD_STRIDE, SSD_STRIDE, MIGRATING_TO_SSD, MIGRATING_TO_HDD
<1>6. StaleInv'
  BY DEF Marked, Moved, histVars, DataInv, StaleInv, Home, SubmitRemove
<1> QED BY <1>1, <1>2, <1>3, <1>4, <1>5, <1>6 DEF DataInv

LEMMA StickAtRemovePreserves == ASSUME DataInv, StickAtRemove PROVE DataInv'
<1>1. TypeOK'
  BY DEF DataInv, TypeOK, snapVars, Phase, StickAtRemove, reqVars, histVars
<1>2. MarkInv'
  BY DEF DataInv, MarkInv, Marked, Moved, StickAtRemove, Home
<1>3. FlowInv'
  BY DEF DataInv, FlowInv, UnderWay, Copying, StickAtRemove, Home, reqVars, histVars
<1>4. ContentInv'
  BY DEF DataInv, ContentInv, Moved, Effective, StickAtRemove, Home, reqVars,
      histVars
<1>5. ReadInv'
  BY DEF DataInv, ReadInv, StickAtRemove, Home, reqVars, histVars
<1>6. StaleInv'
  BY DEF Marked, histVars, DataInv, StaleInv, Home, StickAtRemove
<1> QED BY <1>1, <1>2, <1>3, <1>4, <1>5, <1>6 DEF DataInv

LEMMA RemoveSourcePreserves == ASSUME NEW ok \in BOOLEAN, DataInv, RemoveSource(ok) PROVE DataInv'
<1>1. TypeOK'
  BY DEF DataInv, TypeOK, snapVars, Phase, Pool, reqVars, histVars, HDD_STRIDE,
      SSD_STRIDE, HDD_POOL, SSD_POOL, RemoveSource, Outstanding
<1>2. MarkInv'
  BY DEF DataInv, RemoveSource, TypeOK, MarkInv, Marked, Moved, Migrating, Home,
      OtherPool, SettledPool, Pool, reqVars, histVars, HDD_POOL, SSD_POOL,
      HDD_STRIDE, SSD_STRIDE, MIGRATING_TO_SSD, MIGRATING_TO_HDD
<1>3. FlowInv'
  BY DEF DataInv, RemoveSource, FlowInv, UnderWay, Copying, TypeOK, MarkInv,
      Marked, Moved, Migrating, Home, OtherPool, SettledPool, Pool, reqVars,
      histVars, HDD_POOL, SSD_POOL, HDD_STRIDE, SSD_STRIDE,
      MIGRATING_TO_SSD, MIGRATING_TO_HDD
<1>4. ContentInv'
  BY SMTT(30) DEF DataInv, RemoveSource, ContentInv, Moved, Effective, Mutation, Request,
      TypeOK, MarkInv, Marked, Moved, Migrating, Home, OtherPool, SettledPool,
      Pool, reqVars, histVars, HDD_POOL, SSD_POOL, HDD_STRIDE, SSD_STRIDE,
      MIGRATING_TO_SSD, MIGRATING_TO_HDD
<1>5. ReadInv'
  BY SMTT(30) DEF DataInv, RemoveSource, ReadInv, ContentInv, Moved, Effective,
      Outstanding, Mutation, Request, TypeOK, MarkInv, Marked, Moved, Migrating,
      Home, OtherPool, SettledPool, Pool, reqVars, histVars, HDD_POOL,
      SSD_POOL, HDD_STRIDE, SSD_STRIDE, MIGRATING_TO_SSD, MIGRATING_TO_HDD
<1>6. StaleInv'
  BY SMTT(30) DEF TypeOK, MarkInv, Marked, Moved, OtherPool, Pool, DataInv, StaleInv, Home,
      RemoveSource
<1> QED BY <1>1, <1>2, <1>3, <1>4, <1>5, <1>6 DEF DataInv

-----------------------------------------------------------------------------
LEMMA InitInv == ASSUME Init PROVE DataInv
<1>1. TypeOK
  BY DEF Init, TypeOK, Pool, Progress, Phase, Request, Mutation, HDD_POOL,
      SSD_POOL, DEFAULT_POOL, HDD_STRIDE
<1>2. MarkInv
  BY DEF Init, MarkInv, Marked, Moved, Migrating, HDD_STRIDE, MIGRATING_TO_SSD,
      MIGRATING_TO_HDD
<1>3. FlowInv
  BY DEF Init, FlowInv, UnderWay, Request
<1>4. ContentInv
  BY DEF Init, ContentInv, Moved, Effective, Request
<1>5. ReadInv
  BY DEF Init, ReadInv, Request
<1>6. StaleInv
  BY DEF Init, StaleInv, Marked, Moved, Pool, OtherPool, HDD_POOL, SSD_POOL
<1> QED BY <1>1, <1>2, <1>3, <1>4, <1>5, <1>6 DEF DataInv

\* Setting the image to a snapshot, or back, concerns no object.
LEMMA SnapPreserves == ASSUME DataInv, SnapSet \/ SnapUnset PROVE DataInv'
<1>0. UNCHANGED <<extentMap, content, migSnap, reqVars, migVars, histVars>> /\ snapSet' \in BOOLEAN
  BY DEF SnapSet, SnapUnset
<1> USE DEF DataInv, reqVars, migVars, histVars
<1>1. TypeOK'
  BY <1>0 DEF TypeOK
<1>2. MarkInv'
  BY <1>0 DEF MarkInv, Home
<1>3. FlowInv'
  BY <1>0 DEF FlowInv, UnderWay, Home
<1>4. ContentInv'
  BY <1>0 DEF ContentInv, Moved, Effective, Home
<1>5. ReadInv'
  BY <1>0 DEF ReadInv, Home
<1>6. StaleInv'
  BY <1>0 DEF StaleInv, Home
<1> QED BY <1>1, <1>2, <1>3, <1>4, <1>5, <1>6

LEMMA StutterPreserves == ASSUME DataInv, UNCHANGED vars PROVE DataInv'
<1> USE DEF DataInv, vars, snapVars, reqVars, migVars, histVars
<1>1. TypeOK'
  BY DEF TypeOK
<1>2. MarkInv'
  BY DEF MarkInv, Home
<1>3. FlowInv'
  BY DEF FlowInv, UnderWay, Home
<1>4. ContentInv'
  BY DEF ContentInv, Moved, Effective, Home
<1>5. ReadInv'
  BY DEF ReadInv, Home
<1>6. StaleInv'
  BY DEF StaleInv, Home
<1> QED BY <1>1, <1>2, <1>3, <1>4, <1>5, <1>6

LEMMA NextPreserves == ASSUME DataInv, Next PROVE DataInv'
<1>1. ASSUME NEW q \in Request, ClientStep(q) PROVE DataInv'
  BY <1>1, InvokePreserves, GetPoolPreserves, DiscardPoolPreserves,
     QueueAioWritePreserves, RefuseWritePreserves, SubmitWritePreserves,
     SubmitReadPreserves
     DEF ClientStep
<1>2. ASSUME NEW q \in Request, RadosStep(q) PROVE DataInv'
  BY <1>2, ApplyMutationPreserves, ServeReadPreserves, FailRequestPreserves,
     CompleteAioWritePreserves DEF RadosStep
<1>3. ASSUME NEW e \in Extent, LockExtent(e) PROVE DataInv'
  BY <1>3, LockExtentPreserves
<1>4. CASE MigraterStep
  BY <1>4, StartFlushPreserves, SubmitCopyReadPreserves, CopyReadPreserves,
     SubmitCopyWritePreserves, StickAtCopyWritePreserves, CopyWritePreserves,
     UpdateExtentMapPreserves, SubmitRemovePreserves, StickAtRemovePreserves,
     RemoveSourcePreserves DEF MigraterStep
<1>5. CASE SnapSet \/ SnapUnset
  BY <1>5, SnapPreserves
<1> QED BY <1>1, <1>2, <1>3, <1>4, <1>5 DEF Next

-----------------------------------------------------------------------------
(* Whom the migrater waits for.                                            *)

LEMMA MigraterMoves ==
  ASSUME \/ MigraterStep
         \/ \E e \in Extent : LockExtent(e)
  PROVE  phase' # phase /\ UNCHANGED reqVars
  BY DEF MigraterStep, LockExtent, StartFlush, SubmitCopyRead, CopyRead,
      SubmitCopyWrite, StickAtCopyWrite, CopyWrite, UpdateExtentMap, SubmitRemove,
      StickAtRemove, RemoveSource

LEMMA SnapLeavesAll ==
  ASSUME SnapSet \/ SnapUnset
  PROVE  UNCHANGED <<extentMap, content, reqVars, migVars, histVars>>
  BY DEF SnapSet, SnapUnset

LEMMA ClientLeavesMigrater ==
  ASSUME NEW q \in Request, ClientStep(q) \/ RadosStep(q)
  PROVE  UNCHANGED <<migVars, ext>>
  BY DEF ClientStep, RadosStep, Invoke, GetPool, DiscardPool, QueueAioWrite,
      RefuseWrite, SubmitWrite, SubmitRead, ApplyMutation, ServeRead, FailRequest,
      CompleteAioWrite

\* A request that has its pool keeps it, and none goes back to an earlier stage.
LEMMA RequestsAdvance ==
  ASSUME TypeOK, [Next]_vars, NEW x \in Request
  PROVE  /\ ext' = ext
         /\ pc[x] \notin {"new", "poll", "chosen"} =>
              pc'[x] \notin {"new", "poll", "chosen"} /\ pool'[x] = pool[x]
         /\ pc[x] \notin {"new", "poll", "chosen", "queued"} =>
              pc'[x] \notin {"new", "poll", "chosen", "queued"}
         /\ pc[x] \in {"done", "failed"} => pc'[x] = pc[x]
         /\ pc[x] \in {"applied", "done", "failed"} => pc'[x] # "submitted"
<1> DEFINE Goal ==
         /\ ext' = ext
         /\ pc[x] \notin {"new", "poll", "chosen"} =>
              pc'[x] \notin {"new", "poll", "chosen"} /\ pool'[x] = pool[x]
         /\ pc[x] \notin {"new", "poll", "chosen", "queued"} =>
              pc'[x] \notin {"new", "poll", "chosen", "queued"}
         /\ pc[x] \in {"done", "failed"} => pc'[x] = pc[x]
         /\ pc[x] \in {"applied", "done", "failed"} => pc'[x] # "submitted"
<1>1. pc \in [Request -> Progress] /\ pool \in [Request -> Pool]
  BY DEF TypeOK
<1>2. ASSUME NEW q \in Request, ClientStep(q) PROVE Goal
  <2>1. CASE Invoke(q)
    BY <1>1, <2>1 DEF Invoke
  <2>2. CASE GetPool(q)
    BY <1>1, <2>2 DEF GetPool
  <2>3. CASE DiscardPool(q)
    BY <1>1, <2>3 DEF DiscardPool
  <2>4. CASE QueueAioWrite(q)
    BY <1>1, <2>4 DEF QueueAioWrite
  <2>5. CASE SubmitWrite(q)
    BY <1>1, <2>5 DEF SubmitWrite
  <2>6. CASE SubmitRead(q)
    BY <1>1, <2>6 DEF SubmitRead
  <2>7. CASE RefuseWrite(q)
    BY <1>1, <2>7 DEF RefuseWrite
  <2> QED BY <1>2, <2>1, <2>2, <2>3, <2>4, <2>5, <2>6, <2>7 DEF ClientStep
<1>3. ASSUME NEW q \in Request, RadosStep(q) PROVE Goal
  BY <1>1, <1>3 DEF RadosStep, ApplyMutation, ServeRead, FailRequest,
      CompleteAioWrite
<1>4. ASSUME UNCHANGED reqVars PROVE Goal
  BY <1>4 DEF reqVars
<1>5. UNCHANGED reqVars \/ \E q \in Request : ClientStep(q) \/ RadosStep(q)
  BY MigraterMoves, SnapLeavesAll DEF Next, vars
<1> QED BY <1>2, <1>3, <1>4, <1>5

LEMMA AwaitPreserves == ASSUME TypeOK, AwaitInv, [Next]_vars PROVE AwaitInv'
<1>1. flushing \subseteq Request /\ ahead \subseteq Request
  BY DEF TypeOK, Request
<1>2. \A w \in flushing : pc'[w] \notin {"new", "poll", "chosen"}
  BY <1>1, RequestsAdvance DEF AwaitInv
<1>3. \A q \in ahead : pc'[q] \notin {"new", "poll", "chosen", "queued"}
  BY <1>1, RequestsAdvance DEF AwaitInv
<1>4. flushing' \subseteq flushing \/ (StartFlush /\ flushing' = AioWriteList(OtherPool(migTo)))
  <2>1. CASE MigraterStep
    BY <2>1 DEF MigraterStep, StartFlush, SubmitCopyRead, CopyRead,
        SubmitCopyWrite, StickAtCopyWrite, CopyWrite, UpdateExtentMap,
        SubmitRemove, StickAtRemove, RemoveSource
  <2>2. CASE \E e \in Extent : LockExtent(e)
    BY <2>2 DEF LockExtent
  <2>3. CASE \E q \in Request : ClientStep(q) \/ RadosStep(q)
    BY <2>3, ClientLeavesMigrater DEF migVars
  <2>4. CASE UNCHANGED vars \/ SnapSet \/ SnapUnset
    BY <2>4, SnapLeavesAll DEF vars, migVars
  <2> QED BY <2>1, <2>2, <2>3, <2>4 DEF Next
<1>5. \/ ahead' \subseteq ahead
      \/ UNCHANGED pc /\ \E p \in {migTo, OtherPool(migTo)} : ahead' = Outstanding(p, migExtent)
  <2>1. CASE MigraterStep
    BY <2>1 DEF MigraterStep, StartFlush, SubmitCopyRead, CopyRead, reqVars,
        SubmitCopyWrite, StickAtCopyWrite, CopyWrite, UpdateExtentMap,
        SubmitRemove, StickAtRemove, RemoveSource
  <2>2. CASE \E e \in Extent : LockExtent(e)
    BY <2>2 DEF LockExtent
  <2>3. CASE \E q \in Request : ClientStep(q) \/ RadosStep(q)
    BY <2>3, ClientLeavesMigrater DEF migVars
  <2>4. CASE UNCHANGED vars \/ SnapSet \/ SnapUnset
    BY <2>4, SnapLeavesAll DEF vars, migVars
  <2> QED BY <2>1, <2>2, <2>3, <2>4 DEF Next
<1>6. \A w \in flushing' : pc'[w] \notin {"new", "poll", "chosen"}
  BY <1>2, <1>4 DEF StartFlush, AioWriteList, reqVars
<1>7. \A q \in ahead' : pc'[q] \notin {"new", "poll", "chosen", "queued"}
  BY <1>3, <1>5 DEF Outstanding
<1> QED BY <1>6, <1>7 DEF AwaitInv

\* The inductive invariant holds in every reachable state: the race of the
\* requests' pool lookup with do_concurrent_migrate is described by its parts.
THEOREM Invariance == Spec => []IInv
<1>1. Init => IInv
  BY InitInv DEF Init, AwaitInv, IInv
<1>2. IInv /\ [Next]_vars => IInv'
  <2> SUFFICES ASSUME IInv, [Next]_vars PROVE IInv'
    OBVIOUS
  <2>1. DataInv'
    BY NextPreserves, StutterPreserves DEF IInv
  <2>2. AwaitInv'
    BY AwaitPreserves DEF IInv, DataInv
  <2> QED BY <2>1, <2>2 DEF IInv
<1> QED BY <1>1, <1>2, PTL DEF Spec

-----------------------------------------------------------------------------
(* The safety properties.                                                  *)

\* The extent map holds only the strides and the marks, and every other
\* variable its type.
THEOREM TypeCorrect == Spec => []TypeOK
<1>1. IInv => TypeOK
  BY DEF IInv, DataInv
<1> QED BY <1>1, Invariance, PTL

\* What aio_write and aio_discard acknowledged stays in the object the extent
\* map points at, however often do_concurrent_migrate moves it, as long as no
\* mutation was registered in the wrong pool and no copy met an I/O error.
THEOREM AckedWritesSurvive == Spec => []NoAckedWriteLost
<1>1. IInv => NoAckedWriteLost
  BY DEF IInv, DataInv, ContentInv, Moved, Effective, NoAckedWriteLost, Acked
<1> QED BY <1>1, Invariance, PTL

\* After aio_flush of the source pool do_concurrent_migrate copies an object no
\* mutation is under way to.
THEOREM CopyIsQuiescent == Spec => []QuiescentDuringCopy
<1>1. IInv => QuiescentDuringCopy
  BY DEF IInv, DataInv, FlowInv, UnderWay, Copying, QuiescentDuringCopy
<1> QED BY <1>1, Invariance, PTL

\* aio_read returns every mutation that had taken effect when it was invoked, even
\* when the source object is removed while the read is under way.
THEOREM ReadsAreCurrent == Spec => []ReadsSeeEarlierEffects
<1>1. IInv => ReadsSeeEarlierEffects
  BY DEF IInv, DataInv, ReadInv, ReadsSeeEarlierEffects
<1> QED BY <1>1, Invariance, PTL

\* Between migrations the pool an extent is not in has nothing of it, unless
\* the removal of a source object failed or a mutation went to the wrong pool.
THEOREM NoStaleCopy == Spec => []SingleCopy
<1>1. IInv => SingleCopy
  BY DEF IInv, DataInv, StaleInv, SingleCopy
<1> QED BY <1>1, Invariance, PTL

-----------------------------------------------------------------------------
(* The action properties.                                                  *)

LEMMA MigraterOffHome ==
  ASSUME DataInv
  PROVE  /\ phase = "writing" => Home(migExtent) # migTo
         /\ phase = "removing" => Home(migExtent) # OtherPool(migTo)
  BY DEF DataInv, TypeOK, snapVars, MarkInv, Marked, Moved, Home, OtherPool, Pool, HDD_POOL, SSD_POOL,
      MIGRATING_TO_SSD, MIGRATING_TO_HDD

\* No step, with or without an I/O error, takes anything from the object the
\* extent map points at: write_full and remove only hit the other pool.
THEOREM GrowOnly == Spec => AuthoritativeCopyOnlyGrows
<1> DEFINE Grows == \A p \in Pool, e \in Extent :
                      Home(e) = p => content[p][e] \subseteq content'[p][e]
<1>1. ASSUME DataInv, [Next]_vars PROVE Grows
  <2> SUFFICES ASSUME NEW e \in Extent
               PROVE  content[Home(e)][e] \subseteq content'[Home(e)][e]
    OBVIOUS
  <2> USE <1>1
  <2>1. /\ content \in [Pool -> [Extent -> SUBSET Mutation]]
        /\ Home(e) \in Pool
    BY HomeInPool DEF DataInv, TypeOK
  <2>2. ASSUME NEW w \in Request, ApplyMutation(w)
        PROVE  content[Home(e)][e] \subseteq content'[Home(e)][e]
    BY <2>1, <2>2 DEF ApplyMutation
  <2>3. ASSUME NEW ok \in BOOLEAN, CopyWrite(ok)
        PROVE  content[Home(e)][e] \subseteq content'[Home(e)][e]
    BY <2>1, <2>3, MigraterOffHome DEF CopyWrite
  <2>4. ASSUME NEW ok \in BOOLEAN, RemoveSource(ok)
        PROVE  content[Home(e)][e] \subseteq content'[Home(e)][e]
    BY <2>1, <2>4, MigraterOffHome DEF RemoveSource
  <2>5. ASSUME UNCHANGED content
        PROVE  content[Home(e)][e] \subseteq content'[Home(e)][e]
    BY <2>5
  <2>6. \/ UNCHANGED content
        \/ \E w \in Request : ApplyMutation(w)
        \/ \E ok \in BOOLEAN : CopyWrite(ok) \/ RemoveSource(ok)
    BY DEF Next, vars, ClientStep, RadosStep, MigraterStep, Invoke, GetPool,
        DiscardPool, QueueAioWrite, RefuseWrite, SubmitWrite, SubmitRead,
        ServeRead, FailRequest, CompleteAioWrite, LockExtent, StartFlush,
        SubmitCopyRead, CopyRead, SubmitCopyWrite, StickAtCopyWrite,
        UpdateExtentMap, SubmitRemove, StickAtRemove, SnapSet, SnapUnset
  <2> QED BY <2>2, <2>3, <2>4, <2>5, <2>6
<1>2. IInv /\ [Next]_vars => [Grows]_vars
  BY <1>1 DEF IInv
<1> QED BY <1>2, Invariance, PTL DEF Spec, AuthoritativeCopyOnlyGrows

LEMMA HomeChanges ==
  ASSUME DataInv, [Next]_vars, NEW e \in Extent, Home(e)' # Home(e)
  PROVE  UpdateExtentMap /\ e = migExtent
<1>1. ASSUME NEW f \in Extent, LockExtent(f) PROVE Home(e)' = Home(e)
  BY <1>1 DEF LockExtent, DataInv, TypeOK, MarkInv, Marked, Moved, Migrating, Home, SettledPool,
      OtherPool, Pool, HDD_POOL, SSD_POOL, HDD_STRIDE, SSD_STRIDE,
      MIGRATING_TO_SSD, MIGRATING_TO_HDD
<1>2. ASSUME UNCHANGED extentMap PROVE Home(e)' = Home(e)
  BY <1>2 DEF Home
<1>3. \/ UNCHANGED extentMap
      \/ UpdateExtentMap
      \/ \E f \in Extent : LockExtent(f)
  BY DEF Next, vars, ClientStep, RadosStep, MigraterStep, Invoke, GetPool,
      DiscardPool, QueueAioWrite, RefuseWrite, SubmitWrite, SubmitRead,
      ApplyMutation, ServeRead, FailRequest, CompleteAioWrite, StartFlush,
      SubmitCopyRead, CopyRead, SubmitCopyWrite, StickAtCopyWrite, CopyWrite,
      SubmitRemove, StickAtRemove, RemoveSource, SnapSet, SnapUnset
<1>4. UpdateExtentMap
  BY <1>1, <1>2, <1>3
<1>5. e # migExtent => extentMap'[e] = extentMap[e]
  BY <1>4 DEF UpdateExtentMap, DataInv, TypeOK
<1> QED BY <1>4, <1>5 DEF Home

LEMMA RepointsBetweenEquals ==
  ASSUME DataInv, [Next]_vars, NEW e \in Extent \ (astray \cup faulted), Home(e)' # Home(e)
  PROVE  content[Home(e)'][e] = content[Home(e)][e]
<1>1. UpdateExtentMap /\ e = migExtent
  BY HomeChanges
<1>2. content[migTo][e] = content[OtherPool(migTo)][e]
  BY <1>1 DEF DataInv, ContentInv, UpdateExtentMap
<1>3. Home(e) = OtherPool(migTo)
  BY <1>1 DEF DataInv, TypeOK, MarkInv, Marked, Moved, UpdateExtentMap, Home, OtherPool,
      Pool, HDD_POOL, SSD_POOL, MIGRATING_TO_SSD, MIGRATING_TO_HDD
<1>4. Home(e)' = migTo
  BY <1>1 DEF DataInv, TypeOK, UpdateExtentMap, Home, SettledPool, Pool, HDD_POOL,
      SSD_POOL, HDD_STRIDE, SSD_STRIDE, MIGRATING_TO_SSD, MIGRATING_TO_HDD
<1> QED BY <1>2, <1>3, <1>4

\* do_concurrent_migrate repoints the extent map only to a pool whose object
\* holds exactly what the source object holds.
THEOREM CompleteBeforeRepoint == Spec => RepointToCompleteCopy
<1> DEFINE Complete == \A e \in Extent \ (astray \cup faulted) :
                         Home(e)' # Home(e) => content[Home(e)'][e] = content[Home(e)][e]
<1>1. IInv /\ [Next]_vars => [Complete]_vars
  BY RepointsBetweenEquals DEF IInv
<1> QED BY <1>1, Invariance, PTL DEF Spec, RepointToCompleteCopy

\* What do_concurrent_migrate waits for, in aio_flush or behind the requests
\* RADOS orders before its own, only gets less while it waits.
THEOREM WaitsShrink == Spec => WaitsOnlyShrink
<1> DEFINE Shrinks == phase' = phase => Awaited' \subseteq Awaited
<1>1. ASSUME IInv, [Next]_vars PROVE Shrinks
  <2> SUFFICES ASSUME phase' = phase, NEW x \in Awaited' PROVE x \in Awaited
    OBVIOUS
  <2> USE <1>1
  <2>1. UNCHANGED migVars
    BY MigraterMoves, ClientLeavesMigrater, SnapLeavesAll DEF Next, vars
  <2>2. ASSUME phase = "flushing", x \in flushing, x \in AioWriteList(OtherPool(migTo))'
        PROVE  x \in Awaited
    <3>1. /\ x \in Mutation /\ x \in Request
          /\ pc'[x] \in {"queued", "submitted", "applied"}
          /\ pool'[x] = OtherPool(migTo)
      BY <2>1, <2>2 DEF AioWriteList, Request, migVars
    <3>2. pc[x] \in Progress
      BY <3>1 DEF IInv, DataInv, TypeOK
    <3>3. pc[x] \notin {"new", "poll", "chosen"}
      BY <2>2 DEF IInv, AwaitInv
    <3>4. pc[x] \notin {"done", "failed"} /\ pool[x] = OtherPool(migTo)
      BY <3>1, <3>3, RequestsAdvance DEF IInv, DataInv
    <3> QED BY <2>2, <3>1, <3>2, <3>3, <3>4 DEF Progress, Awaited, AioWriteList
  <2>3. ASSUME NEW p \in Pool, MigraterAt(p, migExtent), x \in ahead,
               x \in Outstanding(p, migExtent)'
        PROVE  x \in Awaited
    <3>1. /\ x \in Request
          /\ pc'[x] = "submitted"
          /\ pool'[x] = p /\ ext'[x] = migExtent
      BY <2>1, <2>3 DEF Outstanding, migVars
    <3>2. pc[x] \in Progress
      BY <3>1 DEF IInv, DataInv, TypeOK
    <3>3. pc[x] \notin {"new", "poll", "chosen", "queued"}
      BY <2>3 DEF IInv, AwaitInv
    <3>4. /\ pc[x] \notin {"applied", "done", "failed"}
          /\ pool[x] = p /\ ext[x] = migExtent
      BY <3>1, <3>3, RequestsAdvance DEF IInv, DataInv
    <3> QED BY <2>3, <3>1, <3>2, <3>3, <3>4 DEF Progress, Awaited, Outstanding
  <2>4. \/ phase = "flushing" /\ x \in flushing /\ x \in AioWriteList(OtherPool(migTo))'
        \/ \E p \in Pool : /\ MigraterAt(p, migExtent) /\ x \in ahead
                            /\ x \in Outstanding(p, migExtent)'
    BY <2>1 DEF Awaited, MigraterAt, migVars
  <2> QED BY <2>2, <2>3, <2>4
<1>2. IInv /\ [Next]_vars => [Shrinks]_vars
  BY <1>1
<1> QED BY <1>2, Invariance, PTL DEF Spec, WaitsOnlyShrink
=============================================================================

-------------------------- MODULE ExtentMigration --------------------------
(***************************************************************************)
(* The data path of WHOBBS: client requests on the extents of one open RBD *)
(* image race with the migrater, which moves whole extents between the HDD *)
(* pool and the SSD pool while the image is in use.                        *)
(*                                                                         *)
(*  - A client request (aio_write, aio_read, aio_discard) reads the extent *)
(*    map without a lock, remembers a pool, registers with that pool's     *)
(*    list of outstanding writes, is submitted to RADOS, takes effect on   *)
(*    the object, and completes.                                           *)
(*  - The migrater (do_concurrent_migrate, always on the analyzer thread)  *)
(*    marks the extent as migrating, flushes the source pool, copies the   *)
(*    object, repoints the extent map and removes the source object.       *)
(*                                                                         *)
(* An object's content is the set of the writes it holds: a write puts one *)
(* range of bytes in the object, a discard puts zeros there, and an absent *)
(* object reads as zeros, which is the empty set.  One extent is one       *)
(* object (EXTENT_SIZE = OBJECT_SIZE).  The image is flat (no parent).     *)
(*                                                                         *)
(* The user may set the image to a snapshot and back.  Requests at a       *)
(* snapshot are refused (writes) or read what never changes, and are left  *)
(* out; what matters is that the IoCtx of DEFAULT_POOL, which the migrater *)
(* shares, then refuses to be written to and reads the snapshot.           *)
(***************************************************************************)
EXTENDS Integers, FiniteSets

CONSTANTS
  Extent,     \* extents of the image, all below map_size
  Write,      \* aio_write requests, one per object extent
  Discard,    \* aio_discard requests, one per object extent
  Read        \* aio_read requests, one per object extent

ASSUME RequestsAreDisjoint ==
  /\ Write \cap Discard = {}
  /\ Write \cap Read = {}
  /\ Discard \cap Read = {}

Mutation == Write \cup Discard
Request  == Mutation \cup Read

\* WHOBBS.h
HDD_POOL         == 0
SSD_POOL         == 1
DEFAULT_POOL     == HDD_POOL
HDD_STRIDE       == -3
SSD_STRIDE       == 5
MIGRATING_TO_SSD == 999
MIGRATING_TO_HDD == -999

Pool == {HDD_POOL, SSD_POOL}

VARIABLES
  extentMap,  \* extent_map.map: where an extent is, or that it is on its way
  content,    \* content[p][e]: the mutations held by the object of e in pool p
  snapSet,    \* snap_seq of data_ctx[DEFAULT_POOL] is a snapshot
  pc,         \* progress of each request
  ext,        \* the extent a request is for
  pool,       \* the pool a request chose
  result,     \* what a read returned
  phase,      \* progress of the migrater
  migExtent,  \* do_concurrent_migrate's extent_id
  migTo,      \* do_concurrent_migrate's to_pool
  migBuf,     \* do_concurrent_migrate's buf_map: the content it read
  migSnap,    \* the migrater's outstanding read is of a snapshot
  flushing,   \* the listed mutations a flush of the migrater still has to see
  ahead,      \* requests RADOS orders before the migrater's outstanding one
  must,       \* history: what the image held of its extent when a read was invoked
  astray,     \* history: extents with a mutation registered in the wrong pool
  strayRead,  \* history: reads submitted to the wrong pool
  faulted,    \* history: extents whose copy met an I/O error or is of a snapshot
  leaked      \* history: extents whose source object could not be removed

reqVars   == <<pc, ext, pool, result>>
migVars   == <<phase, migExtent, migTo, migBuf, flushing, ahead>>
snapVars  == <<snapSet, migSnap>>
histVars  == <<must, astray, strayRead, faulted, leaked>>
vars      == <<extentMap, content, snapVars, reqVars, migVars, histVars>>

OtherPool(p) == IF p = HDD_POOL THEN SSD_POOL ELSE HDD_POOL

Migrating(v) == v \in {MIGRATING_TO_SSD, MIGRATING_TO_HDD}

\* The pool a settled value of the extent map stands for.
SettledPool(v) == IF v > 0 THEN SSD_POOL ELSE HDD_POOL

\* The pool that holds the authoritative copy: an extent that is on its way
\* is still at its source until the extent map is repointed.
Home(e) ==
  IF extentMap[e] = MIGRATING_TO_SSD THEN HDD_POOL
  ELSE IF extentMap[e] = MIGRATING_TO_HDD THEN SSD_POOL
  ELSE SettledPool(extentMap[e])

\* IoCtxImpl's snap_seq # CEPH_NOSNAP: ImageCtx::snap_set sets the IoCtx of
\* DEFAULT_POOL to the snapshot and no other.
AtSnapshot(p) == snapSet /\ p = DEFAULT_POOL

\* The request is in RADOS' hands and has not taken effect.
Outstanding(p, e) ==
  {q \in Request : pc[q] = "submitted" /\ pool[q] = p /\ ext[q] = e}

\* aio_write_list of the pool's IoCtxImpl, which every copy of the IoCtx shares.
AioWriteList(p) ==
  {w \in Mutation : pc[w] \in {"queued", "submitted", "applied"} /\ pool[w] = p}

\* The mutations of e the client was told are done.
Acked(e) == {w \in Mutation : pc[w] = "done" /\ ext[w] = e}

\* The object the migrater has a request outstanding on, and the pool of it.
MigraterAt(p, e) ==
  /\ migExtent = e
  /\ \/ phase \in {"reading", "removing"} /\ p = OtherPool(migTo)
     \/ phase = "writing" /\ p = migTo

Init ==
  /\ extentMap = [e \in Extent |-> HDD_STRIDE]
  /\ content   = [p \in Pool |-> [e \in Extent |-> {}]]
  /\ snapSet   \in BOOLEAN
  /\ pc        = [q \in Request |-> "new"]
  /\ ext       \in [Request -> Extent]
  /\ pool      = [q \in Request |-> DEFAULT_POOL]
  /\ result    = [r \in Read |-> {}]
  /\ phase     = "idle"
  /\ migExtent \in Extent
  /\ migTo     = SSD_POOL
  /\ migBuf    = {}
  /\ migSnap   = FALSE
  /\ flushing  = {}
  /\ ahead     = {}
  /\ must      = [r \in Read |-> {}]
  /\ astray    = {}
  /\ strayRead = {}
  /\ faulted   = {}
  /\ leaked    = {}

-----------------------------------------------------------------------------
(* Mutated actions: bugs that the properties below have to refute.         *)

\* The write waits for the extent to settle after it was listed.
SubmitWrite_WhenSettled(w) ==
  /\ w \in Mutation
  /\ pc[w] = "queued"
  /\ ~Migrating(extentMap[ext[w]])
  /\ pc' = [pc EXCEPT ![w] = "submitted"]
  /\ UNCHANGED <<snapVars, extentMap, content, ext, pool, result, migVars,
                 histVars>>

\* The extent is not marked.
LockExtent_NoMark(e) ==
  /\ phase = "idle"
  /\ phase' = "locked"
  /\ migExtent' = e
  /\ migTo' = OtherPool(SettledPool(extentMap[e]))
  /\ UNCHANGED <<snapVars, extentMap, content, reqVars, migBuf, flushing,
                 ahead, histVars>>

\* io_ctx_to is flushed.
StartFlush_Target ==
  /\ phase = "locked"
  /\ phase' = "flushing"
  /\ flushing' = AioWriteList(migTo)
  /\ UNCHANGED <<snapVars, extentMap, content, reqVars, migExtent, migTo,
                 migBuf, ahead, histVars>>

\* The flush takes in what is listed while it waits.
QueueAioWrite_Joins(w) ==
  /\ w \in Mutation
  /\ pc[w] = "chosen"
  /\ pc' = [pc EXCEPT ![w] = "queued"]
  /\ flushing' = IF phase = "flushing" THEN flushing \cup {w} ELSE flushing
  /\ UNCHANGED <<snapVars, extentMap, content, ext, pool, result, phase,
                 migExtent, migTo,
                 migBuf, ahead, histVars>>

\* The flush does not wait.
SubmitCopyRead_NoWait ==
  /\ phase = "flushing"
  /\ phase' = "reading"
  /\ flushing' = {}
  /\ ahead' = Outstanding(OtherPool(migTo), migExtent)
  /\ migSnap' = AtSnapshot(OtherPool(migTo))
  /\ UNCHANGED <<snapSet, extentMap, content, reqVars, migExtent, migTo,
                 migBuf, histVars>>

\* wait_for_complete of the read is left out: the buffer is still empty.
CopyRead_NoWait(ok) ==
  /\ phase = "reading"
  /\ phase' = "read"
  /\ ahead' = {}
  /\ migBuf' = {}
  /\ migSnap' = FALSE
  /\ UNCHANGED <<snapSet, extentMap, content, reqVars, migExtent, migTo,
                 flushing, histVars>>

\* The mark stays.
UpdateExtentMap_KeepMark ==
  /\ phase = "written"
  /\ phase' = "moved"
  /\ UNCHANGED <<snapVars, extentMap, content, reqVars, migExtent, migTo,
                 migBuf, flushing, ahead, histVars>>

\* The object in io_ctx_to is removed.
RemoveSource_Target(ok) ==
  /\ phase = "removing"
  /\ phase' = "idle"
  /\ ahead' = {}
  /\ content' = [content EXCEPT ![migTo][migExtent] = {}]
  /\ UNCHANGED <<snapVars, extentMap, reqVars, migExtent, migTo, migBuf,
                 flushing, histVars>>

\* The source object is left.
RemoveSource_Nothing(ok) ==
  /\ phase = "removing"
  /\ phase' = "idle"
  /\ ahead' = {}
  /\ UNCHANGED <<snapVars, extentMap, content, reqVars, migExtent, migTo,
                 migBuf, flushing, histVars>>

-----------------------------------------------------------------------------
(* Client requests.                                                        *)

\* aio_write, aio_read up to the poll loop: the request is for one extent.
Invoke(q) ==
  /\ pc[q] = "new"
  /\ q \notin Discard
  /\ ~snapSet
  /\ pc' = [pc EXCEPT ![q] = "poll"]
  /\ must' = IF q \in Read THEN [must EXCEPT ![q] = content[Home(ext[q])][ext[q]]]
             ELSE must
  /\ UNCHANGED <<snapVars, extentMap, content, ext, pool, result, migVars,
                 astray,
                 strayRead, faulted, leaked>>

\* The poll loop leaves with a pool once the extent is not on its way; while
\* it is, the thread sleeps 50 ms and looks again, which changes nothing.
GetPool(q) ==
  /\ pc[q] = "poll"
  /\ ~Migrating(extentMap[ext[q]])
  /\ pool' = [pool EXCEPT ![q] = SettledPool(extentMap[ext[q]])]
  /\ pc' = [pc EXCEPT ![q] = "chosen"]
  /\ UNCHANGED <<snapVars, extentMap, content, ext, result, migVars, histVars>>

\* aio_discard does not look at the extent map.
DiscardPool(d) ==
  /\ pc[d] = "new"
  /\ d \in Discard
  /\ ~snapSet
  /\ pool' = [pool EXCEPT ![d] = DEFAULT_POOL]
  /\ pc' = [pc EXCEPT ![d] = "chosen"]
  /\ UNCHANGED <<snapVars, extentMap, content, ext, result, migVars, histVars>>

\* A mutation registered in p now is covered neither by the flush of the
\* migration under way nor by the extent map.
TooLate(p, e) ==
  \/ Home(e) # p
  \/ migExtent = e /\ phase \in {"flushing", "reading", "read", "writing", "written"}

\* IoCtxImpl::aio_operate: queue_aio_write comes first ...
QueueAioWrite(w) ==
  /\ w \in Mutation
  /\ pc[w] = "chosen"
  /\ ~AtSnapshot(pool[w])
  /\ pc' = [pc EXCEPT ![w] = "queued"]
  /\ astray' = IF TooLate(pool[w], ext[w]) THEN astray \cup {ext[w]} ELSE astray
  /\ UNCHANGED <<snapVars, extentMap, content, ext, pool, result, migVars, must,
                 strayRead, faulted, leaked>>

\* ... unless the image was set to a snapshot meanwhile: aio_operate returns
\* -EROFS, and so does the client's call ...
RefuseWrite(w) ==
  /\ w \in Mutation
  /\ pc[w] = "chosen"
  /\ AtSnapshot(pool[w])
  /\ pc' = [pc EXCEPT ![w] = "failed"]
  /\ UNCHANGED <<snapVars, extentMap, content, ext, pool, result, migVars,
                 histVars>>

\* ... and objecter->mutate follows, under the client's lock.
SubmitWrite(w) ==
  /\ w \in Mutation
  /\ pc[w] = "queued"
  /\ pc' = [pc EXCEPT ![w] = "submitted"]
  /\ UNCHANGED <<snapVars, extentMap, content, ext, pool, result, migVars,
                 histVars>>

\* Reads are submitted without being listed: no flush waits for them.
SubmitRead(r) ==
  /\ r \in Read
  /\ pc[r] = "chosen"
  /\ pc' = [pc EXCEPT ![r] = "submitted"]
  /\ strayRead' = IF Home(ext[r]) # pool[r] THEN strayRead \cup {r} ELSE strayRead
  /\ UNCHANGED <<snapVars, extentMap, content, ext, pool, result, migVars,
                 must, astray,
                 faulted, leaked>>

\* RADOS runs the requests of one client on one object in the order they were
\* submitted; only the order relative to the migrater's requests matters here.
InOrder(q) ==
  \/ q \in ahead
  \/ ~MigraterAt(pool[q], ext[q])

\* The object takes the mutation.
ApplyMutation(w) ==
  /\ w \in Mutation
  /\ pc[w] = "submitted"
  /\ InOrder(w)
  /\ content' = [content EXCEPT ![pool[w]][ext[w]] = @ \cup {w}]
  /\ pc' = [pc EXCEPT ![w] = "applied"]
  /\ UNCHANGED <<snapVars, extentMap, ext, pool, result, migVars, histVars>>

\* The object answers the read; an absent object answers zeros (hide_enoent).
ServeRead(r) ==
  /\ r \in Read
  /\ pc[r] = "submitted"
  /\ InOrder(r)
  /\ result' = [result EXCEPT ![r] = content[pool[r]][ext[r]]]
  /\ pc' = [pc EXCEPT ![r] = "done"]
  /\ UNCHANGED <<snapVars, extentMap, content, ext, pool, migVars, histVars>>

\* RADOS refuses the request and the client is told.
FailRequest(q) ==
  /\ pc[q] = "submitted"
  /\ InOrder(q)
  /\ pc' = [pc EXCEPT ![q] = "failed"]
  /\ UNCHANGED <<snapVars, extentMap, content, ext, pool, result, migVars,
                 histVars>>

\* The commit arrives: complete_aio_write unlists the mutation and its
\* completion tells the client.
CompleteAioWrite(w) ==
  /\ w \in Mutation
  /\ pc[w] = "applied"
  /\ pc' = [pc EXCEPT ![w] = "done"]
  /\ UNCHANGED <<snapVars, extentMap, content, ext, pool, result, migVars,
                 histVars>>

-----------------------------------------------------------------------------
(* The user sets the image to a snapshot and back to the head.             *)

SnapSet ==
  /\ ~snapSet
  /\ snapSet' = TRUE
  /\ UNCHANGED <<migSnap, extentMap, content, reqVars, migVars, histVars>>

SnapUnset ==
  /\ snapSet
  /\ snapSet' = FALSE
  /\ UNCHANGED <<migSnap, extentMap, content, reqVars, migVars, histVars>>

-----------------------------------------------------------------------------
(* The migrater: do_concurrent_migrate(extent_id, from_pool, to_pool).     *)

\* The analyzer picks an extent that is settled in the other pool; the first
\* thing written is the migrating mark ("lock extent map").
LockExtent(e) ==
  /\ phase = "idle"
  /\ phase' = "locked"
  /\ migExtent' = e
  /\ migTo' = OtherPool(SettledPool(extentMap[e]))
  /\ extentMap' = [extentMap EXCEPT ![e] =
                     IF migTo' = SSD_POOL THEN MIGRATING_TO_SSD ELSE MIGRATING_TO_HDD]
  /\ UNCHANGED <<snapVars, content, reqVars, migBuf, flushing, ahead, histVars>>

\* flush_aio_writes notes the sequence number of the last listed write ...
StartFlush ==
  /\ phase = "locked"
  /\ phase' = "flushing"
  /\ flushing' = AioWriteList(OtherPool(migTo))
  /\ UNCHANGED <<snapVars, extentMap, content, reqVars, migExtent, migTo,
                 migBuf, ahead, histVars>>

\* ... and returns once every write up to that number has left the list; the
\* object is then read from the source pool.
SubmitCopyRead ==
  /\ phase = "flushing"
  /\ flushing \cap AioWriteList(OtherPool(migTo)) = {}
  /\ phase' = "reading"
  /\ flushing' = {}
  /\ ahead' = Outstanding(OtherPool(migTo), migExtent)
  /\ migSnap' = AtSnapshot(OtherPool(migTo))
  /\ UNCHANGED <<snapSet, extentMap, content, reqVars, migExtent, migTo,
                 migBuf, histVars>>

\* What a copy that goes wrong reads: nothing on an I/O error, which is only
\* logged, and what the source held at the snapshot when the IoCtx is set to it.
ReadAmiss(ok) ==
  IF ok /\ migSnap THEN SUBSET content[OtherPool(migTo)][migExtent] ELSE {{}}

\* The read completes. On an error the migrater goes on with an empty buffer;
\* the source object of an extent that was never written answers ENOENT,
\* which is the empty content already.
CopyRead(ok) ==
  /\ phase = "reading"
  /\ ahead \cap Outstanding(OtherPool(migTo), migExtent) = {}
  /\ phase' = "read"
  /\ ahead' = {}
  /\ \/ /\ ok /\ ~migSnap
        /\ migBuf' = content[OtherPool(migTo)][migExtent]
        /\ faulted' = faulted
     \/ /\ ~ok \/ migSnap
        /\ migBuf' \in ReadAmiss(ok)
        /\ faulted' = faulted \cup {migExtent}
  /\ migSnap' = FALSE
  /\ UNCHANGED <<snapSet, extentMap, content, reqVars, migExtent, migTo,
                 flushing, must,
                 astray, strayRead, leaked>>

SubmitCopyWrite ==
  /\ phase = "read"
  /\ ~AtSnapshot(migTo)
  /\ phase' = "writing"
  /\ ahead' = Outstanding(migTo, migExtent)
  /\ UNCHANGED <<snapVars, extentMap, content, reqVars, migExtent, migTo,
                 migBuf, flushing, histVars>>

\* aio_write_full returns -EROFS: the error is printed, and the completion is
\* waited for all the same, which nothing will ever complete.
StickAtCopyWrite ==
  /\ phase = "read"
  /\ AtSnapshot(migTo)
  /\ phase' = "stuckCopy"
  /\ UNCHANGED <<snapVars, extentMap, content, reqVars, migExtent, migTo,
                 migBuf,
                 flushing, ahead, histVars>>

\* write_full replaces the object in the target pool; an error is only logged.
CopyWrite(ok) ==
  /\ phase = "writing"
  /\ ahead \cap Outstanding(migTo, migExtent) = {}
  /\ phase' = "written"
  /\ ahead' = {}
  /\ content' = IF ok THEN [content EXCEPT ![migTo][migExtent] = migBuf] ELSE content
  /\ migBuf' = {}
  /\ faulted' = IF ok THEN faulted ELSE faulted \cup {migExtent}
  /\ UNCHANGED <<snapVars, extentMap, reqVars, migExtent, migTo, flushing,
                 must, astray,
                 strayRead, leaked>>

\* "update extent map": requests go to the target pool from here on ...
UpdateExtentMap ==
  /\ phase = "written"
  /\ phase' = "moved"
  /\ extentMap' = [extentMap EXCEPT ![migExtent] =
                     IF migTo = HDD_POOL THEN HDD_STRIDE ELSE SSD_STRIDE]
  /\ UNCHANGED <<snapVars, content, reqVars, migExtent, migTo, migBuf,
                 flushing, ahead, histVars>>

\* ... and the source object is removed.
SubmitRemove ==
  /\ phase = "moved"
  /\ ~AtSnapshot(OtherPool(migTo))
  /\ phase' = "removing"
  /\ ahead' = Outstanding(OtherPool(migTo), migExtent)
  /\ UNCHANGED <<snapVars, extentMap, content, reqVars, migExtent, migTo,
                 migBuf, flushing, histVars>>

\* aio_remove returns -EROFS and is waited for, like aio_write_full.
StickAtRemove ==
  /\ phase = "moved"
  /\ AtSnapshot(OtherPool(migTo))
  /\ phase' = "stuckRemove"
  /\ UNCHANGED <<snapVars, extentMap, content, reqVars, migExtent, migTo,
                 migBuf,
                 flushing, ahead, histVars>>

RemoveSource(ok) ==
  /\ phase = "removing"
  /\ ahead \cap Outstanding(OtherPool(migTo), migExtent) = {}
  /\ phase' = "idle"
  /\ ahead' = {}
  /\ content' = IF ok THEN [content EXCEPT ![OtherPool(migTo)][migExtent] = {}] ELSE content
  /\ leaked' = IF ok THEN leaked ELSE leaked \cup {migExtent}
  /\ UNCHANGED <<snapVars, extentMap, reqVars, migExtent, migTo, migBuf,
                 flushing, must,
                 astray, strayRead, faulted>>

-----------------------------------------------------------------------------
ClientStep(q) ==
  \/ Invoke(q)
  \/ GetPool(q)
  \/ DiscardPool(q)
  \/ QueueAioWrite(q)
  \/ RefuseWrite(q)
  \/ SubmitWrite(q)
  \/ SubmitRead(q)

RadosStep(q) ==
  \/ ApplyMutation(q)
  \/ ServeRead(q)
  \/ FailRequest(q)
  \/ CompleteAioWrite(q)

MigraterStep ==
  \/ StartFlush
  \/ SubmitCopyRead
  \/ \E ok \in BOOLEAN : CopyRead(ok)
  \/ SubmitCopyWrite
  \/ StickAtCopyWrite
  \/ \E ok \in BOOLEAN : CopyWrite(ok)
  \/ UpdateExtentMap
  \/ SubmitRemove
  \/ StickAtRemove
  \/ \E ok \in BOOLEAN : RemoveSource(ok)

Next ==
  \/ \E q \in Request : ClientStep(q)
  \/ \E q \in Request : RadosStep(q)
  \/ \E e \in Extent : LockExtent(e)
  \/ MigraterStep
  \/ SnapSet
  \/ SnapUnset

Spec == Init /\ [][Next]_vars

\* The analyzer thread, the OSDs and librados keep working; a request that has
\* left the poll loop is carried through.
ProgressFairness ==
  /\ WF_vars(MigraterStep)
  /\ \A q \in Request :
       /\ WF_vars(QueueAioWrite(q) \/ RefuseWrite(q) \/ SubmitWrite(q) \/ SubmitRead(q))
       /\ WF_vars(RadosStep(q))

\* The poll loop looks every 50 ms, and an extent that has moved is left alone
\* for whole rounds of INTERVAL seconds: a thread that looks infinitely often
\* does not miss the settled extent every time.
PollFairness == \A q \in Request : SF_vars(GetPool(q))

FairSpec == Spec /\ ProgressFairness /\ PollFairness

-----------------------------------------------------------------------------
Progress == {"new", "poll", "chosen", "queued", "submitted", "applied", "done", "failed"}

Phase == {"idle", "locked", "flushing", "reading", "read", "writing", "written",
          "moved", "removing", "stuckCopy", "stuckRemove"}

\* Every variable has its type.
TypeOK ==
  /\ extentMap \in [Extent -> {HDD_STRIDE, SSD_STRIDE, MIGRATING_TO_SSD, MIGRATING_TO_HDD}]
  /\ content   \in [Pool -> [Extent -> SUBSET Mutation]]
  /\ snapSet   \in BOOLEAN
  /\ pc        \in [Request -> Progress]
  /\ ext       \in [Request -> Extent]
  /\ pool      \in [Request -> Pool]
  /\ result    \in [Read -> SUBSET Mutation]
  /\ phase     \in Phase
  /\ migExtent \in Extent
  /\ migTo     \in Pool
  /\ migBuf    \in SUBSET Mutation
  /\ migSnap   \in BOOLEAN
  /\ flushing  \in SUBSET Mutation
  /\ ahead     \in SUBSET Request
  /\ must      \in [Read -> SUBSET Mutation]
  /\ astray    \in SUBSET Extent
  /\ strayRead \in SUBSET Read
  /\ faulted   \in SUBSET Extent
  /\ leaked    \in SUBSET Extent

\* Every write and discard the client was told is done is in the object the
\* extent map points at, through any number of migrations and failed removals,
\* unless a mutation of that extent was registered in the wrong pool or one of
\* its copies met an I/O error or was one of a snapshot: do_concurrent_migrate and aio_write together.
NoAckedWriteLost ==
  \A e \in Extent \ (astray \cup faulted) : Acked(e) \subseteq content[Home(e)][e]

\* From the moment the migrater reads the source until it repoints the extent
\* map, no mutation of the extent is under way: what the mark in the extent map
\* and aio_flush of the source pool are there to ensure.
QuiescentDuringCopy ==
  phase \in {"reading", "read", "writing", "written"} /\ migExtent \notin astray
    => \A w \in Mutation : ext[w] = migExtent => pc[w] \notin {"queued", "submitted"}

\* A read submitted to the pool its extent was in returns every mutation that
\* had taken effect, acknowledged or not, when the read was invoked, even if
\* the extent moves, or the source object is removed, while it is under way.
ReadsSeeEarlierEffects ==
  \A r \in Read \ strayRead :
    pc[r] = "done" /\ ext[r] \notin astray \cup faulted => must[r] \subseteq result[r]

\* When the migrater is not working on an extent the pool that does not hold it
\* has nothing of it, so that a later migration or a reopened image cannot pick
\* up old data; failed removals and misplaced mutations are the only exceptions.
SingleCopy ==
  \A e \in Extent \ (astray \cup leaked) :
    (phase = "idle" \/ migExtent # e) => content[OtherPool(Home(e))][e] = {}

\* Nothing ever disappears from the object the extent map points at: write_full
\* and remove of the migrater only hit the other pool, whatever errors occur.
AuthoritativeCopyOnlyGrows ==
  [][\A p \in Pool, e \in Extent :
       Home(e) = p => content[p][e] \subseteq content'[p][e]]_vars

\* The extent map is repointed only to a pool whose object holds exactly what
\* the source object holds, acknowledged or not.
RepointToCompleteCopy ==
  [][\A e \in Extent \ (astray \cup faulted) :
       Home(e)' # Home(e) => content[Home(e)'][e] = content[Home(e)][e]]_vars

\* What the migrater waits for: writes listed before its flush, or requests
\* RADOS has to serve before its own.
Awaited ==
  {w \in flushing : phase = "flushing" /\ w \in AioWriteList(OtherPool(migTo))} \cup
  {q \in ahead : \E p \in Pool : MigraterAt(p, migExtent) /\ q \in Outstanding(p, migExtent)}

\* While the migrater waits, what it waits for only gets less: no request that
\* arrives meanwhile, and none that failed or completed, prolongs the wait.
WaitsOnlyShrink ==
  [][phase' = phase => Awaited' \subseteq Awaited]_vars

\* The migrater waits for a copy it was not allowed to start, which leaves the
\* mark on the extent for ever.
HangsOn(e) == phase = "stuckCopy" /\ migExtent = e

\* A thread in the poll loop gets its answer, however often its extent moves,
\* unless the migrater hangs on that very extent because the image was set to
\* a snapshot when the copy had to be written: the polls of aio_write and
\* aio_read against do_concurrent_migrate.
PolledRequestsComplete ==
  \A q \in Request : pc[q] = "poll" ~> pc[q] \in {"done", "failed"} \/ HangsOn(ext[q])

\* A migration that has begun ends: the flush waits only for the writes listed
\* when it began, none of which can be waiting for the migration.  The writes
\* and removals of do_concurrent_migrate that a snapshot keeps from starting
\* are the only ones it waits for in vain.
MigrationsEnd == phase = "locked" ~> phase \in {"idle", "stuckCopy", "stuckRemove"}

-----------------------------------------------------------------------------
(* The image as its user sees it.                                          *)

\* Nothing is promised of an extent one of whose mutations was registered in
\* the wrong pool or whose copy met an I/O error.
Waived == astray \cup faulted

StageOf(c) ==
  CASE c \in {"poll", "chosen", "queued", "submitted"} -> "open"
    [] c = "applied" -> "taken"
    [] c = "done" -> "ok"
    [] OTHER -> c

Promised(r) == r \notin strayRead /\ ext[r] \notin Waived

Store   == [e \in Extent |-> IF e \in Waived THEN {} ELSE content[Home(e)][e]]
Stages  == [q \in Request |-> StageOf(pc[q])]
Floors  == [r \in Read |-> IF Promised(r) THEN must[r] ELSE {}]
Results == [r \in Read |-> IF Promised(r) THEN result[r] ELSE {}]

Image == INSTANCE ImageStore WITH
  store <- Store, waived <- Waived, stray <- strayRead, stage <- Stages,
  floor <- Floors, result <- Results

\* Moving extents between the pools under client requests is invisible: the
\* data path and do_concurrent_migrate implement an image in which an extent is
\* one place, a mutation takes effect once, and a read returns what its extent
\* held at some moment of the read.
ImplementsImageStore == Image!Spec

-----------------------------------------------------------------------------
(* The inductive invariant behind the safety properties.                   *)

Marked  == {"locked", "flushing", "reading", "read", "writing", "written", "stuckCopy"}
Moved   == {"moved", "removing", "stuckRemove"}
Copying == {"reading", "read", "writing", "written"}

UnderWay(w) == pc[w] \in {"queued", "submitted"}
Effective(w) == pc[w] \in {"applied", "done"}

\* The mark in the extent map and the progress of the migrater agree.
MarkInv ==
  /\ \A e \in Extent :
       Migrating(extentMap[e]) <=> phase \in Marked /\ migExtent = e
  /\ phase \in Marked =>
       extentMap[migExtent] = IF migTo = SSD_POOL THEN MIGRATING_TO_SSD ELSE MIGRATING_TO_HDD
  /\ phase \in Moved => Home(migExtent) = migTo

\* Mutations under way are bound for the authoritative copy, those the flush
\* has to see are in its snapshot, and after the flush there is none.
FlowInv ==
  \A w \in Mutation : UnderWay(w) /\ ext[w] \notin astray =>
    /\ pool[w] = Home(ext[w])
    /\ ext[w] = migExtent =>
         /\ phase \notin Copying
         /\ phase = "flushing" => w \in flushing

\* The authoritative copy holds every mutation that took effect; the migrater's
\* buffer, then the target object, hold what the source object holds, and after
\* the extent map is repointed the target object holds at least that.
ContentInv ==
  /\ \A w \in Mutation : Effective(w) /\ ext[w] \notin astray \cup faulted =>
       w \in content[Home(ext[w])][ext[w]]
  /\ migExtent \notin astray \cup faulted =>
       /\ phase \in {"read", "writing"} =>
            migBuf = content[OtherPool(migTo)][migExtent]
       /\ phase = "written" =>
            content[migTo][migExtent] = content[OtherPool(migTo)][migExtent]
       /\ phase \in Moved =>
            content[OtherPool(migTo)][migExtent] \subseteq content[migTo][migExtent]

\* A read under way is at the authoritative copy, or at a source object whose
\* removal RADOS orders after it; either way the object holds all it must see.
ReadInv ==
  /\ \A r \in strayRead : pc[r] \in {"submitted", "done", "failed"}
  /\ \A r \in Read \ strayRead : ext[r] \notin astray \cup faulted =>
       /\ pc[r] \in {"poll", "chosen"} => must[r] \subseteq content[Home(ext[r])][ext[r]]
       /\ pc[r] = "submitted" =>
            /\ must[r] \subseteq content[pool[r]][ext[r]]
            /\ \/ pool[r] = Home(ext[r])
               \/ /\ migExtent = ext[r]
                  /\ pool[r] = OtherPool(migTo)
                  /\ phase \in {"moved", "stuckRemove"} \/ (phase = "removing" /\ r \in ahead)
       /\ pc[r] = "done" => must[r] \subseteq result[r]

\* The pool that does not hold an extent has nothing of it, but from the end of
\* the copy to the removal of the source.
StaleInv ==
  \A e \in Extent \ (astray \cup leaked) :
    /\ phase = "idle" \/ migExtent # e => content[OtherPool(Home(e))][e] = {}
    /\ phase \in Marked \ {"written"} /\ migExtent = e => content[migTo][e] = {}

\* Whom the migrater waits for has been listed, or submitted, before.
AwaitInv ==
  /\ \A w \in flushing : pc[w] \notin {"new", "poll", "chosen"}
  /\ \A q \in ahead : pc[q] \notin {"new", "poll", "chosen", "queued"}

DataInv == TypeOK /\ MarkInv /\ FlowInv /\ ContentInv /\ ReadInv /\ StaleInv
IInv    == DataInv /\ AwaitInv

-----------------------------------------------------------------------------
(* What comments and tests of the code say, which it does not do.          *)

\* What was written and acknowledged is read back (test_librbd.cc), I/O errors
\* of the migrater aside.
AckedWritesReadBack ==
  \A e \in Extent \ faulted : Acked(e) \cap Write \subseteq content[Home(e)][e]

\* A discarded range reads as zeros (test_librbd.cc): while the migrater is
\* idle a discard takes effect on the object the extent map points at.
DiscardReachesData ==
  [][\A d \in Discard :
       phase = "idle" /\ pc[d] = "submitted" /\ pc'[d] = "applied"
         => d \in content'[Home(ext[d])][ext[d]]]_vars
=============================================================================

--------------------------- MODULE ImageLifecycle ---------------------------
(***************************************************************************)
(* Opening and closing an image against the analyzer thread that migrates  *)
(* its extents: open_image starts the thread with every extent mapped to   *)
(* the default pool, close_image stops it (finilize_WHOBBS) and flushes,   *)
(* and the process may crash at any moment.  Nothing of the extent map is  *)
(* kept (RESTORE is defined), while the objects stay where they are.       *)
(*                                                                         *)
(* The analyzer thread moves from one of its waits to the next; a pending  *)
(* pthread_cancel takes effect in a wait.  A wait inside librados is made  *)
(* with a mutex that nobody unlocks when the thread dies there, and what   *)
(* the thread had asked of RADOS is still done.                            *)
(*                                                                         *)
(* The image may be opened at a snapshot, or set to one: what the migrater *)
(* then asks of the default pool is not even started, and it waits for it  *)
(* all the same.                                                           *)
(***************************************************************************)
EXTENDS Integers, FiniteSets

CONSTANTS
  Extent,     \* extents of the image
  MaxOpens    \* bound of the model: how often the image is opened

ASSUME OpensAssumption == MaxOpens \in Nat

HDD == "HDD_POOL"
SSD == "SSD_POOL"
Pool == {HDD, SSD}
DEFAULT_POOL == HDD
OtherPool(p) == IF p = HDD THEN SSD ELSE HDD

VARIABLES
  opens,          \* how often the image has been opened
  caller,         \* progress of open_image and close_image
  thread,         \* progress of the analyzer thread
  migrating,      \* Migrater::migrating
  toFinilize,     \* Migrater::to_finilize
  staticToFinilize, \* Analyzer::to_finilize, one for the whole process
  extentMap,      \* the pool an extent is mapped to (its source while it moves)
  holds,          \* the pools with a complete object of an extent
  cur,            \* the extent being migrated
  todo,           \* what is left of placement_map_filtered
  buffered,       \* whether the migrater read a complete object
  inFlight,       \* write_full and remove requests RADOS has not carried out
  lockHeld,       \* a librados mutex was left locked by the dead thread
  snapSet,        \* snap_seq of data_ctx[DEFAULT_POOL] is a snapshot
  faulted,        \* history of the first opening: extents with a failed copy
  notified        \* history: this close set the flags while a migration was under way

callVars   == <<opens, caller, notified, snapSet>>
threadVars == <<thread, cur, todo, buffered, lockHeld>>
flagVars   == <<migrating, toFinilize, staticToFinilize>>
vars == <<callVars, threadVars, flagVars, extentMap, holds, faulted, inFlight>>

\* The waits of do_concurrent_migrate: aio_flush and three wait_for_complete.
\* The lock of a completion that nobody completes ("stuck") is nobody else's.
LibradosWaits == {"flush", "read", "write", "remove"}
Sleeps == {"sleep", "rest", "nap"}
Waits  == LibradosWaits \cup Sleeps \cup {"stuck"}

\* finilize_WHOBBS is under way.
Closing == {"check", "notify", "notified", "wait", "cancel", "join"}

\* A request to leave extent e's object in pool p complete or not (write_full of
\* what was read), or absent (remove).
Copy(e, p) == [extent |-> e, pool |-> p, write |-> TRUE, complete |-> buffered]
Removal(e, p) == [extent |-> e, pool |-> p, write |-> FALSE, complete |-> FALSE]
Operation == [extent : Extent, pool : Pool, write : BOOLEAN, complete : BOOLEAN]

\* ImageCtx::snap_set sets the IoCtx of DEFAULT_POOL and no other, and IoCtxImpl
\* refuses to write and to remove through it.
AtSnapshot(p) == snapSet /\ p = DEFAULT_POOL

\* A copy of e failed or was one of a snapshot; later openings are not recorded.
Faulted(e) == IF opens = 1 THEN faulted \cup {e} ELSE faulted

NoPlacement == [p \in Pool |-> {}]

Init ==
  /\ opens = 0
  /\ caller = "closed"
  /\ thread = "none"
  /\ migrating = FALSE
  /\ toFinilize = FALSE
  /\ staticToFinilize = FALSE
  /\ extentMap = [e \in Extent |-> DEFAULT_POOL]
  /\ holds = [e \in Extent |-> {DEFAULT_POOL}]
  /\ cur \in Extent
  /\ todo = NoPlacement
  /\ buffered = FALSE
  /\ inFlight = {}
  /\ lockHeld = FALSE
  /\ snapSet = FALSE
  /\ faulted = {}
  /\ notified = FALSE

-----------------------------------------------------------------------------
(* Mutated actions: bugs that the properties below have to refute.         *)

\* Analyzer::to_finilize is not looked at before the sleep.
Pace_IgnoresFlag ==
  /\ thread \in {"pace", "late"}
  /\ \/ thread' = "sleep"
     \/ thread = "late" /\ thread' = "woken"
  /\ UNCHANGED <<callVars, cur, todo, buffered, lockHeld, flagVars, extentMap,
                 holds, faulted, inFlight>>

\* The source object is removed without waiting for the copy to be written.
UpdateExtentMap_NoWait ==
  /\ thread = "write"
  /\ extentMap' = [extentMap EXCEPT ![cur] = OtherPool(@)]
  /\ thread' = "moved"
  /\ buffered' = FALSE
  /\ UNCHANGED <<callVars, cur, todo, lockHeld, flagVars, holds, faulted,
                 inFlight>>

\* set_migrating(false) is missing.
RoundDone_NoReset ==
  /\ thread \in {"next", "again"}
  /\ todo = NoPlacement
  /\ thread' = IF thread = "again" THEN "late" ELSE "pace"
  /\ UNCHANGED <<callVars, cur, todo, buffered, lockHeld, flagVars, extentMap,
                 holds, faulted, inFlight>>

-----------------------------------------------------------------------------
(* The thread that opens and closes the image.                             *)

\* open_image, initialize_WHOBBS: "set the default position", start the thread.
OpenImage ==
  /\ caller = "closed"
  /\ opens < MaxOpens
  /\ opens' = opens + 1
  /\ caller' = "open"
  /\ extentMap' = [e \in Extent |-> DEFAULT_POOL]
  /\ migrating' = FALSE
  /\ toFinilize' = FALSE
  /\ thread' = "pace"
  /\ notified' = FALSE
  /\ snapSet' \in BOOLEAN
  /\ faulted' = {}
  /\ UNCHANGED <<staticToFinilize, holds, inFlight, cur, todo,
                 buffered, lockHeld>>

\* snap_set: to a snapshot, or back to the head.
SetSnapshot ==
  /\ caller = "open"
  /\ snapSet' = ~snapSet
  /\ UNCHANGED <<opens, caller, notified, threadVars, flagVars, extentMap,
                 holds, faulted, inFlight>>

CloseImage ==
  /\ caller = "open"
  /\ caller' = "check"
  /\ UNCHANGED <<opens, notified, snapSet, threadVars, flagVars, extentMap,
                 holds, faulted, inFlight>>

\* finilize_WHOBBS asks whether a migration is under way ...
CheckMigrating ==
  /\ caller = "check"
  /\ caller' = IF migrating THEN "notify" ELSE "cancel"
  /\ UNCHANGED <<opens, notified, snapSet, threadVars, flagVars, extentMap,
                 holds, faulted, inFlight>>

\* ... and if so sets one flag and then the other, without a lock ...
NotifyMigrater ==
  /\ caller = "notify"
  /\ caller' = "notified"
  /\ toFinilize' = TRUE
  /\ UNCHANGED <<opens, notified, snapSet, threadVars, migrating,
                 staticToFinilize,
                 extentMap, holds, faulted, inFlight>>

NotifyAnalyzer ==
  /\ caller = "notified"
  /\ caller' = "wait"
  /\ staticToFinilize' = TRUE
  /\ notified' = migrating
  /\ UNCHANGED <<opens, snapSet, threadVars, migrating, toFinilize, extentMap,
                 holds, faulted, inFlight>>

\* ... and looks every second until there is no migration.
PollMigrating ==
  /\ caller = "wait"
  /\ ~migrating
  /\ caller' = "cancel"
  /\ UNCHANGED <<opens, notified, snapSet, threadVars, flagVars, extentMap,
                 holds, faulted, inFlight>>

\* pthread_cancel leaves a request; pthread_join waits for the thread, ...
CancelThread ==
  /\ caller = "cancel"
  /\ caller' = "join"
  /\ UNCHANGED <<opens, notified, snapSet, threadVars, flagVars, extentMap,
                 holds, faulted, inFlight>>

\* ... which dies in the wait it is in or comes to.
ThreadDies ==
  /\ caller = "join"
  /\ thread \in Waits
  /\ lockHeld' = (lockHeld \/ thread \in LibradosWaits)
  /\ thread' = "none"
  /\ todo' = NoPlacement
  /\ buffered' = FALSE
  /\ caller' = "flush"
  /\ UNCHANGED <<opens, notified, snapSet, cur, flagVars, extentMap, holds,
                 faulted, inFlight>>

\* The ImageCtx, its extent map and its migrater are no more.
ImageGone ==
  /\ caller' = "closed"
  /\ notified' = FALSE
  /\ snapSet' = FALSE
  /\ migrating' = FALSE
  /\ toFinilize' = FALSE
  /\ extentMap' = [e \in Extent |-> DEFAULT_POOL]

\* The rest of close_image: flush and unregister_watch need the lists, the
\* completions and the dispatcher of librados.
FlushAndClose ==
  /\ caller = "flush"
  /\ ~lockHeld
  /\ ImageGone
  /\ UNCHANGED <<opens, threadVars, staticToFinilize, holds, faulted, inFlight>>

\* The process ends, killed or not; the objects are all that is left, and
\* requests that were under way may or may not be carried out.
Crash ==
  /\ ImageGone
  /\ thread' = "none"
  /\ staticToFinilize' = FALSE
  /\ todo' = NoPlacement
  /\ lockHeld' = FALSE
  /\ inFlight' \in SUBSET inFlight
  /\ buffered' = FALSE
  /\ UNCHANGED <<opens, cur, holds, faulted>>

-----------------------------------------------------------------------------
(* The analyzer thread.                                                    *)

\* Top of the loop: a round that migrated something may have taken INTERVAL
\* seconds or more, and the next one follows at once.  With Analyzer::to_finilize
\* set the sleep is the whole INTERVAL of 100 s: a close that is under way looks
\* every second and cancels the thread before that is over.
Pace ==
  /\ thread \in {"pace", "late"}
  /\ IF staticToFinilize
     THEN thread' = IF caller \in Closing THEN "rest" ELSE "sleep"
     ELSE \/ thread' = "sleep"
          \/ thread = "late" /\ thread' = "woken"
  /\ UNCHANGED <<callVars, cur, todo, buffered, lockHeld, flagVars, extentMap,
                 holds, faulted, inFlight>>

\* A cancellation that is pending takes effect in the sleep.
Wake ==
  /\ thread = "sleep"
  /\ caller # "join"
  /\ thread' = "woken"
  /\ UNCHANGED <<callVars, cur, todo, buffered, lockHeld, flagVars, extentMap,
                 holds, faulted, inFlight>>

\* handle: any placement of extents into the pool they are not mapped to.
Handle ==
  /\ thread = "woken"
  /\ migrating' = TRUE
  /\ thread' = "next"
  /\ \E S \in SUBSET Extent :
       todo' = [p \in Pool |-> {e \in S : extentMap[e] # p}]
  /\ UNCHANGED <<callVars, cur, buffered, lockHeld, toFinilize,
                 staticToFinilize,
                 extentMap, holds, faulted, inFlight>>

\* The list of moves to the HDD pool is done first.
Target == IF todo[HDD] # {} THEN HDD ELSE SSD

\* do_concurrent_migrate flushes the source pool ...
StartMigration ==
  /\ thread \in {"next", "again"}
  /\ todo # NoPlacement
  /\ cur' \in todo[Target]
  /\ thread' = "flush"
  /\ UNCHANGED <<callVars, todo, buffered, lockHeld, flagVars, extentMap,
                 holds, faulted, inFlight>>

\* ... waits for it and reads the source object ...
Flushed ==
  /\ thread = "flush"
  /\ thread' = "read"
  /\ UNCHANGED <<callVars, cur, todo, buffered, lockHeld, flagVars, extentMap,
                 holds, faulted, inFlight>>

\* ... and, whatever the answer, goes on with what it got: with nothing when the
\* read failed, with too little when the source is read at a snapshot ...
CopyRead(ok) ==
  /\ thread = "read"
  /\ buffered' = (ok /\ extentMap[cur] \in holds[cur])
  /\ faulted' = IF ok THEN faulted ELSE Faulted(cur)
  /\ thread' = "copy"
  /\ UNCHANGED <<callVars, cur, todo, lockHeld, flagVars, extentMap, holds,
                 inFlight>>

\* ... replaces the target object ...
CopyWrite ==
  /\ thread = "copy"
  /\ ~AtSnapshot(OtherPool(extentMap[cur]))
  /\ inFlight' = inFlight \cup {Copy(cur, OtherPool(extentMap[cur]))}
  /\ thread' = "write"
  /\ UNCHANGED <<callVars, cur, todo, buffered, lockHeld, flagVars, extentMap,
                 holds, faulted>>

\* ... or waits for ever for the write_full that did not start ...
StickAtCopyWrite ==
  /\ thread = "copy"
  /\ AtSnapshot(OtherPool(extentMap[cur]))
  /\ thread' = "stuck"
  /\ UNCHANGED <<callVars, cur, todo, buffered, lockHeld, flagVars, extentMap,
                 holds, faulted, inFlight>>

\* ... repoints the extent map, whether the target was written or not ...
UpdateExtentMap ==
  /\ thread = "write"
  /\ Copy(cur, OtherPool(extentMap[cur])) \notin inFlight
  /\ extentMap' = [extentMap EXCEPT ![cur] = OtherPool(@)]
  /\ thread' = "moved"
  /\ buffered' = FALSE
  /\ UNCHANGED <<callVars, cur, todo, lockHeld, flagVars, holds, faulted,
                 inFlight>>

\* ... and removes the source object.
RemoveSource ==
  /\ thread = "moved"
  /\ ~AtSnapshot(OtherPool(extentMap[cur]))
  /\ inFlight' = inFlight \cup {Removal(cur, OtherPool(extentMap[cur]))}
  /\ thread' = "remove"
  /\ UNCHANGED <<callVars, cur, todo, buffered, lockHeld, flagVars, extentMap,
                 holds, faulted>>

\* A removal that did not start is waited for in the same way.
StickAtRemove ==
  /\ thread = "moved"
  /\ AtSnapshot(OtherPool(extentMap[cur]))
  /\ thread' = "stuck"
  /\ UNCHANGED <<callVars, cur, todo, buffered, lockHeld, flagVars, extentMap,
                 holds, faulted, inFlight>>

Removed ==
  /\ thread = "remove"
  /\ Removal(cur, OtherPool(extentMap[cur])) \notin inFlight
  /\ thread' = "nap"
  /\ UNCHANGED <<callVars, cur, todo, buffered, lockHeld, flagVars, extentMap,
                 holds, faulted, inFlight>>

\* sleep(1) and the check that breaks out of the current loop, and only of it.
NextPlacement ==
  /\ thread = "nap"
  /\ caller # "join"
  /\ thread' = "again"
  /\ todo' = [todo EXCEPT ![Target] = IF toFinilize THEN {} ELSE @ \ {cur}]
  /\ UNCHANGED <<callVars, cur, buffered, lockHeld, flagVars, extentMap,
                 holds, faulted, inFlight>>

RoundDone ==
  /\ thread \in {"next", "again"}
  /\ todo = NoPlacement
  /\ migrating' = FALSE
  /\ thread' = IF thread = "again" THEN "late" ELSE "pace"
  /\ UNCHANGED <<callVars, cur, todo, buffered, lockHeld, toFinilize,
                 staticToFinilize,
                 extentMap, holds, faulted, inFlight>>

-----------------------------------------------------------------------------
\* RADOS carries out a request, whether or not its client still waits for it ...
Carry(op) ==
  /\ holds' = [holds EXCEPT ![op.extent] =
                  IF op.complete THEN @ \cup {op.pool} ELSE @ \ {op.pool}]
  /\ UNCHANGED faulted

\* ... or answers with an error, which the migrater prints: the object is left.
Fail(op) ==
  /\ UNCHANGED holds
  /\ faulted' = IF op.write THEN Faulted(op.extent) ELSE faulted

RadosStep ==
  \E op \in inFlight :
    /\ Carry(op) \/ Fail(op)
    /\ inFlight' = inFlight \ {op}
    /\ UNCHANGED <<callVars, threadVars, flagVars, extentMap>>

CloseStep ==
  \/ CheckMigrating
  \/ NotifyMigrater
  \/ NotifyAnalyzer
  \/ PollMigrating
  \/ CancelThread
  \/ ThreadDies
  \/ FlushAndClose

ThreadStep ==
  \/ Pace
  \/ Wake
  \/ Handle
  \/ StartMigration
  \/ Flushed
  \/ \E ok \in BOOLEAN : CopyRead(ok)
  \/ CopyWrite
  \/ StickAtCopyWrite
  \/ UpdateExtentMap
  \/ RemoveSource
  \/ StickAtRemove
  \/ Removed
  \/ NextPlacement
  \/ RoundDone

Next ==
  \/ OpenImage
  \/ SetSnapshot
  \/ CloseImage
  \/ CloseStep
  \/ Crash
  \/ ThreadStep
  \/ RadosStep

Spec == Init /\ [][Next]_vars

\* Both threads are scheduled and RADOS answers.
FairSpec == Spec /\ WF_vars(CloseStep) /\ WF_vars(ThreadStep) /\ WF_vars(RadosStep)

-----------------------------------------------------------------------------
\* Every variable has its type.
TypeOK ==
  /\ opens     \in 0 .. MaxOpens
  /\ caller    \in {"closed", "open", "flush"} \cup Closing
  /\ thread    \in Waits \cup {"none", "pace", "late", "woken", "next", "again", "copy", "moved"}
  /\ migrating \in BOOLEAN
  /\ toFinilize \in BOOLEAN
  /\ staticToFinilize \in BOOLEAN
  /\ extentMap \in [Extent -> Pool]
  /\ holds     \in [Extent -> SUBSET Pool]
  /\ cur       \in Extent
  /\ todo      \in [Pool -> SUBSET Extent]
  /\ buffered  \in BOOLEAN
  /\ inFlight  \in SUBSET Operation
  /\ lockHeld  \in BOOLEAN
  /\ snapSet   \in BOOLEAN
  /\ faulted   \in SUBSET Extent
  /\ notified  \in BOOLEAN

\* A cancel, a close or a crash at any step of a migration leaves a complete
\* object of every extent in one of the pools, and as long as the first opening
\* lasts the extent map names a pool that has one.  The only exceptions are the
\* extents do_concurrent_migrate had an I/O error with, which it prints before it
\* repoints the map and removes the source, or which it read at a snapshot.
CopySurvives ==
  opens = 1 => \A e \in Extent \ faulted :
    /\ holds[e] # {}
    /\ caller # "closed" => extentMap[e] \in holds[e]

\* A close that set its flags while a migration was under way cancels the thread
\* outside any migration: neither half a migration nor a locked mutex stays
\* behind.  The whole INTERVAL of sleep under to_finilize is what does it.
NotifiedCloseIsClean ==
  notified /\ caller \in {"cancel", "join", "flush"} =>
    thread \in {"none", "pace", "late", "rest"} /\ ~migrating /\ ~lockHeld

\* What such a close found under way is the last round: until the image is opened
\* again no round begins and nothing is added to what is left of this one.
NotifiedRoundIsLast ==
  [][notified /\ notified' =>
       /\ migrating' => migrating
       /\ \A p \in Pool : todo'[p] \subseteq todo[p]]_vars

\* Such a close comes to its end: the loops break, and the next round does not
\* start before the caller has seen that there is no migration.  Only a thread
\* that waits for what a snapshot kept from starting lets finilize_WHOBBS poll
\* for ever.
NotifiedCloseEnds == caller = "wait" /\ notified ~> caller = "closed" \/ thread = "stuck"

-----------------------------------------------------------------------------
(* The inductive invariant behind the safety properties.                   *)

\* The waits and steps of handle, from set_migrating(true) to set_migrating(false).
Busy == {"next", "flush", "read", "copy", "write", "moved", "remove", "nap", "again",
         "stuck"}

\* There is a thread from open_image to the join, and as long as there is,
\* Migrater::migrating says whether it is in handle.  A mutex that it left locked
\* is met by the close that cancelled it.
ThreadInv ==
  /\ thread = "none" <=> caller \in {"closed", "flush"}
  /\ thread # "none" => (migrating <=> thread \in Busy)
  /\ lockHeld => caller = "flush"

\* The flags of a close that found a migration under way keep the thread from
\* another round until it is cancelled.
NotifiedInv ==
  /\ caller \in {"open", "check", "notify", "notified"} => ~notified
  /\ notified /\ caller \in {"wait", "cancel", "join"} => staticToFinilize
  /\ notified /\ caller = "wait" => thread \in Busy \cup {"pace", "late", "rest"}
  /\ notified /\ caller \in {"cancel", "join"} => thread \in {"pace", "late", "rest"}
  /\ notified /\ caller = "flush" => ~migrating /\ ~lockHeld

\* Before the first opening every object is in the default pool.
UnopenedInv ==
  opens = 0 =>
    /\ thread = "none" /\ caller = "closed" /\ inFlight = {}
    /\ holds = [e \in Extent |-> {DEFAULT_POOL}]

\* During the first opening, and after it, at most one request is under way, and
\* it is not the removal of the only object, nor of the mapped one, unless a copy
\* of that extent failed.
FlightInv ==
  opens = 1 =>
    /\ \A op1, op2 \in inFlight : op1 = op2
    /\ \A op \in inFlight : ~op.complete /\ op.extent \notin faulted =>
         /\ OtherPool(op.pool) \in holds[op.extent]
         /\ caller # "closed" => extentMap[op.extent] = OtherPool(op.pool)
    /\ thread \in {"copy", "write"} => buffered \/ cur \in faulted
    /\ thread \notin {"none", "write", "remove"} => inFlight = {}
    /\ thread = "write" =>
         IF inFlight = {} THEN OtherPool(extentMap[cur]) \in holds[cur] \/ cur \in faulted
         ELSE inFlight = {Copy(cur, OtherPool(extentMap[cur]))}
    /\ thread = "remove" => inFlight \subseteq {Removal(cur, OtherPool(extentMap[cur]))}

IInv == TypeOK /\ ThreadInv /\ NotifiedInv /\ UnopenedInv /\ FlightInv /\ CopySurvives

-----------------------------------------------------------------------------

\* test_librbd.cc:749 rbd_close returns: closing an image comes to its end, even
\* where no snapshot keeps the migrater from starting what it waits for.
CloseEnds == caller = "check" ~> caller = "closed" \/ thread = "stuck"
=============================================================================

------------------------ MODULE ImageLifecycleProofs ------------------------
(***************************************************************************)
(* What a close, a cancellation or a crash leaves behind, for any number   *)
(* of extents and openings.                                                *)
(***************************************************************************)
EXTENDS ImageLifecycle, TLAPS

USE DEF HDD, SSD, Pool, DEFAULT_POOL, OtherPool, callVars, threadVars, flagVars

LEMMA InitInv == Init => IInv
<1> SUFFICES ASSUME Init PROVE IInv
  OBVIOUS
<1>1. TypeOK
  <2>1. inFlight \in SUBSET Operation
    BY DEF Init
  <2>2. opens \in 0 .. MaxOpens
    BY OpensAssumption DEF Init
  <2> QED
    BY <2>1, <2>2 DEF Init, TypeOK, NoPlacement
<1>2. ThreadInv /\ NotifiedInv
  BY DEF Init, ThreadInv, NotifiedInv, Closing
<1>3. UnopenedInv /\ FlightInv /\ CopySurvives
  BY DEF Init, UnopenedInv, FlightInv, CopySurvives
<1> QED
  BY <1>1, <1>2, <1>3 DEF IInv

-----------------------------------------------------------------------------
LEMMA TypeStep == TypeOK /\ [Next]_vars => TypeOK'
<1> SUFFICES ASSUME TypeOK, [Next]_vars PROVE TypeOK'
  OBVIOUS
<1> USE DEF TypeOK, Closing, Waits, LibradosWaits, Sleeps, ImageGone
<1>1. CASE OpenImage
  <2>1. opens' \in 0 .. MaxOpens
    BY <1>1, OpensAssumption DEF OpenImage
  <2> QED
    BY <1>1, <2>1 DEF OpenImage
<1>2. CASE CloseImage \/ SetSnapshot
  <2>1. CASE CloseImage
    BY <2>1 DEF CloseImage
  <2>2. CASE SetSnapshot
    BY <2>2 DEF SetSnapshot
  <2> QED
    BY <1>2, <2>1, <2>2
<1>3. CASE CloseStep
  <2>1. CASE CheckMigrating
    BY <2>1 DEF CheckMigrating
  <2>2. CASE NotifyMigrater
    BY <2>2 DEF NotifyMigrater
  <2>3. CASE NotifyAnalyzer
    BY <2>3 DEF NotifyAnalyzer
  <2>4. CASE PollMigrating
    BY <2>4 DEF PollMigrating
  <2>5. CASE CancelThread
    BY <2>5 DEF CancelThread
  <2>6. CASE FlushAndClose
    BY <2>6 DEF FlushAndClose
  <2>7. CASE ThreadDies
    BY <2>7 DEF ThreadDies, NoPlacement
  <2> QED
    BY <1>3, <2>1, <2>2, <2>3, <2>4, <2>5, <2>6, <2>7 DEF CloseStep
<1>4. CASE Crash
  BY <1>4 DEF Crash, NoPlacement
<1>5. CASE RadosStep
  <2> PICK op \in inFlight :
        /\ Carry(op) \/ Fail(op)
        /\ inFlight' = inFlight \ {op}
        /\ UNCHANGED <<callVars, threadVars, flagVars, extentMap>>
    BY <1>5 DEF RadosStep
  <2>1. op.extent \in Extent /\ op.pool \in Pool
    BY DEF Operation
  <2>2. holds' \in [Extent -> SUBSET Pool] /\ faulted' \in SUBSET Extent
    BY <2>1 DEF Carry, Fail, Faulted
  <2> QED
    BY <2>2
<1>6. CASE \/ Pace \/ Wake \/ Flushed \/ Removed \/ RoundDone
           \/ \E ok \in BOOLEAN : CopyRead(ok)
           \/ StickAtCopyWrite \/ StickAtRemove
  <2>1. CASE Pace
    BY <2>1 DEF Pace
  <2>2. CASE Wake \/ Flushed \/ Removed
    BY <2>2 DEF Wake, Flushed, Removed
  <2>3. CASE \E ok \in BOOLEAN : CopyRead(ok)
    BY <2>3 DEF CopyRead, Faulted
  <2>4. CASE RoundDone
    BY <2>4 DEF RoundDone
  <2>5. CASE StickAtCopyWrite \/ StickAtRemove
    BY <2>5 DEF StickAtCopyWrite, StickAtRemove
  <2> QED
    BY <1>6, <2>1, <2>2, <2>3, <2>4, <2>5
<1>7. CASE Handle
  BY <1>7 DEF Handle
<1>8. CASE StartMigration
  BY <1>8 DEF StartMigration, Target
<1>9. CASE CopyWrite \/ RemoveSource
  <2>1. OtherPool(extentMap[cur]) \in Pool
    OBVIOUS
  <2>2. inFlight' \in SUBSET Operation
    <3> DEFINE to == OtherPool(extentMap[cur])
    <3>1. inFlight' = inFlight \cup {Copy(cur, to)} \/ inFlight' = inFlight \cup {Removal(cur, to)}
      BY <1>9 DEF CopyWrite, RemoveSource
    <3>2. to \in Pool
      BY <2>1
    <3> HIDE DEF to
    <3>3. /\ Copy(cur, to) \in Operation
          /\ Removal(cur, to) \in Operation
      BY <3>2 DEF Copy, Removal, Operation
    <3> QED
      BY <3>1, <3>3
  <2> QED
    BY <1>9, <2>2 DEF CopyWrite, RemoveSource
<1>10. CASE UpdateExtentMap
  BY <1>10 DEF UpdateExtentMap
<1>11. CASE NextPlacement
  BY <1>11 DEF NextPlacement, Target
<1>12. CASE UNCHANGED vars
  BY <1>12 DEF vars
<1> QED
  BY <1>1, <1>2, <1>3, <1>4, <1>5, <1>6, <1>7, <1>8, <1>9, <1>10, <1>11, <1>12
     DEF Next, ThreadStep

LEMMA ThreadInvStep ==
  TypeOK /\ ThreadInv /\ NotifiedInv /\ [Next]_vars => ThreadInv' /\ NotifiedInv'
<1> SUFFICES ASSUME TypeOK, ThreadInv, NotifiedInv, [Next]_vars
             PROVE  ThreadInv' /\ NotifiedInv'
  OBVIOUS
<1> USE DEF ThreadInv, NotifiedInv, Busy, Closing, Waits, LibradosWaits, Sleeps, ImageGone
<1>0. /\ migrating \in BOOLEAN /\ notified \in BOOLEAN /\ lockHeld \in BOOLEAN
      /\ staticToFinilize \in BOOLEAN
  BY DEF TypeOK
<1>1. CASE OpenImage \/ CloseImage \/ SetSnapshot
  BY <1>0, <1>1 DEF OpenImage, CloseImage, SetSnapshot
<1>2. CASE CheckMigrating \/ NotifyMigrater \/ NotifyAnalyzer
  BY <1>0, <1>2 DEF CheckMigrating, NotifyMigrater, NotifyAnalyzer
<1>3. CASE PollMigrating \/ CancelThread
  BY <1>0, <1>3 DEF PollMigrating, CancelThread
<1>4. CASE ThreadDies
  BY <1>0, <1>4 DEF ThreadDies
<1>5. CASE FlushAndClose \/ Crash
  BY <1>0, <1>5 DEF FlushAndClose, Crash
<1>6. CASE RadosStep \/ UNCHANGED vars
  <2>1. UNCHANGED <<callVars, threadVars, flagVars>>
    BY <1>6 DEF RadosStep, vars
  <2> QED
    BY <1>0, <2>1
<1>7. CASE Pace
  BY <1>0, <1>7 DEF Pace
<1>8. CASE Wake \/ Handle \/ StartMigration \/ Flushed
  BY <1>0, <1>8 DEF Wake, Handle, StartMigration, Flushed
<1>9. CASE \/ \E ok \in BOOLEAN : CopyRead(ok)
           \/ CopyWrite \/ UpdateExtentMap \/ RemoveSource
           \/ StickAtCopyWrite \/ StickAtRemove
  BY <1>0, <1>9 DEF CopyRead, CopyWrite, UpdateExtentMap, RemoveSource,
      StickAtCopyWrite, StickAtRemove
<1>10. CASE Removed \/ NextPlacement \/ RoundDone
  BY <1>0, <1>10 DEF Removed, NextPlacement, RoundDone
<1> QED
  BY <1>1, <1>2, <1>3, <1>4, <1>5, <1>6, <1>7, <1>8, <1>9, <1>10
     DEF Next, CloseStep, ThreadStep

-----------------------------------------------------------------------------
(* The objects.                                                            *)

Objects == UnopenedInv /\ FlightInv /\ CopySurvives

LEMMA ObjectsStep == IInv /\ [Next]_vars => Objects'
<1> SUFFICES ASSUME IInv, [Next]_vars PROVE Objects'
  OBVIOUS
<1> USE DEF Objects, UnopenedInv, FlightInv, CopySurvives
<1>0. TypeOK /\ ThreadInv /\ Objects
  BY DEF IInv
<1>t. /\ opens \in Nat /\ cur \in Extent
      /\ extentMap \in [Extent -> Pool] /\ holds \in [Extent -> SUBSET Pool]
      /\ inFlight \subseteq Operation /\ faulted \subseteq Extent
  BY <1>0, OpensAssumption DEF TypeOK
<1>1. CASE OpenImage
  <2>1. CASE opens = 0
    BY <1>0, <1>1, <1>t, <2>1 DEF OpenImage
  <2>2. CASE opens # 0
    BY <1>0, <1>1, <1>t, <2>2 DEF OpenImage
  <2> QED
    BY <2>1, <2>2
<1>3. CASE CloseImage \/ SetSnapshot \/ CheckMigrating \/ NotifyMigrater
           \/ NotifyAnalyzer \/ PollMigrating \/ CancelThread
  BY <1>0, <1>t, <1>3
     DEF CloseImage, SetSnapshot, CheckMigrating, NotifyMigrater, NotifyAnalyzer,
         PollMigrating, CancelThread, Copy, Removal
<1>4. CASE ThreadDies
  BY <1>0, <1>4, <1>t DEF ThreadDies, ThreadInv
<1>5. CASE Crash
  BY <1>0, <1>5, <1>t DEF Crash, ImageGone
<1>14. CASE FlushAndClose
  BY <1>0, <1>14, <1>t DEF FlushAndClose, ImageGone, ThreadInv
<1>15. CASE StickAtCopyWrite \/ StickAtRemove
  BY <1>0, <1>15, <1>t DEF StickAtCopyWrite, StickAtRemove, ThreadInv
<1>6. CASE Pace \/ Wake \/ Handle \/ StartMigration \/ Flushed \/ NextPlacement \/ RoundDone
  BY <1>0, <1>6, <1>t
     DEF Pace, Wake, Handle, StartMigration, Flushed, NextPlacement, RoundDone, ThreadInv
<1>7. ASSUME NEW ok \in BOOLEAN, CopyRead(ok) PROVE Objects'
  <2>1. opens = 1 => extentMap[cur] \in holds[cur] \/ cur \in faulted
    BY <1>0, <1>7, <1>t DEF CopyRead, ThreadInv
  <2>2. opens = 1 => buffered' \/ cur \in faulted'
    BY <1>7, <2>1 DEF CopyRead, Faulted
  <2>3. faulted \subseteq faulted'
    BY <1>7 DEF CopyRead, Faulted
  <2>4. /\ thread = "read" /\ thread' = "copy"
        /\ UNCHANGED <<opens, caller, cur, extentMap, holds, inFlight>>
    BY <1>7 DEF CopyRead
  <2> QED
    BY <1>0, <1>t, <2>2, <2>3, <2>4 DEF ThreadInv
<1>8. CASE CopyWrite
  <2> DEFINE op == Copy(cur, OtherPool(extentMap[cur]))
  <2>1. /\ opens # 0 /\ thread' = "write"
        /\ UNCHANGED <<opens, caller, cur, buffered, extentMap, holds, faulted>>
    BY <1>0, <1>8 DEF CopyWrite
  <2>2. opens = 1 => (buffered \/ cur \in faulted) /\ inFlight' = {op}
    BY <1>0, <1>8 DEF CopyWrite
  <2>3. op' = op /\ op.complete = buffered /\ op.extent = cur
    BY <2>1 DEF Copy
  <2> HIDE DEF op
  <2> QED
    BY <1>0, <2>1, <2>2, <2>3 DEF op
<1>9. CASE UpdateExtentMap
  <2>1. /\ opens # 0 /\ thread' = "moved"
        /\ UNCHANGED <<opens, caller, cur, holds, faulted, inFlight>>
        /\ extentMap' = [extentMap EXCEPT ![cur] = OtherPool(@)]
    BY <1>0, <1>9 DEF UpdateExtentMap
  <2>2. opens = 1 => inFlight = {} /\ (OtherPool(extentMap[cur]) \in holds[cur] \/ cur \in faulted)
    BY <1>0, <1>9 DEF UpdateExtentMap
  <2> QED
    BY <1>0, <1>t, <2>1, <2>2
<1>10. CASE RemoveSource
  <2> DEFINE op == Removal(cur, OtherPool(extentMap[cur]))
  <2>1. /\ opens # 0 /\ thread' = "remove" /\ caller # "closed"
        /\ UNCHANGED <<opens, caller, cur, extentMap, holds, faulted>>
    BY <1>0, <1>10 DEF RemoveSource, ThreadInv
  <2>2. opens = 1 => inFlight' = {op} /\ (extentMap[cur] \in holds[cur] \/ cur \in faulted)
    BY <1>0, <1>10, <1>t, <2>1 DEF RemoveSource
  <2>3. op' = op /\ op.extent = cur /\ OtherPool(op.pool) = extentMap[cur]
    BY <1>t, <2>1 DEF Removal
  <2> HIDE DEF op
  <2> QED
    BY <1>0, <2>1, <2>2, <2>3 DEF op
<1>11. CASE Removed
  BY <1>0, <1>11, <1>t DEF Removed
<1>12. CASE RadosStep
  <2> PICK op \in inFlight :
        /\ Carry(op) \/ Fail(op)
        /\ inFlight' = inFlight \ {op}
        /\ UNCHANGED <<callVars, threadVars, flagVars, extentMap>>
    BY <1>12 DEF RadosStep
  <2>1. op.extent \in Extent /\ op.pool \in Pool
    BY <1>t DEF Operation
  <2>2. opens # 0
    BY <1>0
  <2>3. SUFFICES ASSUME opens = 1
                 PROVE  Objects'
    BY <2>2
  <2>4. inFlight = {op} /\ inFlight' = {}
    BY <1>0, <2>3
  <2>5. CASE Carry(op)
    <3>1. CopySurvives'
      BY <1>0, <1>t, <2>1, <2>3, <2>5 DEF Carry
    <3>2. thread = "write" => OtherPool(extentMap'[cur]) \in holds'[cur] \/ cur \in faulted'
      <4> SUFFICES ASSUME thread = "write", cur \notin faulted
                   PROVE  OtherPool(extentMap'[cur]) \in holds'[cur]
        BY <2>5 DEF Carry
      <4>1. op = Copy(cur, OtherPool(extentMap[cur])) /\ buffered
        BY <1>0, <2>3, <2>4
      <4>2. op.extent = cur /\ op.pool = OtherPool(extentMap[cur]) /\ op.complete = buffered
        BY <4>1 DEF Copy
      <4>3. extentMap' = extentMap /\ holds' = [holds EXCEPT ![cur] = @ \cup {OtherPool(extentMap[cur])}]
        BY <2>5, <4>1, <4>2 DEF Carry
      <4> QED
        BY <1>t, <4>3
    <3>3. UNCHANGED faulted
      BY <2>5 DEF Carry
    <3> QED
      BY <1>0, <2>2, <2>3, <2>4, <3>1, <3>2, <3>3
  <2>6. CASE Fail(op)
    <3>1. UNCHANGED holds /\ faulted \subseteq faulted'
      BY <2>6 DEF Fail, Faulted
    <3>2. thread = "write" => cur \in faulted'
      <4> SUFFICES ASSUME thread = "write" PROVE cur \in faulted'
        OBVIOUS
      <4>1. op = Copy(cur, OtherPool(extentMap[cur]))
        BY <1>0, <2>3, <2>4
      <4> QED
        BY <2>3, <2>6, <4>1 DEF Fail, Faulted, Copy
    <3> QED
      BY <1>0, <2>2, <2>3, <2>4, <3>1, <3>2
  <2> QED
    BY <2>5, <2>6
<1>13. CASE UNCHANGED vars
  BY <1>0, <1>13 DEF vars, Copy, Removal
<1> QED
  BY <1>1, <1>3, <1>4, <1>5, <1>6, <1>7, <1>8, <1>9, <1>10, <1>11, <1>12, <1>13,
     <1>14, <1>15
     DEF Next, CloseStep, ThreadStep

-----------------------------------------------------------------------------
(* The results.                                                            *)

\* The invariant holds in every reachable state, for any number of extents and
\* openings.
THEOREM Invariance == Spec => []IInv
<1>1. Init => IInv
  BY InitInv
<1>2. IInv /\ [Next]_vars => IInv'
  BY TypeStep, ThreadInvStep, ObjectsStep DEF IInv, Objects
<1> QED
  BY <1>1, <1>2, PTL DEF Spec

\* The state of an image and its analyzer thread keeps its type.
THEOREM TypeCorrect == Spec => []TypeOK
<1>1. IInv => TypeOK
  BY DEF IInv
<1> QED
  BY <1>1, Invariance, PTL

\* A crash, a cancellation or a close in the first opening leaves a complete
\* object of every extent that do_concurrent_migrate had no I/O error with and did
\* not read at a snapshot.
THEOREM NothingIsLost == Spec => []CopySurvives
<1>1. IInv => CopySurvives
  BY DEF IInv
<1> QED
  BY <1>1, Invariance, PTL

\* A close that notified a running round cancels the thread between two rounds.
THEOREM CloseIsClean == Spec => []NotifiedCloseIsClean
<1>1. IInv => NotifiedCloseIsClean
  BY DEF IInv, TypeOK, ThreadInv, NotifiedInv, NotifiedCloseIsClean, Busy
<1> QED
  BY <1>1, Invariance, PTL

\* From the moment finilize_WHOBBS has set its flags on a running round until the
\* image is opened again, handle() is not called and the round's lists only shrink.
THEOREM RoundIsLast == Spec => NotifiedRoundIsLast
<1> DEFINE Last == notified /\ notified' =>
                     /\ migrating' => migrating
                     /\ \A p \in Pool : todo'[p] \subseteq todo[p]
<1>1. ASSUME IInv, [Next]_vars PROVE Last
  <2> SUFFICES ASSUME notified, notified' PROVE Last
    OBVIOUS
  <2> USE <1>1
  <2>1. ~OpenImage /\ ~Handle
    BY DEF IInv, TypeOK, ThreadInv, NotifiedInv, Busy, Closing, OpenImage, Handle
  <2>2. todo \in [Pool -> SUBSET Extent]
    BY DEF IInv, TypeOK
  <2>3. CASE NextPlacement
    BY <2>2, <2>3 DEF NextPlacement, Target
  <2>4. CASE ThreadDies \/ Crash
    BY <2>4 DEF ThreadDies, Crash, ImageGone, NoPlacement
  <2>5. CASE UNCHANGED todo /\ (migrating' => migrating)
    BY <2>5
  <2>6. \/ NextPlacement \/ ThreadDies \/ Crash
        \/ UNCHANGED todo /\ (migrating' => migrating)
    BY <2>1 DEF Next, vars, CloseStep, ThreadStep, CloseImage, SetSnapshot,
        CheckMigrating, NotifyMigrater, NotifyAnalyzer, PollMigrating,
        CancelThread, FlushAndClose, ImageGone, Pace, Wake, StartMigration,
        Flushed, CopyRead, CopyWrite, StickAtCopyWrite, UpdateExtentMap,
        RemoveSource, StickAtRemove, Removed, RoundDone, RadosStep
  <2> QED
    BY <2>3, <2>4, <2>5, <2>6
<1>2. IInv /\ [Next]_vars => [Last]_vars
  BY <1>1
<1> QED
  BY <1>2, Invariance, PTL DEF Spec, NotifiedRoundIsLast
=============================================================================

------------------------ MODULE WriteCompletionProofs ------------------------
(***************************************************************************)
(* The counters, the callbacks and the list of outstanding writes agree,   *)
(* for any number of calls and object requests.                            *)
(***************************************************************************)
EXTENDS WriteCompletion, FiniteSetTheorems, SequenceTheorems, TLAPS

USE DEF HDD_POOL, SSD_POOL, Pool, Completion, Req

-----------------------------------------------------------------------------
(* What a step does to the pending requests of a call.                     *)

LEMMA PendIsFinite == \A c : IsFiniteSet(Pend(c))
<1>1. IsFiniteSet(Req)
  BY CallsAreDisjoint, FS_Union
<1>2. \A c : Pend(c) \subseteq Req
  BY DEF Pend
<1> QED
  BY <1>1, <1>2, FS_Subset

LEMMA PendGains ==
  ASSUME TypeOK, NEW q \in Req, state[q] = "new", UNCHANGED owner,
         NEW s \in {"out", "stuck"}, state' = [state EXCEPT ![q] = s]
  PROVE  \A c : Cardinality(Pend(c)') = Cardinality(Pend(c)) + (IF Owner(q) = c THEN 1 ELSE 0)
<1> TAKE c
<1>1. CASE Owner(q) = c
  <2>1. Pend(c)' = Pend(c) \cup {q}
    BY <1>1 DEF Pend, Owner, TypeOK
  <2>2. q \notin Pend(c)
    BY DEF Pend
  <2> QED
    BY <1>1, <2>1, <2>2, PendIsFinite, FS_AddElement, FS_CardinalityType
<1>2. CASE Owner(q) # c
  <2>1. Pend(c)' = Pend(c)
    BY <1>2 DEF Pend, Owner, TypeOK
  <2> QED
    BY <1>2, <2>1, PendIsFinite, FS_CardinalityType
<1> QED
  BY <1>1, <1>2

LEMMA PendLoses ==
  ASSUME TypeOK, NEW q \in Req, state[q] \in {"out", "safe"}, UNCHANGED owner,
         state' = [state EXCEPT ![q] = "done"]
  PROVE  \A c : Cardinality(Pend(c)') = Cardinality(Pend(c)) - (IF Owner(q) = c THEN 1 ELSE 0)
<1> TAKE c
<1>1. CASE Owner(q) = c
  <2>1. Pend(c)' = Pend(c) \ {q}
    BY <1>1 DEF Pend, Owner, TypeOK
  <2>2. q \in Pend(c)
    BY <1>1 DEF Pend
  <2> QED
    BY <1>1, <2>1, <2>2, PendIsFinite, FS_RemoveElement, FS_CardinalityType
<1>2. CASE Owner(q) # c
  <2>1. Pend(c)' = Pend(c)
    BY <1>2 DEF Pend, Owner, TypeOK
  <2> QED
    BY <1>2, <2>1, PendIsFinite, FS_CardinalityType
<1> QED
  BY <1>1, <1>2

LEMMA PendEmpty ==
  \A c : /\ Cardinality(Pend(c)) \in Nat
         /\ Cardinality(Pend(c)) = 0 <=> Pend(c) = {}
  BY PendIsFinite, FS_CardinalityType, FS_EmptySet

-----------------------------------------------------------------------------
LEMMA InitInv == Init => IInv
<1> SUFFICES ASSUME Init PROVE IInv
  OBVIOUS
<1>1. TypeOK
  BY DEF Init, TypeOK, Entry
<1>2. \A c : Pend(c) = {}
  BY DEF Init, Pend
<1>3. CountInv
  BY <1>2, PendEmpty DEF Init, CountInv, Over
<1>4. CallInv
  BY DEF Init, CallInv, Building, Refused
<1>5. ListInv
  BY DEF Init, ListInv
<1>6. ResultInv
  BY DEF Init, ResultInv
<1>7. SyncInv
  BY DEF Init, SyncInv
<1>8. ReqInv /\ DrainInv
  BY DEF Init, ReqInv, DrainInv, StartInv, WaitInv, OrderInv, Answered
<1>9. WakeInv /\ AskedInv
  BY DEF Init, WakeInv, AskedInv, Asked
<1> QED
  BY <1>1, <1>3, <1>4, <1>5, <1>6, <1>7, <1>8, <1>9 DEF IInv

-----------------------------------------------------------------------------
LEMMA CompleteType ==
  ASSUME TypeOK, NEW c \in Completion, NEW r \in {"none", "ok", "error"},
         CompleteRequest(c, r)
  PROVE  /\ rval'     \in [Completion -> {"ok", "error"}]
         /\ pending'  \in [Completion -> Int]
         /\ ref'      \in [Completion -> Int]
         /\ released' \in [Completion -> BOOLEAN]
         /\ fired'    \in [Completion -> Nat]
<1>1. rval' \in [Completion -> {"ok", "error"}] /\ pending' \in [Completion -> Int]
  BY DEF TypeOK, CompleteRequest
<1>2. CASE pending[c] = 1 /\ ~building[c]
  <2> PICK rel \in BOOLEAN :
         CallBack(c, rel) /\ ref' = [ref EXCEPT ![c] = @ - (IF rel THEN 2 ELSE 1)]
    BY <1>2 DEF CompleteRequest
  <2> QED
    BY SMTT(30), <1>1 DEF CallBack, TypeOK
<1>3. CASE ~(pending[c] = 1 /\ ~building[c])
  BY SMTT(30), <1>1, <1>3 DEF CompleteRequest, TypeOK
<1> QED
  BY <1>2, <1>3

LEMMA TypeStep == TypeOK /\ [Next]_vars => TypeOK'
<1> SUFFICES ASSUME TypeOK, [Next]_vars PROVE TypeOK'
  OBVIOUS
<1> USE CallsAreDisjoint DEF TypeOK, compVars, syncVars
<1>1. ASSUME NEW c \in Completion, StartWrite(c) PROVE TypeOK'
  BY <1>1 DEF StartWrite
<1>2. ASSUME NEW c \in Completion, StartAioFlush(c) PROVE TypeOK'
  <2>1. c \in Flush /\ Listed \in SUBSET ObjReq
    BY <1>2 DEF StartAioFlush, Listed, Pool
  <2>2. call' \in [Completion -> {"new", "adding", "half", "flushed", "failing",
                                  "returning", "refusing", "returned", "refused"}]
    BY <1>2 DEF StartAioFlush
  <2>3. pending' \in [Completion -> Int] /\ ref' \in [Completion -> Int]
    BY <1>2 DEF StartAioFlush
  <2>4. state' \in [Req -> {"new", "out", "safe", "done", "stuck"}]
    BY <1>2 DEF StartAioFlush
  <2>5. before' \in [Flush \cup {"sync"} -> SUBSET ObjReq]
    BY <1>2, <2>1 DEF StartAioFlush
  <2>6. UNCHANGED <<owner, building, released, rval, fired, res, listed, waiting,
                    finisher, drained, syncVars>>
    BY <1>2 DEF StartAioFlush
  <2> QED
    BY <2>2, <2>3, <2>4, <2>5, <2>6
<1>3. ASSUME NEW c \in Completion, FinishAddingRequests(c) PROVE TypeOK'
  <2>1. CASE pending[c] = 0
    <3> PICK rel \in BOOLEAN : CallBack(c, rel) /\ ref' = [ref EXCEPT ![c] = @ - (IF rel THEN 1 ELSE 0)]
      BY <1>3, <2>1 DEF FinishAddingRequests
    <3>1. fired' \in [Completion -> Nat] /\ released' \in [Completion -> BOOLEAN]
      BY DEF CallBack
    <3>2. ref' \in [Completion -> Int]
      OBVIOUS
    <3> QED
      BY <1>3, <3>1, <3>2 DEF FinishAddingRequests
  <2>2. CASE pending[c] # 0
    BY <1>3, <2>2 DEF FinishAddingRequests
  <2> QED
    BY <2>1, <2>2
<1>4. ASSUME NEW c \in Completion, Return(c) PROVE TypeOK'
  BY <1>4 DEF Return
<1>5. ASSUME NEW c \in Completion, Release(c) PROVE TypeOK'
  BY <1>5 DEF Release
<1>6. ASSUME NEW a \in ObjReq, SendFails(a) PROVE TypeOK'
  <2>1. owner[a] \in Completion /\ a \in Req
    OBVIOUS
  <2> QED
    BY <1>6, <2>1 DEF SendFails
<1>7. ASSUME NEW a \in ObjReq, NEW p \in Pool, Send(a, p) PROVE TypeOK'
  <2>1. owner[a] \in Completion /\ a \in Req
    OBVIOUS
  <2>2. listed' \in [Pool -> SUBSET ObjReq]
    BY <1>7 DEF Send
  <2>3. pending' \in [Completion -> Int] /\ ref' \in [Completion -> Int]
    BY <1>7, <2>1 DEF Send
  <2>4. state' \in [Req -> {"new", "out", "safe", "done", "stuck"}]
    BY <1>7, <2>1 DEF Send
  <2>5. UNCHANGED <<owner, call, building, released, rval, fired, res, waiting,
                    finisher, drained, before, syncVars>>
    BY <1>7 DEF Send
  <2> QED
    BY <2>2, <2>3, <2>4, <2>5
<1>8. ASSUME NEW f \in Flush, NEW p \in Pool, FlushPool(f, p) PROVE TypeOK'
  <2>1. call' \in [Completion -> {"new", "adding", "half", "flushed", "failing",
                                  "returning", "refusing", "returned", "refused"}]
    <3>1. call' = [call EXCEPT ![f] = "half"] \/ call' = [call EXCEPT ![f] = "flushed"]
      BY <1>8 DEF FlushPool
    <3> QED
      BY <3>1
  <2>2. CASE listed[p] = {}
    <3>1. finisher' \in Seq(Entry)
      <4>1. <<f, p>> \in Entry
        BY DEF Entry
      <4>2. finisher' = Append(finisher, <<f, p>>)
        BY <1>8, <2>2 DEF FlushPool, FlushAsync
      <4> QED
        BY <4>1, <4>2, AppendProperties
    <3>2. UNCHANGED <<owner, compVars, state, res, listed, waiting, drained, before, syncVars>>
      BY <1>8, <2>2 DEF FlushPool, FlushAsync
    <3> QED
      BY <2>1, <3>1, <3>2
  <2>3. CASE listed[p] # {}
    <3>1. waiting' \in [Pool -> Seq([flush : Flush, seen : SUBSET ObjReq])]
      <4> DEFINE w == [flush |-> f, seen |-> listed[p]]
      <4>1. w \in [flush : Flush, seen : SUBSET ObjReq]
        OBVIOUS
      <4>2. waiting' = [waiting EXCEPT ![p] = Append(@, w)]
        BY <1>8, <2>3 DEF FlushPool, FlushAsync
      <4>3. Append(waiting[p], w) \in Seq([flush : Flush, seen : SUBSET ObjReq])
        BY <4>1, AppendProperties
      <4> HIDE DEF w
      <4> QED
        BY <4>2, <4>3
    <3>2. UNCHANGED <<owner, compVars, state, res, listed, finisher, drained, before, syncVars>>
      BY <1>8, <2>3 DEF FlushPool, FlushAsync
    <3> QED
      BY <2>1, <3>1, <3>2
  <2> QED
    BY <2>2, <2>3
<1>9. ASSUME NEW a \in ObjReq, NEW p \in Pool, NEW r \in {"ok", "error"}, Commit(a, p, r)
      PROVE TypeOK'
  <2> PICK n \in 0 .. Len(waiting[p]) :
        /\ finisher' = Append(finisher, <<a, p>>) \o Answers(p, n)
        /\ waiting' = [waiting EXCEPT ![p] = SubSeq(@, n + 1, Len(@))]
    BY <1>9 DEF Commit
  <2>1. Answers(p, n) \in Seq(Entry)
    <3>1. \A i \in 1 .. n : waiting[p][i].flush \in Flush
      <4>1. waiting[p] \in Seq([flush : Flush, seen : SUBSET ObjReq])
        OBVIOUS
      <4>2. \A i \in 1 .. n : i \in 1 .. Len(waiting[p])
        BY <4>1, LenProperties
      <4>3. \A i \in 1 .. n : waiting[p][i] \in [flush : Flush, seen : SUBSET ObjReq]
        BY <4>1, <4>2, ElementOfSeq
      <4> QED
        BY <4>3
    <3>2. Answers(p, n) \in [1 .. n -> Entry]
      BY <3>1 DEF Answers, Entry
    <3> QED
      BY <3>2
  <2>2. finisher' \in Seq(Entry)
    BY <2>1 DEF Entry
  <2>3. waiting' \in [Pool -> Seq([flush : Flush, seen : SUBSET ObjReq])]
    <3>1. waiting[p] \in Seq([flush : Flush, seen : SUBSET ObjReq])
      OBVIOUS
    <3>2. SubSeq(waiting[p], n + 1, Len(waiting[p])) \in Seq([flush : Flush, seen : SUBSET ObjReq])
      <4>1. \A i \in n + 1 .. Len(waiting[p]) : i \in 1 .. Len(waiting[p])
        BY <3>1, LenProperties
      <4>2. \A i \in n + 1 .. Len(waiting[p]) :
               waiting[p][i] \in [flush : Flush, seen : SUBSET ObjReq]
        BY <3>1, <4>1, ElementOfSeq
      <4>3. Len(waiting[p]) \in Int /\ n + 1 \in Int
        BY <3>1, LenProperties
      <4> HIDE DEF TypeOK
      <4> QED
        BY <4>2, <4>3, SubSeqProperties
    <3> QED
      BY <3>2
  <2> QED
    BY <1>9, <2>2, <2>3 DEF Commit
<1>10. ASSUME FinishWrite PROVE TypeOK'
  <2>1. Head(finisher) \in Entry /\ Tail(finisher) \in Seq(Entry)
    BY <1>10 DEF FinishWrite
  <2> QED
    <3> DEFINE a == Head(finisher)[1]
    <3>1. /\ a \in ObjReq /\ owner[a] \in Completion /\ res[a] \in {"none", "ok", "error"}
          /\ CompleteRequest(owner[a], res[a])
          /\ state' \in [Req -> {"new", "out", "safe", "done", "stuck"}]
      BY <1>10, <2>1 DEF FinishWrite
    <3>2. /\ rval'     \in [Completion -> {"ok", "error"}]
          /\ pending'  \in [Completion -> Int]
          /\ ref'      \in [Completion -> Int]
          /\ released' \in [Completion -> BOOLEAN]
          /\ fired'    \in [Completion -> Nat]
      <4> HIDE DEF a, TypeOK
      <4> QED
        BY <3>1, CompleteType
    <3> QED
      BY <1>10, <2>1, <3>1, <3>2 DEF FinishWrite
<1>11. ASSUME FinishFlush PROVE TypeOK'
  <2>1. Head(finisher) \in Entry /\ Tail(finisher) \in Seq(Entry)
    BY <1>11 DEF FinishFlush
  <2> QED
    <3> DEFINE f == Head(finisher)[1]
    <3>1. /\ f \in Flush /\ Head(finisher)[2] \in Pool
          /\ drained' = [drained EXCEPT ![f] = @ \cup {Head(finisher)[2]}]
      BY <1>11, <2>1 DEF FinishFlush, Entry
    <3>2. drained' \in [Flush -> SUBSET Pool]
      BY <3>1
    <3>3. CASE state[f] = "out"
      <4>1. CompleteRequest(f, "ok") /\ state' = [state EXCEPT ![f] = "done"]
        BY <1>11, <3>3 DEF FinishFlush
      <4>2. state' \in [Req -> {"new", "out", "safe", "done", "stuck"}]
        BY <4>1
      <4>3. /\ rval'     \in [Completion -> {"ok", "error"}]
            /\ pending'  \in [Completion -> Int]
            /\ ref'      \in [Completion -> Int]
            /\ released' \in [Completion -> BOOLEAN]
            /\ fired'    \in [Completion -> Nat]
        <5> HIDE DEF f, TypeOK
        <5> QED
          BY <3>1, <4>1, CompleteType
      <4> QED
        BY <1>11, <2>1, <3>2, <4>2, <4>3 DEF FinishFlush
    <3>4. CASE state[f] # "out"
      BY <1>11, <2>1, <3>2, <3>4 DEF FinishFlush
    <3> QED
      BY <3>3, <3>4
<1>12. ASSUME StartFlush PROVE TypeOK'
  BY <1>12 DEF StartFlush, Listed
<1>13. ASSUME FlushNextPool PROVE TypeOK'
  BY <1>13 DEF FlushNextPool
<1>14. ASSUME FlushReturns PROVE TypeOK'
  BY <1>14 DEF FlushReturns
<1>15. CASE UNCHANGED vars
  BY <1>15 DEF vars
<1> HIDE DEF TypeOK
<1> QED
  BY <1>1, <1>2, <1>3, <1>4, <1>5, <1>6, <1>7, <1>8, <1>9, <1>10, <1>11, <1>12,
     <1>13, <1>14, <1>15 DEF Next, CallStep, SendStep, Finisher

-----------------------------------------------------------------------------
(* The two counters and the callback.                                      *)

Counters == CountInv /\ CallInv

\* complete_request keeps the counters, if its request is the one that leaves.
LEMMA CompleteCounts ==
  ASSUME TypeOK, CountInv, CallInv, NEW c \in Completion, NEW r,
         CompleteRequest(c, r), UNCHANGED <<call, building>>,
         \A d : Cardinality(Pend(d)') = Cardinality(Pend(d)) - (IF c = d THEN 1 ELSE 0)
  PROVE  /\ CountInv'
         /\ \A d \in Completion :
              fired'[d] = IF ~building'[d] /\ pending'[d] = 0 THEN 1 ELSE 0
<1>1. pending' = [pending EXCEPT ![c] = @ - 1]
  BY DEF CompleteRequest
<1>2. pending[c] > 0
  <2>1. Cardinality(Pend(c)') \in Nat
    <3>1. Pend(c)' \subseteq Req /\ IsFiniteSet(Req)
      BY CallsAreDisjoint, FS_Union DEF Pend
    <3> QED
      BY <3>1, FS_Subset, FS_CardinalityType
  <2> QED
    BY <2>1, PendEmpty DEF CountInv, TypeOK
<1>3. CASE pending[c] = 1 /\ ~building[c]
  <2> PICK rel \in BOOLEAN :
         CallBack(c, rel) /\ ref' = [ref EXCEPT ![c] = @ - (IF rel THEN 2 ELSE 1)]
    BY <1>3 DEF CompleteRequest
  <2>1. fired[c] = 0
    BY <1>3 DEF CallInv
  <2>2. /\ released' = [released EXCEPT ![c] = @ \/ rel]
        /\ rel => ~released[c]
        /\ fired' = [fired EXCEPT ![c] = @ + 1]
    BY DEF CallBack
  <2>3. ASSUME NEW d \in Completion
        PROVE  /\ pending'[d] = Cardinality(Pend(d)')
               /\ ref'[d] = pending'[d] + (IF call[d] \in Over THEN 0 ELSE 1)
                                      + (IF released'[d] THEN 0 ELSE 1)
    <3>0. /\ pending[d] = Cardinality(Pend(d)) /\ pending[d] \in Int /\ ref[d] \in Int
          /\ ref[d] = pending[d] + (IF call[d] \in Over THEN 0 ELSE 1)
                                + (IF released[d] THEN 0 ELSE 1)
          /\ released[d] \in BOOLEAN
      BY DEF CountInv, TypeOK
    <3>1. CASE d = c
      <4>1. /\ pending'[c] = pending[c] - 1
            /\ ref'[c] = ref[c] - (IF rel THEN 2 ELSE 1)
            /\ released'[c] = (released[c] \/ rel)
        BY <1>1, <2>2 DEF TypeOK
      <4>0. Cardinality(Pend(d)') = Cardinality(Pend(d)) - 1
        BY <3>1
      <4>2. CASE rel
        <5>1. /\ ~released[d] /\ released'[d]
              /\ pending'[d] = pending[d] - 1 /\ ref'[d] = ref[d] - 2
          BY <2>2, <3>1, <4>1, <4>2
        <5> QED
          BY <3>0, <4>0, <5>1
      <4>3. CASE ~rel
        <5>1. /\ released'[d] <=> released[d]
              /\ pending'[d] = pending[d] - 1 /\ ref'[d] = ref[d] - 1
          BY <3>0, <3>1, <4>1, <4>3
        <5> QED
          BY <3>0, <4>0, <5>1
      <4> QED
        BY <4>2, <4>3
    <3>2. CASE d # c
      <4>1. pending'[d] = pending[d] /\ ref'[d] = ref[d] /\ released'[d] = released[d]
        BY <1>1, <2>2, <3>2 DEF TypeOK
      <4> QED
        BY <3>0, <3>2, <4>1
    <3> QED
      BY <3>1, <3>2
  <2>4. CountInv'
    BY <2>3 DEF CountInv
  <2>5. ASSUME NEW d \in Completion
        PROVE  fired'[d] = IF ~building'[d] /\ pending'[d] = 0 THEN 1 ELSE 0
    <3>1. CASE d = c
      BY <1>1, <1>3, <2>1, <2>2, <3>1 DEF TypeOK
    <3>2. CASE d # c
      BY <1>1, <2>2, <3>2 DEF CallInv, TypeOK
    <3> QED
      BY <3>1, <3>2
  <2> QED
    BY <2>4, <2>5
<1>4. CASE ~(pending[c] = 1 /\ ~building[c])
  <2>1. ref' = [ref EXCEPT ![c] = @ - 1] /\ fired' = fired /\ released' = released
    BY <1>4 DEF CompleteRequest
  <2> QED
    <3>1. CountInv'
      <4>1. \A d \in Completion :
              /\ pending'[d] = pending[d] - (IF c = d THEN 1 ELSE 0)
              /\ ref'[d] = ref[d] - (IF c = d THEN 1 ELSE 0)
              /\ pending[d] \in Int /\ ref[d] \in Int
        BY <1>1, <2>1 DEF TypeOK
      <4> QED
        BY <2>1, <4>1, PendEmpty DEF CountInv
    <3>2. \A d \in Completion :
            fired'[d] = IF ~building'[d] /\ pending'[d] = 0 THEN 1 ELSE 0
      BY <1>1, <1>2, <1>4, <2>1 DEF CallInv, TypeOK
    <3> QED
      BY <3>1, <3>2
<1> QED
  BY <1>3, <1>4

\* Steps that add no request and complete none.
LEMMA PendSame ==
  ASSUME TypeOK, UNCHANGED owner,
         \/ UNCHANGED state
         \/ \E a \in Req : state[a] = "out" /\ state' = [state EXCEPT ![a] = "safe"]
  PROVE  \A c : Pend(c)' = Pend(c)
  BY DEF Pend, Owner, TypeOK

\* Steps of a call's thread that add and complete nothing.
LEMMA CallSame ==
  ASSUME CallInv, UNCHANGED <<owner, state, pending, building, fired>>,
         \A d \in Completion :
           /\ call'[d] \in Building <=> call[d] \in Building
           /\ call'[d] \in Refused => call[d] \in Refused
           /\ d \in Flush => (call'[d] = "new" <=> call[d] = "new")
           /\ call'[d] \in {"half", "flushed"} => call[d] \in {"half", "flushed"} \/ d \in Flush,
         \A d \in Completion : call[d] \in Refused => call'[d] \in Refused,
         owner \in [ObjReq -> Op]
  PROVE  CallInv'
  BY CallsAreDisjoint DEF CallInv

LEMMA CountersStep == IInv /\ [Next]_vars => Counters'
<1> SUFFICES ASSUME IInv, [Next]_vars PROVE Counters'
  OBVIOUS
<1>0. TypeOK /\ CountInv /\ CallInv /\ ListInv
  BY DEF IInv
<1> USE CallsAreDisjoint DEF compVars, syncVars
<1>1. ASSUME NEW c \in Completion, StartWrite(c) PROVE Counters'
  <2>1. \A d : Pend(d)' = Pend(d)
    BY <1>0, <1>1, PendSame DEF StartWrite
  <2>2. CountInv'
    BY <1>0, <1>1, <2>1 DEF StartWrite, CountInv, TypeOK, Over
  <2>3. CallInv'
    BY <1>0, <1>1, CallSame DEF StartWrite, TypeOK, Building, Refused
  <2> QED
    BY <2>2, <2>3 DEF Counters
<1>2. ASSUME NEW c \in Completion, StartAioFlush(c) PROVE Counters'
  <2>1. c \in Flush /\ state[c] = "new" /\ state' = [state EXCEPT ![c] = "out"] /\ owner' = owner
    BY <1>0, <1>2 DEF StartAioFlush, CallInv
  <2>2. Owner(c) = c
    BY <2>1 DEF Owner
  <2>3. \A d : Cardinality(Pend(d)') = Cardinality(Pend(d)) + (IF c = d THEN 1 ELSE 0)
    BY <1>0, <2>1, <2>2, PendGains
  <2>4. CountInv'
    <3> SUFFICES ASSUME NEW d \in Completion
                 PROVE  /\ pending'[d] = Cardinality(Pend(d)')
                        /\ ref'[d] = pending'[d] + (IF call'[d] \in Over THEN 0 ELSE 1)
                                               + (IF released'[d] THEN 0 ELSE 1)
      BY DEF CountInv
    <3>1. /\ pending[d] = Cardinality(Pend(d)) /\ pending[d] \in Int /\ ref[d] \in Int
          /\ ref[d] = pending[d] + (IF call[d] \in Over THEN 0 ELSE 1)
                                + (IF released[d] THEN 0 ELSE 1)
      BY <1>0 DEF CountInv, TypeOK
    <3>2. /\ pending' = [pending EXCEPT ![c] = @ + 1]
          /\ ref' = [ref EXCEPT ![c] = @ + 2]
          /\ call[c] = "new" /\ call' = [call EXCEPT ![c] = "adding"]
          /\ released' = released
      BY <1>2 DEF StartAioFlush
    <3>3. CASE d = c
      <4>1. /\ pending'[d] = pending[d] + 1 /\ ref'[d] = ref[d] + 2
            /\ call[d] \in Over /\ call'[d] \notin Over
        BY <1>0, <3>2, <3>3 DEF TypeOK, Over
      <4> QED
        BY <2>3, <3>1, <3>2, <3>3, <4>1
    <3>4. CASE d # c
      <4>1. pending'[d] = pending[d] /\ ref'[d] = ref[d] /\ call'[d] = call[d]
        BY <1>0, <3>2, <3>4 DEF TypeOK
      <4>2. Cardinality(Pend(d)) \in Nat
        BY PendEmpty
      <4> QED
        BY <2>3, <3>1, <3>2, <3>4, <4>1, <4>2
    <3> QED
      BY <3>3, <3>4
  <2>5. CallInv'
    BY <1>0, <1>2 DEF StartAioFlush, CallInv, TypeOK, Building, Refused
  <2> QED
    BY <2>4, <2>5 DEF Counters
<1>3. ASSUME NEW c \in Completion, FinishAddingRequests(c) PROVE Counters'
  <2>1. \A d : Pend(d)' = Pend(d)
    BY <1>0, <1>3, PendSame DEF FinishAddingRequests
  <2>2. /\ call[c] \in {"adding", "flushed", "failing"} /\ building[c] /\ fired[c] = 0
        /\ call'[c] \in {"refusing", "returning"}
        /\ call'[c] = "refusing" <=> call[c] = "failing"
        /\ \A d \in Completion : d # c => call'[d] = call[d]
        /\ building' = [building EXCEPT ![c] = FALSE]
        /\ pending' = pending /\ state' = state /\ owner' = owner
    BY <1>0, <1>3 DEF FinishAddingRequests, AllAdded, CallInv, TypeOK, Building
  <2>3. /\ \A d \in Completion :
             ref'[d] = pending'[d] + (IF call'[d] \in Over THEN 0 ELSE 1)
                                   + (IF released'[d] THEN 0 ELSE 1)
        /\ \A d \in Completion :
              fired'[d] = IF ~building'[d] /\ pending'[d] = 0 THEN 1 ELSE 0
    <3>1. CASE pending[c] = 0
      <4> PICK rel \in BOOLEAN :
            CallBack(c, rel) /\ ref' = [ref EXCEPT ![c] = @ - (IF rel THEN 1 ELSE 0)]
        BY <1>3, <3>1 DEF FinishAddingRequests
      <4>1. /\ fired'[c] = 1 /\ released'[c] = (released[c] \/ rel)
            /\ rel => ~released[c]
            /\ ref'[c] = ref[c] - (IF rel THEN 1 ELSE 0)
            /\ \A d \in Completion : d # c =>
                 fired'[d] = fired[d] /\ released'[d] = released[d] /\ ref'[d] = ref[d]
        BY <1>0, <2>2 DEF CallBack, TypeOK
      <4>2. ~building'[c] /\ \A d \in Completion : d # c => building'[d] = building[d]
        BY <1>0, <2>2 DEF TypeOK
      <4>3. ref[c] = pending[c] + 1 + (IF released[c] THEN 0 ELSE 1) /\ ref[c] \in Int
        BY <1>0, <2>2 DEF CountInv, TypeOK, Over
      <4>4. ref'[c] = pending[c] + 1 + (IF released'[c] THEN 0 ELSE 1)
        BY <1>0, <3>1, <4>1, <4>3 DEF TypeOK
      <4> QED
        BY <1>0, <2>2, <3>1, <4>1, <4>2, <4>4 DEF CountInv, CallInv, Over
    <3>2. CASE pending[c] # 0
      <4>1. UNCHANGED <<fired, released, ref>>
        BY <1>3, <3>2 DEF FinishAddingRequests
      <4>2. \A d \in Completion : (call'[d] \in Over) = (call[d] \in Over)
        BY <2>2 DEF Over
      <4>3. \A d \in Completion :
              ref'[d] = pending'[d] + (IF call'[d] \in Over THEN 0 ELSE 1)
                                    + (IF released'[d] THEN 0 ELSE 1)
        BY <1>0, <2>2, <4>1, <4>2 DEF CountInv
      <4>4. \A d \in Completion :
              fired[d] = IF ~building[d] /\ pending[d] = 0 THEN 1 ELSE 0
        BY <1>0 DEF CallInv
      <4>5. \A d \in Completion : d # c => building'[d] = building[d]
        BY <1>0, <2>2 DEF TypeOK
      <4>6. \A d \in Completion : d # c =>
              fired'[d] = IF ~building'[d] /\ pending'[d] = 0 THEN 1 ELSE 0
        BY <2>2, <4>1, <4>4, <4>5
      <4>7. fired'[c] = 0 /\ pending'[c] # 0
        BY <2>2, <3>2, <4>1
      <4> QED
        BY <4>3, <4>6, <4>7
    <3> QED
      BY <3>1, <3>2
  <2>4. CountInv'
    BY <1>0, <2>1, <2>2, <2>3 DEF CountInv
  <2>5. CallInv'
    <3>1. \A d \in Completion :
            /\ building'[d] <=> call'[d] \in Building
            /\ call'[d] \in Refused => call[d] \in Refused
      BY <1>0, <2>2 DEF CallInv, TypeOK, Building, Refused
    <3>2. \A a \in ObjReq : state[a] = "new" => call'[owner[a]] \in Building \cup Refused
      <4> TAKE a \in ObjReq
      <4> HAVE state[a] = "new"
      <4>1. call[owner[a]] \in Building \cup Refused /\ owner[a] \in Op
        BY <1>0 DEF CallInv, TypeOK
      <4>2. CASE owner[a] = c
        <5>1. call[c] # "adding"
          BY <1>3, <4>2 DEF FinishAddingRequests, AllAdded
        <5>2. call[c] # "flushed"
          BY <4>1, <4>2, <1>0 DEF CallInv
        <5> QED
          BY <2>2, <4>2, <5>1, <5>2 DEF Refused
      <4>3. CASE owner[a] # c
        BY <2>2, <4>1, <4>3
      <4> QED
        BY <4>2, <4>3
    <3>3. \A f \in Flush : state[f] = "new" <=> call'[f] = "new"
      BY <1>0, <2>2 DEF CallInv
    <3> QED
      BY <1>0, <2>2, <2>3, <3>1, <3>2, <3>3 DEF CallInv
  <2> QED
    BY <2>4, <2>5 DEF Counters
<1>4. ASSUME NEW c \in Completion, Return(c) PROVE Counters'
  <2>1. \A d : Pend(d)' = Pend(d)
    BY <1>0, <1>4, PendSame DEF Return
  <2>2. CountInv'
    BY <1>0, <1>4, <2>1 DEF Return, CountInv, TypeOK, Over
  <2>3. CallInv'
    BY <1>0, <1>4, CallSame DEF Return, TypeOK, Building, Refused
  <2> QED
    BY <2>2, <2>3 DEF Counters
<1>5. ASSUME NEW c \in Completion, Release(c) PROVE Counters'
  <2>1. \A d : Pend(d)' = Pend(d)
    BY <1>0, <1>5, PendSame DEF Release
  <2>2. CountInv'
    BY <1>0, <1>5, <2>1 DEF Release, CountInv, TypeOK, Over
  <2>3. CallInv'
    BY <1>0, <1>5, CallSame DEF Release, TypeOK, Building, Refused
  <2> QED
    BY <2>2, <2>3 DEF Counters
<1>6. ASSUME NEW a \in ObjReq, SendFails(a) PROVE Counters'
  <2>1. /\ owner[a] \in Op /\ a \in Req /\ Owner(a) = owner[a]
        /\ call[owner[a]] = "adding" /\ state[a] = "new"
        /\ state' = [state EXCEPT ![a] = "stuck"] /\ owner' = owner
    BY <1>0, <1>6 DEF SendFails, TypeOK, Owner
  <2>2. \A d : Cardinality(Pend(d)') = Cardinality(Pend(d)) + (IF owner[a] = d THEN 1 ELSE 0)
    BY <1>0, <2>1, PendGains
  <2>3. CountInv'
    BY <1>0, <1>6, <2>1, <2>2, PendEmpty DEF SendFails, CountInv, TypeOK, Over
  <2>4. CallInv'
    BY <1>0, <1>6, <2>1 DEF SendFails, CallInv, TypeOK, Building, Refused
  <2> QED
    BY <2>3, <2>4 DEF Counters
<1>7. ASSUME NEW a \in ObjReq, NEW p \in Pool, Send(a, p) PROVE Counters'
  <2>1. /\ owner[a] \in Op /\ a \in Req /\ Owner(a) = owner[a]
        /\ call[owner[a]] = "adding" /\ state[a] = "new"
        /\ state' = [state EXCEPT ![a] = "out"] /\ owner' = owner
    BY <1>0, <1>7 DEF Send, TypeOK, Owner
  <2>2. \A d : Cardinality(Pend(d)') = Cardinality(Pend(d)) + (IF owner[a] = d THEN 1 ELSE 0)
    BY <1>0, <2>1, PendGains
  <2>3. CountInv'
    BY <1>0, <1>7, <2>1, <2>2, PendEmpty DEF Send, CountInv, TypeOK, Over
  <2>4. CallInv'
    BY <1>0, <1>7, <2>1 DEF Send, CallInv, TypeOK, Building, Refused
  <2> QED
    BY <2>3, <2>4 DEF Counters
<1>8. ASSUME NEW f \in Flush, NEW p \in Pool, FlushPool(f, p) PROVE Counters'
  <2>1. \A d : Pend(d)' = Pend(d)
    BY <1>0, <1>8, PendSame DEF FlushPool
  <2>2. CountInv'
    <3>1. UNCHANGED <<pending, ref, released>>
      BY <1>8 DEF FlushPool
    <3>2. \A d \in Completion : call'[d] \in Over <=> call[d] \in Over
      BY <1>0, <1>8 DEF FlushPool, TypeOK, Over
    <3> QED
      BY <1>0, <2>1, <3>1, <3>2 DEF CountInv
  <2>3. CallInv'
    BY SMTT(30), <1>0, <1>8, CallSame DEF FlushPool, TypeOK, Building, Refused
  <2> QED
    BY <2>2, <2>3 DEF Counters
<1>9. ASSUME NEW a \in ObjReq, NEW p \in Pool, NEW r \in {"ok", "error"}, Commit(a, p, r)
      PROVE Counters'
  <2>1. state[a] = "out" /\ state' = [state EXCEPT ![a] = "safe"]
    BY <1>0, <1>9 DEF Commit, ListInv
  <2>2. \A d : Pend(d)' = Pend(d)
    BY <1>0, <1>9, <2>1, PendSame DEF Commit
  <2>3. CountInv'
    BY <1>0, <1>9, <2>2 DEF Commit, CountInv
  <2>4. CallInv'
    BY <1>0, <1>9, <2>1 DEF Commit, CallInv, TypeOK
  <2> QED
    BY <2>3, <2>4 DEF Counters
<1>10. ASSUME FinishWrite PROVE Counters'
  <2> DEFINE a == Head(finisher)[1]
  <2>1. /\ a \in ObjReq /\ state[a] = "safe" /\ owner[a] \in Completion
        /\ CompleteRequest(owner[a], res[a])
        /\ state' = [state EXCEPT ![a] = "done"]
        /\ UNCHANGED <<owner, call, building>>
    <3>1. Len(finisher) >= 1 /\ Head(finisher) = finisher[1]
      BY <1>0, <1>10 DEF FinishWrite, TypeOK
    <3> QED
      BY <1>0, <1>10, <3>1 DEF FinishWrite, ListInv, TypeOK
  <2>2. \A d : Cardinality(Pend(d)') = Cardinality(Pend(d)) - (IF owner[a] = d THEN 1 ELSE 0)
    <3> HIDE DEF a
    <3>1. Owner(a) = owner[a]
      BY <2>1 DEF Owner
    <3> QED
      BY <1>0, <2>1, <3>1, PendLoses
  <2> HIDE DEF a
  <2>3. /\ CountInv'
        /\ \A d \in Completion :
              fired'[d] = IF ~building'[d] /\ pending'[d] = 0 THEN 1 ELSE 0
    BY <1>0, <2>1, <2>2, CompleteCounts
  <2>4. CallInv'
    BY <1>0, <2>1, <2>3 DEF CallInv, TypeOK
  <2> QED
    BY <2>3, <2>4 DEF Counters
<1>11. ASSUME FinishFlush PROVE Counters'
  <2> DEFINE f == Head(finisher)[1]
  <2>1. f \in Flush /\ UNCHANGED <<owner, call, building>>
    BY <1>11 DEF FinishFlush
  <2>2. CASE state[f] = "out"
    <3>1. CompleteRequest(f, "ok") /\ state' = [state EXCEPT ![f] = "done"]
      BY <1>11, <2>2 DEF FinishFlush
    <3> HIDE DEF f
    <3>2. \A d : Cardinality(Pend(d)') = Cardinality(Pend(d)) - (IF f = d THEN 1 ELSE 0)
      <4>1. Owner(f) = f
        BY <2>1 DEF Owner
      <4> QED
        BY <1>0, <2>1, <2>2, <3>1, <4>1, PendLoses
    <3>3. /\ CountInv'
          /\ \A d \in Completion :
                fired'[d] = IF ~building'[d] /\ pending'[d] = 0 THEN 1 ELSE 0
      BY <1>0, <2>1, <3>1, <3>2, CompleteCounts
    <3>4. CallInv'
      BY <1>0, <2>1, <2>2, <3>1, <3>3 DEF CallInv, TypeOK
    <3> QED
      BY <3>3, <3>4 DEF Counters
  <2>3. CASE state[f] # "out"
    <3>1. UNCHANGED <<state, pending, ref, released, fired>>
      BY <1>11, <2>3 DEF FinishFlush
    <3>2. \A d : Pend(d)' = Pend(d)
      BY <1>0, <2>1, <3>1, PendSame
    <3> QED
      BY <1>0, <2>1, <3>1, <3>2 DEF Counters, CountInv, CallInv
  <2> QED
    BY <2>2, <2>3
<1>12. CASE StartFlush \/ FlushNextPool \/ FlushReturns \/ UNCHANGED vars
  <2>1. UNCHANGED <<owner, call, compVars, state>>
    BY <1>12 DEF StartFlush, FlushNextPool, FlushReturns, vars
  <2>2. \A d : Pend(d)' = Pend(d)
    BY <1>0, <2>1, PendSame
  <2> QED
    BY <1>0, <2>1, <2>2 DEF Counters, CountInv, CallInv
<1> QED
  BY <1>1, <1>2, <1>3, <1>4, <1>5, <1>6, <1>7, <1>8, <1>9, <1>10, <1>11, <1>12
     DEF Next, CallStep, SendStep, Finisher
-----------------------------------------------------------------------------
(* The lists of outstanding writes and the finisher's queue.               *)

\* What a commit does to the finisher's queue.
LEMMA CommitQueue ==
  ASSUME TypeOK, NEW a \in ObjReq, NEW p \in Pool, NEW n \in 0 .. Len(waiting[p]),
         finisher' = Append(finisher, <<a, p>>) \o Answers(p, n)
  PROVE  /\ Len(finisher) \in Nat /\ n \in Nat
         /\ Len(finisher') = Len(finisher) + 1 + n
         /\ \A i \in 1 .. Len(finisher) : finisher'[i] = finisher[i]
         /\ finisher'[Len(finisher) + 1] = <<a, p>>
         /\ \A k \in 1 .. n : /\ finisher'[Len(finisher) + 1 + k] = <<waiting[p][k].flush, p>>
                              /\ waiting[p][k].flush \in Flush
<1>1. waiting[p] \in Seq([flush : Flush, seen : SUBSET ObjReq]) /\ finisher \in Seq(Entry)
  BY DEF TypeOK
<1>2. \A i \in 1 .. n : waiting[p][i] \in [flush : Flush, seen : SUBSET ObjReq]
  <2>1. \A i \in 1 .. n : i \in 1 .. Len(waiting[p])
    BY <1>1, LenProperties
  <2> QED
    BY <1>1, <2>1, ElementOfSeq
<1>3. \A i \in 1 .. n : Answers(p, n)[i] = <<waiting[p][i].flush, p>> /\ waiting[p][i].flush \in Flush
  BY <1>2 DEF Answers
<1>4. Answers(p, n) \in Seq(Entry) /\ Len(Answers(p, n)) = n
  <2>1. Answers(p, n) \in [1 .. n -> Entry] /\ n \in Nat
    BY <1>2 DEF Answers, Entry
  <2> QED
    BY <2>1
<1>5. <<a, p>> \in Entry
  BY DEF Entry
<1> DEFINE s == Append(finisher, <<a, p>>)
<1>6. /\ s \in Seq(Entry) /\ Len(s) = Len(finisher) + 1 /\ Len(finisher) \in Nat
      /\ \A i \in 1 .. Len(finisher) : s[i] = finisher[i]
      /\ s[Len(finisher) + 1] = <<a, p>>
  BY <1>1, <1>5, AppendProperties, LenProperties
<1> HIDE DEF s
<1>7. /\ Len(finisher') = Len(finisher) + 1 + n
      /\ \A i \in 1 .. Len(finisher) + 1 + n :
           finisher'[i] = IF i <= Len(finisher) + 1 THEN s[i]
                          ELSE Answers(p, n)[i - (Len(finisher) + 1)]
  <2> DEFINE t == Answers(p, n)
  <2>1. finisher' = s \o t
    BY DEF s
  <2>2. s \in Seq(Entry) /\ t \in Seq(Entry) /\ Len(t) = n
    BY <1>4, <1>6
  <2> HIDE DEF t
  <2>3. /\ Len(s \o t) = Len(s) + Len(t)
        /\ \A i \in 1 .. Len(s) + Len(t) :
             (s \o t)[i] = IF i <= Len(s) THEN s[i] ELSE t[i - Len(s)]
    BY <2>2, ConcatProperties
  <2>4. finisher' = s \o t /\ Len(s) = Len(finisher) + 1 /\ Len(t) = n
    BY <1>6, <2>1, <2>2
  <2>5. /\ Len(finisher') = Len(finisher) + 1 + n
        /\ \A i \in 1 .. Len(finisher) + 1 + n :
             finisher'[i] = IF i <= Len(finisher) + 1 THEN s[i]
                            ELSE t[i - (Len(finisher) + 1)]
    BY <2>3, <2>4
  <2> QED
    BY <2>5 DEF t
<1>8. n \in Nat /\ \A i \in 1 .. Len(finisher) : finisher'[i] = finisher[i]
  BY <1>1, <1>6, <1>7, LenProperties
<1>9. finisher'[Len(finisher) + 1] = <<a, p>>
  BY <1>6, <1>7
<1>10. ASSUME NEW k \in 1 .. n
       PROVE  /\ finisher'[Len(finisher) + 1 + k] = <<waiting[p][k].flush, p>>
              /\ waiting[p][k].flush \in Flush
  <2> DEFINE i == Len(finisher) + 1 + k
  <2>1. i \in 1 .. Len(finisher) + 1 + n /\ ~(i <= Len(finisher) + 1)
        /\ i - (Len(finisher) + 1) = k
    BY <1>6
  <2> HIDE DEF i
  <2>2. finisher'[i] = Answers(p, n)[k]
    BY <1>7, <2>1
  <2>3. finisher'[i] = <<waiting[p][k].flush, p>> /\ waiting[p][k].flush \in Flush
    BY <1>3, <2>2
  <2> QED
    BY <2>3 DEF i
<1> QED
  BY <1>6, <1>7, <1>8, <1>9, <1>10

LEMMA ListStep == IInv /\ [Next]_vars => ListInv'
<1> SUFFICES ASSUME IInv, [Next]_vars PROVE ListInv'
  OBVIOUS
<1>0. TypeOK /\ CallInv /\ ListInv
  BY DEF IInv
<1> USE CallsAreDisjoint DEF compVars, syncVars
<1>1. CASE UNCHANGED <<state, listed, finisher>>
  BY <1>0, <1>1 DEF ListInv
<1>2. ASSUME NEW c \in Completion, CallStep(c) \/ Release(c) PROVE ListInv'
  <2>1. CASE StartAioFlush(c)
    <3>1. c \in Flush /\ state' = [state EXCEPT ![c] = "out"] /\ UNCHANGED <<listed, finisher>>
      BY <2>1 DEF StartAioFlush
    <3>2. \A a \in ObjReq : state'[a] = state[a]
      BY <1>0, <3>1 DEF TypeOK
    <3> QED
      BY <1>0, <3>1, <3>2 DEF ListInv, TypeOK
  <2>2. CASE ~StartAioFlush(c)
    BY <1>1, <1>2, <2>2 DEF CallStep, StartWrite, FinishAddingRequests, Return, Release
  <2> QED
    BY <2>1, <2>2
<1>3. ASSUME NEW a \in ObjReq, SendFails(a) PROVE ListInv'
  <2>1. state[a] = "new" /\ state' = [state EXCEPT ![a] = "stuck"] /\ UNCHANGED <<listed, finisher>>
    BY <1>3 DEF SendFails
  <2> QED
    BY <1>0, <2>1 DEF ListInv, TypeOK
<1>4. ASSUME NEW a \in ObjReq, NEW p \in Pool, Send(a, p) PROVE ListInv'
  <2>1. /\ state[a] = "new" /\ state' = [state EXCEPT ![a] = "out"]
        /\ listed' = [listed EXCEPT ![p] = @ \cup {a}] /\ finisher' = finisher
    BY <1>4 DEF Send
  <2>2. /\ \A x \in Pool : \A b \in listed'[x] : state'[b] = "out"
        /\ listed'[HDD_POOL] \cap listed'[SSD_POOL] = {}
    BY <1>0, <2>1 DEF ListInv, TypeOK
  <2>3. \A i \in 1 .. Len(finisher) :
          finisher[i][1] \in ObjReq => state'[finisher[i][1]] = "safe"
    BY <1>0, <2>1 DEF ListInv, TypeOK
  <2> QED
    BY <1>0, <2>1, <2>2, <2>3 DEF ListInv
<1>5. ASSUME NEW f \in Flush, NEW p \in Pool, FlushPool(f, p) PROVE ListInv'
  <2>1. UNCHANGED <<state, listed>>
    BY <1>5 DEF FlushPool
  <2>2. CASE listed[p] = {}
    <3>1. finisher' = Append(finisher, <<f, p>>) /\ <<f, p>> \in Entry /\ finisher \in Seq(Entry)
      BY <1>0, <1>5, <2>2 DEF FlushPool, FlushAsync, Entry, TypeOK
    <3>2. /\ Len(finisher) \in Nat /\ Len(finisher') = Len(finisher) + 1
          /\ \A i \in 1 .. Len(finisher) : finisher'[i] = finisher[i]
          /\ finisher'[Len(finisher) + 1][1] \notin ObjReq
      BY <3>1, AppendProperties, LenProperties
    <3> QED
      BY <1>0, <2>1, <3>2 DEF ListInv
  <2>3. CASE listed[p] # {}
    BY <1>1, <1>5, <2>1, <2>3 DEF FlushPool, FlushAsync
  <2> QED
    BY <2>2, <2>3
<1>6. ASSUME NEW a \in ObjReq, NEW p \in Pool, NEW r \in {"ok", "error"}, Commit(a, p, r)
      PROVE ListInv'
  <2> PICK n \in 0 .. Len(waiting[p]) : finisher' = Append(finisher, <<a, p>>) \o Answers(p, n)
    BY <1>6 DEF Commit
  <2>1. /\ a \in listed[p] /\ state[a] = "out"
        /\ state' = [state EXCEPT ![a] = "safe"]
        /\ listed' = [listed EXCEPT ![p] = @ \ {a}]
    BY <1>0, <1>6 DEF Commit, ListInv
  <2>2. /\ \A x \in Pool : \A b \in listed'[x] : state'[b] = "out"
        /\ listed'[HDD_POOL] \cap listed'[SSD_POOL] = {}
    BY <1>0, <2>1 DEF ListInv, TypeOK
  <2>3. /\ Len(finisher) \in Nat
        /\ \A i \in 1 .. Len(finisher') :
             \/ i \in 1 .. Len(finisher) /\ finisher'[i] = finisher[i]
             \/ i = Len(finisher) + 1 /\ finisher'[i][1] = a
             \/ finisher'[i][1] \in Flush
    <3>1. /\ Len(finisher) \in Nat /\ n \in Nat
          /\ Len(finisher') = Len(finisher) + 1 + n
          /\ \A i \in 1 .. Len(finisher) : finisher'[i] = finisher[i]
          /\ finisher'[Len(finisher) + 1] = <<a, p>>
          /\ \A k \in 1 .. n : /\ finisher'[Len(finisher) + 1 + k] = <<waiting[p][k].flush, p>>
                               /\ waiting[p][k].flush \in Flush
      BY <1>0, CommitQueue
    <3>2. ASSUME NEW i \in 1 .. Len(finisher'), i > Len(finisher) + 1
          PROVE  finisher'[i][1] \in Flush
      <4> DEFINE k == i - (Len(finisher) + 1)
      <4>0. Len(finisher) \in Nat /\ n \in Nat /\ Len(finisher') = Len(finisher) + 1 + n
        BY <3>1
      <4>1. k \in 1 .. n /\ i = Len(finisher) + 1 + k
        BY <3>2, <4>0
      <4> HIDE DEF k
      <4>2. finisher'[Len(finisher) + 1 + k] = <<waiting[p][k].flush, p>>
            /\ waiting[p][k].flush \in Flush
        BY <3>1, <4>1
      <4> QED
        BY <4>1, <4>2
    <3> QED
      BY <3>1, <3>2
  <2>4. \A i \in 1 .. Len(finisher) :
          finisher[i][1] \in ObjReq => state[finisher[i][1]] = "safe" /\ finisher[i][1] # a
    BY <1>0, <2>1 DEF ListInv
  <2>5. \A i \in 1 .. Len(finisher') :
          finisher'[i][1] \in ObjReq => state'[finisher'[i][1]] = "safe"
    BY <1>0, <2>1, <2>3, <2>4 DEF TypeOK
  <2>6. \A i, j \in 1 .. Len(finisher') :
          finisher'[i][1] = finisher'[j][1] /\ finisher'[i][1] \in ObjReq => i = j
    BY SMTT(30), <1>0, <2>3, <2>4 DEF ListInv
  <2> QED
    BY <2>2, <2>5, <2>6 DEF ListInv
<1>7. ASSUME Finisher PROVE ListInv'
  <2>1. /\ finisher \in Seq(Entry) /\ finisher # <<>> /\ finisher' = Tail(finisher)
        /\ listed' = listed
    BY <1>0, <1>7 DEF Finisher, FinishWrite, FinishFlush, TypeOK
  <2>2. /\ Len(finisher) \in Nat /\ Len(finisher) >= 1 /\ Len(finisher') = Len(finisher) - 1
        /\ \A i \in 1 .. Len(finisher') : finisher'[i] = finisher[i + 1]
        /\ Head(finisher) = finisher[1]
    BY <2>1, HeadTailProperties, LenProperties
  <2>3. \A i, j \in 1 .. Len(finisher') :
          finisher'[i][1] = finisher'[j][1] /\ finisher'[i][1] \in ObjReq => i = j
    <3> SUFFICES ASSUME NEW i \in 1 .. Len(finisher'), NEW j \in 1 .. Len(finisher'),
                        finisher'[i][1] = finisher'[j][1], finisher'[i][1] \in ObjReq
                 PROVE  i = j
      OBVIOUS
    <3>1. i + 1 \in 1 .. Len(finisher) /\ j + 1 \in 1 .. Len(finisher)
      BY <2>2
    <3>2. i + 1 = j + 1
      BY <1>0, <2>2, <3>1 DEF ListInv
    <3> QED
      BY <3>2
  <2>4. \A b \in ObjReq : state'[b] = state[b] \/ (state[b] = "safe" /\ b = finisher[1][1])
    <3>1. CASE FinishWrite
      <4>1. Head(finisher)[1] \in ObjReq /\ state' = [state EXCEPT ![Head(finisher)[1]] = "done"]
        BY <3>1 DEF FinishWrite
      <4>2. finisher[1][1] \in ObjReq /\ state[finisher[1][1]] = "safe"
        BY <1>0, <2>2, <4>1 DEF ListInv
      <4> QED
        BY <1>0, <2>2, <4>1, <4>2 DEF TypeOK
    <3>2. CASE FinishFlush
      BY <1>0, <3>2 DEF FinishFlush, TypeOK
    <3> QED
      BY <1>7, <3>1, <3>2 DEF Finisher
  <2>5. \A i \in 1 .. Len(finisher') :
          finisher'[i][1] \in ObjReq => state'[finisher'[i][1]] = "safe"
    <3> SUFFICES ASSUME NEW i \in 1 .. Len(finisher'), finisher'[i][1] \in ObjReq
                 PROVE  state'[finisher'[i][1]] = "safe"
      OBVIOUS
    <3>1. i + 1 \in 1 .. Len(finisher) /\ 1 \in 1 .. Len(finisher) /\ i + 1 # 1
      BY <2>2
    <3>2. finisher[i + 1][1] \in ObjReq /\ finisher'[i] = finisher[i + 1]
      BY <2>2
    <3>3. finisher[i + 1][1] # finisher[1][1] /\ state[finisher[i + 1][1]] = "safe"
      BY <1>0, <3>1, <3>2 DEF ListInv
    <3> QED
      BY <2>4, <3>2, <3>3
  <2>6. \A x \in Pool : \A b \in listed[x] : state'[b] = "out"
    <3>1. \A x \in Pool : listed[x] \subseteq ObjReq
      BY <1>0 DEF TypeOK
    <3> QED
      BY <1>0, <2>4, <3>1 DEF ListInv
  <2> QED
    BY <1>0, <2>1, <2>3, <2>5, <2>6 DEF ListInv
<1>8. CASE StartFlush \/ FlushNextPool \/ FlushReturns \/ UNCHANGED vars
  BY <1>1, <1>8 DEF StartFlush, FlushNextPool, FlushReturns, vars
<1> QED
  BY <1>2, <1>3, <1>4, <1>5, <1>6, <1>7, <1>8 DEF Next, SendStep

-----------------------------------------------------------------------------
(* The reported result.                                                    *)

LEMMA ResultStep == IInv /\ [Next]_vars => ResultInv'
<1> SUFFICES ASSUME IInv, [Next]_vars PROVE ResultInv'
  OBVIOUS
<1>0. TypeOK /\ ListInv /\ ResultInv
  BY DEF IInv
<1> USE CallsAreDisjoint DEF compVars, syncVars
\* No write completes in the step.
<1>1. ASSUME UNCHANGED <<owner, rval>>,
             \A a \in ObjReq : /\ state'[a] = "done" <=> state[a] = "done"
                               /\ state[a] = "done" => res'[a] = res[a]
      PROVE  ResultInv'
  BY <1>0, <1>1 DEF ResultInv
<1>2. ASSUME NEW c \in Completion, CallStep(c) \/ Release(c) PROVE ResultInv'
  BY <1>0, <1>1, <1>2 DEF CallStep, StartWrite, StartAioFlush, FinishAddingRequests,
                          Return, Release, TypeOK
<1>3. ASSUME NEW a \in ObjReq, SendFails(a) PROVE ResultInv'
  BY <1>0, <1>1, <1>3 DEF SendFails, TypeOK
<1>4. ASSUME NEW a \in ObjReq, NEW p \in Pool, Send(a, p) PROVE ResultInv'
  BY <1>0, <1>1, <1>4 DEF Send, TypeOK
<1>5. ASSUME NEW f \in Flush, NEW p \in Pool, FlushPool(f, p) PROVE ResultInv'
  BY <1>1, <1>5 DEF FlushPool
<1>6. ASSUME NEW a \in ObjReq, NEW p \in Pool, NEW r \in {"ok", "error"}, Commit(a, p, r)
      PROVE ResultInv'
  <2>1. /\ state[a] = "out" /\ state' = [state EXCEPT ![a] = "safe"]
        /\ res' = [res EXCEPT ![a] = r] /\ UNCHANGED <<owner, rval>>
    BY <1>0, <1>6 DEF Commit, ListInv
  <2> QED
    BY <1>0, <1>1, <2>1 DEF TypeOK
<1>7. ASSUME FinishWrite PROVE ResultInv'
  <2> DEFINE a == Head(finisher)[1]
  <2>1. /\ a \in ObjReq /\ state[a] = "safe" /\ owner[a] \in Completion
        /\ rval' = [rval EXCEPT ![owner[a]] = IF res[a] = "error" THEN "error" ELSE @]
        /\ state' = [state EXCEPT ![a] = "done"]
        /\ UNCHANGED <<owner, res>>
    <3>1. Len(finisher) >= 1 /\ Head(finisher) = finisher[1]
      BY <1>0, <1>7 DEF FinishWrite, TypeOK
    <3>2. a \in ObjReq /\ state[a] = "safe"
      BY <1>0, <1>7, <3>1 DEF FinishWrite, ListInv
    <3>3. owner[a] \in Completion
      BY <1>0, <3>2 DEF TypeOK
    <3>4. /\ rval' = [rval EXCEPT ![owner[a]] = IF res[a] = "error" THEN "error" ELSE @]
          /\ state' = [state EXCEPT ![a] = "done"]
          /\ UNCHANGED <<owner, res>>
      BY <1>7 DEF FinishWrite, CompleteRequest
    <3> QED
      BY <3>2, <3>3, <3>4
  <2> HIDE DEF a
  <2> SUFFICES ASSUME NEW c \in Completion
               PROVE  rval'[c] = "error" <=>
                        \E b \in ObjReq : owner[b] = c /\ state'[b] = "done" /\ res[b] = "error"
    BY <2>1 DEF ResultInv
  <2>2. rval[c] = "error" <=>
          \E b \in ObjReq : owner[b] = c /\ state[b] = "done" /\ res[b] = "error"
    BY <1>0 DEF ResultInv
  <2>3. \A b \in ObjReq : state'[b] = "done" <=> state[b] = "done" \/ b = a
    BY <1>0, <2>1 DEF TypeOK
  <2>4. rval'[c] = "error" <=> rval[c] = "error" \/ (c = owner[a] /\ res[a] = "error")
    BY <1>0, <2>1 DEF TypeOK
  <2> QED
    BY <2>1, <2>2, <2>3, <2>4
<1>8. ASSUME FinishFlush PROVE ResultInv'
  <2> DEFINE f == Head(finisher)[1]
  <2>1. /\ f \in Flush /\ UNCHANGED <<owner, res>>
        /\ state' = [state EXCEPT ![f] = "done"] \/ state' = state
        /\ rval' = [rval EXCEPT ![f] = IF "ok" = "error" THEN "error" ELSE @] \/ rval' = rval
    BY <1>8 DEF FinishFlush, CompleteRequest
  <2> HIDE DEF f
  <2>2. rval' = rval
    BY <1>0, <2>1 DEF TypeOK
  <2>3. \A a \in ObjReq : state'[a] = state[a]
    BY <1>0, <2>1 DEF TypeOK
  <2> QED
    BY <1>1, <2>1, <2>2, <2>3
<1>9. CASE StartFlush \/ FlushNextPool \/ FlushReturns \/ UNCHANGED vars
  BY <1>1, <1>9 DEF StartFlush, FlushNextPool, FlushReturns, vars
<1> QED
  BY <1>2, <1>3, <1>4, <1>5, <1>6, <1>7, <1>8, <1>9 DEF Next, SendStep, Finisher

-----------------------------------------------------------------------------
(* flush.                                                                  *)

LEMMA SyncStepInv == IInv /\ [Next]_vars => SyncInv'
<1> SUFFICES ASSUME IInv, [Next]_vars PROVE SyncInv'
  OBVIOUS
<1>0. TypeOK /\ ListInv /\ SyncInv
  BY DEF IInv
<1> USE CallsAreDisjoint DEF compVars, syncVars
\* What is listed anew was not listed before, nor done.
<1>1. ASSUME UNCHANGED <<sync, syncWait>>, before'["sync"] = before["sync"],
             \A p \in Pool : \A b \in listed'[p] : b \in listed[p] \/ state[b] = "new",
             \A b \in ObjReq : state'[b] = "new" => state[b] = "new"
      PROVE  SyncInv'
  <2>1. before["sync"] \subseteq ObjReq
    BY <1>0 DEF TypeOK
  <2>2. \A p \in Pool : before["sync"] \cap listed'[p] \subseteq listed[p]
    BY <1>0, <1>1 DEF SyncInv
  <2> QED
    BY <1>0, <1>1, <2>1, <2>2 DEF SyncInv, Listed
<1>2. ASSUME NEW c \in Completion, CallStep(c) \/ Release(c) PROVE SyncInv'
  <2>1. UNCHANGED <<sync, syncWait, listed>> /\ before'["sync"] = before["sync"]
    <3>1. CASE StartAioFlush(c)
      <4>1. c \in Flush /\ before' = [before EXCEPT ![c] = Listed]
        BY <3>1 DEF StartAioFlush
      <4>2. c # "sync"
        BY <4>1
      <4> QED
        BY <1>0, <3>1, <4>1, <4>2 DEF StartAioFlush, TypeOK
    <3>2. CASE ~StartAioFlush(c)
      BY <1>2, <3>2 DEF CallStep, StartWrite, FinishAddingRequests, Return, Release
    <3> QED
      BY <3>1, <3>2
  <2>2. \A b \in ObjReq : state'[b] = state[b]
    BY <1>0, <1>2 DEF CallStep, StartWrite, StartAioFlush, FinishAddingRequests,
                      Return, Release, TypeOK
  <2> QED
    BY <1>1, <2>1, <2>2
<1>3. ASSUME NEW a \in ObjReq, SendFails(a) PROVE SyncInv'
  BY <1>0, <1>1, <1>3 DEF SendFails, TypeOK
<1>4. ASSUME NEW a \in ObjReq, NEW p \in Pool, Send(a, p) PROVE SyncInv'
  BY <1>0, <1>1, <1>4 DEF Send, TypeOK
<1>5. ASSUME NEW f \in Flush, NEW p \in Pool, FlushPool(f, p) PROVE SyncInv'
  BY <1>1, <1>5 DEF FlushPool
<1>6. ASSUME NEW a \in ObjReq, NEW p \in Pool, NEW r \in {"ok", "error"}, Commit(a, p, r)
      PROVE SyncInv'
  BY <1>0, <1>1, <1>6 DEF Commit, TypeOK
<1>7. ASSUME Finisher PROVE SyncInv'
  <2>1. UNCHANGED <<sync, syncWait, before, listed>>
    BY <1>7 DEF Finisher, FinishWrite, FinishFlush
  <2>2. \A b \in ObjReq : state'[b] = "new" => state[b] = "new"
    BY <1>0, <1>7 DEF Finisher, FinishWrite, FinishFlush, TypeOK
  <2> QED
    BY <1>1, <2>1, <2>2
<1>8. ASSUME StartFlush PROVE SyncInv'
  <2>1. \A b \in Listed : state[b] = "out"
    BY <1>0 DEF ListInv, Listed
  <2> QED
    BY <1>0, <1>8, <2>1 DEF StartFlush, SyncInv, TypeOK, Listed
<1>9. ASSUME FlushNextPool PROVE SyncInv'
  BY <1>0, <1>9 DEF FlushNextPool, SyncInv, TypeOK
<1>10. ASSUME FlushReturns PROVE SyncInv'
  BY <1>0, <1>10 DEF FlushReturns, SyncInv, TypeOK, Listed
<1>11. CASE UNCHANGED vars
  BY <1>1, <1>11 DEF vars
<1> QED
  BY <1>2, <1>3, <1>4, <1>5, <1>6, <1>7, <1>8, <1>9, <1>10, <1>11 DEF Next, SendStep

-----------------------------------------------------------------------------
(* The answers to an aio_flush.                                            *)

\* What the finisher does to its queue.
LEMMA FinisherQueue ==
  ASSUME TypeOK, Finisher
  PROVE  /\ Len(finisher) \in Nat /\ Len(finisher) >= 1
         /\ Len(finisher') = Len(finisher) - 1
         /\ \A i \in 1 .. Len(finisher') : finisher'[i] = finisher[i + 1]
         /\ Head(finisher) = finisher[1]
         /\ finisher[1] = <<finisher[1][1], finisher[1][2]>>
<1>1. finisher \in Seq(Entry) /\ finisher # <<>> /\ finisher' = Tail(finisher)
  BY DEF Finisher, FinishWrite, FinishFlush, TypeOK
<1>2. /\ Len(finisher) \in Nat /\ Len(finisher) >= 1 /\ Len(finisher') = Len(finisher) - 1
      /\ \A i \in 1 .. Len(finisher') : finisher'[i] = finisher[i + 1]
      /\ Head(finisher) = finisher[1]
  BY <1>1, HeadTailProperties, LenProperties
<1>3. finisher[1] \in Entry
  BY <1>1, <1>2, ElementOfSeq
<1> QED
  BY <1>2, <1>3 DEF Entry

\* What a flush of a pool with nothing listed does to the queue.
LEMMA FlushQueue ==
  ASSUME TypeOK, NEW f \in Flush, NEW p \in Pool, finisher' = Append(finisher, <<f, p>>)
  PROVE  /\ Len(finisher) \in Nat /\ Len(finisher') = Len(finisher) + 1
         /\ \A i \in 1 .. Len(finisher) : finisher'[i] = finisher[i]
         /\ finisher'[Len(finisher) + 1] = <<f, p>>
<1>1. <<f, p>> \in Entry /\ finisher \in Seq(Entry)
  BY DEF Entry, TypeOK
<1> QED
  BY <1>1, AppendProperties, LenProperties

LEMMA ReqStep == IInv /\ [Next]_vars => ReqInv'
<1> SUFFICES ASSUME IInv, [Next]_vars PROVE ReqInv'
  OBVIOUS
<1>0. TypeOK /\ ListInv /\ ReqInv
  BY DEF IInv
<1> USE CallsAreDisjoint DEF compVars, syncVars
<1>1. ASSUME UNCHANGED <<listed, finisher>>,
             \A a \in ObjReq : state'[a] \in {"out", "safe"} => state'[a] = state[a]
      PROVE  ReqInv'
  BY <1>0, <1>1 DEF ReqInv, Listed
<1>2. ASSUME NEW c \in Completion, CallStep(c) \/ Release(c) PROVE ReqInv'
  BY <1>0, <1>1, <1>2 DEF CallStep, StartWrite, StartAioFlush, FinishAddingRequests,
                          Return, Release, TypeOK
<1>3. ASSUME NEW a \in ObjReq, SendFails(a) PROVE ReqInv'
  BY <1>0, <1>1, <1>3 DEF SendFails, TypeOK
<1>4. ASSUME NEW a \in ObjReq, NEW p \in Pool, Send(a, p) PROVE ReqInv'
  BY <1>0, <1>4 DEF Send, ReqInv, Listed, TypeOK
<1>5. ASSUME NEW f \in Flush, NEW p \in Pool, FlushPool(f, p) PROVE ReqInv'
  <2>1. UNCHANGED <<state, listed>>
    BY <1>5 DEF FlushPool
  <2>2. CASE listed[p] = {}
    <3>1. finisher' = Append(finisher, <<f, p>>)
      BY <1>5, <2>2 DEF FlushPool, FlushAsync
    <3>2. /\ Len(finisher) \in Nat /\ Len(finisher') = Len(finisher) + 1
          /\ \A i \in 1 .. Len(finisher) : finisher'[i] = finisher[i]
      BY <1>0, <3>1, FlushQueue
    <3> QED
      BY <1>0, <2>1, <3>2 DEF ReqInv, Listed
  <2>3. CASE listed[p] # {}
    BY <1>1, <1>5, <2>1, <2>3 DEF FlushPool, FlushAsync
  <2> QED
    BY <2>2, <2>3
<1>6. ASSUME NEW a \in ObjReq, NEW p \in Pool, NEW r \in {"ok", "error"}, Commit(a, p, r)
      PROVE ReqInv'
  <2> PICK n \in 0 .. Len(waiting[p]) : finisher' = Append(finisher, <<a, p>>) \o Answers(p, n)
    BY <1>6 DEF Commit
  <2>1. /\ state' = [state EXCEPT ![a] = "safe"]
        /\ listed' = [listed EXCEPT ![p] = @ \ {a}]
    BY <1>6 DEF Commit
  <2>2. /\ Len(finisher) \in Nat /\ n \in Nat /\ Len(finisher') = Len(finisher) + 1 + n
        /\ \A i \in 1 .. Len(finisher) : finisher'[i] = finisher[i]
        /\ finisher'[Len(finisher) + 1] = <<a, p>>
    BY <1>0, CommitQueue
  <2>3. \A b \in ObjReq : state'[b] = "out" => b \in Listed'
    BY <1>0, <2>1 DEF ReqInv, Listed, TypeOK
  <2>4. \A b \in ObjReq : state'[b] = "safe" =>
          \E i \in 1 .. Len(finisher') : finisher'[i][1] = b
    <3> SUFFICES ASSUME NEW b \in ObjReq, state'[b] = "safe"
                 PROVE  \E i \in 1 .. Len(finisher') : finisher'[i][1] = b
      OBVIOUS
    <3>1. CASE b = a
      BY <2>2, <3>1
    <3>2. CASE b # a
      <4>1. PICK i \in 1 .. Len(finisher) : finisher[i][1] = b
        BY <1>0, <2>1, <3>2 DEF ReqInv, TypeOK
      <4> QED
        BY <2>2, <4>1
    <3> QED
      BY <3>1, <3>2
  <2> QED
    BY <2>3, <2>4 DEF ReqInv
<1>7. ASSUME Finisher PROVE ReqInv'
  <2>1. /\ Len(finisher) \in Nat /\ Len(finisher) >= 1
        /\ Len(finisher') = Len(finisher) - 1
        /\ \A i \in 1 .. Len(finisher') : finisher'[i] = finisher[i + 1]
        /\ Head(finisher) = finisher[1]
    BY <1>0, <1>7, FinisherQueue
  <2>2. /\ listed' = listed
        /\ \A b \in ObjReq : /\ state'[b] \in {"out", "safe"} => state'[b] = state[b]
                             /\ state'[b] = "safe" => b # finisher[1][1]
    <3>1. CASE FinishWrite
      BY <1>0, <2>1, <3>1 DEF FinishWrite, TypeOK
    <3>2. CASE FinishFlush
      <4>1. /\ finisher[1][1] \in Flush /\ listed' = listed
            /\ state' = [state EXCEPT ![finisher[1][1]] = "done"] \/ state' = state
        BY <2>1, <3>2 DEF FinishFlush
      <4> QED
        BY SMTT(30), <1>0, <4>1 DEF TypeOK
    <3> QED
      BY <1>7, <3>1, <3>2 DEF Finisher
  <2>3. \A b \in ObjReq : state'[b] = "safe" =>
          \E i \in 1 .. Len(finisher') : finisher'[i][1] = b
    <3> SUFFICES ASSUME NEW b \in ObjReq, state'[b] = "safe"
                 PROVE  \E i \in 1 .. Len(finisher') : finisher'[i][1] = b
      OBVIOUS
    <3>1. PICK i \in 1 .. Len(finisher) : finisher[i][1] = b
      BY <1>0, <2>2 DEF ReqInv
    <3>2. i # 1
      BY <2>2, <3>1
    <3>3. i - 1 \in 1 .. Len(finisher') /\ finisher'[i - 1] = finisher[(i - 1) + 1]
      BY <2>1, <3>2
    <3>4. (i - 1) + 1 = i
      OBVIOUS
    <3> QED
      BY <3>1, <3>3, <3>4
  <2> QED
    BY <1>0, <2>2, <2>3 DEF ReqInv, Listed
<1>8. CASE StartFlush \/ FlushNextPool \/ FlushReturns \/ UNCHANGED vars
  BY <1>1, <1>8 DEF StartFlush, FlushNextPool, FlushReturns, vars
<1> QED
  BY <1>2, <1>3, <1>4, <1>5, <1>6, <1>7, <1>8 DEF Next, SendStep

LEMMA DrainStep == IInv /\ [Next]_vars => DrainInv'
<1> SUFFICES ASSUME IInv, [Next]_vars PROVE DrainInv'
  OBVIOUS
<1>0. TypeOK /\ CallInv /\ ListInv /\ DrainInv
  BY DEF IInv
<1> USE CallsAreDisjoint DEF compVars, syncVars
<1>a. \A f \in Flush : before[f] \subseteq ObjReq
  BY <1>0 DEF TypeOK
<1>b. \A f \in Flush : StartInv(f) /\ WaitInv(f) /\ OrderInv(f)
  BY <1>0 DEF DrainInv
\* Neither a queue nor a wait changes for f, and nothing that f saw is listed anew.
<1>1. ASSUME NEW f \in Flush, UNCHANGED <<waiting, finisher, drained>>,
             before'[f] = before[f], call'[f] = "new" => call[f] = "new",
             \A p \in Pool : \A b \in listed'[p] : b \in listed[p] \/ state[b] = "new",
             \A b \in ObjReq : state[b] = "new" \/ state'[b] = state[b]
      PROVE  StartInv(f)' /\ WaitInv(f)' /\ OrderInv(f)'
  <2>1. \A b \in before[f] : state[b] \in {"out", "safe", "done"}
    BY <1>b DEF StartInv
  <2>2. \A p \in Pool : before[f] \cap listed'[p] \subseteq listed[p]
    BY <1>1, <2>1
  <2>3. \A p \in Pool : Answered(f, p)' <=> Answered(f, p)
    BY <1>1 DEF Answered
  <2>4. StartInv(f)'
    BY <1>a, <1>b, <1>1, <2>1, <2>3 DEF StartInv
  <2>5. WaitInv(f)'
    BY <1>b, <1>1, <2>2, <2>3 DEF WaitInv
  <2>6. OrderInv(f)'
    BY <1>b, <1>1 DEF OrderInv
  <2> QED
    BY <2>4, <2>5, <2>6
<1>2. ASSUME NEW c \in Completion, CallStep(c) \/ Release(c) PROVE DrainInv'
  <2>1. CASE StartAioFlush(c)
    <3>1. /\ c \in Flush /\ call[c] = "new" /\ call' = [call EXCEPT ![c] = "adding"]
          /\ before' = [before EXCEPT ![c] = Listed] /\ state' = [state EXCEPT ![c] = "out"]
          /\ UNCHANGED <<listed, waiting, finisher, drained>>
      BY <2>1 DEF StartAioFlush
    <3>2. \A b \in ObjReq : state'[b] = state[b]
      BY <1>0, <3>1 DEF TypeOK
    <3>3. ASSUME NEW f \in Flush, f # c PROVE StartInv(f)' /\ WaitInv(f)' /\ OrderInv(f)'
      <4>1. before'[f] = before[f] /\ call'[f] = call[f]
        BY <1>0, <3>1, <3>3 DEF TypeOK
      <4> QED
        BY <1>1, <3>1, <3>2, <4>1
    <3>4. before'[c] = Listed /\ call'[c] = "adding" /\ Listed \subseteq ObjReq
      BY <1>0, <3>1 DEF TypeOK, Listed
    <3>5. \A b \in Listed : state[b] = "out"
      BY <1>0 DEF ListInv, Listed
    <3>6. StartInv(c)'
      BY <3>2, <3>4, <3>5 DEF StartInv
    <3>7. \A p \in Pool : ~Answered(c, p)'
      BY <1>b, <3>1 DEF StartInv, Answered
    <3>8. WaitInv(c)'
      BY <1>b, <3>1, <3>7 DEF StartInv, WaitInv
    <3>9. OrderInv(c)'
      BY <1>0, <3>1, <3>4, <3>5 DEF OrderInv, ListInv
    <3> QED
      BY <3>3, <3>6, <3>8, <3>9 DEF DrainInv
  <2>2. CASE ~StartAioFlush(c)
    <3>1. /\ UNCHANGED <<listed, waiting, finisher, drained, before, state>>
          /\ \A f \in Flush : call'[f] = "new" => call[f] = "new"
      BY <1>0, <1>2, <2>2 DEF CallStep, StartWrite, FinishAddingRequests, Return, Release, TypeOK
    <3> QED
      BY <1>1, <3>1 DEF DrainInv
  <2> QED
    BY <2>1, <2>2
<1>3. ASSUME NEW a \in ObjReq, SendFails(a) PROVE DrainInv'
  <2>1. /\ UNCHANGED <<listed, waiting, finisher, drained, before>>
        /\ \A f \in Flush : call'[f] = "new" => call[f] = "new"
        /\ \A b \in ObjReq : state[b] = "new" \/ state'[b] = state[b]
    BY <1>0, <1>3 DEF SendFails, TypeOK
  <2> QED
    BY <1>1, <2>1 DEF DrainInv
<1>4. ASSUME NEW a \in ObjReq, NEW p \in Pool, Send(a, p) PROVE DrainInv'
  <2>1. /\ UNCHANGED <<waiting, finisher, drained, before, call>>
        /\ \A b \in ObjReq : state[b] = "new" \/ state'[b] = state[b]
        /\ \A q \in Pool : \A b \in listed'[q] : b \in listed[q] \/ state[b] = "new"
    BY <1>0, <1>4 DEF Send, TypeOK
  <2> QED
    BY <1>1, <2>1 DEF DrainInv
<1>5. ASSUME NEW g \in Flush, NEW p \in Pool, FlushPool(g, p) PROVE DrainInv'
  <2> SUFFICES ASSUME NEW f \in Flush PROVE StartInv(f)' /\ WaitInv(f)' /\ OrderInv(f)'
    BY DEF DrainInv
  <2>1. /\ UNCHANGED <<state, listed, drained, before>>
        /\ call'[f] = "new" => call[f] = "new" /\ f # g
    BY <1>0, <1>5 DEF FlushPool, TypeOK
  <2>2. CASE listed[p] = {}
    <3>1. finisher' = Append(finisher, <<g, p>>) /\ waiting' = waiting
      BY <1>5, <2>2 DEF FlushPool, FlushAsync
    <3>2. /\ Len(finisher) \in Nat /\ Len(finisher') = Len(finisher) + 1
          /\ \A i \in 1 .. Len(finisher) : finisher'[i] = finisher[i]
          /\ finisher'[Len(finisher) + 1] = <<g, p>>
      BY <1>0, <3>1, FlushQueue
    <3>3. ASSUME NEW q \in Pool, Answered(f, q)' PROVE Answered(f, q) \/ (f = g /\ q = p)
      <4>1. CASE q \in drained'[f]
        BY <2>1, <4>1 DEF Answered
      <4>2. ASSUME NEW i \in 1 .. Len(finisher'), finisher'[i] = <<f, q>>
            PROVE  Answered(f, q) \/ (f = g /\ q = p)
        <5>1. CASE i \in 1 .. Len(finisher)
          BY <3>2, <4>2, <5>1 DEF Answered
        <5>2. CASE i = Len(finisher) + 1
          BY <3>2, <4>2, <5>2
        <5> QED
          BY <3>2, <5>1, <5>2
      <4> QED
        BY <3>3, <4>1, <4>2 DEF Answered
    <3>4. StartInv(f)'
      BY <1>b, <2>1, <3>1, <3>3 DEF StartInv
    <3>5. WaitInv(f)'
      BY <1>b, <2>1, <2>2, <3>1, <3>3 DEF WaitInv
    <3>6. OrderInv(f)'
      <4> SUFFICES ASSUME NEW i \in 1 .. Len(finisher'), finisher'[i][1] \in before[f]
                   PROVE  /\ finisher'[i][2] \notin drained[f]
                          /\ \A j \in 1 .. Len(finisher') :
                               finisher'[j] = <<f, finisher'[i][2]>> => i < j
        BY <2>1 DEF OrderInv
      <4>1. i \in 1 .. Len(finisher) /\ finisher'[i] = finisher[i]
        BY <1>a, <3>2
      <4>2. \A j \in 1 .. Len(finisher') :
              (j \in 1 .. Len(finisher) /\ finisher'[j] = finisher[j]) \/ i < j
        BY <3>2, <4>1
      <4> QED
        BY <1>b, <4>1, <4>2 DEF OrderInv
    <3> QED
      BY <3>4, <3>5, <3>6
  <2>3. CASE listed[p] # {}
    <3> DEFINE w == [flush |-> g, seen |-> listed[p]]
    <3>1. finisher' = finisher /\ waiting' = [waiting EXCEPT ![p] = Append(@, w)]
      BY <1>5, <2>3 DEF FlushPool, FlushAsync
    <3>2. w \in [flush : Flush, seen : SUBSET ObjReq] /\ w.flush = g /\ w.seen = listed[p]
      BY <1>0 DEF TypeOK
    <3> HIDE DEF w
    <3>3. /\ Len(waiting[p]) \in Nat
          /\ \A q \in Pool : \A i \in 1 .. Len(waiting'[q]) :
               \/ i \in 1 .. Len(waiting[q]) /\ waiting'[q][i] = waiting[q][i]
               \/ q = p /\ waiting'[q][i] = w
      <4>1. waiting[p] \in Seq([flush : Flush, seen : SUBSET ObjReq]) /\ waiting \in [Pool -> Seq([flush : Flush, seen : SUBSET ObjReq])]
        BY <1>0 DEF TypeOK
      <4>2. /\ Len(waiting[p]) \in Nat
            /\ Len(Append(waiting[p], w)) = Len(waiting[p]) + 1
            /\ \A i \in 1 .. Len(waiting[p]) : Append(waiting[p], w)[i] = waiting[p][i]
            /\ Append(waiting[p], w)[Len(waiting[p]) + 1] = w
        BY <3>2, <4>1, AppendProperties, LenProperties
      <4>3. waiting'[p] = Append(waiting[p], w) /\ \A q \in Pool : q # p => waiting'[q] = waiting[q]
        BY <3>1, <4>1
      <4>4. ASSUME NEW i \in 1 .. Len(waiting'[p])
            PROVE  \/ i \in 1 .. Len(waiting[p]) /\ waiting'[p][i] = waiting[p][i]
                   \/ waiting'[p][i] = w
        <5>1. i \in 1 .. Len(waiting[p]) \/ i = Len(waiting[p]) + 1
          BY <4>2, <4>3
        <5> QED
          BY <4>2, <4>3, <5>1
      <4>5. ASSUME NEW q \in Pool, q # p, NEW i \in 1 .. Len(waiting'[q])
            PROVE  i \in 1 .. Len(waiting[q]) /\ waiting'[q][i] = waiting[q][i]
        <5>1. waiting'[q] = waiting[q]
          BY <4>3, <4>5
        <5> QED
          BY <5>1
      <4> QED
        BY <4>2, <4>4, <4>5
    <3>4. \A q \in Pool : Answered(f, q)' <=> Answered(f, q)
      BY <2>1, <3>1 DEF Answered
    <3>5. StartInv(f)'
      BY SMTT(30), <1>b, <2>1, <3>2, <3>3, <3>4 DEF StartInv
    <3>6. WaitInv(f)'
      BY SMTT(30), <1>b, <2>1, <3>2, <3>3, <3>4 DEF WaitInv
    <3>7. OrderInv(f)'
      BY <1>b, <2>1, <3>1 DEF OrderInv
    <3> QED
      BY <3>5, <3>6, <3>7
  <2> QED
    BY <2>2, <2>3
<1>6. ASSUME NEW a \in ObjReq, NEW p \in Pool, NEW r \in {"ok", "error"}, Commit(a, p, r)
      PROVE DrainInv'
  <2> SUFFICES ASSUME NEW f \in Flush PROVE StartInv(f)' /\ WaitInv(f)' /\ OrderInv(f)'
    BY DEF DrainInv
  <2> DEFINE m == Len(finisher)
  <2> PICK n \in 0 .. Len(waiting[p]) :
        /\ Wakes(p, listed[p] \ {a}, n)
        /\ finisher' = Append(finisher, <<a, p>>) \o Answers(p, n)
        /\ waiting' = [waiting EXCEPT ![p] = SubSeq(@, n + 1, Len(@))]
    BY <1>6 DEF Commit
  <2>1. /\ a \in listed[p] /\ state[a] = "out"
        /\ listed' = [listed EXCEPT ![p] = @ \ {a}]
        /\ \A b \in ObjReq : state'[b] = state[b] \/ (b = a /\ state'[b] = "safe")
        /\ UNCHANGED <<drained, before, call>>
    BY <1>0, <1>6 DEF Commit, ListInv, TypeOK
  <2>2. /\ m \in Nat /\ n \in Nat /\ Len(finisher') = m + 1 + n
        /\ \A i \in 1 .. m : finisher'[i] = finisher[i]
        /\ finisher'[m + 1] = <<a, p>>
        /\ \A k \in 1 .. n : /\ finisher'[m + 1 + k] = <<waiting[p][k].flush, p>>
                             /\ waiting[p][k].flush \in Flush
    BY <1>0, CommitQueue
  <2>3. /\ Len(waiting[p]) \in Nat /\ n <= Len(waiting[p])
        /\ \A q \in Pool : \A i \in 1 .. Len(waiting'[q]) :
             \E k \in 1 .. Len(waiting[q]) : waiting'[q][i] = waiting[q][k]
    <3>1. waiting \in [Pool -> Seq([flush : Flush, seen : SUBSET ObjReq])]
      BY <1>0 DEF TypeOK
    <3>2. waiting[p] \in Seq([flush : Flush, seen : SUBSET ObjReq]) /\ Len(waiting[p]) \in Nat
      BY <3>1, LenProperties
    <3>3. n \in Nat /\ n <= Len(waiting[p])
      BY <3>2
    <3>4. waiting'[p] = SubSeq(waiting[p], n + 1, Len(waiting[p]))
      BY <3>1
    <3>5. /\ Len(waiting'[p]) = Len(waiting[p]) - n
          /\ \A i \in 1 .. Len(waiting'[p]) : waiting'[p][i] = waiting[p][n + i]
      BY <3>2, <3>3, <3>4
    <3>6. ASSUME NEW i \in 1 .. Len(waiting'[p])
          PROVE  \E k \in 1 .. Len(waiting[p]) : waiting'[p][i] = waiting[p][k]
      <4>1. n + i \in 1 .. Len(waiting[p]) /\ waiting'[p][i] = waiting[p][n + i]
        BY <3>2, <3>3, <3>5
      <4> QED
        BY <4>1
    <3>7. ASSUME NEW q \in Pool, q # p, NEW i \in 1 .. Len(waiting'[q])
          PROVE  \E k \in 1 .. Len(waiting[q]) : waiting'[q][i] = waiting[q][k]
      <4>1. waiting'[q] = waiting[q]
        BY <3>1, <3>7
      <4> QED
        BY <4>1
    <3>8. \A q \in Pool : \A i \in 1 .. Len(waiting'[q]) :
            \E k \in 1 .. Len(waiting[q]) : waiting'[q][i] = waiting[q][k]
      <4> SUFFICES ASSUME NEW q \in Pool, NEW i \in 1 .. Len(waiting'[q])
                   PROVE  \E k \in 1 .. Len(waiting[q]) : waiting'[q][i] = waiting[q][k]
        OBVIOUS
      <4>1. CASE q = p
        BY <3>6, <4>1
      <4>2. CASE q # p
        BY <3>7, <4>2
      <4> QED
        BY <4>1, <4>2
    <3> QED
      BY <3>2, <3>3, <3>8
  <2> HIDE DEF m
  \* A flush that is answered here waited only for writes that are not listed any more.
  <2>4. ASSUME NEW q \in Pool, NEW i \in 1 .. Len(finisher'), finisher'[i] = <<f, q>>
        PROVE  \/ i \in 1 .. m /\ Answered(f, q)
               \/ i > m + 1 /\ q = p /\ before[f] \cap listed'[p] = {}
    <3>1. CASE i \in 1 .. m
      BY <2>2, <2>4, <3>1 DEF Answered, m
    <3>2. CASE i = m + 1
      BY <2>2, <2>4, <3>2
    <3>3. CASE i > m + 1
      <4> DEFINE k == i - (m + 1)
      <4>1. k \in 1 .. n /\ i = m + 1 + k
        <5>1. i \in Int /\ i <= m + 1 + n
          BY <2>2
        <5> QED
          BY <2>2, <3>3, <5>1
      <4> HIDE DEF k
      <4>2. finisher'[m + 1 + k] = <<waiting[p][k].flush, p>>
        BY <2>2, <4>1
      <4>3. waiting[p][k].flush = f /\ q = p
        BY SMTT(30), <2>4, <4>1, <4>2
      <4>4. k \in 1 .. Len(waiting[p])
        BY <2>2, <2>3, <4>1
      <4>5. before[f] \cap listed[p] \subseteq waiting[p][k].seen
        BY <1>b, <4>3, <4>4 DEF WaitInv
      <4>6. waiting[p][k].seen \cap (listed[p] \ {a}) = {}
        BY <4>1 DEF Wakes
      <4>7. listed'[p] = listed[p] \ {a}
        BY <1>0, <2>1 DEF TypeOK
      <4> QED
        BY <3>3, <4>3, <4>5, <4>6, <4>7
    <3> QED
      <4>1. i \in Int /\ i >= 1
        OBVIOUS
      <4> QED
        BY <2>2, <3>1, <3>2, <3>3, <4>1
  <2>5. \A q \in Pool : listed'[q] \subseteq listed[q]
    BY <1>0, <2>1 DEF TypeOK
  <2>6. StartInv(f)'
    <3>1. \A b \in before'[f] : state'[b] \in {"out", "safe", "done"}
      BY <1>a, <1>b, <2>1 DEF StartInv
    <3>2. ASSUME call'[f] = "new", NEW q \in Pool
          PROVE  /\ ~Answered(f, q)'
                 /\ \A i \in 1 .. Len(waiting'[q]) : waiting'[q][i].flush # f
      <4>1. /\ ~Answered(f, q) /\ ~Answered(f, p)
            /\ \A i \in 1 .. Len(waiting[q]) : waiting[q][i].flush # f
            /\ \A i \in 1 .. Len(waiting[p]) : waiting[p][i].flush # f
        BY <1>b, <2>1, <3>2 DEF StartInv
      <4>2. ASSUME NEW i \in 1 .. Len(waiting'[q]) PROVE waiting'[q][i].flush # f
        <5> PICK j \in 1 .. Len(waiting[q]) : waiting'[q][i] = waiting[q][j]
          BY <2>3
        <5> QED
          BY <4>1
      <4>3. ASSUME NEW i \in 1 .. Len(finisher'), finisher'[i] = <<f, q>> PROVE FALSE
        <5>0. i > m + 1 /\ q = p
          BY <2>4, <4>1, <4>3
        <5>1. i > m + 1 /\ q = p /\ i \in Int /\ i <= m + 1 + n
          <6>1. Len(finisher') = m + 1 + n /\ m \in Nat /\ n \in Nat
            BY <2>2
          <6> QED
            BY <5>0, <6>1
        <5> DEFINE k == i - (m + 1)
        <5>2. k \in 1 .. n /\ i = m + 1 + k /\ k \in 1 .. Len(waiting[p])
          <6>1. m \in Nat /\ n \in Nat /\ Len(waiting[p]) \in Nat /\ n <= Len(waiting[p])
            BY <2>2, <2>3
          <6> QED
            BY <5>1, <6>1
        <5> HIDE DEF k
        <5>3. finisher'[m + 1 + k] = <<waiting[p][k].flush, p>>
          BY <2>2, <5>2
        <5>4. waiting[p][k].flush = f
          BY SMTT(30), <4>3, <5>2, <5>3
        <5> QED
          BY <4>1, <5>2, <5>4
      <4> QED
        BY <2>1, <4>1, <4>2, <4>3 DEF Answered
    <3> QED
      BY <3>1, <3>2 DEF StartInv
  <2>7. WaitInv(f)'
    <3>1. ASSUME NEW q \in Pool, Answered(f, q)' PROVE before[f] \cap listed'[q] = {}
      <4>1. CASE Answered(f, q)
        BY <1>b, <2>5, <4>1 DEF WaitInv
      <4>2. ASSUME NEW i \in 1 .. Len(finisher'), finisher'[i] = <<f, q>>, ~Answered(f, q)
            PROVE  before[f] \cap listed'[q] = {}
        BY <2>4, <4>2
      <4> QED
        BY <2>1, <3>1, <4>1, <4>2 DEF Answered
    <3>2. ASSUME NEW q \in Pool, NEW i \in 1 .. Len(waiting'[q]), waiting'[q][i].flush = f
          PROVE  before[f] \cap listed'[q] \subseteq waiting'[q][i].seen
      <4> PICK k \in 1 .. Len(waiting[q]) : waiting'[q][i] = waiting[q][k]
        BY <2>3
      <4>1. before[f] \cap listed[q] \subseteq waiting[q][k].seen
        BY <1>b, <3>2 DEF WaitInv
      <4> QED
        BY <2>5, <4>1
    <3> QED
      BY <2>1, <3>1, <3>2 DEF WaitInv
  <2>8. OrderInv(f)'
    <3> SUFFICES ASSUME NEW i \in 1 .. Len(finisher'), finisher'[i][1] \in before[f]
                 PROVE  /\ finisher'[i][2] \notin drained[f]
                        /\ \A j \in 1 .. Len(finisher') :
                             finisher'[j] = <<f, finisher'[i][2]>> => i < j
      BY <2>1 DEF OrderInv
    <3>1. CASE i \in 1 .. m
      <4>1. finisher'[i] = finisher[i] /\ i \in 1 .. Len(finisher)
        BY <2>2, <3>1 DEF m
      <4>2. finisher'[i][2] \notin drained[f]
        BY <1>b, <4>1 DEF OrderInv
      <4>3. ASSUME NEW j \in 1 .. Len(finisher'), finisher'[j] = <<f, finisher'[i][2]>>
            PROVE  i < j
        <5>1. CASE j \in 1 .. m
          <6>1. finisher'[j] = finisher[j] /\ j \in 1 .. Len(finisher)
            BY <2>2, <5>1 DEF m
          <6> QED
            BY <1>b, <4>1, <4>3, <6>1 DEF OrderInv
        <5>2. CASE j \notin 1 .. m
          BY <2>2, <3>1, <5>2
        <5> QED
          BY <5>1, <5>2
      <4> QED
        BY <4>2, <4>3
    <3>2. CASE i = m + 1
      <4>1. finisher'[i][1] = a /\ finisher'[i][2] = p
        BY <2>2, <3>2
      <4>2. ~Answered(f, p)
        BY <1>b, <2>1, <4>1 DEF WaitInv
      <4>3. p \notin drained[f]
        BY <4>2 DEF Answered
      <4>4. \A j \in 1 .. Len(finisher') : finisher'[j] = <<f, p>> => j > m + 1
        BY <2>4, <4>2
      <4> QED
        BY <3>2, <4>1, <4>3, <4>4
    <3>3. CASE i > m + 1
      <4> DEFINE k == i - (m + 1)
      <4>1. k \in 1 .. n /\ i = m + 1 + k
        <5>1. i \in Int /\ i <= m + 1 + n
          BY <2>2
        <5> QED
          BY <2>2, <3>3, <5>1
      <4> HIDE DEF k
      <4>2. finisher'[m + 1 + k] = <<waiting[p][k].flush, p>> /\ waiting[p][k].flush \in Flush
        BY <2>2, <4>1
      <4>3. finisher'[i][1] \in Flush
        BY SMTT(30), <4>1, <4>2
      <4> QED
        BY <1>a, <4>3
    <3>4. i \in 1 .. m \/ i = m + 1 \/ i > m + 1
      <4>1. i \in Int /\ i >= 1 /\ m \in Nat
        BY <2>2
      <4> QED
        BY <4>1
    <3> QED
      BY <3>1, <3>2, <3>3, <3>4
  <2> QED
    BY <2>6, <2>7, <2>8
<1>7. ASSUME Finisher PROVE DrainInv'
  <2> SUFFICES ASSUME NEW f \in Flush PROVE StartInv(f)' /\ WaitInv(f)' /\ OrderInv(f)'
    BY DEF DrainInv
  <2> DEFINE e == finisher[1]
  <2>1. /\ Len(finisher) \in Nat /\ Len(finisher) >= 1
        /\ Len(finisher') = Len(finisher) - 1
        /\ \A i \in 1 .. Len(finisher') : finisher'[i] = finisher[i + 1]
        /\ Head(finisher) = e /\ e = <<e[1], e[2]>>
    BY <1>0, <1>7, FinisherQueue
  <2>2. \A i \in 1 .. Len(finisher') :
          i + 1 \in 1 .. Len(finisher) /\ i + 1 > 1 /\ finisher'[i] = finisher[i + 1]
    BY <2>1
  <2>3. UNCHANGED <<call, before, listed, waiting>>
    BY <1>7 DEF Finisher, FinishWrite, FinishFlush
  <2> HIDE DEF e
  \* What the finisher works off becomes an answer only if it was one in the queue.
  <2>4. \A q \in drained'[f] : q \in drained[f] \/ (e = <<f, q>> /\ q \in Pool)
    <3>1. CASE FinishWrite
      BY <3>1 DEF FinishWrite
    <3>2. CASE FinishFlush
      <4>1. drained' = [drained EXCEPT ![e[1]] = @ \cup {e[2]}] /\ e[1] \in Flush
        BY <2>1, <3>2 DEF FinishFlush
      <4>2. e \in Entry
        <5>1. finisher \in Seq(Entry) /\ 1 \in 1 .. Len(finisher)
          BY <1>0, <2>1 DEF TypeOK
        <5> QED
          BY <5>1, ElementOfSeq DEF e
      <4> QED
        BY <1>0, <2>1, <4>1, <4>2 DEF TypeOK, Entry
    <3> QED
      BY <1>7, <3>1, <3>2 DEF Finisher
  <2>5. \A b \in ObjReq : state'[b] \in {state[b], "done"}
    BY <1>0, <1>7 DEF Finisher, FinishWrite, FinishFlush, TypeOK
  <2>6. ASSUME NEW q \in Pool, Answered(f, q)' PROVE Answered(f, q)
    <3>1. CASE q \in drained'[f]
      <4>1. q \in drained[f] \/ e = <<f, q>>
        BY <2>4, <3>1
      <4>2. 1 \in 1 .. Len(finisher)
        BY <2>1
      <4> QED
        BY <4>1, <4>2 DEF Answered, e
    <3>2. ASSUME NEW i \in 1 .. Len(finisher'), finisher'[i] = <<f, q>> PROVE Answered(f, q)
      BY <2>2, <3>2 DEF Answered
    <3> QED
      BY <2>6, <3>1, <3>2 DEF Answered
  <2>7. StartInv(f)'
    BY <1>a, <1>b, <2>3, <2>5, <2>6 DEF StartInv
  <2>8. WaitInv(f)'
    BY <1>b, <2>3, <2>6 DEF WaitInv
  <2>9. OrderInv(f)'
    <3> SUFFICES ASSUME NEW i \in 1 .. Len(finisher'), finisher'[i][1] \in before[f]
                 PROVE  /\ finisher'[i][2] \notin drained'[f]
                        /\ \A j \in 1 .. Len(finisher') :
                             finisher'[j] = <<f, finisher'[i][2]>> => i < j
      BY <2>3 DEF OrderInv
    <3> DEFINE q == finisher[i + 1][2]
    <3>1. /\ i + 1 \in 1 .. Len(finisher) /\ finisher'[i] = finisher[i + 1]
          /\ finisher[i + 1][1] \in before[f]
      BY <2>2
    <3>2. /\ q \notin drained[f]
          /\ \A j \in 1 .. Len(finisher) : finisher[j] = <<f, q>> => i + 1 < j
      BY <1>b, <3>1 DEF OrderInv
    <3> HIDE DEF q
    <3>3. e # <<f, q>>
      <4>1. 1 \in 1 .. Len(finisher) /\ ~(i + 1 < 1)
        BY <2>1
      <4> QED
        BY <3>2, <4>1 DEF e
    <3>4. q \notin drained'[f]
      BY <2>4, <3>2, <3>3
    <3>5. ASSUME NEW j \in 1 .. Len(finisher'), finisher'[j] = <<f, q>> PROVE i < j
      <4>1. j + 1 \in 1 .. Len(finisher) /\ finisher[j + 1] = <<f, q>>
        BY <2>2, <3>5
      <4>2. i + 1 < j + 1
        BY <3>2, <4>1
      <4> QED
        BY <4>2
    <3> QED
      BY <3>1, <3>4, <3>5 DEF q
  <2> QED
    BY <2>7, <2>8, <2>9
<1>8. CASE StartFlush \/ FlushNextPool \/ FlushReturns \/ UNCHANGED vars
  <2>1. /\ UNCHANGED <<waiting, finisher, drained, listed, state, call>>
        /\ \A f \in Flush : before'[f] = before[f]
    <3>1. \A f \in Flush : f # "sync"
      OBVIOUS
    <3> QED
      BY <1>0, <1>8, <3>1 DEF StartFlush, FlushNextPool, FlushReturns, vars, TypeOK
  <2> QED
    BY <1>1, <2>1 DEF DrainInv
<1> QED
  BY <1>2, <1>3, <1>4, <1>5, <1>6, <1>7, <1>8 DEF Next, SendStep

-----------------------------------------------------------------------------
(* The waiters.                                                            *)

\* What a flush of a pool with listed writes does to the pool's waiters.
LEMMA WaitersJoin ==
  ASSUME TypeOK, NEW p \in Pool, NEW w \in [flush : Flush, seen : SUBSET ObjReq],
         waiting' = [waiting EXCEPT ![p] = Append(@, w)]
  PROVE  /\ Len(waiting[p]) \in Nat /\ Len(waiting'[p]) = Len(waiting[p]) + 1
         /\ \A i \in 1 .. Len(waiting[p]) : waiting'[p][i] = waiting[p][i]
         /\ waiting'[p][Len(waiting[p]) + 1] = w
         /\ \A q \in Pool : q # p => waiting'[q] = waiting[q]
<1>1. w \in [flush : Flush, seen : SUBSET ObjReq]
  OBVIOUS
<1>2. waiting[p] \in Seq([flush : Flush, seen : SUBSET ObjReq])
  BY DEF TypeOK
<1>3. waiting'[p] = Append(waiting[p], w) /\ \A q \in Pool : q # p => waiting'[q] = waiting[q]
  BY DEF TypeOK
<1> QED
  BY <1>1, <1>2, <1>3, AppendProperties, LenProperties

\* What a commit that wakes the first n waiters does to the pool's waiters.
LEMMA WaitersLeave ==
  ASSUME TypeOK, NEW p \in Pool, NEW n \in 0 .. Len(waiting[p]),
         waiting' = [waiting EXCEPT ![p] = SubSeq(@, n + 1, Len(@))]
  PROVE  /\ Len(waiting[p]) \in Nat /\ n \in Nat /\ n <= Len(waiting[p])
         /\ Len(waiting'[p]) = Len(waiting[p]) - n
         /\ \A i \in 1 .. Len(waiting'[p]) :
              i + n \in 1 .. Len(waiting[p]) /\ waiting'[p][i] = waiting[p][i + n]
         /\ \A q \in Pool : q # p => waiting'[q] = waiting[q]
<1>1. waiting[p] \in Seq([flush : Flush, seen : SUBSET ObjReq])
  BY DEF TypeOK
<1>2. Len(waiting[p]) \in Nat /\ n \in Nat /\ n <= Len(waiting[p])
  BY <1>1, LenProperties
<1>3. /\ waiting'[p] = SubSeq(waiting[p], n + 1, Len(waiting[p]))
      /\ \A q \in Pool : q # p => waiting'[q] = waiting[q]
  BY DEF TypeOK
<1>4. /\ Len(waiting'[p]) = Len(waiting[p]) - n
      /\ \A i \in 1 .. Len(waiting[p]) - n : waiting'[p][i] = waiting[p][i + n]
  BY <1>1, <1>2, <1>3
<1>5. \A i \in 1 .. Len(waiting[p]) - n : i + n \in 1 .. Len(waiting[p])
  BY <1>2
<1> QED
  BY <1>2, <1>3, <1>4, <1>5

LEMMA WaitersType ==
  ASSUME TypeOK, NEW q \in Pool, NEW i \in 1 .. Len(waiting[q])
  PROVE  waiting[q][i].seen \subseteq ObjReq
<1>1. waiting[q] \in Seq([flush : Flush, seen : SUBSET ObjReq])
  BY DEF TypeOK
<1>2. waiting[q][i] \in [flush : Flush, seen : SUBSET ObjReq]
  BY <1>1, ElementOfSeq
<1> QED
  BY <1>2

\* Nobody waits for a write that is not listed any more.
LEMMA WakeStep == IInv /\ [Next]_vars => WakeInv'
<1> SUFFICES ASSUME IInv, [Next]_vars PROVE WakeInv'
  OBVIOUS
<1>0. TypeOK /\ ListInv /\ WakeInv
  BY DEF IInv
<1> USE CallsAreDisjoint DEF compVars, syncVars
\* The waiters stay, and what is listed anew was not sent before.
<1>1. ASSUME waiting' = waiting,
             \A q \in Pool : /\ listed[q] \subseteq listed'[q]
                            /\ \A b \in listed'[q] : b \in listed[q] \/ state[b] = "new",
             \A b \in ObjReq : state[b] # "new" => state'[b] # "new"
      PROVE  WakeInv'
  <2> SUFFICES ASSUME NEW q \in Pool
               PROVE  /\ \A i \in 1 .. Len(waiting[q]) :
                           /\ waiting[q][i].seen \cap listed'[q] # {}
                           /\ \A b \in waiting[q][i].seen : state'[b] # "new"
                      /\ \A i, j \in 1 .. Len(waiting[q]) : i < j =>
                           waiting[q][i].seen \cap listed'[q] \subseteq waiting[q][j].seen
    BY <1>1 DEF WakeInv
  <2>1. \A i \in 1 .. Len(waiting[q]) : waiting[q][i].seen \subseteq ObjReq
    BY <1>0, WaitersType
  <2>2. \A i \in 1 .. Len(waiting[q]) :
          /\ waiting[q][i].seen \cap listed'[q] # {}
          /\ \A b \in waiting[q][i].seen : state'[b] # "new"
    BY <1>0, <1>1, <2>1 DEF WakeInv
  <2>3. ASSUME NEW i \in 1 .. Len(waiting[q]), NEW j \in 1 .. Len(waiting[q]), i < j
        PROVE  waiting[q][i].seen \cap listed'[q] \subseteq waiting[q][j].seen
    <3>1. waiting[q][i].seen \cap listed'[q] \subseteq listed[q]
      BY <1>0, <1>1 DEF WakeInv
    <3> QED
      BY <1>0, <2>3, <3>1 DEF WakeInv
  <2> QED
    BY <2>2, <2>3
<1>2. ASSUME NEW c \in Completion, CallStep(c) \/ Release(c) PROVE WakeInv'
  <2>1. UNCHANGED <<waiting, listed>> /\ \A b \in ObjReq : state[b] # "new" => state'[b] # "new"
    BY <1>0, <1>2 DEF CallStep, StartWrite, StartAioFlush, FinishAddingRequests,
                      Return, Release, TypeOK
  <2> QED
    BY <1>1, <2>1
<1>3. ASSUME NEW a \in ObjReq, SendFails(a) PROVE WakeInv'
  <2>1. UNCHANGED <<waiting, listed>> /\ \A b \in ObjReq : state[b] # "new" => state'[b] # "new"
    BY <1>0, <1>3 DEF SendFails, TypeOK
  <2> QED
    BY <1>1, <2>1
<1>4. ASSUME NEW a \in ObjReq, NEW p \in Pool, Send(a, p) PROVE WakeInv'
  <2>1. /\ waiting' = waiting /\ state[a] = "new"
        /\ listed' = [listed EXCEPT ![p] = @ \cup {a}]
        /\ \A b \in ObjReq : state[b] # "new" => state'[b] # "new"
    BY <1>0, <1>4 DEF Send, TypeOK
  <2>2. \A q \in Pool : /\ listed[q] \subseteq listed'[q]
                       /\ \A b \in listed'[q] : b \in listed[q] \/ state[b] = "new"
    BY <1>0, <2>1 DEF TypeOK
  <2> QED
    BY <1>1, <2>1, <2>2
<1>5. ASSUME NEW g \in Flush, NEW p \in Pool, FlushPool(g, p) PROVE WakeInv'
  <2>1. UNCHANGED <<state, listed>>
    BY <1>5 DEF FlushPool
  <2>2. CASE listed[p] = {}
    <3>1. waiting' = waiting
      BY <1>5, <2>2 DEF FlushPool, FlushAsync
    <3> QED
      BY <1>1, <2>1, <3>1
  <2>3. CASE listed[p] # {}
    <3> DEFINE w == [flush |-> g, seen |-> listed[p]]
    <3>1. /\ waiting' = [waiting EXCEPT ![p] = Append(@, w)]
          /\ w \in [flush : Flush, seen : SUBSET ObjReq] /\ w.seen = listed[p]
      BY <1>0, <1>5, <2>3 DEF FlushPool, FlushAsync, TypeOK
    <3> HIDE DEF w
    <3>2. /\ Len(waiting[p]) \in Nat /\ Len(waiting'[p]) = Len(waiting[p]) + 1
          /\ \A i \in 1 .. Len(waiting[p]) : waiting'[p][i] = waiting[p][i]
          /\ waiting'[p][Len(waiting[p]) + 1] = w
          /\ \A q \in Pool : q # p => waiting'[q] = waiting[q]
      BY <1>0, <3>1, WaitersJoin
    <3>3. ASSUME NEW i \in 1 .. Len(waiting'[p])
          PROVE  \/ i \in 1 .. Len(waiting[p]) /\ waiting'[p][i] = waiting[p][i]
                 \/ i = Len(waiting'[p]) /\ waiting'[p][i].seen = listed[p]
      BY <3>1, <3>2
    <3>4. \A b \in listed[p] : state[b] # "new"
      BY <1>0 DEF ListInv
    <3>5. ASSUME NEW i \in 1 .. Len(waiting'[p])
          PROVE  /\ waiting'[p][i].seen \cap listed[p] # {}
                 /\ \A b \in waiting'[p][i].seen : state[b] # "new"
      BY <1>0, <2>3, <3>3, <3>4 DEF WakeInv
    <3>6. ASSUME NEW i \in 1 .. Len(waiting'[p]), NEW j \in 1 .. Len(waiting'[p]), i < j
          PROVE  waiting'[p][i].seen \cap listed[p] \subseteq waiting'[p][j].seen
      <4>1. i # Len(waiting'[p])
        BY <3>2, <3>6
      <4>2. i \in 1 .. Len(waiting[p]) /\ waiting'[p][i] = waiting[p][i]
        BY <3>3, <4>1
      <4> QED
        BY <1>0, <3>3, <3>6, <4>2 DEF WakeInv
    <3>7. \A q \in Pool : q # p => waiting'[q] = waiting[q]
      BY <3>2
    <3> QED
      BY SMTT(30), <1>0, <2>1, <3>5, <3>6, <3>7 DEF WakeInv
  <2> QED
    BY <2>2, <2>3
<1>6. ASSUME NEW a \in ObjReq, NEW p \in Pool, NEW r \in {"ok", "error"}, Commit(a, p, r)
      PROVE WakeInv'
  <2> PICK n \in 0 .. Len(waiting[p]) :
        /\ Wakes(p, listed[p] \ {a}, n)
        /\ waiting' = [waiting EXCEPT ![p] = SubSeq(@, n + 1, Len(@))]
    BY <1>6 DEF Commit
  <2>1. /\ Len(waiting[p]) \in Nat /\ n \in Nat /\ n <= Len(waiting[p])
        /\ Len(waiting'[p]) = Len(waiting[p]) - n
        /\ \A i \in 1 .. Len(waiting'[p]) :
             i + n \in 1 .. Len(waiting[p]) /\ waiting'[p][i] = waiting[p][i + n]
        /\ \A q \in Pool : q # p => waiting'[q] = waiting[q]
    BY <1>0, WaitersLeave
  <2>2. /\ listed'[p] = listed[p] \ {a}
        /\ \A q \in Pool : q # p => listed'[q] = listed[q]
        /\ \A b : b \in ObjReq => (state[b] # "new" => state'[b] # "new")
    BY <1>0, <1>6 DEF Commit, TypeOK
  <2>3. ASSUME NEW q \in Pool, NEW i \in 1 .. Len(waiting[q])
        PROVE  waiting[q][i].seen \subseteq ObjReq
    BY <1>0, WaitersType
  \* The first that is not woken still waits for a write, and the others for that one too.
  <2>4. ASSUME NEW i \in 1 .. Len(waiting'[p])
        PROVE  waiting'[p][i].seen \cap listed'[p] # {}
    <3>0. i + n \in 1 .. Len(waiting[p]) /\ waiting'[p][i] = waiting[p][i + n]
      BY <2>1
    <3>1. /\ n < Len(waiting[p]) /\ n + 1 \in 1 .. Len(waiting[p])
          /\ i = 1 \/ n + 1 < i + n
      <4>1. i \in Int /\ i >= 1
        BY <2>1
      <4> QED
        BY <2>1, <3>0, <4>1
    <3>2. PICK b \in waiting[p][n + 1].seen : b \in listed[p] \ {a}
      BY <3>1 DEF Wakes
    <3>3. b \in waiting[p][i + n].seen
      <4>1. CASE i = 1
        <5>1. i + n = n + 1
          BY <2>1, <4>1
        <5> QED
          BY <3>2, <5>1
      <4>2. CASE n + 1 < i + n
        BY <1>0, <3>0, <3>1, <3>2, <4>2 DEF WakeInv
      <4> QED
        BY <3>1, <4>1, <4>2
    <3> QED
      BY <2>2, <3>0, <3>2, <3>3
  <2>5. ASSUME NEW i \in 1 .. Len(waiting'[p]), NEW b \in waiting'[p][i].seen
        PROVE  state'[b] # "new"
    <3>1. i + n \in 1 .. Len(waiting[p]) /\ waiting'[p][i] = waiting[p][i + n]
      BY <2>1
    <3>2. state[b] # "new" /\ b \in ObjReq
      BY <1>0, <2>3, <2>5, <3>1 DEF WakeInv
    <3> QED
      BY <2>2, <3>2
  <2>6. ASSUME NEW i \in 1 .. Len(waiting'[p]), NEW j \in 1 .. Len(waiting'[p]), i < j
        PROVE  waiting'[p][i].seen \cap listed'[p] \subseteq waiting'[p][j].seen
    <3>1. /\ i + n \in 1 .. Len(waiting[p]) /\ waiting'[p][i] = waiting[p][i + n]
          /\ j + n \in 1 .. Len(waiting[p]) /\ waiting'[p][j] = waiting[p][j + n]
      BY <2>1
    <3>2. i + n < j + n
      BY <2>1, <2>6
    <3>3. waiting[p][i + n].seen \cap listed[p] \subseteq waiting[p][j + n].seen
      BY <1>0, <3>1, <3>2 DEF WakeInv
    <3> QED
      BY <2>2, <3>1, <3>3
  <2>7. ASSUME NEW q \in Pool, q # p
        PROVE  /\ waiting'[q] = waiting[q] /\ listed'[q] = listed[q]
               /\ \A i \in 1 .. Len(waiting[q]) : \A b \in waiting[q][i].seen : state'[b] # "new"
    <3>1. \A i \in 1 .. Len(waiting[q]) : \A b \in waiting[q][i].seen : state[b] # "new" /\ b \in ObjReq
      BY <1>0, <2>3 DEF WakeInv
    <3> QED
      BY <2>1, <2>2, <2>7, <3>1
  <2> SUFFICES ASSUME NEW q \in Pool
               PROVE  /\ \A i \in 1 .. Len(waiting'[q]) :
                           /\ waiting'[q][i].seen \cap listed'[q] # {}
                           /\ \A b \in waiting'[q][i].seen : state'[b] # "new"
                      /\ \A i, j \in 1 .. Len(waiting'[q]) : i < j =>
                           waiting'[q][i].seen \cap listed'[q] \subseteq waiting'[q][j].seen
    BY DEF WakeInv
  <2>8. CASE q = p
    BY <2>4, <2>5, <2>6, <2>8
  <2>9. CASE q # p
    BY SMTT(30), <1>0, <2>7, <2>9 DEF WakeInv
  <2> QED
    BY <2>8, <2>9
<1>7. ASSUME Finisher PROVE WakeInv'
  <2>1. UNCHANGED <<waiting, listed>> /\ \A b \in ObjReq : state[b] # "new" => state'[b] # "new"
    BY <1>0, <1>7 DEF Finisher, FinishWrite, FinishFlush, TypeOK
  <2> QED
    BY <1>1, <2>1
<1>8. CASE StartFlush \/ FlushNextPool \/ FlushReturns \/ UNCHANGED vars
  <2>1. UNCHANGED <<waiting, listed, state>>
    BY <1>8 DEF StartFlush, FlushNextPool, FlushReturns, vars
  <2> QED
    BY <1>1, <2>1
<1> QED
  BY <1>2, <1>3, <1>4, <1>5, <1>6, <1>7, <1>8 DEF Next, SendStep

\* A pool that was asked for a flush does not forget it.
LEMMA AskedStep == IInv /\ [Next]_vars => AskedInv'
<1> SUFFICES ASSUME IInv, [Next]_vars PROVE AskedInv'
  OBVIOUS
<1>0. TypeOK /\ CallInv /\ AskedInv
  BY DEF IInv
<1> USE CallsAreDisjoint DEF compVars, syncVars
<1>1. ASSUME UNCHANGED <<waiting, finisher, drained>>,
             \A f \in Flush : call'[f] = call[f] \/ call'[f] = "adding"
                              \/ call[f] \notin {"new", "adding", "half"}
      PROVE  AskedInv'
  <2> SUFFICES ASSUME NEW f \in Flush, NEW p \in Pool, Asked(f, p)'
               PROVE  \/ Answered(f, p)'
                      \/ \E i \in 1 .. Len(waiting'[p]) : waiting'[p][i].flush = f
    BY DEF AskedInv
  <2>1. Asked(f, p)
    BY <1>1 DEF Asked
  <2>2. Answered(f, p)' <=> Answered(f, p)
    BY <1>1 DEF Answered
  <2> QED
    BY <1>0, <1>1, <2>1, <2>2 DEF AskedInv
<1>2. ASSUME NEW c \in Completion, CallStep(c) \/ Release(c) PROVE AskedInv'
  <2>1. UNCHANGED <<waiting, finisher, drained>>
    BY <1>2 DEF CallStep, StartWrite, StartAioFlush, FinishAddingRequests, Return, Release
  <2>2. \A f \in Flush : call'[f] = call[f] \/ call'[f] = "adding"
                         \/ call[f] \notin {"new", "adding", "half"}
    BY <1>0, <1>2 DEF CallStep, StartWrite, StartAioFlush, FinishAddingRequests, AllAdded,
                      Return, Release, TypeOK
  <2> QED
    BY <1>1, <2>1, <2>2
<1>3. ASSUME NEW a \in ObjReq, SendFails(a) PROVE AskedInv'
  <2>1. UNCHANGED <<waiting, finisher, drained>> /\ \A f \in Flush : call'[f] = call[f]
    BY <1>0, <1>3 DEF SendFails, TypeOK
  <2> QED
    BY <1>1, <2>1
<1>4. ASSUME NEW a \in ObjReq, NEW p \in Pool, Send(a, p) PROVE AskedInv'
  BY <1>1, <1>4 DEF Send
<1>5. ASSUME NEW g \in Flush, NEW p \in Pool, FlushPool(g, p) PROVE AskedInv'
  <2>1. drained' = drained
    BY <1>5 DEF FlushPool
  <2>2. \A f \in Flush, q \in Pool : Asked(f, q)' => Asked(f, q) \/ (f = g /\ q = p)
    BY <1>0, <1>5 DEF FlushPool, Asked, TypeOK
  <2> SUFFICES ASSUME NEW f \in Flush, NEW q \in Pool, Asked(f, q) \/ (f = g /\ q = p)
               PROVE  \/ Answered(f, q)'
                      \/ \E i \in 1 .. Len(waiting'[q]) : waiting'[q][i].flush = f
    BY <2>2 DEF AskedInv
  <2>3. CASE listed[p] = {}
    <3>1. finisher' = Append(finisher, <<g, p>>) /\ waiting' = waiting
      BY <1>5, <2>3 DEF FlushPool, FlushAsync
    <3>2. /\ Len(finisher) \in Nat /\ Len(finisher') = Len(finisher) + 1
          /\ \A i \in 1 .. Len(finisher) : finisher'[i] = finisher[i]
          /\ finisher'[Len(finisher) + 1] = <<g, p>>
      BY <1>0, <3>1, FlushQueue
    <3>3. CASE f = g /\ q = p
      <4>1. Len(finisher) + 1 \in 1 .. Len(finisher')
        BY <3>2
      <4> QED
        BY <3>2, <3>3, <4>1 DEF Answered
    <3>4. CASE Answered(f, q)
      <4>1. \A i \in 1 .. Len(finisher) : i \in 1 .. Len(finisher') /\ finisher'[i] = finisher[i]
        BY <3>2
      <4> QED
        BY <2>1, <3>4, <4>1 DEF Answered
    <3> QED
      BY <1>0, <3>1, <3>3, <3>4 DEF AskedInv
  <2>4. CASE listed[p] # {}
    <3> DEFINE w == [flush |-> g, seen |-> listed[p]]
    <3>1. /\ waiting' = [waiting EXCEPT ![p] = Append(@, w)] /\ finisher' = finisher
          /\ w \in [flush : Flush, seen : SUBSET ObjReq] /\ w.flush = g
      BY <1>0, <1>5, <2>4 DEF FlushPool, FlushAsync, TypeOK
    <3> HIDE DEF w
    <3>2. /\ Len(waiting[p]) \in Nat /\ Len(waiting'[p]) = Len(waiting[p]) + 1
          /\ \A i \in 1 .. Len(waiting[p]) : waiting'[p][i] = waiting[p][i]
          /\ waiting'[p][Len(waiting[p]) + 1] = w
          /\ \A s \in Pool : s # p => waiting'[s] = waiting[s]
      BY <1>0, <3>1, WaitersJoin
    <3>3. CASE f = g /\ q = p
      <4>1. Len(waiting[p]) + 1 \in 1 .. Len(waiting'[p])
        BY <3>2
      <4> QED
        BY <3>1, <3>2, <3>3, <4>1
    <3>4. CASE Answered(f, q)
      BY <2>1, <3>1, <3>4 DEF Answered
    <3>5. ASSUME NEW i \in 1 .. Len(waiting[q]), waiting[q][i].flush = f
          PROVE  \E j \in 1 .. Len(waiting'[q]) : waiting'[q][j].flush = f
      <4>1. i \in 1 .. Len(waiting'[q]) /\ waiting'[q][i] = waiting[q][i]
        BY <3>2
      <4> QED
        BY <3>5, <4>1
    <3> QED
      BY <1>0, <3>3, <3>4, <3>5 DEF AskedInv
  <2> QED
    BY <2>3, <2>4
<1>6. ASSUME NEW a \in ObjReq, NEW p \in Pool, NEW r \in {"ok", "error"}, Commit(a, p, r)
      PROVE AskedInv'
  <2> PICK n \in 0 .. Len(waiting[p]) :
        /\ finisher' = Append(finisher, <<a, p>>) \o Answers(p, n)
        /\ waiting' = [waiting EXCEPT ![p] = SubSeq(@, n + 1, Len(@))]
    BY <1>6 DEF Commit
  <2>1. UNCHANGED <<call, drained>>
    BY <1>6 DEF Commit
  <2>2. /\ Len(finisher) \in Nat /\ n \in Nat /\ Len(finisher') = Len(finisher) + 1 + n
        /\ \A i \in 1 .. Len(finisher) : finisher'[i] = finisher[i]
        /\ \A k \in 1 .. n : finisher'[Len(finisher) + 1 + k] = <<waiting[p][k].flush, p>>
    BY <1>0, CommitQueue
  <2>3. /\ Len(waiting[p]) \in Nat /\ n <= Len(waiting[p])
        /\ Len(waiting'[p]) = Len(waiting[p]) - n
        /\ \A i \in 1 .. Len(waiting'[p]) : waiting'[p][i] = waiting[p][i + n]
        /\ \A q \in Pool : q # p => waiting'[q] = waiting[q]
    BY <1>0, WaitersLeave
  <2> SUFFICES ASSUME NEW f \in Flush, NEW q \in Pool, Asked(f, q)
               PROVE  \/ Answered(f, q)'
                      \/ \E i \in 1 .. Len(waiting'[q]) : waiting'[q][i].flush = f
    <3>1. \A f \in Flush, q \in Pool : Asked(f, q)' <=> Asked(f, q)
      BY <2>1 DEF Asked
    <3> QED
      BY SMTT(30), <3>1 DEF AskedInv
  <2>4. CASE Answered(f, q)
    <3>1. \A i \in 1 .. Len(finisher) : i \in 1 .. Len(finisher') /\ finisher'[i] = finisher[i]
      BY <2>2
    <3> QED
      BY <2>1, <2>4, <3>1 DEF Answered
  <2>5. ASSUME NEW i \in 1 .. Len(waiting[q]), waiting[q][i].flush = f
        PROVE  \/ Answered(f, q)'
               \/ \E j \in 1 .. Len(waiting'[q]) : waiting'[q][j].flush = f
    <3>1. CASE q # p
      BY <2>3, <2>5, <3>1
    <3>2. CASE q = p /\ i \in 1 .. n
      <4>1. /\ Len(finisher) + 1 + i \in 1 .. Len(finisher')
            /\ finisher'[Len(finisher) + 1 + i] = <<f, q>>
        <5>1. finisher'[Len(finisher) + 1 + i] = <<waiting[p][i].flush, p>>
          BY <2>2, <3>2
        <5>2. Len(finisher) + 1 + i \in 1 .. Len(finisher')
          BY <2>2, <3>2
        <5> QED
          BY <2>5, <3>2, <5>1, <5>2
      <4> QED
        BY <4>1 DEF Answered
    <3>3. CASE q = p /\ i \notin 1 .. n
      <4> DEFINE j == i - n
      <4>1. j \in 1 .. Len(waiting'[p]) /\ j + n = i
        BY <2>2, <2>3, <3>3
      <4> HIDE DEF j
      <4>2. waiting'[p][j] = waiting[p][i]
        BY <2>3, <4>1
      <4> QED
        BY <2>5, <3>3, <4>1, <4>2
    <3> QED
      BY <3>1, <3>2, <3>3
  <2>6. Answered(f, q) \/ \E i \in 1 .. Len(waiting[q]) : waiting[q][i].flush = f
    BY <1>0 DEF AskedInv
  <2> QED
    BY <2>4, <2>5, <2>6
<1>7. ASSUME Finisher PROVE AskedInv'
  <2>1. /\ Len(finisher) \in Nat /\ Len(finisher) >= 1
        /\ Len(finisher') = Len(finisher) - 1
        /\ \A i \in 1 .. Len(finisher') : finisher'[i] = finisher[i + 1]
        /\ Head(finisher) = finisher[1]
    BY <1>0, <1>7, FinisherQueue
  <2>2. UNCHANGED <<call, waiting>>
    BY <1>7 DEF Finisher, FinishWrite, FinishFlush
  <2> SUFFICES ASSUME NEW f \in Flush, NEW q \in Pool, Answered(f, q) PROVE Answered(f, q)'
    BY <1>0, <2>2 DEF AskedInv, Asked
  <2>3. \A s \in drained[f] : s \in drained'[f]
    <3>1. drained \in [Flush -> SUBSET Pool]
      BY <1>0 DEF TypeOK
    <3>2. CASE FinishWrite
      BY <3>2 DEF FinishWrite
    <3>3. CASE FinishFlush
      BY <3>1, <3>3 DEF FinishFlush
    <3> QED
      BY <1>7, <3>2, <3>3 DEF Finisher
  <2>4. ASSUME NEW i \in 1 .. Len(finisher), finisher[i] = <<f, q>> PROVE Answered(f, q)'
    <3>1. CASE i = 1
      <4>1. Head(finisher)[1] = f /\ Head(finisher)[2] = q
        BY <2>1, <2>4, <3>1
      <4>2. FinishFlush
        BY <1>7, <4>1 DEF Finisher, FinishWrite
      <4>3. q \in drained'[f]
        BY <1>0, <4>1, <4>2 DEF FinishFlush, TypeOK
      <4> QED
        BY <4>3 DEF Answered
    <3>2. CASE i # 1
      <4> DEFINE j == i - 1
      <4>1. j \in 1 .. Len(finisher') /\ j + 1 = i
        BY <2>1, <3>2
      <4> HIDE DEF j
      <4>2. finisher'[j] = <<f, q>>
        BY <2>1, <2>4, <4>1
      <4> QED
        BY <4>1, <4>2 DEF Answered
    <3> QED
      BY <3>1, <3>2
  <2> QED
    BY <2>3, <2>4 DEF Answered
<1>8. CASE StartFlush \/ FlushNextPool \/ FlushReturns \/ UNCHANGED vars
  <2>1. UNCHANGED <<waiting, finisher, drained, call>>
    BY <1>8 DEF StartFlush, FlushNextPool, FlushReturns, vars
  <2> QED
    BY <1>1, <2>1
<1> QED
  BY <1>2, <1>3, <1>4, <1>5, <1>6, <1>7, <1>8 DEF Next, SendStep

-----------------------------------------------------------------------------
(* The results.                                                            *)

\* The invariant holds in every reachable state, for any number of calls,
\* object requests and flushes.
THEOREM Invariance == Spec => []IInv
<1>1. Init => IInv
  BY InitInv
<1>2. IInv /\ [Next]_vars => IInv'
  <2> SUFFICES ASSUME IInv, [Next]_vars PROVE IInv'
    OBVIOUS
  <2>1. TypeOK'
    BY TypeStep DEF IInv
  <2>2. CountInv' /\ CallInv'
    BY CountersStep DEF Counters
  <2>3. ListInv' /\ ResultInv' /\ SyncInv'
    BY ListStep, ResultStep, SyncStepInv
  <2>4. ReqInv' /\ DrainInv'
    BY ReqStep, DrainStep
  <2>5. WakeInv' /\ AskedInv'
    BY WakeStep, AskedStep
  <2> QED
    BY <2>1, <2>2, <2>3, <2>4, <2>5 DEF IInv
<1> QED
  BY <1>1, <1>2, PTL DEF Spec

\* The counters, lists and queues of AioCompletion and librados keep their types.
THEOREM TypeCorrect == Spec => []TypeOK
<1>1. IInv => TypeOK
  BY DEF IInv
<1> QED
  BY <1>1, Invariance, PTL

\* aio_write calls its user back once, with all its object requests on disk and
\* the error they had, and not at all if it returned an error itself.
THEOREM CalledBackOnce == Spec => []AnsweredOnce
<1>1. IInv => AnsweredOnce
  <2> SUFFICES ASSUME IInv, NEW o \in Op
               PROVE  /\ fired[o] <= 1
                      /\ fired[o] = 1 =>
                           /\ \A a \in ObjReq : owner[a] = o => state[a] = "done"
                           /\ rval[o] = "error" <=> \E a \in ObjReq : owner[a] = o /\ res[a] = "error"
                           /\ call[o] \notin Refused
    BY DEF AnsweredOnce, Refused
  <2>0. TypeOK /\ CountInv /\ CallInv /\ ResultInv /\ o \in Completion
    BY DEF IInv
  <2>1. fired[o] = IF ~building[o] /\ pending[o] = 0 THEN 1 ELSE 0
    BY <2>0 DEF CallInv
  <2>2. ASSUME fired[o] = 1
        PROVE  /\ call[o] \notin Building \cup Refused
               /\ \A b \in ObjReq : owner[b] = o => state[b] \notin {"out", "safe", "stuck"}
    <3>1. ~building[o] /\ pending[o] = 0
      BY <2>1, <2>2
    <3>2. Pend(o) = {}
      BY <2>0, <3>1, PendEmpty DEF CountInv
    <3>3. \A b \in ObjReq : owner[b] = o => state[b] \notin {"out", "safe", "stuck"}
      BY <3>2 DEF Pend, Owner
    <3> QED
      BY <2>0, <3>1, <3>3 DEF CallInv
  <2>3. ASSUME fired[o] = 1, NEW a \in ObjReq, owner[a] = o PROVE state[a] = "done"
    BY <2>0, <2>2, <2>3 DEF CallInv, TypeOK
  <2>4. ASSUME fired[o] = 1
        PROVE  rval[o] = "error" <=> \E a \in ObjReq : owner[a] = o /\ res[a] = "error"
    BY <2>0, <2>3, <2>4 DEF ResultInv
  <2> QED
    BY <2>1, <2>2, <2>3, <2>4
<1> QED
  BY <1>1, Invariance, PTL

\* The reference count reaches 0 exactly when nobody needs the completion.
THEOREM FreedOnlyWhenUnused == Spec => []FreedWhenUnused
<1>1. IInv => FreedWhenUnused
  <2> SUFFICES ASSUME IInv, NEW c \in Completion
               PROVE  ref[c] = 0 <=>
                        /\ released[c]
                        /\ call[c] \in Over
                        /\ \A q \in Req : Owner(q) = c => state[q] \in {"new", "done"}
    BY DEF FreedWhenUnused, Over
  <2>0. TypeOK /\ CountInv
    BY DEF IInv
  <2>1. ref[c] = pending[c] + (IF call[c] \in Over THEN 0 ELSE 1)
                            + (IF released[c] THEN 0 ELSE 1)
    BY <2>0 DEF CountInv
  <2>2. pending[c] \in Nat /\ (pending[c] = 0 <=> Pend(c) = {})
    BY <2>0, PendEmpty DEF CountInv
  <2>3. Pend(c) = {} <=> \A q \in Req : Owner(q) = c => state[q] \in {"new", "done"}
    BY <2>0 DEF Pend, TypeOK
  <2>4. ref[c] = 0 <=> released[c] /\ call[c] \in Over /\ pending[c] = 0
    BY <2>1, <2>2
  <2> QED
    BY <2>2, <2>3, <2>4
<1> QED
  BY <1>1, Invariance, PTL

\* flush returns with the writes it found listed on disk, in either pool.
THEOREM FlushCoversItsWrites == Spec => []FlushCovers
<1>1. IInv => FlushCovers
  BY DEF IInv, SyncInv, FlushCovers
<1> QED
  BY <1>1, Invariance, PTL

\* Both answers to an aio_flush follow the callbacks of all the writes it found listed.
THEOREM DrainedFlushesCalledBack == Spec => []DrainedMeansCalledBack
<1>1. IInv => DrainedMeansCalledBack
  <2> SUFFICES ASSUME IInv, NEW f \in Flush, drained[f] = Pool, NEW a \in before[f]
               PROVE  state[a] = "done"
    BY DEF DrainedMeansCalledBack
  <2>0. TypeOK /\ ReqInv /\ StartInv(f) /\ WaitInv(f) /\ OrderInv(f) /\ a \in ObjReq
    BY DEF IInv, DrainInv, TypeOK
  <2>1. state[a] # "out"
    <3>1. \A p \in Pool : Answered(f, p)
      BY DEF Answered
    <3> QED
      BY <2>0, <3>1 DEF WaitInv, ReqInv, Listed
  <2>2. state[a] # "safe"
    <3> SUFFICES ASSUME state[a] = "safe" PROVE FALSE
      OBVIOUS
    <3> PICK i \in 1 .. Len(finisher) : finisher[i][1] = a
      BY <2>0 DEF ReqInv
    <3>1. finisher[i] \in Entry
      <4>1. finisher \in Seq(Entry)
        BY <2>0 DEF TypeOK
      <4> QED
        BY <4>1, ElementOfSeq
    <3> QED
      BY <2>0, <3>1 DEF OrderInv, Entry
  <2> QED
    BY <2>0, <2>1, <2>2 DEF StartInv
<1> QED
  BY <1>1, Invariance, PTL

\* A pool that was asked for a flush answers it, or will when a write commits
\* that it still lists: no wake-up is lost, for any number of flushes.
THEOREM NoLostWakeup == Spec => []NoFlushForgotten
<1>1. IInv => NoFlushForgotten
  BY DEF IInv, WakeInv, AskedInv, NoFlushForgotten
<1> QED
  BY <1>1, Invariance, PTL
=============================================================================

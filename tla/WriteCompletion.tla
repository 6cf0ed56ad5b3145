--------------------------- MODULE WriteCompletion ---------------------------
(***************************************************************************)
(* How a call of the image (aio_write, aio_flush, flush) learns that its   *)
(* object requests are on disk.                                            *)
(*                                                                         *)
(*  - A write is split into object requests.  Its AioCompletion counts the *)
(*    requests pending and the references held, and calls the user back    *)
(*    when the last request is done and no more will be added.             *)
(*  - librados keeps, per pool, the list of writes that are not on disk.   *)
(*    A commit queues the request's callback for the one finisher thread   *)
(*    and then unlists the write, which wakes the flushes that waited.     *)
(*  - flush waits for the list of the HDD pool, then for that of the SSD   *)
(*    pool.  aio_flush hands one and the same rados completion to both.    *)
(*                                                                         *)
(* Threads: one per call, the messenger (commits), and the finisher.  What *)
(* happens under the lock of one completion is one step.                   *)
(***************************************************************************)
EXTENDS Integers, Sequences, FiniteSets

CONSTANTS
  Op,       \* calls of aio_write
  ObjReq,   \* object requests of these calls
  Flush     \* calls of aio_flush

ASSUME CallsAreDisjoint ==
  /\ Op \cap Flush = {}
  /\ ObjReq \cap Flush = {}
  /\ "sync" \notin Flush
  /\ IsFiniteSet(ObjReq) /\ IsFiniteSet(Flush)

Completion == Op \cup Flush
Req        == ObjReq \cup Flush     \* aio_flush makes one request, named like the call

HDD_POOL == 0
SSD_POOL == 1
Pool     == {HDD_POOL, SSD_POOL}

VARIABLES
  owner,     \* the call an object request is part of
  call,      \* progress of each call's own thread
  pending,   \* AioCompletion::pending_count
  building,  \* AioCompletion::building
  ref,       \* AioCompletion::ref
  released,  \* AioCompletion::released
  rval,      \* AioCompletion::rval, as far as it is an error
  fired,     \* how often complete_cb was called; done is set with the first call
  state,     \* progress of each request
  res,       \* what RADOS answered to an object request
  listed,    \* listed[p]: aio_write_list of the pool
  waiting,   \* waiting[p]: aio_write_waiters of the pool, oldest first
  finisher,  \* the queue of the client's finisher thread
  drained,   \* history: the pools whose flush of a call has been answered
  before,    \* history: writes listed when a flush was called
  sync,      \* progress of a call of flush
  syncWait   \* the listed writes flush_aio_writes waits for

compVars == <<pending, building, ref, released, rval, fired>>
syncVars == <<sync, syncWait>>
vars == <<owner, call, compVars, state, res, listed, waiting, finisher, drained,
          before, syncVars>>

Owner(q) == IF q \in ObjReq THEN owner[q] ELSE q

Listed == listed[HDD_POOL] \cup listed[SSD_POOL]

Init ==
  /\ owner    \in [ObjReq -> Op]
  /\ \A o \in Op : \E a \in ObjReq : owner[a] = o
  /\ call     = [c \in Completion |-> "new"]
  /\ pending  = [c \in Completion |-> 0]
  /\ building = [c \in Completion |-> TRUE]
  /\ ref      = [c \in Completion |-> 1]
  /\ released = [c \in Completion |-> FALSE]
  /\ rval     = [c \in Completion |-> "ok"]
  /\ fired    = [c \in Completion |-> 0]
  /\ state    = [q \in Req |-> "new"]
  /\ res      = [a \in ObjReq |-> "none"]
  /\ listed   = [p \in Pool |-> {}]
  /\ waiting  = [p \in Pool |-> <<>>]
  /\ finisher = <<>>
  /\ drained  = [f \in Flush |-> {}]
  /\ before   = [c \in Flush \cup {"sync"} |-> {}]
  /\ sync     = "new"
  /\ syncWait = {}

-----------------------------------------------------------------------------
\* complete() under the lock: the user's callback, which may release.
CallBack(c, rel) ==
  /\ fired' = [fired EXCEPT ![c] = @ + 1]
  /\ rel => ~released[c]
  /\ released' = [released EXCEPT ![c] = @ \/ rel]

\* Mutated: looks at the list before the write is erased from it.
Wakes_BeforeErase(p, rest, n) ==
  /\ \A i \in 1 .. n : waiting[p][i].seen \cap listed[p] = {}
  /\ n < Len(waiting[p]) => waiting[p][n + 1].seen \cap listed[p] # {}

\* complete_aio_write wakes the waiters from the oldest on, up to the first one
\* that still waits for a listed write; here these are the first n.
Wakes(p, rest, n) ==
  /\ \A i \in 1 .. n : waiting[p][i].seen \cap rest = {}
  /\ n < Len(waiting[p]) => waiting[p][n + 1].seen \cap rest # {}

\* The answers these waiters are given.
Answers(p, n) == [i \in 1 .. n |-> <<waiting[p][i].flush, p>>]

-----------------------------------------------------------------------------
(* Mutated actions: bugs that the properties below have to refute.         *)

\* add_request takes no reference.
Send_NoReference(a, p) ==
  LET o == owner[a] IN
  /\ call[o] = "adding"
  /\ state[a] = "new"
  /\ pending' = [pending EXCEPT ![o] = @ + 1]
  /\ state' = [state EXCEPT ![a] = "out"]
  /\ listed' = [listed EXCEPT ![p] = @ \cup {a}]
  /\ UNCHANGED <<owner, call, building, ref, released, rval, fired, res, waiting,
                 finisher, drained, before, syncVars>>

\* The request that could not be sent is not counted.
SendFails_NotAdded(a) ==
  LET o == owner[a] IN
  /\ call[o] = "adding"
  /\ state[a] = "new"
  /\ state' = [state EXCEPT ![a] = "stuck"]
  /\ call' = [call EXCEPT ![o] = "failing"]
  /\ UNCHANGED <<owner, compVars, res, listed, waiting, finisher, drained,
                 before, syncVars>>

\* Completes the call although requests are still being added.
CompleteRequest_WhileBuilding(c, r) ==
  /\ rval' = [rval EXCEPT ![c] = IF r = "error" THEN "error" ELSE @]
  /\ pending' = [pending EXCEPT ![c] = @ - 1]
  /\ IF pending[c] = 1
     THEN \E rel \in BOOLEAN :
            /\ CallBack(c, rel)
            /\ ref' = [ref EXCEPT ![c] = @ - (IF rel THEN 2 ELSE 1)]
     ELSE /\ ref' = [ref EXCEPT ![c] = @ - 1]
          /\ UNCHANGED <<fired, released>>

\* The last result replaces an earlier error.
CompleteRequest_LastResult(c, r) ==
  /\ rval' = [rval EXCEPT ![c] = r]
  /\ pending' = [pending EXCEPT ![c] = @ - 1]
  /\ IF pending[c] = 1 /\ ~building[c]
     THEN \E rel \in BOOLEAN :
            /\ CallBack(c, rel)
            /\ ref' = [ref EXCEPT ![c] = @ - (IF rel THEN 2 ELSE 1)]
     ELSE /\ ref' = [ref EXCEPT ![c] = @ - 1]
          /\ UNCHANGED <<fired, released>>

\* A flush of a pool with nothing listed waits like any other.
FlushAsync_AlwaysWait(f, p) ==
  /\ waiting' = [waiting EXCEPT ![p] = Append(@, [flush |-> f, seen |-> listed[p]])]
  /\ UNCHANGED finisher

\* The wait for the HDD pool is skipped.
FlushNextPool_NoWait ==
  /\ sync = "hdd"
  /\ sync' = "ssd"
  /\ syncWait' = listed[SSD_POOL]
  /\ UNCHANGED <<owner, call, compVars, state, res, listed, waiting, finisher,
                 drained, before>>

\* The waiting flushes are answered before the callback is queued.
Commit_WakeFirst(a, p, r) ==
  /\ a \in listed[p]
  /\ state' = [state EXCEPT ![a] = "safe"]
  /\ res' = [res EXCEPT ![a] = r]
  /\ listed' = [listed EXCEPT ![p] = @ \ {a}]
  /\ \E n \in 0 .. Len(waiting[p]) :
       /\ Wakes(p, listed[p] \ {a}, n)
       /\ finisher' = Append(finisher \o Answers(p, n), <<a, p>>)
       /\ waiting' = [waiting EXCEPT ![p] = SubSeq(@, n + 1, Len(@))]
  /\ UNCHANGED <<owner, call, compVars, drained, before, syncVars>>

-----------------------------------------------------------------------------
(* A call of aio_write.                                                    *)

\* c->get(): the call holds a reference of its own, next to the user's.
StartWrite(o) ==
  /\ o \in Op
  /\ call[o] = "new"
  /\ call' = [call EXCEPT ![o] = "adding"]
  /\ ref' = [ref EXCEPT ![o] = @ + 1]
  /\ UNCHANGED <<owner, pending, building, released, rval, fired, state, res,
                 listed, waiting, finisher, drained, before, syncVars>>

\* add_request, and aio_operate lists the write in the pool of its extent.
Send(a, p) ==
  LET o == owner[a] IN
  /\ call[o] = "adding"
  /\ state[a] = "new"
  /\ pending' = [pending EXCEPT ![o] = @ + 1]
  /\ ref' = [ref EXCEPT ![o] = @ + 1]
  /\ state' = [state EXCEPT ![a] = "out"]
  /\ listed' = [listed EXCEPT ![p] = @ \cup {a}]
  /\ UNCHANGED <<owner, call, building, released, rval, fired, res, waiting,
                 finisher, drained, before, syncVars>>

\* aio_operate refuses (-EROFS) because the image was set to a snapshot after
\* the call looked: the request was added all the same, and the call gives up.
SendFails(a) ==
  LET o == owner[a] IN
  /\ call[o] = "adding"
  /\ state[a] = "new"
  /\ pending' = [pending EXCEPT ![o] = @ + 1]
  /\ ref' = [ref EXCEPT ![o] = @ + 1]
  /\ state' = [state EXCEPT ![a] = "stuck"]
  /\ call' = [call EXCEPT ![o] = "failing"]
  /\ UNCHANGED <<owner, building, released, rval, fired, res, listed, waiting,
                 finisher, drained, before, syncVars>>

\* Every object request of the call has been sent, or sending one has failed.
AllAdded(c) ==
  \/ call[c] = "adding" /\ c \in Op /\ \A a \in ObjReq : owner[a] = c => state[a] # "new"
  \/ call[c] = "flushed"
  \/ call[c] = "failing"

\* finish_adding_requests: completes the call here if nothing is pending.
FinishAddingRequests(c) ==
  /\ AllAdded(c)
  /\ call' = [call EXCEPT ![c] = IF @ = "failing" THEN "refusing" ELSE "returning"]
  /\ building' = [building EXCEPT ![c] = FALSE]
  /\ IF pending[c] = 0
     THEN \E rel \in BOOLEAN :
            /\ CallBack(c, rel)
            /\ ref' = [ref EXCEPT ![c] = @ - (IF rel THEN 1 ELSE 0)]
     ELSE UNCHANGED <<fired, released, ref>>
  /\ UNCHANGED <<owner, pending, rval, state, res, listed, waiting, finisher,
                 drained, before, syncVars>>

\* c->put(), and the call returns.
Return(c) ==
  /\ call[c] \in {"returning", "refusing"}
  /\ call' = [call EXCEPT ![c] = IF @ = "refusing" THEN "refused" ELSE "returned"]
  /\ ref' = [ref EXCEPT ![c] = @ - 1]
  /\ UNCHANGED <<owner, pending, building, released, rval, fired, state, res,
                 listed, waiting, finisher, drained, before, syncVars>>

\* The user releases the completion after the call returned.
Release(c) ==
  /\ call[c] \in {"returned", "refused"}
  /\ ~released[c]
  /\ released' = [released EXCEPT ![c] = TRUE]
  /\ ref' = [ref EXCEPT ![c] = @ - 1]
  /\ UNCHANGED <<owner, call, pending, building, rval, fired, state, res,
                 listed, waiting, finisher, drained, before, syncVars>>

-----------------------------------------------------------------------------
(* A call of aio_flush.                                                    *)

StartAioFlush(f) ==
  /\ f \in Flush
  /\ call[f] = "new"
  /\ call' = [call EXCEPT ![f] = "adding"]
  /\ pending' = [pending EXCEPT ![f] = @ + 1]
  /\ ref' = [ref EXCEPT ![f] = @ + 2]
  /\ state' = [state EXCEPT ![f] = "out"]
  /\ before' = [before EXCEPT ![f] = Listed]
  /\ UNCHANGED <<owner, building, released, rval, fired, res, listed, waiting,
                 finisher, drained, syncVars>>

\* flush_aio_writes_async: with nothing listed the answer is queued at once;
\* otherwise the flush waits for the writes listed so far.
FlushAsync(f, p) ==
  IF listed[p] = {}
  THEN /\ finisher' = Append(finisher, <<f, p>>)
       /\ UNCHANGED waiting
  ELSE /\ waiting' = [waiting EXCEPT ![p] = Append(@, [flush |-> f, seen |-> listed[p]])]
       /\ UNCHANGED finisher

\* The HDD pool first, then the SSD pool, with the same rados completion.
FlushPool(f, p) ==
  /\ f \in Flush
  /\ \/ call[f] = "adding" /\ p = HDD_POOL /\ call' = [call EXCEPT ![f] = "half"]
     \/ call[f] = "half" /\ p = SSD_POOL /\ call' = [call EXCEPT ![f] = "flushed"]
  /\ FlushAsync(f, p)
  /\ UNCHANGED <<owner, compVars, state, res, listed, drained, before, syncVars>>

-----------------------------------------------------------------------------
(* A call of flush: _flush waits for one pool after the other.             *)

StartFlush ==
  /\ sync = "new"
  /\ sync' = "hdd"
  /\ syncWait' = listed[HDD_POOL]
  /\ before' = [before EXCEPT !["sync"] = Listed]
  /\ UNCHANGED <<owner, call, compVars, state, res, listed, waiting, finisher, drained>>

FlushNextPool ==
  /\ sync = "hdd"
  /\ syncWait \cap listed[HDD_POOL] = {}
  /\ sync' = "ssd"
  /\ syncWait' = listed[SSD_POOL]
  /\ UNCHANGED <<owner, call, compVars, state, res, listed, waiting, finisher,
                 drained, before>>

FlushReturns ==
  /\ sync = "ssd"
  /\ syncWait \cap listed[SSD_POOL] = {}
  /\ sync' = "done"
  /\ syncWait' = {}
  /\ UNCHANGED <<owner, call, compVars, state, res, listed, waiting, finisher,
                 drained, before>>

-----------------------------------------------------------------------------
(* RADOS and the finisher.                                                 *)

\* C_aio_Safe::finish: the callback is queued, then complete_aio_write.
Commit(a, p, r) ==
  /\ a \in listed[p]
  /\ state' = [state EXCEPT ![a] = "safe"]
  /\ res' = [res EXCEPT ![a] = r]
  /\ listed' = [listed EXCEPT ![p] = @ \ {a}]
  /\ \E n \in 0 .. Len(waiting[p]) :
       /\ Wakes(p, listed[p] \ {a}, n)
       /\ finisher' = Append(finisher, <<a, p>>) \o Answers(p, n)
       /\ waiting' = [waiting EXCEPT ![p] = SubSeq(@, n + 1, Len(@))]
  /\ UNCHANGED <<owner, call, compVars, drained, before, syncVars>>

\* AioCompletion::complete_request, with the request's reference given back.
\* -EEXIST counts as "ok"; the first error stays.
CompleteRequest(c, r) ==
  /\ rval' = [rval EXCEPT ![c] = IF r = "error" THEN "error" ELSE @]
  /\ pending' = [pending EXCEPT ![c] = @ - 1]
  /\ IF pending[c] = 1 /\ ~building[c]
     THEN \E rel \in BOOLEAN :
            /\ CallBack(c, rel)
            /\ ref' = [ref EXCEPT ![c] = @ - (IF rel THEN 2 ELSE 1)]
     ELSE /\ ref' = [ref EXCEPT ![c] = @ - 1]
          /\ UNCHANGED <<fired, released>>

\* The finisher runs the callback of an object request.
FinishWrite ==
  /\ finisher # <<>>
  /\ LET a == Head(finisher)[1] IN
       /\ a \in ObjReq
       /\ state' = [state EXCEPT ![a] = "done"]
       /\ CompleteRequest(owner[a], res[a])
  /\ finisher' = Tail(finisher)
  /\ UNCHANGED <<owner, call, building, res, listed, waiting, drained, before, syncVars>>

\* The finisher runs the callback of a pool's flush: C_AioCompleteAndSafe
\* clears the callback, so that the second pool's answer finds none.
FinishFlush ==
  /\ finisher # <<>>
  /\ LET f == Head(finisher)[1] IN
       /\ f \in Flush
       /\ drained' = [drained EXCEPT ![f] = @ \cup {Head(finisher)[2]}]
       /\ IF state[f] = "out"
          THEN /\ state' = [state EXCEPT ![f] = "done"]
               /\ CompleteRequest(f, "ok")
          ELSE UNCHANGED <<state, pending, ref, released, rval, fired>>
  /\ finisher' = Tail(finisher)
  /\ UNCHANGED <<owner, call, building, res, listed, waiting, before, syncVars>>

-----------------------------------------------------------------------------
CallStep(c) ==
  \/ StartWrite(c)
  \/ StartAioFlush(c)
  \/ FinishAddingRequests(c)
  \/ Return(c)

SendStep(o) == \E a \in ObjReq : owner[a] = o /\ (SendFails(a) \/ \E p \in Pool : Send(a, p))

Finisher == FinishWrite \/ FinishFlush

Next ==
  \/ \E c \in Completion : CallStep(c) \/ Release(c)
  \/ \E o \in Op : SendStep(o)
  \/ \E f \in Flush, p \in Pool : FlushPool(f, p)
  \/ \E a \in ObjReq, p \in Pool, r \in {"ok", "error"} : Commit(a, p, r)
  \/ Finisher
  \/ StartFlush
  \/ FlushNextPool
  \/ FlushReturns

Spec == Init /\ [][Next]_vars

\* The threads of the calls run on, RADOS answers, and the finisher works.
Fairness ==
  /\ \A c \in Completion : WF_vars(FinishAddingRequests(c) \/ Return(c))
  /\ \A o \in Op : WF_vars(SendStep(o))
  /\ \A f \in Flush : WF_vars(\E p \in Pool : FlushPool(f, p))
  /\ \A a \in ObjReq : WF_vars(\E p \in Pool, r \in {"ok", "error"} : Commit(a, p, r))
  /\ WF_vars(Finisher)

FairSpec == Spec /\ Fairness

-----------------------------------------------------------------------------
Entry == Req \X Pool

TypeOK ==
  /\ owner    \in [ObjReq -> Op]
  /\ call     \in [Completion -> {"new", "adding", "half", "flushed", "failing",
                                  "returning", "refusing", "returned", "refused"}]
  /\ pending  \in [Completion -> Int]
  /\ building \in [Completion -> BOOLEAN]
  /\ ref      \in [Completion -> Int]
  /\ released \in [Completion -> BOOLEAN]
  /\ rval     \in [Completion -> {"ok", "error"}]
  /\ fired    \in [Completion -> Nat]
  /\ state    \in [Req -> {"new", "out", "safe", "done", "stuck"}]
  /\ res      \in [ObjReq -> {"none", "ok", "error"}]
  /\ listed   \in [Pool -> SUBSET ObjReq]
  /\ waiting  \in [Pool -> Seq([flush : Flush, seen : SUBSET ObjReq])]
  /\ finisher \in Seq(Entry)
  /\ drained  \in [Flush -> SUBSET Pool]
  /\ before   \in [Flush \cup {"sync"} -> SUBSET ObjReq]
  /\ sync     \in {"new", "hdd", "ssd", "done"}
  /\ syncWait \in SUBSET ObjReq

\* The user of aio_write is called back once, and not before all the object
\* requests of the call are on disk: neither a request that completes while
\* others are still being added nor one that fails brings it forward.  He is told
\* of an error exactly if one of them had one, in whatever order they completed;
\* and a call that returned an error itself stays silent, although the requests
\* it sent before the one that was refused complete.
AnsweredOnce ==
  \A o \in Op :
    /\ fired[o] <= 1
    /\ fired[o] = 1 =>
         /\ \A a \in ObjReq : owner[a] = o => state[a] = "done"
         /\ rval[o] = "error" <=> \E a \in ObjReq : owner[a] = o /\ res[a] = "error"
         /\ call[o] \notin {"failing", "refusing", "refused"}

\* The completion is deleted when, and not before, the user has released it and
\* neither the call's thread nor one of its requests still has to touch it,
\* wherever the user releases it and in whatever order the rest happens.
FreedWhenUnused ==
  \A c \in Completion : ref[c] = 0 <=>
    /\ released[c]
    /\ call[c] \in {"new", "returned", "refused"}
    /\ \A q \in Req : Owner(q) = c => state[q] \in {"new", "done"}

\* flush returns only when every write listed when it was called, in either
\* pool, is on disk.
FlushCovers == sync = "done" => before["sync"] \cap Listed = {}

\* Once both pools have answered an aio_flush, every write listed when it was
\* called is on disk and has called back.
DrainedMeansCalledBack ==
  \A f \in Flush : drained[f] = Pool => \A a \in before[f] : state[a] = "done"

\* The flush of the pool p on behalf of f has been called, and the pool has
\* answered f or its answer is queued.
Asked(f, p) == call[f] \notin (IF p = HDD_POOL THEN {"new", "adding"}
                                               ELSE {"new", "adding", "half"})
Answered(f, p) ==
  \/ p \in drained[f]
  \/ \E i \in 1 .. Len(finisher) : finisher[i] = <<f, p>>

\* A pool that was asked for a flush has answered it, or has it among its
\* waiters for a write that is still listed and whose commit will look at it
\* again: no flush comes too late for the last commit, and none is left behind
\* when a commit wakes only the oldest waiters.
NoFlushForgotten ==
  \A f \in Flush, p \in Pool : Asked(f, p) =>
    \/ Answered(f, p)
    \/ \E i \in 1 .. Len(waiting[p]) :
         waiting[p][i].flush = f /\ waiting[p][i].seen \cap listed[p] # {}

\* Every call that does not return an error calls back.
CallsComplete ==
  \A c \in Completion : call[c] = "adding" ~> fired[c] = 1 \/ call[c] = "refused"

-----------------------------------------------------------------------------
(* The inductive invariant behind the safety properties.                   *)

\* The requests of c that were added and have not completed.
Pend(c) == {q \in Req : Owner(q) = c /\ state[q] \in {"out", "safe", "stuck"}}

Building == {"new", "adding", "half", "flushed", "failing"}
Refused  == {"failing", "refusing", "refused"}
Over     == {"new", "returned", "refused"}

\* The two counters count: what is pending, and who holds a reference.
CountInv ==
  \A c \in Completion :
    /\ pending[c] = Cardinality(Pend(c))
    /\ ref[c] = pending[c] + (IF call[c] \in Over THEN 0 ELSE 1)
                            + (IF released[c] THEN 0 ELSE 1)

\* The call was called back exactly if no more requests are added and none is
\* pending; a refused call has one that stays pending.
CallInv ==
  /\ \A c \in Completion :
       /\ building[c] <=> call[c] \in Building
       /\ fired[c] = IF ~building[c] /\ pending[c] = 0 THEN 1 ELSE 0
       /\ call[c] \in Refused => \E a \in ObjReq : owner[a] = c /\ state[a] = "stuck"
  /\ \A a \in ObjReq : state[a] = "new" => call[owner[a]] \in Building \cup Refused
  /\ \A f \in Flush : state[f] = "new" <=> call[f] = "new"
  /\ \A o \in Op : call[o] \notin {"half", "flushed"}

\* A write is listed in one pool while it is not on disk, and after that once
\* in the finisher's queue until it has called back.
ListInv ==
  /\ \A p \in Pool : \A a \in listed[p] : state[a] = "out"
  /\ listed[HDD_POOL] \cap listed[SSD_POOL] = {}
  /\ \A i \in 1 .. Len(finisher) :
       finisher[i][1] \in ObjReq => state[finisher[i][1]] = "safe"
  /\ \A i, j \in 1 .. Len(finisher) :
       finisher[i][1] = finisher[j][1] /\ finisher[i][1] \in ObjReq => i = j

ResultInv ==
  \A c \in Completion :
    rval[c] = "error" <=>
      \E a \in ObjReq : owner[a] = c /\ state[a] = "done" /\ res[a] = "error"

\* Writes listed when flush was called are listed only where it still waits.
SyncInv ==
  /\ \A a \in before["sync"] : state[a] # "new"
  /\ sync = "hdd" =>
       before["sync"] \cap listed[HDD_POOL] \subseteq syncWait
  /\ sync = "ssd" =>
       /\ before["sync"] \cap listed[HDD_POOL] = {}
       /\ before["sync"] \cap listed[SSD_POOL] \subseteq syncWait
  /\ sync = "done" => before["sync"] \cap Listed = {}

\* Every write on its way is listed or in the finisher's queue.
ReqInv ==
  \A a \in ObjReq :
    /\ state[a] = "out" => a \in Listed
    /\ state[a] = "safe" => \E i \in 1 .. Len(finisher) : finisher[i][1] = a

\* What the flush f saw listed has been sent and is not refused; before the
\* call, no pool knows of f.
StartInv(f) ==
  /\ \A a \in before[f] : state[a] \in {"out", "safe", "done"}
  /\ call[f] = "new" =>
       \A p \in Pool : /\ ~Answered(f, p)
                      /\ \A i \in 1 .. Len(waiting[p]) : waiting[p][i].flush # f

\* A pool that has answered f lists none of these writes, and one that has not
\* waits for all of them.
WaitInv(f) ==
  \A p \in Pool :
    /\ Answered(f, p) => before[f] \cap listed[p] = {}
    /\ \A i \in 1 .. Len(waiting[p]) :
         waiting[p][i].flush = f => before[f] \cap listed[p] \subseteq waiting[p][i].seen

\* The callbacks of these writes are queued before the answer of their pool.
OrderInv(f) ==
  \A i \in 1 .. Len(finisher) : finisher[i][1] \in before[f] =>
    /\ finisher[i][2] \notin drained[f]
    /\ \A j \in 1 .. Len(finisher) : finisher[j] = <<f, finisher[i][2]>> => i < j

DrainInv == \A f \in Flush : StartInv(f) /\ WaitInv(f) /\ OrderInv(f)

\* Whoever waits, waits for a write that is still listed; and a waiter waits
\* for all that an older one still waits for, so that those woken come first.
WakeInv ==
  \A p \in Pool :
    /\ \A i \in 1 .. Len(waiting[p]) :
         /\ waiting[p][i].seen \cap listed[p] # {}
         /\ \A a \in waiting[p][i].seen : state[a] # "new"
    /\ \A i, j \in 1 .. Len(waiting[p]) : i < j =>
         waiting[p][i].seen \cap listed[p] \subseteq waiting[p][j].seen

\* A pool that was asked has answered or keeps the flush among its waiters.
AskedInv ==
  \A f \in Flush, p \in Pool : Asked(f, p) =>
    Answered(f, p) \/ \E i \in 1 .. Len(waiting[p]) : waiting[p][i].flush = f

IInv == /\ TypeOK /\ CountInv /\ CallInv /\ ListInv /\ ResultInv /\ SyncInv
        /\ ReqInv /\ DrainInv /\ WakeInv /\ AskedInv

-----------------------------------------------------------------------------
(* What librbd.h says, which the code does not do.                         *)

\* "Get a callback when the currently pending writes are on disk."
AioFlushMeansOnDisk ==
  \A f \in Flush : fired[f] = 1 => before[f] \cap Listed = {}
=============================================================================

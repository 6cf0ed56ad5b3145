---------------------------- MODULE LayeredObject ----------------------------
(***************************************************************************)
(* One object of a cloned image.  Until the object exists in the clone its *)
(* data is that of the parent image:                                       *)
(*                                                                         *)
(*  - AioRead asks the parent when the object is absent.                   *)
(*  - AioWrite, AioZero and AioTruncate are guarded by assert_exists; when *)
(*    the object is absent they read the parent and send a copyup, which   *)
(*    creates the object from the parent's data, unless somebody else has, *)
(*    and writes.                                                          *)
(*  - AioRemove (a discard of the whole object) is not guarded.            *)
(*  - flatten sends one guarded write of no data, and then takes the       *)
(*    parent out of the header; another client may flatten as well.        *)
(*                                                                         *)
(* Meanwhile the migrater moves the object between the pools.  Reads and   *)
(* writes ask the extent map for the pool and wait while it is marked, but *)
(* one that has asked may be sent when the object has been copied already. *)
(* Discards, flatten and copyups never ask, and go to DEFAULT_POOL.        *)
(*                                                                         *)
(* RADOS serves the requests of this client to one object in the order in  *)
(* which they were sent, the three of the migrater among them: each is one *)
(* step here, at its turn, and the migrater may stop for ever before it.   *)
(* Nobody looks at the map between the copy's read and the update of the   *)
(* map, so home stands for both: the pool in the map, or the migrater's    *)
(* buffer while the data is on its way.  The finisher thread handles the   *)
(* replies of RADOS one after the other.                                   *)
(*                                                                         *)
(* An image that is set to a snapshot, and takes no writes, is left out.   *)
(***************************************************************************)
EXTENDS Integers, Sequences, FiniteSets

CONSTANTS
  Parent,    \* the data of the parent image, which is not zero
  Write,     \* aio_write
  Discard,   \* aio_discard of a part of the object
  Remove,    \* aio_discard of the whole object
  Read,      \* aio_read
  Flatten,   \* calls of flatten
  MaxMoves,  \* bound on the moves of the object
  MaxRequests  \* bound on the requests that are made

ASSUME RequestsAreDisjoint ==
  /\ Write \cap Discard = {} /\ Remove \cap (Write \cup Discard) = {}
  /\ (Write \cup Discard \cup Remove) \cap (Read \cup Flatten) = {}
  /\ Read \cap Flatten = {}
  /\ Parent \notin Write \cup Discard

ASSUME MovesAreBounded == MaxMoves \in Nat

ASSUME RequestsAreBounded == MaxRequests \in Nat

Mutation == Write \cup Discard
Guarded  == Mutation \cup Flatten
Polled   == Write \cup Read          \* those that call get_pool
Request  == Guarded \cup Remove \cup Read
Data     == Mutation \cup {Parent}

HDD_POOL     == 0
SSD_POOL     == 1
DEFAULT_POOL == HDD_POOL
Pool         == {HDD_POOL, SSD_POOL}
BUFFER       == 2                    \* buf_map: what the migrater has read
Place        == Pool \cup {BUFFER}

LIBRBD_AIO_WRITE_GUARD  == "guard"
LIBRBD_AIO_WRITE_COPYUP == "copyup"
LIBRBD_AIO_WRITE_FLAT   == "flat"

VARIABLES
  exists,    \* exists[p]: place p has the object
  content,   \* content[p]: the data it holds, and the ranges discarded there
  home,      \* where the data of the object is
  source,    \* the pool a move takes it from
  removing,  \* the map is updated, the source object is not removed yet
  moves,     \* number of moves so far
  header,    \* the header of the image names the parent
  parent,    \* ImageCtx: the parent is open and overlaps the object
  pc,        \* progress of each request
  pool,      \* pool[q]: where q is sent, DEFAULT_POOL unless get_pool says otherwise
  state,     \* AbstractWrite::m_state; of a Remove: GUARD if it overlaps the parent
  result,    \* what a read returned
  osd,       \* osd[p]: requests on their way to the object, in order
  finisher,  \* replies the finisher thread has still to handle
  must,      \* history: the data a read has to return
  wiped,     \* history: data discarded with the whole object, and discards of a
             \* part that found neither the object nor a parent
  astray,    \* history: writes and discards that were applied to another object
             \* than the one the data is in
  hidden,    \* history: the object was moved before it existed
  orphaned,  \* history: reads sent before the parent was closed, and requests
             \* reading the parent when it was
  stray,     \* history: reads that had their pool when the object left it
  faulted    \* history: a copy failed

objVars  == <<exists, content>>
moveVars == <<home, source, removing, moves>>
reqVars  == <<pc, pool, state, result>>
histVars == <<must, wiped, astray, hidden, orphaned, stray, faulted>>
vars     == <<objVars, moveVars, header, parent, reqVars, osd, finisher, histVars>>

OtherPool(p) == IF p = HDD_POOL THEN SSD_POOL ELSE HDD_POOL

\* What the user sees of the object.
View == IF exists[home] THEN content[home] ELSE IF parent THEN {Parent} ELSE {}

Init ==
  /\ exists   = [p \in Place |-> p = BUFFER]
  /\ content  = [p \in Place |-> {}]
  /\ home     = HDD_POOL
  /\ source   = SSD_POOL
  /\ removing = FALSE
  /\ moves    = 0
  /\ header   = TRUE
  /\ parent   = TRUE
  /\ pc       = [q \in Request |-> "new"]
  /\ pool     = [q \in Request |-> DEFAULT_POOL]
  /\ state    = [q \in Request \ Read |-> LIBRBD_AIO_WRITE_FLAT]
  /\ result   = [r \in Read |-> {}]
  /\ osd      = [p \in Pool |-> <<>>]
  /\ finisher = <<>>
  /\ must     = [r \in Read |-> {}]
  /\ wiped    = {}
  /\ astray   = {}
  /\ hidden   = FALSE
  /\ orphaned = {}
  /\ stray    = {}
  /\ faulted  = FALSE

Submit(p, q, op) == osd' = [osd EXCEPT ![p] = Append(@, [req |-> q, op |-> op])]

\* What RADOS answers to the oldest request on its way to the object.
Reply(op, p) ==
  IF op \in {"guarded", "remove", "read"} /\ ~exists[p] THEN "enoent" ELSE "ok"

\* The finisher thread takes the oldest reply.
Replied(q, r) ==
  /\ finisher # <<>>
  /\ Head(finisher).req = q
  /\ Head(finisher).res = r
  /\ finisher' = Tail(finisher)

-----------------------------------------------------------------------------
(* Mutated actions: bugs that the properties below have to refute.         *)

\* The guard is left out.
Begin_NoGuard(q) ==
  /\ pc[q] = "new"
  /\ Cardinality({r \in Request : pc[r] # "new"}) < MaxRequests
  /\ q \in Flatten => parent
  /\ pc' = [pc EXCEPT ![q] = "begun"]
  /\ must' = IF q \in Read THEN [must EXCEPT ![q] = View] ELSE must
  /\ UNCHANGED <<objVars, moveVars, header, parent, pool, state, result, osd, finisher,
                 wiped, astray, hidden, orphaned, stray, faulted>>

\* The copyup carries the parent's data but not the write.
Holds_NoWrite(op, q, p) ==
  CASE op \in {"truncate", "remove"} -> {}
    [] op = "read" \/ Reply(op, p) = "enoent" -> content[p]
    [] op = "zero" /\ ~exists[p] -> content[p]
    [] op = "copyup" -> IF exists[p] THEN content[p] ELSE {Parent}
    [] OTHER -> content[p] \cup ({q} \cap Mutation)

\* The copyup does not look whether the object exists.
Holds_NoCheck(op, q, p) ==
  CASE op \in {"truncate", "remove"} -> {}
    [] op = "read" \/ Reply(op, p) = "enoent" -> content[p]
    [] op = "zero" /\ ~exists[p] -> content[p]
    [] op = "copyup" -> {Parent} \cup ({q} \cap Mutation)
    [] OTHER -> content[p] \cup ({q} \cap Mutation)

\* A read that misses the object may end without asking the parent.
Finish_ReadMiss(q, r) ==
  /\ Replied(q, r)
  /\ r = "enoent" => q \in Remove \cup Read
  /\ pc' = [pc EXCEPT ![q] = IF r = "error" THEN "failed" ELSE "done"]
  /\ UNCHANGED <<objVars, moveVars, header, parent, pool, state, result, osd, histVars>>

\* The copyup is not sent.
ParentAnswers_NoCopyup(q) ==
  /\ pc[q] = "parent"
  /\ IF q \in Read
     THEN /\ result' = [result EXCEPT ![q] = {Parent}]
          /\ pc' = [pc EXCEPT ![q] = "done"]
          /\ UNCHANGED state
     ELSE /\ pc' = [pc EXCEPT ![q] = "copyup"]
          /\ state' = [state EXCEPT ![q] = LIBRBD_AIO_WRITE_GUARD]
          /\ UNCHANGED result
  /\ UNCHANGED <<objVars, moveVars, header, parent, pool, osd, finisher, histVars>>

\* The guarded write is sent again in place of the copyup.
ParentAnswers_GuardAgain(q) ==
  /\ pc[q] = "parent"
  /\ IF q \in Read
     THEN /\ result' = [result EXCEPT ![q] = {Parent}]
          /\ pc' = [pc EXCEPT ![q] = "done"]
          /\ UNCHANGED <<state, osd>>
     ELSE /\ pc' = [pc EXCEPT ![q] = "copyup"]
          /\ state' = [state EXCEPT ![q] = LIBRBD_AIO_WRITE_GUARD]
          /\ Submit(DEFAULT_POOL, q, "guarded")
          /\ UNCHANGED result
  /\ UNCHANGED <<objVars, moveVars, header, parent, pool, finisher, histVars>>

-----------------------------------------------------------------------------
(* Requests.                                                               *)

\* aio_read, aio_write, aio_discard and flatten up to get_pool: the overlap with
\* the parent is looked up once, and decides the guard (guard_write) or whether
\* AioRemove truncates the object or removes it.
Begin(q) ==
  /\ pc[q] = "new"
  /\ Cardinality({r \in Request : pc[r] # "new"}) < MaxRequests
  /\ q \in Flatten => parent
  /\ pc' = [pc EXCEPT ![q] = "begun"]
  /\ state' = IF q \in Read THEN state
              ELSE [state EXCEPT ![q] = IF parent THEN LIBRBD_AIO_WRITE_GUARD
                                        ELSE LIBRBD_AIO_WRITE_FLAT]
  /\ must' = IF q \in Read THEN [must EXCEPT ![q] = View] ELSE must
  /\ UNCHANGED <<objVars, moveVars, header, parent, pool, result, osd, finisher,
                 wiped, astray, hidden, orphaned, stray, faulted>>

\* get_pool: a read or a write waits while the extent is marked.
GetPool(q) ==
  /\ q \in Polled
  /\ pc[q] = "begun"
  /\ home \in Pool
  /\ pc' = [pc EXCEPT ![q] = "chosen"]
  /\ pool' = [pool EXCEPT ![q] = home]
  /\ UNCHANGED <<objVars, moveVars, header, parent, state, result, osd, finisher, histVars>>

\* The operation without a guard: zeroing a range creates no object.
Plain(q) == IF q \in Discard THEN "zero" ELSE "write"

\* The operation the request was constructed with.
Built(q) ==
  IF q \in Read THEN "read"
  ELSE IF q \in Remove
  THEN IF state[q] = LIBRBD_AIO_WRITE_GUARD THEN "truncate" ELSE "remove"
  ELSE IF state[q] = LIBRBD_AIO_WRITE_GUARD THEN "guarded" ELSE Plain(q)

Send(q) ==
  /\ pc[q] = IF q \in Polled THEN "chosen" ELSE "begun"
  /\ pc' = [pc EXCEPT ![q] = "sent"]
  /\ Submit(pool[q], q, Built(q))
  /\ pool' = [pool EXCEPT ![q] = DEFAULT_POOL]
  /\ UNCHANGED <<objVars, moveVars, header, parent, state, result, finisher, histVars>>

-----------------------------------------------------------------------------
(* The object in pool p: RADOS applies what is sent to it in order.        *)

\* cls_rbd's copyup does nothing if the object exists; a truncate and zeroing a
\* range do nothing if it does not.
Holds(op, q, p) ==
  CASE op \in {"truncate", "remove"} -> {}
    [] op = "read" \/ Reply(op, p) = "enoent" -> content[p]
    [] op = "zero" /\ ~exists[p] -> content[p]
    [] op = "copyup" /\ ~exists[p] -> {Parent} \cup ({q} \cap Mutation)
    [] OTHER -> content[p] \cup ({q} \cap Mutation)

Remains(op, p) ==
  CASE op \in {"write", "copyup"} -> TRUE
    [] op = "remove" -> FALSE
    [] OTHER -> exists[p]

Serve(p) ==
  LET q  == Head(osd[p]).req
      op == Head(osd[p]).op
      wipes == op \in {"truncate", "remove"} /\ exists[p] /\ p = home
      vain  == op = "zero" /\ ~exists[p] /\ p = home
  IN
  /\ osd[p] # <<>>
  /\ content' = [content EXCEPT ![p] = Holds(op, q, p)]
  /\ exists' = [exists EXCEPT ![p] = Remains(op, p)]
  /\ result' = IF op = "read" THEN [result EXCEPT ![q] = content[p]] ELSE result
  /\ osd' = [osd EXCEPT ![p] = Tail(@)]
  /\ finisher' = Append(finisher, [req |-> q, res |-> Reply(op, p)])
  /\ wiped' = IF wipes THEN wiped \cup content[p]
              ELSE IF vain THEN wiped \cup ({q} \cap Mutation) ELSE wiped
  /\ must' = IF wipes THEN [r \in Read |-> {}] ELSE must
  /\ astray' = IF q \in Mutation /\ p # home /\ Reply(op, p) = "ok" THEN astray \cup {q}
               ELSE astray
  /\ UNCHANGED <<moveVars, header, parent, pc, pool, state, hidden, orphaned, stray, faulted>>

\* RADOS refuses the request.
Refuse(p) ==
  /\ osd[p] # <<>>
  /\ osd' = [osd EXCEPT ![p] = Tail(@)]
  /\ finisher' = Append(finisher, [req |-> Head(osd[p]).req, res |-> "error"])
  /\ UNCHANGED <<objVars, moveVars, header, parent, reqVars, histVars>>

-----------------------------------------------------------------------------
(* should_complete, in the finisher thread.                                *)

\* The object is absent and the image still has a parent: read_from_parent.
Missed(q) ==
  /\ Replied(q, "enoent")
  /\ parent
  /\ q \in Read \/ (q \in Guarded /\ state[q] = LIBRBD_AIO_WRITE_GUARD)
  /\ pc' = [pc EXCEPT ![q] = "parent"]
  /\ state' = IF q \in Read THEN state
              ELSE [state EXCEPT ![q] = LIBRBD_AIO_WRITE_COPYUP]
  /\ UNCHANGED <<objVars, moveVars, header, parent, pool, result, osd, histVars>>

\* "Parent may have disappeared": the write is sent again without its guard.
NullCopyup(q) ==
  /\ Replied(q, "enoent")
  /\ ~parent
  /\ q \in Guarded
  /\ state[q] = LIBRBD_AIO_WRITE_GUARD
  /\ pc' = [pc EXCEPT ![q] = "copyup"]
  /\ state' = [state EXCEPT ![q] = LIBRBD_AIO_WRITE_FLAT]
  /\ Submit(DEFAULT_POOL, q, Plain(q))
  /\ UNCHANGED <<objVars, moveVars, header, parent, pool, result, histVars>>

\* Anything else ends the request; an absent object reads as zeros.
Finish(q, r) ==
  /\ Replied(q, r)
  /\ r = "enoent" => q \in Remove \/ (q \in Read /\ ~parent)
  /\ pc' = [pc EXCEPT ![q] = IF r = "error" THEN "failed" ELSE "done"]
  /\ UNCHANGED <<objVars, moveVars, header, parent, pool, state, result, osd, histVars>>

\* The parent's data is there: a read has it, a write sends it with its copyup
\* to DEFAULT_POOL, through md_ctx.
ParentAnswers(q) ==
  /\ pc[q] = "parent"
  /\ IF q \in Read
     THEN /\ result' = [result EXCEPT ![q] = {Parent}]
          /\ pc' = [pc EXCEPT ![q] = "done"]
          /\ UNCHANGED <<state, osd>>
     ELSE /\ pc' = [pc EXCEPT ![q] = "copyup"]
          /\ state' = [state EXCEPT ![q] = LIBRBD_AIO_WRITE_GUARD]
          /\ Submit(DEFAULT_POOL, q, "copyup")
          /\ UNCHANGED result
  /\ UNCHANGED <<objVars, moveVars, header, parent, pool, finisher, histVars>>

ParentFails(q) ==
  /\ pc[q] = "parent"
  /\ pc' = [pc EXCEPT ![q] = "failed"]
  /\ UNCHANGED <<objVars, moveVars, header, parent, pool, state, result, osd,
                 finisher, histVars>>

\* aio_read of the parent returns an error and will not call back; nobody looks
\* at what it returns.
ParentRefuses(q) ==
  /\ pc[q] = "parent"
  /\ pc' = [pc EXCEPT ![q] = "hung"]
  /\ UNCHANGED <<objVars, moveVars, header, parent, pool, state, result, osd,
                 finisher, histVars>>

-----------------------------------------------------------------------------
(* The parent goes away.                                                   *)

\* flatten: its writes are done, the parent is removed from the header.
RemoveParent ==
  /\ header
  /\ \E f \in Flatten : pc[f] = "done"
  /\ header' = FALSE
  /\ UNCHANGED <<objVars, moveVars, parent, reqVars, osd, finisher, histVars>>

\* Another client flattens: it looks for the object in DEFAULT_POOL.
FlattenElsewhere ==
  /\ header
  /\ header' = FALSE
  /\ exists' = [exists EXCEPT ![DEFAULT_POOL] = TRUE]
  /\ content' = IF exists[DEFAULT_POOL] THEN content
                ELSE [content EXCEPT ![DEFAULT_POOL] = {Parent}]
  /\ UNCHANGED <<moveVars, parent, reqVars, osd, finisher, histVars>>

\* ictx_refresh finds no parent in the header, and refresh_parent closes it.
RefreshParent ==
  /\ parent
  /\ ~header
  /\ parent' = FALSE
  /\ orphaned' = orphaned \cup {r \in Read : pc[r] = "sent"}
                          \cup {q \in Request : pc[q] = "parent"}
  /\ UNCHANGED <<objVars, moveVars, header, reqVars, osd, finisher, must,
                 wiped, astray, hidden, stray, faulted>>

-----------------------------------------------------------------------------
(* do_concurrent_migrate.                                                  *)

\* The object is read in the pool it is in.  One that does not exist is read as
\* empty, and so is one whose read fails: the error is printed and the migration
\* goes on.  Bound: no further move after a copy that failed.
CopyRead(ok) ==
  /\ moves < MaxMoves
  /\ ~faulted
  /\ home \in Pool
  /\ ~removing
  /\ osd[home] = <<>>
  /\ content' = [content EXCEPT ![BUFFER] = IF ok THEN content[home] ELSE {}]
  /\ home' = BUFFER
  /\ source' = home
  /\ moves' = moves + 1
  /\ hidden' = (hidden \/ (parent /\ ~exists[home]))
  /\ must' = IF parent /\ ~exists[home] THEN [r \in Read |-> {}] ELSE must
  /\ stray' = stray \cup {r \in Read : pc[r] = "chosen"}
  /\ faulted' = ~ok
  /\ UNCHANGED <<exists, removing, header, parent, reqVars, osd, finisher, wiped,
                 astray, orphaned>>

\* write_full in the other pool, and the update of the extent map, which comes
\* also after a write that failed and left the object there as it was.
CopyWrite(ok) ==
  LET to == OtherPool(source) IN
  /\ home = BUFFER
  /\ osd[to] = <<>>
  /\ IF ok THEN /\ exists' = [exists EXCEPT ![to] = TRUE]
                /\ content' = [content EXCEPT ![to] = content[BUFFER], ![BUFFER] = {}]
           ELSE UNCHANGED objVars
  /\ home' = to
  /\ removing' = TRUE
  /\ faulted' = (faulted \/ ~ok)
  /\ UNCHANGED <<source, moves, header, parent, reqVars, osd, finisher, must, wiped,
                 astray, hidden, orphaned, stray>>

\* The object is removed from the pool it was in, or an error printed.
RemoveSource(ok) ==
  /\ removing
  /\ osd[source] = <<>>
  /\ IF ok THEN /\ exists' = [exists EXCEPT ![source] = FALSE]
                /\ content' = [content EXCEPT ![source] = {}]
           ELSE UNCHANGED objVars
  /\ removing' = FALSE
  /\ UNCHANGED <<home, source, moves, header, parent, reqVars, osd, finisher, histVars>>

-----------------------------------------------------------------------------
SendStep(q) == Begin(q) \/ GetPool(q) \/ Send(q)

Handle(q) ==
  \/ Missed(q)
  \/ NullCopyup(q)
  \/ \E r \in {"ok", "enoent", "error"} : Finish(q, r)

ParentStep(q) == ParentAnswers(q) \/ ParentFails(q) \/ ParentRefuses(q)

Next ==
  \/ \E q \in Request : SendStep(q) \/ Handle(q) \/ ParentStep(q)
  \/ \E p \in Pool : Serve(p) \/ Refuse(p)
  \/ RemoveParent
  \/ FlattenElsewhere
  \/ RefreshParent
  \/ \E ok \in BOOLEAN : CopyRead(ok) \/ CopyWrite(ok) \/ RemoveSource(ok)

Spec == Init /\ [][Next]_vars

\* RADOS serves what it is sent, the parent image answers, the finisher works.
Fairness ==
  /\ WF_vars(\E p \in Pool : Serve(p) \/ Refuse(p))
  /\ WF_vars(\E q \in Request : Handle(q))
  /\ WF_vars(\E q \in Request : ParentStep(q))

FairSpec == Spec /\ Fairness

-----------------------------------------------------------------------------
Op == {"guarded", "write", "zero", "copyup", "truncate", "remove", "read"}

TypeOK ==
  /\ exists   \in [Place -> BOOLEAN]
  /\ content  \in [Place -> SUBSET Data]
  /\ home     \in Place
  /\ source   \in Pool
  /\ removing \in BOOLEAN
  /\ moves    \in 0 .. MaxMoves
  /\ header   \in BOOLEAN
  /\ parent   \in BOOLEAN
  /\ pc       \in [Request -> {"new", "begun", "chosen", "sent", "parent", "copyup",
                               "done", "failed", "hung"}]
  /\ pool     \in [Request -> Pool]
  /\ state    \in [Request \ Read -> {LIBRBD_AIO_WRITE_GUARD, LIBRBD_AIO_WRITE_COPYUP,
                                      LIBRBD_AIO_WRITE_FLAT}]
  /\ result   \in [Read -> SUBSET Data]
  /\ osd      \in [Pool -> Seq([req : Request, op : Op])]
  /\ finisher \in Seq([req : Request, res : {"ok", "enoent", "error"}])
  /\ must     \in [Read -> SUBSET Data]
  /\ wiped    \in SUBSET Data
  /\ astray   \in SUBSET Mutation
  /\ hidden   \in BOOLEAN
  /\ orphaned \in SUBSET Request
  /\ stray    \in SUBSET Read
  /\ faulted  \in BOOLEAN

Sent(p)  == 1 .. Len(osd[p])      \* the places of the queue to pool p
Answered == 1 .. Len(finisher)

\* Requests that were reading the parent for a copyup when it was closed.
Late == orphaned \cap Guarded

OnItsWay(q)  == \E p \in Pool : \E i \in Sent(p) : osd[p][i].req = q
HasAnswer(q) == \E i \in Answered : finisher[i].req = q

\* The parent's data stays visible through writes racing to copy it, through
\* flatten, here or elsewhere, and through moves whose copies succeed, unless the
\* whole object was discarded, or moved before it existed.
ParentDataKept == faulted \/ Parent \in View \/ Parent \in wiped \/ hidden

\* While copies succeed, an acknowledged write or discard of a part is in the
\* object, unless the whole object was discarded, or it was applied to an object
\* in another place: a write that was sent, or whose copyup was, when the object
\* had been copied away, and a discard, which goes to DEFAULT_POOL wherever the
\* object is.
AckedWritesKept ==
  \A w \in Mutation : pc[w] = "done" => faulted \/ w \in View \cup wiped \cup astray

\* Data discarded with the whole object does not come back while copies succeed:
\* a copyup that was on its way does not bring the parent's data again, unless
\* its request was reading the parent when the image lost it.
DiscardedStaysAway ==
  Parent \in wiped /\ Late = {} => faulted \/ Parent \notin View

\* Reads that were sent to the pool the object is in, by an image that kept its
\* parent meanwhile.
Promised == Read \ (orphaned \cup stray)

\* While copies succeed, a read returns all the data that was visible when it was
\* invoked, the parent's included, unless the whole object is discarded or moved
\* before it exists, the image loses its parent, or the object has been copied
\* between get_pool and the sending of the read.
ReadsSeeParent ==
  \A r \in Promised : pc[r] = "done" => faulted \/ must[r] \subseteq result[r]

\* A request that waits for RADOS is on its way to the object or answered, and
\* the finisher can handle every answer: none is forgotten, and none holds up
\* those behind it.
NoRequestStalls ==
  /\ \A q \in Request : pc[q] \in {"sent", "copyup"} => OnItsWay(q) \/ HasAnswer(q)
  /\ \A i \in Answered : finisher[i].res = "enoent" =>
       \/ finisher[i].req \in Remove \cup Read
       \/ state[finisher[i].req] = LIBRBD_AIO_WRITE_GUARD

\* A request that sent its copyup does not go back to ask the parent again,
\* although the state of its write is that of the guard once more.
CopyupOnce ==
  [][\A q \in Request :
       pc[q] = "copyup" => pc'[q] \in {"copyup", "done", "failed"}]_vars

\* No request stays under way for ever, but one whose read of the parent was
\* refused: the guard, the parent's data and the copyup follow each other once.
RequestsEnd ==
  []<>(\A q \in Request : pc[q] \notin {"sent", "parent", "copyup"})

-----------------------------------------------------------------------------
(* The object as one cell: what its user is promised.                      *)

Gets(q, R) == \E i \in Answered : finisher[i].req = q /\ finisher[i].res \in R

\* A write or a discard has taken effect, a read has been served.
TakesEffect(q) ==
  IF q \in Read THEN pc[q] \in {"parent", "hung"} \/ Gets(q, {"ok", "enoent"})
                ELSE Gets(q, IF q \in Remove THEN {"ok", "enoent"} ELSE {"ok"})

Stage(q) ==
  CASE pc[q] = "new"    -> "new"
    [] pc[q] = "done"   -> "ok"
    [] pc[q] = "failed" -> "failed"
    [] OTHER -> IF ~TakesEffect(q) THEN "open" ELSE IF q \in Read THEN "looked" ELSE "taken"

Seen(r) ==
  IF r \in stray THEN {}
  ELSE IF pc[r] = "done" \/ Gets(r, {"ok"}) THEN result[r]
  ELSE IF pc[r] \in {"parent", "hung"} \/ (parent /\ Gets(r, {"enoent"})) THEN {Parent}
  ELSE {}

Stages == [q \in Request \ Flatten |-> Stage(q)]
Seens  == [r \in Read |-> Seen(r)]

Cell == INSTANCE AtomicObject WITH
  data <- View, open <- parent, late <- Late, lost <- astray, broken <- faulted,
  stage <- Stages, seen <- Seens

\* The guards, the reads of the parent, the copyups, flatten and the moves are
\* invisible until a copy fails: the object is one cell, a write takes effect once
\* or fails without effect, and a read returns exactly what the cell held at a
\* moment of the read, but for the cases that AtomicObject names.
ImplementsAtomicObject == Cell!Spec

-----------------------------------------------------------------------------
(* The inductive invariant behind the safety properties.                   *)

\* A request is on its way to one object, or answered, at most once.
QueueInv ==
  /\ \A p, r \in Pool : \A i \in Sent(p), j \in Sent(r) :
       osd[p][i].req = osd[r][j].req => p = r /\ i = j
  /\ \A p \in Pool : \A i \in Sent(p) :
       /\ pc[osd[p][i].req] \in {"sent", "copyup"}
       /\ \A j \in Answered : osd[p][i].req # finisher[j].req
  /\ \A i, j \in Answered : finisher[i].req = finisher[j].req => i = j
  /\ \A i \in Answered : pc[finisher[i].req] \in {"sent", "copyup"}

\* What is sent where, and in which state of the image.
OpInv ==
  /\ \A d \in Remove : pc[d] \notin {"parent", "copyup"}
  /\ \A q \in Request \ Polled : pool[q] = DEFAULT_POOL
  /\ \A r \in Read \ stray : pc[r] = "chosen" => pool[r] = home
  /\ \A q \in Request \ Read :
       pc[q] \in {"begun", "chosen"} /\ state[q] # LIBRBD_AIO_WRITE_GUARD => ~parent
  /\ \A p \in Pool : \A i \in Sent(p) :
       /\ osd[p][i].req \in Read <=> osd[p][i].op = "read"
       /\ osd[p][i].req \in Remove <=> osd[p][i].op \in {"truncate", "remove"}
       /\ osd[p][i].op = "read" =>
            /\ pc[osd[p][i].req] = "sent"
            /\ osd[p][i].req \in stray \/ p = home
       /\ osd[p][i].op \in {"write", "zero", "remove"} => ~parent
       /\ osd[p][i].op = "zero" => osd[p][i].req \in Discard
       /\ osd[p][i].op \in {"truncate", "remove", "copyup"} => p = DEFAULT_POOL
       /\ osd[p][i].req \in Flatten => p = DEFAULT_POOL

\* Where the migrater is; an absent object holds nothing.
PlaceInv ==
  /\ exists[BUFFER]
  /\ \A p \in Place : ~exists[p] => content[p] = {}
  /\ removing => home = OtherPool(source)

\* Only an object that was moved is elsewhere than in DEFAULT_POOL, and it stays
\* there.
ObjectInv ==
  /\ home # DEFAULT_POOL => exists[home]
  /\ ~parent => ~header

Lost == Parent \in wiped \/ hidden

\* An object that exists has the parent's data, and the parent goes only when
\* the object exists.
ParentInv ==
  /\ Lost \/ IF exists[home] THEN Parent \in content[home] ELSE parent
  /\ ~header => Lost \/ exists[home]
  /\ \A f \in Flatten : pc[f] = "done" => Lost \/ exists[home]
  /\ \A i \in Answered : finisher[i].req \in Flatten /\ finisher[i].res = "ok"
                           => Lost \/ exists[home]

Kept(w) == w \in content[home] \cup wiped \cup astray

WriteInv ==
  /\ \A w \in Mutation : pc[w] = "done" => Kept(w)
  /\ \A i \in Answered : finisher[i].req \in Mutation /\ finisher[i].res = "ok"
                           => Kept(finisher[i].req)

\* A copyup finds the object, or the image has its parent, or it is ahead of
\* the removal, unless its request was reading the parent when it was closed.
DiscardInv ==
  /\ \A q \in Request : pc[q] = "parent" => parent \/ q \in orphaned
  /\ \A p \in Pool : \A i, j \in Sent(p) :
       osd[p][i].op = "remove" /\ osd[p][j].op = "copyup" =>
         j < i \/ osd[p][j].req \in orphaned
  /\ \A p \in Pool : p = home /\ ~exists[p] /\ ~parent =>
       \A i \in Sent(p) : osd[p][i].op = "copyup" => osd[p][i].req \in orphaned
  /\ parent /\ Lost => exists[home]
  /\ Parent \in wiped /\ Late = {} => Parent \notin content[home]

\* Where a read stands, what it has to return is still there or was returned.
ReadInv ==
  /\ \A p \in Pool : \A i \in Sent(p) :
       osd[p][i].op = "read" /\ osd[p][i].req \in Promised => must[osd[p][i].req] \subseteq View
  /\ \A i \in Answered :
       LET r == finisher[i].req IN
       r \in Promised =>
         /\ pc[r] = "sent"
         /\ finisher[i].res = "ok" => must[r] \subseteq result[r]
         /\ finisher[i].res = "enoent" => must[r] \subseteq IF parent THEN {Parent} ELSE {}
  /\ \A r \in Promised :
       /\ pc[r] \in {"begun", "chosen"} => must[r] \subseteq View
       /\ pc[r] = "parent" => must[r] \subseteq {Parent}
       /\ pc[r] = "done" => must[r] \subseteq result[r]

\* A request that missed the object has sent nothing but its guarded write, or
\* its read, which returned nothing.
Missing(q) ==
  /\ pc[q] = "sent"
  /\ q \in Guarded => state[q] = LIBRBD_AIO_WRITE_GUARD
  /\ q \in Read => result[q] = {}

ProgressInv ==
  /\ \A q \in Request : pc[q] \in {"sent", "copyup"} => OnItsWay(q) \/ HasAnswer(q)
  /\ \A p \in Pool : \A i \in Sent(p) :
       osd[p][i].op = "guarded" =>
         /\ pc[osd[p][i].req] = "sent"
         /\ state[osd[p][i].req] = LIBRBD_AIO_WRITE_GUARD
  /\ \A i \in Answered : finisher[i].res = "enoent" => Missing(finisher[i].req)

\* What the object holds, while copies succeed.
DataInv == ObjectInv /\ ParentInv /\ WriteInv /\ DiscardInv /\ ReadInv

\* What holds whether they do or not.
BaseInv == TypeOK /\ QueueInv /\ OpInv /\ PlaceInv /\ ProgressInv

IInv == BaseInv /\ (faulted \/ DataInv)

-----------------------------------------------------------------------------
(* What a test of the code says, which it does not do.                     *)

\* What was not written in a clone reads as the parent's data (test_librbd.cc), if
\* no copy fails and the object is not on its way.
ParentDataVisible == faulted \/ home = BUFFER \/ Parent \in View \/ Parent \in wiped
=============================================================================

------------------------- MODULE LayeredObjectProofs -------------------------
(***************************************************************************)
(* An object of a clone keeps what was written in it and what it has of    *)
(* its parent, for any set of requests and any number of moves.            *)
(***************************************************************************)
EXTENDS LayeredObject, SequenceTheorems, TLAPS

USE DEF HDD_POOL, SSD_POOL, DEFAULT_POOL, Pool, BUFFER, Place,
        LIBRBD_AIO_WRITE_GUARD, LIBRBD_AIO_WRITE_COPYUP, LIBRBD_AIO_WRITE_FLAT

Message == [req : Request, op : Op]
Answer  == [req : Request, res : {"ok", "enoent", "error"}]

-----------------------------------------------------------------------------
(* The queues.                                                             *)

\* One more message is on its way to pool p.
Added(p, q, op) ==
  /\ osd' \in [Pool -> Seq(Message)]
  /\ \A x \in Pool : \A i \in Sent(x)' :
       \/ i \in Sent(x) /\ osd'[x][i] = osd[x][i]
       \/ /\ x = p /\ i = Len(osd[p]) + 1 /\ i \notin Sent(p)
          /\ osd'[x][i].req = q /\ osd'[x][i].op = op

\* The oldest message on its way to pool p is gone.
Dropped(p) ==
  /\ osd' \in [Pool -> Seq(Message)]
  /\ 1 \in Sent(p)
  /\ \A x \in Pool : \A i \in Sent(x)' :
       LET k == IF x = p THEN i + 1 ELSE i IN
       k \in Sent(x) /\ osd'[x][i] = osd[x][k]

\* The finisher has one more answer to handle.
AnswerAdded(q, r) ==
  /\ finisher' \in Seq(Answer)
  /\ \A i \in Answered' :
       \/ i \in Answered /\ finisher'[i] = finisher[i]
       \/ /\ i = Len(finisher) + 1 /\ i \notin Answered
          /\ finisher'[i].req = q /\ finisher'[i].res = r

\* It has taken the oldest, which was to q.
AnswerTaken(q, r) ==
  /\ finisher' \in Seq(Answer)
  /\ 1 \in Answered
  /\ finisher[1].req = q /\ finisher[1].res = r
  /\ \A i \in Answered' : i + 1 \in Answered /\ finisher'[i] = finisher[i + 1]

LEMMA Typed ==
  ASSUME TypeOK
  PROVE  /\ osd \in [Pool -> Seq(Message)]
         /\ finisher \in Seq(Answer)
         /\ \A p \in Pool : Len(osd[p]) \in Nat
         /\ \A p \in Pool : \A i \in Sent(p) :
              osd[p][i].req \in Request /\ osd[p][i].op \in Op
         /\ Len(finisher) \in Nat
         /\ \A i \in Answered : finisher[i].req \in Request
                                /\ finisher[i].res \in {"ok", "enoent", "error"}
<1>1. osd \in [Pool -> Seq(Message)] /\ finisher \in Seq(Answer)
  BY DEF TypeOK, Message, Answer
<1>2. \A p \in Pool : Len(osd[p]) \in Nat
  BY <1>1, LenProperties
<1>3. ASSUME NEW p \in Pool, NEW i \in Sent(p)
      PROVE  osd[p][i] \in Message
  <2>1. osd[p] \in Seq(Message) /\ i \in 1 .. Len(osd[p])
    BY <1>1 DEF Sent
  <2> QED
    BY ONLY <2>1, ElementOfSeq
<1>4. Len(finisher) \in Nat
  BY <1>1, LenProperties
<1>5. ASSUME NEW i \in Answered
      PROVE  finisher[i] \in Answer
  <2>1. finisher \in Seq(Answer) /\ i \in 1 .. Len(finisher)
    BY <1>1 DEF Answered
  <2> QED
    BY ONLY <2>1, ElementOfSeq
<1> QED
  BY <1>1, <1>2, <1>3, <1>4, <1>5 DEF Message, Answer

LEMMA SubmitAdds ==
  ASSUME TypeOK, NEW p \in Pool, NEW q \in Request, NEW op \in Op, Submit(p, q, op)
  PROVE  Added(p, q, op)
<1> DEFINE m == [req |-> q, op |-> op]
<1>1. osd[p] \in Seq(Message) /\ m \in Message /\ osd \in [Pool -> Seq(Message)]
  BY Typed DEF Message
<1>2. osd' = [osd EXCEPT ![p] = Append(osd[p], m)]
  BY DEF Submit
<1>3. m.req = q /\ m.op = op
  OBVIOUS
<1> HIDE DEF m
<1>4. /\ Append(osd[p], m) \in Seq(Message)
      /\ Len(Append(osd[p], m)) = Len(osd[p]) + 1
      /\ \A i \in 1 .. Len(osd[p]) : Append(osd[p], m)[i] = osd[p][i]
      /\ Append(osd[p], m)[Len(osd[p]) + 1] = m
  BY <1>1, AppendProperties
<1>5. Len(osd[p]) \in Nat
  BY <1>1, LenProperties
<1>6. osd' \in [Pool -> Seq(Message)]
  BY <1>1, <1>2, <1>4
<1>7. ASSUME NEW x \in Pool, NEW i \in Sent(x)'
      PROVE  \/ i \in Sent(x) /\ osd'[x][i] = osd[x][i]
             \/ /\ x = p /\ i = Len(osd[p]) + 1 /\ i \notin Sent(p)
                /\ osd'[x][i].req = q /\ osd'[x][i].op = op
  <2>1. CASE x # p
    BY <2>1, <1>1, <1>2 DEF Sent
  <2>2. CASE x = p
    <3>1. osd'[x] = Append(osd[p], m)
      BY <2>2, <1>1, <1>2
    <3>2. i \in 1 .. Len(osd[p]) + 1
      BY <3>1, <1>4 DEF Sent
    <3>3. i \in 1 .. Len(osd[p]) \/ (i = Len(osd[p]) + 1 /\ i \notin 1 .. Len(osd[p]))
      BY <3>2, <1>5
    <3> QED
      BY <3>1, <3>3, <2>2, <1>3, <1>4 DEF Sent
  <2> QED
    BY <2>1, <2>2
<1> QED
  BY <1>6, <1>7 DEF Added

LEMMA TailDrops ==
  ASSUME TypeOK, NEW p \in Pool, osd[p] # <<>>, osd' = [osd EXCEPT ![p] = Tail(@)]
  PROVE  Dropped(p) /\ Head(osd[p]) = osd[p][1]
<1>1. osd[p] \in Seq(Message) /\ osd \in [Pool -> Seq(Message)]
  BY Typed
<1>2. osd' = [osd EXCEPT ![p] = Tail(osd[p])]
  OBVIOUS
<1>3. /\ Tail(osd[p]) \in Seq(Message)
      /\ Len(Tail(osd[p])) = Len(osd[p]) - 1
      /\ \A i \in 1 .. Len(Tail(osd[p])) : Tail(osd[p])[i] = osd[p][i + 1]
  BY <1>1, HeadTailProperties
<1>4. Len(osd[p]) \in Nat \ {0}
  BY <1>1, EmptySeq
<1>5. osd' \in [Pool -> Seq(Message)]
  BY <1>1, <1>2, <1>3
<1>6. ASSUME NEW x \in Pool, NEW i \in Sent(x)'
      PROVE  LET k == IF x = p THEN i + 1 ELSE i IN
             k \in Sent(x) /\ osd'[x][i] = osd[x][k]
  <2>1. CASE x # p
    BY <2>1, <1>1, <1>2 DEF Sent
  <2>2. CASE x = p
    <3>1. osd'[x] = Tail(osd[p])
      BY <2>2, <1>1, <1>2
    <3>2. i \in 1 .. Len(osd[p]) - 1
      BY <3>1, <1>3 DEF Sent
    <3>3. i + 1 \in 1 .. Len(osd[p])
      BY <3>2, <1>4
    <3> QED
      BY <3>1, <3>2, <3>3, <2>2, <1>3 DEF Sent
  <2> QED
    BY <2>1, <2>2
<1>7. 1 \in Sent(p)
  BY <1>4 DEF Sent
<1>8. Head(osd[p]) = osd[p][1]
  BY <1>1
<1> QED
  BY <1>5, <1>6, <1>7, <1>8 DEF Dropped

LEMMA AnswerAdds ==
  ASSUME TypeOK, NEW q \in Request, NEW r \in {"ok", "enoent", "error"},
         finisher' = Append(finisher, [req |-> q, res |-> r])
  PROVE  AnswerAdded(q, r)
<1> DEFINE a == [req |-> q, res |-> r]
<1>1. finisher \in Seq(Answer) /\ a \in Answer
  BY Typed DEF Answer
<1>2. finisher' = Append(finisher, a) /\ a.req = q /\ a.res = r
  OBVIOUS
<1> HIDE DEF a
<1>3. /\ Append(finisher, a) \in Seq(Answer)
      /\ Len(Append(finisher, a)) = Len(finisher) + 1
      /\ \A i \in 1 .. Len(finisher) : Append(finisher, a)[i] = finisher[i]
      /\ Append(finisher, a)[Len(finisher) + 1] = a
  BY <1>1, AppendProperties
<1>4. Len(finisher) \in Nat
  BY <1>1, LenProperties
<1>5. ASSUME NEW i \in Answered'
      PROVE  i \in 1 .. Len(finisher) \/ (i = Len(finisher) + 1 /\ i \notin 1 .. Len(finisher))
  BY <1>2, <1>3, <1>4 DEF Answered
<1> QED
  BY <1>2, <1>3, <1>5 DEF AnswerAdded, Answered

LEMMA ReplyTakes ==
  ASSUME TypeOK, NEW q \in Request, NEW r, Replied(q, r)
  PROVE  AnswerTaken(q, r)
<1>1. finisher \in Seq(Answer) /\ finisher # <<>> /\ finisher' = Tail(finisher)
  BY Typed DEF Replied
<1>2. /\ Tail(finisher) \in Seq(Answer)
      /\ Len(Tail(finisher)) = Len(finisher) - 1
      /\ \A i \in 1 .. Len(Tail(finisher)) : Tail(finisher)[i] = finisher[i + 1]
  BY <1>1, HeadTailProperties
<1>3. Len(finisher) \in Nat \ {0}
  BY <1>1, EmptySeq
<1>4. Head(finisher) = finisher[1]
  BY <1>1
<1>5. \A i \in Answered' : i \in 1 .. Len(Tail(finisher)) /\ i + 1 \in 1 .. Len(finisher)
  BY <1>1, <1>2, <1>3 DEF Answered
<1> QED
  BY <1>1, <1>2, <1>3, <1>4, <1>5 DEF AnswerTaken, Answered, Replied

LEMMA QueuesStay ==
  ASSUME TypeOK, UNCHANGED osd
  PROVE  \A x \in Pool : Sent(x)' = Sent(x)
  BY DEF Sent

-----------------------------------------------------------------------------
LEMMA RequestKinds ==
  /\ Mutation \subseteq Request \ Read /\ Flatten \subseteq Request \ Read
  /\ Remove \subseteq Request \ Read /\ Guarded \subseteq Request \ Read
  /\ Mutation \cup Flatten = Guarded
  /\ Guarded \cap Remove = {} /\ Read \subseteq Request /\ Mutation \cap Flatten = {}
  /\ Request = Guarded \cup Remove \cup Read
  /\ Polled \cap (Remove \cup Flatten \cup Discard) = {} /\ Polled \subseteq Request
  /\ Discard \subseteq Mutation /\ Parent \notin Mutation /\ Read \subseteq Polled
  BY RequestsAreDisjoint DEF Request, Guarded, Mutation, Polled

LEMMA InitInv == Init => IInv
<1> SUFFICES ASSUME Init PROVE IInv
  OBVIOUS
<1>1. TypeOK
  <2>1. osd \in [Pool -> Seq([req : Request, op : Op])]
    BY EmptySeq DEF Init
  <2>2. finisher \in Seq([req : Request, res : {"ok", "enoent", "error"}])
    BY EmptySeq DEF Init
  <2>3. moves \in 0 .. MaxMoves /\ home \in Place /\ exists \in [Place -> BOOLEAN]
        /\ source \in Pool
    BY MovesAreBounded DEF Init
  <2>4. content \in [Place -> SUBSET Data] /\ result \in [Read -> SUBSET Data]
        /\ must \in [Read -> SUBSET Data]
    BY DEF Init
  <2>5. state \in [Request \ Read -> {LIBRBD_AIO_WRITE_GUARD, LIBRBD_AIO_WRITE_COPYUP,
                                     LIBRBD_AIO_WRITE_FLAT}]
        /\ pool \in [Request -> Pool]
    BY DEF Init
  <2>6. pc \in [Request -> {"new", "begun", "chosen", "sent", "parent", "copyup",
                            "done", "failed", "hung"}]
    BY DEF Init
  <2> QED
    BY <2>1, <2>2, <2>3, <2>4, <2>5, <2>6 DEF Init, TypeOK
<1>2. (\A p \in Pool : Sent(p) = {}) /\ Answered = {}
  <2>1. Len(<<>>) = 0
    OBVIOUS
  <2> QED
    BY <2>1 DEF Init, Sent, Answered
<1>3. QueueInv /\ OpInv /\ PlaceInv
  BY <1>2, RequestKinds DEF Init, QueueInv, OpInv, PlaceInv
<1>4. ObjectInv /\ ParentInv
  <2>1. ~exists[home] /\ home = DEFAULT_POOL /\ parent /\ header
    <3>1. HDD_POOL \in Place /\ HDD_POOL # BUFFER
      OBVIOUS
    <3>2. exists = [p \in Place |-> p = BUFFER] /\ home = HDD_POOL /\ parent /\ header
      BY DEF Init
    <3> QED
      BY ONLY <3>1, <3>2, Zenon DEF DEFAULT_POOL
  <2>2. \A f \in Flatten : pc[f] = "new"
    BY RequestKinds DEF Init
  <2> QED
    BY <1>2, <2>1, <2>2 DEF ObjectInv, ParentInv
<1>5. WriteInv /\ DiscardInv /\ ReadInv
  BY <1>2, RequestKinds DEF Init, WriteInv, DiscardInv, ReadInv, Promised, Lost
<1>6. ProgressInv
  BY <1>2 DEF Init, ProgressInv
<1> QED
  BY <1>1, <1>3, <1>4, <1>5, <1>6 DEF IInv, BaseInv, DataInv

LEMMA HoldsData ==
  ASSUME TypeOK, NEW op \in Op, NEW q \in Request, NEW p \in Pool
  PROVE  /\ Holds(op, q, p) \in SUBSET Data
         /\ Remains(op, p) \in BOOLEAN
         /\ Reply(op, p) \in {"ok", "enoent"}
<1>1. content[p] \in SUBSET Data /\ exists[p] \in BOOLEAN
  BY DEF TypeOK
<1>2. {q} \cap Mutation \in SUBSET Data /\ {Parent} \in SUBSET Data
  BY DEF Data
<1>3. Reply(op, p) \in {"ok", "enoent"}
  BY DEF Reply
<1>4. Remains(op, p) \in BOOLEAN
  BY <1>1 DEF Remains, Op
<1>5. Holds(op, q, p) \in SUBSET Data
  BY <1>1, <1>2, <1>3 DEF Holds, Op
<1> QED
  BY <1>3, <1>4, <1>5

LEMMA TypeStep == TypeOK /\ [Next]_vars => TypeOK'
<1> SUFFICES ASSUME TypeOK, [Next]_vars PROVE TypeOK'
  OBVIOUS
<1> USE DEF Message, Answer
<1>1. ASSUME NEW q \in Request, SendStep(q)
      PROVE  TypeOK'
  <2>1. CASE Begin(q)
    <3>1. View \in SUBSET Data
      BY DEF View, TypeOK, Data
    <3> QED
      BY <2>1, <3>1 DEF Begin, TypeOK, objVars, moveVars
  <2>2. CASE GetPool(q)
    BY <2>2 DEF GetPool, TypeOK, objVars, moveVars, histVars
  <2>3. CASE Send(q)
    <3>1. osd' \in [Pool -> Seq(Message)]
      <4>1. Built(q) \in Op /\ pool[q] \in Pool
        BY DEF Op, Built, Plain, TypeOK
      <4> QED
        BY <2>3, <4>1, SubmitAdds DEF Send, Added
    <3> QED
      BY <2>3, <3>1 DEF Send, TypeOK, objVars, moveVars, histVars
  <2> QED
    BY <1>1, <2>1, <2>2, <2>3 DEF SendStep
<1>2. ASSUME NEW q \in Request, Handle(q)
      PROVE  TypeOK'
  <2>1. CASE Missed(q)
    <3>1. finisher' \in Seq(Answer)
      BY <2>1, ReplyTakes DEF Missed, AnswerTaken
    <3> QED
      BY <2>1, <3>1 DEF Missed, TypeOK, objVars, moveVars, histVars
  <2>2. CASE NullCopyup(q)
    <3>1. finisher' \in Seq(Answer)
      BY <2>2, ReplyTakes DEF NullCopyup, AnswerTaken
    <3>2. osd' \in [Pool -> Seq(Message)]
      <4>1. Plain(q) \in Op
        BY DEF Op, Plain
      <4> QED
        BY <2>2, <4>1, SubmitAdds DEF NullCopyup, Added
    <3>3. q \in Request \ Read
      BY <2>2, RequestKinds DEF NullCopyup
    <3> QED
      BY <2>2, <3>1, <3>2, <3>3 DEF NullCopyup, TypeOK, objVars, moveVars, histVars
  <2>3. CASE \E r \in {"ok", "enoent", "error"} : Finish(q, r)
    <3>1. finisher' \in Seq(Answer)
      BY <2>3, ReplyTakes DEF Finish, AnswerTaken
    <3> QED
      BY <2>3, <3>1 DEF Finish, TypeOK, objVars, moveVars, histVars
  <2> QED
    BY <1>2, <2>1, <2>2, <2>3 DEF Handle
<1>3. ASSUME NEW q \in Request, ParentStep(q)
      PROVE  TypeOK'
  <2>1. CASE ParentAnswers(q)
    <3>1. CASE q \in Read
      BY <2>1, <3>1 DEF ParentAnswers, TypeOK, objVars, moveVars, histVars, Data
    <3>2. CASE q \notin Read
      <4>1. osd' \in [Pool -> Seq(Message)]
        <5>1. "copyup" \in Op
          BY DEF Op
        <5> QED
          BY <2>1, <3>2, <5>1, SubmitAdds DEF ParentAnswers, Added
      <4> QED
        BY <2>1, <3>2, <4>1 DEF ParentAnswers, TypeOK, objVars, moveVars, histVars
    <3> QED
      BY <3>1, <3>2
  <2>2. CASE ParentFails(q)
    BY <2>2 DEF ParentFails, TypeOK, objVars, moveVars, histVars
  <2>3. CASE ParentRefuses(q)
    BY <2>3 DEF ParentRefuses, TypeOK, objVars, moveVars, histVars
  <2> QED
    BY <1>3, <2>1, <2>2, <2>3 DEF ParentStep
<1>4. ASSUME NEW p \in Pool, Serve(p)
      PROVE  TypeOK'
  <2> DEFINE q  == Head(osd[p]).req
             op == Head(osd[p]).op
  <2>1. Dropped(p) /\ q \in Request /\ op \in Op
    BY <1>4, Typed, TailDrops DEF Serve, Dropped
  <2>2. Reply(op, p) \in {"ok", "enoent", "error"}
    BY <2>1, HoldsData
  <2>3. finisher' = Append(finisher, [req |-> q, res |-> Reply(op, p)])
    BY <1>4 DEF Serve
  <2>4. content' = [content EXCEPT ![p] = Holds(op, q, p)]
        /\ exists' = [exists EXCEPT ![p] = Remains(op, p)]
    BY <1>4 DEF Serve
  <2>5. /\ result' \in {result, [result EXCEPT ![q] = content[p]]}
        /\ wiped' \in {wiped, wiped \cup content[p], wiped \cup ({q} \cap Mutation)}
        /\ must' \in {must, [r \in Read |-> {}]}
        /\ astray' \in {astray, astray \cup ({q} \cap Mutation)}
        /\ UNCHANGED <<home, source, removing, moves, header, parent, pc, pool, state,
                       hidden, orphaned, stray, faulted>>
    BY <1>4 DEF Serve, moveVars
  <2> HIDE DEF q, op
  <2>6. finisher' \in Seq(Answer)
    BY <2>1, <2>2, <2>3, AnswerAdds DEF AnswerAdded
  <2>7. Holds(op, q, p) \in SUBSET Data /\ Remains(op, p) \in BOOLEAN
    BY <2>1, HoldsData
  <2>8. osd' \in [Pool -> Seq(Message)]
    BY <2>1 DEF Dropped
  <2>9. content' \in [Place -> SUBSET Data] /\ exists' \in [Place -> BOOLEAN]
    BY <2>4, <2>7 DEF TypeOK
  <2>10. result' \in [Read -> SUBSET Data] /\ wiped' \in SUBSET Data
         /\ must' \in [Read -> SUBSET Data] /\ astray' \in SUBSET Mutation
    BY <2>5 DEF TypeOK, Data
  <2> QED
    BY <2>5, <2>6, <2>8, <2>9, <2>10 DEF TypeOK
<1>5. ASSUME NEW p \in Pool, Refuse(p)
      PROVE  TypeOK'
  <2>1. Dropped(p) /\ Head(osd[p]).req \in Request
    BY <1>5, Typed, TailDrops DEF Refuse, Dropped
  <2>2. finisher' \in Seq(Answer)
    BY <1>5, <2>1, AnswerAdds DEF Refuse, AnswerAdded
  <2> QED
    BY <1>5, <2>1, <2>2 DEF Refuse, Dropped, TypeOK, objVars, moveVars, reqVars, histVars
<1>6. CASE RemoveParent
  BY <1>6 DEF RemoveParent, TypeOK, objVars, moveVars, reqVars, histVars
<1>7. CASE FlattenElsewhere
  BY <1>7 DEF FlattenElsewhere, TypeOK, moveVars, reqVars, histVars, Data
<1>8. CASE RefreshParent
  BY <1>8, RequestKinds DEF RefreshParent, TypeOK, objVars, moveVars, reqVars
<1>9. ASSUME NEW ok \in BOOLEAN, CopyRead(ok)
      PROVE  TypeOK'
  BY <1>9, MovesAreBounded DEF CopyRead, TypeOK, reqVars
<1>10. ASSUME NEW ok \in BOOLEAN, CopyWrite(ok)
       PROVE  TypeOK'
  BY <1>10 DEF CopyWrite, TypeOK, OtherPool, objVars, reqVars
<1>11. ASSUME NEW ok \in BOOLEAN, RemoveSource(ok)
       PROVE  TypeOK'
  BY <1>11 DEF RemoveSource, TypeOK, objVars, reqVars, histVars
<1>12. CASE UNCHANGED vars
  BY <1>12 DEF vars, objVars, moveVars, reqVars, histVars, TypeOK
<1> QED
  BY <1>1, <1>2, <1>3, <1>4, <1>5, <1>6, <1>7, <1>8, <1>9, <1>10, <1>11, <1>12 DEF Next

-----------------------------------------------------------------------------
(* What a step does to the queues: each request is in them at most once.   *)

LEMMA Enqueued ==
  ASSUME TypeOK, QueueInv, NEW p \in Pool, NEW q \in Request, NEW op, Added(p, q, op),
         UNCHANGED finisher, pc[q] \in {"begun", "chosen", "parent"},
         NEW c \in {"sent", "copyup"}, pc' = [pc EXCEPT ![q] = c]
  PROVE  QueueInv'
<1>1. /\ \A x \in Pool : \A i \in Sent(x) : osd[x][i].req # q
      /\ \A i \in Answered : finisher[i].req # q
  BY DEF QueueInv
<1>2. pc'[q] = c /\ \A x \in Request : x # q => pc'[x] = pc[x]
  BY DEF TypeOK
<1>3. Answered' = Answered
  BY DEF Answered
<1>4. \A x \in Pool : \A i \in Sent(x) : osd[x][i].req \in Request
  BY Typed
<1>5. \A i \in Answered : finisher[i].req \in Request
  BY Typed
<1>6. ASSUME NEW x \in Pool, NEW y \in Pool, NEW i \in Sent(x)', NEW j \in Sent(y)',
             osd'[x][i].req = osd'[y][j].req
      PROVE  x = y /\ i = j
  <2>1. CASE i \in Sent(x) /\ osd'[x][i] = osd[x][i] /\ j \in Sent(y) /\ osd'[y][j] = osd[y][j]
    BY <1>6, <2>1 DEF QueueInv
  <2>2. CASE i \in Sent(x) /\ osd'[x][i] = osd[x][i] /\ osd'[y][j].req = q
    BY <1>1, <1>6, <2>2
  <2>3. CASE osd'[x][i].req = q /\ j \in Sent(y) /\ osd'[y][j] = osd[y][j]
    BY <1>1, <1>6, <2>3
  <2>4. CASE x = p /\ y = p /\ i = Len(osd[p]) + 1 /\ j = Len(osd[p]) + 1
    BY <2>4
  <2> QED
    BY <2>1, <2>2, <2>3, <2>4 DEF Added
<1>7. ASSUME NEW x \in Pool, NEW i \in Sent(x)'
      PROVE  /\ pc'[osd'[x][i].req] \in {"sent", "copyup"}
             /\ \A j \in Answered' : osd'[x][i].req # finisher'[j].req
  <2>1. CASE i \in Sent(x) /\ osd'[x][i] = osd[x][i]
    BY <1>1, <1>2, <1>3, <1>4, <2>1 DEF QueueInv
  <2>2. CASE osd'[x][i].req = q
    BY <1>1, <1>2, <1>3, <2>2
  <2> QED
    BY <2>1, <2>2 DEF Added
<1> QED
  BY <1>1, <1>2, <1>3, <1>5, <1>6, <1>7 DEF QueueInv

\* The messages left, in their order.
LEMMA DroppedRest ==
  ASSUME TypeOK, QueueInv, NEW p \in Pool, Dropped(p), NEW x \in Pool, NEW i \in Sent(x)'
  PROVE  /\ i \in Int
         /\ osd'[x][i].req # osd[p][1].req
         /\ \E k \in Sent(x) :
              osd'[x][i] = osd[x][k] /\ (x = p => k = i + 1 /\ k # 1) /\ (x # p => k = i)
<1>1. i \in Nat \ {0}
  <2>1. Len(osd'[x]) \in Nat
    BY LenProperties DEF Dropped
  <2> QED
    BY <2>1 DEF Sent
<1>2. PICK k \in Sent(x) :
        osd'[x][i] = osd[x][k] /\ (x = p => k = i + 1 /\ k # 1) /\ (x # p => k = i)
  BY <1>1 DEF Dropped
<1>3. 1 \in Sent(p)
  BY DEF Dropped
<1> QED
  BY <1>1, <1>2, <1>3 DEF QueueInv

LEMMA Served ==
  ASSUME TypeOK, QueueInv, NEW p \in Pool, NEW r, Dropped(p),
         AnswerAdded(osd[p][1].req, r), UNCHANGED pc
  PROVE  QueueInv'
<1> DEFINE q == osd[p][1].req
<1>1. \A x \in Pool : \A i \in Sent(x)' :
        \E k \in Sent(x) : osd'[x][i] = osd[x][k]
  BY DroppedRest
<1>2. \A x \in Pool : \A i \in Sent(x)' : osd'[x][i].req # q
  BY DroppedRest
<1>3. \A i \in Answered : finisher[i].req # q
  BY DEF QueueInv, Dropped
<1>4. pc[q] \in {"sent", "copyup"}
  BY DEF QueueInv, Dropped
<1>5. ASSUME NEW x \in Pool, NEW y \in Pool, NEW i \in Sent(x)', NEW j \in Sent(y)',
             osd'[x][i].req = osd'[y][j].req
      PROVE  x = y /\ i = j
  <2>1. PICK k \in Sent(x) :
          osd'[x][i] = osd[x][k] /\ (x = p => k = i + 1) /\ (x # p => k = i)
    BY DroppedRest
  <2>2. PICK l \in Sent(y) :
          osd'[y][j] = osd[y][l] /\ (y = p => l = j + 1) /\ (y # p => l = j)
    BY DroppedRest
  <2>3. x = y /\ k = l
    BY <1>5, <2>1, <2>2 DEF QueueInv
  <2>4. i \in Int /\ j \in Int
    BY DroppedRest
  <2> QED
    BY <2>1, <2>2, <2>3, <2>4
<1>6. ASSUME NEW i \in Answered'
      PROVE  \/ i \in Answered /\ finisher'[i] = finisher[i]
             \/ i \notin Answered /\ i = Len(finisher) + 1 /\ finisher'[i].req = q
  BY DEF AnswerAdded
<1>7. \A x \in Pool : \A i \in Sent(x)' :
        /\ pc'[osd'[x][i].req] \in {"sent", "copyup"}
        /\ \A j \in Answered' : osd'[x][i].req # finisher'[j].req
  BY <1>1, <1>2, <1>6 DEF QueueInv
<1>8. \A i, j \in Answered' : finisher'[i].req = finisher'[j].req => i = j
  BY <1>3, <1>6 DEF QueueInv
<1>9. \A i \in Answered' : pc'[finisher'[i].req] \in {"sent", "copyup"}
  BY <1>4, <1>6 DEF QueueInv
<1> QED
  BY <1>5, <1>7, <1>8, <1>9 DEF QueueInv

\* Answers taken from the head keep their order.
LEMMA TakenRest ==
  ASSUME TypeOK, QueueInv, NEW q \in Request, NEW r, AnswerTaken(q, r)
  PROVE  /\ \A i \in Answered' : i + 1 \in Answered /\ finisher'[i] = finisher[i + 1]
                                 /\ finisher'[i].req # q /\ i \in Int
         /\ \A x \in Pool : \A i \in Sent(x) : osd[x][i].req # q
         /\ 1 \in Answered /\ finisher[1].req = q /\ finisher[1].res = r
         /\ pc[q] \in {"sent", "copyup"}
<1>1. Len(finisher') \in Nat
  BY LenProperties DEF AnswerTaken
<1>2. \A i \in Answered' : i \in Nat \ {0}
  BY <1>1 DEF Answered
<1>3. \A i \in Answered' : i + 1 # 1
  BY <1>2
<1>4. \A i \in Answered' : i + 1 \in Answered /\ finisher'[i] = finisher[i + 1]
  BY DEF AnswerTaken
<1>5. 1 \in Answered /\ finisher[1].req = q /\ finisher[1].res = r
  BY DEF AnswerTaken
<1>6. \A i \in Answered' : finisher[i + 1].req # q
  BY <1>3, <1>4, <1>5 DEF QueueInv
<1> QED
  BY <1>2, <1>4, <1>5, <1>6 DEF QueueInv

LEMMA Taken ==
  ASSUME TypeOK, QueueInv, NEW q \in Request, NEW r, AnswerTaken(q, r), UNCHANGED osd,
         NEW c, pc' = [pc EXCEPT ![q] = c]
  PROVE  QueueInv'
<1>1. \A x \in Request : x # q => pc'[x] = pc[x]
  BY DEF TypeOK
<1>2. \A x \in Pool : Sent(x)' = Sent(x)
  BY DEF Sent
<1>3. \A i, j \in Answered' : finisher'[i].req = finisher'[j].req => i = j
  BY TakenRest DEF QueueInv
<1>4. \A i \in Answered' : pc'[finisher'[i].req] \in {"sent", "copyup"}
  BY TakenRest, Typed, <1>1 DEF QueueInv
<1>5. \A x \in Pool : \A i \in Sent(x) : pc'[osd[x][i].req] \in {"sent", "copyup"}
  BY TakenRest, Typed, <1>1 DEF QueueInv
<1>6. \A x \in Pool : \A i \in Sent(x) : \A j \in Answered' : osd[x][i].req # finisher'[j].req
  BY TakenRest DEF QueueInv
<1> QED
  BY <1>2, <1>3, <1>4, <1>5, <1>6 DEF QueueInv

LEMMA Resent ==
  ASSUME TypeOK, QueueInv, NEW q \in Request, NEW r, AnswerTaken(q, r),
         NEW p \in Pool, NEW op, Added(p, q, op),
         pc' = [pc EXCEPT ![q] = "copyup"]
  PROVE  QueueInv'
<1>1. \A x \in Pool : \A i \in Sent(x) : osd[x][i].req \in Request /\ osd[x][i].req # q
  BY TakenRest, Typed
<1>2. \A i \in Answered' : i + 1 \in Answered /\ finisher'[i] = finisher[i + 1]
                           /\ finisher'[i].req # q
  BY TakenRest
<1>3. pc'[q] = "copyup" /\ \A x \in Request : x # q => pc'[x] = pc[x]
  BY DEF TypeOK
<1>4. \A i, j \in Answered' : finisher'[i].req = finisher'[j].req => i = j
  BY TakenRest DEF QueueInv
<1>5. \A i \in Answered' : pc'[finisher'[i].req] \in {"sent", "copyup"}
  BY TakenRest, Typed, <1>3 DEF QueueInv
<1>6. ASSUME NEW x \in Pool, NEW i \in Sent(x)'
      PROVE  /\ pc'[osd'[x][i].req] \in {"sent", "copyup"}
             /\ \A j \in Answered' : osd'[x][i].req # finisher'[j].req
  <2>1. CASE i \in Sent(x) /\ osd'[x][i] = osd[x][i]
    <3>1. pc'[osd'[x][i].req] \in {"sent", "copyup"}
      BY <2>1, <1>3, <1>1 DEF QueueInv
    <3>2. \A j \in Answered' : osd'[x][i].req # finisher'[j].req
      BY <2>1, <1>2 DEF QueueInv
    <3> QED
      BY <3>1, <3>2
  <2>2. CASE osd'[x][i].req = q
    BY <2>2, <1>3, <1>2
  <2> QED
    BY <2>1, <2>2 DEF Added
<1>7. ASSUME NEW x \in Pool, NEW y \in Pool, NEW i \in Sent(x)', NEW j \in Sent(y)',
             osd'[x][i].req = osd'[y][j].req
      PROVE  x = y /\ i = j
  <2>1. CASE i \in Sent(x) /\ osd'[x][i] = osd[x][i] /\ j \in Sent(y) /\ osd'[y][j] = osd[y][j]
    BY <1>7, <2>1 DEF QueueInv
  <2>2. CASE i \in Sent(x) /\ osd'[x][i] = osd[x][i] /\ osd'[y][j].req = q
    BY <1>1, <1>7, <2>2
  <2>3. CASE osd'[x][i].req = q /\ j \in Sent(y) /\ osd'[y][j] = osd[y][j]
    BY <1>1, <1>7, <2>3
  <2>4. CASE x = p /\ y = p /\ i = Len(osd[p]) + 1 /\ j = Len(osd[p]) + 1
    BY <2>4
  <2> QED
    BY <2>1, <2>2, <2>3, <2>4 DEF Added
<1> QED
  BY <1>4, <1>5, <1>6, <1>7 DEF QueueInv

LEMMA Aside ==
  ASSUME TypeOK, QueueInv, UNCHANGED <<osd, finisher>>,
         NEW q \in Request, pc[q] \in {"new", "begun", "parent"},
         NEW c, pc' = [pc EXCEPT ![q] = c]
  PROVE  QueueInv'
<1>1. \A x \in Request : x # q => pc'[x] = pc[x]
  BY DEF TypeOK
<1>2. (\A x \in Pool : Sent(x)' = Sent(x)) /\ Answered' = Answered
  BY DEF Sent, Answered
<1>3. /\ \A x \in Pool : \A i \in Sent(x) : osd[x][i].req \in Request /\ osd[x][i].req # q
      /\ \A i \in Answered : finisher[i].req \in Request /\ finisher[i].req # q
  BY Typed DEF QueueInv
<1> QED
  BY <1>1, <1>2, <1>3 DEF QueueInv

LEMMA QueuesUntouched ==
  ASSUME QueueInv, UNCHANGED <<osd, finisher, pc>>
  PROVE  QueueInv'
  BY DEF QueueInv, Sent, Answered

-----------------------------------------------------------------------------
(* Steps that leave the object and the parent alone.                       *)

\* A step keeps what holds of the requests and of the places of the object, and
\* what holds of its data if it did.
Onward == OpInv' /\ PlaceInv' /\ (DataInv => DataInv')

Quiet == UNCHANGED <<exists, content, home, source, removing, header, parent, wiped, astray,
                     hidden, orphaned, stray, faulted>>

\* q has no message on its way, and none of the answers left is to q.
Absent(q) ==
  /\ \A x \in Pool : \A i \in Sent(x) : osd[x][i].req # q
  /\ \A j \in Answered' : \E k \in Answered :
       finisher'[j] = finisher[k] /\ finisher[k].req # q

\* One request is sent.
LEMMA Sending ==
  ASSUME BaseInv, NEW p \in Pool, NEW q \in Request, NEW op \in Op, Added(p, q, op),
         Absent(q), Quiet, UNCHANGED <<result, must>>,
         NEW c \in {"sent", "copyup"}, pc' = [pc EXCEPT ![q] = c],
         \A x \in Request : x # q => pool'[x] = pool[x],
         pool'[q] \in {pool[q], DEFAULT_POOL},
         \A x \in Request \ Read : x # q => state'[x] = state[x],
         q \in Read <=> op = "read",
         q \in Remove <=> op \in {"truncate", "remove"},
         op = "read" => /\ q \in stray \/ p = home
                        /\ pc[q] \in {"begun", "chosen"} /\ c = "sent",
         op \in {"write", "zero", "remove"} => ~parent,
         op = "zero" => q \in Discard,
         op \in {"truncate", "remove", "copyup"} => p = DEFAULT_POOL,
         op = "copyup" => pc[q] = "parent",
         q \in Flatten => p = DEFAULT_POOL,
         q \in Remove => c = "sent"
  PROVE  Onward
<1> USE DEF BaseInv
<1>1. pc'[q] = c /\ \A x \in Request : x # q => pc'[x] = pc[x]
  BY DEF TypeOK
<1>2. \A x \in Pool : \A i \in Sent(x) :
        osd[x][i].req # q /\ osd[x][i].req \in Request /\ osd[x][i].op \in Op
  BY Typed DEF Absent
<1>3. \A j \in Answered' : \E k \in Answered :
        finisher'[j] = finisher[k] /\ finisher[k].req # q /\ finisher[k].req \in Request
  BY Typed DEF Absent
<1>4. ASSUME NEW x \in Pool, NEW i \in Sent(x)'
      PROVE  \/ i \in Sent(x) /\ osd'[x][i] = osd[x][i]
             \/ x = p /\ i = Len(osd[p]) + 1 /\ osd'[x][i].req = q /\ osd'[x][i].op = op
  BY DEF Added
<1>5. View' = View /\ Lost' = Lost /\ \A w \in Mutation : Kept(w)' = Kept(w)
  BY DEF Quiet, View, Lost, Kept
<1>6. OpInv'
  <2>1. ASSUME NEW x \in Pool, NEW i \in Sent(x)'
        PROVE  /\ osd'[x][i].req \in Read <=> osd'[x][i].op = "read"
               /\ osd'[x][i].req \in Remove <=> osd'[x][i].op \in {"truncate", "remove"}
               /\ osd'[x][i].op = "read" =>
                    /\ pc'[osd'[x][i].req] = "sent"
                    /\ osd'[x][i].req \in stray' \/ x = home'
               /\ osd'[x][i].op \in {"write", "zero", "remove"} => ~parent'
               /\ osd'[x][i].op = "zero" => osd'[x][i].req \in Discard
               /\ osd'[x][i].op \in {"truncate", "remove", "copyup"} => x = DEFAULT_POOL
               /\ osd'[x][i].req \in Flatten => x = DEFAULT_POOL
    <3>1. CASE i \in Sent(x) /\ osd'[x][i] = osd[x][i]
      BY <3>1, <1>1, <1>2 DEF OpInv, Quiet
    <3>2. CASE x = p /\ osd'[x][i].req = q /\ osd'[x][i].op = op
      BY <3>2, <1>1 DEF Quiet
    <3> QED
      BY <1>4, <3>1, <3>2
  <2>2. \A d \in Remove : pc'[d] \notin {"parent", "copyup"}
    BY <1>1, RequestKinds DEF OpInv
  <2>3. \A x \in Request \ Polled : pool'[x] = DEFAULT_POOL
    BY DEF OpInv
  <2>4. \A r \in Read \ stray' : pc'[r] = "chosen" => pool'[r] = home'
    BY <1>1, RequestKinds DEF OpInv, Quiet
  <2>5. \A x \in Request \ Read :
          pc'[x] \in {"begun", "chosen"} /\ state'[x] # LIBRBD_AIO_WRITE_GUARD => ~parent'
    BY <1>1 DEF OpInv, Quiet
  <2> QED
    BY <2>1, <2>2, <2>3, <2>4, <2>5 DEF OpInv
<1>12. PlaceInv'
  BY DEF PlaceInv, Quiet
<1> SUFFICES ASSUME DataInv PROVE DataInv'
  BY <1>6, <1>12 DEF Onward
<1> USE DEF DataInv
<1>0. Promised' = Promised /\ Promised \subseteq Read /\ must' = must
  BY DEF Promised, Quiet
<1>7. ObjectInv'
  BY DEF ObjectInv, Quiet
<1>8. ParentInv'
  <2>1. \A f \in Flatten : pc'[f] = "done" => pc[f] = "done"
    BY <1>1, RequestKinds
  <2> QED
    BY <2>1, <1>3, <1>5 DEF ParentInv, Quiet
<1>9. WriteInv'
  <2>1. \A w \in Mutation : pc'[w] = "done" => pc[w] = "done"
    BY <1>1, RequestKinds
  <2>2. \A i \in Answered' : finisher'[i].req \in Mutation /\ finisher'[i].res = "ok"
                               => Kept(finisher'[i].req)
    BY <1>3 DEF WriteInv
  <2> QED
    BY <2>1, <2>2, <1>5 DEF WriteInv
<1>10. DiscardInv'
  <2>1. \A x \in Request : pc'[x] = "parent" => parent \/ x \in orphaned
    BY <1>1 DEF DiscardInv
  <2>2. op = "copyup" => parent \/ q \in orphaned
    BY DEF DiscardInv
  <2>3. ASSUME NEW x \in Pool, NEW i \in Sent(x)', NEW j \in Sent(x)',
               osd'[x][i].op = "remove", osd'[x][j].op = "copyup"
        PROVE  j < i \/ osd'[x][j].req \in orphaned
    <3>1. CASE i \in Sent(x) /\ osd'[x][i] = osd[x][i] /\ j \in Sent(x) /\ osd'[x][j] = osd[x][j]
      BY <3>1, <2>3 DEF DiscardInv
    <3>2. CASE j \in Sent(x) /\ x = p /\ i = Len(osd[p]) + 1
      <4>1. Len(osd[p]) \in Nat
        BY Typed
      <4> QED
        BY <3>2, <4>1 DEF Sent
    <3>3. CASE /\ i \in Sent(x) /\ osd'[x][i] = osd[x][i]
               /\ osd'[x][j].op = op /\ osd'[x][j].req = q
      BY <3>3, <2>3, <2>2 DEF OpInv
    <3>4. CASE osd'[x][i].op = op /\ osd'[x][j].op = op
      BY <3>4, <2>3
    <3> QED
      BY <1>4, <3>1, <3>2, <3>3, <3>4
  <2>4. ASSUME NEW x \in Pool, x = home, ~exists[x], ~parent,
               NEW i \in Sent(x)', osd'[x][i].op = "copyup"
        PROVE  osd'[x][i].req \in orphaned
    <3>1. CASE i \in Sent(x) /\ osd'[x][i] = osd[x][i]
      BY <2>4, <3>1 DEF DiscardInv
    <3>2. CASE osd'[x][i].req = q /\ osd'[x][i].op = op
      BY <2>2, <2>4, <3>2
    <3> QED
      BY <3>1, <3>2, <1>4
  <2>5. /\ parent' /\ Lost' => exists'[home']
        /\ Parent \in wiped' /\ Late' = {} => Parent \notin content'[home']
    BY <1>5 DEF DiscardInv, Quiet, Late
  <2> QED
    BY <2>1, <2>3, <2>4, <2>5 DEF DiscardInv, Quiet
<1>11. ReadInv'
  <2>1. ASSUME NEW x \in Pool, NEW i \in Sent(x)',
               osd'[x][i].op = "read", osd'[x][i].req \in Promised'
        PROVE  must'[osd'[x][i].req] \subseteq View'
    <3>1. CASE i \in Sent(x) /\ osd'[x][i] = osd[x][i]
      BY <3>1, <2>1, <1>2, <1>5, <1>0 DEF OpInv, ReadInv
    <3>2. CASE osd'[x][i].req = q /\ osd'[x][i].op = op
      BY <3>2, <2>1, <1>5, <1>0 DEF ReadInv
    <3> QED
      BY <1>4, <3>1, <3>2
  <2>2. ASSUME NEW i \in Answered', finisher'[i].req \in Promised'
        PROVE  LET r == finisher'[i].req IN
               /\ pc'[r] = "sent"
               /\ finisher'[i].res = "ok" => must'[r] \subseteq result'[r]
               /\ finisher'[i].res = "enoent" => must'[r] \subseteq IF parent' THEN {Parent} ELSE {}
    <3>1. PICK k \in Answered : finisher'[i] = finisher[k] /\ finisher[k].req # q
                                /\ finisher[k].req \in Request
      BY <1>3
    <3> QED
      BY <3>1, <2>2, <1>1, <1>0 DEF ReadInv, Quiet
  <2>3. \A r \in Promised' :
          /\ pc'[r] \in {"begun", "chosen"} => must'[r] \subseteq View'
          /\ pc'[r] = "parent" => must'[r] \subseteq {Parent}
          /\ pc'[r] = "done" => must'[r] \subseteq result'[r]
    BY <1>0, <1>1, <1>5, RequestKinds DEF ReadInv
  <2> QED
    BY <2>1, <2>2, <2>3 DEF ReadInv
<1> QED
  BY <1>7, <1>8, <1>9, <1>10, <1>11

\* One request goes on without sending anything.
LEMMA GoingOn ==
  ASSUME BaseInv, NEW q \in Request, Absent(q), Quiet, UNCHANGED <<osd, must, pool>>,
         NEW c \in {"parent", "done", "failed", "hung"}, pc' = [pc EXCEPT ![q] = c],
         \A x \in Request \ Read : x # q => state'[x] = state[x],
         \A r \in Read : r # q => result'[r] = result[r],
         c = "parent" => parent /\ q \notin Remove,
         DataInv => /\ c = "parent" /\ q \in Promised => must[q] \subseteq {Parent}
                    /\ c = "done" /\ q \in Flatten => Lost \/ exists[home]
                    /\ c = "done" /\ q \in Mutation => Kept(q)
                    /\ c = "done" /\ q \in Promised => must[q] \subseteq result'[q]
  PROVE  Onward
<1> USE DEF BaseInv
<1>1. pc'[q] = c /\ \A x \in Request : x # q => pc'[x] = pc[x]
  BY DEF TypeOK
<1>2. \A x \in Pool : \A i \in Sent(x) : osd[x][i].req # q /\ osd[x][i].req \in Request
  BY Typed DEF Absent
<1>3. \A j \in Answered' : \E k \in Answered :
        finisher'[j] = finisher[k] /\ finisher[k].req # q /\ finisher[k].req \in Request
  BY Typed DEF Absent
<1>4. \A x \in Pool : Sent(x)' = Sent(x)
  BY DEF Sent
<1>5. View' = View /\ Lost' = Lost /\ \A w \in Mutation : Kept(w)' = Kept(w)
  BY DEF Quiet, View, Lost, Kept
<1>6. OpInv'
  <2>1. \A d \in Remove : pc'[d] \notin {"parent", "copyup"}
    BY <1>1, RequestKinds DEF OpInv
  <2>2. \A r \in Read \ stray' : pc'[r] = "chosen" => pool'[r] = home'
    BY <1>1, RequestKinds DEF OpInv, Quiet
  <2>3. \A x \in Request \ Read :
          pc'[x] \in {"begun", "chosen"} /\ state'[x] # LIBRBD_AIO_WRITE_GUARD => ~parent'
    BY <1>1 DEF OpInv, Quiet
  <2> QED
    BY <2>1, <2>2, <2>3, <1>1, <1>2, <1>4 DEF OpInv, Quiet
<1>12. PlaceInv'
  BY DEF PlaceInv, Quiet
<1> SUFFICES ASSUME DataInv PROVE DataInv'
  BY <1>6, <1>12 DEF Onward
<1> USE DEF DataInv
<1>0. Promised' = Promised /\ Promised \subseteq Read /\ must' = must
  BY DEF Promised, Quiet
<1>7. ObjectInv'
  BY DEF ObjectInv, Quiet
<1>8. ParentInv'
  <2>1. \A f \in Flatten : pc'[f] = "done" => Lost \/ exists[home]
    BY <1>1, RequestKinds DEF ParentInv
  <2> QED
    BY <2>1, <1>3, <1>5 DEF ParentInv, Quiet
<1>9. WriteInv'
  <2>1. \A w \in Mutation : pc'[w] = "done" => Kept(w)
    BY <1>1, RequestKinds DEF WriteInv
  <2>2. \A i \in Answered' : finisher'[i].req \in Mutation /\ finisher'[i].res = "ok"
                               => Kept(finisher'[i].req)
    BY <1>3 DEF WriteInv
  <2> QED
    BY <2>1, <2>2, <1>5 DEF WriteInv
<1>10. DiscardInv'
  <2>1. \A x \in Request : pc'[x] = "parent" => parent \/ x \in orphaned
    BY <1>1 DEF DiscardInv
  <2>3. Late' = Late
    BY DEF Late, Quiet
  <2> QED
    BY <2>1, <2>3, <1>4, <1>5 DEF DiscardInv, Quiet
<1>11. ReadInv'
  <2>1. ASSUME NEW i \in Answered', finisher'[i].req \in Promised'
        PROVE  LET r == finisher'[i].req IN
               /\ pc'[r] = "sent"
               /\ finisher'[i].res = "ok" => must'[r] \subseteq result'[r]
               /\ finisher'[i].res = "enoent" => must'[r] \subseteq IF parent' THEN {Parent} ELSE {}
    <3>1. PICK k \in Answered : finisher'[i] = finisher[k] /\ finisher[k].req # q
                                /\ finisher[k].req \in Request
      BY <1>3
    <3> QED
      BY <3>1, <2>1, <1>1, <1>0 DEF ReadInv, Quiet
  <2>2. ASSUME NEW r \in Promised'
        PROVE  /\ pc'[r] \in {"begun", "chosen"} => must'[r] \subseteq View'
               /\ pc'[r] = "parent" => must'[r] \subseteq {Parent}
               /\ pc'[r] = "done" => must'[r] \subseteq result'[r]
    BY <1>0, <1>1, <1>5, RequestKinds DEF ReadInv
  <2>3. \A x \in Pool : \A i \in Sent(x)' :
          osd'[x][i].op = "read" /\ osd'[x][i].req \in Promised'
            => must'[osd'[x][i].req] \subseteq View'
    BY <1>0, <1>4, <1>5 DEF ReadInv
  <2> QED
    BY <2>1, <2>2, <2>3 DEF ReadInv
<1> QED
  BY <1>7, <1>8, <1>9, <1>10, <1>11

LEMMA TakenAbsent ==
  ASSUME TypeOK, QueueInv, NEW q \in Request, NEW r, AnswerTaken(q, r)
  PROVE  Absent(q)
<1>1. \A x \in Pool : \A i \in Sent(x) : osd[x][i].req # q
  BY TakenRest
<1>2. \A j \in Answered' : j + 1 \in Answered /\ finisher'[j] = finisher[j + 1]
                           /\ finisher[j + 1].req # q
  BY TakenRest
<1> QED
  BY <1>1, <1>2 DEF Absent

LEMMA IdleAbsent ==
  ASSUME QueueInv, NEW q \in Request, UNCHANGED finisher,
         pc[q] \in {"new", "begun", "chosen", "parent"}
  PROVE  Absent(q)
<1>1. Answered' = Answered
  BY DEF Answered
<1> QED
  BY <1>1 DEF Absent, QueueInv

\* A request is prepared: its pool, or its guard and what it has to return, is set.
LEMMA Preparing ==
  ASSUME BaseInv, NEW q \in Request, Quiet, UNCHANGED <<osd, finisher, result>>,
         NEW c \in {"begun", "chosen"}, pc' = [pc EXCEPT ![q] = c],
         pc[q] \in {"new", "begun"},
         \A x \in Request : x # q => pool'[x] = pool[x],
         pool'[q] = IF c = "chosen" THEN home ELSE pool[q],
         \A x \in Request \ Read : x # q => state'[x] = state[x],
         q \notin Read /\ state'[q] # LIBRBD_AIO_WRITE_GUARD => ~parent,
         c = "chosen" => q \in Polled,
         \A r \in Read : r # q => must'[r] = must[r],
         q \in Read => must'[q] = View \/ (must'[q] = must[q] /\ pc[q] = "begun")
  PROVE  QueueInv' /\ Onward
<1> USE DEF BaseInv
<1>1. pc'[q] = c /\ \A x \in Request : x # q => pc'[x] = pc[x]
  BY DEF TypeOK
<1>2. /\ \A x \in Pool : \A i \in Sent(x) : osd[x][i].req # q /\ osd[x][i].req \in Request
      /\ \A i \in Answered : finisher[i].req # q /\ finisher[i].req \in Request
  BY Typed DEF QueueInv
<1>3. (\A x \in Pool : Sent(x)' = Sent(x)) /\ Answered' = Answered
  BY DEF Sent, Answered
<1>4. QueueInv'
  BY Aside
<1>5. OpInv'
  <2>1. \A d \in Remove : pc'[d] \notin {"parent", "copyup"}
    BY <1>1, RequestKinds DEF OpInv
  <2>2. \A x \in Request \ Polled : pool'[x] = DEFAULT_POOL
    BY RequestKinds DEF OpInv
  <2>3. \A r \in Read \ stray' : pc'[r] = "chosen" => pool'[r] = home'
    BY <1>1, RequestKinds DEF OpInv, Quiet
  <2>4. \A x \in Request \ Read :
          pc'[x] \in {"begun", "chosen"} /\ state'[x] # LIBRBD_AIO_WRITE_GUARD => ~parent'
    BY <1>1 DEF OpInv, Quiet
  <2> QED
    BY <2>1, <2>2, <2>3, <2>4, <1>1, <1>2, <1>3 DEF OpInv, Quiet
<1>6. PlaceInv'
  BY DEF PlaceInv, Quiet
<1> SUFFICES ASSUME DataInv PROVE DataInv'
  BY <1>4, <1>5, <1>6 DEF Onward
<1> USE DEF DataInv
<1>7. View' = View /\ Lost' = Lost /\ Late' = Late /\ \A w \in Mutation : Kept(w)' = Kept(w)
  BY DEF Quiet, View, Lost, Late, Kept
<1>8. ObjectInv'
  BY DEF ObjectInv, Quiet
<1>9. ParentInv'
  <2>1. \A f \in Flatten : pc'[f] = "done" => pc[f] = "done"
    BY <1>1, RequestKinds
  <2> QED
    BY <2>1, <1>3, <1>7 DEF ParentInv, Quiet
<1>10. WriteInv'
  <2>1. \A w \in Mutation : pc'[w] = "done" => pc[w] = "done"
    BY <1>1, RequestKinds
  <2> QED
    BY <2>1, <1>3, <1>7 DEF WriteInv
<1>11. DiscardInv'
  <2>1. \A x \in Request : pc'[x] = "parent" => parent \/ x \in orphaned
    BY <1>1 DEF DiscardInv
  <2> QED
    BY <2>1, <1>3, <1>7 DEF DiscardInv, Quiet
<1>12. ReadInv'
  <2>1. Promised' = Promised /\ Promised \subseteq Read /\ Read \subseteq Request
    BY RequestKinds DEF Promised, Quiet
  <2>2. \A x \in Pool : \A i \in Sent(x) : osd[x][i].op = "read" => osd[x][i].req \in Read
    BY DEF OpInv
  <2>3. \A x \in Pool : \A i \in Sent(x)' :
          osd'[x][i].op = "read" /\ osd'[x][i].req \in Promised'
            => must'[osd'[x][i].req] \subseteq View'
    BY <2>1, <2>2, <1>2, <1>3, <1>7 DEF ReadInv
  <2>4. ASSUME NEW i \in Answered', finisher'[i].req \in Promised'
        PROVE  LET r == finisher'[i].req IN
               /\ pc'[r] = "sent"
               /\ finisher'[i].res = "ok" => must'[r] \subseteq result'[r]
               /\ finisher'[i].res = "enoent" => must'[r] \subseteq IF parent' THEN {Parent} ELSE {}
    BY <2>1, <2>4, <1>1, <1>2, <1>3 DEF ReadInv, Quiet
  <2>5. ASSUME NEW r \in Promised'
        PROVE  /\ pc'[r] \in {"begun", "chosen"} => must'[r] \subseteq View'
               /\ pc'[r] = "parent" => must'[r] \subseteq {Parent}
               /\ pc'[r] = "done" => must'[r] \subseteq result'[r]
    BY <2>1, <1>1, <1>7 DEF ReadInv
  <2> QED
    BY <2>3, <2>4, <2>5 DEF ReadInv
<1> QED
  BY <1>8, <1>9, <1>10, <1>11, <1>12

\* The operation a request is built with fits its kind and the state of the image.
LEMMA BuiltOp ==
  ASSUME BaseInv, NEW q \in Request, pc[q] \in {"begun", "chosen"}
  PROVE  /\ Built(q) \in Op
         /\ q \in Read <=> Built(q) = "read"
         /\ q \in Remove <=> Built(q) \in {"truncate", "remove"}
         /\ Built(q) \in {"write", "zero", "remove"} => ~parent
         /\ Built(q) = "zero" => q \in Discard
         /\ Built(q) # "copyup"
         /\ Built(q) = "guarded" => q \in Guarded /\ state[q] = LIBRBD_AIO_WRITE_GUARD
  BY RequestKinds DEF Built, Plain, Op, BaseInv, OpInv

LEMMA SendInv ==
  ASSUME BaseInv, NEW q \in Request, SendStep(q)
  PROVE  QueueInv' /\ Onward
<1> USE DEF BaseInv
<1>1. CASE Begin(q)
  <2>1. Quiet /\ UNCHANGED <<osd, finisher, result, pool>> /\ pc[q] = "new"
        /\ pc' = [pc EXCEPT ![q] = "begun"]
    BY <1>1 DEF Begin, Quiet, objVars, moveVars
  <2>2. /\ \A x \in Request \ Read : x # q => state'[x] = state[x]
        /\ q \notin Read /\ state'[q] # LIBRBD_AIO_WRITE_GUARD => ~parent
    BY <1>1 DEF Begin, TypeOK
  <2>3. /\ \A r \in Read : r # q => must'[r] = must[r]
        /\ q \in Read => must'[q] = View
    BY <1>1 DEF Begin, TypeOK
  <2> QED
    BY <2>1, <2>2, <2>3, Preparing
<1>2. CASE GetPool(q)
  <2>1. Quiet /\ UNCHANGED <<osd, finisher, result, state, must>> /\ pc[q] = "begun"
        /\ pc' = [pc EXCEPT ![q] = "chosen"] /\ q \in Polled
    BY <1>2 DEF GetPool, Quiet, objVars, moveVars, histVars
  <2>2. pool'[q] = home /\ \A x \in Request : x # q => pool'[x] = pool[x]
    BY <1>2 DEF GetPool, TypeOK
  <2>3. q \notin Read /\ state'[q] # LIBRBD_AIO_WRITE_GUARD => ~parent
    BY <2>1 DEF OpInv
  <2> QED
    BY <2>1, <2>2, <2>3, Preparing
<1>3. CASE Send(q)
  <2> DEFINE op == Built(q)
             p  == pool[q]
  <2>1. Quiet /\ UNCHANGED <<result, must, state, finisher>>
        /\ pc' = [pc EXCEPT ![q] = "sent"] /\ Submit(p, q, op)
    BY <1>3 DEF Send, Quiet, objVars, moveVars, histVars
  <2>2. pc[q] \in {"begun", "chosen"} /\ p \in Pool
    BY <1>3 DEF Send, TypeOK
  <2>3. /\ op \in Op
        /\ q \in Read <=> op = "read"
        /\ q \in Remove <=> op \in {"truncate", "remove"}
        /\ op \in {"write", "zero", "remove"} => ~parent
        /\ op # "copyup" /\ (op = "zero" => q \in Discard)
    BY <2>2, BuiltOp
  <2>4. q \notin Polled => p = DEFAULT_POOL
    BY DEF OpInv
  <2>5. q \in Read => q \in stray \/ p = home
    BY <1>3, RequestKinds DEF Send, OpInv
  <2>6. pool'[q] = DEFAULT_POOL /\ \A x \in Request : x # q => pool'[x] = pool[x]
    BY <1>3 DEF Send, TypeOK
  <2> HIDE DEF op, p
  <2>7. Added(p, q, op) /\ Absent(q)
    BY <2>1, <2>2, <2>3, SubmitAdds, IdleAbsent
  <2>8. QueueInv'
    BY <2>1, <2>2, <2>7, Enqueued
  <2>9. /\ op = "read" => (q \in stray \/ p = home) /\ pc[q] \in {"begun", "chosen"}
        /\ op \in {"truncate", "remove", "copyup"} => p = DEFAULT_POOL
        /\ q \in Flatten => p = DEFAULT_POOL
        /\ op = "copyup" => pc[q] = "parent"
    BY <2>2, <2>3, <2>4, <2>5, RequestKinds
  <2>10. /\ \A x \in Request \ Read : x # q => state'[x] = state[x]
         /\ pool'[q] \in {pool[q], DEFAULT_POOL}
    BY <2>1, <2>6
  <2>11. Onward
    BY <2>1, <2>2, <2>3, <2>6, <2>7, <2>9, <2>10, Sending
  <2> QED
    BY <2>8, <2>11
<1> QED
  BY <1>1, <1>2, <1>3 DEF SendStep

LEMMA HandleInv ==
  ASSUME BaseInv, NEW q \in Request, Handle(q)
  PROVE  QueueInv' /\ Onward
<1> USE DEF BaseInv
<1>1. CASE Missed(q)
  <2>1. AnswerTaken(q, "enoent")
    BY <1>1, ReplyTakes DEF Missed
  <2>2. Quiet /\ UNCHANGED <<osd, must, result, pool>> /\ parent
        /\ pc' = [pc EXCEPT ![q] = "parent"]
    BY <1>1 DEF Missed, Quiet, objVars, moveVars, histVars
  <2>7. \A x \in Request \ Read : x # q => state'[x] = state[x]
    BY <1>1 DEF Missed, TypeOK
  <2>3. DataInv /\ q \in Promised => must[q] \subseteq {Parent}
    BY <2>1, <2>2 DEF AnswerTaken, DataInv, ReadInv
  <2>4. q \notin Remove
    BY <1>1, RequestKinds DEF Missed
  <2>5. QueueInv'
    BY <2>1, <2>2, Taken
  <2>6. Onward
    BY <2>1, <2>2, <2>3, <2>4, <2>7, TakenAbsent, GoingOn
  <2> QED
    BY <2>5, <2>6
<1>2. CASE NullCopyup(q)
  <2>1. Plain(q) \in {"write", "zero"} /\ Plain(q) \in Op /\ DEFAULT_POOL \in Pool
        /\ Submit(DEFAULT_POOL, q, Plain(q)) /\ (Plain(q) = "zero" => q \in Discard)
    BY <1>2 DEF NullCopyup, Plain, Op
  <2>2. AnswerTaken(q, "enoent") /\ Added(DEFAULT_POOL, q, Plain(q))
    BY <1>2, <2>1, ReplyTakes, SubmitAdds DEF NullCopyup
  <2>7. \A x \in Request \ Read : x # q => state'[x] = state[x]
    BY <1>2 DEF NullCopyup, TypeOK
  <2>3. Quiet /\ UNCHANGED <<must, result, pool>> /\ ~parent
        /\ pc' = [pc EXCEPT ![q] = "copyup"]
    BY <1>2 DEF NullCopyup, Quiet, objVars, moveVars, histVars
  <2>4. q \notin Read /\ q \notin Remove
    BY <1>2, RequestKinds DEF NullCopyup
  <2>5. QueueInv'
    BY <2>1, <2>2, <2>3, Resent
  <2>6. Onward
    BY <2>1, <2>2, <2>3, <2>4, <2>7, TakenAbsent, Sending
  <2> QED
    BY <2>5, <2>6
<1>3. CASE \E r \in {"ok", "enoent", "error"} : Finish(q, r)
  <2>1. PICK r \in {"ok", "enoent", "error"} : Finish(q, r)
    BY <1>3
  <2> DEFINE c == IF r = "error" THEN "failed" ELSE "done"
  <2>2. AnswerTaken(q, r)
    BY <2>1, ReplyTakes DEF Finish
  <2>3. Quiet /\ UNCHANGED <<osd, must, result, pool, state>> /\ pc' = [pc EXCEPT ![q] = c]
        /\ (r = "enoent" => q \in Remove \/ (q \in Read /\ ~parent))
    BY <2>1 DEF Finish, Quiet, objVars, moveVars, histVars
  <2>4. c \in {"failed", "done"} /\ (c = "done" => r \in {"ok", "enoent"})
    OBVIOUS
  <2> HIDE DEF c
  <2>5. DataInv /\ c = "done" /\ q \in Flatten => Lost \/ exists[home]
    BY <2>2, <2>3, <2>4, RequestKinds DEF AnswerTaken, DataInv, ParentInv
  <2>6. DataInv /\ c = "done" /\ q \in Mutation => Kept(q)
    BY <2>2, <2>3, <2>4, RequestKinds DEF AnswerTaken, DataInv, WriteInv
  <2>7. DataInv /\ c = "done" /\ q \in Promised => must[q] \subseteq result[q]
    BY <2>2, <2>3, <2>4, RequestKinds DEF AnswerTaken, DataInv, ReadInv, Promised
  <2>8. QueueInv'
    BY <2>2, <2>3, Taken
  <2>9. Onward
    BY <2>2, <2>3, <2>4, <2>5, <2>6, <2>7, TakenAbsent, GoingOn
  <2> QED
    BY <2>8, <2>9
<1> QED
  BY <1>1, <1>2, <1>3 DEF Handle

LEMMA ParentStepInv ==
  ASSUME BaseInv, NEW q \in Request, ParentStep(q)
  PROVE  QueueInv' /\ Onward
<1> USE DEF BaseInv
<1>1. CASE ParentAnswers(q) /\ q \in Read
  <2>1. Quiet /\ UNCHANGED <<osd, must, finisher, pool, state>> /\ pc[q] = "parent"
        /\ pc' = [pc EXCEPT ![q] = "done"] /\ result' = [result EXCEPT ![q] = {Parent}]
    BY <1>1 DEF ParentAnswers, Quiet, objVars, moveVars, histVars
  <2>2. q \notin Mutation /\ q \notin Flatten
    BY <1>1, RequestKinds
  <2>3. result'[q] = {Parent} /\ \A r \in Read : r # q => result'[r] = result[r]
    BY <1>1, <2>1 DEF TypeOK
  <2>4. DataInv /\ q \in Promised => must[q] \subseteq result'[q]
    BY <1>1, <2>1, <2>3 DEF DataInv, ReadInv
  <2>5. QueueInv'
    BY <2>1, Aside
  <2>6. Onward
    BY <2>1, <2>2, <2>3, <2>4, IdleAbsent, GoingOn
  <2> QED
    BY <2>5, <2>6
<1>2. CASE ParentAnswers(q) /\ q \notin Read
  <2>7. \A x \in Request \ Read : x # q => state'[x] = state[x]
    BY <1>2 DEF ParentAnswers, TypeOK
  <2>1. Quiet /\ UNCHANGED <<must, result, finisher, pool>> /\ pc[q] = "parent"
        /\ pc' = [pc EXCEPT ![q] = "copyup"] /\ Submit(DEFAULT_POOL, q, "copyup")
    BY <1>2 DEF ParentAnswers, Quiet, objVars, moveVars, histVars
  <2>2. "copyup" \in Op /\ DEFAULT_POOL \in Pool
    BY DEF Op
  <2>3. Added(DEFAULT_POOL, q, "copyup")
    BY <2>1, <2>2, SubmitAdds
  <2>4. q \notin Remove
    BY <2>1 DEF OpInv
  <2>5. QueueInv'
    BY <2>1, <2>2, <2>3, Enqueued
  <2>6. Onward
    <3>1. Absent(q)
      BY <2>1, IdleAbsent
    <3>2. pool'[q] \in {pool[q], DEFAULT_POOL} /\ \A x \in Request : x # q => pool'[x] = pool[x]
      BY <2>1
    <3> QED
      BY <1>2, <2>1, <2>2, <2>3, <2>4, <2>7, <3>1, <3>2, Sending
  <2> QED
    BY <2>5, <2>6
<1>3. CASE ParentFails(q) \/ ParentRefuses(q)
  <2>1. PICK c \in {"failed", "hung"} : pc' = [pc EXCEPT ![q] = c]
    BY <1>3 DEF ParentFails, ParentRefuses
  <2>2. Quiet /\ UNCHANGED <<osd, must, result, finisher, pool, state>> /\ pc[q] = "parent"
    BY <1>3 DEF ParentFails, ParentRefuses, Quiet, objVars, moveVars, histVars
  <2>3. QueueInv'
    BY <2>1, <2>2, Aside
  <2>4. Onward
    BY <2>1, <2>2, IdleAbsent, GoingOn
  <2> QED
    BY <2>3, <2>4
<1> QED
  BY <1>1, <1>2, <1>3 DEF ParentStep

-----------------------------------------------------------------------------
(* RADOS serves or refuses the oldest request on its way to an object.     *)

\* What is left on its way obeys the same rules.
LEMMA DroppedOps ==
  ASSUME BaseInv, NEW p \in Pool, Dropped(p),
         UNCHANGED <<home, parent, pc, pool, state, stray, orphaned>>
  PROVE  /\ OpInv'
         /\ DataInv => \A x \in Pool : \A i, j \in Sent(x)' :
              osd'[x][i].op = "remove" /\ osd'[x][j].op = "copyup" =>
                j < i \/ osd'[x][j].req \in orphaned'
<1> USE DEF BaseInv
<1>1. OpInv'
  <2>1. ASSUME NEW x \in Pool, NEW i \in Sent(x)'
        PROVE  /\ osd'[x][i].req \in Read <=> osd'[x][i].op = "read"
               /\ osd'[x][i].req \in Remove <=> osd'[x][i].op \in {"truncate", "remove"}
               /\ osd'[x][i].op = "read" =>
                    /\ pc'[osd'[x][i].req] = "sent"
                    /\ osd'[x][i].req \in stray' \/ x = home'
               /\ osd'[x][i].op \in {"write", "zero", "remove"} => ~parent'
               /\ osd'[x][i].op = "zero" => osd'[x][i].req \in Discard
               /\ osd'[x][i].op \in {"truncate", "remove", "copyup"} => x = DEFAULT_POOL
               /\ osd'[x][i].req \in Flatten => x = DEFAULT_POOL
    BY DroppedRest DEF OpInv
  <2> QED
    BY <2>1 DEF OpInv
<1>2. ASSUME DataInv, NEW x \in Pool, NEW i \in Sent(x)', NEW j \in Sent(x)',
             osd'[x][i].op = "remove", osd'[x][j].op = "copyup"
      PROVE  j < i \/ osd'[x][j].req \in orphaned'
  <2>1. PICK k \in Sent(x) :
          osd'[x][i] = osd[x][k] /\ (x = p => k = i + 1) /\ (x # p => k = i)
    BY DroppedRest
  <2>2. PICK l \in Sent(x) :
          osd'[x][j] = osd[x][l] /\ (x = p => l = j + 1) /\ (x # p => l = j)
    BY DroppedRest
  <2>3. l < k \/ osd[x][l].req \in orphaned
    BY <1>2, <2>1, <2>2 DEF DataInv, DiscardInv
  <2>4. i \in Int /\ j \in Int
    BY DroppedRest
  <2> QED
    BY <2>1, <2>2, <2>3, <2>4
<1> QED
  BY <1>1, <1>2

LEMMA RefuseInv ==
  ASSUME BaseInv, NEW p \in Pool, Refuse(p)
  PROVE  QueueInv' /\ Onward
<1> USE DEF BaseInv
<1> DEFINE q == osd[p][1].req
<1>1. Dropped(p) /\ Head(osd[p]) = osd[p][1]
  BY TailDrops DEF Refuse
<1>2. q \in Request
  BY <1>1, Typed DEF Dropped
<1>3. AnswerAdded(q, "error")
  BY <1>1, <1>2, AnswerAdds DEF Refuse
<1>4. Quiet /\ UNCHANGED <<pc, pool, state, result, must>>
  BY DEF Refuse, Quiet, objVars, moveVars, reqVars, histVars
<1>5. QueueInv'
  BY <1>1, <1>3, <1>4, Served
<1>6. \A i \in Answered' : (i \in Answered /\ finisher'[i] = finisher[i])
                           \/ (finisher'[i].req = q /\ finisher'[i].res = "error")
  BY <1>3 DEF AnswerAdded
<1>7. View' = View /\ Lost' = Lost /\ \A w \in Mutation : Kept(w)' = Kept(w)
  BY <1>4 DEF Quiet, View, Lost, Kept
<1>8. OpInv'
  BY <1>1, <1>4, DroppedOps DEF Quiet
<1>12. PlaceInv'
  BY <1>4 DEF PlaceInv, Quiet
<1> SUFFICES ASSUME DataInv PROVE DataInv'
  BY <1>5, <1>8, <1>12 DEF Onward
<1> USE DEF DataInv
<1>9. ObjectInv' /\ ParentInv' /\ WriteInv'
  BY <1>4, <1>6, <1>7 DEF Quiet, ObjectInv, ParentInv, WriteInv
<1>10. DiscardInv'
  <2>2. \A x \in Pool : \A i \in Sent(x)' : \E k \in Sent(x) : osd'[x][i] = osd[x][k]
    BY <1>1, DroppedRest
  <2>3. \A x \in Pool : \A i, j \in Sent(x)' :
          osd'[x][i].op = "remove" /\ osd'[x][j].op = "copyup" =>
            j < i \/ osd'[x][j].req \in orphaned'
    BY <1>1, <1>4, DroppedOps DEF Quiet
  <2>4. Late' = Late
    BY <1>4 DEF Late, Quiet
  <2> QED
    BY <1>4, <1>7, <2>2, <2>3, <2>4 DEF Quiet, DiscardInv
<1>11. ReadInv'
  <2>1. \A x \in Pool : \A i \in Sent(x)' : \E k \in Sent(x) : osd'[x][i] = osd[x][k]
    BY <1>1, DroppedRest
  <2>2. ASSUME NEW x \in Pool, NEW i \in Sent(x)',
               osd'[x][i].op = "read", osd'[x][i].req \in Promised'
        PROVE  must'[osd'[x][i].req] \subseteq View'
    BY <1>4, <1>7, <2>1, <2>2 DEF Quiet, ReadInv, Promised
  <2>3. q \in Read => pc[q] = "sent"
    BY <1>1 DEF Dropped, OpInv
  <2>4. ASSUME NEW i \in Answered', finisher'[i].req \in Promised'
        PROVE  LET r == finisher'[i].req IN
               /\ pc'[r] = "sent"
               /\ finisher'[i].res = "ok" => must'[r] \subseteq result'[r]
               /\ finisher'[i].res = "enoent" => must'[r] \subseteq IF parent' THEN {Parent} ELSE {}
    BY <1>4, <1>6, <2>3, <2>4 DEF Quiet, ReadInv, Promised
  <2>5. ASSUME NEW r \in Promised'
        PROVE  /\ pc'[r] \in {"begun", "chosen"} => must'[r] \subseteq View'
               /\ pc'[r] = "parent" => must'[r] \subseteq {Parent}
               /\ pc'[r] = "done" => must'[r] \subseteq result'[r]
    BY <1>4, <1>7, <2>5 DEF Quiet, ReadInv, Promised
  <2> QED
    BY <2>2, <2>4, <2>5 DEF ReadInv
<1> QED
  BY <1>9, <1>10, <1>11

\* RADOS takes the data of the object away from the user.
Wipes(op, p) == op \in {"truncate", "remove"} /\ exists[p] /\ p = home

\* There is no object to zero a range of.
Vain(op, p) == op = "zero" /\ ~exists[p] /\ p = home

\* What Serve does, the request it serves being the first in the queue.
LEMMA ServeFacts ==
  ASSUME BaseInv, NEW p \in Pool, Serve(p),
         NEW q, q = osd[p][1].req, NEW op, op = osd[p][1].op
  PROVE  /\ Dropped(p) /\ q \in Request /\ op \in Op
         /\ AnswerAdded(q, Reply(op, p))
         /\ content' = [content EXCEPT ![p] = Holds(op, q, p)]
         /\ exists' = [exists EXCEPT ![p] = Remains(op, p)]
         /\ result' = IF op = "read" THEN [result EXCEPT ![q] = content[p]] ELSE result
         /\ wiped' = IF Wipes(op, p) THEN wiped \cup content[p]
                     ELSE IF Vain(op, p) THEN wiped \cup ({q} \cap Mutation) ELSE wiped
         /\ must' = IF Wipes(op, p) THEN [r \in Read |-> {}] ELSE must
         /\ astray' = IF q \in Mutation /\ p # home /\ Reply(op, p) = "ok" THEN astray \cup {q}
                      ELSE astray
         /\ UNCHANGED <<home, source, removing, header, parent, pc, pool, state, hidden,
                        orphaned, stray, faulted>>
<1> USE DEF BaseInv
<1>1. Dropped(p) /\ Head(osd[p]) = osd[p][1]
  BY TailDrops DEF Serve
<1>2. q \in Request /\ op \in Op
  BY <1>1, Typed DEF Dropped
<1>3. Reply(op, p) \in {"ok", "enoent", "error"}
  BY <1>2, HoldsData
<1>4. finisher' = Append(finisher, [req |-> q, res |-> Reply(op, p)])
  BY <1>1 DEF Serve
<1>5. AnswerAdded(q, Reply(op, p))
  BY <1>2, <1>3, <1>4, AnswerAdds
<1> QED
  BY <1>1, <1>2, <1>5 DEF Serve, Wipes, Vain, moveVars

\* The rules of the message served.
LEMMA ServedOp ==
  ASSUME BaseInv, NEW p \in Pool, Dropped(p),
         NEW q, q = osd[p][1].req, NEW op, op = osd[p][1].op
  PROVE  /\ q \in Read <=> op = "read"
         /\ q \in Remove <=> op \in {"truncate", "remove"}
         /\ op = "read" => (q \in stray \/ p = home) /\ pc[q] = "sent"
         /\ op \in {"write", "zero", "remove"} => ~parent
         /\ op = "zero" => q \in Discard
         /\ op \in {"truncate", "remove", "copyup"} => p = DEFAULT_POOL
         /\ q \in Flatten => p = DEFAULT_POOL
         /\ pc[q] \in {"sent", "copyup"}
  BY DEF BaseInv, OpInv, QueueInv, Dropped

\* Unless it takes data away, what the user sees of the object only grows.
LEMMA ServedView ==
  ASSUME BaseInv, NEW p \in Pool, Serve(p),
         NEW q, q = osd[p][1].req, NEW op, op = osd[p][1].op, ~Wipes(op, p)
  PROVE  /\ exists[home] => exists'[home]
         /\ content[home] \subseteq content'[home]
         /\ View \subseteq View'
<1> USE DEF BaseInv
<1>1. CASE p # home
  <2>1. /\ exists' = [exists EXCEPT ![p] = Remains(op, p)]
        /\ content' = [content EXCEPT ![p] = Holds(op, q, p)]
        /\ UNCHANGED <<home, parent>>
    BY ServeFacts
  <2>2. exists'[home] = exists[home] /\ content'[home] = content[home]
    BY <1>1, <2>1 DEF TypeOK
  <2>3. View' = View
    BY <2>1, <2>2 DEF View
  <2> QED BY <2>2, <2>3
<1>2. CASE p = home
  <2>1. /\ exists'[home] = Remains(op, p) /\ content'[home] = Holds(op, q, p)
        /\ op \in Op /\ parent' = parent /\ home' = home
    BY <1>2, ServeFacts DEF TypeOK
  <2>2. op \in {"write", "zero", "remove"} => ~parent
    BY ServeFacts, ServedOp
  <2>3. ~exists[p] => content[p] = {}
    BY DEF PlaceInv
  <2>4. exists[p] \in BOOLEAN /\ content[p] \in SUBSET Data
    BY DEF TypeOK
  <2>5. CASE op \in {"truncate", "remove"}
    <3>1. ~exists[p]
      BY <1>2, <2>5 DEF Wipes
    <3>2. ~Remains(op, p)
      BY <2>5, <3>1 DEF Remains
    <3> QED
      BY <1>2, <2>1, <2>3, <3>1, <3>2 DEF View
  <2>6. CASE op = "copyup"
    <3>1. Remains(op, p) = TRUE
      BY <2>6 DEF Remains
    <3>2. exists[p] => content[p] \subseteq Holds(op, q, p)
      BY <2>6 DEF Holds, Reply
    <3>3. ~exists[p] => Parent \in Holds(op, q, p)
      BY <2>6 DEF Holds, Reply
    <3> QED
      BY <1>2, <2>1, <2>3, <3>1, <3>2, <3>3 DEF View
  <2>7. CASE op \in {"guarded", "write", "zero", "read"}
    <3>1. content[p] \subseteq Holds(op, q, p)
      BY <2>7 DEF Holds, Reply
    <3>2. Remains(op, p) = (exists[p] \/ op = "write")
      BY <2>4, <2>7 DEF Remains
    <3>3. ~exists[p] /\ op # "write" => Holds(op, q, p) = content[p]
      BY <2>7 DEF Holds, Reply
    <3> QED
      BY <1>2, <2>1, <2>2, <2>3, <2>4, <3>1, <3>2, <3>3 DEF View
  <2> QED
    BY <2>1, <2>5, <2>6, <2>7 DEF Op
<1> QED
  BY <1>1, <1>2

LEMMA ServedParent ==
  ASSUME BaseInv, DataInv, NEW p \in Pool, Serve(p)
  PROVE  ObjectInv' /\ ParentInv' /\ WriteInv'
<1> USE DEF BaseInv, DataInv
<1> DEFINE q  == osd[p][1].req
           op == osd[p][1].op
<1>1. Dropped(p) /\ op \in Op
  BY ServeFacts
<1>2. /\ q \in Read <=> op = "read"
      /\ q \in Remove <=> op \in {"truncate", "remove"}
      /\ op \in {"write", "zero", "remove"} => ~parent
      /\ op \in {"truncate", "remove", "copyup"} => p = DEFAULT_POOL
      /\ q \in Flatten => p = DEFAULT_POOL
  BY <1>1, ServedOp
<1>3. /\ content' = [content EXCEPT ![p] = Holds(op, q, p)]
      /\ exists' = [exists EXCEPT ![p] = Remains(op, p)]
      /\ wiped' = IF Wipes(op, p) THEN wiped \cup content[p]
                  ELSE IF Vain(op, p) THEN wiped \cup ({q} \cap Mutation) ELSE wiped
      /\ astray' = IF q \in Mutation /\ p # home /\ Reply(op, p) = "ok" THEN astray \cup {q}
                   ELSE astray
      /\ UNCHANGED <<home, header, parent, pc, hidden>>
  BY ServeFacts
<1>4. ~Wipes(op, p) => /\ exists[home] => exists'[home]
                       /\ content[home] \subseteq content'[home]
                       /\ View \subseteq View'
  BY ServedView
<1>5. \A i \in Answered' : (i \in Answered /\ finisher'[i] = finisher[i])
                           \/ (finisher'[i].req = q /\ finisher'[i].res = Reply(op, p))
  <2>1. AnswerAdded(q, Reply(op, p))
    BY ServeFacts
  <2> QED
    BY <2>1 DEF AnswerAdded
<1> HIDE DEF q, op
<1>6. home \in Place /\ exists \in [Place -> BOOLEAN] /\ content \in [Place -> SUBSET Data]
  BY DEF TypeOK
<1>7. ObjectInv'
  <2>1. home # DEFAULT_POOL => exists'[home]
    BY <1>1, <1>2, <1>3, <1>6 DEF ObjectInv, Remains, Op
  <2> QED
    BY <2>1, <1>3 DEF ObjectInv
<1>8. Lost => Lost'
  BY <1>3 DEF Lost
<1>9. Wipes(op, p) => Lost'
  BY <1>3 DEF Wipes, Lost, ParentInv
<1>10. \A f \in Flatten : q = f /\ Reply(op, p) = "ok" => Lost' \/ exists'[home]
  <2> SUFFICES ASSUME q \in Flatten, Reply(op, p) = "ok", ~Wipes(op, p)
               PROVE  Lost' \/ exists'[home]
    BY <1>9
  <2>1. op \in {"guarded", "write", "zero", "copyup"} /\ p = DEFAULT_POOL
    BY <1>1, <1>2, RequestKinds DEF Op
  <2>2. CASE p = home
    <3>1. CASE op = "zero"
      BY <3>1, <1>2, <1>4, <1>8 DEF ParentInv
    <3> QED
      BY <2>1, <2>2, <3>1, <1>3, <1>6 DEF Reply, Remains
  <2>3. CASE p # home
    BY <2>1, <2>3, <1>4, <1>6 DEF ObjectInv
  <2> QED
    BY <2>2, <2>3
<1>11. ParentInv'
  <2>1. Lost' \/ IF exists'[home] THEN Parent \in content'[home] ELSE parent
    <3> SUFFICES ASSUME ~Lost, ~Wipes(op, p)
                 PROVE  IF exists'[home] THEN Parent \in content'[home] ELSE parent
      BY <1>8, <1>9
    <3>1. CASE exists[home]
      BY <3>1, <1>4 DEF ParentInv
    <3>2. CASE ~exists[home]
      <4>1. parent /\ Parent \in View
        BY <3>2 DEF ParentInv, View
      <4>2. Parent \in View' /\ home' = home /\ parent' = parent
        BY <4>1, <1>3, <1>4
      <4> QED
        BY <4>1, <4>2 DEF View
    <3> QED
      BY <3>1, <3>2
  <2>2. Lost \/ exists[home] => Lost' \/ exists'[home]
    BY <1>4, <1>8, <1>9
  <2>3. \A i \in Answered' : finisher'[i].req \in Flatten /\ finisher'[i].res = "ok"
                               => Lost' \/ exists'[home]
    BY <2>2, <1>5, <1>10 DEF ParentInv
  <2> QED
    BY <2>1, <2>2, <2>3, <1>3 DEF ParentInv
<1> DEFINE KeptNow(w) == w \in content'[home] \cup wiped' \cup astray'
<1>12. ASSUME NEW w \in Mutation, Kept(w)
       PROVE  KeptNow(w)
  <2>1. wiped \subseteq wiped' /\ astray \subseteq astray'
    BY <1>3
  <2>2. Wipes(op, p) => content[home] \subseteq wiped'
    BY <1>3 DEF Wipes
  <2> QED
    BY <2>1, <2>2, <1>4, <1>12 DEF Kept
<1>13. q \in Mutation /\ Reply(op, p) = "ok" => KeptNow(q)
  <2> SUFFICES ASSUME q \in Mutation, Reply(op, p) = "ok" PROVE KeptNow(q)
    OBVIOUS
  <2>1. op \in {"guarded", "write", "zero", "copyup"}
    BY <1>1, <1>2, RequestKinds DEF Op
  <2>2. q \in Holds(op, q, p) \/ (op = "zero" /\ ~exists[p])
    BY <2>1 DEF Holds
  <2>3. CASE p = home
    BY <2>2, <2>3, <1>3, <1>6 DEF Vain, Wipes
  <2>4. CASE p # home
    BY <2>4, <1>3
  <2> QED
    BY <2>3, <2>4
<1>14. WriteInv'
  <2>1. \A w \in Mutation : pc'[w] = "done" => KeptNow(w)
    BY <1>3, <1>12 DEF WriteInv
  <2>2. \A i \in Answered' : finisher'[i].req \in Mutation /\ finisher'[i].res = "ok"
                               => KeptNow(finisher'[i].req)
    BY <1>5, <1>12, <1>13 DEF WriteInv
  <2> QED
    BY <2>1, <2>2, <1>3 DEF WriteInv, Kept
<1> QED
  BY <1>7, <1>11, <1>14

LEMMA ServedDiscard ==
  ASSUME BaseInv, DataInv, NEW p \in Pool, Serve(p)
  PROVE  DiscardInv'
<1> USE DEF BaseInv, DataInv
<1> DEFINE q  == osd[p][1].req
           op == osd[p][1].op
<1>1. Dropped(p) /\ op \in Op /\ q \in Request /\ 1 \in Sent(p)
  BY ServeFacts DEF Dropped
<1>2. /\ q \in Read <=> op = "read"
      /\ q \in Remove <=> op \in {"truncate", "remove"}
      /\ op \in {"write", "remove"} => ~parent
  BY <1>1, ServedOp
<1>3. /\ content' = [content EXCEPT ![p] = Holds(op, q, p)]
      /\ exists' = [exists EXCEPT ![p] = Remains(op, p)]
      /\ wiped' = IF Wipes(op, p) THEN wiped \cup content[p]
                  ELSE IF Vain(op, p) THEN wiped \cup ({q} \cap Mutation) ELSE wiped
      /\ UNCHANGED <<home, header, parent, pc, hidden, orphaned, stray>>
      /\ UNCHANGED <<pool, state>>
  BY ServeFacts
<1>4. \A x \in Pool : \A i, j \in Sent(x)' :
        osd'[x][i].op = "remove" /\ osd'[x][j].op = "copyup" =>
          j < i \/ osd'[x][j].req \in orphaned'
  BY <1>1, <1>3, DroppedOps
<1>5. home \in Place /\ exists \in [Place -> BOOLEAN] /\ content \in [Place -> SUBSET Data]
  BY DEF TypeOK
<1>6. \A x \in Pool : \A i \in Sent(x)' : \E k \in Sent(x) : osd'[x][i] = osd[x][k]
  BY <1>1, DroppedRest
<1>7. \A i \in Sent(p) : op = "remove" /\ osd[p][i].op = "copyup" => osd[p][i].req \in orphaned
  <2>1. \A i \in Sent(p) : ~(i < 1)
    <3>1. Len(osd[p]) \in Nat
      BY Typed
    <3> QED
      BY <3>1 DEF Sent
  <2> QED
    BY <1>1, <2>1 DEF DiscardInv
<1>8. ~exists[home] /\ ~parent /\ p = home /\ op = "copyup" => q \in orphaned
  BY <1>1 DEF DiscardInv
<1>9. op = "copyup" => q \in Guarded
  BY <1>1, <1>2 DEF Request
<1> HIDE DEF q, op
<1>10. \A x \in Place : exists'[x] = IF x = p THEN Remains(op, p) ELSE exists[x]
  BY <1>3, <1>5
<1>11. ASSUME home \in Pool, ~exists'[home], ~parent,
              NEW i \in Sent(home)', osd'[home][i].op = "copyup"
       PROVE  osd'[home][i].req \in orphaned
  <2>1. PICK k \in Sent(home) : osd'[home][i] = osd[home][k]
    BY <1>3, <1>6, <1>11
  <2>2. CASE ~exists[home]
    BY <1>11, <2>1, <2>2 DEF DiscardInv
  <2>3. CASE exists[home]
    <3>1. p = home /\ op = "remove"
      BY <1>1, <1>5, <1>10, <1>11, <2>3 DEF Remains, Op
    <3> QED
      BY <1>7, <1>11, <2>1, <3>1
  <2> QED
    BY <2>2, <2>3
<1>12. parent /\ Lost' => exists'[home]
  <2> SUFFICES ASSUME parent, Lost' PROVE exists'[home]
    OBVIOUS
  <2>1. op \notin {"write", "remove"}
    BY <1>2
  <2>2. exists[home]
    <3>1. Parent \notin {q} \cap Mutation
      BY RequestsAreDisjoint DEF Mutation
    <3> QED
      BY <3>1, <1>3 DEF DiscardInv, Lost, Wipes
  <2> QED
    BY <2>1, <2>2, <1>5, <1>10 DEF Remains
<1>13. ASSUME Parent \in wiped', Late = {}
       PROVE  Parent \notin content'[home]
  <2>1. CASE p # home
    BY <2>1, <1>3, <1>5, <1>13 DEF DiscardInv, Wipes, Vain
  <2>2. CASE p = home /\ op \in {"truncate", "remove"}
    <3>1. op # "read" /\ op # "copyup" /\ (~exists[p] => content[p] = {})
      BY <2>2 DEF PlaceInv
    <3>2. Holds(op, q, p) = {}
      BY <2>2, <3>1 DEF Holds, Reply
    <3> QED
      BY <3>2, <2>2, <1>3, <1>5
  <2>3. CASE p = home /\ op \notin {"truncate", "remove"}
    <3>1. Parent \in wiped
      <4>1. Parent \notin {q} \cap Mutation
        BY RequestsAreDisjoint DEF Mutation
      <4> QED
        BY <4>1, <2>3, <1>3, <1>13 DEF Wipes
    <3>2. Parent \notin content[p]
      BY <3>1, <2>3, <1>13 DEF DiscardInv
    <3>3. op = "copyup" => exists[p]
      <4> SUFFICES ASSUME op = "copyup", ~exists[p] PROVE FALSE
        OBVIOUS
      <4>1. ~parent
        BY <2>3, <3>1 DEF DiscardInv, Lost
      <4>2. q \in Late
        BY <2>3, <4>1, <1>8, <1>9 DEF Late
      <4> QED
        BY <4>2, <1>13
    <3>4. Parent \notin {q} \cap Mutation
      BY RequestsAreDisjoint DEF Mutation
    <3>5. Holds(op, q, p) \subseteq content[p] \cup ({q} \cap Mutation)
      BY <2>3, <3>3, <1>1 DEF Holds, Op
    <3> QED
      BY <2>3, <3>2, <3>4, <3>5, <1>3, <1>5
  <2> QED
    BY <2>1, <2>2, <2>3
<1>14. Late' = Late
  BY <1>3 DEF Late
<1> QED
  BY <1>3, <1>4, <1>11, <1>12, <1>13, <1>14 DEF DiscardInv

LEMMA ServedRead ==
  ASSUME BaseInv, DataInv, NEW p \in Pool, Serve(p)
  PROVE  ReadInv'
<1> USE DEF BaseInv, DataInv
<1> DEFINE q  == osd[p][1].req
           op == osd[p][1].op
<1>1. Dropped(p) /\ op \in Op /\ q \in Request /\ 1 \in Sent(p)
  BY ServeFacts DEF Dropped
<1>2. /\ q \in Read <=> op = "read"
      /\ op = "read" => (q \in stray \/ p = home) /\ pc[q] = "sent"
      /\ pc[q] \in {"sent", "copyup"}
  BY <1>1, ServedOp
<1>3. /\ result' = IF op = "read" THEN [result EXCEPT ![q] = content[p]] ELSE result
      /\ must' = IF Wipes(op, p) THEN [r \in Read |-> {}] ELSE must
      /\ UNCHANGED <<home, parent, pc, orphaned, stray>>
  BY ServeFacts
<1>4. \A i \in Answered' : (i \in Answered /\ finisher'[i] = finisher[i])
                           \/ (finisher'[i].req = q /\ finisher'[i].res = Reply(op, p))
  <2>1. AnswerAdded(q, Reply(op, p))
    BY ServeFacts
  <2> QED
    BY <2>1 DEF AnswerAdded
<1>5. \A x \in Pool : \A i \in Sent(x)' : \E k \in Sent(x) : osd'[x][i] = osd[x][k]
  BY <1>1, DroppedRest
<1>6. ~Wipes(op, p) => View \subseteq View'
  BY ServedView
<1>7. \A i \in Answered : finisher[i].req # q
  BY <1>1 DEF QueueInv
<1>8. op = "read" /\ q \in Promised => must[q] \subseteq View
  BY <1>1 DEF ReadInv
<1>9. \A x \in Pool : \A i \in Sent(x) : osd[x][i].op = "read" => osd[x][i].req \in Read
  BY DEF OpInv
<1> HIDE DEF q, op
<1>16. Promised' = Promised /\ Promised \subseteq Read
  BY <1>3 DEF Promised
<1>10. \A r \in Read : must'[r] \in {must[r], {}}
  BY <1>3
<1>11. \A r \in Read : r # q => result'[r] = result[r]
  BY <1>3 DEF TypeOK
<1>12. ASSUME NEW x \in Pool, NEW i \in Sent(x)',
              osd'[x][i].op = "read", osd'[x][i].req \in Promised'
       PROVE  must'[osd'[x][i].req] \subseteq View'
  <2>1. PICK k \in Sent(x) : osd'[x][i] = osd[x][k]
    BY <1>5
  <2>2. osd'[x][i].req \in Read /\ must[osd'[x][i].req] \subseteq View
    BY <2>1, <1>16, <1>9, <1>12 DEF ReadInv
  <2>3. CASE Wipes(op, p)
    BY <2>2, <2>3, <1>3
  <2>4. CASE ~Wipes(op, p)
    BY <2>2, <2>4, <1>3, <1>6
  <2> QED
    BY <2>3, <2>4
<1>13. q \in Promised =>
         /\ pc[q] = "sent"
         /\ Reply(op, p) = "ok" => must'[q] \subseteq result'[q]
         /\ Reply(op, p) = "enoent" => must'[q] \subseteq IF parent THEN {Parent} ELSE {}
  <2> SUFFICES ASSUME q \in Promised
               PROVE  /\ pc[q] = "sent"
                      /\ Reply(op, p) = "ok" => must'[q] \subseteq result'[q]
                      /\ Reply(op, p) = "enoent" => must'[q] \subseteq IF parent THEN {Parent} ELSE {}
    OBVIOUS
  <2>1. op = "read" /\ p = home /\ pc[q] = "sent" /\ must[q] \subseteq View
    BY <1>2, <1>8 DEF Promised
  <2>2. must' = must /\ result'[q] = content[p]
    BY <2>1, <1>3, <1>16 DEF Wipes, TypeOK
  <2>3. Reply(op, p) = IF exists[p] THEN "ok" ELSE "enoent"
    BY <2>1 DEF Reply
  <2> QED
    BY <2>1, <2>2, <2>3 DEF View
<1>14. ASSUME NEW i \in Answered', finisher'[i].req \in Promised'
       PROVE  LET r == finisher'[i].req IN
              /\ pc'[r] = "sent"
              /\ finisher'[i].res = "ok" => must'[r] \subseteq result'[r]
              /\ finisher'[i].res = "enoent" => must'[r] \subseteq IF parent' THEN {Parent} ELSE {}
  <2>1. CASE i \in Answered /\ finisher'[i] = finisher[i]
    BY <2>1, <1>3, <1>7, <1>10, <1>11, <1>14, <1>16 DEF ReadInv
  <2>2. CASE finisher'[i].req = q /\ finisher'[i].res = Reply(op, p)
    BY <2>2, <1>3, <1>13, <1>14, <1>16
  <2> QED
    BY <2>1, <2>2, <1>4
<1>15. ASSUME NEW r \in Promised'
       PROVE  /\ pc'[r] \in {"begun", "chosen"} => must'[r] \subseteq View'
              /\ pc'[r] = "parent" => must'[r] \subseteq {Parent}
              /\ pc'[r] = "done" => must'[r] \subseteq result'[r]
  <2>1. CASE r = q
    BY <2>1, <1>2, <1>3
  <2>2. CASE r # q
    <3>1. /\ pc[r] \in {"begun", "chosen"} => must[r] \subseteq View
          /\ pc[r] = "parent" => must[r] \subseteq {Parent}
          /\ pc[r] = "done" => must[r] \subseteq result[r]
      BY <1>15, <1>16 DEF ReadInv
    <3>2. must'[r] = {} \/ (~Wipes(op, p) /\ must'[r] = must[r])
      BY <1>3, <1>15, <1>16
    <3>3. result'[r] = result[r] /\ pc' = pc
      BY <2>2, <1>3, <1>11, <1>15, <1>16
    <3> QED
      BY <3>1, <3>2, <3>3, <1>6
  <2> QED
    BY <2>1, <2>2
<1> QED
  BY <1>12, <1>14, <1>15 DEF ReadInv

LEMMA ServeInv ==
  ASSUME BaseInv, NEW p \in Pool, Serve(p)
  PROVE  QueueInv' /\ Onward
<1> USE DEF BaseInv
<1> DEFINE q  == osd[p][1].req
           op == osd[p][1].op
<1>1. /\ Dropped(p) /\ op \in Op
      /\ AnswerAdded(q, Reply(op, p))
      /\ content' = [content EXCEPT ![p] = Holds(op, q, p)]
      /\ exists' = [exists EXCEPT ![p] = Remains(op, p)]
      /\ UNCHANGED <<home, source, removing, parent, pc, pool, state, orphaned, stray>>
  BY ServeFacts
<1>2. QueueInv'
  BY <1>1, Served
<1>3. OpInv'
  BY <1>1, DroppedOps
<1> HIDE DEF q, op
<1>4. PlaceInv'
  <2>1. ~Remains(op, p) => Holds(op, q, p) = {}
    BY <1>1 DEF Remains, Holds, Reply, Op, PlaceInv, Place
  <2>2. p # BUFFER
    BY DEF Pool, HDD_POOL, SSD_POOL, BUFFER
  <2> QED
    BY <2>1, <2>2, <1>1 DEF PlaceInv, TypeOK, Place
<1> QED
  BY <1>2, <1>3, <1>4, ServedParent, ServedDiscard, ServedRead DEF Onward, DataInv

-----------------------------------------------------------------------------
(* The parent goes away; the object moves.                                 *)

LEMMA HeaderInv ==
  ASSUME BaseInv, RemoveParent
  PROVE  QueueInv' /\ Onward
<1> USE DEF BaseInv
<1>1. UNCHANGED <<exists, content, home, source, removing, parent, pc, pool, state, result,
                  osd, finisher, must, wiped, astray, hidden, orphaned, stray>>
  BY DEF RemoveParent, objVars, moveVars, reqVars, histVars
<1>2. (\A x \in Pool : Sent(x)' = Sent(x)) /\ Answered' = Answered
  BY <1>1 DEF Sent, Answered
<1>3. header' = FALSE /\ View' = View /\ Lost' = Lost /\ Promised' = Promised
  BY <1>1 DEF RemoveParent, View, Lost, Promised
<1>4. QueueInv'
  BY <1>1, QueuesUntouched
<1>5. OpInv' /\ PlaceInv'
  BY <1>1, <1>2 DEF OpInv, PlaceInv
<1> SUFFICES ASSUME DataInv PROVE DataInv'
  BY <1>4, <1>5 DEF Onward
<1> USE DEF DataInv
<1>6. Lost \/ exists[home]
  BY DEF RemoveParent, ParentInv
<1>7. ObjectInv' /\ ParentInv' /\ WriteInv'
  BY <1>1, <1>2, <1>3, <1>6 DEF ObjectInv, ParentInv, WriteInv, Kept
<1>8. DiscardInv'
  BY <1>1, <1>2, <1>3 DEF DiscardInv, Late
<1>9. ReadInv'
  BY <1>1, <1>2, <1>3 DEF ReadInv
<1> QED
  BY <1>7, <1>8, <1>9

LEMMA ElsewhereInv ==
  ASSUME BaseInv, FlattenElsewhere
  PROVE  QueueInv' /\ Onward
<1> USE DEF BaseInv
<1>1. UNCHANGED <<home, source, removing, parent, pc, pool, state, result, osd, finisher,
                  must, wiped, astray, hidden, orphaned, stray>>
  BY DEF FlattenElsewhere, moveVars, reqVars, histVars
<1>2. (\A x \in Pool : Sent(x)' = Sent(x)) /\ Answered' = Answered
  BY <1>1 DEF Sent, Answered
<1>3. /\ home \in Place /\ exists \in [Place -> BOOLEAN] /\ content \in [Place -> SUBSET Data]
      /\ DEFAULT_POOL \in Place
  BY DEF TypeOK, Place, Pool, DEFAULT_POOL
<1>4. /\ \A x \in Place : exists[x] => exists'[x] /\ content'[x] = content[x]
      /\ \A x \in Place : exists'[x] /\ ~exists[x] => content'[x] = {Parent}
      /\ \A x \in Place : ~exists'[x] => content'[x] = content[x]
      /\ exists'[DEFAULT_POOL]
  BY <1>3 DEF FlattenElsewhere
<1>5. QueueInv'
  BY <1>1, QueuesUntouched
<1>6. OpInv'
  BY <1>1, <1>2 DEF OpInv
<1>7. PlaceInv'
  BY <1>1, <1>4 DEF PlaceInv, Place
<1> SUFFICES ASSUME DataInv PROVE DataInv'
  BY <1>5, <1>6, <1>7 DEF Onward
<1> USE DEF DataInv
<1>8. parent
  BY DEF FlattenElsewhere, ObjectInv
<1>9. exists'[home]
  BY <1>3, <1>4 DEF ObjectInv
<1>10. /\ content[home] \subseteq content'[home]
       /\ View' = View /\ Lost' = Lost /\ Promised' = Promised
  BY <1>1, <1>3, <1>4, <1>8, <1>9 DEF View, Lost, PlaceInv, Promised
<1>11. ObjectInv'
  BY <1>1, <1>8, <1>9 DEF ObjectInv
<1>12. ParentInv'
  <2>1. Lost \/ Parent \in content'[home]
    BY <1>3, <1>4, <1>9 DEF ParentInv
  <2> QED
    BY <1>1, <1>9, <1>10, <2>1 DEF ParentInv
<1>13. WriteInv'
  BY <1>1, <1>2, <1>10 DEF WriteInv, Kept
<1>14. DiscardInv'
  <2>1. Late' = Late
    BY <1>1 DEF Late
  <2>2. Parent \in wiped /\ Late = {} => exists[home] /\ Parent \notin content[home]
    BY <1>8 DEF DiscardInv, Lost
  <2>3. Parent \in wiped /\ Late = {} => Parent \notin content'[home]
    BY <2>2, <1>3, <1>4
  <2> QED
    BY <2>1, <2>3, <1>1, <1>2, <1>9 DEF DiscardInv
<1>15. ReadInv'
  BY <1>1, <1>2, <1>10 DEF ReadInv
<1> QED
  BY <1>11, <1>12, <1>13, <1>14, <1>15

LEMMA RefreshInv ==
  ASSUME BaseInv, RefreshParent
  PROVE  QueueInv' /\ Onward
<1> USE DEF BaseInv
<1>1. UNCHANGED <<exists, content, home, source, removing, header, pc, pool, state, result,
                  osd, finisher, must, wiped, astray, hidden, stray>>
  BY DEF RefreshParent, objVars, moveVars, reqVars
<1>2. (\A x \in Pool : Sent(x)' = Sent(x)) /\ Answered' = Answered
  BY <1>1 DEF Sent, Answered
<1>3. /\ parent' = FALSE /\ ~header /\ parent
      /\ orphaned' = orphaned \cup {r \in Read : pc[r] = "sent"}
                              \cup {q \in Request : pc[q] = "parent"}
  BY DEF RefreshParent
<1>4. QueueInv'
  BY <1>1, QueuesUntouched
<1>5. OpInv' /\ PlaceInv'
  BY <1>1, <1>2, <1>3 DEF OpInv, PlaceInv
<1> SUFFICES ASSUME DataInv PROVE DataInv'
  BY <1>4, <1>5 DEF Onward
<1> USE DEF DataInv
<1>6. Lost \/ exists[home]
  BY <1>3 DEF ParentInv
<1>7. ObjectInv'
  BY <1>1, <1>3 DEF ObjectInv
<1>8. ParentInv'
  BY <1>1, <1>2, <1>6 DEF ParentInv, Lost
<1>9. WriteInv'
  BY <1>1, <1>2 DEF WriteInv, Kept
<1>10. exists[home] /\ View' = View
  BY <1>1, <1>3, <1>6 DEF DiscardInv, View
<1>11. DiscardInv'
  <2>1. orphaned \subseteq orphaned' /\ \A q \in Request : pc[q] = "parent" => q \in orphaned'
    BY <1>3
  <2>2. Late' = {} => Late = {}
    BY <2>1 DEF Late
  <2>3. Lost' = Lost
    BY <1>1 DEF Lost
  <2> QED
    BY <1>10, <2>1, <2>2, <2>3, <1>1, <1>2, <1>3 DEF DiscardInv
<1>12. ReadInv'
  <2>1. \A r \in Promised' : r \in Promised /\ pc[r] \notin {"sent", "parent"}
    BY <1>1, <1>3, RequestKinds DEF Promised
  <2>2. \A x \in Pool : \A i \in Sent(x) : osd[x][i].op = "read" =>
          osd[x][i].req \in Read /\ pc[osd[x][i].req] = "sent"
    BY DEF OpInv
  <2>3. \A i \in Answered : finisher[i].req \in Promised => pc[finisher[i].req] = "sent"
    BY DEF ReadInv
  <2> QED
    BY <2>1, <2>2, <2>3, <1>1, <1>2, <1>10 DEF ReadInv
<1> QED
  BY <1>7, <1>8, <1>9, <1>11, <1>12

\* The copy is read: the reads that were sent to the object have been served, and
\* those that are to be sent are left behind.
LEMMA CopyReadInv ==
  ASSUME BaseInv, NEW ok \in BOOLEAN, CopyRead(ok)
  PROVE  QueueInv' /\ OpInv' /\ PlaceInv' /\ (ok /\ DataInv => DataInv')
<1> USE DEF BaseInv
<1>1. UNCHANGED <<exists, removing, header, parent, pc, pool, state, result, osd, finisher,
                  wiped, astray, orphaned>>
  BY DEF CopyRead, reqVars
<1>2. (\A x \in Pool : Sent(x)' = Sent(x)) /\ Answered' = Answered
  BY <1>1 DEF Sent, Answered
<1>3. /\ home \in Pool /\ ~removing /\ home' = BUFFER /\ home # BUFFER
      /\ content'[BUFFER] = IF ok THEN content[home] ELSE {}
      /\ \A x \in Pool : content'[x] = content[x]
      /\ stray' = stray \cup {r \in Read : pc[r] = "chosen"}
      /\ hidden' = (hidden \/ (parent /\ ~exists[home]))
      /\ must' = IF parent /\ ~exists[home] THEN [r \in Read |-> {}] ELSE must
  BY DEF CopyRead, TypeOK, Place, Pool, HDD_POOL, SSD_POOL, BUFFER
<1>4. Sent(home) = {}
  BY DEF CopyRead, Sent
<1>5. \A x \in Pool : \A i \in Sent(x) : osd[x][i].op = "read" => osd[x][i].req \in stray
  BY <1>3, <1>4 DEF OpInv
<1>6. QueueInv'
  BY <1>1, QueuesUntouched
<1>7. OpInv'
  <2>1. stray \subseteq stray' /\ \A r \in Read \ stray' : pc[r] # "chosen"
    BY <1>3
  <2> QED
    BY <2>1, <1>1, <1>2, <1>5 DEF OpInv
<1>8. PlaceInv'
  BY <1>1, <1>3 DEF PlaceInv, Place
<1> SUFFICES ASSUME DataInv, ok PROVE DataInv'
  BY <1>6, <1>7, <1>8
<1> USE DEF DataInv
<1>9. exists'[home'] /\ content'[home'] = content[home] /\ View' = content[home]
  BY <1>1, <1>3 DEF PlaceInv, View
<1>10. Lost => Lost'
  BY <1>1, <1>3 DEF Lost
<1>11. ObjectInv'
  BY <1>1, <1>9 DEF ObjectInv
<1>12. ParentInv'
  <2>1. Lost' \/ Parent \in content'[home']
    BY <1>1, <1>3, <1>9, <1>10 DEF ParentInv, Lost
  <2> QED
    BY <2>1, <1>9 DEF ParentInv
<1>13. WriteInv'
  BY <1>1, <1>2, <1>9 DEF WriteInv, Kept
<1>14. DiscardInv'
  <2>1. Late' = Late /\ BUFFER \notin Pool
    BY <1>1 DEF Late, Pool, HDD_POOL, SSD_POOL, BUFFER
  <2> QED
    BY <2>1, <1>1, <1>2, <1>3, <1>9 DEF DiscardInv
<1>15. ReadInv'
  <2>1. Promised' \subseteq Promised /\ Promised \subseteq Read \ stray
        /\ \A r \in Promised' : pc[r] # "chosen"
    BY <1>1, <1>3 DEF Promised
  <2>2. \A r \in Read : must'[r] \in {must[r], {}}
    BY <1>3
  <2>3. ASSUME NEW r \in Promised'
        PROVE  /\ pc'[r] \in {"begun", "chosen"} => must'[r] \subseteq View'
               /\ pc'[r] = "parent" => must'[r] \subseteq {Parent}
               /\ pc'[r] = "done" => must'[r] \subseteq result'[r]
    <3>1. CASE parent /\ ~exists[home]
      BY <3>1, <2>1, <1>3
    <3>2. CASE ~(parent /\ ~exists[home])
      <4>1. must'[r] = must[r] /\ View \subseteq View'
        BY <3>2, <1>3, <1>9 DEF View
      <4> QED
        BY <4>1, <2>1, <1>1 DEF ReadInv
    <3> QED
      BY <3>1, <3>2
  <2>4. ASSUME NEW i \in Answered', finisher'[i].req \in Promised'
        PROVE  LET r == finisher'[i].req IN
               /\ pc'[r] = "sent"
               /\ finisher'[i].res = "ok" => must'[r] \subseteq result'[r]
               /\ finisher'[i].res = "enoent" => must'[r] \subseteq IF parent' THEN {Parent} ELSE {}
    <3>1. finisher[i].req \in Promised /\ i \in Answered
      BY <2>1, <2>4, <1>1, <1>2
    <3>2. must'[finisher[i].req] \subseteq must[finisher[i].req]
      BY <3>1, <2>1, <2>2
    <3> QED
      BY <3>1, <3>2, <1>1 DEF ReadInv
  <2>5. \A x \in Pool : \A i \in Sent(x)' :
          osd'[x][i].op = "read" => osd'[x][i].req \notin Promised'
    BY <2>1, <1>1, <1>2, <1>5
  <2> QED
    BY <2>3, <2>4, <2>5 DEF ReadInv
<1> QED
  BY <1>11, <1>12, <1>13, <1>14, <1>15

\* The copy is written.
LEMMA CopyWriteInv ==
  ASSUME BaseInv, NEW ok \in BOOLEAN, CopyWrite(ok)
  PROVE  QueueInv' /\ OpInv' /\ PlaceInv' /\ (ok /\ DataInv => DataInv')
<1> USE DEF BaseInv
<1> DEFINE to == OtherPool(source)
<1>1. UNCHANGED <<source, header, parent, pc, pool, state, result, osd, finisher, must,
                  wiped, astray, hidden, orphaned, stray>>
  BY DEF CopyWrite, reqVars
<1>2. (\A x \in Pool : Sent(x)' = Sent(x)) /\ Answered' = Answered
  BY <1>1 DEF Sent, Answered
<1>3. to \in Pool /\ to # BUFFER /\ home = BUFFER /\ home' = to /\ BUFFER \notin Pool
  BY DEF CopyWrite, OtherPool, TypeOK, Pool, HDD_POOL, SSD_POOL, BUFFER
<1>4. ok => /\ exists'[to] /\ content'[to] = content[BUFFER]
            /\ \A x \in Place : x # to => exists'[x] = exists[x]
            /\ \A x \in Pool : x # to => content'[x] = content[x]
  BY <1>3 DEF CopyWrite, TypeOK, Place
<1>5. ~ok => UNCHANGED <<exists, content>>
  BY DEF CopyWrite, objVars
<1> HIDE DEF to
<1>6. \A r \in Read \ stray : pc[r] # "chosen"
  BY <1>3, RequestKinds DEF OpInv, TypeOK
<1>7. \A x \in Pool : \A i \in Sent(x) : osd[x][i].op = "read" => osd[x][i].req \in stray
  BY <1>3 DEF OpInv
<1>8. QueueInv'
  BY <1>1, QueuesUntouched
<1>9. OpInv'
  BY <1>1, <1>2, <1>6, <1>7 DEF OpInv
<1>10. PlaceInv'
  <2>1. exists'[BUFFER]
    BY <1>3, <1>4, <1>5 DEF PlaceInv, Place
  <2>2. \A x \in Place : ~exists'[x] => content'[x] = {}
    BY <2>1, <1>4, <1>5 DEF PlaceInv, Place
  <2> QED
    BY <2>1, <2>2, <1>1, <1>3 DEF PlaceInv, to
<1> SUFFICES ASSUME DataInv, ok PROVE DataInv'
  BY <1>8, <1>9, <1>10
<1> USE DEF DataInv
<1>11. /\ exists'[home'] /\ exists[home] /\ content'[home'] = content[home]
       /\ View' = View /\ Lost' = Lost /\ Promised' = Promised
  BY <1>1, <1>3, <1>4 DEF PlaceInv, View, Lost, Promised
<1>12. ObjectInv' /\ ParentInv' /\ WriteInv'
  BY <1>1, <1>2, <1>11 DEF ObjectInv, ParentInv, WriteInv, Kept
<1>13. DiscardInv'
  <2>1. Late' = Late
    BY <1>1 DEF Late
  <2> QED
    BY <2>1, <1>1, <1>2, <1>11 DEF DiscardInv
<1>14. ReadInv'
  BY <1>1, <1>2, <1>11 DEF ReadInv
<1> QED
  BY <1>12, <1>13, <1>14

\* The source is removed: it is not where the object is.
LEMMA RemoveSourceInv ==
  ASSUME BaseInv, NEW ok \in BOOLEAN, RemoveSource(ok)
  PROVE  QueueInv' /\ Onward
<1> USE DEF BaseInv
<1>1. UNCHANGED <<home, source, header, parent, pc, pool, state, result, osd, finisher, must,
                  wiped, astray, hidden, orphaned, stray>>
  BY DEF RemoveSource, reqVars, histVars
<1>2. (\A x \in Pool : Sent(x)' = Sent(x)) /\ Answered' = Answered
  BY <1>1 DEF Sent, Answered
<1>3. source \in Pool /\ home \in Pool /\ home # source /\ removing' = FALSE
  BY DEF RemoveSource, PlaceInv, OtherPool, TypeOK, Pool, HDD_POOL, SSD_POOL
<1>4. /\ \A x \in Place : x # source => exists'[x] = exists[x] /\ content'[x] = content[x]
      /\ ~exists'[source] => content'[source] = {}
  BY <1>3 DEF RemoveSource, PlaceInv, objVars, TypeOK, Place
<1>5. QueueInv'
  BY <1>1, QueuesUntouched
<1>6. OpInv'
  BY <1>1, <1>2 DEF OpInv
<1>7. PlaceInv'
  <2>1. BUFFER # source /\ BUFFER \in Place
    BY <1>3 DEF Place, Pool, HDD_POOL, SSD_POOL, BUFFER
  <2> QED
    BY <2>1, <1>3, <1>4 DEF PlaceInv
<1> SUFFICES ASSUME DataInv PROVE DataInv'
  BY <1>5, <1>6, <1>7 DEF Onward
<1> USE DEF DataInv
<1>8. /\ exists'[home] = exists[home] /\ content'[home] = content[home]
      /\ View' = View /\ Lost' = Lost /\ Promised' = Promised
  BY <1>1, <1>3, <1>4 DEF View, Lost, Promised, Place
<1>9. ObjectInv' /\ ParentInv' /\ WriteInv'
  BY <1>1, <1>2, <1>8 DEF ObjectInv, ParentInv, WriteInv, Kept
<1>10. DiscardInv'
  <2>1. Late' = Late
    BY <1>1 DEF Late
  <2> QED
    BY <2>1, <1>1, <1>2, <1>8 DEF DiscardInv
<1>11. ReadInv'
  BY <1>1, <1>2, <1>8 DEF ReadInv
<1> QED
  BY <1>9, <1>10, <1>11

-----------------------------------------------------------------------------
(* Nothing that waits is forgotten.                                        *)

LEMMA SubmitKeeps ==
  ASSUME TypeOK, NEW p \in Pool, NEW q \in Request, NEW op, Submit(p, q, op)
  PROVE  /\ OnItsWay(q)'
         /\ \A x \in Request : OnItsWay(x) => OnItsWay(x)'
<1> DEFINE m == [req |-> q, op |-> op]
           s == osd[p]
<1>1. /\ s \in Seq(Message) /\ osd \in [Pool -> Seq(Message)] /\ Len(s) \in Nat
      /\ osd' = [osd EXCEPT ![p] = Append(s, m)] /\ m.req = q
  BY Typed DEF Submit
<1> HIDE DEF m
<1>2. /\ Len(Append(s, m)) = Len(s) + 1
      /\ \A i \in 1 .. Len(s) : Append(s, m)[i] = s[i]
      /\ Append(s, m)[Len(s) + 1] = m
  BY <1>1
<1>3. osd'[p] = Append(s, m) /\ \A x \in Pool : x # p => osd'[x] = osd[x]
  BY <1>1
<1>4. Len(s) + 1 \in Sent(p)' /\ osd'[p][Len(s) + 1].req = q
  BY <1>1, <1>2, <1>3 DEF Sent
<1>5. ASSUME NEW x \in Pool, NEW i \in Sent(x)
      PROVE  i \in Sent(x)' /\ osd'[x][i] = osd[x][i]
  BY <1>1, <1>2, <1>3 DEF Sent
<1> QED
  BY <1>4, <1>5 DEF OnItsWay

LEMMA DropKeeps ==
  ASSUME TypeOK, NEW p \in Pool, osd[p] # <<>>, osd' = [osd EXCEPT ![p] = Tail(@)],
         NEW x \in Request, OnItsWay(x), x # Head(osd[p]).req
  PROVE  OnItsWay(x)'
<1> DEFINE s == osd[p]
<1>1. /\ s \in Seq(Message) /\ s # <<>> /\ osd \in [Pool -> Seq(Message)] /\ Len(s) \in Nat
      /\ osd'[p] = Tail(s) /\ \A y \in Pool : y # p => osd'[y] = osd[y]
  BY Typed
<1> HIDE DEF s
<1>2. /\ Len(Tail(s)) = Len(s) - 1 /\ Head(s) = s[1]
      /\ \A i \in 1 .. Len(Tail(s)) : Tail(s)[i] = s[i + 1]
  BY <1>1, HeadTailProperties
<1>0. PICK y \in Pool : \E i \in Sent(y) : osd[y][i].req = x
  BY DEF OnItsWay
<1>3. PICK i \in Sent(y) : osd[y][i].req = x
  BY <1>0
<1>4. CASE y # p
  BY <1>1, <1>3, <1>4 DEF OnItsWay, Sent
<1>5. CASE y = p
  <2>1. i \in 1 .. Len(s) /\ s[i].req = x
    BY <1>3, <1>5 DEF Sent, s
  <2>2. i # 1
    BY <2>1, <1>2 DEF s
  <2>3. i - 1 \in 1 .. Len(Tail(s)) /\ (i - 1) + 1 = i
    BY <2>1, <2>2, <1>1, <1>2
  <2>4. Tail(s)[i - 1] = s[i]
    BY <2>3, <1>2
  <2>5. i - 1 \in Sent(p)' /\ osd'[p][i - 1].req = x
    BY <2>1, <2>3, <2>4, <1>1 DEF Sent
  <2> QED
    BY <2>5 DEF OnItsWay
<1> QED
  BY <1>4, <1>5

LEMMA AnswerKeeps ==
  ASSUME TypeOK, NEW q \in Request, NEW r, finisher' = Append(finisher, [req |-> q, res |-> r])
  PROVE  /\ HasAnswer(q)'
         /\ \A x \in Request : HasAnswer(x) => HasAnswer(x)'
<1> DEFINE a == [req |-> q, res |-> r]
<1>1. finisher \in Seq(Answer) /\ Len(finisher) \in Nat /\ a.req = q /\ finisher' = Append(finisher, a)
  BY Typed
<1> HIDE DEF a
<1>2. /\ Len(Append(finisher, a)) = Len(finisher) + 1
      /\ \A i \in 1 .. Len(finisher) : Append(finisher, a)[i] = finisher[i]
      /\ Append(finisher, a)[Len(finisher) + 1] = a
  BY <1>1
<1>3. Len(finisher) + 1 \in Answered' /\ finisher'[Len(finisher) + 1].req = q
  BY <1>1, <1>2 DEF Answered
<1>4. \A i \in Answered : i \in Answered' /\ finisher'[i] = finisher[i]
  BY <1>1, <1>2 DEF Answered
<1> QED
  BY <1>3, <1>4 DEF HasAnswer

LEMMA TakeKeeps ==
  ASSUME TypeOK, NEW q \in Request, NEW r, Replied(q, r),
         NEW x \in Request, HasAnswer(x), x # q
  PROVE  HasAnswer(x)'
<1>1. finisher \in Seq(Answer) /\ finisher # <<>> /\ finisher' = Tail(finisher)
      /\ Len(finisher) \in Nat /\ Head(finisher).req = q
  BY Typed DEF Replied
<1>2. /\ Len(Tail(finisher)) = Len(finisher) - 1 /\ Head(finisher) = finisher[1]
      /\ \A i \in 1 .. Len(Tail(finisher)) : Tail(finisher)[i] = finisher[i + 1]
  BY <1>1, HeadTailProperties
<1>3. PICK i \in Answered : finisher[i].req = x
  BY DEF HasAnswer
<1>4. i \in 1 .. Len(finisher) /\ i # 1
  BY <1>1, <1>2, <1>3 DEF Answered
<1>5. i - 1 \in 1 .. Len(Tail(finisher)) /\ (i - 1) + 1 = i
  BY <1>1, <1>2, <1>4
<1>6. finisher'[i - 1] = finisher[i] /\ i - 1 \in Answered'
  BY <1>1, <1>2, <1>5 DEF Answered
<1> QED
  BY <1>3, <1>6 DEF HasAnswer

\* The request a step is about is not sent, or reads the parent: no queue has it.
LEMMA Elsewhere ==
  ASSUME BaseInv, NEW q \in Request, pc[q] \in {"new", "begun", "chosen", "parent"}
  PROVE  /\ \A x \in Pool : \A i \in Sent(x) : osd[x][i].req # q
         /\ \A i \in Answered : finisher[i].req # q
  BY DEF BaseInv, QueueInv

LEMMA SendProgress ==
  ASSUME BaseInv, NEW q \in Request, SendStep(q)
  PROVE  ProgressInv'
<1> USE DEF BaseInv
<1>1. /\ pc[q] \in {"new", "begun", "chosen"} /\ UNCHANGED <<finisher, result>>
      /\ \A x \in Request : x # q => pc'[x] = pc[x]
      /\ \A x \in Request \ Read : x # q => state'[x] = state[x]
  BY DEF SendStep, Begin, GetPool, Send, TypeOK
<1>2. /\ \A x \in Pool : \A i \in Sent(x) : osd[x][i].req # q /\ osd[x][i].req \in Request
      /\ \A i \in Answered : finisher[i].req # q /\ finisher[i].req \in Request
  BY <1>1, Elsewhere, Typed
<1>3. Answered' = Answered /\ \A x \in Request : HasAnswer(x)' = HasAnswer(x)
  BY <1>1 DEF Answered, HasAnswer
<1>4. /\ pc'[q] \in {"sent", "copyup"} => OnItsWay(q)'
      /\ \A x \in Request : OnItsWay(x) => OnItsWay(x)'
      /\ \A x \in Pool : \A i \in Sent(x)' : osd'[x][i].op = "guarded" =>
           \/ i \in Sent(x) /\ osd'[x][i] = osd[x][i]
           \/ osd'[x][i].req = q /\ pc'[q] = "sent" /\ state'[q] = LIBRBD_AIO_WRITE_GUARD
  <2>1. CASE Send(q)
    <3> DEFINE op == Built(q)
               p  == pool[q]
    <3>1. Submit(p, q, op) /\ p \in Pool /\ pc'[q] = "sent" /\ state' = state
      BY <2>1 DEF Send, TypeOK
    <3>2. op \in Op /\ (op = "guarded" => state[q] = LIBRBD_AIO_WRITE_GUARD)
      BY <2>1, BuiltOp DEF Send
    <3> HIDE DEF op, p
    <3>3. Added(p, q, op)
      BY <3>1, <3>2, SubmitAdds
    <3> QED
      BY <3>1, <3>2, <3>3, SubmitKeeps DEF Added
  <2>2. CASE ~Send(q)
    <3>1. osd' = osd /\ pc'[q] \in {"begun", "chosen"}
      BY <2>2 DEF SendStep, Begin, GetPool, TypeOK
    <3> QED
      BY <3>1 DEF OnItsWay, Sent
  <2> QED
    BY <2>1, <2>2
<1>5. \A x \in Request : pc'[x] \in {"sent", "copyup"} => (OnItsWay(x) \/ HasAnswer(x))'
  BY <1>1, <1>3, <1>4 DEF ProgressInv
<1>6. ASSUME NEW x \in Pool, NEW i \in Sent(x)', osd'[x][i].op = "guarded"
      PROVE  pc'[osd'[x][i].req] = "sent" /\ state'[osd'[x][i].req] = LIBRBD_AIO_WRITE_GUARD
  <2>1. CASE i \in Sent(x) /\ osd'[x][i] = osd[x][i]
    <3>1. osd[x][i].req \in Request \ Read /\ osd[x][i].req # q
      BY <2>1, <1>2, <1>6 DEF OpInv
    <3> QED
      BY <3>1, <2>1, <1>1, <1>6 DEF ProgressInv
  <2>2. CASE osd'[x][i].req = q /\ pc'[q] = "sent" /\ state'[q] = LIBRBD_AIO_WRITE_GUARD
    BY <2>2
  <2> QED
    BY <2>1, <2>2, <1>4, <1>6
<1>7. ASSUME NEW i \in Answered, finisher[i].res = "enoent"
      PROVE  Missing(finisher[i].req)'
  <2>1. Missing(finisher[i].req)
    BY <1>7 DEF ProgressInv
  <2>2. finisher[i].req # q /\ finisher[i].req \in Request
    BY <1>2
  <2> QED
    BY <2>1, <2>2, <1>1, RequestKinds DEF Missing
<1> QED
  BY <1>1, <1>3, <1>5, <1>6, <1>7 DEF ProgressInv

LEMMA HandleProgress ==
  ASSUME BaseInv, NEW q \in Request, Handle(q)
  PROVE  ProgressInv'
<1> USE DEF BaseInv
<1>1. PICK r : Replied(q, r)
  BY DEF Handle, Missed, NullCopyup, Finish
<1>2. AnswerTaken(q, r)
  BY <1>1, ReplyTakes
<1>3. /\ \A x \in Pool : \A i \in Sent(x) : osd[x][i].req # q /\ osd[x][i].req \in Request
      /\ \A i \in Answered : i # 1 => finisher[i].req # q
  BY <1>2, Typed DEF AnswerTaken, QueueInv
<1>4. \A i \in Answered' : /\ i + 1 \in Answered /\ finisher'[i] = finisher[i + 1]
                           /\ finisher'[i].req # q /\ finisher'[i].req \in Request
  <2>1. \A i \in Answered' : i + 1 \in Answered /\ finisher'[i] = finisher[i + 1] /\ i + 1 # 1
    BY <1>2 DEF AnswerTaken, Answered
  <2> QED
    BY <2>1, <1>3, Typed
<1>5. \A x \in Request : HasAnswer(x) /\ x # q => HasAnswer(x)'
  BY <1>1, TakeKeeps
<1>6. /\ \A x \in Request : x # q => pc'[x] = pc[x]
      /\ \A x \in Request \ Read : x # q => state'[x] = state[x]
  BY DEF Handle, Missed, NullCopyup, Finish, TypeOK
<1>7. /\ pc'[q] \in {"sent", "copyup"} => OnItsWay(q)'
      /\ \A x \in Request : OnItsWay(x) => OnItsWay(x)'
      /\ \A x \in Pool : \A i \in Sent(x)' : osd'[x][i].op = "guarded" =>
           i \in Sent(x) /\ osd'[x][i] = osd[x][i]
  <2>1. CASE NullCopyup(q)
    <3>1. Submit(DEFAULT_POOL, q, Plain(q)) /\ Plain(q) \in Op /\ Plain(q) # "guarded"
      BY <2>1 DEF NullCopyup, Plain, Op
    <3>2. Added(DEFAULT_POOL, q, Plain(q)) /\ DEFAULT_POOL \in Pool
      BY <3>1, SubmitAdds DEF Pool, DEFAULT_POOL
    <3> QED
      BY <3>1, <3>2, SubmitKeeps DEF Added
  <2>2. CASE ~NullCopyup(q)
    <3>1. osd' = osd /\ pc'[q] \in {"parent", "done", "failed"}
      BY <2>2 DEF Handle, Missed, Finish, TypeOK
    <3> QED
      BY <3>1 DEF OnItsWay, Sent
  <2> QED
    BY <2>1, <2>2
<1>8. \A x \in Request : pc'[x] \in {"sent", "copyup"} => (OnItsWay(x) \/ HasAnswer(x))'
  BY <1>5, <1>6, <1>7 DEF ProgressInv
<1>9. ASSUME NEW x \in Pool, NEW i \in Sent(x)', osd'[x][i].op = "guarded"
      PROVE  pc'[osd'[x][i].req] = "sent" /\ state'[osd'[x][i].req] = LIBRBD_AIO_WRITE_GUARD
  <2>1. i \in Sent(x) /\ osd'[x][i] = osd[x][i] /\ osd[x][i].op = "guarded"
    BY <1>7, <1>9
  <2>2. osd[x][i].req \in Request \ Read /\ osd[x][i].req # q
    BY <2>1, <1>3 DEF OpInv
  <2> QED
    BY <2>1, <2>2, <1>6 DEF ProgressInv
<1>10. ASSUME NEW i \in Answered', finisher'[i].res = "enoent"
       PROVE  \A x \in Request : x = finisher'[i].req => Missing(x)'
  <2> SUFFICES ASSUME NEW x \in Request, x = finisher'[i].req
               PROVE  Missing(x)'
    OBVIOUS
  <2>1. Missing(x) /\ x # q
    BY <1>4, <1>10 DEF ProgressInv
  <2>2. result' = result
    BY DEF Handle, Missed, NullCopyup, Finish
  <2> QED
    BY <2>1, <2>2, <1>6, RequestKinds DEF Missing
<1>11. \A i \in Answered' : finisher'[i].req \in Request
  BY <1>4
<1> QED
  BY <1>8, <1>9, <1>10, <1>11 DEF ProgressInv, Missing

LEMMA ParentStepProgress ==
  ASSUME BaseInv, NEW q \in Request, ParentStep(q)
  PROVE  ProgressInv'
<1> USE DEF BaseInv
<1>1. /\ pc[q] = "parent" /\ finisher' = finisher
      /\ \A x \in Request : x # q => pc'[x] = pc[x]
      /\ \A x \in Request \ Read : x # q => state'[x] = state[x]
  BY DEF ParentStep, ParentAnswers, ParentFails, ParentRefuses, TypeOK
<1>2. /\ \A x \in Pool : \A i \in Sent(x) : osd[x][i].req # q /\ osd[x][i].req \in Request
      /\ \A i \in Answered : finisher[i].req # q /\ finisher[i].req \in Request
  BY <1>1, Elsewhere, Typed
<1>3. Answered' = Answered /\ \A x \in Request : HasAnswer(x)' = HasAnswer(x)
  BY <1>1 DEF Answered, HasAnswer
<1>4. /\ pc'[q] \in {"sent", "copyup"} => OnItsWay(q)'
      /\ \A x \in Request : OnItsWay(x) => OnItsWay(x)'
      /\ \A x \in Pool : \A i \in Sent(x)' : osd'[x][i].op = "guarded" =>
           i \in Sent(x) /\ osd'[x][i] = osd[x][i]
  <2>1. CASE ParentAnswers(q) /\ q \notin Read
    <3>1. Submit(DEFAULT_POOL, q, "copyup") /\ "copyup" \in Op
      BY <2>1 DEF ParentAnswers, Op
    <3>2. Added(DEFAULT_POOL, q, "copyup")
      BY <3>1, SubmitAdds
    <3> QED
      BY <3>1, <3>2, SubmitKeeps DEF Added
  <2>2. CASE ~(ParentAnswers(q) /\ q \notin Read)
    <3>1. osd' = osd /\ pc'[q] \in {"done", "failed", "hung"}
      BY <2>2 DEF ParentStep, ParentAnswers, ParentFails, ParentRefuses, TypeOK
    <3> QED
      BY <3>1 DEF OnItsWay, Sent
  <2> QED
    BY <2>1, <2>2
<1>5. \A x \in Request : pc'[x] \in {"sent", "copyup"} => (OnItsWay(x) \/ HasAnswer(x))'
  BY <1>1, <1>3, <1>4 DEF ProgressInv
<1>6. ASSUME NEW x \in Pool, NEW i \in Sent(x)', osd'[x][i].op = "guarded"
      PROVE  pc'[osd'[x][i].req] = "sent" /\ state'[osd'[x][i].req] = LIBRBD_AIO_WRITE_GUARD
  <2>1. i \in Sent(x) /\ osd'[x][i] = osd[x][i] /\ osd[x][i].op = "guarded"
    BY <1>4, <1>6
  <2>2. osd[x][i].req \in Request \ Read /\ osd[x][i].req # q
    BY <2>1, <1>2 DEF OpInv
  <2> QED
    BY <2>1, <2>2, <1>1 DEF ProgressInv
<1>7. ASSUME NEW i \in Answered, finisher[i].res = "enoent"
      PROVE  Missing(finisher[i].req)'
  <2>1. Missing(finisher[i].req)
    BY <1>7 DEF ProgressInv
  <2>2. finisher[i].req # q /\ finisher[i].req \in Request
    BY <1>2
  <2>3. \A x \in Read : x # q => result'[x] = result[x]
    BY DEF ParentStep, ParentAnswers, ParentFails, ParentRefuses, TypeOK
  <2> QED
    BY <2>1, <2>2, <2>3, <1>1, RequestKinds DEF Missing
<1> QED
  BY <1>1, <1>3, <1>5, <1>6, <1>7 DEF ProgressInv

\* RADOS answers the oldest request, or refuses it.
LEMMA AnsweredProgress ==
  ASSUME BaseInv, NEW p \in Pool, NEW r \in {"ok", "enoent", "error"}, osd[p] # <<>>,
         osd' = [osd EXCEPT ![p] = Tail(@)],
         finisher' = Append(finisher, [req |-> Head(osd[p]).req, res |-> r]),
         r = "enoent" => Head(osd[p]).op \in {"guarded", "remove", "read"},
         UNCHANGED <<pc, state>>,
         \A x \in Read : x # Head(osd[p]).req => result'[x] = result[x],
         r = "enoent" /\ Head(osd[p]).req \in Read => result'[Head(osd[p]).req] = {}
  PROVE  ProgressInv'
<1> USE DEF BaseInv
<1> DEFINE q == Head(osd[p]).req
<1>1. Dropped(p) /\ Head(osd[p]) = osd[p][1]
  BY TailDrops
<1>2. 1 \in Sent(p) /\ q = osd[p][1].req /\ q \in Request
  BY <1>1, Typed DEF Dropped
<1>3. AnswerAdded(q, r)
  BY <1>2, AnswerAdds
<1>4. \A x \in Request : OnItsWay(x) \/ HasAnswer(x) => (OnItsWay(x) \/ HasAnswer(x))'
  BY <1>2, DropKeeps, AnswerKeeps
<1>8. /\ UNCHANGED <<pc, state>> /\ \A x \in Read : x # q => result'[x] = result[x]
      /\ r = "enoent" /\ q \in Read => result'[q] = {}
  BY DEF q
<1>5. r = "enoent" =>
        /\ pc[q] = "sent"
        /\ q \in Guarded => state[q] = LIBRBD_AIO_WRITE_GUARD
  <2>1. CASE osd[p][1].op = "guarded"
    BY <2>1, <1>2 DEF ProgressInv
  <2>2. CASE osd[p][1].op = "read"
    BY <2>2, <1>2, RequestKinds DEF OpInv
  <2>3. CASE osd[p][1].op = "remove"
    <3>1. q \in Remove /\ pc[q] \in {"sent", "copyup"}
      BY <2>3, <1>2 DEF OpInv, QueueInv
    <3> QED
      BY <3>1, RequestKinds DEF OpInv
  <2> QED
    BY <2>1, <2>2, <2>3, <1>1
<1> HIDE DEF q
<1>6. ASSUME NEW x \in Pool, NEW i \in Sent(x)', osd'[x][i].op = "guarded"
      PROVE  pc[osd'[x][i].req] = "sent" /\ state[osd'[x][i].req] = LIBRBD_AIO_WRITE_GUARD
  <2>1. PICK k \in Sent(x) : osd'[x][i] = osd[x][k]
    BY <1>1 DEF Dropped
  <2>2. osd[x][k].op = "guarded"
    BY <2>1, <1>6
  <2>3. pc[osd[x][k].req] = "sent" /\ state[osd[x][k].req] = LIBRBD_AIO_WRITE_GUARD
    BY <2>2 DEF ProgressInv
  <2> QED
    BY ONLY <2>1, <2>3
<1>7. ASSUME NEW i \in Answered', finisher'[i].res = "enoent"
      PROVE  \A x \in Request : x = finisher'[i].req => Missing(x)'
  <2>1. CASE i \in Answered /\ finisher'[i] = finisher[i]
    <3>1. Missing(finisher[i].req)
      BY <2>1, <1>7 DEF ProgressInv
    <3>2. finisher[i].req # q
      BY <2>1, <1>2 DEF QueueInv
    <3> SUFFICES ASSUME NEW x \in Request, x = finisher[i].req
                 PROVE  Missing(x)'
      BY <2>1
    <3> QED
      BY ONLY <3>1, <3>2, <1>8, x = finisher[i].req DEF Missing
  <2>2. CASE finisher'[i].req = q /\ finisher'[i].res = r
    <3> SUFFICES ASSUME NEW x \in Request, x = q
                 PROVE  Missing(x)'
      BY <2>2
    <3> QED
      BY ONLY x = q, <2>2, <1>5, <1>7, <1>8 DEF Missing
  <2> QED
    BY <2>1, <2>2, <1>3 DEF AnswerAdded
<1>11. \A i \in Answered' : finisher'[i].req \in Request
  <2>1. \A i \in Answered : finisher[i].req \in Request
    BY Typed
  <2> QED
    BY <2>1, <1>2, <1>3 DEF AnswerAdded
<1>9. \A x \in Request : pc'[x] \in {"sent", "copyup"} => OnItsWay(x)' \/ HasAnswer(x)'
  BY <1>4, <1>8 DEF ProgressInv
<1>10. \A x \in Pool : \A i \in Sent(x)' : osd'[x][i].op = "guarded" =>
         /\ pc'[osd'[x][i].req] = "sent"
         /\ state'[osd'[x][i].req] = LIBRBD_AIO_WRITE_GUARD
  BY ONLY <1>6, <1>8
<1> QED
  BY ONLY <1>7, <1>9, <1>10, <1>11 DEF ProgressInv, Missing

LEMMA StepProgress == BaseInv /\ [Next]_vars => ProgressInv'
<1> SUFFICES ASSUME BaseInv, [Next]_vars PROVE ProgressInv'
  OBVIOUS
<1>1. ASSUME NEW p \in Pool, Serve(p)
      PROVE  ProgressInv'
  <2> DEFINE h == Head(osd[p])
             r == Reply(h.op, p)
  <2>1. /\ r \in {"ok", "enoent", "error"}
        /\ r = "enoent" => h.op \in {"guarded", "remove", "read"} /\ ~exists[p]
    BY DEF Reply
  <2>2. /\ osd[p] # <<>> /\ osd' = [osd EXCEPT ![p] = Tail(@)] /\ UNCHANGED <<pc, state>>
        /\ finisher' = Append(finisher, [req |-> h.req, res |-> r])
        /\ result' = IF h.op = "read" THEN [result EXCEPT ![h.req] = content[p]] ELSE result
    BY <1>1 DEF Serve
  <2>3. h = osd[p][1] /\ 1 \in Sent(p)
    BY <2>2, TailDrops DEF BaseInv, Dropped
  <2>4. h.req \in Read <=> h.op = "read"
    BY <2>3 DEF BaseInv, OpInv
  <2>5. r = "enoent" => content[p] = {}
    BY <2>1 DEF BaseInv, PlaceInv
  <2> HIDE DEF r, h
  <2>6. /\ \A x \in Read : x # h.req => result'[x] = result[x]
        /\ r = "enoent" /\ h.req \in Read => result'[h.req] = {}
    BY <2>2, <2>4, <2>5 DEF BaseInv, TypeOK
  <2> QED
    BY <2>1, <2>2, <2>6, AnsweredProgress DEF h
<1>2. ASSUME NEW p \in Pool, Refuse(p)
      PROVE  ProgressInv'
  BY <1>2, AnsweredProgress DEF Refuse, reqVars
<1>3. CASE UNCHANGED <<pc, state, result, osd, finisher>>
  BY <1>3 DEF BaseInv, ProgressInv, Missing, OnItsWay, HasAnswer, Sent, Answered
<1>4. RemoveParent \/ FlattenElsewhere \/ RefreshParent
        \/ (\E ok \in BOOLEAN : CopyRead(ok) \/ CopyWrite(ok) \/ RemoveSource(ok))
        \/ UNCHANGED vars
      => UNCHANGED <<pc, state, result, osd, finisher>>
  BY DEF RemoveParent, FlattenElsewhere, RefreshParent, CopyRead, CopyWrite, RemoveSource,
         vars, reqVars
<1> QED
  BY <1>1, <1>2, <1>3, <1>4, SendProgress, HandleProgress, ParentStepProgress DEF Next

LEMMA StutterInv ==
  ASSUME IInv, UNCHANGED vars
  PROVE  IInv'
<1>1. UNCHANGED <<exists, content, home, source, removing, moves, header, parent, pc, pool,
                  state, result, osd, finisher, must, wiped, astray, hidden, orphaned, stray,
                  faulted>>
  BY DEF vars, objVars, moveVars, reqVars, histVars
<1>2. TypeOK' /\ QueueInv'
  BY <1>1, TypeStep, QueuesUntouched DEF IInv, BaseInv
<1>3. OpInv' /\ PlaceInv'
  BY <1>1 DEF IInv, BaseInv, OpInv, PlaceInv, Sent
<1>4. ProgressInv'
  BY StepProgress DEF IInv
<1>5. ASSUME DataInv
      PROVE  DataInv'
  <2>1. ObjectInv' /\ ParentInv' /\ WriteInv'
    BY <1>1, <1>5 DEF DataInv, ObjectInv, ParentInv, WriteInv, Kept, Lost, Answered
  <2>2. DiscardInv'
    BY <1>1, <1>5 DEF DataInv, DiscardInv, Sent, Late, Lost
  <2>3. ReadInv'
    BY <1>1, <1>5 DEF DataInv, ReadInv, Promised, View, Sent, Answered
  <2> QED
    BY <2>1, <2>2, <2>3 DEF DataInv
<1> QED
  BY <1>1, <1>2, <1>3, <1>4, <1>5 DEF IInv, BaseInv

\* A copy that fails ends what is said of the data; no other step sets faulted.
LEMMA StepInv == IInv /\ [Next]_vars => IInv'
<1> SUFFICES ASSUME IInv, [Next]_vars PROVE IInv'
  OBVIOUS
<1>1. TypeOK' /\ ProgressInv' /\ BaseInv
  BY TypeStep, StepProgress DEF IInv, BaseInv
<1>2. ASSUME QueueInv', Onward, faulted' = faulted
      PROVE  IInv'
  BY <1>1, <1>2 DEF IInv, BaseInv, Onward
<1>3. ASSUME NEW q \in Request, SendStep(q) \/ Handle(q) \/ ParentStep(q)
      PROVE  IInv'
  <2>1. QueueInv' /\ Onward
    BY <1>1, <1>3, SendInv, HandleInv, ParentStepInv
  <2>2. faulted' = faulted
    BY <1>3 DEF SendStep, Begin, GetPool, Send, Handle, Missed, NullCopyup, Finish, ParentStep,
                ParentAnswers, ParentFails, ParentRefuses, histVars
  <2> QED
    BY <2>1, <2>2, <1>2
<1>4. ASSUME NEW p \in Pool, Serve(p) \/ Refuse(p)
      PROVE  IInv'
  <2>1. QueueInv' /\ Onward
    BY <1>1, <1>4, ServeInv, RefuseInv
  <2>2. faulted' = faulted
    BY <1>4 DEF Serve, Refuse, histVars
  <2> QED
    BY <2>1, <2>2, <1>2
<1>5. CASE RemoveParent \/ FlattenElsewhere \/ RefreshParent
  <2>1. QueueInv' /\ Onward
    BY <1>1, <1>5, HeaderInv, ElsewhereInv, RefreshInv
  <2>2. faulted' = faulted
    BY <1>5 DEF RemoveParent, FlattenElsewhere, RefreshParent, histVars
  <2> QED
    BY <2>1, <2>2, <1>2
<1>6. ASSUME NEW ok \in BOOLEAN, RemoveSource(ok)
      PROVE  IInv'
  <2>1. QueueInv' /\ Onward
    BY <1>1, <1>6, RemoveSourceInv
  <2>2. faulted' = faulted
    BY <1>6 DEF RemoveSource, histVars
  <2> QED
    BY <2>1, <2>2, <1>2
<1>7. ASSUME NEW ok \in BOOLEAN, CopyRead(ok) \/ CopyWrite(ok)
      PROVE  IInv'
  <2>1. QueueInv' /\ OpInv' /\ PlaceInv' /\ (ok /\ DataInv => DataInv')
    BY <1>1, <1>7, CopyReadInv, CopyWriteInv
  <2>2. faulted' = (faulted \/ ~ok)
    BY <1>7 DEF CopyRead, CopyWrite
  <2>3. faulted \/ DataInv
    BY DEF IInv
  <2> QED
    BY <2>1, <2>2, <2>3, <1>1 DEF IInv, BaseInv
<1> QED
  BY <1>3, <1>4, <1>5, <1>6, <1>7, StutterInv DEF Next

-----------------------------------------------------------------------------
(* What Spec guarantees.                                                   *)

\* The inductive invariant: what is on its way to the object, where the object
\* is, and what was discarded agree with the progress of the requests.
THEOREM Invariance == Spec => []IInv
<1>1. Init => IInv
  BY InitInv
<1>2. IInv /\ [Next]_vars => IInv'
  BY StepInv
<1> QED
  BY <1>1, <1>2, PTL DEF Spec

\* The queues, the replies and the progress of the requests keep their types.
THEOREM TypeCorrect == Spec => []TypeOK
<1>1. IInv => TypeOK
  BY DEF IInv, BaseInv
<1> QED
  BY <1>1, Invariance, PTL

\* The parent's data stays visible through racing copyups, flatten and moves,
\* unless it was discarded, the object was moved before it existed, or a copy
\* failed.
THEOREM ParentDataStays == Spec => []ParentDataKept
<1>1. IInv => ParentDataKept
  BY DEF IInv, DataInv, ParentInv, ParentDataKept, View, Lost
<1> QED
  BY <1>1, Invariance, PTL

\* An acknowledged write, or discard of a part, is in the object, unless it was
\* discarded, it was applied to another object, or a copy failed.
THEOREM WritesStay == Spec => []AckedWritesKept
<1>1. IInv => AckedWritesKept
  BY DEF IInv, BaseInv, DataInv, WriteInv, PlaceInv, AckedWritesKept, Kept, View, TypeOK
<1> QED
  BY <1>1, Invariance, PTL

\* A late copyup does not bring the discarded data of the parent back, while
\* copies succeed.
THEOREM DiscardsStay == Spec => []DiscardedStaysAway
<1>1. IInv => DiscardedStaysAway
  BY DEF IInv, DataInv, DiscardInv, DiscardedStaysAway, View, Lost
<1> QED
  BY <1>1, Invariance, PTL

\* A read of a clone that was sent where the object is returns what was visible
\* when it was invoked, while copies succeed.
THEOREM ReadsComplete == Spec => []ReadsSeeParent
<1>1. IInv => ReadsSeeParent
  BY DEF IInv, DataInv, ReadInv, ReadsSeeParent
<1> QED
  BY <1>1, Invariance, PTL

\* No request of a clone is lost between its queues, and no answer blocks the
\* finisher.
THEOREM NothingStalls == Spec => []NoRequestStalls
<1>1. IInv => NoRequestStalls
  BY Typed DEF IInv, BaseInv, ProgressInv, Missing, NoRequestStalls, Request
<1> QED
  BY <1>1, Invariance, PTL

\* A write reads the parent at most once: its copyup ends it.
THEOREM CopyupEndsIt == Spec => CopyupOnce
<1>1. IInv /\ [Next]_vars =>
        [\A q \in Request : pc[q] = "copyup" => pc'[q] \in {"copyup", "done", "failed"}]_vars
  <2> SUFFICES ASSUME IInv, Next, NEW q \in Request, pc[q] = "copyup"
               PROVE  pc'[q] \in {"copyup", "done", "failed"}
    OBVIOUS
  <2>1. ASSUME NEW x \in Request, SendStep(x) \/ ParentStep(x)
        PROVE  x # q /\ pc'[q] = pc[q]
    BY <2>1 DEF SendStep, Begin, GetPool, Send, ParentStep, ParentAnswers, ParentFails,
                ParentRefuses, IInv, BaseInv, TypeOK
  <2>2. ASSUME NEW x \in Request, Missed(x)
        PROVE  x # q /\ pc'[q] = pc[q]
    <3>1. AnswerTaken(x, "enoent")
      BY <2>2, ReplyTakes DEF Missed, IInv, BaseInv
    <3>2. pc[x] = "sent"
      BY <3>1 DEF AnswerTaken, IInv, BaseInv, ProgressInv, Missing
    <3> QED
      BY <2>2, <3>2 DEF Missed, IInv, BaseInv, TypeOK
  <2>3. ASSUME NEW x \in Request, NullCopyup(x) \/ \E r \in {"ok", "enoent", "error"} : Finish(x, r)
        PROVE  pc'[q] \in {"copyup", "done", "failed"}
    BY <2>3 DEF NullCopyup, Finish, IInv, BaseInv, TypeOK
  <2>4. ASSUME NEW p \in Pool, Serve(p) \/ Refuse(p)
        PROVE  pc' = pc
    BY <2>4 DEF Serve, Refuse, reqVars
  <2>5. /\ RemoveParent \/ FlattenElsewhere \/ RefreshParent => pc' = pc
        /\ \A ok \in BOOLEAN :
             CopyRead(ok) \/ CopyWrite(ok) \/ RemoveSource(ok) => pc' = pc
    BY DEF RemoveParent, FlattenElsewhere, RefreshParent, CopyRead, CopyWrite, RemoveSource,
           reqVars
  <2> QED
    BY <2>1, <2>2, <2>3, <2>4, <2>5 DEF Next, Handle
<1> QED
  BY <1>1, Invariance, PTL DEF Spec, CopyupOnce

=============================================================================

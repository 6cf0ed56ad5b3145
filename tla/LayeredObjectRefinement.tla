----------------------- MODULE LayeredObjectRefinement -----------------------
(***************************************************************************)
(* LayeredObject implements AtomicObject, for any sets of requests and any *)
(* number of moves: every step of the requests, of RADOS, of the parent,   *)
(* of flatten and of the migrater is a step of the cell or leaves it       *)
(* alone, until a copy fails.  A request takes effect when RADOS serves    *)
(* the message that finds the object, whichever of its messages that is;   *)
(* the invariant of LayeredObjectProofs says that it is the last, and in   *)
(* which of the cases the copyup of a discarded object can bring the       *)
(* parent's data back.                                                     *)
(***************************************************************************)
EXTENDS LayeredObjectProofs

Outcome == SUBSET {"ok", "enoent"}

GetsSame(x) == \A R \in Outcome : Gets(x, R)' = Gets(x, R)

\* The variables of the cell but for its requests.
SameCell == UNCHANGED <<View, parent, hidden, Late, astray, stray, faulted>>

-----------------------------------------------------------------------------
(* Answers.                                                                *)

LEMMA TakenGets ==
  ASSUME BaseInv, NEW q \in Request, NEW r \in {"ok", "enoent", "error"}, Replied(q, r)
  PROVE  /\ \A x \in Request : x # q => GetsSame(x)
         /\ \A R \in Outcome : (Gets(q, R) <=> r \in R) /\ ~Gets(q, R)'
         /\ pc[q] \in {"sent", "copyup"}
<1>1. finisher \in Seq(Answer) /\ finisher # <<>> /\ finisher' = Tail(finisher)
      /\ Len(finisher) \in Nat
  BY Typed DEF Replied, BaseInv
<1>2. /\ Len(Tail(finisher)) = Len(finisher) - 1 /\ Head(finisher) = finisher[1]
      /\ \A i \in 1 .. Len(Tail(finisher)) : Tail(finisher)[i] = finisher[i + 1]
  BY <1>1, HeadTailProperties
<1>3. finisher[1].req = q /\ finisher[1].res = r
  BY <1>2 DEF Replied
<1>4. Len(finisher) # 0
  BY <1>1, EmptySeq
<1>5. 1 \in Answered
  BY <1>1, <1>4 DEF Answered
<1>6. \A i \in Answered : finisher[i].req = q => i = 1
  BY <1>3, <1>5 DEF BaseInv, QueueInv
<1>7. \A i \in Answered' : i + 1 \in Answered /\ finisher'[i] = finisher[i + 1] /\ i + 1 # 1
  BY <1>1, <1>2 DEF Answered
<1>8. \A i \in Answered : i # 1 => i - 1 \in Answered' /\ finisher'[i - 1] = finisher[i]
  <2> SUFFICES ASSUME NEW i \in Answered, i # 1
               PROVE  i - 1 \in Answered' /\ finisher'[i - 1] = finisher[i]
    OBVIOUS
  <2>1. i - 1 \in 1 .. Len(Tail(finisher)) /\ (i - 1) + 1 = i
    BY <1>1, <1>2 DEF Answered
  <2> QED
    BY <2>1, <1>1, <1>2 DEF Answered
<1>9. ASSUME NEW x \in Request, x # q, NEW R \in Outcome
      PROVE  Gets(x, R)' = Gets(x, R)
  <2>1. ASSUME Gets(x, R) PROVE Gets(x, R)'
    <3>1. PICK i \in Answered : finisher[i].req = x /\ finisher[i].res \in R
      BY <2>1 DEF Gets
    <3>2. i - 1 \in Answered' /\ finisher'[i - 1] = finisher[i]
      BY <3>1, <1>3, <1>8, <1>9
    <3> QED
      BY <3>1, <3>2 DEF Gets
  <2>2. ASSUME Gets(x, R)' PROVE Gets(x, R)
    <3>1. PICK i \in Answered' : finisher'[i].req = x /\ finisher'[i].res \in R
      BY <2>2 DEF Gets
    <3> QED
      BY <3>1, <1>7 DEF Gets
  <2>3. Gets(x, R) \in BOOLEAN /\ Gets(x, R)' \in BOOLEAN
    BY DEF Gets
  <2> QED
    BY <2>1, <2>2, <2>3
<1>10. ASSUME NEW R \in Outcome
       PROVE  (Gets(q, R) <=> r \in R) /\ ~Gets(q, R)'
  <2>1. Gets(q, R) <=> r \in R
    BY <1>3, <1>5, <1>6 DEF Gets
  <2>2. ~Gets(q, R)'
    BY <1>6, <1>7 DEF Gets
  <2> QED
    BY <2>1, <2>2
<1> QED
  BY <1>3, <1>5, <1>9, <1>10 DEF GetsSame, BaseInv, QueueInv

LEMMA AddedGets ==
  ASSUME BaseInv, NEW q \in Request, NEW r \in {"ok", "enoent", "error"}, ~HasAnswer(q),
         finisher' = Append(finisher, [req |-> q, res |-> r])
  PROVE  /\ \A x \in Request : x # q => GetsSame(x)
         /\ \A R \in Outcome : ~Gets(q, R) /\ (Gets(q, R)' <=> r \in R)
<1> DEFINE a == [req |-> q, res |-> r]
<1>1. finisher \in Seq(Answer) /\ Len(finisher) \in Nat /\ a.req = q /\ a.res = r
      /\ finisher' = Append(finisher, a)
  BY Typed DEF BaseInv
<1> HIDE DEF a
<1>2. /\ Len(Append(finisher, a)) = Len(finisher) + 1
      /\ \A i \in 1 .. Len(finisher) : Append(finisher, a)[i] = finisher[i]
      /\ Append(finisher, a)[Len(finisher) + 1] = a
  BY <1>1
<1>3. \A i \in Answered : i \in Answered' /\ finisher'[i] = finisher[i]
  BY <1>1, <1>2 DEF Answered
<1>4. \E i \in Answered' : finisher'[i].req = q /\ finisher'[i].res = r
  <2>1. Len(finisher) + 1 \in Answered'
    BY <1>1, <1>2 DEF Answered
  <2>2. finisher'[Len(finisher) + 1] = a
    BY <1>1, <1>2
  <2> QED
    BY <2>1, <2>2, <1>1
<1>5. \A i \in Answered' : \/ i \in Answered /\ finisher'[i] = finisher[i]
                           \/ finisher'[i].req = q /\ finisher'[i].res = r
  <2> SUFFICES ASSUME NEW i \in Answered'
               PROVE  i \in 1 .. Len(finisher) \/ i = Len(finisher) + 1
    BY <1>1, <1>2 DEF Answered
  <2> QED
    BY <1>1, <1>2 DEF Answered
<1>6. ASSUME NEW x \in Request, x # q, NEW R \in Outcome
      PROVE  Gets(x, R)' = Gets(x, R)
  <2>1. Gets(x, R) => Gets(x, R)'
    BY <1>3 DEF Gets
  <2>2. Gets(x, R)' => Gets(x, R)
    BY <1>5, <1>6 DEF Gets
  <2>3. Gets(x, R) \in BOOLEAN /\ Gets(x, R)' \in BOOLEAN
    BY DEF Gets
  <2> QED
    BY <2>1, <2>2, <2>3
<1>7. ASSUME NEW R \in Outcome
      PROVE  ~Gets(q, R) /\ (Gets(q, R)' <=> r \in R)
  <2>1. ~Gets(q, R)
    BY DEF Gets, HasAnswer
  <2>2. r \in R => Gets(q, R)'
    BY <1>4 DEF Gets
  <2>3. Gets(q, R)' => r \in R
    BY <1>5 DEF Gets, HasAnswer
  <2> QED
    BY <2>1, <2>2, <2>3
<1> QED
  BY <1>6, <1>7 DEF GetsSame

LEMMA SameGets == ASSUME UNCHANGED finisher PROVE \A x \in Request : GetsSame(x)
  BY DEF GetsSame, Gets, Answered

LEMMA IdleGets ==
  ASSUME BaseInv, NEW x \in Request, pc[x] \notin {"sent", "copyup"}, NEW R \in Outcome
  PROVE  ~Gets(x, R)
  BY DEF BaseInv, QueueInv, Gets

\* A request is answered once.
LEMMA OneAnswer ==
  ASSUME BaseInv, NEW x \in Request, Gets(x, {"enoent"})
  PROVE  ~Gets(x, {"ok"}) /\ Missing(x) /\ Gets(x, {"ok", "enoent"})
  BY DEF BaseInv, QueueInv, ProgressInv, Gets

LEMMA Outcomes == {"ok"} \in Outcome /\ {"enoent"} \in Outcome /\ {"ok", "enoent"} \in Outcome
  BY DEF Outcome

-----------------------------------------------------------------------------
(* The requests of the cell.                                               *)

LEMMA CellRequests ==
  /\ Cell!Request = Request \ Flatten
  /\ Mutation \subseteq Request \ Flatten /\ Remove \subseteq Request \ Flatten
  /\ Read \subseteq Request \ Flatten
  /\ Mutation \cap Read = {} /\ Remove \cap Read = {} /\ Mutation \cap Remove = {}
  /\ Cell!Mutation = Mutation /\ Discard \subseteq Mutation
  BY RequestsAreDisjoint DEF Cell!Request, Cell!Mutation, Request, Guarded, Mutation

\* What another request does is not seen.
LEMMA Others ==
  ASSUME NEW q \in Request, UNCHANGED <<parent, stray>>,
         \A x \in Request : x # q => pc'[x] = pc[x] /\ GetsSame(x),
         \A r \in Read : r # q => result'[r] = result[r]
  PROVE  /\ q \in Flatten => UNCHANGED <<Stages, Seens>>
         /\ q \notin Flatten => Stages' = [Stages EXCEPT ![q] = Stage(q)']
         /\ q \in Read => Seens' = [Seens EXCEPT ![q] = Seen(q)']
         /\ q \notin Read => UNCHANGED Seens
<1>1. ASSUME NEW x \in Request, x # q
      PROVE  Stage(x)' = Stage(x) /\ (x \in Read => Seen(x)' = Seen(x))
  <2>1. pc'[x] = pc[x] /\ \A R \in Outcome : Gets(x, R)' = Gets(x, R)
    BY <1>1 DEF GetsSame
  <2>2. TakesEffect(x)' = TakesEffect(x)
    BY <2>1, Outcomes DEF TakesEffect
  <2>3. Stage(x)' = Stage(x)
    BY <2>1, <2>2 DEF Stage
  <2>4. x \in Read => Seen(x)' = Seen(x)
    BY <2>1, <1>1, Outcomes DEF Seen
  <2> QED
    BY <2>3, <2>4
<1>2. q \notin Flatten => Stages' = [Stages EXCEPT ![q] = Stage(q)']
  BY <1>1 DEF Stages
<1>3. q \in Flatten => UNCHANGED Stages
  BY <1>1 DEF Stages
<1>4. q \in Read => Seens' = [Seens EXCEPT ![q] = Seen(q)']
  BY <1>1, CellRequests DEF Seens
<1>5. q \notin Read => UNCHANGED Seens
  BY <1>1, CellRequests DEF Seens
<1> QED
  BY <1>2, <1>3, <1>4, <1>5, CellRequests

LEMMA At ==
  /\ \A q \in Request \ Flatten : Stages[q] = Stage(q)
  /\ \A r \in Read : Seens[r] = Seen(r)
  BY DEF Stages, Seens

\* A step that neither the object nor any request shows.
LEMMA Unseen ==
  ASSUME NEW q \in Request, SameCell, 
         \A x \in Request : x # q => pc'[x] = pc[x] /\ GetsSame(x),
         \A r \in Read : r # q => result'[r] = result[r],
         q \notin Flatten => Stage(q)' = Stage(q),
         q \in Read => Seen(q)' = Seen(q)
  PROVE  UNCHANGED Cell!vars
<1>1. UNCHANGED <<parent, stray>>
  BY DEF SameCell
<1>2. UNCHANGED Stages
  BY <1>1, Others, At DEF Stages
<1>3. UNCHANGED Seens
  BY <1>1, Others, At DEF Seens
<1> QED
  BY <1>2, <1>3 DEF Cell!vars, SameCell

LEMMA QuietCell ==
  ASSUME UNCHANGED <<exists, content, home, parent, hidden, orphaned, astray, stray, faulted>>
  PROVE  SameCell
  BY DEF SameCell, View, Late

-----------------------------------------------------------------------------
(* Requests.                                                               *)

LEMMA SendImage ==
  ASSUME BaseInv, NEW q \in Request, SendStep(q)
  PROVE  UNCHANGED Cell!vars \/ (q \notin Flatten /\ Cell!Open(q))
<1>1. /\ pc[q] \in {"new", "begun", "chosen"}
      /\ pc' = [pc EXCEPT ![q] = pc'[q]] /\ pc'[q] \in {"begun", "chosen", "sent"}
      /\ pc[q] = "new" <=> pc'[q] = "begun"
      /\ UNCHANGED <<exists, content, home, parent, hidden, orphaned, astray, stray, faulted,
                     result, finisher>>
  BY DEF SendStep, Begin, GetPool, Send, objVars, moveVars, histVars, BaseInv, TypeOK
<1>2. \A x \in Request : x # q => pc'[x] = pc[x] /\ GetsSame(x)
  BY <1>1, SameGets DEF BaseInv, TypeOK
<1>3. SameCell
  BY <1>1, QuietCell
<1>4. \A R \in Outcome : ~Gets(q, R) /\ ~Gets(q, R)'
  BY <1>1, IdleGets, SameGets DEF GetsSame
<1>5. /\ Stage(q)' = "open"
      /\ Stage(q) = IF pc[q] = "new" THEN "new" ELSE "open"
  BY <1>1, <1>4, Outcomes DEF Stage, TakesEffect
<1>6. q \in Read => Seen(q) = {} /\ Seen(q)' = {}
  BY <1>1, <1>4, Outcomes DEF Seen
<1>7. CASE q \in Flatten \/ pc[q] # "new"
  BY <1>1, <1>2, <1>3, <1>5, <1>6, <1>7, Unseen
<1>8. CASE q \notin Flatten /\ pc[q] = "new"
  <2>1. Stages' = [Stages EXCEPT ![q] = "open"] /\ Stages[q] = "new"
    BY <1>1, <1>2, <1>5, <1>8, Others, At
  <2>2. UNCHANGED Seens
    <3>1. CASE q \in Read
      BY <3>1, <1>1, <1>2, <1>6, Others, At DEF Seens
    <3> QED
      BY <3>1, <1>1, <1>2, Others
  <2> QED
    BY <2>1, <2>2, <1>3, <1>8 DEF Cell!Open, Cell!Advance, SameCell
<1> QED
  BY <1>7, <1>8

\* The object was missed: the request goes on as it would have, had nothing
\* been sent.
LEMMA MissedImage ==
  ASSUME BaseInv, NEW q \in Request, Missed(q)
  PROVE  UNCHANGED Cell!vars
<1>1. /\ Replied(q, "enoent") /\ parent /\ pc' = [pc EXCEPT ![q] = "parent"]
      /\ UNCHANGED <<exists, content, home, parent, hidden, orphaned, astray, stray, faulted,
                   result>>
      /\ q \notin Remove
  BY RequestKinds DEF Missed, objVars, moveVars, histVars
<1>2. /\ \A x \in Request : x # q => GetsSame(x)
      /\ \A R \in Outcome : (Gets(q, R) <=> "enoent" \in R) /\ ~Gets(q, R)'
      /\ pc[q] \in {"sent", "copyup"}
  BY <1>1, TakenGets
<1>3. pc'[q] = "parent" /\ \A x \in Request : x # q => pc'[x] = pc[x]
  BY <1>1 DEF BaseInv, TypeOK
<1>4. SameCell
  BY <1>1, QuietCell
<1>5. /\ Gets(q, {"enoent"}) /\ Gets(q, {"ok", "enoent"}) /\ ~Gets(q, {"ok"})
      /\ ~Gets(q, {"ok"})'
  BY <1>2, Outcomes
<1>6. Stage(q)' = Stage(q)
  <2>1. CASE q \in Read
    <3>1. TakesEffect(q) /\ TakesEffect(q)'
      BY <2>1, <1>3, <1>5 DEF TakesEffect
    <3> QED
      BY <2>1, <3>1, <1>2, <1>3 DEF Stage
  <2>2. CASE q \notin Read
    <3>1. ~TakesEffect(q) /\ ~TakesEffect(q)'
      BY <2>2, <1>1, <1>5 DEF TakesEffect
    <3> QED
      BY <3>1, <1>2, <1>3 DEF Stage
  <2> QED
    BY <2>1, <2>2
<1>7. q \in Read => Seen(q)' = Seen(q)
  BY <1>1, <1>2, <1>3, <1>5 DEF Seen
<1> QED
  BY <1>1, <1>2, <1>3, <1>4, <1>6, <1>7, Unseen

LEMMA NullCopyupImage ==
  ASSUME BaseInv, NEW q \in Request, NullCopyup(q)
  PROVE  UNCHANGED Cell!vars
<1>1. /\ Replied(q, "enoent") /\ pc' = [pc EXCEPT ![q] = "copyup"]
      /\ UNCHANGED <<exists, content, home, parent, hidden, orphaned, astray, stray, faulted,
                   result>>
      /\ q \notin Remove /\ q \notin Read
  BY RequestKinds DEF NullCopyup, objVars, moveVars, histVars
<1>2. /\ \A x \in Request : x # q => GetsSame(x)
      /\ \A R \in Outcome : (Gets(q, R) <=> "enoent" \in R) /\ ~Gets(q, R)'
      /\ pc[q] \in {"sent", "copyup"}
  BY <1>1, TakenGets
<1>3. pc'[q] = "copyup" /\ \A x \in Request : x # q => pc'[x] = pc[x]
  BY <1>1 DEF BaseInv, TypeOK
<1>4. SameCell
  BY <1>1, QuietCell
<1>5. ~Gets(q, {"ok"}) /\ ~Gets(q, {"ok"})'
  BY <1>2, Outcomes
<1>6. Stage(q)' = Stage(q)
  <2>1. ~TakesEffect(q)' /\ ~TakesEffect(q)
    BY <1>1, <1>5 DEF TakesEffect
  <2> QED
    BY <2>1, <1>2, <1>3 DEF Stage
<1> QED
  BY <1>1, <1>2, <1>3, <1>4, <1>6, Unseen

LEMMA FinishImage ==
  ASSUME BaseInv, NEW q \in Request, NEW r \in {"ok", "enoent", "error"}, Finish(q, r)
  PROVE  IF q \in Flatten THEN UNCHANGED Cell!vars
         ELSE IF r = "error" THEN Cell!Fail(q) ELSE Cell!Acknowledge(q)
<1> DEFINE c == IF r = "error" THEN "failed" ELSE "done"
<1>1. /\ Replied(q, r) /\ pc' = [pc EXCEPT ![q] = c]
      /\ UNCHANGED <<exists, content, home, parent, hidden, orphaned, astray, stray, faulted,
                   result>>
      /\ r = "enoent" => q \in Remove \/ (q \in Read /\ ~parent)
  BY DEF Finish, objVars, moveVars, histVars
<1>2. /\ \A x \in Request : x # q => GetsSame(x)
      /\ \A R \in Outcome : (Gets(q, R) <=> r \in R) /\ ~Gets(q, R)'
      /\ pc[q] \in {"sent", "copyup"}
  BY <1>1, TakenGets
<1>3. pc'[q] = c /\ \A x \in Request : x # q => pc'[x] = pc[x]
  BY <1>1 DEF BaseInv, TypeOK
<1>4. SameCell
  BY <1>1, QuietCell
<1>5. /\ Gets(q, {"ok"}) <=> r = "ok"
      /\ Gets(q, {"enoent"}) <=> r = "enoent"
      /\ Gets(q, {"ok", "enoent"}) <=> r # "error"
      /\ ~Gets(q, {"ok"})' /\ ~Gets(q, {"enoent"})'
  BY <1>2, Outcomes
<1>6. q \notin Flatten =>
        /\ Stage(q) = IF r = "error" THEN "open" ELSE IF q \in Read THEN "looked" ELSE "taken"
        /\ Stage(q)' = IF r = "error" THEN "failed" ELSE "ok"
  <2>1. q \notin Flatten => (TakesEffect(q) <=> r # "error")
    BY <1>1, <1>2, <1>5 DEF TakesEffect
  <2> QED
    BY <2>1, <1>2, <1>3 DEF Stage
<1>7. q \in Read => Seen(q)' = IF r = "error" THEN {} ELSE Seen(q)
  <2> SUFFICES ASSUME q \in Read PROVE Seen(q)' = IF r = "error" THEN {} ELSE Seen(q)
    OBVIOUS
  <2>1. CASE r = "error"
    BY <2>1, <1>2, <1>3, <1>5 DEF Seen
  <2>2. CASE r = "ok"
    BY <2>2, <1>1, <1>2, <1>3, <1>5 DEF Seen
  <2>3. CASE r = "enoent"
    <3>1. result[q] = {} /\ ~parent
      BY <2>3, <1>1, <1>5, OneAnswer, CellRequests DEF Missing
    <3> QED
      BY <2>3, <3>1, <1>1, <1>2, <1>3, <1>5 DEF Seen
  <2> QED
    BY <2>1, <2>2, <2>3
<1>8. CASE q \in Flatten
  <2>1. q \notin Read
    BY <1>8, CellRequests
  <2> QED
    BY <2>1, <1>1, <1>2, <1>3, <1>4, <1>8, Unseen
<1>9. CASE q \notin Flatten
  <2>1. /\ Stages' = [Stages EXCEPT ![q] = IF r = "error" THEN "failed" ELSE "ok"]
        /\ Stages[q] = IF r = "error" THEN "open" ELSE IF q \in Read THEN "looked" ELSE "taken"
    BY <1>1, <1>2, <1>3, <1>6, <1>9, Others, At
  <2>2. CASE r = "error"
    <3>1. Seens' = IF q \in Read THEN [Seens EXCEPT ![q] = {}] ELSE Seens
      BY <2>2, <1>1, <1>2, <1>3, <1>7, Others
    <3> QED
      BY <2>1, <2>2, <3>1, <1>4, <1>9 DEF Cell!Fail, SameCell
  <2>3. CASE r # "error"
    <3>1. UNCHANGED Seens
      <4>1. CASE q \in Read
        BY <4>1, <2>3, <1>1, <1>2, <1>3, <1>7, Others, At DEF Seens
      <4> QED
        BY <4>1, <1>1, <1>2, <1>3, Others
    <3> QED
      BY <2>1, <2>3, <3>1, <1>4, <1>9 DEF Cell!Acknowledge, Cell!Advance, SameCell
  <2> QED
    BY <1>9, <2>2, <2>3
<1> QED
  BY <1>8, <1>9

LEMMA ParentAnswersImage ==
  ASSUME BaseInv, NEW q \in Request, ParentAnswers(q)
  PROVE  IF q \in Read THEN Cell!Acknowledge(q) ELSE UNCHANGED Cell!vars
<1>1. /\ pc[q] = "parent"
      /\ UNCHANGED <<exists, content, home, parent, hidden, orphaned, astray, stray, faulted,
                   finisher>>
      /\ pc' = [pc EXCEPT ![q] = IF q \in Read THEN "done" ELSE "copyup"]
      /\ result' = IF q \in Read THEN [result EXCEPT ![q] = {Parent}] ELSE result
  BY DEF ParentAnswers, objVars, moveVars, histVars
<1>2. /\ pc'[q] = IF q \in Read THEN "done" ELSE "copyup"
      /\ \A x \in Request : x # q => pc'[x] = pc[x] /\ GetsSame(x)
      /\ q \in Read => result'[q] = {Parent}
      /\ \A r \in Read : r # q => result'[r] = result[r]
  BY <1>1, SameGets DEF BaseInv, TypeOK
<1>3. SameCell
  BY <1>1, QuietCell
<1>4. \A R \in Outcome : ~Gets(q, R) /\ ~Gets(q, R)'
  BY <1>1, IdleGets, SameGets DEF GetsSame
<1>5. CASE q \in Read
  <2>1. Stage(q) = "looked" /\ Stage(q)' = "ok"
    BY <1>1, <1>2, <1>5 DEF Stage, TakesEffect
  <2>2. Seen(q)' = Seen(q)
    BY <1>1, <1>2, <1>4, <1>5, Outcomes DEF Seen
  <2>3. Stages' = [Stages EXCEPT ![q] = "ok"] /\ Stages[q] = "looked"
    BY <2>1, <1>1, <1>2, <1>5, Others, At, CellRequests
  <2>4. UNCHANGED Seens
    BY <2>2, <1>1, <1>2, <1>5, Others, At DEF Seens
  <2> QED
    BY <2>3, <2>4, <1>3, <1>5 DEF Cell!Acknowledge, Cell!Advance, SameCell
<1>6. CASE q \notin Read
  <2>1. ~TakesEffect(q) /\ ~TakesEffect(q)'
    BY <1>4, <1>6, Outcomes DEF TakesEffect
  <2>2. Stage(q)' = Stage(q)
    BY <2>1, <1>1, <1>2, <1>6 DEF Stage
  <2> QED
    BY <2>2, <1>2, <1>3, <1>6, Unseen
<1> QED
  BY <1>5, <1>6

LEMMA ParentFailsImage ==
  ASSUME BaseInv, NEW q \in Request, ParentFails(q)
  PROVE  IF q \in Flatten THEN UNCHANGED Cell!vars ELSE Cell!Fail(q)
<1>1. /\ pc[q] = "parent" /\ pc' = [pc EXCEPT ![q] = "failed"]
      /\ UNCHANGED <<exists, content, home, parent, hidden, orphaned, astray, stray, faulted,
                   result, finisher>>
  BY DEF ParentFails, objVars, moveVars, histVars
<1>2. pc'[q] = "failed" /\ \A x \in Request : x # q => pc'[x] = pc[x] /\ GetsSame(x)
  BY <1>1, SameGets DEF BaseInv, TypeOK
<1>3. SameCell
  BY <1>1, QuietCell
<1>4. \A R \in Outcome : ~Gets(q, R) /\ ~Gets(q, R)'
  BY <1>1, IdleGets, SameGets DEF GetsSame
<1>5. CASE q \in Flatten
  <2>1. q \notin Read
    BY <1>5, CellRequests
  <2> QED
    BY <2>1, <1>1, <1>2, <1>3, <1>5, Unseen
<1>6. CASE q \notin Flatten
  <2>1. Stage(q) = (IF q \in Read THEN "looked" ELSE "open") /\ Stage(q)' = "failed"
    BY <1>1, <1>2, <1>4, Outcomes DEF Stage, TakesEffect
  <2>2. q \in Read => Seen(q)' = {}
    BY <1>2, <1>4, Outcomes DEF Seen
  <2>3. /\ Stages' = [Stages EXCEPT ![q] = "failed"]
        /\ Stages[q] = IF q \in Read THEN "looked" ELSE "open"
    BY <2>1, <1>1, <1>2, <1>6, Others, At
  <2>4. Seens' = IF q \in Read THEN [Seens EXCEPT ![q] = {}] ELSE Seens
    BY <2>2, <1>1, <1>2, Others
  <2> QED
    BY <2>3, <2>4, <1>3, <1>6 DEF Cell!Fail, SameCell
<1> QED
  BY <1>5, <1>6

LEMMA ParentRefusesImage ==
  ASSUME BaseInv, NEW q \in Request, ParentRefuses(q)
  PROVE  UNCHANGED Cell!vars
<1>1. /\ pc[q] = "parent" /\ pc' = [pc EXCEPT ![q] = "hung"]
      /\ UNCHANGED <<exists, content, home, parent, hidden, orphaned, astray, stray, faulted,
                   result, finisher>>
  BY DEF ParentRefuses, objVars, moveVars, histVars
<1>2. pc'[q] = "hung" /\ \A x \in Request : x # q => pc'[x] = pc[x] /\ GetsSame(x)
  BY <1>1, SameGets DEF BaseInv, TypeOK
<1>3. SameCell
  BY <1>1, QuietCell
<1>4. \A R \in Outcome : ~Gets(q, R) /\ ~Gets(q, R)'
  BY <1>1, IdleGets, SameGets DEF GetsSame
<1>5. Stage(q)' = Stage(q)
  BY <1>1, <1>2, <1>4, Outcomes DEF Stage, TakesEffect
<1>6. q \in Read => Seen(q)' = Seen(q)
  BY <1>1, <1>2, <1>4, Outcomes DEF Seen
<1> QED
  BY <1>1, <1>2, <1>3, <1>5, <1>6, Unseen

-----------------------------------------------------------------------------
(* RADOS.                                                                  *)

\* What the user sees when the oldest message is served.
LEMMA ServedImage ==
  ASSUME BaseInv, NEW p \in Pool, Serve(p),
         NEW q, q = osd[p][1].req, NEW op, op = osd[p][1].op
  PROVE  /\ p # home => View' = View
         /\ op \in {"read", "guarded"} /\ Reply(op, p) = "enoent" => View' = View
         /\ op = "read" => View' = View
         /\ op \in {"truncate", "remove"} => View' \in {View, {}}
         /\ op = "zero" /\ ~exists[p] => View' = View /\ (p = home => View = {} /\ ~parent)
         /\ /\ p = home /\ op \in {"guarded", "write", "zero", "copyup"} /\ Reply(op, p) = "ok"
            /\ op = "copyup" => exists[p] \/ parent
            /\ op = "zero" => exists[p]
            => View' = View \cup ({q} \cap Mutation)
         /\ p = home /\ op = "copyup" /\ ~exists[p] /\ ~parent =>
              View = {} /\ View' = {Parent} \cup ({q} \cap Mutation)
<1> USE DEF BaseInv
<1>1. /\ Dropped(p) /\ q \in Request /\ op \in Op
      /\ content' = [content EXCEPT ![p] = Holds(op, q, p)]
      /\ exists' = [exists EXCEPT ![p] = Remains(op, p)]
      /\ UNCHANGED <<home, parent>>
  BY ServeFacts
<1>2. op \in {"write", "zero", "remove"} => ~parent
  BY <1>1, ServedOp
<1>3. home \in Place /\ exists \in [Place -> BOOLEAN] /\ content \in [Place -> SUBSET Data]
  BY DEF TypeOK
<1>4. ~exists[p] => content[p] = {}
  BY DEF PlaceInv, Place
<1>5. /\ content'[home] = IF p = home THEN Holds(op, q, p) ELSE content[home]
      /\ exists'[home] = IF p = home THEN Remains(op, p) ELSE exists[home]
  BY <1>1, <1>3
<1>6. View' = IF exists'[home] THEN content'[home] ELSE IF parent THEN {Parent} ELSE {}
  BY <1>1 DEF View
<1>7. p # home => View' = View
  BY <1>5, <1>6 DEF View
<1>8. ASSUME op = "read"
      PROVE  View' = View
  <2>1. Holds(op, q, p) = content[p] /\ Remains(op, p) = exists[p]
    BY <1>8 DEF Holds, Remains
  <2> QED
    BY <2>1, <1>5, <1>6 DEF View
<1>9. ASSUME op = "guarded"
      PROVE  /\ Reply(op, p) = "enoent" => View' = View
             /\ p = home /\ Reply(op, p) = "ok" => View' = View \cup ({q} \cap Mutation)
  <2>1. Reply(op, p) = (IF exists[p] THEN "ok" ELSE "enoent") /\ Remains(op, p) = exists[p]
    BY <1>9, <1>3 DEF Reply, Remains
  <2>2. Holds(op, q, p) = IF exists[p] THEN content[p] \cup ({q} \cap Mutation) ELSE content[p]
    BY <1>9, <2>1 DEF Holds
  <2> QED
    BY <2>1, <2>2, <1>5, <1>6 DEF View
<1>10. ASSUME op = "write", p = home
       PROVE  View' = View \cup ({q} \cap Mutation)
  <2>1. Holds(op, q, p) = content[p] \cup ({q} \cap Mutation) /\ Remains(op, p)
    BY <1>10 DEF Holds, Reply, Remains
  <2> QED
    BY <2>1, <1>2, <1>4, <1>5, <1>6, <1>10 DEF View
<1>13. ASSUME op = "zero"
       PROVE  /\ ~exists[p] => View' = View /\ (p = home => View = {} /\ ~parent)
              /\ p = home /\ exists[p] => View' = View \cup ({q} \cap Mutation)
  <2>1. Remains(op, p) = exists[p] /\ Reply(op, p) = "ok"
    BY <1>13 DEF Remains, Reply
  <2>2. Holds(op, q, p) = IF exists[p] THEN content[p] \cup ({q} \cap Mutation) ELSE content[p]
    BY <1>13, <2>1, <1>3 DEF Holds
  <2> QED
    BY <2>1, <2>2, <1>2, <1>5, <1>6, <1>13 DEF View
<1>11. ASSUME op = "copyup", p = home
       PROVE  /\ exists[p] \/ parent => View' = View \cup ({q} \cap Mutation)
              /\ ~exists[p] /\ ~parent => View = {} /\ View' = {Parent} \cup ({q} \cap Mutation)
  <2>1. Remains(op, p) /\ Reply(op, p) = "ok"
    BY <1>11 DEF Remains, Reply
  <2>2. Holds(op, q, p) = (IF exists[p] THEN content[p] ELSE {Parent}) \cup ({q} \cap Mutation)
    BY <1>11, <2>1 DEF Holds
  <2> QED
    BY <2>1, <2>2, <1>5, <1>6, <1>11 DEF View
<1>12. ASSUME op \in {"truncate", "remove"}
       PROVE  View' \in {View, {}}
  <2>1. op # "read" /\ op # "copyup"
    BY <1>12
  <2>2. Holds(op, q, p) = {}
    BY <1>4, <1>12, <2>1 DEF Holds, Reply
  <2>3. Remains(op, p) = IF op = "remove" THEN FALSE ELSE exists[p]
    BY <1>12 DEF Remains
  <2> QED
    BY <2>2, <2>3, <1>2, <1>5, <1>6, <1>12 DEF View
<1> QED
  BY <1>7, <1>8, <1>9, <1>10, <1>11, <1>12, <1>13

\* The message that finds the object, or the removal of it, takes effect.
LEMMA ServeImage ==
  ASSUME BaseInv, DataInv, NEW p \in Pool, Serve(p), NEW q \in Request, q = osd[p][1].req
  PROVE  \/ UNCHANGED Cell!vars
         \/ q \in Read /\ Cell!Look(q)
         \/ q \in Remove /\ Cell!Wipe(q)
         \/ q \in Mutation /\ (Cell!Take(q) \/ Cell!Lose(q))
         \/ q \in Discard /\ Cell!Spare(q)
         \/ q \in Mutation \cup Flatten /\ Cell!Revive(q)
<1> USE DEF BaseInv, DataInv
<1> DEFINE op == osd[p][1].op
           r  == Reply(op, p)
<1>1. /\ Dropped(p) /\ op \in Op
      /\ result' = IF op = "read" THEN [result EXCEPT ![q] = content[p]] ELSE result
      /\ astray' = IF q \in Mutation /\ p # home /\ r = "ok" THEN astray \cup {q} ELSE astray
      /\ UNCHANGED <<home, header, parent, pc, hidden, orphaned, stray, faulted>>
  BY ServeFacts
<1>2. /\ q \in Read <=> op = "read"
      /\ q \in Remove <=> op \in {"truncate", "remove"}
      /\ op = "read" => (q \in stray \/ p = home) /\ pc[q] = "sent"
      /\ op = "zero" => q \in Discard
      /\ pc[q] \in {"sent", "copyup"}
  BY <1>1, ServedOp
<1>3. /\ r \in {"ok", "enoent", "error"} /\ r # "error"
      /\ r = "enoent" => op \in {"guarded", "remove", "read"} /\ ~exists[p]
      /\ op = "read" => (r = "ok" <=> exists[p])
      /\ op \in {"copyup", "write", "zero"} => r = "ok"
  BY DEF Reply, TypeOK
<1>4. finisher' = Append(finisher, [req |-> q, res |-> r])
  <2>1. Head(osd[p]) = osd[p][1]
    BY TailDrops DEF Serve
  <2> QED
    BY <2>1 DEF Serve
<1>5. ~HasAnswer(q)
  BY <1>1 DEF Dropped, QueueInv, HasAnswer
<1>6. /\ p # home => View' = View
      /\ op \in {"read", "guarded"} /\ r = "enoent" => View' = View
      /\ op = "read" => View' = View
      /\ op \in {"truncate", "remove"} => View' \in {View, {}}
      /\ op = "zero" /\ ~exists[p] => View' = View /\ (p = home => View = {} /\ ~parent)
      /\ p = home /\ op \in {"guarded", "write", "zero", "copyup"} /\ r = "ok"
           /\ (op = "copyup" => exists[p] \/ parent) /\ (op = "zero" => exists[p])
           => View' = View \cup ({q} \cap Mutation)
      /\ p = home /\ op = "copyup" /\ ~exists[p] /\ ~parent =>
           View = {} /\ View' = {Parent} \cup ({q} \cap Mutation)
  BY ServedImage
<1>7. p = home /\ op = "copyup" /\ ~exists[p] /\ ~parent => q \in Late
  <2>1. 1 \in Sent(p)
    BY <1>1 DEF Dropped
  <2>2. op = "copyup" => q \in Guarded
    BY <1>2 DEF Request
  <2> QED
    BY <2>1, <2>2 DEF DiscardInv, Late
<1> HIDE DEF r, op
<1>8. /\ \A x \in Request : x # q => GetsSame(x)
      /\ \A R \in Outcome : ~Gets(q, R) /\ (Gets(q, R)' <=> r \in R)
  BY <1>3, <1>4, <1>5, AddedGets
<1>9. /\ \A x \in Request : x # q => pc'[x] = pc[x] /\ GetsSame(x)
      /\ \A x \in Read : x # q => result'[x] = result[x]
      /\ pc' = pc
  BY <1>1, <1>2, <1>8 DEF TypeOK
<1>10. /\ ~Gets(q, {"ok"}) /\ ~Gets(q, {"enoent"}) /\ ~Gets(q, {"ok", "enoent"})
       /\ Gets(q, {"ok"})' <=> r = "ok"
       /\ Gets(q, {"enoent"})' <=> r = "enoent"
       /\ Gets(q, {"ok", "enoent"})'
  BY <1>3, <1>8, Outcomes
<1>11. Late' = Late /\ UNCHANGED <<hidden, parent, stray, faulted>>
  BY <1>1 DEF Late
<1>12. Stage(q) = "open"
  <2>1. ~TakesEffect(q)
    BY <1>2, <1>10 DEF TakesEffect
  <2> QED
    BY <2>1, <1>2 DEF Stage
<1>13. CASE q \in Read
  <2>1. /\ op = "read" /\ (q \in stray \/ p = home) /\ pc[q] = "sent"
        /\ q \notin Mutation /\ q \notin Flatten
    BY <1>2, <1>13, CellRequests
  <2>2. Stage(q)' = "looked"
    <3>1. TakesEffect(q)'
      BY <1>10, <1>13 DEF TakesEffect
    <3> QED
      BY <2>1, <3>1, <1>9, <1>13 DEF Stage
  <2>3. Seen(q)' = IF q \in stray THEN {} ELSE View
    <3>1. result'[q] = content[p]
      BY <2>1, <1>1, <1>13 DEF TypeOK
    <3> QED
      BY <2>1, <3>1, <1>3, <1>9, <1>10, <1>11 DEF Seen, View
  <2>4. Stages' = [Stages EXCEPT ![q] = "looked"] /\ Stages[q] = "open"
    BY <2>1, <2>2, <1>9, <1>11, <1>12, Others, At
  <2>5. Seens' = [Seens EXCEPT ![q] = IF q \in stray THEN {} ELSE View]
    BY <2>3, <1>9, <1>11, <1>13, Others
  <2>6. UNCHANGED <<View, astray>>
    BY <2>1, <1>1, <1>6
  <2> QED
    BY <2>4, <2>5, <2>6, <1>11, <1>13 DEF Cell!Look, Cell!Advance
<1>14. q \notin Read => UNCHANGED Seens
  BY <1>9, <1>11, Others
<1>15. CASE q \in Remove
  <2>1. op \in {"truncate", "remove"} /\ q \notin Read /\ q \notin Mutation /\ q \notin Flatten
    BY <1>2, <1>15, CellRequests
  <2>2. Stage(q)' = "taken"
    <3>1. TakesEffect(q)'
      BY <2>1, <1>10, <1>15 DEF TakesEffect
    <3> QED
      BY <2>1, <3>1, <1>2, <1>9 DEF Stage
  <2>3. Stages' = [Stages EXCEPT ![q] = "taken"] /\ Stages[q] = "open"
    BY <2>1, <2>2, <1>9, <1>11, <1>12, Others, At
  <2>4. View' \in {View, {}} /\ astray' = astray
    BY <2>1, <1>1, <1>6
  <2> QED
    BY <2>1, <2>3, <2>4, <1>11, <1>14, <1>15 DEF Cell!Wipe, Cell!Advance
<1>16. CASE q \in Mutation
  <2>1. /\ op \in {"guarded", "write", "zero", "copyup"} /\ q \notin Read /\ q \notin Remove
        /\ q \notin Flatten /\ {q} \cap Mutation = {q}
    BY <1>1, <1>2, <1>16, CellRequests DEF Op
  <2>2. TakesEffect(q)' <=> r = "ok"
    BY <2>1, <1>10 DEF TakesEffect
  <2>3. CASE r = "ok"
    <3>1. Stage(q)' = "taken"
      BY <2>1, <2>2, <2>3, <1>2, <1>9 DEF Stage
    <3>2. Stages' = [Stages EXCEPT ![q] = "taken"] /\ Stages[q] = "open"
      BY <2>1, <3>1, <1>9, <1>11, <1>12, Others, At
    <3>3. CASE p # home
      <4>1. View' = View /\ astray' = astray \cup {q}
        BY <2>3, <3>3, <1>1, <1>6, <1>16
      <4> QED
        BY <2>1, <3>2, <4>1, <1>11, <1>14, <1>16 DEF Cell!Lose, Cell!Advance
    <3>6. CASE p = home /\ op = "zero" /\ ~exists[p]
      <4>1. View' = View /\ View = {} /\ ~parent /\ astray' = astray /\ q \in Discard
        BY <3>6, <1>1, <1>2, <1>6
      <4> QED
        BY <2>1, <3>2, <4>1, <1>11, <1>14 DEF Cell!Spare, Cell!Advance
    <3>4. CASE /\ p = home
               /\ op = "copyup" => exists[p] \/ parent
               /\ op = "zero" => exists[p]
      <4>1. View' = View \cup {q} /\ astray' = astray
        BY <2>1, <2>3, <3>4, <1>1, <1>6
      <4> QED
        BY <2>1, <3>2, <4>1, <1>11, <1>14, <1>16 DEF Cell!Take, Cell!Advance
    <3>5. CASE p = home /\ op = "copyup" /\ ~exists[p] /\ ~parent
      <4>1. View = {} /\ View' = {Parent, q} /\ astray' = astray /\ q \in Late
        BY <2>1, <3>5, <1>1, <1>6, <1>7
      <4> QED
        BY <2>1, <3>2, <3>5, <4>1, <1>11, <1>14, <1>16, CellRequests DEF Cell!Revive, Cell!Advance
    <3> QED
      BY <3>3, <3>4, <3>5, <3>6
  <2>4. CASE r # "ok"
    <3>1. Stage(q)' = "open"
      BY <2>2, <2>4, <1>2, <1>9 DEF Stage
    <3>2. op = "guarded" /\ r = "enoent"
      BY <2>1, <2>4, <1>3
    <3>3. View' = View /\ astray' = astray
      BY <3>2, <1>1, <1>6
    <3>4. SameCell
      BY <3>3, <1>11 DEF SameCell
    <3> QED
      BY <2>1, <3>1, <3>4, <1>9, <1>12, Unseen
  <2> QED
    BY <2>3, <2>4
<1>17. CASE q \in Flatten
  <2>1. /\ op \in {"guarded", "write", "zero", "copyup"} /\ q \notin Read /\ q \notin Remove
        /\ q \notin Mutation /\ {q} \cap Mutation = {}
    BY <1>1, <1>2, <1>17, CellRequests DEF Op, Request
  <2>2. astray' = astray /\ UNCHANGED <<Stages, Seens>>
    BY <2>1, <1>1, <1>9, <1>11, <1>14, <1>17, Others
  <2>3. CASE p = home /\ op = "copyup" /\ ~exists[p] /\ ~parent
    <3>1. View = {} /\ View' = {Parent} /\ q \in Late
      BY <2>1, <2>3, <1>6, <1>7
    <3> QED
      BY <2>1, <2>2, <2>3, <3>1, <1>11, <1>17, CellRequests DEF Cell!Revive
  <2>4. CASE ~(p = home /\ op = "copyup" /\ ~exists[p] /\ ~parent)
    <3>1. View' = View
      BY <2>1, <2>4, <1>3, <1>6
    <3> QED
      BY <2>2, <3>1, <1>11 DEF Cell!vars
  <2> QED
    BY <2>3, <2>4
<1> QED
  BY <1>13, <1>15, <1>16, <1>17 DEF Request, Guarded

LEMMA RefuseImage ==
  ASSUME BaseInv, NEW p \in Pool, Refuse(p)
  PROVE  UNCHANGED Cell!vars
<1> USE DEF BaseInv
<1>1. Dropped(p) /\ Head(osd[p]) = osd[p][1]
  BY TailDrops DEF Refuse
<1>2. PICK q \in Request : q = osd[p][1].req
  BY <1>1, Typed DEF Dropped
<1>3. ~HasAnswer(q)
  BY <1>1, <1>2 DEF Dropped, QueueInv, HasAnswer
<1>4. finisher' = Append(finisher, [req |-> q, res |-> "error"])
  BY <1>1, <1>2 DEF Refuse
<1>5. /\ \A x \in Request : x # q => GetsSame(x)
      /\ \A R \in Outcome : ~Gets(q, R) /\ (Gets(q, R)' <=> "error" \in R)
  BY <1>3, <1>4, AddedGets
<1>6. \A R \in Outcome : ~Gets(q, R)'
  BY <1>5 DEF Outcome
<1>7. UNCHANGED <<exists, content, home, parent, hidden, orphaned, astray, stray, faulted,
                  pc, result>>
  BY DEF Refuse, objVars, moveVars, reqVars, histVars
<1>8. TakesEffect(q)' <=> TakesEffect(q)
  <2>1. /\ ~Gets(q, {"ok"}) /\ ~Gets(q, {"ok", "enoent"})
        /\ ~Gets(q, {"ok"})' /\ ~Gets(q, {"ok", "enoent"})'
    BY <1>5, <1>6, Outcomes
  <2> QED
    BY <2>1, <1>7 DEF TakesEffect
<1>9. Stage(q)' = Stage(q)
  BY <1>7, <1>8 DEF Stage
<1>10. Seen(q)' = Seen(q)
  BY <1>5, <1>6, <1>7, Outcomes DEF Seen
<1> QED
  BY <1>5, <1>7, <1>9, <1>10, QuietCell, Unseen

-----------------------------------------------------------------------------
(* The parent goes away; the object moves.                                 *)

LEMMA SameRequests ==
  ASSUME UNCHANGED <<pc, result, finisher, parent, stray>>
  PROVE  UNCHANGED <<Stages, Seens>>
<1>1. \A x \in Request : GetsSame(x) /\ pc'[x] = pc[x]
  BY SameGets
<1>2. ASSUME NEW x \in Request
      PROVE  Stage(x)' = Stage(x) /\ Seen(x)' = Seen(x)
  <2>1. \A R \in Outcome : Gets(x, R)' = Gets(x, R)
    BY <1>1 DEF GetsSame
  <2>2. TakesEffect(x)' = TakesEffect(x)
    BY <2>1, Outcomes DEF TakesEffect
  <2> QED
    BY <2>1, <2>2, Outcomes DEF Stage, Seen
<1> QED
  BY <1>2, CellRequests DEF Stages, Seens

LEMMA RemoveParentImage == ASSUME RemoveParent PROVE UNCHANGED Cell!vars
<1>1. SameCell
  BY QuietCell DEF RemoveParent, objVars, moveVars, histVars
<1> QED
  BY <1>1, SameRequests DEF RemoveParent, reqVars, SameCell, Cell!vars

\* Another client copies the parent's data into an object that is absent.
LEMMA FlattenElsewhereImage ==
  ASSUME BaseInv, DataInv, FlattenElsewhere
  PROVE  UNCHANGED Cell!vars
<1> USE DEF BaseInv, DataInv
<1>1. UNCHANGED <<home, parent, pc, result, finisher, astray, hidden, orphaned, stray, faulted>>
  BY DEF FlattenElsewhere, moveVars, reqVars, histVars
<1>2. parent
  BY DEF FlattenElsewhere, ObjectInv
<1>3. home \in Place /\ exists \in [Place -> BOOLEAN] /\ content \in [Place -> SUBSET Data]
  BY DEF TypeOK
<1>4. View' = View
  <2>1. CASE home = DEFAULT_POOL
    BY <2>1, <1>1, <1>2, <1>3 DEF FlattenElsewhere, View
  <2>2. CASE home # DEFAULT_POOL
    <3>1. exists[home]
      BY <2>2, <1>3 DEF ObjectInv, Pool, DEFAULT_POOL
    <3>2. exists'[home] = exists[home] /\ content'[home] = content[home]
      BY <2>2, <1>3 DEF FlattenElsewhere
    <3> QED
      BY <3>1, <3>2, <1>1 DEF View
  <2> QED
    BY <2>1, <2>2
<1> QED
  BY <1>1, <1>4, SameRequests DEF Late, Cell!vars

\* The object has the parent's data when the parent is closed: only reads that
\* were answered before, and copyups that are still to be sent, can tell.
LEMMA RefreshParentImage ==
  ASSUME BaseInv, DataInv, RefreshParent
  PROVE  \E R \in SUBSET Read, L \in SUBSET (Mutation \cup Flatten) : Cell!CloseParent(R, L)
<1> USE DEF BaseInv, DataInv
<1>1. /\ UNCHANGED <<exists, content, home, pc, result, finisher, astray, hidden, stray,
                     faulted>>
      /\ parent /\ parent' = FALSE /\ ~header
  BY DEF RefreshParent, objVars, moveVars, reqVars
<1>2. exists[home]
  BY <1>1 DEF ParentInv, DiscardInv
<1>3. View' = View
  BY <1>1, <1>2 DEF View
<1>4. \A x \in Request : \A R \in Outcome : Gets(x, R)' = Gets(x, R)
  BY <1>1, SameGets DEF GetsSame
<1> DEFINE R == {r \in Read \ stray : Gets(r, {"enoent"})}
<1>5. UNCHANGED Stages
  <2>1. ASSUME NEW x \in Request
        PROVE  Stage(x)' = Stage(x)
    <3>1. TakesEffect(x)' = TakesEffect(x)
      BY <1>1, <1>4, Outcomes DEF TakesEffect
    <3> QED
      BY <3>1, <1>1 DEF Stage
  <2> QED
    BY <2>1 DEF Stages
<1>6. ASSUME NEW r \in R
      PROVE  Stages[r] = "looked" /\ Seens[r] = {Parent} /\ Seen(r)' = {}
  <2>1. r \in Request \ Flatten /\ r \in Read /\ r \notin stray /\ Gets(r, {"enoent"})
    BY CellRequests
  <2>2. ~Gets(r, {"ok"}) /\ pc[r] = "sent" /\ Gets(r, {"ok", "enoent"})
    BY <2>1, OneAnswer DEF Missing
  <2>3. Stage(r) = "looked" /\ Seen(r) = {Parent}
    BY <2>1, <2>2, <1>1 DEF Stage, TakesEffect, Seen
  <2>4. ~Gets(r, {"ok"})' /\ pc'[r] = "sent" /\ ~parent'
    BY <2>1, <2>2, <1>1, <1>4, Outcomes
  <2>5. Seen(r)' = {}
    BY <2>4 DEF Seen
  <2> QED
    BY <2>1, <2>3, <2>5, At
<1>7. ASSUME NEW r \in Read, r \notin R
      PROVE  Seen(r)' = Seens[r]
  <2>1. r \in Request /\ (r \in stray \/ (~Gets(r, {"enoent"}) /\ ~Gets(r, {"enoent"})'))
    BY <1>4, <1>7, CellRequests, Outcomes
  <2>2. Seen(r)' = Seen(r)
    BY <2>1, <1>1, <1>4, Outcomes DEF Seen
  <2> QED
    BY <2>2, At
<1>8. Seens' = [r \in Read |-> IF r \in R THEN {} ELSE Seens[r]]
  <2>1. Seens' = [r \in Read |-> Seen(r)']
    BY DEF Seens
  <2> QED
    BY <2>1, <1>6, <1>7
<1>9. Late' \in SUBSET (Mutation \cup Flatten)
  BY DEF Late, Guarded
<1>10. R \in SUBSET Read
  OBVIOUS
<1>11. \A r \in R : Stages[r] = "looked" /\ Seens[r] = {Parent}
  BY <1>6
<1> HIDE DEF R
<1>12. PICK L \in SUBSET (Mutation \cup Flatten) : L = Late'
  BY <1>9
<1>13. Cell!CloseParent(R, L)
  BY <1>1, <1>3, <1>5, <1>8, <1>11, <1>12, CellRequests DEF Cell!CloseParent
<1> QED
  BY <1>10, <1>13

\* A copy that succeeds leaves the reads behind that have their pool, and the
\* parent's data if the object does not exist.
LEMMA CopyReadImage ==
  ASSUME BaseInv, DataInv, CopyRead(TRUE)
  PROVE  \E R \in SUBSET Read : Cell!Leave(R)
<1> USE DEF BaseInv, DataInv
<1> DEFINE R == {r \in Read : pc[r] = "chosen"}
<1>1. /\ UNCHANGED <<exists, parent, pc, result, finisher, astray, orphaned>>
      /\ home' = BUFFER /\ content'[BUFFER] = content[home] /\ exists[BUFFER]
      /\ hidden' = (hidden \/ (parent /\ ~exists[home]))
      /\ stray' = stray \cup R /\ faulted' = faulted
  BY DEF CopyRead, reqVars, TypeOK, PlaceInv, Place, BUFFER
<1>2. View' = content[home] /\ (~exists[home] => content[home] = {})
  BY <1>1 DEF View, PlaceInv, TypeOK
<1>3. \A x \in Request : \A O \in Outcome : Gets(x, O)' = Gets(x, O)
  BY <1>1, SameGets DEF GetsSame
<1>4. ASSUME NEW x \in Request
      PROVE  Stage(x)' = Stage(x)
  <2>1. TakesEffect(x)' = TakesEffect(x)
    BY <1>1, <1>3, Outcomes DEF TakesEffect
  <2> QED
    BY <2>1, <1>1 DEF Stage
<1>5. ASSUME NEW r \in R
      PROVE  Stages[r] = "open" /\ Seen(r) = {} /\ Seen(r)' = {}
  <2>1. r \in Request \ Flatten /\ r \in Read /\ pc[r] = "chosen"
    BY CellRequests
  <2>2. \A O \in Outcome : ~Gets(r, O) /\ ~Gets(r, O)'
    BY <2>1, <1>3, IdleGets
  <2>3. Stage(r) = "open" /\ Seen(r) = {} /\ Seen(r)' = {}
    BY <2>1, <2>2, <1>1, Outcomes DEF Stage, TakesEffect, Seen
  <2> QED
    BY <2>1, <2>3, At
<1>6. ASSUME NEW r \in Read, r \notin R
      PROVE  Seen(r)' = Seen(r)
  BY <1>1, <1>3, <1>6, CellRequests, Outcomes DEF Seen
<1>7. UNCHANGED <<Stages, Seens, Late>>
  BY <1>1, <1>4, <1>5, <1>6 DEF Stages, Seens, Late
<1>8. R \in SUBSET Read /\ \A r \in R : Stages[r] = "open"
  BY <1>5
<1>9. CASE parent /\ ~exists[home]
  <2>1. View = {Parent} /\ View' = {} /\ hidden' = TRUE
    BY <1>1, <1>2, <1>9 DEF View
  <2> HIDE DEF R
  <2> QED
    BY <2>1, <1>1, <1>7, <1>8, <1>9 DEF Cell!Leave
<1>10. CASE ~(parent /\ ~exists[home])
  <2>1. View' = View /\ hidden' = hidden
    BY <1>1, <1>2, <1>10 DEF View, TypeOK
  <2> HIDE DEF R
  <2> QED
    BY <2>1, <1>1, <1>7, <1>8 DEF Cell!Leave
<1> QED
  BY <1>9, <1>10

LEMMA CopyWriteImage == ASSUME BaseInv, CopyWrite(TRUE) PROVE UNCHANGED Cell!vars
<1> USE DEF BaseInv
<1>1. /\ UNCHANGED <<parent, pc, result, finisher, astray, hidden, orphaned, stray>>
      /\ faulted' = faulted
  BY DEF CopyWrite, reqVars, TypeOK
<1>2. /\ exists[home] /\ exists'[home'] /\ content'[home'] = content[home]
  BY DEF CopyWrite, OtherPool, TypeOK, PlaceInv, Place, Pool, BUFFER, HDD_POOL, SSD_POOL
<1>3. View' = View
  BY <1>2 DEF View
<1> QED
  BY <1>1, <1>3, SameRequests DEF Late, Cell!vars

LEMMA RemoveSourceImage ==
  ASSUME BaseInv, NEW ok \in BOOLEAN, RemoveSource(ok)
  PROVE  UNCHANGED Cell!vars
<1> USE DEF BaseInv
<1>1. UNCHANGED <<home, parent, pc, result, finisher, astray, hidden, orphaned, stray, faulted>>
  BY DEF RemoveSource, reqVars, histVars
<1>2. home \in Place /\ home # source
  BY DEF RemoveSource, OtherPool, TypeOK, PlaceInv, Pool, HDD_POOL, SSD_POOL
<1>3. exists'[home] = exists[home] /\ content'[home] = content[home]
  BY <1>2 DEF RemoveSource, objVars, TypeOK
<1>4. View' = View
  BY <1>1, <1>3 DEF View
<1> QED
  BY <1>1, <1>4, SameRequests DEF Late, Cell!vars

-----------------------------------------------------------------------------
LEMMA InitImage == Init => Cell!Init
<1> SUFFICES ASSUME Init PROVE Cell!Init
  OBVIOUS
<1>1. /\ View = {Parent} /\ Late = {} /\ parent = TRUE /\ hidden = FALSE /\ astray = {}
      /\ stray = {} /\ faulted = FALSE
  <2>1. exists[home] = (home = BUFFER)
    <3>1. exists = [p \in Place |-> p = BUFFER] /\ home = HDD_POOL
      BY DEF Init
    <3>2. home \in Place
      BY <3>1 DEF Place, Pool
    <3> QED
      BY <3>1, <3>2, Zenon
  <2>2. home # BUFFER
    BY DEF Init, HDD_POOL, BUFFER
  <2>3. ~exists[home]
    BY <2>1, <2>2
  <2> QED
    BY <2>3 DEF Init, View, Late
<1>2. \A q \in Request : pc[q] = "new" /\ \A R \in Outcome : ~Gets(q, R)
  <2>1. Answered = {}
    <3>1. Len(<<>>) = 0
      OBVIOUS
    <3> QED
      BY <3>1 DEF Init, Answered
  <2> QED
    BY <2>1 DEF Init, Gets
<1>3. Stages = [q \in Cell!Request |-> "new"]
  BY <1>2, CellRequests DEF Stages, Stage
<1>4. Seens = [r \in Read |-> {}]
  BY <1>2, CellRequests, Outcomes DEF Seens, Seen
<1> QED
  BY <1>1, <1>3, <1>4 DEF Cell!Init

LEMMA NextImage == ASSUME IInv, [Next]_vars PROVE [Cell!Next]_(Cell!vars)
<1> USE DEF Cell!Next
<1>0. CASE faulted'
  BY <1>0 DEF Cell!Break
<1> SUFFICES ASSUME ~faulted', faulted' \in BOOLEAN PROVE [Cell!Next]_(Cell!vars)
  <2>1. faulted' \in BOOLEAN
    BY TypeStep DEF IInv, BaseInv, TypeOK
  <2> QED
    BY <1>0, <2>1
<1>1. ~faulted
  BY DEF Next, SendStep, Begin, GetPool, Send, Handle, Missed, NullCopyup, Finish, ParentStep,
         ParentAnswers, ParentFails, ParentRefuses, Serve, Refuse, RemoveParent,
         FlattenElsewhere, RefreshParent, CopyRead, CopyWrite, RemoveSource, histVars, vars
<1>2. BaseInv /\ DataInv
  BY <1>1 DEF IInv
<1>3. ASSUME NEW q \in Request, SendStep(q) PROVE [Cell!Next]_(Cell!vars)
  BY <1>2, <1>3, SendImage, CellRequests
<1>4. ASSUME NEW q \in Request, Handle(q) PROVE [Cell!Next]_(Cell!vars)
  BY <1>2, <1>4, MissedImage, NullCopyupImage, FinishImage, CellRequests DEF Handle
<1>5. ASSUME NEW q \in Request, ParentStep(q) PROVE [Cell!Next]_(Cell!vars)
  BY <1>2, <1>5, ParentAnswersImage, ParentFailsImage, ParentRefusesImage, CellRequests
     DEF ParentStep
<1>6. ASSUME NEW p \in Pool, Serve(p) PROVE [Cell!Next]_(Cell!vars)
  <2>1. Dropped(p) /\ \A i \in Sent(p) : osd[p][i].req \in Request
    BY <1>2, <1>6, TailDrops, Typed DEF Serve, BaseInv
  <2>2. PICK q \in Request : q = osd[p][1].req
    BY <2>1 DEF Dropped
  <2> QED
    BY <1>2, <1>6, <2>2, ServeImage, CellRequests
<1>7. ASSUME NEW p \in Pool, Refuse(p) PROVE [Cell!Next]_(Cell!vars)
  BY <1>2, <1>7, RefuseImage
<1>8. CASE RemoveParent \/ FlattenElsewhere
  BY <1>2, <1>8, RemoveParentImage, FlattenElsewhereImage
<1>9. CASE RefreshParent
  BY <1>2, <1>9, RefreshParentImage, CellRequests
<1>10. ASSUME NEW ok \in BOOLEAN, CopyRead(ok) PROVE [Cell!Next]_(Cell!vars)
  <2>1. ok = TRUE
    BY <1>10 DEF CopyRead
  <2> QED
    BY <2>1, <1>2, <1>10, CopyReadImage
<1>11. ASSUME NEW ok \in BOOLEAN, CopyWrite(ok) PROVE [Cell!Next]_(Cell!vars)
  <2>1. ok = TRUE
    BY <1>11 DEF CopyWrite
  <2> QED
    BY <2>1, <1>2, <1>11, CopyWriteImage
<1>12. ASSUME NEW ok \in BOOLEAN, RemoveSource(ok) PROVE [Cell!Next]_(Cell!vars)
  BY <1>2, <1>12, RemoveSourceImage
<1>13. CASE UNCHANGED vars
  <2>1. SameCell /\ UNCHANGED <<pc, result, finisher, parent, stray>>
    BY <1>13, QuietCell DEF vars, objVars, moveVars, reqVars, histVars
  <2> QED
    BY <2>1, SameRequests DEF SameCell, Cell!vars
<1> QED
  BY <1>3, <1>4, <1>5, <1>6, <1>7, <1>8, <1>9, <1>10, <1>11, <1>12, <1>13 DEF Next

\* AioRequest's guards, reads of the parent and copyups, flatten and the moves
\* between the pools implement an object that is one cell, but for the cases that
\* AtomicObject names, a failed copy among them.
THEOREM LayeringIsInvisible == Spec => ImplementsAtomicObject
<1>1. Init => Cell!Init
  BY InitImage
<1>2. IInv /\ [Next]_vars => [Cell!Next]_(Cell!vars)
  BY NextImage
<1> QED
  BY <1>1, <1>2, Invariance, PTL DEF Spec, ImplementsAtomicObject, Cell!Spec
=============================================================================

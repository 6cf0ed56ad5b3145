-------------------------- MODULE ImageStoreProofs --------------------------
(* What the image store guarantees, for any sets of extents and requests.  *)
EXTENDS ImageStore, TLAPS

\* What is waived counts as empty.
WaivedIsEmpty ==
  /\ \A e \in waived : store[e] = {}
  /\ \A r \in stray : stage[r] # "new"
  /\ \A r \in Read : Free(r) => floor[r] = {}

StoreInv == TypeOK /\ NothingLost /\ WaivedIsEmpty /\ ReadsSeeThePast

LEMMA TypePreserved == ASSUME TypeOK, [Next]_vars PROVE TypeOK'
<1> USE DEF TypeOK
<1>1. ASSUME NEW q \in Request, Open(q) \/ Refuse(q) PROVE TypeOK'
  BY <1>1 DEF Open, Refuse
<1>2. ASSUME NEW w \in Mutation, Take(w) \/ Acknowledge(w) PROVE TypeOK'
  BY <1>2 DEF Take, Acknowledge, Request
<1>3. ASSUME NEW r \in Read, Forgo(r) PROVE TypeOK'
  BY <1>3 DEF Forgo
<1>4. ASSUME NEW r \in Read, Answer(r) PROVE TypeOK'
  <2>1. stage' \in [Request -> {"new", "open", "taken", "ok", "failed"}]
    BY <1>4 DEF Answer
  <2>2. result' \in [Read -> SUBSET Mutation]
    BY <1>4 DEF Answer, Request
  <2> QED BY <1>4, <2>1, <2>2 DEF Answer
<1>5. ASSUME NEW e \in Extent, Waive(e) PROVE TypeOK'
  BY <1>5 DEF Waive
<1>6. CASE UNCHANGED vars
  BY <1>6 DEF vars
<1> QED BY <1>1, <1>2, <1>3, <1>4, <1>5, <1>6 DEF Next

LEMMA NothingLostPreserved ==
  ASSUME Mutation \cap Read = {}, TypeOK, NothingLost, [Next]_vars
  PROVE  NothingLost'
<1> USE DEF TypeOK, NothingLost, Request
<1>1. ASSUME NEW q \in Request, Open(q) \/ Refuse(q) PROVE NothingLost'
  BY <1>1 DEF Open, Refuse
<1>2. ASSUME NEW w \in Mutation, Take(w) \/ Acknowledge(w) PROVE NothingLost'
  BY <1>2 DEF Take, Acknowledge
<1>3. ASSUME NEW r \in Read, Answer(r) \/ Forgo(r) PROVE NothingLost'
  <2>1. \A w \in Mutation : stage'[w] = stage[w]
    BY <1>3 DEF Answer, Forgo
  <2> QED BY <1>3, <2>1 DEF Answer, Forgo
<1>4. ASSUME NEW e \in Extent, Waive(e) PROVE NothingLost'
  BY <1>4 DEF Waive
<1>5. CASE UNCHANGED vars
  BY <1>5 DEF vars
<1> QED BY <1>1, <1>2, <1>3, <1>4, <1>5 DEF Next

LEMMA WaivedIsEmptyPreserved ==
  ASSUME TypeOK, WaivedIsEmpty, [Next]_vars PROVE WaivedIsEmpty'
<1> USE DEF TypeOK, WaivedIsEmpty, Request, Free
<1>1. ASSUME NEW q \in Request, Open(q) PROVE WaivedIsEmpty'
  BY <1>1 DEF Open
<1>2. ASSUME NEW q \in Request, Refuse(q) PROVE WaivedIsEmpty'
  BY <1>2 DEF Refuse
<1>3. ASSUME NEW w \in Mutation, Take(w) \/ Acknowledge(w) PROVE WaivedIsEmpty'
  BY <1>3 DEF Take, Acknowledge
<1>4. ASSUME NEW r \in Read, Answer(r) PROVE WaivedIsEmpty'
  BY <1>4 DEF Answer
<1>5. ASSUME NEW r \in Read, Forgo(r) PROVE WaivedIsEmpty'
  BY <1>5 DEF Forgo
<1>6. ASSUME NEW e \in Extent, Waive(e) PROVE WaivedIsEmpty'
  BY <1>6 DEF Waive
<1>7. CASE UNCHANGED vars
  BY <1>7 DEF vars
<1> QED BY <1>1, <1>2, <1>3, <1>4, <1>5, <1>6, <1>7 DEF Next

LEMMA ReadsSeeThePastPreserved ==
  ASSUME Mutation \cap Read = {}, TypeOK, WaivedIsEmpty, ReadsSeeThePast, [Next]_vars
  PROVE  ReadsSeeThePast'
<1> USE DEF TypeOK, ReadsSeeThePast, Request
<1>1. ASSUME NEW q \in Request, Open(q) \/ Refuse(q) PROVE ReadsSeeThePast'
  BY <1>1 DEF Open, Refuse
<1>2. ASSUME NEW w \in Mutation, Take(w) \/ Acknowledge(w) PROVE ReadsSeeThePast'
  <2>1. \A r \in Read : stage'[r] = stage[r]
    BY <1>2 DEF Take, Acknowledge
  <2> QED BY <1>2, <2>1 DEF Take, Acknowledge
<1>3. ASSUME NEW r \in Read, Answer(r) PROVE ReadsSeeThePast'
  <2>1. CASE Free(r)
    BY <1>3, <2>1 DEF Answer, WaivedIsEmpty
  <2>2. CASE ~Free(r)
    BY <1>3, <2>2 DEF Answer
  <2> QED BY <2>1, <2>2
<1>4. ASSUME NEW e \in Extent, Waive(e) PROVE ReadsSeeThePast'
  BY <1>4 DEF Waive
<1>5. ASSUME NEW r \in Read, Forgo(r) PROVE ReadsSeeThePast'
  BY <1>5 DEF Forgo
<1>6. CASE UNCHANGED vars
  BY <1>6 DEF vars
<1> QED BY <1>1, <1>2, <1>3, <1>4, <1>5, <1>6 DEF Next

\* The image store keeps every mutation that took effect and answers no read
\* with less than what was there before: what aio_write and aio_read of the
\* image promise, and what a data path that implements the store inherits.
THEOREM StoreIsSound ==
  ASSUME Mutation \cap Read = {}
  PROVE  Spec => [](NothingLost /\ ReadsSeeThePast)
<1>1. Init => StoreInv
  BY DEF Init, StoreInv, TypeOK, NothingLost, WaivedIsEmpty, ReadsSeeThePast, Free, Request
<1>2. StoreInv /\ [Next]_vars => StoreInv'
  BY TypePreserved, NothingLostPreserved, WaivedIsEmptyPreserved,
     ReadsSeeThePastPreserved DEF StoreInv
<1>3. StoreInv => NothingLost /\ ReadsSeeThePast
  BY DEF StoreInv
<1> QED BY <1>1, <1>2, <1>3, PTL DEF Spec
=============================================================================

---------------------------- MODULE AtomicObject ----------------------------
(***************************************************************************)
(* What an object of a clone promises its user, whatever pool it is in and *)
(* whether it has been copied from the parent or not: it is one cell.  A   *)
(* write or a discard takes effect once, between its invocation and its    *)
(* answer, or fails and has none; a read returns exactly what the cell     *)
(* held at one moment between its invocation and its answer.  The guards,  *)
(* the reads of the parent, the copyups, flatten and the moves of the      *)
(* object cannot be seen.                                                  *)
(*                                                                         *)
(* The cases in which the model of the code breaks that promise are        *)
(* actions here:                                                           *)
(*                                                                         *)
(*  - a write or a discard of a part is acknowledged and lost (Lose);      *)
(*  - a discard of the whole object has no effect (Wipe);                  *)
(*  - the object moves on while a read has its pool and is not sent yet:   *)
(*    what it returns is not said (Leave);                                 *)
(*  - the parent's data is forgotten when the object is moved before it    *)
(*    was written (Leave);                                                 *)
(*  - the parent is closed while a read that found it is being answered,   *)
(*    and the read returns zeros; a request that was reading the parent    *)
(*    then may bring the parent's data back later (CloseParent, Revive);   *)
(*  - a copy of the migrater fails: nothing is said from then on (Break).  *)
(***************************************************************************)
CONSTANTS
  Parent,    \* the data of the parent image
  Write,     \* writes
  Discard,   \* discards of a part
  Remove,    \* discards of the whole
  Read,      \* reads
  Flatten    \* calls of flatten, which write nothing

Mutation == Write \cup Discard
Request  == Mutation \cup Remove \cup Read

VARIABLES
  data,      \* what the cell holds
  open,      \* the image has its parent
  hidden,    \* the parent's data was forgotten
  late,      \* requests that were reading the parent when it was closed
  lost,      \* writes and discards that were acknowledged and lost
  stray,     \* reads that were left behind
  broken,    \* a copy failed
  stage,     \* how far a request is
  seen       \* seen[r]: what read r returns

vars == <<data, open, hidden, late, lost, stray, broken, stage, seen>>

Init ==
  /\ data   = {Parent}
  /\ open   = TRUE
  /\ hidden = FALSE
  /\ late   = {}
  /\ lost   = {}
  /\ stray  = {}
  /\ broken = FALSE
  /\ stage  = [q \in Request |-> "new"]
  /\ seen   = [r \in Read |-> {}]

Advance(q, from, to) == stage[q] = from /\ stage' = [stage EXCEPT ![q] = to]

Open(q) ==
  /\ Advance(q, "new", "open")
  /\ UNCHANGED <<data, open, hidden, late, lost, stray, broken, seen>>

Take(w) ==
  /\ Advance(w, "open", "taken")
  /\ data' = data \cup {w}
  /\ UNCHANGED <<open, hidden, late, lost, stray, broken, seen>>

Lose(w) ==
  /\ Advance(w, "open", "taken")
  /\ lost' = lost \cup {w}
  /\ UNCHANGED <<data, open, hidden, late, stray, broken, seen>>

\* There is nothing to discard a part of.
Spare(d) ==
  /\ Advance(d, "open", "taken")
  /\ data = {} /\ ~open
  /\ UNCHANGED <<data, open, hidden, late, lost, stray, broken, seen>>

Wipe(d) ==
  /\ Advance(d, "open", "taken")
  /\ data' \in {data, {}}
  /\ UNCHANGED <<open, hidden, late, lost, stray, broken, seen>>

Look(r) ==
  /\ Advance(r, "open", "looked")
  /\ seen' = [seen EXCEPT ![r] = IF r \in stray THEN {} ELSE data]
  /\ UNCHANGED <<data, open, hidden, late, lost, stray, broken>>

Acknowledge(q) ==
  /\ Advance(q, IF q \in Read THEN "looked" ELSE "taken", "ok")
  /\ UNCHANGED <<data, open, hidden, late, lost, stray, broken, seen>>

\* A write or a discard that fails has not taken effect.
Fail(q) ==
  /\ stage[q] = "open" \/ (q \in Read /\ stage[q] = "looked")
  /\ stage' = [stage EXCEPT ![q] = "failed"]
  /\ seen' = IF q \in Read THEN [seen EXCEPT ![q] = {}] ELSE seen
  /\ UNCHANGED <<data, open, hidden, late, lost, stray, broken>>

\* The object is moved, and leaves the reads in R behind.
Leave(R) ==
  /\ \A r \in R : stage[r] = "open"
  /\ stray' = stray \cup R
  /\ \/ UNCHANGED <<data, hidden>>
     \/ open /\ data = {Parent} /\ data' = {} /\ hidden' = TRUE
  /\ UNCHANGED <<open, late, lost, broken, stage, seen>>

\* The reads in R miss the parent they found; the requests in L are late.
CloseParent(R, L) ==
  /\ open
  /\ open' = FALSE
  /\ \A r \in R : stage[r] = "looked" /\ seen[r] = {Parent}
  /\ seen' = [r \in Read |-> IF r \in R THEN {} ELSE seen[r]]
  /\ late' = L
  /\ UNCHANGED <<data, hidden, lost, stray, broken, stage>>

Revive(q) ==
  /\ q \in late
  /\ ~open
  /\ data = {}
  /\ IF q \in Mutation THEN /\ Advance(q, "open", "taken")
                            /\ data' = {Parent, q}
                       ELSE /\ data' = {Parent}
                            /\ UNCHANGED stage
  /\ UNCHANGED <<open, hidden, late, lost, stray, broken, seen>>

\* A copy failed: from then on nothing is said.
Break == broken'

Next ==
  \/ \E q \in Request : Open(q) \/ Acknowledge(q) \/ Fail(q)
  \/ \E w \in Mutation : Take(w) \/ Lose(w)
  \/ \E d \in Discard : Spare(d)
  \/ \E d \in Remove : Wipe(d)
  \/ \E r \in Read : Look(r)
  \/ \E q \in Mutation \cup Flatten : Revive(q)
  \/ \E R \in SUBSET Read : Leave(R)
  \/ \E R \in SUBSET Read, L \in SUBSET (Mutation \cup Flatten) : CloseParent(R, L)
  \/ Break

Spec == Init /\ [][Next]_vars
=============================================================================

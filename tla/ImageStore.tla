----------------------------- MODULE ImageStore -----------------------------
(***************************************************************************)
(* What the image promises its user, whatever pools its extents are in: an *)
(* extent is one place that holds the mutations that took effect on it.  A *)
(* mutation takes effect once, between its invocation and its answer; a    *)
(* read returns at least what its extent held when the read was invoked    *)
(* and at most what it holds when the read is answered.                    *)
(*                                                                         *)
(* The promise can be waived, for an extent or for one read: those are     *)
(* the cases in which the code keeps no promise, and the module that       *)
(* implements this one names them.                                         *)
(***************************************************************************)
CONSTANTS
  Extent,     \* extents of the image
  Mutation,   \* writes and discards
  Read        \* reads

Request == Mutation \cup Read

VARIABLES
  store,    \* store[e]: the mutations extent e holds
  waived,   \* extents for which nothing is promised any more
  stray,    \* reads for which nothing is promised any more
  stage,    \* how far a request is
  ext,      \* the extent a request is for
  floor,    \* floor[r]: what the extent of r held when r was invoked
  result    \* result[r]: what r returned

vars == <<store, waived, stray, stage, ext, floor, result>>

Free(r) == r \in stray \/ ext[r] \in waived

Init ==
  /\ store  = [e \in Extent |-> {}]
  /\ waived = {}
  /\ stray  = {}
  /\ stage  = [q \in Request |-> "new"]
  /\ ext    \in [Request -> Extent]
  /\ floor  = [r \in Read |-> {}]
  /\ result = [r \in Read |-> {}]

Open(q) ==
  /\ stage[q] = "new"
  /\ stage' = [stage EXCEPT ![q] = "open"]
  /\ floor' = IF q \in Read THEN [floor EXCEPT ![q] = store[ext[q]]] ELSE floor
  /\ UNCHANGED <<store, waived, stray, ext, result>>

\* The mutation takes effect.
Take(w) ==
  /\ stage[w] = "open"
  /\ stage' = [stage EXCEPT ![w] = "taken"]
  /\ store' = IF ext[w] \in waived THEN store ELSE [store EXCEPT ![ext[w]] = @ \cup {w}]
  /\ UNCHANGED <<waived, stray, ext, floor, result>>

Acknowledge(w) ==
  /\ stage[w] = "taken"
  /\ stage' = [stage EXCEPT ![w] = "ok"]
  /\ UNCHANGED <<store, waived, stray, ext, floor, result>>

Answer(r) ==
  /\ stage[r] = "open"
  /\ stage' = [stage EXCEPT ![r] = "ok"]
  /\ IF Free(r)
     THEN result' = result
     ELSE \E s \in SUBSET store[ext[r]] :
            /\ floor[r] \subseteq s
            /\ result' = [result EXCEPT ![r] = s]
  /\ UNCHANGED <<store, waived, stray, ext, floor>>

\* A request may be refused; it has had no effect.
Refuse(q) ==
  /\ stage[q] = "open"
  /\ stage' = [stage EXCEPT ![q] = "failed"]
  /\ UNCHANGED <<store, waived, stray, ext, floor, result>>

\* What an extent for which nothing is promised holds, or a read of it
\* returns, is of no interest: it counts as empty.
Waive(e) ==
  /\ waived' = waived \cup {e}
  /\ store' = [store EXCEPT ![e] = {}]
  /\ floor' = [r \in Read |-> IF ext[r] = e THEN {} ELSE floor[r]]
  /\ result' = [r \in Read |-> IF ext[r] = e THEN {} ELSE result[r]]
  /\ UNCHANGED <<stage, ext, stray>>

\* A read that is under way may be given up in the same way.
Forgo(r) ==
  /\ stage[r] = "open"
  /\ stray' = stray \cup {r}
  /\ floor' = [floor EXCEPT ![r] = {}]
  /\ result' = [result EXCEPT ![r] = {}]
  /\ UNCHANGED <<store, waived, stage, ext>>

Next ==
  \/ \E q \in Request : Open(q) \/ Refuse(q)
  \/ \E w \in Mutation : Take(w) \/ Acknowledge(w)
  \/ \E r \in Read : Answer(r) \/ Forgo(r)
  \/ \E e \in Extent : Waive(e)

Spec == Init /\ [][Next]_vars

-----------------------------------------------------------------------------
TypeOK ==
  /\ store  \in [Extent -> SUBSET Mutation]
  /\ waived \subseteq Extent
  /\ stray  \subseteq Read
  /\ stage  \in [Request -> {"new", "open", "taken", "ok", "failed"}]
  /\ ext    \in [Request -> Extent]
  /\ floor  \in [Read -> SUBSET Mutation]
  /\ result \in [Read -> SUBSET Mutation]

\* What an extent was promised to hold it holds: every mutation that took
\* effect, whether the user knows yet or not.
NothingLost ==
  \A w \in Mutation :
    stage[w] \in {"taken", "ok"} /\ ext[w] \notin waived => w \in store[ext[w]]

\* A read never returns less than what was there before it was invoked.
ReadsSeeThePast ==
  \A r \in Read : stage[r] = "ok" => floor[r] \subseteq result[r]
=============================================================================

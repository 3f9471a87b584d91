----------------------------- MODULE Published -----------------------------
(***************************************************************************)
(* What the jobs of the pipeline promise together, without their copies,   *)
(* locks and steps: results of several kinds become newer, and a snapshot  *)
(* is served that only ever moves forward in each kind, to results there   *)
(* are.  A job may serve what it found later than another job serves newer *)
(* results of another kind, but no job takes back what is served.          *)
(***************************************************************************)
EXTENDS Integers

CONSTANT Kinds    \* the kinds of results a snapshot is built from

VARIABLES
  found,     \* found[kind]: the version of the newest results
  served     \* served[kind]: the version that is served

vars == <<found, served>>

Init ==
  /\ found = [kind \in Kinds |-> 0]
  /\ served = [kind \in Kinds |-> 0]

(* New results of some kinds. *)
Find ==
  /\ DOMAIN found' = Kinds
  /\ \A kind \in Kinds : found'[kind] \in {found[kind], found[kind] + 1}
  /\ UNCHANGED served

(* A snapshot that is newer in some kinds and older in none.               *)
Serve ==
  /\ DOMAIN served' = Kinds
  /\ \A kind \in Kinds : served[kind] <= served'[kind] /\ served'[kind] <= found[kind]
  /\ UNCHANGED found

Next == Find \/ Serve

Spec == Init /\ [][Next]_vars
=============================================================================

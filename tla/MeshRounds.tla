----------------------------- MODULE MeshRounds -----------------------------
(***************************************************************************)
(* What TracerMesh::exchange (src/tracer_mesh.rs) promises to its callers: *)
(* every call is a round, in which a tracer hands one message to every     *)
(* peer and comes back only once it holds the message of every peer for    *)
(* that very round.  How the bytes travel is the business of MeshExchange, *)
(* and what the tracers say in each round that of TracerDkg; both are      *)
(* shown to implement this specification.                                  *)
(***************************************************************************)
EXTENDS Integers

CONSTANTS Nodes,    \* the tracers of the mesh
          Rounds    \* how many exchanges each of them makes

VARIABLES started,    \* started[k]: exchanges tracer k has entered
          completed   \* completed[k]: exchanges tracer k has returned from

vars == <<started, completed>>

\* Both counters count calls.
TypeOK == /\ started \in [Nodes -> Nat]
          /\ completed \in [Nodes -> Nat]

Init == /\ started = [k \in Nodes |-> 0]
        /\ completed = [k \in Nodes |-> 0]

\* Tracer k calls `exchange`: its messages are on their way from now on.
Start(k) ==
  /\ started[k] = completed[k]
  /\ started[k] < Rounds
  /\ started' = [started EXCEPT ![k] = @ + 1]
  /\ UNCHANGED completed

\* `exchange` returns: one message of this round came from every peer.
Complete(k) ==
  /\ completed[k] < started[k]
  /\ \A p \in Nodes : started[p] >= started[k]
  /\ completed' = [completed EXCEPT ![k] = @ + 1]
  /\ UNCHANGED started

Next == \E k \in Nodes : Start(k) \/ Complete(k)

Spec == Init /\ [][Next]_vars

-----------------------------------------------------------------------------
\* A tracer is inside at most one exchange at a time.
OneAtATime == \A k \in Nodes : started[k] \in {completed[k], completed[k] + 1}

\* The rounds are barriers: no tracer has returned from a round that some
\* other tracer has not entered, so no two are ever more than one round apart.
Lockstep == \A k, p \in Nodes : /\ completed[k] <= started[p]
                                /\ started[k] <= started[p] + 1

\* Action property: a message of round r is never sent before every tracer
\* has sent the one of round r - 1 (`exchange` is entered only after the
\* previous call returned).
NoRoundSkipped ==
  [][\A k \in Nodes : started'[k] > started[k] =>
        \A p \in Nodes : started[p] >= started[k]]_vars
=============================================================================

-------------------------- MODULE MeshRoundsProofs --------------------------
(***************************************************************************)
(* The barrier property of the mesh's rounds, for any tracers and any      *)
(* number of rounds.  Lockstep is not inductive alone: it needs the types  *)
(* and that a tracer is inside at most one exchange.                       *)
(***************************************************************************)
EXTENDS MeshRounds, TLAPS

Inv == TypeOK /\ OneAtATime /\ Lockstep

LEMMA InitInv == Init => Inv
BY DEF Init, Inv, TypeOK, OneAtATime, Lockstep

LEMMA NextInv == Inv /\ [Next]_vars => Inv'
<1> SUFFICES ASSUME Inv, [Next]_vars
             PROVE  Inv'
  OBVIOUS
<1> USE DEF Inv, TypeOK, OneAtATime, Lockstep
<1>1. ASSUME NEW k \in Nodes, Start(k)
      PROVE  Inv'
  BY <1>1 DEF Start
<1>2. ASSUME NEW k \in Nodes, Complete(k)
      PROVE  Inv'
  BY <1>2 DEF Complete
<1>3. CASE UNCHANGED vars
  BY <1>3 DEF vars
<1> QED BY <1>1, <1>2, <1>3 DEF Next

\* No tracer returns from a round that another has not entered.
THEOREM LockstepTheorem == Spec => []Lockstep
<1>1. Inv => Lockstep
  BY DEF Inv
<1> QED BY <1>1, InitInv, NextInv, PTL DEF Spec

\* A tracer sends the message of a round only once every tracer has sent the
\* one of the round before.
THEOREM NoRoundSkippedTheorem == Spec => NoRoundSkipped
<1>1. ASSUME Inv, [Next]_vars
      PROVE  [\A k \in Nodes : started'[k] > started[k] =>
                \A p \in Nodes : started[p] >= started[k]]_vars
  <2> USE <1>1 DEF Inv, TypeOK, OneAtATime, Lockstep
  <2>1. ASSUME NEW k \in Nodes, Start(k), NEW q \in Nodes, started'[q] > started[q]
        PROVE  \A p \in Nodes : started[p] >= started[q]
    <3>1. q = k
      BY <2>1 DEF Start
    <3> QED BY <2>1, <3>1 DEF Start
  <2>2. ASSUME NEW k \in Nodes, Complete(k), NEW q \in Nodes
        PROVE  ~(started'[q] > started[q])
    BY <2>2 DEF Complete
  <2> QED BY <1>1, <2>1, <2>2 DEF Next
<1> QED BY <1>1, InitInv, NextInv, PTL DEF Spec, NoRoundSkipped
=============================================================================

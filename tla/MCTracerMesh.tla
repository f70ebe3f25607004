---------------------------- MODULE MCTracerMesh ----------------------------
(***************************************************************************)
(* Instances of TracerMesh.  The stray is a tracer of an earlier run with  *)
(* the id of one of ours and another identity key.                         *)
(***************************************************************************)
EXTENDS TracerMesh

OldDialer == 10
OneStray == {OldDialer}
ItsHello == [s \in OneStray |-> [id |-> 2, role |-> "Tracer", identity |-> Unknown]]
=============================================================================

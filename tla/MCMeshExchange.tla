--------------------------- MODULE MCMeshExchange ---------------------------
(***************************************************************************)
(* Instances of MeshExchange: a message is a header and one chunk, more    *)
(* than a stream buffers, so that a tracer that only writes gets stuck.    *)
(***************************************************************************)
EXTENDS MeshExchange

UnitPayloads == [r \in 1 .. Rounds |-> 1]
=============================================================================

----------------------------- MODULE Thresholds -----------------------------
(***************************************************************************)
(* The two thresholds the Authority fixes for a run (src/authority.rs):    *)
(* t of the n signers must sign, t_e of the n_3 tracers must decrypt.      *)
(* Rust's integer division on usize is \div on naturals.                   *)
(***************************************************************************)
EXTENDS Integers, FiniteSets

\* t = floor(n / 2) + 1: a strict majority of the signers.
signer_threshold(n) == (n \div 2) + 1

\* t_e = floor(2 * n_3 / 3) + 1: more than two thirds of the tracers.
tracer_threshold(n3) == ((2 * n3) \div 3) + 1

\* The subsets of size at least `size` of a finite set S.
Quorums(S, size) == {Q \in SUBSET S : Cardinality(Q) >= size}
=============================================================================

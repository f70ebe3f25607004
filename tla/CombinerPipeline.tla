-------------------------- MODULE CombinerPipeline --------------------------
(***************************************************************************)
(* The computation steps of the Combiner (src/combiner.rs): which fields   *)
(* of the struct each of them reads, through `expect` or `ok_or`, and      *)
(* which ones it fills, and the order in which bin/combiner.rs calls them. *)
(* The values are group elements and scalars of taps_tt; the order is what *)
(* can be wrong here: a step called too early panics, and one called again *)
(* replaces what a Fiat-Shamir challenge was already derived from.         *)
(***************************************************************************)
EXTENDS Integers, Sequences

\* load_from_authority.
Bootstrapped == {"signer_keys", "tracer_keys", "pk_i", "quorum", "n", "t",
                 "n3", "te", "taps_kp"}

\* What `statement` puts together for the challenges.
Statement == {"pk", "T", "R", "message", "C", "v0", "v_vec"}

Step(name, needs, fills) == [name |-> name, needs |-> needs, fills |-> fills]

finalize_group_key ==
  Step("finalize_group_key", {"tracer_pks", "pk_i", "taps_kp"}, {"pk_e", "pk"})
compute_aggregated_nonce ==
  Step("compute_aggregated_nonce", {"quorum", "n", "commitments"}, {"R"})
encrypt_threshold ==
  Step("encrypt_threshold", {"t"}, {"w_psi", "T"})
compute_parameters ==
  Step("compute_parameters", {"pk", "T", "R"}, {"c", "message"})
prepare_signer_package ==
  Step("prepare_signer_package", {"R", "c"}, {"signer_pkg"})
compute_aggregated_sign ==
  Step("compute_aggregated_sign", {"quorum", "n", "sigmas"}, {"w_z"})
compute_encrypted_signature ==
  Step("compute_encrypted_signature", {"w_z", "pk"}, {"w_rho", "C"})
compute_encrypted_bits ==
  Step("compute_encrypted_bits", {"quorum", "pk_e"}, {"w_gamma", "v0", "v_vec"})
compute_alpha ==
  Step("compute_alpha", {"c"} \cup Statement, {"alpha"})
compute_phis ==
  Step("compute_phis", {"alpha", "quorum", "w_gamma"}, {"w_phi_i"})
compute_blinds ==
  Step("compute_blinds", {}, {"blinds"})
compute_proofs ==
  Step("compute_proofs", {"blinds", "pk", "pk_e", "v_vec", "c", "alpha"}, {"proofs"})
compute_beta ==
  Step("compute_beta", {"alpha", "proofs"} \cup Statement, {"beta"})
compute_hats ==
  Step("compute_hats",
       {"w_z", "w_rho", "w_gamma", "w_psi", "quorum", "w_phi_i", "beta", "blinds"},
       {"hats"})
construct_sigma ==
  Step("construct_sigma", {"beta", "hats", "taps_kp", "R", "C"}, {"sigma"})
prepare_tracer_package ==
  Step("prepare_tracer_package", {"T", "proofs", "v0", "v_vec", "sigma"}, {"tracer_pkg"})

\* Between the last commitment and the challenge broadcast.
ChallengeSteps ==
  <<compute_aggregated_nonce, encrypt_threshold, compute_parameters,
    prepare_signer_package>>

\* Mutant: the proof's second challenge before what it binds.
ProofStepsBetaEarly ==
  <<compute_aggregated_sign, compute_encrypted_signature, compute_encrypted_bits,
    compute_alpha, compute_phis, compute_blinds, compute_beta, compute_proofs,
    compute_hats, construct_sigma, prepare_tracer_package>>

\* Mutant: the quorum bits are encrypted a second time.
ProofStepsBitsTwice ==
  <<compute_aggregated_sign, compute_encrypted_signature, compute_encrypted_bits,
    compute_alpha, compute_encrypted_bits, compute_phis, compute_blinds,
    compute_proofs, compute_beta, compute_hats, construct_sigma,
    prepare_tracer_package>>

\* Between the last signature share and the attestation broadcast.
ProofSteps ==
  <<compute_aggregated_sign, compute_encrypted_signature, compute_encrypted_bits,
    compute_alpha, compute_phis, compute_blinds, compute_proofs, compute_beta,
    compute_hats, construct_sigma, prepare_tracer_package>>
=============================================================================

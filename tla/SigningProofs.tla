--------------------------- MODULE SigningProofs ----------------------------
(***************************************************************************)
(* What Signing guarantees for any numbers of signers and tracers, any     *)
(* left-over signers, and whatever expires, stays in use or dies.          *)
(***************************************************************************)
EXTENDS Signing, FiniteSetTheorems, TLAPS

Signer(i) == Client("Signer", i, FALSE)
Tracer(i) == Client("Tracer", i, FALSE)
TracerIds == 0 .. N3 - 1

LEMMA ClientFacts ==
  /\ \A c \in Clients : \/ c.role = "Signer" /\ c.id \in Ids /\ c \in SignerLike
                        \/ c.role = "Tracer" /\ c.id \in TracerIds /\ c = Tracer(c.id)
  /\ \A c \in Signers : c = Signer(c.id) /\ c.id \in Ids
  /\ \A c \in Tracers : c = Tracer(c.id) /\ c.id \in TracerIds
  /\ \A c \in SignerLike : c \in Clients /\ c.role = "Signer" /\ c.id \in Ids
  /\ \A c \in SignerLike : c \in Signers \/ c.old
  /\ \A i \in Ids : /\ Signer(i) \in Signers /\ Signer(i) \in SignerLike
                    /\ Signer(i) \in Clients
                    /\ Signer(i).role = "Signer" /\ Signer(i).id = i /\ ~Signer(i).old
  /\ \A i \in TracerIds : /\ Tracer(i) \in Tracers /\ Tracer(i) \in Clients
                          /\ Tracer(i).role = "Tracer" /\ Tracer(i).id = i
<1> USE SigningAssumption DEF Client, Ids, TracerIds
<1>1. /\ \A c \in Signers : c = Signer(c.id) /\ c.id \in Ids /\ c.role = "Signer" /\ ~c.old
      /\ \A c \in Tracers : c = Tracer(c.id) /\ c.id \in TracerIds /\ c.role = "Tracer"
      /\ \A c \in Olds : c.id \in Ids /\ c.role = "Signer" /\ c.old
  BY DEF Signers, Tracers, Olds, Signer, Tracer
<1>2. \A i \in Ids : /\ Signer(i) \in Signers
                     /\ Signer(i).role = "Signer" /\ Signer(i).id = i /\ ~Signer(i).old
  BY DEF Signers, Signer
<1>3. \A i \in TracerIds : /\ Tracer(i) \in Tracers
                           /\ Tracer(i).role = "Tracer" /\ Tracer(i).id = i
  BY DEF Tracers, Tracer
<1> QED BY <1>1, <1>2, <1>3 DEF Clients, SignerLike

-----------------------------------------------------------------------------
(* The order of the computation steps *)

\* What is filled when the commitments are there, and by the first k steps of
\* each of the two computations.
Base == Bootstrapped \cup {"tracer_pks"} \cup finalize_group_key.fills
ChallengeFills(k) == UNION {ChallengeSteps[j].fills : j \in 1 .. k}
ProofFills(k) == UNION {ProofSteps[j].fills : j \in 1 .. k}

LEMMA StepCounts == Len(ChallengeSteps) = 4 /\ Len(ProofSteps) = 11
BY DEF ChallengeSteps, ProofSteps

LEMMA NextFills ==
  ASSUME NEW k \in Nat
  PROVE  /\ ChallengeFills(k + 1) = ChallengeFills(k) \cup ChallengeSteps[k + 1].fills
         /\ ProofFills(k + 1) = ProofFills(k) \cup ProofSteps[k + 1].fills
<1>1. 1 .. k + 1 = (1 .. k) \cup {k + 1}
  OBVIOUS
<1> QED BY <1>1 DEF ChallengeFills, ProofFills

LEMMA ChallengeStepsList ==
  /\ ChallengeSteps[1] = compute_aggregated_nonce
  /\ ChallengeSteps[2] = encrypt_threshold
  /\ ChallengeSteps[3] = compute_parameters
  /\ ChallengeSteps[4] = prepare_signer_package
BY DEF ChallengeSteps

LEMMA ChallengeFillsList ==
  /\ ChallengeFills(0) = {}
  /\ ChallengeFills(1) = {"R"}
  /\ ChallengeFills(2) = {"R", "w_psi", "T"}
  /\ ChallengeFills(3) = {"R", "w_psi", "T", "c", "message"}
  /\ ChallengeFills(4) = {"R", "w_psi", "T", "c", "message", "signer_pkg"}
<1>0. ChallengeFills(0) = {}
  BY DEF ChallengeFills
<1>1. ChallengeFills(1) = {"R"}
  BY <1>0, NextFills, ChallengeStepsList DEF compute_aggregated_nonce, Step
<1>2. ChallengeFills(2) = {"R", "w_psi", "T"}
  BY <1>1, NextFills, ChallengeStepsList DEF encrypt_threshold, Step
<1>3. ChallengeFills(3) = {"R", "w_psi", "T", "c", "message"}
  BY <1>2, NextFills, ChallengeStepsList DEF compute_parameters, Step
<1>4. ChallengeFills(4) = {"R", "w_psi", "T", "c", "message", "signer_pkg"}
  BY <1>3, NextFills, ChallengeStepsList DEF prepare_signer_package, Step
<1> QED BY <1>0, <1>1, <1>2, <1>3, <1>4

LEMMA BaseList == Base = {"signer_keys", "tracer_keys", "pk_i", "quorum", "n", "t", "n3", "te",
                          "taps_kp", "tracer_pks", "pk_e", "pk"}
BY DEF Base, Bootstrapped, finalize_group_key, Step

LEMMA ChallengeOrder ==
  ASSUME NEW k \in 0 .. 3
  PROVE  /\ ChallengeSteps[k + 1].needs \subseteq
              Base \cup {"commitments"} \cup ChallengeFills(k)
         /\ ChallengeSteps[k + 1].fills \cap (Base \cup ChallengeFills(k)) = {}
<1> USE BaseList, ChallengeFillsList, ChallengeStepsList DEF Step
<1>1. CASE k = 0
  BY <1>1 DEF compute_aggregated_nonce
<1>2. CASE k = 1
  BY <1>2 DEF encrypt_threshold
<1>3. CASE k = 2
  BY <1>3 DEF compute_parameters
<1>4. CASE k = 3
  BY <1>4 DEF prepare_signer_package
<1> QED BY <1>1, <1>2, <1>3, <1>4

LEMMA ProofStepsList ==
  /\ ProofSteps[1] = compute_aggregated_sign
  /\ ProofSteps[2] = compute_encrypted_signature
  /\ ProofSteps[3] = compute_encrypted_bits
  /\ ProofSteps[4] = compute_alpha
  /\ ProofSteps[5] = compute_phis
  /\ ProofSteps[6] = compute_blinds
  /\ ProofSteps[7] = compute_proofs
  /\ ProofSteps[8] = compute_beta
  /\ ProofSteps[9] = compute_hats
  /\ ProofSteps[10] = construct_sigma
  /\ ProofSteps[11] = prepare_tracer_package
BY DEF ProofSteps

LEMMA ProofFillsList ==
  /\ ProofFills(0) = {}
  /\ ProofFills(1) = {"w_z"}
  /\ ProofFills(2) = {"w_z", "w_rho", "C"}
  /\ ProofFills(3) = {"w_z", "w_rho", "C", "w_gamma", "v0", "v_vec"}
  /\ ProofFills(4) = {"w_z", "w_rho", "C", "w_gamma", "v0", "v_vec", "alpha"}
  /\ ProofFills(5) = {"w_z", "w_rho", "C", "w_gamma", "v0", "v_vec", "alpha", "w_phi_i"}
  /\ ProofFills(6) = {"w_z", "w_rho", "C", "w_gamma", "v0", "v_vec", "alpha",
                     "w_phi_i", "blinds"}
  /\ ProofFills(7) = {"w_z", "w_rho", "C", "w_gamma", "v0", "v_vec", "alpha",
                     "w_phi_i", "blinds", "proofs"}
  /\ ProofFills(8) = {"w_z", "w_rho", "C", "w_gamma", "v0", "v_vec", "alpha",
                     "w_phi_i", "blinds", "proofs", "beta"}
  /\ ProofFills(9) = {"w_z", "w_rho", "C", "w_gamma", "v0", "v_vec", "alpha",
                     "w_phi_i", "blinds", "proofs", "beta", "hats"}
  /\ ProofFills(10) = {"w_z", "w_rho", "C", "w_gamma", "v0", "v_vec", "alpha",
                      "w_phi_i", "blinds", "proofs", "beta", "hats", "sigma"}
  /\ ProofFills(11) = {"w_z", "w_rho", "C", "w_gamma", "v0", "v_vec", "alpha",
                      "w_phi_i", "blinds", "proofs", "beta", "hats", "sigma",
                      "tracer_pkg"}
<1>0. ProofFills(0) = {}
  BY DEF ProofFills
<1>1. ProofFills(1) = {"w_z"}
  <2>1. compute_aggregated_sign.fills = {"w_z"}
    BY DEF compute_aggregated_sign, Step
  <2>2. ProofFills(0 + 1) = ProofFills(0) \cup ProofSteps[0 + 1].fills
    BY NextFills
  <2> QED BY <1>0, <2>1, <2>2, ProofStepsList
<1>2. ProofFills(2) = {"w_z", "w_rho", "C"}
  BY <1>1, NextFills, ProofStepsList DEF compute_encrypted_signature, Step
<1>3. ProofFills(3) = {"w_z", "w_rho", "C", "w_gamma", "v0", "v_vec"}
  BY <1>2, NextFills, ProofStepsList DEF compute_encrypted_bits, Step
<1>4. ProofFills(4) = {"w_z", "w_rho", "C", "w_gamma", "v0", "v_vec", "alpha"}
  BY <1>3, NextFills, ProofStepsList DEF compute_alpha, Step
<1>5. ProofFills(5) = {"w_z", "w_rho", "C", "w_gamma", "v0", "v_vec", "alpha", "w_phi_i"}
  BY <1>4, NextFills, ProofStepsList DEF compute_phis, Step
<1>6. ProofFills(6) = {"w_z", "w_rho", "C", "w_gamma", "v0", "v_vec", "alpha",
                      "w_phi_i", "blinds"}
  BY <1>5, NextFills, ProofStepsList DEF compute_blinds, Step
<1>7. ProofFills(7) = {"w_z", "w_rho", "C", "w_gamma", "v0", "v_vec", "alpha",
                      "w_phi_i", "blinds", "proofs"}
  BY <1>6, NextFills, ProofStepsList DEF compute_proofs, Step
<1>8. ProofFills(8) = {"w_z", "w_rho", "C", "w_gamma", "v0", "v_vec", "alpha",
                      "w_phi_i", "blinds", "proofs", "beta"}
  BY <1>7, NextFills, ProofStepsList DEF compute_beta, Step
<1>9. ProofFills(9) = {"w_z", "w_rho", "C", "w_gamma", "v0", "v_vec", "alpha",
                      "w_phi_i", "blinds", "proofs", "beta", "hats"}
  BY <1>8, NextFills, ProofStepsList DEF compute_hats, Step
<1>10. ProofFills(10) = {"w_z", "w_rho", "C", "w_gamma", "v0", "v_vec", "alpha",
                        "w_phi_i", "blinds", "proofs", "beta", "hats", "sigma"}
  BY <1>9, NextFills, ProofStepsList DEF construct_sigma, Step
<1>11. ProofFills(11) = {"w_z", "w_rho", "C", "w_gamma", "v0", "v_vec", "alpha",
                        "w_phi_i", "blinds", "proofs", "beta", "hats", "sigma",
                        "tracer_pkg"}
  BY <1>10, NextFills, ProofStepsList DEF prepare_tracer_package, Step
<1> QED BY <1>0, <1>1, <1>2, <1>3, <1>4, <1>5, <1>6, <1>7, <1>8, <1>9, <1>10, <1>11

LEMMA ProofOrder ==
  ASSUME NEW k \in 0 .. 10
  PROVE  /\ ProofSteps[k + 1].needs \subseteq
              Base \cup {"commitments", "sigmas"} \cup ChallengeFills(4) \cup ProofFills(k)
         /\ ProofSteps[k + 1].fills \cap (Base \cup ChallengeFills(4) \cup ProofFills(k)) = {}
<1> USE BaseList, ChallengeFillsList, ProofFillsList, ProofStepsList DEF Step, Statement
<1>1. CASE k = 0
  BY <1>1 DEF compute_aggregated_sign
<1>2. CASE k = 1
  BY <1>2 DEF compute_encrypted_signature
<1>3. CASE k = 2
  BY <1>3 DEF compute_encrypted_bits
<1>4. CASE k = 3
  BY <1>4 DEF compute_alpha
<1>5. CASE k = 4
  BY <1>5 DEF compute_phis
<1>6. CASE k = 5
  BY <1>6 DEF compute_blinds
<1>7. CASE k = 6
  BY <1>7 DEF compute_proofs
<1>8. CASE k = 7
  BY <1>8 DEF compute_beta
<1>9. CASE k = 8
  BY <1>9 DEF compute_hats
<1>10. CASE k = 9
  BY <1>10 DEF construct_sigma
<1>11. CASE k = 10
  BY <1>11 DEF prepare_tracer_package
<1> QED BY <1>1, <1>2, <1>3, <1>4, <1>5, <1>6, <1>7, <1>8, <1>9, <1>10, <1>11

-----------------------------------------------------------------------------
(* The inductive invariant *)

OneLinkPerSlot == \A c, d \in admitted : (c.role = d.role /\ c.id = d.id) => c = d

Counted == IsFiniteSet(admitted) /\ Cardinality(admitted) <= expected_connections

Shape ==
  /\ clock \in 0 .. MaxClock
  /\ at \in [Clients -> {"dialing", "connected", "helloed", "committed", "signed", "reported"}]
  /\ down \subseteq Clients
  /\ stamp \in [Clients -> 0 .. MaxClock]
  /\ cpc \in Stages /\ bound \in BOOLEAN
  /\ backlog \in Seq(Clients)
  /\ admitted \subseteq Clients
  /\ binds \in 0 .. BindAttempts /\ meshBinds \in 0 .. BindAttempts
  /\ meshUp \in BOOLEAN
  /\ next \in Nat
  /\ commitments \subseteq Ids /\ sigmas \subseteq Ids
  /\ challenged \subseteq SignerLike
  /\ challenge \in 0 .. MaxClock

\* The loop variable stays below the number of links of the loop's role.
Indexed ==
  /\ cpc = "keys" => next < N3
  /\ cpc \in {"commitments", "challenge", "sigmas"} => next < N
  /\ cpc \in {"bind", "accept", "parameters", "proof"} => next = 0

\* The stages behind the accept loop.
Beyond == {"keys", "commitments", "parameters", "challenge", "sigmas", "proof", "exited"}

EverySlot(role, ids) == \A i \in ids : \E c \in admitted : c.role = role /\ c.id = i

\* Behind the accept loop every slot has its link.
Full == cpc \in Beyond => EverySlot("Signer", Ids) /\ EverySlot("Tracer", TracerIds)

\* What the Combiner has of the tracers,
Reported ==
  /\ cpc = "keys" => \A i \in 0 .. next - 1 : at[Tracer(i)] = "reported"
  /\ cpc \in Beyond \ {"keys"} => \A i \in TracerIds : at[Tracer(i)] = "reported"

\* of the signers' commitments,
Committed ==
  /\ \A i \in commitments : Signer(i) \in admitted /\ at[Signer(i)] \in {"committed", "signed"}
  /\ cpc \in {"bind", "accept", "keys"} => commitments = {}
  /\ cpc = "commitments" => commitments = 0 .. next - 1
  /\ cpc \in {"parameters", "challenge", "sigmas", "proof", "exited"} => commitments = Ids
  /\ challenged # {} => commitments = Ids

\* of their shares, none of them given but on a challenge,
Shares ==
  /\ \A c \in SignerLike : at[c] = "signed" => c \in challenged /\ ~c.old
  /\ \A i \in sigmas : at[Signer(i)] = "signed"
  /\ cpc \in {"bind", "accept", "keys", "commitments", "parameters", "challenge"} => sigmas = {}
  /\ cpc = "sigmas" => sigmas = 0 .. next - 1
  /\ cpc \in {"proof", "exited"} => sigmas = Ids

\* and of its own fields.
Computed ==
  /\ cpc # "panicked" /\ step \in Nat
  /\ cpc \in {"bind", "accept", "keys"} => fields = Bootstrapped /\ step = 0
  /\ cpc = "commitments" => fields = Base /\ step = 0
  /\ cpc = "parameters" => step \in 0 .. 4 /\ fields = Base \cup ChallengeFills(step)
  /\ cpc \in {"challenge", "sigmas"} => fields = Base \cup ChallengeFills(4)
  /\ cpc = "proof" => /\ step \in 0 .. 11
                      /\ fields = Base \cup ChallengeFills(4) \cup ProofFills(step)

Links == Shape /\ OneLinkPerSlot /\ Counted /\ Indexed /\ Full
Attested == Reported /\ Committed /\ Shares

LEMMA InitLinks == Init => Links
<1> SUFFICES ASSUME Init
             PROVE  Links
  OBVIOUS
<1>1. Shape
  <2>1. at \in [Clients -> {"dialing", "connected", "helloed", "committed", "signed",
                           "reported"}]
    BY DEF Init
  <2>2. stamp \in [Clients -> 0 .. MaxClock] /\ 0 \in 0 .. MaxClock /\ 0 \in 0 .. BindAttempts
    BY SigningAssumption DEF Init
  <2>3. backlog \in Seq(Clients)
    BY DEF Init
  <2> QED BY <2>1, <2>2, <2>3 DEF Init, Shape, Stages
<1>2. OneLinkPerSlot /\ Indexed /\ Full
  BY DEF Init, OneLinkPerSlot, Indexed, Full, Beyond
<1>3. Counted
  BY FS_EmptySet, SigningAssumption DEF Init, Counted, expected_connections
<1> QED BY <1>1, <1>2, <1>3 DEF Links

\* A full house has a link in every slot: distinct links have distinct slots.
LEMMA CountedIsFull ==
  ASSUME Shape, OneLinkPerSlot, Counted, Cardinality(admitted) = expected_connections
  PROVE  EverySlot("Signer", Ids) /\ EverySlot("Tracer", TracerIds)
<1> DEFINE T == 1 .. N + N3
           Slot(c) == IF c.role = "Signer" THEN c.id + 1 ELSE N + c.id + 1
           f == [c \in admitted |-> Slot(c)]
<1>9. \A c \in admitted : \/ c.role = "Signer" /\ c.id \in 0 .. N - 1
                          \/ c.role = "Tracer" /\ c.id \in 0 .. N3 - 1
  BY ClientFacts DEF Shape, Ids, TracerIds
<1>1. \A c \in admitted : Slot(c) \in T
  BY <1>9, SigningAssumption
<1>2. \A c, d \in admitted : Slot(c) = Slot(d) => c = d
  BY <1>9, SigningAssumption DEF OneLinkPerSlot
<1>3. f \in Injection(admitted, T)
  BY <1>1, <1>2 DEF Injection, IsInjective
<1>4. IsFiniteSet(T) /\ Cardinality(T) = expected_connections
  BY FS_Interval, SigningAssumption DEF expected_connections
<1> HIDE DEF T
<1>5. f \in Surjection(admitted, T)
  BY <1>3, <1>4, FS_Injection
<1>6. \A t \in T : \E c \in admitted : Slot(c) = t
  BY <1>5 DEF Surjection
<1>7. EverySlot("Signer", Ids)
  <2> SUFFICES ASSUME NEW i \in Ids
               PROVE  \E c \in admitted : c.role = "Signer" /\ c.id = i
    BY DEF EverySlot
  <2>1. i + 1 \in T
    BY SigningAssumption DEF T, Ids
  <2>2. PICK c \in admitted : Slot(c) = i + 1
    BY <1>6, <2>1
  <2> QED BY <1>9, <2>2, SigningAssumption DEF Ids, TracerIds
<1>8. EverySlot("Tracer", TracerIds)
  <2> SUFFICES ASSUME NEW i \in TracerIds
               PROVE  \E c \in admitted : c.role = "Tracer" /\ c.id = i
    BY DEF EverySlot
  <2>1. N + i + 1 \in T
    BY SigningAssumption DEF T, TracerIds
  <2>2. PICK c \in admitted : Slot(c) = N + i + 1
    BY <1>6, <2>1
  <2> QED BY <1>9, <2>2, SigningAssumption DEF Ids, TracerIds
<1> QED BY <1>7, <1>8

\* The link the Combiner reads in a turn of one of its loops.
LEMMA LinkOf ==
  ASSUME NEW role, NEW id, \E c \in admitted : c.role = role /\ c.id = id
  PROVE  Link(role, id) \in admitted /\ Link(role, id).role = role /\ Link(role, id).id = id
BY DEF Link

\* One turn of a loop: to the next id, or from the last one to the next stage.
LEMMA Turn ==
  ASSUME NEW count \in Nat \ {0}, NEW then, next \in Nat, next < count, TurnOver(count, then)
  PROVE  /\ next' = IF next = count - 1 THEN 0 ELSE next + 1
         /\ cpc' = IF next = count - 1 THEN then ELSE cpc
<1>1. CASE next = count - 1
  <2>1. (next + 1) % count = 0
    BY <1>1
  <2> QED BY <1>1, <2>1 DEF TurnOver
<1>2. CASE next # count - 1
  <2>1. 0 <= next + 1 /\ next + 1 < count
    BY <1>2
  <2>2. (next + 1) % count = next + 1
    BY <2>1
  <2> QED BY <1>2, <2>2 DEF TurnOver
<1> QED BY <1>1, <1>2

\* Whose link is read is of this run if what came on it verifies.
LEMMA GenuineSigner ==
  ASSUME Links, cpc \in Beyond, NEW i \in Ids, Verifies(Link("Signer", i))
  PROVE  Link("Signer", i) = Signer(i) /\ Signer(i) \in admitted
<1>1. /\ Link("Signer", i) \in admitted
      /\ Link("Signer", i).role = "Signer" /\ Link("Signer", i).id = i
  BY LinkOf DEF Links, Full, EverySlot
<1>2. Link("Signer", i) \in SignerLike /\ ~Link("Signer", i).old
  BY <1>1, ClientFacts DEF Links, Shape, Verifies
<1> QED BY <1>1, <1>2, ClientFacts

LEMMA GenuineTracer ==
  ASSUME Links, cpc \in Beyond, NEW i \in TracerIds
  PROVE  Link("Tracer", i) = Tracer(i) /\ Tracer(i) \in admitted
<1>1. /\ Link("Tracer", i) \in admitted
      /\ Link("Tracer", i).role = "Tracer" /\ Link("Tracer", i).id = i
  BY LinkOf DEF Links, Full, EverySlot
<1> QED BY <1>1, ClientFacts DEF Links, Shape

-----------------------------------------------------------------------------
(* Steps of the participants and of time *)

Surroundings ==
  \/ \E c \in Clients : ClientStep(c) \/ Crash(c)
  \/ MeshBindRetry \/ MeshBindFails \/ MeshBound \/ Tick \/ UNCHANGED vars

CombinerStill == UNCHANGED <<cpc, admitted, roundVars, pipeVars>>

\* A participant that has sent its commitment, share or report stays so, and
\* gives its share only on a challenge that reached it, as one of this run.
Onwards ==
  \A c \in Clients :
    /\ at[c] \in {"committed", "signed"} => at'[c] \in {"committed", "signed"}
    /\ at[c] \in {"signed", "reported"} => at'[c] = at[c]
    /\ at'[c] = "signed" => at[c] = "signed" \/ (c \in challenged /\ ~c.old)

LEMMA SurroundingsMove ==
  ASSUME Shape, Surroundings
  PROVE  Shape' /\ CombinerStill /\ Onwards
<1> USE DEF Shape, CombinerStill, Onwards, clientVars, bindVars, roundVars, pipeVars
<1>1. ASSUME NEW c \in Clients, ClientStep(c)
      PROVE  Shape' /\ CombinerStill /\ Onwards
  <2>1. CASE Connect(c)
    BY <2>1 DEF Connect
  <2>2. CASE SendHello(c)
    BY <2>2 DEF SendHello
  <2>3. CASE SendCommitment(c)
    BY <2>3 DEF SendCommitment
  <2>4. CASE LoadChallenge(c)
    BY <2>4 DEF LoadChallenge
  <2>5. CASE ReportKey(c)
    BY <2>5 DEF ReportKey
  <2>6. CASE AbortKey(c)
    BY <2>6 DEF AbortKey
  <2>7. CASE ExitOnCombiner(c)
    BY <2>7 DEF ExitOnCombiner
  <2> QED BY <1>1, <2>1, <2>2, <2>3, <2>4, <2>5, <2>6, <2>7 DEF ClientStep
<1>2. ASSUME NEW c \in Clients, Crash(c)
      PROVE  Shape' /\ CombinerStill /\ Onwards
  BY <1>2 DEF Crash
<1>3. CASE MeshBindRetry
  BY <1>3, SigningAssumption DEF MeshBindRetry
<1>4. CASE MeshBindFails
  BY <1>4 DEF MeshBindFails, Clients
<1>5. CASE MeshBound
  BY <1>5 DEF MeshBound
<1>6. CASE Tick
  BY <1>6, SigningAssumption DEF Tick
<1>7. CASE UNCHANGED vars
  BY <1>7 DEF vars
<1> QED BY <1>1, <1>2, <1>3, <1>4, <1>5, <1>6, <1>7 DEF Surroundings

LEMMA SurroundingsKeep ==
  ASSUME Links, Attested, Computed, Surroundings
  PROVE  Links' /\ Attested' /\ Computed'
<1>1. Shape' /\ CombinerStill /\ Onwards
  BY SurroundingsMove DEF Links
<1> USE DEF CombinerStill, roundVars, pipeVars
<1>2. Links'
  BY <1>1 DEF Links, OneLinkPerSlot, Counted, Indexed, Full, EverySlot
<1>3. Reported'
  <2>1. \A i \in TracerIds : at[Tracer(i)] = "reported" => at'[Tracer(i)] = "reported"
    BY <1>1, ClientFacts DEF Onwards
  <2>2. cpc = "keys" => \A i \in 0 .. next - 1 : i \in TracerIds
    BY SigningAssumption DEF Links, Shape, Indexed, TracerIds
  <2> QED BY <1>1, <2>1, <2>2 DEF Attested, Reported
<1>4. Committed'
  BY <1>1, ClientFacts DEF Attested, Links, Shape, Committed, Onwards
<1>5. Shares'
  BY <1>1, ClientFacts DEF Attested, Links, Shape, Shares, Onwards
<1>6. Computed'
  BY <1>1 DEF Computed
<1> QED BY <1>2, <1>3, <1>4, <1>5, <1>6 DEF Attested

-----------------------------------------------------------------------------
(* Steps of the Combiner *)

LEMMA InitAttested == Init => Attested /\ Computed
<1> SUFFICES ASSUME Init
             PROVE  Attested /\ Computed
  OBVIOUS
<1>1. Reported /\ Committed
  BY DEF Init, Reported, Committed, Beyond
<1>2. Shares
  <2>1. \A c \in SignerLike : at[c] = "dialing"
    BY ClientFacts DEF Init
  <2> QED BY <2>1 DEF Init, Shares
<1>3. Computed
  BY DEF Init, Computed
<1> QED BY <1>1, <1>2, <1>3 DEF Attested

\* The Combiner ends: what it has stays as it is.
Fails ==
  /\ cpc' = "failed"
  /\ UNCHANGED <<clock, clientVars, bound, backlog, admitted, bindVars, roundVars, pipeVars>>

LEMMA FailsKeep ==
  ASSUME Links, Attested, Computed, Fails
  PROVE  Links' /\ Attested' /\ Computed'
<1> USE DEF Fails, clientVars, bindVars, roundVars, pipeVars
<1>1. Links'
  BY DEF Links, Shape, Stages, OneLinkPerSlot, Counted, Indexed, Full, Beyond
<1>2. Attested'
  BY DEF Attested, Reported, Committed, Shares, Beyond
<1>3. Computed'
  BY DEF Computed
<1> QED BY <1>1, <1>2, <1>3

\* A step to another stage, or to a new admission, that leaves the rounds and
\* the computation alone.
LEMMA AcceptKeeps ==
  ASSUME Links, Attested, Computed, Bind \/ BindInUse \/ AcceptHello \/ AllConnected
  PROVE  Links' /\ Attested' /\ Computed'
<1> USE DEF clientVars, bindVars, roundVars, pipeVars, CombinerUnchanged
<1>1. CASE Bind
  <2>1. Links'
    BY <1>1 DEF Bind, Links, Shape, Stages, OneLinkPerSlot, Counted, Indexed, Full, Beyond
  <2>2. Attested'
    BY <1>1 DEF Bind, Attested, Reported, Committed, Shares, Beyond
  <2>3. Computed'
    BY <1>1 DEF Bind, Computed
  <2> QED BY <2>1, <2>2, <2>3
<1>4. CASE BindInUse
  <2>1. Links'
    <3>1. binds' \in 0 .. BindAttempts
      BY <1>4, SigningAssumption DEF BindInUse, Links, Shape
    <3> QED BY <1>4, <3>1 DEF BindInUse, Links, Shape, OneLinkPerSlot, Counted, Indexed, Full,
                              EverySlot
  <2>2. Attested'
    BY <1>4 DEF BindInUse, Attested, Reported, Committed, Shares
  <2>3. Computed'
    BY <1>4 DEF BindInUse, Computed
  <2> QED BY <2>1, <2>2, <2>3
<1>2. CASE AcceptHello
  <2> DEFINE c == Head(backlog)
  <2>1. c \in Clients /\ Tail(backlog) \in Seq(Clients)
    BY <1>2 DEF AcceptHello, Links, Shape
  <2>2. \/ UNCHANGED admitted
        \/ SlotFree(c) /\ admitted' = admitted \cup {c}
    BY <1>2 DEF AcceptHello
  <2>3. UNCHANGED <<clock, clientVars, cpc, bound, bindVars, roundVars, pipeVars>>
        /\ backlog' = Tail(backlog) /\ cpc = "accept"
        /\ Cardinality(admitted) < expected_connections
    BY <1>2 DEF AcceptHello
  <2> HIDE DEF c
  <2>4. Shape'
    BY <2>1, <2>2, <2>3 DEF Links, Shape
  <2>5. OneLinkPerSlot'
    BY <2>2 DEF Links, OneLinkPerSlot, SlotFree
  <2>6. Counted'
    <3>1. IsFiniteSet(admitted) /\ Cardinality(admitted) \in Nat
      BY FS_CardinalityType DEF Links, Counted
    <3>2. /\ IsFiniteSet(admitted \cup {c})
          /\ Cardinality(admitted \cup {c}) <= Cardinality(admitted) + 1
      BY <3>1, FS_AddElement
    <3>3. expected_connections \in Nat
      BY SigningAssumption DEF expected_connections
    <3>4. /\ Cardinality(admitted \cup {c}) \in Nat
      BY <3>2, FS_CardinalityType
    <3>5. Cardinality(admitted \cup {c}) <= expected_connections
      BY <2>3, <3>1, <3>2, <3>3, <3>4
    <3> QED BY <2>2, <3>1, <3>2, <3>5 DEF Links, Counted
  <2>7. (Indexed /\ Full)'
    BY <2>3 DEF Links, Indexed, Full, Beyond
  <2>8. Attested'
    BY <2>2, <2>3 DEF Attested, Reported, Committed, Shares, Beyond
  <2>9. Computed'
    BY <2>3 DEF Computed
  <2> QED BY <2>4, <2>5, <2>6, <2>7, <2>8, <2>9 DEF Links
<1>3. CASE AllConnected
  <2>1. EverySlot("Signer", Ids) /\ EverySlot("Tracer", TracerIds)
    BY <1>3, CountedIsFull DEF AllConnected, Links
  <2>2. Links'
    BY <1>3, <2>1, SigningAssumption
       DEF AllConnected, Links, Shape, Stages, OneLinkPerSlot, Counted, Indexed, Full, EverySlot
  <2>3. Attested'
    BY <1>3 DEF AllConnected, Attested, Reported, Committed, Shares, Beyond, Links, Indexed
  <2>4. Computed'
    BY <1>3 DEF AllConnected, Computed
  <2> QED BY <2>2, <2>3, <2>4
<1> QED BY <1>1, <1>2, <1>3, <1>4

\* A turn of a loop that is over.
LEMMA KeyArrives ==
  ASSUME Links, Attested, Computed, LoadTracerKey
  PROVE  Links' /\ Attested' /\ Computed'
<1> USE DEF clientVars, bindVars, roundVars, pipeVars, CombinerUnchanged
<1>1. CASE Refused("keys", "Tracer", N3, "reported")
  BY <1>1, FailsKeep DEF Refused, Fails
<1>2. CASE ~Refused("keys", "Tracer", N3, "reported")
  <2>1. /\ cpc = "keys" /\ next < N3 /\ next \in TracerIds
        /\ next' = IF next = N3 - 1 THEN 0 ELSE next + 1
        /\ cpc' = IF next = N3 - 1 THEN "commitments" ELSE "keys"
        /\ fields' = IF next = N3 - 1
                       THEN fields \cup {"tracer_pks"} \cup finalize_group_key.fills
                       ELSE fields
    <3>1. /\ cpc = "keys" /\ next < N3 /\ TurnOver(N3, "commitments")
          /\ fields' = IF next = N3 - 1
                         THEN fields \cup {"tracer_pks"} \cup finalize_group_key.fills
                         ELSE fields
      BY <1>2 DEF LoadTracerKey, Arrived
    <3>2. next \in TracerIds
      BY <3>1, SigningAssumption DEF Links, Shape, TracerIds
    <3> QED BY <3>1, <3>2, Turn, SigningAssumption DEF Links, Shape
  <2>2. UNCHANGED <<clock, at, down, stamp, bound, backlog, admitted, binds, meshBinds, meshUp,
                    commitments, sigmas, challenged, challenge, step>>
    BY <1>2 DEF LoadTracerKey
  <2>3. at[Tracer(next)] = "reported"
    BY <1>2, <2>1, GenuineTracer DEF LoadTracerKey, Arrived, Beyond
  <2>4. Links'
    <3>1. next' \in Nat /\ cpc' \in {"keys", "commitments"}
      BY <2>1 DEF Links, Shape
    <3>2. Shape'
      BY <2>2, <3>1 DEF Links, Shape, Stages
    <3>3. Indexed'
      BY <2>1, SigningAssumption DEF Links, Shape, Indexed, TracerIds
    <3> QED BY <2>1, <2>2, <3>1, <3>2, <3>3
            DEF Links, OneLinkPerSlot, Counted, Full, Beyond, EverySlot
  <2>5. Reported'
    <3>1. \A i \in 0 .. next : at[Tracer(i)] = "reported"
      BY <2>1, <2>3 DEF Attested, Reported, Links, Shape
    <3>2. CASE next = N3 - 1
      BY <2>1, <2>2, <3>1, <3>2 DEF Reported, Beyond, TracerIds
    <3>3. CASE next # N3 - 1
      BY <2>1, <2>2, <3>1, <3>3 DEF Reported, Beyond, Links, Shape
    <3> QED BY <3>2, <3>3
  <2>6. Committed'
    <3>1. commitments = {} /\ (cpc' = "commitments" => next' = 0)
      BY <2>1 DEF Attested, Committed
    <3>2. challenged = {}
      BY <3>1, SigningAssumption DEF Attested, Committed, Ids
    <3> QED BY <2>1, <2>2, <3>1, <3>2 DEF Committed
  <2>7. Shares'
    BY <2>1, <2>2 DEF Attested, Shares
  <2>8. Computed'
    BY <2>1, <2>2 DEF Computed, Base
  <2> QED BY <2>4, <2>5, <2>6, <2>7, <2>8 DEF Attested
<1> QED BY <1>1, <1>2

LEMMA CommitmentArrives ==
  ASSUME Links, Attested, Computed, LoadCommitment
  PROVE  Links' /\ Attested' /\ Computed'
<1> USE DEF clientVars, bindVars, roundVars, pipeVars, CombinerUnchanged
<1>1. CASE Refused("commitments", "Signer", N, "committed")
  BY <1>1, FailsKeep DEF Refused, Fails
<1>2. CASE ~Refused("commitments", "Signer", N, "committed")
  <2>1. /\ cpc = "commitments" /\ next < N /\ next \in Ids
        /\ next' = IF next = N - 1 THEN 0 ELSE next + 1
        /\ cpc' = IF next = N - 1 THEN "parameters" ELSE "commitments"
        /\ commitments' = commitments \cup {next}
    <3>1. /\ cpc = "commitments" /\ next < N /\ TurnOver(N, "parameters")
          /\ commitments' = commitments \cup {next}
      BY <1>2 DEF LoadCommitment, Arrived
    <3>2. next \in Ids
      BY <3>1, SigningAssumption DEF Links, Shape, Ids
    <3> QED BY <3>1, <3>2, Turn, SigningAssumption DEF Links, Shape
  <2>2. UNCHANGED <<clock, at, down, stamp, bound, backlog, admitted, binds, meshBinds, meshUp,
                    sigmas, challenged, challenge, fields, step>>
    BY <1>2 DEF LoadCommitment
  <2>3. Signer(next) \in admitted /\ at[Signer(next)] = "committed"
    BY <1>2, <2>1, GenuineSigner DEF LoadCommitment, Arrived, Beyond
  <2>4. Links'
    <3>1. next' \in Nat /\ cpc' \in {"commitments", "parameters"}
      BY <2>1 DEF Links, Shape
    <3>2. Shape'
      BY <2>1, <2>2, <3>1 DEF Links, Shape, Stages
    <3>3. Indexed'
      BY <2>1, SigningAssumption DEF Links, Shape, Indexed, Ids
    <3> QED BY <2>1, <2>2, <3>1, <3>2, <3>3
            DEF Links, OneLinkPerSlot, Counted, Full, Beyond, EverySlot
  <2>5. Reported'
    BY <2>1, <2>2 DEF Attested, Reported, Beyond
  <2>6. Committed'
    <3>1. commitments' = 0 .. next
      BY <2>1 DEF Attested, Committed, Links, Shape
    <3>2. cpc' = "commitments" => commitments' = 0 .. next' - 1
      BY <2>1, <3>1 DEF Links, Shape
    <3>3. cpc' = "parameters" => commitments' = Ids
      BY <2>1, <3>1 DEF Ids
    <3>4. challenged # {} => commitments' = Ids
      BY <2>1 DEF Attested, Committed
    <3>5. \A i \in commitments' : /\ Signer(i) \in admitted
                                  /\ at[Signer(i)] \in {"committed", "signed"}
      BY <2>1, <2>3 DEF Attested, Committed
    <3> QED BY <2>1, <2>2, <3>2, <3>3, <3>4, <3>5 DEF Committed
  <2>7. Shares'
    BY <2>1, <2>2 DEF Attested, Shares
  <2>8. Computed'
    BY <2>1, <2>2, ChallengeFillsList DEF Computed
  <2> QED BY <2>4, <2>5, <2>6, <2>7, <2>8 DEF Attested
<1> QED BY <1>1, <1>2

LEMMA ShareArrives ==
  ASSUME Links, Attested, Computed, LoadSigma
  PROVE  Links' /\ Attested' /\ Computed'
<1> USE DEF clientVars, bindVars, roundVars, pipeVars, CombinerUnchanged
<1>1. CASE Refused("sigmas", "Signer", N, "signed")
  BY <1>1, FailsKeep DEF Refused, Fails
<1>2. CASE ~Refused("sigmas", "Signer", N, "signed")
  <2>1. /\ cpc = "sigmas" /\ next < N /\ next \in Ids
        /\ next' = IF next = N - 1 THEN 0 ELSE next + 1
        /\ cpc' = IF next = N - 1 THEN "proof" ELSE "sigmas"
        /\ sigmas' = sigmas \cup {next} /\ step' = 0
    <3>1. /\ cpc = "sigmas" /\ next < N /\ TurnOver(N, "proof")
          /\ sigmas' = sigmas \cup {next} /\ step' = 0
      BY <1>2 DEF LoadSigma, Arrived
    <3>2. next \in Ids
      BY <3>1, SigningAssumption DEF Links, Shape, Ids
    <3> QED BY <3>1, <3>2, Turn, SigningAssumption DEF Links, Shape
  <2>2. UNCHANGED <<clock, at, down, stamp, bound, backlog, admitted, binds, meshBinds, meshUp,
                    commitments, challenged, challenge, fields>>
    BY <1>2 DEF LoadSigma
  <2>3. at[Signer(next)] = "signed"
    BY <1>2, <2>1, GenuineSigner DEF LoadSigma, Arrived, Beyond
  <2>4. Links'
    <3>1. next' \in Nat /\ cpc' \in {"sigmas", "proof"}
      BY <2>1 DEF Links, Shape
    <3>2. Shape'
      BY <2>1, <2>2, <3>1 DEF Links, Shape, Stages
    <3>3. Indexed'
      BY <2>1, SigningAssumption DEF Links, Shape, Indexed, Ids
    <3> QED BY <2>1, <2>2, <3>1, <3>2, <3>3
            DEF Links, OneLinkPerSlot, Counted, Full, Beyond, EverySlot
  <2>5. Reported' /\ Committed'
    BY <2>1, <2>2 DEF Attested, Reported, Committed, Beyond
  <2>6. Shares'
    <3>1. sigmas' = 0 .. next
      BY <2>1 DEF Attested, Shares, Links, Shape
    <3>2. cpc' = "sigmas" => sigmas' = 0 .. next' - 1
      BY <2>1, <3>1 DEF Links, Shape
    <3>3. cpc' = "proof" => sigmas' = Ids
      BY <2>1, <3>1 DEF Ids
    <3>4. \A i \in sigmas' : at[Signer(i)] = "signed"
      BY <2>1, <2>3 DEF Attested, Shares
    <3> QED BY <2>1, <2>2, <3>2, <3>3, <3>4 DEF Attested, Shares
  <2>7. Computed'
    BY <2>1, <2>2, ProofFillsList DEF Computed
  <2> QED BY <2>4, <2>5, <2>6, <2>7 DEF Attested
<1> QED BY <1>1, <1>2

LEMMA FilledFields ==
  ASSUME Attested, cpc \in {"parameters", "proof"}
  PROVE  /\ fields \cup {"commitments"} \subseteq Filled
         /\ cpc = "proof" => "sigmas" \in Filled
BY DEF Attested, Committed, Shares, Filled

\* A computation step finds every field it reads, and fills new ones.
LEMMA ParametersStep ==
  ASSUME Links, Attested, Computed, ComputeParameters
  PROVE  /\ step \in 0 .. 3 /\ cpc = "parameters"
         /\ ChallengeSteps[step + 1].fills \cap fields = {}
         /\ fields' = Base \cup ChallengeFills(step + 1)
         /\ step' = step + 1 /\ UNCHANGED cpc
<1>1. cpc = "parameters" /\ step \in 0 .. 3 /\ fields = Base \cup ChallengeFills(step)
  BY StepCounts DEF ComputeParameters, Compute, Computed
<1>2. /\ ChallengeSteps[step + 1].needs \subseteq
           Base \cup {"commitments"} \cup ChallengeFills(step)
      /\ ChallengeSteps[step + 1].fills \cap fields = {}
  BY <1>1, ChallengeOrder
<1>3. ChallengeSteps[step + 1].needs \subseteq Filled
  BY <1>1, <1>2, FilledFields
<1>4. fields' = fields \cup ChallengeSteps[step + 1].fills /\ step' = step + 1 /\ UNCHANGED cpc
  BY <1>3 DEF ComputeParameters, Compute
<1>5. ChallengeFills(step + 1) = ChallengeFills(step) \cup ChallengeSteps[step + 1].fills
  BY <1>1, NextFills
<1> QED BY <1>1, <1>2, <1>4, <1>5

LEMMA ProofStep ==
  ASSUME Links, Attested, Computed, ComputeProof
  PROVE  /\ step \in 0 .. 10 /\ cpc = "proof"
         /\ ProofSteps[step + 1].fills \cap fields = {}
         /\ fields' = Base \cup ChallengeFills(4) \cup ProofFills(step + 1)
         /\ step' = step + 1 /\ UNCHANGED cpc
<1>1. /\ cpc = "proof" /\ step \in 0 .. 10
      /\ fields = Base \cup ChallengeFills(4) \cup ProofFills(step)
  BY StepCounts DEF ComputeProof, Compute, Computed
<1>2. /\ ProofSteps[step + 1].needs \subseteq
           Base \cup {"commitments", "sigmas"} \cup ChallengeFills(4) \cup ProofFills(step)
      /\ ProofSteps[step + 1].fills \cap fields = {}
  BY <1>1, ProofOrder
<1>3. ProofSteps[step + 1].needs \subseteq Filled
  BY <1>1, <1>2, FilledFields
<1>4. fields' = fields \cup ProofSteps[step + 1].fills /\ step' = step + 1 /\ UNCHANGED cpc
  BY <1>3 DEF ComputeProof, Compute
<1>5. ProofFills(step + 1) = ProofFills(step) \cup ProofSteps[step + 1].fills
  BY <1>1, NextFills
<1> QED BY <1>1, <1>2, <1>4, <1>5

LEMMA ComputeKeeps ==
  ASSUME Links, Attested, Computed,
         ComputeParameters \/ BroadcastStart \/ ComputeProof \/ Finish
  PROVE  Links' /\ Attested' /\ Computed'
<1> USE DEF clientVars, bindVars, roundVars, pipeVars, CombinerUnchanged
<1>1. CASE ComputeParameters \/ ComputeProof
  <2>1. UNCHANGED <<clock, at, down, stamp, bound, backlog, admitted, binds, meshBinds, meshUp,
                    next, commitments, sigmas, challenged, challenge>>
    BY <1>1 DEF ComputeParameters, ComputeProof, Compute
  <2>2. UNCHANGED cpc
    BY <1>1, ParametersStep, ProofStep
  <2>3. Links' /\ Attested'
    BY <2>1, <2>2 DEF Links, Shape, OneLinkPerSlot, Counted, Indexed, Full, EverySlot,
                      Attested, Reported, Committed, Shares
  <2>4. Computed'
    <3>1. CASE ComputeParameters
      BY <3>1, ParametersStep DEF Computed
    <3>2. CASE ComputeProof
      BY <3>2, ProofStep DEF Computed
    <3> QED BY <1>1, <3>1, <3>2
  <2> QED BY <2>3, <2>4
<1>2. CASE BroadcastStart \/ Finish
  <2>1. UNCHANGED <<clock, at, down, stamp, bound, backlog, admitted, binds, meshBinds, meshUp,
                    next, commitments, sigmas, challenged, fields, step>>
    BY <1>2 DEF BroadcastStart, Finish
  <2>2. \/ /\ cpc = "parameters" /\ step = 4 /\ cpc' = "challenge" /\ challenge' = clock
        \/ /\ cpc = "proof" /\ cpc' = "exited" /\ UNCHANGED challenge
    BY <1>2, StepCounts DEF BroadcastStart, Finish
  <2>3. Links'
    <3>1. Shape' /\ Indexed'
      BY <2>1, <2>2, SigningAssumption DEF Links, Shape, Stages, Indexed
    <3> QED BY <2>1, <2>2, <3>1 DEF Links, OneLinkPerSlot, Counted, Full, EverySlot, Beyond
  <2>4. Attested'
    BY <2>1, <2>2 DEF Attested, Reported, Committed, Shares, Beyond
  <2>5. Computed'
    BY <2>1, <2>2 DEF Computed
  <2> QED BY <2>3, <2>4, <2>5
<1> QED BY <1>1, <1>2

LEMMA ChallengeKeeps ==
  ASSUME Links, Attested, Computed, SendChallenge
  PROVE  Links' /\ Attested' /\ Computed'
<1> USE DEF clientVars, bindVars, roundVars, pipeVars, CombinerUnchanged
<1>1. CASE cpc' = "failed"
  <2>1. cpc' # "sigmas" /\ cpc' # cpc
    BY <1>1 DEF SendChallenge
  <2> QED BY <1>1, <2>1, FailsKeep DEF SendChallenge, TurnOver, Fails
<1>2. CASE cpc' # "failed"
  <2>1. /\ cpc = "challenge" /\ next < N /\ next \in Ids
        /\ challenged' = challenged \cup {Link("Signer", next)}
        /\ next' = IF next = N - 1 THEN 0 ELSE next + 1
        /\ cpc' = IF next = N - 1 THEN "sigmas" ELSE "challenge"
    <3>1. /\ cpc = "challenge" /\ next < N /\ TurnOver(N, "sigmas")
          /\ challenged' = challenged \cup {Link("Signer", next)}
      BY <1>2 DEF SendChallenge
    <3>2. next \in Ids
      BY <3>1, SigningAssumption DEF Links, Shape, Ids
    <3> QED BY <3>1, <3>2, Turn, SigningAssumption DEF Links, Shape
  <2>2. UNCHANGED <<clock, at, down, stamp, bound, backlog, admitted, binds, meshBinds, meshUp,
                    commitments, sigmas, challenge, fields, step>>
    BY <1>2 DEF SendChallenge
  <2>3. Link("Signer", next) \in SignerLike
    BY <2>1, LinkOf, ClientFacts DEF Links, Shape, Full, EverySlot, Beyond
  <2>4. Links'
    <3>1. next' \in Nat /\ cpc' \in {"challenge", "sigmas"}
      BY <2>1 DEF Links, Shape
    <3>2. Shape'
      BY <2>1, <2>2, <2>3, <3>1 DEF Links, Shape, Stages
    <3>3. Indexed'
      BY <2>1, SigningAssumption DEF Links, Shape, Indexed, Ids
    <3> QED BY <2>1, <2>2, <3>1, <3>2, <3>3
            DEF Links, OneLinkPerSlot, Counted, Full, Beyond, EverySlot
  <2>5. Reported' /\ Committed'
    BY <2>1, <2>2 DEF Attested, Reported, Committed, Beyond
  <2>6. Shares'
    <3>1. sigmas = {} /\ (cpc' = "sigmas" => next' = 0)
      BY <2>1 DEF Attested, Shares
    <3> QED BY <2>1, <2>2, <3>1 DEF Attested, Shares
  <2>7. Computed'
    BY <2>1, <2>2 DEF Computed
  <2> QED BY <2>4, <2>5, <2>6, <2>7 DEF Attested
<1> QED BY <1>1, <1>2

-----------------------------------------------------------------------------
(* The theorems *)

IInv == Links /\ Attested /\ Computed

LEMMA NextKeeps == IInv /\ [Next]_vars => IInv'
<1> SUFFICES ASSUME Links, Attested, Computed, [Next]_vars
             PROVE  Links' /\ Attested' /\ Computed'
  BY DEF IInv
<1>1. CASE Surroundings
  BY <1>1, SurroundingsKeep
<1>2. CASE CombinerStep \/ CombinerCrash
  <2>1. CASE BindFails \/ AcceptEof \/ CombinerCrash
    BY <2>1, FailsKeep DEF BindFails, AcceptEof, CombinerCrash, Fails, CombinerUnchanged
  <2>2. CASE Bind \/ BindInUse \/ AcceptHello \/ AllConnected
    BY <2>2, AcceptKeeps
  <2>3. CASE LoadTracerKey
    BY <2>3, KeyArrives
  <2>4. CASE LoadCommitment
    BY <2>4, CommitmentArrives
  <2>5. CASE LoadSigma
    BY <2>5, ShareArrives
  <2>6. CASE SendChallenge
    BY <2>6, ChallengeKeeps
  <2>7. CASE ComputeParameters \/ BroadcastStart \/ ComputeProof \/ Finish
    BY <2>7, ComputeKeeps
  <2> QED BY <1>2, <2>1, <2>2, <2>3, <2>4, <2>5, <2>6, <2>7 DEF CombinerStep
<1> QED BY <1>1, <1>2 DEF Next, Surroundings

LEMMA Inductive == Spec => []IInv
<1>1. Init => IInv
  BY InitLinks, InitAttested DEF IInv
<1> QED BY <1>1, NextKeeps, PTL DEF Spec

\* Every variable keeps its type, and no slot has two links.
THEOREM TypeCorrect == Spec => []TypeOK
<1>1. IInv => TypeOK
  BY DEF IInv, Links, Shape, OneLinkPerSlot, Counted, TypeOK
<1> QED BY Inductive, <1>1, PTL

\* No `expect` of the Combiner meets an empty field.
THEOREM NoPanicTheorem == Spec => []NoPanic
<1>1. IInv => NoPanic
  BY DEF IInv, Computed, NoPanic
<1> QED BY Inductive, <1>1, PTL

\* A signer gives its share only on a challenge over the commitments of every
\* signer of this run.
THEOREM SignedOnAllCommitmentsTheorem == Spec => []SignedOnAllCommitments
<1>1. IInv => SignedOnAllCommitments
  <2> SUFFICES ASSUME IInv, NEW c \in SignerLike, at[c] = "signed"
               PROVE  /\ ~c.old
                      /\ commitments = Ids
                      /\ \A d \in Signers : d \in admitted /\ at[d] \in {"committed", "signed"}
    BY DEF SignedOnAllCommitments
  <2>1. ~c.old /\ commitments = Ids
    BY DEF IInv, Attested, Shares, Committed
  <2>2. \A i \in Ids : Signer(i) \in admitted /\ at[Signer(i)] \in {"committed", "signed"}
    BY <2>1 DEF IInv, Attested, Committed
  <2> QED BY <2>1, <2>2, ClientFacts
<1> QED BY Inductive, <1>1, PTL

\* An attestation is made of the shares of every signer and the keys of every
\* tracer of this run, and of nobody else's.
THEOREM AttestedByAllTheorem == Spec => []AttestedByAll
<1>1. IInv => AttestedByAll
  <2> SUFFICES ASSUME IInv, cpc \in {"proof", "exited"}
               PROVE  /\ sigmas = Ids
                      /\ admitted = Signers \cup Tracers
                      /\ \A c \in Signers : at[c] = "signed"
                      /\ \A c \in Tracers : at[c] = "reported"
    BY DEF AttestedByAll
  <2>1. /\ sigmas = Ids /\ commitments = Ids
        /\ \A i \in Ids : at[Signer(i)] = "signed" /\ Signer(i) \in admitted
        /\ \A i \in TracerIds : at[Tracer(i)] = "reported"
    BY DEF IInv, Attested, Shares, Committed, Reported, Beyond
  <2>2. \A i \in TracerIds : Tracer(i) \in admitted
    BY GenuineTracer DEF IInv, Beyond
  <2>3. Signers \cup Tracers \subseteq admitted
    BY <2>1, <2>2, ClientFacts
  <2>4. ASSUME NEW c \in admitted
        PROVE  c \in Signers \cup Tracers
    <3>1. CASE c.role = "Signer" /\ c.id \in Ids
      <4>1. Signer(c.id) \in admitted /\ Signer(c.id).role = c.role /\ Signer(c.id).id = c.id
        BY <2>1, <3>1, ClientFacts
      <4>2. c = Signer(c.id)
        BY <4>1 DEF IInv, Links, OneLinkPerSlot
      <4> QED BY <3>1, <4>2, ClientFacts
    <3>2. CASE c.role = "Tracer" /\ c.id \in TracerIds /\ c = Tracer(c.id)
      BY <3>2, ClientFacts
    <3> QED BY <3>1, <3>2, ClientFacts DEF IInv, Links, Shape
  <2> QED BY <2>1, <2>3, <2>4, ClientFacts
<1> QED BY Inductive, <1>1, PTL

\* Nothing a Fiat-Shamir challenge was derived from is computed again.
THEOREM NothingRecomputedTheorem == Spec => NothingRecomputed
<1> DEFINE s == IF cpc = "proof" THEN ProofSteps[step + 1] ELSE ChallengeSteps[step + 1]
           A == step' > step => s.fills \cap fields = {}
<1>1. IInv /\ [Next]_vars => [A]_vars
  <2> SUFFICES ASSUME IInv, [Next]_vars, step' > step
               PROVE  s.fills \cap fields = {}
    OBVIOUS
  <2> USE DEF IInv
  <2>1. CASE ComputeParameters
    BY <2>1, ParametersStep
  <2>2. CASE ComputeProof
    BY <2>2, ProofStep
  <2>3. CASE Surroundings
    <3>1. step' = step
      BY <2>3, SurroundingsMove DEF Links, CombinerStill, pipeVars
    <3> QED BY <3>1 DEF Computed
  <2>4. CASE LoadSigma
    BY <2>4 DEF LoadSigma, Refused, Computed, pipeVars
  <2>5. CASE Bind \/ BindInUse \/ BindFails \/ AcceptHello \/ AcceptEof \/ AllConnected
             \/ LoadTracerKey \/ LoadCommitment \/ BroadcastStart \/ SendChallenge \/ Finish \/ CombinerCrash
    <3>1. step' = step
      BY <2>5 DEF Bind, BindInUse, BindFails, AcceptHello, AcceptEof, AllConnected,
                  LoadTracerKey, LoadCommitment,
                  Refused, BroadcastStart, SendChallenge, Finish, CombinerCrash, pipeVars
    <3> QED BY <3>1 DEF Computed
  <2> QED BY <2>1, <2>2, <2>3, <2>4, <2>5 DEF Next, CombinerStep, Surroundings
<1> QED BY Inductive, <1>1, PTL DEF Spec, NothingRecomputed

-----------------------------------------------------------------------------
(* Nobody waits for a process that has ended, or for one that waits for it. *)
(* ClientCan, CombinerCan and MeshCan are the conditions under which a      *)
(* participant, the Combiner and the tracers' mesh have a step to take;     *)
(* the lemmas called ...CanIsEnough name that step and its outcome.         *)

ClientCan(c) ==
  /\ c \notin down
  /\ \/ at[c] = "dialing" /\ bound /\ ~CombinerEnded
     \/ at[c] = "connected"
     \/ at[c] = "helloed" /\ (c \in Tracers => meshUp)
     \/ at[c] = "committed" /\ (c \in challenged \/ LinkClosed(c))

\* A link the Combiner reads has what is to come on it, or has ended.
Decided(role, sent) == at[Link(role, next)] = sent \/ Link(role, next) \in down

CombinerCan ==
  \/ cpc \in {"bind", "parameters", "challenge", "proof"}
  \/ cpc = "accept" /\ Cardinality(admitted) = expected_connections
  \/ /\ cpc = "accept" /\ backlog # <<>>
     /\ at[Head(backlog)] = "connected" => Head(backlog) \in down
  \/ cpc = "keys" /\ Decided("Tracer", "reported")
  \/ cpc = "commitments" /\ Decided("Signer", "committed")
  \/ cpc = "sigmas" /\ Decided("Signer", "signed")

MeshCan == ~meshUp /\ \A c \in Tracers : c \notin down /\ at[c] = "helloed"

SomebodyCan == CombinerCan \/ MeshCan \/ \E c \in Clients : ClientCan(c)

\* The Combiner has ended, and no signer waits for anything but a Combiner to
\* listen at its address.
AllEnded ==
  /\ CombinerEnded
  /\ \A c \in Signers : at[c] \in {"signed", "dialing"} \/ c \in down

\* A participant the Combiner waits for in vain.
Missed ==
  \/ \E c \in Signers \cup Tracers : c \in down /\ at[c] = "dialing"
  \/ ~meshUp /\ down \cap Tracers # {}

NobodyStuck == SomebodyCan \/ AllEnded \/ Missed

\* Where the participants are: whoever got through waits to be accepted, or
\* its slot is taken;
Members(s) == {s[i] : i \in 1 .. Len(s)}
Pending == Members(backlog)
Slotted(c) == \E d \in admitted : d.role = c.role /\ d.id = c.id

GotThrough ==
  /\ \A c \in Pending : at[c] # "dialing"
  /\ \A c \in Clients : at[c] # "dialing" => c \in Pending \/ Slotted(c)

\* no link is kept before its Hello;
Greeted == \A c \in admitted : at[c] \notin {"dialing", "connected"}

\* a tracer reports its key once the mesh is up, and only a tracer does;
InRole ==
  /\ \A c \in Tracers : at[c] \in {"dialing", "connected", "helloed", "reported"}
  /\ \A c \in Tracers : at[c] = "reported" => meshUp
  /\ \A c \in SignerLike : at[c] # "reported"

\* a Combiner that accepts has listened, and the challenge goes to everybody.
Asked ==
  /\ cpc \in Beyond \cup {"accept"} => bound
  /\ cpc = "challenge" => \A d \in admitted :
       d.role = "Signer" /\ d.id < next => d \in challenged
  /\ cpc = "sigmas" => \A d \in admitted : d.role = "Signer" => d \in challenged

Arrivals == GotThrough /\ Greeted /\ InRole /\ Asked

LEMMA AppendMembers ==
  ASSUME NEW S, NEW s \in Seq(S), NEW c \in S
  PROVE  Members(Append(s, c)) = Members(s) \cup {c}
<1>1. Append(s, c) \in Seq(S) /\ Len(Append(s, c)) = Len(s) + 1
  OBVIOUS
<1>2. \A i \in 1 .. Len(s) : Append(s, c)[i] = s[i] /\ i \in 1 .. Len(Append(s, c))
  BY <1>1
<1>3. Append(s, c)[Len(s) + 1] = c /\ Len(s) + 1 \in 1 .. Len(Append(s, c))
  BY <1>1
<1>4. \A i \in 1 .. Len(Append(s, c)) : i \in 1 .. Len(s) \/ i = Len(s) + 1
  BY <1>1
<1> QED BY <1>2, <1>3, <1>4 DEF Members

LEMMA TailMembers ==
  ASSUME NEW S, NEW s \in Seq(S), s # <<>>
  PROVE  Members(s) = Members(Tail(s)) \cup {Head(s)}
<1>1. Tail(s) \in Seq(S) /\ Len(Tail(s)) = Len(s) - 1 /\ Len(s) \in Nat \ {0}
  OBVIOUS
<1>2. \A i \in 1 .. Len(Tail(s)) : Tail(s)[i] = s[i + 1] /\ i + 1 \in 1 .. Len(s)
  BY <1>1
<1>3. Head(s) = s[1] /\ 1 \in 1 .. Len(s)
  BY <1>1
<1>4. \A i \in 1 .. Len(s) : i = 1 \/ (i - 1 \in 1 .. Len(Tail(s)) /\ Tail(s)[i - 1] = s[i])
  BY <1>1
<1> QED BY <1>2, <1>3, <1>4 DEF Members

LEMMA InitArrivals == Init => Arrivals
<1> SUFFICES ASSUME Init PROVE Arrivals
  OBVIOUS
<1>1. Pending = {}
  BY DEF Init, Pending, Members
<1>2. \A c \in Clients : at[c] = "dialing"
  BY DEF Init
<1>3. \A c \in Tracers \cup SignerLike : c \in Clients
  BY DEF Clients, SignerLike
<1> QED BY <1>1, <1>2, <1>3 DEF Init, Arrivals, GotThrough, Greeted, InRole, Asked, Beyond

\* A step of a participant that had got through, or of the mesh.
LEMMA OnwardsArrives ==
  ASSUME Links, Arrivals,
         UNCHANGED <<cpc, bound, backlog, admitted, next, challenged>>,
         \A d \in Clients : /\ at[d] = "dialing" <=> at'[d] = "dialing"
                            /\ at'[d] = "connected" => at[d] = "connected",
         meshUp => meshUp',
         InRole'
  PROVE  Arrivals'
<1>1. \A c \in Pending : c \in Clients
  BY DEF Links, Shape, Pending, Members
<1>2. Pending' = Pending
  BY DEF Pending, Members
<1>3. \A c \in Clients : Slotted(c)' <=> Slotted(c)
  BY DEF Slotted
<1>4. GotThrough'
  BY <1>1, <1>2, <1>3 DEF Arrivals, GotThrough
<1>5. Greeted'
  BY DEF Links, Shape, Arrivals, Greeted
<1>6. Asked'
  BY DEF Arrivals, Asked
<1> QED BY <1>4, <1>5, <1>6 DEF Arrivals

LEMMA RolesApart == \A c \in Tracers : c \notin SignerLike
BY ClientFacts, SigningAssumption DEF Tracers, Client

LEMMA SurroundingsArrive ==
  ASSUME Links, Arrivals, Surroundings
  PROVE  Arrivals'
<1> USE DEF clientVars, bindVars, roundVars, pipeVars
<1>0. at \in [Clients -> {"dialing", "connected", "helloed", "committed", "signed", "reported"}]
  BY DEF Links, Shape
<1>1. ASSUME NEW c \in Clients, NEW x, at' = [at EXCEPT ![c] = x],
             at[c] # "dialing", x \in {"helloed", "committed", "signed", "reported"},
             x # "helloed" => (x = "reported" <=> c \in Tracers) /\ (x = "reported" => meshUp),
             UNCHANGED <<cpc, bound, backlog, admitted, next, challenged, meshUp>>
      PROVE  Arrivals'
  <2>1. InRole'
    BY <1>0, <1>1, RolesApart DEF Arrivals, InRole, Clients, SignerLike
  <2> QED BY <1>0, <1>1, <2>1, OnwardsArrives
<1>2. ASSUME NEW c \in Clients, Connect(c)
      PROVE  Arrivals'
  <2>1. /\ at[c] = "dialing" /\ at' = [at EXCEPT ![c] = "connected"]
        /\ backlog' = Append(backlog, c) /\ bound /\ ~CombinerEnded
        /\ UNCHANGED <<cpc, bound, admitted, next, challenged, meshUp>>
    BY <1>2 DEF Connect
  <2>2. Pending' = Pending \cup {c}
    <3>1. Members(Append(backlog, c)) = Members(backlog) \cup {c}
      BY AppendMembers DEF Links, Shape
    <3>2. Pending' = Members(backlog')
      BY DEF Pending, Members
    <3> QED BY <2>1, <3>1, <3>2 DEF Pending
  <2>3. \A d \in Pending : d \in Clients
    BY DEF Links, Shape, Pending, Members
  <2>4. \A d \in Clients : Slotted(d)' <=> Slotted(d)
    BY <2>1 DEF Slotted
  <2>5. \A d \in Clients : at'[d] = IF d = c THEN "connected" ELSE at[d]
    BY <1>0, <2>1
  <2>6. GotThrough'
    BY <2>2, <2>3, <2>4, <2>5 DEF Arrivals, GotThrough
  <2>7. Greeted'
    BY <2>1, <2>5 DEF Links, Shape, Arrivals, Greeted
  <2>8. InRole'
    BY <2>1, <2>5 DEF Arrivals, InRole, Clients, SignerLike
  <2>9. Asked'
    BY <2>1 DEF Arrivals, Asked
  <2> QED BY <2>6, <2>7, <2>8, <2>9 DEF Arrivals
<1>3. ASSUME UNCHANGED <<at, cpc, bound, backlog, admitted, next, challenged>>,
             meshUp => meshUp'
      PROVE  Arrivals'
  <2>1. InRole'
    BY <1>3 DEF Arrivals, InRole
  <2> QED BY <1>3, <2>1, OnwardsArrives
<1>4. ASSUME NEW c \in Clients, ClientStep(c) \/ Crash(c)
      PROVE  Arrivals'
  <2>1. CASE Connect(c)
    BY <1>2, <2>1
  <2>2. CASE SendHello(c)
    BY <1>1, <2>2 DEF SendHello
  <2>3. CASE SendCommitment(c)
    BY <1>1, <2>3, RolesApart DEF SendCommitment
  <2>4. CASE LoadChallenge(c)
    BY <1>1, <1>3, <2>4, RolesApart DEF LoadChallenge
  <2>5. CASE ReportKey(c)
    BY <1>1, <2>5 DEF ReportKey
  <2>6. CASE AbortKey(c) \/ ExitOnCombiner(c) \/ Crash(c)
    BY <1>3, <2>6 DEF AbortKey, ExitOnCombiner, Crash
  <2> QED BY <1>4, <2>1, <2>2, <2>3, <2>4, <2>5, <2>6 DEF ClientStep
<1>5. CASE MeshBindRetry \/ MeshBindFails \/ MeshBound \/ Tick \/ UNCHANGED vars
  <2>1. UNCHANGED <<at, cpc, bound, backlog, admitted, next, challenged>> /\ (meshUp => meshUp')
    BY <1>5 DEF MeshBindRetry, MeshBindFails, MeshBound, Tick, vars
  <2> QED BY <1>3, <2>1
<1> QED BY <1>4, <1>5 DEF Surroundings

LEMMA CombinerArrives ==
  ASSUME Links, Arrivals, CombinerStep \/ CombinerCrash
  PROVE  Arrivals'
<1> USE DEF clientVars, bindVars, roundVars, pipeVars, CombinerUnchanged
<1>1. ASSUME UNCHANGED <<at, backlog, admitted, meshUp>>, Asked'
      PROVE  Arrivals'
  <2>1. Pending' = Pending
    BY <1>1 DEF Pending, Members
  <2>2. \A c \in Clients : Slotted(c)' <=> Slotted(c)
    BY <1>1 DEF Slotted
  <2> QED BY <1>1, <2>1, <2>2 DEF Arrivals, GotThrough, Greeted, InRole
<1>2. CASE AcceptHello
  <2> DEFINE c == Head(backlog)
  <2>1. /\ c \in Clients /\ backlog \in Seq(Clients) /\ backlog # <<>>
        /\ at[c] \notin {"dialing", "connected"} /\ cpc = "accept"
        /\ backlog' = Tail(backlog)
        /\ UNCHANGED <<at, cpc, bound, meshUp>>
    BY <1>2 DEF AcceptHello, Links, Shape
  <2>2. \/ UNCHANGED admitted /\ Slotted(c)
        \/ admitted' = admitted \cup {c}
    BY <1>2 DEF AcceptHello, SlotFree, Slotted
  <2>3. Pending = Pending' \cup {c}
    <3>1. Members(backlog) = Members(Tail(backlog)) \cup {c}
      BY <2>1, TailMembers
    <3>2. Pending' = Members(backlog')
      BY DEF Pending, Members
    <3> QED BY <2>1, <3>1, <3>2 DEF Pending
  <2> PICK k \in Clients : k = c
    BY <2>1
  <2> HIDE DEF c
  <2>4. \A d \in Clients : Slotted(d) \/ d = k => Slotted(d)'
    BY <2>2 DEF Slotted
  <2>5. GotThrough'
    BY <2>1, <2>3, <2>4 DEF Arrivals, GotThrough
  <2>6. Greeted'
    BY <2>1, <2>2 DEF Arrivals, Greeted
  <2>7. InRole' /\ Asked'
    BY <2>1 DEF Arrivals, InRole, Asked
  <2> QED BY <2>5, <2>6, <2>7 DEF Arrivals
<1>3. CASE Bind \/ BindInUse \/ BindFails \/ AcceptEof \/ AllConnected \/ CombinerCrash
          \/ Finish
  <2>1. Asked'
    BY <1>3 DEF Bind, BindInUse, BindFails, AcceptEof, AllConnected, CombinerCrash, Finish,
                Arrivals, Asked, Beyond
  <2> QED BY <1>1, <1>3, <2>1
       DEF Bind, BindInUse, BindFails, AcceptEof, AllConnected, CombinerCrash, Finish
<1>4. CASE LoadTracerKey \/ LoadCommitment \/ LoadSigma
  <2>1. UNCHANGED <<at, backlog, admitted, meshUp, bound, challenged>>
    BY <1>4 DEF LoadTracerKey, LoadCommitment, LoadSigma, Refused
  <2>2. /\ cpc \in Beyond
        /\ cpc' \notin {"challenge"}
        /\ cpc' = "sigmas" => cpc = "sigmas"
    BY <1>4 DEF LoadTracerKey, LoadCommitment, LoadSigma, Refused, Arrived, TurnOver, Beyond
  <2>3. Asked'
    BY <2>1, <2>2 DEF Arrivals, Asked
  <2> QED BY <1>1, <2>1, <2>3
<1>5. CASE ComputeParameters \/ ComputeProof \/ BroadcastStart
  <2>1. UNCHANGED <<at, backlog, admitted, meshUp, bound, challenged, next>>
    BY <1>5 DEF ComputeParameters, ComputeProof, Compute, BroadcastStart
  <2>2. /\ cpc \in {"parameters", "proof"}
        /\ cpc' \in {cpc, "panicked"} \/ (cpc' = "challenge" /\ next = 0)
    BY <1>5 DEF ComputeParameters, ComputeProof, Compute, BroadcastStart, Links, Indexed
  <2>3. \A d \in admitted : d.role = "Signer" => ~(d.id < 0)
    BY ClientFacts DEF Links, Shape, Ids
  <2>4. Asked'
    BY <2>1, <2>2, <2>3 DEF Arrivals, Asked, Beyond
  <2> QED BY <1>1, <2>1, <2>4
<1>6. CASE SendChallenge
  <2>1. cpc = "challenge" /\ UNCHANGED <<at, backlog, admitted, meshUp, bound>>
    BY <1>6 DEF SendChallenge
  <2>2. CASE cpc' = "failed"
    BY <1>1, <2>1, <2>2 DEF Asked, Beyond
  <2>3. CASE cpc' # "failed"
    <3>1. /\ next \in Ids
          /\ challenged' = challenged \cup {Link("Signer", next)}
          /\ next' = IF next = N - 1 THEN 0 ELSE next + 1
          /\ cpc' = IF next = N - 1 THEN "sigmas" ELSE "challenge"
      <4>1. /\ next < N /\ TurnOver(N, "sigmas")
            /\ challenged' = challenged \cup {Link("Signer", next)}
        BY <1>6, <2>3 DEF SendChallenge
      <4>2. next \in Ids
        BY <4>1, SigningAssumption DEF Links, Shape, Ids
      <4> QED BY <2>1, <4>1, <4>2, Turn, SigningAssumption DEF Links, Shape
    <3>2. /\ Link("Signer", next) \in admitted
          /\ Link("Signer", next).role = "Signer" /\ Link("Signer", next).id = next
      BY <2>1, <3>1, LinkOf DEF Links, Full, EverySlot, Beyond
    <3>3. \A d \in admitted : d.role = "Signer" => d.id \in Ids
      BY ClientFacts DEF Links, Shape
    <3>4. \A d \in admitted : d.role = "Signer" /\ d.id <= next => d \in challenged'
      <4> SUFFICES ASSUME NEW d \in admitted, d.role = "Signer", d.id <= next
                   PROVE  d \in challenged'
        OBVIOUS
      <4>1. CASE d.id < next
        BY <2>1, <3>1, <4>1 DEF Arrivals, Asked
      <4>2. CASE d.id = next
        BY <3>1, <3>2, <4>2 DEF Links, OneLinkPerSlot
      <4> QED BY <3>1, <3>3, <4>1, <4>2 DEF Ids
    <3>5. Asked'
      <4>1. CASE next = N - 1
        BY <2>1, <3>1, <3>3, <3>4, <4>1, SigningAssumption DEF Arrivals, Asked, Beyond, Ids
      <4>2. CASE next # N - 1
        BY <2>1, <3>1, <3>3, <3>4, <4>2, SigningAssumption DEF Arrivals, Asked, Beyond, Ids
      <4> QED BY <4>1, <4>2
    <3> QED BY <1>1, <2>1, <3>5
  <2> QED BY <2>2, <2>3
<1> QED BY <1>2, <1>3, <1>4, <1>5, <1>6 DEF CombinerStep

LEMMA ArrivalsInvariant == Spec => []Arrivals
<1>1. Init => Arrivals
  BY InitArrivals
<1>2. IInv /\ Arrivals /\ [Next]_vars => Arrivals'
  <2> SUFFICES ASSUME Links, Arrivals, [Next]_vars PROVE Arrivals'
    BY DEF IInv
  <2>1. Surroundings \/ CombinerStep \/ CombinerCrash
    BY DEF Next, Surroundings
  <2> QED BY <2>1, SurroundingsArrive, CombinerArrives
<1> QED BY <1>1, <1>2, Inductive, PTL DEF Spec

\* A step of participant c with these values of the variables it may change.
ClientTo(places, gone, stamps, queue) ==
  vars' = <<clock, <<places, gone, stamps>>, cpc, bound, queue, admitted, bindVars,
            roundVars, pipeVars>>

Moves(c, place) == [at EXCEPT ![c] = place]
Stamps(c) == [stamp EXCEPT ![c] = clock]

\* Wherever a participant that can go on is, one of these is a step of it.
LEMMA ClientCanIsEnough ==
  ASSUME Arrivals, NEW c \in Clients, ClientCan(c)
  PROVE  /\ at[c] = "dialing"
            /\ ClientTo(Moves(c, "connected"), down, stamp, Append(backlog, c))
            => ClientStep(c)
         /\ at[c] = "connected" /\ ClientTo(Moves(c, "helloed"), down, stamp, backlog)
            => ClientStep(c)
         /\ at[c] = "helloed" /\ c \in SignerLike
            /\ ClientTo(Moves(c, "committed"), down, Stamps(c), backlog)
            => ClientStep(c)
         /\ at[c] = "helloed" /\ c \in Tracers
            /\ ClientTo(Moves(c, "reported"), down, Stamps(c), backlog)
            => ClientStep(c)
         /\ at[c] = "committed" /\ c \in challenged /\ ~c.old /\ Fresh(challenge)
            /\ ClientTo(Moves(c, "signed"), down, Stamps(c), backlog)
            => ClientStep(c)
         /\ at[c] = "committed" /\ ~(c \in challenged /\ ~c.old /\ Fresh(challenge))
            /\ ClientTo(at, down \cup {c}, stamp, backlog)
            => ClientStep(c)
<1> USE DEF ClientCan, ClientTo, Moves, Stamps, vars, clientVars
<1>1. ASSUME at[c] = "dialing",
             ClientTo(Moves(c, "connected"), down, stamp, Append(backlog, c))
      PROVE  Connect(c)
  BY <1>1 DEF Connect
<1>2. ASSUME at[c] = "connected", ClientTo(Moves(c, "helloed"), down, stamp, backlog)
      PROVE  SendHello(c)
  BY <1>2 DEF SendHello
<1>3. ASSUME at[c] = "helloed", c \in SignerLike,
             ClientTo(Moves(c, "committed"), down, Stamps(c), backlog)
      PROVE  SendCommitment(c)
  BY <1>3 DEF SendCommitment
<1>4. ASSUME at[c] = "helloed", c \in Tracers,
             ClientTo(Moves(c, "reported"), down, Stamps(c), backlog)
      PROVE  ReportKey(c)
  BY <1>4 DEF ReportKey
<1>5. at[c] = "committed" => c \in SignerLike
  BY DEF Arrivals, InRole, Clients, SignerLike
<1>6. ASSUME at[c] = "committed", c \in challenged, ~c.old, Fresh(challenge),
             ClientTo(Moves(c, "signed"), down, Stamps(c), backlog)
      PROVE  LoadChallenge(c)
  BY <1>5, <1>6 DEF LoadChallenge
<1>7. ASSUME at[c] = "committed", ~(c \in challenged /\ ~c.old /\ Fresh(challenge)),
             ClientTo(at, down \cup {c}, stamp, backlog)
      PROVE  LoadChallenge(c) \/ ExitOnCombiner(c)
  <2>1. CASE c \in challenged
    BY <1>5, <1>7, <2>1 DEF LoadChallenge
  <2>2. CASE c \notin challenged
    BY <1>5, <1>7, <2>2 DEF ExitOnCombiner
  <2> QED BY <2>1, <2>2
<1> HIDE DEF ClientCan, ClientTo, Moves, Stamps
<1> QED BY <1>1, <1>2, <1>3, <1>4, <1>6, <1>7 DEF ClientStep

\* And this of the Combiner, wherever it is: to a stage, with a backlog and
\* the links kept, in a turn of a loop or with a computation done.
CombinerTo(where, listened, queue, kept, rounds, computed) ==
  vars' = <<clock, clientVars, where, listened, queue, kept, bindVars, rounds, computed>>

Stops == CombinerTo("failed", bound, backlog, admitted, roundVars, pipeVars)

Comes(role, sent) == at[Link(role, next)] = sent /\ Verifies(Link(role, next))

LEMMA AcceptCanIsEnough ==
  ASSUME IInv, Arrivals, CombinerCan
  PROVE  /\ cpc = "bind" /\ binds < BindAttempts
            /\ CombinerTo("accept", TRUE, backlog, admitted, roundVars, pipeVars)
            => CombinerStep
         /\ cpc = "bind" /\ ~(binds < BindAttempts) /\ Stops => CombinerStep
         /\ cpc = "accept" /\ Cardinality(admitted) = expected_connections
            /\ CombinerTo("keys", bound, backlog, admitted, roundVars, pipeVars)
            => CombinerStep
         /\ cpc = "accept" /\ Cardinality(admitted) # expected_connections
            /\ at[Head(backlog)] # "connected"
            /\ CombinerTo(cpc, bound, Tail(backlog),
                          IF SlotFree(Head(backlog)) THEN admitted \cup {Head(backlog)}
                                                     ELSE admitted,
                          roundVars, pipeVars)
            => CombinerStep
         /\ cpc = "accept" /\ Cardinality(admitted) # expected_connections
            /\ at[Head(backlog)] = "connected" /\ Stops
            => CombinerStep
<1> USE DEF CombinerCan, CombinerTo, Stops, CombinerUnchanged, vars
<1>1. ASSUME cpc = "bind", binds < BindAttempts,
             CombinerTo("accept", TRUE, backlog, admitted, roundVars, pipeVars)
      PROVE  Bind
  BY <1>1 DEF Bind
<1>7. ASSUME cpc = "bind", ~(binds < BindAttempts), Stops
      PROVE  BindFails
  <2>1. binds = BindAttempts
    BY <1>7, SigningAssumption DEF IInv, Links, Shape
  <2> QED BY <1>7, <2>1 DEF BindFails
<1>2. ASSUME cpc = "accept", Cardinality(admitted) = expected_connections,
             CombinerTo("keys", bound, backlog, admitted, roundVars, pipeVars)
      PROVE  AllConnected
  BY <1>2 DEF AllConnected
<1>3. Cardinality(admitted) # expected_connections
      => Cardinality(admitted) < expected_connections
  <2>1. Cardinality(admitted) \in Nat /\ Cardinality(admitted) <= expected_connections
    BY FS_CardinalityType DEF IInv, Links, Counted
  <2>2. expected_connections \in Nat
    BY SigningAssumption DEF expected_connections
  <2> QED BY <2>1, <2>2
<1>4. backlog # <<>> => at[Head(backlog)] # "dialing"
  <2> SUFFICES ASSUME backlog # <<>> PROVE at[Head(backlog)] # "dialing"
    OBVIOUS
  <2>1. backlog \in Seq(Clients)
    BY DEF IInv, Links, Shape
  <2>2. Head(backlog) \in Pending
    BY <2>1, TailMembers DEF Pending
  <2> QED BY <2>2 DEF Arrivals, GotThrough
<1>5. ASSUME cpc = "accept", Cardinality(admitted) # expected_connections,
             at[Head(backlog)] # "connected",
             CombinerTo(cpc, bound, Tail(backlog),
                        IF SlotFree(Head(backlog)) THEN admitted \cup {Head(backlog)}
                                                   ELSE admitted,
                        roundVars, pipeVars)
      PROVE  AcceptHello
  BY <1>3, <1>4, <1>5 DEF AcceptHello
<1>6. ASSUME cpc = "accept", Cardinality(admitted) # expected_connections,
             at[Head(backlog)] = "connected", Stops
      PROVE  AcceptEof
  BY <1>3, <1>6 DEF AcceptEof
<1> HIDE DEF CombinerCan, CombinerTo, Stops
<1> QED BY <1>1, <1>2, <1>5, <1>6, <1>7 DEF CombinerStep

LEMMA RoundCanIsEnough ==
  ASSUME IInv, Arrivals, CombinerCan
  PROVE  /\ cpc = "keys" /\ Comes("Tracer", "reported")
            /\ CombinerTo(IF next = N3 - 1 THEN "commitments" ELSE cpc,
                          bound, backlog, admitted,
                          <<(next + 1) % N3, commitments, sigmas, challenged, challenge>>,
                          <<IF next = N3 - 1
                              THEN fields \cup {"tracer_pks"} \cup finalize_group_key.fills
                              ELSE fields, step>>)
            => CombinerStep
         /\ cpc = "keys" /\ ~Comes("Tracer", "reported") /\ Stops => CombinerStep
         /\ cpc = "commitments" /\ Comes("Signer", "committed")
            /\ CombinerTo(IF next = N - 1 THEN "parameters" ELSE cpc, bound, backlog, admitted,
                          <<(next + 1) % N, commitments \cup {next}, sigmas, challenged,
                            challenge>>, pipeVars)
            => CombinerStep
         /\ cpc = "commitments" /\ ~Comes("Signer", "committed") /\ Stops => CombinerStep
         /\ cpc = "sigmas" /\ Comes("Signer", "signed")
            /\ CombinerTo(IF next = N - 1 THEN "proof" ELSE cpc, bound, backlog, admitted,
                          <<(next + 1) % N, commitments, sigmas \cup {next}, challenged,
                            challenge>>, <<fields, 0>>)
            => CombinerStep
         /\ cpc = "sigmas" /\ ~Comes("Signer", "signed") /\ Stops => CombinerStep
<1> USE DEF IInv, Links, Indexed, CombinerCan, CombinerTo, Stops, Comes, Decided,
            CombinerUnchanged, TurnOver, Arrived, Refused, vars, roundVars, pipeVars
<1>1. ASSUME cpc = "keys", Comes("Tracer", "reported"),
             CombinerTo(IF next = N3 - 1 THEN "commitments" ELSE cpc,
                        bound, backlog, admitted,
                        <<(next + 1) % N3, commitments, sigmas, challenged, challenge>>,
                        <<IF next = N3 - 1
                            THEN fields \cup {"tracer_pks"} \cup finalize_group_key.fills
                            ELSE fields, step>>)
      PROVE  LoadTracerKey
  BY <1>1 DEF LoadTracerKey
<1>2. ASSUME cpc = "keys", ~Comes("Tracer", "reported"), Stops
      PROVE  LoadTracerKey
  BY <1>2 DEF LoadTracerKey
<1>3. ASSUME cpc = "commitments", Comes("Signer", "committed"),
             CombinerTo(IF next = N - 1 THEN "parameters" ELSE cpc, bound, backlog, admitted,
                        <<(next + 1) % N, commitments \cup {next}, sigmas, challenged,
                          challenge>>, pipeVars)
      PROVE  LoadCommitment
  BY <1>3 DEF LoadCommitment
<1>4. ASSUME cpc = "commitments", ~Comes("Signer", "committed"), Stops
      PROVE  LoadCommitment
  BY <1>4 DEF LoadCommitment
<1>5. ASSUME cpc = "sigmas", Comes("Signer", "signed"),
             CombinerTo(IF next = N - 1 THEN "proof" ELSE cpc, bound, backlog, admitted,
                        <<(next + 1) % N, commitments, sigmas \cup {next}, challenged,
                          challenge>>, <<fields, 0>>)
      PROVE  LoadSigma
  BY <1>5 DEF LoadSigma
<1>6. ASSUME cpc = "sigmas", ~Comes("Signer", "signed"), Stops
      PROVE  LoadSigma
  BY <1>6 DEF LoadSigma
<1> HIDE DEF IInv, CombinerCan, CombinerTo, Stops, Comes
<1> QED BY <1>1, <1>2, <1>3, <1>4, <1>5, <1>6 DEF CombinerStep

\* No field a computation step reads is empty, so that it is done and not a
\* panic.
LEMMA ComputeCanIsEnough ==
  ASSUME IInv
  PROVE  /\ cpc = "parameters" /\ step < 4
            /\ CombinerTo(cpc, bound, backlog, admitted, roundVars,
                          <<fields \cup ChallengeSteps[step + 1].fills, step + 1>>)
            => CombinerStep
         /\ cpc = "parameters" /\ step = 4
            /\ CombinerTo("challenge", bound, backlog, admitted,
                          <<next, commitments, sigmas, challenged, clock>>, pipeVars)
            => CombinerStep
         /\ cpc = "challenge"
            /\ CombinerTo(IF next = N - 1 THEN "sigmas" ELSE cpc, bound, backlog, admitted,
                          <<(next + 1) % N, commitments, sigmas,
                            challenged \cup {Link("Signer", next)}, challenge>>, pipeVars)
            => CombinerStep
         /\ cpc = "proof" /\ step < 11
            /\ CombinerTo(cpc, bound, backlog, admitted, roundVars,
                          <<fields \cup ProofSteps[step + 1].fills, step + 1>>)
            => CombinerStep
         /\ cpc = "proof" /\ step = 11
            /\ CombinerTo("exited", bound, backlog, admitted, roundVars, pipeVars)
            => CombinerStep
         /\ cpc = "parameters" => step \in 0 .. 4
         /\ cpc = "proof" => step \in 0 .. 11
<1> USE StepCounts DEF CombinerTo, CombinerUnchanged, vars
<1>0. /\ cpc = "parameters" => step \in 0 .. 4
      /\ cpc = "proof" => step \in 0 .. 11
  BY DEF IInv, Computed
<1>1. ASSUME cpc = "parameters", step < 4,
             CombinerTo(cpc, bound, backlog, admitted, roundVars,
                        <<fields \cup ChallengeSteps[step + 1].fills, step + 1>>)
      PROVE  ComputeParameters
  <2>1. step \in 0 .. 3 /\ fields = Base \cup ChallengeFills(step)
    BY <1>0, <1>1 DEF IInv, Computed
  <2>2. ChallengeSteps[step + 1].needs \subseteq
          Base \cup {"commitments"} \cup ChallengeFills(step)
    BY <2>1, ChallengeOrder
  <2>3. ChallengeSteps[step + 1].needs \subseteq Filled
    BY <1>1, <2>1, <2>2, FilledFields DEF IInv
  <2> QED BY <1>1, <2>3 DEF ComputeParameters, Compute, pipeVars
<1>2. ASSUME cpc = "parameters", step = 4,
             CombinerTo("challenge", bound, backlog, admitted,
                        <<next, commitments, sigmas, challenged, clock>>, pipeVars)
      PROVE  BroadcastStart
  BY <1>2 DEF BroadcastStart, roundVars
<1>3. ASSUME cpc = "challenge",
             CombinerTo(IF next = N - 1 THEN "sigmas" ELSE cpc, bound, backlog, admitted,
                        <<(next + 1) % N, commitments, sigmas,
                          challenged \cup {Link("Signer", next)}, challenge>>, pipeVars)
      PROVE  SendChallenge
  BY <1>3 DEF SendChallenge, TurnOver, IInv, Links, Indexed, roundVars
<1>4. ASSUME cpc = "proof", step < 11,
             CombinerTo(cpc, bound, backlog, admitted, roundVars,
                        <<fields \cup ProofSteps[step + 1].fills, step + 1>>)
      PROVE  ComputeProof
  <2>1. step \in 0 .. 10 /\ fields = Base \cup ChallengeFills(4) \cup ProofFills(step)
    BY <1>0, <1>4 DEF IInv, Computed
  <2>2. ProofSteps[step + 1].needs \subseteq
          Base \cup {"commitments", "sigmas"} \cup ChallengeFills(4) \cup ProofFills(step)
    BY <2>1, ProofOrder
  <2>3. ProofSteps[step + 1].needs \subseteq Filled
    BY <1>4, <2>1, <2>2, FilledFields DEF IInv
  <2> QED BY <1>4, <2>3 DEF ComputeProof, Compute, pipeVars
<1>5. ASSUME cpc = "proof", step = 11,
             CombinerTo("exited", bound, backlog, admitted, roundVars, pipeVars)
      PROVE  Finish
  BY <1>5 DEF Finish
<1> HIDE DEF CombinerTo
<1> QED BY <1>0, <1>1, <1>2, <1>3, <1>4, <1>5 DEF CombinerStep

\* The last tracer's bind ends one way or the other.
MeshTo(gone, up) ==
  vars' = <<clock, <<at, gone, stamp>>, cpc, bound, backlog, admitted,
            <<binds, meshBinds, up>>, roundVars, pipeVars>>

LEMMA MeshCanIsEnough ==
  ASSUME IInv, MeshCan
  PROVE  /\ meshBinds < BindAttempts /\ MeshTo(down, TRUE) => MeshBound
         /\ meshBinds = BindAttempts /\ MeshTo(down \cup {Tracer(0)}, meshUp) => MeshBindFails
         /\ meshBinds <= BindAttempts
<1>1. meshBinds <= BindAttempts
  BY SigningAssumption DEF IInv, Links, Shape
<1>2. Tracer(0) \in Tracers
  BY ClientFacts, SigningAssumption DEF TracerIds
<1>3. ASSUME meshBinds < BindAttempts, MeshTo(down, TRUE)
      PROVE  MeshBound
  BY <1>3 DEF MeshBound, MeshCan, MeshTo, vars, clientVars, bindVars
<1>4. ASSUME meshBinds = BindAttempts, MeshTo(down \cup {Tracer(0)}, meshUp)
      PROVE  MeshBindFails
  BY <1>2, <1>4 DEF MeshBindFails, MeshCan, MeshTo, vars, clientVars, bindVars
<1> QED BY <1>1, <1>3, <1>4

\* With a link in every slot the house is full.
LEMMA EverySlotIsFull ==
  ASSUME Links, EverySlot("Signer", Ids), EverySlot("Tracer", TracerIds)
  PROVE  Cardinality(admitted) = expected_connections
<1> DEFINE T == 1 .. N + N3
           Slot(c) == IF c.role = "Signer" THEN c.id + 1 ELSE N + c.id + 1
           f == [c \in admitted |-> Slot(c)]
<1>1. \A c \in admitted : \/ c.role = "Signer" /\ c.id \in 0 .. N - 1
                          \/ c.role = "Tracer" /\ c.id \in 0 .. N3 - 1
  BY ClientFacts DEF Links, Shape, Ids, TracerIds
<1>2. \A c \in admitted : Slot(c) \in T
  BY <1>1, SigningAssumption
<1>3. \A c, d \in admitted : Slot(c) = Slot(d) => c = d
  BY <1>1, SigningAssumption DEF Links, OneLinkPerSlot
<1>4. ASSUME NEW t \in T
      PROVE  \E c \in admitted : Slot(c) = t
  <2>1. CASE t <= N
    <3>1. t - 1 \in Ids
      BY <2>1, SigningAssumption DEF Ids
    <3>2. PICK c \in admitted : c.role = "Signer" /\ c.id = t - 1
      BY <3>1 DEF EverySlot
    <3> QED BY <3>2, SigningAssumption
  <2>2. CASE ~(t <= N)
    <3>1. t - N - 1 \in TracerIds
      BY <2>2, SigningAssumption DEF TracerIds
    <3>2. PICK c \in admitted : c.role = "Tracer" /\ c.id = t - N - 1
      BY <3>1 DEF EverySlot
    <3> QED BY <3>2, SigningAssumption
  <2> QED BY <2>1, <2>2
<1>5. f \in Bijection(admitted, T)
  BY <1>2, <1>3, <1>4 DEF Bijection, Injection, IsInjective, Surjection
<1>6. IsFiniteSet(T) /\ Cardinality(T) = expected_connections
  BY FS_Interval, SigningAssumption DEF expected_connections
<1> HIDE DEF T
<1>7. ExistsBijection(admitted, T)
  BY <1>5 DEF ExistsBijection
<1> QED BY <1>6, <1>7, FS_Bijection DEF Links, Counted

\* Somebody can go on until the Combiner has ended and every signer has given
\* its share or ended, or has yet to find a Combiner: whoever dies, and
\* whatever expires or comes from an earlier run, no process waits for one
\* that is gone, nor two for each other.  The exceptions are a participant
\* that died before it got through, and a tracer that died before the mesh
\* was up.
THEOREM NobodyStuckTheorem == Spec => []NobodyStuck
<1>1. ASSUME IInv, Arrivals, ~SomebodyCan, ~Missed
      PROVE  AllEnded
  <2>1. \A c \in Clients : ~ClientCan(c)
    BY <1>1 DEF SomebodyCan
  <2>2. \A c \in Tracers : c \in Clients /\ c \notin SignerLike
    BY RolesApart DEF Clients
  <2>3. \A c \in SignerLike : c \in Clients /\ c \notin Tracers
    BY <2>2 DEF Clients, SignerLike
  <2>4. ASSUME cpc = "accept" PROVE FALSE
    <3>1. Cardinality(admitted) # expected_connections
      BY <1>1, <2>4 DEF SomebodyCan, CombinerCan
    <3>2. backlog \in Seq(Clients)
      BY <1>1 DEF IInv, Links, Shape
    <3>3. backlog = <<>>
      <4> SUFFICES ASSUME backlog # <<>> PROVE FALSE
        OBVIOUS
      <4>1. at[Head(backlog)] = "connected" /\ Head(backlog) \notin down
        BY <1>1, <2>4 DEF SomebodyCan, CombinerCan
      <4>2. Head(backlog) \in Clients
        BY <3>2
      <4> QED BY <2>1, <4>1, <4>2 DEF ClientCan
    <3>4. Pending = {}
      BY <3>3 DEF Pending, Members
    <3>5. PICK c \in Signers \cup Tracers : ~Slotted(c)
      <4>1. ~EverySlot("Signer", Ids) \/ ~EverySlot("Tracer", TracerIds)
        BY <1>1, <3>1, EverySlotIsFull DEF IInv
      <4>2. CASE ~EverySlot("Signer", Ids)
        <5>1. PICK i \in Ids : ~\E d \in admitted : d.role = "Signer" /\ d.id = i
          BY <4>2 DEF EverySlot
        <5>2. Signer(i) \in Signers /\ Signer(i).role = "Signer" /\ Signer(i).id = i
          BY ClientFacts
        <5> QED BY <5>1, <5>2 DEF Slotted
      <4>3. CASE ~EverySlot("Tracer", TracerIds)
        <5>1. PICK i \in TracerIds : ~\E d \in admitted : d.role = "Tracer" /\ d.id = i
          BY <4>3 DEF EverySlot
        <5>2. Tracer(i) \in Tracers /\ Tracer(i).role = "Tracer" /\ Tracer(i).id = i
          BY ClientFacts
        <5> QED BY <5>1, <5>2 DEF Slotted
      <4> QED BY <4>1, <4>2, <4>3
    <3>6. c \in Clients /\ at[c] = "dialing"
      BY <1>1, <3>4, <3>5 DEF Arrivals, GotThrough, Clients
    <3>7. bound /\ ~CombinerEnded
      BY <1>1, <2>4 DEF Arrivals, Asked, CombinerEnded
    <3>8. c \in down
      BY <2>1, <3>6, <3>7 DEF ClientCan
    <3> QED BY <1>1, <3>5, <3>6, <3>8 DEF Missed
  <2>5. ASSUME cpc = "keys" PROVE FALSE
    <3>1. next \in TracerIds
      BY <1>1, <2>5, SigningAssumption DEF IInv, Links, Shape, Indexed, TracerIds
    <3>2. \A c \in Tracers : c \in admitted
      BY <1>1, <2>5, GenuineTracer, ClientFacts DEF IInv, Beyond
    <3>3. Link("Tracer", next) = Tracer(next) /\ Tracer(next) \in Tracers
      BY <1>1, <2>5, <3>1, GenuineTracer, ClientFacts DEF IInv, Beyond
    <3>4. at[Tracer(next)] # "reported" /\ Tracer(next) \notin down
      BY <1>1, <2>5, <3>3 DEF SomebodyCan, CombinerCan, Decided
    <3>5. at[Tracer(next)] = "helloed"
      BY <1>1, <3>2, <3>3, <3>4 DEF Arrivals, Greeted, InRole
    <3>6. ~meshUp
      BY <2>1, <2>2, <3>3, <3>4, <3>5 DEF ClientCan
    <3>7. \A c \in Tracers : c \notin down /\ at[c] = "helloed"
      BY <1>1, <3>2, <3>6 DEF Missed, Arrivals, Greeted, InRole
    <3> QED BY <1>1, <3>6, <3>7 DEF SomebodyCan, MeshCan
  <2>6. ASSUME cpc \in {"commitments", "sigmas"} PROVE FALSE
    <3>1. next \in Ids
      BY <1>1, <2>6, SigningAssumption DEF IInv, Links, Shape, Indexed, Ids
    <3>2. PICK c \in Clients : c = Link("Signer", next) /\ c \in admitted /\ c.role = "Signer"
      BY <1>1, <2>6, <3>1, LinkOf DEF IInv, Links, Full, EverySlot, Beyond, Shape
    <3>3. c \in SignerLike /\ c \notin Tracers
      BY <2>2, <3>2, ClientFacts, SigningAssumption DEF Clients, SignerLike
    <3>4. /\ c \notin down
          /\ cpc = "commitments" => at[c] # "committed"
          /\ cpc = "sigmas" => at[c] # "signed"
      BY <1>1, <2>6, <3>2 DEF SomebodyCan, CombinerCan, Decided
    <3>5. at[c] \in {"helloed", "committed", "signed"}
      BY <1>1, <3>2, <3>3 DEF IInv, Links, Shape, Arrivals, Greeted, InRole
    <3>6. at[c] # "helloed"
      BY <2>1, <3>3, <3>4 DEF ClientCan
    <3>7. CASE cpc = "commitments"
      <4>1. c \in challenged
        BY <1>1, <3>3, <3>4, <3>5, <3>6, <3>7 DEF IInv, Attested, Shares
      <4>2. commitments = Ids /\ commitments = 0 .. next - 1
        BY <1>1, <3>7, <4>1 DEF IInv, Attested, Committed
      <4>3. next \in Nat /\ next \in 0 .. next - 1
        BY <3>1, <4>2, SigningAssumption DEF Ids
      <4> QED BY <4>3
    <3>8. CASE cpc = "sigmas"
      <4>1. c \in challenged
        BY <1>1, <3>2, <3>8 DEF Arrivals, Asked
      <4> QED BY <2>1, <3>4, <3>5, <3>6, <3>8, <4>1 DEF ClientCan
    <3> QED BY <2>6, <3>7, <3>8
  <2>7. CombinerEnded
    BY <1>1, <2>4, <2>5, <2>6
       DEF SomebodyCan, CombinerCan, CombinerEnded, IInv, Links, Shape, Stages
  <2>8. ASSUME NEW c \in Signers, c \notin down
        PROVE  at[c] \in {"signed", "dialing"}
    <3>1. c \in SignerLike /\ c \in Clients /\ c \notin Tracers
      BY <2>3 DEF SignerLike
    <3>2. ~ClientCan(c) /\ LinkClosed(c)
      BY <2>1, <2>7, <3>1 DEF LinkClosed
    <3>3. at[c] \in {"dialing", "connected", "helloed", "committed", "signed"}
      BY <1>1, <3>1 DEF IInv, Links, Shape, Arrivals, InRole
    <3> QED BY <2>8, <3>1, <3>2, <3>3 DEF ClientCan
  <2> QED BY <2>7, <2>8 DEF AllEnded
<1> QED BY <1>1, Inductive, ArrivalsInvariant, PTL DEF NobodyStuck
=============================================================================

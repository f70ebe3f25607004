-------------------------- MODULE TracerDkgProofs ---------------------------
(***************************************************************************)
(* What TracerDkg guarantees for every number of tracers, every clock      *)
(* bound and expiry age, any defective broadcasts and shares, and crashes  *)
(* of any process at any moment.                                           *)
(***************************************************************************)
EXTENDS TracerDkg, FiniteSetTheorems, TLAPS

-----------------------------------------------------------------------------
(* What the threshold formulas guarantee for every number of signers and   *)
(* tracers the Authority accepts (it rejects 0 of either).                 *)

\* The signer threshold is reachable (1 <= t <= n) and a strict majority.
THEOREM SignerThresholdRange ==
  ASSUME NEW n \in Nat \ {0}
  PROVE  /\ signer_threshold(n) \in 1 .. n
         /\ 2 * signer_threshold(n) > n
BY DEF signer_threshold

\* The tracer threshold is reachable (1 <= t_e <= n_3) and exceeds 2/3.
THEOREM TracerThresholdRange ==
  ASSUME NEW n3 \in Nat \ {0}
  PROVE  /\ tracer_threshold(n3) \in 1 .. n3
         /\ 3 * tracer_threshold(n3) > 2 * n3
BY DEF tracer_threshold

\* Two subsets of S overlap in at least |A| + |B| - |S| elements.
LEMMA Overlap ==
  ASSUME NEW S, IsFiniteSet(S), NEW A \in SUBSET S, NEW B \in SUBSET S
  PROVE  /\ Cardinality(A \cap B) \in Nat
         /\ Cardinality(A \cap B) >= Cardinality(A) + Cardinality(B) - Cardinality(S)
<1>1. IsFiniteSet(A) /\ IsFiniteSet(B)
  BY FS_Subset
<1>2. Cardinality(A \cup B) = Cardinality(A) + Cardinality(B) - Cardinality(A \cap B)
  BY <1>1, FS_Union
<1>3. Cardinality(A \cup B) <= Cardinality(S)
  BY FS_Subset
<1>4. /\ Cardinality(A) \in Nat
      /\ Cardinality(B) \in Nat
      /\ Cardinality(A \cap B) \in Nat
      /\ Cardinality(A \cup B) \in Nat
      /\ Cardinality(S) \in Nat
  BY <1>1, FS_Subset, FS_Union, FS_Intersection, FS_CardinalityType
<1> QED BY <1>2, <1>3, <1>4

\* Two sets of t signers always share a signer, whatever n is.
THEOREM SignerQuorumsIntersect ==
  ASSUME NEW n \in Nat \ {0}, NEW S, IsFiniteSet(S), Cardinality(S) = n,
         NEW A \in Quorums(S, signer_threshold(n)),
         NEW B \in Quorums(S, signer_threshold(n))
  PROVE  A \cap B # {}
<1>1. A \in SUBSET S /\ B \in SUBSET S
  BY DEF Quorums
<1>2. /\ Cardinality(A) >= signer_threshold(n)
      /\ Cardinality(B) >= signer_threshold(n)
  BY DEF Quorums
<1>3. /\ signer_threshold(n) \in Int
      /\ 2 * signer_threshold(n) > n
  BY SignerThresholdRange
<1>4. Cardinality(A) \in Nat /\ Cardinality(B) \in Nat
  BY <1>1, FS_Subset, FS_CardinalityType
<1>5. Cardinality(A \cap B) \in Nat /\ Cardinality(A \cap B) >= 1
  BY <1>1, <1>2, <1>3, <1>4, Overlap
<1>6. Cardinality({}) = 0
  BY FS_EmptySet
<1> QED BY <1>5, <1>6

\* Two sets of t_e tracers share more than a third of the tracers: if fewer
\* than n_3 / 3 misbehave, they share one that does not.
THEOREM TracerQuorumsOverlap ==
  ASSUME NEW n3 \in Nat \ {0}, NEW S, IsFiniteSet(S), Cardinality(S) = n3,
         NEW A \in Quorums(S, tracer_threshold(n3)),
         NEW B \in Quorums(S, tracer_threshold(n3))
  PROVE  3 * Cardinality(A \cap B) > n3
<1>1. A \in SUBSET S /\ B \in SUBSET S
  BY DEF Quorums
<1>2. /\ Cardinality(A) >= tracer_threshold(n3)
      /\ Cardinality(B) >= tracer_threshold(n3)
  BY DEF Quorums
<1>3. /\ tracer_threshold(n3) \in Int
      /\ 3 * tracer_threshold(n3) > 2 * n3
  BY TracerThresholdRange
<1>4. Cardinality(A) \in Nat /\ Cardinality(B) \in Nat
  BY <1>1, FS_Subset, FS_CardinalityType
<1>5. /\ Cardinality(A \cap B) \in Nat
      /\ Cardinality(A \cap B) >= Cardinality(A) + Cardinality(B) - n3
  BY <1>1, Overlap
<1> QED BY <1>2, <1>3, <1>4, <1>5

-----------------------------------------------------------------------------
(* Types *)

LEMMA InitTypeOK == Init => TypeOK
BY DkgAssumption DEF Init, TypeOK, Tracers, Time, Packages, Booted, Traced

LEMMA NextTypeOK == TypeOK /\ [Next]_vars => TypeOK'
<1> SUFFICES ASSUME TypeOK, [Next]_vars
             PROVE  TypeOK'
  OBVIOUS
<1> USE DkgAssumption DEF TypeOK, Booted, Round1, Seal, Round2, Finalize,
        Reported, Accepted, Round3, Combine, Traced
<1>1. ASSUME NEW k \in Tracers, TracerStep(k)
      PROVE  TypeOK'
  <2> USE DEF At, Stamped, Packages, combinerVars
  <2>1. CASE StartDkg(k)
    BY <2>1 DEF StartDkg
  <2>2. CASE LoadRound1(k)
    BY <2>2 DEF LoadRound1
  <2>3. CASE SendShares(k)
    BY <2>3 DEF SendShares
  <2>4. CASE LoadShares(k)
    BY <2>4 DEF LoadShares
  <2>5. CASE FinalizeDkg(k)
    <3>1. CASE Cardinality(qual[k]) >= MinQual
      BY <2>5, <3>1 DEF FinalizeDkg
    <3>2. CASE ~(Cardinality(qual[k]) >= MinQual)
      BY <2>5, <3>2 DEF FinalizeDkg
    <3> QED BY <3>1, <3>2
  <2>6. CASE LoadAttestation(k)
    BY <2>6 DEF LoadAttestation
  <2>7. CASE SendPartials(k)
    BY <2>7 DEF SendPartials
  <2>8. CASE OpenPartials(k)
    BY <2>8 DEF OpenPartials
  <2>9. CASE CombineAndTrace(k)
    BY <2>9 DEF CombineAndTrace
  <2>10. CASE ExitOnPeer(k)
    BY <2>10 DEF ExitOnPeer
  <2>11. CASE ExitOnCombiner(k)
    BY <2>11 DEF ExitOnCombiner
  <2> QED BY <1>1, <2>1, <2>2, <2>3, <2>4, <2>5, <2>6, <2>7, <2>8, <2>9,
             <2>10, <2>11 DEF TracerStep
<1>2. ASSUME NEW k \in Tracers, Crash(k)
      PROVE  TypeOK'
  BY <1>2 DEF Crash, combinerVars
<1>3. CASE CombinerStep
  <2> USE DEF tracerVars
  <2>1. CASE LoadTracerPublicKey
    <3>1. next \in Tracers /\ next + 1 \in 0 .. N3
      BY <2>1 DEF LoadTracerPublicKey, Tracers
    <3>2. tracer_pks' \in SUBSET Tracers
      BY <2>1, <3>1 DEF LoadTracerPublicKey
    <3>3. next' \in 0 .. N3
      BY <2>1, <3>1 DEF LoadTracerPublicKey
    <3> QED BY <2>1, <3>2, <3>3 DEF LoadTracerPublicKey
  <2>2. CASE FinalizeGroupKey
    BY <2>2 DEF FinalizeGroupKey
  <2>3. CASE Sign
    BY <2>3 DEF Sign
  <2>4. CASE SendAttestation
    <3>1. next \in Tracers /\ next + 1 \in 0 .. N3
      BY <2>4 DEF SendAttestation, Tracers
    <3>2. attested' \in SUBSET Tracers
      BY <2>4, <3>1 DEF SendAttestation
    <3>3. next' \in 0 .. N3
      BY <2>4, <3>1 DEF SendAttestation
    <3> QED BY <2>4, <3>2, <3>3 DEF SendAttestation
  <2>5. CASE CombinerExit
    BY <2>5 DEF CombinerExit
  <2> QED BY <1>3, <2>1, <2>2, <2>3, <2>4, <2>5 DEF CombinerStep
<1>4. CASE CombinerCrash
  BY <1>4 DEF CombinerCrash, tracerVars
<1>5. CASE Tick
  BY <1>5 DEF Tick, tracerVars, combinerVars, Time
<1>6. CASE UNCHANGED vars
  BY <1>6 DEF vars, tracerVars, combinerVars
<1> QED BY <1>1, <1>2, <1>3, <1>4, <1>5, <1>6 DEF Next

\* Every variable keeps its type.
THEOREM TypeCorrect == Spec => []TypeOK
BY InitTypeOK, NextTypeOK, PTL DEF Spec

-----------------------------------------------------------------------------
(* The inductive invariant.  AgreedGroupKey and TracedByAll are not         *)
(* inductive: that the group key is made of everybody's pk_k rests on the   *)
(* Combiner's loop having passed every tracer, and that a tracer's QUAL     *)
(* does not change any more on the rounds being barriers.                   *)

\* No tracer is through with a round that another has not entered.
Barrier ==
  \A k, p \in Tracers :
    /\ pc[k] > Round1 => pc[p] >= Round1
    /\ pc[k] > Round2 => pc[p] >= Round2
    /\ pc[k] > Round3 => pc[p] >= Round3

\* What the Combiner holds at each stage of its program.
Collected ==
  /\ cpc = "collect" => /\ tracer_pks = 0 .. next - 1
                        /\ \A k \in tracer_pks : pc[k] >= Reported
                        /\ pk_e = {}
  /\ cpc \in {"sign", "attest"} => pk_e # {}
  /\ attested # {} => pk_e # {}

IInv == TypeOK /\ Barrier /\ Collected /\ KeyFromEveryTracer /\ AgreedGroupKey

LEMMA InitIInv == Init => IInv
<1> SUFFICES ASSUME Init
             PROVE  IInv
  OBVIOUS
<1> USE DkgAssumption DEF Init, Booted, Round1, Round2, Round3, Reported, Accepted
<1>1. TypeOK
  BY InitTypeOK
<1>2. Barrier
  BY DEF Barrier
<1>3. Collected
  BY DEF Collected
<1>4. KeyFromEveryTracer /\ AgreedGroupKey
  BY DEF KeyFromEveryTracer, AgreedGroupKey
<1> QED BY <1>1, <1>2, <1>3, <1>4 DEF IInv

\* A tracer's step leaves the Combiner alone and no phase goes back.
LEMMA TracerForward ==
  ASSUME TypeOK, NEW k \in Tracers, TracerStep(k) \/ Crash(k)
  PROVE  /\ UNCHANGED combinerVars
         /\ \A p \in Tracers : pc'[p] >= pc[p]
         /\ \A p \in Tracers : p # k => pc'[p] = pc[p] /\ qual'[p] = qual[p]
         /\ pc[k] >= Finalize => qual'[k] = qual[k]
<1> USE DEF TypeOK, At, Booted, Round1, Seal, Round2, Finalize,
        Reported, Accepted, Round3, Combine, Traced
<1>1. CASE StartDkg(k)
  BY <1>1 DEF StartDkg
<1>2. CASE LoadRound1(k)
  BY <1>2 DEF LoadRound1
<1>3. CASE SendShares(k)
  BY <1>3 DEF SendShares
<1>4. CASE LoadShares(k)
  BY <1>4 DEF LoadShares
<1>5. CASE FinalizeDkg(k)
  <2>1. CASE Cardinality(qual[k]) >= MinQual
    BY <1>5, <2>1 DEF FinalizeDkg
  <2>2. CASE ~(Cardinality(qual[k]) >= MinQual)
    BY <1>5, <2>2 DEF FinalizeDkg
  <2> QED BY <2>1, <2>2
<1>6. CASE LoadAttestation(k)
  <2>1. CASE Acceptable(k)
    BY <1>6, <2>1 DEF LoadAttestation
  <2>2. CASE ~Acceptable(k)
    BY <1>6, <2>2 DEF LoadAttestation
  <2> QED BY <2>1, <2>2
<1>7. CASE SendPartials(k)
  BY <1>7 DEF SendPartials
<1>8. CASE OpenPartials(k)
  BY <1>8, SMTT(60) DEF OpenPartials
<1>9. CASE CombineAndTrace(k)
  <2>1. CASE Cardinality(ValidPartials(k)) >= te
    BY <1>9, <2>1 DEF CombineAndTrace
  <2>2. CASE ~(Cardinality(ValidPartials(k)) >= te)
    BY <1>9, <2>2 DEF CombineAndTrace
  <2> QED BY <2>1, <2>2
<1>10. CASE ExitOnPeer(k)
  <2>1. UNCHANGED <<pc, qual, combinerVars>>
    BY <1>10 DEF ExitOnPeer
  <2> QED BY <2>1
<1>11. CASE ExitOnCombiner(k)
  BY <1>11 DEF ExitOnCombiner
<1>12. CASE Crash(k)
  BY <1>12 DEF Crash
<1> QED BY <1>1, <1>2, <1>3, <1>4, <1>5, <1>6, <1>7, <1>8, <1>9, <1>10, <1>11,
           <1>12 DEF TracerStep

\* The three exchanges are the only steps that pass a barrier.
LEMMA BarrierStep ==
  ASSUME TypeOK, Barrier, NEW k \in Tracers, TracerStep(k) \/ Crash(k)
  PROVE  Barrier'
<1> USE DEF TypeOK, At, AllEntered, Barrier, Booted, Round1, Seal, Round2, Finalize,
        Reported, Accepted, Round3, Combine, Traced
<1>1. CASE StartDkg(k)
  BY <1>1 DEF StartDkg
<1>2. CASE LoadRound1(k)
  BY <1>2 DEF LoadRound1
<1>3. CASE SendShares(k)
  BY <1>3 DEF SendShares
<1>4. CASE LoadShares(k)
  BY <1>4 DEF LoadShares
<1>5. CASE FinalizeDkg(k)
  <2>1. CASE Cardinality(qual[k]) >= MinQual
    BY <1>5, <2>1 DEF FinalizeDkg
  <2>2. CASE ~(Cardinality(qual[k]) >= MinQual)
    BY <1>5, <2>2 DEF FinalizeDkg
  <2> QED BY <2>1, <2>2
<1>6. CASE LoadAttestation(k)
  <2>1. CASE Acceptable(k)
    BY <1>6, <2>1 DEF LoadAttestation
  <2>2. CASE ~Acceptable(k)
    BY <1>6, <2>2 DEF LoadAttestation
  <2> QED BY <2>1, <2>2
<1>7. CASE SendPartials(k)
  BY <1>7 DEF SendPartials
<1>8. CASE OpenPartials(k)
  BY <1>8 DEF OpenPartials
<1>9. CASE CombineAndTrace(k)
  BY <1>9 DEF CombineAndTrace
<1>10. CASE ExitOnPeer(k)
  BY <1>10 DEF ExitOnPeer
<1>11. CASE ExitOnCombiner(k)
  BY <1>11 DEF ExitOnCombiner
<1>12. CASE Crash(k)
  BY <1>12 DEF Crash
<1> QED BY <1>1, <1>2, <1>3, <1>4, <1>5, <1>6, <1>7, <1>8, <1>9, <1>10, <1>11,
           <1>12 DEF TracerStep

\* Only LoadAttestation makes a tracer accept, and it compares the keys.
LEMMA AcceptStep ==
  ASSUME TypeOK, AgreedGroupKey, NEW k \in Tracers, TracerStep(k) \/ Crash(k)
  PROVE  AgreedGroupKey'
<1>1. /\ UNCHANGED combinerVars
      /\ \A p \in Tracers : p # k => pc'[p] = pc[p] /\ qual'[p] = qual[p]
      /\ pc[k] >= Finalize => qual'[k] = qual[k]
  BY TracerForward
<1>2. UNCHANGED <<attested, pk_e>>
  BY <1>1 DEF combinerVars
<1> SUFFICES ASSUME pc'[k] >= Accepted
             PROVE  k \in attested /\ qual'[k] = pk_e
  BY <1>1, <1>2 DEF AgreedGroupKey
<1> USE DEF TypeOK, At, Booted, Round1, Seal, Round2, Finalize,
        Reported, Accepted, Round3, Combine, Traced
<1>3. CASE pc[k] >= Accepted
  BY <1>1, <1>3 DEF AgreedGroupKey
<1>4. CASE pc[k] < Accepted
  <2>1. LoadAttestation(k)
    BY <1>4 DEF TracerStep, StartDkg, LoadRound1, SendShares, LoadShares,
       FinalizeDkg, SendPartials, OpenPartials, CombineAndTrace, ExitOnPeer,
       ExitOnCombiner, Crash
  <2> QED BY <1>4, <2>1 DEF LoadAttestation, Acceptable
<1> QED BY <1>3, <1>4

LEMMA NextIInv == IInv /\ [Next]_vars => IInv'
<1> SUFFICES ASSUME IInv, [Next]_vars
             PROVE  IInv'
  OBVIOUS
<1>1. TypeOK'
  BY NextTypeOK DEF IInv
<1> USE DkgAssumption DEF IInv
<1>2. ASSUME NEW k \in Tracers, TracerStep(k) \/ Crash(k)
      PROVE  Barrier' /\ Collected' /\ KeyFromEveryTracer' /\ AgreedGroupKey'
  <2>1. /\ UNCHANGED combinerVars
        /\ \A p \in Tracers : pc'[p] >= pc[p]
    BY <1>2, TracerForward
  <2>2. \A p \in Tracers : pc[p] >= Reported => pc'[p] >= Reported
    <3>1. \A p \in Tracers : pc[p] \in Int /\ pc'[p] \in Int
      <4>1. pc \in [Tracers -> 0 .. 9] /\ pc' \in [Tracers -> 0 .. 9]
        BY <1>1 DEF TypeOK, Booted, Traced
      <4> QED BY <4>1
    <3> QED BY <2>1, <3>1 DEF Reported
  <2>3. Barrier'
    BY <1>2, BarrierStep
  <2>4. Collected'
    BY <2>1, <2>2 DEF Collected, combinerVars, TypeOK
  <2>5. KeyFromEveryTracer'
    BY <2>1, <2>2 DEF KeyFromEveryTracer, combinerVars
  <2>6. AgreedGroupKey'
    BY <1>2, AcceptStep
  <2> QED BY <2>3, <2>4, <2>5, <2>6
<1>3. ASSUME UNCHANGED tracerVars, UNCHANGED <<pk_e, attested>>
      PROVE  Barrier' /\ KeyFromEveryTracer' /\ AgreedGroupKey'
  BY <1>3 DEF tracerVars, Barrier, KeyFromEveryTracer, AgreedGroupKey
<1>4. CASE LoadTracerPublicKey
  <2>1. Barrier' /\ KeyFromEveryTracer' /\ AgreedGroupKey'
    BY <1>3, <1>4 DEF LoadTracerPublicKey
  <2>2. Collected'
    <3>1. CASE cpc' = "failed"
      BY <1>4, <3>1 DEF LoadTracerPublicKey, Collected, tracerVars
    <3>2. CASE cpc' # "failed"
      <4>1. /\ pc[next] >= Reported
            /\ tracer_pks' = tracer_pks \cup {next}
            /\ next' = next + 1
            /\ cpc = "collect" /\ cpc' = "collect"
            /\ UNCHANGED <<pc, pk_e, attested>>
        BY <1>4, <3>2 DEF LoadTracerPublicKey, tracerVars
      <4>2. tracer_pks = 0 .. next - 1 /\ next \in Nat
        BY <4>1 DEF Collected, TypeOK
      <4>3. tracer_pks' = 0 .. next' - 1
        BY <4>1, <4>2
      <4> QED BY <4>1, <4>3 DEF Collected
    <3> QED BY <3>1, <3>2
  <2> QED BY <1>1, <2>1, <2>2
<1>5. CASE FinalizeGroupKey
  <2>1. tracer_pks = Tracers /\ Tracers # {}
    <3>1. cpc = "collect" /\ next = N3
      BY <1>5 DEF FinalizeGroupKey
    <3>2. tracer_pks = 0 .. N3 - 1
      BY <3>1 DEF Collected
    <3>3. 0 \in 0 .. N3 - 1
      OBVIOUS
    <3> QED BY <3>2, <3>3 DEF Tracers
  <2>2. attested = {}
    BY <1>5 DEF FinalizeGroupKey, Collected
  <2>3. Barrier' /\ Collected' /\ KeyFromEveryTracer' /\ AgreedGroupKey'
    BY <1>5, <2>1, <2>2 DEF FinalizeGroupKey, Barrier, Collected,
       KeyFromEveryTracer, AgreedGroupKey, tracerVars
  <2> QED BY <1>1, <2>3
<1>6. CASE Sign
  <2>1. Barrier' /\ KeyFromEveryTracer' /\ AgreedGroupKey'
    BY <1>3, <1>6 DEF Sign
  <2>2. Collected'
    BY <1>6 DEF Sign, Collected, tracerVars
  <2> QED BY <1>1, <2>1, <2>2
<1>7. CASE SendAttestation
  <2>1. Barrier' /\ KeyFromEveryTracer' /\ AgreedGroupKey'
    BY <1>7 DEF SendAttestation, Barrier, KeyFromEveryTracer, AgreedGroupKey,
       tracerVars
  <2>2. Collected'
    BY <1>7 DEF SendAttestation, Collected, tracerVars
  <2> QED BY <1>1, <2>1, <2>2
<1>8. CASE CombinerExit \/ CombinerCrash
  <2>1. Barrier' /\ KeyFromEveryTracer' /\ AgreedGroupKey'
    BY <1>3, <1>8 DEF CombinerExit, CombinerCrash
  <2>2. Collected'
    BY <1>8 DEF CombinerExit, CombinerCrash, Collected, tracerVars
  <2> QED BY <1>1, <2>1, <2>2
<1>9. CASE Tick \/ UNCHANGED vars
  <2>1. UNCHANGED <<tracerVars, combinerVars>>
    BY <1>9 DEF Tick, vars
  <2>2. Barrier' /\ KeyFromEveryTracer' /\ AgreedGroupKey'
    BY <1>3, <2>1 DEF combinerVars
  <2>3. Collected'
    BY <2>1 DEF combinerVars, tracerVars, Collected
  <2> QED BY <1>1, <2>2, <2>3
<1> QED BY <1>1, <1>2, <1>4, <1>5, <1>6, <1>7, <1>8, <1>9 DEF Next, CombinerStep

LEMMA Inductive == Spec => []IInv
BY InitIInv, NextIInv, PTL DEF Spec

\* The group key exists only once every tracer finished the key generation,
\* and is made of every tracer's pk_k.
THEOREM KeyFromEveryTracerTheorem == Spec => []KeyFromEveryTracer
<1>1. IInv => KeyFromEveryTracer
  BY DEF IInv
<1> QED BY <1>1, Inductive, PTL

\* A tracer past the attestation holds the Combiner's group key.
THEOREM AgreedGroupKeyTheorem == Spec => []AgreedGroupKey
<1>1. IInv => AgreedGroupKey
  BY DEF IInv
<1> QED BY <1>1, Inductive, PTL

\* Nobody opens the quorum before every tracer accepted the proof with a QUAL
\* of all the tracers.
THEOREM TracedByAllTheorem == Spec => []TracedByAll
<1>1. IInv => TracedByAll
  <2> SUFFICES ASSUME IInv, NEW k \in Tracers, pc[k] = Traced, NEW p \in Tracers
               PROVE  pc[p] >= Round3 /\ qual[p] = Tracers
    BY DEF TracedByAll
  <2> USE DEF IInv, TypeOK, Accepted, Round3, Traced
  <2>1. pc[p] >= Round3
    BY DEF Barrier
  <2>2. p \in attested /\ qual[p] = pk_e
    BY <2>1 DEF AgreedGroupKey
  <2>3. pk_e = Tracers
    BY <2>2 DEF Collected, KeyFromEveryTracer
  <2> QED BY <2>1, <2>2, <2>3
<1> QED BY <1>1, Inductive, PTL

-----------------------------------------------------------------------------
(* Why a process fails.  Undisturbed, everybody holds what everybody sent.  *)

\* No package is postdated.
Stamps ==
  /\ \A k \in Tracers : \A x \in Packages : stamp[k][x] <= clock
  /\ attestation <= clock

\* What tracer k holds after each round.
Everything(k) ==
  /\ pc[k] >= Round1 => k \in broadcasts[k]
  /\ pc[k] >= Seal => broadcasts[k] = Tracers
  /\ pc[k] >= Finalize => qual[k] = Tracers
  /\ pc[k] >= Combine => partials[k] = Tracers

Smooth == ~Disturbed => /\ failed = {} /\ cpc # "failed"
                        /\ \A k \in Tracers : Everything(k)

WInv == IInv /\ Stamps /\ Smooth

\* All N3 tracers are enough of them for the QUAL and for the quorum.
LEMMA AllAreEnough ==
  /\ Cardinality(Tracers) >= MinQual
  /\ Cardinality(Tracers) >= te
<1>1. Cardinality(Tracers) = N3
  <2>1. Cardinality(0 .. N3 - 1) = N3 - 1 - 0 + 1
    BY DkgAssumption, FS_Interval
  <2> QED BY <2>1, DkgAssumption DEF Tracers
<1>2. te \in 1 .. N3
  BY DkgAssumption, TracerThresholdRange DEF te
<1> QED BY <1>1, <1>2, DkgAssumption

\* What was stamped is fresh as long as the clock has not passed MaxAge.
LEMMA UndisturbedFresh ==
  ASSUME TypeOK, Stamps, ~Disturbed
  PROVE  /\ \A k \in Tracers : \A x \in Packages : Fresh(stamp[k][x])
         /\ Fresh(attestation)
<1>1. clock \in Nat /\ clock <= MaxAge /\ attestation \in Nat
  BY DkgAssumption DEF TypeOK, Time, Disturbed
<1>2. \A k \in Tracers : \A x \in Packages : stamp[k][x] \in Nat
  BY DEF TypeOK, Time
<1> QED BY <1>1, <1>2, DkgAssumption DEF Stamps, Fresh

\* A tracer's step, undisturbed, fails nothing and leaves out nobody.
LEMMA SmoothStep ==
  ASSUME IInv, Stamps, failed = {}, cpc # "failed", \A p \in Tracers : Everything(p),
         ~Disturbed, NEW k \in Tracers, TracerStep(k)
  PROVE  failed' = {} /\ Everything(k)'
<1> USE DEF At, Booted, Round1, Seal, Round2, Finalize,
        Reported, Accepted, Round3, Combine, Traced
<1>0. /\ pc \in [Tracers -> 0 .. 9] /\ broadcasts \in [Tracers -> SUBSET Tracers]
      /\ qual \in [Tracers -> SUBSET Tracers] /\ partials \in [Tracers -> SUBSET Tracers]
      /\ \A p \in Tracers : \A x \in Packages : Fresh(stamp[p][x])
      /\ Fresh(attestation)
      /\ badShare = {} /\ BadBroadcast = {} /\ deaths = 0
  BY UndisturbedFresh, DkgAssumption DEF IInv, TypeOK, Disturbed
<1>1. CASE StartDkg(k)
  BY <1>0, <1>1 DEF StartDkg, Everything
<1>2. CASE LoadRound1(k)
  <2>1. broadcasts'[k] = Tracers
    BY <1>0, <1>2 DEF LoadRound1, Everything, Packages
  <2> QED BY <1>0, <1>2, <2>1 DEF LoadRound1, Everything
<1>3. CASE SendShares(k)
  BY <1>0, <1>3 DEF SendShares, Everything
<1>4. CASE LoadShares(k)
  <2>1. qual'[k] = Tracers
    BY <1>0, <1>4 DEF LoadShares, Everything, Packages
  <2> QED BY <1>0, <1>4, <2>1 DEF LoadShares, Everything
<1>5. CASE FinalizeDkg(k)
  <2>1. Cardinality(qual[k]) >= MinQual
    BY <1>5, AllAreEnough DEF FinalizeDkg, Everything
  <2> QED BY <1>0, <1>5, <2>1 DEF FinalizeDkg, Everything
<1>6. CASE LoadAttestation(k)
  <2>1. pk_e = Tracers
    BY <1>6 DEF LoadAttestation, IInv, Collected, KeyFromEveryTracer
  <2>2. Acceptable(k)
    BY <1>0, <1>6, <2>1 DEF LoadAttestation, Acceptable, Everything
  <2> QED BY <1>0, <1>6, <2>2 DEF LoadAttestation, Everything
<1>7. CASE SendPartials(k)
  BY <1>0, <1>7 DEF SendPartials, Everything
<1>8. CASE OpenPartials(k)
  <2>1. partials'[k] = Tracers
    BY <1>0, <1>8 DEF OpenPartials, Packages
  <2> QED BY <1>0, <1>8, <2>1 DEF OpenPartials, Everything
<1>9. CASE CombineAndTrace(k)
  <2>1. \A p \in Tracers : pc[p] >= Finalize
    BY <1>0, <1>9 DEF CombineAndTrace, IInv, Barrier
  <2>2. ValidPartials(k) = Tracers
    BY <1>9, <2>1 DEF CombineAndTrace, ValidPartials, Everything
  <2>3. Cardinality(ValidPartials(k)) >= te
    BY <2>2, AllAreEnough
  <2> QED BY <1>0, <1>9, <2>3 DEF CombineAndTrace, Everything
<1>10. CASE ExitOnPeer(k)
  BY <1>10 DEF ExitOnPeer
<1>11. CASE ExitOnCombiner(k)
  BY <1>11 DEF ExitOnCombiner
<1> QED BY <1>1, <1>2, <1>3, <1>4, <1>5, <1>6, <1>7, <1>8, <1>9, <1>10, <1>11
           DEF TracerStep

\* A package is stamped with the time it is sealed at, and time does not go back.
LEMMA StampsStep ==
  ASSUME TypeOK, Stamps, [Next]_vars
  PROVE  Stamps' /\ clock' >= clock
<1>1. clock \in Int
  BY DEF TypeOK, Time
<1>2. CASE UNCHANGED <<clock, stamp, attestation>>
  BY <1>1, <1>2 DEF Stamps
<1>3. ASSUME NEW k \in Tracers, NEW x \in Packages, Stamped(k, x),
             UNCHANGED <<clock, attestation>>
      PROVE  Stamps' /\ clock' >= clock
  BY <1>1, <1>3 DEF Stamped, Stamps, TypeOK
<1>4. ASSUME NEW k \in Tracers, TracerStep(k) \/ Crash(k)
      PROVE  \/ UNCHANGED <<clock, stamp, attestation>>
             \/ \E x \in Packages : Stamped(k, x) /\ UNCHANGED <<clock, attestation>>
  BY <1>4 DEF TracerStep, StartDkg, LoadRound1, SendShares, LoadShares, FinalizeDkg,
     LoadAttestation, SendPartials, OpenPartials, CombineAndTrace, ExitOnPeer,
     ExitOnCombiner, Crash, combinerVars, Packages
<1>5. CASE Sign
  BY <1>1, <1>5 DEF Sign, tracerVars, Stamps
<1>6. CASE Tick
  BY <1>1, <1>6, DkgAssumption DEF Tick, tracerVars, combinerVars, Stamps, TypeOK, Time
<1>7. CASE \/ LoadTracerPublicKey \/ FinalizeGroupKey \/ SendAttestation
           \/ CombinerExit \/ CombinerCrash \/ UNCHANGED vars
  BY <1>2, <1>7 DEF LoadTracerPublicKey, FinalizeGroupKey, SendAttestation,
     CombinerExit, CombinerCrash, vars, tracerVars, combinerVars
<1> QED BY <1>2, <1>3, <1>4, <1>5, <1>6, <1>7 DEF Next, CombinerStep

\* No process ends with an error unless one died, data does not verify, or
\* time has passed beyond what a package is valid for.
THEOREM FailsOnlyDisturbedTheorem == Spec => []FailsOnlyDisturbed
<1>1. Init => Stamps /\ Smooth
  BY DkgAssumption DEF Init, Stamps, Smooth, Everything, Booted, Round1, Seal,
     Finalize, Combine
<1>2. WInv /\ [Next]_vars => WInv'
  <2> SUFFICES ASSUME IInv, Stamps, Smooth, [Next]_vars
               PROVE  WInv'
    BY DEF WInv
  <2>1. IInv' /\ Stamps' /\ clock' >= clock
    BY NextIInv, StampsStep DEF IInv
  <2>2. deaths \in Nat /\ clock \in Int /\ clock' \in Int
    BY <2>1, DkgAssumption DEF IInv, TypeOK, Time
  <2> SUFFICES ASSUME ~Disturbed'
               PROVE  /\ failed' = {} /\ cpc' # "failed"
                      /\ \A k \in Tracers : Everything(k)'
    BY <2>1 DEF WInv, Smooth
  <2>3. ASSUME ~Disturbed
        PROVE  /\ failed = {} /\ cpc # "failed"
               /\ \A k \in Tracers : Everything(k)
    BY <2>3 DEF Smooth
  <2>4. ASSUME UNCHANGED <<deaths, badShare>>
        PROVE  ~Disturbed
    BY <2>1, <2>2, <2>4, DkgAssumption DEF Disturbed
  <2>5. ASSUME UNCHANGED <<deaths, badShare, tracerVars>>, cpc' # "failed"
        PROVE  /\ failed' = {} /\ cpc' # "failed"
               /\ \A k \in Tracers : Everything(k)'
    BY <2>3, <2>4, <2>5 DEF tracerVars, Everything
  <2>6. ASSUME NEW k \in Tracers, TracerStep(k)
        PROVE  /\ failed' = {} /\ cpc' # "failed"
               /\ \A p \in Tracers : Everything(p)'
    <3>1. UNCHANGED <<deaths, badShare, cpc>>
      BY <2>6 DEF TracerStep, StartDkg, LoadRound1, SendShares, LoadShares,
         FinalizeDkg, LoadAttestation, SendPartials, OpenPartials, CombineAndTrace,
         ExitOnPeer, ExitOnCombiner, combinerVars
    <3>2. failed' = {} /\ Everything(k)'
      BY <2>3, <2>4, <2>6, <3>1, SmoothStep
    <3>3. ASSUME NEW p \in Tracers, p # k PROVE Everything(p)'
      <4>1. /\ pc'[p] = pc[p] /\ qual'[p] = qual[p]
            /\ broadcasts'[p] = broadcasts[p] /\ partials'[p] = partials[p]
        BY <2>6, <3>3 DEF TracerStep, StartDkg, LoadRound1, SendShares, LoadShares,
           FinalizeDkg, LoadAttestation, SendPartials, OpenPartials, CombineAndTrace,
           ExitOnPeer, ExitOnCombiner, IInv, TypeOK
      <4> QED BY <2>3, <2>4, <3>1, <4>1 DEF Everything
    <3> QED BY <2>3, <2>4, <3>1, <3>2, <3>3
  <2>7. ASSUME NEW k \in Tracers, Crash(k) PROVE FALSE
    BY <2>2, <2>7 DEF Crash, Disturbed
  <2>8. CASE CombinerCrash
    BY <2>2, <2>8 DEF CombinerCrash, Disturbed
  <2>9. CASE LoadTracerPublicKey
    <3>1. UNCHANGED <<deaths, badShare, tracerVars>>
      BY <2>9 DEF LoadTracerPublicKey
    <3>2. next \in Tracers
      BY <2>9, DkgAssumption DEF LoadTracerPublicKey, IInv, TypeOK, Tracers
    <3>3. Fresh(stamp[next]["pk"]) /\ next \notin failed
      BY <2>3, <2>4, <3>1, <3>2, UndisturbedFresh DEF IInv, Packages
    <3> QED BY <2>3, <2>4, <2>5, <2>9, <3>1, <3>3 DEF LoadTracerPublicKey
  <2>10. CASE SendAttestation
    BY <2>3, <2>4, <2>5, <2>10 DEF SendAttestation
  <2>11. CASE FinalizeGroupKey \/ Sign \/ CombinerExit
    BY <2>5, <2>11 DEF FinalizeGroupKey, Sign, CombinerExit
  <2>12. CASE Tick \/ UNCHANGED vars
    <3>1. UNCHANGED <<deaths, badShare, tracerVars, cpc>>
      BY <2>12 DEF Tick, vars, combinerVars
    <3> QED BY <2>3, <2>4, <2>5, <3>1
  <2> QED BY <2>6, <2>7, <2>8, <2>9, <2>10, <2>11, <2>12 DEF Next, CombinerStep
<1>3. WInv => FailsOnlyDisturbed
  BY DEF WInv, Smooth, FailsOnlyDisturbed
<1> QED BY <1>1, <1>2, <1>3, InitIInv, PTL DEF Spec, WInv

-----------------------------------------------------------------------------
(* The tracers' use of the mesh implements MeshRounds. *)

\* The phase of every tracer but k stays: so do its rounds.
LEMMA RoundsOfOthers ==
  ASSUME NEW k \in Tracers, TypeOK, TypeOK',
         \A p \in Tracers : p # k => pc'[p] = pc[p]
  PROVE  \A p \in Tracers : p # k => /\ RoundsEntered(p)' = RoundsEntered(p)
                                    /\ RoundsReturned(p)' = RoundsReturned(p)
BY DEF RoundsEntered, RoundsReturned

\* The rounds a tracer has entered and returned from, by its phase.
LEMMA RoundValues ==
  ASSUME NEW k \in Tracers, TypeOK
  PROVE  /\ pc[k] \in {Booted} => RoundsEntered(k) = 0
         /\ pc[k] \in {Round1, Seal} => RoundsEntered(k) = 1
         /\ pc[k] \in {Round2, Finalize, Reported, Accepted} => RoundsEntered(k) = 2
         /\ pc[k] \in {Round3, Combine, Traced} => RoundsEntered(k) = 3
         /\ pc[k] \in {Booted, Round1} => RoundsReturned(k) = 0
         /\ pc[k] \in {Seal, Round2} => RoundsReturned(k) = 1
         /\ pc[k] \in {Finalize, Reported, Accepted, Round3} => RoundsReturned(k) = 2
         /\ pc[k] \in {Combine, Traced} => RoundsReturned(k) = 3
         /\ pc[k] \in {Booted, Round1, Seal, Round2, Finalize, Reported,
                       Accepted, Round3, Combine, Traced}
<1> USE DEF Booted, Round1, Seal, Round2, Finalize, Reported, Accepted, Round3,
        Combine, Traced
<1>1. pc[k] \in 0 .. 9
  BY DEF TypeOK
<1> QED BY <1>1 DEF RoundsEntered, RoundsReturned

\* A step of tracer k that changes nobody else's phase, by what it does to
\* the rounds of k.
LEMMA RoundStep ==
  ASSUME NEW k \in Tracers, TypeOK, TypeOK',
         \A p \in Tracers : p # k => pc'[p] = pc[p]
  PROVE  /\ (/\ RoundsEntered(k) = RoundsReturned(k)
             /\ RoundsEntered(k) < 3
             /\ RoundsEntered(k)' = RoundsEntered(k) + 1
             /\ RoundsReturned(k)' = RoundsReturned(k)) => Mesh!Start(k)
         /\ (/\ RoundsReturned(k) < RoundsEntered(k)
             /\ \A p \in Tracers : RoundsEntered(p) >= RoundsEntered(k)
             /\ RoundsEntered(k)' = RoundsEntered(k)
             /\ RoundsReturned(k)' = RoundsReturned(k) + 1) => Mesh!Complete(k)
         /\ (/\ RoundsEntered(k)' = RoundsEntered(k)
             /\ RoundsReturned(k)' = RoundsReturned(k)) => UNCHANGED Mesh!vars
<1>1. \A p \in Tracers : p # k => /\ RoundsEntered(p)' = RoundsEntered(p)
                                 /\ RoundsReturned(p)' = RoundsReturned(p)
  BY RoundsOfOthers
<1> QED BY <1>1 DEF Mesh!Start, Mesh!Complete, Mesh!vars

\* A tracer's step is a step of the mesh, or none.
LEMMA TracerRound ==
  ASSUME NEW k \in Tracers, TypeOK, TypeOK', TracerStep(k) \/ Crash(k)
  PROVE  Mesh!Start(k) \/ Mesh!Complete(k) \/ UNCHANGED Mesh!vars
<1>1. \A p \in Tracers : p # k => pc'[p] = pc[p]
  BY TracerForward
<1>2. /\ pc \in [Tracers -> 0 .. 9]
      /\ pc' \in [Tracers -> 0 .. 9]
  BY DEF TypeOK, Booted, Traced
<1> DEFINE Goes(from, to) == pc[k] = from /\ pc'[k] = to
<1> USE DEF Booted, Round1, Seal, Round2, Finalize, Reported, Accepted, Round3,
        Combine, Traced
<1>3. CASE Goes(Booted, Round1)
  <2>1. /\ RoundsEntered(k) = 0 /\ RoundsReturned(k) = 0
        /\ RoundsEntered(k)' = 1 /\ RoundsReturned(k)' = 0
    BY <1>3 DEF RoundsEntered, RoundsReturned
  <2> QED BY <1>1, <2>1, RoundStep
<1>4. CASE Goes(Seal, Round2)
  <2>1. /\ RoundsEntered(k) = 1 /\ RoundsReturned(k) = 1
        /\ RoundsEntered(k)' = 2 /\ RoundsReturned(k)' = 1
    BY <1>4 DEF RoundsEntered, RoundsReturned
  <2> QED BY <1>1, <2>1, RoundStep
<1>5. CASE Goes(Accepted, Round3)
  <2>1. /\ RoundsEntered(k) = 2 /\ RoundsReturned(k) = 2
        /\ RoundsEntered(k)' = 3 /\ RoundsReturned(k)' = 2
    BY <1>5 DEF RoundsEntered, RoundsReturned
  <2> QED BY <1>1, <2>1, RoundStep
<1>6. CASE Goes(Round1, Seal) /\ AllEntered(Round1)
  <2>1. /\ RoundsEntered(k) = 1 /\ RoundsReturned(k) = 0
        /\ RoundsEntered(k)' = 1 /\ RoundsReturned(k)' = 1
    BY <1>6 DEF RoundsEntered, RoundsReturned
  <2>2. \A p \in Tracers : RoundsEntered(p) >= 1
    <3> SUFFICES ASSUME NEW p \in Tracers
                 PROVE  RoundsEntered(p) >= 1
      OBVIOUS
    <3>1. pc[p] \in 1 .. 9
      BY <1>2, <1>6 DEF AllEntered
    <3> QED BY <3>1, RoundValues
  <2> QED BY <1>1, <2>1, <2>2, RoundStep
<1>7. CASE Goes(Round2, Finalize) /\ AllEntered(Round2)
  <2>1. /\ RoundsEntered(k) = 2 /\ RoundsReturned(k) = 1
        /\ RoundsEntered(k)' = 2 /\ RoundsReturned(k)' = 2
    BY <1>7 DEF RoundsEntered, RoundsReturned
  <2>2. \A p \in Tracers : RoundsEntered(p) >= 2
    <3> SUFFICES ASSUME NEW p \in Tracers
                 PROVE  RoundsEntered(p) >= 2
      OBVIOUS
    <3>1. pc[p] \in 3 .. 9
      BY <1>2, <1>7 DEF AllEntered
    <3> QED BY <3>1, RoundValues
  <2> QED BY <1>1, <2>1, <2>2, RoundStep
<1>8. CASE Goes(Round3, Combine) /\ AllEntered(Round3)
  <2>1. /\ RoundsEntered(k) = 3 /\ RoundsReturned(k) = 2
        /\ RoundsEntered(k)' = 3 /\ RoundsReturned(k)' = 3
    BY <1>8 DEF RoundsEntered, RoundsReturned
  <2>2. \A p \in Tracers : RoundsEntered(p) >= 3
    <3> SUFFICES ASSUME NEW p \in Tracers
                 PROVE  RoundsEntered(p) >= 3
      OBVIOUS
    <3>1. pc[p] \in 7 .. 9
      BY <1>2, <1>8 DEF AllEntered
    <3> QED BY <3>1, RoundValues
  <2> QED BY <1>1, <2>1, <2>2, RoundStep
<1>9. CASE \/ pc'[k] = pc[k]
           \/ Goes(Finalize, Reported) \/ Goes(Reported, Accepted)
           \/ Goes(Combine, Traced)
  <2>1. /\ RoundsEntered(k)' = RoundsEntered(k)
        /\ RoundsReturned(k)' = RoundsReturned(k)
    <3>1. CASE pc'[k] = pc[k]
      BY <3>1 DEF RoundsEntered, RoundsReturned
    <3>2. CASE Goes(Finalize, Reported)
      BY <3>2 DEF RoundsEntered, RoundsReturned
    <3>3. CASE Goes(Reported, Accepted)
      BY <3>3 DEF RoundsEntered, RoundsReturned
    <3>4. CASE Goes(Combine, Traced)
      BY <3>4 DEF RoundsEntered, RoundsReturned
    <3> QED BY <1>9, <3>1, <3>2, <3>3, <3>4
  <2> QED BY <1>1, <2>1, RoundStep
<1>10. \/ Goes(Booted, Round1) \/ Goes(Seal, Round2) \/ Goes(Accepted, Round3)
       \/ Goes(Round1, Seal) /\ AllEntered(Round1)
       \/ Goes(Round2, Finalize) /\ AllEntered(Round2)
       \/ Goes(Round3, Combine) /\ AllEntered(Round3)
       \/ pc'[k] = pc[k]
       \/ Goes(Finalize, Reported) \/ Goes(Reported, Accepted)
       \/ Goes(Combine, Traced)
  <2>1. CASE StartDkg(k) \/ LoadRound1(k) \/ SendShares(k) \/ LoadShares(k)
    BY <1>2, <2>1 DEF At, StartDkg, LoadRound1, SendShares, LoadShares
  <2>2. CASE FinalizeDkg(k)
    BY <1>2, <2>2 DEF At, FinalizeDkg
  <2>3. CASE LoadAttestation(k)
    BY <1>2, <2>3 DEF At, LoadAttestation
  <2>4. CASE SendPartials(k) \/ OpenPartials(k)
    BY <1>2, <2>4 DEF At, SendPartials, OpenPartials
  <2>5. CASE CombineAndTrace(k)
    BY <1>2, <2>5 DEF At, CombineAndTrace
  <2>6. CASE ExitOnPeer(k) \/ ExitOnCombiner(k) \/ Crash(k)
    BY <2>6 DEF ExitOnPeer, ExitOnCombiner, Crash
  <2> QED BY <2>1, <2>2, <2>3, <2>4, <2>5, <2>6 DEF TracerStep
<1> QED BY <1>3, <1>4, <1>5, <1>6, <1>7, <1>8, <1>9, <1>10

\* The tracers' protocol implements the rounds of the mesh: whatever the
\* Combiner, the clock and crashes do, no tracer loads the messages of a round
\* before every tracer has sealed its own.
THEOREM ImplementsMeshRounds == Spec => RoundsSpec
<1>1. Init => Mesh!Init
  <2> SUFFICES ASSUME Init
               PROVE  Mesh!Init
    OBVIOUS
  <2>1. \A k \in Tracers : RoundsEntered(k) = 0 /\ RoundsReturned(k) = 0
    BY InitTypeOK, RoundValues DEF Init
  <2> QED BY <2>1 DEF Mesh!Init
<1>2. ASSUME TypeOK, TypeOK', [Next]_vars
      PROVE  [Mesh!Next]_(Mesh!vars)
  <2>1. ASSUME NEW k \in Tracers, TracerStep(k) \/ Crash(k)
        PROVE  [Mesh!Next]_(Mesh!vars)
    BY <1>2, <2>1, TracerRound DEF Mesh!Next
  <2>2. ASSUME UNCHANGED tracerVars
        PROVE  UNCHANGED Mesh!vars
    BY <2>2 DEF tracerVars, Mesh!vars, RoundsEntered, RoundsReturned
  <2>3. CASE CombinerStep \/ CombinerCrash \/ Tick \/ UNCHANGED vars
    <3>1. UNCHANGED tracerVars
      BY <2>3 DEF CombinerStep, LoadTracerPublicKey, FinalizeGroupKey, Sign,
         SendAttestation, CombinerExit, CombinerCrash, Tick, vars
    <3> QED BY <2>2, <3>1
  <2> QED BY <1>2, <2>1, <2>3 DEF Next
<1> QED BY <1>1, <1>2, TypeCorrect, PTL DEF Spec, RoundsSpec, Mesh!Spec

-----------------------------------------------------------------------------
(* Nobody waits for a process that has ended, or for one that waits for it. *)
(* TracerCan and CombinerCan are the conditions under which a tracer and    *)
(* the Combiner have a step to take; TracerCanIsEnough and                  *)
(* CombinerCanIsEnough name that step and its outcome.                      *)

\* The broadcasts, the shares or the partial decryptions are all there, or
\* the exchange fails.
ExchangeOver(k, round) == AllEntered(round) \/ \E p \in failed : pc[p] <= round

TracerCan(k) ==
  /\ k \notin failed /\ pc[k] # Traced
  /\ \A round \in {Round1, Round2, Round3} : pc[k] = round => ExchangeOver(k, round)
  /\ pc[k] = Reported => k \in attested \/ cpc = "failed"

CombinerCan ==
  /\ cpc \in {"collect", "sign", "attest"}
  /\ cpc = "collect" /\ next < N3 => pc[next] >= Reported \/ next \in failed

AllEnded ==
  /\ cpc \in {"exited", "failed"}
  /\ \A k \in Tracers : k \in failed \/ pc[k] = Traced

NobodyStuck == ~CombinerCan /\ (\A k \in Tracers : ~TracerCan(k)) => AllEnded

\* A step of tracer k to this place, with these values of its variables; and
\* one to its end with an error.
MovesTo(k, here, stamps, heard, dealers, opened) ==
  vars' = <<clock, badShare, deaths,
            <<[pc EXCEPT ![k] = here], failed, stamps, heard, dealers, opened>>, combinerVars>>

Fails(k) ==
  vars' = <<clock, badShare, deaths,
            <<pc, failed \cup {k}, stamp, broadcasts, qual, partials>>, combinerVars>>

Sealed(k, x) == [stamp EXCEPT ![k][x] = clock]

\* Whatever place a tracer is at, one of these is a step of it.
LEMMA TracerCanIsEnough ==
  ASSUME NEW k \in Tracers, TracerCan(k)
  PROVE  /\ pc[k] = Booted
            /\ MovesTo(k, Round1, Sealed(k, "round1"),
                       [broadcasts EXCEPT ![k] = {k} \ BadBroadcast], qual, partials)
            => TracerStep(k)
         /\ pc[k] = Round1 /\ AllEntered(Round1)
            /\ MovesTo(k, Seal, stamp,
                       [broadcasts EXCEPT ![k] = @ \cup {p \in Tracers \ {k} :
                          p \notin BadBroadcast /\ Fresh(stamp[p]["round1"])}],
                       qual, partials)
            => TracerStep(k)
         /\ pc[k] = Seal /\ MovesTo(k, Round2, Sealed(k, "share"), broadcasts, qual, partials)
            => TracerStep(k)
         /\ pc[k] = Round2 /\ AllEntered(Round2)
            /\ MovesTo(k, Finalize, stamp, broadcasts,
                       [qual EXCEPT ![k] = {p \in broadcasts[k] :
                          p = k \/ (Fresh(stamp[p]["share"]) /\ <<p, k>> \notin badShare)}],
                       partials)
            => TracerStep(k)
         /\ pc[k] = Finalize /\ Cardinality(qual[k]) >= MinQual
            /\ MovesTo(k, Reported, Sealed(k, "pk"), broadcasts, qual, partials)
            => TracerStep(k)
         /\ pc[k] = Finalize /\ ~(Cardinality(qual[k]) >= MinQual) /\ Fails(k) => TracerStep(k)
         /\ pc[k] = Reported /\ k \in attested /\ Acceptable(k)
            /\ MovesTo(k, Accepted, stamp, broadcasts, qual, partials)
            => TracerStep(k)
         /\ pc[k] = Reported /\ ~(k \in attested /\ Acceptable(k)) /\ Fails(k) => TracerStep(k)
         /\ pc[k] = Accepted
            /\ MovesTo(k, Round3, Sealed(k, "partial"), broadcasts, qual, partials)
            => TracerStep(k)
         /\ pc[k] = Round3 /\ AllEntered(Round3)
            /\ MovesTo(k, Combine, stamp, broadcasts, qual,
                       [partials EXCEPT ![k] = {p \in Tracers :
                          p = k \/ Fresh(stamp[p]["partial"])}])
            => TracerStep(k)
         /\ pc[k] = Combine /\ Cardinality(ValidPartials(k)) >= te
            /\ MovesTo(k, Traced, stamp, broadcasts, qual, partials)
            => TracerStep(k)
         /\ pc[k] = Combine /\ ~(Cardinality(ValidPartials(k)) >= te) /\ Fails(k)
            => TracerStep(k)
         /\ \A round \in {Round1, Round2, Round3} :
              pc[k] = round /\ ~AllEntered(round) /\ Fails(k) => TracerStep(k)
<1> USE DEF TracerCan, At, TracerStep, MovesTo, Fails, Sealed, vars, tracerVars
<1>1. ASSUME pc[k] = Booted,
             MovesTo(k, Round1, Sealed(k, "round1"),
                     [broadcasts EXCEPT ![k] = {k} \ BadBroadcast], qual, partials)
      PROVE  StartDkg(k)
  BY <1>1 DEF StartDkg, Stamped
<1>2. ASSUME pc[k] = Round1, AllEntered(Round1),
             MovesTo(k, Seal, stamp,
                     [broadcasts EXCEPT ![k] = @ \cup {p \in Tracers \ {k} :
                        p \notin BadBroadcast /\ Fresh(stamp[p]["round1"])}], qual, partials)
      PROVE  LoadRound1(k)
  BY <1>2 DEF LoadRound1
<1>3. ASSUME pc[k] = Seal, MovesTo(k, Round2, Sealed(k, "share"), broadcasts, qual, partials)
      PROVE  SendShares(k)
  BY <1>3 DEF SendShares, Stamped
<1>4. ASSUME pc[k] = Round2, AllEntered(Round2),
             MovesTo(k, Finalize, stamp, broadcasts,
                     [qual EXCEPT ![k] = {p \in broadcasts[k] :
                        p = k \/ (Fresh(stamp[p]["share"]) /\ <<p, k>> \notin badShare)}],
                     partials)
      PROVE  LoadShares(k)
  BY <1>4 DEF LoadShares
<1>5. ASSUME pc[k] = Finalize, Cardinality(qual[k]) >= MinQual,
             MovesTo(k, Reported, Sealed(k, "pk"), broadcasts, qual, partials)
      PROVE  FinalizeDkg(k)
  BY <1>5 DEF FinalizeDkg, Stamped
<1>6. ASSUME pc[k] = Finalize, ~(Cardinality(qual[k]) >= MinQual), Fails(k)
      PROVE  FinalizeDkg(k)
  BY <1>6 DEF FinalizeDkg
<1>7. ASSUME pc[k] = Reported, k \in attested, Acceptable(k),
             MovesTo(k, Accepted, stamp, broadcasts, qual, partials)
      PROVE  LoadAttestation(k)
  BY <1>7 DEF LoadAttestation
<1>8. ASSUME pc[k] = Reported, ~(k \in attested /\ Acceptable(k)), Fails(k)
      PROVE  LoadAttestation(k) \/ ExitOnCombiner(k)
  BY <1>8 DEF LoadAttestation, ExitOnCombiner
<1>9. ASSUME pc[k] = Accepted,
             MovesTo(k, Round3, Sealed(k, "partial"), broadcasts, qual, partials)
      PROVE  SendPartials(k)
  BY <1>9 DEF SendPartials, Stamped
<1>10. ASSUME pc[k] = Round3, AllEntered(Round3),
              MovesTo(k, Combine, stamp, broadcasts, qual,
                      [partials EXCEPT ![k] = {p \in Tracers :
                         p = k \/ Fresh(stamp[p]["partial"])}])
       PROVE  OpenPartials(k)
  BY <1>10 DEF OpenPartials
<1>11. ASSUME pc[k] = Combine, Cardinality(ValidPartials(k)) >= te,
              MovesTo(k, Traced, stamp, broadcasts, qual, partials)
       PROVE  CombineAndTrace(k)
  BY <1>11 DEF CombineAndTrace
<1>12. ASSUME pc[k] = Combine, ~(Cardinality(ValidPartials(k)) >= te), Fails(k)
       PROVE  CombineAndTrace(k)
  BY <1>12 DEF CombineAndTrace
<1>13. ASSUME NEW round \in {Round1, Round2, Round3}, pc[k] = round, ~AllEntered(round),
              Fails(k)
       PROVE  ExitOnPeer(k)
  BY <1>13 DEF ExitOnPeer, ExchangeOver
<1> HIDE DEF MovesTo, Fails, Sealed
<1> QED BY <1>1, <1>2, <1>3, <1>4, <1>5, <1>6, <1>7, <1>8, <1>9, <1>10, <1>11, <1>12, <1>13

\* And this of the Combiner: its loops go on or end it, and sending the
\* attestation can always go unnoticed.
CombinerTo(where, turn, keys, key, sent, time) ==
  vars' = <<clock, badShare, deaths, tracerVars, <<where, turn, keys, key, sent, time>>>>

Reports(k) == pc[k] >= Reported /\ Fresh(stamp[k]["pk"])

LEMMA CombinerCanIsEnough ==
  ASSUME CombinerCan, next < N3 => pc[next] \in Int
  PROVE  /\ cpc = "collect" /\ next < N3 /\ Reports(next)
            /\ CombinerTo(cpc, next + 1, tracer_pks \cup {next}, pk_e, attested, attestation)
            => CombinerStep
         /\ cpc = "collect" /\ next < N3 /\ ~Reports(next)
            /\ CombinerTo("failed", next, tracer_pks, pk_e, attested, attestation)
            => CombinerStep
         /\ cpc = "collect" /\ next = N3
            /\ CombinerTo("sign", next, tracer_pks, tracer_pks, attested, attestation)
            => CombinerStep
         /\ cpc = "sign" /\ CombinerTo("attest", 0, tracer_pks, pk_e, attested, clock)
            => CombinerStep
         /\ cpc = "attest" /\ next < N3
            /\ CombinerTo(cpc, next + 1, tracer_pks, pk_e, attested \cup {next}, attestation)
            => CombinerStep
         /\ cpc = "attest" /\ next = N3
            /\ CombinerTo("exited", next, tracer_pks, pk_e, attested, attestation)
            => CombinerStep
<1> USE DEF CombinerCan, CombinerStep, CombinerTo, vars, combinerVars
<1>1. ASSUME cpc = "collect", next < N3, Reports(next),
             CombinerTo(cpc, next + 1, tracer_pks \cup {next}, pk_e, attested, attestation)
      PROVE  LoadTracerPublicKey
  BY <1>1 DEF LoadTracerPublicKey, Reports
<1>2. ASSUME cpc = "collect", next < N3, ~Reports(next),
             CombinerTo("failed", next, tracer_pks, pk_e, attested, attestation)
      PROVE  LoadTracerPublicKey
  BY <1>2 DEF LoadTracerPublicKey, Reports, Reported
<1>3. ASSUME cpc = "collect", next = N3,
             CombinerTo("sign", next, tracer_pks, tracer_pks, attested, attestation)
      PROVE  FinalizeGroupKey
  BY <1>3 DEF FinalizeGroupKey
<1>4. ASSUME cpc = "sign", CombinerTo("attest", 0, tracer_pks, pk_e, attested, clock)
      PROVE  Sign
  BY <1>4 DEF Sign
<1>5. ASSUME cpc = "attest", next < N3,
             CombinerTo(cpc, next + 1, tracer_pks, pk_e, attested \cup {next}, attestation)
      PROVE  SendAttestation
  BY <1>5 DEF SendAttestation
<1>6. ASSUME cpc = "attest", next = N3,
             CombinerTo("exited", next, tracer_pks, pk_e, attested, attestation)
      PROVE  CombinerExit
  BY <1>6 DEF CombinerExit
<1> HIDE DEF CombinerTo, CombinerCan
<1> QED BY <1>1, <1>2, <1>3, <1>4, <1>5, <1>6

\* A Combiner that has exited has sent the attestation to everybody.
AttestedInOrder ==
  /\ cpc = "attest" => \A k \in Tracers : k < next => k \in attested
  /\ cpc = "exited" => attested = Tracers

LEMMA AttestedInvariant == Spec => []AttestedInOrder
<1>1. Init => AttestedInOrder
  BY DEF Init, AttestedInOrder
<1>2. TypeOK /\ AttestedInOrder /\ [Next]_vars => AttestedInOrder'
  <2> SUFFICES ASSUME TypeOK, AttestedInOrder, [Next]_vars PROVE AttestedInOrder'
    OBVIOUS
  <2> USE DEF AttestedInOrder
  <2>1. CASE UNCHANGED <<cpc, next, attested>>
    BY <2>1
  <2>2. CASE LoadTracerPublicKey \/ FinalizeGroupKey \/ CombinerCrash
    BY <2>2 DEF LoadTracerPublicKey, FinalizeGroupKey, CombinerCrash
  <2>3. CASE Sign
    BY <2>3 DEF Sign, Tracers
  <2>4. CASE SendAttestation
    BY <2>4 DEF SendAttestation, Tracers, TypeOK
  <2>5. CASE CombinerExit
    <3>1. /\ attested' = attested /\ cpc' = "exited" /\ attested \subseteq Tracers
          /\ \A k \in Tracers : k < N3 => k \in attested
      BY <2>5 DEF CombinerExit, TypeOK
    <3>2. \A k \in Tracers : k < N3
      BY DkgAssumption DEF Tracers
    <3>3. attested = Tracers
      BY <3>1, <3>2
    <3> QED BY <3>1, <3>3
  <2>6. ASSUME NEW k \in Tracers, TracerStep(k) \/ Crash(k)
        PROVE  UNCHANGED <<cpc, next, attested>>
    BY <2>6 DEF TracerStep, StartDkg, LoadRound1, SendShares, LoadShares, FinalizeDkg,
       LoadAttestation, SendPartials, OpenPartials, CombineAndTrace, ExitOnPeer,
       ExitOnCombiner, Crash, combinerVars
  <2>7. CASE Tick \/ UNCHANGED vars
    BY <2>1, <2>7 DEF Tick, vars, combinerVars
  <2> QED BY <2>1, <2>2, <2>3, <2>4, <2>5, <2>6, <2>7 DEF Next, CombinerStep
<1> QED BY <1>1, <1>2, TypeCorrect, PTL DEF Spec

\* Somebody can go on until the Combiner has ended and every tracer has
\* traced or failed: whoever dies, whatever expires or does not verify, no
\* process waits for one that is gone, nor two for each other.
THEOREM NobodyStuckTheorem == Spec => []NobodyStuck
<1>1. ASSUME TypeOK, AttestedInOrder, ~CombinerCan, \A k \in Tracers : ~TracerCan(k)
      PROVE  AllEnded
  <2> DEFINE Waits(k) == k \in Tracers /\ k \notin failed /\ pc[k] # Traced
  <2> USE DEF Booted, Round1, Seal, Round2, Finalize, Reported, Accepted, Round3, Combine, Traced
  <2>1. \A k \in Tracers : pc[k] \in Booted .. Traced
    BY <1>1 DEF TypeOK
  <2>2. ASSUME NEW k, Waits(k), NEW round \in {Round1, Round2, Round3}, pc[k] = round
        PROVE  \E p : Waits(p) /\ pc[p] < round
    <3>1. ~ExchangeOver(k, round)
      BY <1>1, <2>2 DEF TracerCan
    <3>2. PICK p \in Tracers : ~(pc[p] >= round)
      BY <3>1 DEF ExchangeOver, AllEntered
    <3>3. pc[p] < round /\ pc[p] # Traced
      BY <2>1, <3>2
    <3>4. p \notin failed
      BY <2>1, <2>2, <3>1, <3>2, <3>3 DEF ExchangeOver
    <3> QED BY <3>2, <3>3, <3>4
  <2>3. \A k : Waits(k) => \/ pc[k] \in {Round1, Round2, Round3}
                           \/ pc[k] = Reported /\ k \notin attested /\ cpc # "failed"
    BY <1>1 DEF TracerCan
  <2>4. \A k : Waits(k) => pc[k] # Round1
    BY <2>2, <2>3
  <2>5. \A k : Waits(k) => pc[k] # Round2
    BY <2>2, <2>3, <2>4
  <2>6. ASSUME cpc = "collect" PROVE FALSE
    <3>1. next < N3 /\ ~(pc[next] >= Reported) /\ next \notin failed
      BY <1>1, <2>6 DEF CombinerCan
    <3>2. next \in Tracers
      BY <1>1, <3>1, DkgAssumption DEF TypeOK, Tracers
    <3>3. Waits(next) /\ pc[next] < Reported
      BY <2>1, <3>1, <3>2
    <3> QED BY <2>3, <2>4, <2>5, <3>3
  <2>7. cpc \in {"exited", "failed"}
    BY <1>1, <2>6 DEF CombinerCan, TypeOK
  <2>8. \A k : Waits(k) => pc[k] # Reported
    BY <1>1, <2>3, <2>7 DEF AttestedInOrder
  <2>9. \A k : ~Waits(k)
    BY <2>2, <2>3, <2>4, <2>5, <2>8
  <2> QED BY <2>7, <2>9 DEF AllEnded
<1> QED BY <1>1, TypeCorrect, AttestedInvariant, PTL DEF NobodyStuck
=============================================================================

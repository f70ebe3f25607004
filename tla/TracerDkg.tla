----------------------------- MODULE TracerDkg ------------------------------
(***************************************************************************)
(* The tracers' protocol (src/tracer.rs, src/bin/tracer.rs) with the       *)
(* Combiner's side of it (src/bin/combiner.rs): distributed key generation *)
(* in two mesh rounds, the report of pk_k, the Combiner's attestation, and *)
(* the third mesh round in which partial decryptions are exchanged.  It    *)
(* starts with the mesh up and every tracer connected to the Combiner.     *)
(*                                                                         *)
(* Keys are abstracted to the set of dealers they are made of: a group key *)
(* pk_e is the set whose pk_k it is the product of.  A signed package is   *)
(* abstracted to the time it was stamped; verify_package refuses one that  *)
(* is stamped in the future or older than 60 s.  One tick of the clock     *)
(* stands for 60 s / MaxAge.  BadBroadcast and badShare are the data       *)
(* defects the tracers check for in what they receive.                     *)
(***************************************************************************)
EXTENDS Integers, FiniteSets, Thresholds

CONSTANTS N3,           \* number of tracers
          MinQual,      \* smallest QUAL dkg::finalize accepts (taps_tt, external)
          MaxAge,       \* age at which a package expires
          MaxClock,     \* bound on the clock
          BadBroadcast, \* tracers whose proof of knowledge does not verify
          BadShares,    \* what badShare may be in a run
          MaxDeaths     \* bound on the processes that die, at any moment

Tracers == 0 .. N3 - 1
Time == 0 .. MaxClock

ASSUME DkgAssumption ==
  /\ N3 \in Nat \ {0}
  /\ MinQual \in 1 .. N3
  /\ MaxAge \in Nat
  /\ MaxClock \in Nat
  /\ BadBroadcast \subseteq Tracers
  /\ BadShares \subseteq SUBSET (Tracers \X Tracers)
  /\ MaxDeaths \in Nat

te == tracer_threshold(N3)

(* Where a tracer is in its program, in program order. *)
Booted   == 0    \* mesh up, DKG not started
Round1   == 1    \* in mesh.broadcast(round1)
Seal     == 2    \* holds the verified broadcasts
Round2   == 3    \* in mesh.exchange(shares)
Finalize == 4    \* holds the verified shares
Reported == 5    \* pk_k sent, waiting for the attestation
Accepted == 6    \* signature and accountability proof verified
Round3   == 7    \* in mesh.exchange(partial decryptions)
Combine  == 8    \* holds the opened partial decryptions
Traced   == 9    \* quorum recovered, exited successfully

Packages == {"round1", "share", "pk", "partial"}

VARIABLES clock,       \* the time every process reads
          badShare,    \* <<dealer, tracer>> pairs whose share does not verify
          deaths,      \* how many processes have died
          pc,          \* pc[k]: where tracer k is
          failed,      \* tracers that exited with an error, or died
          stamp,       \* stamp[k][x]: timestamp of the package x of tracer k
          broadcasts,  \* keys of dkg_broadcasts
          qual,        \* keys of dkg_shares_received: the local QUAL
          partials,    \* tracers whose partial decryption tracer k opened
          cpc,         \* the Combiner: collect, sign, attest, exited, failed
          next,        \* the tracer the Combiner's current loop is at
          tracer_pks,  \* tracers whose pk_k the Combiner holds
          pk_e,        \* the Combiner's group key, {} before it is computed
          attested,    \* tracers the attestation has been sent to
          attestation  \* its timestamp

tracerVars == <<pc, failed, stamp, broadcasts, qual, partials>>
combinerVars == <<cpc, next, tracer_pks, pk_e, attested, attestation>>
vars == <<clock, badShare, deaths, tracerVars, combinerVars>>

\* The types, and that the loops over the tracers stay in range.
TypeOK ==
  /\ clock \in Time
  /\ badShare \in BadShares /\ deaths \in 0 .. MaxDeaths
  /\ pc \in [Tracers -> Booted .. Traced]
  /\ failed \in SUBSET Tracers
  /\ stamp \in [Tracers -> [Packages -> Time]]
  /\ broadcasts \in [Tracers -> SUBSET Tracers]
  /\ qual \in [Tracers -> SUBSET Tracers]
  /\ partials \in [Tracers -> SUBSET Tracers]
  /\ cpc \in {"collect", "sign", "attest", "exited", "failed"}
  /\ next \in 0 .. N3
  /\ tracer_pks \in SUBSET Tracers
  /\ pk_e \in SUBSET Tracers
  /\ attested \in SUBSET Tracers
  /\ attestation \in Time

Init ==
  /\ clock = 0
  /\ badShare \in BadShares /\ deaths = 0
  /\ pc = [k \in Tracers |-> Booted]
  /\ failed = {}
  /\ stamp = [k \in Tracers |-> [x \in Packages |-> 0]]
  /\ broadcasts = [k \in Tracers |-> {}]
  /\ qual = [k \in Tracers |-> {}]
  /\ partials = [k \in Tracers |-> {}]
  /\ cpc = "collect"
  /\ next = 0
  /\ tracer_pks = {}
  /\ pk_e = {}
  /\ attested = {}
  /\ attestation = 0

-----------------------------------------------------------------------------
(* Helpers *)

\* Mutant: a package expires one unit of time too soon.
FreshStrict(ts) == ts <= clock /\ clock - ts < MaxAge

\* verify_package, verify_broadcast_package: neither stale nor postdated.
Fresh(ts) == ts <= clock /\ clock - ts <= MaxAge

At(k, here) == k \notin failed /\ pc[k] = here

\* Mutant: a peer that is gone is passed over.
LivingEntered(round) == \A p \in Tracers : pc[p] >= round \/ p \in failed

\* The exchange of `round` has everything it waits for: every tracer has
\* entered it.
AllEntered(round) == \A p \in Tracers : pc[p] >= round

\* A package stamped now.
Stamped(k, x) == stamp' = [stamp EXCEPT ![k][x] = clock]

-----------------------------------------------------------------------------
(* A tracer *)

\* start_dkg: records the tracer's own broadcast if it verifies, signs it and
\* enters the round in which every tracer sends its own.
StartDkg(k) ==
  /\ At(k, Booted)
  /\ broadcasts' = [broadcasts EXCEPT ![k] = {k} \ BadBroadcast]
  /\ Stamped(k, "round1")
  /\ pc' = [pc EXCEPT ![k] = Round1]
  /\ UNCHANGED <<clock, badShare, deaths, failed, qual, partials, combinerVars>>

\* load_dkg_round1_from_peers: every broadcast arrived; those that expired on
\* the way or fail their proof of knowledge are dropped, at this tracer only.
LoadRound1(k) ==
  /\ At(k, Round1) /\ AllEntered(Round1)
  /\ broadcasts' = [broadcasts EXCEPT ![k] = @ \cup
       {p \in Tracers \ {k} : p \notin BadBroadcast /\ Fresh(stamp[p]["round1"])}]
  /\ pc' = [pc EXCEPT ![k] = Seal]
  /\ UNCHANGED <<clock, badShare, deaths, failed, stamp, qual, partials, combinerVars>>

\* dkg_share_for_peer for every peer, then the round that exchanges them.
SendShares(k) ==
  /\ At(k, Seal)
  /\ Stamped(k, "share")
  /\ pc' = [pc EXCEPT ![k] = Round2]
  /\ UNCHANGED <<clock, badShare, deaths, failed, broadcasts, qual, partials, combinerVars>>

\* load_own_dkg_share and load_dkg_inbox: a dealer stays in when its broadcast
\* is on file and its share is fresh and matches the commitments.
LoadShares(k) ==
  /\ At(k, Round2) /\ AllEntered(Round2)
  /\ qual' = [qual EXCEPT ![k] =
       {p \in broadcasts[k] :
          p = k \/ (Fresh(stamp[p]["share"]) /\ <<p, k>> \notin badShare)}]
  /\ pc' = [pc EXCEPT ![k] = Finalize]
  /\ UNCHANGED <<clock, badShare, deaths, failed, stamp, broadcasts, partials, combinerVars>>

\* finalize_dkg over the dealers this tracer holds, then the report of pk_k.
FinalizeDkg(k) ==
  /\ At(k, Finalize)
  /\ IF Cardinality(qual[k]) >= MinQual
       THEN /\ Stamped(k, "pk")
            /\ pc' = [pc EXCEPT ![k] = Reported]
            /\ UNCHANGED failed
       ELSE /\ failed' = failed \cup {k}
            /\ UNCHANGED <<pc, stamp>>
  /\ UNCHANGED <<clock, badShare, deaths, broadcasts, qual, partials, combinerVars>>

\* Mutant: the proof is not checked against the tracer's own pk_e.
AcceptableAnyKey(k) == Fresh(attestation)

\* load_from_combiner, verify_sigma, verify_proof: the attestation must be
\* fresh and hold for this tracer's own pk_e.
Acceptable(k) == Fresh(attestation) /\ qual[k] = pk_e

LoadAttestation(k) ==
  /\ At(k, Reported) /\ k \in attested
  /\ IF Acceptable(k)
       THEN pc' = [pc EXCEPT ![k] = Accepted] /\ UNCHANGED failed
       ELSE failed' = failed \cup {k} /\ UNCHANGED pc
  /\ UNCHANGED <<clock, badShare, deaths, stamp, broadcasts, qual, partials, combinerVars>>

\* partial_decrypt, partial_for_peer for every peer, and the round that
\* exchanges them.
SendPartials(k) ==
  /\ At(k, Accepted)
  /\ Stamped(k, "partial")
  /\ pc' = [pc EXCEPT ![k] = Round3]
  /\ UNCHANGED <<clock, badShare, deaths, failed, broadcasts, qual, partials, combinerVars>>

\* open_peer_partials: the tracer's own, and those that arrive fresh.
OpenPartials(k) ==
  /\ At(k, Round3) /\ AllEntered(Round3)
  /\ partials' = [partials EXCEPT ![k] =
       {p \in Tracers : p = k \/ Fresh(stamp[p]["partial"])}]
  /\ pc' = [pc EXCEPT ![k] = Combine]
  /\ UNCHANGED <<clock, badShare, deaths, failed, stamp, broadcasts, qual, combinerVars>>

\* combine_and_trace: those that verify against the keys recomputed from the
\* tracer's own QUAL, which takes a sender with the same QUAL; t_e of them
\* recover the quorum.
ValidPartials(k) == {p \in partials[k] : qual[p] = qual[k]}

CombineAndTrace(k) ==
  /\ At(k, Combine)
  /\ IF Cardinality(ValidPartials(k)) >= te
       THEN pc' = [pc EXCEPT ![k] = Traced] /\ UNCHANGED failed
       ELSE failed' = failed \cup {k} /\ UNCHANGED pc
  /\ UNCHANGED <<clock, badShare, deaths, stamp, broadcasts, qual, partials, combinerVars>>

\* Mutant: only a peer that fails inside the round is noticed, not one that
\* never entered it.
ExitOnPeerInRound(k) ==
  /\ \E round \in {Round1, Round2, Round3} :
       /\ At(k, round)
       /\ \E p \in failed : pc[p] = round
  /\ failed' = failed \cup {k}
  /\ UNCHANGED <<clock, badShare, deaths, pc, stamp, broadcasts, qual, partials, combinerVars>>

\* exchange fails: a peer is gone before it was through with the round.
ExitOnPeer(k) ==
  /\ \E round \in {Round1, Round2, Round3} :
       /\ At(k, round)
       /\ \E p \in failed : pc[p] <= round
  /\ failed' = failed \cup {k}
  /\ UNCHANGED <<clock, badShare, deaths, pc, stamp, broadcasts, qual, partials, combinerVars>>

\* The Combiner is gone and has not sent the attestation: the report or the
\* receive fails.
ExitOnCombiner(k) ==
  /\ At(k, Finalize) \/ At(k, Reported)
  /\ cpc = "failed" /\ k \notin attested
  /\ failed' = failed \cup {k}
  /\ UNCHANGED <<clock, badShare, deaths, pc, stamp, broadcasts, qual, partials, combinerVars>>

Crash(k) ==
  /\ deaths < MaxDeaths /\ k \notin failed /\ pc[k] < Traced
  /\ failed' = failed \cup {k}
  /\ deaths' = deaths + 1
  /\ UNCHANGED <<clock, badShare, pc, stamp, broadcasts, qual, partials, combinerVars>>

-----------------------------------------------------------------------------
(* The Combiner *)

\* Mutant: a tracer whose link is closed is passed over.
LoadTracerPublicKeySkip ==
  /\ cpc = "collect" /\ next < N3
  /\ \/ /\ pc[next] >= Reported /\ Fresh(stamp[next]["pk"])
        /\ tracer_pks' = tracer_pks \cup {next}
     \/ /\ pc[next] < Reported /\ next \in failed
        /\ UNCHANGED tracer_pks
  /\ next' = next + 1
  /\ UNCHANGED <<clock, badShare, deaths, tracerVars, cpc, pk_e, attested, attestation>>

\* One turn of the loop over the tracers, in id order: load_tracer_public_key
\* on a report, or the end of the program on a stale one or on a closed link.
LoadTracerPublicKey ==
  /\ cpc = "collect" /\ next < N3
  /\ \/ /\ pc[next] >= Reported /\ Fresh(stamp[next]["pk"])
        /\ tracer_pks' = tracer_pks \cup {next}
        /\ next' = next + 1
        /\ UNCHANGED cpc
     \/ /\ \/ pc[next] >= Reported /\ ~Fresh(stamp[next]["pk"])
           \/ pc[next] < Reported /\ next \in failed
        /\ cpc' = "failed"
        /\ UNCHANGED <<next, tracer_pks>>
  /\ UNCHANGED <<clock, badShare, deaths, tracerVars, pk_e, attested, attestation>>

\* tracer_public_keys_complete and finalize_group_key: the product of every
\* reported pk_k.
FinalizeGroupKey ==
  /\ cpc = "collect" /\ next = N3
  /\ pk_e' = tracer_pks
  /\ cpc' = "sign"
  /\ UNCHANGED <<clock, badShare, deaths, tracerVars, next, tracer_pks, attested, attestation>>

\* The signing protocol (module Signing) ends with a signed attestation.  If it
\* fails the Combiner ends, as in CombinerCrash.
Sign ==
  /\ cpc = "sign"
  /\ cpc' = "attest"
  /\ next' = 0
  /\ attestation' = clock
  /\ UNCHANGED <<clock, badShare, deaths, tracerVars, tracer_pks, pk_e, attested>>

\* Mutant: the loop runs past the last tracer.
SendAttestationPastEnd ==
  /\ cpc = "attest" /\ next <= N3
  /\ attested' = attested \cup {next}
  /\ next' = next + 1
  /\ UNCHANGED <<clock, badShare, deaths, tracerVars, cpc, tracer_pks, pk_e, attestation>>

\* One turn of the loop that sends the attestation, in id order; sending to a
\* tracer that is gone fails or goes unnoticed.
SendAttestation ==
  /\ cpc = "attest" /\ next < N3
  /\ \/ /\ attested' = attested \cup {next}
        /\ next' = next + 1
        /\ UNCHANGED cpc
     \/ /\ next \in failed
        /\ cpc' = "failed"
        /\ UNCHANGED <<attested, next>>
  /\ UNCHANGED <<clock, badShare, deaths, tracerVars, tracer_pks, pk_e, attestation>>

CombinerExit ==
  /\ cpc = "attest" /\ next = N3
  /\ cpc' = "exited"
  /\ UNCHANGED <<clock, badShare, deaths, tracerVars, next, tracer_pks, pk_e, attested, attestation>>

CombinerCrash ==
  /\ deaths < MaxDeaths /\ cpc \in {"collect", "sign", "attest"}
  /\ cpc' = "failed"
  /\ deaths' = deaths + 1
  /\ UNCHANGED <<clock, badShare, tracerVars, next, tracer_pks, pk_e, attested, attestation>>

-----------------------------------------------------------------------------
\* Time passes, at any moment and however long (up to MaxClock).
Tick ==
  /\ clock < MaxClock
  /\ clock' = clock + 1
  /\ UNCHANGED <<badShare, deaths, tracerVars, combinerVars>>

TracerStep(k) ==
  \/ StartDkg(k) \/ LoadRound1(k) \/ SendShares(k) \/ LoadShares(k)
  \/ FinalizeDkg(k) \/ LoadAttestation(k) \/ SendPartials(k)
  \/ OpenPartials(k) \/ CombineAndTrace(k) \/ ExitOnPeer(k) \/ ExitOnCombiner(k)

CombinerStep ==
  \/ LoadTracerPublicKey \/ FinalizeGroupKey \/ Sign
  \/ SendAttestation \/ CombinerExit

Next ==
  \/ \E k \in Tracers : TracerStep(k) \/ Crash(k)
  \/ CombinerStep \/ CombinerCrash
  \/ Tick

Spec == Init /\ [][Next]_vars

SystemStep == CombinerStep \/ \E k \in Tracers : TracerStep(k)

\* Somebody takes a step as long as somebody can; nobody has to die and the
\* clock need not advance.  No step is ever undone, so that it does not matter
\* who is served first.
FairSpec == Spec /\ WF_vars(SystemStep)

-----------------------------------------------------------------------------
(* Properties *)

\* The Combiner computes pk_e, and signing starts, only when every tracer has
\* been through the key generation; and then out of the pk_k of all of them.
KeyFromEveryTracer ==
  pk_e # {} => /\ pk_e = Tracers
               /\ \A k \in Tracers : pc[k] >= Reported

\* A tracer that lets go of a partial decryption has been sent the
\* attestation and holds the very group key the Combiner encrypted under:
\* no secret is used for a key the tracers do not agree on.
AgreedGroupKey ==
  \A k \in Tracers : pc[k] >= Accepted =>
    /\ k \in attested
    /\ qual[k] = pk_e

\* No tracer opens the quorum before every tracer has verified the
\* accountability proof; one tracer that left a dealer out of its QUAL, that
\* rejected the proof or that died before is enough for nobody to trace.
TracedByAll ==
  \A k \in Tracers : pc[k] = Traced =>
    \A p \in Tracers : pc[p] >= Round3 /\ qual[p] = Tracers

\* What dist-keygen calls QUAL, and the comment of finalize_group_key the
\* dealers whose pk_k make pk_e: the dealers each tracer qualified.
GroupKeyIsQual ==
  pk_e # {} => \A k \in Tracers : qual[k] = pk_e

\* A process has died, data does not verify, or time has passed beyond what a
\* package is valid for.
Disturbed == \/ deaths > 0
             \/ badShare # {} \/ BadBroadcast # {}
             \/ clock > MaxAge

\* No process ends with an error but for one of these reasons, however the
\* rounds, the reports and the Combiner's two loops interleave and however
\* close to its expiry a package is read.
FailsOnlyDisturbed == failed # {} \/ cpc = "failed" => Disturbed

\* Whatever goes wrong: every process ends, nobody waits for one that died.
\* With FailsOnlyDisturbed: if nothing does, every tracer recovers the quorum.
EveryoneEnds ==
  <>(/\ cpc \in {"exited", "failed"}
     /\ \A k \in Tracers : k \in failed \/ pc[k] = Traced)

\* The rounds tracer k has entered, and those it has returned from.
RoundsEntered(k) == CASE pc[k] < Round1 -> 0
                      [] pc[k] \in Round1 .. Seal -> 1
                      [] pc[k] \in Round2 .. Accepted -> 2
                      [] pc[k] >= Round3 -> 3
RoundsReturned(k) == CASE pc[k] <= Round1 -> 0
                       [] pc[k] \in Seal .. Round2 -> 1
                       [] pc[k] \in Finalize .. Round3 -> 2
                       [] pc[k] > Round3 -> 3

Mesh == INSTANCE MeshRounds
          WITH Nodes <- Tracers,
               Rounds <- 3,
               started <- [k \in Tracers |-> RoundsEntered(k)],
               completed <- [k \in Tracers |-> RoundsReturned(k)]

\* The tracers use the mesh in the three rounds MeshRounds promises: one for
\* the broadcasts, one for the shares, one for the partial decryptions.
RoundsSpec == Mesh!Spec
=============================================================================

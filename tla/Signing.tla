------------------------------ MODULE Signing -------------------------------
(***************************************************************************)
(* The Combiner (src/bin/combiner.rs) and the signers (src/bin/signer.rs)  *)
(* from the moment they hold the Authority's packages: the Combiner's      *)
(* accept loop, the wait for the tracers' keys, the two signing rounds and *)
(* the computation of the attestation.  Each signer holds one TCP link to  *)
(* the Combiner, on which it sends its commitment right after the Hello;   *)
(* the Combiner reads it only when every tracer has reported pk_k.         *)
(*                                                                         *)
(* A participant of an earlier run that never reached its Combiner still   *)
(* retries the same address and may reach this one, with an id of ours and *)
(* keys the roster does not have.  Of the tracers there is what the        *)
(* Combiner waits for: their mesh coming up, with the bind retries the     *)
(* code itself allows for, and the report that ends each one's key         *)
(* generation (modules TracerMesh and TracerDkg).                          *)
(***************************************************************************)
EXTENDS Integers, Sequences, FiniteSets, CombinerPipeline

CONSTANTS N,             \* number of signers
          N3,            \* number of tracers
          OldSigners,    \* ids of signers of an earlier run still around
          MaxAge,        \* age at which a package expires (60 s)
          MaxClock,      \* bound on the clock
          BindAttempts,  \* attempts of bind_with_retry, one unit of time each
          TimePasses,    \* whether time passes outside those retries too
          CanCrash       \* whether a participant may die at any moment

ASSUME SigningAssumption ==
  /\ N \in Nat \ {0} /\ N3 \in Nat \ {0}
  /\ OldSigners \subseteq 0 .. N - 1
  /\ MaxAge \in Nat /\ MaxClock \in Nat /\ BindAttempts \in Nat \ {0}
  /\ TimePasses \in BOOLEAN /\ CanCrash \in BOOLEAN

Client(role, id, old) == [role |-> role, id |-> id, old |-> old]
Signers == {Client("Signer", i, FALSE) : i \in 0 .. N - 1}
Tracers == {Client("Tracer", i, FALSE) : i \in 0 .. N3 - 1}
Olds == {Client("Signer", i, TRUE) : i \in OldSigners}
Clients == Signers \cup Tracers \cup Olds
SignerLike == Signers \cup Olds

expected_connections == N + N3

VARIABLES clock,
          at,          \* at[c]: where participant c is, see TypeOK
          down,        \* participants that died or exited with an error
          stamp,       \* stamp[c]: timestamp of the last package c sealed
          cpc,         \* where the Combiner is, see TypeOK
          bound,       \* whether the Combiner ever listened
          backlog,     \* connections not accepted yet, in order
          admitted,    \* connections kept in signer_streams, tracer_streams
          binds,       \* attempts of the Combiner's bind that found the port in use
          meshBinds,   \* those of the slowest tracer's
          meshUp,      \* the tracers' mesh is up
          next,        \* the id the Combiner's current loop is at
          commitments, \* ids whose commitment is loaded
          sigmas,      \* ids whose signature share is loaded
          challenged,  \* signer links the challenge was sent on
          challenge,   \* timestamp of the challenge
          fields,      \* fields of the Combiner that are filled
          step         \* computation steps done in the current stage

clientVars == <<at, down, stamp>>
bindVars == <<binds, meshBinds, meshUp>>
roundVars == <<next, commitments, sigmas, challenged, challenge>>
pipeVars == <<fields, step>>
vars == <<clock, clientVars, cpc, bound, backlog, admitted, bindVars, roundVars, pipeVars>>

Ids == 0 .. N - 1
Stages == {"bind", "accept", "keys", "commitments", "parameters", "challenge",
           "sigmas", "proof", "exited", "failed", "panicked"}

\* The types; the Combiner keeps at most one link per slot.
TypeOK ==
  /\ clock \in 0 .. MaxClock
  /\ at \in [Clients -> {"dialing", "connected", "helloed", "committed", "signed", "reported"}]
  /\ down \subseteq Clients
  /\ stamp \in [Clients -> 0 .. MaxClock]
  /\ cpc \in Stages /\ bound \in BOOLEAN
  /\ admitted \subseteq Clients /\ Cardinality(admitted) <= expected_connections
  /\ \A c, d \in admitted : (c.role = d.role /\ c.id = d.id) => c = d
  /\ binds \in 0 .. BindAttempts /\ meshBinds \in 0 .. BindAttempts
  /\ meshUp \in BOOLEAN
  /\ next \in Nat
  /\ commitments \subseteq Ids /\ sigmas \subseteq Ids
  /\ challenged \subseteq SignerLike
  /\ challenge \in 0 .. MaxClock

Init ==
  /\ clock = 0
  /\ at = [c \in Clients |-> "dialing"]
  /\ down = {}
  /\ stamp = [c \in Clients |-> 0]
  /\ cpc = "bind" /\ bound = FALSE
  /\ backlog = <<>> /\ admitted = {}
  /\ binds = 0 /\ meshBinds = 0 /\ meshUp = FALSE
  /\ next = 0
  /\ commitments = {} /\ sigmas = {} /\ challenged = {} /\ challenge = 0
  /\ fields = Bootstrapped /\ step = 0

\* Mutant: a package expires one unit of time too soon.
FreshStrict(ts) == ts <= clock /\ clock - ts < MaxAge

\* verify_package, verify_broadcast_package.
Fresh(ts) == ts <= clock /\ clock - ts <= MaxAge

CombinerEnded == cpc \in {"exited", "failed", "panicked"}

\* The link that signer_streams[id] or tracer_streams[id] holds.
Link(role, id) == CHOOSE c \in admitted : c.role = role /\ c.id = id

-----------------------------------------------------------------------------
(* A participant *)

\* TcpStream::connect succeeds while the Combiner's listener is there.
Connect(c) ==
  /\ c \notin down /\ at[c] = "dialing"
  /\ bound /\ ~CombinerEnded
  /\ at' = [at EXCEPT ![c] = "connected"]
  /\ backlog' = Append(backlog, c)
  /\ UNCHANGED <<clock, down, stamp, cpc, bound, admitted, bindVars, roundVars, pipeVars>>

SendHello(c) ==
  /\ c \notin down /\ at[c] = "connected"
  /\ at' = [at EXCEPT ![c] = "helloed"]
  /\ UNCHANGED <<clock, down, stamp, cpc, bound, backlog, admitted, bindVars, roundVars,
                 pipeVars>>

\* set_commitment: sealed and sent at once, whenever it will be read.
SendCommitment(c) ==
  /\ c \in SignerLike \ down /\ at[c] = "helloed"
  /\ at' = [at EXCEPT ![c] = "committed"]
  /\ stamp' = [stamp EXCEPT ![c] = clock]
  /\ UNCHANGED <<clock, down, cpc, bound, backlog, admitted, bindVars, roundVars, pipeVars>>

\* set_sigma: the challenge must be the roster's Combiner's and fresh; then
\* the share goes out and the signer is done.
LoadChallenge(c) ==
  /\ c \in SignerLike \ down /\ at[c] = "committed" /\ c \in challenged
  /\ IF ~c.old /\ Fresh(challenge)
       THEN /\ at' = [at EXCEPT ![c] = "signed"]
            /\ stamp' = [stamp EXCEPT ![c] = clock]
            /\ UNCHANGED down
       ELSE down' = down \cup {c} /\ UNCHANGED <<at, stamp>>
  /\ UNCHANGED <<clock, cpc, bound, backlog, admitted, bindVars, roundVars, pipeVars>>

\* The Combiner closed the link: it ended, or turned the connection away.
LinkClosed(c) ==
  \/ CombinerEnded
  \/ /\ cpc # "bind" /\ c \notin admitted
     /\ \A i \in 1 .. Len(backlog) : backlog[i] # c

\* A send or receive on the closed link ends the participant.
ExitOnCombiner(c) ==
  /\ c \in SignerLike \ down
  /\ at[c] \in {"connected", "helloed", "committed"}
  /\ LinkClosed(c) /\ c \notin challenged
  /\ down' = down \cup {c}
  /\ UNCHANGED <<clock, at, stamp, cpc, bound, backlog, admitted, bindVars, roundVars,
                 pipeVars>>

\* A tracer's key generation is through: the report of its pk_k.
ReportKey(c) ==
  /\ c \in Tracers \ down /\ at[c] = "helloed" /\ meshUp
  /\ at' = [at EXCEPT ![c] = "reported"]
  /\ stamp' = [stamp EXCEPT ![c] = clock]
  /\ UNCHANGED <<clock, down, cpc, bound, backlog, admitted, bindVars, roundVars, pipeVars>>

\* A tracer gives up because another is gone, once the mesh is up.
AbortKey(c) ==
  /\ c \in Tracers \ down /\ at[c] = "helloed" /\ meshUp
  /\ \E d \in Tracers \cap down : at[d] # "reported"
  /\ down' = down \cup {c}
  /\ UNCHANGED <<clock, at, stamp, cpc, bound, backlog, admitted, bindVars, roundVars,
                 pipeVars>>

Crash(c) ==
  /\ CanCrash /\ c \notin down /\ at[c] \notin {"signed", "reported"}
  /\ down' = down \cup {c}
  /\ UNCHANGED <<clock, at, stamp, cpc, bound, backlog, admitted, bindVars, roundVars,
                 pipeVars>>

-----------------------------------------------------------------------------
(* The Combiner *)

CombinerUnchanged == UNCHANGED <<clock, clientVars>>

\* bind_with_retry: an attempt finds the port free ...
Bind ==
  /\ cpc = "bind" /\ binds < BindAttempts
  /\ cpc' = "accept" /\ bound' = TRUE
  /\ CombinerUnchanged
  /\ UNCHANGED <<backlog, admitted, bindVars, roundVars, pipeVars>>

\* ... or in use: sleep and try again.  Nothing is sealed before the Combiner
\* listens, so that the time this takes makes no package older.
BindInUse ==
  /\ cpc = "bind" /\ binds < BindAttempts
  /\ binds' = binds + 1
  /\ CombinerUnchanged
  /\ UNCHANGED <<cpc, bound, backlog, admitted, meshBinds, meshUp, roundVars, pipeVars>>

\* The last attempt failed too: the end of the Combiner.
BindFails ==
  /\ cpc = "bind" /\ binds = BindAttempts
  /\ cpc' = "failed"
  /\ CombinerUnchanged
  /\ UNCHANGED <<bound, backlog, admitted, bindVars, roundVars, pipeVars>>

\* Mutant: a claim is admitted whether or not the slot is taken.
SlotAnyway(c) == c \notin admitted

\* A Hello claims a slot: the first claim of an id in range wins it.
SlotFree(c) == \A d \in admitted : d.role # c.role \/ d.id # c.id

AcceptHello ==
  /\ cpc = "accept" /\ Cardinality(admitted) < expected_connections
  /\ backlog # <<>>
  /\ at[Head(backlog)] \notin {"dialing", "connected"}
  /\ admitted' = IF SlotFree(Head(backlog)) THEN admitted \cup {Head(backlog)}
                                            ELSE admitted
  /\ backlog' = Tail(backlog)
  /\ CombinerUnchanged
  /\ UNCHANGED <<cpc, bound, bindVars, roundVars, pipeVars>>

\* The connection ends before its Hello: `receive(...)?` ends the Combiner.
AcceptEof ==
  /\ cpc = "accept" /\ Cardinality(admitted) < expected_connections
  /\ backlog # <<>>
  /\ at[Head(backlog)] = "connected" /\ Head(backlog) \in down
  /\ cpc' = "failed"
  /\ CombinerUnchanged
  /\ UNCHANGED <<bound, backlog, admitted, bindVars, roundVars, pipeVars>>

AllConnected ==
  /\ cpc = "accept" /\ Cardinality(admitted) = expected_connections
  /\ cpc' = "keys"
  /\ CombinerUnchanged
  /\ UNCHANGED <<bound, backlog, admitted, bindVars, roundVars, pipeVars>>

\* Mutant: the age is checked, the sender is not.
VerifiesAnySender(c) == Fresh(stamp[c])

\* verify_package against the roster's key of this id, and its age.
Verifies(c) == ~c.old /\ Fresh(stamp[c])

\* Mutant: a participant whose link ended is passed over.
ArrivedOrLost(stage, role, count, sent) ==
  /\ cpc = stage /\ next < count
  /\ \/ at[Link(role, next)] = sent /\ Verifies(Link(role, next))
     \/ Link(role, next) \in down

\* One turn of a loop over the links of a role, up to `count`: what was to be
\* sent is there and verifies ...
Arrived(stage, role, count, sent) ==
  /\ cpc = stage /\ next < count
  /\ at[Link(role, next)] = sent /\ Verifies(Link(role, next))

\* Mutant: the end of a link is not noticed.
RefusedIgnored(stage, role, count, sent) ==
  /\ cpc = stage /\ next < count
  /\ at[Link(role, next)] = sent /\ ~Verifies(Link(role, next))
  /\ cpc' = "failed"
  /\ CombinerUnchanged
  /\ UNCHANGED <<bound, backlog, admitted, bindVars, roundVars, pipeVars>>

\* ... or it does not verify, or the link ended without it: the end of the run.
Refused(stage, role, count, sent) ==
  /\ cpc = stage /\ next < count
  /\ \/ at[Link(role, next)] = sent /\ ~Verifies(Link(role, next))
     \/ at[Link(role, next)] # sent /\ Link(role, next) \in down
  /\ cpc' = "failed"
  /\ CombinerUnchanged
  /\ UNCHANGED <<bound, backlog, admitted, bindVars, roundVars, pipeVars>>

\* The turn is over: to the next id, or from the last one to the next stage.
TurnOver(count, then) ==
  /\ next' = (next + 1) % count
  /\ cpc' = IF next = count - 1 THEN then ELSE cpc

\* load_tracer_public_key from each tracer, then finalize_group_key.
LoadTracerKey ==
  \/ /\ Arrived("keys", "Tracer", N3, "reported")
     /\ TurnOver(N3, "commitments")
     /\ fields' = IF next = N3 - 1
                    THEN fields \cup {"tracer_pks"} \cup finalize_group_key.fills
                    ELSE fields
     /\ CombinerUnchanged
     /\ UNCHANGED <<bound, backlog, admitted, bindVars, commitments, sigmas, challenged,
                    challenge, step>>
  \/ Refused("keys", "Tracer", N3, "reported")

\* load_commitment from each signer.
LoadCommitment ==
  \/ /\ Arrived("commitments", "Signer", N, "committed")
     /\ TurnOver(N, "parameters")
     /\ commitments' = commitments \cup {next}
     /\ CombinerUnchanged
     /\ UNCHANGED <<bound, backlog, admitted, bindVars, sigmas, challenged, challenge,
                    pipeVars>>
  \/ Refused("commitments", "Signer", N, "committed")

\* load_sigma from each signer.
LoadSigma ==
  \/ /\ Arrived("sigmas", "Signer", N, "signed")
     /\ TurnOver(N, "proof")
     /\ sigmas' = sigmas \cup {next}
     /\ step' = 0
     /\ CombinerUnchanged
     /\ UNCHANGED <<bound, backlog, admitted, bindVars, commitments, challenged, challenge,
                    fields>>
  \/ Refused("sigmas", "Signer", N, "signed")

\* The maps a computation step can read, as far as they are complete.
Filled == fields \cup (IF commitments = Ids THEN {"commitments"} ELSE {})
                 \cup (IF sigmas = Ids THEN {"sigmas"} ELSE {})

\* The next computation step: it panics (`expect`) or fails when a field it
\* reads is empty.
Compute(stage, steps) ==
  /\ cpc = stage /\ step < Len(steps)
  /\ IF steps[step + 1].needs \subseteq Filled
       THEN /\ fields' = fields \cup steps[step + 1].fills
            /\ step' = step + 1
            /\ UNCHANGED cpc
       ELSE /\ cpc' = "panicked"
            /\ UNCHANGED pipeVars
  /\ CombinerUnchanged
  /\ UNCHANGED <<bound, backlog, admitted, bindVars, roundVars>>

ComputeParameters == Compute("parameters", ChallengeSteps)
ComputeProof == Compute("proof", ProofSteps)

\* prepare_signer_package has stamped the challenge; it goes out link by link.
BroadcastStart ==
  /\ cpc = "parameters" /\ step = Len(ChallengeSteps)
  /\ cpc' = "challenge" /\ challenge' = clock
  /\ CombinerUnchanged
  /\ UNCHANGED <<bound, backlog, admitted, bindVars, next, commitments, sigmas, challenged,
                 pipeVars>>

SendChallenge ==
  /\ cpc = "challenge" /\ next < N
  /\ \/ /\ challenged' = challenged \cup {Link("Signer", next)}
        /\ TurnOver(N, "sigmas")
     \/ /\ Link("Signer", next) \in down
        /\ cpc' = "failed"
        /\ UNCHANGED <<challenged, next>>
  /\ CombinerUnchanged
  /\ UNCHANGED <<bound, backlog, admitted, bindVars, commitments, sigmas, challenge, pipeVars>>

\* The attestation goes out (module TracerDkg) and the Combiner is done.
Finish ==
  /\ cpc = "proof" /\ step = Len(ProofSteps)
  /\ cpc' = "exited"
  /\ CombinerUnchanged
  /\ UNCHANGED <<bound, backlog, admitted, bindVars, roundVars, pipeVars>>

-----------------------------------------------------------------------------
(* The tracers' mesh and time *)

\* The process dies before its last message is out.
CombinerCrash ==
  /\ CanCrash /\ ~CombinerEnded
  /\ cpc' = "failed"
  /\ CombinerUnchanged
  /\ UNCHANGED <<bound, backlog, admitted, bindVars, roundVars, pipeVars>>

\* The port of a tracer that joined is still in use: sleep and try again.
MeshBindRetry ==
  /\ ~meshUp /\ meshBinds < BindAttempts
  /\ \E c \in Tracers \ down : at[c] = "helloed"
  /\ meshBinds' = meshBinds + 1
  /\ clock < MaxClock /\ clock' = clock + 1
  /\ UNCHANGED <<clientVars, cpc, bound, backlog, admitted, binds, meshUp, roundVars, pipeVars>>

\* It stayed in use for the last attempt: the tracer fails.
MeshBindFails ==
  /\ ~meshUp /\ meshBinds = BindAttempts
  /\ Tracers \cap down = {}
  /\ \E c \in Tracers : at[c] = "helloed" /\ down' = down \cup {c}
  /\ UNCHANGED <<clock, at, stamp, cpc, bound, backlog, admitted, bindVars, roundVars,
                 pipeVars>>

\* Every tracer joined and its port is free: the mesh is up.
MeshBound ==
  /\ ~meshUp /\ meshBinds < BindAttempts
  /\ \A c \in Tracers : c \notin down /\ at[c] = "helloed"
  /\ meshUp' = TRUE
  /\ UNCHANGED <<clock, clientVars, cpc, bound, backlog, admitted, binds, meshBinds,
                 roundVars, pipeVars>>

Tick ==
  /\ TimePasses /\ clock < MaxClock
  /\ clock' = clock + 1
  /\ UNCHANGED <<clientVars, cpc, bound, backlog, admitted, bindVars, roundVars, pipeVars>>

ClientStep(c) ==
  \/ Connect(c) \/ SendHello(c) \/ SendCommitment(c) \/ LoadChallenge(c)
  \/ ReportKey(c) \/ AbortKey(c) \/ ExitOnCombiner(c)

CombinerStep ==
  \/ Bind \/ BindInUse \/ BindFails \/ AcceptHello \/ AcceptEof \/ AllConnected
  \/ LoadTracerKey \/ LoadCommitment \/ ComputeParameters \/ BroadcastStart \/ SendChallenge
  \/ LoadSigma \/ ComputeProof \/ Finish

Next ==
  \/ \E c \in Clients : ClientStep(c) \/ Crash(c)
  \/ CombinerStep
  \/ CombinerCrash
  \/ MeshBindRetry \/ MeshBindFails \/ MeshBound \/ Tick

Spec == Init /\ [][Next]_vars

SystemStep ==
  CombinerStep \/ MeshBound \/ MeshBindFails \/ \E c \in Clients : ClientStep(c)

\* Somebody takes a step as long as somebody can, and a tracer's bind ends one
\* way or the other.  No step is ever undone, so that it does not matter who is
\* served first.
FairSpec == Spec /\ WF_vars(SystemStep)

-----------------------------------------------------------------------------
(* Properties *)

\* A signer uses its nonce only on a challenge made of everybody's
\* commitments, each of them a fresh one of a signer of this run, whoever
\* else got hold of a slot.
SignedOnAllCommitments ==
  \A c \in SignerLike : at[c] = "signed" =>
    /\ ~c.old
    /\ commitments = Ids
    /\ \A d \in Signers : d \in admitted /\ at[d] \in {"committed", "signed"}

\* An attestation exists only if every signer of this run gave its share and
\* every tracer reported its key: no slot was filled by anybody else.
AttestedByAll ==
  cpc \in {"proof", "exited"} =>
    /\ sigmas = Ids
    /\ admitted = Signers \cup Tracers
    /\ \A c \in Signers : at[c] = "signed"
    /\ \A c \in Tracers : at[c] = "reported"

\* No computation step finds a field it expects empty.
NoPanic == cpc # "panicked"

\* Action property: no field is computed a second time, so that nothing a
\* Fiat-Shamir challenge was derived from changes after it.
NothingRecomputed ==
  [][step' > step =>
       LET s == IF cpc = "proof" THEN ProofSteps[step + 1] ELSE ChallengeSteps[step + 1]
       IN  s.fills \cap fields = {}]_vars

\* bind_with_retry: "that delay is absorbed automatically instead of failing
\* the whole run" - unless a port stays in use for the last attempt too.
DelayAbsorbed == cpc = "failed" => BindAttempts \in {binds, meshBinds}

\* With every participant alive, the run succeeds; the exceptions are a slot
\* taken by a participant of an earlier run, a package old enough to have
\* expired, and a port that stays in use.
RunSucceeds ==
  <>[](\/ cpc = "exited" /\ \A c \in Signers : at[c] = "signed"
       \/ Olds \cap admitted # {}
       \/ clock > MaxAge
       \/ BindAttempts \in {binds, meshBinds})

\* The only ways for the Combiner or a signer to wait for ever: a participant
\* that never got through to the Combiner, which may have failed to listen, or
\* a tracer that was lost before the mesh was up.
NobodyHangs ==
  <>[](\/ CombinerEnded /\ \A c \in Signers : at[c] = "signed" \/ c \in down
       \/ \E c \in Signers \cup Tracers : at[c] = "dialing"
       \/ ~meshUp /\ down \cap Tracers # {})
=============================================================================

# A TLA+ verification of Simulation_TAPS_TT

The program simulates the TAPS-TT protocol (accountable threshold signatures
with threshold tracing) as separate processes on one machine: an **Authority**,
a **Combiner**, `n` **signers** and `n_3` **tracers**, plus a **benchmark**
driver that runs them in series. The cryptography is in `src/crypto.rs` and the
external crate `taps_tt`; what this project verifies is the distributed program
around it: who connects to whom, in which order messages are sent, waited for
and checked, what happens when a process dies, a message expires or a process of
an earlier run interferes, and what each participant may conclude at the end.

Paths below are relative to the repository (`src/` is its crate's source).

## 1. Inventory

| Component | State it keeps | Operations | Interacts through |
| --- | --- | --- | --- |
| Authority (`src/authority.rs`, `src/bin/authority.rs`) | registered actors by role and id, thresholds `t`, `t_e`, the quorum | publish the trust anchor file, bind, register until `n + 1 + n_3` actors are there, send each its package | the anchor file; one TCP link per actor |
| Network (`src/network.rs`) | none | `bind_with_retry` (60 attempts, 2 s apart), `send`, `receive` (4-byte length header, then the message) | TCP |
| Tracer mesh (`src/tracer_mesh.rs`) | one stream per peer | `establish` (bind, dial the lower tracers, accept the higher ones), `exchange`, `broadcast` | TCP links between every two tracers |
| Tracer (`src/tracer.rs`, `src/bin/tracer.rs`) | DKG broadcasts, shares (its local QUAL), `pk_e`, the attestation | `start_dkg`, `load_dkg_round1`, `dkg_share_for_peer`, `load_dkg_inbox`, `finalize_dkg`, `verify_sigma`, `verify_proof`, `partial_decrypt`, `combine_and_trace` | the mesh (three exchanges), one link to the Combiner |
| Combiner (`src/combiner.rs`, `src/bin/combiner.rs`) | the slots of signers and tracers, `tracer_pks`, commitments, sigmas, the fields its computation steps fill | accept loop, `load_tracer_public_key`, `finalize_group_key`, `load_commitment`, challenge broadcast, `load_sigma`, the proof pipeline, attestation broadcast | one link per signer and tracer |
| Signer (`src/signer.rs`, `src/bin/signer.rs`) | the current nonce | `set_commitment`, `set_sigma` | one link to the Combiner |
| Freshness (`src/crypto.rs`) | none | `verify_package`, `verify_broadcast_package`: not postdated, at most 60 s old | every package |
| Benchmark driver, statistics, arguments (`src/bin/benchmark.rs`, `src/bench_stats.rs`, `src/bench_config.rs`) | child processes, records, result files | run a scenario, wait for the processes, write raw and summary files | processes, stdout pipes, files |

What is hard here:

* **Concurrency.** `n + n_3 + 2` processes with blocking reads in a fixed order;
  inside `exchange` all links run concurrently and each sends and receives at
  the same time. Nothing on the wire names a round.
* **Failure.** No process has a timeout on a receive, errors are propagated with
  `?` to the end of the process, and every other process has to notice.
* **Time.** Packages are stamped when sealed and rejected 60 s later, wherever
  they have been waiting in between.
* **Leftovers.** Runs are made back to back on the same ports: sockets in
  `TIME_WAIT`, an Authority or tracers that still listen, processes that still
  dial, a trust anchor file and result files of the run before.
* **Local decisions.** Each tracer computes its own QUAL and `pk_e`; the
  Combiner computes a `pk_e` of its own out of every reported `pk_k`.

What makes each component correct:

* *bootstrap*: whoever gets through to the Authority can read its anchor; a
  package goes out only when every slot has one holder, and is turned down only
  by who read it too late or trusts another Authority; registration ends;
* *mesh establishment*: it terminates for every order of starts, is complete
  when it returns, and each accepted link is the link the named tracer dialed;
* *exchange*: no deadlock however small the buffers, frames never out of step,
  each call a barrier round;
* *tracers and Combiner*: one group key or no trace; no partial decryption
  under a key the tracers do not agree on; nobody traces before everybody has
  verified the accountability proof; every process ends;
* *signing*: a share is given only on everybody's commitments; an attestation
  exists only if everybody of this run took part; the pipeline reads nothing
  that is not there and recomputes nothing a challenge already binds;
* *thresholds*: reachable, and quorums overlap;
* *benchmark run*: the driver returns, reports success only if everybody
  succeeded, and leaves nobody running;
* *benchmark series*: the raw files keep the completed runs, the summary says of
  the successful ones what the raw files say, the exit code tells failures.

The hazards, each at its line with the properties that would catch it, are
listed in `PROJECT.json`.

## 2. Modules

| Module | Models | How |
| --- | --- | --- |
| `Thresholds` | `signer_threshold`, `tracer_threshold` | the formulas; `Quorums` for what is said of them |
| `Bootstrap` | `src/bin/authority.rs`, `src/authority.rs`, the first phase of the other binaries | the Authority truncates and writes the anchor file (`TruncateAnchor`, `WriteAnchor`), binds (`Bind`, `BindInUse`), registers the first claim of each slot (`AcceptHello`; `AcceptEof` and `AcceptBadKey` are the two `?` of the loop that end it), and seals and sends the packages in slot order (`SendPackage`, `SendPackageFails`, `Shutdown`). An actor connects once (`Connect`, `Refused`), reads the file and says Hello (`SendHello`), checks its package (`LoadPackage`) or notices the end of the link. A second Authority, of an earlier run, may hold port and file |
| `MeshRounds` | the promise of `exchange` | `Start(k)`: tracer `k` calls it; `Complete(k)`: it returns, which takes every other tracer to have started the same round |
| `MeshExchange` | `exchange` over `send` and `receive` | every direction of a link is a FIFO pipe of `Capacity` chunks; a message is a header, which holds the length modulo `LenMod`, and `PayloadLen[r]` chunks. `BeginExchange`, `Write`, `ReadHeader`, `ReadPayload` and `EndExchange` follow the future of one link; `LinkError` is the `?` of `try_join_all`; `Crash` a death. Refines `MeshRounds` |
| `TracerMesh` | `establish` | `Bind`, `BindInUse` (`bind_with_retry`), `Connect`, `SendHello`, `SendHelloFails`, `DialsDone`, `AcceptHello` with the four conditions of the accept loop (`Acceptable`), `AcceptEof`, `Return`, `Crash`. The environment releases ports, ends leftover tracers, and lets stray processes connect and speak, leave or stay silent |
| `TracerDkg` | `src/tracer.rs`, `src/bin/tracer.rs` and the Combiner's side of it | one action per stretch between two exchanges or messages; a tracer's `pc` is its place in the program. Keys are sets of dealers; a package is its timestamp. Refines `MeshRounds`: the three exchanges are its rounds |
| `CombinerPipeline` | the computation steps of `src/combiner.rs` | a table of what each step reads (`expect`, `ok_or`) and fills, and the two sequences in which `bin/combiner.rs` calls them |
| `Signing` | `src/bin/combiner.rs` and `src/bin/signer.rs` | connect and Hello, the Combiner's bind attempts (`Bind`, `BindInUse`, `BindFails`), the accept loop with its slots, the loops over the links in id order (`Arrived`, `Refused`, `TurnOver`), the pipeline, the challenge link by link. Of the tracers: the Hello, the mesh's bind retries, the report of `pk_k` |
| `Scenario` | `run_scenario` of `src/bin/benchmark.rs`, composed with everybody it spawns | the driver spawns in `SpawnOrder` and waits in `WaitOrder` (`ReadOutput` and `WaitWithOutput` are `wait_with_output`, `TryWait` the Authority's end); each child is reduced to what makes it wait, print, fail and end: the bind attempts of the Authority, the Combiner and the tracers (`Bind`, `BindInUse`), registration, the packages one by one (`SendPackage`), the Combiner's accept loop, the signers' retries and the line they print for each (`NotReady`), the mesh, the reports, shares and attestation in the order of the links (`HandIn`, `Issue`, `Verify`), and a package that is rejected wherever one is opened (`Reject`). A child's stdout is a pipe that holds `PipeLines` lines |
| `BenchStats` | `src/bench_stats.rs` | `collect_records`, `add_record`, `add_run`, `summaries` as functions |
| `Benchmark` | `main` of `src/bin/benchmark.rs`, `src/bench_config.rs` | arguments, files created one by one, runs one after the other with their rows, the summary truncated and written row by row, exit code; `Interrupt` at any moment |
| `MCMeshExchange`, `MCTracerMesh`, `MCTracerDkg`, `MCBootstrap`, `MCScenario`, `MCBenchmark` | | values of the constants TLC needs definitions for |
| `MeshRoundsProofs`, `MeshExchangeProofs`, `TracerMeshProofs`, `TracerDkgProofs`, `BootstrapProofs`, `SigningProofs`, `ScenarioProofs`, `BenchmarkProofs` | | theorems, checked by TLAPS |

How they fit together: `MeshExchange` and `TracerDkg` both implement
`MeshRounds`, one from below (the exchange keeps the promise) and one from above
(the protocol uses the mesh in rounds). `Signing` and `TracerDkg` are the two
halves of the protocol, seen from the signers' and from the tracers' side of the
Combiner. `Scenario` puts one run together: what `Bootstrap`, `TracerMesh`,
`TracerDkg` and `Signing` show in detail is there a step or a few (`SendPackage`,
`MeshUp`, `HandIn`, `Issue`, `Verify`), so that the waits between *all* processes,
the driver's pipes, bind retries, rejected packages and deaths can be explored at
once. `Benchmark` takes the outcome
of a run as given.

Definitions whose comment begins with *Mutant* are not part of any
specification. Each is the following definition with a plausible bug, and is there
to show that a property would notice it.

### Correspondence and abstraction

* A `Hello` is the id and role it claims and whether its identity key is the
  roster's. The Combiner looks at the id only, the mesh's accept loop at all of
  them, the dialing side at nothing; so in the models. At the Authority a Hello
  is the slot it claims, 0 for an id out of bounds, or `BadKey` if a key in it is
  none.
* A signed package verifies if it is fresh and its sender is the roster's
  (`Verifies`, `Fresh`), and the Authority's if it is fresh and sealed by the
  Authority whose anchor the actor read (`Genuine`): signatures and encryption
  are taken to work.
* A read of a link delivers what was sent before its end, then the end. A send
  to a process that is gone may fail or go unnoticed: both are allowed. A reset
  because the peer left with bytes unread is in `LinkError`.
* `pk_e` is the set of dealers whose `pk_k` it multiplies. A tracer accepts the
  attestation only if the Combiner's set is its own, as `verify_proof` is
  evaluated on the tracer's own `pk_e`. A partial decryption verifies at a tracer
  with the same QUAL.
* `MinQual` is the smallest QUAL the external `dkg::finalize` accepts; it is a
  parameter, and nothing proved depends on it.
* One clock, read by every process: they run on one machine.
* In `Scenario` time is what the sleeps make of it. Two are relied on. Within the
  2 s before the Combiner is spawned the Authority has tried its port once. And a
  signer that is refused sleeps 2 s, as the Combiner does after an attempt to
  bind: as long as the Combiner is alive a signer is refused at most once per
  attempt, and once before the first (`NotReady`). After the Combiner's end it is
  refused for ever, and prints until its pipe is full. Of the other delays nothing
  is assumed, and when a package expires is left open (`Reject`): the time it takes
  is the subject of `Signing` and `TracerDkg`.
* In `Scenario` a held port is free at an attempt or is not (`PortsInUse`): when it
  is released is not modelled, and whoever holds it refuses connections, as a
  socket in `TIME_WAIT` does. Processes of an earlier run that still answer are the
  subject of `Bootstrap`, `TracerMesh` and `Signing`.
* A message of 4 GiB, whose length the header cannot hold, is outside
  `ExchangeAssumption`: no payload of the protocol comes near it.
* A row of a raw or summary file is written in one step, though `writeln!` on an
  unbuffered `File` may hand it over in several: a row torn by an interruption is
  not in the model. Headers are left out.
* A line an actor prints is a `BENCH` record or another line; a record is its
  phase and its microseconds. Means and deviations are kept exact, as sums,
  where the code computes them in floating point. Role order, order of first
  appearance and pooling are as in the code.

## 3. Runs

| Run | Asks | Bounds |
| --- | --- | --- |
| `bootstrap` | Does everybody get a package it accepts, and does the Authority end? | a signer, the Combiner (which may die) and a third process that claims the tracer's slot, the signer's, or none, or sends no key; an earlier Authority with two slots claimed, or only its file, or its port in `TIME_WAIT`; 2 attempts; a package expires after 0 units and the clock runs to 1 |
| `mesh_exchange` | Does `exchange` always complete, in step, and is it a round, whoever dies? | 3 tracers, 2 rounds, a message is a header and one chunk, streams buffer 1 chunk, so that a tracer that writes before it reads gets stuck; the header holds lengths below 2; any number of deaths |
| `tracer_mesh` | Does the mesh come up, and right, in any order? | 3 tracers; the port of tracer 0 in `TIME_WAIT`, that of 1 held by an earlier tracer; 2 attempts; a stray process with our id 2; any number of deaths |
| `dkg_faults` | What if packages expire, a share is bad, a process dies? Does anybody fail if not? | 4 tracers; one share bad or none; a package is valid for 0 units and the clock runs to 1; one death |
| `dkg_qual` (violation) | Is `pk_e` the product over QUAL? | 4 tracers, all of which drop dealer 3 |
| `signing_run` | What can time and a leftover signer do to a run? | 2 signers, 1 tracer, a leftover signer with id 0; a package is valid for 1 unit and the clock runs to 2; 2 bind attempts |
| `signing_crash` | Who hangs when processes die or ports stay in use? | 2 signers, 2 tracers, any number of deaths; 2 bind attempts, one unit of time each; time passes for them only |
| `signing_delay` (violation) | Do bind retries only delay? | one unit is 30 s: 60 s of validity, 120 s of attempts |
| `scenario` | Does the driver return, with the truth, and of what does a run fail? | 1 signer, 2 tracers; pipes of 3 lines, which the signer can fill and the Combiner (4 lines) overfills; any port in use, 2 attempts; one process that dies or rejects a package |
| `scenario_bind` (violation) | Is a delayed Authority absorbed by a benchmark run? | 1 signer, 1 tracer, nobody dies, 3 attempts |
| `benchmark` | Do files and exit code tell what happened? | every shape of command line, up to 3 repeats of one scenario and the 8 default scenarios; successful runs that print different things in different orders, and a failed one; interruption anywhere |
| `benchmark_interrupt` (violation) | Is the summary up to date whenever a series is interrupted? | the same |

Two signers are the fewest for which a loop over the links has a first and a last
turn, and one participant can be missing while another is not; three tracers are
the smallest mesh with a tracer that both dials and accepts, and four the fewest of
which a quorum is not everybody (`t_e` of 4 is 3), so that `TracedByAll` could
fail. In `scenario` one
signer is enough because signers do not wait for one another; two tracers do.
Faults are bounded where the state space needs it: `MaxDeaths` in `dkg_faults`,
`MaxFaults` in `scenario`, one each, so that the runs ask what one process that is
lost, at any moment, does to all the others; no theorem depends on the bounds.
`MaxClock` bounds the clock: where it exceeds the validity of a package
(`bootstrap`, `dkg_faults`, `signing_run`), whatever was stamped at the start can
expire at any later point, and what is read within the validity must be accepted
(in `bootstrap` and `dkg_faults` within the same unit of time; the theorems of both
modules are for every validity); with `MaxClock = 0` time plays no part.
`BindAttempts` and `Attempts` stand for the 60 attempts of the code. All other
state is finite by itself. The theorems below cover the safety properties for all
other values. Deadlock is not checked, because the processes do end.

### What the runs show

* *Bootstrap.* An actor that reaches this Authority always finds its anchor,
  whole, although the file is shared with an earlier run and truncated before it
  is written: publishing before binding is what this rests on. That packages are
  sealed only when everybody is there means that a slow actor costs the validity
  of nobody's package. The bootstrap does not end when a slot is claimed by
  nobody that is left (`Starved`): the Authority has no timeout, and drops a wrong
  claim without a word.
* `exchange` needs its simultaneous send and receive, and with it keeps the
  promise of `MeshRounds`. It is a barrier among all tracers, which `TracerDkg`
  builds on three times.
* The mesh comes up for every order of starts, and an accepted link is always
  the connection its tracer dialed. The identity check of the accept loop is
  what this rests on (its comment says the `Hello` does not authenticate, which
  is true of what follows, but without the check a leftover tracer would take the
  real one's place). What can keep it from coming up is listed in
  `EventuallyMesh`: a lost tracer, a port that stays in use, a leftover listener
  that was dialed, and a process that connects and stays silent (`HeldUp`), as
  the accept loop reads one connection at a time.
* A process of the key generation and the tracing ends with an error only if
  somebody died, data did not verify or time ran out (`FailsOnlyDisturbed`). As
  they all end (`EveryoneEnds`), an undisturbed run lets every tracer trace.
* *Observation.* Tracing needs all `n_3` tracers and not `t_e`
  (`TracedByAll`): the partial decryptions go through an `exchange`, which waits
  for every peer, and the group key contains every tracer's `pk_k`. The
  tolerance `t_e` gives concerns invalid partial decryptions only.
* *Observation.* `NobodyHangs` of `Signing` names the waits that do not end:
  a participant that never gets through to the Combiner retries for ever, and a
  tracer lost before the mesh is up leaves the others dialing and the Combiner
  waiting. `Stuck` of `Scenario` names them for a whole run; the driver, which
  has no timeout either, waits with them, and `ScenarioEnds` says that these are
  all: in particular no full stdout pipe stops a run as long as what a signer
  and a tracer print in the protocol fits into theirs, with the line a signer
  prints for each of the Combiner's attempts to bind. It is the 2 s pause that
  bounds these lines; without it (mutant `NotReadyAtOnce`) the signer's pipe
  fills, nobody reads it before the Combiner has ended, and the Combiner waits for
  the signer.
* *What a run can fail of.* `FailureHasACause`: a benchmark run in which nobody
  dies, no port is in use to the last attempt, the Authority's in none, and no
  package is rejected, succeeds. `signing_delay` and `scenario_bind` show that
  neither exception about ports and packages can be left out.
* *Benchmark.* A raw file is at any time the rows of the completed runs, failed
  ones included, in order, then at most the first rows of the run being written
  (`RawKeepsCompletedRuns`). What the summary file must be is said of the raw files
  alone (`SummaryFromRaw`): one row per key measured in a successful run, in order
  of suite, role and first appearance, each with the statistics of the values in
  the file, the squared deviations by the pairwise differences where the code
  takes them from the mean. It holds whenever the summary is not being written
  again.
* *Finding* (`benchmark_interrupt`). While it is, an interruption leaves the
  beginning of it, or nothing, where `README.md` of the repository says that it is
  up to date; the raw files lose nothing.
* *Finding* (`dkg_qual`). The Combiner's `pk_e` is the product over all
  reporting tracers; the comment says over QUAL. A disqualified dealer is not
  left out: the attestation is rejected by everybody.
* *Finding* (`signing_delay`). The delay that `bind_with_retry` is said to
  absorb does fail the run when it exceeds 60 s at a tracer: the commitments
  waiting at the Combiner expire.
* *Finding* (`scenario_bind`). Nor is it absorbed where the comment places it,
  in the benchmark: if the Authority's port is still in use when the Combiner is
  spawned 2 s later, the Combiner, which connects once, is refused and ends. The
  Authority then binds and waits for a Combiner for ever, with those registered
  at it, and so does the driver.

### Fairness

A process that can take its next step does. It is what the OS and the tokio
runtime provide; `tokio::try_join!` and `try_join_all` poll every ready future.
Most modules state it per process. `TracerDkg` and `Signing` get by with less:
as long as somebody can go on, somebody does (`SystemStep`). No step there takes
another's possibility away for good and every step is progress, so that in the end
everybody was served, in whatever order; what this cannot show, a process that is
passed over for ever while others run, cannot happen in programs that end. No
fairness is assumed of crashes, of the clock, of anybody ending an earlier run's
processes, of a stray process saying anything, or of a port being released; the
mesh's bind in `Signing` is assumed to end one way or the other, since its attempts
are bounded.

## 4. Proofs

All for every value of the constants, under the assumptions named in each module.
The state modules declare what a proof needs of a constant (`...Assumption`).

Six of the modules prove a `NobodyStuckTheorem`, which is freedom from deadlock:
in every reachable state somebody has a step to take, or all is over, or one of the
waits has come about that the code cannot end (it has no timeout) and that the
liveness property of the module excepts by name. It is the part of that property
that no fairness can supply. `ENABLED` is out of the prover's reach, so the guards
are written out (`TracerCan`, `CombinerCan`, ...), and a lemma per process
(`...CanIsEnough`, `StepsOf...`) gives for each way a guard can hold the step that
is taken then, with the next value of every variable. The passing of time, a crash
and the release of a port are never counted as somebody's step.

* `MeshRoundsProofs`: `Lockstep` and `NoRoundSkipped`. `Lockstep` is inductive
  together with the types and `OneAtATime` (a tracer is in one exchange at most):
  a tracer that has not started a round has not completed it.
* `MeshExchangeProofs`, under `ExchangeAssumption` (payload lengths fit the
  header): `TypeOK`, `FrameAligned`, `OneRoundAhead`, and that `MeshExchange`
  implements `MeshRounds`. No chunk names its message, so no statement about one
  chunk is inductive; the invariant is about a stream as a whole. `Ordered`: the
  pipe from `p` to `k` holds exactly what `p` has written and `k` not yet read,
  and `p` is in the round of `k`, the one after it (then the rest of `k`'s message
  comes first), or the one before (then the pipe is empty and all was read). The
  reader's and the writer's step to the next round, a write and a read keep it
  (`ReaderGoesOn`, `WriterGoesOn`, `WrittenInOrder`, `ReadInOrder`). A tracer that
  has a whole message from `p` is therefore not ahead of `p`, which is what
  `Complete` asks.

  `NobodyStuckTheorem`: as long as a tracer has neither failed nor made all its
  exchanges, some tracer can go on. `CanWrite`, `CanRead`
  and `CanFail` are the conditions under which one can write, read, or notice that
  the other end is gone, and `CanIsEnough` spells out the step for each of them. Were
  all stuck, look at a tracer in the smallest round (`Least`). A peer that is
  ahead of it has read all it wrote. A peer in the same round could read what
  fills the pipe, so that it cannot be waiting to write; and by `Ordered` what it
  waits to read is in the pipe already or can be written (`StreamMoves`). So it
  has sent and received everything, and its exchange can end. That who cannot
  write can still read is where the simultaneous `try_join!` enters: with sends
  before receives the theorem fails, and the run finds it (`NobodyHangs`).
* `TracerMeshProofs`, under `MeshAssumption`: `TypeOK`, `GenuineLinks`,
  `UpIsComplete`. Invariant: a tracer's own Hello arrives only on
  the link it dialed, and the dialer has moved on by then, so that its entry is
  final (`Said`, with `Dials`); a table entry for a higher tracer comes of that
  tracer's Hello (`Peers`), as only it has its identity key, whatever id a stray
  claims; who is up has everybody in its table (`UpHasAll`).

  `NobodyStuckTheorem`, under what `EventuallyMesh` excepts (`Hindered`): look at the
  lowest tracer that is not up. Everybody it dials is up, hence listens, so it can
  dial; and whoever it waits for in `accept` has reached its queue, or is about
  to dial somebody who listens. The invariant behind it, `Waits`, says where a link
  between two tracers can be: who has dialed is queued or in the table (`Served`),
  who is queued has said Hello or is about to (`Announced`), and nobody goes silent
  or fails but for a reason that lasts (`Silent`, `FailedForAReason`).
* `TracerDkgProofs`, under `DkgAssumption`:
  * `TypeOK`;
  * the inductive invariant `IInv` = types, `Barrier` (no tracer is past an
    exchange another has not entered), `Collected` (the Combiner holds the
    `pk_k` of exactly the tracers below `next`, each of which has reported),
    `KeyFromEveryTracer` and `AgreedGroupKey`. `AgreedGroupKey` alone is not
    inductive: that the group key no longer changes once a tracer compared its
    own with it needs `Collected`, and that its QUAL does not change needs the
    phases. `TracedByAll` follows: a tracer that traced has returned from the
    third exchange, so by `Barrier` every tracer has entered it, having
    accepted, so by `AgreedGroupKey` and `KeyFromEveryTracer` with a QUAL of all
    tracers;
  * `FailsOnlyDisturbed`: a process ends with an error only if one died, data does
    not verify, or the clock has passed `MaxAge`. Inductive with it are `Stamps` (no
    package is postdated) and `Smooth` (undisturbed, a tracer holds everybody's
    broadcast, share and partial decryption once it is through with the round that
    brings them), so that its QUAL is the Combiner's `pk_e` and `t_e` partial
    decryptions are there;
  * `ImplementsMeshRounds`: initial states map to initial states, and each step
    is a `Start`, a `Complete` or a stutter of `MeshRounds`;
  * `NobodyStuckTheorem`, without exception: a tracer stuck in a round waits for one
    that is alive and has not entered it. So nobody is stuck in the first round, then
    nobody in the second; the Combiner, which waits for reports, is then not stuck
    either, so it has ended; then the attestation is there (`AttestedInOrder`) or its
    link closed, and nobody waits for it, nor in the third round.

  These cover every choice of defects (`BadBroadcast`, `BadShares`) and any number
  of deaths, of which the runs try a few. The facts about `Thresholds` are here too: the
  thresholds are reachable, and any two quorums overlap (in more than a third of the
  tracers), by counting with the cardinality theorems of the library.
* `BootstrapProofs`, under `BootstrapAssumption`: `TypeOK`, `AnchorReadable`,
  `VouchedRoster`, `OnlyLateReadersReject`. Invariant: `Anchored` (this
  Authority's connections exist only once the file holds its anchor, and nothing
  replaces it afterwards) and `Enrolled` (`Held`: the holder of a slot claimed it
  at that very Authority; `Sealed`: a package goes to a holder, with no slot open,
  sealed when it is sent). `NobodyStuckTheorem` excepts the one wait of
  `BootstrapEnds`, `Starved`: an Authority whose queue is empty and a slot of which
  nobody can still claim.
* `SigningProofs`, under `SigningAssumption`: `TypeOK`, `NoPanic`,
  `SignedOnAllCommitments`, `AttestedByAll`, `NothingRecomputed`. Invariant:
  * `Links`: one link per slot (`OneLinkPerSlot`), the Combiner leaves its accept
    loop with as many links as there are slots (`Counted`), and hence with every
    slot taken (`Full`, a pigeonhole argument by the library's theorem on
    injections into finite sets);
  * `Attested`: in each loop the Combiner has the keys, commitments or shares of
    exactly the ids before `next`, each from a participant that had sent it
    (`Reported`, `Committed`, `Shares`); the one whose package verified is of this
    run (`GenuineSigner`), so that no slot it got through is a leftover's;
  * `Computed`: after each step of the pipeline exactly the fields its
    predecessors fill are filled, from which no `expect` fails and no field is
    filled twice.

  `NobodyStuckTheorem` has the exceptions of `NobodyHangs`, sharpened: a signer may
  retry its connection after the Combiner has ended, and the Combiner may wait for a
  participant that died before it got through (`Missed`), or in a tracer's place for
  a mesh that lost one. It adds `Arrivals` to the invariant: who got through waits
  in the backlog or finds its slot taken (`GotThrough`), a link is kept only after
  its Hello (`Greeted`), a key is reported only once the mesh is up (`InRole`), and
  the challenge reached every link before the Combiner waits for shares (`Asked`).
  A Combiner that waits with an empty backlog therefore has a slot open, by the
  pigeonhole argument the other way round (`EverySlotIsFull`), and its participant
  has not got through.
* `ScenarioProofs`, under `ScenarioAssumption` (what a tracer prints fits a pipe,
  and what a signer prints with one line per bind attempt; the Combiner may print
  any amount): `TypeOK`, `OkMeansEverybody`,
  `NothingLeftRunning`. Invariant: whoever was waited for has ended, and as long
  as `ok` holds it succeeded with every line collected (`Collected`); who
  succeeded printed all its lines (`Complete`). That a process which has ended
  does not change any more (`BecomeKeeps`) is what makes statuses taken one after
  the other, in another order than the processes end, a statement about the end.

  `NobodyStuckTheorem` has the exceptions of `ScenarioEnds` (`Stuck`). Its invariant
  `Places` says what each process has done by where it is (spawned in order, enrolled,
  given its package, joined, on the Combiner's list in order, in one mesh or none, its
  last line printed). No full pipe stops a run: the Combiner's is read first, however
  much it prints, and a participant's has room as long as the Combiner is there to wait
  for it: a pipe holds at most the lines printed and one per refusal, and refusals
  follow the Combiner's attempts. Here the bound on the lines is needed: with a
  longer output of a signer, the Combiner waits for a process that nobody reads.

* `BenchmarkProofs`, under `BenchmarkAssumption` (the outputs are finite sequences
  of lines, every actor has a role, measured values are naturals): `TypeOK`,
  `ExitTellsFailures`, `RawKeepsCompletedRuns`, `SummaryFromRaw`, for any command
  line, any number of repeats and anything the runs may print. The first invariant,
  `IInv`, is about one run after the other:
  * `Position` and `Progress`: `done` holds exactly the runs asked for before the
    one `index` and `run` stand at, in order. `ExitTellsFailures` is not inductive
    without it: it compares `done` with all that was asked, but only at the end;
  * `Counting`: the summarizer's counters are the successful runs among those, so
    that all of them counted means that none failed;
  * `Collected`: the records at hand are those of the run being written;
  * `RawInv`: the raw files are emptied one by one, and once they are a role's file
    is the rows of the completed runs, then those of the records already written
    (`Writing`), or, interrupted, the first of them;
  * `SummaryInv`: the summary and the rows still to be written are what the
    summarizer says.

  The second, `SInv`, adds what relates the summarizer to the files:
  * `DoneInv`: the completed runs are of the suite, and no two are the same run of
    the same scenario. Without it a row would not tell which run it is of. It rests
    on the scenarios of a suite being distinct, which for the default suite is
    found by computing it (`Suites`);
  * `FilesInv`: a file is the rows of the completed runs with rows of no completed
    run behind them (`Foreign`), so that filtering it by the successful runs leaves
    their rows alone;
  * `SummarizerInv`: the summarizer holds the samples, and the counts, of all
    successful runs (`Summarized`), or of all but the last while that one is added;
  * `RowsInv`: rows wait to be written only while they are.

  Between the invariant and the property lie facts about the code's algorithms, for
  every input: `add_record` over the records of a run appends, per key, its values
  in order, and a new key goes to the end (`AddRunPools`, `PooledFrom`); the sort of
  `summaries` is stable and gives suite order, role order, then first appearance
  (`SortedFacts`, `SuiteSorted`), said by counting what precedes an element; the
  squared deviations from the mean are the pairwise squared differences
  (`Variance`); nested maps and concatenations commute as the rows of a file and
  the samples of a summarizer need them to (`FlatMap...`). Each of these is an
  induction over the length of a sequence. The library's induction theorems cannot
  be applied here, as they take an operator; the proofs use instead a set of
  naturals that contains 0 and is closed under successor (`AllOfNat`, by a least
  element outside it) and its counterpart for sequences, and read a fold as the
  function of its stages (`FoldsUp`).

All safety properties of the runs that pass, invariants, action properties and
refinements alike, are proved. Only model-checked is liveness (`NobodyHangs`,
`EveryoneEnds`, `EventuallyMesh`, `RunSucceeds`, `BootstrapEnds`,
`BootstrapSucceeds`, `ScenarioEnds`, `FailureHasACause`): its proofs need
`ENABLED`, which is out of the prover's reach. What the theorems leave
to TLC of the first kind of them, that everything ends, is that the fair steps come
to an end; of the second, that everything succeeds, also that nobody fails.

## 5. Not modelled, and why

* The cryptography (`crypto.rs` beyond freshness, `taps_tt`): out of a state
  model's reach; its results are the verdicts above.
* `src/lib.rs`: module declarations.
* A second challenge on one nonce: `Signer::set_sigma` would answer it, but
  `bin/signer.rs` calls it once and ends.
* The driver's own end: a spawn or a file that fails panics it, and leaves the
  processes spawned before running. Nothing in the code handles it. An
  interruption of a series is modelled as far as the files go (`Interrupt`).
* The pause between two runs (`src/bin/benchmark.rs:148`): the models of a run
  start from every state an earlier run can leave, however long ago.
* Floating point in the statistics, and the layout of the tables.
* `README.md` of the repository says that signers and tracers retry the Combiner
  every 500 ms; signers wait 2 s (`src/bin/signer.rs:94`). The models do not
  depend on it.

------------------------------ MODULE Scenario ------------------------------
(***************************************************************************)
(* One run of the benchmark driver, run_scenario in src/bin/benchmark.rs:  *)
(* it spawns the Authority, the Combiner, the tracers and the signers,     *)
(* waits for each of them, collects what they print and ends the Authority *)
(* if it is still there.  It composes the processes of the other modules,  *)
(* each reduced to what makes it wait, print, fail and end.                *)
(*                                                                         *)
(* A child's stdout is a pipe of PipeLines lines that the driver empties   *)
(* while it waits for that child, and at no other time.                    *)
(***************************************************************************)
EXTENDS Integers, Sequences, FiniteSets

CONSTANTS N, N3,       \* signers and tracers
          Lines,       \* Lines[role]: lines of protocol an actor prints
          PipeLines,   \* lines that fit into a stdout pipe
          PortsInUse,  \* processes whose port somebody else may still hold
          Attempts,    \* bind attempts before giving up (60 in the code)
          MaxFaults    \* processes that die, or reject a package, at most

Roles == {"Authority", "Combiner", "Signer", "Tracer"}

Process(role, id) == [role |-> role, id |-> id]
authority == Process("Authority", 0)
combiner == Process("Combiner", 0)
signer_handles == [i \in 1 .. N |-> Process("Signer", i - 1)]
tracer_handles == [k \in 1 .. N3 |-> Process("Tracer", k - 1)]
Signers == {signer_handles[i] : i \in 1 .. N}
Tracers == {tracer_handles[k] : k \in 1 .. N3}
Participants == Signers \cup Tracers
Actors == Participants \cup {combiner}
Processes == Actors \cup {authority}

\* Every tracer but the last has higher ones that dial it, and so a listener.
Binds(t) == t \in Tracers /\ t # tracer_handles[N3]
Servers == {authority, combiner} \cup {t \in Tracers : Binds(t)}

\* What a signer and a tracer print fits into their pipe, together with one
\* line per dial that a Combiner still trying its port may refuse.
ASSUME ScenarioAssumption ==
  /\ N \in Nat \ {0} /\ N3 \in Nat \ {0}
  /\ Lines \in [Roles \ {"Authority"} -> Nat \ {0}]
  /\ PipeLines \in Nat \ {0} /\ Attempts \in Nat \ {0}
  /\ Lines["Signer"] + Attempts <= PipeLines /\ Lines["Tracer"] <= PipeLines
  /\ PortsInUse \subseteq Servers /\ MaxFaults \in Nat

\* The orders in which the driver spawns and waits and the Authority sends its
\* packages.
SpawnOrder == <<authority, combiner>> \o tracer_handles \o signer_handles
WaitOrder == <<combiner>> \o signer_handles \o tracer_handles \o <<authority>>
PackageOrder == signer_handles \o <<combiner>> \o tracer_handles

VARIABLES spawned,    \* processes spawned, in SpawnOrder
          waited,     \* processes waited for, in WaitOrder
          ok,         \* no failure seen so far
          pipe,       \* pipe[a]: lines in a's stdout the driver has not read
          printed,    \* printed[a]: lines of protocol a has printed
          st,         \* st[p]: where process p is, see TypeOK
          binds,      \* binds[p]: bind attempts of p that failed
          refusals,   \* refusals[p]: dials refused by the living Combiner
          enrolled,   \* actors registered at the Authority
          sent,       \* packages the Authority has sent, in PackageOrder
          joined,     \* participants registered at the Combiner
          issued,     \* 1 once the challenge is out, 2 with the attestation
          handed,     \* participants that handed in their pk_k or share
          opened      \* tracers that sent out their partial decryption

driverVars == <<spawned, waited, ok>>
pipeVars == <<pipe, printed, refusals>>
authVars == <<enrolled, sent>>
combVars == <<joined, issued, handed, opened>>
vars == <<driverVars, pipeVars, st, binds, authVars, combVars>>

EndStates == {"ok", "refused", "unbound", "rejected", "failed", "crashed", "killed"}
Ended(p) == st[p] \in EndStates
Alive(p) == ~Ended(p) /\ st[p] # "unborn"
Broken(p) == Ended(p) /\ st[p] # "ok"
Waiting == spawned = Len(SpawnOrder) /\ waited < Len(WaitOrder)
Awaited == WaitOrder[waited + 1]
Returned == waited = Len(WaitOrder)
keyed == {PackageOrder[i] : i \in 1 .. sent}

\* The types; a pipe never holds more than it can.
TypeOK ==
  /\ spawned \in 0 .. Len(SpawnOrder) /\ waited \in 0 .. Len(WaitOrder)
  /\ ok \in BOOLEAN /\ binds \in [Servers -> 0 .. Attempts]
  /\ st \in [Processes -> EndStates \cup
       {"unborn", "starting", "retrying", "listening", "registered", "keyed",
        "joined", "dialing", "meshed", "running", "handed"}]
  /\ \A a \in Actors : printed[a] \in 0 .. Lines[a.role] /\ pipe[a] \in 0 .. PipeLines
  /\ refusals \in [Signers -> 0 .. Attempts]
  /\ sent \in 0 .. Len(PackageOrder) /\ issued \in 0 .. 2
  /\ enrolled \subseteq Actors /\ joined \subseteq Participants
  /\ handed \subseteq joined /\ opened \subseteq handed \cap Tracers

Init ==
  /\ spawned = 0 /\ waited = 0 /\ ok = TRUE
  /\ pipe = [a \in Actors |-> 0] /\ printed = [a \in Actors |-> 0]
  /\ st = [p \in Processes |-> "unborn"]
  /\ binds = [p \in Servers |-> 0] /\ refusals = [p \in Signers |-> 0]
  /\ enrolled = {} /\ sent = 0
  /\ joined = {} /\ issued = 0 /\ handed = {} /\ opened = {}

Become(p, state) == st' = [st EXCEPT ![p] = state]

-----------------------------------------------------------------------------
(* The driver *)

\* Mutant: no sleep between the Authority and the Combiner.
SpawnAtOnce ==
  /\ spawned < Len(SpawnOrder)
  /\ Become(SpawnOrder[spawned + 1], "starting")
  /\ spawned' = spawned + 1
  /\ UNCHANGED <<waited, ok, pipeVars, binds, authVars, combVars>>

\* The 2 s before the Combiner are enough for the Authority to have tried its
\* port.  Of the other delays nothing is assumed.
Spawn ==
  /\ spawned < Len(SpawnOrder)
  /\ LET p == SpawnOrder[spawned + 1] IN
       /\ p = combiner => st[authority] # "starting"
       /\ Become(p, "starting")
  /\ spawned' = spawned + 1
  /\ UNCHANGED <<waited, ok, pipeVars, binds, authVars, combVars>>

\* Mutant: the output is read once the child has exited, wait() and then read.
ReadOutputAfterExit ==
  /\ Waiting /\ Awaited \in Actors /\ pipe[Awaited] > 0
  /\ Ended(Awaited)
  /\ pipe' = [pipe EXCEPT ![Awaited] = 0]
  /\ UNCHANGED <<driverVars, printed, refusals, st, binds, authVars, combVars>>

\* wait_with_output: the pipe is read while the child runs ...
ReadOutput ==
  /\ Waiting /\ Awaited \in Actors /\ pipe[Awaited] > 0
  /\ pipe' = [pipe EXCEPT ![Awaited] = 0]
  /\ UNCHANGED <<driverVars, printed, refusals, st, binds, authVars, combVars>>

\* Mutant: only the last status counts.
WaitLastStatus ==
  /\ Waiting /\ Awaited \in Actors
  /\ Ended(Awaited) /\ pipe[Awaited] = 0
  /\ ok' = (st[Awaited] = "ok")
  /\ waited' = waited + 1
  /\ UNCHANGED <<spawned, pipeVars, st, binds, authVars, combVars>>

\* ... to its end, and then the exit status is taken.
WaitWithOutput ==
  /\ Waiting /\ Awaited \in Actors
  /\ Ended(Awaited) /\ pipe[Awaited] = 0
  /\ ok' = (ok /\ st[Awaited] = "ok")
  /\ waited' = waited + 1
  /\ UNCHANGED <<spawned, pipeVars, st, binds, authVars, combVars>>

\* Mutant: an Authority that is still there is left alone.
TryWaitNoKill ==
  /\ Waiting /\ Awaited = authority
  /\ ok' = (ok /\ ~Broken(authority))
  /\ waited' = waited + 1
  /\ UNCHANGED <<spawned, pipeVars, st, binds, authVars, combVars>>

\* authority.try_wait(), and kill() and wait() if it is still there.
TryWait ==
  /\ Waiting /\ Awaited = authority
  /\ IF Ended(authority) THEN ok' = (ok /\ st[authority] = "ok") /\ UNCHANGED st
                         ELSE UNCHANGED ok /\ Become(authority, "killed")
  /\ waited' = waited + 1
  /\ UNCHANGED <<spawned, pipeVars, binds, authVars, combVars>>

-----------------------------------------------------------------------------
(* bind_with_retry: the Authority's, the Combiner's and a tracer's listener *)

\* Whether p has come to its listener.
AtListener(p) ==
  st[p] \in IF p = authority THEN {"starting", "retrying"}
            ELSE IF p = combiner THEN {"keyed"} ELSE {"joined"}

\* A port that was held may be free at any attempt.
Bind(p) ==
  /\ AtListener(p)
  /\ Become(p, IF p \in Tracers THEN "dialing" ELSE "listening")
  /\ UNCHANGED <<driverVars, pipeVars, binds, authVars, combVars>>

BindInUse(p) ==
  /\ AtListener(p) /\ p \in PortsInUse
  /\ binds' = [binds EXCEPT ![p] = @ + 1]
  /\ IF binds'[p] = Attempts THEN Become(p, "unbound")
     ELSE IF p = authority THEN Become(p, "retrying")
     ELSE UNCHANGED st
  /\ UNCHANGED <<driverVars, pipeVars, authVars, combVars>>

-----------------------------------------------------------------------------
(* The bootstrap *)

\* An actor connects once, and says Hello.
Register(a) ==
  /\ st[a] = "starting" /\ st[authority] = "listening"
  /\ Become(a, "registered")
  /\ enrolled' = enrolled \cup {a}
  /\ UNCHANGED <<driverVars, pipeVars, binds, sent, combVars>>

Refused(a) ==
  /\ st[a] = "starting" /\ st[authority] # "listening"
  /\ Become(a, "refused")
  /\ UNCHANGED <<driverVars, pipeVars, binds, authVars, combVars>>

\* The next package; sending to an actor that is gone may fail, and ends the
\* Authority there.
SendPackage ==
  /\ st[authority] = "listening" /\ enrolled = Actors /\ sent < Len(PackageOrder)
  /\ \/ sent' = sent + 1 /\ UNCHANGED st
     \/ Ended(PackageOrder[sent + 1]) /\ Become(authority, "failed") /\ UNCHANGED sent
  /\ UNCHANGED <<driverVars, pipeVars, binds, enrolled, combVars>>

SetupComplete ==
  /\ st[authority] = "listening" /\ sent = Len(PackageOrder)
  /\ Become(authority, "ok")
  /\ UNCHANGED <<driverVars, pipeVars, binds, authVars, combVars>>

\* The package, or the end of an Authority that did not send it.
ReceivePackage(a) ==
  /\ st[a] = "registered"
  /\ \/ a \in keyed /\ Become(a, "keyed")
     \/ a \notin keyed /\ Ended(authority) /\ Become(a, "failed")
  /\ UNCHANGED <<driverVars, pipeVars, binds, authVars, combVars>>

-----------------------------------------------------------------------------
(* The Combiner, the signers and the tracers *)

HasRoom(a) == pipe[a] < PipeLines

\* "Connected to Combiner!" is printed before the Hello.
Join(p) ==
  /\ st[p] = "keyed" /\ st[combiner] = "listening" /\ HasRoom(p)
  /\ Become(p, "joined")
  /\ joined' = joined \cup {p}
  /\ UNCHANGED <<driverVars, pipeVars, binds, authVars, issued, handed, opened>>

\* Mutant: a signer that is refused tries again at once.
NotReadyAtOnce(p) ==
  /\ p \in Signers /\ st[p] = "keyed" /\ st[combiner] # "listening" /\ HasRoom(p)
  /\ pipe' = [pipe EXCEPT ![p] = @ + 1]
  /\ UNCHANGED <<driverVars, printed, refusals, st, binds, authVars, combVars>>

\* A signer prints a line per refused dial, for ever.  It sleeps 2 s after each,
\* and so does the Combiner after each failed bind: one dial per attempt.
NotReady(p) ==
  /\ p \in Signers /\ st[p] = "keyed" /\ st[combiner] # "listening" /\ HasRoom(p)
  /\ IF Ended(combiner) THEN UNCHANGED refusals
     ELSE /\ refusals[p] <= binds[combiner]
          /\ refusals' = [refusals EXCEPT ![p] = @ + 1]
  /\ pipe' = [pipe EXCEPT ![p] = @ + 1]
  /\ UNCHANGED <<driverVars, printed, st, binds, authVars, combVars>>

\* What the Combiner printed so far includes two lines per connection.
StartProtocol ==
  /\ st[combiner] = "listening" /\ joined = Participants
  /\ printed[combiner] = Lines["Combiner"] - 1
  /\ Become(combiner, "running")
  /\ UNCHANGED <<driverVars, pipeVars, binds, authVars, combVars>>

\* TracerMesh::establish returns once every listener is there and every tracer
\* takes part.
MeshUp ==
  /\ \A t \in Tracers : st[t] = IF Binds(t) THEN "dialing" ELSE "joined"
  /\ st' = [p \in Processes |-> IF p \in Tracers THEN "meshed" ELSE st[p]]
  /\ UNCHANGED <<driverVars, pipeVars, binds, authVars, combVars>>

\* A tracer's pk_k, a signer's share once the challenge is there.
HandIn(p) ==
  /\ \/ p \in Tracers /\ st[p] = "meshed"
     \/ p \in Signers /\ st[p] = "joined" /\ issued > 0
  /\ printed[p] = Lines[p.role] - 1
  /\ Become(p, "handed")
  /\ handed' = handed \cup {p}
  /\ UNCHANGED <<driverVars, pipeVars, binds, authVars, joined, issued, opened>>

\* The challenge follows the keys and commitments, the attestation the shares.
Issue ==
  /\ st[combiner] = "running"
  /\ \/ issued = 0 /\ Tracers \subseteq handed
     \/ issued = 1 /\ handed = Participants
  /\ issued' = issued + 1
  /\ UNCHANGED <<driverVars, pipeVars, st, binds, authVars, joined, handed, opened>>

\* A tracer has verified the attestation and sends its partial decryption.
Verify(t) ==
  /\ st[t] = "handed" /\ t \in Tracers \ opened /\ issued = 2
  /\ opened' = opened \cup {t}
  /\ UNCHANGED <<driverVars, pipeVars, st, binds, authVars, joined, issued, handed>>

\* A signer has sent its share, the Combiner the attestation, and a tracer has
\* every partial decryption.
Done(a) ==
  \/ a \in Signers /\ st[a] = "handed"
  \/ a = combiner /\ st[a] = "running" /\ issued = 2
  \/ a \in Tracers /\ st[a] = "handed" /\ opened = Tracers

\* Mutant: println! never blocks.
PrintAnyway(a) ==
  /\ st[a] \in {"keyed", "joined", "dialing", "meshed", "handed", "listening", "running"}
  /\ printed[a] < IF Done(a) THEN Lines[a.role] ELSE Lines[a.role] - 1
  /\ printed' = [printed EXCEPT ![a] = @ + 1]
  /\ pipe' = [pipe EXCEPT ![a] = @ + 1]
  /\ UNCHANGED <<driverVars, refusals, st, binds, authVars, combVars>>

\* println! blocks while the pipe is full; the last line comes at the end.
PrintLine(a) ==
  /\ st[a] \in {"keyed", "joined", "dialing", "meshed", "handed", "listening", "running"}
  /\ HasRoom(a)
  /\ printed[a] < IF Done(a) THEN Lines[a.role] ELSE Lines[a.role] - 1
  /\ printed' = [printed EXCEPT ![a] = @ + 1]
  /\ pipe' = [pipe EXCEPT ![a] = @ + 1]
  /\ UNCHANGED <<driverVars, refusals, st, binds, authVars, combVars>>

Finish(a) ==
  /\ Done(a) /\ printed[a] = Lines[a.role]
  /\ Become(a, "ok")
  /\ UNCHANGED <<driverVars, pipeVars, binds, authVars, combVars>>

\* A link read in id order is found closed when it is its turn.
FoundClosed(links) ==
  \E i \in 1 .. Len(links) : /\ \A j \in 1 .. i - 1 : links[j] \in handed
                             /\ links[i] \notin handed /\ Ended(links[i])

\* The Combiner notices an end when it comes to that link; sending the challenge
\* or the attestation to a participant that is gone may fail.
CombinerFails ==
  /\ st[combiner] = "running"
  /\ \/ issued = 0 /\ FoundClosed(tracer_handles)
     \/ issued = 0 /\ Tracers \subseteq handed /\ \E p \in Signers : Ended(p)
     \/ issued = 1 /\ FoundClosed(signer_handles)
     \/ issued = 1 /\ handed = Participants /\ \E t \in Tracers : Ended(t)
  /\ Become(combiner, "failed")
  /\ UNCHANGED <<driverVars, pipeVars, binds, authVars, combVars>>

\* A participant that reads from the Combiner, or a tracer from its peers,
\* notices the end of the link.
ParticipantFails(p) ==
  /\ \/ /\ Broken(combiner) /\ p \notin opened
        /\ st[p] \in IF p \in Signers THEN {"joined"} ELSE {"meshed", "handed"}
     \/ /\ p \in Tracers /\ (st[p] = "meshed" \/ (st[p] = "handed" /\ p \in opened))
        /\ \E t \in Tracers : Broken(t)
  /\ Become(p, "failed")
  /\ UNCHANGED <<driverVars, pipeVars, binds, authVars, combVars>>

MoreFaults ==
  Cardinality({p \in Processes : st[p] \in {"crashed", "rejected"}}) < MaxFaults

\* A package that is there to be opened is older than 60 s, or does not verify:
\* the Authority's, a peer's key shares, pk_k, a commitment, the challenge, a
\* share, the attestation, a partial decryption.
Reject(a) ==
  /\ MoreFaults
  /\ \/ st[a] = "registered" /\ a \in keyed
     \/ a = combiner /\ st[a] = "running" /\ issued = 0 /\ tracer_handles[1] \in handed
     \/ a = combiner /\ st[a] = "running" /\ issued = 1 /\ signer_handles[1] \in handed
     \/ a \in Signers /\ st[a] = "joined" /\ issued > 0
     \/ a \in Tracers /\ st[a] = "meshed"
     \/ a \in Tracers \ opened /\ st[a] = "handed" /\ issued = 2
     \/ a \in Tracers /\ st[a] = "handed" /\ opened = Tracers
  /\ Become(a, "rejected")
  /\ UNCHANGED <<driverVars, pipeVars, binds, authVars, combVars>>

-----------------------------------------------------------------------------
(* The environment *)

Crash(p) ==
  /\ MoreFaults /\ Alive(p)
  /\ Become(p, "crashed")
  /\ UNCHANGED <<driverVars, pipeVars, binds, authVars, combVars>>

Binding(p) == Bind(p) \/ BindInUse(p)
DriverStep == Spawn \/ ReadOutput \/ WaitWithOutput \/ TryWait
AuthorityStep == Binding(authority) \/ SendPackage \/ SetupComplete
CombinerStep == Binding(combiner) \/ StartProtocol \/ Issue \/ CombinerFails
ActorStep(a) == Register(a) \/ Refused(a) \/ ReceivePackage(a) \/ PrintLine(a) \/ Finish(a)
ParticipantStep(p) ==
  \/ Join(p) \/ NotReady(p) \/ HandIn(p) \/ Verify(p) \/ ParticipantFails(p)
  \/ Binds(p) /\ Binding(p)

Next ==
  \/ DriverStep \/ AuthorityStep \/ CombinerStep \/ MeshUp
  \/ \E a \in Actors : ActorStep(a) \/ Reject(a)
  \/ \E p \in Participants : ParticipantStep(p)
  \/ \E p \in Processes : Crash(p)

Spec == Init /\ [][Next]_vars

\* Every process keeps going.  Nothing is assumed of the ports.
FairSpec ==
  /\ Spec
  /\ WF_vars(DriverStep) /\ WF_vars(AuthorityStep) /\ WF_vars(MeshUp)
  /\ WF_vars(CombinerStep \/ ActorStep(combiner))
  /\ \A p \in Participants : WF_vars(ActorStep(p) \/ ParticipantStep(p))

-----------------------------------------------------------------------------
(* Properties *)

\* benchmark.rs: "Returns whether every actor succeeded".  The statuses are
\* taken one by one and in another order than the processes end: success is
\* reported only if all of them succeeded, and then with every timing.
OkMeansEverybody ==
  Returned /\ ok =>
    \A a \in Actors : st[a] = "ok" /\ printed[a] = Lines[a.role] /\ pipe[a] = 0

\* Nothing is left that could hold a port or reach the next run's processes.
NothingLeftRunning == Returned => \A p \in Processes : ~Alive(p)

\* The waits that do not end.  None of these processes has a timeout.
Stuck ==
  \/ st[authority] = "listening" /\ \E a \in Actors \ enrolled : Ended(a)
  \/ Ended(combiner) /\ \E p \in Participants : st[p] = "keyed"
  \/ st[combiner] = "listening" /\ \E p \in Participants \ joined : Ended(p)
  \/ \E t, u \in Tracers : st[t] \in {"joined", "dialing"} /\ Ended(u)

\* The driver returns, whoever dies, fails to bind or rejects a package, unless
\* a process that is gone is waited for by another that cannot notice: the
\* Authority or the Combiner in its accept loop, a participant without a
\* Combiner, a tracer without its mesh.  In particular no full pipe stops it,
\* though the signers print while the Combiner waits for its port.
ScenarioEnds == <>[](Returned \/ Stuck)

\* What a run can fail of, however the failure spreads over its processes: the
\* Authority was refused its port (the Combiner then dials before it listens), a
\* process died, was refused its port to the last attempt, or rejected a package.
FailureHasACause ==
  <>[](\/ Returned /\ ok
       \/ binds[authority] > 0
       \/ \E p \in Processes : st[p] \in {"crashed", "unbound", "rejected"})

\* network.rs, bind_with_retry: "Retrying here means that delay is absorbed
\* automatically instead of failing the whole run."
BindDelayAbsorbed == [](binds[authority] < Attempts) => <>(Returned /\ ok)
=============================================================================

----------------------------- MODULE TracerMesh -----------------------------
(***************************************************************************)
(* TracerMesh::establish (src/tracer_mesh.rs): tracer k binds its port,    *)
(* dials every lower tracer in order and says Hello on each connection,    *)
(* then accepts one connection from every higher tracer.  The connections  *)
(* of a port queue up in its backlog and are served one at a time.         *)
(*                                                                         *)
(* The surroundings are those of runs made back to back on one machine     *)
(* (src/network.rs): a port may still be in TIME_WAIT, a tracer of an      *)
(* earlier run may still listen on it, and such a tracer may still be      *)
(* dialing ours.  A Hello is abstracted to the id it claims and the        *)
(* identity key it carries, the key of roster[id] being id itself.         *)
(***************************************************************************)
EXTENDS Integers, Sequences, FiniteSets

CONSTANTS N3,           \* number of tracers
          Attempts,     \* bind attempts before giving up (60 in the code)
          BusyPorts,    \* tracers whose port starts out in TIME_WAIT
          OldListeners, \* tracers whose port an earlier tracer listens on
          Strays,       \* connections of other processes to our ports
          StrayHello,   \* StrayHello[s]: the Hello process s would say
          CanCrash      \* whether a tracer may die while establishing

Tracers == 0 .. N3 - 1
Unknown == N3           \* an identity key that is in no roster
Hellos == [id : Nat, role : {"Signer", "Tracer"}, identity : Tracers \cup {Unknown}]

ASSUME MeshAssumption ==
  /\ N3 \in Nat \ {0}
  /\ Attempts \in Nat \ {0}
  /\ BusyPorts \subseteq Tracers
  /\ OldListeners \subseteq Tracers
  /\ Strays \cap Tracers = {}
  /\ \A s \in Strays : StrayHello[s] \in Hellos /\ StrayHello[s].identity = Unknown
  /\ CanCrash \in BOOLEAN

VARIABLES phase,      \* phase[k]: bind, dial, accept, up, failed or crashed
          attempts,   \* attempts[k]: binds of k that found the port in use
          busyPort,   \* ports the OS has not released yet
          oldPort,    \* ports a tracer of an earlier run listens on
          listening,  \* tracers with a bound listener
          backlog,    \* backlog[k]: who is queued at k's port, in order
          said,       \* said[k]: whose Hello has arrived on its link to k
          gone,       \* gone[k]: who closed its link to k without a Hello
          dialing,    \* dialing[k]: the next lower tracer k dials
          connected,  \* connected[k]: "no", or what answered k's dial
          link,       \* link[k][p]: what k's link to p leads to, for p < k
          peers,      \* peers[k]: ids in k's table of streams
          strayAt     \* strayAt[s]: the port process s is connected to, or -1

vars == <<phase, attempts, busyPort, oldPort, listening, backlog, said, gone,
          dialing, connected, link, peers, strayAt>>
portVars == <<attempts, busyPort, oldPort>>
queueVars == <<backlog, said, gone, strayAt>>
dialVars == <<dialing, connected, link>>

Clients == Tracers \cup Strays

\* The Hello of a client: bin/tracer.rs sends its own id and identity key.
HelloOf(c) == IF c \in Strays THEN StrayHello[c]
                              ELSE [id |-> c, role |-> "Tracer", identity |-> c]

expected_inbound(k) == N3 - 1 - k

\* The types; at most Attempts binds, and no two owners of a port.
TypeOK ==
  /\ phase \in [Tracers -> {"bind", "dial", "accept", "up", "failed", "crashed"}]
  /\ attempts \in [Tracers -> 0 .. Attempts]
  /\ busyPort \subseteq Tracers /\ oldPort \subseteq Tracers
  /\ listening \subseteq Tracers \ (busyPort \cup oldPort)
  /\ \A k \in Tracers : \A i \in 1 .. Len(backlog[k]) : backlog[k][i] \in Clients
  /\ said \in [Tracers -> SUBSET Clients]
  /\ gone \in [Tracers -> SUBSET Clients]
  /\ \A k \in Tracers : dialing[k] \in 0 .. k
  /\ connected \in [Tracers -> {"no", "peer", "old"}]
  /\ link \in [Tracers -> [Tracers -> {"none", "peer", "old"}]]
  /\ \A k \in Tracers : peers[k] \subseteq Tracers \ {k}
  /\ strayAt \in [Strays -> Tracers \cup {-1}]

Init ==
  /\ phase = [k \in Tracers |-> IF N3 = 1 THEN "up" ELSE "bind"]
  /\ attempts = [k \in Tracers |-> 0]
  /\ busyPort = BusyPorts
  /\ oldPort = OldListeners
  /\ listening = {}
  /\ backlog = [k \in Tracers |-> <<>>]
  /\ said = [k \in Tracers |-> {}]
  /\ gone = [k \in Tracers |-> {}]
  /\ dialing = [k \in Tracers |-> 0]
  /\ connected = [k \in Tracers |-> "no"]
  /\ link = [k \in Tracers |-> [p \in Tracers |-> "none"]]
  /\ peers = [k \in Tracers |-> {}]
  /\ strayAt = [s \in Strays |-> -1]

-----------------------------------------------------------------------------
(* One tracer *)

\* bind_with_retry succeeds; the highest tracer, which nobody dials, has no
\* listener at all.
Bind(k) ==
  /\ phase[k] = "bind"
  /\ IF expected_inbound(k) > 0
       THEN k \notin busyPort \cup oldPort /\ listening' = listening \cup {k}
       ELSE UNCHANGED listening
  /\ phase' = [phase EXCEPT ![k] = "dial"]
  /\ UNCHANGED <<portVars, queueVars, dialVars, peers>>

\* Mutant: the attempts are not bounded.
BindInUseForever(k) ==
  /\ phase[k] = "bind" /\ expected_inbound(k) > 0
  /\ k \in busyPort \cup oldPort
  /\ attempts' = [attempts EXCEPT ![k] = @ + 1]
  /\ UNCHANGED <<phase, busyPort, oldPort, listening, queueVars, dialVars, peers>>

\* The address is in use: try again later, a bounded number of times.
BindInUse(k) ==
  /\ phase[k] = "bind" /\ expected_inbound(k) > 0
  /\ k \in busyPort \cup oldPort
  /\ attempts' = [attempts EXCEPT ![k] = @ + 1]
  /\ phase' = [phase EXCEPT ![k] = IF attempts'[k] = Attempts THEN "failed" ELSE @]
  /\ UNCHANGED <<busyPort, oldPort, listening, queueVars, dialVars, peers>>

\* TcpStream::connect succeeds: somebody listens there.  The dialer cannot
\* tell our tracer from an earlier one; a refused dial is retried for ever.
Connect(k) ==
  /\ phase[k] = "dial" /\ dialing[k] < k /\ connected[k] = "no"
  /\ LET p == dialing[k] IN
       \/ /\ p \in listening
          /\ connected' = [connected EXCEPT ![k] = "peer"]
          /\ backlog' = [backlog EXCEPT ![p] = Append(@, k)]
       \/ /\ p \in oldPort
          /\ connected' = [connected EXCEPT ![k] = "old"]
          /\ UNCHANGED backlog
  /\ UNCHANGED <<phase, portVars, listening, said, gone, strayAt, dialing, link, peers>>

\* The Hello goes out and the link is entered in the table, on to the next.
SendHello(k) ==
  /\ phase[k] = "dial" /\ connected[k] # "no"
  /\ LET p == dialing[k] IN
       /\ said' = [said EXCEPT ![p] = IF connected[k] = "peer" THEN @ \cup {k} ELSE @]
       /\ link' = [link EXCEPT ![k][p] = connected[k]]
       /\ peers' = [peers EXCEPT ![k] = @ \cup {p}]
  /\ dialing' = [dialing EXCEPT ![k] = @ + 1]
  /\ connected' = [connected EXCEPT ![k] = "no"]
  /\ UNCHANGED <<phase, portVars, listening, backlog, gone, strayAt>>

\* The Hello cannot be written because the other end is gone.
SendHelloFails(k) ==
  /\ phase[k] = "dial" /\ connected[k] # "no"
  /\ \/ connected[k] = "peer" /\ phase[dialing[k]] \in {"failed", "crashed"}
     \/ connected[k] = "old" /\ dialing[k] \notin oldPort
  /\ phase' = [phase EXCEPT ![k] = "failed"]
  /\ listening' = listening \ {k}
  /\ UNCHANGED <<portVars, queueVars, dialVars, peers>>

\* Every lower tracer is dialed: on to the accept loop.
DialsDone(k) ==
  /\ phase[k] = "dial" /\ dialing[k] = k
  /\ phase' = [phase EXCEPT ![k] = "accept"]
  /\ UNCHANGED <<portVars, listening, queueVars, dialVars, peers>>

\* Mutant: the identity key is not compared with the roster.
AcceptableAnyKey(k, hello) ==
  /\ hello.role = "Tracer"
  /\ hello.id > k /\ hello.id < N3
  /\ hello.id \notin peers[k]

\* The guard on an inbound Hello.
Acceptable(k, hello) ==
  /\ hello.role = "Tracer"
  /\ hello.id > k /\ hello.id < N3
  /\ hello.id \notin peers[k]
  /\ hello.identity = hello.id

\* The next connection's Hello is there: the link is kept or closed.
AcceptHello(k) ==
  /\ phase[k] = "accept" /\ Cardinality(peers[k]) < N3 - 1
  /\ backlog[k] # <<>>
  /\ LET c == Head(backlog[k]) IN
       /\ c \in said[k]
       /\ peers' = [peers EXCEPT ![k] =
                      IF Acceptable(k, HelloOf(c)) THEN @ \cup {HelloOf(c).id} ELSE @]
  /\ backlog' = [backlog EXCEPT ![k] = Tail(@)]
  /\ UNCHANGED <<phase, portVars, listening, said, gone, strayAt, dialVars>>

\* Mutant: that ends the tracer (`?`), as it does the Combiner.
AcceptEofFatal(k) ==
  /\ phase[k] = "accept" /\ backlog[k] # <<>>
  /\ Head(backlog[k]) \in gone[k] \ said[k]
  /\ phase' = [phase EXCEPT ![k] = "failed"]
  /\ listening' = listening \ {k}
  /\ UNCHANGED <<portVars, queueVars, dialVars, peers>>

\* The next connection ends before any Hello: receive fails, loop on.
AcceptEof(k) ==
  /\ phase[k] = "accept" /\ Cardinality(peers[k]) < N3 - 1
  /\ backlog[k] # <<>>
  /\ Head(backlog[k]) \in gone[k] \ said[k]
  /\ backlog' = [backlog EXCEPT ![k] = Tail(@)]
  /\ UNCHANGED <<phase, portVars, listening, said, gone, strayAt, dialVars, peers>>

\* Mutant: the loop stops one link early.
EstablishedEarly(k) == Cardinality(peers[k]) + 1 >= N3 - 1

\* establish returns when there is one link per peer; the listener is
\* dropped and whatever is still queued is reset.
Established(k) == Cardinality(peers[k]) = N3 - 1

Return(k) ==
  /\ phase[k] = "accept" /\ Established(k)
  /\ phase' = [phase EXCEPT ![k] = "up"]
  /\ listening' = listening \ {k}
  /\ backlog' = [backlog EXCEPT ![k] = <<>>]
  /\ UNCHANGED <<portVars, said, gone, strayAt, dialVars, peers>>

\* The process dies: its half-open dial ends without a Hello.
Crash(k) ==
  /\ CanCrash /\ phase[k] \notin {"up", "failed", "crashed"}
  /\ phase' = [phase EXCEPT ![k] = "crashed"]
  /\ listening' = listening \ {k}
  /\ gone' = IF connected[k] = "peer"
               THEN [gone EXCEPT ![dialing[k]] = @ \cup {k}] ELSE gone
  /\ backlog' = [backlog EXCEPT ![k] = <<>>]
  /\ UNCHANGED <<portVars, said, strayAt, dialVars, peers>>

-----------------------------------------------------------------------------
(* The machine they share *)

\* The OS releases a port; an earlier tracer ends and frees its own.
ReleasePort(k) ==
  /\ k \in busyPort
  /\ busyPort' = busyPort \ {k}
  /\ UNCHANGED <<phase, attempts, oldPort, listening, queueVars, dialVars, peers>>

OldTracerEnds(k) ==
  /\ k \in oldPort
  /\ oldPort' = oldPort \ {k}
  /\ UNCHANGED <<phase, attempts, busyPort, listening, queueVars, dialVars, peers>>

\* Another process (a tracer of an earlier run that is still dialing, or one
\* started with the wrong role) connects to a listening tracer ...
StrayConnects(s, k) ==
  /\ strayAt[s] = -1 /\ k \in listening
  /\ strayAt' = [strayAt EXCEPT ![s] = k]
  /\ backlog' = [backlog EXCEPT ![k] = Append(@, s)]
  /\ UNCHANGED <<phase, portVars, listening, said, gone, dialVars, peers>>

\* ... and says its Hello, goes away without a word, or just sits there.
StraySpeaks(s) ==
  /\ strayAt[s] # -1 /\ s \notin said[strayAt[s]] \cup gone[strayAt[s]]
  /\ \/ /\ said' = [said EXCEPT ![strayAt[s]] = @ \cup {s}]
        /\ UNCHANGED gone
     \/ /\ gone' = [gone EXCEPT ![strayAt[s]] = @ \cup {s}]
        /\ UNCHANGED said
  /\ UNCHANGED <<phase, portVars, listening, backlog, strayAt, dialVars, peers>>

-----------------------------------------------------------------------------
TracerStep(k) ==
  \/ Bind(k) \/ BindInUse(k)
  \/ Connect(k) \/ SendHello(k) \/ SendHelloFails(k) \/ DialsDone(k)
  \/ AcceptHello(k) \/ AcceptEof(k) \/ Return(k)

Next ==
  \/ \E k \in Tracers : TracerStep(k) \/ Crash(k) \/ ReleasePort(k) \/ OldTracerEnds(k)
  \/ \E s \in Strays : StraySpeaks(s) \/ \E k \in Tracers : StrayConnects(s, k)

Spec == Init /\ [][Next]_vars

\* Every tracer keeps going.  Nothing is assumed of the ports, of the earlier
\* tracers, nor of a process that connected: it may never say a word.
FairSpec == Spec /\ \A k \in Tracers : WF_vars(TracerStep(k))

-----------------------------------------------------------------------------
\* A link tracer p accepted as tracer k's is the very connection k dialed to
\* p: once every tracer is up, every pair shares exactly one stream.  This is
\* what the identity check of the accept loop is for.
GenuineLinks ==
  \A p, k \in Tracers : (k > p /\ k \in peers[p]) =>
    /\ link[k][p] = "peer"
    /\ k \in said[p]

\* A mesh that is up has one link per peer, and every higher tracer has said
\* Hello: nobody's rounds start while a higher tracer is missing.
UpIsComplete ==
  \A p \in Tracers : phase[p] = "up" =>
    /\ peers[p] = Tracers \ {p}
    /\ \A k \in Tracers : k > p => k \in said[p] /\ dialing[k] > p

\* k dialed the port of p and got an earlier tracer.
LinkedToOld(k, p) == link[k][p] = "old" \/ (connected[k] = "old" /\ dialing[k] = p)

\* The accept loop of k waits for a Hello that may never come: one connection
\* is read at a time, and a receive has no timeout.
HeldUp(k) ==
  /\ phase[k] = "accept" /\ backlog[k] # <<>>
  /\ Head(backlog[k]) \in Strays \ (said[k] \cup gone[k])

\* What can keep a mesh from coming up: a port not released within the attempts
\* its tracer makes, a tracer that died, a link dialed to a tracer of an earlier
\* run, a process that holds an accept loop up with its silence.
Hindered ==
  \E k \in Tracers : \/ attempts[k] = Attempts
                     \/ phase[k] = "crashed"
                     \/ HeldUp(k)
                     \/ \E p \in Tracers : LinkedToOld(k, p)

\* Whatever the start order, every tracer's mesh comes up.  The exceptions are
\* those of Hindered.  In particular a connection that closes, or says the
\* wrong thing, costs nothing.
EventuallyMesh == <>[]((\A k \in Tracers : phase[k] = "up") \/ Hindered)
=============================================================================

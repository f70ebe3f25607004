-------------------------- MODULE TracerMeshProofs --------------------------
(***************************************************************************)
(* What establishing the mesh guarantees for any number of tracers, any    *)
(* ports in use, any earlier tracers and any other processes that connect. *)
(***************************************************************************)
EXTENDS TracerMesh, FiniteSetTheorems, TLAPS

\* The types, with the domains TypeOK leaves to Init.
Shape ==
  /\ phase \in [Tracers -> {"bind", "dial", "accept", "up", "failed", "crashed"}]
  /\ attempts \in [Tracers -> 0 .. Attempts]
  /\ busyPort \subseteq Tracers /\ oldPort \subseteq Tracers
  /\ listening \subseteq Tracers
  /\ backlog \in [Tracers -> Seq(Clients)]
  /\ said \in [Tracers -> SUBSET Clients]
  /\ gone \in [Tracers -> SUBSET Clients]
  /\ dialing \in [Tracers -> Tracers]
  /\ connected \in [Tracers -> {"no", "peer", "old"}]
  /\ link \in [Tracers -> [Tracers -> {"none", "peer", "old"}]]
  /\ peers \in [Tracers -> SUBSET Tracers]
  /\ strayAt \in [Strays -> Tracers \cup {-1}]

\* A bind that is still being tried has an attempt left, and no port has two
\* owners.
Ports ==
  /\ \A k \in Tracers : phase[k] = "bind" => attempts[k] < Attempts
  /\ listening \cap (busyPort \cup oldPort) = {}

\* A tracer dials lower ones only, each of them once.
Dials ==
  \A k \in Tracers : /\ dialing[k] <= k
                     /\ connected[k] # "no" => dialing[k] < k

\* A tracer's own Hello arrives only on the link it dialed, which it has left
\* behind by then: that entry of its table is final.
Said ==
  \A p, k \in Tracers : k \in said[p] => dialing[k] > p /\ link[k][p] = "peer"

\* No tracer is its own peer, and a higher one is a peer once its Hello came.
Peers ==
  \A p \in Tracers : /\ p \notin peers[p]
                     /\ \A k \in Tracers : (k > p /\ k \in peers[p]) => k \in said[p]

UpHasAll == \A p \in Tracers : phase[p] = "up" => peers[p] = Tracers \ {p}

IInv == Shape /\ Ports /\ Dials /\ Said /\ Peers /\ UpHasAll

LEMMA TracerFacts ==
  /\ \A k \in Tracers : k \in Nat /\ k < N3 /\ k \in Clients /\ k \notin Strays
  /\ \A k \in Tracers : \A p \in Nat : p < k => p \in Tracers
  /\ \A k \in Tracers : \A p \in Nat : p < k => p + 1 \in Tracers
  /\ Strays \subseteq Clients
BY MeshAssumption DEF Tracers, Clients

LEMMA InitIInv == Init => IInv
<1> SUFFICES ASSUME Init
             PROVE  IInv
  OBVIOUS
<1>1. Shape
  <2>1. /\ phase \in [Tracers -> {"bind", "dial", "accept", "up", "failed", "crashed"}]
        /\ attempts \in [Tracers -> 0 .. Attempts]
        /\ dialing \in [Tracers -> Tracers]
    BY MeshAssumption DEF Init, Tracers
  <2>2. /\ backlog \in [Tracers -> Seq(Clients)]
        /\ said \in [Tracers -> SUBSET Clients] /\ gone \in [Tracers -> SUBSET Clients]
        /\ peers \in [Tracers -> SUBSET Tracers]
        /\ strayAt \in [Strays -> Tracers \cup {-1}]
    BY DEF Init
  <2>3. /\ connected \in [Tracers -> {"no", "peer", "old"}]
        /\ link \in [Tracers -> [Tracers -> {"none", "peer", "old"}]]
    BY DEF Init
  <2> QED BY <2>1, <2>2, <2>3, MeshAssumption DEF Init, Shape
<1>2. Ports /\ Dials /\ Said /\ Peers
  BY MeshAssumption, TracerFacts DEF Init, Ports, Dials, Said, Peers
<1>3. UpHasAll
  BY MeshAssumption DEF Init, UpHasAll, Tracers
<1> QED BY <1>1, <1>2, <1>3 DEF IInv

-----------------------------------------------------------------------------
(* Steps that end a tracer, or touch the machine only *)

\* What a tracer has said and accepted outlives it.
LEMMA EndKeeps ==
  ASSUME IInv, NEW k \in Tracers, NEW how \in {"failed", "crashed"},
         phase' = [phase EXCEPT ![k] = how], listening' = listening \ {k}, Shape',
         UNCHANGED <<portVars, said, dialVars, peers>>
  PROVE  IInv'
<1> USE DEF IInv, portVars, dialVars
<1>1. Ports'
  BY DEF Shape, Ports
<1>2. Dials' /\ Said' /\ Peers'
  BY DEF Dials, Said, Peers
<1>3. UpHasAll'
  BY DEF Shape, UpHasAll
<1> QED BY <1>1, <1>2, <1>3

\* A step that moves nobody on, but may add to what others have said, keeps
\* everything.
LEMMA QueueKeeps ==
  ASSUME IInv, Shape', Ports', UNCHANGED <<phase, dialVars, peers>>,
         \A p \in Tracers : \A k \in Tracers : k \in said'[p] <=> k \in said[p]
  PROVE  IInv'
<1> USE DEF IInv, dialVars
<1>1. Dials' /\ UpHasAll'
  BY DEF Dials, UpHasAll
<1>2. Said' /\ Peers'
  BY DEF Said, Peers
<1> QED BY <1>1, <1>2

-----------------------------------------------------------------------------
(* Steps of one tracer *)

LEMMA BindKeeps ==
  ASSUME IInv, NEW k \in Tracers, Bind(k) \/ BindInUse(k) \/ DialsDone(k)
  PROVE  IInv'
<1> USE DEF IInv, portVars, queueVars, dialVars
<1>1. CASE Bind(k)
  <2>1. Shape' /\ Ports'
    BY <1>1 DEF Bind, Shape, Ports
  <2>2. Dials' /\ Said' /\ Peers' /\ UpHasAll'
    BY <1>1 DEF Bind, Shape, Dials, Said, Peers, UpHasAll
  <2> QED BY <2>1, <2>2
<1>2. CASE BindInUse(k)
  <2>1. attempts[k] \in 0 .. Attempts /\ attempts[k] < Attempts
    BY <1>2 DEF BindInUse, Shape, Ports
  <2>2. attempts' = [attempts EXCEPT ![k] = attempts[k] + 1]
        /\ attempts[k] + 1 \in 0 .. Attempts
    BY <1>2, <2>1, MeshAssumption DEF BindInUse
  <2>3. \/ phase' = [phase EXCEPT ![k] = "failed"]
        \/ phase' = phase /\ attempts[k] + 1 # Attempts
    BY <1>2, <2>2 DEF BindInUse, Shape
  <2>4. UNCHANGED <<busyPort, oldPort, listening, backlog, said, gone, strayAt,
                    dialing, connected, link, peers>>
    BY <1>2 DEF BindInUse
  <2>5. Shape'
    BY <2>2, <2>3, <2>4 DEF Shape
  <2>6. Ports'
    <3>1. ASSUME NEW j \in Tracers, phase'[j] = "bind"
          PROVE  attempts'[j] < Attempts
      <4>1. phase[j] = "bind" /\ (j = k => attempts[k] + 1 # Attempts)
        BY <2>3, <3>1 DEF Shape
      <4>2. attempts[j] \in 0 .. Attempts /\ attempts[j] < Attempts
        BY <4>1 DEF Shape, Ports
      <4> QED BY <2>1, <2>2, <4>1, <4>2, MeshAssumption DEF Shape
    <3> QED BY <2>4, <3>1 DEF Ports
  <2>7. Dials' /\ Said' /\ Peers'
    BY <2>4 DEF Dials, Said, Peers
  <2>8. UpHasAll'
    BY <2>3, <2>4 DEF Shape, UpHasAll
  <2> QED BY <2>5, <2>6, <2>7, <2>8
<1>3. CASE DialsDone(k)
  <2>1. Shape' /\ Ports'
    BY <1>3 DEF DialsDone, Shape, Ports
  <2>2. Dials' /\ Said' /\ Peers' /\ UpHasAll'
    BY <1>3 DEF DialsDone, Shape, Dials, Said, Peers, UpHasAll
  <2> QED BY <2>1, <2>2
<1> QED BY <1>1, <1>2, <1>3

LEMMA ConnectKeeps ==
  ASSUME IInv, NEW k \in Tracers, Connect(k)
  PROVE  IInv'
<1> USE DEF IInv, portVars, dialVars
<1>1. \E how \in {"peer", "old"} : connected' = [connected EXCEPT ![k] = how]
  BY DEF Connect
<1>2. dialing[k] < k /\ UNCHANGED <<phase, attempts, busyPort, oldPort, listening, said,
                                    gone, strayAt, dialing, link, peers>>
  BY DEF Connect
<1>3. backlog' \in [Tracers -> Seq(Clients)]
  <2>1. \/ UNCHANGED backlog
        \/ backlog' = [backlog EXCEPT ![dialing[k]] = Append(@, k)]
    BY DEF Connect
  <2>2. k \in Clients
    BY TracerFacts
  <2>3. Append(backlog[dialing[k]], k) \in Seq(Clients)
    BY <2>2 DEF Shape
  <2> QED BY <2>1, <2>3 DEF Shape
<1>7. connected' \in [Tracers -> {"no", "peer", "old"}]
  BY <1>1 DEF Shape
<1>4. Shape'
  BY <1>2, <1>3, <1>7 DEF Shape
<1>5. Ports' /\ Said' /\ Peers' /\ UpHasAll'
  BY <1>2 DEF Ports, Said, Peers, UpHasAll
<1>6. Dials'
  BY <1>1, <1>2 DEF Shape, Dials
<1> QED BY <1>4, <1>5, <1>6

LEMMA SendHelloKeeps ==
  ASSUME IInv, NEW k \in Tracers, SendHello(k)
  PROVE  IInv'
<1> DEFINE p == dialing[k]
<1> USE DEF IInv, portVars, dialVars
<1>1. p \in Tracers /\ p < k /\ p \in Nat /\ k \in Nat /\ p + 1 \in Tracers
  BY TracerFacts DEF SendHello, Shape, Dials
<1>2. /\ said' = [said EXCEPT ![p] = IF connected[k] = "peer" THEN @ \cup {k} ELSE @]
      /\ link' = [link EXCEPT ![k][p] = connected[k]]
      /\ peers' = [peers EXCEPT ![k] = @ \cup {p}]
      /\ dialing' = [dialing EXCEPT ![k] = p + 1]
      /\ connected' = [connected EXCEPT ![k] = "no"]
      /\ connected[k] # "no" /\ phase[k] = "dial"
  BY DEF SendHello, Shape
<1>3. UNCHANGED <<phase, attempts, busyPort, oldPort, listening, backlog, gone, strayAt>>
  BY DEF SendHello
<1> HIDE DEF p
<1>4. Shape'
  <2>1. said' \in [Tracers -> SUBSET Clients] /\ peers' \in [Tracers -> SUBSET Tracers]
    BY <1>1, <1>2, TracerFacts DEF Shape
  <2>2. /\ dialing' \in [Tracers -> Tracers]
        /\ connected' \in [Tracers -> {"no", "peer", "old"}]
    BY <1>1, <1>2 DEF Shape
  <2>3. link' \in [Tracers -> [Tracers -> {"none", "peer", "old"}]]
    BY <1>1, <1>2 DEF Shape
  <2> QED BY <1>3, <2>1, <2>2, <2>3 DEF Shape
<1>5. Ports'
  BY <1>3 DEF Ports
<1>6. Dials'
  BY <1>1, <1>2 DEF Shape, Dials
<1>7. Said'
  <2> SUFFICES ASSUME NEW q \in Tracers, NEW j \in Tracers, j \in said'[q]
               PROVE  dialing'[j] > q /\ link'[j][q] = "peer"
    BY DEF Said
  <2>1. CASE j = k /\ q = p
    <3>1. connected[k] = "peer"
      <4>1. k \notin said[p]
        BY <1>1 DEF Said, p
      <4> QED BY <1>2, <2>1, <4>1 DEF Shape
    <3> QED BY <1>1, <1>2, <2>1, <3>1 DEF Shape
  <2>2. CASE j # k \/ q # p
    <3>1. j \in said[q]
      BY <1>1, <1>2, <2>2 DEF Shape
    <3>2. dialing[j] > q /\ link[j][q] = "peer"
      BY <3>1 DEF Said
    <3>3. dialing'[j] > q
      BY <1>1, <1>2, <3>2, TracerFacts DEF Shape, p
    <3>4. link'[j][q] = link[j][q]
      BY <1>1, <1>2, <2>2 DEF Shape
    <3> QED BY <3>2, <3>3, <3>4
  <2> QED BY <2>1, <2>2
<1>8. Peers'
  <2>1. \A q, j \in Tracers : j \in said[q] => j \in said'[q]
    BY <1>1, <1>2 DEF Shape
  <2>2. \A q, j \in Tracers : j \in peers'[q] => j \in peers[q] \/ (q = k /\ j = p)
    BY <1>1, <1>2 DEF Shape
  <2> QED BY <1>1, <2>1, <2>2 DEF Peers
<1>9. UpHasAll'
  BY <1>2, <1>3 DEF Shape, UpHasAll
<1> QED BY <1>4, <1>5, <1>6, <1>7, <1>8, <1>9

\* A Hello that is accepted is the tracer's own: no other process has the
\* identity key the roster lists for the id.
LEMMA AcceptedIsGenuine ==
  ASSUME NEW k \in Tracers, NEW c \in Clients, Acceptable(k, HelloOf(c))
  PROVE  c \in Tracers /\ HelloOf(c).id = c /\ c > k
<1>1. CASE c \in Strays
  <2>1. StrayHello[c] \in Hellos /\ StrayHello[c].identity = Unknown
    BY <1>1, MeshAssumption
  <2>2. StrayHello[c].id < N3 /\ StrayHello[c].id = N3 /\ StrayHello[c].id \in Nat
    BY <1>1, <2>1 DEF Acceptable, HelloOf, Hellos, Unknown
  <2> QED BY <2>2, MeshAssumption
<1>2. CASE c \notin Strays
  BY <1>2 DEF Acceptable, HelloOf, Clients
<1> QED BY <1>1, <1>2

LEMMA AcceptKeeps ==
  ASSUME IInv, NEW k \in Tracers, AcceptHello(k) \/ AcceptEof(k)
  PROVE  IInv'
<1> DEFINE c == Head(backlog[k])
<1> USE DEF IInv, portVars, dialVars
<1>1. c \in Clients /\ backlog' \in [Tracers -> Seq(Clients)]
  <2>1. backlog[k] \in Seq(Clients) /\ backlog[k] # <<>>
    BY DEF AcceptHello, AcceptEof, Shape
  <2>2. c \in Clients /\ Tail(backlog[k]) \in Seq(Clients)
    BY <2>1
  <2>3. backlog' = [backlog EXCEPT ![k] = Tail(backlog[k])]
    BY DEF AcceptHello, AcceptEof, Shape
  <2> QED BY <2>2, <2>3 DEF Shape
<1>2. \/ UNCHANGED peers
      \/ /\ Acceptable(k, HelloOf(c)) /\ c \in said[k]
         /\ peers' = [peers EXCEPT ![k] = peers[k] \cup {HelloOf(c).id}]
  BY DEF AcceptHello, AcceptEof, Shape
<1>3. /\ UNCHANGED <<phase, attempts, busyPort, oldPort, listening, said, gone, strayAt,
                     dialing, connected, link>>
      /\ phase[k] = "accept"
  BY DEF AcceptHello, AcceptEof
<1> HIDE DEF c
<1>4. \/ UNCHANGED peers
      \/ /\ c \in Tracers /\ c > k /\ c \in said[k]
         /\ peers' = [peers EXCEPT ![k] = peers[k] \cup {c}]
  BY <1>1, <1>2, AcceptedIsGenuine
<1>9. peers' \in [Tracers -> SUBSET Tracers]
  <2>1. CASE UNCHANGED peers
    BY <2>1 DEF Shape
  <2>2. ASSUME c \in Tracers, peers' = [peers EXCEPT ![k] = peers[k] \cup {c}]
        PROVE  peers' \in [Tracers -> SUBSET Tracers]
    <3>1. peers[k] \cup {c} \in SUBSET Tracers
      BY <2>2 DEF Shape
    <3> QED BY <2>2, <3>1 DEF Shape
  <2> QED BY <1>4, <2>1, <2>2
<1>10. backlog' \in [Tracers -> Seq(Clients)]
  BY <1>1
<1>5. Shape'
  BY <1>3, <1>9, <1>10 DEF Shape
<1>6. Ports' /\ Dials' /\ Said'
  BY <1>3 DEF Ports, Dials, Said
<1>7. Peers'
  <2>1. \A p, j \in Tracers : j \in peers'[p] => \/ j \in peers[p]
                                                 \/ p = k /\ j = c /\ c > k /\ c \in said[k]
    BY <1>4 DEF Shape
  <2>2. ~(k > k)
    BY TracerFacts
  <2> QED BY <1>3, <2>1, <2>2 DEF Peers
<1>8. UpHasAll'
  BY <1>3, <1>4 DEF Shape, UpHasAll
<1> QED BY <1>5, <1>6, <1>7, <1>8

\* A table with one link per peer is the table of all peers.
LEMMA ReturnKeeps ==
  ASSUME IInv, NEW k \in Tracers, Return(k)
  PROVE  IInv'
<1> USE DEF IInv, portVars, dialVars
<1>1. peers[k] = Tracers \ {k}
  <2>1. IsFiniteSet(Tracers) /\ Cardinality(Tracers) = N3
    BY FS_Interval, MeshAssumption DEF Tracers
  <2>2. IsFiniteSet(Tracers \ {k}) /\ Cardinality(Tracers \ {k}) = N3 - 1
    BY <2>1, FS_RemoveElement
  <2>3. peers[k] \in SUBSET (Tracers \ {k})
    BY DEF Shape, Peers
  <2> QED BY <2>2, <2>3, FS_Subset DEF Return, Established
<1>2. /\ phase' = [phase EXCEPT ![k] = "up"] /\ listening' = listening \ {k}
      /\ backlog' = [backlog EXCEPT ![k] = <<>>]
      /\ UNCHANGED <<attempts, busyPort, oldPort, said, gone, strayAt, dialing, connected,
                     link, peers>>
  BY DEF Return
<1>3. Shape'
  BY <1>2 DEF Shape
<1>4. Ports' /\ Dials' /\ Said' /\ Peers'
  BY <1>2 DEF Shape, Ports, Dials, Said, Peers
<1>5. UpHasAll'
  BY <1>1, <1>2 DEF Shape, UpHasAll
<1> QED BY <1>3, <1>4, <1>5

-----------------------------------------------------------------------------
(* The theorems *)

LEMMA NextIInv == IInv /\ [Next]_vars => IInv'
<1> SUFFICES ASSUME IInv, [Next]_vars
             PROVE  IInv'
  OBVIOUS
<1> USE DEF portVars, queueVars, dialVars
<1>1. ASSUME NEW k \in Tracers, TracerStep(k)
      PROVE  IInv'
  <2>1. CASE SendHelloFails(k)
    <3>1. Shape'
      BY <2>1 DEF SendHelloFails, IInv, Shape
    <3> QED BY <2>1, <3>1, EndKeeps DEF SendHelloFails
  <2> QED BY <1>1, <2>1, BindKeeps, ConnectKeeps, SendHelloKeeps, AcceptKeeps, ReturnKeeps
          DEF TracerStep
<1>2. ASSUME NEW k \in Tracers, Crash(k)
      PROVE  IInv'
  <2>1. gone' \in [Tracers -> SUBSET Clients]
    BY <1>2, TracerFacts DEF Crash, IInv, Shape
  <2>2. Shape'
    BY <1>2, <2>1 DEF Crash, IInv, Shape
  <2> QED BY <1>2, <2>2, EndKeeps DEF Crash
<1>3. ASSUME NEW k \in Tracers, ReleasePort(k) \/ OldTracerEnds(k)
      PROVE  IInv'
  <2>1. Shape' /\ Ports'
    BY <1>3 DEF ReleasePort, OldTracerEnds, IInv, Shape, Ports
  <2> QED BY <1>3, <2>1, QueueKeeps DEF ReleasePort, OldTracerEnds
<1>4. ASSUME NEW s \in Strays, StraySpeaks(s)
      PROVE  IInv'
  <2>1. UNCHANGED <<phase, portVars, listening, backlog, strayAt, dialVars, peers>>
        /\ strayAt[s] \in Tracers
    BY <1>4 DEF StraySpeaks, IInv, Shape
  <2>2. \A p \in Tracers : /\ said'[p] \in {said[p], said[p] \cup {s}}
                           /\ gone'[p] \in {gone[p], gone[p] \cup {s}}
    BY <1>4, <2>1 DEF StraySpeaks, IInv, Shape
  <2>3. said' \in [Tracers -> SUBSET Clients] /\ gone' \in [Tracers -> SUBSET Clients]
    <3>1. \/ /\ said' = [said EXCEPT ![strayAt[s]] = said[strayAt[s]] \cup {s}]
             /\ UNCHANGED gone
          \/ /\ gone' = [gone EXCEPT ![strayAt[s]] = gone[strayAt[s]] \cup {s}]
             /\ UNCHANGED said
      BY <1>4 DEF StraySpeaks
    <3>2. /\ said[strayAt[s]] \cup {s} \in SUBSET Clients
          /\ gone[strayAt[s]] \cup {s} \in SUBSET Clients
      BY <2>1, TracerFacts DEF IInv, Shape
    <3>3. said \in [Tracers -> SUBSET Clients] /\ gone \in [Tracers -> SUBSET Clients]
      BY DEF IInv, Shape
    <3>4. \A f \in [Tracers -> SUBSET Clients] : \A v \in SUBSET Clients :
            [f EXCEPT ![strayAt[s]] = v] \in [Tracers -> SUBSET Clients]
      OBVIOUS
    <3> QED BY <3>1, <3>2, <3>3, <3>4
  <2>4. Shape' /\ Ports'
    BY <2>1, <2>3 DEF IInv, Shape, Ports
  <2>5. \A p, k \in Tracers : k \in said'[p] <=> k \in said[p]
    BY <2>2, TracerFacts
  <2> QED BY <2>1, <2>4, <2>5, QueueKeeps
<1>5. ASSUME NEW s \in Strays, NEW k \in Tracers, StrayConnects(s, k)
      PROVE  IInv'
  <2>1. backlog' \in [Tracers -> Seq(Clients)]
    BY <1>5, TracerFacts DEF StrayConnects, IInv, Shape
  <2>2. Shape' /\ Ports'
    BY <1>5, <2>1 DEF StrayConnects, IInv, Shape, Ports
  <2> QED BY <1>5, <2>2, QueueKeeps DEF StrayConnects
<1>6. CASE UNCHANGED vars
  BY <1>6 DEF vars, IInv, Shape, Ports, Dials, Said, Peers, UpHasAll
<1> QED BY <1>1, <1>2, <1>3, <1>4, <1>5, <1>6 DEF Next

LEMMA Inductive == Spec => []IInv
BY InitIInv, NextIInv, PTL DEF Spec

\* Every variable keeps its type; no bind is tried more often than the code
\* allows for, and no port has two owners.
THEOREM TypeCorrect == Spec => []TypeOK
<1>1. IInv => TypeOK
  <2> SUFFICES ASSUME IInv
               PROVE  TypeOK
    OBVIOUS
  <2> USE DEF IInv
  <2>1. \A k \in Tracers : \A i \in 1 .. Len(backlog[k]) : backlog[k][i] \in Clients
    BY DEF Shape
  <2>2. \A k \in Tracers : dialing[k] \in 0 .. k /\ peers[k] \subseteq Tracers \ {k}
    BY TracerFacts DEF Shape, Dials, Peers
  <2>3. listening \subseteq Tracers \ (busyPort \cup oldPort)
    BY DEF Shape, Ports
  <2> QED BY <2>1, <2>2, <2>3 DEF Shape, TypeOK
<1> QED BY Inductive, <1>1, PTL

\* A link accepted as tracer k's is the connection that k itself dialed,
\* whoever else connects and whatever their Hellos claim.
THEOREM GenuineLinksTheorem == Spec => []GenuineLinks
<1>1. IInv => GenuineLinks
  BY DEF IInv, Peers, Said, GenuineLinks
<1> QED BY Inductive, <1>1, PTL

\* establish returns only with a link to every other tracer, the higher ones
\* of which have all said Hello.
THEOREM UpIsCompleteTheorem == Spec => []UpIsComplete
<1>1. IInv => UpIsComplete
  BY TracerFacts DEF IInv, UpHasAll, Peers, Said, UpIsComplete
<1> QED BY Inductive, <1>1, PTL

-----------------------------------------------------------------------------
(* Nobody waits for nothing *)

\* Who is queued at k's port; whether c is about to say Hello to k; whether it
\* has dialed the port of k and got k.
Members(s) == {s[i] : i \in 1 .. Len(s)}
Queue(k) == Members(backlog[k])
AboutToSay(c, k) == dialing[c] = k /\ connected[c] = "peer"
Reached(c, k) == link[c][k] = "peer" \/ AboutToSay(c, k)

\* A tracer that dials or accepts listens, if there is anybody to dial it; it
\* has entered whom it dialed, and accepts once these are all lower tracers.
Turns ==
  \A k \in Tracers :
    /\ connected[k] # "no" => phase[k] \in {"dial", "failed", "crashed"}
    /\ phase[k] \in {"accept", "up"} => dialing[k] = k
    /\ phase[k] \in {"dial", "accept"} /\ k < N3 - 1 => k \in listening
    /\ \A p \in Tracers : /\ p < dialing[k] => p \in peers[k] /\ link[k][p] # "none"
                          /\ link[k][p] # "none" => p < dialing[k]

\* A tracer that is queued has said Hello or is about to.
Announced == \A k, c \in Tracers : c \in Queue(k) => c \in said[k] \/ AboutToSay(c, k)

\* One that has reached k is queued or entered in k's table, unless one of the
\* two has ended.
Served ==
  \A k, c \in Tracers : Reached(c, k) =>
    \/ c \in Queue(k) \/ c \in peers[k]
    \/ phase[k] \in {"up", "failed", "crashed"} \/ phase[c] = "crashed"

\* Only a tracer that died goes without a word.
Silent == \A k, c \in Tracers : c \in gone[k] => phase[c] = "crashed"

\* What can bring a tracer to an error, and lasts.
Excused ==
  \E k \in Tracers : \/ attempts[k] = Attempts
                     \/ phase[k] = "crashed"
                     \/ \E p \in Tracers : LinkedToOld(k, p)

FailedForAReason == (\E k \in Tracers : phase[k] = "failed") => Excused

Waits == Turns /\ Announced /\ Served /\ Silent /\ FailedForAReason

\* The condition under which tracer k has a step to take.
TracerCan(k) ==
  \/ phase[k] = "bind"
  \/ /\ phase[k] = "dial"
     /\ connected[k] = "no" => dialing[k] \in {k} \cup listening \cup oldPort
  \/ /\ phase[k] = "accept"
     /\ \/ Established(k)
        \/ /\ Cardinality(peers[k]) < N3 - 1 /\ backlog[k] # <<>>
           /\ Head(backlog[k]) \in said[k] \cup gone[k]

NobodyStuck ==
  \/ \E k \in Tracers : TracerCan(k)
  \/ \A k \in Tracers : phase[k] = "up"
  \/ Hindered

\* A step of a tracer to these values.
TracerTo(where, tries, ears, queues, hellos, turns, conns, links, tables) ==
  vars' = <<where, tries, busyPort, oldPort, ears, queues, hellos, gone,
            turns, conns, links, tables, strayAt>>

\* Whatever a tracer is doing, one of these is a step of it.
LEMMA TracerCanIsEnough ==
  ASSUME IInv, NEW k \in Tracers
  PROVE  /\ phase[k] = "bind" /\ (expected_inbound(k) > 0 => k \notin busyPort \cup oldPort)
            /\ TracerTo([phase EXCEPT ![k] = "dial"], attempts,
                        IF expected_inbound(k) > 0 THEN listening \cup {k} ELSE listening,
                        backlog, said, dialing, connected, link, peers)
            => TracerStep(k)
         /\ phase[k] = "bind" /\ expected_inbound(k) > 0 /\ k \in busyPort \cup oldPort
            /\ TracerTo([phase EXCEPT ![k] = IF attempts[k] + 1 = Attempts
                                               THEN "failed" ELSE @],
                        [attempts EXCEPT ![k] = @ + 1], listening,
                        backlog, said, dialing, connected, link, peers)
            => TracerStep(k)
         /\ phase[k] = "dial" /\ connected[k] # "no"
            /\ TracerTo(phase, attempts, listening, backlog,
                        [said EXCEPT ![dialing[k]] =
                           IF connected[k] = "peer" THEN @ \cup {k} ELSE @],
                        [dialing EXCEPT ![k] = @ + 1], [connected EXCEPT ![k] = "no"],
                        [link EXCEPT ![k][dialing[k]] = connected[k]],
                        [peers EXCEPT ![k] = @ \cup {dialing[k]}])
            => TracerStep(k)
         /\ phase[k] = "dial" /\ connected[k] = "no" /\ dialing[k] = k
            /\ TracerTo([phase EXCEPT ![k] = "accept"], attempts, listening,
                        backlog, said, dialing, connected, link, peers)
            => TracerStep(k)
         /\ phase[k] = "dial" /\ connected[k] = "no" /\ dialing[k] # k
            /\ dialing[k] \in listening
            /\ TracerTo(phase, attempts, listening,
                        [backlog EXCEPT ![dialing[k]] = Append(@, k)], said, dialing,
                        [connected EXCEPT ![k] = "peer"], link, peers)
            => TracerStep(k)
         /\ phase[k] = "dial" /\ connected[k] = "no" /\ dialing[k] # k
            /\ dialing[k] \in oldPort
            /\ TracerTo(phase, attempts, listening, backlog, said, dialing,
                        [connected EXCEPT ![k] = "old"], link, peers)
            => TracerStep(k)
         /\ phase[k] = "accept" /\ Established(k)
            /\ TracerTo([phase EXCEPT ![k] = "up"], attempts, listening \ {k},
                        [backlog EXCEPT ![k] = <<>>], said, dialing, connected, link, peers)
            => TracerStep(k)
         /\ phase[k] = "accept" /\ Cardinality(peers[k]) < N3 - 1 /\ backlog[k] # <<>>
            /\ Head(backlog[k]) \in said[k]
            /\ TracerTo(phase, attempts, listening, [backlog EXCEPT ![k] = Tail(@)], said,
                        dialing, connected, link,
                        [peers EXCEPT ![k] =
                           IF Acceptable(k, HelloOf(Head(backlog[k])))
                             THEN @ \cup {HelloOf(Head(backlog[k])).id} ELSE @])
            => TracerStep(k)
         /\ phase[k] = "accept" /\ Cardinality(peers[k]) < N3 - 1 /\ backlog[k] # <<>>
            /\ Head(backlog[k]) \in gone[k] \ said[k]
            /\ TracerTo(phase, attempts, listening, [backlog EXCEPT ![k] = Tail(@)], said,
                        dialing, connected, link, peers)
            => TracerStep(k)
<1> USE DEF TracerTo, vars, portVars, queueVars, dialVars
<1>0. dialing[k] # k => dialing[k] < k
  BY TracerFacts DEF IInv, Shape, Dials
<1>1. ASSUME phase[k] = "bind", expected_inbound(k) > 0 => k \notin busyPort \cup oldPort,
             TracerTo([phase EXCEPT ![k] = "dial"], attempts,
                      IF expected_inbound(k) > 0 THEN listening \cup {k} ELSE listening,
                      backlog, said, dialing, connected, link, peers)
      PROVE  Bind(k)
  BY <1>1 DEF Bind
<1>2. ASSUME phase[k] = "bind", expected_inbound(k) > 0, k \in busyPort \cup oldPort,
             TracerTo([phase EXCEPT ![k] = IF attempts[k] + 1 = Attempts
                                             THEN "failed" ELSE @],
                      [attempts EXCEPT ![k] = @ + 1], listening,
                      backlog, said, dialing, connected, link, peers)
      PROVE  BindInUse(k)
  BY <1>2 DEF BindInUse, IInv, Shape
<1>3. ASSUME phase[k] = "dial", connected[k] # "no",
             TracerTo(phase, attempts, listening, backlog,
                      [said EXCEPT ![dialing[k]] =
                         IF connected[k] = "peer" THEN @ \cup {k} ELSE @],
                      [dialing EXCEPT ![k] = @ + 1], [connected EXCEPT ![k] = "no"],
                      [link EXCEPT ![k][dialing[k]] = connected[k]],
                      [peers EXCEPT ![k] = @ \cup {dialing[k]}])
      PROVE  SendHello(k)
  BY <1>3 DEF SendHello
<1>4. ASSUME phase[k] = "dial", connected[k] = "no", dialing[k] = k,
             TracerTo([phase EXCEPT ![k] = "accept"], attempts, listening,
                      backlog, said, dialing, connected, link, peers)
      PROVE  DialsDone(k)
  BY <1>4 DEF DialsDone
<1>5. ASSUME phase[k] = "dial", connected[k] = "no", dialing[k] # k, dialing[k] \in listening,
             TracerTo(phase, attempts, listening,
                      [backlog EXCEPT ![dialing[k]] = Append(@, k)], said, dialing,
                      [connected EXCEPT ![k] = "peer"], link, peers)
      PROVE  Connect(k)
  BY <1>0, <1>5 DEF Connect
<1>6. ASSUME phase[k] = "dial", connected[k] = "no", dialing[k] # k, dialing[k] \in oldPort,
             TracerTo(phase, attempts, listening, backlog, said, dialing,
                      [connected EXCEPT ![k] = "old"], link, peers)
      PROVE  Connect(k)
  BY <1>0, <1>6 DEF Connect
<1>7. ASSUME phase[k] = "accept", Established(k),
             TracerTo([phase EXCEPT ![k] = "up"], attempts, listening \ {k},
                      [backlog EXCEPT ![k] = <<>>], said, dialing, connected, link, peers)
      PROVE  Return(k)
  BY <1>7 DEF Return
<1>8. ASSUME phase[k] = "accept", Cardinality(peers[k]) < N3 - 1, backlog[k] # <<>>,
             Head(backlog[k]) \in said[k],
             TracerTo(phase, attempts, listening, [backlog EXCEPT ![k] = Tail(@)], said,
                      dialing, connected, link,
                      [peers EXCEPT ![k] =
                         IF Acceptable(k, HelloOf(Head(backlog[k])))
                           THEN @ \cup {HelloOf(Head(backlog[k])).id} ELSE @])
      PROVE  AcceptHello(k)
  BY <1>8 DEF AcceptHello
<1>9. ASSUME phase[k] = "accept", Cardinality(peers[k]) < N3 - 1, backlog[k] # <<>>,
             Head(backlog[k]) \in gone[k] \ said[k],
             TracerTo(phase, attempts, listening, [backlog EXCEPT ![k] = Tail(@)], said,
                      dialing, connected, link, peers)
      PROVE  AcceptEof(k)
  BY <1>9 DEF AcceptEof
<1> HIDE DEF TracerTo
<1> QED BY <1>1, <1>2, <1>3, <1>4, <1>5, <1>6, <1>7, <1>8, <1>9 DEF TracerStep

LEMMA AppendQueues ==
  ASSUME NEW S, NEW s \in Seq(S), NEW c \in S
  PROVE  Members(Append(s, c)) = Members(s) \cup {c}
<1>1. Append(s, c) \in Seq(S) /\ Len(Append(s, c)) = Len(s) + 1
  OBVIOUS
<1>2. \A i \in 1 .. Len(s) : Append(s, c)[i] = s[i] /\ i \in 1 .. Len(Append(s, c))
  BY <1>1
<1>3. Append(s, c)[Len(s) + 1] = c /\ Len(s) + 1 \in 1 .. Len(Append(s, c))
  BY <1>1
<1>4. \A i \in 1 .. Len(Append(s, c)) : i \in 1 .. Len(s) \/ i = Len(s) + 1
  BY <1>1
<1> QED BY <1>2, <1>3, <1>4 DEF Members

LEMMA TailQueues ==
  ASSUME NEW S, NEW s \in Seq(S), s # <<>>
  PROVE  Members(s) = Members(Tail(s)) \cup {Head(s)}
<1>1. Tail(s) \in Seq(S) /\ Len(Tail(s)) = Len(s) - 1 /\ Len(s) \in Nat \ {0}
  OBVIOUS
<1>2. \A i \in 1 .. Len(Tail(s)) : Tail(s)[i] = s[i + 1] /\ i + 1 \in 1 .. Len(s)
  BY <1>1
<1>3. Head(s) = s[1] /\ 1 \in 1 .. Len(s)
  BY <1>1
<1>4. \A i \in 1 .. Len(s) : i = 1 \/ (i - 1 \in 1 .. Len(Tail(s)) /\ Tail(s)[i - 1] = s[i])
  BY <1>1
<1> QED BY <1>2, <1>3, <1>4 DEF Members

\* A tracer has reached only lower ones.
LEMMA ReachedLower ==
  ASSUME IInv, Turns, NEW k \in Tracers, NEW c \in Tracers, Reached(c, k)
  PROVE  k < c
<1>1. dialing[c] \in Nat /\ dialing[c] <= c /\ k \in Nat /\ c \in Nat
  BY TracerFacts DEF IInv, Shape, Dials
<1>2. CASE link[c][k] = "peer"
  <2>1. k < dialing[c]
    BY <1>2 DEF Turns
  <2> QED BY <1>1, <2>1
<1>3. CASE AboutToSay(c, k)
  BY <1>3 DEF AboutToSay, IInv, Dials
<1> QED BY <1>2, <1>3 DEF Reached

\* What the machine and other processes do is none of the tracers' business.
LEMMA OthersKeepWaits ==
  ASSUME IInv, Waits, UNCHANGED <<phase, attempts, listening, dialVars, peers>>,
         \A k, c \in Tracers : /\ c \in Queue(k)' <=> c \in Queue(k)
                               /\ c \in said'[k] <=> c \in said[k]
                               /\ c \in gone'[k] => c \in gone[k]
  PROVE  Waits'
<1> USE DEF Waits, dialVars
<1>1. Turns' /\ FailedForAReason'
  BY DEF Turns, FailedForAReason, Excused, LinkedToOld
<1>2. Announced' /\ Served'
  BY DEF Announced, Served, Reached, AboutToSay
<1>3. Silent'
  BY DEF Silent
<1> QED BY <1>1, <1>2, <1>3

\* Tracer k goes on to another phase.
LEMMA PhaseKeepsWaits ==
  ASSUME IInv, Waits, NEW k \in Tracers,
         NEW w \in {"bind", "dial", "accept", "up", "failed", "crashed"},
         phase' = [phase EXCEPT ![k] = w], phase[k] \notin {"up", "failed", "crashed"},
         UNCHANGED <<said, dialVars, peers>>,
         w \in {"accept", "up"} => dialing[k] = k /\ connected[k] = "no",
         w = "bind" => phase[k] = "bind",
         w \in {"dial", "accept"} /\ k < N3 - 1 => k \in listening',
         \A j \in Tracers \ {k} : j \in listening => j \in listening',
         \A j, c \in Tracers :
           /\ c \in Queue(j)' => c \in Queue(j)
           /\ c \in Queue(j) => \/ c \in Queue(j)'
                                \/ j = k /\ w \in {"up", "failed", "crashed"}
           /\ c \in gone'[j] => c \in gone[j] \/ (c = k /\ w = "crashed"),
         \A j \in Tracers : attempts[j] = Attempts => attempts'[j] = Attempts,
         w = "failed" => Excused'
  PROVE  Waits'
<1> USE DEF Waits, dialVars
<1>0. \A j \in Tracers : phase'[j] = IF j = k THEN w ELSE phase[j]
  BY DEF IInv, Shape
<1>1. Turns'
  BY <1>0 DEF Turns
<1>2. Announced' /\ Served'
  BY <1>0 DEF Announced, Served, Reached, AboutToSay
<1>3. Silent'
  BY <1>0 DEF Silent
<1>4. FailedForAReason'
  <2>1. Excused => Excused'
    BY <1>0 DEF Excused, LinkedToOld
  <2> QED BY <1>0, <2>1 DEF FailedForAReason
<1> QED BY <1>1, <1>2, <1>3, <1>4

LEMMA PhasesKeepWaits ==
  ASSUME IInv, Waits, NEW k \in Tracers,
         Bind(k) \/ BindInUse(k) \/ DialsDone(k) \/ SendHelloFails(k) \/ Return(k) \/ Crash(k)
  PROVE  Waits'
<1> USE DEF portVars, queueVars, dialVars
<1>0. k \in Nat /\ N3 \in Nat /\ \A j \in Tracers : backlog[j] \in Seq(Clients)
  BY TracerFacts, MeshAssumption DEF IInv, Shape
<1>1. CASE Bind(k)
  <2>1. k < N3 - 1 => k \in listening'
    BY <1>0, <1>1 DEF Bind, expected_inbound
  <2>2. \A j \in Tracers : j \in listening => j \in listening'
    BY <1>1 DEF Bind
  <2> QED BY <1>1, <2>1, <2>2, PhaseKeepsWaits DEF Bind, Queue
<1>2. CASE BindInUse(k)
  <2>1. /\ attempts' = [attempts EXCEPT ![k] = @ + 1] /\ phase[k] = "bind"
        /\ phase' = [phase EXCEPT ![k] = IF attempts'[k] = Attempts THEN "failed" ELSE @]
        /\ UNCHANGED <<busyPort, oldPort, listening, queueVars, dialVars, peers>>
    BY <1>2 DEF BindInUse
  <2>2. /\ \A j \in Tracers : attempts[j] = Attempts => attempts'[j] = Attempts
        /\ attempts[k] < Attempts
    <3>1. attempts[k] < Attempts
      BY <2>1 DEF IInv, Ports
    <3> QED BY <2>1, <3>1, MeshAssumption DEF IInv, Shape
  <2>5. /\ UNCHANGED <<said, gone, listening, dialVars, peers>>
        /\ \A j \in Tracers : Queue(j)' = Queue(j)
    BY <2>1 DEF Queue
  <2>3. CASE attempts'[k] = Attempts
    <3>1. Excused'
      BY <2>3 DEF Excused
    <3>2. phase' = [phase EXCEPT ![k] = "failed"]
      BY <2>1, <2>3
    <3> QED BY <2>1, <2>2, <2>5, <3>1, <3>2, PhaseKeepsWaits
  <2>4. CASE attempts'[k] # Attempts
    <3>1. phase' = [phase EXCEPT ![k] = "bind"]
      BY <2>1, <2>4 DEF IInv, Shape
    <3>2. /\ phase[k] = "bind"
          /\ \A j \in Tracers : attempts[j] = Attempts => attempts'[j] = Attempts
      BY <2>1, <2>2
    <3> QED BY <2>5, <3>1, <3>2, PhaseKeepsWaits
  <2> QED BY <2>3, <2>4
<1>3. CASE DialsDone(k)
  <2>1. connected[k] = "no"
    BY <1>0, <1>3 DEF DialsDone, IInv, Dials
  <2>2. k < N3 - 1 => k \in listening
    BY <1>3 DEF DialsDone, Waits, Turns
  <2>3. /\ phase' = [phase EXCEPT ![k] = "accept"] /\ phase[k] = "dial" /\ dialing[k] = k
        /\ UNCHANGED <<attempts, said, gone, listening, dialVars, peers>>
        /\ \A j \in Tracers : Queue(j)' = Queue(j)
    BY <1>3 DEF DialsDone, Queue
  <2> QED BY <2>1, <2>2, <2>3, PhaseKeepsWaits
<1>4. CASE SendHelloFails(k)
  <2>1. Excused
    <3>0. dialing[k] \in Tracers
      BY DEF IInv, Shape
    <3>1. CASE connected[k] = "peer" /\ phase[dialing[k]] = "crashed"
      BY <3>0, <3>1 DEF Excused
    <3>2. CASE connected[k] = "peer" /\ phase[dialing[k]] = "failed"
      BY <3>0, <3>2 DEF Waits, FailedForAReason
    <3>3. CASE connected[k] = "old"
      BY <3>0, <3>3 DEF Excused, LinkedToOld
    <3> QED BY <1>4, <3>1, <3>2, <3>3 DEF SendHelloFails
  <2>2. \A j \in Tracers : phase[j] = "crashed" => phase'[j] = "crashed"
    BY <1>4 DEF SendHelloFails, IInv, Shape
  <2>3. Excused'
    BY <1>4, <2>1, <2>2 DEF SendHelloFails, Excused, LinkedToOld
  <2>4. \A j \in Tracers \ {k} : j \in listening => j \in listening'
    BY <1>4 DEF SendHelloFails
  <2> QED BY <1>4, <2>3, <2>4, PhaseKeepsWaits DEF SendHelloFails, Queue
<1>5. ASSUME backlog' = [backlog EXCEPT ![k] = <<>>]
      PROVE  \A j, c \in Tracers : /\ c \in Queue(j)' => c \in Queue(j)
                                   /\ c \in Queue(j) => c \in Queue(j)' \/ j = k
  <2>1. \A j \in Tracers \ {k} : backlog'[j] = backlog[j]
    BY <1>5
  <2>2. Len(backlog'[k]) = 0
    BY <1>5 DEF IInv, Shape
  <2>3. Members(backlog'[k]) = {}
    BY <2>2 DEF Members
  <2> QED BY <2>1, <2>3 DEF Queue
<1>6. CASE Return(k)
  <2>1. dialing[k] = k /\ connected[k] = "no"
    BY <1>6 DEF Return, Waits, Turns
  <2>2. \A j \in Tracers \ {k} : j \in listening => j \in listening'
    BY <1>6 DEF Return
  <2> QED BY <1>5, <1>6, <2>1, <2>2, PhaseKeepsWaits DEF Return
<1>7. CASE Crash(k)
  <2>1. \A j, c \in Tracers : c \in gone'[j] => c \in gone[j] \/ c = k
    BY <1>7 DEF Crash, IInv, Shape
  <2>2. \A j \in Tracers \ {k} : j \in listening => j \in listening'
    BY <1>7 DEF Crash
  <2> QED BY <1>5, <1>7, <2>1, <2>2, PhaseKeepsWaits DEF Crash
<1> QED BY <1>1, <1>2, <1>3, <1>4, <1>6, <1>7

LEMMA ConnectKeepsWaits ==
  ASSUME IInv, Waits, NEW k \in Tracers, Connect(k)
  PROVE  Waits'
<1> USE DEF Waits, portVars
<1>0. PICK p \in Tracers : p = dialing[k]
  BY DEF IInv, Shape
<1>1. /\ phase[k] = "dial" /\ connected[k] = "no" /\ p \in Tracers
      /\ UNCHANGED <<phase, attempts, listening, said, gone, dialing, link, peers>>
  BY DEF Connect
<1>2. PICK how \in {"peer", "old"} :
        /\ connected' = [connected EXCEPT ![k] = how]
        /\ how = "peer" => backlog' = [backlog EXCEPT ![p] = Append(@, k)]
        /\ how = "old" => UNCHANGED backlog
  BY <1>0 DEF Connect
<1>3. /\ connected'[k] = how
      /\ \A c \in Tracers \ {k} : connected'[c] = connected[c]
  BY <1>2 DEF IInv, Shape
<1>4. \A j, c \in Tracers :
        c \in Queue(j)' <=> c \in Queue(j) \/ (how = "peer" /\ c = k /\ j = p)
  <2>1. CASE how = "old"
    BY <1>2, <2>1 DEF Queue
  <2>2. CASE how = "peer"
    <3>1. \A j \in Tracers \ {p} : backlog'[j] = backlog[j]
      BY <1>2, <2>2 DEF IInv, Shape
    <3>2. Queue(p)' = Queue(p) \cup {k}
      <4>1. backlog'[p] = Append(backlog[p], k)
        BY <1>1, <1>2, <2>2 DEF IInv, Shape
      <4>2. backlog[p] \in Seq(Clients) /\ k \in Clients
        BY <1>1, TracerFacts DEF IInv, Shape
      <4>3. Members(Append(backlog[p], k)) = Members(backlog[p]) \cup {k}
        BY <4>2, AppendQueues
      <4>4. Queue(p)' = Members(backlog'[p])
        BY DEF Queue, Members
      <4> QED BY <4>1, <4>3, <4>4 DEF Queue
    <3> QED BY <2>2, <3>1, <3>2 DEF Queue
  <2> QED BY <2>1, <2>2
<1>5. \A j, c \in Tracers :
        /\ Reached(c, j)' <=> Reached(c, j) \/ (how = "peer" /\ c = k /\ j = p)
        /\ AboutToSay(c, j)' <=> AboutToSay(c, j) \/ (how = "peer" /\ c = k /\ j = p)
  BY <1>0, <1>1, <1>3 DEF Reached, AboutToSay
<1>6. Turns' /\ Silent'
  BY <1>1, <1>3 DEF Turns, Silent
<1>7. Announced' /\ Served'
  BY <1>1, <1>4, <1>5 DEF Announced, Served
<1>8. Excused => Excused'
  BY <1>1, <1>3 DEF Excused, LinkedToOld
<1>9. FailedForAReason'
  BY <1>1, <1>8 DEF FailedForAReason
<1> QED BY <1>6, <1>7, <1>9

LEMMA SendHelloKeepsWaits ==
  ASSUME IInv, Waits, NEW k \in Tracers, SendHello(k)
  PROVE  Waits'
<1> DEFINE p == dialing[k]
<1> USE DEF Waits, portVars
<1>1. p \in Tracers /\ p < k /\ p \in Nat /\ k \in Nat
  BY TracerFacts DEF SendHello, IInv, Shape, Dials
<1>2. /\ phase[k] = "dial" /\ connected[k] # "no" /\ link[k][p] = "none"
      /\ UNCHANGED <<phase, attempts, listening, backlog, gone>>
  BY <1>1 DEF SendHello, Turns, IInv, Shape
<1>3. /\ \A j \in Tracers \ {k} : /\ dialing'[j] = dialing[j] /\ connected'[j] = connected[j]
                                  /\ link'[j] = link[j] /\ peers'[j] = peers[j]
      /\ dialing'[k] = p + 1 /\ connected'[k] = "no" /\ peers'[k] = peers[k] \cup {p}
      /\ \A q \in Tracers \ {p} : link'[k][q] = link[k][q]
      /\ link'[k][p] = connected[k]
      /\ \A j, c \in Tracers :
           c \in said'[j] <=> c \in said[j] \/ (j = p /\ c = k /\ connected[k] = "peer")
  BY <1>1 DEF SendHello, IInv, Shape
<1> HIDE DEF p
<1>4. \A j, c \in Tracers : Reached(c, j)' <=> Reached(c, j)
  BY <1>1, <1>2, <1>3 DEF Reached, AboutToSay, p
<1>5. \A j, c \in Tracers : LinkedToOld(c, j)' <=> LinkedToOld(c, j)
  BY <1>1, <1>2, <1>3 DEF LinkedToOld, p
<1>6. Turns'
  <2> SUFFICES ASSUME NEW j \in Tracers
               PROVE  /\ connected'[j] # "no" => phase[j] \in {"dial", "failed", "crashed"}
                      /\ phase[j] \in {"accept", "up"} => dialing'[j] = j
                      /\ phase[j] \in {"dial", "accept"} /\ j < N3 - 1 => j \in listening
                      /\ \A q \in Tracers :
                           /\ q < dialing'[j] => q \in peers'[j] /\ link'[j][q] # "none"
                           /\ link'[j][q] # "none" => q < dialing'[j]
    BY <1>2 DEF Turns
  <2>1. CASE j # k
    BY <1>3, <2>1 DEF Turns
  <2>2. CASE j = k
    <3>1. ASSUME NEW q \in Tracers
          PROVE  /\ q < p + 1 <=> q < p \/ q = p
      BY <1>1, TracerFacts
    <3>2. ASSUME NEW q \in Tracers
          PROVE  /\ q < p => q \in peers[k] /\ link[k][q] # "none"
                 /\ link[k][q] # "none" => q < p
      BY DEF Turns, p
    <3>3. connected[k] # "none"
      BY DEF IInv, Shape
    <3>4. ASSUME NEW q \in Tracers
          PROVE  /\ q < p + 1 => q \in peers'[k] /\ link'[k][q] # "none"
                 /\ link'[k][q] # "none" => q < p + 1
      <4>1. CASE q = p
        BY <1>1, <1>3, <3>3, <4>1
      <4>2. CASE q # p
        BY <1>3, <3>1, <3>2, <4>2
      <4> QED BY <4>1, <4>2
    <3>5. phase[k] = "dial" /\ (k < N3 - 1 => k \in listening)
      BY <1>2 DEF Turns
    <3> QED BY <1>3, <2>2, <3>4, <3>5
  <2> QED BY <2>1, <2>2
<1>7. Announced'
  BY <1>2, <1>3 DEF Announced, AboutToSay, Queue, p
<1>8. Served'
  <2>1. \A j, c \in Tracers : c \in peers[j] => c \in peers'[j]
    BY <1>3
  <2> QED BY <1>2, <1>4, <2>1 DEF Served, Queue
<1>9. Silent' /\ FailedForAReason'
  BY <1>2, <1>5 DEF Silent, FailedForAReason, Excused
<1> QED BY <1>6, <1>7, <1>8, <1>9

LEMMA AcceptKeepsWaits ==
  ASSUME IInv, Waits, NEW k \in Tracers, AcceptHello(k) \/ AcceptEof(k)
  PROVE  Waits'
<1> DEFINE h == Head(backlog[k])
<1> USE DEF Waits, portVars, dialVars
<1>1. /\ phase[k] = "accept" /\ backlog[k] # <<>> /\ backlog[k] \in Seq(Clients)
      /\ backlog' = [backlog EXCEPT ![k] = Tail(@)]
      /\ UNCHANGED <<phase, attempts, listening, said, gone, dialing, connected, link>>
  BY DEF AcceptHello, AcceptEof, IInv, Shape
<1>2. /\ Queue(k) = Queue(k)' \cup {h}
      /\ \A j \in Tracers \ {k} : Queue(j)' = Queue(j)
  <2>1. backlog'[k] = Tail(backlog[k]) /\ \A j \in Tracers \ {k} : backlog'[j] = backlog[j]
    BY <1>1 DEF IInv, Shape
  <2>2. Members(backlog[k]) = Members(Tail(backlog[k])) \cup {Head(backlog[k])}
    BY <1>1, TailQueues
  <2>3. Queue(k)' = Members(backlog'[k]) /\ Queue(k) = Members(backlog[k])
    BY DEF Queue, Members
  <2>4. \A j \in Tracers \ {k} : Queue(j)' = Queue(j)
    BY <2>1 DEF Queue, Members
  <2>5. Queue(k) = Queue(k)' \cup {h}
    BY <2>1, <2>2, <2>3
  <2> QED BY <2>4, <2>5
<1>3. \A j, c \in Tracers : c \in peers[j] => c \in peers'[j]
  <2>1. \/ UNCHANGED peers
        \/ peers' = [peers EXCEPT ![k] = peers[k] \cup {HelloOf(h).id}]
    BY DEF AcceptHello, AcceptEof, IInv, Shape
  <2>2. peers \in [Tracers -> SUBSET Tracers]
    BY DEF IInv, Shape
  <2> HIDE DEF h, Waits, IInv
  <2> QED BY <2>1, <2>2
<1>4. h \in Tracers /\ Reached(h, k) => h \in peers'[k] \/ phase[h] = "crashed"
  <2> SUFFICES ASSUME h \in Tracers, Reached(h, k)
               PROVE  h \in peers'[k] \/ phase[h] = "crashed"
    OBVIOUS
  <2>1. k < h /\ h < N3 /\ h \notin Strays
    BY ReachedLower, TracerFacts
  <2>2. HelloOf(h) = [id |-> h, role |-> "Tracer", identity |-> h]
    BY <2>1 DEF HelloOf
  <2>3. CASE AcceptEof(k)
    BY <2>3 DEF AcceptEof, Silent
  <2>4. CASE AcceptHello(k) /\ h \notin peers[k]
    <3>1. Acceptable(k, HelloOf(h)) /\ HelloOf(h).id = h
      BY <2>1, <2>2, <2>4, TracerFacts DEF Acceptable
    <3>2. peers' = [peers EXCEPT ![k] = IF Acceptable(k, HelloOf(h))
                                          THEN @ \cup {HelloOf(h).id} ELSE @]
      BY <2>4 DEF AcceptHello
    <3> HIDE DEF h
    <3> QED BY <3>1, <3>2 DEF IInv, Shape
  <2> QED BY <1>3, <2>3, <2>4
<1> HIDE DEF h
<1>5. Turns'
  BY <1>1, <1>3 DEF Turns
<1>6. Announced'
  BY <1>1, <1>2 DEF Announced, AboutToSay
<1>7. Served'
  BY <1>1, <1>2, <1>3, <1>4 DEF Served, Reached, AboutToSay
<1>8. Silent' /\ FailedForAReason'
  BY <1>1 DEF Silent, FailedForAReason, Excused, LinkedToOld
<1> QED BY <1>5, <1>6, <1>7, <1>8

LEMMA WaitsInvariant == Spec => []Waits
<1>1. Init => Waits
  <2> SUFFICES ASSUME Init
               PROVE  Waits
    OBVIOUS
  <2>1. Turns
    BY TracerFacts, MeshAssumption DEF Init, Turns, Tracers
  <2>2. \A k \in Tracers : Queue(k) = {}
    BY DEF Init, Queue, Members
  <2>4. Announced /\ Served /\ Silent
    BY <2>2 DEF Init, Announced, Served, Silent, Reached, AboutToSay
  <2>3. FailedForAReason
    BY DEF Init, FailedForAReason
  <2> QED BY <2>1, <2>3, <2>4 DEF Waits
<1>2. IInv /\ Waits /\ [Next]_vars => Waits'
  <2> SUFFICES ASSUME IInv, Waits, [Next]_vars
               PROVE  Waits'
    OBVIOUS
  <2> USE DEF portVars, queueVars
  <2>1. ASSUME NEW k \in Tracers, TracerStep(k) \/ Crash(k)
        PROVE  Waits'
    BY <2>1, PhasesKeepWaits, ConnectKeepsWaits, SendHelloKeepsWaits, AcceptKeepsWaits
    DEF TracerStep
  <2>2. ASSUME NEW k \in Tracers, ReleasePort(k) \/ OldTracerEnds(k)
        PROVE  Waits'
    BY <2>2, OthersKeepWaits DEF ReleasePort, OldTracerEnds, Queue
  <2>3. ASSUME NEW s \in Strays, StraySpeaks(s)
        PROVE  Waits'
    <3>1. strayAt[s] \in Tracers /\ s \notin Tracers
      BY <2>3, TracerFacts DEF StraySpeaks, IInv, Shape
    <3>3. \A j \in Tracers : /\ said'[j] \in {said[j], said[j] \cup {s}}
                             /\ gone'[j] \in {gone[j], gone[j] \cup {s}}
      BY <2>3, <3>1 DEF StraySpeaks, IInv, Shape
    <3>2. \A j, c \in Tracers : /\ c \in said'[j] <=> c \in said[j]
                                /\ c \in gone'[j] <=> c \in gone[j]
      BY <3>1, <3>3
    <3> QED BY <2>3, <3>2, OthersKeepWaits DEF StraySpeaks, Queue
  <2>4. ASSUME NEW s \in Strays, NEW k \in Tracers, StrayConnects(s, k)
        PROVE  Waits'
    <3>1. s \notin Tracers /\ s \in Clients /\ backlog[k] \in Seq(Clients)
      BY TracerFacts DEF IInv, Shape
    <3>2. /\ backlog'[k] = Append(backlog[k], s)
          /\ \A j \in Tracers \ {k} : backlog'[j] = backlog[j]
      BY <2>4 DEF StrayConnects, IInv, Shape
    <3>3. Queue(k)' = Queue(k) \cup {s}
      <4>1. Members(Append(backlog[k], s)) = Members(backlog[k]) \cup {s}
        BY <3>1, AppendQueues
      <4>2. Queue(k)' = Members(backlog'[k])
        BY DEF Queue, Members
      <4> QED BY <3>2, <4>1, <4>2 DEF Queue
    <3>5. \A j \in Tracers \ {k} : Queue(j)' = Queue(j)
      BY <3>2 DEF Queue, Members
    <3>4. \A j, c \in Tracers : c \in Queue(j)' <=> c \in Queue(j)
      BY <3>1, <3>3, <3>5
    <3> QED BY <2>4, <3>4, OthersKeepWaits DEF StrayConnects
  <2>5. CASE UNCHANGED vars
    BY <2>5, OthersKeepWaits DEF vars, dialVars, Queue
  <2> QED BY <2>1, <2>2, <2>3, <2>4, <2>5 DEF Next
<1> QED BY <1>1, <1>2, Inductive, PTL DEF Spec

LEMMA Least ==
  ASSUME NEW T \in SUBSET Nat, T # {}
  PROVE  \E m \in T : \A n \in T : m <= n
<1>1. \E m \in T : \A n \in T : <<n, m>> \notin OpToRel(<, Nat)
  BY NatLessThanWellFounded, WFMin
<1>2. PICK m \in T : \A n \in T : ~(n < m)
  BY <1>1 DEF OpToRel
<1> QED BY <1>2

\* Freedom from deadlock (what EventuallyMesh rests on): a tracer has a step to
\* take until all of them are up.  The exceptions are those of Hindered.  The
\* lowest tracer that is not up waits for nobody in vain.
THEOREM NobodyStuckTheorem == Spec => []NobodyStuck
<1>1. IInv /\ Waits => NobodyStuck
  <2> SUFFICES ASSUME IInv, Waits, \A k \in Tracers : ~TracerCan(k), ~Hindered,
                      \E k \in Tracers : phase[k] # "up"
               PROVE  FALSE
    BY DEF NobodyStuck
  <2> USE DEF Waits
  <2>1. ~Excused /\ (\A k \in Tracers : ~HeldUp(k))
    BY DEF Hindered, Excused
  <2>2. ASSUME NEW k \in Tracers
        PROVE  \/ phase[k] = "up"
               \/ phase[k] = "accept"
               \/ /\ phase[k] = "dial" /\ connected[k] = "no"
                  /\ dialing[k] # k /\ dialing[k] \notin listening
    <3>1. phase[k] \notin {"bind", "failed", "crashed"}
      BY <2>1 DEF TracerCan, FailedForAReason, Excused
    <3> QED BY <3>1 DEF TracerCan, IInv, Shape
  <2>3. PICK k \in Tracers : phase[k] # "up" /\ \A p \in Tracers : p < k => phase[p] = "up"
    <3>1. PICK j \in Tracers : phase[j] # "up"
      OBVIOUS
    <3>2. /\ {i \in Tracers : phase[i] # "up"} # {}
          /\ {i \in Tracers : phase[i] # "up"} \in SUBSET Nat
      BY <3>1, TracerFacts
    <3>3. PICK i \in {i \in Tracers : phase[i] # "up"} :
             \A m \in {m \in Tracers : phase[m] # "up"} : i <= m
      BY <3>2, Least
    <3> QED BY <3>3, TracerFacts
  <2>4. ASSUME NEW j \in Tracers, k < j
        PROVE  \/ dialing[j] > k
               \/ /\ dialing[j] = k /\ phase[j] = "dial"
                  /\ connected[j] = "no" /\ k \notin listening
    <3>1. CASE phase[j] \in {"up", "accept"}
      BY <2>4, <3>1 DEF Turns
    <3>2. CASE phase[j] = "dial"
      <4>1. ASSUME dialing[j] < k
            PROVE  FALSE
        <5>1. dialing[j] \in Tracers /\ phase[dialing[j]] = "up"
          BY <2>3, <4>1 DEF IInv, Shape
        <5>2. j \in peers[dialing[j]] /\ j > dialing[j]
          BY <2>2, <3>2, <4>1, <5>1, TracerFacts DEF IInv, UpHasAll, Dials
        <5>3. dialing[j] > dialing[j]
          BY <5>1, <5>2 DEF IInv, Peers, Said
        <5> QED BY <5>1, <5>3, TracerFacts
      <4>2. dialing[j] \in Nat /\ k \in Nat
        BY TracerFacts DEF IInv, Shape
      <4> QED BY <2>2, <3>2, <4>1, <4>2
    <3> QED BY <2>2, <3>1, <3>2
  <2>5. phase[k] = "accept"
    <3> SUFFICES ASSUME phase[k] = "dial"
                 PROVE  FALSE
      BY <2>2, <2>3
    <3>1. dialing[k] \in Tracers /\ dialing[k] < k
      <4>1. dialing[k] \in Tracers /\ dialing[k] <= k /\ dialing[k] # k
        BY <2>2, <2>3 DEF IInv, Shape, Dials
      <4> QED BY <4>1, TracerFacts
    <3>2. phase[dialing[k]] = "up" /\ k \in peers[dialing[k]]
      BY <2>3, <3>1, TracerFacts DEF IInv, UpHasAll
    <3>3. dialing[k] > dialing[k]
      BY <3>1, <3>2 DEF IInv, Peers, Said
    <3> QED BY <3>1, <3>3, TracerFacts
  <2>6. PICK j \in Tracers : j # k /\ j \notin peers[k] /\ Cardinality(peers[k]) < N3 - 1
    <3>1. IsFiniteSet(Tracers \ {k}) /\ Cardinality(Tracers \ {k}) = N3 - 1
      <4>1. IsFiniteSet(Tracers) /\ Cardinality(Tracers) = N3
        BY FS_Interval, MeshAssumption DEF Tracers
      <4> QED BY <4>1, FS_RemoveElement
    <3>2. peers[k] \in SUBSET (Tracers \ {k})
      BY DEF IInv, Shape, Peers
    <3>3. Cardinality(peers[k]) # N3 - 1
      BY <2>5 DEF TracerCan, Established
    <3>4. /\ Cardinality(peers[k]) <= N3 - 1 /\ Cardinality(peers[k]) \in Nat
          /\ peers[k] # Tracers \ {k}
      BY <3>1, <3>2, <3>3, FS_Subset, FS_CardinalityType
    <3> QED BY <3>2, <3>3, <3>4, MeshAssumption
  <2>7. j > k /\ k < N3 - 1
    <3>1. j < k => j \in peers[k]
      BY <2>5 DEF Turns
    <3> QED BY <2>6, <3>1, TracerFacts, MeshAssumption
  <2>8. k \in listening
    BY <2>5, <2>7 DEF Turns
  <2>9. Reached(j, k)
    <3>1. dialing[j] > k
      BY <2>4, <2>7, <2>8
    <3>2. link[j][k] # "none"
      BY <3>1 DEF Turns
    <3>3. link[j][k] # "old"
      BY <2>1 DEF Excused, LinkedToOld
    <3> QED BY <3>2, <3>3 DEF Reached, IInv, Shape
  <2>10. j \in Queue(k)
    <3>1. phase[j] # "crashed"
      BY <2>1 DEF Excused
    <3> QED BY <2>5, <2>6, <2>9, <3>1 DEF Served
  <2>11. backlog[k] # <<>> /\ Head(backlog[k]) \in Clients /\ Head(backlog[k]) \in Queue(k)
    <3>1. backlog[k] \in Seq(Clients) /\ Len(backlog[k]) # 0
      BY <2>10 DEF Queue, Members, IInv, Shape
    <3>2. Head(backlog[k]) = backlog[k][1] /\ 1 \in 1 .. Len(backlog[k])
      BY <3>1
    <3> QED BY <3>1, <3>2 DEF Queue, Members
  <2> DEFINE h == Head(backlog[k])
  <2>12. h \notin said[k] \cup gone[k]
    BY <2>5, <2>6, <2>11 DEF TracerCan
  <2>13. h \in Tracers
    BY <2>1, <2>5, <2>11, <2>12 DEF HeldUp, Clients
  <2>14. connected[h] # "no"
    BY <2>11, <2>12, <2>13 DEF Announced, AboutToSay
  <2> QED BY <2>2, <2>13, <2>14 DEF Turns
<1> QED BY Inductive, WaitsInvariant, <1>1, PTL
=============================================================================

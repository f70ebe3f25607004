---------------------------- MODULE MeshExchange ----------------------------
(***************************************************************************)
(* TracerMesh::exchange over network::send / network::receive, at the      *)
(* level where it can go wrong: every pair of tracers shares one TCP       *)
(* stream, whose two directions are FIFO pipes of bounded capacity.  A     *)
(* message is a length header followed by that many chunks; `exchange`     *)
(* runs one future per link, which sends and receives at the same time     *)
(* (try_join!), all links concurrently (try_join_all).                     *)
(*                                                                         *)
(* The payload is abstracted to the round it was made for; nothing in the  *)
(* bytes on the wire names the round, so that a message is taken for the   *)
(* right round only if the framing and the order of the calls say so.      *)
(***************************************************************************)
EXTENDS Integers, Sequences

CONSTANTS Nodes,        \* the tracers of the mesh
          Rounds,       \* exchanges each tracer makes (3 in bin/tracer.rs)
          PayloadLen,   \* PayloadLen[r]: chunks of a payload of round r
          LenMod,       \* values the length header can tell apart (2^32)
          Capacity,     \* chunks a direction of a stream buffers
          CanCrash      \* whether a tracer may die at any moment

ASSUME ExchangeAssumption ==
  /\ Rounds \in Nat
  /\ LenMod \in Nat \ {0}
  /\ PayloadLen \in [1 .. Rounds -> 1 .. LenMod - 1]
  /\ Capacity \in Nat \ {0}
  /\ CanCrash \in BOOLEAN

VARIABLES round,    \* round[k]: the exchange tracer k is in, or was in last
          busy,     \* tracers inside `exchange`
          failed,   \* tracers whose process ended with an error
          written,  \* written[k][p]: chunks of this round's message k wrote to p
          need,     \* need[k][p]: length in the header k read from p, -1 before
          taken,    \* taken[k][p]: payload chunks k read from p, in order
          pipe      \* pipe[k][p]: chunks on their way from k to p

vars == <<round, busy, failed, written, need, taken, pipe>>

Peers(k) == Nodes \ {k}
Links == {l \in Nodes \X Nodes : l[1] # l[2]}
Live(k) == k \notin failed

\* A stream carries bytes: a length word, or a piece of a payload made for r.
Header(len) == [kind |-> "len", val |-> len]
Payload(r) == [kind |-> "payload", val |-> r]

\* Mutant: the length is cut to half the header's width.
ChunkNarrow(k, i) == IF i = 0 THEN Header(PayloadLen[round[k]] % (LenMod \div 2))
                              ELSE Payload(round[k])

\* The chunk number i (0 is the header) of the message k sends in its round;
\* `bytes.len() as u32` keeps of the length what fits the header.
Chunk(k, i) == IF i = 0 THEN Header(PayloadLen[round[k]] % LenMod)
                        ELSE Payload(round[k])

\* network::send to p has returned / network::receive from p has returned.
Sent(k, p) == written[k][p] = PayloadLen[round[k]] + 1
Received(k, p) == need[k][p] >= 0 /\ Len(taken[k][p]) = need[k][p]

\* The types, and that a stream never holds more than it buffers.
TypeOK ==
  /\ round \in [Nodes -> 0 .. Rounds]
  /\ busy \subseteq Nodes
  /\ failed \subseteq Nodes
  /\ \A l \in Links :
       /\ written[l[1]][l[2]] \in Nat
       /\ need[l[1]][l[2]] \in Int
       /\ Len(pipe[l[1]][l[2]]) <= Capacity

Init ==
  /\ round = [k \in Nodes |-> 0]
  /\ busy = {}
  /\ failed = {}
  /\ written = [k \in Nodes |-> [p \in Nodes |-> 0]]
  /\ need = [k \in Nodes |-> [p \in Nodes |-> -1]]
  /\ taken = [k \in Nodes |-> [p \in Nodes |-> <<>>]]
  /\ pipe = [k \in Nodes |-> [p \in Nodes |-> <<>>]]

\* `exchange` is called: one future per link is created.
BeginExchange(k) ==
  /\ Live(k) /\ k \notin busy /\ round[k] < Rounds
  /\ round' = [round EXCEPT ![k] = @ + 1]
  /\ busy' = busy \cup {k}
  /\ written' = [written EXCEPT ![k] = [p \in Nodes |-> 0]]
  /\ need' = [need EXCEPT ![k] = [p \in Nodes |-> -1]]
  /\ taken' = [taken EXCEPT ![k] = [p \in Nodes |-> <<>>]]
  /\ UNCHANGED <<failed, pipe>>

\* Mutant: a write that does not look for room.
WriteAnyway(k, p) ==
  /\ Live(k) /\ k \in busy /\ ~Sent(k, p)
  /\ pipe' = [pipe EXCEPT ![k][p] = Append(@, Chunk(k, written[k][p]))]
  /\ written' = [written EXCEPT ![k][p] = @ + 1]
  /\ UNCHANGED <<round, busy, failed, need, taken>>

\* write_all makes progress when the stream has room (also, unknowingly, when
\* the peer is gone).
Write(k, p) ==
  /\ Live(k) /\ k \in busy /\ ~Sent(k, p)
  /\ Len(pipe[k][p]) < Capacity
  /\ pipe' = [pipe EXCEPT ![k][p] = Append(@, Chunk(k, written[k][p]))]
  /\ written' = [written EXCEPT ![k][p] = @ + 1]
  /\ UNCHANGED <<round, busy, failed, need, taken>>

\* Mutant: `exchange` starts reading only once everything is written.
ReadHeaderAfterWrites(k, p) ==
  /\ Live(k) /\ k \in busy /\ need[k][p] = -1
  /\ pipe[p][k] # <<>>
  /\ \A q \in Peers(k) : Sent(k, q)
  /\ need' = [need EXCEPT ![k][p] = Head(pipe[p][k]).val]
  /\ pipe' = [pipe EXCEPT ![p][k] = Tail(@)]
  /\ UNCHANGED <<round, busy, failed, written, taken>>

\* receive reads the 4-byte length whatever it means, then that many chunks.
ReadHeader(k, p) ==
  /\ Live(k) /\ k \in busy /\ need[k][p] = -1
  /\ pipe[p][k] # <<>>
  /\ need' = [need EXCEPT ![k][p] = Head(pipe[p][k]).val]
  /\ pipe' = [pipe EXCEPT ![p][k] = Tail(@)]
  /\ UNCHANGED <<round, busy, failed, written, taken>>

ReadPayload(k, p) ==
  /\ Live(k) /\ k \in busy /\ need[k][p] >= 0 /\ ~Received(k, p)
  /\ pipe[p][k] # <<>>
  /\ taken' = [taken EXCEPT ![k][p] = Append(@, Head(pipe[p][k]))]
  /\ pipe' = [pipe EXCEPT ![p][k] = Tail(@)]
  /\ UNCHANGED <<round, busy, failed, written, need>>

Read(k, p) == ReadHeader(k, p) \/ ReadPayload(k, p)

\* Mutant: `exchange` returns with the first link that is done.
EndExchangeFirst(k) ==
  /\ Live(k) /\ k \in busy
  /\ \E p \in Peers(k) : Sent(k, p) /\ Received(k, p)
  /\ busy' = busy \ {k}
  /\ UNCHANGED <<round, failed, written, need, taken, pipe>>

\* try_join_all resolves: every link has sent its message and received one.
EndExchange(k) ==
  /\ Live(k) /\ k \in busy
  /\ \A p \in Peers(k) : Sent(k, p) /\ Received(k, p)
  /\ busy' = busy \ {k}
  /\ UNCHANGED <<round, failed, written, need, taken, pipe>>

\* A link future fails and `exchange` with it, and so does the process (`?`):
\* a write to a tracer that is gone, the end of what it had written before it
\* went, or a reset because it went with bytes of ours unread.
LinkError(k) ==
  /\ Live(k) /\ k \in busy
  /\ \E p \in Peers(k) \cap failed :
       \/ ~Sent(k, p)
       \/ ~Received(k, p) /\ (pipe[p][k] = <<>> \/ pipe[k][p] # <<>>)
  /\ failed' = failed \cup {k}
  /\ UNCHANGED <<round, busy, written, need, taken, pipe>>

\* The process dies, between two exchanges or inside one.
Crash(k) ==
  /\ CanCrash /\ Live(k)
  /\ k \in busy \/ round[k] < Rounds
  /\ failed' = failed \cup {k}
  /\ UNCHANGED <<round, busy, written, need, taken, pipe>>

Finished(k) == round[k] = Rounds /\ k \notin busy

NodeStep(k) ==
  \/ BeginExchange(k)
  \/ \E p \in Peers(k) : Write(k, p) \/ Read(k, p)
  \/ EndExchange(k)
  \/ LinkError(k)

Next == \E k \in Nodes : NodeStep(k) \/ Crash(k)

Spec == Init /\ [][Next]_vars

\* The runtime polls every future that can make progress; crashes are not
\* forced.
FairSpec == Spec /\ \A k \in Nodes : WF_vars(NodeStep(k))

-----------------------------------------------------------------------------
\* What receive hands back is exactly the message its peer made for this very
\* round: a header read out of step, a payload cut short or one read twice
\* would break it, and no byte on the wire would tell.
FrameAligned ==
  \A k \in busy : \A p \in Peers(k) :
    /\ need[k][p] \in {-1, PayloadLen[round[k]]}
    /\ \A i \in 1 .. Len(taken[k][p]) : taken[k][p][i] = Payload(round[k])

\* A tracer may run ahead by one round at most, and its early bytes wait in
\* the pipe behind the rest of the message the reader is still owed.
OneRoundAhead ==
  \A l \in Links : \A i \in 1 .. Len(pipe[l[1]][l[2]]) :
    LET c == pipe[l[1]][l[2]][i]
    IN  c.kind = "payload" => c.val \in {round[l[2]], round[l[2]] + 1}

\* However small the buffers, every tracer gets through every round; and when
\* tracers die, no other is left waiting for ever: it finishes or fails too.
NobodyHangs ==
  <>[](\A k \in Nodes : Finished(k) \/ k \in failed)

Mesh == INSTANCE MeshRounds
          WITH started <- round,
               completed <- [k \in Nodes |-> IF k \in busy THEN round[k] - 1
                                                          ELSE round[k]]

\* The promise of MeshRounds is kept: entering `exchange` is a Start, coming
\* back from it a Complete, and every chunk in between a stutter.
RoundsSpec == Mesh!Spec
=============================================================================

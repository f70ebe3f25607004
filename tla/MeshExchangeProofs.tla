------------------------- MODULE MeshExchangeProofs -------------------------
(***************************************************************************)
(* That TracerMesh::exchange keeps its promise for any tracers, rounds,    *)
(* payload lengths that fit the header, and buffers, whoever dies: every   *)
(* message received is whole and of the receiver's own round, and the      *)
(* exchanges implement the rounds of MeshRounds.                           *)
(*                                                                         *)
(* No chunk on the wire names its message.  The argument is therefore one  *)
(* about a stream as a whole (Ordered): what is in the pipe from p to k is *)
(* exactly what p has written and k not yet read, and p is in the round of *)
(* k or in the one before or after it.                                     *)
(***************************************************************************)
EXTENDS MeshExchange, SequenceTheorems, WellFoundedInduction, TLAPS

Chunks == [kind : {"len", "payload"}, val : Nat]

\* The chunks of a message of round r, of which there is none in round 0.
Size(r) == IF r = 0 THEN 0 ELSE PayloadLen[r] + 1
Piece(r, i) == IF i = 0 THEN Header(PayloadLen[r]) ELSE Payload(r)

\* The chunks k has read of its round's message from p.
Got(k, p) == IF need[k][p] = -1 THEN 0 ELSE Len(taken[k][p]) + 1

\* The pipe s of a writer that has written wr chunks of its round w, read by
\* someone who has read got chunks of its own round r.
Ordered(s, r, got, w, wr) ==
  \/ w + 1 = r /\ got = 0 /\ wr = Size(w) /\ s = <<>>
  \/ /\ w = r /\ Len(s) = wr - got
     /\ \A i \in 1 .. Len(s) : s[i] = Piece(r, got + i - 1)
  \/ /\ w = r + 1 /\ Len(s) = (Size(r) - got) + wr
     /\ \A i \in 1 .. Len(s) : s[i] = IF i <= Size(r) - got THEN Piece(r, got + i - 1)
                                      ELSE Piece(w, i - 1 - (Size(r) - got))

\* The types; `failed` and `busy` are sets of tracers.
Shape ==
  /\ round \in [Nodes -> 0 .. Rounds]
  /\ busy \subseteq Nodes /\ failed \subseteq Nodes
  /\ written \in [Nodes -> [Nodes -> Nat]]
  /\ need \in [Nodes -> [Nodes -> Int]]
  /\ taken \in [Nodes -> [Nodes -> Seq(Chunks)]]
  /\ pipe \in [Nodes -> [Nodes -> Seq(Chunks)]]

\* No stream holds more than it buffers.
Bounded == \A k, p \in Nodes : Len(pipe[k][p]) <= Capacity

\* A tracer writes no more than its message, and reads no more than its
\* header said, all of it of its own round.
Exchanged ==
  \A k, p \in Nodes :
    /\ written[k][p] <= Size(round[k])
    /\ need[k][p] = -1 => taken[k][p] = <<>>
    /\ need[k][p] # -1 => /\ round[k] # 0 /\ need[k][p] = PayloadLen[round[k]]
                          /\ Len(taken[k][p]) <= need[k][p]
    /\ \A i \in 1 .. Len(taken[k][p]) : taken[k][p][i] = Payload(round[k])

\* Outside of `exchange` the round's message has gone to every peer and one
\* has come from each.
Idle ==
  \A k \in Nodes :
    /\ k \in busy => round[k] # 0
    /\ k \notin busy => \A p \in Peers(k) : /\ written[k][p] = Size(round[k])
                                            /\ Got(k, p) = Size(round[k])

\* Every stream is in order.
Streams ==
  \A k \in Nodes : \A p \in Peers(k) :
    Ordered(pipe[p][k], round[k], Got(k, p), round[p], written[p][k])

IInv == Shape /\ Bounded /\ Exchanged /\ Idle /\ Streams

-----------------------------------------------------------------------------
(* Messages and streams *)

LEMMA SizeFacts ==
  /\ Capacity \in Nat \ {0} /\ Rounds \in Nat
  /\ \A r \in 0 .. Rounds : Size(r) \in Nat
  /\ \A r \in 0 .. Rounds : r # 0 => /\ PayloadLen[r] \in Nat \ {0}
                                     /\ Size(r) = PayloadLen[r] + 1
                                     /\ PayloadLen[r] % LenMod = PayloadLen[r]
<1>1. ASSUME NEW r \in 0 .. Rounds, r # 0
      PROVE  PayloadLen[r] \in 1 .. LenMod - 1
  <2>1. r \in 1 .. Rounds
    BY <1>1, ExchangeAssumption
  <2> QED BY <2>1, ExchangeAssumption
<1>2. ASSUME NEW l \in 1 .. LenMod - 1
      PROVE  l \in Nat \ {0} /\ l % LenMod = l
  <2>1. 0 <= l /\ l < LenMod /\ LenMod \in Nat \ {0}
    BY ExchangeAssumption
  <2> QED BY <2>1
<1>3. Capacity \in Nat \ {0} /\ Rounds \in Nat
  BY ExchangeAssumption
<1> QED BY <1>1, <1>2, <1>3 DEF Size

LEMMA PieceIsChunk ==
  ASSUME NEW r \in 0 .. Rounds, NEW i \in Nat, i < Size(r)
  PROVE  Piece(r, i) \in Chunks /\ (i # 0 => Piece(r, i) = Payload(r))
<1>1. r # 0
  BY DEF Size
<1>2. PayloadLen[r] \in Nat /\ r \in Nat
  BY <1>1, SizeFacts
<1> QED BY <1>2 DEF Piece, Chunks, Header, Payload

\* A chunk written behind the others keeps the stream in order.
LEMMA WrittenInOrder ==
  ASSUME NEW s \in Seq(Chunks), NEW r \in 0 .. Rounds, NEW w \in 0 .. Rounds,
         NEW got \in Nat, NEW wr \in Nat, got <= Size(r), wr < Size(w),
         Ordered(s, r, got, w, wr)
  PROVE  Ordered(Append(s, Piece(w, wr)), r, got, w, wr + 1)
<1> DEFINE c == Piece(w, wr)
           t == Append(s, c)
<1>1. /\ c \in Chunks
      /\ Size(r) \in Nat /\ Size(w) \in Nat
  BY PieceIsChunk, SizeFacts
<1>2. /\ Len(s) \in Nat /\ Len(t) = Len(s) + 1
      /\ \A i \in 1 .. Len(s) : t[i] = s[i]
      /\ t[Len(s) + 1] = c
  BY <1>1, AppendProperties, LenProperties
<1> HIDE DEF t
<1>3. CASE /\ w = r /\ Len(s) = wr - got
           /\ \A i \in 1 .. Len(s) : s[i] = Piece(r, got + i - 1)
  <2>1. got + (Len(s) + 1) - 1 = wr
    BY <1>2, <1>3
  <2>2. t[Len(s) + 1] = Piece(r, got + (Len(s) + 1) - 1)
    BY <1>2, <1>3, <2>1
  <2>3. \A i \in 1 .. Len(t) : i \in 1 .. Len(s) \/ i = Len(s) + 1
    BY <1>2
  <2>4. \A i \in 1 .. Len(t) : t[i] = Piece(r, got + i - 1)
    BY <1>2, <1>3, <2>2, <2>3
  <2>5. Len(t) = (wr + 1) - got
    BY <1>2, <1>3
  <2> QED BY <1>3, <2>4, <2>5 DEF Ordered, t
<1>4. CASE /\ w = r + 1 /\ Len(s) = (Size(r) - got) + wr
           /\ \A i \in 1 .. Len(s) : s[i] = IF i <= Size(r) - got THEN Piece(r, got + i - 1)
                                            ELSE Piece(w, i - 1 - (Size(r) - got))
  <2>1. (Len(s) + 1) - 1 - (Size(r) - got) = wr /\ ~(Len(s) + 1 <= Size(r) - got)
    BY <1>1, <1>2, <1>4
  <2>2. t[Len(s) + 1] = Piece(w, (Len(s) + 1) - 1 - (Size(r) - got))
    BY <1>2, <2>1
  <2>3. \A i \in 1 .. Len(t) : i \in 1 .. Len(s) \/ i = Len(s) + 1
    BY <1>2
  <2>4. \A i \in 1 .. Len(t) : t[i] = IF i <= Size(r) - got THEN Piece(r, got + i - 1)
                                      ELSE Piece(w, i - 1 - (Size(r) - got))
    BY <1>2, <1>4, <2>1, <2>2, <2>3
  <2>5. Len(t) = (Size(r) - got) + (wr + 1)
    BY <1>1, <1>2, <1>4
  <2> QED BY <1>4, <2>4, <2>5 DEF Ordered, t
<1> QED BY <1>3, <1>4 DEF Ordered

\* Who is owed something finds the next chunk of its message at the head, and
\* leaves a stream in order behind.
LEMMA ReadInOrder ==
  ASSUME NEW s \in Seq(Chunks), NEW r \in 0 .. Rounds, NEW w \in 0 .. Rounds,
         NEW got \in Nat, NEW wr \in Nat, got < Size(r), s # <<>>,
         Ordered(s, r, got, w, wr)
  PROVE  Head(s) = Piece(r, got) /\ Ordered(Tail(s), r, got + 1, w, wr)
<1> DEFINE t == Tail(s)
<1>1. Size(r) \in Nat /\ Size(w) \in Nat
  BY SizeFacts
<1>2. /\ Len(s) \in Nat \ {0} /\ Len(t) = Len(s) - 1
      /\ \A i \in 1 .. Len(t) : t[i] = s[i + 1]
      /\ Head(s) = s[1]
  BY HeadTailProperties, EmptySeq
<1> HIDE DEF t
<1>3. 1 \in 1 .. Len(s) /\ \A i \in 1 .. Len(t) : i + 1 \in 1 .. Len(s)
  BY <1>2
<1>4. CASE /\ w = r /\ Len(s) = wr - got
           /\ \A i \in 1 .. Len(s) : s[i] = Piece(r, got + i - 1)
  <2>1. got + 1 - 1 = got /\ \A i \in 1 .. Len(t) : got + (i + 1) - 1 = (got + 1) + i - 1
    BY <1>2
  <2>2. Head(s) = Piece(r, got)
    BY <1>2, <1>3, <1>4, <2>1
  <2>3. \A i \in 1 .. Len(t) : t[i] = Piece(r, (got + 1) + i - 1)
    BY <1>2, <1>3, <1>4, <2>1
  <2>4. Len(t) = wr - (got + 1)
    BY <1>2, <1>4
  <2> QED BY <1>4, <2>2, <2>3, <2>4 DEF Ordered, t
<1>5. CASE /\ w = r + 1 /\ Len(s) = (Size(r) - got) + wr
           /\ \A i \in 1 .. Len(s) : s[i] = IF i <= Size(r) - got THEN Piece(r, got + i - 1)
                                            ELSE Piece(w, i - 1 - (Size(r) - got))
  <2>1. /\ got + 1 - 1 = got /\ 1 <= Size(r) - got
        /\ \A i \in 1 .. Len(t) :
             /\ got + (i + 1) - 1 = (got + 1) + i - 1
             /\ (i + 1) - 1 - (Size(r) - got) = i - 1 - (Size(r) - (got + 1))
             /\ i + 1 <= Size(r) - got => i <= Size(r) - (got + 1)
             /\ i <= Size(r) - (got + 1) => i + 1 <= Size(r) - got
    <3>1. got + 1 - 1 = got /\ 1 <= Size(r) - got
      BY <1>1
    <3>2. ASSUME NEW i \in 1 .. Len(t)
          PROVE  /\ got + (i + 1) - 1 = (got + 1) + i - 1
                 /\ (i + 1) - 1 - (Size(r) - got) = i - 1 - (Size(r) - (got + 1))
      BY <1>1
    <3>3. ASSUME NEW i \in 1 .. Len(t), i + 1 <= Size(r) - got
          PROVE  i <= Size(r) - (got + 1)
      BY <1>1, <3>3
    <3>4. ASSUME NEW i \in 1 .. Len(t), i <= Size(r) - (got + 1)
          PROVE  i + 1 <= Size(r) - got
      BY <1>1, <3>4
    <3> QED BY <3>1, <3>2, <3>3, <3>4
  <2>2. Head(s) = Piece(r, got)
    BY <1>2, <1>3, <1>5, <2>1
  <2>3. \A i \in 1 .. Len(t) :
          s[i + 1] = IF i + 1 <= Size(r) - got THEN Piece(r, got + (i + 1) - 1)
                     ELSE Piece(w, (i + 1) - 1 - (Size(r) - got))
    BY <1>3, <1>5
  <2>4. \A i \in 1 .. Len(t) :
          t[i] = IF i <= Size(r) - (got + 1) THEN Piece(r, (got + 1) + i - 1)
                 ELSE Piece(w, i - 1 - (Size(r) - (got + 1)))
    BY <1>2, <2>1, <2>3
  <2>5. Len(t) = (Size(r) - (got + 1)) + wr
    BY <1>1, <1>2, <1>5
  <2> QED BY <1>5, <2>2, <2>4, <2>5 DEF Ordered, t
<1> QED BY <1>4, <1>5 DEF Ordered

\* A reader that has its whole message goes on to the next round.
LEMMA ReaderGoesOn ==
  ASSUME NEW s \in Seq(Chunks), NEW r \in 0 .. Rounds, NEW w \in 0 .. Rounds,
         NEW wr \in Nat, wr <= Size(w), Ordered(s, r, Size(r), w, wr)
  PROVE  w >= r /\ Ordered(s, r + 1, 0, w, wr)
<1>1. Size(r) \in Nat /\ Size(w) \in Nat /\ Len(s) \in Nat /\ (Len(s) = 0 => s = <<>>)
  BY SizeFacts, LenProperties, EmptySeq
<1>2. ~(w + 1 = r /\ Size(r) = 0)
  BY SizeFacts DEF Size
<1>3. CASE w = r /\ Len(s) = wr - Size(r)
  <2>1. wr = Size(w) /\ s = <<>>
    BY <1>1, <1>3
  <2> QED BY <1>3, <2>1 DEF Ordered
<1>4. CASE /\ w = r + 1 /\ Len(s) = (Size(r) - Size(r)) + wr
           /\ \A i \in 1 .. Len(s) : s[i] = IF i <= Size(r) - Size(r)
                                            THEN Piece(r, Size(r) + i - 1)
                                            ELSE Piece(w, i - 1 - (Size(r) - Size(r)))
  <2>1. /\ Size(r) - Size(r) = 0
        /\ \A i \in 1 .. Len(s) : ~(i <= 0) /\ i - 1 - 0 = 0 + i - 1
    BY <1>1
  <2>2. Len(s) = wr - 0 /\ \A i \in 1 .. Len(s) : s[i] = Piece(w, 0 + i - 1)
    BY <1>1, <1>4, <2>1
  <2> QED BY <1>4, <2>2 DEF Ordered
<1> QED BY <1>2, <1>3, <1>4 DEF Ordered

\* So does a writer that has written its whole message to a reader which is
\* not behind it.
LEMMA WriterGoesOn ==
  ASSUME NEW s \in Seq(Chunks), NEW r \in 0 .. Rounds, NEW w \in 0 .. Rounds,
         NEW got \in Nat, got <= Size(r), r >= w, Ordered(s, r, got, w, Size(w))
  PROVE  Ordered(s, r, got, w + 1, 0)
<1>1. Size(r) \in Nat /\ Size(w) \in Nat /\ Len(s) \in Nat
  BY SizeFacts, LenProperties
<1>2. CASE w + 1 = r /\ got = 0 /\ s = <<>>
  <2>1. Len(s) = 0
    BY <1>2, EmptySeq
  <2> QED BY <1>2, <2>1 DEF Ordered
<1>3. CASE /\ w = r /\ Len(s) = Size(w) - got
           /\ \A i \in 1 .. Len(s) : s[i] = Piece(r, got + i - 1)
  <2>1. Len(s) = (Size(r) - got) + 0 /\ \A i \in 1 .. Len(s) : i <= Size(r) - got
    BY <1>1, <1>3
  <2> QED BY <1>3, <2>1 DEF Ordered
<1> QED BY <1>2, <1>3 DEF Ordered

-----------------------------------------------------------------------------
(* The steps *)

LEMMA GotFacts ==
  ASSUME IInv, NEW k \in Nodes, NEW p \in Nodes
  PROVE  Got(k, p) \in Nat /\ Got(k, p) <= Size(round[k]) /\ round[k] \in 0 .. Rounds
<1>1. round[k] \in 0 .. Rounds /\ Len(taken[k][p]) \in Nat
  BY LenProperties DEF IInv, Shape
<1>2. CASE need[k][p] = -1
  BY <1>1, <1>2, SizeFacts DEF Got
<1>3. CASE need[k][p] # -1
  <2>1. round[k] # 0 /\ Len(taken[k][p]) <= PayloadLen[round[k]]
    BY <1>3 DEF IInv, Exchanged
  <2>2. Size(round[k]) = PayloadLen[round[k]] + 1 /\ PayloadLen[round[k]] \in Nat
    BY <1>1, <2>1, SizeFacts
  <2>3. Got(k, p) = Len(taken[k][p]) + 1
    BY <1>3 DEF Got
  <2> QED BY <1>1, <2>1, <2>2, <2>3
<1> QED BY <1>2, <1>3

\* Where its message has come whole, the peer has entered the round.
LEMMA ReceivedAll ==
  ASSUME IInv, NEW k \in busy, NEW p \in Peers(k), Received(k, p)
  PROVE  Got(k, p) = Size(round[k]) /\ round[p] >= round[k]
<1>1. k \in Nodes /\ p \in Nodes
  BY DEF IInv, Shape, Peers
<1>2. need[k][p] >= 0 /\ need[k][p] \in Int /\ Len(taken[k][p]) = need[k][p]
  BY <1>1 DEF IInv, Shape, Received
<1>3. need[k][p] # -1
  BY <1>2
<1>4. round[k] # 0 /\ need[k][p] = PayloadLen[round[k]] /\ round[k] \in 0 .. Rounds
  BY <1>1, <1>3 DEF IInv, Shape, Exchanged
<1>5. Got(k, p) = Size(round[k])
  BY <1>2, <1>3, <1>4, SizeFacts DEF Got
<1>6. Ordered(pipe[p][k], round[k], Size(round[k]), round[p], written[p][k])
  BY <1>1, <1>5 DEF IInv, Streams
<1>7. /\ pipe[p][k] \in Seq(Chunks) /\ round[p] \in 0 .. Rounds
      /\ written[p][k] \in Nat /\ written[p][k] <= Size(round[p])
  BY <1>1 DEF IInv, Shape, Exchanged
<1>8. round[p] >= round[k]
  BY <1>4, <1>6, <1>7, ReaderGoesOn
<1> QED BY <1>5, <1>8

LEMMA InitIInv == Init => IInv
<1> SUFFICES ASSUME Init
             PROVE  IInv
  OBVIOUS
<1>1. Size(0) = 0 /\ \A S : <<>> \in Seq(S) /\ Len(<<>>) = 0
  BY EmptySeq DEF Size
<1>2. Shape
  BY <1>1, SizeFacts DEF Init, Shape
<1>3. Bounded
  BY <1>1, SizeFacts DEF Init, Bounded
<1>4. Exchanged
  BY <1>1 DEF Init, Exchanged
<1>5. \A k, p \in Nodes : Got(k, p) = 0
  BY DEF Init, Got
<1>6. Idle
  BY <1>1, <1>5 DEF Init, Idle, Peers
<1>7. Streams
  BY <1>1, <1>5 DEF Init, Streams, Ordered, Peers
<1> QED BY <1>2, <1>3, <1>4, <1>6, <1>7 DEF IInv

LEMMA BeginKeeps ==
  ASSUME IInv, NEW k \in Nodes, BeginExchange(k)
  PROVE  IInv'
<1>1. /\ k \notin busy /\ round[k] \in 0 .. Rounds - 1 /\ round[k] + 1 \in 1 .. Rounds
      /\ round[k] \in 0 .. Rounds /\ round[k] + 1 \in 0 .. Rounds
  BY SizeFacts DEF IInv, Shape, BeginExchange
<1>2. /\ round' = [round EXCEPT ![k] = round[k] + 1]
      /\ busy' = busy \cup {k} /\ UNCHANGED <<failed, pipe>>
      /\ written' = [written EXCEPT ![k] = [p \in Nodes |-> 0]]
      /\ need' = [need EXCEPT ![k] = [p \in Nodes |-> -1]]
      /\ taken' = [taken EXCEPT ![k] = [p \in Nodes |-> <<>>]]
  BY DEF BeginExchange
<1>3. /\ round'[k] = round[k] + 1
      /\ \A p \in Nodes : written'[k][p] = 0 /\ need'[k][p] = -1 /\ taken'[k][p] = <<>>
      /\ \A p \in Nodes \ {k} : /\ round'[p] = round[p] /\ written'[p] = written[p]
                                /\ need'[p] = need[p] /\ taken'[p] = taken[p]
  BY <1>2 DEF IInv, Shape
<1>4. \A p \in Nodes : Got(k, p)' = 0
  BY <1>3 DEF Got
<1>5. \A q \in Nodes \ {k} : \A p \in Nodes : Got(q, p)' = Got(q, p)
  BY <1>3 DEF Got
<1>6. Shape'
  <2>1. <<>> \in Seq(Chunks)
    BY EmptySeq
  <2> QED BY <1>1, <1>2, <2>1 DEF IInv, Shape
<1>7. Bounded'
  BY <1>2 DEF IInv, Bounded
<1>8. Exchanged'
  <2>1. ASSUME NEW p \in Nodes
        PROVE  /\ written'[k][p] <= Size(round'[k]) /\ need'[k][p] = -1
               /\ taken'[k][p] = <<>> /\ Len(taken'[k][p]) = 0
    BY <1>1, <1>3, SizeFacts, EmptySeq
  <2> QED BY <1>3, <2>1 DEF IInv, Exchanged
<1>9. Idle'
  <2>1. \A q \in Nodes \ {k} : q \in busy' <=> q \in busy
    BY <1>2
  <2> QED BY <1>1, <1>2, <1>3, <1>5, <2>1 DEF IInv, Idle, Peers
<1>10. ASSUME NEW p \in Peers(k)
       PROVE  /\ round[p] >= round[k] /\ round[p] \in 0 .. Rounds
              /\ Ordered(pipe[p][k], round[k] + 1, 0, round[p], written[p][k])
              /\ Ordered(pipe[k][p], round[p], Got(p, k), round[k] + 1, 0)
  <2>1. /\ p \in Nodes /\ k \in Peers(p) /\ written[k][p] = Size(round[k])
        /\ Got(k, p) = Size(round[k])
    BY <1>1 DEF IInv, Idle, Peers
  <2>2. /\ pipe[p][k] \in Seq(Chunks) /\ pipe[k][p] \in Seq(Chunks)
        /\ round[p] \in 0 .. Rounds
        /\ written[p][k] \in Nat /\ written[p][k] <= Size(round[p])
    BY <2>1 DEF IInv, Shape, Exchanged
  <2>3. /\ Ordered(pipe[p][k], round[k], Size(round[k]), round[p], written[p][k])
        /\ Ordered(pipe[k][p], round[p], Got(p, k), round[k], Size(round[k]))
    BY <2>1 DEF IInv, Streams
  <2>4. round[p] >= round[k] /\ Ordered(pipe[p][k], round[k] + 1, 0, round[p], written[p][k])
    BY <1>1, <2>2, <2>3, ReaderGoesOn
  <2>5. Got(p, k) \in Nat /\ Got(p, k) <= Size(round[p])
    BY <2>1, GotFacts
  <2>6. Ordered(pipe[k][p], round[p], Got(p, k), round[k] + 1, 0)
    BY <1>1, <2>2, <2>3, <2>4, <2>5, WriterGoesOn
  <2> QED BY <2>2, <2>4, <2>6
<1>11. Streams'
  <2> SUFFICES ASSUME NEW q \in Nodes, NEW p \in Peers(q)
               PROVE  Ordered(pipe'[p][q], round'[q], Got(q, p)', round'[p], written'[p][q])
    BY DEF Streams
  <2>1. p \in Nodes /\ p # q /\ q \in Peers(p)
    BY DEF Peers
  <2>2. CASE q = k
    <3>1. /\ round'[q] = round[k] + 1 /\ Got(q, p)' = 0 /\ round'[p] = round[p]
          /\ written'[p][q] = written[p][q] /\ pipe' = pipe
      BY <1>2, <1>3, <1>4, <2>1, <2>2
    <3> QED BY <1>10, <2>2, <3>1
  <2>3. CASE p = k
    <3>1. /\ round'[p] = round[k] + 1 /\ Got(q, p)' = Got(q, p) /\ round'[q] = round[q]
          /\ written'[p][q] = 0 /\ pipe' = pipe
      BY <1>2, <1>3, <1>5, <2>1, <2>3
    <3> QED BY <1>10, <2>1, <2>3, <3>1
  <2>4. CASE q # k /\ p # k
    <3>1. /\ round'[p] = round[p] /\ Got(q, p)' = Got(q, p) /\ round'[q] = round[q]
          /\ written'[p][q] = written[p][q] /\ pipe' = pipe
      BY <1>2, <1>3, <1>5, <2>1, <2>4
    <3> QED BY <3>1 DEF IInv, Streams
  <2> QED BY <2>2, <2>3, <2>4
<1> QED BY <1>6, <1>7, <1>8, <1>9, <1>11 DEF IInv

LEMMA WriteKeeps ==
  ASSUME IInv, NEW k \in Nodes, NEW p \in Peers(k), Write(k, p)
  PROVE  IInv'
<1>1. /\ p \in Nodes /\ p # k /\ k \in Peers(p) /\ round[k] \in 0 .. Rounds
      /\ round[p] \in 0 .. Rounds /\ pipe[k][p] \in Seq(Chunks) /\ written[k][p] \in Nat
      /\ written[k][p] <= Size(round[k])
  BY DEF IInv, Shape, Exchanged, Peers
<1>2. /\ k \in busy /\ round[k] # 0 /\ written[k][p] < Size(round[k])
      /\ Len(pipe[k][p]) < Capacity
  <2>1. k \in busy /\ written[k][p] # PayloadLen[round[k]] + 1 /\ Len(pipe[k][p]) < Capacity
    BY DEF Write, Sent
  <2>2. round[k] # 0
    BY <2>1 DEF IInv, Idle
  <2> QED BY <1>1, <2>1, <2>2, SizeFacts
<1> DEFINE c == Piece(round[k], written[k][p])
<1>3. Chunk(k, written[k][p]) = c
  <2>1. PayloadLen[round[k]] % LenMod = PayloadLen[round[k]]
    BY <1>1, <1>2, SizeFacts
  <2> QED BY <2>1 DEF Chunk, Piece
<1>4. /\ pipe' = [pipe EXCEPT ![k] = [pipe[k] EXCEPT ![p] = Append(pipe[k][p], c)]]
      /\ written' = [written EXCEPT ![k] = [written[k] EXCEPT ![p] = written[k][p] + 1]]
      /\ UNCHANGED <<round, busy, failed, need, taken>>
  BY <1>3 DEF Write
<1>5. c \in Chunks
  BY <1>1, <1>2, PieceIsChunk
<1> HIDE DEF c
<1>6. /\ Append(pipe[k][p], c) \in Seq(Chunks)
      /\ Len(Append(pipe[k][p], c)) = Len(pipe[k][p]) + 1 /\ Len(pipe[k][p]) \in Nat
  BY <1>1, <1>5, AppendProperties, LenProperties
<1>7. Shape'
  <2>1. /\ written[k] \in [Nodes -> Nat] /\ pipe[k] \in [Nodes -> Seq(Chunks)]
        /\ written \in [Nodes -> [Nodes -> Nat]] /\ pipe \in [Nodes -> [Nodes -> Seq(Chunks)]]
    BY DEF IInv, Shape
  <2>2. [written[k] EXCEPT ![p] = written[k][p] + 1] \in [Nodes -> Nat]
    BY <1>1, <2>1
  <2>3. [pipe[k] EXCEPT ![p] = Append(pipe[k][p], c)] \in [Nodes -> Seq(Chunks)]
    BY <1>6, <2>1
  <2>4. written' \in [Nodes -> [Nodes -> Nat]] /\ pipe' \in [Nodes -> [Nodes -> Seq(Chunks)]]
    BY <1>4, <2>1, <2>2, <2>3
  <2> QED BY <1>4, <2>4 DEF IInv, Shape
<1>8. /\ pipe'[k][p] = Append(pipe[k][p], c) /\ written'[k][p] = written[k][p] + 1
      /\ \A a, b \in Nodes : (a # k \/ b # p) => /\ pipe'[a][b] = pipe[a][b]
                                                 /\ written'[a][b] = written[a][b]
  BY <1>1, <1>4 DEF IInv, Shape
<1>9. Bounded'
  <2>1. Len(pipe'[k][p]) <= Capacity
    BY <1>2, <1>6, <1>8, SizeFacts
  <2> QED BY <1>8, <2>1 DEF IInv, Bounded
<1>10. Exchanged'
  <2>1. written'[k][p] <= Size(round[k])
    BY <1>1, <1>2, <1>8, SizeFacts
  <2> QED BY <1>4, <1>8, <2>1 DEF IInv, Exchanged
<1>11. \A a, b \in Nodes : Got(a, b)' = Got(a, b)
  BY <1>4 DEF Got
<1>12. Idle'
  BY <1>2, <1>4, <1>8, <1>11 DEF IInv, Idle, Peers
<1>13. Ordered(pipe'[k][p], round[p], Got(p, k), round[k], written'[k][p])
  <2>1. Ordered(pipe[k][p], round[p], Got(p, k), round[k], written[k][p])
    BY <1>1 DEF IInv, Streams
  <2>2. Got(p, k) \in Nat /\ Got(p, k) <= Size(round[p])
    BY <1>1, GotFacts
  <2>3. Ordered(Append(pipe[k][p], Piece(round[k], written[k][p])), round[p], Got(p, k),
                round[k], written[k][p] + 1)
    BY <1>1, <1>2, <2>1, <2>2, WrittenInOrder
  <2> QED BY <1>8, <2>3 DEF c
<1>14. Streams'
  <2> SUFFICES ASSUME NEW a \in Nodes, NEW b \in Peers(a)
               PROVE  Ordered(pipe'[b][a], round'[a], Got(a, b)', round'[b], written'[b][a])
    BY DEF Streams
  <2>1. b \in Nodes /\ round'[a] = round[a] /\ round'[b] = round[b] /\ Got(a, b)' = Got(a, b)
    BY <1>4, <1>11 DEF Peers
  <2>2. CASE b = k /\ a = p
    BY <1>13, <2>1, <2>2
  <2>3. CASE b # k \/ a # p
    <3>1. pipe'[b][a] = pipe[b][a] /\ written'[b][a] = written[b][a]
      BY <1>8, <2>1, <2>3
    <3> QED BY <2>1, <3>1 DEF IInv, Streams
  <2> QED BY <2>2, <2>3
<1> QED BY <1>7, <1>9, <1>10, <1>12, <1>14 DEF IInv

\* A chunk is read from p that k is owed: it is the next one of its message.
LEMMA HeadIsNext ==
  ASSUME IInv, NEW k \in Nodes, NEW p \in Peers(k), pipe[p][k] # <<>>,
         Got(k, p) < Size(round[k])
  PROVE  /\ Head(pipe[p][k]) = Piece(round[k], Got(k, p))
         /\ Ordered(Tail(pipe[p][k]), round[k], Got(k, p) + 1, round[p], written[p][k])
<1>1. /\ p \in Nodes /\ round[k] \in 0 .. Rounds /\ round[p] \in 0 .. Rounds
      /\ pipe[p][k] \in Seq(Chunks) /\ written[p][k] \in Nat
  BY DEF IInv, Shape, Peers
<1>2. Got(k, p) \in Nat
  BY <1>1, GotFacts
<1>3. Ordered(pipe[p][k], round[k], Got(k, p), round[p], written[p][k])
  BY DEF IInv, Streams
<1> QED BY <1>1, <1>2, <1>3, ReadInOrder

\* What every read has in common.
LEMMA ReadKeeps ==
  ASSUME IInv, NEW k \in Nodes, NEW p \in Peers(k), k \in busy,
         pipe[p][k] # <<>>, Got(k, p) < Size(round[k]),
         pipe' = [pipe EXCEPT ![p] = [pipe[p] EXCEPT ![k] = Tail(pipe[p][k])]],
         UNCHANGED <<round, busy, failed, written>>,
         need' \in [Nodes -> [Nodes -> Int]], taken' \in [Nodes -> [Nodes -> Seq(Chunks)]],
         \A a, b \in Nodes : (a # k \/ b # p) => /\ need'[a][b] = need[a][b]
                                                 /\ taken'[a][b] = taken[a][b],
         Exchanged', Got(k, p)' = Got(k, p) + 1
  PROVE  IInv'
<1>1. /\ p \in Nodes /\ p # k /\ k \in Peers(p) /\ pipe[p][k] \in Seq(Chunks)
  BY DEF IInv, Shape, Peers
<1>2. Tail(pipe[p][k]) \in Seq(Chunks) /\ Len(Tail(pipe[p][k])) = Len(pipe[p][k]) - 1
      /\ Len(pipe[p][k]) \in Nat
  BY <1>1, HeadTailProperties, LenProperties
<1>3. Shape'
  BY <1>1, <1>2 DEF IInv, Shape
<1>4. /\ pipe'[p][k] = Tail(pipe[p][k])
      /\ \A a, b \in Nodes : (a # p \/ b # k) => pipe'[a][b] = pipe[a][b]
  BY <1>1 DEF IInv, Shape
<1>5. Bounded'
  <2>1. Len(pipe[p][k]) <= Capacity
    BY <1>1 DEF IInv, Bounded
  <2>2. Len(pipe'[p][k]) <= Capacity
    BY <1>2, <1>4, <2>1, SizeFacts
  <2> QED BY <1>4, <2>2 DEF IInv, Bounded
<1>6. \A a, b \in Nodes : (a # k \/ b # p) => Got(a, b)' = Got(a, b)
  BY DEF Got
<1>7. Idle'
  <2>1. \A a \in Nodes : a \in busy => round[a] # 0
    BY DEF IInv, Idle
  <2>2. ASSUME NEW a \in Nodes, a \notin busy, NEW b \in Peers(a)
        PROVE  written[a][b] = Size(round[a]) /\ Got(a, b)' = Size(round[a])
    <3>1. a # k /\ b \in Nodes
      BY <2>2 DEF Peers
    <3> QED BY <1>6, <2>2, <3>1 DEF IInv, Idle
  <2> QED BY <2>1, <2>2 DEF Idle
<1>8. Streams'
  <2> SUFFICES ASSUME NEW a \in Nodes, NEW b \in Peers(a)
               PROVE  Ordered(pipe'[b][a], round'[a], Got(a, b)', round'[b], written'[b][a])
    BY DEF Streams
  <2>1. b \in Nodes /\ round' = round /\ written' = written
    BY DEF Peers
  <2>2. CASE b = p /\ a = k
    <3>1. Ordered(Tail(pipe[p][k]), round[k], Got(k, p) + 1, round[p], written[p][k])
      BY HeadIsNext
    <3> QED BY <1>4, <2>1, <2>2, <3>1
  <2>3. CASE b # p \/ a # k
    <3>1. pipe'[b][a] = pipe[b][a] /\ Got(a, b)' = Got(a, b)
      BY <1>4, <1>6, <2>1, <2>3
    <3> QED BY <2>1, <3>1 DEF IInv, Streams
  <2> QED BY <2>2, <2>3
<1> QED BY <1>3, <1>5, <1>7, <1>8 DEF IInv

LEMMA ReadHeaderKeeps ==
  ASSUME IInv, NEW k \in Nodes, NEW p \in Peers(k), ReadHeader(k, p)
  PROVE  IInv'
<1> DEFINE l == PayloadLen[round[k]]
<1>1. /\ p \in Nodes /\ round[k] \in 0 .. Rounds /\ k \in busy /\ need[k][p] = -1
      /\ pipe[p][k] # <<>> /\ taken[k][p] = <<>>
  BY DEF IInv, Shape, Exchanged, Peers, ReadHeader
<1>2. round[k] # 0
  BY <1>1 DEF IInv, Idle
<1>3. l \in Nat \ {0} /\ Size(round[k]) = l + 1
  BY <1>1, <1>2, SizeFacts
<1>4. Got(k, p) = 0 /\ Got(k, p) < Size(round[k])
  <2>1. Got(k, p) = 0
    BY <1>1 DEF Got
  <2> QED BY <1>3, <2>1
<1>5. Head(pipe[p][k]).val = l
  <2>1. Head(pipe[p][k]) = Piece(round[k], 0)
    BY <1>1, <1>4, HeadIsNext
  <2> QED BY <2>1 DEF Piece, Header
<1>6. /\ need' = [need EXCEPT ![k] = [need[k] EXCEPT ![p] = l]]
      /\ pipe' = [pipe EXCEPT ![p] = [pipe[p] EXCEPT ![k] = Tail(pipe[p][k])]]
      /\ UNCHANGED <<round, busy, failed, written, taken>>
  BY <1>5 DEF ReadHeader
<1> HIDE DEF l
<1>7. need' \in [Nodes -> [Nodes -> Int]] /\ taken' \in [Nodes -> [Nodes -> Seq(Chunks)]]
  <2>1. need[k] \in [Nodes -> Int] /\ need \in [Nodes -> [Nodes -> Int]]
    BY DEF IInv, Shape
  <2>2. l \in Int
    BY <1>3
  <2>3. [need[k] EXCEPT ![p] = l] \in [Nodes -> Int]
    BY <2>1, <2>2
  <2>4. need' \in [Nodes -> [Nodes -> Int]]
    BY <1>6, <2>1, <2>3
  <2> QED BY <1>6, <2>4 DEF IInv, Shape
<1>8. /\ need'[k][p] = l /\ taken' = taken
      /\ \A a, b \in Nodes : (a # k \/ b # p) => need'[a][b] = need[a][b]
  BY <1>1, <1>6 DEF IInv, Shape
<1>9. l # -1 /\ l >= 0 /\ Len(taken[k][p]) = 0
  BY <1>1, <1>3, EmptySeq
<1>10. Exchanged'
  <2>1. /\ need'[k][p] # -1 /\ need'[k][p] = PayloadLen[round[k]]
        /\ Len(taken'[k][p]) <= need'[k][p]
    BY <1>8, <1>9 DEF l
  <2> QED BY <1>2, <1>6, <1>8, <2>1 DEF IInv, Exchanged
<1>11. Got(k, p)' = Got(k, p) + 1
  <2>1. Got(k, p)' = Len(taken[k][p]) + 1
    BY <1>8, <1>9 DEF Got
  <2> QED BY <1>4, <1>9, <2>1
<1>12. \A a, b \in Nodes : (a # k \/ b # p) => /\ need'[a][b] = need[a][b]
                                               /\ taken'[a][b] = taken[a][b]
  BY <1>8
<1>13. UNCHANGED <<round, busy, failed, written>>
  BY <1>6
<1>14. pipe' = [pipe EXCEPT ![p] = [pipe[p] EXCEPT ![k] = Tail(pipe[p][k])]]
  BY <1>6
<1> QED BY <1>1, <1>4, <1>7, <1>10, <1>11, <1>12, <1>13, <1>14, ReadKeeps

LEMMA ReadPayloadKeeps ==
  ASSUME IInv, NEW k \in Nodes, NEW p \in Peers(k), ReadPayload(k, p)
  PROVE  IInv'
<1> DEFINE s == taken[k][p]
           t == Append(s, Payload(round[k]))
<1>1. /\ p \in Nodes /\ round[k] \in 0 .. Rounds /\ k \in busy /\ need[k][p] >= 0
      /\ need[k][p] \in Int /\ Len(s) # need[k][p]
      /\ pipe[p][k] # <<>> /\ s \in Seq(Chunks)
  BY DEF IInv, Shape, Peers, ReadPayload, Received
<1>2. /\ round[k] # 0 /\ need[k][p] = PayloadLen[round[k]] /\ Len(s) <= need[k][p]
      /\ need[k][p] # -1 /\ \A i \in 1 .. Len(s) : s[i] = Payload(round[k])
  BY <1>1 DEF IInv, Exchanged
<1>3. Len(s) \in Nat /\ Size(round[k]) = need[k][p] + 1
  BY <1>1, <1>2, SizeFacts, LenProperties
<1>4. Got(k, p) = Len(s) + 1 /\ Got(k, p) < Size(round[k]) /\ Got(k, p) \in Nat /\ Got(k, p) # 0
  <2>1. Got(k, p) = Len(s) + 1
    BY <1>2 DEF Got
  <2>2. Len(s) < need[k][p]
    BY <1>1, <1>2, <1>3
  <2> HIDE DEF s
  <2> QED BY <1>1, <1>3, <2>1, <2>2
<1>5. Head(pipe[p][k]) = Payload(round[k]) /\ Payload(round[k]) \in Chunks
  <2>1. Head(pipe[p][k]) = Piece(round[k], Got(k, p))
    BY <1>1, <1>4, HeadIsNext
  <2> QED BY <1>1, <1>4, <2>1, PieceIsChunk
<1>6. /\ taken' = [taken EXCEPT ![k] = [taken[k] EXCEPT ![p] = t]]
      /\ pipe' = [pipe EXCEPT ![p] = [pipe[p] EXCEPT ![k] = Tail(pipe[p][k])]]
      /\ UNCHANGED <<round, busy, failed, written, need>>
  BY <1>5 DEF ReadPayload
<1>7. /\ t \in Seq(Chunks) /\ Len(t) = Len(s) + 1
      /\ \A i \in 1 .. Len(t) : t[i] = Payload(round[k])
  <2>1. /\ t \in Seq(Chunks) /\ Len(t) = Len(s) + 1
        /\ \A i \in 1 .. Len(s) : t[i] = s[i]
        /\ t[Len(s) + 1] = Payload(round[k])
    BY <1>1, <1>5, AppendProperties
  <2> HIDE DEF t, s
  <2>2. \A i \in 1 .. Len(t) : i \in 1 .. Len(s) \/ i = Len(s) + 1
    BY <1>3, <2>1
  <2> QED BY <1>2, <2>1, <2>2
<1> HIDE DEF t
<1>8. need' \in [Nodes -> [Nodes -> Int]] /\ taken' \in [Nodes -> [Nodes -> Seq(Chunks)]]
  <2>1. taken[k] \in [Nodes -> Seq(Chunks)] /\ taken \in [Nodes -> [Nodes -> Seq(Chunks)]]
    BY DEF IInv, Shape
  <2>2. [taken[k] EXCEPT ![p] = t] \in [Nodes -> Seq(Chunks)]
    BY <1>7, <2>1
  <2>3. taken' \in [Nodes -> [Nodes -> Seq(Chunks)]]
    BY <1>6, <2>1, <2>2
  <2> QED BY <1>6, <2>3 DEF IInv, Shape
<1>9. /\ taken'[k][p] = t /\ need' = need
      /\ \A a, b \in Nodes : (a # k \/ b # p) => taken'[a][b] = taken[a][b]
  BY <1>1, <1>6 DEF IInv, Shape
<1>10. Exchanged'
  <2>1. Len(t) <= need[k][p]
    BY <1>1, <1>2, <1>3, <1>7
  <2> QED BY <1>2, <1>6, <1>7, <1>9, <2>1 DEF IInv, Exchanged
<1>11. Got(k, p)' = Got(k, p) + 1
  <2>1. Got(k, p)' = Len(t) + 1
    BY <1>2, <1>9 DEF Got
  <2> QED BY <1>3, <1>4, <1>7, <2>1
<1>12. \A a, b \in Nodes : (a # k \/ b # p) => /\ need'[a][b] = need[a][b]
                                               /\ taken'[a][b] = taken[a][b]
  BY <1>9
<1>13. UNCHANGED <<round, busy, failed, written>>
  BY <1>6
<1>14. pipe' = [pipe EXCEPT ![p] = [pipe[p] EXCEPT ![k] = Tail(pipe[p][k])]]
  BY <1>6
<1> QED BY <1>1, <1>4, <1>8, <1>10, <1>11, <1>12, <1>13, <1>14, ReadKeeps

LEMMA EndKeeps ==
  ASSUME IInv, NEW k \in Nodes, EndExchange(k)
  PROVE  /\ IInv' /\ k \in busy /\ round[k] # 0
         /\ \A p \in Nodes : round[p] >= round[k]
<1>1. /\ k \in busy /\ \A p \in Peers(k) : Sent(k, p) /\ Received(k, p)
      /\ busy' = busy \ {k} /\ UNCHANGED <<round, failed, written, need, taken, pipe>>
  BY DEF EndExchange
<1>2. round[k] # 0 /\ round[k] \in 0 .. Rounds
  BY <1>1 DEF IInv, Shape, Idle
<1>3. \A p \in Peers(k) : /\ written[k][p] = Size(round[k])
                          /\ Got(k, p) = Size(round[k]) /\ round[p] >= round[k]
  BY <1>1, <1>2, SizeFacts, ReceivedAll DEF Sent
<1>4. \A a, b \in Nodes : Got(a, b)' = Got(a, b)
  BY <1>1 DEF Got
<1>5. Idle'
  BY <1>1, <1>3, <1>4 DEF IInv, Idle, Peers
<1>6. Shape' /\ Bounded' /\ Exchanged'
  BY <1>1 DEF IInv, Shape, Bounded, Exchanged
<1>7. Streams'
  BY <1>1, <1>4 DEF IInv, Streams, Peers
<1>8. \A p \in Nodes : round[p] >= round[k]
  <2>1. round[k] >= round[k]
    BY <1>2, SizeFacts
  <2> QED BY <1>3, <2>1 DEF Peers
<1> QED BY <1>1, <1>2, <1>5, <1>6, <1>7, <1>8 DEF IInv

LEMMA FailKeeps ==
  ASSUME IInv, NEW k \in Nodes, LinkError(k) \/ Crash(k)
  PROVE  IInv'
<1>1. failed' = failed \cup {k} /\ UNCHANGED <<round, busy, written, need, taken, pipe>>
  BY DEF LinkError, Crash
<1>2. \A a, b \in Nodes : Got(a, b)' = Got(a, b)
  BY <1>1 DEF Got
<1>3. Shape' /\ Bounded' /\ Exchanged'
  BY <1>1 DEF IInv, Shape, Bounded, Exchanged
<1>4. Idle' /\ Streams'
  BY <1>1, <1>2 DEF IInv, Idle, Streams, Peers
<1> QED BY <1>3, <1>4 DEF IInv

LEMMA NextIInv == IInv /\ [Next]_vars => IInv'
<1> SUFFICES ASSUME IInv, [Next]_vars
             PROVE  IInv'
  OBVIOUS
<1>1. ASSUME NEW k \in Nodes, NodeStep(k)
      PROVE  IInv'
  <2>1. CASE \E p \in Peers(k) : Write(k, p) \/ Read(k, p)
    BY <2>1, WriteKeeps, ReadHeaderKeeps, ReadPayloadKeeps DEF Read
  <2> QED BY <1>1, <2>1, BeginKeeps, EndKeeps, FailKeeps DEF NodeStep
<1>2. CASE UNCHANGED vars
  <2>1. UNCHANGED <<round, busy, failed, written, need, taken, pipe>>
    BY <1>2 DEF vars
  <2>2. \A a, b \in Nodes : Got(a, b)' = Got(a, b)
    BY <2>1 DEF Got
  <2>3. Shape' /\ Bounded' /\ Exchanged'
    BY <2>1 DEF IInv, Shape, Bounded, Exchanged
  <2>4. Idle' /\ Streams'
    BY <2>1, <2>2 DEF IInv, Idle, Streams, Peers
  <2> QED BY <2>3, <2>4 DEF IInv
<1> QED BY <1>1, <1>2, FailKeeps DEF Next

-----------------------------------------------------------------------------
(* Theorems *)

\* Every variable keeps its type, and no stream holds more than it buffers.
THEOREM TypeCorrect == Spec => []TypeOK
<1>1. IInv => TypeOK
  <2> SUFFICES ASSUME IInv
               PROVE  TypeOK
    OBVIOUS
  <2>1. ASSUME NEW l \in Links
        PROVE  /\ written[l[1]][l[2]] \in Nat /\ need[l[1]][l[2]] \in Int
               /\ Len(pipe[l[1]][l[2]]) <= Capacity
    <3>1. l[1] \in Nodes /\ l[2] \in Nodes
      BY DEF Links
    <3> QED BY <3>1 DEF IInv, Shape, Bounded
  <2> QED BY <2>1 DEF IInv, Shape, TypeOK
<1> QED BY <1>1, InitIInv, NextIInv, PTL DEF Spec

\* What receive hands back is the message its peer made for this very round,
\* whoever is ahead and whoever dies.
THEOREM FrameAlignedTheorem == Spec => []FrameAligned
<1>1. IInv => FrameAligned
  BY DEF IInv, Shape, Exchanged, FrameAligned, Peers
<1> QED BY <1>1, InitIInv, NextIInv, PTL DEF Spec

\* Nothing on its way is older than what its reader waits for, or more than
\* one round newer.
THEOREM OneRoundAheadTheorem == Spec => []OneRoundAhead
<1>1. ASSUME IInv, NEW k \in Nodes, NEW p \in Peers(k), NEW i \in 1 .. Len(pipe[p][k]),
             pipe[p][k][i].kind = "payload"
      PROVE  pipe[p][k][i].val \in {round[k], round[k] + 1}
  <2> DEFINE s == pipe[p][k]
             r == round[k]
             got == Got(k, p)
             w == round[p]
             wr == written[p][k]
  <2>1. \A q : \A j : Piece(q, j).kind = "payload" => Piece(q, j).val = q
    BY DEF Piece, Header, Payload
  <2>2. Ordered(s, r, got, w, wr)
    BY <1>1 DEF IInv, Streams
  <2>3. s # <<>>
    BY <1>1, EmptySeq
  <2> QED BY <1>1, <2>1, <2>2, <2>3 DEF Ordered
<1>2. ASSUME IInv
      PROVE  OneRoundAhead
  <2> SUFFICES ASSUME NEW l \in Links, NEW i \in 1 .. Len(pipe[l[1]][l[2]]),
                      pipe[l[1]][l[2]][i].kind = "payload"
               PROVE  pipe[l[1]][l[2]][i].val \in {round[l[2]], round[l[2]] + 1}
    BY DEF OneRoundAhead
  <2>1. l[2] \in Nodes /\ l[1] \in Peers(l[2])
    BY DEF Links, Peers
  <2> QED BY <1>1, <1>2, <2>1
<1> QED BY <1>2, InitIInv, NextIInv, PTL DEF Spec

\* The exchanges implement the rounds of MeshRounds: coming back from one is a
\* Complete because every message of the round was there to be received, and
\* whoever dies only stops taking steps.
THEOREM ImplementsMeshRounds == Spec => RoundsSpec
<1> DEFINE done(k) == IF k \in busy THEN round[k] - 1 ELSE round[k]
<1>1. ASSUME Init
      PROVE  Mesh!Init
  BY <1>1 DEF Init, Mesh!Init
<1>2. ASSUME IInv, [Next]_vars
      PROVE  [Mesh!Next]_(Mesh!vars)
  <2>1. round \in [Nodes -> 0 .. Rounds] /\ busy \subseteq Nodes /\ Rounds \in Nat
    BY <1>2, SizeFacts DEF IInv, Shape
  <2>2. ASSUME NEW k \in Nodes, BeginExchange(k)
        PROVE  Mesh!Start(k)
    <3>1. /\ k \notin busy /\ round[k] < Rounds
          /\ round' = [round EXCEPT ![k] = round[k] + 1] /\ busy' = busy \cup {k}
      BY <2>2 DEF BeginExchange
    <3>2. \A p \in Nodes : done(p)' = done(p)
      BY <2>1, <3>1
    <3>3. [p \in Nodes |-> done(p)]' = [p \in Nodes |-> done(p)]
      BY <3>2
    <3> QED BY <2>1, <3>1, <3>3 DEF Mesh!Start
  <2>3. ASSUME NEW k \in Nodes, EndExchange(k)
        PROVE  Mesh!Complete(k)
    <3>1. /\ k \in busy /\ busy' = busy \ {k} /\ round' = round
          /\ \A p \in Nodes : round[p] >= round[k]
      BY <1>2, <2>3, EndKeeps DEF EndExchange
    <3>2. round[k] - 1 < round[k] /\ (round[k] - 1) + 1 = round[k]
      BY <2>1
    <3>3. /\ done(k) < round[k] /\ done(k)' = done(k) + 1
          /\ \A p \in Nodes \ {k} : done(p)' = done(p)
      BY <3>1, <3>2
    <3> HIDE DEF done
    <3>4. [p \in Nodes |-> done(p)]' = [[p \in Nodes |-> done(p)] EXCEPT ![k] = done(k) + 1]
      BY <3>3
    <3>5. [p \in Nodes |-> done(p)][k] = done(k)
      OBVIOUS
    <3> QED BY <3>1, <3>3, <3>4, <3>5 DEF Mesh!Complete, done
  <2>4. ASSUME UNCHANGED <<round, busy>>
        PROVE  UNCHANGED Mesh!vars
    BY <2>4 DEF Mesh!vars
  <2>5. ASSUME NEW k \in Nodes, NodeStep(k) \/ Crash(k)
        PROVE  BeginExchange(k) \/ EndExchange(k) \/ UNCHANGED <<round, busy>>
    BY <2>5 DEF NodeStep, Read, Write, ReadHeader, ReadPayload, LinkError, Crash
  <2>6. CASE Next
    BY <2>2, <2>3, <2>4, <2>5, <2>6 DEF Next, Mesh!Next
  <2>7. CASE UNCHANGED vars
    BY <2>4, <2>7 DEF vars
  <2> QED BY <1>2, <2>6, <2>7
<1> QED BY <1>1, <1>2, InitIInv, NextIInv, PTL DEF Spec, RoundsSpec, Mesh!Spec

-----------------------------------------------------------------------------
(* Nobody is stuck *)

\* The guards of NodeStep(k): what the future of one link, or exchange, can do.
CanWrite(k, p) == ~Sent(k, p) /\ Len(pipe[k][p]) < Capacity
CanRead(k, p) ==
  pipe[p][k] # <<>> /\ (need[k][p] = -1 \/ (need[k][p] >= 0 /\ ~Received(k, p)))
CanFail(k, p) ==
  p \in failed /\ (~Sent(k, p) \/ (~Received(k, p) /\ (pipe[p][k] = <<>> \/ pipe[k][p] # <<>>)))

CanStep(k) ==
  /\ Live(k)
  /\ \/ k \notin busy /\ round[k] < Rounds
     \/ k \in busy /\ \E p \in Peers(k) : CanWrite(k, p) \/ CanRead(k, p) \/ CanFail(k, p)
     \/ k \in busy /\ \A p \in Peers(k) : Sent(k, p) /\ Received(k, p)

NobodyStuck ==
  (\A k \in Nodes : ~CanStep(k)) => \A k \in Nodes : Finished(k) \/ k \in failed

\* Each of these lets its tracer step: the next state is spelt out.
LEMMA CanIsEnough ==
  ASSUME NEW k \in Nodes, Live(k)
  PROVE  /\ k \notin busy /\ round[k] < Rounds
            /\ vars' = <<[round EXCEPT ![k] = @ + 1], busy \cup {k}, failed,
                         [written EXCEPT ![k] = [q \in Nodes |-> 0]],
                         [need EXCEPT ![k] = [q \in Nodes |-> -1]],
                         [taken EXCEPT ![k] = [q \in Nodes |-> <<>>]], pipe>>
            => NodeStep(k)
         /\ \A p \in Peers(k) :
              k \in busy /\ CanWrite(k, p)
              /\ vars' = <<round, busy, failed, [written EXCEPT ![k][p] = @ + 1], need, taken,
                           [pipe EXCEPT ![k][p] = Append(@, Chunk(k, written[k][p]))]>>
              => NodeStep(k)
         /\ \A p \in Peers(k) :
              k \in busy /\ CanRead(k, p) /\ need[k][p] = -1
              /\ vars' = <<round, busy, failed, written,
                           [need EXCEPT ![k][p] = Head(pipe[p][k]).val], taken,
                           [pipe EXCEPT ![p][k] = Tail(@)]>>
              => NodeStep(k)
         /\ \A p \in Peers(k) :
              k \in busy /\ CanRead(k, p) /\ need[k][p] # -1
              /\ vars' = <<round, busy, failed, written, need,
                           [taken EXCEPT ![k][p] = Append(@, Head(pipe[p][k]))],
                           [pipe EXCEPT ![p][k] = Tail(@)]>>
              => NodeStep(k)
         /\ \A p \in Peers(k) :
              k \in busy /\ CanFail(k, p)
              /\ vars' = <<round, busy, failed \cup {k}, written, need, taken, pipe>>
              => NodeStep(k)
         /\ k \in busy /\ (\A p \in Peers(k) : Sent(k, p) /\ Received(k, p))
            /\ vars' = <<round, busy \ {k}, failed, written, need, taken, pipe>>
            => NodeStep(k)
<1>1. ASSUME k \notin busy, round[k] < Rounds,
             vars' = <<[round EXCEPT ![k] = @ + 1], busy \cup {k}, failed,
                       [written EXCEPT ![k] = [q \in Nodes |-> 0]],
                       [need EXCEPT ![k] = [q \in Nodes |-> -1]],
                       [taken EXCEPT ![k] = [q \in Nodes |-> <<>>]], pipe>>
      PROVE  BeginExchange(k)
  BY <1>1 DEF BeginExchange, vars
<1>2. ASSUME NEW p \in Peers(k), k \in busy, CanWrite(k, p),
             vars' = <<round, busy, failed, [written EXCEPT ![k][p] = @ + 1], need, taken,
                       [pipe EXCEPT ![k][p] = Append(@, Chunk(k, written[k][p]))]>>
      PROVE  Write(k, p)
  BY <1>2 DEF Write, CanWrite, vars
<1>3. ASSUME NEW p \in Peers(k), k \in busy, CanRead(k, p), need[k][p] = -1,
             vars' = <<round, busy, failed, written,
                       [need EXCEPT ![k][p] = Head(pipe[p][k]).val], taken,
                       [pipe EXCEPT ![p][k] = Tail(@)]>>
      PROVE  Read(k, p)
  BY <1>3 DEF Read, ReadHeader, CanRead, vars
<1>4. ASSUME NEW p \in Peers(k), k \in busy, CanRead(k, p), need[k][p] # -1,
             vars' = <<round, busy, failed, written, need,
                       [taken EXCEPT ![k][p] = Append(@, Head(pipe[p][k]))],
                       [pipe EXCEPT ![p][k] = Tail(@)]>>
      PROVE  Read(k, p)
  BY <1>4 DEF Read, ReadPayload, CanRead, vars
<1>5. ASSUME NEW p \in Peers(k), k \in busy, CanFail(k, p),
             vars' = <<round, busy, failed \cup {k}, written, need, taken, pipe>>
      PROVE  LinkError(k)
  BY <1>5 DEF LinkError, CanFail, vars
<1>6. ASSUME k \in busy, \A p \in Peers(k) : Sent(k, p) /\ Received(k, p),
             vars' = <<round, busy \ {k}, failed, written, need, taken, pipe>>
      PROVE  EndExchange(k)
  BY <1>6 DEF EndExchange, vars
<1> QED BY <1>1, <1>2, <1>3, <1>4, <1>5, <1>6 DEF NodeStep

\* A set of naturals has a least element.
LEMMA Least ==
  ASSUME NEW T \in SUBSET Nat, T # {}
  PROVE  \E m \in T : \A n \in T : m <= n
<1>1. \E m \in T : \A n \in T : <<n, m>> \notin OpToRel(<, Nat)
  BY NatLessThanWellFounded, WFMin
<1>2. PICK m \in T : \A n \in T : ~(n < m)
  BY <1>1 DEF OpToRel
<1> QED BY <1>2

\* The stream from p to k when both are up and neither can step, k being in its
\* exchange and not ahead of p: whatever is missing would make one of them step.
LEMMA StreamMoves ==
  ASSUME IInv, NEW k \in busy, NEW p \in Peers(k), Live(k), Live(p),
         ~CanStep(k), ~CanStep(p), round[k] <= round[p]
  PROVE  Sent(k, p) /\ Received(k, p)
<1>1. k \in Nodes /\ p \in Nodes /\ k \in Peers(p) /\ k # p
  BY DEF IInv, Shape, Peers
<1>2. /\ round[k] \in 0 .. Rounds /\ round[p] \in 0 .. Rounds /\ round[k] # 0
      /\ written[k][p] \in Nat /\ written[k][p] <= Size(round[k])
      /\ written[p][k] \in Nat /\ written[p][k] <= Size(round[p])
      /\ pipe[k][p] \in Seq(Chunks) /\ pipe[p][k] \in Seq(Chunks)
  BY <1>1 DEF IInv, Shape, Exchanged, Idle
<1>3. /\ Size(round[k]) = PayloadLen[round[k]] + 1 /\ PayloadLen[round[k]] \in Nat
      /\ Size(round[p]) \in Nat /\ Capacity >= 1
      /\ round[p] # 0 => Size(round[p]) = PayloadLen[round[p]] + 1
  <2>1. Capacity >= 1 /\ Size(round[p]) \in Nat
    BY <1>2, SizeFacts
  <2>2. Size(round[k]) = PayloadLen[round[k]] + 1 /\ PayloadLen[round[k]] \in Nat
    BY <1>2, SizeFacts
  <2>3. round[p] # 0 => Size(round[p]) = PayloadLen[round[p]] + 1
    BY <1>2, SizeFacts
  <2> QED BY <2>1, <2>2, <2>3
<1>4. /\ Got(k, p) \in Nat /\ Got(k, p) <= Size(round[k])
      /\ Got(p, k) \in Nat /\ Got(p, k) <= Size(round[p])
  BY <1>1, GotFacts
<1>5. /\ Ordered(pipe[p][k], round[k], Got(k, p), round[p], written[p][k])
      /\ Ordered(pipe[k][p], round[p], Got(p, k), round[k], written[k][p])
  BY <1>1 DEF IInv, Streams
<1>6. Sent(k, p) <=> written[k][p] = Size(round[k])
  BY <1>3 DEF Sent
<1>7. p \notin busy => /\ round[p] = Rounds /\ written[p][k] = Size(round[p])
                       /\ Got(p, k) = Size(round[p])
  <2>1. ASSUME p \notin busy PROVE round[p] = Rounds
    <3>1. ~(round[p] < Rounds)
      BY <2>1 DEF CanStep
    <3>2. round[p] \in 0 .. Rounds /\ Rounds \in Nat
      BY <1>2, SizeFacts
    <3> QED BY <3>1, <3>2
  <2> QED BY <1>1, <2>1 DEF IInv, Idle
\* Who cannot read has read everything, or there is nothing to read.
<1>8. ASSUME NEW a \in Nodes, NEW b \in Nodes, ~CanRead(a, b), pipe[b][a] # <<>>
      PROVE  Received(a, b) /\ (round[a] # 0 => Got(a, b) = Size(round[a]))
  <2>1. need[a][b] \in Int /\ need[a][b] # -1
    BY <1>8 DEF IInv, Shape, CanRead
  <2>2. need[a][b] = PayloadLen[round[a]] /\ round[a] # 0 /\ round[a] \in 0 .. Rounds
    BY <2>1 DEF IInv, Shape, Exchanged
  <2>3. PayloadLen[round[a]] \in Nat /\ Size(round[a]) = PayloadLen[round[a]] + 1
    BY <2>2, SizeFacts
  <2>4. Received(a, b)
    BY <1>8, <2>2, <2>3 DEF CanRead
  <2> QED BY <2>1, <2>2, <2>3, <2>4 DEF Received, Got
<1>9. ~CanRead(k, p) /\ ~CanWrite(k, p)
  BY DEF CanStep
<1>10. p \in busy => ~CanRead(p, k) /\ ~CanWrite(p, k)
  BY <1>1 DEF CanStep
<1>11. Sent(k, p)
  <2> SUFFICES ASSUME ~Sent(k, p) PROVE FALSE
    OBVIOUS
  <2>1. pipe[k][p] # <<>>
    <3>1. ~(Len(pipe[k][p]) < Capacity)
      BY <1>9 DEF CanWrite
    <3> QED BY <1>3, <3>1, SizeFacts, EmptySeq
  <2>2. round[p] # 0 /\ Got(p, k) = Size(round[p])
    <3>1. round[p] # 0
      BY <1>2
    <3>2. CASE p \in busy
      BY <1>1, <1>8, <1>10, <2>1, <3>1, <3>2
    <3>3. CASE p \notin busy
      BY <1>7, <3>1, <3>3
    <3> QED BY <3>1, <3>2, <3>3
  <2>3. Len(pipe[k][p]) \in Nat \ {0}
    BY <1>2, <2>1, LenProperties, EmptySeq
  <2>4. round[k] = round[p] /\ Len(pipe[k][p]) = written[k][p] - Got(p, k)
    BY <1>2, <1>5, <2>1 DEF Ordered
  <2> QED BY <1>2, <1>3, <2>2, <2>3, <2>4
<1>12. Received(k, p)
  <2> SUFFICES ASSUME ~Received(k, p) PROVE FALSE
    OBVIOUS
  <2>1. pipe[p][k] = <<>> /\ Len(pipe[p][k]) = 0
    BY <1>1, <1>8, <1>9, EmptySeq
  <2>2. Got(k, p) < Size(round[k])
    <3>1. CASE need[k][p] = -1
      BY <1>3, <3>1 DEF Got
    <3>2. CASE need[k][p] # -1
      <4>1. /\ need[k][p] = PayloadLen[round[k]] /\ Len(taken[k][p]) <= need[k][p]
            /\ need[k][p] \in Int
        BY <1>1, <3>2 DEF IInv, Shape, Exchanged
      <4>2. Len(taken[k][p]) # need[k][p] /\ Len(taken[k][p]) \in Nat
        <5>1. k \in Nodes /\ p \in Nodes
          BY <1>1 DEF IInv, Shape, Peers
        <5>2. taken[k][p] \in Seq(Chunks) /\ need[k][p] \in Int
          BY <5>1 DEF IInv, Shape
        <5>3. Len(taken[k][p]) \in Nat
          BY <5>2, LenProperties
        <5>4. need[k][p] >= 0
          BY <4>1, <5>2, <5>3
        <5> QED BY <5>3, <5>4 DEF Received
      <4> QED BY <1>3, <3>2, <4>1, <4>2 DEF Got
    <3> QED BY <3>1, <3>2
  <2>3. round[p] = round[k] /\ written[p][k] < Size(round[p])
    <3>1. CASE round[p] = round[k] /\ Len(pipe[p][k]) = written[p][k] - Got(k, p)
      BY <1>2, <1>3, <1>4, <2>1, <2>2, <3>1
    <3>2. CASE round[p] = round[k] + 1 /\ Len(pipe[p][k]) = (Size(round[k]) - Got(k, p)) + written[p][k]
      BY <1>2, <1>3, <1>4, <2>1, <2>2, <3>2
    <3> QED BY <1>2, <1>5, <3>1, <3>2 DEF Ordered
  <2>4. p \in busy
    BY <1>2, <1>3, <1>7, <2>3
  <2>5. CanWrite(p, k)
    <3>1. Len(pipe[p][k]) < Capacity
      BY <1>3, <2>1, SizeFacts
    <3>2. written[p][k] # PayloadLen[round[p]] + 1
      BY <1>2, <1>3, <2>3
    <3> QED BY <3>1, <3>2 DEF CanWrite, Sent
  <2> QED BY <1>10, <2>4, <2>5
<1> QED BY <1>11, <1>12

\* However small the buffers and whoever died, somebody can go on until every
\* tracer has made all its exchanges or failed: two tracers never wait for each
\* other's reads, and none waits for one that is gone (try_join!, try_join_all).
THEOREM NobodyStuckTheorem == Spec => []NobodyStuck
<1>1. ASSUME IInv, \A k \in Nodes : ~CanStep(k), NEW q \in Nodes, ~Finished(q), q \notin failed
      PROVE  FALSE
  <2> DEFINE waiting == {k \in busy : Live(k)}
             T == {round[k] : k \in waiting}
  <2>1. \A k \in Nodes : Live(k) /\ k \notin busy => round[k] = Rounds
    <3>1. \A k \in Nodes : Live(k) /\ k \notin busy => ~(round[k] < Rounds)
      BY <1>1 DEF CanStep
    <3>2. \A k \in Nodes : round[k] \in 0 .. Rounds /\ Rounds \in Nat
      BY <1>1, SizeFacts DEF IInv, Shape
    <3> QED BY <3>1, <3>2
  <2>2. q \in waiting
    BY <1>1, <2>1 DEF Finished, Live
  <2>3. T \in SUBSET Nat /\ T # {}
    <3>1. /\ round \in [Nodes -> 0 .. Rounds] /\ busy \subseteq Nodes
          /\ Rounds \in Nat
      BY <1>1, SizeFacts DEF IInv, Shape
    <3>2. \A k \in waiting : round[k] \in 0 .. Rounds
      BY <3>1
    <3>3. \A k \in waiting : round[k] \in Nat
      BY <3>1, <3>2
    <3> QED BY <2>2, <3>3
  <2>4. PICK m \in T : \A n \in T : m <= n
    <3> HIDE DEF T
    <3> QED BY <2>3, Least
  <2>5. PICK k \in waiting : \A p \in waiting : round[k] <= round[p]
    BY <2>4
  <2>6. k \in Nodes /\ k \in busy /\ Live(k) /\ busy \subseteq Nodes
        /\ round[k] \in 0 .. Rounds /\ Rounds \in Nat
    BY <1>1, SizeFacts DEF IInv, Shape
  <2>7. \A p \in Peers(k) : ~CanFail(k, p)
    BY <1>1, <2>6 DEF CanStep
  <2>8. ASSUME NEW p \in Peers(k), Live(p) PROVE Sent(k, p) /\ Received(k, p)
    <3>1. p \in Nodes /\ round[k] <= round[p]
      BY <2>1, <2>5, <2>6, <2>8 DEF Peers
    <3> QED BY <1>1, <2>6, <2>8, <3>1, StreamMoves
  <2>9. ASSUME NEW p \in Peers(k), ~Live(p) PROVE Sent(k, p) /\ Received(k, p)
    <3>1. Sent(k, p) /\ (Received(k, p) \/ pipe[p][k] # <<>>)
      BY <2>7, <2>9 DEF CanFail, Live
    <3>2. ~CanRead(k, p) /\ p \in Nodes
      BY <1>1, <2>6, <2>9 DEF CanStep, Peers
    <3>3. ASSUME pipe[p][k] # <<>> PROVE Received(k, p)
      <4>1. need[k][p] \in Int /\ need[k][p] # -1 /\ (need[k][p] >= 0 => Received(k, p))
        BY <1>1, <2>6, <3>2, <3>3 DEF CanRead, IInv, Shape
      <4>2. need[k][p] = PayloadLen[round[k]] /\ round[k] # 0
        BY <1>1, <2>6, <3>2, <4>1 DEF IInv, Exchanged
      <4> QED BY <2>6, <4>1, <4>2, SizeFacts
    <3> QED BY <3>1, <3>3
  <2>10. CanStep(k)
    BY <2>6, <2>8, <2>9 DEF CanStep
  <2> QED BY <1>1, <2>6, <2>10
<1>2. IInv => NobodyStuck
  BY <1>1 DEF NobodyStuck
<1> QED BY <1>2, InitIInv, NextIInv, PTL DEF Spec
=============================================================================

-------------------------- MODULE BootstrapProofs ---------------------------
(***************************************************************************)
(* What Bootstrap guarantees for any numbers of signers and tracers, any   *)
(* claims, any number of processes that may die, and an Authority of an    *)
(* earlier run in any state of its registration.                           *)
(***************************************************************************)
EXTENDS Bootstrap, TLAPS

LEMMA SlotFacts == /\ expected_connections \in Nat \ {0}
                   /\ Slots \subseteq Nat \ {0}
                   /\ \A i \in 1 .. expected_connections + 1 :
                        i \in Slots => i + 1 \in 1 .. expected_connections + 1
BY BootstrapAssumption DEF expected_connections, Slots

-----------------------------------------------------------------------------
(* Types *)

\* An Authority that is not yet listening has an attempt left.
AttemptsLeft == apc["this"] \in {"start", "publishing", "binding"} => binds < Attempts

Typed == TypeOK /\ AttemptsLeft

LEMMA InitTyped == Init => Typed
<1> SUFFICES ASSUME Init
             PROVE  Typed
  OBVIOUS
<1> USE DEF Init, Authorities
<1>1. /\ clock \in 0 .. MaxClock
      /\ binds \in 0 .. Attempts /\ binds < Attempts
  BY BootstrapAssumption
<1>8. file \in Authorities \cup {"absent", "truncated"} /\ timeWait \in BOOLEAN
  OBVIOUS
<1>2. backlog \in [Authorities -> Seq(Actors)]
  OBVIOUS
<1>3. apc \in [Authorities -> {"start", "publishing", "binding", "accepting",
                               "distributing", "done", "failed"}]
  OBVIOUS
<1>4. holder \in [Authorities -> [Slots -> Actors \cup {"nobody", "leftover"}]]
  <2>1. CASE holder = [x \in Authorities |-> [s \in Slots |-> "nobody"]]
    BY <2>1
  <2>2. ASSUME NEW claimed \in OldClaimed,
               holder = [x \in Authorities |-> [s \in Slots |->
                 IF x = "old" /\ s \in claimed THEN "leftover" ELSE "nobody"]]
        PROVE  holder \in [Authorities -> [Slots -> Actors \cup {"nobody", "leftover"}]]
    BY <2>2
  <2> QED BY <2>1, <2>2
<1>5. next \in [Authorities -> 1 .. expected_connections + 1]
  BY SlotFacts
<1>6. /\ pc \in [Actors -> {"idle", "connected", "helloed", "ready",
                            "refused", "rejected", "failed", "crashed"}]
      /\ conn \in [Actors -> Authorities \cup {"none"}]
      /\ anchor \in [Actors -> Authorities \cup {"none"}]
      /\ hello \in [Actors -> Hellos \cup {-1}]
      /\ seal \in [Actors -> -1 .. MaxClock]
      /\ sent \in [Actors -> -1 .. MaxClock]
  BY BootstrapAssumption
<1>7. AttemptsLeft
  BY <1>1 DEF AttemptsLeft
<1> QED BY <1>1, <1>2, <1>3, <1>4, <1>5, <1>6, <1>7, <1>8 DEF Typed, TypeOK

\* Ending an Authority keeps the types.
LEMMA EndKeeps ==
  ASSUME Typed, NEW x \in Authorities, NEW how \in {"done", "failed"}, End(x, how),
         UNCHANGED <<clock, file, binds, holder, next, actorVars>>
  PROVE  Typed'
<1>1. apc' \in [Authorities -> {"start", "publishing", "binding", "accepting",
                                "distributing", "done", "failed"}]
  BY DEF End, Typed, TypeOK
<1>2. backlog' \in [Authorities -> Seq(Actors)]
  BY DEF End, Typed, TypeOK
<1>3. timeWait' \in BOOLEAN
  BY DEF End, Typed, TypeOK
<1>4. apc'["this"] \in {apc["this"], "done", "failed"}
  BY DEF End, Typed, TypeOK
<1> QED BY <1>1, <1>2, <1>3, <1>4 DEF Typed, TypeOK, AttemptsLeft, actorVars

LEMMA NextTyped == Typed /\ [Next]_vars => Typed'
<1> SUFFICES ASSUME Typed, [Next]_vars
             PROVE  Typed'
  OBVIOUS
<1> USE BootstrapAssumption, SlotFacts
        DEF Typed, TypeOK, AttemptsLeft, machineVars, authVars, actorVars
<1>1. ASSUME NEW x \in Authorities, AuthorityStep(x)
      PROVE  Typed'
  <2>1. CASE x = "this" /\ TruncateAnchor
    BY <2>1 DEF TruncateAnchor, Authorities
  <2>2. CASE x = "this" /\ WriteAnchor
    BY <2>2 DEF WriteAnchor, Authorities
  <2>3. CASE x = "this" /\ Bind
    BY <2>3 DEF Bind, Authorities
  <2>4. CASE x = "this" /\ BindInUse
    BY <2>4 DEF BindInUse, Authorities
  <2>5. CASE AcceptHello(x)
    <3>1. backlog' \in [Authorities -> Seq(Actors)]
      BY <2>5 DEF AcceptHello
    <3>2. Head(backlog[x]) \in Actors
      BY <2>5 DEF AcceptHello
    <3>3. holder' \in [Authorities -> [Slots -> Actors \cup {"nobody", "leftover"}]]
      BY <2>5, <3>2 DEF AcceptHello, Free
    <3> QED BY <2>5, <3>1, <3>3 DEF AcceptHello
  <2>6. CASE AcceptEof(x) \/ AcceptBadKey(x)
    <3>1. End(x, "failed")
      BY <2>6 DEF AcceptEof, AcceptBadKey
    <3> QED BY <2>6, <3>1, EndKeeps DEF AcceptEof, AcceptBadKey
  <2>7. CASE AllRegistered(x)
    BY <2>7 DEF AllRegistered, Authorities
  <2>8. CASE SendPackage(x)
    <3>1. seal' \in [Actors -> -1 .. MaxClock] /\ sent' \in [Actors -> -1 .. MaxClock]
      <4> DEFINE b == holder[x][next[x]]
      <4>1. \/ /\ b \in Actors /\ seal' = [seal EXCEPT ![b] = clock]
               /\ sent' = [sent EXCEPT ![b] = clock]
            \/ UNCHANGED <<seal, sent>>
        BY <2>8 DEF SendPackage
      <4>2. clock \in -1 .. MaxClock
        OBVIOUS
      <4>3. CASE UNCHANGED <<seal, sent>>
        BY <4>3
      <4>4. ASSUME NEW c \in Actors,
                   seal' = [seal EXCEPT ![c] = clock], sent' = [sent EXCEPT ![c] = clock]
            PROVE  seal' \in [Actors -> -1 .. MaxClock] /\ sent' \in [Actors -> -1 .. MaxClock]
        BY <4>2, <4>4
      <4> QED BY <4>1, <4>3, <4>4
    <3>2. next' \in [Authorities -> 1 .. expected_connections + 1]
      BY <2>8 DEF SendPackage
    <3> QED BY <2>8, <3>1, <3>2 DEF SendPackage
  <2>9. CASE SendPackageFails(x)
    <3>1. End(x, "failed")
      BY <2>9 DEF SendPackageFails
    <3> QED BY <2>9, <3>1, EndKeeps DEF SendPackageFails
  <2>10. CASE Shutdown(x)
    <3>1. End(x, "done")
      BY <2>10 DEF Shutdown
    <3> QED BY <2>10, <3>1, EndKeeps DEF Shutdown
  <2> QED BY <1>1, <2>1, <2>2, <2>3, <2>4, <2>5, <2>6, <2>7, <2>8, <2>9, <2>10
          DEF AuthorityStep
<1>2. ASSUME NEW a \in Actors, ActorStep(a)
      PROVE  Typed'
  <2>1. CASE Connect(a)
    <3>1. backlog' \in [Authorities -> Seq(Actors)]
      BY <2>1 DEF Connect
    <3> QED BY <2>1, <3>1 DEF Connect
  <2>2. CASE Refused(a)
    BY <2>2 DEF Refused
  <2>3. CASE SendHello(a)
    <3>3. UNCHANGED <<clock, file, timeWait, apc, binds, backlog, holder, next, conn,
                    seal, sent>>
      BY <2>3 DEF SendHello
    <3>1. CASE file \in Authorities
      <4>1. PICK s \in Claims[a] : hello' = [hello EXCEPT ![a] = s]
        BY <2>3, <3>1 DEF SendHello
      <4>2. s \in Hellos
        BY BootstrapAssumption
      <4>3. /\ anchor' = [anchor EXCEPT ![a] = file]
            /\ pc' = [pc EXCEPT ![a] = "helloed"]
        BY <2>3, <3>1 DEF SendHello
      <4> QED BY <3>1, <3>3, <4>1, <4>2, <4>3
    <3>2. CASE file \notin Authorities
      <4>1. UNCHANGED <<anchor, hello>> /\ pc' = [pc EXCEPT ![a] = "failed"]
        BY <2>3, <3>2 DEF SendHello
      <4> QED BY <3>3, <4>1
    <3> QED BY <3>1, <3>2
  <2>4. CASE LoadPackage(a)
    BY <2>4 DEF LoadPackage
  <2>5. CASE ExitOnAuthority(a)
    BY <2>5 DEF ExitOnAuthority
  <2> QED BY <1>2, <2>1, <2>2, <2>3, <2>4, <2>5 DEF ActorStep
<1>3. ASSUME NEW a \in Actors, Crash(a)
      PROVE  Typed'
  BY <1>3 DEF Crash
<1>4. CASE OldKilled
  <2>1. End("old", "failed") /\ "old" \in Authorities
    BY <1>4 DEF OldKilled, Authorities
  <2> QED BY <1>4, <2>1, EndKeeps DEF OldKilled
<1>5. CASE ReleasePort
  BY <1>5 DEF ReleasePort
<1>6. CASE Tick
  BY <1>6 DEF Tick
<1>7. CASE UNCHANGED vars
  BY <1>7 DEF vars
<1> QED BY <1>1, <1>2, <1>3, <1>4, <1>5, <1>6, <1>7 DEF Next

\* Every variable keeps its type, whatever the processes do.
THEOREM TypeCorrect == Spec => []TypeOK
<1>1. Typed => TypeOK
  BY DEF Typed
<1> QED BY InitTyped, NextTyped, <1>1, PTL DEF Spec

-----------------------------------------------------------------------------
(* The trust anchor *)

\* An actor has no connection before it connects, and has read and claimed
\* nothing before its Hello.
Unstarted ==
  \A a \in Actors :
    /\ pc[a] = "idle" => conn[a] = "none"
    /\ pc[a] \in {"idle", "connected"} => anchor[a] = "none" /\ hello[a] = -1

\* Once this Authority is through with publishing, the file is its own, and
\* nobody is connected to it before it listens.
Published ==
  /\ apc["this"] \notin {"start", "publishing"} => file = "this"
  /\ \A a \in Actors : conn[a] = "this" =>
       apc["this"] \notin {"start", "publishing", "binding"}

Pinned == \A a \in Actors : conn[a] = "this" => anchor[a] \in {"none", "this"}

Anchored == Unstarted /\ Published /\ Pinned

LEMMA InitAnchored == Init => Anchored
BY DEF Init, Anchored, Unstarted, Published, Pinned, Authorities

\* Where an Authority goes by ending, the other stays.
LEMMA EndMoves ==
  ASSUME Typed, NEW x \in Authorities, NEW how \in {"done", "failed"}, End(x, how)
  PROVE  /\ apc'["this"] \in {apc["this"], how}
         /\ x # "this" => apc'["this"] = apc["this"]
BY DEF End, Typed, TypeOK, Authorities

LEMMA NextAnchored == Typed /\ Anchored /\ [Next]_vars => Anchored'
<1> SUFFICES ASSUME Typed, Anchored, [Next]_vars
             PROVE  Anchored'
  OBVIOUS
<1> USE DEF Typed, TypeOK, Anchored, Unstarted, Published, Pinned,
            machineVars, authVars, actorVars
<1>8. ASSUME NEW x \in Authorities, apc[x] \in {"accepting", "distributing"},
             NEW how \in {"done", "failed"}, End(x, how),
             UNCHANGED <<clock, file, binds, holder, next, actorVars>>
      PROVE  Anchored'
  <2>1. /\ apc'["this"] \in {apc["this"], how}
        /\ x # "this" => apc'["this"] = apc["this"]
    BY <1>8, EndMoves
  <2> QED BY <1>8, <2>1
<1>1. ASSUME NEW x \in Authorities, AuthorityStep(x)
      PROVE  Anchored'
  <2>1. CASE x = "this" /\ TruncateAnchor
    BY <2>1 DEF TruncateAnchor
  <2>2. CASE x = "this" /\ WriteAnchor
    BY <2>2 DEF WriteAnchor
  <2>3. CASE x = "this" /\ Bind
    BY <2>3 DEF Bind
  <2>4. CASE x = "this" /\ BindInUse
    BY <2>4 DEF BindInUse
  <2>5. CASE AcceptHello(x)
    BY <2>5 DEF AcceptHello
  <2>6. CASE AcceptEof(x) \/ AcceptBadKey(x)
    BY <1>8, <2>6 DEF AcceptEof, AcceptBadKey, Registering
  <2>7. CASE AllRegistered(x)
    BY <2>7 DEF AllRegistered
  <2>8. CASE SendPackage(x)
    BY <2>8 DEF SendPackage
  <2>9. CASE SendPackageFails(x)
    BY <1>8, <2>9 DEF SendPackageFails
  <2>10. CASE Shutdown(x)
    BY <1>8, <2>10 DEF Shutdown
  <2> QED BY <1>1, <2>1, <2>2, <2>3, <2>4, <2>5, <2>6, <2>7, <2>8, <2>9, <2>10
          DEF AuthorityStep
<1>2. ASSUME NEW a \in Actors, ActorStep(a)
      PROVE  Anchored'
  <2>1. CASE Connect(a)
    BY <2>1 DEF Connect, Listening
  <2>2. CASE Refused(a)
    BY <2>2 DEF Refused
  <2>3. CASE SendHello(a)
    BY <2>3, ZenonT(60) DEF SendHello
  <2>4. CASE LoadPackage(a)
    BY <2>4 DEF LoadPackage
  <2>5. CASE ExitOnAuthority(a)
    BY <2>5 DEF ExitOnAuthority
  <2> QED BY <1>2, <2>1, <2>2, <2>3, <2>4, <2>5 DEF ActorStep
<1>3. ASSUME NEW a \in Actors, Crash(a)
      PROVE  Anchored'
  BY <1>3 DEF Crash
<1>4. CASE OldKilled
  BY <1>4, <1>8 DEF OldKilled, Listening, Authorities
<1>5. CASE ReleasePort
  BY <1>5 DEF ReleasePort
<1>6. CASE Tick
  BY <1>6 DEF Tick
<1>7. CASE UNCHANGED vars
  BY <1>7 DEF vars
<1> QED BY <1>1, <1>2, <1>3, <1>4, <1>5, <1>6, <1>7 DEF Next

\* "Publish the trust anchor BEFORE listening, so anyone who manages to
\* connect is guaranteed to be able to read it" (src/bin/authority.rs).
THEOREM AnchorReadableTheorem == Spec => []AnchorReadable
<1>1. Typed /\ Anchored => AnchorReadable
  BY DEF Anchored, Published, Pinned, AnchorReadable
<1> QED BY InitTyped, NextTyped, InitAnchored, NextAnchored, <1>1, PTL DEF Spec

-----------------------------------------------------------------------------
(* The roster *)

\* A connection waits where its actor is connected.
Queued == \A x \in Authorities : \A i \in 1 .. Len(backlog[x]) : conn[backlog[x][i]] = x

\* A slot is held by the connected actor that claimed it, and none is open
\* once the packages go out.
Held ==
  \A x \in Authorities : \A s \in Slots :
    /\ holder[x][s] \in Actors => /\ conn[holder[x][s]] = x
                                  /\ hello[holder[x][s]] = s
    /\ apc[x] = "distributing" => holder[x][s] # "nobody"

\* Whoever was sent a package holds its slot at an Authority with no open
\* slot, and the package was sealed when it was sent.
Sealed ==
  \A a \in Actors : seal[a] # -1 =>
    /\ conn[a] \in Authorities /\ hello[a] \in Slots
    /\ holder[conn[a]][hello[a]] = a
    /\ \A s \in Slots : holder[conn[a]][s] # "nobody"
    /\ seal[a] = sent[a] /\ seal[a] <= clock

Accepted == \A a \in Actors : pc[a] = "ready" => seal[a] # -1 /\ anchor[a] = conn[a]

Enrolled == Queued /\ Held /\ Sealed /\ Accepted

LEMMA InitEnrolled == Init => Enrolled
<1> SUFFICES ASSUME Init
             PROVE  Enrolled
  OBVIOUS
<1>1. Queued
  BY DEF Init, Queued
<1>2. Held
  <2>1. CASE holder = [x \in Authorities |-> [s \in Slots |-> "nobody"]]
    BY <2>1, BootstrapAssumption DEF Init, Held, Authorities
  <2>2. ASSUME NEW claimed \in OldClaimed,
               holder = [x \in Authorities |-> [s \in Slots |->
                 IF x = "old" /\ s \in claimed THEN "leftover" ELSE "nobody"]]
        PROVE  Held
    BY <2>2, BootstrapAssumption DEF Init, Held, Authorities
  <2> QED BY <2>1, <2>2 DEF Init
<1>3. Sealed /\ Accepted
  BY DEF Init, Sealed, Accepted
<1> QED BY <1>1, <1>2, <1>3 DEF Enrolled

\* Ending leaves what Enrolled is about alone.
LEMMA EndEnrolled ==
  ASSUME Typed, Enrolled, NEW x \in Authorities, NEW how \in {"done", "failed"}, End(x, how),
         UNCHANGED <<clock, file, binds, holder, next, actorVars>>
  PROVE  Enrolled'
<1> USE DEF Typed, TypeOK, Enrolled, actorVars
<1>1. Queued'
  BY DEF Queued, End
<1>2. Held'
  <2>1. \A y \in Authorities : apc'[y] = "distributing" => apc[y] = "distributing"
    BY DEF End
  <2> QED BY <2>1 DEF Held
<1>3. Sealed' /\ Accepted'
  BY DEF Sealed, Accepted
<1> QED BY <1>1, <1>2, <1>3

\* Registering the head of the backlog.
LEMMA AcceptEnrolled ==
  ASSUME Typed, Enrolled, NEW x \in Authorities, AcceptHello(x)
  PROVE  Enrolled'
<1> DEFINE b == Head(backlog[x])
<1> USE DEF Typed, TypeOK, Enrolled, machineVars, authVars, actorVars
<1>1. b \in Actors /\ conn[b] = x /\ b \notin {"nobody", "leftover"}
  BY BootstrapAssumption DEF AcceptHello, Queued
<1>2. \/ UNCHANGED holder
      \/ /\ hello[b] \in Slots /\ holder[x][hello[b]] = "nobody"
         /\ holder' = [holder EXCEPT ![x][hello[b]] = b]
  BY DEF AcceptHello, Free
<1>3. /\ UNCHANGED <<clock, apc, pc, conn, anchor, hello, seal, sent>>
      /\ backlog' = [backlog EXCEPT ![x] = Tail(@)] /\ backlog[x] # <<>>
  BY DEF AcceptHello
<1> HIDE DEF b
<1>4. Queued'
  <2> SUFFICES ASSUME NEW y \in Authorities, NEW i \in 1 .. Len(backlog'[y])
               PROVE  conn[backlog'[y][i]] = y
    BY <1>3 DEF Queued
  <2>1. CASE y = x
    <3>1. backlog'[x] = Tail(backlog[x]) /\ backlog[x] \in Seq(Actors)
      BY <1>3
    <3>2. i \in 1 .. Len(Tail(backlog[x]))
      BY <2>1, <3>1
    <3>3. i + 1 \in 1 .. Len(backlog[x]) /\ Tail(backlog[x])[i] = backlog[x][i + 1]
      BY <1>3, <3>1, <3>2
    <3>4. conn[backlog[x][i + 1]] = x
      BY <3>3 DEF Queued
    <3>5. backlog'[y][i] = backlog[x][i + 1]
      BY <2>1, <3>1, <3>3
    <3> QED BY <2>1, <3>4, <3>5
  <2>2. CASE y # x
    BY <1>3, <2>2 DEF Queued
  <2> QED BY <2>1, <2>2
<1>5. \A y \in Authorities, s \in Slots :
        \/ holder'[y][s] = holder[y][s]
        \/ y = x /\ s = hello[b] /\ holder'[y][s] = b /\ holder[y][s] = "nobody"
  BY <1>2
<1>6. Held'
  BY <1>1, <1>3, <1>5 DEF Held
<1>7. Sealed'
  <2> SUFFICES ASSUME NEW a \in Actors, seal[a] # -1
               PROVE  /\ conn[a] \in Authorities /\ hello[a] \in Slots
                      /\ holder'[conn[a]][hello[a]] = a
                      /\ \A s \in Slots : holder'[conn[a]][s] # "nobody"
                      /\ seal[a] = sent[a] /\ seal[a] <= clock
    BY <1>3 DEF Sealed
  <2>1. /\ conn[a] \in Authorities /\ hello[a] \in Slots
        /\ holder[conn[a]][hello[a]] = a
        /\ \A s \in Slots : holder[conn[a]][s] # "nobody"
        /\ seal[a] = sent[a] /\ seal[a] <= clock
    BY DEF Sealed
  <2>2. \A s \in Slots : holder'[conn[a]][s] = holder[conn[a]][s]
    BY <1>5, <2>1
  <2> QED BY <2>1, <2>2
<1>8. Accepted'
  BY <1>3 DEF Accepted
<1> QED BY <1>4, <1>6, <1>7, <1>8

\* Sending the package for the next slot.
LEMMA SendEnrolled ==
  ASSUME Typed, Enrolled, NEW x \in Authorities, SendPackage(x)
  PROVE  Enrolled'
<1> DEFINE b == holder[x][next[x]]
<1> USE DEF Typed, TypeOK, Enrolled, machineVars
<1>1. /\ UNCHANGED <<clock, apc, backlog, holder, pc, conn, anchor, hello>>
      /\ apc[x] = "distributing" /\ next[x] \in Slots
  BY DEF SendPackage
<1>2. \/ UNCHANGED <<seal, sent>>
      \/ /\ b \in Actors
         /\ seal' = [seal EXCEPT ![b] = clock] /\ sent' = [sent EXCEPT ![b] = clock]
  BY DEF SendPackage
<1>3. b \in Actors => conn[b] = x /\ hello[b] = next[x]
  BY <1>1 DEF Held
<1>4. \A s \in Slots : holder[x][s] # "nobody"
  BY <1>1 DEF Held
<1>5. Queued' /\ Held'
  BY <1>1 DEF Queued, Held
<1>6. Sealed'
  <2>1. CASE UNCHANGED <<seal, sent>>
    BY <1>1, <2>1 DEF Sealed
  <2>2. ASSUME b \in Actors,
               seal' = [seal EXCEPT ![b] = clock], sent' = [sent EXCEPT ![b] = clock]
        PROVE  Sealed'
    <3> SUFFICES ASSUME NEW a \in Actors, seal'[a] # -1
                 PROVE  /\ conn[a] \in Authorities /\ hello[a] \in Slots
                        /\ holder[conn[a]][hello[a]] = a
                        /\ \A s \in Slots : holder[conn[a]][s] # "nobody"
                        /\ seal'[a] = sent'[a] /\ seal'[a] <= clock
      BY <1>1 DEF Sealed
    <3>1. CASE a = b
      <4>1. seal'[a] = clock /\ sent'[a] = clock
        BY <2>2, <3>1
      <4> QED BY <1>1, <1>3, <1>4, <2>2, <3>1, <4>1
    <3>2. CASE a # b
      <4>1. seal'[a] = seal[a] /\ sent'[a] = sent[a]
        BY <2>2, <3>2
      <4> QED BY <4>1 DEF Sealed
    <3> QED BY <3>1, <3>2
  <2> QED BY <1>2, <2>1, <2>2
<1>7. Accepted'
  <2>1. \A a \in Actors : seal[a] # -1 => seal'[a] # -1
    BY <1>2
  <2> QED BY <1>1, <2>1 DEF Accepted
<1> QED BY <1>5, <1>6, <1>7

\* A step of an actor.
LEMMA ActorEnrolled ==
  ASSUME Typed, Unstarted, Enrolled, NEW a \in Actors, ActorStep(a)
  PROVE  Enrolled'
<1> USE DEF Typed, TypeOK, Enrolled, machineVars, authVars
<1>9. seal[a] = -1 \/ pc[a] \notin {"idle", "connected"}
  BY SlotFacts DEF Unstarted, Sealed
<1>1. CASE Connect(a)
  <2>1. PICK x \in Authorities :
          /\ conn' = [conn EXCEPT ![a] = x]
          /\ backlog' = [backlog EXCEPT ![x] = Append(@, a)]
    BY <1>1 DEF Connect
  <2>2. /\ UNCHANGED <<clock, apc, holder, anchor, hello, seal, sent>>
        /\ pc[a] = "idle" /\ pc' = [pc EXCEPT ![a] = "connected"]
        /\ conn[a] = "none"
    BY <1>1 DEF Connect, Unstarted
  <2>3. Queued'
    <3> SUFFICES ASSUME NEW y \in Authorities, NEW i \in 1 .. Len(backlog'[y])
                 PROVE  conn'[backlog'[y][i]] = y
      BY DEF Queued
    <3>1. \A c \in Actors : conn[c] = y => conn'[c] = y
      BY <2>1, <2>2 DEF Authorities
    <3>2. CASE y = x
      <4>1. backlog'[x] = Append(backlog[x], a) /\ backlog[x] \in Seq(Actors)
        BY <2>1
      <4>2. CASE i = Len(backlog[x]) + 1
        BY <2>1, <3>2, <4>1, <4>2
      <4>3. CASE i \in 1 .. Len(backlog[x])
        <5>1. backlog'[x][i] = backlog[x][i] /\ backlog[x][i] \in Actors
          BY <4>1, <4>3
        <5> QED BY <3>1, <3>2, <4>3, <5>1 DEF Queued
      <4> QED BY <3>2, <4>1, <4>2, <4>3
    <3>3. CASE y # x
      <4>1. backlog'[y] = backlog[y] /\ backlog[y] \in Seq(Actors)
        BY <2>1, <3>3
      <4> QED BY <3>1, <4>1 DEF Queued
    <3> QED BY <3>2, <3>3
  <2>4. Held'
    <3>1. \A y \in Authorities, c \in Actors : conn[c] = y => conn'[c] = y
      BY <2>1, <2>2 DEF Authorities
    <3> QED BY <2>2, <3>1 DEF Held
  <2>5. Sealed'
    <3>1. \A c \in Actors : seal[c] # -1 => conn'[c] = conn[c]
      BY <1>9, <2>1, <2>2
    <3> QED BY <2>2, <3>1 DEF Sealed
  <2>6. Accepted'
    <3>1. \A c \in Actors : pc'[c] = "ready" => pc[c] = "ready" /\ conn'[c] = conn[c]
      BY <2>1, <2>2
    <3> QED BY <2>2, <3>1 DEF Accepted
  <2> QED BY <2>3, <2>4, <2>5, <2>6
<1>2. CASE Refused(a)
  BY <1>2 DEF Refused, Queued, Held, Sealed, Accepted
<1>3. CASE SendHello(a)
  <2>1. /\ UNCHANGED <<clock, apc, backlog, holder, conn, seal, sent>>
        /\ pc[a] = "connected" /\ hello[a] = -1
        /\ \A c \in Actors \ {a} : /\ pc'[c] = pc[c] /\ anchor'[c] = anchor[c]
                                   /\ hello'[c] = hello[c]
        /\ pc'[a] \in {"helloed", "failed"}
    BY <1>3 DEF SendHello, Unstarted
  <2>2. Queued'
    BY <2>1 DEF Queued
  <2>3. Held'
    <3>1. \A y \in Authorities, s \in Slots : holder[y][s] # a
      BY <2>1, SlotFacts DEF Held
    <3> QED BY <2>1, <3>1 DEF Held
  <2>4. Sealed'
    <3>1. \A c \in Actors : seal[c] # -1 => hello'[c] = hello[c]
      BY <1>9, <2>1
    <3> QED BY <2>1, <3>1 DEF Sealed
  <2>5. Accepted'
    BY <2>1 DEF Accepted
  <2> QED BY <2>2, <2>3, <2>4, <2>5
<1>4. CASE LoadPackage(a)
  <2>1. Queued' /\ Held' /\ Sealed'
    BY <1>4 DEF LoadPackage, Queued, Held, Sealed
  <2>2. Accepted'
    BY <1>4 DEF LoadPackage, Genuine, Accepted
  <2> QED BY <2>1, <2>2
<1>5. CASE ExitOnAuthority(a)
  BY <1>5 DEF ExitOnAuthority, Queued, Held, Sealed, Accepted
<1> QED BY <1>1, <1>2, <1>3, <1>4, <1>5 DEF ActorStep

LEMMA NextEnrolled == Typed /\ Unstarted /\ Enrolled /\ [Next]_vars => Enrolled'
<1> SUFFICES ASSUME Typed, Unstarted, Enrolled, [Next]_vars
             PROVE  Enrolled'
  OBVIOUS
<1> USE DEF machineVars, authVars, actorVars
<1>1. ASSUME NEW x \in Authorities, AuthorityStep(x)
      PROVE  Enrolled'
  <2>1. CASE x = "this" /\ (TruncateAnchor \/ WriteAnchor \/ Bind \/ BindInUse)
    <3>1. /\ UNCHANGED <<clock, backlog, holder, actorVars>>
          /\ \A y \in Authorities : apc'[y] = "distributing" => apc[y] = "distributing"
      BY <2>1 DEF TruncateAnchor, WriteAnchor, Bind, BindInUse, Typed, TypeOK
    <3> QED BY <3>1 DEF Enrolled, Queued, Held, Sealed, Accepted
  <2>2. CASE AcceptHello(x)
    BY <2>2, AcceptEnrolled
  <2>3. CASE AcceptEof(x) \/ AcceptBadKey(x)
    BY <2>3, EndEnrolled DEF AcceptEof, AcceptBadKey
  <2>4. CASE AllRegistered(x)
    <3>1. /\ UNCHANGED <<clock, backlog, holder, actorVars>>
          /\ \A y \in Authorities : apc'[y] = "distributing" => apc[y] = "distributing" \/ y = x
          /\ \A s \in Slots : holder[x][s] # "nobody"
      BY <2>4 DEF AllRegistered, Registering, Free, Typed, TypeOK
    <3> QED BY <3>1 DEF Enrolled, Queued, Held, Sealed, Accepted
  <2>5. CASE SendPackage(x)
    BY <2>5, SendEnrolled
  <2>6. CASE SendPackageFails(x)
    BY <2>6, EndEnrolled DEF SendPackageFails
  <2>7. CASE Shutdown(x)
    BY <2>7, EndEnrolled DEF Shutdown
  <2> QED BY <1>1, <2>1, <2>2, <2>3, <2>4, <2>5, <2>6, <2>7 DEF AuthorityStep
<1>2. ASSUME NEW a \in Actors, ActorStep(a)
      PROVE  Enrolled'
  BY <1>2, ActorEnrolled
<1>3. ASSUME NEW a \in Actors, Crash(a)
      PROVE  Enrolled'
  BY <1>3 DEF Crash, Enrolled, Queued, Held, Sealed, Accepted, Typed, TypeOK
<1>4. CASE OldKilled
  <2>1. End("old", "failed") /\ "old" \in Authorities
    BY <1>4 DEF OldKilled, Authorities
  <2> QED BY <1>4, <2>1, EndEnrolled DEF OldKilled
<1>5. CASE ReleasePort
  BY <1>5 DEF ReleasePort, Enrolled, Queued, Held, Sealed, Accepted
<1>6. CASE Tick
  BY <1>6 DEF Tick, Enrolled, Queued, Held, Sealed, Accepted, Typed, TypeOK
<1>7. CASE UNCHANGED vars
  BY <1>7 DEF vars, Enrolled, Queued, Held, Sealed, Accepted
<1> QED BY <1>1, <1>2, <1>3, <1>4, <1>5, <1>6, <1>7 DEF Next

LEMMA Inductive == Spec => [](Typed /\ Anchored /\ Enrolled)
<1>1. Anchored => Unstarted
  BY DEF Anchored
<1> QED BY InitTyped, NextTyped, InitAnchored, NextAnchored, InitEnrolled, NextEnrolled,
           <1>1, PTL DEF Spec

\* A ready actor is the one holder of its slot, under the Authority it pinned,
\* with every slot of the roster held by whoever claimed it.
THEOREM VouchedRosterTheorem == Spec => []VouchedRoster
<1>1. Enrolled => VouchedRoster
  BY DEF Enrolled, Accepted, Sealed, VouchedRoster
<1> QED BY Inductive, <1>1, PTL

\* The time registration takes costs no package its validity: one that is
\* turned down waited at its actor, or comes from an Authority not pinned.
THEOREM OnlyLateReadersRejectTheorem == Spec => OnlyLateReadersReject
<1> DEFINE A == \A a \in Actors : (pc[a] = "helloed" /\ pc'[a] = "rejected") =>
                  clock - sent[a] > MaxAge \/ anchor[a] # conn[a]
<1>1. Typed /\ Enrolled /\ [Next]_vars => [A]_vars
  <2> SUFFICES ASSUME Typed, Enrolled, [Next]_vars,
                      NEW a \in Actors, pc[a] = "helloed", pc'[a] = "rejected"
               PROVE  clock - sent[a] > MaxAge \/ anchor[a] # conn[a]
    OBVIOUS
  <2> USE DEF Typed, TypeOK, machineVars, authVars, actorVars
  <2>1. LoadPackage(a) /\ ~Genuine(a)
    <3>1. ASSUME NEW x \in Authorities, AuthorityStep(x)
          PROVE  FALSE
      BY <3>1 DEF AuthorityStep, TruncateAnchor, WriteAnchor, Bind, BindInUse, AcceptHello,
                  AcceptEof, AcceptBadKey, AllRegistered, SendPackage, SendPackageFails, Shutdown
    <3>2. ASSUME NEW c \in Actors, ActorStep(c)
          PROVE  LoadPackage(a) /\ ~Genuine(a)
      BY <3>2 DEF ActorStep, Connect, Refused, SendHello, LoadPackage, ExitOnAuthority
    <3>3. ASSUME NEW c \in Actors, Crash(c)
          PROVE  FALSE
      BY <3>3 DEF Crash
    <3>4. ~(OldKilled \/ ReleasePort \/ Tick \/ UNCHANGED vars)
      BY DEF OldKilled, ReleasePort, Tick, vars
    <3> QED BY <3>1, <3>2, <3>3, <3>4 DEF Next
  <2>2. seal[a] = sent[a] /\ seal[a] <= clock
    BY <2>1 DEF LoadPackage, Enrolled, Sealed
  <2> QED BY <2>1, <2>2, BootstrapAssumption DEF Genuine
<1> QED BY Inductive, <1>1, PTL DEF Spec, OnlyLateReadersReject

-----------------------------------------------------------------------------
(* Nobody waits for nothing *)

\* Who has a connection has it to one of the Authorities, and who said Hello
\* claimed something by it.  The earlier Authority has its port since long.
Introduced ==
  /\ apc["old"] \notin {"start", "publishing", "binding"}
  /\ \A a \in Actors : /\ pc[a] \in {"connected", "helloed"} => conn[a] \in Authorities
                       /\ pc[a] = "helloed" => hello[a] # -1

\* The conditions under which Authority x and actor a have a step to take.
AuthorityCan(x) ==
  \/ x = "this" /\ apc[x] \in {"start", "publishing", "binding"}
  \/ /\ apc[x] = "accepting"
     /\ Registering(x) =>
          /\ backlog[x] # <<>>
          /\ hello[Head(backlog[x])] # -1 \/ Gone(Head(backlog[x]))
  \/ apc[x] = "distributing"

ActorCan(a) ==
  \/ pc[a] \in {"idle", "connected"}
  \/ pc[a] = "helloed" /\ (seal[a] # -1 \/ LinkClosed(a))

SomebodyCan == (\E x \in Authorities : AuthorityCan(x)) \/ (\E a \in Actors : ActorCan(a))

AllEnded == (\A a \in Actors : Gone(a)) /\ (\A x \in Authorities : Ended(x))

NobodyStuck == SomebodyCan \/ AllEnded \/ \E x \in Authorities : Starved(x)

\* A step of an Authority to these values, and one of an actor.
AuthorityTo(f, where, tries, queues, holders, turns, seals, times) ==
  vars' = <<<<clock, f, timeWait>>, <<where, tries, queues, holders, turns>>,
            <<pc, conn, anchor, hello, seals, times>>>>

ActorTo(queues, where, conns, anchors, hellos) ==
  vars' = <<machineVars, <<apc, binds, queues, holder, next>>,
            <<where, conns, anchors, hellos, seal, sent>>>>

\* Whatever an Authority is doing, one of these is a step of it.
LEMMA AuthorityCanIsEnough ==
  ASSUME Typed, NEW x \in Authorities
  PROVE  /\ x = "this" /\ apc[x] = "start"
            /\ AuthorityTo("truncated", [apc EXCEPT ![x] = "publishing"], binds, backlog,
                           holder, next, seal, sent)
            => AuthorityStep(x)
         /\ x = "this" /\ apc[x] = "publishing"
            /\ AuthorityTo("this", [apc EXCEPT ![x] = "binding"], binds, backlog,
                           holder, next, seal, sent)
            => AuthorityStep(x)
         /\ x = "this" /\ apc[x] = "binding" /\ ~PortInUse
            /\ AuthorityTo(file, [apc EXCEPT ![x] = "accepting"], binds, backlog,
                           holder, next, seal, sent)
            => AuthorityStep(x)
         /\ x = "this" /\ apc[x] = "binding" /\ PortInUse
            /\ AuthorityTo(file,
                           [apc EXCEPT ![x] = IF binds + 1 = Attempts THEN "failed" ELSE @],
                           binds + 1, backlog, holder, next, seal, sent)
            => AuthorityStep(x)
         /\ Registering(x) /\ backlog[x] # <<>> /\ hello[Head(backlog[x])] \notin {-1, BadKey}
            /\ AuthorityTo(file, apc, binds, [backlog EXCEPT ![x] = Tail(@)],
                           IF Free(x, hello[Head(backlog[x])])
                             THEN [holder EXCEPT ![x][hello[Head(backlog[x])]] =
                                     Head(backlog[x])]
                             ELSE holder,
                           next, seal, sent)
            => AuthorityStep(x)
         /\ Registering(x) /\ backlog[x] # <<>>
            /\ \/ hello[Head(backlog[x])] = -1 /\ Gone(Head(backlog[x]))
               \/ hello[Head(backlog[x])] = BadKey
            /\ AuthorityTo(file, [apc EXCEPT ![x] = "failed"], binds,
                           [backlog EXCEPT ![x] = <<>>], holder, next, seal, sent)
            => AuthorityStep(x)
         /\ apc[x] = "accepting" /\ ~Registering(x)
            /\ AuthorityTo(file, [apc EXCEPT ![x] = "distributing"], binds, backlog,
                           holder, next, seal, sent)
            => AuthorityStep(x)
         /\ apc[x] = "distributing" /\ next[x] \in Slots /\ holder[x][next[x]] \in Actors
            /\ AuthorityTo(file, apc, binds, backlog, holder, [next EXCEPT ![x] = @ + 1],
                           [seal EXCEPT ![holder[x][next[x]]] = clock],
                           [sent EXCEPT ![holder[x][next[x]]] = clock])
            => AuthorityStep(x)
         /\ apc[x] = "distributing" /\ next[x] \in Slots /\ holder[x][next[x]] \notin Actors
            /\ AuthorityTo(file, apc, binds, backlog, holder, [next EXCEPT ![x] = @ + 1],
                           seal, sent)
            => AuthorityStep(x)
         /\ apc[x] = "distributing" /\ next[x] \notin Slots
            /\ AuthorityTo(file, [apc EXCEPT ![x] = "done"], binds,
                           [backlog EXCEPT ![x] = <<>>], holder, next, seal, sent)
            => AuthorityStep(x)
<1> USE DEF AuthorityTo, vars, machineVars, authVars, actorVars
<1>0. timeWait \in IF x = "old" THEN BOOLEAN ELSE {timeWait}
  BY DEF Typed, TypeOK
<1>1. ASSUME x = "this", apc[x] = "start",
             AuthorityTo("truncated", [apc EXCEPT ![x] = "publishing"], binds, backlog,
                         holder, next, seal, sent)
      PROVE  TruncateAnchor
  BY <1>1 DEF TruncateAnchor
<1>2. ASSUME x = "this", apc[x] = "publishing",
             AuthorityTo("this", [apc EXCEPT ![x] = "binding"], binds, backlog,
                         holder, next, seal, sent)
      PROVE  WriteAnchor
  BY <1>2 DEF WriteAnchor
<1>3. ASSUME x = "this", apc[x] = "binding", ~PortInUse,
             AuthorityTo(file, [apc EXCEPT ![x] = "accepting"], binds, backlog,
                         holder, next, seal, sent)
      PROVE  Bind
  BY <1>3 DEF Bind
<1>4. ASSUME x = "this", apc[x] = "binding", PortInUse,
             AuthorityTo(file,
                         [apc EXCEPT ![x] = IF binds + 1 = Attempts THEN "failed" ELSE @],
                         binds + 1, backlog, holder, next, seal, sent)
      PROVE  BindInUse
  BY <1>4 DEF BindInUse
<1>5. ASSUME Registering(x), backlog[x] # <<>>, hello[Head(backlog[x])] \notin {-1, BadKey},
             AuthorityTo(file, apc, binds, [backlog EXCEPT ![x] = Tail(@)],
                         IF Free(x, hello[Head(backlog[x])])
                           THEN [holder EXCEPT ![x][hello[Head(backlog[x])]] =
                                   Head(backlog[x])]
                           ELSE holder,
                         next, seal, sent)
      PROVE  AcceptHello(x)
  BY <1>5 DEF AcceptHello
<1>6. ASSUME Registering(x), backlog[x] # <<>>,
             \/ hello[Head(backlog[x])] = -1 /\ Gone(Head(backlog[x]))
             \/ hello[Head(backlog[x])] = BadKey,
             AuthorityTo(file, [apc EXCEPT ![x] = "failed"], binds,
                         [backlog EXCEPT ![x] = <<>>], holder, next, seal, sent)
      PROVE  AcceptEof(x) \/ AcceptBadKey(x)
  BY <1>0, <1>6 DEF AcceptEof, AcceptBadKey, End
<1>7. ASSUME apc[x] = "accepting", ~Registering(x),
             AuthorityTo(file, [apc EXCEPT ![x] = "distributing"], binds, backlog,
                         holder, next, seal, sent)
      PROVE  AllRegistered(x)
  BY <1>7 DEF AllRegistered
<1>8. ASSUME apc[x] = "distributing", next[x] \in Slots, holder[x][next[x]] \in Actors,
             AuthorityTo(file, apc, binds, backlog, holder, [next EXCEPT ![x] = @ + 1],
                         [seal EXCEPT ![holder[x][next[x]]] = clock],
                         [sent EXCEPT ![holder[x][next[x]]] = clock])
      PROVE  SendPackage(x)
  BY <1>8 DEF SendPackage
<1>9. ASSUME apc[x] = "distributing", next[x] \in Slots, holder[x][next[x]] \notin Actors,
             AuthorityTo(file, apc, binds, backlog, holder, [next EXCEPT ![x] = @ + 1],
                         seal, sent)
      PROVE  SendPackage(x)
  BY <1>9 DEF SendPackage
<1>10. ASSUME apc[x] = "distributing", next[x] \notin Slots,
              AuthorityTo(file, [apc EXCEPT ![x] = "done"], binds,
                          [backlog EXCEPT ![x] = <<>>], holder, next, seal, sent)
       PROVE  Shutdown(x)
  BY <1>0, <1>10 DEF Shutdown, End
<1> HIDE DEF AuthorityTo
<1> QED BY <1>1, <1>2, <1>3, <1>4, <1>5, <1>6, <1>7, <1>8, <1>9, <1>10 DEF AuthorityStep

\* And one of these of an actor.
LEMMA ActorCanIsEnough ==
  ASSUME NEW a \in Actors
  PROVE  /\ \A x \in Authorities :
              pc[a] = "idle" /\ Listening(x)
              /\ ActorTo([backlog EXCEPT ![x] = Append(@, a)], [pc EXCEPT ![a] = "connected"],
                         [conn EXCEPT ![a] = x], anchor, hello)
              => ActorStep(a)
         /\ pc[a] = "idle" /\ (\A x \in Authorities : ~Listening(x))
            /\ ActorTo(backlog, [pc EXCEPT ![a] = "refused"], conn, anchor, hello)
            => ActorStep(a)
         /\ \E s \in Claims[a] :
              pc[a] = "connected" /\ file \in Authorities
              /\ ActorTo(backlog, [pc EXCEPT ![a] = "helloed"], conn,
                         [anchor EXCEPT ![a] = file], [hello EXCEPT ![a] = s])
              => ActorStep(a)
         /\ pc[a] = "connected" /\ file \notin Authorities
            /\ ActorTo(backlog, [pc EXCEPT ![a] = "failed"], conn, anchor, hello)
            => ActorStep(a)
         /\ pc[a] = "helloed" /\ seal[a] # -1
            /\ ActorTo(backlog,
                       [pc EXCEPT ![a] = IF Genuine(a) THEN "ready" ELSE "rejected"],
                       conn, anchor, hello)
            => ActorStep(a)
         /\ pc[a] = "helloed" /\ seal[a] = -1 /\ LinkClosed(a)
            /\ ActorTo(backlog, [pc EXCEPT ![a] = "failed"], conn, anchor, hello)
            => ActorStep(a)
<1> USE DEF ActorTo, vars, machineVars, authVars, actorVars
<1>1. ASSUME NEW x \in Authorities, pc[a] = "idle", Listening(x),
             ActorTo([backlog EXCEPT ![x] = Append(@, a)], [pc EXCEPT ![a] = "connected"],
                     [conn EXCEPT ![a] = x], anchor, hello)
      PROVE  Connect(a)
  BY <1>1 DEF Connect
<1>2. ASSUME pc[a] = "idle", \A x \in Authorities : ~Listening(x),
             ActorTo(backlog, [pc EXCEPT ![a] = "refused"], conn, anchor, hello)
      PROVE  Refused(a)
  BY <1>2 DEF Refused
<1>3. PICK s \in Claims[a] : TRUE
  BY BootstrapAssumption
<1>4. ASSUME pc[a] = "connected", file \in Authorities,
             ActorTo(backlog, [pc EXCEPT ![a] = "helloed"], conn,
                     [anchor EXCEPT ![a] = file], [hello EXCEPT ![a] = s])
      PROVE  SendHello(a)
  BY <1>4 DEF SendHello
<1>5. ASSUME pc[a] = "connected", file \notin Authorities,
             ActorTo(backlog, [pc EXCEPT ![a] = "failed"], conn, anchor, hello)
      PROVE  SendHello(a)
  BY <1>5 DEF SendHello
<1>6. ASSUME pc[a] = "helloed", seal[a] # -1,
             ActorTo(backlog,
                     [pc EXCEPT ![a] = IF Genuine(a) THEN "ready" ELSE "rejected"],
                     conn, anchor, hello)
      PROVE  LoadPackage(a)
  BY <1>6 DEF LoadPackage
<1>7. ASSUME pc[a] = "helloed", seal[a] = -1, LinkClosed(a),
             ActorTo(backlog, [pc EXCEPT ![a] = "failed"], conn, anchor, hello)
      PROVE  ExitOnAuthority(a)
  BY <1>7 DEF ExitOnAuthority
<1> HIDE DEF ActorTo
<1> QED BY <1>1, <1>2, <1>4, <1>5, <1>6, <1>7 DEF ActorStep

LEMMA IntroducedInvariant == Spec => []Introduced
<1>1. Init => Introduced
  BY DEF Init, Introduced, Authorities
<1>2. Typed /\ Introduced /\ [Next]_vars => Introduced'
  <2> SUFFICES ASSUME Typed, Introduced, [Next]_vars
               PROVE  Introduced'
    OBVIOUS
  <2> USE DEF Introduced, Typed, TypeOK, machineVars, authVars, actorVars
  <2>1. ASSUME NEW x \in Authorities, AuthorityStep(x)
        PROVE  Introduced'
    BY <2>1 DEF AuthorityStep, TruncateAnchor, WriteAnchor, Bind, BindInUse, AcceptHello,
                AcceptEof, AcceptBadKey, AllRegistered, SendPackage, SendPackageFails,
                Shutdown, End, Authorities
  <2>2. ASSUME NEW a \in Actors, Connect(a) \/ Refused(a) \/ LoadPackage(a)
                                 \/ ExitOnAuthority(a) \/ Crash(a)
        PROVE  Introduced'
    BY <2>2 DEF Connect, Refused, LoadPackage, ExitOnAuthority, Crash
  <2>3. ASSUME NEW a \in Actors, SendHello(a)
        PROVE  Introduced'
    <3>1. pc[a] = "connected" /\ UNCHANGED <<apc, conn>>
      BY <2>3 DEF SendHello
    <3>2. CASE file \in Authorities
      <4>1. PICK s \in Claims[a] : hello' = [hello EXCEPT ![a] = s]
        BY <2>3, <3>2 DEF SendHello
      <4>2. s # -1
        <5>1. s \in Slots \cup {0, -2}
          BY BootstrapAssumption DEF Hellos, BadKey
        <5> QED BY <5>1, SlotFacts
      <4>3. pc' = [pc EXCEPT ![a] = "helloed"]
        BY <2>3, <3>2 DEF SendHello
      <4> QED BY <3>1, <4>1, <4>2, <4>3
    <3>3. CASE file \notin Authorities
      BY <2>3, <3>1, <3>3 DEF SendHello
    <3> QED BY <3>2, <3>3
  <2>4. CASE OldKilled \/ ReleasePort \/ Tick \/ UNCHANGED vars
    BY <2>4 DEF OldKilled, ReleasePort, Tick, vars, End, Authorities
  <2> QED BY <2>1, <2>2, <2>3, <2>4 DEF Next, ActorStep
<1> QED BY <1>1, <1>2, InitTyped, NextTyped, PTL DEF Spec

\* Freedom from deadlock (what BootstrapEnds rests on): somebody has a step to
\* take until every process has ended its bootstrap.  The exception is an
\* Authority that waits in `accept` for a slot which nobody is left to claim.
THEOREM NobodyStuckTheorem == Spec => []NobodyStuck
<1>1. Typed /\ Enrolled /\ Introduced => NobodyStuck
  <2> SUFFICES ASSUME Typed, Enrolled, Introduced, ~SomebodyCan,
                      \A x \in Authorities : ~Starved(x)
               PROVE  AllEnded
    BY DEF NobodyStuck
  <2> USE DEF Typed, TypeOK
  <2>1. ASSUME NEW a \in Actors, ~Gone(a)
        PROVE  /\ pc[a] = "helloed" /\ hello[a] # -1 /\ conn[a] \in Authorities
               /\ seal[a] = -1 /\ ~LinkClosed(a)
    BY <2>1 DEF SomebodyCan, ActorCan, Gone, Introduced
  <2>2. ASSUME NEW x \in Authorities
        PROVE  Ended(x)
    <3> SUFFICES ASSUME ~Ended(x)
                 PROVE  Starved(x)
      OBVIOUS
    <3>1. /\ apc[x] = "accepting" /\ Registering(x)
          /\ backlog[x] # <<>> =>
               hello[Head(backlog[x])] = -1 /\ ~Gone(Head(backlog[x]))
      <4>1. apc[x] \notin {"start", "publishing", "binding"}
        BY DEF SomebodyCan, AuthorityCan, Introduced, Authorities
      <4> QED BY <4>1 DEF SomebodyCan, AuthorityCan, Ended
    <3>2. backlog[x] = <<>>
      <4>1. backlog[x] # <<>> => Head(backlog[x]) \in Actors
        OBVIOUS
      <4> QED BY <2>1, <3>1, <4>1
    <3>3. PICK s \in Slots : Free(x, s)
      BY <3>1 DEF Registering
    <3>4. ASSUME NEW a \in Actors, ~Gone(a), conn[a] = x
          PROVE  hello[a] # s
      <4>0. \A i \in 1 .. Len(backlog[x]) : backlog[x][i] # a
        BY <3>2
      <4>1. PICK r \in Slots : holder[x][r] = a
        BY <2>1, <3>4, <4>0 DEF LinkClosed
      <4>2. hello[a] = r
        BY <4>1 DEF Enrolled, Held
      <4>3. a # "nobody"
        BY BootstrapAssumption
      <4> QED BY <3>3, <4>1, <4>2, <4>3 DEF Free
    <3>5. \A a \in Actors : Gone(a) \/ conn[a] \notin {"none", x} \/ hello[a] \notin {-1, s}
      BY <2>1, <3>4 DEF Authorities
    <3> QED BY <3>1, <3>2, <3>3, <3>5 DEF Starved
  <2>3. \A a \in Actors : Gone(a)
    BY <2>1, <2>2 DEF LinkClosed
  <2> QED BY <2>2, <2>3 DEF AllEnded
<1> QED BY Inductive, IntroducedInvariant, <1>1, PTL
=============================================================================

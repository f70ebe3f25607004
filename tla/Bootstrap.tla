----------------------------- MODULE Bootstrap ------------------------------
(***************************************************************************)
(* The bootstrap: the Authority (src/bin/authority.rs, src/authority.rs)   *)
(* publishes its trust anchor in a file, binds its port, registers one     *)
(* claim per slot and then sends everybody a sealed package; an actor      *)
(* (first phase of src/bin/{signer,combiner,tracer}.rs) connects once,     *)
(* reads the anchor, says Hello and checks the package against the anchor. *)
(*                                                                         *)
(* An Authority of an earlier run that never got all its actors may still  *)
(* hold the port, with the same file pinned so far.  Slots are numbered in *)
(* the order of distribution: the N signers, the Combiner, the N3 tracers. *)
(* A package is abstracted to its sealer and timestamp, a Hello to the     *)
(* slot it claims (0: an id out of bounds; BadKey: any claim, with bytes   *)
(* for a key that are none).                                               *)
(***************************************************************************)
EXTENDS Integers, Sequences, FiniteSets

CONSTANTS N, N3,         \* signers and tracers the Authority was started for
          Actors,        \* the processes that will be started
          Claims,        \* Claims[a]: what the Hello of actor a may say
          Mortal,        \* actors that may die at any moment
          OldClaimed,    \* slots claimed at an earlier Authority, possible sets
          Attempts,      \* bind attempts before giving up (60 in the code)
          MaxAge,        \* age at which a package expires (60 s)
          MaxClock       \* bound on the clock

expected_connections == N + 1 + N3
Slots == 1 .. expected_connections
Authorities == {"this", "old"}
BadKey == -2
Hellos == Slots \cup {0, BadKey}

ASSUME BootstrapAssumption ==
  /\ N \in Nat \ {0} /\ N3 \in Nat \ {0}
  /\ Claims \in [Actors -> SUBSET Hellos]
  /\ \A a \in Actors : Claims[a] # {}
  /\ Mortal \subseteq Actors
  /\ OldClaimed \subseteq SUBSET Slots
  /\ Attempts \in Nat \ {0} /\ MaxAge \in Nat /\ MaxClock \in Nat
  /\ Actors \cap {"nobody", "leftover"} = {}

VARIABLES clock,
          file,      \* the trust anchor file: whose keys, or absent or truncated
          timeWait,  \* the OS has not released the port of an earlier process
          apc,       \* apc[x]: where Authority x is, see TypeOK
          binds,     \* bind attempts of this Authority that found the port in use
          backlog,   \* backlog[x]: connections x has not accepted yet, in order
          holder,    \* holder[x][s]: who registered for slot s at x
          next,      \* next[x]: the slot x sends the next package to
          pc,        \* pc[a]: where actor a is, see TypeOK
          conn,      \* conn[a]: the Authority a is connected to
          anchor,    \* anchor[a]: whose keys a read in the file
          hello,     \* hello[a]: what a's Hello said, -1 before
          seal,      \* seal[a]: timestamp of the package a was sent, -1 before
          sent       \* sent[a]: when it was sent

machineVars == <<clock, file, timeWait>>
authVars == <<apc, binds, backlog, holder, next>>
actorVars == <<pc, conn, anchor, hello, seal, sent>>
vars == <<machineVars, authVars, actorVars>>

Ended(x) == apc[x] \in {"done", "failed"}
Listening(x) == apc[x] \in {"accepting", "distributing"}
Gone(a) == pc[a] \in {"ready", "refused", "rejected", "failed", "crashed"}

\* The types; the first claim of a slot and no other is registered.
TypeOK ==
  /\ clock \in 0 .. MaxClock
  /\ file \in Authorities \cup {"absent", "truncated"}
  /\ timeWait \in BOOLEAN
  /\ apc \in [Authorities -> {"start", "publishing", "binding", "accepting",
                              "distributing", "done", "failed"}]
  /\ binds \in 0 .. Attempts
  /\ backlog \in [Authorities -> Seq(Actors)]
  /\ holder \in [Authorities -> [Slots -> Actors \cup {"nobody", "leftover"}]]
  /\ next \in [Authorities -> 1 .. expected_connections + 1]
  /\ pc \in [Actors -> {"idle", "connected", "helloed", "ready",
                        "refused", "rejected", "failed", "crashed"}]
  /\ conn \in [Actors -> Authorities \cup {"none"}]
  /\ anchor \in [Actors -> Authorities \cup {"none"}]
  /\ hello \in [Actors -> Hellos \cup {-1}]
  /\ seal \in [Actors -> -1 .. MaxClock]
  /\ sent \in [Actors -> -1 .. MaxClock]

\* This run's Authority is about to start.  Of an earlier one there is at
\* most the file, a port in TIME_WAIT, or a process still registering actors.
Init ==
  /\ clock = 0
  /\ binds = 0
  /\ backlog = [x \in Authorities |-> <<>>]
  /\ next = [x \in Authorities |-> 1]
  /\ \/ /\ file \in {"absent", "old"} /\ timeWait \in BOOLEAN
        /\ apc = [x \in Authorities |-> IF x = "this" THEN "start" ELSE "done"]
        /\ holder = [x \in Authorities |-> [s \in Slots |-> "nobody"]]
     \/ /\ file = "old" /\ timeWait = FALSE
        /\ apc = [x \in Authorities |-> IF x = "this" THEN "start" ELSE "accepting"]
        /\ \E claimed \in OldClaimed :
             holder = [x \in Authorities |-> [s \in Slots |->
               IF x = "old" /\ s \in claimed THEN "leftover" ELSE "nobody"]]
  /\ pc = [a \in Actors |-> "idle"]
  /\ conn = [a \in Actors |-> "none"]
  /\ anchor = [a \in Actors |-> "none"]
  /\ hello = [a \in Actors |-> -1]
  /\ seal = [a \in Actors |-> -1]
  /\ sent = [a \in Actors |-> -1]

-----------------------------------------------------------------------------
(* The Authority *)

\* publish_authority_anchor, std::fs::write: the file is truncated ...
TruncateAnchor ==
  /\ apc["this"] = "start"
  /\ file' = "truncated"
  /\ apc' = [apc EXCEPT !["this"] = "publishing"]
  /\ UNCHANGED <<clock, timeWait, binds, backlog, holder, next, actorVars>>

\* ... and then written.
WriteAnchor ==
  /\ apc["this"] = "publishing"
  /\ file' = "this"
  /\ apc' = [apc EXCEPT !["this"] = "binding"]
  /\ UNCHANGED <<clock, timeWait, binds, backlog, holder, next, actorVars>>

PortInUse == timeWait \/ Listening("old")

\* Mutant: the port is bound while the anchor is being published.
BindEarly ==
  /\ apc["this"] \in {"publishing", "binding"} /\ ~PortInUse
  /\ apc' = [apc EXCEPT !["this"] = "accepting"]
  /\ UNCHANGED <<machineVars, binds, backlog, holder, next, actorVars>>

\* bind_with_retry
Bind ==
  /\ apc["this"] = "binding" /\ ~PortInUse
  /\ apc' = [apc EXCEPT !["this"] = "accepting"]
  /\ UNCHANGED <<machineVars, binds, backlog, holder, next, actorVars>>

\* Mutant: never the last attempt.
BindInUseForever ==
  /\ apc["this"] = "binding" /\ PortInUse
  /\ binds' = binds + 1
  /\ UNCHANGED <<machineVars, apc, backlog, holder, next, actorVars>>

BindInUse ==
  /\ apc["this"] = "binding" /\ PortInUse
  /\ binds' = binds + 1
  /\ apc' = [apc EXCEPT !["this"] = IF binds' = Attempts THEN "failed" ELSE @]
  /\ UNCHANGED <<machineVars, backlog, holder, next, actorVars>>

\* Authority x ends: connections it has not accepted are reset, and its port
\* may linger in TIME_WAIT.
End(x, how) ==
  /\ apc' = [apc EXCEPT ![x] = how]
  /\ backlog' = [backlog EXCEPT ![x] = <<>>]
  /\ timeWait' \in IF x = "old" THEN BOOLEAN ELSE {timeWait}

Free(x, s) == s \in Slots /\ holder[x][s] = "nobody"
Registering(x) == apc[x] = "accepting" /\ \E s \in Slots : Free(x, s)

\* The next connection's Hello: the first claim of a slot in range registers,
\* any other connection is dropped.
AcceptHello(x) ==
  /\ Registering(x) /\ backlog[x] # <<>>
  /\ LET a == Head(backlog[x]) IN
       /\ hello[a] \notin {-1, BadKey}
       /\ holder' = IF Free(x, hello[a]) THEN [holder EXCEPT ![x][hello[a]] = a]
                                         ELSE holder
  /\ backlog' = [backlog EXCEPT ![x] = Tail(@)]
  /\ UNCHANGED <<machineVars, apc, binds, next, actorVars>>

\* It closed before its Hello: `receive(&mut socket).await?` ends the Authority.
AcceptEof(x) ==
  /\ Registering(x) /\ backlog[x] # <<>>
  /\ hello[Head(backlog[x])] = -1 /\ Gone(Head(backlog[x]))
  /\ End(x, "failed")
  /\ UNCHANGED <<clock, file, binds, holder, next, actorVars>>

\* A key in it is none: `PublicKey::from_slice(&pk)?` ends the Authority.
AcceptBadKey(x) ==
  /\ Registering(x) /\ backlog[x] # <<>>
  /\ hello[Head(backlog[x])] = BadKey
  /\ End(x, "failed")
  /\ UNCHANGED <<clock, file, binds, holder, next, actorVars>>

\* Mutant: one claim too few is expected.
AllRegisteredShort(x) ==
  /\ apc[x] = "accepting"
  /\ Cardinality({s \in Slots : Free(x, s)}) <= 1
  /\ apc' = [apc EXCEPT ![x] = "distributing"]
  /\ UNCHANGED <<machineVars, binds, backlog, holder, next, actorVars>>

\* Mutant: the loop runs once more, and waits for one connection too many.
AllRegisteredPlusOne(x) ==
  /\ apc[x] = "accepting" /\ ~Registering(x) /\ backlog[x] # <<>>
  /\ apc' = [apc EXCEPT ![x] = "distributing"]
  /\ UNCHANGED <<machineVars, binds, backlog, holder, next, actorVars>>

\* connected_count has reached expected_connections.
AllRegistered(x) ==
  /\ apc[x] = "accepting" /\ ~Registering(x)
  /\ apc' = [apc EXCEPT ![x] = "distributing"]
  /\ UNCHANGED <<machineVars, binds, backlog, holder, next, actorVars>>

\* Mutant: the packages are sealed before the actors register.
SendPackageSealedEarly(x) ==
  /\ apc[x] = "distributing" /\ next[x] \in Slots
  /\ LET a == holder[x][next[x]] IN
       IF a \in Actors THEN /\ seal' = [seal EXCEPT ![a] = 0]
                            /\ sent' = [sent EXCEPT ![a] = clock]
                       ELSE UNCHANGED <<seal, sent>>
  /\ next' = [next EXCEPT ![x] = @ + 1]
  /\ UNCHANGED <<machineVars, apc, binds, backlog, holder, pc, conn, anchor, hello>>

\* prepare_*_package seals the package now, and it is sent at once.
SendPackage(x) ==
  /\ apc[x] = "distributing" /\ next[x] \in Slots
  /\ LET a == holder[x][next[x]] IN
       IF a \in Actors THEN /\ seal' = [seal EXCEPT ![a] = clock]
                            /\ sent' = [sent EXCEPT ![a] = clock]
                       ELSE UNCHANGED <<seal, sent>>
  /\ next' = [next EXCEPT ![x] = @ + 1]
  /\ UNCHANGED <<machineVars, apc, binds, backlog, holder, pc, conn, anchor, hello>>

\* Sending to an actor that is gone may fail, and ends the Authority.
SendPackageFails(x) ==
  /\ apc[x] = "distributing" /\ next[x] \in Slots
  /\ LET a == holder[x][next[x]] IN a = "leftover" \/ (a \in Actors /\ Gone(a))
  /\ End(x, "failed")
  /\ UNCHANGED <<clock, file, binds, holder, next, actorVars>>

Shutdown(x) ==
  /\ apc[x] = "distributing" /\ next[x] \notin Slots
  /\ End(x, "done")
  /\ UNCHANGED <<clock, file, binds, holder, next, actorVars>>

-----------------------------------------------------------------------------
(* An actor *)

\* TcpStream::connect: whoever listens on the port.
Connect(a) ==
  /\ pc[a] = "idle"
  /\ \E x \in Authorities :
       /\ Listening(x)
       /\ conn' = [conn EXCEPT ![a] = x]
       /\ backlog' = [backlog EXCEPT ![x] = Append(@, a)]
  /\ pc' = [pc EXCEPT ![a] = "connected"]
  /\ UNCHANGED <<machineVars, apc, binds, holder, next, anchor, hello, seal, sent>>

\* Nobody listens, and there is no second try.
Refused(a) ==
  /\ pc[a] = "idle" /\ \A x \in Authorities : ~Listening(x)
  /\ pc' = [pc EXCEPT ![a] = "refused"]
  /\ UNCHANGED <<machineVars, authVars, conn, anchor, hello, seal, sent>>

\* load_authority_anchor, which takes a whole anchor in the file, and the
\* Hello, which claims a slot.
SendHello(a) ==
  /\ pc[a] = "connected"
  /\ IF file \in Authorities
       THEN /\ anchor' = [anchor EXCEPT ![a] = file]
            /\ \E s \in Claims[a] : hello' = [hello EXCEPT ![a] = s]
            /\ pc' = [pc EXCEPT ![a] = "helloed"]
       ELSE /\ pc' = [pc EXCEPT ![a] = "failed"]
            /\ UNCHANGED <<anchor, hello>>
  /\ UNCHANGED <<machineVars, authVars, conn, seal, sent>>

\* load_from_authority: signed by the anchor's Authority, and fresh.
Genuine(a) == anchor[a] = conn[a] /\ seal[a] <= clock /\ clock - seal[a] <= MaxAge

LoadPackage(a) ==
  /\ pc[a] = "helloed" /\ seal[a] # -1
  /\ pc' = [pc EXCEPT ![a] = IF Genuine(a) THEN "ready" ELSE "rejected"]
  /\ UNCHANGED <<machineVars, authVars, conn, anchor, hello, seal, sent>>

\* The Authority ended or turned the connection away.
LinkClosed(a) ==
  \/ Ended(conn[a])
  \/ /\ \A i \in 1 .. Len(backlog[conn[a]]) : backlog[conn[a]][i] # a
     /\ \A s \in Slots : holder[conn[a]][s] # a

\* Mutant: a package that was sent is lost with the connection.
ExitOnAuthorityUnread(a) ==
  /\ pc[a] = "helloed" /\ LinkClosed(a)
  /\ pc' = [pc EXCEPT ![a] = "failed"]
  /\ UNCHANGED <<machineVars, authVars, conn, anchor, hello, seal, sent>>

\* The Hello or the receive fails, unless the package is there already: what
\* was sent before the Authority ended is still read.
ExitOnAuthority(a) ==
  /\ pc[a] = "helloed" /\ LinkClosed(a) /\ seal[a] = -1
  /\ pc' = [pc EXCEPT ![a] = "failed"]
  /\ UNCHANGED <<machineVars, authVars, conn, anchor, hello, seal, sent>>

-----------------------------------------------------------------------------
(* The environment *)

Crash(a) ==
  /\ a \in Mortal /\ ~Gone(a)
  /\ pc' = [pc EXCEPT ![a] = "crashed"]
  /\ UNCHANGED <<machineVars, authVars, conn, anchor, hello, seal, sent>>

\* Somebody ends the Authority of the earlier run.
OldKilled ==
  /\ Listening("old")
  /\ End("old", "failed")
  /\ UNCHANGED <<clock, file, binds, holder, next, actorVars>>

ReleasePort ==
  /\ timeWait /\ timeWait' = FALSE
  /\ UNCHANGED <<clock, file, authVars, actorVars>>

Tick ==
  /\ clock < MaxClock /\ clock' = clock + 1
  /\ UNCHANGED <<file, timeWait, authVars, actorVars>>

AuthorityStep(x) ==
  \/ x = "this" /\ (TruncateAnchor \/ WriteAnchor \/ Bind \/ BindInUse)
  \/ AcceptHello(x) \/ AcceptEof(x) \/ AcceptBadKey(x) \/ AllRegistered(x)
  \/ SendPackage(x) \/ SendPackageFails(x) \/ Shutdown(x)

ActorStep(a) ==
  \/ Connect(a) \/ Refused(a) \/ SendHello(a) \/ LoadPackage(a) \/ ExitOnAuthority(a)

Next ==
  \/ \E x \in Authorities : AuthorityStep(x)
  \/ \E a \in Actors : ActorStep(a) \/ Crash(a)
  \/ OldKilled \/ ReleasePort \/ Tick

Spec == Init /\ [][Next]_vars

\* Every process is started at some time and then keeps going.  Nothing is
\* assumed of the port, of the clock, nor that anybody ends the old Authority.
FairSpec ==
  /\ Spec
  /\ \A x \in Authorities : WF_vars(AuthorityStep(x))
  /\ \A a \in Actors : WF_vars(ActorStep(a))

-----------------------------------------------------------------------------
(* Properties *)

\* bin/authority.rs: "Publish the trust anchor BEFORE listening, so anyone
\* who manages to connect is guaranteed to be able to read it": an actor
\* connected to this Authority finds its anchor, whole, and no older one.
AnchorReadable ==
  \A a \in Actors : conn[a] = "this" =>
    /\ pc[a] = "connected" => file = "this"
    /\ anchor[a] \in {"none", "this"}

\* An actor is ready only under the Authority whose anchor it pinned, as the
\* one holder of its slot, and with a roster in which no slot is open: the
\* keys it was given are the keys of processes that claimed them.
VouchedRoster ==
  \A a \in Actors : pc[a] = "ready" =>
    /\ anchor[a] = conn[a]
    /\ holder[conn[a]][hello[a]] = a
    /\ \A s \in Slots : holder[conn[a]][s] # "nobody"

\* Action property: a package is turned down only by an actor that left it
\* unread for longer than it is valid, or that pinned another Authority's
\* anchor.  However long the registration took for the slowest actor, it
\* costs the validity of nobody's package.
OnlyLateReadersReject ==
  [][\A a \in Actors : (pc[a] = "helloed" /\ pc'[a] = "rejected") =>
        clock - sent[a] > MaxAge \/ anchor[a] # conn[a]]_vars

\* Authority x waits in `accept` for a slot that nobody is left to claim.
Starved(x) ==
  /\ apc[x] = "accepting" /\ backlog[x] = <<>>
  /\ \E s \in Slots :
       /\ Free(x, s)
       /\ \A a \in Actors : s \in Claims[a] =>
            Gone(a) \/ conn[a] \notin {"none", x} \/ hello[a] \notin {-1, s}

\* Every process ends its bootstrap, one way or the other; the exception is an
\* Authority whose accept loop waits for a slot nobody is left to claim: it
\* has no timeout, and whoever is registered waits with it.
BootstrapEnds ==
  <>[](\/ (\A a \in Actors : Gone(a)) /\ (\A x \in Authorities : Ended(x))
       \/ \E x \in Authorities : Starved(x))

\* Every slot gets its package and accepts it.  The exceptions: a process
\* that died, that was started before this Authority listened (and so was
\* refused or met the old one), that claimed the wrong slot, that sent a key
\* that is none, or that left its package unread for too long.
BootstrapSucceeds ==
  <>[](\/ \A s \in Slots : \E a \in Actors : pc[a] = "ready" /\ hello[a] = s
       \/ \E a \in Actors : pc[a] \in {"refused", "rejected", "crashed"} \/ conn[a] = "old"
                             \/ hello[a] = BadKey
       \/ Starved("this"))
=============================================================================

--------------------------- MODULE ScenarioProofs ---------------------------
(***************************************************************************)
(* What a run of the benchmark driver guarantees for any numbers of        *)
(* signers and tracers, any amount of output that fits the pipes, whoever  *)
(* dies, is refused its port or rejects a package.                         *)
(***************************************************************************)
EXTENDS Scenario, SequenceTheorems, WellFoundedInduction, TLAPS

-----------------------------------------------------------------------------
(* The orders of the driver and of the Authority *)

LEMMA ProcessFacts ==
  /\ authority \in Processes /\ authority \notin Actors
  /\ combiner \in Actors /\ combiner \notin Participants
  /\ Actors \subseteq Processes /\ Participants \subseteq Actors
  /\ Signers \subseteq Participants /\ Tracers \subseteq Participants
  /\ \A p \in Processes : p = authority \/ p \in Actors
  /\ \A a \in Actors : a.role \in Roles \ {"Authority"}
<1>1. authority.role = "Authority" /\ combiner.role = "Combiner"
  BY DEF authority, combiner, Process
<1>2. /\ \A p \in Signers : p.role = "Signer"
      /\ \A p \in Tracers : p.role = "Tracer"
  BY DEF Signers, Tracers, signer_handles, tracer_handles, Process
<1> QED BY <1>1, <1>2 DEF Processes, Actors, Participants, Roles

LEMMA Handles ==
  /\ signer_handles \in Seq(Actors) /\ Len(signer_handles) = N
  /\ tracer_handles \in Seq(Actors) /\ Len(tracer_handles) = N3
  /\ <<combiner>> \in Seq(Actors) /\ Len(<<combiner>>) = 1
  /\ \A p \in Signers : \E i \in 1 .. N : signer_handles[i] = p
  /\ \A p \in Tracers : \E i \in 1 .. N3 : tracer_handles[i] = p
<1>1. signer_handles \in [1 .. N -> Actors]
  BY ProcessFacts DEF signer_handles, Signers, Participants, Actors
<1>2. tracer_handles \in [1 .. N3 -> Actors]
  BY ProcessFacts DEF tracer_handles, Tracers, Participants, Actors
<1>3. signer_handles \in Seq(Actors) /\ tracer_handles \in Seq(Actors)
  BY <1>1, <1>2, SeqDef, ScenarioAssumption
<1>4. Len(signer_handles) = N /\ Len(tracer_handles) = N3
  BY <1>1, <1>2, <1>3, LenProperties, ScenarioAssumption
<1>5. <<combiner>> \in Seq(Actors) /\ Len(<<combiner>>) = 1
  BY ProcessFacts
<1> QED BY <1>3, <1>4, <1>5 DEF Signers, Tracers

LEMMA PackageOrderFacts ==
  /\ Len(PackageOrder) \in Nat
  /\ \A i \in 1 .. Len(PackageOrder) : PackageOrder[i] \in Actors
<1>1. signer_handles \o <<combiner>> \in Seq(Actors)
  BY Handles, ConcatProperties
<1>2. PackageOrder \in Seq(Actors)
  BY <1>1, Handles, ConcatProperties DEF PackageOrder
<1> QED BY <1>2, ElementOfSeq, LenProperties

\* The Authority is spawned first, and once.
LEMMA SpawnOrderFacts ==
  /\ Len(SpawnOrder) = N + N3 + 2
  /\ \A i \in 1 .. Len(SpawnOrder) : SpawnOrder[i] \in Processes
  /\ \A i \in 2 .. Len(SpawnOrder) : SpawnOrder[i] # authority
  /\ SpawnOrder[1] = authority /\ SpawnOrder[2] = combiner
  /\ \A i \in 1 .. N3 : SpawnOrder[i + 2] = tracer_handles[i]
  /\ \A i \in 1 .. N : SpawnOrder[i + 2 + N3] = signer_handles[i]
<1> DEFINE s1 == <<authority, combiner>> \o tracer_handles
<1>1. <<authority, combiner>> \in Seq(Processes) /\ Len(<<authority, combiner>>) = 2
      /\ <<authority, combiner>>[1] = authority /\ <<authority, combiner>>[2] = combiner
  BY ProcessFacts
<1>2. signer_handles \in Seq(Processes) /\ tracer_handles \in Seq(Processes)
  BY Handles, ProcessFacts, SeqMonotonic
<1>3. /\ s1 \in Seq(Processes) /\ Len(s1) = 2 + N3
      /\ \A i \in 1 .. 2 + N3 : s1[i] = IF i <= 2 THEN <<authority, combiner>>[i]
                                                  ELSE tracer_handles[i - 2]
  BY <1>1, <1>2, Handles, ConcatProperties
<1> HIDE DEF s1
<1>4. /\ SpawnOrder \in Seq(Processes) /\ Len(SpawnOrder) = 2 + N3 + N
      /\ \A i \in 1 .. 2 + N3 + N : SpawnOrder[i] = IF i <= 2 + N3 THEN s1[i]
                                                    ELSE signer_handles[i - (2 + N3)]
  <2>1. SpawnOrder = s1 \o signer_handles
    BY DEF SpawnOrder, s1
  <2>2. /\ SpawnOrder \in Seq(Processes)
        /\ Len(SpawnOrder) = Len(s1) + Len(signer_handles)
        /\ \A i \in 1 .. Len(s1) + Len(signer_handles) :
             SpawnOrder[i] = IF i <= Len(s1) THEN s1[i] ELSE signer_handles[i - Len(s1)]
    BY <1>2, <1>3, <2>1, ConcatProperties
  <2> QED BY <1>3, <2>2, Handles
<1>5. \A i \in 1 .. Len(SpawnOrder) : SpawnOrder[i] \in Processes
  BY <1>4, ElementOfSeq
<1>6. ASSUME NEW i \in 2 .. Len(SpawnOrder)
      PROVE  SpawnOrder[i] # authority
  <2>1. CASE i = 2
    <3>1. 2 \in 1 .. 2 + N3 /\ 2 \in 1 .. 2 + N3 + N
      BY ScenarioAssumption
    <3>2. s1[2] = combiner
      BY <1>1, <1>3, <3>1
    <3>3. SpawnOrder[2] = s1[2]
      BY <1>4, <3>1
    <3> QED BY <2>1, <3>2, <3>3, ProcessFacts
  <2>2. CASE i \in 3 .. 2 + N3
    <3>1. SpawnOrder[i] = tracer_handles[i - 2] /\ i - 2 \in 1 .. N3
      BY <1>3, <1>4, <2>2, ScenarioAssumption
    <3> QED BY <3>1, Handles, ElementOfSeq, ProcessFacts
  <2>3. CASE i \in 3 + N3 .. 2 + N3 + N
    <3>1. SpawnOrder[i] = signer_handles[i - (2 + N3)] /\ i - (2 + N3) \in 1 .. N
      BY <1>4, <2>3, ScenarioAssumption
    <3> QED BY <3>1, Handles, ElementOfSeq, ProcessFacts
  <2> QED BY <1>4, <2>1, <2>2, <2>3, ScenarioAssumption
<1>7. SpawnOrder[1] = authority /\ SpawnOrder[2] = combiner
  BY <1>1, <1>3, <1>4, ScenarioAssumption
<1>8. \A i \in 1 .. N3 : SpawnOrder[i + 2] = tracer_handles[i]
  <2> TAKE i \in 1 .. N3
  <2>1. i + 2 \in 1 .. 2 + N3 /\ i + 2 \in 1 .. 2 + N3 + N /\ ~(i + 2 <= 2) /\ (i + 2) - 2 = i
    BY ScenarioAssumption
  <2>2. s1[i + 2] = tracer_handles[i]
    BY <1>3, <2>1
  <2>3. i + 2 <= 2 + N3
    BY <2>1
  <2> QED BY <1>4, <2>1, <2>2, <2>3
<1>9. \A i \in 1 .. N : SpawnOrder[i + 2 + N3] = signer_handles[i]
  <2> TAKE i \in 1 .. N
  <2>1. /\ i + 2 + N3 \in 1 .. 2 + N3 + N /\ ~(i + 2 + N3 <= 2 + N3)
        /\ (i + 2 + N3) - (2 + N3) = i
    BY ScenarioAssumption
  <2> QED BY <1>4, <2>1
<1> QED BY <1>4, <1>5, <1>6, <1>7, <1>8, <1>9, ScenarioAssumption

\* Every process is waited for.
LEMMA WaitOrderFacts ==
  /\ Len(WaitOrder) = N + N3 + 2
  /\ \A i \in 1 .. Len(WaitOrder) : WaitOrder[i] \in Processes
  /\ \A p \in Processes : \E i \in 1 .. Len(WaitOrder) : WaitOrder[i] = p
  /\ WaitOrder[1] = combiner
<1> DEFINE s1 == <<combiner>> \o signer_handles
           s2 == s1 \o tracer_handles
<1>1. /\ s1 \in Seq(Actors) /\ Len(s1) = 1 + N
      /\ \A i \in 1 .. 1 + N : s1[i] = IF i <= 1 THEN <<combiner>>[i] ELSE signer_handles[i - 1]
  BY Handles, ConcatProperties
<1> HIDE DEF s1
<1>2. /\ s2 \in Seq(Actors) /\ Len(s2) = 1 + N + N3
      /\ \A i \in 1 .. 1 + N + N3 : s2[i] = IF i <= 1 + N THEN s1[i]
                                                          ELSE tracer_handles[i - (1 + N)]
  <2>1. s1 \in Seq(Actors) /\ tracer_handles \in Seq(Actors)
    BY <1>1, Handles
  <2>2. Len(s1) = 1 + N /\ Len(tracer_handles) = N3
    BY <1>1, Handles
  <2>3. /\ s2 \in Seq(Actors) /\ Len(s2) = Len(s1) + Len(tracer_handles)
        /\ \A i \in 1 .. Len(s1) + Len(tracer_handles) :
             s2[i] = IF i <= Len(s1) THEN s1[i] ELSE tracer_handles[i - Len(s1)]
    BY <2>1, ConcatProperties
  <2> HIDE DEF s2
  <2> QED BY <2>2, <2>3
<1> HIDE DEF s2
<1>3. <<authority>> \in Seq(Processes) /\ Len(<<authority>>) = 1 /\ <<authority>>[1] = authority
  BY ProcessFacts
<1>4. s2 \in Seq(Processes)
  BY <1>2, ProcessFacts, SeqMonotonic
<1>5. WaitOrder = s2 \o <<authority>>
  BY DEF WaitOrder, s1, s2
<1>6. /\ WaitOrder \in Seq(Processes) /\ Len(WaitOrder) = 1 + N + N3 + 1
      /\ \A i \in 1 .. 1 + N + N3 + 1 : WaitOrder[i] = IF i <= 1 + N + N3 THEN s2[i]
                                                       ELSE <<authority>>[i - (1 + N + N3)]
  BY <1>2, <1>3, <1>4, <1>5, ConcatProperties
<1>7. \A i \in 1 .. Len(WaitOrder) : WaitOrder[i] \in Processes
  BY <1>6, ElementOfSeq
<1>8. ASSUME NEW p \in Processes
      PROVE  \E i \in 1 .. Len(WaitOrder) : WaitOrder[i] = p
  <2>1. CASE p = authority
    <3>1. WaitOrder[1 + N + N3 + 1] = authority
      BY <1>3, <1>6, ScenarioAssumption
    <3> QED BY <1>6, <2>1, <3>1, ScenarioAssumption
  <2>2. CASE p = combiner
    <3>1. 1 \in 1 .. 1 + N /\ 1 \in 1 .. 1 + N + N3 /\ 1 \in 1 .. 1 + N + N3 + 1
      BY ScenarioAssumption
    <3>2. s1[1] = combiner
      BY <1>1, <3>1
    <3>3. s2[1] = s1[1]
      BY <1>2, <3>1, ScenarioAssumption
    <3>4. WaitOrder[1] = s2[1]
      BY <1>6, <3>1, ScenarioAssumption
    <3> QED BY <1>6, <2>2, <3>1, <3>2, <3>3, <3>4
  <2>3. CASE p \in Signers
    <3>1. PICK i \in 1 .. N : signer_handles[i] = p
      BY <2>3, Handles
    <3>2. i + 1 \in 1 .. Len(WaitOrder) /\ WaitOrder[i + 1] = p
      BY <1>1, <1>2, <1>6, <3>1, ScenarioAssumption
    <3> QED BY <3>2
  <2>4. CASE p \in Tracers
    <3>1. PICK i \in 1 .. N3 : tracer_handles[i] = p
      BY <2>4, Handles
    <3>2. i + (1 + N) \in 1 .. Len(WaitOrder) /\ WaitOrder[i + (1 + N)] = p
      BY <1>2, <1>6, <3>1, ScenarioAssumption
    <3> QED BY <3>2
  <2> QED BY <2>1, <2>2, <2>3, <2>4 DEF Processes, Actors, Participants
<1>9. WaitOrder[1] = combiner
  <2>1. 1 \in 1 .. 1 + N /\ 1 \in 1 .. 1 + N + N3 /\ 1 \in 1 .. 1 + N + N3 + 1
    BY ScenarioAssumption
  <2>2. s1[1] = combiner
    BY <1>1, <2>1
  <2>3. s2[1] = s1[1]
    BY <1>2, <2>1, ScenarioAssumption
  <2> QED BY <1>6, <2>1, <2>2, <2>3, ScenarioAssumption
<1> QED BY <1>6, <1>7, <1>8, <1>9, ScenarioAssumption

\* Every process is spawned, once.
LEMMA SpawnedOnce ==
  /\ \A i, j \in 1 .. Len(SpawnOrder) : SpawnOrder[i] = SpawnOrder[j] => i = j
  /\ \A p \in Processes : \E i \in 1 .. Len(SpawnOrder) : SpawnOrder[i] = p
<1> DEFINE spot(p) == IF p.role = "Authority" THEN 1
                      ELSE IF p.role = "Combiner" THEN 2
                      ELSE IF p.role = "Tracer" THEN p.id + 3
                      ELSE p.id + 3 + N3
<1>1. Len(SpawnOrder) = N + N3 + 2 /\ N \in Nat /\ N3 \in Nat
  BY SpawnOrderFacts, ScenarioAssumption
<1>2. \A i \in 1 .. Len(SpawnOrder) : spot(SpawnOrder[i]) = i
  <2> TAKE i \in 1 .. Len(SpawnOrder)
  <2>1. CASE i = 1
    BY <2>1, SpawnOrderFacts DEF authority, Process
  <2>2. CASE i = 2
    BY <2>2, SpawnOrderFacts DEF combiner, Process
  <2>3. CASE i \in 3 .. 2 + N3
    <3>1. i - 2 \in 1 .. N3 /\ (i - 2) + 2 = i /\ ((i - 2) - 1) + 3 = i
      BY <1>1, <2>3
    <3>2. SpawnOrder[i] = tracer_handles[i - 2]
      BY <3>1, SpawnOrderFacts
    <3>3. SpawnOrder[i] = Process("Tracer", (i - 2) - 1)
      BY <3>1, <3>2 DEF tracer_handles
    <3> QED BY <3>1, <3>3 DEF Process
  <2>4. CASE i \in 3 + N3 .. 2 + N3 + N
    <3>1. i - (2 + N3) \in 1 .. N /\ (i - (2 + N3)) + 2 + N3 = i
          /\ ((i - (2 + N3)) - 1) + 3 + N3 = i
      BY <1>1, <2>4
    <3>2. SpawnOrder[i] = signer_handles[i - (2 + N3)]
      BY <3>1, SpawnOrderFacts
    <3>3. SpawnOrder[i] = Process("Signer", (i - (2 + N3)) - 1)
      BY <3>1, <3>2 DEF signer_handles
    <3> QED BY <3>1, <3>3 DEF Process
  <2> QED BY <1>1, <2>1, <2>2, <2>3, <2>4
<1>3. \A i, j \in 1 .. Len(SpawnOrder) : SpawnOrder[i] = SpawnOrder[j] => i = j
  <2> HIDE DEF spot
  <2> QED BY <1>2
<1>4. ASSUME NEW p \in Processes PROVE \E i \in 1 .. Len(SpawnOrder) : SpawnOrder[i] = p
  <2>1. CASE p = authority
    BY <1>1, <2>1, SpawnOrderFacts
  <2>2. CASE p = combiner
    BY <1>1, <2>2, SpawnOrderFacts
  <2>3. CASE p \in Tracers
    <3>1. PICK i \in 1 .. N3 : tracer_handles[i] = p
      BY <2>3, Handles
    <3>2. i + 2 \in 1 .. Len(SpawnOrder) /\ SpawnOrder[i + 2] = p
      BY <1>1, <3>1, SpawnOrderFacts
    <3> QED BY <3>2
  <2>4. CASE p \in Signers
    <3>1. PICK i \in 1 .. N : signer_handles[i] = p
      BY <2>4, Handles
    <3>2. i + 2 + N3 \in 1 .. Len(SpawnOrder) /\ SpawnOrder[i + 2 + N3] = p
      BY <1>1, <3>1, SpawnOrderFacts
    <3> QED BY <3>2
  <2> QED BY <2>1, <2>2, <2>3, <2>4 DEF Processes, Actors, Participants
<1> QED BY <1>3, <1>4

\* The first of the links, in their order, whose end is not among those in S.
LEMMA FirstMissing ==
  ASSUME NEW links, Len(links) \in Nat, NEW S, \E i \in 1 .. Len(links) : links[i] \notin S
  PROVE  \E i \in 1 .. Len(links) : /\ links[i] \notin S
                                    /\ \A j \in 1 .. i - 1 : links[j] \in S
<1> DEFINE T == {i \in 1 .. Len(links) : links[i] \notin S}
<1>1. T \in SUBSET Nat /\ T # {}
  OBVIOUS
<1>2. \E i \in T : \A j \in T : <<j, i>> \notin OpToRel(<, Nat)
  <2> HIDE DEF T
  <2> QED BY <1>1, NatLessThanWellFounded, WFMin
<1>3. PICK i \in T : \A j \in T : ~(j < i)
  BY <1>1, <1>2 DEF OpToRel
<1>4. \A j \in 1 .. i - 1 : links[j] \in S
  BY <1>3
<1> QED BY <1>3, <1>4

-----------------------------------------------------------------------------
(* The inductive invariant *)

States == EndStates \cup {"unborn", "starting", "retrying", "listening", "registered", "keyed",
                          "joined", "dialing", "meshed", "running", "handed"}

\* The types, with the domains TypeOK leaves to Init.
Shape ==
  /\ spawned \in 0 .. Len(SpawnOrder) /\ waited \in 0 .. Len(WaitOrder)
  /\ ok \in BOOLEAN /\ binds \in [Servers -> 0 .. Attempts]
  /\ st \in [Processes -> States]
  /\ printed \in [Actors -> Nat] /\ pipe \in [Actors -> Nat] /\ refusals \in [Signers -> Nat]
  /\ enrolled \subseteq Actors /\ sent \in 0 .. Len(PackageOrder)
  /\ joined \subseteq Participants /\ issued \in 0 .. 2
  /\ handed \subseteq joined /\ opened \subseteq handed \cap Tracers

\* A process has been spawned when its turn came.
Born == \A i \in 1 .. Len(SpawnOrder) : st[SpawnOrder[i]] = "unborn" <=> i > spawned

\* Who is not at an end has a bind attempt left.
Tries == \A p \in Servers : binds[p] < Attempts \/ Ended(p)

\* Nobody prints more than there is to print, nor than the pipe holds.  In a
\* participant's pipe there is no more than what it printed of the protocol and
\* the dials the living Combiner refused, unless the Combiner is gone.
Pipes ==
  /\ \A a \in Actors : printed[a] <= Lines[a.role] /\ pipe[a] <= PipeLines
  /\ \A p \in Signers : refusals[p] <= Attempts
  /\ \A p \in Signers : \/ pipe[p] <= printed[p] + refusals[p]
                        \/ Ended(combiner) /\ st[p] \in {"keyed"} \cup EndStates
  /\ \A t \in Tracers : pipe[t] <= printed[t]

\* The places each kind of process has.
Early == {"unborn", "starting", "registered", "keyed"}
Taking == {"joined", "dialing", "meshed", "handed"}

Kinds ==
  /\ st[authority] \in {"unborn", "starting", "retrying", "listening"} \cup EndStates
  /\ st[combiner] \in Early \cup {"listening", "running"} \cup EndStates
  /\ \A p \in Participants : st[p] \in Early \cup Taking \cup EndStates
  /\ \A p \in Signers : st[p] \notin {"dialing", "meshed"}
  /\ \A p \in Participants : st[p] = "dialing" => Binds(p)

\* The registers hold who has got that far, and nobody else.
Enrolled == \A a \in Actors : st[a] \in {"unborn", "starting"} \cup EndStates \/ a \in enrolled

Listed ==
  \A p \in Participants :
    /\ st[p] \in Taking => p \in joined
    /\ p \in joined => st[p] \in Taking \cup EndStates
    /\ st[p] = "handed" => p \in handed
    /\ p \in handed => st[p] \in {"handed"} \cup EndStates

Ordered ==
  /\ st[combiner] = "running" => joined = Participants
  /\ issued > 0 => Tracers \subseteq handed /\ st[combiner] \in {"running"} \cup EndStates
  /\ issued = 2 => handed = Participants
  /\ st[combiner] = "ok" => issued = 2
  /\ \A t \in Tracers : st[t] = "ok" => opened = Tracers

\* The mesh comes up for all tracers at once.
OneMesh ==
  \A t, u \in Tracers :
    st[t] \in {"meshed", "handed"} => st[u] \in {"meshed", "handed"} \cup EndStates

\* The last line is printed at the end, and who succeeded has printed it.
LastLine ==
  \A a \in Actors : /\ printed[a] < Lines[a.role] \/ Done(a) \/ Ended(a)
                    /\ st[a] = "ok" => printed[a] = Lines[a.role]

\* Whoever has been waited for has ended and, as far as no failure was seen,
\* succeeded, with all it printed read.
Collected ==
  /\ waited > 0 => spawned = Len(SpawnOrder)
  /\ \A i \in 1 .. waited :
       /\ Ended(WaitOrder[i])
       /\ WaitOrder[i] \in Actors => pipe[WaitOrder[i]] = 0
       /\ (ok /\ WaitOrder[i] \in Actors) => st[WaitOrder[i]] = "ok"

Places == Born /\ Kinds /\ Enrolled /\ Listed /\ Ordered /\ OneMesh
IInv == Shape /\ Places /\ Tries /\ Pipes /\ LastLine /\ Collected

LEMMA LinesFacts ==
  /\ \A a \in Actors : Lines[a.role] \in Nat \ {0}
  /\ PipeLines \in Nat \ {0} /\ Attempts \in Nat \ {0}
BY ProcessFacts, ScenarioAssumption

LEMMA ServerFacts ==
  /\ authority \in Servers /\ combiner \in Servers /\ Servers \subseteq Processes
  /\ \A p \in Servers : p = authority \/ p = combiner \/ (p \in Tracers /\ Binds(p))
  /\ \A p : Binds(p) => p \in Tracers /\ p \in Servers
  /\ \A p \in Tracers : p \notin Signers
<1>1. \A p \in Tracers : p \notin Signers
  BY DEF Tracers, Signers, tracer_handles, signer_handles, Process
<1> QED BY <1>1, ProcessFacts DEF Servers, Binds

LEMMA InitIInv == Init => IInv
<1> SUFFICES ASSUME Init
             PROVE  IInv
  OBVIOUS
<1>1. Len(SpawnOrder) \in Nat /\ Len(WaitOrder) \in Nat /\ Len(PackageOrder) \in Nat
  BY SpawnOrderFacts, WaitOrderFacts, PackageOrderFacts, ScenarioAssumption
<1>2. \A p \in Processes : st[p] = "unborn"
  BY DEF Init
<1>3. Shape
  BY <1>1, LinesFacts, ScenarioAssumption DEF Init, Shape, States
<1>4. Born
  BY <1>2, SpawnOrderFacts DEF Init, Born
<1>5. Kinds
  BY <1>2, ProcessFacts DEF Kinds, Early
<1>6. Enrolled /\ OneMesh
  BY <1>2, ProcessFacts DEF Enrolled, OneMesh
<1>7. Listed /\ Ordered
  BY <1>2, ProcessFacts DEF Init, Listed, Ordered, Taking
<1>8. Tries /\ Pipes
  BY <1>2, LinesFacts, ProcessFacts, ServerFacts DEF Init, Tries, Pipes
<1>9. LastLine
  BY <1>2, LinesFacts, ProcessFacts DEF Init, LastLine
<1>10. Collected
  BY DEF Init, Collected
<1> QED BY <1>3, <1>4, <1>5, <1>6, <1>7, <1>8, <1>9, <1>10 DEF IInv, Places

-----------------------------------------------------------------------------
(* Steps of the processes *)

\* What the driver has collected is not disturbed by those that go on.
LEMMA CollectedKeeps ==
  ASSUME IInv, UNCHANGED driverVars,
         \A p \in Processes : Ended(p) => st'[p] = st[p],
         \A a \in Actors : Ended(a) => pipe'[a] = pipe[a]
  PROVE  Collected'
<1>1. \A i \in 1 .. waited : WaitOrder[i] \in Processes
  BY WaitOrderFacts DEF IInv, Shape
<1> QED BY <1>1, ProcessFacts DEF driverVars, IInv, Collected, Ended

\* A process that is there ends.
LEMMA EndKeeps ==
  ASSUME IInv, NEW p \in Processes, NEW s \in EndStates, Become(p, s),
         st[p] # "unborn", ~Ended(p),
         UNCHANGED <<driverVars, pipeVars, enrolled, sent, combVars>>,
         binds' \in [Servers -> 0 .. Attempts],
         \A q \in Servers : q # p => binds'[q] = binds[q],
         p \in Actors /\ s = "ok" => printed[p] = Lines[p.role],
         p = combiner /\ s = "ok" => issued = 2,
         p \in Tracers /\ s = "ok" => opened = Tracers
  PROVE  IInv'
<1> USE DEF driverVars, pipeVars, combVars
<1>1. s # "unborn" /\ s \in States
  BY DEF EndStates, States
<1>2. \A q \in Processes : st'[q] = IF q = p THEN s ELSE st[q]
  BY DEF Become, IInv, Shape
<1>3. Shape'
  BY <1>1 DEF Become, IInv, Shape
<1>4. Born'
  BY <1>1, <1>2, SpawnOrderFacts DEF IInv, Places, Born
<1>5. Kinds'
  BY <1>2, ProcessFacts DEF IInv, Places, Kinds, EndStates
<1>6. Enrolled' /\ OneMesh'
  BY <1>2, ProcessFacts DEF IInv, Places, Enrolled, OneMesh, EndStates
<1>7. Listed'
  BY <1>2, ProcessFacts DEF IInv, Places, Listed, Taking, EndStates
<1>8. Ordered'
  BY <1>2, ProcessFacts, ServerFacts DEF IInv, Places, Ordered, EndStates
<1>9. Tries'
  BY <1>2, ServerFacts DEF IInv, Tries, Ended
<1>10. Pipes'
  BY <1>2, ProcessFacts DEF IInv, Pipes, Ended
<1>11. LastLine'
  BY <1>2, ProcessFacts DEF IInv, LastLine, Ended, Done
<1>12. Collected'
  BY <1>2, CollectedKeeps, ProcessFacts DEF Ended
<1> QED BY <1>3, <1>4, <1>5, <1>6, <1>7, <1>8, <1>9, <1>10, <1>11, <1>12 DEF IInv, Places

\* A process that is there goes to another place that is not its end.
LEMMA GoOnKeeps ==
  ASSUME IInv, NEW p \in Processes, NEW s \in States \ (EndStates \cup {"unborn"}), Become(p, s),
         st[p] # "unborn", ~Ended(p),
         UNCHANGED <<driverVars, pipeVars, sent, issued, opened>>,
         binds' \in [Servers -> 0 .. Attempts],
         \A q \in Servers : binds'[q] = binds[q] \/ binds'[q] < Attempts,
         enrolled \subseteq enrolled', enrolled' \subseteq Actors,
         p \in Actors => p \in enrolled',
         joined' \in {joined, joined \cup {p}}, handed' \in {handed, handed \cup {p}},
         p = authority => s \in {"retrying", "listening"},
         p = combiner => s \in {"registered", "keyed", "listening", "running"}
                         /\ st[p] # "running",
         s = "running" => joined = Participants,
         p \notin Participants => joined' = joined /\ handed' = handed,
         p \in Participants =>
           /\ s \in {"registered", "keyed", "joined", "dialing", "handed"} /\ st[p] # "handed"
           /\ s = "registered" => st[p] = "starting"
           /\ s = "keyed" => st[p] = "registered"
           /\ s = "joined" => ~Ended(combiner) /\ st[p] \in Early
           /\ s = "dialing" => Binds(p) /\ st[p] = "joined"
           /\ s = "handed" => st[p] = IF p \in Tracers THEN "meshed" ELSE "joined"
           /\ s \in Taking <=> p \in joined'
           /\ s = "handed" <=> p \in handed'
  PROVE  IInv'
<1> USE DEF driverVars, pipeVars
<1>1. s # "unborn" /\ s \in States /\ s \notin EndStates /\ s # "ok"
  BY DEF EndStates, States, Early, Taking
<1>2. \A q \in Processes : st'[q] = IF q = p THEN s ELSE st[q]
  BY DEF Become, IInv, Shape
<1>3. /\ joined \subseteq joined' /\ handed \subseteq handed' /\ joined' \subseteq Participants
      /\ handed' \subseteq joined'
  BY DEF IInv, Shape, Taking
<1>4. Shape'
  BY <1>1, <1>3 DEF Become, IInv, Shape
<1>5. Born'
  BY <1>1, <1>2, SpawnOrderFacts DEF IInv, Places, Born
<1>6. Kinds'
  BY <1>2, ProcessFacts, ServerFacts DEF IInv, Places, Kinds, Early, Taking
<1>7. Enrolled'
  BY <1>2, ProcessFacts DEF IInv, Places, Enrolled
<1>8. OneMesh'
  <2>1. p \in Tracers /\ s # "handed" => st[p] \in Early \cup {"joined"}
    BY ProcessFacts DEF Early
  <2>2. p \in Tracers /\ s # "handed" => \A t \in Tracers : st[t] \notin {"meshed", "handed"}
    BY <2>1, ProcessFacts DEF IInv, Places, OneMesh, Early, EndStates
  <2> QED BY <1>2, <2>2, ProcessFacts DEF IInv, Places, OneMesh
<1>9. Listed'
  BY <1>2, ProcessFacts DEF IInv, Places, Listed
<1>10. Ordered'
  <2>1. st'[combiner] = IF combiner = p THEN s ELSE st[combiner]
    BY <1>2, ProcessFacts
  <2>2. p = combiner => issued = 0
    BY DEF IInv, Places, Ordered, Shape, Ended
  <2>3. joined = Participants => joined' = Participants
    BY <1>3
  <2>4. handed = Participants => handed' = Participants
    BY <1>3
  <2>5. \A t \in Tracers : st'[t] = "ok" => st[t] = "ok"
    BY <1>1, <1>2, ProcessFacts
  <2> QED BY <1>1, <1>3, <2>1, <2>2, <2>3, <2>4, <2>5 DEF IInv, Places, Ordered
<1>11. Tries'
  BY <1>2, ServerFacts DEF IInv, Tries, Ended
<1>12. Pipes'
  <2>1. Ended(combiner) => st'[combiner] \in EndStates
    BY <1>2, ProcessFacts DEF Ended
  <2>2. ASSUME NEW q \in Signers
        PROVE  \/ pipe[q] <= printed[q] + refusals[q]
               \/ Ended(combiner) /\ st'[q] \in {"keyed"} \cup EndStates
    <3>1. q \in Processes /\ q \in Participants /\ q \notin Tracers
      BY ProcessFacts, ServerFacts
    <3>2. CASE q # p
      BY <1>2, <2>2, <3>1, <3>2 DEF IInv, Pipes
    <3>3. CASE q = p /\ st[p] # "keyed"
      BY <2>2, <3>3 DEF IInv, Pipes, Ended
    <3>4. CASE q = p /\ st[p] = "keyed" /\ s = "joined"
      BY <2>2, <3>1, <3>4 DEF IInv, Pipes
    <3>5. CASE q = p /\ st[p] = "keyed" /\ s # "joined"
      BY <1>2, <2>2, <3>1, <3>5, ServerFacts DEF IInv, Pipes
    <3> QED BY <3>2, <3>3, <3>4, <3>5
  <2> QED BY <2>1, <2>2 DEF IInv, Pipes, Ended
<1>13. LastLine'
  <2>1. ASSUME NEW a \in Actors, a # p
        PROVE  (Done(a) \/ Ended(a)) => (Done(a) \/ Ended(a))'
    BY <1>2, <2>1, ProcessFacts DEF Done, Ended
  <2>2. p \in Actors => p = combiner \/ p \in Participants
    BY DEF Actors
  <2>3. p \in Actors => ~Done(p)
    BY <2>2, ProcessFacts DEF Done
  <2> QED BY <1>1, <1>2, <2>1, <2>3, ProcessFacts DEF IInv, LastLine
<1>14. Collected'
  BY <1>2, CollectedKeeps, ProcessFacts DEF Ended
<1> QED BY <1>4, <1>5, <1>6, <1>7, <1>8, <1>9, <1>10, <1>11, <1>12, <1>13, <1>14 DEF IInv, Places

LEMMA BindKeeps ==
  ASSUME IInv, NEW p \in Servers, Bind(p)
  PROVE  IInv'
<1> DEFINE s == IF p \in Tracers THEN "dialing" ELSE "listening"
<1>1. p \in Processes /\ s \in States \ (EndStates \cup {"unborn"}) /\ Become(p, s)
  BY ServerFacts DEF Bind, States, EndStates
<1>2. /\ UNCHANGED <<driverVars, pipeVars, sent, issued, opened>>
      /\ UNCHANGED <<binds, enrolled, joined, handed>>
  BY DEF Bind, authVars, combVars
<1>4. st[p] # "unborn" /\ ~Ended(p)
  BY DEF Bind, AtListener, Ended, EndStates
<1>5. p \in Actors => p \in enrolled
  BY ProcessFacts DEF IInv, Places, Enrolled, Bind, AtListener, EndStates
<1>6. p \in Participants =>
        /\ Binds(p) /\ st[p] = "joined" /\ s = "dialing" /\ p \in joined /\ p \notin handed
  BY ServerFacts, ProcessFacts DEF IInv, Places, Listed, Bind, AtListener, EndStates, Taking
<1>7. p = combiner => st[p] = "keyed" /\ s = "listening"
  BY ProcessFacts DEF Bind, AtListener
<1>8. p = authority => s = "listening"
  BY ProcessFacts
<1>9. s # "running"
  OBVIOUS
<1>10. binds' \in [Servers -> 0 .. Attempts] /\ enrolled' \subseteq Actors
  BY <1>2 DEF IInv, Shape
<1> HIDE DEF s
<1> QED
  BY <1>1, <1>2, <1>4, <1>5, <1>6, <1>7, <1>8, <1>9, <1>10, GoOnKeeps, ProcessFacts DEF Taking

LEMMA BindInUseKeeps ==
  ASSUME IInv, NEW p \in Servers, BindInUse(p)
  PROVE  IInv'
<1>1. p \in Processes
  BY ServerFacts
<1>2. UNCHANGED <<driverVars, pipeVars, authVars, combVars>>
  BY DEF BindInUse
<1>3. /\ binds[p] \in Nat /\ Attempts \in Nat
      /\ binds' = [binds EXCEPT ![p] = binds[p] + 1] /\ binds \in [Servers -> 0 .. Attempts]
      /\ \A q \in Servers : binds'[q] = IF q = p THEN binds[p] + 1 ELSE binds[q]
  <2>1. binds \in [Servers -> 0 .. Attempts] /\ Attempts \in Nat
    BY LinesFacts DEF IInv, Shape
  <2>2. binds' = [binds EXCEPT ![p] = binds[p] + 1]
    BY DEF BindInUse
  <2> QED BY <2>1, <2>2
<1>4. st[p] # "unborn" /\ ~Ended(p)
  BY DEF BindInUse, AtListener, Ended, EndStates
<1>5. binds[p] < Attempts
  BY <1>4 DEF IInv, Tries
<1>6. binds' \in [Servers -> 0 .. Attempts]
  BY <1>3, <1>5
<1>7. CASE binds'[p] = Attempts
  <2>1. Become(p, "unbound") /\ "unbound" \in EndStates
    BY <1>7 DEF BindInUse, EndStates
  <2> QED
    BY <1>1, <1>2, <1>3, <1>4, <1>6, <2>1, EndKeeps DEF authVars
<1>8. CASE binds'[p] # Attempts
  <2>1. \A q \in Servers : binds'[q] = binds[q] \/ binds'[q] < Attempts
    BY <1>3, <1>5, <1>8
  <2>2. CASE p = authority
    <3>1. /\ Become(p, "retrying")
          /\ "retrying" \in States \ (EndStates \cup {"unborn"})
      BY <1>8, <2>2 DEF BindInUse, EndStates, States
    <3>2. p \notin Actors /\ p \notin Participants /\ p # combiner
      BY <2>2, ProcessFacts
    <3> QED
      BY <1>1, <1>2, <1>4, <1>6, <2>1, <2>2, <3>1, <3>2, GoOnKeeps
         DEF authVars, combVars, IInv, Shape
  <2>3. CASE p # authority
    <3>1. UNCHANGED st
      BY <1>8, <2>3 DEF BindInUse
    <3>2. Shape' /\ Tries'
      BY <1>2, <1>6, <2>1, <3>1
         DEF IInv, Shape, Tries, Ended, driverVars, pipeVars, authVars, combVars
    <3>3. Places' /\ Pipes' /\ LastLine' /\ Collected'
      BY <1>2, <3>1 DEF IInv, Places, Born, Kinds, Enrolled, Listed, Ordered, OneMesh, Pipes,
         LastLine, Collected, Ended, Done, driverVars, pipeVars, authVars, combVars
    <3> QED BY <3>2, <3>3 DEF IInv
  <2> QED BY <2>2, <2>3
<1> QED BY <1>7, <1>8

LEMMA RegisterKeeps ==
  ASSUME IInv, NEW a \in Actors, Register(a)
  PROVE  IInv'
<1>1. a \in Processes /\ Become(a, "registered")
      /\ "registered" \in States \ (EndStates \cup {"unborn"})
  BY ProcessFacts DEF Register, States, EndStates
<1>2. UNCHANGED <<driverVars, pipeVars, sent, issued, opened, binds, joined, handed>>
  BY DEF Register, combVars
<1>3. st[a] # "unborn" /\ ~Ended(a) /\ st[a] = "starting"
  BY DEF Register, Ended, EndStates
<1>4. a \in Participants => a \notin joined /\ a \notin handed
  BY <1>3 DEF IInv, Places, Listed, Taking, EndStates
<1>5. enrolled \subseteq enrolled' /\ enrolled' \subseteq Actors /\ a \in enrolled'
  BY DEF Register, IInv, Shape
<1>6. a # authority
  BY ProcessFacts
<1> QED BY <1>1, <1>2, <1>3, <1>4, <1>5, <1>6, GoOnKeeps DEF IInv, Shape, Taking

LEMMA RefusedKeeps ==
  ASSUME IInv, NEW a \in Actors, Refused(a)
  PROVE  IInv'
<1>1. a \in Processes /\ Become(a, "refused") /\ "refused" \in EndStates
  BY ProcessFacts DEF Refused, EndStates
<1>2. st[a] # "unborn" /\ ~Ended(a)
  BY DEF Refused, Ended, EndStates
<1>3. UNCHANGED <<driverVars, pipeVars, binds, enrolled, sent, combVars>>
  BY DEF Refused, authVars
<1> QED BY <1>1, <1>2, <1>3, EndKeeps DEF IInv, Shape

LEMMA SendPackageKeeps ==
  ASSUME IInv, SendPackage
  PROVE  IInv'
<1>1. UNCHANGED <<driverVars, pipeVars, binds, enrolled, combVars>>
  BY DEF SendPackage
<1>2. CASE sent' = sent + 1 /\ UNCHANGED st
  <2>1. sent' \in 0 .. Len(PackageOrder)
    BY <1>2, PackageOrderFacts DEF SendPackage, IInv, Shape
  <2>2. Shape' /\ Tries'
    BY <1>1, <1>2, <2>1 DEF IInv, Shape, Tries, Ended, driverVars, pipeVars, combVars
  <2>3. Places' /\ Pipes' /\ LastLine' /\ Collected'
    BY <1>1, <1>2 DEF IInv, Places, Born, Kinds, Enrolled, Listed, Ordered, OneMesh, Pipes,
       LastLine, Collected, Ended, Done, driverVars, pipeVars, combVars
  <2> QED BY <2>2, <2>3 DEF IInv
<1>3. CASE Become(authority, "failed") /\ UNCHANGED sent
  <2>1. authority \in Processes /\ authority \notin Actors /\ "failed" \in EndStates
    BY ProcessFacts DEF EndStates
  <2>2. st[authority] # "unborn" /\ ~Ended(authority)
    BY DEF SendPackage, Ended, EndStates
  <2> QED BY <1>1, <1>3, <2>1, <2>2, EndKeeps DEF IInv, Shape
<1> QED BY <1>2, <1>3 DEF SendPackage

LEMMA SetupCompleteKeeps ==
  ASSUME IInv, SetupComplete
  PROVE  IInv'
<1>1. /\ authority \in Processes /\ authority \notin Actors /\ "ok" \in EndStates
      /\ Become(authority, "ok") /\ authority # combiner /\ authority \notin Tracers
  BY ProcessFacts DEF EndStates, SetupComplete
<1>2. st[authority] # "unborn" /\ ~Ended(authority)
  BY DEF SetupComplete, Ended, EndStates
<1>3. UNCHANGED <<driverVars, pipeVars, binds, enrolled, sent, combVars>>
  BY DEF SetupComplete, authVars
<1> QED BY <1>1, <1>2, <1>3, EndKeeps DEF IInv, Shape

LEMMA ReceivePackageKeeps ==
  ASSUME IInv, NEW a \in Actors, ReceivePackage(a)
  PROVE  IInv'
<1>1. a \in Processes /\ a # authority
  BY ProcessFacts
<1>2. UNCHANGED <<driverVars, pipeVars, binds, enrolled, sent, joined, issued, handed, opened>>
  BY DEF ReceivePackage, authVars, combVars
<1>3. st[a] # "unborn" /\ ~Ended(a) /\ st[a] = "registered"
  BY DEF ReceivePackage, Ended, EndStates
<1>4. CASE Become(a, "keyed")
  <2>1. "keyed" \in States \ (EndStates \cup {"unborn"})
    BY DEF States, EndStates
  <2>2. a \in Participants => a \notin joined /\ a \notin handed
    BY <1>3 DEF IInv, Places, Listed, Taking, EndStates
  <2>3. a \in enrolled
    BY <1>3 DEF IInv, Places, Enrolled, EndStates
  <2> QED BY <1>1, <1>2, <1>3, <1>4, <2>1, <2>2, <2>3, GoOnKeeps DEF IInv, Shape, Taking
<1>5. CASE Become(a, "failed")
  <2>1. "failed" \in EndStates
    BY DEF EndStates
  <2> QED BY <1>1, <1>2, <1>3, <1>5, <2>1, EndKeeps DEF IInv, Shape, combVars
<1> QED BY <1>4, <1>5 DEF ReceivePackage

LEMMA JoinKeeps ==
  ASSUME IInv, NEW p \in Participants, Join(p)
  PROVE  IInv'
<1>1. /\ p \in Processes /\ Become(p, "joined") /\ p # authority /\ p # combiner
      /\ "joined" \in States \ (EndStates \cup {"unborn"})
  BY ProcessFacts DEF Join, States, EndStates
<1>2. /\ UNCHANGED <<driverVars, pipeVars, sent, issued, opened, binds, enrolled, handed>>
      /\ joined' = joined \cup {p}
  BY DEF Join, authVars
<1>3. st[p] # "unborn" /\ ~Ended(p) /\ st[p] = "keyed" /\ ~Ended(combiner)
  BY DEF Join, Ended, EndStates
<1>4. p \notin handed /\ p \in enrolled
  BY <1>3, ProcessFacts DEF IInv, Places, Listed, Enrolled, EndStates
<1> QED BY <1>1, <1>2, <1>3, <1>4, GoOnKeeps DEF IInv, Shape, Taking, Early

LEMMA StartProtocolKeeps ==
  ASSUME IInv, StartProtocol
  PROVE  IInv'
<1>1. /\ combiner \in Processes /\ combiner \notin Participants /\ combiner # authority
      /\ Become(combiner, "running") /\ joined = Participants
      /\ "running" \in States \ (EndStates \cup {"unborn"})
  BY ProcessFacts DEF StartProtocol, States, EndStates
<1>2. UNCHANGED <<driverVars, pipeVars, sent, issued, opened, binds, enrolled, joined, handed>>
  BY DEF StartProtocol, authVars, combVars
<1>3. st[combiner] # "unborn" /\ ~Ended(combiner) /\ st[combiner] = "listening"
  BY DEF StartProtocol, Ended, EndStates
<1>4. combiner \in enrolled
  BY <1>3, ProcessFacts DEF IInv, Places, Enrolled, EndStates
<1> QED BY <1>1, <1>2, <1>3, <1>4, GoOnKeeps DEF IInv, Shape

LEMMA HandInKeeps ==
  ASSUME IInv, NEW p \in Participants, HandIn(p)
  PROVE  IInv'
<1>1. /\ p \in Processes /\ Become(p, "handed") /\ p # authority /\ p # combiner
      /\ "handed" \in States \ (EndStates \cup {"unborn"})
  BY ProcessFacts DEF HandIn, States, EndStates
<1>2. /\ UNCHANGED <<driverVars, pipeVars, sent, issued, opened, binds, enrolled, joined>>
      /\ handed' = handed \cup {p}
  BY DEF HandIn, authVars
<1>3. /\ st[p] # "unborn" /\ ~Ended(p)
      /\ st[p] = IF p \in Tracers THEN "meshed" ELSE "joined"
  BY ServerFacts DEF HandIn, Ended, EndStates, Participants
<1>4. p \in joined /\ p \in enrolled
  BY <1>3, ProcessFacts DEF IInv, Places, Listed, Enrolled, EndStates, Taking
<1>5. p \in Actors
  BY ProcessFacts
<1> QED BY <1>1, <1>2, <1>3, <1>4, <1>5, GoOnKeeps DEF IInv, Shape, Taking

LEMMA FinishKeeps ==
  ASSUME IInv, NEW a \in Actors, Finish(a)
  PROVE  IInv'
<1>1. a \in Processes /\ Become(a, "ok") /\ "ok" \in EndStates
  BY ProcessFacts DEF Finish, EndStates
<1>2. UNCHANGED <<driverVars, pipeVars, binds, enrolled, sent, combVars>>
  BY DEF Finish, authVars
<1>3. /\ st[a] # "unborn" /\ ~Ended(a)
      /\ a = combiner => issued = 2
      /\ a \in Tracers => opened = Tracers
  BY ProcessFacts, ServerFacts DEF Finish, Done, Ended, EndStates
<1>4. printed[a] = Lines[a.role]
  BY DEF Finish
<1> QED BY <1>1, <1>2, <1>3, <1>4, EndKeeps DEF IInv, Shape

\* A process that is there breaks off.
LEMMA BreakKeeps ==
  ASSUME IInv, NEW p \in Processes, NEW s \in EndStates, s # "ok", Become(p, s),
         st[p] # "unborn", ~Ended(p),
         UNCHANGED <<driverVars, pipeVars, binds, authVars, combVars>>
  PROVE  IInv'
<1>1. UNCHANGED <<driverVars, pipeVars, binds, enrolled, sent, combVars>>
  BY DEF authVars
<1> QED BY <1>1, EndKeeps DEF IInv, Shape

LEMMA FailsKeeps ==
  ASSUME IInv, CombinerFails \/ (\E p \in Participants : ParticipantFails(p))
  PROVE  IInv'
<1>1. "failed" \in EndStates /\ "failed" # "ok" /\ combiner \in Processes
  BY ProcessFacts DEF EndStates
<1>2. CASE CombinerFails
  <2>1. st[combiner] # "unborn" /\ ~Ended(combiner) /\ Become(combiner, "failed")
    BY <1>2 DEF CombinerFails, Ended, EndStates
  <2> QED BY <1>1, <1>2, <2>1, BreakKeeps DEF CombinerFails
<1>3. ASSUME NEW p \in Participants, ParticipantFails(p) PROVE IInv'
  <2>1. st[p] # "unborn" /\ ~Ended(p) /\ Become(p, "failed") /\ p \in Processes
    BY <1>3, ProcessFacts DEF ParticipantFails, Ended, EndStates
  <2> QED BY <1>1, <1>3, <2>1, BreakKeeps DEF ParticipantFails
<1> QED BY <1>2, <1>3

LEMMA FaultKeeps ==
  ASSUME IInv, (\E a \in Actors : Reject(a)) \/ (\E p \in Processes : Crash(p))
  PROVE  IInv'
<1>1. ASSUME NEW a \in Actors, Reject(a) PROVE IInv'
  <2>1. a \in Processes /\ "rejected" \in EndStates /\ Become(a, "rejected")
    BY <1>1, ProcessFacts DEF Reject, EndStates
  <2>2. st[a] # "unborn" /\ ~Ended(a)
    BY <1>1 DEF Reject, Ended, EndStates
  <2> QED BY <1>1, <2>1, <2>2, BreakKeeps DEF Reject
<1>2. ASSUME NEW p \in Processes, Crash(p) PROVE IInv'
  <2>1. "crashed" \in EndStates /\ Become(p, "crashed") /\ st[p] # "unborn" /\ ~Ended(p)
    BY <1>2 DEF Crash, EndStates, Alive
  <2> QED BY <1>2, <2>1, BreakKeeps DEF Crash
<1> QED BY <1>1, <1>2

LEMMA MeshUpKeeps ==
  ASSUME IInv, MeshUp
  PROVE  IInv'
<1> USE DEF driverVars, pipeVars, authVars, combVars
<1>1. UNCHANGED <<driverVars, pipeVars, binds, authVars, combVars>>
  BY DEF MeshUp
<1>2. \A p \in Processes : st'[p] = IF p \in Tracers THEN "meshed" ELSE st[p]
  BY DEF MeshUp
<1>3. \A t \in Tracers : /\ st[t] \in {"joined", "dialing"} /\ t \in Processes
                         /\ t \in Participants /\ t \in Actors
                         /\ t # combiner /\ t # authority /\ t \notin Signers
  BY ProcessFacts, ServerFacts DEF MeshUp
<1>4. Shape'
  <2>1. st' = [p \in Processes |-> IF p \in Tracers THEN "meshed" ELSE st[p]]
    BY DEF MeshUp
  <2>2. st \in [Processes -> States] /\ "meshed" \in States
    BY DEF IInv, Shape, States
  <2>3. st' \in [Processes -> States]
    BY <2>1, <2>2
  <2> QED BY <1>1, <2>3 DEF IInv, Shape
<1>5. Born'
  BY <1>1, <1>2, <1>3, SpawnOrderFacts DEF IInv, Places, Born
<1>6. Kinds' /\ Enrolled' /\ OneMesh'
  BY <1>1, <1>2, <1>3, ProcessFacts
     DEF IInv, Places, Kinds, Enrolled, OneMesh, Taking, EndStates
<1>7. Listed'
  BY <1>1, <1>2, <1>3, ProcessFacts DEF IInv, Places, Listed, Taking, EndStates
<1>8. Ordered'
  BY <1>1, <1>2, <1>3, ProcessFacts DEF IInv, Places, Ordered
<1>9. Tries'
  BY <1>1, <1>2, <1>3, ServerFacts DEF IInv, Tries, Ended, EndStates
<1>10. Pipes'
  BY <1>1, <1>2, ProcessFacts, ServerFacts DEF IInv, Pipes, Ended
<1>11. LastLine'
  <2>1. ASSUME NEW a \in Actors, a \notin Tracers
        PROVE  st'[a] = st[a] /\ (Done(a) \/ Ended(a) => (Done(a) \/ Ended(a))')
    BY <1>1, <1>2, <2>1, ProcessFacts DEF Done, Ended
  <2>2. \A t \in Tracers : ~Done(t) /\ ~Ended(t) /\ st'[t] = "meshed"
    BY <1>2, <1>3 DEF Done, Ended, EndStates
  <2> QED BY <1>1, <2>1, <2>2 DEF IInv, LastLine
<1>12. Collected'
  <2>1. \A p \in Processes : Ended(p) => st'[p] = st[p]
    BY <1>2, <1>3 DEF Ended, EndStates
  <2> QED BY <1>1, <2>1, CollectedKeeps
<1> QED BY <1>4, <1>5, <1>6, <1>7, <1>8, <1>9, <1>10, <1>11, <1>12 DEF IInv, Places

LEMMA IssueKeeps ==
  ASSUME IInv, Issue
  PROVE  IInv'
<1>1. UNCHANGED <<driverVars, pipeVars, st, binds, authVars, joined, handed, opened>>
  BY DEF Issue
<1>2. issued' = issued + 1 /\ issued' \in {1, 2} /\ st[combiner] = "running"
      /\ Tracers \subseteq handed /\ (issued' = 2 => handed = Participants)
  BY ProcessFacts DEF Issue
<1>3. Shape' /\ Tries'
  BY <1>1, <1>2 DEF IInv, Shape, Tries, Ended, driverVars, pipeVars, authVars
<1>4. Born' /\ Kinds' /\ Enrolled' /\ Listed' /\ OneMesh' /\ Pipes' /\ Collected'
  BY <1>1 DEF IInv, Places, Born, Kinds, Enrolled, Listed, OneMesh, Pipes,
     Collected, Ended, driverVars, pipeVars, authVars
<1>5. Ordered'
  BY <1>1, <1>2 DEF IInv, Places, Ordered
<1>6. LastLine'
  BY <1>1, <1>2 DEF IInv, LastLine, Done, Ended, pipeVars
<1> QED BY <1>3, <1>4, <1>5, <1>6 DEF IInv, Places

LEMMA VerifyKeeps ==
  ASSUME IInv, NEW p \in Participants, Verify(p)
  PROVE  IInv'
<1>1. UNCHANGED <<driverVars, pipeVars, st, binds, authVars, joined, issued, handed>>
  BY DEF Verify
<1>2. opened' = opened \cup {p} /\ p \in Tracers /\ p \in handed
  BY DEF Verify, IInv, Places, Listed
<1>3. /\ opened' \subseteq handed \cap Tracers
      /\ opened = Tracers => opened' = Tracers
  BY <1>2 DEF IInv, Shape
<1>4. Shape' /\ Tries'
  BY <1>1, <1>3 DEF IInv, Shape, Tries, Ended, driverVars, pipeVars, authVars
<1>5. Born' /\ Kinds' /\ Enrolled' /\ Listed' /\ OneMesh' /\ Pipes' /\ Collected'
  BY <1>1 DEF IInv, Places, Born, Kinds, Enrolled, Listed, OneMesh, Pipes,
     Collected, Ended, driverVars, pipeVars, authVars
<1>6. Ordered'
  BY <1>1, <1>3 DEF IInv, Places, Ordered
<1>7. LastLine'
  BY <1>1, <1>3 DEF IInv, LastLine, Done, Ended, pipeVars
<1> QED BY <1>4, <1>5, <1>6, <1>7 DEF IInv, Places

\* A line more in the pipe of somebody who is not at an end.
LEMMA PipeFacts ==
  ASSUME IInv, NEW a \in Actors, HasRoom(a), pipe' = [pipe EXCEPT ![a] = @ + 1]
  PROVE  /\ pipe' \in [Actors -> Nat] /\ pipe'[a] = pipe[a] + 1 /\ pipe'[a] <= PipeLines
         /\ \A b \in Actors : b # a => pipe'[b] = pipe[b]
BY LinesFacts DEF IInv, Shape, HasRoom

LEMMA PrintLineKeeps ==
  ASSUME IInv, NEW a \in Actors, PrintLine(a)
  PROVE  IInv'
<1>1. UNCHANGED <<driverVars, refusals, st, binds, authVars, combVars>>
  BY DEF PrintLine
<1>2. /\ pipe' \in [Actors -> Nat] /\ pipe'[a] = pipe[a] + 1 /\ pipe'[a] <= PipeLines
      /\ \A b \in Actors : b # a => pipe'[b] = pipe[b]
  BY PipeFacts DEF PrintLine
<1>3. /\ printed' \in [Actors -> Nat] /\ printed'[a] = printed[a] + 1
      /\ \A b \in Actors : b # a => printed'[b] = printed[b]
  BY DEF PrintLine, IInv, Shape
<1>4. printed[a] \in Nat /\ pipe[a] \in Nat /\ Lines[a.role] \in Nat \ {0}
  BY LinesFacts DEF IInv, Shape
<1>5. printed'[a] <= Lines[a.role] /\ (printed'[a] < Lines[a.role] \/ Done(a))
  BY <1>3, <1>4 DEF PrintLine
<1>6. ~Ended(a)
  BY DEF PrintLine, Ended, EndStates
<1>7. Shape' /\ Tries'
  BY <1>1, <1>2, <1>3 DEF IInv, Shape, Tries, Ended, driverVars, authVars, combVars
<1>8. Places'
  BY <1>1 DEF IInv, Places, Born, Kinds, Enrolled, Listed, Ordered, OneMesh, driverVars,
     authVars, combVars
<1>9. Pipes'
  <2>1. \A b \in Actors : printed'[b] <= Lines[b.role] /\ pipe'[b] <= PipeLines
    BY <1>2, <1>3, <1>5 DEF IInv, Pipes
  <2>2. ASSUME NEW p \in Signers
        PROVE  \/ pipe'[p] <= printed'[p] + refusals[p]
               \/ Ended(combiner) /\ st[p] \in {"keyed"} \cup EndStates
    <3>1. p \in Actors /\ refusals[p] \in Nat
      BY ProcessFacts DEF IInv, Shape
    <3> QED BY <1>2, <1>3, <1>4, <3>1 DEF IInv, Pipes
  <2>3. \A t \in Tracers : pipe'[t] <= printed'[t]
    BY <1>2, <1>3, <1>4, ProcessFacts DEF IInv, Pipes
  <2> QED BY <1>1, <2>1, <2>2, <2>3 DEF IInv, Pipes, Ended
<1>10. LastLine'
  BY <1>1, <1>3, <1>5, <1>6 DEF IInv, LastLine, Done, Ended, EndStates, combVars
<1>11. Collected'
  BY <1>1, <1>2, <1>6, CollectedKeeps
<1> QED BY <1>7, <1>8, <1>9, <1>10, <1>11 DEF IInv

LEMMA NotReadyKeeps ==
  ASSUME IInv, NEW p \in Participants, NotReady(p)
  PROVE  IInv'
<1>1. UNCHANGED <<driverVars, printed, st, binds, authVars, combVars>>
  BY DEF NotReady
<1>2. p \in Signers /\ p \in Actors /\ st[p] = "keyed" /\ ~Ended(p)
  BY ProcessFacts DEF NotReady, Ended, EndStates
<1>3. /\ pipe' \in [Actors -> Nat] /\ pipe'[p] = pipe[p] + 1 /\ pipe'[p] <= PipeLines
      /\ \A b \in Actors : b # p => pipe'[b] = pipe[b]
  BY <1>2, PipeFacts DEF NotReady
<1>4. /\ refusals \in [Signers -> Nat] /\ refusals[p] \in Nat /\ refusals[p] <= Attempts
      /\ pipe[p] \in Nat /\ printed[p] \in Nat
  BY <1>2 DEF IInv, Shape, Pipes
<1>5. ~Ended(combiner) => refusals' = [refusals EXCEPT ![p] = refusals[p] + 1]
                          /\ refusals[p] < Attempts
  <2>1. ~Ended(combiner) => binds[combiner] < Attempts /\ refusals[p] <= binds[combiner]
                            /\ refusals' = [refusals EXCEPT ![p] = refusals[p] + 1]
    BY ServerFacts DEF IInv, Tries, NotReady
  <2>2. binds[combiner] \in Nat /\ Attempts \in Nat
    BY ServerFacts, LinesFacts DEF IInv, Shape
  <2> QED BY <1>4, <2>1, <2>2
<1>6. Ended(combiner) => refusals' = refusals
  BY DEF NotReady
<1>7. refusals' \in [Signers -> Nat]
  BY <1>2, <1>4, <1>5, <1>6
<1>8. Shape' /\ Tries'
  BY <1>1, <1>3, <1>7 DEF IInv, Shape, Tries, Ended, driverVars, authVars, combVars
<1>9. Places'
  BY <1>1 DEF IInv, Places, Born, Kinds, Enrolled, Listed, Ordered, OneMesh, driverVars,
     authVars, combVars
<1>10. Pipes'
  <2>1. \A b \in Actors : printed'[b] <= Lines[b.role] /\ pipe'[b] <= PipeLines
    BY <1>1, <1>3 DEF IInv, Pipes
  <2>2. \A q \in Signers : refusals'[q] <= Attempts
    BY <1>2, <1>4, <1>5, <1>6, LinesFacts DEF IInv, Pipes
  <2>3. ASSUME NEW q \in Signers
        PROVE  \/ pipe'[q] <= printed[q] + refusals'[q]
               \/ Ended(combiner) /\ st[q] \in {"keyed"} \cup EndStates
    <3>1. q \in Actors /\ q \notin Tracers
      BY ProcessFacts, ServerFacts
    <3>2. CASE q # p
      BY <1>2, <1>3, <1>4, <1>5, <1>6, <3>1, <3>2 DEF IInv, Pipes
    <3>3. CASE q = p /\ Ended(combiner)
      BY <1>2, <3>3
    <3>4. CASE q = p /\ ~Ended(combiner)
      BY <1>2, <1>3, <1>4, <1>5, <3>4 DEF IInv, Pipes
    <3> QED BY <3>2, <3>3, <3>4
  <2>4. \A t \in Tracers : pipe'[t] <= printed[t]
    BY <1>2, <1>3, ProcessFacts, ServerFacts DEF IInv, Pipes
  <2> QED BY <1>1, <2>1, <2>2, <2>3, <2>4 DEF IInv, Pipes, Ended
<1>11. LastLine'
  BY <1>1 DEF IInv, LastLine, Done, Ended, combVars
<1>12. Collected'
  BY <1>1, <1>2, <1>3, CollectedKeeps
<1> QED BY <1>8, <1>9, <1>10, <1>11, <1>12 DEF IInv

-----------------------------------------------------------------------------
(* Steps of the driver *)

LEMMA SpawnKeeps ==
  ASSUME IInv, Spawn
  PROVE  IInv'
<1> USE DEF pipeVars, authVars, combVars
<1>1. PICK p \in Processes : /\ p = SpawnOrder[spawned + 1] /\ Become(p, "starting")
                             /\ spawned + 1 \in 1 .. Len(SpawnOrder)
  BY SpawnOrderFacts, ScenarioAssumption DEF Spawn, IInv, Shape
<1>2. spawned' = spawned + 1 /\ UNCHANGED <<waited, ok, pipeVars, binds, authVars, combVars>>
  BY DEF Spawn
<1>3. st[p] = "unborn"
  BY <1>1 DEF IInv, Places, Born, Shape
<1>4. \A q \in Processes : st'[q] = IF q = p THEN "starting" ELSE st[q]
  BY <1>1 DEF Become, IInv, Shape
<1>5. waited = 0
  <2>1. ~(spawned = Len(SpawnOrder)) /\ waited \in Nat
    BY SpawnOrderFacts, WaitOrderFacts, ScenarioAssumption DEF Spawn, IInv, Shape
  <2> QED BY <2>1 DEF IInv, Collected
<1>6. Shape'
  BY <1>1, <1>2, SpawnOrderFacts, ScenarioAssumption DEF Become, IInv, Shape, States
<1>7. Born'
  <2>1. \A i \in 1 .. Len(SpawnOrder) : SpawnOrder[i] \in Processes
    BY SpawnOrderFacts
  <2>2. \A i \in 1 .. Len(SpawnOrder) : SpawnOrder[i] = p => i = spawned + 1
    BY <1>1, SpawnedOnce
  <2>3. spawned \in Nat /\ Len(SpawnOrder) \in Nat
    BY SpawnOrderFacts, ScenarioAssumption DEF IInv, Shape
  <2> QED BY <1>1, <1>2, <1>4, <2>1, <2>2, <2>3 DEF IInv, Places, Born
<1>8. Kinds'
  BY <1>4, ProcessFacts DEF IInv, Places, Kinds, Early
<1>9. Enrolled' /\ OneMesh'
  BY <1>2, <1>3, <1>4, ProcessFacts DEF IInv, Places, Enrolled, OneMesh, EndStates
<1>10. Listed'
  BY <1>2, <1>3, <1>4, ProcessFacts DEF IInv, Places, Listed, Taking, EndStates
<1>11. Ordered'
  BY <1>2, <1>3, <1>4, ProcessFacts DEF IInv, Places, Ordered, EndStates
<1>12. Tries'
  BY <1>2, <1>3, <1>4, ServerFacts DEF IInv, Tries, Ended, EndStates
<1>13. Pipes'
  <2>1. Ended(combiner) => Ended(combiner)' /\ p # combiner
    BY <1>3, <1>4, ProcessFacts DEF Ended, EndStates
  <2>2. p \in Signers => pipe[p] <= printed[p] + refusals[p]
    BY <1>3, ProcessFacts, ServerFacts DEF IInv, Pipes, EndStates
  <2> QED BY <1>2, <1>4, <2>1, <2>2, ProcessFacts DEF IInv, Pipes
<1>14. LastLine'
  BY <1>2, <1>3, <1>4, ProcessFacts DEF IInv, LastLine, Done, Ended, EndStates
<1>15. Collected'
  BY <1>2, <1>5 DEF Collected
<1> QED BY <1>6, <1>7, <1>8, <1>9, <1>10, <1>11, <1>12, <1>13, <1>14, <1>15 DEF IInv, Places

LEMMA ReadOutputKeeps ==
  ASSUME IInv, ReadOutput
  PROVE  IInv'
<1>1. UNCHANGED <<driverVars, printed, refusals, st, binds, authVars, combVars>>
  BY DEF ReadOutput
<1>2. PICK w \in Actors : pipe' = [pipe EXCEPT ![w] = 0] /\ w = Awaited
  BY DEF ReadOutput
<1>3. pipe' \in [Actors -> Nat] /\ \A a \in Actors : pipe'[a] = IF a = w THEN 0 ELSE pipe[a]
  BY <1>2 DEF IInv, Shape
<1>4. Shape' /\ Tries'
  BY <1>1, <1>3 DEF IInv, Shape, Tries, Ended, driverVars, authVars, combVars
<1>5. Places' /\ LastLine'
  BY <1>1 DEF IInv, Places, Born, Kinds, Enrolled, Listed, Ordered, OneMesh, LastLine, Done,
     Ended, driverVars, authVars, combVars
<1>6. Pipes'
  <2>1. \A a \in Actors : pipe'[a] <= pipe[a] /\ pipe'[a] \in Nat /\ pipe[a] \in Nat
                          /\ printed[a] \in Nat
    BY <1>3 DEF IInv, Shape
  <2>2. \A p \in Signers : refusals[p] \in Nat /\ p \in Actors
    BY ProcessFacts DEF IInv, Shape
  <2>3. \A t \in Tracers : t \in Actors
    BY ProcessFacts
  <2> QED BY <1>1, <2>1, <2>2, <2>3, LinesFacts DEF IInv, Pipes, Ended
<1>7. Collected'
  <2>1. \A i \in 1 .. waited : WaitOrder[i] \in Processes
    BY WaitOrderFacts DEF IInv, Shape
  <2> QED BY <1>1, <1>3, <2>1, ProcessFacts DEF IInv, Collected, Ended, driverVars
<1> QED BY <1>4, <1>5, <1>6, <1>7 DEF IInv

LEMMA WaitKeeps ==
  ASSUME IInv, WaitWithOutput \/ TryWait
  PROVE  IInv'
<1> USE DEF pipeVars, authVars, combVars
<1>1. /\ Waiting /\ waited' = waited + 1
      /\ UNCHANGED <<spawned, pipeVars, binds, authVars, combVars>>
      /\ waited \in Nat /\ waited + 1 \in 1 .. Len(WaitOrder) /\ spawned = Len(SpawnOrder)
  BY WaitOrderFacts, ScenarioAssumption DEF WaitWithOutput, TryWait, Waiting, IInv, Shape
<1>2. PICK w \in Processes : w = Awaited /\ w = WaitOrder[waited + 1]
  BY <1>1, WaitOrderFacts DEF Awaited
<1>3. \A i \in 1 .. waited + 1 : i \in 1 .. waited \/ i = waited + 1
  BY <1>1
<1>4. CASE UNCHANGED st /\ Ended(w) /\ ok' \in BOOLEAN /\ (ok' => ok)
           /\ (w \in Actors => pipe[w] = 0 /\ (ok' => st[w] = "ok"))
  <2>1. Shape' /\ Tries'
    BY <1>1, <1>4 DEF IInv, Shape, Tries, Ended
  <2>2. Places' /\ Pipes' /\ LastLine'
    BY <1>1, <1>4 DEF IInv, Places, Born, Kinds, Enrolled, Listed, Ordered, OneMesh, Pipes,
       LastLine, Done, Ended
  <2>3. Collected'
    BY <1>1, <1>2, <1>3, <1>4 DEF IInv, Collected, Ended
  <2> QED BY <2>1, <2>2, <2>3 DEF IInv
<1>5. CASE Become(w, "killed") /\ w = authority /\ ~Ended(w) /\ ok' = ok
  <2>1. \A q \in Processes : st'[q] = IF q = authority THEN "killed" ELSE st[q]
    BY <1>5, ProcessFacts DEF Become, IInv, Shape
  <2>2. \A a \in Actors : a # authority /\ a \in Processes
    BY ProcessFacts
  <2>3. st[authority] # "unborn"
    <3>1. PICK i \in 1 .. Len(SpawnOrder) : SpawnOrder[i] = authority
      BY SpawnedOnce, ProcessFacts
    <3> QED BY <1>1, <3>1, SpawnOrderFacts, ScenarioAssumption DEF IInv, Places, Born, Shape
  <2>4. Shape'
    BY <1>1, <1>5, ProcessFacts DEF IInv, Shape, Become, States, EndStates
  <2>5. Born'
    BY <1>1, <2>1, <2>3, SpawnOrderFacts DEF IInv, Places, Born
  <2>6. Kinds' /\ Enrolled' /\ OneMesh' /\ Listed' /\ Ordered'
    BY <1>1, <2>1, <2>2, ProcessFacts DEF IInv, Places, Kinds, Enrolled, OneMesh, Listed, Ordered,
       EndStates
  <2>7. Tries'
    BY <1>1, <2>1, ServerFacts DEF IInv, Tries, Ended, EndStates
  <2>8. Pipes' /\ LastLine'
    BY <1>1, <2>1, <2>2, ProcessFacts DEF IInv, Pipes, LastLine, Done, Ended
  <2>9. Collected'
    <3>1. \A i \in 1 .. waited : WaitOrder[i] \in Processes /\ WaitOrder[i] # authority
      BY <1>1, <1>5, WaitOrderFacts DEF IInv, Collected, Ended
    <3>2. \A i \in 1 .. waited : st'[WaitOrder[i]] = st[WaitOrder[i]]
      BY <2>1, <3>1
    <3>3. WaitOrder[waited + 1] \notin Actors /\ st'[WaitOrder[waited + 1]] \in EndStates
      BY <1>2, <1>5, <2>1, ProcessFacts DEF EndStates
    <3> QED BY <1>1, <1>3, <1>5, <3>2, <3>3 DEF IInv, Collected, Ended
  <2> QED BY <2>4, <2>5, <2>6, <2>7, <2>8, <2>9 DEF IInv, Places
<1>6. ok \in BOOLEAN
  BY DEF IInv, Shape
<1> QED BY <1>2, <1>4, <1>5, <1>6, ProcessFacts DEF WaitWithOutput, TryWait

LEMMA NextIInv == IInv /\ [Next]_vars => IInv'
<1> SUFFICES ASSUME IInv, [Next]_vars
             PROVE  IInv'
  OBVIOUS
<1>1. CASE DriverStep
  BY <1>1, SpawnKeeps, ReadOutputKeeps, WaitKeeps DEF DriverStep
<1>2. CASE AuthorityStep
  BY <1>2, ServerFacts, BindKeeps, BindInUseKeeps, SendPackageKeeps, SetupCompleteKeeps
     DEF AuthorityStep, Binding
<1>3. CASE CombinerStep
  BY <1>3, ServerFacts, BindKeeps, BindInUseKeeps, StartProtocolKeeps, IssueKeeps, FailsKeeps
     DEF CombinerStep, Binding
<1>4. CASE MeshUp
  BY <1>4, MeshUpKeeps
<1>5. ASSUME NEW a \in Actors, ActorStep(a) PROVE IInv'
  BY <1>5, RegisterKeeps, RefusedKeeps, ReceivePackageKeeps, PrintLineKeeps, FinishKeeps
     DEF ActorStep
<1>6. ASSUME NEW p \in Participants, ParticipantStep(p) PROVE IInv'
  BY <1>6, ServerFacts, JoinKeeps, NotReadyKeeps, HandInKeeps, VerifyKeeps, FailsKeeps,
     BindKeeps, BindInUseKeeps DEF ParticipantStep, Binding
<1>7. CASE (\E a \in Actors : Reject(a)) \/ (\E p \in Processes : Crash(p))
  BY <1>7, FaultKeeps
<1>8. CASE UNCHANGED vars
  <2> USE DEF vars, driverVars, pipeVars, authVars, combVars
  <2>1. Shape' /\ Tries' /\ Pipes' /\ LastLine' /\ Collected'
    BY <1>8 DEF IInv, Shape, Tries, Pipes, LastLine, Collected, Done, Ended
  <2>2. Places'
    BY <1>8 DEF IInv, Places, Born, Kinds, Enrolled, Listed, Ordered, OneMesh
  <2> QED BY <2>1, <2>2 DEF IInv
<1> QED BY <1>1, <1>2, <1>3, <1>4, <1>5, <1>6, <1>7, <1>8 DEF Next

THEOREM Inductive == Spec => []IInv
<1> QED BY InitIInv, NextIInv, PTL DEF Spec

\* The types are what they should be, and a pipe never holds more than it can,
\* however many dials the Combiner refuses.
THEOREM TypeCorrect == Spec => []TypeOK
<1>1. IInv => TypeOK
  <2> SUFFICES ASSUME IInv PROVE TypeOK
    OBVIOUS
  <2>1. \A a \in Actors : printed[a] \in 0 .. Lines[a.role] /\ pipe[a] \in 0 .. PipeLines
    BY LinesFacts DEF IInv, Shape, Pipes
  <2>2. refusals \in [Signers -> 0 .. Attempts]
    BY LinesFacts DEF IInv, Shape, Pipes
  <2>3. st \in [Processes -> EndStates \cup
          {"unborn", "starting", "retrying", "listening", "registered", "keyed",
           "joined", "dialing", "meshed", "running", "handed"}]
    BY DEF IInv, Shape, States
  <2> QED BY <2>1, <2>2, <2>3 DEF TypeOK, IInv, Shape
<1> QED BY <1>1, Inductive, PTL

\* benchmark.rs, "Returns whether every actor succeeded": if the driver reports
\* success, every actor succeeded and all it printed has been read.
THEOREM OkMeansEverybodyTheorem == Spec => []OkMeansEverybody
<1>1. IInv => OkMeansEverybody
  <2> SUFFICES ASSUME IInv, Returned, ok, NEW a \in Actors
               PROVE  st[a] = "ok" /\ printed[a] = Lines[a.role] /\ pipe[a] = 0
    BY DEF OkMeansEverybody
  <2>1. PICK i \in 1 .. Len(WaitOrder) : WaitOrder[i] = a
    BY WaitOrderFacts, ProcessFacts
  <2>2. i \in 1 .. waited
    BY <2>1 DEF Returned
  <2> QED BY <2>1, <2>2 DEF IInv, Collected, LastLine
<1> QED BY <1>1, Inductive, PTL

\* When the driver returns, nothing is left that could reach the next run's
\* processes.
THEOREM NothingLeftRunningTheorem == Spec => []NothingLeftRunning
<1>1. IInv => NothingLeftRunning
  <2> SUFFICES ASSUME IInv, Returned, NEW p \in Processes
               PROVE  ~Alive(p)
    BY DEF NothingLeftRunning
  <2>1. PICK i \in 1 .. Len(WaitOrder) : WaitOrder[i] = p
    BY WaitOrderFacts
  <2>2. i \in 1 .. waited
    BY <2>1 DEF Returned
  <2> QED BY <2>1, <2>2 DEF IInv, Collected, Alive
<1> QED BY <1>1, Inductive, PTL

-----------------------------------------------------------------------------
(* Who is stuck: the conditions under which the driver, the Authority, the  *)
(* Combiner, a participant or the mesh has a step to take.  StepsOf...      *)
(* names the step and its outcome for each of them.                         *)

SpawnCan ==
  /\ spawned < Len(SpawnOrder)
  /\ SpawnOrder[spawned + 1] = combiner => st[authority] # "starting"

ReadCan == Waiting /\ Awaited \in Actors /\ pipe[Awaited] > 0

WaitCan ==
  /\ Waiting
  /\ \/ Awaited = authority
     \/ Awaited \in Actors /\ Ended(Awaited) /\ pipe[Awaited] = 0

SendCan == st[authority] = "listening" /\ enrolled = Actors /\ sent < Len(PackageOrder)

CompleteCan == st[authority] = "listening" /\ sent = Len(PackageOrder)

ReceiveCan(a) == st[a] = "registered" /\ (a \in keyed \/ Ended(authority))

PrintCan(a) ==
  /\ st[a] \in {"keyed", "joined", "dialing", "meshed", "handed", "listening", "running"}
  /\ HasRoom(a)
  /\ printed[a] < IF Done(a) THEN Lines[a.role] ELSE Lines[a.role] - 1

FinishCan(a) == Done(a) /\ printed[a] = Lines[a.role]

StartCan ==
  /\ st[combiner] = "listening" /\ joined = Participants
  /\ printed[combiner] = Lines["Combiner"] - 1

IssueCan ==
  /\ st[combiner] = "running"
  /\ \/ issued = 0 /\ Tracers \subseteq handed
     \/ issued = 1 /\ handed = Participants

LinkEnds ==
  /\ st[combiner] = "running"
  /\ \/ issued = 0 /\ FoundClosed(tracer_handles)
     \/ issued = 1 /\ FoundClosed(signer_handles)

JoinCan(p) == st[p] = "keyed" /\ st[combiner] = "listening" /\ HasRoom(p)

HandInCan(p) ==
  /\ \/ p \in Tracers /\ st[p] = "meshed"
     \/ p \in Signers /\ st[p] = "joined" /\ issued > 0
  /\ printed[p] = Lines[p.role] - 1

VerifyCan(t) == st[t] = "handed" /\ t \in Tracers \ opened /\ issued = 2

FailCan(p) ==
  \/ /\ Broken(combiner) /\ p \notin opened
     /\ st[p] = IF p \in Signers THEN "joined" ELSE "handed"
  \/ /\ p \in Tracers \cap opened /\ st[p] = "handed"
     /\ \E t \in Tracers : Broken(t)

MeshCan == \A t \in Tracers : st[t] = IF Binds(t) THEN "dialing" ELSE "joined"

SomebodyCan ==
  \/ SpawnCan \/ ReadCan \/ WaitCan \/ SendCan \/ CompleteCan
  \/ StartCan \/ IssueCan \/ LinkEnds \/ MeshCan
  \/ \E p \in Servers : AtListener(p)
  \/ \E a \in Actors : st[a] = "starting" \/ ReceiveCan(a) \/ PrintCan(a) \/ FinishCan(a)
  \/ \E p \in Participants : JoinCan(p) \/ HandInCan(p) \/ VerifyCan(p) \/ FailCan(p)

NobodyStuck == SomebodyCan \/ Returned \/ Stuck

\* The process p goes on to s; nothing else changes but the registers given.
GoesTo(p, s, auth, comb) ==
  vars' = <<driverVars, pipeVars, [st EXCEPT ![p] = s], binds, auth, comb>>

\* What the driver has to do can be done.
LEMMA StepsOfDriver ==
  /\ SpawnCan /\ vars' = <<<<spawned + 1, waited, ok>>, pipeVars,
                           [st EXCEPT ![SpawnOrder[spawned + 1]] = "starting"],
                           binds, authVars, combVars>>
     => DriverStep
  /\ ReadCan /\ vars' = <<driverVars, <<[pipe EXCEPT ![Awaited] = 0], printed, refusals>>,
                          st, binds, authVars, combVars>>
     => DriverStep
  /\ WaitCan /\ (Ended(Awaited) \/ Awaited # authority)
     /\ vars' = <<<<spawned, waited + 1, (ok /\ st[Awaited] = "ok")>>, pipeVars,
                  st, binds, authVars, combVars>>
     => DriverStep
  /\ WaitCan /\ Awaited = authority /\ ~Ended(authority)
     /\ vars' = <<<<spawned, waited + 1, ok>>, pipeVars,
                  [st EXCEPT ![authority] = "killed"], binds, authVars, combVars>>
     => DriverStep
<1> USE DEF vars, driverVars, pipeVars, DriverStep
<1>1. ASSUME SpawnCan,
             vars' = <<<<spawned + 1, waited, ok>>, pipeVars,
                       [st EXCEPT ![SpawnOrder[spawned + 1]] = "starting"],
                       binds, authVars, combVars>>
      PROVE  Spawn
  BY <1>1 DEF SpawnCan, Spawn, Become
<1>2. ASSUME ReadCan,
             vars' = <<driverVars, <<[pipe EXCEPT ![Awaited] = 0], printed, refusals>>,
                       st, binds, authVars, combVars>>
      PROVE  ReadOutput
  BY <1>2 DEF ReadCan, ReadOutput
<1>3. ASSUME WaitCan, Ended(Awaited) \/ Awaited # authority,
             vars' = <<<<spawned, waited + 1, (ok /\ st[Awaited] = "ok")>>, pipeVars,
                       st, binds, authVars, combVars>>
      PROVE  WaitWithOutput \/ TryWait
  BY <1>3 DEF WaitCan, WaitWithOutput, TryWait
<1>4. ASSUME WaitCan, Awaited = authority, ~Ended(authority),
             vars' = <<<<spawned, waited + 1, ok>>, pipeVars,
                       [st EXCEPT ![authority] = "killed"], binds, authVars, combVars>>
      PROVE  TryWait
  BY <1>4 DEF WaitCan, TryWait, Become
<1> QED BY <1>1, <1>2, <1>3, <1>4

\* What the Authority, the Combiner and the mesh have to do can be done.
LEMMA StepsOfServers ==
  /\ \A p \in Servers :
       AtListener(p)
       /\ GoesTo(p, IF p \in Tracers THEN "dialing" ELSE "listening", authVars, combVars)
       => Binding(p)
  /\ SendCan /\ vars' = <<driverVars, pipeVars, st, binds, <<enrolled, sent + 1>>, combVars>>
     => AuthorityStep
  /\ CompleteCan /\ GoesTo(authority, "ok", authVars, combVars) => AuthorityStep
  /\ StartCan /\ GoesTo(combiner, "running", authVars, combVars) => CombinerStep
  /\ IssueCan /\ vars' = <<driverVars, pipeVars, st, binds, authVars,
                           <<joined, issued + 1, handed, opened>>>>
     => CombinerStep
  /\ LinkEnds /\ GoesTo(combiner, "failed", authVars, combVars) => CombinerStep
  /\ MeshCan /\ vars' = <<driverVars, pipeVars,
                          [p \in Processes |-> IF p \in Tracers THEN "meshed" ELSE st[p]],
                          binds, authVars, combVars>>
     => MeshUp
<1> USE DEF vars, authVars, combVars, GoesTo, Become, Binding, AuthorityStep, CombinerStep
<1>1. ASSUME NEW p \in Servers, AtListener(p),
             GoesTo(p, IF p \in Tracers THEN "dialing" ELSE "listening", authVars, combVars)
      PROVE  Bind(p)
  BY <1>1 DEF Bind
<1>2. ASSUME SendCan,
             vars' = <<driverVars, pipeVars, st, binds, <<enrolled, sent + 1>>, combVars>>
      PROVE  SendPackage
  BY <1>2 DEF SendCan, SendPackage
<1>3. ASSUME CompleteCan, GoesTo(authority, "ok", authVars, combVars)
      PROVE  SetupComplete
  BY <1>3 DEF CompleteCan, SetupComplete
<1>4. ASSUME StartCan, GoesTo(combiner, "running", authVars, combVars)
      PROVE  StartProtocol
  BY <1>4 DEF StartCan, StartProtocol
<1>5. ASSUME IssueCan, vars' = <<driverVars, pipeVars, st, binds, authVars,
                                 <<joined, issued + 1, handed, opened>>>>
      PROVE  Issue
  BY <1>5 DEF IssueCan, Issue
<1>6. ASSUME LinkEnds, GoesTo(combiner, "failed", authVars, combVars)
      PROVE  CombinerFails
  BY <1>6 DEF LinkEnds, CombinerFails
<1>7. ASSUME MeshCan,
             vars' = <<driverVars, pipeVars,
                       [p \in Processes |-> IF p \in Tracers THEN "meshed" ELSE st[p]],
                       binds, authVars, combVars>>
      PROVE  MeshUp
  BY <1>7 DEF MeshCan, MeshUp
<1> QED BY <1>1, <1>2, <1>3, <1>4, <1>5, <1>6, <1>7

\* What an actor has to do can be done.
LEMMA StepsOfActors ==
  ASSUME NEW a \in Actors
  PROVE  /\ st[a] = "starting" /\ st[authority] = "listening"
            /\ GoesTo(a, "registered", <<enrolled \cup {a}, sent>>, combVars)
            => ActorStep(a)
         /\ st[a] = "starting" /\ st[authority] # "listening"
            /\ GoesTo(a, "refused", authVars, combVars)
            => ActorStep(a)
         /\ ReceiveCan(a)
            /\ GoesTo(a, IF a \in keyed THEN "keyed" ELSE "failed", authVars, combVars)
            => ActorStep(a)
         /\ PrintCan(a)
            /\ vars' = <<driverVars, <<[pipe EXCEPT ![a] = @ + 1], [printed EXCEPT ![a] = @ + 1],
                                       refusals>>, st, binds, authVars, combVars>>
            => ActorStep(a)
         /\ FinishCan(a) /\ GoesTo(a, "ok", authVars, combVars) => ActorStep(a)
<1> USE DEF vars, authVars, combVars, GoesTo, Become, ActorStep
<1>1. ASSUME st[a] = "starting", st[authority] = "listening",
             GoesTo(a, "registered", <<enrolled \cup {a}, sent>>, combVars)
      PROVE  Register(a)
  BY <1>1 DEF Register
<1>2. ASSUME st[a] = "starting", st[authority] # "listening",
             GoesTo(a, "refused", authVars, combVars)
      PROVE  Refused(a)
  BY <1>2 DEF Refused
<1>3. ASSUME ReceiveCan(a),
             GoesTo(a, IF a \in keyed THEN "keyed" ELSE "failed", authVars, combVars)
      PROVE  ReceivePackage(a)
  BY <1>3 DEF ReceiveCan, ReceivePackage
<1>4. ASSUME PrintCan(a),
             vars' = <<driverVars, <<[pipe EXCEPT ![a] = @ + 1], [printed EXCEPT ![a] = @ + 1],
                                     refusals>>, st, binds, authVars, combVars>>
      PROVE  PrintLine(a)
  BY <1>4 DEF PrintCan, PrintLine, pipeVars
<1>5. ASSUME FinishCan(a), GoesTo(a, "ok", authVars, combVars)
      PROVE  Finish(a)
  BY <1>5 DEF FinishCan, Finish
<1> QED BY <1>1, <1>2, <1>3, <1>4, <1>5

\* What a participant has to do can be done.
LEMMA StepsOfParticipants ==
  ASSUME NEW p \in Participants
  PROVE  /\ JoinCan(p) /\ GoesTo(p, "joined", authVars, <<joined \cup {p}, issued, handed, opened>>)
            => ParticipantStep(p)
         /\ HandInCan(p) /\ GoesTo(p, "handed", authVars,
                                   <<joined, issued, handed \cup {p}, opened>>)
            => ParticipantStep(p)
         /\ VerifyCan(p) /\ vars' = <<driverVars, pipeVars, st, binds, authVars,
                                      <<joined, issued, handed, opened \cup {p}>>>>
            => ParticipantStep(p)
         /\ FailCan(p) /\ GoesTo(p, "failed", authVars, combVars) => ParticipantStep(p)
<1> USE DEF vars, combVars, GoesTo, Become, ParticipantStep
<1>1. ASSUME JoinCan(p), GoesTo(p, "joined", authVars, <<joined \cup {p}, issued, handed, opened>>)
      PROVE  Join(p)
  BY <1>1 DEF JoinCan, Join
<1>2. ASSUME HandInCan(p),
             GoesTo(p, "handed", authVars, <<joined, issued, handed \cup {p}, opened>>)
      PROVE  HandIn(p)
  BY <1>2 DEF HandInCan, HandIn
<1>3. ASSUME VerifyCan(p), vars' = <<driverVars, pipeVars, st, binds, authVars,
                                     <<joined, issued, handed, opened \cup {p}>>>>
      PROVE  Verify(p)
  BY <1>3 DEF VerifyCan, Verify
<1>4. ASSUME FailCan(p), GoesTo(p, "failed", authVars, combVars)
      PROVE  ParticipantFails(p)
  BY <1>4, ServerFacts DEF FailCan, ParticipantFails, Participants
<1> QED BY <1>1, <1>2, <1>3, <1>4

\* Where nobody can go on everybody has been spawned, the driver waits for an
\* actor that is there and whose pipe it has emptied, who is not waited for has
\* room in its pipe, and so everybody has printed all but its last line.
LEMMA Quiet ==
  ASSUME IInv, ~SomebodyCan, ~Returned
  PROVE  /\ Awaited \in Actors /\ ~Ended(Awaited)
         /\ \A p \in Processes : st[p] # "unborn"
         /\ Ended(combiner) \/ Awaited = combiner
         /\ \A p \in Participants : st[p] = "keyed" /\ ~Ended(combiner) => HasRoom(p)
         /\ \A a \in Actors : (a = Awaited \/ a \in Participants)
                              /\ st[a] \in Taking \cup {"listening", "running"}
                              => ~Done(a) /\ printed[a] = Lines[a.role] - 1
<1>1. ~SpawnCan /\ ~ReadCan /\ ~WaitCan /\ \A a \in Actors : ~PrintCan(a) /\ ~FinishCan(a)
  BY DEF SomebodyCan
<1>2. spawned = Len(SpawnOrder)
  <2>1. ~AtListener(authority)
    BY ServerFacts DEF SomebodyCan
  <2>2. st[authority] # "starting"
    BY <2>1 DEF AtListener
  <2> QED BY <1>1, <2>2, SpawnOrderFacts, ScenarioAssumption DEF SpawnCan, IInv, Shape
<1>3. \A p \in Processes : st[p] # "unborn"
  <2> TAKE p \in Processes
  <2>1. PICK i \in 1 .. Len(SpawnOrder) : SpawnOrder[i] = p
    BY SpawnedOnce
  <2>2. ~(i > spawned)
    BY <1>2, SpawnOrderFacts, ScenarioAssumption
  <2> QED BY <2>1, <2>2 DEF IInv, Places, Born
<1>4. Waiting /\ waited \in Nat
  BY <1>2, WaitOrderFacts, ScenarioAssumption DEF Waiting, Returned, IInv, Shape
<1>5. Awaited \in Processes
  <2>1. waited + 1 \in 1 .. Len(WaitOrder)
    BY <1>4, WaitOrderFacts, ScenarioAssumption DEF Waiting
  <2> QED BY <2>1, WaitOrderFacts DEF Awaited
<1>6. Awaited \in Actors
  BY <1>1, <1>4, <1>5, ProcessFacts DEF WaitCan
<1>7. /\ \A a \in Actors : /\ printed[a] \in Nat /\ pipe[a] \in Nat /\ Lines[a.role] \in Nat
                           /\ printed[a] <= Lines[a.role]
      /\ PipeLines \in Nat \ {0} /\ Attempts \in Nat
  BY LinesFacts DEF IInv, Shape, Pipes
<1>8. pipe[Awaited] = 0
  BY <1>1, <1>4, <1>6, <1>7 DEF ReadCan
<1>9. ~Ended(Awaited)
  BY <1>1, <1>4, <1>6, <1>8 DEF WaitCan
<1>10. Ended(combiner) \/ Awaited = combiner
  <2>1. CASE waited = 0
    BY <2>1, WaitOrderFacts DEF Awaited
  <2>2. CASE waited # 0
    <3>1. 1 \in 1 .. waited
      BY <1>4, <2>2
    <3> QED BY <3>1, WaitOrderFacts DEF IInv, Collected
  <2> QED BY <2>1, <2>2
<1>11. ASSUME NEW p \in Participants, printed[p] < Lines[p.role],
              st[p] \in Taking \/ (st[p] = "keyed" /\ ~Ended(combiner))
       PROVE  HasRoom(p)
  <2>1. p \in Actors
    BY ProcessFacts
  <2>2. CASE p \in Signers
    <3>1. p.role = "Signer"
      BY <2>2 DEF Signers, signer_handles, Process
    <3>2. pipe[p] <= printed[p] + refusals[p] /\ refusals[p] <= Attempts /\ refusals[p] \in Nat
      BY <1>11, <2>2 DEF IInv, Shape, Pipes, Taking, EndStates
    <3>3. Lines["Signer"] + Attempts <= PipeLines
      BY ScenarioAssumption
    <3> QED BY <1>7, <1>11, <2>1, <3>1, <3>2, <3>3 DEF HasRoom
  <2>3. CASE p \in Tracers
    <3>1. p.role = "Tracer"
      BY <2>3 DEF Tracers, tracer_handles, Process
    <3>2. pipe[p] <= printed[p]
      BY <2>3 DEF IInv, Pipes
    <3>3. Lines["Tracer"] <= PipeLines
      BY ScenarioAssumption
    <3> QED BY <1>7, <1>11, <2>1, <3>1, <3>2, <3>3 DEF HasRoom
  <2> QED BY <2>2, <2>3 DEF Participants
<1>12. ASSUME NEW p \in Participants, st[p] = "keyed", ~Ended(combiner)
       PROVE  HasRoom(p)
  <2>1. p \in Actors /\ ~Done(p) /\ ~Ended(p)
    BY <1>12, ProcessFacts DEF Done, Ended, EndStates
  <2>2. printed[p] < Lines[p.role]
    BY <2>1 DEF IInv, LastLine
  <2> QED BY <1>11, <1>12, <2>2
<1>13. ASSUME NEW a \in Actors, a = Awaited \/ a \in Participants,
              st[a] \in Taking \cup {"listening", "running"}
       PROVE  ~Done(a) /\ printed[a] = Lines[a.role] - 1
  <2>1. printed[a] < Lines[a.role] => HasRoom(a)
    <3>1. CASE a = Awaited
      BY <1>7, <1>8, <3>1 DEF HasRoom
    <3>2. CASE a \in Participants
      <4>1. st[a] \in Taking
        BY <1>13, <3>2 DEF IInv, Places, Kinds, Early, Taking, EndStates
      <4> QED BY <1>11, <3>2, <4>1
    <3> QED BY <1>13, <3>1, <3>2
  <2>2. st[a] \in {"keyed", "joined", "dialing", "meshed", "handed", "listening", "running"}
        /\ ~Ended(a)
    BY <1>13 DEF Taking, Ended, EndStates
  <2>3. ~Done(a)
    BY <1>1, <1>7, <2>1, <2>2 DEF PrintCan, FinishCan
  <2>4. printed[a] < Lines[a.role]
    BY <2>2, <2>3 DEF IInv, LastLine
  <2>5. ~(printed[a] < Lines[a.role] - 1)
    BY <1>1, <2>1, <2>2, <2>3, <2>4 DEF PrintCan
  <2> QED BY <1>7, <2>3, <2>4, <2>5
<1> QED BY <1>3, <1>6, <1>9, <1>10, <1>12, <1>13

\* Whoever dies, fails to bind or rejects a package, somebody can go on until
\* the driver returns, unless one of the waits of Stuck has come about.  In
\* particular no full pipe stops a run: not that of the Combiner, which the
\* driver reads first, however much it prints, nor that of a participant, which
\* it reads later, although a signer prints a line for every refused dial.
THEOREM NobodyStuckTheorem == Spec => []NobodyStuck
<1>1. ASSUME IInv, ~SomebodyCan, ~Returned, ~Stuck
      PROVE  FALSE
  <2> DEFINE w == Awaited
  <2>1. /\ w \in Actors /\ ~Ended(w)
        /\ \A p \in Processes : st[p] # "unborn"
        /\ Ended(combiner) \/ w = combiner
        /\ \A p \in Participants : st[p] = "keyed" /\ ~Ended(combiner) => HasRoom(p)
        /\ \A a \in Actors : (a = w \/ a \in Participants)
                             /\ st[a] \in Taking \cup {"listening", "running"}
                             => ~Done(a) /\ printed[a] = Lines[a.role] - 1
    BY <1>1, Quiet
  <2> HIDE DEF w
  <2>2. /\ ~SendCan /\ ~CompleteCan /\ ~StartCan /\ ~IssueCan /\ ~LinkEnds /\ ~MeshCan
        /\ \A p \in Servers : ~AtListener(p)
        /\ \A a \in Actors : st[a] # "starting" /\ ~ReceiveCan(a)
        /\ \A p \in Participants : ~JoinCan(p) /\ ~HandInCan(p) /\ ~VerifyCan(p) /\ ~FailCan(p)
    BY <1>1 DEF SomebodyCan
  <2>3. Kinds /\ Enrolled /\ Listed /\ Ordered /\ OneMesh
    BY <1>1 DEF IInv, Places
  <2>4. Ended(authority)
    <3> SUFFICES ASSUME ~Ended(authority) PROVE FALSE
      OBVIOUS
    <3>1. st[authority] = "listening"
      BY <2>1, <2>2, <2>3, ProcessFacts, ServerFacts DEF Kinds, AtListener, Ended
    <3>2. sent \in 0 .. Len(PackageOrder) /\ Len(PackageOrder) \in Nat
      BY <1>1, PackageOrderFacts DEF IInv, Shape
    <3>3. enrolled # Actors /\ enrolled \subseteq Actors
      BY <1>1, <2>2, <3>1, <3>2 DEF SendCan, CompleteCan, IInv, Shape
    <3>4. PICK a \in Actors : a \notin enrolled
      BY <3>3
    <3>5. Ended(a)
      BY <2>1, <2>2, <2>3, <3>4, ProcessFacts DEF Enrolled, Ended
    <3> QED BY <1>1, <3>1, <3>4, <3>5 DEF Stuck
  <2>5. \A a \in Actors : st[a] \notin {"unborn", "starting", "registered"}
    BY <2>1, <2>2, <2>4, ProcessFacts DEF ReceiveCan
  <2>6. st[combiner] \in {"listening", "running"} \/ Ended(combiner)
    <3>1. st[combiner] # "keyed"
      BY <2>2, ServerFacts, ProcessFacts DEF AtListener
    <3> QED BY <2>3, <2>5, <3>1, ProcessFacts DEF Kinds, Early, Ended
  <2>7. ASSUME NEW p \in Participants, st[p] = "keyed" PROVE FALSE
    <3>1. p \notin joined
      BY <2>3, <2>7 DEF Listed, Taking, EndStates
    <3>2. CASE st[combiner] = "listening"
      BY <2>1, <2>2, <2>7, <3>2 DEF JoinCan, Ended, EndStates
    <3>3. CASE st[combiner] = "running"
      BY <2>3, <3>1, <3>3 DEF Ordered
    <3> QED BY <1>1, <2>6, <2>7, <3>2, <3>3 DEF Stuck
  <2>8. \A p \in Participants : st[p] \in Taking \/ Ended(p)
    BY <2>3, <2>5, <2>7, ProcessFacts DEF Kinds, Early, Ended
  <2>9. \A t \in Tracers : t \in Participants /\ t \in Actors /\ t \notin Signers
    BY ProcessFacts, ServerFacts
  <2>10. ASSUME NEW t \in Tracers, st[t] \in {"joined", "dialing"} PROVE FALSE
    <3>1. \A u \in Tracers : ~Ended(u)
      BY <1>1, <2>10 DEF Stuck
    <3>2. \A u \in Tracers : st[u] \in {"joined", "dialing"}
      BY <2>3, <2>8, <2>9, <2>10, <3>1 DEF OneMesh, Taking, Ended
    <3>3. \A u \in Tracers : Binds(u) => st[u] = "dialing"
      BY <2>2, <3>2, ServerFacts, ProcessFacts DEF AtListener
    <3>4. \A u \in Tracers : ~Binds(u) => st[u] = "joined"
      BY <2>3, <2>9, <3>2 DEF Kinds
    <3> QED BY <2>2, <3>3, <3>4 DEF MeshCan
  <2>11. \A t \in Tracers : st[t] = "handed" \/ Ended(t)
    BY <2>1, <2>2, <2>8, <2>9, <2>10 DEF Taking, HandInCan
  <2>12. \A p \in Signers : st[p] = "joined" \/ Ended(p)
    BY <2>1, <2>3, <2>8, ProcessFacts DEF Taking, Kinds, Done
  <2>13. CASE st[combiner] = "listening"
    <3>1. printed[combiner] = Lines["Combiner"] - 1
      BY <2>1, <2>13, ProcessFacts DEF Ended, EndStates, combiner, Process
    <3>2. PICK p \in Participants : p \notin joined
      BY <1>1, <2>2, <2>13, <3>1 DEF StartCan, IInv, Shape
    <3>3. Ended(p)
      BY <2>3, <2>8, <3>2 DEF Listed
    <3> QED BY <1>1, <2>13, <3>2, <3>3 DEF Stuck
  <2>14. CASE st[combiner] = "running"
    <3>1. w = combiner /\ ~Done(combiner)
      BY <2>1, <2>14, ProcessFacts DEF Ended, EndStates
    <3>2. issued \in {0, 1}
      BY <1>1, <2>14, <3>1 DEF Done, IInv, Shape
    <3>3. CASE issued = 0
      <4>1. PICK t \in Tracers : t \notin handed
        BY <2>2, <2>14, <3>3 DEF IssueCan
      <4>2. \E i \in 1 .. Len(tracer_handles) : tracer_handles[i] \notin handed
        BY <4>1, Handles
      <4>3. PICK i \in 1 .. Len(tracer_handles) :
              tracer_handles[i] \notin handed /\ \A j \in 1 .. i - 1 : tracer_handles[j] \in handed
        BY <4>2, FirstMissing, Handles, ScenarioAssumption
      <4>4. tracer_handles[i] \in Tracers
        BY Handles DEF Tracers
      <4>5. Ended(tracer_handles[i])
        BY <2>3, <2>9, <2>11, <4>3, <4>4 DEF Listed
      <4> QED BY <2>2, <2>14, <3>3, <4>3, <4>5 DEF LinkEnds, FoundClosed
    <3>4. CASE issued = 1
      <4>1. Tracers \subseteq handed /\ handed \subseteq Participants
        BY <1>1, <2>3, <3>4 DEF Ordered, IInv, Shape
      <4>2. PICK p \in Signers : p \notin handed
        BY <2>2, <2>14, <3>4, <4>1 DEF IssueCan, Participants
      <4>3. \E i \in 1 .. Len(signer_handles) : signer_handles[i] \notin handed
        BY <4>2, Handles
      <4>4. PICK i \in 1 .. Len(signer_handles) :
              signer_handles[i] \notin handed /\ \A j \in 1 .. i - 1 : signer_handles[j] \in handed
        BY <4>3, FirstMissing, Handles, ScenarioAssumption
      <4>5. signer_handles[i] \in Signers
        BY Handles DEF Signers
      <4>6. ~Ended(signer_handles[i])
        BY <2>2, <2>14, <3>4, <4>4 DEF LinkEnds, FoundClosed
      <4>7. PICK q \in Signers : q = signer_handles[i] /\ st[q] = "joined"
        BY <2>12, <4>5, <4>6
      <4>8. printed[q] = Lines[q.role] - 1 /\ q \in Participants
        BY <2>1, <4>7, ProcessFacts DEF Taking
      <4> QED BY <2>2, <3>4, <4>7, <4>8 DEF HandInCan
    <3> QED BY <3>2, <3>3, <3>4
  <2>15. CASE Ended(combiner)
    <3>1. w \in Participants
      BY <2>1, <2>15 DEF Actors
    <3>2. Broken(combiner) \/ (issued = 2 /\ handed = Participants)
      BY <2>3, <2>15 DEF Broken, Ordered
    <3>3. CASE w \in Signers
      <4>1. st[w] = "joined" /\ w \notin Tracers
        BY <2>1, <2>12, <3>3, ServerFacts
      <4>2. w \notin handed /\ w \notin opened
        BY <1>1, <2>3, <3>1, <4>1 DEF Listed, EndStates, IInv, Shape
      <4> QED BY <2>2, <3>1, <3>2, <3>3, <4>1, <4>2 DEF FailCan
    <3>4. CASE w \in Tracers
      <4>1. st[w] = "handed" /\ ~Done(w)
        BY <2>1, <2>9, <2>11, <3>4 DEF Taking
      <4>2. opened # Tracers /\ opened \subseteq Tracers
        BY <1>1, <3>4, <4>1 DEF Done, IInv, Shape
      <4>3. PICK t \in Tracers : t \notin opened
        BY <4>2
      <4>4. CASE st[t] = "handed"
        BY <2>2, <2>9, <3>2, <4>3, <4>4 DEF FailCan, VerifyCan
      <4>5. CASE Ended(t)
        <5>1. Broken(t)
          BY <2>3, <4>2, <4>5 DEF Broken, Ordered
        <5>2. CASE w \in opened
          BY <2>2, <3>1, <3>4, <4>1, <5>1, <5>2 DEF FailCan
        <5>3. CASE w \notin opened
          BY <2>2, <2>9, <3>1, <3>2, <3>4, <4>1, <5>3 DEF FailCan, VerifyCan
        <5> QED BY <5>2, <5>3
      <4> QED BY <2>11, <4>4, <4>5
    <3> QED BY <3>1, <3>3, <3>4 DEF Participants
  <2> QED BY <2>6, <2>13, <2>14, <2>15
<1>2. IInv => NobodyStuck
  BY <1>1 DEF NobodyStuck
<1> QED BY <1>2, Inductive, PTL
=============================================================================

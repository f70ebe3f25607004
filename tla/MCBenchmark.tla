---------------------------- MODULE MCBenchmark -----------------------------
(***************************************************************************)
(* Instances of Benchmark: command lines of each shape, valid or not; of a *)
(* run, two successful outcomes that differ in their timings and in what   *)
(* is printed first, one with lines that are no records, and a failed one  *)
(* with part of the records.  In the default suite the outcome is open in  *)
(* the first scenarios only.                                               *)
(***************************************************************************)
EXTENDS Benchmark

CommandLines == {<<>>, <<2, 1>>, <<2, 1, 3>>, <<2>>, <<0, 1>>, <<2, 1, 0>>}

Prints(role, id, lines) == [actor |-> [role |-> role, id |-> id], stdout |-> lines]
Bench(phase, micros) == <<"BENCH", phase, micros>>

Good1 == [ok |-> TRUE, outputs |->
  <<Prints("Combiner", 0, <<<<"[Combiner]">>, Bench("Setup", 7), Bench("Proof", 9)>>),
    Prints("Signer", 0, <<Bench("Setup", 2)>>),
    Prints("Signer", 1, <<Bench("Setup", 5), <<"BENCH", "Sigma">>>>),
    Prints("Tracer", 0, <<Bench("TracerDkg", 4)>>)>>]
Good2 == [ok |-> TRUE, outputs |->
  <<Prints("Combiner", 0, <<Bench("Proof", 8), Bench("Setup", 1), Bench("Trace", -1)>>),
    Prints("Signer", 0, <<Bench("Sigma", 6)>>)>>]
Bad == [ok |-> FALSE, outputs |->
  <<Prints("Combiner", 0, <<Bench("Setup", 3)>>), Prints("Signer", 1, <<>>),
    Prints("Tracer", 0, <<Bench("Sigma", 5)>>)>>]

RunOutcomes(n, n3) ==
  CASE n = 2 -> {Good1, Good2, Bad}
    [] n = 10 -> {Good2, Bad}
    [] n = 25 /\ n3 = 1 -> {Good1, Good2}
    [] OTHER -> {Good2}

Leftovers == <<[n |-> 0]>>
=============================================================================

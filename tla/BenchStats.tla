----------------------------- MODULE BenchStats -----------------------------
(***************************************************************************)
(* The statistics of the benchmark (src/bench_stats.rs): the records found *)
(* in what an actor printed, the Summarizer that pools them over runs and  *)
(* actors, and the rows of the summary.                                    *)
(*                                                                         *)
(* A line of stdout is the sequence of its parts between commas, three at  *)
(* most; a third part that is no number is -1.  Means and deviations are   *)
(* kept exact: a row holds the sum of its samples, and count^2 times the   *)
(* sum of their squared deviations.                                        *)
(***************************************************************************)
EXTENDS Integers, Sequences, FiniteSets, SequencesExt

\* Role's derived order.
RoleRank == [Signer |-> 1, Combiner |-> 2, Tracer |-> 3]

\* parse_bench_line yields a record.
IsBenchLine(line) == Len(line) = 3 /\ line[1] = "BENCH" /\ line[3] # -1

\* filter_map: the lines that are no records leave nothing.
collect_records(actor, stdout) ==
  FlattenSeq([i \in DOMAIN stdout |->
    IF IsBenchLine(stdout[i])
      THEN <<[actor |-> actor, phase |-> stdout[i][2], micros |-> stdout[i][3]]>>
      ELSE <<>>])

\* The map f with v under k.
Put(f, k, v) == [x \in DOMAIN f \cup {k} |-> IF x = k THEN v ELSE f[x]]

EmptySummarizer == [order |-> <<>>, samples |-> <<>>, runs |-> <<>>]

\* Mutant: a key is noted every time it is seen.
add_recordAgain(summarizer, key, micros) ==
  [summarizer EXCEPT
     !.order = Append(@, key),
     !.samples = Put(@, key, Append(IF key \in DOMAIN @ THEN @[key] ELSE <<>>, micros))]

\* One record: its key is noted when it is first seen.
add_record(summarizer, key, micros) ==
  IF key \in DOMAIN summarizer.samples
    THEN [summarizer EXCEPT !.samples[key] = Append(@, micros)]
    ELSE [summarizer EXCEPT !.order = Append(@, key),
                            !.samples = Put(@, key, <<micros>>)]

\* Summarizer::add_run.
add_run(summarizer, n, n3, records) ==
  LET scenario == <<n, n3>>
      counted == [summarizer EXCEPT !.runs =
        Put(@, scenario, 1 + IF scenario \in DOMAIN @ THEN @[scenario] ELSE 0)]
      add(s, r) ==
        add_record(s, [n |-> n, n3 |-> n3, role |-> r.actor.role, operation |-> r.phase],
                   r.micros)
  IN  FoldLeft(add, counted, records)

\* The sort key (n, n_3, role) of k is less than that of l.
KeyLess(k, l) ==
  \/ k.n < l.n
  \/ k.n = l.n /\ k.n3 < l.n3
  \/ k.n = l.n /\ k.n3 = l.n3 /\ RoleRank[k.role] < RoleRank[l.role]

Total(values) == FoldLeft(LAMBDA a, v : a + v, 0, values)

\* One OperationSummary.
Row(summarizer, key) ==
  LET values == summarizer.samples[key]
      count == Len(values)
      total == Total(values)
      deviations == [i \in DOMAIN values |->
                        (count * values[i] - total) * (count * values[i] - total)]
  IN  [key |-> key,
       runs |-> summarizer.runs[<<key.n, key.n3>>],
       samples |-> count, total |-> total, squares |-> Total(deviations),
       min |-> Min(ToSet(values)), max |-> Max(ToSet(values))]

\* Summarizer::summaries: the keys as a stable sort leaves them.
SortedKeys(order) ==
  LET place == [j \in DOMAIN order |->
        Cardinality({i \in DOMAIN order : \/ KeyLess(order[i], order[j])
                                          \/ i <= j /\ ~KeyLess(order[j], order[i])})]
  IN  [k \in DOMAIN order |-> order[CHOOSE j \in DOMAIN order : place[j] = k]]

summaries(summarizer) ==
  LET keys == SortedKeys(summarizer.order)
  IN  [i \in DOMAIN keys |-> Row(summarizer, keys[i])]
=============================================================================

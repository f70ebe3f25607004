----------------------------- MODULE Benchmark ------------------------------
(***************************************************************************)
(* A benchmark series (main of src/bin/benchmark.rs): the arguments        *)
(* (src/bench_config.rs), the loop over scenarios and repeats, the raw     *)
(* files with a row per record, the summary that is truncated and written  *)
(* again after every successful run, the exit code.  The series may be     *)
(* interrupted at any moment; what is in the files stays.                  *)
(*                                                                         *)
(* A run is module Scenario, here reduced to its outcome: whether everyone *)
(* succeeded, and what each actor printed.  An argument is the number it   *)
(* parses to, 0 if it does not.                                            *)
(***************************************************************************)
EXTENDS Integers, Sequences, BenchStats

CONSTANTS Args,              \* the command lines the series may be started with
          Outcomes(_, _),    \* Outcomes(n, n3): how a run may end
          OldRows            \* what an earlier series left in the files

VARIABLES pc, scenarios,
          index, run,        \* the scenario and the run the loop is at
          ok, records,       \* what run_scenario returned
          written,           \* how many of the records are in the raw files
          raw,               \* the raw files, one per role
          summarizer,
          rows,              \* summary rows yet to write
          summary,           \* the summary file
          failures, exit,
          done               \* history: the runs completed and in the raw files

configVars == <<scenarios, index, run>>
runVars == <<ok, records, written>>
fileVars == <<raw, summary>>
vars == <<pc, configVars, runVars, fileVars, summarizer, rows, failures, exit, done>>

Scenarios == [n : Nat, n3 : Nat, repeats : Nat]

default_scenarios ==
  LET sizes == <<<<10, 1>>, <<10, 5>>, <<25, 1>>, <<25, 5>>,
                 <<50, 1>>, <<50, 5>>, <<100, 1>>, <<100, 5>>>>
  IN  [i \in DOMAIN sizes |-> [n |-> sizes[i][1], n3 |-> sizes[i][2], repeats |-> 1]]

ValidArgs(args) == Len(args) \in {0, 2, 3} /\ \A i \in DOMAIN args : args[i] >= 1

parse_args(args) ==
  IF args = <<>> THEN default_scenarios
  ELSE <<[n |-> args[1], n3 |-> args[2], repeats |-> IF Len(args) = 3 THEN args[3] ELSE 1]>>

\* The outputs are sequences of lines, every actor has a role, and a third part
\* that is a number is a u128.
IsSequence(s) == s \in Seq(ToSet(s))

ASSUME BenchmarkAssumption ==
  /\ Args \subseteq Seq(Nat)
  /\ \A args \in Args : ValidArgs(args) =>
       \A s \in DOMAIN parse_args(args) :
         \A outcome \in Outcomes(parse_args(args)[s].n, parse_args(args)[s].n3) :
           /\ outcome.ok \in BOOLEAN
           /\ IsSequence(outcome.outputs)
           /\ \A i \in DOMAIN outcome.outputs :
                /\ outcome.outputs[i].actor.role \in DOMAIN RoleRank
                /\ IsSequence(outcome.outputs[i].stdout)
                /\ \A line \in ToSet(outcome.outputs[i].stdout) :
                     IsBenchLine(line) => line[3] \in Nat

Current == scenarios[index]

\* The row write_raw writes for a record.
RawRow(n, n3, number, r) ==
  [n |-> n, n3 |-> n3, run |-> number, id |-> r.actor.id, phase |-> r.phase,
   micros |-> r.micros]

\* Some files of the series are yet to be created.
Creating == {"create", "create_combiner", "create_tracer", "create_summary"}

TypeOK ==
  /\ pc \in Creating \cup {"args", "build", "run", "write_raw", "add_run",
                           "write_summary", "exited", "panicked", "interrupted"}
  /\ index \in 1 .. Len(scenarios) + 1
  /\ \A i \in DOMAIN scenarios : scenarios[i] \in Scenarios
  /\ run \in 1 .. IF index \in DOMAIN scenarios THEN Current.repeats ELSE 1
  /\ ok \in BOOLEAN /\ written \in 0 .. Len(records)
  /\ failures \in 0 .. Len(done) /\ exit \in {-1, 0, 1, 2}
  /\ DOMAIN raw = DOMAIN RoleRank

Init ==
  /\ pc = "args" /\ scenarios = <<>>
  /\ index = 1 /\ run = 1
  /\ ok = TRUE /\ records = <<>> /\ written = 0
  /\ raw = [role \in DOMAIN RoleRank |-> OldRows]
  /\ summarizer = EmptySummarizer
  /\ rows = <<>> /\ summary = OldRows
  /\ failures = 0 /\ exit = -1 /\ done = <<>>

-----------------------------------------------------------------------------

ParseArgs ==
  /\ pc = "args"
  /\ \E args \in Args :
       IF ValidArgs(args) THEN /\ scenarios' = parse_args(args)
                               /\ pc' = "create" /\ UNCHANGED exit
                          ELSE /\ pc' = "exited" /\ exit' = 2
                               /\ UNCHANGED scenarios
  /\ UNCHANGED <<index, run, runVars, fileVars, summarizer, rows, failures, done>>

\* create_csv truncates a raw file; a header is no row.
CreateRaw(role, from, to) ==
  /\ pc = from /\ pc' = to
  /\ raw' = [raw EXCEPT ![role] = <<>>]
  /\ UNCHANGED <<configVars, runVars, summary, summarizer, rows, failures, exit, done>>

CreateRawFiles ==
  \/ CreateRaw("Signer", "create", "create_combiner")
  \/ CreateRaw("Combiner", "create_combiner", "create_tracer")
  \/ CreateRaw("Tracer", "create_tracer", "create_summary")

\* write_summary of nothing.
CreateSummary ==
  /\ pc = "create_summary" /\ pc' = "build"
  /\ summary' = <<>>
  /\ UNCHANGED <<configVars, runVars, raw, summarizer, rows, failures, exit, done>>

\* cargo build, which must succeed.
Build ==
  /\ pc = "build" /\ pc' \in {"run", "panicked"}
  /\ UNCHANGED <<configVars, runVars, fileVars, summarizer, rows, failures, exit, done>>

\* run_scenario returns; the outputs are those of the processes it waited
\* for, one after the other.
RunScenario ==
  /\ pc = "run" /\ index <= Len(scenarios)
  /\ \E outcome \in Outcomes(Current.n, Current.n3) :
       /\ ok' = outcome.ok
       /\ records' = FlattenSeq([i \in DOMAIN outcome.outputs |->
            collect_records(outcome.outputs[i].actor, outcome.outputs[i].stdout)])
  /\ written' = 0
  /\ pc' = "write_raw"
  /\ UNCHANGED <<configVars, fileVars, summarizer, rows, failures, exit, done>>

\* Mutant: a failed run leaves no rows.
WriteRawSuccessOnly ==
  /\ pc = "write_raw" /\ written < Len(records)
  /\ LET r == records[written + 1]
     IN  raw' = IF ok THEN [raw EXCEPT ![r.actor.role] =
                              Append(@, RawRow(Current.n, Current.n3, run, r))]
                      ELSE raw
  /\ written' = written + 1
  /\ UNCHANGED <<pc, configVars, ok, records, summary, summarizer, rows, failures, exit, done>>

\* write_raw, a row at a time: the pieces in which writeln! hands a row to the
\* file are one step here, so no row is torn.
WriteRaw ==
  /\ pc = "write_raw" /\ written < Len(records)
  /\ LET r == records[written + 1]
     IN  raw' = [raw EXCEPT ![r.actor.role] =
                   Append(@, RawRow(Current.n, Current.n3, run, r))]
  /\ written' = written + 1
  /\ UNCHANGED <<pc, configVars, ok, records, summary, summarizer, rows, failures, exit, done>>

\* Mutant: one run too many.
NextRunInclusive ==
  /\ pc' = "run"
  /\ IF run <= Current.repeats THEN run' = run + 1 /\ UNCHANGED index
                               ELSE run' = 1 /\ index' = index + 1

\* The end of the loop's body.
NextRun ==
  /\ pc' = "run"
  /\ IF run < Current.repeats THEN run' = run + 1 /\ UNCHANGED index
                              ELSE run' = 1 /\ index' = index + 1

RunRecorded ==
  /\ pc = "write_raw" /\ written = Len(records)
  /\ done' = Append(done, [n |-> Current.n, n3 |-> Current.n3, run |-> run,
                           ok |-> ok, records |-> records])

\* A failed run stays in the raw files and counts as a failure.
RunFailed ==
  /\ RunRecorded /\ ~ok
  /\ failures' = failures + 1
  /\ NextRun
  /\ UNCHANGED <<scenarios, runVars, fileVars, summarizer, rows, exit>>

RunSucceeded ==
  /\ RunRecorded /\ ok
  /\ pc' = "add_run"
  /\ UNCHANGED <<configVars, runVars, fileVars, summarizer, rows, failures, exit>>

\* add_run; then write_summary truncates the file ...
AddRun ==
  /\ pc = "add_run"
  /\ summarizer' = add_run(summarizer, Current.n, Current.n3, records)
  /\ rows' = summaries(summarizer')
  /\ summary' = <<>>
  /\ pc' = "write_summary"
  /\ UNCHANGED <<configVars, runVars, raw, failures, exit, done>>

\* ... and writes it again, a row at a time.
WriteSummary ==
  /\ pc = "write_summary" /\ rows # <<>>
  /\ summary' = Append(summary, Head(rows))
  /\ rows' = Tail(rows)
  /\ UNCHANGED <<pc, configVars, runVars, raw, summarizer, failures, exit, done>>

SummaryWritten ==
  /\ pc = "write_summary" /\ rows = <<>>
  /\ NextRun
  /\ UNCHANGED <<scenarios, runVars, fileVars, summarizer, rows, failures, exit, done>>

\* Mutant: the last run decides.
ExitLast ==
  /\ pc = "run" /\ index > Len(scenarios)
  /\ exit' = IF ok THEN 0 ELSE 1
  /\ pc' = "exited"
  /\ UNCHANGED <<configVars, runVars, fileVars, summarizer, rows, failures, done>>

Exit ==
  /\ pc = "run" /\ index > Len(scenarios)
  /\ exit' = IF failures > 0 THEN 1 ELSE 0
  /\ pc' = "exited"
  /\ UNCHANGED <<configVars, runVars, fileVars, summarizer, rows, failures, done>>

Running == pc \notin {"exited", "panicked", "interrupted"}

Interrupt ==
  /\ Running /\ pc' = "interrupted"
  /\ UNCHANGED <<configVars, runVars, fileVars, summarizer, rows, failures, exit, done>>

Next ==
  \/ ParseArgs \/ CreateRawFiles \/ CreateSummary \/ Build
  \/ RunScenario \/ WriteRaw \/ RunFailed \/ RunSucceeded
  \/ AddRun \/ WriteSummary \/ SummaryWritten \/ Exit
  \/ Interrupt

Spec == Init /\ [][Next]_vars

-----------------------------------------------------------------------------
(* Properties *)

\* The files of this series have been created.
Created == pc \notin Creating \cup {"args"} /\ scenarios # <<>> /\ summary # OldRows

\* The rows of a role's raw file that come from the records of a run.
Records(role, d) ==
  FlattenSeq([i \in DOMAIN d.records |->
    IF d.records[i].actor.role = role THEN <<RawRow(d.n, d.n3, d.run, d.records[i])>>
                                      ELSE <<>>])

Kept(role) == FlattenSeq([i \in DOMAIN done |-> Records(role, done[i])])

\* README: "an interrupted series keeps the runs completed so far": the raw
\* files are the rows of the completed runs, failed ones included, in order,
\* and after them at most the first rows of the run that is being written.
RawKeepsCompletedRuns ==
  Created => \A role \in DOMAIN RoleRank :
    LET rest == SubSeq(raw[role], Len(Kept(role)) + 1, Len(raw[role]))
    IN  /\ IsPrefix(Kept(role), raw[role])
        /\ rest # <<>> => IsPrefix(rest, Records(role,
             [n |-> Current.n, n3 |-> Current.n3, run |-> run, records |-> records]))

\* What a summary of some runs pools for a role: their rows in its raw file.
Pooled(role, runs) ==
  FlattenSeq([i \in DOMAIN raw[role] |->
    LET row == raw[role][i]
        key == [n |-> row.n, n3 |-> row.n3, role |-> role, operation |-> row.phase]
    IN  IF <<row.n, row.n3, row.run>> \in runs THEN <<[key |-> key, micros |-> row.micros]>>
                                               ELSE <<>>])

Values(pool, key) ==
  FlattenSeq([i \in DOMAIN pool |-> IF pool[i].key = key THEN <<pool[i].micros>> ELSE <<>>])

\* The first sample of key comes before any of the other.
Sooner(pool, key, other) ==
  \E p \in DOMAIN pool : pool[p].key = key /\ \A q \in 1 .. p : pool[q].key # other

\* Rows go by scenario as in the suite, by role, by first appearance.
RowBefore(key, other, runs) ==
  \E s, t \in DOMAIN scenarios :
    /\ key.n = scenarios[s].n /\ key.n3 = scenarios[s].n3
    /\ other.n = scenarios[t].n /\ other.n3 = scenarios[t].n3
    /\ \/ s < t
       \/ s = t /\ RoleRank[key.role] < RoleRank[other.role]
       \/ s = t /\ key.role = other.role /\ Sooner(Pooled(key.role, runs), key, other)

\* The squared deviations are those of the pairwise differences.
ReferenceRow(key, runs) ==
  LET values == Values(Pooled(key.role, runs), key)
      gaps == [j \in DOMAIN values |-> Total([i \in 1 .. j - 1 |->
                  (values[j] - values[i]) * (values[j] - values[i])])]
  IN  [key |-> key,
       runs |-> Cardinality({r \in runs : r[1] = key.n /\ r[2] = key.n3}),
       samples |-> Len(values), total |-> Total(values),
       squares |-> Len(values) * Total(gaps),
       min |-> Min(ToSet(values)), max |-> Max(ToSet(values))]

\* The rows of a summary of some runs, said of the raw files alone.
IsSummary(table, runs) ==
  /\ \A i, j \in DOMAIN table : i < j => RowBefore(table[i].key, table[j].key, runs)
  /\ {table[i].key : i \in DOMAIN table} =
       UNION {{sample.key : sample \in ToSet(Pooled(role, runs))} : role \in DOMAIN RoleRank}
  /\ \A i \in DOMAIN table : table[i] = ReferenceRow(table[i].key, runs)

Successful(ds) == {<<ds[i].n, ds[i].n3, ds[i].run>> : i \in {i \in DOMAIN ds : ds[i].ok}}

\* What the summary file says is what the raw files say of the successful runs,
\* all of them, or all but the last while that one is being added: whenever
\* the file is not being written again, and for good if the series is then
\* interrupted.
SummaryFromRaw ==
  Created =>
    /\ rows # <<>> => pc \in {"write_summary", "interrupted"}
    /\ rows = <<>> =>
         \/ pc # "add_run" /\ IsSummary(summary, Successful(done))
         \/ /\ pc \in {"add_run", "interrupted"}
            /\ IsSummary(summary, Successful(SubSeq(done, 1, Len(done) - 1)))

\* README: "The summary is rewritten after every successful run, so it is also up
\* to date if a long series is interrupted": whenever it is interrupted the
\* file has the statistics of all successful runs, the one that was just
\* being added perhaps excepted.  It has not between create_csv's truncation
\* and the last row.
UpToDateIfInterrupted ==
  Created /\ pc = "interrupted" =>
    \/ IsSummary(summary, Successful(done))
    \/ IsSummary(summary, Successful(SubSeq(done, 1, Len(done) - 1)))

\* The exit code is 0 only if every run asked for was made, once, in order,
\* and succeeded, and the summary counts them all; 1 only if every one was
\* made and some failed.
ExitTellsFailures ==
  exit \in {0, 1} =>
    LET asked == FlattenSeq([s \in DOMAIN scenarios |->
          [r \in 1 .. scenarios[s].repeats |-> <<scenarios[s].n, scenarios[s].n3, r>>]])
    IN  /\ [i \in DOMAIN done |-> <<done[i].n, done[i].n3, done[i].run>>] = asked
        /\ exit = 0 <=> \A i \in DOMAIN done : done[i].ok
        /\ exit = 0 => \A i \in DOMAIN summary : \A s \in DOMAIN scenarios :
             summary[i].key.n = scenarios[s].n /\ summary[i].key.n3 = scenarios[s].n3
               => summary[i].runs = scenarios[s].repeats
=============================================================================

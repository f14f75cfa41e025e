------------------------------ MODULE ReseedLoop ------------------------------
(***************************************************************************)
(* PoC three's scripts/run_reseed_loop.sh and what the experiment matrix   *)
(* reports of it.  Every round fuzzes from the seeds of the round before,  *)
(* preselects, replays and scores, and selects the next seeds.  The        *)
(* results directory outlives the loop: after an interruption, a failed    *)
(* step (set -e) or a finished run, the loop may be started again on it.   *)
(* How traces come about is TraceScoring's business; here a replay gives   *)
(* any of a set of traces.                                                 *)
(***************************************************************************)
EXTENDS CorpusSelection

CONSTANTS
  Experiments,         \* [rounds, attempts, inputs, queue, traces, opts]: see Init
  InitialSeeds,        \* SEEDS before the first round
  NoCsv, NoSummary     \* no file

\* What a testcase's bytes can be: as many as four make a record.
Testcases == [records : Seq((0..255) \X (0..255)), tail : 0..3]

ASSUME ExperimentsAssumption ==
  /\ InitialSeeds \subseteq Testcases /\ IsFiniteSet(InitialSeeds)
  /\ NoCsv \notin Seq(Rows)
  /\ \A e \in Experiments :
       /\ e.rounds \in Nat \ {0}
       /\ e.inputs \subseteq Testcases /\ IsFiniteSet(e.inputs)
       /\ e.traces \subseteq Seq(Events)
       /\ e.opts.limit \in Nat /\ e.opts.top_k \in Nat

Targets == INSTANCE SystemctlTargets

VARIABLES
  experiment,          \* the parameters of the loop and the bounds of the model
  attempt, round, step,
  seeds,               \* the testcases of the directory SEEDS
  afl, preselected,    \* of this round: the queue, the preselection, in name order
  csv,                 \* queue-growth.csv of every round
  seeds_next,          \* seeds-next of every round
  fuzzed,              \* history: all testcases queued in a round, over all attempts
  summary              \* final and best round of the matrix' summary

disk == <<csv, seeds_next, fuzzed>>
vars == <<experiment, attempt, round, step, seeds, afl, preselected, disk, summary>>

RoundsOf(e) == 1..e.rounds

Init ==
  /\ experiment \in Experiments
  /\ attempt = 1 /\ round = 1 /\ step = "fuzz"
  /\ seeds = InitialSeeds /\ afl = <<>> /\ preselected = <<>>
  /\ csv = [r \in RoundsOf(experiment) |-> NoCsv]
  /\ seeds_next = [r \in RoundsOf(experiment) |-> {}]
  /\ fuzzed = [r \in RoundsOf(experiment) |-> {}]
  /\ summary = NoSummary

\* A fuzzing campaign: AFL++ imports the seeds and adds what it finds; queue
\* names are given in some order.
Fuzz ==
  /\ step = "fuzz" /\ seeds # {}
  /\ \E found \in SUBSET experiment.inputs :
       /\ Cardinality(seeds \union found) <= experiment.queue \/ found = {}
       /\ afl' \in { SetToSeq(seeds \union found), Reverse(SetToSeq(seeds \union found)) }
       /\ fuzzed' = [fuzzed EXCEPT ![round] = @ \union seeds \union found]
  /\ step' = "preselect"
  /\ UNCHANGED <<experiment, attempt, round, seeds, preselected, csv, seeds_next, summary>>

\* afl-fuzz gives up, for want of seeds or because of an old output directory.
\* machinectl shell need not pass the status on: the loop ends, or it goes on
\* with an empty queue or with that of an earlier attempt.
FuzzFails ==
  /\ step = "fuzz"
  /\ \/ step' = "stopped" /\ UNCHANGED afl
     \/ step' = "preselect" /\ afl' \in {<<>>, SetToSeq(fuzzed[round])}
  /\ UNCHANGED <<experiment, attempt, round, seeds, preselected, disk, summary>>

Preselect ==
  /\ step = "preselect" /\ step' = "analyze"
  /\ preselected' = preselect(afl, experiment.opts)
  /\ UNCHANGED <<experiment, attempt, round, seeds, afl, disk, summary>>

\* What the replays before the i-th have shown.
seen_before(traces, i) ==
  LET earlier == { summarize(traces[j]) : j \in 1..(i - 1) }
  IN [ events |-> UNION { s.events : s \in earlier },
       pairs |-> UNION { s.event_pairs : s \in earlier },
       subsystems |-> [ k \in Subsystems |->
                          UNION { s.subsystem_functions[k] : s \in earlier } ] ]

\* The rows of analyze_queue.py for the traces of the replays.
rows_of(traces) ==
  [ i \in DOMAIN traces |-> row(summarize(traces[i]), seen_before(traces, i)) ]

\* The replays; the old CSV stays when the analysis dies.
Analyze ==
  /\ step = "analyze"
  /\ \/ /\ step' = "select"
        /\ \E traces \in [DOMAIN preselected -> experiment.traces] :
             csv' = [csv EXCEPT ![round] = rows_of(traces)]
     \/ step' = "stopped" /\ UNCHANGED csv
  /\ UNCHANGED <<experiment, attempt, round, seeds, afl, preselected, seeds_next, fuzzed, summary>>

\* The testcases select_corpus.py copies.
Chosen ==
  LET order == choose(csv[round], preselected, experiment.opts)
  IN { preselected[order[n]] : n \in DOMAIN order }

\* A mutant: every round starts from what the first one selected.
next_seeds_first(directories) == directories[1]

\* SEEDS="$NEXT"
next_seeds(directories) == directories[round]

\* The directory is created if need be, and never emptied.
Select ==
  /\ step = "select"
  /\ seeds_next' = [seeds_next EXCEPT ![round] = @ \union Chosen]
  /\ seeds' = next_seeds(seeds_next')
  /\ IF round = experiment.rounds THEN step' = "done" /\ UNCHANGED round
     ELSE step' = "fuzz" /\ round' = round + 1
  /\ UNCHANGED <<experiment, attempt, afl, preselected, csv, fuzzed, summary>>

\* queue_row raises when a CSV has no rows: no summary at all.
summarized == step = "done" /\ \A r \in RoundsOf(experiment) : csv[r] # <<>>

\* run_experiment_matrix.sh, once the loop is done.
Summarize ==
  /\ summarized /\ step' = "summarized"
  /\ summary' = [final |-> experiment.rounds, best |-> best_round(csv)]
  /\ UNCHANGED <<experiment, attempt, round, seeds, afl, preselected, disk>>

\* The loop is interrupted, perhaps while it copies seeds, or has ended, and is
\* started again on the same directory.
StartAgain ==
  /\ attempt < experiment.attempts /\ attempt' = attempt + 1
  /\ \/ UNCHANGED seeds_next
     \/ /\ step = "select"
        /\ \E copied \in SUBSET Chosen :
             seeds_next' = [seeds_next EXCEPT ![round] = @ \union copied]
  /\ round' = 1 /\ step' = "fuzz" /\ seeds' = InitialSeeds /\ summary' = NoSummary
  /\ UNCHANGED <<experiment, afl, preselected, csv, fuzzed>>

Next == Fuzz \/ FuzzFails \/ Preselect \/ Analyze \/ Select \/ Summarize \/ StartAgain

Spec == Init /\ [][Next]_vars

-----------------------------------------------------------------------------
(* Properties.                                                             *)

opts == experiment.opts

\* preselect_queue.py:57-72: the preselection is of the queue, no two of it have
\* the same shape, every replayable testcase has a representative that is no
\* longer, unless the limit left it out for better ranked ones.
PreselectionRepresents ==
  step = "analyze" =>
    LET kept == ToSet(preselected)
        fitting == { t \in ToSet(afl) : replayable(semantic_shape(t), opts) }
    IN /\ kept \subseteq fitting /\ Len(preselected) <= opts.limit
       /\ \A i, j \in DOMAIN preselected :
            semantic_shape(preselected[i]) = semantic_shape(preselected[j]) => i = j
       /\ \A t \in fitting :
            \/ \E k \in kept : semantic_shape(k) = semantic_shape(t) /\ size(k) <= size(t)
            \/ /\ Len(preselected) = opts.limit
               /\ \A k \in kept : ~below(rank(k), rank(t))

\* preselect_queue.py:26-34, 51, 56: the script's shape of a testcase stands for
\* what the C programs make of it: the testcases that one is kept for run the
\* same commands under ftrace and cover the same in the generator, and the
\* commands counted against the limit are those that are run.
ShapeStandsForRun ==
  step = "analyze" =>
    LET all == ToSet(afl)
        shape(t) == semantic_shape(t)
    IN \A t \in all :
         /\ Len(Targets!commands(t)) = expanded_commands(shape(t))
         /\ \A k \in ToSet(preselected) : shape(k) = shape(t) =>
              /\ Targets!commands(k) = Targets!commands(t)
              /\ Targets!generator_coverage(k) = Targets!generator_coverage(t)

\* select_corpus.py:13-21, 32-43: the families a selection is spread over are
\* those the generator reports to the fuzzer: all of them, as long as no more
\* than eight parts make up the signature.
SignatureIsObserved ==
  step = "select" => \A t \in ToSet(preselected) :
    LET signature == family_signature(t)
        observed == Targets!generator_coverage(t).families
    IN /\ ToSet(signature) \subseteq observed
       /\ Len(signature) < 8 => ToSet(signature) = observed
       /\ \A i \in 2..Len(signature) : signature[i - 1] # signature[i]

\* select_corpus.py:52-81, README.md:177-181: as
\* many different families as there is room for, each by its best input, none
\* left out for a worse one; the room is used up, and no input chosen twice.
FamiliesKept ==
  (step = "select" /\ opts.strategy = "diverse" /\ opts.top_k > 0) =>
    LET order == choose_diverse(csv[round], preselected, opts)
        picked == ToSet(order)
        able == eligible(csv[round], opts)
        family(i) == family_signature(preselected[i])
        score_of(i) == row_score(csv[round][i])
        room == IF opts.top_k < Cardinality(able) THEN opts.top_k ELSE Cardinality(able)
        kinds == { family(i) : i \in able }
    IN /\ picked \subseteq able /\ Len(order) = Cardinality(picked) /\ Len(order) = room
       /\ Cardinality({ family(i) : i \in picked })
            = (IF room < Cardinality(kinds) THEN room ELSE Cardinality(kinds))
       /\ \A i \in picked, j \in able \ picked :
            (family(i) = family(j) \/ family(j) \notin { family(k) : k \in picked }) =>
              ~below(score_of(i), score_of(j))

\* run_reseed_loop.sh:23-34: whatever was interrupted and started again, the seeds
\* of a round were queued by the fuzzer in the round before it.
SeedsOfTheRoundBefore ==
  /\ \A r \in RoundsOf(experiment) : seeds_next[r] \subseteq fuzzed[r]
  /\ seeds = (IF round = 1 /\ step # "done" /\ step # "summarized" THEN InitialSeeds
              ELSE seeds_next[IF step \in {"done", "summarized"} THEN round ELSE round - 1])

\* summarize_experiments.py:59-60, 79-83: a summary is of rounds that all replayed
\* something, and no round of them is above the best one it shows.
SummaryOfWholeRounds ==
  step = "summarized" => \A r \in RoundsOf(experiment) :
    /\ csv[r] # NoCsv /\ Len(csv[r]) > 0
    /\ ~below(score_key(queue_row(csv[summary.best])), score_key(queue_row(csv[r])))
    /\ r < summary.best =>
         below(score_key(queue_row(csv[r])), score_key(queue_row(csv[summary.best])))

\* README.md:188-191: a round "selects the most novel inputs, and uses only
\* those as the next round's seed corpus".  Not so when the loop is started
\* again: what an earlier attempt selected is still there.
OnlySelectedSeeds ==
  (step = "fuzz" /\ round > 1) =>
    LET order == choose(csv[round - 1], preselected, opts)
    IN seeds = { preselected[order[n]] : n \in DOMAIN order }
================================================================================

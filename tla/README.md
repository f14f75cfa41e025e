# KIDNAP in TLA+

KIDNAP is three demonstrations of fuzzing with *semantic* feedback: a target
reports events of its own (system calls and their errors, unlocked features of
a configuration, kernel functions), AFL++ or a reseeding loop is steered by
them, and scripts analyse offline how much of the semantic space a campaign has
found. The value of every number these experiments produce rests on a few
mechanisms: that a target reports exactly what it did, that a report cannot be
disturbed by an earlier run, by another campaign or by a timeout, and that the
offline analysis counts the same things the target reported. This directory
models those mechanisms, checks them with TLC and proves some of them with
TLAPS.

Paths below are relative to the repository; `PoC_one/` stands for
`demos/PoC_one/` and so on.

## 1. Inventory

### PoC one: the syscall exerciser

| part | state | operations | interacts with |
|---|---|---|---|
| run loop (`src/main.c`, `decoder.c`) | buffer, index, two previous operations, a one-shot 500 ms timer | read, decode, one iteration per four bytes | executor (call), feedback (calls), stderr trace |
| executor (`src/executor.c`) | descriptors, sockets, mappings and `errno` inside one operation; fixed names in `/tmp/afl-syscall-poc`; loopback ports 1024..1279 | 46 operations, each a short series of system calls | the file system and ports, which all campaigns of the machine share |
| feedback (`src/feedback.c`) | a coverage map: AFL++'s, or a fallback of `uint8_t` counters | `feedback_syscall`, `_seq2`, `_seq3`, `_errno` | AFL++'s `__afl_coverage_interesting` |
| queue analysis (`scripts/analyze_queue.py`) | counters per testcase | decode the file, replay it with a trace, parse the trace | its own copies of the operation table and decoder |
| growth plot (`scripts/plot_feedback.py`) | cumulative sets | order the queue by time, count, extend | the analysis' decoder |
| campaign scripts (`run_*.sh`, `afl_common.sh`) | the files `poc_one`, `runs/bin/*`, output directories, a tmux session | build twice, copy, start fuzzers | make, tmux, afl-fuzz |
| reset (`reset_experiments.sh`) | sessions, process ids, paths to remove | kill a session, stop fuzzers, remove outputs | the same |

Hard here: the order of the feedback calls and of the shift of the two previous
operations; the ends of the stream (a partial operation, `MAX_OPS` operations);
`errno`, which has to survive the clean-up of an operation; release of
descriptors on every failing path; a kill at any system call, after which the
next run meets what was left in the scratch directory; several campaigns in the
same scratch directory; a counter of eight bits.

Correct means: the features of a run are the n-grams and errors of what it
executed and stay visible in the map; an error belongs to the call that failed;
nothing outlives an operation but the names of the scratch directory, and
whatever of them a killed run leaves, a later operation still finds what it
prepares for itself (STATX, FACCESSAT and MKDIRAT look at names that earlier runs
made, and answer accordingly); a run ends; the analysis finds in a file what the
target reported about it.

### PoC two: the configuration simulator

| part | state | operations | interacts with |
|---|---|---|---|
| simulator (`src/configlet_sim.c`) | a `Config`, the step of a transaction, flags of what was unlocked | parse a line, one `if` of `run_application` after the other | feedback log |
| feedback (`src/feedback.h`) | the log file, opened for appending; AFL++'s map | init, record a feature, a combination, a dependency, close | AFL++; the analysis through the file |
| queue analysis (`scripts/analyze_queue.py`) | three sets, a temporary file per replay | replay each file with a timeout, accumulate, compare with `ground_truth.json` | the simulator as a child process |
| campaign scripts, plots, reset | files and directories | as in PoC one | |

Hard here: the transaction order in the midst of other lines; last-writer-wins
with values that are ignored; numbers wider than an `int`; the dependency of
each unlock on earlier ones through settings and local flags; the timeout of a
replay at any moment of the target.

Correct means: the log of a run is exactly the coverage the testcase asks for,
expressed in the vocabulary of the ground truth, each event after what it
depends on; a replay counts a testcase entirely or not at all; the analysis
ends.

### PoC three: systemd with ftrace

| part | state | operations | interacts with |
|---|---|---|---|
| systemctl harness (`harness/systemctl_harness.c`, `input_parser.c`, `safe_allowlist.h`) | aggregate status | decode, run each of 27 allowed commands up to three times | systemd in a container |
| unit-file harness (`harness/unit_file_harness.c`) | a generated unit | render, link, start, stop, remove | systemd |
| ftrace collection (`scripts/collect_ftrace.sh`) | the kernel's `trace` and `tracing_on` | clear, switch on, run with a timeout, switch off, copy | the harness |
| scoring (`scripts/analyze_queue.py`, `analyze_trace.py`) | events seen so far | reset, collect, score novelty, in queue order | collector, `reset_state.sh` |
| reseed loop (`run_reseed_loop.sh`, `preselect_queue.py`, `select_corpus.py`) | one directory per round | fuzz, preselect, score, select, next round | all of the above |
| experiment matrix, plots, set-up of the machine | files | I/O | |

Between them stands `harness/systemctl_generator.c`, what AFL++ fuzzes: it
decodes a testcase as the harness does and turns what it would run into blocks
that AFL++ sees.

Hard here: what a rerun, an empty preselection or a failed collection leaves to
the next step; scores that depend on the order of the queue; timeouts; decoding
that exists four times, twice in C and twice in Python.

Correct means: a round's seeds come from that round's queue and no other; a
testcase is scored on its own trace; every family of inputs that qualifies is
represented as long as there is room. That the loop goes on is not among it:
`set -e` ends it with the first step that fails, an empty seed directory
included.

## 2. Plan

Modules in the order they were written.

1. `SyscallOps`, `SyscallExerciser` (PoC one's target), `QueueAnalysis`,
   `PocOneReplay` (both together): the core, because every PoC one result is
   read off it. Proofs in `PocOneProofs`: run loop and feedback, operations,
   and the analysis on top of both.
2. `Configlet` (PoC two's target), `ReplayOracle` (abstract), `ConfigletReplay`
   (PoC two's target under its analyzer, a refinement of `ReplayOracle`). Proofs
   in `ConfigletProofs`, the refinement included.
3. `GrowthCurve` (the curves, as operators), extended by `SyscallGrowth` and
   `ConfigletGrowth`, the two plotting scripts at work. `GrowthCurveProofs` has the
   lemmas about curves that `SyscallGrowthProofs` and `ConfigletGrowthProofs`
   share.
4. `TraceSummary` (PoC three's trace arithmetic), `TraceScoring` (collector and
   analysis over the kernel's tracing) with `TraceScoringProofs`,
   `SystemctlTargets` (the two C programs), `CorpusSelection` and `ReseedLoop`,
   which composes the selections, the scores and the programs over rounds, with
   `ReseedLoopProofs`.
5. `CampaignScripts` (launchers and resets of PoC one in several terminals),
   with `CampaignScriptsProofs`.

Left for later: `run_feedback_comparison.sh`, a third launcher.

## 3. PoC one

### `SyscallOps`: the data

Operators only: the table of 46 operations, decoding, the *plan* of an
operation, the features and the map.

- An operation is named by its system call. `select_syscall` takes the id
  modulo `OP_MAX`, `usable` and `read_input` bound the bytes.
- `Plan(op, args)` is `execute_safe_syscall` laid out as the series of system
  calls the operation makes: `ensure` (mkdir of the scratch directory),
  `openTemp`, `openSock`, `mmap`, `unlinkLink`, `symlink`, `call` (the system
  call under test), and the closes and unmaps after it. Which of the four
  selectors gives a valid descriptor is `selects_valid_fd`.
- The FNV hash of a feature is the constant `FeatureHash`: any function from
  features to numbers. What is checked and proved therefore holds whatever
  collides.

### `SyscallExerciser`: the program

`Procs` are campaigns, each of which runs the target again and again. `files`
and `ports` are shared by all of them; everything else is per process and is
reset by `Main`, as it is in a fresh process. The steps are

| code | actions |
|---|---|
| `main`, `install_timeout`, `read_input` | `Main`, `MainUsage` |
| head of `run_input`'s loop | `NextOp`, `EndOfInput` |
| the three feedback calls | `FeedbackSyscall`, `FeedbackSeq2`, `FeedbackSeq3` |
| `execute_safe_syscall` before and after the tested call | `EnsureTempDir`, `OpenTemp`, `OpenSock`, `Mmap`, `OpenVictim`, `UnlinkLink`, `Symlink`, `CloseStep`, `MunmapStep` |
| the tested call | `CallBadFd`, `CallFails`, `CallBind`, `CallLookup`, `CallOpenat`, `CallMkdirat`, `CallUnlinkat`, `CallSucceeds` |
| the rest of the iteration: errno feedback, trace, shift | `AfterOp` |
| SIGALRM | `Alarm` |

Each system call is a step of its own, so campaigns interleave between any two
of them and `Alarm` may come at any of them. A call succeeds or fails as the
state of the scratch directory and of the ports demands; failures that depend
on things not modelled (arguments, limits) are possible for every call, with
the errno `EOTHER`, `EMFILE` for a descriptor. A close may report `EIO`; the
code's `close_preserve_errno` hides it.

Bounds: `MaxRuns` runs of a campaign, the inputs in `Inputs`. `MaxOps`,
`MaxInput`, `MapSize` and `CellMod` are the code's 64, 4096, 65536 and 256; the
assumption `4 * MaxOps <= CellMod` is what relates the first to the last, and
the runs take it at equality.

Left out: `global_feedback`'s arrays and `seq_hash`, which are written and
never read; the 4 KiB data buffers; option values.

### `QueueAnalysis` and `PocOneReplay`

The Python script's own table, decoder and trace parser as operators, and the
target beside them. The table and decoder are translated a second time, from
the Python, on purpose: `AnalysisMatchesFeedback` compares the two.

### Properties

| property | says | run |
|---|---|---|
| `NgramFeatures` | recorded SYSCALL, SEQ2, SEQ3 features are exactly the n-grams executed | `features`, proved |
| `MapKeepsFeatures` | a recorded feature's cell never reads zero | `features`, proved |
| `IdZeroReserved` | cell 0 of an AFL++ map stays untouched | `features`, proved |
| `AnalysisMatchesFeedback` | the offline analysis of a file finds the features its run recorded; of a killed run it misses no n-gram and names no error that was not recorded | `features`, `executor`, proved |
| `EveryRunEnds` | a run ends though its system call may not | `features` |
| `NothingHeldBetweenOps` | no descriptor, mapping or port outlives its operation or its process | `executor`, proved |
| `ErrnoOfTheFailure` | errno is the one of the call that made the operation fail | `executor`, `shared_scratch`, proved |
| `SelfHealing` | whatever killed runs left behind, the link, the victim and the port an operation prepares are there for its tested call | `executor`, proved for a campaign that is alone |
| `CommonFilesStay` | no campaign takes away the files every campaign relies on | `shared_scratch`, proved |
| `CampaignsIndependent` | of campaigns side by side none takes away the link or the victim another has prepared | `shared_scratch_independent`: violated |
| `CurvesKept` | thinning a series to its change points draws the same curve, with no segment backwards | `syscall_growth`, proved |
| `SaturationTimes` | the time to saturation is the curve's, with and without a plateau | `syscall_growth`, proved |
| `CurveIsDiscovery` | a curve shows at every time what the testcases queued up to then have found | `syscall_growth`, proved |
| `NamedAnyWay` | a campaign's directory, instance and queue name the same testcases, found by probing for directories | `syscall_growth`, proved |
| `ReportsAllOrNothing` | no CSV or picture is made of part of a queue | `syscall_growth`, proved |
| `TargetsOfTheirKind` | as long as builds do not overlap, every fuzzer runs the target its campaign is named after | `campaign_scripts`, proved |
| `CleanSlate` | a reset that reports completion, undisturbed, leaves no fuzzer, no window that would start one, no session and no output | `campaign_scripts`, proved |

### `GrowthCurve` and `SyscallGrowth`: the growth plot

`GrowthCurve` translates the functions of `plot_feedback.py` that order, thin,
extend and read a series; PoC two's script has a copy of each, and both models
`EXTEND` the module. A time is an integer; a name without a `time:` field has
`NoTime`, and then the modification time relative to the oldest file counts.

`SyscallGrowth` is the script: `ListFiles` and `CountFile` are the head and the
loop of `series_for_path`, `Report` the rest of `main`. `RemoveFile` is somebody
else: testcases vanish while the script runs, and `read_bytes` raises, before
anything has been written (`Fail`). The properties compare the rows with
`QueueAnalysis`' `aggregate`, the totals `analyze_queue.py` would report.

### `CampaignScripts`: launchers and resets

Every terminal runs one script at a time; a step is one command of it. The
scripts share `poc_one` and the objects in the build directory (which `make`
finds up to date or not: `Make`), the copies in `runs/bin`, the session, the
fuzzers and the output directories. `Copy` fails when the copy is being
executed (the kernel refuses to write to a running program) and `set -e` ends
the script: a user who launches a second time over a running session sees that,
not the script's own message about the session. `OpenWindow` is tmux's
`new-window` alone; what happens in the window is `RunWindow`, at any later
moment: it makes the output directory again if somebody has removed it, and
starts afl-fuzz, unless its command file is gone. When `runs` is removed before
the command file is written, the launcher goes on and opens a window on which
nothing runs. `kill-session` hangs up the shells of windows that are not that far
yet (`StopSession`). A fuzzer may end at any moment or ignore SIGTERM and the
hangup; the reset looks for it again after a second and kills it.

`TargetsOfTheirKind` is about builds that do not overlap, because the scripts
take no lock: a second build started in another terminal between `make` and
`cp` gives a campaign the wrong target, and nothing in the repository promises
otherwise. That a copy is replaced by a newer one of the same kind, between
`cp` and the check for a session, makes no difference to it: sources do not
change in the model. `CleanSlate` excludes resets during which a launcher was at
work: its windows open, and its fuzzers start, after the reset has looked. It
also excludes a `--clean-only` that begins while windows are starting, because
that mode leaves the session alone and the windows make their directories again.
`--no-build` and `--dry-run` are not taken.

### Runs and bounds

- `features` (36,774 states): one campaign, streams of up to `MaxOps + 1 = 4`
  operations over three different ones (n-grams have length three, so three
  different operations and one more than fit tell every shift and every end
  condition apart), with no tail, one byte and three bytes; the three builds;
  hashes that collide everywhere in the fallback map; `CellMod = 12 = 4 * MaxOps`.
- `executor` (204,904 states): one campaign, every operation with every selector,
  five runs in a row: the directory holds four names, each run can add one of
  them (or, killed, leave one behind), so the first four bring it into every
  state the program can leave it in and the fifth meets that state.
- `shared_scratch` (1.25 million states): two campaigns, two runs each, the seven
  kinds of operation that touch shared names or ports.

- `syscall_growth` (239,000 states): two paths on the command line (a queue, its
  instance or its root, in pairs; a missing one; a single file), up to three testcases (a row, one before
  it and one after it), stamps that mix named and modification times with ties
  and in both orders, contents that find nothing, something old, something new;
  one removal.
- `campaign_scripts` (3.5 million states): two terminals, which are alike
  (symmetry), four scripts in all: two launchers of either kind and two resets
  fit, and a reset that meets the campaign of one launcher and the build of the
  next.

Deadlock is not checked: a campaign stops after `MaxRuns` runs, scripts end.

Fairness: in the exerciser only `WF(Alarm)`. Nothing obliges the kernel to finish a system call
(a `recvfrom` with no data, a `read`), so no step of the target is fair;
`ITIMER_REAL` runs in real time and its signal is delivered whatever the
process does.

### Finding

`CampaignsIndependent` fails. README.md:125 of PoC one speaks of "multiple
independent campaigns" and `run_tmux_campaigns.sh` starts twenty, all of which
use the fixed names of `executor.c:25-30`. The run shows one campaign's
`unlink` of `scratch.link` fall between another's `symlink` and `readlinkat`. The
other's operation then fails with an ENOENT that its input did not ask for, which
is reported as an ERRNO feature. The victim of `OP_UNLINKAT` is open to the same
race, and a loopback port may be taken when `bind` wants it (`PortsFree` is
therefore part of `SelfHealing` only). An `unlinkat` whose victim could not be
created in the first place is no violation: nothing was taken away from it.
`CommonFilesStay` and `ErrnoOfTheFailure` say what remains true.

## 4. PoC two

### `Configlet`: the program

A testcase is a sequence of lines `[key, value]` as `parse_config` sees them;
tokens are compared, never taken apart. `Numeral` says which values `strtol`
takes as a number; `parse_int_value` narrows it to `IntMin..IntMax` as the code
does. One action is one line (`ParseLine`: the malformed-line check,
`advance_tx_sequence`, `apply_kv`), one `if` of `run_application` (`RunBlock`,
with the operators `condition` and `events` for its test and its body), or the
end (`FeedbackClose`). Left out: the arithmetic of `feature_*` on volatile
locals, which nothing reads, and the size of the buffers (a testcase longer
than 8191 bytes is cut; its lines are then other lines).

| property | says |
|---|---|
| `TxSequenceExact` | the greedy automaton accepts exactly the testcases with the six lines in order |
| `LastWriterWins` | every setting has the value of the last line with a value it accepts |
| `NumbersCompareAsWritten` | a narrowed number is on the same side of every threshold as the written one |
| `LoggedAfterItsFeatures` | wherever the log is cut, nothing is there before what it depends on, and nothing twice |
| `LogIsCoverage` | a complete log is the coverage computed from the testcase alone |

All of them, and the type invariant, are proved for every set of testcases.

`Coverage` is written from the settings a testcase asks for, as a definition of
the features by one another (an admin is privileged if ...), without the order
of the ifs, the local flags or the narrowing.

Run `configlet` (30,370 states): every single edit (removal, insertion,
replacement, exchange) of the transaction with its own lines and five
disturbing ones, also two edits at a time for one line moved; the
configuration that unlocks all sixteen features, and the same with any line
removed or any of 90 lines put before or after it, which takes every setting
through all its values and every number through both sides of its thresholds
and of `IntMax` (65535 here: TLC's own integers are not wider than an `int`).

### `ReplayOracle` and `ConfigletReplay`: replaying a queue

`ReplayOracle` is what a replay promises: testcases in order, each counted with
all of its coverage or not at all. `ConfigletReplay` is `analyze` and
`run_input` of the script over `Configlet`: the temporary file, the child
process, a target that cannot be executed, cannot open its testcase or loses
its log to stderr, `TimeoutExpired` at any moment, and the buffered log that
reaches the file only when the target closes it. Every file has a process of its
own (`fresh_process`): one that lived on from file to file, with the settings of
the last, is the mutant. `ReplaysAllOrNothing` is
`ReplayOracle`'s specification, with `discovered` and `replayed` mapped to
themselves, and is proved; `AnalysisEnds` is its liveness.

### `ConfigletGrowth`: the growth plot

The script replays a queue in the order it was found. A replay fails and is
skipped (`Skip`) or finds its testcase gone (`ReplayGone`: the target has
nothing to read and logs nothing; the row needs the file's time, and `stat`
raises unless the name tells it). What the target logs for a testcase is its
field `found`: `Configlet` says what that is. `GrowthIsAnalysis` compares the
curve at every time with what `analyze_queue.py` reports of the testcases
replayed until then, for every metric; `CoverageWithinTruth` bounds the covered total
by the discovered one and by the ground truth. Both are proved.

Run `configlet_growth` (268,000 states): up to three testcases whose findings
share a name under two labels, four stamps, four ground truths (complete,
partial with the older name `deps`, without any state, none), one removal.

Run `configlet_replay` (3,795 states): queues of up to two of four testcases, and
one of three, whose coverages overlap, contain one another or are empty.
Fairness: the analyzer's loop starts the next replay and `subprocess.run` comes
back within its timeout (`WF` of starting and of ending a replay); none for the
target.

The log file is buffered by stdio; at most 52 short lines fit one buffer, so
it is written when it is closed. `leaked` counts the temporary files a timed-out replay leaves
behind; nothing is promised about them.

Deadlock is not checked: a process exits, the analysis ends.

## 5. PoC three

### `TraceSummary` and `TraceScoring`: collecting and scoring traces

A trace is a sequence of lines; those that name no event (headers) are outside
`Events`. `TraceSummary` has the arithmetic of `analyze_trace.py`, the score of
`analyze_queue.py`, and what the two reports make of its rows.

`TraceScoring` is `analyze_queue.py` running one `collect_ftrace.sh` per
testcase. The kernel's switch and ring buffer belong to the host: `Emit` is
any event the filters let through, of the replayed command, of what it left
running, of the reset before it or of something else, whenever tracing is on; the
buffer keeps the newest `BufferSize` lines. The trace files outlive the
analysis. `Interrupt` ends analysis and collector at any step, also in the
middle of saving, and starts them again, with or without root: without it the
collector exits before it touches anything and the analysis scores whatever
trace file there is, or dies for want of one.

| property | says |
|---|---|
| `TraceIsOfTheReplay` | the trace saved is what the buffer holds of the events since tracing was switched on for this testcase, nothing older; proved |
| `RowsAreOfThisAttempt` | with root, every row is of a replay of this attempt; proved |
| `ScoreIsWorth` | the aggregate score counts every event and pair once, whatever the order of the queue, and both reports agree with it; proved |
| `AnalysisEnds` | hanging commands do not keep the analysis from its end |

Without root `RowsAreOfThisAttempt` is not true, and nothing says it should be:
the collector's status is ignored and old traces are scored again.

Run `trace_scoring` (11,704 states): two testcases (a trace and a later one),
two events of which one has a subsystem, up to three events in a replay over a
buffer of two (so that it overflows), no trace or an old one, one interruption.
Fairness: `WF(Analyzer)`: the scripts run on, `timeout` (15 s by default) kills
a command that hangs, with SIGKILL two seconds later; none for the command. The
reset command has no timeout: that it ends is assumed. `REPLAY_TIMEOUT=0`, which
takes the timeout away, is the mutant of `AnalysisEnds`.

### `SystemctlTargets`, `CorpusSelection` and `ReseedLoop`

A testcase is a record of what the programs look at: the first and the last
byte of each four-byte record, and the number of bytes left over.
`SystemctlTargets` says which commands the harness runs and which blocks of the
generator AFL++ sees; `CorpusSelection` translates the two selections.
`sorted(reverse=True)` is stable: equal keys keep their order, which decides
ties. `descending` says so by counting: the n-th index is the one that n - 1
others are `ahead` of. (An operator that sorts with the community modules'
`SortSeq` could not be reasoned about: the prover has no definition of it.) In
the same way `at` lists the positions a loop keeps, in increasing order, for the
event lines of a trace and for the starts of a signature's families, and `total`
is Python's `sum`, as a function over the length.
`rows_of` likewise gives every row from what the replays before it have shown,
where the script carries three sets along.

`ReseedLoop` has one action per step of a round. The queue of a fuzzing campaign
is any that contains its seeds. A step may fail and end the loop (`set -e`); the
container shell need not pass on the status of the fuzzer, so that the loop may
also go on with an empty queue or an older one. `StartAgain` runs the loop a
second time on its results directory, also in the middle of copying seeds.
`Summarize` is the matrix' summary, which refuses a round without rows.

| property | says |
|---|---|
| `PreselectionRepresents` | every testcase that fits has a representative of its shape that is no longer, or lost to better ranked ones at the limit; proved |
| `ShapeStandsForRun` | testcases of one shape run the same commands and cover the same blocks; the commands counted are those run; proved |
| `SignatureIsObserved` | the families of the selection are those the generator reports to AFL++; proved |
| `FamiliesKept` | as many families as there is room for, each by its best input; proved |
| `SeedsOfTheRoundBefore` | the seeds of a round were queued in the round before, also after interruptions and reruns; proved |
| `SummaryOfWholeRounds` | a summary is of rounds with rows and shows the first of the best; proved |
| `OnlySelectedSeeds` | the seeds are exactly the selection: violated, see below |

Run `reseed_loop` (139,000 states): one round over queues of up to four of seven
inputs (two of one shape, two of one family, one too long, one not in the
profile), for limits and `top_k` below and above what is there; one
round for every operation with another one after it and for 64 and 65
operations; two rounds and two attempts over three inputs; three
rounds for the choice of the best.
`top_k` 0 selects one input all the same (`choose_diverse` looks at the limit
after it has appended); `FamiliesKept` is about positive limits.

### Finding

`OnlySelectedSeeds` fails in run `reseed_loop_again`. PoC_three/README.md:188-191
says a round "uses only" the inputs it selects as the next seeds. `select_corpus.py:105`
never empties the directory it copies to, so that a loop that is started again
on its results directory seeds rounds with earlier selections, too.
`SeedsOfTheRoundBefore` says what remains true.

## 6. What is proved

`PocOneProofs` proves, for every set of campaigns and inputs, every
hash, and every value of the bounds that meets `OpsAssumption`,
`HashAssumption` and `ExerciserAssumption`:

- `TypeCorrect`: `Spec => []TypeOK`. `TypeOK` alone is not inductive: that a
  decoded operation exists needs its four bytes inside the buffer. `TypeInv`
  adds `IndexInBuffer` (the index is a multiple of four inside the usable bytes,
  with room for an operation while one is under way) and `PrevsFillInOrder`.
- `ReservedCellUntouched`: `Spec => []IdZeroReserved`, from `TypeInv` and a lemma
  on `interesting_id`.
- `MapKeeps`: `Spec => []MapKeepsFeatures`. A cell of the fallback map never wraps,
  because it never counts more than the calls of `record_feature` (`CallsCounted`),
  of which operation by operation there are at most four, and the first makes
  at most two: at most `4 * MaxOps - 1 < CellMod` in a run. With 64 and
  256 the margin is one, and the proof says where: a fifth feature per
  operation or a 65th operation would break it.
- `NgramsExact`: `Spec => []NgramFeatures`. The invariant `PrevsAndGrams` says that
  `prev1` and `prev2` are the two operations before the index, and that the
  features recorded are the n-grams of the finished operations plus those of
  the feedback calls the current one has already made.

Its second part is about `execute_safe_syscall`, under the same assumptions.
The lemma `PlansSafe` goes through all 46 plans once: every helper acquired is
released by a later step, nothing is held when a step may abandon the
operation, and every preparing step has a deciding one (the tested call, or the
mmap) after it. The invariant `ExecInv` then needs no case for any operation: it
says how far in its plan a process stands, that what it holds was acquired
before and is released later, that a port it has bound is that of a `bind`
about to close its socket, and that once no deciding step is left the errno is
settled.

- `NothingLeaks`: `Spec => []NothingHeldBetweenOps`.
- `ErrnoOfFailure`: `Spec => []ErrnoOfTheFailure`: no EIO of a close, no EEXIST of
  a preparation, EBADF only with a bad descriptor, EADDRINUSE only from `bind`.
- `CommonFilesRemain`: `Spec => CommonFilesStay`, an action property.
- `LoneCampaignHeals`: `Spec => []SelfHealing` if no two campaigns are different.
  The invariant `Prepared` says that the victim and the link exist from their
  creation to the tested call. The hypothesis is not for convenience: run
  `shared_scratch_independent` shows the property to fail with two campaigns.

Its third part proves `AnalysisExact`: `Spec => []AnalysisMatchesFeedback`, on top
of both. The invariant `AnalysisInv` says that a run, ended or killed, has one trace line
for every operation before its index, numbered as the script counts them, and one
ERRNO feature for every line with an errno. The lemmas before it compare the
script's table and decoder with the target's, for every byte.

`ConfigletProofs` is about every set of testcases, of any length, every
reading of numerals and every width of an int that meet `ConfigletAssumption`
(an int holds 0xdead and its successor) and `NoEmptyNumeral` (the empty value is
no number: `strtol` consumes nothing of it).

- `TypeCorrect`, `LastLineWins`, `LogOrdered`: conjuncts of the invariant `Inv`.
- `TransactionExact`: `Spec => []TxSequenceExact`. The invariant `TxInv` is that
  greedy matching has got as far as any matching can: as many of the six lines
  as `tx_step` says are embedded in the lines read, and not one more.
- `NumbersExact`: `Spec => []NumbersCompareAsWritten`, because a number is the
  narrowed one of the last line that writes it (`NumbersInv`) and narrowing is
  monotone and leaves the thresholds alone.
- `LogComplete`: `Spec => []LogIsCoverage`. The invariants `UnlockedInv` (the ifs
  passed have unlocked what the settings want) and `LogInv` (the log has, of the
  ground truth, what the unlocked blocks record) tie log, local flags and
  settings together; at the end of the run all seventeen ifs are passed, and
  what the settings want is `Coverage`.

The same module proves `ReplayRefinesOracle`: `ReplaySpec =>
ReplaysAllOrNothing`, that is `ReplayOracle`'s specification. `ReplayInv` is
the invariant `Inv` of the target, which is a fresh process between
two files, and says that the log file holds the log of a target that closed it and is
empty before. A replay that is counted implements `Count`, one that failed or
timed out `Skip`, and everything else stutters. That a complete log is the
testcase's coverage is `LogIsCoverage`.

`GrowthCurveProofs` has no theorem of its own; it is what the two plots' proofs
share, for series of every length. `Ordered` says that placing every element
by the number of those before it lists a finite set in order (time, then
name), which is how the models sort. `KeptCurve` says that the points kept of a
monotone series show, at every time, what all its rows show; `SaturatesAt` that
the time computed is the first at which the curve has its final value;
`PlateauAfter` and `PlateauShows` that the row added at `--extend-to` changes nothing
of what the curve shows, before the last testcase or after it.

`SyscallGrowthProofs` proves, for all command lines, options and removals that
meet `CommandLineAssumption` (directories are finite, their files have different
names, times are integers):

- `CurvesAreKept`, `SaturationHolds`, `CurvesAreDiscovery`: `Spec => []CurvesKept`,
  `[]SaturationTimes`, `[]CurveIsDiscovery`. The invariant `PlotInv` says that every
  finished series is that of the whole directory, prolonged or not, and that the
  one under way is the series of the files gone through, in the order of the
  sort, with `seen` what they have found and nothing else. The rest is the
  lemmas about curves.
- `SeriesNamedAnyWay`: `Spec => []NamedAnyWay`: as long as nothing
  vanishes, two paths to one directory list the same files (`ListedInv`, with the
  lemma `DefaultQueueFound` for the script's probes) and have one series.
  `WholeReports`:
  `Spec => []ReportsAllOrNothing`, the `Reported` half of `PlotInv`.

`ConfigletGrowthProofs` proves, under the same kind of assumption:

- `GrowthIsOfAnalysis`: `Spec => []GrowthIsAnalysis`. A failed replay leaves no
  row, so a row no longer has the number of its file. The invariant `GrowthInv`
  therefore says that there is a subsequence of the sorted files which the rows
  follow (`Follows`), and that every file outside it was skipped; `FollowsShows` is
  the curve drawn from such rows.
- `CoverageIsWithinTruth`: `Spec => []CoverageWithinTruth`. `RowWithin` is the bound for
  one row, from the finiteness of what testcases find.

`TraceScoringProofs` proves, for every queue, set of events, buffer size, old
trace files and number of interruptions that meet `BoundsAssumption`:

- `TypeCorrect`: `Spec => []TypeOK`, with the lemma `NewestType` that the newest
  lines of a sequence are a sequence of such lines.
- `TracesOfTheirReplay`: `Spec => []TraceIsOfTheReplay`. The invariant `TraceInv`
  says, for every step of the collector, what the buffer is: empty and tracing
  off between clearing and switching on, so that no event of anybody comes in
  between, and the newest of the events emitted from then on. The lemma
  `NewestOfNewest` is the ring buffer: the newest of the newest and one more
  are the newest of all.
- `RowsOfThisAttempt`: `Spec => []RowsAreOfThisAttempt`. The invariant `RowsInv`:
  with root, the rows are those of the testcases before the current one, all
  of them replayed in this attempt, and the current one, too, when it is scored.
- `ScoresAreWorth`: `Spec => []ScoreIsWorth`. The invariant `ScoredInv` says that
  what the analysis has seen is what the traces scored so far show, and that
  row n was scored against the n - 1 before it. A score is then the difference of
  two worths (`WorthGrows`, from |A u B| = |A| + |B \ A| for events, pairs and each
  subsystem), so that the worth of the first n traces is a running sum of the
  scores (`ScoresAddUp`), and `TotalOf` says that there is only one running sum.
  The order of the queue drops out because the worth is of a set of traces.

`CampaignScriptsProofs` proves, for any number of terminals and scripts that
meet `ConstantsAssumption`:

- `TypeCorrect`: `Spec => []TypeInv`, the types and, script by script, `Phase`: at
  which steps a launcher or a reset can be, and that it has a kind to build or a
  directory to remove there, `runs` last.
- `TargetsCorrect`: `Spec => []TargetsOfTheirKind`. The invariant `TargetInv` says
  that, while no two builds have overlapped, only one terminal builds, that the
  build directory is empty after `make clean` and holds the terminal's own kind
  after `make`, and that the copies, and with them the fuzzers, are of their kind.
- `SlateIsClean`: `Spec => []CleanSlate`. The invariant `CleanInv` says how far an
  undisturbed reset has come: no launcher is at work, the session and the windows
  that were starting are gone once it was killed, every fuzzer that is left is on
  the list the reset is about to kill, and every directory that is left is on its
  list of directories. None comes back, because only launchers and windows add
  one.

`ReseedLoopProofs` proves, for every set of experiments that meets
`ExperimentsAssumption` (testcases are bytes, directories are finite, limits
are not negative, and `NoCsv`, the file that is not there, is not a file of rows):

- `SeedsFromTheRoundBefore`: `Spec => []SeedsOfTheRoundBefore`. By itself the
  property is not inductive: `LoopInv` adds, step by step of a round, that queue and
  preselection are of what this round has queued, and that there is a row of
  numbers for every preselected testcase (`RoundInv`), so that the rows chosen
  are of testcases of this round.
- `PreselectionCorrect`: `Spec => []PreselectionRepresents`, from the lemma
  `PreselectCorrect` about `preselect` for every queue.
- `FamiliesCovered`: `Spec => []FamiliesKept`, from the lemma
  `DiverseKeepsFamilies` about `choose_diverse` for every list of scored rows: the
  leaders of the buckets are of different families and come best first
  (`DiverseLeads`); either they use up the room (`FamiliesFirst`), or the best of
  the others fill it (`RoomFilled`).
- `SummaryCorrect`: `Spec => []SummaryOfWholeRounds`. The invariant `CsvInv` says that
  the rounds before the current one have their file of rows, and that a summary
  was made of files none of which is empty. That the best round is the first of
  the best (`BestRound`) is for any number of rounds, and needs that the rows are
  rows of numbers (`CsvType`), so that their keys can be compared.
- `ShapesStandForRuns`: `Spec => []ShapeStandsForRun`, from lemmas about every
  testcase: the decoders of the harness, the generator and the Python scripts
  agree (`SameDecoding`), commands and coverage are functions of the shape
  (`CommandsOfShape`, `CoverageOfShape`), and the commands laid out one after the
  other are as many as the sum counts (`CommandsCounted`).
- `SignaturesAreObserved`: `Spec => []SignatureIsObserved`. The two tables of families,
  a list in Python and ranges in C, agree for all 27 operations (`SameFamilies`);
  every operation's family is that of a start (`StartsReach`), and between two
  starts nothing changes (`StartsHold`), so that neighbours in a signature differ. `At` is that `at` goes through the starts in
  increasing order.

They rest on `Descending`: tuples are totally ordered by `below`, indices
therefore by `ahead`, and counting those ahead numbers them from one to all, so
that `descending` gives each once and none before one with a greater key.

A sum and a concatenation over a sequence (`total`, `FlattenSeq`) are recursive
functions, and nothing is assumed about them: `TotalOf` and `FlattenOf` prove
that a function which meets the recursion is the one `CHOOSE` returns, because
there is no least index at which two of them differ; `Joined` that there is such
a function, because there is no least length without one. Least elements
(`LeastNatural`, from the well-foundedness of < on the naturals) stand in for
induction throughout.

Each is proved from an invariant that holds initially, is preserved by
every action (one lemma per action or group of actions that leave the
relevant variables alone), and implies the property. Every invariant was
checked with TLC on the small instance (`PlotInv` on a part of it, `GrowthInv`
with its subsequence named) as well as proved.

## 7. What is only checked, and what is not modelled

Model-checked only:

- Liveness (`EveryRunEnds`, both `AnalysisEnds`): the prover does not reason about
  fairness and enabledness. Every other property of a passing run is stated by a
  theorem (`SelfHealing` for a campaign that is alone, which is what its run checks).
- That a violated property is violated (`CampaignsIndependent`,
  `OnlySelectedSeeds`): the counterexamples are TLC's.

Not modelled: pictures, printed reports and JSON (formatting); the set-up of
virtual machines and containers and of ftrace filters (I/O of the host);
`unit_file_harness.c` (a straight line of commands to systemd whose failures are
ignored); `run_feedback_comparison.sh` and PoC two's launchers and reset, which follow the
protocol of `CampaignScripts` with fewer steps; AFL++ itself, whose hook
`__afl_coverage_interesting` is taken to store a value at an id, and whose
queue is any that contains its seeds. `PROJECT.json` lists every part with its
status.

Seen while modelling, and stated by no run, because no property of the program
is at stake or the line is outside what is modelled:

- `preselect_queue.py:13-14` keeps "lifecycle/query/... operations"; operation 9
  (`list-services`) is of the query family in both tables and is not in
  `FAST_SAFE_OPS`.
- `run_experiment_matrix.sh` passes `--command-reseed-round` to
  `plot_comparison.py`, which has no such option: the plot is always
  reported as skipped.
- `PoC_two/scripts/analyze_queue.py:164` formats the percentage, which is `None` for a
  ground truth without states.
- A queue of which every replay failed is reported by PoC two's plot as one without files.
- The unit-file loop preselects and buckets its inputs as if they were command
  sequences.
- The reset kills process ids it has read a second before.

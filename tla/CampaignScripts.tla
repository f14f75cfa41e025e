---------------------------- MODULE CampaignScripts ----------------------------
(***************************************************************************)
(* The scripts that start and reset PoC one's campaigns, typed in several  *)
(* terminals: run_tmux_campaigns.sh, run_baseline.sh, run_sysfeedback.sh   *)
(* and reset_experiments.sh.  They share the build directory with its one  *)
(* poc_one, the copies in runs/bin, the tmux session, the fuzzers and the  *)
(* output directories.  A step is a command of a script, or what a window  *)
(* does until its afl-fuzz runs; make is one step, and a campaign of       *)
(* run_tmux_campaigns.sh has one window of each kind.  PoC two's scripts   *)
(* of the same names follow the same protocol.                             *)
(***************************************************************************)
EXTENDS Integers, FiniteSets, Sequences

CONSTANTS Terminals, NoFile, MaxScripts   \* bound: scripts started in all

Kinds == {"baseline", "sysfeedback"}

ASSUME ConstantsAssumption == NoFile \notin Kinds /\ MaxScripts \in Nat

Launchers == {"tmux", "baseline", "sysfeedback"}
Resets == {"reset", "stop-only", "clean-only"}

VARIABLES
  objects, poc_one,    \* in ROOT_DIR: the kind they were compiled for, or NoFile
  bin,                 \* runs/bin: for each kind NoFile, or the copy of what by whom
  dirs,                \* output directories: "runs" and those of the single campaigns
  session,             \* the tmux session is there
  windows,             \* its windows whose command is not at afl-fuzz yet
  fuzzers,             \* afl-fuzz processes
  term,                \* what runs in every terminal
  started,             \* scripts started so far
  raced,               \* history: two builds have overlapped
  disturbed            \* history: resets during which a launcher was at work,
                       \* or for --clean-only a window was still starting

build == <<objects, poc_one, bin>>
vars == <<build, dirs, session, windows, fuzzers, term, started, raced, disturbed>>

Idle == [script |-> "none", at |-> "idle", id |-> 0, todo |-> << >>, pids |-> {}]

Init ==
  /\ objects = NoFile /\ poc_one = NoFile /\ bin = [k \in Kinds |-> NoFile]
  /\ dirs = {} /\ session = FALSE /\ windows = {} /\ fuzzers = {}
  /\ term = [t \in Terminals |-> Idle] /\ started = 0
  /\ raced = FALSE /\ disturbed = {}

At(t, step) == term[t].at = step
Goto(t, step) == term' = [term EXCEPT ![t].at = step]
\* The script ends, also by set -e.
End(t) == term' = [term EXCEPT ![t] = Idle]
\* The kind a launcher is at, or the directory a reset is at; then the next.
Kind(t) == Head(term[t].todo)
NextTodo(t, step) ==
  term' = [term EXCEPT ![t].todo = Tail(@),
                       ![t].at = IF Len(term[t].todo) > 1 THEN @ ELSE step]

Building(t) == term[t].at \in {"clean", "make", "copy", "fuzz"}
Launching(t) == Building(t) \/ term[t].at \in {"check", "windows"}
Resetting(t) == term[t].script \in Resets

\* A script is typed: tmux builds both kinds, the others their own.
StartLauncher(t, script) ==
  /\ At(t, "idle") /\ started < MaxScripts /\ started' = started + 1
  /\ term' = [term EXCEPT ![t] =
       [ script |-> script, at |-> "clean", id |-> started', pids |-> {},
         todo |-> IF script = "tmux" THEN <<"baseline", "sysfeedback">> ELSE <<script>> ]]
  /\ dirs' = IF script = "tmux" THEN dirs \union {"runs"} ELSE dirs
  /\ raced' = (raced \/ \E u \in Terminals : Building(u))
  /\ disturbed' = disturbed \union { u \in Terminals : Resetting(u) }
  /\ UNCHANGED <<build, session, windows, fuzzers>>

StartReset(t, script) ==
  /\ At(t, "idle") /\ started < MaxScripts /\ started' = started + 1
  /\ term' = [term EXCEPT ![t] =
       [ script |-> script, at |-> IF script = "clean-only" THEN "remove" ELSE "session",
         id |-> started', pids |-> {}, todo |-> <<"baseline", "sysfeedback", "runs">> ]]
  /\ disturbed' = IF \/ \E u \in Terminals : Launching(u)
                     \/ script = "clean-only" /\ windows # {}
                    THEN disturbed \union {t} ELSE disturbed \ {t}
  /\ UNCHANGED <<build, dirs, session, windows, fuzzers, raced>>

\* make clean
Clean(t) ==
  /\ At(t, "clean") /\ Goto(t, "make")
  /\ objects' = NoFile /\ poc_one' = NoFile
  /\ UNCHANGED <<bin, dirs, session, windows, fuzzers, started, raced, disturbed>>

\* make [sysfeedback]: what is there is up to date, but the rule of
\* sysfeedback cleans once more.
Make(t) ==
  /\ At(t, "make") /\ Goto(t, IF term[t].script = "tmux" THEN "copy" ELSE "fuzz")
  /\ objects' = IF Kind(t) = "sysfeedback" \/ objects = NoFile THEN Kind(t) ELSE objects
  /\ poc_one' = IF Kind(t) = "sysfeedback" \/ poc_one = NoFile THEN objects' ELSE poc_one
  /\ UNCHANGED <<bin, dirs, session, windows, fuzzers, started, raced, disturbed>>

program(kind, id) == [of |-> kind, id |-> id]

\* A program that is being executed cannot be written to.
busy(kind) == \E f \in fuzzers : f.target = bin[kind]

\* cp, then the next kind or the check for a session.
Copy(t) ==
  /\ At(t, "copy")
  /\ IF poc_one = NoFile \/ "runs" \notin dirs \/ busy(Kind(t))
       THEN End(t) /\ UNCHANGED bin
       ELSE /\ bin' = [bin EXCEPT ![Kind(t)] = program(poc_one, term[t].id)]
            /\ term' = [term EXCEPT ![t].todo = Tail(@),
                          ![t].at = IF Len(term[t].todo) > 1 THEN "clean" ELSE "check"]
  /\ UNCHANGED <<objects, poc_one, dirs, session, windows, fuzzers, started, raced, disturbed>>

CheckSession(t) ==
  /\ At(t, "check")
  /\ IF session THEN End(t) /\ UNCHANGED session
     ELSE /\ session' = TRUE
          /\ term' = [term EXCEPT ![t].at = "windows",
                                  ![t].todo = <<"baseline", "sysfeedback">>]
  /\ UNCHANGED <<build, dirs, windows, fuzzers, started, raced, disturbed>>

\* A campaign as its script starts it, and its afl-fuzz.
job(t) == [terminal |-> t, pid |-> term[t].id, kind |-> Kind(t)]

fuzzer(w, target, window, out) ==
  [ terminal |-> w.terminal, pid |-> w.pid, kind |-> w.kind, target |-> target,
    window |-> window, out |-> out ]

\* new-window, which fails without the session; when runs is gone there is no
\* command file, and a window on which nothing runs.
OpenWindow(t) ==
  /\ At(t, "windows")
  /\ IF ~session THEN End(t) /\ UNCHANGED windows
     ELSE /\ windows' = IF "runs" \notin dirs THEN windows
                        ELSE windows \union {job(t)}
          /\ IF Len(term[t].todo) = 1 THEN End(t) ELSE NextTodo(t, "windows")
  /\ UNCHANGED <<build, dirs, session, fuzzers, started, raced, disturbed>>

\* A mutant: windows fuzz the program in the build directory.
target_bin_shared(kind) == IF poc_one = NoFile THEN NoFile ELSE program(poc_one, 0)

target_bin(kind) == bin[kind]

\* A window's command file, unless it is gone by now or fails: mkdir -p makes
\* the directories again, and afl-fuzz gives up when the copy is not there.
RunWindow(w) ==
  /\ w \in windows /\ windows' = windows \ {w}
  /\ \/ UNCHANGED <<dirs, fuzzers>>
     \/ /\ dirs' = dirs \union {"runs"}
        /\ fuzzers' = IF target_bin(w.kind) = NoFile THEN fuzzers
                      ELSE fuzzers \union {fuzzer(w, target_bin(w.kind), TRUE, "runs")}
  /\ UNCHANGED <<build, session, term, started, raced, disturbed>>

\* run_baseline.sh, run_sysfeedback.sh: afl-fuzz on poc_one, in the terminal.
FuzzHere(t) ==
  /\ At(t, "fuzz")
  /\ IF poc_one = NoFile THEN End(t) /\ UNCHANGED <<fuzzers, dirs>>
     ELSE /\ Goto(t, "fuzzing") /\ dirs' = dirs \union {Kind(t)}
          /\ fuzzers' = fuzzers \union {fuzzer(job(t), program(poc_one, 0), FALSE, Kind(t))}
  /\ UNCHANGED <<build, session, windows, started, raced, disturbed>>

\* The terminals whose script waits for one of some fuzzers.
waiting(ended) ==
  { t \in Terminals : At(t, "fuzzing") /\ \E f \in ended : f.terminal = t /\ ~f.window }

Gone(ended) ==
  /\ fuzzers' = fuzzers \ ended
  /\ term' = [t \in Terminals |-> IF t \in waiting(ended) THEN Idle ELSE term[t]]

\* By itself, or because it was asked to.
FuzzerEnds(f) ==
  /\ f \in fuzzers /\ Gone({f})
  /\ UNCHANGED <<build, dirs, session, windows, started, raced, disturbed>>

\* kill-session hangs up the windows: the shell of a command file dies of it,
\* afl-fuzz is only asked to end.
StopSession(t) ==
  /\ At(t, "session") /\ Goto(t, "pgrep")
  /\ session' = FALSE /\ windows' = {}
  /\ UNCHANGED <<build, dirs, fuzzers, started, raced, disturbed>>

after_stop(t) == IF term[t].script = "stop-only" THEN "done" ELSE "remove"

\* pgrep, and SIGTERM to every process found.
ListFuzzers(t) ==
  /\ At(t, "pgrep")
  /\ term' = [term EXCEPT ![t].pids = fuzzers,
                          ![t].at = IF fuzzers = {} THEN after_stop(t) ELSE "kill"]
  /\ UNCHANGED <<build, dirs, session, windows, fuzzers, started, raced, disturbed>>

\* A mutant: SIGTERM is trusted.
survivors_spared(pids) == {}

survivors(pids) == pids \intersect fuzzers

\* A second later: SIGKILL to those of the list that are still there.
KillFuzzers(t) ==
  /\ At(t, "kill")
  /\ LET killed == survivors(term[t].pids) IN
       /\ fuzzers' = fuzzers \ killed
       /\ term' = [u \in Terminals |->
            IF u = t THEN [term[t] EXCEPT !.at = after_stop(t)]
            ELSE IF u \in waiting(killed) THEN Idle ELSE term[u]]
  /\ UNCHANGED <<build, dirs, session, windows, started, raced, disturbed>>

\* rm -rf of the next directory; it may fail under a fuzzer or a window
\* that adds files, and the script with it.
RemoveDir(t) ==
  /\ At(t, "remove")
  /\ \/ /\ dirs' = dirs \ {Kind(t)}
        /\ bin' = IF Kind(t) = "runs" THEN [k \in Kinds |-> NoFile] ELSE bin
        /\ NextTodo(t, "done")
     \/ /\ Kind(t) \in dirs
        /\ (\E f \in fuzzers : f.out = Kind(t)) \/ (Kind(t) = "runs" /\ windows # {})
        /\ End(t) /\ UNCHANGED <<dirs, bin>>
  /\ UNCHANGED <<objects, poc_one, session, windows, fuzzers, started, raced, disturbed>>

\* "Experiment reset complete"
ResetDone(t) ==
  /\ At(t, "done") /\ End(t)
  /\ UNCHANGED <<build, dirs, session, windows, fuzzers, started, raced, disturbed>>

Launch(t) == Clean(t) \/ Make(t) \/ Copy(t) \/ CheckSession(t) \/ OpenWindow(t) \/ FuzzHere(t)

Reset(t) == StopSession(t) \/ ListFuzzers(t) \/ KillFuzzers(t) \/ RemoveDir(t) \/ ResetDone(t)

Next ==
  \/ \E t \in Terminals :
       \/ \E script \in Launchers : StartLauncher(t, script)
       \/ \E script \in Resets : StartReset(t, script)
       \/ Launch(t) \/ Reset(t)
  \/ \E w \in windows : RunWindow(w)
  \/ \E f \in fuzzers : FuzzerEnds(f)

Spec == Init /\ [][Next]_vars

-----------------------------------------------------------------------------
(* Properties.                                                             *)

\* run_tmux_campaigns.sh:12-14: targets are copied "so many tmux jobs do not
\* race through make clean/build": as long as no two builds overlap, every
\* fuzzer runs the target its campaign is named after, whatever is rebuilt,
\* reset or started later.  Two builds that do overlap are not kept apart.
TargetsOfTheirKind == ~raced => \A f \in fuzzers : f.target.of = f.kind

\* reset_experiments.sh:17-22: a reset that reports its completion, while no
\* launcher was at work and, with --clean-only, no window was starting, leaves
\* no fuzzer, no window that could start one and no session, and unless told
\* otherwise no output: the next run "starts from a clean slate".
CleanSlate ==
  \A t \in Terminals \ disturbed : At(t, "done") =>
    /\ term[t].script # "clean-only" => fuzzers = {} /\ windows = {} /\ ~session
    /\ term[t].script # "stop-only" => dirs = {} /\ \A k \in Kinds : bin[k] = NoFile
================================================================================

-------------------------- MODULE SyscallExerciser --------------------------
(***************************************************************************)
(* PoC one's target: main.c's run_input over executor.c and feedback.c.    *)
(*                                                                         *)
(* Procs are campaigns: each runs the target again and again, one input    *)
(* after the other, on a scratch directory (/tmp/afl-syscall-poc) and a    *)
(* port space that all of them share.  A run is cut into the system calls  *)
(* it makes, so the steps of concurrent campaigns interleave between them, *)
(* and SIGALRM (the 500 ms timer, default action) may kill it at any step: *)
(* the kernel then takes back its descriptors, mappings and ports, but     *)
(* what it left in the scratch directory stays for the next run.           *)
(***************************************************************************)
EXTENDS SyscallOps

CONSTANTS
  Procs,      \* campaigns that share the scratch directory
  Inputs,     \* the testcase files, as sequences of bytes
  Builds,     \* the builds of poc_one a campaign may find: [feedback, afl]
  MaxRuns     \* bound: executions a campaign makes

ASSUME ExerciserAssumption ==
  /\ Inputs \subseteq Seq(Byte)
  /\ Builds \subseteq [feedback : BOOLEAN, afl : BOOLEAN]
  /\ MaxRuns \in Nat

VARIABLES
  pc, build, timer, runs,        \* the process: where it is, what it executes
  buf, i, prev1, prev2,          \* main's buffer, run_input's locals
  steps, held, ret, errno,       \* execute_safe_syscall: steps left, what it holds
  seen, calls, cells,            \* features recorded, record_feature calls, the map
  trace,                         \* KIDNAP_TRACE_SYSCALLS lines on stderr
  files, ports                   \* shared: names in the scratch directory, bound ports

procVars == <<pc, build, timer, runs>>
loopVars == <<buf, i, prev1, prev2>>
execVars == <<steps, held, ret, errno>>
feedbackVars == <<seen, calls, cells>>
sharedVars == <<files, ports>>
vars == <<procVars, loopVars, execVars, feedbackVars, trace, sharedVars>>

Ended == {"idle", "exited", "usage", "killed"}
Running == {"loop", "syscall", "seq2", "seq3", "exec"}
Files == {"dir", "scratch", "link", "subdir", "victim"}   \* "missing" is never made

\* The operation process p is executing, and its bytes.
args(p) == decode_op(buf[p], i[p])
op(p) == op_at(buf[p], i[p])

Init ==
  /\ pc = [p \in Procs |-> "idle"]
  /\ build \in [Procs -> Builds]
  /\ timer = [p \in Procs |-> FALSE]
  /\ runs = [p \in Procs |-> 0]
  /\ buf = [p \in Procs |-> <<>>]
  /\ i = [p \in Procs |-> 0]
  /\ prev1 = [p \in Procs |-> NoOp]
  /\ prev2 = [p \in Procs |-> NoOp]
  /\ steps = [p \in Procs |-> <<>>]
  /\ held = [p \in Procs |-> {}]
  /\ ret = [p \in Procs |-> 0]
  /\ errno = [p \in Procs |-> "0"]
  /\ seen = [p \in Procs |-> {}]
  /\ calls = [p \in Procs |-> 0]
  /\ cells = [p \in Procs |-> [s \in 0..(MapSize - 1) |-> 0]]
  /\ trace = [p \in Procs |-> <<>>]
  /\ files = {}
  /\ ports = {}

-----------------------------------------------------------------------------
(* main and the loop of run_input.                                         *)

\* A mutant: the interval timer is set up but never armed.
install_timeout_disarmed(p) == timer' = [timer EXCEPT ![p] = FALSE]

install_timeout(p) == timer' = [timer EXCEPT ![p] = TRUE]

\* A fresh process: nothing of the previous run's memory is left.
Main(p) ==
  /\ pc[p] \in Ended /\ runs[p] < MaxRuns
  /\ install_timeout(p)
  /\ runs' = [runs EXCEPT ![p] = @ + 1]
  /\ \E b \in Builds, file \in Inputs :
       /\ build' = [build EXCEPT ![p] = b]
       /\ buf' = [buf EXCEPT ![p] = read_input(file)]
       /\ pc' = [pc EXCEPT ![p] = IF read_input(file) = <<>> THEN "exited" ELSE "loop"]
  /\ i' = [i EXCEPT ![p] = 0]
  /\ prev1' = [prev1 EXCEPT ![p] = NoOp]
  /\ prev2' = [prev2 EXCEPT ![p] = NoOp]
  /\ steps' = [steps EXCEPT ![p] = <<>>]
  /\ ret' = [ret EXCEPT ![p] = 0]
  /\ errno' = [errno EXCEPT ![p] = "0"]
  /\ seen' = [seen EXCEPT ![p] = {}]
  /\ calls' = [calls EXCEPT ![p] = 0]
  /\ cells' = [cells EXCEPT ![p] = [s \in 0..(MapSize - 1) |-> 0]]
  /\ trace' = [trace EXCEPT ![p] = <<>>]
  /\ UNCHANGED <<held, sharedVars>>

\* More than one argument: main returns 2 before it reads anything.
MainUsage(p) ==
  /\ pc[p] \in Ended /\ runs[p] < MaxRuns
  /\ runs' = [runs EXCEPT ![p] = @ + 1]
  /\ pc' = [pc EXCEPT ![p] = "usage"]
  /\ buf' = [buf EXCEPT ![p] = <<>>]
  /\ i' = [i EXCEPT ![p] = 0]
  /\ prev1' = [prev1 EXCEPT ![p] = NoOp]
  /\ prev2' = [prev2 EXCEPT ![p] = NoOp]
  /\ seen' = [seen EXCEPT ![p] = {}]
  /\ calls' = [calls EXCEPT ![p] = 0]
  /\ cells' = [cells EXCEPT ![p] = [s \in 0..(MapSize - 1) |-> 0]]
  /\ trace' = [trace EXCEPT ![p] = <<>>]
  /\ UNCHANGED <<build, timer, execVars, sharedVars>>

\* A mutant: the loop runs over the whole buffer instead of MAX_OPS operations.
more_ops_unbounded(p) == i[p] + OP_SIZE <= Len(buf[p])

\* The loop condition; a partial trailing operation is never decoded.
more_ops(p) == i[p] + OP_SIZE <= usable(buf[p])

\* execute_safe_syscall begins: errno is cleared, the plan is laid out.
enter_executor(p) ==
  /\ pc' = [pc EXCEPT ![p] = "exec"]
  /\ steps' = [steps EXCEPT ![p] = Plan(op(p), args(p))]
  /\ ret' = [ret EXCEPT ![p] = -1]
  /\ errno' = [errno EXCEPT ![p] = "0"]
  /\ UNCHANGED held

\* The head of an iteration: the feedback build goes through its three
\* feedback calls, the baseline build straight to the executor.
NextOp(p) ==
  /\ pc[p] = "loop" /\ more_ops(p)
  /\ IF build[p].feedback
       THEN pc' = [pc EXCEPT ![p] = "syscall"] /\ UNCHANGED execVars
       ELSE enter_executor(p)
  /\ UNCHANGED <<build, timer, runs, loopVars, feedbackVars, trace, sharedVars>>

\* What the kernel takes back when a process ends.
reap(p) ==
  /\ timer' = [timer EXCEPT ![p] = FALSE]
  /\ held' = [held EXCEPT ![p] = {}]
  /\ ports' = { b \in ports : b.owner # p }

\* run_input returns 0; the process and its timer are gone.
EndOfInput(p) ==
  /\ pc[p] = "loop" /\ ~more_ops(p)
  /\ pc' = [pc EXCEPT ![p] = "exited"]
  /\ reap(p)
  /\ UNCHANGED <<build, runs, loopVars, steps, ret, errno, feedbackVars, trace, files>>

\* SIGALRM: the default action terminates the process wherever it is.
Alarm(p) ==
  /\ timer[p] /\ pc[p] \in Running
  /\ pc' = [pc EXCEPT ![p] = "killed"]
  /\ reap(p)
  /\ UNCHANGED <<build, runs, loopVars, steps, ret, errno, feedbackVars, trace, files>>

-----------------------------------------------------------------------------
(* The feedback calls.                                                     *)

\* One call of record_feature.
Record(p, f) ==
  /\ seen' = [seen EXCEPT ![p] = @ \union {f}]
  /\ calls' = [calls EXCEPT ![p] = @ + 1]
  /\ cells' = [cells EXCEPT ![p] = record_feature(@, build[p].afl, f)]

FeedbackSyscall(p) ==
  /\ pc[p] = "syscall"
  /\ Record(p, SYSCALL(op(p)))
  /\ pc' = [pc EXCEPT ![p] = "seq2"]
  /\ UNCHANGED <<build, timer, runs, loopVars, execVars, trace, sharedVars>>

FeedbackSeq2(p) ==
  /\ pc[p] = "seq2"
  /\ IF prev1[p] # NoOp THEN Record(p, SEQ2(prev1[p], op(p)))
                        ELSE UNCHANGED feedbackVars
  /\ pc' = [pc EXCEPT ![p] = "seq3"]
  /\ UNCHANGED <<build, timer, runs, loopVars, execVars, trace, sharedVars>>

FeedbackSeq3(p) ==
  /\ pc[p] = "seq3"
  /\ IF prev2[p] # NoOp THEN Record(p, SEQ3(prev2[p], prev1[p], op(p)))
                        ELSE UNCHANGED feedbackVars
  /\ enter_executor(p)
  /\ UNCHANGED <<build, timer, runs, loopVars, trace, sharedVars>>

\* A mutant: prev2 is shifted after prev1 was overwritten.
shift_in_wrong_order(p) ==
  /\ prev1' = [prev1 EXCEPT ![p] = op(p)]
  /\ prev2' = [prev2 EXCEPT ![p] = op(p)]

shift(p) ==
  /\ prev2' = [prev2 EXCEPT ![p] = prev1[p]]
  /\ prev1' = [prev1 EXCEPT ![p] = op(p)]

\* A mutant: errno is reported for successful operations as well.
err_unconditional(p) == errno[p]

\* run_input's err: errno is read only when the operation failed.
err(p) == IF ret[p] < 0 THEN errno[p] ELSE "0"

\* execute_safe_syscall has returned: ERRNO feedback, the trace line, the
\* shift of the two previous operations (feedback build only), the next i.
AfterOp(p) ==
  /\ pc[p] = "exec" /\ steps[p] = <<>>
  /\ IF build[p].feedback /\ ret[p] < 0 THEN Record(p, ERRNO(op(p), err(p)))
                                        ELSE UNCHANGED feedbackVars
  /\ trace' = [trace EXCEPT ![p] =
       Append(@, [index |-> i[p] \div OP_SIZE, sysno |-> op(p), err |-> err(p)])]
  /\ IF build[p].feedback THEN shift(p) ELSE UNCHANGED <<prev1, prev2>>
  /\ i' = [i EXCEPT ![p] = @ + OP_SIZE]
  /\ pc' = [pc EXCEPT ![p] = "loop"]
  /\ UNCHANGED <<build, timer, runs, buf, execVars, sharedVars>>

-----------------------------------------------------------------------------
(* The steps of execute_safe_syscall.  pc and what run_input owns do not   *)
(* change while they run.                                                  *)

at(p, step) == pc[p] = "exec" /\ steps[p] # <<>> /\ Head(steps[p]) = step

outsideExecutor == <<procVars, loopVars, feedbackVars, trace>>

advance(p) == steps' = [steps EXCEPT ![p] = Tail(@)]

set_errno(p, e) == errno' = [errno EXCEPT ![p] = e]

hold(p, names) == held' = [held EXCEPT ![p] = @ \union names]

\* An early return of -1: the rest of the plan is not executed.
return_error(p, e) ==
  /\ steps' = [steps EXCEPT ![p] = <<>>]
  /\ ret' = [ret EXCEPT ![p] = -1]
  /\ set_errno(p, e)

\* ensure_temp_dir: makes the directory or gives up silently.
EnsureTempDir(p) ==
  /\ at(p, "ensure") /\ advance(p)
  /\ \/ "dir" \in files /\ set_errno(p, "EEXIST") /\ UNCHANGED files
     \/ "dir" \notin files /\ files' = files \union {"dir"} /\ UNCHANGED errno
     \/ "dir" \notin files /\ set_errno(p, "EOTHER") /\ UNCHANGED files
  /\ UNCHANGED <<outsideExecutor, held, ret, ports>>

\* open_temp_file (every caller passes O_CREAT).
OpenTemp(p) ==
  /\ at(p, "openTemp")
  /\ \/ /\ "dir" \in files /\ files' = files \union {"scratch"}
        /\ hold(p, {"fd"}) /\ advance(p) /\ UNCHANGED <<ret, errno>>
     \/ "dir" \notin files /\ return_error(p, "ENOENT") /\ UNCHANGED <<held, files>>
     \/ return_error(p, "EMFILE") /\ UNCHANGED <<held, files>>
  /\ UNCHANGED <<outsideExecutor, ports>>

OpenSock(p) ==
  /\ at(p, "openSock")
  /\ \/ hold(p, {"sock"}) /\ advance(p) /\ UNCHANGED <<ret, errno>>
     \/ return_error(p, "EMFILE") /\ UNCHANGED held
  /\ UNCHANGED <<outsideExecutor, sharedVars>>

\* mmap_region: the address is the result of OP_MMAP.
Mmap(p) ==
  /\ at(p, "mmap")
  /\ \/ /\ hold(p, {"region"}) /\ advance(p)
        /\ ret' = [ret EXCEPT ![p] = 0] /\ UNCHANGED errno
     \/ return_error(p, "EOTHER") /\ UNCHANGED held
  /\ UNCHANGED <<outsideExecutor, sharedVars>>

\* OP_UNLINKAT creates its victim; a failure is not looked at.
OpenVictim(p) ==
  /\ at(p, "openVictim") /\ advance(p)
  /\ \/ /\ "dir" \in files /\ files' = files \union {"victim"}
        /\ hold(p, {"fd"}) /\ UNCHANGED errno
     \/ set_errno(p, IF "dir" \in files THEN "EMFILE" ELSE "ENOENT") /\ UNCHANGED <<held, files>>
  /\ UNCHANGED <<outsideExecutor, ret, ports>>

\* A mutant: OP_READLINKAT unlinks the scratch file instead of the link.
unlink_target_swapped == "scratch"

unlink_target == "link"

\* unlink(TEMP_LINK): the result is not looked at.
UnlinkLink(p) ==
  /\ at(p, "unlinkLink") /\ advance(p)
  /\ files' = files \ {unlink_target}
  /\ IF unlink_target \in files THEN UNCHANGED errno ELSE set_errno(p, "ENOENT")
  /\ UNCHANGED <<outsideExecutor, held, ret, ports>>

\* symlink(TEMP_FILE, TEMP_LINK): an existing link is good enough.
Symlink(p) ==
  /\ at(p, "symlink")
  /\ \/ "link" \in files /\ set_errno(p, "EEXIST") /\ advance(p) /\ UNCHANGED <<ret, files>>
     \/ /\ "dir" \in files /\ "link" \notin files
        /\ files' = files \union {"link"} /\ advance(p) /\ UNCHANGED <<ret, errno>>
     \/ /\ "link" \notin files
        /\ return_error(p, IF "dir" \in files THEN "EOTHER" ELSE "ENOENT") /\ UNCHANGED files
  /\ UNCHANGED <<outsideExecutor, held, ports>>

\* A mutant: close's own errno is left behind when the close fails.
close_preserve_errno_clobbered(p) ==
  errno' \in { [errno EXCEPT ![p] = e] : e \in {errno[p], "EIO"} }

\* close may fail (EIO) but errno is saved before and restored after it.
close_preserve_errno(p) ==
  LET saved_errno == errno[p] IN set_errno(p, saved_errno)

\* Closing a descriptor that was never opened (-1) does nothing.
CloseStep(p) ==
  /\ \E step \in {"closeFd", "closeSock", "closeRet", "closePipe0", "closePipe1"} :
       /\ at(p, step)
       /\ held' = [held EXCEPT ![p] = @ \ ReleasedBy(step)]
       /\ ports' = IF step = "closeSock" THEN { b \in ports : b.owner # p } ELSE ports
  /\ close_preserve_errno(p)
  /\ advance(p)
  /\ UNCHANGED <<outsideExecutor, ret, files>>

\* Unmapping a whole mapping of the process does not fail.
MunmapStep(p) ==
  /\ at(p, "munmap") \/ at(p, "callMunmap")
  /\ held' = [held EXCEPT ![p] = @ \ {"region"}]
  /\ ret' = IF at(p, "callMunmap") THEN [ret EXCEPT ![p] = 0] ELSE ret
  /\ advance(p)
  /\ UNCHANGED <<outsideExecutor, errno, sharedVars>>

-----------------------------------------------------------------------------
(* The tested system call.                                                 *)

calling(p) == at(p, "call") /\ advance(p) /\ UNCHANGED outsideExecutor

returns(p, r, e) ==
  /\ ret' = [ret EXCEPT ![p] = r]
  /\ IF r < 0 THEN set_errno(p, e) ELSE UNCHANGED errno

bad_fd(p) == op(p) \in NeedsFd /\ ~selects_valid_fd(op(p), args(p))

CallBadFd(p) ==
  /\ calling(p) /\ bad_fd(p)
  /\ returns(p, -1, "EBADF")
  /\ UNCHANGED <<held, sharedVars>>

\* An error of the kernel's own, or of the arguments: for any operation.
CallFails(p) ==
  /\ calling(p) /\ ~bad_fd(p)
  /\ returns(p, -1, "EOTHER")
  /\ UNCHANGED <<held, sharedVars>>

\* A port of the loopback interface belongs to one socket at a time.
CallBind(p) ==
  /\ calling(p) /\ op(p) = "bind" /\ ~bad_fd(p)
  /\ IF \E b \in ports : b.port = args(p).arg1
       THEN returns(p, -1, "EADDRINUSE") /\ UNCHANGED ports
       ELSE /\ returns(p, 0, "0")
            /\ ports' = ports \union {[port |-> args(p).arg1, owner |-> p]}
  /\ UNCHANGED <<held, files>>

\* statx, faccessat and readlinkat look a name up and change nothing.
looked_up(p) ==
  IF odd(args(p).arg0) THEN "missing" ELSE IF op(p) = "readlinkat" THEN "link" ELSE "scratch"

CallLookup(p) ==
  /\ calling(p) /\ op(p) \in {"statx", "faccessat", "readlinkat"}
  /\ returns(p, IF looked_up(p) \in files THEN 0 ELSE -1, "ENOENT")
  /\ UNCHANGED <<held, sharedVars>>

CallOpenat(p) ==
  /\ calling(p) /\ op(p) = "openat"
  /\ IF odd(args(p).arg0) \/ "dir" \notin files
       THEN returns(p, -1, "ENOENT") /\ UNCHANGED <<held, files>>
       ELSE returns(p, 0, "0") /\ hold(p, {"ret"}) /\ files' = files \union {"scratch"}
  /\ UNCHANGED ports

\* A mutant: an existing directory is reported as the error it is.
mkdirat_result_raw == [ret |-> -1, errno |-> "EEXIST"]

\* An existing directory counts as success.
mkdirat_result == [ret |-> 0, errno |-> "0"]

CallMkdirat(p) ==
  /\ calling(p) /\ op(p) = "mkdirat"
  /\ CASE "dir" \notin files   -> returns(p, -1, "ENOENT") /\ UNCHANGED files
       [] "subdir" \in files   -> /\ ret' = [ret EXCEPT ![p] = mkdirat_result.ret]
                                  /\ set_errno(p, mkdirat_result.errno)
                                  /\ UNCHANGED files
       [] OTHER -> returns(p, 0, "0") /\ files' = files \union {"subdir"}
  /\ UNCHANGED <<held, ports>>

CallUnlinkat(p) ==
  /\ calling(p) /\ op(p) = "unlinkat"
  /\ returns(p, IF "victim" \in files THEN 0 ELSE -1, "ENOENT")
  /\ files' = files \ {"victim"}
  /\ UNCHANGED <<held, ports>>

\* Every other call succeeds, creating the descriptors it returns.
CallSucceeds(p) ==
  /\ calling(p) /\ ~bad_fd(p)
  /\ op(p) \notin {"bind", "statx", "faccessat", "readlinkat", "openat", "mkdirat", "unlinkat"}
  /\ returns(p, 0, "0")
  /\ hold(p, CreatedByCall(op(p)))
  /\ UNCHANGED sharedVars

-----------------------------------------------------------------------------

Helper(p) ==
  \/ EnsureTempDir(p) \/ OpenTemp(p) \/ OpenSock(p) \/ Mmap(p) \/ OpenVictim(p)
  \/ UnlinkLink(p) \/ Symlink(p) \/ CloseStep(p) \/ MunmapStep(p)

Call(p) ==
  \/ CallBadFd(p) \/ CallFails(p) \/ CallBind(p) \/ CallLookup(p) \/ CallOpenat(p)
  \/ CallMkdirat(p) \/ CallUnlinkat(p) \/ CallSucceeds(p)

RunInput(p) ==
  \/ NextOp(p) \/ FeedbackSyscall(p) \/ FeedbackSeq2(p) \/ FeedbackSeq3(p)
  \/ AfterOp(p) \/ EndOfInput(p)

Next ==
  \E p \in Procs : Main(p) \/ MainUsage(p) \/ RunInput(p) \/ Helper(p) \/ Call(p) \/ Alarm(p)

Spec == Init /\ [][Next]_vars

\* Nothing obliges the kernel to finish a call; the one-shot real-time timer
\* fires whatever the process is doing.
FairSpec == Spec /\ \A p \in Procs : WF_vars(Alarm(p))

-----------------------------------------------------------------------------
(* Properties.                                                             *)

\* The type invariant: every variable of main.c, executor.c and feedback.c
\* has the range its C type and its uses give it.
TypeOK ==
  /\ pc \in [Procs -> Ended \union Running]
  /\ build \in [Procs -> Builds]
  /\ timer \in [Procs -> BOOLEAN]
  /\ runs \in [Procs -> 0..MaxRuns]
  /\ buf \in [Procs -> Seq(Byte)]
  /\ i \in [Procs -> Nat]
  /\ prev1 \in [Procs -> Ops \union {NoOp}]
  /\ prev2 \in [Procs -> Ops \union {NoOp}]
  /\ steps \in [Procs -> Seq(Steps)]
  /\ held \in [Procs -> SUBSET Holders]
  /\ ret \in [Procs -> {0, -1}]
  /\ errno \in [Procs -> Errnos]
  /\ seen \in [Procs -> SUBSET Feature]
  /\ calls \in [Procs -> Nat]
  /\ cells \in [Procs -> [0..(MapSize - 1) -> Byte]]
  /\ trace \in [Procs -> Seq([index : Nat, sysno : Ops, err : Errnos])]
  /\ files \subseteq Files
  /\ ports \subseteq [port : Byte, owner : Procs]

\* Byte offsets of the operations that end at or before byte n.
offsets(n) == { j \in 0..(n - OP_SIZE) : j % OP_SIZE = 0 }

\* The features of the operations whose bytes end in the first n1 bytes of a
\* buffer, of the pairs starting there up to n2 and the triples up to n3.
grams(b, n1, n2, n3) ==
  { SYSCALL(op_at(b, j)) : j \in offsets(n1) }
    \union { SEQ2(op_at(b, j), op_at(b, j + 4)) : j \in offsets(n2) }
    \union { SEQ3(op_at(b, j), op_at(b, j + 4), op_at(b, j + 8)) : j \in offsets(n3) }

\* The n-grams of the operations in the first n bytes of a buffer.
ngrams(b, n) == grams(b, n, n - 4, n - 8)

sequence_features(features) == { f \in features : f[1] # "ERRNO" }

\* Between two operations, and at the end of a run, the SYSCALL, SEQ2 and
\* SEQ3 features a feedback build has reported are exactly the one-, two- and
\* three-grams of the operations executed so far: none missing at the start
\* of the sequence, none across a shift of prev1 and prev2 in the wrong
\* order.
NgramFeatures ==
  \A p \in Procs : pc[p] \in {"loop", "exited"} =>
    sequence_features(seen[p]) =
      (IF build[p].feedback THEN ngrams(buf[p], i[p]) ELSE {})

\* A feature that was recorded stays visible in the map: whatever collides
\* with it, its cell is not zero.  In the fallback map this needs the counter
\* not to wrap, which holds because MAX_OPS operations record fewer than 256
\* features.
MapKeepsFeatures ==
  \A p \in Procs : \A f \in seen[p] : cells[p][slot(build[p].afl, f)] # 0

\* feedback.c:97 "Reserve id 0": no feature of an AFL++ build lands in cell 0.
IdZeroReserved ==
  \A p \in Procs : build[p].afl => cells[p][0] = 0

\* README.md:31 "closed or unmapped immediately": whenever the executor is
\* not inside an operation the process holds no descriptor, no mapping and no
\* port, whichever call of the operation failed.
NothingHeldBetweenOps ==
  \A p \in Procs : pc[p] # "exec" =>
    held[p] = {} /\ \A b \in ports : b.owner # p

\* When an operation has failed, errno is the one of the call that made it
\* fail: not zero, not one that a close or a preparing mkdir or symlink left
\* behind, EBADF only from a selector that asks for it, EADDRINUSE only from
\* bind.  This is what makes ERRNO(syscall, errno) a feature of the syscall.
ErrnoOfTheFailure ==
  \A p \in Procs : (pc[p] = "exec" /\ steps[p] = <<>>) =>
    /\ err(p) # "0" <=> ret[p] = -1
    /\ err(p) \notin {"EIO", "EEXIST"}
    /\ err(p) = "EBADF" => bad_fd(p)
    /\ err(p) = "EADDRINUSE" => op(p) = "bind"

\* UNLINKAT prepares a victim and READLINKAT a link, and each finds it when
\* the tested call is made.  A victim that could not be created (the calls
\* before the tested one leave ENOENT or EMFILE in errno in no other case) is
\* not expected; a link that could not be created ends the operation before
\* the call.
ObjectsPrepared ==
  \A p \in Procs : at(p, "call") =>
    /\ op(p) = "unlinkat" => ("victim" \in files \/ errno[p] \in {"ENOENT", "EMFILE"})
    /\ op(p) = "readlinkat" => "link" \in files

\* BIND finds its port free.
PortsFree ==
  \A p \in Procs : (at(p, "call") /\ op(p) = "bind") =>
    \A b \in ports : b.port # args(p).arg1

\* A lone campaign: whatever earlier runs, killed at any step, left in the
\* scratch directory, what an operation prepares for its tested call is there
\* when the call is made, and the port it binds is free.
SelfHealing == ObjectsPrepared /\ PortsFree

\* README.md:125 "start multiple independent campaigns": of campaigns that run
\* side by side none takes away what another has prepared.
CampaignsIndependent == ObjectsPrepared

\* No operation of any campaign takes the directory, the scratch file or the
\* subdirectory away once they are there, so the files that STATX, FACCESSAT
\* and the descriptor operations of the other campaigns rely on stay.
CommonFilesStay ==
  [][ \A f \in {"dir", "scratch", "subdir"} : f \in files => f \in files' ]_vars

\* README.md:33 "500 ms process timer ... standalone safety net": a run comes
\* to an end even when a system call never returns.
EveryRunEnds ==
  \A p \in Procs : (pc[p] \in Running) ~> (pc[p] \in Ended)

-----------------------------------------------------------------------------
(* The inductive strengthening of the invariants above (see PocOneProofs). *)

InOp == {"syscall", "seq2", "seq3", "exec"}

\* run_input's index: a multiple of OP_SIZE inside the bytes it looks at, and
\* while an operation is decoded or executed all of its bytes are there.
IndexInBuffer ==
  \A p \in Procs :
    /\ i[p] % OP_SIZE = 0
    /\ i[p] <= MaxOps * OP_SIZE
    /\ pc[p] \in InOp => i[p] + OP_SIZE <= usable(buf[p])

\* run_input's two previous operations fill up in order.
PrevsFillInOrder == \A p \in Procs : prev1[p] = NoOp => prev2[p] = NoOp

\* record_feature calls made by the current operation before this point.
ahead(p) ==
  CASE pc[p] = "seq2" -> 1
    [] pc[p] = "seq3" -> 2
    [] pc[p] = "exec" -> 3
    [] OTHER -> 0

\* Fewer calls than a cell can count: an operation makes at most four, the
\* first at most two; and no cell of the fallback map counts more than calls.
CallsCounted ==
  \A p \in Procs :
    /\ calls[p] < CellMod
    /\ pc[p] \in Running =>
         IF i[p] = 0
           THEN /\ prev1[p] = NoOp
                /\ calls[p] <= (IF pc[p] \in {"loop", "syscall"} THEN 0 ELSE 1)
           ELSE calls[p] <= i[p] - 1 + ahead(p)
    /\ ~build[p].afl => \A s \in 0..(MapSize - 1) : cells[p][s] <= calls[p]

\* Where the three feedback calls of the current operation stand.
done(p, later) == IF pc[p] \in later THEN OP_SIZE ELSE 0

\* prev1 and prev2 are the two operations before i, once there are that many,
\* and the features recorded are the n-grams of the operations before i plus
\* those of the feedback calls the current operation has made.
PrevsAndGramsOf(p) ==
  pc[p] \in Running \union {"exited"} =>
    IF build[p].feedback
      THEN /\ prev1[p] = (IF i[p] = 0 THEN NoOp ELSE op_at(buf[p], i[p] - 4))
           /\ prev2[p] = (IF i[p] <= 4 THEN NoOp ELSE op_at(buf[p], i[p] - 8))
           /\ sequence_features(seen[p]) =
                grams(buf[p], i[p] + done(p, {"seq2", "seq3", "exec"}),
                              i[p] - 4 + done(p, {"seq3", "exec"}),
                              i[p] - 8 + done(p, {"exec"}))
      ELSE /\ seen[p] = {}
           /\ pc[p] \in {"loop", "exec", "exited"}

PrevsAndGrams == \A p \in Procs : PrevsAndGramsOf(p)
=============================================================================

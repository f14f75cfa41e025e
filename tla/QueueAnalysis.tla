---------------------------- MODULE QueueAnalysis ----------------------------
(***************************************************************************)
(* PoC one's scripts/analyze_queue.py: what the offline analysis of a      *)
(* testcase reports, from the bytes of the file and, when it is replayed   *)
(* on a target, from the target's trace lines.  The script has its own     *)
(* copy of the operation table and of the decoder, so that they agree with *)
(* the C program is something to check (see PocOneReplay).                 *)
(*                                                                         *)
(* A Counter is represented by its set of keys: the script's unique_*      *)
(* metrics are the sizes of those sets.                                    *)
(***************************************************************************)
EXTENDS Integers, Sequences, FiniteSets

CONSTANT MAX_OPS      \* the script's own copy, 64

SYSCALLS ==
  << "openat", "read", "write", "close", "fstat", "lseek", "pread64",
     "pwrite64", "fcntl", "ioctl", "statx", "faccessat", "mkdirat",
     "unlinkat", "readlinkat", "getcwd", "mmap", "mprotect", "munmap", "brk",
     "socket", "bind", "connect", "listen", "getsockname", "getpeername",
     "setsockopt", "getsockopt", "sendto", "recvfrom", "shutdown", "pipe2",
     "dup", "dup3", "eventfd2", "getrandom", "clock_gettime", "nanosleep",
     "getpid", "getppid", "gettid", "getuid", "geteuid", "getgid", "getegid",
     "uname" >>

\* Number of operations in a file: whole four-byte records, MAX_OPS at most.
op_count(data) ==
  (IF Len(data) < MAX_OPS * 4 THEN Len(data) ELSE MAX_OPS * 4) \div 4

\* A mutant: the scan steps over the operations two at a time.
decode_bytes_skipping(data) ==
  [ k \in 1..(op_count(data) \div 2) |-> SYSCALLS[(data[8 * k - 7] % Len(SYSCALLS)) + 1] ]

\* The syscall labels of the operations, in order.
decode_bytes(data) ==
  [ k \in 1..op_count(data) |-> SYSCALLS[(data[4 * k - 3] % Len(SYSCALLS)) + 1] ]

\* The keys of the three Counters taken from the decoded operations.
syscalls(ops) == { <<"SYSCALL", ops[k]>> : k \in 1..Len(ops) }
seq2(ops) == { <<"SEQ2", ops[k], ops[k + 1]>> : k \in 1..(Len(ops) - 1) }
seq3(ops) == { <<"SEQ3", ops[k], ops[k + 1], ops[k + 2]>> : k \in 1..(Len(ops) - 2) }

\* Trace lines that count: a non-zero errno, at the index of an operation.
errno_lines(stderr, ops) ==
  { k \in 1..Len(stderr) : stderr[k].err # "0" /\ stderr[k].index \in 0..(Len(ops) - 1) }

\* parse_trace names the syscall by the line's index, not by its number.
syscall_errno(stderr, ops) ==
  { <<"ERRNO", ops[stderr[k].index + 1], stderr[k].err>> : k \in errno_lines(stderr, ops) }

prev_syscall_errno(stderr, ops) ==
  { <<ops[stderr[k].index], ops[stderr[k].index + 1], stderr[k].err>> :
      k \in { l \in errno_lines(stderr, ops) : stderr[l].index > 0 } }

\* What a replay gives back: the trace, or nothing when it timed out.
replayed_stderr(run) == IF run.timed_out THEN <<>> ELSE run.stderr

summarize_case(data, run) ==
  LET ops == decode_bytes(data) IN
    [ op_count |-> Len(ops),
      syscalls |-> syscalls(ops), seq2 |-> seq2(ops), seq3 |-> seq3(ops),
      syscall_errno |-> syscall_errno(replayed_stderr(run), ops),
      prev_syscall_errno |-> prev_syscall_errno(replayed_stderr(run), ops) ]

\* The sizes of the merged Counters, over a set of case summaries.  The totals
\* and the counts of replays, timeouts and failures are left out.
aggregate(summaries) ==
  LET keys(field) == UNION { s[field] : s \in summaries }
  IN [ unique_syscalls |-> Cardinality(keys("syscalls")),
       unique_seq2 |-> Cardinality(keys("seq2")),
       unique_seq3 |-> Cardinality(keys("seq3")),
       unique_syscall_errno |-> Cardinality(keys("syscall_errno")),
       unique_prev_syscall_errno |-> Cardinality(keys("prev_syscall_errno")) ]

\* A path of the command line and what is below it on disk.  path.at says what
\* it names: a single testcase, one of the directories of an AFL++ campaign (the
\* queue, the instance directory above it, the output root above that), or
\* nothing.  Directories are named relative to the path.
is_file(path) == path.at = "testcase"

directories(path) ==
  CASE path.at = "queue"    -> { << >> }
    [] path.at = "instance" -> { << >>, <<"queue">> }
    [] path.at = "root"     -> { << >>, <<path.campaign.instance>>,
                                 <<path.campaign.instance, "queue">> }
    [] OTHER                -> {}

is_dir(path, dir) == dir \in directories(path)

\* Of the directories at and below the path only the queue, the innermost one,
\* holds files.
files_in(path, dir) ==
  { f \in path.campaign.files :
      is_dir(path, dir) /\ \A d \in directories(path) : Len(d) <= Len(dir) }

\* A mutant: the script knows no layout in which the queue is further below.
search_root_shallow(path) ==
  IF is_dir(path, <<"queue">>) THEN <<"queue">> ELSE << >>

\* A queue right below the path goes before the default instance's, and
\* without either the path itself is searched.
search_root(path) ==
  IF is_dir(path, <<"queue">>) THEN <<"queue">>
  ELSE IF is_dir(path, <<"default", "queue">>) THEN <<"default", "queue">>
  ELSE << >>

\* The testcases a path names.  Files whose name starts with a dot are not
\* testcases of a directory.  SyscallGrowth looks at a path that does not exist.
afl_queue_files(path) ==
  IF is_file(path) THEN path.campaign.files
  ELSE { f \in files_in(path, search_root(path)) : ~f.dotted }
=============================================================================

----------------------------- MODULE SyscallOps -----------------------------
(***************************************************************************)
(* The data of PoC one's syscall exerciser: the operation table, the       *)
(* decoder of four-byte operations, the plan of system calls the executor  *)
(* makes for an operation, and the features the feedback layer derives.    *)
(* Everything here is a pure operator; SyscallExerciser runs it.           *)
(*                                                                         *)
(* A system call number is represented by its name, which is also the      *)
(* label analyze_queue.py gives it (the numbers are distinct).             *)
(***************************************************************************)
EXTENDS Integers, Sequences

CONSTANTS
  MaxInput,        \* MAX_INPUT: capacity of main's buffer (4096 in config.h)
  MaxOps,          \* MAX_OPS: operations executed at most (64 in config.h)
  MapSize,         \* AFL_MAP_SIZE (65536 in config.h)
  CellMod,         \* 2^8: a cell of the map is a uint8_t
  FeatureHash(_)   \* feature_hash1/2/3 of a feature: any function will do

ASSUME OpsAssumption ==
  /\ MaxOps \in Nat \ {0}
  /\ MaxInput \in Nat \ {0}
  /\ MapSize \in Nat /\ MapSize >= 2
  /\ CellMod \in 1..256
  /\ 4 * MaxOps <= CellMod      \* 4 * 64 <= 256: at most four features an operation

OP_SIZE == 4
OP_MAX == 46
Byte == 0..255

OpTable ==
  << "openat", "read", "write", "close", "fstat", "lseek", "pread64",
     "pwrite64", "fcntl", "ioctl", "statx", "faccessat", "mkdirat",
     "unlinkat", "readlinkat", "getcwd", "mmap", "mprotect", "munmap", "brk",
     "socket", "bind", "connect", "listen", "getsockname", "getpeername",
     "setsockopt", "getsockopt", "sendto", "recvfrom", "shutdown", "pipe2",
     "dup", "dup3", "eventfd2", "getrandom", "clock_gettime", "nanosleep",
     "getpid", "getppid", "gettid", "getuid", "geteuid", "getgid", "getegid",
     "uname" >>

Ops == { OpTable[k] : k \in 1..OP_MAX }

-----------------------------------------------------------------------------
(* Decoding: decoder.c and the head of run_input's loop.                   *)

\* Reads at most MAX_INPUT bytes of the file; an unreadable file is empty.
read_input(file) ==
  IF Len(file) > MaxInput THEN SubSeq(file, 1, MaxInput) ELSE file

\* The bytes run_input looks at.
usable(buf) ==
  IF Len(buf) < MaxOps * OP_SIZE THEN Len(buf) ELSE MaxOps * OP_SIZE

decode_op(buf, i) ==
  [ syscall_id |-> buf[i + 1], arg0 |-> buf[i + 2],
    arg1 |-> buf[i + 3], arg2 |-> buf[i + 4] ]

\* A mutant: the id is taken modulo the largest id instead of OP_MAX.
select_syscall_off_by_one(syscall_id) == OpTable[(syscall_id % (OP_MAX - 1)) + 1]

select_syscall(syscall_id) == OpTable[(syscall_id % OP_MAX) + 1]

\* The operation decoded at byte offset i.
op_at(buf, i) == select_syscall(decode_op(buf, i).syscall_id)

-----------------------------------------------------------------------------
(* The executor: which system calls an operation makes, in which order.    *)

TempFdOps == {"read", "write", "fstat", "lseek", "pread64", "pwrite64",
              "fcntl", "ioctl"}
SockOps   == {"bind", "connect", "listen", "getsockname", "getpeername",
              "setsockopt", "getsockopt", "sendto", "recvfrom", "shutdown"}
DupOps    == {"dup", "dup3"}
NeedsFd   == TempFdOps \union SockOps \union DupOps \union {"close"}

odd(b) == b % 2 = 1

\* selected_fd hands the tested call the descriptor it was given only for
\* selectors 1 mod 4; otherwise a number no descriptor of the process has.
\* OP_CLOSE gives it -1, so none of the four cases is a valid descriptor.
selects_valid_fd(op, a) ==
  /\ op # "close"
  /\ (IF op = "sendto" THEN a.arg1 ELSE a.arg0) % 4 = 1

\* A mutant: OP_DUP and OP_DUP3 forget to close the duplicate.
dup_plan_leaking == <<"ensure", "openTemp", "call", "closeFd">>

dup_plan == <<"ensure", "openTemp", "call", "closeRet", "closeFd">>

\* A mutant: OP_READLINKAT trusts that an earlier run left the link.
readlinkat_plan_reusing == <<"ensure", "call">>

readlinkat_plan == <<"ensure", "unlinkLink", "symlink", "call">>

\* The steps of execute_safe_syscall. "call" is the tested system call;
\* openTemp, openSock, mmap and symlink return -1 from the whole operation
\* when they fail.
Plan(op, a) ==
  CASE op = "openat" /\ odd(a.arg0)         -> <<"ensure", "call">>
    [] op = "openat" /\ ~odd(a.arg0)        -> <<"ensure", "call", "closeRet">>
    [] op \in TempFdOps                     -> <<"ensure", "openTemp", "call", "closeFd">>
    [] op \in {"statx", "faccessat", "mkdirat"} -> <<"ensure", "call">>
    [] op = "unlinkat"   -> <<"ensure", "openVictim", "closeFd", "call">>
    [] op = "readlinkat" -> readlinkat_plan
    [] op = "mmap"       -> <<"mmap", "munmap">>
    [] op = "mprotect"   -> <<"mmap", "call", "munmap">>
    [] op = "munmap"     -> <<"mmap", "callMunmap">>
    [] op \in {"socket", "eventfd2"} -> <<"call", "closeRet">>
    [] op \in SockOps    -> <<"openSock", "call", "closeSock">>
    [] op = "pipe2"      -> <<"call", "closePipe0", "closePipe1">>
    [] op \in DupOps     -> dup_plan
    [] OTHER             -> <<"call">>

Steps == {"ensure", "openTemp", "openVictim", "openSock", "mmap", "unlinkLink",
          "symlink", "call", "callMunmap", "munmap", "closeFd", "closeSock",
          "closeRet", "closePipe0", "closePipe1"}

\* The descriptors (and the mapping) a step of a plan releases.
Holders == {"fd", "sock", "ret", "pipe0", "pipe1", "region"}

ReleasedBy(step) ==
  CASE step = "closeFd"    -> {"fd"}
    [] step = "closeSock"  -> {"sock"}
    [] step = "closeRet"   -> {"ret"}
    [] step = "closePipe0" -> {"pipe0"}
    [] step = "closePipe1" -> {"pipe1"}
    [] step \in {"munmap", "callMunmap"} -> {"region"}
    [] OTHER -> {}

\* The descriptors a tested call creates when it succeeds.
CreatedByCall(op) ==
  CASE op \in {"openat", "socket", "eventfd2"} \union DupOps -> {"ret"}
    [] op = "pipe2" -> {"pipe0", "pipe1"}
    [] OTHER -> {}

-----------------------------------------------------------------------------
(* Features: feedback.c.                                                   *)

NoOp == "-1"     \* the initial value of prev1 and prev2

Errnos == {"0", "EBADF", "ENOENT", "EEXIST", "EADDRINUSE", "EMFILE", "EIO",
           "EOTHER"}

SYSCALL(a)    == <<"SYSCALL", a>>
SEQ2(a, b)    == <<"SEQ2", a, b>>
SEQ3(a, b, c) == <<"SEQ3", a, b, c>>
ERRNO(s, e)   == <<"ERRNO", s, e>>

Feature ==
  { SYSCALL(a) : a \in Ops } \union { SEQ2(a, b) : a, b \in Ops }
    \union { SEQ3(a, b, c) : a, b, c \in Ops }
    \union { ERRNO(s, e) : s \in Ops, e \in Errnos }

ASSUME HashAssumption == \A f \in Feature : FeatureHash(f) \in Nat

\* Where a feature lands in the map of an AFL++ build, and with which value.
\* A mutant: the id is not moved past the reserved 0.
interesting_id_without_reserve(hash) == hash % (MapSize - 1)

interesting_id(hash) == (hash % (MapSize - 1)) + 1

\* A mutant: the shift is masked with 15, so it leaves the byte.
interesting_value_wide(hash) == 2 ^ (hash % 16)

interesting_value(hash) == <<1, 2, 4, 8, 16, 32, 64, 128>>[(hash % 8) + 1]

\* record_feature on a map: AFL++'s hook (external) stores the value at the
\* id; the fallback counts in a uint8_t.
record_feature(map, afl, f) ==
  LET hash == FeatureHash(f)
  IN IF afl THEN [map EXCEPT ![interesting_id(hash)] = interesting_value(hash)]
            ELSE [map EXCEPT ![hash % MapSize] = (@ + 1) % CellMod]

slot(afl, f) ==
  IF afl THEN interesting_id(FeatureHash(f)) ELSE FeatureHash(f) % MapSize
=============================================================================

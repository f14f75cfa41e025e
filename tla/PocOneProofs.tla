------------------------------ MODULE PocOneProofs ------------------------------
(***************************************************************************)
(* Proofs about PoC one's target and its offline analysis, for any set of  *)
(* campaigns, inputs and builds, any hash function, and with SIGALRM at    *)
(* any step: of SyscallExerciser, the run loop and the feedback map, then  *)
(* the executor (what an operation holds and releases, which errno it      *)
(* reports, what it leaves in the scratch directory); and of PocOneReplay, *)
(* that what analyze_queue.py derives from the file and the trace is what  *)
(* the target recorded.                                                    *)
(***************************************************************************)
EXTENDS PocOneReplay, SequenceTheorems, TLAPS

-----------------------------------------------------------------------------
(* The operators of SyscallOps.                                            *)

\* An id byte always selects an operation of the table (executor.c:41).
LEMMA SelectType == \A b \in Byte : select_syscall(b) \in Ops
  BY DEF select_syscall, Ops, Byte, OP_MAX

\* decode_op stays inside the buffer when run_input calls it.
LEMMA DecodeType ==
  ASSUME NEW b \in Seq(Byte), NEW n \in Nat, n + OP_SIZE <= Len(b)
  PROVE  /\ op_at(b, n) \in Ops
         /\ decode_op(b, n).arg1 \in Byte
<1>1. b[n + 1] \in Byte /\ b[n + 3] \in Byte
  BY DEF OP_SIZE
<1> QED
  BY <1>1, SelectType DEF op_at, decode_op

\* Every plan is a sequence of known steps.
LEMMA PlanType == \A o, a : Plan(o, a) \in Seq(Steps)
<1> SUFFICES ASSUME NEW o, NEW a PROVE Plan(o, a) \in Seq(Steps)
  OBVIOUS
<1>1. /\ <<"ensure", "call">> \in Seq(Steps)
      /\ <<"ensure", "call", "closeRet">> \in Seq(Steps)
      /\ <<"ensure", "openTemp", "call", "closeFd">> \in Seq(Steps)
      /\ <<"ensure", "openVictim", "closeFd", "call">> \in Seq(Steps)
      /\ readlinkat_plan \in Seq(Steps)
      /\ dup_plan \in Seq(Steps)
  BY DEF Steps, readlinkat_plan, dup_plan
<1>2. /\ <<"mmap", "munmap">> \in Seq(Steps)
      /\ <<"mmap", "call", "munmap">> \in Seq(Steps)
      /\ <<"mmap", "callMunmap">> \in Seq(Steps)
      /\ <<"call", "closeRet">> \in Seq(Steps)
      /\ <<"openSock", "call", "closeSock">> \in Seq(Steps)
      /\ <<"call", "closePipe0", "closePipe1">> \in Seq(Steps)
      /\ <<"call">> \in Seq(Steps)
  BY DEF Steps
<1> QED
  BY <1>1, <1>2, Zenon DEF Plan

\* A feature's slot is a cell of the map; feedback.c:97 "Reserve id 0": in an
\* AFL++ build it is never cell 0.
LEMMA SlotType ==
  ASSUME NEW f \in Feature, NEW afl \in BOOLEAN
  PROVE  /\ slot(afl, f) \in 0..(MapSize - 1)
         /\ afl => slot(afl, f) # 0
<1>1. FeatureHash(f) \in Nat
  BY HashAssumption
<1>2. MapSize \in Nat /\ MapSize >= 2
  BY OpsAssumption
<1>3. FeatureHash(f) % MapSize \in 0..(MapSize - 1)
  BY <1>1, <1>2
<1>4. FeatureHash(f) % (MapSize - 1) \in 0..(MapSize - 2)
  BY <1>1, <1>2
<1> QED
  BY <1>2, <1>3, <1>4 DEF slot, interesting_id

\* Counting in a cell stays inside a byte.
LEMMA CellStep == \A n \in Byte : (n + 1) % CellMod \in Byte
<1> SUFFICES ASSUME NEW n \in Byte PROVE (n + 1) % CellMod \in 0..255
  BY DEF Byte
<1>1. n + 1 \in Nat
  BY DEF Byte
<1>2. CellMod \in 1..256
  BY OpsAssumption
<1> DEFINE m == n + 1
<1>3. m % CellMod \in 0..(CellMod - 1)
  <2> HIDE DEF m
  <2> QED BY <1>1, <1>2 DEF m
<1> HIDE DEF m
<1>4. m % CellMod \in 0..255
  BY <1>2, <1>3
<1> QED
  BY <1>4 DEF m

\* record_feature changes one cell: in an AFL++ build to a non-zero byte, in
\* the fallback map by one modulo the width of the cell.
LEMMA RecordType ==
  ASSUME NEW f \in Feature, NEW afl \in BOOLEAN,
         NEW map \in [0..(MapSize - 1) -> Byte]
  PROVE  LET new == record_feature(map, afl, f) IN
         /\ new \in [0..(MapSize - 1) -> Byte]
         /\ \A s \in 0..(MapSize - 1) : s # slot(afl, f) => new[s] = map[s]
         /\ afl => new[slot(afl, f)] # 0
         /\ ~afl => new[slot(afl, f)] = (map[slot(afl, f)] + 1) % CellMod
<1> DEFINE h == FeatureHash(f)
<1>1. h \in Nat
  BY HashAssumption
<1>2. interesting_value(h) \in Byte \ {0}
  <2> DEFINE table == <<1, 2, 4, 8, 16, 32, 64, 128>>
  <2>1. h % 8 \in 0..7
    BY <1>1
  <2>2. \A k \in 0..7 : table[k + 1] \in Byte \ {0}
    BY DEF Byte
  <2>3. interesting_value(h) = table[(h % 8) + 1]
    BY DEF interesting_value
  <2> HIDE DEF table, h
  <2> QED
    BY <2>1, <2>2, <2>3
<1>3. slot(afl, f) \in 0..(MapSize - 1)
  BY SlotType
<1>4. CASE afl
  BY <1>2, <1>3, <1>4 DEF record_feature, slot
<1>5. CASE ~afl
  <2>1. CellMod \in 1..256
    BY OpsAssumption
  <2>2. map[slot(afl, f)] \in Byte
    BY <1>3
  <2>3. (map[slot(afl, f)] + 1) % CellMod \in Byte
    <3>1. \A n \in Byte : (n + 1) % CellMod \in Byte
      BY CellStep
    <3> QED
      BY <2>2, <3>1
  <2>4. record_feature(map, afl, f) =
          [map EXCEPT ![slot(afl, f)] = (map[slot(afl, f)] + 1) % CellMod]
    BY <1>5 DEF record_feature, slot
  <2> QED
    BY <1>3, <1>5, <2>3, <2>4
<1> QED
  BY <1>4, <1>5

-----------------------------------------------------------------------------
(* Type correctness.                                                       *)

TypeInv == TypeOK /\ IndexInBuffer /\ PrevsFillInOrder

LEMMA InitType == Init => TypeInv
<1> SUFFICES ASSUME Init PROVE TypeInv
  OBVIOUS
<1>1. MapSize \in Nat /\ MaxRuns \in Nat /\ MaxOps \in Nat
  BY OpsAssumption, ExerciserAssumption
<1>2. TypeOK
  BY <1>1 DEF Init, TypeOK, Ended, Errnos, Byte, NoOp
<1>3. IndexInBuffer
  BY <1>1 DEF Init, IndexInBuffer, InOp, OP_SIZE
<1>4. PrevsFillInOrder
  BY DEF Init, PrevsFillInOrder
<1> QED
  BY <1>2, <1>3, <1>4 DEF TypeInv

\* The operation a process is executing is one of the table.
LEMMA OpType ==
  ASSUME TypeInv, NEW p \in Procs, pc[p] \in InOp
  PROVE  op(p) \in Ops /\ args(p).arg1 \in Byte
<1>1. MaxOps \in Nat
  BY OpsAssumption
<1>2. /\ buf[p] \in Seq(Byte) /\ i[p] \in Nat
      /\ i[p] + OP_SIZE <= usable(buf[p])
  BY DEF TypeInv, TypeOK, IndexInBuffer
<1>3. i[p] + OP_SIZE <= Len(buf[p])
  BY <1>1, <1>2 DEF usable, OP_SIZE
<1> QED
  BY <1>2, <1>3, DecodeType DEF op, args

\* A call of record_feature with a feature of the layer keeps the types.
LEMMA RecordKeepsType ==
  ASSUME TypeInv, NEW p \in Procs, NEW f \in Feature, Record(p, f)
  PROVE  /\ seen' \in [Procs -> SUBSET Feature]
         /\ calls' \in [Procs -> Nat]
         /\ cells' \in [Procs -> [0..(MapSize - 1) -> Byte]]
<1>1. build[p].afl \in BOOLEAN
  BY ExerciserAssumption DEF TypeInv, TypeOK
<1>2. cells[p] \in [0..(MapSize - 1) -> Byte]
  BY DEF TypeInv, TypeOK
<1>3. record_feature(cells[p], build[p].afl, f) \in [0..(MapSize - 1) -> Byte]
  BY <1>1, <1>2, RecordType
<1>4. cells' \in [Procs -> [0..(MapSize - 1) -> Byte]]
  BY <1>3 DEF Record, TypeInv, TypeOK
<1> QED
  BY <1>4 DEF Record, TypeInv, TypeOK

\* What the executor owns and what the campaigns share.
ExecTyped ==
  /\ steps \in [Procs -> Seq(Steps)]
  /\ held \in [Procs -> SUBSET Holders]
  /\ ret \in [Procs -> {0, -1}]
  /\ errno \in [Procs -> Errnos]
  /\ files \subseteq Files
  /\ ports \subseteq [port : Byte, owner : Procs]

LEMMA ExecutorFrame ==
  ASSUME TypeInv, UNCHANGED outsideExecutor, ExecTyped'
  PROVE  TypeOK'
  BY DEF TypeInv, TypeOK, ExecTyped, outsideExecutor, procVars, loopVars, feedbackVars

\* A step that returns -1 from the whole operation.
LEMMA ReturnErrorType ==
  ASSUME ExecTyped, NEW p \in Procs, NEW e \in Errnos, return_error(p, e)
  PROVE  /\ steps' \in [Procs -> Seq(Steps)]
         /\ ret' \in [Procs -> {0, -1}]
         /\ errno' \in [Procs -> Errnos]
<1>1. <<>> \in Seq(Steps)
  OBVIOUS
<1> QED
  BY <1>1 DEF ExecTyped, return_error, set_errno

\* A step that goes on with the plan, possibly holding something more.
LEMMA AdvanceType ==
  ASSUME ExecTyped, NEW p \in Procs, steps[p] # <<>>, advance(p)
  PROVE  steps' \in [Procs -> Seq(Steps)]
<1>1. Tail(steps[p]) \in Seq(Steps)
  BY DEF ExecTyped
<1> QED
  BY <1>1 DEF ExecTyped, advance

LEMMA HoldType ==
  ASSUME ExecTyped, NEW p \in Procs, NEW names \in SUBSET Holders, hold(p, names)
  PROVE  held' \in [Procs -> SUBSET Holders]
  BY DEF ExecTyped, hold

\* The executor's own steps: they run only inside "exec" and keep the types.
LEMMA HelperType ==
  ASSUME TypeInv, NEW p \in Procs, Helper(p)
  PROVE  /\ pc[p] = "exec" /\ UNCHANGED outsideExecutor
         /\ TypeOK'
<1>i. ExecTyped
  BY DEF TypeInv, TypeOK, ExecTyped
<1>t. steps[p] # <<>> => Tail(steps[p]) \in Seq(Steps)
  BY <1>i DEF ExecTyped
<1>e. {"ENOENT", "EMFILE", "EOTHER"} \subseteq Errnos
  BY DEF Errnos
<1>h. /\ {"fd"} \in SUBSET Holders
      /\ {"sock"} \in SUBSET Holders
      /\ {"region"} \in SUBSET Holders
  BY DEF Holders
<1>f. {"scratch", "link"} \subseteq Files
  BY DEF Files
<1>2. ASSUME OpenTemp(p) PROVE ExecTyped'
  <2>1. CASE hold(p, {"fd"}) /\ advance(p) /\ files' = files \union {"scratch"} /\ UNCHANGED <<ret, errno>>
    <3>1. steps[p] # <<>>
      BY <1>2 DEF OpenTemp, at
    <3> QED
      BY <1>2, <1>i, <1>h, <1>f, <2>1, <3>1, AdvanceType, HoldType DEF ExecTyped, OpenTemp
  <2>2. CASE /\ return_error(p, "ENOENT") \/ return_error(p, "EMFILE")
             /\ UNCHANGED <<held, files>>
    BY <1>2, <1>i, <1>e, <2>2, ReturnErrorType DEF ExecTyped, OpenTemp
  <2> QED
    BY <1>2, <2>1, <2>2 DEF OpenTemp
<1>3. ASSUME OpenSock(p) PROVE ExecTyped'
  <2>1. CASE hold(p, {"sock"}) /\ advance(p) /\ UNCHANGED <<ret, errno>>
    <3>1. steps[p] # <<>>
      BY <1>3 DEF OpenSock, at
    <3> QED
      BY <1>3, <1>i, <1>h, <2>1, <3>1, AdvanceType, HoldType DEF ExecTyped, OpenSock, sharedVars
  <2>2. CASE return_error(p, "EMFILE") /\ UNCHANGED held
    BY <1>3, <1>i, <1>e, <2>2, ReturnErrorType DEF ExecTyped, OpenSock, sharedVars
  <2> QED
    BY <1>3, <2>1, <2>2 DEF OpenSock
<1>4. ASSUME Mmap(p) PROVE ExecTyped'
  <2>1. CASE hold(p, {"region"}) /\ advance(p) /\ ret' = [ret EXCEPT ![p] = 0] /\ UNCHANGED errno
    <3>1. steps[p] # <<>>
      BY <1>4 DEF Mmap, at
    <3> QED
      BY <1>4, <1>i, <1>h, <2>1, <3>1, AdvanceType, HoldType DEF ExecTyped, Mmap, sharedVars
  <2>2. CASE return_error(p, "EOTHER") /\ UNCHANGED held
    BY <1>4, <1>i, <1>e, <2>2, ReturnErrorType DEF ExecTyped, Mmap, sharedVars
  <2> QED
    BY <1>4, <2>1, <2>2 DEF Mmap
<1>7. ASSUME Symlink(p) PROVE ExecTyped'
  <2>1. CASE advance(p) /\ UNCHANGED ret /\ (files' = files \/ files' = files \union {"link"})
              /\ (UNCHANGED errno \/ set_errno(p, "EEXIST"))
    <3>1. steps[p] # <<>>
      BY <1>7 DEF Symlink, at
    <3>2. errno' \in [Procs -> Errnos]
      BY <1>i, <2>1 DEF ExecTyped, set_errno, Errnos
    <3> QED
      BY <1>7, <1>i, <1>f, <2>1, <3>1, <3>2, AdvanceType DEF ExecTyped, Symlink
  <2>2. CASE UNCHANGED files /\ (return_error(p, "EOTHER") \/ return_error(p, "ENOENT"))
    BY <1>7, <1>i, <1>e, <2>2, ReturnErrorType DEF ExecTyped, Symlink
  <2> QED
    BY <1>7, <2>1, <2>2 DEF Symlink
<1>5. ASSUME OpenVictim(p) PROVE ExecTyped'
  <2>1. steps' \in [Procs -> Seq(Steps)]
    BY <1>5, <1>i, AdvanceType DEF OpenVictim, at
  <2>2. CASE files' = files \union {"victim"} /\ hold(p, {"fd"}) /\ UNCHANGED errno
    <3>1. held' \in [Procs -> SUBSET Holders]
      BY <1>i, <1>h, <2>2, HoldType
    <3>2. files' \subseteq Files
      BY <1>i, <2>2 DEF ExecTyped, Files
    <3> QED
      BY <1>5, <1>i, <2>1, <2>2, <3>1, <3>2 DEF ExecTyped, OpenVictim
  <2>3. CASE (set_errno(p, "EMFILE") \/ set_errno(p, "ENOENT")) /\ UNCHANGED <<held, files>>
    <3>1. errno' \in [Procs -> Errnos]
      BY <1>i, <1>e, <2>3 DEF ExecTyped, set_errno
    <3> QED
      BY <1>5, <1>i, <2>1, <2>3, <3>1 DEF ExecTyped, OpenVictim
  <2> QED
    BY <1>5, <2>2, <2>3 DEF OpenVictim
<1> USE DEF at, advance, set_errno, hold, ExecTyped, Errnos, Holders, Files
<1>1. ASSUME EnsureTempDir(p) PROVE ExecTyped'
  BY <1>1, <1>i, <1>t DEF EnsureTempDir
<1>6. ASSUME UnlinkLink(p) PROVE ExecTyped'
  BY <1>6, <1>i, <1>t DEF UnlinkLink, unlink_target
<1>8. ASSUME CloseStep(p) PROVE ExecTyped'
  BY <1>8, <1>i, <1>t DEF CloseStep, close_preserve_errno
<1>9. ASSUME MunmapStep(p) PROVE ExecTyped'
  BY <1>9, <1>i, <1>t DEF MunmapStep, sharedVars
<1>10. pc[p] = "exec" /\ UNCHANGED outsideExecutor
  BY DEF Helper, EnsureTempDir, OpenTemp, OpenSock, Mmap, OpenVictim, UnlinkLink,
         Symlink, CloseStep, MunmapStep
<1>11. ExecTyped'
  BY <1>1, <1>2, <1>3, <1>4, <1>5, <1>6, <1>7, <1>8, <1>9 DEF Helper
<1> QED
  BY <1>10, <1>11, ExecutorFrame

\* So do the outcomes of the tested call.
LEMMA CallType ==
  ASSUME TypeInv, NEW p \in Procs, Call(p)
  PROVE  /\ pc[p] = "exec" /\ UNCHANGED outsideExecutor
         /\ TypeOK'
<1>a. calling(p)
  BY DEF Call, CallBadFd, CallFails, CallBind, CallLookup, CallOpenat, CallMkdirat,
         CallUnlinkat, CallSucceeds
<1>b. pc[p] = "exec" /\ UNCHANGED outsideExecutor
  BY <1>a DEF calling, at
<1>c. args(p).arg1 \in Byte
  BY <1>b, OpType DEF InOp
<1> USE DEF at, advance, set_errno, hold, returns, calling, ExecTyped, Errnos, Holders, Files, sharedVars
<1>i. ExecTyped
  BY DEF TypeInv, TypeOK
<1>t. Tail(steps[p]) \in Seq(Steps)
  BY <1>a, <1>i
<1>1. ASSUME CallBadFd(p) PROVE ExecTyped'
  BY <1>1, <1>i, <1>t DEF CallBadFd
<1>2. ASSUME CallFails(p) PROVE ExecTyped'
  BY <1>2, <1>i, <1>t DEF CallFails
<1>3. ASSUME CallBind(p) PROVE ExecTyped'
  <2>1. [port |-> args(p).arg1, owner |-> p] \in [port : Byte, owner : Procs]
    BY <1>c
  <2>2. ports' \subseteq [port : Byte, owner : Procs]
    BY <1>3, <1>i, <2>1 DEF CallBind
  <2>3. /\ ret' \in [Procs -> {0, -1}]
        /\ errno' \in [Procs -> Errnos]
    BY <1>3, <1>i DEF CallBind
  <2> QED
    BY <1>3, <1>i, <1>t, <2>2, <2>3 DEF CallBind
<1>4. ASSUME CallLookup(p) PROVE ExecTyped'
  BY <1>4, <1>i, <1>t DEF CallLookup
<1>5. ASSUME CallOpenat(p) PROVE ExecTyped'
  <2>1. CASE returns(p, -1, "ENOENT") /\ UNCHANGED <<held, files>>
    BY <1>5, <1>i, <1>t, <2>1 DEF CallOpenat
  <2>2. CASE returns(p, 0, "0") /\ hold(p, {"ret"}) /\ files' = files \union {"scratch"}
    BY <1>5, <1>i, <1>t, <2>2 DEF CallOpenat
  <2> QED
    BY <1>5, <2>1, <2>2 DEF CallOpenat
<1>6. ASSUME CallMkdirat(p) PROVE ExecTyped'
  BY <1>6, <1>i, <1>t DEF CallMkdirat, mkdirat_result
<1>7. ASSUME CallUnlinkat(p) PROVE ExecTyped'
  BY <1>7, <1>i, <1>t DEF CallUnlinkat
<1>8. ASSUME CallSucceeds(p) PROVE ExecTyped'
  BY <1>8, <1>i, <1>t DEF CallSucceeds, CreatedByCall
<1>9. ExecTyped'
  BY <1>1, <1>2, <1>3, <1>4, <1>5, <1>6, <1>7, <1>8 DEF Call
<1> QED
  BY <1>b, <1>9, ExecutorFrame

\* A new run starts on the bytes read_input returns, its locals initialised.
LEMMA MainType ==
  ASSUME TypeInv, NEW p \in Procs, Main(p) \/ MainUsage(p)
  PROVE  TypeInv'
<1>1. MaxOps \in Nat /\ MaxRuns \in Nat /\ MapSize \in Nat /\ MaxInput \in Nat
  BY OpsAssumption, ExerciserAssumption
<1>2. [s \in 0..(MapSize - 1) |-> 0] \in [0..(MapSize - 1) -> Byte]
  BY DEF Byte
<1>3. \A file \in Inputs : read_input(file) \in Seq(Byte)
  BY <1>1, ExerciserAssumption DEF read_input
<1>4. runs[p] < MaxRuns => runs[p] + 1 \in 0..MaxRuns
  BY <1>1 DEF TypeInv, TypeOK
<1>5. "0" \in Errnos /\ NoOp \in Ops \union {NoOp} /\ <<>> \in Seq(Byte) /\ <<>> \in Seq(Steps)
  BY DEF Errnos
<1>a. /\ i' = [i EXCEPT ![p] = 0]
      /\ prev1' = [prev1 EXCEPT ![p] = NoOp]
      /\ prev2' = [prev2 EXCEPT ![p] = NoOp]
      /\ seen' = [seen EXCEPT ![p] = {}]
      /\ calls' = [calls EXCEPT ![p] = 0]
      /\ cells' = [cells EXCEPT ![p] = [s \in 0..(MapSize - 1) |-> 0]]
      /\ trace' = [trace EXCEPT ![p] = <<>>]
      /\ runs' = [runs EXCEPT ![p] = @ + 1] /\ runs[p] < MaxRuns
      /\ UNCHANGED <<held, files, ports>>
  BY DEF Main, MainUsage, sharedVars, execVars
<1>b. /\ timer' = [timer EXCEPT ![p] = TRUE] \/ timer' = timer
      /\ steps' = [steps EXCEPT ![p] = <<>>] \/ steps' = steps
      /\ ret' = [ret EXCEPT ![p] = 0] \/ ret' = ret
      /\ errno' = [errno EXCEPT ![p] = "0"] \/ errno' = errno
  BY DEF Main, MainUsage, install_timeout, execVars
<1>6. /\ i' \in [Procs -> Nat] /\ i'[p] = 0
      /\ prev1' \in [Procs -> Ops \union {NoOp}]
      /\ prev2' \in [Procs -> Ops \union {NoOp}]
      /\ PrevsFillInOrder'
  BY <1>a DEF TypeInv, TypeOK, PrevsFillInOrder
<1>7. /\ seen' \in [Procs -> SUBSET Feature]
      /\ calls' \in [Procs -> Nat]
      /\ cells' \in [Procs -> [0..(MapSize - 1) -> Byte]]
  BY <1>2, <1>a DEF TypeInv, TypeOK
<1>8. trace' \in [Procs -> Seq([index : Nat, sysno : Ops, err : Errnos])]
  <2>1. <<>> \in Seq([index : Nat, sysno : Ops, err : Errnos])
    OBVIOUS
  <2> QED
    BY <1>a, <2>1 DEF TypeInv, TypeOK
<1>9. /\ timer' \in [Procs -> BOOLEAN]
      /\ runs' \in [Procs -> 0..MaxRuns]
  <2>1. timer' \in [Procs -> BOOLEAN]
    BY <1>b DEF TypeInv, TypeOK
  <2>2. runs' \in [Procs -> 0..MaxRuns]
    <3>1. runs[p] + 1 \in 0..MaxRuns
      BY <1>4, <1>a
    <3>2. runs' = [runs EXCEPT ![p] = runs[p] + 1] /\ runs \in [Procs -> 0..MaxRuns]
      BY <1>a DEF TypeInv, TypeOK
    <3> QED
      BY <3>1, <3>2
  <2> QED
    BY <2>1, <2>2
<1>10. /\ steps' \in [Procs -> Seq(Steps)]
       /\ ret' \in [Procs -> {0, -1}]
       /\ errno' \in [Procs -> Errnos]
  <2>1. steps' \in [Procs -> Seq(Steps)]
    BY <1>5, <1>b DEF TypeInv, TypeOK
  <2>2. ret' \in [Procs -> {0, -1}]
    BY <1>b DEF TypeInv, TypeOK
  <2>3. errno' \in [Procs -> Errnos]
    BY <1>5, <1>b DEF TypeInv, TypeOK
  <2> QED
    BY <2>1, <2>2, <2>3
<1>11. /\ build' \in [Procs -> Builds]
       /\ buf' \in [Procs -> Seq(Byte)]
       /\ pc' \in [Procs -> Ended \union Running]
       /\ pc'[p] \notin InOp
  <2>1. CASE Main(p)
    <3>1. PICK b \in Builds, file \in Inputs :
            /\ build' = [build EXCEPT ![p] = b]
            /\ buf' = [buf EXCEPT ![p] = read_input(file)]
            /\ pc' = [pc EXCEPT ![p] = IF read_input(file) = <<>> THEN "exited" ELSE "loop"]
      BY <2>1 DEF Main
    <3> QED
      BY <1>3, <3>1 DEF TypeInv, TypeOK, Ended, Running, InOp
  <2>2. CASE MainUsage(p)
    BY <1>5, <2>2 DEF TypeInv, TypeOK, MainUsage, Ended, Running, InOp
  <2> QED
    BY <2>1, <2>2
<1>12. TypeOK'
  BY <1>a, <1>6, <1>7, <1>8, <1>9, <1>10, <1>11 DEF TypeInv, TypeOK
<1>13. ASSUME NEW q \in Procs, q # p
       PROVE  i'[q] = i[q] /\ pc'[q] = pc[q] /\ buf'[q] = buf[q]
  BY <1>13 DEF TypeInv, TypeOK, Main, MainUsage
<1>14. 0 % 4 = 0 /\ 0 <= MaxOps * 4
  BY <1>1
<1>15. IndexInBuffer'
  BY <1>6, <1>11, <1>13, <1>14 DEF TypeInv, IndexInBuffer, OP_SIZE, usable
<1> QED
  BY <1>6, <1>12, <1>15 DEF TypeInv

\* The end of a run, by itself or by SIGALRM.
LEMMA EndType ==
  ASSUME TypeInv, NEW p \in Procs, EndOfInput(p) \/ Alarm(p)
  PROVE  TypeInv'
<1>1. TypeOK'
  BY DEF TypeInv, TypeOK, EndOfInput, Alarm, reap, feedbackVars, loopVars, Ended, Running
<1>2. IndexInBuffer'
  BY DEF TypeInv, TypeOK, IndexInBuffer, EndOfInput, Alarm, loopVars, InOp
<1>3. PrevsFillInOrder'
  BY DEF TypeInv, PrevsFillInOrder, EndOfInput, Alarm, loopVars
<1> QED
  BY <1>1, <1>2, <1>3 DEF TypeInv

\* execute_safe_syscall begins with a plan of known steps.
LEMMA EnterType ==
  ASSUME TypeInv, NEW p \in Procs, enter_executor(p)
  PROVE  /\ pc' \in [Procs -> Ended \union Running]
         /\ steps' \in [Procs -> Seq(Steps)]
         /\ held' \in [Procs -> SUBSET Holders]
         /\ ret' \in [Procs -> {0, -1}]
         /\ errno' \in [Procs -> Errnos]
<1>1. Plan(op(p), args(p)) \in Seq(Steps)
  BY PlanType
<1> QED
  BY <1>1 DEF TypeInv, TypeOK, enter_executor, Errnos, Running

LEMMA NextOpType ==
  ASSUME TypeInv, NEW p \in Procs, NextOp(p)
  PROVE  TypeInv'
<1>1. TypeOK'
  <2>1. CASE build[p].feedback
    BY <2>1 DEF TypeInv, TypeOK, NextOp, loopVars, feedbackVars, execVars, sharedVars, Running
  <2>2. CASE ~build[p].feedback
    <3>1. enter_executor(p)
      BY <2>2 DEF NextOp
    <3> QED
      BY <3>1, EnterType DEF TypeInv, TypeOK, NextOp, loopVars, feedbackVars, sharedVars
  <2> QED
    BY <2>1, <2>2
<1>2. IndexInBuffer'
  BY DEF TypeInv, TypeOK, IndexInBuffer, NextOp, enter_executor, more_ops, loopVars, InOp
<1>3. PrevsFillInOrder'
  BY DEF TypeInv, PrevsFillInOrder, NextOp, loopVars
<1> QED
  BY <1>1, <1>2, <1>3 DEF TypeInv

\* The three feedback calls, and what they record.
LEMMA FeedbackType ==
  ASSUME TypeInv, NEW p \in Procs,
         FeedbackSyscall(p) \/ FeedbackSeq2(p) \/ FeedbackSeq3(p)
  PROVE  TypeInv'
<1>1. op(p) \in Ops
  BY OpType DEF FeedbackSyscall, FeedbackSeq2, FeedbackSeq3, InOp
<1>2. /\ prev1[p] \in Ops \union {NoOp}
      /\ prev2[p] \in Ops \union {NoOp}
      /\ prev1[p] = NoOp => prev2[p] = NoOp
  BY DEF TypeInv, TypeOK, PrevsFillInOrder
<1>3. IndexInBuffer'
  BY DEF TypeInv, TypeOK, IndexInBuffer, FeedbackSyscall, FeedbackSeq2, FeedbackSeq3,
         enter_executor, loopVars, InOp
<1>7. PrevsFillInOrder'
  BY DEF TypeInv, PrevsFillInOrder, FeedbackSyscall, FeedbackSeq2, FeedbackSeq3, loopVars
<1>4. CASE FeedbackSyscall(p)
  <2>1. SYSCALL(op(p)) \in Feature
    BY <1>1 DEF Feature
  <2>2. Record(p, SYSCALL(op(p)))
    BY <1>4 DEF FeedbackSyscall
  <2>3. TypeOK'
    BY <1>4, <2>1, <2>2, RecordKeepsType
    DEF TypeInv, TypeOK, FeedbackSyscall, loopVars, execVars, sharedVars, Running
  <2> QED
    BY <1>3, <1>7, <2>3 DEF TypeInv
<1>5. CASE FeedbackSeq2(p)
  <2>1. /\ seen' \in [Procs -> SUBSET Feature]
        /\ calls' \in [Procs -> Nat]
        /\ cells' \in [Procs -> [0..(MapSize - 1) -> Byte]]
    <3>1. CASE prev1[p] # NoOp
      <4>1. SEQ2(prev1[p], op(p)) \in Feature
        BY <1>1, <1>2, <3>1 DEF Feature
      <4> QED
        BY <1>5, <3>1, <4>1, RecordKeepsType DEF FeedbackSeq2
    <3>2. CASE prev1[p] = NoOp
      BY <1>5, <3>2 DEF FeedbackSeq2, feedbackVars, TypeInv, TypeOK
    <3> QED
      BY <3>1, <3>2
  <2>2. TypeOK'
    BY <1>5, <2>1 DEF TypeInv, TypeOK, FeedbackSeq2, loopVars, execVars, sharedVars, Running
  <2> QED
    BY <1>3, <1>7, <2>2 DEF TypeInv
<1>6. CASE FeedbackSeq3(p)
  <2>1. /\ seen' \in [Procs -> SUBSET Feature]
        /\ calls' \in [Procs -> Nat]
        /\ cells' \in [Procs -> [0..(MapSize - 1) -> Byte]]
    <3>1. CASE prev2[p] # NoOp
      <4>1. SEQ3(prev2[p], prev1[p], op(p)) \in Feature
        BY <1>1, <1>2, <3>1 DEF Feature
      <4> QED
        BY <1>6, <3>1, <4>1, RecordKeepsType DEF FeedbackSeq3
    <3>2. CASE prev2[p] = NoOp
      BY <1>6, <3>2 DEF FeedbackSeq3, feedbackVars, TypeInv, TypeOK
    <3> QED
      BY <3>1, <3>2
  <2>2. enter_executor(p)
    BY <1>6 DEF FeedbackSeq3
  <2>3. TypeOK'
    BY <1>6, <2>1, <2>2, EnterType DEF TypeInv, TypeOK, FeedbackSeq3, loopVars, sharedVars
  <2> QED
    BY <1>3, <1>7, <2>3 DEF TypeInv
<1> QED
  BY <1>4, <1>5, <1>6

\* The end of an iteration: feedback, trace line, shift and the next index.
LEMMA AfterOpType ==
  ASSUME TypeInv, NEW p \in Procs, AfterOp(p)
  PROVE  TypeInv'
<1>1. pc[p] = "exec" /\ op(p) \in Ops
  BY OpType DEF AfterOp, InOp
<1>2. err(p) \in Errnos
  BY DEF TypeInv, TypeOK, err, Errnos
<1>3. /\ seen' \in [Procs -> SUBSET Feature]
      /\ calls' \in [Procs -> Nat]
      /\ cells' \in [Procs -> [0..(MapSize - 1) -> Byte]]
  <2>1. CASE build[p].feedback /\ ret[p] < 0
    <3>1. ERRNO(op(p), err(p)) \in Feature
      BY <1>1, <1>2 DEF Feature
    <3> QED
      BY <2>1, <3>1, RecordKeepsType DEF AfterOp
  <2>2. CASE ~(build[p].feedback /\ ret[p] < 0)
    BY <2>2 DEF AfterOp, feedbackVars, TypeInv, TypeOK
  <2> QED
    BY <2>1, <2>2
<1>4. /\ i[p] \in Nat /\ i[p] % 4 = 0
      /\ i[p] + 4 <= usable(buf[p])
      /\ MaxOps \in Nat
      /\ buf[p] \in Seq(Byte)
  BY <1>1, OpsAssumption DEF TypeInv, TypeOK, IndexInBuffer, InOp, OP_SIZE
<1>5. /\ i[p] \div 4 \in Nat
      /\ (i[p] + 4) % 4 = 0
  <2> DEFINE n == i[p]
  <2>1. n \in Nat /\ n % 4 = 0
    BY <1>4
  <2> HIDE DEF n
  <2>2. n \div 4 \in Nat /\ (n + 4) % 4 = 0
    BY <2>1
  <2> QED
    BY <2>2 DEF n
<1>6. trace' \in [Procs -> Seq([index : Nat, sysno : Ops, err : Errnos])]
  <2>1. [index |-> i[p] \div OP_SIZE, sysno |-> op(p), err |-> err(p)]
           \in [index : Nat, sysno : Ops, err : Errnos]
    BY <1>1, <1>2, <1>5 DEF OP_SIZE
  <2>2. trace[p] \in Seq([index : Nat, sysno : Ops, err : Errnos])
    BY DEF TypeInv, TypeOK
  <2>3. Append(trace[p], [index |-> i[p] \div OP_SIZE, sysno |-> op(p), err |-> err(p)])
           \in Seq([index : Nat, sysno : Ops, err : Errnos])
    BY <2>1, <2>2
  <2> QED
    BY <2>3 DEF AfterOp, TypeInv, TypeOK
<1>7. /\ prev1' \in [Procs -> Ops \union {NoOp}]
      /\ prev2' \in [Procs -> Ops \union {NoOp}]
      /\ PrevsFillInOrder'
  <2>1. op(p) # NoOp
    BY <1>1 DEF Ops, OpTable, OP_MAX, NoOp
  <2> QED
    BY <1>1, <2>1 DEF TypeInv, TypeOK, AfterOp, shift, PrevsFillInOrder
<1>8. TypeOK'
  <2>1. i' \in [Procs -> Nat]
    BY <1>4 DEF TypeInv, TypeOK, AfterOp, OP_SIZE
  <2>2. pc' \in [Procs -> Ended \union Running]
    BY DEF TypeInv, TypeOK, AfterOp, Running
  <2> QED
    BY <1>3, <1>6, <1>7, <2>1, <2>2 DEF TypeInv, TypeOK, AfterOp, execVars, sharedVars
<1>9. IndexInBuffer'
  <2>1. i[p] + 4 <= MaxOps * 4
    BY <1>4 DEF usable, OP_SIZE
  <2>2. i'[p] = i[p] + 4 /\ pc'[p] \notin InOp /\ buf' = buf
    BY DEF AfterOp, TypeInv, TypeOK, OP_SIZE, InOp
  <2>3. ASSUME NEW q \in Procs, q # p
        PROVE  i'[q] = i[q] /\ pc'[q] = pc[q]
    BY <2>3 DEF AfterOp, TypeInv, TypeOK
  <2> QED
    BY <1>5, <2>1, <2>2, <2>3 DEF TypeInv, IndexInBuffer, OP_SIZE
<1> QED
  BY <1>7, <1>8, <1>9 DEF TypeInv

\* While the executor runs an operation, run_input's index stays.
LEMMA FrameInv ==
  ASSUME TypeInv, UNCHANGED outsideExecutor
  PROVE  IndexInBuffer' /\ PrevsFillInOrder'
  BY DEF TypeInv, IndexInBuffer, PrevsFillInOrder, outsideExecutor, procVars, loopVars

LEMMA NextType == TypeInv /\ [Next]_vars => TypeInv'
<1> SUFFICES ASSUME TypeInv, [Next]_vars PROVE TypeInv'
  OBVIOUS
<1>1. CASE UNCHANGED vars
  BY <1>1 DEF TypeInv, TypeOK, IndexInBuffer, PrevsFillInOrder, vars, procVars, loopVars,
              execVars, feedbackVars, sharedVars
<1>2. ASSUME NEW p \in Procs, Main(p) \/ MainUsage(p) PROVE TypeInv'
  BY <1>2, MainType
<1>3. ASSUME NEW p \in Procs, RunInput(p) PROVE TypeInv'
  BY <1>3, NextOpType, FeedbackType, AfterOpType, EndType DEF RunInput
<1>4. ASSUME NEW p \in Procs, Helper(p) PROVE TypeInv'
  BY <1>4, HelperType, FrameInv DEF TypeInv
<1>5. ASSUME NEW p \in Procs, Call(p) PROVE TypeInv'
  BY <1>5, CallType, FrameInv DEF TypeInv
<1>6. ASSUME NEW p \in Procs, Alarm(p) PROVE TypeInv'
  BY <1>6, EndType
<1> QED
  BY <1>1, <1>2, <1>3, <1>4, <1>5, <1>6 DEF Next

\* Whatever the campaigns, their inputs and builds, and wherever the timer
\* fires: the decoder stays inside main's buffer and MAX_OPS, every plan the
\* executor follows is made of known steps, every cell stays a byte.
THEOREM TypeCorrect == Spec => []TypeOK
<1>1. TypeInv => TypeOK
  BY DEF TypeInv
<1> QED
  BY <1>1, InitType, NextType, PTL DEF Spec

-----------------------------------------------------------------------------
(* The map.                                                                *)

\* record_feature is the only operation on the map during a run, and a run
\* starts with a map of zeros.
MapStep(p) ==
  \/ /\ seen'[p] = {} /\ calls'[p] = 0
     /\ cells'[p] = [s \in 0..(MapSize - 1) |-> 0]
  \/ /\ build'[p] = build[p]
     /\ \/ UNCHANGED <<seen, calls, cells>>
        \/ \E f \in Feature : Record(p, f)

LEMMA MapChanges ==
  ASSUME TypeInv, [Next]_vars
  PROVE  \/ UNCHANGED <<build, seen, calls, cells>>
         \/ \E p \in Procs :
              /\ MapStep(p)
              /\ \A q \in Procs : q # p => /\ build'[q] = build[q]
                                           /\ seen'[q] = seen[q]
                                           /\ calls'[q] = calls[q]
                                           /\ cells'[q] = cells[q]
<1> DEFINE Others(p) == \A q \in Procs : q # p => /\ build'[q] = build[q]
                                                  /\ seen'[q] = seen[q]
                                                  /\ calls'[q] = calls[q]
                                                  /\ cells'[q] = cells[q]
<1>1. CASE UNCHANGED vars
  BY <1>1 DEF vars, procVars, feedbackVars
<1>2. ASSUME NEW p \in Procs, Main(p) \/ MainUsage(p) PROVE MapStep(p) /\ Others(p)
  <2>1. /\ seen' = [seen EXCEPT ![p] = {}]
        /\ calls' = [calls EXCEPT ![p] = 0]
        /\ cells' = [cells EXCEPT ![p] = [s \in 0..(MapSize - 1) |-> 0]]
        /\ (\E b \in Builds : build' = [build EXCEPT ![p] = b]) \/ build' = build
    BY <1>2 DEF Main, MainUsage
  <2> QED
    BY <2>1 DEF MapStep, TypeInv, TypeOK
<1>3. ASSUME NEW p \in Procs, Helper(p) \/ Call(p) \/ NextOp(p) \/ EndOfInput(p) \/ Alarm(p)
      PROVE  UNCHANGED <<build, seen, calls, cells>>
  <2>1. CASE Helper(p) \/ Call(p)
    BY <2>1, HelperType, CallType DEF outsideExecutor, procVars, feedbackVars
  <2>2. CASE NextOp(p) \/ EndOfInput(p) \/ Alarm(p)
    BY <2>2 DEF NextOp, EndOfInput, Alarm, feedbackVars
  <2> QED
    BY <1>3, <2>1, <2>2
<1>4. ASSUME NEW p \in Procs,
             FeedbackSyscall(p) \/ FeedbackSeq2(p) \/ FeedbackSeq3(p) \/ AfterOp(p)
      PROVE  MapStep(p) /\ Others(p)
  <2>1. op(p) \in Ops
    BY <1>4, OpType DEF FeedbackSyscall, FeedbackSeq2, FeedbackSeq3, AfterOp, InOp
  <2>2. /\ prev1[p] \in Ops \union {NoOp}
        /\ prev2[p] \in Ops \union {NoOp}
        /\ prev1[p] = NoOp => prev2[p] = NoOp
        /\ err(p) \in Errnos
    BY DEF TypeInv, TypeOK, PrevsFillInOrder, err, Errnos
  <2>3. /\ SYSCALL(op(p)) \in Feature
        /\ ERRNO(op(p), err(p)) \in Feature
        /\ prev1[p] # NoOp => SEQ2(prev1[p], op(p)) \in Feature
        /\ prev2[p] # NoOp => SEQ3(prev2[p], prev1[p], op(p)) \in Feature
    BY <2>1, <2>2 DEF Feature
  <2>4. /\ UNCHANGED build
        /\ UNCHANGED <<seen, calls, cells>> \/ \E f \in Feature : Record(p, f)
    BY <1>4, <2>3 DEF FeedbackSyscall, FeedbackSeq2, FeedbackSeq3, AfterOp, feedbackVars
  <2>5. ASSUME NEW f \in Feature, Record(p, f) PROVE UNCHANGED build => Others(p)
    BY <2>5 DEF Record, TypeInv, TypeOK
  <2> QED
    BY <2>4, <2>5 DEF MapStep
<1> QED
  BY <1>1, <1>2, <1>3, <1>4 DEF Next, RunInput

\* IdZeroReserved for every hash function: no feature of an AFL++ build ever
\* lands in the cell AFL++ keeps for itself.
LEMMA IdZeroStep == TypeInv /\ IdZeroReserved /\ [Next]_vars => IdZeroReserved'
<1> SUFFICES ASSUME TypeInv, IdZeroReserved, [Next]_vars, NEW q \in Procs, build'[q].afl
             PROVE  cells'[q][0] = 0
  BY DEF IdZeroReserved
<1>0. 0 \in 0..(MapSize - 1) /\ build[q].afl \in BOOLEAN
  BY OpsAssumption, ExerciserAssumption DEF TypeInv, TypeOK
<1>1. CASE build'[q] = build[q] /\ cells'[q] = cells[q]
  BY <1>1 DEF IdZeroReserved
<1>2. CASE cells'[q] = [s \in 0..(MapSize - 1) |-> 0]
  BY <1>0, <1>2
<1>3. CASE build'[q] = build[q] /\ \E f \in Feature : Record(q, f)
  <2>1. PICK f \in Feature : Record(q, f)
    BY <1>3
  <2>2. cells'[q] = record_feature(cells[q], build[q].afl, f)
    BY <2>1 DEF Record, TypeInv, TypeOK
  <2>3. slot(build[q].afl, f) # 0
    BY <1>0, <1>3, SlotType
  <2>4. cells[q] \in [0..(MapSize - 1) -> Byte]
    BY DEF TypeInv, TypeOK
  <2>5. cells'[q][0] = cells[q][0]
    BY <1>0, <2>2, <2>3, <2>4, RecordType
  <2> QED
    BY <1>3, <2>5 DEF IdZeroReserved
<1> QED
  BY <1>1, <1>2, <1>3, MapChanges DEF MapStep

THEOREM ReservedCellUntouched == Spec => []IdZeroReserved
<1>1. Init => IdZeroReserved
  BY OpsAssumption DEF Init, IdZeroReserved
<1> QED
  BY <1>1, InitType, NextType, IdZeroStep, PTL DEF Spec

\* CallsCounted is inductive, because more_ops bounds the operations by
\* MAX_OPS: this is where 4 * MAX_OPS <= 256 is needed.
LEMMA CallsStep == TypeInv /\ CallsCounted /\ [Next]_vars => CallsCounted'
<1> SUFFICES ASSUME TypeInv, CallsCounted, [Next]_vars PROVE CallsCounted'
  OBVIOUS
<1> DEFINE Bound(q) ==
             /\ calls[q] < CellMod
             /\ pc[q] \in Running =>
                  IF i[q] = 0
                    THEN /\ prev1[q] = NoOp
                         /\ calls[q] <= (IF pc[q] \in {"loop", "syscall"} THEN 0 ELSE 1)
                    ELSE calls[q] <= i[q] - 1 + ahead(q)
           Cells(q) == ~build[q].afl => \A s \in 0..(MapSize - 1) : cells[q][s] <= calls[q]
<1>0. /\ CellMod \in Nat /\ MaxOps \in Nat /\ MaxOps >= 1
      /\ 4 * MaxOps <= CellMod
      /\ MapSize \in Nat
  BY OpsAssumption
<1>b. \A q \in Procs : Bound(q) /\ Cells(q)
  BY DEF CallsCounted
<1>1. ASSUME UNCHANGED <<pc, i, prev1, calls>> PROVE \A q \in Procs : Bound(q)'
  BY <1>1, <1>b DEF ahead
<1>2. ASSUME NEW p \in Procs, Main(p) \/ MainUsage(p) \/ RunInput(p) \/ Alarm(p)
      PROVE  \A q \in Procs : q # p => Bound(q)'
  <2>1. \A q \in Procs : q # p => /\ pc'[q] = pc[q] /\ i'[q] = i[q]
                                  /\ prev1'[q] = prev1[q] /\ calls'[q] = calls[q]
    BY <1>2 DEF Main, MainUsage, RunInput, Alarm, NextOp, FeedbackSyscall, FeedbackSeq2,
      FeedbackSeq3, AfterOp, EndOfInput, Record, enter_executor, shift, reap,
      loopVars, feedbackVars, execVars, TypeInv, TypeOK
  <2> QED
    BY <2>1, <1>b DEF ahead
<1>3. ASSUME NEW p \in Procs, Main(p) \/ MainUsage(p) PROVE Bound(p)'
  <2>1. /\ i'[p] = 0 /\ prev1'[p] = NoOp /\ calls'[p] = 0
        /\ pc'[p] \in {"exited", "loop", "usage"}
    BY <1>3 DEF Main, MainUsage, TypeInv, TypeOK
  <2> QED
    BY <1>0, <2>1 DEF Running
<1>4. ASSUME NEW p \in Procs, RunInput(p) \/ Alarm(p) PROVE Bound(p)'
  <2>0. /\ i[p] \in Nat /\ calls[p] \in Nat
        /\ pc[p] \in Running
        /\ pc[p] \in InOp => i[p] + 4 <= MaxOps * 4
        /\ i[p] <= MaxOps * 4
        /\ i[p] % 4 = 0
    <3>1. pc[p] \in InOp => i[p] + OP_SIZE <= usable(buf[p])
      BY DEF TypeInv, IndexInBuffer
    <3>2. buf[p] \in Seq(Byte)
      BY DEF TypeInv, TypeOK
    <3> QED
      BY <1>0, <1>4, <3>1, <3>2 DEF TypeInv, TypeOK, IndexInBuffer, usable, OP_SIZE, RunInput, Alarm,
        NextOp, FeedbackSyscall, FeedbackSeq2, FeedbackSeq3, AfterOp, EndOfInput, Running
  <2>1. CASE NextOp(p)
    <3>1. /\ pc[p] = "loop" /\ pc'[p] \in {"syscall", "exec"}
          /\ UNCHANGED <<i, prev1, calls>>
      BY <2>1 DEF NextOp, enter_executor, loopVars, feedbackVars, TypeInv, TypeOK
    <3>2. Bound(p)
      BY <1>b
    <3> QED
      BY <2>0, <3>1, <3>2 DEF ahead, Running
  <2>2. CASE EndOfInput(p) \/ Alarm(p)
    <3>1. pc'[p] \in {"exited", "killed"} /\ UNCHANGED calls
      BY <2>2 DEF EndOfInput, Alarm, feedbackVars, TypeInv, TypeOK
    <3> QED
      BY <1>b, <3>1 DEF Running
  <2>3. CASE FeedbackSyscall(p)
    <3>1. /\ pc[p] = "syscall" /\ pc'[p] = "seq2"
          /\ calls'[p] = calls[p] + 1 /\ UNCHANGED <<i, prev1>>
      BY <2>3 DEF FeedbackSyscall, Record, loopVars, TypeInv, TypeOK
    <3> QED
      BY <1>0, <1>b, <2>0, <3>1 DEF ahead, Running, InOp
  <2>4. CASE FeedbackSeq2(p)
    <3>1. /\ pc[p] = "seq2" /\ pc'[p] = "seq3" /\ UNCHANGED <<i, prev1>>
          /\ calls'[p] = (IF prev1[p] # NoOp THEN calls[p] + 1 ELSE calls[p])
      BY <2>4 DEF FeedbackSeq2, Record, loopVars, feedbackVars, TypeInv, TypeOK
    <3>2. CASE i[p] = 0
      BY <1>0, <1>b, <2>0, <3>1, <3>2 DEF Running
    <3>3. CASE i[p] # 0
      BY <1>0, <1>b, <2>0, <3>1, <3>3 DEF ahead, Running, InOp
    <3> QED
      BY <3>2, <3>3
  <2>5. CASE FeedbackSeq3(p)
    <3>1. /\ pc[p] = "seq3" /\ pc'[p] = "exec" /\ UNCHANGED <<i, prev1>>
          /\ calls'[p] = (IF prev2[p] # NoOp THEN calls[p] + 1 ELSE calls[p])
      BY <2>5 DEF FeedbackSeq3, Record, enter_executor, loopVars, feedbackVars, TypeInv, TypeOK
    <3>2. prev1[p] = NoOp => prev2[p] = NoOp
      BY DEF TypeInv, PrevsFillInOrder
    <3> QED
      BY <1>0, <1>b, <2>0, <3>1, <3>2 DEF ahead, Running, InOp
  <2>6. CASE AfterOp(p)
    <3>1. /\ pc[p] = "exec" /\ pc'[p] = "loop" /\ i'[p] = i[p] + 4
          /\ calls'[p] = calls[p] + 1 \/ calls'[p] = calls[p]
      BY <2>6 DEF AfterOp, Record, feedbackVars, TypeInv, TypeOK, OP_SIZE
    <3> QED
      BY <1>0, <1>b, <2>0, <3>1 DEF ahead, Running, InOp
  <2> QED
    BY <1>4, <2>1, <2>2, <2>3, <2>4, <2>5, <2>6 DEF RunInput
<1>5. \A q \in Procs : Bound(q)'
  <2>1. CASE UNCHANGED vars
    BY <1>1, <2>1 DEF vars, procVars, loopVars, feedbackVars
  <2>2. ASSUME NEW p \in Procs, Helper(p) \/ Call(p) PROVE UNCHANGED <<pc, i, prev1, calls>>
    BY <2>2, HelperType, CallType DEF outsideExecutor, procVars, loopVars, feedbackVars
  <2> QED
    BY <1>1, <1>2, <1>3, <1>4, <2>1, <2>2 DEF Next
<1>6. ASSUME NEW q \in Procs PROVE Cells(q)'
  <2> SUFFICES ASSUME ~build'[q].afl, NEW s \in 0..(MapSize - 1)
               PROVE  cells'[q][s] <= calls'[q]
    OBVIOUS
  <2>1. CASE build'[q] = build[q] /\ cells'[q] = cells[q] /\ calls'[q] = calls[q]
    BY <1>b, <2>1
  <2>2. CASE cells'[q] = [r \in 0..(MapSize - 1) |-> 0] /\ calls'[q] = 0
    BY <2>2
  <2>3. CASE build'[q] = build[q] /\ \E f \in Feature : Record(q, f)
    <3>1. PICK f \in Feature : Record(q, f)
      BY <2>3
    <3> DEFINE afl == build[q].afl
               h == slot(afl, f)
    <3>2. /\ cells'[q] = record_feature(cells[q], afl, f)
          /\ calls'[q] = calls[q] + 1
      BY <3>1 DEF Record, TypeInv, TypeOK
    <3>3. /\ cells[q] \in [0..(MapSize - 1) -> Byte] /\ calls[q] \in Nat
          /\ afl \in BOOLEAN
      BY ExerciserAssumption DEF TypeInv, TypeOK
    <3>4. ~afl
      BY <2>3
    <3>5. /\ s # h => cells'[q][s] = cells[q][s]
          /\ cells'[q][h] = (cells[q][h] + 1) % CellMod
      <4> HIDE DEF afl
      <4> QED
        BY <3>2, <3>3, <3>4, RecordType
    <3>6. cells[q][s] \in Nat /\ cells[q][s] <= calls[q]
      <4>1. cells[q][s] <= calls[q]
        BY <3>4 DEF CallsCounted
      <4>2. cells[q][s] \in 0..255
        BY <3>3 DEF Byte
      <4> QED
        BY <4>1, <4>2
    <3>7. calls'[q] < CellMod
      BY <1>5
    <3>8. (cells[q][s] + 1) % CellMod = cells[q][s] + 1
      <4> DEFINE m == cells[q][s] + 1
      <4>1. m \in Nat /\ m < CellMod
        BY <1>0, <3>2, <3>3, <3>6, <3>7
      <4> HIDE DEF m
      <4>2. m % CellMod = m
        BY <1>0, <4>1
      <4> QED
        BY <4>2 DEF m
    <3> HIDE DEF afl, h
    <3> QED
      BY <3>2, <3>3, <3>5, <3>6, <3>8
  <2>4. \/ UNCHANGED <<build, seen, calls, cells>>
        \/ MapStep(q)
        \/ build'[q] = build[q] /\ cells'[q] = cells[q] /\ calls'[q] = calls[q]
    BY MapChanges
  <2> QED
    BY <2>1, <2>2, <2>3, <2>4 DEF MapStep
<1> QED
  BY <1>5, <1>6 DEF CallsCounted

\* No cell forgets: in an AFL++ build a write is never zero, in the fallback
\* map the count of a cell does not wrap.
LEMMA KeepStep == TypeInv /\ CallsCounted /\ CallsCounted' /\ MapKeepsFeatures /\ [Next]_vars => MapKeepsFeatures'
<1> SUFFICES ASSUME TypeInv, CallsCounted, CallsCounted', MapKeepsFeatures, [Next]_vars,
                    NEW q \in Procs, NEW g \in seen'[q]
             PROVE  cells'[q][slot(build'[q].afl, g)] # 0
  BY DEF MapKeepsFeatures
<1>1. CASE build'[q] = build[q] /\ seen'[q] = seen[q] /\ cells'[q] = cells[q]
  BY <1>1 DEF MapKeepsFeatures
<1>2. CASE seen'[q] = {}
  BY <1>2
<1>3. CASE build'[q] = build[q] /\ \E f \in Feature : Record(q, f)
  <2>1. PICK f \in Feature : Record(q, f)
    BY <1>3
  <2> DEFINE afl == build[q].afl
             s == slot(afl, g)
             h == slot(afl, f)
  <2>2. /\ cells'[q] = record_feature(cells[q], afl, f)
        /\ seen'[q] = seen[q] \union {f}
        /\ calls'[q] = calls[q] + 1
    BY <2>1 DEF Record, TypeInv, TypeOK
  <2>3. /\ cells[q] \in [0..(MapSize - 1) -> Byte] /\ calls[q] \in Nat
        /\ afl \in BOOLEAN /\ seen[q] \subseteq Feature
    BY ExerciserAssumption DEF TypeInv, TypeOK
  <2>4. s \in 0..(MapSize - 1) /\ h \in 0..(MapSize - 1)
    BY <2>2, <2>3, SlotType
  <2>5. CellMod \in Nat /\ MapSize \in Nat
    BY OpsAssumption
  <2>a. /\ afl => cells'[q][h] # 0
        /\ ~afl => cells'[q][h] = (cells[q][h] + 1) % CellMod
        /\ \A r \in 0..(MapSize - 1) : r # h => cells'[q][r] = cells[q][r]
    <3> HIDE DEF afl
    <3> QED
      BY <2>2, <2>3, RecordType
  <2>6. cells'[q][h] # 0
    <3>1. CASE afl
      BY <2>a, <3>1
    <3>2. CASE ~afl
      <4>1. cells'[q][h] = (cells[q][h] + 1) % CellMod
        BY <2>a, <3>2
      <4>2. cells[q][h] \in Nat /\ cells[q][h] <= calls[q] /\ calls'[q] < CellMod
        <5>1. cells[q][h] <= calls[q] /\ calls'[q] < CellMod
          BY <2>4, <3>2 DEF CallsCounted
        <5>2. cells[q][h] \in 0..255
          BY <2>3, <2>4 DEF Byte
        <5> QED
          BY <5>1, <5>2
      <4> DEFINE m == cells[q][h] + 1
      <4>3. m \in Nat /\ m < CellMod /\ m # 0
        BY <2>2, <2>3, <2>5, <4>2
      <4> HIDE DEF m
      <4>4. m % CellMod = m
        BY <2>5, <4>3
      <4> QED
        BY <4>1, <4>3, <4>4 DEF m
    <3> QED
      BY <3>1, <3>2
  <2>7. CASE s = h
    BY <1>3, <2>6, <2>7
  <2>8. CASE s # h
    <3>1. g \in seen[q]
      BY <2>2, <2>8
    <3>2. cells[q][s] # 0
      BY <3>1 DEF MapKeepsFeatures
    <3>3. cells'[q][s] = cells[q][s]
      BY <2>4, <2>8, <2>a
    <3> QED
      BY <1>3, <3>2, <3>3
  <2> QED
    BY <2>7, <2>8
<1>4. \/ UNCHANGED <<build, seen, calls, cells>>
      \/ MapStep(q)
      \/ build'[q] = build[q] /\ seen'[q] = seen[q] /\ cells'[q] = cells[q]
  BY MapChanges
<1> QED
  BY <1>1, <1>2, <1>3, <1>4 DEF MapStep

\* MapKeepsFeatures for every hash function, map size and stream: a feature a
\* run has recorded is visible in the map until the run ends, because MAX_OPS
\* operations cannot make an 8-bit counter wrap.
THEOREM MapKeeps == Spec => []MapKeepsFeatures
<1>1. Init => CallsCounted /\ MapKeepsFeatures
  BY OpsAssumption DEF Init, CallsCounted, MapKeepsFeatures, Running
<1> QED
  BY <1>1, InitType, NextType, CallsStep, KeepStep, PTL DEF Spec

-----------------------------------------------------------------------------
(* N-grams.                                                                *)

\* One more operation is one more offset.
LEMMA OffsetsStep ==
  /\ \A n \in Nat : n % 4 = 0 => offsets(n + 4) = offsets(n) \union {n}
  /\ \A n \in Int : n <= 0 => offsets(n) = {}
<1>1. ASSUME NEW n \in Nat, n % 4 = 0 PROVE offsets(n + 4) = offsets(n) \union {n}
  <2>1. \A j \in Int : j \in offsets(n + 4) <=> (j = n \/ j \in offsets(n))
    <3> SUFFICES ASSUME NEW j \in Int
                 PROVE  (j \in 0..n /\ j % 4 = 0) <=> (j = n \/ (j \in 0..(n - 4) /\ j % 4 = 0))
      BY <1>1 DEF offsets, OP_SIZE
    <3> QED
      BY <1>1
  <2>2. offsets(n + 4) \subseteq Int /\ offsets(n) \subseteq Int
    BY <1>1 DEF offsets, OP_SIZE
  <2> QED
    BY <1>1, <2>1, <2>2
<1>2. ASSUME NEW n \in Int, n <= 0 PROVE offsets(n) = {}
  BY <1>2 DEF offsets, OP_SIZE
<1> QED
  BY <1>1, <1>2

\* What each feedback call adds to the n-grams.
LEMMA GramsStep ==
  ASSUME NEW b, NEW n \in Nat, n % 4 = 0
  PROVE  /\ \A x, y : grams(b, n + 4, x, y) = grams(b, n, x, y) \union {SYSCALL(op_at(b, n))}
         /\ \A x, y : grams(b, x, n + 4, y) =
              grams(b, x, n, y) \union {SEQ2(op_at(b, n), op_at(b, n + 4))}
         /\ \A x, y : grams(b, x, y, n + 4) =
              grams(b, x, y, n) \union {SEQ3(op_at(b, n), op_at(b, n + 4), op_at(b, n + 8))}
<1>1. offsets(n + 4) = offsets(n) \union {n}
  BY OffsetsStep
<1>2. { SYSCALL(op_at(b, j)) : j \in offsets(n + 4) } =
        { SYSCALL(op_at(b, j)) : j \in offsets(n) } \union {SYSCALL(op_at(b, n))}
  BY <1>1
<1>3. { SEQ2(op_at(b, j), op_at(b, j + 4)) : j \in offsets(n + 4) } =
        { SEQ2(op_at(b, j), op_at(b, j + 4)) : j \in offsets(n) }
          \union {SEQ2(op_at(b, n), op_at(b, n + 4))}
  BY <1>1
<1>4. { SEQ3(op_at(b, j), op_at(b, j + 4), op_at(b, j + 8)) : j \in offsets(n + 4) } =
        { SEQ3(op_at(b, j), op_at(b, j + 4), op_at(b, j + 8)) : j \in offsets(n) }
          \union {SEQ3(op_at(b, n), op_at(b, n + 4), op_at(b, n + 8))}
  BY <1>1
<1> QED
  BY <1>2, <1>3, <1>4 DEF grams

\* Only the ERRNO feedback leaves the n-grams as they were.
LEMMA SequenceFeaturesStep ==
  ASSUME NEW S
  PROVE  /\ \A a : sequence_features(S \union {SYSCALL(a)}) = sequence_features(S) \union {SYSCALL(a)}
         /\ \A a, b : sequence_features(S \union {SEQ2(a, b)}) = sequence_features(S) \union {SEQ2(a, b)}
         /\ \A a, b, c : sequence_features(S \union {SEQ3(a, b, c)}) =
              sequence_features(S) \union {SEQ3(a, b, c)}
         /\ \A a, b : sequence_features(S \union {ERRNO(a, b)}) = sequence_features(S)
<1>1. /\ \A a : SYSCALL(a)[1] # "ERRNO"
      /\ \A a, b : SEQ2(a, b)[1] # "ERRNO"
      /\ \A a, b, c : SEQ3(a, b, c)[1] # "ERRNO"
      /\ \A a, b : ERRNO(a, b)[1] = "ERRNO"
  BY DEF SYSCALL, SEQ2, SEQ3, ERRNO
<1> QED
  BY <1>1 DEF sequence_features

\* No features before the first operation.
LEMMA NoGrams == \A b : grams(b, 0, -4, -8) = {}
<1>1. offsets(0) = {} /\ offsets(-4) = {} /\ offsets(-8) = {}
  BY OffsetsStep
<1> QED
  BY <1>1 DEF grams

\* The feedback calls keep prev1, prev2 and the n-grams in step with i.
LEMMA FeedbackGrams ==
  ASSUME TypeInv, NEW p \in Procs, PrevsAndGramsOf(p),
         FeedbackSyscall(p) \/ FeedbackSeq2(p) \/ FeedbackSeq3(p)
  PROVE  PrevsAndGramsOf(p)'
<1> DEFINE n == i[p]
           b == buf[p]
<1>1. pc[p] \in {"syscall", "seq2", "seq3"}
  BY DEF FeedbackSyscall, FeedbackSeq2, FeedbackSeq3
<1>2. n \in Nat /\ n % 4 = 0
  BY DEF TypeInv, TypeOK, IndexInBuffer, OP_SIZE
<1>3. /\ build[p].feedback
      /\ prev1[p] = (IF n = 0 THEN NoOp ELSE op_at(b, n - 4))
      /\ prev2[p] = (IF n <= 4 THEN NoOp ELSE op_at(b, n - 8))
  BY <1>1 DEF PrevsAndGramsOf, Running
<1>4. prev1[p] # NoOp <=> n # 0
  <2>1. CASE n # 0
    <3>1. n - 4 \in Nat /\ (n - 4) + OP_SIZE <= Len(b) /\ b \in Seq(Byte)
      <4>1. n + OP_SIZE <= usable(b) /\ b \in Seq(Byte) /\ MaxOps \in Nat
        BY <1>1, OpsAssumption DEF TypeInv, TypeOK, IndexInBuffer, InOp
      <4> HIDE DEF n, b
      <4> QED
        BY <1>2, <2>1, <4>1 DEF usable, OP_SIZE
    <3>2. op_at(b, n - 4) \in Ops
      <4> HIDE DEF n, b
      <4> QED
        BY <3>1, DecodeType
    <3>3. NoOp \notin Ops
      BY DEF Ops, OpTable, OP_MAX, NoOp
    <3> QED
      BY <1>3, <2>1, <3>2, <3>3
  <2> QED
    BY <1>3, <2>1
<1>5. prev2[p] # NoOp <=> n > 4
  <2>1. CASE n > 4
    <3>1. n - 8 \in Nat /\ (n - 8) + OP_SIZE <= Len(b) /\ b \in Seq(Byte)
      <4>1. n + OP_SIZE <= usable(b) /\ b \in Seq(Byte) /\ MaxOps \in Nat
        BY <1>1, OpsAssumption DEF TypeInv, TypeOK, IndexInBuffer, InOp
      <4> HIDE DEF n, b
      <4> QED
        BY <1>2, <2>1, <4>1 DEF usable, OP_SIZE
    <3>2. op_at(b, n - 8) \in Ops
      <4> HIDE DEF n, b
      <4> QED
        BY <3>1, DecodeType
    <3>3. NoOp \notin Ops
      BY DEF Ops, OpTable, OP_MAX, NoOp
    <3> QED
      BY <1>2, <1>3, <2>1, <3>2, <3>3
  <2> QED
    BY <1>2, <1>3, <2>1
<1>6. UNCHANGED <<build, buf, i, prev1, prev2>>
  BY DEF FeedbackSyscall, FeedbackSeq2, FeedbackSeq3, loopVars
<1>7. sequence_features(seen[p]) =
        CASE pc[p] = "syscall" -> grams(b, n, n - 4, n - 8)
          [] pc[p] = "seq2"    -> grams(b, n + 4, n - 4, n - 8)
          [] pc[p] = "seq3"    -> grams(b, n + 4, n, n - 8)
  BY <1>1, <1>2, <1>3 DEF PrevsAndGramsOf, Running, done, OP_SIZE
<1>8. sequence_features(seen'[p]) =
        CASE pc'[p] = "seq2" -> grams(b, n + 4, n - 4, n - 8)
          [] pc'[p] = "seq3" -> grams(b, n + 4, n, n - 8)
          [] pc'[p] = "exec" -> grams(b, n + 4, n, n - 4)
  <2>1. CASE FeedbackSyscall(p)
    <3>1. /\ pc[p] = "syscall" /\ pc'[p] = "seq2"
          /\ seen'[p] = seen[p] \union {SYSCALL(op_at(b, n))}
      BY <2>1 DEF FeedbackSyscall, Record, op, TypeInv, TypeOK
    <3>2. grams(b, n + 4, n - 4, n - 8) = grams(b, n, n - 4, n - 8) \union {SYSCALL(op_at(b, n))}
      <4> HIDE DEF n, b
      <4>1. \A x, y : grams(b, n + 4, x, y) = grams(b, n, x, y) \union {SYSCALL(op_at(b, n))}
        BY <1>2, GramsStep
      <4> QED
        BY <4>1
    <3>3. sequence_features(seen'[p]) = sequence_features(seen[p]) \union {SYSCALL(op_at(b, n))}
      BY <3>1, SequenceFeaturesStep
    <3>4. sequence_features(seen[p]) = grams(b, n, n - 4, n - 8)
      BY <1>7, <3>1
    <3> QED
      BY <3>1, <3>2, <3>3, <3>4
  <2>2. CASE FeedbackSeq2(p)
    <3>1. /\ pc[p] = "seq2" /\ pc'[p] = "seq3"
          /\ seen'[p] = (IF prev1[p] # NoOp
                           THEN seen[p] \union {SEQ2(prev1[p], op_at(b, n))} ELSE seen[p])
      BY <2>2 DEF FeedbackSeq2, Record, op, feedbackVars, TypeInv, TypeOK
    <3>2. CASE n = 0
      <4> HIDE DEF n, b
      <4>1. offsets(0) = {} /\ offsets(0 - 4) = {}
        BY OffsetsStep
      <4>2. n - 4 = 0 - 4
        BY <3>2
      <4>3. offsets(n) = offsets(n - 4)
        BY <3>2, <4>1, <4>2
      <4>4. grams(b, n + 4, n, n - 8) = grams(b, n + 4, n - 4, n - 8)
        BY <4>3 DEF grams
      <4> QED
        BY <1>4, <1>7, <3>1, <3>2, <4>4
    <3>3. CASE n # 0
      <4>1. n - 4 \in Nat /\ (n - 4) % 4 = 0 /\ (n - 4) + 4 = n
        <5> HIDE DEF n
        <5> QED
          BY <1>2, <3>3
      <4>2. grams(b, n + 4, n, n - 8) =
              grams(b, n + 4, n - 4, n - 8) \union {SEQ2(op_at(b, n - 4), op_at(b, n))}
        <5> DEFINE m == n - 4
        <5>1. m \in Nat /\ m % 4 = 0 /\ m + 4 = n
          BY <4>1
        <5> HIDE DEF n, b, m
        <5>2. \A x, y : grams(b, x, m + 4, y) =
                grams(b, x, m, y) \union {SEQ2(op_at(b, m), op_at(b, m + 4))}
          BY <5>1, GramsStep
        <5>3. grams(b, n + 4, m + 4, n - 8) =
                grams(b, n + 4, m, n - 8) \union {SEQ2(op_at(b, m), op_at(b, m + 4))}
          BY <5>2
        <5> QED
          BY <5>1, <5>3 DEF m
      <4> QED
        <5>1. seen'[p] = seen[p] \union {SEQ2(op_at(b, n - 4), op_at(b, n))}
          BY <1>3, <1>4, <3>1, <3>3
        <5>2. sequence_features(seen'[p]) =
                sequence_features(seen[p]) \union {SEQ2(op_at(b, n - 4), op_at(b, n))}
          BY <5>1, SequenceFeaturesStep
        <5>3. sequence_features(seen[p]) = grams(b, n + 4, n - 4, n - 8)
          BY <1>7, <3>1
        <5> QED
          BY <3>1, <4>2, <5>2, <5>3
    <3> QED
      BY <3>2, <3>3
  <2>3. CASE FeedbackSeq3(p)
    <3>1. /\ pc[p] = "seq3" /\ pc'[p] = "exec"
          /\ seen'[p] = (IF prev2[p] # NoOp
                           THEN seen[p] \union {SEQ3(prev2[p], prev1[p], op_at(b, n))} ELSE seen[p])
      BY <2>3 DEF FeedbackSeq3, Record, op, enter_executor, feedbackVars, TypeInv, TypeOK
    <3>2. CASE n <= 4
      <4>1. offsets(n - 4) = offsets(n - 8)
        <5>1. n - 4 \in Int /\ n - 4 <= 0 /\ n - 8 \in Int /\ n - 8 <= 0
          BY <1>2, <3>2
        <5> QED
          BY <5>1, OffsetsStep
      <4>2. grams(b, n + 4, n, n - 4) = grams(b, n + 4, n, n - 8)
        BY <4>1 DEF grams
      <4> QED
        BY <1>2, <1>5, <1>7, <3>1, <3>2, <4>2
    <3>3. CASE n > 4
      <4>1. n - 8 \in Nat /\ (n - 8) % 4 = 0
        <5> HIDE DEF n
        <5> QED
          BY <1>2, <3>3
      <4>2. grams(b, n + 4, n, n - 4) =
              grams(b, n + 4, n, n - 8)
                \union {SEQ3(op_at(b, n - 8), op_at(b, n - 4), op_at(b, n))}
        <5> DEFINE m == n - 8
        <5>1. m \in Nat /\ m % 4 = 0 /\ m + 4 = n - 4 /\ m + 8 = n
          BY <1>2, <4>1
        <5> HIDE DEF n, b, m
        <5>2. \A x, y : grams(b, x, y, m + 4) =
                grams(b, x, y, m) \union {SEQ3(op_at(b, m), op_at(b, m + 4), op_at(b, m + 8))}
          BY <5>1, GramsStep
        <5>3. grams(b, n + 4, n, m + 4) =
                grams(b, n + 4, n, m) \union {SEQ3(op_at(b, m), op_at(b, m + 4), op_at(b, m + 8))}
          BY <5>2
        <5> QED
          BY <5>1, <5>3 DEF m
      <4> QED
        <5>1. seen'[p] = seen[p] \union {SEQ3(op_at(b, n - 8), op_at(b, n - 4), op_at(b, n))}
          BY <1>2, <1>3, <1>5, <3>1, <3>3
        <5>2. sequence_features(seen'[p]) =
                sequence_features(seen[p])
                  \union {SEQ3(op_at(b, n - 8), op_at(b, n - 4), op_at(b, n))}
          BY <5>1, SequenceFeaturesStep
        <5>3. sequence_features(seen[p]) = grams(b, n + 4, n, n - 8)
          BY <1>7, <3>1
        <5> QED
          BY <3>1, <4>2, <5>2, <5>3
    <3>4. n <= 4 \/ n > 4
      BY <1>2
    <3> QED
      BY <3>2, <3>3, <3>4
  <2> QED
    BY <2>1, <2>2, <2>3
<1>9. pc'[p] \in {"seq2", "seq3", "exec"}
  BY DEF FeedbackSyscall, FeedbackSeq2, FeedbackSeq3, enter_executor, TypeInv, TypeOK
<1> QED
  BY <1>2, <1>3, <1>6, <1>8, <1>9 DEF PrevsAndGramsOf, done, OP_SIZE

\* The shift of prev1 and prev2 at the end of an iteration.
LEMMA AfterOpGrams ==
  ASSUME TypeInv, NEW p \in Procs, PrevsAndGramsOf(p), AfterOp(p)
  PROVE  PrevsAndGramsOf(p)'
<1> DEFINE n == i[p]
           b == buf[p]
<1>1. n \in Nat /\ n % 4 = 0 /\ pc[p] = "exec" /\ pc'[p] = "loop"
  BY DEF TypeInv, TypeOK, IndexInBuffer, OP_SIZE, AfterOp
<1>2. i'[p] = n + 4 /\ UNCHANGED <<build, buf>>
  BY DEF AfterOp, OP_SIZE, TypeInv, TypeOK
<1>3. CASE build[p].feedback
  <2>1. /\ prev1[p] = (IF n = 0 THEN NoOp ELSE op_at(b, n - 4))
        /\ sequence_features(seen[p]) = grams(b, n + 4, n, n - 4)
    BY <1>1, <1>3 DEF PrevsAndGramsOf, Running, done, OP_SIZE
  <2>2. prev1'[p] = op_at(b, n) /\ prev2'[p] = prev1[p]
    BY <1>3 DEF AfterOp, shift, op, TypeInv, TypeOK
  <2>3. sequence_features(seen'[p]) = sequence_features(seen[p])
    <3>1. seen'[p] = seen[p] \/ seen'[p] = seen[p] \union {ERRNO(op(p), err(p))}
      BY DEF AfterOp, Record, feedbackVars, TypeInv, TypeOK
    <3> QED
      BY <3>1, SequenceFeaturesStep
  <2>4. /\ prev1'[p] = op_at(b, (n + 4) - 4)
        /\ prev2'[p] = (IF n + 4 <= 4 THEN NoOp ELSE op_at(b, (n + 4) - 8))
        /\ sequence_features(seen'[p]) = grams(b, (n + 4) + 0, (n + 4) - 4 + 0, (n + 4) - 8 + 0)
    <3>1. /\ (n + 4) - 4 = n /\ (n + 4) - 8 = n - 4 /\ (n + 4 <= 4 <=> n = 0)
          /\ (n + 4) + 0 = n + 4 /\ (n + 4) - 4 + 0 = n /\ (n + 4) - 8 + 0 = n - 4
      <4> HIDE DEF n
      <4> QED
        BY <1>1
    <3> HIDE DEF n, b
    <3> QED
      BY <2>1, <2>2, <2>3, <3>1
  <2>5. i'[p] # 0
    BY <1>1, <1>2
  <2> HIDE DEF n, b
  <2> QED
    BY <1>1, <1>2, <1>3, <2>4, <2>5 DEF PrevsAndGramsOf, done, b
<1>4. CASE ~build[p].feedback
  <2>1. seen[p] = {}
    BY <1>1, <1>4 DEF PrevsAndGramsOf, Running
  <2>2. seen'[p] = {}
    BY <1>4, <2>1 DEF AfterOp, feedbackVars
  <2> QED
    BY <1>1, <1>2, <1>4, <2>2 DEF PrevsAndGramsOf
<1> QED
  BY <1>3, <1>4

LEMMA GramsInvStep == TypeInv /\ PrevsAndGrams /\ [Next]_vars => PrevsAndGrams'
<1> SUFFICES ASSUME TypeInv, PrevsAndGrams, [Next]_vars, NEW q \in Procs
             PROVE  PrevsAndGramsOf(q)'
  BY DEF PrevsAndGrams
<1>0. PrevsAndGramsOf(q)
  BY DEF PrevsAndGrams
<1> DEFINE Same == /\ pc'[q] = pc[q] /\ build'[q] = build[q] /\ i'[q] = i[q]
                   /\ buf'[q] = buf[q] /\ prev1'[q] = prev1[q] /\ prev2'[q] = prev2[q]
                   /\ seen'[q] = seen[q]
<1>1. CASE Same
  BY <1>0, <1>1 DEF PrevsAndGramsOf, done
<1>2. ASSUME NEW p \in Procs, p # q,
             Main(p) \/ MainUsage(p) \/ RunInput(p) \/ Alarm(p)
      PROVE  Same
  <2>1. CASE Main(p) \/ MainUsage(p)
    <3>1. /\ i' = [i EXCEPT ![p] = 0]
          /\ prev1' = [prev1 EXCEPT ![p] = NoOp]
          /\ prev2' = [prev2 EXCEPT ![p] = NoOp]
          /\ seen' = [seen EXCEPT ![p] = {}]
      BY <2>1 DEF Main, MainUsage
    <3>2. /\ build' = build \/ \E b \in Builds : build' = [build EXCEPT ![p] = b]
          /\ \E b : buf' = [buf EXCEPT ![p] = b]
          /\ \E s : pc' = [pc EXCEPT ![p] = s]
      <4>1. CASE Main(p)
        <5>1. PICK b \in Builds, file \in Inputs :
                /\ build' = [build EXCEPT ![p] = b]
                /\ buf' = [buf EXCEPT ![p] = read_input(file)]
                /\ pc' = [pc EXCEPT ![p] = IF read_input(file) = <<>> THEN "exited" ELSE "loop"]
          BY <4>1 DEF Main
        <5> QED
          BY <5>1
      <4>2. CASE MainUsage(p)
        BY <4>2 DEF MainUsage
      <4> QED
        BY <2>1, <4>1, <4>2
    <3>3. i'[q] = i[q] /\ prev1'[q] = prev1[q] /\ prev2'[q] = prev2[q] /\ seen'[q] = seen[q]
      BY <1>2, <3>1 DEF TypeInv, TypeOK
    <3>4. build'[q] = build[q] /\ buf'[q] = buf[q] /\ pc'[q] = pc[q]
      BY <1>2, <3>2 DEF TypeInv, TypeOK
    <3> QED
      BY <3>3, <3>4
  <2>2. CASE RunInput(p) \/ Alarm(p)
    <3> USE DEF RunInput, Alarm, NextOp, FeedbackSyscall, FeedbackSeq2, FeedbackSeq3, AfterOp,
                EndOfInput, Record, enter_executor, shift, loopVars, feedbackVars
    <3>1. build' = build /\ buf' = buf
      BY <2>2
    <3>2. \E s : pc' = [pc EXCEPT ![p] = s]
      BY <2>2
    <3>3. i' = i \/ \E n : i' = [i EXCEPT ![p] = n]
      BY <2>2
    <3>4. /\ prev1' = prev1 \/ \E o : prev1' = [prev1 EXCEPT ![p] = o]
          /\ prev2' = prev2 \/ \E o : prev2' = [prev2 EXCEPT ![p] = o]
      BY <2>2
    <3>5. seen' = seen \/ \E f : seen' = [seen EXCEPT ![p] = f]
      BY <2>2
    <3>6. pc'[q] = pc[q] /\ i'[q] = i[q]
      BY <1>2, <3>2, <3>3 DEF TypeInv, TypeOK
    <3>7. prev1'[q] = prev1[q] /\ prev2'[q] = prev2[q] /\ seen'[q] = seen[q]
      BY <1>2, <3>4, <3>5 DEF TypeInv, TypeOK
    <3> QED
      BY <3>1, <3>6, <3>7
  <2> QED
    BY <1>2, <2>1, <2>2
<1>3. CASE Main(q)
  <2>1. /\ i'[q] = 0 /\ prev1'[q] = NoOp /\ prev2'[q] = NoOp /\ seen'[q] = {}
        /\ pc'[q] \in {"loop", "exited"}
    BY <1>3 DEF Main, TypeInv, TypeOK
  <2>2. sequence_features({}) = {}
    BY DEF sequence_features
  <2>3. grams(buf'[q], 0 + 0, 0 - 4 + 0, 0 - 8 + 0) = {}
    <3>1. 0 + 0 = 0 /\ 0 - 4 + 0 = -4 /\ 0 - 8 + 0 = -8
      OBVIOUS
    <3> QED
      BY <3>1, NoGrams
  <2> QED
    BY <2>1, <2>2, <2>3 DEF PrevsAndGramsOf, done
<1>4. CASE MainUsage(q)
  <2>1. pc'[q] = "usage"
    BY <1>4 DEF MainUsage, TypeInv, TypeOK
  <2> QED
    BY <2>1 DEF PrevsAndGramsOf, Running
<1>5. CASE Alarm(q)
  <2>1. pc'[q] = "killed"
    BY <1>5 DEF Alarm, TypeInv, TypeOK
  <2> QED
    BY <2>1 DEF PrevsAndGramsOf, Running
<1>6. CASE NextOp(q) \/ EndOfInput(q)
  <2>1. /\ pc[q] = "loop" /\ pc'[q] \in {"syscall", "exec", "exited"}
        /\ build[q].feedback => pc'[q] \in {"syscall", "exited"}
        /\ ~build[q].feedback => pc'[q] \in {"exec", "exited"}
        /\ UNCHANGED <<build, i, buf, prev1, prev2, seen>>
    BY <1>6 DEF NextOp, EndOfInput, enter_executor, loopVars, feedbackVars, TypeInv, TypeOK
  <2> QED
    BY <1>0, <2>1 DEF PrevsAndGramsOf, done, Running
<1>7. CASE FeedbackSyscall(q) \/ FeedbackSeq2(q) \/ FeedbackSeq3(q) \/ AfterOp(q)
  BY <1>0, <1>7, FeedbackGrams, AfterOpGrams
<1>8. ASSUME NEW p \in Procs, Helper(p) \/ Call(p) PROVE Same
  BY <1>8, HelperType, CallType DEF outsideExecutor, procVars, loopVars, feedbackVars
<1>9. CASE UNCHANGED vars
  <2>1. Same
    BY <1>9 DEF vars, procVars, loopVars, feedbackVars
  <2> QED
    BY <1>1, <2>1
<1> QED
  BY <1>1, <1>2, <1>3, <1>4, <1>5, <1>6, <1>7, <1>8, <1>9 DEF Next, RunInput

\* NgramFeatures for every input, every MAX_OPS and MAX_INPUT: the features
\* of a feedback build are exactly the one-, two- and three-grams of what it
\* executed, wherever the timer cuts a run of another campaign short.
THEOREM NgramsExact == Spec => []NgramFeatures
<1>1. Init => PrevsAndGrams
  BY DEF Init, PrevsAndGrams, PrevsAndGramsOf, Running
<1>2. TypeInv /\ PrevsAndGrams => NgramFeatures
  <2> SUFFICES ASSUME TypeInv, PrevsAndGrams, NEW p \in Procs, pc[p] \in {"loop", "exited"}
               PROVE  sequence_features(seen[p]) =
                        (IF build[p].feedback THEN ngrams(buf[p], i[p]) ELSE {})
    BY DEF NgramFeatures
  <2>1. PrevsAndGramsOf(p)
    BY DEF PrevsAndGrams
  <2>2. CASE build[p].feedback
    <3>1. i[p] + 0 = i[p] /\ i[p] - 4 + 0 = i[p] - 4 /\ i[p] - 8 + 0 = i[p] - 8
      BY DEF TypeInv, TypeOK
    <3>2. sequence_features(seen[p]) = grams(buf[p], i[p] + 0, i[p] - 4 + 0, i[p] - 8 + 0)
      BY <2>1, <2>2 DEF PrevsAndGramsOf, Running, done
    <3> QED
      BY <2>2, <3>1, <3>2 DEF ngrams
  <2>3. CASE ~build[p].feedback
    BY <2>1, <2>3 DEF PrevsAndGramsOf, Running, sequence_features
  <2> QED
    BY <2>2, <2>3
<1> QED
  BY <1>1, <1>2, InitType, NextType, GramsInvStep, PTL DEF Spec

-----------------------------------------------------------------------------
(* The plans of execute_safe_syscall.                                      *)

\* What a step of an operation may leave the process holding; openat of the
\* missing file cannot succeed.
Acquired(o, a, step) ==
  CASE step \in {"openTemp", "openVictim"} -> {"fd"}
    [] step = "openSock" -> {"sock"}
    [] step = "mmap"     -> {"region"}
    [] step = "call"     -> IF o = "openat" /\ odd(a.arg0) THEN {} ELSE CreatedByCall(o)
    [] OTHER -> {}

\* The steps that make the executor return -1 at once when they fail.
Abandoning == {"openTemp", "openSock", "mmap", "symlink"}

\* The steps that decide whether the operation has failed, and the ones that
\* may leave an errno of their own behind.
Deciding == {"call", "mmap"}
Preparing == {"ensure", "openTemp", "openSock", "openVictim", "unlinkLink", "symlink"}

\* What makes a plan safe to execute: a step decides, and only after every
\* step that may leave another errno; what a step acquires a later one
\* releases; nothing is acquired before a step that may abandon the plan; a
\* port is bound right before its socket is closed.
SafePlan(o, a, s) ==
  /\ \A k \in 1..Len(s) :
       /\ s[k] \in Preparing => \E j \in (k + 1)..Len(s) : s[j] \in Deciding
       /\ \A h \in Acquired(o, a, s[k]) : \E j \in (k + 1)..Len(s) : h \in ReleasedBy(s[j])
       /\ s[k] \in Abandoning => \A j \in 1..(k - 1) : Acquired(o, a, s[j]) = {}
       /\ (o = "bind" /\ s[k] = "call") => (k + 1 = Len(s) /\ s[k + 1] = "closeSock")
  /\ \E k \in 1..Len(s) : s[k] \in Deciding

\* Every plan the executor may follow is safe (executor.c:116-446).
LEMMA PlansSafe == \A o, a : SafePlan(o, a, Plan(o, a))
<1> SUFFICES ASSUME NEW o, NEW a PROVE SafePlan(o, a, Plan(o, a))
  OBVIOUS
<1> USE DEF SafePlan, Abandoning, Deciding, Preparing, Acquired, ReleasedBy, CreatedByCall,
            DupOps, SockOps, TempFdOps
<1>1. CASE o = "openat"
  <2>1. CASE odd(a.arg0)
    BY <1>1, <2>1 DEF Plan
  <2>2. CASE ~odd(a.arg0)
    BY <1>1, <2>2 DEF Plan
  <2> QED
    BY <2>1, <2>2
<1>2. CASE o \in TempFdOps
  <2>1. Plan(o, a) = <<"ensure", "openTemp", "call", "closeFd">>
    BY <1>2 DEF Plan
  <2>2. CreatedByCall(o) = {} /\ o # "bind" /\ o # "openat"
    BY <1>2
  <2> HIDE DEF CreatedByCall, TempFdOps
  <2> QED
    BY <2>1, <2>2
<1>3. CASE o \in {"statx", "faccessat", "mkdirat"}
  <2>1. Plan(o, a) = <<"ensure", "call">>
    BY <1>3 DEF Plan
  <2>2. CreatedByCall(o) = {} /\ o # "bind" /\ o # "openat"
    BY <1>3
  <2> HIDE DEF CreatedByCall
  <2> QED
    BY <2>1, <2>2
<1>4. CASE o = "unlinkat"
  BY <1>4 DEF Plan
<1>5. CASE o = "readlinkat"
  BY <1>5 DEF Plan, readlinkat_plan
<1>6. CASE o \in {"mmap", "mprotect", "munmap"}
  <2>1. CASE o = "mmap"
    BY <2>1 DEF Plan
  <2>2. CASE o = "mprotect"
    BY <2>2 DEF Plan
  <2>3. CASE o = "munmap"
    BY <2>3 DEF Plan
  <2> QED
    BY <1>6, <2>1, <2>2, <2>3
<1>7. CASE o \in {"socket", "eventfd2"}
  <2>1. Plan(o, a) = <<"call", "closeRet">>
    BY <1>7 DEF Plan
  <2>2. CreatedByCall(o) = {"ret"} /\ o # "bind" /\ o # "openat"
    BY <1>7
  <2> HIDE DEF CreatedByCall
  <2> QED
    BY <2>1, <2>2
<1>8. CASE o \in SockOps
  <2>1. Plan(o, a) = <<"openSock", "call", "closeSock">>
    BY <1>8 DEF Plan
  <2>2. CreatedByCall(o) = {} /\ o # "openat"
    BY <1>8
  <2> HIDE DEF CreatedByCall, SockOps
  <2> QED
    BY <2>1, <2>2
<1>9. CASE o = "pipe2"
  BY <1>9 DEF Plan
<1>10. CASE o \in DupOps
  BY <1>10 DEF Plan, dup_plan
<1>11. CASE /\ o \notin TempFdOps \union SockOps \union DupOps
            /\ o \notin {"openat", "statx", "faccessat", "mkdirat", "unlinkat", "readlinkat",
                         "mmap", "mprotect", "munmap", "socket", "eventfd2", "pipe2"}
  <2>1. Plan(o, a) = <<"call">>
    BY <1>11, Zenon DEF Plan
  <2> QED
    BY <1>11, <2>1
<1> QED
  BY <1>1, <1>2, <1>3, <1>4, <1>5, <1>6, <1>7, <1>8, <1>9, <1>10, <1>11

-----------------------------------------------------------------------------
(* The inductive invariant of the executor.                                *)

plan(p) == Plan(op(p), args(p))

\* errno is one that the tested call, or the step that abandoned it, sets.
ErrnoIsTheCalls(p) ==
  ret[p] = -1 =>
    /\ errno[p] \notin {"0", "EIO", "EEXIST"}
    /\ errno[p] = "EBADF" => bad_fd(p)
    /\ errno[p] = "EADDRINUSE" => op(p) = "bind"

\* Process p has executed the first k - 1 steps of its plan, or abandoned it:
\* what it holds it acquired in a step before k and releases in one of the
\* steps left, it holds a port only between bind and the close of the socket,
\* and once no deciding step is left errno is settled.
Standing(p, k) ==
  /\ steps[p] = SubSeq(plan(p), k, Len(plan(p)))
  /\ \A h \in held[p] :
       /\ \E j \in 1..(k - 1) : h \in Acquired(op(p), args(p), plan(p)[j])
       /\ \E j \in k..Len(plan(p)) : h \in ReleasedBy(plan(p)[j])
  /\ (\E b \in ports : b.owner = p) =>
       op(p) = "bind" /\ k = Len(plan(p)) /\ plan(p)[k] = "closeSock"
  /\ (\A j \in k..Len(plan(p)) : plan(p)[j] \notin Deciding) => ErrnoIsTheCalls(p)

HoldsNothing(p) == held[p] = {} /\ \A b \in ports : b.owner # p

ExecInvOf(p) ==
  IF pc[p] = "exec" THEN \E k \in 1..(Len(plan(p)) + 1) : Standing(p, k)
                    ELSE HoldsNothing(p)

ExecInv == \A p \in Procs : ExecInvOf(p)

\* A lone campaign: the victim and the link exist from their creation to the
\* tested call.
Prepared ==
  \A p \in Procs : (pc[p] = "exec" /\ steps[p] # <<>>) =>
    /\ (op(p) = "unlinkat" /\ Head(steps[p]) \in {"closeFd", "call"}) =>
         ("victim" \in files \/ errno[p] \in {"ENOENT", "EMFILE"})
    /\ (op(p) = "readlinkat" /\ Head(steps[p]) = "call") => "link" \in files

-----------------------------------------------------------------------------
(* One step of an operation.                                               *)

\* The steps left are a suffix of the plan; executing the first leaves the
\* next suffix.
LEMMA Suffix ==
  ASSUME NEW s \in Seq(Steps), NEW k \in 1..(Len(s) + 1)
  PROVE  /\ SubSeq(s, k, Len(s)) = <<>> <=> k = Len(s) + 1
         /\ k \in 1..Len(s) => /\ Head(SubSeq(s, k, Len(s))) = s[k]
                               /\ Tail(SubSeq(s, k, Len(s))) = SubSeq(s, k + 1, Len(s))
<1>1. CASE k = Len(s) + 1
  BY <1>1, SubSeqEmpty
<1>2. CASE k \in 1..Len(s)
  <2>1. /\ Head(SubSeq(s, k, Len(s))) = s[k]
        /\ Tail(SubSeq(s, k, Len(s))) = SubSeq(s, k + 1, Len(s))
    BY <1>2, HeadTailOfSubSeq
  <2>2. \A j \in k..Len(s) : s[j] \in Steps
    BY <1>2
  <2>3. Len(SubSeq(s, k, Len(s))) = Len(s) - k + 1
    BY <1>2, <2>2, SubSeqProperties
  <2> DEFINE t == SubSeq(s, k, Len(s))
  <2>4. t # <<>>
    <3>1. Len(t) # 0
      BY <1>2, <2>3
    <3> HIDE DEF t
    <3> QED
      BY <3>1
  <2>5. k # Len(s) + 1
    BY <1>2
  <2> QED
    BY <2>1, <2>4, <2>5
<1> QED
  BY <1>1, <1>2

\* The executor never changes the operation it executes.
LEMMA SameOperation ==
  ASSUME NEW p \in Procs, buf'[p] = buf[p], i'[p] = i[p]
  PROVE  /\ op(p)' = op(p) /\ args(p)' = args(p) /\ plan(p)' = plan(p)
         /\ bad_fd(p)' = bad_fd(p)
  BY DEF op, args, plan, bad_fd

\* A process that is not inside an operation can begin one.
LEMMA EnterStanding ==
  ASSUME TypeInv, NEW p \in Procs, HoldsNothing(p), enter_executor(p),
         UNCHANGED <<buf, i, ports>>
  PROVE  ExecInvOf(p)'
<1>1. plan(p) \in Seq(Steps) /\ SafePlan(op(p), args(p), plan(p))
  BY PlanType, PlansSafe DEF plan
<1>2. plan(p)' = plan(p) /\ op(p)' = op(p) /\ args(p)' = args(p)
  BY SameOperation
<1>3. /\ pc'[p] = "exec" /\ steps'[p] = plan(p)
      /\ held'[p] = {} /\ \A b \in ports' : b.owner # p
  BY DEF enter_executor, TypeInv, TypeOK, HoldsNothing, plan
<1>4. steps'[p] = SubSeq(plan(p), 1, Len(plan(p)))
  BY <1>1, <1>3, SubSeqFull
<1>5. \E j \in 1..Len(plan(p)) : plan(p)[j] \in Deciding
  BY <1>1 DEF SafePlan
<1>6. Standing(p, 1)'
  BY <1>2, <1>3, <1>4, <1>5 DEF Standing
<1> QED
  BY <1>1, <1>2, <1>3, <1>6 DEF ExecInvOf

\* A step that goes on with the plan: it adds to what is held only what it
\* acquires, takes away what it releases, and decides about errno or leaves
\* the decision as it is.
LEMMA StepStanding ==
  ASSUME TypeInv, NEW p \in Procs, NEW k \in 1..Len(plan(p)), NEW step,
         pc[p] = "exec", Standing(p, k), step = plan(p)[k],
         UNCHANGED outsideExecutor, advance(p),
         \A h \in held'[p] :
           /\ h \in held[p] \union Acquired(op(p), args(p), step)
           /\ h \notin ReleasedBy(step),
         \A b \in ports' : b.owner = p =>
           \/ b \in ports /\ step # "closeSock"
           \/ op(p) = "bind" /\ step = "call",
         \/ step \in Preparing
         \/ step \notin Deciding /\ (ErrnoIsTheCalls(p) => ErrnoIsTheCalls(p)')
         \/ ErrnoIsTheCalls(p)'
  PROVE  ExecInvOf(p)'
<1>1. plan(p) \in Seq(Steps) /\ SafePlan(op(p), args(p), plan(p))
  BY PlanType, PlansSafe DEF plan
<1>2. /\ pc' = pc /\ plan(p)' = plan(p) /\ op(p)' = op(p) /\ args(p)' = args(p)
  BY SameOperation DEF outsideExecutor, procVars, loopVars
<1> DEFINE s == plan(p)
<1>3. steps'[p] = SubSeq(s, k + 1, Len(s))
  <2>1. steps'[p] = Tail(steps[p])
    BY DEF advance, TypeInv, TypeOK
  <2>2. Tail(SubSeq(s, k, Len(s))) = SubSeq(s, k + 1, Len(s))
    BY <1>1, Suffix
  <2> QED
    BY <2>1, <2>2 DEF Standing
<1>4. ASSUME NEW h \in held'[p]
      PROVE  /\ \E j \in 1..k : h \in Acquired(op(p), args(p), s[j])
             /\ \E j \in (k + 1)..Len(s) : h \in ReleasedBy(s[j])
  <2>1. CASE h \in held[p]
    <3>1. /\ \E j \in 1..(k - 1) : h \in Acquired(op(p), args(p), s[j])
          /\ \E j \in k..Len(s) : h \in ReleasedBy(s[j])
      BY <2>1 DEF Standing
    <3>2. h \notin ReleasedBy(s[k])
      BY <1>4
    <3> HIDE DEF s
    <3> QED
      BY <3>1, <3>2
  <2>2. CASE h \in Acquired(op(p), args(p), step)
    BY <1>1, <2>2 DEF SafePlan
  <2> QED
    BY <1>4, <2>1, <2>2
<1>5. (\E b \in ports' : b.owner = p) =>
        op(p) = "bind" /\ k + 1 = Len(s) /\ s[k + 1] = "closeSock"
  <2> SUFFICES ASSUME NEW b \in ports', b.owner = p
               PROVE  op(p) = "bind" /\ k + 1 = Len(s) /\ s[k + 1] = "closeSock"
    OBVIOUS
  <2>1. ~(b \in ports /\ step # "closeSock")
    BY DEF Standing
  <2> QED
    BY <1>1, <2>1 DEF SafePlan
<1>6. (\A j \in (k + 1)..Len(s) : s[j] \notin Deciding) => ErrnoIsTheCalls(p)'
  <2> SUFFICES ASSUME \A j \in (k + 1)..Len(s) : s[j] \notin Deciding
               PROVE  ErrnoIsTheCalls(p)'
    OBVIOUS
  <2>1. step \notin Preparing
    BY <1>1 DEF SafePlan
  <2>2. CASE step \notin Deciding /\ (ErrnoIsTheCalls(p) => ErrnoIsTheCalls(p)')
    <3>1. \A j \in k..Len(s) : s[j] \notin Deciding
      BY <2>2
    <3>2. ErrnoIsTheCalls(p)
      BY <3>1 DEF Standing
    <3> QED
      BY <2>2, <3>2
  <2> QED
    BY <2>1, <2>2
<1>7. Standing(p, k + 1)'
  <2> HIDE DEF s
  <2>1. /\ plan(p)' = s /\ op(p)' = op(p) /\ args(p)' = args(p)
        /\ k + 1 - 1 = k
    BY <1>2 DEF s
  <2> QED
    BY <1>3, <1>4, <1>5, <1>6, <2>1 DEF Standing
<1> QED
  BY <1>1, <1>2, <1>7 DEF ExecInvOf

\* A step that abandons the plan finds nothing acquired yet.
LEMMA AbandonStanding ==
  ASSUME TypeInv, NEW p \in Procs, NEW k \in 1..Len(plan(p)), NEW e,
         pc[p] = "exec", Standing(p, k), plan(p)[k] \in Abandoning,
         UNCHANGED outsideExecutor, return_error(p, e), UNCHANGED <<held, ports>>,
         e \in {"ENOENT", "EMFILE", "EOTHER"}
  PROVE  ExecInvOf(p)'
<1>1. plan(p) \in Seq(Steps) /\ SafePlan(op(p), args(p), plan(p))
  BY PlanType, PlansSafe DEF plan
<1>2. /\ pc' = pc /\ plan(p)' = plan(p) /\ op(p)' = op(p) /\ args(p)' = args(p)
  BY SameOperation DEF outsideExecutor, procVars, loopVars
<1> DEFINE s == plan(p)
<1>3. steps'[p] = SubSeq(s, Len(s) + 1, Len(s))
  BY <1>1, Suffix DEF return_error, TypeInv, TypeOK
<1>4. held'[p] = {}
  <2>1. \A j \in 1..(k - 1) : Acquired(op(p), args(p), s[j]) = {}
    BY <1>1 DEF SafePlan
  <2> QED
    BY <2>1 DEF Standing
<1>5. \A b \in ports' : b.owner # p
  BY DEF Standing, Abandoning
<1>6. ErrnoIsTheCalls(p)'
  BY DEF ErrnoIsTheCalls, return_error, set_errno, TypeInv, TypeOK
<1>7. Standing(p, Len(s) + 1)'
  BY <1>2, <1>3, <1>4, <1>5, <1>6 DEF Standing
<1> QED
  BY <1>1, <1>2, <1>7 DEF ExecInvOf

-----------------------------------------------------------------------------
(* The steps of the executor and of run_input keep the invariant.          *)

LEMMA AtStep ==
  ASSUME TypeInv, NEW p \in Procs, NEW step, at(p, step), ExecInvOf(p)
  PROVE  /\ pc[p] = "exec" /\ steps[p] # <<>>
         /\ \E k \in 1..Len(plan(p)) : Standing(p, k) /\ plan(p)[k] = step
<1>1. plan(p) \in Seq(Steps)
  BY PlanType DEF plan
<1>2. PICK k \in 1..(Len(plan(p)) + 1) : Standing(p, k)
  BY DEF at, ExecInvOf
<1>3. steps[p] = SubSeq(plan(p), k, Len(plan(p)))
  BY <1>2 DEF Standing
<1>4. k \in 1..Len(plan(p)) /\ plan(p)[k] = step
  BY <1>1, <1>3, Suffix DEF at
<1> QED
  BY <1>2, <1>4 DEF at

\* The errno and the result stay: so does what they say.
LEMMA SameErrno ==
  ASSUME NEW p \in Procs, UNCHANGED outsideExecutor, ret'[p] = ret[p], errno'[p] = errno[p]
  PROVE  ErrnoIsTheCalls(p) => ErrnoIsTheCalls(p)'
<1>1. op(p)' = op(p) /\ bad_fd(p)' = bad_fd(p)
  BY SameOperation DEF outsideExecutor, loopVars
<1> QED
  BY <1>1 DEF ErrnoIsTheCalls

LEMMA HelperStanding ==
  ASSUME TypeInv, NEW p \in Procs, Helper(p), ExecInvOf(p)
  PROVE  /\ ExecInvOf(p)'
         /\ \A b \in ports' : b \in ports
<1> USE DEF TypeInv, TypeOK
<1>1. ASSUME EnsureTempDir(p) PROVE ExecInvOf(p)'
  <2>1. PICK k \in 1..Len(plan(p)) : Standing(p, k) /\ plan(p)[k] = "ensure"
    BY <1>1, AtStep DEF EnsureTempDir
  <2> QED
    BY <1>1, <2>1, StepStanding DEF EnsureTempDir, at, Preparing, ReleasedBy
<1>2. ASSUME OpenTemp(p) PROVE ExecInvOf(p)'
  <2>1. PICK k \in 1..Len(plan(p)) : Standing(p, k) /\ plan(p)[k] = "openTemp"
    BY <1>2, AtStep DEF OpenTemp
  <2>2. CASE hold(p, {"fd"}) /\ advance(p)
    BY <1>2, <2>1, <2>2, StepStanding DEF OpenTemp, at, hold, Acquired, Preparing, ReleasedBy
  <2>3. CASE (return_error(p, "ENOENT") \/ return_error(p, "EMFILE")) /\ UNCHANGED held
    BY <1>2, <2>1, <2>3, AbandonStanding DEF OpenTemp, at, Abandoning
  <2> QED
    BY <1>2, <2>2, <2>3 DEF OpenTemp
<1>3. ASSUME OpenSock(p) PROVE ExecInvOf(p)'
  <2>1. PICK k \in 1..Len(plan(p)) : Standing(p, k) /\ plan(p)[k] = "openSock"
    BY <1>3, AtStep DEF OpenSock
  <2>2. CASE hold(p, {"sock"}) /\ advance(p)
    BY <1>3, <2>1, <2>2, StepStanding
       DEF OpenSock, at, hold, sharedVars, Acquired, Preparing, ReleasedBy
  <2>3. CASE return_error(p, "EMFILE") /\ UNCHANGED held
    BY <1>3, <2>1, <2>3, AbandonStanding DEF OpenSock, at, sharedVars, Abandoning
  <2> QED
    BY <1>3, <2>2, <2>3 DEF OpenSock
<1>4. ASSUME Mmap(p) PROVE ExecInvOf(p)'
  <2>1. PICK k \in 1..Len(plan(p)) : Standing(p, k) /\ plan(p)[k] = "mmap"
    BY <1>4, AtStep DEF Mmap
  <2>2. CASE hold(p, {"region"}) /\ advance(p) /\ ret' = [ret EXCEPT ![p] = 0]
    <3>1. ErrnoIsTheCalls(p)'
      BY <2>2 DEF ErrnoIsTheCalls
    <3> QED
      BY <1>4, <2>1, <2>2, <3>1, StepStanding DEF Mmap, at, hold, sharedVars, Acquired, ReleasedBy
  <2>3. CASE return_error(p, "EOTHER") /\ UNCHANGED held
    BY <1>4, <2>1, <2>3, AbandonStanding DEF Mmap, at, sharedVars, Abandoning
  <2> QED
    BY <1>4, <2>2, <2>3 DEF Mmap
<1>5. ASSUME OpenVictim(p) PROVE ExecInvOf(p)'
  <2>1. PICK k \in 1..Len(plan(p)) : Standing(p, k) /\ plan(p)[k] = "openVictim"
    BY <1>5, AtStep DEF OpenVictim
  <2>2. \A h \in held'[p] : h \in held[p] \union {"fd"}
    BY <1>5 DEF OpenVictim, hold
  <2>3. Acquired(op(p), args(p), "openVictim") = {"fd"} /\ ReleasedBy("openVictim") = {}
    BY DEF Acquired, ReleasedBy
  <2>4. pc[p] = "exec" /\ UNCHANGED outsideExecutor /\ advance(p) /\ UNCHANGED ports
    BY <1>5 DEF OpenVictim, at
  <2>5. "openVictim" \in Preparing
    BY DEF Preparing
  <2> QED
    BY <2>1, <2>2, <2>3, <2>4, <2>5, StepStanding
<1>6. ASSUME UnlinkLink(p) PROVE ExecInvOf(p)'
  <2>1. PICK k \in 1..Len(plan(p)) : Standing(p, k) /\ plan(p)[k] = "unlinkLink"
    BY <1>6, AtStep DEF UnlinkLink
  <2> QED
    BY <1>6, <2>1, StepStanding DEF UnlinkLink, at, Preparing, ReleasedBy
<1>7. ASSUME Symlink(p) PROVE ExecInvOf(p)'
  <2>1. PICK k \in 1..Len(plan(p)) : Standing(p, k) /\ plan(p)[k] = "symlink"
    BY <1>7, AtStep DEF Symlink
  <2>2. CASE advance(p)
    BY <1>7, <2>1, <2>2, StepStanding DEF Symlink, at, Preparing, ReleasedBy
  <2>3. CASE return_error(p, "EOTHER") \/ return_error(p, "ENOENT")
    BY <1>7, <2>1, <2>3, AbandonStanding DEF Symlink, at, Abandoning
  <2> QED
    BY <1>7, <2>2, <2>3 DEF Symlink
<1>8. ASSUME CloseStep(p) PROVE ExecInvOf(p)'
  <2>1. PICK step \in {"closeFd", "closeSock", "closeRet", "closePipe0", "closePipe1"} :
          /\ at(p, step)
          /\ held' = [held EXCEPT ![p] = @ \ ReleasedBy(step)]
          /\ ports' = IF step = "closeSock" THEN { b \in ports : b.owner # p } ELSE ports
    BY <1>8 DEF CloseStep
  <2>2. PICK k \in 1..Len(plan(p)) : Standing(p, k) /\ plan(p)[k] = step
    BY <2>1, AtStep
  <2>3. ErrnoIsTheCalls(p) => ErrnoIsTheCalls(p)'
    BY <1>8, SameErrno DEF CloseStep, close_preserve_errno, set_errno
  <2>4. \A h \in held'[p] : h \in held[p] /\ h \notin ReleasedBy(step)
    BY <2>1
  <2>5. \A b \in ports' : b.owner = p => b \in ports /\ step # "closeSock"
    BY <2>1
  <2>6. step \notin Deciding
    BY DEF Deciding
  <2> QED
    BY <1>8, <2>1, <2>2, <2>3, <2>4, <2>5, <2>6, StepStanding DEF CloseStep, at
<1>9. ASSUME MunmapStep(p) PROVE ExecInvOf(p)'
  <2>1. CASE at(p, "munmap")
    <3>1. PICK k \in 1..Len(plan(p)) : Standing(p, k) /\ plan(p)[k] = "munmap"
      BY <2>1, AtStep
    <3>2. ErrnoIsTheCalls(p) => ErrnoIsTheCalls(p)'
      BY <1>9, <2>1, SameErrno DEF MunmapStep, at
    <3> QED
      BY <1>9, <2>1, <3>1, <3>2, StepStanding
         DEF MunmapStep, at, sharedVars, Acquired, Deciding, ReleasedBy
  <2>2. CASE at(p, "callMunmap")
    <3>1. PICK k \in 1..Len(plan(p)) : Standing(p, k) /\ plan(p)[k] = "callMunmap"
      BY <2>2, AtStep
    <3>2. ErrnoIsTheCalls(p)'
      BY <1>9, <2>2 DEF MunmapStep, ErrnoIsTheCalls
    <3> QED
      BY <1>9, <2>2, <3>1, <3>2, StepStanding
         DEF MunmapStep, at, sharedVars, Acquired, Deciding, ReleasedBy
  <2> QED
    BY <1>9, <2>1, <2>2 DEF MunmapStep
<1>10. \A b \in ports' : b \in ports
  BY DEF Helper, EnsureTempDir, OpenTemp, OpenSock, Mmap, OpenVictim, UnlinkLink, Symlink,
         CloseStep, MunmapStep, sharedVars
<1> QED
  BY <1>1, <1>2, <1>3, <1>4, <1>5, <1>6, <1>7, <1>8, <1>9, <1>10 DEF Helper

LEMMA CallStanding ==
  ASSUME TypeInv, NEW p \in Procs, Call(p), ExecInvOf(p)
  PROVE  /\ ExecInvOf(p)'
         /\ \A b \in ports' : b \in ports \/ b.owner = p
<1>1. calling(p)
  BY DEF Call, CallBadFd, CallFails, CallBind, CallLookup, CallOpenat, CallMkdirat,
         CallUnlinkat, CallSucceeds
<1>2. PICK k \in 1..Len(plan(p)) : Standing(p, k) /\ plan(p)[k] = "call"
  BY <1>1, AtStep DEF calling
<1>3. op(p)' = op(p) /\ bad_fd(p)' = bad_fd(p)
  BY <1>1, SameOperation DEF calling, outsideExecutor, loopVars
<1>4. ErrnoIsTheCalls(p)'
  <2> USE <1>3 DEF returns, set_errno, ErrnoIsTheCalls, TypeInv, TypeOK
  <2>1. ASSUME CallBadFd(p) \/ CallFails(p) PROVE ErrnoIsTheCalls(p)'
    BY <2>1 DEF CallBadFd, CallFails
  <2>2. ASSUME CallBind(p) PROVE ErrnoIsTheCalls(p)'
    <3>1. op(p) = "bind" /\ (returns(p, -1, "EADDRINUSE") \/ returns(p, 0, "0"))
      BY <2>2 DEF CallBind
    <3> QED
      BY <3>1
  <2>3. ASSUME CallLookup(p) \/ CallOpenat(p) \/ CallUnlinkat(p) PROVE ErrnoIsTheCalls(p)'
    <3>1. returns(p, -1, "ENOENT") \/ returns(p, 0, "ENOENT") \/ returns(p, 0, "0")
      BY <2>3 DEF CallLookup, CallOpenat, CallUnlinkat
    <3> QED
      BY <3>1
  <2>4. ASSUME CallMkdirat(p) PROVE ErrnoIsTheCalls(p)'
    BY <2>4 DEF CallMkdirat, mkdirat_result
  <2>5. ASSUME CallSucceeds(p) PROVE ErrnoIsTheCalls(p)'
    BY <2>5 DEF CallSucceeds
  <2> QED
    BY <2>1, <2>2, <2>3, <2>4, <2>5 DEF Call
<1>5. \A h \in held'[p] : h \in held[p] \union Acquired(op(p), args(p), "call")
  BY DEF Call, CallBadFd, CallFails, CallBind, CallLookup, CallOpenat, CallMkdirat,
         CallUnlinkat, CallSucceeds, hold, Acquired, CreatedByCall, TypeInv, TypeOK
<1>6. \A b \in ports' : b \in ports \/ (b.owner = p /\ op(p) = "bind")
  BY DEF Call, CallBadFd, CallFails, CallBind, CallLookup, CallOpenat, CallMkdirat,
         CallUnlinkat, CallSucceeds, sharedVars
<1>7. ReleasedBy("call") = {}
  BY DEF ReleasedBy
<1>8. ExecInvOf(p)'
  BY <1>1, <1>2, <1>4, <1>5, <1>6, <1>7, StepStanding DEF calling, at
<1> QED
  BY <1>6, <1>8

\* What an action of another process leaves alone.
LEMMA OtherStanding ==
  ASSUME NEW q \in Procs, ExecInvOf(q), pc'[q] = pc[q], buf'[q] = buf[q], i'[q] = i[q],
         steps'[q] = steps[q], held'[q] = held[q], ret'[q] = ret[q], errno'[q] = errno[q],
         \A b \in ports' : b.owner = q => b \in ports
  PROVE  ExecInvOf(q)'
<1>1. /\ op(q)' = op(q) /\ args(q)' = args(q) /\ plan(q)' = plan(q)
      /\ bad_fd(q)' = bad_fd(q)
  BY SameOperation
<1>2. ErrnoIsTheCalls(q)' <=> ErrnoIsTheCalls(q)
  BY <1>1 DEF ErrnoIsTheCalls
<1>3. ASSUME NEW k \in 1..(Len(plan(q)) + 1), Standing(q, k) PROVE Standing(q, k)'
  BY <1>1, <1>2, <1>3 DEF Standing
<1> QED
  BY <1>1, <1>3 DEF ExecInvOf, HoldsNothing

\* The process that takes a step of run_input, starts, ends or is killed.
LEMMA RunStanding ==
  ASSUME TypeInv, NEW p \in Procs, ExecInvOf(p),
         Main(p) \/ MainUsage(p) \/ RunInput(p) \/ Alarm(p)
  PROVE  /\ ExecInvOf(p)'
         /\ \A b \in ports' : b \in ports
<1>1. ASSUME Main(p) \/ MainUsage(p) PROVE ExecInvOf(p)'
  BY <1>1 DEF Main, MainUsage, ExecInvOf, HoldsNothing, Ended, execVars, sharedVars,
              TypeInv, TypeOK
<1>2. ASSUME NextOp(p) PROVE ExecInvOf(p)'
  <2>1. HoldsNothing(p)
    BY <1>2 DEF NextOp, ExecInvOf
  <2>2. CASE build[p].feedback
    BY <1>2, <2>1, <2>2 DEF NextOp, ExecInvOf, HoldsNothing, execVars, sharedVars, TypeInv, TypeOK
  <2>3. CASE ~build[p].feedback
    BY <1>2, <2>1, <2>3, EnterStanding DEF NextOp, loopVars, sharedVars
  <2> QED
    BY <2>2, <2>3
<1>3. ASSUME FeedbackSyscall(p) \/ FeedbackSeq2(p) PROVE ExecInvOf(p)'
  BY <1>3 DEF FeedbackSyscall, FeedbackSeq2, ExecInvOf, HoldsNothing, execVars, sharedVars,
              TypeInv, TypeOK
<1>4. ASSUME FeedbackSeq3(p) PROVE ExecInvOf(p)'
  <2>1. HoldsNothing(p)
    BY <1>4 DEF FeedbackSeq3, ExecInvOf
  <2> QED
    BY <1>4, <2>1, EnterStanding DEF FeedbackSeq3, loopVars, sharedVars
<1>5. ASSUME AfterOp(p) PROVE ExecInvOf(p)'
  <2>1. plan(p) \in Seq(Steps)
    BY PlanType DEF plan
  <2>2. PICK k \in 1..(Len(plan(p)) + 1) : Standing(p, k)
    BY <1>5 DEF AfterOp, ExecInvOf
  <2>3. k = Len(plan(p)) + 1
    BY <1>5, <2>1, <2>2, Suffix DEF AfterOp, Standing
  <2>4. held[p] = {} /\ \A b \in ports : b.owner # p
    BY <2>1, <2>2, <2>3 DEF Standing
  <2> QED
    BY <1>5, <2>4 DEF AfterOp, ExecInvOf, HoldsNothing, execVars, sharedVars, TypeInv, TypeOK
<1>6. ASSUME EndOfInput(p) \/ Alarm(p) PROVE ExecInvOf(p)'
  BY <1>6 DEF EndOfInput, Alarm, reap, ExecInvOf, HoldsNothing, TypeInv, TypeOK
<1>7. \A b \in ports' : b \in ports
  BY DEF Main, MainUsage, RunInput, NextOp, FeedbackSyscall, FeedbackSeq2, FeedbackSeq3,
         AfterOp, EndOfInput, Alarm, reap, sharedVars
<1> QED
  BY <1>1, <1>2, <1>3, <1>4, <1>5, <1>6, <1>7 DEF RunInput

\* An action of p changes no other process.
LEMMA Separate ==
  ASSUME TypeInv, NEW p \in Procs, NEW q \in Procs, q # p,
         Main(p) \/ MainUsage(p) \/ RunInput(p) \/ Helper(p) \/ Call(p) \/ Alarm(p)
  PROVE  /\ pc'[q] = pc[q] /\ buf'[q] = buf[q] /\ i'[q] = i[q]
         /\ steps'[q] = steps[q] /\ held'[q] = held[q]
         /\ ret'[q] = ret[q] /\ errno'[q] = errno[q]
<1> DEFINE Same == /\ pc'[q] = pc[q] /\ buf'[q] = buf[q] /\ i'[q] = i[q]
                   /\ steps'[q] = steps[q] /\ held'[q] = held[q]
                   /\ ret'[q] = ret[q] /\ errno'[q] = errno[q]
<1> USE DEF TypeInv, TypeOK
<1>1. ASSUME Main(p) \/ MainUsage(p) \/ Alarm(p) PROVE Same
  BY <1>1 DEF Main, MainUsage, Alarm, reap, execVars, loopVars
<1>2. ASSUME RunInput(p) PROVE Same
  BY <1>2 DEF RunInput, NextOp, FeedbackSyscall, FeedbackSeq2, FeedbackSeq3, AfterOp,
              EndOfInput, enter_executor, reap, execVars, loopVars
<1>3. ASSUME Helper(p) PROVE Same
  <2> USE DEF advance, set_errno, hold, return_error, outsideExecutor, procVars, loopVars
  <2>1. ASSUME EnsureTempDir(p) \/ OpenTemp(p) PROVE Same
    BY <2>1 DEF EnsureTempDir, OpenTemp
  <2>2. ASSUME OpenSock(p) \/ Mmap(p) PROVE Same
    BY <2>2 DEF OpenSock, Mmap
  <2>3. ASSUME OpenVictim(p) \/ UnlinkLink(p) \/ Symlink(p) PROVE Same
    BY <2>3 DEF OpenVictim, UnlinkLink, Symlink
  <2>4. ASSUME CloseStep(p) \/ MunmapStep(p) PROVE Same
    BY <2>4 DEF CloseStep, MunmapStep, close_preserve_errno
  <2> QED
    BY <1>3, <2>1, <2>2, <2>3, <2>4 DEF Helper
<1>4. ASSUME Call(p) PROVE Same
  <2> USE DEF calling, returns, advance, set_errno, hold, outsideExecutor, procVars, loopVars
  <2>1. ASSUME CallBadFd(p) \/ CallFails(p) PROVE Same
    BY <2>1 DEF CallBadFd, CallFails
  <2>2. ASSUME CallBind(p) PROVE Same
    <3>1. returns(p, -1, "EADDRINUSE") \/ returns(p, 0, "0")
      BY <2>2 DEF CallBind
    <3>2. UNCHANGED held /\ calling(p)
      BY <2>2 DEF CallBind
    <3> QED
      BY <3>1, <3>2
  <2>3. ASSUME CallLookup(p) \/ CallOpenat(p) PROVE Same
    BY <2>3 DEF CallLookup, CallOpenat
  <2>4. ASSUME CallMkdirat(p) PROVE Same
    BY <2>4 DEF CallMkdirat, mkdirat_result
  <2>5. ASSUME CallUnlinkat(p) \/ CallSucceeds(p) PROVE Same
    BY <2>5 DEF CallUnlinkat, CallSucceeds
  <2> QED
    BY <1>4, <2>1, <2>2, <2>3, <2>4, <2>5 DEF Call
<1> QED
  BY <1>1, <1>2, <1>3, <1>4

LEMMA InitExec == Init => ExecInv
  BY DEF Init, ExecInv, ExecInvOf, HoldsNothing

LEMMA NextExec == TypeInv /\ ExecInv /\ [Next]_vars => ExecInv'
<1> SUFFICES ASSUME TypeInv, ExecInv, [Next]_vars, NEW q \in Procs PROVE ExecInvOf(q)'
  BY DEF ExecInv
<1>1. ExecInvOf(q)
  BY DEF ExecInv
<1>2. CASE UNCHANGED vars
  BY <1>1, <1>2, OtherStanding DEF vars, procVars, loopVars, execVars, sharedVars
<1>3. ASSUME NEW p \in Procs,
             Main(p) \/ MainUsage(p) \/ RunInput(p) \/ Helper(p) \/ Call(p) \/ Alarm(p)
      PROVE  ExecInvOf(q)'
  <2>1. ExecInvOf(p)
    BY DEF ExecInv
  <2>2. /\ ExecInvOf(p)'
        /\ \A b \in ports' : b \in ports \/ b.owner = p
    BY <1>3, <2>1, RunStanding, HelperStanding, CallStanding
  <2>3. CASE q = p
    BY <2>2, <2>3
  <2>4. CASE q # p
    BY <1>1, <1>3, <2>2, <2>4, Separate, OtherStanding
  <2> QED
    BY <2>3, <2>4
<1> QED
  BY <1>2, <1>3 DEF Next

LEMMA ExecInvariant == Spec => [](TypeInv /\ ExecInv)
  BY InitType, NextType, InitExec, NextExec, PTL DEF Spec

\* README.md:31 "closed or unmapped immediately": whatever fails in an
\* operation and wherever SIGALRM ends it, between two operations and after
\* the end of a process nothing of it is left open, mapped or bound.
THEOREM NothingLeaks == Spec => []NothingHeldBetweenOps
<1>1. ExecInv => NothingHeldBetweenOps
  BY DEF ExecInv, ExecInvOf, HoldsNothing, NothingHeldBetweenOps
<1> QED
  BY <1>1, ExecInvariant, PTL

\* executor.c:110-118: when an operation has failed, the errno run_input
\* reports is the one of the failure, whatever its preparation and its closes
\* went through before and after, and whatever other campaigns do meanwhile.
THEOREM ErrnoOfFailure == Spec => []ErrnoOfTheFailure
<1>1. TypeInv /\ ExecInv => ErrnoOfTheFailure
  <2> SUFFICES ASSUME TypeInv, ExecInv, NEW p \in Procs, pc[p] = "exec", steps[p] = <<>>
               PROVE  /\ err(p) # "0" <=> ret[p] = -1
                      /\ err(p) \notin {"EIO", "EEXIST"}
                      /\ err(p) = "EBADF" => bad_fd(p)
                      /\ err(p) = "EADDRINUSE" => op(p) = "bind"
    BY DEF ErrnoOfTheFailure
  <2>1. plan(p) \in Seq(Steps)
    BY PlanType DEF plan
  <2>2. PICK k \in 1..(Len(plan(p)) + 1) : Standing(p, k)
    BY DEF ExecInv, ExecInvOf
  <2>3. k = Len(plan(p)) + 1
    BY <2>1, <2>2, Suffix DEF Standing
  <2>4. ErrnoIsTheCalls(p)
    BY <2>1, <2>2, <2>3 DEF Standing
  <2>5. ret[p] \in {0, -1}
    BY DEF TypeInv, TypeOK
  <2> QED
    BY <2>4, <2>5 DEF ErrnoIsTheCalls, err
<1> QED
  BY <1>1, ExecInvariant, PTL

-----------------------------------------------------------------------------
(* The scratch directory.                                                  *)

CommonFilesKept == \A f \in {"dir", "scratch", "subdir"} : f \in files => f \in files'

\* executor.c:292 and 300: the link and the victim are the only names an
\* operation removes.
LEMMA OnlyOwnObjectsRemoved ==
  ASSUME NEW p \in Procs,
         Main(p) \/ MainUsage(p) \/ RunInput(p) \/ Helper(p) \/ Call(p) \/ Alarm(p)
  PROVE  CommonFilesKept
<1>1. ASSUME Main(p) \/ MainUsage(p) \/ RunInput(p) \/ Alarm(p) PROVE files' = files
  BY <1>1 DEF Main, MainUsage, Alarm, RunInput, NextOp, FeedbackSyscall, FeedbackSeq2,
              FeedbackSeq3, AfterOp, EndOfInput, sharedVars
<1>2. ASSUME Helper(p) PROVE CommonFilesKept
  BY <1>2 DEF Helper, EnsureTempDir, OpenTemp, OpenSock, Mmap, OpenVictim, UnlinkLink,
              unlink_target, Symlink, CloseStep, MunmapStep, sharedVars, CommonFilesKept
<1>3. ASSUME Call(p) PROVE CommonFilesKept
  BY <1>3 DEF Call, CallBadFd, CallFails, CallBind, CallLookup, CallOpenat, CallMkdirat,
              CallUnlinkat, CallSucceeds, sharedVars, CommonFilesKept
<1> QED
  BY <1>1, <1>2, <1>3 DEF CommonFilesKept

\* No step of any campaign takes the directory, the scratch file or the
\* subdirectory away, for any number of campaigns on the same directory.
THEOREM CommonFilesRemain == Spec => CommonFilesStay
<1>1. [Next]_vars => [CommonFilesKept]_vars
  BY OnlyOwnObjectsRemoved DEF Next
<1> QED
  BY <1>1, PTL DEF Spec, CommonFilesStay, CommonFilesKept

-----------------------------------------------------------------------------
(* A lone campaign.                                                        *)

LEMMA InitPrepared == Init => Prepared
  BY DEF Init, Prepared

\* In the plans that prepare an object, the object is created right before
\* it is closed or looked at.
LEMMA PreparingPlans ==
  \A a : /\ Plan("unlinkat", a) = <<"ensure", "openVictim", "closeFd", "call">>
         /\ Plan("readlinkat", a) = <<"ensure", "unlinkLink", "symlink", "call">>
<1> TAKE a
<1>1. \A o : o = "unlinkat" => Plan(o, a) = <<"ensure", "openVictim", "closeFd", "call">>
  BY DEF Plan, TempFdOps, SockOps, DupOps
<1>2. \A o : o = "readlinkat" => Plan(o, a) = readlinkat_plan
  BY DEF Plan, TempFdOps, SockOps, DupOps
<1> QED
  BY <1>1, <1>2 DEF readlinkat_plan

\* A step of the executor in a lone campaign: what it has prepared is there
\* when the tested call is made.
LEMMA PreparedHelper ==
  ASSUME TypeInv, NEW p \in Procs, Helper(p), ExecInvOf(p), Prepared, ExecInvOf(p)',
         TypeInv', \A q \in Procs : q = p
  PROVE  Prepared'
<1> SUFFICES ASSUME pc[p] = "exec", steps'[p] # <<>>
             PROVE  /\ (op(p) = "unlinkat" /\ Head(steps'[p]) \in {"closeFd", "call"}) =>
                         ("victim" \in files' \/ errno'[p] \in {"ENOENT", "EMFILE"})
                    /\ (op(p) = "readlinkat" /\ Head(steps'[p]) = "call") => "link" \in files'
  <2>1. pc'[p] = pc[p] /\ op(p)' = op(p)
    BY HelperType, SameOperation DEF outsideExecutor, procVars, loopVars
  <2> QED
    BY <2>1 DEF Prepared
<1>1. plan(p) \in Seq(Steps)
  BY PlanType DEF plan
<1>2. PICK k \in 1..Len(plan(p)) : /\ Standing(p, k)
                                   /\ at(p, plan(p)[k])
  <2>1. steps[p] # <<>>
    BY DEF Helper, EnsureTempDir, OpenTemp, OpenSock, Mmap, OpenVictim, UnlinkLink, Symlink,
           CloseStep, MunmapStep, at
  <2>2. at(p, Head(steps[p]))
    BY <2>1 DEF at
  <2> QED
    BY <2>2, AtStep
<1>3. ~ \E e : return_error(p, e)
  BY DEF return_error, TypeInv, TypeOK
<1>4. advance(p)
  BY <1>3 DEF Helper, EnsureTempDir, OpenTemp, OpenSock, Mmap, OpenVictim, UnlinkLink, Symlink,
              CloseStep, MunmapStep
<1>5. steps'[p] = SubSeq(plan(p), k + 1, Len(plan(p)))
  BY <1>1, <1>2, <1>4, Suffix DEF Standing, advance, TypeInv, TypeOK
<1>6. k + 1 \in 1..Len(plan(p)) /\ Head(steps'[p]) = plan(p)[k + 1]
  BY <1>1, <1>5, Suffix
<1>7. ASSUME op(p) = "unlinkat", Head(steps'[p]) \in {"closeFd", "call"}
      PROVE  "victim" \in files' \/ errno'[p] \in {"ENOENT", "EMFILE"}
  <2>1. plan(p) = <<"ensure", "openVictim", "closeFd", "call">>
    BY <1>7, PreparingPlans DEF plan
  <2>2. k \in {2, 3}
    BY <1>2, <1>6, <1>7, <2>1
  <2>3. CASE k = 2
    <3>1. at(p, "openVictim")
      BY <1>2, <2>1, <2>3
    <3>2. OpenVictim(p)
      BY <3>1 DEF Helper, EnsureTempDir, OpenTemp, OpenSock, Mmap, UnlinkLink, Symlink,
                  CloseStep, MunmapStep, at
    <3> QED
      BY <3>2 DEF OpenVictim, set_errno, TypeInv, TypeOK
  <2>4. CASE k = 3
    <3>1. at(p, "closeFd")
      BY <1>2, <2>1, <2>4
    <3>2. CloseStep(p)
      BY <3>1 DEF Helper, EnsureTempDir, OpenTemp, OpenSock, Mmap, OpenVictim, UnlinkLink,
                  Symlink, MunmapStep, at
    <3>3. files' = files /\ errno'[p] = errno[p]
      BY <3>2 DEF CloseStep, close_preserve_errno, set_errno, TypeInv, TypeOK
    <3> QED
      BY <1>7, <3>1, <3>3 DEF Prepared, at
  <2> QED
    BY <2>2, <2>3, <2>4
<1>8. ASSUME op(p) = "readlinkat", Head(steps'[p]) = "call"
      PROVE  "link" \in files'
  <2>1. plan(p) = <<"ensure", "unlinkLink", "symlink", "call">>
    BY <1>8, PreparingPlans DEF plan
  <2>2. at(p, "symlink")
    BY <1>2, <1>6, <1>8, <2>1
  <2>3. Symlink(p)
    BY <2>2 DEF Helper, EnsureTempDir, OpenTemp, OpenSock, Mmap, OpenVictim, UnlinkLink,
                CloseStep, MunmapStep, at
  <2> QED
    BY <1>3, <2>3 DEF Symlink
<1> QED
  BY <1>7, <1>8

LEMMA PreparedCall ==
  ASSUME TypeInv, NEW p \in Procs, Call(p), ExecInvOf(p), Prepared, \A q \in Procs : q = p
  PROVE  Prepared'
<1>1. calling(p)
  BY DEF Call, CallBadFd, CallFails, CallBind, CallLookup, CallOpenat, CallMkdirat,
         CallUnlinkat, CallSucceeds
<1>2. pc'[p] = pc[p] /\ op(p)' = op(p)
  BY <1>1, SameOperation DEF calling, outsideExecutor, procVars, loopVars
<1>3. plan(p) \in Seq(Steps)
  BY PlanType DEF plan
<1>4. PICK k \in 1..Len(plan(p)) : Standing(p, k) /\ plan(p)[k] = "call"
  BY <1>1, AtStep DEF calling
<1>5. steps'[p] = SubSeq(plan(p), k + 1, Len(plan(p)))
  BY <1>1, <1>3, <1>4, Suffix DEF Standing, calling, advance, TypeInv, TypeOK
<1>6. op(p) \in {"unlinkat", "readlinkat"} => steps'[p] = <<>>
  <2> SUFFICES ASSUME op(p) \in {"unlinkat", "readlinkat"} PROVE steps'[p] = <<>>
    OBVIOUS
  <2>1. k = 4 /\ Len(plan(p)) = 4
    BY <1>4, PreparingPlans DEF plan
  <2> QED
    BY <1>5, <2>1, SubSeqEmpty
<1> QED
  BY <1>2, <1>6 DEF Prepared

LEMMA PreparedRun ==
  ASSUME TypeInv, NEW p \in Procs, Prepared, \A q \in Procs : q = p,
         Main(p) \/ MainUsage(p) \/ RunInput(p) \/ Alarm(p)
  PROVE  Prepared'
<1> USE DEF TypeInv, TypeOK
<1>1. ASSUME pc'[p] # "exec" PROVE Prepared'
  BY <1>1 DEF Prepared
<1>2. ASSUME enter_executor(p), UNCHANGED <<buf, i, files>> PROVE Prepared'
  <2>1. op(p)' = op(p) /\ steps'[p] = Plan(op(p), args(p))
    BY <1>2, SameOperation DEF enter_executor
  <2>2. op(p) = "unlinkat" => Head(steps'[p]) = "ensure"
    BY <2>1, PreparingPlans
  <2>3. op(p) = "readlinkat" => Head(steps'[p]) = "ensure"
    BY <2>1, PreparingPlans
  <2> QED
    BY <2>1, <2>2, <2>3 DEF Prepared
<1>3. CASE Main(p) \/ MainUsage(p) \/ Alarm(p) \/ AfterOp(p) \/ EndOfInput(p)
             \/ FeedbackSyscall(p) \/ FeedbackSeq2(p)
  <2>1. pc'[p] # "exec"
    BY <1>3 DEF Main, MainUsage, Alarm, AfterOp, EndOfInput, FeedbackSyscall, FeedbackSeq2
  <2> QED
    BY <1>1, <2>1
<1>4. CASE NextOp(p)
  <2>1. CASE build[p].feedback
    <3>1. pc'[p] # "exec"
      BY <1>4, <2>1 DEF NextOp
    <3> QED
      BY <1>1, <3>1
  <2>2. CASE ~build[p].feedback
    BY <1>2, <1>4, <2>2 DEF NextOp, loopVars, sharedVars
  <2> QED
    BY <2>1, <2>2
<1>5. CASE FeedbackSeq3(p)
  BY <1>2, <1>5 DEF FeedbackSeq3, loopVars, sharedVars
<1> QED
  BY <1>3, <1>4, <1>5 DEF RunInput

\* executor.c:292-310, 341: a campaign that has the scratch directory and the
\* port space for itself finds the object each operation prepares when the
\* tested call is made, whatever the runs before it, killed at any step, have
\* left behind.
THEOREM LoneCampaignHeals ==
  ASSUME \A p, q \in Procs : p = q
  PROVE  Spec => []SelfHealing
<1>1. TypeInv /\ ExecInv /\ Prepared /\ [Next]_vars /\ TypeInv' /\ ExecInv' => Prepared'
  <2> SUFFICES ASSUME TypeInv, ExecInv, Prepared, [Next]_vars, TypeInv', ExecInv'
               PROVE  Prepared'
    OBVIOUS
  <2>1. CASE UNCHANGED vars
    BY <2>1 DEF Prepared, op, vars, procVars, loopVars, execVars, sharedVars
  <2>2. ASSUME NEW p \in Procs,
               Main(p) \/ MainUsage(p) \/ RunInput(p) \/ Helper(p) \/ Call(p) \/ Alarm(p)
        PROVE  Prepared'
    <3>1. /\ ExecInvOf(p) /\ ExecInvOf(p)'
          /\ \A q \in Procs : q = p
      BY DEF ExecInv
    <3> QED
      BY <2>2, <3>1, PreparedHelper, PreparedCall, PreparedRun
  <2> QED
    BY <2>1, <2>2 DEF Next
<1>2. TypeInv /\ ExecInv /\ Prepared => SelfHealing
  <2> SUFFICES ASSUME TypeInv, ExecInv, Prepared, NEW p \in Procs, at(p, "call")
               PROVE  /\ op(p) = "unlinkat" =>
                           ("victim" \in files \/ errno[p] \in {"ENOENT", "EMFILE"})
                      /\ op(p) = "readlinkat" => "link" \in files
                      /\ op(p) = "bind" => ports = {}
    BY DEF SelfHealing, ObjectsPrepared, PortsFree
  <2>1. PICK k \in 1..Len(plan(p)) : Standing(p, k) /\ plan(p)[k] = "call"
    BY AtStep DEF ExecInv
  <2>2. \A b \in ports : b.owner = p
    BY DEF TypeInv, TypeOK
  <2>3. ports = {}
    BY <2>1, <2>2 DEF Standing
  <2> QED
    BY <2>3 DEF Prepared, at
<1> QED
  BY <1>1, <1>2, InitPrepared, ExecInvariant, PTL DEF Spec

-----------------------------------------------------------------------------
(* The inductive invariant of the analysis.                                *)

errno_features(features) == { f \in features : f[1] = "ERRNO" }

\* The ERRNO features the trace lines of process p speak of.
traced_errnos(p) ==
  { ERRNO(op_at(buf[p], 4 * (k - 1)), trace[p][k].err) :
      k \in { l \in 1..Len(trace[p]) : trace[p][l].err # "0" } }

\* The n-grams of all operations of a buffer.
all_grams(b) ==
  LET n == Analysis!op_count(b) IN grams(b, 4 * n, 4 * n - 4, 4 * n - 8)

\* A run has gone through the operations before i, one trace line for each,
\* and has recorded an ERRNO feature for each line with an errno; it ends
\* where no whole operation is left.  A killed run has stopped somewhere
\* before, and has recorded no n-gram the file does not have.
AnalysisInvOf(p) ==
  /\ pc[p] \in Running \union {"exited", "killed"} =>
       /\ i[p] <= usable(buf[p])
       /\ pc[p] = "exited" => i[p] + OP_SIZE > usable(buf[p])
       /\ 4 * Len(trace[p]) = i[p]
       /\ \A k \in 1..Len(trace[p]) : trace[p][k].index = k - 1
       /\ build[p].feedback => errno_features(seen[p]) = traced_errnos(p)
  /\ (pc[p] = "killed" /\ build[p].feedback) =>
       sequence_features(seen[p]) \subseteq all_grams(buf[p])

AnalysisInv == \A p \in Procs : AnalysisInvOf(p)

-----------------------------------------------------------------------------
(* The script's decoder and the target's.                                  *)

\* analyze_queue.py:17-30 has its own copy of the operation table.
LEMMA TablesAgree ==
  /\ Len(Analysis!SYSCALLS) = OP_MAX
  /\ \A j \in 1..OP_MAX : Analysis!SYSCALLS[j] = OpTable[j]
  BY DEF Analysis!SYSCALLS, OpTable, OP_MAX

\* The number of operations the script finds, and the bytes they take.
LEMMA OpCount ==
  ASSUME NEW b \in Seq(Byte)
  PROVE  /\ usable(b) \in Nat /\ usable(b) <= Len(b)
         /\ Analysis!op_count(b) \in Nat
         /\ 4 * Analysis!op_count(b) <= usable(b)
         /\ usable(b) < 4 * Analysis!op_count(b) + 4
<1>1. MaxOps \in Nat
  BY OpsAssumption
<1>2. usable(b) \in Nat /\ usable(b) <= Len(b)
  BY <1>1 DEF usable, OP_SIZE
<1>3. Analysis!op_count(b) = usable(b) \div 4
  BY DEF Analysis!op_count, usable, OP_SIZE
<1> DEFINE u == usable(b)
<1>4. u \div 4 \in Nat /\ 4 * (u \div 4) <= u /\ u < 4 * (u \div 4) + 4
  <2>1. u \in Nat
    BY <1>2
  <2> HIDE DEF u
  <2> QED
    BY <2>1
<1> QED
  BY <1>2, <1>3, <1>4

\* The two decoders give the same operations.
LEMMA DecodersAgree ==
  ASSUME NEW b \in Seq(Byte)
  PROVE  /\ Len(Analysis!decode_bytes(b)) = Analysis!op_count(b)
         /\ \A k \in 1..Analysis!op_count(b) :
              Analysis!decode_bytes(b)[k] = op_at(b, 4 * (k - 1))
<1> DEFINE n == Analysis!op_count(b)
<1>1. n \in Nat
  BY OpCount
<1>2. Analysis!decode_bytes(b) =
        [ k \in 1..n |-> Analysis!SYSCALLS[(b[4 * k - 3] % Len(Analysis!SYSCALLS)) + 1] ]
  BY DEF Analysis!decode_bytes
<1>3. Len(Analysis!decode_bytes(b)) = n
  <2> HIDE DEF n
  <2> QED
    BY <1>1, <1>2
<1>4. ASSUME NEW k \in 1..n
      PROVE  Analysis!decode_bytes(b)[k] = op_at(b, 4 * (k - 1))
  <2>1. 4 * k - 3 \in 1..Len(b) /\ 4 * (k - 1) + 1 = 4 * k - 3
    <3>1. 4 * n <= Len(b)
      BY OpCount
    <3> HIDE DEF n
    <3> QED
      BY <1>1, <3>1
  <2>2. b[4 * k - 3] \in Byte
    BY <2>1
  <2>3. (b[4 * k - 3] % OP_MAX) + 1 \in 1..OP_MAX
    <3> DEFINE v == b[4 * k - 3]
    <3>1. v \in Byte
      BY <2>2
    <3> HIDE DEF v
    <3>2. (v % 46) + 1 \in 1..46
      BY <3>1 DEF Byte
    <3> QED
      BY <3>2 DEF v, OP_MAX
  <2>4. Analysis!decode_bytes(b)[k] = Analysis!SYSCALLS[(b[4 * k - 3] % OP_MAX) + 1]
    <3> HIDE DEF n
    <3> QED
      BY <1>2, TablesAgree
  <2>5. op_at(b, 4 * (k - 1)) = OpTable[(b[4 * k - 3] % OP_MAX) + 1]
    BY <2>1 DEF op_at, decode_op, select_syscall
  <2> QED
    BY <2>3, <2>4, <2>5, TablesAgree
<1> QED
  BY <1>3, <1>4

\* The offsets of the first m operations.
LEMMA OffsetsAre == \A m \in Int : offsets(4 * m) = { 4 * (k - 1) : k \in 1..m }
<1> SUFFICES ASSUME NEW m \in Int PROVE offsets(4 * m) = { 4 * (k - 1) : k \in 1..m }
  OBVIOUS
<1>1. ASSUME NEW j \in offsets(4 * m) PROVE \E k \in 1..m : j = 4 * (k - 1)
  <2>1. j \in Int /\ 0 <= j /\ j <= 4 * m - 4 /\ j % 4 = 0
    BY DEF offsets, OP_SIZE
  <2>2. j = 4 * (j \div 4) /\ j \div 4 \in Int
    BY <2>1
  <2>3. (j \div 4) + 1 \in 1..m /\ j = 4 * (((j \div 4) + 1) - 1)
    BY <2>1, <2>2
  <2> QED
    BY <2>3
<1>2. ASSUME NEW k \in 1..m PROVE 4 * (k - 1) \in offsets(4 * m)
  <2>1. (4 * (k - 1)) % 4 = 0
    OBVIOUS
  <2> QED
    BY <2>1 DEF offsets, OP_SIZE
<1> QED
  BY <1>1, <1>2

\* The script's three Counters hold the n-grams of all operations of the file.
LEMMA StaticIsGrams ==
  ASSUME NEW b \in Seq(Byte)
  PROVE  LET ops == Analysis!decode_bytes(b)
         IN Analysis!syscalls(ops) \union Analysis!seq2(ops) \union Analysis!seq3(ops)
              = all_grams(b)
<1> DEFINE ops == Analysis!decode_bytes(b)
           n == Analysis!op_count(b)
<1>1. n \in Nat /\ Len(ops) = n
  BY OpCount, DecodersAgree
<1>2. \A k \in 1..n : ops[k] = op_at(b, 4 * (k - 1))
  BY DecodersAgree
<1>o. /\ offsets(4 * n) = { 4 * (k - 1) : k \in 1..n }
      /\ offsets(4 * n - 4) = { 4 * (k - 1) : k \in 1..(n - 1) }
      /\ offsets(4 * n - 8) = { 4 * (k - 1) : k \in 1..(n - 2) }
  <2> HIDE DEF n
  <2>1. 4 * n - 4 = 4 * (n - 1) /\ 4 * n - 8 = 4 * (n - 2)
    BY <1>1
  <2>2. \A m \in {n, n - 1, n - 2} : offsets(4 * m) = { 4 * (k - 1) : k \in 1..m }
    BY <1>1, OffsetsAre
  <2>3. /\ offsets(4 * n) = { 4 * (k - 1) : k \in 1..n }
        /\ offsets(4 * (n - 1)) = { 4 * (k - 1) : k \in 1..(n - 1) }
        /\ offsets(4 * (n - 2)) = { 4 * (k - 1) : k \in 1..(n - 2) }
    BY <2>2
  <2> QED
    BY <2>1, <2>3
<1> HIDE DEF ops, n
<1>3. Analysis!syscalls(ops) = { SYSCALL(op_at(b, j)) : j \in offsets(4 * n) }
  <2>1. Analysis!syscalls(ops) = { SYSCALL(op_at(b, 4 * (k - 1))) : k \in 1..n }
    BY <1>1, <1>2 DEF Analysis!syscalls, SYSCALL
  <2> QED
    BY <1>o, <2>1
<1>4. Analysis!seq2(ops) = { SEQ2(op_at(b, j), op_at(b, j + 4)) : j \in offsets(4 * n - 4) }
  <2>1. \A k \in 1..(n - 1) : /\ ops[k] = op_at(b, 4 * (k - 1))
                              /\ ops[k + 1] = op_at(b, 4 * (k - 1) + 4)
    <3> SUFFICES ASSUME NEW k \in 1..(n - 1)
                 PROVE  /\ ops[k] = op_at(b, 4 * (k - 1))
                        /\ ops[k + 1] = op_at(b, 4 * (k - 1) + 4)
      OBVIOUS
    <3>1. k \in 1..n /\ k + 1 \in 1..n /\ 4 * ((k + 1) - 1) = 4 * (k - 1) + 4
      BY <1>1
    <3> QED
      BY <1>2, <3>1
  <2>2. Analysis!seq2(ops) =
          { SEQ2(op_at(b, 4 * (k - 1)), op_at(b, 4 * (k - 1) + 4)) : k \in 1..(n - 1) }
    BY <1>1, <2>1 DEF Analysis!seq2, SEQ2
  <2> QED
    BY <1>o, <2>2
<1>5. Analysis!seq3(ops) =
        { SEQ3(op_at(b, j), op_at(b, j + 4), op_at(b, j + 8)) : j \in offsets(4 * n - 8) }
  <2>1. \A k \in 1..(n - 2) : /\ ops[k] = op_at(b, 4 * (k - 1))
                              /\ ops[k + 1] = op_at(b, 4 * (k - 1) + 4)
                              /\ ops[k + 2] = op_at(b, 4 * (k - 1) + 8)
    <3> SUFFICES ASSUME NEW k \in 1..(n - 2)
                 PROVE  /\ ops[k] = op_at(b, 4 * (k - 1))
                        /\ ops[k + 1] = op_at(b, 4 * (k - 1) + 4)
                        /\ ops[k + 2] = op_at(b, 4 * (k - 1) + 8)
      OBVIOUS
    <3>1. /\ k \in 1..n /\ k + 1 \in 1..n /\ 4 * ((k + 1) - 1) = 4 * (k - 1) + 4
          /\ k + 2 \in 1..n /\ 4 * ((k + 2) - 1) = 4 * (k - 1) + 8
      BY <1>1
    <3> QED
      BY <1>2, <3>1
  <2>2. Analysis!seq3(ops) =
          { SEQ3(op_at(b, 4 * (k - 1)), op_at(b, 4 * (k - 1) + 4), op_at(b, 4 * (k - 1) + 8)) :
              k \in 1..(n - 2) }
    BY <1>1, <2>1 DEF Analysis!seq3, SEQ3
  <2> QED
    BY <1>o, <2>2
<1>6. all_grams(b) = grams(b, 4 * n, 4 * n - 4, 4 * n - 8)
  BY DEF all_grams, n
<1>7. Analysis!syscalls(ops) \union Analysis!seq2(ops) \union Analysis!seq3(ops) = all_grams(b)
  BY <1>3, <1>4, <1>5, <1>6 DEF grams
<1> QED
  BY <1>7 DEF ops

\* The n-grams of a part of the operations are among all of them.
LEMMA GramsWithin ==
  ASSUME NEW b \in Seq(Byte), NEW x \in Int, NEW y \in Int, NEW z \in Int,
         x <= 4 * Analysis!op_count(b), y <= 4 * Analysis!op_count(b) - 4,
         z <= 4 * Analysis!op_count(b) - 8
  PROVE  grams(b, x, y, z) \subseteq all_grams(b)
<1> DEFINE n == Analysis!op_count(b)
<1>1. n \in Nat
  BY OpCount
<1>2. /\ offsets(x) \subseteq offsets(4 * n)
      /\ offsets(y) \subseteq offsets(4 * n - 4)
      /\ offsets(z) \subseteq offsets(4 * n - 8)
  <2>1. \A k, l \in Int : k <= l => offsets(k) \subseteq offsets(l)
    BY DEF offsets, OP_SIZE
  <2>2. x <= 4 * n /\ y <= 4 * n - 4 /\ z <= 4 * n - 8
    OBVIOUS
  <2> HIDE DEF n
  <2> QED
    BY <1>1, <2>1, <2>2
<1> QED
  BY <1>2 DEF all_grams, grams

-----------------------------------------------------------------------------
(* The steps of a run.                                                     *)

\* While a run goes on it has recorded only n-grams of its file.
LEMMA RecordedWithin ==
  ASSUME TypeInv, NEW p \in Procs, PrevsAndGramsOf(p), AnalysisInvOf(p),
         pc[p] \in Running, build[p].feedback
  PROVE  sequence_features(seen[p]) \subseteq all_grams(buf[p])
<1> DEFINE b == buf[p]
           n == i[p]
           c == Analysis!op_count(b)
           x == n + done(p, {"seq2", "seq3", "exec"})
           y == n - 4 + done(p, {"seq3", "exec"})
           z == n - 8 + done(p, {"exec"})
<1>1. /\ b \in Seq(Byte) /\ n \in Nat /\ n % 4 = 0
      /\ n <= usable(b)
      /\ pc[p] \in InOp => n + 4 <= usable(b)
  BY DEF TypeInv, TypeOK, IndexInBuffer, OP_SIZE, AnalysisInvOf
<1>2. usable(b) \in Nat /\ c \in Nat /\ 4 * c <= usable(b) /\ usable(b) < 4 * c + 4
  BY <1>1, OpCount
<1>3. sequence_features(seen[p]) = grams(b, x, y, z)
  BY DEF PrevsAndGramsOf
<1>4. /\ x = n \/ (x = n + 4 /\ pc[p] \in InOp)
      /\ y = n - 4 \/ (y = n /\ pc[p] \in InOp)
      /\ z = n - 8 \/ (z = n - 4 /\ pc[p] \in InOp)
  <2> HIDE DEF n
  <2> QED
    BY <1>1 DEF done, InOp, OP_SIZE
<1>5. /\ x \in Int /\ y \in Int /\ z \in Int
      /\ x <= 4 * c /\ y <= 4 * c - 4 /\ z <= 4 * c - 8
  <2> DEFINE u == usable(b)
  <2>1. /\ n \in Nat /\ n % 4 = 0 /\ u \in Nat /\ c \in Nat /\ n <= u /\ u < 4 * c + 4
        /\ pc[p] \in InOp => n + 4 <= u
    BY <1>1, <1>2
  <2> HIDE DEF n, c, u, x, y, z
  <2>2. n <= 4 * c /\ (pc[p] \in InOp => n + 4 <= 4 * c)
    BY <2>1
  <2> QED
    BY <1>4, <2>1, <2>2
<1> HIDE DEF x, y, z
<1>6. grams(b, x, y, z) \subseteq all_grams(b)
  BY <1>1, <1>5, GramsWithin
<1> QED
  BY <1>3, <1>6

\* The n-gram feedback calls leave the ERRNO features as they were.
LEMMA ErrnoFeaturesStep ==
  ASSUME NEW S
  PROVE  /\ \A a : errno_features(S \union {SYSCALL(a)}) = errno_features(S)
         /\ \A a, b : errno_features(S \union {SEQ2(a, b)}) = errno_features(S)
         /\ \A a, b, c : errno_features(S \union {SEQ3(a, b, c)}) = errno_features(S)
         /\ \A a, b : errno_features(S \union {ERRNO(a, b)}) = errno_features(S) \union {ERRNO(a, b)}
<1>1. /\ \A a : SYSCALL(a)[1] # "ERRNO"
      /\ \A a, b : SEQ2(a, b)[1] # "ERRNO"
      /\ \A a, b, c : SEQ3(a, b, c)[1] # "ERRNO"
      /\ \A a, b : ERRNO(a, b)[1] = "ERRNO"
  BY DEF SYSCALL, SEQ2, SEQ3, ERRNO
<1> QED
  BY <1>1 DEF errno_features

LEMMA FeedbackAnalysis ==
  ASSUME TypeInv, NEW p \in Procs, AnalysisInvOf(p),
         FeedbackSyscall(p) \/ FeedbackSeq2(p) \/ FeedbackSeq3(p)
  PROVE  AnalysisInvOf(p)'
<1>1. /\ pc[p] \in Running /\ pc'[p] \in Running
      /\ UNCHANGED <<buf, i, build, trace>>
  BY DEF FeedbackSyscall, FeedbackSeq2, FeedbackSeq3, enter_executor, loopVars, Running,
         TypeInv, TypeOK
<1>2. errno_features(seen'[p]) = errno_features(seen[p])
  <2>1. CASE \E f : /\ Record(p, f)
                    /\ \/ \E a : f = SYSCALL(a)
                       \/ \E a, b : f = SEQ2(a, b)
                       \/ \E a, b, c : f = SEQ3(a, b, c)
    <3>1. PICK f : /\ Record(p, f)
                   /\ \/ \E a : f = SYSCALL(a)
                      \/ \E a, b : f = SEQ2(a, b)
                      \/ \E a, b, c : f = SEQ3(a, b, c)
      BY <2>1
    <3>2. seen'[p] = seen[p] \union {f}
      BY <3>1 DEF Record, TypeInv, TypeOK
    <3> QED
      BY <3>1, <3>2, ErrnoFeaturesStep
  <2>2. CASE UNCHANGED feedbackVars
    BY <2>2 DEF feedbackVars
  <2> QED
    BY <2>1, <2>2 DEF FeedbackSyscall, FeedbackSeq2, FeedbackSeq3
<1>3. pc[p] # "exited" /\ pc'[p] # "exited" /\ pc'[p] # "killed"
  BY <1>1 DEF Running
<1>4. traced_errnos(p)' = traced_errnos(p)
  BY <1>1 DEF traced_errnos
<1> QED
  BY <1>1, <1>2, <1>3, <1>4 DEF AnalysisInvOf

\* The end of an operation: one trace line more, and an ERRNO feature exactly
\* when the line has an errno.
LEMMA AfterOpAnalysis ==
  ASSUME TypeInv, TypeInv', NEW p \in Procs, AnalysisInvOf(p), ErrnoOfTheFailure, AfterOp(p)
  PROVE  AnalysisInvOf(p)'
<1> DEFINE b == buf[p]
           n == i[p]
           t == trace[p]
           line == [index |-> n \div OP_SIZE, sysno |-> op(p), err |-> err(p)]
           L == [index : Nat, sysno : Ops, err : Errnos]
<1>1. /\ pc[p] = "exec" /\ pc'[p] = "loop" /\ steps[p] = <<>>
      /\ i'[p] = n + 4 /\ UNCHANGED <<buf, build>>
      /\ trace'[p] = Append(t, line)
  BY DEF AfterOp, TypeInv, TypeOK, OP_SIZE
<1>2. /\ n \in Nat /\ t \in Seq(L) /\ trace'[p] \in Seq(L) /\ b \in Seq(Byte)
      /\ n + 4 <= usable(b) /\ 4 * Len(t) = n
      /\ \A k \in 1..Len(t) : t[k].index = k - 1
  BY <1>1 DEF TypeInv, TypeOK, IndexInBuffer, InOp, Running, OP_SIZE, AnalysisInvOf
<1> DEFINE m == Len(t)
           new == trace'[p]
<1>3. m \in Nat /\ n = 4 * m /\ n \div 4 = m
  <2>1. m \in Nat /\ n = 4 * m
    BY <1>2
  <2> HIDE DEF m, n
  <2>2. (4 * m) \div 4 = m
    BY <2>1
  <2> QED
    BY <2>1, <2>2
<1>4. /\ Len(new) = m + 1
      /\ \A k \in 1..m : new[k] = t[k]
      /\ new[m + 1] = line
  <2>1. Len(Append(t, line)) = m + 1 /\ Append(t, line)[m + 1] = line
        /\ \A k \in 1..m : Append(t, line)[k] = t[k]
    <3> HIDE DEF line, t
    <3> QED
      BY <1>2 DEF t
  <2> QED
    BY <1>1, <2>1
<1>5. line.index = m /\ line.err = err(p)
  BY <1>3 DEF OP_SIZE
<1>6. \A k \in 1..Len(new) : new[k].index = k - 1
  <2>1. \A k \in 1..m : t[k].index = k - 1
    BY <1>2
  <2> HIDE DEF line, t, m, new
  <2> SUFFICES ASSUME NEW k \in 1..(m + 1) PROVE new[k].index = k - 1
    BY <1>4
  <2>2. CASE k = m + 1
    BY <1>3, <1>4, <1>5, <2>2
  <2>3. CASE k \in 1..m
    BY <1>4, <2>1, <2>3
  <2> QED
    BY <1>3, <2>2, <2>3
<1>7. 4 * Len(new) = n + 4
  <2> HIDE DEF line, t, m, new, n
  <2> QED
    BY <1>3, <1>4
<1>8. (err(p) # "0") <=> (ret[p] < 0)
  <2>1. ret[p] \in {0, -1}
    BY DEF TypeInv, TypeOK
  <2>2. err(p) # "0" <=> ret[p] = -1
    BY <1>1 DEF ErrnoOfTheFailure
  <2> QED
    BY <2>1, <2>2
<1>9. ASSUME build[p].feedback PROVE errno_features(seen'[p]) = traced_errnos(p)'
  <2>1. op(p) = op_at(b, 4 * ((m + 1) - 1))
    <3>1. 4 * ((m + 1) - 1) = n
      <4> HIDE DEF m, n
      <4> QED
        BY <1>3
    <3> QED
      BY <3>1 DEF op
  <2>2. traced_errnos(p) =
          { ERRNO(op_at(b, 4 * (k - 1)), t[k].err) : k \in { l \in 1..m : t[l].err # "0" } }
    BY DEF traced_errnos
  <2>3. traced_errnos(p)' =
          { ERRNO(op_at(b, 4 * (k - 1)), new[k].err) :
              k \in { l \in 1..(m + 1) : new[l].err # "0" } }
    BY <1>1, <1>4 DEF traced_errnos
  <2>4. traced_errnos(p)' =
          traced_errnos(p) \union (IF err(p) # "0" THEN {ERRNO(op(p), err(p))} ELSE {})
    <3>1. \A k \in Int : k \in 1..(m + 1) <=> k \in 1..m \/ k = m + 1
      <4> HIDE DEF m
      <4> QED
        BY <1>3
    <3>2. new[m + 1].err = err(p)
      BY <1>4, <1>5
    <3> HIDE DEF new, t, b, m, line
    <3>3. { l \in 1..(m + 1) : new[l].err # "0" } =
            { l \in 1..m : t[l].err # "0" } \union (IF err(p) # "0" THEN {m + 1} ELSE {})
      BY <1>3, <1>4, <3>1, <3>2
    <3>4. \A k \in { l \in 1..m : t[l].err # "0" } : new[k].err = t[k].err
      BY <1>4
    <3> QED
      BY <2>1, <2>2, <2>3, <3>2, <3>3, <3>4
  <2>5. errno_features(seen'[p]) =
          errno_features(seen[p]) \union (IF ret[p] < 0 THEN {ERRNO(op(p), err(p))} ELSE {})
    <3>1. CASE ret[p] < 0
      <4>1. seen'[p] = seen[p] \union {ERRNO(op(p), err(p))}
        BY <1>9, <3>1 DEF AfterOp, Record, TypeInv, TypeOK
      <4> QED
        BY <3>1, <4>1, ErrnoFeaturesStep
    <3>2. CASE ~(ret[p] < 0)
      BY <3>2 DEF AfterOp, feedbackVars
    <3> QED
      BY <3>1, <3>2
  <2>6. errno_features(seen[p]) = traced_errnos(p)
    BY <1>1, <1>9 DEF AnalysisInvOf, Running
  <2> QED
    BY <1>8, <2>4, <2>5, <2>6
<1>10. i'[p] <= usable(b) /\ 4 * Len(new) = i'[p]
  BY <1>1, <1>2, <1>7
<1> QED
  BY <1>1, <1>6, <1>9, <1>10 DEF AnalysisInvOf

\* Where nothing of a process changes that the analysis looks at.
LEMMA SameAnalysis ==
  ASSUME NEW q \in Procs, AnalysisInvOf(q), pc'[q] = pc[q], build'[q] = build[q],
         buf'[q] = buf[q], i'[q] = i[q], trace'[q] = trace[q], seen'[q] = seen[q]
  PROVE  AnalysisInvOf(q)'
<1>1. traced_errnos(q)' = traced_errnos(q)
  BY DEF traced_errnos
<1> QED
  BY <1>1 DEF AnalysisInvOf

LEMMA InitAnalysis == Init => AnalysisInv
  BY DEF Init, AnalysisInv, AnalysisInvOf, Running

\* A step of the process itself.
LEMMA OwnAnalysis ==
  ASSUME TypeInv, TypeInv', NEW p \in Procs, PrevsAndGramsOf(p), AnalysisInvOf(p),
         ErrnoOfTheFailure,
         Main(p) \/ MainUsage(p) \/ RunInput(p) \/ Alarm(p)
  PROVE  AnalysisInvOf(p)'
<1>1. CASE Main(p)
  <2>1. PICK file \in Inputs :
          /\ buf'[p] = read_input(file)
          /\ pc'[p] = (IF read_input(file) = <<>> THEN "exited" ELSE "loop")
    BY <1>1 DEF Main, TypeInv, TypeOK
  <2>2. i'[p] = 0 /\ seen'[p] = {} /\ trace'[p] = <<>>
    BY <1>1 DEF Main, TypeInv, TypeOK
  <2>3. buf'[p] \in Seq(Byte) /\ usable(buf'[p]) \in Nat /\ usable(buf'[p]) <= Len(buf'[p])
    BY OpCount DEF TypeInv, TypeOK
  <2>4. pc'[p] = "exited" => usable(buf'[p]) < 4
    <3> SUFFICES ASSUME pc'[p] = "exited" PROVE usable(buf'[p]) < 4
      OBVIOUS
    <3>1. buf'[p] = <<>>
      BY <2>1
    <3>2. Len(buf'[p]) = 0
      BY <3>1
    <3> QED
      BY <2>3, <3>2
  <2>5. errno_features(seen'[p]) = traced_errnos(p)'
    <3>1. errno_features({}) = {}
      BY DEF errno_features
    <3>2. traced_errnos(p)' = {}
      BY <2>2 DEF traced_errnos
    <3> QED
      BY <2>2, <3>1, <3>2
  <2>6. pc'[p] # "killed"
    BY <2>1
  <2> QED
    BY <2>2, <2>3, <2>4, <2>5, <2>6 DEF AnalysisInvOf, OP_SIZE
<1>2. CASE MainUsage(p)
  <2>1. pc'[p] = "usage"
    BY <1>2 DEF MainUsage, TypeInv, TypeOK
  <2> QED
    BY <2>1 DEF AnalysisInvOf, Running
<1>3. CASE Alarm(p)
  <2>1. /\ pc[p] \in Running /\ pc'[p] = "killed"
        /\ UNCHANGED <<build, buf, i, trace, seen>>
    BY <1>3 DEF Alarm, loopVars, feedbackVars, TypeInv, TypeOK
  <2>2. build[p].feedback => sequence_features(seen[p]) \subseteq all_grams(buf[p])
    BY <2>1, RecordedWithin
  <2>3. traced_errnos(p)' = traced_errnos(p)
    BY <2>1 DEF traced_errnos
  <2> QED
    BY <2>1, <2>2, <2>3 DEF AnalysisInvOf, Running
<1>4. CASE NextOp(p) \/ EndOfInput(p)
  <2>1. /\ pc[p] = "loop" /\ pc'[p] \in {"syscall", "exec", "exited"}
        /\ pc'[p] = "exited" => ~more_ops(p)
        /\ UNCHANGED <<build, buf, i, trace, seen>>
    BY <1>4 DEF NextOp, EndOfInput, enter_executor, loopVars, feedbackVars, TypeInv, TypeOK
  <2>2. pc'[p] = "exited" => i[p] + OP_SIZE > usable(buf[p])
    <3>1. i[p] \in Nat /\ usable(buf[p]) \in Nat
      BY OpCount DEF TypeInv, TypeOK
    <3> QED
      BY <2>1, <3>1 DEF more_ops, OP_SIZE
  <2>3. traced_errnos(p)' = traced_errnos(p)
    BY <2>1 DEF traced_errnos
  <2> QED
    BY <2>1, <2>2, <2>3 DEF AnalysisInvOf, Running
<1> QED
  BY <1>1, <1>2, <1>3, <1>4, FeedbackAnalysis, AfterOpAnalysis DEF RunInput

LEMMA NextAnalysis ==
  ASSUME TypeInv, TypeInv', PrevsAndGrams, ErrnoOfTheFailure, AnalysisInv, [Next]_vars
  PROVE  AnalysisInv'
<1> SUFFICES ASSUME NEW q \in Procs PROVE AnalysisInvOf(q)'
  BY DEF AnalysisInv
<1>1. AnalysisInvOf(q) /\ PrevsAndGramsOf(q)
  BY DEF AnalysisInv, PrevsAndGrams
<1> DEFINE Same == /\ pc'[q] = pc[q] /\ build'[q] = build[q] /\ buf'[q] = buf[q]
                   /\ i'[q] = i[q] /\ trace'[q] = trace[q] /\ seen'[q] = seen[q]
<1>2. CASE UNCHANGED vars
  BY <1>1, <1>2, SameAnalysis DEF vars, procVars, loopVars, feedbackVars
<1>3. CASE Main(q) \/ MainUsage(q) \/ RunInput(q) \/ Alarm(q)
  BY <1>1, <1>3, OwnAnalysis
<1>4. ASSUME NEW p \in Procs, Helper(p) \/ Call(p) PROVE Same
  BY <1>4, HelperType, CallType DEF outsideExecutor, procVars, loopVars, feedbackVars
<1>5. ASSUME NEW p \in Procs, p # q, Main(p) PROVE Same
  <2>1. PICK b \in Builds, file \in Inputs :
          /\ build' = [build EXCEPT ![p] = b]
          /\ buf' = [buf EXCEPT ![p] = read_input(file)]
          /\ pc' = [pc EXCEPT ![p] = IF read_input(file) = <<>> THEN "exited" ELSE "loop"]
    BY <1>5 DEF Main
  <2>2. /\ i' = [i EXCEPT ![p] = 0] /\ seen' = [seen EXCEPT ![p] = {}]
        /\ trace' = [trace EXCEPT ![p] = <<>>]
    BY <1>5 DEF Main
  <2> QED
    BY <1>5, <2>1, <2>2 DEF TypeInv, TypeOK
<1>6. ASSUME NEW p \in Procs, p # q, MainUsage(p) \/ Alarm(p) PROVE Same
  <2>1. pc'[q] = pc[q] /\ buf'[q] = buf[q] /\ i'[q] = i[q]
    BY <1>6, Separate
  <2>2. build' = build
    BY <1>6 DEF MainUsage, Alarm
  <2>3. /\ trace' = trace \/ trace' = [trace EXCEPT ![p] = <<>>]
        /\ seen' = seen \/ seen' = [seen EXCEPT ![p] = {}]
    BY <1>6 DEF MainUsage, Alarm, feedbackVars
  <2>4. trace'[q] = trace[q]
    BY <1>6, <2>3 DEF TypeInv, TypeOK
  <2>5. seen'[q] = seen[q]
    BY <1>6, <2>3 DEF TypeInv, TypeOK
  <2> QED
    BY <2>1, <2>2, <2>4, <2>5
<1>7. ASSUME NEW p \in Procs, p # q, RunInput(p) PROVE Same
  <2>1. pc'[q] = pc[q] /\ buf'[q] = buf[q] /\ i'[q] = i[q]
    BY <1>7, Separate
  <2>2. build' = build
    BY <1>7 DEF RunInput, NextOp, FeedbackSyscall, FeedbackSeq2, FeedbackSeq3, AfterOp, EndOfInput
  <2>3. trace' = trace \/ \E t : trace' = [trace EXCEPT ![p] = t]
    BY <1>7 DEF RunInput, NextOp, FeedbackSyscall, FeedbackSeq2, FeedbackSeq3, AfterOp, EndOfInput
  <2>4. seen' = seen \/ \E f : seen' = [seen EXCEPT ![p] = @ \union {f}]
    BY <1>7 DEF RunInput, NextOp, FeedbackSyscall, FeedbackSeq2, FeedbackSeq3, AfterOp, EndOfInput,
      Record, feedbackVars
  <2>5. trace'[q] = trace[q]
    BY <1>7, <2>3 DEF TypeInv, TypeOK
  <2>6. seen'[q] = seen[q]
    BY <1>7, <2>4 DEF TypeInv, TypeOK
  <2> QED
    BY <2>1, <2>2, <2>5, <2>6
<1> QED
  BY <1>1, <1>2, <1>3, <1>4, <1>5, <1>6, <1>7, SameAnalysis DEF Next

-----------------------------------------------------------------------------
(* What the script reports.                                                *)

\* Of a run that is over, also a killed one, the script reads the errors off
\* the trace lines with the right operations.
LEMMA ErrnosReported ==
  ASSUME TypeInv, NEW p \in Procs, AnalysisInvOf(p), pc[p] \in {"exited", "killed"}
  PROVE  Analysis!syscall_errno(trace[p], Analysis!decode_bytes(buf[p])) = traced_errnos(p)
<1> DEFINE b == buf[p]
           t == trace[p]
           ops == Analysis!decode_bytes(b)
           m == Len(t)
           c == Analysis!op_count(b)
           u == usable(b)
           n == i[p]
<1>1. /\ b \in Seq(Byte) /\ n <= u /\ 4 * m = n /\ n \in Nat
      /\ t \in Seq([index : Nat, sysno : Ops, err : Errnos])
      /\ \A k \in 1..m : t[k].index = k - 1
  BY DEF TypeInv, TypeOK, AnalysisInvOf, OP_SIZE
<1>2. /\ u \in Nat /\ c \in Nat /\ 4 * c <= u /\ u < 4 * c + 4
      /\ Len(ops) = c /\ \A k \in 1..c : ops[k] = op_at(b, 4 * (k - 1))
  BY <1>1, OpCount, DecodersAgree
<1>3. m \in Nat /\ m <= c
  <2>1. m \in Nat
    BY <1>1
  <2> HIDE DEF m, c, u, n
  <2> QED
    BY <1>1, <1>2, <2>1
<1>4. \A k \in 1..m : t[k].index \in 0..(Len(ops) - 1) /\ ops[t[k].index + 1] = op_at(b, 4 * (k - 1))
  <2> SUFFICES ASSUME NEW k \in 1..m
               PROVE  /\ t[k].index \in 0..(Len(ops) - 1)
                      /\ ops[t[k].index + 1] = op_at(b, 4 * (k - 1))
    OBVIOUS
  <2>1. t[k].index = k - 1 /\ k \in 1..c /\ (k - 1) + 1 = k
    <3>1. t[k].index = k - 1
      BY <1>1
    <3>2. c \in Nat /\ m \in Nat /\ m <= c
      BY <1>2, <1>3
    <3> HIDE DEF m, c, t, ops
    <3>3. k \in 1..c /\ (k - 1) + 1 = k
      BY <3>2
    <3> QED
      BY <3>1, <3>3
  <2>2. ops[k] = op_at(b, 4 * (k - 1)) /\ Len(ops) = c
    BY <1>2, <2>1
  <2> HIDE DEF m, c, ops
  <2> QED
    BY <1>2, <2>1, <2>2
<1>5. Analysis!errno_lines(t, ops) = { k \in 1..m : t[k].err # "0" }
  BY <1>4 DEF Analysis!errno_lines
<1>6. Analysis!syscall_errno(t, ops) =
        { ERRNO(ops[t[k].index + 1], t[k].err) : k \in { l \in 1..m : t[l].err # "0" } }
  BY <1>5 DEF Analysis!syscall_errno, ERRNO
<1>7. traced_errnos(p) =
        { ERRNO(op_at(b, 4 * (k - 1)), t[k].err) : k \in { l \in 1..m : t[l].err # "0" } }
  BY DEF traced_errnos
<1> HIDE DEF m, ops, b, t
<1>8. \A k \in { l \in 1..m : t[l].err # "0" } : ops[t[k].index + 1] = op_at(b, 4 * (k - 1))
  BY <1>4
<1>9. Analysis!syscall_errno(t, ops) = traced_errnos(p)
  BY <1>6, <1>7, <1>8
<1> QED
  BY <1>9 DEF t, ops, b

\* At the end of a run the n-grams recorded are those of the whole file.
LEMMA GramsReported ==
  ASSUME TypeInv, NEW p \in Procs, PrevsAndGramsOf(p), AnalysisInvOf(p), pc[p] = "exited",
         build[p].feedback
  PROVE  sequence_features(seen[p]) = all_grams(buf[p])
<1> DEFINE b == buf[p]
           c == Analysis!op_count(b)
           u == usable(b)
           n == i[p]
<1>1. b \in Seq(Byte) /\ n <= u /\ n + 4 > u /\ n \in Nat /\ n % 4 = 0
  BY DEF TypeInv, TypeOK, IndexInBuffer, AnalysisInvOf, OP_SIZE
<1>2. u \in Nat /\ c \in Nat /\ 4 * c <= u /\ u < 4 * c + 4
  BY <1>1, OpCount
<1>3. n = 4 * c
  <2>1. n \in Nat /\ n % 4 = 0 /\ n <= u /\ n + 4 > u
    BY <1>1
  <2> HIDE DEF c, u, n
  <2>2. PICK m \in Nat : n = 4 * m
    <3>1. n = 4 * (n \div 4) /\ n \div 4 \in Nat
      BY <2>1
    <3> QED
      BY <3>1
  <2>3. m <= c /\ c <= m
    BY <1>2, <2>1, <2>2
  <2> QED
    BY <1>2, <2>2, <2>3
<1>4. sequence_features(seen[p]) = grams(b, n + 0, n - 4 + 0, n - 8 + 0)
  BY DEF PrevsAndGramsOf, done
<1>5. n + 0 = n /\ n - 4 + 0 = n - 4 /\ n - 8 + 0 = n - 8
  BY <1>1
<1>6. sequence_features(seen[p]) = grams(b, n, n - 4, n - 8)
  BY <1>4, <1>5
<1>7. all_grams(b) = grams(b, 4 * c, 4 * c - 4, 4 * c - 8)
  BY DEF all_grams
<1> HIDE DEF n, c, b
<1>8. sequence_features(seen[p]) = all_grams(b)
  BY <1>3, <1>6, <1>7
<1> QED
  BY <1>8 DEF b

\* analyze_queue.py against feedback.c, for every input, MAX_OPS, kernel and
\* number of campaigns: for a run that reached its end, what the script finds
\* in the file and the trace is exactly what the target recorded; for a run
\* SIGALRM killed it misses no n-gram that was recorded and reports no error
\* that was not.
THEOREM AnalysisExact == Spec => []AnalysisMatchesFeedback
<1>1. Init => PrevsAndGrams
  BY DEF Init, PrevsAndGrams, PrevsAndGramsOf, Running
<1>2. TypeInv /\ PrevsAndGrams /\ ErrnoOfTheFailure /\ AnalysisInv => AnalysisMatchesFeedback
  <2> SUFFICES ASSUME TypeInv, PrevsAndGrams, AnalysisInv, NEW p \in Procs,
                      build[p].feedback, pc[p] \in {"exited", "killed"}
               PROVE  LET a == analysed(p)
                          static == a.syscalls \union a.seq2 \union a.seq3
                      IN IF pc[p] = "exited"
                           THEN seen[p] = static \union a.syscall_errno
                           ELSE /\ { f \in seen[p] : f[1] # "ERRNO" } \subseteq static
                                /\ a.syscall_errno \subseteq seen[p]
    BY DEF AnalysisMatchesFeedback
  <2> DEFINE a == analysed(p)
             ops == Analysis!decode_bytes(buf[p])
  <2>1. AnalysisInvOf(p) /\ PrevsAndGramsOf(p) /\ buf[p] \in Seq(Byte)
    BY DEF AnalysisInv, PrevsAndGrams, TypeInv, TypeOK
  <2>2. /\ a.syscalls = Analysis!syscalls(ops) /\ a.seq2 = Analysis!seq2(ops)
        /\ a.seq3 = Analysis!seq3(ops)
        /\ a.syscall_errno = Analysis!syscall_errno(trace[p], ops)
    BY DEF analysed, Analysis!summarize_case, Analysis!replayed_stderr
  <2>3. a.syscalls \union a.seq2 \union a.seq3 = all_grams(buf[p])
    BY <2>1, <2>2, StaticIsGrams
  <2>4. { f \in seen[p] : f[1] # "ERRNO" } = sequence_features(seen[p])
    BY DEF sequence_features
  <2>5. errno_features(seen[p]) = a.syscall_errno
    <3>1. errno_features(seen[p]) = traced_errnos(p)
      BY <2>1 DEF AnalysisInvOf
    <3> QED
      BY <2>1, <2>2, <3>1, ErrnosReported
  <2>6. CASE pc[p] = "exited"
    <3>1. sequence_features(seen[p]) = all_grams(buf[p])
      BY <2>1, <2>6, GramsReported
    <3>2. errno_features(seen[p]) = a.syscall_errno
      BY <2>5
    <3>3. seen[p] = sequence_features(seen[p]) \union errno_features(seen[p])
      BY DEF sequence_features, errno_features
    <3> HIDE DEF a
    <3> QED
      BY <2>3, <2>6, <3>1, <3>2, <3>3 DEF a
  <2>7. CASE pc[p] = "killed"
    <3>1. { f \in seen[p] : f[1] # "ERRNO" } \subseteq a.syscalls \union a.seq2 \union a.seq3
      BY <2>1, <2>3, <2>4, <2>7 DEF AnalysisInvOf
    <3>2. errno_features(seen[p]) \subseteq seen[p]
      BY DEF errno_features
    <3> HIDE DEF a
    <3> QED
      BY <2>5, <2>7, <3>1, <3>2 DEF a
  <2> QED
    BY <2>6, <2>7
<1>3. TypeInv /\ TypeInv' /\ PrevsAndGrams /\ ErrnoOfTheFailure /\ AnalysisInv /\ [Next]_vars
        => AnalysisInv'
  BY NextAnalysis
<1> QED
  BY <1>1, <1>2, <1>3, InitType, NextType, GramsInvStep, InitAnalysis, ErrnoOfFailure, PTL
     DEF Spec
================================================================================

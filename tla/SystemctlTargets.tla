---------------------------- MODULE SystemctlTargets ---------------------------
(***************************************************************************)
(* The two C programs that read PoC three's command sequences:             *)
(* systemctl_generator, which AFL++ fuzzes, and systemctl_harness, which   *)
(* runs the commands under ftrace.  They share input_parser.c.  A testcase *)
(* is a record as in CorpusSelection; a command is its index in            *)
(* SAFE_COMMANDS.                                                          *)
(***************************************************************************)
EXTENDS Integers, Sequences, SequencesExt

SYSTEMCTL_MAX_OPS == 64
SAFE_COMMAND_COUNT == 27
MAX_REPEAT == 3

decode_ops(t) ==
  [ i \in 1..(IF Len(t.records) < SYSTEMCTL_MAX_OPS THEN Len(t.records) ELSE SYSTEMCTL_MAX_OPS) |->
      [operation |-> t.records[i][1], repeat |-> t.records[i][2]] ]

operation(op) == op.operation % SAFE_COMMAND_COUNT
repeats(op) == (op.repeat % MAX_REPEAT) + 1

\* The harness: what it runs, in order; the status of a command ends nothing.
commands(t) ==
  FlattenSeq([ i \in DOMAIN decode_ops(t) |->
    [ r \in 1..repeats(decode_ops(t)[i]) |-> operation(decode_ops(t)[i]) ] ])

\* The generator's own table, by operation from 0.
OP_FAMILIES ==
  LET from == [ meta |-> {0, 8} \union (12..15), query |-> (5..7) \union (9..11),
                lifecycle |-> (1..4) \union (18..20), failure |-> {16}, fs |-> {17},
                timer |-> {21, 22}, socket |-> {23, 24}, path |-> {25, 26} ]
  IN [ op \in 0..(SAFE_COMMAND_COUNT - 1) |-> CHOOSE f \in DOMAIN from : op \in from[f] ]

\* The blocks of the generator that a testcase reaches: its coverage.
observe_count(n) ==
  CASE n = 0 -> "0" [] n = 1 -> "1" [] n \in 2..3 -> "2..3" [] n \in 4..7 -> "4..7"
    [] n \in 8..15 -> "8..15" [] OTHER -> "16.."

observe_pair(previous, current) ==
  IF previous = SAFE_COMMAND_COUNT THEN {"first"}
  ELSE (IF previous = current THEN {"same"} ELSE {})
       \union (IF previous < current THEN {"up"} ELSE {"not up"})
       \union (IF previous \div 4 = current \div 4 THEN {"same four"} ELSE {})
       \union (IF previous % 2 # current % 2 THEN {"odd"} ELSE {})
       \union (IF (previous + current) % 3 = 0 THEN {"three"} ELSE {})

generator_coverage(t) ==
  LET ops == decode_ops(t)
      op(i) == IF i = 0 THEN SAFE_COMMAND_COUNT ELSE operation(ops[i])
  IN [ count |-> observe_count(Len(ops)),
       ops |-> { op(i) : i \in DOMAIN ops },
       repeats |-> { repeats(ops[i]) : i \in DOMAIN ops },
       families |-> { OP_FAMILIES[op(i)] : i \in DOMAIN ops },
       pairs |-> UNION { observe_pair(op(i - 1), op(i)) : i \in DOMAIN ops } ]
================================================================================

---------------------------- MODULE ReplayOracle ----------------------------
(***************************************************************************)
(* What replaying a queue promises, whatever the target and the analyzer   *)
(* do inside: the testcases are taken in order, and each one either counts *)
(* with the whole of its coverage or not at all.                           *)
(***************************************************************************)
EXTENDS Naturals, Sequences

CONSTANT Covers(_)     \* the coverage of a testcase

VARIABLES
  queue,               \* the testcases
  replayed,            \* how many of them are done
  discovered           \* the coverage found in them

Init == replayed = 0 /\ discovered = {}

Count ==
  /\ replayed < Len(queue)
  /\ replayed' = replayed + 1
  /\ discovered' = discovered \union Covers(queue[replayed + 1])
  /\ UNCHANGED queue

Skip ==
  /\ replayed < Len(queue)
  /\ replayed' = replayed + 1
  /\ UNCHANGED <<queue, discovered>>

Spec == Init /\ [][Count \/ Skip]_<<queue, replayed, discovered>>
=============================================================================

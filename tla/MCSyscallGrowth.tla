---------------------------- MODULE MCSyscallGrowth ----------------------------
(***************************************************************************)
(* Queues of up to three testcases with and without a time in the name,    *)
(* equal times, equal modification times and a dotted name, named twice on *)
(* the command line.                                                       *)
(***************************************************************************)
EXTENDS SyscallGrowth

op(id) == <<id, 0, 0, 0>>

Contents == { op(0) \o <<0>>, op(0) \o op(1) \o op(0), op(1) \o op(46) \o op(2) }
Stamps == { [afl |-> NoTime, mtime |-> 5], [afl |-> NoTime, mtime |-> 7],
            [afl |-> 1, mtime |-> 7], [afl |-> 2, mtime |-> 6] }

File(n, stamp, data, dot) ==
  [name |-> n, afl |-> stamp.afl, mtime |-> stamp.mtime, data |-> data, dotted |-> dot]

FileSets ==
  UNION { { { File(n, stamp[n], data[n], n = dot) : n \in 1..k } :
              stamp \in [1..k -> Stamps], data \in [1..k -> Contents], dot \in {0, k} } :
          k \in 0..2 }
  \union
  { { File(n, stamp[n], data[n], FALSE) : n \in 1..3 } :
      stamp \in [1..3 -> Stamps], data \in { d \in [1..3 -> Contents] : d[1] # d[2] } }

Campaigns ==
  [instance : {"default"}, files : FileSets]
  \union [instance : {"fuzzer01"}, files : { S \in FileSets : \A f \in S : f.afl = 1 }]

MCCommandLines ==
  { <<[at |-> "queue", campaign |-> c], [at |-> "root", campaign |-> c]>> : c \in Campaigns }
  \union
  { <<[at |-> "instance", campaign |-> c], [at |-> a, campaign |-> c]>> :
      a \in {"root", "missing"},
      c \in { d \in Campaigns : Cardinality(d.files) < 3 } }
  \union
  { <<[at |-> "testcase", campaign |-> [instance |-> "default",
        files |-> {File(1, stamp, op(0), dot)}]]>> : stamp \in Stamps, dot \in BOOLEAN }

MCOptions ==
  { [extend_to |-> NoTime, csv |-> FALSE, no_plot |-> FALSE, matplotlib |-> TRUE],
    [extend_to |-> 3, csv |-> TRUE, no_plot |-> FALSE, matplotlib |-> FALSE] }
================================================================================

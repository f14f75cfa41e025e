----------------------------- MODULE MCReseedLoop -----------------------------
(***************************************************************************)
(* One round over queues of up to four inputs, for the selections; two     *)
(* rounds, started twice, over small queues; three rounds for the summary; *)
(* one round of every operation with every other one after it, and of      *)
(* inputs at the limit of operations.                                      *)
(***************************************************************************)
EXTENDS ReseedLoop

CONSTANTS cgroup_attach, openat, read

MCEvents == {cgroup_attach, openat, read}
MCSubsystemOf == [e \in MCEvents |-> IF e = cgroup_attach THEN "cgroup" ELSE "none"]

T(records, tail) == [records |-> records, tail |-> tail]

Start      == T(<< <<1, 0>> >>, 0)
StartLong  == T(<< <<28, 3>> >>, 2)                  \* the same shape
Status     == T(<< <<5, 1>> >>, 0)
StartTwice == T(<< <<1, 0>>, <<3, 0>> >>, 0)         \* the same family
StartShow  == T(<< <<1, 0>>, <<5, 0>> >>, 0)
Reload     == T(<< <<8, 0>> >>, 0)                   \* not fast-safe
Many       == T(<< <<1, 2>>, <<5, 2>>, <<6, 2>> >>, 0)  \* nine commands

Options(limit, top_k, min_score, strategy) ==
  [ limit |-> limit, top_k |-> top_k, min_score |-> min_score, strategy |-> strategy,
    max_ops |-> 3, max_expanded_commands |-> 8, profile |-> "fast-safe" ]

Each(op) == { T(<< <<op, r>>, <<(op + 27 + d), 6 + r>> >>, 0) : r \in {2}, d \in {0, 5} }
Limit(n) == T([ i \in 1..n |-> <<i, i>> ], 3)

Traces == {<<>>, <<openat>>, <<cgroup_attach, openat>>}

MCExperiments ==
  [ rounds : {1}, attempts : {1}, queue : {4}, traces : {Traces},
    inputs : {{Start, StartLong, Status, StartTwice, StartShow, Reload, Many}},
    opts : { Options(l, k, m, "diverse") : l \in {2, 4}, k \in {0, 2, 3}, m \in {0, 1} } ]
  \union
  [ rounds : {2}, attempts : {2}, queue : {2}, traces : {Traces},
    inputs : {{Start, Status, Reload}},
    opts : {Options(2, 1, 1, "diverse"), Options(2, 1, 0, "top-score")} ]
  \union
  [ rounds : {3}, attempts : {1}, queue : {2},
    traces : {{<<cgroup_attach>>, <<openat, read>>}}, inputs : {{Start, Status}},
    opts : {Options(1, 1, 0, "diverse")} ]
  \union
  [ rounds : {1}, attempts : {1}, queue : {3}, traces : {{<<openat>>}},
    inputs : { Each(op) : op \in 0..26 } \union {{Limit(64), Limit(65)}},
    opts : {[ Options(4, 2, 0, "diverse") EXCEPT
                !.max_ops = 64, !.max_expanded_commands = 128, !.profile = "all" ]} ]

MCInitialSeeds == {Start}
================================================================================

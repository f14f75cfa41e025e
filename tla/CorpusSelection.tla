---------------------------- MODULE CorpusSelection ----------------------------
(***************************************************************************)
(* PoC three's two selections: scripts/preselect_queue.py, which picks the *)
(* testcases worth a replay, and scripts/select_corpus.py, which picks the *)
(* next seeds from the scores of the replays.  A testcase is a record of   *)
(* the bytes they look at: records, the first and the last byte of every   *)
(* four-byte record, and tail, the number of bytes left over.              *)
(***************************************************************************)
EXTENDS TraceSummary

OP_MAX == 27
MAX_OPS == 64
MAX_REPEAT == 3
FAST_SAFE_OPS == (1..7) \union {10, 11} \union (16..26)

size(t) == 4 * Len(t.records) + t.tail

\* A mutant: repetitions are not taken modulo MAX_REPEAT but capped.
semantic_shape_capped(t) ==
  [ i \in 1..(IF Len(t.records) < MAX_OPS THEN Len(t.records) ELSE MAX_OPS) |->
      << t.records[i][1] % OP_MAX,
         (IF t.records[i][2] < MAX_REPEAT THEN t.records[i][2] ELSE MAX_REPEAT - 1) + 1 >> ]

\* (operation, repetitions) of every operation; what families and pairs the
\* script's tuple adds follows from it.
semantic_shape(t) ==
  [ i \in 1..(IF Len(t.records) < MAX_OPS THEN Len(t.records) ELSE MAX_OPS) |->
      << t.records[i][1] % OP_MAX, (t.records[i][2] % MAX_REPEAT) + 1 >> ]

families(shape) == { shape[i][1] \div 4 : i \in DOMAIN shape }
pairs(shape) == { <<shape[i][1], shape[i + 1][1]>> : i \in 1..(Len(shape) - 1) }
expanded_commands(shape) == total([ i \in DOMAIN shape |-> shape[i][2] ])

replayable(shape, opts) ==
  /\ Len(shape) <= opts.max_ops
  /\ expanded_commands(shape) <= opts.max_expanded_commands
  /\ opts.profile = "fast-safe" => \A i \in DOMAIN shape : shape[i][1] \in FAST_SAFE_OPS

\* Which of two indices comes first: the one with the greater key; of equals,
\* the smaller.
ahead(key, i, j) == below(key[j], key[i]) \/ (~below(key[i], key[j]) /\ i < j)

\* sorted(..., reverse=True) of the indices that have a key: stable, so that
\* equal keys stay in the order of the indices.  The n-th has n - 1 ahead of it.
descending(key) ==
  [ n \in 1..Cardinality(DOMAIN key) |->
      CHOOSE i \in DOMAIN key : Cardinality({ j \in DOMAIN key : ahead(key, j, i) }) = n - 1 ]

\* A mutant: a later testcase of the same shape replaces an earlier one.
representative_last(queue, i) ==
  Max({ j \in DOMAIN queue : semantic_shape(queue[j]) = semantic_shape(queue[i]) })

\* The first of the shortest testcases of the shape of testcase i.
representative(queue, i) ==
  LET alike == { j \in DOMAIN queue : semantic_shape(queue[j]) = semantic_shape(queue[i]) }
  IN Min({ j \in alike : \A k \in alike : size(queue[j]) <= size(queue[k]) })

\* by_shape: an index for every shape, that of its first testcase.
shapes(queue, opts) ==
  { i \in DOMAIN queue :
      /\ replayable(semantic_shape(queue[i]), opts)
      /\ \A j \in 1..(i - 1) : semantic_shape(queue[j]) # semantic_shape(queue[i]) }

rank(t) ==
  LET shape == semantic_shape(t)
  IN <<Cardinality(families(shape)), Cardinality(pairs(shape)), Len(shape), 0 - size(t)>>

at_most(n, seq) == SubSeq(seq, 1, IF n < Len(seq) THEN n ELSE Len(seq))

\* The content of the output directory, in the order of its names.
preselect(queue, opts) ==
  LET ranked == descending([ i \in shapes(queue, opts) |-> rank(queue[representative(queue, i)]) ])
  IN at_most(opts.limit, [ n \in DOMAIN ranked |-> queue[representative(queue, ranked[n])] ])

-----------------------------------------------------------------------------

OP_FAMILIES ==
  << "meta", "lifecycle", "lifecycle", "lifecycle", "lifecycle", "query", "query", "query",
     "meta", "query", "query", "query", "meta", "meta", "meta", "meta", "failure", "fs",
     "lifecycle", "lifecycle", "lifecycle", "timer", "timer", "socket", "socket", "path", "path" >>

\* A mutant: a family is looked up by the operation's family number.
family_signature_div(t) ==
  LET all == [ i \in DOMAIN semantic_shape(t) |->
                 OP_FAMILIES[(semantic_shape(t)[i][1] \div 4) * 4 + 1] ]
      starts == { i \in DOMAIN all : i = 1 \/ all[i] # all[i - 1] }
  IN at_most(8, at(starts, all))

\* The families in order, repetitions in a row and all after eight left out.
family_signature(t) ==
  LET all == [ i \in DOMAIN semantic_shape(t) |-> OP_FAMILIES[semantic_shape(t)[i][1] + 1] ]
      starts == { i \in DOMAIN all : i = 1 \/ all[i] # all[i - 1] }
  IN at_most(8, at(starts, all))

row_score(r) == <<r.score, r.new_events, r.new_event_pairs>>

\* Indices of the rows that may be selected.
eligible(rows, opts) == { i \in DOMAIN rows : rows[i].score >= opts.min_score }

by_score(rows, S) == descending([ i \in S |-> row_score(rows[i]) ])

\* The best of a set of rows, the first of equals.
best(rows, S) == by_score(rows, S)[1]

\* A mutant: the buckets do not matter.
choose_diverse_by_score(rows, queue, opts) ==
  at_most(opts.top_k, by_score(rows, eligible(rows, opts)))

\* The rows chosen, by index; the input of row i is queue[i].
choose_diverse(rows, queue, opts) ==
  LET bucket(i) == { j \in eligible(rows, opts) :
                       family_signature(queue[j]) = family_signature(queue[i]) }
      \* one index for every bucket, its first
      firsts == { i \in eligible(rows, opts) : i = Min(bucket(i)) }
      order == descending([ i \in firsts |-> row_score(rows[best(rows, bucket(i))]) ])
      bests == [ n \in DOMAIN order |-> best(rows, bucket(order[n])) ]
      remaining == by_score(rows, eligible(rows, opts) \ ToSet(bests))
  IN IF Len(bests) >= opts.top_k THEN at_most(IF opts.top_k = 0 THEN 1 ELSE opts.top_k, bests)
     ELSE bests \o at_most(opts.top_k - Len(bests), remaining)

\* --strategy
choose(rows, queue, opts) ==
  IF opts.strategy = "top-score"
    THEN at_most(opts.top_k, by_score(rows, eligible(rows, opts)))
    ELSE choose_diverse(rows, queue, opts)
================================================================================

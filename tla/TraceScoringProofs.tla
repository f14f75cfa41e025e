-------------------------- MODULE TraceScoringProofs --------------------------
(***************************************************************************)
(* Proofs about TraceScoring, for every queue, every set of events and     *)
(* every size of the kernel's buffer: the type invariant, that a saved     *)
(* trace is that of the replay it is saved for, that the rows of a tracing *)
(* analysis are of replays of its own, and that the scores of a queue add  *)
(* up to what its traces are worth together.                               *)
(***************************************************************************)
EXTENDS TraceScoring, FiniteSetTheorems, FunctionTheorems, WellFoundedInduction,
        SequenceTheorems, TLAPS

-----------------------------------------------------------------------------
(* What the ring buffer keeps of a sequence.                               *)

LEMMA NewestType ==
  ASSUME NEW S, NEW s \in Seq(S)
  PROVE  newest(s) \in Seq(S)
BY BoundsAssumption DEF newest

\* Keeping the newest of what was kept loses nothing more.
LEMMA NewestOfNewest ==
  ASSUME NEW S, NEW s \in Seq(S), NEW e \in S
  PROVE  newest(Append(newest(s), e)) = newest(Append(s, e))
<1>1. CASE Len(s) <= BufferSize
  <2>1. newest(s) = s
    BY <1>1 DEF newest
  <2> QED BY <2>1
<1>2. CASE Len(s) > BufferSize /\ BufferSize = 0
  <2>1. ASSUME NEW t \in Seq(S) PROVE newest(t) = << >>
    <3>1. CASE Len(t) = 0
      BY <3>1, <1>2, EmptySeq DEF newest
    <3>2. CASE Len(t) # 0
      BY <3>2, <1>2, SubSeqEmpty DEF newest
    <3> QED BY <3>1, <3>2
  <2>2. Append(s, e) \in Seq(S) /\ Append(newest(s), e) \in Seq(S)
    BY NewestType
  <2> QED BY <2>1, <2>2
<1>3. CASE Len(s) > BufferSize /\ BufferSize > 0
  <2> DEFINE N == BufferSize
             short == newest(s)
             left == newest(Append(short, e))
             right == newest(Append(s, e))
  <2>1. /\ short \in Seq(S) /\ Len(short) = N
        /\ \A i \in 1..N : short[i] = s[i + Len(s) - N]
    BY <1>3, BoundsAssumption DEF newest
  <2>2. /\ Len(Append(short, e)) = N + 1
        /\ \A i \in 1..(N + 1) : Append(short, e)[i] = IF i = N + 1 THEN e ELSE short[i]
    BY <2>1, BoundsAssumption
  <2>3. /\ left \in Seq(S) /\ Len(left) = N
        /\ \A i \in 1..N : left[i] = Append(short, e)[i + 1]
    <3>0. Append(short, e) \in Seq(S)
      <4>1. short \in Seq(S)
        BY <2>1
      <4> HIDE DEF short
      <4> QED BY <4>1
    <3>1. PICK u \in Seq(S) : u = Append(short, e)
      BY <3>0
    <3>2. Len(u) = N + 1 /\ N \in Nat /\ N > 0
      BY <2>2, <3>1, BoundsAssumption, <1>3
    <3> HIDE DEF N, short
    <3>3. newest(u) = SubSeq(u, 2, N + 1)
      BY <3>2 DEF newest, N
    <3> QED BY <3>1, <3>2, <3>3
  <2>4. /\ right \in Seq(S) /\ Len(right) = N
        /\ \A i \in 1..N : right[i] = Append(s, e)[i + Len(s) + 1 - N]
    BY <1>3, BoundsAssumption DEF newest
  <2>5. ASSUME NEW i \in 1..N PROVE left[i] = right[i]
    <3>1. CASE i = N
      BY <3>1, <2>2, <2>3, <2>4, <1>3, BoundsAssumption
    <3>2. CASE i # N
      <4>1. i + 1 \in 1..N /\ i + 1 + Len(s) - N \in 1..Len(s)
        BY <3>2, <1>3, BoundsAssumption
      <4>2. left[i] = s[i + 1 + Len(s) - N]
        <5>1. left[i] = Append(short, e)[i + 1]
          BY <2>3
        <5>2. Append(short, e)[i + 1] = short[i + 1]
          BY <4>1, <2>1, AppendProperties
        <5>3. short[i + 1] = s[i + 1 + Len(s) - N]
          BY <4>1, <2>1
        <5> QED BY <5>1, <5>2, <5>3
      <4>3. Append(s, e)[i + 1 + Len(s) - N] = s[i + 1 + Len(s) - N]
        BY <4>1, AppendProperties
      <4>4. right[i] = s[i + 1 + Len(s) - N]
        <5>1. right[i] = Append(s, e)[i + Len(s) + 1 - N]
          BY <2>4
        <5>2. i + Len(s) + 1 - N = i + 1 + Len(s) - N
          BY BoundsAssumption
        <5> QED BY <5>1, <5>2, <4>3
      <4> QED BY <4>2, <4>4
    <3> QED BY <3>1, <3>2
  <2>6. left = right
    <3> HIDE DEF left, right
    <3> QED BY <2>3, <2>4, <2>5, BoundsAssumption
  <2> QED BY <2>6
<1> QED BY <1>1, <1>2, <1>3, BoundsAssumption

-----------------------------------------------------------------------------
(* The type invariant; beside it, every step but the first and the last is *)
(* about a testcase of the queue.                                          *)

TestcaseInQueue == step \notin {"next", "done"} => testcase <= Queue

TypeInv == TypeOK /\ TestcaseInQueue

LEMMA TraceTextType ==
  ASSUME buffer \in Seq(Events)
  PROVE  /\ trace_text \in Seq(Lines)
         /\ \A n \in 0..Len(trace_text) : SubSeq(trace_text, 1, n) \in Seq(Lines)
<1>1. buffer \in Seq(Lines) /\ <<Header>> \in Seq(Lines)
  BY DEF Lines
<1>2. trace_text \in Seq(Lines)
  BY <1>1, ConcatProperties DEF trace_text
<1> QED BY <1>2, SubSeqProperties

LEMMA TypeInit == Init => TypeInv
<1> SUFFICES ASSUME Init PROVE TypeInv
  OBVIOUS
<1>1. trace_files \in [1..Queue -> Seq(Lines) \union {NoTrace}]
  BY BoundsAssumption DEF Init
<1> QED BY <1>1, BoundsAssumption DEF Init, TypeInv, TypeOK, TestcaseInQueue

LEMMA TypeStep == TypeInv /\ [Next]_vars => TypeInv'
<1> SUFFICES ASSUME TypeInv, [Next]_vars PROVE TypeInv'
  OBVIOUS
<1> USE DEF TypeInv, TypeOK, TestcaseInQueue, kernel, analysis
<1>1. CASE Emit
  <2> PICK e \in Events :
        /\ buffer' = newest(Append(buffer, e))
        /\ emitted' = IF step \in {"replay", "stop"} THEN Append(emitted, e) ELSE emitted
    BY <1>1 DEF Emit
  <2>1. buffer' \in Seq(Events)
    <3>1. Append(buffer, e) \in Seq(Events)
      OBVIOUS
    <3> QED BY <3>1, NewestType
  <2>2. emitted' \in Seq(Events)
    OBVIOUS
  <2> QED BY <1>1, <2>1, <2>2 DEF Emit
<1>2. CASE StartCollector
  BY <1>2, BoundsAssumption DEF StartCollector, Step
<1>3. CASE TracingOff
  BY <1>3 DEF TracingOff, Step
<1>4. CASE ClearTrace
  BY <1>4 DEF ClearTrace, Step, cleared_trace
<1>5. CASE Replay
  BY <1>5 DEF Replay, Step
<1>6. CASE CommandEnds
  BY <1>6 DEF CommandEnds, Step
<1>7. CASE TimeoutEnds
  BY <1>7 DEF TimeoutEnds, Step
<1>8. CASE StopTracing
  BY <1>8 DEF StopTracing, Step
<1>9. CASE SaveTrace
  <2>1. trace_files' \in [1..Queue -> Seq(Lines) \union {NoTrace}]
    BY <1>9, TraceTextType DEF SaveTrace
  <2>2. replayed' \subseteq 1..Queue
    BY <1>9, BoundsAssumption DEF SaveTrace, Step
  <2> QED BY <1>9, <2>1, <2>2 DEF SaveTrace, Step
<1>10. CASE Score
  <2>1. testcase' \in 1..(Queue + 1)
    BY <1>10, BoundsAssumption DEF Score
  <2>2. step' \in {"next", "dead"} /\ (step' = "dead" => testcase' = testcase)
    BY <1>10 DEF Score
  <2> QED BY <1>10, <2>1, <2>2 DEF Score
<1>11. CASE WriteReport
  BY <1>11 DEF WriteReport, Step
<1>12. CASE Interrupt
  <2>1. trace_files' \in [1..Queue -> Seq(Lines) \union {NoTrace}]
    <3>1. CASE UNCHANGED trace_files
      BY <3>1
    <3>2. CASE \E n \in 0..Len(trace_text) :
                 trace_files' = [trace_files EXCEPT ![testcase] = SubSeq(trace_text, 1, n)]
      BY <3>2, TraceTextType
    <3> QED BY <1>12, <3>1, <3>2 DEF Interrupt
  <2>2. attempt' \in 1..MaxAttempts /\ testcase' \in 1..(Queue + 1)
    BY <1>12, BoundsAssumption DEF Interrupt
  <2> QED BY <1>12, <2>1, <2>2 DEF Interrupt
<1>13. CASE UNCHANGED vars
  BY <1>13 DEF vars
<1> QED
  BY <1>1, <1>2, <1>3, <1>4, <1>5, <1>6, <1>7, <1>8, <1>9, <1>10, <1>11, <1>12, <1>13
  DEF Next, Analyzer, Collector

LEMMA TypeInvariant == Spec => []TypeInv
BY TypeInit, TypeStep, PTL DEF Spec

\* Every variable of an analysis has its type in every reachable state.
THEOREM TypeCorrect == Spec => []TypeOK
<1>1. TypeInv => TypeOK
  BY DEF TypeInv
<1> QED BY <1>1, TypeInvariant, PTL

-----------------------------------------------------------------------------
(* A trace is that of its replay: nothing is written to the buffer between *)
(* clearing it and switching tracing on, so that from there on it holds    *)
(* the newest of what the replay has emitted.                              *)

TraceInv ==
  /\ step \in {"clear", "on", "save"} => ~tracing_on
  /\ step = "on" => buffer = << >>
  /\ step \in {"replay", "stop", "save"} => buffer = newest(emitted)
  /\ TraceIsOfTheReplay

LEMMA TraceStep == TypeInv /\ TraceInv /\ [Next]_vars => TraceInv'
<1> SUFFICES ASSUME TypeInv, TraceInv, [Next]_vars PROVE TraceInv'
  OBVIOUS
<1> USE DEF TraceInv, TraceIsOfTheReplay, kernel, analysis
<1>1. CASE Emit
  <2> PICK e \in Events :
        /\ buffer' = newest(Append(buffer, e))
        /\ emitted' = IF step \in {"replay", "stop"} THEN Append(emitted, e) ELSE emitted
    BY <1>1 DEF Emit
  <2>1. step' = step /\ tracing_on /\ tracing_on' = tracing_on
        /\ root' = root /\ trace_files' = trace_files /\ testcase' = testcase
    BY <1>1 DEF Emit
  <2>2. CASE step \in {"replay", "stop"}
    <3>1. newest(Append(newest(emitted), e)) = newest(Append(emitted, e))
      BY NewestOfNewest DEF TypeInv, TypeOK
    <3>2. buffer' = newest(emitted')
      BY <2>2, <3>1
    <3> QED BY <2>1, <2>2, <3>2
  <2>3. CASE step \notin {"replay", "stop"}
    <3>1. emitted' = emitted /\ step \notin {"clear", "on", "replay", "stop", "save"}
      BY <2>1, <2>3
    <3>2. TraceIsOfTheReplay'
      BY <2>1, <3>1 DEF newest
    <3> QED BY <2>1, <3>1, <3>2
  <2> QED BY <2>2, <2>3
<1>2. CASE StartCollector
  <2>1. root => step' = "off"
    BY <1>2 DEF StartCollector, Step, collector_traces
  <2>2. root' = root /\ step' \in {"off", "score"}
    BY <1>2 DEF StartCollector, Step
  <2> QED BY <2>1, <2>2
<1>3. CASE TracingOff
  BY <1>3 DEF TracingOff, Step
<1>4. CASE ClearTrace
  BY <1>4 DEF ClearTrace, Step, cleared_trace
<1>5. CASE Replay
  <2>1. newest(<< >>) = << >>
    BY BoundsAssumption DEF newest
  <2>2. buffer' = << >> /\ emitted' = << >> /\ step' = "replay"
    BY <1>5 DEF Replay, Step
  <2>3. buffer' = newest(emitted')
    BY <2>1, <2>2
  <2> QED BY <2>2, <2>3
<1>6. CASE CommandEnds
  BY <1>6 DEF CommandEnds, Step, newest
<1>7. CASE TimeoutEnds
  BY <1>7 DEF TimeoutEnds, Step, newest
<1>8. CASE StopTracing
  BY <1>8 DEF StopTracing, Step, newest
<1>9. CASE SaveTrace
  <2>1. testcase \in 1..Queue /\ testcase' = testcase /\ step' = "score"
    BY <1>9, BoundsAssumption DEF SaveTrace, Step, TypeInv, TypeOK, TestcaseInQueue
  <2>2. trace_files'[testcase] = trace_text
    BY <1>9, <2>1 DEF SaveTrace, TypeInv, TypeOK
  <2>3. buffer = newest(emitted) /\ emitted' = emitted
    BY <1>9 DEF SaveTrace, Step
  <2>4. trace_files'[testcase'] = <<Header>> \o newest(emitted')
    BY <2>1, <2>2, <2>3 DEF trace_text
  <2> QED BY <2>1, <2>4
<1>10. CASE Score
  <2>1. step' \in {"next", "dead"}
    BY <1>10 DEF Score
  <2> QED BY <2>1
<1>11. CASE WriteReport
  BY <1>11 DEF WriteReport, Step
<1>12. CASE Interrupt
  BY <1>12 DEF Interrupt
<1>13. CASE UNCHANGED vars
  BY <1>13 DEF vars, newest
<1> QED
  BY <1>1, <1>2, <1>3, <1>4, <1>5, <1>6, <1>7, <1>8, <1>9, <1>10, <1>11, <1>12, <1>13
  DEF Next, Analyzer, Collector

\* A saved trace is that of its replay, whatever was interrupted before,
\* whatever else happens on the host and however much the buffer holds.
THEOREM TracesOfTheirReplay == Spec => []TraceIsOfTheReplay
<1>1. Init => TraceInv
  BY DEF Init, TraceInv, TraceIsOfTheReplay
<1>2. TraceInv => TraceIsOfTheReplay
  BY DEF TraceInv
<1> QED BY <1>1, <1>2, TraceStep, TypeInvariant, PTL DEF Spec

-----------------------------------------------------------------------------
(* Rows are of this attempt: there is one for every testcase before the    *)
(* one under way, and each of those was replayed on the way.               *)

RowsInv ==
  /\ rows \in Seq({ rows[n] : n \in 1..(testcase - 1) })
  /\ Len(rows) = testcase - 1
  /\ root => 1..(testcase - 1) \subseteq replayed
  /\ root /\ step = "score" => testcase \in replayed

LEMMA RowsStep == TypeInv /\ RowsInv /\ [Next]_vars => RowsInv'
<1> SUFFICES ASSUME TypeInv, RowsInv, [Next]_vars PROVE RowsInv'
  OBVIOUS
<1> USE DEF kernel, analysis
<1>1. ASSUME UNCHANGED <<rows, testcase, replayed, root>>, step' # "score"
      PROVE  RowsInv'
  BY <1>1 DEF RowsInv
<1>2. CASE StartCollector
  BY <1>2 DEF StartCollector, Step, collector_traces, RowsInv
<1>3. CASE Emit \/ UNCHANGED vars
  BY <1>3 DEF Emit, vars, RowsInv
<1>4. CASE TracingOff \/ ClearTrace \/ Replay \/ CommandEnds \/ TimeoutEnds
           \/ StopTracing \/ WriteReport
  <2>1. UNCHANGED <<rows, testcase, replayed, root>> /\ step' # "score"
    BY <1>4 DEF TracingOff, ClearTrace, Replay, CommandEnds, TimeoutEnds, StopTracing,
                WriteReport, Step
  <2> QED BY <1>1, <2>1
<1>5. CASE SaveTrace
  BY <1>5 DEF SaveTrace, Step, RowsInv
<1>6. CASE Score
  <2>1. CASE trace_files[testcase] = NoTrace
    <3>1. UNCHANGED <<rows, testcase, replayed, root>> /\ step' # "score"
      BY <1>6, <2>1 DEF Score
    <3> QED BY <1>1, <3>1
  <2>2. CASE trace_files[testcase] # NoTrace
    <3>1. PICK r : rows' = Append(rows, r)
      BY <1>6, <2>2 DEF Score
    <3>2. /\ testcase' = testcase + 1 /\ step' = "next"
          /\ replayed' = replayed /\ root' = root /\ testcase \in Nat \ {0}
          /\ root => testcase \in replayed
      BY <1>6, <2>2 DEF Score, TypeInv, TypeOK, RowsInv
    <3>3. /\ Len(rows') = testcase
          /\ \A n \in 1..testcase : rows'[n] = IF n = testcase THEN r ELSE rows[n]
      BY <3>1, <3>2, AppendProperties DEF RowsInv
    <3>4. rows' \in Seq({ rows'[n] : n \in 1..testcase })
      <4> DEFINE S == { rows[n] : n \in 1..(testcase - 1) } \union {r}
      <4>1. rows \in Seq(S)
        BY DEF RowsInv
      <4>2. rows' \in Seq(S)
        BY <3>1, <4>1
      <4> QED BY <3>2, <3>3, <4>2
    <3>5. root => 1..testcase \subseteq replayed
      BY <3>2 DEF RowsInv
    <3> QED BY <3>2, <3>3, <3>4, <3>5 DEF RowsInv
  <2> QED BY <2>1, <2>2
<1>7. CASE Interrupt
  BY <1>7, EmptySeq DEF Interrupt, RowsInv
<1> QED
  BY <1>2, <1>3, <1>4, <1>5, <1>6, <1>7 DEF Next, Analyzer, Collector

\* With a collector that traces, no row is of a trace an earlier analysis
\* left, for every queue and every history of interruptions.
THEOREM RowsOfThisAttempt == Spec => []RowsAreOfThisAttempt
<1>1. Init => RowsInv
  BY EmptySeq DEF Init, RowsInv
<1>2. RowsInv => RowsAreOfThisAttempt
  BY DEF RowsInv, RowsAreOfThisAttempt
<1> QED BY <1>1, <1>2, RowsStep, TypeInvariant, PTL DEF Spec
-----------------------------------------------------------------------------
(* Sums.                                                                   *)

\* A set of naturals has a least element.
LEMMA LeastNatural ==
  ASSUME NEW S, S \subseteq Nat, S # {}
  PROVE  \E x \in S : \A y \in S : x <= y
<1>1. PICK x \in S : \A y \in S : <<y, x>> \notin OpToRel(<, Nat)
  BY NatLessThanWellFounded, WFMin
<1>2. \A y \in S : ~(y < x)
  BY <1>1 DEF OpToRel
<1> QED BY <1>2

\* g is a running sum of numbers.
Sums(g, numbers) ==
  g = [ n \in 0..Len(numbers) |-> IF n = 0 THEN 0 ELSE g[n - 1] + numbers[n] ]

\* There is one running sum at most, so that total is the last of it.
LEMMA TotalOf ==
  ASSUME NEW numbers, Len(numbers) \in Nat, NEW g, Sums(g, numbers)
  PROVE  total(numbers) = g[Len(numbers)]
<1> DEFINE N == Len(numbers)
           sum == CHOOSE f : f = [ n \in 0..N |-> IF n = 0 THEN 0 ELSE f[n - 1] + numbers[n] ]
<1>1. \E f : f = [ n \in 0..N |-> IF n = 0 THEN 0 ELSE f[n - 1] + numbers[n] ]
  BY DEF Sums
<1>2. sum = [ n \in 0..N |-> IF n = 0 THEN 0 ELSE sum[n - 1] + numbers[n] ]
  BY <1>1
<1>3. total(numbers) = sum[N]
  BY DEF total
<1> HIDE DEF sum
<1>4. ASSUME NEW m \in 0..N, sum[m] # g[m] PROVE FALSE
  <2> DEFINE wrong == { n \in 0..N : sum[n] # g[n] }
  <2>1. wrong \subseteq Nat /\ wrong # {}
    BY <1>4
  <2>2. PICK n \in wrong : \A k \in wrong : n <= k
    <3> HIDE DEF wrong
    <3> QED BY <2>1, LeastNatural
  <2>3. CASE n = 0
    <3>1. sum[0] = 0 /\ g[0] = 0
      BY <1>2 DEF Sums
    <3> QED BY <2>2, <2>3, <3>1
  <2>4. CASE n # 0
    <3>1. n \in 0..N /\ n - 1 \in 0..N /\ n - 1 \notin wrong
      BY <2>2, <2>4
    <3>2. sum[n] = sum[n - 1] + numbers[n]
      BY <1>2, <2>4, <3>1
    <3>3. g[n] = g[n - 1] + numbers[n]
      BY <2>4, <3>1 DEF Sums
    <3>4. sum[n - 1] = g[n - 1]
      BY <3>1
    <3> QED BY <2>2, <3>2, <3>3, <3>4
  <2> QED BY <2>3, <2>4
<1> QED BY <1>3, <1>4

-----------------------------------------------------------------------------
(* What is counted is finite.                                              *)

LEMMA FiniteImage ==
  ASSUME NEW S, IsFiniteSet(S), NEW f, DOMAIN f = S
  PROVE  IsFiniteSet({ f[x] : x \in S })
<1> DEFINE T == { f[x] : x \in S }
           g == [ x \in S |-> f[x] ]
<1>1. g \in Surjection(S, T)
  BY DEF Surjection
<1> HIDE DEF g, T
<1>2. IsFiniteSet(T)
  BY <1>1, FS_Surjection
<1> QED BY <1>2 DEF T

\* A summary, of which only the sets are looked at.
FiniteSummary(s) ==
  /\ IsFiniteSet(s.events)
  /\ IsFiniteSet(s.event_pairs)
  /\ \A k \in Subsystems : s.subsystem_functions[k] = s.events \intersect PREFIXES[k]

LEMMA SummaryOfTrace ==
  ASSUME NEW lines \in Seq(Lines)
  PROVE  FiniteSummary(summarize(parse_trace(lines)))
<1> DEFINE K == { i \in DOMAIN lines : lines[i] \in Events }
           N == Cardinality(K)
           funcs == parse_trace(lines)
           next == [ i \in 1..(N - 1) |-> <<funcs[i], funcs[i + 1]>> ]
<1>1. N \in Nat
  <2>1. K \subseteq 1..Len(lines) /\ Len(lines) \in Nat
    OBVIOUS
  <2>2. IsFiniteSet(K)
    BY <2>1, FS_Interval, FS_Subset
  <2> QED BY <2>2, FS_CardinalityType
<1>2. DOMAIN funcs = 1..N /\ Len(funcs) = N
  <2>1. funcs = [ n \in 1..N |-> funcs[n] ]
    BY DEF parse_trace, at
  <2> HIDE DEF funcs, K, N
  <2>2. funcs \in Seq({ funcs[n] : n \in 1..N })
    BY <2>1, <1>1, IsASeq
  <2>3. DOMAIN funcs = 1..N
    BY <2>1
  <2>4. DOMAIN funcs = 1..Len(funcs) /\ Len(funcs) \in Nat
    BY <2>2, LenProperties
  <2> QED BY <2>3, <2>4, <1>1
<1> HIDE DEF K, N, funcs
<1>3. IsFiniteSet(1..N) /\ IsFiniteSet(1..(N - 1))
  BY <1>1, FS_Interval
<1>4. IsFiniteSet({ funcs[i] : i \in 1..N })
  BY <1>2, <1>3, FiniteImage
<1>5. IsFiniteSet({ next[i] : i \in 1..(N - 1) })
  <2>1. DOMAIN next = 1..(N - 1)
    OBVIOUS
  <2> HIDE DEF next
  <2> QED BY <2>1, <1>3, FiniteImage
<1>6. summarize(funcs).events = { funcs[i] : i \in 1..N }
  BY <1>2 DEF summarize, ToSet
<1>7. summarize(funcs).event_pairs = { next[i] : i \in 1..(N - 1) }
  BY <1>2 DEF summarize
<1>8. \A k \in Subsystems :
        summarize(funcs).subsystem_functions[k] = summarize(funcs).events \intersect PREFIXES[k]
  BY DEF summarize
<1> QED BY <1>4, <1>5, <1>6, <1>7, <1>8 DEF FiniteSummary, funcs
-----------------------------------------------------------------------------
(* Scores: what the analysis has seen is what the traces scored so far     *)
(* show, and every row is scored against the traces before it.             *)

Shown(files, n) == summarize(parse_trace(files[n]))

EventsAfter(files, n) == UNION { Shown(files, m).events : m \in 1..n }
PairsAfter(files, n) == UNION { Shown(files, m).event_pairs : m \in 1..n }
FunctionsAfter(files, n, s) == UNION { Shown(files, m).subsystem_functions[s] : m \in 1..n }

SeenAfter(files, n) ==
  [ events |-> EventsAfter(files, n),
    pairs |-> PairsAfter(files, n),
    subsystems |-> [ s \in Subsystems |-> FunctionsAfter(files, n, s) ] ]

ScoredInv ==
  /\ seen = SeenAfter(trace_files, testcase - 1)
  /\ \A n \in 1..(testcase - 1) :
       /\ trace_files[n] # NoTrace
       /\ rows[n] = row(Shown(trace_files, n), SeenAfter(trace_files, n - 1))

LEMMA NothingSeenFirst ==
  ASSUME NEW files PROVE SeenAfter(files, 0) = NothingSeen
<1>1. 1..0 = {}
  OBVIOUS
<1>2. EventsAfter(files, 0) = {}
  BY <1>1 DEF EventsAfter
<1>3. PairsAfter(files, 0) = {}
  BY <1>1 DEF PairsAfter
<1>4. \A s : FunctionsAfter(files, 0, s) = {}
  BY <1>1 DEF FunctionsAfter
<1> QED BY <1>2, <1>3, <1>4 DEF SeenAfter, NothingSeen

LEMMA UnionWithNext ==
  ASSUME NEW f, NEW n \in Nat \ {0}
  PROVE  UNION { f[m] : m \in 1..n } = (UNION { f[m] : m \in 1..(n - 1) }) \union f[n]
<1>1. \A m : m \in 1..n <=> m \in 1..(n - 1) \/ m = n
  OBVIOUS
<1>2. ASSUME NEW D, NEW x PROVE x \in UNION { f[m] : m \in D } <=> \E m \in D : x \in f[m]
  OBVIOUS
<1>3. ASSUME NEW x
      PROVE  x \in UNION { f[m] : m \in 1..n }
               <=> x \in UNION { f[m] : m \in 1..(n - 1) } \/ x \in f[n]
  <2>1. x \in UNION { f[m] : m \in 1..n } <=> \E m \in 1..n : x \in f[m]
    BY <1>2
  <2>2. x \in UNION { f[m] : m \in 1..(n - 1) } <=> \E m \in 1..(n - 1) : x \in f[m]
    BY <1>2
  <2>3. (\E m \in 1..n : x \in f[m]) <=> (\E m \in 1..(n - 1) : x \in f[m]) \/ x \in f[n]
    BY <1>1
  <2> QED BY <2>1, <2>2, <2>3
<1> DEFINE all == UNION { f[m] : m \in 1..n }
           rest == UNION { f[m] : m \in 1..(n - 1) }
<1>4. \A x : x \in all <=> x \in rest \/ x \in f[n]
  BY <1>3
<1>5. all = rest \union f[n]
  <2> HIDE DEF all, rest
  <2> QED BY <1>4
<1> QED BY <1>5

LEMMA SeenWithNext ==
  ASSUME NEW files, NEW n \in Nat \ {0}
  PROVE  seen_with(SeenAfter(files, n - 1), Shown(files, n)) = SeenAfter(files, n)
<1> DEFINE before == SeenAfter(files, n - 1)
           next == Shown(files, n)
<1>1. EventsAfter(files, n) = EventsAfter(files, n - 1) \union next.events
  <2> DEFINE f == [ m \in 1..n |-> Shown(files, m).events ]
  <2>1. \A m \in 1..n : f[m] = Shown(files, m).events
    OBVIOUS
  <2> HIDE DEF f
  <2>2. UNION { f[m] : m \in 1..n } = (UNION { f[m] : m \in 1..(n - 1) }) \union f[n]
    BY UnionWithNext
  <2>3. { f[m] : m \in 1..n } = { Shown(files, m).events : m \in 1..n }
    BY <2>1
  <2>4. { f[m] : m \in 1..(n - 1) } = { Shown(files, m).events : m \in 1..(n - 1) }
    BY <2>1
  <2> QED BY <2>1, <2>2, <2>3, <2>4 DEF EventsAfter
<1>2. PairsAfter(files, n) = PairsAfter(files, n - 1) \union next.event_pairs
  <2> DEFINE f == [ m \in 1..n |-> Shown(files, m).event_pairs ]
  <2>1. \A m \in 1..n : f[m] = Shown(files, m).event_pairs
    OBVIOUS
  <2> HIDE DEF f
  <2>2. UNION { f[m] : m \in 1..n } = (UNION { f[m] : m \in 1..(n - 1) }) \union f[n]
    BY UnionWithNext
  <2>3. { f[m] : m \in 1..n } = { Shown(files, m).event_pairs : m \in 1..n }
    BY <2>1
  <2>4. { f[m] : m \in 1..(n - 1) } = { Shown(files, m).event_pairs : m \in 1..(n - 1) }
    BY <2>1
  <2> QED BY <2>1, <2>2, <2>3, <2>4 DEF PairsAfter
<1>3. ASSUME NEW s
      PROVE  FunctionsAfter(files, n, s)
               = FunctionsAfter(files, n - 1, s) \union next.subsystem_functions[s]
  <2> DEFINE f == [ m \in 1..n |-> Shown(files, m).subsystem_functions[s] ]
  <2>1. \A m \in 1..n : f[m] = Shown(files, m).subsystem_functions[s]
    OBVIOUS
  <2> HIDE DEF f
  <2>2. UNION { f[m] : m \in 1..n } = (UNION { f[m] : m \in 1..(n - 1) }) \union f[n]
    BY UnionWithNext
  <2>3. { f[m] : m \in 1..n } = { Shown(files, m).subsystem_functions[s] : m \in 1..n }
    BY <2>1
  <2>4. { f[m] : m \in 1..(n - 1) } = { Shown(files, m).subsystem_functions[s] : m \in 1..(n - 1) }
    BY <2>1
  <2> QED BY <2>1, <2>2, <2>3, <2>4 DEF FunctionsAfter
<1>4. /\ before.events = EventsAfter(files, n - 1)
      /\ before.pairs = PairsAfter(files, n - 1)
      /\ \A s \in Subsystems : before.subsystems[s] = FunctionsAfter(files, n - 1, s)
  BY DEF SeenAfter
<1> HIDE DEF before, next
<1>5. [ s \in Subsystems |-> before.subsystems[s] \union next.subsystem_functions[s] ]
        = [ s \in Subsystems |-> FunctionsAfter(files, n, s) ]
  BY <1>3, <1>4
<1>6. seen_with(before, next) = SeenAfter(files, n)
  BY <1>1, <1>2, <1>4, <1>5 DEF SeenAfter, seen_with
<1> QED BY <1>6 DEF before, next

LEMMA SeenOfSameFiles ==
  ASSUME NEW n, NEW files, NEW other, \A m \in 1..n : files[m] = other[m]
  PROVE  /\ SeenAfter(files, n) = SeenAfter(other, n)
         /\ \A m \in 1..n : Shown(files, m) = Shown(other, m)
<1>1. \A m \in 1..n : Shown(files, m) = Shown(other, m)
  BY DEF Shown
<1>2. { Shown(files, m).events : m \in 1..n } = { Shown(other, m).events : m \in 1..n }
  BY <1>1
<1>3. { Shown(files, m).event_pairs : m \in 1..n } = { Shown(other, m).event_pairs : m \in 1..n }
  BY <1>1
<1>4. ASSUME NEW s
      PROVE  FunctionsAfter(files, n, s) = FunctionsAfter(other, n, s)
  <2>1. { Shown(files, m).subsystem_functions[s] : m \in 1..n }
          = { Shown(other, m).subsystem_functions[s] : m \in 1..n }
    BY <1>1
  <2> QED BY <2>1 DEF FunctionsAfter
<1>5. EventsAfter(files, n) = EventsAfter(other, n) /\ PairsAfter(files, n) = PairsAfter(other, n)
  BY <1>2, <1>3 DEF EventsAfter, PairsAfter
<1> QED BY <1>1, <1>4, <1>5 DEF SeenAfter

\* Traces that are scored already are not touched any more.
LEMMA ScoredStay ==
  ASSUME TypeInv, ScoredInv, UNCHANGED <<seen, rows, testcase>>,
         \A n \in 1..(testcase - 1) : trace_files'[n] = trace_files[n]
  PROVE  ScoredInv'
<1>1. testcase \in Nat
  BY BoundsAssumption DEF TypeInv, TypeOK
<1>2. SeenAfter(trace_files', testcase - 1) = SeenAfter(trace_files, testcase - 1)
  BY SeenOfSameFiles
<1>3. ASSUME NEW n \in 1..(testcase - 1)
      PROVE  /\ Shown(trace_files', n) = Shown(trace_files, n)
             /\ SeenAfter(trace_files', n - 1) = SeenAfter(trace_files, n - 1)
  <2>1. \A m \in 1..(n - 1) : trace_files'[m] = trace_files[m]
    BY <1>1, <1>3
  <2>2. SeenAfter(trace_files', n - 1) = SeenAfter(trace_files, n - 1)
    BY <2>1, SeenOfSameFiles
  <2>3. Shown(trace_files', n) = Shown(trace_files, n)
    BY <1>3 DEF Shown
  <2> QED BY <2>2, <2>3
<1> QED BY <1>2, <1>3 DEF ScoredInv

LEMMA ScoredStep == TypeInv /\ RowsInv /\ ScoredInv /\ [Next]_vars => ScoredInv'
<1> SUFFICES ASSUME TypeInv, RowsInv, ScoredInv, [Next]_vars PROVE ScoredInv'
  OBVIOUS
<1> USE DEF kernel, analysis
<1>1. CASE Emit \/ StartCollector \/ TracingOff \/ ClearTrace \/ Replay \/ CommandEnds
           \/ TimeoutEnds \/ StopTracing \/ WriteReport \/ UNCHANGED vars
  <2>1. UNCHANGED <<seen, rows, testcase, trace_files>>
    BY <1>1 DEF Emit, StartCollector, TracingOff, ClearTrace, Replay, CommandEnds,
                TimeoutEnds, StopTracing, WriteReport, vars
  <2> QED BY <2>1, ScoredStay
<1>2. CASE SaveTrace
  <2>1. UNCHANGED <<seen, rows, testcase>> /\ testcase \in Nat
    BY <1>2, BoundsAssumption DEF SaveTrace, TypeInv, TypeOK
  <2>2. \A n \in 1..(testcase - 1) : trace_files'[n] = trace_files[n]
    BY <1>2, <2>1, BoundsAssumption DEF SaveTrace, TypeInv, TypeOK
  <2> QED BY <2>1, <2>2, ScoredStay
<1>3. CASE Score
  <2>1. CASE trace_files[testcase] = NoTrace
    <3>1. UNCHANGED <<seen, rows, testcase, trace_files>>
      BY <1>3, <2>1 DEF Score
    <3> QED BY <3>1, ScoredStay
  <2>2. CASE trace_files[testcase] # NoTrace
    <3> DEFINE t == testcase
               now == row(Shown(trace_files, t), seen)
    <3>1. /\ trace_files' = trace_files /\ testcase' = t + 1 /\ t \in Nat \ {0}
          /\ seen' = seen_with(seen, Shown(trace_files, t))
          /\ rows' = Append(rows, now)
      BY <1>3, <2>2, BoundsAssumption DEF Score, Shown, TypeInv, TypeOK
    <3>2. seen = SeenAfter(trace_files, t - 1)
      BY DEF ScoredInv
    <3>3. seen' = SeenAfter(trace_files, t)
      BY <3>1, <3>2, SeenWithNext
    <3>4. \A n \in 1..t : rows'[n] = IF n = t THEN now ELSE rows[n]
      <4> HIDE DEF now
      <4> QED BY <3>1, AppendProperties DEF RowsInv
    <3>5. ASSUME NEW n \in 1..t
          PROVE  /\ trace_files[n] # NoTrace
                 /\ rows'[n] = row(Shown(trace_files, n), SeenAfter(trace_files, n - 1))
      <4>1. CASE n = t
        BY <4>1, <3>2, <3>4, <2>2
      <4>2. CASE n # t
        <5>1. n \in 1..(t - 1)
          BY <4>2, <3>1
        <5> QED BY <5>1, <4>2, <3>4 DEF ScoredInv
      <4> QED BY <4>1, <4>2
    <3>6. (t + 1) - 1 = t
      BY <3>1
    <3> QED BY <3>1, <3>3, <3>5, <3>6 DEF ScoredInv
  <2> QED BY <2>1, <2>2
<1>4. CASE Interrupt
  <2>1. testcase' = 1 /\ seen' = NothingSeen
    BY <1>4 DEF Interrupt
  <2>2. 1 - 1 = 0 /\ 1..0 = {}
    OBVIOUS
  <2>3. seen' = SeenAfter(trace_files', 0)
    BY <2>1, NothingSeenFirst
  <2> QED BY <2>1, <2>2, <2>3 DEF ScoredInv
<1> QED
  BY <1>1, <1>2, <1>3, <1>4 DEF Next, Analyzer, Collector

-----------------------------------------------------------------------------
(* The points of a trace are what it adds to the worth of all traces.      *)

WorthOf(known) ==
  10 * Cardinality(known.events)
  + subsystem_points([ s \in Subsystems |-> known.events \intersect PREFIXES[s] ])
  + 5 * Cardinality(known.pairs)

LEMMA CountOfUnion ==
  ASSUME NEW S, IsFiniteSet(S), NEW T, IsFiniteSet(T)
  PROVE  /\ IsFiniteSet(S \union T)
         /\ Cardinality(S) \in Nat /\ Cardinality(T \ S) \in Nat
         /\ Cardinality(S \union T) = Cardinality(S) + Cardinality(T \ S)
<1>1. IsFiniteSet(T \ S)
  BY FS_Difference
<1> DEFINE new == T \ S
<1>2. S \union T = S \union new /\ S \intersect new = {}
  OBVIOUS
<1>3. /\ IsFiniteSet(S \union new)
      /\ Cardinality(S \union new)
           = Cardinality(S) + Cardinality(new) - Cardinality(S \intersect new)
  BY <1>1, FS_Union
<1>4. Cardinality(S) \in Nat /\ Cardinality(new) \in Nat
  BY <1>1, FS_CardinalityType
<1>5. Cardinality(S \intersect new) = 0
  BY <1>2, FS_EmptySet
<1>6. Cardinality(S \union new) = Cardinality(S) + Cardinality(new)
  <2> HIDE DEF new
  <2> QED BY <1>3, <1>4, <1>5
<1>7. IsFiniteSet(S \union T) /\ Cardinality(S \union T) = Cardinality(S) + Cardinality(new)
  <2> HIDE DEF new
  <2> QED BY <1>2, <1>3, <1>6
<1> QED BY <1>4, <1>7

\* The points of subsystems, as arithmetic.
LEMMA PointsOf ==
  ASSUME NEW functions
  PROVE  subsystem_points(functions)
           = 25 * Cardinality(functions["cgroup"]) + 20 * Cardinality(functions["vfs"])
             + 20 * Cardinality(functions["socket_netlink"])
             + 15 * Cardinality(functions["proc_sysfs"])
BY DEF subsystem_points, Points

LEMMA PointsAddUp ==
  ASSUME NEW all, NEW old, NEW new,
         \A s \in Subsystems :
           /\ Cardinality(old[s]) \in Nat /\ Cardinality(new[s]) \in Nat
           /\ Cardinality(all[s]) = Cardinality(old[s]) + Cardinality(new[s])
  PROVE  /\ subsystem_points(old) \in Nat /\ subsystem_points(new) \in Nat
         /\ subsystem_points(all) = subsystem_points(old) + subsystem_points(new)
<1> DEFINE a(s) == Cardinality(all[s])
           o(s) == Cardinality(old[s])
           n(s) == Cardinality(new[s])
<1>1. /\ subsystem_points(all) = 25 * a("cgroup") + 20 * a("vfs")
                                 + 20 * a("socket_netlink") + 15 * a("proc_sysfs")
      /\ subsystem_points(old) = 25 * o("cgroup") + 20 * o("vfs")
                                 + 20 * o("socket_netlink") + 15 * o("proc_sysfs")
      /\ subsystem_points(new) = 25 * n("cgroup") + 20 * n("vfs")
                                 + 20 * n("socket_netlink") + 15 * n("proc_sysfs")
  BY PointsOf
<1>2. \A s \in Subsystems : o(s) \in Nat /\ n(s) \in Nat /\ a(s) = o(s) + n(s)
  OBVIOUS
<1> HIDE DEF a, o, n
<1>3. /\ o("cgroup") \in Nat /\ n("cgroup") \in Nat /\ a("cgroup") = o("cgroup") + n("cgroup")
      /\ o("vfs") \in Nat /\ n("vfs") \in Nat /\ a("vfs") = o("vfs") + n("vfs")
      /\ o("socket_netlink") \in Nat /\ n("socket_netlink") \in Nat
      /\ a("socket_netlink") = o("socket_netlink") + n("socket_netlink")
      /\ o("proc_sysfs") \in Nat /\ n("proc_sysfs") \in Nat
      /\ a("proc_sysfs") = o("proc_sysfs") + n("proc_sysfs")
  BY <1>2 DEF Subsystems
<1> QED BY <1>1, <1>3

LEMMA WorthGrows ==
  ASSUME NEW known, IsFiniteSet(known.events), IsFiniteSet(known.pairs),
         NEW summary, FiniteSummary(summary)
  PROVE  /\ IsFiniteSet(seen_with(known, summary).events)
         /\ IsFiniteSet(seen_with(known, summary).pairs)
         /\ WorthOf(known) \in Nat /\ score(summary, known) \in Nat
         /\ WorthOf(seen_with(known, summary)) = WorthOf(known) + score(summary, known)
<1> DEFINE E == known.events
           F == summary.events
           P == known.pairs
           Q == summary.event_pairs
           all == [ s \in Subsystems |-> (E \union F) \intersect PREFIXES[s] ]
           old == [ s \in Subsystems |-> E \intersect PREFIXES[s] ]
           new == [ s \in Subsystems |-> summary.subsystem_functions[s] \ E ]
<1>1. IsFiniteSet(E) /\ IsFiniteSet(F) /\ IsFiniteSet(P) /\ IsFiniteSet(Q)
  BY DEF FiniteSummary
<1>2. seen_with(known, summary).events = E \union F /\ seen_with(known, summary).pairs = P \union Q
  BY DEF seen_with
<1>3. ASSUME NEW s \in Subsystems
      PROVE  /\ Cardinality(old[s]) \in Nat /\ Cardinality(new[s]) \in Nat
             /\ Cardinality(all[s]) = Cardinality(old[s]) + Cardinality(new[s])
  <2> DEFINE A == E \intersect PREFIXES[s]
             B == F \intersect PREFIXES[s]
  <2>1. old[s] = A /\ new[s] = B \ A /\ all[s] = A \union B
    <3>1. summary.subsystem_functions[s] = B
      BY DEF FiniteSummary
    <3>2. B \ E = B \ A
      OBVIOUS
    <3> QED BY <3>1, <3>2
  <2>2. IsFiniteSet(A) /\ IsFiniteSet(B)
    <3>1. A \subseteq E /\ B \subseteq F
      OBVIOUS
    <3> QED BY <3>1, <1>1, FS_Subset
  <2>3. /\ Cardinality(A) \in Nat /\ Cardinality(B \ A) \in Nat
        /\ Cardinality(A \union B) = Cardinality(A) + Cardinality(B \ A)
    <3> HIDE DEF A, B
    <3> QED BY <2>2, CountOfUnion
  <2> HIDE DEF A, B, old, new, all
  <2> QED BY <2>1, <2>3
<1>4. WorthOf(known) = 10 * Cardinality(E) + subsystem_points(old) + 5 * Cardinality(P)
  BY DEF WorthOf
<1>5. WorthOf(seen_with(known, summary))
        = 10 * Cardinality(E \union F) + subsystem_points(all) + 5 * Cardinality(P \union Q)
  BY <1>2 DEF WorthOf
<1>6. score(summary, known)
        = 10 * Cardinality(F \ E) + subsystem_points(new) + 5 * Cardinality(Q \ P)
  BY DEF score
<1> HIDE DEF E, F, P, Q, all, old, new
<1>7. /\ subsystem_points(old) \in Nat /\ subsystem_points(new) \in Nat
      /\ subsystem_points(all) = subsystem_points(old) + subsystem_points(new)
  BY <1>3, PointsAddUp
<1>8. /\ IsFiniteSet(E \union F) /\ Cardinality(E) \in Nat /\ Cardinality(F \ E) \in Nat
      /\ Cardinality(E \union F) = Cardinality(E) + Cardinality(F \ E)
  BY <1>1, CountOfUnion
<1>9. /\ IsFiniteSet(P \union Q) /\ Cardinality(P) \in Nat /\ Cardinality(Q \ P) \in Nat
      /\ Cardinality(P \union Q) = Cardinality(P) + Cardinality(Q \ P)
  BY <1>1, CountOfUnion
<1>10. WorthOf(known) \in Nat /\ score(summary, known) \in Nat
  BY <1>4, <1>6, <1>7, <1>8, <1>9
<1>11. WorthOf(seen_with(known, summary)) = WorthOf(known) + score(summary, known)
  BY <1>4, <1>5, <1>6, <1>7, <1>8, <1>9
<1> QED BY <1>2, <1>8, <1>9, <1>10, <1>11
-----------------------------------------------------------------------------
(* The aggregate score of a report.                                        *)

\* The traces of the rows are there, and what each shows is finite.
LEMMA RowsShow ==
  ASSUME TypeInv, RowsInv, ScoredInv
  PROVE  /\ Len(rows) \in Nat /\ DOMAIN rows = 1..Len(rows) /\ testcase - 1 = Len(rows)
         /\ \A n \in 1..Len(rows) :
              /\ rows[n] = row(Shown(trace_files, n), SeenAfter(trace_files, n - 1))
              /\ FiniteSummary(Shown(trace_files, n))
<1>1. testcase \in Nat /\ testcase <= Queue + 1
  BY BoundsAssumption DEF TypeInv, TypeOK
<1>2. Len(rows) \in Nat /\ DOMAIN rows = 1..Len(rows) /\ testcase - 1 = Len(rows)
  BY LenProperties DEF RowsInv
<1>3. ASSUME NEW n \in 1..Len(rows)
      PROVE  /\ rows[n] = row(Shown(trace_files, n), SeenAfter(trace_files, n - 1))
             /\ FiniteSummary(Shown(trace_files, n))
  <2>1. n \in 1..(testcase - 1) /\ n \in 1..Queue
    BY <1>1, <1>2, BoundsAssumption
  <2>2. trace_files[n] # NoTrace
        /\ rows[n] = row(Shown(trace_files, n), SeenAfter(trace_files, n - 1))
    BY <2>1 DEF ScoredInv
  <2>3. trace_files[n] \in Seq(Lines) \union {NoTrace}
    BY <2>1 DEF TypeInv, TypeOK
  <2>4. FiniteSummary(Shown(trace_files, n))
    BY <2>2, <2>3, SummaryOfTrace DEF Shown
  <2> QED BY <2>2, <2>4
<1> QED BY <1>2, <1>3

LEMMA SeenFinite ==
  ASSUME NEW files, NEW n \in Nat, \A m \in 1..n : FiniteSummary(Shown(files, m))
  PROVE  IsFiniteSet(SeenAfter(files, n).events) /\ IsFiniteSet(SeenAfter(files, n).pairs)
<1>1. IsFiniteSet(1..n)
  BY FS_Interval
<1>2. IsFiniteSet(EventsAfter(files, n))
  <2> DEFINE f == [ m \in 1..n |-> Shown(files, m).events ]
             T == { f[m] : m \in 1..n }
  <2>1. \A m \in 1..n : IsFiniteSet(f[m])
    BY DEF FiniteSummary
  <2>2. DOMAIN f = 1..n
    OBVIOUS
  <2>3. { Shown(files, m).events : m \in 1..n } = T
    OBVIOUS
  <2> HIDE DEF f
  <2>4. IsFiniteSet(T)
    BY <1>1, <2>2, FiniteImage
  <2>5. \A S \in T : IsFiniteSet(S)
    BY <2>1
  <2> HIDE DEF T
  <2>6. IsFiniteSet(UNION T)
    BY <2>4, <2>5, FS_UNION
  <2> QED BY <2>3, <2>6 DEF EventsAfter
<1>3. IsFiniteSet(PairsAfter(files, n))
  <2> DEFINE f == [ m \in 1..n |-> Shown(files, m).event_pairs ]
             T == { f[m] : m \in 1..n }
  <2>1. \A m \in 1..n : IsFiniteSet(f[m])
    BY DEF FiniteSummary
  <2>2. DOMAIN f = 1..n
    OBVIOUS
  <2>3. { Shown(files, m).event_pairs : m \in 1..n } = T
    OBVIOUS
  <2> HIDE DEF f
  <2>4. IsFiniteSet(T)
    BY <1>1, <2>2, FiniteImage
  <2>5. \A S \in T : IsFiniteSet(S)
    BY <2>1
  <2> HIDE DEF T
  <2>6. IsFiniteSet(UNION T)
    BY <2>4, <2>5, FS_UNION
  <2> QED BY <2>3, <2>6 DEF PairsAfter
<1> QED BY <1>2, <1>3 DEF SeenAfter

\* The worth of the traces so far is a running sum of the scores.
LEMMA ScoresAddUp ==
  ASSUME TypeInv, RowsInv, ScoredInv
  PROVE  total([ i \in DOMAIN rows |-> rows[i].score ]) = WorthOf(SeenAfter(trace_files, Len(rows)))
<1> DEFINE N == Len(rows)
           numbers == [ i \in DOMAIN rows |-> rows[i].score ]
           known(n) == SeenAfter(trace_files, n)
           g == [ n \in 0..N |-> WorthOf(known(n)) ]
<1>1. /\ N \in Nat /\ DOMAIN rows = 1..N
      /\ \A n \in 1..N : rows[n] = row(Shown(trace_files, n), known(n - 1))
      /\ \A n \in 1..N : FiniteSummary(Shown(trace_files, n))
  BY RowsShow
<1>2. ASSUME NEW n \in 1..N
      PROVE  numbers[n] = score(Shown(trace_files, n), known(n - 1))
  <2>1. row(Shown(trace_files, n), known(n - 1)).score = score(Shown(trace_files, n), known(n - 1))
    BY DEF row
  <2>2. numbers[n] = rows[n].score
    BY <1>1
  <2> HIDE DEF known, numbers
  <2> QED BY <1>1, <2>1, <2>2
<1>3. Len(numbers) = N
  <2>1. DOMAIN numbers = 1..N /\ numbers = [ i \in 1..N |-> rows[i].score ]
    BY <1>1
  <2> HIDE DEF numbers, N
  <2>2. numbers = [ i \in 1..N |-> numbers[i] ]
    BY <2>1
  <2>3. numbers \in Seq({ numbers[i] : i \in 1..N })
    BY <1>1, <2>2, IsASeq
  <2> QED BY <1>1, <2>1, <2>3, LenProperties
<1> HIDE DEF numbers
<1>4. WorthOf(known(0)) = 0
  <2>1. WorthOf(NothingSeen) = 0
    <3> DEFINE none == [ s \in Subsystems |-> NothingSeen.events \intersect PREFIXES[s] ]
    <3>1. \A s \in Subsystems : none[s] = {}
      BY DEF NothingSeen
    <3>2. Cardinality({}) = 0
      BY FS_EmptySet
    <3>3. /\ Cardinality(none["cgroup"]) = 0 /\ Cardinality(none["vfs"]) = 0
          /\ Cardinality(none["socket_netlink"]) = 0 /\ Cardinality(none["proc_sysfs"]) = 0
      BY <3>1, <3>2 DEF Subsystems
    <3>4. subsystem_points(none) = 0
      <4> HIDE DEF none
      <4>1. subsystem_points(none) = 25 * 0 + 20 * 0 + 20 * 0 + 15 * 0
        BY <3>3, PointsOf
      <4> QED BY <4>1
    <3>5. NothingSeen.events = {} /\ NothingSeen.pairs = {}
      BY DEF NothingSeen
    <3>6. WorthOf(NothingSeen) = 10 * 0 + 0 + 5 * 0
      BY <3>2, <3>4, <3>5 DEF WorthOf
    <3> QED BY <3>6
  <2> QED BY <2>1, NothingSeenFirst
<1>5. ASSUME NEW n \in 1..N
      PROVE  WorthOf(known(n)) = WorthOf(known(n - 1)) + numbers[n]
  <2>1. n \in Nat \ {0} /\ n - 1 \in Nat /\ \A m \in 1..(n - 1) : m \in 1..N
    BY <1>1
  <2>2. \A m \in 1..(n - 1) : FiniteSummary(Shown(trace_files, m))
    BY <1>1, <2>1
  <2>3. IsFiniteSet(known(n - 1).events) /\ IsFiniteSet(known(n - 1).pairs)
    BY <2>1, <2>2, SeenFinite
  <2>4. seen_with(known(n - 1), Shown(trace_files, n)) = known(n)
    BY <2>1, SeenWithNext
  <2> HIDE DEF known
  <2>5. WorthOf(seen_with(known(n - 1), Shown(trace_files, n)))
          = WorthOf(known(n - 1)) + score(Shown(trace_files, n), known(n - 1))
    BY <1>1, <2>3, WorthGrows
  <2> QED BY <1>2, <2>4, <2>5
<1>6. Sums(g, numbers)
  <2>1. ASSUME NEW n \in 0..N
        PROVE  g[n] = IF n = 0 THEN 0 ELSE g[n - 1] + numbers[n]
    <3>1. CASE n = 0
      BY <3>1, <1>4
    <3>2. CASE n # 0
      <4>1. n \in 1..N /\ n - 1 \in 0..N
        BY <3>2, <1>1
      <4>2. g[n - 1] = WorthOf(known(n - 1)) /\ g[n] = WorthOf(known(n))
        BY <4>1
      <4> HIDE DEF g, known
      <4> QED BY <3>2, <4>1, <4>2, <1>5
    <3> QED BY <3>1, <3>2
  <2>2. g = [ n \in 0..N |-> g[n] ]
    OBVIOUS
  <2> HIDE DEF g, N
  <2> QED BY <2>1, <2>2, <1>3 DEF Sums
<1>7. g[N] = WorthOf(known(N))
  BY <1>1
<1> HIDE DEF g
<1>8. total(numbers) = g[N]
  BY <1>1, <1>3, <1>6, TotalOf
<1> QED BY <1>7, <1>8 DEF numbers

\* What a set of traces is worth is what an analysis of them has seen.
LEMMA WorthOfTraces ==
  ASSUME NEW files, NEW n \in Nat, \A m \in 1..n : FiniteSummary(Shown(files, m))
  PROVE  LET traces == { files[m] : m \in 1..n }
             events == UNION { ToSet(parse_trace(t)) : t \in traces }
         IN /\ Worth(traces) = WorthOf(SeenAfter(files, n))
            /\ EventsAfter(files, n) = events
            /\ \A s \in Subsystems : FunctionsAfter(files, n, s) = events \intersect PREFIXES[s]
<1> DEFINE traces == { files[m] : m \in 1..n }
           events == UNION { ToSet(parse_trace(t)) : t \in traces }
           summaries == { summarize(parse_trace(t)) : t \in traces }
<1>1. summaries = { Shown(files, m) : m \in 1..n }
  BY DEF Shown
<1>2. UNION { s.events : s \in summaries } = EventsAfter(files, n)
  <2>1. { s.events : s \in summaries } = { Shown(files, m).events : m \in 1..n }
    BY <1>1
  <2> QED BY <2>1 DEF EventsAfter
<1>3. UNION { s.event_pairs : s \in summaries } = PairsAfter(files, n)
  <2>1. { s.event_pairs : s \in summaries } = { Shown(files, m).event_pairs : m \in 1..n }
    BY <1>1
  <2> QED BY <2>1 DEF PairsAfter
<1>4. EventsAfter(files, n) = events
  <2>1. \A m \in 1..n : Shown(files, m).events = ToSet(parse_trace(files[m]))
    BY DEF Shown, summarize
  <2>2. { Shown(files, m).events : m \in 1..n } = { ToSet(parse_trace(t)) : t \in traces }
    BY <2>1
  <2> QED BY <2>2 DEF EventsAfter
<1>5. ASSUME NEW s \in Subsystems
      PROVE  FunctionsAfter(files, n, s) = EventsAfter(files, n) \intersect PREFIXES[s]
  <2>1. \A m \in 1..n :
          Shown(files, m).subsystem_functions[s] = Shown(files, m).events \intersect PREFIXES[s]
    BY DEF FiniteSummary
  <2>2. \A x : x \in FunctionsAfter(files, n, s)
                 <=> \E m \in 1..n : x \in Shown(files, m).subsystem_functions[s]
    BY DEF FunctionsAfter
  <2>3. \A x : x \in EventsAfter(files, n) <=> \E m \in 1..n : x \in Shown(files, m).events
    BY DEF EventsAfter
  <2> QED BY <2>1, <2>2, <2>3
<1> HIDE DEF traces, events
<1>6. Worth(traces)
        = 10 * Cardinality(EventsAfter(files, n))
          + subsystem_points([ s \in Subsystems |-> EventsAfter(files, n) \intersect PREFIXES[s] ])
          + 5 * Cardinality(PairsAfter(files, n))
  BY <1>2, <1>3 DEF Worth
<1>7. Worth(traces) = WorthOf(SeenAfter(files, n))
  BY <1>6 DEF WorthOf, SeenAfter
<1> QED BY <1>4, <1>5, <1>7 DEF traces, events

\* What the last row says has been seen.
LEMMA LastRow ==
  ASSUME TypeInv, RowsInv, ScoredInv, rows # << >>
  PROVE  /\ Last(rows).total_seen_events = Cardinality(EventsAfter(trace_files, Len(rows)))
         /\ \A s \in Subsystems :
              Last(rows).total_seen[s] = Cardinality(FunctionsAfter(trace_files, Len(rows), s))
<1> DEFINE N == Len(rows)
           now == seen_with(SeenAfter(trace_files, N - 1), Shown(trace_files, N))
<1>1. N \in Nat /\ rows \in Seq({ rows[n] : n \in 1..(testcase - 1) })
  BY RowsShow DEF RowsInv
<1>2. N # 0
  BY <1>1, EmptySeq
<1>3. rows[N] = row(Shown(trace_files, N), SeenAfter(trace_files, N - 1))
  BY <1>1, <1>2, RowsShow
<1>4. Last(rows) = rows[N]
  BY DEF Last
<1>5. now = SeenAfter(trace_files, N)
  BY <1>1, <1>2, SeenWithNext
<1>6. /\ rows[N].total_seen_events = Cardinality(now.events)
      /\ \A s \in Subsystems : rows[N].total_seen[s] = Cardinality(now.subsystems[s])
  BY <1>3 DEF row
<1> HIDE DEF now
<1> QED BY <1>4, <1>5, <1>6 DEF SeenAfter

LEMMA WorthShown ==
  ASSUME TypeInv, RowsInv, ScoredInv
  PROVE  ScoreIsWorth
<1> SUFFICES ASSUME rows # << >>
             PROVE  LET traces == { trace_files[n] : n \in 1..Len(rows) }
                        events == UNION { ToSet(parse_trace(t)) : t \in traces }
                    IN /\ queue_row(rows).final_score = Worth(traces)
                       /\ compared(rows).aggregate_score = Worth(traces)
                       /\ queue_row(rows).unique_events = Cardinality(events)
                       /\ \A s \in Subsystems :
                            compared(rows).subsystems[s] = Cardinality(events \intersect PREFIXES[s])
  BY DEF ScoreIsWorth
<1> DEFINE N == Len(rows)
           traces == { trace_files[n] : n \in 1..N }
           events == UNION { ToSet(parse_trace(t)) : t \in traces }
<1>1. N \in Nat /\ \A n \in 1..N : FiniteSummary(Shown(trace_files, n))
  BY RowsShow
<1>2. /\ Worth(traces) = WorthOf(SeenAfter(trace_files, N))
      /\ EventsAfter(trace_files, N) = events
      /\ \A s \in Subsystems : FunctionsAfter(trace_files, N, s) = events \intersect PREFIXES[s]
  BY <1>1, WorthOfTraces
<1>3. /\ queue_row(rows).final_score = total([ i \in DOMAIN rows |-> rows[i].score ])
      /\ compared(rows).aggregate_score = total([ i \in DOMAIN rows |-> rows[i].score ])
      /\ queue_row(rows).unique_events = Last(rows).total_seen_events
      /\ compared(rows).subsystems = Last(rows).total_seen
  BY DEF queue_row, compared
<1> HIDE DEF traces, events
<1>4. /\ queue_row(rows).final_score = Worth(traces)
      /\ compared(rows).aggregate_score = Worth(traces)
  BY <1>2, <1>3, ScoresAddUp
<1>5. queue_row(rows).unique_events = Cardinality(events)
  BY <1>2, <1>3, LastRow
<1>6. \A s \in Subsystems :
        compared(rows).subsystems[s] = Cardinality(events \intersect PREFIXES[s])
  BY <1>2, <1>3, LastRow
<1> QED BY <1>4, <1>5, <1>6 DEF traces, events

\* The aggregate score of every report, whole or of an analysis under way, is
\* the worth of its traces together, for every set of events and every queue:
\* each event and each pair counts once, in whatever order they come.
THEOREM ScoresAreWorth == Spec => []ScoreIsWorth
<1>1. Init => RowsInv
  BY EmptySeq DEF Init, RowsInv
<1>2. Init => ScoredInv
  <2> SUFFICES ASSUME Init PROVE ScoredInv
    OBVIOUS
  <2>1. testcase = 1 /\ seen = NothingSeen
    BY DEF Init
  <2>2. 1 - 1 = 0 /\ 1..0 = {}
    OBVIOUS
  <2>3. seen = SeenAfter(trace_files, 0)
    BY <2>1, NothingSeenFirst
  <2> QED BY <2>1, <2>2, <2>3 DEF ScoredInv
<1>3. TypeInv /\ RowsInv /\ ScoredInv => ScoreIsWorth
  BY WorthShown
<1> QED BY <1>1, <1>2, <1>3, RowsStep, ScoredStep, TypeInvariant, PTL DEF Spec
================================================================================

------------------------------ MODULE Configlet ------------------------------
(***************************************************************************)
(* PoC two's target: one execution of configlet_sim.c with feedback.h.     *)
(*                                                                         *)
(* A testcase is the sequence of lines strtok_r hands to parse_config, each *)
(* split at its first '='.  A line without '=', or with nothing before or  *)
(* after it, has an empty key or an empty value here.  Keys and values are *)
(* the tokens the code compares with strcmp; the number a value stands for *)
(* is the constant Numeral.  The arithmetic of the feature_* functions on  *)
(* their volatile local is left out: nothing reads it.                     *)
(***************************************************************************)
EXTENDS Integers, Sequences

CONSTANTS
  Inputs,            \* testcases
  Numeral,           \* the values strtol(_, &end, 0) consumes whole -> number
  IntMin, IntMax     \* the range of an int

Line == [key : STRING, value : STRING]

ASSUME ConfigletAssumption ==
  /\ Inputs \subseteq Seq(Line)
  /\ \A v \in DOMAIN Numeral : Numeral[v] \in Int
  /\ IntMin \in Int /\ IntMin < 0
  /\ IntMax \in Int /\ IntMax > 57005       \* 0xdead is an int, and not the largest

\* strtol consumes nothing of it: end = value.
ASSUME NoEmptyNumeral == "" \notin DOMAIN Numeral

VARIABLES
  pc, input, out,          \* main: where it is, its testcase, where the log goes
  line,                    \* parse_config: lines consumed
  flag, enum, int,         \* Config: the int switches, the char[32]s, the numbers
  tx_step, tx_sequence,    \* advance_tx_sequence
  block, unlocked,         \* run_application: ifs passed, its local flags
  log                      \* what was written to feedback_file

configVars == <<flag, enum, int, tx_step, tx_sequence>>
appVars == <<block, unlocked, log>>
targetVars == <<pc, input, out, line, configVars, appVars>>

-----------------------------------------------------------------------------
(* Parsing.                                                                *)

FlagKeys == {"AUTH", "CACHE", "TLS", "EXPORT", "BACKUP", "METRICS", "BEGIN_TX",
             "WRITE", "COMMIT"}
IntKeys  == {"TOKEN", "SIZE", "TIMEOUT", "THREADS", "CHECKSUM", "MAGIC"}

\* The values apply_kv accepts for the other keys.
EnumValues ==
  [ DB       |-> {"mysql", "sqlite", "none"},
    ROLE     |-> {"admin", "user"},
    COMPRESS |-> {"gzip", "lz4", "none"},
    FORMAT   |-> {"json", "xml", "txt"},
    MODE     |-> {"write", "read"},
    REGION   |-> {"us-east", "eu-west", "local"} ]
EnumKeys == DOMAIN EnumValues

EnumDefault ==
  [ DB |-> "none", ROLE |-> "user", COMPRESS |-> "none", FORMAT |-> "txt",
    MODE |-> "read", REGION |-> "local" ]

well_formed(l) == l.key # "" /\ l.value # ""

\* A mutant: the long is cast to int without the two comparisons.
parse_int_value_wrapping(value) ==
  IF value \notin DOMAIN Numeral THEN 0
  ELSE ((Numeral[value] - IntMin) % (IntMax - IntMin + 1)) + IntMin

\* Not a number: 0.  Out of range: clamped.
parse_int_value(value) ==
  IF value \notin DOMAIN Numeral THEN 0
  ELSE IF Numeral[value] > IntMax THEN IntMax
  ELSE IF Numeral[value] < IntMin THEN IntMin
  ELSE Numeral[value]

\* The lines that advance the transaction, in their order.
TxLines ==
  << [key |-> "AUTH", value |-> "1"], [key |-> "DB", value |-> "mysql"],
     [key |-> "BEGIN_TX", value |-> "1"], [key |-> "WRITE", value |-> "1"],
     [key |-> "COMMIT", value |-> "1"], [key |-> "BACKUP", value |-> "1"] >>

\* A mutant: a line of the transaction out of its order starts it again.
advance_tx_sequence_resetting(l) ==
  IF tx_step < 6 /\ l = TxLines[tx_step + 1]
    THEN /\ tx_step' = tx_step + 1
         /\ tx_sequence' = (tx_sequence \/ tx_step = 5)
    ELSE /\ tx_step' = (IF \E k \in 1..6 : l = TxLines[k] THEN 0 ELSE tx_step)
         /\ UNCHANGED tx_sequence

advance_tx_sequence(l) ==
  IF tx_step < 6 /\ l = TxLines[tx_step + 1]
    THEN /\ tx_step' = tx_step + 1
         /\ tx_sequence' = (tx_sequence \/ tx_step = 5)
    ELSE UNCHANGED <<tx_step, tx_sequence>>

\* A mutant: an enumeration takes any value.
apply_kv_unchecked(l) ==
  /\ flag' = [k \in FlagKeys |-> IF k = l.key THEN l.value = "1" ELSE flag[k]]
  /\ enum' = [k \in EnumKeys |-> IF k = l.key THEN l.value ELSE enum[k]]
  /\ int'  = [k \in IntKeys |-> IF k = l.key THEN parse_int_value(l.value) ELSE int[k]]

\* An unknown key, or a value an enumeration does not know, changes nothing.
apply_kv(l) ==
  /\ flag' = [k \in FlagKeys |-> IF k = l.key THEN l.value = "1" ELSE flag[k]]
  /\ enum' = [k \in EnumKeys |->
                IF k = l.key /\ l.value \in EnumValues[k] THEN l.value ELSE enum[k]]
  /\ int'  = [k \in IntKeys |-> IF k = l.key THEN parse_int_value(l.value) ELSE int[k]]

-----------------------------------------------------------------------------
(* The application.                                                        *)

FEATURE(a)  == <<"FEATURE", a>>
COMBO(a, b) == <<"COMBO", a, b>>
DEP(a, b)   == <<"DEP", a, b>>

\* The ifs of run_application in their order, named after what they unlock.
Blocks ==
  << "AUTH", "CACHE", "TLS", "DB_MYSQL", "DB_SQLITE", "ADMIN", "CACHE+DB_MYSQL",
     "BACKUP", "EXPORT", "METRICS", "PRIVILEGED_ADMIN", "LARGE_EXPORT",
     "QUERY_ACCEL", "LARGE_WRITE_BACKUP", "FAILOVER", "CLUSTER_SYNC", "RECOVERY" >>

mysql == enum["DB"] = "mysql"
has_db == enum["DB"] \in {"mysql", "sqlite"}
mode_write == enum["MODE"] = "write"
gzip_json == enum["COMPRESS"] = "gzip" /\ enum["FORMAT"] = "json"

\* A mutant: the test on the local flag of ADMIN is dropped.
privileged_admin_guard_flat ==
  int["TOKEN"] = 1337 /\ mode_write /\ int["CHECKSUM"] = 42

privileged_admin_guard ==
  "ADMIN" \in unlocked /\ int["TOKEN"] = 1337 /\ mode_write /\ int["CHECKSUM"] = 42

\* The condition of an if.
condition(b) ==
  CASE b \in {"AUTH", "CACHE", "TLS", "METRICS"} -> flag[b]
    [] b = "DB_MYSQL"  -> mysql
    [] b = "DB_SQLITE" -> enum["DB"] = "sqlite"
    [] b = "ADMIN"     -> flag["AUTH"] /\ enum["ROLE"] = "admin" /\ flag["TLS"]
    [] b = "CACHE+DB_MYSQL" -> flag["CACHE"] /\ mysql /\ int["THREADS"] >= 4
    [] b = "BACKUP"    -> flag["BACKUP"] /\ has_db /\ mode_write
    [] b = "EXPORT"    -> flag["EXPORT"] /\ gzip_json
    [] b = "PRIVILEGED_ADMIN" -> privileged_admin_guard
    [] b = "LARGE_EXPORT" -> flag["EXPORT"] /\ gzip_json /\ int["SIZE"] > 2048 /\ mode_write
    [] b = "QUERY_ACCEL" ->
         flag["CACHE"] /\ mysql /\ int["THREADS"] >= 8 /\ int["CHECKSUM"] = 42
    [] b = "LARGE_WRITE_BACKUP" ->
         flag["BACKUP"] /\ mysql /\ mode_write /\ int["SIZE"] > 2048 /\ tx_sequence
    [] b = "FAILOVER" ->
         /\ flag["TLS"] /\ mysql /\ enum["REGION"] = "us-east"
         /\ int["TIMEOUT"] >= 100 /\ int["CHECKSUM"] = 42
    [] b = "CLUSTER_SYNC" ->
         {"FAILOVER", "QUERY_ACCEL"} \subseteq unlocked /\ int["THREADS"] >= 8 /\ int["MAGIC"] = 57005
    [] b = "RECOVERY" ->
         /\ {"CLUSTER_SYNC", "LARGE_WRITE_BACKUP", "LARGE_EXPORT", "PRIVILEGED_ADMIN"} \subseteq unlocked
         /\ flag["COMMIT"] /\ int["MAGIC"] = 57005

\* A mutant: record_combo's arguments are swapped.
record_swapped(a, needs) ==
  <<FEATURE(a)>> \o [k \in DOMAIN needs |-> COMBO(a, needs[k])]
                 \o [k \in DOMAIN needs |-> DEP(a, needs[k])]

\* record_large_export and its likes: the feature, its combinations, its
\* dependencies.
record(a, needs) ==
  <<FEATURE(a)>> \o [k \in DOMAIN needs |-> COMBO(needs[k], a)]
                 \o [k \in DOMAIN needs |-> DEP(a, needs[k])]

\* What the body of an if records, in its order.
events(b) ==
  CASE b \in {"AUTH", "CACHE", "DB_MYSQL", "DB_SQLITE"} -> <<FEATURE(b)>>
    [] b = "TLS" ->
         IF flag["AUTH"] THEN <<FEATURE("TLS"), DEP("TLS", "AUTH"), COMBO("AUTH", "TLS")>>
                         ELSE <<FEATURE("TLS")>>
    [] b = "ADMIN" -> <<FEATURE("ADMIN"), DEP("ADMIN", "AUTH"), DEP("ADMIN", "TLS"),
                        COMBO("AUTH", "ADMIN"), COMBO("TLS", "ADMIN")>>
    [] b = "CACHE+DB_MYSQL" -> <<COMBO("CACHE", "DB_MYSQL")>>
    [] b = "BACKUP" -> <<FEATURE("BACKUP"), DEP("BACKUP", "DB"), DEP("BACKUP", "MODE_WRITE")>>
    [] b = "EXPORT" -> <<FEATURE("EXPORT"), DEP("EXPORT", "COMPRESS_GZIP"),
                         DEP("EXPORT", "FORMAT_JSON"), COMBO("EXPORT", "COMPRESS_GZIP"),
                         COMBO("EXPORT", "FORMAT_JSON")>>
    [] b = "METRICS" ->
         IF flag["CACHE"] /\ int["TIMEOUT"] >= 100
           THEN <<FEATURE("METRICS"), COMBO("METRICS", "CACHE")>> ELSE <<FEATURE("METRICS")>>
    [] b = "PRIVILEGED_ADMIN"   -> record(b, <<"ADMIN">>)
    [] b = "LARGE_EXPORT"       -> record(b, <<"EXPORT">>)
    [] b = "QUERY_ACCEL"        -> record(b, <<"CACHE", "DB_MYSQL">>)
    [] b = "LARGE_WRITE_BACKUP" -> record(b, <<"BACKUP">>)
    [] b = "FAILOVER"           -> record(b, <<"TLS", "DB_MYSQL">>)
    [] b = "CLUSTER_SYNC"       -> record(b, <<"FAILOVER", "QUERY_ACCEL">>)
    [] b = "RECOVERY"           -> record(b, <<"LARGE_WRITE_BACKUP", "CLUSTER_SYNC">>)

-----------------------------------------------------------------------------
(* main.                                                                   *)

\* A process before main, with the defaults parse_config is going to set.
Init ==
  /\ pc = "idle" /\ input = <<>> /\ out = "none"
  /\ line = 0
  /\ flag = [k \in FlagKeys |-> FALSE]
  /\ enum = EnumDefault
  /\ int = [k \in IntKeys |-> 0]
  /\ tx_step = 0 /\ tx_sequence = FALSE
  /\ block = 0 /\ unlocked = {} /\ log = <<>>

\* The testcase is read, feedback_init opens the log (stderr when the path is
\* not set or cannot be opened), parse_config sets the defaults.
Main(file) ==
  /\ pc = "idle"
  /\ input' = file
  /\ out' \in {"file", "stderr"}
  /\ pc' = "parse"
  /\ UNCHANGED <<line, configVars, appVars>>

\* No argument, or the testcase cannot be opened: main returns 1.
MainFails ==
  /\ pc = "idle"
  /\ pc' = "exited"
  /\ UNCHANGED <<input, out, line, configVars, appVars>>

\* One turn of parse_config's loop.
ParseLine ==
  /\ pc = "parse" /\ line < Len(input)
  /\ line' = line + 1
  /\ IF well_formed(input[line + 1])
       THEN advance_tx_sequence(input[line + 1]) /\ apply_kv(input[line + 1])
       ELSE UNCHANGED configVars
  /\ UNCHANGED <<pc, input, out, appVars>>

ParseEnds ==
  /\ pc = "parse" /\ line = Len(input)
  /\ pc' = "run"
  /\ UNCHANGED <<input, out, line, configVars, appVars>>

\* One if of run_application.
RunBlock ==
  /\ pc = "run" /\ block < Len(Blocks)
  /\ block' = block + 1
  /\ LET b == Blocks[block + 1] IN
       IF condition(b) THEN /\ log' = log \o events(b)
                            /\ unlocked' = unlocked \union {b}
                       ELSE UNCHANGED <<unlocked, log>>
  /\ UNCHANGED <<pc, input, out, line, configVars>>

\* feedback_close: only now does a log file get its contents.
FeedbackClose ==
  /\ pc = "run" /\ block = Len(Blocks)
  /\ pc' = "exited"
  /\ UNCHANGED <<input, out, line, configVars, appVars>>

Target == ParseLine \/ ParseEnds \/ RunBlock \/ FeedbackClose

Next == MainFails \/ (\E file \in Inputs : Main(file)) \/ Target

Spec == Init /\ [][Next]_targetVars

-----------------------------------------------------------------------------
(* The vocabulary of ground_truth.json.                                    *)

GroundTruthFeatures ==
  {"AUTH", "CACHE", "TLS", "DB_MYSQL", "DB_SQLITE", "ADMIN", "BACKUP", "EXPORT",
   "METRICS", "PRIVILEGED_ADMIN", "LARGE_EXPORT", "QUERY_ACCEL",
   "LARGE_WRITE_BACKUP", "FAILOVER", "CLUSTER_SYNC", "RECOVERY"}

GroundTruthCombos ==
  { <<"AUTH", "TLS">>, <<"AUTH", "ADMIN">>, <<"TLS", "ADMIN">>, <<"CACHE", "DB_MYSQL">>,
    <<"EXPORT", "COMPRESS_GZIP">>, <<"EXPORT", "FORMAT_JSON">>, <<"METRICS", "CACHE">>,
    <<"ADMIN", "PRIVILEGED_ADMIN">>, <<"EXPORT", "LARGE_EXPORT">>,
    <<"CACHE", "QUERY_ACCEL">>, <<"DB_MYSQL", "QUERY_ACCEL">>,
    <<"BACKUP", "LARGE_WRITE_BACKUP">>, <<"TLS", "FAILOVER">>, <<"DB_MYSQL", "FAILOVER">>,
    <<"FAILOVER", "CLUSTER_SYNC">>, <<"QUERY_ACCEL", "CLUSTER_SYNC">>,
    <<"LARGE_WRITE_BACKUP", "RECOVERY">>, <<"CLUSTER_SYNC", "RECOVERY">> }

GroundTruthDeps ==
  { <<"TLS", "AUTH">>, <<"ADMIN", "AUTH">>, <<"ADMIN", "TLS">>, <<"BACKUP", "DB">>,
    <<"BACKUP", "MODE_WRITE">>, <<"EXPORT", "COMPRESS_GZIP">>, <<"EXPORT", "FORMAT_JSON">>,
    <<"PRIVILEGED_ADMIN", "ADMIN">>, <<"LARGE_EXPORT", "EXPORT">>,
    <<"QUERY_ACCEL", "CACHE">>, <<"QUERY_ACCEL", "DB_MYSQL">>,
    <<"LARGE_WRITE_BACKUP", "BACKUP">>, <<"FAILOVER", "TLS">>, <<"FAILOVER", "DB_MYSQL">>,
    <<"CLUSTER_SYNC", "FAILOVER">>, <<"CLUSTER_SYNC", "QUERY_ACCEL">>,
    <<"RECOVERY", "LARGE_WRITE_BACKUP">>, <<"RECOVERY", "CLUSTER_SYNC">> }

GroundTruth ==
  { FEATURE(a) : a \in GroundTruthFeatures }
    \union { COMBO(c[1], c[2]) : c \in GroundTruthCombos }
    \union { DEP(d[1], d[2]) : d \in GroundTruthDeps }

-----------------------------------------------------------------------------
(* What a testcase asks for, without running it.                           *)

\* Line n of a testcase gives key a value.
assigns(lines, n, key) ==
  /\ well_formed(lines[n]) /\ lines[n].key = key
  /\ key \in EnumKeys => lines[n].value \in EnumValues[key]

\* The value the first n lines give key: the last one wins; "" for none.
settled(lines, n, key) ==
  LET writers == { m \in 1..n : assigns(lines, m, key) } IN
    IF writers = {} THEN ""
    ELSE lines[CHOOSE m \in writers : \A w \in writers : w <= m].value

is_set(lines, n, key) == settled(lines, n, key) = "1"

chosen(lines, n, key) ==
  IF settled(lines, n, key) = "" THEN EnumDefault[key] ELSE settled(lines, n, key)

\* The number as it is written, however large; 0 for what is not a number.
number(lines, n, key) ==
  IF settled(lines, n, key) \in DOMAIN Numeral THEN Numeral[settled(lines, n, key)] ELSE 0

\* README.md:18 "a stateful transaction order": the six lines occur in this
\* order, whatever stands between them.
TxRequested(lines, n) ==
  LET at(k) == { m \in 1..n : lines[m] = TxLines[k] } IN
    \E a \in at(1), b \in at(2), c \in at(3), d \in at(4), e \in at(5), f \in at(6) :
      a < b /\ b < c /\ c < d /\ d < e /\ e < f

\* The features a testcase unlocks (README.md:9-19 and 157-169).
UnlockedBy(lines) ==
  LET n == Len(lines)
      set(key) == is_set(lines, n, key)
      val(key) == chosen(lines, n, key)
      num(key) == number(lines, n, key)
      my == val("DB") = "mysql"
      admin == set("AUTH") /\ set("TLS") /\ val("ROLE") = "admin"
      backup == set("BACKUP") /\ val("DB") # "none" /\ val("MODE") = "write"
      export == set("EXPORT") /\ val("COMPRESS") = "gzip" /\ val("FORMAT") = "json"
      privileged == admin /\ num("TOKEN") = 1337 /\ val("MODE") = "write" /\ num("CHECKSUM") = 42
      large_export == export /\ num("SIZE") > 2048 /\ val("MODE") = "write"
      accel == set("CACHE") /\ my /\ num("THREADS") >= 8 /\ num("CHECKSUM") = 42
      large_write == backup /\ my /\ num("SIZE") > 2048 /\ TxRequested(lines, n)
      failover == /\ set("TLS") /\ my /\ val("REGION") = "us-east"
                  /\ num("TIMEOUT") >= 100 /\ num("CHECKSUM") = 42
      cluster == failover /\ accel /\ num("MAGIC") = 57005
      unlocks == [ AUTH |-> set("AUTH"), CACHE |-> set("CACHE"), TLS |-> set("TLS"),
                   METRICS |-> set("METRICS"), DB_MYSQL |-> my, DB_SQLITE |-> val("DB") = "sqlite",
                   ADMIN |-> admin, BACKUP |-> backup, EXPORT |-> export,
                   PRIVILEGED_ADMIN |-> privileged, LARGE_EXPORT |-> large_export,
                   QUERY_ACCEL |-> accel, LARGE_WRITE_BACKUP |-> large_write,
                   FAILOVER |-> failover, CLUSTER_SYNC |-> cluster,
                   RECOVERY |-> cluster /\ large_write /\ large_export /\ privileged /\ set("COMMIT") ]
  IN { f \in GroundTruthFeatures : unlocks[f] }

\* The semantic coverage of a testcase: the features it unlocks, and the
\* combinations and dependencies of the ground truth between them, two of
\* which also have a threshold.
Coverage(lines) ==
  LET unlocks == UnlockedBy(lines)
      present(a) == a \in GroundTruthFeatures => a \in unlocks
      num(key) == number(lines, Len(lines), key)
  IN { FEATURE(a) : a \in unlocks }
     \union { DEP(d[1], d[2]) : d \in { d \in GroundTruthDeps : present(d[1]) /\ present(d[2]) } }
     \union { COMBO(c[1], c[2]) : c \in { c \in GroundTruthCombos :
                /\ present(c[1]) /\ present(c[2])
                /\ c = <<"CACHE", "DB_MYSQL">> => num("THREADS") >= 4
                /\ c = <<"METRICS", "CACHE">> => num("TIMEOUT") >= 100 } }

-----------------------------------------------------------------------------
(* Properties.                                                             *)

\* The type invariant.
TypeOK ==
  /\ pc \in {"idle", "parse", "run", "exited"}
  /\ input \in Inputs \union {<<>>}
  /\ out \in {"none", "file", "stderr"}
  /\ line \in 0..Len(input)
  /\ flag \in [FlagKeys -> BOOLEAN]
  /\ enum \in [EnumKeys -> UNION { EnumValues[k] : k \in EnumKeys }]
  /\ \A k \in EnumKeys : enum[k] \in EnumValues[k]
  /\ int \in [IntKeys -> IntMin..IntMax]
  /\ tx_step \in 0..6
  /\ tx_sequence \in BOOLEAN
  /\ block \in 0..Len(Blocks)
  /\ unlocked \subseteq { Blocks[b] : b \in 1..block }
  /\ log \in Seq(GroundTruth)

\* configlet_sim.c:54 advance_tx_sequence accepts exactly the testcases that
\* contain the six lines of the transaction as a subsequence: greedy matching
\* misses none, and neither a line that comes twice nor one out of its order
\* undoes it.
TxSequenceExact == tx_sequence <=> TxRequested(input, line)

\* README.md:9 "exact KEY=value lines": every setting has the value of the
\* last line that names it with a value it accepts, and the default if there
\* is none; a malformed line or an unknown value never resets one.
LastWriterWins ==
  /\ \A k \in FlagKeys : flag[k] <=> is_set(input, line, k)
  /\ \A k \in EnumKeys : enum[k] = chosen(input, line, k)

\* The numbers run_application compares with, and their successors.
Thresholds == {4, 8, 42, 43, 100, 1337, 1338, 2049, 57005, 57006}

\* README.md:15 numeric thresholds: a number compares with every threshold as
\* it is written, also when it does not fit an int.
NumbersCompareAsWritten ==
  \A k \in IntKeys, t \in Thresholds : int[k] >= t <=> number(input, line, k) >= t

\* README.md:13 "later unlocks depend on earlier": wherever a run is cut
\* short, a dependency or combination in the log comes after the features it
\* relates, and nothing is logged twice, so no counter of the map can wrap.
LoggedAfterItsFeatures ==
  \A n \in 1..Len(log) :
    LET earlier == { log[m] : m \in 1..(n - 1) } IN
      /\ log[n] \notin earlier
      /\ log[n][1] # "FEATURE" =>
           \A a \in {log[n][2], log[n][3]} \intersect GroundTruthFeatures : FEATURE(a) \in earlier

\* A run that reaches its end has logged the coverage of its testcase, all of
\* it in the ground truth that analyze_queue.py counts against.
LogIsCoverage ==
  (pc = "exited" /\ out # "none") => { log[n] : n \in 1..Len(log) } = Coverage(input)
=============================================================================

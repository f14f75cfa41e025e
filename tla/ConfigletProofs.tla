----------------------------- MODULE ConfigletProofs -----------------------------
(***************************************************************************)
(* Proofs about Configlet, for every set of testcases, every reading of    *)
(* numerals and every width of an int: the type invariant, that the parser *)
(* settles on what the testcase asks for (switches, enumerations, numbers, *)
(* the transaction), that nothing is logged before the features it         *)
(* relates, and that a finished run has logged exactly its coverage.  And  *)
(* about ConfigletReplay, for every set of queues: the analyzer with its   *)
(* processes, temporary files and timeouts implements ReplayOracle, in     *)
(* which a testcase counts with the whole of its coverage or not at all.   *)
(***************************************************************************)
EXTENDS ConfigletReplay, SequenceTheorems, TLAPS

-----------------------------------------------------------------------------
(* The inductive invariant: what each phase of a run has done.             *)

\* Nothing is parsed yet.
Untouched ==
  /\ line = 0
  /\ flag = [k \in FlagKeys |-> FALSE]
  /\ enum = EnumDefault
  /\ int = [k \in IntKeys |-> 0]
  /\ tx_step = 0 /\ tx_sequence = FALSE

\* run_application has not begun.
NothingRun == block = 0 /\ unlocked = {} /\ log = <<>>

PhaseInv ==
  /\ out = "none" => input = <<>> /\ pc \in {"idle", "exited"}
  /\ pc = "idle" => out = "none"
  /\ out = "none" => Untouched
  /\ pc = "parse" \/ out = "none" => NothingRun
  /\ pc \in {"run", "exited"} => line = Len(input)
  /\ pc = "exited" /\ out # "none" => block = Len(Blocks)

\* The first k lines of the transaction occur, in their order, among the first
\* n lines of a testcase.
Embeds(lines, n, k) ==
  \E f \in [1..k -> 1..n] :
    /\ \A i \in 1..k : lines[f[i]] = TxLines[i]
    /\ \A i, j \in 1..k : i < j => f[i] < f[j]

\* Greedy matching has reached as far as any matching can.
TxInv ==
  /\ Embeds(input, line, tx_step)
  /\ tx_step < 6 => ~ Embeds(input, line, tx_step + 1)
  /\ tx_sequence <=> tx_step = 6

\* A number is that of the last line that writes it.
NumbersInv == \A k \in IntKeys : int[k] = parse_int_value(settled(input, line, k))

ParseInv == TxInv /\ LastWriterWins /\ NumbersInv

-----------------------------------------------------------------------------
(* What the parser's conditions come to, without the local flags of        *)
(* run_application.                                                        *)

wants_admin == flag["AUTH"] /\ enum["ROLE"] = "admin" /\ flag["TLS"]
wants_export == flag["EXPORT"] /\ gzip_json
wants_privileged == wants_admin /\ int["TOKEN"] = 1337 /\ mode_write /\ int["CHECKSUM"] = 42
wants_large_export == wants_export /\ int["SIZE"] > 2048 /\ mode_write
wants_accel == flag["CACHE"] /\ mysql /\ int["THREADS"] >= 8 /\ int["CHECKSUM"] = 42
wants_large_write == flag["BACKUP"] /\ mysql /\ mode_write /\ int["SIZE"] > 2048 /\ tx_sequence
wants_failover ==
  flag["TLS"] /\ mysql /\ enum["REGION"] = "us-east" /\ int["TIMEOUT"] >= 100 /\ int["CHECKSUM"] = 42
wants_cluster == wants_failover /\ wants_accel /\ int["MAGIC"] = 57005

wants(b) ==
  CASE b \in {"AUTH", "CACHE", "TLS", "METRICS"} -> flag[b]
    [] b = "DB_MYSQL"  -> mysql
    [] b = "DB_SQLITE" -> enum["DB"] = "sqlite"
    [] b = "ADMIN"     -> wants_admin
    [] b = "CACHE+DB_MYSQL" -> flag["CACHE"] /\ mysql /\ int["THREADS"] >= 4
    [] b = "BACKUP"    -> flag["BACKUP"] /\ has_db /\ mode_write
    [] b = "EXPORT"    -> wants_export
    [] b = "PRIVILEGED_ADMIN" -> wants_privileged
    [] b = "LARGE_EXPORT" -> wants_large_export
    [] b = "QUERY_ACCEL" -> wants_accel
    [] b = "LARGE_WRITE_BACKUP" -> wants_large_write
    [] b = "FAILOVER" -> wants_failover
    [] b = "CLUSTER_SYNC" -> wants_cluster
    [] b = "RECOVERY" -> wants_cluster /\ wants_large_write /\ wants_large_export
                           /\ wants_privileged /\ flag["COMMIT"]

\* The ifs passed so far have unlocked what the settings want.
UnlockedInv == \A j \in 1..block : Blocks[j] \in unlocked <=> wants(Blocks[j])

\* The block that records an event ...
Recorder(e) ==
  IF e[1] = "FEATURE" \/ e[1] = "DEP" THEN e[2]
  ELSE IF e = COMBO("CACHE", "DB_MYSQL") THEN "CACHE+DB_MYSQL"
  ELSE IF e[2] = "METRICS" \/ e = COMBO("EXPORT", "COMPRESS_GZIP")
            \/ e = COMBO("EXPORT", "FORMAT_JSON") THEN e[2]
  ELSE e[3]

\* ... and what it asks besides.
Also(e) ==
  /\ e \in {DEP("TLS", "AUTH"), COMBO("AUTH", "TLS")} => flag["AUTH"]
  /\ e = COMBO("METRICS", "CACHE") => flag["CACHE"] /\ int["TIMEOUT"] >= 100

Logged == { log[n] : n \in 1..Len(log) }

LogInv ==
  Logged = { e \in GroundTruth : Recorder(e) \in unlocked /\ Also(e) }

Inv == TypeOK /\ PhaseInv /\ ParseInv /\ UnlockedInv /\ LogInv /\ LoggedAfterItsFeatures

-----------------------------------------------------------------------------
(* The lines of the transaction as a subsequence.                          *)

LEMMA TxLinesWellFormed == \A k \in 1..6 : well_formed(TxLines[k])
<1>1. \A k \in 1..6 : k = 1 \/ k = 2 \/ k = 3 \/ k = 4 \/ k = 5 \/ k = 6
  OBVIOUS
<1>2. /\ TxLines[1] = [key |-> "AUTH", value |-> "1"]
      /\ TxLines[2] = [key |-> "DB", value |-> "mysql"]
      /\ TxLines[3] = [key |-> "BEGIN_TX", value |-> "1"]
      /\ TxLines[4] = [key |-> "WRITE", value |-> "1"]
      /\ TxLines[5] = [key |-> "COMMIT", value |-> "1"]
      /\ TxLines[6] = [key |-> "BACKUP", value |-> "1"]
  BY DEF TxLines
<1>3. /\ well_formed(TxLines[1]) /\ well_formed(TxLines[2]) /\ well_formed(TxLines[3])
      /\ well_formed(TxLines[4]) /\ well_formed(TxLines[5]) /\ well_formed(TxLines[6])
  BY <1>2 DEF well_formed
<1> QED BY <1>1, <1>3

LEMMA EmbedsNone ==
  ASSUME NEW lines PROVE Embeds(lines, 0, 0) /\ ~ Embeds(lines, 0, 1)
<1>1. Embeds(lines, 0, 0)
  <2> DEFINE f == [i \in 1..0 |-> 0]
  <2>1. f \in [1..0 -> 1..0]
    OBVIOUS
  <2>2. \A i \in 1..0 : FALSE
    OBVIOUS
  <2> HIDE DEF f
  <2> QED BY <2>1, <2>2 DEF Embeds
<1>2. ~ Embeds(lines, 0, 1)
  BY DEF Embeds
<1> QED BY <1>1, <1>2

\* A longer testcase embeds what a shorter one does.
LEMMA EmbedsInMore ==
  ASSUME NEW lines, NEW n \in Nat, NEW k \in Nat, Embeds(lines, n, k)
  PROVE  Embeds(lines, n + 1, k)
<1>1. PICK f \in [1..k -> 1..n] :
        /\ \A i \in 1..k : lines[f[i]] = TxLines[i]
        /\ \A i, j \in 1..k : i < j => f[i] < f[j]
  BY DEF Embeds
<1>2. f \in [1..k -> 1..(n + 1)]
  OBVIOUS
<1> QED BY <1>1, <1>2 DEF Embeds

\* A testcase that embeds a transaction embeds its beginning.
LEMMA EmbedsLess ==
  ASSUME NEW lines, NEW n \in Nat, NEW k \in Nat, Embeds(lines, n, k + 1)
  PROVE  Embeds(lines, n, k)
<1>1. PICK f \in [1..(k + 1) -> 1..n] :
        /\ \A i \in 1..(k + 1) : lines[f[i]] = TxLines[i]
        /\ \A i, j \in 1..(k + 1) : i < j => f[i] < f[j]
  BY DEF Embeds
<1> DEFINE g == [i \in 1..k |-> f[i]]
<1>2. g \in [1..k -> 1..n]
  OBVIOUS
<1>3. \A i \in 1..k : g[i] = f[i] /\ i \in 1..(k + 1)
  OBVIOUS
<1> HIDE DEF g
<1>4. \A i \in 1..k : lines[g[i]] = TxLines[i]
  BY <1>1, <1>3
<1>5. \A i, j \in 1..k : i < j => g[i] < g[j]
  BY <1>1, <1>3
<1> QED BY <1>2, <1>4, <1>5 DEF Embeds

\* The next line of the transaction embeds one line more.
LEMMA EmbedsNext ==
  ASSUME NEW lines, NEW n \in Nat, NEW k \in Nat, Embeds(lines, n, k),
         lines[n + 1] = TxLines[k + 1]
  PROVE  Embeds(lines, n + 1, k + 1)
<1>1. PICK f \in [1..k -> 1..n] :
        /\ \A i \in 1..k : lines[f[i]] = TxLines[i]
        /\ \A i, j \in 1..k : i < j => f[i] < f[j]
  BY DEF Embeds
<1> DEFINE g == [i \in 1..(k + 1) |-> IF i = k + 1 THEN n + 1 ELSE f[i]]
<1>2. g \in [1..(k + 1) -> 1..(n + 1)]
  OBVIOUS
<1>3. g[k + 1] = n + 1 /\ \A i \in 1..k : g[i] = f[i] /\ f[i] \in 1..n
  OBVIOUS
<1> HIDE DEF g
<1>4. \A i \in 1..(k + 1) : i = k + 1 \/ i \in 1..k
  OBVIOUS
<1>5. \A i \in 1..(k + 1) : lines[g[i]] = TxLines[i]
  BY <1>1, <1>3, <1>4
<1>6. ASSUME NEW i \in 1..(k + 1), NEW j \in 1..(k + 1), i < j PROVE g[i] < g[j]
  <2>1. i \in 1..k
    BY <1>6
  <2>2. CASE j = k + 1
    BY <2>1, <2>2, <1>3
  <2>3. CASE j \in 1..k
    BY <2>1, <2>3, <1>1, <1>3, <1>6
  <2> QED BY <2>2, <2>3, <1>4
<1> QED BY <1>2, <1>5, <1>6 DEF Embeds

\* What one line more embeds either ends with it or does without it.
LEMMA EmbedsLast ==
  ASSUME NEW lines, NEW n \in Nat, NEW k \in Nat, Embeds(lines, n + 1, k + 1)
  PROVE  Embeds(lines, n, k + 1) \/ (lines[n + 1] = TxLines[k + 1] /\ Embeds(lines, n, k))
<1>1. PICK f \in [1..(k + 1) -> 1..(n + 1)] :
        /\ \A i \in 1..(k + 1) : lines[f[i]] = TxLines[i]
        /\ \A i, j \in 1..(k + 1) : i < j => f[i] < f[j]
  BY DEF Embeds
<1>2. k + 1 \in 1..(k + 1) /\ f[k + 1] \in 1..(n + 1)
  OBVIOUS
<1>3. ASSUME NEW i \in 1..k PROVE f[i] \in 1..n
  <2>1. i \in 1..(k + 1) /\ i < k + 1
    OBVIOUS
  <2>2. f[i] < f[k + 1] /\ f[i] \in 1..(n + 1)
    BY <2>1, <1>1, <1>2
  <2> QED BY <2>2, <1>2
<1>4. CASE f[k + 1] = n + 1
  <2> DEFINE g == [i \in 1..k |-> f[i]]
  <2>1. g \in [1..k -> 1..n]
    BY <1>3
  <2>2. \A i \in 1..k : g[i] = f[i] /\ i \in 1..(k + 1)
    OBVIOUS
  <2> HIDE DEF g
  <2>5. \A i \in 1..k : lines[g[i]] = TxLines[i]
    BY <1>1, <2>2
  <2>6. \A i, j \in 1..k : i < j => g[i] < g[j]
    BY <1>1, <2>2
  <2>3. Embeds(lines, n, k)
    BY <2>1, <2>5, <2>6 DEF Embeds
  <2>4. lines[n + 1] = TxLines[k + 1]
    BY <1>1, <1>2, <1>4
  <2> QED BY <2>3, <2>4
<1>5. CASE f[k + 1] # n + 1
  <2>1. f[k + 1] \in 1..n
    BY <1>2, <1>5
  <2>2. \A i \in 1..(k + 1) : f[i] \in 1..n
    <3> SUFFICES ASSUME NEW i \in 1..(k + 1) PROVE f[i] \in 1..n
      OBVIOUS
    <3>1. i \in 1..k \/ i = k + 1
      OBVIOUS
    <3> QED BY <3>1, <2>1, <1>3
  <2>3. f \in [1..(k + 1) -> 1..n]
    BY <2>2
  <2> QED BY <1>1, <2>3 DEF Embeds
<1> QED BY <1>4, <1>5

LEMMA EmbedsIsRequested ==
  ASSUME NEW lines, NEW n \in Nat
  PROVE  Embeds(lines, n, 6) <=> TxRequested(lines, n)
<1>1. ASSUME Embeds(lines, n, 6) PROVE TxRequested(lines, n)
  <2>1. PICK p \in [1..6 -> 1..n] :
          /\ \A i \in 1..6 : lines[p[i]] = TxLines[i]
          /\ \A i, j \in 1..6 : i < j => p[i] < p[j]
    BY <1>1 DEF Embeds
  <2>2. /\ p[1] < p[2] /\ p[2] < p[3] /\ p[3] < p[4] /\ p[4] < p[5] /\ p[5] < p[6]
    BY <2>1
  <2>3. \A i \in 1..6 : p[i] \in { m \in 1..n : lines[m] = TxLines[i] }
    BY <2>1
  <2> QED BY <2>2, <2>3 DEF TxRequested
<1>2. ASSUME TxRequested(lines, n) PROVE Embeds(lines, n, 6)
  <2>1. PICK a \in 1..n, b \in 1..n, c \in 1..n, d \in 1..n, e \in 1..n, f \in 1..n :
          /\ lines[a] = TxLines[1] /\ lines[b] = TxLines[2] /\ lines[c] = TxLines[3]
          /\ lines[d] = TxLines[4] /\ lines[e] = TxLines[5] /\ lines[f] = TxLines[6]
          /\ a < b /\ b < c /\ c < d /\ d < e /\ e < f
    BY <1>2 DEF TxRequested
  <2> DEFINE p == [i \in 1..6 |-> IF i = 1 THEN a ELSE IF i = 2 THEN b ELSE IF i = 3 THEN c
                                  ELSE IF i = 4 THEN d ELSE IF i = 5 THEN e ELSE f]
  <2>2. p \in [1..6 -> 1..n]
    OBVIOUS
  <2>3. p[1] = a /\ p[2] = b /\ p[3] = c /\ p[4] = d /\ p[5] = e /\ p[6] = f
    OBVIOUS
  <2> HIDE DEF p
  <2>4. \A i \in 1..6 : i \in {1, 2, 3, 4, 5, 6}
    OBVIOUS
  <2>5. \A i \in 1..6 : lines[p[i]] = TxLines[i]
    BY <2>1, <2>3, <2>4
  <2>6. \A i, j \in 1..6 : i < j => p[i] < p[j]
    BY <2>1, <2>3, <2>4
  <2> QED BY <2>2, <2>5, <2>6 DEF Embeds
<1> QED BY <1>1, <1>2

-----------------------------------------------------------------------------
(* The value the last line wins.                                           *)

LEMMA SettledNone ==
  ASSUME NEW lines, NEW key PROVE settled(lines, 0, key) = ""
<1>1. { m \in 1..0 : assigns(lines, m, key) } = {}
  OBVIOUS
<1> QED BY <1>1 DEF settled

LEMMA SettledNext ==
  ASSUME NEW lines, NEW n \in Nat, NEW key
  PROVE  settled(lines, n + 1, key) =
           IF assigns(lines, n + 1, key) THEN lines[n + 1].value ELSE settled(lines, n, key)
<1> DEFINE W(m) == { w \in 1..m : assigns(lines, w, key) }
           latest(S) == CHOOSE m \in S : \A w \in S : w <= m
<1>1. \A m : settled(lines, m, key) = IF W(m) = {} THEN "" ELSE lines[latest(W(m))].value
  BY DEF settled
<1>2. CASE assigns(lines, n + 1, key)
  <2>1. n + 1 \in W(n + 1)
    BY <1>2
  <2>2. \A w \in W(n + 1) : w \in Nat /\ w <= n + 1
    OBVIOUS
  <2> HIDE DEF W
  <2>3. \A m \in W(n + 1) : (\A w \in W(n + 1) : w <= m) => m = n + 1
    BY <2>1, <2>2
  <2>4. latest(W(n + 1)) = n + 1
    BY <2>1, <2>2, <2>3
  <2>5. W(n + 1) # {}
    BY <2>1
  <2> HIDE DEF latest
  <2> QED BY <1>1, <1>2, <2>4, <2>5
<1>3. CASE ~ assigns(lines, n + 1, key)
  <2>1. \A m : m \in 1..(n + 1) <=> m \in 1..n \/ m = n + 1
    OBVIOUS
  <2>2. W(n + 1) = W(n)
    BY <2>1, <1>3
  <2> HIDE DEF W, latest
  <2> QED BY <1>1, <1>3, <2>2
<1> QED BY <1>2, <1>3

-----------------------------------------------------------------------------
(* One line of the parser.                                                 *)

LEMMA EnumFacts ==
  /\ EnumKeys = {"DB", "ROLE", "COMPRESS", "FORMAT", "MODE", "REGION"}
  /\ EnumValues["DB"] = {"mysql", "sqlite", "none"}
  /\ EnumValues["ROLE"] = {"admin", "user"}
  /\ EnumValues["COMPRESS"] = {"gzip", "lz4", "none"}
  /\ EnumValues["FORMAT"] = {"json", "xml", "txt"}
  /\ EnumValues["MODE"] = {"write", "read"}
  /\ EnumValues["REGION"] = {"us-east", "eu-west", "local"}
BY DEF EnumKeys, EnumValues

LEMMA EnumDefaults ==
  \A k \in EnumKeys : "" \notin EnumValues[k] /\ EnumDefault[k] \in EnumValues[k]
<1>1. /\ EnumDefault["DB"] = "none" /\ EnumDefault["ROLE"] = "user"
      /\ EnumDefault["COMPRESS"] = "none" /\ EnumDefault["FORMAT"] = "txt"
      /\ EnumDefault["MODE"] = "read" /\ EnumDefault["REGION"] = "local"
  BY DEF EnumDefault
<1>2. ASSUME NEW k \in EnumKeys PROVE "" \notin EnumValues[k]
  <2>1. k \in {"DB", "ROLE", "COMPRESS", "FORMAT", "MODE", "REGION"}
    BY EnumFacts
  <2>2. /\ "" \notin EnumValues["DB"] /\ "" \notin EnumValues["ROLE"]
        /\ "" \notin EnumValues["COMPRESS"] /\ "" \notin EnumValues["FORMAT"]
        /\ "" \notin EnumValues["MODE"] /\ "" \notin EnumValues["REGION"]
    BY EnumFacts
  <2> QED BY <2>1, <2>2
<1>3. ASSUME NEW k \in EnumKeys PROVE EnumDefault[k] \in EnumValues[k]
  BY EnumFacts, <1>1
<1> QED BY <1>2, <1>3

LEMMA KeysDisjoint ==
  /\ FlagKeys \cap EnumKeys = {} /\ IntKeys \cap EnumKeys = {} /\ FlagKeys \cap IntKeys = {}
BY EnumFacts DEF FlagKeys, IntKeys

LEMMA IntRange == IntMin \in Int /\ IntMax \in Int /\ IntMin < 0 /\ 57005 < IntMax
BY ConfigletAssumption

LEMMA NumberFits == \A v : parse_int_value(v) \in IntMin..IntMax
<1>1. \A v \in DOMAIN Numeral : Numeral[v] \in Int
  BY ConfigletAssumption
<1> QED BY <1>1, IntRange DEF parse_int_value

SettingsOK ==
  /\ flag \in [FlagKeys -> BOOLEAN]
  /\ enum \in [EnumKeys -> UNION { EnumValues[k] : k \in EnumKeys }]
  /\ \A k \in EnumKeys : enum[k] \in EnumValues[k]
  /\ int \in [IntKeys -> IntMin..IntMax]
  /\ tx_step \in 0..6
  /\ tx_sequence \in BOOLEAN

\* The defaults are settings.
LEMMA UntouchedType == Untouched => SettingsOK
<1> SUFFICES ASSUME Untouched PROVE SettingsOK
  OBVIOUS
<1>1. EnumDefault \in [EnumKeys -> UNION { EnumValues[k] : k \in EnumKeys }]
  <2>1. EnumDefault = [k \in EnumKeys |-> EnumDefault[k]]
    BY EnumFacts DEF EnumDefault
  <2>2. \A k \in EnumKeys : EnumDefault[k] \in UNION { EnumValues[j] : j \in EnumKeys }
    BY EnumDefaults
  <2> QED BY <2>1, <2>2
<1>2. 0 \in IntMin..IntMax
  BY IntRange
<1>3. int \in [IntKeys -> IntMin..IntMax]
  BY <1>2 DEF Untouched
<1>4. flag \in [FlagKeys -> BOOLEAN]
  BY DEF Untouched
<1>5. \A k \in EnumKeys : enum[k] \in EnumValues[k]
  BY EnumDefaults DEF Untouched
<1>6. enum \in [EnumKeys -> UNION { EnumValues[k] : k \in EnumKeys }]
  BY <1>1, Zenon DEF Untouched
<1>7. tx_step \in 0..6
  BY DEF Untouched
<1>8. tx_sequence \in BOOLEAN
  BY DEF Untouched
<1> QED BY <1>3, <1>4, <1>5, <1>6, <1>7, <1>8 DEF SettingsOK

\* The defaults are what no line asks for.
LEMMA UntouchedParsed == Untouched => ParseInv
<1> SUFFICES ASSUME Untouched PROVE ParseInv
  OBVIOUS
<1>1. line = 0 /\ \A key : settled(input, line, key) = ""
  BY SettledNone DEF Untouched
<1>2. TxInv
  BY EmbedsNone DEF TxInv, Untouched
<1>3. LastWriterWins
  BY <1>1 DEF LastWriterWins, Untouched, is_set, chosen
<1>4. NumbersInv
  <2>1. parse_int_value("") = 0
    BY NoEmptyNumeral, Zenon DEF parse_int_value
  <2>2. \A k \in IntKeys : int[k] = 0
    BY DEF Untouched
  <2> QED BY <1>1, <2>1, <2>2 DEF NumbersInv
<1> QED BY <1>2, <1>3, <1>4 DEF ParseInv

LEMMA ParseLineType ==
  ASSUME SettingsOK, ParseLine PROVE SettingsOK'
<1>1. CASE UNCHANGED configVars
  BY <1>1 DEF SettingsOK, configVars
<1>2. CASE advance_tx_sequence(input[line + 1]) /\ apply_kv(input[line + 1])
  <2> DEFINE l == input[line + 1]
  <2>1. tx_step' \in 0..6
    BY <1>2 DEF SettingsOK, advance_tx_sequence
  <2>7. tx_sequence' \in BOOLEAN
    BY <1>2, Zenon DEF SettingsOK, advance_tx_sequence
  <2>2. flag' \in [FlagKeys -> BOOLEAN]
    BY <1>2 DEF SettingsOK, apply_kv
  <2>3. int' \in [IntKeys -> IntMin..IntMax]
    BY <1>2, NumberFits DEF SettingsOK, apply_kv
  <2> HIDE DEF l
  <2>4. \A k \in EnumKeys : enum'[k] \in EnumValues[k]
    BY <1>2 DEF SettingsOK, apply_kv, l
  <2>5. enum' = [k \in EnumKeys |-> enum'[k]]
    BY <1>2 DEF apply_kv
  <2>6. enum' \in [EnumKeys -> UNION { EnumValues[k] : k \in EnumKeys }]
    BY <2>4, <2>5
  <2> QED BY <2>1, <2>2, <2>3, <2>4, <2>6, <2>7 DEF SettingsOK
<1> QED BY <1>1, <1>2 DEF ParseLine

LEMMA ParseLineTx ==
  ASSUME TxInv, tx_step \in 0..6, line \in Nat, ParseLine PROVE TxInv'
<1>1. line' = line + 1 /\ input' = input
  BY DEF ParseLine
<1>2. CASE tx_step < 6 /\ input[line + 1] = TxLines[tx_step + 1]
  <2>1. well_formed(input[line + 1])
    BY <1>2, TxLinesWellFormed
  <2>2. tx_step' = tx_step + 1 /\ tx_sequence' = (tx_sequence \/ tx_step = 5)
    BY <2>1, <1>2 DEF ParseLine, advance_tx_sequence
  <2>3. Embeds(input, line + 1, tx_step + 1)
    BY <1>2, EmbedsNext DEF TxInv
  <2>4. ~ Embeds(input, line + 1, tx_step + 2)
    <3> SUFFICES ASSUME Embeds(input, line + 1, (tx_step + 1) + 1) PROVE FALSE
      OBVIOUS
    <3>1. tx_step + 1 \in Nat
      OBVIOUS
    <3>2. \/ Embeds(input, line, (tx_step + 1) + 1)
          \/ Embeds(input, line, tx_step + 1)
      BY <3>1, EmbedsLast
    <3>3. Embeds(input, line, tx_step + 1)
      BY <3>1, <3>2, EmbedsLess
    <3> QED BY <3>3, <1>2 DEF TxInv
  <2>5. tx_sequence' <=> tx_step' = 6
    <3>1. ~ (tx_sequence) /\ (tx_step' = 6 <=> tx_step = 5)
      BY <2>2, <1>2 DEF TxInv
    <3> QED BY <3>1, <2>2, Zenon
  <2> HIDE DEF TxInv
  <2>6. (tx_step + 1) + 1 = tx_step + 2
    OBVIOUS
  <2> QED BY <1>1, <2>2, <2>3, <2>4, <2>5, <2>6 DEF TxInv
<1>3. CASE ~ (tx_step < 6 /\ input[line + 1] = TxLines[tx_step + 1])
  <2>1. UNCHANGED <<tx_step, tx_sequence>>
    BY <1>3 DEF ParseLine, advance_tx_sequence, configVars
  <2>2. Embeds(input, line + 1, tx_step)
    BY EmbedsInMore DEF TxInv
  <2>3. ASSUME tx_step < 6 PROVE ~ Embeds(input, line + 1, tx_step + 1)
    BY <2>3, <1>3, EmbedsLast DEF TxInv
  <2> QED BY <1>1, <2>1, <2>2, <2>3 DEF TxInv
<1> QED BY <1>2, <1>3

LEMMA ParseLineSettings ==
  ASSUME LastWriterWins, NumbersInv, line \in Nat, ParseLine
  PROVE  LastWriterWins' /\ NumbersInv'
<1> DEFINE l == input[line + 1]
           n == line + 1
<1>1. line' = n /\ input' = input
  BY DEF ParseLine
<1>2. \A key : settled(input, n, key) =
                 IF assigns(input, n, key) THEN l.value ELSE settled(input, line, key)
  BY SettledNext
<1>3. CASE ~ well_formed(l)
  <2>1. UNCHANGED configVars
    BY <1>3 DEF ParseLine
  <2>2. \A key : settled(input, n, key) = settled(input, line, key)
    BY <1>2, <1>3 DEF assigns
  <2> HIDE DEF l, n
  <2> QED BY <1>1, <2>1, <2>2 DEF LastWriterWins, NumbersInv, is_set, chosen, configVars
<1>4. CASE well_formed(l)
  <2>1. apply_kv(l)
    BY <1>4 DEF ParseLine
  <2>2. \A key : key \notin EnumKeys => (assigns(input, n, key) <=> key = l.key)
    BY <1>4 DEF assigns
  <2>3. \A key \in EnumKeys :
          assigns(input, n, key) <=> key = l.key /\ l.value \in EnumValues[key]
    BY <1>4 DEF assigns
  <2> HIDE DEF l, n
  <2>4. ASSUME NEW k \in FlagKeys PROVE flag'[k] <=> is_set(input, n, k)
    <3>1. k \notin EnumKeys
      BY KeysDisjoint
    <3>2. flag'[k] <=> IF k = l.key THEN l.value = "1" ELSE flag[k]
      BY <2>1 DEF apply_kv
    <3> QED BY <3>1, <3>2, <1>2, <2>2 DEF LastWriterWins, is_set
  <2>5. ASSUME NEW k \in EnumKeys PROVE enum'[k] = chosen(input, n, k)
    <3>1. enum'[k] = IF k = l.key /\ l.value \in EnumValues[k] THEN l.value ELSE enum[k]
      BY <2>1 DEF apply_kv
    <3>2. l.value \in EnumValues[k] => l.value # ""
      BY EnumDefaults
    <3> QED BY <3>1, <3>2, <1>2, <2>3 DEF LastWriterWins, chosen
  <2>6. ASSUME NEW k \in IntKeys PROVE int'[k] = parse_int_value(settled(input, n, k))
    <3>1. k \notin EnumKeys
      BY KeysDisjoint
    <3>2. int'[k] = IF k = l.key THEN parse_int_value(l.value) ELSE int[k]
      BY <2>1 DEF apply_kv
    <3> QED BY <3>1, <3>2, <1>2, <2>2 DEF NumbersInv
  <2>7. LastWriterWins'
    BY <1>1, <2>4, <2>5 DEF LastWriterWins
  <2>8. NumbersInv'
    BY <1>1, <2>6 DEF NumbersInv
  <2> QED BY <2>7, <2>8
<1> QED BY <1>3, <1>4

-----------------------------------------------------------------------------
(* What the ifs of run_application record.                                 *)

BlockSet == { Blocks[j] : j \in 1..Len(Blocks) }

LEMMA BlockFacts ==
  /\ Len(Blocks) = 17
  /\ \A i, j \in 1..17 : Blocks[i] = Blocks[j] => i = j
  /\ BlockSet = GroundTruthFeatures \cup {"CACHE+DB_MYSQL"}
<1>1. /\ Len(Blocks) = 17
      /\ Blocks[1] = "AUTH" /\ Blocks[2] = "CACHE" /\ Blocks[3] = "TLS"
      /\ Blocks[4] = "DB_MYSQL" /\ Blocks[5] = "DB_SQLITE" /\ Blocks[6] = "ADMIN"
      /\ Blocks[7] = "CACHE+DB_MYSQL" /\ Blocks[8] = "BACKUP" /\ Blocks[9] = "EXPORT"
      /\ Blocks[10] = "METRICS" /\ Blocks[11] = "PRIVILEGED_ADMIN"
      /\ Blocks[12] = "LARGE_EXPORT" /\ Blocks[13] = "QUERY_ACCEL"
      /\ Blocks[14] = "LARGE_WRITE_BACKUP" /\ Blocks[15] = "FAILOVER"
      /\ Blocks[16] = "CLUSTER_SYNC" /\ Blocks[17] = "RECOVERY"
  BY DEF Blocks
<1>2. \A i \in 1..17 : i \in {1, 2, 3, 4, 5, 6, 7, 8, 9, 10, 11, 12, 13, 14, 15, 16, 17}
  OBVIOUS
<1>3. \A i, j \in 1..17 : Blocks[i] = Blocks[j] => i = j
  BY <1>1, <1>2
<1>4. BlockSet = GroundTruthFeatures \cup {"CACHE+DB_MYSQL"}
  BY <1>1, <1>2 DEF BlockSet, GroundTruthFeatures
<1> QED BY <1>1, <1>3, <1>4

\* All that an if can record.
Records(b) ==
  CASE b = "AUTH" -> {FEATURE("AUTH")}
    [] b = "CACHE" -> {FEATURE("CACHE")}
    [] b = "TLS" -> {FEATURE("TLS"), DEP("TLS", "AUTH"), COMBO("AUTH", "TLS")}
    [] b = "DB_MYSQL" -> {FEATURE("DB_MYSQL")}
    [] b = "DB_SQLITE" -> {FEATURE("DB_SQLITE")}
    [] b = "ADMIN" -> {FEATURE("ADMIN"), DEP("ADMIN", "AUTH"), DEP("ADMIN", "TLS"),
                       COMBO("AUTH", "ADMIN"), COMBO("TLS", "ADMIN")}
    [] b = "CACHE+DB_MYSQL" -> {COMBO("CACHE", "DB_MYSQL")}
    [] b = "BACKUP" -> {FEATURE("BACKUP"), DEP("BACKUP", "DB"), DEP("BACKUP", "MODE_WRITE")}
    [] b = "EXPORT" -> {FEATURE("EXPORT"), DEP("EXPORT", "COMPRESS_GZIP"),
                        DEP("EXPORT", "FORMAT_JSON"), COMBO("EXPORT", "COMPRESS_GZIP"),
                        COMBO("EXPORT", "FORMAT_JSON")}
    [] b = "METRICS" -> {FEATURE("METRICS"), COMBO("METRICS", "CACHE")}
    [] b = "PRIVILEGED_ADMIN" -> {FEATURE("PRIVILEGED_ADMIN"),
                                  COMBO("ADMIN", "PRIVILEGED_ADMIN"),
                                  DEP("PRIVILEGED_ADMIN", "ADMIN")}
    [] b = "LARGE_EXPORT" -> {FEATURE("LARGE_EXPORT"), COMBO("EXPORT", "LARGE_EXPORT"),
                              DEP("LARGE_EXPORT", "EXPORT")}
    [] b = "QUERY_ACCEL" -> {FEATURE("QUERY_ACCEL"), COMBO("CACHE", "QUERY_ACCEL"),
                             COMBO("DB_MYSQL", "QUERY_ACCEL"), DEP("QUERY_ACCEL", "CACHE"),
                             DEP("QUERY_ACCEL", "DB_MYSQL")}
    [] b = "LARGE_WRITE_BACKUP" -> {FEATURE("LARGE_WRITE_BACKUP"),
                                    COMBO("BACKUP", "LARGE_WRITE_BACKUP"),
                                    DEP("LARGE_WRITE_BACKUP", "BACKUP")}
    [] b = "FAILOVER" -> {FEATURE("FAILOVER"), COMBO("TLS", "FAILOVER"),
                          COMBO("DB_MYSQL", "FAILOVER"), DEP("FAILOVER", "TLS"),
                          DEP("FAILOVER", "DB_MYSQL")}
    [] b = "CLUSTER_SYNC" -> {FEATURE("CLUSTER_SYNC"), COMBO("FAILOVER", "CLUSTER_SYNC"),
                              COMBO("QUERY_ACCEL", "CLUSTER_SYNC"),
                              DEP("CLUSTER_SYNC", "FAILOVER"),
                              DEP("CLUSTER_SYNC", "QUERY_ACCEL")}
    [] b = "RECOVERY" -> {FEATURE("RECOVERY"), COMBO("LARGE_WRITE_BACKUP", "RECOVERY"),
                          COMBO("CLUSTER_SYNC", "RECOVERY"),
                          DEP("RECOVERY", "LARGE_WRITE_BACKUP"),
                          DEP("RECOVERY", "CLUSTER_SYNC")}

\* Every entry of the ground truth is recorded by one block.
LEMMA RecordsOfTruth ==
  \A e \in GroundTruth : Recorder(e) \in BlockSet /\ e \in Records(Recorder(e))
<1>1. ASSUME NEW a \in GroundTruthFeatures
      PROVE  Recorder(FEATURE(a)) = a /\ FEATURE(a) \in Records(a)
  BY DEF GroundTruthFeatures, Recorder, Records, FEATURE
<1>2. ASSUME NEW d \in GroundTruthDeps
      PROVE  /\ Recorder(DEP(d[1], d[2])) = d[1] /\ d[1] \in GroundTruthFeatures
             /\ DEP(d[1], d[2]) \in Records(d[1])
  BY DEF GroundTruthFeatures, GroundTruthDeps, Recorder, Records, DEP
<1>3. ASSUME NEW c \in GroundTruthCombos
      PROVE  LET e == COMBO(c[1], c[2]) IN
               /\ Recorder(e) \in GroundTruthFeatures \cup {"CACHE+DB_MYSQL"}
               /\ e \in Records(Recorder(e))
  BY DEF GroundTruthFeatures, GroundTruthCombos, Recorder, Records, COMBO
<1> QED BY <1>1, <1>2, <1>3, BlockFacts DEF GroundTruth

\* A block records entries of the ground truth that no other block records.
LEMMA TruthOfRecords ==
  \A b \in BlockSet : \A e \in Records(b) : e \in GroundTruth /\ Recorder(e) = b
<1>1. \A e \in Records("AUTH") : e \in GroundTruth /\ Recorder(e) = "AUTH"
  BY DEF Records, GroundTruth, GroundTruthFeatures, GroundTruthCombos, GroundTruthDeps,
         Recorder, FEATURE, COMBO, DEP
<1>2. \A e \in Records("CACHE") : e \in GroundTruth /\ Recorder(e) = "CACHE"
  BY DEF Records, GroundTruth, GroundTruthFeatures, GroundTruthCombos, GroundTruthDeps,
         Recorder, FEATURE, COMBO, DEP
<1>3. \A e \in Records("TLS") : e \in GroundTruth /\ Recorder(e) = "TLS"
  BY DEF Records, GroundTruth, GroundTruthFeatures, GroundTruthCombos, GroundTruthDeps,
         Recorder, FEATURE, COMBO, DEP
<1>4. \A e \in Records("DB_MYSQL") : e \in GroundTruth /\ Recorder(e) = "DB_MYSQL"
  BY DEF Records, GroundTruth, GroundTruthFeatures, GroundTruthCombos, GroundTruthDeps,
         Recorder, FEATURE, COMBO, DEP
<1>5. \A e \in Records("DB_SQLITE") : e \in GroundTruth /\ Recorder(e) = "DB_SQLITE"
  BY DEF Records, GroundTruth, GroundTruthFeatures, GroundTruthCombos, GroundTruthDeps,
         Recorder, FEATURE, COMBO, DEP
<1>6. \A e \in Records("ADMIN") : e \in GroundTruth /\ Recorder(e) = "ADMIN"
  BY DEF Records, GroundTruth, GroundTruthFeatures, GroundTruthCombos, GroundTruthDeps,
         Recorder, FEATURE, COMBO, DEP
<1>7. \A e \in Records("CACHE+DB_MYSQL") : e \in GroundTruth /\ Recorder(e) = "CACHE+DB_MYSQL"
  BY DEF Records, GroundTruth, GroundTruthFeatures, GroundTruthCombos, GroundTruthDeps,
         Recorder, FEATURE, COMBO, DEP
<1>8. \A e \in Records("BACKUP") : e \in GroundTruth /\ Recorder(e) = "BACKUP"
  BY DEF Records, GroundTruth, GroundTruthFeatures, GroundTruthCombos, GroundTruthDeps,
         Recorder, FEATURE, COMBO, DEP
<1>9. \A e \in Records("EXPORT") : e \in GroundTruth /\ Recorder(e) = "EXPORT"
  BY DEF Records, GroundTruth, GroundTruthFeatures, GroundTruthCombos, GroundTruthDeps,
         Recorder, FEATURE, COMBO, DEP
<1>10. \A e \in Records("METRICS") : e \in GroundTruth /\ Recorder(e) = "METRICS"
  BY DEF Records, GroundTruth, GroundTruthFeatures, GroundTruthCombos, GroundTruthDeps,
         Recorder, FEATURE, COMBO, DEP
<1>11. \A e \in Records("PRIVILEGED_ADMIN") : e \in GroundTruth /\ Recorder(e) = "PRIVILEGED_ADMIN"
  BY DEF Records, GroundTruth, GroundTruthFeatures, GroundTruthCombos, GroundTruthDeps,
         Recorder, FEATURE, COMBO, DEP
<1>12. \A e \in Records("LARGE_EXPORT") : e \in GroundTruth /\ Recorder(e) = "LARGE_EXPORT"
  BY DEF Records, GroundTruth, GroundTruthFeatures, GroundTruthCombos, GroundTruthDeps,
         Recorder, FEATURE, COMBO, DEP
<1>13. \A e \in Records("QUERY_ACCEL") : e \in GroundTruth /\ Recorder(e) = "QUERY_ACCEL"
  BY DEF Records, GroundTruth, GroundTruthFeatures, GroundTruthCombos, GroundTruthDeps,
         Recorder, FEATURE, COMBO, DEP
<1>14. \A e \in Records("LARGE_WRITE_BACKUP") : e \in GroundTruth /\ Recorder(e) = "LARGE_WRITE_BACKUP"
  BY DEF Records, GroundTruth, GroundTruthFeatures, GroundTruthCombos, GroundTruthDeps,
         Recorder, FEATURE, COMBO, DEP
<1>15. \A e \in Records("FAILOVER") : e \in GroundTruth /\ Recorder(e) = "FAILOVER"
  BY DEF Records, GroundTruth, GroundTruthFeatures, GroundTruthCombos, GroundTruthDeps,
         Recorder, FEATURE, COMBO, DEP
<1>16. \A e \in Records("CLUSTER_SYNC") : e \in GroundTruth /\ Recorder(e) = "CLUSTER_SYNC"
  BY DEF Records, GroundTruth, GroundTruthFeatures, GroundTruthCombos, GroundTruthDeps,
         Recorder, FEATURE, COMBO, DEP
<1>17. \A e \in Records("RECOVERY") : e \in GroundTruth /\ Recorder(e) = "RECOVERY"
  BY DEF Records, GroundTruth, GroundTruthFeatures, GroundTruthCombos, GroundTruthDeps,
         Recorder, FEATURE, COMBO, DEP
<1> QED BY <1>1, <1>2, <1>3, <1>4, <1>5, <1>6, <1>7, <1>8, <1>9, <1>10, <1>11, <1>12, <1>13, <1>14, <1>15, <1>16, <1>17, BlockFacts DEF GroundTruthFeatures

\* The sequence s records exactly what block b has to record, each once, and
\* the feature of the block first.
Recording(b, s) ==
  /\ s \in Seq(Records(b))
  /\ { s[n] : n \in 1..Len(s) } = { e \in Records(b) : Also(e) }
  /\ \A m, n \in 1..Len(s) : s[m] = s[n] => m = n
  /\ b # "CACHE+DB_MYSQL" => Len(s) >= 1 /\ s[1] = FEATURE(b)

LEMMA RecordOne ==
  ASSUME NEW a, NEW x PROVE record(a, <<x>>) = <<FEATURE(a), COMBO(x, a), DEP(a, x)>>
<1> DEFINE combos == [k \in DOMAIN <<x>> |-> COMBO(<<x>>[k], a)]
           deps == [k \in DOMAIN <<x>> |-> DEP(a, <<x>>[k])]
<1>1. combos = <<COMBO(x, a)>> /\ deps = <<DEP(a, x)>>
  OBVIOUS
<1>2. record(a, <<x>>) = <<FEATURE(a)>> \o combos \o deps
  BY DEF record
<1> HIDE DEF combos, deps
<1> QED BY <1>1, <1>2

LEMMA RecordTwo ==
  ASSUME NEW a, NEW x, NEW y
  PROVE  record(a, <<x, y>>) =
           <<FEATURE(a), COMBO(x, a), COMBO(y, a), DEP(a, x), DEP(a, y)>>
<1> DEFINE combos == [k \in DOMAIN <<x, y>> |-> COMBO(<<x, y>>[k], a)]
           deps == [k \in DOMAIN <<x, y>> |-> DEP(a, <<x, y>>[k])]
<1>1. combos = <<COMBO(x, a), COMBO(y, a)>> /\ deps = <<DEP(a, x), DEP(a, y)>>
  OBVIOUS
<1>2. record(a, <<x, y>>) = <<FEATURE(a)>> \o combos \o deps
  BY DEF record
<1> HIDE DEF combos, deps
<1> QED BY <1>1, <1>2

\* Three different entries, one after the other.
LEMMA RecordingThree ==
  ASSUME NEW b, b # "CACHE+DB_MYSQL", NEW x, NEW y,
         Records(b) = {FEATURE(b), x, y}, FEATURE(b) # x, FEATURE(b) # y, x # y,
         Also(FEATURE(b)), Also(x), Also(y)
  PROVE  Recording(b, <<FEATURE(b), x, y>>)
<1> DEFINE s == <<FEATURE(b), x, y>>
<1>1. Len(s) = 3 /\ s[1] = FEATURE(b) /\ s[2] = x /\ s[3] = y
  OBVIOUS
<1>2. s \in Seq(Records(b))
  OBVIOUS
<1>3. \A n \in 1..3 : n = 1 \/ n = 2 \/ n = 3
  OBVIOUS
<1> HIDE DEF s
<1>4. { s[n] : n \in 1..3 } = { e \in Records(b) : Also(e) }
  BY <1>1, <1>3
<1>5. \A m, n \in 1..3 : s[m] = s[n] => m = n
  BY <1>1, <1>3
<1> QED BY <1>1, <1>2, <1>4, <1>5 DEF Recording, s

\* And five.
LEMMA RecordingFive ==
  ASSUME NEW b, b # "CACHE+DB_MYSQL", NEW w, NEW x, NEW y, NEW z,
         Records(b) = {FEATURE(b), w, x, y, z},
         FEATURE(b) # w, FEATURE(b) # x, FEATURE(b) # y, FEATURE(b) # z,
         w # x, w # y, w # z, x # y, x # z, y # z,
         Also(FEATURE(b)), Also(w), Also(x), Also(y), Also(z)
  PROVE  Recording(b, <<FEATURE(b), w, x, y, z>>)
<1> DEFINE s == <<FEATURE(b), w, x, y, z>>
<1>1. Len(s) = 5 /\ s[1] = FEATURE(b) /\ s[2] = w /\ s[3] = x /\ s[4] = y /\ s[5] = z
  OBVIOUS
<1>2. s \in Seq(Records(b))
  OBVIOUS
<1>3. \A n \in 1..5 : n = 1 \/ n = 2 \/ n = 3 \/ n = 4 \/ n = 5
  OBVIOUS
<1> HIDE DEF s
<1>4. { s[n] : n \in 1..5 } = { e \in Records(b) : Also(e) }
  BY <1>1, <1>3
<1>5. \A m, n \in 1..5 : s[m] = s[n] => m = n
  BY <1>1, <1>3
<1> QED BY <1>1, <1>2, <1>4, <1>5 DEF Recording, s

\* An if that records one entry.
LEMMA RecordingOne ==
  ASSUME NEW b, NEW x, Also(x), b # "CACHE+DB_MYSQL" => x = FEATURE(b), x \in Records(b),
         \A e \in Records(b) : Also(e) => e = x
  PROVE  Recording(b, <<x>>)
<1> DEFINE s == <<x>>
<1>1. Len(s) = 1 /\ s[1] = x
  OBVIOUS
<1>2. s \in Seq(Records(b))
  OBVIOUS
<1>3. \A n \in 1..1 : n = 1
  OBVIOUS
<1> HIDE DEF s
<1>4. { s[n] : n \in 1..1 } = { e \in Records(b) : Also(e) }
  BY <1>1, <1>3
<1> QED BY <1>1, <1>2, <1>3, <1>4 DEF Recording, s

\* And two.
LEMMA RecordingTwo ==
  ASSUME NEW b, b # "CACHE+DB_MYSQL", NEW x,
         Records(b) = {FEATURE(b), x}, FEATURE(b) # x, Also(FEATURE(b)), Also(x)
  PROVE  Recording(b, <<FEATURE(b), x>>)
<1> DEFINE s == <<FEATURE(b), x>>
<1>1. Len(s) = 2 /\ s[1] = FEATURE(b) /\ s[2] = x
  OBVIOUS
<1>2. s \in Seq(Records(b))
  OBVIOUS
<1>3. \A n \in 1..2 : n = 1 \/ n = 2
  OBVIOUS
<1> HIDE DEF s
<1>4. { s[n] : n \in 1..2 } = { e \in Records(b) : Also(e) }
  BY <1>1, <1>3
<1>5. \A m, n \in 1..2 : s[m] = s[n] => m = n
  BY <1>1, <1>3
<1> QED BY <1>1, <1>2, <1>4, <1>5 DEF Recording, s

\* What the body of an if records is what it has to record.
LEMMA EventsRecord == \A b \in BlockSet : Recording(b, events(b))
<1> USE DEF FEATURE, COMBO, DEP, Also
<1>1. Recording("AUTH", events("AUTH"))
  <2>1. events("AUTH") = <<FEATURE("AUTH")>> /\ Records("AUTH") = {FEATURE("AUTH")}
    BY DEF events, Records
  <2> QED BY <2>1, RecordingOne
<1>2. Recording("CACHE", events("CACHE"))
  <2>1. events("CACHE") = <<FEATURE("CACHE")>> /\ Records("CACHE") = {FEATURE("CACHE")}
    BY DEF events, Records
  <2> QED BY <2>1, RecordingOne
<1>3. Recording("DB_MYSQL", events("DB_MYSQL"))
  <2>1. events("DB_MYSQL") = <<FEATURE("DB_MYSQL")>> /\ Records("DB_MYSQL") = {FEATURE("DB_MYSQL")}
    BY DEF events, Records
  <2> QED BY <2>1, RecordingOne
<1>4. Recording("DB_SQLITE", events("DB_SQLITE"))
  <2>1. events("DB_SQLITE") = <<FEATURE("DB_SQLITE")>> /\ Records("DB_SQLITE") = {FEATURE("DB_SQLITE")}
    BY DEF events, Records
  <2> QED BY <2>1, RecordingOne
<1>5. Recording("CACHE+DB_MYSQL", events("CACHE+DB_MYSQL"))
  <2>1. /\ events("CACHE+DB_MYSQL") = <<COMBO("CACHE", "DB_MYSQL")>>
        /\ Records("CACHE+DB_MYSQL") = {COMBO("CACHE", "DB_MYSQL")}
    BY DEF events, Records
  <2> QED BY <2>1, RecordingOne
<1>6. Recording("PRIVILEGED_ADMIN", events("PRIVILEGED_ADMIN"))
  <2>1. events("PRIVILEGED_ADMIN") = record("PRIVILEGED_ADMIN", <<"ADMIN">>)
    BY DEF events
  <2>2. Records("PRIVILEGED_ADMIN") =
          {FEATURE("PRIVILEGED_ADMIN"), COMBO("ADMIN", "PRIVILEGED_ADMIN"),
           DEP("PRIVILEGED_ADMIN", "ADMIN")}
    BY DEF Records
  <2> QED BY <2>1, <2>2, RecordOne, RecordingThree
<1>7. Recording("LARGE_EXPORT", events("LARGE_EXPORT"))
  <2>1. events("LARGE_EXPORT") = record("LARGE_EXPORT", <<"EXPORT">>)
    BY DEF events
  <2>2. Records("LARGE_EXPORT") =
          {FEATURE("LARGE_EXPORT"), COMBO("EXPORT", "LARGE_EXPORT"),
           DEP("LARGE_EXPORT", "EXPORT")}
    BY DEF Records
  <2> QED BY <2>1, <2>2, RecordOne, RecordingThree
<1>8. Recording("LARGE_WRITE_BACKUP", events("LARGE_WRITE_BACKUP"))
  <2>1. events("LARGE_WRITE_BACKUP") = record("LARGE_WRITE_BACKUP", <<"BACKUP">>)
    BY DEF events
  <2>2. Records("LARGE_WRITE_BACKUP") =
          {FEATURE("LARGE_WRITE_BACKUP"), COMBO("BACKUP", "LARGE_WRITE_BACKUP"),
           DEP("LARGE_WRITE_BACKUP", "BACKUP")}
    BY DEF Records
  <2> QED BY <2>1, <2>2, RecordOne, RecordingThree
<1>9. Recording("QUERY_ACCEL", events("QUERY_ACCEL"))
  <2>1. events("QUERY_ACCEL") = record("QUERY_ACCEL", <<"CACHE", "DB_MYSQL">>)
    BY DEF events
  <2>2. Records("QUERY_ACCEL") =
          {FEATURE("QUERY_ACCEL"), COMBO("CACHE", "QUERY_ACCEL"), COMBO("DB_MYSQL", "QUERY_ACCEL"),
           DEP("QUERY_ACCEL", "CACHE"), DEP("QUERY_ACCEL", "DB_MYSQL")}
    BY DEF Records
  <2> QED BY <2>1, <2>2, RecordTwo, RecordingFive
<1>10. Recording("FAILOVER", events("FAILOVER"))
  <2>1. events("FAILOVER") = record("FAILOVER", <<"TLS", "DB_MYSQL">>)
    BY DEF events
  <2>2. Records("FAILOVER") =
          {FEATURE("FAILOVER"), COMBO("TLS", "FAILOVER"), COMBO("DB_MYSQL", "FAILOVER"),
           DEP("FAILOVER", "TLS"), DEP("FAILOVER", "DB_MYSQL")}
    BY DEF Records
  <2> QED BY <2>1, <2>2, RecordTwo, RecordingFive
<1>11. Recording("CLUSTER_SYNC", events("CLUSTER_SYNC"))
  <2>1. events("CLUSTER_SYNC") = record("CLUSTER_SYNC", <<"FAILOVER", "QUERY_ACCEL">>)
    BY DEF events
  <2>2. Records("CLUSTER_SYNC") =
          {FEATURE("CLUSTER_SYNC"), COMBO("FAILOVER", "CLUSTER_SYNC"), COMBO("QUERY_ACCEL", "CLUSTER_SYNC"),
           DEP("CLUSTER_SYNC", "FAILOVER"), DEP("CLUSTER_SYNC", "QUERY_ACCEL")}
    BY DEF Records
  <2> QED BY <2>1, <2>2, RecordTwo, RecordingFive
<1>12. Recording("RECOVERY", events("RECOVERY"))
  <2>1. events("RECOVERY") = record("RECOVERY", <<"LARGE_WRITE_BACKUP", "CLUSTER_SYNC">>)
    BY DEF events
  <2>2. Records("RECOVERY") =
          {FEATURE("RECOVERY"), COMBO("LARGE_WRITE_BACKUP", "RECOVERY"), COMBO("CLUSTER_SYNC", "RECOVERY"),
           DEP("RECOVERY", "LARGE_WRITE_BACKUP"), DEP("RECOVERY", "CLUSTER_SYNC")}
    BY DEF Records
  <2> QED BY <2>1, <2>2, RecordTwo, RecordingFive
<1>13. Recording("ADMIN", events("ADMIN"))
  BY RecordingFive DEF events, Records
<1>14. Recording("EXPORT", events("EXPORT"))
  BY RecordingFive DEF events, Records
<1>15. Recording("BACKUP", events("BACKUP"))
  BY RecordingThree DEF events, Records
<1>16. Recording("TLS", events("TLS"))
  <2>1. CASE flag["AUTH"]
    BY <2>1, RecordingThree DEF events, Records
  <2>2. CASE ~ flag["AUTH"]
    BY <2>2, RecordingOne DEF events, Records
  <2> QED BY <2>1, <2>2
<1>17. Recording("METRICS", events("METRICS"))
  <2>1. CASE flag["CACHE"] /\ int["TIMEOUT"] >= 100
    BY <2>1, RecordingTwo DEF events, Records
  <2>2. CASE ~ (flag["CACHE"] /\ int["TIMEOUT"] >= 100)
    BY <2>2, RecordingOne DEF events, Records
  <2> QED BY <2>1, <2>2
<1> QED
  BY <1>1, <1>2, <1>3, <1>4, <1>5, <1>6, <1>7, <1>8, <1>9, <1>10, <1>11, <1>12, <1>13, <1>14, <1>15, <1>16, <1>17,
     BlockFacts DEF GroundTruthFeatures

-----------------------------------------------------------------------------
(* One if of run_application.                                              *)

Before(a, b) == \E i, j \in 1..17 : i < j /\ Blocks[i] = a /\ Blocks[j] = b

LEMMA BeforeFacts ==
  /\ Before("AUTH", "TLS") /\ Before("AUTH", "ADMIN") /\ Before("TLS", "ADMIN")
  /\ Before("CACHE", "CACHE+DB_MYSQL") /\ Before("DB_MYSQL", "CACHE+DB_MYSQL")
  /\ Before("CACHE", "METRICS") /\ Before("ADMIN", "PRIVILEGED_ADMIN")
  /\ Before("EXPORT", "LARGE_EXPORT") /\ Before("CACHE", "QUERY_ACCEL")
  /\ Before("DB_MYSQL", "QUERY_ACCEL") /\ Before("BACKUP", "LARGE_WRITE_BACKUP")
  /\ Before("TLS", "FAILOVER") /\ Before("DB_MYSQL", "FAILOVER")
  /\ Before("FAILOVER", "CLUSTER_SYNC") /\ Before("QUERY_ACCEL", "CLUSTER_SYNC")
  /\ Before("LARGE_WRITE_BACKUP", "RECOVERY") /\ Before("CLUSTER_SYNC", "RECOVERY")
<1>1. \A i, j \in Int : 1 <= i /\ i < j /\ j <= 17 => Before(Blocks[i], Blocks[j])
  <2> SUFFICES ASSUME NEW i \in Int, NEW j \in Int, 1 <= i, i < j, j <= 17
               PROVE  Before(Blocks[i], Blocks[j])
    OBVIOUS
  <2>1. i \in 1..17 /\ j \in 1..17
    OBVIOUS
  <2> QED BY <2>1 DEF Before
<1>2. /\ Blocks[1] = "AUTH" /\ Blocks[2] = "CACHE" /\ Blocks[3] = "TLS"
      /\ Blocks[4] = "DB_MYSQL" /\ Blocks[6] = "ADMIN" /\ Blocks[7] = "CACHE+DB_MYSQL"
      /\ Blocks[8] = "BACKUP" /\ Blocks[9] = "EXPORT" /\ Blocks[10] = "METRICS"
      /\ Blocks[11] = "PRIVILEGED_ADMIN" /\ Blocks[12] = "LARGE_EXPORT"
      /\ Blocks[13] = "QUERY_ACCEL" /\ Blocks[14] = "LARGE_WRITE_BACKUP"
      /\ Blocks[15] = "FAILOVER" /\ Blocks[16] = "CLUSTER_SYNC" /\ Blocks[17] = "RECOVERY"
  BY DEF Blocks
<1> HIDE DEF Before
<1>3. /\ Before(Blocks[1], Blocks[3]) /\ Before(Blocks[1], Blocks[6])
      /\ Before(Blocks[3], Blocks[6]) /\ Before(Blocks[2], Blocks[7])
      /\ Before(Blocks[4], Blocks[7]) /\ Before(Blocks[2], Blocks[10])
  BY <1>1
<1>4. /\ Before(Blocks[6], Blocks[11]) /\ Before(Blocks[9], Blocks[12])
      /\ Before(Blocks[2], Blocks[13]) /\ Before(Blocks[4], Blocks[13])
      /\ Before(Blocks[8], Blocks[14]) /\ Before(Blocks[3], Blocks[15])
  BY <1>1
<1>5. /\ Before(Blocks[4], Blocks[15]) /\ Before(Blocks[15], Blocks[16])
      /\ Before(Blocks[13], Blocks[16]) /\ Before(Blocks[14], Blocks[17])
      /\ Before(Blocks[16], Blocks[17])
  BY <1>1
<1> QED BY <1>2, <1>3, <1>4, <1>5

\* The features an entry relates to that of its block are wanted as well, and
\* their ifs come before.
LEMMA RelatedWanted ==
  ASSUME NEW b \in BlockSet, wants(b), NEW e \in Records(b), Also(e), e[1] # "FEATURE",
         NEW a \in {e[2], e[3]} \cap GroundTruthFeatures
  PROVE  a = b \/ (wants(a) /\ Before(a, b))
<1> USE BeforeFacts DEF wants, Records, Also, FEATURE, COMBO, DEP, GroundTruthFeatures
<1>1. CASE b = "AUTH"
  BY <1>1
<1>2. CASE b = "CACHE"
  BY <1>2
<1>3. CASE b = "TLS"
  BY <1>3
<1>4. CASE b = "DB_MYSQL"
  BY <1>4
<1>5. CASE b = "DB_SQLITE"
  BY <1>5
<1>6. CASE b = "ADMIN"
  BY <1>6 DEF wants_admin
<1>7. CASE b = "CACHE+DB_MYSQL"
  BY <1>7
<1>8. CASE b = "BACKUP"
  BY <1>8
<1>9. CASE b = "EXPORT"
  BY <1>9
<1>10. CASE b = "METRICS"
  BY <1>10
<1>11. CASE b = "PRIVILEGED_ADMIN"
  BY <1>11 DEF wants_privileged
<1>12. CASE b = "LARGE_EXPORT"
  BY <1>12 DEF wants_large_export
<1>13. CASE b = "QUERY_ACCEL"
  BY <1>13 DEF wants_accel
<1>14. CASE b = "LARGE_WRITE_BACKUP"
  BY <1>14 DEF wants_large_write, has_db, mysql
<1>15. CASE b = "FAILOVER"
  BY <1>15 DEF wants_failover
<1>16. CASE b = "CLUSTER_SYNC"
  BY <1>16 DEF wants_cluster
<1>17. CASE b = "RECOVERY"
  BY <1>17
<1> QED
  BY <1>1, <1>2, <1>3, <1>4, <1>5, <1>6, <1>7, <1>8, <1>9, <1>10, <1>11, <1>12, <1>13, <1>14, <1>15, <1>16, <1>17,
     BlockFacts

\* The local flags make no difference: each if is entered when it is wanted.
LEMMA ConditionIsWants ==
  ASSUME UnlockedInv, block \in 0..16
  PROVE  condition(Blocks[block + 1]) <=> wants(Blocks[block + 1])
<1> DEFINE b == Blocks[block + 1]
<1>1. block + 1 \in 1..17
  OBVIOUS
<1>2. b \in BlockSet
  BY <1>1, BlockFacts DEF BlockSet
<1>3. \A a : Before(a, b) => (a \in unlocked <=> wants(a))
  <2> SUFFICES ASSUME NEW a, NEW i \in 1..17, NEW j \in 1..17, i < j,
                      Blocks[i] = a, Blocks[j] = b
               PROVE  a \in unlocked <=> wants(a)
    BY DEF Before
  <2>1. j = block + 1
    BY <1>1, BlockFacts
  <2> QED BY <2>1 DEF UnlockedInv
<1> HIDE DEF b
<1>4. CASE b = "PRIVILEGED_ADMIN"
  <2>1. "ADMIN" \in unlocked <=> wants_admin
    BY <1>3, <1>4, BeforeFacts DEF wants
  <2> QED BY <2>1, <1>4 DEF condition, wants, privileged_admin_guard, wants_privileged
<1>5. CASE b = "CLUSTER_SYNC"
  <2>1. /\ "FAILOVER" \in unlocked <=> wants_failover
        /\ "QUERY_ACCEL" \in unlocked <=> wants_accel
    BY <1>3, <1>5, BeforeFacts DEF wants
  <2> QED BY <2>1, <1>5 DEF condition, wants, wants_cluster, wants_accel
<1>6. CASE b = "RECOVERY"
  <2>1. /\ Before("LARGE_EXPORT", "RECOVERY") /\ Before("PRIVILEGED_ADMIN", "RECOVERY")
    BY DEF Before, Blocks
  <2>2. /\ "CLUSTER_SYNC" \in unlocked <=> wants_cluster
        /\ "LARGE_WRITE_BACKUP" \in unlocked <=> wants_large_write
        /\ "LARGE_EXPORT" \in unlocked <=> wants_large_export
        /\ "PRIVILEGED_ADMIN" \in unlocked <=> wants_privileged
    BY <1>3, <1>6, <2>1, BeforeFacts DEF wants
  <2> QED BY <2>2, <1>6 DEF condition, wants, wants_cluster
<1>7. CASE b \notin {"PRIVILEGED_ADMIN", "CLUSTER_SYNC", "RECOVERY"}
  <2>1. b \in {"AUTH", "CACHE", "TLS", "DB_MYSQL", "DB_SQLITE", "ADMIN", "CACHE+DB_MYSQL",
               "BACKUP", "EXPORT", "METRICS", "LARGE_EXPORT", "QUERY_ACCEL",
               "LARGE_WRITE_BACKUP", "FAILOVER"}
    BY <1>2, <1>7, BlockFacts DEF GroundTruthFeatures
  <2> QED
    BY <2>1 DEF condition, wants, wants_admin, wants_export, wants_large_export, wants_accel,
                wants_large_write, wants_failover
<1> QED BY <1>4, <1>5, <1>6, <1>7 DEF b

\* What is wanted depends on the settings only.
LEMMA WantsOfSettings ==
  ASSUME UNCHANGED configVars
  PROVE  /\ \A b : wants(b)' <=> wants(b)
         /\ \A e : Also(e)' <=> Also(e)
<1>1. ASSUME NEW b PROVE wants(b)' <=> wants(b)
  BY DEF configVars, wants, wants_admin, wants_export, wants_privileged, wants_large_export,
         wants_accel, wants_large_write, wants_failover, wants_cluster, mysql, has_db,
         mode_write, gzip_json
<1>2. ASSUME NEW e PROVE Also(e)' <=> Also(e)
  BY DEF configVars, Also
<1> QED BY <1>1, <1>2

\* l is s followed by t.
Joined(l, s, t) ==
  /\ Len(l) = Len(s) + Len(t)
  /\ \A n \in 1..Len(s) : l[n] = s[n]
  /\ \A n \in 1..Len(t) : l[Len(s) + n] = t[n]
  /\ \A n \in 1..Len(l) : n \in 1..Len(s) \/ (\E m \in 1..Len(t) : n = Len(s) + m)

LEMMA ConcatIndex ==
  ASSUME NEW S, NEW s \in Seq(S), NEW t \in Seq(S)
  PROVE  s \o t \in Seq(S) /\ Joined(s \o t, s, t)
<1>1. /\ s \o t \in Seq(S) /\ Len(s \o t) = Len(s) + Len(t)
      /\ \A n \in 1..(Len(s) + Len(t)) :
           (s \o t)[n] = IF n <= Len(s) THEN s[n] ELSE t[n - Len(s)]
  BY ConcatProperties
<1>2. Len(s) \in Nat /\ Len(t) \in Nat
  OBVIOUS
<1>3. \A n \in 1..Len(s) : (s \o t)[n] = s[n]
  BY <1>1, <1>2
<1>4. ASSUME NEW n \in 1..Len(t) PROVE (s \o t)[Len(s) + n] = t[n]
  <2>1. /\ Len(s) + n \in 1..(Len(s) + Len(t)) /\ ~ (Len(s) + n <= Len(s))
        /\ (Len(s) + n) - Len(s) = n
    BY <1>2
  <2> QED BY <1>1, <2>1
<1>5. ASSUME NEW n \in 1..Len(s \o t), n \notin 1..Len(s)
      PROVE  \E m \in 1..Len(t) : n = Len(s) + m
  <2>1. n - Len(s) \in 1..Len(t) /\ n = Len(s) + (n - Len(s))
    BY <1>1, <1>2, <1>5
  <2> QED BY <2>1
<1> QED BY <1>1, <1>3, <1>4, <1>5 DEF Joined

\* What an if does to the local flags and the log, given what it records.
LEMMA RunBlockFacts ==
  ASSUME TypeOK, UnlockedInv, RunBlock
  PROVE  LET b == Blocks[block + 1] IN
           /\ block \in 0..16 /\ block' = block + 1
           /\ b \in BlockSet /\ b \notin unlocked
           /\ wants(b) => log' = log \o events(b) /\ unlocked' = unlocked \cup {b}
           /\ ~ wants(b) => log' = log /\ unlocked' = unlocked
           /\ UNCHANGED configVars
<1>1. block \in 0..16 /\ block' = block + 1 /\ UNCHANGED configVars
  BY BlockFacts DEF TypeOK, RunBlock
<1>2. Blocks[block + 1] \in BlockSet
  BY <1>1, BlockFacts DEF BlockSet
<1>3. Blocks[block + 1] \notin unlocked
  <2>1. unlocked \subseteq { Blocks[j] : j \in 1..block }
    BY DEF TypeOK
  <2>2. block + 1 \in 1..17 /\ \A j \in 1..block : j \in 1..17 /\ j # block + 1
    BY <1>1
  <2> QED BY <2>1, <2>2, BlockFacts
<1>4. condition(Blocks[block + 1]) <=> wants(Blocks[block + 1])
  BY <1>1, ConditionIsWants
<1>5. /\ condition(Blocks[block + 1]) =>
           /\ log' = log \o events(Blocks[block + 1])
           /\ unlocked' = unlocked \union {Blocks[block + 1]}
      /\ ~ condition(Blocks[block + 1]) => log' = log /\ unlocked' = unlocked
  BY DEF RunBlock
<1> QED BY <1>1, <1>2, <1>3, <1>4, <1>5

LEMMA EventsOfTruth ==
  ASSUME NEW b \in BlockSet PROVE events(b) \in Seq(GroundTruth)
<1>1. events(b) \in Seq(Records(b))
  BY EventsRecord DEF Recording
<1>2. Records(b) \subseteq GroundTruth
  BY TruthOfRecords
<1> QED BY <1>1, <1>2

LEMMA RunBlockUnlocked ==
  ASSUME TypeOK, UnlockedInv, RunBlock PROVE UnlockedInv'
<1> DEFINE b == Blocks[block + 1]
<1>1. /\ block \in 0..16 /\ block' = block + 1
      /\ b \notin unlocked
      /\ wants(b) => unlocked' = unlocked \cup {b}
      /\ ~ wants(b) => unlocked' = unlocked
      /\ UNCHANGED configVars
  BY RunBlockFacts
<1>2. \A a : wants(a)' <=> wants(a)
  BY <1>1, WantsOfSettings
<1>3. \A j \in 1..block : Blocks[j] # b
  <2>1. block + 1 \in 1..17 /\ \A j \in 1..block : j \in 1..17 /\ j # block + 1
    BY <1>1
  <2> QED BY <2>1, BlockFacts
<1>4. \A j \in 1..(block + 1) : j \in 1..block \/ j = block + 1
  BY <1>1
<1>5. \A j \in 1..(block + 1) : Blocks[j] \in unlocked' <=> wants(Blocks[j])
  <2>1. ASSUME NEW j \in 1..block PROVE Blocks[j] \in unlocked' <=> wants(Blocks[j])
    <3>1. Blocks[j] \in unlocked' <=> Blocks[j] \in unlocked
      BY <1>1, <1>3
    <3> QED BY <3>1 DEF UnlockedInv
  <2>2. b \in unlocked' <=> wants(b)
    BY <1>1
  <2> QED BY <2>1, <2>2, <1>4
<1> QED BY <1>1, <1>2, <1>5 DEF UnlockedInv

LEMMA RunBlockLog ==
  ASSUME TypeOK, UnlockedInv, LogInv, RunBlock PROVE LogInv'
<1> DEFINE b == Blocks[block + 1]
           s == events(b)
<1>1. /\ b \in BlockSet /\ b \notin unlocked
      /\ wants(b) => log' = log \o s /\ unlocked' = unlocked \cup {b}
      /\ ~ wants(b) => log' = log /\ unlocked' = unlocked
      /\ UNCHANGED configVars
  BY RunBlockFacts
<1>2. \A e : Also(e)' <=> Also(e)
  BY <1>1, WantsOfSettings
<1>3. log \in Seq(GroundTruth) /\ s \in Seq(GroundTruth)
  BY <1>1, EventsOfTruth DEF TypeOK
<1>4. { s[n] : n \in 1..Len(s) } = { e \in Records(b) : Also(e) }
  BY <1>1, EventsRecord DEF Recording
<1>5. { e \in Records(b) : Also(e) } = { e \in GroundTruth : Recorder(e) = b /\ Also(e) }
  BY <1>1, RecordsOfTruth, TruthOfRecords
<1> HIDE DEF b, s
<1>6. CASE wants(b)
  <2>1. { (log \o s)[n] : n \in 1..Len(log \o s) } = Logged \cup { s[n] : n \in 1..Len(s) }
    <3> DEFINE l == log \o s
    <3>0. Joined(l, log, s)
      BY <1>3, ConcatIndex
    <3> HIDE DEF l
    <3>1. /\ Len(l) = Len(log) + Len(s)
          /\ \A n \in 1..Len(log) : l[n] = log[n]
          /\ \A n \in 1..Len(s) : l[Len(log) + n] = s[n]
          /\ \A n \in 1..Len(l) : n \in 1..Len(log) \/ (\E m \in 1..Len(s) : n = Len(log) + m)
      BY <3>0 DEF Joined
    <3>2. /\ \A n \in 1..Len(log) : n \in 1..Len(l)
          /\ \A n \in 1..Len(s) : Len(log) + n \in 1..Len(l)
      BY <3>1, <1>3
    <3>3. ASSUME NEW n \in 1..Len(l) PROVE l[n] \in Logged \cup { s[m] : m \in 1..Len(s) }
      <4>1. CASE n \in 1..Len(log)
        BY <4>1, <3>1 DEF Logged
      <4>2. ASSUME NEW m \in 1..Len(s), n = Len(log) + m PROVE l[n] = s[m]
        BY <4>2, <3>1
      <4> QED BY <4>1, <4>2, <3>1
    <3>4. \A n \in 1..Len(log) : log[n] \in { l[m] : m \in 1..Len(l) }
      BY <3>1, <3>2
    <3>5. \A n \in 1..Len(s) : s[n] \in { l[m] : m \in 1..Len(l) }
      BY <3>1, <3>2
    <3> DEFINE L == { l[n] : n \in 1..Len(l) }
               T == { s[n] : n \in 1..Len(s) }
    <3>6. L \subseteq Logged \cup T
      BY <3>3
    <3>7. Logged \subseteq L
      BY <3>4 DEF Logged
    <3>8. T \subseteq L
      BY <3>5
    <3> HIDE DEF L, T
    <3>9. L = Logged \cup T
      BY <3>6, <3>7, <3>8
    <3> QED BY <3>9 DEF L, T, l
  <2>2. Logged' = Logged \cup { e \in GroundTruth : Recorder(e) = b /\ Also(e) }
    <3>1. log' = log \o s
      BY <1>1, <1>6
    <3>2. Logged' = { (log \o s)[n] : n \in 1..Len(log \o s) }
      BY <3>1, Zenon DEF Logged
    <3> QED BY <3>2, <2>1, <1>4, <1>5, Zenon
  <2>3. unlocked' = unlocked \cup {b}
    BY <1>1, <1>6
  <2>4. Logged' = { e \in GroundTruth : Recorder(e) \in unlocked' /\ Also(e) }
    BY <2>2, <2>3 DEF LogInv
  <2> QED BY <2>4, <1>2 DEF LogInv
<1>7. CASE ~ wants(b)
  <2>1. Logged' = Logged /\ unlocked' = unlocked
    BY <1>1, <1>7 DEF Logged
  <2> QED BY <2>1, <1>2 DEF LogInv
<1> QED BY <1>6, <1>7

\* A feature whose if is passed and that is wanted is in the log.
LEMMA FeatureLogged ==
  ASSUME UnlockedInv, LogInv, NEW a \in GroundTruthFeatures, wants(a),
         Before(a, Blocks[block + 1]), block \in 0..16
  PROVE  FEATURE(a) \in Logged
<1>1. PICK i \in 1..17, j \in 1..17 : i < j /\ Blocks[i] = a /\ Blocks[j] = Blocks[block + 1]
  BY DEF Before
<1>2. j = block + 1
  <2>1. block + 1 \in 1..17
    OBVIOUS
  <2> QED BY <1>1, <2>1, BlockFacts
<1>3. a \in unlocked
  BY <1>1, <1>2 DEF UnlockedInv
<1>4. FEATURE(a) \in GroundTruth /\ Recorder(FEATURE(a)) = a
  BY DEF GroundTruth, Recorder, FEATURE
<1>5. Also(FEATURE(a))
  BY DEF Also, FEATURE, COMBO, DEP
<1> QED BY <1>3, <1>4, <1>5 DEF LogInv

LEMMA RunBlockOrder ==
  ASSUME TypeOK, UnlockedInv, LogInv, LoggedAfterItsFeatures, RunBlock
  PROVE  LoggedAfterItsFeatures'
<1> DEFINE b == Blocks[block + 1]
           s == events(b)
           upto(l, n) == { l[m] : m \in 1..(n - 1) }
           after(l, n) ==
             /\ l[n] \notin upto(l, n)
             /\ l[n][1] # "FEATURE" =>
                  \A a \in {l[n][2], l[n][3]} \intersect GroundTruthFeatures :
                    FEATURE(a) \in upto(l, n)
<1>1. /\ b \in BlockSet /\ b \notin unlocked /\ block \in 0..16
      /\ wants(b) => log' = log \o s
      /\ ~ wants(b) => log' = log
  BY RunBlockFacts
<1>2. log \in Seq(GroundTruth) /\ s \in Seq(GroundTruth)
  BY <1>1, EventsOfTruth DEF TypeOK
<1>3. Recording(b, s)
  BY <1>1, EventsRecord
<1>4. \A n \in 1..Len(log) : after(log, n)
  BY DEF LoggedAfterItsFeatures
<1>5. (\A n \in 1..Len(log') : after(log', n)) => LoggedAfterItsFeatures'
  BY DEF LoggedAfterItsFeatures
<1>6. \A a \in GroundTruthFeatures : wants(a) /\ Before(a, b) => FEATURE(a) \in Logged
  BY <1>1, FeatureLogged
<1> HIDE DEF b, s
<1>7. CASE wants(b)
  <2> DEFINE l == log \o s
  <2>0. Joined(l, log, s) /\ log' = l
    BY <1>1, <1>2, <1>7, ConcatIndex
  <2> HIDE DEF l
  <2>1. /\ Len(l) = Len(log) + Len(s)
        /\ \A n \in 1..Len(log) : l[n] = log[n]
        /\ \A n \in 1..Len(s) : l[Len(log) + n] = s[n]
        /\ \A n \in 1..Len(l) : n \in 1..Len(log) \/ (\E m \in 1..Len(s) : n = Len(log) + m)
    BY <2>0 DEF Joined
  <2>2. Len(log) \in Nat /\ Len(s) \in Nat
    BY <1>2
  <2>3. ASSUME NEW n \in 1..Len(log) PROVE after(l, n)
    <3>1. \A m \in 1..(n - 1) : m \in 1..Len(log)
      BY <2>2
    <3>2. upto(l, n) = upto(log, n) /\ l[n] = log[n]
      BY <3>1, <2>1
    <3> HIDE DEF upto
    <3> QED BY <3>2, <1>4
  <2>4. ASSUME NEW n \in 1..Len(s) PROVE after(l, Len(log) + n)
    <3> DEFINE N == Len(log) + n
    <3>1. l[N] = s[n]
      BY <2>1
    <3>2. s[n] \in { e \in Records(b) : Also(e) }
      BY <1>3 DEF Recording
    <3>3. s[n] \in GroundTruth /\ Recorder(s[n]) = b
      BY <3>2, <1>1, TruthOfRecords
    <3>4. s[n] \notin Logged
      BY <3>3, <1>1 DEF LogInv
    <3>5. \A m \in 1..(N - 1) : m \in 1..Len(log) \/ (\E k \in 1..(n - 1) : m = Len(log) + k)
      <4> SUFFICES ASSUME NEW m \in 1..(N - 1), m \notin 1..Len(log)
                   PROVE  \E k \in 1..(n - 1) : m = Len(log) + k
        OBVIOUS
      <4>1. m - Len(log) \in 1..(n - 1) /\ m = Len(log) + (m - Len(log))
        BY <2>2
      <4> QED BY <4>1
    <3>6. \A k \in 1..(n - 1) : k \in 1..Len(s) /\ k # n
      BY <2>2
    <3>7. l[N] \notin upto(l, N)
      <4> SUFFICES ASSUME NEW m \in 1..(N - 1), l[m] = s[n] PROVE FALSE
        BY <3>1
      <4>1. CASE m \in 1..Len(log)
        BY <4>1, <2>1, <3>4 DEF Logged
      <4>2. ASSUME NEW k \in 1..(n - 1), m = Len(log) + k PROVE FALSE
        <5>1. l[m] = s[k]
          BY <4>2, <2>1, <3>6
        <5> QED BY <5>1, <3>6, <1>3 DEF Recording
      <4> QED BY <4>1, <4>2, <3>5
    <3>8. Logged \subseteq upto(l, N)
      <4>1. \A m \in 1..Len(log) : m \in 1..(N - 1) /\ l[m] = log[m]
        BY <2>1, <2>2
      <4> QED BY <4>1 DEF Logged
    <3>9. ASSUME l[N][1] # "FEATURE",
                 NEW a \in {l[N][2], l[N][3]} \cap GroundTruthFeatures
          PROVE  FEATURE(a) \in upto(l, N)
      <4>1. a = b \/ (wants(a) /\ Before(a, b))
        BY <3>9, <3>1, <3>2, <1>1, <1>7, RelatedWanted
      <4>2. CASE wants(a) /\ Before(a, b)
        BY <4>2, <3>8, <1>6
      <4>3. CASE a = b
        <5>1. b # "CACHE+DB_MYSQL"
          BY <4>3 DEF GroundTruthFeatures
        <5>2. s[1] = FEATURE(b) /\ 1 \in 1..Len(s)
          BY <5>1, <1>3, <2>2 DEF Recording
        <5>3. n # 1
          BY <5>2, <3>1, <3>9 DEF FEATURE
        <5>4. Len(log) + 1 \in 1..(N - 1) /\ l[Len(log) + 1] = FEATURE(b)
          BY <5>2, <5>3, <2>1, <2>2
        <5> QED BY <5>4, <4>3
      <4> QED BY <4>1, <4>2, <4>3
    <3> QED BY <3>7, <3>9
  <2>5. \A n \in 1..Len(l) : after(l, n)
    <3> HIDE DEF after
    <3> QED BY <2>1, <2>3, <2>4
  <2> HIDE DEF after
  <2> QED BY <2>0, <2>5, <1>5
<1>8. CASE ~ wants(b)
  BY <1>8, <1>1, <1>4, <1>5
<1> QED BY <1>7, <1>8

-----------------------------------------------------------------------------
(* The invariant, action by action.                                        *)

LEMMA InputType ==
  ASSUME TypeOK PROVE input \in Seq(Line) /\ Len(input) \in Nat /\ line \in Nat
<1>1. input \in Seq(Line)
  <2>1. input \in Inputs \/ input = <<>>
    BY DEF TypeOK
  <2>2. <<>> \in Seq(Line)
    OBVIOUS
  <2>3. Inputs \subseteq Seq(Line)
    BY ConfigletAssumption
  <2> QED BY <2>1, <2>2, <2>3
<1>2. Len(input) \in Nat
  BY <1>1
<1> QED BY <1>1, <1>2 DEF TypeOK

LEMMA TypeOfParts ==
  TypeOK <=>
    /\ SettingsOK
    /\ pc \in {"idle", "parse", "run", "exited"}
    /\ input \in Inputs \union {<<>>}
    /\ out \in {"none", "file", "stderr"}
    /\ line \in 0..Len(input)
    /\ block \in 0..Len(Blocks)
    /\ unlocked \subseteq { Blocks[b] : b \in 1..block }
    /\ log \in Seq(GroundTruth)
BY DEF TypeOK, SettingsOK

\* Before run_application there is nothing to say of the log.
LEMMA NothingRunInv == NothingRun => UnlockedInv /\ LogInv /\ LoggedAfterItsFeatures
<1> SUFFICES ASSUME NothingRun PROVE UnlockedInv /\ LogInv /\ LoggedAfterItsFeatures
  OBVIOUS
<1>1. Logged = {} /\ Len(log) = 0
  BY DEF Logged, NothingRun
<1>2. UnlockedInv
  BY DEF UnlockedInv, NothingRun
<1>3. LogInv
  BY <1>1 DEF LogInv, NothingRun
<1>4. LoggedAfterItsFeatures
  BY <1>1 DEF LoggedAfterItsFeatures
<1> QED BY <1>2, <1>3, <1>4

LEMMA InitInv == Init => Inv
<1> SUFFICES ASSUME Init PROVE Inv
  OBVIOUS
<1>1. Untouched /\ NothingRun
  BY DEF Init, Untouched, NothingRun
<1>2. TypeOK
  <2>1. SettingsOK
    BY <1>1, UntouchedType
  <2>2. /\ pc = "idle" /\ input = <<>> /\ out = "none" /\ line = 0
        /\ block = 0 /\ unlocked = {} /\ log = <<>>
    BY DEF Init
  <2>3. line \in 0..Len(input) /\ block \in 0..Len(Blocks)
    BY <2>2, BlockFacts
  <2>4. log \in Seq(GroundTruth)
    BY <2>2
  <2> QED BY <2>1, <2>2, <2>3, <2>4, TypeOfParts
<1>3. PhaseInv
  BY <1>1 DEF Init, PhaseInv
<1> QED BY <1>1, <1>2, <1>3, UntouchedParsed, NothingRunInv DEF Inv

\* Nothing of the settings or of run_application changes, as when main starts
\* or passes from one phase to the next.
LEMMA SameApp ==
  ASSUME UNCHANGED configVars, UNCHANGED appVars
  PROVE  /\ SettingsOK => SettingsOK'
         /\ Untouched /\ line' = line => Untouched'
         /\ NothingRun => NothingRun'
         /\ UnlockedInv => UnlockedInv'
         /\ LogInv => LogInv'
         /\ LoggedAfterItsFeatures => LoggedAfterItsFeatures'
<1>1. /\ \A b : wants(b)' <=> wants(b)
      /\ \A e : Also(e)' <=> Also(e)
  BY WantsOfSettings
<1>2. /\ flag' = flag /\ enum' = enum /\ int' = int /\ tx_step' = tx_step
      /\ tx_sequence' = tx_sequence /\ block' = block /\ unlocked' = unlocked /\ log' = log
  BY DEF configVars, appVars
<1>3. SettingsOK => SettingsOK'
  BY <1>2 DEF SettingsOK
<1>4. /\ Untouched /\ line' = line => Untouched'
      /\ NothingRun => NothingRun'
  BY <1>2 DEF Untouched, NothingRun
<1>5. UnlockedInv => UnlockedInv'
  BY <1>1, <1>2 DEF UnlockedInv
<1>6. LogInv => LogInv'
  <2>1. Logged' = Logged
    BY <1>2 DEF Logged
  <2> QED BY <1>1, <1>2, <2>1 DEF LogInv
<1>7. LoggedAfterItsFeatures => LoggedAfterItsFeatures'
  BY <1>2 DEF LoggedAfterItsFeatures
<1> QED BY <1>3, <1>4, <1>5, <1>6, <1>7

\* No line is taken.
LEMMA SameParse ==
  ASSUME UNCHANGED <<input, line, configVars>>, ParseInv PROVE ParseInv'
BY DEF ParseInv, TxInv, LastWriterWins, NumbersInv, configVars

LEMMA MainInv ==
  ASSUME Inv, NEW file \in Inputs, Main(file) PROVE Inv'
<1> USE DEF Inv
<1>1. /\ pc = "idle" /\ pc' = "parse" /\ input' = file /\ out' \in {"file", "stderr"}
      /\ line' = line /\ UNCHANGED configVars /\ UNCHANGED appVars
  BY DEF Main
<1>2. Untouched /\ NothingRun
  BY <1>1 DEF PhaseInv
<1>3. Untouched' /\ NothingRun'
  BY <1>1, <1>2, SameApp
<1>4. TypeOK'
  <2>1. SettingsOK /\ block \in 0..Len(Blocks) /\ log \in Seq(GroundTruth)
        /\ unlocked \subseteq { Blocks[b] : b \in 1..block }
    BY TypeOfParts
  <2>2. SettingsOK'
    BY <2>1, <1>1, SameApp
  <2>3. file \in Seq(Line)
    BY ConfigletAssumption
  <2>4. line' \in 0..Len(input')
    BY <2>3, <1>1, <1>3 DEF Untouched
  <2>5. block' = block /\ unlocked' = unlocked /\ log' = log
    BY <1>1 DEF appVars
  <2> QED BY <1>1, <2>1, <2>2, <2>4, <2>5 DEF TypeOK, SettingsOK
<1>5. PhaseInv'
  BY <1>1, <1>3 DEF PhaseInv
<1>6. ParseInv'
  <2>1. line' = 0 /\ \A key : settled(input', line', key) = ""
    BY <1>3, SettledNone DEF Untouched
  <2>2. TxInv'
    BY <1>3, EmbedsNone DEF TxInv, Untouched
  <2>3. LastWriterWins'
    BY <1>3, <2>1 DEF LastWriterWins, Untouched, is_set, chosen
  <2>4. NumbersInv'
    <3>1. parse_int_value("") = 0
      BY NoEmptyNumeral, Zenon DEF parse_int_value
    <3>2. \A k \in IntKeys : int'[k] = 0
      BY <1>3 DEF Untouched
    <3> QED BY <2>1, <3>1, <3>2 DEF NumbersInv
  <2> QED BY <2>2, <2>3, <2>4 DEF ParseInv
<1> QED BY <1>1, <1>4, <1>5, <1>6, SameApp

LEMMA MainFailsInv ==
  ASSUME Inv, MainFails PROVE Inv'
<1> USE DEF Inv
<1>1. /\ pc = "idle" /\ pc' = "exited" /\ UNCHANGED <<input, out, line>>
      /\ UNCHANGED configVars /\ UNCHANGED appVars
  BY DEF MainFails
<1>2. TypeOK'
  BY <1>1 DEF TypeOK, configVars, appVars
<1>3. PhaseInv'
  <2>1. out = "none" /\ Untouched /\ NothingRun /\ input = <<>>
    BY <1>1 DEF PhaseInv
  <2>2. Untouched' /\ NothingRun'
    BY <1>1, <2>1, SameApp
  <2>3. line' = Len(input')
    BY <1>1, <2>1 DEF Untouched
  <2> QED BY <1>1, <2>1, <2>2, <2>3 DEF PhaseInv
<1>4. ParseInv'
  BY <1>1, SameParse
<1> QED BY <1>1, <1>2, <1>3, <1>4, SameApp

LEMMA ParseLineInv ==
  ASSUME Inv, ParseLine PROVE Inv'
<1> USE DEF Inv
<1>1. /\ pc = "parse" /\ line < Len(input) /\ line' = line + 1
      /\ UNCHANGED <<pc, input, out>> /\ UNCHANGED appVars
  BY DEF ParseLine
<1>2. block' = block /\ unlocked' = unlocked /\ log' = log
  BY <1>1 DEF appVars
<1>3. TypeOK'
  <2>1. SettingsOK'
    BY TypeOfParts, ParseLineType
  <2>2. line' \in 0..Len(input')
    BY <1>1, InputType
  <2> QED BY <1>1, <1>2, <2>1, <2>2 DEF TypeOK, SettingsOK
<1>4. NothingRun'
  BY <1>1, <1>2 DEF PhaseInv, NothingRun
<1>5. PhaseInv'
  BY <1>1, <1>4 DEF PhaseInv
<1>6. ParseInv'
  <2>1. line \in Nat /\ tx_step \in 0..6
    BY InputType DEF TypeOK
  <2> QED BY <2>1, ParseLineTx, ParseLineSettings DEF ParseInv
<1>7. UnlockedInv' /\ LogInv' /\ LoggedAfterItsFeatures'
  <2>1. Logged' = {} /\ Len(log') = 0
    BY <1>4 DEF Logged, NothingRun
  <2>2. UnlockedInv'
    BY <1>4 DEF UnlockedInv, NothingRun
  <2>3. LogInv'
    BY <1>4, <2>1 DEF LogInv, NothingRun
  <2>4. LoggedAfterItsFeatures'
    BY <2>1 DEF LoggedAfterItsFeatures
  <2> QED BY <2>2, <2>3, <2>4
<1> QED BY <1>3, <1>5, <1>6, <1>7

LEMMA ParseEndsInv ==
  ASSUME Inv, ParseEnds PROVE Inv'
<1> USE DEF Inv
<1>1. /\ pc = "parse" /\ line = Len(input) /\ pc' = "run" /\ UNCHANGED <<input, out, line>>
      /\ UNCHANGED configVars /\ UNCHANGED appVars
  BY DEF ParseEnds
<1>2. TypeOK'
  BY <1>1 DEF TypeOK, configVars, appVars
<1>3. PhaseInv'
  BY <1>1, SameApp DEF PhaseInv
<1>4. ParseInv'
  BY <1>1, SameParse
<1> QED BY <1>1, <1>2, <1>3, <1>4, SameApp

LEMMA RunBlockInv ==
  ASSUME Inv, RunBlock PROVE Inv'
<1> USE DEF Inv
<1> DEFINE b == Blocks[block + 1]
<1>1. pc = "run" /\ UNCHANGED <<pc, input, out, line>> /\ UNCHANGED configVars
  BY DEF RunBlock
<1>2. /\ block \in 0..16 /\ block' = block + 1 /\ b \in BlockSet
      /\ wants(b) => log' = log \o events(b) /\ unlocked' = unlocked \cup {b}
      /\ ~ wants(b) => log' = log /\ unlocked' = unlocked
  BY RunBlockFacts
<1>3. TypeOK'
  <2>1. log' \in Seq(GroundTruth)
    <3>1. log \in Seq(GroundTruth) /\ events(b) \in Seq(GroundTruth)
      BY <1>2, EventsOfTruth DEF TypeOK
    <3> HIDE DEF b
    <3> QED BY <3>1, <1>2, ConcatIndex
  <2>2. unlocked' \subseteq { Blocks[j] : j \in 1..block' }
    <3>1. unlocked \subseteq { Blocks[j] : j \in 1..block }
      BY DEF TypeOK
    <3>2. block + 1 \in 1..(block + 1) /\ \A j \in 1..block : j \in 1..(block + 1)
      BY <1>2
    <3>3. unlocked \cup {b} \subseteq { Blocks[j] : j \in 1..(block + 1) }
      BY <3>1, <3>2
    <3> HIDE DEF b
    <3> QED BY <3>3, <1>2
  <2>3. block' \in 0..Len(Blocks)
    BY <1>2, BlockFacts
  <2> QED BY <1>1, <2>1, <2>2, <2>3 DEF TypeOK, configVars
<1>4. PhaseInv'
  BY <1>1 DEF PhaseInv
<1>5. ParseInv'
  BY <1>1, SameParse
<1> QED BY <1>3, <1>4, <1>5, RunBlockUnlocked, RunBlockLog, RunBlockOrder

LEMMA FeedbackCloseInv ==
  ASSUME Inv, FeedbackClose PROVE Inv'
<1> USE DEF Inv
<1>1. /\ pc = "run" /\ block = Len(Blocks) /\ pc' = "exited" /\ UNCHANGED <<input, out, line>>
      /\ UNCHANGED configVars /\ UNCHANGED appVars
  BY DEF FeedbackClose
<1>2. TypeOK'
  BY <1>1 DEF TypeOK, configVars, appVars
<1>3. PhaseInv'
  <2>1. out # "none" /\ line' = Len(input') /\ block' = Len(Blocks)
    BY <1>1 DEF PhaseInv, appVars
  <2> QED BY <1>1, <2>1 DEF PhaseInv
<1>4. ParseInv'
  BY <1>1, SameParse
<1> QED BY <1>1, <1>2, <1>3, <1>4, SameApp

LEMMA TargetInv == ASSUME Inv, Target PROVE Inv'
BY ParseLineInv, ParseEndsInv, RunBlockInv, FeedbackCloseInv DEF Target

LEMMA StutterInv == ASSUME Inv, UNCHANGED targetVars PROVE Inv'
<1> USE DEF Inv
<1>1. /\ UNCHANGED <<pc, input, out, line>> /\ UNCHANGED configVars /\ UNCHANGED appVars
  BY DEF targetVars
<1>2. TypeOK'
  BY <1>1 DEF TypeOK, configVars, appVars
<1>3. PhaseInv'
  BY <1>1, SameApp DEF PhaseInv, appVars
<1>4. ParseInv'
  BY <1>1, SameParse
<1> QED BY <1>1, <1>2, <1>3, <1>4, SameApp

\* The invariant of a run, from which the properties follow.
THEOREM RunInvariant == Spec => []Inv
<1>1. Inv /\ [Next]_targetVars => Inv'
  <2> SUFFICES ASSUME Inv, [Next]_targetVars PROVE Inv'
    OBVIOUS
  <2> QED BY MainInv, MainFailsInv, TargetInv, StutterInv DEF Next
<1> QED BY <1>1, InitInv, PTL DEF Spec

-----------------------------------------------------------------------------
(* What the parser settles on is what the testcase asks for.               *)

LEMMA TxExact == ASSUME Inv PROVE TxSequenceExact
<1>1. line \in Nat /\ tx_step \in 0..6
  BY InputType DEF Inv, TypeOK
<1>2. CASE tx_step = 6
  BY <1>1, <1>2, EmbedsIsRequested DEF Inv, ParseInv, TxInv, TxSequenceExact
<1>3. CASE tx_step < 6
  <2> DEFINE none(k) == ~ Embeds(input, line, k)
  <2>1. none(tx_step + 1)
    BY <1>3 DEF Inv, ParseInv, TxInv
  <2>2. \A k \in Nat : none(k) => none(k + 1)
    BY <1>1, EmbedsLess
  <2> HIDE DEF none
  <2>3. \A k \in 1..5 : none(k) => none(k + 1)
    BY <2>2
  <2>4. none(6)
    <3>1. tx_step + 1 \in {1, 2, 3, 4, 5, 6}
      BY <1>1, <1>3
    <3>2. /\ (none(1) => none(2)) /\ (none(2) => none(3)) /\ (none(3) => none(4))
          /\ (none(4) => none(5)) /\ (none(5) => none(6))
      BY <2>3
    <3> QED BY <2>1, <3>1, <3>2
  <2>5. ~ Embeds(input, line, 6)
    BY <2>4 DEF none
  <2>6. ~ tx_sequence
    BY <1>3 DEF Inv, ParseInv, TxInv
  <2> QED BY <2>5, <2>6, <1>1, EmbedsIsRequested DEF TxSequenceExact
<1> QED BY <1>1, <1>2, <1>3

\* Clamping to an int moves a number past no threshold.
LEMMA NumbersCompare == ASSUME Inv PROVE NumbersCompareAsWritten
<1> SUFFICES ASSUME NEW k \in IntKeys, NEW t \in Thresholds
             PROVE  int[k] >= t <=> number(input, line, k) >= t
  BY DEF NumbersCompareAsWritten
<1> DEFINE v == settled(input, line, k)
<1>1. int[k] = parse_int_value(v)
  BY DEF Inv, ParseInv, NumbersInv
<1>2. t \in Int /\ IntMin < t /\ t <= IntMax
  BY IntRange DEF Thresholds
<1>3. \A w \in DOMAIN Numeral : Numeral[w] \in Int
  BY ConfigletAssumption
<1>4. number(input, line, k) = IF v \in DOMAIN Numeral THEN Numeral[v] ELSE 0
  BY DEF number
<1> HIDE DEF v
<1>5. CASE v \in DOMAIN Numeral
  <2>1. Numeral[v] \in Int
    BY <1>3, <1>5
  <2>2. int[k] = IF Numeral[v] > IntMax THEN IntMax
                 ELSE IF Numeral[v] < IntMin THEN IntMin ELSE Numeral[v]
    BY <1>1, <1>5 DEF parse_int_value
  <2>3. number(input, line, k) = Numeral[v]
    BY <1>4, <1>5
  <2> QED BY <2>1, <2>2, <2>3, <1>2, IntRange
<1>6. CASE v \notin DOMAIN Numeral
  BY <1>1, <1>4, <1>6 DEF parse_int_value
<1> QED BY <1>5, <1>6

\* The settings at the end of the testcase, by what the testcase asks for.
LEMMA SettingsAsked ==
  ASSUME Inv, line = Len(input)
  PROVE  /\ \A k \in FlagKeys : is_set(input, Len(input), k) <=> flag[k]
         /\ \A k \in EnumKeys : chosen(input, Len(input), k) = enum[k]
         /\ \A k \in IntKeys, t \in Thresholds : number(input, Len(input), k) >= t <=> int[k] >= t
         /\ \A k \in IntKeys : number(input, Len(input), k) \in Int /\ int[k] \in Int
         /\ TxRequested(input, Len(input)) <=> tx_sequence
<1>1. LastWriterWins
  BY DEF Inv, ParseInv
<1>2. \A k \in IntKeys : number(input, Len(input), k) \in Int
  BY ConfigletAssumption DEF number
<1>3. \A k \in IntKeys : int[k] \in Int
  BY IntRange DEF Inv, TypeOK
<1>4. \A k \in FlagKeys : is_set(input, Len(input), k) <=> flag[k]
  BY <1>1 DEF LastWriterWins
<1>5. \A k \in EnumKeys : chosen(input, Len(input), k) = enum[k]
  BY <1>1 DEF LastWriterWins
<1>6. \A k \in IntKeys, t \in Thresholds : number(input, Len(input), k) >= t <=> int[k] >= t
  BY NumbersCompare DEF NumbersCompareAsWritten
<1> QED BY <1>2, <1>3, <1>4, <1>5, <1>6, TxExact DEF TxSequenceExact

\* The comparisons of run_application, on the numbers as they are written.
LEMMA NumbersAsked ==
  ASSUME Inv, line = Len(input)
  PROVE  LET num(k) == number(input, Len(input), k) IN
           /\ num("TOKEN") = 1337 <=> int["TOKEN"] = 1337
           /\ num("CHECKSUM") = 42 <=> int["CHECKSUM"] = 42
           /\ num("MAGIC") = 57005 <=> int["MAGIC"] = 57005
           /\ num("SIZE") > 2048 <=> int["SIZE"] > 2048
           /\ num("THREADS") >= 4 <=> int["THREADS"] >= 4
           /\ num("THREADS") >= 8 <=> int["THREADS"] >= 8
           /\ num("TIMEOUT") >= 100 <=> int["TIMEOUT"] >= 100
<1> DEFINE num(k) == number(input, Len(input), k)
           same(k, t) == num(k) >= t <=> int[k] >= t
<1>1. \A k \in IntKeys, t \in Thresholds : same(k, t)
  BY SettingsAsked
<1>2. \A k \in IntKeys : num(k) \in Int /\ int[k] \in Int
  BY SettingsAsked
<1> HIDE DEF num, same
<1>3. /\ same("TOKEN", 1337) /\ same("TOKEN", 1338)
      /\ same("CHECKSUM", 42) /\ same("CHECKSUM", 43)
  BY <1>1 DEF IntKeys, Thresholds
<1>4. /\ same("MAGIC", 57005) /\ same("MAGIC", 57006) /\ same("SIZE", 2049)
  BY <1>1 DEF IntKeys, Thresholds
<1>5. /\ same("THREADS", 4) /\ same("THREADS", 8) /\ same("TIMEOUT", 100)
  BY <1>1 DEF IntKeys, Thresholds
<1>6. /\ num("TOKEN") \in Int /\ int["TOKEN"] \in Int
      /\ num("CHECKSUM") \in Int /\ int["CHECKSUM"] \in Int
      /\ num("MAGIC") \in Int /\ int["MAGIC"] \in Int
      /\ num("SIZE") \in Int /\ int["SIZE"] \in Int
  BY <1>2 DEF IntKeys
<1>7. /\ num("TOKEN") = 1337 <=> int["TOKEN"] = 1337
      /\ num("CHECKSUM") = 42 <=> int["CHECKSUM"] = 42
  BY <1>3, <1>6 DEF same
<1>8. /\ num("MAGIC") = 57005 <=> int["MAGIC"] = 57005
      /\ num("SIZE") > 2048 <=> int["SIZE"] > 2048
  BY <1>4, <1>6 DEF same
<1> QED BY <1>5, <1>7, <1>8 DEF num, same

\* A testcase unlocks what its settings want.
LEMMA UnlocksWanted ==
  ASSUME Inv, line = Len(input)
  PROVE  \A b \in GroundTruthFeatures : b \in UnlockedBy(input) <=> wants(b)
<1> DEFINE n == Len(input)
           set(key) == is_set(input, n, key)
           val(key) == chosen(input, n, key)
           num(key) == number(input, n, key)
<1>1. /\ \A k \in FlagKeys : set(k) <=> flag[k]
      /\ \A k \in EnumKeys : val(k) = enum[k]
      /\ TxRequested(input, n) <=> tx_sequence
  BY SettingsAsked
<1>2. /\ num("TOKEN") = 1337 <=> int["TOKEN"] = 1337
      /\ num("CHECKSUM") = 42 <=> int["CHECKSUM"] = 42
      /\ num("MAGIC") = 57005 <=> int["MAGIC"] = 57005
      /\ num("SIZE") > 2048 <=> int["SIZE"] > 2048
      /\ num("THREADS") >= 8 <=> int["THREADS"] >= 8
      /\ num("TIMEOUT") >= 100 <=> int["TIMEOUT"] >= 100
  BY NumbersAsked
<1>3. /\ (set("AUTH") <=> flag["AUTH"]) /\ (set("CACHE") <=> flag["CACHE"])
      /\ (set("TLS") <=> flag["TLS"]) /\ (set("EXPORT") <=> flag["EXPORT"])
      /\ (set("BACKUP") <=> flag["BACKUP"]) /\ (set("METRICS") <=> flag["METRICS"])
      /\ (set("COMMIT") <=> flag["COMMIT"])
  BY <1>1 DEF FlagKeys
<1>4. /\ val("DB") = enum["DB"] /\ val("ROLE") = enum["ROLE"] /\ val("MODE") = enum["MODE"]
      /\ val("COMPRESS") = enum["COMPRESS"] /\ val("FORMAT") = enum["FORMAT"]
      /\ val("REGION") = enum["REGION"]
  BY <1>1, EnumFacts
<1>5. enum["DB"] \in {"mysql", "sqlite", "none"}
  BY EnumFacts DEF Inv, TypeOK
<1> HIDE DEF n, set, val, num
<1> DEFINE my == val("DB") = "mysql"
           admin == set("AUTH") /\ set("TLS") /\ val("ROLE") = "admin"
           backup == set("BACKUP") /\ val("DB") # "none" /\ val("MODE") = "write"
           export == set("EXPORT") /\ val("COMPRESS") = "gzip" /\ val("FORMAT") = "json"
           privileged == admin /\ num("TOKEN") = 1337 /\ val("MODE") = "write" /\ num("CHECKSUM") = 42
           large_export == export /\ num("SIZE") > 2048 /\ val("MODE") = "write"
           accel == set("CACHE") /\ my /\ num("THREADS") >= 8 /\ num("CHECKSUM") = 42
           large_write == backup /\ my /\ num("SIZE") > 2048 /\ TxRequested(input, n)
           failover == /\ set("TLS") /\ my /\ val("REGION") = "us-east"
                       /\ num("TIMEOUT") >= 100 /\ num("CHECKSUM") = 42
           cluster == failover /\ accel /\ num("MAGIC") = 57005
           unlocks == [ AUTH |-> set("AUTH"), CACHE |-> set("CACHE"), TLS |-> set("TLS"),
                        METRICS |-> set("METRICS"), DB_MYSQL |-> my, DB_SQLITE |-> val("DB") = "sqlite",
                        ADMIN |-> admin, BACKUP |-> backup, EXPORT |-> export,
                        PRIVILEGED_ADMIN |-> privileged, LARGE_EXPORT |-> large_export,
                        QUERY_ACCEL |-> accel, LARGE_WRITE_BACKUP |-> large_write,
                        FAILOVER |-> failover, CLUSTER_SYNC |-> cluster,
                        RECOVERY |-> cluster /\ large_write /\ large_export /\ privileged /\ set("COMMIT") ]
<1>6. UnlockedBy(input) = { f \in GroundTruthFeatures : unlocks[f] }
  BY DEF UnlockedBy, n, set, val, num
<1>7. /\ my <=> mysql
      /\ admin <=> wants_admin
      /\ backup <=> flag["BACKUP"] /\ has_db /\ mode_write
      /\ export <=> wants_export
  BY <1>3, <1>4, <1>5 DEF mysql, wants_admin, has_db, mode_write, wants_export, gzip_json
<1> HIDE DEF my, admin, backup, export
<1>8. /\ privileged <=> wants_privileged
      /\ large_export <=> wants_large_export
  BY <1>2, <1>4, <1>7 DEF wants_privileged, wants_large_export, mode_write
<1>9. /\ accel <=> wants_accel
      /\ failover <=> wants_failover
  BY <1>2, <1>3, <1>4, <1>7 DEF wants_accel, wants_failover
<1>10. large_write <=> wants_large_write
  BY <1>1, <1>2, <1>7 DEF wants_large_write, has_db, mysql
<1> HIDE DEF privileged, large_export, accel, failover, large_write
<1>11. cluster <=> wants_cluster
  BY <1>2, <1>9 DEF wants_cluster
<1> HIDE DEF cluster
<1>12. /\ unlocks["AUTH"] = set("AUTH") /\ unlocks["CACHE"] = set("CACHE")
       /\ unlocks["TLS"] = set("TLS") /\ unlocks["METRICS"] = set("METRICS")
       /\ unlocks["DB_MYSQL"] = my /\ unlocks["DB_SQLITE"] = (val("DB") = "sqlite")
       /\ unlocks["ADMIN"] = admin /\ unlocks["BACKUP"] = backup /\ unlocks["EXPORT"] = export
       /\ unlocks["PRIVILEGED_ADMIN"] = privileged /\ unlocks["LARGE_EXPORT"] = large_export
       /\ unlocks["QUERY_ACCEL"] = accel /\ unlocks["LARGE_WRITE_BACKUP"] = large_write
       /\ unlocks["FAILOVER"] = failover /\ unlocks["CLUSTER_SYNC"] = cluster
       /\ unlocks["RECOVERY"] =
            (cluster /\ large_write /\ large_export /\ privileged /\ set("COMMIT"))
  OBVIOUS
<1> HIDE DEF unlocks
<1>13. ASSUME NEW b \in GroundTruthFeatures PROVE unlocks[b] <=> wants(b)
  <2>1. CASE b \in {"AUTH", "CACHE", "TLS", "METRICS"}
    BY <2>1, <1>3, <1>12 DEF wants
  <2>2. CASE b \in {"DB_MYSQL", "DB_SQLITE", "ADMIN", "BACKUP", "EXPORT"}
    BY <2>2, <1>4, <1>7, <1>12 DEF wants
  <2>3. CASE b \in {"PRIVILEGED_ADMIN", "LARGE_EXPORT", "QUERY_ACCEL", "LARGE_WRITE_BACKUP",
                    "FAILOVER", "CLUSTER_SYNC"}
    BY <2>3, <1>8, <1>9, <1>10, <1>11, <1>12 DEF wants
  <2>4. CASE b = "RECOVERY"
    BY <2>4, <1>3, <1>8, <1>10, <1>11, <1>12 DEF wants
  <2> QED BY <2>1, <2>2, <2>3, <2>4 DEF GroundTruthFeatures
<1> QED BY <1>6, <1>13

-----------------------------------------------------------------------------
(* The log of a finished run.                                              *)

\* What is wanted together.
LEMMA WantedTogether ==
  /\ (wants("AUTH") <=> flag["AUTH"]) /\ (wants("CACHE") <=> flag["CACHE"])
  /\ wants("CACHE+DB_MYSQL") <=> wants("CACHE") /\ wants("DB_MYSQL") /\ int["THREADS"] >= 4
  /\ wants("ADMIN") => wants("AUTH") /\ wants("TLS")
  /\ wants("PRIVILEGED_ADMIN") => wants("ADMIN")
  /\ wants("LARGE_EXPORT") => wants("EXPORT")
  /\ wants("QUERY_ACCEL") => wants("CACHE") /\ wants("DB_MYSQL")
  /\ wants("LARGE_WRITE_BACKUP") => wants("BACKUP")
  /\ wants("FAILOVER") => wants("TLS") /\ wants("DB_MYSQL")
  /\ wants("CLUSTER_SYNC") => wants("FAILOVER") /\ wants("QUERY_ACCEL")
  /\ wants("RECOVERY") => wants("LARGE_WRITE_BACKUP") /\ wants("CLUSTER_SYNC")
<1>1. /\ (wants("AUTH") <=> flag["AUTH"]) /\ (wants("CACHE") <=> flag["CACHE"])
  BY DEF wants
<1>2. wants("CACHE+DB_MYSQL") <=> wants("CACHE") /\ wants("DB_MYSQL") /\ int["THREADS"] >= 4
  BY DEF wants
<1>3. wants("ADMIN") => wants("AUTH") /\ wants("TLS")
  BY DEF wants, wants_admin
<1>4. wants("PRIVILEGED_ADMIN") => wants("ADMIN")
  BY DEF wants, wants_privileged
<1>5. wants("LARGE_EXPORT") => wants("EXPORT")
  BY DEF wants, wants_large_export
<1>6. wants("QUERY_ACCEL") => wants("CACHE") /\ wants("DB_MYSQL")
  BY DEF wants, wants_accel
<1>7. wants("LARGE_WRITE_BACKUP") => wants("BACKUP")
  BY DEF wants, wants_large_write, has_db, mysql
<1>8. wants("FAILOVER") => wants("TLS") /\ wants("DB_MYSQL")
  BY DEF wants, wants_failover
<1>9. wants("CLUSTER_SYNC") => wants("FAILOVER") /\ wants("QUERY_ACCEL")
  BY DEF wants, wants_cluster
<1>10. wants("RECOVERY") => wants("LARGE_WRITE_BACKUP") /\ wants("CLUSTER_SYNC")
  BY DEF wants
<1> QED BY <1>1, <1>2, <1>3, <1>4, <1>5, <1>6, <1>7, <1>8, <1>9, <1>10

\* A feature, or a word that is not one.
present(a) == a \in GroundTruthFeatures => wants(a)

\* A dependency or combination of the ground truth is covered exactly when its
\* block is entered and records it.
LEMMA DepWanted ==
  ASSUME NEW d \in GroundTruthDeps
  PROVE  LET e == DEP(d[1], d[2]) IN
           present(d[1]) /\ present(d[2]) <=> wants(Recorder(e)) /\ Also(e)
<1> DEFINE agrees(x, y) ==
             present(x) /\ present(y) <=> wants(x) /\ Also(DEP(x, y))
<1> USE WantedTogether DEF present, GroundTruthFeatures, Also, DEP, COMBO
<1>1. agrees("TLS", "AUTH")
  OBVIOUS
<1>2. agrees("ADMIN", "AUTH")
  OBVIOUS
<1>3. agrees("ADMIN", "TLS")
  OBVIOUS
<1>4. agrees("BACKUP", "DB")
  OBVIOUS
<1>5. agrees("BACKUP", "MODE_WRITE")
  OBVIOUS
<1>6. agrees("EXPORT", "COMPRESS_GZIP")
  OBVIOUS
<1>7. agrees("EXPORT", "FORMAT_JSON")
  OBVIOUS
<1>8. agrees("PRIVILEGED_ADMIN", "ADMIN")
  OBVIOUS
<1>9. agrees("LARGE_EXPORT", "EXPORT")
  OBVIOUS
<1>10. agrees("QUERY_ACCEL", "CACHE")
  OBVIOUS
<1>11. agrees("QUERY_ACCEL", "DB_MYSQL")
  OBVIOUS
<1>12. agrees("LARGE_WRITE_BACKUP", "BACKUP")
  OBVIOUS
<1>13. agrees("FAILOVER", "TLS")
  OBVIOUS
<1>14. agrees("FAILOVER", "DB_MYSQL")
  OBVIOUS
<1>15. agrees("CLUSTER_SYNC", "FAILOVER")
  OBVIOUS
<1>16. agrees("CLUSTER_SYNC", "QUERY_ACCEL")
  OBVIOUS
<1>17. agrees("RECOVERY", "LARGE_WRITE_BACKUP")
  OBVIOUS
<1>18. agrees("RECOVERY", "CLUSTER_SYNC")
  OBVIOUS
<1> HIDE WantedTogether DEF agrees
<1>19. agrees(d[1], d[2])
  BY <1>1, <1>2, <1>3, <1>4, <1>5, <1>6, <1>7, <1>8, <1>9,
     <1>10, <1>11, <1>12, <1>13, <1>14, <1>15, <1>16, <1>17, <1>18 DEF GroundTruthDeps
<1>20. Recorder(DEP(d[1], d[2])) = d[1]
  BY DEF Recorder
<1> QED BY <1>19, <1>20 DEF agrees

LEMMA ComboWanted ==
  ASSUME NEW c \in GroundTruthCombos
  PROVE  LET e == COMBO(c[1], c[2]) IN
           (/\ present(c[1]) /\ present(c[2])
            /\ c = <<"CACHE", "DB_MYSQL">> => int["THREADS"] >= 4
            /\ c = <<"METRICS", "CACHE">> => int["TIMEOUT"] >= 100)
           <=> wants(Recorder(e)) /\ Also(e)
<1> DEFINE agrees(p) ==
             (/\ present(p[1]) /\ present(p[2])
              /\ p = <<"CACHE", "DB_MYSQL">> => int["THREADS"] >= 4
              /\ p = <<"METRICS", "CACHE">> => int["TIMEOUT"] >= 100)
             <=> wants(Recorder(COMBO(p[1], p[2]))) /\ Also(COMBO(p[1], p[2]))
<1> USE WantedTogether DEF present, GroundTruthFeatures, Also, Recorder, DEP, COMBO
<1>1. agrees(<<"AUTH", "TLS">>)
  OBVIOUS
<1>2. agrees(<<"AUTH", "ADMIN">>)
  OBVIOUS
<1>3. agrees(<<"TLS", "ADMIN">>)
  OBVIOUS
<1>4. agrees(<<"CACHE", "DB_MYSQL">>)
  OBVIOUS
<1>5. agrees(<<"EXPORT", "COMPRESS_GZIP">>)
  OBVIOUS
<1>6. agrees(<<"EXPORT", "FORMAT_JSON">>)
  OBVIOUS
<1>7. agrees(<<"METRICS", "CACHE">>)
  OBVIOUS
<1>8. agrees(<<"ADMIN", "PRIVILEGED_ADMIN">>)
  OBVIOUS
<1>9. agrees(<<"EXPORT", "LARGE_EXPORT">>)
  OBVIOUS
<1>10. agrees(<<"CACHE", "QUERY_ACCEL">>)
  OBVIOUS
<1>11. agrees(<<"DB_MYSQL", "QUERY_ACCEL">>)
  OBVIOUS
<1>12. agrees(<<"BACKUP", "LARGE_WRITE_BACKUP">>)
  OBVIOUS
<1>13. agrees(<<"TLS", "FAILOVER">>)
  OBVIOUS
<1>14. agrees(<<"DB_MYSQL", "FAILOVER">>)
  OBVIOUS
<1>15. agrees(<<"FAILOVER", "CLUSTER_SYNC">>)
  OBVIOUS
<1>16. agrees(<<"QUERY_ACCEL", "CLUSTER_SYNC">>)
  OBVIOUS
<1>17. agrees(<<"LARGE_WRITE_BACKUP", "RECOVERY">>)
  OBVIOUS
<1>18. agrees(<<"CLUSTER_SYNC", "RECOVERY">>)
  OBVIOUS
<1> HIDE DEF agrees
<1> QED
  BY <1>1, <1>2, <1>3, <1>4, <1>5, <1>6, <1>7, <1>8, <1>9,
     <1>10, <1>11, <1>12, <1>13, <1>14, <1>15, <1>16, <1>17, <1>18 DEF GroundTruthCombos, agrees

\* The coverage of a testcase in terms of the settings it ends with.
LEMMA CoverageWanted ==
  ASSUME Inv, line = Len(input)
  PROVE  Coverage(input) = { e \in GroundTruth : wants(Recorder(e)) /\ Also(e) }
<1> DEFINE unlocks == UnlockedBy(input)
           covered(a) == a \in GroundTruthFeatures => a \in unlocks
           num(key) == number(input, Len(input), key)
           features == { FEATURE(a) : a \in unlocks }
           deps == { d \in GroundTruthDeps : covered(d[1]) /\ covered(d[2]) }
           combos == { c \in GroundTruthCombos :
                         /\ covered(c[1]) /\ covered(c[2])
                         /\ c = <<"CACHE", "DB_MYSQL">> => num("THREADS") >= 4
                         /\ c = <<"METRICS", "CACHE">> => num("TIMEOUT") >= 100 }
           says(e) == wants(Recorder(e)) /\ Also(e)
<1>1. Coverage(input) = features \union { DEP(d[1], d[2]) : d \in deps }
                                 \union { COMBO(c[1], c[2]) : c \in combos }
  BY DEF Coverage
<1>2. \A b \in GroundTruthFeatures : b \in unlocks <=> wants(b)
  BY UnlocksWanted
<1>3. unlocks \subseteq GroundTruthFeatures
  BY DEF UnlockedBy
<1>4. /\ num("THREADS") >= 4 <=> int["THREADS"] >= 4
      /\ num("TIMEOUT") >= 100 <=> int["TIMEOUT"] >= 100
  BY NumbersAsked
<1> HIDE DEF unlocks, num
<1>5. \A a \in GroundTruthFeatures : a \in unlocks <=> says(FEATURE(a))
  <2> SUFFICES ASSUME NEW a \in GroundTruthFeatures
               PROVE  a \in unlocks <=> says(FEATURE(a))
    OBVIOUS
  <2>1. Recorder(FEATURE(a)) = a
    BY DEF Recorder, FEATURE
  <2>2. Also(FEATURE(a))
    BY DEF Also, FEATURE, COMBO, DEP
  <2> QED BY <1>2, <2>1, <2>2
<1>6. \A d \in GroundTruthDeps : d \in deps <=> says(DEP(d[1], d[2]))
  <2> SUFFICES ASSUME NEW d \in GroundTruthDeps
               PROVE  d \in deps <=> says(DEP(d[1], d[2]))
    OBVIOUS
  <2>1. /\ covered(d[1]) <=> present(d[1])
        /\ covered(d[2]) <=> present(d[2])
    BY <1>2 DEF present
  <2> HIDE DEF covered
  <2> QED BY <2>1, DepWanted
<1>7. \A c \in GroundTruthCombos : c \in combos <=> says(COMBO(c[1], c[2]))
  <2> SUFFICES ASSUME NEW c \in GroundTruthCombos
               PROVE  c \in combos <=> says(COMBO(c[1], c[2]))
    OBVIOUS
  <2>1. /\ covered(c[1]) <=> present(c[1])
        /\ covered(c[2]) <=> present(c[2])
    BY <1>2 DEF present
  <2> HIDE DEF covered
  <2> QED BY <2>1, <1>4, ComboWanted
<1>8. deps \subseteq GroundTruthDeps /\ combos \subseteq GroundTruthCombos
  OBVIOUS
<1> HIDE DEF deps, combos, says
<1>9. ASSUME NEW e
      PROVE  e \in Coverage(input) <=> e \in GroundTruth /\ says(e)
  <2>1. e \in GroundTruth <=> \/ \E a \in GroundTruthFeatures : e = FEATURE(a)
                              \/ \E d \in GroundTruthDeps : e = DEP(d[1], d[2])
                              \/ \E c \in GroundTruthCombos : e = COMBO(c[1], c[2])
    BY DEF GroundTruth
  <2>2. e \in Coverage(input) <=> \/ \E a \in unlocks : e = FEATURE(a)
                                  \/ \E d \in deps : e = DEP(d[1], d[2])
                                  \/ \E c \in combos : e = COMBO(c[1], c[2])
    BY <1>1
  <2> QED BY <2>1, <2>2, <1>3, <1>5, <1>6, <1>7, <1>8
<1> QED BY <1>9 DEF says

LEMMA LogCovers == ASSUME Inv PROVE LogIsCoverage
<1> SUFFICES ASSUME pc = "exited", out # "none" PROVE Logged = Coverage(input)
  BY DEF LogIsCoverage, Logged
<1>1. line = Len(input) /\ block = 17
  BY BlockFacts DEF Inv, PhaseInv
<1>2. \A b \in BlockSet : b \in unlocked <=> wants(b)
  BY <1>1, BlockFacts DEF BlockSet, Inv, UnlockedInv
<1>3. Logged = { e \in GroundTruth : wants(Recorder(e)) /\ Also(e) }
  BY <1>2, RecordsOfTruth DEF Inv, LogInv
<1> QED BY <1>1, <1>3, CoverageWanted

-----------------------------------------------------------------------------
(* The properties.                                                         *)

\* Every reachable state is well typed: the settings stay among the values
\* apply_kv accepts, a number stays an int, and the log holds entries of the
\* ground truth only.
THEOREM TypeCorrect == Spec => []TypeOK
<1>1. Inv => TypeOK
  BY DEF Inv
<1> QED BY <1>1, RunInvariant, PTL

\* advance_tx_sequence accepts exactly the testcases that contain the six
\* lines of the transaction in their order, whatever stands between them.
THEOREM TransactionExact == Spec => []TxSequenceExact
<1>1. Inv => TxSequenceExact
  BY TxExact
<1> QED BY <1>1, RunInvariant, PTL

\* apply_kv leaves every setting with the value of the last line that names
\* it with a value it accepts.
THEOREM LastLineWins == Spec => []LastWriterWins
<1>1. Inv => LastWriterWins
  BY DEF Inv, ParseInv
<1> QED BY <1>1, RunInvariant, PTL

\* The clamping of parse_int_value, for every width of an int that holds
\* 0xdead and its successor, changes no comparison of run_application.
THEOREM NumbersExact == Spec => []NumbersCompareAsWritten
<1>1. Inv => NumbersCompareAsWritten
  BY NumbersCompare
<1> QED BY <1>1, RunInvariant, PTL

\* The feedback log has no entry twice, and a combination or dependency only
\* after the features it relates, wherever the run is cut short.
THEOREM LogOrdered == Spec => []LoggedAfterItsFeatures
<1>1. Inv => LoggedAfterItsFeatures
  BY DEF Inv
<1> QED BY <1>1, RunInvariant, PTL

\* A run that reaches the end of main has logged the semantic coverage of its
\* testcase, no more and no less, for every testcase.
THEOREM LogComplete == Spec => []LogIsCoverage
<1>1. Inv => LogIsCoverage
  BY LogCovers
<1> QED BY <1>1, RunInvariant, PTL

-----------------------------------------------------------------------------
(* The inductive invariant.                                                *)

\* The log file has the log of a target that has closed it, and nothing
\* before that or when the log goes to stderr.
TmpInv == tmp # NoFile => tmp = IF pc = "exited" /\ out = "file" THEN log ELSE <<>>

\* Between two files the target's state is that of a fresh process; during a
\* replay its testcase is the next of the queue.
ReplayInv ==
  /\ Inv
  /\ queue \in Seq(Inputs) /\ replayed \in 0..Len(queue)
  /\ tmp = NoFile => Init
  /\ tmp # NoFile => /\ pc # "idle" /\ replayed < Len(queue)
                     /\ out # "none" => input = queue[replayed + 1]
  /\ TmpInv

\* No log is mistaken for the absence of its file.
LEMMA LogIsFile ==
  ASSUME log \in Seq(GroundTruth) PROVE log # NoFile /\ <<>> # NoFile
<1>1. \A e \in GroundTruth : e[1] # "no file"
  <2>1. \A a, b : /\ FEATURE(a)[1] # "no file" /\ DEP(a, b)[1] # "no file"
                  /\ COMBO(a, b)[1] # "no file"
    BY DEF FEATURE, COMBO, DEP
  <2> QED BY <2>1 DEF GroundTruth
<1>2. Len(NoFile) = 1 /\ NoFile[1][1] = "no file"
  BY DEF NoFile
<1>3. log # NoFile
  <2>1. CASE Len(log) = 1
    <3>1. log[1] \in GroundTruth
      BY <2>1
    <3>2. log[1][1] # "no file"
      BY <3>1, <1>1
    <3> QED BY <3>2, <1>2
  <2>2. CASE Len(log) # 1
    BY <2>2, <1>2
  <2> QED BY <2>1, <2>2
<1>4. <<>> # NoFile
  BY DEF NoFile
<1> QED BY <1>3, <1>4

\* A fresh process satisfies the target's invariant in the next state too.
LEMMA FreshProcess == Init' => Inv'
BY InitInv, PTL

LEMMA ReplayInitInv == ReplayInit => ReplayInv
<1> SUFFICES ASSUME ReplayInit PROVE ReplayInv
  OBVIOUS
<1>1. Inv
  BY InitInv DEF ReplayInit
<1>2. queue \in Seq(Inputs) /\ replayed = 0 /\ tmp = NoFile
  BY QueuesAssumption DEF ReplayInit
<1>3. replayed \in 0..Len(queue)
  BY <1>2
<1> QED BY <1>1, <1>2, <1>3 DEF ReplayInit, ReplayInv, TmpInv

LEMMA NextFileInv ==
  ASSUME ReplayInv, replayed < Len(queue), next_file PROVE ReplayInv'
<1>1. Init' /\ tmp' = NoFile /\ queue' = queue /\ replayed' = replayed + 1
  BY DEF next_file, fresh_process, Init
<1>2. Inv'
  BY <1>1, FreshProcess
<1>3. queue' \in Seq(Inputs) /\ replayed' \in 0..Len(queue')
  BY <1>1 DEF ReplayInv
<1> QED BY <1>1, <1>2, <1>3 DEF ReplayInv, TmpInv

LEMMA RunInputInv ==
  ASSUME ReplayInv, RunInput PROVE ReplayInv'
<1>1. /\ tmp = NoFile /\ replayed < Len(queue) /\ tmp' = <<>>
      /\ UNCHANGED <<queue, replayed>>
  BY DEF RunInput
<1>2. Init /\ Inv
  BY <1>1 DEF ReplayInv
<1>3. queue[replayed + 1] \in Inputs
  BY <1>1 DEF ReplayInv
<1>4. tmp' # NoFile
  <2>1. log \in Seq(GroundTruth)
    BY <1>2 DEF Inv, TypeOK
  <2> QED BY <1>1, <2>1, LogIsFile
<1>5. CASE Main(queue[replayed + 1])
  <2>1. Inv'
    BY <1>2, <1>3, <1>5, MainInv
  <2>2. pc' = "parse" /\ input' = queue[replayed + 1]
    BY <1>5 DEF Main
  <2> QED BY <1>1, <1>4, <2>1, <2>2 DEF ReplayInv, TmpInv
<1>6. CASE MainFails
  <2>1. Inv'
    BY <1>2, <1>6, MainFailsInv
  <2>2. pc' = "exited" /\ out' = "none"
    BY <1>2, <1>6 DEF MainFails, Init
  <2> QED BY <1>1, <1>4, <2>1, <2>2 DEF ReplayInv, TmpInv
<1> QED BY <1>5, <1>6 DEF RunInput

LEMMA TargetRunsInv ==
  ASSUME ReplayInv, TargetRuns PROVE ReplayInv'
<1>1. /\ tmp # NoFile /\ Target /\ UNCHANGED <<queue, replayed>>
      /\ tmp' = IF pc' = "exited" /\ out = "file" THEN tmp \o log ELSE tmp
  BY DEF TargetRuns
<1>2. Inv'
  BY <1>1, TargetInv DEF ReplayInv
<1>3. log \in Seq(GroundTruth) /\ pc \in {"parse", "run"} /\ pc' # "idle"
      /\ UNCHANGED <<input, out>>
  <2>1. log \in Seq(GroundTruth)
    BY DEF ReplayInv, Inv, TypeOK
  <2> QED BY <1>1, <2>1 DEF Target, ParseLine, ParseEnds, RunBlock, FeedbackClose
<1>4. pc' = "exited" => log' = log
  BY <1>1 DEF Target, ParseLine, ParseEnds, RunBlock, FeedbackClose, appVars
<1>5. tmp = <<>>
  BY <1>1, <1>3 DEF ReplayInv, TmpInv
<1>6. tmp' = IF pc' = "exited" /\ out' = "file" THEN log' ELSE <<>>
  <2>1. <<>> \o log = log
    BY <1>3, ConcatEmptySeq
  <2> QED BY <1>1, <1>3, <1>4, <1>5, <2>1
<1>7. tmp' # NoFile
  <2>1. log' \in Seq(GroundTruth)
    BY <1>2 DEF Inv, TypeOK
  <2>2. log # NoFile /\ <<>> # NoFile
    BY <1>3, LogIsFile
  <2> QED BY <1>4, <1>6, <2>2
<1> QED BY <1>1, <1>2, <1>3, <1>6, <1>7 DEF ReplayInv, TmpInv

LEMMA ReplayNextInv == ReplayInv /\ [ReplayNext]_vars => ReplayInv'
<1> SUFFICES ASSUME ReplayInv, [ReplayNext]_vars PROVE ReplayInv'
  OBVIOUS
<1>1. CASE RunInput
  BY <1>1, RunInputInv
<1>2. CASE CannotRun
  BY <1>2, NextFileInv DEF CannotRun
<1>3. CASE TargetRuns
  BY <1>3, TargetRunsInv
<1>4. CASE TimeoutExpired
  BY <1>4, NextFileInv DEF TimeoutExpired, wait_is_over, ReplayInv
<1>5. CASE Collect
  BY <1>5, NextFileInv DEF Collect, ReplayInv
<1>6. CASE UNCHANGED vars
  <2>1. UNCHANGED targetVars /\ UNCHANGED analyzerVars
    BY <1>6 DEF vars
  <2>2. Inv'
    BY <2>1, StutterInv DEF ReplayInv
  <2>3. Init => Init'
    BY <2>1 DEF Init, targetVars, configVars, appVars
  <2> QED BY <2>1, <2>2, <2>3
         DEF ReplayInv, TmpInv, analyzerVars, targetVars, appVars
<1> QED BY <1>1, <1>2, <1>3, <1>4, <1>5, <1>6 DEF ReplayNext

-----------------------------------------------------------------------------
(* The refinement, step by step.                                           *)

LEMMA StartImplements == ReplayInit => Oracle!Init
BY DEF ReplayInit, Oracle!Init

\* A file that cannot be executed, or whose run is killed, is skipped.
LEMMA SkipImplements ==
  ASSUME replayed < Len(queue), next_file, UNCHANGED discovered
  PROVE  Oracle!Skip
BY DEF next_file, Oracle!Skip

\* A log that is read is that of a whole run, or empty.
LEMMA CollectImplements ==
  ASSUME ReplayInv, Collect PROVE Oracle!Count \/ Oracle!Skip
<1>1. /\ tmp # NoFile /\ pc = "exited" /\ replayed < Len(queue) /\ next_file
      /\ discovered' = discovered \union { tmp[n] : n \in 1..Len(tmp) }
  BY DEF Collect, ReplayInv
<1>2. CASE out = "file"
  <2>1. tmp = log /\ input = queue[replayed + 1]
    BY <1>1, <1>2 DEF ReplayInv, TmpInv
  <2>2. { log[n] : n \in 1..Len(log) } = Coverage(input)
    BY <1>1, <1>2, LogCovers DEF ReplayInv, LogIsCoverage
  <2>3. discovered' = discovered \union Coverage(queue[replayed + 1])
    BY <1>1, <2>1, <2>2
  <2> QED BY <1>1, <2>3 DEF Oracle!Count, next_file
<1>3. CASE out # "file"
  <2>1. tmp = <<>>
    BY <1>1, <1>3 DEF ReplayInv, TmpInv
  <2>2. { tmp[n] : n \in 1..Len(tmp) } = {}
    BY <2>1
  <2>3. UNCHANGED discovered
    BY <1>1, <2>2
  <2> QED BY <1>1, <2>3, SkipImplements
<1> QED BY <1>2, <1>3

LEMMA StepImplements ==
  ReplayInv /\ [ReplayNext]_vars
    => [Oracle!Count \/ Oracle!Skip]_<<queue, replayed, discovered>>
<1> SUFFICES ASSUME ReplayInv, [ReplayNext]_vars
             PROVE  \/ Oracle!Count \/ Oracle!Skip
                    \/ UNCHANGED <<queue, replayed, discovered>>
  OBVIOUS
<1>1. CASE RunInput \/ TargetRuns
  BY <1>1 DEF RunInput, TargetRuns
<1>2. CASE CannotRun
  BY <1>2, SkipImplements DEF CannotRun
<1>3. CASE TimeoutExpired
  <2>1. replayed < Len(queue) /\ next_file /\ UNCHANGED discovered
    BY <1>3 DEF TimeoutExpired, wait_is_over, ReplayInv
  <2> QED BY <2>1, SkipImplements
<1>4. CASE Collect
  BY <1>4, CollectImplements
<1>5. CASE UNCHANGED vars
  BY <1>5 DEF vars, analyzerVars
<1> QED BY <1>1, <1>2, <1>3, <1>4, <1>5 DEF ReplayNext

\* The replay analyzer implements ReplayOracle: whatever its target does, and
\* whenever the timeout strikes, a testcase counts with all of its coverage or
\* with none.
THEOREM ReplayRefinesOracle == ReplaySpec => ReplaysAllOrNothing
<1>1. ReplaySpec => []ReplayInv
  BY ReplayInitInv, ReplayNextInv, PTL DEF ReplaySpec
<1>2. ReplaySpec => Oracle!Spec
  BY <1>1, StartImplements, StepImplements, PTL DEF ReplaySpec, Oracle!Spec
<1> QED BY <1>2 DEF ReplaysAllOrNothing
================================================================================

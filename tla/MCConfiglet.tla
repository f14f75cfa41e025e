---------------------------- MODULE MCConfiglet ----------------------------
(***************************************************************************)
(* Instances of Configlet: testcases that are edits of the transaction, as *)
(* AFL's mutators make them, and testcases that are the configuration      *)
(* which unlocks everything, with one line more before it or after it.     *)
(* A number wider than an int is one above 65535 here.                     *)
(***************************************************************************)
EXTENDS Configlet, SequencesExt

MCNumeral ==
  [ v \in {"0", "1", "2", "3", "4", "7", "8", "41", "42", "99", "100", "1336", "1337",
           "2048", "2049", "4096", "0xdeac", "0xdead", "-1", "131114", "-99999"} |->
      CASE v = "0" -> 0       [] v = "1" -> 1       [] v = "2" -> 2        [] v = "3" -> 3
        [] v = "4" -> 4       [] v = "7" -> 7       [] v = "8" -> 8        [] v = "41" -> 41
        [] v = "42" -> 42     [] v = "99" -> 99     [] v = "100" -> 100    [] v = "1336" -> 1336
        [] v = "1337" -> 1337 [] v = "2048" -> 2048 [] v = "2049" -> 2049  [] v = "4096" -> 4096
        [] v = "0xdeac" -> 57004  [] v = "0xdead" -> 57005  [] v = "-1" -> -1
        [] v = "131114" -> 131114 [] v = "-99999" -> -99999 ]

MCIntMin == -65536

L(k, v) == [key |-> k, value |-> v]

(* Edits of the transaction.                                               *)
ExtraLines == { L("AUTH", "0"), L("DB", "sqlite"), L("DB", "bogus"), L("", "1"), L("BACKUP", "") }

Edits(s, lines) ==
  { RemoveAt(s, k) : k \in 1..Len(s) }
    \union { InsertAt(s, k, l) : k \in 1..(Len(s) + 1), l \in lines }
    \union { ReplaceAt(s, k, l) : k \in 1..Len(s), l \in lines }
    \union { [s EXCEPT ![j] = s[k], ![k] = s[j]] : j, k \in 1..Len(s) }

TxInputs == Edits(TxLines, Range(TxLines) \union ExtraLines)
              \union UNION { Edits(RemoveAt(TxLines, k), {TxLines[k]}) : k \in 1..6 }

(* Edits of the configuration that unlocks everything.                     *)
Full ==
  TxLines \o << L("MODE", "write"), L("ROLE", "admin"), L("TLS", "1"), L("CACHE", "1"),
                L("EXPORT", "1"), L("COMPRESS", "gzip"), L("FORMAT", "json"),
                L("METRICS", "1"), L("REGION", "us-east"), L("SIZE", "4096"),
                L("TIMEOUT", "100"), L("THREADS", "8"), L("CHECKSUM", "42"),
                L("MAGIC", "0xdead"), L("TOKEN", "1337") >>

OverrideLines ==
  { L(k, v) : k \in FlagKeys, v \in {"0", "1", "yes"} }
    \union { L(k, v) : k \in EnumKeys, v \in {"bogus", ""} }
    \union UNION { { L(k, v) : v \in EnumValues[k] } : k \in EnumKeys }
    \union { L(k, v) : k \in IntKeys, v \in {"junk", "-1", "-99999", "131114"} }
    \union { L("SIZE", "2048"), L("SIZE", "2049"), L("TIMEOUT", "99"), L("THREADS", "3"),
             L("THREADS", "4"), L("THREADS", "7"), L("CHECKSUM", "41"), L("MAGIC", "0xdeac"),
             L("TOKEN", "1336"), L("COLOUR", "1"), L("", "1") }

FullInputs == {Full, <<>>} \union { Append(Full, l) : l \in OverrideLines }
                \union { <<l>> \o Full : l \in OverrideLines }
                \union { RemoveAt(Full, k) : k \in 1..Len(Full) }

MCInputs == TxInputs \union FullInputs
=============================================================================

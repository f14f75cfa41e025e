------------------------- MODULE MCConfigletReplay -------------------------
(***************************************************************************)
(* An instance of ConfigletReplay: queues of up to three testcases whose   *)
(* coverages overlap, contain one another or are empty.                    *)
(***************************************************************************)
EXTENDS ConfigletReplay

MCIntMin == -65536

MCNumeral == [ v \in {"8", "42"} |-> IF v = "8" THEN 8 ELSE 42 ]

L(k, v) == [key |-> k, value |-> v]

Tls    == << L("AUTH", "1"), L("TLS", "1") >>
Admin  == << L("TLS", "1"), L("ROLE", "admin"), L("AUTH", "1"), L("TLS", "") >>
Accel  == << L("CACHE", "1"), L("DB", "mysql"), L("THREADS", "8"), L("CHECKSUM", "42") >>
Undone == << L("AUTH", "1"), L("AUTH", "0"), L("", "x") >>

MCInputs == {Tls, Admin, Accel, Undone}

MCQueues == UNION { [1..n -> MCInputs] : n \in 0..2 } \union { <<Admin, Accel, Tls>> }
=============================================================================

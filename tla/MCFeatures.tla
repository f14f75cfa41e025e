----------------------------- MODULE MCFeatures -----------------------------
(***************************************************************************)
(* One campaign over every short stream of three operations: CLOSE (always *)
(* fails), GETCWD (may fail) and GETPID, the last one by an id above       *)
(* OP_MAX.  Streams are one operation longer than MAX_OPS and may end in a *)
(* partial operation.                                                      *)
(***************************************************************************)
EXTENDS PocOneReplay

CONSTANT Campaign

MCProcs == {Campaign}

Word(id) == <<id, 0, 0, 0>>

MCInputs ==
  LET ids == {3, 15, 84}
      streams[n \in 0..(MaxOps + 1)] ==
        IF n = 0 THEN {<<>>}
        ELSE { s \o Word(id) : s \in streams[n - 1], id \in ids }
  IN { s \o tail : s \in UNION { streams[n] : n \in 0..(MaxOps + 1) },
                   tail \in {<<>>, <<15>>, <<15, 0, 0>>} }

MCBuilds == { [feedback |-> TRUE, afl |-> TRUE], [feedback |-> TRUE, afl |-> FALSE],
              [feedback |-> FALSE, afl |-> FALSE] }

\* The worst hash there is: in the fallback map everything collides.
MCFeatureHash(f) == IF f[1] = "SEQ3" THEN 5 ELSE 8
=============================================================================

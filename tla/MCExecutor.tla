----------------------------- MODULE MCExecutor -----------------------------
(***************************************************************************)
(* One campaign, every operation of the table with every selector, run     *)
(* after run on the same scratch directory, with a kill possible at every  *)
(* system call.                                                            *)
(***************************************************************************)
EXTENDS PocOneReplay

CONSTANT Campaign

MCProcs == {Campaign}

\* arg0 mod 4 selects descriptors and paths, for SENDTO arg1 does.
MCInputs ==
  { <<id, sel, 7, 0>> : id \in 0..(OP_MAX - 1), sel \in 0..3 }
    \union { <<id, 1, sel, 0>> : id \in {28}, sel \in 0..3 }

MCBuilds == { [feedback |-> TRUE, afl |-> FALSE] }

MCFeatureHash(f) == Len(f)
=============================================================================

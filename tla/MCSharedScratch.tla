-------------------------- MODULE MCSharedScratch --------------------------
(***************************************************************************)
(* Two campaigns at once on the shared scratch directory and ports, with   *)
(* the operations that touch either: every interleaving of their system    *)
(* calls and of the timers that kill them.                                 *)
(***************************************************************************)
EXTENDS SyscallExerciser

CONSTANTS Base, Fb

MCProcs == {Base, Fb}

\* READ, STATX, MKDIRAT, UNLINKAT, READLINKAT, BIND, DUP3 with a selector
\* that makes the call succeed.
MCInputs ==
  { <<1, 1, 0, 0>>, <<10, 0, 0, 0>>, <<12, 0, 0, 0>>, <<13, 0, 0, 0>>,
    <<14, 0, 0, 0>>, <<21, 1, 9, 0>>, <<33, 1, 0, 0>> }

MCBuilds == { [feedback |-> FALSE, afl |-> FALSE] }

MCFeatureHash(f) == Len(f)
=============================================================================

------------------------- MODULE CampaignScriptsProofs -------------------------
(***************************************************************************)
(* Proofs about CampaignScripts, for any number of terminals and scripts:  *)
(* that fuzzers run the targets their campaigns are named after, and that  *)
(* an undisturbed reset leaves a clean slate.                              *)
(***************************************************************************)
EXTENDS CampaignScripts, SequenceTheorems, TLAPS

Dirs == Kinds \union {"runs"}
Programs == [of : Kinds, id : Nat]
Windows == [ terminal : Terminals, pid : Nat, kind : Kinds ]
Fuzzers == [ terminal : Terminals, pid : Nat, kind : Kinds, target : Programs,
             window : BOOLEAN, out : Dirs ]
Steps == {"idle", "clean", "make", "copy", "fuzz", "fuzzing", "check", "windows",
          "session", "pgrep", "kill", "remove", "done"}
Scripts == [ script : Launchers \union Resets \union {"none"}, at : Steps, id : Nat,
             todo : Seq(Dirs), pids : SUBSET Fuzzers ]

TypeOK ==
  /\ objects \in Kinds \union {NoFile} /\ poc_one \in Kinds \union {NoFile}
  /\ bin \in [Kinds -> Programs \union {NoFile}]
  /\ dirs \subseteq Dirs /\ session \in BOOLEAN
  /\ windows \subseteq Windows /\ fuzzers \subseteq Fuzzers
  /\ term \in [Terminals -> Scripts] /\ started \in Nat
  /\ raced \in BOOLEAN /\ disturbed \subseteq Terminals

\* What is to do at a step: kinds for a launcher, directories for a reset.
Phase(p) ==
  /\ p.at = "idle" <=> p.script = "none"
  /\ p.at \in {"clean", "make", "copy", "fuzz", "fuzzing", "check", "windows"}
       <=> p.script \in Launchers
  /\ p.at \in {"clean", "make", "copy", "fuzz", "windows"} =>
       p.todo \in Seq(Kinds) /\ p.todo # << >>
  /\ p.at \in {"copy", "check", "windows"} => p.script = "tmux"
  /\ p.at \in {"fuzz", "fuzzing"} => p.script # "tmux"
  /\ p.at \in {"session", "pgrep", "kill"} => p.script # "clean-only"
  /\ p.at = "remove" => p.script # "stop-only"
  /\ p.at \in {"session", "pgrep", "kill", "remove"} =>
       p.todo # << >> /\ p.todo[Len(p.todo)] = "runs"

TypeInv == TypeOK /\ \A t \in Terminals : Phase(term[t])

\* The list of things to do, one further on.
LEMMA TodoTail ==
  ASSUME NEW S, NEW s \in Seq(S), s # << >>
  PROVE  /\ Head(s) \in S /\ Tail(s) \in Seq(S) /\ Len(s) \in Nat \ {0}
         /\ Len(s) > 1 => Tail(s) # << >> /\ Tail(s)[Len(Tail(s))] = s[Len(s)]
         /\ Len(s) # 1 => Tail(s) # << >>
         /\ \A i \in 1..Len(s) : i = 1 \/ s[i] = Tail(s)[i - 1]
         /\ Len(Tail(s)) = Len(s) - 1
         /\ Head(s) = s[1]
<1>1. Len(s) \in Nat \ {0}
  BY EmptySeq, LenProperties
<1>2. /\ Head(s) \in S /\ Tail(s) \in Seq(S) /\ Len(Tail(s)) = Len(s) - 1
      /\ Head(s) = s[1] /\ \A i \in 1..Len(Tail(s)) : Tail(s)[i] = s[i + 1]
  BY <1>1, HeadTailProperties
<1>3. ASSUME Len(s) > 1 PROVE Tail(s) # << >> /\ Tail(s)[Len(Tail(s))] = s[Len(s)]
  <2>1. Tail(s) # << >>
    <3>1. Tail(s) \in Seq(S) /\ Len(Tail(s)) # 0
      BY <1>1, <1>2, <1>3
    <3> QED BY <3>1, EmptySeq
  <2>2. Len(s) - 1 \in 1..Len(Tail(s))
    BY <1>1, <1>2, <1>3
  <2> QED BY <1>1, <1>2, <2>1, <2>2
<1>4. ASSUME Len(s) # 1 PROVE Tail(s) # << >>
  <2>1. \A n \in Nat \ {0} : n = 1 \/ n > 1
    OBVIOUS
  <2>2. Len(s) > 1
    BY <1>1, <1>4, <2>1, Zenon
  <2> QED BY <1>3, <2>2
<1>5. ASSUME NEW i \in 1..Len(s), i # 1 PROVE s[i] = Tail(s)[i - 1]
  <2>1. i - 1 \in 1..Len(Tail(s))
    BY <1>1, <1>2, <1>5
  <2> QED BY <1>2, <2>1
<1> QED BY <1>1, <1>2, <1>3, <1>4, <1>5

\* A script that goes to another step.
LEMMA GoesTo ==
  ASSUME NEW q \in Scripts, NEW step \in Steps
  PROVE  /\ [q EXCEPT !.at = step] \in Scripts
         /\ [q EXCEPT !.at = step].at = step
         /\ [q EXCEPT !.at = step].script = q.script
         /\ [q EXCEPT !.at = step].todo = q.todo
  BY DEF Scripts

LEMMA TypeInit == Init => TypeInv
<1> SUFFICES ASSUME Init PROVE TypeInv
  OBVIOUS
<1> USE DEF Init, Kinds
<1>1. Idle \in Scripts /\ Phase(Idle)
  BY DEF Idle, Scripts, Steps, Launchers, Resets, Phase
<1>2. TypeOK
  BY <1>1 DEF TypeOK
<1> QED BY <1>1, <1>2 DEF TypeInv

LEMMA TypeStep == TypeInv /\ [Next]_vars => TypeInv'
<1> SUFFICES ASSUME TypeInv, [Next]_vars PROVE TypeInv'
  OBVIOUS
<1> USE ConstantsAssumption DEF TypeInv, TypeOK, At, Goto, End, Kind, NextTodo, build
<1>1. /\ Idle \in Scripts /\ Phase(Idle)
      /\ \A t \in Terminals : term[t] \in Scripts /\ Phase(term[t])
  BY DEF Idle, Scripts, Steps, Launchers, Resets, Phase
\* Where only the script of one terminal moves.
<1>2. ASSUME NEW t \in Terminals, NEW p \in Scripts, Phase(p), term' = [term EXCEPT ![t] = p]
      PROVE  term' \in [Terminals -> Scripts] /\ \A u \in Terminals : Phase(term'[u])
  BY <1>1, <1>2
<1>3. ASSUME NEW t \in Terminals, NEW script \in Launchers, StartLauncher(t, script)
      PROVE  TypeInv'
  <2> DEFINE todo == IF script = "tmux" THEN <<"baseline", "sysfeedback">> ELSE <<script>>
             p == [script |-> script, at |-> "clean", id |-> started', pids |-> {}, todo |-> todo]
  <2>1. todo \in Seq(Kinds) /\ todo # << >>
    <3>1. CASE script = "tmux"
      <4>1. <<"baseline", "sysfeedback">> \in Seq(Kinds) /\ <<"baseline", "sysfeedback">> # << >>
        BY DEF Kinds
      <4> QED BY <3>1, <4>1
    <3>2. CASE script # "tmux"
      <4>1. script \in Kinds
        BY <3>2 DEF Kinds, Launchers
      <4>2. <<script>> \in Seq(Kinds) /\ <<script>> # << >>
        BY <4>1
      <4> QED BY <3>2, <4>2
    <3> QED BY <3>1, <3>2
  <2>2. term' = [term EXCEPT ![t] = p]
    BY <1>3 DEF StartLauncher
  <2> HIDE DEF todo
  <2>3. p \in Scripts /\ Phase(p)
    <3>1. todo \in Seq(Dirs)
      BY <2>1 DEF Dirs
    <3> QED BY <1>3, <2>1, <3>1 DEF StartLauncher, Scripts, Steps, Phase, Launchers, Resets
  <2>4. term' \in [Terminals -> Scripts] /\ \A u \in Terminals : Phase(term'[u])
    BY <1>2, <2>2, <2>3
  <2>5. raced' \in BOOLEAN /\ disturbed' \subseteq Terminals /\ started' \in Nat
    BY <1>3 DEF StartLauncher
  <2>6. UNCHANGED <<objects, poc_one, bin, session, windows, fuzzers>> /\ dirs' \subseteq Dirs
    BY <1>3 DEF StartLauncher, Dirs
  <2> QED BY <2>4, <2>5, <2>6
<1>4. ASSUME NEW t \in Terminals, NEW script \in Resets, StartReset(t, script)
      PROVE  TypeInv'
  <2> DEFINE todo == <<"baseline", "sysfeedback", "runs">>
             at == IF script = "clean-only" THEN "remove" ELSE "session"
             p == [script |-> script, at |-> at, id |-> started', todo |-> todo, pids |-> {}]
  <2>1. todo \in Seq(Dirs) /\ todo # << >> /\ todo[Len(todo)] = "runs"
    BY DEF Dirs, Kinds
  <2>2. term' = [term EXCEPT ![t] = p]
    BY <1>4 DEF StartReset
  <2> HIDE DEF todo
  <2>3. p \in Scripts /\ Phase(p)
    BY <1>4, <2>1 DEF StartReset, Scripts, Steps, Phase, Launchers, Resets
  <2>4. term' \in [Terminals -> Scripts] /\ \A u \in Terminals : Phase(term'[u])
    BY <1>2, <2>2, <2>3
  <2>5. disturbed' \subseteq Terminals /\ started' \in Nat
    BY <1>4 DEF StartReset
  <2> QED BY <1>4, <2>4, <2>5 DEF StartReset
<1>5. ASSUME NEW t \in Terminals, Clean(t) PROVE TypeInv'
  <2> DEFINE p == [term[t] EXCEPT !.at = "make"]
  <2>1. p \in Scripts /\ Phase(p) /\ term' = [term EXCEPT ![t] = p]
    <3>0. term[t] \in Scripts /\ "make" \in Steps
      BY <1>1 DEF Steps
    <3>1. /\ p \in Scripts /\ p.at = "make" /\ p.script = term[t].script /\ p.todo = term[t].todo
      BY <3>0, GoesTo, Zenon
    <3>2. term[t].at = "clean" /\ term' = [term EXCEPT ![t] = p] /\ Phase(term[t])
      BY <1>1, <1>5 DEF Clean
    <3> HIDE DEF p
    <3> QED BY <3>1, <3>2 DEF Phase, Launchers, Resets
  <2>2. term' \in [Terminals -> Scripts] /\ \A u \in Terminals : Phase(term'[u])
    BY <1>2, <2>1
  <2> QED BY <1>5, <2>2 DEF Clean
<1>6. ASSUME NEW t \in Terminals, Make(t) PROVE TypeInv'
  <2> DEFINE at == IF term[t].script = "tmux" THEN "copy" ELSE "fuzz"
             p == [term[t] EXCEPT !.at = at]
  <2>1. p \in Scripts /\ Phase(p) /\ term' = [term EXCEPT ![t] = p]
    <3>0. term[t] \in Scripts /\ at \in Steps
      BY <1>1 DEF Steps
    <3>1. term[t].at = "make" /\ term' = [term EXCEPT ![t] = p] /\ Phase(term[t])
      BY <1>1, <1>6 DEF Make
    <3>2. \/ at = "copy" /\ term[t].script = "tmux"
          \/ at = "fuzz" /\ term[t].script # "tmux"
      OBVIOUS
    <3> HIDE DEF at
    <3>3. p \in Scripts /\ p.at = at /\ p.script = term[t].script /\ p.todo = term[t].todo
      BY <3>0, GoesTo, Zenon
    <3> HIDE DEF p
    <3> QED BY <3>1, <3>2, <3>3 DEF Phase, Launchers, Resets
  <2>2. term' \in [Terminals -> Scripts] /\ \A u \in Terminals : Phase(term'[u])
    BY <1>2, <2>1
  <2>3. Head(term[t].todo) \in Kinds
    BY <1>1, <1>6, TodoTail DEF Make, Phase
  <2> QED BY <1>6, <2>2, <2>3 DEF Make
<1>7. ASSUME NEW t \in Terminals, Copy(t) PROVE TypeInv'
  <2>1. CASE poc_one = NoFile \/ "runs" \notin dirs \/ busy(Kind(t))
    <3>1. term' = [term EXCEPT ![t] = Idle]
      BY <1>7, <2>1 DEF Copy
    <3>2. term' \in [Terminals -> Scripts] /\ \A u \in Terminals : Phase(term'[u])
      BY <1>1, <1>2, <3>1
    <3> QED BY <1>7, <2>1, <3>2 DEF Copy
  <2>2. CASE ~(poc_one = NoFile \/ "runs" \notin dirs \/ busy(Kind(t)))
    <3> DEFINE p == [term[t] EXCEPT !.todo = Tail(@),
                       !.at = IF Len(term[t].todo) > 1 THEN "clean" ELSE "check"]
    <3>1. term' = [term EXCEPT ![t] = p]
      BY <1>1, <1>7, <2>2 DEF Copy, Scripts
    <3>2. term[t].todo \in Seq(Kinds) /\ term[t].todo # << >>
      BY <1>1, <1>7 DEF Copy, Phase
    <3>3. /\ Head(term[t].todo) \in Kinds /\ Tail(term[t].todo) \in Seq(Kinds)
          /\ Len(term[t].todo) > 1 => Tail(term[t].todo) # << >>
      BY <3>2, TodoTail
    <3>4. p \in Scripts /\ Phase(p)
      <4>1. Tail(term[t].todo) \in Seq(Dirs)
        BY <3>3 DEF Dirs
      <4>2. p \in Scripts
        BY <1>1, <4>1 DEF Scripts, Steps
      <4>3. Phase(p)
        BY <1>1, <1>7, <3>3 DEF Copy, Scripts, Phase, Launchers, Resets
      <4> QED BY <4>2, <4>3
    <3>5. term' \in [Terminals -> Scripts] /\ \A u \in Terminals : Phase(term'[u])
      BY <1>2, <3>1, <3>4
    <3>6. program(poc_one, term[t].id) \in Programs
      BY <1>1, <2>2 DEF program, Programs, Scripts
    <3>7. bin' \in [Kinds -> Programs \union {NoFile}]
      BY <1>7, <2>2, <3>3, <3>6 DEF Copy
    <3> QED BY <1>7, <3>5, <3>7 DEF Copy
  <2> QED BY <2>1, <2>2
<1>8. ASSUME NEW t \in Terminals, CheckSession(t) PROVE TypeInv'
  <2>1. CASE session
    <3>1. term' = [term EXCEPT ![t] = Idle]
      BY <1>8, <2>1 DEF CheckSession
    <3>2. term' \in [Terminals -> Scripts] /\ \A u \in Terminals : Phase(term'[u])
      BY <1>1, <1>2, <3>1
    <3> QED BY <1>8, <2>1, <3>2 DEF CheckSession
  <2>2. CASE ~session
    <3> DEFINE todo == <<"baseline", "sysfeedback">>
               p == [term[t] EXCEPT !.at = "windows", !.todo = todo]
    <3>1. todo \in Seq(Kinds) /\ todo # << >>
      BY DEF Kinds
    <3>2. term' = [term EXCEPT ![t] = p]
      BY <1>1, <1>8, <2>2 DEF CheckSession, Scripts
    <3> HIDE DEF todo
    <3>3. p \in Scripts /\ Phase(p)
      <4>1. todo \in Seq(Dirs)
        BY <3>1 DEF Dirs
      <4>2. p \in Scripts
        BY <1>1, <4>1 DEF Scripts, Steps
      <4>3. p.at = "windows" /\ p.script = term[t].script /\ p.todo = todo
        BY <1>1 DEF Scripts
      <4>4. term[t].at = "check" /\ Phase(term[t])
        BY <1>1, <1>8 DEF CheckSession
      <4> HIDE DEF p
      <4> QED BY <3>1, <4>2, <4>3, <4>4 DEF Phase, Launchers, Resets
    <3>4. term' \in [Terminals -> Scripts] /\ \A u \in Terminals : Phase(term'[u])
      BY <1>2, <3>2, <3>3
    <3> QED BY <1>8, <2>2, <3>4 DEF CheckSession
  <2> QED BY <2>1, <2>2
<1>9. ASSUME NEW t \in Terminals, OpenWindow(t) PROVE TypeInv'
  <2>1. /\ term[t].todo \in Seq(Kinds) /\ term[t].todo # << >> /\ term[t].script = "tmux"
        /\ Head(term[t].todo) \in Kinds /\ Tail(term[t].todo) \in Seq(Kinds)
        /\ Len(term[t].todo) # 1 => Tail(term[t].todo) # << >>
    BY <1>1, <1>9, TodoTail DEF OpenWindow, Phase
  <2>2. term' \in [Terminals -> Scripts] /\ \A u \in Terminals : Phase(term'[u])
    <3>1. CASE term' = [term EXCEPT ![t] = Idle]
      BY <1>1, <1>2, <3>1
    <3>2. CASE Len(term[t].todo) # 1 /\ NextTodo(t, "windows")
      <4> DEFINE p == [term[t] EXCEPT !.todo = Tail(@), !.at = "windows"]
      <4>1. term' = [term EXCEPT ![t] = p]
        BY <1>1, <1>9, <3>2 DEF OpenWindow, Scripts
      <4>2. Tail(term[t].todo) \in Seq(Dirs)
        BY <2>1 DEF Dirs
      <4>3. p \in Scripts
        BY <1>1, <4>2 DEF Scripts, Steps
      <4>4. p.at = "windows" /\ p.script = term[t].script /\ p.todo = Tail(term[t].todo)
        BY <1>1 DEF Scripts
      <4> HIDE DEF p
      <4>5. Phase(p)
        <5>1. Tail(term[t].todo) # << >>
          BY <2>1, <3>2
        <5> QED BY <2>1, <4>4, <5>1 DEF Phase, Launchers, Resets
      <4> QED BY <1>2, <4>1, <4>3, <4>5
    <3> QED BY <1>9, <3>1, <3>2 DEF OpenWindow
  <2>3. windows' \subseteq Windows
    <3>1. job(t) \in Windows
      BY <1>1, <2>1 DEF job, Windows, Scripts
    <3> QED BY <1>9, <3>1 DEF OpenWindow
  <2> QED BY <1>9, <2>2, <2>3 DEF OpenWindow
<1>10. ASSUME NEW t \in Terminals, FuzzHere(t) PROVE TypeInv'
  <2>1. CASE poc_one = NoFile
    <3>1. term' = [term EXCEPT ![t] = Idle]
      BY <1>10, <2>1 DEF FuzzHere
    <3>2. term' \in [Terminals -> Scripts] /\ \A u \in Terminals : Phase(term'[u])
      BY <1>1, <1>2, <3>1
    <3> QED BY <1>10, <2>1, <3>2 DEF FuzzHere
  <2>2. CASE poc_one # NoFile
    <3> DEFINE p == [term[t] EXCEPT !.at = "fuzzing"]
    <3>1. p \in Scripts /\ Phase(p) /\ term' = [term EXCEPT ![t] = p]
      <4>0. term[t] \in Scripts /\ "fuzzing" \in Steps
        BY <1>1 DEF Steps
      <4>1. p \in Scripts /\ p.at = "fuzzing" /\ p.script = term[t].script
        BY <4>0, GoesTo, Zenon
      <4>2. term[t].at = "fuzz" /\ term' = [term EXCEPT ![t] = p] /\ Phase(term[t])
        BY <1>1, <1>10, <2>2 DEF FuzzHere
      <4> HIDE DEF p
      <4> QED BY <4>1, <4>2 DEF Phase, Launchers, Resets
    <3>2. term' \in [Terminals -> Scripts] /\ \A u \in Terminals : Phase(term'[u])
      BY <1>2, <3>1
    <3>3. Kind(t) \in Kinds
      BY <1>1, <1>10, TodoTail DEF FuzzHere, Phase
    <3>4. fuzzer(job(t), program(poc_one, 0), FALSE, Kind(t)) \in Fuzzers
      BY <1>1, <2>2, <3>3 DEF fuzzer, job, Fuzzers, program, Programs, Scripts, Dirs
    <3>5. fuzzers' \subseteq Fuzzers /\ dirs' \subseteq Dirs
      BY <1>10, <2>2, <3>3, <3>4 DEF FuzzHere, Dirs
    <3> QED BY <1>10, <2>2, <3>2, <3>5 DEF FuzzHere
  <2> QED BY <2>1, <2>2
<1>11. ASSUME NEW t \in Terminals, StopSession(t) PROVE TypeInv'
  <2> DEFINE p == [term[t] EXCEPT !.at = "pgrep"]
  <2>1. p \in Scripts /\ Phase(p) /\ term' = [term EXCEPT ![t] = p]
    <3>0. term[t] \in Scripts /\ "pgrep" \in Steps
      BY <1>1 DEF Steps
    <3>1. p \in Scripts /\ p.at = "pgrep" /\ p.script = term[t].script /\ p.todo = term[t].todo
      BY <3>0, GoesTo, Zenon
    <3>2. term[t].at = "session" /\ term' = [term EXCEPT ![t] = p] /\ Phase(term[t])
      BY <1>1, <1>11 DEF StopSession
    <3> HIDE DEF p
    <3> QED BY <3>1, <3>2 DEF Phase, Launchers, Resets
  <2>2. term' \in [Terminals -> Scripts] /\ \A u \in Terminals : Phase(term'[u])
    BY <1>2, <2>1
  <2> QED BY <1>11, <2>2 DEF StopSession
<1>12. ASSUME NEW t \in Terminals, ListFuzzers(t) PROVE TypeInv'
  <2> DEFINE at == IF fuzzers = {} THEN after_stop(t) ELSE "kill"
             p == [term[t] EXCEPT !.pids = fuzzers, !.at = at]
  <2>1. p \in Scripts /\ Phase(p)
    <3>1. at \in {"kill", "done", "remove"} /\ (at = "remove" => term[t].script # "stop-only")
      BY DEF after_stop
    <3> HIDE DEF at
    <3>2. p \in Scripts
      BY <1>1, <3>1 DEF Scripts, Steps
    <3>3. p.at = at /\ p.script = term[t].script /\ p.todo = term[t].todo
      BY <1>1 DEF Scripts
    <3>4. /\ term[t].script \in Resets /\ term[t].script # "clean-only"
          /\ term[t].todo # << >> /\ term[t].todo[Len(term[t].todo)] = "runs"
      BY <1>1, <1>12 DEF ListFuzzers, Phase, Scripts, Launchers, Resets
    <3> HIDE DEF p
    <3>5. Phase(p)
      BY <3>1, <3>3, <3>4 DEF Phase, Launchers, Resets
    <3> QED BY <3>2, <3>5
  <2>2. term' = [term EXCEPT ![t] = p]
    BY <1>1, <1>12 DEF ListFuzzers, Scripts
  <2>3. term' \in [Terminals -> Scripts] /\ \A u \in Terminals : Phase(term'[u])
    BY <1>2, <2>1, <2>2
  <2> QED BY <1>12, <2>3 DEF ListFuzzers
<1>13. ASSUME NEW t \in Terminals, KillFuzzers(t) PROVE TypeInv'
  <2> DEFINE p == [term[t] EXCEPT !.at = after_stop(t)]
  <2>1. p \in Scripts /\ Phase(p)
    <3>0. term[t] \in Scripts /\ after_stop(t) \in Steps
      BY <1>1 DEF Steps, after_stop
    <3>1. /\ p \in Scripts /\ p.at = after_stop(t)
          /\ p.script = term[t].script /\ p.todo = term[t].todo
      BY <3>0, GoesTo, Zenon
    <3>2. term[t].at = "kill" /\ Phase(term[t]) /\ term[t].script \in Launchers \union Resets \union {"none"}
      BY <1>1, <1>13 DEF KillFuzzers, Scripts
    <3> HIDE DEF p
    <3> QED BY <3>1, <3>2 DEF Phase, Launchers, Resets, after_stop
  <2>2. term' = [u \in Terminals |-> IF u = t THEN p
                   ELSE IF u \in waiting(survivors(term[t].pids)) THEN Idle ELSE term[u]]
    BY <1>13 DEF KillFuzzers
  <2>3. term' \in [Terminals -> Scripts] /\ \A u \in Terminals : Phase(term'[u])
    <3> HIDE DEF p
    <3> QED BY <1>1, <2>1, <2>2
  <2> QED BY <1>13, <2>3 DEF KillFuzzers
<1>14. ASSUME NEW t \in Terminals, RemoveDir(t) PROVE TypeInv'
  <2>1. /\ term[t].script \in Resets /\ term[t].script # "stop-only"
        /\ term[t].todo \in Seq(Dirs) /\ term[t].todo # << >>
        /\ term[t].todo[Len(term[t].todo)] = "runs"
    BY <1>1, <1>14 DEF RemoveDir, Phase, Scripts, Launchers, Resets
  <2>2. CASE term' = [term EXCEPT ![t] = Idle]
    <3>1. term' \in [Terminals -> Scripts] /\ \A u \in Terminals : Phase(term'[u])
      BY <1>1, <1>2, <2>2
    <3> QED BY <1>14, <3>1 DEF RemoveDir
  <2>3. CASE NextTodo(t, "done")
    <3> DEFINE at == IF Len(term[t].todo) > 1 THEN "remove" ELSE "done"
               p == [term[t] EXCEPT !.todo = Tail(@), !.at = at]
    <3>1. term' = [term EXCEPT ![t] = p]
      BY <1>1, <1>14, <2>3 DEF RemoveDir, Scripts
    <3>2. /\ Tail(term[t].todo) \in Seq(Dirs)
          /\ at = "remove" => /\ Tail(term[t].todo) # << >>
                              /\ Tail(term[t].todo)[Len(Tail(term[t].todo))] = "runs"
      BY <2>1, TodoTail
    <3>3. at \in {"remove", "done"}
      OBVIOUS
    <3> HIDE DEF at
    <3>4. p \in Scripts
      BY <1>1, <3>2, <3>3 DEF Scripts, Steps
    <3>5. p.at = at /\ p.script = term[t].script /\ p.todo = Tail(term[t].todo)
      BY <1>1 DEF Scripts
    <3> HIDE DEF p
    <3>6. Phase(p)
      BY <2>1, <3>2, <3>3, <3>5 DEF Phase, Launchers, Resets
    <3>7. term' \in [Terminals -> Scripts] /\ \A u \in Terminals : Phase(term'[u])
      BY <1>2, <3>1, <3>4, <3>6
    <3> QED BY <1>14, <3>7 DEF RemoveDir
  <2> QED BY <1>14, <2>2, <2>3 DEF RemoveDir
<1>15. ASSUME NEW t \in Terminals, ResetDone(t) PROVE TypeInv'
  <2>1. term' = [term EXCEPT ![t] = Idle]
    BY <1>15 DEF ResetDone
  <2>2. term' \in [Terminals -> Scripts] /\ \A u \in Terminals : Phase(term'[u])
    BY <1>1, <1>2, <2>1
  <2> QED BY <1>15, <2>2 DEF ResetDone
<1>16. ASSUME NEW f \in fuzzers, FuzzerEnds(f) PROVE TypeInv'
  <2>1. term' \in [Terminals -> Scripts] /\ \A u \in Terminals : Phase(term'[u])
    BY <1>1, <1>16 DEF FuzzerEnds, Gone
  <2> QED BY <1>16, <2>1 DEF FuzzerEnds, Gone
<1>17. ASSUME NEW w \in windows, RunWindow(w) PROVE TypeInv'
  <2>1. w.kind \in Kinds /\ w \in Windows
    BY DEF Windows
  <2>2. ASSUME target_bin(w.kind) # NoFile
        PROVE  fuzzer(w, target_bin(w.kind), TRUE, "runs") \in Fuzzers
    BY <2>1, <2>2 DEF fuzzer, Windows, Fuzzers, target_bin, Dirs
  <2>3. fuzzers' \subseteq Fuzzers /\ dirs' \subseteq Dirs /\ windows' \subseteq Windows
    BY <1>17, <2>2 DEF RunWindow, Dirs
  <2> QED BY <1>17, <2>3 DEF RunWindow
<1>18. CASE UNCHANGED vars
  BY <1>18 DEF vars
<1> QED
  BY <1>3, <1>4, <1>5, <1>6, <1>7, <1>8, <1>9, <1>10, <1>11, <1>12, <1>13, <1>14, <1>15,
     <1>16, <1>17, <1>18 DEF Next, Launch, Reset

\* Whatever is typed in the terminals, the scripts keep their state in shape:
\* a launcher that builds has a kind to build, a reset that is not through has
\* directories left, "runs" the last of them.
THEOREM TypeCorrect == Spec => []TypeInv
  BY TypeInit, TypeStep, PTL DEF Spec

-----------------------------------------------------------------------------
(* Targets.  While no two builds overlap, what a build has made so far is  *)
(* of the kind it makes, and so are the copies and the fuzzers.            *)

TargetInv ==
  ~raced =>
    /\ \A t, u \in Terminals : Building(t) /\ Building(u) => t = u
    /\ \A t \in Terminals : At(t, "make") => objects = NoFile /\ poc_one = NoFile
    /\ \A t \in Terminals : term[t].at \in {"copy", "fuzz"} => poc_one = Kind(t)
    /\ \A k \in Kinds : bin[k] # NoFile => bin[k].of = k
    /\ \A f \in fuzzers : f.target.of = f.kind

LEMMA TargetStep == TypeInv /\ TargetInv /\ [Next]_vars => TargetInv'
<1> SUFFICES ASSUME TypeInv, TargetInv, [Next]_vars PROVE TargetInv'
  OBVIOUS
<1> USE DEF At
<1>1. \A t \in Terminals : term[t] \in Scripts /\ Phase(term[t])
  BY DEF TypeInv, TypeOK
\* Nothing is built, and what is being built goes no further.
<1>2. ASSUME UNCHANGED <<objects, poc_one, raced>>,
             \A u \in Terminals : ~Building(u)' \/ term'[u] = term[u],
             \A k \in Kinds : bin'[k] = bin[k] \/ bin'[k] = NoFile,
             \A f \in fuzzers' : f \in fuzzers \/ f.target.of = f.kind
      PROVE  TargetInv'
  BY <1>2 DEF TargetInv, Building, Kind
<1>3. ASSUME NEW t \in Terminals, NEW script \in Launchers, StartLauncher(t, script)
      PROVE  TargetInv'
  <2>1. /\ term'[t].at = "clean" /\ \A u \in Terminals \ {t} : term'[u] = term[u]
        /\ UNCHANGED <<objects, poc_one, bin, fuzzers>>
    BY <1>3 DEF StartLauncher, build, TypeInv, TypeOK
  <2>2. ASSUME ~raced' PROVE ~raced /\ \A u \in Terminals : ~Building(u)
    BY <1>3, <2>2 DEF StartLauncher
  <2> QED BY <2>1, <2>2 DEF TargetInv, Building, Kind
<1>4. ASSUME NEW t \in Terminals, NEW script \in Resets, StartReset(t, script)
      PROVE  TargetInv'
  <2>1. /\ term'[t].at \in {"remove", "session"}
        /\ \A u \in Terminals \ {t} : term'[u] = term[u]
    BY <1>4 DEF StartReset, TypeInv, TypeOK
  <2> QED BY <1>2, <1>4, <2>1 DEF StartReset, build, Building
\* Steps of the one build: the others are not building.
<1>5. ASSUME NEW t \in Terminals, Clean(t) PROVE TargetInv'
  <2>1. /\ term[t].at = "clean" /\ term'[t].at = "make"
        /\ \A u \in Terminals \ {t} : term'[u] = term[u]
        /\ UNCHANGED <<bin, fuzzers, raced>> /\ objects' = NoFile /\ poc_one' = NoFile
    BY <1>5 DEF Clean, Goto, TypeInv, TypeOK, Scripts
  <2> QED BY <2>1 DEF TargetInv, Building, Kind
<1>6. ASSUME NEW t \in Terminals, Make(t) PROVE TargetInv'
  <2>1. /\ term[t].at = "make" /\ term'[t].at \in {"copy", "fuzz"}
        /\ term'[t].todo = term[t].todo
        /\ \A u \in Terminals \ {t} : term'[u] = term[u]
        /\ UNCHANGED <<bin, fuzzers, raced>>
    BY <1>6 DEF Make, Goto, TypeInv, TypeOK, Scripts
  <2>2. ASSUME ~raced PROVE poc_one' = Kind(t)
    BY <1>6, <2>1, <2>2 DEF Make, TargetInv
  <2> QED BY <2>1, <2>2 DEF TargetInv, Building, Kind
<1>7. ASSUME NEW t \in Terminals, Copy(t) PROVE TargetInv'
  <2>1. CASE End(t) /\ UNCHANGED bin
    <3>1. ~Building(t)' /\ \A u \in Terminals \ {t} : term'[u] = term[u]
      BY <2>1 DEF End, Idle, Building, TypeInv, TypeOK
    <3> QED BY <1>2, <1>7, <2>1, <3>1 DEF Copy
  <2>2. CASE /\ poc_one # NoFile
             /\ bin' = [bin EXCEPT ![Kind(t)] = program(poc_one, term[t].id)]
             /\ term' = [term EXCEPT ![t].todo = Tail(@),
                           ![t].at = IF Len(term[t].todo) > 1 THEN "clean" ELSE "check"]
    <3>1. /\ term[t].at = "copy" /\ term'[t].at \in {"clean", "check"}
          /\ \A u \in Terminals \ {t} : term'[u] = term[u]
          /\ UNCHANGED <<objects, poc_one, fuzzers, raced>>
      BY <1>7, <2>2 DEF Copy, TypeInv, TypeOK, Scripts
    <3>2. ASSUME ~raced, NEW k \in Kinds, bin'[k] # NoFile PROVE bin'[k].of = k
      BY <2>2, <3>1, <3>2 DEF TargetInv, program, TypeInv, TypeOK
    <3> QED BY <3>1, <3>2 DEF TargetInv, Building, Kind
  <2> QED BY <1>7, <2>1, <2>2 DEF Copy
<1>8. ASSUME NEW t \in Terminals, CheckSession(t) PROVE TargetInv'
  <2>1. ~Building(t)' /\ \A u \in Terminals \ {t} : term'[u] = term[u]
    BY <1>8 DEF CheckSession, End, Idle, Building, TypeInv, TypeOK, Scripts
  <2> QED BY <1>2, <1>8, <2>1 DEF CheckSession, build
<1>9. ASSUME NEW t \in Terminals, OpenWindow(t) PROVE TargetInv'
  <2>1. ~Building(t)' /\ \A u \in Terminals \ {t} : term'[u] = term[u]
    <3>1. CASE End(t)
      BY <3>1 DEF End, Idle, Building, TypeInv, TypeOK
    <3>2. CASE NextTodo(t, "windows")
      <4>1. term'[t].at = "windows" /\ \A u \in Terminals \ {t} : term'[u] = term[u]
        BY <1>9, <3>2 DEF OpenWindow, NextTodo, TypeInv, TypeOK, Scripts
      <4> QED BY <4>1 DEF Building
    <3> QED BY <1>9, <3>1, <3>2 DEF OpenWindow
  <2> QED BY <1>2, <1>9, <2>1 DEF OpenWindow, build
<1>10. ASSUME NEW t \in Terminals, FuzzHere(t) PROVE TargetInv'
  <2>1. ~Building(t)'
    <3>1. CASE End(t)
      BY <3>1 DEF End, Idle, Building, TypeInv, TypeOK
    <3>2. CASE Goto(t, "fuzzing")
      <4>1. term'[t].at = "fuzzing"
        BY <3>2 DEF Goto, TypeInv, TypeOK, Scripts
      <4> QED BY <4>1 DEF Building
    <3> QED BY <1>10, <3>1, <3>2 DEF FuzzHere
  <2>2. \A u \in Terminals \ {t} : term'[u] = term[u]
    BY <1>10 DEF FuzzHere, End, Goto, TypeInv, TypeOK
  <2>3. UNCHANGED <<objects, poc_one, bin, raced>>
    BY <1>10 DEF FuzzHere, build
  <2>4. CASE raced
    BY <2>3, <2>4 DEF TargetInv
  <2>5. CASE ~raced
    <3>1. poc_one = Kind(t)
      BY <1>10, <2>5 DEF FuzzHere, TargetInv
    <3>2. \A f \in fuzzers' : f \in fuzzers \/ f.target.of = f.kind
      BY <1>10, <3>1 DEF FuzzHere, fuzzer, job, program
    <3> QED BY <1>2, <2>1, <2>2, <2>3, <3>2
  <2> QED BY <2>4, <2>5
\* Resets and fuzzers that end take away, and build nothing.
<1>11. ASSUME NEW t \in Terminals, Reset(t) PROVE TargetInv'
  <2>1. \A u \in Terminals : ~Building(u)' \/ term'[u] = term[u]
    BY <1>1, <1>11 DEF Reset, StopSession, ListFuzzers, KillFuzzers, RemoveDir, ResetDone, Goto, End,
       NextTodo, Idle, Building, TypeInv, TypeOK, Scripts, after_stop
  <2>2. /\ UNCHANGED <<objects, poc_one, raced>> /\ fuzzers' \subseteq fuzzers
        /\ \A k \in Kinds : bin'[k] = bin[k] \/ bin'[k] = NoFile
    BY <1>11 DEF Reset, StopSession, ListFuzzers, KillFuzzers, RemoveDir, ResetDone, build
  <2> QED BY <1>2, <2>1, <2>2
<1>12. ASSUME NEW f \in fuzzers, FuzzerEnds(f) PROVE TargetInv'
  <2>1. \A u \in Terminals : ~Building(u)' \/ term'[u] = term[u]
    BY <1>12 DEF FuzzerEnds, Gone, Idle, Building
  <2> QED BY <1>2, <1>12, <2>1 DEF FuzzerEnds, Gone, build
\* A window takes the copy of its kind.
<1>13. ASSUME NEW w \in windows, RunWindow(w) PROVE TargetInv'
  <2>1. UNCHANGED <<objects, poc_one, bin, raced, term>>
    BY <1>13 DEF RunWindow, build
  <2>2. CASE raced
    BY <2>1, <2>2 DEF TargetInv
  <2>3. CASE ~raced
    <3>1. w.kind \in Kinds
      BY DEF TypeInv, TypeOK, Windows
    <3>2. \A f \in fuzzers' : f \in fuzzers \/ f.target.of = f.kind
      BY <1>13, <2>3, <3>1 DEF RunWindow, TargetInv, fuzzer, target_bin
    <3> QED BY <1>2, <2>1, <3>2
  <2> QED BY <2>2, <2>3
<1>14. CASE UNCHANGED vars
  BY <1>2, <1>14 DEF vars, build
<1> QED
  BY <1>3, <1>4, <1>5, <1>6, <1>7, <1>8, <1>9, <1>10, <1>11, <1>12, <1>13, <1>14
     DEF Next, Launch

\* run_tmux_campaigns.sh:12-14: as long as no two builds overlap, every fuzzer
\* runs the target its campaign is named after, for any number of terminals.
THEOREM TargetsCorrect == Spec => []TargetsOfTheirKind
<1>1. Init => TargetInv
  BY DEF Init, TargetInv, Idle, Building, At
<1>2. TargetInv => TargetsOfTheirKind
  BY DEF TargetInv, TargetsOfTheirKind
<1> QED BY <1>1, <1>2, TargetStep, TypeCorrect, PTL DEF Spec

-----------------------------------------------------------------------------
(* The clean slate.  Nothing comes back while a reset goes undisturbed: it *)
(* has every fuzzer on its list, and every directory still to remove.      *)

Listed(t, d) == \E i \in 1..Len(term[t].todo) : term[t].todo[i] = d

Progress(t) ==
  /\ \A u \in Terminals : ~Launching(u)
  /\ ~At(t, "session") => windows = {}
  /\ term[t].at \in {"pgrep", "kill"} => ~session
  /\ At(t, "kill") => fuzzers \subseteq term[t].pids
  /\ term[t].at \in {"remove", "done"} /\ term[t].script # "clean-only" =>
       fuzzers = {} /\ ~session
  /\ ~At(t, "done") => \A d \in dirs : Listed(t, d)
  /\ At(t, "done") /\ term[t].script # "stop-only" =>
       dirs = {} /\ \A k \in Kinds : bin[k] = NoFile

CleanInv == \A t \in Terminals \ disturbed : Resetting(t) => Progress(t)

LEMMA CleanStep == TypeInv /\ CleanInv /\ [Next]_vars => CleanInv'
<1> SUFFICES ASSUME TypeInv, CleanInv, [Next]_vars PROVE CleanInv'
  OBVIOUS
<1> USE DEF At
<1>1. \A t \in Terminals : term[t] \in Scripts /\ Phase(term[t])
  BY DEF TypeInv, TypeOK
\* Where things only go away, the resets that do not move keep their progress.
<1>2. ASSUME UNCHANGED disturbed, session' => session, windows' \subseteq windows,
             fuzzers' \subseteq fuzzers,
             dirs' \subseteq dirs, \A k \in Kinds : bin'[k] = bin[k] \/ bin'[k] = NoFile,
             \A u \in Terminals : Launching(u)' => Launching(u),
             NEW t \in Terminals \ disturbed, term'[t] = term[t], Resetting(t)
      PROVE  Progress(t)'
  BY <1>2 DEF CleanInv, Progress, Listed, Resetting
<1>3. ASSUME NEW t \in Terminals, NEW script \in Launchers, StartLauncher(t, script)
      PROVE  CleanInv'
  <2>1. /\ term'[t].script = script /\ \A u \in Terminals \ {t} : term'[u] = term[u]
        /\ disturbed' = disturbed \union { u \in Terminals : Resetting(u) }
    BY <1>3 DEF StartLauncher, TypeInv, TypeOK
  <2>2. script \notin Resets
    BY DEF Launchers, Resets
  <2> QED BY <2>1, <2>2 DEF CleanInv, Resetting
<1>4. ASSUME NEW t \in Terminals, NEW script \in Resets, StartReset(t, script)
      PROVE  CleanInv'
  <2> DEFINE todo == <<"baseline", "sysfeedback", "runs">>
  <2>1. /\ term'[t].at \in {"remove", "session"} /\ term'[t].script = script
        /\ term'[t].at = "remove" => script = "clean-only"
        /\ term'[t].todo = todo
        /\ \A u \in Terminals \ {t} : term'[u] = term[u]
        /\ UNCHANGED <<dirs, session, windows, fuzzers, bin>>
    BY <1>4 DEF StartReset, TypeInv, TypeOK, build
  <2>2. \A u \in Terminals : Launching(u)' => Launching(u)
    BY <2>1 DEF Launching, Building
  <2>3. ASSUME NEW u \in Terminals \ {t}, u \notin disturbed', Resetting(u)'
        PROVE  Progress(u)'
    <3>1. u \notin disturbed /\ Resetting(u) /\ term'[u] = term[u]
      BY <1>4, <2>1, <2>3 DEF StartReset, Resetting
    <3> QED BY <2>1, <2>2, <3>1 DEF CleanInv, Progress, Listed
  <2>4. ASSUME t \notin disturbed' PROVE Progress(t)'
    <3>1. \A u \in Terminals : ~Launching(u)'
      BY <1>4, <2>2, <2>4 DEF StartReset
    <3>2. \A d \in Dirs : \E i \in 1..Len(todo) : todo[i] = d
      <4>1. todo[1] = "baseline" /\ todo[2] = "sysfeedback" /\ todo[3] = "runs" /\ Len(todo) = 3
        OBVIOUS
      <4>2. 1 \in 1..3 /\ 2 \in 1..3 /\ 3 \in 1..3
        OBVIOUS
      <4> QED BY <4>1, <4>2 DEF Dirs, Kinds
    <3> HIDE DEF todo
    <3>3. \A d \in dirs' : Listed(t, d)'
      BY <2>1, <3>2 DEF Listed, TypeInv, TypeOK
    <3>4. term'[t].at = "session" \/ windows' = {}
      BY <1>4, <2>1, <2>4 DEF StartReset, TypeInv, TypeOK
    <3> QED BY <2>1, <3>1, <3>3, <3>4 DEF Progress
  <2> QED BY <2>3, <2>4 DEF CleanInv
\* Where a launcher takes a step, every reset is a disturbed one.
<1>5. ASSUME NEW t \in Terminals, Launch(t) PROVE CleanInv'
  <2>1. Launching(t) /\ UNCHANGED disturbed
    BY <1>5 DEF Launch, Clean, Make, Copy, CheckSession, OpenWindow, FuzzHere, Launching, Building
  <2>2. \A u \in Terminals \ disturbed : ~Resetting(u)
    BY <2>1 DEF CleanInv, Progress
  <2>3. term[t].script \in Launchers
    BY <1>1, <2>1 DEF Launching, Building, Phase
  <2>4. \A u \in Terminals : term'[u] = term[u] \/ term'[u].script \in Launchers \union {"none"}
    <3>1. CASE End(t)
      BY <3>1 DEF End, Idle, TypeInv, TypeOK
    <3>2. ASSUME NEW step, Goto(t, step)
          PROVE  \A u \in Terminals : term'[u] = term[u] \/ term'[u].script \in Launchers
      BY <1>1, <2>3, <3>2 DEF Goto, Scripts, TypeInv, TypeOK
    <3>3. ASSUME NEW step, NextTodo(t, step)
          PROVE  \A u \in Terminals : term'[u] = term[u] \/ term'[u].script \in Launchers
      BY <1>1, <2>3, <3>3 DEF NextTodo, Scripts, TypeInv, TypeOK
    <3>4. CASE Copy(t)
      <4>1. CASE End(t)
        BY <3>1, <4>1
      <4>2. CASE ~End(t)
        <5>1. term' = [term EXCEPT ![t].todo = Tail(@),
                         ![t].at = IF Len(term[t].todo) > 1 THEN "clean" ELSE "check"]
          BY <3>4, <4>2 DEF Copy
        <5>2. /\ term'[t].script = term[t].script
              /\ \A u \in Terminals \ {t} : term'[u] = term[u]
          BY <1>1, <5>1 DEF Scripts, TypeInv, TypeOK
        <5> QED BY <2>3, <5>2
      <4> QED BY <4>1, <4>2
    <3>5. CASE CheckSession(t)
      <4>1. CASE End(t)
        BY <3>1, <4>1
      <4>2. CASE ~End(t)
        <5>1. term' = [term EXCEPT ![t].at = "windows",
                                   ![t].todo = <<"baseline", "sysfeedback">>]
          BY <3>5, <4>2 DEF CheckSession
        <5>2. /\ term'[t].script = term[t].script
              /\ \A u \in Terminals \ {t} : term'[u] = term[u]
          BY <1>1, <5>1 DEF Scripts, TypeInv, TypeOK
        <5> QED BY <2>3, <5>2
      <4> QED BY <4>1, <4>2
    <3>6. CASE OpenWindow(t)
      BY <3>1, <3>3, <3>6 DEF OpenWindow
    <3>7. CASE Clean(t) \/ Make(t) \/ FuzzHere(t)
      BY <3>1, <3>2, <3>7 DEF Clean, Make, FuzzHere
    <3> QED BY <1>5, <3>4, <3>5, <3>6, <3>7 DEF Launch
  <2> QED BY <2>1, <2>2, <2>4 DEF CleanInv, Resetting, Launchers, Resets
\* A step of a reset: the others keep their progress, and it makes its own.
<1>6. ASSUME NEW t \in Terminals, Reset(t) PROVE CleanInv'
  <2>1. /\ UNCHANGED disturbed /\ fuzzers' \subseteq fuzzers
        /\ session' => session
        /\ windows' \subseteq windows
        /\ dirs' \subseteq dirs /\ \A k \in Kinds : bin'[k] = bin[k] \/ bin'[k] = NoFile
    BY <1>6 DEF Reset, StopSession, ListFuzzers, KillFuzzers, RemoveDir, ResetDone, build
  <2>2. \A u \in Terminals : u = t \/ term'[u] = term[u] \/ term'[u] = Idle
    BY <1>6 DEF Reset, StopSession, ListFuzzers, KillFuzzers, RemoveDir, ResetDone, Goto, End,
       NextTodo, TypeInv, TypeOK
  <2>3. ~Launching(t)'
    BY <1>1, <1>6 DEF Reset, StopSession, ListFuzzers, KillFuzzers, RemoveDir, ResetDone, Goto, End,
       NextTodo, Idle, Launching, Building, TypeInv, TypeOK, Scripts, after_stop
  <2>4. \A u \in Terminals : Launching(u)' => Launching(u)
    BY <2>2, <2>3 DEF Idle, Launching, Building
  <2>5. ASSUME NEW u \in Terminals \ disturbed, u # t, Resetting(u)' PROVE Progress(u)'
    <3>1. term'[u] = term[u]
      BY <2>2, <2>5 DEF Idle, Resetting, Resets
    <3>2. Resetting(u)
      BY <2>5, <3>1 DEF Resetting
    <3> QED BY <1>2, <2>1, <2>4, <3>1, <3>2
  <2>6. ASSUME t \notin disturbed, Resetting(t)' PROVE Progress(t)'
    <3>1. Resetting(t)
      BY <1>1, <1>6 DEF Reset, StopSession, ListFuzzers, KillFuzzers, RemoveDir, ResetDone,
         Resetting, Phase, Scripts, Launchers, Resets
    <3>2. Progress(t) /\ \A u \in Terminals : ~Launching(u)'
      BY <2>4, <2>6, <3>1 DEF CleanInv, Progress
    <3>3. CASE StopSession(t)
      <4>1. /\ term[t].at = "session" /\ term'[t] = [term[t] EXCEPT !.at = "pgrep"]
            /\ ~session' /\ windows' = {} /\ UNCHANGED dirs
        BY <3>3 DEF StopSession, Goto, TypeInv, TypeOK
      <4>2. term'[t].at = "pgrep" /\ term'[t].todo = term[t].todo
        BY <1>1, <4>1 DEF Scripts
      <4> QED BY <3>2, <4>1, <4>2 DEF Progress, Listed
    <3>4. CASE ListFuzzers(t)
      <4>1. /\ term[t].at = "pgrep" /\ term'[t].pids = fuzzers
            /\ term'[t].todo = term[t].todo /\ term'[t].script = term[t].script
            /\ term'[t].at = IF fuzzers = {} THEN after_stop(t) ELSE "kill"
            /\ UNCHANGED <<dirs, session, windows, fuzzers>>
        BY <3>4 DEF ListFuzzers, TypeInv, TypeOK, Scripts
      <4>2. \A d \in dirs' : Listed(t, d)'
        BY <3>2, <4>1 DEF Progress, Listed
      <4> QED BY <3>2, <4>1, <4>2 DEF Progress, after_stop
    <3>5. CASE KillFuzzers(t)
      <4>1. /\ term[t].at = "kill" /\ term'[t].at = after_stop(t)
            /\ term'[t].todo = term[t].todo /\ term'[t].script = term[t].script
            /\ fuzzers' = fuzzers \ survivors(term[t].pids)
            /\ UNCHANGED <<dirs, session, windows>>
        BY <3>5 DEF KillFuzzers, TypeInv, TypeOK, Scripts
      <4>2. \A d \in dirs' : Listed(t, d)'
        BY <3>2, <4>1 DEF Progress, Listed
      <4>3. fuzzers' = {} /\ ~session'
        BY <3>2, <4>1 DEF Progress, survivors
      <4> QED BY <3>2, <4>1, <4>2, <4>3 DEF Progress, after_stop
    <3>6. CASE RemoveDir(t)
      <4>1. ~End(t)
        BY <2>6 DEF End, Idle, Resetting, Resets, TypeInv, TypeOK
      <4>2. /\ dirs' = dirs \ {Kind(t)} /\ NextTodo(t, "done") /\ At(t, "remove")
            /\ bin' = IF Kind(t) = "runs" THEN [k \in Kinds |-> NoFile] ELSE bin
            /\ UNCHANGED <<session, windows, fuzzers>>
        BY <3>6, <4>1 DEF RemoveDir
      <4> DEFINE s == term[t].todo
      <4>3. /\ term'[t].todo = Tail(s) /\ term'[t].script = term[t].script
            /\ term'[t].at = IF Len(s) > 1 THEN "remove" ELSE "done"
        BY <4>2 DEF NextTodo, TypeInv, TypeOK, Scripts
      <4>4. s \in Seq(Dirs) /\ s # << >> /\ s[Len(s)] = "runs"
        BY <1>1, <4>2 DEF Phase, Scripts
      <4>5. \A d \in dirs : Listed(t, d)
        BY <3>2, <4>2 DEF Progress
      <4>6. \A d \in dirs' : \E i \in 1..Len(s) : i # 1 /\ s[i] = d
        BY <4>2, <4>4, <4>5, TodoTail DEF Listed, Kind
      <4>7. \A d \in dirs' : Listed(t, d)'
        <5>1. SUFFICES ASSUME NEW d \in dirs' PROVE Listed(t, d)'
          OBVIOUS
        <5>2. PICK i \in 1..Len(s) : i # 1 /\ s[i] = d
          BY <4>6
        <5>3. Len(s) \in Nat /\ Len(Tail(s)) = Len(s) - 1 /\ s[i] = Tail(s)[i - 1]
          BY <4>4, <5>2, TodoTail
        <5>4. i - 1 \in 1..Len(Tail(s))
          BY <5>2, <5>3
        <5> QED BY <4>3, <5>2, <5>3, <5>4 DEF Listed
      <4>8. CASE Len(s) > 1
        BY <3>2, <4>2, <4>3, <4>7, <4>8 DEF Progress
      <4>9. CASE ~(Len(s) > 1)
        <5>1. Len(s) = 1 /\ Kind(t) = "runs"
          BY <4>4, <4>9, TodoTail DEF Kind
        <5>2. dirs' = {}
          BY <4>6, <5>1
        <5>3. term'[t].at = "done" /\ \A k \in Kinds : bin'[k] = NoFile
          BY <4>2, <4>3, <4>9, <5>1
        <5> QED BY <3>2, <4>2, <4>3, <5>2, <5>3 DEF Progress
      <4> QED BY <4>8, <4>9
    <3>7. CASE ResetDone(t)
      BY <2>6, <3>7 DEF ResetDone, End, Idle, Resetting, Resets, TypeInv, TypeOK
    <3> QED BY <1>6, <3>3, <3>4, <3>5, <3>6, <3>7 DEF Reset
  <2>7. SUFFICES ASSUME NEW u \in Terminals \ disturbed, Resetting(u)' PROVE Progress(u)'
    BY <2>1 DEF CleanInv
  <2>8. CASE u = t
    BY <2>6, <2>7, <2>8
  <2> QED BY <2>5, <2>7, <2>8
<1>7. ASSUME NEW f \in fuzzers, FuzzerEnds(f) PROVE CleanInv'
  <2>1. \A u \in Terminals : term'[u] = term[u] \/ term'[u] = Idle
    BY <1>7 DEF FuzzerEnds, Gone
  <2>2. \A u \in Terminals : Launching(u)' => Launching(u)
    BY <2>1 DEF Idle, Launching, Building
  <2>3. UNCHANGED <<disturbed, session, windows, dirs, bin>> /\ fuzzers' \subseteq fuzzers
    BY <1>7 DEF FuzzerEnds, Gone, build
  <2>4. ASSUME NEW u \in Terminals \ disturbed, Resetting(u)' PROVE Progress(u)'
    <3>1. term'[u] = term[u]
      BY <2>1, <2>4 DEF Idle, Resetting, Resets
    <3> QED BY <1>2, <2>2, <2>3, <2>4, <3>1 DEF Resetting
  <2> QED BY <2>3, <2>4 DEF CleanInv
\* A window on its way to afl-fuzz: resets that are past the session have none.
<1>8. ASSUME NEW w \in windows, RunWindow(w) PROVE CleanInv'
  <2>1. /\ UNCHANGED <<disturbed, session, bin, term>> /\ windows' \subseteq windows
        /\ dirs' \subseteq dirs \union {"runs"}
    BY <1>8 DEF RunWindow, build
  <2>2. ASSUME NEW t \in Terminals \ disturbed, Resetting(t) PROVE Progress(t)'
    <3>1. Progress(t) /\ term[t].at = "session"
      BY <2>2 DEF CleanInv, Progress
    <3>2. Listed(t, "runs")
      <4> DEFINE s == term[t].todo
      <4>1. s \in Seq(Dirs) /\ s # << >> /\ s[Len(s)] = "runs"
        BY <1>1, <3>1 DEF Phase, Scripts
      <4>2. Len(s) \in 1..Len(s)
        BY <4>1, TodoTail
      <4> QED BY <4>1, <4>2 DEF Listed
    <3>3. \A d \in dirs' : Listed(t, d)'
      BY <2>1, <3>1, <3>2 DEF Progress, Listed
    <3> QED BY <2>1, <3>1, <3>3 DEF Progress, Launching, Building
  <2> QED BY <2>1, <2>2 DEF CleanInv, Resetting
<1>9. CASE UNCHANGED vars
  BY <1>9 DEF vars, build, CleanInv, Progress, Listed, Resetting, Launching, Building
<1> QED
  BY <1>3, <1>4, <1>5, <1>6, <1>7, <1>8, <1>9 DEF Next

\* reset_experiments.sh:17-22: a reset that reports its completion, undisturbed
\* by a launcher, leaves no fuzzer, no window, no session and, unless told
\* otherwise, no output, for any number of terminals, fuzzers and resets at the
\* same time.
THEOREM SlateIsClean == Spec => []CleanSlate
<1>1. Init => CleanInv
  BY DEF Init, CleanInv, Idle, Resetting, Resets
<1>2. TypeInv /\ CleanInv => CleanSlate
  <2> SUFFICES ASSUME TypeInv, CleanInv, NEW t \in Terminals \ disturbed, At(t, "done")
               PROVE  /\ term[t].script # "clean-only" => fuzzers = {} /\ windows = {} /\ ~session
                      /\ term[t].script # "stop-only" =>
                           dirs = {} /\ \A k \in Kinds : bin[k] = NoFile
    BY DEF CleanSlate
  <2>1. Resetting(t)
    BY DEF At, Resetting, TypeInv, TypeOK, Scripts, Phase, Launchers, Resets
  <2> QED BY <2>1 DEF CleanInv, Progress, At
<1> QED BY <1>1, <1>2, TypeCorrect, CleanStep, PTL DEF Spec
================================================================================

--------------------------- MODULE MCConfigletGrowth ---------------------------
(***************************************************************************)
(* Queues of up to three testcases, with a name found under two labels,    *)
(* against a complete, a partial, an empty and no ground truth.            *)
(***************************************************************************)
EXTENDS ConfigletGrowth

Found == { [features |-> {"a"}, combos |-> {}, dependencies |-> {"d"}],
           [features |-> {"b"}, combos |-> {"a"}, dependencies |-> {}],
           [features |-> {}, combos |-> {"c"}, dependencies |-> {}] }

Stamps == { [afl |-> NoTime, mtime |-> 5], [afl |-> NoTime, mtime |-> 6],
            [afl |-> 1, mtime |-> 8], [afl |-> 0, mtime |-> 9] }

FileSets ==
  UNION { { { [name |-> n, afl |-> stamp[n].afl, mtime |-> stamp[n].mtime, found |-> found[n]] :
                n \in 1..k } :
              stamp \in [1..k -> Stamps], found \in [1..k -> Found] } : k \in {0, 1, 2} }
  \union
  { { [name |-> n, afl |-> stamp[n].afl, mtime |-> stamp[n].mtime, found |-> found[n]] :
        n \in 1..3 } :
      stamp \in { s \in [1..3 -> Stamps] : s[1].mtime >= s[2].mtime },
      found \in { g \in [1..3 -> Found] : Cardinality({g[1], g[2], g[3]}) = 3 } }

MCPaths ==
  { [at |-> "root", campaign |-> [instance |-> "default", files |-> S]] : S \in FileSets }
  \union
  { [at |-> a, campaign |-> [instance |-> "main", files |-> S]] :
      a \in {"root", "queue", "instance", "missing"},
      S \in { T \in FileSets : Cardinality(T) < 2 } }

MCTruthFiles ==
  { NoTruth,
    [features |-> {}, combos |-> {}, dependencies |-> {}],
    [features |-> {"a", "b"}, combos |-> {"c"}, dependencies |-> {"d", "e"}],
    [features |-> {"b"}, deps |-> {"d"}] }

MCDurations == {NoTime, 3}
================================================================================

--------------------------- MODULE MCBatchRuntime ---------------------------
(* Small instances of BatchRuntime.                                        *)
EXTENDS BatchRuntime, TLC

CONSTANTS b1, b2, m1, m2

Buf(kind, bytes) ==
  [kind |-> kind, bytes |-> bytes, result |-> FALSE, alias |-> 0,
   memory |-> m1]
Result(kind, bytes) == [Buf(kind, bytes) EXCEPT !.result = TRUE]
Alias(i, bytes) == [Buf("alias", bytes) EXCEPT !.alias = i]
External(m, bytes) == [Buf("external", bytes) EXCEPT !.memory = m]

\* A buffer bound to a memory beside one that may reuse a spare.
Binding(mem, kind) == <<External(mem, 4), Buf(kind, 2)>>

\* On CUDA a result with an alias of it behind two inputs, of which one is a
\* result too, and inputs at the limit of a size_t; on Metal an input with a
\* shared buffer of its own.
MCLayouts ==
  [cuda |-> {<<Result("input", 3), Buf("input", 2), Result("own", 8),
               Alias(3, 5)>>,
             <<Buf("input", 9), Buf("input", 6)>>}
            \cup {Binding(mem, "output") : mem \in Memories},
   metal |-> {<<Result("own", 8), Buf("input", 3)>>}
             \cup {Binding(mem, "own") : mem \in Memories}]

Symmetry == Permutations({b1, b2}) \cup Permutations({m1, m2})
=============================================================================

--------------------------- MODULE MCEglContexts ---------------------------
(***************************************************************************)
(* EglContexts for TLC.  Threads, context handles and surface handles are  *)
(* only compared for equality, so they may be permuted.                    *)
(*                                                                         *)
(* Three creating calls are what two threads need to race; for a deletion  *)
(* to be passed up a chain of share contexts it takes four, by one thread  *)
(* with a surface, while the others have nothing current.                  *)
(***************************************************************************)
EXTENDS EglContexts, TLC

Symmetry == Permutations(Threads) \cup Permutations(Contexts) \cup Permutations(Surfaces)

Alone ==
  calls <= 3 \/
    /\ \E t \in Threads : \A u \in Threads \ {t} :
         op[u] = Idle /\ bound[u] = None /\ current[u] = 0
    /\ \A t \in Threads : pending[t] = << >>
    /\ \E s \in Surfaces : surfs[s] = "valid"
=============================================================================

--------------------------- MODULE MCMemoryCache ---------------------------
(* Two keys, two values and two onChange callers.  A key needs at most one  *)
(* running timer, one handle left in _timeoutMap and one fresh handle, so   *)
(* five handles let every writer arm a timer in every state.                *)
EXTENDS MemoryCache, TLC

Symmetry == Permutations(Keys) \cup Permutations(Values)
            \cup Permutations(TimerIds) \cup Permutations(Waiters)
=============================================================================

------------------------------ MODULE DmaWrite ------------------------------
(***************************************************************************)
(* What a write() on the h2c device promises its caller: it returns the    *)
(* byte count only when the whole buffer is in the card.  A call that hits *)
(* a BUG_ON or an oops never returns.                                      *)
(***************************************************************************)
CONSTANT Writers   \* one write() call each

VARIABLES
  stored,   \* the calls whose buffer is in the card
  result    \* what each call has returned

vars == <<stored, result>>

Init ==
  /\ stored = {}
  /\ result = [w \in Writers |-> "none"]

Store(w) ==
  /\ result[w] = "none" /\ w \notin stored
  /\ stored' = stored \cup {w}
  /\ UNCHANGED result

Return(w) ==
  /\ result[w] = "none" /\ w \in stored
  /\ result' = [result EXCEPT ![w] = "count"]
  /\ UNCHANGED stored

Die(w) ==
  /\ result[w] = "none" /\ w \notin stored
  /\ result' = [result EXCEPT ![w] = "dead"]
  /\ UNCHANGED stored

Next == \E w \in Writers : Store(w) \/ Return(w) \/ Die(w)

Spec == Init /\ [][Next]_vars
============================================================================

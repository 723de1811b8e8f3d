----------------------------- MODULE MCInMemory -----------------------------
(* Small instances of InMemoryBackend for TLC. *)
EXTENDS InMemoryBackend, TLC

CONSTANTS u1, u2, c1, c2, blank, m0, m1, a1, wild, junk, object, q1

MCAllowedKeys == {"agent_id", "run_id"}
MCNestedKeys == {"AND"}

(* No scope, one key, two keys, a wildcard, a None, a user_id to strip, a  *)
(* nested filter, an unknown key, a non-scalar value.                      *)
One(k, v) == [x \in {k} |-> v]
Both == [x \in MCAllowedKeys |-> a1]
MCGoodScopes == {NoScope, One("agent_id", a1), One("agent_id", Null)}
MCTwoScopes == {NoScope, One("agent_id", a1)}
MCAllScopes == MCGoodScopes \cup
  {Both, One("run_id", wild), One("user_id", u2), One("AND", a1),
   One("team", a1), One("run_id", object)}

MCCursors == {0, 1, -1, junk}

(* q1 has two words: c1 holds one of them, c2 both. *)
MCScore == [q \in {q1} |-> [c \in {c1, c2} |-> IF c = c1 THEN 50 ELSE 100]]

MCUserSymmetry == Permutations({u1, u2})
=============================================================================

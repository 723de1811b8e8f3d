------------------------------- MODULE MCMem0 -------------------------------
(* Small instances of Mem0Backend for TLC. *)
EXTENDS Mem0Backend, TLC

CONSTANTS u1, u2, c1, c2, c3, x, y, wild

MCAllowedKeys == {"agent_id", "run_id"}
One(k, v) == [key \in {k} |-> v]
(* The agent bears the name of a tenant: clients choose their agents. *)
MCScopes == {NoScope, One("agent_id", u1)}
MCWildScopes == MCScopes \cup {One("run_id", wild), One("run_id", Null)}
MCAllScopes == MCWildScopes \cup {One("user_id", u2), One("AND", u1)}

Old(u, scope) ==
  [owner |-> u, scope |-> scope, log |-> <<[by |-> Null, event |-> "add", content |-> x]>>]

(* One memory of each tenant; two of one tenant, in different scopes. *)
MCNoScopes == {NoScope}
MCOneEachNoScope == {<<Old(u1, NoScope), Old(u2, NoScope)>>}
MCOneEach == {<<Old(u1, NoScope), Old(u2, One("agent_id", u1))>>}
MCInit == MCOneEach \cup {<<Old(u1, NoScope), Old(u1, One("agent_id", u1))>>}

MCCallSymmetry == Permutations(Calls)
=============================================================================

------------------------------ MODULE MCImport ------------------------------
(* Small instances of ImportMemories for TLC. *)
EXTENDS ImportMemories

CONSTANTS u1, u2, x, y, blank

Item(text) == [content |-> text, scope |-> "good"]
Bad == [content |-> blank, scope |-> "good"]
BadScope == [content |-> x, scope |-> "bad"]
NoDict == [content |-> x, scope |-> "no_dict"]

Has(u, text) == [owner |-> u, live |-> TRUE, log |-> <<[by |-> 0, text |-> text]>>]

(* Repeated texts, a bad entry between good ones, an entry that ends the   *)
(* call after one that was stored, an empty and an overlong batch.         *)
MCBatches ==
  {<<>>, <<Item(x), Item(y), Item(x)>>, <<BadScope, Bad, Item(x)>>,
   <<Item(y), NoDict>>, <<Item(x), Item(x), Item(y), Item(y)>>}

(* A text of each tenant; a text twice; a full export, which is more than  *)
(* an import takes.                                                        *)
MCFullPool == {<<Has(u1, x), Has(u1, x), Has(u1, x), Has(u1, y)>>}
MCPools ==
  {<<Has(u1, x), Has(u2, y)>>, <<Has(u1, x), Has(u1, x)>>} \cup MCFullPool
=============================================================================

---------------------------- MODULE TenantStore ----------------------------
(***************************************************************************)
(* What the MemoryBackend interface (memcp/backend/base.py) promises about *)
(* the memories themselves, whichever backend keeps them: they change only *)
(* as one of their owner's tool calls asked, by the id, the text and the   *)
(* scope it gave; each has one owner and one scope for life, and an id is  *)
(* given out once.  When a call takes effect, how often it is tried and    *)
(* what it answers do not appear.                                          *)
(***************************************************************************)
CONSTANTS
  Users,
  Ids,
  Scopes,
  Blanks,   \* scope values that select nothing: wildcards, None
  Texts     \* what an update replaces: the content of a memory

VARIABLES
  pool,     \* the live memories: id -> [owner, scope, text]
  used,     \* every id given out so far
  asked     \* input: the tool calls that may take effect

pvars == <<pool, used>>

Memory == [owner : Users, scope : Scopes, text : Texts]

PInit ==
  /\ used \in SUBSET Ids
  /\ \E live \in SUBSET used : pool \in [live -> Memory]

(* A client's user_id never counts; of the other keys those with a value.  *)
ScopeOf(op) == DOMAIN op.scope \ {"user_id"}
Wanted(op) == {k \in ScopeOf(op) : op.scope[k] \notin Blanks}

Owned(op) == {i \in DOMAIN pool : pool[i].owner = op.user}
Selected(op) ==
  {i \in Owned(op) : \A k \in Wanted(op) :
     k \in DOMAIN pool[i].scope /\ pool[i].scope[k] = op.scope[k]}

(* What op may add: the caller's, under the scope it named.                *)
Fresh(op) ==
  {m \in Memory :
     /\ m.owner = op.user
     /\ Wanted(op) \subseteq DOMAIN m.scope /\ DOMAIN m.scope \subseteq ScopeOf(op)
     /\ \A k \in DOMAIN m.scope : m.scope[k] = op.scope[k]}

(* add: nothing, one or several memories under new ids. *)
Create(op) ==
  /\ op.tool = "add_memory"
  /\ \E new \in SUBSET (Ids \ used) :
       /\ used' = used \cup new
       /\ \E fresh \in [new -> Fresh(op)] :
            pool' = [i \in DOMAIN pool \cup new |->
                       IF i \in new THEN fresh[i] ELSE pool[i]]

(* update: the text of the memory asked for; scope is immutable.           *)
Replace(op) ==
  /\ op.tool = "update_memory"
  /\ op.id \in Owned(op) /\ op.content \in Texts
  /\ pool' = [pool EXCEPT ![op.id] =
       [owner |-> op.user, scope |-> pool[op.id].scope, text |-> op.content]]
  /\ UNCHANGED used

(* delete: the memory asked for; delete_all: nothing outside the scope.    *)
Removable(op) ==
  CASE op.tool = "delete_memory" -> Owned(op) \cap {op.id}
    [] op.tool = "delete_all_memories" -> Selected(op)
    [] OTHER -> {}

Remove(op) ==
  \E gone \in SUBSET Removable(op) :
    /\ pool' = [i \in DOMAIN pool \ gone |-> pool[i]]
    /\ UNCHANGED used

(* close: a backend without persistence forgets everything; ids stay used. *)
Forget(op) ==
  /\ op.tool = "close"
  /\ pool' = [i \in {} |-> pool[i]]
  /\ UNCHANGED used

PNext == \E op \in asked' : Create(op) \/ Replace(op) \/ Remove(op) \/ Forget(op)

PSpec == PInit /\ [][PNext]_pvars

=============================================================================

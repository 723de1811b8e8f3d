------------------------------ MODULE PageWalk ------------------------------
(***************************************************************************)
(* A client that reads the memories of a tenant page by page: list_memories *)
(* (memcp/tools.py) with no cursor, then with each next_cursor it is given, *)
(* until there is none.  A cursor is an offset into the list as it is when *)
(* the page is asked for (paginate, memcp/types.py), and other calls add   *)
(* and delete between two pages.                                           *)
(*                                                                         *)
(* The in-memory backend lists in the order of the adds, so an add goes to *)
(* the end.  mem0 decides on the order of its list: an add goes anywhere,  *)
(* and the memories that stay are assumed to keep their order.             *)
(***************************************************************************)
EXTENDS Pagination, FiniteSets, SequencesExt

CONSTANTS
  Backends,   \* of "in_memory" and "mem0"
  Lists,      \* what the tenant may have before
  Limits,     \* the page sizes clients ask for
  Fresh       \* the memories other calls may add, in this order; a bound

ASSUME PageWalkAssumption ==
  /\ Backends \subseteq {"in_memory", "mem0"}
  /\ Limits \subseteq Nat \ {0}
  /\ \A list \in Lists \cup {Fresh} : list \in Seq(Range(list)) /\ IsInjective(list)
  /\ \A list \in Lists : Range(list) \cap Range(Fresh) = {}

VARIABLES
  backend,
  list,       \* the matching memories, in the backend's order
  fresh,      \* what may still be added
  limit,
  cursor,     \* the cursor of the next page: a set of at most one number
  collected,  \* the memories of the pages so far
  repeated,   \* those that were in two pages
  before,     \* the list when the walk started
  inserts,    \* adds in front of the cursor
  deletes     \* deletes in front of the cursor

vars == <<backend, list, fresh, limit, cursor, collected, repeated, before, inserts, deletes>>

Ids == (UNION {Range(l) : l \in Lists}) \cup Range(Fresh)

TypeOK ==
  /\ backend \in Backends
  /\ list \in Seq(Ids) /\ IsInjective(list)
  /\ fresh \in Seq(Ids) /\ Range(fresh) \cap Range(list) = {}
  /\ limit \in Limits
  /\ cursor \subseteq Nat /\ Cardinality(cursor) <= 1
  /\ collected \subseteq Ids
  /\ repeated \subseteq collected
  /\ inserts \in Nat /\ deletes \in Nat

Init ==
  /\ backend \in Backends
  /\ list \in Lists
  /\ fresh = Fresh
  /\ limit \in Limits
  /\ cursor = {0}
  /\ collected = {} /\ repeated = {}
  /\ before = list
  /\ inserts = 0 /\ deletes = 0

Done == cursor = {}

Fetch ==
  \E start \in cursor :
    LET answer == Paginate(list, start, limit) IN
    /\ cursor' = answer.next
    /\ collected' = collected \cup Range(answer.page)
    /\ repeated' = repeated \cup (collected \cap Range(answer.page))
    /\ UNCHANGED <<backend, list, fresh, limit, before, inserts, deletes>>

(* A definition named for what it gets wrong, just before the one it       *)
(* resembles, here and in Pagination, is a mutant: the properties are      *)
(* checked to fail when it takes the other's place.                        *)

(* Whether the place k of the list is in a page that was fetched.          *)
Passed(k) == \E start \in cursor : k <= start

AddReusingId(k) ==
  /\ ~Done
  /\ fresh # <<>>
  /\ backend = "in_memory" => k = Len(list) + 1
  /\ list' = InsertAt(list, k, Head(fresh))
  /\ inserts' = IF Passed(k) THEN inserts + 1 ELSE inserts
  /\ UNCHANGED <<backend, fresh, limit, cursor, collected, repeated, before, deletes>>

(* A new memory, under an id of its own. *)
Add(k) ==
  /\ ~Done
  /\ fresh # <<>>
  /\ backend = "in_memory" => k = Len(list) + 1
  /\ list' = InsertAt(list, k, Head(fresh))
  /\ fresh' = Tail(fresh)
  /\ inserts' = IF Passed(k) THEN inserts + 1 ELSE inserts
  /\ UNCHANGED <<backend, limit, cursor, collected, repeated, before, deletes>>

Delete(k) ==
  /\ ~Done
  /\ list' = RemoveAt(list, k)
  /\ deletes' = IF Passed(k) THEN deletes + 1 ELSE deletes
  /\ UNCHANGED <<backend, fresh, limit, cursor, collected, repeated, before, inserts>>

Quiet == Done /\ UNCHANGED vars

Next ==
  \/ Fetch
  \/ \E k \in 1 .. Len(list) + 1 : Add(k)
  \/ \E k \in 1 .. Len(list) : Delete(k)
  \/ Quiet

Spec == Init /\ [][Next]_vars

(* The client goes on asking for the next page. *)
FairSpec == Spec /\ WF_vars(Fetch)

-----------------------------------------------------------------------------
(* Properties *)

(* The memories that are in the list, or were passed, but in no page.      *)
Missed ==
  {list[k] : k \in {j \in DOMAIN list :
     /\ Done \/ Passed(j)
     /\ list[j] \in Range(before) \/ backend = "in_memory"
     /\ list[j] \notin collected}}

(* A walk shows a memory twice only because another was inserted in front  *)
(* of its cursor: at most one for each insertion (types.py:126-127).       *)
RepeatsAreBounded == Cardinality(repeated) <= inserts

(* A walk misses a memory that was there from the start to the end only    *)
(* because another was deleted in front of its cursor: at most one for     *)
(* each.  Over the in-memory backend that goes for memories added during   *)
(* the walk too.  A list that stands still is shown exactly.               *)
MissesAreBounded == Cardinality(Missed) <= deletes

(* The in-memory backend adds at the end, so a walk over it never shows a  *)
(* memory twice, whatever is added or deleted meanwhile (in_memory.py:209).*)
NeverRepeats == backend = "in_memory" => repeated = {}

(* Why these hold.  Each collected memory that is in front of the cursor   *)
(* again was pushed there by an insertion of its own; each missed one, and *)
(* each place by which the cursor is past the end of the list, by a        *)
(* deletion of its own.                                                    *)
Ahead == {list[k] : k \in {j \in DOMAIN list : ~Done /\ ~Passed(j)}}
Overhang(start) == IF start > Len(list) THEN start - Len(list) ELSE 0

WalkInv ==
  /\ IsInjective(fresh) /\ Range(fresh) \cap (collected \cup Range(before)) = {}
  /\ Cardinality(repeated \cup (collected \cap Ahead)) <= inserts
  /\ backend = "in_memory" => collected \cap Ahead = {}
  /\ \A start \in cursor : Cardinality(Missed) + Overhang(start) <= deletes

(* A walk ends when adds do, also when the list shrinks below its cursor.  *)
WalkEnds == <>Done
=============================================================================

------------------------------ MODULE Requests ------------------------------
(***************************************************************************)
(* What every tool of the server computes from its arguments before and    *)
(* after it talks to a backend: the validators of memcp/types.py, the      *)
(* scope rules of memcp/tools.py, the scope conversions of the mem0        *)
(* adapter, and the mapping of a backend status to the error an MCP client *)
(* sees.  The module has no state; the two backends extend it.             *)
(*                                                                         *)
(* A scope (a Python dict, None and {} being one and the same here) is a   *)
(* function from keys to values.  Strings are not spelled out: a value is  *)
(* known by the class the validators and the adapter put it in.            *)
(***************************************************************************)
EXTENDS Integers, FiniteSets, Functions

CONSTANTS
  AllowedKeys,    \* backend.scope_keys()
  NestedKeys,     \* AND, OR, NOT in either case
  LongKeys,       \* keys beyond MAX_SCOPE_KEY_LENGTH
  MaxScopeKeys,   \* MAX_SCOPE_KEYS
  Wildcards,      \* strings that strip to "" or "*"
  LongValues,     \* strings beyond MAX_SCOPE_VALUE_LENGTH
  Objects,        \* lists and dicts: not scalars
  Contents,       \* contents validate_content accepts
  BadContents,    \* blank or overlong contents
  BadId,          \* an id that does not match _MEMORY_ID_RE
  Null            \* None

ASSUME RequestsAssumption ==
  /\ IsFiniteSet(AllowedKeys)
  /\ MaxScopeKeys \in Nat
  /\ Contents \cap BadContents = {}
  /\ "user_id" \notin AllowedKeys

(* The error codes of canonical_error; "ok" stands for no error. *)
Codes == {"ok", "validation_error", "nested_filter", "invalid_scope",
          "scope_required", "not_found", "timeout", "backend_error"}

(* Checks run in sequence: the first failure is the answer. *)
AndThen(first, second) == IF first = "ok" THEN second ELSE first
Check(valid) == IF valid THEN "ok" ELSE "validation_error"

ContentVerdict(content) == Check(content \in Contents)
IdVerdict(id) == Check(id # BadId)
LimitVerdict(limit, maxLimit) == Check(limit \in 1 .. maxLimit)

-----------------------------------------------------------------------------
(* Scopes *)

NoScope == [k \in {} |-> Null]
CleanScope(scope) == Restrict(scope, DOMAIN scope \ {"user_id"})
Get(scope, key) == IF key \in DOMAIN scope THEN scope[key] ELSE Null

(* _validate_scope: user_id is dropped, the rest is rejected or passed on. *)
ScopeVerdict(scope) ==
  LET keys == DOMAIN CleanScope(scope)
      malformed == \/ Cardinality(keys) > MaxScopeKeys
                   \/ keys \cap LongKeys # {}
                   \/ \E k \in keys : scope[k] \in Objects \cup LongValues
  IN  IF keys \cap NestedKeys # {} THEN "nested_filter"
      ELSE IF malformed THEN "validation_error"
      ELSE IF keys \subseteq AllowedKeys THEN "ok" ELSE "invalid_scope"

(* entry_scope.get(k) == v for every pair of the wanted scope: a wanted    *)
(* None matches an entry that lacks the key.                               *)
Matches(have, want) == \A k \in DOMAIN want : Get(have, k) = want[k]

(* The mem0 adapter drops wildcards, blanks and None from every scope.     *)
Norm(scope) ==
  Restrict(scope, {k \in DOMAIN scope : scope[k] \notin Wildcards \cup {Null}})

-----------------------------------------------------------------------------
(* Errors.  A definition named for what it gets wrong is a mutant of the   *)
(* one after it: the properties are checked to fail when it replaces it.   *)

ByIdTools == {"get_memory", "delete_memory", "update_memory", "memory_history"}

BackendErrorTimeoutFinal(status) == [code |-> "backend_error", retry |-> status >= 500]
BackendError(status) ==
  IF status = 408 THEN [code |-> "timeout", retry |-> TRUE]
  ELSE [code |-> "backend_error", retry |-> status >= 500]

ToolErrorAnyClientError(tool, status) ==
  IF tool \in ByIdTools /\ status < 500 THEN [code |-> "not_found", retry |-> FALSE]
  ELSE BackendError(status)
ToolError(tool, status) ==
  IF tool \in ByIdTools /\ status \in {404, 410}
  THEN [code |-> "not_found", retry |-> FALSE]
  ELSE BackendError(status)

=============================================================================

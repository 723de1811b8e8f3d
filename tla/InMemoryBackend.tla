-------------------------- MODULE InMemoryBackend --------------------------
(***************************************************************************)
(* The tools of memcp/tools.py over the InMemoryBackend of                 *)
(* memcp/backend/in_memory.py.  No method of that class awaits anything,   *)
(* so on the one event loop a tool call runs from its first check to its   *)
(* answer without interruption: each tool is one action, checks included,  *)
(* and `reply' is the answer of the last one.                              *)
(*                                                                         *)
(* uuid4 ids are fresh and dicts keep insertion order: ids are the numbers *)
(* 1, 2, 3 ... in the order of the adds.  Times are unordered: the wall    *)
(* clock may stand still or go backwards between two calls.                *)
(***************************************************************************)
EXTENDS Requests, Pagination

CONSTANTS
  Users,
  ScopeArgs,   \* the scopes clients send
  Metas,       \* metadata dicts
  NoMeta,      \* the empty one
  Times,       \* what datetime.now(UTC) may answer
  Queries,
  Score,       \* Score[query][content]: percent of the query's words found
  Thresholds,  \* percent
  Limits,      \* the limits clients send
  Cursors,     \* the cursors clients send, integers or JunkCursor
  JunkCursor,  \* a string int() refuses
  MaxLimit,    \* MAX_LIMIT
  MaxExport,   \* MAX_EXPORT
  MaxIds,      \* bound: memories added in a behaviour
  MaxHistory   \* bound: history entries of one memory

ASSUME InMemoryAssumption ==
  /\ NoMeta \in Metas /\ Null \notin Metas
  /\ Null \notin Times /\ Null \notin Contents
  /\ MaxIds \in Nat /\ MaxHistory \in Nat
  /\ BadId \notin Nat
  /\ MaxLimit \in Nat /\ MaxExport \in Nat
  /\ \A q \in Queries, c \in Contents : Score[q][c] \in Nat
  /\ Cursors \subseteq Int \cup {JunkCursor}

VARIABLES
  store,     \* _store: id -> memory
  history,   \* _history: id -> log of the memory
  nextId,    \* the next fresh id
  reply      \* the last tool call and its answer

vars == <<store, history, nextId, reply>>

(* What later steps depend on: no action reads the last reply.             *)
StoreView == <<store, history, nextId>>

Scopes == {CleanScope(s) : s \in ScopeArgs}
Records == [user_id : Users, content : Contents, scope : Scopes, metadata : Metas,
            created_at : Times, updated_at : Times \cup {Null}]
Entries == [action : {"created", "updated"}, timestamp : Times,
            before : Contents \cup {Null}, after : Contents]

TypeOK ==
  /\ nextId \in Nat \ {0}
  /\ DOMAIN store \subseteq 1 .. nextId - 1
  /\ store \in [DOMAIN store -> Records]
  /\ history \in [DOMAIN store -> Seq(Entries)]
  /\ reply.code \in Codes
  /\ reply.user \in Users \cup {Null}

EmptyStore == [i \in {} |-> Null]
Init ==
  /\ store = EmptyStore
  /\ history = EmptyStore
  /\ nextId = 1
  /\ reply = [tool |-> "start", user |-> Null, args |-> <<>>, code |-> "ok", out |-> <<>>]

-----------------------------------------------------------------------------
(* Queries on the store.  A definition named for what it leaves out or gets *)
(* wrong, just before the one it resembles, is a mutant: the properties    *)
(* are checked to fail when it takes the other's place.                    *)

Owns(u, id) == id \in DOMAIN store /\ store[id].user_id = u
FoundVerdictUnowned(u, id) == IF id \in DOMAIN store THEN "ok" ELSE "not_found"
FoundVerdict(u, id) == IF Owns(u, id) THEN "ok" ELSE "not_found"
InScopeUnowned(u, scope) == {i \in DOMAIN store : Matches(store[i].scope, scope)}
InScope(u, scope) == {i \in DOMAIN store : Owns(u, i) /\ Matches(store[i].scope, scope)}
(* sort(): S as a list in the order given by pairs <<earlier, later>>.     *)
InOrder(S, order) ==
  [k \in 1 .. Cardinality(S) |->
     CHOOSE i \in S : Cardinality({j \in S : <<j, i>> \in order}) = k - 1]
OldestFirst(S) == {p \in S \X S : p[1] < p[2]}
Listing(u, scope) == InOrder(InScope(u, scope), OldestFirst(InScope(u, scope)))

Rank(query, i) == Score[query][store[i].content]
BestFirst(S, query) ==
  {p \in S \X S : \/ Rank(query, p[1]) > Rank(query, p[2])
                  \/ Rank(query, p[1]) = Rank(query, p[2]) /\ p[1] < p[2]}
Candidates(u, query, scope) == {i \in InScope(u, scope) : Rank(query, i) > 0}

HitsUnsorted(u, query, scope) ==
  LET found == Candidates(u, query, scope) IN InOrder(found, OldestFirst(found))

(* Best score first, insertion order among equals; the threshold is not    *)
(* looked at.                                                              *)
Hits(u, query, scope) ==
  LET found == Candidates(u, query, scope) IN InOrder(found, BestFirst(found, query))

Ids == DOMAIN store \cup {0, BadId}    \* 0: an id nobody was given

(* d[key] = value *)
Extend(d, key, value) ==
  [k \in DOMAIN d \cup {key} |-> IF k = key THEN value ELSE d[k]]

(* metadata or {} *)
OrEmptyForgotten(meta) == meta
OrEmpty(meta) == IF meta = Null THEN NoMeta ELSE meta

UpdatedRescoped(id, content, meta, now) ==
  [user_id |-> store[id].user_id, content |-> content, scope |-> NoScope,
   metadata |-> IF meta = Null THEN store[id].metadata ELSE meta,
   created_at |-> store[id].created_at, updated_at |-> now]

(* Owner, scope and creation time stay; no metadata keeps the old one. *)
Updated(id, content, meta, now) ==
  [user_id |-> store[id].user_id, content |-> content, scope |-> store[id].scope,
   metadata |-> IF meta = Null THEN store[id].metadata ELSE meta,
   created_at |-> store[id].created_at, updated_at |-> now]

(* The log entry of an update keeps the content from before the assignment.*)
UpdateEntryReadLate(id, content, now) ==
  [action |-> "updated", timestamp |-> now, before |-> content, after |-> content]
UpdateEntry(id, content, now) ==
  [action |-> "updated", timestamp |-> now, before |-> store[id].content, after |-> content]

(* The answer of a tool: `out' when its checks passed, else the error.     *)
Respond(tool, u, args, verdict, out) ==
  reply' = [tool |-> tool, user |-> u, args |-> args, code |-> verdict,
            out |-> IF verdict = "ok" THEN out ELSE <<>>]

-----------------------------------------------------------------------------
(* The tools *)

AddMemory(u, content, scope, meta, now) ==
  LET verdict == AndThen(ContentVerdict(content), ScopeVerdict(scope)) IN
  /\ nextId <= MaxIds
  /\ Respond("add_memory", u, <<content, scope, meta>>, verdict, <<nextId>>)
  /\ \/ verdict # "ok" /\ UNCHANGED <<store, history, nextId>>
     \/ /\ verdict = "ok"
        /\ nextId' = nextId + 1
        /\ store' = Extend(store, nextId,
             [user_id |-> u, content |-> content, scope |-> CleanScope(scope),
              metadata |-> OrEmpty(meta), created_at |-> now, updated_at |-> Null])
        /\ history' = Extend(history, nextId,
             <<[action |-> "created", timestamp |-> now, before |-> Null, after |-> content]>>)

UpdateMemory(u, id, content, meta, now) ==
  LET verdict == AndThen(AndThen(IdVerdict(id), ContentVerdict(content)),
                         FoundVerdict(u, id)) IN
  /\ Respond("update_memory", u, <<id, content, meta>>, verdict, <<id>>)
  /\ UNCHANGED nextId
  /\ \/ verdict # "ok" /\ UNCHANGED <<store, history>>
     \/ /\ verdict = "ok"
        /\ Len(history[id]) < MaxHistory
        /\ store' = [store EXCEPT ![id] = Updated(id, content, meta, now)]
        /\ history' = [history EXCEPT ![id] =
             IF id \in DOMAIN history
             THEN Append(@, UpdateEntry(id, content, now)) ELSE @]

(* del of the memories and pop of their logs. *)
Drop(ids) ==
  /\ store' = Restrict(store, DOMAIN store \ ids)
  /\ history' = Restrict(history, DOMAIN history \ ids)
  /\ UNCHANGED nextId

DeleteMemory(u, id) ==
  LET verdict == AndThen(IdVerdict(id), FoundVerdict(u, id)) IN
  /\ Respond("delete_memory", u, <<id>>, verdict, <<id>>)
  /\ IF verdict = "ok" THEN Drop({id}) ELSE UNCHANGED <<store, history, nextId>>

DeleteAllMemories(u, scope) ==
  LET clean == CleanScope(scope)
      verdict == AndThen(ScopeVerdict(scope),
                         IF DOMAIN clean = {} THEN "scope_required" ELSE "ok") IN
  /\ Respond("delete_all_memories", u, <<scope>>, verdict, Listing(u, clean))
  /\ IF verdict = "ok" THEN Drop(InScope(u, clean))
                       ELSE UNCHANGED <<store, history, nextId>>

SearchMemory(u, query, scope, limit, threshold) ==
  LET verdict == AndThen(AndThen(Check(query \in Queries), LimitVerdict(limit, MaxLimit)),
                         AndThen(Check(threshold \in 0 .. 100), ScopeVerdict(scope))) IN
  /\ Respond("search_memory", u, <<query, scope, limit, threshold>>, verdict,
             Page(Hits(u, query, CleanScope(scope)), 0, limit))
  /\ UNCHANGED <<store, history, nextId>>

ListMemories(u, scope, limit, cursor) ==
  LET verdict == AndThen(AndThen(LimitVerdict(limit, MaxLimit), ScopeVerdict(scope)),
                         Check(cursor # JunkCursor)) IN
  /\ Respond("list_memories", u, <<scope, limit, cursor>>, verdict,
             Paginate(Listing(u, CleanScope(scope)), cursor, limit))
  /\ UNCHANGED <<store, history, nextId>>

ExportLimitExact == MaxExport
ExportLimit == MaxExport + 1

(* One more is listed than is exported, to know whether the list was cut.  *)
ExportMemories(u) ==
  LET listed == Page(Listing(u, NoScope), 0, ExportLimit) IN
  /\ Respond("export_memories", u, <<>>, "ok",
       [page |-> Page(listed, 0, MaxExport), truncated |-> Len(listed) > MaxExport])
  /\ UNCHANGED <<store, history, nextId>>

(* get_memory and memory_history look the memory up the same way. *)
ReadMemory(u, tool, id) ==
  LET verdict == AndThen(IdVerdict(id), FoundVerdict(u, id)) IN
  /\ Respond(tool, u, <<id>>, verdict, <<id>>)
  /\ UNCHANGED <<store, history, nextId>>

(* One entity, the tenant, with all of its memories whatever the scope.    *)
MemoryEntities(u, scope, limit) ==
  LET verdict == AndThen(LimitVerdict(limit, MaxLimit), ScopeVerdict(scope)) IN
  /\ Respond("memory_entities", u, <<scope, limit>>, verdict, Listing(u, NoScope))
  /\ UNCHANGED <<store, history, nextId>>

Close ==
  /\ Drop(DOMAIN store)
  /\ reply' = [tool |-> "close", user |-> Null, args |-> <<>>, code |-> "ok", out |-> <<>>]

-----------------------------------------------------------------------------
Write(u) ==
  \/ \E c \in Contents \cup BadContents, s \in ScopeArgs,
        m \in Metas \cup {Null}, now \in Times : AddMemory(u, c, s, m, now)
  \/ \E id \in Ids, c \in Contents \cup BadContents,
        m \in Metas \cup {Null}, now \in Times : UpdateMemory(u, id, c, m, now)
  \/ \E id \in Ids : DeleteMemory(u, id)
  \/ \E s \in ScopeArgs : DeleteAllMemories(u, s)

Read(u) ==
  \/ \E q \in Queries, s \in ScopeArgs, n \in Limits, t \in Thresholds :
       SearchMemory(u, q, s, n, t)
  \/ \E s \in ScopeArgs, n \in Limits, k \in Cursors : ListMemories(u, s, n, k)
  \/ \E id \in Ids, tool \in {"get_memory", "memory_history"} : ReadMemory(u, tool, id)
  \/ \E s \in ScopeArgs, n \in Limits : MemoryEntities(u, s, n)
  \/ ExportMemories(u)

Next == (\E u \in Users : Write(u) \/ Read(u)) \/ Close

Spec == Init /\ [][Next]_vars
-----------------------------------------------------------------------------
(* Safety *)

(* The log of a memory and the memory tell one story, whatever sequence of *)
(* tools ran: the log exists exactly while the memory does, starts with    *)
(* the creation, each later entry starts from the content the one before   *)
(* it left, and the last one explains the content and updated_at that      *)
(* get_memory shows.                                                       *)
Story(memory, log) ==
  /\ log # <<>>
  /\ log[1].action = "created" /\ log[1].before = Null
  /\ log[1].timestamp = memory.created_at
  /\ \A k \in 2 .. Len(log) :
       log[k].action = "updated" /\ log[k].before = log[k - 1].after
  /\ log[Len(log)].after = memory.content
  /\ memory.updated_at = IF Len(log) = 1 THEN Null ELSE log[Len(log)].timestamp

HistoryMatchesStore ==
  /\ DOMAIN history = DOMAIN store
  /\ \A i \in DOMAIN store : Story(store[i], history[i])

(* A tool call of one tenant leaves every memory of the others, and its    *)
(* log, alone; what it adds is its own.  Owner, scope and creation time    *)
(* never change while a memory lives (update_memory: "Scope is immutable").*)
Untouched(i) ==
  /\ i \in DOMAIN store' /\ store'[i] = store[i]
  /\ i \in DOMAIN history' /\ history'[i] = history[i]

StepIsIsolated ==
  /\ \A i \in DOMAIN store :
       \/ reply'.tool = "close"
       \/ store[i].user_id = reply'.user
       \/ Untouched(i)
  /\ \A i \in DOMAIN store' \ DOMAIN store : store'[i].user_id = reply'.user
  /\ \A i \in DOMAIN store \cap DOMAIN store' :
       /\ store'[i].user_id = store[i].user_id
       /\ store'[i].scope = store[i].scope
       /\ store'[i].created_at = store[i].created_at

TenantIsolation == [][StepIsIsolated]_vars

(* No reply names a memory of another tenant, by whatever tool, id, scope, *)
(* query or cursor it was asked for.                                       *)
Shown(r) ==
  IF r.tool \in {"list_memories", "export_memories"} /\ r.code = "ok"
  THEN Range(r.out.page) ELSE Range(r.out)

ReplyIsOwn ==
  \A i \in Shown(reply') :
    \/ i \in DOMAIN store /\ store[i].user_id = reply'.user
    \/ i \in DOMAIN store' /\ store'[i].user_id = reply'.user

NoLeak == [][ReplyIsOwn]_vars

(* A search cut at its limit keeps the best: it is sorted by score, oldest *)
(* first among equals, and no memory of the tenant in the scope that was   *)
(* left out scores more than one that was returned.                        *)
SearchKeepsBest ==
  (reply'.tool = "search_memory" /\ reply'.code = "ok") =>
    LET found == reply'.out
        rank(i) == Rank(reply'.args[1], i)
        scoped == InScope(reply'.user, CleanScope(reply'.args[2]))
    IN  /\ \A j, k \in DOMAIN found : j < k =>
             \/ rank(found[j]) > rank(found[k])
             \/ rank(found[j]) = rank(found[k]) /\ found[j] < found[k]
        /\ \A i \in scoped \ Range(found) :
             \/ rank(i) = 0
             \/ Len(found) = reply'.args[3] /\ \A j \in Range(found) : rank(j) >= rank(i)

SearchIsRanked == [][SearchKeepsBest]_vars

(* An export is flagged as truncated when, and only when, it leaves out a  *)
(* memory of the tenant, also with exactly MAX_EXPORT of them or one more  *)
(* (tools.py:239-247).                                                     *)
ExportTellsTheTruth ==
  reply'.tool = "export_memories" =>
    (reply'.out.truncated <=> \E i \in DOMAIN store : /\ store[i].user_id = reply'.user
                                                     /\ i \notin Range(reply'.out.page))

ExportIsHonest == [][ExportTellsTheTruth]_vars

(* The store implements the abstract store of the backend interface: what  *)
(* changes is what the call that is answered asked for.                    *)
Asked(r) ==
  CASE r.tool = "add_memory" -> [tool |-> r.tool, user |-> r.user, scope |-> r.args[2]]
    [] r.tool = "update_memory" ->
         [tool |-> r.tool, user |-> r.user, id |-> r.args[1], content |-> r.args[2]]
    [] r.tool = "delete_memory" -> [tool |-> r.tool, user |-> r.user, id |-> r.args[1]]
    [] r.tool = "delete_all_memories" ->
         [tool |-> r.tool, user |-> r.user, scope |-> r.args[1]]
    [] OTHER -> [tool |-> r.tool]

Pool == INSTANCE TenantStore WITH
  Ids <- 1 .. MaxIds,
  Blanks <- Wildcards \cup {Null},
  Texts <- Contents,
  pool <- [i \in DOMAIN store |->
             [owner |-> store[i].user_id, scope |-> store[i].scope, text |-> store[i].content]],
  used <- 1 .. nextId - 1,
  asked <- {Asked(reply)}

ImplementsTenantStore == Pool!PSpec

-----------------------------------------------------------------------------
(* What the documentation says and the code does not do *)

(* "threshold filters by minimum similarity (0-1)" (README.md:107): no     *)
(* result of a search scores below the threshold it was asked with.        *)
ThresholdHonoured ==
  [][(reply'.tool = "search_memory" /\ reply'.code = "ok") =>
       \A i \in Range(reply'.out) :
         Score[reply'.args[1]][store[i].content] >= reply'.args[4]]_vars

(* update_memory is annotated idempotentHint (tools.py:410): the same call *)
(* repeated has no further effect on the memory or its log.                *)
RepeatedUpdateChangesNothing ==
  [][(/\ reply.tool = "update_memory" /\ reply.code = "ok"
      /\ reply'.tool = reply.tool /\ reply'.user = reply.user
      /\ reply'.args = reply.args) => UNCHANGED <<store, history>>]_vars
=============================================================================

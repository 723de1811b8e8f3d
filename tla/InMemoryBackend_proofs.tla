---------------------- MODULE InMemoryBackend_proofs ----------------------
(***************************************************************************)
(* Proofs about InMemoryBackend: its type invariant, the agreement of the  *)
(* store with its logs, and tenant isolation, for any tenants, contents,   *)
(* scopes and clocks.                                                      *)
(***************************************************************************)
EXTENDS InMemoryBackend, TLAPS

IInv == TypeOK /\ HistoryMatchesStore

LEMMA Initially == Init => IInv
  BY DEF Init, IInv, TypeOK, HistoryMatchesStore, EmptyStore, Codes

(* What an answer leaves in reply. *)
LEMMA RespondFacts ==
  ASSUME NEW tool, NEW u \in Users, NEW args, NEW verdict \in Codes, NEW out,
         Respond(tool, u, args, verdict, out)
  PROVE  /\ reply'.code = verdict /\ reply'.code \in Codes
         /\ reply'.user = u /\ reply'.user \in Users \cup {Null}
         /\ reply'.tool = tool
  BY DEF Respond

(* The verdict of each check, and of two in sequence, is an error code.    *)
LEMMA VerdictsAreCodes ==
  /\ \A content : ContentVerdict(content) \in Codes
  /\ \A id : IdVerdict(id) \in Codes
  /\ \A limit, max : LimitVerdict(limit, max) \in Codes
  /\ \A valid \in BOOLEAN : Check(valid) \in Codes
  /\ \A scope : ScopeVerdict(scope) \in Codes
  /\ \A u, id : FoundVerdict(u, id) \in Codes
  /\ \A a, b \in Codes : AndThen(a, b) \in Codes /\ (AndThen(a, b) = "ok" => a = "ok" /\ b = "ok")
  BY DEF ContentVerdict, IdVerdict, LimitVerdict, Check, ScopeVerdict, FoundVerdict, AndThen, Codes

LEMMA ReadKeeps ==
  ASSUME IInv, UNCHANGED <<store, history, nextId>>,
         reply'.code \in Codes, reply'.user \in Users \cup {Null}
  PROVE  IInv'
  BY DEF IInv, TypeOK, HistoryMatchesStore

(* Dropping memories together with their logs. *)
LEMMA DropKeeps ==
  ASSUME IInv, NEW ids, Drop(ids), reply'.code \in Codes, reply'.user \in Users \cup {Null}
  PROVE  IInv'
  BY DEF IInv, TypeOK, HistoryMatchesStore, Drop, Restrict

LEMMA AddKeeps ==
  ASSUME IInv, NEW u \in Users, NEW content, NEW scope \in ScopeArgs,
         NEW meta \in Metas \cup {Null}, NEW now \in Times,
         AddMemory(u, content, scope, meta, now)
  PROVE  IInv'
<1> DEFINE verdict == AndThen(ContentVerdict(content), ScopeVerdict(scope))
           memory == [user_id |-> u, content |-> content, scope |-> CleanScope(scope),
                      metadata |-> OrEmpty(meta), created_at |-> now, updated_at |-> Null]
           entry == [action |-> "created", timestamp |-> now, before |-> Null, after |-> content]
<1>1. verdict \in Codes /\ (verdict = "ok" => content \in Contents)
  BY VerdictsAreCodes DEF ContentVerdict, Check
<1>2. reply'.code \in Codes /\ reply'.user \in Users \cup {Null}
  BY <1>1, RespondFacts DEF AddMemory
<1>3. CASE verdict # "ok"
  BY <1>2, <1>3, ReadKeeps DEF AddMemory
<1>4. CASE verdict = "ok"
  <2>1. /\ store' = Extend(store, nextId, memory) /\ history' = Extend(history, nextId, <<entry>>)
        /\ nextId' = nextId + 1
    BY <1>4 DEF AddMemory
  <2>2. memory \in Records
    BY <1>1, <1>4, InMemoryAssumption DEF Records, Scopes, OrEmpty
  <2>3. entry \in Entries /\ <<entry>> \in Seq(Entries)
    BY <1>1, <1>4 DEF Entries
  <2>4. Story(memory, <<entry>>)
    BY DEF Story
  <2> HIDE DEF memory, entry
  <2>5. TypeOK'
    BY <1>2, <2>1, <2>2, <2>3 DEF TypeOK, IInv, Extend
  <2>6. HistoryMatchesStore'
    <3>1. DOMAIN history' = DOMAIN store'
      BY <2>1 DEF IInv, HistoryMatchesStore, Extend
    <3>2. \A i \in DOMAIN store' : Story(store'[i], history'[i])
      BY <2>1, <2>4 DEF IInv, HistoryMatchesStore, Extend
    <3> QED BY <3>1, <3>2 DEF HistoryMatchesStore, Story
  <2> QED BY <2>5, <2>6 DEF IInv
<1> QED BY <1>3, <1>4

(* One more update, started from the content the log ended with, continues *)
(* the story of a memory.                                                  *)
LEMMA StoryContinues ==
  ASSUME NEW memory, NEW log \in Seq(Entries), Story(memory, log),
         NEW entry \in Entries, entry.action = "updated", entry.before = memory.content,
         NEW newer, newer.content = entry.after, newer.updated_at = entry.timestamp,
         newer.created_at = memory.created_at
  PROVE  Story(newer, Append(log, entry))
<1> DEFINE longer == Append(log, entry)
<1>1. Len(log) \in Nat \ {0} /\ Len(longer) = Len(log) + 1
  BY DEF Story
<1>2. longer[Len(longer)] = entry /\ \A k \in 1 .. Len(log) : longer[k] = log[k]
  BY <1>1
<1>3. longer # <<>> /\ longer[1] = log[1]
  BY <1>1, <1>2
<1> HIDE DEF longer
<1>4. \A k \in 2 .. Len(longer) :
        longer[k].action = "updated" /\ longer[k].before = longer[k - 1].after
  <2> TAKE k \in 2 .. Len(longer)
  <2>1. CASE k = Len(longer)
    <3>1. longer[k - 1] = log[Len(log)]
      BY <1>1, <1>2, <2>1
    <3> QED BY <1>2, <2>1, <3>1 DEF Story
  <2>2. CASE k # Len(longer)
    <3>1. k \in 2 .. Len(log) /\ longer[k] = log[k] /\ longer[k - 1] = log[k - 1]
      BY <1>1, <1>2, <2>2
    <3> QED BY <3>1 DEF Story
  <2> QED BY <2>1, <2>2
<1>5. Len(longer) # 1
  BY <1>1
<1> QED BY <1>2, <1>3, <1>4, <1>5 DEF Story, longer

LEMMA UpdateKeeps ==
  ASSUME IInv, NEW u \in Users, NEW id, NEW content,
         NEW meta \in Metas \cup {Null}, NEW now \in Times,
         UpdateMemory(u, id, content, meta, now)
  PROVE  IInv'
<1> DEFINE verdict == AndThen(AndThen(IdVerdict(id), ContentVerdict(content)), FoundVerdict(u, id))
           newer == Updated(id, content, meta, now)
           entry == UpdateEntry(id, content, now)
<1>1. /\ verdict \in Codes
      /\ verdict = "ok" => ContentVerdict(content) = "ok" /\ FoundVerdict(u, id) = "ok"
  BY VerdictsAreCodes
<1>2. reply'.code \in Codes /\ reply'.user \in Users \cup {Null}
  BY <1>1, RespondFacts DEF UpdateMemory
<1>3. CASE verdict # "ok"
  BY <1>2, <1>3, ReadKeeps DEF UpdateMemory
<1>4. CASE verdict = "ok"
  <2>1. content \in Contents /\ id \in DOMAIN store
    BY <1>1, <1>4 DEF ContentVerdict, Check, FoundVerdict, Owns
  <2>2. DOMAIN history = DOMAIN store /\ Story(store[id], history[id]) /\ history[id] \in Seq(Entries)
    BY <2>1 DEF IInv, HistoryMatchesStore, TypeOK
  <2>3. /\ nextId' = nextId /\ store' = [store EXCEPT ![id] = newer]
        /\ history' = [history EXCEPT ![id] = Append(history[id], entry)]
    BY <1>4, <2>1, <2>2 DEF UpdateMemory
  <2>4. store[id] \in Records
    BY <2>1 DEF IInv, TypeOK
  <2>5. newer \in Records
    BY <2>1, <2>4 DEF Updated, Records
  <2>6. entry \in Entries
    BY <2>1, <2>4 DEF UpdateEntry, Entries, Records
  <2>7. Story(newer, Append(history[id], entry))
    BY <2>2, <2>6, StoryContinues DEF Updated, UpdateEntry
  <2> HIDE DEF newer, entry
  <2>8. Append(history[id], entry) \in Seq(Entries)
    BY <2>2, <2>6
  <2>9. TypeOK'
    BY <1>2, <2>1, <2>2, <2>3, <2>5, <2>8 DEF IInv, TypeOK
  <2>10. HistoryMatchesStore'
    <3>1. DOMAIN history' = DOMAIN history /\ DOMAIN store' = DOMAIN store
      BY <2>3
    <3>2. ASSUME NEW i \in DOMAIN store PROVE Story(store'[i], history'[i])
      <4>1. CASE i = id
        BY <2>2, <2>3, <2>7, <4>1
      <4>2. CASE i # id
        BY <2>2, <2>3, <4>2 DEF IInv, HistoryMatchesStore
      <4> QED BY <4>1, <4>2
    <3> QED BY <2>2, <3>1, <3>2 DEF HistoryMatchesStore, Story
  <2> QED BY <2>9, <2>10 DEF IInv
<1> QED BY <1>3, <1>4

LEMMA DeleteKeeps == ASSUME IInv, NEW u \in Users, NEW id, DeleteMemory(u, id) PROVE IInv'
<1> DEFINE verdict == AndThen(IdVerdict(id), FoundVerdict(u, id))
<1>1. verdict \in Codes
  BY VerdictsAreCodes
<1>2. reply'.code \in Codes /\ reply'.user \in Users \cup {Null}
  BY <1>1, RespondFacts DEF DeleteMemory
<1> QED BY <1>2, ReadKeeps, DropKeeps DEF DeleteMemory

LEMMA DeleteAllKeeps ==
  ASSUME IInv, NEW u \in Users, NEW scope, DeleteAllMemories(u, scope) PROVE IInv'
<1> DEFINE required == IF DOMAIN CleanScope(scope) = {} THEN "scope_required" ELSE "ok"
           verdict == AndThen(ScopeVerdict(scope), required)
<1>1. required \in Codes
  BY DEF Codes
<1> HIDE DEF required
<1>2. verdict \in Codes
  BY <1>1, VerdictsAreCodes
<1>3. reply'.code \in Codes /\ reply'.user \in Users \cup {Null}
  BY <1>2, RespondFacts DEF DeleteAllMemories, required
<1> QED BY <1>3, ReadKeeps, DropKeeps DEF DeleteAllMemories

LEMMA ReadsKeep == ASSUME IInv, NEW u \in Users, Read(u) PROVE IInv'
<1> SUFFICES /\ UNCHANGED <<store, history, nextId>>
             /\ reply'.code \in Codes /\ reply'.user \in Users \cup {Null}
  BY ReadKeeps
<1>1. ASSUME NEW q, NEW s, NEW n, NEW t, SearchMemory(u, q, s, n, t)
      PROVE  /\ UNCHANGED <<store, history, nextId>>
             /\ reply'.code \in Codes /\ reply'.user \in Users \cup {Null}
  <2>1. Check(q \in Queries) \in Codes /\ Check(t \in 0 .. 100) \in Codes
    BY DEF Check, Codes
  <2>2. AndThen(AndThen(Check(q \in Queries), LimitVerdict(n, MaxLimit)),
                AndThen(Check(t \in 0 .. 100), ScopeVerdict(s))) \in Codes
    BY <2>1, VerdictsAreCodes
  <2> QED BY <1>1, <2>2, RespondFacts DEF SearchMemory
<1>2. ASSUME NEW s, NEW n, NEW k, ListMemories(u, s, n, k)
      PROVE  /\ UNCHANGED <<store, history, nextId>>
             /\ reply'.code \in Codes /\ reply'.user \in Users \cup {Null}
  <2>1. Check(k # JunkCursor) \in Codes
    BY DEF Check, Codes
  <2>2. AndThen(AndThen(LimitVerdict(n, MaxLimit), ScopeVerdict(s)), Check(k # JunkCursor)) \in Codes
    BY <2>1, VerdictsAreCodes
  <2> QED BY <1>2, <2>2, RespondFacts DEF ListMemories
<1>3. ASSUME NEW id, NEW tool, ReadMemory(u, tool, id)
      PROVE  /\ UNCHANGED <<store, history, nextId>>
             /\ reply'.code \in Codes /\ reply'.user \in Users \cup {Null}
  <2>1. AndThen(IdVerdict(id), FoundVerdict(u, id)) \in Codes
    BY VerdictsAreCodes
  <2> QED BY <1>3, <2>1, RespondFacts DEF ReadMemory
<1>4. ASSUME NEW s, NEW n, MemoryEntities(u, s, n)
      PROVE  /\ UNCHANGED <<store, history, nextId>>
             /\ reply'.code \in Codes /\ reply'.user \in Users \cup {Null}
  <2>1. AndThen(LimitVerdict(n, MaxLimit), ScopeVerdict(s)) \in Codes
    BY VerdictsAreCodes
  <2> QED BY <1>4, <2>1, RespondFacts DEF MemoryEntities
<1>5. ASSUME ExportMemories(u)
      PROVE  /\ UNCHANGED <<store, history, nextId>>
             /\ reply'.code \in Codes /\ reply'.user \in Users \cup {Null}
  BY <1>5, RespondFacts DEF ExportMemories, Codes
<1> QED BY <1>1, <1>2, <1>3, <1>4, <1>5 DEF Read

LEMMA Inductive == IInv /\ [Next]_vars => IInv'
<1> SUFFICES ASSUME IInv, [Next]_vars PROVE IInv'
  OBVIOUS
<1>1. ASSUME NEW u \in Users, Write(u) PROVE IInv'
  BY <1>1, AddKeeps, UpdateKeeps, DeleteKeeps, DeleteAllKeeps DEF Write
<1>2. ASSUME NEW u \in Users, Read(u) PROVE IInv'
  BY <1>2, ReadsKeep
<1>3. CASE Close
  BY <1>3, DropKeeps DEF Close, Codes
<1>4. CASE UNCHANGED vars
  BY <1>4, ReadKeeps DEF vars, IInv, TypeOK
<1> QED BY <1>1, <1>2, <1>3, <1>4 DEF Next

THEOREM Invariance == Spec => []IInv
  BY Initially, Inductive, PTL DEF Spec

(* Type correctness of the in-memory store. *)
THEOREM TypeCorrect == Spec => []TypeOK
<1>1. IInv => TypeOK
  BY DEF IInv
<1> QED BY <1>1, Invariance, PTL

(* After any sequence of calls each memory has its log, and the log        *)
(* explains the memory.                                                    *)
THEOREM HistoryIsFaithful == Spec => []HistoryMatchesStore
<1>1. IInv => HistoryMatchesStore
  BY DEF IInv
<1> QED BY <1>1, Invariance, PTL

-----------------------------------------------------------------------------
(* Tenant isolation *)

LEMMA ReadIsIsolated == ASSUME IInv, UNCHANGED <<store, history>> PROVE StepIsIsolated
  BY DEF IInv, HistoryMatchesStore, StepIsIsolated, Untouched

(* Dropping memories of one tenant, in that tenant's name. *)
LEMMA DropIsIsolated ==
  ASSUME IInv, NEW ids, Drop(ids),
         reply'.tool = "close" \/ \A i \in ids \cap DOMAIN store : store[i].user_id = reply'.user
  PROVE  StepIsIsolated
  BY DEF IInv, HistoryMatchesStore, StepIsIsolated, Untouched, Drop, Restrict

LEMMA AddIsIsolated ==
  ASSUME IInv, NEW u \in Users, NEW content, NEW scope, NEW meta, NEW now,
         AddMemory(u, content, scope, meta, now)
  PROVE  StepIsIsolated
<1>1. reply'.user = u
  BY DEF AddMemory, Respond
<1>2. CASE UNCHANGED <<store, history, nextId>>
  BY <1>2, ReadIsIsolated
<1>3. CASE ~UNCHANGED <<store, history, nextId>>
  <2>1. PICK memory, log : /\ store' = Extend(store, nextId, memory)
                           /\ history' = Extend(history, nextId, log)
                           /\ memory.user_id = u
    BY <1>3 DEF AddMemory
  <2>2. nextId \notin DOMAIN store /\ DOMAIN history = DOMAIN store
    BY DEF IInv, TypeOK, HistoryMatchesStore
  <2> QED BY <1>1, <2>1, <2>2 DEF StepIsIsolated, Untouched, Extend
<1> QED BY <1>2, <1>3

LEMMA UpdateIsIsolated ==
  ASSUME IInv, NEW u \in Users, NEW id, NEW content, NEW meta, NEW now,
         UpdateMemory(u, id, content, meta, now)
  PROVE  StepIsIsolated
<1> DEFINE verdict == AndThen(AndThen(IdVerdict(id), ContentVerdict(content)), FoundVerdict(u, id))
<1>1. reply'.user = u
  BY DEF UpdateMemory, Respond
<1>2. CASE verdict # "ok"
  BY <1>2, ReadIsIsolated DEF UpdateMemory
<1>3. CASE verdict = "ok"
  <2>1. Owns(u, id)
    BY <1>3, VerdictsAreCodes DEF FoundVerdict
  <2>2. PICK log : /\ store' = [store EXCEPT ![id] = Updated(id, content, meta, now)]
                   /\ history' = [history EXCEPT ![id] = log]
    BY <1>3 DEF UpdateMemory
  <2>3. DOMAIN history = DOMAIN store
    BY DEF IInv, HistoryMatchesStore
  <2>4. \A i \in DOMAIN store : i # id => Untouched(i)
    BY <2>2, <2>3 DEF Untouched
  <2> QED BY <1>1, <2>1, <2>2, <2>4 DEF StepIsIsolated, Owns, Updated
<1> QED BY <1>2, <1>3

LEMMA DeleteIsIsolated ==
  ASSUME IInv, NEW u \in Users, NEW id, DeleteMemory(u, id) PROVE StepIsIsolated
<1> DEFINE verdict == AndThen(IdVerdict(id), FoundVerdict(u, id))
<1>1. reply'.user = u
  BY DEF DeleteMemory, Respond
<1>2. verdict = "ok" => Owns(u, id)
  BY VerdictsAreCodes DEF FoundVerdict
<1> QED BY <1>1, <1>2, ReadIsIsolated, DropIsIsolated DEF DeleteMemory, Owns

LEMMA DeleteAllIsIsolated ==
  ASSUME IInv, NEW u \in Users, NEW scope, DeleteAllMemories(u, scope) PROVE StepIsIsolated
<1>1. reply'.user = u
  BY DEF DeleteAllMemories, Respond
<1>2. \A i \in InScope(u, CleanScope(scope)) : store[i].user_id = u
  BY DEF InScope, Owns
<1> QED BY <1>1, <1>2, ReadIsIsolated, DropIsIsolated DEF DeleteAllMemories

LEMMA NextIsIsolated == IInv /\ [Next]_vars => [StepIsIsolated]_vars
<1> SUFFICES ASSUME IInv, Next PROVE StepIsIsolated
  OBVIOUS
<1>1. ASSUME NEW u \in Users, Write(u) PROVE StepIsIsolated
  BY <1>1, AddIsIsolated, UpdateIsIsolated, DeleteIsIsolated, DeleteAllIsIsolated DEF Write
<1>2. ASSUME NEW u \in Users, Read(u) PROVE StepIsIsolated
  BY <1>2, ReadIsIsolated
  DEF Read, SearchMemory, ListMemories, ReadMemory, MemoryEntities, ExportMemories
<1>3. CASE Close
  BY <1>3, DropIsIsolated DEF Close
<1> QED BY <1>1, <1>2, <1>3 DEF Next

(* Tenant isolation: a call changes, and adds, memories and logs of its    *)
(* own tenant only, and what is immutable stays.                           *)
THEOREM Isolation == Spec => TenantIsolation
<1>1. Spec => []IInv /\ [][Next]_vars
  BY Invariance, PTL DEF Spec
<1> QED BY <1>1, NextIsIsolated, PTL DEF TenantIsolation

-----------------------------------------------------------------------------
(* The store implements TenantStore *)

(* The memory of the abstract store that a stored record stands for. *)
Abstract(m) == [owner |-> m.user_id, scope |-> m.scope, text |-> m.content]
AbstractPool == [i \in DOMAIN store |-> Abstract(store[i])]
Used == 1 .. nextId - 1

(* The instance's variables and actions, spelled out over the two          *)
(* expressions the mapping substitutes for them.                           *)
LEMMA PoolVars == Pool!pvars = <<AbstractPool, Used>>
  BY DEF Pool!pvars, AbstractPool, Abstract, Used

LEMMA PoolMemory == \A m \in Records : Abstract(m) \in Pool!Memory
  BY DEF Records, Abstract, Pool!Memory

LEMMA InitMapped == Init => Pool!PInit
<1> SUFFICES ASSUME Init PROVE Pool!PInit
  OBVIOUS
<1>1. Used = {} /\ AbstractPool = [i \in {} |-> Abstract(store[i])] /\ DOMAIN store = {}
  BY DEF Init, Used, AbstractPool, EmptyStore
<1>2. AbstractPool \in [{} -> Pool!Memory]
  BY <1>1
<1> QED BY <1>1, <1>2 DEF Pool!PInit, Used, AbstractPool, Abstract

LEMMA PoolOwned == ASSUME NEW op PROVE Pool!Owned(op) = {i \in DOMAIN store : store[i].user_id = op.user}
  BY DEF Pool!Owned

LEMMA AddMapped ==
  ASSUME IInv, NEW u \in Users, NEW content, NEW scope \in ScopeArgs,
         NEW meta \in Metas \cup {Null}, NEW now \in Times,
         AddMemory(u, content, scope, meta, now)
  PROVE  Pool!PNext \/ UNCHANGED <<AbstractPool, Used>>
<1> DEFINE verdict == AndThen(ContentVerdict(content), ScopeVerdict(scope))
           memory == [user_id |-> u, content |-> content, scope |-> CleanScope(scope),
                      metadata |-> OrEmpty(meta), created_at |-> now, updated_at |-> Null]
<1>1. CASE verdict # "ok"
  BY <1>1 DEF AddMemory, AbstractPool, Used
<1>2. CASE verdict = "ok"
  <2>0. PICK op \in {Asked(reply')} : TRUE
    OBVIOUS
  <2>1. /\ store' = Extend(store, nextId, memory) /\ nextId' = nextId + 1 /\ nextId <= MaxIds
    BY <1>2 DEF AddMemory
  <2>2. memory \in Records /\ memory.user_id = u /\ memory.scope = CleanScope(scope)
    <3>1. content \in Contents
      BY <1>2 DEF AndThen, ContentVerdict, Check
    <3> QED BY <3>1, InMemoryAssumption DEF Records, Scopes, OrEmpty
  <2>3. op.tool = "add_memory" /\ op.user = u /\ op.scope = scope
    <3>1. reply'.tool = "add_memory" /\ reply'.user = u /\ reply'.args[2] = scope
      BY DEF AddMemory, Respond
    <3> QED BY <2>0, <3>1 DEF Asked
  <2> HIDE DEF memory
  <2>4. Abstract(memory) \in Pool!Fresh(op)
    <3>1. Abstract(memory) \in Pool!Memory /\ Abstract(memory).owner = u
          /\ Abstract(memory).scope = CleanScope(scope)
      BY <2>2, PoolMemory DEF Abstract
    <3>2. /\ DOMAIN CleanScope(scope) = DOMAIN scope \ {"user_id"}
          /\ \A k \in DOMAIN CleanScope(scope) : CleanScope(scope)[k] = scope[k]
      BY DEF CleanScope, Restrict
    <3> QED BY <2>3, <3>1, <3>2 DEF Pool!Fresh, Pool!Wanted, Pool!ScopeOf
  <2>5. nextId \in Nat \ {0} /\ nextId \notin DOMAIN store /\ MaxIds \in Nat
    BY InMemoryAssumption DEF IInv, TypeOK
  <2>6. Used' = Used \cup {nextId} /\ nextId \in (1 .. MaxIds) \ Used
    BY <2>1, <2>5 DEF Used
  <2> DEFINE new == {nextId}
             fresh == [i \in new |-> Abstract(memory)]
  <2>7. fresh \in [new -> Pool!Fresh(op)]
    BY <2>4
  <2>8. AbstractPool' = [i \in DOMAIN AbstractPool \cup new |->
                           IF i \in new THEN fresh[i] ELSE AbstractPool[i]]
    BY <2>1, <2>5 DEF AbstractPool, Extend
  <2> HIDE DEF fresh
  <2>9. \E n \in SUBSET ((1 .. MaxIds) \ Used) :
          /\ Used' = Used \cup n
          /\ \E f \in [n -> Pool!Fresh(op)] :
               AbstractPool' = [i \in DOMAIN AbstractPool \cup n |->
                                  IF i \in n THEN f[i] ELSE AbstractPool[i]]
    <3>1. new \in SUBSET ((1 .. MaxIds) \ Used)
      BY <2>6
    <3> QED BY <2>6, <2>7, <2>8, <3>1
  <2>10. Pool!Create(op)
    BY <2>3, <2>9 DEF Pool!Create, AbstractPool, Abstract, Used
  <2> QED BY <2>0, <2>10 DEF Pool!PNext
<1> QED BY <1>1, <1>2

LEMMA UpdateMapped ==
  ASSUME IInv, NEW u \in Users, NEW id, NEW content, NEW meta \in Metas \cup {Null},
         NEW now \in Times, UpdateMemory(u, id, content, meta, now)
  PROVE  Pool!PNext \/ UNCHANGED <<AbstractPool, Used>>
<1> DEFINE verdict == AndThen(AndThen(IdVerdict(id), ContentVerdict(content)), FoundVerdict(u, id))
           newer == Updated(id, content, meta, now)
<1>1. CASE verdict # "ok"
  BY <1>1 DEF UpdateMemory, AbstractPool, Used
<1>2. CASE verdict = "ok"
  <2>0. PICK op \in {Asked(reply')} : TRUE
    OBVIOUS
  <2>1. content \in Contents /\ id \in DOMAIN store /\ store[id].user_id = u
    <3>1. ContentVerdict(content) = "ok" /\ FoundVerdict(u, id) = "ok"
      BY <1>2, VerdictsAreCodes
    <3> QED BY <3>1 DEF ContentVerdict, Check, FoundVerdict, Owns
  <2>2. nextId' = nextId /\ store' = [store EXCEPT ![id] = newer]
    BY <1>2 DEF UpdateMemory
  <2>3. op.tool = "update_memory" /\ op.user = u /\ op.id = id /\ op.content = content
    <3>1. /\ reply'.tool = "update_memory" /\ reply'.user = u
          /\ reply'.args[1] = id /\ reply'.args[2] = content
      BY DEF UpdateMemory, Respond
    <3> QED BY <2>0, <3>1 DEF Asked
  <2>4. Abstract(newer) = [owner |-> u, scope |-> AbstractPool[id].scope, text |-> content]
    BY <2>1 DEF Updated, Abstract, AbstractPool
  <2> HIDE DEF newer
  <2>5. AbstractPool' = [AbstractPool EXCEPT ![id] = Abstract(newer)]
    BY <2>1, <2>2 DEF AbstractPool
  <2>6. Used' = Used
    BY <2>2 DEF Used
  <2>7. op.id \in Pool!Owned(op) /\ op.content \in Contents
    BY <2>1, <2>3, PoolOwned
  <2>8. /\ AbstractPool' = [AbstractPool EXCEPT ![op.id] =
             [owner |-> op.user, scope |-> AbstractPool[op.id].scope, text |-> op.content]]
        /\ Used' = Used
    BY <2>3, <2>4, <2>5, <2>6
  <2>9. Pool!Replace(op)
    BY <2>3, <2>7, <2>8 DEF Pool!Replace, AbstractPool, Abstract, Used
  <2> QED BY <2>0, <2>9 DEF Pool!PNext
<1> QED BY <1>1, <1>2

(* Dropping memories a call may remove removes them from the pool. *)
LEMMA DropMapped ==
  ASSUME NEW op, NEW ids, Drop(ids), ids \cap DOMAIN store \subseteq Pool!Removable(op)
  PROVE  Pool!Remove(op)
<1> DEFINE gone == ids \cap DOMAIN store
<1>1. AbstractPool' = [i \in DOMAIN AbstractPool \ gone |-> AbstractPool[i]] /\ Used' = Used
  BY DEF Drop, Restrict, AbstractPool, Used
<1> HIDE DEF gone
<1>2. \E g \in SUBSET Pool!Removable(op) :
        AbstractPool' = [i \in DOMAIN AbstractPool \ g |-> AbstractPool[i]] /\ Used' = Used
  BY <1>1 DEF gone
<1> QED BY <1>2 DEF Pool!Remove, AbstractPool, Abstract, Used

LEMMA DeleteMapped ==
  ASSUME NEW u, NEW id, DeleteMemory(u, id)
  PROVE  Pool!PNext \/ UNCHANGED <<AbstractPool, Used>>
<1> DEFINE verdict == AndThen(IdVerdict(id), FoundVerdict(u, id))
<1>1. CASE verdict # "ok"
  BY <1>1 DEF DeleteMemory, AbstractPool, Used
<1>2. CASE verdict = "ok"
  <2>0. PICK op \in {Asked(reply')} : TRUE
    OBVIOUS
  <2>1. op.tool = "delete_memory" /\ op.user = u /\ op.id = id
    <3>1. reply'.tool = "delete_memory" /\ reply'.user = u /\ reply'.args[1] = id
      BY DEF DeleteMemory, Respond
    <3> QED BY <2>0, <3>1 DEF Asked
  <2>2. store[id].user_id = u
    <3>1. FoundVerdict(u, id) = "ok"
      BY <1>2, VerdictsAreCodes
    <3> QED BY <3>1 DEF FoundVerdict, Owns
  <2>3. {id} \cap DOMAIN store \subseteq Pool!Removable(op)
    BY <2>1, <2>2, PoolOwned DEF Pool!Removable
  <2>4. Drop({id})
    BY <1>2 DEF DeleteMemory
  <2>5. Pool!Remove(op)
    BY <2>3, <2>4, DropMapped
  <2> QED BY <2>0, <2>5 DEF Pool!PNext
<1> QED BY <1>1, <1>2

(* A scope selects no more than the memories that have its real values.    *)
LEMMA DeleteAllMapped ==
  ASSUME NEW u, NEW scope, DeleteAllMemories(u, scope)
  PROVE  Pool!PNext \/ UNCHANGED <<AbstractPool, Used>>
<1> DEFINE gone == InScope(u, CleanScope(scope))
<1>0. PICK op \in {Asked(reply')} : TRUE
  OBVIOUS
<1>1. op.tool = "delete_all_memories" /\ op.user = u /\ op.scope = scope
  <2>1. reply'.tool = "delete_all_memories" /\ reply'.user = u /\ reply'.args[1] = scope
    BY DEF DeleteAllMemories, Respond
  <2> QED BY <1>0, <2>1 DEF Asked
<1>2. CASE Drop(gone)
  <2>1. ASSUME NEW i \in gone, NEW k \in Pool!Wanted(op)
        PROVE  k \in DOMAIN store[i].scope /\ store[i].scope[k] = scope[k]
    <3>1. k \in DOMAIN CleanScope(scope) /\ CleanScope(scope)[k] = scope[k] /\ scope[k] # Null
      BY <1>1 DEF Pool!Wanted, Pool!ScopeOf, CleanScope, Restrict
    <3>2. Get(store[i].scope, k) = scope[k]
      BY <3>1 DEF InScope, Matches
    <3> QED BY <3>1, <3>2 DEF Get
  <2>2. \A i \in gone : i \in DOMAIN store /\ store[i].user_id = u
    BY DEF InScope, Owns
  <2> HIDE DEF gone
  <2>3. gone \subseteq Pool!Selected(op)
    BY <1>1, <2>1, <2>2, PoolOwned DEF Pool!Selected
  <2>4. gone \cap DOMAIN store \subseteq Pool!Removable(op)
    BY <1>1, <2>3 DEF Pool!Removable
  <2>5. Pool!Remove(op)
    BY <1>2, <2>4, DropMapped
  <2> QED BY <1>0, <2>5 DEF Pool!PNext
<1>3. CASE UNCHANGED <<store, nextId>>
  BY <1>3 DEF AbstractPool, Used
<1> QED BY <1>2, <1>3 DEF DeleteAllMemories

LEMMA CloseMapped == ASSUME Close PROVE Pool!PNext
<1>0. PICK op \in {Asked(reply')} : TRUE
  OBVIOUS
<1>1. AbstractPool' = [i \in {} |-> AbstractPool[i]] /\ Used' = Used
  BY DEF Close, Drop, Restrict, AbstractPool, Used
<1>2. op.tool = "close"
  BY <1>0 DEF Close, Asked
<1>3. Pool!Forget(op)
  BY <1>1, <1>2 DEF Pool!Forget, AbstractPool, Abstract, Used
<1> QED BY <1>0, <1>3 DEF Pool!PNext

LEMMA StepMapped == IInv /\ [Next]_vars => [Pool!PNext]_Pool!pvars
<1> SUFFICES ASSUME IInv, [Next]_vars
             PROVE  Pool!PNext \/ UNCHANGED <<AbstractPool, Used>>
  BY DEF Pool!pvars, AbstractPool, Abstract, Used
<1>1. ASSUME UNCHANGED <<store, nextId>> PROVE UNCHANGED <<AbstractPool, Used>>
  BY <1>1 DEF AbstractPool, Used
<1>2. ASSUME NEW u \in Users, Write(u) PROVE Pool!PNext \/ UNCHANGED <<AbstractPool, Used>>
  BY <1>2, AddMapped, UpdateMapped, DeleteMapped, DeleteAllMapped DEF Write
<1>3. ASSUME NEW u \in Users, Read(u) PROVE UNCHANGED <<AbstractPool, Used>>
  BY <1>1, <1>3
  DEF Read, SearchMemory, ListMemories, ReadMemory, MemoryEntities, ExportMemories
<1>4. CASE Close
  BY <1>4, CloseMapped
<1>5. CASE UNCHANGED vars
  BY <1>1, <1>5 DEF vars
<1> QED BY <1>2, <1>3, <1>4, <1>5 DEF Next

(* The in-memory store implements the store of the backend interface:      *)
(* every tool call is one of its steps, or changes nothing it can see.     *)
THEOREM Refinement == Spec => ImplementsTenantStore
<1>1. Spec => []IInv /\ [][Next]_vars
  BY Invariance, PTL DEF Spec
<1> QED BY <1>1, InitMapped, StepMapped, PTL DEF Spec, ImplementsTenantStore, Pool!PSpec

=============================================================================

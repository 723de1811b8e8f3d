---------------------------- MODULE Mem0Backend ----------------------------
(***************************************************************************)
(* The tools of memcp/tools.py over the Mem0Backend of                     *)
(* memcp/backend/mem0.py, against a mem0 server that several tool calls    *)
(* use at once.                                                            *)
(*                                                                         *)
(* A tool call is a task of the event loop.  It suspends at each HTTP      *)
(* request it makes, and between two of its requests every other call may  *)
(* run: pc[c] is the request call c waits for, `wire' the requests mem0    *)
(* may still serve, answer[c] the response that travels back.  mem0's PUT, *)
(* DELETE and history by id are global, so the adapter first fetches the   *)
(* memory and verifies its owner.                                          *)
(*                                                                         *)
(* A request of a call that gave up (timeout, network error) stays on the  *)
(* wire: mem0 may serve it later or never.  The transport retries only     *)
(* connects, so no request is served twice.                                *)
(*                                                                         *)
(* mem0 itself is outside the repository.  It is modelled by what the      *)
(* adapter relies on: `mem' is the sequence of all memories it ever held,  *)
(* the id of each being its position, with the log GET /history serves.    *)
(***************************************************************************)
EXTENDS Requests, Sequences

CONSTANTS
  Calls,       \* tool calls, each made once
  Users,
  Tools,       \* the tools called in this instance
  ScopeArgs,   \* the scopes clients send
  Statuses,    \* error statuses mem0 may answer any request with
  InitMems,    \* what mem0 may hold when the server starts
  MaxMem,      \* bound: memories ever
  MaxFacts     \* bound: memories one POST creates

AllTools == {"add_memory", "search_memory", "delete_memory", "delete_all_memories",
             "get_memory", "update_memory", "list_memories", "export_memories",
             "memory_history", "memory_entities"}

StoredScopes == {Norm(CleanScope(s)) : s \in ScopeArgs \cup {NoScope}}
Events == [by : Calls \cup {Null}, event : {"add", "update", "delete"}, content : Contents]
Memories == [owner : Users, scope : StoredScopes, log : Seq(Events) \ {<<>>}]

ASSUME Mem0Assumption ==
  /\ Tools \subseteq AllTools
  /\ Statuses \subseteq 400 .. 599 \ {404, 410}    \* those two: DeliverMissing
  /\ InitMems \subseteq Seq(Memories)
  /\ \A m \in InitMems :
       /\ Len(m) <= MaxMem
       /\ \A i \in DOMAIN m : \A k \in DOMAIN m[i].log : m[i].log[k].by = Null
  /\ MaxMem \in Nat /\ MaxFacts \in Nat
  /\ Null \notin Calls /\ Null \notin Nat
  /\ BadId \notin Nat

VARIABLES
  mem,      \* mem0's memories, dead ones included
  call,     \* call[c]: the tool and its arguments
  pc,       \* pc[c]: the request c waits for, or idle, or done
  wire,     \* requests mem0 has not served
  answer,   \* answer[c]: the response to the request c waits for
  result    \* result[c]: what the tool returned

vars == <<mem, call, pc, wire, answer, result>>

Waiting == {"post", "search", "list", "entities", "bulk", "get",
            "verify", "put", "delete", "history", "readback"}

(* The first request of each tool, and the one its owner check guards.     *)
FirstRequest ==
  [add_memory |-> "post", search_memory |-> "search", list_memories |-> "list",
   export_memories |-> "list", memory_entities |-> "entities",
   delete_all_memories |-> "bulk", get_memory |-> "get", delete_memory |-> "verify",
   update_memory |-> "verify", memory_history |-> "verify"]
Guarded ==
  [delete_memory |-> "delete", update_memory |-> "put", memory_history |-> "history"]

Response(status, items) == [status |-> status, items |-> items]
NoAnswer == Response(0, {})

(* What a call returned, and the request it came from: idle for none.      *)
Outcome(c, code, retry, items) ==
  [from |-> pc[c], code |-> code, retry |-> retry, items |-> items]
NoResult == [from |-> "idle", code |-> "none", retry |-> FALSE, items |-> {}]

Init ==
  /\ mem \in InitMems
  /\ call = [c \in Calls |-> Null]
  /\ pc = [c \in Calls |-> "idle"]
  /\ wire = {}
  /\ answer = [c \in Calls |-> NoAnswer]
  /\ result = [c \in Calls |-> NoResult]

-----------------------------------------------------------------------------
(* The mem0 server.  Here and below a definition named for what it gets    *)
(* wrong, just before the one it resembles, is a mutant: the properties    *)
(* are checked to fail when it takes the other's place.                    *)

Live(i) == i \in DOMAIN mem /\ mem[i].log[Len(mem[i].log)].event # "delete"
Content(i) == mem[i].log[Len(mem[i].log)].content

(* A memory as a response carries it.  Its owner is the user_id of the raw *)
(* JSON, which _parse_memory drops; its log stands for content and times.  *)
View(i) == [id |-> i, owner |-> mem[i].owner, log |-> mem[i].log]
Found(u, filter) ==
  {i \in DOMAIN mem : Live(i) /\ mem[i].owner = u /\ Matches(mem[i].scope, filter)}

Write(i, c, event, content) ==
  [owner |-> mem[i].owner, scope |-> mem[i].scope,
   log |-> Append(mem[i].log, [by |-> c, event |-> event, content |-> content])]

PayloadUnnormalised(k) ==
  [user |-> k.user, scope |-> CleanScope(k.scope)]

(* The user and the scope a request carries: the dict starts with user_id  *)
(* and the scope's keys are written over it.                               *)
Payload(k) ==
  LET scope == Norm(CleanScope(k.scope))
  IN  [user |-> IF "user_id" \in DOMAIN scope THEN scope["user_id"] ELSE k.user,
       scope |-> scope]
Addressed(k) == Found(Payload(k).user, Payload(k).scope)

(* The entities /entities lists for a memory: its user, and the agent and  *)
(* the run it was stored under, whose names their clients chose.           *)
EntitiesOf(m) ==
  {[type |-> "user_id", id |-> m.owner]}
  \cup {[type |-> k, id |-> m.scope[k]] : k \in DOMAIN m.scope}

(* r is served and r's call, if it still waits, gets the response. *)
Deliver(r, response) ==
  /\ wire' = wire \ {r}
  /\ answer' = IF pc[r.call] = r.stage
               THEN [answer EXCEPT ![r.call] = response] ELSE answer
  /\ UNCHANGED <<call, pc, result>>

(* For a memory that is gone mem0 says so or answers an empty body; for    *)
(* one that is there it does neither.                                      *)
DeliverMissing(r) == \E status \in {200, 404, 410} : Deliver(r, Response(status, {}))

ServeGet(r) ==
  /\ r.stage \in {"get", "verify", "readback"}
  /\ UNCHANGED mem
  /\ LET id == call[r.call].id IN
     IF Live(id) THEN Deliver(r, Response(200, {View(id)})) ELSE DeliverMissing(r)

(* POST: extraction stores any number of facts, also none.  The response   *)
(* names the memories it made, and may name some that the tenant had (mem0 *)
(* deduplicates); or its body says nothing of what was stored.             *)
ServePost(r) ==
  LET k == call[r.call]
      fact == [owner |-> Payload(k).user, scope |-> Payload(k).scope,
               log |-> <<[by |-> r.call, event |-> "add", content |-> k.content]>>]
      made(n) == {[id |-> i, owner |-> fact.owner, log |-> fact.log] :
                    i \in Len(mem) + 1 .. Len(mem) + n}
  IN  /\ r.stage = "post"
      /\ \E n \in 0 .. MaxFacts, known \in SUBSET Addressed(k) :
           /\ Len(mem) + n <= MaxMem /\ n + Cardinality(known) <= MaxFacts
           /\ mem' = [i \in 1 .. Len(mem) + n |-> IF i \in DOMAIN mem THEN mem[i] ELSE fact]
           /\ \/ Deliver(r, Response(200, made(n) \cup {View(i) : i \in known}))
              \/ Deliver(r, Response(200, {}))

(* PUT and DELETE by id, whoever owns it. *)
ServeWrite(r) ==
  LET k == call[r.call] IN
  /\ r.stage \in {"put", "delete"}
  /\ \/ /\ Live(k.id)
        /\ mem' = [mem EXCEPT ![k.id] =
             IF r.stage = "put" THEN Write(k.id, r.call, "update", k.content)
                                ELSE Write(k.id, r.call, "delete", Content(k.id))]
        /\ Deliver(r, Response(200, {}))
     \/ ~Live(k.id) /\ UNCHANGED mem /\ DeliverMissing(r)

(* DELETE /memories: everything that matches the query parameters. *)
ServeBulk(r) ==
  LET gone == Addressed(call[r.call])
  IN  /\ r.stage = "bulk"
      /\ mem' = [i \in DOMAIN mem |->
                   IF i \in gone THEN Write(i, r.call, "delete", Content(i)) ELSE mem[i]]
      /\ Deliver(r, Response(200, {}))

(* Listing answers all that matches, search some of it; entities are those *)
(* of every tenant; the log of a memory is served even after its deletion. *)
ServeRead(r) ==
  LET k == call[r.call]
      found == {View(i) : i \in Addressed(k)}
  IN  /\ UNCHANGED mem
      /\ \/ r.stage = "list" /\ Deliver(r, Response(200, found))
         \/ r.stage = "search" /\ \E hits \in SUBSET found : Deliver(r, Response(200, hits))
         \/ /\ r.stage = "entities"
            /\ Deliver(r, Response(200,
                 UNION {EntitiesOf(mem[i]) : i \in {j \in DOMAIN mem : Live(j)}}))
         \/ /\ r.stage = "history"
            /\ Deliver(r, Response(200, {View(i) : i \in DOMAIN mem \cap {k.id}}))

(* An error instead: nothing was done.  (An error after the effect looks   *)
(* to the caller like a served request whose response is lost.)            *)
Refuse(r) ==
  /\ UNCHANGED mem
  /\ \E status \in Statuses : Deliver(r, Response(status, {}))

Server ==
  \E r \in wire : \/ ServeGet(r) \/ ServePost(r) \/ ServeWrite(r)
                  \/ ServeBulk(r) \/ ServeRead(r) \/ Refuse(r)

-----------------------------------------------------------------------------
(* The tool calls *)

Send(c, stage) ==
  /\ pc' = [pc EXCEPT ![c] = stage]
  /\ wire' = wire \cup {[call |-> c, stage |-> stage]}
  /\ answer' = [answer EXCEPT ![c] = NoAnswer]

Return(c, outcome) ==
  /\ pc' = [pc EXCEPT ![c] = "done"]
  /\ result' = [result EXCEPT ![c] = outcome]
  /\ answer' = [answer EXCEPT ![c] = NoAnswer]
  /\ UNCHANGED wire

Raise(c, status) ==
  LET e == ToolError(call[c].tool, status) IN Return(c, Outcome(c, e.code, e.retry, {}))

Ids == DOMAIN mem \cup {0, BadId}    \* 0: an id nobody was given
TakesContent == {"add_memory", "update_memory"}
TakesScope == {"add_memory", "search_memory", "list_memories", "memory_entities",
               "delete_all_memories"}
TakesLimit == {"search_memory", "list_memories", "memory_entities"}

(* Of query, limit, threshold and cursor only their verdict matters here.  *)
Rest(tool) ==
  {"good"} \cup (IF tool \in TakesLimit THEN {"bad"} ELSE {})
           \cup (IF tool = "list_memories" THEN {"bad_cursor"} ELSE {})

Invocations(tool, u) ==
  [tool : {tool}, user : {u},
   id : IF tool \in ByIdTools THEN Ids ELSE {Null},
   content : IF tool \in TakesContent THEN Contents \cup BadContents ELSE {Null},
   scope : IF tool \in TakesScope THEN ScopeArgs ELSE {NoScope},
   rest : Rest(tool)]

(* What the tool checks before its first request. *)
Verdict(k) ==
  LET content == IF k.tool \in TakesContent THEN ContentVerdict(k.content) ELSE "ok"
      scope == AndThen(ScopeVerdict(k.scope),
                       IF k.tool = "delete_all_memories" /\ DOMAIN CleanScope(k.scope) = {}
                       THEN "scope_required" ELSE "ok")
  IN  AndThen(AndThen(IdVerdict(k.id), content), AndThen(Check(k.rest # "bad"), scope))

Invoke(c) ==
  /\ pc[c] = "idle"
  /\ \E tool \in Tools, u \in Users : \E k \in Invocations(tool, u) :
       /\ call' = [call EXCEPT ![c] = k]
       /\ \/ /\ Verdict(k) = "ok"
             /\ Send(c, FirstRequest[tool])
             /\ UNCHANGED result
          \/ Verdict(k) # "ok" /\ Return(c, Outcome(c, Verdict(k), FALSE, {}))
  /\ UNCHANGED mem

(* _request raises before any response is looked at. *)
GiveUp(c, status) ==
  /\ pc[c] \in Waiting
  /\ Raise(c, status)
  /\ UNCHANGED <<mem, call>>

TimeoutExceptReadback(c) == pc[c] # "readback" /\ GiveUp(c, 408)
Timeout(c) == GiveUp(c, 408)
NetworkError(c) == GiveUp(c, 503)

(* Mem0Backend.get: a null body and a memory of someone else are the same. *)
FetchedUnverified(c) == answer[c].items
Fetched(c) == {m \in answer[c].items : m.owner = call[c].user}

ResumeError(c) == answer[c].status >= 400 /\ Raise(c, answer[c].status) /\ UNCHANGED call

ResumeVerify(c) ==
  /\ pc[c] = "verify" /\ answer[c].status = 200
  /\ \/ Fetched(c) = {} /\ Raise(c, 404)
     \/ Fetched(c) # {} /\ Send(c, Guarded[call[c].tool]) /\ UNCHANGED result
  /\ UNCHANGED call

ResumePut(c) ==
  /\ pc[c] = "put" /\ answer[c].status = 200
  /\ Send(c, "readback")
  /\ UNCHANGED <<call, result>>

ResumeFetchUnchecked(c) ==
  /\ pc[c] \in {"get", "readback"} /\ answer[c].status = 200
  /\ \/ pc[c] = "get" /\ Fetched(c) = {} /\ Raise(c, 404)
     \/ /\ pc[c] = "readback" \/ Fetched(c) # {}
        /\ Return(c, Outcome(c, "ok", FALSE, Fetched(c)))
  /\ UNCHANGED call

(* get_memory, and the last step of update_memory. *)
ResumeFetch(c) ==
  /\ pc[c] \in {"get", "readback"} /\ answer[c].status = 200
  /\ \/ Fetched(c) = {} /\ Raise(c, IF pc[c] = "get" THEN 404 ELSE 503)
     \/ Fetched(c) # {} /\ Return(c, Outcome(c, "ok", FALSE, Fetched(c)))
  /\ UNCHANGED call

(* The filter on entities: by id, whatever their type. *)
Named(c) == {e \in answer[c].items : e.id = call[c].user}

ResumeLastUnfiltered(c) ==
  /\ pc[c] \in {"post", "search", "list", "entities", "bulk", "delete", "history"}
  /\ answer[c].status = 200
  /\ Return(c, Outcome(c, "ok", FALSE, answer[c].items))
  /\ UNCHANGED call

ResumeLastOneResult(c) ==
  /\ pc[c] \in {"post", "search", "list", "entities", "bulk", "delete", "history"}
  /\ answer[c].status = 200
  /\ \E items \in SUBSET answer[c].items :
       /\ pc[c] = "post" => Cardinality(items) <= 1
       /\ Return(c, Outcome(c, "ok", FALSE, items))
  /\ UNCHANGED call

(* The other tools return what mem0 answered, an add also the memories it  *)
(* did not make (the event of a result is not looked at) and nothing for a *)
(* body without results; entities are filtered here.                       *)
(* The cursor is parsed only once the list is there.                       *)
ResumeLast(c) ==
  /\ pc[c] \in {"post", "search", "list", "entities", "bulk", "delete", "history"}
  /\ answer[c].status = 200
  /\ \/ /\ call[c].rest = "bad_cursor"
        /\ Return(c, Outcome(c, "validation_error", FALSE, {}))
     \/ /\ call[c].rest # "bad_cursor"
        /\ Return(c, Outcome(c, "ok", FALSE,
                       IF pc[c] = "entities" THEN Named(c) ELSE answer[c].items))
  /\ UNCHANGED call

Resume(c) ==
  /\ \/ ResumeError(c) \/ ResumeVerify(c) \/ ResumePut(c)
     \/ ResumeFetch(c) \/ ResumeLast(c)
  /\ UNCHANGED mem

(* Every call has returned: the server idles. *)
Quiet == (\A c \in Calls : pc[c] = "done") /\ UNCHANGED vars

Next ==
  \/ \E c \in Calls : Invoke(c) \/ Timeout(c) \/ NetworkError(c) \/ Resume(c)
  \/ Server
  \/ Quiet

(* httpx.Timeout bounds every wait of a call; mem0 owes nothing. *)
Fairness == \A c \in Calls : WF_vars(Timeout(c))

Spec == Init /\ [][Next]_vars /\ Fairness

-----------------------------------------------------------------------------
Invocation ==
  [tool : Tools, user : Users, id : Nat \cup {BadId, Null},
   content : Contents \cup BadContents \cup {Null}, scope : ScopeArgs \cup {NoScope},
   rest : {"good", "bad", "bad_cursor"}]

Entity ==
  [type : {"user_id"} \cup UNION {DOMAIN s : s \in StoredScopes},
   id : Users \cup UNION {{s[k] : k \in DOMAIN s} : s \in StoredScopes}]
Item == [id : Nat, owner : Users, log : Seq(Events)] \cup Entity
Outcomes ==
  [from : Waiting \cup {"idle"}, code : Codes \cup {"none"}, retry : BOOLEAN, items : SUBSET Item]

TypeOK ==
  /\ mem \in Seq(Memories)
  /\ call \in [Calls -> Invocation \cup {Null}]
  /\ pc \in [Calls -> Waiting \cup {"idle", "done"}]
  /\ wire \subseteq [call : Calls, stage : Waiting]
  /\ answer \in [Calls -> [status : {0, 200, 404, 410} \cup Statuses, items : SUBSET Item]]
  /\ result \in [Calls -> Outcomes]

(* mem0 applies a PUT or DELETE to any id; still no step changes a memory  *)
(* but on a request of the tenant who owns it, however the owner check of  *)
(* one call interleaves with the requests of the others, and with requests *)
(* that outlive their calls.  What a request adds is its tenant's own.     *)
Served == wire \ wire'

StepIsIsolated ==
  /\ \A i \in DOMAIN mem :
       \/ i \in DOMAIN mem' /\ mem'[i] = mem[i]
       \/ \E r \in Served : call[r.call].user = mem[i].owner
  /\ \A i \in DOMAIN mem' \ DOMAIN mem :
       \E r \in Served : call[r.call].user = mem'[i].owner

TenantIsolation == [][StepIsIsolated]_vars

(* No tool returns a memory or a log of another tenant, and no entity but  *)
(* those that bear the caller's name: his own, and an agent or a run that  *)
(* another tenant happened to call so.                                     *)
Own(c, item) ==
  IF call[c].tool = "memory_entities" THEN item.id = call[c].user
                                      ELSE item.owner = call[c].user
NoLeak == \A c \in Calls : \A m \in result[c].items : Own(c, m)

(* Why isolation holds.  A call that waits, or whose request is still out  *)
(* after the call gave up, passed its checks and makes only the requests   *)
(* of its tool; a write or a history request is out only for a memory that *)
(* exists and whose owner, which never changes, is the caller; a fetched   *)
(* memory is the one asked for, and whatever else travels back belongs to  *)
(* the caller, except the entities, which the tool filters.                *)
Fetches == {"get", "verify", "readback"}
Stages(tool) ==
  {FirstRequest[tool]}
  \cup (IF tool \in DOMAIN Guarded THEN {Guarded[tool]} ELSE {})
  \cup (IF tool = "update_memory" THEN {"readback"} ELSE {})

Accepted(c, stage) ==
  /\ call[c] \in Invocation
  /\ stage \in Stages(call[c].tool)
  /\ call[c].tool \in TakesContent => call[c].content \in Contents
  /\ call[c].rest \in Rest(call[c].tool)
Verified(c) == call[c].id \in DOMAIN mem /\ mem[call[c].id].owner = call[c].user

IdleIsBlank ==
  \A c \in Calls : /\ pc[c] \notin Waiting => answer[c] = NoAnswer
                   /\ pc[c] = "idle" => result[c] = NoResult
WaitersAccepted == \A c \in Calls : pc[c] \in Waiting => Accepted(c, pc[c])
RequestsAccepted ==
  \A r \in wire : pc[r.call] # "idle" /\ Accepted(r.call, r.stage)
WritesVerified ==
  \A r \in wire : r.stage \in {"put", "delete", "history"} => Verified(r.call)
FetchIsExact ==
  \A c \in Calls : pc[c] \in Fetches =>
    \A m \in answer[c].items :
      m.id = call[c].id /\ m.id \in DOMAIN mem /\ m.owner = mem[m.id].owner
AnswersAreOwn ==
  \A c \in Calls : pc[c] \notin Fetches \cup {"entities"} =>
    \A m \in answer[c].items : m.owner = call[c].user

IsolationInv ==
  /\ IdleIsBlank /\ WaitersAccepted /\ RequestsAccepted
  /\ WritesVerified /\ FetchIsExact /\ AnswersAreOwn /\ NoLeak

(* A success is real, whatever other calls and late requests do: an update *)
(* that returned shows a memory with its own write in the log, under later *)
(* ones perhaps; a deleted memory is gone for good; an add that names      *)
(* memories names every one it made.                                       *)
WrittenBy(c, i) == \E k \in DOMAIN mem[i].log : mem[i].log[k].by = c
Made(c) == {i \in DOMAIN mem : WrittenBy(c, i)}
IdsIn(items) == {m.id : m \in items}
Shows(c, items) == \A m \in items : \E k \in DOMAIN m.log : m.log[k].by = c

SuccessIsApplied ==
  \A c \in Calls : result[c].code = "ok" =>
    LET items == result[c].items IN
    CASE call[c].tool = "update_memory" -> items # {} /\ Shows(c, items)
      [] call[c].tool = "delete_memory" -> ~Live(call[c].id)
      [] call[c].tool = "add_memory" -> items = {} \/ Made(c) \subseteq IdsIn(items)
      [] OTHER -> TRUE

(* "not_found" is the truth: the tenant has no such memory, not even when  *)
(* the answer came from a write or a read-back that lost a race.           *)
NotFoundIsTrue ==
  \A c \in Calls : result[c].code = "not_found" =>
    ~(Live(call[c].id) /\ mem[call[c].id].owner = call[c].user)

(* retry = false is final: the call changed nothing and has no request     *)
(* left that could.  The one exception is an update whose PUT went through *)
(* and whose read-back mem0 then refused.                                  *)
Mutations == {"post", "put", "delete", "bulk"}

FinalErrorMeansNoEffect ==
  \A c \in Calls :
    (result[c].code \notin {"ok", "none"} /\ ~result[c].retry) =>
      /\ \A r \in wire : r.call = c => r.stage \notin Mutations
      /\ result[c].from = "readback" \/ Made(c) = {}

(* Why the three hold.  A request is out while its call waits for it, or   *)
(* after the call was told to retry; an id a call names exists from the    *)
(* start or never; what travels back says truly what is gone; and an       *)
(* effect of a call shows in its answer, in what it still does, or in its  *)
(* result.                                                                 *)
OneRequestOut ==
  \A r \in wire :
    \/ pc[r.call] = r.stage /\ answer[r.call] = NoAnswer
    \/ pc[r.call] = "done" /\ result[r.call].retry
ResultIsLast ==
  \A c \in Calls :
    /\ pc[c] # "done" => result[c] = NoResult
    /\ result[c].code = "ok" => ~result[c].retry
IdsAreOld ==
  \A c \in Calls : pc[c] # "idle" =>
    call[c] \in Invocation /\ call[c].id \in DOMAIN mem \cup {0, BadId, Null}
MissingIsGone ==
  \A c \in Calls :
    (\/ answer[c].status \in {404, 410}
     \/ answer[c].status = 200 /\ pc[c] \in Fetches /\ answer[c].items = {}
     \/ answer[c].status = 200 /\ pc[c] = "delete") => ~Live(call[c].id)
EffectIsKnown ==
  \A c \in Calls, i \in DOMAIN mem : WrittenBy(c, i) =>
    \/ pc[c] \in Mutations /\ answer[c].status = 200
    \/ pc[c] = "readback"
    \/ /\ pc[c] = "done"
       /\ result[c].code = "ok" \/ result[c].retry \/ result[c].from = "readback"
UpdateIsVisible ==
  \A c \in Calls :
    /\ (pc[c] = "readback" \/ (pc[c] = "put" /\ answer[c].status = 200)) =>
         (Live(call[c].id) => WrittenBy(c, call[c].id))
    /\ pc[c] = "readback" => Shows(c, answer[c].items)
AddIsAnswered ==
  \A c \in Calls : (pc[c] = "post" /\ answer[c].status = 200) =>
    answer[c].items = {} \/ Made(c) \subseteq IdsIn(answer[c].items)

AnswersInv ==
  /\ OneRequestOut /\ ResultIsLast /\ IdsAreOld /\ MissingIsGone
  /\ EffectIsKnown /\ UpdateIsVisible /\ AddIsAnswered

(* Every tool call returns, whatever mem0 does. *)
EveryCallReturns == \A c \in Calls : pc[c] # "idle" ~> pc[c] = "done"

(* mem0 behind the adapter implements the store of the backend interface:  *)
(* what changes among its memories is what some tool call of their owner   *)
(* asked for, with the id, the text and the scope that call gave.          *)
Pool == INSTANCE TenantStore WITH
  Ids <- 1 .. MaxMem,
  Scopes <- StoredScopes,
  Blanks <- Wildcards \cup {Null},
  Texts <- Contents,
  pool <- [i \in {j \in DOMAIN mem : Live(j)} |->
             [owner |-> mem[i].owner, scope |-> mem[i].scope, text |-> Content(i)]],
  used <- DOMAIN mem,
  asked <- {call[c] : c \in {d \in Calls : pc[d] # "idle"}}

ImplementsTenantStore == Pool!PSpec

-----------------------------------------------------------------------------
(* What the documentation says and the code does not do *)

(* delete_all_memories is a "Bulk-delete by scope" that "Requires at least *)
(* one scope key" (README.md:109): the DELETE it sends names one.          *)
BulkIsScoped ==
  \A r \in wire : r.stage = "bulk" => DOMAIN Payload(call[r.call]).scope # {}
=============================================================================

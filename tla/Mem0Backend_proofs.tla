------------------------ MODULE Mem0Backend_proofs ------------------------
(***************************************************************************)
(* Proofs about Mem0Backend: its type invariant, and tenant isolation for  *)
(* any number of tenants, calls and memories.                              *)
(***************************************************************************)
EXTENDS Mem0Backend, TLAPS

(* Everything the safety proofs need of a state. *)
IInv == TypeOK /\ IsolationInv

(* The tables from tools to requests only name requests a call can wait    *)
(* for.                                                                    *)
LEMMA StagesTyped ==
  ASSUME NEW tool \in AllTools
  PROVE  /\ FirstRequest[tool] \in Waiting
         /\ Stages(tool) \subseteq Waiting
         /\ tool \in DOMAIN Guarded => Guarded[tool] \in Waiting
         /\ FirstRequest[tool] \notin {"put", "delete", "history"}
         /\ FirstRequest[tool] = "verify" => tool \in DOMAIN Guarded
  BY DEF AllTools, FirstRequest, Guarded, Stages, Waiting

(* Only the tools that take a content send it. *)
LEMMA ContentTools ==
  ASSUME NEW tool \in AllTools, "post" \in Stages(tool) \/ "put" \in Stages(tool)
  PROVE  tool \in TakesContent
  BY DEF AllTools, FirstRequest, Guarded, Stages, TakesContent

(* Only memory_entities asks for entities, and for nothing else.           *)
LEMMA EntitiesTool ==
  ASSUME NEW tool \in AllTools, NEW stage \in Stages(tool)
  PROVE  tool = "memory_entities" <=> stage = "entities"
  BY DEF AllTools, FirstRequest, Guarded, Stages

(* A cleaned scope has no user_id, so it never readdresses a request: the  *)
(* user a request carries is its caller.                                   *)
LEMMA PayloadIsCallers ==
  ASSUME NEW k \in Invocation
  PROVE  Payload(k).user = k.user /\ Payload(k).scope \in StoredScopes
  BY DEF Payload, Norm, CleanScope, Restrict, StoredScopes, Invocation

LEMMA Initially == Init => IInv
<1> SUFFICES ASSUME Init PROVE IInv
  OBVIOUS
<1> USE Mem0Assumption
<1>1. TypeOK
  BY DEF Init, TypeOK, NoAnswer, NoResult, Response, Outcomes, Codes
<1>2. IsolationInv
  BY DEF Init, IsolationInv, IdleIsBlank, WaitersAccepted, RequestsAccepted, WritesVerified,
     FetchIsExact, AnswersAreOwn, NoLeak, NoAnswer, NoResult, Response, Waiting, Fetches
<1> QED BY <1>1, <1>2 DEF IInv

(* What a step of mem0 does to its memories: owners and ids stay. *)
OwnersKept ==
  /\ mem' \in Seq(Memories)
  /\ DOMAIN mem \subseteq DOMAIN mem'
  /\ \A i \in DOMAIN mem : mem'[i].owner = mem[i].owner

(* A response the caller may rely on: exact if it answers a fetch, the     *)
(* caller's own otherwise, entities apart.                                 *)
Honest(r, response) ==
  /\ response \in [status : {0, 200, 404, 410} \cup Statuses, items : SUBSET Item]
  /\ r.stage \in Fetches => \A m \in response.items :
       m.id = call[r.call].id /\ m.id \in DOMAIN mem' /\ m.owner = mem'[m.id].owner
  /\ r.stage \notin Fetches \cup {"entities"} =>
       \A m \in response.items : m.owner = call[r.call].user

(* Whatever mem0 serves, an honest response keeps the invariant. *)
LEMMA DeliverKeeps ==
  ASSUME IInv, NEW r \in wire, NEW response, Honest(r, response), OwnersKept,
         Deliver(r, response)
  PROVE  IInv'
<1> USE DEF IInv, IsolationInv
<1>1. r.call \in Calls /\ r.stage \in Waiting
  BY DEF TypeOK
<1>2. TypeOK'
  BY <1>1 DEF TypeOK, Deliver, OwnersKept, Honest
<1>3. IdleIsBlank'
  BY <1>1 DEF Deliver, IdleIsBlank, RequestsAccepted, TypeOK
<1>4. WaitersAccepted' /\ RequestsAccepted'
  BY DEF Deliver, WaitersAccepted, RequestsAccepted, Accepted
<1>5. WritesVerified'
  BY DEF Deliver, WritesVerified, Verified, OwnersKept
<1>6. FetchIsExact'
  BY <1>1 DEF Deliver, FetchIsExact, OwnersKept, Honest, TypeOK
<1>7. AnswersAreOwn'
  BY <1>1 DEF Deliver, AnswersAreOwn, Honest, TypeOK
<1>8. NoLeak'
  BY DEF Deliver, NoLeak, Own
<1> QED BY <1>2, <1>3, <1>4, <1>5, <1>6, <1>7, <1>8

(* A call that returns nothing but its caller's own keeps the invariant.   *)
LEMMA ReturnKeeps ==
  ASSUME IInv, NEW c \in Calls, NEW outcome, pc[c] # "idle",
         outcome \in Outcomes, \A m \in outcome.items : Own(c, m),
         Return(c, outcome), UNCHANGED <<mem, call>>
  PROVE  IInv'
<1> USE DEF IInv, IsolationInv
<1>1. TypeOK'
  BY DEF TypeOK, Return, NoAnswer, Response
<1>2. IdleIsBlank' /\ WaitersAccepted' /\ RequestsAccepted'
  BY DEF Return, IdleIsBlank, WaitersAccepted, RequestsAccepted, Accepted, TypeOK, Waiting
<1>3. WritesVerified'
  BY DEF Return, WritesVerified, Verified
<1>4. FetchIsExact' /\ AnswersAreOwn'
  BY DEF Return, FetchIsExact, AnswersAreOwn, NoAnswer, Response, TypeOK, Fetches
<1>5. NoLeak'
  BY DEF Return, NoLeak, Own, TypeOK
<1> QED BY <1>1, <1>2, <1>3, <1>4, <1>5

(* So does a call that goes on to its next request, provided a write or a  *)
(* history request follows a successful owner check.                       *)
LEMMA SendKeeps ==
  ASSUME IInv, NEW c \in Calls, NEW stage \in Waiting, pc[c] # "idle",
         Accepted(c, stage), stage \in {"put", "delete", "history"} => Verified(c),
         Send(c, stage), UNCHANGED <<mem, call, result>>
  PROVE  IInv'
<1> USE DEF IInv, IsolationInv
<1>1. TypeOK'
  BY DEF TypeOK, Send, NoAnswer, Response
<1>2. IdleIsBlank' /\ WaitersAccepted' /\ RequestsAccepted'
  BY DEF Send, IdleIsBlank, WaitersAccepted, RequestsAccepted, Accepted, TypeOK, Waiting
<1>3. WritesVerified'
  BY DEF Send, WritesVerified, Verified
<1>4. FetchIsExact' /\ AnswersAreOwn'
  BY DEF Send, FetchIsExact, AnswersAreOwn, NoAnswer, Response, TypeOK, Fetches
<1>5. NoLeak'
  BY DEF Send, NoLeak, Own, TypeOK
<1> QED BY <1>1, <1>2, <1>3, <1>4, <1>5

(* The memories of a well-typed mem0. *)
LEMMA MemoryFacts ==
  ASSUME TypeOK, NEW i \in DOMAIN mem
  PROVE  /\ i \in Nat
         /\ mem[i] \in Memories /\ mem[i].owner \in Users
         /\ mem[i].log \in Seq(Events) /\ mem[i].log # <<>>
         /\ Content(i) \in Contents
         /\ View(i) \in Item /\ View(i).id = i /\ View(i).owner = mem[i].owner
<1>1. i \in Nat /\ mem[i] \in Memories
  BY DEF TypeOK
<1>2. mem[i].owner \in Users /\ mem[i].log \in Seq(Events) /\ mem[i].log # <<>>
  BY <1>1 DEF Memories
<1>3. Content(i) \in Contents
  <2> DEFINE log == mem[i].log
  <2>1. log \in Seq(Events) /\ log # <<>>
    BY <1>2
  <2> HIDE DEF log
  <2>2. log[Len(log)] \in Events
    BY <2>1
  <2>3. log[Len(log)].content \in Contents
    BY <2>2 DEF Events
  <2> QED BY <2>3 DEF Content, log
<1>4. View(i) \in Item /\ View(i).id = i /\ View(i).owner = mem[i].owner
  BY <1>1, <1>2 DEF View, Item
<1> QED BY <1>1, <1>2, <1>3, <1>4

(* Appending an entry to a memory's log gives a memory of the same owner.  *)
LEMMA WriteFacts ==
  ASSUME TypeOK, NEW i \in DOMAIN mem, NEW c \in Calls,
         NEW event \in {"add", "update", "delete"}, NEW content \in Contents
  PROVE  Write(i, c, event, content) \in Memories /\ Write(i, c, event, content).owner = mem[i].owner
<1> DEFINE entry == [by |-> c, event |-> event, content |-> content]
<1>1. mem[i] \in Memories
  BY MemoryFacts
<1>2. entry \in Events
  BY DEF Events
<1> HIDE DEF entry
<1>3. Append(mem[i].log, entry) \in Seq(Events) \ {<<>>}
  BY <1>1, <1>2 DEF Memories
<1> QED BY <1>1, <1>3 DEF Write, Memories, entry

LEMMA EmptyIsHonest ==
  ASSUME IInv, NEW r \in wire, NEW status \in {200, 404, 410} \cup Statuses
  PROVE  Honest(r, Response(status, {}))
  BY DEF Honest, Response

LEMMA SameMemKeepsOwners == ASSUME TypeOK, UNCHANGED mem PROVE OwnersKept
  BY DEF OwnersKept, TypeOK

LEMMA DeliverEmpty ==
  ASSUME IInv, NEW r \in wire, NEW status \in {200, 404, 410} \cup Statuses, OwnersKept,
         Deliver(r, Response(status, {}))
  PROVE  IInv'
  BY EmptyIsHonest, DeliverKeeps

LEMMA ServeGetKeeps == ASSUME IInv, NEW r \in wire, ServeGet(r) PROVE IInv'
<1> DEFINE id == call[r.call].id
<1>1. OwnersKept
  BY SameMemKeepsOwners DEF ServeGet, IInv
<1>2. CASE Live(id)
  <2>1. id \in DOMAIN mem /\ Deliver(r, Response(200, {View(id)})) /\ r.stage \in Fetches /\ mem' = mem
    BY <1>2 DEF Live, ServeGet, Fetches
  <2>2. View(id) \in Item /\ View(id).id = id /\ View(id).owner = mem[id].owner
    BY <2>1, MemoryFacts DEF IInv
  <2>3. Honest(r, Response(200, {View(id)}))
    BY <2>1, <2>2 DEF Honest, Response
  <2> QED BY <1>1, <2>1, <2>3, DeliverKeeps
<1>3. CASE ~Live(id)
  BY <1>1, <1>3, DeliverEmpty DEF ServeGet, DeliverMissing
<1> QED BY <1>2, <1>3

(* What mem0 answers a POST: nothing, or memories it made and others that  *)
(* the request's user had.                                                 *)
LEMMA ServePostKeeps == ASSUME IInv, NEW r \in wire, ServePost(r) PROVE IInv'
<1> DEFINE k == call[r.call]
           fact == [owner |-> Payload(k).user, scope |-> Payload(k).scope,
                    log |-> <<[by |-> r.call, event |-> "add", content |-> k.content]>>]
           made(n) == {[id |-> i, owner |-> fact.owner, log |-> fact.log] :
                         i \in Len(mem) + 1 .. Len(mem) + n}
           views(known) == {View(i) : i \in known}
<1>1. PICK n \in 0 .. MaxFacts, known \in SUBSET Addressed(k) :
        /\ mem' = [i \in 1 .. Len(mem) + n |-> IF i \in DOMAIN mem THEN mem[i] ELSE fact]
        /\ \/ Deliver(r, Response(200, made(n) \cup views(known)))
           \/ Deliver(r, Response(200, {}))
  BY DEF ServePost
<1>2. r.stage = "post" /\ Accepted(r.call, "post") /\ r.call \in Calls
  BY DEF ServePost, IInv, IsolationInv, RequestsAccepted, TypeOK
<1>3. k \in Invocation /\ k.content \in Contents /\ k.user \in Users
  <2>1. k \in Invocation /\ "post" \in Stages(k.tool)
    BY <1>2 DEF Accepted
  <2>2. k.tool \in TakesContent
    BY <2>1, ContentTools, Mem0Assumption DEF Invocation
  <2> QED BY <1>2, <2>1, <2>2 DEF Accepted, Invocation
<1>4. fact \in Memories /\ fact.owner = k.user /\ fact.log \in Seq(Events)
  <2>1. [by |-> r.call, event |-> "add", content |-> k.content] \in Events
    BY <1>2, <1>3 DEF Events
  <2>2. Payload(k).user = k.user /\ Payload(k).scope \in StoredScopes
    BY <1>3, PayloadIsCallers
  <2> QED BY <1>3, <2>1, <2>2 DEF Memories
<1> HIDE DEF fact
<1>5. OwnersKept
  <2>1. mem \in Seq(Memories) /\ n \in Nat
    BY Mem0Assumption DEF IInv, TypeOK
  <2>2. mem' \in Seq(Memories)
    <3>1. Len(mem) + n \in Nat /\ DOMAIN mem = 1 .. Len(mem)
      BY <2>1
    <3>2. \A i \in 1 .. Len(mem) + n : (IF i \in DOMAIN mem THEN mem[i] ELSE fact) \in Memories
      BY <1>4, <2>1
    <3> QED BY <1>1, <3>1, <3>2
  <2> QED BY <1>1, <2>1, <2>2 DEF OwnersKept
<1>6. Honest(r, Response(200, made(n) \cup views(known)))
  <2>1. Len(mem) \in Nat /\ n \in Nat /\ TypeOK
    BY Mem0Assumption DEF IInv, TypeOK
  <2>2. \A m \in made(n) : m \in Item /\ m.owner = k.user
    BY <1>3, <1>4, <2>1 DEF Item
  <2>3. \A m \in views(known) : m \in Item /\ m.owner = k.user
    <3> SUFFICES ASSUME NEW i \in known PROVE View(i) \in Item /\ View(i).owner = k.user
      OBVIOUS
    <3>1. i \in DOMAIN mem /\ mem[i].owner = Payload(k).user
      BY DEF Addressed, Found
    <3> QED BY <1>3, <2>1, <3>1, MemoryFacts, PayloadIsCallers
  <2> DEFINE items == made(n) \cup views(known)
  <2>4. items \in SUBSET Item /\ \A m \in items : m.owner = k.user
    BY <2>2, <2>3
  <2> HIDE DEF items
  <2>5. Honest(r, Response(200, items))
    BY <1>2, <2>4 DEF Honest, Response, Fetches
  <2> QED BY <2>5 DEF items
<1>7. CASE Deliver(r, Response(200, made(n) \cup views(known)))
  BY <1>5, <1>6, <1>7, DeliverKeeps
<1>8. CASE Deliver(r, Response(200, {}))
  BY <1>5, <1>8, DeliverEmpty
<1> QED BY <1>1, <1>7, <1>8

LEMMA ServeWriteKeeps == ASSUME IInv, NEW r \in wire, ServeWrite(r) PROVE IInv'
<1> DEFINE k == call[r.call]
           entry == IF r.stage = "put" THEN Write(k.id, r.call, "update", k.content)
                    ELSE Write(k.id, r.call, "delete", Content(k.id))
<1>1. CASE Live(k.id)
  <2>1. mem' = [mem EXCEPT ![k.id] = entry] /\ Deliver(r, Response(200, {}))
    BY <1>1 DEF ServeWrite
  <2>2. k.id \in DOMAIN mem /\ r.call \in Calls /\ TypeOK
    BY <1>1 DEF Live, IInv, TypeOK
  <2>3. r.stage = "put" => k.content \in Contents
    <3> SUFFICES ASSUME r.stage = "put" PROVE k.content \in Contents
      OBVIOUS
    <3>1. Accepted(r.call, "put")
      BY DEF IInv, IsolationInv, RequestsAccepted
    <3>2. k.tool \in TakesContent
      BY <3>1, ContentTools, Mem0Assumption DEF Accepted, Invocation
    <3> QED BY <3>1, <3>2 DEF Accepted
  <2>4. entry \in Memories /\ entry.owner = mem[k.id].owner
    BY <2>2, <2>3, WriteFacts, MemoryFacts
  <2> HIDE DEF entry
  <2>5. OwnersKept
    BY <2>1, <2>2, <2>4 DEF OwnersKept, TypeOK
  <2> QED BY <2>1, <2>5, DeliverEmpty
<1>2. CASE ~Live(k.id)
  BY <1>2, SameMemKeepsOwners, DeliverEmpty DEF ServeWrite, DeliverMissing, IInv
<1> QED BY <1>1, <1>2

LEMMA ServeBulkKeeps == ASSUME IInv, NEW r \in wire, ServeBulk(r) PROVE IInv'
<1> DEFINE gone == Addressed(call[r.call])
<1>1. /\ mem' = [i \in DOMAIN mem |->
                   IF i \in gone THEN Write(i, r.call, "delete", Content(i)) ELSE mem[i]]
      /\ Deliver(r, Response(200, {}))
  BY DEF ServeBulk
<1>2. TypeOK /\ r.call \in Calls
  BY DEF IInv, TypeOK
<1> HIDE DEF gone
<1>3. \A i \in DOMAIN mem : mem'[i] \in Memories /\ mem'[i].owner = mem[i].owner
  <2> SUFFICES ASSUME NEW i \in DOMAIN mem
               PROVE  mem'[i] \in Memories /\ mem'[i].owner = mem[i].owner
    OBVIOUS
  <2> DEFINE buried == Write(i, r.call, "delete", Content(i))
  <2>1. buried \in Memories /\ buried.owner = mem[i].owner
    BY <1>2, WriteFacts, MemoryFacts
  <2>2. mem[i] \in Memories
    BY <1>2, MemoryFacts
  <2> HIDE DEF buried
  <2>3. mem'[i] = IF i \in gone THEN buried ELSE mem[i]
    BY <1>1 DEF buried
  <2> QED BY <2>1, <2>2, <2>3
<1>4. OwnersKept
  BY <1>1, <1>2, <1>3 DEF OwnersKept, TypeOK
<1> QED BY <1>1, <1>4, DeliverEmpty

(* The entities of a memory are well-formed. *)
LEMMA EntitiesTyped == ASSUME NEW m \in Memories PROVE EntitiesOf(m) \subseteq Item
<1>1. m.owner \in Users /\ m.scope \in StoredScopes
  BY DEF Memories
<1>2. [type |-> "user_id", id |-> m.owner] \in Entity
  BY <1>1 DEF Entity
<1>3. ASSUME NEW k \in DOMAIN m.scope PROVE [type |-> k, id |-> m.scope[k]] \in Entity
  <2>1. k \in UNION {DOMAIN s : s \in StoredScopes}
    BY <1>1
  <2>2. m.scope[k] \in UNION {{s[key] : key \in DOMAIN s} : s \in StoredScopes}
    BY <1>1
  <2> QED BY <2>1, <2>2 DEF Entity
<1> QED BY <1>2, <1>3 DEF EntitiesOf, Item

LEMMA ServeReadKeeps == ASSUME IInv, NEW r \in wire, ServeRead(r) PROVE IInv'
<1> DEFINE k == call[r.call]
           found == {View(i) : i \in Addressed(k)}
<1>1. OwnersKept /\ mem' = mem /\ TypeOK
  BY SameMemKeepsOwners DEF ServeRead, IInv
<1>2. Accepted(r.call, r.stage) /\ k \in Invocation
  BY DEF IInv, IsolationInv, RequestsAccepted, Accepted
<1>3. \A m \in found : m \in Item /\ m.owner = k.user
  <2>1. Payload(k).user = k.user
    BY <1>2, PayloadIsCallers
  <2> QED BY <1>1, <2>1, MemoryFacts DEF Addressed, Found
<1> HIDE DEF found
<1>4. CASE r.stage \in {"list", "search"}
  <2>1. PICK hits \in SUBSET found : Deliver(r, Response(200, hits))
    BY <1>4 DEF ServeRead, found
  <2>2. Honest(r, Response(200, hits))
    BY <1>3, <1>4, <2>1 DEF Honest, Response, Fetches
  <2> QED BY <1>1, <2>1, <2>2, DeliverKeeps
<1>5. CASE r.stage = "entities"
  <2> DEFINE named == UNION {EntitiesOf(mem[i]) : i \in {j \in DOMAIN mem : Live(j)}}
  <2>1. Deliver(r, Response(200, named))
    BY <1>5 DEF ServeRead
  <2>2. named \in SUBSET Item
    <3>1. \A i \in DOMAIN mem : EntitiesOf(mem[i]) \subseteq Item
      BY <1>1, MemoryFacts, EntitiesTyped
    <3> QED BY <3>1
  <2> HIDE DEF named
  <2>3. Honest(r, Response(200, named))
    BY <1>5, <2>2 DEF Honest, Response, Fetches
  <2> QED BY <1>1, <2>1, <2>3, DeliverKeeps
<1>6. CASE r.stage = "history"
  <2> DEFINE log == {View(i) : i \in DOMAIN mem \cap {k.id}}
  <2>1. Deliver(r, Response(200, log))
    BY <1>6 DEF ServeRead
  <2>2. Verified(r.call)
    BY <1>6 DEF IInv, IsolationInv, WritesVerified
  <2>3. \A m \in log : m \in Item /\ m.owner = k.user
    BY <1>1, <2>2, MemoryFacts DEF Verified
  <2>4. Honest(r, Response(200, log))
    BY <1>6, <2>3 DEF Honest, Response, Fetches
  <2> QED BY <1>1, <2>1, <2>4, DeliverKeeps
<1> QED BY <1>4, <1>5, <1>6 DEF ServeRead

(* Whatever mem0 does keeps the invariant. *)
LEMMA ServerKeeps == ASSUME IInv, Server PROVE IInv'
<1>1. PICK r \in wire : \/ ServeGet(r) \/ ServePost(r) \/ ServeWrite(r)
                        \/ ServeBulk(r) \/ ServeRead(r) \/ Refuse(r)
  BY DEF Server
<1>2. Refuse(r) => IInv'
  BY SameMemKeepsOwners, DeliverEmpty DEF Refuse, IInv
<1> QED
  BY <1>1, <1>2, ServeGetKeeps, ServePostKeeps, ServeWriteKeeps, ServeBulkKeeps, ServeReadKeeps

-----------------------------------------------------------------------------
(* The tool calls *)

(* Every status maps to an error code the clients know. *)
LEMMA ToolErrorTyped ==
  ASSUME NEW tool, NEW status \in Nat
  PROVE  ToolError(tool, status).code \in Codes /\ ToolError(tool, status).retry \in BOOLEAN
<1>1. BackendError(status).code \in Codes /\ BackendError(status).retry \in BOOLEAN
  <2>1. CASE status = 408
    BY <2>1 DEF BackendError, Codes
  <2>2. CASE status # 408
    <3>1. BackendError(status) = [code |-> "backend_error", retry |-> status >= 500]
      BY <2>2 DEF BackendError
    <3>2. (status >= 500) \in BOOLEAN
      OBVIOUS
    <3> QED BY <3>1, <3>2 DEF Codes
  <2> QED BY <2>1, <2>2
<1>2. CASE tool \in ByIdTools /\ status \in {404, 410}
  BY <1>2 DEF ToolError, Codes
<1>3. CASE ~(tool \in ByIdTools /\ status \in {404, 410})
  BY <1>1, <1>3 DEF ToolError
<1> QED BY <1>2, <1>3

(* What a call that has not returned may return. *)
LEMMA OutcomeTyped ==
  ASSUME TypeOK, NEW c \in Calls, pc[c] # "done",
         NEW code \in Codes, NEW retry \in BOOLEAN, NEW items \in SUBSET Item
  PROVE  /\ Outcome(c, code, retry, items) \in Outcomes
         /\ Outcome(c, code, retry, items).items = items
  BY DEF Outcome, Outcomes, TypeOK

LEMMA RaiseKeeps ==
  ASSUME IInv, NEW c \in Calls, NEW status \in Nat, pc[c] \in Waiting,
         Raise(c, status), UNCHANGED <<mem, call>>
  PROVE  IInv'
<1> DEFINE e == ToolError(call[c].tool, status)
           outcome == Outcome(c, e.code, e.retry, {})
<1>1. e.code \in Codes /\ e.retry \in BOOLEAN
  BY ToolErrorTyped
<1> HIDE DEF e
<1>2. Return(c, outcome)
  BY DEF Raise, e
<1>3. pc[c] # "done" /\ pc[c] # "idle"
  BY DEF Waiting
<1>4. outcome \in Outcomes /\ outcome.items = {}
  BY <1>1, <1>3, OutcomeTyped DEF IInv
<1> HIDE DEF outcome
<1> QED BY <1>2, <1>3, <1>4, ReturnKeeps

LEMMA OkKeeps ==
  ASSUME IInv, NEW c \in Calls, NEW items \in SUBSET Item, pc[c] \in Waiting,
         \A m \in items : Own(c, m),
         Return(c, Outcome(c, "ok", FALSE, items)), UNCHANGED <<mem, call>>
  PROVE  IInv'
<1> DEFINE outcome == Outcome(c, "ok", FALSE, items)
<1>1. pc[c] # "done" /\ pc[c] # "idle"
  BY DEF Waiting
<1>2. outcome \in Outcomes /\ outcome.items = items
  <2>1. "ok" \in Codes /\ TypeOK
    BY DEF Codes, IInv
  <2> QED BY <1>1, <2>1, OutcomeTyped
<1> HIDE DEF outcome
<1>3. Return(c, outcome)
  BY DEF outcome
<1> QED BY <1>1, <1>2, <1>3, ReturnKeeps

(* What a client may ask for is a well-formed invocation, and an id in it  *)
(* is one mem0 has or one that never comes to exist.                       *)
LEMMA InvocationTyped ==
  ASSUME TypeOK, NEW tool \in Tools, NEW u \in Users, NEW k \in Invocations(tool, u)
  PROVE  /\ k \in Invocation /\ k.tool = tool /\ tool \in AllTools
         /\ k.rest \in Rest(tool) /\ k.id \in Ids \cup {Null}
<1>1. Ids \subseteq Nat \cup {BadId}
  BY DEF Ids, TypeOK
<1>2. k.tool = tool /\ k.rest \in Rest(tool) /\ k.id \in Ids \cup {Null}
  BY DEF Invocations
<1>3. Rest(tool) \subseteq {"good", "bad", "bad_cursor"}
  BY DEF Rest
<1>4. k \in Invocation
  BY <1>1, <1>3 DEF Invocations, Invocation
<1> QED BY <1>2, <1>4, Mem0Assumption

LEMMA InvokeKeeps == ASSUME IInv, NEW c \in Calls, Invoke(c) PROVE IInv'
<1> USE DEF IInv, IsolationInv
<1>0. PICK tool \in Tools, u \in Users : \E k \in Invocations(tool, u) :
        /\ call' = [call EXCEPT ![c] = k]
        /\ \/ Verdict(k) = "ok" /\ Send(c, FirstRequest[tool]) /\ UNCHANGED result
           \/ Verdict(k) # "ok" /\ Return(c, Outcome(c, Verdict(k), FALSE, {}))
  BY DEF Invoke
<1>1. PICK k \in Invocations(tool, u) :
        /\ call' = [call EXCEPT ![c] = k]
        /\ \/ Verdict(k) = "ok" /\ Send(c, FirstRequest[tool]) /\ UNCHANGED result
           \/ Verdict(k) # "ok" /\ Return(c, Outcome(c, Verdict(k), FALSE, {}))
  BY <1>0
<1>2. pc[c] = "idle" /\ mem' = mem /\ TypeOK
  BY DEF Invoke
<1>3. k \in Invocation /\ k.tool = tool /\ tool \in AllTools /\ k.rest \in Rest(tool)
  BY <1>2, InvocationTyped
<1>4. \A r \in wire : r.call # c
  BY <1>2 DEF RequestsAccepted
<1>5. call' \in [Calls -> Invocation \cup {Null}]
  BY <1>1, <1>2, <1>3 DEF TypeOK
<1>6. \A d \in Calls : d # c => call'[d] = call[d]
  BY <1>1, <1>2 DEF TypeOK
<1>7. answer' = [answer EXCEPT ![c] = NoAnswer] /\ result[c] = NoResult
  BY <1>1, <1>2 DEF Send, Return, IdleIsBlank
<1>8. CASE Verdict(k) = "ok" /\ Send(c, FirstRequest[tool]) /\ UNCHANGED result
  <2> DEFINE stage == FirstRequest[tool]
  <2>1. stage \in Waiting /\ stage \in Stages(tool) /\ stage \notin {"put", "delete", "history"}
    BY <1>3, StagesTyped DEF Stages
  <2>2. tool \in TakesContent => k.content \in Contents
    BY <1>3, <1>8 DEF Verdict, ContentVerdict, Check, AndThen
  <2>3. call'[c] = k /\ Accepted(c, stage)'
    BY <1>1, <1>2, <1>3, <2>1, <2>2 DEF Accepted, TypeOK
  <2> HIDE DEF stage
  <2>4. /\ pc' = [pc EXCEPT ![c] = stage]
        /\ wire' = wire \cup {[call |-> c, stage |-> stage]}
        /\ result' = result
    BY <1>8 DEF Send, stage
  <2>5. TypeOK'
    BY <1>2, <1>5, <1>7, <2>1, <2>4 DEF TypeOK, NoAnswer, Response
  <2>6. IdleIsBlank'
    BY <1>2, <1>7, <2>1, <2>4 DEF IdleIsBlank, TypeOK, Waiting
  <2>7. WaitersAccepted'
    BY <1>2, <1>6, <2>3, <2>4 DEF WaitersAccepted, Accepted, TypeOK
  <2>8. RequestsAccepted'
    <3> SUFFICES ASSUME NEW r \in wire' PROVE pc'[r.call] # "idle" /\ Accepted(r.call, r.stage)'
      BY DEF RequestsAccepted
    <3>1. CASE r \in wire
      BY <1>2, <1>4, <1>6, <2>4, <3>1 DEF RequestsAccepted, Accepted, TypeOK
    <3>2. CASE r = [call |-> c, stage |-> stage]
      BY <1>2, <2>1, <2>3, <2>4, <3>2 DEF TypeOK, Waiting
    <3> QED BY <2>4, <3>1, <3>2
  <2>9. WritesVerified'
    BY <1>2, <1>4, <1>6, <2>1, <2>4 DEF WritesVerified, Verified, TypeOK
  <2>10. FetchIsExact' /\ AnswersAreOwn'
    BY <1>2, <1>6, <1>7, <2>4 DEF FetchIsExact, AnswersAreOwn, TypeOK, NoAnswer, Response
  <2>11. NoLeak'
    BY <1>2, <1>6, <1>7, <2>4 DEF NoLeak, Own, NoResult, TypeOK
  <2> QED BY <2>5, <2>6, <2>7, <2>8, <2>9, <2>10, <2>11
<1>9. CASE Verdict(k) # "ok" /\ Return(c, Outcome(c, Verdict(k), FALSE, {}))
  <2> DEFINE outcome == Outcome(c, Verdict(k), FALSE, {})
  <2>1. Verdict(k) \in Codes
    BY DEF Verdict, ContentVerdict, ScopeVerdict, IdVerdict, Check, AndThen, Codes
  <2>2. outcome \in Outcomes /\ outcome.items = {}
    BY <1>2, <2>1, OutcomeTyped
  <2> HIDE DEF outcome
  <2>3. /\ pc' = [pc EXCEPT ![c] = "done"] /\ wire' = wire
        /\ result' = [result EXCEPT ![c] = outcome]
    BY <1>9 DEF Return, outcome
  <2>4. TypeOK'
    BY <1>2, <1>5, <1>7, <2>2, <2>3 DEF TypeOK, NoAnswer, Response
  <2>5. IdleIsBlank' /\ WaitersAccepted' /\ RequestsAccepted'
    BY <1>2, <1>4, <1>6, <1>7, <2>3
    DEF IdleIsBlank, WaitersAccepted, RequestsAccepted, Accepted, TypeOK, Waiting
  <2>6. WritesVerified' /\ FetchIsExact' /\ AnswersAreOwn'
    BY <1>2, <1>4, <1>6, <1>7, <2>3
    DEF WritesVerified, Verified, FetchIsExact, AnswersAreOwn, TypeOK, NoAnswer, Response, Fetches
  <2>7. NoLeak'
    BY <1>2, <1>6, <2>2, <2>3 DEF NoLeak, Own, TypeOK
  <2> QED BY <2>4, <2>5, <2>6, <2>7
<1> QED BY <1>1, <1>8, <1>9

LEMMA ResumeVerifyKeeps == ASSUME IInv, NEW c \in Calls, ResumeVerify(c), UNCHANGED mem PROVE IInv'
<1>1. pc[c] = "verify" /\ pc[c] \in Waiting /\ UNCHANGED <<mem, call>>
  BY DEF ResumeVerify, Waiting
<1>2. CASE Fetched(c) = {} /\ Raise(c, 404)
  BY <1>1, <1>2, RaiseKeeps
<1>3. CASE Fetched(c) # {} /\ Send(c, Guarded[call[c].tool]) /\ UNCHANGED result
  <2> DEFINE next == Guarded[call[c].tool]
  <2>1. Accepted(c, "verify")
    BY <1>1 DEF IInv, IsolationInv, WaitersAccepted, Waiting
  <2>2. call[c].tool \in AllTools /\ "verify" \in Stages(call[c].tool)
    BY <2>1, Mem0Assumption DEF Accepted, Invocation
  <2>3. next \in Waiting /\ next \in Stages(call[c].tool)
    BY <2>2 DEF AllTools, FirstRequest, Guarded, Stages, Waiting
  <2>4. Accepted(c, next)
    BY <2>1, <2>3 DEF Accepted
  <2>5. Verified(c)
    BY <1>1, <1>3 DEF IInv, IsolationInv, FetchIsExact, Fetches, Fetched, Verified
  <2> HIDE DEF next
  <2>6. Send(c, next) /\ UNCHANGED <<mem, call, result>>
    BY <1>1, <1>3 DEF next
  <2> QED BY <1>1, <2>3, <2>4, <2>5, <2>6, SendKeeps
<1> QED BY <1>2, <1>3 DEF ResumeVerify

(* Whatever a call does with a response keeps the invariant. *)
LEMMA ResumeKeeps == ASSUME IInv, NEW c \in Calls, Resume(c) PROVE IInv'
<1>1. mem' = mem /\ TypeOK
  BY DEF Resume, IInv
<1>2. answer[c].status \in Nat /\ answer[c].items \in SUBSET Item
  <2>1. answer[c] \in [status : {0, 200, 404, 410} \cup Statuses, items : SUBSET Item]
    BY <1>1 DEF TypeOK
  <2>2. answer[c].status \in {0, 200, 404, 410} \cup Statuses /\ answer[c].items \subseteq Item
    BY <2>1
  <2>3. \A status \in Statuses : status \in Nat
    BY Mem0Assumption
  <2> QED BY <2>2, <2>3
<1>3. pc[c] \notin Waiting => answer[c].status = 0
  <2>1. pc[c] \notin Waiting => answer[c] = NoAnswer
    BY DEF IInv, IsolationInv, IdleIsBlank
  <2> QED BY <2>1 DEF NoAnswer, Response
<1>4. ASSUME ResumeError(c) PROVE IInv'
  BY <1>1, <1>2, <1>3, <1>4, RaiseKeeps DEF ResumeError
<1>5. ASSUME ResumePut(c) PROVE IInv'
  <2>1. pc[c] = "put" /\ Accepted(c, "put") /\ Send(c, "readback") /\ UNCHANGED <<mem, call, result>>
    BY <1>1, <1>5 DEF ResumePut, IInv, IsolationInv, WaitersAccepted, Waiting
  <2>2. call[c].tool \in AllTools /\ "put" \in Stages(call[c].tool)
    BY <2>1, Mem0Assumption DEF Accepted, Invocation
  <2>3. "readback" \in Stages(call[c].tool)
    BY <2>2 DEF AllTools, FirstRequest, Guarded, Stages
  <2>4. Accepted(c, "readback") /\ "readback" \in Waiting
    BY <2>1, <2>3 DEF Accepted, Waiting
  <2> QED BY <2>1, <2>4, SendKeeps
<1>6. ASSUME pc[c] \in Waiting
      PROVE  call[c].tool = "memory_entities" <=> pc[c] = "entities"
  <2>1. Accepted(c, pc[c])
    BY <1>6 DEF IInv, IsolationInv, WaitersAccepted
  <2>2. call[c].tool \in AllTools /\ pc[c] \in Stages(call[c].tool)
    BY <2>1, Mem0Assumption DEF Accepted, Invocation
  <2> QED BY <2>2, EntitiesTool
<1>7. ASSUME ResumeFetch(c) PROVE IInv'
  <2>1. pc[c] \in Waiting /\ pc[c] # "entities" /\ UNCHANGED <<mem, call>>
    BY <1>1, <1>7 DEF ResumeFetch, Waiting
  <2>2. CASE Raise(c, 404) \/ Raise(c, 503)
    BY <2>1, <2>2, RaiseKeeps
  <2>3. CASE Return(c, Outcome(c, "ok", FALSE, Fetched(c)))
    <3>1. Fetched(c) \in SUBSET Item /\ \A m \in Fetched(c) : Own(c, m)
      BY <1>2, <1>6, <2>1 DEF Fetched, Own
    <3> QED BY <2>1, <2>3, <3>1, OkKeeps
  <2> QED BY <1>7, <2>2, <2>3 DEF ResumeFetch
<1>8. ASSUME ResumeLast(c) PROVE IInv'
  <2> DEFINE items == IF pc[c] = "entities" THEN Named(c) ELSE answer[c].items
  <2>1. pc[c] \in Waiting \ Fetches /\ UNCHANGED <<mem, call>>
    BY <1>1, <1>8 DEF ResumeLast, Waiting, Fetches
  <2>2. items \in SUBSET Item /\ \A m \in items : Own(c, m)
    <3>1. CASE pc[c] = "entities"
      BY <1>2, <1>6, <2>1, <3>1 DEF Named, Own
    <3>2. CASE pc[c] # "entities"
      <4>1. \A m \in answer[c].items : m.owner = call[c].user
        BY <2>1, <3>2 DEF IInv, IsolationInv, AnswersAreOwn
      <4> QED BY <1>2, <1>6, <2>1, <3>2, <4>1 DEF Own
    <3> QED BY <3>1, <3>2
  <2> HIDE DEF items
  <2>3. CASE Return(c, Outcome(c, "ok", FALSE, items))
    BY <2>1, <2>2, <2>3, OkKeeps
  <2>4. CASE Return(c, Outcome(c, "validation_error", FALSE, {}))
    <3> DEFINE outcome == Outcome(c, "validation_error", FALSE, {})
    <3>1. pc[c] # "done" /\ pc[c] # "idle"
      BY <2>1 DEF Waiting
    <3>2. outcome \in Outcomes /\ outcome.items = {}
      <4>1. "validation_error" \in Codes
        BY DEF Codes
      <4> QED BY <1>1, <3>1, <4>1, OutcomeTyped
    <3> HIDE DEF outcome
    <3>3. Return(c, outcome)
      BY <2>4 DEF outcome
    <3> QED BY <2>1, <3>1, <3>2, <3>3, ReturnKeeps
  <2> QED BY <1>8, <2>3, <2>4 DEF ResumeLast, items
<1> QED BY <1>4, <1>5, <1>7, <1>8, <1>1, ResumeVerifyKeeps DEF Resume

LEMMA GiveUpKeeps ==
  ASSUME IInv, NEW c \in Calls, Timeout(c) \/ NetworkError(c) PROVE IInv'
<1>1. PICK status \in Nat : GiveUp(c, status)
  BY DEF Timeout, NetworkError
<1>2. pc[c] \in Waiting
  BY <1>1 DEF GiveUp
<1> QED BY <1>1, <1>2, RaiseKeeps DEF GiveUp

LEMMA StutterKeeps == ASSUME IInv, UNCHANGED vars PROVE IInv'
<1> USE DEF vars, IInv, IsolationInv
<1>1. TypeOK'
  BY DEF TypeOK
<1>2. IdleIsBlank' /\ WaitersAccepted' /\ RequestsAccepted'
  BY DEF IdleIsBlank, WaitersAccepted, RequestsAccepted, Accepted
<1>3. WritesVerified' /\ FetchIsExact' /\ AnswersAreOwn' /\ NoLeak'
  BY DEF WritesVerified, Verified, FetchIsExact, AnswersAreOwn, NoLeak, Own
<1> QED BY <1>1, <1>2, <1>3

LEMMA Inductive == IInv /\ [Next]_vars => IInv'
<1> SUFFICES ASSUME IInv, [Next]_vars PROVE IInv'
  OBVIOUS
<1>1. ASSUME NEW c \in Calls, Invoke(c) PROVE IInv'
  BY <1>1, InvokeKeeps
<1>2. ASSUME NEW c \in Calls, Timeout(c) \/ NetworkError(c) PROVE IInv'
  BY <1>2, GiveUpKeeps
<1>3. ASSUME NEW c \in Calls, Resume(c) PROVE IInv'
  BY <1>3, ResumeKeeps
<1>4. CASE Server
  BY <1>4, ServerKeeps
<1>5. CASE Quiet \/ UNCHANGED vars
  BY <1>5, StutterKeeps DEF Quiet
<1> QED BY <1>1, <1>2, <1>3, <1>4, <1>5 DEF Next

(* The inductive invariant holds in every reachable state: whatever the    *)
(* tenants, calls and memories, in whatever order requests are served.     *)
THEOREM Invariance == Spec => []IInv
  BY Initially, Inductive, PTL DEF Spec

(* Type correctness of the adapter and of the mem0 it talks to. *)
THEOREM TypeCorrect == Spec => []TypeOK
<1>1. IInv => TypeOK
  BY DEF IInv
<1> QED BY <1>1, Invariance, PTL

(* No tool ever returns a memory or a log of another tenant, nor an entity *)
(* that does not bear the caller's name.                                   *)
THEOREM NoLeakage == Spec => []NoLeak
<1>1. IInv => NoLeak
  BY DEF IInv, IsolationInv
<1> QED BY <1>1, Invariance, PTL

(* The invariant the isolation argument rests on, as the runs check it.    *)
THEOREM IsolationInvariant == Spec => []IsolationInv
<1>1. IInv => IsolationInv
  BY DEF IInv
<1> QED BY <1>1, Invariance, PTL

-----------------------------------------------------------------------------
(* Tenant isolation *)

(* A served request passed its checks, and carries its caller's user_id.   *)
LEMMA ServedFacts ==
  ASSUME IInv, NEW r \in wire
  PROVE  /\ call[r.call] \in Invocation
         /\ Payload(call[r.call]).user = call[r.call].user
         /\ Payload(call[r.call]).scope \in StoredScopes
         /\ Accepted(r.call, r.stage)
         /\ r.call \in Calls
  BY PayloadIsCallers DEF IInv, IsolationInv, RequestsAccepted, Accepted, TypeOK

LEMMA ServedByDeliver ==
  ASSUME NEW r \in wire, NEW response, Deliver(r, response) PROVE r \in Served
  BY DEF Deliver, Served

LEMMA QuietStepIsIsolated == ASSUME UNCHANGED mem PROVE StepIsIsolated
  BY DEF StepIsIsolated

LEMMA WriteIsIsolated == ASSUME IInv, NEW r \in wire, ServeWrite(r) PROVE StepIsIsolated
<1> DEFINE k == call[r.call]
<1>1. CASE Live(k.id)
  <2>1. PICK entry : mem' = [mem EXCEPT ![k.id] = entry] /\ Deliver(r, Response(200, {}))
    BY <1>1 DEF ServeWrite
  <2>2. r \in Served
    BY <2>1, ServedByDeliver
  <2>3. mem[k.id].owner = k.user
    BY DEF ServeWrite, IInv, IsolationInv, WritesVerified, Verified
  <2>4. DOMAIN mem' = DOMAIN mem /\ \A i \in DOMAIN mem : i # k.id => mem'[i] = mem[i]
    BY <2>1
  <2> QED BY <2>2, <2>3, <2>4 DEF StepIsIsolated
<1>2. CASE ~Live(k.id)
  BY <1>2, QuietStepIsIsolated DEF ServeWrite
<1> QED BY <1>1, <1>2

LEMMA PostIsIsolated == ASSUME IInv, NEW r \in wire, ServePost(r) PROVE StepIsIsolated
<1> DEFINE k == call[r.call]
           fact == [owner |-> Payload(k).user, scope |-> Payload(k).scope,
                    log |-> <<[by |-> r.call, event |-> "add", content |-> k.content]>>]
<1>1. fact.owner = k.user
  BY ServedFacts
<1>2. PICK n \in 0 .. MaxFacts :
        mem' = [i \in 1 .. Len(mem) + n |-> IF i \in DOMAIN mem THEN mem[i] ELSE fact]
  BY DEF ServePost
<1>3. r \in Served
  BY ServedByDeliver DEF ServePost
<1> HIDE DEF fact
<1>4. \A i \in DOMAIN mem : i \in DOMAIN mem' /\ mem'[i] = mem[i]
  <2>1. Len(mem) \in Nat /\ n \in Nat /\ DOMAIN mem = 1 .. Len(mem)
    BY Mem0Assumption DEF IInv, TypeOK
  <2> QED BY <1>2, <2>1
<1>5. \A i \in DOMAIN mem' \ DOMAIN mem : mem'[i] = fact
  BY <1>2
<1> QED BY <1>1, <1>3, <1>4, <1>5 DEF StepIsIsolated

LEMMA BulkIsIsolated == ASSUME IInv, NEW r \in wire, ServeBulk(r) PROVE StepIsIsolated
<1> DEFINE k == call[r.call]
<1>1. mem' = [i \in DOMAIN mem |->
                IF i \in Addressed(k) THEN Write(i, r.call, "delete", Content(i)) ELSE mem[i]]
  BY DEF ServeBulk
<1>2. r \in Served
  BY ServedByDeliver DEF ServeBulk
<1>3. \A i \in Addressed(k) : mem[i].owner = k.user
  BY ServedFacts DEF Addressed, Found
<1> QED BY <1>1, <1>2, <1>3 DEF StepIsIsolated

LEMMA NextIsIsolated == IInv /\ [Next]_vars => [StepIsIsolated]_vars
<1> SUFFICES ASSUME IInv, Next PROVE StepIsIsolated
  OBVIOUS
<1>1. ASSUME NEW c \in Calls, Invoke(c) \/ Timeout(c) \/ NetworkError(c) \/ Resume(c)
      PROVE  StepIsIsolated
  BY <1>1, QuietStepIsIsolated DEF Invoke, Timeout, NetworkError, GiveUp, Resume
<1>2. CASE Server
  <2>1. PICK r \in wire : \/ ServeGet(r) \/ ServePost(r) \/ ServeWrite(r)
                          \/ ServeBulk(r) \/ ServeRead(r) \/ Refuse(r)
    BY <1>2 DEF Server
  <2>2. ServeGet(r) \/ ServeRead(r) \/ Refuse(r) => StepIsIsolated
    BY QuietStepIsIsolated DEF ServeGet, ServeRead, Refuse
  <2> QED BY <2>1, <2>2, PostIsIsolated, WriteIsIsolated, BulkIsIsolated
<1>3. CASE Quiet
  BY <1>3, QuietStepIsIsolated DEF Quiet, vars
<1> QED BY <1>1, <1>2, <1>3 DEF Next

(* Tenant isolation: no step changes a memory but on a request of its      *)
(* owner, for every interleaving of owner checks, writes, late requests    *)
(* and failures of any number of calls.                                    *)
THEOREM Isolation == Spec => TenantIsolation
<1>1. Spec => []IInv /\ [][Next]_vars
  BY Invariance, PTL DEF Spec
<1> QED BY <1>1, NextIsIsolated, PTL DEF TenantIsolation

=============================================================================

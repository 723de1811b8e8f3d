# memcp in TLA+

TLA+ models, TLC runs and TLAPS proofs for memcp, an MCP server that gives
assistants a long-term memory. Source paths below are relative to the
repository's root.

## The system

A client calls MCP tools over HTTP. A bearer token names the tenant; the tool
validates its arguments and calls one of two backends: a mem0 server reached
over REST, or dicts in the process. Everything runs on one asyncio event loop,
so a call is interrupted only where it awaits I/O. The in-memory backend never
does; the mem0 adapter does at each HTTP request.

| Component | State | Operations | Module |
|---|---|---|---|
| `memcp/types.py` | none | validators, error codes, `paginate` | `Requests`, `Pagination`, `PageWalk` |
| `memcp/tools.py` | none of its own | twelve tools: check, call the backend, map errors | `Requests` and both backend modules; `ImportMemories` |
| `memcp/backend/base.py` | none | the contract of a backend | `TenantStore` |
| `memcp/backend/in_memory.py` | `_store`, `_history` | add, search, get, update, delete, delete_all, list, history, entities, close | `InMemoryBackend` |
| `memcp/backend/mem0.py` | an HTTP client; the memories are mem0's | the same, in one to three requests each | `Mem0Backend` |
| `memcp/auth.py` | the tenant context variable, the token table | resolve, set, reset | `Server` |
| `memcp/server.py`, `config.py`, `__main__.py` | the lifespan | start, health, close | `Server` |
| `memcp/logging.py` | none | formatting | not modelled |

What makes each part correct:

- tools: an error code is the truth (`not_found`, `retry`), a success means the
  call took effect, a refused argument reaches no backend;
- import: its answer accounts for every entry and tells the truth about each,
  with an index that is stale from the first entry on and adds that may still
  happen after they failed;
- pages: what a walk repeats or misses is no more than the changes behind its
  back explain;
- in-memory backend: the two dicts tell one story; a tenant sees and changes
  only its own memories; a search cut at its limit keeps the best;
- mem0 adapter: tenant isolation although mem0's endpoints by id are global and
  the owner check is a request of its own; sensible answers in every race of
  two calls; no call waits for ever;
- authentication: concurrent requests never see each other's tenant; nothing
  runs without one unless authentication is off;
- server: it starts only with a token setting it understands, and it stops when
  told to, whatever is in flight.

What is hard to test: interleavings between the requests of a call, requests
that mem0 serves after the call gave up, a timeout that hides whether the write
happened, and stores that only a long series of calls reaches. `PROJECT.json`
lists these hazards line by line with the properties that cover them.

## The modules

`Requests` has no state. It holds what both backend modules need of `types.py`
and `tools.py`: the verdict of each validator (an error code, or `"ok"`), the
scope rules (`_validate_scope`, the wildcard rule `_norm`, the matching of a
scope), and the mapping from a backend status to the answer (`BackendError`,
`ToolError`). A scope is a function from keys to values; a string is a model
value in the class the code puts it in: accepted or bad content, allowed,
nested or overlong key, wildcard, overlong, or non-scalar value.

`Pagination` is `paginate` with Python's slice rules, negative cursors included.

`TenantStore` is the abstract specification: a pool of memories with an owner, a
scope and a text. A step is what one of the tool calls in `asked` asked for: an add
creates memories of its caller under the scope it named, an update replaces the text
of the memory whose id it gave, if that is the caller's, a delete removes that
memory, a bulk delete removes nothing that is not the caller's or not in the scope
it named, and a closed backend may forget everything. `asked` is an input: the call
just answered for the in-memory backend, every call that started for mem0, where
requests outlive their calls.

`InMemoryBackend` makes each tool one action, from the first check to the
answer: no method of the class awaits, so the event loop cannot switch in
between. `store` and `history` are the two dicts, `nextId` stands for `uuid4`
(fresh ids; the numbers keep the insertion order that Python dicts have), and
`reply` records the last call and its answer for the properties. The clock is
any element of `Times`, in any order. `Score[query][content]` stands for the
word count of `search`. `InOrder` sorts: it puts an element where the number of its
predecessors says, a form the proofs can reason about. No action reads `reply`, so two runs drop it from the
state with `VIEW StoreView`; both check invariants that do not depend on it
beyond its type, and action properties, which TLC evaluates on every
transition.

`Mem0Backend` gives each tool call a program counter. `Invoke` is the tool up to
its first request. `pc[c]` is the request call `c` waits for; the `Resume`
actions are the code between two awaits; `Timeout` and `NetworkError` are the
two `except` branches of `_request`. `wire` holds the requests mem0 has not
served. A request stays there when its call gives up, and mem0 may serve it
then, later or never: that is what a timeout leaves open. `answer[c]` is the
response on its way back, dropped when nobody waits for it. mem0 is not in the
repository; its actions (`Serve...`, `Refuse`) are the least the adapter relies
on: PUT and DELETE by id hit any owner's memory, POST with extraction stores any
number of facts and answers with what it made, together with any memories of the
tenant it took them for (mem0 deduplicates; the adapter does not look at the event
of a result), or with a body that names nothing (mem0.py:137-142), a missing id
answers 404, 410 or an empty body ("null-as-not-found", mem0.py:4), `/entities`
ignores the user and lists users, agents and runs alike, whose names their clients
chose, any request may be refused with any status of `Statuses`. 404 and 410 are not among those: that mem0
says them only of a memory it does not have is what the tools take them for, and
`NotFoundIsTrue` rests on it. `mem` keeps dead memories with their log, which
`/history` may still serve; each log entry names the call that wrote it, so that
properties can ask whose write an answer shows.

Of query, limit, threshold and cursor `Mem0Backend` keeps the verdict alone
(`rest`), and a listing answers the whole list where the code cuts a page of it;
their effect is the subject of `InMemoryBackend`, where the same tools run. Also
left out of `Mem0Backend`: metadata and `infer` (passed through), `health` (a
read whose content is dropped), a body that is not JSON, and a call cancelled
because its client disconnected.

`ImportMemories` is one call of `import_memories` against a backend that anything
else may use meanwhile, other imports included. `stage` says where the call is:
in the loop between two awaits, or waiting for the listing, an add or an update.
`existing` is the dedup index, `report` the three lists of the answer, `pos` the
entry at hand. The backend is reduced to what one call of it may do, which is
what `Mem0Backend` and `TenantStore` establish in detail: the effect comes at one
moment; a call that fails may have had it, may have it later (`late`), or never;
an update hits only a live memory of the caller. A memory is its log of writes,
each marked with the batch entry it was made for, so that properties can ask what
the import did. `ChokeOnEntry` and `Abort` are the exceptions the loop does not
catch: a scope that is no dict, a 200 answer that is no JSON, a cancelled call.
`Export` feeds the import what `export_memories` would answer at that moment.
An add stores one memory or none: the import passes `infer=False`, and with it
mem0 does not split a text into facts. The scope of an entry is known by its
verdict; metadata is passed through.

`PageWalk` is a client that asks `list_memories` for page after page while other
calls add and delete. It uses `Pagination` unchanged. In-memory adds go to the
end of the list; where mem0 puts a new memory in its list is its own business, so
there it is any place; the memories that stay are assumed to keep their order, which
nothing in the repository says of mem0. `inserts` and `deletes` count the changes in front of the
cursor.

`Server` is the process from its environment to its end. `Start` is `Config()`,
`create_app` and `StaticResolver.from_env` together: the token setting is a
sequence of parts, each with or without a colon and with possibly blank sides,
and the table maps each token to the user of its last pair. `Gate` is the
`BearerGate` up to the call of the app (no await suspends before it, as
`StaticResolver.resolve` only computes), `Leave` its `finally`. `context[r]` is the
context variable in the context of request `r`; the tool of a stateless FastMCP
runs in a task that starts with a copy of it and may outlive the request when the
client hangs up. `Close` and `Cancel` are the two halves of the lifespan's end, in
the order server.py:104-108 gives them. What uvicorn and FastMCP do (a context for
each request, draining requests before the lifespan ends, cancelling the rest)
is external and taken as their documentation has it.

The modules named `..._proofs` hold the theorems. `MCInMemory`, `MCMem0`, `MCImport`,
`MCPageWalk` and `MCServer` give the constants small values. A definition whose comment calls
it a mutant is a wrong variant of the one after it; the specification never uses
it, and putting it in place of the other must break the property `PROJECT.json`
names with it.

## The runs

| Run | Instance | What it shows |
|---|---|---|
| `InMemory.cfg` | 2 tenants, 2 adds, logs of up to 3 entries, a clock of two values | `TypeOK`; `HistoryMatchesStore`: store and logs agree after any sequence of calls; `TenantIsolation`; `ImplementsTenantStore` |
| `InMemoryQueries.cfg` | 3 adds, every shape of scope, limits 1, 2 and one too large, cursors of every sign | `NoLeak`: answers name the caller's memories only; `SearchIsRanked`: best first, oldest first among equals, and the limit cuts the worst; `ExportIsHonest`: an export is flagged as truncated exactly when it leaves something out, at, below and above `MAX_EXPORT` |
| `Mem0.cfg` | 2 concurrent calls of any tools, a memory of each tenant, all scope shapes, refusals 429 and 500 | everything below on all tools |
| `Mem0Races.cfg` | 3 concurrent updates and deletes | the races that take a third call, for instance an update whose memory is deleted and overwritten between its own requests |
| `Mem0Liveness.cfg` | 2 calls, update and bulk delete | `EveryCallReturns` |
| `Import.cfg` | batches of up to 3 entries (and one too long) in each mode, 3 stores, 2 changes by other calls, every failure | the properties of the import below |
| `PageWalk.cfg` | lists of 0 to 5, page sizes 1, 2 and 7, 2 adds and any deletes | the properties of the walk below |
| `Server.cfg` | 8 token settings, every backend setting, 3 requests | the properties of the server below |

The properties of the mem0 runs:

- `TenantIsolation`: no step changes a memory except on a request of its owner,
  and what a request adds belongs to its tenant.
- `NoLeak`: no result holds a memory or a log of another tenant, and no entity that
  does not bear the caller's name. The filter (mem0.py:286) compares the id of an
  entity and not its type, so an agent or a run that another tenant called like the
  caller does pass; the instances hold one, and the property claims no more.
- `IsolationInv`: why the two hold. A write or history request is on the wire
  only for an existing memory whose owner made the call. The check is made one
  request earlier than the write; the gap does no harm because the owner of an
  id never changes and an id is never given out twice. That reliance on mem0 is
  explicit in the model.
- `SuccessIsApplied`: an update that returned shows a memory, and its log contains the
  call's own write; a deleted memory is gone; an add that names memories names every
  one it made (it may name others, and an answer that names none says nothing of
  what mem0 stored).
- `NotFoundIsTrue`: `not_found` is never the answer for a live memory of the
  caller, whichever of the three requests it came from.
- `FinalErrorMeansNoEffect`: with `retry: false` nothing was changed and no
  request is left that could change something. One case is excepted: an update whose
  PUT was served and whose read-back mem0 then refused with a 4xx took effect, and its
  caller is told a final error. `from` in a result is the request the answer came
  from, so that this case and no other is exempt.
- `AnswersInv`: why these three hold (see the proofs).
- `ImplementsTenantStore`: mem0 behind the adapter implements `TenantStore`: whatever
  changes in it some call of the memory's owner asked for, with that id, text and
  scope. mem0 acts on any id, so this rests on the adapter's owner check and on the
  scope it sends.
- `EveryCallReturns`: a call that started returns.

The properties of the import (`Import.cfg`):

- `EveryEntryAccounted`: every entry the loop has passed is in exactly one of the
  three lists, and an answered import passed all of them.
- `ReportIsTrue`: an imported id names a memory of the tenant that was given the
  text for this very entry, a skipped one a memory of the tenant that had the
  text, and no write goes unmentioned, unless an exception ended the call there.
- `NoSilentCopy`: a text that occurs twice in the batch is stored once, or the
  answer has an error for the earlier entry (an add that timed out may be stored
  after all).
- `NoCopyOfKept`: what the tenant had at the listing is not added again.
- `OverwriteRestores`: an overwrite puts back a text the memory had before. With
  a stale index it may undo another call's update; it never replaces a memory that
  never had the text.
- `ImportInv`: why these hold (see the proofs).
- `ImportEnds`.

The properties of the page walk (`PageWalk.cfg`):

- `RepeatsAreBounded`, `MissesAreBounded`: at most one repetition for each insert
  in front of the cursor, at most one miss for each delete there. A still list is
  therefore shown exactly.
- `NeverRepeats`: over the in-memory backend nothing is shown twice.
- `WalkInv`: why these hold (see the proofs).
- `WalkEnds`: also when the list shrinks below the cursor.

The properties of the server (`Server.cfg`):

- `ToolsRunAsTokenOwner`: a tool acts for the user of the last pair of the token
  its own request presented, and for the default user only without a setting,
  although it may read the tenant after its request was reset.
- `FailClosed`: with a non-empty setting nothing passes the gate without one of
  its tokens, and a malformed or empty-handed setting never serves.
- `ShutdownEnds`.

Four runs end in a counterexample, each for a statement of the documentation
that the code does not keep:

- `Threshold.cfg`: the in-memory search ignores `threshold`;
- `Idempotent.cfg`: `update_memory` is annotated idempotent and logs every
  repetition;
- `BulkScope.cfg`: `delete_all_memories` on mem0 with a wildcard or null value
  passes the "at least one scope key" check and deletes without any scope;
- `ExportImport.cfg`: an untruncated export may hold ten times what
  `import_memories` takes.

### Bounds

`MaxIds`, `MaxHistory` (in-memory) and `MaxMem`, `MaxFacts` (mem0) cut the state
space; `Calls` is the number of calls of a behaviour. Two memories and three log
entries give every relation `HistoryMatchesStore` speaks of: the first entry, a
following one, and one that follows an update. Isolation relates one memory to
one call of another tenant, and an interfering call of the owner: two tenants and
two calls, three for races with the read-back. Ranking needs two results and one
left out: three memories and a search with limit 2. The length limits of strings and `MAX_SCOPE_KEYS` are
classes of values, not numbers; `MAX_LIMIT` and `MAX_EXPORT` are 3 and 2; the
limits sent are 1, 2 and 4, the last of which is refused, so that accepted limits
above, at and below the number of memories all occur. `MaxHistory = 1`
turns updates off in `InMemoryQueries.cfg`, as the queries depend on content and
scope only, which the adds already vary. Tenants are symmetric in `InMemory.cfg`
and calls in the two safety runs of mem0; the liveness run uses no symmetry.

An import needs two entries of one text to repeat one, with a third between or
after them for the index to grow; `MaxImport = 3` gives that. `MaxExport = 4` keeps
the order of the two limits of the code, so that the index must hold more than an
import takes; the stores have 2 or 4 memories, which other calls raise to 6, above
what a listing holds. Two changes by other calls let a memory of the index be
updated and deleted, or one appear next to a late add. A walk over up to five
memories with pages of two has a page boundary in every position relative to a
change; more changes only add to both sides of the bounds. The server needs a
request per token, a second one of the same user and one that is refused: three;
the settings are the classes `from_env` and the empty check distinguish.

All runs of mem0 end in states where every call has returned; `Quiet` is the idle
server, so that deadlock is checked and would show a call stuck with no action.

### Fairness

The only fairness is weak fairness of `Timeout(c)`: a wait of a call ends after
`httpx.Timeout` (mem0.py:89) whatever mem0 does. The timeout restarts with each
received chunk; the assumption is therefore that mem0 does not send one response
in endless small pieces. Nothing is assumed of mem0: requests may stay on the
wire for ever. The in-memory model needs no fairness: a call is one step.

`ImportMemories` assumes the same of each await (`GiveUp`, `ListFails`) and that
the event loop runs the code between two awaits (`Step`). `PageWalk` assumes that
the client goes on asking; `Fresh` bounds the adds, since a walk need not end while
a list grows as fast as it is read. `Server` assumes that ready tasks run, that
tools end (`EndTool`: `Mem0Backend!EveryCallReturns`, `ImportMemories!ImportEnds`),
that an answered request leaves, and that `close` and the cancellation, which wait
for nothing of ours, happen. No client has to hang up.

## The proofs

Every invariant and every safety property of the passing runs is proved, for all
constants that satisfy the named assumptions:

| Theorem | Statement |
|---|---|
| `InMemoryBackend_proofs!TypeCorrect` | `Spec => []TypeOK` |
| `InMemoryBackend_proofs!HistoryIsFaithful` | `Spec => []HistoryMatchesStore` |
| `InMemoryBackend_proofs!Isolation` | `Spec => TenantIsolation` |
| `InMemoryBackend_proofs!Refinement` | `Spec => ImplementsTenantStore` |
| `InMemoryAnswers_proofs!NoLeakage` | `Spec => NoLeak` |
| `InMemoryAnswers_proofs!SearchesKeepBest` | `Spec => SearchIsRanked` |
| `InMemoryAnswers_proofs!ExportsAreHonest` | `Spec => ExportIsHonest` |
| `Mem0Backend_proofs!TypeCorrect` | `Spec => []TypeOK` |
| `Mem0Backend_proofs!IsolationInvariant` | `Spec => []IsolationInv` |
| `Mem0Backend_proofs!NoLeakage` | `Spec => []NoLeak` |
| `Mem0Backend_proofs!Isolation` | `Spec => TenantIsolation` |
| `Mem0Answers_proofs!AnswersInvariant` | `Spec => []AnswersInv` |
| `Mem0Answers_proofs!SuccessesAreApplied` | `Spec => []SuccessIsApplied` |
| `Mem0Answers_proofs!NotFoundsAreTrue` | `Spec => []NotFoundIsTrue` |
| `Mem0Answers_proofs!FinalErrorsHaveNoEffect` | `Spec => []FinalErrorMeansNoEffect` |
| `Mem0Store_proofs!Refinement` | `Spec => ImplementsTenantStore` |
| `ImportMemories_proofs!TypeCorrect` | `Spec => []TypeOK` |
| `ImportMemories_proofs!AllEntriesAccounted` | `Spec => []EveryEntryAccounted` |
| `ImportMemories_proofs!ReportsAreTrue` | `Spec => []ReportIsTrue` |
| `ImportMemories_proofs!OverwritesRestore` | `Spec => []OverwriteRestores` |
| `ImportMemories_proofs!ImportInvariant` | `Spec => []ImportInv` |
| `ImportMemories_proofs!NoCopyIsSilent` | `Spec => []NoSilentCopy` |
| `ImportMemories_proofs!KeptIsNotCopied` | `Spec => []NoCopyOfKept` |
| `PageWalk_proofs!TypeCorrect` | `Spec => []TypeOK` |
| `PageWalk_proofs!RepeatsBounded` | `Spec => []RepeatsAreBounded` |
| `PageWalk_proofs!MissesBounded` | `Spec => []MissesAreBounded` |
| `PageWalk_proofs!InMemoryNeverRepeats` | `Spec => []NeverRepeats` |
| `PageWalk_proofs!WalkInvariant` | `Spec => []WalkInv` |
| `Server_proofs!TypeCorrect` | `Spec => []TypeOK` |
| `Server_proofs!Tenancy` | `Spec => []ToolsRunAsTokenOwner` |
| `Server_proofs!GateFailsClosed` | `Spec => []FailClosed` |

### The assumptions

`RequestsAssumption`, `InMemoryAssumption`, `Mem0Assumption`, `ImportAssumption`,
`PageWalkAssumption` and `ServerAssumption` give the constants their types, keep
`None` apart from real values and `user_id` out of the allowed scope keys. Beyond
that:

- `InMemoryAssumption`: a score is a natural number; a cursor is an integer or the
  string that is none;
- `Mem0Assumption`: a refusal is an HTTP error other than 404 and 410 (see
  `Mem0Backend` above); what is stored at the start was not written by the calls;
- `ImportAssumption`: the same of the import;
- `PageWalkAssumption`: no list shows an id twice, and new ids are in no list.

The bounds of the runs (`MaxMem`, `MaxFacts`, `MaxIds`, `MaxHistory`, `MaxOthers`,
`Fresh`, the calls and requests) are parameters of the theorems: any natural number,
any sequence, any set.

### The in-memory backend

`IInv == TypeOK /\ HistoryMatchesStore`; `StoryContinues` says that an update entry
extends the log of a memory. The refinement maps each tool to the step of
`TenantStore` that its call asks for (`AddMapped`, `UpdateMapped`, `DropMapped`,
`CloseMapped`) and reads to stuttering.

The properties of answers need two facts about lists. `InOrderFacts`: for a total
order, `InOrder` lists each element of a finite set once and in the order. No
induction is needed: an element has fewer predecessors than each later one
(`PlacesFollowOrder`), so counting them maps the set one to one into
`1 .. Cardinality(S)`, hence onto it, and every `CHOOSE` of the definition has its
witness. `PageOfList`: a Python slice holds elements of the list only, for negative
cursors too. `NoLeakage` follows, as every list that is cut ranges over the caller's
memories in the scope. For `SearchesKeepBest`, a candidate that is not in the answer
has a place behind the limit (`FirstPage`), and the order says the rest. For
`ExportsAreHonest`, the list shows no id twice, so the one at place `MaxExport + 1`
is not in the page.

### mem0: isolation

`IInv == TypeOK /\ IsolationInv`. `NoLeak` is not inductive: a result is what an
answer held, an answer is what a request asked for, and a request is harmless only
because of the check before it. So the invariant follows the data: what a waiting
call may ask (`WaitersAccepted`, `RequestsAccepted`), that writes follow a successful
owner check (`WritesVerified`), that a fetched memory is the requested one with its
true owner (`FetchIsExact`), and that other answers are the caller's own
(`AnswersAreOwn`). `PayloadIsCallers` is where the stripping of `user_id` counts:
without it the scope would overwrite the user of the request. The steps of mem0 are
covered by one lemma (`DeliverKeeps`: an honest response keeps the invariant), those
of the calls by three (`SendKeeps`, `ReturnKeeps`, `RaiseKeeps`). `Isolation` follows
from the invariant: a step that changes a memory serves a request, and
`WritesVerified` names its owner.

### mem0: what an answer means

`AInv == IInv /\ AnswersInv /\ NotFoundIsTrue /\ SuccessInv`, the last one being
`SuccessIsApplied` in a form without `CASE`. An answer is made from the last
response, but whether it is true depends on what mem0 has done and may still do for
the call. `AnswersInv` ties the two together:

- `OneRequestOut`, `ResultIsLast`: a request on the wire is the one its call waits
  for, or its call was told to retry;
- `IdsAreOld`, `MissingIsGone`: an id a call names exists from the start or never,
  and ids come only later; nothing dead comes to life; so a response that says
  "missing" or "deleted" is still true when it is read;
- `EffectIsKnown`: a write of a call shows in a 200 on its way, in a call at its
  read-back, or in a result that is a success, says retry, or came from a read-back;
- `UpdateIsVisible`: once an update was served, a read-back of the memory shows it,
  however many writes of others follow;
- `AddIsAnswered`: the response to an add names all that it made, or nothing.

### mem0: the refinement

A request that mem0 serves maps to the step of `TenantStore` that its call asked for;
sending, answering, timing out and giving up map to stuttering. It needs `IInv`: a
write is out only for a memory of its caller (`WritesVerified`), with a text that
passed the check (`RequestsAccepted`); that the request carries the caller and no
scope the call did not name is `PayloadIsCallers` and `PayloadScope`. And it needs `RInv`: mem0 never holds more
than `MaxMem` memories, the ids of the abstract store.

### The import

`IInv` is the conjunction of its safety properties and `ImportInv`. `ReportIsTrue`
speaks of the past of memories that others may have changed since; the proof is
therefore about logs, which only grow (`Grows`): what a log said once it says for
ever. `ImportInv` ties to the logs what the loop knows: the index names memories that
have had its text (`IndexSays`); a write that failed and is still to come belongs to
an entry written off as an error (`LateIsKnown`); a write of the import belongs to an
entry that was reported (`WritesAreKnown`); the index remembers what was made, unless
it was written off (`IndexRemembers`). With these `AddsAreNew` is inductive: what may
have been added is no text of the listing, and of two entries of one text the earlier
one has an error. `NoSilentCopy` and `NoCopyOfKept` are read off it.

### The page walk

`RepeatsAreBounded` is not inductive: the repetition comes with a fetch, the insert
that causes it before. `WalkInv` counts a collected memory as soon as it stands in
front of the walk again (`Ahead`): an insert in front of the cursor pushes one memory
there, a fetch only turns what is ahead into repetitions. For the misses it counts
the `Overhang`, by which a list that shrank ends before the cursor: each delete in
front of the cursor lets one unseen memory slip under it or adds one to the overhang,
and an add into the overhang takes one off for the one it may hide. Without it the
bound would not be inductive. `PageFacts` gives the range of a page, `NoGrowth` and
`GrowthByOne` what a step does to a cardinality.

### The server

The invariant follows the data: the gate of a started server holds the table of the
setting (`GateIsSet`), the tenant is right in the request while it is inside, in the
copy of the tool task and in what the tool read (`TenantIsRight`), and what passed
the gate holds a token of the table (`Admitted`). Neither property is inductive
without `GateIsSet`, and `ToolsRunAsTokenOwner` says nothing of a tool that has not
read its tenant yet. `TableGrants` needs the last pair of a token to exist;
`LastPosition` gets it from the well-foundedness of `<`.

### Model-checked only

The liveness properties `EveryCallReturns`, `ImportEnds`, `WalkEnds` and
`ShutdownEnds` (fairness and ENABLED are out of the prover's reach), and the four
runs that end in a counterexample.

## Plan

All components but logging are modelled, and their safety properties are proved.
What is left:

1. Theorems about the operators the tools share: that the pages of a list that stands
   still tile it, that no verdict of `Requests` lets a `user_id` through.
2. What the refinements say of the two backends together: a scope or an owner never
   changes (a theorem of `TenantStore` that both inherit).

## Not modelled

Logging; FastMCP, Starlette and uvicorn beyond what `Server` says of them; JSON and
HTTP encodings; the rewriting of the Accept header (it repairs one request and
keeps nothing); `health` and `memory_status`, which read constants or throw away
what they read; a forced stop of uvicorn, which skips the end of the lifespan;
mem0's extraction, ranking and storage beyond what the adapter relies on.

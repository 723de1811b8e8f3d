------------------------- MODULE Mem0Store_proofs -------------------------
(***************************************************************************)
(* mem0 behind the adapter implements the store of the backend interface   *)
(* (TenantStore): proved step by step for any number of calls.             *)
(***************************************************************************)
EXTENDS Mem0Backend_proofs

(* What TenantStore sees of a memory, and of all of them. *)
Last(m) == m.log[Len(m.log)]
Abstract(m) == [owner |-> m.owner, scope |-> m.scope, text |-> Last(m).content]
LivePool == [i \in {j \in DOMAIN mem : Live(j)} |-> Abstract(mem[i])]

RInv == IInv /\ Len(mem) <= MaxMem

(* The tool calls whose requests may take effect: those that were made.    *)
AskedCalls == {call[c] : c \in {d \in Calls : pc[d] # "idle"}}

LEMMA PoolVars == Pool!pvars = <<LivePool, DOMAIN mem>>
  BY DEF Pool!pvars, LivePool, Abstract, Last, Content

LEMMA LastTyped ==
  ASSUME NEW m \in Memories
  PROVE  Last(m) \in Events /\ Abstract(m) \in Pool!Memory
<1>1. m.log \in Seq(Events) /\ m.log # <<>> /\ m.owner \in Users /\ m.scope \in StoredScopes
  BY DEF Memories
<1>2. Len(m.log) \in DOMAIN m.log
  BY <1>1
<1>3. Last(m) \in Events
  BY <1>1, <1>2 DEF Last
<1> QED BY <1>1, <1>3 DEF Abstract, Events, Pool!Memory

LEMMA Bounded == RInv => DOMAIN mem \subseteq 1 .. MaxMem
  BY Mem0Assumption DEF RInv, IInv, TypeOK

LEMMA InitMapped == Init => Pool!PInit
<1> SUFFICES ASSUME Init PROVE Pool!PInit
  OBVIOUS
<1>1. mem \in Seq(Memories) /\ Len(mem) <= MaxMem /\ MaxMem \in Nat
  BY Mem0Assumption DEF Init
<1>2. DOMAIN mem \in SUBSET (1 .. MaxMem)
  BY <1>1
<1> DEFINE live == {j \in DOMAIN mem : Live(j)}
<1>3. LivePool \in [live -> Pool!Memory]
  BY <1>1, LastTyped DEF LivePool
<1>4. live \in SUBSET DOMAIN mem
  OBVIOUS
<1> HIDE DEF live
<1>5. \E l \in SUBSET DOMAIN mem : LivePool \in [l -> Pool!Memory]
  BY <1>3, <1>4
<1> QED BY <1>2, <1>5 DEF Pool!PInit, LivePool, Abstract, Last, Content

(* A request that is served comes from a call that was made. *)
LEMMA RequestIsAsked ==
  ASSUME IInv, NEW r \in wire, UNCHANGED <<call, pc>>
  PROVE  \E op \in AskedCalls' : op = call[r.call]
<1>1. r.call \in Calls /\ pc[r.call] # "idle"
  BY DEF IInv, TypeOK, IsolationInv, RequestsAccepted
<1> QED BY <1>1 DEF AskedCalls

(* Each request that changes memories is one tool's. *)
LEMMA WritesOfTools ==
  ASSUME NEW tool \in AllTools, NEW stage \in Stages(tool)
  PROVE  /\ stage = "post" => tool = "add_memory"
         /\ stage = "put" => tool = "update_memory"
         /\ stage = "delete" => tool = "delete_memory"
         /\ stage = "bulk" => tool = "delete_all_memories"
  BY DEF AllTools, FirstRequest, Guarded, Stages

LEMMA RequestTool ==
  ASSUME IInv, NEW r \in wire
  PROVE  /\ r.stage = "post" => call[r.call].tool = "add_memory"
         /\ r.stage = "put" => call[r.call].tool = "update_memory"
         /\ r.stage = "delete" => call[r.call].tool = "delete_memory"
         /\ r.stage = "bulk" => call[r.call].tool = "delete_all_memories"
<1>1. Accepted(r.call, r.stage)
  BY ServedFacts
<1>2. call[r.call].tool \in AllTools /\ r.stage \in Stages(call[r.call].tool)
  BY <1>1, Mem0Assumption DEF Accepted, Invocation
<1> QED BY <1>2, WritesOfTools

(* The scope a request carries: what the call asked for.                   *)
LEMMA PayloadScope ==
  ASSUME NEW op
  PROVE  /\ DOMAIN Payload(op).scope = Pool!Wanted(op)
         /\ \A k \in Pool!Wanted(op) :
              /\ Payload(op).scope[k] = op.scope[k] /\ op.scope[k] # Null
              /\ k \in Pool!ScopeOf(op)
  BY DEF Payload, Norm, CleanScope, Restrict, Pool!Wanted, Pool!ScopeOf

(* An added memory is live: it is created in the caller's name, under the  *)
(* scope the call gave.                                                    *)
LEMMA PostMapped ==
  ASSUME RInv, RInv', NEW r \in wire, ServePost(r)
  PROVE  Pool!PNext
<1>0. PICK op \in AskedCalls' : op = call[r.call]
  BY RequestIsAsked DEF RInv, ServePost, Deliver
<1>u. PICK u \in Users : u = call[r.call].user
  BY ServedFacts DEF RInv, Invocation
<1> DEFINE k == call[r.call]
           fact == [owner |-> Payload(k).user, scope |-> Payload(k).scope,
                    log |-> <<[by |-> r.call, event |-> "add", content |-> k.content]>>]
<1>1. PICK n \in 0 .. MaxFacts :
        /\ Len(mem) + n <= MaxMem
        /\ mem' = [i \in 1 .. Len(mem) + n |-> IF i \in DOMAIN mem THEN mem[i] ELSE fact]
  BY DEF ServePost
<1>2. fact.owner = u /\ Last(fact).event = "add" /\ fact.scope = Payload(op).scope
  BY <1>0, <1>u, ServedFacts DEF RInv, Last
<1>tool. op.tool = "add_memory" /\ op.user = u
  BY <1>0, <1>u, RequestTool DEF ServePost, RInv
<1> HIDE DEF fact
<1> DEFINE new == Len(mem) + 1 .. Len(mem) + n
           fresh == [i \in new |-> Abstract(fact)]
<1>3. /\ mem \in Seq(Memories) /\ mem' \in Seq(Memories) /\ n \in Nat
      /\ DOMAIN mem = 1 .. Len(mem) /\ Len(mem) \in Nat
  BY Mem0Assumption DEF RInv, IInv, TypeOK
<1>4. /\ DOMAIN mem' = DOMAIN mem \cup new
      /\ \A i \in new : i \notin DOMAIN mem /\ mem'[i] = fact
      /\ \A i \in DOMAIN mem : mem'[i] = mem[i]
  BY <1>1, <1>3
<1>5. new \in SUBSET ((1 .. MaxMem) \ DOMAIN mem)
  BY <1>1, <1>3, Mem0Assumption
<1>6. fresh \in [new -> Pool!Fresh(op)]
  <2>1. ASSUME NEW i \in new PROVE Abstract(fact) \in Pool!Fresh(op)
    <3>1. i \in DOMAIN mem' /\ mem'[i] = fact
      BY <1>4
    <3>2. fact \in Memories
      BY <1>3, <3>1
    <3>3. Abstract(fact) \in Pool!Memory
      BY <3>2, LastTyped
    <3>4. Abstract(fact).owner = op.user /\ Abstract(fact).scope = Payload(op).scope
      BY <1>2, <1>tool DEF Abstract
    <3> QED BY <3>3, <3>4, PayloadScope DEF Pool!Fresh
  <2> QED BY <2>1
<1> HIDE DEF new
<1>7. DOMAIN LivePool' = DOMAIN LivePool \cup new
  BY <1>2, <1>4 DEF LivePool, Live, Last
<1>8. \A i \in DOMAIN LivePool' : LivePool'[i] = IF i \in new THEN fresh[i] ELSE LivePool[i]
  BY <1>4, <1>7 DEF LivePool
<1>9. LivePool' = [i \in DOMAIN LivePool \cup new |-> IF i \in new THEN fresh[i] ELSE LivePool[i]]
  BY <1>7, <1>8 DEF LivePool
<1> HIDE DEF fresh
<1>10. \E s \in SUBSET ((1 .. MaxMem) \ DOMAIN mem) :
         /\ DOMAIN mem' = DOMAIN mem \cup s
         /\ \E f \in [s -> Pool!Fresh(op)] :
              LivePool' = [i \in DOMAIN LivePool \cup s |-> IF i \in s THEN f[i] ELSE LivePool[i]]
  BY <1>4, <1>5, <1>6, <1>9
<1>11. Pool!Create(op)
  BY <1>10, <1>tool DEF Pool!Create, LivePool, Abstract, Last, Content
<1> QED BY <1>0, <1>11 DEF Pool!PNext, AskedCalls

(* The new entry of a log is the last one. *)
LEMMA WriteIsLast ==
  ASSUME TypeOK, NEW i \in DOMAIN mem, NEW c, NEW event, NEW content
  PROVE  LET m == Write(i, c, event, content)
         IN  /\ Last(m).event = event /\ Last(m).content = content
             /\ m.owner = mem[i].owner /\ m.scope = mem[i].scope
<1> DEFINE m == Write(i, c, event, content)
           entry == [by |-> c, event |-> event, content |-> content]
<1>1. mem[i].log \in Seq(Events) /\ m.log = Append(mem[i].log, entry)
      /\ m.owner = mem[i].owner /\ m.scope = mem[i].scope
  BY MemoryFacts DEF Write
<1> HIDE DEF m, entry
<1>2. m.log[Len(m.log)] = entry
  BY <1>1
<1> QED BY <1>1, <1>2 DEF Last, m, entry

(* Marking memories of one tenant as deleted removes them from the pool. *)
Deleted(c, u, gone) ==
  /\ gone \in SUBSET DOMAIN mem
  /\ \A i \in gone : Live(i) /\ mem[i].owner = u
  /\ DOMAIN mem' = DOMAIN mem
  /\ \A i \in gone : mem'[i] = Write(i, c, "delete", Content(i))
  /\ \A i \in DOMAIN mem \ gone : mem'[i] = mem[i]

LEMMA DeletedMapped ==
  ASSUME RInv, NEW c, NEW u, NEW op, NEW gone, Deleted(c, u, gone),
         gone \subseteq Pool!Removable(op)
  PROVE  Pool!Remove(op)
<1> USE DEF Deleted
<1>1. \A i \in gone : Last(mem'[i]).event = "delete"
  BY WriteIsLast DEF RInv, IInv
<1>2. DOMAIN LivePool' = DOMAIN LivePool \ gone
  BY <1>1 DEF LivePool, Live, Last
<1>3. \A i \in DOMAIN LivePool' : LivePool'[i] = LivePool[i]
  BY <1>2 DEF LivePool
<1>4. LivePool' = [i \in DOMAIN LivePool \ gone |-> LivePool[i]]
  BY <1>2, <1>3 DEF LivePool
<1>5. \E g \in SUBSET Pool!Removable(op) :
        LivePool' = [i \in DOMAIN LivePool \ g |-> LivePool[i]] /\ DOMAIN mem' = DOMAIN mem
  BY <1>4
<1> QED BY <1>5 DEF Pool!Remove, LivePool, Abstract, Last, Content

(* A caller's live memories are those the abstract store shows as his.     *)
LEMMA OwnedMapped ==
  ASSUME NEW op, NEW i, Live(i), mem[i].owner = op.user
  PROVE  i \in Pool!Owned(op)
  BY DEF Pool!Owned, Live

LEMMA BulkMapped == ASSUME RInv, NEW r \in wire, ServeBulk(r) PROVE Pool!PNext
<1>0. PICK op \in AskedCalls' : op = call[r.call]
  BY RequestIsAsked DEF RInv, ServeBulk, Deliver
<1>u. PICK u \in Users : u = call[r.call].user
  BY ServedFacts DEF RInv, Invocation
<1>tool. op.tool = "delete_all_memories" /\ op.user = u
  BY <1>0, <1>u, RequestTool DEF ServeBulk, RInv
<1>g. PICK gone : gone = Addressed(op)
  OBVIOUS
<1>1. mem' = [i \in DOMAIN mem |-> IF i \in gone THEN Write(i, r.call, "delete", Content(i)) ELSE mem[i]]
  BY <1>0, <1>g DEF ServeBulk
<1>2. /\ gone \in SUBSET DOMAIN mem
      /\ \A i \in gone : Live(i) /\ mem[i].owner = u /\ Matches(mem[i].scope, Payload(op).scope)
  BY <1>u, <1>0, <1>g, ServedFacts DEF RInv, Addressed, Found
<1>3. Deleted(r.call, u, gone)
  BY <1>1, <1>2 DEF Deleted
<1>4. ASSUME NEW i \in gone PROVE i \in Pool!Selected(op)
  <2>1. i \in Pool!Owned(op)
    BY <1>2, <1>tool, OwnedMapped
  <2>2. \A k \in Pool!Wanted(op) : k \in DOMAIN mem[i].scope /\ mem[i].scope[k] = op.scope[k]
    BY <1>2, PayloadScope DEF Matches, Get
  <2>3. i \in {j \in DOMAIN mem : Live(j)}
    BY <1>2
  <2> QED BY <2>1, <2>2, <2>3 DEF Pool!Selected
<1>5. gone \subseteq Pool!Removable(op)
  BY <1>4, <1>tool DEF Pool!Removable
<1>6. Pool!Remove(op)
  BY <1>3, <1>5, DeletedMapped
<1> QED BY <1>0, <1>6 DEF Pool!PNext, AskedCalls

Replaced(c, u, id, content) ==
  /\ u \in Users /\ content \in Contents
  /\ id \in DOMAIN mem /\ Live(id) /\ mem[id].owner = u
  /\ mem' = [mem EXCEPT ![id] = Write(id, c, "update", content)]

LEMMA ReplaceMapped ==
  ASSUME RInv, NEW c, NEW op, op.tool = "update_memory",
         Replaced(c, op.user, op.id, op.content)
  PROVE  Pool!Replace(op)
<1> USE DEF Replaced
<1> DEFINE m == Write(op.id, c, "update", op.content)
<1>1. /\ Last(m).event = "update" /\ Last(m).content = op.content
      /\ m.owner = op.user /\ m.scope = mem[op.id].scope
  BY WriteIsLast DEF RInv, IInv
<1> HIDE DEF m
<1>2. /\ mem'[op.id] = m /\ DOMAIN mem' = DOMAIN mem
      /\ \A i \in DOMAIN mem : i # op.id => mem'[i] = mem[i]
  BY DEF m
<1>3. DOMAIN LivePool' = DOMAIN LivePool /\ op.id \in DOMAIN LivePool
  BY <1>1, <1>2 DEF LivePool, Live, Last
<1>4. Abstract(m) = [owner |-> op.user, scope |-> LivePool[op.id].scope, text |-> op.content]
  BY <1>1, <1>3 DEF LivePool, Abstract
<1>5. \A i \in DOMAIN LivePool' : LivePool'[i] = IF i = op.id THEN Abstract(m) ELSE LivePool[i]
  BY <1>2, <1>3 DEF LivePool
<1>6. LivePool' = [LivePool EXCEPT ![op.id] = Abstract(m)]
  BY <1>3, <1>5 DEF LivePool
<1>7. op.id \in Pool!Owned(op) /\ op.content \in Contents
  BY OwnedMapped
<1>8. /\ LivePool' = [LivePool EXCEPT ![op.id] =
           [owner |-> op.user, scope |-> LivePool[op.id].scope, text |-> op.content]]
      /\ DOMAIN mem' = DOMAIN mem
  BY <1>2, <1>4, <1>6
<1> QED BY <1>7, <1>8 DEF Pool!Replace, LivePool, Abstract, Last, Content

LEMMA WriteMapped ==
  ASSUME RInv, NEW r \in wire, ServeWrite(r), Live(call[r.call].id) PROVE Pool!PNext
<1>0. PICK op \in AskedCalls' : op = call[r.call]
  BY RequestIsAsked DEF RInv, ServeWrite, Deliver, DeliverMissing
<1>1. op.id \in DOMAIN mem /\ Live(op.id) /\ mem[op.id].owner = op.user
  BY <1>0 DEF RInv, IInv, IsolationInv, WritesVerified, Verified, ServeWrite
<1>2. CASE r.stage = "put"
  <2>1. mem' = [mem EXCEPT ![op.id] = Write(op.id, r.call, "update", op.content)]
    BY <1>0, <1>2 DEF ServeWrite
  <2>2. op.content \in Contents /\ op.user \in Users
    BY <1>0, <1>2, ServedFacts, ContentTools, Mem0Assumption DEF RInv, Accepted, Invocation
  <2>3. Replaced(r.call, op.user, op.id, op.content)
    BY <1>1, <2>1, <2>2 DEF Replaced
  <2>4. op.tool = "update_memory"
    BY <1>0, <1>2, RequestTool DEF RInv
  <2>5. Pool!Replace(op)
    BY <2>3, <2>4, ReplaceMapped
  <2> QED BY <1>0, <2>5 DEF Pool!PNext, AskedCalls
<1>3. CASE r.stage = "delete"
  <2>1. mem' = [mem EXCEPT ![op.id] = Write(op.id, r.call, "delete", Content(op.id))]
    BY <1>0, <1>3 DEF ServeWrite
  <2>2. Deleted(r.call, op.user, {op.id})
    BY <1>1, <2>1 DEF Deleted
  <2>3. op.tool = "delete_memory"
    BY <1>0, <1>3, RequestTool DEF RInv
  <2>4. {op.id} \subseteq Pool!Removable(op)
    BY <1>1, <2>3, OwnedMapped DEF Pool!Removable
  <2>5. Pool!Remove(op)
    BY <2>2, <2>4, DeletedMapped
  <2> QED BY <1>0, <2>5 DEF Pool!PNext, AskedCalls
<1> QED BY <1>2, <1>3 DEF ServeWrite

-----------------------------------------------------------------------------
LEMMA RInvInitially == Init => RInv
  BY Initially, Mem0Assumption DEF Init, RInv

LEMMA RInvKept == RInv /\ [Next]_vars => RInv'
<1> SUFFICES ASSUME RInv, [Next]_vars PROVE RInv'
  OBVIOUS
<1>1. IInv'
  BY Inductive DEF RInv
<1>2. Len(mem) \in Nat /\ DOMAIN mem = 1 .. Len(mem) /\ Len(mem') \in Nat /\ DOMAIN mem' = 1 .. Len(mem')
  BY <1>1 DEF RInv, IInv, TypeOK
<1>3. ASSUME NEW r \in wire, ServePost(r) PROVE Len(mem') <= MaxMem
  <2>1. PICK n \in 0 .. MaxFacts : Len(mem) + n <= MaxMem /\ DOMAIN mem' = 1 .. Len(mem) + n
    BY <1>3 DEF ServePost
  <2>2. n \in Nat
    BY Mem0Assumption
  <2> QED BY <1>2, <2>1, <2>2
<1>4. ASSUME NEW r \in wire, ServeWrite(r) \/ ServeBulk(r) PROVE DOMAIN mem' = DOMAIN mem
  BY <1>4 DEF ServeWrite, ServeBulk
<1>5. CASE UNCHANGED mem
  BY <1>1, <1>5 DEF RInv
<1>6. DOMAIN mem' = DOMAIN mem => Len(mem') <= MaxMem
  BY <1>2 DEF RInv
<1>7. UNCHANGED mem \/ Server
  BY DEF Next, Invoke, Timeout, NetworkError, GiveUp, Resume, Quiet, vars
<1>8. CASE Server
  <2>1. PICK r \in wire : \/ ServeGet(r) \/ ServePost(r) \/ ServeWrite(r)
                          \/ ServeBulk(r) \/ ServeRead(r) \/ Refuse(r)
    BY <1>8 DEF Server
  <2>2. ServeGet(r) \/ ServeRead(r) \/ Refuse(r) => UNCHANGED mem
    BY DEF ServeGet, ServeRead, Refuse
  <2> QED BY <1>1, <1>3, <1>4, <1>5, <1>6, <2>1, <2>2 DEF RInv
<1> QED BY <1>5, <1>7, <1>8

LEMMA StepMapped == RInv /\ RInv' /\ [Next]_vars => [Pool!PNext]_Pool!pvars
<1> SUFFICES ASSUME RInv, RInv', [Next]_vars
             PROVE  Pool!PNext \/ UNCHANGED <<LivePool, DOMAIN mem>>
  BY DEF Pool!pvars, LivePool, Abstract, Last, Content
<1>1. CASE UNCHANGED mem
  BY <1>1 DEF LivePool, Live
<1>2. CASE Server
  <2>1. PICK r \in wire : \/ ServeGet(r) \/ ServePost(r) \/ ServeWrite(r)
                          \/ ServeBulk(r) \/ ServeRead(r) \/ Refuse(r)
    BY <1>2 DEF Server
  <2>2. ServeGet(r) \/ ServeRead(r) \/ Refuse(r) => UNCHANGED mem
    BY DEF ServeGet, ServeRead, Refuse
  <2>3. ServeWrite(r) /\ ~Live(call[r.call].id) => UNCHANGED mem
    BY DEF ServeWrite
  <2>4. ServePost(r) \/ ServeBulk(r) \/ (ServeWrite(r) /\ Live(call[r.call].id)) => Pool!PNext
    BY PostMapped, BulkMapped, WriteMapped
  <2> QED BY <1>1, <2>1, <2>2, <2>3, <2>4
<1>3. UNCHANGED mem \/ Server
  BY DEF Next, Invoke, Timeout, NetworkError, GiveUp, Resume, Quiet, vars
<1> QED BY <1>1, <1>2, <1>3

(* mem0 behind the adapter implements the store of the backend interface:  *)
(* whatever requests mem0 serves, late or in any order, a memory is made,  *)
(* replaced or removed only as a tool call of its owner asked, by the id,  *)
(* the content and the scope that call gave.                               *)
THEOREM Refinement == Spec => ImplementsTenantStore
<1>1. Spec => []RInv /\ [][Next]_vars
  BY RInvInitially, RInvKept, PTL DEF Spec
<1> QED BY <1>1, InitMapped, StepMapped, PTL DEF Spec, ImplementsTenantStore, Pool!PSpec

=============================================================================

------------------------ MODULE Mem0Answers_proofs ------------------------
(***************************************************************************)
(* Proofs about what the tools over mem0 answer: not_found, success and    *)
(* final errors are true, however the requests of any number of calls      *)
(* interleave, get lost or are served late.                                *)
(***************************************************************************)
EXTENDS Mem0Backend_proofs

(* What an answer with these items says of the call c, if it is a success. *)
Applied(c, items) ==
  /\ call[c].tool = "update_memory" => items # {} /\ Shows(c, items)
  /\ call[c].tool = "delete_memory" => ~Live(call[c].id)
  /\ call[c].tool = "add_memory" => items = {} \/ Made(c) \subseteq IdsIn(items)

SuccessInv == \A c \in Calls : result[c].code = "ok" => Applied(c, result[c].items)

AInv == IInv /\ AnswersInv /\ NotFoundIsTrue /\ SuccessInv

LEMMA SuccessSplit == SuccessInv <=> SuccessIsApplied
<1>1. ASSUME NEW c \in Calls, NEW items
      PROVE  Applied(c, items) <=>
               CASE call[c].tool = "update_memory" -> items # {} /\ Shows(c, items)
                 [] call[c].tool = "delete_memory" -> ~Live(call[c].id)
                 [] call[c].tool = "add_memory" -> items = {} \/ Made(c) \subseteq IdsIn(items)
                 [] OTHER -> TRUE
  <2>1. CASE call[c].tool = "update_memory"
    BY <2>1 DEF Applied
  <2>2. CASE call[c].tool = "delete_memory"
    BY <2>2 DEF Applied
  <2>3. CASE call[c].tool = "add_memory"
    BY <2>3 DEF Applied
  <2>4. CASE call[c].tool \notin {"update_memory", "delete_memory", "add_memory"}
    BY <2>4 DEF Applied
  <2> QED BY <2>1, <2>2, <2>3, <2>4
<1> QED BY <1>1 DEF SuccessInv, SuccessIsApplied

LEMMA AnswersInitially == Init => AInv
<1> SUFFICES ASSUME Init PROVE AInv
  OBVIOUS
<1>1. IInv
  BY Initially
<1>2. \A c \in Calls, i \in DOMAIN mem : ~WrittenBy(c, i)
  BY Mem0Assumption DEF Init, WrittenBy
<1>3. AnswersInv
  BY <1>2, Mem0Assumption DEF Init, AnswersInv, OneRequestOut, ResultIsLast, IdsAreOld, MissingIsGone,
     EffectIsKnown, UpdateIsVisible, AddIsAnswered, NoAnswer, NoResult, Response, Fetches
<1>4. NotFoundIsTrue /\ SuccessInv
  BY DEF Init, NotFoundIsTrue, SuccessInv, NoResult
<1> QED BY <1>1, <1>3, <1>4 DEF AInv

-----------------------------------------------------------------------------
(* The steps of mem0 *)

(* What serving r does to the memories: the logs of `touched' get an entry *)
(* of r's call, nothing else is written, and nothing comes back to life.   *)
Effect(r, touched) ==
  /\ OwnersKept
  /\ \A c \in Calls, i \in DOMAIN mem' :
       WrittenBy(c, i)' <=> \/ i \in DOMAIN mem /\ WrittenBy(c, i)
                            \/ c = r.call /\ i \in touched
  /\ \A i \in DOMAIN mem : Live(i)' => Live(i)
  /\ touched \subseteq DOMAIN mem'
  /\ touched # {} => r.stage \in Mutations

(* What the response says of it. *)
Truthful(r, response, touched) ==
  /\ response.status # 0
  /\ touched # {} => response.status = 200
  /\ (\/ response.status \in {404, 410}
      \/ response.status = 200 /\ r.stage \in Fetches /\ response.items = {}
      \/ response.status = 200 /\ r.stage = "delete") => ~Live(call[r.call].id)'
  /\ r.stage = "put" /\ response.status = 200 =>
       (Live(call[r.call].id)' => call[r.call].id \in touched)
  /\ r.stage = "readback" /\ pc[r.call] = "readback" =>
       Shows(r.call, response.items)
  /\ r.stage = "post" /\ response.status = 200 =>
       response.items = {} \/ touched \subseteq IdsIn(response.items)

(* A memory a call names that is gone stays gone. *)
LEMMA GoneStaysGone ==
  ASSUME TypeOK, IdsAreOld, OwnersKept, \A i \in DOMAIN mem : Live(i)' => Live(i),
         UNCHANGED call, NEW c \in Calls, pc[c] # "idle", Live(call[c].id)'
  PROVE  Live(call[c].id) /\ call[c].id \in DOMAIN mem
<1>1. call[c].id \in DOMAIN mem'
  BY DEF Live
<1>2. call[c].id \in DOMAIN mem \cup {0, BadId, Null}
  BY DEF IdsAreOld
<1>3. \A i \in DOMAIN mem' : i \in Nat \ {0}
  BY DEF OwnersKept
<1>4. call[c].id \in DOMAIN mem
  BY <1>1, <1>2, <1>3, Mem0Assumption
<1> QED BY <1>4

(* A request is its call and its stage. *)
LEMMA SameRequest ==
  ASSUME NEW q \in [call : Calls, stage : Waiting], NEW r \in [call : Calls, stage : Waiting],
         q # r, q.call = r.call
  PROVE  q.stage # r.stage
  OBVIOUS

LEMMA DeliverTells ==
  ASSUME AInv, NEW r \in wire, NEW response, NEW touched,
         Effect(r, touched), Truthful(r, response, touched), Deliver(r, response), IInv'
  PROVE  AInv'
<1> USE DEF AInv, AnswersInv
<1>0. /\ TypeOK /\ r.call \in Calls /\ r.stage \in Waiting
      /\ wire' = wire \ {r} /\ UNCHANGED <<call, pc, result>>
      /\ answer' = IF pc[r.call] = r.stage THEN [answer EXCEPT ![r.call] = response] ELSE answer
  BY DEF IInv, TypeOK, Deliver
<1>1. \A c \in Calls : c # r.call \/ pc[r.call] # r.stage => answer'[c] = answer[c]
  BY <1>0 DEF TypeOK
<1>2. pc[r.call] = r.stage => answer'[r.call] = response /\ answer[r.call] = NoAnswer
  BY <1>0 DEF TypeOK, OneRequestOut, Waiting
<1>3. pc[r.call] # r.stage => pc[r.call] = "done" /\ result[r.call].retry
  BY DEF OneRequestOut
<1>4. \A c \in Calls : pc[c] # "idle" /\ Live(call[c].id)' => Live(call[c].id) /\ call[c].id \in DOMAIN mem
  BY <1>0, GoneStaysGone DEF Effect
<1>5. OneRequestOut'
  <2> SUFFICES ASSUME NEW q \in wire'
      PROVE  \/ pc[q.call] = q.stage /\ answer'[q.call] = NoAnswer
             \/ pc[q.call] = "done" /\ result[q.call].retry
    BY <1>0 DEF OneRequestOut
  <2>1. q \in wire /\ q # r /\ q.call \in Calls
    BY <1>0 DEF TypeOK
  <2>2. q \in [call : Calls, stage : Waiting] /\ r \in [call : Calls, stage : Waiting]
    BY <1>0, <2>1 DEF TypeOK
  <2>3. CASE pc[q.call] = "done" /\ result[q.call].retry
    BY <2>3
  <2>4. CASE pc[q.call] = q.stage /\ answer[q.call] = NoAnswer
    <3>1. q.call # r.call \/ pc[r.call] # r.stage
      BY <2>1, <2>2, <2>4, SameRequest
    <3> QED BY <1>1, <2>1, <2>4, <3>1
  <2> QED BY <2>1, <2>3, <2>4 DEF OneRequestOut
<1>6. ResultIsLast'
  BY <1>0, <1>1, <1>2, <1>3 DEF ResultIsLast, Waiting
<1>7. IdsAreOld'
  BY <1>0 DEF IdsAreOld, Effect, OwnersKept
<1>8. MissingIsGone'
  <2> SUFFICES ASSUME NEW c \in Calls,
        \/ answer'[c].status \in {404, 410}
        \/ answer'[c].status = 200 /\ pc[c] \in Fetches /\ answer'[c].items = {}
        \/ answer'[c].status = 200 /\ pc[c] = "delete"
      PROVE  ~Live(call[c].id)'
    BY <1>0 DEF MissingIsGone
  <2>1. CASE c = r.call /\ pc[r.call] = r.stage
    BY <1>0, <1>2, <2>1 DEF Truthful
  <2>2. CASE c # r.call \/ pc[r.call] # r.stage
    <3>1. answer'[c] = answer[c]
      BY <1>1, <2>2
    <3>2. pc[c] # "idle"
      BY <3>1 DEF IInv, IsolationInv, IdleIsBlank, NoAnswer, Response, Waiting
    <3> QED BY <1>4, <3>1, <3>2 DEF MissingIsGone
  <2> QED BY <2>1, <2>2
<1>9. EffectIsKnown'
  <2> SUFFICES ASSUME NEW c \in Calls, NEW i \in DOMAIN mem', WrittenBy(c, i)'
      PROVE  \/ pc[c] \in Mutations /\ answer'[c].status = 200
             \/ pc[c] = "readback"
             \/ /\ pc[c] = "done"
                /\ result[c].code = "ok" \/ result[c].retry \/ result[c].from = "readback"
    BY <1>0 DEF EffectIsKnown
  <2>1. CASE c = r.call /\ i \in touched
    BY <1>0, <1>2, <1>3, <2>1 DEF Effect, Truthful
  <2>2. CASE i \in DOMAIN mem /\ WrittenBy(c, i)
    <3>1. CASE c # r.call \/ pc[r.call] # r.stage
      BY <1>1, <2>2, <3>1 DEF EffectIsKnown
    <3>2. CASE c = r.call /\ pc[r.call] = r.stage
      BY <1>0, <1>2, <2>2, <3>2 DEF EffectIsKnown, NoAnswer, Response, Waiting
    <3> QED BY <3>1, <3>2
  <2> QED BY <2>1, <2>2 DEF Effect
<1>10. UpdateIsVisible'
  <2> SUFFICES ASSUME NEW c \in Calls
      PROVE  /\ (pc[c] = "readback" \/ (pc[c] = "put" /\ answer'[c].status = 200)) =>
                  (Live(call[c].id)' => WrittenBy(c, call[c].id)')
             /\ pc[c] = "readback" => Shows(c, answer'[c].items)
    BY <1>0 DEF UpdateIsVisible
  <2>1. pc[c] = "readback" => Shows(c, answer'[c].items)
    <3>1. CASE c = r.call /\ pc[r.call] = r.stage
      BY <1>2, <3>1 DEF Truthful
    <3>2. CASE c # r.call \/ pc[r.call] # r.stage
      BY <1>1, <3>2 DEF UpdateIsVisible
    <3> QED BY <3>1, <3>2
  <2>2. ASSUME pc[c] = "readback" \/ (pc[c] = "put" /\ answer'[c].status = 200), Live(call[c].id)'
        PROVE  WrittenBy(c, call[c].id)'
    <3>1. Live(call[c].id) /\ call[c].id \in DOMAIN mem /\ call[c].id \in DOMAIN mem'
      BY <1>0, <1>4, <2>2 DEF Live
    <3>2. WrittenBy(c, call[c].id) => WrittenBy(c, call[c].id)'
      BY <1>0, <3>1 DEF Effect
    <3>3. CASE pc[c] = "put" /\ c = r.call /\ r.stage = "put"
      BY <1>0, <1>2, <2>2, <3>1, <3>3 DEF Effect, Truthful
    <3>4. CASE ~(pc[c] = "put" /\ c = r.call /\ r.stage = "put")
      BY <1>1, <2>2, <3>1, <3>2, <3>4 DEF UpdateIsVisible
    <3> QED BY <3>3, <3>4
  <2> QED BY <2>1, <2>2
<1>11. AddIsAnswered'
  <2> SUFFICES ASSUME NEW c \in Calls, pc[c] = "post", answer'[c].status = 200
      PROVE  answer'[c].items = {} \/ Made(c)' \subseteq IdsIn(answer'[c].items)
    BY <1>0 DEF AddIsAnswered
  <2>1. CASE c = r.call
    <3>1. r.stage = "post" /\ answer'[c] = response /\ answer[c] = NoAnswer
      BY <1>2, <1>3, <2>1
    <3>2. \A i \in DOMAIN mem : ~WrittenBy(c, i)
      BY <3>1 DEF EffectIsKnown, NoAnswer, Response
    <3>3. Made(c)' = touched
      BY <2>1, <3>2 DEF Effect, Made
    <3> QED BY <3>1, <3>3 DEF Truthful
  <2>2. CASE c # r.call
    <3>1. \A i \in DOMAIN mem' : WrittenBy(c, i)' <=> i \in DOMAIN mem /\ WrittenBy(c, i)
      BY <2>2 DEF Effect
    <3>2. Made(c)' = Made(c)
      BY <3>1 DEF Effect, OwnersKept, Made
    <3> QED BY <1>1, <2>2, <3>2 DEF AddIsAnswered
  <2> QED BY <2>1, <2>2
<1>12. NotFoundIsTrue'
  <2> SUFFICES ASSUME NEW c \in Calls, result[c].code = "not_found",
                      Live(call[c].id)', mem'[call[c].id].owner = call[c].user
      PROVE  FALSE
    BY <1>0 DEF NotFoundIsTrue
  <2>1. pc[c] # "idle"
    BY DEF IInv, IsolationInv, IdleIsBlank, NoResult
  <2> QED BY <1>4, <2>1 DEF NotFoundIsTrue, Effect, OwnersKept
<1>13. SuccessInv'
  <2> SUFFICES ASSUME NEW c \in Calls, result[c].code = "ok" PROVE Applied(c, result[c].items)'
    BY <1>0 DEF SuccessInv
  <2>1. Applied(c, result[c].items) /\ pc[c] # "idle"
    BY DEF SuccessInv, IInv, IsolationInv, IdleIsBlank, NoResult
  <2>2. c # r.call
    BY <1>0, <1>2, <1>3, <2>1 DEF ResultIsLast, NoResult, Waiting
  <2>3. \A i \in DOMAIN mem' : WrittenBy(c, i)' <=> i \in DOMAIN mem /\ WrittenBy(c, i)
    BY <2>2 DEF Effect
  <2>4. Made(c)' = Made(c)
    BY <2>3 DEF Effect, OwnersKept, Made
  <2> QED BY <1>0, <1>4, <2>1, <2>4 DEF Applied
<1> QED BY <1>5, <1>6, <1>7, <1>8, <1>9, <1>10, <1>11, <1>12, <1>13

LEMMA QuietEffect ==
  ASSUME IInv, UNCHANGED mem, NEW r \in wire PROVE Effect(r, {})
  BY SameMemKeepsOwners DEF IInv, Effect, WrittenBy, Live

(* What an entry appended to the log of a memory changes. *)
LEMMA WriteAdds ==
  ASSUME TypeOK, NEW i \in DOMAIN mem, NEW c, NEW event, NEW content
  PROVE  /\ \A d \in Calls :
              (\E k \in DOMAIN Write(i, c, event, content).log :
                 Write(i, c, event, content).log[k].by = d) <=> WrittenBy(d, i) \/ d = c
         /\ LET log == Write(i, c, event, content).log IN log[Len(log)].event = event
         /\ Write(i, c, event, content).owner = mem[i].owner
<1> DEFINE m == Write(i, c, event, content)
           entry == [by |-> c, event |-> event, content |-> content]
           log == mem[i].log
<1>1. log \in Seq(Events) /\ m.log = Append(log, entry) /\ m.owner = mem[i].owner
  BY MemoryFacts DEF Write
<1> HIDE DEF log, m
<1>2. /\ Len(log) \in Nat /\ DOMAIN log = 1 .. Len(log)
      /\ Len(m.log) = Len(log) + 1 /\ DOMAIN m.log = 1 .. Len(log) + 1
      /\ \A k \in 1 .. Len(log) : m.log[k] = log[k]
      /\ m.log[Len(log) + 1] = entry
  BY <1>1
<1>3. entry.by = c /\ entry.event = event
  OBVIOUS
<1>4. ASSUME NEW d \in Calls
      PROVE  (\E k \in DOMAIN m.log : m.log[k].by = d) <=> (\E k \in DOMAIN log : log[k].by = d) \/ d = c
  <2>1. ASSUME NEW k \in DOMAIN m.log, m.log[k].by = d
        PROVE  (\E h \in DOMAIN log : log[h].by = d) \/ d = c
    BY <1>2, <1>3, <2>1
  <2>2. ASSUME NEW k \in DOMAIN log, log[k].by = d PROVE \E h \in DOMAIN m.log : m.log[h].by = d
    BY <1>2, <2>2
  <2>3. d = c => \E h \in DOMAIN m.log : m.log[h].by = d
    BY <1>2, <1>3
  <2> QED BY <2>1, <2>2, <2>3
<1>5. m.log[Len(m.log)].event = event
  BY <1>2, <1>3
<1> QED BY <1>1, <1>4, <1>5 DEF WrittenBy, log, m

LEMMA ServeGetTells == ASSUME AInv, NEW r \in wire, ServeGet(r) PROVE AInv'
<1> DEFINE id == call[r.call].id
<1>0. IInv /\ IInv' /\ Effect(r, {}) /\ mem' = mem /\ UNCHANGED call /\ r.stage \in Fetches
  BY ServeGetKeeps, QuietEffect DEF AInv, ServeGet, Deliver, DeliverMissing, Fetches
<1>1. CASE Live(id)
  <2> DEFINE response == Response(200, {View(id)})
  <2>1. Deliver(r, response)
    BY <1>1 DEF ServeGet
  <2>2. \A m \in response.items : m.log = mem[id].log
    BY DEF Response, View
  <2>3. pc[r.call] = "readback" => \E k \in DOMAIN mem[id].log : mem[id].log[k].by = r.call
    BY <1>1 DEF AInv, AnswersInv, UpdateIsVisible, WrittenBy, IInv, TypeOK
  <2>4. Truthful(r, response, {})
    BY <1>0, <2>2, <2>3 DEF Truthful, Shows, Response, Fetches
  <2> HIDE DEF response
  <2> QED BY <1>0, <2>1, <2>4, DeliverTells
<1>2. CASE ~Live(id)
  <2>1. PICK status \in {200, 404, 410} : Deliver(r, Response(status, {}))
    BY <1>2 DEF ServeGet, DeliverMissing
  <2>2. ~Live(id)'
    BY <1>0, <1>2 DEF Live
  <2>3. Truthful(r, Response(status, {}), {})
    BY <1>0, <2>2 DEF Truthful, Shows, Response, Fetches
  <2> QED BY <1>0, <2>1, <2>3, DeliverTells
<1> QED BY <1>1, <1>2

LEMMA ServePostTells == ASSUME AInv, NEW r \in wire, ServePost(r) PROVE AInv'
<1> DEFINE k == call[r.call]
           fact == [owner |-> Payload(k).user, scope |-> Payload(k).scope,
                    log |-> <<[by |-> r.call, event |-> "add", content |-> k.content]>>]
           made(n) == {[id |-> i, owner |-> fact.owner, log |-> fact.log] :
                         i \in Len(mem) + 1 .. Len(mem) + n}
           views(known) == {View(i) : i \in known}
<1>1. PICK n \in 0 .. MaxFacts, known \in SUBSET Addressed(k) :
        /\ Len(mem) + n <= MaxMem
        /\ mem' = [i \in 1 .. Len(mem) + n |-> IF i \in DOMAIN mem THEN mem[i] ELSE fact]
        /\ \/ Deliver(r, Response(200, made(n) \cup views(known)))
           \/ Deliver(r, Response(200, {}))
  BY DEF ServePost
<1> DEFINE touched == Len(mem) + 1 .. Len(mem) + n
<1>2. IInv /\ IInv' /\ r.stage = "post" /\ r.call \in Calls /\ n \in Nat
  <2>1. IInv /\ r.stage = "post"
    BY DEF AInv, ServePost
  <2>2. IInv'
    BY <2>1, ServePostKeeps
  <2> QED BY <2>1, <2>2, Mem0Assumption DEF IInv, TypeOK
<1>3. fact.log[1].by = r.call /\ DOMAIN fact.log = 1 .. 1
  OBVIOUS
<1> HIDE DEF fact
<1>4. /\ DOMAIN mem = 1 .. Len(mem) /\ Len(mem) \in Nat
      /\ DOMAIN mem' = 1 .. Len(mem) + n
      /\ \A i \in DOMAIN mem : i \in DOMAIN mem' /\ mem'[i] = mem[i]
      /\ \A i \in touched : i \in DOMAIN mem' /\ i \notin DOMAIN mem /\ mem'[i] = fact
      /\ \A i \in DOMAIN mem' : i \in DOMAIN mem \/ i \in touched
  <2>1. DOMAIN mem = 1 .. Len(mem) /\ Len(mem) \in Nat
    BY <1>2 DEF IInv, TypeOK
  <2> QED BY <1>1, <1>2, <2>1
<1>5. Effect(r, touched)
  <2>1. \A c \in Calls, i \in DOMAIN mem' :
          WrittenBy(c, i)' <=> \/ i \in DOMAIN mem /\ WrittenBy(c, i)
                               \/ c = r.call /\ i \in touched
    BY <1>3, <1>4 DEF WrittenBy
  <2>2. \A i \in DOMAIN mem : Live(i)' => Live(i)
    BY <1>4 DEF Live
  <2>3. OwnersKept
    BY <1>2, <1>4 DEF OwnersKept, IInv, TypeOK
  <2> QED BY <1>2, <1>4, <2>1, <2>2, <2>3 DEF Effect, Mutations
<1>6. touched \subseteq IdsIn(made(n) \cup views(known))
  <2>1. ASSUME NEW i \in touched PROVE i \in IdsIn(made(n) \cup views(known))
    <3>1. [id |-> i, owner |-> fact.owner, log |-> fact.log] \in made(n)
      OBVIOUS
    <3>2. [id |-> i, owner |-> fact.owner, log |-> fact.log].id = i
      OBVIOUS
    <3> QED BY <3>1, <3>2 DEF IdsIn
  <2> QED BY <2>1
<1> HIDE DEF touched, made, views
<1>7. PICK items : /\ items = {} \/ touched \subseteq IdsIn(items)
                   /\ Deliver(r, Response(200, items))
  BY <1>1, <1>6
<1>8. Truthful(r, Response(200, items), touched)
  BY <1>2, <1>7 DEF Truthful, Response, Fetches
<1> QED BY <1>2, <1>5, <1>7, <1>8, DeliverTells

LEMMA ServeWriteTells == ASSUME AInv, NEW r \in wire, ServeWrite(r) PROVE AInv'
<1> DEFINE id == call[r.call].id
           entry == IF r.stage = "put" THEN Write(id, r.call, "update", call[r.call].content)
                    ELSE Write(id, r.call, "delete", Content(id))
           event == IF r.stage = "put" THEN "update" ELSE "delete"
<1>0. IInv /\ IInv' /\ r.stage \in {"put", "delete"} /\ r.call \in Calls /\ TypeOK /\ UNCHANGED call
  BY ServeWriteKeeps DEF AInv, IInv, TypeOK, ServeWrite, Deliver, DeliverMissing
<1>1. CASE Live(id)
  <2>1. mem' = [mem EXCEPT ![id] = entry] /\ Deliver(r, Response(200, {}))
    BY <1>1 DEF ServeWrite
  <2>2. id \in DOMAIN mem
    BY <1>1 DEF Live
  <2>3. /\ \A d \in Calls : (\E k \in DOMAIN entry.log : entry.log[k].by = d) <=>
                              WrittenBy(d, id) \/ d = r.call
        /\ entry.log[Len(entry.log)].event = event
        /\ entry.owner = mem[id].owner
    <3>1. CASE r.stage = "put"
      BY <1>0, <2>2, <3>1, WriteAdds
    <3>2. CASE r.stage # "put"
      <4>1. entry = Write(id, r.call, "delete", Content(id)) /\ event = "delete"
        BY <3>2
      <4> HIDE DEF entry, event
      <4> QED BY <1>0, <2>2, <4>1, WriteAdds
    <3> QED BY <3>1, <3>2
  <2> HIDE DEF entry, event
  <2>4. DOMAIN mem' = DOMAIN mem /\ mem'[id] = entry /\ \A i \in DOMAIN mem : i # id => mem'[i] = mem[i]
    BY <2>1, <2>2
  <2>5. Effect(r, {id})
    <3>1. \A c \in Calls, i \in DOMAIN mem' :
            WrittenBy(c, i)' <=> \/ i \in DOMAIN mem /\ WrittenBy(c, i)
                                 \/ c = r.call /\ i \in {id}
      <4> SUFFICES ASSUME NEW c \in Calls, NEW i \in DOMAIN mem
          PROVE  WrittenBy(c, i)' <=> WrittenBy(c, i) \/ (c = r.call /\ i = id)
        BY <2>4
      <4>1. CASE i = id
        BY <2>3, <2>4, <4>1 DEF WrittenBy
      <4>2. CASE i # id
        BY <2>4, <4>2 DEF WrittenBy
      <4> QED BY <4>1, <4>2
    <3>2. \A i \in DOMAIN mem : Live(i)' => Live(i)
      <4> SUFFICES ASSUME NEW i \in DOMAIN mem, Live(i)' PROVE Live(i)
        OBVIOUS
      <4> QED BY <1>1, <2>4 DEF Live
    <3>3. OwnersKept
      BY <1>0, <2>3, <2>4 DEF OwnersKept, IInv, TypeOK
    <3> QED BY <1>0, <2>2, <2>4, <3>1, <3>2, <3>3 DEF Effect, Mutations
  <2>6. r.stage = "delete" => ~Live(id)'
    BY <1>0, <2>2, <2>3, <2>4 DEF Live, event
  <2>7. Truthful(r, Response(200, {}), {id})
    BY <1>0, <2>6 DEF Truthful, Response, Fetches
  <2> QED BY <1>0, <2>1, <2>5, <2>7, DeliverTells
<1>2. CASE ~Live(id)
  <2>1. PICK status \in {200, 404, 410} : Deliver(r, Response(status, {}))
    BY <1>2 DEF ServeWrite, DeliverMissing
  <2>2. mem' = mem /\ ~Live(id)'
    BY <1>0, <1>2 DEF Live, ServeWrite
  <2>3. Truthful(r, Response(status, {}), {})
    BY <1>0, <2>2 DEF Truthful, Response, Fetches
  <2> QED BY <1>0, <2>1, <2>2, <2>3, QuietEffect, DeliverTells
<1> QED BY <1>1, <1>2

LEMMA ServeBulkTells == ASSUME AInv, NEW r \in wire, ServeBulk(r) PROVE AInv'
<1> DEFINE gone == Addressed(call[r.call])
           entry(i) == Write(i, r.call, "delete", Content(i))
<1>0. /\ IInv /\ IInv' /\ r.stage = "bulk" /\ r.call \in Calls /\ TypeOK
      /\ Deliver(r, Response(200, {}))
      /\ mem' = [i \in DOMAIN mem |-> IF i \in gone THEN entry(i) ELSE mem[i]]
  BY ServeBulkKeeps DEF AInv, IInv, TypeOK, ServeBulk
<1>1. \A i \in gone : i \in DOMAIN mem /\ Live(i)
  BY DEF Addressed, Found
<1>2. ASSUME NEW i \in DOMAIN mem
      PROVE  /\ \A d \in Calls : (\E k \in DOMAIN entry(i).log : entry(i).log[k].by = d) <=>
                              WrittenBy(d, i) \/ d = r.call
             /\ entry(i).owner = mem[i].owner
  BY <1>0, WriteAdds
<1> HIDE DEF gone, entry
<1>3. Effect(r, gone)
  <2>1. \A c \in Calls, i \in DOMAIN mem' :
          WrittenBy(c, i)' <=> \/ i \in DOMAIN mem /\ WrittenBy(c, i)
                               \/ c = r.call /\ i \in gone
    <3> SUFFICES ASSUME NEW c \in Calls, NEW i \in DOMAIN mem
        PROVE  WrittenBy(c, i)' <=> WrittenBy(c, i) \/ (c = r.call /\ i \in gone)
      BY <1>0
    <3>1. CASE i \in gone
      BY <1>0, <1>2, <3>1 DEF WrittenBy
    <3>2. CASE i \notin gone
      BY <1>0, <3>2 DEF WrittenBy
    <3> QED BY <3>1, <3>2
  <2>2. \A i \in DOMAIN mem : Live(i)' => Live(i)
    <3> SUFFICES ASSUME NEW i \in DOMAIN mem, Live(i)', i \notin gone PROVE Live(i)
      BY <1>1
    <3> QED BY <1>0 DEF Live
  <2>3. OwnersKept
    BY <1>0, <1>2 DEF OwnersKept, IInv, TypeOK
  <2> QED BY <1>0, <1>1, <2>1, <2>2, <2>3 DEF Effect, Mutations
<1>4. Truthful(r, Response(200, {}), gone)
  BY <1>0 DEF Truthful, Response, Fetches
<1> QED BY <1>0, <1>3, <1>4, DeliverTells

(* An answer that changes nothing and is neither a fetch nor a write. *)
LEMMA ServeReadTells == ASSUME AInv, NEW r \in wire, ServeRead(r) PROVE AInv'
<1>1. IInv /\ IInv' /\ Effect(r, {}) /\ r.stage \in {"list", "search", "entities", "history"}
  BY ServeReadKeeps, QuietEffect DEF AInv, ServeRead
<1>2. PICK items : Deliver(r, Response(200, items))
  BY DEF ServeRead
<1>3. Truthful(r, Response(200, items), {})
  BY <1>1 DEF Truthful, Response, Fetches
<1> QED BY <1>1, <1>2, <1>3, DeliverTells

LEMMA RefuseTells == ASSUME AInv, NEW r \in wire, Refuse(r), IInv' PROVE AInv'
<1>1. PICK status \in Statuses : Deliver(r, Response(status, {}))
  BY DEF Refuse
<1>2. status \notin {0, 200, 404, 410}
  BY Mem0Assumption
<1>3. Truthful(r, Response(status, {}), {})
  BY <1>2 DEF Truthful, Shows, Response
<1>4. Effect(r, {})
  BY QuietEffect DEF AInv, Refuse
<1> QED BY <1>1, <1>3, <1>4, DeliverTells

LEMMA ServerTells == ASSUME AInv, Server PROVE AInv'
<1>1. PICK r \in wire : \/ ServeGet(r) \/ ServePost(r) \/ ServeWrite(r)
                        \/ ServeBulk(r) \/ ServeRead(r) \/ Refuse(r)
  BY DEF Server
<1>2. IInv'
  BY ServerKeeps DEF AInv
<1> QED
  BY <1>1, <1>2, ServeGetTells, ServePostTells, ServeWriteTells, ServeBulkTells, ServeReadTells,
     RefuseTells

-----------------------------------------------------------------------------
(* The steps of a call *)

(* A call that takes a step leaves the others alone, and its own answer is *)
(* read: what the invariant says of it after the step is this.             *)
Steps(c) ==
  /\ mem' = mem
  /\ \A d \in Calls \ {c} : /\ call'[d] = call[d] /\ pc'[d] = pc[d]
                            /\ answer'[d] = answer[d] /\ result'[d] = result[d]
  /\ \A r \in wire' : r.call # c => r \in wire
  /\ answer'[c] = NoAnswer

Settled(c) ==
  /\ \A r \in wire : r.call = c => pc[c] = r.stage \/ (pc[c] = "done" /\ result[c].retry)
  /\ pc[c] # "done" => result[c] = NoResult
  /\ call[c] \in Invocation /\ call[c].id \in DOMAIN mem \cup {0, BadId, Null}
  /\ pc[c] = "readback" => (Live(call[c].id) => WrittenBy(c, call[c].id))
  /\ pc[c] # "readback" => \A i \in DOMAIN mem : WrittenBy(c, i) =>
       /\ pc[c] = "done"
       /\ result[c].code = "ok" \/ result[c].retry \/ result[c].from = "readback"
  /\ result[c].code = "ok" => ~result[c].retry /\ Applied(c, result[c].items)
  /\ result[c].code = "not_found" => ~(Live(call[c].id) /\ mem[call[c].id].owner = call[c].user)

LEMMA CallTells ==
  ASSUME AInv, IInv', NEW c \in Calls, Steps(c), Settled(c)'
  PROVE  AInv'
<1> USE DEF AInv, AnswersInv
<1>1. answer'[c].status = 0 /\ answer'[c].items = {}
  BY DEF Steps, NoAnswer, Response
<1>2. \A d \in Calls, i \in DOMAIN mem' : i \in DOMAIN mem /\ (WrittenBy(d, i)' <=> WrittenBy(d, i))
  BY DEF Steps, WrittenBy
<1>3. \A d \in Calls : d # c => (Live(call[d].id)' <=> Live(call[d].id))
  BY DEF Steps, Live
<1>4. OneRequestOut'
  <2> SUFFICES ASSUME NEW q \in wire'
      PROVE  \/ pc'[q.call] = q.stage /\ answer'[q.call] = NoAnswer
             \/ pc'[q.call] = "done" /\ result'[q.call].retry
    BY DEF OneRequestOut
  <2>1. q.call \in Calls
    BY DEF IInv, TypeOK
  <2>2. CASE q.call = c
    BY <2>2 DEF Steps, Settled
  <2>3. CASE q.call # c
    BY <2>1, <2>3 DEF Steps, OneRequestOut
  <2> QED BY <2>2, <2>3
<1>5. ResultIsLast'
  <2> SUFFICES ASSUME NEW d \in Calls
      PROVE  /\ pc'[d] # "done" => result'[d] = NoResult
             /\ result'[d].code = "ok" => ~result'[d].retry
    BY DEF ResultIsLast
  <2>1. CASE d = c
    BY <2>1 DEF Steps, Settled
  <2>2. CASE d # c
    BY <2>2 DEF Steps, ResultIsLast
  <2> QED BY <2>1, <2>2
<1>6. IdsAreOld'
  <2> SUFFICES ASSUME NEW d \in Calls, pc'[d] # "idle"
      PROVE  call'[d] \in Invocation /\ call'[d].id \in DOMAIN mem' \cup {0, BadId, Null}
    BY DEF IdsAreOld
  <2>1. CASE d = c
    BY <2>1 DEF Settled
  <2>2. CASE d # c
    BY <2>2 DEF Steps, IdsAreOld
  <2> QED BY <2>1, <2>2
<1>7. MissingIsGone'
  <2> SUFFICES ASSUME NEW d \in Calls,
        \/ answer'[d].status \in {404, 410}
        \/ answer'[d].status = 200 /\ pc'[d] \in Fetches /\ answer'[d].items = {}
        \/ answer'[d].status = 200 /\ pc'[d] = "delete"
      PROVE  ~Live(call[d].id)'
    BY DEF MissingIsGone
  <2>1. d # c
    BY <1>1
  <2> QED BY <1>3, <2>1 DEF Steps, MissingIsGone
<1>8. EffectIsKnown'
  <2> SUFFICES ASSUME NEW d \in Calls, NEW i \in DOMAIN mem', WrittenBy(d, i)'
      PROVE  \/ pc'[d] \in Mutations /\ answer'[d].status = 200
             \/ pc'[d] = "readback"
             \/ /\ pc'[d] = "done"
                /\ result'[d].code = "ok" \/ result'[d].retry \/ result'[d].from = "readback"
    BY DEF EffectIsKnown
  <2>1. CASE d = c
    BY <2>1 DEF Settled
  <2>2. CASE d # c
    <3>1. WrittenBy(d, i) /\ i \in DOMAIN mem
      BY <1>2
    <3> QED BY <2>2, <3>1 DEF Steps, EffectIsKnown
  <2> QED BY <2>1, <2>2
<1>9. UpdateIsVisible'
  <2> SUFFICES ASSUME NEW d \in Calls
      PROVE  /\ (pc'[d] = "readback" \/ (pc'[d] = "put" /\ answer'[d].status = 200)) =>
                  (Live(call[d].id)' => WrittenBy(d, call[d].id)')
             /\ pc'[d] = "readback" => Shows(d, answer'[d].items)
    BY DEF UpdateIsVisible
  <2>1. CASE d = c
    BY <1>1, <2>1 DEF Settled, Shows
  <2>2. CASE d # c
    <3>1. Live(call[d].id)' => call'[d].id \in DOMAIN mem'
      BY DEF Live
    <3>2. Live(call[d].id)' /\ WrittenBy(d, call[d].id) => WrittenBy(d, call[d].id)'
      BY <2>2, <3>1 DEF Steps, WrittenBy
    <3>3. /\ answer'[d] = answer[d] /\ pc'[d] = pc[d]
          /\ (Live(call[d].id)' => Live(call[d].id))
      BY <1>3, <2>2 DEF Steps
    <3> QED BY <3>2, <3>3 DEF UpdateIsVisible
  <2> QED BY <2>1, <2>2
<1>10. AddIsAnswered'
  <2> SUFFICES ASSUME NEW d \in Calls, pc'[d] = "post", answer'[d].status = 200
      PROVE  answer'[d].items = {} \/ Made(d)' \subseteq IdsIn(answer'[d].items)
    BY DEF AddIsAnswered
  <2>1. d # c
    BY <1>1
  <2>2. Made(d)' = Made(d)
    BY <1>2 DEF Steps, Made
  <2> QED BY <2>1, <2>2 DEF Steps, AddIsAnswered
<1>11. NotFoundIsTrue'
  <2> SUFFICES ASSUME NEW d \in Calls, result'[d].code = "not_found"
      PROVE  ~(Live(call[d].id)' /\ mem'[call'[d].id].owner = call'[d].user)
    BY DEF NotFoundIsTrue
  <2>1. CASE d = c
    BY <2>1 DEF Settled
  <2>2. CASE d # c
    BY <1>3, <2>2 DEF Steps, NotFoundIsTrue
  <2> QED BY <2>1, <2>2
<1>12. SuccessInv'
  <2> SUFFICES ASSUME NEW d \in Calls, result'[d].code = "ok"
      PROVE  Applied(d, result[d].items)'
    BY DEF SuccessInv
  <2>1. CASE d = c
    BY <2>1 DEF Settled
  <2>2. CASE d # c
    <3>1. Applied(d, result[d].items)
      BY <2>2 DEF Steps, SuccessInv
    <3>2. Made(d)' = Made(d)
      BY <1>2 DEF Steps, Made
    <3> QED BY <1>3, <2>2, <3>1, <3>2 DEF Steps, Applied
  <2> QED BY <2>1, <2>2
<1> QED BY <1>4, <1>5, <1>6, <1>7, <1>8, <1>9, <1>10, <1>11, <1>12

(* A call returns. *)
LEMMA ReturnTells ==
  ASSUME AInv, IInv', NEW c \in Calls, pc[c] \in Waiting, NEW outcome, Return(c, outcome),
         UNCHANGED <<mem, call>>,
         answer[c].status # 0 \/ outcome.retry,
         outcome.code = "ok" => ~outcome.retry /\ Applied(c, outcome.items),
         outcome.code = "not_found" => ~(Live(call[c].id) /\ mem[call[c].id].owner = call[c].user),
         outcome.code = "ok" \/ outcome.retry \/ outcome.from = "readback"
           \/ \A i \in DOMAIN mem : ~WrittenBy(c, i)
  PROVE  AInv'
<1> USE DEF AInv, AnswersInv
<1>1. /\ mem' = mem /\ call' = call /\ wire' = wire
      /\ pc'[c] = "done" /\ result'[c] = outcome /\ answer'[c] = NoAnswer
      /\ \A d \in Calls \ {c} : pc'[d] = pc[d] /\ answer'[d] = answer[d] /\ result'[d] = result[d]
  BY DEF Return, IInv, TypeOK
<1>2. Steps(c)
  BY <1>1 DEF Steps
<1>3. \A r \in wire : r.call = c => outcome.retry
  BY DEF OneRequestOut, NoAnswer, Response, Waiting
<1>4. call[c] \in Invocation /\ call[c].id \in DOMAIN mem \cup {0, BadId, Null}
  BY DEF IdsAreOld, Waiting
<1>5. Applied(c, outcome.items) => Applied(c, result[c].items)'
  BY <1>1 DEF Applied, Live, Made, WrittenBy
<1>6. (Live(call[c].id)' <=> Live(call[c].id)) /\ \A i \in DOMAIN mem : WrittenBy(c, i)' <=> WrittenBy(c, i)
  BY <1>1 DEF Live, WrittenBy
<1>7. Settled(c)'
  BY <1>1, <1>3, <1>4, <1>5, <1>6 DEF Settled
<1> QED BY <1>2, <1>7, CallTells

(* A call fails: what its status means to the client is true. *)
LEMMA RaiseTells ==
  ASSUME AInv, IInv', NEW c \in Calls, pc[c] \in Waiting, NEW status \in Nat, Raise(c, status),
         UNCHANGED <<mem, call>>,
         answer[c].status # 0 \/ status \in {408, 503},
         status \in {404, 410} => ~(Live(call[c].id) /\ mem[call[c].id].owner = call[c].user),
         \/ status \in {408, 503} \/ pc[c] = "readback"
         \/ \A i \in DOMAIN mem : ~WrittenBy(c, i)
  PROVE  AInv'
<1> DEFINE e == ToolError(call[c].tool, status)
<1>1. /\ e.code # "ok"
      /\ e.code = "not_found" => status \in {404, 410}
      /\ status \in {408, 503} => e.retry
  <2>1. CASE status \in {404, 410} /\ call[c].tool \in ByIdTools
    BY <2>1 DEF ToolError
  <2>2. CASE ~(status \in {404, 410} /\ call[c].tool \in ByIdTools)
    <3>1. e = BackendError(status)
      BY <2>2 DEF ToolError
    <3>2. CASE status = 408
      BY <3>1, <3>2 DEF BackendError
    <3>3. CASE status # 408
      <4>1. e = [code |-> "backend_error", retry |-> status >= 500]
        BY <3>1, <3>3 DEF BackendError
      <4>2. e.code = "backend_error" /\ e.retry = (status >= 500)
        BY <4>1
      <4>3. status = 503 => (status >= 500) = TRUE
        OBVIOUS
      <4>4. status = 503 => e.retry
        BY <4>2, <4>3, Zenon
      <4> QED BY <3>3, <4>2, <4>4
    <3> QED BY <3>2, <3>3
  <2> QED BY <2>1, <2>2
<1> HIDE DEF e
<1> DEFINE outcome == Outcome(c, e.code, e.retry, {})
<1>2. outcome.code = e.code /\ outcome.retry = e.retry /\ outcome.from = pc[c]
  BY DEF Outcome
<1>3. Return(c, outcome)
  BY DEF Raise, e
<1> HIDE DEF outcome
<1> QED BY <1>1, <1>2, <1>3, ReturnTells

(* A call that has its answer sends its next request. *)
LEMMA SendTells ==
  ASSUME AInv, IInv', NEW c \in Calls, pc[c] \in Waiting, answer[c].status = 200,
         NEW stage \in Waiting, Send(c, stage), UNCHANGED <<mem, call, result>>,
         IF stage = "readback" THEN pc[c] = "put" ELSE \A i \in DOMAIN mem : ~WrittenBy(c, i)
  PROVE  AInv'
<1> USE DEF AInv, AnswersInv
<1>1. /\ mem' = mem /\ call' = call /\ result' = result
      /\ wire' = wire \cup {[call |-> c, stage |-> stage]}
      /\ pc'[c] = stage /\ answer'[c] = NoAnswer
      /\ \A d \in Calls \ {c} : pc'[d] = pc[d] /\ answer'[d] = answer[d]
  BY DEF Send, IInv, TypeOK
<1>2. Steps(c)
  BY <1>1 DEF Steps
<1>3. \A r \in wire : r.call # c
  BY DEF OneRequestOut, NoAnswer, Response, Waiting
<1>4. \A r \in wire' : r.call = c => r.stage = stage
  BY <1>1, <1>3
<1>5. call[c] \in Invocation /\ call[c].id \in DOMAIN mem \cup {0, BadId, Null}
  BY DEF IdsAreOld, Waiting
<1>6. (Live(call[c].id)' <=> Live(call[c].id)) /\ \A i \in DOMAIN mem : WrittenBy(c, i)' <=> WrittenBy(c, i)
  BY <1>1 DEF Live, WrittenBy
<1>7. stage = "readback" => (Live(call[c].id)' => WrittenBy(c, call[c].id)')
  BY <1>1, <1>6 DEF UpdateIsVisible, Live
<1>8. result[c] = NoResult
  BY DEF ResultIsLast, Waiting
<1>9. Settled(c)'
  BY <1>1, <1>4, <1>5, <1>6, <1>7, <1>8 DEF Settled, NoResult, Waiting
<1> QED BY <1>2, <1>9, CallTells

LEMMA InvokeTells == ASSUME AInv, IInv', NEW c \in Calls, Invoke(c) PROVE AInv'
<1> USE DEF AInv, AnswersInv
<1>1. PICK tool \in Tools, u \in Users : \E k \in Invocations(tool, u) :
        /\ call' = [call EXCEPT ![c] = k]
        /\ \/ /\ Verdict(k) = "ok"
              /\ Send(c, FirstRequest[tool])
              /\ UNCHANGED result
           \/ Verdict(k) # "ok" /\ Return(c, Outcome(c, Verdict(k), FALSE, {}))
  BY DEF Invoke
<1>2. PICK k \in Invocations(tool, u) :
        /\ call' = [call EXCEPT ![c] = k]
        /\ \/ /\ Verdict(k) = "ok"
              /\ Send(c, FirstRequest[tool])
              /\ UNCHANGED result
           \/ Verdict(k) # "ok" /\ Return(c, Outcome(c, Verdict(k), FALSE, {}))
  BY <1>1
<1>3. pc[c] = "idle" /\ mem' = mem /\ TypeOK /\ TypeOK'
  BY DEF Invoke, IInv
<1>4. call'[c] = k /\ \A d \in Calls \ {c} : call'[d] = call[d]
  BY <1>2, <1>3 DEF TypeOK
<1>5. k \in Invocation /\ k.id \in DOMAIN mem \cup {0, BadId, Null}
  BY <1>3, InvocationTyped DEF Ids
<1>6. \A r \in wire : r.call # c
  BY <1>3 DEF IInv, IsolationInv, RequestsAccepted
<1>7. \A i \in DOMAIN mem : ~WrittenBy(c, i)'
  <2>1. \A i \in DOMAIN mem : ~WrittenBy(c, i)
    BY <1>3 DEF EffectIsKnown, Mutations
  <2> QED BY <1>3, <2>1 DEF WrittenBy
<1>8. result[c] = NoResult
  BY <1>3 DEF ResultIsLast
<1>9. CASE Verdict(k) = "ok" /\ Send(c, FirstRequest[tool]) /\ UNCHANGED result
  <2> DEFINE stage == FirstRequest[tool]
  <2>1. stage \notin {"readback", "idle", "done"}
    BY Mem0Assumption DEF AllTools, FirstRequest
  <2> HIDE DEF stage
  <2>2. /\ wire' = wire \cup {[call |-> c, stage |-> stage]} /\ result' = result
        /\ pc'[c] = stage /\ answer'[c] = NoAnswer
        /\ \A d \in Calls \ {c} : pc'[d] = pc[d] /\ answer'[d] = answer[d]
    BY <1>3, <1>9 DEF Send, TypeOK, stage
  <2>3. \A r \in wire' : r.call = c => r.stage = stage
    BY <1>6, <2>2
  <2>4. Steps(c)
    BY <1>3, <1>4, <2>2 DEF Steps
  <2>5. Settled(c)'
    BY <1>3, <1>4, <1>5, <1>7, <1>8, <2>1, <2>2, <2>3 DEF Settled, NoResult
  <2> QED BY <2>4, <2>5, CallTells
<1>10. CASE Verdict(k) # "ok" /\ Return(c, Outcome(c, Verdict(k), FALSE, {}))
  <2> DEFINE outcome == Outcome(c, Verdict(k), FALSE, {})
  <2>1. outcome.code \notin {"ok", "not_found"}
    BY <1>10 DEF Outcome, Verdict, ContentVerdict, ScopeVerdict, IdVerdict, Check, AndThen
  <2>2. Return(c, outcome)
    BY <1>10
  <2> HIDE DEF outcome
  <2>3. /\ wire' = wire /\ pc'[c] = "done" /\ answer'[c] = NoAnswer /\ result'[c] = outcome
        /\ \A d \in Calls \ {c} : pc'[d] = pc[d] /\ answer'[d] = answer[d] /\ result'[d] = result[d]
    BY <1>3, <2>2 DEF Return, TypeOK
  <2>4. Steps(c)
    BY <1>3, <1>4, <2>3 DEF Steps
  <2>5. Settled(c)'
    BY <1>3, <1>4, <1>5, <1>6, <1>7, <2>1, <2>3 DEF Settled
  <2> QED BY <2>4, <2>5, CallTells
<1> QED BY <1>2, <1>9, <1>10

(* A timeout and a network error tell the client to retry, whatever the    *)
(* request may have done or may still do.                                  *)
LEMMA GiveUpTells ==
  ASSUME AInv, IInv', NEW c \in Calls, Timeout(c) \/ NetworkError(c) PROVE AInv'
<1>1. PICK status \in {408, 503} : GiveUp(c, status)
  BY DEF Timeout, NetworkError
<1> QED BY <1>1, RaiseTells DEF GiveUp

(* What an answered call knows of its own effects. *)
LEMMA AnsweredFacts ==
  ASSUME AInv, NEW c \in Calls, answer[c].status # 0
  PROVE  /\ pc[c] \in Waiting /\ Accepted(c, pc[c]) /\ call[c].tool \in AllTools
         /\ answer[c].status \in Nat
         /\ \A i \in DOMAIN mem : WrittenBy(c, i) =>
              pc[c] = "readback" \/ (pc[c] \in Mutations /\ answer[c].status = 200)
<1>1. answer[c].status \in Nat
  <2>1. TypeOK
    BY DEF AInv, IInv
  <2>2. answer[c] \in [status : {0, 200, 404, 410} \cup Statuses, items : SUBSET Item]
    BY <2>1 DEF TypeOK
  <2>3. answer[c].status \in {0, 200, 404, 410} \cup Statuses
    BY <2>2
  <2>4. \A status \in Statuses : status \in Nat
    BY Mem0Assumption
  <2> QED BY <2>3, <2>4
<1> USE DEF AInv, AnswersInv, IInv, IsolationInv
<1>2. pc[c] \in Waiting
  BY DEF IdleIsBlank, NoAnswer, Response
<1>3. Accepted(c, pc[c])
  BY <1>2 DEF WaitersAccepted
<1>4. \A i \in DOMAIN mem : WrittenBy(c, i) =>
        pc[c] = "readback" \/ (pc[c] \in Mutations /\ answer[c].status = 200)
  BY <1>2 DEF EffectIsKnown, Waiting
<1> QED BY <1>1, <1>2, <1>3, <1>4, Mem0Assumption DEF Accepted, Invocation

(* A fetch that found nothing of the caller's: there is nothing of his.    *)
LEMMA FetchFailsTruly ==
  ASSUME AInv, NEW c \in Calls, pc[c] \in {"get", "verify"}, answer[c].status = 200, Fetched(c) = {}
  PROVE  ~(Live(call[c].id) /\ mem[call[c].id].owner = call[c].user)
<1>1. CASE answer[c].items = {}
  BY <1>1 DEF AInv, AnswersInv, MissingIsGone, Fetches
<1>2. CASE answer[c].items # {}
  <2>1. PICK m \in answer[c].items : m.owner # call[c].user
    BY <1>2 DEF Fetched
  <2>2. m.id = call[c].id /\ m.owner = mem[m.id].owner
    BY DEF AInv, IInv, IsolationInv, FetchIsExact, Fetches
  <2> QED BY <2>1, <2>2
<1> QED BY <1>1, <1>2

LEMMA ResumeTells == ASSUME AInv, IInv', NEW c \in Calls, Resume(c) PROVE AInv'
<1>1. mem' = mem
  BY DEF Resume
<1>2. ASSUME ResumeError(c) PROVE AInv'
  <2>1. answer[c].status >= 400 /\ Raise(c, answer[c].status) /\ UNCHANGED call
    BY <1>2 DEF ResumeError
  <2>2. answer[c].status # 0 /\ answer[c].status # 200
    BY <2>1
  <2>3. pc[c] = "readback" \/ \A i \in DOMAIN mem : ~WrittenBy(c, i)
    BY <2>2, AnsweredFacts
  <2>4. answer[c].status \in {404, 410} => ~Live(call[c].id)
    BY DEF AInv, AnswersInv, MissingIsGone
  <2> QED BY <1>1, <2>1, <2>2, <2>3, <2>4, AnsweredFacts, RaiseTells
<1>3. ASSUME ResumeVerify(c) PROVE AInv'
  <2>1. pc[c] = "verify" /\ answer[c].status = 200 /\ UNCHANGED call
    BY <1>3 DEF ResumeVerify
  <2>2. \A i \in DOMAIN mem : ~WrittenBy(c, i)
    BY <2>1, AnsweredFacts DEF Mutations
  <2>3. CASE Fetched(c) = {} /\ Raise(c, 404)
    BY <1>1, <2>1, <2>2, <2>3, AnsweredFacts, FetchFailsTruly, RaiseTells
  <2>4. CASE Send(c, Guarded[call[c].tool]) /\ UNCHANGED result
    <3> DEFINE next == Guarded[call[c].tool]
    <3>1. call[c].tool \in AllTools /\ "verify" \in Stages(call[c].tool)
      BY <2>1, AnsweredFacts DEF Accepted
    <3>2. next \in Waiting /\ next # "readback"
      BY <3>1 DEF AllTools, Stages, FirstRequest, Guarded, Waiting
    <3>3. Send(c, next)
      BY <2>4
    <3> HIDE DEF next
    <3> QED BY <1>1, <2>1, <2>2, <2>4, <3>2, <3>3, AnsweredFacts, SendTells
  <2> QED BY <1>3, <2>3, <2>4 DEF ResumeVerify
<1>4. ASSUME ResumePut(c) PROVE AInv'
  <2>1. pc[c] = "put" /\ answer[c].status = 200 /\ Send(c, "readback") /\ UNCHANGED <<call, result>>
    BY <1>4 DEF ResumePut
  <2> QED BY <1>1, <2>1, SendTells DEF Waiting
<1>5. ASSUME ResumeFetch(c) PROVE AInv'
  <2>1. pc[c] \in {"get", "readback"} /\ answer[c].status = 200 /\ UNCHANGED call
    BY <1>5 DEF ResumeFetch
  <2>2. CASE Fetched(c) = {} /\ Raise(c, IF pc[c] = "get" THEN 404 ELSE 503)
    <3>1. CASE pc[c] = "get"
      <4>1. \A i \in DOMAIN mem : ~WrittenBy(c, i)
        BY <2>1, <3>1, AnsweredFacts DEF Mutations
      <4> QED BY <1>1, <2>1, <2>2, <3>1, <4>1, AnsweredFacts, FetchFailsTruly, RaiseTells
    <3>2. CASE pc[c] = "readback"
      BY <1>1, <2>1, <2>2, <3>2, AnsweredFacts, RaiseTells
    <3> QED BY <2>1, <3>1, <3>2
  <2>3. CASE Fetched(c) # {} /\ Return(c, Outcome(c, "ok", FALSE, Fetched(c)))
    <3>1. call[c].tool \in {"get_memory", "update_memory"}
      BY <2>1, AnsweredFacts DEF Accepted, Stages, AllTools, FirstRequest, Guarded
    <3>2. call[c].tool = "update_memory" => pc[c] = "readback"
      BY <2>1, AnsweredFacts DEF Accepted, Stages, FirstRequest, Guarded
    <3>3. Applied(c, Fetched(c))
      BY <2>3, <3>1, <3>2 DEF Applied, Fetched, Shows, AInv, AnswersInv, UpdateIsVisible
    <3> DEFINE outcome == Outcome(c, "ok", FALSE, Fetched(c))
    <3>4. outcome.code = "ok" /\ outcome.retry = FALSE /\ Applied(c, outcome.items)
      BY <3>3 DEF Outcome
    <3>5. Return(c, outcome)
      BY <2>3
    <3> HIDE DEF outcome
    <3> QED BY <1>1, <2>1, <3>4, <3>5, AnsweredFacts, ReturnTells
  <2> QED BY <1>5, <2>2, <2>3 DEF ResumeFetch
<1>6. ASSUME ResumeLast(c) PROVE AInv'
  <2>1. /\ pc[c] \in {"post", "search", "list", "entities", "bulk", "delete", "history"}
        /\ answer[c].status = 200 /\ UNCHANGED call
    BY <1>6 DEF ResumeLast
  <2>2. pc[c] \in Stages(call[c].tool) /\ call[c].tool \in AllTools /\ call[c].rest \in Rest(call[c].tool)
    BY <2>1, AnsweredFacts DEF Accepted
  <2>3. CASE call[c].rest = "bad_cursor" /\ Return(c, Outcome(c, "validation_error", FALSE, {}))
    <3>1. call[c].tool = "list_memories"
      BY <2>2, <2>3 DEF Rest
    <3>2. pc[c] = "list"
      BY <2>2, <3>1 DEF Stages, FirstRequest, Guarded
    <3>3. \A i \in DOMAIN mem : ~WrittenBy(c, i)
      BY <2>1, <3>2, AnsweredFacts DEF Mutations
    <3> DEFINE outcome == Outcome(c, "validation_error", FALSE, {})
    <3>4. outcome.code = "validation_error"
      BY DEF Outcome
    <3>5. Return(c, outcome)
      BY <2>3
    <3> HIDE DEF outcome
    <3> QED BY <1>1, <2>1, <3>3, <3>4, <3>5, AnsweredFacts, ReturnTells
  <2>4. ASSUME NEW items, pc[c] # "entities" => items = answer[c].items,
               Return(c, Outcome(c, "ok", FALSE, items))
        PROVE  AInv'
    <3>1. call[c].tool # "update_memory"
      BY <2>1, <2>2 DEF Stages, FirstRequest, Guarded
    <3>2. call[c].tool = "delete_memory" => pc[c] = "delete"
      BY <2>1, <2>2 DEF Stages, FirstRequest, Guarded
    <3>3. call[c].tool = "add_memory" => pc[c] = "post"
      BY <2>2 DEF Stages, FirstRequest, Guarded
    <3>4. Applied(c, items)
      BY <2>1, <2>4, <3>1, <3>2, <3>3 DEF Applied, AInv, AnswersInv, MissingIsGone, AddIsAnswered
    <3> DEFINE outcome == Outcome(c, "ok", FALSE, items)
    <3>5. outcome.code = "ok" /\ outcome.retry = FALSE /\ Applied(c, outcome.items)
      BY <3>4 DEF Outcome
    <3>6. Return(c, outcome)
      BY <2>4
    <3> HIDE DEF outcome
    <3> QED BY <1>1, <2>1, <3>5, <3>6, AnsweredFacts, ReturnTells
  <2> QED BY <1>6, <2>3, <2>4 DEF ResumeLast
<1> QED BY <1>2, <1>3, <1>4, <1>5, <1>6 DEF Resume

LEMMA StutterTells == ASSUME AInv, UNCHANGED vars PROVE AInv'
<1> USE DEF vars, AInv, AnswersInv
<1>1. IInv'
  BY StutterKeeps
<1>2. OneRequestOut' /\ ResultIsLast' /\ IdsAreOld'
  BY DEF OneRequestOut, ResultIsLast, IdsAreOld
<1>3. MissingIsGone' /\ EffectIsKnown' /\ NotFoundIsTrue'
  BY DEF MissingIsGone, EffectIsKnown, NotFoundIsTrue, Live, WrittenBy
<1>4. UpdateIsVisible' /\ AddIsAnswered' /\ SuccessInv'
  BY DEF UpdateIsVisible, AddIsAnswered, SuccessInv, Applied, Made, Live, WrittenBy
<1> QED BY <1>1, <1>2, <1>3, <1>4

LEMMA AnswersInductive == AInv /\ [Next]_vars => AInv'
<1> SUFFICES ASSUME AInv, [Next]_vars PROVE AInv'
  OBVIOUS
<1>1. IInv'
  BY Inductive DEF AInv
<1>2. ASSUME NEW c \in Calls, Invoke(c) PROVE AInv'
  BY <1>1, <1>2, InvokeTells
<1>3. ASSUME NEW c \in Calls, Timeout(c) \/ NetworkError(c) PROVE AInv'
  BY <1>1, <1>3, GiveUpTells
<1>4. ASSUME NEW c \in Calls, Resume(c) PROVE AInv'
  BY <1>1, <1>4, ResumeTells
<1>5. CASE Server
  BY <1>5, ServerTells
<1>6. CASE Quiet \/ UNCHANGED vars
  BY <1>6, StutterTells DEF Quiet
<1> QED BY <1>2, <1>3, <1>4, <1>5, <1>6 DEF Next

THEOREM AnswersInvariance == Spec => []AInv
  BY AnswersInitially, AnswersInductive, PTL DEF Spec

(* The invariant the three theorems below rest on, as the runs check it:   *)
(* what is on the wire, what travels back and what was written agree.      *)
THEOREM AnswersInvariant == Spec => []AnswersInv
<1>1. AInv => AnswersInv
  BY DEF AInv
<1> QED BY <1>1, AnswersInvariance, PTL

(* A success is real: an update that is confirmed returns a memory that    *)
(* shows its write, the memory a delete confirms is gone for good, and an  *)
(* add that names memories names every one it made, for any number of      *)
(* calls.                                                                  *)
THEOREM SuccessesAreApplied == Spec => []SuccessIsApplied
<1>1. AInv => SuccessIsApplied
  BY SuccessSplit DEF AInv
<1> QED BY <1>1, AnswersInvariance, PTL

(* "not_found" is never told about a live memory of the caller, not even   *)
(* when the answer comes from a write or a read-back that lost a race.     *)
THEOREM NotFoundsAreTrue == Spec => []NotFoundIsTrue
<1>1. AInv => NotFoundIsTrue
  BY DEF AInv
<1> QED BY <1>1, AnswersInvariance, PTL

(* retry = false is final: such a call changed nothing and no request of   *)
(* it that could is left; only a read-back that mem0 refused leaves the    *)
(* update before it in place.                                              *)
THEOREM FinalErrorsHaveNoEffect == Spec => []FinalErrorMeansNoEffect
<1>1. ASSUME AInv PROVE FinalErrorMeansNoEffect
  <2> SUFFICES ASSUME NEW c \in Calls, result[c].code \notin {"ok", "none"}, ~result[c].retry
      PROVE  /\ \A r \in wire : r.call = c => r.stage \notin Mutations
             /\ result[c].from = "readback" \/ Made(c) = {}
    BY DEF FinalErrorMeansNoEffect
  <2> USE <1>1 DEF AInv, AnswersInv
  <2>1. pc[c] = "done"
    BY DEF ResultIsLast, NoResult
  <2>2. \A r \in wire : r.call # c \/ pc[c] = r.stage
    BY DEF OneRequestOut
  <2>3. \A r \in wire : r.stage \in Waiting
    BY DEF IInv, TypeOK
  <2> QED BY <2>1, <2>2, <2>3 DEF EffectIsKnown, Made, Waiting, Mutations
<1> QED BY <1>1, AnswersInvariance, PTL

=============================================================================

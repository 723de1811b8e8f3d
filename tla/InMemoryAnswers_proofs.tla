---------------------- MODULE InMemoryAnswers_proofs ----------------------
(***************************************************************************)
(* Proofs about what the tools over the in-memory backend answer: the      *)
(* caller's memories only, searches that keep the best, and exports that   *)
(* say whether they are cut, for any tenants, scores, limits and cursors.  *)
(***************************************************************************)
EXTENDS InMemoryBackend_proofs, FiniteSetTheorems

-----------------------------------------------------------------------------
(* Sorting *)

(* An order on S in which any two different elements are comparable.       *)
TotalOrder(S, order) ==
  /\ \A i \in S : <<i, i>> \notin order
  /\ \A i, j \in S : i = j \/ <<i, j>> \in order \/ <<j, i>> \in order
  /\ \A i, j, k \in S : <<i, j>> \in order /\ <<j, k>> \in order => <<i, k>> \in order

Before(S, order, i) == {j \in S : <<j, i>> \in order}

(* An element has fewer elements in front of it than each later one.       *)
LEMMA PlacesFollowOrder ==
  ASSUME NEW S, IsFiniteSet(S), NEW order, TotalOrder(S, order), NEW i \in S
  PROVE  /\ Cardinality(Before(S, order, i)) \in 0 .. Cardinality(S) - 1
         /\ \A j \in S : <<i, j>> \in order =>
              Cardinality(Before(S, order, i)) < Cardinality(Before(S, order, j))
<1>1. ASSUME NEW T, T \subseteq S, NEW U, U \subseteq T, U # T
      PROVE  Cardinality(U) \in Nat /\ Cardinality(T) \in Nat /\ Cardinality(U) < Cardinality(T)
  <2>1. IsFiniteSet(T) /\ IsFiniteSet(U)
    BY <1>1, FS_Subset
  <2>2. Cardinality(U) <= Cardinality(T) /\ Cardinality(U) # Cardinality(T)
    BY <1>1, <2>1, FS_Subset
  <2> QED BY <2>1, <2>2, FS_CardinalityType
<1>2. Before(S, order, i) \subseteq S /\ Before(S, order, i) # S
  BY DEF Before, TotalOrder
<1>3. Cardinality(Before(S, order, i)) \in 0 .. Cardinality(S) - 1
  BY <1>1, <1>2
<1>4. ASSUME NEW j \in S, <<i, j>> \in order
      PROVE  Cardinality(Before(S, order, i)) < Cardinality(Before(S, order, j))
  <2>1. Before(S, order, i) \subseteq Before(S, order, j)
    BY <1>4 DEF Before, TotalOrder
  <2>2. i \in Before(S, order, j) /\ i \notin Before(S, order, i)
    BY <1>4 DEF Before, TotalOrder
  <2>3. Before(S, order, j) \subseteq S
    BY DEF Before
  <2> QED BY <1>1, <2>1, <2>2, <2>3
<1> QED BY <1>3, <1>4

(* InOrder lists each element of S once, in the order.                     *)
LEMMA InOrderFacts ==
  ASSUME NEW S, IsFiniteSet(S), NEW order, TotalOrder(S, order)
  PROVE  /\ InOrder(S, order) \in Seq(S)
         /\ Range(InOrder(S, order)) = S
         /\ \A j, k \in DOMAIN InOrder(S, order) :
              j < k => <<InOrder(S, order)[j], InOrder(S, order)[k]>> \in order
<1> DEFINE n == Cardinality(S)
           place == [i \in S |-> Cardinality(Before(S, order, i)) + 1]
           list == InOrder(S, order)
<1>1. n \in Nat
  BY FS_CardinalityType
<1>2. \A i \in S : place[i] \in 1 .. n
  BY <1>1, PlacesFollowOrder
<1>3. \A i, j \in S : <<i, j>> \in order => place[i] < place[j]
  <2>1. \A i \in S : Cardinality(Before(S, order, i)) \in Nat
    BY <1>1, PlacesFollowOrder
  <2> QED BY <2>1, PlacesFollowOrder
<1> HIDE DEF n
<1>4. place \in Injection(S, 1 .. n)
  <2>1. place \in [S -> 1 .. n]
    BY <1>2
  <2>2. \A i, j \in S : place[i] = place[j] => i = j
    <3> SUFFICES ASSUME NEW i \in S, NEW j \in S, i # j PROVE place[i] # place[j]
      OBVIOUS
    <3>1. place[i] \in Nat /\ place[j] \in Nat
      BY <1>1, <1>2
    <3>2. <<i, j>> \in order \/ <<j, i>> \in order
      BY DEF TotalOrder
    <3> QED BY <1>3, <3>1, <3>2
  <2> QED BY <2>1, <2>2 DEF Injection, IsInjective
<1>5. place \in Surjection(S, 1 .. n)
  <2>1. IsFiniteSet(1 .. n) /\ Cardinality(1 .. n) = n
    BY <1>1, FS_Interval
  <2> QED BY <1>4, <2>1, FS_Injection DEF n
<1>6. \A i \in S : /\ Cardinality(Before(S, order, i)) \in Nat
                   /\ place[i] = Cardinality(Before(S, order, i)) + 1
  BY <1>1, PlacesFollowOrder DEF n
<1> HIDE DEF place
<1>7. \A k \in 1 .. n : \E i \in S : place[i] = k
  BY <1>5 DEF Surjection
<1> DEFINE pick(k) == CHOOSE i \in S : Cardinality(Before(S, order, i)) = k - 1
<1>8. list = [k \in 1 .. n |-> pick(k)]
  BY DEF InOrder, Before, n
<1>9. \A k \in 1 .. n : pick(k) \in S /\ place[pick(k)] = k
  <2> TAKE k \in 1 .. n
  <2>1. \A i \in S : place[i] = k <=> Cardinality(Before(S, order, i)) = k - 1
    BY <1>1, <1>6
  <2>2. \E i \in S : Cardinality(Before(S, order, i)) = k - 1
    BY <1>7, <2>1
  <2>3. pick(k) \in S /\ Cardinality(Before(S, order, pick(k))) = k - 1
    BY <2>2
  <2> QED BY <2>1, <2>3
<1>10. \A i \in S : place[i] \in 1 .. n
  BY <1>2 DEF place
<1> HIDE DEF list, pick
<1>11. list \in Seq(S) /\ DOMAIN list = 1 .. n /\ \A k \in 1 .. n : list[k] \in S /\ place[list[k]] = k
  <2>1. list \in [1 .. n -> S] /\ \A k \in 1 .. n : list[k] = pick(k)
    BY <1>8, <1>9
  <2> QED BY <1>1, <1>9, <2>1
<1>12. Range(list) = S
  <2>1. \A i \in S : list[place[i]] = i
    BY <1>4, <1>10, <1>11 DEF Injection, IsInjective
  <2> QED BY <1>10, <1>11, <2>1 DEF Range
<1>13. ASSUME NEW j \in 1 .. n, NEW k \in 1 .. n, j < k PROVE <<list[j], list[k]>> \in order
  <2>1. list[j] # list[k]
    BY <1>11, <1>13
  <2>2. ~ (<<list[k], list[j]>> \in order)
    <3>1. <<list[k], list[j]>> \in order => k < j
      BY <1>11, <1>3 DEF place
    <3> QED BY <1>13, <3>1, <1>1
  <2> QED BY <1>11, <2>1, <2>2 DEF TotalOrder
<1> QED BY <1>11, <1>12, <1>13 DEF list

-----------------------------------------------------------------------------
(* Listings and hits *)

LEMMA ScopeFacts ==
  ASSUME TypeOK, NEW u, NEW scope
  PROVE  /\ InScope(u, scope) \in SUBSET DOMAIN store /\ IsFiniteSet(InScope(u, scope))
         /\ \A i \in InScope(u, scope) : i \in Nat /\ Owns(u, i)
<1>1. DOMAIN store \subseteq 1 .. nextId - 1 /\ nextId \in Nat
  BY DEF TypeOK
<1>2. IsFiniteSet(DOMAIN store)
  <2>1. IsFiniteSet(1 .. nextId - 1)
    BY <1>1, FS_Interval
  <2> QED BY <1>1, <2>1, FS_Subset
<1>3. InScope(u, scope) \subseteq DOMAIN store /\ \A i \in InScope(u, scope) : Owns(u, i)
  BY DEF InScope
<1>4. IsFiniteSet(InScope(u, scope))
  BY <1>2, <1>3, FS_Subset
<1> QED BY <1>1, <1>3, <1>4

LEMMA ListingFacts ==
  ASSUME TypeOK, NEW u, NEW scope
  PROVE  /\ Listing(u, scope) \in Seq(InScope(u, scope))
         /\ Range(Listing(u, scope)) = InScope(u, scope)
         /\ \A j, k \in DOMAIN Listing(u, scope) :
              j < k => Listing(u, scope)[j] # Listing(u, scope)[k]
<1> DEFINE S == InScope(u, scope)
<1>1. IsFiniteSet(S) /\ S \subseteq Nat
  BY ScopeFacts
<1> HIDE DEF S
<1>2. \A i, j : <<i, j>> \in OldestFirst(S) <=> i \in S /\ j \in S /\ i < j
  BY DEF OldestFirst
<1>3. TotalOrder(S, OldestFirst(S))
  BY <1>1, <1>2 DEF TotalOrder
<1>4. Listing(u, scope) = InOrder(S, OldestFirst(S))
  BY DEF Listing, S
<1>5. /\ Listing(u, scope) \in Seq(S) /\ Range(Listing(u, scope)) = S
      /\ \A j, k \in DOMAIN Listing(u, scope) :
           j < k => <<Listing(u, scope)[j], Listing(u, scope)[k]>> \in OldestFirst(S)
  BY <1>1, <1>3, <1>4, InOrderFacts
<1>6. \A j, k \in DOMAIN Listing(u, scope) :
        j < k => Listing(u, scope)[j] # Listing(u, scope)[k]
  <2>1. \A i \in S : ~ (<<i, i>> \in OldestFirst(S))
    BY <1>1, <1>2
  <2>2. \A j \in DOMAIN Listing(u, scope) : Listing(u, scope)[j] \in S
    BY <1>5
  <2> QED BY <1>5, <2>1, <2>2
<1> QED BY <1>5, <1>6 DEF S

LEMMA RankFacts ==
  ASSUME TypeOK, NEW query \in Queries, NEW i \in DOMAIN store
  PROVE  Rank(query, i) \in Nat
<1>1. store[i].content \in Contents
  BY DEF TypeOK, Records
<1> QED BY <1>1, InMemoryAssumption DEF Rank

(* The hits are the candidates, and of two hits the earlier one has the    *)
(* better score or is the older one of the same score.                     *)
LEMMA HitFacts ==
  ASSUME TypeOK, NEW u, NEW query \in Queries, NEW scope
  PROVE  /\ Hits(u, query, scope) \in Seq(Candidates(u, query, scope))
         /\ Range(Hits(u, query, scope)) = Candidates(u, query, scope)
         /\ \A j, k \in DOMAIN Hits(u, query, scope) : j < k =>
              LET h == Hits(u, query, scope)
              IN  \/ Rank(query, h[j]) > Rank(query, h[k])
                  \/ Rank(query, h[j]) = Rank(query, h[k]) /\ h[j] < h[k]
<1> DEFINE S == Candidates(u, query, scope)
           R == BestFirst(S, query)
<1>1. S \subseteq InScope(u, scope)
  BY DEF Candidates
<1>2. IsFiniteSet(S)
  BY <1>1, ScopeFacts, FS_Subset
<1>3. \A i \in S : i \in Nat /\ Rank(query, i) \in Nat
  BY <1>1, ScopeFacts, RankFacts
<1>4. Hits(u, query, scope) = InOrder(S, R)
  BY DEF Hits
<1> HIDE DEF S
<1>5. \A i, j : <<i, j>> \in R <=>
        /\ i \in S /\ j \in S
        /\ Rank(query, i) > Rank(query, j) \/ (Rank(query, i) = Rank(query, j) /\ i < j)
  BY DEF BestFirst
<1> HIDE DEF R
<1>6. TotalOrder(S, R)
  BY <1>3, <1>5 DEF TotalOrder
<1>7. /\ InOrder(S, R) \in Seq(S) /\ Range(InOrder(S, R)) = S
      /\ \A j, k \in DOMAIN InOrder(S, R) :
           j < k => <<InOrder(S, R)[j], InOrder(S, R)[k]>> \in R
  BY <1>2, <1>6, InOrderFacts
<1> QED BY <1>4, <1>5, <1>7 DEF S

(* A page holds elements of the list only, whatever the cursor.            *)
LEMMA PageOfList ==
  ASSUME NEW S, NEW list \in Seq(S), NEW start \in Int, NEW limit \in Nat
  PROVE  Page(list, start, limit) \in Seq(S) /\ Range(Page(list, start, limit)) \subseteq Range(list)
<1> DEFINE lo == SliceBound(Len(list), start) + 1
           hi == SliceBound(Len(list), start + limit)
<1>1. lo \in Nat \ {0} /\ hi \in 0 .. Len(list)
  BY DEF SliceBound
<1>2. Page(list, start, limit) = SubSeq(list, lo, hi)
  BY DEF Page
<1> HIDE DEF lo, hi
<1>3. /\ SubSeq(list, lo, hi) = [k \in 1 .. (IF lo <= hi THEN hi - lo + 1 ELSE 0) |-> list[lo + k - 1]]
      /\ SubSeq(list, lo, hi) \in Seq(S)
  BY <1>1
<1>4. \A k \in DOMAIN SubSeq(list, lo, hi) : lo + k - 1 \in DOMAIN list /\ SubSeq(list, lo, hi)[k] = list[lo + k - 1]
  BY <1>1, <1>3
<1>5. \A k \in DOMAIN SubSeq(list, lo, hi) : SubSeq(list, lo, hi)[k] \in Range(list)
  BY <1>4 DEF Range
<1>6. Range(SubSeq(list, lo, hi)) \subseteq Range(list)
  BY <1>5 DEF Range
<1> QED BY <1>2, <1>3, <1>6

(* The first page is what the list starts with.                            *)
LEMMA FirstPage ==
  ASSUME NEW S, NEW list \in Seq(S), NEW limit \in Nat
  PROVE  LET page == Page(list, 0, limit)
         IN  /\ page \in Seq(S)
             /\ Len(page) = IF limit < Len(list) THEN limit ELSE Len(list)
             /\ \A k \in DOMAIN page : k \in DOMAIN list /\ page[k] = list[k]
<1>1. SliceBound(Len(list), 0) = 0
  BY DEF SliceBound
<1>2. PICK hi : hi = IF limit < Len(list) THEN limit ELSE Len(list)
  OBVIOUS
<1>3. hi \in 0 .. Len(list) /\ SliceBound(Len(list), 0 + limit) = hi
  BY <1>2 DEF SliceBound
<1>4. Page(list, 0, limit) = SubSeq(list, 1, hi)
  BY <1>1, <1>3 DEF Page
<1>5. /\ SubSeq(list, 1, hi) \in Seq(S) /\ Len(SubSeq(list, 1, hi)) = hi
      /\ \A k \in 1 .. hi : SubSeq(list, 1, hi)[k] = list[k]
  BY <1>3
<1> QED BY <1>2, <1>3, <1>4, <1>5

-----------------------------------------------------------------------------
(* No reply names a memory of another tenant *)

LEMMA OwnScope ==
  ASSUME NEW u, NEW scope, NEW i \in InScope(u, scope)
  PROVE  i \in DOMAIN store /\ store[i].user_id = u
  BY DEF InScope, Owns

(* The answer of the tools that name memories one by one.                  *)
LEMMA AnswerIsOwn ==
  ASSUME NEW tool, tool \notin {"list_memories", "export_memories"},
         NEW u, NEW args, NEW verdict, NEW out,
         Respond(tool, u, args, verdict, out),
         verdict = "ok" => \A i \in Range(out) :
           \/ i \in DOMAIN store /\ store[i].user_id = u
           \/ i \in DOMAIN store' /\ store'[i].user_id = u
  PROVE  ReplyIsOwn
<1>1. /\ reply'.tool = tool /\ reply'.user = u /\ reply'.code = verdict
      /\ reply'.out = IF verdict = "ok" THEN out ELSE <<>>
  BY DEF Respond
<1>2. Shown(reply') = Range(reply'.out)
  BY <1>1 DEF Shown
<1>3. Range(<<>>) = {}
  BY DEF Range
<1> QED BY <1>1, <1>2, <1>3 DEF ReplyIsOwn

LEMMA FoundIsOwn ==
  ASSUME NEW u, NEW id, FoundVerdict(u, id) = "ok"
  PROVE  id \in DOMAIN store /\ store[id].user_id = u /\ Range(<<id>>) = {id}
  BY DEF FoundVerdict, Owns, Range

LEMMA AddIsOwn ==
  ASSUME IInv, NEW u \in Users, NEW content, NEW scope, NEW meta, NEW now,
         AddMemory(u, content, scope, meta, now)
  PROVE  ReplyIsOwn
<1> DEFINE verdict == AndThen(ContentVerdict(content), ScopeVerdict(scope))
           memory == [user_id |-> u, content |-> content, scope |-> CleanScope(scope),
                      metadata |-> OrEmpty(meta), created_at |-> now, updated_at |-> Null]
<1>1. Respond("add_memory", u, <<content, scope, meta>>, verdict, <<nextId>>)
  BY DEF AddMemory
<1>2. verdict = "ok" => store' = Extend(store, nextId, memory)
  BY DEF AddMemory
<1>3. Range(<<nextId>>) = {nextId} /\ memory.user_id = u
  BY DEF Range
<1> HIDE DEF memory, verdict
<1>4. verdict = "ok" => nextId \in DOMAIN store' /\ store'[nextId].user_id = u
  BY <1>2, <1>3 DEF Extend
<1> QED BY <1>1, <1>3, <1>4, AnswerIsOwn

LEMMA WriteIsOwn == ASSUME IInv, NEW u \in Users, Write(u) PROVE ReplyIsOwn
<1>1. ASSUME NEW id, NEW content, NEW meta, NEW now, UpdateMemory(u, id, content, meta, now)
      PROVE  ReplyIsOwn
  <2> DEFINE verdict == AndThen(AndThen(IdVerdict(id), ContentVerdict(content)), FoundVerdict(u, id))
  <2>1. Respond("update_memory", u, <<id, content, meta>>, verdict, <<id>>)
    BY <1>1 DEF UpdateMemory
  <2>2. verdict = "ok" => FoundVerdict(u, id) = "ok"
    BY DEF AndThen
  <2> QED BY <2>1, <2>2, FoundIsOwn, AnswerIsOwn
<1>2. ASSUME NEW id, DeleteMemory(u, id) PROVE ReplyIsOwn
  <2> DEFINE verdict == AndThen(IdVerdict(id), FoundVerdict(u, id))
  <2>1. Respond("delete_memory", u, <<id>>, verdict, <<id>>)
    BY <1>2 DEF DeleteMemory
  <2>2. verdict = "ok" => FoundVerdict(u, id) = "ok"
    BY DEF AndThen
  <2> QED BY <2>1, <2>2, FoundIsOwn, AnswerIsOwn
<1>3. ASSUME NEW scope, DeleteAllMemories(u, scope) PROVE ReplyIsOwn
  <2> DEFINE verdict == AndThen(ScopeVerdict(scope),
                          IF DOMAIN CleanScope(scope) = {} THEN "scope_required" ELSE "ok")
  <2>1. Respond("delete_all_memories", u, <<scope>>, verdict, Listing(u, CleanScope(scope)))
    BY <1>3 DEF DeleteAllMemories
  <2>2. Range(Listing(u, CleanScope(scope))) = InScope(u, CleanScope(scope))
    BY ListingFacts DEF IInv
  <2> QED BY <2>1, <2>2, OwnScope, AnswerIsOwn
<1> QED BY <1>1, <1>2, <1>3, AddIsOwn DEF Write

LEMMA ReadIsOwn == ASSUME IInv, NEW u \in Users, Read(u) PROVE ReplyIsOwn
<1>0. TypeOK
  BY DEF IInv
<1>1. ASSUME NEW q \in Queries, NEW s, NEW n, NEW t, SearchMemory(u, q, s, n, t) PROVE ReplyIsOwn
  <2> DEFINE verdict == AndThen(AndThen(Check(q \in Queries), LimitVerdict(n, MaxLimit)),
                                AndThen(Check(t \in 0 .. 100), ScopeVerdict(s)))
             hits == Hits(u, q, CleanScope(s))
  <2>1. Respond("search_memory", u, <<q, s, n, t>>, verdict, Page(hits, 0, n))
    BY <1>1 DEF SearchMemory
  <2>2. verdict = "ok" => n \in Nat
    BY InMemoryAssumption DEF AndThen, LimitVerdict, Check
  <2>3. /\ hits \in Seq(Candidates(u, q, CleanScope(s)))
        /\ Range(hits) \subseteq InScope(u, CleanScope(s))
    BY <1>0, HitFacts DEF Candidates
  <2> HIDE DEF verdict, hits
  <2>4. verdict = "ok" => Range(Page(hits, 0, n)) \subseteq InScope(u, CleanScope(s))
    BY <2>2, <2>3, PageOfList
  <2> QED BY <2>1, <2>4, OwnScope, AnswerIsOwn
<1>2. ASSUME NEW s, NEW n, NEW k \in Cursors, ListMemories(u, s, n, k) PROVE ReplyIsOwn
  <2> DEFINE verdict == AndThen(AndThen(LimitVerdict(n, MaxLimit), ScopeVerdict(s)),
                                Check(k # JunkCursor))
             list == Listing(u, CleanScope(s))
  <2>1. Respond("list_memories", u, <<s, n, k>>, verdict, Paginate(list, k, n))
    BY <1>2 DEF ListMemories
  <2>2. verdict = "ok" => n \in Nat /\ k \in Int
    BY InMemoryAssumption DEF AndThen, LimitVerdict, Check
  <2>3. /\ list \in Seq(InScope(u, CleanScope(s)))
        /\ Range(list) = InScope(u, CleanScope(s))
    BY <1>0, ListingFacts
  <2> HIDE DEF verdict, list
  <2>4. verdict = "ok" => Range(Page(list, k, n)) \subseteq InScope(u, CleanScope(s))
    BY <2>2, <2>3, PageOfList
  <2>5. /\ reply'.tool = "list_memories" /\ reply'.user = u /\ reply'.code = verdict
        /\ verdict = "ok" => reply'.out.page = Page(list, k, n)
        /\ verdict # "ok" => reply'.out = <<>>
    BY <2>1 DEF Respond, Paginate
  <2>6. Shown(reply') \subseteq InScope(u, CleanScope(s))
    BY <2>4, <2>5 DEF Shown, Range
  <2> QED BY <2>5, <2>6, OwnScope DEF ReplyIsOwn
<1>3. ASSUME NEW id, NEW tool \in {"get_memory", "memory_history"}, ReadMemory(u, tool, id)
      PROVE  ReplyIsOwn
  <2> DEFINE verdict == AndThen(IdVerdict(id), FoundVerdict(u, id))
  <2>1. Respond(tool, u, <<id>>, verdict, <<id>>)
    BY <1>3 DEF ReadMemory
  <2>2. verdict = "ok" => FoundVerdict(u, id) = "ok"
    BY DEF AndThen
  <2> QED BY <2>1, <2>2, FoundIsOwn, AnswerIsOwn
<1>4. ASSUME NEW s, NEW n, MemoryEntities(u, s, n) PROVE ReplyIsOwn
  <2> DEFINE verdict == AndThen(LimitVerdict(n, MaxLimit), ScopeVerdict(s))
  <2>1. Respond("memory_entities", u, <<s, n>>, verdict, Listing(u, NoScope))
    BY <1>4 DEF MemoryEntities
  <2>2. Range(Listing(u, NoScope)) = InScope(u, NoScope)
    BY <1>0, ListingFacts
  <2> QED BY <2>1, <2>2, OwnScope, AnswerIsOwn
<1>5. CASE ExportMemories(u)
  <2> DEFINE list == Listing(u, NoScope)
             listed == Page(list, 0, ExportLimit)
  <2>1. list \in Seq(InScope(u, NoScope)) /\ Range(list) = InScope(u, NoScope)
    BY <1>0, ListingFacts
  <2> HIDE DEF list
  <2>2. listed \in Seq(InScope(u, NoScope)) /\ Range(listed) \subseteq InScope(u, NoScope)
    BY <2>1, PageOfList, InMemoryAssumption DEF ExportLimit
  <2>3. /\ reply'.tool = "export_memories" /\ reply'.user = u /\ reply'.code = "ok"
        /\ reply'.out.page = Page(listed, 0, MaxExport)
    BY <1>5 DEF ExportMemories, Respond, list
  <2> HIDE DEF listed
  <2>4. Shown(reply') \subseteq InScope(u, NoScope)
    BY <2>2, <2>3, PageOfList, InMemoryAssumption DEF Shown
  <2> QED BY <2>3, <2>4, OwnScope DEF ReplyIsOwn
<1> QED BY <1>1, <1>2, <1>3, <1>4, <1>5 DEF Read

(* The tools over the in-memory backend never show a tenant the memories   *)
(* of another, whatever id, scope, query or cursor they are given.         *)
THEOREM NoLeakage == Spec => NoLeak
<1>1. IInv /\ [Next]_vars => [ReplyIsOwn]_vars
  <2> SUFFICES ASSUME IInv, Next PROVE ReplyIsOwn
    OBVIOUS
  <2>1. CASE Close
    BY <2>1 DEF Close, ReplyIsOwn, Shown, Range
  <2> QED BY <2>1, WriteIsOwn, ReadIsOwn DEF Next
<1>2. Spec => []IInv /\ [][Next]_vars
  BY Invariance, PTL DEF Spec
<1> QED BY <1>1, <1>2, PTL DEF NoLeak

-----------------------------------------------------------------------------
(* A search cut at its limit keeps the best *)

LEMMA SearchRanks ==
  ASSUME IInv, NEW u \in Users, NEW q \in Queries, NEW s, NEW n, NEW t,
         SearchMemory(u, q, s, n, t)
  PROVE  SearchKeepsBest
<1> DEFINE verdict == AndThen(AndThen(Check(q \in Queries), LimitVerdict(n, MaxLimit)),
                              AndThen(Check(t \in 0 .. 100), ScopeVerdict(s)))
           clean == CleanScope(s)
           hits == Hits(u, q, clean)
           found == Page(hits, 0, n)
<1>1. Respond("search_memory", u, <<q, s, n, t>>, verdict, found)
  BY DEF SearchMemory
<1>2. verdict = "ok" => n \in Nat
  BY InMemoryAssumption DEF AndThen, LimitVerdict, Check
<1> HIDE DEF verdict, found
<1>3. /\ reply'.user = u /\ reply'.args = <<q, s, n, t>> /\ reply'.code = verdict
      /\ verdict = "ok" => reply'.out = found
  BY <1>1 DEF Respond
<1> SUFFICES ASSUME verdict = "ok"
             PROVE  /\ \A j, k \in DOMAIN found : j < k =>
                         \/ Rank(q, found[j]) > Rank(q, found[k])
                         \/ Rank(q, found[j]) = Rank(q, found[k]) /\ found[j] < found[k]
                    /\ \A i \in InScope(u, clean) \ Range(found) :
                         \/ Rank(q, i) = 0
                         \/ Len(found) = n /\ \A j \in Range(found) : Rank(q, j) >= Rank(q, i)
  BY <1>3 DEF SearchKeepsBest
<1>4. /\ hits \in Seq(Candidates(u, q, clean)) /\ Range(hits) = Candidates(u, q, clean)
      /\ \A j, k \in DOMAIN hits : j < k =>
           \/ Rank(q, hits[j]) > Rank(q, hits[k])
           \/ Rank(q, hits[j]) = Rank(q, hits[k]) /\ hits[j] < hits[k]
  BY HitFacts DEF IInv
<1>5. \A i \in InScope(u, clean) : Rank(q, i) \in Nat
  BY ScopeFacts, RankFacts DEF IInv
<1> HIDE DEF clean, hits
<1>6. /\ found \in Seq(Candidates(u, q, clean))
      /\ Len(found) = IF n < Len(hits) THEN n ELSE Len(hits)
      /\ \A k \in DOMAIN found : k \in DOMAIN hits /\ found[k] = hits[k]
  BY <1>2, <1>4, FirstPage DEF found
<1>7. \A j, k \in DOMAIN found : j < k =>
        \/ Rank(q, found[j]) > Rank(q, found[k])
        \/ Rank(q, found[j]) = Rank(q, found[k]) /\ found[j] < found[k]
  BY <1>4, <1>6
<1>8. ASSUME NEW i \in InScope(u, clean) \ Range(found), Rank(q, i) # 0
      PROVE  Len(found) = n /\ \A j \in Range(found) : Rank(q, j) >= Rank(q, i)
  <2>1. i \in Candidates(u, q, clean)
    BY <1>5, <1>8 DEF Candidates
  <2>2. PICK k \in DOMAIN hits : hits[k] = i
    BY <1>4, <2>1 DEF Range
  <2>3. k \notin DOMAIN found
    BY <1>6, <1>8, <2>2 DEF Range
  <2>4. k \in 1 .. Len(hits) /\ Len(hits) \in Nat /\ DOMAIN found = 1 .. Len(found) /\ Len(found) \in Nat
    BY <1>4, <1>6
  <2>5. Len(found) = n /\ n < k
    BY <1>2, <1>6, <2>3, <2>4
  <2>6. ASSUME NEW j \in DOMAIN found PROVE Rank(q, found[j]) >= Rank(q, i)
    <3>1. j \in DOMAIN hits /\ found[j] = hits[j] /\ j < k
      BY <1>6, <2>4, <2>5
    <3>2. Rank(q, hits[j]) > Rank(q, i) \/ Rank(q, hits[j]) = Rank(q, i)
      BY <1>4, <2>2, <3>1
    <3>3. hits[j] \in InScope(u, clean)
      BY <1>4, <3>1 DEF Candidates
    <3>4. Rank(q, hits[j]) \in Nat /\ Rank(q, i) \in Nat
      BY <1>5, <3>3
    <3> QED BY <3>1, <3>2, <3>4
  <2> QED BY <2>5, <2>6 DEF Range
<1> QED BY <1>7, <1>8

(* The tools that write answer in their own name.                          *)
LEMMA WritersNamed ==
  ASSUME NEW u, Write(u)
  PROVE  reply'.tool \in {"add_memory", "update_memory", "delete_memory", "delete_all_memories"}
<1>1. ASSUME NEW c, NEW s, NEW m, NEW now, AddMemory(u, c, s, m, now)
      PROVE  reply'.tool = "add_memory"
  BY <1>1 DEF AddMemory, Respond
<1>2. ASSUME NEW id, NEW c, NEW m, NEW now, UpdateMemory(u, id, c, m, now)
      PROVE  reply'.tool = "update_memory"
  BY <1>2 DEF UpdateMemory, Respond
<1>3. ASSUME NEW id, DeleteMemory(u, id) PROVE reply'.tool = "delete_memory"
  BY <1>3 DEF DeleteMemory, Respond
<1>4. ASSUME NEW s, DeleteAllMemories(u, s) PROVE reply'.tool = "delete_all_memories"
  BY <1>4 DEF DeleteAllMemories, Respond
<1> QED BY <1>1, <1>2, <1>3, <1>4 DEF Write

(* So do those that read.                                                  *)
LEMMA ReadersNamed ==
  ASSUME NEW u, Read(u)
  PROVE  \/ \E q \in Queries, s \in ScopeArgs, n \in Limits, t \in Thresholds :
              SearchMemory(u, q, s, n, t) /\ reply'.tool = "search_memory"
         \/ ExportMemories(u) /\ reply'.tool = "export_memories"
         \/ reply'.tool \in {"list_memories", "get_memory", "memory_history", "memory_entities"}
<1>1. ASSUME NEW q, NEW s, NEW n, NEW t, SearchMemory(u, q, s, n, t)
      PROVE  reply'.tool = "search_memory"
  BY <1>1 DEF SearchMemory, Respond
<1>2. ASSUME NEW s, NEW n, NEW k, ListMemories(u, s, n, k) PROVE reply'.tool = "list_memories"
  BY <1>2 DEF ListMemories, Respond
<1>3. ASSUME NEW id, NEW tool, ReadMemory(u, tool, id) PROVE reply'.tool = tool
  BY <1>3 DEF ReadMemory, Respond
<1>4. ASSUME NEW s, NEW n, MemoryEntities(u, s, n) PROVE reply'.tool = "memory_entities"
  BY <1>4 DEF MemoryEntities, Respond
<1>5. ASSUME ExportMemories(u) PROVE reply'.tool = "export_memories"
  BY <1>5 DEF ExportMemories, Respond
<1> QED BY <1>1, <1>2, <1>3, <1>4, <1>5 DEF Read

(* A search of the in-memory backend is sorted by score, the oldest first  *)
(* among equals, and its limit cuts the worst.                             *)
THEOREM SearchesKeepBest == Spec => SearchIsRanked
<1>1. IInv /\ [Next]_vars => [SearchKeepsBest]_vars
  <2> SUFFICES ASSUME IInv, Next PROVE SearchKeepsBest
    OBVIOUS
  <2>1. CASE reply'.tool # "search_memory"
    BY <2>1 DEF SearchKeepsBest
  <2>2. ASSUME NEW u \in Users, Read(u) PROVE SearchKeepsBest
    BY <2>1, <2>2, ReadersNamed, SearchRanks
  <2> QED BY <2>1, <2>2, WritersNamed DEF Next, Close
<1>2. Spec => []IInv /\ [][Next]_vars
  BY Invariance, PTL DEF Spec
<1> QED BY <1>1, <1>2, PTL DEF SearchIsRanked

-----------------------------------------------------------------------------
(* An export says whether it is cut *)

LEMMA ExportIsTrue == ASSUME IInv, NEW u \in Users, ExportMemories(u) PROVE ExportTellsTheTruth
<1> DEFINE list == Listing(u, NoScope)
           listed == Page(list, 0, ExportLimit)
           page == Page(listed, 0, MaxExport)
<1>1. /\ reply'.user = u
      /\ reply'.out.page = page /\ reply'.out.truncated = (Len(listed) > MaxExport)
  BY DEF ExportMemories, Respond
<1>2. \A i : i \in InScope(u, NoScope) <=> i \in DOMAIN store /\ store[i].user_id = u
  BY DEF InScope, Owns, Matches, NoScope
<1>3. /\ list \in Seq(InScope(u, NoScope)) /\ Range(list) = InScope(u, NoScope)
      /\ \A j, k \in DOMAIN list : j < k => list[j] # list[k]
  BY ListingFacts DEF IInv
<1> HIDE DEF list
<1>4. /\ listed \in Seq(InScope(u, NoScope))
      /\ Len(listed) = IF MaxExport + 1 < Len(list) THEN MaxExport + 1 ELSE Len(list)
      /\ \A k \in DOMAIN listed : k \in DOMAIN list /\ listed[k] = list[k]
  BY <1>3, FirstPage, InMemoryAssumption DEF ExportLimit
<1> HIDE DEF listed
<1>5. /\ page \in Seq(InScope(u, NoScope))
      /\ Len(page) = IF MaxExport < Len(listed) THEN MaxExport ELSE Len(listed)
      /\ \A k \in DOMAIN page : k \in DOMAIN listed /\ page[k] = listed[k]
  BY <1>4, FirstPage, InMemoryAssumption
<1> HIDE DEF page
<1>6. /\ Len(list) \in Nat /\ DOMAIN list = 1 .. Len(list)
      /\ Len(page) \in Nat /\ DOMAIN page = 1 .. Len(page)
      /\ Len(page) = (IF MaxExport < Len(list) THEN MaxExport ELSE Len(list))
      /\ Len(listed) > MaxExport <=> Len(list) > MaxExport
      /\ \A k \in DOMAIN page : k \in DOMAIN list /\ page[k] = list[k]
  BY <1>3, <1>4, <1>5, InMemoryAssumption
<1>7. ASSUME Len(list) > MaxExport
      PROVE  \E i \in InScope(u, NoScope) : i \notin Range(page)
  <2>1. MaxExport + 1 \in DOMAIN list /\ Len(page) = MaxExport
    BY <1>6, <1>7, InMemoryAssumption
  <2>2. \A k \in DOMAIN page : k < MaxExport + 1 /\ page[k] # list[MaxExport + 1]
    BY <1>3, <1>6, <2>1, InMemoryAssumption
  <2>3. list[MaxExport + 1] \notin Range(page)
    BY <2>2 DEF Range
  <2>4. list[MaxExport + 1] \in InScope(u, NoScope)
    BY <1>3, <2>1 DEF Range
  <2> QED BY <2>3, <2>4
<1>8. ASSUME ~ (Len(list) > MaxExport), NEW i \in InScope(u, NoScope)
      PROVE  i \in Range(page)
  <2>1. PICK k \in DOMAIN list : list[k] = i
    BY <1>3 DEF Range
  <2>2. k \in DOMAIN page /\ page[k] = i
    BY <1>6, <1>8, <2>1, InMemoryAssumption
  <2> QED BY <2>2 DEF Range
<1> QED BY <1>1, <1>2, <1>6, <1>7, <1>8 DEF ExportTellsTheTruth

(* An export of the in-memory backend is flagged as truncated exactly when *)
(* it leaves out a memory of the tenant.                                   *)
THEOREM ExportsAreHonest == Spec => ExportIsHonest
<1>1. IInv /\ [Next]_vars => [ExportTellsTheTruth]_vars
  <2> SUFFICES ASSUME IInv, Next PROVE ExportTellsTheTruth
    OBVIOUS
  <2>1. CASE reply'.tool # "export_memories"
    BY <2>1 DEF ExportTellsTheTruth
  <2>2. ASSUME NEW u \in Users, Read(u) PROVE ExportTellsTheTruth
    BY <2>1, <2>2, ReadersNamed, ExportIsTrue
  <2> QED BY <2>1, <2>2, WritersNamed DEF Next, Close
<1>2. Spec => []IInv /\ [][Next]_vars
  BY Invariance, PTL DEF Spec
<1> QED BY <1>1, <1>2, PTL DEF ExportIsHonest

=============================================================================

--------------------------- MODULE PageWalk_proofs ---------------------------
(***************************************************************************)
(* Proofs about PageWalk: how many memories a walk shows twice or misses,  *)
(* for lists and pages of any size and any number of adds and deletes.     *)
(***************************************************************************)
EXTENDS PageWalk, FiniteSetTheorems, SequenceTheorems, TLAPS

(* Everything the proofs need of a state. *)
IInv ==
  /\ TypeOK /\ RepeatsAreBounded /\ MissesAreBounded /\ NeverRepeats /\ WalkInv
  /\ IsFiniteSet(collected)
  /\ ~Done => \E start \in Nat : cursor = {start}

-----------------------------------------------------------------------------
(* Lists *)

LEMMA SeqFacts ==
  ASSUME NEW S, NEW s \in Seq(S)
  PROVE  /\ Len(s) \in Nat /\ DOMAIN s = 1 .. Len(s) /\ \A i \in DOMAIN s : s[i] \in S
         /\ Range(s) \subseteq S /\ \A i \in DOMAIN s : s[i] \in Range(s)
  BY DEF Range

LEMMA InsertFacts ==
  ASSUME NEW S, NEW s \in Seq(S), NEW x \in S, NEW k \in 1 .. Len(s) + 1
  PROVE  /\ InsertAt(s, k, x) \in Seq(S) /\ Len(InsertAt(s, k, x)) = Len(s) + 1
         /\ \A j \in 1 .. k - 1 : InsertAt(s, k, x)[j] = s[j]
         /\ InsertAt(s, k, x)[k] = x
         /\ \A j \in k .. Len(s) : InsertAt(s, k, x)[j + 1] = s[j]
<1>1. PICK a, b : a = SubSeq(s, 1, k - 1) /\ b = SubSeq(s, k, Len(s))
  OBVIOUS
<1>2. /\ a \in Seq(S) /\ Len(a) = k - 1
      /\ \A i \in 1 .. k - 1 : a[i] = s[i]
  <2>1. k - 1 \in Int /\ 1 \in Int /\ \A i \in 1 .. k - 1 : s[i] \in S
    OBVIOUS
  <2> QED BY <1>1, <2>1, SubSeqProperties
<1>3. /\ b \in Seq(S) /\ Len(b) = Len(s) - k + 1
      /\ \A i \in 1 .. Len(s) - k + 1 : b[i] = s[k + i - 1]
  <2>1. k \in Int /\ Len(s) \in Int /\ \A i \in k .. Len(s) : s[i] \in S
    OBVIOUS
  <2> QED BY <1>1, <2>1, SubSeqProperties
<1>4. PICK c : c = a \o <<x>>
  OBVIOUS
<1>5. /\ c \in Seq(S) /\ Len(c) = k
      /\ \A i \in 1 .. k : c[i] = IF i < k THEN s[i] ELSE x
  <2>1. /\ <<x>> \in Seq(S) /\ Len(<<x>>) = 1 /\ <<x>>[1] = x
    OBVIOUS
  <2>2. /\ c \in Seq(S) /\ Len(c) = k
        /\ \A i \in 1 .. k : c[i] = IF i <= k - 1 THEN a[i] ELSE <<x>>[i - (k - 1)]
    BY <1>2, <1>4, <2>1, ConcatProperties
  <2> QED BY <1>2, <2>1, <2>2
<1>6. PICK t : t = InsertAt(s, k, x) /\ t = c \o b
  BY <1>1, <1>4 DEF InsertAt
<1>7. /\ t \in Seq(S) /\ Len(t) = Len(s) + 1
      /\ \A i \in 1 .. Len(s) + 1 : t[i] = IF i <= k THEN c[i] ELSE b[i - k]
  BY <1>3, <1>5, <1>6, ConcatProperties
<1>8. /\ \A j \in 1 .. k - 1 : t[j] = s[j]
      /\ t[k] = x
  BY <1>5, <1>7
<1>9. ASSUME NEW j \in k .. Len(s) PROVE t[j + 1] = s[j]
  BY <1>3, <1>7
<1> QED BY <1>6, <1>7, <1>8, <1>9

LEMMA RemoveFacts ==
  ASSUME NEW S, NEW s \in Seq(S), NEW k \in 1 .. Len(s)
  PROVE  /\ RemoveAt(s, k) \in Seq(S) /\ Len(RemoveAt(s, k)) = Len(s) - 1
         /\ \A j \in 1 .. k - 1 : RemoveAt(s, k)[j] = s[j]
         /\ \A j \in k + 1 .. Len(s) : RemoveAt(s, k)[j - 1] = s[j]
<1>1. PICK a, b : a = SubSeq(s, 1, k - 1) /\ b = SubSeq(s, k + 1, Len(s))
  OBVIOUS
<1>2. /\ a \in Seq(S) /\ Len(a) = k - 1
      /\ \A i \in 1 .. k - 1 : a[i] = s[i]
  <2>1. k - 1 \in Int /\ 1 \in Int /\ \A i \in 1 .. k - 1 : s[i] \in S
    OBVIOUS
  <2> QED BY <1>1, <2>1, SubSeqProperties
<1>3. /\ b \in Seq(S) /\ Len(b) = Len(s) - k
      /\ \A i \in 1 .. Len(s) - k : b[i] = s[k + i]
  <2>1. k + 1 \in Int /\ Len(s) \in Int /\ \A i \in k + 1 .. Len(s) : s[i] \in S
    OBVIOUS
  <2>2. /\ b \in Seq(S) /\ Len(b) = IF k + 1 <= Len(s) THEN Len(s) - (k + 1) + 1 ELSE 0
        /\ \A i \in 1 .. Len(s) - (k + 1) + 1 : b[i] = s[(k + 1) + i - 1]
    BY <1>1, <2>1, SubSeqProperties
  <2> QED BY <2>2
<1>4. PICK t : t = RemoveAt(s, k) /\ t = a \o b
  BY <1>1 DEF RemoveAt
<1>5. /\ t \in Seq(S) /\ Len(t) = Len(s) - 1
      /\ \A i \in 1 .. Len(s) - 1 : t[i] = IF i <= k - 1 THEN a[i] ELSE b[i - (k - 1)]
  <2>1. a \in Seq(S) /\ b \in Seq(S) /\ Len(a) + Len(b) = Len(s) - 1 /\ Len(a) = k - 1
    BY <1>2, <1>3
  <2>2. t \in Seq(S) /\ Len(t) = Len(s) - 1
    BY <1>4, <2>1, ConcatProperties
  <2>3. ASSUME NEW i \in 1 .. Len(s) - 1
        PROVE  t[i] = IF i <= k - 1 THEN a[i] ELSE b[i - (k - 1)]
    BY <1>4, <2>1, ConcatProperties
  <2> QED BY <2>2, <2>3
<1>6. \A j \in 1 .. k - 1 : t[j] = s[j]
  BY <1>2, <1>5
<1>7. ASSUME NEW j \in k + 1 .. Len(s) PROVE t[j - 1] = s[j]
  BY <1>3, <1>5
<1> QED BY <1>4, <1>5, <1>6, <1>7

(* A page holds the places of the list from its cursor to its end. *)
LEMMA PageFacts ==
  ASSUME NEW S, NEW s \in Seq(S), NEW start \in Nat, NEW n \in Nat \ {0}
  PROVE  Range(Page(s, start, n)) = {s[j] : j \in {i \in DOMAIN s : start < i /\ i <= start + n}}
<1>1. PICK lo, hi, p : /\ lo = SliceBound(Len(s), start) + 1 /\ hi = SliceBound(Len(s), start + n)
                       /\ p = SubSeq(s, lo, hi)
  OBVIOUS
<1>2. /\ Len(s) \in Nat /\ DOMAIN s = 1 .. Len(s)
      /\ lo = (IF start > Len(s) THEN Len(s) ELSE start) + 1
      /\ hi = IF start + n > Len(s) THEN Len(s) ELSE start + n
  BY <1>1 DEF SliceBound
<1>3. /\ lo \in Nat \ {0} /\ hi \in Nat /\ hi <= Len(s)
      /\ \A i \in DOMAIN s : (start < i /\ i <= start + n) <=> i \in lo .. hi
      /\ lo .. hi \subseteq DOMAIN s
  BY <1>2
<1>4. /\ p \in Seq(S) /\ Len(p) = IF lo <= hi THEN hi - lo + 1 ELSE 0
      /\ \A i \in 1 .. hi - lo + 1 : p[i] = s[lo + i - 1]
  <2>1. \A i \in lo .. hi : s[i] \in S
    BY <1>3
  <2> QED BY <1>1, <1>3, <2>1, SubSeqProperties
<1>5. DOMAIN p = 1 .. hi - lo + 1 /\ \A i \in DOMAIN p : p[i] = s[lo + i - 1]
  BY <1>3, <1>4
<1>6. Range(p) = {s[j] : j \in lo .. hi}
  <2>1. \A i \in DOMAIN p : lo + i - 1 \in lo .. hi
    BY <1>3, <1>5
  <2>2. \A j \in lo .. hi : j - lo + 1 \in DOMAIN p /\ lo + (j - lo + 1) - 1 = j
    BY <1>3, <1>5
  <2>3. \A j \in lo .. hi : p[j - lo + 1] = s[j]
    BY <1>5, <2>2
  <2> QED BY <1>5, <2>1, <2>2, <2>3 DEF Range
<1>7. {i \in DOMAIN s : start < i /\ i <= start + n} = lo .. hi
  BY <1>3
<1> QED BY <1>1, <1>6, <1>7 DEF Page

-----------------------------------------------------------------------------
(* Sets that lose members, and sets that gain one *)

LEMMA RangeIsFinite == ASSUME NEW S, NEW s \in Seq(S) PROVE IsFiniteSet(Range(s))
<1>1. IsFiniteSet(DOMAIN s)
  BY SeqFacts, FS_Interval
<1>2. s \in Surjection(DOMAIN s, Range(s))
  BY DEF Surjection, Range
<1> QED BY <1>1, <1>2, FS_Surjection

LEMMA NoGrowth ==
  ASSUME NEW S, IsFiniteSet(S), NEW T, T \subseteq S
  PROVE  /\ Cardinality(T) \in Nat /\ Cardinality(S) \in Nat
         /\ Cardinality(T) <= Cardinality(S)
  BY FS_Subset, FS_CardinalityType

LEMMA GrowthByOne ==
  ASSUME NEW S, IsFiniteSet(S), NEW x, NEW T, T \subseteq S \cup {x}
  PROVE  /\ Cardinality(T) \in Nat /\ Cardinality(S) \in Nat
         /\ Cardinality(T) <= Cardinality(S) + 1
<1>1. PICK U : U = S \cup {x}
  OBVIOUS
<1>2. IsFiniteSet(U) /\ Cardinality(S) \in Nat /\ Cardinality(U) <= Cardinality(S) + 1
  BY <1>1, FS_AddElement, FS_CardinalityType
<1>3. Cardinality(T) \in Nat /\ Cardinality(U) \in Nat /\ Cardinality(T) <= Cardinality(U)
  BY <1>1, <1>2, NoGrowth
<1> QED BY <1>2, <1>3

(* What a state of an open walk looks like from its cursor. *)
LEMMA OpenWalk ==
  ASSUME IInv, ~Done
  PROVE  \E start \in Nat :
           /\ cursor = {start}
           /\ \A x : x \in Ahead <=> \E j \in DOMAIN list : start < j /\ x = list[j]
           /\ \A x : x \in Missed <=>
                \E j \in DOMAIN list :
                  /\ j <= start /\ x = list[j]
                  /\ x \in Range(before) \/ backend = "in_memory"
                  /\ x \notin collected
           /\ Cardinality(Missed) + Overhang(start) <= deletes
<1>1. PICK start \in Nat : cursor = {start}
  BY DEF IInv
<1>2. \A k : Passed(k) <=> k <= start
  BY <1>1 DEF Passed
<1>3. \A j \in DOMAIN list : ~(j <= start) <=> start < j
  <2>1. DOMAIN list = 1 .. Len(list) /\ Len(list) \in Nat
    BY SeqFacts DEF IInv, TypeOK
  <2> QED BY <2>1
<1> QED BY <1>1, <1>2, <1>3 DEF Ahead, Missed, IInv, WalkInv

LEMMA CountsAreFinite ==
  ASSUME IInv
  PROVE  /\ IsFiniteSet(repeated \cup (collected \cap Ahead)) /\ IsFiniteSet(Missed)
         /\ inserts \in Nat /\ deletes \in Nat
<1>1. repeated \cup (collected \cap Ahead) \subseteq collected /\ Missed \subseteq Range(list)
  BY DEF IInv, TypeOK, Missed, Range
<1>2. IsFiniteSet(collected) /\ IsFiniteSet(Range(list))
  BY RangeIsFinite DEF IInv, TypeOK
<1> QED BY <1>1, <1>2, FS_Subset DEF IInv, TypeOK

-----------------------------------------------------------------------------
(* The steps *)

LEMMA FetchKeeps == ASSUME IInv, Fetch PROVE IInv'
<1>1. ~Done
  BY DEF Fetch, Done
<1>2. PICK start \in Nat :
        /\ cursor = {start}
        /\ \A x : x \in Ahead <=> \E j \in DOMAIN list : start < j /\ x = list[j]
        /\ \A x : x \in Missed <=>
             \E j \in DOMAIN list :
               /\ j <= start /\ x = list[j]
               /\ x \in Range(before) \/ backend = "in_memory"
               /\ x \notin collected
        /\ Cardinality(Missed) + Overhang(start) <= deletes
  BY <1>1, OpenWalk
<1>3. /\ list \in Seq(Ids) /\ IsInjective(list) /\ DOMAIN list = 1 .. Len(list) /\ Len(list) \in Nat
      /\ limit \in Nat \ {0}
  BY SeqFacts, PageWalkAssumption DEF IInv, TypeOK
<1>4. PICK page, next : page = Range(Page(list, start, limit)) /\ next = start + limit
  OBVIOUS
<1>5. /\ page = {list[j] : j \in {i \in DOMAIN list : start < i /\ i <= next}}
      /\ next \in Nat
  BY <1>3, <1>4, PageFacts
<1>6. /\ cursor' = IF next < Len(list) THEN {next} ELSE {}
      /\ collected' = collected \cup page
      /\ repeated' = repeated \cup (collected \cap page)
      /\ UNCHANGED <<backend, list, fresh, limit, before, inserts, deletes>>
  BY <1>2, <1>4 DEF Fetch, Paginate, NextCursor
<1>7. page \subseteq Range(list) /\ IsFiniteSet(page) /\ page \subseteq Ids
  <2>1. page \subseteq Range(list)
    BY <1>5 DEF Range
  <2>2. IsFiniteSet(Range(list)) /\ Range(list) \subseteq Ids
    BY <1>3, RangeIsFinite, SeqFacts
  <2> QED BY <2>1, <2>2, FS_Subset
<1>8. page \subseteq Ahead /\ Ahead' \subseteq Ahead /\ Ahead' \cap page = {}
  <2>1. page \subseteq Ahead
    BY <1>2, <1>5
  <2>2. \A x \in Ahead' : \E j \in DOMAIN list : next < j /\ x = list[j]
    BY <1>3, <1>5, <1>6 DEF Ahead, Done, Passed
  <2>3. \A x \in Ahead' : x \in Ahead
    BY <1>2, <1>3, <1>4, <2>2
  <2>4. \A x \in Ahead' : x \notin page
    BY <1>3, <1>5, <2>2 DEF IsInjective
  <2> QED BY <2>1, <2>3, <2>4
<1>9. repeated' \cup (collected' \cap Ahead') \subseteq repeated \cup (collected \cap Ahead)
  BY <1>6, <1>8
<1>10. Missed' \subseteq Missed
  <2>1. ASSUME NEW x \in Missed' PROVE x \in Missed
    <3>1. PICK j \in DOMAIN list :
            /\ x = list[j] /\ x \notin collected /\ x \notin page
            /\ x \in Range(before) \/ backend = "in_memory"
            /\ cursor' = {} \/ j <= next
      BY <1>6, <2>1 DEF Missed, Done, Passed
    <3>2. j <= next
      BY <1>3, <1>5, <1>6, <3>1
    <3>3. j <= start
      BY <1>3, <1>5, <3>1, <3>2
    <3> QED BY <1>2, <3>1, <3>3
  <2> QED BY <2>1
<1>11. /\ Cardinality(repeated' \cup (collected' \cap Ahead')) <= inserts
       /\ Cardinality(repeated') <= inserts
       /\ Cardinality(Missed') \in Nat /\ Cardinality(Missed') <= deletes
  <2>1. PICK now, then, rep : /\ now = repeated \cup (collected \cap Ahead)
                              /\ then = repeated' \cup (collected' \cap Ahead')
                              /\ rep = repeated'
    OBVIOUS
  <2>2. IsFiniteSet(now) /\ then \subseteq now /\ rep \subseteq now /\ inserts \in Nat
        /\ Cardinality(now) <= inserts
    BY <1>9, <2>1, CountsAreFinite DEF IInv, WalkInv
  <2>3. Cardinality(then) <= inserts /\ Cardinality(rep) <= inserts
    BY <2>2, NoGrowth
  <2>4. PICK gone, lost : gone = Missed' /\ lost = Missed
    OBVIOUS
  <2>5. IsFiniteSet(lost) /\ gone \subseteq lost /\ deletes \in Nat /\ Overhang(start) \in Nat
        /\ Cardinality(lost) + Overhang(start) <= deletes
    BY <1>2, <1>3, <1>10, <2>4, CountsAreFinite DEF Overhang
  <2>6. Cardinality(gone) \in Nat /\ Cardinality(gone) <= deletes
    BY <2>5, NoGrowth
  <2> QED BY <2>1, <2>3, <2>4, <2>6
<1>12. /\ cursor' \subseteq Nat /\ Cardinality(cursor') <= 1
       /\ cursor' # {} => \E n \in Nat : cursor' = {n}
  <2>1. Cardinality({}) = 0 /\ Cardinality({next}) = 1
    BY FS_EmptySet, FS_Singleton
  <2>2. cursor' = {} \/ cursor' = {next}
    BY <1>6
  <2> QED BY <1>5, <2>1, <2>2
<1>13. TypeOK'
  BY <1>6, <1>7, <1>12 DEF IInv, TypeOK
<1>14. backend = "in_memory" => collected' \cap Ahead' = {} /\ repeated' = {}
  BY <1>6, <1>8 DEF IInv, WalkInv, NeverRepeats
<1>15. WalkInv'
  <2>1. \A n \in cursor' : Overhang(n)' = 0
    BY <1>3, <1>5, <1>6 DEF Overhang
  <2>2. Range(fresh) \cap (collected' \cup Range(before)) = {} /\ IsInjective(fresh)
    BY <1>6, <1>7 DEF IInv, TypeOK, WalkInv
  <2>3. \A n \in cursor' : Cardinality(Missed') + Overhang(n)' <= deletes
    BY <1>11, <2>1
  <2> QED BY <1>6, <1>11, <1>14, <2>2, <2>3 DEF WalkInv
<1>16. IsFiniteSet(collected')
  BY <1>6, <1>7, FS_Union DEF IInv
<1>17. RepeatsAreBounded' /\ MissesAreBounded' /\ NeverRepeats'
  BY <1>6, <1>11, <1>14 DEF RepeatsAreBounded, MissesAreBounded, NeverRepeats
<1> QED BY <1>12, <1>13, <1>15, <1>16, <1>17 DEF IInv, Done

(* What adds and deletes leave alone, and what a state then owes. *)
LEMMA ListChanges ==
  ASSUME IInv, ~Done, UNCHANGED <<backend, limit, cursor, collected, repeated, before>>,
         list' \in Seq(Ids), IsInjective(list'),
         fresh' \in Seq(Ids), IsInjective(fresh'), Range(fresh') \subseteq Range(fresh),
         Range(fresh') \cap Range(list') = {},
         inserts' \in Nat, deletes' \in Nat,
         backend = "in_memory" => collected \cap Ahead' = {},
         Cardinality(repeated \cup (collected \cap Ahead')) <= inserts',
         \A start \in cursor : Cardinality(Missed') + Overhang(start)' <= deletes'
  PROVE  IInv'
<1>1. TypeOK'
  BY DEF IInv, TypeOK
<1>2. IsFiniteSet(collected') /\ (~Done)' /\ \E start \in Nat : cursor' = {start}
  BY DEF IInv, Done
<1>3. WalkInv'
  BY DEF IInv, WalkInv
<1>4. RepeatsAreBounded'
  <2>1. PICK then, rep : then = repeated \cup (collected \cap Ahead') /\ rep = repeated
    OBVIOUS
  <2>2. then \subseteq collected /\ rep \subseteq then
    BY <2>1 DEF IInv, TypeOK
  <2>3. IsFiniteSet(then)
    BY <2>2, FS_Subset DEF IInv
  <2>4. Cardinality(rep) <= Cardinality(then) /\ Cardinality(then) \in Nat /\ Cardinality(rep) \in Nat
    BY <2>2, <2>3, NoGrowth
  <2> QED BY <2>1, <2>4 DEF RepeatsAreBounded
<1>5. MissesAreBounded'
  <2>1. PICK gone, lst : gone = Missed' /\ lst = list'
    OBVIOUS
  <2>2. gone \subseteq Range(lst) /\ IsFiniteSet(Range(lst)) /\ Len(lst) \in Nat
    BY <2>1, RangeIsFinite DEF Missed, Range
  <2>3. Cardinality(gone) \in Nat
    BY <2>2, NoGrowth
  <2>4. PICK start \in Nat : cursor = {start}
    BY DEF IInv
  <2>5. Overhang(start)' \in Nat
    BY <2>1, <2>2 DEF Overhang
  <2>6. Cardinality(gone) + Overhang(start)' <= deletes'
    BY <2>1, <2>4
  <2> QED BY <2>1, <2>3, <2>5, <2>6 DEF MissesAreBounded
<1>6. NeverRepeats'
  BY DEF IInv, NeverRepeats
<1> QED BY <1>1, <1>2, <1>3, <1>4, <1>5, <1>6 DEF IInv

LEMMA AddKeeps == ASSUME IInv, NEW k \in 1 .. Len(list) + 1, Add(k) PROVE IInv'
<1>1. /\ ~Done /\ fresh # <<>>
      /\ backend = "in_memory" => k = Len(list) + 1
      /\ UNCHANGED <<backend, limit, cursor, collected, repeated, before, deletes>>
  BY DEF Add
<1>2. PICK start \in Nat :
        /\ cursor = {start}
        /\ \A x : x \in Ahead <=> \E j \in DOMAIN list : start < j /\ x = list[j]
        /\ \A x : x \in Missed <=>
             \E j \in DOMAIN list :
               /\ j <= start /\ x = list[j]
               /\ x \in Range(before) \/ backend = "in_memory"
               /\ x \notin collected
        /\ Cardinality(Missed) + Overhang(start) <= deletes
  BY <1>1, OpenWalk
<1>3. /\ list \in Seq(Ids) /\ fresh \in Seq(Ids) /\ IsInjective(list) /\ IsInjective(fresh)
      /\ Range(fresh) \cap (collected \cup Range(before) \cup Range(list)) = {}
      /\ DOMAIN list = 1 .. Len(list) /\ Len(list) \in Nat
      /\ \A j \in DOMAIN list : list[j] \in Range(list)
      /\ collected \subseteq Ids /\ IsFiniteSet(collected)
  <2>1. /\ list \in Seq(Ids) /\ fresh \in Seq(Ids) /\ IsInjective(list) /\ IsInjective(fresh)
        /\ Range(fresh) \cap (collected \cup Range(before)) = {} /\ Range(fresh) \cap Range(list) = {}
        /\ collected \subseteq Ids /\ IsFiniteSet(collected)
    BY DEF IInv, TypeOK, WalkInv
  <2>2. /\ DOMAIN list = 1 .. Len(list) /\ Len(list) \in Nat
        /\ \A j \in DOMAIN list : list[j] \in Range(list)
    BY <2>1, SeqFacts
  <2> QED BY <2>1, <2>2
<1>4. PICK x, lst, rest : x = Head(fresh) /\ lst = list' /\ rest = fresh'
  OBVIOUS
<1>5. /\ rest \in Seq(Ids) /\ IsInjective(rest) /\ Range(rest) \subseteq Range(fresh)
      /\ x \in Range(fresh) \ Range(rest) /\ x \in Ids
  <2>1. /\ rest = Tail(fresh) /\ x = fresh[1] /\ 1 \in DOMAIN fresh
        /\ DOMAIN fresh = 1 .. Len(fresh) /\ Len(fresh) \in Nat
    BY <1>1, <1>3, <1>4 DEF Add
  <2>2. /\ rest \in Seq(Ids) /\ DOMAIN rest = 1 .. Len(fresh) - 1
        /\ \A i \in DOMAIN rest : rest[i] = fresh[i + 1] /\ i + 1 \in DOMAIN fresh /\ i + 1 # 1
    BY <1>1, <1>3, <2>1
  <2>3. IsInjective(rest)
    BY <1>3, <2>2 DEF IsInjective
  <2>4. x \notin Range(rest)
    BY <1>3, <2>1, <2>2 DEF IsInjective, Range
  <2>5. Range(rest) \subseteq Range(fresh) /\ x \in Range(fresh)
    BY <2>1, <2>2 DEF Range
  <2> QED BY <1>3, <2>1, <2>2, <2>3, <2>4, <2>5
<1>6. x \notin collected /\ x \notin Range(before) /\ x \notin Range(list)
  BY <1>3, <1>5
<1>7. /\ lst \in Seq(Ids) /\ DOMAIN lst = 1 .. Len(list) + 1 /\ Len(lst) = Len(list) + 1
      /\ lst[k] = x
      /\ \A j \in 1 .. k - 1 : lst[j] = list[j]
      /\ \A j \in k .. Len(list) : lst[j + 1] = list[j]
  <2>1. lst = InsertAt(list, k, x)
    BY <1>4 DEF Add
  <2>2. list \in Seq(Ids) /\ x \in Ids
    BY <1>3, <1>5
  <2>3. /\ lst \in Seq(Ids) /\ Len(lst) = Len(list) + 1 /\ lst[k] = x
        /\ \A j \in 1 .. k - 1 : lst[j] = list[j]
        /\ \A j \in k .. Len(list) : lst[j + 1] = list[j]
    BY <2>1, <2>2, InsertFacts
  <2> QED BY <2>3
<1>8. /\ \A j \in DOMAIN lst : lst[j] = x <=> j = k
      /\ \A j \in DOMAIN lst : j < k => j \in DOMAIN list /\ lst[j] = list[j]
      /\ \A j \in DOMAIN lst : j > k => j - 1 \in DOMAIN list /\ lst[j] = list[j - 1]
  <2>1. \A j \in DOMAIN lst : j < k => j \in DOMAIN list /\ lst[j] = list[j]
    BY <1>3, <1>7
  <2>2. \A j \in DOMAIN lst : j > k => j - 1 \in DOMAIN list /\ lst[j] = list[j - 1]
    BY <1>3, <1>7
  <2>3. \A j \in DOMAIN lst : lst[j] = x <=> j = k
    BY <1>3, <1>6, <1>7, <2>1, <2>2
  <2> QED BY <2>1, <2>2, <2>3
<1>9. IsInjective(lst)
  <2> SUFFICES ASSUME NEW a \in DOMAIN lst, NEW b \in DOMAIN lst, lst[a] = lst[b] PROVE a = b
    BY DEF IsInjective
  <2>1. CASE a = k \/ b = k
    BY <1>8, <2>1
  <2>2. CASE a # k /\ b # k
    <3>1. PICK c \in DOMAIN list : lst[a] = list[c] /\ c = IF a < k THEN a ELSE a - 1
      BY <1>7, <1>8, <2>2
    <3>2. PICK d \in DOMAIN list : lst[b] = list[d] /\ d = IF b < k THEN b ELSE b - 1
      BY <1>7, <1>8, <2>2
    <3>3. c = d
      BY <1>3, <3>1, <3>2 DEF IsInjective
    <3> QED BY <1>7, <2>2, <3>1, <3>2, <3>3
  <2> QED BY <2>1, <2>2
<1>10. \A y \in Range(lst) : y = x \/ y \in Range(list)
  <2> SUFFICES ASSUME NEW j \in DOMAIN lst PROVE lst[j] = x \/ lst[j] \in Range(list)
    BY DEF Range
  <2>1. j < k \/ j = k \/ j > k
    BY <1>7
  <2> QED BY <1>3, <1>8, <2>1
<1>11. Range(rest) \cap Range(lst) = {}
  BY <1>3, <1>5, <1>10
<1>12. inserts \in Nat /\ deletes \in Nat /\ inserts' = IF k <= start THEN inserts + 1 ELSE inserts
  BY <1>2 DEF Add, Passed, IInv, TypeOK
<1>13. PICK now, then : now = collected \cap Ahead /\ then = collected \cap Ahead'
  OBVIOUS
<1>14. \A y \in then : y \in collected /\ \E j \in DOMAIN lst : start < j /\ y = lst[j]
  <2>1. \A j \in DOMAIN lst : ~(j <= start) => start < j
    BY <1>7
  <2> QED BY <1>1, <1>2, <1>4, <1>13, <2>1 DEF Ahead, Done, Passed
<1>15. \A y \in then : y \in now \/ (k <= start /\ start \in DOMAIN list /\ y = list[start])
  <2> SUFFICES ASSUME NEW y \in then
      PROVE  y \in now \/ (k <= start /\ start \in DOMAIN list /\ y = list[start])
    OBVIOUS
  <2>1. PICK j \in DOMAIN lst : start < j /\ y = lst[j] /\ y \in collected
    BY <1>14
  <2>2. j # k
    BY <1>6, <1>8, <2>1
  <2>3. CASE j < k
    BY <1>2, <1>8, <1>13, <2>1, <2>3
  <2>4. CASE j > k /\ start < j - 1
    BY <1>2, <1>8, <1>13, <2>1, <2>4
  <2>5. CASE j > k /\ start = j - 1
    BY <1>7, <1>8, <2>1, <2>5
  <2>6. j \in Nat /\ k \in Nat /\ start \in Nat
    BY <1>2, <1>3, <1>7
  <2>7. j < k \/ (j > k /\ start < j - 1) \/ (j > k /\ start = j - 1)
    BY <2>1, <2>2, <2>6
  <2> QED BY <2>3, <2>4, <2>5, <2>7
<1>16. backend = "in_memory" => now = {} /\ then = {}
  <2>1. backend = "in_memory" => now = {}
    BY <1>13 DEF IInv, WalkInv
  <2>2. backend = "in_memory" => ~(k <= start /\ start \in DOMAIN list)
    <3>1. start \in DOMAIN list => start <= Len(list)
      BY <1>3
    <3> QED BY <1>1, <1>2, <1>3, <3>1
  <2> QED BY <1>15, <2>1, <2>2
<1>17. Cardinality(repeated \cup then) <= inserts'
  <2>1. PICK S, T : S = repeated \cup now /\ T = repeated \cup then
    OBVIOUS
  <2>2. IsFiniteSet(S) /\ Cardinality(S) <= inserts
    BY <1>13, <2>1, CountsAreFinite DEF IInv, WalkInv
  <2>3. CASE k <= start
    <3>1. \E y : T \subseteq S \cup {y}
      BY <1>15, <2>1
    <3>2. Cardinality(T) \in Nat /\ Cardinality(S) \in Nat /\ Cardinality(T) <= Cardinality(S) + 1
      BY <2>2, <3>1, GrowthByOne
    <3> QED BY <1>12, <2>1, <2>2, <2>3, <3>2
  <2>4. CASE ~(k <= start)
    <3>1. T \subseteq S
      BY <1>15, <2>1, <2>4
    <3> QED BY <1>12, <2>1, <2>2, <2>4, <3>1, NoGrowth
  <2> QED BY <2>3, <2>4
<1>18. PICK lost, gone, over : lost = Missed /\ gone = Missed' /\ over = Overhang(start)
  OBVIOUS
<1>19. /\ start \in Nat
       /\ over = (IF start > Len(list) THEN start - Len(list) ELSE 0)
       /\ Overhang(start)' = (IF start > Len(list) + 1 THEN start - (Len(list) + 1) ELSE 0)
  BY <1>2, <1>4, <1>7, <1>18 DEF Overhang
<1>20. ASSUME NEW y \in gone PROVE y \in lost \/ (y = x /\ k <= start /\ backend = "in_memory")
  <2>1. PICK j \in DOMAIN lst :
          /\ y = lst[j] /\ j <= start /\ y \notin collected
          /\ y \in Range(before) \/ backend = "in_memory"
    BY <1>1, <1>2, <1>4, <1>18 DEF Missed, Done, Passed
  <2>2. CASE j = k
    BY <1>6, <1>8, <2>1, <2>2
  <2>3. CASE j < k
    BY <1>2, <1>8, <1>18, <2>1, <2>3
  <2>4. CASE j > k
    <3>1. j - 1 <= start
      BY <1>7, <2>1
    <3> QED BY <1>2, <1>8, <1>18, <2>1, <2>4, <3>1
  <2> QED BY <1>7, <2>2, <2>3, <2>4
<1>21. Cardinality(gone) + Overhang(start)' <= deletes
  <2>1. IsFiniteSet(lost) /\ Cardinality(lost) + over <= deletes
    BY <1>2, <1>18, CountsAreFinite
  <2>2. CASE k <= start /\ backend = "in_memory"
    <3>1. /\ Cardinality(gone) \in Nat /\ Cardinality(lost) \in Nat
          /\ Cardinality(gone) <= Cardinality(lost) + 1
      <4>1. gone \subseteq lost \cup {x}
        BY <1>20
      <4> QED BY <2>1, <4>1, GrowthByOne
    <3>2. start >= Len(list) + 1
      BY <1>1, <2>2
    <3> QED BY <1>3, <1>12, <1>19, <2>1, <3>1, <3>2
  <2>3. CASE ~(k <= start /\ backend = "in_memory")
    <3>1. gone \subseteq lost
      BY <1>20, <2>3
    <3>2. /\ Cardinality(gone) \in Nat /\ Cardinality(lost) \in Nat
          /\ Cardinality(gone) <= Cardinality(lost)
      BY <2>1, <3>1, NoGrowth
    <3> QED BY <1>3, <1>12, <1>19, <2>1, <3>2
  <2> QED BY <2>2, <2>3
<1>22. /\ list' \in Seq(Ids) /\ IsInjective(list') /\ fresh' \in Seq(Ids) /\ IsInjective(fresh')
       /\ Range(fresh') \subseteq Range(fresh) /\ Range(fresh') \cap Range(list') = {}
  BY <1>4, <1>5, <1>7, <1>9, <1>11
<1>23. /\ backend = "in_memory" => collected \cap Ahead' = {}
       /\ Cardinality(repeated \cup (collected \cap Ahead')) <= inserts'
  BY <1>13, <1>16, <1>17
<1>24. inserts' \in Nat /\ deletes' \in Nat
  BY <1>1, <1>12
<1>25. \A n \in cursor : Cardinality(Missed') + Overhang(n)' <= deletes'
  BY <1>1, <1>2, <1>18, <1>21
<1> QED BY <1>1, <1>22, <1>23, <1>24, <1>25, ListChanges

LEMMA DeleteKeeps == ASSUME IInv, NEW k \in 1 .. Len(list), Delete(k) PROVE IInv'
<1>1. ~Done /\ UNCHANGED <<backend, fresh, limit, cursor, collected, repeated, before, inserts>>
  BY DEF Delete
<1>2. PICK start \in Nat :
        /\ cursor = {start}
        /\ \A x : x \in Ahead <=> \E j \in DOMAIN list : start < j /\ x = list[j]
        /\ \A x : x \in Missed <=>
             \E j \in DOMAIN list :
               /\ j <= start /\ x = list[j]
               /\ x \in Range(before) \/ backend = "in_memory"
               /\ x \notin collected
        /\ Cardinality(Missed) + Overhang(start) <= deletes
  BY <1>1, OpenWalk
<1>3. /\ list \in Seq(Ids) /\ fresh \in Seq(Ids) /\ IsInjective(list) /\ IsInjective(fresh)
      /\ Range(fresh) \cap Range(list) = {}
      /\ DOMAIN list = 1 .. Len(list) /\ Len(list) \in Nat
  <2>1. /\ list \in Seq(Ids) /\ fresh \in Seq(Ids) /\ IsInjective(list) /\ IsInjective(fresh)
        /\ Range(fresh) \cap Range(list) = {}
    BY DEF IInv, TypeOK, WalkInv
  <2> QED BY <2>1, SeqFacts
<1>4. PICK lst : lst = list'
  OBVIOUS
<1>5. /\ lst \in Seq(Ids) /\ Len(lst) = Len(list) - 1 /\ DOMAIN lst = 1 .. Len(list) - 1
      /\ \A j \in 1 .. k - 1 : lst[j] = list[j]
      /\ \A j \in k + 1 .. Len(list) : lst[j - 1] = list[j]
  <2>1. lst = RemoveAt(list, k)
    BY <1>4 DEF Delete
  <2>2. /\ lst \in Seq(Ids) /\ Len(lst) = Len(list) - 1
        /\ \A j \in 1 .. k - 1 : lst[j] = list[j]
        /\ \A j \in k + 1 .. Len(list) : lst[j - 1] = list[j]
    BY <1>3, <2>1, RemoveFacts
  <2> QED BY <2>2
<1>6. /\ \A j \in DOMAIN lst : j < k => j \in DOMAIN list /\ lst[j] = list[j]
      /\ \A j \in DOMAIN lst : ~(j < k) => j + 1 \in DOMAIN list /\ lst[j] = list[j + 1]
  <2>1. ASSUME NEW j \in DOMAIN lst, ~(j < k)
        PROVE  j + 1 \in DOMAIN list /\ lst[j] = list[j + 1]
    <3>1. j + 1 \in k + 1 .. Len(list) /\ (j + 1) - 1 = j
      BY <1>3, <1>5, <2>1
    <3>2. lst[(j + 1) - 1] = list[j + 1]
      BY <1>5, <3>1
    <3> QED BY <1>3, <3>1, <3>2
  <2>2. \A j \in DOMAIN lst : j < k => j \in DOMAIN list /\ lst[j] = list[j]
    BY <1>3, <1>5
  <2> QED BY <2>1, <2>2
<1>7. IsInjective(lst)
  <2> SUFFICES ASSUME NEW a \in DOMAIN lst, NEW b \in DOMAIN lst, lst[a] = lst[b] PROVE a = b
    BY DEF IsInjective
  <2>1. PICK c \in DOMAIN list : lst[a] = list[c] /\ c = IF a < k THEN a ELSE a + 1
    BY <1>5, <1>6
  <2>2. PICK d \in DOMAIN list : lst[b] = list[d] /\ d = IF b < k THEN b ELSE b + 1
    BY <1>5, <1>6
  <2>3. c = d
    BY <1>3, <2>1, <2>2 DEF IsInjective
  <2> QED BY <1>5, <2>1, <2>2, <2>3
<1>8. Range(lst) \subseteq Range(list)
  <2> SUFFICES ASSUME NEW j \in DOMAIN lst PROVE lst[j] \in Range(list)
    BY DEF Range
  <2> QED BY <1>6 DEF Range
<1>9. inserts \in Nat /\ deletes \in Nat /\ deletes' = IF k <= start THEN deletes + 1 ELSE deletes
  BY <1>2 DEF Delete, Passed, IInv, TypeOK
<1>10. PICK now, then : now = collected \cap Ahead /\ then = collected \cap Ahead'
  OBVIOUS
<1>11. \A y \in then : y \in now
  <2> SUFFICES ASSUME NEW y \in then PROVE y \in now
    OBVIOUS
  <2>1. \A j \in DOMAIN lst : ~(j <= start) => start < j
    BY <1>5
  <2>2. PICK j \in DOMAIN lst : start < j /\ y = lst[j] /\ y \in collected
    BY <1>1, <1>2, <1>4, <1>10, <2>1 DEF Ahead, Done, Passed
  <2>3. CASE j < k
    BY <1>2, <1>6, <1>10, <2>2, <2>3
  <2>4. CASE ~(j < k)
    <3>1. start < j + 1
      BY <1>5, <2>2
    <3> QED BY <1>2, <1>6, <1>10, <2>2, <2>4, <3>1
  <2> QED BY <2>3, <2>4
<1>12. Cardinality(repeated \cup then) <= inserts
  <2>1. PICK S, T : S = repeated \cup now /\ T = repeated \cup then
    OBVIOUS
  <2>2. IsFiniteSet(S) /\ Cardinality(S) <= inserts
    BY <1>10, <2>1, CountsAreFinite DEF IInv, WalkInv
  <2>3. T \subseteq S
    BY <1>11, <2>1
  <2> QED BY <1>9, <2>1, <2>2, <2>3, NoGrowth
<1>13. PICK lost, gone, over : lost = Missed /\ gone = Missed' /\ over = Overhang(start)
  OBVIOUS
<1>14. /\ start \in Nat
       /\ over = (IF start > Len(list) THEN start - Len(list) ELSE 0)
       /\ Overhang(start)' = (IF start > Len(list) - 1 THEN start - (Len(list) - 1) ELSE 0)
  BY <1>2, <1>4, <1>5, <1>13 DEF Overhang
<1>15. ASSUME NEW y \in gone
       PROVE  y \in lost \/ (k <= start /\ start + 1 <= Len(list) /\ y = list[start + 1])
  <2>1. PICK j \in DOMAIN lst :
          /\ y = lst[j] /\ j <= start /\ y \notin collected
          /\ y \in Range(before) \/ backend = "in_memory"
    BY <1>1, <1>2, <1>4, <1>13 DEF Missed, Done, Passed
  <2>2. CASE j < k
    BY <1>2, <1>6, <1>13, <2>1, <2>2
  <2>3. CASE ~(j < k) /\ j + 1 <= start
    BY <1>2, <1>6, <1>13, <2>1, <2>3
  <2>4. CASE ~(j < k) /\ ~(j + 1 <= start)
    <3>1. j = start /\ k <= start
      BY <1>5, <2>1, <2>4
    <3> QED BY <1>3, <1>6, <2>1, <2>4, <3>1
  <2> QED BY <2>2, <2>3, <2>4
<1>16. Cardinality(gone) + Overhang(start)' <= deletes'
  <2>1. IsFiniteSet(lost) /\ Cardinality(lost) + over <= deletes
    BY <1>2, <1>13, CountsAreFinite
  <2>2. CASE k <= start /\ start + 1 <= Len(list)
    <3>1. gone \subseteq lost \cup {list[start + 1]}
      BY <1>15
    <3>2. /\ Cardinality(gone) \in Nat /\ Cardinality(lost) \in Nat
          /\ Cardinality(gone) <= Cardinality(lost) + 1
      BY <2>1, <3>1, GrowthByOne
    <3> QED BY <1>3, <1>9, <1>14, <2>1, <2>2, <3>2
  <2>3. CASE ~(k <= start /\ start + 1 <= Len(list))
    <3>1. gone \subseteq lost
      BY <1>15, <2>3
    <3>2. /\ Cardinality(gone) \in Nat /\ Cardinality(lost) \in Nat
          /\ Cardinality(gone) <= Cardinality(lost)
      BY <2>1, <3>1, NoGrowth
    <3>3. PICK n, next : /\ n = Len(list) /\ next = Overhang(start)'
                         /\ over = (IF start > n THEN start - n ELSE 0)
                         /\ next = (IF start > n - 1 THEN start - (n - 1) ELSE 0)
      BY <1>14
    <3>4. n \in Nat /\ start \in Nat /\ k \in 1 .. n /\ ~(k <= start /\ start + 1 <= n)
      BY <1>3, <1>14, <2>3, <3>3
    <3>5. over \in Nat /\ next = IF k <= start THEN over + 1 ELSE over
      BY <3>3, <3>4
    <3> QED BY <1>9, <2>1, <3>2, <3>3, <3>5
  <2> QED BY <2>2, <2>3
<1>17. /\ list' \in Seq(Ids) /\ IsInjective(list') /\ fresh' \in Seq(Ids) /\ IsInjective(fresh')
       /\ Range(fresh') \subseteq Range(fresh) /\ Range(fresh') \cap Range(list') = {}
  BY <1>1, <1>3, <1>4, <1>5, <1>7, <1>8
<1>18. /\ backend = "in_memory" => collected \cap Ahead' = {}
       /\ Cardinality(repeated \cup (collected \cap Ahead')) <= inserts'
  <2>1. backend = "in_memory" => now = {}
    BY <1>10 DEF IInv, WalkInv
  <2> QED BY <1>1, <1>10, <1>11, <1>12, <2>1
<1>19. inserts' \in Nat /\ deletes' \in Nat
  BY <1>1, <1>9
<1>20. \A n \in cursor : Cardinality(Missed') + Overhang(n)' <= deletes'
  BY <1>2, <1>13, <1>16
<1> QED BY <1>1, <1>17, <1>18, <1>19, <1>20, ListChanges

LEMMA StutterKeeps == ASSUME IInv, UNCHANGED vars PROVE IInv'
<1>1. TypeOK' /\ RepeatsAreBounded' /\ NeverRepeats' /\ IsFiniteSet(collected')
  BY DEF vars, IInv, TypeOK, RepeatsAreBounded, NeverRepeats
<1>2. Missed' = Missed /\ Ahead' = Ahead
  BY DEF vars, Missed, Ahead, Done, Passed
<1>3. WalkInv' /\ MissesAreBounded'
  BY <1>2 DEF vars, IInv, WalkInv, MissesAreBounded, Overhang
<1> QED BY <1>1, <1>3 DEF vars, IInv, Done

LEMMA InitKeeps == ASSUME Init PROVE IInv
<1>1. /\ list \in Lists /\ fresh = Fresh /\ before = list /\ limit \in Limits /\ backend \in Backends
      /\ cursor = {0} /\ collected = {} /\ repeated = {} /\ inserts = 0 /\ deletes = 0
  BY DEF Init
<1>2. /\ list \in Seq(Ids) /\ fresh \in Seq(Ids) /\ IsInjective(list) /\ IsInjective(fresh)
      /\ Range(fresh) \cap Range(list) = {}
  <2>1. \A l \in Lists \cup {Fresh} : l \in Seq(Range(l)) /\ IsInjective(l)
    BY PageWalkAssumption
  <2>2. Range(list) \subseteq Ids /\ Range(fresh) \subseteq Ids
    <3>1. PICK own : own = Range(list)
      OBVIOUS
    <3>2. own \in {Range(l) : l \in Lists}
      BY <1>1, <3>1
    <3>3. own \subseteq UNION {Range(l) : l \in Lists}
      BY <3>2, Zenon
    <3>4. fresh = Fresh
      BY <1>1
    <3> QED BY <3>1, <3>3, <3>4, Zenon DEF Ids
  <2>3. \A S, T, s : s \in Seq(S) /\ S \subseteq T => s \in Seq(T)
    OBVIOUS
  <2>4. Range(fresh) \cap Range(list) = {}
    BY <1>1, PageWalkAssumption
  <2> QED BY <1>1, <2>1, <2>2, <2>3, <2>4
<1>3. IsFiniteSet(collected) /\ Cardinality({}) = 0 /\ Cardinality(cursor) = 1
  BY <1>1, FS_EmptySet, FS_Singleton
<1>4. TypeOK
  BY <1>1, <1>2, <1>3 DEF TypeOK
<1>5. Missed = {}
  <2>1. \A j \in DOMAIN list : ~(Done \/ Passed(j))
    BY <1>1, <1>2, SeqFacts DEF Done, Passed
  <2> QED BY <2>1 DEF Missed
<1>6. Overhang(0) = 0
  BY <1>2, SeqFacts DEF Overhang
<1>7. WalkInv
  <2>1. repeated \cup (collected \cap Ahead) = {}
    BY <1>1
  <2> QED BY <1>1, <1>2, <1>3, <1>5, <1>6, <2>1 DEF WalkInv
<1>8. RepeatsAreBounded /\ MissesAreBounded /\ NeverRepeats
  BY <1>1, <1>3, <1>5 DEF RepeatsAreBounded, MissesAreBounded, NeverRepeats
<1> QED BY <1>1, <1>3, <1>4, <1>7, <1>8 DEF IInv

-----------------------------------------------------------------------------
(* The theorems *)

(* The invariant of a walk, at every moment of it.                         *)
THEOREM Invariance == Spec => []IInv
<1>1. IInv /\ [Next]_vars => IInv'
  BY FetchKeeps, AddKeeps, DeleteKeeps, StutterKeeps DEF Next, Quiet
<1> QED BY <1>1, InitKeeps, PTL DEF Spec

(* The list keeps its type and holds no memory twice.                      *)
THEOREM TypeCorrect == Spec => []TypeOK
<1>1. IInv => TypeOK
  BY DEF IInv
<1> QED BY <1>1, Invariance, PTL

(* At most one memory is shown twice for each add in front of the cursor.  *)
THEOREM RepeatsBounded == Spec => []RepeatsAreBounded
<1>1. IInv => RepeatsAreBounded
  BY DEF IInv
<1> QED BY <1>1, Invariance, PTL

(* At most one memory is missed for each delete in front of the cursor.    *)
THEOREM MissesBounded == Spec => []MissesAreBounded
<1>1. IInv => MissesAreBounded
  BY DEF IInv
<1> QED BY <1>1, Invariance, PTL

(* A walk over the in-memory backend shows no memory twice.                *)
THEOREM InMemoryNeverRepeats == Spec => []NeverRepeats
<1>1. IInv => NeverRepeats
  BY DEF IInv
<1> QED BY <1>1, Invariance, PTL

(* What is pushed in front of the cursor again, or is behind it unseen, is *)
(* paid for by an add or a delete of its own.                              *)
THEOREM WalkInvariant == Spec => []WalkInv
<1>1. IInv => WalkInv
  BY DEF IInv
<1> QED BY <1>1, Invariance, PTL

=============================================================================

------------------------ MODULE ImportMemories_proofs ------------------------
(***************************************************************************)
(* Proofs about ImportMemories: what the answer of an import says is true  *)
(* and no text is stored twice behind its back, for batches and pools of   *)
(* any size and any number of changes by other calls.                      *)
(***************************************************************************)
EXTENDS ImportMemories, FiniteSetTheorems, TLAPS

(* Everything the proofs need of a state. *)
IInv ==
  /\ TypeOK /\ EveryEntryAccounted /\ ReportIsTrue /\ OverwriteRestores /\ ImportInv

-----------------------------------------------------------------------------
(* What a step may do to the pool: nothing is forgotten, and every new     *)
(* write is the one given, in a new memory or after the others of an old.  *)

PoolTyped == pool \in Seq(Memories) /\ \A i \in DOMAIN pool : pool[i].log # <<>>

Grows ==
  /\ DOMAIN pool \subseteq DOMAIN pool'
  /\ \A i \in DOMAIN pool :
       /\ pool'[i].owner = pool[i].owner
       /\ \A k \in DOMAIN pool[i].log : k \in DOMAIN pool'[i].log /\ pool'[i].log[k] = pool[i].log[k]

OnlyWrites(at, e, t) ==
  /\ Grows /\ PoolTyped'
  /\ \A i \in DOMAIN pool' : \A k \in DOMAIN pool'[i].log :
       \/ i \in DOMAIN pool /\ k \in DOMAIN pool[i].log
       \/ /\ i = at /\ pool'[i].log[k] = [by |-> e, text |-> t]
          /\ k = 1 <=> i \notin DOMAIN pool

LEMMA PoolFacts ==
  ASSUME PoolTyped, NEW i \in DOMAIN pool
  PROVE  /\ i \in Nat \ {0} /\ DOMAIN pool = 1 .. Len(pool) /\ Len(pool) \in Nat
         /\ pool[i].owner \in Users /\ pool[i].log \in Seq(Writes)
         /\ Len(pool[i].log) \in Nat \ {0} /\ DOMAIN pool[i].log = 1 .. Len(pool[i].log)
         /\ Text(i) \in Texts
<1>1. pool[i] \in Memories /\ i \in Nat \ {0} /\ DOMAIN pool = 1 .. Len(pool) /\ Len(pool) \in Nat
  BY DEF PoolTyped
<1>2. pool[i].owner \in Users /\ pool[i].log \in Seq(Writes) /\ pool[i].log # <<>>
  BY <1>1 DEF PoolTyped, Memories
<1>3. Len(pool[i].log) \in Nat \ {0} /\ DOMAIN pool[i].log = 1 .. Len(pool[i].log)
  BY <1>2
<1>4. pool[i].log[Len(pool[i].log)] \in Writes
  BY <1>2, <1>3
<1> QED BY <1>1, <1>2, <1>3, <1>4 DEF Text, Last, Writes

LEMMA LogFacts ==
  ASSUME NEW p \in Seq(Memories), NEW i \in DOMAIN p, p[i].log # <<>>
  PROVE  Len(p[i].log) \in Nat \ {0} /\ DOMAIN p[i].log = 1 .. Len(p[i].log)
<1>1. p[i] \in Memories
  OBVIOUS
<1>2. p[i].log \in Seq(Writes)
  BY <1>1 DEF Memories
<1> QED BY <1>2

LEMMA StoredWrites ==
  ASSUME PoolTyped, NEW u \in Users, NEW e \in Nat, NEW t \in Texts, pool' = Stored(u, e, t)
  PROVE  /\ OnlyWrites(Len(pool) + 1, e, t)
         /\ Len(pool) + 1 \in DOMAIN pool' /\ Len(pool) + 1 \notin DOMAIN pool
         /\ Len(pool) + 1 \in Nat \ {0}
         /\ pool'[Len(pool) + 1].owner = u
         /\ pool'[Len(pool) + 1].log = <<[by |-> e, text |-> t]>>
<1> DEFINE n == Len(pool) + 1
           w == [by |-> e, text |-> t]
           m == [owner |-> u, live |-> TRUE, log |-> <<w>>]
<1>1. w \in Writes /\ m \in Memories /\ m.log = <<w>> /\ m.owner = u /\ m.log # <<>>
  BY DEF Writes, Memories
<1>2. pool' = Append(pool, m)
  BY DEF Stored
<1>3. DOMAIN m.log = 1 .. 1 /\ m.log[1] = w
  BY <1>1
<1> HIDE DEF m, w
<1>4. /\ pool' \in Seq(Memories) /\ n \in Nat \ {0} /\ n \notin DOMAIN pool
      /\ DOMAIN pool' = DOMAIN pool \cup {n} /\ pool'[n] = m
      /\ \A i \in DOMAIN pool : pool'[i] = pool[i]
  BY <1>1, <1>2 DEF PoolTyped
<1> HIDE DEF n
<1>5. PoolTyped' /\ Grows
  BY <1>1, <1>4 DEF PoolTyped, Grows
<1>6. OnlyWrites(n, e, t)
  BY <1>3, <1>4, <1>5 DEF OnlyWrites, w
<1> QED BY <1>1, <1>4, <1>6 DEF n, w

LEMMA RewrittenWrites ==
  ASSUME PoolTyped, NEW id \in DOMAIN pool, NEW e \in Nat, NEW t \in Texts,
         pool' = Rewritten(id, e, t)
  PROVE  /\ OnlyWrites(id, e, t) /\ DOMAIN pool' = DOMAIN pool
         /\ Len(pool[id].log) + 1 \in DOMAIN pool'[id].log /\ Len(pool[id].log) + 1 # 1
         /\ pool'[id].log[Len(pool[id].log) + 1] = [by |-> e, text |-> t]
<1> DEFINE w == [by |-> e, text |-> t]
           log == pool[id].log
           m == [pool[id] EXCEPT !.log = Append(@, w)]
<1>1. /\ id \in Nat \ {0} /\ log \in Seq(Writes) /\ Len(log) \in Nat \ {0}
      /\ DOMAIN log = 1 .. Len(log) /\ pool[id] \in Memories /\ w \in Writes
  <2>1. w \in Writes /\ pool[id] \in Memories
    BY DEF PoolTyped, Writes
  <2> QED BY <2>1, PoolFacts
<1>2. pool' = [pool EXCEPT ![id] = m]
  BY Zenon DEF Rewritten
<1>3. m \in Memories /\ m.log = Append(log, w) /\ m.owner = pool[id].owner
  BY <1>1 DEF Memories
<1> HIDE DEF w, m
<1>4. /\ DOMAIN m.log = 1 .. Len(log) + 1 /\ m.log[Len(log) + 1] = w /\ m.log # <<>>
      /\ \A k \in DOMAIN log : m.log[k] = log[k] /\ k \in DOMAIN m.log
  BY <1>1, <1>3
<1>5. /\ pool' \in Seq(Memories) /\ DOMAIN pool' = DOMAIN pool /\ pool'[id] = m
      /\ \A i \in DOMAIN pool : i # id => pool'[i] = pool[i]
  BY <1>2, <1>3 DEF PoolTyped
<1>6. PoolTyped'
  BY <1>4, <1>5 DEF PoolTyped
<1>7. Grows
  BY <1>3, <1>4, <1>5 DEF Grows
<1>8. \A k \in DOMAIN m.log : k \in DOMAIN log \/ (k = Len(log) + 1 /\ k # 1)
  BY <1>1, <1>4
<1>9. OnlyWrites(id, e, t)
  BY <1>4, <1>5, <1>6, <1>7, <1>8 DEF OnlyWrites, w
<1> QED BY <1>1, <1>4, <1>5, <1>9 DEF w

LEMMA NothingWritten ==
  ASSUME PoolTyped, UNCHANGED pool PROVE OnlyWrites(0, 0, 0)
  BY DEF PoolTyped, OnlyWrites, Grows

LEMMA KilledWritesNothing ==
  ASSUME PoolTyped, NEW id \in DOMAIN pool, pool' = [pool EXCEPT ![id].live = FALSE]
  PROVE  OnlyWrites(0, 0, 0) /\ DOMAIN pool' = DOMAIN pool
<1>1. PICK m : m = [pool[id] EXCEPT !.live = FALSE]
  OBVIOUS
<1>2. m \in Memories /\ m.log = pool[id].log /\ m.owner = pool[id].owner
  <2>1. pool[id] \in Memories
    BY DEF PoolTyped
  <2> QED BY <1>1, <2>1 DEF Memories
<1>3. pool' = [pool EXCEPT ![id] = m]
  BY <1>1, Zenon
<1>4. /\ pool' \in Seq(Memories) /\ DOMAIN pool' = DOMAIN pool /\ pool'[id] = m
      /\ \A i \in DOMAIN pool : i # id => pool'[i] = pool[i]
  <2> SUFFICES ASSUME NEW q, q = [pool EXCEPT ![id] = m]
      PROVE  /\ q \in Seq(Memories) /\ DOMAIN q = DOMAIN pool /\ q[id] = m
             /\ \A i \in DOMAIN pool : i # id => q[i] = pool[i]
    BY <1>3, Zenon
  <2> QED BY <1>2 DEF PoolTyped
<1>5. PoolTyped' /\ Grows
  BY <1>2, <1>4 DEF PoolTyped, Grows
<1>6. \A i \in DOMAIN pool : pool'[i].log = pool[i].log
  BY <1>2, <1>4
<1> QED BY <1>4, <1>5, <1>6 DEF OnlyWrites

-----------------------------------------------------------------------------
(* What a step of the call leaves as it was, once the batch is indexed. *)
Moves ==
  /\ args' = args /\ kept' = kept
  /\ report.errors \subseteq report'.errors
  /\ report.imported \subseteq report'.imported
  /\ stage = "raised" => stage' = "raised" /\ pos' = pos
  /\ DOMAIN existing \subseteq DOMAIN existing'

LEMMA KnownStays ==
  ASSUME Moves, NEW e
  PROVE  /\ WrittenOff(e) => WrittenOff(e)'
         /\ e \in ImportedEntries => e \in ImportedEntries'
  BY DEF Moves, WrittenOff, ImportedEntries

LEMMA SaysStays ==
  ASSUME Grows, NEW i, NEW t, Says(i, t)
  PROVE  Says(i, t)'
  BY DEF Grows, Says

LEMMA WritesStayKnown ==
  ASSUME IInv, Moves, NEW at, NEW e, NEW t, OnlyWrites(at, e, t),
         e # 0 => e \in DOMAIN args.batch /\ (e \in ImportedEntries' \/ WrittenOff(e)')
  PROVE  WritesAreKnown'
<1> SUFFICES ASSUME NEW i \in DOMAIN pool', NEW k \in DOMAIN pool'[i].log,
                    NEW d, d = pool'[i].log[k].by, d # 0
             PROVE  d \in DOMAIN args.batch /\ (d \in ImportedEntries' \/ WrittenOff(d)')
  BY DEF WritesAreKnown, Moves
<1>1. CASE i \in DOMAIN pool /\ k \in DOMAIN pool[i].log
  <2>1. d = pool[i].log[k].by
    BY <1>1 DEF OnlyWrites, Grows
  <2>2. d \in DOMAIN args.batch /\ (d \in ImportedEntries \/ WrittenOff(d))
    BY <1>1, <2>1 DEF IInv, ImportInv, WritesAreKnown
  <2> QED BY <2>2, KnownStays
<1>2. CASE i = at /\ pool'[i].log[k] = [by |-> e, text |-> t]
  BY <1>2
<1> QED BY <1>1, <1>2 DEF OnlyWrites

(* A memory is made only by its first write. *)
LEMMA MadeAfter ==
  ASSUME PoolTyped, NEW at, NEW e, NEW t, OnlyWrites(at, e, t), NEW d, Made(d)' # {}
  PROVE  Made(d) # {} \/ (d = e /\ at \in DOMAIN pool' \ DOMAIN pool)
<1>1. PICK i \in DOMAIN pool' : pool'[i].log[1].by = d
  BY DEF Made
<1>2. 1 \in DOMAIN pool'[i].log
  BY LogFacts DEF OnlyWrites, PoolTyped
<1>3. CASE i \in DOMAIN pool
  <2>1. 1 \in DOMAIN pool[i].log
    BY <1>3, PoolFacts
  <2> QED BY <1>1, <1>3, <2>1 DEF OnlyWrites, Grows, Made
<1>4. CASE i \notin DOMAIN pool
  BY <1>1, <1>2, <1>4 DEF OnlyWrites
<1> QED BY <1>3, <1>4

LEMMA IndexStillRemembers ==
  ASSUME IInv, Moves, NEW at, NEW e, NEW t, OnlyWrites(at, e, t),
         (at \in DOMAIN pool' \ DOMAIN pool /\ e \in DOMAIN args.batch) =>
            args.batch[e].content \in DOMAIN existing' \/ WrittenOff(e)'
  PROVE  IndexRemembers'
<1> SUFFICES ASSUME NEW d \in DOMAIN args.batch, Made(d)' # {}
             PROVE  args.batch[d].content \in DOMAIN existing' \/ WrittenOff(d)'
  BY DEF IndexRemembers, Moves, IInv, ImportInv
<1>1. PoolTyped
  BY DEF IInv, TypeOK, PoolTyped
<1>2. CASE Made(d) # {}
  <2>1. args.batch[d].content \in DOMAIN existing \/ WrittenOff(d)
    BY <1>2 DEF IInv, ImportInv, IndexRemembers
  <2> QED BY <2>1, KnownStays DEF Moves
<1>3. CASE d = e /\ at \in DOMAIN pool' \ DOMAIN pool
  BY <1>3
<1> QED BY <1>1, <1>2, <1>3, MadeAfter

(* An entry whose add may be somewhere was passed, or is where it ended. *)
LEMMA AddedArePassed ==
  ASSUME IInv, NEW d \in DOMAIN args.batch, MaybeAdded(d)
  PROVE  /\ d \in Nat /\ d # 0
         /\ d <= pos - 1 \/ (stage = "raised" /\ d = pos)
         /\ args.batch[d].content \in DOMAIN existing \/ WrittenOff(d)
<1> USE DEF IInv, ImportInv
<1>1. d \in Nat /\ d # 0 /\ pos \in Nat
  BY DEF LoopIsWellFormed, TypeOK
<1>2. CASE Made(d) # {}
  <2>1. PICK i \in DOMAIN pool : pool[i].log[1].by = d
    BY <1>2 DEF Made
  <2>2. 1 \in DOMAIN pool[i].log
    BY PoolFacts DEF TypeOK, PoolTyped
  <2>3. d \in ImportedEntries \/ WrittenOff(d)
    BY <1>1, <2>1, <2>2 DEF WritesAreKnown
  <2>4. args.batch[d].content \in DOMAIN existing \/ WrittenOff(d)
    BY <1>2 DEF IndexRemembers
  <2> QED BY <1>1, <2>3, <2>4 DEF EveryEntryAccounted, WrittenOff
<1>3. CASE \E r \in late : r.entry = d
  <2>1. WrittenOff(d)
    BY <1>3 DEF LateIsKnown
  <2> QED BY <1>1, <2>1 DEF EveryEntryAccounted, WrittenOff
<1> QED BY <1>2, <1>3 DEF MaybeAdded

(* Nothing but the entry at hand is added, and that one only if new. *)
LEMMA AddsStayNew ==
  ASSUME IInv, Moves,
         \A d \in DOMAIN args.batch : MaybeAdded(d)' => MaybeAdded(d) \/ (stage = "adding" /\ d = pos)
  PROVE  AddsAreNew'
<1> USE DEF IInv, ImportInv
<1> SUFFICES ASSUME NEW e \in DOMAIN args.batch, MaybeAdded(e)'
             PROVE  /\ args.batch[e].content \notin kept
                    /\ args.mode # "duplicate" =>
                         \A d \in 1 .. e - 1 :
                           (args.batch[d].content = args.batch[e].content /\ MaybeAdded(d)')
                             => d \in report'.errors
  BY DEF AddsAreNew, Moves
<1>1. DOMAIN args.batch = 1 .. Len(args.batch) /\ Len(args.batch) \in Nat /\ pos \in Nat
  BY DEF LoopIsWellFormed, TypeOK
<1>2. CASE MaybeAdded(e)
  <2>1. args.batch[e].content \notin kept
    BY <1>2 DEF AddsAreNew
  <2>2. ASSUME args.mode # "duplicate", NEW d \in 1 .. e - 1,
               args.batch[d].content = args.batch[e].content, MaybeAdded(d)'
        PROVE  d \in report'.errors
    <3>1. MaybeAdded(d)
      BY <1>1, <1>2, <2>2, AddedArePassed
    <3> QED BY <1>2, <2>2, <3>1 DEF AddsAreNew, Moves
  <2> QED BY <2>1, <2>2
<1>3. CASE stage = "adding" /\ e = pos
  <2>1. args.batch[e].content \notin kept
    BY <1>3 DEF LoopIsWellFormed, IndexRemembers
  <2>2. ASSUME args.mode # "duplicate", NEW d \in 1 .. e - 1,
               args.batch[d].content = args.batch[e].content, MaybeAdded(d)'
        PROVE  d \in report'.errors
    <3>1. MaybeAdded(d) /\ d \in DOMAIN args.batch
      BY <1>1, <1>3, <2>2
    <3>2. args.batch[d].content \in DOMAIN existing \/ WrittenOff(d)
      BY <3>1, AddedArePassed
    <3> QED BY <1>3, <2>2, <3>2 DEF LoopIsWellFormed, WrittenOff, Moves
  <2> QED BY <2>1, <2>2
<1> QED BY <1>2, <1>3

LEMMA OverwritesStillRestore ==
  ASSUME IInv, NEW at, NEW e, NEW t, OnlyWrites(at, e, t),
         (at \in DOMAIN pool /\ e # 0) => Says(at, t)
  PROVE  OverwriteRestores'
<1> SUFFICES ASSUME NEW i \in DOMAIN pool', NEW k \in DOMAIN pool'[i].log,
                    k > 1, pool'[i].log[k].by # 0
             PROVE  /\ pool'[i].owner = Importer
                    /\ \E h \in 1 .. k - 1 : pool'[i].log[h].text = pool'[i].log[k].text
  BY DEF OverwriteRestores
<1>1. /\ PoolTyped
      /\ i \in DOMAIN pool =>
           /\ DOMAIN pool[i].log = 1 .. Len(pool[i].log) /\ Len(pool[i].log) \in Nat
           /\ \A j \in DOMAIN pool[i].log : pool'[i].log[j] = pool[i].log[j]
           /\ pool'[i].owner = pool[i].owner
  BY PoolFacts DEF IInv, TypeOK, PoolTyped, OnlyWrites, Grows
<1>2. CASE i \in DOMAIN pool /\ k \in DOMAIN pool[i].log
  <2>1. /\ pool[i].owner = Importer
        /\ \E h \in 1 .. k - 1 : pool[i].log[h].text = pool[i].log[k].text
    BY <1>1, <1>2 DEF IInv, OverwriteRestores
  <2>2. \A h \in 1 .. k - 1 : h \in DOMAIN pool[i].log
    BY <1>1, <1>2
  <2> QED BY <1>1, <1>2, <2>1, <2>2
<1>3. CASE /\ ~(i \in DOMAIN pool /\ k \in DOMAIN pool[i].log)
           /\ i = at /\ pool'[i].log[k] = [by |-> e, text |-> t]
           /\ k = 1 <=> i \notin DOMAIN pool
  <2>1. i \in DOMAIN pool /\ e # 0 /\ pool'[i].log[k].text = t
    BY <1>3
  <2>2. pool[i].owner = Importer /\ \E h \in DOMAIN pool[i].log : pool[i].log[h].text = t
    BY <1>3, <2>1 DEF Says
  <2>3. \A h \in DOMAIN pool[i].log : h \in 1 .. k - 1
    <3>1. k \in Nat
      BY LogFacts DEF OnlyWrites, PoolTyped
    <3> QED BY <1>1, <1>3, <2>1, <3>1
  <2> QED BY <1>1, <2>1, <2>2, <2>3
<1> QED BY <1>2, <1>3 DEF OnlyWrites

(* What else a step that moves on owes the invariant. *)
IndexGrows ==
  \A t \in DOMAIN existing' : \A i : i = existing'[t] =>
    (t \in DOMAIN existing /\ existing[t] = i) \/ Says(i, t)'
LateGrows ==
  \A r \in late' :
    \/ r \in late
    \/ /\ WrittenOff(r.entry)' /\ r.entry \in DOMAIN args.batch
       /\ r.text = args.batch[r.entry].content
       /\ r.id # 0 => Says(r.id, r.text)
ReportGrows ==
  /\ \A r \in report'.imported :
       \/ r \in report.imported
       \/ /\ r.id \in DOMAIN pool' /\ pool'[r.id].owner = Importer
          /\ \E k \in DOMAIN pool'[r.id].log :
               /\ pool'[r.id].log[k] = [by |-> r.entry, text |-> args.batch[r.entry].content]
               /\ r.action = "created" <=> k = 1
  /\ \A r \in report'.skipped :
       r \in report.skipped \/ Says(r.id, args.batch[r.entry].content)

LEMMA IndexStillSays ==
  ASSUME IInv, Grows, IndexGrows
  PROVE  IndexSays' /\ \A t \in DOMAIN existing' : existing'[t] \in DOMAIN pool'
<1> SUFFICES ASSUME NEW t \in DOMAIN existing', NEW i, i = existing'[t] PROVE Says(i, t)'
  BY DEF IndexSays, Says
<1>1. CASE t \in DOMAIN existing /\ existing[t] = i
  BY <1>1, SaysStays DEF IInv, ImportInv, IndexSays, Says
<1> QED BY <1>1 DEF IndexGrows

LEMMA LateStaysKnown ==
  ASSUME IInv, Moves, Grows, LateGrows
  PROVE  LateIsKnown'
<1> SUFFICES ASSUME NEW r \in late'
             PROVE  /\ WrittenOff(r.entry)' /\ r.entry \in DOMAIN args.batch
                    /\ r.text = args.batch[r.entry].content
                    /\ r.id # 0 => Says(r.id, r.text)'
  BY DEF LateIsKnown, Moves
<1>1. CASE r \in late
  BY <1>1, KnownStays, SaysStays DEF IInv, ImportInv, LateIsKnown
<1>2. CASE r \notin late
  BY <1>2, SaysStays DEF LateGrows
<1> QED BY <1>1, <1>2

LEMMA ReportStaysTrue ==
  ASSUME IInv, Moves, Grows, WritesAreKnown', ReportGrows
  PROVE  ReportIsTrue' /\ ReportSays'
<1> USE DEF IInv, ImportInv
<1>1. ASSUME NEW r \in report'.imported
      PROVE  /\ r.id \in DOMAIN pool' /\ pool'[r.id].owner = Importer
             /\ \E k \in DOMAIN pool'[r.id].log :
                  /\ pool'[r.id].log[k] = [by |-> r.entry, text |-> args.batch[r.entry].content]
                  /\ r.action = "created" <=> k = 1
  <2>1. CASE r \in report.imported
    <3>1. /\ r.id \in DOMAIN pool /\ pool[r.id].owner = Importer
          /\ \E k \in DOMAIN pool[r.id].log :
               /\ pool[r.id].log[k] = [by |-> r.entry, text |-> args.batch[r.entry].content]
               /\ r.action = "created" <=> k = 1
      BY <2>1 DEF ReportIsTrue, ReportSays
    <3> QED BY <3>1 DEF Grows
  <2> QED BY <2>1 DEF ReportGrows
<1>2. ASSUME NEW r \in report'.skipped
      PROVE  /\ r.id \in DOMAIN pool' /\ pool'[r.id].owner = Importer
             /\ \E k \in DOMAIN pool'[r.id].log : pool'[r.id].log[k].text = args.batch[r.entry].content
  <2>1. Says(r.id, args.batch[r.entry].content)
    BY DEF ReportGrows, ReportIsTrue, ReportSays, Says
  <2> QED BY <2>1 DEF Says, Grows
<1>3. ASSUME NEW e \in 1 .. Len(args.batch), Touched(e)' # {}
      PROVE  \/ e \in ImportedEntries' \cup report'.errors
             \/ stage' = "raised" /\ e = pos'
  <2>1. e # 0
    BY DEF LoopIsWellFormed
  <2>2. PICK i \in DOMAIN pool' : \E k \in DOMAIN pool'[i].log : pool'[i].log[k].by = e
    BY <1>3 DEF Touched
  <2>3. e \in ImportedEntries' \/ WrittenOff(e)'
    BY <2>1, <2>2 DEF WritesAreKnown
  <2> QED BY <2>3 DEF WrittenOff
<1>4. ReportSays'
  BY <1>1, <1>2 DEF ReportSays
<1> QED BY <1>1, <1>2, <1>3, <1>4 DEF ReportIsTrue, Moves

(* A step that explains all it writes keeps the invariant. *)
Explained(at, e, t) ==
  /\ Moves /\ OnlyWrites(at, e, t) /\ IndexGrows /\ LateGrows /\ ReportGrows
  /\ e # 0 =>
       /\ e \in DOMAIN args.batch
       /\ e \in ImportedEntries' \/ WrittenOff(e)'
       /\ at \in DOMAIN pool => Says(at, t)
       /\ at \notin DOMAIN pool => args.batch[e].content \in DOMAIN existing' \/ WrittenOff(e)'
  /\ \A d \in DOMAIN args.batch : MaybeAdded(d)' => MaybeAdded(d) \/ (stage = "adding" /\ d = pos)

Shaped == EveryEntryAccounted /\ LoopIsWellFormed /\ ReportIsTyped
StageTyped ==
  /\ stage \in {"idle", "listing", "loop", "adding", "updating", "returned", "raised"}
  /\ code \in {"ok", "validation_error", "timeout", "backend_error"}
  /\ pos \in Nat \ {0}
  /\ DOMAIN existing \subseteq Texts
  /\ late \subseteq Requests
  /\ \A r \in late : r.id \in {0} \cup DOMAIN pool
  /\ Waiting => pos \in DOMAIN args.batch /\ args.batch[pos].content \in Texts

LEMMA ExplainedKeeps ==
  ASSUME IInv, NEW at, NEW e, NEW t, Explained(at, e, t), Shaped', StageTyped'
  PROVE  IInv'
<1>1. Grows /\ PoolTyped' /\ OnlyWrites(at, e, t) /\ Moves
  BY DEF Explained, OnlyWrites
<1>2. IndexSays' /\ \A s \in DOMAIN existing' : existing'[s] \in DOMAIN pool'
  BY <1>1, IndexStillSays DEF Explained
<1>3. LateIsKnown'
  BY <1>1, LateStaysKnown DEF Explained
<1>4. WritesAreKnown'
  BY <1>1, WritesStayKnown DEF Explained
<1>5. ReportIsTrue' /\ ReportSays'
  BY <1>1, <1>4, ReportStaysTrue DEF Explained
<1>6. IndexRemembers'
  <2>1. e \in DOMAIN args.batch => e # 0
    BY DEF IInv, ImportInv, LoopIsWellFormed
  <2> QED BY <1>1, <2>1, IndexStillRemembers DEF Explained
<1>7. AddsAreNew'
  BY <1>1, AddsStayNew DEF Explained
<1>8. OverwriteRestores'
  BY <1>1, OverwritesStillRestore DEF Explained
<1>9. TypeOK'
  BY <1>1, <1>2 DEF TypeOK, StageTyped, PoolTyped
<1> QED BY <1>2, <1>3, <1>4, <1>5, <1>6, <1>7, <1>8, <1>9 DEF IInv, ImportInv, Shaped

-----------------------------------------------------------------------------
(* The loop *)

LEMMA EntryFacts ==
  ASSUME IInv, AtEntry \/ Waiting
  PROVE  /\ pos \in DOMAIN args.batch /\ pos \in Nat \ {0} /\ Entry \in BatchEntries
         /\ Len(args.batch) \in Nat /\ DOMAIN args.batch = 1 .. Len(args.batch)
         /\ pos + 1 <= Len(args.batch) + 1
         /\ stage \in {"loop", "adding", "updating"} /\ code = "ok"
<1>1. /\ args.batch \in Seq(BatchEntries) /\ pos \in Nat \ {0}
      /\ Waiting => pos \in DOMAIN args.batch
      /\ stage # "returned" => code = "ok"
  BY DEF IInv, ImportInv, LoopIsWellFormed, TypeOK
<1>2. DOMAIN args.batch = 1 .. Len(args.batch) /\ Len(args.batch) \in Nat
  BY <1>1
<1>3. stage \in {"loop", "adding", "updating"}
  BY DEF AtEntry, Waiting
<1>4. pos \in DOMAIN args.batch
  BY <1>1, <1>2 DEF AtEntry
<1> QED BY <1>1, <1>2, <1>3, <1>4 DEF Entry

(* Moving on: the entry at hand goes to one list of the report. *)
MovesOn(imp, skip, err) ==
  /\ stage' = "loop" /\ pos' = pos + 1 /\ UNCHANGED <<args, code, kept>>
  /\ report' = [imported |-> report.imported \cup imp, skipped |-> report.skipped \cup skip,
                errors |-> report.errors \cup err]
  /\ \/ imp = {} /\ skip = {} /\ err = {pos}
     \/ imp = {} /\ err = {} /\ \E id \in Nat : skip = {[entry |-> pos, id |-> id]}
     \/ skip = {} /\ err = {} /\ \E id \in Nat, action \in {"created", "updated"} :
          imp = {[entry |-> pos, id |-> id, action |-> action]}

LEMMA AdvanceShapes ==
  ASSUME IInv, AtEntry \/ Waiting, NEW imp, NEW skip, NEW err, MovesOn(imp, skip, err),
         DOMAIN existing \subseteq DOMAIN existing'
  PROVE  Moves /\ Shaped' /\ stage' = "loop" /\ pos' \in Nat \ {0} /\ code' = "ok"
<1> USE DEF IInv, ImportInv, MovesOn
<1>1. /\ pos \in DOMAIN args.batch /\ pos \in Nat \ {0}
      /\ Len(args.batch) \in Nat /\ DOMAIN args.batch = 1 .. Len(args.batch)
      /\ pos + 1 <= Len(args.batch) + 1 /\ stage # "raised" /\ code = "ok"
  BY EntryFacts
<1>2. /\ report'.imported = report.imported \cup imp
      /\ report'.skipped = report.skipped \cup skip
      /\ report'.errors = report.errors \cup err
  OBVIOUS
<1>3. Moves
  BY <1>1, <1>2 DEF Moves
<1>4. ReportIsTyped'
  BY <1>1 DEF ReportIsTyped
<1>5. LoopIsWellFormed'
  BY <1>1 DEF LoopIsWellFormed
<1>6. EveryEntryAccounted'
  <2> DEFINE E(s) == {r.entry : r \in s}
  <2>1. E(imp) \cup E(skip) \cup err = {pos} /\ E(imp) \cap E(skip) = {}
        /\ (E(imp) \cup E(skip)) \cap err = {}
    <3>1. CASE imp = {} /\ skip = {} /\ err = {pos}
      BY <3>1
    <3>2. CASE imp = {} /\ err = {} /\ \E id \in Nat : skip = {[entry |-> pos, id |-> id]}
      <4>0. PICK id \in Nat : skip = {[entry |-> pos, id |-> id]}
        BY <3>2
      <4>1. PICK r : r = [entry |-> pos, id |-> id]
        OBVIOUS
      <4>2. r.entry = pos /\ skip = {r}
        BY <4>0, <4>1
      <4>3. E(skip) = {pos}
        BY <4>2
      <4> QED BY <3>2, <4>3
    <3>3. CASE skip = {} /\ err = {} /\ \E id \in Nat, action \in {"created", "updated"} :
                 imp = {[entry |-> pos, id |-> id, action |-> action]}
      <4>0. PICK id \in Nat, action \in {"created", "updated"} :
              imp = {[entry |-> pos, id |-> id, action |-> action]}
        BY <3>3
      <4>1. PICK r : r = [entry |-> pos, id |-> id, action |-> action]
        OBVIOUS
      <4>2. r.entry = pos /\ imp = {r}
        BY <4>0, <4>1
      <4>3. E(imp) = {pos}
        BY <4>2
      <4> QED BY <3>3, <4>3
    <3> QED BY <3>1, <3>2, <3>3
  <2>2. ImportedEntries' = ImportedEntries \cup E(imp) /\ SkippedEntries' = SkippedEntries \cup E(skip)
    BY <1>2 DEF ImportedEntries, SkippedEntries
  <2>3. 1 .. pos' - 1 = (1 .. pos - 1) \cup {pos} /\ pos \notin 1 .. pos - 1
    BY <1>1
  <2> HIDE DEF E
  <2> QED BY <1>2, <2>1, <2>2, <2>3 DEF EveryEntryAccounted
<1> QED BY <1>1, <1>3, <1>4, <1>5, <1>6 DEF Shaped

LEMMA ErrorMovesOn == ASSUME IInv, Advance("errors", pos) PROVE MovesOn({}, {}, {pos})
  BY DEF Advance, MovesOn, IInv, ImportInv, ReportIsTyped

LEMMA SkipMovesOn ==
  ASSUME IInv, NEW id \in Nat, Advance("skipped", [entry |-> pos, id |-> id])
  PROVE  MovesOn({}, {[entry |-> pos, id |-> id]}, {})
  BY DEF Advance, MovesOn, IInv, ImportInv, ReportIsTyped

LEMMA ImportMovesOn ==
  ASSUME IInv, NEW id \in Nat, NEW action \in {"created", "updated"},
         Advance("imported", [entry |-> pos, id |-> id, action |-> action])
  PROVE  MovesOn({[entry |-> pos, id |-> id, action |-> action]}, {}, {})
  BY DEF Advance, MovesOn, IInv, ImportInv, ReportIsTyped

(* A step that writes nothing, with the parts of the invariant it may move. *)
LEMMA QuietlyExplained ==
  ASSUME IInv, Moves, UNCHANGED <<pool, existing, late>>, ReportGrows
  PROVE  Explained(0, 0, 0)
<1>1. OnlyWrites(0, 0, 0)
  BY NothingWritten DEF IInv, TypeOK, PoolTyped
<1> QED BY <1>1 DEF Explained, IndexGrows, LateGrows, MaybeAdded, Made

LEMMA ErrorKeeps ==
  ASSUME IInv, AtEntry \/ Waiting, Advance("errors", pos), UNCHANGED <<pool, existing, late>>
  PROVE  IInv'
<1>1. MovesOn({}, {}, {pos})
  BY ErrorMovesOn
<1>2. PICK err : err = {pos}
  OBVIOUS
<1>3. MovesOn({}, {}, err)
  BY <1>1, <1>2 DEF MovesOn
<1>4. Moves /\ Shaped' /\ stage' = "loop" /\ pos' \in Nat \ {0} /\ code' = "ok"
  BY <1>3, AdvanceShapes
<1>5. ReportGrows
  BY <1>1 DEF MovesOn, ReportGrows
<1>6. StageTyped'
  BY <1>4 DEF StageTyped, Waiting, IInv, TypeOK
<1> QED BY <1>4, <1>5, <1>6, QuietlyExplained, ExplainedKeeps

LEMMA SkipKeeps == ASSUME IInv, SkipEntry PROVE IInv'
<1>1. /\ AtEntry /\ Entry.content \in DOMAIN existing
      /\ Advance("skipped", [entry |-> pos, id |-> existing[Entry.content]])
      /\ UNCHANGED <<pool, existing, late>>
  BY DEF SkipEntry, Duplicate
<1>2. PICK id : id = existing[Entry.content]
  OBVIOUS
<1>3. Says(id, Entry.content) /\ id \in Nat
  <2>1. Says(id, Entry.content)
    BY <1>1, <1>2 DEF IInv, ImportInv, IndexSays
  <2> QED BY <2>1, PoolFacts DEF Says, IInv, TypeOK, PoolTyped
<1>4. MovesOn({}, {[entry |-> pos, id |-> id]}, {})
  BY <1>1, <1>2, <1>3, SkipMovesOn
<1>5. PICK skip : skip = {[entry |-> pos, id |-> id]}
  OBVIOUS
<1>6. MovesOn({}, skip, {})
  BY <1>4, <1>5
<1>7. Moves /\ Shaped' /\ stage' = "loop" /\ pos' \in Nat \ {0} /\ code' = "ok"
  BY <1>1, <1>6, AdvanceShapes
<1>8. ReportGrows
  BY <1>3, <1>4 DEF MovesOn, ReportGrows, Entry
<1>9. StageTyped'
  BY <1>1, <1>7 DEF StageTyped, Waiting, IInv, TypeOK
<1> QED BY <1>1, <1>7, <1>8, <1>9, QuietlyExplained, ExplainedKeeps

(* The steps of the loop that leave the report alone. *)
LEMMA SendKeeps == ASSUME IInv, SendEntry \/ ChokeOnEntry \/ Finish PROVE IInv'
<1> USE DEF IInv, ImportInv
<1>1. /\ UNCHANGED <<pool, args, code, pos, existing, report, late, kept>> /\ stage = "loop"
      /\ pos \in Nat \ {0} /\ Len(args.batch) \in Nat /\ args.batch \in Seq(BatchEntries)
  BY DEF SendEntry, ChokeOnEntry, Finish, AtEntry, LoopIsWellFormed, TypeOK
<1>2. Moves /\ ReportGrows
  BY <1>1 DEF Moves, ReportGrows
<1>3. SendEntry => /\ stage' \in {"adding", "updating"} /\ pos \in DOMAIN args.batch
                   /\ args.batch[pos].content \in Texts
                   /\ stage' = "updating" => args.batch[pos].content \in DOMAIN existing
                   /\ stage' = "adding" =>
                        args.mode = "duplicate" \/ args.batch[pos].content \notin DOMAIN existing
  BY EntryFacts DEF SendEntry, Duplicate, Valid, Entry
<1>4. ChokeOnEntry => stage' = "raised"
  BY DEF ChokeOnEntry
<1>5. Finish => stage' = "returned" /\ pos > Len(args.batch) /\ code = "ok"
  BY DEF Finish, LoopIsWellFormed
<1>6. LoopIsWellFormed'
  BY <1>1, <1>3, <1>4, <1>5 DEF LoopIsWellFormed
<1>7. EveryEntryAccounted'
  <2>1. stage' = "returned" => pos = Len(args.batch) + 1 /\ code = "ok"
    BY <1>1, <1>3, <1>4, <1>5 DEF LoopIsWellFormed
  <2> QED BY <1>1, <2>1 DEF EveryEntryAccounted, ImportedEntries, SkippedEntries
<1>8. Shaped'
  BY <1>1, <1>6, <1>7 DEF Shaped, ReportIsTyped
<1>9. StageTyped'
  BY <1>1, <1>3, <1>4, <1>5 DEF StageTyped, Waiting, TypeOK
<1> QED BY <1>1, <1>2, <1>8, <1>9, QuietlyExplained, ExplainedKeeps

-----------------------------------------------------------------------------
(* The answers to a write *)

LEMMA AddedKeeps == ASSUME IInv, Added PROVE IInv'
<1> USE DEF IInv, ImportInv
<1>1. PICK e, c, n : e = pos /\ c = Entry.content /\ n = Len(pool) + 1
  OBVIOUS
<1>2. /\ Waiting /\ stage = "adding" /\ late' = late /\ PoolTyped
      /\ pool' = Stored(Importer, e, c) /\ existing' = Remembered(c, n)
      /\ Advance("imported", [entry |-> e, id |-> n, action |-> "created"])
  BY <1>1 DEF Added, Applied, Request, Waiting, TypeOK, PoolTyped
<1>3. e \in DOMAIN args.batch /\ c = args.batch[e].content /\ c \in Texts /\ e \in Nat \ {0}
  BY <1>1, <1>2 DEF TypeOK, Entry
<1>4. /\ OnlyWrites(n, e, c) /\ n \in DOMAIN pool' /\ n \notin DOMAIN pool /\ n \in Nat \ {0}
      /\ pool'[n].owner = Importer /\ pool'[n].log = <<[by |-> e, text |-> c]>>
  <2>1. Importer \in Users
    BY ImportAssumption
  <2> QED BY <1>1, <1>2, <1>3, <2>1, StoredWrites
<1>5. 1 \in DOMAIN pool'[n].log /\ pool'[n].log[1] = [by |-> e, text |-> c]
  BY <1>4
<1>6. /\ DOMAIN existing' = DOMAIN existing \cup {c} /\ existing'[c] = n
      /\ \A t \in DOMAIN existing : t # c => existing'[t] = existing[t]
  BY <1>2 DEF Remembered
<1>7. MovesOn({[entry |-> e, id |-> n, action |-> "created"]}, {}, {})
  BY <1>1, <1>2, <1>4, ImportMovesOn
<1>8. PICK rec, imp : rec = [entry |-> e, id |-> n, action |-> "created"] /\ imp = {rec}
  OBVIOUS
<1>9. MovesOn(imp, {}, {})
  BY <1>7, <1>8
<1>10. Moves /\ Shaped' /\ stage' = "loop" /\ pos' \in Nat \ {0} /\ code' = "ok"
  BY <1>2, <1>6, <1>9, AdvanceShapes
<1>11. /\ report'.imported = report.imported \cup {rec} /\ report'.skipped = report.skipped
       /\ rec.entry = e /\ rec.id = n /\ rec.action = "created"
  BY <1>8, <1>9 DEF MovesOn, ReportIsTyped
<1>12. ReportGrows
  BY <1>3, <1>4, <1>5, <1>11 DEF ReportGrows
<1>13. Says(n, c)'
  BY <1>4, <1>5 DEF Says
<1>14. IndexGrows
  BY <1>6, <1>13 DEF IndexGrows
<1>15. ASSUME NEW d \in DOMAIN args.batch, MaybeAdded(d)' PROVE MaybeAdded(d) \/ d = e
  BY <1>2, <1>4, <1>15, MadeAfter DEF MaybeAdded
<1>16. Explained(n, e, c)
  <2>1. e \in ImportedEntries'
    BY <1>11 DEF ImportedEntries
  <2> QED BY <1>1, <1>2, <1>3, <1>4, <1>6, <1>10, <1>12, <1>14, <1>15, <2>1
        DEF Explained, LateGrows
<1>17. StageTyped'
  <2>1. \A r \in late : r.id \in {0} \cup DOMAIN pool'
    BY <1>4 DEF TypeOK, OnlyWrites, Grows
  <2> QED BY <1>2, <1>3, <1>6, <1>10, <2>1 DEF StageTyped, Waiting, TypeOK
<1> QED BY <1>10, <1>16, <1>17, ExplainedKeeps

LEMMA UpdatedKeeps == ASSUME IInv, Updated PROVE IInv'
<1> USE DEF IInv, ImportInv
<1>1. PICK e, c, n : e = pos /\ c = Entry.content /\ n = existing[c]
  OBVIOUS
<1>2. /\ Waiting /\ stage = "updating" /\ existing' = existing /\ late' = late /\ PoolTyped
      /\ Request.id = n /\ Request.entry = e /\ Request.text = c
  BY <1>1 DEF Updated, Request, Waiting, TypeOK, PoolTyped
<1>3. /\ e \in DOMAIN args.batch /\ c = args.batch[e].content /\ c \in Texts /\ e \in Nat \ {0}
      /\ c \in DOMAIN existing
  BY <1>1, <1>2 DEF TypeOK, Entry, LoopIsWellFormed
<1>4. Says(n, c) /\ n \in DOMAIN pool /\ pool[n].owner = Importer
  BY <1>1, <1>3 DEF IndexSays, Says
<1>5. n \in Nat \ {0}
  BY <1>2, <1>4, PoolFacts
<1>6. /\ pool' = Rewritten(n, e, c)
      /\ Advance("imported", [entry |-> e, id |-> n, action |-> "updated"])
  BY <1>1, <1>2, <1>5 DEF Updated, Applied
<1>7. PICK h : h = Len(pool[n].log) + 1
  OBVIOUS
<1>8. /\ OnlyWrites(n, e, c) /\ DOMAIN pool' = DOMAIN pool
      /\ h \in DOMAIN pool'[n].log /\ h # 1 /\ pool'[n].log[h] = [by |-> e, text |-> c]
  BY <1>2, <1>3, <1>4, <1>6, <1>7, RewrittenWrites
<1>9. MovesOn({[entry |-> e, id |-> n, action |-> "updated"]}, {}, {})
  BY <1>1, <1>5, <1>6, ImportMovesOn
<1>10. PICK rec, imp : rec = [entry |-> e, id |-> n, action |-> "updated"] /\ imp = {rec}
  OBVIOUS
<1>11. MovesOn(imp, {}, {})
  BY <1>9, <1>10
<1>12. Moves /\ Shaped' /\ stage' = "loop" /\ pos' \in Nat \ {0} /\ code' = "ok"
  BY <1>2, <1>11, AdvanceShapes
<1>13. /\ report'.imported = report.imported \cup {rec} /\ report'.skipped = report.skipped
       /\ rec.entry = e /\ rec.id = n /\ rec.action = "updated"
  BY <1>10, <1>11 DEF MovesOn, ReportIsTyped
<1>14. pool'[n].owner = Importer
  BY <1>4, <1>8 DEF OnlyWrites, Grows
<1>15. ReportGrows
  BY <1>3, <1>4, <1>8, <1>13, <1>14 DEF ReportGrows
<1>16. ASSUME NEW d \in DOMAIN args.batch, MaybeAdded(d)' PROVE MaybeAdded(d)
  BY <1>2, <1>8, <1>16, MadeAfter DEF MaybeAdded
<1>17. Explained(n, e, c)
  <2>1. e \in ImportedEntries'
    BY <1>13 DEF ImportedEntries
  <2> QED BY <1>2, <1>3, <1>4, <1>8, <1>12, <1>15, <1>16, <2>1
        DEF Explained, LateGrows, IndexGrows
<1>18. StageTyped'
  BY <1>2, <1>8, <1>12 DEF StageTyped, Waiting, TypeOK
<1> QED BY <1>12, <1>17, <1>18, ExplainedKeeps

(* A write the call no longer waits for: the entry has an error, or is the *)
(* one at which the call ended.                                            *)
LEMMA RequestIsKnown ==
  ASSUME IInv, Waiting
  PROVE  /\ Request \in Requests /\ Request.entry = pos /\ Request.text = Entry.content
         /\ Request.id \in {0} \cup DOMAIN pool
         /\ Request.id # 0 => Says(Request.id, Entry.content)
         /\ Request.id = 0 => stage = "adding"
<1> USE DEF IInv, ImportInv
<1>1. pos \in DOMAIN args.batch /\ pos \in Nat /\ Entry.content \in Texts
  BY DEF TypeOK, Entry
<1>2. CASE stage = "adding"
  BY <1>1, <1>2 DEF Request, Requests
<1>3. CASE stage = "updating"
  <2>1. PICK n : n = existing[Entry.content]
    OBVIOUS
  <2>2. Says(n, Entry.content)
    BY <1>3, <2>1 DEF LoopIsWellFormed, IndexSays, Entry
  <2>3. n \in DOMAIN pool /\ n \in Nat \ {0}
    BY <2>2, PoolFacts DEF Says, TypeOK, PoolTyped
  <2> QED BY <1>1, <1>3, <2>1, <2>2, <2>3 DEF Request, Requests
<1> QED BY <1>2, <1>3 DEF Waiting

LEMMA GiveUpKeeps == ASSUME IInv, GiveUp PROVE IInv'
<1> USE DEF IInv, ImportInv
<1>1. /\ Waiting /\ Advance("errors", pos) /\ UNCHANGED <<pool, existing>>
  BY DEF GiveUp
<1>2. PICK rq : rq = Request
  OBVIOUS
<1>3. late' = late \cup {rq}
  BY <1>2 DEF GiveUp
<1>4. /\ rq \in Requests /\ rq.entry = pos /\ rq.text = Entry.content
      /\ rq.id \in {0} \cup DOMAIN pool
      /\ rq.id # 0 => Says(rq.id, Entry.content)
      /\ rq.id = 0 => stage = "adding"
  BY <1>1, <1>2, RequestIsKnown
<1>5. MovesOn({}, {}, {pos})
  BY <1>1, ErrorMovesOn
<1>6. PICK err : err = {pos}
  OBVIOUS
<1>7. MovesOn({}, {}, err)
  BY <1>5, <1>6 DEF MovesOn
<1>8. Moves /\ Shaped' /\ stage' = "loop" /\ pos' \in Nat \ {0} /\ code' = "ok"
  BY <1>1, <1>7, AdvanceShapes
<1>9. ReportGrows /\ pos \in report'.errors
  BY <1>5 DEF MovesOn, ReportGrows
<1>10. LateGrows
  <2>1. pos \in DOMAIN args.batch /\ Entry.content = args.batch[pos].content
    BY <1>1 DEF TypeOK, Entry
  <2> QED BY <1>3, <1>4, <1>9, <2>1 DEF LateGrows, WrittenOff
<1>11. OnlyWrites(0, 0, 0)
  BY <1>1, NothingWritten DEF TypeOK, PoolTyped
<1>12. Explained(0, 0, 0)
  BY <1>1, <1>3, <1>4, <1>8, <1>9, <1>10, <1>11 DEF Explained, IndexGrows, MaybeAdded, Made
<1>13. StageTyped'
  BY <1>1, <1>3, <1>4, <1>8 DEF StageTyped, Waiting, TypeOK
<1> QED BY <1>8, <1>12, <1>13, ExplainedKeeps

LEMMA AbortKeeps == ASSUME IInv, Abort PROVE IInv'
<1> USE DEF IInv, ImportInv
<1>1. /\ UNCHANGED <<pool, args, code, pos, existing, report, kept>>
      /\ stage' = "raised" /\ stage \in {"listing", "adding", "updating"}
  BY DEF Abort, Waiting
<1>2. PICK rq : rq = Request
  OBVIOUS
<1>3. late' = IF Waiting THEN late \cup {rq} ELSE late
  BY <1>2 DEF Abort
<1>4. Waiting =>
      /\ rq \in Requests /\ rq.entry = pos /\ rq.text = Entry.content
      /\ rq.id \in {0} \cup DOMAIN pool
      /\ rq.id # 0 => Says(rq.id, Entry.content)
      /\ rq.id = 0 => stage = "adding"
      /\ pos \in DOMAIN args.batch /\ Entry.content = args.batch[pos].content
  BY <1>2, RequestIsKnown DEF TypeOK, Entry
<1>5. Moves /\ ReportGrows
  BY <1>1 DEF Moves, ReportGrows
<1>6. Shaped'
  BY <1>1 DEF Shaped, EveryEntryAccounted, LoopIsWellFormed, ReportIsTyped,
              ImportedEntries, SkippedEntries
<1>7. LateGrows
  BY <1>1, <1>3, <1>4 DEF LateGrows, WrittenOff
<1>8. OnlyWrites(0, 0, 0)
  BY <1>1, NothingWritten DEF TypeOK, PoolTyped
<1>9. \A d \in DOMAIN args.batch : MaybeAdded(d)' => MaybeAdded(d) \/ (stage = "adding" /\ d = pos)
  BY <1>1, <1>3, <1>4 DEF MaybeAdded, Made
<1>10. Explained(0, 0, 0)
  BY <1>1, <1>5, <1>7, <1>8, <1>9 DEF Explained, IndexGrows
<1>11. StageTyped'
  BY <1>1, <1>3, <1>4 DEF StageTyped, Waiting, TypeOK
<1> QED BY <1>6, <1>10, <1>11, ExplainedKeeps

LEMMA ServeLateKeeps == ASSUME IInv, NEW r \in late, ServeLate(r) PROVE IInv'
<1> USE DEF IInv, ImportInv
<1>1. PICK e, t, n : e = r.entry /\ t = r.text /\ n = IF r.id = 0 THEN Len(pool) + 1 ELSE r.id
  OBVIOUS
<1>2. /\ UNCHANGED <<args, stage, code, pos, existing, report, kept>> /\ late' = late \ {r}
      /\ pool' = IF r.id = 0 THEN Stored(Importer, e, t) ELSE Rewritten(r.id, e, t)
      /\ PoolTyped
  BY <1>1 DEF ServeLate, Applied, TypeOK, PoolTyped
<1>3. /\ WrittenOff(e) /\ e \in DOMAIN args.batch /\ t = args.batch[e].content
      /\ r.id # 0 => Says(r.id, t)
  BY <1>1 DEF LateIsKnown
<1>4. e \in Nat \ {0} /\ t \in Texts /\ Importer \in Users
  <2>1. r \in Requests
    BY DEF TypeOK
  <2>2. e \in Nat /\ t \in Texts
    BY <1>1, <2>1 DEF Requests
  <2>3. e # 0
    BY <1>3 DEF LoopIsWellFormed
  <2>4. Importer \in Users
    BY ImportAssumption
  <2> QED BY <2>2, <2>3, <2>4
<1>5. /\ OnlyWrites(n, e, t)
      /\ r.id = 0 <=> n \notin DOMAIN pool
  <2>1. CASE r.id = 0
    BY <1>1, <1>2, <1>4, <2>1, StoredWrites
  <2>2. CASE r.id # 0
    <3>1. r.id \in DOMAIN pool
      BY <1>3, <2>2 DEF Says
    <3> QED BY <1>1, <1>2, <1>4, <2>2, <3>1, RewrittenWrites
  <2> QED BY <2>1, <2>2
<1>6. Moves /\ ReportGrows /\ LateGrows /\ IndexGrows
  BY <1>2 DEF Moves, ReportGrows, LateGrows, IndexGrows
<1>7. Shaped'
  BY <1>2 DEF Shaped, EveryEntryAccounted, LoopIsWellFormed, ReportIsTyped,
              ImportedEntries, SkippedEntries
<1>8. ASSUME NEW d \in DOMAIN args.batch, MaybeAdded(d)' PROVE MaybeAdded(d)
  <2>1. CASE \E x \in late' : x.entry = d /\ x.id = 0
    BY <1>2, <2>1 DEF MaybeAdded
  <2>2. CASE Made(d)' # {}
    <3>1. Made(d) # {} \/ (d = e /\ n \in DOMAIN pool' \ DOMAIN pool)
      BY <1>2, <1>5, <2>2, MadeAfter
    <3> QED BY <1>1, <1>5, <3>1 DEF MaybeAdded
  <2> QED BY <1>8, <2>1, <2>2 DEF MaybeAdded
<1>9. Explained(n, e, t)
  BY <1>1, <1>2, <1>3, <1>5, <1>6, <1>8 DEF Explained, WrittenOff
<1>10. StageTyped'
  <2>1. \A x \in late' : x.id \in {0} \cup DOMAIN pool'
    BY <1>2, <1>5 DEF TypeOK, OnlyWrites, Grows
  <2> QED BY <1>2, <2>1 DEF StageTyped, Waiting, TypeOK
<1> QED BY <1>7, <1>9, <1>10, ExplainedKeeps

LEMMA OthersKeep == ASSUME IInv, Others PROVE IInv'
<1> USE DEF IInv, ImportInv
<1>1. UNCHANGED <<args, stage, code, pos, existing, report, late, kept>> /\ PoolTyped
  BY DEF Others, TypeOK, PoolTyped
<1>2. PICK at, t : OnlyWrites(at, 0, t)
  <2>1. PICK u \in Users :
          \/ \E t \in Texts : pool' = Stored(u, 0, t)
          \/ \E i \in Own(u), t \in Texts : pool' = Rewritten(i, 0, t)
          \/ \E i \in Own(u) : pool' = [pool EXCEPT ![i].live = FALSE]
    BY DEF Others
  <2>2. CASE \E t \in Texts : pool' = Stored(u, 0, t)
    <3>1. PICK t \in Texts : pool' = Stored(u, 0, t)
      BY <2>2
    <3>2. OnlyWrites(Len(pool) + 1, 0, t)
      BY <1>1, <3>1, StoredWrites
    <3> QED BY <3>2
  <2>3. CASE \E i \in Own(u), t \in Texts : pool' = Rewritten(i, 0, t)
    <3>1. PICK i \in Own(u), t \in Texts : pool' = Rewritten(i, 0, t)
      BY <2>3
    <3>2. i \in DOMAIN pool
      BY DEF Own
    <3> QED BY <1>1, <3>1, <3>2, RewrittenWrites
  <2>4. CASE \E i \in Own(u) : pool' = [pool EXCEPT ![i].live = FALSE]
    <3>1. PICK i \in Own(u) : pool' = [pool EXCEPT ![i].live = FALSE]
      BY <2>4
    <3>2. i \in DOMAIN pool
      BY DEF Own
    <3> QED BY <1>1, <3>1, <3>2, KilledWritesNothing
  <2> QED BY <2>1, <2>2, <2>3, <2>4
<1>3. Moves /\ ReportGrows /\ LateGrows /\ IndexGrows
  BY <1>1 DEF Moves, ReportGrows, LateGrows, IndexGrows
<1>4. Shaped'
  BY <1>1 DEF Shaped, EveryEntryAccounted, LoopIsWellFormed, ReportIsTyped,
              ImportedEntries, SkippedEntries
<1>5. ASSUME NEW d \in DOMAIN args.batch, MaybeAdded(d)' PROVE MaybeAdded(d)
  <2>1. d # 0
    BY DEF LoopIsWellFormed
  <2> QED BY <1>1, <1>2, <1>5, <2>1, MadeAfter DEF MaybeAdded
<1>6. Explained(at, 0, t)
  BY <1>2, <1>3, <1>5 DEF Explained
<1>7. StageTyped'
  <2>1. \A x \in late' : x.id \in {0} \cup DOMAIN pool'
    BY <1>1, <1>2 DEF TypeOK, OnlyWrites, Grows
  <2> QED BY <1>1, <2>1 DEF StageTyped, Waiting, TypeOK
<1> QED BY <1>4, <1>6, <1>7, ExplainedKeeps

-----------------------------------------------------------------------------
(* Before the loop the call has written nothing and says nothing. *)
LEMMA NothingYet ==
  ASSUME IInv, stage \in {"idle", "listing"}
  PROVE  /\ pos = 1 /\ kept = {} /\ code = "ok" /\ late = {}
         /\ report.imported = {} /\ report.skipped = {} /\ report.errors = {}
         /\ \A i \in DOMAIN pool : \A k \in DOMAIN pool[i].log : pool[i].log[k].by = 0
<1> USE DEF IInv, ImportInv
<1>1. pos = 1 /\ kept = {} /\ code = "ok"
  BY DEF LoopIsWellFormed
<1>2. ImportedEntries = {} /\ SkippedEntries = {} /\ report.errors = {}
  BY <1>1 DEF EveryEntryAccounted
<1>3. report.imported = {} /\ report.skipped = {}
  BY <1>2 DEF ImportedEntries, SkippedEntries
<1>4. \A e : ~WrittenOff(e)
  BY <1>2 DEF WrittenOff
<1>5. late = {}
  BY <1>4 DEF LateIsKnown
<1>6. \A i \in DOMAIN pool : \A k \in DOMAIN pool[i].log : pool[i].log[k].by = 0
  BY <1>2, <1>4 DEF WritesAreKnown
<1> QED BY <1>1, <1>2, <1>3, <1>5, <1>6

(* Such a state is good whatever the batch and the index, if they fit. *)
LEMMA FreshCall ==
  ASSUME IInv, stage \in {"idle", "listing"},
         UNCHANGED <<pool, pos, report, late>>,
         LoopIsWellFormed', StageTyped', stage' \in {"listing", "loop", "returned"},
         stage' = "returned" => code' # "ok",
         IndexSays', kept' \subseteq DOMAIN existing', args'.mode = "duplicate" => kept' = {}
  PROVE  IInv'
<1> USE DEF IInv, ImportInv
<1>1. /\ pos' = 1 /\ late' = {} /\ report' = report
      /\ report.imported = {} /\ report.skipped = {} /\ report.errors = {}
      /\ \A i \in DOMAIN pool' : \A k \in DOMAIN pool'[i].log : pool'[i].log[k].by = 0
  BY NothingYet
<1>2. TypeOK'
  BY DEF TypeOK, StageTyped, IndexSays, Says
<1>3. EveryEntryAccounted'
  BY <1>1 DEF EveryEntryAccounted, ImportedEntries, SkippedEntries
<1>4. \A e \in DOMAIN args'.batch : e # 0 /\ Made(e)' = {} /\ ~MaybeAdded(e)'
  <2>1. \A e \in DOMAIN args'.batch : e # 0
    BY DEF LoopIsWellFormed
  <2>2. \A i \in DOMAIN pool' : 1 \in DOMAIN pool'[i].log
    BY PoolFacts DEF TypeOK, PoolTyped
  <2> QED BY <1>1, <2>1, <2>2 DEF Made, MaybeAdded
<1>5. ReportIsTrue' /\ ReportSays'
  <2>1. \A e \in 1 .. Len(args'.batch) : Touched(e)' = {}
    BY <1>1 DEF Touched
  <2> QED BY <1>1, <2>1 DEF ReportIsTrue, ReportSays
<1>6. OverwriteRestores'
  BY DEF OverwriteRestores
<1>7. ReportIsTyped' /\ LateIsKnown' /\ WritesAreKnown'
  BY <1>1 DEF ReportIsTyped, LateIsKnown, WritesAreKnown
<1>8. IndexRemembers' /\ AddsAreNew'
  BY <1>4 DEF IndexRemembers, AddsAreNew
<1> QED BY <1>2, <1>3, <1>5, <1>6, <1>7, <1>8

LEMMA OwnIsFinite == ASSUME PoolTyped PROVE \A u : IsFiniteSet(Own(u))
<1>1. IsFiniteSet(DOMAIN pool)
  <2>1. Len(pool) \in Nat /\ DOMAIN pool = 1 .. Len(pool)
    BY DEF PoolTyped
  <2> QED BY <2>1, FS_Interval
<1> QED BY <1>1, FS_Subset DEF Own

(* An export is a batch. *)
LEMMA ExportIsBatch == ASSUME PoolTyped PROVE Export.batch \in Seq(BatchEntries)
<1>1. PICK own, n : own = Own(Importer) /\ n = Cardinality(own)
  OBVIOUS
<1>2. n \in Nat /\ ExistsBijection(1 .. n, own)
  BY <1>1, OwnIsFinite, FS_CardinalityType
<1>3. PICK list : list = SetToSeq(own)
  OBVIOUS
<1>4. list \in [1 .. n -> own]
  <2>1. \E f \in [1 .. n -> own] : IsInjective(f)
    BY <1>2 DEF ExistsBijection, Bijection, Injection
  <2> QED BY <1>1, <1>3, <2>1 DEF SetToSeq
<1>5. Len(list) = n /\ DOMAIN list = 1 .. n
  <2>1. list \in Seq(own)
    BY <1>2, <1>4
  <2> QED BY <1>2, <1>4, <2>1
<1>6. PICK m : m = IF Len(list) > MaxExport THEN MaxExport ELSE Len(list)
  OBVIOUS
<1>7. m \in Nat /\ m <= n
  <2>1. MaxExport \in Nat
    BY ImportAssumption
  <2> QED BY <1>2, <1>5, <1>6, <2>1
<1>8. Export.batch = [k \in 1 .. m |-> [content |-> Text(list[k]), scope |-> "good"]]
  BY <1>1, <1>3, <1>6, Zenon DEF Export
<1>9. ASSUME NEW k \in 1 .. m
      PROVE  [content |-> Text(list[k]), scope |-> "good"] \in BatchEntries
  <2>1. list[k] \in DOMAIN pool
    BY <1>1, <1>2, <1>4, <1>7 DEF Own
  <2>2. Text(list[k]) \in Texts
    BY <2>1, PoolFacts
  <2> QED BY <2>2 DEF BatchEntries
<1> QED BY <1>7, <1>8, <1>9

LEMMA SubmitKeeps ==
  ASSUME IInv, NEW batch \in Seq(BatchEntries), NEW mode, NEW from, Submit(batch, mode, from)
  PROVE  IInv'
<1> USE DEF IInv, ImportInv
<1>1. /\ stage = "idle" /\ args' = [batch |-> batch, mode |-> mode, from |-> from]
      /\ UNCHANGED <<pool, pos, existing, report, late, kept>>
      /\ \/ stage' = (IF mode = "duplicate" THEN "loop" ELSE "listing") /\ code' = code
         \/ stage' = "returned" /\ code' = "validation_error"
  BY DEF Submit
<1>2. pos = 1 /\ kept = {} /\ code = "ok" /\ Len(batch) \in Nat
  BY <1>1, NothingYet
<1>3. LoopIsWellFormed'
  BY <1>1, <1>2 DEF LoopIsWellFormed
<1>4. StageTyped'
  BY <1>1, <1>2 DEF StageTyped, TypeOK, Waiting
<1>5. IndexSays'
  BY <1>1 DEF IndexSays, Says
<1> QED BY <1>1, <1>2, <1>3, <1>4, <1>5, FreshCall

LEMMA ListKeeps == ASSUME IInv, List PROVE IInv'
<1> USE DEF IInv, ImportInv
<1>1. /\ stage = "listing" /\ stage' = "loop"
      /\ UNCHANGED <<pool, args, code, pos, report, late>>
      /\ kept' = IF Cardinality(Own(Importer)) <= MaxExport
                 THEN {Text(i) : i \in Own(Importer)} ELSE {}
      /\ PoolTyped
  BY DEF List, TypeOK, PoolTyped
<1>2. PICK own : own = Own(Importer)
  OBVIOUS
<1>3. PICK listed \in SUBSET own :
        /\ listed = own \/ Cardinality(listed) = MaxExport + 1
        /\ existing' \in Index(listed)
  BY <1>2 DEF List, ListLimit
<1>4. /\ DOMAIN existing' = {Text(i) : i \in listed}
      /\ \A t \in DOMAIN existing' : existing'[t] \in listed /\ Text(existing'[t]) = t
  BY <1>3 DEF Index
<1>5. \A i \in listed : i \in DOMAIN pool /\ pool[i].owner = Importer /\ Text(i) \in Texts
  BY <1>1, <1>2, PoolFacts DEF Own
<1>6. IndexSays'
  <2> SUFFICES ASSUME NEW t \in DOMAIN existing', NEW i, i = existing'[t] PROVE Says(i, t)'
    BY DEF IndexSays
  <2>1. i \in DOMAIN pool /\ pool[i].owner = Importer /\ Text(i) = t
    BY <1>4, <1>5
  <2>2. Len(pool[i].log) \in DOMAIN pool[i].log
    BY <1>1, <2>1, PoolFacts
  <2> QED BY <1>1, <2>1, <2>2 DEF Says, Text, Last
<1>7. kept' \subseteq DOMAIN existing'
  <2>1. CASE listed = own
    BY <1>1, <1>2, <1>4, <2>1
  <2>2. CASE Cardinality(listed) = MaxExport + 1
    <3>1. IsFiniteSet(own) /\ MaxExport \in Nat
      BY <1>1, <1>2, OwnIsFinite, ImportAssumption
    <3>2. Cardinality(listed) <= Cardinality(own) /\ Cardinality(own) \in Nat
      BY <3>1, FS_Subset, FS_CardinalityType
    <3>3. ~(Cardinality(own) <= MaxExport)
      BY <2>2, <3>1, <3>2
    <3> QED BY <1>1, <1>2, <3>3
  <2> QED BY <1>3, <2>1, <2>2
<1>8. args.mode # "duplicate" /\ code = "ok" /\ args' = args
  BY <1>1 DEF LoopIsWellFormed
<1>9. LoopIsWellFormed'
  BY <1>1, <1>8 DEF LoopIsWellFormed
<1>10. StageTyped'
  <2>1. DOMAIN existing' \subseteq Texts
    BY <1>4, <1>5
  <2> QED BY <1>1, <2>1 DEF StageTyped, TypeOK, Waiting
<1> QED BY <1>1, <1>6, <1>7, <1>8, <1>9, <1>10, FreshCall

LEMMA ListFailsKeeps == ASSUME IInv, ListFails PROVE IInv'
<1> USE DEF IInv, ImportInv
<1>1. /\ stage = "listing" /\ stage' = "returned" /\ code' \in {"timeout", "backend_error"}
      /\ UNCHANGED <<pool, args, pos, existing, report, late, kept>>
  BY DEF ListFails
<1>2. kept = {}
  BY <1>1, NothingYet
<1>3. LoopIsWellFormed'
  BY <1>1 DEF LoopIsWellFormed
<1>4. StageTyped'
  BY <1>1 DEF StageTyped, TypeOK, Waiting
<1>5. IndexSays'
  BY <1>1 DEF IndexSays, Says
<1> QED BY <1>1, <1>2, <1>3, <1>4, <1>5, FreshCall

LEMMA StutterKeeps == ASSUME IInv, UNCHANGED vars PROVE IInv'
<1>1. UNCHANGED <<pool, args, stage, code, pos, existing, report, late, kept>>
  BY DEF vars
<1>2. Moves /\ ReportGrows
  BY <1>1 DEF Moves, ReportGrows
<1>3. Shaped'
  BY <1>1 DEF IInv, ImportInv, Shaped, EveryEntryAccounted, LoopIsWellFormed, ReportIsTyped,
              ImportedEntries, SkippedEntries
<1>4. StageTyped'
  BY <1>1 DEF IInv, StageTyped, TypeOK, Waiting
<1> QED BY <1>1, <1>2, <1>3, <1>4, QuietlyExplained, ExplainedKeeps

LEMMA InitKeeps == ASSUME Init PROVE IInv
<1>1. /\ pos = 1 /\ stage = "idle" /\ code = "ok" /\ late = {} /\ kept = {}
      /\ report = [imported |-> {}, skipped |-> {}, errors |-> {}]
      /\ args = [batch |-> <<>>, mode |-> "skip", from |-> "client"]
      /\ DOMAIN existing = {}
  BY DEF Init
<1>2. /\ PoolTyped
      /\ \A i \in DOMAIN pool : \A k \in DOMAIN pool[i].log : pool[i].log[k].by = 0
  BY ImportAssumption DEF Init, PoolTyped
<1>3. TypeOK
  BY <1>1, <1>2 DEF TypeOK, PoolTyped, Waiting
<1>4. EveryEntryAccounted
  BY <1>1 DEF EveryEntryAccounted, ImportedEntries, SkippedEntries
<1>5. ReportIsTrue /\ OverwriteRestores
  BY <1>1, <1>2 DEF ReportIsTrue, OverwriteRestores
<1>6. LoopIsWellFormed /\ ReportIsTyped
  BY <1>1 DEF LoopIsWellFormed, ReportIsTyped
<1>7. IndexSays /\ ReportSays /\ LateIsKnown /\ WritesAreKnown
  BY <1>1, <1>2 DEF IndexSays, ReportSays, LateIsKnown, WritesAreKnown
<1>8. IndexRemembers /\ AddsAreNew
  BY <1>1 DEF IndexRemembers, AddsAreNew
<1> QED BY <1>3, <1>4, <1>5, <1>6, <1>7, <1>8 DEF IInv, ImportInv

-----------------------------------------------------------------------------
(* The theorems *)

LEMMA NextKeeps == ASSUME IInv, [Next]_vars PROVE IInv'
<1>1. PoolTyped
  BY DEF IInv, TypeOK, PoolTyped
<1>2. ASSUME NEW batch \in Batches, NEW mode \in ModeArgs, Submit(batch, mode, "client")
      PROVE  IInv'
  <2>1. batch \in Seq(BatchEntries)
    BY ImportAssumption
  <2> QED BY <1>2, <2>1, SubmitKeeps
<1>3. ASSUME NEW mode \in ModeArgs, Submit(Export.batch, mode, Export.from) PROVE IInv'
  <2>1. PICK batch, from : batch = Export.batch /\ from = Export.from
    OBVIOUS
  <2> QED BY <1>1, <1>3, <2>1, ExportIsBatch, SubmitKeeps
<1>4. ASSUME Step PROVE IInv'
  <2>1. ASSUME RejectEntry PROVE IInv'
    BY <2>1, ErrorKeeps DEF RejectEntry
  <2> QED BY <1>4, <2>1, SkipKeeps, SendKeeps DEF Step
<1>5. ASSUME StoredNothing \/ Refused PROVE IInv'
  BY <1>5, ErrorKeeps DEF StoredNothing, Refused, Waiting
<1>6. ASSUME NEW r \in late, ServeLate(r) PROVE IInv'
  BY <1>6, ServeLateKeeps
<1> QED
  BY <1>2, <1>3, <1>4, <1>5, <1>6, ListKeeps, ListFailsKeeps, AddedKeeps, UpdatedKeeps,
     GiveUpKeeps, AbortKeeps, OthersKeep, StutterKeeps DEF Next, Quiet

(* Every part of the invariant holds in every state of an import, however *)
(* its awaits interleave with the other calls.                             *)
THEOREM Invariance == Spec => []IInv
  BY InitKeeps, NextKeeps, PTL DEF Spec

(* The state keeps its type: the index and the late writes name memories   *)
(* that exist.                                                             *)
THEOREM TypeCorrect == Spec => []TypeOK
<1>1. IInv => TypeOK
  BY DEF IInv
<1> QED BY <1>1, Invariance, PTL

(* The answer speaks of every entry of the batch, in one list only.        *)
THEOREM AllEntriesAccounted == Spec => []EveryEntryAccounted
<1>1. IInv => EveryEntryAccounted
  BY DEF IInv
<1> QED BY <1>1, Invariance, PTL

(* What the answer says of a memory is so, and no write goes unmentioned.  *)
THEOREM ReportsAreTrue == Spec => []ReportIsTrue
<1>1. IInv => ReportIsTrue
  BY DEF IInv
<1> QED BY <1>1, Invariance, PTL

(* An overwrite puts back only what the memory said before.                *)
THEOREM OverwritesRestore == Spec => []OverwriteRestores
<1>1. IInv => OverwriteRestores
  BY DEF IInv
<1> QED BY <1>1, Invariance, PTL

(* The invariant the others rest on.                                       *)
THEOREM ImportInvariant == Spec => []ImportInv
<1>1. IInv => ImportInv
  BY DEF IInv
<1> QED BY <1>1, Invariance, PTL

(* Two memories of one text from one import come with an error.            *)
THEOREM NoCopyIsSilent == Spec => []NoSilentCopy
<1>1. IInv => NoSilentCopy
  <2> SUFFICES ASSUME IInv, args.mode # "duplicate",
                      NEW d \in DOMAIN args.batch, NEW e \in DOMAIN args.batch, d < e,
                      args.batch[d].content = args.batch[e].content, Made(d) # {}, Made(e) # {}
               PROVE  d \in report.errors
    BY DEF NoSilentCopy
  <2>1. AddsAreNew /\ MaybeAdded(d) /\ MaybeAdded(e)
    BY DEF IInv, ImportInv, MaybeAdded
  <2>2. d \in 1 .. e - 1
    <3>1. args.batch \in Seq(BatchEntries)
      BY DEF IInv, ImportInv, LoopIsWellFormed
    <3> QED BY <3>1
  <2> QED BY <2>1, <2>2 DEF AddsAreNew
<1> QED BY <1>1, Invariance, PTL

(* What the tenant had when the batch was indexed is not stored again.     *)
THEOREM KeptIsNotCopied == Spec => []NoCopyOfKept
<1>1. IInv => NoCopyOfKept
  BY DEF IInv, ImportInv, AddsAreNew, MaybeAdded, NoCopyOfKept
<1> QED BY <1>1, Invariance, PTL

=============================================================================

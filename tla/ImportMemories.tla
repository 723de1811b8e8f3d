--------------------------- MODULE ImportMemories ---------------------------
(***************************************************************************)
(* One call of import_memories (memcp/tools.py) against a backend that     *)
(* other calls use at the same time, other imports included.  The call     *)
(* awaits the backend at the listing and at each write; between two awaits *)
(* it runs alone.                                                          *)
(*                                                                         *)
(* The backend is known by what a call of it may do (see Mem0Backend and   *)
(* TenantStore): its effect happens at one moment, and a call that fails   *)
(* may have had its effect, may have it later, or never.                   *)
(***************************************************************************)
EXTENDS Naturals, FiniteSets, SequencesExt

CONSTANTS
  Users,
  Importer,    \* get_tenant() of the call
  Texts,       \* contents validate_content accepts
  BadTexts,    \* contents it rejects, or that are no string
  Batches,     \* what clients send
  ModeArgs,    \* the on_conflict values clients send
  InitPools,   \* what the backend may hold before
  MaxImport,   \* MAX_IMPORT
  MaxExport,   \* MAX_EXPORT
  MaxOthers    \* bound: changes by other calls

Modes == {"skip", "overwrite", "duplicate"}
BatchEntries == [content : Texts \cup BadTexts, scope : {"good", "bad", "no_dict"}]

(* A memory by its writes: the number of the batch entry it was written    *)
(* for, 0 for another call, and the text.  Its id is its place in the pool.*)
Writes == [by : Nat, text : Texts]
Memories == [owner : Users, live : BOOLEAN, log : Seq(Writes)]

ASSUME ImportAssumption ==
  /\ Importer \in Users
  /\ Texts \cap BadTexts = {}
  /\ Batches \subseteq Seq(BatchEntries)
  /\ InitPools \subseteq Seq(Memories)
  /\ \A init \in InitPools : \A i \in DOMAIN init :
       /\ init[i].log # <<>>
       /\ \A k \in DOMAIN init[i].log : init[i].log[k].by = 0
  /\ MaxImport \in Nat /\ MaxExport \in Nat /\ MaxOthers \in Nat

VARIABLES
  pool,      \* the memories of the backend
  args,      \* the batch, on_conflict, and where the batch comes from
  stage,     \* where the call is
  code,      \* the error code of its answer
  pos,       \* the entry at hand
  existing,  \* the dedup index: content -> id
  report,    \* the three lists of the answer
  late,      \* writes nobody waits for any more
  kept,      \* the Importer's texts when the listing was served, if it listed all
  others     \* how many changes other calls made

vars == <<pool, args, stage, code, pos, existing, report, late, kept, others>>

Ended == stage \in {"returned", "raised"}
Waiting == stage \in {"adding", "updating"}

Requests == [entry : Nat, id : Nat, text : Texts]    \* id 0: an add

TypeOK ==
  /\ pool \in Seq(Memories)
  /\ \A i \in DOMAIN pool : pool[i].log # <<>>
  /\ stage \in {"idle", "listing", "loop", "adding", "updating", "returned", "raised"}
  /\ code \in {"ok", "validation_error", "timeout", "backend_error"}
  /\ pos \in Nat \ {0}
  /\ DOMAIN existing \subseteq Texts
  /\ \A t \in DOMAIN existing : existing[t] \in DOMAIN pool
  /\ late \subseteq Requests
  /\ \A r \in late : r.id \in {0} \cup DOMAIN pool
  /\ Waiting => pos \in DOMAIN args.batch /\ args.batch[pos].content \in Texts

Init ==
  /\ pool \in InitPools
  /\ args = [batch |-> <<>>, mode |-> "skip", from |-> "client"]
  /\ stage = "idle"
  /\ code = "ok"
  /\ pos = 1
  /\ existing = [t \in {} |-> 0]
  /\ report = [imported |-> {}, skipped |-> {}, errors |-> {}]
  /\ late = {}
  /\ kept = {}
  /\ others = 0

-----------------------------------------------------------------------------
(* The backend.  A definition named for what it gets wrong, just before    *)
(* the one it resembles, is a mutant: the properties are checked to fail   *)
(* when it takes the other's place.                                        *)

Text(i) == Last(pool[i].log).text
Own(u) == {i \in DOMAIN pool : pool[i].live /\ pool[i].owner = u}

Stored(u, entry, text) ==
  Append(pool, [owner |-> u, live |-> TRUE, log |-> <<[by |-> entry, text |-> text]>>])
Rewritten(id, entry, text) ==
  [pool EXCEPT ![id].log = Append(@, [by |-> entry, text |-> text])]

Applicable(r) == r.id # 0 => r.id \in Own(Importer)
Applied(r) ==
  IF r.id = 0 THEN Stored(Importer, r.entry, r.text)
              ELSE Rewritten(r.id, r.entry, r.text)

ServeLate(r) ==
  /\ Applicable(r)
  /\ pool' = Applied(r)
  /\ late' = late \ {r}
  /\ UNCHANGED <<args, stage, code, pos, existing, report, kept, others>>

(* Any other tool call, of any tenant. *)
Others ==
  /\ others < MaxOthers /\ others' = others + 1
  /\ \E u \in Users :
       \/ \E t \in Texts : pool' = Stored(u, 0, t)
       \/ \E i \in Own(u), t \in Texts : pool' = Rewritten(i, 0, t)
       \/ \E i \in Own(u) : pool' = [pool EXCEPT ![i].live = FALSE]
  /\ UNCHANGED <<args, stage, code, pos, existing, report, late, kept>>

-----------------------------------------------------------------------------
(* The call *)

Acceptable(batch, mode) ==
  /\ batch # <<>>
  /\ Len(batch) <= MaxImport
  /\ mode \in Modes

(* The checks; `duplicate' needs no listing.  "not_supported" is left out: *)
(* both backends have update_memory.                                       *)
Submit(batch, mode, from) ==
  /\ stage = "idle"
  /\ args' = [batch |-> batch, mode |-> mode, from |-> from]
  /\ IF Acceptable(batch, mode)
     THEN stage' = (IF mode = "duplicate" THEN "loop" ELSE "listing") /\ code' = code
     ELSE stage' = "returned" /\ code' = "validation_error"
  /\ UNCHANGED <<pool, pos, existing, report, late, kept, others>>

(* export_memories by the same tenant, its answer fed to the import.       *)
Export ==
  LET list == SetToSeq(Own(Importer))
      cut == Len(list) > MaxExport
  IN  [batch |-> [k \in 1 .. (IF cut THEN MaxExport ELSE Len(list)) |->
                    [content |-> Text(list[k]), scope |-> "good"]],
       from |-> IF cut THEN "cut_export" ELSE "export"]

ListLimitOfImport == MaxImport
ListLimit == MaxExport + 1

(* Which memories come first in the listing, and so which one of several   *)
(* with the same text is indexed last, is the backend's choice.            *)
IndexOfAnyId(listed) == [{Text(i) : i \in listed} -> listed]
Index(listed) ==
  {f \in [{Text(i) : i \in listed} -> listed] : \A t \in DOMAIN f : Text(f[t]) = t}

List ==
  /\ stage = "listing"
  /\ \E listed \in SUBSET Own(Importer) :
       /\ \/ listed = Own(Importer) /\ Cardinality(listed) <= ListLimit
          \/ Cardinality(listed) = ListLimit
       /\ existing' \in Index(listed)
  /\ kept' = IF Cardinality(Own(Importer)) <= MaxExport
             THEN {Text(i) : i \in Own(Importer)} ELSE {}
  /\ stage' = "loop"
  /\ UNCHANGED <<pool, args, code, pos, report, late, others>>

ListFails ==
  /\ stage = "listing"
  /\ stage' = "returned"
  /\ code' \in {"timeout", "backend_error"}
  /\ UNCHANGED <<pool, args, pos, existing, report, late, kept, others>>

Entry == args.batch[pos]
AtEntry == stage = "loop" /\ pos <= Len(args.batch)
Valid == Entry.content \in Texts /\ Entry.scope = "good"
Duplicate == Valid /\ Entry.content \in DOMAIN existing /\ args.mode # "duplicate"

(* On to the next entry, with this one in the named list of the answer.    *)
Advance(list, item) ==
  /\ stage' = "loop"
  /\ pos' = pos + 1
  /\ report' = [report EXCEPT ![list] = @ \cup {item}]
  /\ UNCHANGED <<args, code, kept, others>>

RejectEntryWithoutContinue ==
  /\ AtEntry
  /\ Entry.content \notin Texts \/ Entry.scope = "bad"
  /\ IF Entry.content \in Texts
     THEN /\ report' = [report EXCEPT !.errors = @ \cup {pos}]
          /\ stage' = "adding"
          /\ UNCHANGED <<args, code, pos, kept, others>>
     ELSE Advance("errors", pos)
  /\ UNCHANGED <<pool, existing, late>>

RejectEntry ==
  /\ AtEntry
  /\ Entry.content \notin Texts \/ Entry.scope = "bad"
  /\ Advance("errors", pos)
  /\ UNCHANGED <<pool, existing, late>>

SkipEntry ==
  /\ AtEntry
  /\ Duplicate
  /\ args.mode = "skip"
  /\ Advance("skipped", [entry |-> pos, id |-> existing[Entry.content]])
  /\ UNCHANGED <<pool, existing, late>>

SendEntry ==
  /\ AtEntry
  /\ Valid
  /\ Duplicate => args.mode = "overwrite"
  /\ stage' = IF Duplicate THEN "updating" ELSE "adding"
  /\ UNCHANGED <<pool, args, code, pos, existing, report, late, kept, others>>

(* A truthy scope that is no dict: _validate_scope raises an AttributeError *)
(* or a TypeError, which the loop does not catch.                          *)
ChokeOnEntry ==
  /\ AtEntry
  /\ Entry.content \in Texts /\ Entry.scope = "no_dict"
  /\ stage' = "raised"
  /\ UNCHANGED <<pool, args, code, pos, existing, report, late, kept, others>>

Finish ==
  /\ stage = "loop" /\ pos > Len(args.batch)
  /\ stage' = "returned"
  /\ UNCHANGED <<pool, args, code, pos, existing, report, late, kept, others>>

-----------------------------------------------------------------------------
(* The answer to the write the call waits for *)

Request ==
  [entry |-> pos, text |-> Entry.content,
   id |-> IF stage = "updating" THEN existing[Entry.content] ELSE 0]

NotRemembered(text, id) == existing
Remembered(text, id) ==
  [t \in DOMAIN existing \cup {text} |-> IF t = text THEN id ELSE existing[t]]

Added ==
  /\ stage = "adding"
  /\ pool' = Applied(Request)
  /\ existing' = Remembered(Entry.content, Len(pool) + 1)
  /\ Advance("imported", [entry |-> pos, id |-> Len(pool) + 1, action |-> "created"])
  /\ UNCHANGED late

StoredNothingRemembered ==
  /\ stage = "adding"
  /\ existing' = Remembered(Entry.content, Len(pool) + 1)
  /\ Advance("errors", pos)
  /\ UNCHANGED <<pool, late>>

(* An empty result, which mem0 may give an add: "stored nothing". *)
StoredNothing ==
  /\ stage = "adding"
  /\ Advance("errors", pos)
  /\ UNCHANGED <<pool, existing, late>>

UpdatedUnchecked ==
  /\ stage = "updating"
  /\ pool' = IF Applicable(Request) THEN Applied(Request) ELSE pool
  /\ Advance("imported", [entry |-> pos, id |-> Request.id, action |-> "updated"])
  /\ UNCHANGED <<existing, late>>
Updated ==
  /\ stage = "updating"
  /\ Applicable(Request)
  /\ pool' = Applied(Request)
  /\ Advance("imported", [entry |-> pos, id |-> Request.id, action |-> "updated"])
  /\ UNCHANGED <<existing, late>>

(* A MemoryAPIError: a refusal leaves nothing behind, a timeout or a       *)
(* network error may leave the write to be served later.                   *)
Refused ==
  /\ Waiting
  /\ Advance("errors", pos)
  /\ UNCHANGED <<pool, existing, late>>

GiveUpAdd ==
  /\ stage = "adding"
  /\ late' = late \cup {Request}
  /\ Advance("errors", pos)
  /\ UNCHANGED <<pool, existing>>
GiveUp ==
  /\ Waiting
  /\ late' = late \cup {Request}
  /\ Advance("errors", pos)
  /\ UNCHANGED <<pool, existing>>

(* Anything but a MemoryAPIError ends the call: an answer that is no JSON  *)
(* (a ValueError), or the cancellation of the call.                        *)
Abort ==
  /\ Waiting \/ stage = "listing"
  /\ stage' = "raised"
  /\ late' = IF Waiting THEN late \cup {Request} ELSE late
  /\ UNCHANGED <<pool, args, code, pos, existing, report, kept, others>>

-----------------------------------------------------------------------------
(* The loop of the tool between two awaits. *)
Step == RejectEntry \/ SkipEntry \/ SendEntry \/ ChokeOnEntry \/ Finish

(* The call has ended and nothing needs to happen any more. *)
Quiet == Ended /\ UNCHANGED vars

Next ==
  \/ \E batch \in Batches, mode \in ModeArgs : Submit(batch, mode, "client")
  \/ \E mode \in ModeArgs : Submit(Export.batch, mode, Export.from)
  \/ List \/ ListFails
  \/ Step
  \/ Added \/ StoredNothing \/ Updated \/ Refused \/ GiveUp \/ Abort
  \/ \E r \in late : ServeLate(r)
  \/ Others
  \/ Quiet

Spec == Init /\ [][Next]_vars

(* The event loop runs the code between two awaits, and each await of the  *)
(* backend ends at the latest by the timeout of the HTTP client.           *)
Fairness == WF_vars(Step) /\ WF_vars(ListFails) /\ WF_vars(GiveUp)
FairSpec == Spec /\ Fairness

-----------------------------------------------------------------------------
(* Properties *)

Made(e) == {i \in DOMAIN pool : pool[i].log[1].by = e}
Touched(e) == {i \in DOMAIN pool : \E k \in DOMAIN pool[i].log : pool[i].log[k].by = e}
ImportedEntries == {r.entry : r \in report.imported}
SkippedEntries == {r.entry : r \in report.skipped}

(* The answer speaks of every entry, and of each in one list only: what    *)
(* went through the loop is imported, skipped or an error, whatever failed *)
(* on the way, and an answered import went through all of the batch        *)
(* (tools.py:296-349).                                                     *)
EveryEntryAccounted ==
  /\ ImportedEntries \cup SkippedEntries \cup report.errors = 1 .. pos - 1
  /\ ImportedEntries \cap SkippedEntries = {}
  /\ (ImportedEntries \cup SkippedEntries) \cap report.errors = {}
  /\ stage = "returned" => pos = IF code = "ok" THEN Len(args.batch) + 1 ELSE 1

(* The answer is true although the index is older than the loop: an        *)
(* imported id is a memory of the tenant that was given the text of the    *)
(* entry for this entry, a skipped one is a memory of the tenant that had  *)
(* that text, and what was written is listed as imported or as an error,   *)
(* unless the call ended in an exception at that entry (tools.py:317-341). *)
ReportIsTrue ==
  /\ \A r \in report.imported :
       /\ pool[r.id].owner = Importer
       /\ \E k \in DOMAIN pool[r.id].log :
            /\ pool[r.id].log[k] = [by |-> r.entry, text |-> args.batch[r.entry].content]
            /\ r.action = "created" <=> k = 1
  /\ \A r \in report.skipped :
       /\ pool[r.id].owner = Importer
       /\ \E k \in DOMAIN pool[r.id].log :
            pool[r.id].log[k].text = args.batch[r.entry].content
  /\ \A e \in 1 .. Len(args.batch) :
       Touched(e) # {} => \/ e \in ImportedEntries \cup report.errors
                          \/ stage = "raised" /\ e = pos

(* A text that occurs twice in the batch is stored once: two memories the  *)
(* import made of one text mean that the answer reports an error for the   *)
(* earlier one, as an add that timed out may still be stored (tools.py:337).*)
NoSilentCopy ==
  args.mode # "duplicate" =>
    \A d \in DOMAIN args.batch, e \in DOMAIN args.batch :
      (/\ d < e /\ args.batch[d].content = args.batch[e].content
       /\ Made(d) # {} /\ Made(e) # {}) => d \in report.errors

(* A text the tenant had when the batch was indexed is not added again,    *)
(* for a tenant of at most MAX_EXPORT memories, whatever other calls do to *)
(* the store during the loop (tools.py:283: "users with >10k memories get  *)
(* best-effort dedup").                                                    *)
NoCopyOfKept ==
  \A e \in DOMAIN args.batch : Made(e) # {} => args.batch[e].content \notin kept

(* An overwrite only puts back a text: the memory it writes belongs to the *)
(* tenant and had that very text before.  With a stale index it may undo   *)
(* the update of another call, but it never puts an entry in the place of  *)
(* a memory that never said the same (tools.py:288, 321-323).              *)
OverwriteRestores ==
  \A i \in DOMAIN pool : \A k \in DOMAIN pool[i].log :
    (k > 1 /\ pool[i].log[k].by # 0) =>
      /\ pool[i].owner = Importer
      /\ \E h \in 1 .. k - 1 : pool[i].log[h].text = pool[i].log[k].text

(* Why these hold.  The index, the late updates and the skipped entries    *)
(* name memories of the tenant that once said the text; a write that may   *)
(* be somewhere is one the answer knows of; and an entry is added only     *)
(* while its text is not in the index, which never forgets one.            *)
Says(i, text) ==
  /\ i \in DOMAIN pool /\ pool[i].owner = Importer
  /\ \E k \in DOMAIN pool[i].log : pool[i].log[k].text = text
WrittenOff(e) == e \in report.errors \/ (stage = "raised" /\ e = pos)
MaybeAdded(e) == Made(e) # {} \/ \E r \in late : r.entry = e /\ r.id = 0

LoopIsWellFormed ==
  /\ args.batch \in Seq(BatchEntries)
  /\ pos <= Len(args.batch) + 1
  /\ stage \in {"idle", "listing"} => pos = 1 /\ kept = {}
  /\ stage # "returned" => code = "ok"
  /\ stage = "listing" => args.mode # "duplicate"
  /\ stage = "updating" => args.batch[pos].content \in DOMAIN existing
  /\ stage = "adding" => args.mode = "duplicate" \/ args.batch[pos].content \notin DOMAIN existing
ReportIsTyped ==
  report \in [imported : SUBSET [entry : Nat, id : Nat, action : {"created", "updated"}],
              skipped : SUBSET [entry : Nat, id : Nat], errors : SUBSET Nat]
IndexSays == \A t \in DOMAIN existing : Says(existing[t], t)
ReportSays ==
  /\ \A r \in report.imported : r.id \in DOMAIN pool
  /\ \A r \in report.skipped : r.id \in DOMAIN pool
LateIsKnown ==
  \A r \in late :
    /\ WrittenOff(r.entry) /\ r.entry \in DOMAIN args.batch
    /\ r.text = args.batch[r.entry].content
    /\ r.id # 0 => Says(r.id, r.text)
WritesAreKnown ==
  \A i \in DOMAIN pool : \A k \in DOMAIN pool[i].log :
    LET e == pool[i].log[k].by
    IN  e # 0 => e \in DOMAIN args.batch /\ (e \in ImportedEntries \/ WrittenOff(e))
IndexRemembers ==
  /\ \A e \in DOMAIN args.batch :
       Made(e) # {} => args.batch[e].content \in DOMAIN existing \/ WrittenOff(e)
  /\ kept \subseteq DOMAIN existing
  /\ args.mode = "duplicate" => kept = {}
AddsAreNew ==
  \A e \in DOMAIN args.batch : MaybeAdded(e) =>
    /\ args.batch[e].content \notin kept
    /\ args.mode # "duplicate" =>
         \A d \in 1 .. e - 1 :
           (args.batch[d].content = args.batch[e].content /\ MaybeAdded(d)) => d \in report.errors

ImportInv ==
  /\ LoopIsWellFormed /\ ReportIsTyped /\ IndexSays /\ ReportSays /\ LateIsKnown
  /\ WritesAreKnown /\ IndexRemembers /\ AddsAreNew

(* A submitted import ends, however often the backend does not answer.     *)
ImportEnds == (stage # "idle") ~> Ended

(* "output compatible with import_memories" (tools.py:232): an export that *)
(* holds memories and is not cut is not refused by the import.             *)
ExportIsImportable ==
  (args.from = "export" /\ args.batch # <<>> /\ args.mode \in Modes)
     => code # "validation_error"
=============================================================================

----------------------------- MODULE RelayStore -----------------------------
(***************************************************************************)
(* The local relay's event store (storage_engine.c): one file per event on *)
(* LittleFS, an index of them in RAM, and a copy of the index in NVS that  *)
(* is written key by key and is all that is left after a power loss.       *)
(*                                                                         *)
(* Every operation holds the engine's mutex from beginning to end; op says *)
(* what its holder still has to do, so that the power can fail in between. *)
(***************************************************************************)
EXTENDS Integers, Sequences, FiniteSets, SequencesExt

CONSTANTS
    Ids,            \* event ids
    Deletable,      \* those whose author deletes them
    ZeroId,         \* the id of an entry that was never written (calloc)
    MaxEntries,     \* max_index_entries
    SaveEvery,      \* storage_save_event_json saves at every 10th entry
    ChunkSize,      \* index entries per NVS blob
    NvsChunks,      \* blobs the NVS partition has room for
    Ttl,            \* default_ttl_sec
    CompactEvery,   \* purges per compaction
    Epoch,          \* the wall clock when the relay is first switched on
    MaxTime,        \* bound: the last value of the wall clock
    MaxFileIndex,   \* bound: files written
    MaxBoots        \* bound: power losses

ASSUME RelayStoreAssumption ==
    /\ ZeroId \notin Ids /\ Deletable \subseteq Ids
    /\ MaxEntries \in Nat \ {0} /\ SaveEvery \in Nat \ {0}
    /\ ChunkSize \in Nat \ {0} /\ NvsChunks \in Nat
    /\ Ttl \in Nat \ {0} /\ CompactEvery \in Nat \ {0}
    /\ Epoch \in Nat /\ Epoch > Ttl /\ MaxTime \in Nat /\ MaxTime >= Epoch
    /\ MaxFileIndex \in Nat /\ MaxBoots \in Nat

VARIABLES
    index,           \* engine->index[0 .. index_count - 1]
    next_file_index,
    op,              \* what the holder of engine->lock has still to do
    cycles,          \* of storage_cleanup_task
    cleaner,         \* where that task is
    files,           \* LittleFS: the event files, <<id, file_index>>
    nvs,             \* namespace nostr_idx: count, next_idx, idx_0, idx_1, ...
    clock,           \* the true time, and whether SNTP has set time()
    boots,           \* history: power losses
    torn             \* history: those of them that hit a save

vars == <<index, next_file_index, op, cycles, cleaner, files, nvs, clock, boots, torn>>

Entry == [id : Ids \cup {ZeroId}, expires_at : Nat, file_index : Nat, deleted : BOOLEAN]

(* What a slot holds that load_index_from_nvs did not fill.                *)
Blank == [id |-> ZeroId, expires_at |-> 0, file_index |-> 0, deleted |-> FALSE]

Idle == [kind |-> "idle", at |-> 0, dirty |-> FALSE]

NotFound == -1

(* time(NULL): seconds since power-on (here 0) until SNTP answers.         *)
Now == IF clock.synced THEN clock.wall ELSE 0

Path(e) == <<e.id, e.file_index>>

(* find_index_entry: deleted entries are not looked at.                    *)
Live(i) == ~index[i].deleted
Find(id) == {i \in DOMAIN index : index[i].id = id /\ Live(i)}

Expired(e) == e.expires_at > 0 /\ e.expires_at < Now

(* storage_query_events_json answers with the entries whose file can be    *)
(* read, its filter, limit and look at the time aside.                     *)
Readable(i) == Live(i) /\ Path(index[i]) \in files

(***************************************************************************)
(* save_index_to_nvs: count, next_idx, then the blobs in order.  A blob    *)
(* that does not fit is not written and its error not looked at; a blob of *)
(* an index that was once longer is never erased.                          *)
(***************************************************************************)
ChunksOf(n) == (n + ChunkSize - 1) \div ChunkSize

Chunk(s, c) == SubSeq(s, c * ChunkSize + 1,
                      IF (c + 1) * ChunkSize < Len(s) THEN (c + 1) * ChunkSize ELSE Len(s))

BeginSave == op' = [kind |-> "save", at |-> 0, dirty |-> FALSE]

(* Mutant of SaveWrites: next_idx goes last.                               *)
SaveWritesNextLast(k) ==
    CASE k = 0 -> [nvs EXCEPT !.count = Len(index)]
      [] k = ChunksOf(Len(index)) + 1 -> [nvs EXCEPT !.next = next_file_index]
      [] OTHER -> IF k - 1 < NvsChunks
                  THEN [nvs EXCEPT !.blobs[k - 1] = Chunk(index, k - 1)] ELSE nvs

(* The kth write of a save.                                                *)
SaveWrites(k) ==
    CASE k = 0 -> [nvs EXCEPT !.count = Len(index)]
      [] k = 1 -> [nvs EXCEPT !.next = next_file_index]
      [] OTHER -> IF k - 2 < NvsChunks
                  THEN [nvs EXCEPT !.blobs[k - 2] = Chunk(index, k - 2)] ELSE nvs

SaveIndex ==
    /\ op.kind = "save"
    /\ nvs' = SaveWrites(op.at)
    /\ op' = IF op.at <= ChunksOf(Len(index)) THEN [op EXCEPT !.at = @ + 1] ELSE Idle
    /\ UNCHANGED <<index, next_file_index, cycles, cleaner, files, clock, boots, torn>>

(***************************************************************************)
(* load_index_from_nvs: a blob longer than what is asked for is not read,  *)
(* a shorter one leaves the rest of its slots blank.                       *)
(***************************************************************************)
LoadedEntry(n, i) ==
    LET c    == (i - 1) \div ChunkSize
        blob == nvs.blobs[c]
        asked == IF (c + 1) * ChunkSize < n THEN ChunkSize ELSE n - c * ChunkSize
        k    == i - c * ChunkSize
    IN  IF Len(blob) <= asked /\ k <= Len(blob) THEN blob[k] ELSE Blank

LoadNext == IF nvs.next = NotFound THEN 0 ELSE nvs.next

LoadIndex == IF nvs.next = NotFound THEN <<>>
             ELSE [i \in 1..nvs.count |-> LoadedEntry(nvs.count, i)]

(***************************************************************************)
(* storage_save_event_json.                                                *)
(***************************************************************************)

NewEntry(id) == [id |-> id, expires_at |-> Now + Ttl, file_index |-> next_file_index,
                 deleted |-> FALSE]

(* Mutant of SaveEvent: the index is never saved when an event is.         *)
SaveEventUnsaved(id, written) ==
    /\ op.kind = "idle"
    /\ Find(id) = {}
    /\ Len(index) < MaxEntries
    /\ next_file_index < MaxFileIndex /\ Now + Ttl < MaxTime
    /\ files' = IF written THEN files \cup {<<id, next_file_index>>} ELSE files
    /\ index' = Append(index, NewEntry(id))
    /\ next_file_index' = next_file_index + 1
    /\ UNCHANGED <<op, cycles, cleaner, nvs, clock, boots, torn>>

(* A known id (STORAGE_ERR_DUPLICATE), a full index (STORAGE_ERR_FULL) and *)
(* a file that cannot be opened change nothing.  The result of fwrite is   *)
(* not looked at: the entry is made also when nothing was written.         *)
SaveEvent(id, written) ==
    /\ op.kind = "idle"
    /\ Find(id) = {}
    /\ Len(index) < MaxEntries
    /\ next_file_index < MaxFileIndex /\ Now + Ttl < MaxTime
    /\ files' = IF written THEN files \cup {<<id, next_file_index>>} ELSE files
    /\ index' = Append(index, NewEntry(id))
    /\ next_file_index' = next_file_index + 1
    /\ IF Len(index') % SaveEvery = 0 THEN BeginSave ELSE op' = op
    /\ UNCHANGED <<cycles, cleaner, nvs, clock, boots, torn>>

(***************************************************************************)
(* storage_delete_event: unlink, flag, save.                               *)
(***************************************************************************)

(* Mutant of DeleteEvent: the file is left for a later clean-up.           *)
DeleteEventLazily(id) ==
    /\ op.kind = "idle"
    /\ Find(id) # {}
    /\ LET i == CHOOSE k \in Find(id) : \A j \in Find(id) : k <= j
       IN  index' = [index EXCEPT ![i].deleted = TRUE]
    /\ BeginSave
    /\ UNCHANGED <<next_file_index, cycles, cleaner, files, nvs, clock, boots, torn>>

DeleteEvent(id) ==
    /\ op.kind = "idle"
    /\ Find(id) # {}
    /\ LET i == CHOOSE k \in Find(id) : \A j \in Find(id) : k <= j
       IN  /\ files' = files \ {Path(index[i])}
           /\ index' = [index EXCEPT ![i].deleted = TRUE]
    /\ BeginSave
    /\ UNCHANGED <<next_file_index, cycles, cleaner, nvs, clock, boots, torn>>

(***************************************************************************)
(* storage_cleanup_task: every minute storage_purge_expired, after ten of  *)
(* them storage_compact_index, each of which takes the lock for itself.    *)
(***************************************************************************)

(* The purge reads the time, then walks over the index.                    *)
PurgeBegins ==
    /\ cleaner = "sleep"
    /\ op.kind = "idle"
    /\ op' = IF index = <<>> THEN Idle ELSE [kind |-> "purge", at |-> 1, dirty |-> FALSE]
    /\ cleaner' = "purge"
    /\ UNCHANGED <<index, next_file_index, cycles, files, nvs, clock, boots, torn>>

(* One entry of the walk; the index is saved if any entry was purged.      *)
PurgeTurn ==
    /\ op.kind = "purge"
    /\ LET e     == index[op.at]
           gone  == ~e.deleted /\ Expired(e)
           dirty == op.dirty \/ gone
       IN  /\ files' = IF gone THEN files \ {Path(e)} ELSE files
           /\ index' = [index EXCEPT ![op.at].deleted = @ \/ gone]
           /\ CASE op.at < Len(index) -> op' = [op EXCEPT !.at = @ + 1, !.dirty = dirty]
                [] op.at = Len(index) /\ dirty -> BeginSave
                [] OTHER -> op' = Idle
    /\ UNCHANGED <<next_file_index, cycles, cleaner, nvs, clock, boots, torn>>

(* storage_compact_index: the entries that are not deleted move up in      *)
(* their order; there is one way to do so.                                 *)
Kept == {i \in DOMAIN index : Live(i)}

Compacted ==
    {[k \in DOMAIN from |-> index[from[k]]] :
        from \in {f \in [1..Cardinality(Kept) -> Kept] :
                    \A j, k \in DOMAIN f : j < k => f[j] < f[k]}}

(* Mutant of CleanupCycle: the index is never compacted.                   *)
CleanupCycleUncompacted ==
    /\ cleaner = "purge"
    /\ op.kind = "idle"
    /\ cleaner' = "sleep"
    /\ cycles' = (cycles + 1) % CompactEvery
    /\ UNCHANGED <<index, next_file_index, op, files, nvs, clock, boots, torn>>

(* The cycle is counted, and the index compacted when it is the tenth.     *)
CleanupCycle ==
    /\ cleaner = "purge"
    /\ op.kind = "idle"
    /\ cleaner' = "sleep"
    /\ cycles' = (cycles + 1) % CompactEvery
    /\ IF cycles' = 0 /\ Kept # DOMAIN index
       THEN index' \in Compacted /\ BeginSave
       ELSE UNCHANGED <<index, op>>
    /\ UNCHANGED <<next_file_index, files, nvs, clock, boots, torn>>

(***************************************************************************)
(* Power loss, and storage_init when it is back: RAM is lost, time() is    *)
(* the time since power-on again.  Without both numbers in NVS the relay   *)
(* starts with an empty index and file index 0.                            *)
(***************************************************************************)
PowerLoss ==
    /\ boots < MaxBoots
    /\ boots' = boots + 1
    /\ torn' = IF op.kind = "save" THEN torn + 1 ELSE torn
    /\ index' = LoadIndex
    /\ next_file_index' = LoadNext
    /\ op' = Idle /\ cycles' = 0 /\ cleaner' = "sleep"
    /\ clock' = [clock EXCEPT !.synced = FALSE]
    /\ UNCHANGED <<files, nvs>>

(* External: SNTP answers, at any time later; time goes by.  No operation  *)
(* reads the clock after it has begun, none sees it before SNTP answers.   *)
SntpAnswers ==
    /\ op.kind = "idle" /\ ~clock.synced
    /\ \E t \in clock.wall..MaxTime : clock' = [wall |-> t, synced |-> TRUE]
    /\ UNCHANGED <<index, next_file_index, op, cycles, cleaner, files, nvs, boots, torn>>

TimePasses ==
    /\ op.kind = "idle" /\ clock.synced /\ clock.wall < MaxTime
    /\ clock' = [clock EXCEPT !.wall = @ + 1]
    /\ UNCHANGED <<index, next_file_index, op, cycles, cleaner, files, nvs, boots, torn>>

Init ==
    /\ index = <<>> /\ next_file_index = 0
    /\ op = Idle /\ cycles = 0 /\ cleaner = "sleep"
    /\ files = {}
    /\ nvs = [count |-> 0, next |-> NotFound, blobs |-> [c \in 0..ChunksOf(MaxEntries) |-> <<>>]]
    /\ clock = [wall |-> Epoch, synced |-> FALSE]
    /\ boots = 0 /\ torn = 0

Cleanup == PurgeBegins \/ PurgeTurn \/ CleanupCycle

Next ==
    \/ \E id \in Ids, written \in BOOLEAN : SaveEvent(id, written)
    \/ \E id \in Deletable : DeleteEvent(id)
    \/ SaveIndex \/ Cleanup
    \/ PowerLoss \/ SntpAnswers \/ TimePasses

Spec == Init /\ [][Next]_vars

(* Whoever holds the lock runs on, the clean-up task is scheduled (also    *)
(* against a stream of events: the mutex hands over by priority), time     *)
(* goes by and SNTP answers some day.                                      *)
FairSpec ==
    /\ Spec
    /\ WF_vars(SaveIndex) /\ WF_vars(PurgeTurn)
    /\ SF_vars(PurgeBegins) /\ SF_vars(CleanupCycle)
    /\ SF_vars(SntpAnswers) /\ SF_vars(TimePasses)

(***************************************************************************)
(* Properties.                                                             *)
(***************************************************************************)

(* Type invariant; the index never outgrows its array.                     *)
TypeOK ==
    /\ index \in Seq(Entry) /\ Len(index) <= MaxEntries
    /\ next_file_index \in 0..MaxFileIndex
    /\ op.kind \in {"idle", "save", "purge"}
    /\ cycles \in 0..(CompactEvery - 1) /\ cleaner \in {"sleep", "purge"}
    /\ files \subseteq (Ids \X (0..MaxFileIndex))
    /\ nvs.count \in 0..MaxEntries /\ nvs.next \in (0..MaxFileIndex) \cup {NotFound}
    /\ \A c \in DOMAIN nvs.blobs : nvs.blobs[c] \in Seq(Entry) /\ Len(nvs.blobs[c]) <= ChunkSize
    /\ clock.wall \in Epoch..MaxTime /\ clock.synced \in BOOLEAN
    /\ boots \in 0..MaxBoots /\ torn \in 0..boots

(* No file index is given out twice for the entries one can still find: in *)
(* RAM and in NVS all of them, those of a half-written index too, are      *)
(* below the next one that will be used, after a restart as well (and the  *)
(* index keeps to its array).                                              *)
FileIndexFresh ==
    /\ TypeOK
    /\ \A i \in DOMAIN index : index[i] # Blank => index[i].file_index < next_file_index
    /\ \A c \in DOMAIN nvs.blobs : \A k \in DOMAIN nvs.blobs[c] :
         nvs.blobs[c][k] # Blank => nvs.blobs[c][k].file_index < nvs.next

(* Between two operations, and as long as the index fits into NVS, a power *)
(* loss would cost the last SaveEvery - 1 events at most, and every other  *)
(* entry would come back as it is now, its deletion included.              *)
Recoverable ==
    op.kind = "idle" /\ ChunksOf(Len(index)) <= NvsChunks =>
        /\ Len(index) - Len(LoadIndex) \in 0..(SaveEvery - 1)
        /\ IsPrefix(LoadIndex, index)

Retrievable(id) == \E i \in DOMAIN index : index[i].id = id /\ Readable(i)

(* An event that is gone does not come back unless it is sent again, not  *)
(* from an index of which only a part had been written when the power      *)
(* failed either: the file is unlinked before its entry is flagged.  (A    *)
(* second half-written index can bring back an entry and a file that the   *)
(* first one had lost.)                                                    *)
GoneUntilSentAgain ==
    [][\A id \in Ids : torn' <= 1 /\ Retrievable(id)' /\ ~Retrievable(id) =>
          \E w \in BOOLEAN : SaveEvent(id, w)]_vars

(* A full store gets room again by itself if one of its entries was ever   *)
(* written (a blank one never expires), or the power fails.                *)
RoomAgain ==
    \A b \in 0..MaxBoots :
        boots = b /\ Len(index) = MaxEntries /\ (\E i \in DOMAIN index : index[i] # Blank)
            ~> boots # b \/ Len(index) < MaxEntries
=============================================================================

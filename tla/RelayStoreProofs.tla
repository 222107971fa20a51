-------------------------- MODULE RelayStoreProofs --------------------------
(***************************************************************************)
(* Proofs about the local relay's event store, for any number of events,   *)
(* any sizes of the index, its blobs and NVS, and a power loss at any step.*)
(*                                                                         *)
(* IInv relates the index in RAM to the one in NVS.  Fresh: file indexes   *)
(* are below the next one on both sides, and NVS never has a later next    *)
(* one than RAM.  Saving: what a save has written so far is that of the    *)
(* index, count and next_idx before the blobs, which is why a half-written *)
(* index is harmless.  Backed: as long as nothing was flagged since the    *)
(* last save, NVS has a prefix of the index, and no entry since then was   *)
(* one at which the index is saved.  GoneInv, further below, is about the  *)
(* entries of blobs that an older index has left behind.                   *)
(*                                                                         *)
(* The last part is about the synchroniser's choice of public relays, for  *)
(* any number of them.                                                     *)
(***************************************************************************)
EXTENDS RelayStore, RelaySync, FiniteSetTheorems, SequenceTheorems, WellFoundedInduction, TLAPS

Blobs == 0..ChunksOf(MaxEntries)

Types ==
    /\ index \in Seq(Entry) /\ Len(index) <= MaxEntries
    /\ next_file_index \in 0..MaxFileIndex
    /\ op \in [kind : {"idle", "save", "purge"}, at : Nat, dirty : BOOLEAN]
    /\ cycles \in 0..(CompactEvery - 1) /\ cleaner \in {"sleep", "purge"}
    /\ files \subseteq (Ids \X (0..MaxFileIndex))
    /\ nvs \in [count : 0..MaxEntries, next : (0..MaxFileIndex) \cup {NotFound},
                blobs : [Blobs -> Seq(Entry)]]
    /\ \A c \in Blobs : Len(nvs.blobs[c]) <= ChunkSize
    /\ clock \in [wall : Epoch..MaxTime, synced : BOOLEAN]
    /\ boots \in 0..MaxBoots /\ torn \in 0..boots

Below(e, n) == e # Blank => e.file_index < n

Fresh ==
    /\ \A i \in DOMAIN index : Below(index[i], next_file_index)
    /\ \A c \in Blobs : \A k \in DOMAIN nvs.blobs[c] : Below(nvs.blobs[c][k], nvs.next)
    /\ nvs.next <= next_file_index

Saving ==
    op.kind = "save" =>
        /\ op.at <= ChunksOf(Len(index)) + 1
        /\ op.at >= 1 => nvs.count = Len(index)
        /\ op.at >= 2 => nvs.next = next_file_index
        /\ \A c \in Nat : c + 2 < op.at /\ c < NvsChunks => nvs.blobs[c] = Chunk(index, c)

Purging == op.kind = "purge" => op.at >= 1 /\ op.at <= Len(index)

Fits == ChunksOf(Len(index)) <= NvsChunks

Backed ==
    op.kind # "save" /\ ~op.dirty /\ Fits =>
        /\ Len(LoadIndex) <= Len(index)
        /\ \A i \in 1..Len(LoadIndex) : LoadIndex[i] = index[i]
        /\ \A m \in Nat : Len(LoadIndex) < m /\ m <= Len(index) => m % SaveEvery # 0

IInv ==
    /\ Types /\ Fresh /\ Saving /\ Purging /\ Backed
    /\ op.kind = "idle" => ~op.dirty

(***************************************************************************)
(* Numbers and sequences.                                                  *)
(***************************************************************************)

(* The sizes are positive numbers.                                         *)
LEMMA Sizes ==
    /\ ChunkSize \in Nat \ {0} /\ MaxEntries \in Nat \ {0} /\ SaveEvery \in Nat \ {0}
    /\ NvsChunks \in Nat /\ MaxFileIndex \in Nat
    /\ NotFound = -1
BY RelayStoreAssumption DEF NotFound

(* The quotient of two numbers.                                            *)
LEMMA Quotient ==
    ASSUME NEW a \in Nat, NEW b \in Nat \ {0}
    PROVE  a \div b \in Nat /\ b * (a \div b) <= a /\ a < b * (a \div b) + b
OBVIOUS

(* It grows with the dividend.                                             *)
LEMMA QuotientGrows ==
    ASSUME NEW a \in Nat, NEW c \in Nat, NEW b \in Nat \ {0}, a <= c
    PROVE  a \div b <= c \div b
<1> DEFINE p == a \div b
           q == c \div b
<1>1. p \in Nat /\ q \in Nat /\ b * p <= a /\ c < b * q + b
  BY Quotient
<1> HIDE DEF p, q
<1>2. b * p < b * q + b
  BY <1>1
<1>3. ASSUME q < p
      PROVE  FALSE
  <2>1. b * (q + 1) <= b * p
    BY <1>1, <1>3
  <2> QED
    BY <1>1, <1>2, <2>1
<1>4. p <= q
  BY <1>1, <1>3
<1> QED
  BY <1>4 DEF p, q

(* Of so many consecutive numbers one is a multiple.                       *)
LEMMA MultipleBetween ==
    ASSUME NEW n \in Nat, NEW s \in Nat \ {0}
    PROVE  \E m \in Nat : n < m /\ m <= n + s /\ m % s = 0
<1> DEFINE q == n \div s
<1>1. q \in Nat /\ s * q <= n /\ n < s * q + s
  BY Quotient
<1> HIDE DEF q
<1>2. s * (q + 1) = s * q + s /\ q + 1 \in Nat /\ s * (q + 1) \in Nat
  BY <1>1
<1>3. \A k \in Nat : (s * k) % s = 0
  OBVIOUS
<1>4. n < s * (q + 1) /\ s * (q + 1) <= n + s
  BY <1>1, <1>2
<1>5. (s * (q + 1)) % s = 0
  BY <1>2, <1>3
<1> QED
  BY <1>2, <1>4, <1>5

(* The number of blobs for an index of n entries.                          *)
LEMMA Chunks ==
    ASSUME NEW n \in Nat
    PROVE  /\ ChunksOf(n) \in Nat
           /\ \A k \in Nat : k <= n => ChunksOf(k) <= ChunksOf(n)
           /\ \A i \in 1..n : (i - 1) \div ChunkSize < ChunksOf(n)
<1>1. n + ChunkSize - 1 \in Nat
  BY Sizes
<1>2. ChunksOf(n) \in Nat
  BY <1>1, Sizes, Quotient DEF ChunksOf
<1>3. ASSUME NEW k \in Nat, k <= n
      PROVE  ChunksOf(k) <= ChunksOf(n)
  <2>1. k + ChunkSize - 1 \in Nat /\ k + ChunkSize - 1 <= n + ChunkSize - 1
    BY <1>3, Sizes
  <2> QED
    BY <1>1, <2>1, Sizes, QuotientGrows DEF ChunksOf
<1>4. ASSUME NEW i \in 1..n
      PROVE  (i - 1) \div ChunkSize < ChunksOf(n)
  <2> DEFINE p == (i - 1) \div ChunkSize
             q == (n + ChunkSize - 1) \div ChunkSize
  <2>1. /\ p \in Nat /\ ChunkSize * p <= i - 1
        /\ q \in Nat /\ n + ChunkSize - 1 < ChunkSize * q + ChunkSize
    <3>1. i - 1 \in Nat
      OBVIOUS
    <3> QED
      BY <1>1, <3>1, Sizes, Quotient
  <2> HIDE DEF p, q
  <2>2. ChunkSize * p < ChunkSize * q
    BY <2>1, Sizes
  <2>3. ASSUME q <= p
        PROVE  FALSE
    <3>1. ChunkSize * q <= ChunkSize * p
      BY <2>1, <2>3, Sizes
    <3> QED
      BY <2>1, <2>2, <3>1, Sizes
  <2>4. p < q
    BY <2>1, <2>3
  <2> QED
    BY <2>4 DEF p, q, ChunksOf
<1> QED
  BY <1>2, <1>3, <1>4

(* A function on 1..n is a sequence.                                       *)
LEMMA FunctionSeq ==
    ASSUME NEW S, NEW n \in Nat, NEW f \in [1..n -> S]
    PROVE  f \in Seq(S) /\ Len(f) = n /\ DOMAIN f = 1..n
<1>1. f \in Seq(S)
  BY SeqDef
<1>2. Len(f) \in Nat /\ 1..Len(f) = 1..n
  BY <1>1, LenProperties
<1>3. Len(f) = n
  BY <1>2
<1> QED
  BY <1>1, <1>3

(* A blob holds a stretch of the index.                                    *)
LEMMA ChunkIs ==
    ASSUME NEW s \in Seq(Entry), NEW c \in Nat
    PROVE  LET lo == c * ChunkSize
               n  == IF lo + ChunkSize < Len(s) THEN ChunkSize
                     ELSE IF lo < Len(s) THEN Len(s) - lo ELSE 0
           IN  /\ Chunk(s, c) \in Seq(Entry) /\ Len(Chunk(s, c)) = n /\ n <= ChunkSize
               /\ \A k \in 1..n : lo + k \in 1..Len(s) /\ Chunk(s, c)[k] = s[lo + k]
<1> DEFINE lo == c * ChunkSize
           hi == IF lo + ChunkSize < Len(s) THEN lo + ChunkSize ELSE Len(s)
           n  == IF lo + ChunkSize < Len(s) THEN ChunkSize
                 ELSE IF lo < Len(s) THEN Len(s) - lo ELSE 0
<1>1. /\ lo \in Nat /\ ChunkSize \in Nat \ {0} /\ (c + 1) * ChunkSize = lo + ChunkSize
      /\ Len(s) \in Nat
  BY Sizes
<1>2. Chunk(s, c) = SubSeq(s, lo + 1, hi)
  BY <1>1 DEF Chunk
<1> SUFFICES /\ Chunk(s, c) \in Seq(Entry) /\ Len(Chunk(s, c)) = n /\ n <= ChunkSize
             /\ \A k \in 1..n : lo + k \in 1..Len(s) /\ Chunk(s, c)[k] = s[lo + k]
  OBVIOUS
<1> HIDE DEF lo
<1>3. hi \in Nat /\ hi <= Len(s) /\ n \in Nat /\ n <= ChunkSize
      /\ n = IF lo + 1 <= hi THEN hi - (lo + 1) + 1 ELSE 0
  BY <1>1
<1>4. \A i \in (lo + 1)..hi : i \in 1..Len(s) /\ s[i] \in Entry
  BY <1>1, <1>3
<1> HIDE DEF hi, n
<1>5. /\ SubSeq(s, lo + 1, hi) \in Seq(Entry)
      /\ Len(SubSeq(s, lo + 1, hi)) = IF lo + 1 <= hi THEN hi - (lo + 1) + 1 ELSE 0
      /\ \A i \in 1..(hi - (lo + 1) + 1) : SubSeq(s, lo + 1, hi)[i] = s[lo + 1 + i - 1]
  BY <1>1, <1>3, <1>4, SubSeqProperties
<1>6. ASSUME NEW k \in 1..n
      PROVE  lo + k \in 1..Len(s) /\ SubSeq(s, lo + 1, hi)[k] = s[lo + k]
  <2>1. k \in 1..(hi - (lo + 1) + 1) /\ lo + k \in (lo + 1)..hi /\ lo + 1 + k - 1 = lo + k
    BY <1>1, <1>3
  <2> QED
    BY <1>4, <1>5, <2>1
<1> QED
  BY <1>2, <1>3, <1>5, <1>6

(* A blank entry is one, and so is an entry with its flag set.             *)
LEMMA EntryType ==
    /\ Blank \in Entry
    /\ \A e \in Entry : [e EXCEPT !.deleted = TRUE] \in Entry
BY DEF Blank, Entry

(* The first of some numbers is one of them.                               *)
LEMMA FirstOf ==
    ASSUME NEW S \in SUBSET Nat, S # {}
    PROVE  (CHOOSE i \in S : \A j \in S : i <= j) \in S
<1> DEFINE Less == {ss \in Nat \X Nat : ss[1] < ss[2]}
<1>1. IsWellFoundedOn(Less, Nat)
  BY NatLessThanWellFounded, Zenon DEF OpToRel
<1>2. PICK i \in S : \A j \in S : <<j, i>> \notin Less
  BY <1>1, WFMin
<1>3. ASSUME NEW j \in S, j < i
      PROVE  FALSE
  <2>1. <<j, i>> \in Less
    BY <1>3
  <2> QED
    BY <1>2, <2>1
<1>4. \A j \in S : i <= j
  BY <1>3
<1> QED
  BY <1>4

(***************************************************************************)
(* Loading.                                                                *)
(***************************************************************************)

(* load_index_from_nvs of any contents v of NVS.                           *)
EntryFrom(v, i) ==
    LET c     == (i - 1) \div ChunkSize
        asked == IF (c + 1) * ChunkSize < v.count THEN ChunkSize ELSE v.count - c * ChunkSize
        k     == i - c * ChunkSize
    IN  IF Len(v.blobs[c]) <= asked /\ k <= Len(v.blobs[c]) THEN v.blobs[c][k] ELSE Blank

LoadFrom(v) == IF v.next = NotFound THEN <<>> ELSE [i \in 1..v.count |-> EntryFrom(v, i)]

Contents == [count : 0..MaxEntries, next : (0..MaxFileIndex) \cup {NotFound},
             blobs : [Blobs -> Seq(Entry)]]

(* The index in NVS now and after a step.                                  *)
LEMMA LoadIs == LoadIndex = LoadFrom(nvs) /\ LoadIndex' = LoadFrom(nvs')
<1>1. LoadIndex = LoadFrom(nvs)
  BY DEF LoadIndex, LoadedEntry, LoadFrom, EntryFrom
<1>2. LoadIndex' = LoadFrom(nvs')
  BY DEF LoadIndex, LoadedEntry, LoadFrom, EntryFrom
<1> QED
  BY <1>1, <1>2

(* An entry that is loaded is blank or one of a blob's.                    *)
LEMMA EntryLoaded ==
    ASSUME NEW v \in Contents, NEW i \in 1..v.count
    PROVE  \/ EntryFrom(v, i) = Blank
           \/ \E c \in Blobs : \E k \in DOMAIN v.blobs[c] : EntryFrom(v, i) = v.blobs[c][k]
<1> DEFINE c == (i - 1) \div ChunkSize
           k == i - c * ChunkSize
<1>1. v.count \in Nat /\ v.count <= MaxEntries /\ MaxEntries \in Nat /\ i - 1 \in Nat
      /\ i \in 1..MaxEntries
  BY Sizes DEF Contents
<1>2. c \in Nat /\ ChunkSize * c <= i - 1 /\ c < ChunksOf(MaxEntries)
      /\ ChunksOf(MaxEntries) \in Nat
  BY <1>1, Sizes, Quotient, Chunks
<1> HIDE DEF c
<1>3. c \in Blobs /\ c * ChunkSize <= i - 1 /\ k \in Nat \ {0}
  BY <1>1, <1>2, Sizes DEF Blobs
<1>4. v.blobs[c] \in Seq(Entry)
  BY <1>3 DEF Contents
<1>5. EntryFrom(v, i) = Blank \/ (k <= Len(v.blobs[c]) /\ EntryFrom(v, i) = v.blobs[c][k])
  BY DEF EntryFrom, c
<1>6. k <= Len(v.blobs[c]) => k \in DOMAIN v.blobs[c]
  BY <1>3, <1>4
<1> QED
  BY <1>3, <1>5, <1>6

(* What is loaded is an index.                                             *)
LEMMA LoadType ==
    ASSUME NEW v \in Contents
    PROVE  /\ LoadFrom(v) \in Seq(Entry)
           /\ Len(LoadFrom(v)) = IF v.next = NotFound THEN 0 ELSE v.count
           /\ \A i \in 1..Len(LoadFrom(v)) : i \in 1..v.count /\ LoadFrom(v)[i] = EntryFrom(v, i)
<1>1. CASE v.next = NotFound
  BY <1>1 DEF LoadFrom
<1>2. CASE v.next # NotFound
  <2> DEFINE f == [i \in 1..v.count |-> EntryFrom(v, i)]
  <2>1. v.count \in Nat
    BY Sizes DEF Contents
  <2>2. \A i \in 1..v.count : EntryFrom(v, i) \in Entry
    <3> SUFFICES ASSUME NEW i \in 1..v.count
                 PROVE  EntryFrom(v, i) \in Entry
      OBVIOUS
    <3>1. CASE EntryFrom(v, i) = Blank
      BY <3>1, EntryType
    <3>2. CASE \E c \in Blobs : \E k \in DOMAIN v.blobs[c] : EntryFrom(v, i) = v.blobs[c][k]
      <4>0. PICK c \in Blobs : \E k \in DOMAIN v.blobs[c] : EntryFrom(v, i) = v.blobs[c][k]
        BY <3>2
      <4>1. PICK k \in DOMAIN v.blobs[c] : EntryFrom(v, i) = v.blobs[c][k]
        BY <4>0
      <4>2. v.blobs[c] \in Seq(Entry)
        BY DEF Contents
      <4> QED
        BY <4>1, <4>2
    <3> QED
      BY <3>1, <3>2, EntryLoaded
  <2>3. f \in [1..v.count -> Entry]
    BY <2>2
  <2>4. f \in Seq(Entry) /\ Len(f) = v.count
    <3> HIDE DEF f
    <3> QED
      BY <2>1, <2>3, FunctionSeq
  <2>5. LoadFrom(v) = f
    BY <1>2 DEF LoadFrom
  <2> QED
    BY <1>2, <2>4, <2>5
<1> QED
  BY <1>1, <1>2

(* An entry whose blob was written comes back as it is.                    *)
LEMMA EntrySaved ==
    ASSUME NEW v \in Contents, NEW s \in Seq(Entry), NEW i \in 1..Len(s),
           v.count = Len(s),
           v.blobs[(i - 1) \div ChunkSize] = Chunk(s, (i - 1) \div ChunkSize)
    PROVE  EntryFrom(v, i) = s[i]
<1> DEFINE c == (i - 1) \div ChunkSize
           lo == c * ChunkSize
           k == i - lo
           n == IF lo + ChunkSize < Len(s) THEN ChunkSize
                ELSE IF lo < Len(s) THEN Len(s) - lo ELSE 0
           asked == IF lo + ChunkSize < Len(s) THEN ChunkSize ELSE Len(s) - lo
<1>1. /\ Len(s) \in Nat /\ i - 1 \in Nat /\ ChunkSize \in Nat \ {0}
      /\ c \in Nat /\ ChunkSize * c <= i - 1 /\ i - 1 < ChunkSize * c + ChunkSize
  <2> HIDE DEF lo, k, n, asked
  <2>1. Len(s) \in Nat /\ i - 1 \in Nat /\ ChunkSize \in Nat \ {0}
    BY Sizes
  <2>2. c \in Nat /\ ChunkSize * c <= i - 1 /\ i - 1 < ChunkSize * c + ChunkSize
    BY <2>1, Quotient
  <2> QED
    BY <2>1, <2>2
<1>2. v.blobs[c] = Chunk(s, c)
  OBVIOUS
<1> HIDE DEF c
<1>3. lo \in Nat /\ lo <= i - 1 /\ i - 1 < lo + ChunkSize /\ (c + 1) * ChunkSize = lo + ChunkSize
  BY <1>1
<1>4. Len(Chunk(s, c)) = n /\ \A x \in 1..n : Chunk(s, c)[x] = s[lo + x]
  BY <1>1, ChunkIs
<1> HIDE DEF lo
<1>5. n <= asked /\ k \in 1..n /\ lo + k = i /\ n \in Nat
  BY <1>1, <1>3
<1>6. EntryFrom(v, i) = IF Len(v.blobs[c]) <= asked /\ k <= Len(v.blobs[c])
                        THEN v.blobs[c][k] ELSE Blank
  BY <1>3 DEF EntryFrom, c, lo
<1> HIDE DEF n, asked, k
<1>7. EntryFrom(v, i) = Chunk(s, c)[k]
  BY <1>2, <1>4, <1>5, <1>6
<1> QED
  BY <1>4, <1>5, <1>7

(* After a save that wrote every blob the index comes back as it is.       *)
LEMMA LoadSaved ==
    ASSUME NEW v \in Contents, NEW s \in Seq(Entry),
           v.count = Len(s), v.next # NotFound,
           \A c \in Nat : c < ChunksOf(Len(s)) => v.blobs[c] = Chunk(s, c)
    PROVE  Len(LoadFrom(v)) = Len(s) /\ \A i \in 1..Len(s) : LoadFrom(v)[i] = s[i]
<1>1. Len(LoadFrom(v)) = Len(s) /\ \A i \in 1..Len(s) : LoadFrom(v)[i] = EntryFrom(v, i)
  BY LoadType
<1>2. ASSUME NEW i \in 1..Len(s)
      PROVE  EntryFrom(v, i) = s[i]
  <2> DEFINE c == (i - 1) \div ChunkSize
  <2>1. Len(s) \in Nat /\ i - 1 \in Nat /\ c \in Nat
    BY Sizes, Quotient
  <2>2. c < ChunksOf(Len(s))
    BY <2>1, Chunks
  <2>3. v.blobs[c] = Chunk(s, c)
    <3> HIDE DEF c
    <3> QED
      BY <2>1, <2>2
  <2> QED
    BY <2>3, EntrySaved
<1> QED
  BY <1>1, <1>2

(***************************************************************************)
(* What the steps have in common.                                          *)
(***************************************************************************)

(* The types of what the other proofs use.                                 *)
LEMMA Facts ==
    ASSUME IInv
    PROVE  /\ index \in Seq(Entry) /\ Len(index) \in Nat /\ Len(index) <= MaxEntries
           /\ DOMAIN index = 1..Len(index)
           /\ nvs \in Contents /\ nvs.next \in Int /\ next_file_index \in Nat
           /\ op.kind \in {"idle", "save", "purge"} /\ op.at \in Nat /\ op.dirty \in BOOLEAN
           /\ ChunksOf(Len(index)) \in Nat /\ ChunksOf(MaxEntries) \in Nat
           /\ ChunksOf(Len(index)) <= ChunksOf(MaxEntries)
           /\ Len(LoadIndex) \in Nat
<1>1. /\ index \in Seq(Entry) /\ Len(index) \in Nat /\ Len(index) <= MaxEntries
      /\ DOMAIN index = 1..Len(index)
      /\ nvs \in Contents /\ nvs.next \in Int /\ next_file_index \in Nat
  BY Sizes DEF IInv, Types, Contents
<1>2. op.kind \in {"idle", "save", "purge"} /\ op.at \in Nat /\ op.dirty \in BOOLEAN
  BY DEF IInv, Types
<1>3. /\ ChunksOf(Len(index)) \in Nat /\ ChunksOf(MaxEntries) \in Nat
      /\ ChunksOf(Len(index)) <= ChunksOf(MaxEntries)
  BY <1>1, Sizes, Chunks
<1>4. Len(LoadIndex) \in Nat
  BY <1>1, LoadIs, LoadType DEF Contents
<1> QED
  BY <1>1, <1>2, <1>3, <1>4

(* A bound on a file index may rise.                                       *)
LEMMA BelowRises ==
    ASSUME NEW e \in Entry, NEW m \in Int, NEW n \in Int, m <= n, Below(e, m)
    PROVE  Below(e, n)
BY DEF Below, Entry

(* An operation that ends with a save leaves the rest to it.               *)
LEMMA SaveBegins ==
    ASSUME IInv, BeginSave, Types', Fresh'
    PROVE  IInv'
<1>1. op'.kind = "save" /\ op'.at = 0 /\ op'.dirty = FALSE
  BY DEF BeginSave
<1>2. Len(index') \in Nat
  BY DEF Types
<1>3. ChunksOf(Len(index')) \in Nat
  BY <1>2, Chunks
<1>4. Saving'
  BY <1>1, <1>3 DEF Saving
<1>5. Purging' /\ Backed' /\ (op.kind = "idle" => ~op.dirty)'
  BY <1>1 DEF Purging, Backed
<1> QED
  BY <1>4, <1>5 DEF IInv

(* Flagging an entry that was written as deleted.                          *)
LEMMA Flagged ==
    ASSUME IInv, NEW i \in DOMAIN index, index[i] # Blank,
           index' = [index EXCEPT ![i].deleted = TRUE],
           nvs' = nvs, next_file_index' = next_file_index
    PROVE  index' \in Seq(Entry) /\ Len(index') = Len(index) /\ Fresh'
<1> DEFINE e == [index[i] EXCEPT !.deleted = TRUE]
<1>1. /\ index \in Seq(Entry) /\ Len(index) \in Nat /\ DOMAIN index = 1..Len(index)
      /\ \A j \in DOMAIN index : index[j] \in Entry
  BY Facts
<1>2. e \in Entry /\ e.file_index = index[i].file_index
  BY <1>1, EntryType DEF Entry
<1>3. index' = [index EXCEPT ![i] = e]
  OBVIOUS
<1> HIDE DEF e
<1>4. index' \in [1..Len(index) -> Entry] /\ \A j \in DOMAIN index : j # i => index'[j] = index[j]
      /\ index'[i] = e
  BY <1>1, <1>2, <1>3
<1>5. index' \in Seq(Entry) /\ Len(index') = Len(index) /\ DOMAIN index' = DOMAIN index
  BY <1>1, <1>4, FunctionSeq
<1>6. \A j \in DOMAIN index' : Below(index'[j], next_file_index)
  BY <1>2, <1>4, <1>5 DEF IInv, Fresh, Below
<1> QED
  BY <1>5, <1>6 DEF IInv, Fresh

(* The index in NVS does not change when NVS does not.                     *)
LEMMA LoadKept ==
    ASSUME nvs' = nvs
    PROVE  LoadIndex' = LoadIndex
BY LoadIs

(***************************************************************************)
(* The steps.                                                              *)
(***************************************************************************)

(* The clock, and whatever leaves index, NVS and lock alone.               *)
LEMMA QuietStep ==
    ASSUME IInv, UNCHANGED <<index, next_file_index, op, nvs>>, Types'
    PROVE  IInv'
<1>1. Fresh' /\ Purging' /\ (op.kind = "idle" => ~op.dirty)'
  BY DEF IInv, Fresh, Purging
<1>2. Saving'
  BY DEF IInv, Saving
<1>3. Backed'
  BY LoadKept DEF IInv, Backed, Fits
<1> QED
  BY <1>1, <1>2, <1>3 DEF IInv

(* SNTP and the passing of time.                                           *)
LEMMA ClockStep ==
    ASSUME IInv, SntpAnswers \/ TimePasses
    PROVE  IInv'
<1>1. clock' \in [wall : Epoch..MaxTime, synced : BOOLEAN]
  <2>1. clock \in [wall : Epoch..MaxTime, synced : BOOLEAN] /\ Epoch \in Nat /\ MaxTime \in Nat
    BY RelayStoreAssumption DEF IInv, Types
  <2>2. CASE SntpAnswers
    BY <2>1, <2>2 DEF SntpAnswers
  <2>3. CASE TimePasses
    BY <2>1, <2>3 DEF TimePasses
  <2> QED
    BY <2>2, <2>3
<1>2. UNCHANGED <<index, next_file_index, op, cycles, cleaner, files, nvs, boots, torn>>
  BY DEF SntpAnswers, TimePasses
<1>3. Types'
  BY <1>1, <1>2 DEF IInv, Types
<1> QED
  BY <1>2, <1>3, QuietStep

(* storage_save_event_json.                                                *)
LEMMA SaveEventStep ==
    ASSUME IInv, NEW id \in Ids, NEW written \in BOOLEAN, SaveEvent(id, written)
    PROVE  IInv'
<1> DEFINE e == NewEntry(id)
           n == Len(index)
<1>1. /\ op.kind = "idle" /\ n < MaxEntries /\ next_file_index < MaxFileIndex
      /\ files' = (IF written THEN files \cup {<<id, next_file_index>>} ELSE files)
      /\ index' = Append(index, e) /\ next_file_index' = next_file_index + 1
      /\ (IF Len(index') % SaveEvery = 0 THEN BeginSave ELSE op' = op)
      /\ UNCHANGED <<cycles, cleaner, nvs, clock, boots, torn>>
  BY DEF SaveEvent
<1>2. /\ index \in Seq(Entry) /\ n \in Nat /\ DOMAIN index = 1..n
      /\ next_file_index \in Nat /\ nvs.next \in Int /\ MaxEntries \in Nat /\ MaxFileIndex \in Nat
      /\ ~op.dirty
  BY <1>1, Facts, Sizes DEF IInv
<1>3. e \in Entry /\ e.file_index = next_file_index
  <2>1. clock.wall \in Nat /\ Ttl \in Nat
    BY RelayStoreAssumption DEF IInv, Types
  <2>2. Now \in Nat
    BY <2>1 DEF Now
  <2> QED
    BY <1>2, <2>1, <2>2 DEF NewEntry, Entry
<1> HIDE DEF e
<1>4. /\ index' \in Seq(Entry) /\ Len(index') = n + 1 /\ DOMAIN index' = 1..(n + 1)
      /\ \A i \in 1..n : index'[i] = index[i]
      /\ index'[n + 1] = e
  BY <1>1, <1>2, <1>3
<1>5. op' \in [kind : {"idle", "save", "purge"}, at : Nat, dirty : BOOLEAN]
  <2>1. BeginSave \/ op' = op
    BY <1>1, Zenon
  <2>2. ASSUME BeginSave
        PROVE  op' \in [kind : {"idle", "save", "purge"}, at : Nat, dirty : BOOLEAN]
    BY <2>2 DEF BeginSave
  <2>3. op \in [kind : {"idle", "save", "purge"}, at : Nat, dirty : BOOLEAN]
    BY DEF IInv, Types
  <2> QED
    BY <2>1, <2>2, <2>3
<1>6. files' \subseteq (Ids \X (0..MaxFileIndex))
  BY <1>1, <1>2 DEF IInv, Types
<1>7. Types'
  BY <1>1, <1>2, <1>4, <1>5, <1>6 DEF IInv, Types
<1>8. Fresh'
  <2>1. ASSUME NEW i \in DOMAIN index'
        PROVE  Below(index'[i], next_file_index')
    <3>1. CASE i = n + 1
      BY <1>1, <1>2, <1>3, <1>4, <3>1 DEF Below
    <3>2. CASE i # n + 1
      <4>1. i \in 1..n /\ index'[i] = index[i] /\ index[i] \in Entry
        BY <1>2, <1>4, <3>2
      <4>2. Below(index[i], next_file_index)
        BY <1>2, <4>1 DEF IInv, Fresh
      <4> QED
        BY <1>1, <1>2, <4>1, <4>2, BelowRises
    <3> QED
      BY <3>1, <3>2
  <2>2. nvs'.next <= next_file_index'
    BY <1>1, <1>2 DEF IInv, Fresh
  <2> QED
    BY <1>1, <2>1, <2>2 DEF IInv, Fresh
<1>9. CASE Len(index') % SaveEvery = 0
  BY <1>1, <1>7, <1>8, <1>9, SaveBegins
<1>10. CASE Len(index') % SaveEvery # 0
  <2>1. op' = op
    BY <1>1, <1>10
  <2>2. Saving' /\ Purging' /\ (op.kind = "idle" => ~op.dirty)'
    BY <1>1, <1>2, <2>1 DEF Saving, Purging
  <2>3. Fits' => Fits
    <3>1. ChunksOf(n) <= ChunksOf(n + 1) /\ ChunksOf(n) \in Nat /\ ChunksOf(n + 1) \in Nat
      BY <1>2, Chunks
    <3> QED
      BY <1>4, <3>1, Sizes DEF Fits
  <2>4. ASSUME Fits
        PROVE  /\ Len(LoadIndex) <= n + 1
               /\ \A i \in 1..Len(LoadIndex) : LoadIndex[i] = index'[i]
               /\ \A m \in Nat : Len(LoadIndex) < m /\ m <= n + 1 => m % SaveEvery # 0
    <3>1. /\ Len(LoadIndex) <= n /\ Len(LoadIndex) \in Nat
          /\ \A i \in 1..Len(LoadIndex) : LoadIndex[i] = index[i]
          /\ \A m \in Nat : Len(LoadIndex) < m /\ m <= n => m % SaveEvery # 0
      BY <1>1, <1>2, <2>4, Facts DEF IInv, Backed
    <3>2. \A i \in 1..Len(LoadIndex) : LoadIndex[i] = index'[i]
      BY <1>2, <1>4, <3>1
    <3>3. \A m \in Nat : m <= n + 1 => m <= n \/ m = n + 1
      BY <1>2
    <3> QED
      BY <1>2, <1>4, <1>10, <3>1, <3>2, <3>3
  <2>5. Backed'
    BY <1>1, <1>4, <2>3, <2>4, LoadKept DEF Backed
  <2> QED
    BY <1>7, <1>8, <2>2, <2>5 DEF IInv
<1> QED
  BY <1>9, <1>10

(* storage_delete_event.                                                   *)
LEMMA DeleteEventStep ==
    ASSUME IInv, NEW id \in Deletable, DeleteEvent(id)
    PROVE  IInv'
<1> DEFINE i == CHOOSE k \in Find(id) : \A j \in Find(id) : k <= j
<1>1. /\ Find(id) # {} /\ files' = files \ {Path(index[i])}
      /\ index' = [index EXCEPT ![i].deleted = TRUE] /\ BeginSave
      /\ UNCHANGED <<next_file_index, cycles, cleaner, nvs, clock, boots, torn>>
  BY DEF DeleteEvent
<1>2. Find(id) \in SUBSET Nat /\ Find(id) \subseteq DOMAIN index
  BY Facts DEF Find
<1>3. i \in Find(id)
  <2> HIDE DEF Find
  <2> QED
    BY <1>1, <1>2, FirstOf
<1> HIDE DEF i
<1>4. i \in DOMAIN index /\ index[i].id = id
  BY <1>3 DEF Find
<1>5. index[i] # Blank
  BY <1>4, RelayStoreAssumption DEF Blank
<1>6. index' \in Seq(Entry) /\ Len(index') = Len(index) /\ Fresh'
  BY <1>1, <1>4, <1>5, Flagged
<1>7. op' \in [kind : {"idle", "save", "purge"}, at : Nat, dirty : BOOLEAN]
  BY <1>1 DEF BeginSave
<1>8. Types'
  BY <1>1, <1>6, <1>7 DEF IInv, Types
<1> QED
  BY <1>1, <1>6, <1>8, SaveBegins

(* storage_purge_expired reads the time.                                   *)
LEMMA PurgeBeginsStep ==
    ASSUME IInv, PurgeBegins
    PROVE  IInv'
<1>1. /\ op.kind = "idle" /\ cleaner' = "purge"
      /\ op' = (IF index = <<>> THEN Idle ELSE [kind |-> "purge", at |-> 1, dirty |-> FALSE])
      /\ UNCHANGED <<index, next_file_index, cycles, files, nvs, clock, boots, torn>>
  BY DEF PurgeBegins
<1>2. /\ op'.kind # "save" /\ op'.dirty = FALSE
      /\ op' \in [kind : {"idle", "save", "purge"}, at : Nat, dirty : BOOLEAN]
  BY <1>1 DEF Idle
<1>3. op'.kind = "purge" => op'.at = 1 /\ index # <<>>
  BY <1>1 DEF Idle
<1>4. Types'
  BY <1>1, <1>2 DEF IInv, Types
<1>5. Fresh'
  BY <1>1 DEF IInv, Fresh
<1>6. Saving' /\ (op.kind = "idle" => ~op.dirty)'
  BY <1>2 DEF Saving
<1>7. Purging'
  <2>1. index # <<>> => Len(index) >= 1
    BY Facts, EmptySeq
  <2> QED
    BY <1>1, <1>3, <2>1 DEF Purging
<1>8. Backed'
  <2>1. op.kind # "save" /\ ~op.dirty
    BY <1>1 DEF IInv
  <2> QED
    BY <1>1, <2>1, LoadKept DEF IInv, Backed, Fits
<1> QED
  BY <1>4, <1>5, <1>6, <1>7, <1>8 DEF IInv

(* One entry of the walk over the index.                                   *)
LEMMA PurgeTurnStep ==
    ASSUME IInv, PurgeTurn
    PROVE  IInv'
<1> DEFINE e     == index[op.at]
           gone  == ~e.deleted /\ Expired(e)
           dirty == op.dirty \/ gone
<1>1. /\ op.kind = "purge"
      /\ files' = (IF gone THEN files \ {Path(e)} ELSE files)
      /\ index' = [index EXCEPT ![op.at].deleted = @ \/ gone]
      /\ (CASE op.at < Len(index) -> op' = [op EXCEPT !.at = @ + 1, !.dirty = dirty]
            [] op.at = Len(index) /\ dirty -> BeginSave
            [] OTHER -> op' = Idle)
      /\ UNCHANGED <<next_file_index, cycles, cleaner, nvs, clock, boots, torn>>
  BY DEF PurgeTurn
<1>2. /\ index \in Seq(Entry) /\ Len(index) \in Nat /\ DOMAIN index = 1..Len(index)
      /\ op.at \in Nat /\ op.at >= 1 /\ op.at <= Len(index) /\ op.dirty \in BOOLEAN
      /\ op.at \in DOMAIN index /\ e \in Entry
  BY <1>1, Facts DEF IInv, Purging
<1>3. e.deleted \in BOOLEAN /\ gone \in BOOLEAN /\ dirty \in BOOLEAN
  BY <1>2 DEF Entry
<1>4. ASSUME ~gone
      PROVE  index' = index
  <2>1. (e.deleted \/ gone) = e.deleted
    BY <1>3, <1>4, Zenon
  <2>2. index' = [index EXCEPT ![op.at].deleted = index[op.at].deleted]
    BY <1>1, <2>1
  <2>3. [index[op.at] EXCEPT !.deleted = index[op.at].deleted] = index[op.at]
    BY <1>2 DEF Entry
  <2>4. index' = [index EXCEPT ![op.at] = index[op.at]]
    BY <2>2, <2>3
  <2>5. index \in [1..Len(index) -> Entry]
    BY <1>2
  <2> QED
    BY <1>2, <2>4, <2>5
<1>5. index' \in Seq(Entry) /\ Len(index') = Len(index) /\ Fresh'
  <2>1. CASE gone
    <3>1. e # Blank
      BY <2>1 DEF Expired, Blank
    <3>2. (e.deleted \/ gone) = TRUE
      BY <2>1, Zenon
    <3>3. index' = [index EXCEPT ![op.at].deleted = TRUE]
      BY <1>1, <3>2
    <3> QED
      BY <1>1, <1>2, <3>1, <3>3, Flagged
  <2>2. CASE ~gone
    BY <1>1, <1>2, <1>4, <2>2 DEF IInv, Fresh
  <2> QED
    BY <2>1, <2>2
<1>6. files' \subseteq (Ids \X (0..MaxFileIndex))
  BY <1>1 DEF IInv, Types
<1>7. ASSUME op' \in [kind : {"idle", "save", "purge"}, at : Nat, dirty : BOOLEAN]
      PROVE  Types'
  BY <1>1, <1>5, <1>6, <1>7 DEF IInv, Types
<1>8. ASSUME ~dirty
      PROVE  /\ Fits' /\ ~op.dirty => Fits /\ op.kind # "save" /\ ~op.dirty
             /\ Len(index') = Len(index) /\ index' = index
  BY <1>1, <1>4, <1>8 DEF Fits
<1> HIDE DEF gone, e
<1>9. CASE op.at < Len(index)
  <2>1. op' = [op EXCEPT !.at = @ + 1, !.dirty = dirty]
    BY <1>1, <1>9
  <2>2. /\ op'.kind = "purge" /\ op'.at = op.at + 1 /\ op'.dirty = dirty
        /\ op' \in [kind : {"idle", "save", "purge"}, at : Nat, dirty : BOOLEAN]
    <3> HIDE DEF dirty
    <3>1. op \in [kind : {"idle", "save", "purge"}, at : Nat, dirty : BOOLEAN]
      BY DEF IInv, Types
    <3>2. op.at + 1 \in Nat /\ op.kind = "purge" /\ dirty \in BOOLEAN
      BY <1>1, <1>2, <1>3
    <3> QED
      BY <2>1, <3>1, <3>2
  <2>3. Types'
    BY <1>7, <2>2
  <2>4. Saving' /\ Purging' /\ (op.kind = "idle" => ~op.dirty)'
    BY <1>2, <1>5, <1>9, <2>2 DEF Saving, Purging
  <2>5. Backed'
    <3>1. CASE dirty
      BY <2>2, <3>1 DEF Backed
    <3>2. CASE ~dirty
      <4>1. index' = index /\ op.kind # "save" /\ ~op.dirty
        BY <1>1, <1>8, <3>2
      <4> QED
        BY <1>1, <4>1, LoadKept DEF IInv, Backed, Fits
    <3> QED
      BY <3>1, <3>2
  <2> QED
    BY <1>5, <2>3, <2>4, <2>5 DEF IInv
<1>10. CASE op.at = Len(index) /\ dirty
  <2>1. BeginSave
    BY <1>1, <1>2, <1>10
  <2>2. op' \in [kind : {"idle", "save", "purge"}, at : Nat, dirty : BOOLEAN]
    BY <2>1 DEF BeginSave
  <2> QED
    BY <1>5, <1>7, <2>1, <2>2, SaveBegins
<1>11. CASE op.at = Len(index) /\ ~dirty
  <2>1. op' = Idle
    BY <1>1, <1>2, <1>11
  <2>2. /\ op'.kind = "idle" /\ op'.dirty = FALSE
        /\ op' \in [kind : {"idle", "save", "purge"}, at : Nat, dirty : BOOLEAN]
    BY <2>1 DEF Idle
  <2>3. index' = index /\ op.kind # "save" /\ ~op.dirty
    BY <1>1, <1>8, <1>11
  <2>4. Backed'
    BY <1>1, <2>3, LoadKept DEF IInv, Backed, Fits
  <2>5. Saving' /\ Purging' /\ (op.kind = "idle" => ~op.dirty)'
    BY <2>2 DEF Saving, Purging
  <2> QED
    BY <1>5, <1>7, <2>2, <2>4, <2>5 DEF IInv
<1> QED
  BY <1>2, <1>9, <1>10, <1>11

(* The clean-up cycle is counted, and the index compacted after the last.  *)
LEMMA CleanupCycleStep ==
    ASSUME IInv, CleanupCycle
    PROVE  IInv'
<1>1. /\ op.kind = "idle" /\ cleaner' = "sleep" /\ cycles' = (cycles + 1) % CompactEvery
      /\ (IF cycles' = 0 /\ Kept # DOMAIN index THEN index' \in Compacted /\ BeginSave
          ELSE UNCHANGED <<index, op>>)
      /\ UNCHANGED <<next_file_index, files, nvs, clock, boots, torn>>
  BY DEF CleanupCycle
<1>2. cycles' \in 0..(CompactEvery - 1)
  BY <1>1, RelayStoreAssumption DEF IInv, Types
<1>3. CASE UNCHANGED <<index, op>>
  <2>1. Types'
    BY <1>1, <1>2, <1>3 DEF IInv, Types
  <2> QED
    BY <1>1, <1>3, <2>1, QuietStep
<1>4. CASE index' \in Compacted /\ BeginSave
  <2> DEFINE n == Cardinality(Kept)
  <2>1. /\ index \in Seq(Entry) /\ Len(index) \in Nat /\ Len(index) <= MaxEntries
        /\ DOMAIN index = 1..Len(index) /\ Kept \subseteq 1..Len(index) /\ MaxEntries \in Nat
    BY Facts, Sizes DEF Kept
  <2>2. n \in Nat /\ n <= Len(index)
    <3>1. IsFiniteSet(1..Len(index)) /\ Cardinality(1..Len(index)) = Len(index)
      <4>1. \A m \in Nat : IsFiniteSet(1..m) /\ Cardinality(1..m) = m
        BY FS_Interval
      <4> QED
        BY <2>1, <4>1
    <3>2. IsFiniteSet(Kept) /\ Cardinality(Kept) <= Cardinality(1..Len(index))
      BY <2>1, <3>1, FS_Subset
    <3> QED
      BY <3>1, <3>2, FS_CardinalityType
  <2>3. PICK from \in [1..n -> Kept] : index' = [k \in DOMAIN from |-> index[from[k]]]
    BY <1>4 DEF Compacted
  <2> HIDE DEF n
  <2>4. \A k \in 1..n : from[k] \in 1..Len(index) /\ index'[k] = index[from[k]]
    BY <2>1, <2>3
  <2>5. index' \in [1..n -> Entry]
    BY <2>1, <2>3, <2>4
  <2>6. index' \in Seq(Entry) /\ Len(index') = n /\ DOMAIN index' = 1..n
    BY <2>2, <2>5, FunctionSeq
  <2>7. Fresh'
    <3>1. \A k \in DOMAIN index' : Below(index'[k], next_file_index)
      BY <2>1, <2>4, <2>6 DEF IInv, Fresh
    <3> QED
      BY <1>1, <3>1 DEF IInv, Fresh
  <2>8. op' \in [kind : {"idle", "save", "purge"}, at : Nat, dirty : BOOLEAN]
    BY <1>4 DEF BeginSave
  <2>9. Types'
    BY <1>1, <1>2, <2>1, <2>2, <2>6, <2>8 DEF IInv, Types
  <2> QED
    BY <1>4, <2>7, <2>9, SaveBegins
<1> QED
  BY <1>1, <1>3, <1>4

(* Power loss: what comes back are entries of the blobs, and blank ones.   *)
LEMMA PowerLossStep ==
    ASSUME IInv, PowerLoss
    PROVE  IInv'
<1>1. /\ boots < MaxBoots /\ boots' = boots + 1 /\ index' = LoadIndex
      /\ torn' = (IF op.kind = "save" THEN torn + 1 ELSE torn)
      /\ next_file_index' = LoadNext /\ op' = Idle /\ cycles' = 0 /\ cleaner' = "sleep"
      /\ clock' = [clock EXCEPT !.synced = FALSE] /\ nvs' = nvs /\ files' = files
  BY DEF PowerLoss
<1>2. nvs \in Contents /\ nvs.count \in Nat /\ nvs.count <= MaxEntries /\ MaxEntries \in Nat
      /\ nvs.next \in (0..MaxFileIndex) \cup {NotFound} /\ MaxFileIndex \in Nat /\ NotFound = -1
  BY Facts, Sizes DEF Contents
<1>3. /\ LoadIndex \in Seq(Entry)
      /\ Len(LoadIndex) = IF nvs.next = NotFound THEN 0 ELSE nvs.count
      /\ \A i \in 1..Len(LoadIndex) : i \in 1..nvs.count /\ LoadIndex[i] = EntryFrom(nvs, i)
  BY <1>2, LoadIs, LoadType
<1>4. /\ LoadNext \in 0..MaxFileIndex /\ nvs.next <= LoadNext
      /\ nvs.next # NotFound => LoadNext = nvs.next
  BY <1>2 DEF LoadNext
<1>5. op' \in [kind : {"idle", "save", "purge"}, at : Nat, dirty : BOOLEAN]
      /\ op'.kind = "idle" /\ op'.dirty = FALSE
  BY <1>1 DEF Idle
<1>6. clock' \in [wall : Epoch..MaxTime, synced : BOOLEAN]
  BY <1>1 DEF IInv, Types
<1>7. boots' \in 0..MaxBoots /\ torn' \in 0..boots' /\ cycles' \in 0..(CompactEvery - 1)
  <2>1. boots \in 0..MaxBoots /\ torn \in 0..boots /\ MaxBoots \in Nat /\ CompactEvery \in Nat \ {0}
    BY RelayStoreAssumption DEF IInv, Types
  <2> QED
    BY <1>1, <2>1
<1>8. Types'
  <2>1. Len(LoadIndex) <= MaxEntries
    BY <1>2, <1>3
  <2> QED
    BY <1>1, <1>3, <1>4, <1>5, <1>6, <1>7, <2>1 DEF IInv, Types
<1>9. Fresh'
  <2>1. ASSUME NEW i \in 1..Len(LoadIndex)
        PROVE  Below(LoadIndex[i], LoadNext)
    <3>1. nvs.next = LoadNext /\ i \in 1..nvs.count /\ LoadIndex[i] = EntryFrom(nvs, i)
      BY <1>3, <1>4
    <3>2. CASE EntryFrom(nvs, i) = Blank
      BY <3>1, <3>2 DEF Below
    <3>3. CASE \E c \in Blobs : \E k \in DOMAIN nvs.blobs[c] : EntryFrom(nvs, i) = nvs.blobs[c][k]
      BY <3>1, <3>3 DEF IInv, Fresh
    <3> QED
      BY <1>2, <3>1, <3>2, <3>3, EntryLoaded
  <2>2. DOMAIN LoadIndex = 1..Len(LoadIndex)
    BY <1>3
  <2> QED
    BY <1>1, <1>4, <2>1, <2>2 DEF IInv, Fresh
<1>10. Saving' /\ Purging' /\ (op.kind = "idle" => ~op.dirty)'
  BY <1>5 DEF Saving, Purging
<1>11. Backed'
  <2>1. LoadIndex' = index' /\ Len(index') \in Nat
    BY <1>1, <1>3, LoadKept
  <2>2. \A m \in Nat : Len(index') < m /\ m <= Len(index') => m % SaveEvery # 0
    BY <2>1
  <2> QED
    BY <2>1, <2>2 DEF Backed
<1> QED
  BY <1>8, <1>9, <1>10, <1>11 DEF IInv

(* What NVS holds after one more write of a save.                          *)
LEMMA SaveWritten ==
    ASSUME IInv, SaveIndex
    PROVE  /\ nvs' \in Contents /\ \A c \in Blobs : Len(nvs'.blobs[c]) <= ChunkSize
           /\ Fresh'
           /\ nvs'.count = Len(index)
           /\ op.at >= 1 => nvs'.next = next_file_index
           /\ \A c \in Nat : c + 2 < op.at + 1 /\ c < NvsChunks => nvs'.blobs[c] = Chunk(index, c)
<1>1. /\ op.kind = "save" /\ nvs' = SaveWrites(op.at)
      /\ index' = index /\ next_file_index' = next_file_index
  BY DEF SaveIndex
<1>2. /\ index \in Seq(Entry) /\ Len(index) \in 0..MaxEntries /\ op.at \in Nat /\ NvsChunks \in Nat
      /\ next_file_index \in 0..MaxFileIndex /\ DOMAIN index = 1..Len(index)
      /\ nvs \in Contents /\ \A c \in Blobs : Len(nvs.blobs[c]) <= ChunkSize
      /\ nvs.blobs \in [Blobs -> Seq(Entry)]
  BY Facts, Sizes DEF IInv, Types, Contents
<1>3. /\ op.at <= ChunksOf(Len(index)) + 1
      /\ op.at >= 1 => nvs.count = Len(index)
      /\ op.at >= 2 => nvs.next = next_file_index
      /\ \A c \in Nat : c + 2 < op.at /\ c < NvsChunks => nvs.blobs[c] = Chunk(index, c)
  BY <1>1 DEF IInv, Saving
<1>4. /\ \A i \in DOMAIN index : Below(index[i], next_file_index)
      /\ \A c \in Blobs : \A k \in DOMAIN nvs.blobs[c] : Below(nvs.blobs[c][k], nvs.next)
      /\ nvs.next <= next_file_index
  BY DEF IInv, Fresh
<1>5. CASE op.at = 0
  <2>1. nvs' = [nvs EXCEPT !.count = Len(index)]
    BY <1>1, <1>5 DEF SaveWrites
  <2>2. nvs' \in Contents /\ nvs'.count = Len(index) /\ nvs'.next = nvs.next /\ nvs'.blobs = nvs.blobs
    BY <1>2, <2>1 DEF Contents
  <2>3. Fresh'
    BY <1>1, <1>4, <2>2 DEF Fresh
  <2>4. \A c \in Nat : ~(c + 2 < op.at + 1)
    BY <1>5
  <2> QED
    BY <1>2, <1>5, <2>2, <2>3, <2>4
<1>6. CASE op.at = 1
  <2>1. nvs' = [nvs EXCEPT !.next = next_file_index]
    BY <1>1, <1>6 DEF SaveWrites
  <2>2. /\ nvs' \in Contents /\ nvs'.count = nvs.count /\ nvs'.next = next_file_index
        /\ nvs'.blobs = nvs.blobs
    BY <1>2, <2>1 DEF Contents
  <2>3. ASSUME NEW c \in Blobs, NEW k \in DOMAIN nvs.blobs[c]
        PROVE  Below(nvs.blobs[c][k], next_file_index)
    <3>1. nvs.blobs[c] \in Seq(Entry)
      BY <1>2
    <3>2. nvs.blobs[c][k] \in Entry /\ nvs.next \in Int /\ next_file_index \in Int
      BY <3>1, Facts
    <3> QED
      BY <1>4, <3>2, BelowRises
  <2>4. Fresh'
    BY <1>1, <1>2, <1>4, <2>2, <2>3, Sizes DEF Fresh
  <2>5. \A c \in Nat : ~(c + 2 < op.at + 1)
    BY <1>6
  <2> QED
    BY <1>2, <1>3, <1>6, <2>2, <2>4, <2>5
<1>7. CASE op.at >= 2
  <2> DEFINE b == op.at - 2
  <2>1. /\ b \in Nat /\ b \in Blobs /\ op.at # 0 /\ op.at # 1
        /\ nvs.count = Len(index) /\ nvs.next = next_file_index
    BY <1>2, <1>3, <1>7, Facts DEF Blobs
  <2>2. \A c \in Nat : c + 2 < op.at + 1 => c = b \/ c + 2 < op.at
    BY <1>2
  <2>3. nvs' = IF b < NvsChunks THEN [nvs EXCEPT !.blobs[b] = Chunk(index, b)] ELSE nvs
    BY <1>1, <2>1 DEF SaveWrites
  <2> HIDE DEF b
  <2>4. CASE ~(b < NvsChunks)
    <3>1. nvs' = nvs
      BY <2>3, <2>4
    <3>2. Fresh'
      BY <1>1, <1>4, <3>1 DEF Fresh
    <3> QED
      BY <1>2, <1>3, <2>1, <2>2, <2>4, <3>1, <3>2
  <2>5. CASE b < NvsChunks
    <3> DEFINE ch == Chunk(index, b)
    <3>1. ch \in Seq(Entry) /\ Len(ch) <= ChunkSize
          /\ \A k \in 1..Len(ch) : b * ChunkSize + k \in 1..Len(index) /\ ch[k] = index[b * ChunkSize + k]
      BY <1>2, <2>1, ChunkIs
    <3> HIDE DEF ch
    <3>2. nvs' = [nvs EXCEPT !.blobs = [nvs.blobs EXCEPT ![b] = ch]]
      BY <2>3, <2>5 DEF ch
    <3>3. /\ nvs' \in Contents /\ nvs'.count = nvs.count /\ nvs'.next = nvs.next
          /\ nvs'.blobs = [nvs.blobs EXCEPT ![b] = ch]
      BY <1>2, <2>1, <3>1, <3>2 DEF Contents
    <3>4. nvs'.blobs[b] = ch /\ \A c \in Blobs : c # b => nvs'.blobs[c] = nvs.blobs[c]
      BY <1>2, <2>1, <3>3
    <3>5. \A k \in DOMAIN ch : Below(ch[k], next_file_index)
      BY <1>2, <1>4, <3>1
    <3>6. Fresh'
      <4>1. ASSUME NEW c \in Blobs, NEW k \in DOMAIN nvs'.blobs[c]
            PROVE  Below(nvs'.blobs[c][k], nvs'.next)
        <5>1. CASE c = b
          BY <2>1, <3>3, <3>4, <3>5, <5>1
        <5>2. CASE c # b
          BY <1>4, <3>3, <3>4, <5>2
        <5> QED
          BY <5>1, <5>2
      <4> QED
        BY <1>1, <1>4, <3>3, <4>1 DEF Fresh
    <3>7. \A c \in Blobs : Len(nvs'.blobs[c]) <= ChunkSize
      BY <1>2, <3>1, <3>4
    <3>8. ASSUME NEW c \in Nat, c + 2 < op.at + 1, c < NvsChunks
          PROVE  nvs'.blobs[c] = Chunk(index, c)
      <4>1. CASE c = b
        BY <3>4, <4>1 DEF ch
      <4>2. CASE c # b
        <5>1. c + 2 < op.at
          BY <2>2, <3>8, <4>2
        <5>2. nvs.blobs[c] = Chunk(index, c)
          BY <1>3, <3>8, <5>1
        <5>3. c \in Blobs
          BY <1>2, <1>3, <5>1, Facts DEF Blobs
        <5> QED
          BY <3>4, <4>2, <5>2, <5>3
      <4> QED
        BY <4>1, <4>2
    <3> QED
      BY <2>1, <3>3, <3>6, <3>7, <3>8
  <2> QED
    BY <2>4, <2>5
<1> QED
  BY <1>2, <1>5, <1>6, <1>7

(* save_index_to_nvs: after the last write NVS has the whole index.        *)
LEMMA SaveIndexStep ==
    ASSUME IInv, SaveIndex
    PROVE  IInv'
<1> DEFINE n == ChunksOf(Len(index))
<1>1. /\ op.kind = "save"
      /\ op' = (IF op.at <= n THEN [op EXCEPT !.at = @ + 1] ELSE Idle)
      /\ UNCHANGED <<index, next_file_index, cycles, cleaner, files, clock, boots, torn>>
  BY DEF SaveIndex
<1>2. /\ nvs' \in Contents /\ \A c \in Blobs : Len(nvs'.blobs[c]) <= ChunkSize
      /\ Fresh'
      /\ nvs'.count = Len(index)
      /\ op.at >= 1 => nvs'.next = next_file_index
      /\ \A c \in Nat : c + 2 < op.at + 1 /\ c < NvsChunks => nvs'.blobs[c] = Chunk(index, c)
  BY SaveWritten
<1>3. /\ index \in Seq(Entry) /\ Len(index) \in Nat /\ op.at \in Nat /\ n \in Nat /\ NvsChunks \in Nat
      /\ next_file_index \in Nat /\ NotFound = -1 /\ op.at <= n + 1
      /\ op \in [kind : {"idle", "save", "purge"}, at : Nat, dirty : BOOLEAN]
  BY <1>1, Facts, Sizes DEF IInv, Types, Saving
<1>4. ASSUME op' \in [kind : {"idle", "save", "purge"}, at : Nat, dirty : BOOLEAN]
      PROVE  Types'
  BY <1>1, <1>2, <1>4 DEF IInv, Types, Contents
<1>5. CASE op.at <= n
  <2>1. op' = [op EXCEPT !.at = @ + 1]
    BY <1>1, <1>5
  <2>2. /\ op' \in [kind : {"idle", "save", "purge"}, at : Nat, dirty : BOOLEAN]
        /\ op'.kind = "save" /\ op'.at = op.at + 1
    BY <1>1, <1>3, <2>1
  <2>3. Saving'
    <3>1. op'.at <= n + 1 /\ (op'.at >= 2 => op.at >= 1)
      BY <1>3, <1>5, <2>2
    <3> HIDE DEF n
    <3>2. n = ChunksOf(Len(index'))
      BY <1>1 DEF n
    <3> QED
      BY <1>1, <1>2, <2>2, <3>1, <3>2 DEF Saving
  <2>4. Purging' /\ Backed' /\ (op.kind = "idle" => ~op.dirty)'
    BY <2>2 DEF Purging, Backed
  <2> QED
    BY <1>2, <1>4, <2>2, <2>3, <2>4 DEF IInv
<1>6. CASE ~(op.at <= n)
  <2>1. op' = Idle
    BY <1>1, <1>6
  <2>2. /\ op' \in [kind : {"idle", "save", "purge"}, at : Nat, dirty : BOOLEAN]
        /\ op'.kind = "idle" /\ op'.dirty = FALSE
    BY <2>1 DEF Idle
  <2>3. Saving' /\ Purging' /\ (op.kind = "idle" => ~op.dirty)'
    BY <2>2 DEF Saving, Purging
  <2>4. ASSUME n <= NvsChunks
        PROVE  Len(LoadIndex') = Len(index) /\ \A i \in 1..Len(index) : LoadIndex'[i] = index[i]
    <3>1. op.at = n + 1 /\ op.at >= 1
      BY <1>3, <1>6
    <3>2. nvs'.next # NotFound
      BY <1>2, <1>3, <3>1
    <3>3. \A c \in Nat : c < n => c + 2 < op.at + 1 /\ c < NvsChunks
      BY <1>3, <2>4, <3>1
    <3>4. \A c \in Nat : c < n => nvs'.blobs[c] = Chunk(index, c)
      BY <1>2, <3>3
    <3>5. Len(LoadFrom(nvs')) = Len(index) /\ \A i \in 1..Len(index) : LoadFrom(nvs')[i] = index[i]
      BY <1>2, <1>3, <3>2, <3>4, LoadSaved
    <3> QED
      BY <3>5, LoadIs
  <2>5. Backed'
    <3>1. \A m \in Nat : ~(Len(index) < m /\ m <= Len(index))
      BY <1>3
    <3> QED
      BY <1>1, <1>3, <2>4, <3>1 DEF Backed, Fits
  <2> QED
    BY <1>2, <1>4, <2>2, <2>3, <2>5 DEF IInv
<1> QED
  BY <1>5, <1>6

(* The relay is switched on for the first time.                            *)
LEMMA InitIInv ==
    ASSUME Init
    PROVE  IInv
<1>1. /\ index = <<>> /\ next_file_index = 0 /\ op = Idle /\ cycles = 0 /\ cleaner = "sleep"
      /\ files = {} /\ clock = [wall |-> Epoch, synced |-> FALSE] /\ boots = 0 /\ torn = 0
      /\ nvs = [count |-> 0, next |-> NotFound, blobs |-> [c \in Blobs |-> <<>>]]
  BY DEF Init, Blobs
<1>2. /\ MaxEntries \in Nat /\ MaxFileIndex \in Nat /\ CompactEvery \in Nat \ {0} /\ Epoch \in Nat
      /\ MaxTime \in Nat /\ Epoch <= MaxTime /\ MaxBoots \in Nat /\ ChunkSize \in Nat
  BY RelayStoreAssumption
<1>3. nvs \in Contents /\ nvs.next = NotFound /\ \A c \in Blobs : nvs.blobs[c] = <<>>
  BY <1>1, <1>2 DEF Contents
<1>4. index \in Seq(Entry) /\ Len(index) = 0 /\ Len(<<>>) = 0 /\ DOMAIN index = {}
  BY <1>1
<1>5. Types
  <2>1. /\ op \in [kind : {"idle", "save", "purge"}, at : Nat, dirty : BOOLEAN]
        /\ clock \in [wall : Epoch..MaxTime, synced : BOOLEAN]
    BY <1>1, <1>2 DEF Idle
  <2>2. \A c \in Blobs : Len(nvs.blobs[c]) <= ChunkSize
    BY <1>2, <1>3, <1>4
  <2> QED
    BY <1>1, <1>2, <1>3, <1>4, <2>1, <2>2 DEF Types, Contents
<1>6. Fresh
  BY <1>1, <1>3, <1>4, Sizes DEF Fresh
<1>7. op.kind = "idle" /\ op.dirty = FALSE
  BY <1>1 DEF Idle
<1>8. Backed
  <2>1. LoadIndex = <<>>
    BY <1>3 DEF LoadIndex
  <2> QED
    BY <1>4, <2>1 DEF Backed
<1> QED
  BY <1>5, <1>6, <1>7, <1>8 DEF IInv, Saving, Purging

(* Every step of the relay's store.                                        *)
LEMMA NextIInv ==
    ASSUME IInv, [Next]_vars
    PROVE  IInv'
<1>1. CASE \E id \in Ids, written \in BOOLEAN : SaveEvent(id, written)
  BY <1>1, SaveEventStep
<1>2. CASE \E id \in Deletable : DeleteEvent(id)
  BY <1>2, DeleteEventStep
<1>3. CASE SaveIndex
  BY <1>3, SaveIndexStep
<1>4. CASE Cleanup
  BY <1>4, PurgeBeginsStep, PurgeTurnStep, CleanupCycleStep DEF Cleanup
<1>5. CASE PowerLoss
  BY <1>5, PowerLossStep
<1>6. CASE SntpAnswers \/ TimePasses
  BY <1>6, ClockStep
<1>7. CASE UNCHANGED vars
  <2>1. Types'
    BY <1>7 DEF IInv, Types, vars
  <2> QED
    BY <1>7, <2>1, QuietStep DEF vars
<1> QED
  BY <1>1, <1>2, <1>3, <1>4, <1>5, <1>6, <1>7 DEF Next

(* The relation between RAM and NVS holds whenever the power fails.        *)
THEOREM RelayStoreInvariant == Spec => []IInv
<1>1. Init => IInv
  BY InitIInv
<1>2. IInv /\ [Next]_vars => IInv'
  BY NextIInv
<1> QED
  BY <1>1, <1>2, PTL DEF Spec

(* storage_save_event_json never gives an event the file index of an entry *)
(* that is in RAM or would come back from NVS, not even when the power     *)
(* failed between two writes of save_index_to_nvs; and the index keeps to  *)
(* its array, whatever load_index_from_nvs finds.                          *)
THEOREM RelayStoreFileIndexFresh == Spec => []FileIndexFresh
<1>1. ASSUME IInv
      PROVE  FileIndexFresh
  <2>1. Types /\ DOMAIN nvs.blobs = Blobs
    BY <1>1 DEF IInv, Types
  <2>2. TypeOK
    BY <2>1 DEF Types, TypeOK
  <2> QED
    BY <1>1, <2>1, <2>2 DEF IInv, Fresh, Below, FileIndexFresh
<1> QED
  BY <1>1, RelayStoreInvariant, PTL

(* Between two operations of the engine a power loss costs at most the     *)
(* events since storage_save_event_json last saved the index, fewer than   *)
(* SaveEvery; the others come back in place and with their deletion flags, *)
(* if NVS has room for the blobs.                                          *)
THEOREM RelayStoreRecoverable == Spec => []Recoverable
<1>1. ASSUME IInv
      PROVE  Recoverable
  <2> SUFFICES ASSUME op.kind = "idle", ChunksOf(Len(index)) <= NvsChunks
               PROVE  /\ Len(index) - Len(LoadIndex) \in 0..(SaveEvery - 1)
                      /\ IsPrefix(LoadIndex, index)
    BY DEF Recoverable
  <2> DEFINE l == LoadIndex
  <2>1. index \in Seq(Entry) /\ Len(index) \in Nat /\ Len(l) \in Nat /\ nvs \in Contents
        /\ SaveEvery \in Nat \ {0}
    BY <1>1, Facts, Sizes
  <2>2. /\ Len(l) <= Len(index)
        /\ \A i \in 1..Len(l) : l[i] = index[i]
        /\ \A m \in Nat : Len(l) < m /\ m <= Len(index) => m % SaveEvery # 0
    BY <1>1 DEF IInv, Backed, Fits
  <2>3. l \in Seq(Entry)
    BY <2>1, LoadIs, LoadType
  <2> HIDE DEF l
  <2>4. Len(index) - Len(l) \in 0..(SaveEvery - 1)
    <3>1. PICK m \in Nat : Len(l) < m /\ m <= Len(l) + SaveEvery /\ m % SaveEvery = 0
      BY <2>1, MultipleBetween
    <3>2. ~(m <= Len(index))
      BY <2>2, <3>1
    <3> QED
      BY <2>1, <2>2, <3>1, <3>2
  <2>5. IsPrefix(l, index)
    <3>1. /\ SubSeq(index, 1, Len(l)) \in Seq(Entry)
          /\ Len(SubSeq(index, 1, Len(l))) = Len(l)
          /\ \A i \in 1..Len(l) : SubSeq(index, 1, Len(l))[i] = index[i]
      BY <2>1, <2>2
    <3>2. l = SubSeq(index, 1, Len(l))
      BY <2>2, <2>3, <3>1, SeqEqual
    <3> QED
      BY <2>1, <2>2, <2>3, <3>2 DEF IsPrefix
  <2> QED
    BY <2>4, <2>5 DEF l
<1> QED
  BY <1>1, RelayStoreInvariant, PTL

(***************************************************************************)
(* Events that are gone.  An entry is held if it is not flagged and its    *)
(* file is there.  GoneInv adds to IInv: NVS has no blob past its room;    *)
(* outside a save, what would be loaded and is held is in the index; and   *)
(* until a save was torn, so is every held entry of any blob, those that   *)
(* an index once longer has left behind too, and outside a save it is one  *)
(* of the entries that would be loaded.                                    *)
(***************************************************************************)

Held(e, fs) == ~e.deleted /\ Path(e) \in fs

Among(e, s) == \E j \in DOMAIN s : s[j] = e

HeldAmong(s, t, fs) == \A i \in DOMAIN s : Held(s[i], fs) => Among(s[i], t)

NoMoreRoom == \A c \in Blobs : c >= NvsChunks => nvs.blobs[c] = <<>>

LoadedKnown == op.kind # "save" => HeldAmong(LoadFrom(nvs), index, files)

BlobsKnown == torn = 0 => \A c \in Blobs : HeldAmong(nvs.blobs[c], index, files)

BlobsLoaded ==
    torn = 0 /\ op.kind # "save" => \A c \in Blobs : HeldAmong(nvs.blobs[c], LoadFrom(nvs), files)

GoneInv == IInv /\ NoMoreRoom /\ LoadedKnown /\ BlobsKnown /\ BlobsLoaded

(* What GoneUntilSentAgain says of a step.                                 *)
NoReturn ==
    \A id \in Ids : torn' <= 1 /\ Retrievable(id)' /\ ~Retrievable(id) =>
        \E w \in BOOLEAN : SaveEvent(id, w)

EventFiles == SUBSET (Ids \X (0..MaxFileIndex))

(* A blank entry has no file.                                              *)
LEMMA BlankNotHeld ==
    ASSUME NEW fs \in EventFiles
    PROVE  ~Held(Blank, fs)
BY RelayStoreAssumption DEF EventFiles, Held, Blank, Path

(* A held entry that would be loaded is one of a blob's.                   *)
LEMMA LoadedFromBlob ==
    ASSUME NEW v \in Contents, NEW fs \in EventFiles,
           NEW i \in DOMAIN LoadFrom(v), Held(LoadFrom(v)[i], fs)
    PROVE  \E c \in Blobs : \E k \in DOMAIN v.blobs[c] : LoadFrom(v)[i] = v.blobs[c][k]
<1>1. LoadFrom(v) \in Seq(Entry) /\ i \in 1..Len(LoadFrom(v))
  BY LoadType
<1>2. i \in 1..v.count /\ LoadFrom(v)[i] = EntryFrom(v, i)
  BY <1>1, LoadType
<1>3. EntryFrom(v, i) # Blank
  BY <1>2, BlankNotHeld
<1> QED
  BY <1>2, <1>3, EntryLoaded

(* A step that brings no event back.                                       *)
LEMMA NothingNew ==
    ASSUME \A i \in DOMAIN index' : Held(index'[i], files') =>
              Among(index'[i], index) /\ Held(index'[i], files)
    PROVE  NoReturn
<1> SUFFICES ASSUME NEW id \in Ids, Retrievable(id)'
             PROVE  Retrievable(id)
  BY DEF NoReturn
<1>1. PICK i \in DOMAIN index' : index'[i].id = id /\ Held(index'[i], files')
  BY DEF Retrievable, Readable, Live, Held, Path
<1>2. PICK j \in DOMAIN index : index[j] = index'[i]
  BY <1>1 DEF Among
<1>3. Held(index'[i], files)
  BY <1>1
<1> QED
  BY <1>1, <1>2, <1>3 DEF Retrievable, Readable, Live, Held, Path

(* An operation in RAM and on the files: what NVS has gets no file it did  *)
(* not have, and no held entry is lost.                                    *)
LEMMA RamStep ==
    ASSUME GoneInv, IInv', op.kind # "save", nvs' = nvs, torn' = torn,
           \A c \in Blobs : \A k \in DOMAIN nvs.blobs[c] :
              Held(nvs.blobs[c][k], files') => Held(nvs.blobs[c][k], files),
           \A j \in DOMAIN index : Held(index[j], files') => Among(index[j], index')
    PROVE  GoneInv'
<1>1. NoMoreRoom'
  BY DEF GoneInv, NoMoreRoom
<1>2. ASSUME NEW i \in DOMAIN LoadFrom(nvs), Held(LoadFrom(nvs)[i], files')
      PROVE  Among(LoadFrom(nvs)[i], index')
  <2>1. nvs \in Contents /\ files' \in EventFiles
    BY Facts DEF GoneInv, IInv, Types, EventFiles
  <2>2. \E c \in Blobs : \E k \in DOMAIN nvs.blobs[c] : LoadFrom(nvs)[i] = nvs.blobs[c][k]
    BY <1>2, <2>1, LoadedFromBlob
  <2>3. Held(LoadFrom(nvs)[i], files)
    BY <1>2, <2>2
  <2>4. PICK j \in DOMAIN index : index[j] = LoadFrom(nvs)[i]
    BY <2>3 DEF GoneInv, LoadedKnown, HeldAmong, Among
  <2> QED
    BY <1>2, <2>4
<1>3. LoadedKnown'
  BY <1>2 DEF LoadedKnown, HeldAmong
<1>4. ASSUME torn = 0, NEW c \in Blobs, NEW k \in DOMAIN nvs.blobs[c], Held(nvs.blobs[c][k], files')
      PROVE  Among(nvs.blobs[c][k], index') /\ Among(nvs.blobs[c][k], LoadFrom(nvs))
  <2>1. Held(nvs.blobs[c][k], files)
    BY <1>4
  <2>2. PICK j \in DOMAIN index : index[j] = nvs.blobs[c][k]
    BY <1>4, <2>1 DEF GoneInv, BlobsKnown, HeldAmong, Among
  <2>3. Among(nvs.blobs[c][k], LoadFrom(nvs))
    BY <1>4, <2>1 DEF GoneInv, BlobsLoaded, HeldAmong
  <2> QED
    BY <1>4, <2>2, <2>3
<1>5. BlobsKnown' /\ BlobsLoaded'
  BY <1>4 DEF BlobsKnown, BlobsLoaded, HeldAmong
<1> QED
  BY <1>1, <1>3, <1>5 DEF GoneInv

(* storage_save_event_json: no entry of NVS has the new file.              *)
LEMMA SaveEventGone ==
    ASSUME GoneInv, NEW id \in Ids, NEW written \in BOOLEAN, SaveEvent(id, written)
    PROVE  GoneInv' /\ NoReturn
<1> DEFINE e == NewEntry(id)
           n == Len(index)
<1>1. /\ op.kind = "idle" /\ index' = Append(index, e)
      /\ files' = (IF written THEN files \cup {<<id, next_file_index>>} ELSE files)
      /\ nvs' = nvs /\ torn' = torn
  BY DEF SaveEvent
<1>2. IInv' /\ IInv
  BY SaveEventStep DEF GoneInv
<1>3. /\ index \in Seq(Entry) /\ n \in Nat /\ DOMAIN index = 1..n /\ nvs \in Contents
      /\ next_file_index \in Nat /\ nvs.next \in Int /\ nvs.next <= next_file_index
  BY <1>2, Facts DEF IInv, Fresh
<1>4. e.id = id
  BY DEF NewEntry
<1> HIDE DEF e
<1>5. /\ DOMAIN index' = 1..(n + 1)
      /\ \A i \in 1..n : index'[i] = index[i]
      /\ index'[n + 1] = e
  BY <1>1, <1>3
<1>6. ASSUME NEW c \in Blobs, NEW k \in DOMAIN nvs.blobs[c], Held(nvs.blobs[c][k], files')
      PROVE  Held(nvs.blobs[c][k], files)
  <2> DEFINE x == nvs.blobs[c][k]
  <2>1. nvs.blobs[c] \in Seq(Entry)
    BY <1>3 DEF Contents
  <2>2. x \in Entry /\ Below(x, nvs.next)
    BY <1>2, <2>1 DEF IInv, Fresh
  <2>3. x # Blank
    <3>1. files' \in EventFiles
      BY <1>2 DEF IInv, Types, EventFiles
    <3> QED
      BY <1>6, <3>1, BlankNotHeld
  <2> HIDE DEF x
  <2>4. x.file_index < next_file_index /\ x.file_index \in Nat
    BY <1>3, <2>2, <2>3 DEF Below, Entry
  <2>5. Path(x) # <<id, next_file_index>>
    BY <1>3, <2>4 DEF Path
  <2>6. Held(x, files') => Held(x, files)
    BY <1>1, <2>5 DEF Held
  <2> QED
    BY <1>6, <2>6 DEF x
<1>7. \A j \in DOMAIN index : Among(index[j], index')
  BY <1>3, <1>5 DEF Among
<1>8. GoneInv'
  BY <1>1, <1>2, <1>6, <1>7, RamStep
<1>9. ASSUME NEW d \in Ids, Retrievable(d)', ~Retrievable(d)
      PROVE  d = id
  <2> SUFFICES ASSUME d # id
               PROVE  FALSE
    OBVIOUS
  <2>1. PICK i \in DOMAIN index' : index'[i].id = d /\ Held(index'[i], files')
    BY <1>9 DEF Retrievable, Readable, Live, Held, Path
  <2>2. i \in DOMAIN index /\ index'[i] = index[i]
    BY <1>3, <1>4, <1>5, <2>1
  <2>3. Path(index[i]) # <<id, next_file_index>>
    BY <2>1, <2>2 DEF Path
  <2>4. Held(index[i], files) /\ index[i].id = d
    BY <1>1, <2>1, <2>2, <2>3 DEF Held
  <2> QED
    BY <1>9, <2>2, <2>4 DEF Retrievable, Readable, Live, Held
<1>10. NoReturn
  BY <1>9 DEF NoReturn
<1> QED
  BY <1>8, <1>10

(* Flagging an entry whose file is unlinked.                               *)
LEMMA UnlinkedGone ==
    ASSUME GoneInv, IInv', op.kind # "save", nvs' = nvs, torn' = torn, NEW i \in DOMAIN index,
           files' = files \ {Path(index[i])}, index' = [index EXCEPT ![i].deleted = TRUE]
    PROVE  GoneInv' /\ NoReturn
<1> DEFINE e == [index[i] EXCEPT !.deleted = TRUE]
<1>1. index \in Seq(Entry) /\ index[i] \in Entry /\ DOMAIN index = 1..Len(index)
  BY Facts DEF GoneInv
<1>2. index' = [index EXCEPT ![i] = e] /\ e.deleted
  BY <1>1 DEF Entry
<1> HIDE DEF e
<1>3. DOMAIN index' = DOMAIN index /\ index'[i] = e /\ \A j \in DOMAIN index : j # i => index'[j] = index[j]
  BY <1>1, <1>2
<1>4. \A x : Held(x, files') => Held(x, files)
  BY DEF Held
<1>5. \A j \in DOMAIN index : Held(index[j], files') => Among(index[j], index')
  BY <1>3 DEF Held, Among
<1>6. \A j \in DOMAIN index' : Held(index'[j], files') => Among(index'[j], index) /\ Held(index'[j], files)
  BY <1>2, <1>3, <1>4 DEF Held, Among
<1> QED
  BY <1>4, <1>5, <1>6, RamStep, NothingNew

(* Operations that neither unlink nor flag nor write.                      *)
LEMMA UntouchedGone ==
    ASSUME GoneInv, IInv', op.kind # "save", UNCHANGED <<nvs, torn, files, index>>
    PROVE  GoneInv' /\ NoReturn
<1>1. \A j \in DOMAIN index : Among(index[j], index)
  BY DEF Among
<1>2. GoneInv'
  BY <1>1, RamStep
<1>3. NoReturn
  BY <1>1, NothingNew
<1> QED
  BY <1>2, <1>3

(* storage_delete_event.                                                   *)
LEMMA DeleteEventGone ==
    ASSUME GoneInv, NEW id \in Deletable, DeleteEvent(id)
    PROVE  GoneInv' /\ NoReturn
<1> DEFINE i == CHOOSE k \in Find(id) : \A j \in Find(id) : k <= j
<1>1. /\ op.kind = "idle" /\ Find(id) # {} /\ files' = files \ {Path(index[i])}
      /\ index' = [index EXCEPT ![i].deleted = TRUE]
      /\ nvs' = nvs /\ torn' = torn
  BY DEF DeleteEvent
<1>2. Find(id) \in SUBSET Nat /\ Find(id) \subseteq DOMAIN index
  BY Facts DEF Find, GoneInv
<1>3. i \in DOMAIN index
  <2> HIDE DEF Find
  <2>1. i \in Find(id)
    BY <1>1, <1>2, FirstOf
  <2> QED
    BY <1>2, <2>1
<1> HIDE DEF i
<1>4. IInv'
  BY DeleteEventStep DEF GoneInv
<1> QED
  BY <1>1, <1>3, <1>4, UnlinkedGone

(* One entry of the walk of storage_purge_expired.                         *)
LEMMA PurgeTurnGone ==
    ASSUME GoneInv, PurgeTurn
    PROVE  GoneInv' /\ NoReturn
<1> DEFINE e    == index[op.at]
           gone == ~e.deleted /\ Expired(e)
<1>1. /\ op.kind = "purge"
      /\ files' = (IF gone THEN files \ {Path(e)} ELSE files)
      /\ index' = [index EXCEPT ![op.at].deleted = @ \/ gone]
      /\ nvs' = nvs /\ torn' = torn
  BY DEF PurgeTurn
<1>2. op.at \in DOMAIN index /\ e \in Entry /\ index \in Seq(Entry)
  BY <1>1, Facts DEF GoneInv, IInv, Purging
<1>3. IInv'
  BY PurgeTurnStep DEF GoneInv
<1>4. e.deleted \in BOOLEAN /\ gone \in BOOLEAN
  BY <1>2 DEF Entry
<1>5. CASE gone
  <2>1. (e.deleted \/ gone) = TRUE
    BY <1>5, Zenon
  <2>2. index' = [index EXCEPT ![op.at].deleted = TRUE]
    BY <1>1, <2>1
  <2> QED
    BY <1>1, <1>2, <1>3, <1>5, <2>2, UnlinkedGone
<1>6. CASE ~gone
  <2>1. (e.deleted \/ gone) = e.deleted
    BY <1>4, <1>6, Zenon
  <2>2. index' = [index EXCEPT ![op.at].deleted = index[op.at].deleted]
    BY <1>1, <2>1
  <2>3. [index[op.at] EXCEPT !.deleted = index[op.at].deleted] = index[op.at]
    BY <1>2 DEF Entry
  <2>4. index' = [index EXCEPT ![op.at] = index[op.at]]
    BY <2>2, <2>3
  <2>5. index' = index
    BY <1>2, <2>4
  <2> QED
    BY <1>1, <1>3, <1>6, <2>5, UntouchedGone
<1> QED
  BY <1>5, <1>6

(* storage_compact_index keeps every entry that is not flagged: so many    *)
(* places in rising order are all of them.                                 *)
LEMMA CompactGone ==
    ASSUME GoneInv, IInv', op.kind # "save", UNCHANGED <<nvs, torn, files>>, index' \in Compacted
    PROVE  GoneInv' /\ NoReturn
<1> DEFINE n == Cardinality(Kept)
<1>1. index \in Seq(Entry) /\ Len(index) \in Nat /\ DOMAIN index = 1..Len(index) /\ Kept \subseteq 1..Len(index)
  BY Facts DEF GoneInv, Kept
<1>2. IsFiniteSet(Kept) /\ n \in Nat
  <2>1. \A m \in Nat : IsFiniteSet(1..m)
    BY FS_Interval
  <2> QED
    BY <1>1, <2>1, FS_Subset, FS_CardinalityType
<1>3. PICK from \in [1..n -> Kept] :
        /\ \A j, k \in 1..n : j < k => from[j] < from[k]
        /\ index' = [k \in 1..n |-> index[from[k]]]
  BY DEF Compacted
<1>4. Cardinality(1..n) = n
  <2>1. \A m \in Nat : Cardinality(1..m) = m
    BY FS_Interval
  <2> QED
    BY <1>2, <2>1
<1> HIDE DEF n
<1>5. from \in Injection(1..n, Kept)
  <2>1. ASSUME NEW j \in 1..n, NEW k \in 1..n, from[j] = from[k]
        PROVE  j = k
    <3>1. from[j] \in Nat /\ from[k] \in Nat
      <4>1. from[j] \in Kept /\ from[k] \in Kept
        OBVIOUS
      <4>2. Kept \subseteq Nat
        BY <1>1
      <4> QED
        BY <4>1, <4>2
    <3>2. ~(j < k) /\ ~(k < j)
      BY <1>3, <2>1, <3>1
    <3> QED
      BY <1>2, <3>2
  <2> QED
    BY <1>3, <2>1 DEF Injection, IsInjective
<1>6. \A i \in Kept : \E k \in 1..n : from[k] = i
  <2>1. Cardinality(1..n) = Cardinality(Kept)
    BY <1>4 DEF n
  <2>2. from \in Surjection(1..n, Kept)
    BY <1>2, <1>5, <2>1, FS_Injection
  <2> QED
    BY <2>2 DEF Surjection
<1>7. DOMAIN index' = 1..n /\ \A k \in 1..n : from[k] \in DOMAIN index /\ index'[k] = index[from[k]]
  BY <1>1, <1>3
<1>8. ASSUME NEW j \in DOMAIN index, Held(index[j], files')
      PROVE  Among(index[j], index')
  <2>1. j \in Kept
    BY <1>8 DEF Held, Kept, Live
  <2>2. PICK k \in 1..n : from[k] = j
    BY <1>6, <2>1
  <2> QED
    BY <1>7, <2>2 DEF Among
<1>9. \A k \in DOMAIN index' : Held(index'[k], files') => Among(index'[k], index) /\ Held(index'[k], files)
  BY <1>7 DEF Among
<1> QED
  BY <1>8, <1>9, RamStep, NothingNew

(* The clean-up cycle.                                                     *)
LEMMA CleanupCycleGone ==
    ASSUME GoneInv, CleanupCycle
    PROVE  GoneInv' /\ NoReturn
<1>1. /\ op.kind = "idle" /\ UNCHANGED <<files, nvs, torn>>
      /\ index' \in Compacted \/ index' = index
  BY DEF CleanupCycle
<1>2. IInv'
  BY CleanupCycleStep DEF GoneInv
<1>3. CASE index' \in Compacted
  BY <1>1, <1>2, <1>3, CompactGone
<1>4. CASE index' = index
  BY <1>1, <1>2, <1>4, UntouchedGone
<1> QED
  BY <1>1, <1>3, <1>4

(* Power loss: what comes back was there, unless this is the second save   *)
(* that is torn.                                                           *)
LEMMA PowerLossGone ==
    ASSUME GoneInv, PowerLoss
    PROVE  GoneInv' /\ NoReturn
<1>1. /\ index' = LoadFrom(nvs) /\ op'.kind = "idle" /\ UNCHANGED <<files, nvs>>
      /\ torn' = (IF op.kind = "save" THEN torn + 1 ELSE torn)
  BY LoadIs DEF PowerLoss, Idle
<1>2. IInv' /\ IInv
  BY PowerLossStep DEF GoneInv
<1>3. torn \in Nat /\ nvs \in Contents /\ files \in EventFiles
  BY <1>2, Facts DEF IInv, Types, EventFiles
<1>4. NoMoreRoom'
  BY <1>1 DEF GoneInv, NoMoreRoom
<1>5. LoadedKnown'
  BY <1>1 DEF LoadedKnown, HeldAmong, Among
<1>6. BlobsKnown' /\ BlobsLoaded'
  <2>1. torn' = 0 => torn = 0 /\ op.kind # "save"
    BY <1>1, <1>3
  <2> QED
    BY <1>1, <2>1 DEF GoneInv, BlobsKnown, BlobsLoaded
<1>7. ASSUME torn' <= 1
      PROVE  NoReturn
  <2>1. op.kind # "save" \/ torn = 0
    BY <1>1, <1>3, <1>7
  <2>2. ASSUME NEW i \in DOMAIN LoadFrom(nvs), Held(LoadFrom(nvs)[i], files)
        PROVE  Among(LoadFrom(nvs)[i], index)
    <3>1. CASE op.kind # "save"
      BY <2>2, <3>1 DEF GoneInv, LoadedKnown, HeldAmong
    <3>2. CASE torn = 0
      <4>1. \E c \in Blobs : \E k \in DOMAIN nvs.blobs[c] : LoadFrom(nvs)[i] = nvs.blobs[c][k]
        BY <1>3, <2>2, LoadedFromBlob
      <4> QED
        BY <2>2, <3>2, <4>1 DEF GoneInv, BlobsKnown, HeldAmong
    <3> QED
      BY <2>1, <3>1, <3>2
  <2> QED
    BY <1>1, <2>2, NothingNew
<1>8. NoReturn
  BY <1>7 DEF NoReturn
<1> QED
  BY <1>2, <1>4, <1>5, <1>6, <1>8 DEF GoneInv

(* A write of a save changes a blob for which there is room, if any.       *)
LEMMA BlobWritten ==
    ASSUME IInv, SaveIndex, NEW c \in Blobs
    PROVE  \/ nvs'.blobs[c] = nvs.blobs[c]
           \/ c < NvsChunks /\ nvs'.blobs[c] = Chunk(index, c)
<1>1. nvs' = SaveWrites(op.at) /\ op.at \in Nat /\ nvs \in Contents /\ nvs.blobs \in [Blobs -> Seq(Entry)]
  BY Facts DEF SaveIndex, Contents
<1>2. CASE op.at = 0 \/ op.at = 1
  <2>1. nvs'.blobs = nvs.blobs
    BY <1>1, <1>2 DEF SaveWrites, Contents
  <2> QED
    BY <2>1
<1>3. CASE op.at # 0 /\ op.at # 1
  <2> DEFINE b == op.at - 2
  <2>1. nvs' = IF b < NvsChunks THEN [nvs EXCEPT !.blobs[b] = Chunk(index, b)] ELSE nvs
    BY <1>1, <1>3 DEF SaveWrites
  <2> HIDE DEF b
  <2>2. CASE ~(b < NvsChunks)
    BY <2>1, <2>2
  <2>3. CASE b < NvsChunks
    <3>1. nvs' = [nvs EXCEPT !.blobs = [nvs.blobs EXCEPT ![b] = Chunk(index, b)]]
      BY <2>1, <2>3
    <3>2. nvs'.blobs = [nvs.blobs EXCEPT ![b] = Chunk(index, b)]
      BY <1>1, <3>1 DEF Contents
    <3> QED
      BY <1>1, <2>3, <3>2
  <2> QED
    BY <2>2, <2>3
<1> QED
  BY <1>2, <1>3

(* An entry of a blob of the index is at a place that belongs to the blob. *)
LEMMA PlaceInChunk ==
    ASSUME NEW s \in Seq(Entry), NEW c \in Nat, NEW k \in DOMAIN Chunk(s, c)
    PROVE  \E p \in 1..Len(s) : s[p] = Chunk(s, c)[k] /\ (p - 1) \div ChunkSize <= c
<1> DEFINE ch == Chunk(s, c)
           lo == c * ChunkSize
           p  == lo + k
           d  == (p - 1) \div ChunkSize
<1>1. ch \in Seq(Entry) /\ Len(ch) <= ChunkSize
      /\ \A x \in 1..Len(ch) : lo + x \in 1..Len(s) /\ ch[x] = s[lo + x]
  <2> HIDE DEF p, d
  <2> QED
    BY ChunkIs
<1>2. k \in 1..Len(ch)
  BY <1>1
<1>3. p \in 1..Len(s) /\ ch[k] = s[p]
  BY <1>1, <1>2
<1> HIDE DEF ch
<1>4. lo \in Nat /\ k \in Nat /\ k >= 1 /\ k <= ChunkSize /\ ChunkSize \in Nat \ {0} /\ p - 1 \in Nat
      /\ p - 1 < lo + ChunkSize
  BY <1>1, <1>2, Sizes
<1> HIDE DEF p
<1>5. d \in Nat /\ ChunkSize * d <= p - 1
  BY <1>4, Quotient
<1> HIDE DEF d
<1>6. ASSUME c < d
      PROVE  FALSE
  <2>1. ChunkSize * (c + 1) <= ChunkSize * d
    BY <1>4, <1>5, <1>6
  <2>2. ChunkSize * (c + 1) = lo + ChunkSize
    BY <1>4
  <2> HIDE DEF lo
  <2> QED
    BY <1>4, <1>5, <2>1, <2>2
<1>7. d <= c
  BY <1>5, <1>6
<1> QED
  BY <1>3, <1>7 DEF ch, d

(* save_index_to_nvs.  After the last write every entry of a blob with     *)
(* room is loaded from its place; a held one that was left behind by a     *)
(* longer index is also at a place of the index, in an earlier blob.       *)
LEMMA SaveIndexGone ==
    ASSUME GoneInv, SaveIndex
    PROVE  GoneInv' /\ NoReturn
<1> DEFINE n == ChunksOf(Len(index))
           v == nvs'
<1>1. /\ op.kind = "save" /\ UNCHANGED <<index, files, torn>>
      /\ op' = (IF op.at <= n THEN [op EXCEPT !.at = @ + 1] ELSE Idle)
  BY DEF SaveIndex
<1>2. IInv' /\ IInv
  BY SaveIndexStep DEF GoneInv
<1>3. /\ v \in Contents /\ v.count = Len(index)
      /\ op.at >= 1 => v.next = next_file_index
      /\ \A c \in Nat : c + 2 < op.at + 1 /\ c < NvsChunks => v.blobs[c] = Chunk(index, c)
  BY <1>2, SaveWritten
<1>4. /\ index \in Seq(Entry) /\ Len(index) \in Nat /\ DOMAIN index = 1..Len(index)
      /\ op.at \in Nat /\ n \in Nat /\ NvsChunks \in Nat /\ Blobs \subseteq Nat
      /\ next_file_index \in Nat /\ NotFound = -1 /\ op.at <= n + 1 /\ files \in EventFiles
  <2>1. /\ index \in Seq(Entry) /\ Len(index) \in Nat /\ DOMAIN index = 1..Len(index)
        /\ op.at \in Nat /\ n \in Nat /\ NvsChunks \in Nat /\ ChunksOf(MaxEntries) \in Nat
        /\ next_file_index \in Nat /\ NotFound = -1
    BY <1>2, Facts, Sizes
  <2>2. op.at <= n + 1
    BY <1>1, <1>2 DEF IInv, Saving
  <2>3. files \in EventFiles
    BY <1>2 DEF IInv, Types, EventFiles
  <2>4. Blobs \subseteq Nat
    BY <2>1 DEF Blobs
  <2> QED
    BY <2>1, <2>2, <2>3, <2>4
<1>5. \A c \in Blobs : v.blobs[c] = nvs.blobs[c] \/ (c < NvsChunks /\ v.blobs[c] = Chunk(index, c))
  BY <1>2, BlobWritten
<1> HIDE DEF n, v
<1>6. \A c \in Blobs : c >= NvsChunks => v.blobs[c] = <<>>
  BY <1>4, <1>5 DEF GoneInv, NoMoreRoom
<1>7. ASSUME torn = 0, NEW c \in Blobs, NEW k \in DOMAIN v.blobs[c], Held(v.blobs[c][k], files)
      PROVE  Among(v.blobs[c][k], index)
  <2>1. CASE v.blobs[c] = nvs.blobs[c]
    BY <1>7, <2>1 DEF GoneInv, BlobsKnown, HeldAmong
  <2>2. CASE v.blobs[c] = Chunk(index, c)
    BY <1>4, <1>7, <2>2, PlaceInChunk DEF Among
  <2> QED
    BY <1>5, <2>1, <2>2
<1>8. NoMoreRoom' /\ BlobsKnown'
  BY <1>1, <1>6, <1>7 DEF NoMoreRoom, BlobsKnown, HeldAmong, v
<1>9. ASSUME op.at <= n
      PROVE  LoadedKnown' /\ BlobsLoaded'
  <2>1. op'.kind = "save"
    <3>1. op \in [kind : {"idle", "save", "purge"}, at : Nat, dirty : BOOLEAN]
      BY <1>2 DEF IInv, Types
    <3> QED
      BY <1>1, <1>9, <3>1
  <2> QED
    BY <2>1 DEF LoadedKnown, BlobsLoaded
<1>10. ASSUME ~(op.at <= n)
       PROVE  LoadedKnown' /\ BlobsLoaded'
  <2>1. op.at = n + 1 /\ op.at >= 1
    BY <1>4, <1>10
  <2>2. v.next # NotFound
    BY <1>3, <1>4, <2>1
  <2>3. \A c \in Nat : c < n /\ c < NvsChunks => v.blobs[c] = Chunk(index, c)
    <3>1. \A c \in Nat : c < n => c + 2 < op.at + 1
      BY <1>4, <2>1
    <3> QED
      BY <1>3, <3>1
  <2>4. /\ LoadFrom(v) \in Seq(Entry) /\ Len(LoadFrom(v)) = Len(index)
        /\ DOMAIN LoadFrom(v) = 1..Len(index)
        /\ \A i \in 1..Len(index) : LoadFrom(v)[i] = EntryFrom(v, i)
    BY <1>3, <2>2, LoadType
  <2>5. ASSUME NEW p \in 1..Len(index)
        PROVE  /\ (p - 1) \div ChunkSize \in Nat
               /\ (p - 1) \div ChunkSize < n
    <3>1. p - 1 \in Nat
      BY <1>4
    <3> QED
      BY <1>4, <3>1, Sizes, Quotient, Chunks DEF n
  <2>6. ASSUME NEW p \in 1..Len(index), (p - 1) \div ChunkSize < NvsChunks
        PROVE  LoadFrom(v)[p] = index[p]
    <3>1. v.blobs[(p - 1) \div ChunkSize] = Chunk(index, (p - 1) \div ChunkSize)
      BY <2>3, <2>5, <2>6
    <3> QED
      BY <1>3, <1>4, <2>4, <3>1, EntrySaved
  <2>7. ASSUME NEW i \in 1..Len(index), Held(LoadFrom(v)[i], files)
        PROVE  Among(LoadFrom(v)[i], index)
    <3> DEFINE c == (i - 1) \div ChunkSize
    <3>1. CASE c < NvsChunks
      BY <1>4, <2>6, <3>1 DEF Among
    <3>2. CASE ~(c < NvsChunks)
      <4>1. c \in Nat /\ c < n /\ n <= ChunksOf(MaxEntries) /\ ChunksOf(MaxEntries) \in Nat
        BY <1>2, <2>5, Facts DEF n
      <4>2. EntryFrom(v, i) = Blank \/ i - c * ChunkSize <= Len(v.blobs[c])
        BY DEF EntryFrom
      <4>3. ChunkSize * c <= i - 1
        <5>1. i - 1 \in Nat
          BY <1>4
        <5> QED
          BY <5>1, Sizes, Quotient
      <4> HIDE DEF c
      <4>4. v.blobs[c] = <<>>
        BY <1>4, <1>6, <3>2, <4>1 DEF Blobs
      <4>5. i - c * ChunkSize >= 1
        BY <1>4, <4>1, <4>3, Sizes
      <4>6. EntryFrom(v, i) = Blank
        BY <4>2, <4>4, <4>5, <4>1, <1>4, Sizes
      <4> QED
        BY <1>4, <2>4, <2>7, <4>6, BlankNotHeld
    <3> QED
      BY <3>1, <3>2
  <2>8. LoadedKnown'
    BY <1>1, <2>4, <2>7 DEF LoadedKnown, HeldAmong, v
  <2>9. ASSUME torn = 0, NEW c \in Blobs, NEW k \in DOMAIN v.blobs[c], Held(v.blobs[c][k], files)
        PROVE  Among(v.blobs[c][k], LoadFrom(v))
    <3>1. c < NvsChunks
      BY <1>4, <1>6, <2>9
    <3>2. PICK p \in 1..Len(index) : index[p] = v.blobs[c][k] /\ (p - 1) \div ChunkSize < NvsChunks
      <4>1. CASE c < n
        <5>1. v.blobs[c] = Chunk(index, c)
          BY <1>4, <2>3, <3>1, <4>1
        <5>2. PICK p \in 1..Len(index) :
                index[p] = v.blobs[c][k] /\ (p - 1) \div ChunkSize <= c
          BY <1>4, <2>9, <5>1, PlaceInChunk
        <5>3. (p - 1) \div ChunkSize < NvsChunks
          BY <1>4, <2>5, <3>1, <5>2
        <5> QED
          BY <5>2, <5>3
      <4>2. CASE ~(c < n)
        <5>1. PICK p \in 1..Len(index) : index[p] = v.blobs[c][k]
          BY <1>4, <1>7, <2>9 DEF Among
        <5>2. (p - 1) \div ChunkSize < NvsChunks
          BY <1>4, <2>5, <3>1, <4>2
        <5> QED
          BY <5>1, <5>2
      <4> QED
        BY <4>1, <4>2
    <3> QED
      BY <2>4, <2>6, <3>2 DEF Among
  <2>10. BlobsLoaded'
    BY <1>1, <2>9 DEF BlobsLoaded, HeldAmong, v
  <2> QED
    BY <2>8, <2>10
<1>11. NoReturn
  BY <1>1, NothingNew DEF Among
<1> QED
  BY <1>2, <1>8, <1>9, <1>10, <1>11 DEF GoneInv

(* Every step.                                                             *)
LEMMA NextGone ==
    ASSUME GoneInv, Next
    PROVE  GoneInv' /\ NoReturn
<1>1. CASE \E id \in Ids, written \in BOOLEAN : SaveEvent(id, written)
  BY <1>1, SaveEventGone
<1>2. CASE \E id \in Deletable : DeleteEvent(id)
  BY <1>2, DeleteEventGone
<1>3. CASE SaveIndex
  BY <1>3, SaveIndexGone
<1>4. CASE PurgeTurn
  BY <1>4, PurgeTurnGone
<1>5. CASE CleanupCycle
  BY <1>5, CleanupCycleGone
<1>6. CASE PowerLoss
  BY <1>6, PowerLossGone
<1>7. CASE PurgeBegins \/ SntpAnswers \/ TimePasses
  <2>1. op.kind # "save" /\ UNCHANGED <<nvs, torn, files, index>>
    BY <1>7 DEF PurgeBegins, SntpAnswers, TimePasses
  <2>2. IInv'
    BY <1>7, PurgeBeginsStep, ClockStep DEF GoneInv
  <2> QED
    BY <2>1, <2>2, UntouchedGone
<1> QED
  BY <1>1, <1>2, <1>3, <1>4, <1>5, <1>6, <1>7 DEF Next, Cleanup

(* A deleted or purged event does not come back by itself, wherever the    *)
(* power fails: not from a save torn between two of save_index_to_nvs's    *)
(* writes, not from a blob that a longer index has left behind, and not    *)
(* from a full NVS partition, as long as no second save is torn.           *)
THEOREM RelayStoreGone == Spec => GoneUntilSentAgain
<1>1. Init => GoneInv
  <2> SUFFICES ASSUME Init
               PROVE  GoneInv
    OBVIOUS
  <2>1. IInv
    BY InitIInv
  <2>2. \A c \in Blobs : nvs.blobs[c] = <<>>
    BY DEF Init, Blobs
  <2>3. LoadFrom(nvs) = <<>>
    BY DEF Init, LoadFrom
  <2> QED
    BY <2>1, <2>2, <2>3 DEF GoneInv, NoMoreRoom, LoadedKnown, BlobsKnown, BlobsLoaded, HeldAmong
<1>2. GoneInv /\ [Next]_vars => GoneInv'
  <2>1. ASSUME GoneInv, UNCHANGED vars
        PROVE  GoneInv'
    <3>1. IInv' /\ UNCHANGED <<index, op, files, nvs, torn>>
      BY <2>1, NextIInv DEF GoneInv, vars
    <3> QED
      BY <2>1, <3>1 DEF GoneInv, NoMoreRoom, LoadedKnown, BlobsKnown, BlobsLoaded
  <2> QED
    BY <2>1, NextGone
<1>3. GoneInv /\ [Next]_vars =>
        [\A id \in Ids : torn' <= 1 /\ Retrievable(id)' /\ ~Retrievable(id) =>
            \E w \in BOOLEAN : SaveEvent(id, w)]_vars
  BY NextGone DEF NoReturn
<1> QED
  BY <1>1, <1>2, <1>3, PTL DEF Spec, GoneUntilSentAgain

(***************************************************************************)
(* The synchroniser's choice of relays.  SyncInv adds to SelectionUsable   *)
(* that a relay that failed too often does not count as living while the   *)
(* probes are under way either, and where a probe's number can be.         *)
(***************************************************************************)

Usable(tab, p, f) ==
    /\ (p = None) <=> (AliveIn(tab) = {})
    /\ (f = None) <=> (Cardinality(AliveIn(tab)) < 2)
    /\ {p, f} \ {None} \subseteq AliveIn(tab)
    /\ p # None => p # f

Table == [Relays -> [alive : BOOLEAN, failures : 0..MaxFailures]]

SyncTypes ==
    /\ net \in [Relays -> {"up", "down", "silent"}]
    /\ relays \in Table
    /\ primary \in Relays \cup {None} /\ fallback \in Relays \cup {None}
    /\ lock \in BOOLEAN /\ running \in BOOLEAN /\ first \in BOOLEAN /\ local \in BOOLEAN
    /\ sync \in [at : Places, relay : 0..(N + 1)]
    /\ due \in [Intervals -> BOOLEAN]

Sound(tab) == \A r \in Relays : tab[r].alive => tab[r].failures < MaxFailures

SyncInv ==
    /\ SyncTypes
    /\ Sound(relays)
    /\ sync.at = "probe" => sync.relay >= 1
    /\ Probed => Usable(relays, primary, fallback)

(* select_primary_fallback leaves a choice that can be used.               *)
LEMMA SelectUsable ==
    ASSUME NEW tab \in Table, NEW p, NEW f,
           p \in Best(tab, AliveIn(tab)), f \in Best(tab, AliveIn(tab) \ {p})
    PROVE  Usable(tab, p, f) /\ p \in Relays \cup {None} /\ f \in Relays \cup {None}
<1> DEFINE A == AliveIn(tab)
<1>1. N \in Nat /\ A \subseteq Relays /\ None \notin Relays
  BY RelaySyncAssumption DEF AliveIn, Relays, None
<1>2. IsFiniteSet(Relays)
  BY <1>1, FS_Interval DEF Relays
<1>3. IsFiniteSet(A) /\ Cardinality(A) \in Nat
  BY <1>1, <1>2, FS_Subset, FS_CardinalityType
<1> HIDE DEF A
<1>4. p \in Best(tab, A) /\ f \in Best(tab, A \ {p})
  BY DEF A
<1>5. CASE A = {}
  <2>1. p = None /\ f = None
    BY <1>4, <1>5 DEF Best
  <2>2. Cardinality(A) = 0
    BY <1>5, FS_EmptySet
  <2> QED
    BY <1>5, <2>1, <2>2 DEF Usable, A
<1>6. CASE A # {}
  <2>1. p \in A /\ p # None
    BY <1>1, <1>4, <1>6 DEF Best
  <2> DEFINE B == A \ {p}
  <2>2. IsFiniteSet(B) /\ Cardinality(B) = Cardinality(A) - 1 /\ Cardinality(B) \in Nat
    BY <1>3, <2>1, FS_RemoveElement, FS_CardinalityType
  <2>3. B = {} <=> Cardinality(B) = 0
    BY <2>2, FS_EmptySet
  <2> HIDE DEF B
  <2>4. B = {} <=> Cardinality(A) < 2
    BY <1>3, <2>2, <2>3
  <2>5. f \in Best(tab, B)
    BY <1>4 DEF B
  <2>6. f = None <=> B = {}
    BY <1>1, <2>5 DEF Best, B
  <2>7. f # None => f \in A /\ f # p
    BY <2>5 DEF Best, B
  <2> QED
    BY <1>1, <1>6, <2>1, <2>4, <2>6, <2>7 DEF Usable, A
<1> QED
  BY <1>5, <1>6

(* A failure is counted up to MAX_FAILURES.                                *)
LEMMA FailedType ==
    ASSUME NEW e \in [alive : BOOLEAN, failures : 0..MaxFailures]
    PROVE  /\ Failed(e) \in [alive : BOOLEAN, failures : 0..MaxFailures]
           /\ Failed(e).alive = e.alive
<1>1. MaxFailures \in Nat
  BY RelaySyncAssumption
<1>2. (IF e.failures < MaxFailures THEN e.failures + 1 ELSE e.failures) \in 0..MaxFailures
  BY <1>1
<1> QED
  BY <1>2 DEF Failed

(* Every way a probe ends.                                                 *)
LEMMA ProbeSound ==
    ASSUME SyncInv, NEW r \in Relays, NEW e \in ProbeOutcomes(r)
    PROVE  /\ e \in [alive : BOOLEAN, failures : 0..MaxFailures]
           /\ e.alive => e.failures < MaxFailures
<1> DEFINE g == Failed(relays[r])
<1>1. MaxFailures \in Nat \ {0} /\ relays[r] \in [alive : BOOLEAN, failures : 0..MaxFailures]
  BY RelaySyncAssumption DEF SyncInv, SyncTypes, Table
<1>2. g \in [alive : BOOLEAN, failures : 0..MaxFailures]
  BY <1>1, FailedType
<1>3. \/ e = [g EXCEPT !.alive = FALSE]
      \/ e = [alive |-> TRUE, failures |-> 0]
      \/ e = [g EXCEPT !.alive = g.failures < MaxFailures]
  BY DEF ProbeOutcomes
<1> HIDE DEF g
<1>4. CASE e = [g EXCEPT !.alive = FALSE]
  BY <1>2, <1>4
<1>5. CASE e = [alive |-> TRUE, failures |-> 0]
  BY <1>1, <1>5
<1>6. CASE e = [g EXCEPT !.alive = g.failures < MaxFailures]
  <2> DEFINE b == g.failures < MaxFailures
  <2>1. b \in BOOLEAN
    <3>1. CASE g.failures < MaxFailures
      BY <3>1
    <3>2. CASE ~(g.failures < MaxFailures)
      BY <3>2
    <3> QED
      BY <3>1, <3>2
  <2>2. e = [g EXCEPT !.alive = b]
    BY <1>6
  <2> HIDE DEF b
  <2>3. /\ e \in [alive : BOOLEAN, failures : 0..MaxFailures]
        /\ e.alive = b /\ e.failures = g.failures
    BY <1>2, <2>1, <2>2
  <2> QED
    BY <2>3 DEF b
<1> QED
  BY <1>3, <1>4, <1>5, <1>6

(* Where the task goes next in its round.                                  *)
LEMMA RoundPlace ==
    ASSUME NEW l, NEW d
    PROVE  NextInRound(l, d) \in [at : Places \ {"probe"}, relay : 0..(N + 1)]
<1>1. None \in 0..(N + 1)
  BY RelaySyncAssumption DEF None
<1> QED
  BY <1>1 DEF NextInRound, Places

(* A step that leaves the relays and the choice alone and does not leave   *)
(* the probes.                                                             *)
LEMMA ChoiceKept ==
    ASSUME SyncInv, UNCHANGED selector, SyncTypes',
           sync'.at = "probe" => sync'.relay >= 1,
           Probed' => Probed
    PROVE  SyncInv'
BY DEF SyncInv, selector

(* relay_selector_report_disconnect of a living relay.                     *)
LEMMA ReportSound ==
    ASSUME SyncInv, NEW r \in Relays, ReportDisconnect(r)
    PROVE  /\ relays' \in Table /\ Sound(relays')
           /\ primary' \in Relays \cup {None} /\ fallback' \in Relays \cup {None}
           /\ Probed => Usable(relays', primary', fallback')
<1> DEFINE e    == Failed(relays[r])
           dead == e.failures >= MaxFailures
           x    == [e EXCEPT !.alive = @ /\ ~dead]
<1>1. MaxFailures \in Nat \ {0} /\ relays \in Table
      /\ relays[r] \in [alive : BOOLEAN, failures : 0..MaxFailures]
  BY RelaySyncAssumption DEF SyncInv, SyncTypes, Table
<1>2. e \in [alive : BOOLEAN, failures : 0..MaxFailures] /\ e.alive = relays[r].alive
  BY <1>1, FailedType
<1>3. /\ relays' = [relays EXCEPT ![r] = x]
      /\ IF dead THEN Select(relays') ELSE UNCHANGED <<primary, fallback>>
  BY DEF ReportDisconnect
<1> HIDE DEF e
<1>4. x \in [alive : BOOLEAN, failures : 0..MaxFailures] /\ x.failures = e.failures
      /\ x.alive = (e.alive /\ ~dead)
  BY <1>1, <1>2
<1> HIDE DEF x
<1>5. relays' \in Table /\ relays'[r] = x /\ \A q \in Relays : q # r => relays'[q] = relays[q]
  BY <1>1, <1>3, <1>4 DEF Table
<1>6. Sound(relays')
  <2>1. x.alive => x.failures < MaxFailures
    BY <1>1, <1>2, <1>4
  <2> QED
    BY <1>5, <2>1 DEF SyncInv, Sound
<1>7. CASE dead
  <2>1. primary' \in Best(relays', AliveIn(relays')) /\ fallback' \in Best(relays', AliveIn(relays') \ {primary'})
    BY <1>3, <1>7 DEF Select
  <2> QED
    BY <1>5, <1>6, <2>1, SelectUsable
<1>8. CASE ~dead
  <2>1. x.alive = relays[r].alive
    BY <1>2, <1>4, <1>8
  <2>2. \A q \in Relays : relays'[q].alive = relays[q].alive
    BY <1>5, <2>1
  <2>3. AliveIn(relays') = AliveIn(relays)
    BY <2>2 DEF AliveIn
  <2>4. UNCHANGED <<primary, fallback>>
    BY <1>3, <1>8
  <2>5. Probed => Usable(relays', primary', fallback')
    BY <2>3, <2>4 DEF SyncInv, Usable
  <2> QED
    BY <1>5, <1>6, <2>4, <2>5 DEF SyncInv, SyncTypes
<1> QED
  BY <1>7, <1>8

(* A step of the task's that stays clear of the probes, or of somebody     *)
(* else's, and changes no entry and no choice.                             *)
LEMMA ElsewhereStep ==
    ASSUME SyncInv, UNCHANGED selector,
           net' \in [Relays -> {"up", "down", "silent"}],
           lock' \in BOOLEAN, running' \in BOOLEAN, local' \in BOOLEAN, first' = first,
           due' \in [Intervals -> BOOLEAN],
           \/ sync' = sync
           \/ sync.at # "probe" /\ sync' \in [at : Places \ {"probe"}, relay : 0..(N + 1)]
    PROVE  SyncInv'
<1>1. SyncTypes'
  BY DEF SyncInv, SyncTypes, selector
<1>2. (sync'.at = "probe" => sync'.relay >= 1) /\ (Probed' => Probed)
  BY DEF SyncInv, Probed
<1> QED
  BY <1>1, <1>2, ChoiceKept

(* What the task's places are.                                             *)
LEMMA PlaceIs ==
    ASSUME NEW l \in Places \ {"probe"}, NEW r \in 0..(N + 1)
    PROVE  [at |-> l, relay |-> r] \in [at : Places \ {"probe"}, relay : 0..(N + 1)]
OBVIOUS

(* The probes of relay_selector_probe_all.                                 *)
LEMMA ProbeSteps ==
    ASSUME SyncInv, ProbeBegins \/ ProbeTurn \/ ProbeEnds
    PROVE  SyncInv'
<1>1. N \in Nat \ {0} /\ None = 0 /\ 0 \in 0..(N + 1) /\ 1 \in 0..(N + 1)
  BY RelaySyncAssumption DEF None
<1>2. sync \in [at : Places, relay : 0..(N + 1)] /\ due \in [Intervals -> BOOLEAN] /\ relays \in Table
  BY DEF SyncInv, SyncTypes
<1>3. CASE ProbeBegins
  <2>1. /\ sync.at = "take" /\ (IF lock THEN At("probe", 1) ELSE At("crash", None))
        /\ UNCHANGED <<net, selector, lock, running, first, due, local>>
    BY <1>3 DEF ProbeBegins
  <2>2. sync' = [at |-> "probe", relay |-> 1] \/ sync' = [at |-> "crash", relay |-> 0]
    BY <1>1, <2>1 DEF At
  <2>3. sync' \in [at : Places, relay : 0..(N + 1)] /\ (sync'.at = "probe" => sync'.relay >= 1)
    BY <1>1, <2>2 DEF Places
  <2>4. SyncTypes'
    BY <2>1, <2>3 DEF SyncInv, SyncTypes, selector
  <2>5. Probed' => Probed
    BY <2>1 DEF Probed
  <2> QED
    BY <2>1, <2>3, <2>4, <2>5, ChoiceKept
<1>4. CASE ProbeTurn
  <2>1. /\ sync.at = "probe" /\ sync.relay <= N
        /\ sync' = [at |-> "probe", relay |-> sync.relay + 1]
        /\ UNCHANGED <<net, primary, fallback, lock, running, first, due, local>>
    BY <1>4 DEF ProbeTurn, At
  <2>2. PICK e \in ProbeOutcomes(sync.relay) : relays' = [relays EXCEPT ![sync.relay] = e]
    BY <1>4 DEF ProbeTurn
  <2>3. sync.relay \in Relays /\ sync.relay + 1 \in 1..(N + 1)
    BY <1>1, <1>2, <2>1 DEF SyncInv, Relays
  <2>4. /\ e \in [alive : BOOLEAN, failures : 0..MaxFailures]
        /\ e.alive => e.failures < MaxFailures
    BY <2>3, ProbeSound
  <2>5. /\ relays' \in Table /\ relays'[sync.relay] = e
        /\ \A q \in Relays : q # sync.relay => relays'[q] = relays[q]
    BY <1>2, <2>2, <2>3, <2>4 DEF Table
  <2>6. Sound(relays')
    BY <2>4, <2>5 DEF SyncInv, Sound
  <2>7. /\ sync' \in [at : Places, relay : 0..(N + 1)] /\ sync'.at = "probe" /\ sync'.relay >= 1
    BY <1>1, <2>1, <2>3 DEF Places
  <2>8. SyncTypes'
    BY <2>1, <2>5, <2>7 DEF SyncInv, SyncTypes
  <2> QED
    BY <2>6, <2>7, <2>8 DEF SyncInv, Probed
<1>5. CASE ProbeEnds
  <2>1. /\ Select(relays) /\ due' = [due EXCEPT !.probe = FALSE] /\ first' = FALSE
        /\ sync' = (IF first THEN [at |-> "nego", relay |-> None] ELSE NextInRound("probe", due))
        /\ UNCHANGED <<net, relays, lock, running, local>>
    BY <1>5 DEF ProbeEnds
  <2>2. /\ Usable(relays, primary', fallback')
        /\ primary' \in Relays \cup {None} /\ fallback' \in Relays \cup {None}
    BY <1>2, <2>1, SelectUsable DEF Select
  <2>3. sync' \in [at : Places \ {"probe"}, relay : 0..(N + 1)]
    <3>1. [at |-> "nego", relay |-> None] \in [at : Places \ {"probe"}, relay : 0..(N + 1)]
      BY <1>1 DEF Places
    <3> QED
      BY <2>1, <3>1, RoundPlace
  <2>4. due' \in [Intervals -> BOOLEAN]
    BY <1>2, <2>1 DEF Intervals
  <2>5. SyncTypes'
    BY <2>1, <2>2, <2>3, <2>4 DEF SyncInv, SyncTypes
  <2> QED
    BY <2>1, <2>2, <2>3, <2>5 DEF SyncInv
<1> QED
  BY <1>3, <1>4, <1>5

(* A connection that fails is reported, if the selector is still there.    *)
LEMMA FailSteps ==
    ASSUME SyncInv, NegoFails \/ ReqdiffFails
    PROVE  SyncInv'
<1>1. PICK r \in Relays, l \in {"nego", "reqdiff"} :
        /\ sync.at = l
        /\ (IF lock THEN ReportDisconnect(r) /\ sync' = NextInRound(l, due)
                    ELSE At("crash", None) /\ UNCHANGED selector)
        /\ UNCHANGED <<net, lock, running, first, due, local>>
  BY DEF NegoFails, ReqdiffFails, Living, SyncInv, SyncTypes
<1>2. CASE ~lock
  <2>1. "crash" \in Places \ {"probe"} /\ None \in 0..(N + 1)
    BY RelaySyncAssumption DEF Places, None
  <2>2. sync' \in [at : Places \ {"probe"}, relay : 0..(N + 1)] /\ UNCHANGED selector
    BY <1>1, <1>2, <2>1, PlaceIs DEF At
  <2> QED
    BY <1>1, <2>2, ElsewhereStep DEF SyncInv, SyncTypes
<1>3. CASE lock
  <2>1. ReportDisconnect(r) /\ sync' \in [at : Places \ {"probe"}, relay : 0..(N + 1)]
    BY <1>1, <1>3, RoundPlace
  <2>2. /\ relays' \in Table /\ Sound(relays')
        /\ primary' \in Relays \cup {None} /\ fallback' \in Relays \cup {None}
        /\ Probed => Usable(relays', primary', fallback')
    BY <2>1, ReportSound
  <2>3. SyncTypes'
    BY <1>1, <2>1, <2>2 DEF SyncInv, SyncTypes
  <2>4. Probed' => Probed
    BY <1>1 DEF Probed
  <2> QED
    BY <2>1, <2>2, <2>3, <2>4 DEF SyncInv
<1> QED
  BY <1>2, <1>3

(* The task's other steps.                                                 *)
LEMMA TaskSteps ==
    ASSUME SyncInv, \/ SyncStarts \/ NegoSkipped \/ NegoConnects \/ NegoEnds
                    \/ ReqdiffSkipped \/ ReqdiffConnects \/ ReqdiffEnds \/ Check \/ Round
    PROVE  SyncInv'
<1>1. /\ Relays \subseteq 0..(N + 1) /\ None \in 0..(N + 1)
      /\ {"take", "nego_read", "reqdiff_read", "wait", "ended"} \subseteq Places \ {"probe"}
  BY RelaySyncAssumption DEF Relays, None, Places
<1>2. UNCHANGED selector /\ UNCHANGED <<net, lock, running, first, local>> /\ sync.at # "probe"
  BY DEF SyncStarts, NegoSkipped, NegoConnects, NegoEnds, ReqdiffSkipped, ReqdiffConnects,
         ReqdiffEnds, Check, Round
<1>3. due' \in [Intervals -> BOOLEAN]
  <2>1. due \in [Intervals -> BOOLEAN]
    BY DEF SyncInv, SyncTypes
  <2>2. CASE due' = due
    BY <2>1, <2>2
  <2>3. CASE NegoSkipped
    <3> DEFINE b == due.nego /\ ~Living(primary)
    <3>1. b \in BOOLEAN
      BY Zenon
    <3>2. due' = [due EXCEPT !.nego = b]
      BY <2>3 DEF NegoSkipped
    <3> HIDE DEF b
    <3> QED
      BY <2>1, <3>1, <3>2
  <2>4. CASE NegoEnds \/ ReqdiffEnds
    BY <2>1, <2>4 DEF NegoEnds, ReqdiffEnds
  <2> QED
    BY <2>2, <2>3, <2>4 DEF SyncStarts, NegoConnects, ReqdiffSkipped, ReqdiffConnects, Check, Round
<1>4. sync' \in [at : Places \ {"probe"}, relay : 0..(N + 1)]
  <2>1. primary # None => primary \in 0..(N + 1)
    BY <1>1 DEF SyncInv, SyncTypes
  <2>2. fallback # None => fallback \in 0..(N + 1)
    BY <1>1 DEF SyncInv, SyncTypes
  <2>3. CASE SyncStarts
    BY <1>1, <2>3, PlaceIs DEF SyncStarts, At
  <2>4. CASE NegoConnects
    BY <1>1, <2>1, <2>4, PlaceIs DEF NegoConnects, At, Living
  <2>5. CASE ReqdiffConnects
    BY <1>1, <2>2, <2>5, PlaceIs DEF ReqdiffConnects, At, Living
  <2>6. CASE Check
    BY <1>1, <2>6, PlaceIs DEF Check, At
  <2>7. CASE NegoSkipped \/ NegoEnds \/ ReqdiffSkipped \/ ReqdiffEnds
    BY <2>7, RoundPlace DEF NegoSkipped, NegoEnds, ReqdiffSkipped, ReqdiffEnds
  <2>8. CASE Round
    BY <2>8, RoundPlace DEF Round
  <2> QED
    BY <2>3, <2>4, <2>5, <2>6, <2>7, <2>8
<1> QED
  BY <1>2, <1>3, <1>4, ElsewhereStep DEF SyncInv, SyncTypes

(* Everybody else's steps.                                                 *)
LEMMA OtherSteps ==
    ASSUME SyncInv,
           \/ LocalPublish \/ StopSync \/ DestroySelector
           \/ \E w \in Intervals : IntervalOver(w)
           \/ \E r \in Relays : NetChanges(r)
    PROVE  SyncInv'
<1>1. UNCHANGED <<selector, sync, first>>
  BY DEF LocalPublish, StopSync, DestroySelector, IntervalOver, NetChanges
<1>2. lock' \in BOOLEAN /\ running' \in BOOLEAN /\ local' \in BOOLEAN
  BY DEF LocalPublish, StopSync, DestroySelector, IntervalOver, NetChanges, SyncInv, SyncTypes
<1>3. due' \in [Intervals -> BOOLEAN]
  BY DEF LocalPublish, StopSync, DestroySelector, IntervalOver, NetChanges, SyncInv, SyncTypes
<1>4. net' \in [Relays -> {"up", "down", "silent"}]
  <2>1. net \in [Relays -> {"up", "down", "silent"}]
    BY DEF SyncInv, SyncTypes
  <2> QED
    BY <2>1 DEF LocalPublish, StopSync, DestroySelector, IntervalOver, NetChanges
<1> QED
  BY <1>1, <1>2, <1>3, <1>4, ElsewhereStep

(* The choice of relays can be used in every reachable state after the     *)
(* first probes, for every number of seed relays and every MAX_FAILURES    *)
(* (relay_selector_probe_all, relay_selector_report_disconnect).           *)
THEOREM SyncSelectionUsable == SyncSpec => []SelectionUsable
<1>1. SyncInit => SyncInv
  <2> SUFFICES ASSUME SyncInit
               PROVE  SyncInv
    OBVIOUS
  <2>1. MaxFailures \in Nat \ {0} /\ None \in 0..(N + 1)
    BY RelaySyncAssumption DEF None
  <2>2. relays \in Table /\ Sound(relays)
    BY <2>1 DEF SyncInit, Table, Sound
  <2>3. due \in [Intervals -> BOOLEAN]
    BY DEF SyncInit, Intervals
  <2>4. sync \in [at : Places, relay : 0..(N + 1)] /\ sync.at = "start"
    BY <2>1 DEF SyncInit, Places
  <2>5. net \in [Relays -> {"up", "down", "silent"}]
    BY DEF SyncInit
  <2>6. SyncTypes
    BY <2>2, <2>3, <2>4, <2>5 DEF SyncInit, SyncTypes
  <2> QED
    BY <2>2, <2>4, <2>6 DEF SyncInit, SyncInv, Probed
<1>2. SyncInv /\ [SyncNext]_syncvars => SyncInv'
  <2> SUFFICES ASSUME SyncInv, [SyncNext]_syncvars
               PROVE  SyncInv'
    OBVIOUS
  <2>1. CASE SyncStep
    BY <2>1, ProbeSteps, FailSteps, TaskSteps DEF SyncStep
  <2>2. CASE \/ LocalPublish \/ StopSync \/ DestroySelector
             \/ \E w \in Intervals : IntervalOver(w)
             \/ \E r \in Relays : NetChanges(r)
    BY <2>2, OtherSteps
  <2>3. CASE UNCHANGED syncvars
    BY <2>3, ElsewhereStep DEF syncvars, selector, SyncInv, SyncTypes
  <2> QED
    BY <2>1, <2>2, <2>3 DEF SyncNext
<1>3. SyncInv => SelectionUsable
  <2>1. SyncTypes => SyncTypeOK
    BY DEF SyncTypes, SyncTypeOK, Table
  <2>2. SyncInv => \A r \in AliveIn(relays) : relays[r].failures < MaxFailures
    BY DEF SyncInv, Sound, AliveIn
  <2> QED
    BY <2>1, <2>2 DEF SyncInv, SelectionUsable, Usable
<1> QED
  BY <1>1, <1>2, <1>3, PTL DEF SyncSpec
=============================================================================

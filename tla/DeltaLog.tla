------------------------------ MODULE DeltaLog ------------------------------
(***************************************************************************)
(* The in-memory operation log of log.go: a ring of entry descriptors      *)
(* (index) over a ring of bytes (data).  What an entry says is left out: a *)
(* byte of data is identified by the sequence number of the entry that     *)
(* wrote it, 0 before any.  Append and GetEntriesRaw hold the log's mutex, *)
(* so each is one step.                                                    *)
(***************************************************************************)
EXTENDS Integers

CONSTANTS capacity,       \* entries the index ring holds (Config.LogSize)
          BytesPerEntry,  \* 256 in the code
          LargeLog,       \* a capacity from which on data has ...; 100000
          LargeBuf,       \* ... this size instead; 256 MiB in the code
          Entry,          \* the entries appended: [size, len], see below
          limit,          \* GetEntriesRaw's limit; the replicator passes 1000
          maxBytes,       \* GetEntriesRaw's maxBytes; the replicator passes 8 MiB
          MaxAppends      \* bound: number of Append calls

(* An entry is what Append can tell of it: size, its Msgsize(), an upper   *)
(* bound computed before marshalling, and len, its marshalled length.  No  *)
(* entry is too large to be appended.                                      *)
ASSUME DeltaLogAssumption ==
  /\ capacity \in Nat \ {0}
  /\ BytesPerEntry \in Nat /\ LargeLog \in Nat /\ LargeBuf \in Nat
  /\ Entry \subseteq [size : Nat, len : Nat \ {0}]
  /\ \A e \in Entry : e.len <= e.size
  /\ limit \in Nat \ {0} /\ maxBytes \in Nat /\ MaxAppends \in Nat

(* bufSize: the bytes the data ring holds.                                 *)
bufCap == IF capacity < LargeLog THEN capacity * BytesPerEntry ELSE LargeBuf

VARIABLES head,      \* the next sequence number
          bufHead,   \* the next write offset in data
          index,     \* [0..capacity-1 -> [offset, length]]
          data,      \* [0..bufCap-1 -> the entry the byte belongs to]
          passed,    \* bytes of data passed so far: written, or skipped
          place      \* [entries that data has room for -> passed before them]

ring == <<head, bufHead, index, data>>
history == <<passed, place>>
vars == <<ring, history>>

TypeOK ==
  /\ head \in Nat \ {0}
  /\ bufHead \in Nat
  /\ index \in [0..capacity - 1 -> [offset : Nat, length : Nat]]
  /\ data \in [0..bufCap - 1 -> Nat]
  /\ passed \in Nat
  /\ DOMAIN place \subseteq 1..head - 1
  /\ \A s \in DOMAIN place : place[s] \in 0..passed

(***************************************************************************)
(* NewDeltaLog and Append                                                  *)
(***************************************************************************)

(* A mutation of Init: sequence numbers start at 0, the "nothing seen yet" *)
(* of peerSeqs.                                                            *)
InitHeadZero ==
  /\ head = 0
  /\ bufHead = 0
  /\ index = [i \in 0..capacity - 1 |-> [offset |-> 0, length |-> 0]]
  /\ data = [b \in 0..bufCap - 1 |-> 0]
  /\ passed = 0 /\ place = [s \in {} |-> 0]

Init ==
  /\ head = 1
  /\ bufHead = 0
  /\ index = [i \in 0..capacity - 1 |-> [offset |-> 0, length |-> 0]]
  /\ data = [b \in 0..bufCap - 1 |-> 0]
  /\ passed = 0 /\ place = [s \in {} |-> 0]

(* A mutation of Start: the wrap-around test forgets the entry's size.     *)
StartNoRoomCheck(e) == IF bufHead >= bufCap THEN 0 ELSE bufHead

(* Where an entry goes: at bufHead, or at 0 when Msgsize() says that it    *)
(* might not fit behind bufHead.                                           *)
Start(e) == IF bufHead + e.size > bufCap THEN 0 ELSE bufHead

(* MarshalMsg writes in place only if the slice it is given has Msgsize()  *)
(* bytes of capacity; otherwise it allocates a new slice, which Append     *)
(* drops, and data is not written.                                         *)
Written(e) ==
  IF Start(e) + e.size > bufCap
  THEN {}
  ELSE Start(e)..Start(e) + e.len - 1

(* The rest of data, when the entry does not go behind bufHead.            *)
Skipped(e) == IF Start(e) = bufHead \/ bufHead > bufCap THEN 0 ELSE bufCap - bufHead

LogAppend(e) ==
  /\ head <= MaxAppends
  /\ data' = [b \in DOMAIN data |-> IF b \in Written(e) THEN head ELSE data[b]]
  /\ index' = [index EXCEPT ![head % capacity] =
                 [offset |-> Start(e), length |-> e.len]]
  /\ bufHead' = Start(e) + e.len
  /\ head' = head + 1
  /\ passed' = passed + Skipped(e) + e.len
  /\ place' = IF e.size > bufCap THEN place
              ELSE [s \in DOMAIN place \cup {head} |->
                      IF s = head THEN passed + Skipped(e) ELSE place[s]]

Next == \E e \in Entry : LogAppend(e)

Spec == Init /\ [][Next]_vars

(***************************************************************************)
(* GetEntriesRaw                                                           *)
(***************************************************************************)
Info(s) == index[s % capacity]

(* The bytes copied for entry s.  A slice that ends beyond data panics;    *)
(* no set of bytes stands for that.                                        *)
Panic == {-1}

Bytes(s) ==
  LET end == Info(s).offset + Info(s).length
  IN  IF end > bufCap THEN Panic
      ELSE {data[b] : b \in Info(s).offset..end - 1}

(* The oldest sequence number that the index still describes.              *)
Earliest == IF head > capacity THEN head - capacity ELSE 1

(* Total bytes of the first i entries from sequence number s.              *)
TotalLength(s, i) ==
  LET total[j \in 0..i] ==
        IF j = 0 THEN 0 ELSE total[j - 1] + Info(s + j - 1).length
  IN  total[i]

(* A mutation of InBatch: the byte limit applies to the first entry too.   *)
InBatchNoFirstEntry(s, i) ==
  /\ i <= limit /\ s + i - 1 < head
  /\ TotalLength(s, i) <= maxBytes

(* The loop takes entries from s on, up to limit of them, until the next   *)
(* one would exceed maxBytes; the first is taken whatever its size.        *)
InBatch(s, i) ==
  /\ i <= limit /\ s + i - 1 < head
  /\ \A j \in 2..i : TotalLength(s, j) <= maxBytes

(* An entry that has been overwritten is skipped for the oldest retained.  *)
First(startSeq) == IF startSeq < Earliest THEN Earliest ELSE startSeq

(* The copies of a run of entries, as a function on 1..number copied.      *)
GetEntriesRaw(startSeq) ==
  LET s == First(startSeq)
  IN  [i \in {j \in 1..limit : InBatch(s, j)} |-> Bytes(s + i - 1)]

(***************************************************************************)
(* Properties                                                              *)
(***************************************************************************)

(* Entry s has been passed by no more than the bytes that data has, those  *)
(* skipped at its end included, counting from the first byte of s.         *)
Held(s) == s \in DOMAIN place /\ passed - place[s] <= bufCap

(* What a reader of the log relies on: from any start, GetEntriesRaw       *)
(* returns consecutive entries, from the start asked for or, if that one   *)
(* is no longer among the last `capacity', from the oldest of those, and a *)
(* copy holds the bytes of that entry alone, however large the entries are *)
(* and however often both rings have wrapped, unless data never had room   *)
(* for the entry or was passed once since.  (Nothing keeps GetEntriesRaw   *)
(* from copying the bytes of such an entry all the same: data has 256      *)
(* bytes per entry, and an entry may have any number.)                     *)
ReadsIntact ==
  \A startSeq \in 1..head - 1 :
    LET oldest == IF startSeq + capacity < head THEN head - capacity
                                                ELSE startSeq
    IN  \A i \in DOMAIN GetEntriesRaw(startSeq) :
          Held(oldest + i - 1) => GetEntriesRaw(startSeq)[i] = {oldest + i - 1}

(* replicateToPeer sends nothing when the batch is empty and is called     *)
(* again at once: a read below head therefore returns at least one entry,  *)
(* however large that entry is.                                            *)
ReadsMakeProgress ==
  \A startSeq \in 1..head - 1 : 1 \in DOMAIN GetEntriesRaw(startSeq)

(***************************************************************************)
(* The inductive invariant behind ReadsIntact                              *)
(***************************************************************************)
Retained == Earliest..head - 1

Offset(s) == Info(s).offset
End(s) == Info(s).offset + Info(s).length

(* passed - bufHead bytes had been passed when the current lap through     *)
(* data began.  An entry of this lap lies below bufHead, and an older one  *)
(* began at least a whole lap earlier.                                     *)
Layout ==
  \A s \in Retained \cap DOMAIN place :
    \/ place[s] - Offset(s) = passed - bufHead /\ End(s) <= bufHead
    \/ place[s] - Offset(s) + bufCap <= passed - bufHead

Intact ==
  \A s \in Retained :
    Held(s) => /\ End(s) <= bufCap
               /\ Info(s).length > 0
               /\ \A b \in Offset(s)..End(s) - 1 : data[b] = s

DeltaLogInv == TypeOK /\ Layout /\ Intact
=============================================================================

------------------------------ MODULE WireLog -------------------------------
(***************************************************************************)
(* The way of an entry from Append to the peer's applyRemoteEntry: it is   *)
(* encoded into the log's ring (DeltaLog), copied out by GetEntriesRaw,    *)
(* put into a Batch that SendBatch encodes, and decoded by the peer's      *)
(* handleConn, batch by batch and entry by entry (Wire).                   *)
(***************************************************************************)
EXTENDS DeltaLog, Wire

CONSTANTS Entries,     \* the entries appended, without their numbers
          Descriptor,  \* what DeltaLog knows of them: [Entries -> Entry]
          Handshakes,  \* the handshakes sent, and Nil
          FromNode     \* the sender's ID

ASSUME WireLogAssumption ==
  /\ Entries \subseteq LogEntry /\ \A e \in Entries : e.s = 0
  /\ Descriptor \in [Entries -> Entry]
  /\ Handshakes \subseteq Handshake \cup {Nil}
  /\ FromNode \in Nat

VARIABLES entries,   \* [1..head - 1 -> the entry that was appended]
          sent,      \* the last batch: handshake, first entry, how many, and
                     \* which of them the log held then
          batch,     \* the batch that handleConn decoded last
          received   \* the entries that it applied of it

wireVars == <<vars, entries, sent, batch, received>>

NoneSent == [h |-> Nil, first |-> 1, count |-> 0, held |-> {}]

WireInit ==
  /\ Init
  /\ entries = [s \in {} |-> ZeroEntry]
  /\ sent = NoneSent
  /\ batch = ZeroBatch
  /\ received = [i \in {} |-> ZeroEntry]

(* Append gives the entry its number and encodes it.  In the program, its  *)
(* descriptor is [size |-> Msgsize(z), len |-> EntryLen(z)]; DeltaLog      *)
(* needs only what MsgsizeIsBound says, and the bytes here are fewer.      *)
WireAppend(e) ==
  /\ LogAppend(Descriptor[e])
  /\ entries' = [s \in 1..head |-> IF s = head THEN [e EXCEPT !.s = s] ELSE entries[s]]
  /\ UNCHANGED <<sent, batch, received>>

(* The bytes of an entry, and whether they are at offset o of data.        *)
EncodedLen(q) == Descriptor[[entries[q] EXCEPT !.s = 0]].len

At(q, o) == \A b \in o..o + EncodedLen(q) - 1 : b \in DOMAIN data /\ data[b] = q

(* What GetEntriesRaw copies for entry s: an encoding if it begins with    *)
(* all the bytes of one entry, of s or of another that was written over    *)
(* it (UnmarshalMsg does not mind more bytes behind them).                 *)
Garbage == [size |-> 1, fields |-> [f \in {} |-> 0]]

Copied(s) ==
  {q \in DOMAIN entries : EncodedLen(q) <= Info(s).length /\ At(q, Info(s).offset)}

Raw(s) ==
  IF Copied(s) = {} THEN Garbage
  ELSE MarshalEntry(entries[CHOOSE q \in Copied(s) : TRUE])

RawEntries(startSeq) ==
  [i \in DOMAIN GetEntriesRaw(startSeq) |-> Raw(First(startSeq) + i - 1)]

(* A mutation of BatchTarget: the variable is declared outside the loop.   *)
BatchTargetReused(previous) == previous

(* handleConn decodes each batch into a new variable.                      *)
BatchTarget(previous) == ZeroBatch

(* A mutation of EntryTarget: the variable is declared outside the loop.   *)
EntryTargetReused(previous) == previous

(* And each entry.                                                         *)
EntryTarget(previous) == ZeroEntry

(* The entries of a batch as they are applied.  One that does not decode   *)
(* is skipped.                                                             *)
Unmarshalled(raw) ==
  LET z[i \in 0..Cardinality(DOMAIN raw)] ==
        IF i = 0 THEN ZeroEntry ELSE UnmarshalEntry(EntryTarget(z[i - 1]), raw[i])
  IN  [i \in {j \in DOMAIN raw : Decodes(raw[j])} |-> z[i]]

(* replicateToPeer and SendBatch at one node, one turn of handleConn at    *)
(* the other.  A copy that would end beyond data is a panic, which ends    *)
(* the program.                                                            *)
SendBatch(startSeq, h) ==
  LET copies == DOMAIN GetEntriesRaw(startSeq)
      message == MarshalBatch([f |-> FromNode, e |-> RawEntries(startSeq), h |-> h])
  IN  /\ \A i \in copies : Bytes(First(startSeq) + i - 1) # Panic
      /\ sent' = [h |-> h, first |-> First(startSeq), count |-> Cardinality(copies),
                  held |-> {i \in copies : Held(First(startSeq) + i - 1)}]
      /\ batch' = DecodeBatch(BatchTarget(batch), message)
      /\ received' = Unmarshalled(batch'.e)
      /\ UNCHANGED <<vars, entries>>

WireNext ==
  \/ \E e \in Entries : WireAppend(e)
  \/ \E startSeq \in 1..head - 1, h \in Handshakes : SendBatch(startSeq, h)

WireSpec == WireInit /\ [][WireNext]_wireVars

(***************************************************************************)
(* Properties                                                              *)
(***************************************************************************)

(* The peer applies the entries of the batch as they were logged, with     *)
(* every field, those that the encoding omits included, whatever entries   *)
(* came before one in the batch and however often the rings have wrapped:  *)
(* all that the log still held when they were read.                        *)
ReceivedAsLogged ==
  \A i \in sent.held :
    i \in DOMAIN received /\ received[i] = entries[sent.first + i - 1]

(* The size that Append makes room for is never less than what MarshalMsg  *)
(* writes: DeltaLog assumes it of its entries.                             *)
MsgsizeIsBound ==
  \A s \in DOMAIN entries :
    EntryLen(entries[s]) \in 1..Msgsize(entries[s])

(* The peer sees a handshake, which moves its cursor back, exactly in the  *)
(* batches that carry one, whatever was sent on the connection before.     *)
HandshakeAsSent == batch.h = sent.h

(***************************************************************************)
(* What ReceivedAsLogged is inductive with, beside DeltaLogInv: the log    *)
(* describes its entries as they were appended, and has had those that     *)
(* were sent.                                                              *)
(***************************************************************************)
Described ==
  /\ entries \in [1..head - 1 -> LogEntry]
  /\ \A s \in 1..head - 1 : [entries[s] EXCEPT !.s = 0] \in Entries
  /\ \A s \in Retained : Info(s).length = EncodedLen(s)

SentLogged ==
  /\ sent.first \in Nat \ {0} /\ sent.count \in Nat
  /\ sent.first + sent.count <= head /\ sent.held \subseteq 1..sent.count
=============================================================================

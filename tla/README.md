# Capacitor in TLA+

Capacitor is a replicated cache. Every node answers reads and writes from its own
memory, logs what it wrote, and streams the log to every other node, which merges
it. This directory models that in TLA+, checks the models with TLC on small
instances, and proves the main properties with TLAPS for all instances. Paths below
are relative to the repository (`src/`).

## The system

| Part | Source | State | What runs |
|---|---|---|---|
| Hybrid logical clock | `hlc.go` | physical and logical part, `maxOffset` | `Now` on each write, `Update` on each entry received |
| Delta log | `log.go` | a ring of entry positions over a ring of bytes | `Append`, `GetEntriesRaw`; a condition variable |
| Replicator | `capacitor.go` | `peerSeqs` (the send cursor), `peerStops` | one goroutine per peer: wait, read a batch, send, advance |
| Stream client and server | `transport.go` | one connection per peer; a handler goroutine per incoming one | `dial`, `SendBatch`, idle janitor; `handleConn` |
| Membership | `capacitor.go` | memberlist (external) | `NotifyJoin`, `NotifyLeave` |
| Registers | `capacitor.go`, `store.go` | `shard.cache` | `Set`, `Delete`, `Get`, `GetScan`, `Exists`; the janitor |
| Counters | `capacitor.go`, `store.go` | `counts`, `aggregateCounts` | `IncrementBy`, `GetCount` |
| Distributed metrics | `capacitor.go`, `store.go` | the same maps | `IncrementMetric`, `GetMetric` |
| Sliding windows | `capacitor.go`, `store.go` | `windows` | `IncrementSlidingWindow`; the janitor |
| Persistence | `store.go` | `dirty`, the database, 256 shards chosen by a part of the key | `flushLoop`, `janitorLoop`, `close`, `load` |
| Metrics tracker | `metrics.go` | latency statistics | `Record`, `GetSummary` |
| Lifecycle, configuration | `capacitor.go` | | `New`, `Close` |
| Serialisation | `*_gen.go` (generated) | | MessagePack of log entries and batches |
| Messages | `types.go` | | operation codes; `Message` is unused |

A write takes a timestamp from the clock, changes a shard and appends to the log,
under three locks taken one after the other. The append wakes the replicators. A
replicator sends what lies between its cursor and the head of the log; the peer's
handler passes every entry through its clock into its store and records the sequence
number. The first batch of a connection carries a handshake, the last number the
sender has recorded *from* the peer, and the peer moves its own cursor there.

## Modules

| Module | Models | Actions |
|---|---|---|
| `HLC` | the operations of the clock, as operators | |
| `Clocks` | nodes with clocks that exchange timestamps | `LocalEvent` (Now), `Receive`/`Refuse` (Update), `SetMaxOffset`, `Restart` |
| `DeltaLog` | the log, byte by byte | `LogAppend` (Append); `GetEntriesRaw` is an operator evaluated in every state |
| `Wire` | the MessagePack encodings of entries, batches and handshakes, as operators | |
| `WireLog` | `DeltaLog` and `Wire` composed: an entry's way from Append to the peer | `WireAppend`, `SendBatch` |
| `Delivery` | what replication promises, abstractly | `Write`, `Handle` |
| `Replication` | logs, replicators, connections, handlers, membership of all nodes | `LogAppend`, `NotifyJoin`, `NotifyLeave`, `CheckStop`/`CheckData`/`CheckWait`, `Load`, `Read`, `Ask`, `Send`, `SendLost`, `SendFail`, `StoreCursor`, `CloseIdle`, `Receive`, `ApplyEntry`, `RejectEntry`, `BreakConn`, `Restart` |
| `Sender` | one node's sending side towards one peer, lock by lock | `LogAppend`; `Lock`, `Return`, `HasData`, `NoData`, `Wait` (the loop); `Load`, `StoreCursor` (replicateToPeer); `Lookup`, `Connect`, `ConnectFail`, `Register` (dial); `Handshake`, `Mark`, `Write`, `WriteFail`, `Forget` (SendBatch); `NotifyJoin`; `CloseConn`, `StopReplicator`, `WakeStopped`, `ForgetPeer` (NotifyLeave); `CloseIdle`; `Cancel`, `WakeAll`, `CloseClient` (Close); `PeerHandshake` |
| `Registers` | one key of the registers on every node | `Set`/`Delete` (`Begin`), `LocalWrite`, `LogAppend`, `MarshalError`, `UpdateClock`, `ApplyEntry`, `PruneExpiredKeys`, `Restart`, `Tick`; `Get`, `Exists`, `GetScan` are operators |
| `Counters` | one counter on every node | `Increment`, `GetNodeCount`, `LogAppend`, `ApplyEntry`, `Flush`, `Crash` |
| `Metrics` | one distributed metric beside the counter | `IncrementMetric`, `LogMetric`, `ApplyMetric`; `FlushAll` and `CrashAll` for both |
| `Windows` | one sliding window on every node | `Begin`, `IncrementWindow`, `LogAppend`, `UpdateClock`, `ApplyEntry`, `PruneStaleWindows`, `Tick` |
| `Store` | shards, keys, dirty keys, flushes, the database | `Write`, `Expire`, the two prunes, `StartFlush`, `Snapshot`, `Commit`, `CommitError`, `Close`, `LoopExits`, `CloseDB`, `Restart` |

`MC...` modules give the constants values; `...Proofs` modules hold the theorems
(`DeltaLogProofs` those about `Wire` and `WireLog` too, `MetricsProofs` those about `Counters`
too). An inductive invariant that a proof needs is at the end of the module it is about.

How they fit together. `Registers` and `Windows` extend the clock, `HLC`. The data
modules rely on replication through `Delivery`: a node's log is handled by the others in
any order, perhaps never, perhaps again, and also after the node that logged it was
restarted. `Replication`
implements `Delivery` with the mapping `handled` (what was applied or refused), and shows
how repetition, reordering and loss come about. `Sender` is a closer view of what
`Replication` takes as single steps. `WireLog` is a closer view of what an entry goes
through on the way; it implements `DeltaLog`, and shows what `DeltaLog` assumes of sizes.

An action ends where the code gives up a lock, sends, or reads what another goroutine
may change. So `Set` is three steps, `replicateToPeer` is `Load`, `Read`, `Ask`, `Send`,
`StoreCursor`, a remote entry is `UpdateClock` then `ApplyEntry`, and a flush takes one
shard at a time before it commits. Everything under one lock is one action.

History variables record what properties speak of and the code does not keep:
`known` and `past` in `Clocks` (what happened before), `passed` and `place` in `DeltaLog`,
`base`, `applied`, `twice`, `rejected` in `Replication`, `tested`, `wrote`, `greeted`, `sent` in `Sender`, `entries` in `WireLog`,
`written`, `issued`, `dropped`, `restarted` and a call's `base` in `Registers`, `received`,
`added`, `raised` in `Counters`, `applied` in `Metrics`, `events`, `returned` in `Windows`, `atClose`, `overlap`, `lost`
in `Store`.

Operators whose comment begins "A mutation of" are wrong versions of the definition
that follows them. They are used by no specification; each is a plausible mistake
that some property must detect.

## What is checked

Runs that pass:

| Run | Shows |
|---|---|
| `Clocks` | `Causality`: a timestamp is after everything its node has known of since it was started, through any chain of messages. `ClockAdvances`: every `Now` and every accepted `Update` moves the clock strictly forward, and nothing else but a restart moves it. `DriftBounded`: a peer with a wrong clock cannot drag another further than the accepted offset. Three nodes, walls that jump both ways, offsets that change, restarts. |
| `DeltaLog` | `ReadsIntact`: reads return the bytes appended, of every entry that the buffer had room for and has not passed over since. `ReadsMakeProgress`: a read of retained entries is not empty, even if the first one exceeds the byte limit. `ReceivedAsLogged`: the peer applies each such entry as it was logged, although the encoding omits zero fields. `HandshakeAsSent`: a batch without a handshake is never taken for one with. `MsgsizeIsBound`: Append makes room for what is written. |
| `Replication` | `NoGap`: the cursor never passes an entry that is not handled, on its way, or overwritten, while handshakes move it, sends fail and connections are replaced. `AllDelivered`: under fairness every entry reaches the other node, if none is lost. |
| `ReplicationFailures` | `ImplementsDelivery`: the refinement, with broken connections, leaving and rejoining, and restarts after which peers still apply what was sent before. |
| `Sender` | `NoLostWakeup`: a waiting replicator has seen the log as it is. `NoConnLeak`: an open connection is in the client's map or in use. `HandshakeCarried`: every connection that was written to has carried a handshake once those who use it are done. `AllSent`: under fairness, while the peer is a member, the node is not closed and the peer reports no more than was sent to it, everything appended is written to a connection. |
| `Registers` | `ConvergesWithoutTies`: nodes given the same writes agree. `LaterCallWins`: a call overrides what its node held when it began. `DeletedStaysDeleted`: a tombstone holds off older writes for its grace period, a second less through restarts. `ScansAsSet`: what a node shows was given to a `Set`, and `GetScan` of a string, byte slice, struct or map gives the value that was set, on every node. `ExpiresEverywhere`: no node shows a value after its ttl of a millisecond or more. |
| `Counters` | `PartialsExact`: while no node has crashed, delivery of all entries leaves each node's exact count at the node, and at its peers the greatest that it announced, which is the exact one if nothing was decremented. `AggregateIsSum`, `NeverOvercounts` (`GetCount` is at most the sum of the increments): with a crash before and after flushes, and late entries of before, too. `MetricsAgree`: if each entry is delivered once, all nodes hold the same metrics. `MetricIsSum`, `AverageInRange`: the aggregates fit the parts, and count and sum each other, whatever is repeated or lost. |
| `Windows` | `NoDoubleCount`: no event is counted twice. |
| `Store` | `ChangesTracked`: no change of a register or counter that `load` can read back (`Durable`) is forgotten while the store is open, and load finds what flush wrote under the same name and in the same shard. `CloseKeepsIfAlone`: close persists what was written before it, if no flush of `flushLoop` overlaps it. `Flushed`: under fairness a write that stays in memory reaches the database. |

Runs that end in a counterexample state what a document, comment or test says and
show that the code does otherwise:

| Run | The code |
|---|---|
| `ReplicationLeave` | After a rejoin, sending resumes at the number last *received* (`capacitor.go:314`), and entries are skipped. |
| `ReplicationTwice` | A handshake makes entries be sent twice, and metrics are added twice (`capacitor.go:364`). |
| `WindowsUndercount` | The front of an unsorted list is cut off by number (`store.go:528`). |

### Where the properties stop

The conditions in the properties above are there because the code needs them. The
models contain the steps that break each property without its condition:

- Clocks: the int32 logical part wraps (`hlc.go:61`); the clock restarts
  from the wall (`hlc.go:38`), not from what was loaded, and may be behind the node's own
  writes, which `set` then prefers.
- Delta log: nothing makes the index forget what the byte ring has overwritten
  (`log.go:67`), and the ring's unused tail counts as passed, so a buffer with 256 bytes for
  each of `capacity` entries lets retained ones be overwritten; an entry larger than the
  buffer is recorded as if it were in it (`log.go:74`). The run has entries of both kinds;
  the properties speak of those that the ring still holds (`Held`).
- Replication: the cursor advances when the batch is in the send buffer
  (`capacitor.go:339`), and a connection that breaks loses it: `AllDelivered` is checked
  without broken connections, although `chaos_test.go` expects delivery through a network
  that drops them (a later handshake asks again, if there is one); after a restart peers
  report positions in the old log (`transport.go:118`), and still apply and record entries
  of it; a handshake moves a cursor back
  without waking the replicator, which then sleeps until the next write.
- Sender: the broadcasts of `stopPeerReplicator` and `Close` are made without the mutex
  (`capacitor.go:271`, `677`), so a replicator may miss them and stay asleep; a dial may end
  after `StreamClient.Close` and leave its connection in the map; with two replicators the
  handshake need not be in the first batch (`transport.go:251`), which a peer with a token
  refuses; `peerSeqs` that a leave deleted is stored again by the old replicator; a peer
  that reports a position beyond what was sent, as after a restart, holds back what is
  appended until the log has passed it (`AllSent` supposes it never does).
- Registers: with equal timestamps of two nodes each keeps its own value
  (`store.go:348`); the janitor forgets a tombstone's timestamp (`store.go:216`), and
  a later value that expires takes it along; a ttl below a millisecond is replicated as none
  (`capacitor.go:403`). Badger counts ttls in whole seconds, so a restart may lose the last
  second of a value or tombstone. A value of a type defined as a string or byte slice does
  not scan at a peer, where it is plain text that `GetScan` takes for an encoding
  (`capacitor.go:472`), and a map whose keys are no strings cannot be decoded into an `any`:
  the peer ignores the error and stores nil (`capacitor.go:358`), and `load` skips it.
- Counters: peers ignore a count that has decreased (`store.go:456`), so a negative
  delta stays local, although the comment at `capacitor.go:568` speaks of a PN-Counter; after a crash a node's own count is behind what its peers hold. A
  metric entry delivered twice is added twice (`capacitor.go:364`).
- Store: `close` does not wait for a flush of `flushLoop` (`store.go:583`); a failed commit
  is ignored and its keys are no longer dirty (`store.go:333`); peers' sequence numbers
  are marked dirty under another key than they are kept under (`store.go:595`); pruned
  windows stay in the database (`store.go:239`). `load` takes only the second segment of a
  counter's, metric's or window's key for its name (`store.go:122`): names with a colon, such as
  the `rate_limit:user_1` of `README.md:80`, come back under another name and shard, and a
  register whose key begins like one of theirs is taken for one of them. The run has a counter
  with a colon; the properties are about the keys in `Durable`.

### Bounds

- Clocks: three nodes, since a causal chain needs an intermediary; walls 1 and 3 with
  offsets 1 and 2, so that timestamps are accepted, at the boundary, and refused; five
  clock operations.
- Delta log: capacity 2 and 5 bytes for each, hence 10 bytes, and 5 appends: both rings
  wrap. The entries are operations that omit different fields; in the ring they take 1 to 11
  bytes: less than their share, more, and more than all of it, and some need less than they
  were given room for. Their real sizes, in which numbers and strings cross the limits of the short forms, are
  compared by `MsgsizeIsBound`, and proved for all entries.
- Replication: two nodes that replicate to each other. All state of a link belongs to
  its two ends and the opposite link, which the handshake ties to it; other links share
  only the log and its broadcasts. Either both write, so that handshakes and data cross,
  or one writes twice against capacity 1, so that the log forgets and a batch has one entry
  (the theorems cover longer ones); two connections per
  direction and one or two failures allow a replacement during a send. `NoGap` is
  proved without these bounds.
- Sender: two replicators, the first of which may be stopped at any point, one entry, and
  a peer that reports 0 or 1 at any time; one failure besides those that closed connections cause. Numbers of connections
  that are closed and forgotten are used again, so connections are not bounded. With two
  entries and positions up to 2 (7 million states, a quarter of an hour) everything holds too. The
  safety properties are proved without these bounds.
- Registers, Counters, Windows: two clients on one node, so that calls of one node
  interleave, and one on another; three or four calls; walls skewed by one unit, which
  is also the offset; one crash. A ttl that is cut to a whole number of milliseconds,
  one that is not, and one below a millisecond. The millisecond that ttls are cut to and
  the second that badger counts in are both two units of time, the grace period is three. Increments of 2 and decrements of 1. Deliveries are not bounded in number, except in Windows (two) and of
  metric entries that were already applied (one). The two clients of a counter's node are
  symmetric.
- Store: two shards, one key of each kind and a counter with a colon in its name, two writes: a second write after the
  first was taken and before it was committed. One restart and one failed commit. The
  segments of the keys hash so that a wrong one gives the other shard.

The behaviours are finite because calls and failures are counted, so they end, and the
configurations (except those of `Clocks`) do not check for deadlock.

### Fairness

`Replication` assumes weak fairness of each goroutine that can run (replicators and
handlers), of the network for what was written to a connection that does not break, and
of memberlist for the first join. A write is never owed, nor a connection's idleness. A
failed send is retried at once by the loop, and the number of failures is bounded.
`Sender` assumes weak fairness of each replicator and of callbacks and `Close` once they
have begun; the log's mutex is held for a bounded number of steps. `Store` assumes weak
fairness of `flushLoop`, whose ticker runs until `close`.

## What is proved

All theorems hold for every value of the constants that satisfies the named assumptions.

- **Clocks** (`ClocksProofs`, from lemmas on `Now`, `Update` and the order): `TypeCorrect`, `DriftIsBounded`, and, if fewer clock operations happen than an int32
  counts, `CausalityHolds` and `ClocksAdvance`. `Causality` alone is not inductive: it
  speaks of timestamps sent, and the next one depends on the clock. `CausalityInv` adds
  that a clock is at or after everything its node knows since it was started, and that no logical part
  exceeds the number of operations, which excludes the wrap.
- **Delta log** (`DeltaLogProofs`): `TypeCorrect`; `ReadsAreIntact`, for entries and buffers of
  any size. Two histories say what the ring still holds: `passed`, the bytes that were written
  or skipped so far, and `place`, how many there were before each entry. The invariant
  `DeltaLogInv` ties them to the offsets: an entry of the current lap lies below `bufHead`, an
  older one began at least a whole lap earlier (`Layout`), so that what is written next cannot
  touch an entry that has not been passed over (`Intact`). `MsgsizeBounds`: `Msgsize` is at least what
  `MarshalMsg` writes, for every entry, field by field; hence `SizesAreBounds`.
  `WireImplementsLog`: `WireLog` implements `DeltaLog`; hence `WireReadsAreIntact`, and, with
  the decoding of every operation's fields undoing their encoding, `EntriesReceivedAsLogged`
  for the entries that the ring held when they were read. `ReadsDoProgress` and
  `HandshakesAsSent` are about all.
- **Replication** (`ReplicationProofs`): `TypeCorrect` with every failure;
  `CursorLeavesNoGap`. What may become the cursor has to be covered too: the numbers a
  peer has recorded and the handshakes that carry them (`RecordsCovered`), the entries
  on their way, which the peer will record (`BatchesCovered`), and the batch a
  replicator holds (`JobsCovered`). `HandshakeFirst` explains why a missing cursor may
  be replaced by the number received: as long as there is none, nothing was received,
  because every connection begins with a handshake. That is what a leave breaks
  (`ReplicationLeave`). `Implements`: with every failure, each step is a step of `Delivery`
  or changes neither log nor `handled`. `log` is all that a node has ever logged, and `base` where its present
  log begins, so that the numbers of a batch refer to the log it was read from, also when its
  sender has restarted since. The invariant `OnlyLogged` says that what a replicator is about to
  send, is on its way, or is being applied, was logged by its origin, which is another node.
- **Sender** (`SenderProofs`): `NoWakeupIsLost`, `NoConnectionLeaks`, `HandshakesAreCarried`,
  `TypeCorrect`. The inductive invariant adds that a replicator which holds the mutex and is
  about to wait has seen the log as it is too (`WakeInv`), which connection a replicator
  holds at each point and whether others can know it (`ConnInv`), and that a connection with the flag set has carried a handshake or is held by the
  replicator whose batch does (`GreetInv`).
- **Registers** (`RegistersProofs`): `TypeCorrect`; `RegistersConverge` and `TombstonesProtect`, by
  the invariant `LastWriteWins`: a register holds the latest write its store was given unless
  a later entry was dropped, and a tombstone is dropped only when its time is over, or in its last second by a restart.
  That a decoded value decodes to itself lets a node's own write and its peers' copy be compared.
  `LaterCallsWin`, by the invariant `ClockInv`: the clock of a node that was not restarted is
  never behind what its store holds or is about to be given. It needs that fewer clock
  operations happen than an int32 counts. `ValuesScanAsSet` and `ValuesExpire`, by the invariant
  `Traced`: whatever is in a store, a log or on its way came from a call (`CameFrom`), through
  the two conversions of value and ttl that the code applies. They need no assumption on
  values or ttls: which types scan back and which ttls are meant is part of the properties.
- **Counters and metrics** (`MetricsProofs`), for the two together: `MetricTypeCorrect`;
  `AggregatesAreSums` and `MetricsAreSums` for any deltas and crashes; `PartialsAreExact` and
  `CountersNeverOvercount`, for any deltas, decrements too; `AveragesInRange` for a finite
  set of deltas, which has a least and a greatest; `MetricsDoAgree`. `CountersInv` says that a
  node's own count is in its log once its calls are over, that no count exceeds the increments
  (`raised`), and that a peer holds the greatest of those it has received; it holds until a node crashes (`InvUntilCrash`).
  `AllBounded` holds through crashes: no count of a node, in memory, on disk, in a log or about
  to be logged, exceeds the increments there. `PartialsWithin` bounds every part of a metric,
  on disk too. `MetricsExact` accounts for each metric until something is lost or repeated: a
  node's own is the sum of its log and of the calls that have not logged yet, a peer's the sum
  of the entries applied.
- **Windows** (`WindowsProofs`): `TypeCorrect`, `WindowsNeverOvercount`. The lists are not sorted,
  so a search may end before it comes to the timestamp it looks for. The invariant `Attributed`
  says that the elements of a list stand for different events that the node was given, and
  that an element which a search may miss stands for one that no peer can send: it is the
  node's own, put at the end after a later one. So what is inserted stands for an event
  without an element. `Numbered` and `Pending` keep the events of different calls apart.
- **Store** (`StoreProofs`): `TypeCorrect`; `ChangesAreTracked` and `CloseKeepsAll`, for any keys; the
  properties speak of those whose name `load` reads as it was and takes no other key for
  (`Durable`).
  `StoreInv` adds that a flush takes a key once and where its shard was visited (`TakenOnce`,
  `Phases`), that what a flush has taken is current or dirty again (`TakenCurrent`), and that
  what was in memory when `close` was called is in the database, in `close`'s batch, or dirty
  in a shard that it has yet to visit (`CloseSecures`).

An induction over data is an argument by a least counterexample: the library's induction
theorems take an operator as a parameter, which the provers cannot instantiate, but
well-foundedness of strict inclusion, and of `<`, gives a least finite set, or a least
number, for which a claim fails. The sums of `MetricsProofs` and the place of an insertion in
`WindowsProofs` rest on it.

Only model-checked: liveness (`AllDelivered`, `AllSent`, `Flushed`), since TLAPS has no support
here for fairness and `ENABLED`; and what the runs with counterexamples show. Every safety
property of a passing run is a theorem.

## Abstractions

- Replication: an entry is its number and operation; the size of a batch is any number
  up to the limit. A restart keeps the node's name and loses what is on its way to the node;
  what it had sent may still be received, or is lost by a `BreakConn` before the restart. `NotifyLeave` is one step, which may miss a replicator that is about to wait,
  and so are dial, handshake and write; `Sender` has their steps. The token check and TLS
  are left out.
- Sender: the log is its length and a batch its last entry; limits of a batch and
  overwritten entries are in `Replication`. A race on `handshakeDone` is a step between
  reading and writing it. The peer may report any position up to `MaxSeen`, at any
  time. A send takes less than the two minutes after which the janitor closes a connection.
- Wire: strings and byte slices are their lengths, floats integers. A message is the
  number of fields in its header and the fields themselves; a header that does not
  match its fields does not decode.
- Registers: a value is a Go type and what it is about; the types are those that differ
  in msgpack format, in whether they have one, in what an `any` is decoded to, or in the path
  that `GetScan` takes. A refused entry changes nothing. A
  restart follows a `Close` without an overlapping flush (`Store` has the other cases).
- Counters, Metrics: a flush and a crash are one step; `Store` has the flush in its steps.
  Float rounding is left out (counts are integers well below 2^53).
- Windows: events are known by the physical part of their timestamp, as in the code.
- Store: what a key holds is a set of versions. A key is a sequence of segments, and the
  hash any function of one; no register has the very key that flush writes something else
  under. A commit is one step, although badger may split a large `WriteBatch` over several
  transactions. Badger's own expiry is the same as `expired` here; `Registers` has its
  granularity of a second.

## Not modelled

- The metrics tracker (`metrics.go`): latency statistics that only `GetMetrics` shows. `Record`
  changes three fields one after the other and takes no lock, while `GetSummary` copies them,
  so a summary may mix moments; no document promises otherwise and no other part reads it.
- `New`: a sequence of calls; its error paths leave what was started running. The listener's
  accept loop, the buffer pool, the limit of 100 MB per connection, after which the handler
  stops as when a connection breaks.
- `Close` called twice, which panics.
- The unused `Message` of `types.go` and the generated methods that nothing calls; TLS, the
  token check, logging; memberlist, badger and the MessagePack libraries themselves beyond
  what the modules above say of them.

# Invar in TLA+

Invar is a Redis-compatible document store: a Tokio server that speaks RESP and
keeps its data in a transactional key/value engine, SlateDB over object storage
or Fjall on a local disk. This directory holds TLA+ models of the parts of it in
which concurrency, conflicts, expiry, timeouts and disconnects decide whether it
is correct, the TLC runs that check them on small instances, and TLAPS proofs
about the store.

`PROJECT.json` maps every definition to the lines of code it models and lists
the runs, the mutants that show each property can fail, the hazards, the
findings and the theorems. Paths below are relative to `src/src/`.

## The system and its parts

| part | code | state | operations | modelled by |
|---|---|---|---|---|
| store | `kv/kv.rs`, `fjall.rs`, `slate.rs` | entries with expiry, open transactions | begin, get, set, set keeping the TTL, delete, commit, discard, destroy, drop_prefix | `Kv` |
| dispatcher | `redis/common/session.rs`, `commands.rs` | queue, MULTI/WATCH state of a session | MULTI, EXEC, DISCARD, WATCH, UNWATCH, any command, FLUSHALL | `Session` |
| versions and flush epoch | `redis/common/registry.rs` | a counter per key, one epoch | bump, read | `Session` |
| blocked clients | `redis/common/registry.rs` | a queue of waiters per key, a channel per waiter | register, claim, wake, release, remove, signal streams | `WaitRegistry` |
| blocking pops | `redis/zset.rs`, `listener.rs` | | BZPOPMIN, BZPOPMAX, ZADD, timeout, disconnect | `ZPop` |
| blocking stream reads | `redis/stream.rs`, `script.rs` | | XREAD BLOCK, XADD, XADD in a script, timeout | `XRead` |
| publish/subscribe | `redis/pubsub.rs`, `listener.rs` | senders per channel and pattern, receivers | SUBSCRIBE, UNSUBSCRIBE, PUBLISH, delivery, lag, disconnect | `PubSub` |
| string and key commands | `redis/strings.rs`, `keys.rs` | typed keys with a TTL | SET and its options, GETSET, SETNX, MSET, MSETNX, APPEND, SETRANGE, INCR, INCRBYFLOAT, GETDEL, GETEX, DEL, RENAME, RENAMENX, MOVE, EXPIRE, PERSIST, FLUSHDB | `Keys` |
| hashes and sets | `redis/hash.rs`, `set.rs` | a sentinel with the count, elements under a prefix | HSET, HSETNX, HINCRBY, HDEL, SADD, SREM, SPOP, SMOVE, the STORE commands, reads | `Compound` |
| namespaces | `redis/common/namespace.rs` | the prefix a sentinel records | resolve, create, re-key, rewrite | `Namespace` |
| scripts | `redis/script.rs` | | EVAL | `Session`, `XRead` (what differs from plain commands) |
| lists, sorted sets, stream entries, JSON | `redis/*.rs` | a sentinel and elements under a prefix | some hundred commands | not yet |
| sketches, patterns, RESP | `hll.rs`, `bloom.rs`, `pattern.rs`, `resp.rs` | | pure algorithms | not yet |
| WAIT and durability | `conn.rs`, `slate.rs` | write handles | WAIT, await_until | not yet |
| listener, TLS, metrics, start-up | `listener.rs`, `server.rs`, `main.rs` | sockets | input and output | no |

How they interact: every connection is a task with a `Session`. A command is
parsed into a `QueuedOp`: a database half that runs inside a store transaction,
a wire half that renders the reply after the commit, whether it mutates, and
the keys it touches. Outside MULTI a command is a batch of its own; EXEC runs
the queue as one batch. `dispatch_pending_ops` begins a transaction, performs
the WATCH pre-check, runs every database half, commits, retries on conflict,
bumps the versions of the declared keys, and only then lets the wire halves
reply, wake blocked clients or publish. Tasks interleave at every await.

## What makes it hard

- Two copies of the truth. WATCH is checked against version counters in memory,
  the data lives in the store, and the counters move after the commit.
- Two backends with different promises. Fjall is always serializable but its
  `destroy` bypasses the transaction layer; SlateDB offers snapshot isolation
  unless asked for more, and stamps expiries at commit.
- Expiry is wall-clock state, outside of every snapshot.
- A blocked client is served by the transaction of somebody else, which may
  conflict, be retried, or fail, while the client times out or hangs up.
- A compound value is many entries. Its type, count and the address of its
  elements are in one of them, which can expire, be overwritten, renamed or moved
  without the others.
- Registries shared by all tasks are locked per call, not per operation.

`hazards` in `PROJECT.json` lists each place, with the properties that watch it.

## The models

**`Kv`** is the store behind the trait of `kv.rs`. A transaction is a record: the
snapshot taken at its begin, buffered writes, write set, read set (kept by
serializable transactions only), and `missed`, the keys others committed since. A commit
succeeds when neither its write set nor its read set meets `missed`. `now` is the
clock; an entry past its expiry is invisible to everybody. `KeepRead`/`KeepSet`
are the two clock reads of `set_keeping_ttl`. `Clear` is Fjall's `destroy`,
`DropScan`/`DropDelete` the scan-then-delete of `drop_prefix` and of SlateDB's
`destroy`. `backend` is chosen at start-up and never changes.

**`Session`** extends `Kv`: a session owns one transaction handle, and each await
of the dispatcher ends an action (`Attempt`, `Check`, `RunOp`, `CommitOk`, `Bump`,
`CommitRetry`, ...). Replies are left out; the ghost `acked` remembers which
commit of a key its client has been told of, `watched[s][k].since` and `.ep` the
commit and the flush epoch at which a key was recorded. The commands stand for
the ways commands behave: SET with a TTL reads its key and writes it; MSET writes
blindly; INCR reads, may fail, and keeps the TTL; DEL may write nothing; BITOP reads
a key it does not write; MOVE writes a key it does not declare; EVAL declares
nothing; GET does not write. Values are small numbers and the empty string, which INCR rejects.

**`AtomicKv`** is what the dispatcher promises: a block takes effect at one moment
between request and reply, or not at all. `Session!Atomic` is the refinement
mapping: the live values of the store, the queues of running batches, and
whether the batch has committed.

**`WaitRegistry`** holds the queues and channels and the registry's operations on
them, each of which runs under its mutex. **`ZPop`** adds clients and writers;
that two transactions on one sorted set conflict (both write its sentinel) is
taken from the store model as the flag `stale`. Elements are numbers ordered
like their scores. **`XRead`** adds stream readers and writers; a stream is the
number of its entries. The
two kinds of client are modelled apart.

**`PubSub`** keeps senders by number, so that a sender removed from the registry
and one created later under the same name differ; a receiver is a cursor into
what its sender sent. Unsubscribing takes three steps, as in the code: drop the receiver,
read the receiver count, remove the entry.

**`Namespace`**, **`Compound`** and **`Keys`** are the commands as operators, from
the store a command finds in its transaction to the store it leaves and whether
it failed. The store is `pub`, what every public key holds (type, count, recorded
prefix, whether it has a TTL), and `elt`, the elements: pairs of a prefix and a field. A
prefix is derived from a name (`kind` "-", data of releases before RFC 0001) or
carries a random id (`kind` "+"); random ids are taken to be unused ones. Values of fields and
strings are left out: where a command's outcome depends on one, whether it parses
as a number is a parameter. An order of steps that matters is kept: HSETNX,
HINCRBY and SMOVE write before they check the type.

**`Keyspace`** runs these commands. A command is one step, because its transaction
is (this is what `Kv` shows); a failed one changes nothing, except in EXEC, where its
writes stay. The passing of a deadline removes the public entry and nothing else.
FLUSHDB is not a transaction and takes three steps; each of its drops is one step here,
its scan and delete are apart in `Kv`. `setup` selects the situation: the
databases in use, the keys that hold hashes of an earlier release, the commands
clients send, whether they send them in MULTI, and whether FLUSHDB overlaps them.

**`RedisKeys`** is what clients are promised: a map from keys to values, each
command changing the keys it names. `Keyspace!Redis` maps a public entry and the elements
under its prefix to a value; that no command shows through to another key is the
substance of the refinement.

## Runs

Runs that pass:

| run | shows | distinct states |
|---|---|---|
| `kv_store` | no lost update, no stale serializable read, whole commits: two keys, mixed isolation, prefix drops | 504,101 |
| `kv_ttl` | both backends with the clock and Fjall's clear: types, snapshot currency, expiry kept by a rewrite | 125,626 |
| `session_watch` | Fjall: acknowledged writes have moved the version; a write during an EXEC is caught at commit | 1,014,635 |
| `session_flush` | both backends: FLUSHALL, DEL and expiry between WATCH and EXEC abort it | 1,357,442 |
| `session_atomic` | SlateDB: blocks of two commands with retries and flushes implement `AtomicKv` | 442,268 |
| `zpop_serve` | elements conserved, nobody forgotten, claims exclusive, order of arrival, no dead waiters | 1,022,992 |
| `xread_signal` | no missed entry; under fairness every entry ends the wait | 78,031 |
| `pubsub_cleanup` | cursors stay within what was sent; dead entries only after failed connections | 655,256 |
| `keyspace_types` | counts are sizes, values own their elements, no fields of dead values, leaks only by expiry and overwriting; the layout implements `RedisKeys`; SMOVE conserves | 12,473 |

Runs in which TLC finds the code to differ from what the repository says (the
quotes are in `findings`):

| run | the code |
|---|---|
| `session_undeclared` | a script's writes bump no version, so WATCH misses them |
| `zpop_gap` | a ZADD between BZPOPMIN's look and its registration is missed: the client blocks on a non-empty set |
| `keyspace_flush` | a HSET between two of FLUSHDB's drops keeps its sentinel and loses its fields |

Further limits that the properties spell out, each a behaviour of the code met
while modelling (see the notes in `hazards`): a write that is committed but whose
version is not yet bumped passes the pre-check; a watched key the queue does not
name is unprotected on SlateDB while the EXEC runs; an EXEC that ends early keeps
the WATCH set; a second WATCH hides an earlier flush; a key that expires between
the two halves of `set_keeping_ttl` becomes permanent; two waiters released by
one failed block swap places; a waiter released after its timeout waits on
without one; a waiter released after its client hung up stays queued; BZPOPMIN and
XREAD clients on one missing key share a queue, and a ZADD claims either;
`cleanup_channel` can remove the sender of a subscriber that has just arrived; a
failed HSETNX, HINCRBY or SMOVE inside EXEC leaves an uncounted element; SMOVE to a hash with a
field of the member's name drops the member; HGET finds fields of an expired
legacy hash; EXPIRE with a time that is not positive makes a key permanent.

### Bounds

Two transactions or sessions are enough for every pairwise race (a session can
watch, write and flush in turn), two keys for cross-key effects; `MaxSeq = 2`
allows the commit a transaction misses and its own. `session_flush` has one key
because with two a second WATCH hides the flush (above). `MaxVersion`, `MaxId`,
`MaxSender`, `MaxSent`, `MaxEntries` and `MaxNow` bound counters that only grow.
One client in `zpop_serve` may register while the other is claimed by a
writer that is itself overtaken by the second writer; `MaxAdds = 2` lets one
block claim both. `MaxId = 16` in `xread_signal` is never reached. In `PubSub` one PUBLISH runs at a
time; its sends still interleave with everything else. Symmetry is used where
the members of a set are interchangeable; never with the liveness property.

`keyspace_types` starts in one of four situations, because the product of all
commands, databases and legacy data is out of reach, and each situation is the
smallest in which a kind of mistake can happen: a legacy hash that is renamed,
overwritten, expires and is rebuilt; values moved between two databases; sets
with SMOVE, the STORE commands and strings; keys of all types with commands
in MULTI. Two names, two fields; `MaxId = 3` namespaces allow one for each name
and one left behind, and a command that may create a value is sent only while an
id is free. What the situations leave apart is in the list above: legacy
values that are moved, hashes as the target of SMOVE, and the three commands
that write before they check inside MULTI.

Two self-loops stand for the end of an instance so that a real deadlock would
still be reported: `Exhausted` in `ZPop` and `AllRead` in `XRead`.

### Fairness

Only `EntryEndsWait` needs it. `XReadFairSpec` asks weak fairness of a reader's own
steps (register, read, resume) and of `Notify`, the wire half that follows a
commit: both are steps of a task that is ready to run and waits for nothing but
the scheduler, which Tokio grants. Nothing is assumed of clients, of new
commands, of scripts, or of timeouts.

## Proofs

`KvProofs` proves for any sets of keys, values, handles and TTLs and for both
backends:

- `KvTypes`: `KvTypeOK` is invariant;
- `KvSnapshots`: `SnapshotCurrent` is invariant;
- `KvFirstCommitterWins`, `KvSerializableReads`, `KvAtomicApply`: the action
  properties of the same names.

The inductive invariant is `KvInv`: types, `SnapshotCurrent`, and `SeqBound` (no
entry is younger than the latest commit). The conflict check compares sets of
keys, while the guarantees are about values; `SnapshotCurrent` is the link:
a key not in `missed` holds what the snapshot holds. It is kept because the only
step that changes an entry without telling open transactions is Fjall's clear,
which the statement allows for. `SeqBound` is what makes "the entries of this
commit" a set that can be recognised by its number. The only assumption is
`KvAssumption` on the constants.

Not proved, model-checked only: everything about sessions, blocked clients,
streams, pub/sub and the keyspace, the refinements to `AtomicKv` and `RedisKeys`, expiry, and liveness (which is
out of the prover's reach).

## Assumptions about code outside the repository

- SlateDB and Fjall detect write-write conflicts, blind writes included, and
  (when serializable) read-write conflicts between overlapping transactions, and apply a commit atomically. The comments of
  `kv.rs` say so and the dispatcher relies on it.
- A Tokio oneshot channel delivers at most one message; a broadcast channel
  keeps the last `BROADCAST_CAPACITY` messages and reports lag.
- 128 random bits never repeat: a new namespace is one that nothing uses.
- Lua runs a script to completion on one thread.

## Not modelled

Replies and their wording, authentication, SELECT and client names; iterators
and scans of the store (a scan reads its keys at one moment); XREAD hang-ups (its
registration is dropped as in `HangUp`); a conflict reported by a command rather
than by the commit, except for FLUSHALL; a failing script's partial writes inside EXEC; PUBSUB's
queries; field and string values; scan cursors. Lists, sorted-set indexes, streams' ids, durability and the pure
algorithms are in the plan.

## Plan

1. Data types, on the store of `Namespace`: `List` (the linked nodes of `list.rs`: the
   chain agrees with head, tail and length), `ZSet` (the score and member indexes
   agree), `Stream` (XADD's id rules, trimming, last-id monotonicity), `Scan` (cursors of SCAN,
   HSCAN and SSCAN beside deletions), the composition of both kinds of blocked client.
2. `Durability`: WAIT, write handles, crash and restart. `Script`: several calls in one transaction, failures
   halfway, deferred claims, script cache.
3. Pure algorithms against reference definitions: glob matching, RESP framing, bit
   ranges, INCR at 64 bits, range index normalisation.
4. Proofs: `KeyspaceProofs` (`OwnElements` and `NoPhantomFields` for stores without
   legacy data, from the invariant that recorded prefixes are distinct
   namespaces), `SessionProofs` (`VersionsTrackWrites` and `AcknowledgedWritesAbort` for
   commands that declare what they write, from an invariant tying `wrote`,
   `acked` and `version`), `ZPop` (`NobodyForgotten`, `ClaimLeavesAllQueues`),
   `XRead` (`NoMissedEntry`), `PubSub` (`NoDeadEntries`), and the lemmas on the registry's
   queue operators they need.

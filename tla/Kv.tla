---------------------------------- MODULE Kv ----------------------------------
(***************************************************************************)
(* The transactional key/value store behind the Redis layer: the trait of  *)
(* src/kv/kv.rs with its two backends, SlateDB (slate.rs) and Fjall        *)
(* (fjall.rs).  A transaction reads a snapshot fixed at its begin overlaid *)
(* with its own buffered writes, and commits only when no key of its       *)
(* conflict set was committed by somebody else since.  The LSM engines are *)
(* external; what is modelled of them is what the wrappers rely on.        *)
(*                                                                         *)
(* Expiry is wall-clock state and not part of the snapshot: an entry past  *)
(* its expiry is invisible to every reader, open snapshots included.       *)
(***************************************************************************)
EXTENDS Integers

CONSTANTS
  Key,       \* storage keys
  Value,     \* values an entry can hold
  NoValue,   \* the value of a tombstone
  Tx,        \* transaction handles: one per connection task
  Backends,  \* the backends the server may be started with
  Ttl,       \* non-zero TTLs callers ask for
  MaxNow,    \* bound on the wall clock
  MaxSeq     \* bound on the number of committed writes

ASSUME KvAssumption ==
  /\ NoValue \notin Value
  /\ Backends \subseteq {"slate", "fjall"}
  /\ Ttl \subseteq Nat \ {0}
  /\ MaxNow \in Nat
  /\ MaxSeq \in Nat

VARIABLES
  store,     \* the latest committed entry of every key
  seq,       \* sequence number of the latest commit
  now,       \* the wall clock (now_millis)
  txs,       \* the transaction open under each handle
  scanned,   \* keys a drop_prefix/destroy has scanned and not yet deleted
  backend    \* the backend in use, chosen at start-up

kvVars == <<store, seq, now, txs, scanned, backend>>

Isolation == {"Snapshot", "SerializableSnapshot"}

\* A committed entry: its value, absolute expiry (0 = never) and commit.
Entry == [val: Value \cup {NoValue}, exp: Nat, seq: Nat]

\* A buffered write: `exp` is what reads of the same transaction see, `ttl`
\* the relative TTL handed to the engine.
Buffered == [val: Value \cup {NoValue}, exp: Nat, ttl: Nat]

Cleared == [val |-> NoValue, exp |-> 0, seq |-> 0]

TxRecord ==
  [open: BOOLEAN, iso: Isolation, snap: [Key -> Entry], buf: [Key -> Buffered],
   wset: SUBSET Key, rset: SUBSET Key, missed: SUBSET Key,
   held: SUBSET [key: Key, exp: Nat]]

\* Fjall ignores the requested isolation and is always serializable.
Effective(iso) == IF backend = "fjall" THEN "SerializableSnapshot" ELSE iso

NewTx(iso) ==
  [open |-> TRUE, iso |-> Effective(iso), snap |-> store,
   buf |-> [k \in Key |-> [val |-> NoValue, exp |-> 0, ttl |-> 0]],
   wset |-> {}, rset |-> {}, missed |-> {}, held |-> {}]

ClosedTx ==
  [open |-> FALSE, iso |-> "Snapshot", snap |-> [k \in Key |-> Cleared],
   buf |-> [k \in Key |-> [val |-> NoValue, exp |-> 0, ttl |-> 0]],
   wset |-> {}, rset |-> {}, missed |-> {}, held |-> {}]

-------------------------------------------------------------------------------
(* Operations on one transaction.                                          *)

\* decode_item / Item::is_expired: an entry past its expiry is KeyNotFound.
Live(e) == e.val # NoValue /\ (e.exp = 0 \/ e.exp > now)

\* The entry the transaction sees under k: its own write, else the snapshot.
Seen(x, k) == IF k \in x.wset THEN [val |-> x.buf[k].val, exp |-> x.buf[k].exp]
              ELSE [val |-> x.snap[k].val, exp |-> x.snap[k].exp]

Exists(x, k) == Live(Seen(x, k))

\* Only a serializable transaction tracks what it reads.
Reading(x, K) ==
  IF x.iso = "SerializableSnapshot" THEN [x EXCEPT !.rset = @ \cup K] ELSE x

\* Tx::set: ttl 0 (Duration::ZERO) stores an entry that never expires.
Writing(x, k, v, ttl) ==
  [x EXCEPT !.wset = @ \cup {k},
            !.buf[k] = [val |-> v, ttl |-> ttl,
                        exp |-> IF ttl = 0 THEN 0 ELSE now + ttl]]

Deleting(x, k) == Writing(x, k, NoValue, 0)

\* Mutant: only reads are validated, so blind overwrites slip through.
ConflictSet_ReadsOnly(x) == x.rset

\* Mutant: the read set is never validated.
ConflictSet_WritesOnly(x) == x.wset

ConflictSet(x) == x.wset \cup x.rset

Conflicts(x) == ConflictSet(x) \cap x.missed # {}

\* SlateDB stamps the expiry when the write lands, Fjall when it is encoded.
Stamp(b) ==
  [val |-> b.val, seq |-> seq + 1,
   exp |-> IF backend = "slate" /\ b.ttl # 0 THEN now + b.ttl ELSE b.exp]

-------------------------------------------------------------------------------
KvInit ==
  /\ store = [k \in Key |-> Cleared]
  /\ seq = 0
  /\ now = 0
  /\ txs = [t \in Tx |-> ClosedTx]
  /\ scanned = [t \in Tx |-> {}]
  /\ backend \in Backends

\* A transaction runs one call at a time: none starts inside set_keeping_ttl.
Ready(t) == txs[t].open /\ txs[t].held = {}

Begin(t, iso) ==
  /\ ~txs[t].open
  /\ scanned[t] = {}
  /\ txs' = [txs EXCEPT ![t] = NewTx(iso)]
  /\ UNCHANGED <<store, seq, now, scanned, backend>>

Get(t, k) ==
  /\ Ready(t)
  /\ txs' = [txs EXCEPT ![t] = Reading(@, {k})]
  /\ UNCHANGED <<store, seq, now, scanned, backend>>

Set(t, k, v, ttl) ==
  /\ Ready(t)
  /\ txs' = [txs EXCEPT ![t] = Writing(@, k, v, ttl)]
  /\ UNCHANGED <<store, seq, now, scanned, backend>>

Delete(t, k) ==
  /\ Ready(t)
  /\ txs' = [txs EXCEPT ![t] = Deleting(@, k)]
  /\ UNCHANGED <<store, seq, now, scanned, backend>>

\* Mutant: own writes read back without their expiry (no pending_expiry map).
KeepRead_NoPending(t, k) ==
  /\ Ready(t)
  /\ LET item == [key |-> k,
                  exp |-> IF Exists(txs[t], k) /\ k \notin txs[t].wset
                          THEN txs[t].snap[k].exp ELSE 0]
     IN  txs' = [txs EXCEPT ![t] = [Reading(@, {k}) EXCEPT !.held = {item}]]
  /\ UNCHANGED <<store, seq, now, scanned, backend>>

\* set_keeping_ttl, first half: read the entry whose TTL is to be kept.  An
\* absent or expired entry has none.
KeepRead(t, k) ==
  /\ Ready(t)
  /\ LET item == [key |-> k,
                  exp |-> IF Exists(txs[t], k) THEN Seen(txs[t], k).exp ELSE 0]
     IN  txs' = [txs EXCEPT ![t] = [Reading(@, {k}) EXCEPT !.held = {item}]]
  /\ UNCHANGED <<store, seq, now, scanned, backend>>

\* Mutant: the time left is not clamped at zero.
Remaining_Unclamped(exp) == exp - now

\* Item::ttl: the time left, read from the clock again, never negative.
Remaining(exp) == IF exp > now THEN exp - now ELSE 0

\* set_keeping_ttl, second half: write with the remaining TTL of that item.
KeepSet(t, v) ==
  /\ txs[t].open
  /\ \E item \in txs[t].held :
       LET ttl == IF item.exp = 0 THEN 0 ELSE Remaining(item.exp)
       IN  txs' = [txs EXCEPT ![t] =
                     [Writing(@, item.key, v, ttl) EXCEPT !.held = {}]]
  /\ UNCHANGED <<store, seq, now, scanned, backend>>

\* Mutant: nobody is told what was written.
Closing_Silent(t, written) == [txs EXCEPT ![t] = ClosedTx]

\* Every other open transaction now misses what this one wrote.
Closing(t, written) ==
  [u \in Tx |-> IF u = t THEN ClosedTx
                ELSE IF txs[u].open
                     THEN [txs[u] EXCEPT !.missed = @ \cup written]
                     ELSE txs[u]]

\* Mutant: the writes land one subset at a time.
Commit_Torn(t) ==
  /\ Ready(t)
  /\ seq < MaxSeq
  /\ ~Conflicts(txs[t])
  /\ \E K \in SUBSET txs[t].wset \ {{}} :
       store' = [k \in Key |-> IF k \in K THEN Stamp(txs[t].buf[k]) ELSE store[k]]
  /\ seq' = seq + 1
  /\ txs' = Closing(t, txs[t].wset)
  /\ UNCHANGED <<now, scanned, backend>>

Commit(t) ==
  /\ Ready(t)
  /\ seq < MaxSeq
  /\ txs[t].wset # {}
  /\ ~Conflicts(txs[t])
  /\ store' = [k \in Key |-> IF k \in txs[t].wset THEN Stamp(txs[t].buf[k])
                             ELSE store[k]]
  /\ seq' = seq + 1
  /\ txs' = Closing(t, txs[t].wset)
  /\ UNCHANGED <<now, scanned, backend>>

\* A commit with nothing to write succeeds without a new sequence number.
CommitReadOnly(t) ==
  /\ Ready(t)
  /\ txs[t].wset = {}
  /\ txs' = Closing(t, {})
  /\ UNCHANGED <<store, seq, now, scanned, backend>>

CommitConflict(t) ==
  /\ Ready(t)
  /\ Conflicts(txs[t])
  /\ txs' = Closing(t, {})
  /\ UNCHANGED <<store, seq, now, scanned, backend>>

\* Discard, and every commit that fails for another reason: nothing applies.
Discard(t) ==
  /\ Ready(t)
  /\ txs' = Closing(t, {})
  /\ UNCHANGED <<store, seq, now, scanned, backend>>

\* Fjall's destroy clears the keyspace underneath the transaction layer, so
\* open transactions are not told about it.
Clear ==
  /\ backend = "fjall"
  /\ store' = [k \in Key |-> Cleared]
  /\ UNCHANGED <<seq, now, txs, scanned, backend>>

\* drop_prefix (and SlateDB's destroy): scan outside any transaction ...
DropScan(t, K) ==
  /\ ~txs[t].open
  /\ scanned[t] = {}
  /\ scanned' = [scanned EXCEPT ![t] = {k \in K : store[k].val # NoValue}]
  /\ UNCHANGED <<store, seq, now, txs, backend>>

\* ... then delete what was scanned in a transaction of its own.
DropDelete(t) ==
  /\ scanned[t] # {}
  /\ ~txs[t].open
  /\ txs' = [txs EXCEPT ![t] = [NewTx("Snapshot") EXCEPT !.wset = scanned[t]]]
  /\ scanned' = [scanned EXCEPT ![t] = {}]
  /\ UNCHANGED <<store, seq, now, backend>>

Tick ==
  /\ now < MaxNow
  /\ now' = now + 1
  /\ UNCHANGED <<store, seq, txs, scanned, backend>>

TxStep(t) ==
  \/ \E iso \in Isolation : Begin(t, iso)
  \/ \E k \in Key : Get(t, k)
  \/ \E k \in Key, v \in Value, ttl \in Ttl \cup {0} : Set(t, k, v, ttl)
  \/ \E k \in Key : Delete(t, k)
  \/ \E k \in Key : KeepRead(t, k)
  \/ \E v \in Value : KeepSet(t, v)
  \/ Commit(t)
  \/ CommitReadOnly(t)
  \/ CommitConflict(t)
  \/ Discard(t)
  \/ DropScan(t, Key)
  \/ DropDelete(t)

KvNext == Tick \/ Clear \/ \E t \in Tx : TxStep(t)

KvSpec == KvInit /\ [][KvNext]_kvVars
-------------------------------------------------------------------------------
(* Properties.                                                             *)

\* Every variable keeps its shape: entries, buffered writes and the read,
\* write and missed sets of the backends' transactions.
KvTypeOK ==
  /\ store \in [Key -> Entry]
  /\ seq \in Nat
  /\ now \in Nat
  /\ txs \in [Tx -> TxRecord]
  /\ scanned \in [Tx -> SUBSET Key]
  /\ backend \in Backends

\* A key an open transaction has not been told about still holds what its
\* snapshot holds, unless Fjall's destroy cleared it underneath.  This is what
\* makes the conflict check of both backends' commits sufficient.
SnapshotCurrent ==
  \A t \in Tx : txs[t].open =>
    \A k \in Key \ txs[t].missed : store[k] \in {txs[t].snap[k], Cleared}

\* This step commits t's writes.
Commits(t) == seq' # seq /\ txs[t].open /\ ~txs'[t].open

NoLostUpdate(t) ==
  Commits(t) => \A k \in txs[t].wset : store[k] \in {txs[t].snap[k], Cleared}

ReadsHold(t) ==
  Commits(t) /\ txs[t].iso = "SerializableSnapshot" =>
    \A k \in txs[t].rset : store[k] \in {txs[t].snap[k], Cleared}

AllOrNothing ==
  store' # store =>
    \/ store' = [k \in Key |-> Cleared]
    \/ \E t \in Tx : /\ Commits(t)
                     /\ {k \in Key : store'[k].seq = seq'} = txs[t].wset
                     /\ \A k \in Key \ txs[t].wset : store'[k] = store[k]

\* kv.rs: of two concurrent transactions that write the same key only one
\* commits.  A committed write replaces the very version its transaction had
\* in its snapshot, so no update in between is lost.
FirstCommitterWins == [][\A t \in Tx : NoLostUpdate(t)]_kvVars

\* TxIsolation::SerializableSnapshot (and every Fjall transaction): when such a
\* transaction's writes land, everything it read is still what it read.
SerializableReads == [][\A t \in Tx : ReadsHold(t)]_kvVars

\* kv.rs: a transaction's writes apply as one unit or not at all: a step
\* either changes no entry, clears all of them, or lands one transaction's
\* whole write set under one sequence number.
AtomicApply == [][AllOrNothing]_kvVars

\* set_keeping_ttl: rewriting a key that is still alive keeps its expiry to
\* the millisecond, also when the transaction wrote the key before (SlateTx's
\* pending_expiry exists for this).
RewriteKeepsLiveExpiry ==
  [][\A t \in Tx : \A item \in txs[t].held :
       (txs'[t].held = {} /\ Exists(txs[t], item.key)) =>
         Seen(txs'[t], item.key).exp = Seen(txs[t], item.key).exp]_kvVars
===============================================================================

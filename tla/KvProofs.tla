------------------------------- MODULE KvProofs -------------------------------
(***************************************************************************)
(* What the store guarantees for any number of keys, values, transactions  *)
(* and for either backend.  The argument is one inductive invariant: a key *)
(* an open transaction was not told about still holds its snapshot's       *)
(* version (SnapshotCurrent), and no entry is younger than the latest      *)
(* commit (SeqBound).                                                      *)
(***************************************************************************)
EXTENDS Kv, TLAPS

\* No entry carries a sequence number from the future.
SeqBound == \A k \in Key : store[k].seq <= seq

KvInv == KvTypeOK /\ SnapshotCurrent /\ SeqBound

\* A transaction begun with any isolation is a well-formed record.
LEMMA NewTxType ==
  ASSUME KvTypeOK, NEW iso \in Isolation
  PROVE  NewTx(iso) \in TxRecord
BY KvAssumption
   DEF KvTypeOK, NewTx, TxRecord, Isolation, Effective, Buffered, Entry

\* So is the record of a handle with no transaction.
LEMMA ClosedTxType == ClosedTx \in TxRecord
BY DEF ClosedTx, TxRecord, Isolation, Buffered, Entry, Cleared

\* A buffered write keeps the record well-formed.
LEMMA WritingType ==
  ASSUME NEW x \in TxRecord, NEW k \in Key, NEW v \in Value \cup {NoValue},
         NEW ttl \in Nat, now \in Nat
  PROVE  Writing(x, k, v, ttl) \in TxRecord
<1> DEFINE b == [val |-> v, ttl |-> ttl, exp |-> IF ttl = 0 THEN 0 ELSE now + ttl]
<1>1. b \in Buffered
  BY DEF Buffered
<1>2. [x.buf EXCEPT ![k] = b] \in [Key -> Buffered]
  BY <1>1 DEF TxRecord
<1> DEFINE y == [x EXCEPT !.wset = @ \cup {k}]
<1>3. y \in TxRecord /\ y.buf = x.buf
  BY DEF TxRecord
<1>4. Writing(x, k, v, ttl) = [y EXCEPT !.buf = [x.buf EXCEPT ![k] = b]]
  BY DEF Writing, TxRecord
<1> HIDE DEF b, y
<1> QED
  BY <1>2, <1>3, <1>4 DEF TxRecord

\* Closing a transaction keeps every record well-formed.
LEMMA ClosingType ==
  ASSUME KvTypeOK, NEW t \in Tx, NEW written \in SUBSET Key
  PROVE  Closing(t, written) \in [Tx -> TxRecord]
<1>1. ASSUME NEW u \in Tx
      PROVE  [txs[u] EXCEPT !.missed = @ \cup written] \in TxRecord
  BY DEF KvTypeOK, TxRecord
<1> QED
  BY <1>1, ClosedTxType DEF Closing, KvTypeOK

\* Every step of a transaction handle keeps the types.
LEMMA TxStepType ==
  ASSUME KvTypeOK, NEW t \in Tx, TxStep(t)
  PROVE  KvTypeOK'
<1> USE DEF KvTypeOK
<1>1. CASE \E iso \in Isolation : Begin(t, iso)
  BY <1>1, NewTxType DEF Begin
<1>2. CASE \E k \in Key : Get(t, k)
  <2>1. PICK k \in Key : Get(t, k)
    BY <1>2
  <2>2. Reading(txs[t], {k}) \in TxRecord
    BY DEF Reading, TxRecord
  <2> QED
    BY <2>1, <2>2 DEF Get
<1>3. CASE \E k \in Key, v \in Value, ttl \in Ttl \cup {0} : Set(t, k, v, ttl)
  BY <1>3, WritingType, KvAssumption DEF Set
<1>4. CASE \E k \in Key : Delete(t, k)
  BY <1>4, WritingType DEF Delete, Deleting
<1>5. CASE \E k \in Key : KeepRead(t, k)
  <2>1. PICK k \in Key : KeepRead(t, k)
    BY <1>5
  <2> DEFINE item == [key |-> k, exp |-> IF Exists(txs[t], k)
                                         THEN Seen(txs[t], k).exp ELSE 0]
  <2>2. Seen(txs[t], k).exp \in Nat
    BY DEF Seen, TxRecord, Buffered, Entry
  <2>3. item \in [key: Key, exp: Nat]
    BY <2>2
  <2>4. [Reading(txs[t], {k}) EXCEPT !.held = {item}] \in TxRecord
    <3>1. Reading(txs[t], {k}) \in TxRecord
      BY DEF Reading, TxRecord
    <3> HIDE DEF item
    <3> QED
      BY <2>3, <3>1 DEF TxRecord
  <2> QED
    BY <2>1, <2>4 DEF KeepRead
<1>6. CASE \E v \in Value : KeepSet(t, v)
  <2>1. PICK v \in Value : KeepSet(t, v)
    BY <1>6
  <2>2. PICK item \in txs[t].held :
          txs' = [txs EXCEPT ![t] =
                    [Writing(@, item.key, v,
                             IF item.exp = 0 THEN 0 ELSE Remaining(item.exp))
                       EXCEPT !.held = {}]]
    BY <2>1 DEF KeepSet
  <2> DEFINE ttl == IF item.exp = 0 THEN 0 ELSE Remaining(item.exp)
  <2>3. item.key \in Key /\ ttl \in Nat
    BY DEF TxRecord, Remaining
  <2>4. Writing(txs[t], item.key, v, ttl) \in TxRecord
    BY <2>3, WritingType
  <2>5. [Writing(txs[t], item.key, v, ttl) EXCEPT !.held = {}] \in TxRecord
    BY <2>4 DEF TxRecord
  <2> QED
    BY <2>1, <2>2, <2>5 DEF KeepSet
<1>7. CASE Commit(t)
  <2>1. ASSUME NEW k \in Key
        PROVE  Stamp(txs[t].buf[k]) \in Entry
    BY DEF Stamp, TxRecord, Buffered, Entry
  <2>2. store' \in [Key -> Entry] /\ seq' \in Nat
    BY <1>7, <2>1 DEF Commit
  <2>3. txs' \in [Tx -> TxRecord]
    BY <1>7, ClosingType DEF Commit, TxRecord
  <2> QED
    BY <1>7, <2>2, <2>3 DEF Commit
<1>8. CASE CommitReadOnly(t) \/ CommitConflict(t) \/ Discard(t)
  BY <1>8, ClosingType DEF CommitReadOnly, CommitConflict, Discard
<1>9. CASE DropScan(t, Key)
  BY <1>9 DEF DropScan
<1>10. CASE DropDelete(t)
  <2>1. [NewTx("Snapshot") EXCEPT !.wset = scanned[t]] \in TxRecord
    BY NewTxType DEF TxRecord, Isolation
  <2> QED
    BY <1>10, <2>1 DEF DropDelete
<1> QED
  BY <1>1, <1>2, <1>3, <1>4, <1>5, <1>6, <1>7, <1>8, <1>9, <1>10 DEF TxStep

\* Every step of the store keeps the types.
LEMMA TypeStep == KvTypeOK /\ [KvNext]_kvVars => KvTypeOK'
<1> SUFFICES ASSUME KvTypeOK, [KvNext]_kvVars PROVE KvTypeOK'
  OBVIOUS
<1>1. CASE Tick
  BY <1>1 DEF Tick, KvTypeOK
<1>2. CASE Clear
  BY <1>2 DEF Clear, KvTypeOK, Cleared, Entry
<1>3. ASSUME NEW t \in Tx, TxStep(t) PROVE KvTypeOK'
  BY <1>3, TxStepType
<1>4. CASE UNCHANGED kvVars
  BY <1>4 DEF kvVars, KvTypeOK
<1> QED
  BY <1>1, <1>2, <1>3, <1>4 DEF KvNext

\* A step that leaves the store alone keeps SnapshotCurrent when every open
\* transaction has just taken its snapshot or kept it and forgot no miss.
LEMMA QuietStep ==
  ASSUME SnapshotCurrent, store' = store,
         \A u \in Tx : \/ ~txs'[u].open
                       \/ txs'[u].snap = store
                       \/ /\ txs[u].open
                          /\ txs'[u].snap = txs[u].snap
                          /\ txs[u].missed \subseteq txs'[u].missed
  PROVE  SnapshotCurrent'
BY DEF SnapshotCurrent

\* Every step of a transaction handle keeps SnapshotCurrent: only Commit
\* changes the store, and it tells every other open transaction.
LEMMA TxStepCurrent ==
  ASSUME KvTypeOK, SnapshotCurrent, NEW t \in Tx, TxStep(t)
  PROVE  SnapshotCurrent'
<1> USE DEF KvTypeOK
<1>1. CASE \E iso \in Isolation : Begin(t, iso)
  BY <1>1, QuietStep DEF Begin, NewTx, SnapshotCurrent
<1>2. CASE \E k \in Key : Get(t, k)
  BY <1>2 DEF Get, Reading, SnapshotCurrent, Ready, TxRecord
<1>3. CASE \E k \in Key, v \in Value, ttl \in Ttl \cup {0} : Set(t, k, v, ttl)
  BY <1>3 DEF Set, Writing, SnapshotCurrent, Ready, TxRecord
<1>4. CASE \E k \in Key : Delete(t, k)
  BY <1>4 DEF Delete, Deleting, Writing, SnapshotCurrent, Ready, TxRecord
<1>5. CASE \E k \in Key : KeepRead(t, k)
  BY <1>5 DEF KeepRead, Reading, SnapshotCurrent, Ready, TxRecord
<1>6. CASE \E v \in Value : KeepSet(t, v)
  BY <1>6 DEF KeepSet, Writing, SnapshotCurrent, TxRecord
<1>7. CASE Commit(t)
  <2> SUFFICES ASSUME NEW u \in Tx, txs'[u].open,
                      NEW k \in Key \ txs'[u].missed
               PROVE  store'[k] \in {txs'[u].snap[k], Cleared}
    BY DEF SnapshotCurrent
  <2>1. u # t /\ txs[u].open
    BY <1>7 DEF Commit, Closing, ClosedTx
  <2>2. /\ txs'[u].snap = txs[u].snap
        /\ txs'[u].missed = txs[u].missed \cup txs[t].wset
    BY <1>7, <2>1 DEF Commit, Closing, TxRecord
  <2>3. k \notin txs[t].wset /\ k \notin txs[u].missed
    BY <2>2
  <2> QED
    BY <1>7, <2>1, <2>2, <2>3 DEF Commit, SnapshotCurrent
<1>8. CASE CommitReadOnly(t) \/ CommitConflict(t) \/ Discard(t)
  <2>1. store' = store /\ txs' = Closing(t, {})
    BY <1>8 DEF CommitReadOnly, CommitConflict, Discard
  <2> QED
    BY <2>1, QuietStep DEF Closing, ClosedTx, TxRecord
<1>9. CASE DropScan(t, Key)
  BY <1>9 DEF DropScan, SnapshotCurrent
<1>10. CASE DropDelete(t)
  BY <1>10, QuietStep DEF DropDelete, NewTx, SnapshotCurrent
<1> QED
  BY <1>1, <1>2, <1>3, <1>4, <1>5, <1>6, <1>7, <1>8, <1>9, <1>10 DEF TxStep

\* The inductive invariant holds initially ...
LEMMA InvInit == KvInit => KvInv
<1> SUFFICES ASSUME KvInit PROVE KvInv
  OBVIOUS
<1>1. KvTypeOK
  BY ClosedTxType DEF KvInit, KvTypeOK, Cleared, Entry
<1>2. SnapshotCurrent
  BY DEF KvInit, SnapshotCurrent, ClosedTx
<1>3. SeqBound
  <2> SUFFICES ASSUME NEW k \in Key PROVE store[k].seq <= seq
    BY DEF SeqBound
  <2>1. store[k].seq = 0 /\ seq = 0
    BY DEF KvInit, Cleared
  <2>2. 0 <= 0
    OBVIOUS
  <2> QED
    BY <2>1, <2>2
<1> QED
  BY <1>1, <1>2, <1>3 DEF KvInv

\* ... and every step keeps it.
LEMMA InvStep == KvInv /\ [KvNext]_kvVars => KvInv'
<1> SUFFICES ASSUME KvTypeOK, SnapshotCurrent, SeqBound, [KvNext]_kvVars
             PROVE  KvTypeOK' /\ SnapshotCurrent' /\ SeqBound'
  BY DEF KvInv
<1>1. KvTypeOK'
  BY TypeStep
<1>2. SnapshotCurrent'
  <2>1. CASE Tick
    BY <2>1 DEF Tick, SnapshotCurrent
  <2>2. CASE Clear
    BY <2>2 DEF Clear, SnapshotCurrent
  <2>3. ASSUME NEW t \in Tx, TxStep(t) PROVE SnapshotCurrent'
    BY <2>3, TxStepCurrent
  <2>4. CASE UNCHANGED kvVars
    BY <2>4 DEF kvVars, SnapshotCurrent
  <2> QED
    BY <2>1, <2>2, <2>3, <2>4 DEF KvNext
<1>3. SeqBound'
  <2>1. CASE Clear
    BY <2>1 DEF Clear, SeqBound, Cleared, KvTypeOK
  <2>2. ASSUME NEW t \in Tx, Commit(t) PROVE SeqBound'
    BY <2>2 DEF Commit, SeqBound, Stamp, KvTypeOK, Entry
  <2>3. CASE store' = store /\ seq' = seq
    BY <2>3 DEF SeqBound
  <2>4. ASSUME NEW t \in Tx, TxStep(t), ~Commit(t)
        PROVE  store' = store /\ seq' = seq
    BY <2>4 DEF TxStep, Begin, Get, Set, Delete, KeepRead, KeepSet,
                CommitReadOnly, CommitConflict, Discard, DropScan, DropDelete
  <2> QED
    BY <2>1, <2>2, <2>3, <2>4 DEF KvNext, Tick, kvVars
<1> QED
  BY <1>1, <1>2, <1>3

\* The inductive invariant of the store.
THEOREM KvInvariant == KvSpec => []KvInv
BY InvInit, InvStep, PTL DEF KvSpec

\* Types are kept by every operation of either backend.
THEOREM KvTypes == KvSpec => []KvTypeOK
BY KvInvariant, PTL DEF KvInv

\* Whatever an open transaction was not told about is unchanged since its
\* snapshot (or cleared underneath by Fjall's destroy).
THEOREM KvSnapshots == KvSpec => []SnapshotCurrent
BY KvInvariant, PTL DEF KvInv

\* Only Commit takes a sequence number.
LEMMA OnlyCommitCommits ==
  ASSUME KvTypeOK, [KvNext]_kvVars, NEW t \in Tx, Commits(t)
  PROVE  Commit(t)
<1>1. PICK u \in Tx : TxStep(u)
  BY DEF KvNext, Tick, Clear, kvVars, Commits
<1>2. Commit(u)
  BY <1>1 DEF TxStep, Begin, Get, Set, Delete, KeepRead, KeepSet, Commits,
              CommitReadOnly, CommitConflict, Discard, DropScan, DropDelete
<1>3. CASE u = t
  BY <1>2, <1>3
<1>4. CASE u # t
  <2>1. txs'[t] = [txs[t] EXCEPT !.missed = @ \cup txs[u].wset]
    BY <1>2, <1>4 DEF Commit, Closing, Commits
  <2>2. txs'[t].open
    BY <2>1 DEF Commits, KvTypeOK, TxRecord
  <2> QED
    BY <2>2 DEF Commits
<1> QED
  BY <1>3, <1>4

\* A commit has missed nothing in its conflict set, so SnapshotCurrent speaks
\* about all of it.
LEMMA CommitCurrent ==
  ASSUME KvInv, NEW t \in Tx, Commit(t), NEW k \in ConflictSet(txs[t])
  PROVE  store[k] \in {txs[t].snap[k], Cleared}
<1>1. k \in Key
  BY DEF ConflictSet, KvInv, KvTypeOK, TxRecord
<1>2. k \notin txs[t].missed
  BY DEF Commit, Conflicts
<1> QED
  BY <1>1, <1>2 DEF KvInv, SnapshotCurrent, Commit, Ready

\* Of two concurrent transactions that write the same key only one commits
\* (kv.rs), for any number of transactions and on both backends.
THEOREM KvFirstCommitterWins == KvSpec => FirstCommitterWins
<1>1. KvInv /\ [KvNext]_kvVars => [\A t \in Tx : NoLostUpdate(t)]_kvVars
  <2> SUFFICES ASSUME KvInv, [KvNext]_kvVars, NEW t \in Tx, Commits(t),
                      NEW k \in txs[t].wset
               PROVE  store[k] \in {txs[t].snap[k], Cleared}
    BY DEF NoLostUpdate
  <2> QED
    BY OnlyCommitCommits, CommitCurrent DEF KvInv, ConflictSet
<1> QED
  BY <1>1, KvInvariant, PTL DEF KvSpec, FirstCommitterWins

\* A serializable transaction commits only while everything it read is still
\* what it read.
THEOREM KvSerializableReads == KvSpec => SerializableReads
<1>1. KvInv /\ [KvNext]_kvVars => [\A t \in Tx : ReadsHold(t)]_kvVars
  <2> SUFFICES ASSUME KvInv, [KvNext]_kvVars, NEW t \in Tx, Commits(t),
                      txs[t].iso = "SerializableSnapshot", NEW k \in txs[t].rset
               PROVE  store[k] \in {txs[t].snap[k], Cleared}
    BY DEF ReadsHold
  <2> QED
    BY OnlyCommitCommits, CommitCurrent DEF KvInv, ConflictSet
<1> QED
  BY <1>1, KvInvariant, PTL DEF KvSpec, SerializableReads

\* Writes land as one unit under one sequence number, or not at all.
THEOREM KvAtomicApply == KvSpec => AtomicApply
<1>1. KvInv /\ [KvNext]_kvVars => [AllOrNothing]_kvVars
  <2> SUFFICES ASSUME KvInv, [KvNext]_kvVars, store' # store
               PROVE  AllOrNothing
    BY DEF AllOrNothing
  <2>1. CASE Clear
    BY <2>1 DEF Clear, AllOrNothing
  <2>2. ASSUME NEW t \in Tx, Commit(t) PROVE AllOrNothing
    <3>1. Commits(t)
      BY <2>2 DEF Commit, Commits, Closing, ClosedTx, Ready, KvInv, KvTypeOK
    <3>2. \A k \in Key \ txs[t].wset : store'[k] = store[k]
      BY <2>2 DEF Commit
    <3>3. ASSUME NEW k \in Key PROVE store'[k].seq = seq' <=> k \in txs[t].wset
      <4>1. CASE k \in txs[t].wset
        BY <2>2, <4>1 DEF Commit, Stamp
      <4>2. CASE k \notin txs[t].wset
        BY <2>2, <3>2, <4>2 DEF Commit, KvInv, SeqBound, KvTypeOK, Entry
      <4> QED
        BY <4>1, <4>2
    <3>4. txs[t].wset \subseteq Key
      BY DEF KvInv, KvTypeOK, TxRecord
    <3> QED
      BY <3>1, <3>2, <3>3, <3>4 DEF AllOrNothing
  <2>3. ASSUME NEW t \in Tx, TxStep(t), ~Commit(t) PROVE store' = store
    BY <2>3 DEF TxStep, Begin, Get, Set, Delete, KeepRead, KeepSet,
                CommitReadOnly, CommitConflict, Discard, DropScan, DropDelete
  <2> QED
    BY <2>1, <2>2, <2>3 DEF KvNext, Tick, kvVars
<1> QED
  BY <1>1, KvInvariant, PTL DEF KvSpec, AtomicApply
===============================================================================

------------------------------- MODULE Session -------------------------------
(***************************************************************************)
(* Client sessions: WATCH/MULTI/EXEC/DISCARD/UNWATCH (commands.rs,         *)
(* dispatch_noscript and enqueue_command), the dispatcher that runs a      *)
(* batch of queued commands in one store transaction                       *)
(* (Session::dispatch_pending_ops), FLUSHALL, and the registry's write     *)
(* versions and flush epoch (registry.rs).                                 *)
(*                                                                         *)
(* A session runs one command at a time and owns the transaction handle of *)
(* its name.  Sessions interleave wherever the dispatcher awaits: between  *)
(* begin, the WATCH pre-check, each queued command, the commit, and the    *)
(* version bump that follows the commit.  Replies are left out; what a     *)
(* reply tells the client is kept in the ghost `acked`.                    *)
(***************************************************************************)
EXTENDS Kv, Sequences

CONSTANTS
  Op,           \* the commands clients may send
  Watchers,     \* the sessions that use WATCH
  Empty,        \* the empty string: a value INCR cannot parse
  MaxQueue,     \* bound on the commands of one MULTI block
  MaxRetries,   \* conflict_retry_count
  MaxEpoch,     \* bound on the number of flushes
  MaxVersion    \* bound on the write versions: no batch starts at it

Kinds == {"get", "setex", "mset", "del", "incr", "bitop", "move", "eval"}

\* `other` is the source of BITOP and the target of MOVE.
OpRecord == [kind: Kinds, key: Key, other: Key]

ASSUME SessionAssumption ==
  /\ Op \subseteq OpRecord
  /\ Watchers \subseteq Tx
  /\ Empty \in Value
  /\ Value \ {Empty} \subseteq Nat
  /\ {0, 1} \subseteq Value
  /\ MaxQueue \in Nat
  /\ MaxRetries \in Nat
  /\ MaxEpoch \in Nat
  /\ MaxVersion \in Nat

VARIABLES
  pc,        \* where the session's task is
  multi,     \* in_multi
  dirty,     \* dirty_exec
  queue,     \* the queued commands
  batch,     \* whether the dispatcher runs an EXEC
  at,        \* the next queued command to run
  attempts,  \* conflict retries spent on this batch
  todo,      \* keys the running WATCH has still to record
  watched,   \* watched_keys: key -> recorded version, existence, and the
             \*   sequence number and flush epoch at that time (ghosts)
  wepoch,    \* watch_flush_epoch
  version,   \* the registry's write_versions
  epoch,     \* the registry's flush_epoch
  wrote,     \* ghost: the keys and number of the session's latest commit
  acked      \* ghost: number of the latest acknowledged write of each key

sVars == <<pc, multi, dirty, queue, batch, at, attempts, todo, watched, wepoch,
           version, epoch, wrote, acked>>
vars == <<kvVars, sVars>>

Unwatched == [k \in {} |-> 0]
WatchRecord == [ver: Nat, live: BOOLEAN, since: Nat, ep: Nat]

\* QueuedOp::is_mutating and QueuedOp::keys.  EVAL declares no keys; MOVE
\* declares its source only.
Mutating(op) == op.kind # "get"

\* Mutant: INCR forgets to declare its key.
KeysOf_NoIncr(op) == IF op.kind = "mset" THEN {op.key} ELSE {}

KeysOf(op) == CASE op.kind = "eval" -> {}
                [] op.kind = "bitop" -> {op.key, op.other}
                [] OTHER -> {op.key}

Touched(q) == UNION {KeysOf(q[i]) : i \in {j \in DOMAIN q : Mutating(q[j])}}

\* Session::needs_ssi: the queue names a watched key.
NeedsSsi(s) ==
  \E i \in DOMAIN queue[s] : KeysOf(queue[s][i]) \cap DOMAIN watched[s] # {}

Requested(s) == IF NeedsSsi(s) THEN "SerializableSnapshot" ELSE "Snapshot"

-------------------------------------------------------------------------------
(* The commands' database halves, on the transaction x.                    *)

\* INCR of a value that is no integer fails and writes nothing.
Fails(x, op) ==
  /\ op.kind \in {"incr", "eval"}
  /\ Exists(x, op.key)
  /\ Seen(x, op.key).val = Empty

KeepTtl(x, k) == LET e == Seen(x, k).exp IN IF e = 0 THEN 0 ELSE Remaining(e)

\* IncrementOp: an absent key starts at the amount, a present one keeps its TTL.
Incremented(x, k) ==
  IF Exists(x, k) THEN Writing(x, k, Seen(x, k).val + 1, KeepTtl(x, k))
  ELSE Writing(x, k, 1, 0)

\* MoveOp: only from an existing source to a free target.
Moved(x, from, to) ==
  IF Exists(x, from) /\ ~Exists(x, to)
  THEN Deleting(Writing(x, to, Seen(x, from).val, KeepTtl(x, from)), from)
  ELSE x

\* MSET writes blindly; MOVE looks at its target only if it has a source.
Reads(x, op) ==
  CASE op.kind = "mset" -> {}
    [] op.kind = "bitop" -> {op.other}
    [] op.kind = "move" -> {op.key} \cup IF Exists(x, op.key) THEN {op.other} ELSE {}
    [] OTHER -> {op.key}

\* SetOp and MSetOp store the value whatever was there; a TTL only if given.
Assigned(x, k, ttl) == Writing(x, k, 0, ttl)

\* DelOp: only an existing key is deleted.
Deleted(x, k) == IF Exists(x, k) THEN Deleting(x, k) ELSE x

\* BitOpOp with one source: a missing one leaves the empty string, no TTL.
Combined(x, dest, source) ==
  Writing(x, dest, IF Exists(x, source) THEN Seen(x, source).val ELSE Empty, 0)

RunDb(tx, op) ==
  LET x == Reading(tx, Reads(tx, op)) IN
  CASE op.kind = "get" \/ Fails(x, op) -> x
    [] op.kind = "mset" -> Assigned(x, op.key, 0)
    [] op.kind = "setex" -> Assigned(x, op.key, 1)
    [] op.kind = "del" -> Deleted(x, op.key)
    [] op.kind = "bitop" -> Combined(x, op.key, op.other)
    [] op.kind = "move" -> Moved(x, op.key, op.other)
    [] OTHER -> Incremented(x, op.key)

-------------------------------------------------------------------------------
SessionInit ==
  /\ KvInit
  /\ pc = [s \in Tx |-> "idle"]
  /\ multi = [s \in Tx |-> FALSE]
  /\ dirty = [s \in Tx |-> FALSE]
  /\ queue = [s \in Tx |-> <<>>]
  /\ batch = [s \in Tx |-> FALSE]
  /\ at = [s \in Tx |-> 1]
  /\ attempts = [s \in Tx |-> 0]
  /\ todo = [s \in Tx |-> {}]
  /\ watched = [s \in Tx |-> Unwatched]
  /\ wepoch = [s \in Tx |-> 0]
  /\ version = [k \in Key |-> 0]
  /\ epoch = 0
  /\ wrote = [s \in Tx |-> [keys |-> {}, seq |-> 0]]
  /\ acked = [k \in Key |-> 0]

Bounded == \A k \in Key : version[k] < MaxVersion

Goto(s, from, to) == pc[s] = from /\ pc' = [pc EXCEPT ![s] = to]

\* The batch is over: the queue is dropped and the dispatcher returns.
EndBatch(s) ==
  /\ queue' = [queue EXCEPT ![s] = <<>>]
  /\ batch' = [batch EXCEPT ![s] = FALSE]
  /\ at' = [at EXCEPT ![s] = 1]
  /\ attempts' = [attempts EXCEPT ![s] = 0]

ForgetWatch(s) == watched' = [watched EXCEPT ![s] = Unwatched]

\* What only the dispatcher, only the registry, and only WATCH/EXEC change.
runVars == <<queue, batch, at, attempts>>
regVars == <<version, epoch, acked>>
blockVars == <<multi, dirty, todo, watched, wepoch>>

-------------------------------------------------------------------------------
(* Commands that only change the session.                                  *)

Idle(s) == pc[s] = "idle"

\* MULTI.
EnterMulti(s) ==
  /\ Idle(s)
  /\ ~multi[s]
  /\ multi' = [multi EXCEPT ![s] = TRUE]
  /\ dirty' = [dirty EXCEPT ![s] = FALSE]
  /\ UNCHANGED <<kvVars, pc, runVars, todo, watched, wepoch, regVars, wrote>>

\* A command inside MULTI is queued.
Enqueue(s, op) ==
  /\ Idle(s)
  /\ multi[s]
  /\ Len(queue[s]) < MaxQueue
  /\ queue' = [queue EXCEPT ![s] = Append(@, op)]
  /\ UNCHANGED <<kvVars, pc, batch, at, attempts, blockVars, regVars, wrote>>

\* A command that fails to parse, or is not allowed inside MULTI (FLUSHALL).
Reject(s) ==
  /\ Idle(s)
  /\ multi[s]
  /\ dirty' = [dirty EXCEPT ![s] = TRUE]
  /\ UNCHANGED <<kvVars, pc, runVars, multi, todo, watched, wepoch, regVars, wrote>>

\* DISCARD.
DiscardMulti(s) ==
  /\ Idle(s)
  /\ multi[s]
  /\ multi' = [multi EXCEPT ![s] = FALSE]
  /\ dirty' = [dirty EXCEPT ![s] = FALSE]
  /\ queue' = [queue EXCEPT ![s] = <<>>]
  /\ ForgetWatch(s)
  /\ UNCHANGED <<kvVars, pc, batch, at, attempts, todo, wepoch, regVars, wrote>>

\* UNWATCH runs at once, also inside MULTI.
Unwatch(s) ==
  /\ Idle(s)
  /\ ForgetWatch(s)
  /\ UNCHANGED <<kvVars, pc, runVars, multi, dirty, todo, wepoch, regVars, wrote>>

\* WATCH, snapshot_and_watch: the flush epoch and a snapshot first (none when
\* the store cannot begin a transaction) ...
WatchBegin(s, K) ==
  /\ Goto(s, "idle", "watch")
  /\ s \in Watchers
  /\ ~multi[s]
  /\ K # {}
  /\ wepoch' = [wepoch EXCEPT ![s] = epoch]
  /\ todo' = [todo EXCEPT ![s] = K]
  /\ \/ Begin(s, "Snapshot")
     \/ UNCHANGED kvVars
  /\ UNCHANGED <<runVars, multi, dirty, watched, regVars, wrote>>

\* ... then every key's write version, and its existence in that snapshot.
\* Watching a key again overwrites what was recorded.
WatchKey(s, k) ==
  /\ pc[s] = "watch"
  /\ k \in todo[s]
  /\ LET rec == [ver |-> version[k], since |-> seq, ep |-> epoch,
                 live |-> txs[s].open /\ Exists(txs[s], k)]
     IN  watched' = [watched EXCEPT ![s] =
           [j \in DOMAIN @ \cup {k} |-> IF j = k THEN rec ELSE @[j]]]
  /\ todo' = [todo EXCEPT ![s] = @ \ {k}]
  /\ IF todo[s] = {k}
     THEN /\ pc' = [pc EXCEPT ![s] = "idle"]
          /\ txs' = Closing(s, {})
     ELSE UNCHANGED <<pc, txs>>
  /\ UNCHANGED <<store, seq, now, scanned, backend, runVars, multi, dirty, wepoch,
                 regVars, wrote>>

-------------------------------------------------------------------------------
(* The dispatcher.                                                         *)

\* A command outside MULTI is a batch of its own.
Command(s, op) ==
  /\ Goto(s, "idle", "begin")
  /\ Bounded
  /\ ~multi[s]
  /\ queue' = [queue EXCEPT ![s] = <<op>>]
  /\ UNCHANGED <<kvVars, batch, at, attempts, blockVars, regVars, wrote>>

\* EXEC after a command failed to queue: EXECABORT.
ExecDirty(s) ==
  /\ Idle(s)
  /\ multi[s]
  /\ dirty[s]
  /\ multi' = [multi EXCEPT ![s] = FALSE]
  /\ dirty' = [dirty EXCEPT ![s] = FALSE]
  /\ queue' = [queue EXCEPT ![s] = <<>>]
  /\ ForgetWatch(s)
  /\ UNCHANGED <<kvVars, pc, batch, at, attempts, todo, wepoch, regVars, wrote>>

\* EXEC with nothing queued replies an empty array and keeps the WATCH set.
ExecEmpty(s) ==
  /\ Idle(s)
  /\ multi[s]
  /\ ~dirty[s]
  /\ queue[s] = <<>>
  /\ multi' = [multi EXCEPT ![s] = FALSE]
  /\ UNCHANGED <<kvVars, pc, runVars, dirty, todo, watched, wepoch, regVars, wrote>>

Exec(s) ==
  /\ Goto(s, "idle", "begin")
  /\ Bounded
  /\ multi[s]
  /\ ~dirty[s]
  /\ queue[s] # <<>>
  /\ multi' = [multi EXCEPT ![s] = FALSE]
  /\ batch' = [batch EXCEPT ![s] = TRUE]
  /\ UNCHANGED <<kvVars, queue, at, attempts, dirty, todo, watched, wepoch,
                 regVars, wrote>>

Attempt(s) ==
  /\ Goto(s, "begin", "check")
  /\ Begin(s, Requested(s))
  /\ UNCHANGED <<runVars, blockVars, regVars, wrote>>

\* The store cannot begin a transaction: an error reply, the WATCH set stays.
AttemptFails(s) ==
  /\ Goto(s, "begin", "idle")
  /\ EndBatch(s)
  /\ UNCHANGED <<kvVars, blockVars, regVars, wrote>>

\* Mutant: EXEC compares existence only, so a rewritten key goes unnoticed.
Intact_ExistenceOnly(s) ==
  \A k \in DOMAIN watched[s] : Exists(txs[s], k) <=> watched[s][k].live

\* Mutant: EXEC does not look at the flush epoch.
Intact_NoEpoch(s) ==
  \A k \in DOMAIN watched[s] :
    /\ version[k] = watched[s][k].ver
    /\ Exists(txs[s], k) <=> watched[s][k].live

\* The WATCH pre-check of an EXEC: flush epoch, write versions, existence.
Intact(s) ==
  /\ epoch = wepoch[s]
  /\ \A k \in DOMAIN watched[s] :
       /\ version[k] = watched[s][k].ver
       /\ Exists(txs[s], k) <=> watched[s][k].live

Guarded(s) == batch[s] /\ watched[s] # Unwatched

\* Mutant: the pre-check reads outside the transaction.
Check_NoReadSet(s) ==
  /\ Goto(s, "check", "run")
  /\ Guarded(s) => Intact(s)
  /\ UNCHANGED <<kvVars, runVars, blockVars, regVars, wrote>>

\* Passing the check also puts the watched keys in the read set.
Check(s) ==
  /\ Goto(s, "check", "run")
  /\ Guarded(s) => Intact(s)
  /\ txs' = [txs EXCEPT ![s] =
               Reading(@, IF Guarded(s) THEN DOMAIN watched[s] ELSE {})]
  /\ UNCHANGED <<store, seq, now, scanned, backend, runVars, blockVars, regVars, wrote>>

\* A watched key changed, or could not be read: EXEC replies nil.
CheckNil(s) ==
  /\ Goto(s, "check", "idle")
  /\ Guarded(s)
  /\ Discard(s)
  /\ EndBatch(s)
  /\ ForgetWatch(s)
  /\ UNCHANGED <<multi, dirty, todo, wepoch, regVars, wrote>>

\* One queued command.  In an EXEC a failing one has no effect of its own and
\* the rest still runs.
RunOp(s) ==
  /\ pc[s] = "run"
  /\ at[s] \in DOMAIN queue[s]
  /\ Fails(txs[s], queue[s][at[s]]) => batch[s]
  /\ txs' = [txs EXCEPT ![s] = RunDb(@, queue[s][at[s]])]
  /\ at' = [at EXCEPT ![s] = @ + 1]
  /\ UNCHANGED <<store, seq, now, scanned, backend, pc, queue, batch, attempts,
                 blockVars, regVars, wrote>>

\* A failing command outside EXEC: error reply, nothing is written.
OpFails(s) ==
  /\ Goto(s, "run", "idle")
  /\ ~batch[s]
  /\ at[s] \in DOMAIN queue[s]
  /\ Fails(txs[s], queue[s][at[s]])
  /\ Discard(s)
  /\ EndBatch(s)
  /\ UNCHANGED <<blockVars, regVars, wrote>>

Finished(s) == at[s] = Len(queue[s]) + 1

CommitOk(s) ==
  /\ Goto(s, "run", "bump")
  /\ Finished(s)
  /\ Commit(s) \/ CommitReadOnly(s)
  /\ wrote' = [wrote EXCEPT ![s] = [keys |-> txs[s].wset, seq |-> seq']]
  /\ UNCHANGED <<runVars, blockVars, regVars>>

\* bump_versions runs after the commit; then the reply is sent and an EXEC
\* forgets its WATCH set.
Bump(s) ==
  /\ Goto(s, "bump", "idle")
  /\ version' = [k \in Key |-> version[k] + IF k \in Touched(queue[s]) THEN 1 ELSE 0]
  /\ acked' = [k \in Key |-> IF k \in wrote[s].keys /\ wrote[s].seq > acked[k]
                             THEN wrote[s].seq ELSE acked[k]]
  /\ wrote' = [wrote EXCEPT ![s] = [keys |-> {}, seq |-> 0]]
  /\ IF batch[s] THEN ForgetWatch(s) ELSE UNCHANGED watched
  /\ EndBatch(s)
  /\ UNCHANGED <<kvVars, multi, dirty, todo, wepoch, epoch>>

\* The commit lost a conflict.  Under requested SSI: EXEC replies nil.
CommitNil(s) ==
  /\ Goto(s, "run", "idle")
  /\ Finished(s)
  /\ NeedsSsi(s)
  /\ CommitConflict(s)
  /\ EndBatch(s)
  /\ ForgetWatch(s)
  /\ UNCHANGED <<multi, dirty, todo, wepoch, regVars, wrote>>

\* Mutant: one retry too many.
CommitRetry_OneMore(s) ==
  /\ Goto(s, "run", "begin")
  /\ Finished(s)
  /\ ~NeedsSsi(s)
  /\ attempts[s] <= MaxRetries
  /\ CommitConflict(s)
  /\ attempts' = [attempts EXCEPT ![s] = @ + 1]
  /\ at' = [at EXCEPT ![s] = 1]
  /\ UNCHANGED <<queue, batch, blockVars, regVars, wrote>>

\* Mutant: the retry goes on after the last command instead of from the first.
CommitRetry_NoRewind(s) ==
  /\ Goto(s, "run", "begin")
  /\ Finished(s)
  /\ ~NeedsSsi(s)
  /\ attempts[s] < MaxRetries
  /\ CommitConflict(s)
  /\ attempts' = [attempts EXCEPT ![s] = @ + 1]
  /\ at' = [at EXCEPT ![s] = Len(queue[s])]
  /\ UNCHANGED <<queue, batch, blockVars, regVars, wrote>>

\* Otherwise the whole batch is run again after a backoff ...
CommitRetry(s) ==
  /\ Goto(s, "run", "begin")
  /\ Finished(s)
  /\ ~NeedsSsi(s)
  /\ attempts[s] < MaxRetries
  /\ CommitConflict(s)
  /\ attempts' = [attempts EXCEPT ![s] = @ + 1]
  /\ at' = [at EXCEPT ![s] = 1]
  /\ UNCHANGED <<queue, batch, blockVars, regVars, wrote>>

\* ... until the retries are used up: an error, the WATCH set stays.
CommitGivesUp(s) ==
  /\ Goto(s, "run", "idle")
  /\ Finished(s)
  /\ ~NeedsSsi(s)
  /\ attempts[s] = MaxRetries
  /\ CommitConflict(s)
  /\ EndBatch(s)
  /\ UNCHANGED <<blockVars, regVars, wrote>>

\* Any other commit error: an error reply, the WATCH set stays.
CommitFails(s) ==
  /\ Goto(s, "run", "idle")
  /\ Finished(s)
  /\ Discard(s)
  /\ EndBatch(s)
  /\ UNCHANGED <<blockVars, regVars, wrote>>

-------------------------------------------------------------------------------
(* FLUSHALL: destroy the store, then (enqueue_command) bump the epoch.     *)

\* Fjall clears the keyspace in one go.
FlushClear(s) ==
  /\ Goto(s, "idle", "flushed")
  /\ ~multi[s]
  /\ epoch < MaxEpoch
  /\ Clear
  /\ UNCHANGED <<runVars, blockVars, regVars, wrote>>

\* SlateDB scans and then deletes what it scanned.
FlushScan(s) ==
  /\ backend = "slate"
  /\ ~multi[s]
  /\ pc[s] = "flush" \/ (Idle(s) /\ epoch < MaxEpoch)
  /\ DropScan(s, Key)
  /\ pc' = [pc EXCEPT ![s] = IF scanned'[s] = {} THEN "flushed" ELSE "scanned"]
  /\ UNCHANGED <<runVars, blockVars, regVars, wrote>>

FlushDelete(s) ==
  /\ Goto(s, "scanned", "flushing")
  /\ DropDelete(s)
  /\ UNCHANGED <<runVars, blockVars, regVars, wrote>>

FlushCommit(s) ==
  /\ Goto(s, "flushing", "flushed")
  /\ Commit(s)
  /\ UNCHANGED <<runVars, blockVars, regVars, wrote>>

\* A conflict comes back as the command's result: is_retryable_conflict runs
\* the flush again.
FlushRetry(s) ==
  /\ Goto(s, "flushing", "flush")
  /\ attempts[s] < MaxRetries
  /\ CommitConflict(s)
  /\ attempts' = [attempts EXCEPT ![s] = @ + 1]
  /\ UNCHANGED <<queue, batch, at, blockVars, regVars, wrote>>

\* Retries used up, or another error: no epoch is bumped.
FlushFails(s) ==
  /\ Goto(s, "flushing", "idle")
  /\ \/ attempts[s] = MaxRetries /\ CommitConflict(s)
     \/ Discard(s)
  /\ attempts' = [attempts EXCEPT ![s] = 0]
  /\ UNCHANGED <<queue, batch, at, blockVars, regVars, wrote>>

FlushEpoch(s) ==
  /\ Goto(s, "flushed", "idle")
  /\ epoch' = epoch + 1
  /\ attempts' = [attempts EXCEPT ![s] = 0]
  /\ UNCHANGED <<kvVars, queue, batch, at, blockVars, version, acked, wrote>>

SessionStep(s) ==
  \/ EnterMulti(s)
  \/ \E op \in Op : Enqueue(s, op)
  \/ Reject(s)
  \/ DiscardMulti(s)
  \/ Unwatch(s)
  \/ \E K \in SUBSET Key : WatchBegin(s, K)
  \/ \E k \in Key : WatchKey(s, k)
  \/ \E op \in Op : Command(s, op)
  \/ ExecDirty(s)
  \/ ExecEmpty(s)
  \/ Exec(s)
  \/ Attempt(s)
  \/ AttemptFails(s)
  \/ Check(s)
  \/ CheckNil(s)
  \/ RunOp(s)
  \/ OpFails(s)
  \/ CommitOk(s)
  \/ Bump(s)
  \/ CommitNil(s)
  \/ CommitRetry(s)
  \/ CommitGivesUp(s)
  \/ CommitFails(s)
  \/ FlushClear(s)
  \/ FlushScan(s)
  \/ FlushDelete(s)
  \/ FlushCommit(s)
  \/ FlushRetry(s)
  \/ FlushFails(s)
  \/ FlushEpoch(s)

Clock == Tick /\ UNCHANGED sVars

SessionNext == Clock \/ \E s \in Tx : SessionStep(s)

SessionSpec == SessionInit /\ [][SessionNext]_vars

-------------------------------------------------------------------------------
(* Properties.                                                             *)

\* Every variable keeps its shape, and a batch never spends more conflict
\* retries than conflict_retry_count (ConflictRetries::next).
SessionTypeOK ==
  /\ KvTypeOK
  /\ pc \in [Tx -> {"idle", "watch", "begin", "check", "run", "bump",
                    "flush", "scanned", "flushing", "flushed"}]
  /\ multi \in [Tx -> BOOLEAN]
  /\ dirty \in [Tx -> BOOLEAN]
  /\ queue \in [Tx -> Seq(Op)]
  /\ batch \in [Tx -> BOOLEAN]
  /\ at \in [Tx -> Nat]
  /\ attempts \in [Tx -> 0..MaxRetries]
  /\ todo \in [Tx -> SUBSET Key]
  /\ \A s \in Tx : /\ DOMAIN watched[s] \subseteq Key
                   /\ \A k \in DOMAIN watched[s] : watched[s][k] \in WatchRecord
  /\ wepoch \in [Tx -> Nat]
  /\ version \in [Key -> Nat]
  /\ epoch \in Nat
  /\ wrote \in [Tx -> [keys: SUBSET Key, seq: Nat]]
  /\ acked \in [Key -> Nat]

\* registry.rs, write_versions: "bumped after every committed write".  Once a
\* write of a watched key is acknowledged its version is ahead of the recorded
\* one, whatever other sessions committed and have not bumped yet.
VersionsTrackWrites ==
  \A s \in Tx : \A k \in DOMAIN watched[s] :
    acked[k] > watched[s][k].since => version[k] > watched[s][k].ver

\* WATCH's promise to clients that wait for replies: an EXEC passes its
\* pre-check only if no write of a watched key was acknowledged since WATCH.
AcknowledgedWritesAbort ==
  [][\A s \in Tx : (pc[s] = "check" /\ pc'[s] = "run" /\ batch[s]) =>
       \A k \in DOMAIN watched[s] : acked[k] <= watched[s][k].since]_vars

\* registry.rs, bump_flush_epoch: after a flush "all in-flight WATCH snapshots
\* are invalidated": an EXEC passes its pre-check only if no FLUSHALL finished
\* since any of its keys was recorded.
FlushInvalidatesWatches ==
  [][\A s \in Tx : (pc[s] = "check" /\ pc'[s] = "run" /\ batch[s]) =>
       \A k \in DOMAIN watched[s] : watched[s][k].ep = epoch]_vars

\* dispatch_pending_ops: "Reading each key inside the transaction also
\* registers it in the SSI readset, so a concurrent write during EXEC is caught
\* at commit": the writes of an EXEC land only while every watched key is still
\* what the pre-check read.
ConcurrentWriteCaught ==
  [][\A s \in Tx : (Commits(s) /\ pc[s] = "run" /\ batch[s]) =>
       \A k \in DOMAIN watched[s] : store[k] \in {txs[s].snap[k], Cleared}]_vars

-------------------------------------------------------------------------------
(* The dispatcher implements atomic commands, as long as no key expires    *)
(* and, on Fjall, nobody flushes.                                          *)

Waiting(s) == pc[s] \in {"begin", "check", "run", "bump"}

Atomic == INSTANCE AtomicKv WITH
  Client <- Tx,
  db <- [k \in Key |-> IF Live(store[k]) THEN store[k].val ELSE NoValue],
  req <- [s \in Tx |-> IF Waiting(s) THEN queue[s] ELSE <<>>],
  done <- [s \in Tx |-> pc[s] = "bump" /\ wrote[s].keys # {}]

\* Every command and every EXEC takes effect at once, at its commit, exactly
\* once however often the dispatcher retried it, or not at all (an error, nil,
\* or a batch that had nothing to write in its snapshot).
BatchesAreAtomic == Atomic!AtomicSpec
===============================================================================

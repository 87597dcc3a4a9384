-------------------------------- MODULE XRead --------------------------------
(***************************************************************************)
(* XREAD BLOCK (stream.rs, XReadOp) against XADD, sent by a client or by a *)
(* script.  A reader registers, reads, and waits only if it read nothing   *)
(* new; a writer signals every registered reader once it has committed.    *)
(* A signal carries no data: the reader registers and reads again.         *)
(*                                                                         *)
(* A stream is the number of its entries, a read position how many of them *)
(* were there when `$` was resolved.                                       *)
(***************************************************************************)
EXTENDS WaitRegistry

CONSTANTS
  Reader,
  Adder,         \* connections that send XADD
  StreamLists,   \* the key lists of the reads
  MaxEntries     \* bound on the entries of one stream

ASSUME XReadAssumption ==
  /\ StreamLists \subseteq Seq(Key)
  /\ MaxEntries \in Nat

VARIABLES
  stream,    \* committed entries of every stream
  reader,    \* [pc, keys, from, id, expired] of each reader
  adder      \* [pc, key] of each writer

xVars == <<stream, reader, adder>>

IdleReader ==
  [pc |-> "idle", keys |-> <<>>, from |-> <<>>, id |-> 0, expired |-> FALSE]

XReadInit ==
  /\ RegistryInit
  /\ stream = [k \in Key |-> 0]
  /\ reader = [r \in Reader |-> IdleReader]
  /\ adder = [a \in Adder |-> [pc |-> "idle", key |-> CHOOSE k \in Key : TRUE]]

-------------------------------------------------------------------------------
(* XREAD BLOCK.                                                            *)

\* The command arrives, with explicit ids (0 here) or `$`, for which `from` is
\* empty until the first read resolves it.
Start(r, keys) ==
  /\ reader[r].pc = "idle"
  /\ \E from \in {<<>>, [i \in DOMAIN keys |-> 0]} :
       reader' = [reader EXCEPT ![r] =
         [pc |-> "loop", keys |-> keys, id |-> 0, expired |-> FALSE, from |-> from]]
  /\ UNCHANGED <<regVars, stream, adder>>

\* register_stream, at the top of every round.
Enter(r) ==
  /\ reader[r].pc = "loop"
  /\ Register(reader[r].keys, "stream")
  /\ reader' = [reader EXCEPT ![r].pc = "read", ![r].id = NextId]
  /\ UNCHANGED <<stream, adder>>

\* Mutant: `$` resolves one entry too far.
From_OneMore(r) == IF reader[r].from = <<>>
                   THEN [i \in DOMAIN reader[r].keys |-> stream[reader[r].keys[i]] + 1]
                   ELSE reader[r].from

From(r) == IF reader[r].from = <<>>
           THEN [i \in DOMAIN reader[r].keys |-> stream[reader[r].keys[i]]]
           ELSE reader[r].from

Fresh(r) == \E i \in DOMAIN reader[r].keys :
              stream[reader[r].keys[i]] > From(r)[i]

\* The read, in a transaction of its own: new entries, or the deadline has
\* passed, and the command returns (its registration is dropped); otherwise it
\* waits.
Read(r) ==
  /\ reader[r].pc = "read"
  /\ IF Fresh(r) \/ reader[r].expired
     THEN /\ reader' = [reader EXCEPT ![r] = [IdleReader EXCEPT !.pc = "done"]]
          /\ queues' = Removed(reader[r].id)
     ELSE /\ reader' = [reader EXCEPT ![r].pc = "wait", ![r].from = From(r)]
          /\ UNCHANGED queues
  /\ UNCHANGED <<reg, stream, adder>>

\* Mutant: the reader registers once, before the loop, not in every round.
Resume_StaysOut(r) ==
  /\ reader[r].pc = "wait"
  /\ reg[reader[r].id].inbox # {}
  /\ reg' = Emptied(reader[r].id)
  /\ reader' = [reader EXCEPT ![r].pc = "read"]
  /\ UNCHANGED <<queues, stream, adder>>

\* Registration::wait returns, whatever was delivered, and the registration is
\* dropped; the next round follows.
Resume(r) ==
  /\ reader[r].pc = "wait"
  /\ reg[reader[r].id].inbox # {}
  /\ queues' = Removed(reader[r].id)
  /\ reg' = Emptied(reader[r].id)
  /\ reader' = [reader EXCEPT ![r].pc = "loop"]
  /\ UNCHANGED <<stream, adder>>

\* The deadline passes: one last round, unless a writer has taken the waiter
\* out of its queues; then the reader goes on waiting for its signal.
Expire(r) ==
  /\ reader[r].pc = "wait"
  /\ reg[reader[r].id].inbox = {}
  /\ ~reader[r].expired
  /\ queues' = Removed(reader[r].id)
  /\ reader' = [reader EXCEPT ![r].expired = TRUE,
                  ![r].pc = IF Queued(reader[r].id) THEN "loop" ELSE "wait"]
  /\ UNCHANGED <<reg, stream, adder>>

-------------------------------------------------------------------------------
(* XADD.                                                                   *)

\* The entry commits; then XAddWire signals.
Append1(a, k) ==
  /\ adder[a].pc \in {"idle", "script"}
  /\ adder[a].pc = "script" => adder[a].key = k
  /\ stream[k] < MaxEntries
  /\ stream' = [stream EXCEPT ![k] = @ + 1]
  /\ adder' = [adder EXCEPT ![a] = [pc |-> "notify", key |-> k]]
  /\ UNCHANGED <<regVars, reader>>

\* A script's XADD leaves a placeholder notification in the result, which the
\* reply of redis.call() wakes before the script has committed.
ScriptAdd(a, k) ==
  /\ adder[a].pc = "idle"
  /\ stream[k] < MaxEntries
  /\ WakeStreams(k)
  /\ adder' = [adder EXCEPT ![a] = [pc |-> "script", key |-> k]]
  /\ UNCHANGED <<stream, reader>>

\* The script's transaction does not commit.  One failure per writer bounds
\* the number of signals.
ScriptFails(a) ==
  /\ adder[a].pc = "script"
  /\ adder' = [adder EXCEPT ![a].pc = "failed"]
  /\ UNCHANGED <<regVars, stream, reader>>

\* Mutant: nobody is signalled.
Notify_None(a) ==
  /\ adder[a].pc = "notify"
  /\ adder' = [adder EXCEPT ![a].pc = "idle"]
  /\ UNCHANGED <<regVars, stream, reader>>

\* XAddWire: the signal after the commit.
Notify(a) ==
  /\ adder[a].pc = "notify"
  /\ WakeStreams(adder[a].key)
  /\ adder' = [adder EXCEPT ![a].pc = "idle"]
  /\ UNCHANGED <<stream, reader>>

ReaderStep(r) == Enter(r) \/ Read(r) \/ Resume(r)

\* Every reader has returned: the instance is over.
AllRead == (\A r \in Reader : reader[r].pc = "done") /\ UNCHANGED <<regVars, xVars>>

XReadNext ==
  \/ \E r \in Reader : \/ \E keys \in StreamLists : Start(r, keys)
                       \/ ReaderStep(r)
                       \/ Expire(r)
  \/ \E a \in Adder : \/ \E k \in Key : Append1(a, k) \/ ScriptAdd(a, k)
                      \/ ScriptFails(a)
                      \/ Notify(a)
  \/ AllRead

XReadSpec == XReadInit /\ [][XReadNext]_<<regVars, xVars>>

\* The runtime polls every task that can go on: a reader's rounds, and the
\* reply that follows a commit without waiting for anything.
XReadFairSpec ==
  /\ XReadSpec
  /\ \A r \in Reader : WF_<<regVars, xVars>>(ReaderStep(r))
  /\ \A a \in Adder : WF_<<regVars, xVars>>(Notify(a))

-------------------------------------------------------------------------------
(* Properties.                                                             *)

\* Every variable keeps its shape; a read position (resolve_read_ids) is never
\* past the end of its stream.
XReadTypeOK ==
  /\ RegistryTypeOK
  /\ stream \in [Key -> 0..MaxEntries]
  /\ reader \in [Reader -> [pc: {"idle", "loop", "read", "wait", "done"},
                            keys: StreamLists \cup {<<>>}, from: Seq(0..MaxEntries),
                            id: 0..MaxId, expired: BOOLEAN]]
  /\ adder \in [Adder -> [pc: {"idle", "script", "notify", "failed"}, key: Key]]

\* XReadOp: "A write that commits between the read and the wait then still wakes
\* us": a reader that waits with nothing in its channel while one of its streams
\* has entries it did not see is queued there, and the writer of such an entry
\* is about to signal it; early signals of scripts do not disturb this.
NoMissedEntry ==
  \A r \in Reader :
    (reader[r].pc = "wait" /\ reg[reader[r].id].inbox = {} /\ Fresh(r)) =>
      \E a \in Adder : /\ adder[a].pc = "notify"
                       /\ InQueue(reader[r].id, adder[a].key)

\* A blocked XREAD whose streams gain an entry returns, with or without a
\* timeout.
EntryEndsWait ==
  \A r \in Reader : (reader[r].pc = "wait" /\ Fresh(r)) ~> (reader[r].pc = "done")
===============================================================================

--------------------------------- MODULE ZPop ---------------------------------
(***************************************************************************)
(* Blocking pops (BZPOPMIN/BZPOPMAX, zset.rs) against the writers that     *)
(* serve them (ZADD, alone or several of them in a MULTI/EXEC block or a   *)
(* script).  A blocked client is served by the writer: inside its          *)
(* transaction the writer claims the front waiter and pops an element for  *)
(* it; the element is delivered after the commit, or the waiter goes back  *)
(* to the front of its queues.                                             *)
(*                                                                         *)
(* Two transactions that write the same sorted set both write its          *)
(* sentinel, so the store lets only the first of them commit: `stale`.     *)
(***************************************************************************)
EXTENDS WaitRegistry, FiniteSetsExt, Functions

CONSTANTS
  Client,      \* connections that send blocking pops
  Writer,      \* connections that send ZADD
  KeyLists,    \* the key lists of the blocking pops
  MaxAdds,     \* ZADDs in one block
  MaxRetries   \* conflict_retry_count

ASSUME ZPopAssumption ==
  /\ KeyLists \subseteq Seq(Key)
  /\ MaxAdds \in Nat
  /\ MaxRetries \in Nat

VARIABLES
  zset,      \* the committed elements of every sorted set
  client,    \* [pc, keys, kind, id]: the blocked command of each client
  got,       \* elements the clients received
  writer,    \* [pc, key, view, adds, claims, stale, tries] of each writer
  committed, \* ghost: every element a committed ZADD added
  released   \* ghost: every waiter a failed or repeated block gave back

zVars == <<zset, client, got, writer, committed, released>>

IdleClient == [pc |-> "idle", keys |-> <<>>, kind |-> "min", id |-> 0]
IdleWriter(k) == [pc |-> "idle", key |-> k, view |-> {}, adds |-> {},
                  claims |-> <<>>, stale |-> FALSE, tries |-> 0]

\* The element a pop of this kind takes (a stream waiter is no BZPOPMIN).
Popped(kind, view) == IF kind = "min" THEN Min(view) ELSE Max(view)

ZPopInit ==
  /\ RegistryInit
  /\ zset = [k \in Key |-> {}]
  /\ client = [c \in Client |-> IdleClient]
  /\ got = {}
  /\ writer = [w \in Writer |-> IdleWriter(CHOOSE k \in Key : TRUE)]
  /\ committed = {}
  /\ released = {}

\* A commit on k makes every other transaction on k lose its own.
Stale(k, ws) ==
  [w \in Writer |-> IF w \in ws /\ writer[w].pc = "run"
                       /\ writer[w].key = k
                    THEN [writer[w] EXCEPT !.stale = TRUE] ELSE writer[w]]

-------------------------------------------------------------------------------
(* BZPOPMIN / BZPOPMAX.                                                    *)

\* BzpopOp: some key has elements; the first such key is popped in a
\* transaction of its own.  A conflict runs the command again.
PopNow(c, keys, kind) ==
  /\ client[c].pc = "idle"
  /\ \E i \in DOMAIN keys :
       /\ zset[keys[i]] # {}
       /\ \A j \in 1..i - 1 : zset[keys[j]] = {}
       /\ LET e == Popped(kind, zset[keys[i]]) IN
            /\ zset' = [zset EXCEPT ![keys[i]] = @ \ {e}]
            /\ got' = got \cup {e}
       /\ writer' = Stale(keys[i], Writer)
  /\ UNCHANGED <<regVars, client, committed, released>>

\* All keys are empty in the transaction's snapshot, which is then discarded ...
SeeEmpty(c, keys, kind) ==
  /\ client[c].pc = "idle"
  /\ Len(reg) + Cardinality({d \in Client : client[d].pc = "empty"}) < MaxId
  /\ \A i \in DOMAIN keys : zset[keys[i]] = {}
  /\ client' = [client EXCEPT ![c] =
                  [pc |-> "empty", keys |-> keys, kind |-> kind, id |-> 0]]
  /\ UNCHANGED <<regVars, zset, got, writer, committed, released>>

\* ... and only then the client registers.
Block(c) ==
  /\ client[c].pc = "empty"
  /\ Register(client[c].keys, client[c].kind)
  /\ client' = [client EXCEPT ![c].pc = "waiting", ![c].id = NextId]
  /\ UNCHANGED <<zset, got, writer, committed, released>>

Blocked(c) == client[c].pc \in {"waiting", "draining"}

\* Registration::wait returns what was delivered and drops the registration.
Receive(c) ==
  /\ Blocked(c)
  /\ reg[client[c].id].inbox # {}
  /\ got' = got \cup reg[client[c].id].inbox
  /\ queues' = Removed(client[c].id)
  /\ reg' = Emptied(client[c].id)
  /\ client' = [client EXCEPT ![c] = IdleClient]
  /\ UNCHANGED <<zset, writer, committed, released>>

\* Mutant: a timed-out client never waits for the writer that claimed it.
TimeOut_NoDrain(c) ==
  /\ client[c].pc = "waiting"
  /\ reg[client[c].id].inbox = {}
  /\ queues' = Removed(client[c].id)
  /\ client' = [client EXCEPT ![c] = IdleClient]
  /\ UNCHANGED <<reg, zset, got, writer, committed, released>>

\* The timeout elapses: still registered, the client gets nil; already
\* claimed, it waits for the writer without a timeout.
TimeOut(c) ==
  /\ client[c].pc = "waiting"
  /\ reg[client[c].id].inbox = {}
  /\ queues' = Removed(client[c].id)
  /\ client' = [client EXCEPT ![c] = IF Queued(client[c].id) THEN IdleClient
                                     ELSE [@ EXCEPT !.pc = "draining"]]
  /\ UNCHANGED <<reg, zset, got, writer, committed, released>>

\* Mutant: the dropped command leaves its waiter in the queues.
HangUp_StaysQueued(c) ==
  /\ Blocked(c)
  /\ client' = [client EXCEPT ![c].pc = "gone"]
  /\ UNCHANGED <<regVars, zset, got, writer, committed, released>>

\* The listener sees the client hang up and drops the blocked command.
HangUp(c) ==
  /\ Blocked(c)
  /\ queues' = Removed(client[c].id)
  /\ client' = [client EXCEPT ![c].pc = "gone"]
  /\ UNCHANGED <<reg, zset, got, writer, committed, released>>

-------------------------------------------------------------------------------
(* ZADD.                                                                   *)

Taken == UNION {writer[w].adds : w \in Writer} \cup committed

\* A block of ZADDs to k starts: the transaction's snapshot.
WriteBegin(w, k, E) ==
  /\ writer[w].pc = "idle"
  /\ E # {} /\ E \cap Taken = {}
  /\ Cardinality(E) <= MaxAdds
  /\ writer' = [writer EXCEPT ![w] =
       [IdleWriter(k) EXCEPT !.pc = "run", !.view = zset[k], !.adds = E]]
  /\ UNCHANGED <<regVars, zset, client, got, committed, released>>

Claims(w) == [i \in DOMAIN writer[w].claims |-> writer[w].claims[i].id]

Done(w) == {writer[w].claims[i].elem : i \in DOMAIN writer[w].claims}

\* The elements not added yet.
Pending(w) == writer[w].adds \ (writer[w].view \cup Done(w))

\* ZAddOp: adds e, then claims the front waiter, if any, and pops for it.
Add(w, e) ==
  /\ writer[w].pc = "run"
  /\ e \in Pending(w)
  /\ LET k == writer[w].key
         view == writer[w].view \cup {e}
         id == Head(queues[k])
         p == Popped(reg[id].kind, view)
     IN  IF queues[k] = <<>>
         THEN /\ writer' = [writer EXCEPT ![w].view = view]
              /\ UNCHANGED queues
         ELSE /\ writer' = [writer EXCEPT ![w].view = view \ {p},
                              ![w].claims = Append(@, [id |-> id, elem |-> p])]
              /\ queues' = Claimed(k)
  /\ UNCHANGED <<reg, zset, client, got, committed, released>>

\* The commit lands; the wire half then wakes the claimed waiters.
WriteCommit(w) ==
  /\ writer[w].pc = "run"
  /\ Pending(w) = {}
  /\ ~writer[w].stale
  /\ zset' = [zset EXCEPT ![writer[w].key] = writer[w].view]
  /\ committed' = committed \cup writer[w].adds
  /\ writer' = [Stale(writer[w].key, Writer \ {w}) EXCEPT ![w].pc = "wake"]
  /\ UNCHANGED <<regVars, client, got, released>>

\* ZAddWire: wakes the claims one by one.
Wake(w) ==
  /\ writer[w].pc = "wake"
  /\ IF writer[w].claims = <<>>
     THEN /\ writer' = [writer EXCEPT ![w] = IdleWriter(writer[w].key)]
          /\ UNCHANGED reg
     ELSE /\ LET claim == Head(writer[w].claims)
             IN  reg' = Woken(claim.id, {claim.elem})
          /\ writer' = [writer EXCEPT ![w].claims = Tail(@)]
  /\ UNCHANGED <<queues, zset, client, got, committed, released>>

\* Mutant: one retry too many.
Conflict_OneMore(w) ==
  /\ writer[w].pc = "run"
  /\ Pending(w) = {}
  /\ writer[w].stale
  /\ writer[w].tries <= MaxRetries
  /\ writer' = [writer EXCEPT ![w].pc = "backoff", ![w].tries = @ + 1]
  /\ UNCHANGED <<regVars, zset, client, got, committed, released>>

\* A conflict: the claims are held through the backoff, then released ...
Conflict(w) ==
  /\ writer[w].pc = "run"
  /\ Pending(w) = {}
  /\ writer[w].stale
  /\ writer[w].tries < MaxRetries
  /\ writer' = [writer EXCEPT ![w].pc = "backoff", ![w].tries = @ + 1]
  /\ UNCHANGED <<regVars, zset, client, got, committed, released>>

\* ... and the block runs again from a fresh snapshot.
Retry(w) ==
  /\ writer[w].pc = "backoff"
  /\ queues' = ReleasedAll(Claims(w))
  /\ released' = released \cup Range(Claims(w))
  /\ writer' = [writer EXCEPT ![w] =
       [@ EXCEPT !.pc = "run", !.view = zset[writer[w].key], !.claims = <<>>,
                 !.stale = FALSE]]
  /\ UNCHANGED <<reg, zset, client, got, committed>>

\* Mutant: the block fails without giving its claims back.
Fail_KeepsClaims(w) ==
  /\ writer[w].pc = "run"
  /\ writer' = [writer EXCEPT ![w] = IdleWriter(writer[w].key)]
  /\ UNCHANGED <<regVars, zset, client, got, committed, released>>

\* Retries used up, a failing command, or another store error.
Fail(w) ==
  /\ writer[w].pc = "run"
  /\ queues' = ReleasedAll(Claims(w))
  /\ released' = released \cup Range(Claims(w))
  /\ writer' = [writer EXCEPT ![w] = IdleWriter(writer[w].key)]
  /\ UNCHANGED <<reg, zset, client, got, committed>>

ClientStep(c) ==
  \/ \E keys \in KeyLists, kind \in PopKinds :
       PopNow(c, keys, kind) \/ SeeEmpty(c, keys, kind)
  \/ Block(c)
  \/ Receive(c)
  \/ TimeOut(c)
  \/ HangUp(c)

WriterStep(w) ==
  \/ \E k \in Key, E \in SUBSET Elem : WriteBegin(w, k, E)
  \/ \E e \in Elem : Add(w, e)
  \/ WriteCommit(w)
  \/ Wake(w)
  \/ Conflict(w)
  \/ Retry(w)
  \/ Fail(w)

\* The bound on elements is reached: nothing is left to write.
Exhausted ==
  /\ Elem \subseteq Taken
  /\ \A w \in Writer : writer[w].pc = "idle"
  /\ UNCHANGED <<regVars, zVars>>

ZPopNext ==
  \/ \E c \in Client : ClientStep(c)
  \/ \E w \in Writer : WriterStep(w)
  \/ Exhausted

ZPopSpec == ZPopInit /\ [][ZPopNext]_<<regVars, zVars>>

-------------------------------------------------------------------------------
(* Properties.                                                             *)

\* Every variable keeps its shape, within the retry budget of the writers'
\* batches (ConflictRetries::next).
ZPopTypeOK ==
  /\ RegistryTypeOK
  /\ zset \in [Key -> SUBSET Elem]
  /\ client \in [Client -> [pc: {"idle", "empty", "waiting", "draining", "gone"},
                            keys: KeyLists \cup {<<>>}, kind: PopKinds, id: 0..MaxId]]
  /\ got \subseteq Elem
  /\ writer \in [Writer -> [pc: {"idle", "run", "wake", "backoff"}, key: Key,
                            view: SUBSET Elem, adds: SUBSET Elem,
                            claims: Seq([id: 1..MaxId, elem: Elem]),
                            stale: BOOLEAN, tries: 0..MaxRetries]]
  /\ committed \subseteq Elem
  /\ released \subseteq 1..MaxId

\* Where a committed element is: in a sorted set, with a client, or on its way
\* from a committed writer to the client it was popped for.
InSet(e) == \E k \in Key : e \in zset[k]
Sending(e) == \E w \in Writer : writer[w].pc = "wake" /\ e \in Done(w)
Sent(e) == \E c \in Client : /\ client[c].pc # "idle"
                            /\ client[c].id # 0
                            /\ e \in reg[client[c].id].inbox

\* Registration::wait drains its channel because "discarding a real result that
\* was already removed from the sorted set would lose data": every element a
\* committed ZADD added is in exactly one place, whatever timeouts, conflicts
\* and concurrent writers did.  Only a client that hangs up while it is being
\* served takes its element with it.
ElementsConserved ==
  \A e \in committed :
    Cardinality({p \in {"set", "client", "sending", "sent"} :
                   \/ p = "set" /\ InSet(e)
                   \/ p = "client" /\ e \in got
                   \/ p = "sending" /\ Sending(e)
                   \/ p = "sent" /\ Sent(e)}) = 1

\* A blocked client can always still be reached: it is queued, claimed by a
\* writer that has to wake or release it, or has its result.  This is what
\* release_claims is for ("so no blocked client is left waiting forever").
NobodyForgotten ==
  \A c \in Client : Blocked(c) =>
    \/ Queued(client[c].id)
    \/ reg[client[c].id].inbox # {}
    \/ \E w \in Writer : \E i \in DOMAIN writer[w].claims :
         writer[w].claims[i].id = client[c].id

\* try_claim "removes it from ALL of its registered key queues": no second
\* writer can claim a waiter that is already claimed.
ClaimLeavesAllQueues ==
  \A w \in Writer : \A i \in DOMAIN writer[w].claims :
    ~Queued(writer[w].claims[i].id)

\* release_front puts a waiter back "at the front": whoever has never been
\* claimed stands behind everybody given back and behind everybody who came
\* before.  (Two waiters given back may have swapped places.)
FirstComeFirstServed ==
  \A k \in Key : \A i, j \in DOMAIN queues[k] :
    (i < j /\ queues[k][i] \notin released) =>
      queues[k][j] \notin released /\ queues[k][i] <= queues[k][j]

\* Registration: dropping it "removes the registration, so a later write never
\* claims a waiter nobody can reply to": whoever is queued is still connected,
\* unless a block that had claimed it before it left gave it back afterwards.
QueuedIsConnected ==
  \A k \in Key : \A i \in DOMAIN queues[k] :
    \/ queues[k][i] \in released
    \/ \E c \in Client : Blocked(c) /\ client[c].id = queues[k][i]

\* zset.rs: a blocking pop registers "if all keys are empty".
BlocksOnlyWhenEmpty ==
  [][\A c \in Client : (client[c].pc = "empty" /\ client'[c].pc = "waiting") =>
       \A i \in DOMAIN client[c].keys : zset[client[c].keys[i]] = {}]_<<regVars, zVars>>
===============================================================================

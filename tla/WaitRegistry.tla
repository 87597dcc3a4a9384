----------------------------- MODULE WaitRegistry -----------------------------
(***************************************************************************)
(* The blocked-client half of WatchRegistry (registry.rs): one FIFO queue  *)
(* of waiters per key, and one delivery channel per waiter.  Every         *)
(* operation here runs under the registry's mutex and is atomic; the       *)
(* processes that call them are in ZPop (BZPOPMIN/BZPOPMAX and ZADD) and   *)
(* XRead (XREAD BLOCK and XADD).                                           *)
(***************************************************************************)
EXTENDS Integers, Sequences, FiniteSets

CONSTANTS
  Key,
  Elem,      \* what a pop can deliver: positive integers, ordered by score
  MaxId      \* bound on the number of registrations

ASSUME RegistryAssumption ==
  /\ Elem \subseteq Nat \ {0}
  /\ MaxId \in Nat

VARIABLES
  queues,    \* the waiters of every key, longest-waiting first
  reg        \* every waiter ever registered, by id

regVars == <<queues, reg>>

PopKinds == {"min", "max"}
Signal == 0

\* `sender`: the delivery channel has not been taken yet.  `inbox`: what was
\* sent and not yet received, at most one message.
Waiter == [keys: Seq(Key), kind: PopKinds \cup {"stream"}, sender: BOOLEAN,
           inbox: SUBSET (Elem \cup {Signal})]

RegistryInit ==
  /\ queues = [k \in Key |-> <<>>]
  /\ reg = <<>>

Without(q, id) == SelectSeq(q, LAMBDA i : i # id)

InQueue(id, k) == \E i \in DOMAIN queues[k] : queues[k][i] = id

Queued(id) == \E k \in Key : InQueue(id, k)

Times(k, keys) == Cardinality({i \in DOMAIN keys : keys[i] = k})

Copies(id, k) == [i \in 1..Times(k, reg[id].keys) |-> id]

\* WatchRegistry::register: the waiter joins the back of every key's queue, a
\* key named twice twice.
NextId == Len(reg) + 1

Registered(keys) ==
  [k \in Key |-> queues[k] \o [i \in 1..Times(k, keys) |-> NextId]]

NewWaiter(keys, kind) ==
  [keys |-> keys, kind |-> kind, sender |-> TRUE, inbox |-> {}]

Register(keys, kind) ==
  /\ Len(reg) < MaxId
  /\ queues' = Registered(keys)
  /\ reg' = Append(reg, NewWaiter(keys, kind))

\* Mutant: the waiter stays in the queues of its other keys.
Claimed_OneQueue(k) == [queues EXCEPT ![k] = Tail(@)]

\* WatchRegistry::try_claim: pops the front of k's queue, and removes the
\* waiter from the queues of its other keys.
Claimed(k) ==
  LET id == Head(queues[k]) IN
  [j \in Key |-> IF j = k THEN Tail(queues[k])
                 ELSE Without(queues[j], id)]

\* Mutant: a released waiter goes to the back of the queue.
Released_Back(q, id) ==
  [k \in Key |-> q[k] \o Copies(id, k)]

\* WatchRegistry::release_front.
Released(q, id) ==
  [k \in Key |-> Copies(id, k) \o q[k]]

\* Several claims are released in the order they were made.
ReleasedAll(ids) ==
  LET after[i \in 0..Len(ids)] == IF i = 0 THEN queues
                                  ELSE Released(after[i - 1], ids[i])
  IN  after[Len(ids)]

\* WatchRegistry::remove_waiter, also run by Registration::drop.
Removed(id) == [k \in Key |-> Without(queues[k], id)]

\* Claim::wake: the channel can be used once.
Woken(id, result) ==
  [reg EXCEPT ![id] = IF @.sender
                      THEN [@ EXCEPT !.sender = FALSE, !.inbox = result] ELSE @]

\* wake_stream_waiters: every stream waiter queued on k leaves all its queues
\* and is signalled.
StreamWaiters(k) == {id \in DOMAIN reg : InQueue(id, k) /\ reg[id].kind = "stream"}

WakeStreams(k) ==
  /\ queues' = [j \in Key |-> SelectSeq(queues[j], LAMBDA i : i \notin StreamWaiters(k))]
  /\ reg' = [id \in DOMAIN reg |->
               IF id \in StreamWaiters(k) /\ reg[id].sender
               THEN [reg[id] EXCEPT !.sender = FALSE, !.inbox = {Signal}]
               ELSE reg[id]]

\* What the waiter's task received is gone from the channel.
Emptied(id) == [reg EXCEPT ![id].inbox = {}]

-------------------------------------------------------------------------------
\* The shape of the registry's queues and waiters.
RegistryTypeOK ==
  /\ queues \in [Key -> Seq(1..MaxId)]
  /\ reg \in Seq(Waiter)
===============================================================================

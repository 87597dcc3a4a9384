-------------------------------- MODULE PubSub --------------------------------
(***************************************************************************)
(* Publish/subscribe: PubSubRegistry and ConnectionSubs (pubsub.rs) as     *)
(* driven by the connection handler (listener.rs).  The registry maps a    *)
(* channel or a pattern to a broadcast sender; a subscription is a         *)
(* receiver of that sender, a cursor into what was sent.  Both maps work   *)
(* alike, so a topic is a channel or a pattern.  Connections run in        *)
(* parallel and the registry's maps are locked per call only, so another   *)
(* connection may act between any two calls of a handler.                  *)
(***************************************************************************)
EXTENDS Integers, Sequences, FiniteSets

CONSTANTS
  Conn,
  Channel, Pattern,
  Matches,     \* <<pattern, channel>> pairs of GlobPattern::is_match
  Capacity,    \* BROADCAST_CAPACITY
  MaxSender,   \* bound on the senders ever created
  MaxSent      \* bound on the messages sent into one sender

ASSUME PubSubAssumption ==
  /\ Channel \cap Pattern = {}
  /\ Matches \subseteq Pattern \X Channel
  /\ Capacity \in Nat \ {0}
  /\ MaxSender \in Nat
  /\ MaxSent \in Nat

Topic == Channel \cup Pattern

VARIABLES
  entry,     \* the sender registered under each topic, 0 for none
  sent,      \* messages sent into each sender created so far
  rx,        \* each connection's receivers: topic -> [sender, next]
  leaving,   \* topics the connection is unsubscribing from
  step,      \* the connection's unsubscribe: "none", or where it is and on what
  up,        \* whether the connection is open
  publishing,\* topics the running PUBLISH has still to send to
  broken     \* ghost: senders some receiver of which was dropped by an error

psVars == <<entry, sent, rx, leaving, step, up, publishing, broken>>

NoTopics == [t \in {} |-> 0]
NoStep == [at |-> "none", topic |-> CHOOSE t \in Topic : TRUE]

PubSubInit ==
  /\ entry = [t \in Topic |-> 0]
  /\ sent = <<>>
  /\ rx = [c \in Conn |-> NoTopics]
  /\ leaving = [c \in Conn |-> {}]
  /\ step = [c \in Conn |-> NoStep]
  /\ up = [c \in Conn |-> TRUE]
  /\ publishing = {}
  /\ broken = {}

\* broadcast::Sender::receiver_count.
Receivers(s) == {c \in Conn : \E t \in DOMAIN rx[c] : rx[c][t].sender = s}

Serving(c) == up[c] /\ leaving[c] = {} /\ step[c].at = "none"

Without(f, t) == [u \in DOMAIN f \ {t} |-> f[u]]

\* subscribe_channel, subscribe_pattern: the first subscriber creates the
\* sender; a receiver sees what is sent from now on.
Subscribe(c, t) ==
  /\ Serving(c)
  /\ t \notin DOMAIN rx[c]
  /\ entry[t] = 0 => Len(sent) < MaxSender
  /\ LET fresh == entry[t] = 0
         s == IF fresh THEN Len(sent) + 1 ELSE entry[t]
         r == [sender |-> s, next |-> IF fresh THEN 0 ELSE sent[s]]
     IN  /\ entry' = [entry EXCEPT ![t] = s]
         /\ sent' = IF fresh THEN Append(sent, 0) ELSE sent
         /\ rx' = [rx EXCEPT ![c] =
              [u \in DOMAIN @ \cup {t} |-> IF u = t THEN r ELSE @[u]]]
  /\ UNCHANGED <<leaving, step, up, publishing, broken>>

\* UNSUBSCRIBE and PUNSUBSCRIBE, of some topics or of all.
Unsubscribe(c, T) ==
  /\ Serving(c)
  /\ T # {} /\ T \subseteq DOMAIN rx[c]
  /\ leaving' = [leaving EXCEPT ![c] = T]
  /\ UNCHANGED <<entry, sent, rx, step, up, publishing, broken>>

\* The client disconnects, quits, or violates the protocol: all subscriptions
\* are drained.
Close(c) ==
  /\ Serving(c)
  /\ up' = [up EXCEPT ![c] = FALSE]
  /\ leaving' = [leaving EXCEPT ![c] = DOMAIN rx[c]]
  /\ UNCHANGED <<entry, sent, rx, step, publishing, broken>>

\* A push or a reply cannot be sent: the handler returns the error, in the
\* middle of an UNSUBSCRIBE too, and its receivers are dropped with it.
Break(c) ==
  /\ up[c] /\ step[c].at = "none"
  /\ up' = [up EXCEPT ![c] = FALSE]
  /\ rx' = [rx EXCEPT ![c] = NoTopics]
  /\ leaving' = [leaving EXCEPT ![c] = {}]
  /\ broken' = broken \cup {rx[c][t].sender : t \in DOMAIN rx[c]}
  /\ UNCHANGED <<entry, sent, step, publishing>>

\* Mutant: the receiver is dropped and the registry is not cleaned up.
DropReceiver_NoCleanup(c, t) ==
  /\ step[c].at = "none"
  /\ t \in leaving[c]
  /\ leaving' = [leaving EXCEPT ![c] = @ \ {t}]
  /\ rx' = [rx EXCEPT ![c] = Without(@, t)]
  /\ UNCHANGED <<entry, sent, step, up, publishing, broken>>

\* One topic: drop the receiver ...
DropReceiver(c, t) ==
  /\ step[c].at = "none"
  /\ t \in leaving[c]
  /\ leaving' = [leaving EXCEPT ![c] = @ \ {t}]
  /\ IF t \in DOMAIN rx[c]
     THEN /\ rx' = [rx EXCEPT ![c] = Without(@, t)]
          /\ step' = [step EXCEPT ![c] = [at |-> "count", topic |-> t]]
     ELSE UNCHANGED <<rx, step>>
  /\ UNCHANGED <<entry, sent, up, publishing, broken>>

\* ... then cleanup_channel / cleanup_pattern: read the receiver count ...
Count(c) ==
  /\ step[c].at = "count"
  /\ LET s == entry[step[c].topic] IN
       step' = [step EXCEPT ![c] =
                  IF s # 0 /\ Receivers(s) = {} THEN [@ EXCEPT !.at = "remove"]
                  ELSE NoStep]
  /\ UNCHANGED <<entry, sent, rx, leaving, up, publishing, broken>>

\* ... let go of the entry, and remove it.
Remove(c) ==
  /\ step[c].at = "remove"
  /\ entry' = [entry EXCEPT ![step[c].topic] = 0]
  /\ step' = [step EXCEPT ![c] = NoStep]
  /\ UNCHANGED <<sent, rx, leaving, up, publishing, broken>>

\* PUBLISH: the channel itself and every matching pattern, one after the other.
Publish(ch) ==
  /\ publishing = {}
  /\ \A i \in DOMAIN sent : sent[i] < MaxSent
  /\ publishing' = {ch} \cup {p \in Pattern : <<p, ch>> \in Matches}
  /\ UNCHANGED <<entry, sent, rx, leaving, step, up, broken>>

PublishTo(t) ==
  /\ t \in publishing
  /\ publishing' = publishing \ {t}
  /\ LET s == entry[t] IN
       sent' = IF s # 0 /\ Receivers(s) # {} THEN [sent EXCEPT ![s] = @ + 1]
               ELSE sent
  /\ UNCHANGED <<entry, rx, leaving, step, up, broken>>

\* Mutant: a receiver that is up to date is advanced too.
Deliver_Overrun(c, t) ==
  /\ Serving(c)
  /\ t \in DOMAIN rx[c]
  /\ rx' = [rx EXCEPT ![c][t].next = @ + 1]
  /\ UNCHANGED <<entry, sent, leaving, step, up, publishing, broken>>

\* The handler forwards the next message.  A receiver too far behind gets
\* Lagged and goes on with the oldest message still kept.
Deliver(c, t) ==
  /\ Serving(c)
  /\ t \in DOMAIN rx[c]
  /\ LET r == rx[c][t]
         behind == sent[r.sender] - r.next
     IN  /\ behind > 0
         /\ rx' = [rx EXCEPT ![c][t].next =
                     IF behind > Capacity THEN sent[r.sender] - Capacity ELSE @ + 1]
  /\ UNCHANGED <<entry, sent, leaving, step, up, publishing, broken>>

\* The sender is gone and everything was received: the stream ends, and the
\* StreamMap forgets the subscription.
StreamEnds(c, t) ==
  /\ Serving(c)
  /\ t \in DOMAIN rx[c]
  /\ rx[c][t].sender \notin {entry[u] : u \in Topic}
  /\ rx[c][t].next = sent[rx[c][t].sender]
  /\ rx' = [rx EXCEPT ![c] = Without(@, t)]
  /\ UNCHANGED <<entry, sent, leaving, step, up, publishing, broken>>

\* Another client connects in its place.
Connect(c) ==
  /\ ~up[c]
  /\ leaving[c] = {} /\ step[c].at = "none"
  /\ up' = [up EXCEPT ![c] = TRUE]
  /\ UNCHANGED <<entry, sent, rx, leaving, step, publishing, broken>>

PubSubNext ==
  \/ \E c \in Conn :
       \/ \E t \in Topic : \/ Subscribe(c, t) \/ DropReceiver(c, t)
                           \/ Deliver(c, t) \/ StreamEnds(c, t)
       \/ \E T \in SUBSET Topic : Unsubscribe(c, T)
       \/ Close(c) \/ Break(c) \/ Count(c) \/ Remove(c) \/ Connect(c)
  \/ \E ch \in Channel : Publish(ch)
  \/ \E t \in Topic : PublishTo(t)

PubSubSpec == PubSubInit /\ [][PubSubNext]_psVars

-------------------------------------------------------------------------------
(* Properties.                                                             *)

\* Every variable keeps its shape; a receiver's cursor points into what was
\* sent into its sender (broadcast::Receiver), never past it.
PubSubTypeOK ==
  /\ entry \in [Topic -> 0..MaxSender]
  /\ sent \in Seq(Nat)
  /\ \A c \in Conn : /\ DOMAIN rx[c] \subseteq Topic
                     /\ \A t \in DOMAIN rx[c] :
                          /\ rx[c][t].sender \in DOMAIN sent
                          /\ rx[c][t].next \in 0..sent[rx[c][t].sender]
  /\ leaving \in [Conn -> SUBSET Topic]
  /\ step \in [Conn -> [at: {"none", "count", "remove"}, topic: Topic]]
  /\ up \in [Conn -> BOOLEAN]
  /\ publishing \subseteq Topic
  /\ broken \subseteq DOMAIN sent

\* cleanup_channel "must be called after every unsubscribe so dead entries
\* don't accumulate": a registered sender has a receiver, or a connection is
\* about to clean it up.  The exception is a sender that lost a receiver to a
\* failed connection, whose handler returns without any cleanup.
NoDeadEntries ==
  \A t \in Topic : entry[t] # 0 =>
    \/ Receivers(entry[t]) # {}
    \/ entry[t] \in broken
    \/ \E c \in Conn : step[c].at # "none" /\ step[c].topic = t
===============================================================================

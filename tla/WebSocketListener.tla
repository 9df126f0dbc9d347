-------------------------- MODULE WebSocketListener --------------------------
(***************************************************************************)
(* Class WebSocketListener (websocket_listener.py) against a node.          *)
(* connect_and_listen sends the newHeads and then the                      *)
(* newPendingTransactions eth_subscribe request, each with                 *)
(* self.request_id after an increment, then runs listen_for_events, which  *)
(* hands every message to handle_message.  handle_message takes a message  *)
(* with an id as a subscription answer (id 1: newHeads, id 2:              *)
(* newPendingTransactions) and counts an eth_subscription notification as  *)
(* a block or a transaction by comparing its subscription id with the     *)
(* ones stored.                                                            *)
(*                                                                         *)
(* The websocket is one ordered stream each way.  The node answers each    *)
(* subscribe in order, with a fresh subscription id or with an error (no   *)
(* "result": the listener stores None), and then may send notifications  *)
(* on each subscription it granted.  Each notification carries the topic  *)
(* it belongs to as a ghost field, so the counts can be checked.          *)
(***************************************************************************)
EXTENDS Integers, Sequences

CONSTANTS
    SubIds,      \* subscription ids the node hands out (model values)
    MaxEvents,   \* notifications the node sends per subscription
    None         \* Python None: a subscribe answered without a result

Topics == {"newHeads", "newPendingTransactions"}

ASSUME MaxEvents \in Nat /\ None \notin SubIds

VARIABLES
    pc,              \* connect_and_listen: "blocks", "txs", then "listen"
    requestId,       \* self.request_id
    subscriptions,   \* self.subscriptions: topic -> id, for the keys set
    toNode,          \* subscribe requests in flight: <<[id, topic], ...>>
    toClient,        \* messages in flight to the listener
    granted,         \* node side: topic -> subscription id, for those granted
    sent,            \* node side: notifications sent per topic
    blockCount,      \* listen_for_events' block_count
    txCount,         \* listen_for_events' tx_count
    handled          \* ghost: notifications handle_message consumed, per topic

vars == <<pc, requestId, subscriptions, toNode, toClient, granted, sent,
          blockCount, txCount, handled>>

Answer == [kind : {"answer"}, id : Nat, result : SubIds \cup {None}]
Notification == [kind : {"notify"}, sub : SubIds, topic : Topics]

TypeOK ==
    /\ pc \in {"blocks", "txs", "listen"}
    /\ requestId \in 0..2
    /\ DOMAIN subscriptions \subseteq Topics
    /\ \A t \in DOMAIN subscriptions : subscriptions[t] \in SubIds \cup {None}
    /\ toNode \in Seq([id : 1..2, topic : Topics])
    /\ toClient \in Seq(Answer \cup Notification)
    /\ DOMAIN granted \subseteq Topics
    /\ sent \in [Topics -> 0..MaxEvents]
    /\ blockCount \in Nat /\ txCount \in Nat
    /\ handled \in [Topics -> 0..MaxEvents]

\* __init__: request_id = 0, subscriptions = {}; the node has granted nothing.
Init ==
    /\ pc = "blocks"
    /\ requestId = 0
    /\ subscriptions = <<>>
    /\ toNode = <<>>
    /\ toClient = <<>>
    /\ granted = <<>>
    /\ sent = [t \in Topics |-> 0]
    /\ blockCount = 0 /\ txCount = 0
    /\ handled = [t \in Topics |-> 0]

\* Add or overwrite one key of a dict.
Put(f, k, v) == [x \in DOMAIN f \cup {k} |-> IF x = k THEN v ELSE f[x]]

\* A faulty subscribe that sends the id before incrementing it.
SubscribeIdBeforeIncrement(topic) ==
    /\ requestId' = requestId + 1
    /\ toNode' = Append(toNode, [id |-> requestId, topic |-> topic])

\* subscribe_to_blocks / subscribe_to_transactions: request_id += 1 and send
\* an eth_subscribe with that id.
Subscribe(topic) ==
    /\ requestId' = requestId + 1
    /\ toNode' = Append(toNode, [id |-> requestId + 1, topic |-> topic])

\* A faulty connect_and_listen that subscribes to transactions first.
SubscribeStepsSwapped ==
    \/ /\ pc = "blocks" /\ Subscribe("newPendingTransactions") /\ pc' = "txs"
    \/ /\ pc = "txs" /\ Subscribe("newHeads") /\ pc' = "listen"

\* connect_and_listen: subscribe to blocks, then to transactions, then listen.
SubscribeSteps ==
    \/ /\ pc = "blocks" /\ Subscribe("newHeads") /\ pc' = "txs"
    \/ /\ pc = "txs" /\ Subscribe("newPendingTransactions") /\ pc' = "listen"

ClientSubscribe ==
    /\ SubscribeSteps
    /\ UNCHANGED <<subscriptions, toClient, granted, sent, blockCount, txCount, handled>>

\* The node answers the oldest subscribe: a fresh subscription id, or an
\* error response without a result.
NodeAnswer ==
    /\ toNode # <<>>
    /\ LET r == Head(toNode)
           free == SubIds \ {granted[t] : t \in DOMAIN granted}
       IN  \/ \E s \in free :
                 /\ granted' = Put(granted, r.topic, s)
                 /\ toClient' = Append(toClient, [kind |-> "answer", id |-> r.id, result |-> s])
           \/ /\ toClient' = Append(toClient, [kind |-> "answer", id |-> r.id, result |-> None])
              /\ UNCHANGED granted
    /\ toNode' = Tail(toNode)
    /\ UNCHANGED <<pc, requestId, subscriptions, sent, blockCount, txCount, handled>>

\* The node sends a notification on a subscription it granted.
NodeNotify(t) ==
    /\ t \in DOMAIN granted /\ sent[t] < MaxEvents
    /\ toClient' = Append(toClient, [kind |-> "notify", sub |-> granted[t], topic |-> t])
    /\ sent' = [sent EXCEPT ![t] = @ + 1]
    /\ UNCHANGED <<pc, requestId, subscriptions, toNode, granted, blockCount, txCount, handled>>

\* handle_message on a message with an "id": store the subscription id
\* under the topic the hard-coded id stands for; other ids are ignored.
HandleAnswer(msg) ==
    /\ subscriptions' =
          CASE msg.id = 1 -> Put(subscriptions, "newHeads", msg.result)
            [] msg.id = 2 -> Put(subscriptions, "newPendingTransactions", msg.result)
            [] OTHER      -> subscriptions
    /\ UNCHANGED <<blockCount, txCount, handled>>

\* subscriptions.get(topic): None for a key not set.
Stored(t) == IF t \in DOMAIN subscriptions THEN subscriptions[t] ELSE None

\* handle_message on an eth_subscription notification: a block if its id is
\* the newHeads one, else a transaction if it is the other one, else nothing.
HandleNotify(msg) ==
    /\ blockCount' = IF msg.sub = Stored("newHeads") THEN blockCount + 1 ELSE blockCount
    /\ txCount' = IF msg.sub # Stored("newHeads") /\ msg.sub = Stored("newPendingTransactions")
                  THEN txCount + 1 ELSE txCount
    /\ handled' = [handled EXCEPT ![msg.topic] = @ + 1]
    /\ UNCHANGED subscriptions

\* listen_for_events: the next message off the socket, through handle_message.
Receive ==
    /\ pc = "listen" /\ toClient # <<>>
    /\ LET msg == Head(toClient)
       IN  IF msg.kind = "answer" THEN HandleAnswer(msg) ELSE HandleNotify(msg)
    /\ toClient' = Tail(toClient)
    /\ UNCHANGED <<pc, requestId, toNode, granted, sent>>

Next ==
    \/ ClientSubscribe
    \/ NodeAnswer
    \/ \E t \in Topics : NodeNotify(t)
    \/ Receive

Spec == Init /\ [][Next]_vars

-----------------------------------------------------------------------------
\* The count listen_for_events keeps for a topic.
CountOf(t) == IF t = "newHeads" THEN blockCount ELSE txCount

(***************************************************************************)
(* handle_message counts every notification under its own topic: the      *)
(* block count is the number of newHeads notifications handled and the    *)
(* transaction count that of newPendingTransactions ones, whichever       *)
(* subscribes the node grants or refuses.  This rests on the ids 1 and 2  *)
(* hard-coded in handle_message being the ids the two subscribe calls     *)
(* draw from self.request_id, in the order connect_and_listen makes them. *)
(***************************************************************************)
CountsMatch == \A t \in Topics : CountOf(t) = handled[t]

=============================================================================

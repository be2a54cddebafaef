------------------------------ MODULE RabbitMQ ------------------------------
(***************************************************************************)
(* The RabbitMQ client of core/src/utils/ipc/rmq: Publishers and Consumers *)
(* that share one set of RMQOptions, each on a connection of its own, in   *)
(* threads or processes of their own.  The broker and SimpleAmqpClient are *)
(* external: they are modelled as the client uses them, with the default   *)
(* arguments of BasicConsume() (exclusive, acknowledged on delivery).      *)
(***************************************************************************)
EXTENDS Naturals, Sequences, SequencesExt

CONSTANTS
    Publishers, Consumers,
    MaxMessages,    \* bound on the messages of a publisher
    Nobody          \* the consumer of a queue without one

ASSUME ClientsAssumption ==
    /\ Publishers \intersect Consumers = {}
    /\ Nobody \notin Consumers
    /\ MaxMessages \in Nat

Entities == Publishers \union Consumers

VARIABLES
    options,        \* whether routing_key is empty or the queue's name; queue_auto_delete
    broker,         \* its exchange and queue, the messages in it, and its consumer
    entity,         \* each object's step, and whether its connection is up
    inbox,          \* the messages a consumer's channel has got and not given out
    sent,           \* how many messages each publisher has tried to publish
    accepted,       \* the messages publish() has returned for
    received,       \* what each consumer's consume() has returned
    lost            \* history: messages delivered to a consumer, and so acknowledged,
                    \* that consume() has not returned and never will

vars == <<options, broker, entity, inbox, sent, accepted, received, lost>>

WithoutQueue(exchange) ==
    [exchange |-> exchange, queue |-> FALSE, messages |-> <<>>, consumer |-> Nobody]

Init ==
    /\ options \in [own_key : BOOLEAN, auto_delete : BOOLEAN]
    /\ broker = WithoutQueue(FALSE)
    /\ entity = [e \in Entities |-> [pc |-> "none", up |-> FALSE]]
    /\ inbox = [c \in Consumers |-> <<>>]
    /\ sent = [p \in Publishers |-> 0]
    /\ accepted = {}
    /\ received = [c \in Consumers |-> <<>>]
    /\ lost = {}

traffic == <<inbox, sent, accepted, received, lost>>

Is(e, pc) == entity[e].pc = pc
Goes(e, pc) == entity' = [entity EXCEPT ![e].pc = pc]
Up(e) == entity[e].up

-----------------------------------------------------------------------------
(* Construction *)

Open(e) ==
    /\ Is(e, "none")
    /\ entity' = [entity EXCEPT ![e] =
            [pc |-> IF e \in Publishers THEN "checkExchange" ELSE "checkQueue", up |-> TRUE]]
    /\ UNCHANGED <<options, broker, traffic>>

\* The check fails also if it throws, whatever the reason.
CheckExchange(e) ==
    /\ Is(e, "checkExchange")
    /\ Goes(e, IF Up(e) /\ broker.exchange THEN "checkQueue" ELSE "declareExchange")
    /\ UNCHANGED <<options, broker, traffic>>

\* To declare what is there already, with the same options, does nothing.
DeclareExchange(e) ==
    /\ Is(e, "declareExchange")
    /\ Up(e)
    /\ broker' = [broker EXCEPT !.exchange = TRUE]
    /\ Goes(e, "checkQueue")
    /\ UNCHANGED <<options, traffic>>

\* (mutated) Takes a check that throws for a queue that is there.
CheckQueueHopefully(e) ==
    /\ Is(e, "checkQueue")
    /\ Goes(e, IF e \in Publishers THEN "ready" ELSE "subscribe")
    /\ UNCHANGED <<options, broker, traffic>>

CheckQueue(e) ==
    /\ Is(e, "checkQueue")
    /\ Goes(e, IF ~(Up(e) /\ broker.queue) THEN "declareQueue"
               ELSE IF e \in Publishers THEN "ready" ELSE "subscribe")
    /\ UNCHANGED <<options, broker, traffic>>

DeclareQueue(e) ==
    /\ Is(e, "declareQueue")
    /\ Up(e)
    /\ broker' = [broker EXCEPT !.queue = TRUE]
    /\ Goes(e, IF e \in Publishers THEN "ready" ELSE "subscribe")
    /\ UNCHANGED <<options, traffic>>

Subscribe(c) ==
    /\ Is(c, "subscribe")
    /\ Up(c)
    /\ broker.queue
    /\ broker.consumer = Nobody
    /\ broker' = [broker EXCEPT !.consumer = c]
    /\ Goes(c, "ready")
    /\ UNCHANGED <<options, traffic>>

\* Without a connection, or without the queue to itself, a constructor throws,
\* and its channel is closed.
ConstructorThrows(e) ==
    /\ \/ Is(e, "declareExchange") /\ ~Up(e)
       \/ Is(e, "declareQueue") /\ ~Up(e)
       \/ Is(e, "subscribe") /\ (~Up(e) \/ ~broker.queue \/ broker.consumer # Nobody)
    /\ entity' = [entity EXCEPT ![e] = [pc |-> "none", up |-> FALSE]]
    /\ UNCHANGED <<options, broker, traffic>>

-----------------------------------------------------------------------------
(* publish() *)

\* The exchange is the default one, as the Publisher's own options were never
\* set: the routing key names the queue.
Routed(m) ==
    IF broker.queue /\ ~options.own_key
    THEN broker' = [broker EXCEPT !.messages = Append(@, m)]
    ELSE UNCHANGED broker

Message(p) == [from |-> p, number |-> sent[p] + 1]

Publish(p) ==
    /\ Is(p, "ready")
    /\ Up(p)
    /\ sent[p] < MaxMessages
    /\ Routed(Message(p))
    /\ sent' = [sent EXCEPT ![p] = @ + 1]
    /\ accepted' = accepted \union {Message(p)}
    /\ UNCHANGED <<options, entity, inbox, received, lost>>

\* (mutated) Publishes the message again after an exception.
PublishThrowsAndRetries(p) ==
    /\ Is(p, "ready")
    /\ sent[p] < MaxMessages
    /\ \/ UNCHANGED <<broker, entity>>
       \/ Up(p) /\ Routed(Message(p)) /\ UNCHANGED entity
    /\ UNCHANGED <<options, inbox, sent, accepted, received, lost>>

\* publish() throws: serialize() or dump() does, there is no connection, or it is
\* lost before the broker's answer.
PublishThrows(p) ==
    /\ Is(p, "ready")
    /\ sent[p] < MaxMessages
    /\ \/ UNCHANGED <<broker, entity>>
       \/ Up(p) /\ Routed(Message(p)) /\ entity' = [entity EXCEPT ![p].up = FALSE]
    /\ sent' = [sent EXCEPT ![p] = @ + 1]
    /\ UNCHANGED <<options, inbox, accepted, received, lost>>

-----------------------------------------------------------------------------
(* consume() and stop() *)

\* A message is acknowledged, and leaves the queue, when it is delivered.
Deliver(c) ==
    /\ broker.consumer = c
    /\ broker.messages # <<>>
    /\ inbox' = [inbox EXCEPT ![c] = Append(@, Head(broker.messages))]
    /\ broker' = [broker EXCEPT !.messages = Tail(@)]
    /\ UNCHANGED <<options, entity, sent, accepted, received, lost>>

\* BasicConsumeMessage() takes the first message.  An empty inbox until the
\* timeout, or an exception of the channel, changes nothing.
Take(c) ==
    /\ Is(c, "ready")
    /\ inbox[c] # <<>>
    /\ inbox' = [inbox EXCEPT ![c] = Tail(@)]

Consume(c) ==
    /\ Take(c)
    /\ received' = [received EXCEPT ![c] = Append(@, Head(inbox[c]))]
    /\ UNCHANGED <<options, broker, entity, sent, accepted, lost>>

\* json::parse() or T's constructor throws: the message has been taken.
ConsumeThrows(c) ==
    /\ Take(c)
    /\ lost' = lost \union {Head(inbox[c])}
    /\ UNCHANGED <<options, broker, entity, sent, accepted, received>>

\* The messages after the first n do not come out of the channel of c any more.
Drop(c, n) ==
    /\ inbox' = [inbox EXCEPT ![c] = SubSeq(@, 1, n)]
    /\ lost' = lost \union {inbox[c][i] : i \in n + 1 .. Len(inbox[c])}

\* The queue without its consumer; one that is auto-deleted goes with it.
Unsubscribed(c) ==
    IF broker.consumer # c THEN broker
    ELSE IF options.auto_delete THEN WithoutQueue(broker.exchange)
    ELSE [broker EXCEPT !.consumer = Nobody]

\* stop(), or the destructor that calls it, closes the channel; a second stop()
\* finds it closed.
Stop(c) ==
    /\ Is(c, "ready")
    /\ Up(c)
    /\ broker' = Unsubscribed(c)
    /\ entity' = [entity EXCEPT ![c] = [pc |-> "stopped", up |-> FALSE]]
    /\ Drop(c, 0)
    /\ UNCHANGED <<options, sent, accepted, received>>

\* BasicCancel() throws without a connection: stop() leaves the channel as it is,
\* and from the destructor the exception ends the program.
DestroyTerminates(c) ==
    /\ Is(c, "ready")
    /\ ~Up(c)
    /\ Goes(c, "terminated")
    /\ Drop(c, 0)
    /\ UNCHANGED <<options, broker, sent, accepted, received>>

\* consume() of a stopped Consumer dereferences the channel that is gone.
ConsumeStopped(c) ==
    /\ Is(c, "stopped")
    /\ Goes(c, "terminated")
    /\ UNCHANGED <<options, broker, traffic>>

\* An object is destroyed, and its like constructed in its place.
Destroy(e) ==
    /\ \/ e \in Consumers /\ Is(e, "stopped")
       \/ e \in Publishers /\ Is(e, "ready")
    /\ entity' = [entity EXCEPT ![e] = [pc |-> "none", up |-> FALSE]]
    /\ UNCHANGED <<options, broker, traffic>>

-----------------------------------------------------------------------------
Disconnect(e) ==
    /\ Up(e)
    /\ entity' = [entity EXCEPT ![e].up = FALSE]
    /\ broker' = Unsubscribed(e)
    /\ UNCHANGED <<options, sent, accepted, received>>

PublisherDisconnects(p) == Disconnect(p) /\ UNCHANGED <<inbox, lost>>

\* What the consumer's channel has read stays in its memory; what is under way
\* to it is gone, as the broker has taken it for acknowledged.
ConsumerDisconnects(c) == Disconnect(c) /\ \E n \in 0..Len(inbox[c]) : Drop(c, n)

Next ==
    \/ \E e \in Entities :
        \/ Open(e) \/ CheckExchange(e) \/ DeclareExchange(e)
        \/ CheckQueue(e) \/ DeclareQueue(e) \/ ConstructorThrows(e)
        \/ Destroy(e)
    \/ \E p \in Publishers : Publish(p) \/ PublishThrows(p) \/ PublisherDisconnects(p)
    \/ \E c \in Consumers :
        \/ Subscribe(c) \/ Deliver(c) \/ Consume(c) \/ ConsumeThrows(c)
        \/ Stop(c) \/ DestroyTerminates(c) \/ ConsumeStopped(c) \/ ConsumerDisconnects(c)

Spec == Init /\ [][Next]_vars

-----------------------------------------------------------------------------
(* Properties *)

Messages == [from : Publishers, number : Nat]

TypeOK ==
    /\ options \in [own_key : BOOLEAN, auto_delete : BOOLEAN]
    /\ broker \in [exchange : BOOLEAN, queue : BOOLEAN, messages : Seq(Messages),
                   consumer : Consumers \union {Nobody}]
    /\ entity \in [Entities -> [pc : {"none", "checkExchange", "declareExchange", "checkQueue",
                                     "declareQueue", "subscribe", "ready", "stopped", "terminated"},
                               up : BOOLEAN]]
    /\ inbox \in [Consumers -> Seq(Messages)]
    /\ sent \in [Publishers -> Nat]
    /\ accepted \subseteq Messages
    /\ received \in [Consumers -> Seq(Messages)]
    /\ lost \subseteq Messages

\* Where a message can be that the broker has put in the queue.
Has(c) == ToSet(inbox[c]) \union ToSet(received[c])
Kept == ToSet(broker.messages) \union lost \union UNION {Has(c) : c \in Consumers}

\* A message for which publish() has returned is in the queue, or was delivered
\* to a consumer that has it, has given it out or has lost it, if the key is the
\* queue's and the queue is not deleted with its consumer: whoever declares the
\* queue does so before the first message (Publisher.tpp:32-46).
AcceptedIsKept == ~options.own_key /\ ~options.auto_delete => accepted \subseteq Kept

\* No message is given out twice, whatever connections fail, and no consumer gets
\* two messages of a publisher in the wrong order (Consumer.tpp:31-52, Publisher.
\* tpp:67-76: an exception is not answered with a retry).
ReceivedOnceInOrder ==
    \A c, d \in Consumers :
        \A i \in DOMAIN received[c], j \in DOMAIN received[d] :
            LET m == received[c][i]
                n == received[d][j]
            IN  /\ m = n => c = d /\ i = j
                /\ (c = d /\ i < j /\ m.from = n.from) => m.number < n.number
=============================================================================

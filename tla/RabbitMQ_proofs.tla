--------------------------- MODULE RabbitMQ_proofs ---------------------------
(***************************************************************************)
(* Proofs about RabbitMQ, for any number of publishers, consumers and      *)
(* messages: what publish() has accepted is kept, and what consumers give  *)
(* out comes once and in order.                                            *)
(***************************************************************************)
EXTENDS RabbitMQ, TLAPS

\* A message appended is one more in a sequence.
LEMMA AppendAdds ==
    ASSUME NEW s \in Seq(Messages), NEW m \in Messages
    PROVE  /\ Append(s, m) \in Seq(Messages)
           /\ ToSet(Append(s, m)) = ToSet(s) \union {m}
<1> DEFINE t == Append(s, m)
<1>1. t \in Seq(Messages) /\ Len(t) = Len(s) + 1 /\ Len(s) \in Nat
  OBVIOUS
<1>2. t[Len(s) + 1] = m /\ \A i \in 1..Len(s) : t[i] = s[i]
  OBVIOUS
<1>3. DOMAIN t = 1..(Len(s) + 1) /\ DOMAIN s = 1..Len(s)
  BY <1>1
<1>4. ToSet(t) \subseteq ToSet(s) \union {m}
  <2> SUFFICES ASSUME NEW i \in 1..(Len(s) + 1) PROVE t[i] \in ToSet(s) \union {m}
    BY <1>3 DEF ToSet
  <2>1. i = Len(s) + 1 \/ i \in 1..Len(s)
    BY <1>1
  <2> HIDE DEF t
  <2> QED BY <2>1, <1>2, <1>3 DEF ToSet
<1>5. ToSet(s) \union {m} \subseteq ToSet(t)
  <2>1. 1..Len(s) \subseteq 1..(Len(s) + 1) /\ Len(s) + 1 \in 1..(Len(s) + 1)
    BY <1>1
  <2> HIDE DEF t
  <2> QED BY <2>1, <1>2, <1>3 DEF ToSet
<1> HIDE DEF t
<1>6. t \in Seq(Messages) /\ ToSet(t) = ToSet(s) \union {m}
  BY <1>1, <1>4, <1>5
<1> QED BY <1>6 DEF t

\* The first message taken is one less in a sequence.
LEMMA HeadAndTail ==
    ASSUME NEW s \in Seq(Messages), s # <<>>
    PROVE  /\ Head(s) \in Messages
           /\ Tail(s) \in Seq(Messages)
           /\ ToSet(s) = {Head(s)} \union ToSet(Tail(s))
<1> DEFINE t == Tail(s)
<1>1. Len(s) \in Nat \ {0} /\ Len(t) = Len(s) - 1 /\ t \in Seq(Messages) /\ s[1] = Head(s)
  OBVIOUS
<1>2. DOMAIN t = 1..(Len(s) - 1) /\ DOMAIN s = 1..Len(s)
  BY <1>1
<1>3. \A i \in 1..(Len(s) - 1) : t[i] = s[i + 1]
  BY <1>1
<1>4. Head(s) \in Messages
  BY <1>1, <1>2
<1> HIDE DEF t
<1>5. ToSet(s) \subseteq {Head(s)} \union ToSet(t)
  <2> SUFFICES ASSUME NEW i \in 1..Len(s), i # 1 PROVE s[i] \in ToSet(t)
    BY <1>1, <1>2 DEF ToSet
  <2>1. i - 1 \in 1..(Len(s) - 1) /\ (i - 1) + 1 = i
    BY <1>1
  <2> QED BY <2>1, <1>2, <1>3 DEF ToSet
<1>6. {Head(s)} \union ToSet(t) \subseteq ToSet(s)
  <2>1. 1 \in 1..Len(s) /\ \A i \in 1..(Len(s) - 1) : i + 1 \in 1..Len(s)
    BY <1>1
  <2> QED BY <2>1, <1>1, <1>2, <1>3 DEF ToSet
<1>7. Head(s) \in Messages /\ t \in Seq(Messages) /\ ToSet(s) = {Head(s)} \union ToSet(t)
  BY <1>1, <1>4, <1>5, <1>6
<1> QED BY <1>7 DEF t

\* The first messages and the others are the sequence.
LEMMA PrefixAndRest ==
    ASSUME NEW s \in Seq(Messages), NEW n \in 0..Len(s)
    PROVE  /\ SubSeq(s, 1, n) \in Seq(Messages)
           /\ DOMAIN SubSeq(s, 1, n) = 1..n /\ 1..n \subseteq DOMAIN s
           /\ \A i \in 1..n : SubSeq(s, 1, n)[i] = s[i]
           /\ ToSet(SubSeq(s, 1, n)) \subseteq ToSet(s)
           /\ ToSet(s) = ToSet(SubSeq(s, 1, n)) \union {s[i] : i \in n + 1 .. Len(s)}
<1> DEFINE t == SubSeq(s, 1, n)
<1>1. t \in Seq(Messages) /\ Len(t) = n /\ n \in Nat /\ Len(s) \in Nat
  OBVIOUS
<1>2. \A i \in 1..n : t[i] = s[i]
  OBVIOUS
<1>3. DOMAIN t = 1..n /\ DOMAIN s = 1..Len(s) /\ 1..n \subseteq DOMAIN s
  BY <1>1
<1> HIDE DEF t
<1>4. ToSet(t) \subseteq ToSet(s)
  BY <1>2, <1>3 DEF ToSet
<1>5. ToSet(s) \subseteq ToSet(t) \union {s[i] : i \in n + 1 .. Len(s)}
  <2> SUFFICES ASSUME NEW i \in 1..Len(s), i \notin n + 1 .. Len(s)
               PROVE  s[i] \in ToSet(t)
    BY <1>3 DEF ToSet
  <2>1. i \in 1..n
    BY <1>1
  <2> QED BY <2>1, <1>2, <1>3 DEF ToSet
<1>6. {s[i] : i \in n + 1 .. Len(s)} \subseteq ToSet(s)
  <2>1. n + 1 .. Len(s) \subseteq 1..Len(s)
    BY <1>1
  <2> QED BY <2>1, <1>3 DEF ToSet
<1> QED BY <1>1, <1>2, <1>3, <1>4, <1>5, <1>6 DEF t

\* What a channel drops is lost, and what it had is either there or lost.
LEMMA DropLoses ==
    ASSUME TypeOK, NEW c \in Consumers, NEW n \in 0..Len(inbox[c]), Drop(c, n)
    PROVE  /\ inbox' \in [Consumers -> Seq(Messages)]
           /\ inbox'[c] = SubSeq(inbox[c], 1, n)
           /\ \A d \in Consumers : d # c => inbox'[d] = inbox[d]
           /\ lost' \subseteq Messages /\ lost \subseteq lost'
           /\ ToSet(inbox[c]) \subseteq ToSet(inbox'[c]) \union lost'
<1>1. /\ inbox' = [inbox EXCEPT ![c] = SubSeq(inbox[c], 1, n)]
      /\ lost' = lost \union {inbox[c][i] : i \in n + 1 .. Len(inbox[c])}
  BY DEF Drop
<1>2. inbox[c] \in Seq(Messages) /\ inbox \in [Consumers -> Seq(Messages)] /\ lost \subseteq Messages
  BY DEF TypeOK
<1>3. /\ SubSeq(inbox[c], 1, n) \in Seq(Messages)
      /\ ToSet(inbox[c]) = ToSet(SubSeq(inbox[c], 1, n)) \union
                             {inbox[c][i] : i \in n + 1 .. Len(inbox[c])}
  BY <1>2, PrefixAndRest
<1>4. ToSet(inbox[c]) \subseteq Messages
  BY <1>2 DEF ToSet
<1>5. inbox'[c] = SubSeq(inbox[c], 1, n) /\ \A d \in Consumers : d # c => inbox'[d] = inbox[d]
  BY <1>1, <1>2
<1>6. inbox' \in [Consumers -> Seq(Messages)]
  BY <1>1, <1>2, <1>3
<1>7. {inbox[c][i] : i \in n + 1 .. Len(inbox[c])} \subseteq Messages
  BY <1>3, <1>4
<1> QED BY <1>1, <1>2, <1>3, <1>5, <1>6, <1>7

\* The steps that drop messages of one channel.
LEMMA WhoDrops ==
    ASSUME TypeOK, NEW c \in Consumers,
           Stop(c) \/ DestroyTerminates(c) \/ ConsumerDisconnects(c)
    PROVE  \E n \in 0..Len(inbox[c]) : Drop(c, n)
<1>1. 0 \in 0..Len(inbox[c])
  BY DEF TypeOK
<1> QED BY <1>1 DEF Stop, DestroyTerminates, ConsumerDisconnects

-----------------------------------------------------------------------------
(* Type correctness *)

\* What a broker is.
Brokers == [exchange : BOOLEAN, queue : BOOLEAN, messages : Seq(Messages),
            consumer : Consumers \union {Nobody}]

\* The broker without a queue, or without its consumer, is a broker.
LEMMA UnsubscribedTypes ==
    ASSUME TypeOK, NEW e \in Entities
    PROVE  Unsubscribed(e) \in Brokers
<1>1. broker \in Brokers /\ Nobody \in Consumers \union {Nobody}
  BY DEF TypeOK, Brokers
<1>2. <<>> \in Seq(Messages)
  OBVIOUS
<1>3. WithoutQueue(broker.exchange) \in Brokers
  BY <1>1, <1>2 DEF WithoutQueue, Brokers
<1>4. [broker EXCEPT !.consumer = Nobody] \in Brokers
  BY <1>1 DEF Brokers
<1> QED BY <1>1, <1>3, <1>4 DEF Unsubscribed

\* So is the broker with a message more.
LEMMA RoutedTypes ==
    ASSUME TypeOK, NEW m \in Messages, Routed(m)
    PROVE  broker' \in Brokers
<1>1. broker \in Brokers
  BY DEF TypeOK, Brokers
<1>2. Append(broker.messages, m) \in Seq(Messages)
  BY AppendAdds DEF TypeOK
<1>3. [broker EXCEPT !.messages = Append(@, m)] \in Brokers
  BY <1>1, <1>2 DEF Brokers
<1> QED BY <1>1, <1>3 DEF Routed

\* No step leaves the types of the variables.
LEMMA TypesStep ==
    ASSUME TypeOK, [Next]_vars
    PROVE  TypeOK'
<1> USE DEF Entities
<1>1. CASE UNCHANGED vars
  BY <1>1 DEF vars, TypeOK
<1>2. ASSUME NEW e \in Entities,
             \/ Open(e) \/ CheckExchange(e) \/ DeclareExchange(e)
             \/ CheckQueue(e) \/ DeclareQueue(e) \/ ConstructorThrows(e)
             \/ Destroy(e)
      PROVE  TypeOK'
  <2>1. CASE Open(e)
    BY <2>1 DEF Open, traffic, TypeOK
  <2>2. CASE CheckExchange(e)
    BY <2>2 DEF CheckExchange, Goes, traffic, TypeOK
  <2>3. CASE DeclareExchange(e)
    BY <2>3 DEF DeclareExchange, Goes, traffic, TypeOK
  <2>4. CASE CheckQueue(e)
    BY <2>4 DEF CheckQueue, Goes, traffic, TypeOK
  <2>5. CASE DeclareQueue(e)
    BY <2>5 DEF DeclareQueue, Goes, traffic, TypeOK
  <2>6. CASE ConstructorThrows(e) \/ Destroy(e)
    <3>1. entity' = [entity EXCEPT ![e] = [pc |-> "none", up |-> FALSE]]
          /\ UNCHANGED <<options, broker, traffic>>
      BY <2>6 DEF ConstructorThrows, Destroy
    <3> QED BY <3>1 DEF traffic, TypeOK
  <2> QED BY <1>2, <2>1, <2>2, <2>3, <2>4, <2>5, <2>6
<1>3. ASSUME NEW p \in Publishers, Publish(p) \/ PublishThrows(p)
      PROVE  TypeOK'
  <2>1. Message(p) \in Messages
    BY DEF Message, Messages, TypeOK
  <2>2. broker' \in Brokers
    <3>1. Routed(Message(p)) \/ UNCHANGED broker
      BY <1>3 DEF Publish, PublishThrows
    <3> QED BY <3>1, <2>1, RoutedTypes DEF TypeOK, Brokers
  <2>3. CASE Publish(p)
    BY <2>1, <2>2, <2>3 DEF Publish, TypeOK, Brokers
  <2>4. CASE PublishThrows(p)
    <3>1. entity' = entity \/ entity' = [entity EXCEPT ![p].up = FALSE]
      BY <2>4 DEF PublishThrows
    <3>2. /\ sent' = [sent EXCEPT ![p] = @ + 1]
          /\ UNCHANGED <<options, inbox, accepted, received, lost>>
      BY <2>4 DEF PublishThrows
    <3>3. CASE entity' = entity
      BY <2>2, <3>2, <3>3 DEF TypeOK, Brokers
    <3>4. CASE entity' = [entity EXCEPT ![p].up = FALSE]
      <4>1. p \in Entities /\ p \in DOMAIN sent
        BY DEF TypeOK
      <4>2. sent' \in [Publishers -> Nat]
        BY <3>2 DEF TypeOK
      <4>3. entity' \in [Entities -> [pc : {"none", "checkExchange", "declareExchange", "checkQueue",
                                           "declareQueue", "subscribe", "ready", "stopped",
                                           "terminated"}, up : BOOLEAN]]
        BY <3>4, <4>1 DEF TypeOK
      <4> QED BY <2>2, <3>2, <4>2, <4>3 DEF TypeOK, Brokers
    <3> QED BY <3>1, <3>3, <3>4
  <2> QED BY <1>3, <2>3, <2>4
<1>4. ASSUME NEW p \in Publishers, PublisherDisconnects(p)
      PROVE  TypeOK'
  BY <1>4, UnsubscribedTypes DEF Brokers, PublisherDisconnects, Disconnect, TypeOK
<1>5. ASSUME NEW c \in Consumers,
             \/ Subscribe(c) \/ Deliver(c) \/ Consume(c) \/ ConsumeThrows(c)
             \/ Stop(c) \/ DestroyTerminates(c) \/ ConsumeStopped(c) \/ ConsumerDisconnects(c)
      PROVE  TypeOK'
  <2>1. CASE Subscribe(c)
    BY <2>1 DEF Subscribe, Goes, traffic, TypeOK
  <2>2. CASE Deliver(c)
    <3>1. /\ Head(broker.messages) \in Messages /\ Tail(broker.messages) \in Seq(Messages)
          /\ Append(inbox[c], Head(broker.messages)) \in Seq(Messages)
      BY <2>2, HeadAndTail, AppendAdds DEF Deliver, TypeOK
    <3> QED BY <3>1, <2>2 DEF Deliver, TypeOK
  <2>3. CASE Consume(c)
    <3>1. /\ Head(inbox[c]) \in Messages /\ Tail(inbox[c]) \in Seq(Messages)
          /\ Append(received[c], Head(inbox[c])) \in Seq(Messages)
      BY <2>3, HeadAndTail, AppendAdds DEF Consume, Take, TypeOK
    <3> QED BY <3>1, <2>3 DEF Consume, Take, TypeOK
  <2>4. CASE ConsumeThrows(c)
    <3>1. Head(inbox[c]) \in Messages /\ Tail(inbox[c]) \in Seq(Messages)
      BY <2>4, HeadAndTail DEF ConsumeThrows, Take, TypeOK
    <3> QED BY <3>1, <2>4 DEF ConsumeThrows, Take, TypeOK
  <2>5. CASE Stop(c) \/ DestroyTerminates(c) \/ ConsumerDisconnects(c)
    <3>1. inbox' \in [Consumers -> Seq(Messages)] /\ lost' \subseteq Messages
      BY <2>5, WhoDrops, DropLoses
    <3>2. CASE Stop(c)
      BY <3>1, <3>2, UnsubscribedTypes DEF Brokers, Stop, TypeOK
    <3>3. CASE DestroyTerminates(c)
      BY <3>1, <3>3 DEF DestroyTerminates, Goes, TypeOK
    <3>4. CASE ConsumerDisconnects(c)
      BY <3>1, <3>4, UnsubscribedTypes DEF Brokers, ConsumerDisconnects, Disconnect, TypeOK
    <3> QED BY <2>5, <3>2, <3>3, <3>4
  <2>6. CASE ConsumeStopped(c)
    BY <2>6 DEF ConsumeStopped, Goes, traffic, TypeOK
  <2> QED BY <1>5, <2>1, <2>2, <2>3, <2>5, <2>6, <2>4
<1> QED BY <1>1, <1>2, <1>3, <1>5, <1>4 DEF Next

\* Every variable stays in its type.
THEOREM TypeCorrect == Spec => []TypeOK
<1>1. Init => TypeOK
  <2> HAVE Init
  <2>1. <<>> \in Seq(Messages)
    OBVIOUS
  <2>2. broker \in Brokers
    BY <2>1 DEF Init, WithoutQueue, Brokers
  <2> QED BY <2>1, <2>2 DEF Init, TypeOK, Brokers, Entities
<1> QED
  BY <1>1, TypesStep, PTL DEF Spec

-----------------------------------------------------------------------------
(* What is accepted is kept *)

\* A Publisher is constructed only when there is a queue, which stays unless it is
\* deleted with its consumer.
QueueForPublishers ==
    ~options.auto_delete => \A p \in Publishers : Is(p, "ready") => broker.queue

\* A queue that is not deleted with its consumer keeps its messages without one.
LEMMA UnsubscribedKeeps ==
    ASSUME TypeOK, ~options.auto_delete, NEW e \in Entities
    PROVE  /\ Unsubscribed(e).messages = broker.messages
           /\ Unsubscribed(e).queue = broker.queue
  BY DEF TypeOK, Unsubscribed

\* The steps that neither publish nor move a message leave it where it is.
LEMMA OthersKeep ==
    ASSUME TypeOK, ~options.auto_delete, NEW e \in Entities,
           \/ Open(e) \/ CheckExchange(e) \/ DeclareExchange(e)
           \/ CheckQueue(e) \/ DeclareQueue(e) \/ ConstructorThrows(e)
           \/ Destroy(e)
    PROVE  /\ broker'.messages = broker.messages
           /\ broker.queue => broker'.queue
           /\ UNCHANGED <<options, inbox, received, sent, accepted, lost>>
<1>1. CASE Open(e) \/ CheckExchange(e) \/ CheckQueue(e) \/ ConstructorThrows(e) \/ Destroy(e)
  BY <1>1 DEF Open, CheckExchange, CheckQueue, ConstructorThrows, Destroy, traffic
<1>2. CASE DeclareExchange(e)
  BY <1>2 DEF DeclareExchange, traffic, TypeOK
<1>3. CASE DeclareQueue(e)
  BY <1>3 DEF DeclareQueue, traffic, TypeOK
<1> QED BY <1>1, <1>2, <1>3

\* A Publisher is ready only when there is a queue.
LEMMA QueueStep ==
    ASSUME TypeOK, QueueForPublishers, [Next]_vars
    PROVE  QueueForPublishers'
<1> USE ClientsAssumption DEF Entities
<1> SUFFICES ASSUME ~options'.auto_delete, NEW p \in Publishers, Is(p, "ready")'
             PROVE  broker'.queue
  BY DEF QueueForPublishers
<1>1. CASE UNCHANGED vars
  BY <1>1 DEF vars, QueueForPublishers, Is
<1>2. ASSUME NEW e \in Entities,
             \/ Open(e) \/ CheckExchange(e) \/ DeclareExchange(e)
             \/ CheckQueue(e) \/ DeclareQueue(e) \/ ConstructorThrows(e)
             \/ Destroy(e)
      PROVE  broker'.queue
  <2>1. ~options.auto_delete
    BY <1>2 DEF Open, CheckExchange, DeclareExchange, CheckQueue, DeclareQueue,
                ConstructorThrows, Destroy
  <2>2. broker.queue => broker'.queue
    BY <1>2, <2>1, OthersKeep
  <2>3. CASE Is(p, "ready")
    BY <2>1, <2>2, <2>3 DEF QueueForPublishers
  <2>4. CASE ~Is(p, "ready")
    <3>1. CASE Open(e)
      BY <2>4, <3>1 DEF Open, Is, TypeOK
    <3>2. CASE CheckExchange(e)
      BY <2>4, <3>2 DEF CheckExchange, Goes, Is, TypeOK
    <3>3. CASE DeclareExchange(e)
      BY <2>4, <3>3 DEF DeclareExchange, Goes, Is, TypeOK
    <3>4. CASE CheckQueue(e)
      BY <2>4, <3>4, <2>2 DEF CheckQueue, Goes, Is, TypeOK
    <3>5. CASE DeclareQueue(e)
      BY <3>5 DEF DeclareQueue, TypeOK
    <3>6. CASE ConstructorThrows(e) \/ Destroy(e)
      <4>1. entity' = [entity EXCEPT ![e] = [pc |-> "none", up |-> FALSE]]
        BY <3>6 DEF ConstructorThrows, Destroy
      <4> QED BY <2>4, <4>1 DEF Is, TypeOK
    <3> QED BY <1>2, <3>1, <3>2, <3>3, <3>4, <3>5, <3>6
  <2> QED BY <2>3, <2>4
<1>3. ASSUME NEW q \in Publishers, Publish(q) \/ PublishThrows(q)
      PROVE  broker'.queue
  <2>1. broker'.queue = broker.queue
    BY <1>3 DEF Publish, PublishThrows, Routed, TypeOK
  <2>2. Is(p, "ready") /\ options' = options
    BY <1>3 DEF Publish, PublishThrows, Is, TypeOK
  <2> QED BY <2>1, <2>2 DEF QueueForPublishers
<1>4. ASSUME NEW e \in Entities, Disconnect(e)
      PROVE  broker'.queue
  <2>1. broker'.queue = broker.queue /\ options' = options
    BY <1>4, UnsubscribedKeeps DEF Disconnect
  <2>2. Is(p, "ready")
    BY <1>4 DEF Disconnect, Is, TypeOK
  <2> QED BY <2>1, <2>2 DEF QueueForPublishers
<1>5. ASSUME NEW c \in Consumers,
             \/ Subscribe(c) \/ Deliver(c) \/ Consume(c) \/ ConsumeThrows(c)
             \/ Stop(c) \/ DestroyTerminates(c) \/ ConsumeStopped(c)
      PROVE  broker'.queue
  <2>1. c # p /\ options' = options
    BY <1>5 DEF Subscribe, Deliver, Consume, ConsumeThrows, Stop, DestroyTerminates,
                ConsumeStopped
  <2>2. broker'.queue = broker.queue
    <3>1. CASE Stop(c)
      BY <2>1, <3>1, UnsubscribedKeeps DEF Stop
    <3>2. CASE Subscribe(c) \/ Deliver(c)
      BY <3>2 DEF Subscribe, Deliver, TypeOK
    <3>3. CASE Consume(c) \/ ConsumeThrows(c) \/ DestroyTerminates(c) \/ ConsumeStopped(c)
      BY <3>3 DEF Consume, ConsumeThrows, DestroyTerminates, ConsumeStopped
    <3> QED BY <1>5, <3>1, <3>2, <3>3
  <2>3. entity'[p] = entity[p]
    BY <1>5, <2>1 DEF Subscribe, Deliver, Consume, ConsumeThrows, Stop, DestroyTerminates,
                      ConsumeStopped, Goes, TypeOK
  <2> QED BY <2>1, <2>2, <2>3 DEF QueueForPublishers, Is
<1> QED BY <1>1, <1>2, <1>3, <1>4, <1>5 DEF Next, PublisherDisconnects, ConsumerDisconnects

\* A message goes only with a queue that is deleted, or from the channel of a
\* consumer, where it is lost.
LEMMA KeptStep ==
    ASSUME TypeOK, ~options.auto_delete, [Next]_vars
    PROVE  Kept \subseteq Kept'
<1> USE DEF Entities
<1>1. ASSUME broker'.messages = broker.messages, UNCHANGED <<inbox, received, lost>>
      PROVE  Kept \subseteq Kept'
  BY <1>1 DEF Kept, Has
<1>2. CASE UNCHANGED vars
  BY <1>1, <1>2 DEF vars
<1>3. ASSUME NEW e \in Entities,
             \/ Open(e) \/ CheckExchange(e) \/ DeclareExchange(e)
             \/ CheckQueue(e) \/ DeclareQueue(e) \/ ConstructorThrows(e)
             \/ Destroy(e)
      PROVE  Kept \subseteq Kept'
  BY <1>1, <1>3, OthersKeep
<1>4. ASSUME NEW p \in Publishers, Publish(p) \/ PublishThrows(p)
      PROVE  Kept \subseteq Kept'
  <2>1. UNCHANGED <<inbox, received, lost>>
    BY <1>4 DEF Publish, PublishThrows
  <2>2. Message(p) \in Messages
    BY DEF Message, Messages, TypeOK
  <2>3. CASE UNCHANGED broker
    BY <1>1, <2>1, <2>3
  <2>4. CASE broker' = [broker EXCEPT !.messages = Append(@, Message(p))]
    <3>1. broker'.messages = Append(broker.messages, Message(p))
      BY <2>4 DEF TypeOK
    <3>2. ToSet(broker'.messages) = ToSet(broker.messages) \union {Message(p)}
      BY <2>2, <3>1, AppendAdds DEF TypeOK
    <3> QED BY <2>1, <3>2 DEF Kept, Has
  <2> QED BY <1>4, <2>3, <2>4 DEF Publish, PublishThrows, Routed
<1>5. ASSUME NEW p \in Publishers, PublisherDisconnects(p)
      PROVE  Kept \subseteq Kept'
  BY <1>1, <1>5, UnsubscribedKeeps DEF PublisherDisconnects, Disconnect
<1>6. ASSUME NEW c \in Consumers, Subscribe(c) \/ ConsumeStopped(c)
      PROVE  Kept \subseteq Kept'
  BY <1>1, <1>6 DEF Subscribe, ConsumeStopped, traffic, TypeOK
<1>7. ASSUME NEW c \in Consumers, Deliver(c)
      PROVE  Kept \subseteq Kept'
  <2>1. /\ broker'.messages = Tail(broker.messages)
        /\ inbox' = [inbox EXCEPT ![c] = Append(@, Head(broker.messages))]
        /\ UNCHANGED <<received, lost>>
    BY <1>7 DEF Deliver, TypeOK
  <2>2. /\ Head(broker.messages) \in Messages
        /\ ToSet(broker.messages) = {Head(broker.messages)} \union ToSet(broker'.messages)
    BY <1>7, <2>1, HeadAndTail DEF Deliver, TypeOK
  <2>3. ToSet(inbox'[c]) = ToSet(inbox[c]) \union {Head(broker.messages)}
    BY <2>1, <2>2, AppendAdds DEF TypeOK
  <2>4. \A d \in Consumers : Has(d) \subseteq Has(d)'
    BY <2>1, <2>3 DEF Has, TypeOK
  <2>5. Head(broker.messages) \in Has(c)'
    BY <2>3 DEF Has
  <2> QED BY <2>1, <2>2, <2>4, <2>5 DEF Kept
<1>8. ASSUME NEW c \in Consumers, Consume(c)
      PROVE  Kept \subseteq Kept'
  <2>1. /\ inbox' = [inbox EXCEPT ![c] = Tail(@)]
        /\ received' = [received EXCEPT ![c] = Append(@, Head(inbox[c]))]
        /\ UNCHANGED <<broker, lost>>
    BY <1>8 DEF Consume, Take
  <2>2. /\ Head(inbox[c]) \in Messages
        /\ ToSet(inbox[c]) = {Head(inbox[c])} \union ToSet(inbox'[c])
    BY <1>8, <2>1, HeadAndTail DEF Consume, Take, TypeOK
  <2>3. ToSet(received'[c]) = ToSet(received[c]) \union {Head(inbox[c])}
    BY <2>1, <2>2, AppendAdds DEF TypeOK
  <2>4. \A d \in Consumers : Has(d) \subseteq Has(d)'
    BY <2>1, <2>2, <2>3 DEF Has, TypeOK
  <2> QED BY <2>1, <2>4 DEF Kept
<1>9. ASSUME NEW c \in Consumers, ConsumeThrows(c)
      PROVE  Kept \subseteq Kept'
  <2>1. /\ inbox' = [inbox EXCEPT ![c] = Tail(@)]
        /\ lost' = lost \union {Head(inbox[c])}
        /\ UNCHANGED <<broker, received>>
    BY <1>9 DEF ConsumeThrows, Take
  <2>2. ToSet(inbox[c]) = {Head(inbox[c])} \union ToSet(inbox'[c])
    BY <1>9, <2>1, HeadAndTail DEF ConsumeThrows, Take, TypeOK
  <2>3. \A d \in Consumers : Has(d) \subseteq Has(d)' \union lost'
    BY <2>1, <2>2 DEF Has, TypeOK
  <2> QED BY <2>1, <2>3 DEF Kept
<1>10. ASSUME NEW c \in Consumers, Stop(c) \/ DestroyTerminates(c) \/ ConsumerDisconnects(c)
      PROVE  Kept \subseteq Kept'
  <2>1. received' = received /\ broker'.messages = broker.messages
    BY <1>10, UnsubscribedKeeps DEF Stop, DestroyTerminates, ConsumerDisconnects, Disconnect
  <2>2. /\ \A d \in Consumers : d # c => inbox'[d] = inbox[d]
        /\ ToSet(inbox[c]) \subseteq ToSet(inbox'[c]) \union lost'
        /\ lost \subseteq lost'
    BY <1>10, WhoDrops, DropLoses
  <2>3. \A d \in Consumers : Has(d) \subseteq Has(d)' \union lost'
    BY <2>1, <2>2 DEF Has
  <2> QED BY <2>1, <2>2, <2>3 DEF Kept
<1> QED BY <1>2, <1>3, <1>4, <1>6, <1>7, <1>8, <1>10, <1>5, <1>9 DEF Next

\* Only publish() adds a message to those accepted, and puts it in the queue.
LEMMA AcceptedStep ==
    ASSUME TypeOK, QueueForPublishers, AcceptedIsKept, [Next]_vars
    PROVE  AcceptedIsKept'
<1> USE DEF Entities
<1>1. options' = options /\ (accepted' = accepted \/ \E p \in Publishers : Publish(p))
  <2>1. CASE UNCHANGED vars
    BY <2>1 DEF vars
  <2>2. ASSUME NEW e \in Entities,
               \/ Open(e) \/ CheckExchange(e) \/ DeclareExchange(e)
               \/ CheckQueue(e) \/ DeclareQueue(e) \/ ConstructorThrows(e)
               \/ Destroy(e) \/ Disconnect(e)
        PROVE  UNCHANGED <<options, accepted>>
    BY <2>2 DEF traffic, Open, CheckExchange, DeclareExchange, CheckQueue, DeclareQueue,
                ConstructorThrows, Destroy, Disconnect
  <2>3. ASSUME NEW p \in Publishers, PublishThrows(p)
        PROVE  UNCHANGED <<options, accepted>>
    BY <2>3 DEF PublishThrows
  <2>4. ASSUME NEW c \in Consumers,
               \/ Subscribe(c) \/ Deliver(c) \/ Consume(c) \/ ConsumeThrows(c)
               \/ Stop(c) \/ DestroyTerminates(c) \/ ConsumeStopped(c)
        PROVE  UNCHANGED <<options, accepted>>
    BY <2>4 DEF traffic, Subscribe, Deliver, Consume, ConsumeThrows, Stop, DestroyTerminates,
                ConsumeStopped
  <2>5. ASSUME NEW p \in Publishers, Publish(p)
        PROVE  UNCHANGED options
    BY <2>5 DEF Publish
  <2> QED BY <2>1, <2>2, <2>3, <2>4, <2>5 DEF Next, PublisherDisconnects, ConsumerDisconnects
<1> SUFFICES ASSUME ~options'.own_key, ~options'.auto_delete
             PROVE  accepted' \subseteq Kept'
  BY DEF AcceptedIsKept
<1>2. accepted \subseteq Kept /\ Kept \subseteq Kept'
  BY <1>1, KeptStep DEF AcceptedIsKept
<1>3. ASSUME NEW p \in Publishers, Publish(p)
      PROVE  accepted' \subseteq Kept'
  <2>1. broker.queue
    BY <1>1, <1>3 DEF Publish, QueueForPublishers
  <2>2. broker'.messages = Append(broker.messages, Message(p))
    BY <1>1, <1>3, <2>1 DEF Publish, Routed, TypeOK
  <2>3. Message(p) \in ToSet(broker'.messages)
    <3>1. Message(p) \in Messages
      BY DEF Message, Messages, TypeOK
    <3> QED BY <2>2, <3>1, AppendAdds DEF TypeOK
  <2>4. accepted' = accepted \union {Message(p)}
    BY <1>3 DEF Publish
  <2> QED BY <1>2, <2>3, <2>4 DEF Kept
<1> QED BY <1>1, <1>2, <1>3

\* What publish() has returned for is in the queue or was delivered to a consumer,
\* as long as the key is the queue's and the queue is not deleted, whoever declares
\* it and whatever connections fail (Publisher.tpp:32-76); a message that is lost
\* is lost at a consumer, which acknowledges before it reads (Consumer.tpp:23-47).
THEOREM MessagesAreKept == Spec => []AcceptedIsKept
<1>1. Init => QueueForPublishers /\ AcceptedIsKept
  <2> HAVE Init
  <2>1. \A p \in Publishers : entity[p].pc = "none"
    BY DEF Init, Entities
  <2>2. accepted = {}
    BY DEF Init
  <2> QED BY <2>1, <2>2 DEF QueueForPublishers, AcceptedIsKept, Is
<1> QED
  BY <1>1, TypeCorrect, QueueStep, AcceptedStep, PTL DEF Spec

-----------------------------------------------------------------------------
(* What is given out comes once and in order *)

Precedes(m, n) == m.from = n.from => m.number < n.number
Before(M, N) == \A m \in M, n \in N : Precedes(m, n)
Ascends(s) == \A i, j \in DOMAIN s : i < j => Precedes(s[i], s[j])
Tried(M) == \A m \in M : m.number <= sent[m.from]

\* The inductive invariant: what a consumer gave out, what it has got and what is
\* in the queue follow each other, and no two consumers have a message in common.
OrderInv ==
    /\ Ascends(broker.messages) /\ Tried(ToSet(broker.messages))
    /\ \A c \in Consumers :
        /\ Ascends(inbox[c]) /\ Ascends(received[c])
        /\ Before(ToSet(received[c]), ToSet(inbox[c]))
        /\ Before(Has(c), ToSet(broker.messages))
        /\ Tried(Has(c))
    /\ \A c, d \in Consumers : c # d => Has(c) \intersect Has(d) = {}

\* A message after all the others, or without the first one, a sequence ascends.
LEMMA AppendAscends ==
    ASSUME NEW s \in Seq(Messages), NEW m \in Messages,
           Ascends(s), Before(ToSet(s), {m})
    PROVE  Ascends(Append(s, m))
<1> DEFINE t == Append(s, m)
<1>1. t \in Seq(Messages) /\ Len(t) = Len(s) + 1 /\ Len(s) \in Nat
  OBVIOUS
<1>2. t[Len(s) + 1] = m /\ \A i \in 1..Len(s) : t[i] = s[i]
  OBVIOUS
<1>3. DOMAIN t = 1..(Len(s) + 1) /\ DOMAIN s = 1..Len(s)
  BY <1>1
<1> SUFFICES ASSUME NEW i \in 1..(Len(s) + 1), NEW j \in 1..(Len(s) + 1), i < j
             PROVE  Precedes(t[i], t[j])
  BY <1>3 DEF Ascends
<1>4. i \in 1..Len(s) /\ (j \in 1..Len(s) \/ j = Len(s) + 1)
  BY <1>1
<1> HIDE DEF t
<1>5. CASE j \in 1..Len(s)
  BY <1>2, <1>3, <1>4, <1>5 DEF Ascends
<1>6. CASE j = Len(s) + 1
  BY <1>2, <1>3, <1>4, <1>6 DEF Before, ToSet
<1> QED BY <1>4, <1>5, <1>6

LEMMA TailAscends ==
    ASSUME NEW s \in Seq(Messages), s # <<>>, Ascends(s)
    PROVE  Ascends(Tail(s)) /\ Before({Head(s)}, ToSet(Tail(s)))
<1> DEFINE t == Tail(s)
<1>1. Len(s) \in Nat \ {0} /\ Len(t) = Len(s) - 1 /\ t \in Seq(Messages) /\ s[1] = Head(s)
  OBVIOUS
<1>2. DOMAIN t = 1..(Len(s) - 1) /\ DOMAIN s = 1..Len(s)
  BY <1>1
<1>3. \A i \in 1..(Len(s) - 1) : t[i] = s[i + 1]
  BY <1>1
<1> HIDE DEF t
<1>4. Ascends(t)
  <2> SUFFICES ASSUME NEW i \in 1..(Len(s) - 1), NEW j \in 1..(Len(s) - 1), i < j
               PROVE  Precedes(t[i], t[j])
    BY <1>2 DEF Ascends
  <2>1. i + 1 \in 1..Len(s) /\ j + 1 \in 1..Len(s) /\ i + 1 < j + 1
    BY <1>1
  <2> QED BY <2>1, <1>2, <1>3 DEF Ascends
<1>5. Before({Head(s)}, ToSet(t))
  <2> SUFFICES ASSUME NEW j \in 1..(Len(s) - 1)
               PROVE  Precedes(s[1], t[j])
    BY <1>1, <1>2 DEF Before, ToSet
  <2>1. 1 \in 1..Len(s) /\ j + 1 \in 1..Len(s) /\ 1 < j + 1
    BY <1>1
  <2> QED BY <2>1, <1>2, <1>3 DEF Ascends
<1> QED BY <1>4, <1>5 DEF t

\* Nothing is out of order in a sequence of no messages.
LEMMA NoMessages == Ascends(<<>>) /\ ToSet(<<>>) = {}
<1>1. DOMAIN <<>> = {}
  OBVIOUS
<1> QED BY <1>1 DEF Ascends, ToSet

\* Nor in the first messages of a sequence.
LEMMA PrefixAscends ==
    ASSUME NEW s \in Seq(Messages), Ascends(s), NEW n \in 0..Len(s)
    PROVE  Ascends(SubSeq(s, 1, n))
<1> DEFINE t == SubSeq(s, 1, n)
<1>1. DOMAIN t = 1..n /\ 1..n \subseteq DOMAIN s /\ \A i \in 1..n : t[i] = s[i]
  BY PrefixAndRest
<1> HIDE DEF t
<1>2. Ascends(t)
  BY <1>1 DEF Ascends
<1> QED BY <1>2 DEF t

\* No order is disturbed by what only takes messages out of the queue or a channel.
LEMMA TakingStep ==
    ASSUME TypeOK, OrderInv, UNCHANGED <<received, sent>>,
           broker'.messages \in {broker.messages, <<>>},
           \A c \in Consumers : Ascends(inbox'[c]) /\ ToSet(inbox'[c]) \subseteq ToSet(inbox[c])
    PROVE  OrderInv'
<1>1. /\ Ascends(broker'.messages)
      /\ ToSet(broker'.messages) \subseteq ToSet(broker.messages)
  BY NoMessages DEF OrderInv
<1>2. \A c \in Consumers : Ascends(inbox'[c]) /\ ToSet(inbox'[c]) \subseteq ToSet(inbox[c])
  OBVIOUS
<1>3. \A c \in Consumers : Has(c)' \subseteq Has(c)
  BY <1>2 DEF Has
<1>4. Tried(ToSet(broker.messages))' /\ \A c \in Consumers : Tried(Has(c))'
  BY <1>1, <1>3 DEF OrderInv, Tried
<1>5. \A c \in Consumers : /\ Before(ToSet(received[c]), ToSet(inbox[c]))'
                           /\ Before(Has(c), ToSet(broker.messages))'
  BY <1>1, <1>2, <1>3 DEF OrderInv, Before
<1>6. \A c, d \in Consumers : c # d => Has(c)' \intersect Has(d)' = {}
  BY <1>3 DEF OrderInv
<1> QED BY <1>1, <1>2, <1>4, <1>5, <1>6 DEF OrderInv

\* A message that is published has a number above all of its publisher's.
LEMMA PublishOrder ==
    ASSUME TypeOK, OrderInv, NEW p \in Publishers, Publish(p) \/ PublishThrows(p)
    PROVE  OrderInv'
<1> DEFINE m == Message(p)
<1>1. UNCHANGED <<inbox, received>> /\ sent' = [sent EXCEPT ![p] = @ + 1]
  BY DEF Publish, PublishThrows
<1>2. m \in Messages /\ m.from = p /\ m.number = sent[p] + 1
  BY DEF Message, Messages, TypeOK
<1>3. ASSUME NEW M \in SUBSET Messages, Tried(M)
      PROVE  /\ \A n \in M : n.number <= sent'[n.from]
             /\ Before(M, {m})
  <2> SUFFICES ASSUME NEW n \in M
               PROVE  n.number <= sent'[n.from] /\ Precedes(n, m)
    BY DEF Before
  <2>1. n.from \in Publishers /\ n.number \in Nat /\ n.number <= sent[n.from]
    BY <1>3 DEF Messages, Tried
  <2>2. sent[n.from] \in Nat /\ sent[p] \in Nat
    BY <2>1 DEF TypeOK
  <2>3. sent'[n.from] = IF n.from = p THEN sent[p] + 1 ELSE sent[n.from]
    BY <1>1, <2>1 DEF TypeOK
  <2> HIDE DEF m
  <2>4. n.number <= sent'[n.from]
    BY <2>1, <2>2, <2>3
  <2>5. n.from = m.from => n.number < m.number
    BY <1>2, <2>1, <2>2
  <2> QED BY <2>4, <2>5 DEF Precedes
<1>4. ToSet(broker.messages) \subseteq Messages
  BY DEF TypeOK, ToSet
<1>5. \A c \in Consumers : Has(c) \subseteq Messages /\ Has(c)' = Has(c)
  BY <1>1 DEF TypeOK, ToSet, Has
<1>6. \/ broker'.messages = broker.messages
      \/ broker'.messages = Append(broker.messages, m)
  BY DEF Publish, PublishThrows, Routed, TypeOK
<1> HIDE DEF m
<1>7. /\ Ascends(broker'.messages)
      /\ ToSet(broker'.messages) \subseteq ToSet(broker.messages) \union {m}
  <2>1. broker.messages \in Seq(Messages) /\ Ascends(broker.messages)
    BY DEF OrderInv, TypeOK
  <2>2. Before(ToSet(broker.messages), {m})
    BY <1>3, <1>4 DEF OrderInv
  <2>3. /\ Ascends(Append(broker.messages, m))
        /\ ToSet(Append(broker.messages, m)) = ToSet(broker.messages) \union {m}
    BY <1>2, <2>1, <2>2, AppendAscends, AppendAdds
  <2> QED BY <1>6, <2>1, <2>3
<1>8. m.number <= sent'[m.from]
  BY <1>1, <1>2 DEF TypeOK
<1>9. Tried(ToSet(broker.messages))' /\ \A c \in Consumers : Tried(Has(c))'
  BY <1>3, <1>4, <1>5, <1>7, <1>8 DEF OrderInv, Tried
<1>10. \A c \in Consumers : Before(Has(c), ToSet(broker.messages))'
  BY <1>3, <1>5, <1>7 DEF OrderInv, Before
<1> QED BY <1>1, <1>5, <1>7, <1>9, <1>10 DEF OrderInv

\* A message that is delivered comes after what its consumer has, and no other
\* consumer has it.
LEMMA DeliverOrder ==
    ASSUME TypeOK, OrderInv, NEW c \in Consumers, Deliver(c)
    PROVE  OrderInv'
<1> DEFINE m == Head(broker.messages)
<1>1. /\ broker'.messages = Tail(broker.messages)
      /\ inbox' = [inbox EXCEPT ![c] = Append(@, m)]
      /\ UNCHANGED <<received, sent>>
  BY DEF Deliver, TypeOK
<1>2. /\ m \in Messages
      /\ ToSet(broker.messages) = {m} \union ToSet(broker'.messages)
      /\ Ascends(broker'.messages) /\ Before({m}, ToSet(broker'.messages))
  BY <1>1, HeadAndTail, TailAscends DEF Deliver, TypeOK, OrderInv
<1> HIDE DEF m
<1>3. /\ inbox'[c] = Append(inbox[c], m) /\ inbox[c] \in Seq(Messages)
      /\ \A d \in Consumers : d # c => inbox'[d] = inbox[d]
  BY <1>1 DEF TypeOK
<1>4. ToSet(inbox'[c]) = ToSet(inbox[c]) \union {m}
  BY <1>2, <1>3, AppendAdds
<1>5. Has(c)' = Has(c) \union {m} /\ \A d \in Consumers : d # c => Has(d)' = Has(d)
  BY <1>1, <1>3, <1>4 DEF Has
<1>6. \A d \in Consumers : Before(Has(d), {m}) /\ m \notin Has(d)
  <2> SUFFICES ASSUME NEW d \in Consumers
               PROVE  Before(Has(d), {m}) /\ m \notin Has(d)
    OBVIOUS
  <2>1. Before(Has(d), {m})
    BY <1>2 DEF OrderInv, Before
  <2>2. m \notin Has(d)
    BY <1>2, <2>1 DEF Before, Precedes, Messages
  <2> QED BY <2>1, <2>2
<1>7. \A d \in Consumers : Ascends(inbox'[d])
  <2>1. Ascends(inbox[c]) /\ Before(ToSet(inbox[c]), {m})
    BY <1>6 DEF OrderInv, Has, Before
  <2>2. Ascends(inbox'[c])
    BY <1>2, <1>3, <2>1, AppendAscends
  <2> QED BY <1>3, <2>2 DEF OrderInv
<1>8. \A d \in Consumers : Before(ToSet(received[d]), ToSet(inbox[d]))'
  <2>1. Before(ToSet(received[c]), ToSet(inbox[c]))'
    <3>1. Before(ToSet(received[c]), {m}) /\ Before(ToSet(received[c]), ToSet(inbox[c]))
      BY <1>6 DEF OrderInv, Before, Has
    <3>2. ToSet(received[c])' = ToSet(received[c])
      BY <1>1
    <3> QED BY <1>4, <3>1, <3>2 DEF Before
  <2> QED BY <1>1, <1>3, <2>1 DEF OrderInv
<1>9. \A d \in Consumers : Before(Has(d), ToSet(broker.messages))'
  BY <1>2, <1>5 DEF OrderInv, Before
<1>10. Tried(ToSet(broker.messages))' /\ \A d \in Consumers : Tried(Has(d))'
  BY <1>1, <1>2, <1>5 DEF OrderInv, Tried
<1>11. \A d, e \in Consumers : d # e => Has(d)' \intersect Has(e)' = {}
  BY <1>5, <1>6 DEF OrderInv
<1> QED BY <1>1, <1>2, <1>7, <1>8, <1>9, <1>10, <1>11 DEF OrderInv

\* A message that is given out comes after those given out before.
LEMMA ConsumeOrder ==
    ASSUME TypeOK, OrderInv, NEW c \in Consumers, Consume(c)
    PROVE  OrderInv'
<1> DEFINE m == Head(inbox[c])
<1>1. /\ inbox' = [inbox EXCEPT ![c] = Tail(@)]
      /\ received' = [received EXCEPT ![c] = Append(@, m)]
      /\ UNCHANGED <<broker, sent>>
  BY DEF Consume, Take
<1>2. /\ inbox[c] \in Seq(Messages) /\ inbox[c] # <<>>
      /\ received[c] \in Seq(Messages)
      /\ inbox'[c] = Tail(inbox[c]) /\ received'[c] = Append(received[c], m)
      /\ \A d \in Consumers : d # c => inbox'[d] = inbox[d] /\ received'[d] = received[d]
  BY <1>1 DEF Consume, Take, TypeOK
<1>3. /\ m \in Messages
      /\ ToSet(inbox[c]) = {m} \union ToSet(inbox'[c])
      /\ Ascends(inbox'[c]) /\ Before({m}, ToSet(inbox'[c]))
  BY <1>2, HeadAndTail, TailAscends DEF OrderInv
<1> HIDE DEF m
<1>4. ToSet(received'[c]) = ToSet(received[c]) \union {m}
  BY <1>2, <1>3, AppendAdds
<1>5. \A d \in Consumers : Has(d)' = Has(d)
  BY <1>2, <1>3, <1>4 DEF Has
<1>6. \A d \in Consumers : Ascends(inbox'[d]) /\ Ascends(received'[d])
  <2>1. Ascends(received[c]) /\ Before(ToSet(received[c]), {m})
    BY <1>3 DEF OrderInv, Before
  <2>2. Ascends(received'[c])
    BY <1>2, <1>3, <2>1, AppendAscends
  <2> QED BY <1>2, <1>3, <2>2 DEF OrderInv
<1>7. \A d \in Consumers : Before(ToSet(received[d]), ToSet(inbox[d]))'
  <2>1. Before(ToSet(received[c]), ToSet(inbox[c]))'
    BY <1>3, <1>4 DEF OrderInv, Before
  <2> QED BY <1>2, <2>1 DEF OrderInv
<1>8. /\ Tried(ToSet(broker.messages))'
      /\ \A d \in Consumers : Tried(Has(d))' /\ Before(Has(d), ToSet(broker.messages))'
  BY <1>1, <1>5 DEF OrderInv, Tried
<1> QED BY <1>1, <1>5, <1>6, <1>7, <1>8 DEF OrderInv

\* No step disturbs the order.
LEMMA OrderStep ==
    ASSUME TypeOK, OrderInv, [Next]_vars
    PROVE  OrderInv'
<1> USE DEF Entities
<1>0. \A c \in Consumers : Ascends(inbox[c]) /\ inbox[c] \in Seq(Messages)
  BY DEF OrderInv, TypeOK
<1>1. CASE UNCHANGED vars
  BY <1>0, <1>1, TakingStep DEF vars
<1>2. \A e \in Entities : Unsubscribed(e).messages \in {broker.messages, <<>>}
  BY DEF TypeOK, Unsubscribed, WithoutQueue
<1>3. ASSUME NEW e \in Entities,
             \/ Open(e) \/ CheckExchange(e) \/ DeclareExchange(e)
             \/ CheckQueue(e) \/ DeclareQueue(e) \/ ConstructorThrows(e)
             \/ Destroy(e) \/ PublisherDisconnects(e)
      PROVE  OrderInv'
  <2>1. UNCHANGED <<inbox, received, sent>>
    BY <1>3 DEF Open, CheckExchange, DeclareExchange, CheckQueue, DeclareQueue,
                ConstructorThrows, Destroy, PublisherDisconnects, Disconnect, traffic
  <2>2. broker'.messages \in {broker.messages, <<>>}
    <3>1. CASE Open(e) \/ CheckExchange(e) \/ CheckQueue(e) \/ ConstructorThrows(e) \/ Destroy(e)
      BY <3>1 DEF Open, CheckExchange, CheckQueue, ConstructorThrows, Destroy
    <3>2. CASE DeclareExchange(e) \/ DeclareQueue(e)
      BY <3>2 DEF DeclareExchange, DeclareQueue, TypeOK
    <3>3. CASE PublisherDisconnects(e)
      BY <1>2, <3>3 DEF PublisherDisconnects, Disconnect
    <3> QED BY <1>3, <3>1, <3>2, <3>3
  <2> QED BY <1>0, <2>1, <2>2, TakingStep
<1>4. ASSUME NEW c \in Consumers, Subscribe(c) \/ ConsumeStopped(c)
      PROVE  OrderInv'
  <2>1. broker'.messages = broker.messages /\ UNCHANGED <<inbox, received, sent>>
    BY <1>4 DEF Subscribe, ConsumeStopped, traffic, TypeOK
  <2> QED BY <1>0, <2>1, TakingStep
<1>5. ASSUME NEW c \in Consumers, Stop(c) \/ DestroyTerminates(c) \/ ConsumerDisconnects(c)
      PROVE  OrderInv'
  <2>1. UNCHANGED <<received, sent>>
    BY <1>5 DEF Stop, DestroyTerminates, ConsumerDisconnects, Disconnect
  <2>2. PICK n \in 0..Len(inbox[c]) : Drop(c, n)
    BY <1>5, WhoDrops
  <2>3. /\ inbox'[c] = SubSeq(inbox[c], 1, n)
        /\ \A d \in Consumers : d # c => inbox'[d] = inbox[d]
    BY <2>2, DropLoses
  <2>4. Ascends(inbox'[c]) /\ ToSet(inbox'[c]) \subseteq ToSet(inbox[c])
    BY <1>0, <2>3, PrefixAscends, PrefixAndRest
  <2>5. broker'.messages \in {broker.messages, <<>>}
    BY <1>2, <1>5 DEF Stop, DestroyTerminates, ConsumerDisconnects, Disconnect
  <2> QED BY <1>0, <2>1, <2>3, <2>4, <2>5, TakingStep
<1>6. ASSUME NEW c \in Consumers, ConsumeThrows(c)
      PROVE  OrderInv'
  <2>1. /\ inbox' = [inbox EXCEPT ![c] = Tail(@)] /\ inbox[c] # <<>>
        /\ UNCHANGED <<broker, received, sent>>
    BY <1>6 DEF ConsumeThrows, Take
  <2>2. inbox'[c] = Tail(inbox[c]) /\ \A d \in Consumers : d # c => inbox'[d] = inbox[d]
    BY <2>1 DEF TypeOK
  <2>3. Ascends(inbox'[c]) /\ ToSet(inbox'[c]) \subseteq ToSet(inbox[c])
    BY <1>0, <2>1, <2>2, TailAscends, HeadAndTail
  <2> QED BY <1>0, <2>1, <2>2, <2>3, TakingStep
<1> QED
  BY <1>1, <1>3, <1>4, <1>5, <1>6, PublishOrder, DeliverOrder, ConsumeOrder DEF Next

\* No message is given out twice, and none of a publisher's before an earlier one,
\* whatever connections fail between the two (Consumer.tpp:31-52, Publisher.tpp:
\* 67-76), with any number of publishers, consumers and messages.
THEOREM MessagesInOrder == Spec => []ReceivedOnceInOrder
<1>1. Init => OrderInv
  <2> HAVE Init
  <2>1. broker.messages = <<>> /\ \A c \in Consumers : inbox[c] = <<>> /\ received[c] = <<>>
    BY DEF Init, WithoutQueue
  <2>2. \A c \in Consumers : Has(c) = {}
    BY <2>1, NoMessages DEF Has
  <2> QED BY <2>1, <2>2, NoMessages DEF OrderInv, Before, Tried
<1>2. TypeOK /\ OrderInv => ReceivedOnceInOrder
  <2> SUFFICES ASSUME TypeOK, OrderInv, NEW c \in Consumers, NEW d \in Consumers,
                      NEW i \in DOMAIN received[c], NEW j \in DOMAIN received[d]
               PROVE  /\ received[c][i] = received[d][j] => c = d /\ i = j
                      /\ (c = d /\ i < j /\ received[c][i].from = received[d][j].from) =>
                            received[c][i].number < received[d][j].number
    BY DEF ReceivedOnceInOrder
  <2>1. received[c] \in Seq(Messages) /\ received[d] \in Seq(Messages)
    BY DEF TypeOK
  <2>2. i \in Nat /\ j \in Nat /\ received[c][i].number \in Nat
    <3>1. i \in 1..Len(received[c]) /\ j \in 1..Len(received[d])
      BY <2>1
    <3>2. received[c][i] \in Messages
      BY <2>1, <3>1
    <3> QED BY <3>1, <3>2 DEF Messages
  <2>3. CASE c # d
    <3>1. received[c][i] \in Has(c) /\ received[d][j] \in Has(d)
      BY DEF Has, ToSet
    <3> QED BY <2>3, <3>1 DEF OrderInv
  <2>4. CASE c = d
    <3>1. Ascends(received[c])
      BY DEF OrderInv
    <3>2. i < j => Precedes(received[c][i], received[c][j])
      BY <2>4, <3>1 DEF Ascends
    <3>3. j < i => Precedes(received[c][j], received[c][i])
      BY <2>4, <3>1 DEF Ascends
    <3> QED BY <2>2, <2>4, <3>2, <3>3 DEF Precedes
  <2> QED BY <2>3, <2>4
<1> QED
  BY <1>1, <1>2, TypeCorrect, OrderStep, PTL DEF Spec
=============================================================================

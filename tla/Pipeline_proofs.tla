-------------------------- MODULE Pipeline_proofs --------------------------
(***************************************************************************)
(* Proofs about Pipeline, for any blocks, any order of add() and connect() *)
(* and any number of executions: the edges into an Aggregator carry the    *)
(* ids it counts up to, the blocks are wired by the documented rules, a    *)
(* pipeline that is built as documented never reads beyond a vector, its   *)
(* Sinks process the same values, and none of them mixes two rounds.       *)
(***************************************************************************)
EXTENDS Pipeline, SequenceTheorems, WellFoundedInduction, TLAPS

(* Lemmas on sequences *)

\* The elements of a sequence are those at its positions.
LEMMA InToSet ==
    ASSUME NEW S, NEW seq \in Seq(S)
    PROVE  /\ ToSet(seq) \subseteq S
           /\ \A i \in 1..Len(seq) : seq[i] \in ToSet(seq)
           /\ \A x \in ToSet(seq) : \E i \in 1..Len(seq) : seq[i] = x
BY DEF ToSet

\* An element of a sequence over S is in S.
LEMMA ElementIn ==
    ASSUME NEW S, NEW seq \in Seq(S), NEW i \in 1..Len(seq)
    PROVE  seq[i] \in S
OBVIOUS

\* A sequence is one over any set that has its elements.
LEMMA SeqIn ==
    ASSUME NEW S, NEW T, NEW seq \in Seq(S), \A i \in 1..Len(seq) : seq[i] \in T
    PROVE  seq \in Seq(T)
OBVIOUS

\* A sequence over S is one over a larger set.
LEMMA SeqWider ==
    ASSUME NEW S, NEW T, S \subseteq T
    PROVE  Seq(S) \subseteq Seq(T)
BY SeqIn

\* The same for the sequences of edges and of calls.
LEMMA EdgesWider ==
    ASSUME NEW S, NEW T, S \subseteq T
    PROVE  /\ Seq([to : S, id : Ids]) \subseteq Seq([to : T, id : Ids])
           /\ Seq([to : S, id : Ids, in : Anys]) \subseteq Seq([to : T, id : Ids, in : Anys])
<1> DEFINE A == [to : S, id : Ids]
           B == [to : T, id : Ids]
           C == [to : S, id : Ids, in : Anys]
           D == [to : T, id : Ids, in : Anys]
<1>1. A \subseteq B /\ C \subseteq D
  OBVIOUS
<1> HIDE DEF A, B, C, D
<1>2. Seq(A) \subseteq Seq(B) /\ Seq(C) \subseteq Seq(D)
  BY <1>1, SeqWider
<1> QED
  BY <1>2 DEF A, B, C, D

\* Append adds one element to the set of them.
LEMMA ToSetAppend ==
    ASSUME NEW S, NEW seq \in Seq(S), NEW x
    PROVE  ToSet(Append(seq, x)) = ToSet(seq) \union {x}
<1>1. /\ Append(seq, x) \in Seq(S \union {x}) /\ Len(Append(seq, x)) = Len(seq) + 1
      /\ \A i \in 1..Len(seq) : Append(seq, x)[i] = seq[i]
      /\ Append(seq, x)[Len(seq) + 1] = x
  OBVIOUS
<1>2. DOMAIN Append(seq, x) = 1..(Len(seq) + 1) /\ DOMAIN seq = 1..Len(seq)
  BY <1>1
<1>3. ToSet(seq) \subseteq ToSet(Append(seq, x))
  BY <1>1, <1>2 DEF ToSet
<1>4. x \in ToSet(Append(seq, x))
  BY <1>1, <1>2 DEF ToSet
<1>5. ToSet(Append(seq, x)) \subseteq ToSet(seq) \union {x}
  <2> SUFFICES ASSUME NEW i \in 1..(Len(seq) + 1)
               PROVE  Append(seq, x)[i] \in ToSet(seq) \union {x}
    BY <1>2 DEF ToSet
  <2>1. CASE i = Len(seq) + 1
    BY <2>1, <1>1
  <2>2. CASE i # Len(seq) + 1
    BY <2>2, <1>1, <1>2 DEF ToSet
  <2> QED
    BY <2>1, <2>2
<1> QED
  BY <1>3, <1>4, <1>5

\* Append of something new repeats nothing.
LEMMA OnceAppend ==
    ASSUME NEW S, NEW seq \in Seq(S), Once(seq), NEW x, x \notin ToSet(seq)
    PROVE  Once(Append(seq, x))
<1>1. /\ DOMAIN Append(seq, x) = 1..(Len(seq) + 1) /\ DOMAIN seq = 1..Len(seq)
      /\ \A i \in 1..Len(seq) : Append(seq, x)[i] = seq[i]
      /\ Append(seq, x)[Len(seq) + 1] = x
  OBVIOUS
<1>2. \A i \in 1..Len(seq) : seq[i] # x
  BY <1>1 DEF ToSet
<1> SUFFICES ASSUME NEW i \in 1..(Len(seq) + 1), NEW j \in 1..(Len(seq) + 1),
                    Append(seq, x)[i] = Append(seq, x)[j]
             PROVE  i = j
  BY <1>1 DEF Once
<1>3. CASE i \in 1..Len(seq) /\ j \in 1..Len(seq)
  BY <1>1, <1>3 DEF Once
<1>4. CASE i = Len(seq) + 1 \/ j = Len(seq) + 1
  BY <1>1, <1>2, <1>4
<1> QED
  BY <1>3, <1>4

-----------------------------------------------------------------------------
(* AddConsumer *)

\* What add_consumer() of each of some blocks, none of them twice, does to their
\* vectors of consumers: each gets one edge more.
LEMMA AddConsumerAppends ==
    ASSUME TypeOK, NEW from \in Seq(Producing), Once(from), NEW to, AddConsumer(from, to)
    PROVE  /\ DOMAIN next_nodes' = Producing
           /\ \A b \in Producing \ ToSet(from) : next_nodes'[b] = next_nodes[b]
           /\ \A i \in 1..Len(from) :
                next_nodes'[from[i]] =
                    Append(next_nodes[from[i]], [to |-> to, id |-> NextId(to, i)])
<1>1. next_nodes \in [Producing -> Seq(Edges)]
  BY DEF TypeOK, FlowTypeOK
<1>2. ASSUME NEW b \in Producing \ ToSet(from)
      PROVE  next_nodes'[b] = next_nodes[b]
  <2>1. next_nodes'[b] = next_nodes[b] \o <<>>
    BY <1>2 DEF AddConsumer
  <2> QED
    BY <2>1, <1>1, ConcatEmptySeq
<1>3. ASSUME NEW i \in 1..Len(from)
      PROVE  next_nodes'[from[i]] =
                 Append(next_nodes[from[i]], [to |-> to, id |-> NextId(to, i)])
  <2> DEFINE j == CHOOSE k \in 1..Len(from) : from[k] = from[i]
  <2>1. from[i] \in Producing /\ from[i] \in ToSet(from)
    BY DEF ToSet
  <2>2. j \in 1..Len(from) /\ from[j] = from[i]
    OBVIOUS
  <2>3. j = i
    BY <2>2 DEF Once
  <2>4. next_nodes'[from[i]] =
            next_nodes[from[i]] \o <<[to |-> to, id |-> NextId(to, j)]>>
    BY <2>1 DEF AddConsumer
  <2>5. next_nodes[from[i]] \in Seq(Edges)
    BY <1>1, <2>1
  <2> HIDE DEF j
  <2> QED
    BY <2>3, <2>4, <2>5
<1> QED
  BY <1>2, <1>3 DEF AddConsumer

\* Edges lead where they led, and from each of the blocks to the new one.
LEMMA EdgesGrow ==
    ASSUME TypeOK, NEW from \in Seq(Producing), Once(from), NEW to, AddConsumer(from, to)
    PROVE  \A b \in Producing : \A c : Edge(b, c)' <=> Edge(b, c) \/ (b \in ToSet(from) /\ c = to)
<1> SUFFICES ASSUME NEW b \in Producing, NEW c
             PROVE  Edge(b, c)' <=> Edge(b, c) \/ (b \in ToSet(from) /\ c = to)
  OBVIOUS
<1>1. next_nodes[b] \in Seq(Edges)
  BY DEF TypeOK, FlowTypeOK
<1>2. CASE b \notin ToSet(from)
  <2>1. next_nodes'[b] = next_nodes[b]
    BY <1>2, AddConsumerAppends
  <2> QED
    BY <2>1, <1>2 DEF Edge
<1>3. CASE b \in ToSet(from)
  <2>1. PICK k \in 1..Len(from) : from[k] = b
    BY <1>3, InToSet
  <2> DEFINE e == [to |-> to, id |-> NextId(to, k)]
  <2>2. next_nodes'[b] = Append(next_nodes[b], e)
    BY <2>1, AddConsumerAppends
  <2>3. e.to = to
    OBVIOUS
  <2> HIDE DEF e
  <2>4. /\ Len(next_nodes'[b]) = Len(next_nodes[b]) + 1
        /\ \A i \in 1..Len(next_nodes[b]) : next_nodes'[b][i] = next_nodes[b][i]
        /\ next_nodes'[b][Len(next_nodes[b]) + 1] = e
    BY <2>2, <1>1
  <2>5. Edge(b, c)' => Edge(b, c) \/ c = to
    <3> SUFFICES ASSUME NEW i \in 1..(Len(next_nodes[b]) + 1), next_nodes'[b][i].to = c
                 PROVE  Edge(b, c) \/ c = to
      BY <2>4 DEF Edge
    <3>1. CASE i = Len(next_nodes[b]) + 1
      BY <3>1, <2>3, <2>4
    <3>2. CASE i \in 1..Len(next_nodes[b])
      BY <3>2, <2>4 DEF Edge
    <3> QED
      BY <3>1, <3>2, <1>1
  <2>6. Edge(b, c) => Edge(b, c)'
    BY <2>4, <1>1 DEF Edge
  <2>7. c = to => Edge(b, c)'
    BY <2>3, <2>4, <1>1 DEF Edge
  <2> QED
    BY <2>5, <2>6, <2>7, <1>3
<1> QED
  BY <1>2, <1>3

\* The types of the edges and the counts.  The edges lead to a block that is
\* added, or was.
LEMMA AddConsumerTypes ==
    ASSUME TypeOK, NEW from \in Seq(Producing), Once(from), NEW to, AddConsumer(from, to),
           NEW S, to \in S, next_nodes \in [Producing -> Seq([to : S, id : Ids])]
    PROVE  /\ next_nodes' \in [Producing -> Seq([to : S, id : Ids])]
           /\ producer_count' \in [Aggregators -> Nat]
<1>1. producer_count \in [Aggregators -> Nat] /\ Len(from) \in Nat
  BY DEF TypeOK, FlowTypeOK
<1>2. producer_count' \in [Aggregators -> Nat]
  BY <1>1 DEF AddConsumer
<1>3. ASSUME NEW b \in Producing
      PROVE  next_nodes'[b] \in Seq([to : S, id : Ids])
  <2>1. CASE b \notin ToSet(from)
    BY <2>1, AddConsumerAppends
  <2>2. CASE b \in ToSet(from)
    <3>1. PICK k \in 1..Len(from) : from[k] = b
      BY <2>2, InToSet
    <3>2. NextId(to, k) \in Nat
      BY <1>1 DEF NextId
    <3> DEFINE e == [to |-> to, id |-> NextId(to, k)]
    <3>3. next_nodes'[b] = Append(next_nodes[b], e)
      BY <3>1, AddConsumerAppends
    <3>4. e \in [to : S, id : Ids]
      BY <3>2 DEF Ids
    <3>5. next_nodes[b] \in Seq([to : S, id : Ids])
      OBVIOUS
    <3> HIDE DEF e
    <3> QED
      BY <3>3, <3>4, <3>5
  <2> QED
    BY <2>1, <2>2
<1>4. next_nodes' = [b \in Producing |-> next_nodes'[b]]
  BY DEF AddConsumer
<1> QED
  BY <1>2, <1>3, <1>4

-----------------------------------------------------------------------------
(* The ids of an Aggregator's producers *)

EdgesTyped == next_nodes \in [Producing -> Seq(Edges)]

Into(b, i, a) == next_nodes[b][i].to = a

\* ProducersNumbered, edge by edge.
IdsInRange ==
    \A a \in Aggregators, b \in Producing : \A i \in 1..Len(next_nodes[b]) :
        Into(b, i, a) => next_nodes[b][i].id \in 0..(producer_count[a] - 1)

IdsAllGiven ==
    \A a \in Aggregators : \A n \in 0..(producer_count[a] - 1) :
        \E b \in Producing : \E i \in 1..Len(next_nodes[b]) :
            Into(b, i, a) /\ next_nodes[b][i].id = n

IdsDiffer ==
    \A a \in Aggregators, b, c \in Producing :
        \A i \in 1..Len(next_nodes[b]), j \in 1..Len(next_nodes[c]) :
            (Into(b, i, a) /\ Into(c, j, a) /\ next_nodes[b][i].id = next_nodes[c][j].id)
                => b = c /\ i = j

Numbered == IdsInRange /\ IdsAllGiven /\ IdsDiffer

\* The three facts are what ProducersNumbered says.
LEMMA NumberedMeans == EdgesTyped => (ProducersNumbered <=> Numbered)
<1> SUFFICES ASSUME EdgesTyped
             PROVE  ProducersNumbered <=> Numbered
  OBVIOUS
<1>1. \A b \in Producing : DOMAIN next_nodes[b] = 1..Len(next_nodes[b])
  BY DEF EdgesTyped
<1>2. ASSUME NEW a \in Aggregators, NEW b \in Producing, NEW i \in 1..Len(next_nodes[b]),
             Into(b, i, a)
      PROVE  <<b, i>> \in EdgesInto(a) /\ IdOf(<<b, i>>) = next_nodes[b][i].id
  <2>1. <<b, i>> \in UNION {{c} \X DOMAIN next_nodes[c] : c \in Producing}
    BY <1>1
  <2> QED
    BY <2>1, <1>2 DEF EdgesInto, IdOf, Into
<1>3. ASSUME NEW a \in Aggregators, NEW e \in EdgesInto(a)
      PROVE  \E b \in Producing : \E i \in 1..Len(next_nodes[b]) :
                 e = <<b, i>> /\ Into(b, i, a) /\ IdOf(e) = next_nodes[b][i].id
  <2>1. e \in UNION {{c} \X DOMAIN next_nodes[c] : c \in Producing}
        /\ next_nodes[e[1]][e[2]].to = a
    BY DEF EdgesInto
  <2>2. PICK b \in Producing : e \in {b} \X DOMAIN next_nodes[b]
    BY <2>1
  <2>3. PICK i \in 1..Len(next_nodes[b]) : e = <<b, i>>
    BY <2>2, <1>1
  <2> QED
    BY <2>1, <2>3 DEF IdOf, Into
<1>4. ASSUME ProducersNumbered
      PROVE  Numbered
  <2>1. IdsInRange
    <3> SUFFICES ASSUME NEW a \in Aggregators, NEW b \in Producing,
                        NEW i \in 1..Len(next_nodes[b]), Into(b, i, a)
                 PROVE  next_nodes[b][i].id \in 0..(producer_count[a] - 1)
      BY DEF IdsInRange
    <3>1. IdOf(<<b, i>>) \in {IdOf(e) : e \in EdgesInto(a)}
      BY <1>2
    <3> QED
      BY <1>4, <1>2, <3>1 DEF ProducersNumbered
  <2>2. IdsAllGiven
    <3> SUFFICES ASSUME NEW a \in Aggregators, NEW n \in 0..(producer_count[a] - 1)
                 PROVE  \E b \in Producing : \E i \in 1..Len(next_nodes[b]) :
                            Into(b, i, a) /\ next_nodes[b][i].id = n
      BY DEF IdsAllGiven
    <3>1. PICK e \in EdgesInto(a) : IdOf(e) = n
      BY <1>4 DEF ProducersNumbered
    <3> QED
      BY <1>3, <3>1
  <2>3. IdsDiffer
    <3> SUFFICES ASSUME NEW a \in Aggregators, NEW b \in Producing, NEW c \in Producing,
                        NEW i \in 1..Len(next_nodes[b]), NEW j \in 1..Len(next_nodes[c]),
                        Into(b, i, a), Into(c, j, a),
                        next_nodes[b][i].id = next_nodes[c][j].id
                 PROVE  b = c /\ i = j
      BY DEF IdsDiffer
    <3>1. /\ <<b, i>> \in EdgesInto(a) /\ <<c, j>> \in EdgesInto(a)
          /\ IdOf(<<b, i>>) = IdOf(<<c, j>>)
      BY <1>2
    <3>2. <<b, i>> = <<c, j>>
      BY <1>4, <3>1 DEF ProducersNumbered
    <3> QED
      BY <3>2
  <2> QED
    BY <2>1, <2>2, <2>3 DEF Numbered
<1>5. ASSUME Numbered
      PROVE  ProducersNumbered
  <2> SUFFICES ASSUME NEW a \in Aggregators
               PROVE  /\ {IdOf(e) : e \in EdgesInto(a)} = 0..(producer_count[a] - 1)
                      /\ \A e, f \in EdgesInto(a) : IdOf(e) = IdOf(f) => e = f
    BY DEF ProducersNumbered
  <2>1. \A e \in EdgesInto(a) : IdOf(e) \in 0..(producer_count[a] - 1)
    BY <1>3, <1>5 DEF Numbered, IdsInRange
  <2>2. ASSUME NEW n \in 0..(producer_count[a] - 1)
        PROVE  \E e \in EdgesInto(a) : IdOf(e) = n
    <3>1. PICK b \in Producing : \E i \in 1..Len(next_nodes[b]) :
              Into(b, i, a) /\ next_nodes[b][i].id = n
      BY <1>5 DEF Numbered, IdsAllGiven
    <3>2. PICK i \in 1..Len(next_nodes[b]) : Into(b, i, a) /\ next_nodes[b][i].id = n
      BY <3>1
    <3> QED
      BY <1>2, <3>2
  <2>3. \A e, f \in EdgesInto(a) : IdOf(e) = IdOf(f) => e = f
    BY <1>3, <1>5 DEF Numbered, IdsDiffer
  <2> QED
    BY <2>1, <2>2, <2>3
<1> QED
  BY <1>4, <1>5

\* Each of the new producers gets the next number.
LEMMA NumberingKept ==
    ASSUME TypeOK, TypeOK', Numbered,
           NEW from \in Seq(Producing), Once(from), NEW to, AddConsumer(from, to)
    PROVE  Numbered'
<1> DEFINE n == Len(from)
           last(b) == Len(next_nodes[b]) + 1
<1>1. /\ next_nodes \in [Producing -> Seq(Edges)] /\ next_nodes' \in [Producing -> Seq(Edges)]
      /\ producer_count \in [Aggregators -> Nat] /\ n \in Nat
  BY DEF TypeOK, FlowTypeOK
<1>2. ASSUME NEW k \in 1..n
      PROVE  /\ from[k] \in Producing
             /\ Len(next_nodes'[from[k]]) = last(from[k])
             /\ \A i \in 1..Len(next_nodes[from[k]]) :
                    next_nodes'[from[k]][i] = next_nodes[from[k]][i]
             /\ next_nodes'[from[k]][last(from[k])].to = to
             /\ next_nodes'[from[k]][last(from[k])].id = NextId(to, k)
  <2> DEFINE e == [to |-> to, id |-> NextId(to, k)]
  <2>1. next_nodes'[from[k]] = Append(next_nodes[from[k]], e)
    BY AddConsumerAppends
  <2>2. from[k] \in Producing /\ next_nodes[from[k]] \in Seq(Edges)
    BY <1>1
  <2>3. e.to = to /\ e.id = NextId(to, k)
    OBVIOUS
  <2> HIDE DEF e
  <2> QED
    BY <2>1, <2>2, <2>3
\* Old edges stay.
<1>3. ASSUME NEW b \in Producing, NEW i \in 1..Len(next_nodes[b])
      PROVE  i \in 1..Len(next_nodes'[b]) /\ next_nodes'[b][i] = next_nodes[b][i]
  <2>1. CASE b \notin ToSet(from)
    BY <2>1, AddConsumerAppends
  <2>2. CASE b \in ToSet(from)
    <3>1. PICK k \in 1..n : from[k] = b
      BY <2>2, InToSet
    <3>2. next_nodes[b] \in Seq(Edges)
      BY <1>1
    <3>3. /\ Len(next_nodes'[b]) = last(b)
          /\ \A m \in 1..Len(next_nodes[b]) : next_nodes'[b][m] = next_nodes[b][m]
      BY <1>2, <3>1
    <3> QED
      BY <3>2, <3>3
  <2> QED
    BY <2>1, <2>2
\* Every edge is an old one or a new one.
<1>4. ASSUME NEW b \in Producing, NEW i \in 1..Len(next_nodes'[b]),
             i \notin 1..Len(next_nodes[b])
      PROVE  \E k \in 1..n : from[k] = b /\ i = last(b)
  <2>1. b \in ToSet(from)
    BY <1>4, AddConsumerAppends
  <2>2. PICK k \in 1..n : from[k] = b
    BY <2>1, InToSet
  <2>3. Len(next_nodes'[b]) = last(b)
    BY <1>2, <2>2
  <2>4. next_nodes[b] \in Seq(Edges)
    BY <1>1
  <2> QED
    BY <2>2, <2>3, <2>4, <1>4
<1>5. \A a \in Aggregators : producer_count'[a] = producer_count[a] + (IF a = to THEN n ELSE 0)
  BY DEF AddConsumer
<1>6. ASSUME NEW k \in 1..n
      PROVE  from[k] \in Producing /\ last(from[k]) \in 1..Len(next_nodes'[from[k]])
  <2>1. from[k] \in Producing /\ Len(next_nodes'[from[k]]) = last(from[k])
    BY <1>2
  <2>2. next_nodes[from[k]] \in Seq(Edges)
    BY <1>1, <2>1
  <2> QED
    BY <2>1, <2>2
<1>7. ASSUME NEW k \in 1..n, to \in Aggregators
      PROVE  next_nodes'[from[k]][last(from[k])].id = producer_count[to] + k - 1
  <2>1. next_nodes'[from[k]][last(from[k])].id = NextId(to, k)
    BY <1>2
  <2> QED
    BY <2>1, <1>7 DEF NextId
<1>8. \A k \in 1..n : next_nodes'[from[k]][last(from[k])].to = to
  BY <1>2
<1> HIDE DEF n, last
<1>9. IdsInRange'
  <2> SUFFICES ASSUME NEW a \in Aggregators, NEW b \in Producing,
                      NEW i \in 1..Len(next_nodes'[b]), next_nodes'[b][i].to = a
               PROVE  next_nodes'[b][i].id \in 0..(producer_count'[a] - 1)
    BY DEF IdsInRange, Into
  <2>1. CASE i \in 1..Len(next_nodes[b])
    <3>1. next_nodes[b][i].id \in 0..(producer_count[a] - 1) /\ next_nodes'[b][i] = next_nodes[b][i]
      BY <2>1, <1>3 DEF Numbered, IdsInRange, Into
    <3> QED
      BY <3>1, <1>1, <1>5, SMTT(30)
  <2>2. CASE i \notin 1..Len(next_nodes[b])
    <3>1. PICK k \in 1..n : from[k] = b /\ i = last(b)
      BY <2>2, <1>4
    <3>2. a = to
      BY <3>1, <1>8
    <3>3. next_nodes'[b][i].id = producer_count[a] + k - 1
      BY <3>1, <3>2, <1>7
    <3>4. producer_count'[a] = producer_count[a] + n /\ producer_count[a] \in Nat
      BY <3>2, <1>1, <1>5
    <3> QED
      BY <3>3, <3>4, <1>1
  <2> QED
    BY <2>1, <2>2
<1>10. IdsAllGiven'
  <2> SUFFICES ASSUME NEW a \in Aggregators, NEW m \in 0..(producer_count'[a] - 1)
               PROVE  \E b \in Producing : \E i \in 1..Len(next_nodes'[b]) :
                          next_nodes'[b][i].to = a /\ next_nodes'[b][i].id = m
    BY DEF IdsAllGiven, Into
  <2>1. CASE m \in 0..(producer_count[a] - 1)
    BY <2>1, <1>3 DEF Numbered, IdsAllGiven, Into
  <2>2. CASE m \notin 0..(producer_count[a] - 1)
    <3>1. a = to /\ m - producer_count[a] + 1 \in 1..n
      BY <2>2, <1>1, <1>5
    <3>2. PICK k \in 1..n : k = m - producer_count[a] + 1
      BY <3>1
    <3>3. next_nodes'[from[k]][last(from[k])].id = producer_count[a] + k - 1
      BY <3>1, <1>7
    <3>4. next_nodes'[from[k]][last(from[k])].id = m
      BY <3>2, <3>3, <1>1
    <3> QED
      BY <3>1, <3>4, <1>6, <1>8
  <2> QED
    BY <2>1, <2>2
<1>11. IdsDiffer'
  <2> SUFFICES ASSUME NEW a \in Aggregators, NEW b \in Producing, NEW c \in Producing,
                      NEW i \in 1..Len(next_nodes'[b]), NEW j \in 1..Len(next_nodes'[c]),
                      next_nodes'[b][i].to = a, next_nodes'[c][j].to = a,
                      next_nodes'[b][i].id = next_nodes'[c][j].id
               PROVE  b = c /\ i = j
    BY DEF IdsDiffer, Into
  <2>1. ASSUME NEW d \in Producing, NEW k \in 1..Len(next_nodes[d]), next_nodes'[d][k].to = a
        PROVE  next_nodes'[d][k].id < producer_count[a]
    <3>1. next_nodes'[d][k] = next_nodes[d][k]
      BY <1>3
    <3>2. next_nodes[d][k].id \in 0..(producer_count[a] - 1)
      BY <2>1, <3>1 DEF Numbered, IdsInRange, Into
    <3> QED
      BY <3>1, <3>2, <1>1
  <2>2. \A d \in Producing : \A k \in 1..Len(next_nodes'[d]) :
            (k \notin 1..Len(next_nodes[d]) /\ next_nodes'[d][k].to = a)
                => \E m \in 1..n : /\ from[m] = d /\ k = last(d)
                                   /\ next_nodes'[d][k].id = producer_count[a] + m - 1
    <3> SUFFICES ASSUME NEW d \in Producing, NEW k \in 1..Len(next_nodes'[d]),
                        k \notin 1..Len(next_nodes[d]), next_nodes'[d][k].to = a
                 PROVE  \E m \in 1..n : /\ from[m] = d /\ k = last(d)
                                        /\ next_nodes'[d][k].id = producer_count[a] + m - 1
      OBVIOUS
    <3>1. PICK m \in 1..n : from[m] = d /\ k = last(d)
      BY <1>4
    <3>2. a = to
      BY <3>1, <1>8
    <3>3. next_nodes'[d][k].id = producer_count[a] + m - 1
      BY <3>1, <3>2, <1>7
    <3> QED BY <3>1, <3>3
  <2>3. CASE i \in 1..Len(next_nodes[b]) /\ j \in 1..Len(next_nodes[c])
    <3>1. next_nodes'[b][i] = next_nodes[b][i] /\ next_nodes'[c][j] = next_nodes[c][j]
      BY <2>3, <1>3
    <3>2. /\ next_nodes[b][i].to = a /\ next_nodes[c][j].to = a
          /\ next_nodes[b][i].id = next_nodes[c][j].id
      BY <3>1
    <3>3. IdsDiffer
      BY DEF Numbered
    <3> QED BY <2>3, <3>2, <3>3 DEF IdsDiffer, Into
  <2>4. CASE i \in 1..Len(next_nodes[b]) /\ j \notin 1..Len(next_nodes[c])
    <3>1. next_nodes'[b][i].id < producer_count[a]
      BY <2>1, <2>4
    <3>2. PICK m \in 1..n : next_nodes'[c][j].id = producer_count[a] + m - 1
      BY <2>2, <2>4
    <3> QED BY <3>1, <3>2, <1>1
  <2>5. CASE i \notin 1..Len(next_nodes[b]) /\ j \in 1..Len(next_nodes[c])
    <3>1. next_nodes'[c][j].id < producer_count[a]
      BY <2>1, <2>5
    <3>2. PICK m \in 1..n : next_nodes'[b][i].id = producer_count[a] + m - 1
      BY <2>2, <2>5
    <3> QED BY <3>1, <3>2, <1>1
  <2>6. CASE i \notin 1..Len(next_nodes[b]) /\ j \notin 1..Len(next_nodes[c])
    <3>1. PICK m \in 1..n : /\ from[m] = b /\ i = last(b)
                            /\ next_nodes'[b][i].id = producer_count[a] + m - 1
      BY <2>2, <2>6
    <3>2. PICK k \in 1..n : /\ from[k] = c /\ j = last(c)
                            /\ next_nodes'[c][j].id = producer_count[a] + k - 1
      BY <2>2, <2>6
    <3>3. m = k
      BY <3>1, <3>2, <1>1
    <3> QED
      BY <3>1, <3>2, <3>3
  <2> QED
    BY <2>3, <2>4, <2>5, <2>6
<1> QED
  BY <1>9, <1>10, <1>11 DEF Numbered

-----------------------------------------------------------------------------
(* An execution takes the first call and makes others *)

BuiltCalls == [to : ToSet(built), id : Ids, in : Anys]

\* What a step of an execution does to the calls, and how it may end.
Effect ==
    /\ calls' \in Seq(BuiltCalls)
    /\ status' \in {"idle", "running", "thrown", "undefined"}
    /\ status' = "undefined" => \E b \in Producing : Added(b) /\ next_nodes[b] = <<>>
    /\ lapse' \in BOOLEAN

\* Calls that take the place of the first are again calls of blocks added.
LEMMA ReplaceEffect ==
    ASSUME NEW S, calls \in Seq(S), calls # <<>>, NEW new \in Seq(S), Replace(new)
    PROVE  calls' \in Seq(S) /\ status' \in {"idle", "running"}
<1>1. Tail(calls) \in Seq(S)
  OBVIOUS
<1>2. new \o Tail(calls) \in Seq(S)
  BY <1>1
<1> QED
  BY <1>2 DEF Replace

\* What a block hands on goes to blocks that were added.
LEMMA ConsumerCallsBuilt ==
    ASSUME AmongBuilt, NEW b \in Producing, NEW out \in Anys
    PROVE  /\ ConsumerCalls(b, out) \in Seq(BuiltCalls)
           /\ Len(ConsumerCalls(b, out)) = Len(next_nodes[b])
<1>1. next_nodes[b] \in Seq([to : ToSet(built), id : Ids])
  BY DEF AmongBuilt
<1> DEFINE n == Len(next_nodes[b])
<1>2. n \in Nat
  BY <1>1
<1>3. ASSUME NEW i \in 1..n
      PROVE  [to |-> next_nodes[b][i].to, id |-> next_nodes[b][i].id, in |-> out] \in BuiltCalls
  <2>1. next_nodes[b][i] \in [to : ToSet(built), id : Ids]
    BY <1>1, ElementIn
  <2> QED
    BY <2>1 DEF BuiltCalls
<1> HIDE DEF n
<1>4. ConsumerCalls(b, out) \in [1..n -> BuiltCalls]
  BY <1>3 DEF ConsumerCalls, n
<1> QED
  BY <1>2, <1>4, IsASeq, LenProperties DEF n

\* The three kinds of nstd::any.
LEMMA AnysMade ==
    /\ Nullopt \in Anys /\ Void \in Anys
    /\ \A data \in SUBSET Tokens : Value(data) \in Anys
BY DEF Nullopt, Void, Value, Anys

\* Fanout calls blocks that were added, or runs out of a block without consumers.
LEMMA FanoutEffect ==
    ASSUME TypeOK, AmongBuilt, NEW b \in Producing, Head1(b), NEW out \in Anys,
           Fanout(b, out) \/ FanoutToNobody(b), lapse' \in BOOLEAN
    PROVE  Effect
<1>1. calls \in Seq(BuiltCalls) /\ calls # <<>>
  BY DEF AmongBuilt, BuiltCalls, Head1
<1>2. CASE Fanout(b, out)
  <2>1. ConsumerCalls(b, out) \in Seq(BuiltCalls)
    BY ConsumerCallsBuilt
  <2>2. calls' \in Seq(BuiltCalls) /\ status' \in {"idle", "running"}
    BY <1>1, <1>2, <2>1, ReplaceEffect DEF Fanout
  <2> QED
    BY <2>2 DEF Effect
<1>3. CASE FanoutToNobody(b)
  <2>1. Head(calls) \in BuiltCalls
    BY <1>1
  <2>2. Added(b)
    BY <2>1 DEF Head1, BuiltCalls, Added
  <2> QED
    BY <1>3, <2>2 DEF FanoutToNobody, Effect
<1> QED
  BY <1>2, <1>3

\* An exception leaves no calls.
LEMMA ThrowEffect ==
    ASSUME Throw
    PROVE  Effect
BY DEF Throw, Effect

\* produce() of a result, by either policy.
LEMMA ProduceResultEffect ==
    ASSUME TypeOK, AmongBuilt, NEW b \in Producing, Head1(b), NEW data \in SUBSET Tokens,
           ProduceResult(b, data)
    PROVE  Effect
<1>1. lapse \in BOOLEAN
  BY DEF TypeOK, FlowTypeOK
<1>2. Value(data) \in Anys
  BY AnysMade
<1>3. CASE (Fanout(b, Value(data)) \/ FanoutToNobody(b)) /\ UNCHANGED lapse
  BY <1>1, <1>2, <1>3, FanoutEffect
<1>4. CASE \E n \in 0..MaxBatch :
            /\ n <= Len(next_nodes[b])
            /\ Distribute(b, Value(data), n)
            /\ lapse' = (lapse \/ n < Len(next_nodes[b]))
  <2>1. PICK n \in 0..MaxBatch :
            /\ n <= Len(next_nodes[b])
            /\ Distribute(b, Value(data), n)
            /\ lapse' = (lapse \/ n < Len(next_nodes[b]))
    BY <1>4
  <2> DEFINE new == ConsumerCalls(b, Value(data))
  <2>2. new \in Seq(BuiltCalls) /\ n <= Len(new)
    BY <1>2, <2>1, ConsumerCallsBuilt
  <2>3. n \in Nat
    BY BoundsAssumption
  <2> HIDE DEF new
  <2>4. \A i \in 1..n : new[i] \in BuiltCalls
    BY <2>2, <2>3
  <2>5. SubSeq(new, 1, n) \in Seq(BuiltCalls)
    BY <2>3, <2>4, SubSeqProperties
  <2>6. calls \in Seq(BuiltCalls) /\ calls # <<>>
    BY DEF AmongBuilt, BuiltCalls, Head1
  <2>7. calls' \in Seq(BuiltCalls) /\ status' \in {"idle", "running"}
    BY <2>1, <2>5, <2>6, ReplaceEffect DEF Distribute, new
  <2> QED
    BY <2>1, <2>7 DEF Effect
<1>5. CASE Throw
  BY <1>5, ThrowEffect
<1> QED
  BY <1>3, <1>4, <1>5 DEF ProduceResult

\* produce(std::nullopt), by either policy.
LEMMA ProduceNothingEffect ==
    ASSUME TypeOK, AmongBuilt, NEW b \in Producing, Head1(b), ProduceNothing(b)
    PROVE  Effect
<1>1. CASE (Fanout(b, Nullopt) \/ FanoutToNobody(b)) /\ lapse' = TRUE
  BY <1>1, AnysMade, FanoutEffect
<1>2. CASE Throw
  BY <1>2, ThrowEffect
<1> QED
  BY <1>1, <1>2 DEF ProduceNothing

\* A block that only takes its input leaves the calls behind it.
LEMMA DropEffect ==
    ASSUME TypeOK, AmongBuilt, calls # <<>>, Replace(<<>>), lapse' \in BOOLEAN
    PROVE  Effect
<1>1. calls \in Seq(BuiltCalls) /\ <<>> \in Seq(BuiltCalls)
  BY DEF AmongBuilt, BuiltCalls
<1>2. calls' \in Seq(BuiltCalls) /\ status' \in {"idle", "running"}
  BY <1>1, ReplaceEffect
<1> QED
  BY <1>2 DEF Effect

InputsTyped == \A a \in Aggregators : \A id \in DOMAIN latest[a] : latest[a][id] \subseteq Tokens

\* What the steps of an execution leave alone.
StepFrame ==
    /\ UNCHANGED <<graphVars, round>>
    /\ DOMAIN latest' = Aggregators /\ InputsTyped'
    /\ received' \in [Sinks -> Seq(SUBSET Tokens)]

\* Steps that leave the inputs of the Aggregators alone.
LEMMA SameLatest ==
    ASSUME TypeOK, DOMAIN latest = Aggregators, UNCHANGED <<graphVars, latest, round>>,
           received' \in [Sinks -> Seq(SUBSET Tokens)]
    PROVE  StepFrame
BY DEF TypeOK, FlowTypeOK, StepFrame, InputsTyped

\* The execution of a Source.
LEMMA SourceStep ==
    ASSUME IInv, NEW b \in Sources, ExecuteSource(b)
    PROVE  Effect /\ StepFrame
<1>1. TypeOK /\ AmongBuilt /\ b \in Producing /\ Head1(b)
  BY DEF IInv, ExecuteSource, Producing
<1>2. round \in 1..MaxRounds
  BY BoundsAssumption DEF IInv, TypeOK, FlowTypeOK, ExecuteSource, Head1
<1>3. {<<b, round>>} \in SUBSET Tokens
  BY <1>2 DEF Tokens
<1>4. ASSUME ProduceResult(b, {<<b, round>>})
      PROVE  Effect
  BY <1>1, <1>3, <1>4, ProduceResultEffect
<1>5. ASSUME ProduceNothing(b)
      PROVE  Effect
  BY <1>1, <1>5, ProduceNothingEffect
<1>6. ASSUME Throw
      PROVE  Effect
  BY <1>6, ThrowEffect
<1>7. StepFrame
  BY SameLatest DEF ExecuteSource, IInv, TypeOK, FlowTypeOK
<1> QED
  BY <1>4, <1>5, <1>6, <1>7 DEF ExecuteSource

\* The first call hands on an any of values, with an id.
LEMMA InTyped ==
    ASSUME TypeOK, calls # <<>>
    PROVE  In \in Anys /\ In.data \in SUBSET Tokens /\ Head(calls).id \in Ids
<1>1. Head(calls) \in Calls
  BY DEF TypeOK, FlowTypeOK
<1>2. In \in Anys /\ Head(calls).id \in Ids
  BY <1>1 DEF Calls, In
<1> QED
  BY <1>2 DEF Anys

\* The execution of a Module.
LEMMA ModuleStep ==
    ASSUME IInv, NEW b \in Modules, ExecuteModule(b)
    PROVE  Effect /\ StepFrame
<1>1. TypeOK /\ AmongBuilt /\ b \in Producing /\ Head1(b)
  BY DEF IInv, ExecuteModule, Producing, Nodes
<1>2. In.data \in SUBSET Tokens
  BY <1>1, InTyped DEF Head1
<1>3. ASSUME ProduceResult(b, In.data)
      PROVE  Effect
  BY <1>1, <1>2, <1>3, ProduceResultEffect
<1>4. ASSUME ProduceNothing(b)
      PROVE  Effect
  BY <1>1, <1>4, ProduceNothingEffect
<1>5. ASSUME Throw
      PROVE  Effect
  BY <1>5, ThrowEffect
<1>6. StepFrame
  BY SameLatest DEF ExecuteModule, IInv, TypeOK, FlowTypeOK
<1> QED
  BY <1>3, <1>4, <1>5, <1>6 DEF ExecuteModule

\* What an Aggregator has with its new input.
LEMMA WithInputTyped ==
    ASSUME TypeOK, calls # <<>>, NEW a \in Aggregators
    PROVE  \A id \in DOMAIN WithInput(a) : WithInput(a)[id] \subseteq Tokens
<1>1. In.data \in SUBSET Tokens
  BY InTyped
<1>2. \A id \in DOMAIN latest[a] : latest[a][id] \subseteq Tokens
  BY DEF TypeOK, FlowTypeOK
<1> QED
  BY <1>1, <1>2 DEF WithInput

\* The execution of an Aggregator.
LEMMA AggregatorStep ==
    ASSUME IInv, NEW a \in Aggregators, ExecuteAggregator(a)
    PROVE  Effect /\ StepFrame
<1>1. /\ TypeOK /\ AmongBuilt /\ a \in Producing /\ Head1(a) /\ calls # <<>>
      /\ lapse \in BOOLEAN /\ DOMAIN latest = Aggregators
      /\ received \in [Sinks -> Seq(SUBSET Tokens)]
  BY DEF IInv, TypeOK, FlowTypeOK, ExecuteAggregator, AggregatorDrops, AggregatorBadCast,
         AggregatorKeeps, AggregatorCollects, Producing, Nodes, Head1
<1>2. CASE AggregatorDrops(a)
  <2>1. Effect
    BY <1>1, <1>2, DropEffect DEF AggregatorDrops
  <2>2. StepFrame
    BY <1>1, <1>2, SameLatest DEF AggregatorDrops
  <2> QED
    BY <2>1, <2>2
<1>3. CASE AggregatorBadCast(a)
  <2>1. Effect
    BY <1>3, ThrowEffect DEF AggregatorBadCast
  <2>2. StepFrame
    BY <1>1, <1>3, SameLatest DEF AggregatorBadCast
  <2> QED
    BY <2>1, <2>2
<1>4. CASE AggregatorKeeps(a)
  <2>1. Effect
    BY <1>1, <1>4, DropEffect DEF AggregatorKeeps
  <2>2. latest' = [latest EXCEPT ![a] = WithInput(a)]
    BY <1>4 DEF AggregatorKeeps
  <2>3. DOMAIN latest' = Aggregators /\ latest'[a] = WithInput(a)
        /\ \A c \in Aggregators \ {a} : latest'[c] = latest[c]
    BY <1>1, <2>2
  <2>4. InputsTyped'
    BY <1>1, <2>3, WithInputTyped DEF InputsTyped, TypeOK, FlowTypeOK
  <2>5. UNCHANGED <<graphVars, round, received>>
    BY <1>4 DEF AggregatorKeeps
  <2> QED
    BY <1>1, <2>1, <2>3, <2>4, <2>5 DEF StepFrame
<1>5. CASE AggregatorCollects(a)
  <2> DEFINE data == UNION {WithInput(a)[id] : id \in DOMAIN WithInput(a)}
  <2>1. data \in SUBSET Tokens
    BY <1>1, WithInputTyped
  <2>2. ASSUME ProduceResult(a, data)
        PROVE  Effect
    BY <1>1, <2>1, <2>2, ProduceResultEffect
  <2>3. ASSUME Replace(<<>>) /\ lapse' = TRUE
        PROVE  Effect
    BY <1>1, <2>3, DropEffect
  <2>4. ASSUME Throw
        PROVE  Effect
    BY <2>4, ThrowEffect
  <2>5. Effect
    BY <1>5, <2>2, <2>3, <2>4 DEF AggregatorCollects
  <2>6. latest' = [latest EXCEPT ![a] = Empty]
    BY <1>5 DEF AggregatorCollects
  <2>7. DOMAIN latest' = Aggregators /\ latest'[a] = Empty
        /\ \A c \in Aggregators \ {a} : latest'[c] = latest[c]
    BY <1>1, <2>6
  <2>8. DOMAIN Empty = {}
    BY DEF Empty
  <2>9. InputsTyped'
    BY <1>1, <2>7, <2>8 DEF InputsTyped, TypeOK, FlowTypeOK
  <2>10. UNCHANGED <<graphVars, round, received>>
    BY <1>5 DEF AggregatorCollects
  <2> QED
    BY <1>1, <2>5, <2>7, <2>9, <2>10 DEF StepFrame
<1> QED
  BY <1>2, <1>3, <1>4, <1>5 DEF ExecuteAggregator

\* The execution of a Sink.
LEMMA SinkStep ==
    ASSUME IInv, NEW s \in Sinks, ExecuteSink(s)
    PROVE  Effect /\ StepFrame
<1>1. /\ TypeOK /\ AmongBuilt /\ calls # <<>>
      /\ lapse \in BOOLEAN /\ DOMAIN latest = Aggregators
      /\ received \in [Sinks -> Seq(SUBSET Tokens)]
  BY DEF IInv, TypeOK, FlowTypeOK, ExecuteSink, Head1
<1>2. In.data \in SUBSET Tokens
  BY <1>1, InTyped
<1>3. received' \in [Sinks -> Seq(SUBSET Tokens)]
  <2>1. CASE UNCHANGED received
    BY <1>1, <2>1
  <2>2. CASE received' = [received EXCEPT ![s] = Append(@, In.data)]
    <3>1. Append(received[s], In.data) \in Seq(SUBSET Tokens)
      BY <1>1, <1>2
    <3> QED
      BY <1>1, <2>2, <3>1
  <2> QED
    BY <2>1, <2>2 DEF ExecuteSink
<1>4. StepFrame
  BY <1>1, <1>3, SameLatest DEF ExecuteSink
<1>5. ASSUME Replace(<<>>) /\ UNCHANGED lapse
      PROVE  Effect
  BY <1>1, <1>5, DropEffect
<1>6. ASSUME Throw
      PROVE  Effect
  BY <1>6, ThrowEffect
<1> QED
  BY <1>4, <1>5, <1>6 DEF ExecuteSink

-----------------------------------------------------------------------------
(* The wiring *)

\* The blocks upstream are producers that were added, none of them twice.
LEMMA UpstreamFits ==
    ASSUME IInv
    PROVE  Upstream \in Seq(Producing) /\ Once(Upstream) /\ ToSet(Upstream) \subseteq ToSet(built)
<1>1. /\ sources \in Seq(Sources) /\ nodes \in Seq(Nodes)
      /\ Once(sources) /\ ToSet(sources) \subseteq ToSet(built) /\ ToSet(nodes) \subseteq ToSet(built)
  BY DEF IInv, TypeOK, Listed
<1>2. CASE nodes = <<>>
  <2>1. sources \in Seq(Producing)
    BY <1>1, SeqIn DEF Producing
  <2> QED
    BY <1>1, <1>2, <2>1 DEF Upstream
<1>3. CASE nodes # <<>>
  <2>1. Len(nodes) \in 1..Len(nodes)
    BY <1>1, <1>3
  <2>2. Last(nodes) \in Producing /\ Last(nodes) \in ToSet(built)
    BY <1>1, <2>1, InToSet DEF Last, Producing
  <2> DEFINE x == Last(nodes)
  <2>3. Upstream = <<x>>
    BY <1>3 DEF Upstream
  <2> HIDE DEF x
  <2>4. <<x>> \in Seq({x}) /\ Len(<<x>>) = 1 /\ <<x>>[1] = x
    OBVIOUS
  <2>5. Once(<<x>>) /\ ToSet(<<x>>) = {x}
    BY <2>4 DEF Once, ToSet
  <2>6. <<x>> \in Seq(Producing)
    BY <2>2, <2>4 DEF x
  <2> QED
    BY <2>2, <2>3, <2>5, <2>6 DEF x
<1> QED
  BY <1>2, <1>3

\* Upstream, by whether there is a Node.
LEMMA UpstreamIs ==
    /\ nodes = <<>> => Upstream = sources
    /\ nodes # <<>> => ToSet(Upstream) = {Last(nodes)}
<1>1. ASSUME nodes # <<>>
      PROVE  ToSet(Upstream) = {Last(nodes)}
  <2> DEFINE x == Last(nodes)
  <2>1. Upstream = <<x>>
    BY <1>1 DEF Upstream
  <2> HIDE DEF x
  <2>2. DOMAIN <<x>> = {1} /\ <<x>>[1] = x
    OBVIOUS
  <2>3. ToSet(<<x>>) = {x}
    BY <2>2 DEF ToSet
  <2> QED
    BY <2>1, <2>3 DEF x
<1> QED
  BY <1>1 DEF Upstream

\* What the changes of a graph have in common.
LEMMA GraphGrows ==
    ASSUME IInv, AtRest, GraphChanged, status' = status,
           NEW from \in Seq(Producing), Once(from), ToSet(from) \subseteq ToSet(built'),
           NEW to, to \in ToSet(built'), AddConsumer(from, to),
           built' \in Seq(Blocks), ToSet(built) \subseteq ToSet(built'),
           sources' \in Seq(Sources), nodes' \in Seq(Nodes),
           manual' \subseteq ManualEdges,
           \A e \in manual' : e[1] \in ToSet(built') /\ e[2] \in ToSet(built')
    PROVE  /\ TypeOK' /\ AmongBuilt' /\ ProducersNumbered' /\ NoUndefinedBehaviour'
           /\ DOMAIN latest' = Aggregators /\ (calls' # <<>> => round' > 0)
<1> DEFINE S == ToSet(built')
<1>1. S \subseteq Blocks
  BY InToSet
<1>2. TypeOK
  BY DEF IInv
<1>3. next_nodes \in [Producing -> Seq([to : S, id : Ids])]
  <2>1. next_nodes \in [Producing -> Seq([to : ToSet(built), id : Ids])]
    BY DEF IInv, AmongBuilt
  <2>2. Seq([to : ToSet(built), id : Ids]) \subseteq Seq([to : S, id : Ids])
    BY EdgesWider
  <2> QED
    BY <2>1, <2>2
<1>4. calls \in Seq([to : S, id : Ids, in : Anys])
  <2>1. calls \in Seq([to : ToSet(built), id : Ids, in : Anys])
    BY DEF IInv, AmongBuilt
  <2>2. Seq([to : ToSet(built), id : Ids, in : Anys]) \subseteq Seq([to : S, id : Ids, in : Anys])
    BY EdgesWider
  <2> QED
    BY <2>1, <2>2
<1>5. /\ next_nodes' \in [Producing -> Seq([to : S, id : Ids])]
      /\ producer_count' \in [Aggregators -> Nat]
  BY <1>2, <1>3, AddConsumerTypes
<1>6. next_nodes' \in [Producing -> Seq(Edges)]
  <2>1. [to : S, id : Ids] \subseteq Edges
    BY <1>1 DEF Edges
  <2> HIDE DEF S
  <2>2. \A b \in Producing : next_nodes'[b] \in Seq(Edges)
    BY <1>5, <2>1, SeqWider
  <2> QED
    BY <1>5, <2>2
<1>7. UNCHANGED <<latest, calls, round, lapse>> /\ received' = Nothing
  BY DEF GraphChanged
<1>8. received' \in [Sinks -> Seq(SUBSET Tokens)]
  BY <1>7 DEF Nothing
<1>9. TypeOK'
  BY <1>2, <1>5, <1>6, <1>7, <1>8 DEF TypeOK, FlowTypeOK
<1>10. AmongBuilt'
  <2>1. ASSUME NEW b \in Producing, next_nodes'[b] # <<>>
        PROVE  b \in S
    <3>1. CASE b \in ToSet(from)
      BY <3>1
    <3>2. CASE b \notin ToSet(from)
      BY <2>1, <3>2, <1>2, AddConsumerAppends DEF IInv, AmongBuilt, Added
    <3> QED
      BY <3>1, <3>2
  <2> QED
    BY <1>4, <1>5, <1>7, <2>1 DEF AmongBuilt, Added
<1>11. ProducersNumbered'
  <2>1. EdgesTyped /\ EdgesTyped'
    BY <1>2, <1>6 DEF EdgesTyped, TypeOK, FlowTypeOK
  <2>2. Numbered
    BY <2>1, NumberedMeans DEF IInv
  <2>3. Numbered'
    BY <1>2, <1>9, <2>2, NumberingKept
  <2>4. EdgesTyped' => (ProducersNumbered' <=> Numbered')
    BY NumberedMeans, PTL
  <2> QED
    BY <2>1, <2>3, <2>4
<1>12. NoUndefinedBehaviour'
  BY DEF NoUndefinedBehaviour, AtRest
<1> QED
  BY <1>7, <1>9, <1>10, <1>11, <1>12 DEF IInv

\* The rank of a block, by its kind.
LEMMA RankOf ==
    /\ \A b \in Sources : Rank(b) = 1
    /\ \A b \in Nodes : Rank(b) = 2
    /\ \A b \in Sinks : Rank(b) = 3
BY KindsAssumption DEF Rank, Producing

\* When a block is added in order, those before it were, and come before it.
LEMMA OrderOfAppend ==
    ASSUME built \in Seq(Blocks), NEW x, built' = Append(built, x), InOrder'
    PROVE  InOrder /\ \A b \in ToSet(built) : Rank(b) <= Rank(x)
<1> DEFINE n == Len(built)
<1>1. /\ n \in Nat /\ Len(built') = n + 1 /\ built'[n + 1] = x
      /\ \A i \in 1..n : built'[i] = built[i]
  OBVIOUS
<1>2. \A i, j \in 1..(n + 1) : i < j => Rank(built'[i]) <= Rank(built'[j])
  BY <1>1 DEF InOrder, Rank
<1>3. InOrder
  BY <1>1, <1>2 DEF InOrder
<1>4. ASSUME NEW b \in ToSet(built)
      PROVE  Rank(b) <= Rank(x)
  <2>1. PICK i \in 1..n : built[i] = b
    BY InToSet
  <2> QED
    BY <1>1, <1>2, <2>1
<1> QED
  BY <1>3, <1>4

\* A block that is not added yet has no consumers.
LEMMA NoEdgesYet ==
    ASSUME IInv, NEW b \in Producing, ~Added(b)
    PROVE  /\ \A c : ~Edge(b, c) /\ <<b, c>> \notin manual
           /\ b \notin ToSet(sources) /\ b \notin ToSet(nodes) /\ b \notin ToSet(Upstream)
<1>1. next_nodes[b] = <<>>
  BY DEF IInv, AmongBuilt
<1>2. \A c : ~Edge(b, c)
  BY <1>1 DEF Edge
<1>3. \A c : <<b, c>> \notin manual
  <2> SUFFICES ASSUME NEW c, <<b, c>> \in manual PROVE FALSE
    OBVIOUS
  <2>1. Added(<<b, c>>[1])
    BY DEF IInv, AmongBuilt
  <2> QED
    BY <2>1
<1> QED
  BY <1>2, <1>3, UpstreamFits DEF IInv, Listed, Added

\* Wired, by the kind of block.
WiredSources ==
    \A b \in Sources, c \in Blocks :
        Wired(b, c) <=>
            \/ <<b, c>> \in manual
            \/ nodes # <<>> /\ c = Head(nodes)
            \/ nodes = <<>> /\ c \in SinksAdded

WiredNodes ==
    \A b \in Nodes, c \in Blocks :
        Wired(b, c) <=>
            \/ <<b, c>> \in manual
            \/ \E i \in 1..(Len(nodes) - 1) : b = nodes[i] /\ c = nodes[i + 1]
            \/ nodes # <<>> /\ b = Last(nodes) /\ c \in SinksAdded

\* What Wired says of a Source, and of a Node.
LEMMA WiredByKind == TypeOK => WiredSources /\ WiredNodes
<1> SUFFICES ASSUME TypeOK
             PROVE  WiredSources /\ WiredNodes
  OBVIOUS
<1>1. nodes \in Seq(Nodes) /\ Sources \intersect Nodes = {}
  BY KindsAssumption DEF TypeOK
<1>2. \A i \in 1..Len(nodes) : nodes[i] \notin Sources
  BY <1>1
<1>3. nodes # <<>> => Last(nodes) \notin Sources
  BY <1>1, <1>2 DEF Last
<1>4. WiredSources
  BY <1>1, <1>2, <1>3 DEF WiredSources, Wired
<1>5. WiredNodes
  BY <1>1 DEF WiredNodes, Wired
<1> QED
  BY <1>4, <1>5

\* add() of a Source keeps the wiring rules.
LEMMA AddSourceWires ==
    ASSUME IInv, TypeOK', NEW s \in Sources, AddSource(s), InOrder'
    PROVE  WiredUp'
<1>1. /\ built \in Seq(Blocks) /\ built' = Append(built, s) /\ Rank(s) = 1
      /\ nodes \in Seq(Nodes) /\ sources \in Seq(Sources) /\ ~Added(s) /\ s \in Producing
      /\ UNCHANGED <<graphVars, nodes, manual>> /\ sources' = Append(sources, s)
  BY RankOf DEF IInv, TypeOK, AddSource, Producing
<1>2. InOrder /\ \A b \in ToSet(built) : Rank(b) <= 1
  BY <1>1, OrderOfAppend
<1>3. nodes = <<>>
  <2>1. ToSet(nodes) = {}
    BY <1>2, RankOf DEF IInv, Listed
  <2> QED
    BY <1>1, <2>1, InToSet
<1>4. SinksAdded = {} /\ SinksAdded' = {}
  <2>1. SinksAdded = {}
    BY <1>2, RankOf DEF SinksAdded
  <2>2. ToSet(built') = ToSet(built) \union {s}
    BY <1>1, ToSetAppend
  <2> QED
    BY <1>1, <2>1, <2>2, KindsAssumption DEF SinksAdded
<1>5. WiredSources /\ WiredSources'
  <2>1. TypeOK' => (WiredSources /\ WiredNodes)'
    BY WiredByKind, PTL
  <2> QED
    BY <2>1, WiredByKind DEF IInv
<1>6. \A b \in Sources, c \in Blocks :
          (Wired(b, c) <=> <<b, c>> \in manual) /\ (Wired(b, c)' <=> <<b, c>> \in manual)
  BY <1>1, <1>3, <1>4, <1>5 DEF WiredSources
<1>7. \A b, c : Edge(b, c)' <=> Edge(b, c)
  BY <1>1 DEF Edge, graphVars
<1>8. ToSet(sources') \union ToSet(nodes') = ToSet(sources) \union {s} /\ ToSet(sources) \subseteq Sources
  <2>1. ToSet(sources') = ToSet(sources) \union {s}
    BY <1>1, ToSetAppend
  <2>2. ToSet(nodes') = {}
    BY <1>1, <1>3 DEF ToSet
  <2>3. ToSet(sources) \subseteq Sources
    BY <1>1, InToSet
  <2> QED
    BY <2>1, <2>2, <2>3
<1> SUFFICES ASSUME NEW b \in ToSet(sources) \union {s}, NEW c \in Blocks
             PROVE  Edge(b, c)' <=> Wired(b, c)'
  BY <1>8 DEF WiredUp
<1>9. CASE b \in ToSet(sources)
  BY <1>2, <1>6, <1>7, <1>8, <1>9 DEF IInv, WiredUp
<1>10. CASE b = s
  BY <1>1, <1>6, <1>7, <1>10, NoEdgesYet
<1> QED
  BY <1>9, <1>10

\* add() of a Node keeps the wiring rules.
LEMMA AddNodeWires ==
    ASSUME IInv, TypeOK', NEW n \in Nodes, AddNode(n), InOrder'
    PROVE  WiredUp'
<1>1. /\ TypeOK /\ built \in Seq(Blocks) /\ built' = Append(built, n) /\ Rank(n) = 2
      /\ nodes \in Seq(Nodes) /\ sources \in Seq(Sources) /\ ~Added(n) /\ n \in Producing
      /\ UNCHANGED <<sources, manual>> /\ nodes' = Append(nodes, n)
      /\ AddConsumer(Upstream, n)
  BY RankOf DEF IInv, TypeOK, AddNode, Producing
<1>2. InOrder /\ \A b \in ToSet(built) : Rank(b) <= 2
  BY <1>1, OrderOfAppend
<1>3. SinksAdded = {} /\ SinksAdded' = {}
  <2>1. SinksAdded = {}
    BY <1>2, RankOf DEF SinksAdded
  <2>2. ToSet(built') = ToSet(built) \union {n}
    BY <1>1, ToSetAppend
  <2> QED
    BY <1>1, <2>1, <2>2, KindsAssumption DEF SinksAdded
<1>4. WiredSources /\ WiredNodes /\ WiredSources' /\ WiredNodes'
  <2>1. TypeOK' => (WiredSources /\ WiredNodes)'
    BY WiredByKind, PTL
  <2> QED
    BY <2>1, WiredByKind DEF IInv
<1>5. \A b \in Producing : \A c : Edge(b, c)' <=> Edge(b, c) \/ (b \in ToSet(Upstream) /\ c = n)
  BY <1>1, UpstreamFits, EdgesGrow
<1>6. /\ Len(nodes) \in Nat /\ nodes' # <<>> /\ Len(nodes') = Len(nodes) + 1
      /\ nodes'[Len(nodes) + 1] = n /\ \A i \in 1..Len(nodes) : nodes'[i] = nodes[i]
      /\ Head(nodes') = IF nodes = <<>> THEN n ELSE Head(nodes)
  BY <1>1, AppendProperties, HeadTailAppend
<1>7. ToSet(nodes') = ToSet(nodes) \union {n}
  BY <1>1, ToSetAppend
<1>8. ToSet(sources) \subseteq Sources /\ ToSet(nodes) \subseteq Nodes
  BY <1>1, InToSet
<1>9. WiredUp
  BY <1>2 DEF IInv
\* The new Node leads nowhere yet.
<1>10. ASSUME NEW c \in Blocks
       PROVE  ~Edge(n, c)' /\ ~Wired(n, c)'
  <2>1. ~Edge(n, c)'
    BY <1>1, <1>5, NoEdgesYet
  <2>2. \A i \in 1..Len(nodes) : nodes[i] # n
    BY <1>1, NoEdgesYet, InToSet
  <2>3. Len(nodes') - 1 = Len(nodes) /\ <<n, c>> \notin manual'
    BY <1>1, <1>6, NoEdgesYet
  <2>4. ~\E i \in 1..Len(nodes) : n = nodes'[i] /\ c = nodes'[i + 1]
    BY <1>6, <2>2
  <2>5. Wired(n, c)' <=> \/ <<n, c>> \in manual'
                        \/ \E i \in 1..(Len(nodes') - 1) : n = nodes'[i] /\ c = nodes'[i + 1]
    BY <1>3, <1>4 DEF WiredNodes
  <2>6. ~Wired(n, c)'
    BY <2>3, <2>4, <2>5
  <2> QED
    BY <2>1, <2>6
\* The Sources lead to it when it is the first one.
<1>11. ASSUME NEW b \in ToSet(sources), NEW c \in Blocks
       PROVE  Edge(b, c)' <=> Wired(b, c)'
  <2>1. b \in Sources /\ b \in Producing /\ b \notin Nodes
    BY <1>8, KindsAssumption DEF Producing
  <2>2. Wired(b, c)' <=> <<b, c>> \in manual \/ c = Head(nodes')
    BY <2>1, <1>1, <1>3, <1>4, <1>6 DEF WiredSources
  <2>3. Wired(b, c) <=> <<b, c>> \in manual \/ (nodes # <<>> /\ c = Head(nodes))
    BY <2>1, <1>3, <1>4 DEF WiredSources
  <2>4. Edge(b, c) <=> Wired(b, c)
    BY <1>9 DEF WiredUp
  <2>5. CASE nodes = <<>>
    BY <2>1, <2>2, <2>3, <2>4, <2>5, <1>5, <1>6, UpstreamIs
  <2>6. CASE nodes # <<>>
    <3>1. Last(nodes) \in Nodes
      BY <1>1, <1>6, <2>6 DEF Last
    <3>2. b \notin ToSet(Upstream)
      BY <3>1, <2>1, <2>6, UpstreamIs
    <3> QED
      BY <2>1, <2>2, <2>3, <2>4, <2>6, <3>2, <1>5, <1>6
  <2> QED
    BY <2>5, <2>6
\* The last Node leads to it otherwise.
<1>12. ASSUME NEW b \in ToSet(nodes), NEW c \in Blocks
       PROVE  Edge(b, c)' <=> Wired(b, c)'
  <2>1. b \in Nodes /\ b \in Producing /\ nodes # <<>>
    BY <1>8, <1>12, InToSet DEF Producing, ToSet
  <2>2. Wired(b, c)' <=> \/ <<b, c>> \in manual
                        \/ \E i \in 1..Len(nodes) : b = nodes'[i] /\ c = nodes'[i + 1]
    <3>1. Len(nodes') - 1 = Len(nodes) /\ manual' = manual
      BY <1>1, <1>6
    <3>2. Wired(b, c)' <=> \/ <<b, c>> \in manual'
                          \/ \E i \in 1..(Len(nodes') - 1) : b = nodes'[i] /\ c = nodes'[i + 1]
      BY <2>1, <1>3, <1>4 DEF WiredNodes
    <3> QED
      BY <3>1, <3>2
  <2>3. Wired(b, c) <=> \/ <<b, c>> \in manual
                       \/ \E i \in 1..(Len(nodes) - 1) : b = nodes[i] /\ c = nodes[i + 1]
    BY <2>1, <1>3, <1>4 DEF WiredNodes
  <2>4. Edge(b, c) <=> Wired(b, c)
    BY <1>9 DEF WiredUp
  <2>5. Len(nodes) > 0 /\ Last(nodes) = nodes[Len(nodes)]
    BY <2>1, <1>1 DEF Last
  <2>6. Edge(b, c)' <=> Edge(b, c) \/ (b = nodes[Len(nodes)] /\ c = n)
    BY <2>1, <2>5, <1>5, UpstreamIs
  <2>7. (\E i \in 1..Len(nodes) : b = nodes'[i] /\ c = nodes'[i + 1])
            <=> \/ \E i \in 1..(Len(nodes) - 1) : b = nodes[i] /\ c = nodes[i + 1]
                \/ b = nodes[Len(nodes)] /\ c = n
    BY <2>5, <1>6
  <2> QED
    BY <2>2, <2>3, <2>4, <2>6, <2>7
<1> QED
  BY <1>1, <1>7, <1>10, <1>11, <1>12 DEF WiredUp

\* add() of a Sink keeps the wiring rules.
LEMMA AddSinkWires ==
    ASSUME IInv, TypeOK', NEW s \in Sinks, AddSink(s), InOrder'
    PROVE  WiredUp'
<1>1. /\ TypeOK /\ built \in Seq(Blocks) /\ built' = Append(built, s)
      /\ nodes \in Seq(Nodes) /\ sources \in Seq(Sources)
      /\ UNCHANGED <<sources, nodes, manual>> /\ AddConsumer(Upstream, s)
  BY DEF IInv, TypeOK, AddSink
<1>2. InOrder
  BY <1>1, OrderOfAppend
<1>3. SinksAdded' = SinksAdded \union {s}
  <2>1. ToSet(built') = ToSet(built) \union {s}
    BY <1>1, ToSetAppend
  <2> QED
    BY <2>1 DEF SinksAdded
<1>4. WiredSources /\ WiredNodes /\ WiredSources' /\ WiredNodes'
  <2>1. TypeOK' => (WiredSources /\ WiredNodes)'
    BY WiredByKind, PTL
  <2> QED
    BY <2>1, WiredByKind DEF IInv
<1>5. \A b \in Producing : \A c : Edge(b, c)' <=> Edge(b, c) \/ (b \in ToSet(Upstream) /\ c = s)
  BY <1>1, UpstreamFits, EdgesGrow
<1>6. ToSet(sources) \subseteq Sources /\ ToSet(nodes) \subseteq Nodes
  BY <1>1, InToSet
<1>7. WiredUp
  BY <1>2 DEF IInv
<1>8. ASSUME NEW b \in ToSet(sources), NEW c \in Blocks
      PROVE  Edge(b, c)' <=> Wired(b, c)'
  <2>1. b \in Sources /\ b \in Producing /\ b \notin Nodes
    BY <1>6, KindsAssumption DEF Producing
  <2>2. Edge(b, c) <=> Wired(b, c)
    BY <1>7 DEF WiredUp
  <2>3. b \in ToSet(Upstream) <=> nodes = <<>>
    <3>1. CASE nodes = <<>>
      BY <3>1, UpstreamIs
    <3>2. CASE nodes # <<>>
      <4>1. Last(nodes) \in Nodes
        BY <1>1, <3>2 DEF Last
      <4> QED
        BY <4>1, <3>2, <2>1, UpstreamIs
    <3> QED
      BY <3>1, <3>2
  <2>4. Wired(b, c)' <=> Wired(b, c) \/ (nodes = <<>> /\ c = s)
    BY <2>1, <1>1, <1>3, <1>4 DEF WiredSources
  <2> QED
    BY <2>1, <2>2, <2>3, <2>4, <1>5
<1>9. ASSUME NEW b \in ToSet(nodes), NEW c \in Blocks
      PROVE  Edge(b, c)' <=> Wired(b, c)'
  <2>1. b \in Nodes /\ b \in Producing /\ nodes # <<>>
    BY <1>6, <1>9 DEF Producing, ToSet
  <2>2. Edge(b, c) <=> Wired(b, c)
    BY <1>7 DEF WiredUp
  <2>3. b \in ToSet(Upstream) <=> b = Last(nodes)
    BY <2>1, UpstreamIs
  <2>4. Wired(b, c)' <=> Wired(b, c) \/ (b = Last(nodes) /\ c = s)
    BY <2>1, <1>1, <1>3, <1>4 DEF WiredNodes
  <2> QED
    BY <2>1, <2>2, <2>3, <2>4, <1>5
<1> QED
  BY <1>1, <1>8, <1>9 DEF WiredUp

\* connect() adds the edge that was made by hand, and no other.
LEMMA ConnectWires ==
    ASSUME IInv, NEW from \in Producing, NEW to \in Blocks, Connect(from, to), InOrder'
    PROVE  WiredUp'
<1>1. /\ TypeOK /\ UNCHANGED <<sources, nodes, built>> /\ manual' = manual \union {<<from, to>>}
      /\ AddConsumer(<<from>>, to) /\ sources \in Seq(Sources) /\ nodes \in Seq(Nodes)
  BY DEF IInv, TypeOK, Connect
<1>2. WiredUp
  BY <1>1 DEF IInv, InOrder, Rank
<1>3. <<from>> \in Seq(Producing) /\ Once(<<from>>) /\ ToSet(<<from>>) = {from}
  <2>1. DOMAIN <<from>> = {1} /\ <<from>>[1] = from
    OBVIOUS
  <2> QED
    BY <2>1 DEF Once, ToSet
<1>4. \A b \in Producing : \A c : Edge(b, c)' <=> Edge(b, c) \/ (b = from /\ c = to)
  BY <1>1, <1>3, EdgesGrow
<1>5. \A b, c : Wired(b, c)' <=> Wired(b, c) \/ (b = from /\ c = to)
  BY <1>1 DEF Wired, SinksAdded
<1>6. ToSet(sources) \union ToSet(nodes) \subseteq Producing
  BY <1>1, InToSet DEF Producing
<1> QED
  BY <1>1, <1>2, <1>4, <1>5, <1>6 DEF WiredUp

-----------------------------------------------------------------------------
(* The actions *)

\* An empty pipeline satisfies the invariant.
LEMMA InitInv == Init => IInv
<1> SUFFICES ASSUME Init
             PROVE  IInv
  OBVIOUS
<1> USE DEF Init, FlowInit
<1>1. TypeOK
  <2>1. next_nodes \in [Producing -> Seq(Edges)] /\ received \in [Sinks -> Seq(SUBSET Tokens)]
    BY DEF Nothing
  <2>2. \A a \in Aggregators : DOMAIN latest[a] = {}
    BY DEF Empty
  <2>3. \A S : <<>> \in Seq(S)
    OBVIOUS
  <2>4. producer_count \in [Aggregators -> Nat] /\ round \in 0..MaxRounds
    BY BoundsAssumption
  <2>5. FlowTypeOK
    BY <2>1, <2>2, <2>3, <2>4 DEF FlowTypeOK
  <2> QED
    BY <2>3, <2>5 DEF TypeOK
<1>2. ToSet(<<>>) = {} /\ Once(<<>>)
  BY DEF ToSet, Once
<1>3. Listed
  BY <1>2 DEF Listed
<1>4. AmongBuilt
  <2>1. \A S : <<>> \in Seq(S)
    OBVIOUS
  <2> QED
    BY <2>1 DEF AmongBuilt
<1>5. ProducersNumbered
  <2>1. Numbered
    BY DEF Numbered, IdsInRange, IdsAllGiven, IdsDiffer
  <2>2. EdgesTyped
    BY <1>1 DEF EdgesTyped, TypeOK, FlowTypeOK
  <2> QED
    BY <2>1, <2>2, NumberedMeans
<1>6. WiredUp
  BY <1>2 DEF WiredUp
<1>7. NoUndefinedBehaviour
  BY DEF NoUndefinedBehaviour
<1> QED
  BY <1>1, <1>3, <1>4, <1>5, <1>6, <1>7 DEF IInv

\* add() of a Source keeps the invariant.
LEMMA AddSourceKeeps ==
    ASSUME IInv, NEW s \in Sources, AddSource(s)
    PROVE  IInv'
<1>1. /\ TypeOK /\ Listed /\ AmongBuilt /\ ProducersNumbered /\ AtRest
      /\ built' = Append(built, s) /\ sources' = Append(sources, s) /\ ~Added(s)
      /\ status' \in {status, "thrown"}
      /\ UNCHANGED <<graphVars, nodes, manual, latest, calls, round, lapse>> /\ received' = Nothing
  BY DEF IInv, AddSource, GraphChanged
<1>2. built \in Seq(Blocks) /\ sources \in Seq(Sources) /\ s \in Blocks /\ s \notin Nodes
  BY <1>1, KindsAssumption DEF TypeOK, Blocks, Producing
<1>3. ToSet(built') = ToSet(built) \union {s}
  BY <1>1, <1>2, ToSetAppend
<1>4. built' \in Seq(Blocks) /\ sources' \in Seq(Sources)
  BY <1>1, <1>2
<1>5. received' \in [Sinks -> Seq(SUBSET Tokens)]
  BY <1>1 DEF Nothing
<1>6. TypeOK'
  BY <1>1, <1>4, <1>5 DEF TypeOK, FlowTypeOK, graphVars
<1>7. Listed'
  <2>1. /\ sources \in Seq(Sources) /\ Once(sources) /\ ToSet(sources) = ToSet(built) \intersect Sources
        /\ nodes \in Seq(Nodes) /\ Once(nodes) /\ ToSet(nodes) = ToSet(built) \intersect Nodes
        /\ s \notin ToSet(built)
    BY <1>1 DEF Listed, Added, TypeOK
  <2>2. Once(sources') /\ ToSet(sources') = ToSet(built') \intersect Sources
    <3>1. s \notin ToSet(sources)
      BY <2>1
    <3>2. Once(sources') /\ ToSet(sources') = ToSet(sources) \union {s}
      BY <1>1, <2>1, <3>1, OnceAppend, ToSetAppend
    <3> QED
      BY <1>2, <1>3, <2>1, <3>2
  <2>3. Once(nodes') /\ ToSet(nodes') = ToSet(built') \intersect Nodes
    BY <1>1, <1>2, <1>3, <2>1
  <2> QED
    BY <2>2, <2>3 DEF Listed
<1>8. AmongBuilt'
  <2>1. /\ Seq([to : ToSet(built), id : Ids]) \subseteq Seq([to : ToSet(built'), id : Ids])
        /\ Seq([to : ToSet(built), id : Ids, in : Anys])
              \subseteq Seq([to : ToSet(built'), id : Ids, in : Anys])
    BY <1>3, EdgesWider
  <2>2. next_nodes' \in [Producing -> Seq([to : ToSet(built'), id : Ids])]
    BY <1>1, <2>1 DEF AmongBuilt, graphVars
  <2> QED
    BY <1>1, <1>3, <2>1, <2>2 DEF AmongBuilt, Added, graphVars
<1>9. ProducersNumbered'
  BY <1>1 DEF ProducersNumbered, EdgesInto, IdOf, graphVars
<1>10. (InOrder => WiredUp)'
  BY <1>6, AddSourceWires
<1>11. NoUndefinedBehaviour'
  BY <1>1 DEF NoUndefinedBehaviour, AtRest
<1> QED
  BY <1>1, <1>6, <1>7, <1>8, <1>9, <1>10, <1>11 DEF IInv

\* add() of a Node keeps the invariant.
LEMMA AddNodeKeeps ==
    ASSUME IInv, NEW n \in Nodes, AddNode(n)
    PROVE  IInv'
<1>1. /\ TypeOK /\ Listed /\ AmongBuilt /\ AtRest /\ GraphChanged /\ status' = status
      /\ built' = Append(built, n) /\ nodes' = Append(nodes, n) /\ ~Added(n)
      /\ UNCHANGED <<sources, manual>> /\ AddConsumer(Upstream, n)
  BY DEF IInv, AddNode
<1>2. built \in Seq(Blocks) /\ nodes \in Seq(Nodes) /\ n \in Blocks /\ n \notin Sources
  BY <1>1, KindsAssumption DEF TypeOK, Blocks, Producing
<1>3. ToSet(built') = ToSet(built) \union {n}
  BY <1>1, <1>2, ToSetAppend
<1>4. /\ built' \in Seq(Blocks) /\ nodes' \in Seq(Nodes) /\ sources' \in Seq(Sources)
      /\ manual' \subseteq ManualEdges
      /\ \A e \in manual' : e[1] \in ToSet(built') /\ e[2] \in ToSet(built')
  BY <1>1, <1>2, <1>3 DEF TypeOK, AmongBuilt, Added
<1>5. /\ Upstream \in Seq(Producing) /\ Once(Upstream) /\ ToSet(Upstream) \subseteq ToSet(built')
  BY <1>3, UpstreamFits
<1>6. n \in ToSet(built') /\ ToSet(built) \subseteq ToSet(built')
  BY <1>3
<1>7. /\ TypeOK' /\ AmongBuilt' /\ ProducersNumbered' /\ NoUndefinedBehaviour'
      /\ DOMAIN latest' = Aggregators /\ (calls' # <<>> => round' > 0)
  BY <1>1, <1>4, <1>5, <1>6, GraphGrows
<1>8. Listed'
  <2>1. /\ sources \in Seq(Sources) /\ Once(sources) /\ ToSet(sources) = ToSet(built) \intersect Sources
        /\ nodes \in Seq(Nodes) /\ Once(nodes) /\ ToSet(nodes) = ToSet(built) \intersect Nodes
        /\ n \notin ToSet(built)
    BY <1>1 DEF Listed, Added, TypeOK
  <2>2. Once(sources') /\ ToSet(sources') = ToSet(built') \intersect Sources
    BY <1>1, <1>2, <1>3, <2>1
  <2>3. Once(nodes') /\ ToSet(nodes') = ToSet(built') \intersect Nodes
    <3>1. n \notin ToSet(nodes)
      BY <2>1
    <3>2. Once(nodes') /\ ToSet(nodes') = ToSet(nodes) \union {n}
      BY <1>1, <2>1, <3>1, OnceAppend, ToSetAppend
    <3> QED
      BY <1>2, <1>3, <2>1, <3>2
  <2> QED
    BY <2>2, <2>3 DEF Listed
<1>9. (InOrder => WiredUp)'
  BY <1>7, AddNodeWires
<1> QED
  BY <1>7, <1>8, <1>9 DEF IInv

\* add() of a Sink keeps the invariant.
LEMMA AddSinkKeeps ==
    ASSUME IInv, NEW s \in Sinks, AddSink(s)
    PROVE  IInv'
<1>1. /\ TypeOK /\ Listed /\ AmongBuilt /\ AtRest /\ GraphChanged /\ status' = status
      /\ built' = Append(built, s) /\ ~Added(s)
      /\ UNCHANGED <<sources, nodes, manual>> /\ AddConsumer(Upstream, s)
  BY DEF IInv, AddSink
<1>2. built \in Seq(Blocks) /\ s \in Blocks /\ s \notin Sources /\ s \notin Nodes
  BY <1>1, KindsAssumption DEF TypeOK, Blocks, Producing
<1>3. ToSet(built') = ToSet(built) \union {s}
  BY <1>1, <1>2, ToSetAppend
<1>4. /\ built' \in Seq(Blocks) /\ nodes' \in Seq(Nodes) /\ sources' \in Seq(Sources)
      /\ manual' \subseteq ManualEdges
      /\ \A e \in manual' : e[1] \in ToSet(built') /\ e[2] \in ToSet(built')
  BY <1>1, <1>2, <1>3 DEF TypeOK, AmongBuilt, Added
<1>5. /\ Upstream \in Seq(Producing) /\ Once(Upstream) /\ ToSet(Upstream) \subseteq ToSet(built')
  BY <1>3, UpstreamFits
<1>6. s \in ToSet(built') /\ ToSet(built) \subseteq ToSet(built')
  BY <1>3
<1>7. /\ TypeOK' /\ AmongBuilt' /\ ProducersNumbered' /\ NoUndefinedBehaviour'
      /\ DOMAIN latest' = Aggregators /\ (calls' # <<>> => round' > 0)
  BY <1>1, <1>4, <1>5, <1>6, GraphGrows
<1>8. Listed'
  <2>1. /\ sources \in Seq(Sources) /\ Once(sources) /\ ToSet(sources) = ToSet(built) \intersect Sources
        /\ nodes \in Seq(Nodes) /\ Once(nodes) /\ ToSet(nodes) = ToSet(built) \intersect Nodes
        /\ s \notin ToSet(built)
    BY <1>1 DEF Listed, Added, TypeOK
  <2>2. Once(sources') /\ ToSet(sources') = ToSet(built') \intersect Sources
    BY <1>1, <1>2, <1>3, <2>1
  <2>3. Once(nodes') /\ ToSet(nodes') = ToSet(built') \intersect Nodes
    BY <1>1, <1>2, <1>3, <2>1
  <2> QED
    BY <2>2, <2>3 DEF Listed
<1>9. (InOrder => WiredUp)'
  BY <1>7, AddSinkWires
<1> QED
  BY <1>7, <1>8, <1>9 DEF IInv

\* connect() keeps the invariant.
LEMMA ConnectKeeps ==
    ASSUME IInv, NEW from, NEW to, Connect(from, to)
    PROVE  IInv'
<1>1. /\ TypeOK /\ Listed /\ AmongBuilt /\ AtRest /\ GraphChanged /\ status' = status
      /\ <<from, to>> \in ManualEdges /\ Added(from) /\ Added(to)
      /\ manual' = manual \union {<<from, to>>}
      /\ UNCHANGED <<sources, nodes, built>> /\ AddConsumer(<<from>>, to)
  BY DEF IInv, Connect
<1>2. from \in Producing /\ to \in Blocks
  BY <1>1, EdgesAssumption
<1>3. <<from>> \in Seq(Producing) /\ Once(<<from>>) /\ ToSet(<<from>>) = {from}
  <2>1. DOMAIN <<from>> = {1} /\ <<from>>[1] = from
    OBVIOUS
  <2> QED
    BY <1>2, <2>1 DEF Once, ToSet
<1>4. /\ built' \in Seq(Blocks) /\ nodes' \in Seq(Nodes) /\ sources' \in Seq(Sources)
      /\ manual' \subseteq ManualEdges
      /\ \A e \in manual' : e[1] \in ToSet(built') /\ e[2] \in ToSet(built')
  <2>1. \A e \in manual : e[1] \in ToSet(built) /\ e[2] \in ToSet(built)
    BY <1>1 DEF AmongBuilt, Added
  <2>2. \A e \in manual' : e \in manual \/ e = <<from, to>>
    BY <1>1
  <2>3. <<from, to>>[1] \in ToSet(built) /\ <<from, to>>[2] \in ToSet(built)
    BY <1>1 DEF Added
  <2> QED
    BY <1>1, <2>1, <2>2, <2>3 DEF TypeOK
<1>5. to \in ToSet(built') /\ ToSet(built) \subseteq ToSet(built')
      /\ ToSet(<<from>>) \subseteq ToSet(built')
  BY <1>1, <1>3 DEF Added
<1>6. /\ TypeOK' /\ AmongBuilt' /\ ProducersNumbered' /\ NoUndefinedBehaviour'
      /\ DOMAIN latest' = Aggregators /\ (calls' # <<>> => round' > 0)
  BY <1>1, <1>3, <1>4, <1>5, GraphGrows
<1>7. Listed'
  BY <1>1 DEF Listed
<1>8. (InOrder => WiredUp)'
  BY <1>2, ConnectWires
<1> QED
  BY <1>6, <1>7, <1>8 DEF IInv

\* A graph that is not changed stays wired as it is.
LEMMA SameGraph ==
    ASSUME IInv, UNCHANGED <<graphVars, sources, nodes, built, manual>>
    PROVE  Listed' /\ ProducersNumbered' /\ (InOrder => WiredUp)'
<1>1. UNCHANGED <<next_nodes, producer_count, sources, nodes, built, manual>>
  BY DEF graphVars
<1>2. Listed'
  BY <1>1 DEF IInv, Listed
<1>3. ProducersNumbered'
  BY <1>1 DEF IInv, ProducersNumbered, EdgesInto, IdOf
<1>4. (InOrder => WiredUp)'
  <2>1. InOrder' <=> InOrder
    BY <1>1 DEF InOrder, Rank
  <2>2. \A b, c : (Edge(b, c)' <=> Edge(b, c)) /\ (Wired(b, c)' <=> Wired(b, c))
    BY <1>1 DEF Edge, Wired, SinksAdded
  <2>3. WiredUp' <=> WiredUp
    BY <1>1, <2>2 DEF WiredUp
  <2> QED
    BY <2>1, <2>3 DEF IInv
<1> QED
  BY <1>2, <1>3, <1>4

\* The start of an execution keeps the invariant.
LEMMA ExecuteKeeps ==
    ASSUME IInv, Execute
    PROVE  IInv'
<1> DEFINE first == IF sources # <<>> THEN sources
                    ELSE IF nodes # <<>> THEN <<Head(nodes)>> ELSE <<>>
           new == [i \in 1..Len(first) |-> [to |-> first[i], id |-> 0, in |-> Void]]
<1>1. /\ TypeOK /\ AmongBuilt /\ round < MaxRounds /\ round' = round + 1 /\ received' = Nothing
      /\ calls' = new /\ status' = "running"
      /\ UNCHANGED <<graphVars, latest, lapse, sources, nodes, built, manual>>
  BY DEF IInv, Execute
<1>2. first \in Seq(ToSet(built))
  <2>1. /\ sources \in Seq(Sources) /\ nodes \in Seq(Nodes)
        /\ ToSet(sources) \subseteq ToSet(built) /\ ToSet(nodes) \subseteq ToSet(built)
    BY DEF IInv, TypeOK, Listed
  <2>2. sources \in Seq(ToSet(built)) /\ nodes \in Seq(ToSet(built))
    BY <2>1, InToSet, SeqIn
  <2>3. nodes # <<>> => <<Head(nodes)>> \in Seq(ToSet(built))
    BY <2>2
  <2> QED
    BY <2>2, <2>3
<1> HIDE DEF first
<1>3. ASSUME NEW i \in 1..Len(first)
      PROVE  [to |-> first[i], id |-> 0, in |-> Void] \in BuiltCalls
  <2>1. first[i] \in ToSet(built)
    BY <1>2, ElementIn
  <2> QED
    BY <2>1, AnysMade DEF BuiltCalls, Ids
<1>4. new \in Seq(BuiltCalls)
  BY <1>2, <1>3
<1> HIDE DEF new
<1>5. ToSet(built) \subseteq Blocks
  BY <1>1, InToSet DEF TypeOK
<1>6. calls' \in Seq(Calls)
  <2>1. Seq(BuiltCalls) \subseteq Seq(Calls)
    BY <1>5, EdgesWider DEF BuiltCalls, Calls
  <2> QED
    BY <1>1, <1>4, <2>1
<1>7. received' \in [Sinks -> Seq(SUBSET Tokens)]
  BY <1>1 DEF Nothing
<1>8. round' \in 0..MaxRounds /\ round' > 0
  BY <1>1, BoundsAssumption DEF TypeOK, FlowTypeOK
<1>9. TypeOK'
  BY <1>1, <1>6, <1>7, <1>8 DEF TypeOK, FlowTypeOK, graphVars
<1>10. AmongBuilt'
  BY <1>1, <1>4 DEF AmongBuilt, BuiltCalls, Added, graphVars
<1>11. NoUndefinedBehaviour'
  BY <1>1 DEF NoUndefinedBehaviour
<1>12. DOMAIN latest' = Aggregators
  BY <1>1 DEF IInv
<1> QED
  BY <1>1, <1>8, <1>9, <1>10, <1>11, <1>12, SameGraph DEF IInv

\* In a pipeline that is built as documented, every block has a consumer.
LEMMA EveryoneHasConsumers ==
    ASSUME IInv, BuiltAsDocumented, NEW b \in Producing, Added(b)
    PROVE  next_nodes[b] # <<>>
<1>1. /\ WiredUp /\ nodes \in Seq(Nodes) /\ built \in Seq(Blocks) /\ TypeOK
      /\ WiredSources /\ WiredNodes
  BY WiredByKind DEF IInv, TypeOK, BuiltAsDocumented
<1>2. PICK k : k \in SinksAdded
  BY DEF BuiltAsDocumented
<1>3. k \in Blocks /\ Nodes \subseteq Blocks
  BY <1>2 DEF SinksAdded, Blocks, Producing
<1>4. b \in ToSet(sources) \union ToSet(nodes)
  BY DEF IInv, Listed, Added, Producing
<1>5. \E c \in Blocks : Wired(b, c)
  <2>1. CASE b \in Sources /\ nodes = <<>>
    BY <2>1, <1>1, <1>2, <1>3 DEF WiredSources
  <2>2. CASE b \in Sources /\ nodes # <<>>
    <3>1. Head(nodes) \in Blocks
      BY <2>2, <1>1, <1>3
    <3>2. Wired(b, Head(nodes))
      BY <2>2, <3>1, <1>1 DEF WiredSources
    <3> QED
      BY <3>1, <3>2
  <2>3. CASE b \in Nodes
    <3>1. b \in ToSet(nodes)
      BY <2>3 DEF IInv, Listed, Added
    <3>2. PICK i \in 1..Len(nodes) : nodes[i] = b
      BY <3>1, <1>1, InToSet
    <3>3. CASE i = Len(nodes)
      <4>1. nodes # <<>> /\ b = Last(nodes)
        BY <3>2, <3>3, <1>1 DEF Last
      <4>2. Wired(b, k)
        BY <2>3, <4>1, <1>1, <1>2, <1>3 DEF WiredNodes
      <4> QED
        BY <4>2, <1>3
    <3>4. CASE i # Len(nodes)
      <4>1. i \in 1..(Len(nodes) - 1) /\ nodes[i + 1] \in Blocks
        BY <3>2, <3>4, <1>1, <1>3
      <4> QED
        BY <2>3, <3>2, <4>1, <1>1 DEF WiredNodes
    <3> QED
      BY <3>3, <3>4
  <2> QED
    BY <2>1, <2>2, <2>3 DEF Producing
<1>6. PICK c \in Blocks : Edge(b, c)
  BY <1>1, <1>4, <1>5 DEF WiredUp
<1> QED
  BY <1>6 DEF Edge

\* A step of an execution keeps the invariant.
LEMMA StepKeeps ==
    ASSUME IInv, Step
    PROVE  IInv'
<1>1. /\ TypeOK /\ AmongBuilt /\ ExecuteFirst /\ UNCHANGED <<sources, nodes, built, manual>>
  BY DEF IInv, Step
<1>2. Effect /\ StepFrame
  BY <1>1, SourceStep, ModuleStep, AggregatorStep, SinkStep DEF ExecuteFirst
<1>3. UNCHANGED <<graphVars, round>> /\ calls # <<>>
  BY <1>1, <1>2 DEF StepFrame, ExecuteFirst, ExecuteSource, ExecuteModule, ExecuteAggregator,
         AggregatorDrops, AggregatorBadCast, AggregatorKeeps, AggregatorCollects, ExecuteSink, Head1
<1>4. calls' \in Seq(Calls)
  <2>1. ToSet(built) \subseteq Blocks
    BY <1>1, InToSet DEF TypeOK
  <2>2. Seq(BuiltCalls) \subseteq Seq(Calls)
    BY <2>1, EdgesWider DEF BuiltCalls, Calls
  <2> QED
    BY <1>2, <2>2 DEF Effect
<1>5. TypeOK'
  BY <1>1, <1>2, <1>3, <1>4 DEF TypeOK, FlowTypeOK, StepFrame, Effect, InputsTyped, graphVars
<1>6. AmongBuilt'
  BY <1>1, <1>2, <1>3 DEF AmongBuilt, Effect, BuiltCalls, Added, graphVars
<1>7. NoUndefinedBehaviour'
  <2>1. BuiltAsDocumented' <=> BuiltAsDocumented
    BY <1>1 DEF BuiltAsDocumented, InOrder, Rank, SinksAdded
  <2> QED
    BY <1>2, <2>1, EveryoneHasConsumers DEF Effect, NoUndefinedBehaviour
<1>8. DOMAIN latest' = Aggregators /\ (calls' # <<>> => round' > 0)
  BY <1>2, <1>3 DEF StepFrame, IInv
<1>9. Listed' /\ ProducersNumbered' /\ (InOrder => WiredUp)'
  BY <1>1, <1>3, SameGraph
<1> QED
  BY <1>5, <1>6, <1>7, <1>8, <1>9 DEF IInv

\* Nothing is lost when nothing happens.
LEMMA StutterKeeps ==
    ASSUME IInv, UNCHANGED vars
    PROVE  IInv'
<1>1. UNCHANGED <<next_nodes, producer_count, latest, calls, status, round, received, lapse,
                  sources, nodes, built, manual>>
  BY DEF vars, flowVars, graphVars
<1>2. TypeOK' /\ AmongBuilt'
  BY <1>1 DEF IInv, TypeOK, FlowTypeOK, AmongBuilt, Added
<1>3. Listed' /\ ProducersNumbered' /\ (InOrder => WiredUp)'
  BY <1>1, SameGraph DEF graphVars
<1>4. NoUndefinedBehaviour'
  BY <1>1 DEF IInv, NoUndefinedBehaviour, BuiltAsDocumented, InOrder, Rank, SinksAdded
<1> QED
  BY <1>1, <1>2, <1>3, <1>4 DEF IInv

\* IInv is an invariant.
LEMMA Invariance == Spec => []IInv
<1>1. IInv /\ [Next]_vars => IInv'
  BY AddSourceKeeps, AddNodeKeeps, AddSinkKeeps, ConnectKeeps, ExecuteKeeps, StepKeeps,
     StutterKeeps DEF Next
<1> QED
  BY <1>1, InitInv, PTL DEF Spec

-----------------------------------------------------------------------------
(* What the calls of an execution have to do with the graph *)

\* The blocks are listed once; calls are under way in an execution only.
Tidy ==
    /\ Once(built)
    /\ status # "running" => calls = <<>>
    /\ \A i, j \in DOMAIN nodes : i < j => Before(nodes[i], nodes[j])

\* A Sink is connected to a block once, but by hand.
SinksOnce ==
    (\A e \in manual : e[2] \notin Sinks) =>
        \A b \in Producing : \A i, j \in DOMAIN next_nodes[b] :
            next_nodes[b][i].to \in Sinks /\ next_nodes[b][j].to = next_nodes[b][i].to => i = j

\* What a Sink has after it was called with in.
WithValue(seq, in) == IF in.type = "value" THEN Append(seq, in.data) ELSE seq

\* The next n calls hand the same value to the Sinks that do not have it yet.
Handing(n, before, after) ==
    /\ \A i \in 1..n : calls[i].to \in SinksAdded /\ WithValue(before, calls[i].in) = after
    /\ \A i, j \in 1..n : calls[i].to = calls[j].to => i = j
    /\ \A i \in n + 1 .. Len(calls) : calls[i].to \notin Sinks
    /\ \A s \in SinksAdded :
         received[s] = IF \E i \in 1..n : calls[i].to = s THEN before ELSE after

SameForAll == BuiltAsDocumented /\ ConnectedAhead /\ ToSet(built) \intersect RoundRobin = {}

SinksInStep ==
    /\ SinksOnce
    /\ SameForAll /\ status = "running" =>
         \E n \in 0..Len(calls) : \E before, after : Handing(n, before, after)
    /\ SameForAll /\ status = "idle" => \A s, t \in SinksAdded : received[s] = received[t]

AgreeInv == Tidy /\ SinksInStep

-----------------------------------------------------------------------------
(* Calls, before and after a step *)

\* The calls that take the place of the first, and those behind it.
LEMMA CallsAfter ==
    ASSUME NEW S, calls \in Seq(S), calls # <<>>, NEW new \in Seq(S), Replace(new)
    PROVE  /\ calls' \in Seq(S) /\ Len(calls') \in Nat /\ Len(calls) \in Nat /\ Len(new) \in Nat
           /\ Len(calls) >= 1 /\ Len(calls') = Len(new) + Len(calls) - 1
           /\ \A i \in 1..Len(new) : calls'[i] = new[i]
           /\ \A i \in Len(new) + 1 .. Len(calls') : calls'[i] = calls[i - Len(new) + 1]
           /\ \A i \in 2..Len(calls) : calls'[i + Len(new) - 1] = calls[i]
           /\ status' = IF calls' = <<>> THEN "idle" ELSE "running"
<1> DEFINE t == Tail(calls)
<1>1. /\ t \in Seq(S) /\ Len(t) = Len(calls) - 1 /\ Len(calls) \in Nat /\ Len(calls) >= 1
      /\ \A i \in 1..Len(t) : t[i] = calls[i + 1]
  OBVIOUS
<1>2. calls' = new \o t /\ status' = IF calls' = <<>> THEN "idle" ELSE "running"
  BY DEF Replace
<1> HIDE DEF t
<1>3. /\ calls' \in Seq(S) /\ Len(calls') = Len(new) + Len(t) /\ Len(new) \in Nat /\ Len(t) \in Nat
      /\ \A i \in 1..Len(calls') : calls'[i] = IF i <= Len(new) THEN new[i] ELSE t[i - Len(new)]
  <2>1. new \o t \in Seq(S) /\ Len(new \o t) = Len(new) + Len(t)
        /\ \A i \in 1..Len(new) + Len(t) : (new \o t)[i] = IF i <= Len(new) THEN new[i] ELSE t[i - Len(new)]
    BY <1>1, ConcatProperties
  <2> QED BY <1>1, <1>2, <2>1
<1>4. ASSUME NEW i \in Len(new) + 1 .. Len(calls')
      PROVE  calls'[i] = calls[i - Len(new) + 1]
  <2>1. i - Len(new) \in 1..Len(t) /\ i \in 1..Len(calls') /\ ~(i <= Len(new))
    BY <1>1, <1>3
  <2> QED BY <2>1, <1>1, <1>3
<1>5. ASSUME NEW i \in 2..Len(calls)
      PROVE  calls'[i + Len(new) - 1] = calls[i]
  <2>1. i + Len(new) - 1 \in Len(new) + 1 .. Len(calls')
    BY <1>1, <1>3
  <2>2. calls'[i + Len(new) - 1] = calls[(i + Len(new) - 1) - Len(new) + 1]
    BY <1>4, <2>1
  <2>3. (i + Len(new) - 1) - Len(new) + 1 = i
    BY <1>1, <1>3
  <2> QED BY <2>2, <2>3
<1> QED
  BY <1>1, <1>2, <1>3, <1>4, <1>5

\* What a block hands to the i-th of its consumers.
LEMMA CallsMade ==
    ASSUME AmongBuilt, NEW b \in Producing, NEW out \in Anys
    PROVE  /\ ConsumerCalls(b, out) \in Seq(BuiltCalls)
           /\ Len(ConsumerCalls(b, out)) = Len(next_nodes[b]) /\ Len(next_nodes[b]) \in Nat
           /\ DOMAIN next_nodes[b] = 1..Len(next_nodes[b])
           /\ \A i \in 1..Len(next_nodes[b]) :
                /\ ConsumerCalls(b, out)[i].to = next_nodes[b][i].to
                /\ ConsumerCalls(b, out)[i].id = next_nodes[b][i].id
                /\ ConsumerCalls(b, out)[i].in = out
                /\ next_nodes[b][i].to \in ToSet(built) /\ next_nodes[b][i].id \in Nat
<1>1. next_nodes[b] \in Seq([to : ToSet(built), id : Ids])
  BY DEF AmongBuilt
<1>2. \A i \in 1..Len(next_nodes[b]) : next_nodes[b][i] \in [to : ToSet(built), id : Ids]
  BY <1>1, ElementIn
<1> QED
  BY <1>1, <1>2, ConsumerCallsBuilt DEF ConsumerCalls, Ids

\* How a step of an execution may go.
Ends == calls' = <<>> /\ status' \in {"thrown", "undefined"}

HandsOn(b) ==
    /\ b \in Producing /\ Head1(b) /\ received' = received
    /\ \/ \E out \in Anys : b \notin RoundRobin /\ Replace(ConsumerCalls(b, out))
       \/ \E new \in Seq(BuiltCalls) : b \in RoundRobin /\ Replace(new)
       \/ Replace(<<>>)

Arrives(s) ==
    /\ s \in Sinks /\ Head1(s) /\ Replace(<<>>)
    /\ received' = [received EXCEPT ![s] = WithValue(@, In)]

\* A block that produces hands on to its consumers, or the execution ends.
LEMMA ResultHandsOn ==
    ASSUME IInv, NEW b \in Producing, Head1(b), NEW data \in SUBSET Tokens, received' = received,
           ProduceResult(b, data) \/ ProduceNothing(b)
    PROVE  Ends \/ HandsOn(b)
<1>1. Value(data) \in Anys /\ Nullopt \in Anys /\ AmongBuilt
  BY AnysMade DEF IInv
<1>2. ASSUME NEW out \in Anys, Fanout(b, out) \/ FanoutToNobody(b), b \notin RoundRobin
      PROVE  Ends \/ HandsOn(b)
  BY <1>2 DEF Fanout, FanoutToNobody, Ends, HandsOn
<1>3. ASSUME b \in RoundRobin, NEW n \in 0..MaxBatch, n <= Len(next_nodes[b]), Distribute(b, Value(data), n)
      PROVE  HandsOn(b)
  <2> DEFINE new == ConsumerCalls(b, Value(data))
  <2>1. new \in Seq(BuiltCalls) /\ n <= Len(new)
    BY <1>1, <1>3, CallsMade
  <2>2. n \in Nat
    BY BoundsAssumption
  <2> HIDE DEF new
  <2>3. \A i \in 1..n : new[i] \in BuiltCalls
    BY <2>1, <2>2
  <2>4. SubSeq(new, 1, n) \in Seq(BuiltCalls)
    BY <2>2, <2>3, SubSeqProperties
  <2> QED
    BY <1>3, <2>4 DEF Distribute, HandsOn, new
<1>4. ASSUME Throw
      PROVE  Ends
  BY <1>4 DEF Throw, Ends
<1> QED
  BY <1>1, <1>2, <1>3, <1>4 DEF ProduceResult, ProduceNothing

\* Every step of an execution ends it, is one of a producing block, or of a Sink.
LEMMA StepGoes ==
    ASSUME IInv, Step
    PROVE  /\ status = "running" /\ calls # <<>> /\ calls \in Seq(BuiltCalls)
           /\ UNCHANGED <<next_nodes, producer_count, sources, nodes, built, manual, round>>
           /\ received \in [Sinks -> Seq(SUBSET Tokens)]
           /\ Ends \/ (\E b \in Producing : HandsOn(b)) \/ (\E s \in Sinks : Arrives(s))
<1>1. /\ TypeOK /\ AmongBuilt /\ ExecuteFirst /\ UNCHANGED <<sources, nodes, built, manual>>
      /\ received \in [Sinks -> Seq(SUBSET Tokens)]
  BY DEF IInv, Step, TypeOK, FlowTypeOK
<1>2. calls \in Seq(BuiltCalls)
  BY <1>1 DEF AmongBuilt, BuiltCalls
<1>3. Throw => Ends
  BY DEF Throw, Ends
<1>4. ASSUME NEW b \in Sources, ExecuteSource(b)
      PROVE  /\ status = "running" /\ calls # <<>> /\ UNCHANGED <<graphVars, round>>
             /\ Ends \/ HandsOn(b)
  <2>1. b \in Producing /\ Head1(b) /\ received' = received
    BY <1>4 DEF ExecuteSource, Producing
  <2>2. round \in 1..MaxRounds
    BY <1>1, <2>1, BoundsAssumption DEF IInv, TypeOK, FlowTypeOK, Head1
  <2>3. {<<b, round>>} \in SUBSET Tokens
    BY <2>2 DEF Tokens
  <2>4. Ends \/ HandsOn(b)
    BY <1>3, <1>4, <2>1, <2>3, ResultHandsOn DEF ExecuteSource
  <2> QED BY <1>4, <2>4 DEF ExecuteSource, Head1
<1>5. ASSUME NEW b \in Modules, ExecuteModule(b)
      PROVE  /\ status = "running" /\ calls # <<>> /\ UNCHANGED <<graphVars, round>>
             /\ Ends \/ HandsOn(b)
  <2>1. b \in Producing /\ Head1(b) /\ received' = received
    BY <1>5 DEF ExecuteModule, Producing, Nodes
  <2>2. In.data \in SUBSET Tokens
    BY <1>1, <2>1, InTyped DEF Head1
  <2>3. Ends \/ HandsOn(b)
    BY <1>3, <1>5, <2>1, <2>2, ResultHandsOn DEF ExecuteModule
  <2> QED BY <1>5, <2>3 DEF ExecuteModule, Head1
<1>6. ASSUME NEW a \in Aggregators, ExecuteAggregator(a)
      PROVE  /\ status = "running" /\ calls # <<>> /\ UNCHANGED <<graphVars, round>>
             /\ Ends \/ HandsOn(a)
  <2>1. a \in Producing /\ Head1(a) /\ received' = received /\ UNCHANGED <<graphVars, round>>
    BY <1>6 DEF ExecuteAggregator, AggregatorDrops, AggregatorBadCast, AggregatorKeeps, AggregatorCollects,
                Producing, Nodes
  <2>2. calls # <<>> /\ status = "running"
    BY <2>1 DEF Head1
  <2> DEFINE data == UNION {WithInput(a)[id] : id \in DOMAIN WithInput(a)}
  <2>3. data \in SUBSET Tokens
    BY <1>1, <2>2, WithInputTyped
  <2> HIDE DEF data
  <2>4. Replace(<<>>) => HandsOn(a)
    BY <2>1 DEF HandsOn
  <2>5. ProduceResult(a, data) => Ends \/ HandsOn(a)
    BY <2>1, <2>3, ResultHandsOn
  <2>6. Replace(<<>>) \/ Throw \/ ProduceResult(a, data)
    BY <1>6 DEF ExecuteAggregator, AggregatorDrops, AggregatorBadCast, AggregatorKeeps, AggregatorCollects, data
  <2> QED BY <1>3, <2>1, <2>2, <2>4, <2>5, <2>6
<1>7. ASSUME NEW s \in Sinks, ExecuteSink(s)
      PROVE  /\ status = "running" /\ calls # <<>> /\ UNCHANGED <<graphVars, round>>
             /\ Ends \/ Arrives(s)
  <2>1. Head1(s) /\ UNCHANGED <<graphVars, round>>
    BY <1>7 DEF ExecuteSink
  <2>2. CASE In.type # "value" /\ Replace(<<>>) /\ UNCHANGED <<received, lapse>>
    <3>1. received' = [received EXCEPT ![s] = WithValue(@, In)]
      BY <1>1, <2>2 DEF WithValue
    <3> QED BY <2>1, <2>2, <3>1 DEF Arrives, Head1
  <2>3. CASE In.type = "value" /\ received' = [received EXCEPT ![s] = Append(@, In.data)] /\ Replace(<<>>)
    <3>1. received' = [received EXCEPT ![s] = WithValue(@, In)]
      BY <2>3 DEF WithValue
    <3> QED BY <2>1, <2>3, <3>1 DEF Arrives, Head1
  <2> QED BY <1>3, <1>7, <2>1, <2>2, <2>3 DEF ExecuteSink, Head1
<1> QED
  BY <1>1, <1>2, <1>4, <1>5, <1>6, <1>7 DEF ExecuteFirst, graphVars, Producing, Nodes

-----------------------------------------------------------------------------
(* Which block was added before which *)

\* Two blocks do not come before each other.
LEMMA AddedOnce ==
    ASSUME built \in Seq(Blocks), Once(built)
    PROVE  \A b, c : ~(Before(b, c) /\ Before(c, b))
<1>1. DOMAIN built = 1..Len(built) /\ Len(built) \in Nat
  OBVIOUS
<1> SUFFICES ASSUME NEW b, NEW c, Before(b, c), Before(c, b) PROVE FALSE
  OBVIOUS
<1>2. PICK i, j \in DOMAIN built : i < j /\ built[i] = b /\ built[j] = c
  BY DEF Before
<1>3. PICK k, l \in DOMAIN built : k < l /\ built[k] = c /\ built[l] = b
  BY DEF Before
<1>4. i = l /\ j = k
  BY <1>2, <1>3 DEF Once
<1> QED BY <1>1, <1>2, <1>3, <1>4

\* A block that is added comes behind those there are, which stay in order.
LEMMA AddedBehind ==
    ASSUME built \in Seq(Blocks), Once(built), NEW x, ~Added(x), built' = Append(built, x)
    PROVE  /\ Once(built')
           /\ \A b, c \in ToSet(built) : Before(b, c)' <=> Before(b, c)
           /\ \A b \in ToSet(built) : Before(b, x)'
           /\ ToSet(built') = ToSet(built) \union {x}
<1> DEFINE n == Len(built)
<1>1. /\ n \in Nat /\ Len(built') = n + 1 /\ built'[n + 1] = x
      /\ \A i \in 1..n : built'[i] = built[i]
      /\ DOMAIN built = 1..n /\ DOMAIN built' = 1..n + 1
  OBVIOUS
<1>2. Once(built') /\ ToSet(built') = ToSet(built) \union {x}
  BY OnceAppend, ToSetAppend DEF Added
<1>3. \A i \in 1..n : built[i] # x
  BY <1>1 DEF Added, ToSet
<1>4. ASSUME NEW b \in ToSet(built), NEW c \in ToSet(built)
      PROVE  Before(b, c)' <=> Before(b, c)
  <2>1. b # x /\ c # x
    BY DEF Added
  <2>2. ASSUME Before(b, c)
        PROVE  Before(b, c)'
    <3>1. PICK i, j \in 1..n : i < j /\ built[i] = b /\ built[j] = c
      BY <1>1, <2>2 DEF Before
    <3>2. i \in DOMAIN built' /\ j \in DOMAIN built' /\ built'[i] = b /\ built'[j] = c
      BY <1>1, <3>1
    <3> QED BY <3>1, <3>2 DEF Before
  <2>3. ASSUME Before(b, c)'
        PROVE  Before(b, c)
    <3>1. PICK i, j \in 1..n + 1 : i < j /\ built'[i] = b /\ built'[j] = c
      BY <1>1, <2>3 DEF Before
    <3>2. i \in 1..n /\ j \in 1..n
      BY <1>1, <2>1, <3>1
    <3> QED BY <1>1, <3>1, <3>2 DEF Before
  <2> QED BY <2>2, <2>3
<1>5. ASSUME NEW b \in ToSet(built)
      PROVE  Before(b, x)'
  <2>1. PICK i \in 1..n : built[i] = b
    BY <1>1 DEF ToSet
  <2>2. i \in DOMAIN built' /\ n + 1 \in DOMAIN built' /\ i < n + 1 /\ built'[i] = b
    BY <1>1, <2>1
  <2> QED BY <1>1, <2>2 DEF Before
<1> QED BY <1>2, <1>4, <1>5

\* What the steps that change the graph have in common.
Grows ==
    /\ AtRest /\ UNCHANGED <<latest, calls, round, lapse>> /\ received' = Nothing
    /\ status' \in {"idle", "thrown"}
    /\ manual \subseteq manual'
    /\ built' = built \/ \E x : ~Added(x) /\ built' = Append(built, x)

\* The steps that change the graph are taken at rest, and add a block or none.
LEMMA GraphSteps ==
    ASSUME IInv,
           \/ \E s \in Sources : AddSource(s)
           \/ \E n \in Nodes : AddNode(n)
           \/ \E s \in Sinks : AddSink(s)
           \/ \E e \in ManualEdges : Connect(e[1], e[2])
    PROVE  Grows
BY DEF Grows, AtRest, AddSource, AddNode, AddSink, Connect, GraphChanged

\* The order of blocks and Nodes is kept by every step.
LEMMA TidyKept ==
    ASSUME IInv, IInv', Tidy, [Next]_vars
    PROVE  Tidy'
<1>1. /\ built \in Seq(Blocks) /\ Once(built) /\ nodes \in Seq(Nodes) /\ ToSet(nodes) \subseteq ToSet(built)
      /\ \A i \in DOMAIN nodes : nodes[i] \in ToSet(built)
  BY DEF IInv, TypeOK, Listed, Tidy, ToSet
<1>2. ASSUME UNCHANGED <<built, nodes>>, status' # "running" => calls' = <<>>
      PROVE  Tidy'
  BY <1>2 DEF Tidy, Once, Before
<1>3. ASSUME Grows, NEW x, ~Added(x), built' = Append(built, x), nodes' = nodes
      PROVE  Tidy'
  <2>1. Once(built') /\ \A b, c \in ToSet(built) : Before(b, c)' <=> Before(b, c)
    BY <1>1, <1>3, AddedBehind
  <2>2. calls' = <<>>
    BY <1>3 DEF Grows, AtRest, Tidy
  <2>3. \A i, j \in DOMAIN nodes : i < j => Before(nodes[i], nodes[j])'
    <3> SUFFICES ASSUME NEW i \in DOMAIN nodes, NEW j \in DOMAIN nodes, i < j
                 PROVE  Before(nodes[i], nodes[j])'
      OBVIOUS
    <3>1. PICK b, c : b = nodes[i] /\ c = nodes[j]
      OBVIOUS
    <3>2. Before(b, c)'
      BY <1>1, <2>1, <3>1 DEF Tidy
    <3> QED BY <1>3, <3>1, <3>2 DEF Before
  <2> QED BY <1>3, <2>1, <2>2, <2>3 DEF Tidy, Before
<1>4. ASSUME NEW s \in Sources, AddSource(s)
      PROVE  Tidy'
  BY <1>3, <1>4, GraphSteps DEF AddSource
<1>5. ASSUME NEW s \in Sinks, AddSink(s)
      PROVE  Tidy'
  BY <1>3, <1>5, GraphSteps DEF AddSink
<1>6. ASSUME NEW n \in Nodes, AddNode(n)
      PROVE  Tidy'
  <2>1. ~Added(n) /\ built' = Append(built, n) /\ nodes' = Append(nodes, n) /\ Grows
    BY <1>6, GraphSteps DEF AddNode
  <2>2. Once(built') /\ (\A b, c \in ToSet(built) : Before(b, c)' <=> Before(b, c))
        /\ \A b \in ToSet(built) : Before(b, n)'
    BY <1>1, <2>1, AddedBehind
  <2>3. calls' = <<>>
    BY <2>1 DEF Grows, AtRest, Tidy
  <2>4. /\ Len(nodes) \in Nat /\ DOMAIN nodes = 1..Len(nodes) /\ DOMAIN nodes' = 1..Len(nodes) + 1
        /\ nodes'[Len(nodes) + 1] = n /\ \A i \in 1..Len(nodes) : nodes'[i] = nodes[i]
    BY <1>1, <2>1
  <2>5. \A b, c : Before(b, c)' <=> \E k, l \in DOMAIN built' : k < l /\ built'[k] = b /\ built'[l] = c
    BY DEF Before
  <2>6. \A i, j \in DOMAIN nodes' : i < j =>
           \E k, l \in DOMAIN built' : k < l /\ built'[k] = nodes'[i] /\ built'[l] = nodes'[j]
    <3> SUFFICES ASSUME NEW i \in 1..Len(nodes) + 1, NEW j \in 1..Len(nodes) + 1, i < j
                 PROVE  \E k, l \in DOMAIN built' : k < l /\ built'[k] = nodes'[i] /\ built'[l] = nodes'[j]
      BY <2>4
    <3>1. i \in 1..Len(nodes) /\ nodes'[i] = nodes[i] /\ nodes[i] \in ToSet(built)
      BY <1>1, <2>4
    <3>2. PICK b, c : b = nodes[i] /\ c = nodes'[j]
      OBVIOUS
    <3>3. Before(b, c)'
      <4>1. CASE j = Len(nodes) + 1
        <5>1. b \in ToSet(built) /\ c = n
          BY <2>4, <3>1, <3>2, <4>1
        <5> QED BY <2>2, <5>1
      <4>2. CASE j \in 1..Len(nodes)
        <5>1. c = nodes[j] /\ c \in ToSet(built) /\ b \in ToSet(built) /\ i \in DOMAIN nodes /\ j \in DOMAIN nodes
          BY <1>1, <2>4, <3>1, <3>2, <4>2
        <5>2. Before(b, c)
          BY <3>2, <5>1 DEF Tidy
        <5> QED BY <2>2, <5>1, <5>2
      <4> QED BY <2>4, <4>1, <4>2
    <3> QED BY <2>5, <3>1, <3>2, <3>3
  <2> QED BY <2>2, <2>3, <2>6 DEF Tidy, Before
<1>7. ASSUME NEW e \in ManualEdges, Connect(e[1], e[2])
      PROVE  Tidy'
  BY <1>2, <1>7, GraphSteps DEF Connect, Grows, AtRest, Tidy
<1>8. ASSUME Execute
      PROVE  Tidy'
  BY <1>2, <1>8 DEF Execute
<1>9. ASSUME Step
      PROVE  Tidy'
  <2>1. Ends \/ (\E b \in Producing : HandsOn(b)) \/ (\E s \in Sinks : Arrives(s))
    BY <1>9, StepGoes
  <2>2. \A new : Replace(new) => (status' # "running" => calls' = <<>>)
    BY DEF Replace
  <2>3. status' # "running" => calls' = <<>>
    BY <2>1, <2>2 DEF Ends, HandsOn, Arrives
  <2> QED BY <1>2, <1>9, <2>3 DEF Step
<1>10. ASSUME UNCHANGED vars
      PROVE  Tidy'
  BY <1>2, <1>10 DEF vars, flowVars, Tidy
<1> QED BY <1>4, <1>5, <1>6, <1>7, <1>8, <1>9, <1>10 DEF Next

-----------------------------------------------------------------------------
(* The Sinks of a pipeline process the same values *)

\* Every block's consumers stay where they are; a new one comes last.
Lengthens(x) ==
    \A b \in Producing :
        /\ Len(next_nodes[b]) \in Nat
        /\ DOMAIN next_nodes[b] = 1..Len(next_nodes[b]) /\ DOMAIN next_nodes'[b] = 1..Len(next_nodes'[b])
        /\ Len(next_nodes'[b]) \in {Len(next_nodes[b]), Len(next_nodes[b]) + 1}
        /\ \A i \in 1..Len(next_nodes[b]) : next_nodes'[b][i] = next_nodes[b][i]
        /\ Len(next_nodes'[b]) = Len(next_nodes[b]) + 1 =>
             next_nodes'[b][Len(next_nodes[b]) + 1].to = x

\* add_consumer() appends to the consumers of a block.
LEMMA ConsumersAppended ==
    ASSUME TypeOK, NEW from \in Seq(Producing), Once(from), NEW x, AddConsumer(from, x)
    PROVE  Lengthens(x)
<1> SUFFICES ASSUME NEW b \in Producing
             PROVE  /\ Len(next_nodes[b]) \in Nat
                    /\ DOMAIN next_nodes[b] = 1..Len(next_nodes[b])
                    /\ DOMAIN next_nodes'[b] = 1..Len(next_nodes'[b])
                    /\ Len(next_nodes'[b]) \in {Len(next_nodes[b]), Len(next_nodes[b]) + 1}
                    /\ \A i \in 1..Len(next_nodes[b]) : next_nodes'[b][i] = next_nodes[b][i]
                    /\ Len(next_nodes'[b]) = Len(next_nodes[b]) + 1 =>
                         next_nodes'[b][Len(next_nodes[b]) + 1].to = x
  BY DEF Lengthens
<1>1. next_nodes[b] \in Seq(Edges)
  BY DEF TypeOK, FlowTypeOK
<1>2. CASE b \notin ToSet(from)
  <2>1. next_nodes'[b] = next_nodes[b]
    BY <1>2, AddConsumerAppends
  <2> QED BY <1>1, <2>1
<1>3. CASE b \in ToSet(from)
  <2>1. PICK k \in 1..Len(from) : from[k] = b
    BY <1>3, InToSet
  <2> DEFINE e == [to |-> x, id |-> NextId(x, k)]
  <2>2. next_nodes'[b] = Append(next_nodes[b], e)
    BY <2>1, AddConsumerAppends
  <2>3. e.to = x
    OBVIOUS
  <2> HIDE DEF e
  <2> QED BY <1>1, <2>2, <2>3
<1> QED BY <1>2, <1>3

\* The steps that add a consumer.
LEMMA AddNodeLengthens ==
    ASSUME IInv, NEW n, AddNode(n)
    PROVE  Lengthens(n)
BY UpstreamFits, ConsumersAppended DEF AddNode, IInv

\* add() of a Sink appends to the consumers of the blocks upstream.
LEMMA AddSinkLengthens ==
    ASSUME IInv, NEW s, AddSink(s)
    PROVE  Lengthens(s)
BY UpstreamFits, ConsumersAppended DEF AddSink, IInv

\* connect() appends to the consumers of one block.
LEMMA ConnectLengthens ==
    ASSUME IInv, NEW from, NEW to, Connect(from, to)
    PROVE  Lengthens(to)
<1>1. <<from, to>> \in ManualEdges /\ AddConsumer(<<from>>, to)
  BY DEF Connect
<1>2. from \in Producing
  BY <1>1, EdgesAssumption
<1>3. <<from>> \in Seq(Producing) /\ Once(<<from>>)
  BY <1>2 DEF Once
<1> QED BY <1>1, <1>3, ConsumersAppended DEF IInv

\* No step connects a block to a Sink twice, but connect().
LEMMA SinksOnceKept ==
    ASSUME IInv, SinksOnce, [Next]_vars
    PROVE  SinksOnce'
<1>1. ASSUME next_nodes' = next_nodes, manual' = manual
      PROVE  SinksOnce'
  BY <1>1 DEF SinksOnce
<1>2. ASSUME NEW x, Lengthens(x), manual \subseteq manual',
             x \in Sinks => (\E e \in manual' : e[2] \in Sinks)
                            \/ \A b \in Producing : \A i \in 1..Len(next_nodes[b]) : next_nodes[b][i].to # x
      PROVE  SinksOnce'
  <2> SUFFICES ASSUME \A e \in manual' : e[2] \notin Sinks,
                      NEW b \in Producing, NEW i \in DOMAIN next_nodes'[b], NEW j \in DOMAIN next_nodes'[b],
                      next_nodes'[b][i].to \in Sinks, next_nodes'[b][j].to = next_nodes'[b][i].to
               PROVE  i = j
    BY DEF SinksOnce
  <2>1. \A k, l \in DOMAIN next_nodes[b] :
          next_nodes[b][k].to \in Sinks /\ next_nodes[b][l].to = next_nodes[b][k].to => k = l
    BY <1>2 DEF SinksOnce
  <2> DEFINE n == Len(next_nodes[b])
  <2>2. /\ n \in Nat /\ DOMAIN next_nodes[b] = 1..n
        /\ \/ DOMAIN next_nodes'[b] = 1..n
           \/ DOMAIN next_nodes'[b] = 1..n + 1 /\ next_nodes'[b][n + 1].to = x
        /\ \A k \in 1..n : next_nodes'[b][k] = next_nodes[b][k]
    BY <1>2 DEF Lengthens
  <2>3. CASE i \in 1..n /\ j \in 1..n
    BY <2>1, <2>2, <2>3
  <2>4. CASE i = n + 1 \/ j = n + 1
    <3>1. next_nodes'[b][n + 1].to = x /\ x \in Sinks
      BY <2>2, <2>4
    <3>2. \A k \in 1..n : next_nodes'[b][k].to # x
      BY <1>2, <2>2, <3>1
    <3> QED BY <2>2, <2>4, <3>1, <3>2
  <2> QED BY <2>2, <2>3, <2>4
<1>3. ASSUME NEW s \in Sources, AddSource(s)
      PROVE  SinksOnce'
  BY <1>1, <1>3 DEF AddSource, graphVars
<1>4. ASSUME NEW n \in Nodes, AddNode(n)
      PROVE  SinksOnce'
  <2>1. n \notin Sinks
    BY KindsAssumption DEF Producing
  <2>2. Lengthens(n) /\ manual' = manual
    BY <1>4, AddNodeLengthens DEF AddNode
  <2> QED BY <1>2, <2>1, <2>2
<1>5. ASSUME NEW s \in Sinks, AddSink(s)
      PROVE  SinksOnce'
  <2>1. Lengthens(s) /\ manual' = manual /\ ~Added(s)
    BY <1>5, AddSinkLengthens DEF AddSink
  <2>2. \A b \in Producing : \A i \in 1..Len(next_nodes[b]) : next_nodes[b][i].to # s
    <3>1. AmongBuilt
      BY DEF IInv
    <3>2. \A b \in Producing : \A i \in 1..Len(next_nodes[b]) : next_nodes[b][i].to \in ToSet(built)
      BY <3>1, CallsMade, AnysMade
    <3> QED BY <2>1, <3>2 DEF Added
  <2> QED BY <1>2, <2>1, <2>2
<1>6. ASSUME NEW e \in ManualEdges, Connect(e[1], e[2])
      PROVE  SinksOnce'
  <2>1. Lengthens(e[2]) /\ manual' = manual \union {<<e[1], e[2]>>}
    BY <1>6, ConnectLengthens DEF Connect
  <2>2. <<e[1], e[2]>> \in manual' /\ manual \subseteq manual' /\ <<e[1], e[2]>>[2] = e[2]
    BY <2>1
  <2> QED BY <1>2, <2>1, <2>2
<1>7. ASSUME Execute
      PROVE  SinksOnce'
  BY <1>1, <1>7 DEF Execute, graphVars
<1>8. ASSUME Step
      PROVE  SinksOnce'
  BY <1>1, <1>8, StepGoes
<1>9. ASSUME UNCHANGED vars
      PROVE  SinksOnce'
  BY <1>1, <1>9 DEF vars, flowVars, graphVars
<1> QED BY <1>3, <1>4, <1>5, <1>6, <1>7, <1>8, <1>9 DEF Next

\* A block that has a Sink among its consumers has all of them, and no other
\* consumer.
LEMMA SinksTogether ==
    ASSUME IInv, Tidy, SinksOnce, SameForAll, NEW b \in Producing, Added(b)
    PROVE  \/ \A i \in DOMAIN next_nodes[b] : next_nodes[b][i].to \notin Sinks
           \/ /\ \A i \in DOMAIN next_nodes[b] : next_nodes[b][i].to \in SinksAdded
              /\ \A i, j \in DOMAIN next_nodes[b] : next_nodes[b][i].to = next_nodes[b][j].to => i = j
              /\ \A s \in SinksAdded : \E i \in DOMAIN next_nodes[b] : next_nodes[b][i].to = s
<1>1. /\ WiredUp /\ nodes \in Seq(Nodes) /\ built \in Seq(Blocks) /\ TypeOK /\ WiredSources /\ WiredNodes
      /\ Once(nodes) /\ ToSet(nodes) = ToSet(built) \intersect Nodes /\ Once(built)
  BY WiredByKind DEF IInv, TypeOK, Listed, SameForAll, BuiltAsDocumented, Tidy
<1>2. Sources \intersect Nodes = {} /\ Producing \intersect Sinks = {} /\ Nodes \subseteq Producing
  BY KindsAssumption DEF Producing
<1>3. b \in ToSet(sources) \union ToSet(nodes)
  BY DEF IInv, Listed, Added, Producing
<1>4. \A e \in manual : e[2] \in Nodes /\ Before(e[1], e[2])
  BY DEF SameForAll, ConnectedAhead
<1>5. AmongBuilt
  BY DEF IInv
<1>6. /\ DOMAIN next_nodes[b] = 1..Len(next_nodes[b])
      /\ \A i \in DOMAIN next_nodes[b] : next_nodes[b][i].to \in ToSet(built)
  BY <1>5, CallsMade, AnysMade
<1>7. \A c \in Blocks : Edge(b, c) <=> Wired(b, c)
  BY <1>1, <1>3 DEF WiredUp
<1>8. ToSet(built) \subseteq Blocks /\ SinksAdded \subseteq Blocks
  BY <1>1, InToSet DEF SinksAdded
<1>9. \A c : <<b, c>> \in manual => c \in Nodes /\ Before(b, c)
  BY <1>4
<1> DEFINE Final == (b \in Sources /\ nodes = <<>>) \/ (nodes # <<>> /\ b = Last(nodes))
<1>10. \A s \in Sinks \intersect Blocks : Wired(b, s) <=> Final /\ s \in SinksAdded
  <2> SUFFICES ASSUME NEW s \in Sinks \intersect Blocks
               PROVE  Wired(b, s) <=> Final /\ s \in SinksAdded
    OBVIOUS
  <2>1. <<b, s>> \notin manual /\ s \notin Nodes
    BY <1>2, <1>9
  <2>2. \A i \in 1..Len(nodes) : nodes[i] \in Nodes
    BY <1>1
  <2>3. nodes # <<>> => Head(nodes) \in Nodes /\ Last(nodes) \in Nodes
    BY <1>1 DEF Last
  <2>4. CASE b \in Sources
    BY <1>1, <1>2, <2>1, <2>3, <2>4 DEF WiredSources
  <2>5. CASE b \in Nodes
    <3>1. \A i \in 1..Len(nodes) - 1 : s # nodes[i + 1]
      BY <1>1, <2>1, <2>2
    <3> QED BY <1>1, <1>2, <2>1, <2>5, <3>1 DEF WiredNodes
  <2> QED BY <2>4, <2>5 DEF Producing
<1>11. Final => \A c \in Nodes : ~Wired(b, c)
  <2> SUFFICES ASSUME Final, NEW c \in Nodes, Wired(b, c)
               PROVE  FALSE
    OBVIOUS
  <2>1. c \notin SinksAdded /\ c \in Blocks
    BY <1>2 DEF SinksAdded, Blocks
  <2>2. CASE nodes = <<>>
    <3>1. b \in Sources /\ <<b, c>> \in manual
      BY <1>1, <2>1, <2>2 DEF WiredSources
    <3>2. c \in ToSet(built)
      BY <1>9, <3>1 DEF Before, ToSet
    <3>3. ToSet(nodes) = {}
      BY <2>2 DEF ToSet
    <3> QED BY <1>1, <3>2, <3>3
  <2>3. CASE nodes # <<>>
    <3> DEFINE m == Len(nodes)
    <3>1. /\ m \in Nat /\ m >= 1 /\ b = nodes[m] /\ b \in Nodes /\ DOMAIN nodes = 1..m
      BY <1>1, <2>3 DEF Last
    <3> HIDE DEF m
    <3>2. ASSUME NEW i \in 1..m - 1, b = nodes[i]
          PROVE  FALSE
      <4>1. i \in 1..m /\ m \in 1..m /\ i # m
        BY <3>1, <3>2
      <4> QED BY <1>1, <3>1, <3>2, <4>1 DEF Once
    <3>3. <<b, c>> \in manual
      BY <1>1, <2>1, <3>1, <3>2 DEF WiredNodes, m
    <3>4. Before(b, c)
      BY <1>9, <3>3
    <3>5. c \in ToSet(nodes)
      BY <1>1, <3>4 DEF Before, ToSet
    <3>6. PICK j \in 1..m : nodes[j] = c
      BY <1>1, <3>5, InToSet DEF m
    <3>7. CASE j = m
      BY <1>1, <3>1, <3>4, <3>6, <3>7, AddedOnce
    <3>8. CASE j # m
      <4>1. j < m /\ j \in DOMAIN nodes /\ m \in DOMAIN nodes
        BY <3>1, <3>6, <3>8
      <4>2. Before(c, b)
        BY <3>1, <3>6, <4>1 DEF Tidy
      <4> QED BY <1>1, <3>4, <4>2, AddedOnce
    <3> QED BY <3>1, <3>6, <3>7, <3>8
  <2> QED BY <2>2, <2>3
<1>12. \A c \in Sources : ~Wired(b, c)
  <2> SUFFICES ASSUME NEW c \in Sources, Wired(b, c)
               PROVE  FALSE
    OBVIOUS
  <2>1. c \notin SinksAdded /\ c \notin Nodes /\ c \in Blocks
    BY <1>2, KindsAssumption DEF SinksAdded, Blocks, Producing
  <2>2. <<b, c>> \notin manual
    BY <1>9, <2>1
  <2>3. \A i \in 1..Len(nodes) : nodes[i] \in Nodes
    BY <1>1
  <2>4. nodes # <<>> => Head(nodes) \in Nodes
    BY <1>1
  <2>5. \A i \in 1..Len(nodes) - 1 : c # nodes[i + 1]
    BY <1>1, <2>1, <2>3
  <2>6. CASE b \in Sources
    BY <1>1, <2>1, <2>2, <2>4, <2>6 DEF WiredSources
  <2>7. CASE b \in Nodes
    BY <1>1, <2>1, <2>2, <2>5, <2>7 DEF WiredNodes
  <2> QED BY <2>6, <2>7 DEF Producing
<1> HIDE DEF Final
<1>13. \A i \in DOMAIN next_nodes[b] : Wired(b, next_nodes[b][i].to)
  <2> SUFFICES ASSUME NEW i \in DOMAIN next_nodes[b]
               PROVE  Wired(b, next_nodes[b][i].to)
    OBVIOUS
  <2>1. PICK c : c = next_nodes[b][i].to
    OBVIOUS
  <2>2. Edge(b, c) /\ c \in Blocks
    BY <1>6, <1>8, <2>1 DEF Edge
  <2>3. Wired(b, c)
    BY <1>7, <2>2
  <2> QED BY <2>1, <2>3
<1>14. CASE ~Final
  <2>1. \A i \in DOMAIN next_nodes[b] : next_nodes[b][i].to \notin Sinks
    <3> SUFFICES ASSUME NEW i \in DOMAIN next_nodes[b], next_nodes[b][i].to \in Sinks
                 PROVE  FALSE
      OBVIOUS
    <3>1. PICK c : c = next_nodes[b][i].to
      OBVIOUS
    <3>2. c \in Sinks \intersect Blocks /\ Wired(b, c)
      <4>1. c \in Blocks
        BY <1>6, <1>8, <3>1
      <4>2. Edge(b, c)
        BY <1>6, <3>1 DEF Edge
      <4> QED BY <1>7, <3>1, <4>1, <4>2
    <3> QED BY <1>10, <1>14, <3>2
  <2> QED BY <2>1
<1>15. CASE Final
  <2>1. \A i \in DOMAIN next_nodes[b] : next_nodes[b][i].to \in SinksAdded
    <3> SUFFICES ASSUME NEW i \in DOMAIN next_nodes[b]
                 PROVE  next_nodes[b][i].to \in SinksAdded
      OBVIOUS
    <3>1. PICK c : c = next_nodes[b][i].to
      OBVIOUS
    <3>2. c \in Blocks /\ Edge(b, c)
      BY <1>6, <1>8, <3>1 DEF Edge
    <3>3. Wired(b, c)
      BY <1>7, <3>2
    <3>4. c \in Sinks
      BY <1>11, <1>12, <1>15, <3>2, <3>3 DEF Blocks, Producing
    <3> QED BY <1>10, <3>1, <3>2, <3>3, <3>4
  <2>2. \A i, j \in DOMAIN next_nodes[b] : next_nodes[b][i].to = next_nodes[b][j].to => i = j
    <3>1. \A e \in manual : e[2] \notin Sinks
      BY <1>2, <1>4
    <3>2. \A i \in DOMAIN next_nodes[b] : next_nodes[b][i].to \in Sinks
      BY <2>1 DEF SinksAdded
    <3> QED BY <3>1, <3>2 DEF SinksOnce
  <2>3. \A s \in SinksAdded : \E i \in DOMAIN next_nodes[b] : next_nodes[b][i].to = s
    <3> SUFFICES ASSUME NEW s \in SinksAdded
                 PROVE  \E i \in DOMAIN next_nodes[b] : next_nodes[b][i].to = s
      OBVIOUS
    <3>1. s \in Sinks \intersect Blocks
      BY <1>8 DEF SinksAdded
    <3>2. Wired(b, s)
      BY <1>10, <1>15, <3>1
    <3>3. Edge(b, s)
      BY <1>7, <3>1, <3>2
    <3> QED BY <1>6, <3>3 DEF Edge
  <2> QED BY <2>1, <2>2, <2>3
<1> QED BY <1>14, <1>15

\* Some of the calls at the front hand a value to the Sinks.
SomeHanding == \E n \in 0..Len(calls) : \E before, after : Handing(n, before, after)

\* Calls to Sinks come in a row at the front: a block that is called has them
\* all behind it.
LEMMA HandsOnKeeps ==
    ASSUME IInv, Tidy, SinksOnce, SameForAll, SomeHanding, calls # <<>>,
           UNCHANGED <<next_nodes, built>>, NEW b \in Producing, HandsOn(b)
    PROVE  SomeHanding'
<1>1. /\ AmongBuilt /\ calls \in Seq(BuiltCalls) /\ Producing \intersect Sinks = {}
  BY KindsAssumption DEF IInv, AmongBuilt, BuiltCalls
<1>2. /\ Len(calls) \in Nat /\ Len(calls) >= 1 /\ calls[1].to = b /\ Added(b) /\ b \notin Sinks
      /\ received' = received /\ SinksAdded' = SinksAdded
  <2>1. calls[1] \in BuiltCalls /\ Head(calls) = calls[1] /\ Len(calls) \in Nat /\ Len(calls) >= 1
    BY <1>1
  <2> QED BY <1>1, <2>1 DEF HandsOn, Head1, BuiltCalls, Added, SinksAdded
<1>3. PICK n \in 0..Len(calls) : \E before, after : Handing(n, before, after)
  BY DEF SomeHanding
<1>4. PICK before, after : Handing(n, before, after)
  BY <1>3
<1>5. n = 0
  <2>1. n # 0 => 1 \in 1..n
    BY <1>2, <1>3
  <2> QED BY <1>2, <1>4, <2>1 DEF Handing, SinksAdded
<1>6. /\ \A i \in 1..Len(calls) : calls[i].to \notin Sinks
      /\ \A s \in SinksAdded : received[s] = after
  <2>1. 0 + 1 .. Len(calls) = 1..Len(calls) /\ 1..0 = {}
    BY <1>2
  <2> QED BY <1>4, <1>5, <2>1 DEF Handing
<1>7. b \notin RoundRobin
  BY <1>2 DEF SameForAll, Added
<1>8. ASSUME NEW new \in Seq(BuiltCalls), Replace(new), \A i \in 1..Len(new) : new[i].to \notin Sinks
      PROVE  SomeHanding'
  <2>1. /\ Len(calls') \in Nat /\ Len(new) \in Nat /\ Len(calls') = Len(new) + Len(calls) - 1
        /\ \A i \in 1..Len(new) : calls'[i] = new[i]
        /\ \A i \in Len(new) + 1 .. Len(calls') : calls'[i] = calls[i - Len(new) + 1]
    BY <1>1, <1>8, CallsAfter
  <2>2. ASSUME NEW i \in 1..Len(calls')
        PROVE  calls'[i].to \notin Sinks
    <3>1. CASE i <= Len(new)
      BY <1>8, <2>1, <3>1
    <3>2. CASE i > Len(new)
      <4>1. i \in Len(new) + 1 .. Len(calls') /\ i - Len(new) + 1 \in 1..Len(calls)
        BY <1>2, <2>1, <3>2
      <4> QED BY <1>6, <2>1, <4>1
    <3> QED BY <2>1, <3>1, <3>2
  <2>3. 0 + 1 .. Len(calls') = 1..Len(calls') /\ 1..0 = {} /\ 0 \in 0..Len(calls')
    BY <2>1
  <2>4. Handing(0, after, after)'
    BY <1>2, <1>6, <2>2, <2>3 DEF Handing
  <2> QED BY <2>3, <2>4 DEF SomeHanding
<1>9. Replace(<<>>) => SomeHanding'
  <2>1. <<>> \in Seq(BuiltCalls) /\ 1..Len(<<>>) = {}
    OBVIOUS
  <2> QED BY <1>8, <2>1
<1>10. ASSUME NEW out \in Anys, Replace(ConsumerCalls(b, out))
       PROVE  SomeHanding'
  <2> DEFINE new == ConsumerCalls(b, out)
  <2>k. PICK k : k = Len(next_nodes[b])
    OBVIOUS
  <2>1. /\ new \in Seq(BuiltCalls) /\ Len(new) = k /\ k \in Nat /\ DOMAIN next_nodes[b] = 1..k
        /\ \A i \in 1..k : new[i].to = next_nodes[b][i].to /\ new[i].in = out
    BY <1>1, <2>k, CallsMade
  <2>2. Replace(new)
    BY <1>10
  <2> HIDE DEF new
  <2>3. CASE \A i \in DOMAIN next_nodes[b] : next_nodes[b][i].to \notin Sinks
    BY <1>8, <2>1, <2>2, <2>3
  <2>4. CASE /\ \A i \in DOMAIN next_nodes[b] : next_nodes[b][i].to \in SinksAdded
             /\ \A i, j \in DOMAIN next_nodes[b] : next_nodes[b][i].to = next_nodes[b][j].to => i = j
             /\ \A s \in SinksAdded : \E i \in DOMAIN next_nodes[b] : next_nodes[b][i].to = s
    <3>1. /\ Len(calls') \in Nat /\ Len(calls') = k + Len(calls) - 1
          /\ \A i \in 1..k : calls'[i] = new[i]
          /\ \A i \in k + 1 .. Len(calls') : calls'[i] = calls[i - k + 1]
      BY <1>1, <2>1, <2>2, CallsAfter
    <3>2. \A i \in 1..k : calls'[i].to = next_nodes[b][i].to /\ calls'[i].in = out
      BY <2>1, <3>1
    <3>3. ASSUME NEW i \in k + 1 .. Len(calls')
          PROVE  calls'[i].to \notin Sinks
      <4>1. i - k + 1 \in 1..Len(calls)
        BY <1>2, <2>1, <3>1
      <4> QED BY <1>6, <3>1, <4>1
    <3>4. PICK then : then = WithValue(after, out)
      OBVIOUS
    <3>6. Handing(k, after, then)'
      <4>1. \A i \in 1..k : calls'[i].to \in SinksAdded' /\ WithValue(after, calls'[i].in) = then
        BY <1>2, <2>1, <2>4, <3>2, <3>4
      <4>2. \A i, j \in 1..k : calls'[i].to = calls'[j].to => i = j
        BY <2>1, <2>4, <3>2
      <4>3. \A s \in SinksAdded' : received'[s] = after /\ \E i \in 1..k : calls'[i].to = s
        BY <1>2, <1>6, <2>1, <2>4, <3>2
      <4>4. \A s \in SinksAdded' : received'[s] = IF \E i \in 1..k : calls'[i].to = s THEN after ELSE then
        BY <4>3
      <4> QED BY <3>3, <4>1, <4>2, <4>4 DEF Handing, WithValue
    <3>5. k \in 0..Len(calls')
      BY <1>2, <2>1, <3>1
    <3> QED BY <3>5, <3>6 DEF SomeHanding
  <2> QED BY <1>2, <2>3, <2>4, SinksTogether
<1> QED BY <1>7, <1>9, <1>10 DEF HandsOn

\* One Sink less has to get the value.
LEMMA ArrivesKeeps ==
    ASSUME IInv, SomeHanding, calls # <<>>, UNCHANGED built, NEW s \in Sinks, Arrives(s)
    PROVE  SomeHanding'
<1>1. /\ calls \in Seq(BuiltCalls) /\ <<>> \in Seq(BuiltCalls) /\ Len(<<>>) = 0 /\ Replace(<<>>)
      /\ received \in [Sinks -> Seq(SUBSET Tokens)]
      /\ received' = [received EXCEPT ![s] = WithValue(@, In)]
  BY DEF IInv, AmongBuilt, BuiltCalls, TypeOK, FlowTypeOK, Arrives
<1>2. /\ Len(calls) \in Nat /\ Len(calls) >= 1 /\ calls[1].to = s /\ In = calls[1].in
      /\ SinksAdded' = SinksAdded /\ SinksAdded \subseteq Sinks
  <2>1. Head(calls) = calls[1] /\ Len(calls) \in Nat /\ Len(calls) >= 1
    BY <1>1
  <2> QED BY <2>1 DEF Arrives, Head1, In, SinksAdded
<1>3. /\ Len(calls') = Len(calls) - 1
      /\ \A i \in 1..Len(calls) - 1 : calls'[i] = calls[i + 1]
  <2>1. /\ Len(calls') = 0 + Len(calls) - 1
        /\ \A i \in 0 + 1 .. Len(calls') : calls'[i] = calls[i - 0 + 1]
    BY <1>1, CallsAfter
  <2>2. \A i \in 1..Len(calls) - 1 : i \in 0 + 1 .. Len(calls') /\ i - 0 + 1 = i + 1
    BY <1>2, <2>1
  <2> QED BY <1>2, <2>1, <2>2
<1>4. PICK n \in 0..Len(calls) : \E before, after : Handing(n, before, after)
  BY DEF SomeHanding
<1>5. PICK before, after : Handing(n, before, after)
  BY <1>4
<1>6. n >= 1 /\ n \in Nat
  <2>1. n = 0 => 1 \in n + 1 .. Len(calls)
    BY <1>2, <1>4
  <2> QED BY <1>2, <1>4, <1>5, <2>1 DEF Handing
<1>7. /\ \A i \in 1..n : calls[i].to \in SinksAdded /\ WithValue(before, calls[i].in) = after
      /\ \A i, j \in 1..n : calls[i].to = calls[j].to => i = j
      /\ \A i \in n + 1 .. Len(calls) : calls[i].to \notin Sinks
      /\ \A t \in SinksAdded : (\E i \in 1..n : calls[i].to = t) => received[t] = before
      /\ \A t \in SinksAdded : (~\E i \in 1..n : calls[i].to = t) => received[t] = after
  BY <1>5 DEF Handing
<1>8. received'[s] = after /\ \A t \in Sinks \ {s} : received'[t] = received[t]
  <2>1. 1 \in 1..n
    BY <1>6
  <2>2. s \in SinksAdded /\ received[s] = before /\ WithValue(before, calls[1].in) = after
    BY <1>2, <1>7, <2>1
  <2> QED BY <1>1, <1>2, <2>2
<1>9. \A i \in 1..n - 1 : calls'[i] = calls[i + 1] /\ i + 1 \in 1..n /\ i + 1 # 1
  BY <1>3, <1>4, <1>6
<1>10. ASSUME NEW t \in SinksAdded
       PROVE  received'[t] = IF \E i \in 1..n - 1 : calls'[i].to = t THEN before ELSE after
  <2>1. CASE t = s
    <3>1. \A i \in 1..n - 1 : calls'[i].to # s
      BY <1>2, <1>6, <1>7, <1>9
    <3> QED BY <1>8, <2>1, <3>1
  <2>2. CASE t # s
    <3>1. ASSUME NEW i \in 1..n, calls[i].to = t
          PROVE  \E j \in 1..n - 1 : calls'[j].to = t
      <4>1. i # 1
        BY <1>2, <2>2, <3>1
      <4>2. i - 1 \in 1..n - 1 /\ (i - 1) + 1 = i
        BY <1>6, <4>1
      <4> QED BY <1>9, <3>1, <4>2
    <3>2. ASSUME NEW j \in 1..n - 1, calls'[j].to = t
          PROVE  \E i \in 1..n : calls[i].to = t
      BY <1>9, <3>2
    <3>3. t \in Sinks \ {s}
      BY <1>2, <2>2
    <3> QED BY <1>7, <1>8, <3>1, <3>2, <3>3
  <2> QED BY <2>1, <2>2
<1>11. Handing(n - 1, before, after)'
  <2>1. \A i \in 1..n - 1 : calls'[i].to \in SinksAdded' /\ WithValue(before, calls'[i].in) = after
    BY <1>2, <1>7, <1>9
  <2>2. ASSUME NEW i \in 1..n - 1, NEW j \in 1..n - 1, calls'[i].to = calls'[j].to
        PROVE  i = j
    <3>1. i + 1 = j + 1
      BY <1>7, <1>9, <2>2
    <3> QED BY <3>1
  <2>3. ASSUME NEW i \in (n - 1) + 1 .. Len(calls')
        PROVE  calls'[i].to \notin Sinks
    <3>1. i \in 1..Len(calls) - 1 /\ i + 1 \in n + 1 .. Len(calls)
      BY <1>2, <1>3, <1>6
    <3> QED BY <1>3, <1>7, <3>1
  <2> QED BY <1>2, <1>10, <2>1, <2>2, <2>3 DEF Handing, WithValue
<1>12. n - 1 \in 0..Len(calls')
  BY <1>2, <1>3, <1>4, <1>6
<1> QED BY <1>11, <1>12 DEF SomeHanding

\* When no call is left the Sinks have got the same.
Alike == calls = <<>> => \A s, t \in SinksAdded : received[s] = received[t]

\* In an execution without calls, no Sink waits for a value.
LEMMA HandedOver == SomeHanding => Alike
<1> SUFFICES ASSUME SomeHanding, calls = <<>>
             PROVE  \A s, t \in SinksAdded : received[s] = received[t]
  BY DEF Alike
<1>1. Len(calls) = 0 /\ \A n \in 0..0 : n = 0
  OBVIOUS
<1>2. PICK before, after : Handing(0, before, after)
  BY <1>1 DEF SomeHanding
<1>3. 1..0 = {}
  OBVIOUS
<1> QED BY <1>2, <1>3 DEF Handing

\* What is handed to the Sinks stays the same for all, step by step.
LEMMA AgreeKept ==
    ASSUME IInv, IInv', Tidy, SinksInStep, [Next]_vars
    PROVE  SinksInStep'
<1>1. SinksOnce'
  BY SinksOnceKept DEF SinksInStep
<1>2. CASE status' = "thrown" \/ status' = "undefined"
  BY <1>1, <1>2 DEF SinksInStep
<1>3. ASSUME received' = Nothing, status' # "running"
      PROVE  SinksInStep'
  <2>1. \A s, t \in SinksAdded' : received'[s] = received'[t]
    BY <1>3 DEF Nothing, SinksAdded
  <2> QED BY <1>1, <1>3, <2>1 DEF SinksInStep
<1>4. ASSUME Grows
      PROVE  SinksInStep'
  BY <1>3, <1>4 DEF Grows
<1>5. ASSUME Execute
      PROVE  SinksInStep'
  <2> DEFINE first == IF sources # <<>> THEN sources
                      ELSE IF nodes # <<>> THEN <<Head(nodes)>> ELSE <<>>
  <2>1. /\ calls' = [i \in 1..Len(first) |-> [to |-> first[i], id |-> 0, in |-> Void]]
        /\ received' = Nothing /\ status' = "running"
    BY <1>5 DEF Execute
  <2>2. first \in Seq(Producing)
    <3>1. sources \in Seq(Sources) /\ nodes \in Seq(Nodes)
      BY DEF IInv, TypeOK
    <3>2. sources \in Seq(Producing) /\ (nodes # <<>> => <<Head(nodes)>> \in Seq(Producing))
      BY <3>1, SeqIn DEF Producing
    <3> QED BY <3>2
  <2> HIDE DEF first
  <2>3. Len(calls') = Len(first) /\ Len(first) \in Nat /\ \A i \in 1..Len(first) : calls'[i].to \in Producing
    BY <2>1, <2>2
  <2>4. 0 + 1 .. Len(calls') = 1..Len(first) /\ 1..0 = {} /\ 0 \in 0..Len(calls')
    BY <2>3
  <2>5. \A i \in 1..Len(first) : calls'[i].to \notin Sinks
    BY <2>3, KindsAssumption
  <2>6. \A s \in SinksAdded' : received'[s] = <<>>
    BY <2>1 DEF Nothing, SinksAdded
  <2>7. Handing(0, <<>>, <<>>)'
    BY <2>4, <2>5, <2>6 DEF Handing
  <2> QED BY <1>1, <2>1, <2>4, <2>7 DEF SinksInStep
<1>6. ASSUME Step
      PROVE  SinksInStep'
  <2>1. /\ status = "running" /\ calls # <<>>
        /\ UNCHANGED <<next_nodes, producer_count, sources, nodes, built, manual>>
        /\ Ends \/ (\E b \in Producing : HandsOn(b)) \/ (\E s \in Sinks : Arrives(s))
    BY <1>6, StepGoes
  <2>2. SameForAll' <=> SameForAll
    <3>1. BuiltAsDocumented' <=> BuiltAsDocumented
      BY <2>1 DEF BuiltAsDocumented, InOrder, Rank, SinksAdded
    <3>2. ConnectedAhead' <=> ConnectedAhead
      BY <2>1 DEF ConnectedAhead, Before
    <3> QED BY <2>1, <3>1, <3>2 DEF SameForAll
  <2>3. Ends => SinksInStep'
    BY <1>2 DEF Ends
  <2>4. ASSUME ~Ends, SameForAll
        PROVE  SomeHanding'
    <3>1. SomeHanding /\ SinksOnce
      BY <2>1, <2>4 DEF SinksInStep, SomeHanding
    <3>2. ASSUME NEW b \in Producing, HandsOn(b)
          PROVE  SomeHanding'
      BY <2>1, <2>4, <3>1, <3>2, HandsOnKeeps
    <3>3. ASSUME NEW s \in Sinks, Arrives(s)
          PROVE  SomeHanding'
      BY <2>1, <3>1, <3>3, ArrivesKeeps
    <3> QED BY <2>1, <2>4, <3>2, <3>3
  <2>5. status' = "idle" => calls' = <<>> \/ Ends
    <3>1. \A new : Replace(new) => (status' = "idle" => calls' = <<>>)
      BY DEF Replace
    <3> QED BY <2>1, <3>1 DEF HandsOn, Arrives, Ends
  <2>6. SomeHanding' => Alike'
    BY HandedOver, PTL
  <2>7. CASE ~Ends
    BY <1>1, <2>2, <2>4, <2>5, <2>6, <2>7 DEF SinksInStep, SomeHanding, Alike
  <2> QED BY <2>3, <2>7
<1>7. ASSUME UNCHANGED vars
      PROVE  SinksInStep'
  <2>1. UNCHANGED <<next_nodes, calls, status, received, sources, nodes, built, manual>>
    BY <1>7 DEF vars, flowVars, graphVars
  <2>2. SameForAll' <=> SameForAll
    BY <2>1 DEF SameForAll, ConnectedAhead, Before, BuiltAsDocumented, InOrder, Rank, SinksAdded
  <2>3. SomeHanding => SomeHanding'
    <3>1. \A n, before, after : Handing(n, before, after)' <=> Handing(n, before, after)
      BY <2>1 DEF Handing, SinksAdded
    <3> QED BY <2>1, <3>1 DEF SomeHanding
  <2>4. SinksAdded' = SinksAdded
    BY <2>1 DEF SinksAdded
  <2> QED BY <1>1, <2>1, <2>2, <2>3, <2>4 DEF SinksInStep, SomeHanding
<1> QED BY <1>4, <1>5, <1>6, <1>7, GraphSteps DEF Next

\* It is so in an empty pipeline.
LEMMA InitAgrees == Init => Tidy /\ SinksInStep
<1> SUFFICES ASSUME Init PROVE Tidy /\ SinksInStep
  OBVIOUS
<1>1. /\ built = <<>> /\ nodes = <<>> /\ calls = <<>> /\ status = "idle" /\ received = Nothing
      /\ next_nodes = [b \in Producing |-> <<>>]
  BY DEF Init, FlowInit
<1>2. Tidy
  BY <1>1 DEF Tidy, Once
<1>3. SinksOnce
  BY <1>1 DEF SinksOnce
<1>4. \A s, t \in SinksAdded : received[s] = received[t]
  BY <1>1 DEF SinksAdded, ToSet
<1> QED BY <1>1, <1>2, <1>3, <1>4 DEF SinksInStep

\* AgreeInv is an invariant.
LEMMA Agreement == Spec => []AgreeInv
<1>1. Init => AgreeInv
  BY InitAgrees DEF AgreeInv
<1>2. IInv /\ IInv' /\ AgreeInv /\ [Next]_vars => AgreeInv'
  BY TidyKept, AgreeKept DEF AgreeInv
<1> QED BY <1>1, <1>2, Invariance, PTL DEF Spec

-----------------------------------------------------------------------------
(* What has been executed in a round *)

FewProducers == \A a \in Aggregators : producer_count[a] <= 1

Ahead ==
    /\ \A b \in Producing : \A i \in DOMAIN next_nodes[b] :
         next_nodes[b][i].to \notin Sources /\ Before(b, next_nodes[b][i].to)
    /\ \A m \in Modules : \A e, f \in EdgesInto(m) : e = f
    /\ sources # <<>> /\ nodes # <<>> => Before(sources[1], nodes[1])

\* The two ways of being even.
LEMMA EvenIs == Even <=> FewProducers \/ Ahead
BY DEF Even, FewProducers, Ahead

\* A Node has a producer, unless it was added before all Sources.
Fed(n) ==
    \/ \E b \in Producing : \E i \in DOMAIN next_nodes[b] : Into(b, i, n)
    \/ nodes[1] = n /\ (sources # <<>> => Before(nodes[1], sources[1]))

AllFed == \A n \in ToSet(nodes) : Fed(n)

\* A graph grows: what was there stays in place.
Extends ==
    /\ \A b \in Producing : \A i \in DOMAIN next_nodes[b] :
         i \in DOMAIN next_nodes'[b] /\ next_nodes'[b][i] = next_nodes[b][i]
    /\ \A a \in Aggregators : producer_count[a] <= producer_count'[a]
    /\ \A b, c \in ToSet(built) : Before(b, c)' <=> Before(b, c)
    /\ sources # <<>> => sources' # <<>> /\ sources'[1] = sources[1]
    /\ nodes # <<>> => nodes' # <<>> /\ nodes'[1] = nodes[1]

\* Append keeps the first element of a sequence.
LEMMA FirstStays ==
    ASSUME NEW S, NEW seq \in Seq(S), NEW x
    PROVE  /\ Append(seq, x) # <<>>
           /\ seq # <<>> => Append(seq, x)[1] = seq[1]
           /\ seq = <<>> => Append(seq, x)[1] = x
OBVIOUS

\* An Aggregator never has fewer producers than before.
LEMMA CountsGrow ==
    ASSUME TypeOK, NEW from \in Seq(Producing), NEW x, AddConsumer(from, x)
    PROVE  \A a \in Aggregators : producer_count[a] <= producer_count'[a]
<1>1. producer_count \in [Aggregators -> Nat] /\ Len(from) \in Nat
  BY DEF TypeOK, FlowTypeOK
<1>2. \A a \in Aggregators : producer_count'[a] = producer_count[a] + (IF a = x THEN Len(from) ELSE 0)
  BY DEF AddConsumer
<1> QED BY <1>1, <1>2

\* add() and connect() change nothing that was there.
LEMMA GraphExtends ==
    ASSUME IInv, Tidy,
           \/ \E s \in Sources : AddSource(s)
           \/ \E n \in Nodes : AddNode(n)
           \/ \E s \in Sinks : AddSink(s)
           \/ \E e \in ManualEdges : Connect(e[1], e[2])
    PROVE  Extends
<1>1. /\ TypeOK /\ built \in Seq(Blocks) /\ Once(built) /\ sources \in Seq(Sources) /\ nodes \in Seq(Nodes)
      /\ producer_count \in [Aggregators -> Nat]
  BY DEF IInv, TypeOK, FlowTypeOK, Tidy
<1>2. ASSUME NEW x, Lengthens(x)
      PROVE  \A b \in Producing : \A i \in DOMAIN next_nodes[b] :
                 i \in DOMAIN next_nodes'[b] /\ next_nodes'[b][i] = next_nodes[b][i]
  BY <1>2 DEF Lengthens
<1>3. ASSUME NEW x, ~Added(x), built' = Append(built, x)
      PROVE  \A b, c \in ToSet(built) : Before(b, c)' <=> Before(b, c)
  BY <1>1, <1>3, AddedBehind
<1>4. ASSUME NEW s \in Sources, AddSource(s)
      PROVE  Extends
  <2>1. UNCHANGED <<next_nodes, producer_count, nodes>> /\ sources' = Append(sources, s)
        /\ ~Added(s) /\ built' = Append(built, s)
    BY <1>4 DEF AddSource, graphVars
  <2> QED BY <1>1, <1>3, <2>1, FirstStays DEF Extends
<1>5. ASSUME NEW n \in Nodes, AddNode(n)
      PROVE  Extends
  <2>1. sources' = sources /\ nodes' = Append(nodes, n) /\ ~Added(n) /\ built' = Append(built, n)
        /\ AddConsumer(Upstream, n)
    BY <1>5 DEF AddNode
  <2> QED BY <1>1, <1>2, <1>3, <1>5, <2>1, FirstStays, AddNodeLengthens, UpstreamFits, CountsGrow DEF Extends
<1>6. ASSUME NEW s \in Sinks, AddSink(s)
      PROVE  Extends
  <2>1. sources' = sources /\ nodes' = nodes /\ ~Added(s) /\ built' = Append(built, s)
        /\ AddConsumer(Upstream, s)
    BY <1>6 DEF AddSink
  <2> QED BY <1>1, <1>2, <1>3, <1>6, <2>1, AddSinkLengthens, UpstreamFits, CountsGrow DEF Extends
<1>7. ASSUME NEW e \in ManualEdges, Connect(e[1], e[2])
      PROVE  Extends
  <2>1. sources' = sources /\ nodes' = nodes /\ built' = built /\ AddConsumer(<<e[1]>>, e[2])
        /\ <<e[1], e[2]>> \in ManualEdges
    BY <1>7 DEF Connect
  <2>2. e[1] \in Producing
    BY <2>1, EdgesAssumption
  <2>3. <<e[1]>> \in Seq(Producing)
    BY <2>2
  <2>4. \A b, c : Before(b, c)' <=> Before(b, c)
    BY <2>1 DEF Before
  <2>5. Lengthens(e[2])
    BY <1>7, ConnectLengthens
  <2>6. \A a \in Aggregators : producer_count[a] <= producer_count'[a]
    BY <1>1, <2>1, <2>3, CountsGrow
  <2> QED BY <1>2, <2>1, <2>4, <2>5, <2>6 DEF Extends
<1> QED BY <1>4, <1>5, <1>6, <1>7

\* What makes a graph uneven stays in it.
LEMMA EvenBefore ==
    ASSUME IInv, IInv', Extends, Even'
    PROVE  Even
<1>1. FewProducers' \/ Ahead'
  <2>1. Even' => FewProducers' \/ Ahead'
    BY EvenIs, PTL
  <2> QED BY <2>1
<1>2. /\ producer_count \in [Aggregators -> Nat] /\ producer_count' \in [Aggregators -> Nat] /\ AmongBuilt
      /\ nodes \in Seq(Nodes) /\ sources \in Seq(Sources)
      /\ ToSet(sources) \subseteq ToSet(built) /\ ToSet(nodes) \subseteq ToSet(built)
  BY DEF IInv, TypeOK, FlowTypeOK, Listed
<1>3. CASE FewProducers'
  <2>1. FewProducers
    BY <1>2, <1>3 DEF FewProducers, Extends
  <2> QED BY <2>1, EvenIs
<1>4. CASE Ahead'
  <2>1. ASSUME NEW b \in Producing, NEW i \in DOMAIN next_nodes[b]
        PROVE  next_nodes[b][i].to \notin Sources /\ Before(b, next_nodes[b][i].to)
    <3>1. i \in DOMAIN next_nodes'[b] /\ next_nodes'[b][i] = next_nodes[b][i]
      BY DEF Extends
    <3>2. PICK c : c = next_nodes[b][i].to
      OBVIOUS
    <3>3. b \in ToSet(built) /\ c \in ToSet(built)
      <4>1. i \in 1..Len(next_nodes[b]) /\ c \in ToSet(built)
        BY <1>2, <3>2, CallsMade, AnysMade
      <4>2. next_nodes[b] # <<>>
        BY <4>1
      <4> QED BY <1>2, <4>1, <4>2 DEF AmongBuilt, Added
    <3>4. \A d : Before(b, d)' <=> \E k, l \in DOMAIN built' : k < l /\ built'[k] = b /\ built'[l] = d
      BY DEF Before
    <3>5. c \notin Sources /\ Before(b, c)'
      BY <1>4, <3>1, <3>2, <3>4 DEF Ahead, Before
    <3> QED BY <3>2, <3>3, <3>5 DEF Extends
  <2>2. \A m \in Modules : EdgesInto(m) \subseteq EdgesInto(m)'
    <3> SUFFICES ASSUME NEW m \in Modules, NEW e \in EdgesInto(m)
                 PROVE  e \in EdgesInto(m)'
      OBVIOUS
    <3>1. PICK b \in Producing : e \in {b} \X DOMAIN next_nodes[b]
      BY DEF EdgesInto
    <3>2. e = <<b, e[2]>> /\ e[2] \in DOMAIN next_nodes[b] /\ next_nodes[b][e[2]].to = m
      BY <3>1 DEF EdgesInto
    <3>3. e[2] \in DOMAIN next_nodes'[b] /\ next_nodes'[b][e[2]].to = m
      BY <3>2 DEF Extends
    <3>4. e \in UNION {{c} \X DOMAIN next_nodes'[c] : c \in Producing} /\ next_nodes'[e[1]][e[2]].to = m
      BY <3>2, <3>3
    <3> QED BY <3>4 DEF EdgesInto
  <2>3. \A m \in Modules : \A e, f \in EdgesInto(m) : e = f
    BY <1>4, <2>2 DEF Ahead
  <2>4. ASSUME sources # <<>>, nodes # <<>>
        PROVE  Before(sources[1], nodes[1])
    <3>1. PICK s, n : s = sources[1] /\ n = nodes[1]
      OBVIOUS
    <3>2. s \in ToSet(built) /\ n \in ToSet(built)
      <4>1. 1 \in 1..Len(sources) /\ 1 \in 1..Len(nodes)
        BY <1>2, <2>4
      <4> QED BY <1>2, <3>1, <4>1, InToSet
    <3>3. \A c, d : Before(c, d)' <=> \E k, l \in DOMAIN built' : k < l /\ built'[k] = c /\ built'[l] = d
      BY DEF Before
    <3>4. Before(s, n)'
      BY <1>4, <2>4, <3>1, <3>3 DEF Ahead, Extends, Before
    <3> QED BY <3>1, <3>2, <3>4 DEF Extends
  <2>5. Ahead
    BY <2>1, <2>3, <2>4 DEF Ahead
  <2> QED BY <2>5, EvenIs
<1> QED BY <1>1, <1>3, <1>4

\* A Node that is added gets a producer; edges and the order of blocks stay.
LEMMA FedKept ==
    ASSUME IInv, Tidy, AllFed, [Next]_vars
    PROVE  AllFed'
<1>1. /\ TypeOK /\ built \in Seq(Blocks) /\ Once(built) /\ sources \in Seq(Sources) /\ nodes \in Seq(Nodes)
      /\ ToSet(sources) \subseteq ToSet(built) /\ ToSet(nodes) \subseteq ToSet(built)
  BY DEF IInv, TypeOK, FlowTypeOK, Tidy, Listed
<1>2. ASSUME UNCHANGED <<next_nodes, sources, nodes, built>>
      PROVE  AllFed'
  BY <1>2 DEF AllFed, Fed, Into, Before
<1>f. \A m : Fed(m)' <=> \/ \E b \in Producing : \E i \in DOMAIN next_nodes'[b] : next_nodes'[b][i].to = m
                         \/ nodes'[1] = m /\ (sources' # <<>> => Before(nodes[1], sources[1])')
  BY DEF Fed, Into
<1>b. \A c, d : Before(c, d)' <=> \E k, l \in DOMAIN built' : k < l /\ built'[k] = c /\ built'[l] = d
  BY DEF Before
<1>c. Before(nodes[1], sources[1])' <=>
          \E k, l \in DOMAIN built' : k < l /\ built'[k] = nodes'[1] /\ built'[l] = sources'[1]
  BY DEF Before
<1>3. ASSUME Extends, NEW n \in ToSet(nodes), sources # <<>> \/ sources' = <<>>
      PROVE  Fed(n)'
  <2>1. CASE \E b \in Producing : \E i \in DOMAIN next_nodes[b] : Into(b, i, n)
    BY <1>3, <2>1, <1>f DEF Extends, Into
  <2>2. CASE nodes[1] = n /\ (sources # <<>> => Before(nodes[1], sources[1]))
    <3>1. nodes # <<>>
      BY <1>1, InToSet
    <3>2. nodes'[1] = n
      BY <1>3, <2>2, <3>1 DEF Extends
    <3>3. CASE sources' = <<>>
      BY <1>f, <3>2, <3>3
    <3>4. CASE sources # <<>>
      <4>1. PICK s : s = sources[1]
        OBVIOUS
      <4>2. s \in ToSet(built) /\ n \in ToSet(built) /\ Before(n, s) /\ s = sources'[1]
        <5>1. 1 \in 1..Len(sources)
          BY <1>1, <3>4
        <5> QED BY <1>1, <1>3, <2>2, <3>4, <4>1, <5>1, InToSet DEF Extends
      <4>3. Before(n, s)'
        BY <1>3, <4>2 DEF Extends
      <4> QED BY <1>b, <1>c, <1>f, <3>2, <4>2, <4>3
    <3> QED BY <1>3, <3>3, <3>4
  <2> QED BY <2>1, <2>2 DEF AllFed, Fed
<1>4. ASSUME NEW s \in Sources, AddSource(s)
      PROVE  AllFed'
  <2>1. Extends
    BY <1>4, GraphExtends
  <2>2. nodes' = nodes /\ sources' = Append(sources, s) /\ built' = Append(built, s) /\ ~Added(s)
    BY <1>4 DEF AddSource
  <2>3. CASE sources # <<>>
    BY <1>3, <2>1, <2>2, <2>3 DEF AllFed
  <2>4. CASE sources = <<>>
    <3> SUFFICES ASSUME NEW n \in ToSet(nodes) PROVE Fed(n)'
      BY <2>2 DEF AllFed
    <3>1. CASE \E b \in Producing : \E i \in DOMAIN next_nodes[b] : Into(b, i, n)
      BY <2>1, <3>1, <1>f DEF Extends, Into
    <3>2. CASE nodes[1] = n
      <4>1. sources'[1] = s
        BY <1>1, <2>2, <2>4, FirstStays
      <4>2. Before(n, s)'
        BY <1>1, <2>2, AddedBehind
      <4> QED BY <1>b, <1>c, <1>f, <2>2, <3>2, <4>1, <4>2
    <3> QED BY <3>1, <3>2 DEF AllFed, Fed
  <2> QED BY <2>3, <2>4
<1>5. ASSUME NEW n \in Nodes, AddNode(n)
      PROVE  AllFed'
  <2>1. Extends /\ sources' = sources /\ nodes' = Append(nodes, n) /\ AddConsumer(Upstream, n)
    BY <1>5, GraphExtends DEF AddNode
  <2>2. ToSet(nodes') = ToSet(nodes) \union {n}
    BY <1>1, <2>1, ToSetAppend
  <2>3. \A m \in ToSet(nodes) : Fed(m)'
    BY <1>3, <2>1
  <2>4. Fed(n)'
    <3>1. ASSUME NEW b \in Producing, b \in ToSet(Upstream)
          PROVE  Fed(n)'
      <4>1. Edge(b, n)'
        BY <1>1, <2>1, <3>1, UpstreamFits, EdgesGrow
      <4>2. PICK i \in 1..Len(next_nodes'[b]) : next_nodes'[b][i].to = n
        BY <4>1 DEF Edge
      <4>3. DOMAIN next_nodes'[b] = 1..Len(next_nodes'[b])
        BY <1>5, AddNodeLengthens DEF Lengthens
      <4> QED BY <1>f, <4>2, <4>3
    <3>2. CASE Upstream # <<>>
      <4>1. Upstream \in Seq(Producing) /\ 1 \in 1..Len(Upstream)
        BY <3>2, UpstreamFits
      <4>2. Upstream[1] \in Producing /\ Upstream[1] \in ToSet(Upstream)
        BY <4>1, InToSet
      <4> QED BY <3>1, <4>2
    <3>3. CASE Upstream = <<>>
      <4>1. nodes = <<>> /\ sources = <<>>
        BY <3>3 DEF Upstream
      <4>2. nodes'[1] = n
        BY <1>1, <2>1, <4>1, FirstStays
      <4> QED BY <1>f, <2>1, <4>1, <4>2
    <3> QED BY <3>2, <3>3
  <2> QED BY <2>2, <2>3, <2>4 DEF AllFed
<1>6. ASSUME NEW s \in Sinks, AddSink(s)
      PROVE  AllFed'
  <2>1. Extends /\ sources' = sources /\ nodes' = nodes
    BY <1>6, GraphExtends DEF AddSink
  <2> QED BY <1>3, <2>1 DEF AllFed
<1>7. ASSUME NEW e \in ManualEdges, Connect(e[1], e[2])
      PROVE  AllFed'
  <2>1. Extends /\ sources' = sources /\ nodes' = nodes
    BY <1>7, GraphExtends DEF Connect
  <2> QED BY <1>3, <2>1 DEF AllFed
<1>8. ASSUME Execute
      PROVE  AllFed'
  BY <1>2, <1>8 DEF Execute, graphVars
<1>9. ASSUME Step
      PROVE  AllFed'
  BY <1>2, <1>9, StepGoes
<1>10. ASSUME UNCHANGED vars
      PROVE  AllFed'
  BY <1>2, <1>10 DEF vars, flowVars, graphVars
<1> QED BY <1>4, <1>5, <1>6, <1>7, <1>8, <1>9, <1>10 DEF Next

\* The inputs that a Node keeps.
Got(c) == IF c \in Aggregators THEN DOMAIN latest[c] ELSE {}

\* The call is along an edge from one of the given blocks.
Along(call, from) ==
    \E b \in from : \E k \in DOMAIN next_nodes[b] :
        next_nodes[b][k].to = call.to /\ next_nodes[b][k].id = call.id

\* The blocks fired have been executed in this round.  What they produced is on
\* its way along the edges, no two calls along one,
Distinct ==
    \A i, j \in DOMAIN calls :
        calls[i].to \in Producing /\ calls[i].to = calls[j].to /\ calls[i].id = calls[j].id => i = j

OnTheWay(fired) ==
    /\ \A i \in DOMAIN calls : calls[i].to \in Nodes => Along(calls[i], fired)
    /\ Distinct

\* or kept by an Aggregator that waits for more,
Delivered(fired) ==
    \A c \in Nodes \ fired : \A b \in fired : \A k \in DOMAIN next_nodes[b] :
        Into(b, k, c) =>
            \/ next_nodes[b][k].id \in Got(c)
            \/ \E i \in DOMAIN calls : calls[i].to = c /\ calls[i].id = next_nodes[b][k].id

KeptFrom(fired) ==
    \A c \in Nodes : \A id \in Got(c) :
        /\ \E b \in fired : \E k \in DOMAIN next_nodes[b] : Into(b, k, c) /\ next_nodes[b][k].id = id
        /\ \A i \in DOMAIN calls : ~(calls[i].to = c /\ calls[i].id = id)

Waiting == \A a \in Aggregators : Got(a) # {} => Got(a) # 0..(producer_count[a] - 1)

\* or consumed by a Node that is not executed again.
Over(fired) ==
    \A c \in Nodes \intersect fired :
        /\ Got(c) = {}
        /\ \A i \in DOMAIN calls : calls[i].to # c
        /\ \A b \in Producing : \A k \in DOMAIN next_nodes[b] : Into(b, k, c) => b \in fired

\* The Sources that have not been executed will be.
ToCome(fired) ==
    /\ \A i \in DOMAIN calls : calls[i].to \in Sources => calls[i].id = 0 /\ calls[i].to \notin fired
    /\ \A s \in ToSet(sources) : s \in fired \/ \E i \in DOMAIN calls : calls[i].to = s

Fired(fired) ==
    /\ OnTheWay(fired) /\ Delivered(fired) /\ KeptFrom(fired) /\ Waiting
    /\ Over(fired) /\ ToCome(fired)

-----------------------------------------------------------------------------
(* How a round goes on *)

\* The edges are those of blocks added, and carry the ids that Aggregators count up to.
LEMMA EdgesOfNodes ==
    ASSUME IInv
    PROVE  /\ \A b \in Producing : DOMAIN next_nodes[b] = 1..Len(next_nodes[b]) /\ Len(next_nodes[b]) \in Nat
           /\ \A a \in Aggregators, b \in Producing : \A k \in DOMAIN next_nodes[b] :
                Into(b, k, a) => next_nodes[b][k].id \in 0..(producer_count[a] - 1)
           /\ \A a \in Aggregators : \A n \in 0..(producer_count[a] - 1) :
                \E b \in Producing : \E k \in DOMAIN next_nodes[b] :
                    Into(b, k, a) /\ next_nodes[b][k].id = n
           /\ \A b \in Producing : \A k \in DOMAIN next_nodes[b] :
                Added(b) /\ next_nodes[b][k].to \in ToSet(built)
<1>1. EdgesTyped /\ AmongBuilt
  BY DEF IInv, TypeOK, FlowTypeOK, EdgesTyped
<1>2. Numbered
  BY <1>1, NumberedMeans DEF IInv
<1>3. \A b \in Producing : DOMAIN next_nodes[b] = 1..Len(next_nodes[b]) /\ Len(next_nodes[b]) \in Nat
  BY <1>1 DEF EdgesTyped
<1>4. ASSUME NEW b \in Producing, NEW k \in DOMAIN next_nodes[b]
      PROVE  Added(b) /\ next_nodes[b][k].to \in ToSet(built)
  <2>1. next_nodes[b] # <<>>
    BY <1>3
  <2> QED BY <1>1, <1>3, <2>1, CallsMade, AnysMade DEF AmongBuilt
<1> QED BY <1>2, <1>3, <1>4 DEF Numbered, IdsInRange, IdsAllGiven

\* When edges lead ahead, an edge into a Node is known by the id it carries.
LEMMA OneEdge ==
    ASSUME IInv, Ahead
    PROVE  \A c \in Nodes, b, d \in Producing : \A i \in DOMAIN next_nodes[b], j \in DOMAIN next_nodes[d] :
               Into(b, i, c) /\ Into(d, j, c) /\ (c \in Modules \/ next_nodes[b][i].id = next_nodes[d][j].id)
                   => b = d /\ i = j
<1> SUFFICES ASSUME NEW c \in Nodes, NEW b \in Producing, NEW d \in Producing,
                    NEW i \in DOMAIN next_nodes[b], NEW j \in DOMAIN next_nodes[d],
                    Into(b, i, c), Into(d, j, c), c \in Modules \/ next_nodes[b][i].id = next_nodes[d][j].id
             PROVE  b = d /\ i = j
  OBVIOUS
<1>1. CASE c \in Modules
  <2>1. <<b, i>> \in EdgesInto(c) /\ <<d, j>> \in EdgesInto(c)
    <3>1. <<b, i>> \in UNION {{x} \X DOMAIN next_nodes[x] : x \in Producing}
          /\ <<d, j>> \in UNION {{x} \X DOMAIN next_nodes[x] : x \in Producing}
      OBVIOUS
    <3> QED BY <3>1 DEF EdgesInto, Into
  <2>2. <<b, i>> = <<d, j>>
    BY <1>1, <2>1 DEF Ahead
  <2> QED BY <2>2
<1>2. CASE c \notin Modules
  <2>1. EdgesTyped
    BY DEF IInv, TypeOK, FlowTypeOK, EdgesTyped
  <2>2. Numbered
    BY <2>1, NumberedMeans DEF IInv
  <2>3. c \in Aggregators
    BY <1>2 DEF Nodes
  <2>4. i \in 1..Len(next_nodes[b]) /\ j \in 1..Len(next_nodes[d])
    BY EdgesOfNodes
  <2>5. next_nodes[b][i].id = next_nodes[d][j].id
    BY <1>2
  <2> QED BY <2>2, <2>3, <2>4, <2>5 DEF Numbered, IdsDiffer
<1> QED BY <1>1, <1>2

\* No edge leads from a block to itself.
LEMMA NoLoop ==
    ASSUME IInv, Tidy, Ahead, NEW b \in Producing
    PROVE  \A k \in DOMAIN next_nodes[b] : next_nodes[b][k].to # b
<1>1. built \in Seq(Blocks) /\ Once(built)
  BY DEF IInv, TypeOK, Tidy
<1> SUFFICES ASSUME NEW k \in DOMAIN next_nodes[b], next_nodes[b][k].to = b
             PROVE  FALSE
  OBVIOUS
<1>2. \A c : c = next_nodes[b][k].to => Before(b, c)
  BY DEF Ahead
<1>3. Before(b, b)
  BY <1>2
<1> QED BY <1>1, <1>3, AddedOnce

\* A block has produced to all its consumers.
LEMMA YieldFires ==
    ASSUME IInv, Tidy, Ahead, calls # <<>>, NEW fired \in SUBSET Producing, Fired(fired),
           UNCHANGED <<next_nodes, producer_count, sources>>,
           NEW b \in Producing, Head(calls).to = b,
           NEW out \in Anys, Replace(ConsumerCalls(b, out)),
           \A c \in Nodes : Got(c)' = IF c = b THEN {} ELSE Got(c),
           b \in Aggregators => Got(b) \union {Head(calls).id} = 0..(producer_count[b] - 1),
           NEW next, next = fired \union {b}
    PROVE  Fired(next)'
<1> DEFINE E(c) == DOMAIN next_nodes[c]
<1>1. /\ AmongBuilt /\ calls \in Seq(BuiltCalls) /\ Sources \intersect Nodes = {} /\ Nodes \subseteq Producing
      /\ Producing = Sources \union Modules \union Aggregators /\ Nodes = Modules \union Aggregators
  BY KindsAssumption DEF IInv, AmongBuilt, BuiltCalls, Producing, Nodes
<1>2. /\ DOMAIN calls = 1..Len(calls) /\ Len(calls) \in Nat /\ Len(calls) >= 1 /\ calls[1] = Head(calls)
      /\ 1 \in DOMAIN calls /\ calls[1].to = b
  BY <1>1
<1>3. PICK n : n = Len(next_nodes[b])
  OBVIOUS
<1>4. PICK new : new = ConsumerCalls(b, out)
  OBVIOUS
<1>5. /\ n \in Nat /\ new \in Seq(BuiltCalls) /\ Len(new) = n /\ DOMAIN next_nodes[b] = 1..n
      /\ \A k \in 1..n : new[k].to = next_nodes[b][k].to /\ new[k].id = next_nodes[b][k].id
  BY <1>1, <1>3, <1>4, CallsMade
<1>6. /\ Len(calls') = n + Len(calls) - 1 /\ DOMAIN calls' = 1..Len(calls')
      /\ \A k \in 1..n : calls'[k] = new[k]
      /\ \A i \in n + 1 .. Len(calls') : calls'[i] = calls[i - n + 1]
      /\ \A i \in 2..Len(calls) : calls'[i + n - 1] = calls[i]
  <2>1. calls \in Seq(BuiltCalls) /\ new \in Seq(BuiltCalls) /\ Replace(new)
    BY <1>1, <1>4, <1>5
  <2>2. /\ calls' \in Seq(BuiltCalls)
        /\ Len(calls') = Len(new) + Len(calls) - 1
        /\ \A i \in 1..Len(new) : calls'[i] = new[i]
        /\ \A i \in Len(new) + 1 .. Len(calls') : calls'[i] = calls[i - Len(new) + 1]
        /\ \A i \in 2..Len(calls) : calls'[i + Len(new) - 1] = calls[i]
    BY <2>1, CallsAfter, Zenon
  <2>3. DOMAIN calls' = 1..Len(calls')
    BY <2>2
  <2> QED BY <1>5, <2>2, <2>3
\* What there is to call after the step.
<1>7. ASSUME NEW i \in DOMAIN calls'
      PROVE  \/ /\ i \in 1..n
                /\ calls'[i].to = next_nodes[b][i].to /\ calls'[i].id = next_nodes[b][i].id
             \/ \E j \in DOMAIN calls : j # 1 /\ calls'[i] = calls[j] /\ i = j + n - 1
  <2>1. CASE i <= n
    BY <1>5, <1>6, <2>1
  <2>2. CASE i > n
    <3>1. i - n + 1 \in DOMAIN calls /\ i - n + 1 # 1 /\ i \in n + 1 .. Len(calls') /\ i = (i - n + 1) + n - 1
      BY <1>2, <1>5, <1>6, <2>2
    <3> QED BY <1>6, <3>1
  <2> QED BY <1>5, <1>6, <2>1, <2>2
<1>8. ASSUME NEW j \in DOMAIN calls, j # 1
      PROVE  \E i \in DOMAIN calls' : calls'[i] = calls[j]
  <2>1. j \in 2..Len(calls) /\ j + n - 1 \in DOMAIN calls'
    BY <1>2, <1>5, <1>6, <1>8
  <2> QED BY <1>6, <2>1
<1>9. ASSUME NEW k \in DOMAIN next_nodes[b]
      PROVE  \E i \in DOMAIN calls' : calls'[i].to = next_nodes[b][k].to /\ calls'[i].id = next_nodes[b][k].id
  <2>1. k \in 1..n /\ k \in DOMAIN calls'
    BY <1>2, <1>5, <1>6
  <2> QED BY <1>5, <1>6, <2>1
<1>10. \A i \in DOMAIN calls : calls[i] \in BuiltCalls
  BY <1>1
\* The block has not been executed before.
<1>11. b \notin fired
  <2>1. b \in Sources => b \notin fired
    BY <1>2 DEF Fired, ToCome
  <2>2. b \in Nodes => b \notin fired
    BY <1>2 DEF Fired, Over
  <2> QED BY <1>1, <2>1, <2>2
<1>12. \A k \in DOMAIN next_nodes[b] : next_nodes[b][k].to \notin Sources /\ next_nodes[b][k].to # b
  BY NoLoop DEF Ahead
<1>13. fired \subseteq Producing /\ fired \subseteq next /\ next \subseteq Producing /\ b \in next
  OBVIOUS
\* A call of b other than the first is none.
<1>14. ASSUME NEW j \in DOMAIN calls, j # 1
       PROVE  calls[j].to # b
  <2> SUFFICES ASSUME calls[j].to = b PROVE FALSE
    OBVIOUS
  <2>1. calls[j].id # calls[1].id
    BY <1>2, <1>14 DEF Fired, OnTheWay, Distinct
  <2>2. CASE b \in Sources
    BY <1>2, <2>1, <2>2 DEF Fired, ToCome
  <2>3. CASE b \in Nodes
    <3>1. PICK d \in fired : \E k \in DOMAIN next_nodes[d] :
                next_nodes[d][k].to = calls[1].to /\ next_nodes[d][k].id = calls[1].id
      BY <1>2, <2>3 DEF Fired, OnTheWay, Along
    <3>2. PICK k \in DOMAIN next_nodes[d] : Into(d, k, b) /\ next_nodes[d][k].id = calls[1].id
      BY <1>2, <3>1 DEF Into
    <3>3. PICK e \in fired : \E l \in DOMAIN next_nodes[e] :
                next_nodes[e][l].to = calls[j].to /\ next_nodes[e][l].id = calls[j].id
      BY <2>3 DEF Fired, OnTheWay, Along
    <3>4. PICK l \in DOMAIN next_nodes[e] : Into(e, l, b) /\ next_nodes[e][l].id = calls[j].id
      BY <3>3 DEF Into
    <3>5. CASE b \in Modules
      BY <1>13, <2>1, <2>3, <3>2, <3>4, <3>5, OneEdge
    <3>6. CASE b \in Aggregators
      <4>1. calls[j].id \in 0..(producer_count[b] - 1)
        BY <1>13, <3>4, <3>6, EdgesOfNodes
      <4>2. calls[j].id \in Got(b)
        BY <1>2, <2>1, <3>6, <4>1
      <4> QED BY <2>3, <4>2 DEF Fired, KeptFrom
    <3> QED BY <1>1, <2>3, <3>5, <3>6
  <2> QED BY <1>1, <2>2, <2>3
\* All the producers of b have been executed.
<1>15. ASSUME b \in Nodes, NEW d \in Producing, NEW k \in DOMAIN next_nodes[d], Into(d, k, b)
       PROVE  d \in fired
  <2>1. PICK e \in fired : \E l \in DOMAIN next_nodes[e] :
              next_nodes[e][l].to = calls[1].to /\ next_nodes[e][l].id = calls[1].id
    BY <1>2, <1>15 DEF Fired, OnTheWay, Along
  <2>2. PICK l \in DOMAIN next_nodes[e] : Into(e, l, b) /\ next_nodes[e][l].id = calls[1].id
    BY <1>2, <2>1 DEF Into
  <2>3. CASE b \in Modules
    BY <1>13, <1>15, <2>2, <2>3, OneEdge
  <2>4. CASE b \in Aggregators
    <3>1. next_nodes[d][k].id \in 0..(producer_count[b] - 1)
      BY <1>15, <2>4, EdgesOfNodes
    <3>2. CASE next_nodes[d][k].id = calls[1].id
      BY <1>13, <1>15, <2>2, <3>2, OneEdge
    <3>3. CASE next_nodes[d][k].id \in Got(b)
      <4>1. PICK f \in fired : \E m \in DOMAIN next_nodes[f] :
                  Into(f, m, b) /\ next_nodes[f][m].id = next_nodes[d][k].id
        BY <1>15, <3>3 DEF Fired, KeptFrom
      <4> QED BY <1>13, <1>15, <4>1, OneEdge
    <3> QED BY <1>2, <2>4, <3>1, <3>2, <3>3
  <2> QED BY <1>1, <1>15, <2>3, <2>4
\* The calls of consumers of b are new.
<1>16. ASSUME NEW k \in DOMAIN next_nodes[b], NEW j \in DOMAIN calls,
              next_nodes[b][k].to \in Producing,
              calls[j].to = next_nodes[b][k].to, calls[j].id = next_nodes[b][k].id
       PROVE  FALSE
  <2>1. calls[j].to \in Nodes
    BY <1>1, <1>12, <1>16
  <2>2. PICK e \in fired : \E l \in DOMAIN next_nodes[e] :
              next_nodes[e][l].to = calls[j].to /\ next_nodes[e][l].id = calls[j].id
    BY <2>1 DEF Fired, OnTheWay, Along
  <2>3. e = b
    BY <1>13, <1>16, <2>1, <2>2, OneEdge DEF Into
  <2> QED BY <1>11, <2>3
<1>17. \A d \in Producing : \A k : \A c : Into(d, k, c)' <=> Into(d, k, c)
  BY DEF Into
<1>18. OnTheWay(next)'
  <2>1. ASSUME NEW i \in DOMAIN calls', calls'[i].to \in Nodes
        PROVE  \E d \in next : \E k \in DOMAIN next_nodes'[d] :
                   next_nodes'[d][k].to = calls'[i].to /\ next_nodes'[d][k].id = calls'[i].id
    <3>1. CASE /\ i \in 1..n
               /\ calls'[i].to = next_nodes[b][i].to /\ calls'[i].id = next_nodes[b][i].id
      BY <1>5, <1>13, <3>1
    <3>2. ASSUME NEW j \in DOMAIN calls, calls'[i] = calls[j]
          PROVE  \E d \in fired : \E k \in DOMAIN next_nodes[d] :
                     next_nodes[d][k].to = calls'[i].to /\ next_nodes[d][k].id = calls'[i].id
      BY <2>1, <3>2 DEF Fired, OnTheWay, Along
    <3> QED BY <1>7, <1>13, <3>1, <3>2
  <2>2. ASSUME NEW i \in DOMAIN calls', NEW j \in DOMAIN calls', calls'[i].to \in Producing,
               calls'[i].to = calls'[j].to, calls'[i].id = calls'[j].id
        PROVE  i = j
    <3> DEFINE New(x) == x \in 1..n /\ calls'[x].to = next_nodes[b][x].to /\ calls'[x].id = next_nodes[b][x].id
               Old(x) == \E y \in DOMAIN calls : y # 1 /\ calls'[x] = calls[y] /\ x = y + n - 1
    <3>1. (New(i) \/ Old(i)) /\ (New(j) \/ Old(j))
      BY <1>7
    <3>2. CASE New(i) /\ New(j)
      <4>1. i \in DOMAIN next_nodes[b] /\ j \in DOMAIN next_nodes[b] /\ next_nodes[b][i].to \in Nodes
        BY <1>1, <1>5, <1>12, <2>2, <3>2
      <4>2. PICK c \in Nodes : c = next_nodes[b][i].to
        BY <4>1
      <4>3. Into(b, i, c) /\ Into(b, j, c) /\ next_nodes[b][i].id = next_nodes[b][j].id
        BY <2>2, <3>2, <4>2 DEF Into
      <4> QED BY <4>1, <4>2, <4>3, OneEdge
    <3>3. CASE New(i) /\ Old(j)
      BY <1>5, <1>16, <2>2, <3>3
    <3>4. CASE Old(i) /\ New(j)
      BY <1>5, <1>16, <2>2, <3>4
    <3>5. CASE Old(i) /\ Old(j)
      <4>1. PICK x \in DOMAIN calls : calls'[i] = calls[x] /\ i = x + n - 1
        BY <3>5
      <4>2. PICK y \in DOMAIN calls : calls'[j] = calls[y] /\ j = y + n - 1
        BY <3>5
      <4>3. x = y
        BY <2>2, <4>1, <4>2 DEF Fired, OnTheWay, Distinct
      <4> QED BY <4>1, <4>2, <4>3
    <3> HIDE DEF New, Old
    <3> QED BY <3>1, <3>2, <3>3, <3>4, <3>5
  <2> QED BY <2>1, <2>2 DEF OnTheWay, Distinct, Along
<1>19. Delivered(next)'
  <2> SUFFICES ASSUME NEW c \in Nodes \ next, NEW d \in next, NEW k \in DOMAIN next_nodes[d], Into(d, k, c)
               PROVE  \/ next_nodes[d][k].id \in Got(c)
                      \/ \E i \in DOMAIN calls' : calls'[i].to = c /\ calls'[i].id = next_nodes[d][k].id
    <3>1. \A c \in Nodes \ next : Got(c)' = Got(c)
      BY <1>13
    <3> QED BY <3>1 DEF Delivered, Into
  <2>1. CASE d = b
    BY <1>9, <2>1 DEF Into
  <2>2. CASE d # b
    <3>1. d \in fired /\ c \in Nodes \ fired
      BY <1>13, <2>2
    <3>2. CASE \E i \in DOMAIN calls : calls[i].to = c /\ calls[i].id = next_nodes[d][k].id
      <4>1. PICK i \in DOMAIN calls : calls[i].to = c /\ calls[i].id = next_nodes[d][k].id
        BY <3>2
      <4>2. i # 1
        BY <1>2, <1>13, <4>1
      <4> QED BY <1>8, <4>1, <4>2
    <3> QED BY <3>1, <3>2 DEF Fired, Delivered
  <2> QED BY <2>1, <2>2
<1>20. KeptFrom(next)'
  <2>1. ASSUME NEW c \in Nodes, c # b, NEW id \in Got(c)
        PROVE  /\ \E d \in next : \E k \in DOMAIN next_nodes[d] : Into(d, k, c) /\ next_nodes[d][k].id = id
               /\ \A i \in DOMAIN calls' : ~(calls'[i].to = c /\ calls'[i].id = id)
    <3>1. PICK d \in fired : \E k \in DOMAIN next_nodes[d] : Into(d, k, c) /\ next_nodes[d][k].id = id
      BY <2>1 DEF Fired, KeptFrom
    <3>2. ASSUME NEW i \in DOMAIN calls', calls'[i].to = c, calls'[i].id = id
          PROVE  FALSE
      <4>1. CASE /\ i \in 1..n
                 /\ calls'[i].to = next_nodes[b][i].to /\ calls'[i].id = next_nodes[b][i].id
        <5>1. i \in DOMAIN next_nodes[b] /\ Into(b, i, c) /\ next_nodes[b][i].id = id
          BY <1>5, <3>2, <4>1 DEF Into
        <5>2. d = b
          BY <1>13, <2>1, <3>1, <5>1, OneEdge
        <5> QED BY <1>11, <5>2
      <4>2. ASSUME NEW j \in DOMAIN calls, calls'[i] = calls[j]
            PROVE  FALSE
        BY <2>1, <3>2, <4>2 DEF Fired, KeptFrom
      <4> QED BY <1>7, <4>1, <4>2
    <3> QED BY <1>13, <3>1, <3>2
  <2>2. \A c \in Nodes : \A id \in Got(c)' : c # b /\ id \in Got(c)
    OBVIOUS
  <2> QED BY <1>17, <2>1, <2>2 DEF KeptFrom, Into
<1>21. Waiting'
  <2>1. \A a \in Aggregators : Got(a)' = {} \/ Got(a)' = Got(a)
    BY <1>1
  <2> QED BY <2>1 DEF Fired, Waiting
<1>22. Over(next)'
  <2> SUFFICES ASSUME NEW c \in Nodes \intersect next
               PROVE  /\ Got(c)' = {}
                      /\ \A i \in DOMAIN calls' : calls'[i].to # c
                      /\ \A d \in Producing : \A k \in DOMAIN next_nodes[d] : Into(d, k, c) => d \in next
    BY DEF Over, Into
  <2>1. CASE c = b
    <3>1. \A i \in DOMAIN calls' : calls'[i].to # c
      BY <1>5, <1>7, <1>12, <1>14, <2>1
    <3> QED BY <1>13, <1>15, <2>1, <3>1
  <2>2. CASE c # b
    <3>1. c \in fired /\ c \in Nodes
      BY <1>13, <2>2
    <3>2. /\ Got(c) = {}
          /\ \A i \in DOMAIN calls : calls[i].to # c
          /\ \A d \in Producing : \A k \in DOMAIN next_nodes[d] : Into(d, k, c) => d \in fired
      BY <3>1 DEF Fired, Over
    <3>3. \A k \in DOMAIN next_nodes[b] : next_nodes[b][k].to # c
      BY <1>11, <3>2 DEF Into
    <3>4. \A i \in DOMAIN calls' : calls'[i].to # c
      BY <1>5, <1>7, <3>2, <3>3
    <3> QED BY <1>13, <2>2, <3>1, <3>2, <3>4
  <2> QED BY <2>1, <2>2
<1>23. ToCome(next)'
  <2>1. ASSUME NEW i \in DOMAIN calls', calls'[i].to \in Sources
        PROVE  calls'[i].id = 0 /\ calls'[i].to \notin next
    <3>1. PICK j \in DOMAIN calls : j # 1 /\ calls'[i] = calls[j]
      BY <1>5, <1>7, <1>12, <2>1
    <3>2. calls[j].id = 0 /\ calls[j].to \notin fired
      BY <2>1, <3>1 DEF Fired, ToCome
    <3> QED BY <1>14, <3>1, <3>2
  <2>2. ASSUME NEW s \in ToSet(sources)
        PROVE  s \in next \/ \E i \in DOMAIN calls' : calls'[i].to = s
    <3>1. s \in fired \/ \E j \in DOMAIN calls : calls[j].to = s
      BY DEF Fired, ToCome
    <3>2. ASSUME NEW j \in DOMAIN calls, calls[j].to = s
          PROVE  s \in next \/ \E i \in DOMAIN calls' : calls'[i].to = s
      <4>1. CASE j = 1
        BY <1>2, <1>13, <3>2, <4>1
      <4>2. CASE j # 1
        BY <1>8, <3>2, <4>2
      <4> QED BY <4>1, <4>2
    <3> QED BY <1>13, <3>1, <3>2
  <2> QED BY <2>1, <2>2 DEF ToCome
<1> QED BY <1>18, <1>19, <1>20, <1>21, <1>22, <1>23 DEF Fired

\* A call is over, and hands nothing on.
LEMMA CallOver ==
    ASSUME NEW S, calls \in Seq(S), calls # <<>>, Replace(<<>>)
    PROVE  /\ DOMAIN calls = 1..Len(calls) /\ Len(calls) \in Nat /\ 1 \in DOMAIN calls /\ Head(calls) = calls[1]
           /\ DOMAIN calls' = 1..Len(calls) - 1
           /\ \A i \in DOMAIN calls' : i + 1 \in DOMAIN calls /\ i + 1 # 1 /\ calls'[i] = calls[i + 1]
           /\ \A j \in DOMAIN calls : j # 1 => \E i \in DOMAIN calls' : calls'[i] = calls[j]
           /\ status' = IF calls' = <<>> THEN "idle" ELSE "running"
<1>1. <<>> \in Seq(S) /\ Len(<<>>) = 0
  OBVIOUS
<1>2. PICK new \in Seq(S) : new = <<>> /\ Len(new) = 0
  BY <1>1
<1>3. Replace(new)
  BY <1>2
<1>4. /\ calls' \in Seq(S) /\ Len(calls) \in Nat /\ Len(calls) >= 1
      /\ Len(calls') = Len(new) + Len(calls) - 1
      /\ \A i \in Len(new) + 1 .. Len(calls') : calls'[i] = calls[i - Len(new) + 1]
      /\ status' = IF calls' = <<>> THEN "idle" ELSE "running"
  BY <1>3, CallsAfter, Zenon
<1>5. Len(calls') = Len(calls) - 1 /\ DOMAIN calls' = 1..Len(calls) - 1 /\ DOMAIN calls = 1..Len(calls)
  BY <1>2, <1>4
<1>6. ASSUME NEW i \in DOMAIN calls'
      PROVE  i + 1 \in DOMAIN calls /\ i + 1 # 1 /\ calls'[i] = calls[i + 1]
  <2>1. i \in Len(new) + 1 .. Len(calls') /\ i - Len(new) + 1 = i + 1
    BY <1>2, <1>4, <1>5
  <2> QED BY <1>4, <1>5, <2>1
<1>7. ASSUME NEW j \in DOMAIN calls, j # 1
      PROVE  \E i \in DOMAIN calls' : calls'[i] = calls[j]
  <2>0. PICK n \in Nat : n = Len(calls)
    BY <1>4
  <2>1. j \in 1..n /\ DOMAIN calls' = 1..n - 1
    BY <1>5, <2>0
  <2>2. j - 1 \in 1..n - 1 /\ (j - 1) + 1 = j
    BY <1>7, <2>1
  <2> QED BY <1>6, <2>1, <2>2
<1>8. 1 \in DOMAIN calls /\ Head(calls) = calls[1]
  BY <1>4, <1>5
<1> QED BY <1>4, <1>5, <1>6, <1>7, <1>8

\* A call of a Sink is over, or an input is kept.
LEMMA PassFires ==
    ASSUME IInv, calls # <<>>, NEW fired \in SUBSET Producing, Fired(fired),
           UNCHANGED <<next_nodes, producer_count, sources>>, Replace(<<>>),
           Head(calls).to \notin Sources,
           \A c \in Nodes : Got(c)' = IF c = Head(calls).to THEN Got(c) \union {Head(calls).id} ELSE Got(c),
           \A a \in Aggregators : a = Head(calls).to => Got(a)' # 0..(producer_count[a] - 1)
    PROVE  Fired(fired)'
<1>1. calls \in Seq(BuiltCalls) /\ Nodes \subseteq Producing /\ Aggregators \subseteq Nodes
  BY DEF IInv, AmongBuilt, BuiltCalls, Producing, Nodes
<1>2. /\ 1 \in DOMAIN calls /\ Head(calls) = calls[1]
      /\ \A i \in DOMAIN calls' : i + 1 \in DOMAIN calls /\ i + 1 # 1 /\ calls'[i] = calls[i + 1]
      /\ \A j \in DOMAIN calls : j # 1 => \E i \in DOMAIN calls' : calls'[i] = calls[j]
      /\ DOMAIN calls' \subseteq Nat
  <2>1. DOMAIN calls' = 1..Len(calls) - 1
    BY <1>1, CallOver
  <2>2. DOMAIN calls' \subseteq Nat
    BY <2>1
  <2> QED BY <1>1, <2>2, CallOver
<1>3. PICK first : first = calls[1]
  OBVIOUS
<1>4. OnTheWay(fired)'
  <2>1. ASSUME NEW i \in DOMAIN calls', calls'[i].to \in Nodes
        PROVE  Along(calls[i + 1], fired) /\ calls'[i] = calls[i + 1]
    BY <1>2, <2>1 DEF Fired, OnTheWay
  <2>2. ASSUME NEW i \in DOMAIN calls', calls'[i].to \in Nodes
        PROVE  \E b \in fired : \E k \in DOMAIN next_nodes'[b] :
                   next_nodes'[b][k].to = calls'[i].to /\ next_nodes'[b][k].id = calls'[i].id
    BY <2>1, <2>2 DEF Along
  <2>3. ASSUME NEW i \in DOMAIN calls', NEW j \in DOMAIN calls', calls'[i].to \in Producing,
               calls'[i].to = calls'[j].to, calls'[i].id = calls'[j].id
        PROVE  i = j
    <3>1. i + 1 = j + 1
      BY <1>2, <2>3, SMTT(30) DEF Fired, OnTheWay, Distinct
    <3> QED BY <1>2, <3>1
  <2> QED BY <2>2, <2>3 DEF OnTheWay, Distinct, Along
<1>5. Delivered(fired)'
  <2> SUFFICES ASSUME NEW c \in Nodes \ fired, NEW b \in fired, NEW k \in DOMAIN next_nodes[b], Into(b, k, c)
               PROVE  \/ next_nodes[b][k].id \in Got(c)'
                      \/ \E i \in DOMAIN calls' : calls'[i].to = c /\ calls'[i].id = next_nodes[b][k].id
    BY DEF Delivered, Into
  <2>1. CASE next_nodes[b][k].id \in Got(c)
    BY <2>1
  <2>2. ASSUME NEW i \in DOMAIN calls, calls[i].to = c /\ calls[i].id = next_nodes[b][k].id
        PROVE  \/ next_nodes[b][k].id \in Got(c)'
               \/ \E j \in DOMAIN calls' : calls'[j].to = c /\ calls'[j].id = next_nodes[b][k].id
    BY <1>2, <2>2
  <2> QED BY <2>1, <2>2 DEF Fired, Delivered
<1>6. KeptFrom(fired)'
  <2> SUFFICES ASSUME NEW c \in Nodes, NEW id \in Got(c)'
               PROVE  /\ \E b \in fired : \E k \in DOMAIN next_nodes[b] : Into(b, k, c) /\ next_nodes[b][k].id = id
                      /\ \A i \in DOMAIN calls' : ~(calls'[i].to = c /\ calls'[i].id = id)
    BY DEF KeptFrom, Into
  <2>1. CASE id \in Got(c)
    BY <1>2, <2>1 DEF Fired, KeptFrom
  <2>2. CASE c = calls[1].to /\ id = calls[1].id
    <3>1. \E b \in fired : \E k \in DOMAIN next_nodes[b] : Into(b, k, c) /\ next_nodes[b][k].id = id
      BY <1>2, <2>2 DEF Fired, OnTheWay, Along, Into
    <3>2. \A i \in DOMAIN calls : calls[i].to = c /\ calls[i].id = id => i = 1
      BY <1>1, <1>2, <2>2 DEF Fired, OnTheWay, Distinct
    <3> QED BY <1>2, <3>1, <3>2
  <2> QED BY <1>2, <2>1, <2>2
<1>7. Waiting'
  BY <1>1 DEF Fired, Waiting
<1>8. Over(fired)'
  <2> SUFFICES ASSUME NEW c \in Nodes \intersect fired
               PROVE  /\ Got(c)' = {}
                      /\ \A i \in DOMAIN calls' : calls'[i].to # c
                      /\ \A b \in Producing : \A k \in DOMAIN next_nodes[b] : Into(b, k, c) => b \in fired
    BY DEF Over, Into
  <2>1. /\ Got(c) = {}
        /\ \A i \in DOMAIN calls : calls[i].to # c
        /\ \A b \in Producing : \A k \in DOMAIN next_nodes[b] : Into(b, k, c) => b \in fired
    BY DEF Fired, Over
  <2> QED BY <1>2, <2>1
<1>9. ToCome(fired)'
  <2>1. \A i \in DOMAIN calls' : calls'[i].to \in Sources => calls'[i].id = 0 /\ calls'[i].to \notin fired
    BY <1>2 DEF Fired, ToCome
  <2>2. \A s \in ToSet(sources) : s \in Sources
    BY DEF IInv, Listed
  <2>3. ASSUME NEW s \in ToSet(sources)
        PROVE  s \in fired \/ \E i \in DOMAIN calls' : calls'[i].to = s
    BY <1>2, <2>2 DEF Fired, ToCome
  <2> QED BY <2>1, <2>3 DEF ToCome
<1> QED BY <1>4, <1>5, <1>6, <1>7, <1>8, <1>9 DEF Fired

NothingKept == \A a \in Aggregators : DOMAIN latest[a] = {}

SomeFired == \E fired \in SUBSET Producing : Fired(fired)

\* A set of naturals that is not empty has a least element.
LEMMA Least ==
    ASSUME NEW T, T \subseteq Nat, T # {}
    PROVE  \E p \in T : \A q \in T : p <= q
<1>1. PICK p \in T : \A q \in T : ~(<<q, p>> \in OpToRel(<, Nat))
  BY WFMin, NatLessThanWellFounded
<1>2. \A q \in T : ~(<<q, p>> \in OpToRel(<, Nat)) => ~(q < p)
  BY DEF OpToRel
<1>3. \A q \in T : ~(q < p)
  BY <1>1, <1>2, Zenon
<1>4. \A q \in T : p <= q
  BY <1>3
<1> QED BY <1>4

\* When no call is left, every Aggregator has got its round, because the first
\* Node that has not been executed would have all its inputs.
LEMMA AllDone ==
    ASSUME IInv, Tidy, Ahead, AllFed, SomeFired, calls = <<>>, sources # <<>>
    PROVE  NothingKept
<1>1. PICK fired \in SUBSET Producing : Fired(fired)
  BY DEF SomeFired
<1>2. /\ built \in Seq(Blocks) /\ Once(built) /\ Nodes = Modules \union Aggregators
      /\ ToSet(nodes) = ToSet(built) \intersect Nodes /\ ToSet(sources) = ToSet(built) \intersect Sources
      /\ Producing = Sources \union Nodes /\ sources \in Seq(Sources) /\ nodes \in Seq(Nodes)
      /\ DOMAIN calls = {} /\ Modules \intersect Aggregators = {}
  BY KindsAssumption DEF IInv, TypeOK, Tidy, Listed, Producing, Nodes
<1> SUFFICES ASSUME NEW a \in Aggregators, DOMAIN latest[a] # {}
             PROVE  FALSE
  BY DEF NothingKept
<1>3. a \in Nodes /\ Got(a) # {}
  BY <1>2 DEF Got
<1>4. a \in ToSet(built) /\ a \notin fired
  <2>1. a \notin fired
    BY <1>1, <1>3 DEF Fired, Over
  <2>2. PICK b \in fired : \E k \in DOMAIN next_nodes[b] : Into(b, k, a)
    BY <1>1, <1>3 DEF Fired, KeptFrom
  <2> QED BY <2>1, <2>2, EdgesOfNodes DEF Into
<1> DEFINE T == {p \in DOMAIN built : built[p] \in Nodes \ fired}
<1>5. T \subseteq Nat /\ T # {}
  <2>1. DOMAIN built = 1..Len(built) /\ Len(built) \in Nat
    BY <1>2
  <2>2. \E p \in DOMAIN built : built[p] = a
    BY <1>4 DEF ToSet
  <2> QED BY <1>3, <1>4, <2>1, <2>2
<1>6. PICK p \in T : \A q \in T : p <= q
  BY <1>5, Least
<1>7. PICK c : c = built[p]
  OBVIOUS
<1>8. c \in Nodes \ fired /\ c \in ToSet(built) /\ c \in ToSet(nodes)
  BY <1>2, <1>6, <1>7 DEF ToSet
\* All its producers have been executed.
<1>9. ASSUME NEW d \in Producing, NEW k \in DOMAIN next_nodes[d], Into(d, k, c)
      PROVE  d \in fired
  <2>1. Before(d, c) /\ Added(d)
    BY <1>9, EdgesOfNodes DEF Ahead, Into
  <2>2. PICK i, j \in DOMAIN built : i < j /\ built[i] = d /\ built[j] = c
    BY <2>1 DEF Before
  <2>3. j = p
    BY <1>2, <1>6, <1>7, <2>2 DEF Once
  <2>4. ~(p <= i)
    BY <1>5, <1>6, <1>2, <2>2, <2>3
  <2>5. i \notin T
    BY <1>6, <2>4
  <2>6. CASE d \in Nodes
    BY <2>2, <2>5, <2>6
  <2>7. CASE d \in Sources
    BY <1>1, <1>2, <2>1, <2>7 DEF Fired, ToCome, Added
  <2> QED BY <1>2, <2>6, <2>7
<1>10. ASSUME NEW d \in Producing, NEW k \in DOMAIN next_nodes[d], Into(d, k, c)
       PROVE  next_nodes[d][k].id \in Got(c)
  BY <1>1, <1>2, <1>8, <1>9, <1>10 DEF Fired, Delivered
\* It has one.
<1>11. \E d \in Producing : \E k \in DOMAIN next_nodes[d] : Into(d, k, c)
  <2> SUFFICES ASSUME nodes[1] = c, sources # <<>> => Before(nodes[1], sources[1])
               PROVE  FALSE
    BY <1>8 DEF AllFed, Fed
  <2>1. nodes # <<>>
    BY <1>2, <1>8, InToSet
  <2>2. PICK s, n : s = sources[1] /\ n = nodes[1]
    OBVIOUS
  <2>3. Before(s, n) /\ Before(n, s)
    BY <2>1, <2>2 DEF Ahead
  <2> QED BY <1>2, <2>3, AddedOnce
<1>12. c \in Aggregators
  BY <1>2, <1>8, <1>10, <1>11 DEF Got
<1>13. Got(c) = 0..(producer_count[c] - 1)
  <2>1. ASSUME NEW id \in Got(c)
        PROVE  id \in 0..(producer_count[c] - 1)
    <3>1. PICK b \in fired : \E k \in DOMAIN next_nodes[b] : Into(b, k, c) /\ next_nodes[b][k].id = id
      BY <1>1, <1>8 DEF Fired, KeptFrom
    <3>2. b \in Producing
      OBVIOUS
    <3> QED BY <1>12, <3>1, <3>2, EdgesOfNodes
  <2>2. ASSUME NEW id \in 0..(producer_count[c] - 1)
        PROVE  id \in Got(c)
    BY <1>10, <1>12, EdgesOfNodes
  <2> QED BY <2>1, <2>2
<1>14. Got(c) # {}
  BY <1>10, <1>11
<1> QED BY <1>1, <1>12, <1>13, <1>14 DEF Fired, Waiting

-----------------------------------------------------------------------------
(* The steps by which a round goes as it should *)

Collected(a) == UNION {WithInput(a)[id] : id \in DOMAIN WithInput(a)}

\* A block hands a value to all its consumers.
Yields(b, data) ==
    /\ Head1(b) /\ received' = received
    /\ Replace(ConsumerCalls(b, Value(data)))
    /\ \/ b \in Sources /\ data = {<<b, round>>} /\ latest' = latest
       \/ b \in Modules /\ In.type = "value" /\ data = In.data /\ latest' = latest
       \/ /\ b \in Aggregators /\ In.type = "value" /\ data = Collected(b) /\ Complete(b)
          /\ latest' = [latest EXCEPT ![b] = Empty]

\* A Sink passes over what it gets, or processes it.
Takes(s) ==
    /\ Head1(s) /\ Replace(<<>>) /\ latest' = latest
    /\ \/ received' = received
       \/ In.type = "value" /\ received' = [received EXCEPT ![s] = Append(@, In.data)]

Lost == calls' = <<>> /\ status' = "undefined" /\ received' = received

Clean ==
    \/ Lost
    \/ \E b \in Producing : \E data \in SUBSET Tokens : Yields(b, data)
    \/ \E a \in Aggregators : AggregatorDrops(a)
    \/ \E a \in Aggregators : AggregatorKeeps(a)
    \/ \E s \in Sinks : Takes(s)

\* A vector that is handed out to its end is handed out.
LEMMA SubSeqAll ==
    ASSUME NEW S, NEW seq \in Seq(S)
    PROVE  SubSeq(seq, 1, Len(seq)) = seq
OBVIOUS

\* A result is handed to all, or lost.
LEMMA ResultYields ==
    ASSUME IInv, lapse' = FALSE, NEW b \in Producing, NEW data \in SUBSET Tokens, ProduceResult(b, data)
    PROVE  /\ lapse = FALSE
           /\ Replace(ConsumerCalls(b, Value(data))) \/ (calls' = <<>> /\ status' = "undefined")
<1>1. /\ AmongBuilt /\ lapse \in BOOLEAN /\ Value(data) \in Anys
  BY AnysMade DEF IInv, TypeOK, FlowTypeOK
<1>2. /\ ConsumerCalls(b, Value(data)) \in Seq(BuiltCalls)
      /\ Len(ConsumerCalls(b, Value(data))) = Len(next_nodes[b]) /\ Len(next_nodes[b]) \in Nat
  BY <1>1, CallsMade
<1>3. CASE b \notin RoundRobin /\ (Fanout(b, Value(data)) \/ FanoutToNobody(b)) /\ UNCHANGED lapse
  BY <1>3 DEF Fanout, FanoutToNobody
<1>4. ASSUME NEW n \in 0..MaxBatch, n <= Len(next_nodes[b]), Distribute(b, Value(data), n),
             lapse' = (lapse \/ n < Len(next_nodes[b]))
      PROVE  lapse = FALSE /\ Replace(ConsumerCalls(b, Value(data)))
  <2>1. lapse = FALSE /\ ~(n < Len(next_nodes[b]))
    BY <1>1, <1>4, Zenon
  <2>2. n \in Nat
    BY BoundsAssumption
  <2>3. n = Len(next_nodes[b])
    BY <1>2, <1>4, <2>1, <2>2
  <2>4. SubSeq(ConsumerCalls(b, Value(data)), 1, n) = ConsumerCalls(b, Value(data))
    BY <1>2, <2>3, SubSeqAll
  <2> QED BY <1>4, <2>1, <2>4 DEF Distribute
<1>5. ~Throw
  BY DEF Throw
<1> QED BY <1>3, <1>4, <1>5 DEF ProduceResult

\* Nothing is no result.
LEMMA NothingLapses ==
    ASSUME lapse' = FALSE
    PROVE  ~Throw /\ \A b : ~ProduceNothing(b)
BY DEF Throw, ProduceNothing

\* A step without a lapse is one of five.
LEMMA StepClean ==
    ASSUME IInv, Step, lapse' = FALSE
    PROVE  lapse = FALSE /\ Clean
<1>1. TypeOK /\ ExecuteFirst
  BY DEF IInv, Step
<1>2. ~Throw /\ \A b : ~ProduceNothing(b)
  BY NothingLapses
<1>3. ASSUME NEW b \in Sources, ExecuteSource(b)
      PROVE  lapse = FALSE /\ Clean
  <2>1. b \in Producing /\ Head1(b) /\ received' = received /\ latest' = latest
        /\ ProduceResult(b, {<<b, round>>})
    BY <1>2, <1>3 DEF ExecuteSource, Producing
  <2>2. round \in 1..MaxRounds
    BY <1>1, <2>1, BoundsAssumption DEF IInv, TypeOK, FlowTypeOK, Head1
  <2>3. {<<b, round>>} \in SUBSET Tokens
    BY <2>2 DEF Tokens
  <2>4. lapse = FALSE /\ (Lost \/ Yields(b, {<<b, round>>}))
    BY <2>1, <2>3, ResultYields DEF Lost, Yields
  <2> QED BY <2>1, <2>3, <2>4 DEF Clean
<1>4. ASSUME NEW b \in Modules, ExecuteModule(b)
      PROVE  lapse = FALSE /\ Clean
  <2>1. b \in Producing /\ Head1(b) /\ received' = received /\ latest' = latest
        /\ In.type = "value" /\ ProduceResult(b, In.data)
    BY <1>2, <1>4 DEF ExecuteModule, Producing, Nodes
  <2>2. In.data \in SUBSET Tokens
    BY <1>1, <2>1, InTyped DEF Head1
  <2>3. lapse = FALSE /\ (Lost \/ Yields(b, In.data))
    BY <1>4, <2>1, <2>2, ResultYields DEF Lost, Yields
  <2> QED BY <2>1, <2>2, <2>3 DEF Clean
<1>5. ASSUME NEW a \in Aggregators, ExecuteAggregator(a)
      PROVE  lapse = FALSE /\ Clean
  <2>1. CASE AggregatorDrops(a)
    BY <2>1 DEF AggregatorDrops, Clean
  <2>2. CASE AggregatorBadCast(a)
    BY <1>2, <2>2 DEF AggregatorBadCast
  <2>3. CASE AggregatorKeeps(a)
    BY <2>3 DEF AggregatorKeeps, Clean
  <2>4. CASE AggregatorCollects(a)
    <3>1. /\ a \in Producing /\ Head1(a) /\ received' = received /\ In.type = "value" /\ Complete(a)
          /\ latest' = [latest EXCEPT ![a] = Empty] /\ ProduceResult(a, Collected(a))
      BY <1>2, <2>4 DEF AggregatorCollects, Producing, Nodes, Collected
    <3>2. Collected(a) \in SUBSET Tokens
      BY <1>1, <3>1, WithInputTyped DEF Head1, Collected
    <3>3. lapse = FALSE /\ (Lost \/ Yields(a, Collected(a)))
      BY <1>5, <3>1, <3>2, ResultYields DEF Lost, Yields
    <3> QED BY <3>1, <3>2, <3>3 DEF Clean
  <2> QED BY <1>5, <2>1, <2>2, <2>3, <2>4 DEF ExecuteAggregator
<1>6. ASSUME NEW s \in Sinks, ExecuteSink(s)
      PROVE  lapse = FALSE /\ Clean
  <2>1. lapse = FALSE /\ Takes(s)
    BY <1>2, <1>6 DEF ExecuteSink, Takes
  <2> QED BY <2>1 DEF Clean
<1> QED BY <1>1, <1>3, <1>4, <1>5, <1>6 DEF ExecuteFirst

-----------------------------------------------------------------------------
(* What a round has to do with the one before *)

AlongEdges == \A i \in DOMAIN calls : calls[i].in.type = "value" => Along(calls[i], Producing)

OfRound(data) == \A t \in data : t[2] = round

\* All values are of this round.
Fresh ==
    /\ \A s \in Sinks : \A i \in 1..Len(received[s]) : OfRound(received[s][i])
    /\ \A i \in DOMAIN calls : OfRound(calls[i].in.data)
    /\ status # "undefined" => \A a \in Aggregators : \A id \in DOMAIN latest[a] : OfRound(latest[a][id])

InRound ==
    /\ AtRest => NothingKept
    /\ status = "running" =>
         /\ sources = <<>> => NothingKept /\ \A i \in DOMAIN calls : calls[i].in = Void
         /\ FewProducers => NothingKept /\ AlongEdges
         /\ Ahead /\ sources # <<>> => SomeFired

RoundInv ==
    /\ AllFed
    /\ Even /\ lapse = FALSE => Fresh /\ InRound

\* A round begins with nothing kept, and a call of each Source.
LEMMA ExecuteInRound ==
    ASSUME IInv, Execute, InRound
    PROVE  Fresh' /\ InRound'
<1> DEFINE first == IF sources # <<>> THEN sources
                    ELSE IF nodes # <<>> THEN <<Head(nodes)>> ELSE <<>>
<1>1. /\ calls' = [i \in 1..Len(first) |-> [to |-> first[i], id |-> 0, in |-> Void]]
      /\ received' = Nothing /\ status' = "running" /\ NothingKept
      /\ UNCHANGED <<next_nodes, producer_count, latest, sources, nodes, built>>
  BY DEF Execute, InRound, graphVars
<1>2. /\ sources \in Seq(Sources) /\ Once(sources) /\ Sources \subseteq Producing /\ Sources \intersect Nodes = {}
      /\ Producing \intersect Sinks = {}
  BY KindsAssumption DEF IInv, TypeOK, Listed, Producing
<1>3. sources # <<>> => first = sources
  OBVIOUS
<1> HIDE DEF first
<1>4. \A i \in DOMAIN calls' : calls'[i].in = Void /\ calls'[i].to = first[i] /\ calls'[i].id = 0
  BY <1>1
<1>5. Void.data = {} /\ Void.type = "void" /\ NothingKept'
  BY <1>1 DEF Void, NothingKept
<1>6. Fresh'
  <2>1. \A s \in Sinks : 1..Len(received'[s]) = {}
    BY <1>1 DEF Nothing
  <2>2. \A a \in Aggregators : DOMAIN latest'[a] = {}
    BY <1>5 DEF NothingKept
  <2> QED BY <1>4, <1>5, <2>1, <2>2 DEF Fresh, OfRound
<1>7. AlongEdges'
  BY <1>4, <1>5 DEF AlongEdges
<1>8. sources # <<>> => SomeFired'
  <2> SUFFICES ASSUME sources # <<>> PROVE SomeFired'
    OBVIOUS
  <2>1. DOMAIN calls' = 1..Len(sources) /\ DOMAIN calls' = DOMAIN sources
        /\ \A i \in DOMAIN calls' : calls'[i].to = sources[i] /\ calls'[i].id = 0 /\ sources[i] \in Sources
    BY <1>1, <1>2, <1>3, <1>4
  <2>2. \A c \in Nodes : Got(c)' = {}
    BY <1>5 DEF Got, NothingKept
  <2>3. PICK none \in SUBSET Producing : none = {}
    OBVIOUS
  <2>4. OnTheWay(none)'
    BY <1>2, <2>1 DEF OnTheWay, Distinct, Once
  <2>5. Delivered(none)' /\ Over(none)'
    BY <2>3 DEF Delivered, Over
  <2>6. KeptFrom(none)'
    BY <2>2 DEF KeptFrom
  <2>7. Waiting'
    BY <2>2 DEF Waiting, Nodes
  <2>8. ToCome(none)'
    BY <1>1, <2>1, <2>3 DEF ToCome, ToSet
  <2> QED BY <2>4, <2>5, <2>6, <2>7, <2>8 DEF SomeFired, Fired
<1> QED BY <1>1, <1>4, <1>5, <1>6, <1>7, <1>8 DEF InRound, AtRest

\* The inputs that the Aggregators keep, after each kind of step.
LEMMA GotAfter ==
    ASSUME DOMAIN latest = Aggregators
    PROVE  /\ latest' = latest => \A c : Got(c)' = Got(c)
           /\ \A a \in Aggregators : latest' = [latest EXCEPT ![a] = Empty] =>
                  \A c : Got(c)' = IF c = a THEN {} ELSE Got(c)
           /\ \A a \in Aggregators : latest' = [latest EXCEPT ![a] = WithInput(a)] =>
                  \A c : Got(c)' = IF c = a THEN Got(c) \union {Head(calls).id} ELSE Got(c)
<1>1. latest' = latest => \A c : Got(c)' = Got(c)
  BY DEF Got
<1>2. DOMAIN Empty = {}
  BY DEF Empty
<1>3. ASSUME NEW a \in Aggregators, latest' = [latest EXCEPT ![a] = Empty]
      PROVE  \A c : Got(c)' = IF c = a THEN {} ELSE Got(c)
  <2>1. latest'[a] = Empty /\ \A c \in Aggregators \ {a} : latest'[c] = latest[c]
    BY <1>3
  <2> QED BY <1>2, <2>1 DEF Got
<1>4. ASSUME NEW a \in Aggregators, latest' = [latest EXCEPT ![a] = WithInput(a)]
      PROVE  \A c : Got(c)' = IF c = a THEN Got(c) \union {Head(calls).id} ELSE Got(c)
  <2>1. latest'[a] = WithInput(a) /\ \A c \in Aggregators \ {a} : latest'[c] = latest[c]
    BY <1>4
  <2>2. DOMAIN WithInput(a) = DOMAIN latest[a] \union {Head(calls).id}
    BY DEF WithInput
  <2> QED BY <2>1, <2>2 DEF Got
<1> QED BY <1>1, <1>3, <1>4

\* A step hands on, or processes, what was made in this round.
LEMMA CleanFresh ==
    ASSUME IInv, Step, Clean, Fresh
    PROVE  Fresh'
<1>1. /\ calls \in Seq(BuiltCalls) /\ calls # <<>> /\ status = "running" /\ round' = round /\ DOMAIN latest = Aggregators
      /\ received \in [Sinks -> Seq(SUBSET Tokens)] /\ AmongBuilt /\ TypeOK
  BY StepGoes DEF IInv
<1>2. OfRound(In.data) /\ In.data \in SUBSET Tokens
  <2>1. 1 \in DOMAIN calls /\ Head(calls) = calls[1]
    BY <1>1
  <2> QED BY <1>1, <2>1, InTyped DEF Fresh, In
<1>4. \A data : OfRound(data)' <=> OfRound(data)
  BY <1>1 DEF OfRound
<1>5. /\ \A s \in Sinks : \A i \in 1..Len(received[s]) : OfRound(received[s][i])
      /\ \A i \in DOMAIN calls : OfRound(calls[i].in.data)
      /\ \A a \in Aggregators : \A id \in DOMAIN latest[a] : OfRound(latest[a][id])
  BY <1>1 DEF Fresh
<1>6. ASSUME NEW c, OfRound(c), NEW b \in Producing, c \in SUBSET Tokens, Replace(ConsumerCalls(b, Value(c)))
      PROVE  \A i \in DOMAIN calls' : OfRound(calls'[i].in.data)
  <2>1. PICK new : new = ConsumerCalls(b, Value(c))
    OBVIOUS
  <2>2. Value(c) \in Anys /\ Value(c).data = c
    BY <1>6, AnysMade DEF Value
  <2>3. new \in Seq(BuiltCalls) /\ Replace(new) /\ \A i \in 1..Len(new) : new[i].in = Value(c)
    BY <1>1, <1>6, <2>1, <2>2, CallsMade, SMTT(30)
  <2>4. /\ calls' \in Seq(BuiltCalls) /\ Len(new) \in Nat /\ Len(calls) \in Nat
        /\ Len(calls') = Len(new) + Len(calls) - 1
        /\ \A i \in 1..Len(new) : calls'[i] = new[i]
        /\ \A i \in Len(new) + 1 .. Len(calls') : calls'[i] = calls[i - Len(new) + 1]
    BY <1>1, <2>3, CallsAfter, Zenon
  <2>5. DOMAIN calls' = 1..Len(calls') /\ DOMAIN calls = 1..Len(calls)
    BY <1>1, <2>4
  <2>6. ASSUME NEW i \in DOMAIN calls'
        PROVE  OfRound(calls'[i].in.data)
    <3>1. CASE i <= Len(new)
      <4>1. calls'[i].in.data = c
        BY <2>2, <2>3, <2>4, <2>5, <3>1
      <4> QED BY <1>6, <4>1
    <3>2. CASE i > Len(new)
      <4>1. i \in Len(new) + 1 .. Len(calls') /\ i - Len(new) + 1 \in DOMAIN calls
        BY <2>4, <2>5, <3>2
      <4> QED BY <1>5, <2>4, <4>1
    <3> QED BY <2>4, <2>5, <3>1, <3>2
  <2> QED BY <2>6
<1>7. Replace(<<>>) => \A i \in DOMAIN calls' : OfRound(calls'[i].in.data)
  BY <1>1, <1>5, CallOver
<1>8. ASSUME NEW a \in Aggregators
      PROVE  \A id \in DOMAIN WithInput(a) : OfRound(WithInput(a)[id])
  BY <1>2, <1>5 DEF WithInput
<1>9. CASE Lost
  <2>1. DOMAIN calls' = {}
    BY <1>9 DEF Lost
  <2> QED BY <1>4, <1>5, <1>9, <2>1 DEF Lost, Fresh
<1>10. ASSUME NEW b \in Producing, NEW data \in SUBSET Tokens, Yields(b, data)
       PROVE  Fresh'
  <2>1. OfRound(data)
    <3>1. CASE data = {<<b, round>>}
      BY <3>1 DEF OfRound
    <3>2. CASE data = In.data
      BY <1>2, <3>2
    <3>3. CASE b \in Aggregators /\ data = Collected(b)
      BY <1>8, <3>3 DEF OfRound, Collected
    <3> QED BY <1>10, <3>1, <3>2, <3>3 DEF Yields
  <2>2. \A i \in DOMAIN calls' : OfRound(calls'[i].in.data)
    BY <1>6, <1>10, <2>1 DEF Yields
  <2>3. \A a \in Aggregators : \A id \in DOMAIN latest'[a] : OfRound(latest'[a][id])
    <3>1. CASE latest' = latest
      BY <1>5, <3>1
    <3>2. CASE b \in Aggregators /\ latest' = [latest EXCEPT ![b] = Empty]
      <4>1. latest'[b] = Empty /\ \A c \in Aggregators \ {b} : latest'[c] = latest[c]
        BY <1>1, <3>2
      <4>2. DOMAIN Empty = {}
        BY DEF Empty
      <4> QED BY <1>5, <4>1, <4>2
    <3> QED BY <1>10, <3>1, <3>2 DEF Yields
  <2>4. received' = received
    BY <1>10 DEF Yields
  <2> QED BY <1>4, <1>5, <2>2, <2>3, <2>4 DEF Fresh
<1>11. ASSUME NEW a \in Aggregators, AggregatorDrops(a)
       PROVE  Fresh'
  <2>1. received' = received /\ latest' = latest /\ Replace(<<>>)
    BY <1>11 DEF AggregatorDrops
  <2> QED BY <1>4, <1>5, <1>7, <2>1 DEF Fresh
<1>12. ASSUME NEW a \in Aggregators, AggregatorKeeps(a)
       PROVE  Fresh'
  <2>1. received' = received /\ latest' = [latest EXCEPT ![a] = WithInput(a)] /\ Replace(<<>>)
    BY <1>12 DEF AggregatorKeeps
  <2>2. latest'[a] = WithInput(a) /\ \A c \in Aggregators \ {a} : latest'[c] = latest[c]
    BY <1>1, <2>1
  <2>3. \A c \in Aggregators : \A id \in DOMAIN latest'[c] : OfRound(latest'[c][id])
    BY <1>5, <1>8, <2>2
  <2> QED BY <1>4, <1>5, <1>7, <2>1, <2>3 DEF Fresh
<1>13. ASSUME NEW s \in Sinks, Takes(s)
       PROVE  Fresh'
  <2>1. Replace(<<>>) /\ latest' = latest
    BY <1>13 DEF Takes
  <2>2. \A t \in Sinks : \A i \in 1..Len(received'[t]) : OfRound(received'[t][i])
    <3>1. CASE received' = received
      BY <1>5, <3>1
    <3>2. CASE received' = [received EXCEPT ![s] = Append(@, In.data)]
      <4>1. received'[s] = Append(received[s], In.data) /\ \A t \in Sinks \ {s} : received'[t] = received[t]
        BY <1>1, <3>2
      <4>2. received[s] \in Seq(SUBSET Tokens)
        BY <1>1
      <4>3. \A i \in 1..Len(received'[s]) : received'[s][i] = In.data \/ (i \in 1..Len(received[s]) /\ received'[s][i] = received[s][i])
        BY <1>2, <4>1, <4>2
      <4> QED BY <1>2, <1>5, <4>1, <4>3
    <3> QED BY <1>13, <3>1, <3>2 DEF Takes
  <2> QED BY <1>4, <1>5, <1>7, <2>1, <2>2 DEF Fresh
<1> QED BY <1>9, <1>10, <1>11, <1>12, <1>13 DEF Clean

\* A round in which the edges lead ahead goes on.
LEMMA CleanFires ==
    ASSUME IInv, Step, Clean, ~Lost, Tidy, Ahead, SomeFired
    PROVE  SomeFired'
<1>1. /\ calls \in Seq(BuiltCalls) /\ calls # <<>> /\ DOMAIN latest = Aggregators
      /\ UNCHANGED <<next_nodes, producer_count, sources>>
      /\ Nodes = Modules \union Aggregators /\ Sources \intersect Nodes = {} /\ Modules \intersect Aggregators = {}
      /\ Producing = Sources \union Nodes /\ Producing \intersect Sinks = {}
  BY StepGoes, KindsAssumption DEF IInv, Nodes, Producing
<1>2. PICK fired \in SUBSET Producing : Fired(fired)
  BY DEF SomeFired
<1>3. ASSUME NEW b \in Producing, NEW data \in SUBSET Tokens, Yields(b, data)
      PROVE  SomeFired'
  <2>1. PICK next \in SUBSET Producing : next = fired \union {b}
    OBVIOUS
  <2>2. \A c \in Nodes : Got(c)' = IF c = b THEN {} ELSE Got(c)
    <3>1. CASE latest' = latest /\ b \in Sources \union Modules
      <4>1. \A c \in Nodes : Got(c)' = Got(c)
        BY <1>1, <3>1, GotAfter
      <4>2. b \in Nodes => Got(b) = {}
        BY <1>1, <3>1 DEF Got
      <4> QED BY <4>1, <4>2
    <3>2. CASE b \in Aggregators /\ latest' = [latest EXCEPT ![b] = Empty]
      BY <1>1, <3>2, GotAfter
    <3> QED BY <1>3, <3>1, <3>2 DEF Yields
  <2>3. b \in Aggregators => Got(b) \union {Head(calls).id} = 0..(producer_count[b] - 1)
    BY <1>1, <1>3 DEF Yields, Complete, WithInput, Got
  <2>4. Value(data) \in Anys /\ Head(calls).to = b /\ Replace(ConsumerCalls(b, Value(data)))
    BY <1>3, AnysMade DEF Yields, Head1
  <2>5. Fired(next)'
    BY <1>1, <1>2, <2>1, <2>2, <2>3, <2>4, YieldFires
  <2> QED BY <2>5 DEF SomeFired
<1>4. ASSUME NEW a \in Aggregators, AggregatorDrops(a)
      PROVE  SomeFired'
  <2>1. Head(calls).to = a /\ Head(calls).id \in Got(a) /\ a \in Nodes
    BY <1>1, <1>4 DEF AggregatorDrops, Head1, Heard, Got
  <2>2. 1 \in DOMAIN calls /\ Head(calls) = calls[1]
    BY <1>1
  <2> QED BY <1>2, <2>1, <2>2 DEF Fired, KeptFrom
<1>5. ASSUME NEW a \in Aggregators, AggregatorKeeps(a)
      PROVE  SomeFired'
  <2>1. /\ Head(calls).to = a /\ Head(calls).to \notin Sources /\ Replace(<<>>)
        /\ latest' = [latest EXCEPT ![a] = WithInput(a)] /\ ~Complete(a)
    BY <1>1, <1>5 DEF AggregatorKeeps, Head1
  <2>2. \A c : Got(c)' = IF c = a THEN Got(c) \union {Head(calls).id} ELSE Got(c)
    BY <1>1, <2>1, GotAfter
  <2>3. Got(a)' # 0..(producer_count[a] - 1)
    <3>1. DOMAIN WithInput(a) = Got(a) \union {Head(calls).id}
      BY DEF WithInput, Got
    <3> QED BY <2>1, <2>2, <3>1 DEF Complete
  <2>4. Fired(fired)'
    BY <1>1, <1>2, <2>1, <2>2, <2>3, PassFires
  <2> QED BY <2>4 DEF SomeFired
<1>6. ASSUME NEW s \in Sinks, Takes(s)
      PROVE  SomeFired'
  <2>1. /\ Head(calls).to = s /\ Head(calls).to \notin Sources /\ Head(calls).to \notin Nodes
        /\ Replace(<<>>) /\ latest' = latest
    BY <1>1, <1>6 DEF Takes, Head1
  <2>2. \A c \in Nodes : Got(c)' = Got(c) /\ c # Head(calls).to
    BY <1>1, <2>1, GotAfter
  <2>3. \A a \in Aggregators : a # Head(calls).to
    BY <1>1, <2>1
  <2>4. Fired(fired)'
    BY <1>1, <1>2, <2>1, <2>2, <2>3, PassFires
  <2> QED BY <2>4 DEF SomeFired
<1> QED BY <1>3, <1>4, <1>5, <1>6 DEF Clean

\* With one producer each, Aggregators keep nothing.
LEMMA CleanFew ==
    ASSUME IInv, Step, Clean, ~Lost, FewProducers, NothingKept, AlongEdges
    PROVE  NothingKept' /\ AlongEdges'
<1>1. /\ calls \in Seq(BuiltCalls) /\ calls # <<>> /\ DOMAIN latest = Aggregators /\ AmongBuilt
      /\ next_nodes' = next_nodes
      /\ Nodes = Modules \union Aggregators /\ Producing = Sources \union Nodes
      /\ producer_count \in [Aggregators -> Nat]
  BY StepGoes DEF IInv, TypeOK, FlowTypeOK, Nodes, Producing
<1>2. 1 \in DOMAIN calls /\ Head(calls) = calls[1]
  BY <1>1
<1>3. \A call : Along(call, Producing)' <=> Along(call, Producing)
  BY <1>1 DEF Along
<1>4. ASSUME Replace(<<>>)
      PROVE  AlongEdges'
  <2>1. \A i \in DOMAIN calls' : i + 1 \in DOMAIN calls /\ calls'[i] = calls[i + 1]
    BY <1>1, <1>4, CallOver
  <2>2. ASSUME NEW i \in DOMAIN calls', calls'[i].in.type = "value"
        PROVE  Along(calls[i + 1], Producing) /\ calls'[i] = calls[i + 1]
    BY <2>1, <2>2 DEF AlongEdges
  <2>3. ASSUME NEW i \in DOMAIN calls', calls'[i].in.type = "value"
        PROVE  \E b \in Producing : \E k \in DOMAIN next_nodes'[b] :
                   next_nodes'[b][k].to = calls'[i].to /\ next_nodes'[b][k].id = calls'[i].id
    BY <1>1, <2>2, <2>3 DEF Along
  <2> QED BY <2>3 DEF AlongEdges, Along
<1>5. latest' = latest => NothingKept'
  BY DEF NothingKept
<1>6. ASSUME NEW b \in Producing, NEW data \in SUBSET Tokens, Yields(b, data)
      PROVE  NothingKept' /\ AlongEdges'
  <2>1. NothingKept'
    <3>1. CASE b \in Aggregators /\ latest' = [latest EXCEPT ![b] = Empty]
      <4>1. latest'[b] = Empty /\ \A c \in Aggregators \ {b} : latest'[c] = latest[c]
        BY <1>1, <3>1
      <4>2. DOMAIN Empty = {}
        BY DEF Empty
      <4> QED BY <4>1, <4>2 DEF NothingKept
    <3> QED BY <1>5, <1>6, <3>1 DEF Yields
  <2>2. PICK new : new = ConsumerCalls(b, Value(data))
    OBVIOUS
  <2>3. Value(data) \in Anys /\ Replace(new)
    BY <1>6, <2>2, AnysMade DEF Yields
  <2>4. /\ new \in Seq(BuiltCalls) /\ Len(new) = Len(next_nodes[b]) /\ DOMAIN next_nodes[b] = 1..Len(next_nodes[b])
        /\ \A k \in 1..Len(next_nodes[b]) : new[k].to = next_nodes[b][k].to /\ new[k].id = next_nodes[b][k].id
    <3>1. PICK out \in Anys : out = Value(data)
      BY <2>3
    <3>2. new = ConsumerCalls(b, out)
      BY <2>2, <3>1
    <3>3. AmongBuilt
      BY <1>1
    <3> QED BY <3>2, <3>3, CallsMade, SMTT(30)
  <2>5. /\ calls' \in Seq(BuiltCalls) /\ Len(new) \in Nat /\ Len(calls) \in Nat
        /\ Len(calls') = Len(new) + Len(calls) - 1
        /\ \A i \in 1..Len(new) : calls'[i] = new[i]
        /\ \A i \in Len(new) + 1 .. Len(calls') : calls'[i] = calls[i - Len(new) + 1]
    BY <1>1, <2>3, <2>4, CallsAfter, Zenon
  <2>6. DOMAIN calls' = 1..Len(calls') /\ DOMAIN calls = 1..Len(calls)
    BY <1>1, <2>5
  <2>7. ASSUME NEW i \in DOMAIN calls', calls'[i].in.type = "value"
        PROVE  \E d \in Producing : \E k \in DOMAIN next_nodes[d] :
                   next_nodes[d][k].to = calls'[i].to /\ next_nodes[d][k].id = calls'[i].id
    <3>1. CASE i <= Len(new)
      <4>1. i \in 1..Len(new) /\ i \in DOMAIN next_nodes[b]
        BY <2>4, <2>5, <2>6, <3>1
      <4> QED BY <2>4, <2>5, <4>1
    <3>2. CASE i > Len(new)
      <4>1. i \in Len(new) + 1 .. Len(calls') /\ i - Len(new) + 1 \in DOMAIN calls
        BY <2>5, <2>6, <3>2
      <4>2. PICK j \in DOMAIN calls : calls'[i] = calls[j]
        BY <2>5, <4>1
      <4>3. Along(calls[j], Producing)
        BY <2>7, <4>2 DEF AlongEdges
      <4> QED BY <4>2, <4>3 DEF Along
    <3> QED BY <2>5, <2>6, <3>1, <3>2
  <2> QED BY <1>1, <2>1, <2>7 DEF AlongEdges, Along
<1>7. ASSUME NEW a \in Aggregators, AggregatorDrops(a)
      PROVE  NothingKept' /\ AlongEdges'
  BY <1>4, <1>5, <1>7 DEF AggregatorDrops
<1>8. ASSUME NEW a \in Aggregators, AggregatorKeeps(a)
      PROVE  FALSE
  <2>1. calls[1].in.type = "value" /\ calls[1].to = a /\ ~Complete(a)
    BY <1>2, <1>8 DEF AggregatorKeeps, Head1, In
  <2>2. PICK b \in Producing : \E k \in DOMAIN next_nodes[b] :
              next_nodes[b][k].to = calls[1].to /\ next_nodes[b][k].id = calls[1].id
    BY <1>2, <2>1 DEF AlongEdges, Along
  <2>3. calls[1].id \in 0..(producer_count[a] - 1)
    BY <2>1, <2>2, EdgesOfNodes DEF Into
  <2>4. producer_count[a] = 1 /\ calls[1].id = 0
    <3>1. producer_count[a] \in Nat /\ producer_count[a] <= 1
      BY <1>1 DEF FewProducers
    <3> QED BY <2>3, <3>1
  <2>5. DOMAIN WithInput(a) = {0}
    BY <1>2, <2>4 DEF WithInput, NothingKept
  <2>6. 0..(1 - 1) = {0}
    OBVIOUS
  <2> QED BY <2>1, <2>4, <2>5, <2>6 DEF Complete
<1>9. ASSUME NEW s \in Sinks, Takes(s)
      PROVE  NothingKept' /\ AlongEdges'
  BY <1>4, <1>5, <1>9 DEF Takes
<1> QED BY <1>6, <1>7, <1>8, <1>9 DEF Clean

\* Without a Source, what there is to hand on is an empty any.
LEMMA CleanVoid ==
    ASSUME IInv, Step, Clean, ~Lost, sources = <<>>, NothingKept, \A i \in DOMAIN calls : calls[i].in = Void
    PROVE  NothingKept' /\ \A i \in DOMAIN calls' : calls'[i].in = Void
<1>1. calls \in Seq(BuiltCalls) /\ calls # <<>>
  BY StepGoes
<1>2. 1 \in DOMAIN calls /\ Head(calls) = calls[1] /\ calls[1] \in BuiltCalls
  BY <1>1
<1>3. In.type # "value"
  BY <1>2 DEF In, Void
<1>4. Head(calls).to \notin Sources
  <2>1. ToSet(sources) = {} /\ ToSet(sources) = ToSet(built) \intersect Sources
    BY DEF ToSet, IInv, Listed
  <2> QED BY <1>2, <2>1 DEF BuiltCalls
<1>5. \A b, data : ~Yields(b, data)
  BY <1>3, <1>4 DEF Yields, Head1
<1>6. \A a : ~AggregatorKeeps(a)
  BY <1>3 DEF AggregatorKeeps
<1>7. Replace(<<>>) /\ latest' = latest
  BY <1>5, <1>6 DEF Clean, AggregatorDrops, Takes
<1>8. \A i \in DOMAIN calls' : i + 1 \in DOMAIN calls /\ calls'[i] = calls[i + 1]
  BY <1>1, <1>7, CallOver
<1> QED BY <1>7, <1>8 DEF NothingKept

Finished == calls = <<>> /\ sources # <<>> => NothingKept

\* AllDone, as a fact about one state.
LEMMA RoundFinishes == IInv /\ Tidy /\ Ahead /\ AllFed /\ SomeFired => Finished
BY AllDone DEF Finished

\* A step without a lapse keeps a round in order.
LEMMA StepInRound ==
    ASSUME IInv, IInv', Tidy, Tidy', AllFed', Even, Step, Clean, InRound
    PROVE  InRound'
<1>1. status = "running" /\ UNCHANGED <<next_nodes, producer_count, sources, nodes, built>>
  BY StepGoes
<1>2. (FewProducers' <=> FewProducers) /\ (Ahead' <=> Ahead)
  BY <1>1 DEF FewProducers, Ahead, Before, EdgesInto
<1>3. CASE Lost
  BY <1>3 DEF Lost, InRound, AtRest
<1>4. CASE ~Lost
  <2>1. FewProducers => NothingKept' /\ AlongEdges'
    BY <1>1, <1>4, CleanFew DEF InRound
  <2>2. sources = <<>> => NothingKept' /\ \A i \in DOMAIN calls' : calls'[i].in = Void
    BY <1>1, <1>4, CleanVoid DEF InRound
  <2>3. Ahead /\ sources # <<>> => SomeFired'
    BY <1>1, <1>4, CleanFires DEF InRound
  <2>4. Finished' \/ ~Ahead \/ sources = <<>>
    <3>1. IInv' /\ Tidy' /\ Ahead' /\ AllFed' /\ SomeFired' => Finished'
      BY RoundFinishes, PTL
    <3> QED BY <1>2, <2>3, <3>1
  <2>5. (status' = "idle" /\ calls' = <<>>) \/ status' = "running"
    <3>1. \A new : Replace(new) => (status' = "idle" /\ calls' = <<>>) \/ status' = "running"
      BY DEF Replace
    <3> QED BY <1>4, <3>1 DEF Clean, Yields, AggregatorDrops, AggregatorKeeps, Takes
  <2>6. CASE status' = "running"
    BY <1>1, <1>2, <2>1, <2>2, <2>3, <2>6 DEF InRound, AtRest
  <2>7. CASE status' = "idle" /\ calls' = <<>>
    <3>1. NothingKept'
      BY <1>1, <2>1, <2>2, <2>4, <2>7, EvenIs DEF Finished
    <3> QED BY <2>7, <3>1 DEF InRound
  <2> QED BY <2>5, <2>6, <2>7
<1> QED BY <1>3, <1>4

\* Rounds are kept apart by every step.
LEMMA RoundKept ==
    ASSUME IInv, IInv', Tidy, Tidy', RoundInv, [Next]_vars
    PROVE  RoundInv'
<1>1. AllFed'
  BY FedKept DEF RoundInv
<1>2. ASSUME Even, lapse = FALSE
      PROVE  Fresh /\ InRound
  BY <1>2 DEF RoundInv
<1> SUFFICES ASSUME Even', lapse' = FALSE
             PROVE  Fresh' /\ InRound'
  BY <1>1 DEF RoundInv
<1>3. ASSUME UNCHANGED <<next_nodes, producer_count, sources, nodes, built>>
      PROVE  Even
  <2>1. Even' <=> Even
    BY <1>3 DEF Even, Before, EdgesInto
  <2> QED BY <2>1
<1>4. ASSUME Grows, Extends
      PROVE  Fresh' /\ InRound'
  <2>1. Even /\ lapse = FALSE
    BY <1>4, EvenBefore DEF Grows
  <2>2. Fresh /\ NothingKept
    BY <1>2, <1>4, <2>1 DEF Grows, InRound
  <2>3. UNCHANGED <<latest, calls, round>> /\ received' = Nothing /\ status' \in {"idle", "thrown"}
        /\ calls = <<>>
    BY <1>4 DEF Grows, Tidy, AtRest
  <2>4. \A s \in Sinks : 1..Len(received'[s]) = {}
    BY <2>3 DEF Nothing
  <2>5. NothingKept' /\ DOMAIN calls' = {}
    BY <2>2, <2>3 DEF NothingKept
  <2> QED BY <2>3, <2>4, <2>5 DEF Fresh, InRound, NothingKept
<1>5. ASSUME Execute
      PROVE  Fresh' /\ InRound'
  <2>1. UNCHANGED <<next_nodes, producer_count, sources, nodes, built, lapse>>
    BY <1>5 DEF Execute, graphVars
  <2> QED BY <1>2, <1>3, <1>5, <2>1, ExecuteInRound
<1>6. ASSUME Step
      PROVE  Fresh' /\ InRound'
  <2>1. lapse = FALSE /\ Clean
    BY <1>6, StepClean
  <2>2. Even
    BY <1>3, <1>6, StepGoes
  <2> QED BY <1>1, <1>2, <1>6, <2>1, <2>2, CleanFresh, StepInRound
<1>7. ASSUME UNCHANGED vars
      PROVE  Fresh' /\ InRound'
  <2>1. UNCHANGED <<next_nodes, producer_count, latest, calls, status, round, received, lapse,
                    sources, nodes, built, manual>>
    BY <1>7 DEF vars, flowVars, graphVars
  <2>2. Fresh /\ InRound
    BY <1>2, <1>3, <2>1
  <2>3. Fresh'
    BY <2>1, <2>2 DEF Fresh, OfRound
  <2>4. (SomeFired' <=> SomeFired) /\ (AlongEdges' <=> AlongEdges) /\ (NothingKept' <=> NothingKept)
        /\ (FewProducers' <=> FewProducers) /\ (Ahead' <=> Ahead)
    <3>1. \A fired : Fired(fired)' <=> Fired(fired)
      BY <2>1 DEF Fired, OnTheWay, Distinct, Along, Delivered, KeptFrom, Waiting, Over, ToCome, Into, Got
    <3>2. SomeFired' <=> SomeFired
      BY <3>1 DEF SomeFired
    <3>3. (AlongEdges' <=> AlongEdges) /\ (NothingKept' <=> NothingKept) /\ (FewProducers' <=> FewProducers)
      BY <2>1 DEF AlongEdges, Along, NothingKept, FewProducers
    <3>4. Ahead' <=> Ahead
      BY <2>1 DEF Ahead, Before, EdgesInto
    <3> QED BY <3>2, <3>3, <3>4
  <2>5. InRound'
    BY <2>1, <2>2, <2>4 DEF InRound, AtRest
  <2> QED BY <2>3, <2>5
<1> QED BY <1>4, <1>5, <1>6, <1>7, GraphSteps, GraphExtends DEF Next

\* It is so in an empty pipeline.
LEMMA InitRound == Init => RoundInv
<1> SUFFICES ASSUME Init PROVE RoundInv
  OBVIOUS
<1>1. /\ nodes = <<>> /\ calls = <<>> /\ status = "idle" /\ received = Nothing
      /\ latest = [a \in Aggregators |-> Empty]
  BY DEF Init, FlowInit
<1>2. AllFed
  BY <1>1 DEF AllFed, ToSet
<1>3. NothingKept
  BY <1>1 DEF NothingKept, Empty
<1>4. \A s \in Sinks : 1..Len(received[s]) = {}
  BY <1>1 DEF Nothing
<1> QED BY <1>1, <1>2, <1>3, <1>4 DEF RoundInv, Fresh, InRound, NothingKept

\* RoundInv is an invariant.
LEMMA Rounds == Spec => []RoundInv
<1>1. IInv /\ IInv' /\ AgreeInv /\ AgreeInv' /\ RoundInv /\ [Next]_vars => RoundInv'
  BY RoundKept DEF AgreeInv
<1> QED BY <1>1, InitRound, Invariance, Agreement, PTL DEF Spec

-----------------------------------------------------------------------------
(* Without edges made by hand *)

OneProducer(n) ==
    /\ \A b, d \in Producing : \A i \in DOMAIN next_nodes[b], j \in DOMAIN next_nodes[d] :
         Into(b, i, n) /\ Into(d, j, n) => b = d /\ i = j
    /\ n \in Aggregators => producer_count[n] <= 1

EdgesAhead ==
    \A b \in Producing : \A i \in DOMAIN next_nodes[b] :
        next_nodes[b][i].to \notin Sources /\ Before(b, next_nodes[b][i].to)

\* The blocks are in a line, but for the Sources before the first Node.
InLine ==
    /\ EdgesAhead
    /\ \A n \in Nodes : nodes = <<>> \/ n # nodes[1] => OneProducer(n)
    /\ nodes # <<>> => OneProducer(nodes[1]) \/ (sources # <<>> /\ Before(sources[1], nodes[1]))

\* Blocks in a line are even.
LEMMA InLineIsEven ==
    ASSUME IInv, InLine
    PROVE  Even
<1>1. Nodes = Modules \union Aggregators /\ nodes \in Seq(Nodes) /\ Modules \intersect Aggregators = {}
  BY KindsAssumption DEF IInv, TypeOK, Nodes
<1>2. CASE \A a \in Aggregators : OneProducer(a)
  <2>1. FewProducers
    BY <1>2 DEF FewProducers, OneProducer
  <2> QED BY <2>1, EvenIs
<1>3. ASSUME NEW a \in Aggregators, ~OneProducer(a)
      PROVE  Even
  <2>1. nodes # <<>> /\ nodes[1] = a /\ Before(sources[1], nodes[1])
    BY <1>1, <1>3 DEF InLine
  <2>2. \A m \in Modules : OneProducer(m)
    BY <1>1, <2>1 DEF InLine
  <2>3. ASSUME NEW m \in Modules, NEW e \in EdgesInto(m), NEW f \in EdgesInto(m)
        PROVE  e = f
    <3>1. PICK b \in Producing : e \in {b} \X DOMAIN next_nodes[b]
      BY DEF EdgesInto
    <3>2. PICK d \in Producing : f \in {d} \X DOMAIN next_nodes[d]
      BY DEF EdgesInto
    <3>3. e = <<b, e[2]>> /\ e[2] \in DOMAIN next_nodes[b] /\ Into(b, e[2], m)
      BY <3>1 DEF EdgesInto, Into
    <3>4. f = <<d, f[2]>> /\ f[2] \in DOMAIN next_nodes[d] /\ Into(d, f[2], m)
      BY <3>2 DEF EdgesInto, Into
    <3>5. b = d /\ e[2] = f[2]
      BY <2>2, <3>3, <3>4 DEF OneProducer
    <3> QED BY <3>3, <3>4, <3>5
  <2>4. Ahead
    BY <2>1, <2>3 DEF Ahead, InLine, EdgesAhead
  <2> QED BY <2>4, EvenIs
<1> QED BY <1>2, <1>3

\* A block that is not added yet has no producer.
LEMMA NoProducerYet ==
    ASSUME IInv, NEW x, ~Added(x)
    PROVE  /\ \A b \in Producing : \A i \in DOMAIN next_nodes[b] : next_nodes[b][i].to # x
           /\ x \in Aggregators => producer_count[x] = 0
<1>1. \A b \in Producing : \A i \in DOMAIN next_nodes[b] : next_nodes[b][i].to # x
  BY EdgesOfNodes DEF Added
<1>2. ASSUME x \in Aggregators, producer_count[x] # 0
      PROVE  FALSE
  <2>1. producer_count[x] \in Nat
    BY <1>2 DEF IInv, TypeOK, FlowTypeOK
  <2>2. 0 \in 0..(producer_count[x] - 1)
    BY <1>2, <2>1
  <2> QED BY <1>1, <1>2, <2>2, EdgesOfNodes DEF Into
<1> QED BY <1>1, <1>2

\* A new block has edges from the blocks upstream, one from each.
LEMMA EdgesToNew ==
    ASSUME IInv, Tidy, NEW x, ~Added(x), AddConsumer(Upstream, x), Lengthens(x), built' = Append(built, x),
           x \notin Sources, EdgesAhead
    PROVE  /\ EdgesAhead'
           /\ \A n \in Nodes \ {x} : OneProducer(n) => OneProducer(n)'
           /\ Len(Upstream) <= 1 => OneProducer(x)'
<1>1. /\ built \in Seq(Blocks) /\ Once(built) /\ Upstream \in Seq(Producing) /\ Once(Upstream)
      /\ ToSet(Upstream) \subseteq ToSet(built) /\ TypeOK /\ producer_count \in [Aggregators -> Nat]
  BY UpstreamFits DEF IInv, TypeOK, FlowTypeOK, Tidy
<1>2. /\ \A b, c \in ToSet(built) : Before(b, c)' <=> Before(b, c)
      /\ \A b \in ToSet(built) : Before(b, x)'
  BY <1>1, AddedBehind
\* An edge is old, or leads from a block upstream to x.
<1>3. ASSUME NEW b \in Producing, NEW i \in DOMAIN next_nodes'[b]
      PROVE  \/ i \in DOMAIN next_nodes[b] /\ next_nodes'[b][i] = next_nodes[b][i] /\ next_nodes[b][i].to # x
             \/ i = Len(next_nodes[b]) + 1 /\ next_nodes'[b][i].to = x /\ b \in ToSet(Upstream)
  <2>1. CASE b \in ToSet(Upstream)
    <3>1. PICK n \in Nat : n = Len(next_nodes[b])
      BY DEF Lengthens
    <3>2. /\ DOMAIN next_nodes[b] = 1..n /\ (DOMAIN next_nodes'[b] = 1..n \/ DOMAIN next_nodes'[b] = 1..n + 1)
          /\ \A k \in 1..n : next_nodes'[b][k] = next_nodes[b][k]
          /\ DOMAIN next_nodes'[b] = 1..n + 1 => next_nodes'[b][n + 1].to = x
      <4>1. /\ DOMAIN next_nodes[b] = 1..n /\ DOMAIN next_nodes'[b] = 1..Len(next_nodes'[b])
            /\ Len(next_nodes'[b]) \in {n, n + 1}
            /\ \A k \in 1..n : next_nodes'[b][k] = next_nodes[b][k]
            /\ Len(next_nodes'[b]) = n + 1 => next_nodes'[b][n + 1].to = x
        BY <3>1 DEF Lengthens
      <4>2. Len(next_nodes'[b]) = n => ~(DOMAIN next_nodes'[b] = 1..n + 1)
        <5>1. 1..n # 1..n + 1
          <6>1. n + 1 \in 1..n + 1 /\ n + 1 \notin 1..n
            OBVIOUS
          <6> QED BY <6>1
        <5> QED BY <4>1, <5>1
      <4> QED BY <4>1, <4>2
    <3>3. i \in 1..n \/ (i = n + 1 /\ DOMAIN next_nodes'[b] = 1..n + 1)
      BY <3>1, <3>2
    <3> QED BY <2>1, <3>1, <3>2, <3>3, NoProducerYet
  <2>2. CASE b \notin ToSet(Upstream)
    <3>1. next_nodes'[b] = next_nodes[b]
      BY <1>1, <2>2, AddConsumerAppends
    <3> QED BY <3>1, NoProducerYet
  <2> QED BY <2>1, <2>2
<1>4. EdgesAhead'
  <2> SUFFICES ASSUME NEW b \in Producing, NEW i \in DOMAIN next_nodes'[b]
               PROVE  next_nodes'[b][i].to \notin Sources
                      /\ \E k, l \in DOMAIN built' : k < l /\ built'[k] = b /\ built'[l] = next_nodes'[b][i].to
    BY DEF EdgesAhead, Before
  <2>1. \A c, d : Before(c, d)' <=> \E k, l \in DOMAIN built' : k < l /\ built'[k] = c /\ built'[l] = d
    BY DEF Before
  <2>2. PICK c : c = next_nodes'[b][i].to
    OBVIOUS
  <2>3. c \notin Sources /\ Before(b, c)'
    <3>1. CASE i \in DOMAIN next_nodes[b] /\ next_nodes'[b][i] = next_nodes[b][i]
      <4>1. \A d : d = next_nodes[b][i].to => d \notin Sources /\ Before(b, d) /\ d \in ToSet(built) /\ b \in ToSet(built)
        BY <3>1, EdgesOfNodes DEF EdgesAhead, Added
      <4> QED BY <1>2, <2>2, <3>1, <4>1
    <3>2. CASE next_nodes'[b][i].to = x /\ b \in ToSet(Upstream)
      <4>1. c = x /\ b \in ToSet(built)
        BY <1>1, <2>2, <3>2
      <4> QED BY <1>2, <4>1
    <3> QED BY <1>3, <3>1, <3>2
  <2> QED BY <2>1, <2>2, <2>3
<1>5. \A a \in Aggregators : producer_count'[a] = producer_count[a] + (IF a = x THEN Len(Upstream) ELSE 0)
  BY DEF AddConsumer
<1>6. ASSUME NEW n \in Nodes \ {x}, OneProducer(n)
      PROVE  OneProducer(n)'
  <2>1. n \in Aggregators => producer_count'[n] <= 1
    BY <1>1, <1>5, <1>6 DEF OneProducer
  <2>2. ASSUME NEW b \in Producing, NEW i \in DOMAIN next_nodes'[b], next_nodes'[b][i].to = n
        PROVE  i \in DOMAIN next_nodes[b] /\ Into(b, i, n)
    BY <1>3, <2>2 DEF Into
  <2> QED BY <1>6, <2>1, <2>2 DEF OneProducer, Into
<1>7. ASSUME Len(Upstream) <= 1
      PROVE  OneProducer(x)'
  <2>1. Len(Upstream) \in Nat /\ \A b, d \in ToSet(Upstream) : b = d
    <3>1. \A i, j \in 1..Len(Upstream) : i = j
      BY <1>1, <1>7
    <3> QED BY <1>1, <3>1, InToSet
  <2>2. x \in Aggregators => producer_count'[x] <= 1
    BY <1>5, <1>7, <2>1, NoProducerYet
  <2>3. ASSUME NEW b \in Producing, NEW i \in DOMAIN next_nodes'[b], next_nodes'[b][i].to = x
        PROVE  i = Len(next_nodes[b]) + 1 /\ b \in ToSet(Upstream)
    BY <1>3, <2>3
  <2> QED BY <2>1, <2>2, <2>3 DEF OneProducer, Into
<1> QED BY <1>4, <1>6, <1>7

LineInv == manual = {} => InLine

\* Blocks stay in a line, but for connect().
LEMMA LineKept ==
    ASSUME IInv, Tidy, LineInv, [Next]_vars
    PROVE  LineInv'
<1> SUFFICES ASSUME manual' = {} PROVE InLine'
  BY DEF LineInv
<1>1. /\ TypeOK /\ built \in Seq(Blocks) /\ Once(built) /\ sources \in Seq(Sources) /\ nodes \in Seq(Nodes)
      /\ ToSet(sources) \subseteq ToSet(built) /\ ToSet(nodes) \subseteq ToSet(built)
      /\ Sources \intersect Nodes = {} /\ Producing \intersect Sinks = {} /\ Producing = Sources \union Nodes
  BY KindsAssumption DEF IInv, TypeOK, Listed, Tidy, Producing
<1>b. \A c, d : Before(c, d)' <=> \E k, l \in DOMAIN built' : k < l /\ built'[k] = c /\ built'[l] = d
  BY DEF Before
<1>2. ASSUME UNCHANGED <<next_nodes, producer_count, sources, nodes, built, manual>>
      PROVE  InLine'
  BY <1>2 DEF LineInv, InLine, EdgesAhead, OneProducer, Into, Before
<1>3. nodes # <<>> => nodes[1] \in ToSet(built)
  <2>1. nodes # <<>> => 1 \in 1..Len(nodes)
    BY <1>1
  <2> QED BY <1>1, <2>1, InToSet
<1>4. sources # <<>> => sources[1] \in ToSet(built)
  <2>1. sources # <<>> => 1 \in 1..Len(sources)
    BY <1>1
  <2> QED BY <1>1, <2>1, InToSet
<1>5. PICK s1, n1 : s1 = sources[1] /\ n1 = nodes[1]
  OBVIOUS
\* Who comes first stays.
<1>6. ASSUME Extends, sources # <<>>, nodes # <<>>, Before(sources[1], nodes[1])
      PROVE  sources' # <<>> /\ \E k, l \in DOMAIN built' : k < l /\ built'[k] = sources'[1] /\ built'[l] = nodes'[1]
  <2>1. s1 \in ToSet(built) /\ n1 \in ToSet(built) /\ Before(s1, n1)
    BY <1>3, <1>4, <1>5, <1>6
  <2>2. Before(s1, n1)' /\ sources' # <<>> /\ sources'[1] = s1 /\ nodes'[1] = n1
    BY <1>5, <1>6, <2>1 DEF Extends
  <2> QED BY <1>b, <2>2
<1>7. ASSUME NEW s \in Sources, AddSource(s)
      PROVE  InLine'
  <2>1. /\ Extends /\ InLine /\ UNCHANGED <<next_nodes, producer_count, nodes>> /\ built' = Append(built, s) /\ ~Added(s)
    BY <1>7, GraphExtends DEF AddSource, graphVars, LineInv
  <2>2. EdgesAhead'
    <3> SUFFICES ASSUME NEW b \in Producing, NEW i \in DOMAIN next_nodes[b]
                 PROVE  next_nodes[b][i].to \notin Sources
                        /\ \E k, l \in DOMAIN built' : k < l /\ built'[k] = b /\ built'[l] = next_nodes[b][i].to
      BY <2>1 DEF EdgesAhead, Before
    <3>1. PICK c : c = next_nodes[b][i].to
      OBVIOUS
    <3>2. c \notin Sources /\ Before(b, c) /\ b \in ToSet(built) /\ c \in ToSet(built)
      BY <2>1, <3>1, EdgesOfNodes DEF InLine, EdgesAhead, Added
    <3>3. Before(b, c)'
      BY <2>1, <3>2 DEF Extends
    <3> QED BY <1>b, <3>1, <3>2, <3>3
  <2>3. \A n : OneProducer(n)' <=> OneProducer(n)
    BY <2>1 DEF OneProducer, Into
  <2>4. nodes # <<>> => OneProducer(nodes[1])' \/ (sources' # <<>> /\ Before(sources[1], nodes[1])')
    <3>1. nodes # <<>> => OneProducer(n1)' \/ OneProducer(n1) \/ (sources # <<>> /\ Before(sources[1], nodes[1]))
      BY <1>5, <2>1 DEF InLine
    <3>2. OneProducer(n1)' => OneProducer(nodes[1])'
      BY <1>5, <2>1 DEF OneProducer, Into
    <3> QED BY <1>6, <2>1, <2>3, <3>1, <3>2 DEF Before
  <2>5. \A n \in Nodes : nodes' = <<>> \/ n # nodes'[1] => OneProducer(n)'
    BY <2>1, <2>3 DEF InLine
  <2> QED BY <2>1, <2>2, <2>4, <2>5 DEF InLine
<1>8. ASSUME NEW n \in Nodes, AddNode(n)
      PROVE  InLine'
  <2>1. /\ Extends /\ InLine /\ sources' = sources /\ nodes' = Append(nodes, n)
        /\ built' = Append(built, n) /\ ~Added(n) /\ AddConsumer(Upstream, n) /\ Lengthens(n)
    BY <1>8, GraphExtends, AddNodeLengthens DEF AddNode, LineInv
  <2>2. /\ EdgesAhead'
        /\ \A m \in Nodes \ {n} : OneProducer(m) => OneProducer(m)'
        /\ Len(Upstream) <= 1 => OneProducer(n)'
    BY <1>1, <2>1, EdgesToNew DEF InLine
  <2>3. CASE nodes # <<>>
    <3>1. nodes' # <<>> /\ nodes'[1] = n1 /\ n1 # n /\ n1 \in Nodes
      <4>1. n1 \in ToSet(built)
        BY <1>3, <1>5, <2>3
      <4>2. nodes[1] \in Nodes
        BY <1>1, <2>3
      <4> QED BY <1>5, <2>1, <2>3, <4>1, <4>2 DEF Extends, Added
    <3>2. OneProducer(n)'
      <4>1. Len(Upstream) = 1
        BY <2>3 DEF Upstream
      <4> QED BY <2>2, <4>1
    <3>3. \A m \in Nodes : m # n1 => OneProducer(m)'
      BY <1>5, <2>1, <2>2, <2>3, <3>2 DEF InLine
    <3>4. OneProducer(n1)' \/ (sources' # <<>> /\ Before(sources[1], nodes[1])')
      <4>1. OneProducer(n1) \/ (sources # <<>> /\ Before(sources[1], nodes[1]))
        BY <1>5, <2>1, <2>3 DEF InLine
      <4> QED BY <1>6, <2>1, <2>2, <2>3, <3>1, <4>1 DEF Before
    <3>5. OneProducer(n1)' => OneProducer(nodes[1])'
      BY <3>1 DEF OneProducer, Into
    <3> QED BY <2>2, <3>1, <3>3, <3>4, <3>5 DEF InLine
  <2>4. CASE nodes = <<>>
    <3>1. nodes' # <<>> /\ nodes'[1] = n
      BY <1>1, <2>1, <2>4, FirstStays
    <3>2. \A m \in Nodes : m # n => OneProducer(m)'
      BY <2>1, <2>2, <2>4 DEF InLine
    <3>3. CASE sources = <<>>
      <4>1. Upstream = <<>>
        BY <2>4, <3>3 DEF Upstream
      <4>2. OneProducer(n)'
        BY <2>2, <4>1
      <4>3. OneProducer(n)' => OneProducer(nodes[1])'
        BY <3>1 DEF OneProducer, Into
      <4> QED BY <2>2, <3>1, <3>2, <4>2, <4>3 DEF InLine
    <3>4. CASE sources # <<>>
      <4>1. s1 \in ToSet(built)
        BY <1>4, <1>5, <3>4
      <4>2. Before(s1, n)'
        BY <1>1, <2>1, <4>1, AddedBehind
      <4>3. sources' # <<>> /\ Before(sources[1], nodes[1])'
        BY <1>5, <1>b, <2>1, <3>1, <3>4, <4>2 DEF Before
      <4> QED BY <2>2, <3>1, <3>2, <4>3 DEF InLine
    <3> QED BY <3>3, <3>4
  <2> QED BY <2>3, <2>4
<1>9. ASSUME NEW s \in Sinks, AddSink(s)
      PROVE  InLine'
  <2>1. /\ Extends /\ InLine /\ sources' = sources /\ nodes' = nodes
        /\ built' = Append(built, s) /\ ~Added(s) /\ AddConsumer(Upstream, s) /\ Lengthens(s)
    BY <1>9, GraphExtends, AddSinkLengthens DEF AddSink, LineInv
  <2>2. s \notin Sources /\ s \notin Nodes
    BY <1>1
  <2>3. EdgesAhead' /\ \A m \in Nodes : OneProducer(m) => OneProducer(m)'
    BY <2>1, <2>2, EdgesToNew DEF InLine
  <2>4. \A m \in Nodes : nodes' = <<>> \/ m # nodes'[1] => OneProducer(m)'
    BY <2>1, <2>3 DEF InLine
  <2>5. ASSUME nodes # <<>>
        PROVE  OneProducer(nodes[1])' \/ (sources' # <<>> /\ Before(sources[1], nodes[1])')
    <3>1. n1 \in Nodes
      <4>1. nodes[1] \in Nodes
        BY <1>1, <2>5
      <4> QED BY <1>5, <4>1
    <3>2. OneProducer(n1) \/ (sources # <<>> /\ Before(sources[1], nodes[1]))
      BY <1>5, <2>1, <2>5 DEF InLine
    <3>3. OneProducer(n1)' => OneProducer(nodes[1])'
      BY <1>5, <2>1 DEF OneProducer, Into
    <3> QED BY <1>6, <2>1, <2>3, <2>5, <3>1, <3>2, <3>3 DEF Before
  <2> QED BY <2>1, <2>3, <2>4, <2>5 DEF InLine
<1>10. ASSUME NEW e \in ManualEdges, Connect(e[1], e[2])
       PROVE  InLine'
  <2>1. <<e[1], e[2]>> \in manual'
    BY <1>10 DEF Connect
  <2> QED BY <2>1
<1>11. ASSUME Execute
       PROVE  InLine'
  BY <1>2, <1>11 DEF Execute, graphVars
<1>12. ASSUME Step
       PROVE  InLine'
  BY <1>2, <1>12, StepGoes
<1>13. ASSUME UNCHANGED vars
       PROVE  InLine'
  BY <1>2, <1>13 DEF vars, flowVars, graphVars
<1> QED BY <1>7, <1>8, <1>9, <1>10, <1>11, <1>12, <1>13 DEF Next

\* An empty pipeline is in a line.
LEMMA InitLine == Init => LineInv
BY DEF Init, FlowInit, LineInv, InLine, EdgesAhead, OneProducer, Into

-----------------------------------------------------------------------------
(* The theorems *)

\* Blocks, edges, calls and values keep their types, whatever is thrown.
THEOREM TypeCorrect == Spec => []TypeOK
<1>1. IInv => TypeOK
  BY DEF IInv
<1> QED
  BY <1>1, Invariance, PTL

\* The ids that register_producer() gives out are those that an Aggregator
\* counts up to, each once (Flow.hpp:38-41, Aggregator.hpp:71-73).
THEOREM IdsAreNumbered == Spec => []ProducersNumbered
<1>1. IInv => ProducersNumbered
  BY DEF IInv
<1> QED
  BY <1>1, Invariance, PTL

\* A pipeline that is built in the documented order has the edges that the
\* rules of flow/README.md:33-35 give it, those made by hand, and no others.
THEOREM WiringFollowsRules == Spec => []WiredAsDocumented
<1>1. IInv => WiredAsDocumented
  BY DEF IInv, WiredAsDocumented, BuiltAsDocumented
<1> QED
  BY <1>1, Invariance, PTL

\* A pipeline that is built in the documented order never produces to nobody,
\* which would read beyond its vector (Flow.hpp:63-69).
THEOREM NeverUndefined == Spec => []NoUndefinedBehaviour
<1>1. IInv => NoUndefinedBehaviour
  BY DEF IInv
<1> QED
  BY <1>1, Invariance, PTL

\* In a pipeline that is built in the documented order, where no block produces
\* by round-robin and the edges made by hand lead ahead to Nodes, the Sinks have
\* processed the same values when an execution has run to its end
\* (flow/README.md:33-35, Flow.hpp:46-61).
THEOREM SinksGetTheSame == Spec => []SinksAgree
<1>1. AgreeInv => SinksAgree
  BY DEF AgreeInv, SinksInStep, SinksAgree, SameForAll
<1> QED BY <1>1, Agreement, PTL

\* Where each block is executed once in a round, what a Sink gets is made of
\* values of one round: an Aggregator has all its bits set, and forgets its
\* inputs, before the next round brings it another (Aggregator.hpp:37-53).
THEOREM RoundsKeptApart == Spec => []RoundsDoNotMix
<1>1. RoundInv /\ IInv => RoundsDoNotMix
  <2> SUFFICES ASSUME RoundInv, IInv, Even, ~lapse
               PROVE  \A s \in Sinks : \A i \in 1..Len(received[s]) : \A t \in received[s][i] : t[2] = round
    BY DEF RoundsDoNotMix
  <2>1. lapse = FALSE
    <3>1. lapse \in BOOLEAN
      BY DEF IInv, TypeOK, FlowTypeOK
    <3> QED BY <3>1
  <2> QED BY <2>1 DEF RoundInv, Fresh, OfRound
<1> QED BY <1>1, Rounds, Invariance, PTL

\* A pipeline that is wired by add() alone, with no call of connect(), is one
\* where each block is executed once in a round (Pipeline.hpp:62-82): add() makes edges that
\* lead ahead, and two edges into a block only from two Sources to the first Node.
THEOREM AddAloneIsEven == Spec => [](manual = {} => Even)
<1>1. IInv /\ AgreeInv /\ LineInv /\ [Next]_vars => LineInv'
  BY LineKept DEF AgreeInv
<1>2. IInv /\ LineInv => (manual = {} => Even)
  BY InLineIsEven DEF LineInv
<1> QED BY <1>1, <1>2, InitLine, Invariance, Agreement, PTL DEF Spec
=============================================================================

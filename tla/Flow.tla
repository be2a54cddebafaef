-------------------------------- MODULE Flow --------------------------------
(***************************************************************************)
(* pt::flow::Flow and its blocks (core/src/flow/Flow.hpp, Producer.hpp,    *)
(* blocks/*.hpp): a graph of Sources, Modules, Aggregators and Sinks, and  *)
(* the execution of one of them, which hands its output on to its          *)
(* consumers by calling their execute(), depth first.                      *)
(*                                                                         *)
(* The C++ call stack is the sequence calls: the executions still to be    *)
(* made, in order.  A block does nothing after it has produced, so that a  *)
(* step takes the first call and puts in its place the calls of its        *)
(* consumers.  An exception drops all of them.                             *)
(*                                                                         *)
(* A value is the set of the process() results of Sources it was made      *)
(* from, each named by its Source and the round, that is, the call of      *)
(* Pipeline::execute() it was made in.                                     *)
(***************************************************************************)
EXTENDS Naturals, SequencesExt

CONSTANTS
    Sources, Modules, Aggregators, Sinks,   \* the blocks, by kind
    RoundRobin,     \* the blocks with ProductionPolicy::RoundRobin
    Batches,        \* the blocks whose Out is a vector
    MaxBatch,       \* bound on the length of such a vector
    MaxRounds       \* bound on the calls of Pipeline::execute()

Nodes == Modules \union Aggregators
Producing == Sources \union Nodes
Blocks == Producing \union Sinks

\* A block is an object of one class.
ASSUME KindsAssumption ==
    /\ Sources \intersect Nodes = {} /\ Modules \intersect Aggregators = {}
    /\ Producing \intersect Sinks = {}

ASSUME BoundsAssumption == MaxBatch \in Nat /\ MaxRounds \in Nat

\* Aggregator's constructor chooses Fanout.
ASSUME PolicyAssumption == RoundRobin \subseteq Sources \union Modules

VARIABLES
    next_nodes,     \* Flow::next_nodes: consumers, with the id each one gave out
    producer_count, \* Aggregator::producer_count
    latest,         \* Aggregator::latest; its domain is the bitmask state
    calls,          \* the executions still to be made
    status,         \* "idle", "running", "thrown" (to the caller) or "undefined"
    round,          \* the calls of Pipeline::execute() so far
    received,       \* the values each Sink has processed in this round; none
                    \* again when the graph is changed after it
    lapse           \* some process() has given nothing, less than asked, or thrown

graphVars == <<next_nodes, producer_count>>
flowVars == <<graphVars, latest, calls, status, round, received, lapse>>

Tokens == Sources \X (1..MaxRounds)

\* nstd::any: empty, holding std::nullopt, or holding a value.
Void == [type |-> "void", data |-> {}]
Nullopt == [type |-> "nullopt", data |-> {}]
Value(data) == [type |-> "value", data |-> data]

Anys == [type : {"void", "nullopt", "value"}, data : SUBSET Tokens]
Ids == Nat
Edges == [to : Blocks, id : Ids]
Calls == [to : Blocks, id : Ids, in : Anys]

Empty == [id \in {} |-> {}]

FlowTypeOK ==
    /\ next_nodes \in [Producing -> Seq(Edges)]
    /\ producer_count \in [Aggregators -> Nat]
    /\ \A a \in Aggregators : \A id \in DOMAIN latest[a] : latest[a][id] \subseteq Tokens
    /\ calls \in Seq(Calls)
    /\ status \in {"idle", "running", "thrown", "undefined"}
    /\ round \in 0..MaxRounds
    /\ received \in [Sinks -> Seq(SUBSET Tokens)]
    /\ lapse \in BOOLEAN

Nothing == [s \in Sinks |-> <<>>]

FlowInit ==
    /\ next_nodes = [b \in Producing |-> <<>>]
    /\ producer_count = [a \in Aggregators |-> 0]
    /\ latest = [a \in Aggregators |-> Empty]
    /\ calls = <<>>
    /\ status = "idle"
    /\ round = 0
    /\ received = Nothing
    /\ lapse = FALSE

-----------------------------------------------------------------------------
(* Wiring *)

\* (mutated) Every producer gets the id 0, as from Flow::register_producer().
SameId(to, i) == 0

\* The id that register_producer() gives the i-th of a row of new producers:
\* only an Aggregator tells its producers apart.
NextId(to, i) == IF to \in Aggregators THEN producer_count[to] + i - 1 ELSE 0

\* b->add_consumer(to) for each block b of a sequence, in this order.
AddConsumer(from, to) ==
    /\ next_nodes' = [b \in Producing |->
          next_nodes[b] \o
            (IF b \in ToSet(from)
             THEN <<[to |-> to, id |-> NextId(to, CHOOSE i \in 1..Len(from) : from[i] = b)]>>
             ELSE <<>>)]
    /\ producer_count' = [a \in Aggregators |->
          producer_count[a] + (IF a = to THEN Len(from) ELSE 0)]

-----------------------------------------------------------------------------
(* Execution *)

Head1(b) == status = "running" /\ calls # <<>> /\ Head(calls).to = b

In == Head(calls).in

\* The first call has returned and the given ones take its place.
Replace(new) ==
    LET left == new \o Tail(calls) IN
    /\ calls' = left
    /\ status' = IF left = <<>> THEN "idle" ELSE "running"

\* An exception leaves all executions, up to the caller of Pipeline::execute().
Throw ==
    /\ calls' = <<>>
    /\ status' = "thrown"
    /\ lapse' = TRUE

\* The calls that hand a value to each of the consumers of b.
ConsumerCalls(b, out) ==
    [i \in 1..Len(next_nodes[b]) |->
        [to |-> next_nodes[b][i].to, id |-> next_nodes[b][i].id, in |-> out]]

\* (mutated) The last consumer, to which the output is moved, is left out.
FanoutToAllButLast(b, out) ==
    /\ next_nodes[b] # <<>>
    /\ Replace(Front(ConsumerCalls(b, out)))

\* The output goes to every consumer.
Fanout(b, out) ==
    /\ next_nodes[b] # <<>>
    /\ Replace(ConsumerCalls(b, out))

\* Without consumers the loop bound next_nodes.size() - 1 wraps around, and
\* next_nodes[0] is read from an empty vector.
FanoutToNobody(b) ==
    /\ next_nodes[b] = <<>>
    /\ calls' = <<>>
    /\ status' = "undefined"

\* The i-th element of a vector goes to the i-th consumer, as far as both go.
Distribute(b, out, n) ==
    Replace(SubSeq(ConsumerCalls(b, out), 1, n))

\* produce(output) of a result of process().
ProduceResult(b, data) ==
    \/ /\ b \notin RoundRobin
       /\ Fanout(b, Value(data)) \/ FanoutToNobody(b)
       /\ UNCHANGED lapse
    \/ /\ b \in RoundRobin \intersect Batches
       /\ \E n \in 0..MaxBatch :
            /\ n <= Len(next_nodes[b])
            /\ Distribute(b, Value(data), n)
            /\ lapse' = (lapse \/ n < Len(next_nodes[b]))
    \/ b \in RoundRobin \ Batches /\ Throw

\* produce(std::nullopt): an any that has_value(), so that it is handed on; it
\* is no vector.
ProduceNothing(b) ==
    \/ /\ b \notin RoundRobin
       /\ Fanout(b, Nullopt) \/ FanoutToNobody(b)
       /\ lapse' = TRUE
    \/ b \in RoundRobin /\ Throw

\* A Source's process() returns a value or nothing, or throws.
ExecuteSource(b) ==
    /\ Head1(b)
    /\ \/ ProduceResult(b, {<<b, round>>})
       \/ ProduceNothing(b)
       \/ Throw
    /\ UNCHANGED <<graphVars, latest, round, received>>

\* A Module's process() needs a value: the cast of anything else throws.
ExecuteModule(b) ==
    /\ Head1(b)
    /\ \/ In.type = "value" /\ ProduceResult(b, In.data)
       \/ In.type = "value" /\ ProduceNothing(b)
       \/ Throw
    /\ UNCHANGED <<graphVars, latest, round, received>>

Heard(a) == Head(calls).id \in DOMAIN latest[a]

AggregatorDrops(a) ==
    /\ Head1(a)
    /\ Heard(a)
    /\ Replace(<<>>)
    /\ UNCHANGED <<graphVars, latest, round, received, lapse>>

AggregatorBadCast(a) ==
    /\ Head1(a)
    /\ ~Heard(a) /\ In.type # "value"
    /\ Throw
    /\ UNCHANGED <<graphVars, latest, round, received>>

WithInput(a) ==
    [id \in DOMAIN latest[a] \union {Head(calls).id} |->
        IF id = Head(calls).id THEN In.data ELSE latest[a][id]]

Complete(a) == DOMAIN WithInput(a) = 0..(producer_count[a] - 1)

AggregatorKeeps(a) ==
    /\ Head1(a)
    /\ ~Heard(a) /\ In.type = "value" /\ ~Complete(a)
    /\ latest' = [latest EXCEPT ![a] = WithInput(a)]
    /\ Replace(<<>>)
    /\ UNCHANGED <<graphVars, round, received, lapse>>

\* (mutated) The inputs of a round stay in latest.
CollectWithoutClear(a) ==
    /\ Head1(a)
    /\ ~Heard(a) /\ In.type = "value" /\ Complete(a)
    /\ \/ ProduceResult(a, UNION {WithInput(a)[id] : id \in DOMAIN WithInput(a)})
       \/ Replace(<<>>) /\ lapse' = TRUE
       \/ Throw
    /\ UNCHANGED <<graphVars, latest, round, received>>

\* All inputs are in: reset, then process(), whose value is produced; when it
\* returns none, an empty any stops here.
AggregatorCollects(a) ==
    /\ Head1(a)
    /\ ~Heard(a) /\ In.type = "value" /\ Complete(a)
    /\ latest' = [latest EXCEPT ![a] = Empty]
    /\ \/ ProduceResult(a, UNION {WithInput(a)[id] : id \in DOMAIN WithInput(a)})
       \/ Replace(<<>>) /\ lapse' = TRUE
       \/ Throw
    /\ UNCHANGED <<graphVars, round, received>>

ExecuteAggregator(a) ==
    \/ AggregatorDrops(a) \/ AggregatorBadCast(a)
    \/ AggregatorKeeps(a) \/ AggregatorCollects(a)

\* A Sink passes over an empty any and a nullopt, and processes a value.
ExecuteSink(s) ==
    /\ Head1(s)
    /\ \/ /\ In.type # "value"
          /\ Replace(<<>>)
          /\ UNCHANGED <<received, lapse>>
       \/ /\ In.type = "value"
          /\ received' = [received EXCEPT ![s] = Append(@, In.data)]
          /\ Replace(<<>>)
          /\ UNCHANGED lapse
       \/ In.type = "value" /\ Throw /\ UNCHANGED received
    /\ UNCHANGED <<graphVars, latest, round>>

ExecuteFirst ==
    \/ \E b \in Sources : ExecuteSource(b)
    \/ \E b \in Modules : ExecuteModule(b)
    \/ \E a \in Aggregators : ExecuteAggregator(a)
    \/ \E s \in Sinks : ExecuteSink(s)
=============================================================================

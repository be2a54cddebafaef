------------------------------ MODULE Pipeline ------------------------------
(***************************************************************************)
(* pt::flow::Pipeline (core/src/flow/Pipeline.hpp): add() wires blocks in  *)
(* the order in which they come, connect() (Flow.hpp) adds edges by hand,  *)
(* and execute() runs the Sources, or the first Node, through the graph.   *)
(***************************************************************************)
EXTENDS Flow

CONSTANT
    ManualEdges     \* the pairs of blocks that connect() may be called with

ASSUME EdgesAssumption == ManualEdges \subseteq Producing \X Blocks

VARIABLES
    sources,        \* Pipeline::sources
    nodes,          \* Pipeline::nodes
    built,          \* the blocks added so far, in order
    manual          \* the edges connected by hand so far

vars == <<flowVars, sources, nodes, built, manual>>

TypeOK ==
    /\ FlowTypeOK
    /\ sources \in Seq(Sources)
    /\ nodes \in Seq(Nodes)
    /\ built \in Seq(Blocks)
    /\ manual \subseteq ManualEdges

Init ==
    /\ FlowInit
    /\ sources = <<>>
    /\ nodes = <<>>
    /\ built = <<>>
    /\ manual = {}

-----------------------------------------------------------------------------

AtRest == status \in {"idle", "thrown"}

GraphChanged ==
    /\ received' = Nothing
    /\ UNCHANGED <<latest, calls, round, lapse>>

\* No block is added twice, as no caller in the repository does.
Added(b) == b \in ToSet(built)

\* A Source is only recorded.  After a Node it is an error, thrown when the
\* Source is in the vector already.
AddSource(s) ==
    /\ AtRest
    /\ ~Added(s)
    /\ sources' = Append(sources, s)
    /\ status' = IF nodes # <<>> THEN "thrown" ELSE status
    /\ built' = Append(built, s)
    /\ UNCHANGED <<graphVars, nodes, manual>>
    /\ GraphChanged

\* (mutated) Only the last Source is connected to the first Node.
UpstreamLastSource ==
    IF nodes # <<>> THEN <<Last(nodes)>>
    ELSE IF sources # <<>> THEN <<Last(sources)>> ELSE <<>>

\* (mutated) The Sources are connected whether there is a Node or not.
UpstreamAll == sources \o (IF nodes # <<>> THEN <<Last(nodes)>> ELSE <<>>)

\* What a new Node or Sink is connected to: the last Node, else every Source.
Upstream == IF nodes # <<>> THEN <<Last(nodes)>> ELSE sources

AddNode(n) ==
    /\ AtRest
    /\ ~Added(n)
    /\ AddConsumer(Upstream, n)
    /\ nodes' = Append(nodes, n)
    /\ built' = Append(built, n)
    /\ UNCHANGED <<status, sources, manual>>
    /\ GraphChanged

AddSink(s) ==
    /\ AtRest
    /\ ~Added(s)
    /\ AddConsumer(Upstream, s)
    /\ built' = Append(built, s)
    /\ UNCHANGED <<status, sources, nodes, manual>>
    /\ GraphChanged

Connect(from, to) ==
    /\ AtRest
    /\ Added(from) /\ Added(to)
    /\ <<from, to>> \in ManualEdges \ manual
    /\ AddConsumer(<<from>>, to)
    /\ manual' = manual \union {<<from, to>>}
    /\ UNCHANGED <<status, sources, nodes, built>>
    /\ GraphChanged

\* Every Source is executed, with the empty any; if there is none, the first
\* Node is.
Execute ==
    LET first == IF sources # <<>> THEN sources
                 ELSE IF nodes # <<>> THEN <<Head(nodes)>> ELSE <<>>
    IN
    /\ AtRest
    /\ round < MaxRounds
    /\ first # <<>>
    /\ round' = round + 1
    /\ received' = Nothing
    /\ calls' = [i \in 1..Len(first) |-> [to |-> first[i], id |-> 0, in |-> Void]]
    /\ status' = "running"
    /\ UNCHANGED <<graphVars, latest, lapse, sources, nodes, built, manual>>

Step == ExecuteFirst /\ UNCHANGED <<sources, nodes, built, manual>>

Next ==
    \/ \E s \in Sources : AddSource(s)
    \/ \E n \in Nodes : AddNode(n)
    \/ \E s \in Sinks : AddSink(s)
    \/ \E e \in ManualEdges : Connect(e[1], e[2])
    \/ Execute
    \/ Step

Spec == Init /\ [][Next]_vars

-----------------------------------------------------------------------------
(* Properties *)

Rank(b) == IF b \in Sources THEN 1 ELSE IF b \in Nodes THEN 2 ELSE 3

\* "Add ALL sources", "Add ALL modules / aggregators", "Add ALL sinks", in this
\* order (Pipeline.hpp:48-51), and something to consume what is produced.
InOrder == \A i, j \in 1..Len(built) : i < j => Rank(built[i]) <= Rank(built[j])

SinksAdded == ToSet(built) \intersect Sinks

BuiltAsDocumented == InOrder /\ sources # <<>> /\ SinksAdded # {}

Edge(b, c) == \E i \in 1..Len(next_nodes[b]) : next_nodes[b][i].to = c

\* All Sources to the first Node, Nodes linearly, the last Node to all Sinks.
Wired(b, c) ==
    \/ <<b, c>> \in manual
    \/ b \in Sources /\ nodes # <<>> /\ c = Head(nodes)
    \/ b \in Sources /\ nodes = <<>> /\ c \in SinksAdded
    \/ \E i \in 1..(Len(nodes) - 1) : b = nodes[i] /\ c = nodes[i + 1]
    \/ nodes # <<>> /\ b = Last(nodes) /\ c \in SinksAdded

WiredUp == \A b \in ToSet(sources) \union ToSet(nodes), c \in Blocks : Edge(b, c) <=> Wired(b, c)

\* The three wiring rules of flow/README.md:33-35, for a pipeline built in the
\* documented order (Pipeline.hpp:62-82).
WiredAsDocumented == BuiltAsDocumented => WiredUp

\* The edges into an Aggregator, and the id that each one carries.
EdgesInto(a) ==
    {e \in UNION {{b} \X DOMAIN next_nodes[b] : b \in Producing} :
        next_nodes[e[1]][e[2]].to = a}

IdOf(e) == next_nodes[e[1]][e[2]].id

\* The edges into an Aggregator carry the ids 0, 1, ... that it counts up to,
\* each once, whatever the order of add() and connect(): otherwise it waits for
\* ever, or collects too early (Flow.hpp:38-41, Aggregator.hpp:71-73).
ProducersNumbered ==
    \A a \in Aggregators :
        /\ {IdOf(e) : e \in EdgesInto(a)} = 0..(producer_count[a] - 1)
        /\ \A e, f \in EdgesInto(a) : IdOf(e) = IdOf(f) => e = f

\* A pipeline that was built as documented never runs out of a block without
\* consumers (Flow.hpp:63-69).
NoUndefinedBehaviour == BuiltAsDocumented => status # "undefined"

\* b was added before c.
Before(b, c) == \E i, j \in DOMAIN built : i < j /\ built[i] = b /\ built[j] = c

\* Edges made by hand lead to a Node that comes later.
ConnectedAhead == \A e \in manual : e[2] \in Nodes /\ Before(e[1], e[2])

\* "Every output is sent to every connected consumer" (flow/README.md:28): with
\* no RoundRobin block, the Sinks of a pipeline have processed the same values
\* in the same order whenever an execution has run to its end.
SinksAgree ==
    (BuiltAsDocumented /\ ConnectedAhead /\ status = "idle" /\ ToSet(built) \intersect RoundRobin = {})
        => \A s, t \in SinksAdded : received[s] = received[t]

\* No Aggregator has two producers, or each of them is executed once in a round:
\* edges lead ahead, the first one from a Source, and no Module has two producers.
Even ==
    \/ \A a \in Aggregators : producer_count[a] <= 1
    \/ /\ \A b \in Producing : \A i \in DOMAIN next_nodes[b] :
             next_nodes[b][i].to \notin Sources /\ Before(b, next_nodes[b][i].to)
       /\ \A m \in Modules : \A e, f \in EdgesInto(m) : e = f
       /\ sources # <<>> /\ nodes # <<>> => Before(sources[1], nodes[1])

\* What a Sink gets in a round is made of this round's values only, as long as
\* every process() has given what it was asked for (Aggregator.hpp:37-53: the
\* bitmask and latest are reset before process() and produce()).
RoundsDoNotMix ==
    (Even /\ ~lapse) =>
        \A s \in Sinks : \A i \in 1..Len(received[s]) :
            \A t \in received[s][i] : t[2] = round

-----------------------------------------------------------------------------
(* The inductive invariant *)

Once(seq) == \A i, j \in DOMAIN seq : seq[i] = seq[j] => i = j

\* The two vectors have the Sources and the Nodes among the blocks added.
Listed ==
    /\ Once(sources) /\ ToSet(sources) = ToSet(built) \intersect Sources
    /\ Once(nodes) /\ ToSet(nodes) = ToSet(built) \intersect Nodes

\* Edges and calls lead to blocks that were added, edges from such blocks.
AmongBuilt ==
    /\ next_nodes \in [Producing -> Seq([to : ToSet(built), id : Ids])]
    /\ \A b \in Producing : next_nodes[b] # <<>> => Added(b)
    /\ \A e \in manual : Added(e[1]) /\ Added(e[2])
    /\ calls \in Seq([to : ToSet(built), id : Ids, in : Anys])

IInv ==
    /\ TypeOK
    /\ DOMAIN latest = Aggregators
    /\ calls # <<>> => round > 0
    /\ Listed /\ AmongBuilt
    /\ ProducersNumbered
    /\ InOrder => WiredUp
    /\ NoUndefinedBehaviour
=============================================================================

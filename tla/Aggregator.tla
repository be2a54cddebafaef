----------------------------- MODULE Aggregator -----------------------------
(***************************************************************************)
(* pt::flow::Aggregator (core/src/flow/blocks/Aggregator.hpp): collects    *)
(* one input from each of its producers, with a bitmask of the producers   *)
(* that were heard, before it calls the user's process().                  *)
(*                                                                         *)
(* An unsigned integer is the set of the positions of its one bits, so     *)
(* that & is \intersect, | is \union and == is =.  The widths of int and   *)
(* size_t are parameters.  Where C++ leaves a conversion or a shift        *)
(* undefined, the operators below give what the x86-64 build computes.     *)
(***************************************************************************)
EXTENDS Naturals

CONSTANTS
    Values,         \* the values of type In
    ThroughOut,     \* what a value of type In is after In -> Out -> In
    MaxProducers,   \* bound on the calls to register_producer()
    IntBits,        \* the width of int
    SizeBits        \* the width of size_t

ASSUME WidthsAssumption ==
    /\ IntBits \in Nat /\ SizeBits \in Nat
    /\ 2 <= IntBits /\ IntBits <= SizeBits
    /\ MaxProducers \in Nat
    /\ ThroughOut \in [Values -> Values]

VARIABLES
    state,              \* Aggregator::state, the bits of the producers heard
    producer_count,     \* Aggregator::producer_count
    latest,             \* Aggregator::latest, producer id -> stored input
    collected,          \* the inputs last passed to process(), by producer
    input,              \* the last input that was not refused or dropped
    outcome             \* how the last call ended

vars == <<state, producer_count, latest, collected, input, outcome>>

Ids == 0..(MaxProducers - 1)

Empty == [id \in {} |-> {}]

TypeOK ==
    /\ state \subseteq 0..(SizeBits - 1)
    /\ producer_count \in 0..MaxProducers
    /\ DOMAIN latest \subseteq Ids
    /\ \A id \in DOMAIN latest : latest[id] \in Values
    /\ DOMAIN collected \subseteq Ids
    /\ \A id \in DOMAIN collected : collected[id] \in Values
    /\ input \in Values
    /\ outcome \in {"none", "registered", "dropped", "bad_cast", "waiting",
                    "result", "no_result", "thrown"}

Init ==
    /\ state = {}
    /\ producer_count = 0
    /\ latest = Empty
    /\ collected = Empty
    /\ input \in Values
    /\ outcome = "none"

-----------------------------------------------------------------------------

\* (mutated) The producers are numbered from one, and bit 0 never set.
BitFromOne(id) == {id + 1}

\* size_t idx = 1 << producer_id, an int: the sign bit is extended, and the
\* shift instruction takes the distance modulo the width.
Bit(id) ==
    IF id % IntBits = IntBits - 1
    THEN (IntBits - 1)..(SizeBits - 1)
    ELSE {id % IntBits}

\* (mutated) pow(2, producer_count - 1): one producer is not waited for.
FullButOne(count) == IF count = 0 THEN {} ELSE 0..(count - 2)

\* (size_t) (static_cast<int>(pow(2, producer_count)) - 1): a power too large
\* for int becomes its least value, and one less wraps around to the greatest.
FullMask(count) ==
    IF count < IntBits - 1 THEN 0..(count - 1) ELSE 0..(IntBits - 2)

register_producer ==
    /\ producer_count < MaxProducers
    /\ producer_count' = producer_count + 1
    /\ outcome' = "registered"
    /\ UNCHANGED <<state, latest, collected, input>>

Heard(id) == state \intersect Bit(id) # {}

\* A second input of a producer in one round is dropped.
DropSecond(id) ==
    /\ Heard(id)
    /\ outcome' = "dropped"
    /\ UNCHANGED <<state, producer_count, latest, collected, input>>

\* any_cast throws before latest and state change.
BadCast(id) ==
    /\ ~Heard(id)
    /\ outcome' = "bad_cast"
    /\ UNCHANGED <<state, producer_count, latest, collected, input>>

\* latest[producer_id] = in, where latest is a map to Out, not to In.
Stored(id, v) ==
    [i \in DOMAIN latest \union {id} |-> IF i = id THEN ThroughOut[v] ELSE latest[i]]

Keep(id, v) ==
    /\ ~Heard(id)
    /\ state \union Bit(id) # FullMask(producer_count)
    /\ state' = state \union Bit(id)
    /\ latest' = Stored(id, v)
    /\ input' = v
    /\ outcome' = "waiting"
    /\ UNCHANGED <<producer_count, collected>>

\* (mutated) latest is cleared after process(), which may throw.
CollectThenClear(id, v) ==
    /\ ~Heard(id)
    /\ state \union Bit(id) = FullMask(producer_count)
    /\ state' = {}
    /\ collected' = Stored(id, v)
    /\ input' = v
    /\ outcome' \in {"result", "no_result", "thrown"}
    /\ latest' = IF outcome' = "thrown" THEN Stored(id, v) ELSE Empty
    /\ UNCHANGED producer_count

\* The round is complete: it is reset, then process() is called; it returns a
\* result, or none, or throws.
Collect(id, v) ==
    /\ ~Heard(id)
    /\ state \union Bit(id) = FullMask(producer_count)
    /\ state' = {}
    /\ latest' = Empty
    /\ collected' = Stored(id, v)
    /\ input' = v
    /\ outcome' \in {"result", "no_result", "thrown"}
    /\ UNCHANGED producer_count

\* The ids that register_producer() gave out.
Producers == 0..(producer_count - 1)

process_any(id) ==
    \/ DropSecond(id) \/ BadCast(id)
    \/ \E v \in Values : Keep(id, v) \/ Collect(id, v)

Next == register_producer \/ \E id \in Producers : process_any(id)

Spec == Init /\ [][Next]_vars

-----------------------------------------------------------------------------
(* Properties *)

\* The bitmask and the map of inputs, kept separately, tell the same producers
\* (Aggregator.hpp:34-46).
MaskMatchesInputs ==
    state = UNION {Bit(id) : id \in DOMAIN latest}

\* An Aggregator never goes on waiting when it has an input of every producer:
\* it "Uses a bitmask to make sure data was received from all producers"
\* (Aggregator.hpp:21), and no more than to make sure.
NeverWaitsForNobody ==
    producer_count > 0 => DOMAIN latest # Producers

\* The Aggregator of Rendezvous: the same offers, kept by producer.
Abstract == INSTANCE Rendezvous WITH
    producers <- Producers,
    pending <- latest,
    met <- collected

\* process() is called with exactly the first input of each registered
\* producer since its last call, as that producer sent it ("waits until it has
\* received an input from every registered producer", flow/README.md:52; "The
\* vector of collected outputs from the previous modules", Aggregator.hpp:60).
ImplementsRendezvous == Abstract!AbsSpec
=============================================================================

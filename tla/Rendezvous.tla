----------------------------- MODULE Rendezvous -----------------------------
(***************************************************************************)
(* What an Aggregator promises (core/src/flow/README.md:52): it "waits     *)
(* until it has received an input from every registered producer before    *)
(* triggering its process logic".  Of several offers of one producer       *)
(* before the meeting the first counts.                                    *)
(***************************************************************************)
EXTENDS Naturals

CONSTANTS Values, MaxProducers

VARIABLES
    producers,      \* the registered producers
    pending,        \* the offers since the last meeting: producer -> value
    met,            \* the offers of the last meeting
    input,          \* the value of the last offer taken
    outcome         \* how the last call ended

absVars == <<producers, pending, met, input, outcome>>

Nothing == [p \in {} |-> {}]

AbsInit ==
    /\ producers = {}
    /\ pending = Nothing
    /\ met = Nothing
    /\ input \in Values
    /\ outcome = "none"

Join(p) ==
    /\ p \notin producers
    /\ producers' = producers \union {p}
    /\ outcome' = "registered"
    /\ UNCHANGED <<pending, met, input>>

Ignore(p) ==
    /\ p \in DOMAIN pending
    /\ outcome' = "dropped"
    /\ UNCHANGED <<producers, pending, met, input>>

\* An offer that is no value of the input type is refused.
Refuse(p) ==
    /\ p \notin DOMAIN pending
    /\ outcome' = "bad_cast"
    /\ UNCHANGED <<producers, pending, met, input>>

With(p, v) == [q \in DOMAIN pending \union {p} |-> IF q = p THEN v ELSE pending[q]]

Wait(p, v) ==
    /\ p \notin DOMAIN pending
    /\ DOMAIN pending \union {p} # producers
    /\ input' = v
    /\ pending' = With(p, v)
    /\ outcome' = "waiting"
    /\ UNCHANGED <<producers, met>>

\* The last producer brings all offers together; the next round starts empty,
\* whatever becomes of this one.
Meet(p, v) ==
    /\ p \notin DOMAIN pending
    /\ DOMAIN pending \union {p} = producers
    /\ input' = v
    /\ met' = With(p, v)
    /\ pending' = Nothing
    /\ outcome' \in {"result", "no_result", "thrown"}
    /\ UNCHANGED producers

AbsNext ==
    \/ \E p \in 0..(MaxProducers - 1) : Join(p)
    \/ \E p \in producers :
         \/ Ignore(p) \/ Refuse(p)
         \/ \E v \in Values : Wait(p, v) \/ Meet(p, v)

AbsSpec == AbsInit /\ [][AbsNext]_absVars
=============================================================================

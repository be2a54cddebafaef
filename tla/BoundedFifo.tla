----------------------------- MODULE BoundedFifo -----------------------------
(***************************************************************************)
(* What a queue of one producer and one consumer promises: first in, first *)
(* out; an operation takes effect in one instant of its call; it fails     *)
(* only for a reason.  A push may be refused only if the queue held        *)
(* AtLeast elements when it was called, the number its constructor was     *)
(* asked for (readerwriterqueue.h:106: "can hold at least `size`           *)
(* elements"); a pop or peek may come back empty-handed only if the queue  *)
(* was empty when it was called (:280: "If the queue has at least one      *)
(* element, moves front to result").  An element may be late: in the queue *)
(* for a peek, and not for a pop before the push that brought it returns.  *)
(***************************************************************************)
EXTENDS Naturals, Sequences

CONSTANTS Values, Nothing

VARIABLES
    atLeast,        \* the capacity that was asked for
    items,          \* the elements in the queue, oldest first
    pushing,        \* NoCall, Late, or the push under way and whether it found room
    popping,        \* NoCall, or the pop or peek under way and what it found
    got             \* what the last pop or peek has returned

absVars == <<atLeast, items, pushing, popping, got>>

NoCall == [op |-> "none"]
Late == [op |-> "late"]

AbsInit ==
    /\ atLeast \in Nat
    /\ items = <<>>
    /\ pushing = NoCall
    /\ popping = NoCall
    /\ got = Nothing

CallPush(v) ==
    /\ pushing = NoCall
    /\ pushing' = [op |-> "push", value |-> v, room |-> Len(items) < atLeast]
    /\ UNCHANGED <<atLeast, items, popping, got>>

Accept ==
    /\ pushing.op = "push"
    /\ items' = Append(items, pushing.value)
    /\ pushing' \in {NoCall, Late}
    /\ UNCHANGED <<atLeast, popping, got>>

Settle == pushing = Late /\ pushing' = NoCall /\ UNCHANGED <<atLeast, items, popping, got>>

Refuse ==
    /\ pushing.op = "push"
    /\ ~pushing.room
    /\ pushing' = NoCall
    /\ UNCHANGED <<atLeast, items, popping, got>>

\* What a pop or peek cannot miss.
Visible(op) == Len(items) - (IF op = "pop" /\ pushing = Late THEN 1 ELSE 0)

CallPop(op) ==
    /\ popping = NoCall
    /\ popping' = [op |-> op, some |-> Visible(op) > 0]
    /\ UNCHANGED <<atLeast, items, pushing, got>>

\* A pop returns the first element and removes it, a peek returns it.
Take ==
    /\ popping # NoCall
    /\ items # <<>>
    /\ items' = IF popping.op = "pop" THEN Tail(items) ELSE items
    /\ got' = Head(items)
    /\ popping' = NoCall
    /\ UNCHANGED <<atLeast, pushing>>

ComeBackEmpty ==
    /\ popping # NoCall
    /\ ~popping.some
    /\ got' = Nothing
    /\ popping' = NoCall
    /\ UNCHANGED <<atLeast, items, pushing>>

\* The destructor takes the elements with it.
Destroy ==
    /\ pushing = NoCall
    /\ popping = NoCall
    /\ items' = <<>>
    /\ UNCHANGED <<atLeast, pushing, popping, got>>

AbsNext ==
    \/ \E v \in Values : CallPush(v)
    \/ Accept
    \/ Settle
    \/ Refuse
    \/ \E op \in {"pop", "peek"} : CallPop(op)
    \/ Take
    \/ ComeBackEmpty
    \/ Destroy

AbsSpec == AbsInit /\ [][AbsNext]_absVars
=============================================================================

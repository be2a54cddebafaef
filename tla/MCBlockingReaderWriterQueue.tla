--------------------- MODULE MCBlockingReaderWriterQueue ---------------------
(* Rings of one and of several blocks, and the blocking queue, for TLC. *)
EXTENDS BlockingReaderWriterQueue

\* With a block of at most two slots: one block of two, one of four, and a ring
\* of five blocks of two; the blocking queue has one block of two to start with.
SomeInstances ==
    {[size |-> n, blocking |-> FALSE] : n \in {1, 2, 4}} \union {[size |-> 1, blocking |-> TRUE]}
\* Enough to fill each of them, and to go once more around the ring of five.
SomePushes == [size \in {1, 2, 4} |-> size + (IF size = 4 THEN 2 ELSE 3)]
=============================================================================

----------------------------- MODULE MCMission -----------------------------
(***************************************************************************)
(* Instances of Mission for TLC.                                           *)
(***************************************************************************)
EXTENDS Mission

Whole == [sources |-> TRUE, module |-> FALSE, sinks |-> TRUE]
First == [Whole EXCEPT !.sinks = FALSE]
Final == [Whole EXCEPT !.sources = FALSE]
Middle == [First EXCEPT !.sources = FALSE]

\* The open ends alternate: a pipeline without sinks is followed by one without
\* sources; a whole pipeline has a mission of its own.
InLine ==
    { <<Whole>>, <<First, Final>>, <<First, [Final EXCEPT !.module = TRUE]>>,
      <<First, Middle, Final>> }

\* They do not: a queue with two producers, or two consumers, one whose consumer
\* comes first, and one that a pipeline has to itself.
OutOfLine == { <<First, First>>, <<Final, Final>>, <<Final, First>>, <<Middle>> }

MCBuilds == InLine \union OutOfLine
=============================================================================

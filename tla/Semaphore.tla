------------------------------ MODULE Semaphore ------------------------------
(***************************************************************************)
(* What a semaphore with one waiter promises: each signal gives a permit,  *)
(* each successful wait takes one, and a wait gives up only if it may and  *)
(* there is no permit at that moment.                                      *)
(***************************************************************************)
EXTENDS Naturals

VARIABLES
    permits,        \* signals not yet taken by a wait
    waiting         \* "no", "patient", "impatient", or how the wait has ended

absVars == <<permits, waiting>>

AbsInit == permits = 0 /\ waiting = "no"

Signal == permits' = permits + 1 /\ UNCHANGED waiting

Wait(w) == waiting = "no" /\ waiting' = w /\ UNCHANGED permits

Grant ==
    /\ waiting \in {"patient", "impatient"}
    /\ permits > 0
    /\ permits' = permits - 1
    /\ waiting' = "granted"

GiveUp ==
    /\ waiting = "impatient"
    /\ permits = 0
    /\ waiting' = "refused"
    /\ UNCHANGED permits

Return == waiting \in {"granted", "refused"} /\ waiting' = "no" /\ UNCHANGED permits

AbsNext ==
    \/ Signal
    \/ \E w \in {"patient", "impatient"} : Wait(w)
    \/ Grant
    \/ GiveUp
    \/ Return

AbsSpec == AbsInit /\ [][AbsNext]_absVars
=============================================================================

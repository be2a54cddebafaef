--------------------------- MODULE BlockOwnership ---------------------------
(***************************************************************************)
(* What the smart buffers promise of each block of memory                  *)
(* (core/src/utils/memory/README.md): it is free, or it has one exclusive  *)
(* owner, or a set of owners that share it; it goes back when the last     *)
(* owner has gone, once, and never before.  Any number of blocks may take  *)
(* a step at the same time.                                                *)
(***************************************************************************)
CONSTANTS
    Blocks,
    Exclusive,      \* the handles that never share a block
    Sharing         \* the handles that may

VARIABLES
    holders,        \* holders[b]: the handles that own block b
    free            \* the blocks that can be allocated

absVars == <<holders, free>>

AbsInit ==
    /\ holders = [b \in Blocks |-> {}]
    /\ free = Blocks

Take(b) ==
    /\ b \in free /\ b \notin free'
    /\ \E h \in Exclusive : holders'[b] = {h}

Share(b) ==
    /\ holders[b] # {} /\ holders[b] \subseteq Sharing
    /\ \E h \in Sharing \ holders[b] : holders'[b] = holders[b] \union {h}
    /\ b \notin free'

\* A handle hands the block on to another one; to an exclusive one only when
\* nobody shares it.
Pass(b) ==
    /\ \E h \in holders[b] :
         \E g \in (IF holders[b] = {h} THEN Exclusive \union Sharing ELSE Sharing) :
            holders'[b] = (holders[b] \ {h}) \union {g}
    /\ b \notin free'

\* The block goes back at once, or later, when its last owner has gone.
Drop(b) ==
    /\ \E h \in holders[b] : holders'[b] = holders[b] \ {h}
    /\ b \in free' => holders'[b] = {}

Return(b) ==
    /\ holders[b] = {} /\ b \notin free
    /\ holders'[b] = {} /\ b \in free'

Rest(b) == holders'[b] = holders[b] /\ (b \in free' <=> b \in free)

AbsNext ==
    \A b \in Blocks :
        Take(b) \/ Share(b) \/ Pass(b) \/ Drop(b) \/ Return(b) \/ Rest(b)

AbsSpec == AbsInit /\ [][AbsNext]_absVars
=============================================================================

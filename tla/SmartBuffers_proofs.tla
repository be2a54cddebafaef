------------------------ MODULE SmartBuffers_proofs ------------------------
(***************************************************************************)
(* Proofs about SmartBuffers, for any pool, threads and buffers: counts    *)
(* are owners, no buffer points to a deleted control block, each block of  *)
(* memory is in one place, and the buffers implement BlockOwnership.       *)
(*                                                                         *)
(* One lemma per action shows that it keeps IInv, and what it does to the  *)
(* places and the sharers of each block; the refinement rests on the       *)
(* latter.                                                                 *)
(***************************************************************************)
EXTENDS SmartBuffers, SequenceTheorems, FiniteSetTheorems, TLAPS

(* Lemmas on the pool's sequence and on counts *)

\* allocate() takes the first free block.
LEMMA TailOfPool ==
    ASSUME NEW S, NEW f \in Seq(S), IsInjective(f), f # <<>>
    PROVE  /\ Tail(f) \in Seq(S) /\ IsInjective(Tail(f))
           /\ Head(f) \in S /\ Head(f) \in ToSet(f)
           /\ ToSet(Tail(f)) = ToSet(f) \ {Head(f)}
<1> DEFINE g == Tail(f)
<1>1. /\ Len(f) \in Nat /\ Len(f) > 0 /\ DOMAIN f = 1..Len(f)
      /\ g \in Seq(S) /\ Len(g) = Len(f) - 1 /\ DOMAIN g = 1..Len(g)
      /\ \A i \in 1..Len(g) : g[i] = f[i + 1]
      /\ Head(f) = f[1] /\ Head(f) \in S
  OBVIOUS
<1>2. IsInjective(g)
  BY <1>1 DEF IsInjective
<1>3. ToSet(g) = ToSet(f) \ {Head(f)}
  <2>1. ASSUME NEW i \in 1..Len(g)
        PROVE  g[i] \in ToSet(f) \ {Head(f)}
    <3>1. i + 1 \in DOMAIN f /\ 1 \in DOMAIN f /\ i + 1 # 1
      BY <1>1
    <3>2. f[i + 1] # f[1]
      BY <3>1 DEF IsInjective
    <3> QED
      BY <1>1, <3>1, <3>2 DEF ToSet
  <2>2. ASSUME NEW j \in 1..Len(f), f[j] # f[1]
        PROVE  f[j] \in ToSet(g)
    <3>1. j - 1 \in 1..Len(g) /\ g[j - 1] = f[j]
      BY <1>1, <2>2
    <3> QED
      BY <1>1, <3>1 DEF ToSet
  <2>3. /\ \A x : x \in ToSet(g) <=> \E i \in 1..Len(g) : x = g[i]
        /\ \A x : x \in ToSet(f) <=> \E j \in 1..Len(f) : x = f[j]
    BY <1>1 DEF ToSet
  <2>4. ASSUME NEW x \in ToSet(g) PROVE x \in ToSet(f) \ {Head(f)}
    BY <2>1, <2>3
  <2>5. ASSUME NEW x \in ToSet(f) \ {Head(f)} PROVE x \in ToSet(g)
    BY <1>1, <2>2, <2>3
  <2> HIDE DEF g
  <2> QED
    BY <2>4, <2>5
<1>4. Head(f) \in ToSet(f)
  BY <1>1 DEF ToSet
<1> QED
  BY <1>1, <1>2, <1>3, <1>4

\* release_block() puts a block behind the free ones.
LEMMA AppendToPool ==
    ASSUME NEW S, NEW f \in Seq(S), IsInjective(f), NEW b \in S, b \notin ToSet(f)
    PROVE  /\ Append(f, b) \in Seq(S) /\ IsInjective(Append(f, b))
           /\ ToSet(Append(f, b)) = ToSet(f) \union {b}
<1> DEFINE g == Append(f, b)
<1>1. /\ Len(f) \in Nat /\ DOMAIN f = 1..Len(f)
      /\ g \in Seq(S) /\ Len(g) = Len(f) + 1 /\ DOMAIN g = 1..Len(g)
      /\ \A i \in 1..Len(f) : g[i] = f[i]
      /\ g[Len(f) + 1] = b
  OBVIOUS
<1>2. \A i \in 1..Len(f) : f[i] # b
  BY <1>1 DEF ToSet
<1>3. 1..Len(g) = (1..Len(f)) \union {Len(f) + 1}
  BY <1>1
<1>4. IsInjective(g)
  BY <1>1, <1>2, <1>3 DEF IsInjective
<1>5. ToSet(g) = ToSet(f) \union {b}
  BY <1>1, <1>3 DEF ToSet
<1> QED
  BY <1>1, <1>4, <1>5

LEMMA CountOfMore ==
    ASSUME NEW S, IsFiniteSet(S), NEW x, x \notin S
    PROVE  IsFiniteSet(S \union {x}) /\ Cardinality(S \union {x}) = Cardinality(S) + 1
BY FS_AddElement

LEMMA CountOfLess ==
    ASSUME NEW S, IsFiniteSet(S), NEW x \in S
    PROVE  /\ IsFiniteSet(S \ {x}) /\ Cardinality(S \ {x}) \in Nat
           /\ Cardinality(S \ {x}) = Cardinality(S) - 1
           /\ Cardinality(S) \in Nat /\ Cardinality(S) >= 1
<1>1. /\ IsFiniteSet(S \ {x}) /\ Cardinality(S \ {x}) = Cardinality(S) - 1
  BY FS_RemoveElement
<1>2. Cardinality(S \ {x}) \in Nat /\ Cardinality(S) \in Nat
  BY <1>1, FS_CardinalityType
<1> QED
  BY <1>1, <1>2

\* The sets that are counted are finite.
LEMMA SharesFinite ==
    \A c : /\ IsFiniteSet(Shares(c)) /\ Cardinality(Shares(c)) \in Nat
           /\ IsFiniteSet(Pending(c)) /\ Cardinality(Pending(c)) \in Nat
<1>1. \A c : Shares(c) \in SUBSET Shareds /\ Pending(c) \in SUBSET Threads
  BY DEF Shares, Pending
<1>2. \A c : IsFiniteSet(Shares(c)) /\ IsFiniteSet(Pending(c))
  BY <1>1, FS_Subset, HandlesAssumption
<1> QED
  BY <1>2, FS_CardinalityType

-----------------------------------------------------------------------------
(* What the invariant says of one block and of one control block *)

InPool(b) == b \in ToSet(free_blocks_)
OwnersWith(b) == {h \in Owners : data_[h] = b}
CtrlsWith(b) == {c \in Ctrls : block[c].live /\ block[c].ptr = b /\ ~Emptied(c)}

\* Block b is in one place, by its kind.
OnePlace(b) ==
    \/ InPool(b) /\ OwnersWith(b) = {} /\ CtrlsWith(b) = {}
    \/ ~InPool(b) /\ (\E h : OwnersWith(b) = {h}) /\ CtrlsWith(b) = {}
    \/ ~InPool(b) /\ OwnersWith(b) = {} /\ (\E c : CtrlsWith(b) = {c})

Conserved == IsInjective(free_blocks_) /\ \A b \in Blocks : OnePlace(b)

LEMMA ConservedIff == BlocksConserved <=> Conserved
<1> SUFFICES ASSUME NEW b
             PROVE  (\E x \in Places(b) : Places(b) = {x}) <=> OnePlace(b)
  BY DEF BlocksConserved, Conserved
<1>1. \A x : x \in Places(b) <=>
        \/ x = <<"pool">> /\ InPool(b)
        \/ \E h \in OwnersWith(b) : x = <<"owner", h>>
        \/ \E c \in CtrlsWith(b) : x = <<"control", c>>
  BY DEF Places, InPool, OwnersWith, CtrlsWith
<1>2. /\ \A h, g : <<"owner", h>> = <<"owner", g>> => h = g
      /\ \A h, c : <<"owner", h>> # <<"control", c>>
      /\ \A h, c : <<"control", h>> = <<"control", c>> => h = c
      /\ \A h : <<"pool">> # <<"owner", h>> /\ <<"pool">> # <<"control", h>>
  OBVIOUS
<1>3. ASSUME NEW x \in Places(b), Places(b) = {x}
      PROVE  OnePlace(b)
  <2>1. CASE x = <<"pool">>
    <3>1. InPool(b)
      BY <1>1, <1>2, <2>1
    <3>2. OwnersWith(b) = {} /\ CtrlsWith(b) = {}
      BY <1>1, <1>2, <1>3, <2>1
    <3> QED
      BY <3>1, <3>2 DEF OnePlace
  <2>2. CASE \E h \in OwnersWith(b) : x = <<"owner", h>>
    <3>1. PICK h \in OwnersWith(b) : x = <<"owner", h>>
      BY <2>2
    <3>2. ASSUME NEW g \in OwnersWith(b) PROVE g = h
      <4>1. <<"owner", g>> \in Places(b)
        BY <1>1
      <4> QED
        BY <4>1, <1>2, <1>3, <3>1
    <3>3. ASSUME NEW c \in CtrlsWith(b) PROVE FALSE
      <4>1. <<"control", c>> \in Places(b)
        BY <1>1
      <4> QED
        BY <4>1, <1>2, <1>3, <3>1
    <3>4. <<"pool">> \notin Places(b)
      BY <1>2, <1>3, <3>1
    <3>5. ~InPool(b)
      BY <1>1, <3>4
    <3> QED
      BY <3>2, <3>3, <3>5 DEF OnePlace
  <2>3. CASE \E c \in CtrlsWith(b) : x = <<"control", c>>
    <3>1. PICK c \in CtrlsWith(b) : x = <<"control", c>>
      BY <2>3
    <3>2. ASSUME NEW d \in CtrlsWith(b) PROVE d = c
      <4>1. <<"control", d>> \in Places(b)
        BY <1>1
      <4> QED
        BY <4>1, <1>2, <1>3, <3>1
    <3>3. ASSUME NEW h \in OwnersWith(b) PROVE FALSE
      <4>1. <<"owner", h>> \in Places(b)
        BY <1>1
      <4> QED
        BY <4>1, <1>2, <1>3, <3>1
    <3>4. <<"pool">> \notin Places(b)
      BY <1>2, <1>3, <3>1
    <3>5. ~InPool(b)
      BY <1>1, <3>4
    <3> QED
      BY <3>2, <3>3, <3>5 DEF OnePlace
  <2> QED
    BY <1>1, <2>1, <2>2, <2>3
<1>4. ASSUME OnePlace(b)
      PROVE  \E x \in Places(b) : Places(b) = {x}
  <2>1. CASE InPool(b) /\ OwnersWith(b) = {} /\ CtrlsWith(b) = {}
    <3>1. <<"pool">> \in Places(b) /\ \A x \in Places(b) : x = <<"pool">>
      BY <1>1, <2>1
    <3> QED
      BY <3>1
  <2>2. CASE ~InPool(b) /\ (\E h : OwnersWith(b) = {h}) /\ CtrlsWith(b) = {}
    <3>1. PICK h : OwnersWith(b) = {h}
      BY <2>2
    <3>2. <<"owner", h>> \in Places(b) /\ \A x \in Places(b) : x = <<"owner", h>>
      BY <1>1, <2>2, <3>1
    <3> QED
      BY <3>2
  <2>3. CASE ~InPool(b) /\ OwnersWith(b) = {} /\ (\E c : CtrlsWith(b) = {c})
    <3>1. PICK c : CtrlsWith(b) = {c}
      BY <2>3
    <3>2. <<"control", c>> \in Places(b) /\ \A x \in Places(b) : x = <<"control", c>>
      BY <1>1, <2>3, <3>1
    <3> QED
      BY <3>2
  <2> QED
    BY <1>4, <2>1, <2>2, <2>3 DEF OnePlace
<1> QED
  BY <1>3, <1>4

\* The thread that brought the count of a control block to zero.
AtZero(t) == op[t].pc \in {"last", "delete", "consumed"}

\* Nobody else has to do with the control block whose count is zero.
LEMMA ZeroIsAlone ==
    ASSUME IInv, NEW t \in Threads, AtZero(t)
    PROVE  LET c == ctrl_[op[t].s] IN
           /\ op[t].s \in Shareds /\ c \in Ctrls /\ block[c].live /\ block[c].ref = 0
           /\ Shares(c) = {} /\ Pending(c) = {}
           /\ \A s \in Shareds : ctrl_[s] = c => s = op[t].s
<1> DEFINE c == ctrl_[op[t].s]
<1>1. op[t].s \in Shareds /\ c # None
  BY DEF IInv, CallsFormed, Formed, AtZero, NoOp
<1>2. c \in Ctrls /\ block[c].live
  BY <1>1 DEF IInv, TypeOK, BuffersAreLive
<1>3. block[c].ref = 0
  BY DEF IInv, AloneAtZero, AtZero
<1>4. Cardinality(Shares(c)) = 0 /\ Cardinality(Pending(c)) = 0
  BY <1>2, <1>3, SharesFinite DEF IInv, CountsAreOwners
<1>5. Shares(c) = {} /\ Pending(c) = {}
  BY <1>4, SharesFinite, FS_EmptySet
<1>6. ASSUME NEW s \in Shareds, ctrl_[s] = c
      PROVE  s = op[t].s
  <2>1. GaveUp(s) \/ Consumed(s)
    BY <1>5, <1>6 DEF Shares
  <2>2. PICK u \in Threads : op[u].s = s /\ AtZero(u)
    BY <2>1 DEF GaveUp, Consumed, AtZero
  <2>3. u = t
    BY <1>6, <2>2 DEF IInv, AloneAtZero, AtZero
  <2> QED
    BY <2>2, <2>3
<1> QED
  BY <1>1, <1>2, <1>3, <1>5, <1>6

\* The invariant in the form the steps are proved in.
CallsAndCounts ==
    /\ TypeOK /\ CallsFormed /\ AloneAtZero
    /\ CountsAreOwners /\ BuffersAreLive /\ PointersSet

LEMMA InParts == IInv <=> CallsAndCounts /\ Conserved
BY ConservedIff DEF IInv, CallsAndCounts

\* Every block is where it was.
PlacesSame ==
    \A b : InPool(b)' = InPool(b) /\ OwnersWith(b)' = OwnersWith(b) /\ CtrlsWith(b)' = CtrlsWith(b)

\* The buffers that have, or are about to be assigned, a share of c.
SharersOf(c) ==
    {s \in Shareds : \/ ctrl_[s] = c /\ ~GaveUp(s)
                     \/ \E t \in Threads : op[t].s = s /\ op[t].next = c}

\* At most one of them comes or goes at a time.
SharesChange(c) ==
    \/ SharersOf(c)' = SharersOf(c)
    \/ \E g \in Shareds \ SharersOf(c) :
          SharersOf(c) # {} /\ SharersOf(c)' = SharersOf(c) \union {g}
    \/ \E h \in SharersOf(c), g \in Shareds : SharersOf(c)' = (SharersOf(c) \ {h}) \union {g}
    \/ \E h \in SharersOf(c) : SharersOf(c)' = SharersOf(c) \ {h}

SharesStep == PlacesSame /\ \A c \in Ctrls : ~Emptied(c) => SharesChange(c)

\* Block b and its sharers are left alone.
Same(b) ==
    /\ InPool(b)' <=> InPool(b)
    /\ OwnersWith(b)' = OwnersWith(b) /\ CtrlsWith(b)' = CtrlsWith(b)
    /\ \A c \in CtrlsWith(b) : SharersOf(c)' = SharersOf(c)

\* A block gets a control block, with one share; the last share is released; a
\* block without shares goes back to the pool.
Becomes ==
    \E a \in Blocks, h \in Owners, s \in Shareds :
       /\ OwnersWith(a) = {h} /\ ~InPool(a)'
       /\ \E c : CtrlsWith(a)' = {c} /\ SharersOf(c)' = {s}
       /\ \A b \in Blocks \ {a} : Same(b)

Leaves ==
    \E a \in Blocks, h \in Owners, s \in Shareds :
       /\ OwnersWith(a)' = {h} /\ ~InPool(a)'
       /\ \E c : CtrlsWith(a) = {c} /\ SharersOf(c) = {s}
       /\ \A b \in Blocks \ {a} : Same(b)

Returns ==
    \E a \in Blocks :
       /\ ~InPool(a) /\ InPool(a)'
       /\ \E c : CtrlsWith(a) = {c} /\ SharersOf(c) = {}
       /\ \A b \in Blocks \ {a} : Same(b)

\* The buffers of one thread's call are not those of another's.
LEMMA NotShared ==
    ASSUME CallsFormed, NEW t \in Threads, NEW u \in Threads, t # u,
           NEW x, x # None, x = op[t].s \/ x = op[t].other
    PROVE  x # op[u].s /\ x # op[u].other
BY DEF CallsFormed, Uses

\* A call that has begun is about a buffer with a control block.
LEMMA CallHolds ==
    ASSUME CallsFormed
    PROVE  \A t \in Threads :
             op[t].pc \in {"drop", "last", "delete", "consumed"} =>
                op[t].s \in Shareds /\ ctrl_[op[t].s] # None
BY DEF CallsFormed, Formed, NoOp

\* A call keeps its form while its buffers do.
LEMMA StaysFormed ==
    ASSUME NEW t \in Threads, Formed(t), op'[t] = op[t],
           op[t].s \in Shareds /\ ctrl_[op[t].s] # None => ctrl_'[op[t].s] # None,
           op[t].other \in Releaseds /\ data_[op[t].other] = None => data_'[op[t].other] = None
    PROVE  Formed(t)'
BY DEF Formed, NoOp

\* Threads stay alone at zero that are left alone.
LEMMA StayAlone ==
    ASSUME AloneAtZero,
           \A t \in Threads : AtZero(t)' =>
              /\ AtZero(t) /\ op'[t].s = op[t].s /\ ctrl_'[op[t].s] = ctrl_[op[t].s]
              /\ block'[ctrl_[op[t].s]].ref = block[ctrl_[op[t].s]].ref
    PROVE  AloneAtZero'
BY DEF AloneAtZero, AtZero

\* A buffer that no call is about owns its share.
LEMMA IdleShares ==
    ASSUME NEW s \in Shareds, Idle(s)
    PROVE  ~GaveUp(s) /\ ~Consumed(s) /\ s \in Shares(ctrl_[s])
BY DEF Idle, GaveUp, Consumed, Shares

-----------------------------------------------------------------------------
(* Steps of the exclusive owners *)

\* Block b is free or in one exclusive buffer, or else in a control block.
Exclusive(b) ==
    \/ InPool(b) /\ OwnersWith(b) = {}
    \/ ~InPool(b) /\ \E h : OwnersWith(b) = {h}

Elsewhere(b) == ~InPool(b) /\ OwnersWith(b) = {}

\* A block that is taken, given back, handed on, or left alone.
OwnersChange(b) ==
    \/ InPool(b) /\ ~InPool(b)' /\ \E h \in Owners : OwnersWith(b)' = {h}
    \/ \E h \in Owners : OwnersWith(b) = {h} /\ OwnersWith(b)' = {} /\ InPool(b)'
    \/ ~InPool(b)' /\ \E h, g \in Owners : OwnersWith(b) = {h} /\ OwnersWith(b)' = {g}
    \/ (InPool(b)' <=> InPool(b)) /\ OwnersWith(b)' = OwnersWith(b)

OwnersMove == UNCHANGED <<ctrl_, block, op>> /\ \A b \in Blocks : OwnersChange(b)

\* They change neither control blocks nor calls.
LEMMA OwnersStep ==
    ASSUME IInv, UNCHANGED <<ctrl_, block, op>>,
           free_blocks_' \in Seq(Blocks), data_' \in [Owners -> Blocks \union {None}],
           \A r \in Releaseds : data_[r] = None /\ ~Idle(r) => data_'[r] = None,
           IsInjective(free_blocks_'),
           \A b \in Blocks : Exclusive(b) => Exclusive(b)',
           \A b \in Blocks : Elsewhere(b) => Elsewhere(b)'
    PROVE  IInv'
<1>1. TypeOK'
  BY DEF IInv, TypeOK
<1>2. CallsFormed'
  BY DEF IInv, CallsFormed, Formed, Uses, Idle
<1>3. AloneAtZero' /\ CountsAreOwners' /\ BuffersAreLive' /\ PointersSet'
  BY DEF IInv, AloneAtZero, CountsAreOwners, BuffersAreLive, PointersSet,
         Shares, Pending, GaveUp, Consumed, Emptied
<1>4. \A b : CtrlsWith(b)' = CtrlsWith(b)
  BY DEF CtrlsWith, Emptied
<1>5. ASSUME NEW b \in Blocks PROVE OnePlace(b)'
  <2>1. OnePlace(b)
    BY InParts DEF Conserved
  <2>2. CASE Exclusive(b)
    BY <1>4, <2>1, <2>2 DEF OnePlace, Exclusive
  <2>3. CASE Elsewhere(b)
    BY <1>4, <2>1, <2>3 DEF OnePlace, Elsewhere
  <2> QED
    BY <2>1, <2>2, <2>3 DEF OnePlace, Exclusive, Elsewhere
<1>6. Conserved'
  BY <1>5 DEF Conserved, Blocks
<1> QED
  BY <1>1, <1>2, <1>3, <1>6, InParts, PTL DEF CallsAndCounts

LEMMA AllocateKeeps ==
    ASSUME IInv, NEW u \in Uniques, Allocate(u)
    PROVE  IInv' /\ OwnersMove
<1>1. /\ free_blocks_ \in Seq(Blocks) /\ IsInjective(free_blocks_) /\ free_blocks_ # <<>>
      /\ data_ \in [Owners -> Blocks \union {None}] /\ u \in Owners
      /\ \A b \in Blocks : OnePlace(b)
  BY InParts DEF IInv, TypeOK, Allocate, BlocksConserved, Owners, Conserved
<1>2. PICK a \in Blocks : a = Head(free_blocks_)
  BY <1>1, TailOfPool
<1>3. data_' = [data_ EXCEPT ![u] = a] /\ free_blocks_' = Tail(free_blocks_)
  BY <1>2 DEF Allocate
<1>4. /\ free_blocks_' \in Seq(Blocks) /\ IsInjective(free_blocks_') /\ InPool(a)
      /\ \A b : InPool(b)' <=> InPool(b) /\ b # a
  BY <1>1, <1>2, <1>3, TailOfPool DEF InPool
<1>5. OwnersWith(a) = {} /\ None \notin Blocks
  BY <1>1, <1>2, <1>4, BlocksAssumption DEF OnePlace, Blocks
<1>6. OwnersWith(a)' = {u}
  BY <1>1, <1>3, <1>5 DEF OwnersWith
<1>7. \A b \in Blocks : b # a => OwnersWith(b)' = OwnersWith(b)
  BY <1>1, <1>3, <1>5 DEF OwnersWith, Allocate
<1>8. \A r \in Releaseds : data_'[r] = data_[r]
  BY <1>1, <1>3, HandlesAssumption DEF Owners
<1>9. \A b \in Blocks : Exclusive(b) => Exclusive(b)'
  BY <1>4, <1>6, <1>7 DEF Exclusive
<1>10. \A b \in Blocks : Elsewhere(b) => Elsewhere(b)'
  BY <1>4, <1>7 DEF Elsewhere
<1>11. data_' \in [Owners -> Blocks \union {None}]
  BY <1>1, <1>3
<1>12. ASSUME NEW b \in Blocks
       PROVE  OwnersChange(b)
  <2>1. CASE b = a
    BY <1>1, <1>4, <1>6, <1>7, <2>1 DEF OwnersChange
  <2>2. CASE b # a
    BY <1>1, <1>4, <1>6, <1>7, <2>2 DEF OwnersChange
  <2> QED
    BY <2>1, <2>2
<1> QED
  BY <1>1, <1>4, <1>8, <1>9, <1>10, <1>11, <1>12, OwnersStep DEF Allocate, OwnersMove

LEMMA ResetKeeps ==
    ASSUME IInv, NEW h \in Owners, Reset(h)
    PROVE  IInv' /\ OwnersMove
<1>1. /\ free_blocks_ \in Seq(Blocks) /\ IsInjective(free_blocks_)
      /\ data_ \in [Owners -> Blocks \union {None}] /\ None \notin Blocks
      /\ \A b \in Blocks : OnePlace(b)
  BY InParts, BlocksAssumption DEF IInv, TypeOK, BlocksConserved, Conserved, Blocks
<1>2. PICK a \in Blocks : a = data_[h]
  BY <1>1 DEF Reset
<1>3. data_' = [data_ EXCEPT ![h] = None] /\ free_blocks_' = Append(free_blocks_, a)
  BY <1>2 DEF Reset, Back
<1>4. ~InPool(a) /\ OwnersWith(a) = {h}
  BY <1>1, <1>2 DEF OnePlace, OwnersWith
<1>5. /\ free_blocks_' \in Seq(Blocks) /\ IsInjective(free_blocks_')
      /\ \A b : InPool(b)' <=> InPool(b) \/ b = a
  BY <1>1, <1>3, <1>4, AppendToPool DEF InPool
<1>6. OwnersWith(a)' = {}
  BY <1>1, <1>3, <1>4 DEF OwnersWith
<1>7. \A b \in Blocks : b # a => OwnersWith(b)' = OwnersWith(b)
  BY <1>1, <1>2, <1>3 DEF OwnersWith
<1>8. /\ \A r \in Releaseds : data_[r] = None => data_'[r] = None
      /\ data_' \in [Owners -> Blocks \union {None}]
  BY <1>1, <1>3 DEF Owners
<1>9. \A b \in Blocks : Exclusive(b) => Exclusive(b)'
  BY <1>5, <1>6, <1>7 DEF Exclusive
<1>10. \A b \in Blocks : Elsewhere(b) => Elsewhere(b)'
  BY <1>4, <1>5, <1>7 DEF Elsewhere
<1>11. ASSUME NEW b \in Blocks
       PROVE  OwnersChange(b)
  <2>1. CASE b = a
    BY <1>4, <1>5, <1>6, <1>7, <2>1 DEF OwnersChange
  <2>2. CASE b # a
    BY <1>4, <1>5, <1>6, <1>7, <2>2 DEF OwnersChange
  <2> QED
    BY <2>1, <2>2
<1> QED
  BY <1>5, <1>8, <1>9, <1>10, <1>11, OwnersStep DEF Reset, OwnersMove

LEMMA TransferKeeps ==
    ASSUME IInv, NEW h \in Owners, NEW g \in Owners, Transfer(h, g)
    PROVE  IInv' /\ OwnersMove
<1>1. /\ free_blocks_ \in Seq(Blocks) /\ IsInjective(free_blocks_)
      /\ data_ \in [Owners -> Blocks \union {None}] /\ None \notin Blocks
      /\ \A b \in Blocks : OnePlace(b)
  BY InParts, BlocksAssumption DEF IInv, TypeOK, BlocksConserved, Conserved, Blocks
<1>2. PICK a \in Blocks : a = data_[h]
  BY <1>1 DEF Transfer
<1>3. /\ data_' = [[data_ EXCEPT ![h] = None] EXCEPT ![g] = a] /\ free_blocks_' = free_blocks_
      /\ data_[g] = None /\ h # g
  BY <1>1, <1>2 DEF Transfer
<1>4. OwnersWith(a) = {h} /\ ~InPool(a)
  BY <1>1, <1>2 DEF OnePlace, OwnersWith
<1>5. OwnersWith(a)' = {g}
  BY <1>1, <1>3, <1>4 DEF OwnersWith
<1>6. \A b \in Blocks : InPool(b)' = InPool(b) /\ (b # a => OwnersWith(b)' = OwnersWith(b))
  BY <1>1, <1>2, <1>3 DEF OwnersWith, InPool
<1>7. \A r \in Releaseds : data_[r] = None /\ ~Idle(r) => data_'[r] = None
  BY <1>1, <1>3 DEF Owners, Transfer
<1>8. data_' \in [Owners -> Blocks \union {None}]
  BY <1>1, <1>3
<1>9. \A b \in Blocks : Exclusive(b) => Exclusive(b)'
  BY <1>4, <1>5, <1>6 DEF Exclusive
<1>10. \A b \in Blocks : Elsewhere(b) => Elsewhere(b)'
  BY <1>4, <1>6 DEF Elsewhere
<1>11. \A b \in Blocks : OwnersChange(b)
  BY <1>4, <1>5, <1>6 DEF OwnersChange
<1> QED
  BY <1>1, <1>3, <1>7, <1>8, <1>9, <1>10, <1>11, OwnersStep DEF Transfer, OwnersMove

LEMMA MoveAssignKeeps ==
    ASSUME IInv, NEW u \in Uniques, NEW v \in Uniques, MoveAssign(u, v)
    PROVE  IInv' /\ OwnersMove
<1>1. /\ free_blocks_ \in Seq(Blocks) /\ IsInjective(free_blocks_)
      /\ data_ \in [Owners -> Blocks \union {None}] /\ None \notin Blocks
      /\ u \in Owners /\ v \in Owners /\ u # v
      /\ \A b \in Blocks : OnePlace(b)
  BY InParts, BlocksAssumption DEF IInv, TypeOK, BlocksConserved, Conserved, Blocks,
                                   Owners, MoveAssign
<1>2. PICK a \in Blocks : a = data_[u]
  BY <1>1 DEF MoveAssign
<1>3. PICK d \in Blocks \union {None} : d = data_[v]
  BY <1>1
<1>4. /\ data_' = [[data_ EXCEPT ![u] = d] EXCEPT ![v] = None]
      /\ free_blocks_' = Append(free_blocks_, a)
  BY <1>2, <1>3 DEF MoveAssign, Back
<1>5. ~InPool(a) /\ OwnersWith(a) = {u} /\ a # d
  BY <1>1, <1>2, <1>3 DEF OnePlace, OwnersWith
<1>6. /\ free_blocks_' \in Seq(Blocks) /\ IsInjective(free_blocks_')
      /\ \A b : InPool(b)' <=> InPool(b) \/ b = a
  BY <1>1, <1>4, <1>5, AppendToPool DEF InPool
<1>7. OwnersWith(a)' = {}
  BY <1>1, <1>4, <1>5 DEF OwnersWith
<1>8. \A b \in Blocks : b # a /\ b # d => OwnersWith(b)' = OwnersWith(b)
  BY <1>1, <1>2, <1>3, <1>4 DEF OwnersWith
<1>9. d \in Blocks => OwnersWith(d) = {v} /\ OwnersWith(d)' = {u} /\ ~InPool(d)
  <2>1. d \in Blocks => OwnersWith(d) = {v} /\ ~InPool(d)
    BY <1>1, <1>3 DEF OnePlace, OwnersWith
  <2> QED
    BY <1>1, <1>4, <2>1 DEF OwnersWith
<1>10. /\ \A r \in Releaseds : data_[r] = None => data_'[r] = None
       /\ data_' \in [Owners -> Blocks \union {None}]
  BY <1>1, <1>4, HandlesAssumption DEF Owners
<1>11. \A b \in Blocks : Exclusive(b) => Exclusive(b)'
  BY <1>5, <1>6, <1>7, <1>8, <1>9 DEF Exclusive
<1>12. \A b \in Blocks : Elsewhere(b) => Elsewhere(b)'
  BY <1>5, <1>6, <1>8, <1>9 DEF Elsewhere
<1>13. ASSUME NEW b \in Blocks
       PROVE  OwnersChange(b)
  <2>1. CASE b = a
    BY <1>1, <1>5, <1>6, <1>7, <2>1 DEF OwnersChange
  <2>2. CASE b = d
    BY <1>1, <1>5, <1>6, <1>9, <2>2 DEF OwnersChange
  <2>3. CASE b # a /\ b # d
    BY <1>6, <1>8, <2>3 DEF OwnersChange
  <2> QED
    BY <2>1, <2>2, <2>3
<1> QED
  BY <1>6, <1>10, <1>11, <1>12, <1>13, OwnersStep DEF MoveAssign, OwnersMove

LEMMA SwapKeeps ==
    ASSUME IInv, NEW u \in Uniques, NEW v \in Uniques, Swap(u, v)
    PROVE  IInv' /\ OwnersMove
<1>1. /\ free_blocks_ \in Seq(Blocks) /\ IsInjective(free_blocks_)
      /\ data_ \in [Owners -> Blocks \union {None}] /\ None \notin Blocks
      /\ u \in Owners /\ v \in Owners /\ u # v
  BY BlocksAssumption DEF IInv, TypeOK, BlocksConserved, Blocks, Owners, Swap
<1>2. /\ data_' = [[data_ EXCEPT ![u] = data_[v]] EXCEPT ![v] = data_[u]]
      /\ free_blocks_' = free_blocks_
  BY DEF Swap
<1>3. /\ data_'[u] = data_[v] /\ data_'[v] = data_[u]
      /\ \A h \in Owners : h # u /\ h # v => data_'[h] = data_[h]
      /\ data_' \in [Owners -> Blocks \union {None}]
  BY <1>1, <1>2
<1>4. \A b : InPool(b)' = InPool(b)
  BY <1>2 DEF InPool
<1>5. ASSUME NEW b \in Blocks, NEW h, OwnersWith(b) = {h}
      PROVE  h \in Owners /\ \E g \in Owners : OwnersWith(b)' = {g}
  <2>1. CASE h = u
    <3>1. OwnersWith(b)' = {v}
      BY <1>1, <1>3, <1>5, <2>1 DEF OwnersWith
    <3> QED
      BY <1>1, <2>1, <3>1
  <2>2. CASE h = v
    <3>1. OwnersWith(b)' = {u}
      BY <1>1, <1>3, <1>5, <2>2 DEF OwnersWith
    <3> QED
      BY <1>1, <2>2, <3>1
  <2>3. CASE h # u /\ h # v
    <3>1. OwnersWith(b)' = {h} /\ h \in Owners
      BY <1>1, <1>3, <1>5, <2>3 DEF OwnersWith
    <3> QED
      BY <3>1
  <2>4. h \in Owners
    BY <1>5 DEF OwnersWith
  <2> QED
    BY <1>1, <2>1, <2>2, <2>3, <2>4
<1>6. \A b \in Blocks : OwnersWith(b) = {} => OwnersWith(b)' = {}
  BY <1>1, <1>3 DEF OwnersWith
<1>7. \A b \in Blocks : Exclusive(b) => Exclusive(b)'
  BY <1>4, <1>5, <1>6 DEF Exclusive
<1>8. \A b \in Blocks : Elsewhere(b) => Elsewhere(b)'
  BY <1>4, <1>6 DEF Elsewhere
<1>9. \A r \in Releaseds : data_'[r] = data_[r]
  BY <1>1, <1>3, HandlesAssumption DEF Owners
<1>10. \A b \in Blocks : OwnersChange(b)
  <2>1. \A b \in Blocks : OnePlace(b)
    BY InParts DEF Conserved
  <2> QED
    BY <1>4, <1>5, <1>6, <2>1 DEF OwnersChange, OnePlace
<1> QED
  BY <1>1, <1>2, <1>3, <1>7, <1>8, <1>9, <1>10, OwnersStep DEF Swap, OwnersMove

-----------------------------------------------------------------------------
(* Steps of the shared buffers: construction *)

\* What a step must show of the control blocks, to leave every block of memory
\* where it is.
LEMMA SamePlaces ==
    ASSUME IInv, UNCHANGED <<free_blocks_, data_>>,
           \A c \in Ctrls : /\ block'[c].live = block[c].live
                            /\ block'[c].ptr = block[c].ptr
                            /\ Emptied(c)' = Emptied(c)
    PROVE  Conserved' /\ PlacesSame
<1>1. \A b : /\ InPool(b)' = InPool(b) /\ OwnersWith(b)' = OwnersWith(b)
             /\ CtrlsWith(b)' = CtrlsWith(b)
  BY DEF InPool, OwnersWith, CtrlsWith
<1> QED
  BY <1>1, InParts DEF Conserved, OnePlace, Blocks, PlacesSame

\* With the calls as they were, only the counted sets and the pointers matter.
LEMMA MakeSharedCalls ==
    ASSUME IInv, NEW h \in Owners, NEW s \in Shareds, MakeShared(h, s)
    PROVE  CallsAndCounts'
<1>1. PICK c \in Ctrls :
         /\ ~block[c].live
         /\ block' = [block EXCEPT ![c] = [live |-> TRUE, ref |-> 1, ptr |-> data_[h]]]
         /\ ctrl_' = [ctrl_ EXCEPT ![s] = c]
  BY DEF MakeShared
<1>2. /\ TypeOK /\ data_[h] \in Blocks /\ op' = op
      /\ data_' = [data_ EXCEPT ![h] = None]
      /\ ctrl_[s] = None /\ None \notin Ctrls
  BY HandlesAssumption DEF IInv, TypeOK, MakeShared
<1>3. /\ \A r \in Shareds : ctrl_[r] # c
      /\ \A t \in Threads : op[t].next # c /\ op[t].s # s /\ op[t].other # s
  BY <1>1, <1>2 DEF IInv, BuffersAreLive, MakeShared, Idle
<1>4. /\ ctrl_'[s] = c /\ \A r \in Shareds : r # s => ctrl_'[r] = ctrl_[r]
      /\ block'[c] = [live |-> TRUE, ref |-> 1, ptr |-> data_[h]]
      /\ \A e \in Ctrls : e # c => block'[e] = block[e]
  BY <1>1, <1>2 DEF TypeOK
<1>5. TypeOK'
  BY <1>1, <1>2 DEF TypeOK, ControlBlock, MakeShared
<1>6. CallsFormed'
  <2>1. ASSUME NEW t \in Threads PROVE Formed(t)'
    <3>1. Formed(t) /\ op'[t] = op[t]
      BY <1>2 DEF IInv, CallsFormed
    <3>2. op[t].s \in Shareds /\ ctrl_[op[t].s] # None => ctrl_'[op[t].s] # None
      BY <1>3, <1>4
    <3>3. op[t].other \in Releaseds /\ data_[op[t].other] = None => data_'[op[t].other] = None
      BY <1>2 DEF TypeOK, Owners
    <3> QED
      BY <3>1, <3>2, <3>3, StaysFormed
  <2> QED
    BY <1>2, <2>1 DEF IInv, CallsFormed, Uses
<1>7. AloneAtZero'
  <2>1. \A t \in Threads : AtZero(t)' =>
           /\ AtZero(t) /\ op'[t].s = op[t].s /\ ctrl_'[op[t].s] = ctrl_[op[t].s]
           /\ block'[ctrl_[op[t].s]].ref = block[ctrl_[op[t].s]].ref
    BY <1>2, <1>3, <1>4, CallHolds DEF IInv, AtZero, TypeOK
  <2> QED
    BY <2>1, StayAlone DEF IInv
<1>8. \A r : GaveUp(r)' = GaveUp(r) /\ Consumed(r)' = Consumed(r)
  BY <1>2 DEF GaveUp, Consumed
<1>9. CountsAreOwners'
  <2>1. \A e : Pending(e)' = Pending(e)
    BY <1>2 DEF Pending
  <2>2. Shares(c)' = Shares(c) \union {s} /\ Shares(c) = {}
    BY <1>2, <1>3, <1>4, <1>8, IdleShares DEF Shares, MakeShared
  <2>3. Cardinality(Shares(c)') = 1 /\ Cardinality(Pending(c)) = 0
    BY <1>3, <2>2, FS_Singleton, FS_EmptySet DEF Pending
  <2>4. \A e \in Ctrls : e # c => Shares(e)' = Shares(e)
    BY <1>2, <1>4, <1>8 DEF Shares
  <2>5. ASSUME NEW e \in Ctrls, e # c, block'[e].live
        PROVE  block'[e].ref = Cardinality(Shares(e)') + Cardinality(Pending(e)')
    BY <1>4, <2>1, <2>4, <2>5 DEF IInv, CountsAreOwners
  <2>6. block'[c].ref = Cardinality(Shares(c)') + Cardinality(Pending(c)')
    BY <1>4, <2>1, <2>3
  <2> QED
    BY <2>5, <2>6 DEF CountsAreOwners
<1>10. BuffersAreLive'
  <2>1. \A e \in Ctrls : Emptied(e)' => Emptied(e)
    BY <1>2, <1>3, <1>4, CallHolds DEF Emptied, IInv
  <2>2. ~Emptied(c)'
    BY <1>2, <1>3, <1>4, CallHolds DEF Emptied, IInv
  <2>3. \A r \in Shareds : ctrl_'[r] # None => block'[ctrl_'[r]].live
    BY <1>2, <1>4 DEF IInv, BuffersAreLive, TypeOK
  <2>4. \A r \in Shareds : ctrl_'[r] # None /\ ~GaveUp(r)' => ~Emptied(ctrl_[r])'
    BY <1>2, <1>4, <1>8, <2>1, <2>2 DEF IInv, BuffersAreLive, TypeOK
  <2>5. \A t \in Threads : op'[t].next # None => block'[op'[t].next].live
    BY <1>2, <1>3, <1>4 DEF IInv, BuffersAreLive, TypeOK, Op
  <2> QED
    BY <2>3, <2>4, <2>5 DEF BuffersAreLive
<1>11. PointersSet'
  BY <1>2, <1>4 DEF IInv, PointersSet, Blocks
<1> QED
  BY <1>5, <1>6, <1>7, <1>9, <1>10, <1>11 DEF CallsAndCounts

LEMMA MakeSharedKeeps ==
    ASSUME IInv, NEW h \in Owners, NEW s \in Shareds, MakeShared(h, s)
    PROVE  IInv' /\ Becomes
<1>1. PICK c \in Ctrls :
         /\ ~block[c].live
         /\ block' = [block EXCEPT ![c] = [live |-> TRUE, ref |-> 1, ptr |-> data_[h]]]
         /\ ctrl_' = [ctrl_ EXCEPT ![s] = c]
  BY DEF MakeShared
<1>2. /\ TypeOK /\ op' = op /\ free_blocks_' = free_blocks_
      /\ data_' = [data_ EXCEPT ![h] = None]
      /\ ctrl_[s] = None /\ None \notin Ctrls /\ None \notin Blocks
      /\ \A b \in Blocks : OnePlace(b)
  BY HandlesAssumption, BlocksAssumption, InParts
  DEF IInv, TypeOK, MakeShared, Blocks, Conserved
<1>3. PICK a \in Blocks : a = data_[h]
  BY <1>2 DEF TypeOK, MakeShared
<1>4. ~InPool(a) /\ OwnersWith(a) = {h} /\ CtrlsWith(a) = {}
  BY <1>2, <1>3 DEF OnePlace, OwnersWith
<1>5. /\ \A b : InPool(b)' = InPool(b)
      /\ OwnersWith(a)' = {}
      /\ \A b \in Blocks : b # a => OwnersWith(b)' = OwnersWith(b)
  <2>1. \A b : InPool(b)' = InPool(b)
    BY <1>2 DEF InPool
  <2>2. OwnersWith(a)' = {}
    BY <1>2, <1>4 DEF OwnersWith, TypeOK
  <2>3. \A b \in Blocks : b # a => OwnersWith(b)' = OwnersWith(b)
    BY <1>2, <1>3 DEF OwnersWith, TypeOK
  <2> QED
    BY <2>1, <2>2, <2>3
<1>6. \A e \in Ctrls : Emptied(e)' = Emptied(e) /\ (e = c => ~Emptied(e))
  <2>1. \A t \in Threads : op[t].pc = "delete" =>
           /\ op[t].s \in Shareds /\ ctrl_'[op[t].s] = ctrl_[op[t].s]
           /\ ctrl_[op[t].s] # c
    BY <1>1, <1>2, CallHolds DEF IInv, TypeOK, BuffersAreLive, MakeShared, Idle
  <2> QED
    BY <1>2, <2>1 DEF Emptied
<1>7. CtrlsWith(a)' = {c} /\ \A b \in Blocks : b # a => CtrlsWith(b)' = CtrlsWith(b)
  BY <1>1, <1>2, <1>3, <1>4, <1>6 DEF CtrlsWith, TypeOK
<1>8. Conserved'
  <2>1. ASSUME NEW b \in Blocks PROVE OnePlace(b)'
    BY <1>2, <1>4, <1>5, <1>7 DEF OnePlace
  <2> QED
    BY <1>2, <2>1 DEF Conserved, Blocks, IInv, BlocksConserved
<1>9. IInv'
  BY <1>8, MakeSharedCalls, InParts, PTL
<1>10. Becomes
  <2>1. /\ \A r : GaveUp(r)' = GaveUp(r) /\ ~GaveUp(s)
        /\ ctrl_'[s] = c /\ \A r \in Shareds : r # s => ctrl_'[r] = ctrl_[r]
    BY <1>1, <1>2 DEF GaveUp, MakeShared, Idle, TypeOK
  <2>2. SharersOf(c)' = {s}
    BY <1>1, <1>2, <2>1 DEF SharersOf, IInv, BuffersAreLive
  <2>3. \A e \in Ctrls : e # c => SharersOf(e)' = SharersOf(e)
    BY <1>2, <2>1 DEF SharersOf
  <2>4. \A b : CtrlsWith(b) \in SUBSET (Ctrls \ {c})
    BY <1>1 DEF CtrlsWith
  <2>5. \A b \in Blocks \ {a} : Same(b)
    BY <1>5, <1>7, <2>3, <2>4 DEF Same
  <2> QED
    BY <1>4, <1>5, <1>7, <2>2, <2>5 DEF Becomes
<1> QED
  BY <1>9, <1>10

\* Buffers that no call is about exchange or add shares of live control blocks.
LEMMA IdleStep ==
    ASSUME IInv, UNCHANGED <<free_blocks_, data_, op>>,
           ctrl_' \in [Shareds -> Ctrls \union {None}],
           \A s \in Shareds : ~Idle(s) => ctrl_'[s] = ctrl_[s],
           \A s \in Shareds : \/ ctrl_'[s] = ctrl_[s] \/ ctrl_'[s] = None
                              \/ \E r \in Shareds : Idle(r) /\ ctrl_[r] = ctrl_'[s],
           block' \in [Ctrls -> ControlBlock],
           \A c \in Ctrls : /\ block'[c].live = block[c].live
                            /\ block'[c].ptr = block[c].ptr
                            /\ \/ block'[c].ref = block[c].ref
                               \/ \E r \in Shareds : Idle(r) /\ ctrl_[r] = c,
           \A c \in Ctrls :
              block[c].live => block'[c].ref = Cardinality(Shares(c)') + Cardinality(Pending(c))
    PROVE  IInv' /\ PlacesSame
<1>1. \A t \in Threads :
         op[t].pc \in {"drop", "last", "delete", "consumed"} =>
            op[t].s \in Shareds /\ ctrl_[op[t].s] # None /\ ctrl_'[op[t].s] = ctrl_[op[t].s]
  BY CallHolds DEF IInv, Idle
<1>2. TypeOK'
  BY DEF IInv, TypeOK
<1>3. CallsFormed'
  <2>1. ASSUME NEW t \in Threads PROVE Formed(t)'
    <3>1. Formed(t)
      BY DEF IInv, CallsFormed
    <3>2. op[t].s \in Shareds /\ ctrl_[op[t].s] # None => ctrl_'[op[t].s] # None
      BY DEF Idle
    <3> QED
      BY <3>1, <3>2, StaysFormed
  <2> QED
    BY <2>1 DEF IInv, CallsFormed, Uses
<1>4. AloneAtZero'
  <2>1. ASSUME NEW t \in Threads, AtZero(t)
        PROVE  block'[ctrl_[op[t].s]].ref = block[ctrl_[op[t].s]].ref
    BY <2>1, ZeroIsAlone DEF Idle
  <2> QED
    BY <1>1, <2>1, StayAlone DEF IInv, AtZero
<1>5. /\ \A c : Pending(c)' = Pending(c)
      /\ \A r : GaveUp(r)' = GaveUp(r)
      /\ \A c : Emptied(c)' = Emptied(c)
  BY <1>1 DEF Pending, GaveUp, Emptied
<1>6. CountsAreOwners'
  BY <1>5 DEF CountsAreOwners
<1>7. BuffersAreLive'
  <2>1. \A r \in Shareds : ctrl_'[r] # None => block'[ctrl_'[r]].live
    BY DEF IInv, BuffersAreLive, TypeOK
  <2>2. \A r \in Shareds : ctrl_'[r] # None /\ ~GaveUp(r)' => ~Emptied(ctrl_[r])'
    BY <1>5, IdleShares DEF IInv, BuffersAreLive
  <2>3. \A t \in Threads : op'[t].next # None => block'[op'[t].next].live
    BY DEF IInv, BuffersAreLive, TypeOK, Op
  <2> QED
    BY <2>1, <2>2, <2>3 DEF BuffersAreLive
<1>8. PointersSet'
  BY DEF IInv, PointersSet, Blocks
<1>9. Conserved' /\ PlacesSame
  BY <1>5, SamePlaces
<1> QED
  BY <1>2, <1>3, <1>4, <1>6, <1>7, <1>8, <1>9, InParts, PTL DEF CallsAndCounts

LEMMA CopyKeeps ==
    ASSUME IInv, NEW s \in Shareds, NEW from \in Shareds, Copy(s, from)
    PROVE  IInv' /\ SharesStep
<1>1. /\ TypeOK /\ ctrl_[s] = None /\ Idle(s) /\ Idle(from) /\ UNCHANGED <<free_blocks_, data_, op>>
      /\ ctrl_[from] # None
  BY DEF IInv, Copy
<1>2. PICK c \in Ctrls : c = ctrl_[from]
  BY <1>1 DEF TypeOK
<1>3. /\ block[c].live /\ c # None /\ s # from
      /\ block \in [Ctrls -> ControlBlock] /\ block[c] \in ControlBlock
  BY <1>1, <1>2 DEF IInv, BuffersAreLive, TypeOK
<1>4. /\ ctrl_' = [ctrl_ EXCEPT ![s] = c]
      /\ block' = [block EXCEPT ![c].ref = block[c].ref + 1]
  BY <1>2 DEF Copy
<1>5. /\ ctrl_'[s] = c /\ \A r \in Shareds : r # s => ctrl_'[r] = ctrl_[r]
      /\ ctrl_' \in [Shareds -> Ctrls \union {None}]
  BY <1>1, <1>4 DEF TypeOK
<1>6. /\ block' \in [Ctrls -> ControlBlock]
      /\ \A e \in Ctrls : e # c => block'[e] = block[e]
      /\ block'[c].live = block[c].live /\ block'[c].ptr = block[c].ptr
      /\ block'[c].ref = block[c].ref + 1
  <2>1. block' = [block EXCEPT ![c] = [block[c] EXCEPT !.ref = block[c].ref + 1]]
    BY <1>4
  <2>2. [block[c] EXCEPT !.ref = block[c].ref + 1] \in ControlBlock
    BY <1>3 DEF ControlBlock
  <2>3. /\ block'[c] = [block[c] EXCEPT !.ref = block[c].ref + 1]
        /\ \A e \in Ctrls : e # c => block'[e] = block[e]
        /\ block' \in [Ctrls -> ControlBlock]
    BY <1>3, <2>1, <2>2
  <2> QED
    BY <1>3, <2>3 DEF ControlBlock
<1>7. \A r : GaveUp(r)' = GaveUp(r) /\ Consumed(r)' = Consumed(r)
  BY <1>1 DEF GaveUp, Consumed
<1>8. /\ Shares(c)' = Shares(c) \union {s} /\ s \notin Shares(c)
      /\ \A e \in Ctrls : e # c => Shares(e)' = Shares(e)
  <2>1. Shares(c)' = Shares(c) \union {s} /\ s \notin Shares(c)
    BY <1>1, <1>3, <1>5, <1>7, IdleShares DEF Shares
  <2>2. \A e \in Ctrls : e # c => Shares(e)' = Shares(e)
    BY <1>1, <1>5, <1>7, HandlesAssumption DEF Shares
  <2> QED
    BY <2>1, <2>2
<1>9. Cardinality(Shares(c)') = Cardinality(Shares(c)) + 1
  BY <1>8, CountOfMore, SharesFinite
<1>10. ASSUME NEW e \in Ctrls, block[e].live
       PROVE  block'[e].ref = Cardinality(Shares(e)') + Cardinality(Pending(e))
  <2>1. block[e].ref = Cardinality(Shares(e)) + Cardinality(Pending(e))
    BY <1>10 DEF IInv, CountsAreOwners
  <2>2. CASE e = c
    BY <1>6, <1>9, <2>1, <2>2, SharesFinite
  <2>3. CASE e # c
    BY <1>6, <1>8, <2>1, <2>3
  <2> QED
    BY <2>2, <2>3
<1>11. \A e \in Ctrls : SharesChange(e)
  <2>1. SharersOf(c)' = SharersOf(c) \union {s} /\ s \notin SharersOf(c) /\ from \in SharersOf(c)
    BY <1>1, <1>2, <1>3, <1>5, <1>7, IdleShares DEF SharersOf, Idle
  <2>2. \A e \in Ctrls : e # c => SharersOf(e)' = SharersOf(e)
    BY <1>1, <1>5, <1>7, HandlesAssumption DEF SharersOf
  <2> QED
    BY <2>1, <2>2 DEF SharesChange
<1>12. IInv' /\ PlacesSame
  BY <1>1, <1>2, <1>5, <1>6, <1>10, IdleStep
<1> QED
  BY <1>11, <1>12 DEF SharesStep

LEMMA MoveKeeps ==
    ASSUME IInv, NEW s \in Shareds, NEW from \in Shareds, Move(s, from)
    PROVE  IInv' /\ SharesStep
<1>1. /\ TypeOK /\ ctrl_[s] = None /\ Idle(s) /\ Idle(from)
      /\ UNCHANGED <<free_blocks_, data_, block, op>>
      /\ ctrl_[from] # None
  BY DEF IInv, Move
<1>2. PICK c \in Ctrls : c = ctrl_[from]
  BY <1>1 DEF TypeOK
<1>3. c # None /\ s # from
  BY <1>1, <1>2
<1>4. ctrl_' = [[ctrl_ EXCEPT ![s] = c] EXCEPT ![from] = None]
  BY <1>2 DEF Move
<1>5. /\ ctrl_'[s] = c /\ ctrl_'[from] = None
      /\ \A r \in Shareds : r # s /\ r # from => ctrl_'[r] = ctrl_[r]
      /\ ctrl_' \in [Shareds -> Ctrls \union {None}]
  BY <1>1, <1>3, <1>4 DEF TypeOK
<1>6. \A r : GaveUp(r)' = GaveUp(r) /\ Consumed(r)' = Consumed(r)
  BY <1>1 DEF GaveUp, Consumed
<1>7. \A e \in Ctrls : e # c => Shares(e)' = Shares(e)
  BY <1>1, <1>2, <1>3, <1>5, <1>6, HandlesAssumption DEF Shares
<1>8. /\ Shares(c)' = (Shares(c) \ {from}) \union {s}
      /\ from \in Shares(c) /\ s \notin Shares(c)
  BY <1>1, <1>2, <1>3, <1>5, <1>6, IdleShares DEF Shares
<1>9. Cardinality(Shares(c)') = Cardinality(Shares(c))
  <2>1. /\ IsFiniteSet(Shares(c) \ {from}) /\ Cardinality(Shares(c)) \in Nat
        /\ Cardinality(Shares(c) \ {from}) = Cardinality(Shares(c)) - 1
    BY <1>8, CountOfLess, SharesFinite
  <2>2. s \notin Shares(c) \ {from}
    BY <1>8
  <2>3. Cardinality(Shares(c)') = Cardinality(Shares(c) \ {from}) + 1
    BY <1>8, <2>1, <2>2, CountOfMore
  <2> QED
    BY <2>1, <2>3
<1>10. ASSUME NEW e \in Ctrls, block[e].live
       PROVE  block'[e].ref = Cardinality(Shares(e)') + Cardinality(Pending(e))
  <2>1. block[e].ref = Cardinality(Shares(e)) + Cardinality(Pending(e)) /\ block' = block
    BY <1>1, <1>10 DEF IInv, CountsAreOwners
  <2>2. CASE e = c
    BY <1>9, <2>1, <2>2
  <2>3. CASE e # c
    BY <1>7, <2>1, <2>3
  <2> QED
    BY <2>2, <2>3
<1>11. block' \in [Ctrls -> ControlBlock]
  BY <1>1 DEF TypeOK
<1>12. \A e \in Ctrls : SharesChange(e)
  <2>1. SharersOf(c)' = (SharersOf(c) \ {from}) \union {s} /\ from \in SharersOf(c)
    BY <1>1, <1>2, <1>3, <1>5, <1>6, IdleShares DEF SharersOf, Idle
  <2>2. \A e \in Ctrls : e # c => SharersOf(e)' = SharersOf(e)
    BY <1>1, <1>2, <1>5, <1>6, HandlesAssumption DEF SharersOf
  <2> QED
    BY <2>1, <2>2 DEF SharesChange
<1>13. IInv' /\ PlacesSame
  BY <1>1, <1>2, <1>5, <1>10, <1>11, IdleStep
<1> QED
  BY <1>12, <1>13 DEF SharesStep

LEMMA SwapSharedKeeps ==
    ASSUME IInv, NEW s \in Shareds, NEW r \in Shareds, SwapShared(s, r)
    PROVE  IInv' /\ SharesStep
<1>1. /\ TypeOK /\ s # r /\ Idle(s) /\ Idle(r)
      /\ UNCHANGED <<free_blocks_, data_, block, op>>
  BY DEF IInv, SwapShared
<1>2. ctrl_' = [[ctrl_ EXCEPT ![s] = ctrl_[r]] EXCEPT ![r] = ctrl_[s]]
  BY DEF SwapShared
<1>3. /\ ctrl_'[s] = ctrl_[r] /\ ctrl_'[r] = ctrl_[s]
      /\ \A x \in Shareds : x # s /\ x # r => ctrl_'[x] = ctrl_[x]
      /\ ctrl_' \in [Shareds -> Ctrls \union {None}]
  BY <1>1, <1>2 DEF TypeOK
<1>4. \A x : GaveUp(x)' = GaveUp(x) /\ Consumed(x)' = Consumed(x)
  BY <1>1 DEF GaveUp, Consumed
<1>5. ASSUME NEW e \in Ctrls, NEW x \in Shareds, NEW y \in Shareds, x # y, Idle(x), Idle(y),
             ctrl_[x] = e, ctrl_[y] # e, ctrl_'[x] = ctrl_[y], ctrl_'[y] = e,
             \A z \in Shareds : z # x /\ z # y => ctrl_'[z] = ctrl_[z]
      PROVE  Cardinality(Shares(e)') = Cardinality(Shares(e))
  <2>1. Shares(e)' = (Shares(e) \ {x}) \union {y} /\ x \in Shares(e) /\ y \notin Shares(e)
    BY <1>4, <1>5, IdleShares DEF Shares
  <2>2. /\ IsFiniteSet(Shares(e) \ {x}) /\ Cardinality(Shares(e)) \in Nat
        /\ Cardinality(Shares(e) \ {x}) = Cardinality(Shares(e)) - 1
    BY <2>1, CountOfLess, SharesFinite
  <2>3. Cardinality(Shares(e)') = Cardinality(Shares(e) \ {x}) + 1
    BY <2>1, <2>2, CountOfMore
  <2> QED
    BY <2>2, <2>3
<1>6. ASSUME NEW e \in Ctrls
      PROVE  Cardinality(Shares(e)') = Cardinality(Shares(e))
  <2>1. CASE ctrl_[s] = e /\ ctrl_[r] # e
    BY <1>1, <1>3, <1>5, <2>1
  <2>2. CASE ctrl_[r] = e /\ ctrl_[s] # e
    BY <1>1, <1>3, <1>5, <2>2
  <2>3. CASE ctrl_[s] = e <=> ctrl_[r] = e
    <3>1. Shares(e)' = Shares(e)
      BY <1>1, <1>3, <1>4, <2>3, IdleShares DEF Shares
    <3> QED
      BY <3>1
  <2> QED
    BY <2>1, <2>2, <2>3
<1>7. \A e \in Ctrls :
         block[e].live => block'[e].ref = Cardinality(Shares(e)') + Cardinality(Pending(e))
  BY <1>1, <1>6 DEF IInv, CountsAreOwners
<1>8. block' \in [Ctrls -> ControlBlock]
  BY <1>1 DEF TypeOK
<1>9. ASSUME NEW e \in Ctrls
      PROVE  SharesChange(e)
  <2>1. CASE ctrl_[s] = e /\ ctrl_[r] # e
    <3>1. SharersOf(e)' = (SharersOf(e) \ {s}) \union {r} /\ s \in SharersOf(e)
      BY <1>1, <1>3, <1>4, <2>1, IdleShares DEF SharersOf, Idle
    <3> QED
      BY <3>1 DEF SharesChange
  <2>2. CASE ctrl_[r] = e /\ ctrl_[s] # e
    <3>1. SharersOf(e)' = (SharersOf(e) \ {r}) \union {s} /\ r \in SharersOf(e)
      BY <1>1, <1>3, <1>4, <2>2, IdleShares DEF SharersOf, Idle
    <3> QED
      BY <3>1 DEF SharesChange
  <2>3. CASE ctrl_[s] = e <=> ctrl_[r] = e
    <3>1. SharersOf(e)' = SharersOf(e)
      BY <1>1, <1>3, <1>4, <2>3, IdleShares DEF SharersOf
    <3> QED
      BY <3>1 DEF SharesChange
  <2> QED
    BY <2>1, <2>2, <2>3
<1>10. IInv' /\ PlacesSame
  BY <1>1, <1>3, <1>7, <1>8, IdleStep
<1> QED
  BY <1>9, <1>10 DEF SharesStep

-----------------------------------------------------------------------------
(* Steps of the shared buffers: calls that begin *)

\* The call of t starts, and next has got the share it will give to s.
LEMMA BeginStep ==
    ASSUME IInv, NEW t \in Threads, NEW s \in Shareds,
           NEW next \in Ctrls \union {None}, NEW other \in (Shareds \ {s}) \union {None},
           next = None \/ other = None,
           other # None => Idle(other),
           Begin(t, s, next, other), UNCHANGED <<free_blocks_, data_, ctrl_>>,
           next # None => \E r \in Shareds : Idle(r) /\ ctrl_[r] = next,
           block' = IF next = None THEN block
                    ELSE [block EXCEPT ![next].ref = @ + 1]
    PROVE  IInv' /\ SharesStep
<1>1. /\ TypeOK /\ op[t] = NoOp /\ ctrl_[s] # None /\ Idle(s)
      /\ op' = [op EXCEPT ![t] = [pc |-> "drop", s |-> s, next |-> next, other |-> other]]
      /\ None \notin Ctrls /\ None \notin Shareds
  BY HandlesAssumption DEF IInv, Begin, Handles
<1>2. /\ op'[t] = [pc |-> "drop", s |-> s, next |-> next, other |-> other]
      /\ \A u \in Threads : u # t => op'[u] = op[u]
      /\ op' \in [Threads -> Op]
  BY <1>1 DEF TypeOK, Op
<1>3. next # None => block[next].live
  BY <1>1 DEF IInv, BuffersAreLive
<1>4. /\ block' \in [Ctrls -> ControlBlock]
      /\ \A e \in Ctrls : /\ block'[e].live = block[e].live /\ block'[e].ptr = block[e].ptr
                          /\ e # next => block'[e].ref = block[e].ref
                          /\ e = next => block'[e].ref = block[e].ref + 1
  <2>1. CASE next = None
    BY <1>1, <2>1 DEF TypeOK
  <2>2. CASE next # None
    <3>1. next \in Ctrls /\ block \in [Ctrls -> ControlBlock] /\ block[next] \in ControlBlock
      BY <1>1, <2>2 DEF TypeOK
    <3>2. block' = [block EXCEPT ![next] = [block[next] EXCEPT !.ref = block[next].ref + 1]]
      BY <2>2
    <3>3. [block[next] EXCEPT !.ref = block[next].ref + 1] \in ControlBlock
      BY <3>1 DEF ControlBlock
    <3>4. /\ block'[next] = [block[next] EXCEPT !.ref = block[next].ref + 1]
          /\ \A e \in Ctrls : e # next => block'[e] = block[e]
          /\ block' \in [Ctrls -> ControlBlock]
      BY <3>1, <3>2, <3>3
    <3> QED
      BY <3>1, <3>4 DEF ControlBlock
  <2> QED
    BY <2>1, <2>2
<1>5. TypeOK'
  BY <1>1, <1>2, <1>4 DEF TypeOK
<1>6. CallsFormed'
  <2>1. Formed(t)'
    BY <1>1, <1>2 DEF Formed
  <2>2. ASSUME NEW u \in Threads, u # t
        PROVE  Formed(u)' /\ Uses(u)' = Uses(u) /\ Uses(t)' \intersect Uses(u) = {}
    BY <1>1, <1>2, <2>2 DEF IInv, CallsFormed, Formed, Uses, Idle
  <2> QED
    BY <2>1, <2>2 DEF IInv, CallsFormed
<1>7. AloneAtZero'
  <2>1. ASSUME NEW u \in Threads, AtZero(u)'
        PROVE  /\ AtZero(u) /\ op'[u].s = op[u].s
               /\ block'[ctrl_[op[u].s]].ref = block[ctrl_[op[u].s]].ref
    <3>1. u # t /\ AtZero(u) /\ op'[u] = op[u]
      BY <1>2, <2>1 DEF AtZero
    <3>2. ctrl_[op[u].s] \in Ctrls /\ ctrl_[op[u].s] # next
      BY <3>1, ZeroIsAlone, <1>1 DEF Idle
    <3> QED
      BY <1>4, <3>1, <3>2
  <2> QED
    BY <2>1, StayAlone DEF IInv
<1>8. /\ \A r : GaveUp(r)' = GaveUp(r) /\ Consumed(r)' = Consumed(r)
      /\ \A e : Emptied(e)' = Emptied(e)
  BY <1>1, <1>2 DEF GaveUp, Consumed, Emptied, NoOp
<1>9. CountsAreOwners'
  <2>1. ASSUME NEW e \in Ctrls, block'[e].live
        PROVE  block'[e].ref = Cardinality(Shares(e)') + Cardinality(Pending(e)')
    <3>1. Shares(e)' = Shares(e)
      BY <1>8 DEF Shares
    <3>2. block[e].ref = Cardinality(Shares(e)) + Cardinality(Pending(e))
      BY <1>4, <2>1 DEF IInv, CountsAreOwners
    <3>3. CASE e = next
      <4>1. Pending(e)' = Pending(e) \union {t} /\ t \notin Pending(e)
        BY <1>1, <1>2, <3>3 DEF Pending, NoOp
      <4>2. Cardinality(Pending(e)') = Cardinality(Pending(e)) + 1
        BY <4>1, SharesFinite, CountOfMore
      <4> QED
        BY <1>4, <3>1, <3>2, <3>3, <4>2, SharesFinite
    <3>4. CASE e # next
      <4>1. Pending(e)' = Pending(e)
        BY <1>1, <1>2, <3>4 DEF Pending, NoOp
      <4> QED
        BY <1>4, <3>1, <3>2, <3>4, <4>1
    <3> QED
      BY <3>3, <3>4
  <2> QED
    BY <2>1 DEF CountsAreOwners
<1>10. BuffersAreLive'
  <2>1. \A r \in Shareds : ctrl_'[r] # None => block'[ctrl_'[r]].live
    BY <1>1, <1>4 DEF IInv, BuffersAreLive, TypeOK
  <2>2. \A r \in Shareds : ctrl_'[r] # None /\ ~GaveUp(r)' => ~Emptied(ctrl_[r])'
    BY <1>8 DEF IInv, BuffersAreLive
  <2>3. \A u \in Threads : op'[u].next # None => block'[op'[u].next].live
    BY <1>1, <1>2, <1>3, <1>4 DEF IInv, BuffersAreLive, TypeOK, Op
  <2> QED
    BY <2>1, <2>2, <2>3 DEF BuffersAreLive
<1>11. PointersSet'
  BY <1>4 DEF IInv, PointersSet, Blocks
<1>12. Conserved' /\ PlacesSame
  BY <1>4, <1>8, SamePlaces
<1>13. ASSUME NEW e \in Ctrls
       PROVE  SharesChange(e)
  <2>1. \A r \in Shareds : (\E u \in Threads : op'[u].s = r /\ op'[u].next = e)
                            <=> \/ \E u \in Threads : op[u].s = r /\ op[u].next = e
                                \/ r = s /\ e = next
    BY <1>1, <1>2 DEF NoOp
  <2>2. CASE e # next \/ s \in SharersOf(e)
    <3>1. SharersOf(e)' = SharersOf(e)
      BY <1>8, <2>1, <2>2 DEF SharersOf
    <3> QED
      BY <3>1 DEF SharesChange
  <2>3. CASE e = next /\ s \notin SharersOf(e)
    <3>1. SharersOf(e)' = SharersOf(e) \union {s} /\ SharersOf(e) # {}
      BY <1>1, <1>8, <2>1, <2>3, IdleShares DEF SharersOf
    <3> QED
      BY <2>3, <3>1 DEF SharesChange
  <2> QED
    BY <2>2, <2>3
<1>14. IInv'
  BY <1>5, <1>6, <1>7, <1>9, <1>10, <1>11, <1>12, InParts, PTL DEF CallsAndCounts
<1> QED
  BY <1>12, <1>13, <1>14 DEF SharesStep

LEMMA ResetSharedKeeps ==
    ASSUME IInv, NEW t \in Threads, NEW s \in Shareds, ResetShared(t, s)
    PROVE  IInv' /\ SharesStep
BY BeginStep DEF ResetShared

LEMMA AssignByMoveKeeps ==
    ASSUME IInv, NEW t \in Threads, NEW s \in Shareds, NEW from \in Shareds,
           AssignByMove(t, s, from)
    PROVE  IInv' /\ SharesStep
BY BeginStep DEF AssignByMove

LEMMA CopyAssignKeeps ==
    ASSUME IInv, NEW t \in Threads, NEW s \in Shareds, NEW from \in Shareds,
           CopyAssign(t, s, from)
    PROVE  IInv' /\ SharesStep
<1>1. PICK c \in Ctrls \union {None} : c = ctrl_[from]
  BY DEF IInv, TypeOK
<1>2. Begin(t, s, c, None) /\ block' = IF c = None THEN block
                                       ELSE [block EXCEPT ![c].ref = @ + 1]
  BY <1>1 DEF CopyAssign
<1> QED
  BY <1>1, <1>2, BeginStep DEF CopyAssign

\* The last share of control block c, that of s, is given up.
LEMMA ZeroStep ==
    ASSUME IInv, NEW t \in Threads, NEW s \in Shareds, NEW c \in Ctrls,
           ctrl_[s] = c, s \in Shares(c), block[c].ref = 1,
           UNCHANGED <<free_blocks_, data_, ctrl_>>,
           block' = [block EXCEPT ![c].ref = 0],
           op' \in [Threads -> Op], \A u \in Threads : u # t => op'[u] = op[u],
           op[t].pc \in {"idle", "drop"}, op'[t].pc \in {"last", "consumed"},
           op[t].pc = "drop" => op[t].s = s,
           op'[t].s = s, op'[t].next = op[t].next, Formed(t)',
           \A u \in Threads : u # t => Uses(t)' \intersect Uses(u) = {}
    PROVE  IInv' /\ SharesStep
<1>1. /\ TypeOK /\ block \in [Ctrls -> ControlBlock] /\ block[c] \in ControlBlock
      /\ block[c].live /\ None \notin Ctrls
  BY HandlesAssumption DEF IInv, TypeOK, BuffersAreLive
<1>2. /\ block' \in [Ctrls -> ControlBlock] /\ block'[c].ref = 0
      /\ \A e \in Ctrls : /\ block'[e].live = block[e].live /\ block'[e].ptr = block[e].ptr
                          /\ e # c => block'[e] = block[e]
  <2>1. block' = [block EXCEPT ![c] = [block[c] EXCEPT !.ref = 0]]
    OBVIOUS
  <2>2. [block[c] EXCEPT !.ref = 0] \in ControlBlock
    BY <1>1 DEF ControlBlock
  <2>3. /\ block'[c] = [block[c] EXCEPT !.ref = 0]
        /\ \A e \in Ctrls : e # c => block'[e] = block[e]
        /\ block' \in [Ctrls -> ControlBlock]
    BY <1>1, <2>1, <2>2
  <2> QED
    BY <1>1, <2>3 DEF ControlBlock
<1>3. TypeOK'
  BY <1>1, <1>2 DEF TypeOK
<1>4. CallsFormed'
  <2>1. ASSUME NEW u \in Threads, u # t
        PROVE  Formed(u)' /\ Uses(u)' = Uses(u)
    BY <2>1 DEF IInv, CallsFormed, Formed, Uses
  <2> QED
    BY <2>1 DEF IInv, CallsFormed
<1>5. \A u \in Threads : AtZero(u) => u # t /\ ctrl_[op[u].s] \in Ctrls /\ ctrl_[op[u].s] # c
  BY ZeroIsAlone DEF AtZero
<1>6. AloneAtZero'
  <2>1. ASSUME NEW u \in Threads, u # t
        PROVE  AtZero(u)' = AtZero(u) /\ op'[u].s = op[u].s
    BY <2>1 DEF AtZero
  <2>2. ASSUME NEW u \in Threads, AtZero(u)'
        PROVE  block'[ctrl_[op'[u].s]].ref = 0
    BY <1>2, <1>5, <2>1, <2>2 DEF IInv, AloneAtZero, AtZero
  <2>3. ASSUME NEW u \in Threads, NEW v \in Threads, AtZero(u)', AtZero(v)',
               ctrl_[op'[u].s] = ctrl_[op'[v].s]
        PROVE  u = v
    BY <1>5, <2>1, <2>3 DEF IInv, AloneAtZero, AtZero
  <2> QED
    BY <2>2, <2>3 DEF AloneAtZero, AtZero
<1>7. /\ \A r : r # s => GaveUp(r)' = GaveUp(r) /\ Consumed(r)' = Consumed(r)
      /\ GaveUp(s)' \/ Consumed(s)'
      /\ \A r : GaveUp(r) => GaveUp(r)'
      /\ \A e : Emptied(e)' = Emptied(e)
  BY DEF GaveUp, Consumed, Emptied
<1>8. CountsAreOwners'
  <2>1. ASSUME NEW e \in Ctrls, block'[e].live
        PROVE  block'[e].ref = Cardinality(Shares(e)') + Cardinality(Pending(e)')
    <3>1. Pending(e)' = Pending(e)
      BY DEF Pending
    <3>2. block[e].ref = Cardinality(Shares(e)) + Cardinality(Pending(e))
      BY <1>2, <2>1 DEF IInv, CountsAreOwners
    <3>3. CASE e = c
      <4>1. Shares(c)' = Shares(c) \ {s}
        BY <1>7 DEF Shares
      <4>2. Cardinality(Shares(c)') = Cardinality(Shares(c)) - 1 /\ Cardinality(Shares(c)) \in Nat
        BY <4>1, CountOfLess, SharesFinite
      <4> QED
        BY <1>2, <3>1, <3>2, <3>3, <4>2, SharesFinite
    <3>4. CASE e # c
      <4>1. Shares(e)' = Shares(e)
        BY <1>7, <3>4 DEF Shares
      <4> QED
        BY <1>2, <3>1, <3>2, <3>4, <4>1
    <3> QED
      BY <3>3, <3>4
  <2> QED
    BY <2>1 DEF CountsAreOwners
<1>9. BuffersAreLive'
  <2>1. \A r \in Shareds : ctrl_'[r] # None => block'[ctrl_'[r]].live
    BY <1>1, <1>2 DEF IInv, BuffersAreLive, TypeOK
  <2>2. \A r \in Shareds : ctrl_'[r] # None /\ ~GaveUp(r)' => ~Emptied(ctrl_[r])'
    BY <1>7 DEF IInv, BuffersAreLive
  <2>3. \A u \in Threads : op'[u].next # None => block'[op'[u].next].live
    BY <1>1, <1>2 DEF IInv, BuffersAreLive, TypeOK, Op
  <2> QED
    BY <2>1, <2>2, <2>3 DEF BuffersAreLive
<1>10. PointersSet'
  BY <1>2 DEF IInv, PointersSet, Blocks
<1>11. Conserved' /\ PlacesSame
  BY <1>2, <1>7, SamePlaces
<1>12. IInv'
  BY <1>3, <1>4, <1>6, <1>8, <1>9, <1>10, <1>11, InParts, PTL DEF CallsAndCounts
<1>13. ASSUME NEW e \in Ctrls
       PROVE  SharesChange(e)
  <2>1. \A u \in Threads : op'[u].next = op[u].next /\ (op[u].next = e => op'[u].s = op[u].s)
    BY <1>1 DEF IInv, CallsFormed, Formed, NoOp
  <2>2. \A r : (\E u \in Threads : op'[u].s = r /\ op'[u].next = e)
               <=> \E u \in Threads : op[u].s = r /\ op[u].next = e
    BY <2>1
  <2>3. CASE e # c \/ op'[t].pc = "consumed"
    <3>1. op'[t].pc = "consumed" => ~GaveUp(s)' /\ ~GaveUp(s)
      BY DEF GaveUp, Shares
    <3>2. SharersOf(e)' = SharersOf(e)
      BY <1>7, <2>2, <2>3, <3>1 DEF SharersOf
    <3> QED
      BY <3>2 DEF SharesChange
  <2>4. CASE e = c /\ op'[t].pc = "last"
    <3>1. Cardinality(Pending(c)) = 0
      <4>1. block[c].ref = Cardinality(Shares(c)) + Cardinality(Pending(c))
        BY <1>1 DEF IInv, CountsAreOwners
      <4>2. Cardinality(Shares(c)) \in Nat /\ Cardinality(Shares(c)) >= 1
        BY CountOfLess, SharesFinite
      <4>3. Cardinality(Pending(c)) \in Nat
        BY SharesFinite
      <4> QED
        BY <4>1, <4>2, <4>3
    <3>2. Pending(c) = {}
      BY <3>1, SharesFinite, FS_EmptySet
    <3>3. GaveUp(s)' /\ ~GaveUp(s)
      BY <2>4 DEF GaveUp, Shares
    <3>4. SharersOf(c)' = SharersOf(c) \ {s} /\ s \in SharersOf(c)
      BY <1>7, <2>2, <2>4, <3>2, <3>3 DEF SharersOf, Pending
    <3> QED
      BY <2>4, <3>4 DEF SharesChange
  <2> QED
    BY <2>3, <2>4
<1> QED
  BY <1>11, <1>12, <1>13 DEF SharesStep

LEMMA ReleaseKeeps ==
    ASSUME IInv, NEW t \in Threads, NEW s \in Shareds, NEW r \in Releaseds, Release(t, s, r)
    PROVE  IInv' /\ SharesStep
<1>1. /\ TypeOK /\ op[t] = NoOp /\ ctrl_[s] # None /\ Idle(s) /\ Idle(r) /\ data_[r] = None
      /\ op' = [op EXCEPT ![t] = [pc |-> "consumed", s |-> s, next |-> None, other |-> r]]
      /\ None \notin Shareds
  BY HandlesAssumption DEF IInv, Release, Handles
<1>2. PICK c \in Ctrls : c = ctrl_[s]
  BY <1>1 DEF TypeOK
<1>3. /\ op'[t] = [pc |-> "consumed", s |-> s, next |-> None, other |-> r]
      /\ \A u \in Threads : u # t => op'[u] = op[u]
      /\ op' \in [Threads -> Op]
  BY <1>1 DEF TypeOK, Op
<1>4. block[c].ref = 1 /\ block' = [block EXCEPT ![c].ref = 0]
  BY <1>2 DEF Release
<1>5. Formed(t)'
  BY <1>1, <1>3 DEF Formed, Release
<1>6. \A u \in Threads : u # t => Uses(t)' \intersect Uses(u) = {}
  BY <1>1, <1>3 DEF Uses, Idle
<1>7. s \in Shares(c)
  BY <1>1, <1>2, IdleShares
<1>8. op[t].pc = "idle" /\ op'[t].next = op[t].next
  BY <1>1, <1>3 DEF NoOp
<1> QED
  BY <1>2, <1>3, <1>4, <1>5, <1>6, <1>7, <1>8, ZeroStep DEF Release

-----------------------------------------------------------------------------
(* Steps of the shared buffers: calls that go on *)

\* A call about s ends: s has dropped its share of c, or has deleted c, and
\* points to what it is assigned.
LEMMA FinishStep ==
    ASSUME IInv, NEW t \in Threads, NEW s \in Shareds, NEW c \in Ctrls,
           op[t].s = s, ctrl_[s] = c, Finish(t), UNCHANGED <<free_blocks_, data_>>,
           block' \in [Ctrls -> ControlBlock], \A e \in Ctrls : e # c => block'[e] = block[e],
           \/ /\ op[t].pc = "drop"
              /\ block'[c].live = block[c].live /\ block'[c].ptr = block[c].ptr
              /\ block'[c].ref = block[c].ref - 1
           \/ op[t].pc = "delete" /\ block'[c] = Deleted
    PROVE  IInv' /\ SharesStep
<1>1. PICK f \in (Shareds \ {s}) \union {None} : f = op[t].other
  BY DEF IInv, CallsFormed, Formed, NoOp
<1>2. PICK n \in Ctrls \union {None} : n = op[t].next /\ (n = None \/ f = None)
  BY <1>1 DEF IInv, TypeOK, Op, CallsFormed, Formed, NoOp
<1>3. PICK g \in Ctrls \union {None} : g = IF f = None THEN n ELSE ctrl_[f]
  BY <1>1, <1>2 DEF IInv, TypeOK
<1>4. TypeOK /\ None \notin Ctrls /\ None \notin Shareds /\ op[t].pc \in {"drop", "delete"}
  BY HandlesAssumption DEF IInv, Handles
<1>5. /\ ctrl_' \in [Shareds -> Ctrls \union {None}]
      /\ ctrl_'[s] = g /\ (f # None => ctrl_'[f] = None)
      /\ \A r \in Shareds : r # s /\ r # f => ctrl_'[r] = ctrl_[r]
  <2>1. ctrl_' = [r \in Shareds |-> IF r = s THEN g ELSE IF r = f THEN None ELSE ctrl_[r]]
    BY <1>1, <1>2, <1>3 DEF Finish
  <2> QED
    BY <1>1, <1>3, <1>4, <2>1 DEF TypeOK
<1>6. /\ op'[t] = NoOp /\ \A u \in Threads : u # t => op'[u] = op[u]
      /\ op' \in [Threads -> Op]
  BY <1>4 DEF Finish, TypeOK, Op, NoOp
<1>7. \A u \in Threads : u # t => /\ op[u].s # s /\ (f # None => op[u].s # f)
                                  /\ op[u].s \in Shareds => ctrl_'[op[u].s] = ctrl_[op[u].s]
  <2>1. \A u \in Threads : u # t => op[u].s # s /\ (f # None => op[u].s # f)
    BY <1>1, <1>4, NotShared DEF IInv
  <2> QED
    BY <1>4, <1>5, <2>1
<1>8. /\ ~GaveUp(s)' /\ ~Consumed(s)' /\ ~Consumed(s)
      /\ \A r \in Shareds : r # s => GaveUp(r)' = GaveUp(r) /\ Consumed(r)' = Consumed(r)
      /\ f # None => ~GaveUp(f) /\ ~Consumed(f)
      /\ op[t].pc = "drop" => ~GaveUp(s)
  <2>1. ~GaveUp(s)' /\ ~Consumed(s)'
    BY <1>4, <1>6, <1>7 DEF GaveUp, Consumed, NoOp
  <2>2. ~Consumed(s) /\ (op[t].pc = "drop" => ~GaveUp(s))
    BY <1>4, <1>7 DEF GaveUp, Consumed
  <2>3. \A r \in Shareds : r # s => GaveUp(r)' = GaveUp(r) /\ Consumed(r)' = Consumed(r)
    BY <1>4, <1>6 DEF GaveUp, Consumed, NoOp
  <2>4. f # None => ~GaveUp(f) /\ ~Consumed(f)
    BY <1>1, <1>7 DEF GaveUp, Consumed
  <2> QED
    BY <2>1, <2>2, <2>3, <2>4
<1>9. TypeOK'
  BY <1>4, <1>5, <1>6 DEF TypeOK
<1>10. CallsFormed'
  <2>1. ASSUME NEW u \in Threads, u # t
        PROVE  Formed(u)' /\ Uses(u)' = Uses(u)
    <3>1. Formed(u) /\ op'[u] = op[u]
      BY <1>6, <2>1 DEF IInv, CallsFormed
    <3>2. op[u].s \in Shareds /\ ctrl_[op[u].s] # None => ctrl_'[op[u].s] # None
      BY <1>7, <2>1
    <3>3. Formed(u)'
      BY <3>1, <3>2, StaysFormed
    <3> QED
      BY <3>1, <3>3 DEF Uses
  <2>2. Formed(t)' /\ Uses(t)' = {}
    BY <1>6 DEF Formed, Uses, NoOp
  <2> QED
    BY <2>1, <2>2 DEF IInv, CallsFormed
<1>11. AloneAtZero'
  <2>1. ASSUME NEW u \in Threads, AtZero(u)'
        PROVE  /\ AtZero(u) /\ op'[u].s = op[u].s /\ ctrl_'[op[u].s] = ctrl_[op[u].s]
               /\ block'[ctrl_[op[u].s]].ref = block[ctrl_[op[u].s]].ref
    <3>1. u # t /\ AtZero(u) /\ op'[u] = op[u]
      BY <1>6, <2>1 DEF AtZero, NoOp
    <3>2. op[u].s \in Shareds /\ ctrl_[op[u].s] \in Ctrls /\ ctrl_[op[u].s] # c
      BY <1>7, <3>1, ZeroIsAlone
    <3> QED
      BY <1>7, <3>1, <3>2
  <2> QED
    BY <2>1, StayAlone DEF IInv
\* c is left to others, or to nobody.
<1>12. op[t].pc = "delete" =>
         /\ Pending(c) = {} /\ g # c /\ \A r \in Shareds : r # s => ctrl_[r] # c
  <2> SUFFICES ASSUME op[t].pc = "delete"
               PROVE  /\ Pending(c) = {} /\ g # c /\ \A r \in Shareds : r # s => ctrl_[r] # c
    OBVIOUS
  <2>1. Pending(c) = {} /\ \A r \in Shareds : r # s => ctrl_[r] # c
    BY ZeroIsAlone DEF AtZero
  <2>2. g # c
    BY <1>1, <1>2, <1>3, <2>1 DEF Pending
  <2> QED
    BY <2>1, <2>2
<1>13. ASSUME NEW e \in Ctrls
       PROVE  Cardinality(Shares(e)') + Cardinality(Pending(e)')
                = Cardinality(Shares(e) \ {s}) + Cardinality(Pending(e))
  <2>1. IsFiniteSet(Shares(e) \ {s}) /\ Cardinality(Shares(e) \ {s}) \in Nat
    BY SharesFinite, FS_Subset, FS_CardinalityType
  <2>2. CASE g # e
    <3>1. Shares(e)' = Shares(e) \ {s}
      BY <1>1, <1>3, <1>4, <1>5, <1>8, <2>2 DEF Shares
    <3>2. Pending(e)' = Pending(e)
      BY <1>2, <1>3, <1>4, <1>6, <2>2 DEF Pending, NoOp
    <3> QED
      BY <3>1, <3>2
  <2>3. CASE g = e /\ f = None
    <3>1. Shares(e)' = (Shares(e) \ {s}) \union {s}
      BY <1>4, <1>5, <1>8, <2>3 DEF Shares
    <3>2. Pending(e)' = Pending(e) \ {t} /\ t \in Pending(e)
      BY <1>2, <1>3, <1>4, <1>6, <2>3 DEF Pending, NoOp
    <3>3. Cardinality(Shares(e)') = Cardinality(Shares(e) \ {s}) + 1
      BY <2>1, <3>1, CountOfMore
    <3>4. /\ Cardinality(Pending(e)') = Cardinality(Pending(e)) - 1
          /\ Cardinality(Pending(e)) \in Nat
      BY <3>2, CountOfLess, SharesFinite
    <3> QED
      BY <2>1, <3>3, <3>4
  <2>4. CASE g = e /\ f # None
    <3>1. /\ Shares(e)' = ((Shares(e) \ {s}) \ {f}) \union {s} /\ f \in Shares(e) \ {s}
          /\ f # s
      BY <1>1, <1>3, <1>4, <1>5, <1>8, <2>4 DEF Shares
    <3>2. Pending(e)' = Pending(e)
      BY <1>2, <1>4, <1>6, <2>4 DEF Pending, NoOp
    <3>3. /\ IsFiniteSet((Shares(e) \ {s}) \ {f})
          /\ Cardinality((Shares(e) \ {s}) \ {f}) = Cardinality(Shares(e) \ {s}) - 1
      BY <2>1, <3>1, CountOfLess
    <3>4. Cardinality(Shares(e)') = Cardinality((Shares(e) \ {s}) \ {f}) + 1
      BY <3>1, <3>3, CountOfMore
    <3> QED
      BY <2>1, <3>2, <3>3, <3>4
  <2> QED
    BY <2>2, <2>3, <2>4
<1>14. CountsAreOwners'
  <2>1. ASSUME NEW e \in Ctrls, block'[e].live
        PROVE  block'[e].ref = Cardinality(Shares(e)') + Cardinality(Pending(e)')
    <3>1. CASE e # c
      <4>1. Shares(e) \ {s} = Shares(e)
        BY <3>1 DEF Shares
      <4>2. block[e].ref = Cardinality(Shares(e)) + Cardinality(Pending(e))
        BY <2>1, <3>1 DEF IInv, CountsAreOwners
      <4> QED
        BY <1>13, <3>1, <4>1, <4>2
    <3>2. CASE e = c
      <4>1. op[t].pc = "drop" /\ block[c].live /\ block'[c].ref = block[c].ref - 1
        BY <2>1, <3>2 DEF Deleted
      <4>2. block[c].ref = Cardinality(Shares(c)) + Cardinality(Pending(c))
        BY <4>1 DEF IInv, CountsAreOwners
      <4>3. s \in Shares(c)
        BY <1>8, <4>1 DEF Shares
      <4>4. Cardinality(Shares(c) \ {s}) = Cardinality(Shares(c)) - 1
        BY <4>3, CountOfLess, SharesFinite
      <4> QED
        BY <1>13, <3>2, <4>1, <4>2, <4>4, SharesFinite
    <3> QED
      BY <3>1, <3>2
  <2> QED
    BY <2>1 DEF CountsAreOwners
<1>15. /\ g # None => block[g].live
       /\ \A r \in Shareds : r # s /\ ctrl_'[r] # None => ctrl_'[r] = ctrl_[r]
  <2>1. f = None => (n # None => block[n].live)
    BY <1>2 DEF IInv, BuffersAreLive
  <2>2. f # None => (ctrl_[f] # None => block[ctrl_[f]].live)
    BY DEF IInv, BuffersAreLive
  <2>3. g # None => block[g].live
    BY <1>3, <2>1, <2>2
  <2> QED
    BY <1>1, <1>4, <1>5, <2>3
<1>16. BuffersAreLive'
  <2>1. ASSUME NEW r \in Shareds, ctrl_'[r] # None
        PROVE  block'[ctrl_'[r]].live
    BY <1>4, <1>5, <1>12, <1>15, <2>1 DEF IInv, BuffersAreLive, TypeOK
  <2>2. \A e : Emptied(e)' => Emptied(e)
    BY <1>4, <1>6, <1>7, CallHolds DEF Emptied, NoOp, IInv
  <2>3. g # None => ~Emptied(g)'
    <3> SUFFICES ASSUME g # None, NEW u \in Threads, op'[u].pc = "delete", ctrl_'[op'[u].s] = g
                 PROVE  FALSE
      BY DEF Emptied
    <3>1. u # t /\ op'[u] = op[u] /\ AtZero(u)
      BY <1>6 DEF NoOp, AtZero
    <3>2. ctrl_[op[u].s] = g
      BY <1>7, <3>1, ZeroIsAlone
    <3>3. Pending(g) = {} /\ \A r \in Shareds : ctrl_[r] = g => r = op[u].s
      BY <3>1, <3>2, ZeroIsAlone
    <3> QED
      BY <1>1, <1>2, <1>3, <1>7, <3>1, <3>3 DEF Pending
  <2>4. ASSUME NEW r \in Shareds, ctrl_'[r] # None, ~GaveUp(r)'
        PROVE  ~Emptied(ctrl_[r])'
    <3>1. CASE r = s
      BY <1>5, <2>3, <2>4, <3>1 DEF Emptied
    <3>2. CASE r # s
      <4>1. ctrl_'[r] = ctrl_[r] /\ ~Emptied(ctrl_[r])
        BY <1>8, <1>15, <2>4, <3>2 DEF IInv, BuffersAreLive
      <4> QED
        BY <1>4, <1>6, <1>7, CallHolds, <4>1 DEF Emptied, NoOp, IInv
    <3> QED
      BY <3>1, <3>2
  <2>5. ASSUME NEW u \in Threads, op'[u].next # None
        PROVE  block'[op'[u].next].live
    <3>1. u # t /\ op'[u] = op[u]
      BY <1>6, <2>5 DEF NoOp
    <3>2. op[u].next \in Ctrls /\ block[op[u].next].live
      BY <1>4, <2>5, <3>1 DEF IInv, BuffersAreLive, TypeOK, Op
    <3>3. op[t].pc = "delete" => op[u].next # c
      BY <1>12 DEF Pending
    <3> QED
      BY <3>1, <3>2, <3>3
  <2> QED
    BY <2>1, <2>4, <2>5 DEF BuffersAreLive
<1>17. PointersSet'
  BY DEF IInv, PointersSet, Blocks, Deleted
<1>18. /\ \A e : e # c => Emptied(e)' = Emptied(e)
       /\ op[t].pc = "drop" => Emptied(c)' = Emptied(c)
       /\ op[t].pc = "delete" => Emptied(c)
  BY <1>4, <1>6, <1>7, CallHolds DEF Emptied, NoOp, IInv
<1>19. Conserved' /\ PlacesSame
  <2>1. CASE op[t].pc = "drop"
    BY <1>18, <2>1, SamePlaces
  <2>2. CASE op[t].pc = "delete"
    <3>1. \A b : /\ InPool(b)' = InPool(b) /\ OwnersWith(b)' = OwnersWith(b)
                 /\ CtrlsWith(b)' = CtrlsWith(b)
      BY <1>18, <2>2 DEF InPool, OwnersWith, CtrlsWith, Deleted
    <3> QED
      BY <3>1, InParts DEF Conserved, OnePlace, Blocks, PlacesSame
  <2> QED
    BY <1>4, <2>1, <2>2
<1>20. IInv'
  BY <1>9, <1>10, <1>11, <1>14, <1>16, <1>17, <1>19, InParts, PTL DEF CallsAndCounts
<1>21. ASSUME NEW e \in Ctrls, ~Emptied(e)
       PROVE  SharesChange(e)
  <2>1. \A r \in Shareds : (\E u \in Threads : op[u].s = r /\ op[u].next = e)
           <=> \/ \E u \in Threads : op'[u].s = r /\ op'[u].next = e
               \/ r = s /\ e = n
    BY <1>2, <1>4, <1>6 DEF NoOp
  <2>2. \A u \in Threads : op'[u].s # s /\ (f # None => op'[u].s # f /\ op[u].s # f)
    BY <1>1, <1>4, <1>6, <1>7 DEF NoOp
  <2>3. e = c => op[t].pc = "drop" /\ s \in SharersOf(e)
    BY <1>4, <1>8, <1>18, <2>1, <1>21 DEF SharersOf
  <2>4. CASE g # e
    <3>1. SharersOf(e)' = IF e = c THEN SharersOf(e) \ {s} ELSE SharersOf(e)
      BY <1>1, <1>2, <1>3, <1>4, <1>5, <1>8, <2>1, <2>2, <2>4 DEF SharersOf
    <3> QED
      BY <2>3, <3>1 DEF SharesChange
  <2>5. CASE g = e /\ f = None
    <3>1. SharersOf(e)' = SharersOf(e)
      BY <1>3, <1>4, <1>5, <1>8, <2>1, <2>5 DEF SharersOf
    <3> QED
      BY <3>1 DEF SharesChange
  <2>6. CASE g = e /\ f # None
    <3>1. f \in SharersOf(e) /\ f # s
      BY <1>1, <1>3, <1>8, <2>6 DEF SharersOf
    <3>2. SharersOf(e)' = (SharersOf(e) \ {f}) \union {s}
      BY <1>1, <1>2, <1>3, <1>4, <1>5, <1>8, <2>1, <2>2, <2>6 DEF SharersOf
    <3> QED
      BY <3>1, <3>2 DEF SharesChange
  <2> QED
    BY <2>4, <2>5, <2>6
<1> QED
  BY <1>19, <1>20, <1>21 DEF SharesStep

LEMMA FetchSubKeeps ==
    ASSUME IInv, NEW t \in Threads, FetchSub(t)
    PROVE  IInv' /\ SharesStep
<1>1. PICK s \in Shareds : s = op[t].s /\ ctrl_[s] # None
  BY CallHolds DEF IInv, FetchSub
<1>2. PICK c \in Ctrls : c = ctrl_[s]
  BY <1>1 DEF IInv, TypeOK
<1>3. /\ TypeOK /\ block[c].live /\ op[t].pc = "drop" /\ None \notin Shareds
      /\ block \in [Ctrls -> ControlBlock] /\ block[c] \in ControlBlock
      /\ block' = [block EXCEPT ![c].ref = block[c].ref - 1]
      /\ UNCHANGED <<free_blocks_, data_>>
  BY <1>1, <1>2, HandlesAssumption DEF IInv, BuffersAreLive, TypeOK, FetchSub, Handles
<1>4. \A u \in Threads : u # t => op[u].s # s
  BY <1>1, <1>3, NotShared DEF IInv
<1>5. s \in Shares(c)
  BY <1>2, <1>3, <1>4 DEF Shares, GaveUp, Consumed
<1>6. block[c].ref \in Nat /\ block[c].ref >= 1
  <2>1. block[c].ref = Cardinality(Shares(c)) + Cardinality(Pending(c))
    BY <1>3 DEF IInv, CountsAreOwners
  <2>2. Cardinality(Shares(c)) \in Nat /\ Cardinality(Shares(c)) >= 1
    BY <1>5, CountOfLess, SharesFinite
  <2>3. Cardinality(Pending(c)) \in Nat
    BY SharesFinite
  <2> QED
    BY <2>1, <2>2, <2>3
<1>7. CASE block[c].ref = 1
  <2>1. op' = [op EXCEPT ![t].pc = "last"] /\ UNCHANGED ctrl_
    BY <1>1, <1>2, <1>7 DEF FetchSub
  <2>2. block' = [block EXCEPT ![c].ref = 0]
    BY <1>3, <1>7
  <2>3. op[t] \in Op /\ op' = [op EXCEPT ![t] = [op[t] EXCEPT !.pc = "last"]]
    BY <1>3, <2>1 DEF TypeOK
  <2>4. /\ op'[t] = [op[t] EXCEPT !.pc = "last"]
        /\ \A u \in Threads : u # t => op'[u] = op[u]
        /\ op' \in [Threads -> Op]
    BY <1>3, <2>3 DEF TypeOK, Op
  <2>5. /\ op'[t].pc = "last" /\ op'[t].s = s
        /\ op'[t].next = op[t].next /\ op'[t].other = op[t].other
    BY <1>1, <2>3, <2>4 DEF Op
  <2>6. Formed(t)'
    BY <1>1, <1>3, <2>1, <2>5 DEF Formed, IInv, CallsFormed, NoOp
  <2>7. \A u \in Threads : u # t => Uses(t)' \intersect Uses(u) = {}
    BY <1>1, <2>5 DEF Uses, IInv, CallsFormed
  <2> QED
    BY <1>1, <1>2, <1>3, <1>5, <1>7, <2>1, <2>2, <2>4, <2>5, <2>6, <2>7, ZeroStep
<1>8. CASE block[c].ref # 1
  <2>1. Finish(t)
    BY <1>1, <1>2, <1>8 DEF FetchSub
  <2>2. block' = [block EXCEPT ![c] = [block[c] EXCEPT !.ref = block[c].ref - 1]]
    BY <1>3
  <2>3. [block[c] EXCEPT !.ref = block[c].ref - 1] \in ControlBlock
    BY <1>3, <1>6 DEF ControlBlock
  <2>4. /\ block'[c] = [block[c] EXCEPT !.ref = block[c].ref - 1]
        /\ \A e \in Ctrls : e # c => block'[e] = block[e]
        /\ block' \in [Ctrls -> ControlBlock]
    BY <1>3, <2>2, <2>3
  <2>5. /\ block'[c].live = block[c].live /\ block'[c].ptr = block[c].ptr
        /\ block'[c].ref = block[c].ref - 1
    BY <1>3, <2>4 DEF ControlBlock
  <2>6. \/ /\ op[t].pc = "drop"
           /\ block'[c].live = block[c].live /\ block'[c].ptr = block[c].ptr
           /\ block'[c].ref = block[c].ref - 1
        \/ op[t].pc = "delete" /\ block'[c] = Deleted
    BY <1>3, <2>5
  <2>7. op[t].s = s /\ ctrl_[s] = c /\ UNCHANGED <<free_blocks_, data_>>
    BY <1>1, <1>2, <1>3
  <2>8. block' \in [Ctrls -> ControlBlock] /\ \A e \in Ctrls : e # c => block'[e] = block[e]
    BY <2>4
  <2> QED
    BY <2>1, <2>6, <2>7, <2>8, FinishStep
<1> QED
  BY <1>7, <1>8

LEMMA DeleteBlockKeeps ==
    ASSUME IInv, NEW t \in Threads, DeleteBlock(t)
    PROVE  IInv' /\ SharesStep
<1>1. PICK s \in Shareds : s = op[t].s /\ ctrl_[s] # None
  BY CallHolds DEF IInv, DeleteBlock
<1>2. PICK c \in Ctrls : c = ctrl_[s]
  BY <1>1 DEF IInv, TypeOK
<1>3. block' = [block EXCEPT ![c] = Deleted] /\ block \in [Ctrls -> ControlBlock]
  BY <1>1, <1>2 DEF DeleteBlock, IInv, TypeOK
<1>4. /\ block' \in [Ctrls -> ControlBlock] /\ block'[c] = Deleted
      /\ \A e \in Ctrls : e # c => block'[e] = block[e]
  BY <1>3 DEF ControlBlock, Deleted
<1> QED
  BY <1>1, <1>2, <1>4, FinishStep DEF DeleteBlock

LEMMA CallDeleterKeeps ==
    ASSUME IInv, NEW t \in Threads, CallDeleter(t)
    PROVE  IInv' /\ Returns
<1>1. PICK s \in Shareds : s = op[t].s /\ ctrl_[s] # None
  BY CallHolds DEF IInv, CallDeleter
<1>2. PICK c \in Ctrls : c = ctrl_[s]
  BY <1>1 DEF IInv, TypeOK
<1>3. /\ TypeOK /\ op[t].pc = "last" /\ AtZero(t) /\ UNCHANGED <<data_, ctrl_, block>>
      /\ block[c].live /\ \A b \in Blocks : OnePlace(b)
      /\ free_blocks_ \in Seq(Blocks) /\ IsInjective(free_blocks_)
  BY <1>1, <1>2, InParts
  DEF IInv, BuffersAreLive, TypeOK, CallDeleter, AtZero, Conserved, BlocksConserved
<1>4. PICK a \in Blocks : a = block[c].ptr
  BY <1>3 DEF IInv, PointersSet
<1>5. /\ free_blocks_' = Append(free_blocks_, a)
      /\ op' = [op EXCEPT ![t] = [op[t] EXCEPT !.pc = "delete"]] /\ op[t] \in Op
  BY <1>1, <1>2, <1>3, <1>4 DEF CallDeleter, Back, TypeOK
<1>6. /\ op'[t] = [op[t] EXCEPT !.pc = "delete"]
      /\ \A u \in Threads : u # t => op'[u] = op[u]
      /\ op' \in [Threads -> Op]
  BY <1>3, <1>5 DEF TypeOK, Op
<1>7. /\ op'[t].pc = "delete" /\ op'[t].s = s
      /\ op'[t].next = op[t].next /\ op'[t].other = op[t].other
  BY <1>1, <1>5, <1>6 DEF Op
\* s is the only buffer, and t the only thread, that has to do with c.
<1>8. /\ \A u \in Threads : op'[u].s = op[u].s /\ op'[u].next = op[u].next
      /\ \A u \in Threads : AtZero(u) /\ ctrl_[op[u].s] = c => u = t
      /\ \A r \in Shareds : ctrl_[r] = c => r = s
  <2>1. \A u \in Threads : op'[u].s = op[u].s /\ op'[u].next = op[u].next
    BY <1>1, <1>6, <1>7
  <2> QED
    BY <1>1, <1>2, <1>3, <2>1, ZeroIsAlone DEF IInv, AloneAtZero, AtZero
<1>9. /\ \A e : Emptied(e)' <=> Emptied(e) \/ e = c
      /\ ~Emptied(c)
  <2>1. ~Emptied(c)
    BY <1>3, <1>8 DEF Emptied, AtZero
  <2> QED
    BY <1>2, <1>3, <1>6, <1>7, <2>1 DEF Emptied
<1>10. /\ \A r : GaveUp(r)' = GaveUp(r) /\ Consumed(r)' = Consumed(r)
       /\ GaveUp(s)
  <2>1. \A u \in Threads :
           /\ op'[u].pc \in {"last", "delete"} <=> op[u].pc \in {"last", "delete"}
           /\ op'[u].pc = "consumed" <=> op[u].pc = "consumed"
    BY <1>3, <1>6, <1>7
  <2> QED
    BY <1>1, <1>3, <1>8, <2>1 DEF GaveUp, Consumed
<1>11. c \in CtrlsWith(a)
  BY <1>3, <1>4, <1>9 DEF CtrlsWith
<1>12. CtrlsWith(a) = {c} /\ OwnersWith(a) = {} /\ ~InPool(a)
  BY <1>3, <1>11 DEF OnePlace
<1>13. /\ free_blocks_' \in Seq(Blocks) /\ IsInjective(free_blocks_')
       /\ \A b : InPool(b)' <=> InPool(b) \/ b = a
  BY <1>3, <1>5, <1>12, AppendToPool DEF InPool
<1>14. /\ \A b : OwnersWith(b)' = OwnersWith(b)
       /\ CtrlsWith(a)' = {} /\ \A b \in Blocks : b # a => CtrlsWith(b)' = CtrlsWith(b)
  BY <1>3, <1>4, <1>9, <1>12 DEF CtrlsWith, OwnersWith
<1>15. TypeOK'
  BY <1>3, <1>6, <1>13 DEF TypeOK
<1>16. CallsFormed'
  <2>1. ASSUME NEW u \in Threads PROVE Uses(u)' = Uses(u) /\ Formed(u)'
    <3>1. CASE u = t
      BY <1>1, <1>3, <1>7, <3>1 DEF Uses, Formed, IInv, CallsFormed, NoOp
    <3>2. CASE u # t
      BY <1>3, <1>6, <3>2, StaysFormed DEF Uses, IInv, CallsFormed
    <3> QED
      BY <3>1, <3>2
  <2> QED
    BY <2>1 DEF IInv, CallsFormed
<1>17. AloneAtZero'
  <2>1. \A u \in Threads : AtZero(u)' => AtZero(u)
    BY <1>3, <1>6, <1>7 DEF AtZero
  <2> QED
    BY <1>3, <1>8, <2>1, StayAlone DEF IInv
<1>18. CountsAreOwners'
  <2>1. \A e : Shares(e)' = Shares(e) /\ Pending(e)' = Pending(e)
    BY <1>3, <1>8, <1>10 DEF Shares, Pending
  <2> QED
    BY <1>3, <2>1 DEF IInv, CountsAreOwners
<1>19. BuffersAreLive'
  <2>1. \A r \in Shareds : ctrl_'[r] # None /\ ~GaveUp(r)' => ~Emptied(ctrl_[r])'
    BY <1>3, <1>8, <1>9, <1>10 DEF IInv, BuffersAreLive
  <2>2. \A u \in Threads : op'[u].next = op[u].next
    BY <1>6, <1>7
  <2> QED
    BY <1>3, <2>1, <2>2 DEF IInv, BuffersAreLive
<1>20. PointersSet'
  BY <1>3 DEF IInv, PointersSet, Blocks
<1>21. Conserved'
  <2>1. ASSUME NEW b \in Blocks PROVE OnePlace(b)'
    BY <1>3, <1>12, <1>13, <1>14 DEF OnePlace
  <2> QED
    BY <1>13, <2>1 DEF Conserved, Blocks
<1>22. Returns
  <2>1. SharersOf(c) = {}
    BY <1>1, <1>2, <1>3, <1>8, <1>10, ZeroIsAlone DEF SharersOf, Pending
  <2>2. \A e : SharersOf(e)' = SharersOf(e)
    BY <1>3, <1>8, <1>10 DEF SharersOf
  <2>3. \A b \in Blocks \ {a} : Same(b)
    BY <1>13, <1>14, <2>2 DEF Same
  <2> QED
    BY <1>12, <1>13, <2>1, <2>3 DEF Returns
<1> QED
  BY <1>15, <1>16, <1>17, <1>18, <1>19, <1>20, <1>21, <1>22, InParts, PTL DEF CallsAndCounts

LEMMA MoveOutKeeps ==
    ASSUME IInv, NEW t \in Threads, MoveOut(t)
    PROVE  IInv' /\ Leaves
<1>1. PICK s \in Shareds : s = op[t].s /\ ctrl_[s] # None
  BY CallHolds DEF IInv, MoveOut
<1>2. PICK c \in Ctrls : c = ctrl_[s]
  BY <1>1 DEF IInv, TypeOK
<1>3. PICK r \in Releaseds : r = op[t].other /\ data_[r] = None
  BY DEF MoveOut, IInv, CallsFormed, Formed, NoOp
<1>4. /\ TypeOK /\ op[t].pc = "consumed" /\ AtZero(t) /\ block[c].live
      /\ \A b \in Blocks : OnePlace(b)
      /\ IsInjective(free_blocks_) /\ r \in Owners /\ r \notin Shareds
      /\ None \notin Shareds /\ None \notin Ctrls /\ None \notin Blocks /\ r # None
  BY <1>1, <1>2, InParts, HandlesAssumption, BlocksAssumption
  DEF IInv, BuffersAreLive, MoveOut, AtZero, Conserved, BlocksConserved, Handles, Owners, Blocks
<1>5. PICK a \in Blocks : a = block[c].ptr
  BY <1>4 DEF IInv, PointersSet
<1>6. /\ data_' = [data_ EXCEPT ![r] = a] /\ block' = [block EXCEPT ![c] = Deleted]
      /\ ctrl_' = [ctrl_ EXCEPT ![s] = None] /\ op' = [op EXCEPT ![t] = NoOp]
      /\ free_blocks_' = free_blocks_
  BY <1>1, <1>2, <1>3, <1>5 DEF MoveOut
<1>7. TypeOK'
  BY <1>4, <1>6 DEF TypeOK, ControlBlock, Deleted, Op, NoOp
<1>8. /\ data_'[r] = a /\ \A h \in Owners : h # r => data_'[h] = data_[h]
      /\ block'[c] = Deleted /\ \A e \in Ctrls : e # c => block'[e] = block[e]
      /\ ctrl_'[s] = None /\ \A x \in Shareds : x # s => ctrl_'[x] = ctrl_[x]
      /\ op'[t] = NoOp /\ \A u \in Threads : u # t => op'[u] = op[u]
  BY <1>4, <1>6 DEF TypeOK
<1>9. /\ \A u \in Threads : AtZero(u) /\ ctrl_[op[u].s] = c => u = t
      /\ \A x \in Shareds : ctrl_[x] = c => x = s
      /\ Pending(c) = {} /\ Shares(c) = {}
  BY <1>1, <1>2, <1>4, ZeroIsAlone DEF IInv, AloneAtZero, AtZero
<1>10. \A u \in Threads : u # t => op[u].s # s /\ op[u].other # s /\ op[u].s # r /\ op[u].other # r
  BY <1>1, <1>3, <1>4, NotShared DEF IInv
<1>11. /\ ~GaveUp(s) /\ \A x : GaveUp(x)' = GaveUp(x)
       /\ \A x \in Shareds : x # s => Consumed(x)' = Consumed(x)
       /\ \A e : Emptied(e)' = Emptied(e)
       /\ ~Emptied(c)
  <2>1. ~GaveUp(s) /\ \A x : GaveUp(x)' = GaveUp(x)
    BY <1>1, <1>4, <1>8, <1>10 DEF GaveUp, NoOp
  <2>2. \A x \in Shareds : x # s => Consumed(x)' = Consumed(x)
    BY <1>1, <1>4, <1>8, <1>10 DEF Consumed, NoOp
  <2>3. \A u \in Threads : op[u].pc = "delete" =>
           u # t /\ op[u].s \in Shareds /\ ctrl_'[op[u].s] = ctrl_[op[u].s]
    BY <1>4, <1>8, <1>10, CallHolds DEF IInv
  <2>4. \A e : Emptied(e)' = Emptied(e)
    BY <1>8, <2>3 DEF Emptied, NoOp
  <2>5. ~Emptied(c)
    BY <1>9, <2>3 DEF Emptied, AtZero
  <2> QED
    BY <2>1, <2>2, <2>4, <2>5
<1>12. CallsFormed'
  <2>1. ASSUME NEW u \in Threads, u # t PROVE Uses(u)' = Uses(u) /\ Formed(u)'
    <3>1. Formed(u) /\ op'[u] = op[u]
      BY <1>8, <2>1 DEF IInv, CallsFormed
    <3>2. op[u].s \in Shareds /\ ctrl_[op[u].s] # None => ctrl_'[op[u].s] # None
      BY <1>8, <1>10, <2>1
    <3>3. op[u].other \in Releaseds /\ data_[op[u].other] = None => data_'[op[u].other] = None
      BY <1>8, <1>10, <2>1 DEF Owners
    <3>4. Formed(u)'
      BY <3>1, <3>2, <3>3, StaysFormed
    <3> QED
      BY <3>1, <3>4 DEF Uses
  <2>2. Formed(t)' /\ Uses(t)' = {}
    BY <1>8 DEF Formed, Uses, NoOp
  <2> QED
    BY <2>1, <2>2 DEF IInv, CallsFormed
<1>13. AloneAtZero'
  <2>1. ASSUME NEW u \in Threads, AtZero(u)'
        PROVE  /\ AtZero(u) /\ op'[u].s = op[u].s /\ ctrl_'[op[u].s] = ctrl_[op[u].s]
               /\ block'[ctrl_[op[u].s]].ref = block[ctrl_[op[u].s]].ref
    <3>1. u # t /\ AtZero(u) /\ op'[u] = op[u]
      BY <1>8, <2>1 DEF AtZero, NoOp
    <3>2. op[u].s \in Shareds /\ ctrl_[op[u].s] \in Ctrls /\ ctrl_[op[u].s] # c
      BY <1>9, <3>1, ZeroIsAlone
    <3> QED
      BY <1>8, <1>10, <3>1, <3>2
  <2> QED
    BY <2>1, StayAlone DEF IInv
<1>14. CountsAreOwners'
  <2>1. ASSUME NEW e \in Ctrls, block'[e].live
        PROVE  block'[e].ref = Cardinality(Shares(e)') + Cardinality(Pending(e)')
    <3>1. e # c /\ block'[e] = block[e]
      BY <1>8, <2>1 DEF Deleted
    <3>2. Shares(e)' = Shares(e)
      BY <1>2, <1>4, <1>8, <1>11, <3>1 DEF Shares
    <3>3. Pending(e)' = Pending(e)
      BY <1>4, <1>8 DEF Pending, NoOp, IInv, CallsFormed, Formed
    <3> QED
      BY <2>1, <3>1, <3>2, <3>3 DEF IInv, CountsAreOwners
  <2> QED
    BY <2>1 DEF CountsAreOwners
<1>15. BuffersAreLive'
  <2>1. ASSUME NEW x \in Shareds, ctrl_'[x] # None
        PROVE  x # s /\ ctrl_'[x] = ctrl_[x] /\ ctrl_[x] # c /\ block'[ctrl_'[x]].live
    BY <1>4, <1>8, <1>9, <2>1 DEF IInv, BuffersAreLive, TypeOK
  <2>2. \A x \in Shareds : ctrl_'[x] # None /\ ~GaveUp(x)' => ~Emptied(ctrl_[x])'
    BY <1>11, <2>1 DEF IInv, BuffersAreLive, Emptied
  <2>3. ASSUME NEW u \in Threads, op'[u].next # None
        PROVE  block'[op'[u].next].live
    <3>1. u # t /\ op'[u] = op[u]
      BY <1>8, <2>3 DEF NoOp
    <3>2. op[u].next \in Ctrls /\ block[op[u].next].live /\ op[u].next # c
      BY <1>4, <1>9, <2>3, <3>1 DEF IInv, BuffersAreLive, TypeOK, Op, Pending
    <3> QED
      BY <1>8, <3>1, <3>2
  <2> QED
    BY <2>1, <2>2, <2>3 DEF BuffersAreLive
<1>16. PointersSet'
  BY <1>8 DEF IInv, PointersSet, Blocks, Deleted
<1>17. c \in CtrlsWith(a)
  BY <1>4, <1>5, <1>11 DEF CtrlsWith
<1>18. CtrlsWith(a) = {c} /\ OwnersWith(a) = {} /\ ~InPool(a)
  BY <1>4, <1>17 DEF OnePlace
<1>19. /\ \A b : InPool(b)' = InPool(b)
       /\ OwnersWith(a)' = {r} /\ CtrlsWith(a)' = {}
       /\ \A b \in Blocks : b # a => /\ OwnersWith(b)' = OwnersWith(b)
                                     /\ CtrlsWith(b)' = CtrlsWith(b)
  <2>1. \A b : InPool(b)' = InPool(b)
    BY <1>6 DEF InPool
  <2>2. OwnersWith(a)' = {r}
    BY <1>4, <1>8, <1>18 DEF OwnersWith
  <2>3. \A b \in Blocks : b # a => OwnersWith(b)' = OwnersWith(b)
    BY <1>3, <1>4, <1>8 DEF OwnersWith
  <2>4. CtrlsWith(a)' = {} /\ \A b \in Blocks : b # a => CtrlsWith(b)' = CtrlsWith(b)
    BY <1>5, <1>8, <1>11, <1>18 DEF CtrlsWith, Deleted
  <2> QED
    BY <2>1, <2>2, <2>3, <2>4
<1>20. Conserved'
  <2>1. ASSUME NEW b \in Blocks PROVE OnePlace(b)'
    BY <1>4, <1>18, <1>19 DEF OnePlace
  <2> QED
    BY <1>4, <1>6, <2>1 DEF Conserved, Blocks
<1>21. IInv'
  BY <1>7, <1>12, <1>13, <1>14, <1>15, <1>16, <1>20, InParts, PTL DEF CallsAndCounts
<1>22. Leaves
  <2>1. SharersOf(c) = {s}
    BY <1>1, <1>2, <1>9, <1>11 DEF SharersOf, Pending
  <2>2. op[t].next = None
    BY <1>4 DEF IInv, CallsFormed, Formed, NoOp
  <2>3. \A e \in Ctrls : \A x : (\E u \in Threads : op'[u].s = x /\ op'[u].next = e)
                              <=> \E u \in Threads : op[u].s = x /\ op[u].next = e
    BY <1>4, <1>8, <2>2 DEF NoOp
  <2>4. \A e \in Ctrls : e # c => SharersOf(e)' = SharersOf(e)
    BY <1>2, <1>4, <1>8, <1>11, <2>3 DEF SharersOf
  <2>5. \A b \in Blocks : b # a => c \notin CtrlsWith(b)
    BY <1>5 DEF CtrlsWith
  <2>6. \A b \in Blocks \ {a} : Same(b)
    BY <1>19, <2>4, <2>5 DEF Same, CtrlsWith
  <2> QED
    BY <1>4, <1>18, <1>19, <2>1, <2>6 DEF Leaves
<1> QED
  BY <1>21, <1>22

-----------------------------------------------------------------------------
(* The invariant *)

LEMMA InitInv == Init => IInv
<1> SUFFICES ASSUME Init PROVE IInv
  OBVIOUS
<1>1. TypeOK
  BY BlocksAssumption DEF Init, TypeOK, ControlBlock, Deleted, Op, NoOp, Blocks
<1>2. CallsFormed
  BY DEF Init, CallsFormed, Formed, Uses, NoOp
<1>3. AloneAtZero /\ CountsAreOwners /\ PointersSet
  BY DEF Init, AloneAtZero, CountsAreOwners, PointersSet, NoOp, Deleted
<1>4. BuffersAreLive
  BY DEF Init, BuffersAreLive, NoOp
<1>5. Conserved
  <2>1. ASSUME NEW b \in Blocks
        PROVE  InPool(b) /\ OwnersWith(b) = {} /\ CtrlsWith(b) = {}
    BY BlocksAssumption DEF Init, InPool, OwnersWith, CtrlsWith, Blocks, Deleted
  <2> QED
    BY <2>1, BlocksAssumption DEF Init, Conserved, OnePlace
<1> QED
  BY <1>1, <1>2, <1>3, <1>4, <1>5, InParts DEF CallsAndCounts

LEMMA StepInv == IInv /\ [Next]_vars => IInv'
<1> SUFFICES ASSUME IInv, [Next]_vars PROVE IInv'
  OBVIOUS
<1>1. CASE OwnersNext
  <2>1. CASE \E u \in Uniques : Allocate(u)
    BY <2>1, AllocateKeeps
  <2>2. CASE \E h \in Owners : Reset(h)
    BY <2>2, ResetKeeps
  <2>3. CASE \E h, g \in Owners : Transfer(h, g)
    BY <2>3, TransferKeeps
  <2>4. CASE \E u, v \in Uniques : MoveAssign(u, v) \/ Swap(u, v)
    BY <2>4, MoveAssignKeeps, SwapKeeps
  <2>5. CASE \E h \in Owners, s \in Shareds : MakeShared(h, s)
    BY <2>5, MakeSharedKeeps
  <2>6. CASE \E s, from \in Shareds : Copy(s, from) \/ Move(s, from) \/ SwapShared(s, from)
    BY <2>6, CopyKeeps, MoveKeeps, SwapSharedKeeps
  <2> QED
    BY <1>1, <2>1, <2>2, <2>3, <2>4, <2>5, <2>6 DEF OwnersNext
<1>2. ASSUME NEW t \in Threads, Starts(t)
      PROVE  IInv'
  <2>1. CASE \E s \in Shareds : ResetShared(t, s)
    BY <2>1, ResetSharedKeeps
  <2>2. CASE \E s, from \in Shareds : CopyAssign(t, s, from) \/ AssignByMove(t, s, from)
    BY <2>2, CopyAssignKeeps, AssignByMoveKeeps
  <2>3. CASE \E s \in Shareds, r \in Releaseds : Release(t, s, r)
    BY <2>3, ReleaseKeeps
  <2> QED
    BY <1>2, <2>1, <2>2, <2>3 DEF Starts
<1>3. ASSUME NEW t \in Threads, GoesOn(t)
      PROVE  IInv'
  BY <1>3, FetchSubKeeps, CallDeleterKeeps, DeleteBlockKeeps, MoveOutKeeps DEF GoesOn
<1>4. CASE UNCHANGED vars
  <2>1. TypeOK' /\ PointersSet'
    BY <1>4 DEF vars, IInv, TypeOK, PointersSet, Blocks
  <2>2. CallsFormed'
    BY <1>4 DEF vars, IInv, CallsFormed, Formed, Uses
  <2>3. AloneAtZero'
    BY <1>4 DEF vars, IInv, AloneAtZero
  <2>4. /\ \A e : Shares(e)' = Shares(e) /\ Pending(e)' = Pending(e) /\ Emptied(e)' = Emptied(e)
        /\ \A r : GaveUp(r)' = GaveUp(r)
    BY <1>4 DEF vars, Shares, Pending, GaveUp, Consumed, Emptied
  <2>5. CountsAreOwners'
    BY <1>4, <2>4 DEF vars, IInv, CountsAreOwners
  <2>6. BuffersAreLive'
    BY <1>4, <2>4 DEF vars, IInv, BuffersAreLive, Emptied
  <2>7. Conserved'
    BY <1>4, <2>4, SamePlaces DEF vars
  <2> QED
    BY <2>1, <2>2, <2>3, <2>5, <2>6, <2>7, InParts, PTL DEF CallsAndCounts
<1> QED
  BY <1>1, <1>2, <1>3, <1>4 DEF Next

LEMMA Invariance == Spec => []IInv
BY InitInv, StepInv, PTL DEF Spec

\* Counts stay natural numbers, and calls are those that threads make.
THEOREM TypeCorrect == Spec => []TypeOK
<1>1. IInv => TypeOK
  BY DEF IInv
<1> QED
  BY <1>1, Invariance, PTL

\* The count of a control block is the number of the buffers that own a share
\* of it or are about to (shared_buffer.hpp:225-244), for any number of threads.
THEOREM CountsOwners == Spec => []CountsAreOwners
<1>1. IInv => CountsAreOwners
  BY DEF IInv
<1> QED
  BY <1>1, Invariance, PTL

\* No buffer points to a control block that was deleted, and only one that is
\* being dropped points to one without its block.
THEOREM NoDangling == Spec => []BuffersAreLive
<1>1. IInv => BuffersAreLive
  BY DEF IInv
<1> QED
  BY <1>1, Invariance, PTL

\* Each block of the pool is in one place: free, in one exclusive buffer or in
\* one control block.  None is lost and none is given back twice.
THEOREM Conservation == Spec => []BlocksConserved
<1>1. IInv => BlocksConserved
  BY DEF IInv
<1> QED
  BY <1>1, Invariance, PTL

-----------------------------------------------------------------------------
(* The smart buffers implement BlockOwnership *)

\* The owners of a block are the exclusive buffer it is in, or the sharers of
\* the control block it is in.
PlaceGivesOwners ==
    \A b \in Blocks :
       /\ CtrlsWith(b) = {} => OwnersOf(b) = OwnersWith(b)
       /\ \A c : CtrlsWith(b) = {c} =>
            /\ c \in Ctrls /\ ~Emptied(c) /\ ~InPool(b) /\ OwnersWith(b) = {}
            /\ OwnersOf(b) = SharersOf(c)

LEMMA OwnersByPlace == IInv => PlaceGivesOwners
<1> SUFFICES ASSUME IInv, NEW b \in Blocks
             PROVE  /\ CtrlsWith(b) = {} => OwnersOf(b) = OwnersWith(b)
                    /\ \A c : CtrlsWith(b) = {c} =>
                         /\ c \in Ctrls /\ ~Emptied(c) /\ ~InPool(b) /\ OwnersWith(b) = {}
                         /\ OwnersOf(b) = SharersOf(c)
  BY DEF PlaceGivesOwners
<1>1. OwnersOf(b) = OwnersWith(b) \union Sharers(b) /\ OnePlace(b)
  BY InParts DEF OwnersOf, OwnersWith, Conserved
<1>2. ASSUME NEW s \in Sharers(b)
      PROVE  \E c \in CtrlsWith(b) : s \in SharersOf(c)
  <2>1. CASE ctrl_[s] # None /\ block[ctrl_[s]].ptr = b /\ ~GaveUp(s)
    <3>1. s \in Shareds /\ ctrl_[s] \in CtrlsWith(b)
      BY <2>1 DEF IInv, TypeOK, BuffersAreLive, CtrlsWith, Sharers
    <3> QED
      BY <2>1, <3>1 DEF SharersOf
  <2>2. CASE \E t \in Threads : op[t].s = s /\ op[t].next # None /\ block[op[t].next].ptr = b
    <3>1. PICK t \in Threads : op[t].s = s /\ op[t].next # None /\ block[op[t].next].ptr = b
      BY <2>2
    <3>2. PICK d \in Ctrls : d = op[t].next
      BY <3>1 DEF IInv, TypeOK, Op
    <3>3. block[d].live /\ block[d].ptr = b /\ t \in Pending(d)
      BY <3>1, <3>2 DEF IInv, BuffersAreLive, Pending
    <3>4. ~Emptied(d)
      BY <3>3, ZeroIsAlone DEF Emptied, AtZero
    <3> QED
      BY <3>1, <3>2, <3>3, <3>4 DEF CtrlsWith, SharersOf, Sharers
  <2> QED
    BY <2>1, <2>2 DEF Sharers
<1>3. ASSUME NEW c \in CtrlsWith(b), NEW s \in SharersOf(c)
      PROVE  s \in Sharers(b)
  <2>1. c \in Ctrls /\ c # None /\ block[c].ptr = b
    BY HandlesAssumption DEF CtrlsWith
  <2> QED
    BY <2>1 DEF Sharers, SharersOf
<1>4. CtrlsWith(b) = {} => OwnersOf(b) = OwnersWith(b)
  BY <1>1, <1>2
<1>5. ASSUME NEW c, CtrlsWith(b) = {c}
      PROVE  /\ c \in Ctrls /\ ~Emptied(c) /\ ~InPool(b) /\ OwnersWith(b) = {}
             /\ OwnersOf(b) = SharersOf(c)
  <2>1. c \in CtrlsWith(b)
    BY <1>5
  <2>2. ~InPool(b) /\ OwnersWith(b) = {}
    BY <1>1, <1>5 DEF OnePlace
  <2>3. Sharers(b) = SharersOf(c)
    BY <1>2, <1>3, <1>5
  <2> QED
    BY <1>1, <2>1, <2>2, <2>3 DEF CtrlsWith
<1> QED
  BY <1>4, <1>5

\* What the abstract actions say of a block.
LEMMA AbstractActions ==
    ASSUME NEW b \in Blocks
    PROVE  /\ (InPool(b) /\ ~InPool(b)' /\ \E h \in Owners : OwnersOf(b)' = {h})
                => Abstract!Take(b)
           /\ (/\ OwnersOf(b) # {} /\ OwnersOf(b) \subseteq Shareds /\ ~InPool(b)'
               /\ \E h \in Shareds \ OwnersOf(b) : OwnersOf(b)' = OwnersOf(b) \union {h})
                => Abstract!Share(b)
           /\ (~InPool(b)' /\ \E h, g \in Handles : OwnersOf(b) = {h} /\ OwnersOf(b)' = {g})
                => Abstract!Pass(b)
           /\ (/\ ~InPool(b)'
               /\ \E h \in OwnersOf(b), g \in Shareds :
                     OwnersOf(b)' = (OwnersOf(b) \ {h}) \union {g})
                => Abstract!Pass(b)
           /\ (/\ InPool(b)' => OwnersOf(b)' = {}
               /\ \E h \in OwnersOf(b) : OwnersOf(b)' = OwnersOf(b) \ {h})
                => Abstract!Drop(b)
           /\ (OwnersOf(b) = {} /\ ~InPool(b) /\ OwnersOf(b)' = {} /\ InPool(b)')
                => Abstract!Return(b)
           /\ (OwnersOf(b)' = OwnersOf(b) /\ (InPool(b)' <=> InPool(b)))
                => Abstract!Rest(b)
<1> DEFINE holders == [x \in Blocks |-> OwnersOf(x)]
<1>1. holders[b] = OwnersOf(b) /\ holders'[b] = OwnersOf(b)'
  BY DEF Blocks
<1>2. /\ InPool(b) <=> b \in ToSet(free_blocks_)
      /\ InPool(b)' <=> b \in ToSet(free_blocks_)'
  BY DEF InPool
<1>3. (InPool(b) /\ ~InPool(b)' /\ \E h \in Owners : OwnersOf(b)' = {h}) => Abstract!Take(b)
  BY <1>1, <1>2 DEF Abstract!Take
<1>4. (/\ OwnersOf(b) # {} /\ OwnersOf(b) \subseteq Shareds /\ ~InPool(b)'
       /\ \E h \in Shareds \ OwnersOf(b) : OwnersOf(b)' = OwnersOf(b) \union {h})
        => Abstract!Share(b)
  <2> SUFFICES ASSUME OwnersOf(b) # {}, OwnersOf(b) \subseteq Shareds, ~InPool(b)',
                      NEW h \in Shareds \ OwnersOf(b), OwnersOf(b)' = OwnersOf(b) \union {h}
               PROVE  Abstract!Share(b)
    OBVIOUS
  <2> QED
    BY <1>1, <1>2 DEF Abstract!Share
<1>5. (~InPool(b)' /\ \E h, g \in Handles : OwnersOf(b) = {h} /\ OwnersOf(b)' = {g})
        => Abstract!Pass(b)
  <2> SUFFICES ASSUME ~InPool(b)', NEW h \in Handles, NEW g \in Handles,
                      OwnersOf(b) = {h}, OwnersOf(b)' = {g}
               PROVE  Abstract!Pass(b)
    OBVIOUS
  <2>1. h \in OwnersOf(b) /\ OwnersOf(b)' = (OwnersOf(b) \ {h}) \union {g}
    OBVIOUS
  <2> QED
    BY <1>1, <1>2, <2>1 DEF Abstract!Pass, Handles
<1>6. (/\ ~InPool(b)'
       /\ \E h \in OwnersOf(b), g \in Shareds : OwnersOf(b)' = (OwnersOf(b) \ {h}) \union {g})
        => Abstract!Pass(b)
  <2> SUFFICES ASSUME ~InPool(b)', NEW h \in OwnersOf(b), NEW g \in Shareds,
                      OwnersOf(b)' = (OwnersOf(b) \ {h}) \union {g}
               PROVE  Abstract!Pass(b)
    OBVIOUS
  <2> QED
    BY <1>1, <1>2 DEF Abstract!Pass
<1>7. (/\ InPool(b)' => OwnersOf(b)' = {}
       /\ \E h \in OwnersOf(b) : OwnersOf(b)' = OwnersOf(b) \ {h})
        => Abstract!Drop(b)
  <2> SUFFICES ASSUME InPool(b)' => OwnersOf(b)' = {},
                      NEW h \in OwnersOf(b), OwnersOf(b)' = OwnersOf(b) \ {h}
               PROVE  Abstract!Drop(b)
    OBVIOUS
  <2> QED
    BY <1>1, <1>2 DEF Abstract!Drop
<1>8. (OwnersOf(b) = {} /\ ~InPool(b) /\ OwnersOf(b)' = {} /\ InPool(b)') => Abstract!Return(b)
  BY <1>1, <1>2 DEF Abstract!Return
<1>9. (OwnersOf(b)' = OwnersOf(b) /\ (InPool(b)' <=> InPool(b))) => Abstract!Rest(b)
  BY <1>1, <1>2 DEF Abstract!Rest
<1> QED
  BY <1>3, <1>4, <1>5, <1>6, <1>7, <1>8, <1>9

LEMMA OwnersByPlaceNext ==
    ASSUME IInv', NEW b \in Blocks
    PROVE  /\ CtrlsWith(b)' = {} => OwnersOf(b)' = OwnersWith(b)'
           /\ \A c : CtrlsWith(b)' = {c} => ~InPool(b)' /\ OwnersOf(b)' = SharersOf(c)'
<1>1. PlaceGivesOwners'
  BY OwnersByPlace, PTL
<1> QED
  BY <1>1 DEF PlaceGivesOwners, Blocks

LEMMA SameRests ==
    ASSUME IInv, IInv', NEW b \in Blocks, Same(b)
    PROVE  Abstract!Rest(b)
<1>1. CtrlsWith(b) = {} \/ \E c : CtrlsWith(b) = {c}
  BY InParts DEF Conserved, OnePlace
<1>2. OwnersOf(b)' = OwnersOf(b)
  <2>1. CASE CtrlsWith(b) = {}
    BY <2>1, OwnersByPlace, OwnersByPlaceNext DEF PlaceGivesOwners, Same
  <2>2. CASE \E c : CtrlsWith(b) = {c}
    <3>1. PICK c : CtrlsWith(b) = {c}
      BY <2>2
    <3>2. CtrlsWith(b)' = {c} /\ SharersOf(c)' = SharersOf(c)
      BY <3>1 DEF Same
    <3> QED
      BY <3>1, <3>2, OwnersByPlace, OwnersByPlaceNext DEF PlaceGivesOwners
  <2> QED
    BY <1>1, <2>1, <2>2
<1> QED
  BY <1>2, AbstractActions DEF Same

LEMMA OwnersMoveImplements ==
    ASSUME IInv, IInv', OwnersMove, NEW b \in Blocks
    PROVE  \/ Abstract!Take(b) \/ Abstract!Pass(b) \/ Abstract!Drop(b) \/ Abstract!Rest(b)
<1>1. /\ CtrlsWith(b)' = CtrlsWith(b) /\ \A c : SharersOf(c)' = SharersOf(c)
      /\ OwnersChange(b) /\ OnePlace(b)
  BY InParts DEF OwnersMove, CtrlsWith, SharersOf, Emptied, GaveUp, Conserved
<1>2. CASE (InPool(b)' <=> InPool(b)) /\ OwnersWith(b)' = OwnersWith(b)
  BY <1>1, <1>2, SameRests DEF Same
<1>3. CASE ~((InPool(b)' <=> InPool(b)) /\ OwnersWith(b)' = OwnersWith(b))
  <2>1. CtrlsWith(b) = {}
    BY <1>1, <1>3 DEF OnePlace, OwnersChange
  <2>2. OwnersOf(b) = OwnersWith(b) /\ OwnersOf(b)' = OwnersWith(b)'
    BY <1>1, <2>1, OwnersByPlace, OwnersByPlaceNext DEF PlaceGivesOwners
  <2>3. CASE InPool(b) /\ ~InPool(b)' /\ \E h \in Owners : OwnersWith(b)' = {h}
    BY <2>2, <2>3, AbstractActions
  <2>4. CASE \E h \in Owners : OwnersWith(b) = {h} /\ OwnersWith(b)' = {} /\ InPool(b)'
    <3>1. PICK h \in Owners : OwnersOf(b) = {h} /\ OwnersOf(b)' = {}
      BY <2>2, <2>4
    <3>2. h \in OwnersOf(b) /\ OwnersOf(b)' = OwnersOf(b) \ {h}
      BY <3>1
    <3> QED
      BY <3>1, <3>2, AbstractActions
  <2>5. CASE ~InPool(b)' /\ \E h, g \in Owners : OwnersWith(b) = {h} /\ OwnersWith(b)' = {g}
    <3>1. \E h, g \in Handles : OwnersOf(b) = {h} /\ OwnersOf(b)' = {g}
      BY <2>2, <2>5 DEF Handles
    <3> QED
      BY <2>5, <3>1, AbstractActions
  <2> QED
    BY <1>1, <1>3, <2>3, <2>4, <2>5 DEF OwnersChange
<1> QED
  BY <1>2, <1>3

LEMMA SharesStepImplements ==
    ASSUME IInv, IInv', SharesStep, NEW b \in Blocks
    PROVE  \/ Abstract!Share(b) \/ Abstract!Pass(b) \/ Abstract!Drop(b) \/ Abstract!Rest(b)
<1>1. CtrlsWith(b) = {} \/ \E c : CtrlsWith(b) = {c}
  BY InParts DEF Conserved, OnePlace
<1>2. CASE CtrlsWith(b) = {}
  BY <1>2, SameRests DEF Same, SharesStep, PlacesSame
<1>3. CASE \E c : CtrlsWith(b) = {c}
  <2>1. PICK c : CtrlsWith(b) = {c}
    BY <1>3
  <2>2. /\ c \in Ctrls /\ ~Emptied(c) /\ ~InPool(b)' /\ SharesChange(c)
        /\ OwnersOf(b) = SharersOf(c) /\ OwnersOf(b)' = SharersOf(c)'
    BY <2>1, OwnersByPlace, OwnersByPlaceNext DEF PlaceGivesOwners, SharesStep, PlacesSame
  <2>3. CASE SharersOf(c)' = SharersOf(c)
    BY <2>1, <2>3, SameRests DEF Same, SharesStep, PlacesSame
  <2>4. CASE \E g \in Shareds \ SharersOf(c) :
               SharersOf(c) # {} /\ SharersOf(c)' = SharersOf(c) \union {g}
    <3>1. SharersOf(c) \subseteq Shareds
      BY DEF SharersOf
    <3> QED
      BY <2>2, <2>4, <3>1, AbstractActions
  <2>5. CASE \E h \in SharersOf(c), g \in Shareds : SharersOf(c)' = (SharersOf(c) \ {h}) \union {g}
    BY <2>2, <2>5, AbstractActions
  <2>6. CASE \E h \in SharersOf(c) : SharersOf(c)' = SharersOf(c) \ {h}
    BY <2>2, <2>6, AbstractActions
  <2> QED
    BY <2>2, <2>3, <2>4, <2>5, <2>6 DEF SharesChange
<1> QED
  BY <1>1, <1>2, <1>3

LEMMA ConversionImplements ==
    ASSUME IInv, IInv', Becomes \/ Leaves \/ Returns, NEW b \in Blocks
    PROVE  Abstract!Pass(b) \/ Abstract!Return(b) \/ Abstract!Rest(b)
<1>1. CASE Becomes
  <2>1. PICK a \in Blocks, h \in Owners, s \in Shareds :
          /\ OwnersWith(a) = {h} /\ ~InPool(a)'
          /\ \E c : CtrlsWith(a)' = {c} /\ SharersOf(c)' = {s}
          /\ \A x \in Blocks \ {a} : Same(x)
    BY <1>1 DEF Becomes
  <2>2. CtrlsWith(a) = {}
    BY <2>1, InParts DEF Conserved, OnePlace
  <2>3. OwnersOf(a) = {h} /\ OwnersOf(a)' = {s}
    BY <2>1, <2>2, OwnersByPlace, OwnersByPlaceNext DEF PlaceGivesOwners
  <2>4. Abstract!Pass(a)
    BY <2>1, <2>3, AbstractActions DEF Handles
  <2> QED
    BY <2>1, <2>4, SameRests
<1>2. CASE Leaves
  <2>1. PICK a \in Blocks, h \in Owners, s \in Shareds :
          /\ OwnersWith(a)' = {h} /\ ~InPool(a)'
          /\ \E c : CtrlsWith(a) = {c} /\ SharersOf(c) = {s}
          /\ \A x \in Blocks \ {a} : Same(x)
    BY <1>2 DEF Leaves
  <2>2. CtrlsWith(a)' = {}
    <3>1. Conserved'
      BY InParts, PTL
    <3> QED
      BY <2>1, <3>1 DEF Conserved, OnePlace, Blocks
  <2>3. OwnersOf(a) = {s} /\ OwnersOf(a)' = {h}
    BY <2>1, <2>2, OwnersByPlace, OwnersByPlaceNext DEF PlaceGivesOwners
  <2>4. Abstract!Pass(a)
    BY <2>1, <2>3, AbstractActions DEF Handles
  <2> QED
    BY <2>1, <2>4, SameRests
<1>3. CASE Returns
  <2>1. PICK a \in Blocks :
          /\ ~InPool(a) /\ InPool(a)'
          /\ \E c : CtrlsWith(a) = {c} /\ SharersOf(c) = {}
          /\ \A x \in Blocks \ {a} : Same(x)
    BY <1>3 DEF Returns
  <2>2. CtrlsWith(a)' = {} /\ OwnersWith(a)' = {}
    <3>1. Conserved'
      BY InParts, PTL
    <3> QED
      BY <2>1, <3>1 DEF Conserved, OnePlace, Blocks
  <2>3. OwnersOf(a) = {} /\ OwnersOf(a)' = {}
    BY <2>1, <2>2, OwnersByPlace, OwnersByPlaceNext DEF PlaceGivesOwners
  <2>4. Abstract!Return(a)
    BY <2>1, <2>3, AbstractActions
  <2> QED
    BY <2>1, <2>4, SameRests
<1> QED
  BY <1>1, <1>2, <1>3

\* What each step of the buffers is, in the terms of the lemmas above.
LEMMA Steps ==
    ASSUME IInv, Next
    PROVE  OwnersMove \/ SharesStep \/ Becomes \/ Leaves \/ Returns
<1>1. CASE OwnersNext
  <2>1. CASE \E u \in Uniques : Allocate(u)
    BY <2>1, AllocateKeeps
  <2>2. CASE \E h \in Owners : Reset(h)
    BY <2>2, ResetKeeps
  <2>3. CASE \E h, g \in Owners : Transfer(h, g)
    BY <2>3, TransferKeeps
  <2>4. CASE \E u, v \in Uniques : MoveAssign(u, v) \/ Swap(u, v)
    BY <2>4, MoveAssignKeeps, SwapKeeps
  <2>5. CASE \E h \in Owners, s \in Shareds : MakeShared(h, s)
    BY <2>5, MakeSharedKeeps
  <2>6. CASE \E s, from \in Shareds : Copy(s, from) \/ Move(s, from) \/ SwapShared(s, from)
    BY <2>6, CopyKeeps, MoveKeeps, SwapSharedKeeps
  <2> QED
    BY <1>1, <2>1, <2>2, <2>3, <2>4, <2>5, <2>6 DEF OwnersNext
<1>2. ASSUME NEW t \in Threads, Starts(t)
      PROVE  SharesStep
  <2>1. CASE \E s \in Shareds : ResetShared(t, s)
    BY <2>1, ResetSharedKeeps
  <2>2. CASE \E s, from \in Shareds : CopyAssign(t, s, from) \/ AssignByMove(t, s, from)
    BY <2>2, CopyAssignKeeps, AssignByMoveKeeps
  <2>3. CASE \E s \in Shareds, r \in Releaseds : Release(t, s, r)
    BY <2>3, ReleaseKeeps
  <2> QED
    BY <1>2, <2>1, <2>2, <2>3 DEF Starts
<1>3. ASSUME NEW t \in Threads, GoesOn(t)
      PROVE  SharesStep \/ Leaves \/ Returns
  BY <1>3, FetchSubKeeps, CallDeleterKeeps, DeleteBlockKeeps, MoveOutKeeps DEF GoesOn
<1> QED
  BY <1>1, <1>2, <1>3 DEF Next

\* A block has one exclusive owner or several that share it, is released only
\* by a sole owner (shared_buffer.hpp:13-16), and goes back to the pool after
\* its last owner has gone, once (shared_buffer.hpp:225-244).
THEOREM BuffersImplementBlockOwnership == Spec => ImplementsBlockOwnership
<1>1. Init => Abstract!AbsInit
  <2> SUFFICES ASSUME Init PROVE Abstract!AbsInit
    OBVIOUS
  <2>1. \A b \in Blocks : OwnersOf(b) = {}
    BY BlocksAssumption DEF Init, OwnersOf, Sharers, Blocks, NoOp
  <2> QED
    BY <2>1 DEF Abstract!AbsInit, Init, Blocks
<1>2. IInv /\ [Next]_vars => [Abstract!AbsNext]_(Abstract!absVars)
  <2> SUFFICES ASSUME IInv, [Next]_vars
               PROVE  [Abstract!AbsNext]_(Abstract!absVars)
    OBVIOUS
  <2>1. CASE Next
    <3>1. IInv'
      BY <2>1, StepInv
    <3>2. OwnersMove \/ SharesStep \/ Becomes \/ Leaves \/ Returns
      BY <2>1, Steps
    <3>3. Abstract!AbsNext
      BY <3>1, <3>2, OwnersMoveImplements, SharesStepImplements, ConversionImplements
      DEF Abstract!AbsNext
    <3> QED
      BY <3>3
  <2>2. CASE UNCHANGED vars
    <3>1. \A b : OwnersOf(b)' = OwnersOf(b)
      BY <2>2 DEF vars, OwnersOf, Sharers, GaveUp
    <3> QED
      BY <2>2, <3>1 DEF vars, Abstract!absVars, Blocks
  <2> QED
    BY <2>1, <2>2
<1> QED
  BY <1>1, <1>2, Invariance, PTL DEF Spec, ImplementsBlockOwnership, Abstract!AbsSpec
=============================================================================

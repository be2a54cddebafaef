------------------- MODULE BlockingReaderWriterQueue_proofs -------------------
(***************************************************************************)
(* The ring of blocks keeps its invariant, for any sizes and any number of *)
(* blocks and elements: the assertions of the code hold, and each element  *)
(* lives once.  LightweightSemaphore keeps its invariant and implements    *)
(* Semaphore, for any number of signals.  The blocking queue uses it as    *)
(* one producer and one consumer may, so that the same holds in the queue. *)
(* The elements of the blocks, gathered along the ring, are what the queue *)
(* holds: its permits are counted by them, and it implements BoundedFifo.  *)
(***************************************************************************)
EXTENDS BlockingReaderWriterQueue, TLAPS, WellFoundedInduction, SequenceTheorems

(* The inductive invariant *)

Elements == Nat \union {Raw}

Block == [size : Nat, front : Nat, localTail : Nat, tail : Nat, localFront : Nat,
          next : Nat, data : UNION {[0..n - 1 -> Elements] : n \in Nat}]

PushPcs == {"reload", "construct", "publish", "full", "useNext", "constructNext",
            "publishNext", "allocate", "link", "advanceTail"}
PushCalls == [pc : PushPcs, value : Nat, canAlloc : BOOLEAN, room : BOOLEAN]

PopPcs == {"reload", "take", "checkTail", "recheck", "readNext", "enterNext",
           "advanceFront", "release"}
PopCalls == [pc : PopPcs, op : {"pop", "peek"}, next : Nat, value : Elements \union {Nothing}]

RingTypeOK ==
    /\ block \in Seq(Block)
    /\ largestBlockSize \in Nat \ {0, 1}
    /\ push \in PushCalls \union {Idle}
    /\ pop \in PopCalls \union {Idle}
    /\ sent \in Nat

\* How far it is from one slot of a block of n to another.
Gap(n, from, to) == IF from <= to THEN to - from ELSE to + n - from

\* The copy of front is behind front, that of tail behind tail: what a thread
\* goes by without a look at the other's index is on the safe side.
CopiesAreBehind(k) ==
    /\ Gap(k.size, k.localFront, k.tail) =
           Gap(k.size, k.localFront, k.front) + Gap(k.size, k.front, k.tail)
    /\ Gap(k.size, k.front, k.localTail) <= Gap(k.size, k.front, k.tail)

Shaped(k) ==
    /\ k.size >= 2
    /\ k.front < k.size /\ k.tail < k.size /\ k.localFront < k.size /\ k.localTail < k.size
    /\ k.data \in [0..k.size - 1 -> Elements]

\* Which slots hold an element, in a block whose first was taken or whose next
\* was filled in.
Holds(k, taken, filled) ==
    \A i \in 0..k.size - 1 :
        (k.data[i] # Raw) <=>
            \/ Gap(k.size, k.front, i) < Gap(k.size, k.front, k.tail) /\ ~(taken /\ i = k.front)
            \/ filled /\ i = k.tail

Taken(b) == pop.pc = "release" /\ b = frontBlock
Filled(b) == \/ push.pc = "publish" /\ b = tailBlock
             \/ push.pc = "publishNext" /\ b = NextBlock

BlocksSound ==
    \A b \in 1..Len(block) :
        /\ Shaped(block[b]) /\ CopiesAreBehind(block[b])
        /\ freed = {} => Holds(block[b], Taken(b), Filled(b))

\* A new block is not in the ring until it is linked.
RingLength == IF push.pc = "link" THEN Len(block) - 1 ELSE Len(block)
Linked == 1..RingLength

Empty(b) == block[b].front = block[b].tail

\* The blocks in the order in which the consumer comes to them.
InOrder(pos) ==
    /\ pos \in [Linked -> 0..RingLength - 1]
    /\ \A b, c \in Linked : pos[b] = pos[c] => b = c
    /\ pos[frontBlock] = 0
    /\ \A b \in Linked :
        /\ block[b].next \in Linked
        /\ pos[block[b].next] = IF pos[b] = RingLength - 1 THEN 0 ELSE pos[b] + 1

\* Those behind the front block up to the tail block have elements, the others
\* none, except for the one the producer is about to enter.
Filling(pos) ==
    \A b \in Linked :
        /\ 0 < pos[b] /\ pos[b] <= pos[tailBlock] => ~Empty(b)
        /\ pos[b] > pos[tailBlock] => (Empty(b) <=> ~(push.pc = "advanceTail" /\ b = NextBlock))

RingOrder ==
    /\ frontBlock \in Linked /\ tailBlock \in Linked
    /\ \E pos \in [Linked -> 0..RingLength - 1] : InOrder(pos) /\ Filling(pos)

\* What the producer has found out and relies on.
ProducerKnows ==
    /\ push.pc \in {"construct", "publish"} => NextTail(tailBlock) # block[tailBlock].localFront
    /\ push.pc \in {"useNext", "constructNext", "publishNext", "advanceTail"} =>
           NextBlock # frontBlock
    /\ push.pc \in {"constructNext", "publishNext"} =>
           NextTail(NextBlock) # block[NextBlock].localFront
    /\ push.pc = "link" =>
           /\ RingLength > 0
           /\ ~Empty(Len(block)) /\ block[Len(block)].next = NextBlock

\* What the consumer has found out and relies on.
ConsumerKnows ==
    /\ pop.pc \in {"take", "release"} => BlockFront # block[frontBlock].localTail
    /\ pop.pc \in {"recheck", "readNext", "enterNext", "advanceFront"} => frontBlock # tailBlock
    /\ pop.pc \in {"readNext", "enterNext", "advanceFront"} => Empty(frontBlock)
    /\ pop.pc \in {"enterNext", "advanceFront"} => pop.next = block[frontBlock].next
    /\ pop.pc = "advanceFront" => block[pop.next].front # block[pop.next].localTail

Destroyed ==
    freed # {} =>
        /\ push = Idle /\ pop = Idle
        /\ freed = 1..Len(block)
        /\ \A b \in freed : \A i \in 0..block[b].size - 1 : block[b].data[i] = Raw

RingInv ==
    /\ RingTypeOK
    /\ BlocksSound
    /\ RingOrder
    /\ ProducerKnows
    /\ ConsumerKnows
    /\ Destroyed

-----------------------------------------------------------------------------
(* The slots of a block *)

\* The next slot of a block of n.
After(n, i) == IF i + 1 = n THEN 0 ELSE i + 1

\* The remainder wraps around once.
LEMMA NextSlot ==
    ASSUME NEW n \in Nat, n >= 2, NEW i \in Nat, i < n
    PROVE  (i + 1) % n = After(n, i) /\ After(n, i) \in Nat /\ After(n, i) < n
  BY DEF After

\* A position is taken modulo the size of a block by one subtraction.
LEMMA SlotsAhead ==
    ASSUME NEW n \in Nat, n >= 2, NEW i \in Nat, i < 2 * n
    PROVE  i % n = IF i < n THEN i ELSE i - n
  OBVIOUS

\* The slots of a block of n, and whether the copies are behind (CopiesAreBehind).
Behind(n, lf, f, t, lt) == Gap(n, lf, t) = Gap(n, lf, f) + Gap(n, f, t) /\ Gap(n, f, lt) <= Gap(n, f, t)

\* A copy that is brought up to date is behind.
LEMMA BehindReload ==
    ASSUME NEW n \in Nat, NEW lf \in Nat, NEW f \in Nat, NEW t \in Nat, NEW lt \in Nat,
           lf < n, f < n, t < n, lt < n, Behind(n, lf, f, t, lt)
    PROVE  Behind(n, f, f, t, lt) /\ Behind(n, lf, f, t, t)
  BY DEF Behind, Gap

\* The tail may go on when the copy of front is not in its way, and one slot more
\* has an element.
LEMMA BehindPublish ==
    ASSUME NEW n \in Nat, NEW lf \in Nat, NEW f \in Nat, NEW t \in Nat, NEW lt \in Nat, n >= 2,
           lf < n, f < n, t < n, lt < n, Behind(n, lf, f, t, lt), After(n, t) # lf
    PROVE  /\ Behind(n, lf, f, After(n, t), lt)
           /\ After(n, t) # f
           /\ \A i \in 0..n - 1 : Gap(n, f, i) < Gap(n, f, After(n, t)) <=> Gap(n, f, i) < Gap(n, f, t) \/ i = t
  BY DEF Behind, Gap, After

\* The front may go on when the copy of tail is not in its way, and one slot less
\* has an element.
LEMMA BehindRelease ==
    ASSUME NEW n \in Nat, NEW lf \in Nat, NEW f \in Nat, NEW t \in Nat, NEW lt \in Nat, n >= 2,
           lf < n, f < n, t < n, lt < n, Behind(n, lf, f, t, lt), f # lt
    PROVE  /\ f # t
           /\ Behind(n, lf, After(n, f), t, lt)
           /\ \A i \in 0..n - 1 : Gap(n, After(n, f), i) < Gap(n, After(n, f), t) <=> Gap(n, f, i) < Gap(n, f, t) /\ i # f
  BY DEF Behind, Gap, After

\* What each write to a block keeps: the copy of front,
LEMMA SoundReload ==
    ASSUME NEW k \in Block, NEW t \in BOOLEAN, NEW f \in BOOLEAN, Shaped(k), CopiesAreBehind(k)
    PROVE  LET r == [k EXCEPT !.localFront = k.front]
           IN r \in Block /\ Shaped(r) /\ CopiesAreBehind(r) /\ (Holds(k, t, f) => Holds(r, t, f))
<1> DEFINE r == [k EXCEPT !.localFront = k.front]
<1>1. r \in Block /\ Shaped(r)
  BY DEF Block, Shaped
<1>2. CopiesAreBehind(r)
  BY BehindReload DEF Block, Shaped, CopiesAreBehind, Behind
<1>3. ASSUME Holds(k, t, f) PROVE Holds(r, t, f)
  BY <1>3 DEF Block, Holds
<1> QED BY <1>1, <1>2, <1>3

\* ... the copy of tail,
LEMMA SoundReloadTail ==
    ASSUME NEW k \in Block, NEW t \in BOOLEAN, NEW f \in BOOLEAN, Shaped(k), CopiesAreBehind(k)
    PROVE  LET r == [k EXCEPT !.localTail = k.tail]
           IN r \in Block /\ Shaped(r) /\ CopiesAreBehind(r) /\ (Holds(k, t, f) => Holds(r, t, f))
<1> DEFINE r == [k EXCEPT !.localTail = k.tail]
<1>1. r \in Block /\ Shaped(r)
  BY DEF Block, Shaped
<1>2. CopiesAreBehind(r)
  BY BehindReload DEF Block, Shaped, CopiesAreBehind, Behind
<1>3. ASSUME Holds(k, t, f) PROVE Holds(r, t, f)
  BY <1>3 DEF Block, Holds
<1> QED BY <1>1, <1>2, <1>3

\* ... the link to the next block,
LEMMA SoundNext ==
    ASSUME NEW k \in Block, NEW t \in BOOLEAN, NEW f \in BOOLEAN, Shaped(k), CopiesAreBehind(k), NEW b \in Nat
    PROVE  LET r == [k EXCEPT !.next = b]
           IN r \in Block /\ Shaped(r) /\ CopiesAreBehind(r) /\ (Holds(k, t, f) => Holds(r, t, f))
  BY DEF Block, Shaped, CopiesAreBehind, Holds, Gap

\* ... the element of a push,
LEMMA SoundFill ==
    ASSUME NEW k \in Block, NEW t \in BOOLEAN, Shaped(k), CopiesAreBehind(k), NEW v \in Nat
    PROVE  LET r == [k EXCEPT !.data[k.tail] = v]
           IN r \in Block /\ Shaped(r) /\ CopiesAreBehind(r) /\ (Holds(k, t, FALSE) => Holds(r, t, TRUE))
<1> DEFINE d == [k.data EXCEPT ![k.tail] = v]
           r == [k EXCEPT !.data = d]
<1>1. d \in [0..k.size - 1 -> Elements] /\ d[k.tail] = v /\ \A i \in 0..k.size - 1 : i # k.tail => d[i] = k.data[i]
  BY DEF Block, Shaped, Elements
<1>2. r \in Block
  BY <1>1 DEF Block
<1>3. Shaped(r) /\ CopiesAreBehind(r)
  BY <1>1 DEF Block, Shaped, CopiesAreBehind
<1>4. ASSUME Holds(k, t, FALSE) PROVE Holds(r, t, TRUE)
  <2> HIDE DEF d
  <2> QED BY <1>1, <1>4, RawAssumption DEF Block, Shaped, Holds, Gap
<1> QED BY <1>2, <1>3, <1>4

\* ... the tail behind it,
LEMMA SoundPublish ==
    ASSUME NEW k \in Block, NEW t \in BOOLEAN, Shaped(k), CopiesAreBehind(k),
           (k.tail + 1) % k.size # k.localFront, t => k.front # k.tail
    PROVE  LET r == [k EXCEPT !.tail = (k.tail + 1) % k.size]
           IN r \in Block /\ Shaped(r) /\ CopiesAreBehind(r) /\ r.tail # r.front /\ (Holds(k, t, TRUE) => Holds(r, t, FALSE))
<1>1. (k.tail + 1) % k.size = After(k.size, k.tail) /\ After(k.size, k.tail) \in Nat /\ After(k.size, k.tail) < k.size
  BY NextSlot DEF Block, Shaped
<1> DEFINE r == [k EXCEPT !.tail = After(k.size, k.tail)]
<1>2. r \in Block /\ Shaped(r)
  BY <1>1 DEF Block, Shaped
<1> DEFINE e == After(k.size, k.tail)
<1>0. /\ Behind(k.size, k.localFront, k.front, e, k.localTail)
      /\ e # k.front
      /\ \A i \in 0..k.size - 1 : Gap(k.size, k.front, i) < Gap(k.size, k.front, e)
                                   <=> Gap(k.size, k.front, i) < Gap(k.size, k.front, k.tail) \/ i = k.tail
  BY <1>1, BehindPublish DEF Block, Shaped, CopiesAreBehind, Behind
<1> HIDE DEF e
<1>5. r = [k EXCEPT !.tail = e] BY DEF e
<1>3. CopiesAreBehind(r) /\ r.tail # r.front
  BY <1>0, <1>5 DEF Block, Shaped, CopiesAreBehind, Behind
<1>4. ASSUME Holds(k, t, TRUE) PROVE Holds(r, t, FALSE)
  <2> SUFFICES ASSUME NEW i \in 0..k.size - 1
               PROVE  (k.data[i] # Raw) <=>
                          Gap(k.size, k.front, i) < Gap(k.size, k.front, e) /\ ~(t /\ i = k.front)
    BY <1>5 DEF Holds, Block
  <2> QED BY <1>0, <1>4 DEF Holds
<1> QED BY <1>1, <1>2, <1>3, <1>4

\* ... the element that is moved out,
LEMMA SoundTake ==
    ASSUME NEW k \in Block, NEW f \in BOOLEAN, Shaped(k), CopiesAreBehind(k),
           k.front # k.localTail
    PROVE  LET r == [k EXCEPT !.data[k.front] = Raw]
           IN r \in Block /\ Shaped(r) /\ CopiesAreBehind(r) /\ (Holds(k, FALSE, f) => Holds(r, TRUE, f))
<1> DEFINE d == [k.data EXCEPT ![k.front] = Raw]
           r == [k EXCEPT !.data = d]
<1>1. d \in [0..k.size - 1 -> Elements] /\ d[k.front] = Raw /\ \A i \in 0..k.size - 1 : i # k.front => d[i] = k.data[i]
  BY DEF Block, Shaped, Elements
<1>2. r \in Block
  BY <1>1 DEF Block
<1>3. Shaped(r) /\ CopiesAreBehind(r)
  BY <1>1 DEF Block, Shaped, CopiesAreBehind
<1>4. k.front # k.tail
  BY DEF Block, Shaped, CopiesAreBehind, Gap
<1>5. ASSUME Holds(k, FALSE, f) PROVE Holds(r, TRUE, f)
  <2> HIDE DEF d
  <2> QED BY <1>1, <1>4, <1>5 DEF Block, Shaped, Holds, Gap
<1> QED BY <1>2, <1>3, <1>5

\* ... and the front behind it.
LEMMA SoundRelease ==
    ASSUME NEW k \in Block, NEW f \in BOOLEAN, Shaped(k), CopiesAreBehind(k),
           k.front # k.localTail
    PROVE  LET r == [k EXCEPT !.front = (k.front + 1) % k.size]
           IN r \in Block /\ Shaped(r) /\ CopiesAreBehind(r) /\ (Holds(k, TRUE, f) => Holds(r, FALSE, f))
<1>1. (k.front + 1) % k.size = After(k.size, k.front) /\ After(k.size, k.front) \in Nat /\ After(k.size, k.front) < k.size
  BY NextSlot DEF Block, Shaped
<1> DEFINE r == [k EXCEPT !.front = After(k.size, k.front)]
<1>2. r \in Block /\ Shaped(r)
  BY <1>1 DEF Block, Shaped
<1> DEFINE e == After(k.size, k.front)
<1>0. /\ Behind(k.size, k.localFront, e, k.tail, k.localTail)
      /\ \A i \in 0..k.size - 1 : Gap(k.size, e, i) < Gap(k.size, e, k.tail)
                                   <=> Gap(k.size, k.front, i) < Gap(k.size, k.front, k.tail) /\ i # k.front
  <2> HIDE DEF e
  <2>1. Behind(k.size, k.localFront, k.front, k.tail, k.localTail)
    BY DEF CopiesAreBehind, Behind
  <2>2. k \in [size : Nat, front : Nat, localTail : Nat, tail : Nat, localFront : Nat, next : Nat, data : UNION {[0..n - 1 -> Elements] : n \in Nat}]
    BY DEF Block
  <2> QED BY <2>1, <2>2, BehindRelease DEF Shaped, e
<1>6. k.front # k.tail
  BY BehindRelease DEF Block, Shaped, CopiesAreBehind, Behind
<1> HIDE DEF e
<1>5. r = [k EXCEPT !.front = e] BY DEF e
<1>3. CopiesAreBehind(r)
  BY <1>0, <1>5 DEF Block, Shaped, CopiesAreBehind, Behind
<1>4. ASSUME Holds(k, TRUE, f) PROVE Holds(r, FALSE, f)
  <2> SUFFICES ASSUME NEW i \in 0..k.size - 1
               PROVE  (k.data[i] # Raw) <=>
                          Gap(k.size, e, i) < Gap(k.size, e, k.tail) \/ (f /\ i = k.tail)
    BY <1>5 DEF Holds, Block
  <2> QED BY <1>0, <1>4, <1>6 DEF Holds
<1> QED BY <1>1, <1>2, <1>3, <1>4

-----------------------------------------------------------------------------
(* What a step leaves as it was *)

\* A call goes on with what it was called with.
LEMMA PushMoves ==
    ASSUME RingTypeOK, push.pc # "idle", NEW pc \in PushPcs, PushGoes(pc)
    PROVE  /\ push \in PushCalls
           /\ push' \in PushCalls /\ push'.pc = pc /\ push'.value = push.value
  BY DEF RingTypeOK, PushGoes, PushCalls, PushPcs, Idle

\* A step of a pop changes where the pop is and nothing else of it.
LEMMA PopMoves ==
    ASSUME RingTypeOK, pop.pc # "idle", NEW pc \in PopPcs, PopGoes(pc)
    PROVE  /\ pop \in PopCalls
           /\ pop' \in PopCalls /\ pop'.pc = pc /\ pop'.op = pop.op /\ pop'.next = pop.next /\ pop'.value = pop.value
  BY DEF RingTypeOK, PopGoes, PopCalls, PopPcs, Idle

\* A queue in use has its blocks.
LEMMA NotDestroyed ==
    ASSUME Destroyed, push.pc # "idle" \/ pop.pc # "idle"
    PROVE  freed = {}
  BY DEF Destroyed, Idle

\* One block changes.
LEMMA OneBlock ==
    ASSUME block \in Seq(Block), NEW b \in 1..Len(block), NEW r \in Block,
           block' = [block EXCEPT ![b] = r]
    PROVE  /\ block' \in Seq(Block) /\ Len(block') = Len(block)
           /\ block'[b] = r
           /\ \A c \in 1..Len(block) : c # b => block'[c] = block[c]
  OBVIOUS

\* What the order of the ring gives the two sides.
LEMMA RingFacts ==
    ASSUME RingTypeOK, RingOrder, ProducerKnows
    PROVE  /\ RingLength \in Nat /\ Linked \subseteq 1..Len(block)
           /\ frontBlock \in Linked /\ tailBlock \in Linked
           /\ \A b \in Linked : block[b].next \in Linked
           /\ NextBlock # frontBlock => NextBlock # tailBlock
           /\ NextBlock # frontBlock /\ push.pc # "advanceTail" => Empty(NextBlock)
           /\ frontBlock # tailBlock =>
                /\ ~Empty(block[frontBlock].next)
                /\ block[frontBlock].next # frontBlock
                /\ block[frontBlock].next # NextBlock
<1>1. RingLength \in Nat /\ Linked \subseteq 1..Len(block)
  <2>1. Len(block) \in Nat
    BY DEF RingTypeOK
  <2>2. push.pc = "link" => Len(block) - 1 > 0
    BY DEF ProducerKnows, RingLength
  <2> QED BY <2>1, <2>2 DEF RingLength, Linked
<1>2. PICK pos \in [Linked -> 0..RingLength - 1] : InOrder(pos) /\ Filling(pos)
  BY DEF RingOrder
<1>3. frontBlock \in Linked /\ tailBlock \in Linked
  BY DEF RingOrder
<1>4. \A b \in Linked : pos[b] \in 0..RingLength - 1
  BY <1>2
<1>5. \A b \in Linked : block[b].next \in Linked
  BY <1>2 DEF InOrder
<1>6. NextBlock # frontBlock => pos[NextBlock] = pos[tailBlock] + 1
  BY <1>1, <1>2, <1>3, <1>4, <1>5 DEF InOrder, NextBlock
<1>7. NextBlock # frontBlock => NextBlock # tailBlock
  BY <1>3, <1>4, <1>6
<1>8. NextBlock # frontBlock /\ push.pc # "advanceTail" => Empty(NextBlock)
  <2> SUFFICES ASSUME NextBlock # frontBlock, push.pc # "advanceTail" PROVE Empty(NextBlock)
    OBVIOUS
  <2>1. NextBlock \in Linked
    BY <1>3, <1>5 DEF NextBlock
  <2>2. pos[NextBlock] > pos[tailBlock]
    BY <1>3, <1>4, <1>6
  <2> QED BY <1>2, <2>1, <2>2 DEF Filling
<1>9. ASSUME frontBlock # tailBlock
      PROVE  /\ ~Empty(block[frontBlock].next)
             /\ block[frontBlock].next # frontBlock
             /\ block[frontBlock].next # NextBlock
  <2>1. pos[frontBlock] = 0 /\ pos[tailBlock] > 0
    BY <1>2, <1>3, <1>4, <1>9 DEF InOrder
  <2>2. pos[block[frontBlock].next] = 1
    BY <1>1, <1>2, <1>3, <1>4, <2>1 DEF InOrder
  <2>3. pos[NextBlock] # 1
    BY <1>1, <1>2, <1>3, <1>4, <2>1 DEF InOrder, NextBlock
  <2>4. block[frontBlock].next \in Linked /\ 1 <= pos[tailBlock]
    BY <1>3, <1>4, <1>5, <2>1
  <2>5. ~Empty(block[frontBlock].next)
    BY <1>2, <2>2, <2>4 DEF Filling
  <2>6. block[frontBlock].next # frontBlock /\ block[frontBlock].next # NextBlock
    BY <2>1, <2>2, <2>3
  <2> QED BY <2>5, <2>6
<1> QED BY <1>1, <1>3, <1>5, <1>7, <1>8, <1>9

\* The order of the ring stays when no block is passed or linked, and none is
\* emptied behind the front or filled beyond the tail.
LEMMA OrderKept ==
    ASSUME RingOrder, RingLength' = RingLength, frontBlock' = frontBlock, tailBlock' = tailBlock,
           (push.pc = "advanceTail") <=> (push'.pc = "advanceTail"),
           \A b \in Linked : /\ block'[b].next = block[b].next
                             /\ b # frontBlock /\ b # tailBlock => (Empty(b)' <=> Empty(b))
                             /\ b # frontBlock /\ ~Empty(b) => ~Empty(b)'
    PROVE  RingOrder'
<1>1. Linked' = Linked
  BY DEF Linked
<1>2. PICK pos \in [Linked -> 0..RingLength - 1] : InOrder(pos) /\ Filling(pos)
  BY DEF RingOrder
<1>3. InOrder(pos)'
  BY <1>1, <1>2 DEF InOrder
<1>4. Filling(pos)'
  <2>1. \A b \in Linked : pos[b] \in 0..RingLength - 1
    BY <1>2
  <2>2. pos[frontBlock] = 0 /\ frontBlock \in Linked /\ tailBlock \in Linked
    BY <1>2 DEF InOrder, RingOrder
  <2>3. NextBlock' = NextBlock
    BY <2>2 DEF NextBlock
  <2>4. ASSUME NEW b \in Linked, 0 < pos[b], pos[b] <= pos[tailBlock] PROVE ~Empty(b)'
    BY <1>2, <2>1, <2>2, <2>4 DEF Filling
  <2>5. ASSUME NEW b \in Linked, pos[b] > pos[tailBlock]
        PROVE  Empty(b)' <=> ~(push'.pc = "advanceTail" /\ b = NextBlock)
    BY <1>2, <2>1, <2>2, <2>5 DEF Filling
  <2> HIDE DEF Empty
  <2> QED BY <1>1, <2>3, <2>4, <2>5 DEF Filling
<1> QED BY <1>1, <1>2, <1>3, <1>4 DEF RingOrder

\* A block changes, the slots that count in the others do not.
LEMMA SoundChange ==
    ASSUME block \in Seq(Block), BlocksSound, freed = {}, NEW b \in 1..Len(block), NEW r \in Block,
           block' = [block EXCEPT ![b] = r], Shaped(r), CopiesAreBehind(r),
           Holds(r, Taken(b)', Filled(b)'),
           \A c \in 1..Len(block) : c # b => (Taken(c)' <=> Taken(c)) /\ (Filled(c)' <=> Filled(c))
    PROVE  BlocksSound'
<1>1. /\ Len(block') = Len(block) /\ block'[b] = r
      /\ \A c \in 1..Len(block) : c # b => block'[c] = block[c]
  BY OneBlock
<1> SUFFICES ASSUME NEW c \in 1..Len(block)
             PROVE  /\ Shaped(block'[c]) /\ CopiesAreBehind(block'[c])
                    /\ Holds(block'[c], Taken(c)', Filled(c)')
  BY <1>1 DEF BlocksSound
<1>2. CASE c = b
  BY <1>1, <1>2
<1>3. CASE c # b
  <2>1. Shaped(block[c]) /\ CopiesAreBehind(block[c]) /\ Holds(block[c], Taken(c), Filled(c))
    BY DEF BlocksSound
  <2>2. (Taken(c)' <=> Taken(c)) /\ (Filled(c)' <=> Filled(c))
    BY <1>3
  <2> QED BY <1>1, <1>3, <2>1, <2>2 DEF Holds
<1> QED BY <1>2, <1>3

\* The producer's facts stay as long as the consumer does not enter the block
\* behind the tail.
LEMMA ProducerStillKnows ==
    ASSUME RingTypeOK, RingOrder, ProducerKnows, UNCHANGED <<push, tailBlock>>, Len(block') = Len(block),
           \A b \in 1..Len(block) : /\ block'[b].size = block[b].size /\ block'[b].tail = block[b].tail
                                    /\ block'[b].localFront = block[b].localFront
                                    /\ block'[b].next = block[b].next
                                    /\ b # frontBlock => block'[b].front = block[b].front,
           frontBlock' = frontBlock \/ frontBlock' # NextBlock
    PROVE  ProducerKnows'
<1>1. /\ RingLength \in Nat /\ Linked \subseteq 1..Len(block) /\ frontBlock \in Linked /\ tailBlock \in Linked
      /\ NextBlock \in Linked
  BY RingFacts DEF NextBlock
<1>2. NextBlock' = NextBlock /\ RingLength' = RingLength
  BY <1>1 DEF NextBlock, RingLength
<1>3. NextTail(tailBlock)' = NextTail(tailBlock) /\ NextTail(NextBlock)' = NextTail(NextBlock)
  BY <1>1, <1>2 DEF NextTail
<1>4. push.pc = "link" => Len(block) \in 1..Len(block) /\ Len(block) # frontBlock
  BY <1>1 DEF ProducerKnows, RingLength, Linked, RingTypeOK
<1>5. push.pc = "link" => ~Empty(Len(block))' /\ block'[Len(block)].next = NextBlock
  BY <1>4 DEF ProducerKnows, Empty
<1> QED BY <1>1, <1>2, <1>3, <1>5 DEF ProducerKnows

\* The consumer's facts stay when the producer writes what is its own.
LEMMA ConsumerStillKnows ==
    ASSUME RingTypeOK, RingOrder, ProducerKnows, ConsumerKnows, UNCHANGED <<pop, frontBlock>>,
           \A b \in 1..Len(block) : /\ block'[b].front = block[b].front
                                    /\ block'[b].localTail = block[b].localTail,
           frontBlock # tailBlock => /\ tailBlock' # frontBlock
                                     /\ block'[frontBlock].tail = block[frontBlock].tail
                                     /\ block'[frontBlock].next = block[frontBlock].next
    PROVE  ConsumerKnows'
<1>1. /\ Linked \subseteq 1..Len(block) /\ frontBlock \in Linked
      /\ block[frontBlock].next \in Linked
  BY RingFacts
<1> QED BY <1>1 DEF ConsumerKnows, BlockFront, Empty

\* The blocks are as they were, and so is what counts in their slots.
LEMMA SoundSame ==
    ASSUME BlocksSound, UNCHANGED <<block, freed>>,
           \A c \in 1..Len(block) : (Taken(c)' <=> Taken(c)) /\ (Filled(c)' <=> Filled(c))
    PROVE  BlocksSound'
<1> SUFFICES ASSUME NEW c \in 1..Len(block)
             PROVE  /\ Shaped(block[c]) /\ CopiesAreBehind(block[c])
                    /\ freed = {} => Holds(block[c], Taken(c)', Filled(c)')
  BY DEF BlocksSound
<1>1. (Taken(c)' <=> Taken(c)) /\ (Filled(c)' <=> Filled(c))
  OBVIOUS
<1> QED BY <1>1 DEF BlocksSound, Holds

-----------------------------------------------------------------------------
(* The producer *)

\* A step of the producer that only looks.
LEMMA ProducerLooks ==
    ASSUME RingInv, freed = {}, UNCHANGED <<block, frontBlock, tailBlock, pop, freed>>,
           push.pc \notin {"publish", "publishNext", "link", "advanceTail"},
           push'.pc \notin {"publish", "publishNext", "link", "advanceTail"}
    PROVE  BlocksSound' /\ RingOrder' /\ ConsumerKnows' /\ Destroyed'
<1> USE DEF RingInv
<1>1. BlocksSound'
  <2>1. \A c \in 1..Len(block) : (Taken(c)' <=> Taken(c)) /\ (Filled(c)' <=> Filled(c))
    BY DEF Taken, Filled
  <2> QED BY <2>1, SoundSame
<1>2. RingOrder'
  <2>1. RingLength' = RingLength
    BY DEF RingLength
  <2>2. \A b \in Linked : Empty(b)' <=> Empty(b)
    BY DEF Empty
  <2> QED BY <2>1, <2>2, OrderKept
<1>3. ConsumerKnows'
  BY ConsumerStillKnows
<1> QED BY <1>1, <1>2, <1>3 DEF Destroyed

\* The steps of the producer keep the ring invariant
\* (readerwriterqueue.h:381-470).
LEMMA CallPushKeeps == ASSUME RingInv, NEW canAlloc \in BOOLEAN, CallPush(canAlloc) PROVE RingInv'
<1> USE DEF CallPush
<1>1. push' \in PushCalls /\ push'.pc \in {"construct", "reload"}
      /\ (push'.pc = "construct" => NextTail(tailBlock) # block[tailBlock].localFront)
  BY DEF PushCalls, PushPcs, RingInv, RingTypeOK
<1>2. RingTypeOK'
  BY <1>1 DEF RingInv, RingTypeOK
<1>3. BlocksSound' /\ RingOrder' /\ ConsumerKnows' /\ Destroyed'
  BY <1>1, ProducerLooks DEF Idle
<1>4. ProducerKnows'
  BY <1>1 DEF ProducerKnows, NextTail
<1> QED BY <1>2, <1>3, <1>4 DEF RingInv

\* Looking for a free block, or refusing the push, keeps it.
LEMMA FindKeeps == ASSUME RingInv, FindFreeBlock \/ FindNoBlock \/ Refuse PROVE RingInv'
<1>1. push.pc \in {"full", "allocate"} /\ UNCHANGED <<block, frontBlock, tailBlock, largestBlockSize, pop, sent, freed>>
  BY DEF FindFreeBlock, FindNoBlock, Refuse
<1>2. freed = {}
  BY <1>1, NotDestroyed DEF RingInv
<1>3. \/ push' \in PushCalls /\ push'.pc = "allocate"
      \/ push' \in PushCalls /\ push'.pc = "useNext" /\ NextBlock # frontBlock
      \/ push' = Idle
  <2>1. CASE FindFreeBlock
    BY <1>1, <2>1, PushMoves DEF FindFreeBlock, RingInv, PushPcs
  <2>2. CASE FindNoBlock
    BY <1>1, <2>2, PushMoves DEF FindNoBlock, RingInv, PushPcs
  <2>3. CASE Refuse
    BY <2>3 DEF Refuse, PushReturns
  <2> QED BY <2>1, <2>2, <2>3
<1>4. RingTypeOK'
  BY <1>1, <1>3 DEF RingInv, RingTypeOK
<1>5. BlocksSound' /\ RingOrder' /\ ConsumerKnows' /\ Destroyed'
  BY <1>1, <1>2, <1>3, ProducerLooks DEF Idle
<1>6. ProducerKnows'
  BY <1>1, <1>3 DEF ProducerKnows, NextBlock, Idle
<1> QED BY <1>4, <1>5, <1>6 DEF RingInv

\* A step of the producer that writes to a block of its own.
LEMMA ProducerWrites ==
    ASSUME RingInv, freed = {}, UNCHANGED <<frontBlock, tailBlock, pop, freed>>,
           NEW b \in 1..Len(block), b = tailBlock \/ b # frontBlock,
           NEW r \in Block, block' = [block EXCEPT ![b] = r],
           r.front = block[b].front, r.localTail = block[b].localTail, r.next = block[b].next,
           Shaped(r), CopiesAreBehind(r), Holds(r, Taken(b), Filled(b)'),
           \A c \in 1..Len(block) : c # b => (Filled(c)' <=> Filled(c))
    PROVE  BlocksSound' /\ ConsumerKnows' /\ Destroyed'
<1> USE DEF RingInv
<1>0. block \in Seq(Block)
  BY DEF RingTypeOK
<1>1. /\ Len(block') = Len(block) /\ block'[b] = r
      /\ \A c \in 1..Len(block) : c # b => block'[c] = block[c]
  BY <1>0, OneBlock
<1>2. BlocksSound'
  <2>1. \A c \in 1..Len(block) : Taken(c)' <=> Taken(c)
    BY DEF Taken
  <2>2. Holds(r, Taken(b)', Filled(b)')
    BY <2>1 DEF Holds
  <2> QED BY <1>0, <2>1, <2>2, SoundChange
<1>3. ConsumerKnows'
  <2>1. frontBlock \in 1..Len(block)
    BY RingFacts
  <2>2. \A c \in 1..Len(block) : block'[c].front = block[c].front /\ block'[c].localTail = block[c].localTail
    BY <1>1
  <2>3. frontBlock # tailBlock => block'[frontBlock] = block[frontBlock]
    BY <1>1, <2>1
  <2> QED BY <2>2, <2>3, ConsumerStillKnows
<1> QED BY <1>2, <1>3 DEF Destroyed

\* ... to the tail block, or without a change to its emptiness.
LEMMA ProducerWritesInOrder ==
    ASSUME RingInv, NEW b \in 1..Len(block), NEW r \in Block, block' = [block EXCEPT ![b] = r],
           UNCHANGED <<frontBlock, tailBlock>>,
           push.pc \notin {"link", "advanceTail"}, push'.pc \notin {"link", "advanceTail"},
           r.front = block[b].front, r.next = block[b].next,
           r.tail = block[b].tail \/ (b = tailBlock /\ r.tail # r.front)
    PROVE  RingOrder'
<1> USE DEF RingInv
<1>0. block \in Seq(Block)
  BY DEF RingTypeOK
<1>1. /\ Len(block') = Len(block) /\ block'[b] = r
      /\ \A c \in 1..Len(block) : c # b => block'[c] = block[c]
  BY <1>0, OneBlock
<1>2. Linked \subseteq 1..Len(block)
  BY RingFacts
<1>3. RingLength' = RingLength
  BY <1>1 DEF RingLength
<1>4. \A c \in Linked : /\ block'[c].next = block[c].next
                        /\ c # tailBlock => (Empty(c)' <=> Empty(c))
                        /\ ~Empty(c) => ~Empty(c)'
  BY <1>1, <1>2 DEF Empty
<1> QED BY <1>3, <1>4, OrderKept

\* What the consumer sees in its copy of tail is there.
LEMMA NotPassed ==
    ASSUME NEW k \in Block, Shaped(k), CopiesAreBehind(k), k.front # k.localTail
    PROVE  k.front # k.tail
  BY DEF Block, Shaped, CopiesAreBehind, Gap

\* What the steps of a push that are not its call know.
LEMMA PushFacts ==
    ASSUME RingInv, push.pc # "idle"
    PROVE  /\ freed = {} /\ block \in Seq(Block)
           /\ tailBlock \in 1..Len(block) /\ NextBlock \in 1..Len(block) /\ frontBlock \in 1..Len(block)
           /\ block[tailBlock] \in Block /\ block[NextBlock] \in Block
           /\ \A b \in {tailBlock, NextBlock} : Shaped(block[b]) /\ CopiesAreBehind(block[b]) /\ Holds(block[b], Taken(b), Filled(b))
           /\ \A b \in 1..Len(block) : Taken(b) => ~Empty(b)
           /\ \A b \in 1..Len(block) : Taken(b) \in BOOLEAN /\ Filled(b) \in BOOLEAN
<1>1. freed = {}
  BY NotDestroyed DEF RingInv
<1>2. block \in Seq(Block) /\ tailBlock \in 1..Len(block) /\ NextBlock \in 1..Len(block) /\ frontBlock \in 1..Len(block)
  BY RingFacts DEF RingInv, RingTypeOK, NextBlock
<1>3. \A b \in 1..Len(block) : Shaped(block[b]) /\ CopiesAreBehind(block[b]) /\ Holds(block[b], Taken(b), Filled(b))
  BY <1>1 DEF RingInv, BlocksSound
<1>4. \A b \in 1..Len(block) : block[b] \in Block
  BY <1>2
<1>5. ASSUME NEW b \in 1..Len(block), Taken(b) PROVE ~Empty(b)
  <2>1. block[b].front # block[b].localTail
    BY <1>5 DEF Taken, RingInv, ConsumerKnows, BlockFront
  <2> QED BY <1>3, <1>4, <2>1, NotPassed DEF Empty
<1>6. \A b \in 1..Len(block) : Taken(b) \in BOOLEAN /\ Filled(b) \in BOOLEAN
  BY DEF Taken, Filled
<1> QED BY <1>1, <1>2, <1>3, <1>4, <1>5, <1>6

\* Reading the consumer's index again keeps it (h:399).
LEMMA ReloadFrontKeeps == ASSUME RingInv, ReloadFront PROVE RingInv'
<1>1. push.pc = "reload" /\ UNCHANGED <<frontBlock, tailBlock, largestBlockSize, pop, sent, freed>>
  BY DEF ReloadFront
<1>2. PICK b \in 1..Len(block) : b = tailBlock
  BY <1>1, PushFacts
<1> DEFINE r == [block[b] EXCEPT !.localFront = block[b].front]
<1>3. /\ push \in PushCalls /\ push' \in PushCalls
      /\ \/ push'.pc = "construct" /\ NextTail(b) # block[b].front
         \/ push'.pc = "full"
  BY <1>1, <1>2, PushMoves DEF ReloadFront, RingInv, PushPcs
<1>4. \A c \in 1..Len(block) : ~Filled(c) /\ ~Filled(c)'
  BY <1>1, <1>3 DEF Filled
<1>5. r \in Block /\ Shaped(r) /\ CopiesAreBehind(r) /\ Holds(r, Taken(b), Filled(b))
  BY <1>1, <1>2, PushFacts, SoundReload
<1>6. Holds(r, Taken(b), Filled(b)')
  BY <1>4, <1>5 DEF Holds
<1>7. block' = [block EXCEPT ![b] = r]
  BY <1>2 DEF ReloadFront
<1>8. r.front = block[b].front /\ r.localTail = block[b].localTail /\ r.next = block[b].next
      /\ r.tail = block[b].tail /\ r.localFront = block[b].front /\ r.size = block[b].size
  BY <1>1, <1>2, PushFacts DEF Block
<1>9. freed = {} /\ block \in Seq(Block)
  BY <1>1, PushFacts
<1>10. /\ block' \in Seq(Block) /\ Len(block') = Len(block) /\ block'[b] = r
  BY <1>5, <1>7, <1>9, OneBlock
<1> HIDE DEF r
<1>11. BlocksSound' /\ ConsumerKnows' /\ Destroyed'
  BY <1>1, <1>2, <1>4, <1>5, <1>6, <1>7, <1>8, <1>9, ProducerWrites
<1>12. RingOrder'
  BY <1>1, <1>2, <1>3, <1>5, <1>7, <1>8, ProducerWritesInOrder
<1>13. RingTypeOK'
  BY <1>1, <1>3, <1>10 DEF RingInv, RingTypeOK
<1>14. ProducerKnows'
  BY <1>1, <1>2, <1>3, <1>8, <1>10 DEF ProducerKnows, NextTail
<1> QED BY <1>11, <1>12, <1>13, <1>14 DEF RingInv

\* Constructing an element in the free slot of the tail block keeps it.
LEMMA ConstructKeeps == ASSUME RingInv, Construct PROVE RingInv'
<1>1. push.pc = "construct" /\ UNCHANGED <<frontBlock, tailBlock, largestBlockSize, pop, sent, freed>>
  BY DEF Construct
<1>2. PICK b \in 1..Len(block) : b = tailBlock
  BY <1>1, PushFacts
<1> DEFINE r == [block[b] EXCEPT !.data[block[b].tail] = push.value]
<1>3. push \in PushCalls /\ push' \in PushCalls /\ push'.pc = "publish"
  BY <1>1, PushMoves DEF Construct, RingInv, PushPcs
<1>4. \A c \in 1..Len(block) : ~Filled(c) /\ (Filled(c)' <=> c = b)
  BY <1>1, <1>2, <1>3 DEF Filled
<1>5. r \in Block /\ Shaped(r) /\ CopiesAreBehind(r) /\ Holds(r, Taken(b), TRUE)
  <2>1. Holds(block[b], Taken(b), FALSE)
    BY <1>1, <1>2, <1>4, PushFacts DEF Holds
  <2>2. Taken(b) \in BOOLEAN /\ push.value \in Nat /\ block[b] \in Block /\ Shaped(block[b]) /\ CopiesAreBehind(block[b])
    BY <1>1, <1>2, <1>3, PushFacts DEF PushCalls
  <2> QED BY <2>1, <2>2, SoundFill
<1>6. Holds(r, Taken(b), Filled(b)')
  BY <1>4, <1>5 DEF Holds
<1>7. block' = [block EXCEPT ![b] = r]
  BY <1>2 DEF Construct
<1>8. r.front = block[b].front /\ r.localTail = block[b].localTail /\ r.next = block[b].next
      /\ r.tail = block[b].tail /\ r.localFront = block[b].localFront /\ r.size = block[b].size
  BY <1>1, <1>2, PushFacts DEF Block
<1>9. freed = {} /\ block \in Seq(Block)
  BY <1>1, PushFacts
<1>10. /\ block' \in Seq(Block) /\ Len(block') = Len(block) /\ block'[b] = r
  BY <1>5, <1>7, <1>9, OneBlock
<1> HIDE DEF r
<1>11. BlocksSound' /\ ConsumerKnows' /\ Destroyed'
  BY <1>1, <1>2, <1>4, <1>5, <1>6, <1>7, <1>8, <1>9, ProducerWrites
<1>12. RingOrder'
  BY <1>1, <1>2, <1>3, <1>5, <1>7, <1>8, ProducerWritesInOrder
<1>13. RingTypeOK'
  BY <1>1, <1>3, <1>10 DEF RingInv, RingTypeOK
<1>14. ProducerKnows'
  BY <1>1, <1>2, <1>3, <1>8, <1>10 DEF RingInv, ProducerKnows, NextTail
<1> QED BY <1>11, <1>12, <1>13, <1>14 DEF RingInv

\* Moving the tail behind the element keeps it.
LEMMA PublishKeeps == ASSUME RingInv, Publish PROVE RingInv'
<1>1. push.pc = "publish" /\ UNCHANGED <<frontBlock, tailBlock, largestBlockSize, pop, sent, freed>>
      /\ push' = Idle
  BY DEF Publish, PushReturns
<1>2. PICK b \in 1..Len(block) : b = tailBlock
  BY <1>1, PushFacts
<1> DEFINE r == [block[b] EXCEPT !.tail = (block[b].tail + 1) % block[b].size]
<1>4. \A c \in 1..Len(block) : (Filled(c) <=> c = b) /\ ~Filled(c)'
  BY <1>1, <1>2 DEF Filled, Idle
<1>5. r \in Block /\ Shaped(r) /\ CopiesAreBehind(r) /\ r.tail # r.front /\ Holds(r, Taken(b), FALSE)
  <2>1. Holds(block[b], Taken(b), TRUE)
    BY <1>1, <1>2, <1>4, PushFacts DEF Holds
  <2>2. Taken(b) \in BOOLEAN /\ block[b] \in Block /\ Shaped(block[b]) /\ CopiesAreBehind(block[b])
        /\ (Taken(b) => block[b].front # block[b].tail)
    BY <1>1, <1>2, PushFacts DEF Empty
  <2>3. (block[b].tail + 1) % block[b].size # block[b].localFront
    BY <1>1, <1>2 DEF RingInv, ProducerKnows, NextTail
  <2> QED BY <2>1, <2>2, <2>3, SoundPublish
<1>6. Holds(r, Taken(b), Filled(b)')
  BY <1>4, <1>5 DEF Holds
<1>7. block' = [block EXCEPT ![b] = r]
  BY <1>2 DEF Publish, NextTail
<1>8. r.front = block[b].front /\ r.localTail = block[b].localTail /\ r.next = block[b].next
  BY <1>1, <1>2, PushFacts DEF Block
<1>9. freed = {} /\ block \in Seq(Block)
  BY <1>1, PushFacts
<1>10. /\ block' \in Seq(Block) /\ Len(block') = Len(block) /\ block'[b] = r
  BY <1>5, <1>7, <1>9, OneBlock
<1> HIDE DEF r
<1>11. BlocksSound' /\ ConsumerKnows' /\ Destroyed'
  BY <1>1, <1>2, <1>4, <1>5, <1>6, <1>7, <1>8, <1>9, ProducerWrites
<1>12. RingOrder'
  BY <1>1, <1>2, <1>5, <1>7, <1>8, ProducerWritesInOrder DEF Idle
<1>13. RingTypeOK'
  BY <1>1, <1>10 DEF RingInv, RingTypeOK
<1>14. ProducerKnows'
  BY <1>1 DEF ProducerKnows, Idle
<1> QED BY <1>11, <1>12, <1>13, <1>14 DEF RingInv

\* The next block, which only the producer can reach now.
LEMMA NextFacts ==
    ASSUME RingInv, push.pc \in {"useNext", "constructNext", "publishNext"}
    PROVE  /\ NextBlock # frontBlock /\ NextBlock # tailBlock /\ Empty(NextBlock)
           /\ ~Taken(NextBlock)
  BY RingFacts DEF RingInv, ProducerKnows, Taken

\* Reading the indices of the next block keeps it.
LEMMA UseNextKeeps == ASSUME RingInv, UseNext PROVE RingInv'
<1>1. push.pc = "useNext" /\ UNCHANGED <<frontBlock, tailBlock, largestBlockSize, pop, sent, freed>>
  BY DEF UseNext
<1>2. PICK b \in 1..Len(block) : b = NextBlock
  BY <1>1, PushFacts
<1> DEFINE r == [block[b] EXCEPT !.localFront = block[b].front]
<1>3. push \in PushCalls /\ push' \in PushCalls /\ push'.pc = "constructNext"
  BY <1>1, PushMoves DEF UseNext, RingInv, PushPcs
<1>4. \A c \in 1..Len(block) : ~Filled(c) /\ ~Filled(c)'
  BY <1>1, <1>3 DEF Filled
<1>5. r \in Block /\ Shaped(r) /\ CopiesAreBehind(r) /\ Holds(r, Taken(b), Filled(b))
  BY <1>1, <1>2, PushFacts, SoundReload
<1>6. Holds(r, Taken(b), Filled(b)')
  BY <1>4, <1>5 DEF Holds
<1>7. block' = [block EXCEPT ![b] = r]
  BY <1>2 DEF UseNext
<1>8. r.front = block[b].front /\ r.localTail = block[b].localTail /\ r.next = block[b].next
      /\ r.tail = block[b].tail /\ r.localFront = block[b].front /\ r.size = block[b].size
  BY <1>1, <1>2, PushFacts DEF Block
<1>9. freed = {} /\ block \in Seq(Block) /\ tailBlock \in 1..Len(block)
  BY <1>1, PushFacts
<1>10. /\ block' \in Seq(Block) /\ Len(block') = Len(block) /\ block'[b] = r
       /\ \A c \in 1..Len(block) : c # b => block'[c] = block[c]
  BY <1>5, <1>7, <1>9, OneBlock
<1> HIDE DEF r
<1>15. b # frontBlock /\ b # tailBlock /\ block[b].front = block[b].tail
  BY <1>1, <1>2, NextFacts DEF Empty
<1>16. NextBlock' = b
  BY <1>1, <1>2, <1>9, <1>10, <1>15 DEF NextBlock
<1>11. BlocksSound' /\ ConsumerKnows' /\ Destroyed'
  BY <1>1, <1>4, <1>5, <1>6, <1>7, <1>8, <1>9, <1>15, ProducerWrites
<1>12. RingOrder'
  BY <1>1, <1>3, <1>5, <1>7, <1>8, ProducerWritesInOrder
<1>13. RingTypeOK'
  BY <1>1, <1>3, <1>10 DEF RingInv, RingTypeOK
<1>14. ProducerKnows'
  <2>1. (block[b].tail + 1) % block[b].size # block[b].front
    <3>1. block[b].size \in Nat /\ block[b].size >= 2 /\ block[b].tail \in Nat /\ block[b].tail < block[b].size
      BY <1>1, <1>2, PushFacts DEF Block, Shaped
    <3> QED BY <1>15, <3>1, NextSlot, SMTT(30) DEF After
  <2>2. NextTail(NextBlock)' # block'[NextBlock'].localFront
    BY <1>8, <1>10, <1>16, <2>1 DEF NextTail
  <2> QED BY <1>1, <1>3, <1>15, <1>16, <2>2 DEF ProducerKnows
<1> QED BY <1>11, <1>12, <1>13, <1>14 DEF RingInv

\* Constructing an element in the next block keeps it.
LEMMA ConstructNextKeeps == ASSUME RingInv, ConstructNext PROVE RingInv'
<1>1. push.pc = "constructNext" /\ UNCHANGED <<frontBlock, tailBlock, largestBlockSize, pop, sent, freed>>
  BY DEF ConstructNext
<1>2. PICK b \in 1..Len(block) : b = NextBlock
  BY <1>1, PushFacts
<1> DEFINE r == [block[b] EXCEPT !.data[block[b].tail] = push.value]
<1>3. push \in PushCalls /\ push' \in PushCalls /\ push'.pc = "publishNext"
  BY <1>1, PushMoves DEF ConstructNext, RingInv, PushPcs
<1>15. b # frontBlock /\ b # tailBlock
  BY <1>1, <1>2, NextFacts
<1>4. \A c \in 1..Len(block) : ~Filled(c)
  BY <1>1 DEF Filled
<1>5. r \in Block /\ Shaped(r) /\ CopiesAreBehind(r) /\ Holds(r, Taken(b), TRUE)
  <2>1. Holds(block[b], Taken(b), FALSE)
    BY <1>1, <1>2, <1>4, PushFacts DEF Holds
  <2>2. Taken(b) \in BOOLEAN /\ push.value \in Nat /\ block[b] \in Block /\ Shaped(block[b]) /\ CopiesAreBehind(block[b])
    BY <1>1, <1>2, <1>3, PushFacts DEF PushCalls
  <2> QED BY <2>1, <2>2, SoundFill
<1>7. block' = [block EXCEPT ![b] = r]
  BY <1>2 DEF ConstructNext
<1>8. r.front = block[b].front /\ r.localTail = block[b].localTail /\ r.next = block[b].next
      /\ r.tail = block[b].tail /\ r.localFront = block[b].localFront /\ r.size = block[b].size
  BY <1>1, <1>2, PushFacts DEF Block
<1>9. freed = {} /\ block \in Seq(Block) /\ tailBlock \in 1..Len(block)
  BY <1>1, PushFacts
<1>10. /\ block' \in Seq(Block) /\ Len(block') = Len(block) /\ block'[b] = r
       /\ \A c \in 1..Len(block) : c # b => block'[c] = block[c]
  BY <1>5, <1>7, <1>9, OneBlock
<1> HIDE DEF r
<1>16. NextBlock' = b
  BY <1>1, <1>2, <1>9, <1>10, <1>15 DEF NextBlock
<1>17. \A c \in 1..Len(block) : Filled(c)' <=> c = b
  BY <1>3, <1>16 DEF Filled
<1>6. Holds(r, Taken(b), Filled(b)')
  BY <1>5, <1>17 DEF Holds
<1>11. BlocksSound' /\ ConsumerKnows' /\ Destroyed'
  BY <1>1, <1>4, <1>5, <1>6, <1>7, <1>8, <1>9, <1>15, <1>17, ProducerWrites
<1>12. RingOrder'
  BY <1>1, <1>3, <1>5, <1>7, <1>8, ProducerWritesInOrder
<1>13. RingTypeOK'
  BY <1>1, <1>3, <1>10 DEF RingInv, RingTypeOK
<1>14. ProducerKnows'
  <2>1. NextTail(NextBlock)' # block'[NextBlock'].localFront
    BY <1>1, <1>2, <1>8, <1>10, <1>16 DEF NextTail, RingInv, ProducerKnows
  <2> QED BY <1>1, <1>3, <1>15, <1>16, <2>1 DEF ProducerKnows
<1> QED BY <1>11, <1>12, <1>13, <1>14 DEF RingInv

\* Moving the tail of the next block keeps it.
LEMMA PublishNextKeeps == ASSUME RingInv, PublishNext PROVE RingInv'
<1>1. push.pc = "publishNext" /\ UNCHANGED <<frontBlock, tailBlock, largestBlockSize, pop, sent, freed>>
  BY DEF PublishNext
<1>2. PICK b \in 1..Len(block) : b = NextBlock
  BY <1>1, PushFacts
<1> DEFINE r == [block[b] EXCEPT !.tail = (block[b].tail + 1) % block[b].size]
<1>3. push \in PushCalls /\ push' \in PushCalls /\ push'.pc = "advanceTail"
  BY <1>1, PushMoves DEF PublishNext, RingInv, PushPcs
<1>15. b # frontBlock /\ b # tailBlock /\ Empty(b)
  BY <1>1, <1>2, NextFacts
<1>4. \A c \in 1..Len(block) : (Filled(c) <=> c = b) /\ ~Filled(c)'
  BY <1>1, <1>2, <1>3 DEF Filled
<1>5. r \in Block /\ Shaped(r) /\ CopiesAreBehind(r) /\ r.tail # r.front /\ Holds(r, Taken(b), FALSE)
  <2>1. Holds(block[b], Taken(b), TRUE)
    BY <1>1, <1>2, <1>4, PushFacts DEF Holds
  <2>2. Taken(b) \in BOOLEAN /\ block[b] \in Block /\ Shaped(block[b]) /\ CopiesAreBehind(block[b])
        /\ (Taken(b) => block[b].front # block[b].tail)
    BY <1>1, <1>2, PushFacts DEF Empty
  <2>3. (block[b].tail + 1) % block[b].size # block[b].localFront
    BY <1>1, <1>2 DEF RingInv, ProducerKnows, NextTail
  <2> QED BY <2>1, <2>2, <2>3, SoundPublish
<1>6. Holds(r, Taken(b), Filled(b)')
  BY <1>4, <1>5 DEF Holds
<1>7. block' = [block EXCEPT ![b] = r]
  BY <1>2 DEF PublishNext, NextTail
<1>8. r.front = block[b].front /\ r.localTail = block[b].localTail /\ r.next = block[b].next
  BY <1>1, <1>2, PushFacts DEF Block
<1>9. freed = {} /\ block \in Seq(Block) /\ tailBlock \in 1..Len(block)
  BY <1>1, PushFacts
<1>10. /\ block' \in Seq(Block) /\ Len(block') = Len(block) /\ block'[b] = r
       /\ \A c \in 1..Len(block) : c # b => block'[c] = block[c]
  BY <1>5, <1>7, <1>9, OneBlock
<1> HIDE DEF r
<1>16. NextBlock' = b
  BY <1>1, <1>2, <1>9, <1>10, <1>15 DEF NextBlock
<1>11. BlocksSound' /\ ConsumerKnows' /\ Destroyed'
  BY <1>1, <1>4, <1>5, <1>6, <1>7, <1>8, <1>9, <1>15, ProducerWrites
<1>13. RingTypeOK'
  BY <1>1, <1>3, <1>10 DEF RingInv, RingTypeOK
<1>14. ProducerKnows'
  BY <1>1, <1>3, <1>15, <1>16 DEF ProducerKnows
<1>12. RingOrder'
  <2>1. PICK pos \in [Linked -> 0..RingLength - 1] : InOrder(pos) /\ Filling(pos)
    BY DEF RingOrder, RingInv
  <2>2. /\ Linked \subseteq 1..Len(block) /\ frontBlock \in Linked /\ tailBlock \in Linked /\ b \in Linked
    BY <1>2, RingFacts DEF RingInv, NextBlock
  <2>3. RingLength' = RingLength /\ Linked' = Linked
    BY <1>1, <1>3, <1>10 DEF RingLength, Linked
  <2>4. \A c \in Linked : block'[c].next = block[c].next
    BY <1>8, <1>10, <2>2
  <2>5. InOrder(pos)'
    BY <1>1, <2>1, <2>3, <2>4 DEF InOrder
  <2>6. \A c \in Linked : Empty(c)' <=> Empty(c) /\ c # b
    BY <1>5, <1>10, <2>2 DEF Empty
  <2>7. pos[b] > pos[tailBlock]
    <3>1. pos[b] # pos[frontBlock] /\ pos[frontBlock] = 0
      BY <1>15, <2>1, <2>2 DEF InOrder
    <3>2. pos[b] = pos[tailBlock] + 1
      BY <1>2, <2>1, <2>2, <3>1 DEF InOrder, NextBlock
    <3> QED BY <2>1, <2>2, <3>2
  <2>8. Filling(pos)'
    <3>1. \A c \in Linked : pos[c] \in 0..RingLength - 1
      BY <2>1
    <3> QED BY <1>1, <1>3, <1>16, <2>1, <2>2, <2>3, <2>6, <2>7, <3>1 DEF Filling
  <2> QED BY <1>1, <2>1, <2>2, <2>3, <2>5, <2>8 DEF RingOrder
<1> QED BY <1>11, <1>12, <1>13, <1>14 DEF RingInv

\* A new block with its first element.
FirstFilled(n, v, c) ==
    [MakeBlock(n) EXCEPT !.data[0] = v, !.tail = 1, !.localTail = 1, !.next = c]

\* A block allocated with its first element is well formed and holds that
\* element alone.
LEMMA NewBlock ==
    ASSUME NEW n \in Nat \ {0, 1}, NEW v \in Nat, NEW c \in Nat
    PROVE  /\ FirstFilled(n, v, c) \in Block
           /\ Shaped(FirstFilled(n, v, c)) /\ CopiesAreBehind(FirstFilled(n, v, c))
           /\ Holds(FirstFilled(n, v, c), FALSE, FALSE)
           /\ FirstFilled(n, v, c).next = c
           /\ FirstFilled(n, v, c).front = 0 /\ FirstFilled(n, v, c).tail = 1
<1> DEFINE d == [i \in 0..n - 1 |-> IF i = 0 THEN v ELSE Raw]
           r == [size |-> n, front |-> 0, localTail |-> 1, tail |-> 1, localFront |-> 0,
                 next |-> c, data |-> d]
<1>1. FirstFilled(n, v, c) = r
  <2> DEFINE m0 == [MakeBlock(n) EXCEPT !.data[0] = v]
             m1 == [m0 EXCEPT !.tail = 1]
             m2 == [m1 EXCEPT !.localTail = 1]
             m3 == [m2 EXCEPT !.next = c]
  <2>1. FirstFilled(n, v, c) = m3
    BY DEF FirstFilled
  <2>2. m0 = [MakeBlock(n) EXCEPT !.data = d]
    BY DEF MakeBlock
  <2>3. m0 = [size |-> n, front |-> 0, localTail |-> 0, tail |-> 0, localFront |-> 0,
              next |-> 0, data |-> d]
    <3> HIDE DEF m0, d
    <3> QED BY <2>2 DEF MakeBlock
  <2> HIDE DEF d, m0
  <2>4. m1 = [size |-> n, front |-> 0, localTail |-> 0, tail |-> 1, localFront |-> 0,
              next |-> 0, data |-> d]
    BY <2>3
  <2> HIDE DEF m1
  <2>5. m2 = [size |-> n, front |-> 0, localTail |-> 1, tail |-> 1, localFront |-> 0,
              next |-> 0, data |-> d]
    BY <2>4
  <2> HIDE DEF m2
  <2>6. m3 = r
    BY <2>5
  <2> HIDE DEF m3, r
  <2> QED BY <2>1, <2>6 DEF m0, m1, m2, m3
<1>2. d \in [0..n - 1 -> Elements]
  BY DEF Elements
<1>3. r \in Block /\ Shaped(r)
  BY <1>2 DEF Block, Shaped
<1>4. CopiesAreBehind(r)
  BY DEF CopiesAreBehind, Gap
<1>5. Holds(r, FALSE, FALSE)
  BY RawAssumption DEF Holds, Gap
<1>6. r.next = c /\ r.front = 0 /\ r.tail = 1
  OBVIOUS
<1> HIDE DEF r
<1> QED BY <1>1, <1>3, <1>4, <1>5, <1>6

\* Allocating a block that is not linked yet keeps it.
LEMMA AllocateKeeps == ASSUME RingInv, Allocate PROVE RingInv'
<1>1. push.pc = "allocate" /\ UNCHANGED <<frontBlock, tailBlock, pop, sent, freed>>
      /\ largestBlockSize' = NewBlockSize
  BY DEF Allocate
<1>2. push \in PushCalls /\ push' \in PushCalls /\ push'.pc = "link"
  BY <1>1, PushMoves DEF Allocate, RingInv, PushPcs
<1>3. NewBlockSize \in Nat \ {0, 1}
  BY DEF RingInv, RingTypeOK, NewBlockSize
<1>4. /\ freed = {} /\ block \in Seq(Block)
      /\ tailBlock \in 1..Len(block) /\ NextBlock \in 1..Len(block) /\ frontBlock \in 1..Len(block)
  BY <1>1, PushFacts
<1>0. PICK n \in Nat \ {0, 1}, v \in Nat, nx \in Nat : n = NewBlockSize /\ v = push.value /\ nx = NextBlock
  BY <1>2, <1>3, <1>4 DEF PushCalls
<1> DEFINE r == FirstFilled(n, v, nx)
<1>5. /\ r \in Block /\ Shaped(r) /\ CopiesAreBehind(r) /\ Holds(r, FALSE, FALSE)
      /\ r.next = NextBlock /\ r.front = 0 /\ r.tail = 1
  <2>1. r \in Block /\ Shaped(r) /\ CopiesAreBehind(r) /\ Holds(r, FALSE, FALSE)
    BY <1>0, NewBlock
  <2>2. r.next = nx
    BY <1>0, NewBlock
  <2>3. r.front = 0 /\ r.tail = 1
    BY <1>0, NewBlock
  <2> HIDE DEF r
  <2> QED BY <1>0, <2>1, <2>2, <2>3
<1>6. block' = Append(block, r)
  BY <1>0 DEF Allocate, FirstFilled
<1> HIDE DEF r
<1>7. /\ block' \in Seq(Block) /\ Len(block') = Len(block) + 1 /\ block'[Len(block) + 1] = r
      /\ \A c \in 1..Len(block) : block'[c] = block[c]
  BY <1>4, <1>5, <1>6
<1>8. NextBlock' = NextBlock
  BY <1>1, <1>4, <1>7 DEF NextBlock
<1>9. RingTypeOK'
  BY <1>1, <1>2, <1>3, <1>7 DEF RingInv, RingTypeOK
<1>10. BlocksSound'
  <2>1. \A c \in 1..Len(block) + 1 : ~Filled(c)'
    BY <1>2 DEF Filled
  <2>2. \A c \in 1..Len(block) : ~Filled(c) /\ (Taken(c)' <=> Taken(c))
    BY <1>1 DEF Filled, Taken
  <2>3. ASSUME NEW c \in 1..Len(block)
        PROVE  Shaped(block'[c]) /\ CopiesAreBehind(block'[c]) /\ Holds(block'[c], Taken(c)', Filled(c)')
    <3>1. Shaped(block[c]) /\ CopiesAreBehind(block[c]) /\ Holds(block[c], Taken(c), Filled(c))
      BY <1>4 DEF RingInv, BlocksSound
    <3> QED BY <1>7, <2>1, <2>2, <3>1 DEF Holds
  <2>4. ASSUME NEW c, c = Len(block) + 1
        PROVE  Shaped(block'[c]) /\ CopiesAreBehind(block'[c]) /\ Holds(block'[c], Taken(c)', Filled(c)')
    <3>1. ~Taken(c)' /\ ~Filled(c)'
      BY <1>1, <1>2, <1>4, <2>4 DEF Taken, Filled
    <3> QED BY <1>5, <1>7, <2>4, <3>1 DEF Holds
  <2>5. \A c \in 1..Len(block') : c \in 1..Len(block) \/ c = Len(block) + 1
    BY <1>4, <1>7
  <2> QED BY <2>3, <2>4, <2>5 DEF BlocksSound
<1>11. RingOrder'
  <2>1. Linked \subseteq 1..Len(block)
    BY RingFacts DEF RingInv
  <2>2. RingLength' = RingLength
    BY <1>1, <1>2, <1>4, <1>7 DEF RingLength
  <2>3. \A c \in Linked : block'[c].next = block[c].next /\ (Empty(c)' <=> Empty(c))
    BY <1>7, <2>1 DEF Empty
  <2> QED BY <1>1, <1>2, <2>2, <2>3, OrderKept DEF RingInv
<1>12. ProducerKnows'
  <2>1. RingLength' > 0
    BY <1>2, <1>4, <1>7 DEF RingLength
  <2>2. ~Empty(Len(block))' /\ block'[Len(block')].next = NextBlock'
    BY <1>4, <1>5, <1>7, <1>8 DEF Empty
  <2> QED BY <1>2, <2>1, <2>2 DEF ProducerKnows
<1>13. ConsumerKnows'
  <2>1. \A c \in 1..Len(block) : block'[c].front = block[c].front /\ block'[c].localTail = block[c].localTail
    BY <1>7
  <2> QED BY <1>1, <1>4, <1>7, <2>1, ConsumerStillKnows DEF RingInv
<1> QED BY <1>1, <1>4, <1>9, <1>10, <1>11, <1>12, <1>13 DEF RingInv, Destroyed

\* A block comes after the one at a: the places behind it move on.
LEMMA PlacesShift ==
    ASSUME NEW m \in Nat, NEW a \in Nat, NEW x \in Nat, x <= m - 2, a <= m - 2, x # a
    PROVE  LET y == IF x = m - 2 THEN 0 ELSE x + 1
               z == IF x >= a + 1 THEN x + 1 ELSE x
           IN  (IF y >= a + 1 THEN y + 1 ELSE y) = (IF z = m - 1 THEN 0 ELSE z + 1)
  OBVIOUS

\* Linking the new block behind the tail block keeps it.
LEMMA LinkKeeps == ASSUME RingInv, Link PROVE RingInv'
<1>1. push.pc = "link" /\ UNCHANGED <<frontBlock, tailBlock, largestBlockSize, pop, sent, freed>>
  BY DEF Link
<1>2. PICK b \in 1..Len(block) : b = tailBlock
  BY <1>1, PushFacts
<1>0. PICK new : new = Len(block)
  OBVIOUS
<1> DEFINE r == [block[b] EXCEPT !.next = new]
<1>3. push \in PushCalls /\ push' \in PushCalls /\ push'.pc = "advanceTail"
  BY <1>1, PushMoves DEF Link, RingInv, PushPcs
<1>4. \A c \in 1..Len(block) : ~Filled(c) /\ ~Filled(c)'
  BY <1>1, <1>3 DEF Filled
<1>5. freed = {} /\ block \in Seq(Block) /\ new \in Nat
  BY <1>0, <1>1, PushFacts
<1>6. r \in Block /\ Shaped(r) /\ CopiesAreBehind(r) /\ Holds(r, Taken(b), Filled(b))
  BY <1>1, <1>2, <1>5, PushFacts, SoundNext
<1>7. Holds(r, Taken(b)', Filled(b)')
  BY <1>1, <1>4, <1>6 DEF Holds, Taken
<1>8. block' = [block EXCEPT ![b] = r]
  BY <1>0, <1>2 DEF Link
<1>9. r.front = block[b].front /\ r.localTail = block[b].localTail /\ r.tail = block[b].tail /\ r.next = new
  BY <1>1, <1>2, PushFacts DEF Block
<1>10. /\ block' \in Seq(Block) /\ Len(block') = Len(block) /\ block'[b] = r
       /\ \A c \in 1..Len(block) : c # b => block'[c] = block[c]
  BY <1>5, <1>6, <1>8, OneBlock
<1> HIDE DEF r
<1>11. /\ RingLength = new - 1 /\ Linked = 1..new - 1 /\ frontBlock \in Linked /\ b \in Linked /\ new \in 1..Len(block)
       /\ RingLength' = new /\ Linked' = 1..new /\ ~Empty(new) /\ block[new].next = NextBlock
       /\ new - 1 > 0
  BY <1>0, <1>1, <1>2, <1>3, <1>5, <1>10, RingFacts DEF RingInv, ProducerKnows, RingLength, Linked
<1>12. NextBlock' = new
  BY <1>1, <1>2, <1>9, <1>10 DEF NextBlock
<1>13. RingTypeOK'
  BY <1>1, <1>3, <1>10 DEF RingInv, RingTypeOK
<1>14. BlocksSound'
  <2>1. \A c \in 1..Len(block) : Taken(c)' <=> Taken(c)
    BY <1>1 DEF Taken
  <2> QED BY <1>4, <1>5, <1>6, <1>7, <1>8, <2>1, SoundChange DEF RingInv
<1>15. ProducerKnows'
  BY <1>0, <1>1, <1>3, <1>10, <1>11, <1>12 DEF ProducerKnows
<1>16. ConsumerKnows'
  <2>1. \A c \in 1..Len(block) : block'[c].front = block[c].front /\ block'[c].localTail = block[c].localTail
    BY <1>9, <1>10
  <2>2. frontBlock \in 1..Len(block) /\ (frontBlock # b => block'[frontBlock] = block[frontBlock])
    BY <1>10, <1>11
  <2> QED BY <1>1, <1>2, <2>1, <2>2, ConsumerStillKnows DEF RingInv
<1>17. RingOrder'
  <2>1. PICK pos \in [Linked -> 0..RingLength - 1] : InOrder(pos) /\ Filling(pos)
    BY DEF RingOrder, RingInv
  <2> DEFINE at == pos[b] + 1
  <2>0. PICK q : q = [c \in 1..new |-> IF c = new THEN at ELSE IF pos[c] >= at THEN pos[c] + 1 ELSE pos[c]]
    OBVIOUS
  <2>2. \A c \in Linked : pos[c] \in 0..new - 2
    BY <1>11, <2>1
  <2>3. at \in 1..new - 1
    BY <1>11, <2>2
  <2>4. \A c \in 1..new : c = new \/ c \in Linked
    BY <1>5, <1>11
  <2>5. q \in [1..new -> 0..new - 1]
    BY <1>5, <2>0, <2>2, <2>3, <2>4
  <2>6. \A c, e \in 1..new : q[c] = q[e] => c = e
    <3> SUFFICES ASSUME NEW c \in 1..new, NEW e \in 1..new, q[c] = q[e] PROVE c = e
      OBVIOUS
    <3>1. c \in Linked /\ e \in Linked /\ pos[c] = pos[e] => c = e
      BY <2>1 DEF InOrder
    <3> QED BY <2>0, <2>2, <2>3, <2>4, <3>1
  <2>7. q[frontBlock] = 0
    <3>1. pos[frontBlock] = 0 /\ frontBlock # new /\ frontBlock \in 1..new
      BY <1>5, <1>11, <2>1 DEF InOrder
    <3> QED BY <2>0, <2>3, <3>1
  <2>8. ASSUME NEW c \in 1..new
        PROVE  /\ block'[c].next \in 1..new
               /\ q[block'[c].next] = IF q[c] = new - 1 THEN 0 ELSE q[c] + 1
    <3>1. CASE c = b
      <4>1. block'[c].next = new /\ b # new
        BY <1>5, <1>9, <1>10, <1>11, <3>1
      <4>2. q[c] = pos[b] /\ q[new] = pos[b] + 1 /\ pos[b] < new - 1
        BY <1>11, <2>0, <2>2, <3>1, <4>1
      <4> QED BY <1>5, <1>11, <2>2, <4>1, <4>2
    <3>2. CASE c = new
      <4>1. block'[c].next = NextBlock /\ NextBlock = block[b].next /\ NextBlock \in Linked /\ NextBlock # new
        BY <1>2, <1>5, <1>10, <1>11, <2>1, <3>2, SMTT(30) DEF InOrder, NextBlock
      <4>2. pos[NextBlock] = IF pos[b] = new - 2 THEN 0 ELSE pos[b] + 1
        BY <1>5, <1>11, <2>1, <4>1 DEF InOrder
      <4>3. NextBlock \in 1..new /\ q[c] = at
        BY <1>5, <1>11, <2>0, <3>2, <4>1
      <4>4. q[NextBlock] = IF pos[NextBlock] >= at THEN pos[NextBlock] + 1 ELSE pos[NextBlock]
        BY <2>0, <4>1, <4>3
      <4> QED BY <1>5, <1>11, <2>2, <2>3, <4>1, <4>2, <4>3, <4>4, SMTT(30)
    <3>3. CASE c # b /\ c # new
      <4>1. c \in Linked /\ block'[c].next = block[c].next /\ block[c].next \in Linked
        BY <1>10, <1>11, <2>1, <2>4, <3>3 DEF InOrder
      <4>2. pos[block[c].next] = (IF pos[c] = new - 2 THEN 0 ELSE pos[c] + 1) /\ pos[c] # pos[b]
        BY <1>5, <1>11, <2>1, <3>3, <4>1 DEF InOrder
      <4>3. block[c].next # new /\ block[c].next \in 1..new
        BY <1>5, <1>11, <4>1
      <4>4. q[block[c].next] = IF pos[block[c].next] >= at THEN pos[block[c].next] + 1 ELSE pos[block[c].next]
        BY <2>0, <4>3
      <4>5. q[c] = IF pos[c] >= at THEN pos[c] + 1 ELSE pos[c]
        BY <2>0, <3>3
      <4>6. pos[c] \in Nat /\ pos[b] \in Nat /\ pos[c] <= new - 2 /\ pos[b] <= new - 2
        BY <1>5, <1>11, <2>2, <4>1
      <4>7. (IF pos[block[c].next] >= at THEN pos[block[c].next] + 1 ELSE pos[block[c].next])
                = (IF q[c] = new - 1 THEN 0 ELSE q[c] + 1)
        BY <1>5, <4>2, <4>5, <4>6, PlacesShift, SMTT(30)
      <4> QED BY <4>1, <4>3, <4>4, <4>7
    <3> QED BY <3>1, <3>2, <3>3
  <2>9. InOrder(q)'
    BY <1>0, <1>1, <1>11, <2>5, <2>6, <2>7, <2>8 DEF InOrder
  <2>10. Filling(q)'
    <3>1. \A c \in 1..new : Empty(c)' <=> Empty(c)
      BY <1>9, <1>10, <1>11, SMTT(30) DEF Empty
    <3>2. q[b] = pos[b] /\ b \in 1..new
      BY <1>5, <1>11, <2>0, <2>2
    <3>3. ASSUME NEW c \in 1..new
          PROVE  /\ 0 < q[c] /\ q[c] <= q[b] => ~Empty(c)
                 /\ q[c] > q[b] => (Empty(c) <=> c # new)
      <4>1. CASE c = new
        BY <1>11, <2>0, <2>2, <2>3, <3>2, <4>1
      <4>2. CASE c # new
        <5>1. c \in Linked
          BY <2>4, <4>2
        <5>2. /\ 0 < pos[c] /\ pos[c] <= pos[b] => ~Empty(c)
              /\ pos[c] > pos[b] => Empty(c)
          BY <1>1, <1>2, <2>1, <5>1 DEF Filling
        <5>3. q[c] = IF pos[c] >= at THEN pos[c] + 1 ELSE pos[c]
          BY <2>0, <4>2
        <5> QED BY <1>11, <2>2, <3>2, <4>2, <5>1, <5>2, <5>3, SMTT(30)
      <4> QED BY <4>1, <4>2
    <3> QED BY <1>1, <1>2, <1>3, <1>11, <1>12, <3>1, <3>3 DEF Filling
  <2>11. q \in [Linked -> 0..RingLength - 1]'
    BY <1>11, <2>5
  <2>12. frontBlock' \in Linked' /\ tailBlock' \in Linked'
    BY <1>1, <1>2, <1>5, <1>11
  <2> QED BY <2>9, <2>10, <2>11, <2>12 DEF RingOrder
<1> QED BY <1>1, <1>5, <1>13, <1>14, <1>15, <1>16, <1>17 DEF RingInv, Destroyed

\* Making the next block the tail block keeps it.
LEMMA AdvanceTailKeeps == ASSUME RingInv, AdvanceTail PROVE RingInv'
<1>1. push.pc = "advanceTail" /\ UNCHANGED <<block, frontBlock, largestBlockSize, pop, sent, freed>>
      /\ tailBlock' = NextBlock /\ push' = Idle
  BY DEF AdvanceTail, PushReturns
<1>2. freed = {}
  BY <1>1, PushFacts
<1>3. RingTypeOK'
  BY <1>1 DEF RingInv, RingTypeOK
<1>4. BlocksSound'
  <2>1. \A c \in 1..Len(block) : (Taken(c)' <=> Taken(c)) /\ (Filled(c)' <=> Filled(c))
    BY <1>1 DEF Taken, Filled, Idle
  <2> QED BY <1>1, <2>1, SoundSame DEF RingInv
<1>5. NextBlock # frontBlock
  BY <1>1 DEF RingInv, ProducerKnows
<1>6. ConsumerKnows'
  BY <1>1, <1>5, ConsumerStillKnows DEF RingInv
<1>7. ProducerKnows'
  BY <1>1 DEF ProducerKnows, Idle
<1>8. RingOrder'
  <2>1. PICK pos \in [Linked -> 0..RingLength - 1] : InOrder(pos) /\ Filling(pos)
    BY DEF RingOrder, RingInv
  <2>2. frontBlock \in Linked /\ tailBlock \in Linked /\ NextBlock \in Linked
    BY RingFacts DEF RingInv, NextBlock
  <2>3. RingLength' = RingLength /\ Linked' = Linked
    BY <1>1 DEF RingLength, Linked, Idle
  <2>4. pos[NextBlock] = pos[tailBlock] + 1
    <3>1. pos[NextBlock] # pos[frontBlock] /\ pos[frontBlock] = 0
      BY <1>5, <2>1, <2>2 DEF InOrder
    <3> QED BY <2>1, <2>2, <3>1 DEF InOrder, NextBlock
  <2>5. InOrder(pos)'
    BY <1>1, <2>1, <2>3 DEF InOrder
  <2>6. \A c \in Linked : Empty(c)' <=> Empty(c)
    BY <1>1 DEF Empty
  <2>7. \A c \in Linked : pos[c] \in 0..RingLength - 1 /\ (pos[c] = pos[NextBlock] => c = NextBlock)
    BY <2>1, <2>2 DEF InOrder
  <2>8. ASSUME NEW c \in Linked
        PROVE  /\ 0 < pos[c] /\ pos[c] <= pos[NextBlock] => ~Empty(c)
               /\ pos[c] > pos[NextBlock] => Empty(c)
    <3>1. /\ 0 < pos[c] /\ pos[c] <= pos[tailBlock] => ~Empty(c)
          /\ pos[c] > pos[tailBlock] => (Empty(c) <=> c # NextBlock)
      BY <1>1, <2>1 DEF Filling
    <3>2. pos[c] \in Nat /\ pos[tailBlock] \in Nat /\ pos[c] = pos[NextBlock] => c = NextBlock
      BY <2>2, <2>7
    <3> QED BY <2>2, <2>4, <2>7, <3>1, <3>2
  <2>9. Filling(pos)'
    BY <1>1, <2>3, <2>6, <2>8 DEF Filling, Idle
  <2> QED BY <1>1, <2>1, <2>2, <2>3, <2>5, <2>9 DEF RingOrder
<1> QED BY <1>1, <1>2, <1>3, <1>4, <1>6, <1>7, <1>8 DEF RingInv, Destroyed

-----------------------------------------------------------------------------
(* The consumer *)

\* What the steps of a pop know.
LEMMA PopFacts ==
    ASSUME RingInv, freed = {}
    PROVE  /\ block \in Seq(Block)
           /\ frontBlock \in 1..Len(block) /\ block[frontBlock].next \in 1..Len(block)
           /\ \A b \in 1..Len(block) :
                /\ block[b] \in Block /\ Shaped(block[b]) /\ CopiesAreBehind(block[b])
                /\ Holds(block[b], Taken(b), Filled(b))
                /\ Taken(b) \in BOOLEAN /\ Filled(b) \in BOOLEAN
<1>1. /\ block \in Seq(Block)
      /\ frontBlock \in 1..Len(block) /\ block[frontBlock].next \in 1..Len(block)
  BY RingFacts DEF RingInv, RingTypeOK
<1>2. \A b \in 1..Len(block) : Shaped(block[b]) /\ CopiesAreBehind(block[b]) /\ Holds(block[b], Taken(b), Filled(b))
  BY DEF RingInv, BlocksSound
<1>3. \A b \in 1..Len(block) : block[b] \in Block
  BY <1>1
<1>4. \A b \in 1..Len(block) : Taken(b) \in BOOLEAN /\ Filled(b) \in BOOLEAN
  BY DEF Taken, Filled
<1> QED BY <1>1, <1>2, <1>3, <1>4

\* A step of the consumer that only looks.
LEMMA ConsumerLooks ==
    ASSUME RingInv, freed = {}, UNCHANGED <<block, frontBlock, tailBlock, push, freed>>,
           pop.pc # "release", pop'.pc # "release"
    PROVE  BlocksSound' /\ RingOrder' /\ ProducerKnows' /\ Destroyed'
<1> USE DEF RingInv
<1>1. BlocksSound'
  <2>1. \A c \in 1..Len(block) : (Taken(c)' <=> Taken(c)) /\ (Filled(c)' <=> Filled(c))
    BY DEF Taken, Filled, NextBlock
  <2> QED BY <2>1, SoundSame
<1>2. RingOrder'
  <2>1. RingLength' = RingLength
    BY DEF RingLength
  <2>2. \A b \in Linked : Empty(b)' <=> Empty(b)
    BY DEF Empty
  <2> QED BY <2>1, <2>2, OrderKept
<1>3. ProducerKnows'
  BY ProducerStillKnows
<1> QED BY <1>1, <1>2, <1>3 DEF Destroyed

\* A step of the consumer that writes to a block, to its front only if it is the
\* front block.
LEMMA ConsumerWrites ==
    ASSUME RingInv, freed = {}, UNCHANGED <<frontBlock, tailBlock, push, freed>>,
           NEW b \in 1..Len(block), NEW r \in Block, block' = [block EXCEPT ![b] = r],
           r.size = block[b].size, r.tail = block[b].tail, r.localFront = block[b].localFront,
           r.next = block[b].next, b # frontBlock => r.front = block[b].front,
           Shaped(r), CopiesAreBehind(r), Holds(r, Taken(b)', Filled(b)),
           \A c \in 1..Len(block) : c # b => (Taken(c)' <=> Taken(c))
    PROVE  BlocksSound' /\ RingOrder' /\ ProducerKnows' /\ Destroyed'
<1> USE DEF RingInv
<1>0. block \in Seq(Block)
  BY DEF RingTypeOK
<1>1. /\ Len(block') = Len(block) /\ block'[b] = r
      /\ \A c \in 1..Len(block) : c # b => block'[c] = block[c]
  BY <1>0, OneBlock
<1>2. /\ Linked \subseteq 1..Len(block) /\ tailBlock \in 1..Len(block)
  BY RingFacts
<1>3. NextBlock' = NextBlock
  BY <1>1, <1>2 DEF NextBlock
<1>4. BlocksSound'
  <2>1. \A c \in 1..Len(block) : Filled(c)' <=> Filled(c)
    BY <1>3 DEF Filled
  <2>2. Holds(r, Taken(b)', Filled(b)')
    BY <2>1 DEF Holds
  <2> QED BY <1>0, <2>1, <2>2, SoundChange
<1>5. RingOrder'
  <2>1. RingLength' = RingLength
    BY <1>1 DEF RingLength
  <2>2. \A c \in Linked : /\ block'[c].next = block[c].next
                          /\ c # frontBlock => (Empty(c)' <=> Empty(c))
    BY <1>1, <1>2 DEF Empty
  <2> QED BY <2>1, <2>2, OrderKept
<1>6. ProducerKnows'
  <2>1. \A c \in 1..Len(block) : /\ block'[c].size = block[c].size /\ block'[c].tail = block[c].tail
                                 /\ block'[c].localFront = block[c].localFront
                                 /\ block'[c].next = block[c].next
                                 /\ c # frontBlock => block'[c].front = block[c].front
    BY <1>1
  <2> QED BY <1>1, <2>1, ProducerStillKnows
<1> QED BY <1>4, <1>5, <1>6 DEF Destroyed

\* The steps of the consumer keep the ring invariant
\* (readerwriterqueue.h:264-355).
LEMMA CallPopKeeps == ASSUME RingInv, NEW op \in {"pop", "peek"}, CallPop(op) PROVE RingInv'
<1> USE DEF CallPop
<1>1. pop' \in PopCalls /\ pop'.pc \in {"take", "reload"}
      /\ (pop'.pc = "take" => BlockFront # block[frontBlock].localTail)
  BY DEF PopCalls, PopPcs
<1>2. RingTypeOK'
  BY <1>1 DEF RingInv, RingTypeOK
<1>3. BlocksSound' /\ RingOrder' /\ ProducerKnows' /\ Destroyed'
  BY <1>1, ConsumerLooks DEF Idle
<1>4. ConsumerKnows'
  BY <1>1 DEF ConsumerKnows, BlockFront
<1> QED BY <1>2, <1>3, <1>4 DEF RingInv

\* The steps that read one word of the other side, or none.
LEMMA LookKeeps ==
    ASSUME RingInv, SeeTailElsewhere \/ SeeNothing \/ ReadNext \/ Peek
    PROVE  RingInv'
<1>1. /\ pop.pc \in {"checkTail", "readNext", "take"}
      /\ UNCHANGED <<block, frontBlock, tailBlock, largestBlockSize, push, sent, freed>>
  BY DEF SeeTailElsewhere, SeeNothing, ReadNext, Peek
<1>2. freed = {}
  BY <1>1, NotDestroyed DEF RingInv
<1>3. \/ pop' \in PopCalls /\ pop'.pc = "recheck" /\ frontBlock # tailBlock
      \/ /\ pop' \in PopCalls /\ pop'.pc = "enterNext" /\ pop'.next = block[frontBlock].next
         /\ pop.pc = "readNext"
      \/ pop' = Idle
  <2>1. CASE SeeTailElsewhere
    BY <1>1, <2>1, PopMoves DEF SeeTailElsewhere, RingInv, PopPcs
  <2>2. CASE SeeNothing
    BY <2>2 DEF SeeNothing, PopReturns
  <2>3. CASE ReadNext
    <3>1. block[frontBlock].next \in Nat
      BY <1>2, PopFacts DEF Block
    <3>2. pop \in PopCalls /\ pop.pc = "readNext"
      BY <2>3 DEF ReadNext, RingInv, RingTypeOK, Idle
    <3> QED BY <2>3, <3>1, <3>2 DEF ReadNext, PopCalls, PopPcs
  <2>4. CASE Peek
    BY <2>4 DEF Peek, PopReturns
  <2> QED BY <1>1, <2>1, <2>2, <2>3, <2>4
<1>4. RingTypeOK'
  BY <1>1, <1>3 DEF RingInv, RingTypeOK
<1>5. BlocksSound' /\ RingOrder' /\ ProducerKnows' /\ Destroyed'
  BY <1>1, <1>2, <1>3, ConsumerLooks DEF Idle
<1>6. ConsumerKnows'
  BY <1>1, <1>3 DEF RingInv, ConsumerKnows, BlockFront, Empty, Idle
<1> QED BY <1>4, <1>5, <1>6 DEF RingInv

\* The private copy of the tail is brought up to date.
LEMMA LoadTailKeeps ==
    ASSUME RingInv, NEW from, NEW otherwise, <<from, otherwise>> \in {<<"reload", "checkTail">>, <<"recheck", "readNext">>},
           LoadTail(from, otherwise)
    PROVE  RingInv'
<1>1. pop.pc = from /\ UNCHANGED <<frontBlock, tailBlock, largestBlockSize, push, sent, freed>>
      /\ from \in {"reload", "recheck"} /\ otherwise \in {"checkTail", "readNext"}
      /\ (otherwise = "readNext" => from = "recheck")
  BY DEF LoadTail
<1>2. freed = {}
  BY <1>1, NotDestroyed DEF RingInv
<1>3. PICK b \in 1..Len(block) : b = frontBlock
  BY <1>2, PopFacts
<1> DEFINE r == [block[b] EXCEPT !.localTail = block[b].tail]
<1>4. /\ pop' \in PopCalls
      /\ \/ pop'.pc = "take" /\ block[b].front # block[b].tail
         \/ pop'.pc = otherwise /\ block[b].front = block[b].tail
  BY <1>1, <1>3, PopMoves DEF LoadTail, RingInv, PopPcs, BlockFront
<1>5. \A c \in 1..Len(block) : ~Taken(c) /\ ~Taken(c)'
  BY <1>1, <1>4 DEF Taken
<1>6. r \in Block /\ Shaped(r) /\ CopiesAreBehind(r) /\ Holds(r, Taken(b), Filled(b))
  BY <1>2, PopFacts, SoundReloadTail
<1>7. Holds(r, Taken(b)', Filled(b))
  BY <1>5, <1>6 DEF Holds
<1>8. block' = [block EXCEPT ![b] = r]
  BY <1>3 DEF LoadTail
<1>9. r.size = block[b].size /\ r.tail = block[b].tail /\ r.localFront = block[b].localFront
      /\ r.next = block[b].next /\ r.front = block[b].front /\ r.localTail = block[b].tail
  BY <1>2, PopFacts DEF Block
<1>10. block \in Seq(Block)
  BY <1>2, PopFacts
<1>11. block' \in Seq(Block) /\ Len(block') = Len(block) /\ block'[b] = r
  BY <1>6, <1>8, <1>10, OneBlock
<1> HIDE DEF r
<1>12. BlocksSound' /\ RingOrder' /\ ProducerKnows' /\ Destroyed'
  BY <1>1, <1>2, <1>5, <1>6, <1>7, <1>8, <1>9, ConsumerWrites
<1>13. RingTypeOK'
  BY <1>1, <1>4, <1>11 DEF RingInv, RingTypeOK
<1>14. ConsumerKnows'
  BY <1>1, <1>3, <1>4, <1>9, <1>11 DEF RingInv, ConsumerKnows, BlockFront, Empty
<1> QED BY <1>12, <1>13, <1>14 DEF RingInv

\* Looking at the block behind the front block keeps it.
LEMMA EnterNextKeeps == ASSUME RingInv, EnterNext PROVE RingInv'
<1>1. pop.pc = "enterNext" /\ UNCHANGED <<frontBlock, tailBlock, largestBlockSize, push, sent, freed>>
  BY DEF EnterNext
<1>2. freed = {}
  BY <1>1, NotDestroyed DEF RingInv
<1>3. frontBlock # tailBlock /\ Empty(frontBlock) /\ pop.next = block[frontBlock].next
  BY <1>1 DEF RingInv, ConsumerKnows
<1>4. PICK b \in 1..Len(block) : b = pop.next
  BY <1>2, <1>3, PopFacts
<1>5. b # frontBlock /\ ~Empty(b)
  BY <1>3, <1>4, RingFacts DEF RingInv
<1>6. CASE pop.op = "peek" /\ UNCHANGED block /\ pop' = Idle
  <2>1. RingTypeOK'
    BY <1>1, <1>6 DEF RingInv, RingTypeOK
  <2>2. BlocksSound' /\ RingOrder' /\ ProducerKnows' /\ Destroyed'
    BY <1>1, <1>2, <1>6, ConsumerLooks DEF Idle
  <2>3. ConsumerKnows'
    BY <1>6 DEF ConsumerKnows, Idle
  <2> QED BY <2>1, <2>2, <2>3 DEF RingInv
<1>7. CASE PopGoes("advanceFront") /\ block' = [block EXCEPT ![b].localTail = block[b].tail]
  <2> DEFINE r == [block[b] EXCEPT !.localTail = block[b].tail]
  <2>1. pop' \in PopCalls /\ pop'.pc = "advanceFront" /\ pop'.next = b
    BY <1>1, <1>4, <1>7, PopMoves DEF RingInv, PopPcs
  <2>2. \A c \in 1..Len(block) : ~Taken(c) /\ ~Taken(c)'
    BY <1>1, <2>1 DEF Taken
  <2>3. r \in Block /\ Shaped(r) /\ CopiesAreBehind(r) /\ Holds(r, Taken(b), Filled(b))
    BY <1>2, PopFacts, SoundReloadTail
  <2>4. Holds(r, Taken(b)', Filled(b))
    BY <2>2, <2>3 DEF Holds
  <2>5. block' = [block EXCEPT ![b] = r]
    BY <1>7
  <2>6. r.size = block[b].size /\ r.tail = block[b].tail /\ r.localFront = block[b].localFront
        /\ r.next = block[b].next /\ r.front = block[b].front /\ r.localTail = block[b].tail
    BY <1>2, PopFacts DEF Block
  <2>7. block \in Seq(Block) /\ frontBlock \in 1..Len(block)
    BY <1>2, PopFacts
  <2>8. block' \in Seq(Block) /\ Len(block') = Len(block) /\ block'[b] = r
        /\ \A c \in 1..Len(block) : c # b => block'[c] = block[c]
    BY <2>3, <2>5, <2>7, OneBlock
  <2> HIDE DEF r
  <2>9. BlocksSound' /\ RingOrder' /\ ProducerKnows' /\ Destroyed'
    BY <1>1, <1>2, <2>2, <2>3, <2>4, <2>5, <2>6, ConsumerWrites
  <2>10. RingTypeOK'
    BY <1>1, <2>1, <2>8 DEF RingInv, RingTypeOK
  <2>11. ConsumerKnows'
    BY <1>1, <1>3, <1>4, <1>5, <2>1, <2>6, <2>7, <2>8 DEF ConsumerKnows, BlockFront, Empty
  <2> QED BY <2>9, <2>10, <2>11 DEF RingInv
<1> QED BY <1>4, <1>6, <1>7 DEF EnterNext, PopReturns

\* Moving an element out of its slot keeps it.
LEMMA TakeKeeps == ASSUME RingInv, Take PROVE RingInv'
<1>1. pop.pc = "take" /\ UNCHANGED <<frontBlock, tailBlock, largestBlockSize, push, sent, freed>>
  BY DEF Take
<1>2. freed = {}
  BY <1>1, NotDestroyed DEF RingInv
<1>3. PICK b \in 1..Len(block) : b = frontBlock
  BY <1>2, PopFacts
<1> DEFINE r == [block[b] EXCEPT !.data[block[b].front] = Raw]
<1>4. block[b].front # block[b].localTail
  BY <1>1, <1>3 DEF RingInv, ConsumerKnows, BlockFront
<1>5. pop' \in PopCalls /\ pop'.pc = "release"
  <2>1. pop \in PopCalls
    BY <1>1 DEF RingInv, RingTypeOK, Idle
  <2>2. block[b].data[block[b].front] \in Elements
    <3>1. block[b].front \in 0..block[b].size - 1 /\ block[b].data \in [0..block[b].size - 1 -> Elements]
      <4>1. block[b] \in Block /\ Shaped(block[b])
        BY <1>2, PopFacts
      <4>2. block[b].front \in Nat /\ block[b].size \in Nat
        BY <4>1 DEF Block
      <4> QED BY <4>1, <4>2 DEF Shaped
    <3> QED BY <3>1
  <2>3. pop' = [pop EXCEPT !.pc = "release", !.value = block[b].data[block[b].front]]
    BY <1>3 DEF Take, BlockFront
  <2> QED BY <2>1, <2>2, <2>3 DEF PopCalls, PopPcs
<1>6. \A c \in 1..Len(block) : ~Taken(c) /\ (Taken(c)' <=> c = b)
  BY <1>1, <1>3, <1>5 DEF Taken
<1>7. r \in Block /\ Shaped(r) /\ CopiesAreBehind(r) /\ Holds(r, TRUE, Filled(b))
  <2>1. Holds(block[b], FALSE, Filled(b))
    BY <1>2, <1>6, PopFacts DEF Holds
  <2>2. Filled(b) \in BOOLEAN /\ block[b] \in Block /\ Shaped(block[b]) /\ CopiesAreBehind(block[b])
    BY <1>2, PopFacts
  <2> QED BY <1>4, <2>1, <2>2, SoundTake
<1>8. Holds(r, Taken(b)', Filled(b))
  BY <1>6, <1>7 DEF Holds
<1>9. block' = [block EXCEPT ![b] = r]
  BY <1>3 DEF Take, BlockFront
<1>10. r.size = block[b].size /\ r.tail = block[b].tail /\ r.localFront = block[b].localFront
       /\ r.next = block[b].next /\ r.front = block[b].front /\ r.localTail = block[b].localTail
  BY <1>2, PopFacts DEF Block
<1>11. block \in Seq(Block)
  BY <1>2, PopFacts
<1>12. block' \in Seq(Block) /\ Len(block') = Len(block) /\ block'[b] = r
  BY <1>7, <1>9, <1>11, OneBlock
<1> HIDE DEF r
<1>13. BlocksSound' /\ RingOrder' /\ ProducerKnows' /\ Destroyed'
  BY <1>1, <1>2, <1>6, <1>7, <1>8, <1>9, <1>10, ConsumerWrites
<1>14. RingTypeOK'
  BY <1>1, <1>5, <1>12 DEF RingInv, RingTypeOK
<1>15. ConsumerKnows'
  BY <1>1, <1>3, <1>4, <1>5, <1>10, <1>12 DEF ConsumerKnows, BlockFront
<1> QED BY <1>13, <1>14, <1>15 DEF RingInv

\* Moving the front behind the slot that was emptied keeps it.
LEMMA ReleaseKeeps == ASSUME RingInv, Release PROVE RingInv'
<1>1. pop.pc = "release" /\ UNCHANGED <<frontBlock, tailBlock, largestBlockSize, push, sent, freed>>
      /\ pop' = Idle
  BY DEF Release, PopReturns
<1>2. freed = {}
  BY <1>1, NotDestroyed DEF RingInv
<1>3. PICK b \in 1..Len(block) : b = frontBlock
  BY <1>2, PopFacts
<1> DEFINE r == [block[b] EXCEPT !.front = (block[b].front + 1) % block[b].size]
<1>4. block[b].front # block[b].localTail
  BY <1>1, <1>3 DEF RingInv, ConsumerKnows, BlockFront
<1>6. \A c \in 1..Len(block) : (Taken(c) <=> c = b) /\ ~Taken(c)'
  BY <1>1, <1>3 DEF Taken, Idle
<1>7. r \in Block /\ Shaped(r) /\ CopiesAreBehind(r) /\ Holds(r, FALSE, Filled(b))
  <2>1. Holds(block[b], TRUE, Filled(b))
    BY <1>2, <1>6, PopFacts DEF Holds
  <2>2. Filled(b) \in BOOLEAN /\ block[b] \in Block /\ Shaped(block[b]) /\ CopiesAreBehind(block[b])
    BY <1>2, PopFacts
  <2> QED BY <1>4, <2>1, <2>2, SoundRelease
<1>8. Holds(r, Taken(b)', Filled(b))
  BY <1>6, <1>7 DEF Holds
<1>9. block' = [block EXCEPT ![b] = r]
  BY <1>3 DEF Release, BlockFront
<1>10. r.size = block[b].size /\ r.tail = block[b].tail /\ r.localFront = block[b].localFront
       /\ r.next = block[b].next
  BY <1>2, PopFacts DEF Block
<1>11. block \in Seq(Block)
  BY <1>2, PopFacts
<1>12. block' \in Seq(Block) /\ Len(block') = Len(block) /\ block'[b] = r
  BY <1>7, <1>9, <1>11, OneBlock
<1> HIDE DEF r
<1>13. BlocksSound' /\ RingOrder' /\ ProducerKnows' /\ Destroyed'
  BY <1>1, <1>2, <1>3, <1>6, <1>7, <1>8, <1>9, <1>10, ConsumerWrites
<1>14. RingTypeOK'
  BY <1>1, <1>12 DEF RingInv, RingTypeOK
<1>15. ConsumerKnows'
  BY <1>1 DEF ConsumerKnows, Idle
<1> QED BY <1>13, <1>14, <1>15 DEF RingInv

\* Making the next block the front block keeps it.
LEMMA AdvanceFrontKeeps == ASSUME RingInv, AdvanceFront PROVE RingInv'
<1>1. /\ pop.pc = "advanceFront"
      /\ UNCHANGED <<block, tailBlock, largestBlockSize, push, sent, freed>>
      /\ frontBlock' = pop.next
  BY DEF AdvanceFront
<1>2. freed = {}
  BY <1>1, NotDestroyed DEF RingInv
<1>3. pop' \in PopCalls /\ pop'.pc = "take"
  BY <1>1, PopMoves DEF AdvanceFront, RingInv, PopPcs
<1>4. /\ frontBlock # tailBlock /\ Empty(frontBlock) /\ frontBlock' = block[frontBlock].next
      /\ block[frontBlock'].front # block[frontBlock'].localTail
  BY <1>1 DEF RingInv, ConsumerKnows
<1>5. RingTypeOK'
  BY <1>1, <1>3 DEF RingInv, RingTypeOK
<1>6. BlocksSound'
  <2>1. \A c \in 1..Len(block) : (Taken(c)' <=> Taken(c)) /\ (Filled(c)' <=> Filled(c))
    BY <1>1, <1>3 DEF Taken, Filled, NextBlock
  <2> QED BY <1>1, <2>1, SoundSame DEF RingInv
<1>7. ProducerKnows'
  <2>1. frontBlock' # NextBlock
    BY <1>4, RingFacts DEF RingInv
  <2> QED BY <1>1, <2>1, ProducerStillKnows DEF RingInv
<1>8. ConsumerKnows'
  BY <1>1, <1>3, <1>4 DEF ConsumerKnows, BlockFront
<1>9. RingOrder'
  <2>1. PICK pos \in [Linked -> 0..RingLength - 1] : InOrder(pos) /\ Filling(pos)
    BY DEF RingOrder, RingInv
  <2>2. PICK m \in Nat : m = RingLength
    BY RingFacts DEF RingInv
  <2>3. frontBlock \in Linked /\ tailBlock \in Linked /\ block[frontBlock].next \in Linked
    BY RingFacts DEF RingInv
  <2>4. RingLength' = RingLength /\ Linked' = Linked
    BY <1>1 DEF RingLength, Linked
  <2>5. \A c \in Linked : pos[c] \in 0..m - 1
    BY <2>1, <2>2
  <2>6. pos[frontBlock] = 0 /\ pos[tailBlock] > 0 /\ m > 1
    BY <1>4, <2>1, <2>2, <2>3, <2>5 DEF InOrder
  <2>7. PICK L : L = Linked
    OBVIOUS
  <2>8. PICK q : q = [c \in L |-> IF pos[c] = 0 THEN m - 1 ELSE pos[c] - 1]
    OBVIOUS
  <2>9. q \in [Linked -> 0..RingLength - 1]
    BY <2>2, <2>5, <2>6, <2>7, <2>8
  <2>10. \A c \in Linked : q[c] = IF pos[c] = 0 THEN m - 1 ELSE pos[c] - 1
    BY <2>7, <2>8
  <2>11. InOrder(q)'
    <3>1. \A c, e \in Linked : q[c] = q[e] => c = e
      <4> SUFFICES ASSUME NEW c \in Linked, NEW e \in Linked, q[c] = q[e] PROVE c = e
        OBVIOUS
      <4>1. pos[c] = pos[e] => c = e
        BY <2>1 DEF InOrder
      <4> QED BY <2>2, <2>5, <2>6, <2>10, <4>1
    <3>2. q[block[frontBlock].next] = 0
      <4>1. pos[block[frontBlock].next] = 1
        BY <2>1, <2>2, <2>3, <2>6 DEF InOrder
      <4> QED BY <2>3, <2>10, <4>1
    <3>3. ASSUME NEW c \in Linked
          PROVE  /\ block[c].next \in Linked
                 /\ q[block[c].next] = IF q[c] = m - 1 THEN 0 ELSE q[c] + 1
      <4>1. block[c].next \in Linked /\ pos[block[c].next] = IF pos[c] = m - 1 THEN 0 ELSE pos[c] + 1
        BY <2>1, <2>2 DEF InOrder
      <4>2. q[c] = (IF pos[c] = 0 THEN m - 1 ELSE pos[c] - 1)
            /\ q[block[c].next] = (IF pos[block[c].next] = 0 THEN m - 1 ELSE pos[block[c].next] - 1)
        BY <2>10, <4>1
      <4> QED BY <2>5, <2>6, <4>1, <4>2
    <3> QED BY <1>1, <1>4, <2>2, <2>4, <2>9, <3>1, <3>2, <3>3 DEF InOrder
  <2>12. Filling(q)'
    <3>1. \A c \in Linked : Empty(c)' <=> Empty(c)
      BY <1>1 DEF Empty
    <3>2. q[tailBlock] = pos[tailBlock] - 1
      BY <2>3, <2>6, <2>10
    <3>3. ASSUME NEW c \in Linked
          PROVE  /\ 0 < q[c] /\ q[c] <= q[tailBlock] => ~Empty(c)
                 /\ q[c] > q[tailBlock] => (Empty(c) <=> ~(push.pc = "advanceTail" /\ c = NextBlock))
      <4>1. /\ 0 < pos[c] /\ pos[c] <= pos[tailBlock] => ~Empty(c)
            /\ pos[c] > pos[tailBlock] => (Empty(c) <=> ~(push.pc = "advanceTail" /\ c = NextBlock))
        BY <2>1 DEF Filling
      <4>2. pos[c] = 0 => c = frontBlock
        BY <2>1, <2>3, <2>6 DEF InOrder
      <4>3. ~(push.pc = "advanceTail" /\ frontBlock = NextBlock)
        BY DEF RingInv, ProducerKnows
      <4>4. pos[c] \in 0..m - 1 /\ pos[tailBlock] \in 0..m - 1
            /\ q[c] = IF pos[c] = 0 THEN m - 1 ELSE pos[c] - 1
        BY <2>3, <2>5, <2>10
      <4> QED BY <1>4, <2>2, <2>6, <3>2, <4>1, <4>2, <4>3, <4>4
    <3>4. NextBlock' = NextBlock
      BY <1>1 DEF NextBlock
    <3> QED BY <1>1, <2>4, <3>1, <3>3, <3>4 DEF Filling
  <2> QED BY <1>1, <1>4, <2>3, <2>4, <2>9, <2>11, <2>12 DEF RingOrder
<1> QED BY <1>1, <1>2, <1>5, <1>6, <1>7, <1>8, <1>9 DEF RingInv, Destroyed

-----------------------------------------------------------------------------
(* Induction and recursion *)

\* Induction over the naturals, for a set rather than a predicate.
LEMMA LessThan == \A x, y \in Nat : <<y, x>> \in OpToRel(<, Nat) <=> y < x
BY DEF OpToRel
\* A least element by a relation is a least element by order, when the relation
\* is the order.
LEMMA LeastBy == 
  ASSUME NEW R, \A x, y \in Nat : <<y, x>> \in R <=> y < x,
         NEW T, T \subseteq Nat, \E x \in T : \A y \in T : ~ (<<y, x>> \in R)
  PROVE \E x \in T : \A y \in T : x <= y
<1>1. PICK x \in T : \A y \in T : ~ (<<y, x>> \in R)
  OBVIOUS
<1>2. ASSUME NEW y \in T PROVE x <= y
  <2>1. ~ (y < x)
    BY <1>1, Zenon
  <2> QED BY <2>1
<1> QED BY <1>2
\* A set of naturals that is not empty has a least element.
LEMMA LeastOf == ASSUME NEW T, T \subseteq Nat, T # {} PROVE \E x \in T : \A y \in T : x <= y
<1> DEFINE R == OpToRel(<,Nat)
<1>1. \E x \in T : \A y \in T : ~ (<<y, x>> \in R)
  BY WFMin, NatLessThanWellFounded
<1>2. \A x, y \in Nat : <<y, x>> \in R <=> y < x
  BY LessThan
<1> HIDE DEF R
<1> QED BY <1>1, <1>2, LeastBy
\* Induction over the naturals, for a set in the place of a predicate.
LEMMA Induction == ASSUME NEW S, S \subseteq Nat, 0 \in S, \A n \in S : n + 1 \in S PROVE S = Nat
<1> SUFFICES ASSUME Nat \ S # {} PROVE FALSE
  OBVIOUS
<1>1. PICK m \in Nat \ S : \A y \in Nat \ S : m <= y
  BY LeastOf
<1>2. m - 1 \in Nat /\ m - 1 \notin Nat \ S
  BY <1>1
<1> QED BY <1>1, <1>2

\* Up to n, what f gives is fixed.
Steps(X, x0, g, n) == {f \in [0..n -> X] : f[0] = x0 /\ \A i \in 0..n - 1 : f[i + 1] = g[f[i]]}

\* What n + 1 steps of g lead to exists and is unique, and so a function that
\* takes one step of g after another.
LEMMA StepsGoOn ==
  ASSUME NEW X, NEW x0 \in X, NEW g \in [X -> X], NEW n \in Nat, Steps(X, x0, g, n) # {}
  PROVE Steps(X, x0, g, n + 1) # {}
<1>1. PICK f \in Steps(X, x0, g, n) : TRUE
  OBVIOUS
<1> DEFINE h == [i \in 0..(n+1) |-> IF i = n + 1 THEN g[f[n]] ELSE f[i]]
<1>2. f \in [0..n -> X] /\ f[0] = x0 /\ \A i \in 0..n - 1 : f[i + 1] = g[f[i]]
  BY <1>1 DEF Steps
<1>3. h \in [0..n+1 -> X]
  BY <1>2
<1>4. h[0] = x0
  BY <1>2
<1>5. ASSUME NEW i \in 0..(n + 1) - 1 PROVE h[i + 1] = g[h[i]]
  BY <1>2
<1> HIDE DEF h
<1> QED BY <1>3, <1>4, <1>5 DEF Steps

\* Two functions that go on from the same value by the same step agree.
LEMMA StepsAgree ==
  ASSUME NEW X, NEW x0 \in X, NEW g \in [X -> X], NEW n \in Nat, NEW f \in Steps(X, x0, g, n),
         NEW m \in Nat, NEW h \in Steps(X, x0, g, m), NEW i \in Nat, i <= n, i <= m
  PROVE f[i] = h[i]
<1> DEFINE E == {j \in Nat : j <= n /\ j <= m => f[j] = h[j]}
<1>1. 0 \in E 
  BY DEF Steps
<1>2. ASSUME NEW j \in E PROVE j + 1 \in E 
  <2> SUFFICES ASSUME j + 1 <= n, j + 1 <= m PROVE f[j + 1] = h[j + 1]
    OBVIOUS
  <2>1. f[j] = h[j] /\ j \in 0..n - 1 /\ j \in 0..m - 1
    OBVIOUS
  <2> QED BY <2>1 DEF Steps
<1>3. E = Nat 
  <2>1. E \subseteq Nat OBVIOUS
  <2> HIDE DEF E
  <2> QED BY <1>1, <1>2, <2>1, Induction
<1>4. i \in E
  BY <1>3
<1> QED BY <1>4

\* A function on the naturals may be defined by its first value and its step.
LEMMA Recursion == ASSUME NEW X, NEW x0 \in X, NEW g \in [X -> X]
             PROVE \E f \in [Nat -> X] : f[0] = x0 /\ \A n \in Nat : f[n+1] = g[f[n]]
<1> DEFINE S == {n \in Nat : Steps(X, x0, g, n) # {}}
<1>1. 0 \in S
  <2>1. [i \in 0..0 |-> x0] \in Steps(X, x0, g, 0)
    BY DEF Steps
  <2> QED BY <2>1
<1>2. ASSUME NEW n \in S PROVE n + 1 \in S
  BY StepsGoOn
<1>3. S = Nat
  <2>1. S \subseteq Nat OBVIOUS
  <2> HIDE DEF S
  <2> QED BY <1>1, <1>2, <2>1, Induction
<1> DEFINE F(n) == CHOOSE f \in Steps(X, x0, g, n) : TRUE
           ff == [n \in Nat |-> F(n)[n]]
<1>5. ASSUME NEW n \in Nat PROVE F(n) \in Steps(X, x0, g, n)
  BY <1>3
<1> HIDE DEF S, F
<1>6. ff[0] = x0
  BY <1>5 DEF Steps
<1>7. ASSUME NEW n \in Nat PROVE ff[n+1] = g[ff[n]]
    <3>1. F(n+1)[n+1] = g[F(n+1)[n]]
      <4>1. F(n + 1) \in Steps(X, x0, g, n + 1)
        BY <1>5
      <4>2. n \in 0..(n + 1) - 1
        OBVIOUS
      <4> QED BY <4>1, <4>2 DEF Steps
    <3>2. F(n+1)[n] = F(n)[n]
      <4>1. F(n + 1) \in Steps(X, x0, g, n + 1) /\ F(n) \in Steps(X, x0, g, n)
        BY <1>5
      <4> QED BY <4>1, StepsAgree
    <3>3. n + 1 \in Nat OBVIOUS
    <3> QED BY <3>1, <3>2, <3>3
<1>8. ff \in [Nat -> X]
  <2> SUFFICES ASSUME NEW n \in Nat PROVE F(n)[n] \in X
    OBVIOUS
  <2> QED BY <1>5 DEF Steps
<1> HIDE DEF ff
<1> QED BY <1>6, <1>7, <1>8

-----------------------------------------------------------------------------
(* Construction and destruction *)

\* The constructor finds its power of two,
LEMMA CeilToPow2IsSize ==
    ASSUME NEW n \in Nat, 2 <= n, n <= 1024
    PROVE  CeilToPow2(n) \in Nat \ {0, 1} /\ CeilToPow2(n) >= n
<1>1. /\ 2^0 = 1 /\ 2^1 = 2 /\ 2^2 = 4 /\ 2^3 = 8 /\ 2^4 = 16 /\ 2^5 = 32 /\ 2^6 = 64
      /\ 2^7 = 128 /\ 2^8 = 256 /\ 2^9 = 512 /\ 2^10 = 1024
  OBVIOUS
<1>2. \E p \in {2^k : k \in 0..10} : p >= n /\ p < 2 * n
  <2>1. {1, 2, 4, 8, 16, 32, 64, 128, 256, 512, 1024} \subseteq {2^k : k \in 0..10}
    BY <1>1
  <2>2. PICK p \in {1, 2, 4, 8, 16, 32, 64, 128, 256, 512, 1024} : p >= n /\ p < 2 * n
    OBVIOUS
  <2> DEFINE Powers == {2^k : k \in 0..10}
  <2>3. p \in Powers /\ p >= n /\ p < 2 * n
    BY <2>1, <2>2
  <2> HIDE DEF Powers
  <2>4. \E q \in Powers : q >= n /\ q < 2 * n
    BY <2>3
  <2> QED BY <2>4 DEF Powers
<1>3. CeilToPow2(n) \in {2^k : k \in 0..10} /\ CeilToPow2(n) >= n
  BY <1>2 DEF CeilToPow2
<1>4. CeilToPow2(n) \in {1, 2, 4, 8, 16, 32, 64, 128, 256, 512, 1024}
  BY <1>3
<1> QED BY <1>3, <1>4

\* ... and makes at least one block.
LEMMA BlocksMade ==
    ASSUME NEW size \in Sizes
    PROVE  Blocks(size).count \in Nat \ {0} /\ Blocks(size).size \in Nat \ {0, 1}
<1>1. size \in Nat \ {0}
  BY SizesAssumption
<1>2. MaxBlockSize \in {2, 4, 8, 16, 32, 64, 128, 256, 512}
  BY MaxBlockSizeAssumption
<1>3. CASE size + 1 > 2 * MaxBlockSize
  <2> DEFINE a == size + 2 * MaxBlockSize - 3
             c == MaxBlockSize - 1
  <2>1. a \in Nat /\ c \in Nat /\ c > 0 /\ a >= c
    BY <1>1, <1>2, <1>3
  <2>2. a \div c \in Nat \ {0}
    BY <1>1, <1>2, <1>3
  <2>3. Blocks(size) = [count |-> a \div c, size |-> MaxBlockSize]
    BY <1>3 DEF Blocks
  <2> QED BY <1>2, <2>2, <2>3
<1>4. CASE ~(size + 1 > 2 * MaxBlockSize)
  <2>1. Blocks(size) = [count |-> 1, size |-> CeilToPow2(size + 1)]
    BY <1>4 DEF Blocks
  <2>2. size + 1 \in Nat /\ 2 <= size + 1 /\ size + 1 <= 1024
    BY <1>1, <1>2, <1>4
  <2> QED BY <2>1, <2>2, CeilToPow2IsSize
<1> QED BY <1>3, <1>4

\* A block as the constructor links it.
Unused(n, nx) == [MakeBlock(n) EXCEPT !.next = nx]

\* A block without an element.
LEMMA EmptyBlock ==
    ASSUME NEW n \in Nat \ {0, 1}, NEW nx \in Nat
    PROVE  /\ Unused(n, nx) \in Block /\ Shaped(Unused(n, nx)) /\ CopiesAreBehind(Unused(n, nx))
           /\ Holds(Unused(n, nx), FALSE, FALSE)
           /\ Unused(n, nx).next = nx /\ Unused(n, nx).front = 0 /\ Unused(n, nx).tail = 0
<1> DEFINE d == [i \in 0..n - 1 |-> Raw]
           r == [size |-> n, front |-> 0, localTail |-> 0, tail |-> 0, localFront |-> 0,
                 next |-> nx, data |-> d]
<1>1. Unused(n, nx) = r
  BY DEF MakeBlock, Unused
<1>2. d \in [0..n - 1 -> Elements]
  BY DEF Elements
<1>3. r \in Block /\ Shaped(r)
  BY <1>2 DEF Block, Shaped
<1>4. CopiesAreBehind(r)
  BY DEF CopiesAreBehind, Gap
<1>5. Holds(r, FALSE, FALSE)
  BY DEF Holds, Gap
<1>6. r.next = nx /\ r.front = 0 /\ r.tail = 0
  OBVIOUS
<1> HIDE DEF r
<1> QED BY <1>1, <1>3, <1>4, <1>5, <1>6

\* The constructor links its blocks in the order of their numbers.
LEMMA InitRingInv == RingInit => RingInv
<1> SUFFICES ASSUME RingInit PROVE RingInv
  OBVIOUS
<1>1. PICK n \in Nat \ {0}, size \in Nat \ {0, 1} : n = Blocks(requested).count /\ size = Blocks(requested).size
  BY BlocksMade DEF RingInit
<1> DEFINE r(b) == Unused(size, (b % n) + 1)
<1>2. block = [b \in 1..n |-> r(b)] /\ largestBlockSize = size
  BY <1>1 DEF RingInit, Unused
<1>3. \A b \in 1..n : b % n = IF b = n THEN 0 ELSE b
  BY <1>1
<1>4. \A b \in 1..n : (b % n) + 1 \in 1..n
  BY <1>3
<1>5. \A b \in 1..n : /\ r(b) \in Block /\ Shaped(r(b)) /\ CopiesAreBehind(r(b))
                      /\ Holds(r(b), FALSE, FALSE)
                      /\ r(b).next = (b % n) + 1 /\ r(b).front = 0 /\ r(b).tail = 0
  <2> TAKE b \in 1..n
  <2>1. (b % n) + 1 \in Nat
    BY <1>4
  <2> QED BY <2>1, EmptyBlock
<1> HIDE DEF r
<1>6. block \in Seq(Block) /\ Len(block) = n
  <2>1. block \in [1..n -> Block]
    BY <1>2, <1>5
  <2> QED BY <1>1, <2>1
<1>7. /\ frontBlock = 1 /\ tailBlock = 1 /\ push = Idle /\ pop = Idle /\ sent = 0 /\ freed = {}
  BY DEF RingInit
<1>8. RingTypeOK
  BY <1>1, <1>2, <1>6, <1>7 DEF RingTypeOK
<1>9. BlocksSound
  <2>1. \A b \in 1..n : ~Taken(b) /\ ~Filled(b)
    BY <1>7 DEF Taken, Filled, Idle
  <2> QED BY <1>2, <1>5, <1>6, <2>1 DEF BlocksSound, Holds
<1>10. RingLength = n /\ Linked = 1..n
  BY <1>6, <1>7 DEF RingLength, Linked, Idle
<1>11. RingOrder
  <2> DEFINE pos == [b \in 1..n |-> b - 1]
  <2>1. pos \in [Linked -> 0..RingLength - 1]
    BY <1>1, <1>10
  <2>2. InOrder(pos)
    <3>1. \A b \in 1..n : block[b].next = (b % n) + 1
      BY <1>2, <1>5
    <3>2. ASSUME NEW b \in 1..n
          PROVE  block[b].next \in 1..n /\ pos[block[b].next] = IF pos[b] = n - 1 THEN 0 ELSE pos[b] + 1
      <4>1. block[b].next = IF b = n THEN 1 ELSE b + 1
        BY <1>1, <1>3, <3>1
      <4> QED BY <1>1, <4>1
    <3>3. \A b, c \in 1..n : pos[b] = pos[c] => b = c
      BY <1>1
    <3>4. pos[frontBlock] = 0
      BY <1>1, <1>7
    <3> HIDE DEF pos
    <3> QED BY <1>10, <2>1, <3>2, <3>3, <3>4 DEF InOrder
  <2>3. Filling(pos)
    <3>1. \A b \in 1..n : Empty(b)
      BY <1>2, <1>5 DEF Empty
    <3>2. pos[tailBlock] = 0
      BY <1>1, <1>7
    <3>3. \A b \in 1..n : ~(0 < pos[b] /\ pos[b] <= pos[tailBlock])
      BY <1>1, <3>2
    <3> HIDE DEF pos
    <3> QED BY <1>7, <1>10, <3>1, <3>3 DEF Filling, Idle
  <2> HIDE DEF pos
  <2> QED BY <1>1, <1>7, <1>10, <2>1, <2>2, <2>3 DEF RingOrder
<1>12. ProducerKnows /\ ConsumerKnows /\ Destroyed
  BY <1>7 DEF ProducerKnows, ConsumerKnows, Destroyed, Idle
<1> QED BY <1>8, <1>9, <1>11, <1>12 DEF RingInv

\* The blocks as the destructor comes to them.
LEMMA AheadStepsOn ==
    ASSUME RingTypeOK, RingOrder, ProducerKnows
    PROVE  /\ Ahead[0] = frontBlock
           /\ \A n \in Nat : Ahead[n] \in Linked /\ Ahead[n + 1] = block[Ahead[n]].next
<1>1. frontBlock \in Linked /\ \A b \in Linked : block[b].next \in Linked
  BY RingFacts
<1>2. PICK X, x0, g : X = Linked /\ x0 = frontBlock /\ g = [b \in Linked |-> block[b].next]
  OBVIOUS
<1>3. PICK f \in [Nat -> X] : f[0] = x0 /\ \A n \in Nat : f[n + 1] = g[f[n]]
  <2>1. x0 \in X /\ g \in [X -> X]
    BY <1>1, <1>2
  <2> QED BY <2>1, Recursion
<1> DEFINE Step(h) == [n \in Nat |-> IF n = 0 THEN frontBlock ELSE block[h[n - 1]].next]
<1>4. f = Step(f)
  <2>1. ASSUME NEW n \in Nat PROVE f[n] = IF n = 0 THEN frontBlock ELSE block[f[n - 1]].next
    <3>1. CASE n = 0
      BY <1>2, <1>3, <3>1
    <3>2. CASE n # 0
      <4>1. n - 1 \in Nat /\ (n - 1) + 1 = n
        BY <3>2
      <4>2. f[n] = g[f[n - 1]] /\ f[n - 1] \in Linked
        BY <1>2, <1>3, <4>1
      <4> QED BY <1>2, <3>2, <4>2
    <3> QED BY <3>1, <3>2
  <2> QED BY <1>3, <2>1
<1>5. Ahead = CHOOSE h : h = Step(h)
  BY DEF Ahead
<1>6. Ahead = Step(Ahead)
  BY <1>4, <1>5
<1>7. Ahead[0] = frontBlock /\ \A n \in Nat : Ahead[n + 1] = block[Ahead[n]].next
  <2> HIDE DEF Ahead
  <2>1. \A n \in Nat : Ahead[n] = IF n = 0 THEN frontBlock ELSE block[Ahead[n - 1]].next
    BY <1>6
  <2> QED BY <2>1
<1>8. \A n \in Nat : Ahead[n] \in Linked
  <2> DEFINE S == {n \in Nat : Ahead[n] \in Linked}
  <2>1. 0 \in S
    BY <1>1, <1>7
  <2>2. \A n \in S : n + 1 \in S
    BY <1>1, <1>7
  <2>3. S \subseteq Nat
    OBVIOUS
  <2> HIDE DEF S
  <2>4. S = Nat
    BY <2>1, <2>2, <2>3, Induction
  <2> QED BY <2>4 DEF S
<1> QED BY <1>7, <1>8

\* ... which is each of them.
LEMMA RingIsWhole ==
    ASSUME RingTypeOK, RingOrder, ProducerKnows, push.pc # "link"
    PROVE  InRing = 1..Len(block)
<1>1. /\ Ahead[0] = frontBlock
      /\ \A n \in Nat : Ahead[n] \in Linked /\ Ahead[n + 1] = block[Ahead[n]].next
  BY AheadStepsOn
<1>2. PICK pos \in [Linked -> 0..RingLength - 1] : InOrder(pos) /\ Filling(pos)
  BY DEF RingOrder
<1>3. RingLength = Len(block) /\ Linked = 1..Len(block) /\ RingLength \in Nat
  BY DEF RingLength, Linked, RingTypeOK
<1> HIDE DEF Ahead
<1> DEFINE S == {n \in Nat : n < RingLength => pos[Ahead[n]] = n}
<1>4. 0 \in S
  BY <1>1, <1>2 DEF InOrder
<1>5. ASSUME NEW n \in S PROVE n + 1 \in S
  <2> SUFFICES ASSUME n + 1 < RingLength PROVE pos[Ahead[n + 1]] = n + 1
    OBVIOUS
  <2>1. n \in Nat /\ pos[Ahead[n]] = n /\ Ahead[n] \in Linked
    <3>1. n \in Nat /\ (n < RingLength => pos[Ahead[n]] = n)
      OBVIOUS
    <3>2. n < RingLength
      BY <1>3, <3>1
    <3> QED BY <1>1, <3>1, <3>2
  <2>2. PICK b \in Linked : b = Ahead[n]
    BY <2>1
  <2>3. pos[block[b].next] = n + 1
    <3>1. pos[b] = n /\ n # RingLength - 1
      BY <1>3, <2>1, <2>2
    <3> QED BY <1>2, <3>1 DEF InOrder
  <2>4. Ahead[n + 1] = block[b].next
    BY <1>1, <2>1, <2>2
  <2> QED BY <2>3, <2>4
<1>6. S = Nat
  <2>1. S \subseteq Nat
    OBVIOUS
  <2> HIDE DEF S
  <2> QED BY <1>4, <1>5, <2>1, Induction
<1>7. ASSUME NEW b \in Linked PROVE \E n \in 0..Len(block) - 1 : Ahead[n] = b
  <2>1. pos[b] \in Nat /\ pos[b] < RingLength
    BY <1>2, <1>3
  <2>2. pos[b] \in S
    BY <1>6, <2>1
  <2>3. pos[Ahead[pos[b]]] = pos[b] /\ Ahead[pos[b]] \in Linked
    BY <1>1, <2>1, <2>2
  <2>4. Ahead[pos[b]] = b
    BY <1>2, <2>3 DEF InOrder
  <2> QED BY <1>3, <2>1, <2>4
<1>8. \A n \in 0..Len(block) - 1 : Ahead[n] \in Linked
  BY <1>1
<1> QED BY <1>3, <1>7, <1>8 DEF InRing

\* The slots between front and tail, counted with the remainder as the code does.
LEMMA LiveSlots ==
    ASSUME NEW b, block[b] \in Block, Shaped(block[b])
    PROVE  /\ Live(b) \subseteq 0..block[b].size - 1
           /\ \A i \in 0..block[b].size - 1 :
                i \in Live(b) <=> Gap(block[b].size, block[b].front, i)
                                      < Gap(block[b].size, block[b].front, block[b].tail)
<1>1. PICK n \in Nat, f \in Nat, t \in Nat : /\ n = block[b].size /\ f = block[b].front /\ t = block[b].tail
                                             /\ n >= 2 /\ f < n /\ t < n
  BY DEF Block, Shaped
<1>2. Count(b) = Gap(n, f, t)
  <2>1. PICK x \in Nat : x = t + n - f /\ x < 2 * n
    BY <1>1
  <2>2. x % n = IF x < n THEN x ELSE x - n
    BY <1>1, <2>1, SlotsAhead
  <2>3. Count(b) = x % n
    BY <1>1, <2>1 DEF Count
  <2> QED BY <1>1, <2>1, <2>2, <2>3 DEF Gap
<1>3. Gap(n, f, t) \in Nat /\ Gap(n, f, t) < n
  BY <1>1 DEF Gap
<1>4. \A k \in 0..n - 1 : (f + k) % n = (IF f + k < n THEN f + k ELSE f + k - n)
  <2> TAKE k \in 0..n - 1
  <2>0. k \in Nat /\ k < n
    BY <1>1
  <2>a. f + k \in Nat /\ f + k < 2 * n
    BY <1>1, <2>0
  <2>1. PICK x \in Nat : x = f + k /\ x < 2 * n
    BY <2>a
  <2>2. x % n = IF x < n THEN x ELSE x - n
    BY <1>1, <2>1, SlotsAhead
  <2> QED BY <2>1, <2>2
<1>5. Live(b) = {(f + k) % n : k \in 0..Gap(n, f, t) - 1}
  BY <1>1, <1>2 DEF Live
<1>6. ASSUME NEW i \in Live(b) PROVE i \in 0..n - 1 /\ Gap(n, f, i) < Gap(n, f, t)
  <2>1. PICK k \in 0..Gap(n, f, t) - 1 : i = (f + k) % n
    BY <1>5
  <2>2. k \in 0..n - 1
    BY <1>3
  <2>3. i = (IF f + k < n THEN f + k ELSE f + k - n)
    BY <1>4, <2>1, <2>2
  <2>4. Gap(n, f, i) = k /\ i \in 0..n - 1
    BY <1>1, <2>2, <2>3 DEF Gap
  <2> QED BY <1>3, <2>4
<1>7. ASSUME NEW i \in 0..n - 1, Gap(n, f, i) < Gap(n, f, t) PROVE i \in Live(b)
  <2>1. Gap(n, f, i) \in 0..Gap(n, f, t) - 1 /\ Gap(n, f, i) \in 0..n - 1
    BY <1>1, <1>3, <1>7 DEF Gap
  <2>2. (f + Gap(n, f, i)) % n = (IF f + Gap(n, f, i) < n THEN f + Gap(n, f, i) ELSE f + Gap(n, f, i) - n)
    BY <1>4, <2>1
  <2>3. (IF f + Gap(n, f, i) < n THEN f + Gap(n, f, i) ELSE f + Gap(n, f, i) - n) = i
    <3>1. CASE f <= i
      <4>1. Gap(n, f, i) = i - f
        BY <3>1 DEF Gap
      <4> QED BY <1>1, <3>1, <4>1
    <3>2. CASE ~(f <= i)
      <4>1. Gap(n, f, i) = i + n - f
        BY <3>2 DEF Gap
      <4> QED BY <1>1, <3>2, <4>1
    <3> QED BY <3>1, <3>2
  <2> QED BY <1>5, <2>1, <2>2, <2>3
<1> QED BY <1>1, <1>6, <1>7

\* The destructor finds every element and every block.
LEMMA DestroyKeeps == ASSUME RingInv, Destroy PROVE RingInv'
<1>1. /\ push = Idle /\ pop = Idle /\ freed = {} /\ freed' = InRing
      /\ UNCHANGED <<frontBlock, tailBlock, largestBlockSize, push, pop, sent>>
  BY DEF Destroy
<1>2. InRing = 1..Len(block)
  BY <1>1, RingIsWhole DEF RingInv, Idle
<1>3. block \in Seq(Block) /\ Len(block) \in Nat
  BY DEF RingInv, RingTypeOK
<1>4. \A b \in 1..Len(block) : /\ block[b] \in Block /\ Shaped(block[b]) /\ CopiesAreBehind(block[b])
                               /\ Holds(block[b], FALSE, FALSE)
  <2>1. \A b \in 1..Len(block) : ~Taken(b) /\ ~Filled(b)
    BY <1>1 DEF Taken, Filled, Idle
  <2> QED BY <1>1, <1>3, <2>1 DEF RingInv, BlocksSound, Holds
<1> DEFINE d(b) == [i \in DOMAIN block[b].data |-> IF b \in InRing /\ i \in Live(b) THEN Raw ELSE block[b].data[i]]
           r(b) == [block[b] EXCEPT !.data = d(b)]
<1>5. block' = [b \in 1..Len(block) |-> r(b)]
  BY DEF Destroy
<1>6. ASSUME NEW b \in 1..Len(block)
      PROVE  /\ d(b) \in [0..block[b].size - 1 -> Elements]
             /\ \A i \in 0..block[b].size - 1 : d(b)[i] = Raw
  <2>1. DOMAIN block[b].data = 0..block[b].size - 1
    BY <1>4 DEF Shaped
  <2>2. ASSUME NEW i \in 0..block[b].size - 1 PROVE d(b)[i] = Raw
    <3>1. i \in Live(b) \/ block[b].data[i] = Raw
      BY <1>4, LiveSlots DEF Holds
    <3> QED BY <1>2, <2>1, <3>1
  <2> QED BY <2>1, <2>2 DEF Elements
<1>7. ASSUME NEW b \in 1..Len(block)
      PROVE  /\ r(b) \in Block /\ r(b).size = block[b].size /\ r(b).front = block[b].front
             /\ r(b).tail = block[b].tail /\ r(b).localFront = block[b].localFront
             /\ r(b).localTail = block[b].localTail /\ r(b).next = block[b].next /\ r(b).data = d(b)
  <2> HIDE DEF d
  <2>1. block[b] \in Block /\ block[b].size \in Nat
    BY <1>4 DEF Block
  <2>2. d(b) \in UNION {[0..n - 1 -> Elements] : n \in Nat}
    BY <1>6, <2>1
  <2> QED BY <2>1, <2>2 DEF Block
<1> HIDE DEF r, d
<1>8. block' \in Seq(Block) /\ Len(block') = Len(block) /\ \A b \in 1..Len(block) : block'[b] = r(b)
  BY <1>3, <1>5, <1>7
<1>9. RingTypeOK'
  BY <1>1, <1>8 DEF RingInv, RingTypeOK
<1>10. freed' # {}
  <2>1. frontBlock \in 1..Len(block)
    BY RingFacts DEF RingInv
  <2> QED BY <1>1, <1>2, <2>1
<1>11. BlocksSound'
  <2>1. ASSUME NEW b \in 1..Len(block) PROVE Shaped(block'[b]) /\ CopiesAreBehind(block'[b])
    <3>1. Shaped(block[b]) /\ CopiesAreBehind(block[b]) /\ block'[b] = r(b)
      BY <1>4, <1>8
    <3>2. Shaped(r(b))
      BY <1>6, <1>7, <3>1 DEF Shaped
    <3>3. CopiesAreBehind(r(b))
      BY <1>7, <3>1 DEF CopiesAreBehind
    <3> QED BY <3>1, <3>2, <3>3
  <2> QED BY <1>8, <1>10, <2>1 DEF BlocksSound
<1>12. RingOrder'
  <2>1. Linked \subseteq 1..Len(block)
    BY RingFacts DEF RingInv
  <2>2. RingLength' = RingLength
    BY <1>1, <1>8 DEF RingLength
  <2>3. \A b \in Linked : block'[b].next = block[b].next /\ (Empty(b)' <=> Empty(b))
    BY <1>7, <1>8, <2>1 DEF Empty
  <2> QED BY <1>1, <2>2, <2>3, OrderKept DEF RingInv
<1>13. ProducerKnows' /\ ConsumerKnows'
  BY <1>1 DEF ProducerKnows, ConsumerKnows, Idle
<1>14. Destroyed'
  BY <1>1, <1>2, <1>6, <1>7, <1>8 DEF Destroyed
<1> QED BY <1>9, <1>11, <1>12, <1>13, <1>14 DEF RingInv

-----------------------------------------------------------------------------
(* The theorems about the ring *)

\* The semaphore and the calls that wait for it leave the ring alone.
LEMMA RingLeftAlone ==
    ASSUME RingInv,
           UNCHANGED <<block, frontBlock, tailBlock, largestBlockSize, push, pop, sent, freed>>
    PROVE  RingInv'
<1>1. Len(block') = Len(block) /\ RingLength' = RingLength /\ Linked' = Linked
  BY DEF RingLength, Linked
<1>2. RingTypeOK'
  BY DEF RingInv, RingTypeOK
<1>3. BlocksSound'
  BY SoundSame DEF RingInv, Taken, Filled, NextBlock
<1>4. RingOrder'
  BY <1>1, OrderKept DEF RingInv, Empty
<1>5. ProducerKnows' /\ ConsumerKnows'
  BY <1>1 DEF RingInv, ProducerKnows, ConsumerKnows, NextTail, NextBlock, Empty, BlockFront
<1>6. Destroyed'
  BY DEF RingInv, Destroyed
<1> QED BY <1>2, <1>3, <1>4, <1>5, <1>6 DEF RingInv

\* The producer's part of the queue keeps the ring invariant,
LEMMA ProducerKeepsRing == ASSUME RingInv, ProducerStep PROVE RingInv'
<1>1. ASSUME PushStep PROVE RingInv'
  BY <1>1, ReloadFrontKeeps, ConstructKeeps, FindKeeps, UseNextKeeps, ConstructNextKeeps,
     PublishNextKeeps, AllocateKeeps, LinkKeeps DEF PushStep
<1>2. ASSUME PushAccepted PROVE RingInv'
  BY <1>2, PublishKeeps, AdvanceTailKeeps DEF PushAccepted
<1>3. ASSUME UNCHANGED ringVars PROVE RingInv'
  BY <1>3, RingLeftAlone DEF ringVars
<1> QED BY <1>1, <1>2, <1>3 DEF ProducerStep, EnqueueSucceeds

\* ... and so does the consumer's,
LEMMA ConsumerKeepsRing == ASSUME RingInv, ConsumerStep PROVE RingInv'
<1>1. ASSUME PopStep PROVE RingInv'
  <2>1. ASSUME ReloadTail PROVE RingInv'
    BY <2>1, LoadTailKeeps DEF ReloadTail
  <2>2. ASSUME Recheck PROVE RingInv'
    BY <2>2, LoadTailKeeps DEF Recheck
  <2> QED BY <1>1, <2>1, <2>2, LookKeeps, EnterNextKeeps, AdvanceFrontKeeps, TakeKeeps, ReleaseKeeps
          DEF PopStep
<1>2. ASSUME UNCHANGED ringVars PROVE RingInv'
  BY <1>2, RingLeftAlone DEF ringVars
<1>3. ASSUME TakeElement PROVE RingInv'
  BY <1>3, CallPopKeeps DEF TakeElement
<1>4. ASSUME GoWithout PROVE RingInv'
  BY <1>4, RingLeftAlone DEF GoWithout
<1> QED BY <1>1, <1>2, <1>3, <1>4 DEF ConsumerStep, RingAnswers

\* ... and each step of the queue.
LEMMA NextKeepsRing == ASSUME RingInv, [Next]_vars PROVE RingInv'
<1>1. ASSUME NEW canAlloc \in BOOLEAN, Enqueue(canAlloc) PROVE RingInv'
  BY <1>1, CallPushKeeps DEF Enqueue
<1>2. ASSUME NEW op \in {"pop", "peek"}, AskRing(op) PROVE RingInv'
  BY <1>2, CallPopKeeps DEF AskRing
<1>3. ASSUME NEW timeout \in Timeouts, AskPermit(timeout) PROVE RingInv'
  BY <1>3, RingLeftAlone DEF AskPermit, ringVars
<1>4. ASSUME DestroyQueue PROVE RingInv'
  BY <1>4, DestroyKeeps DEF DestroyQueue
<1>5. ASSUME UNCHANGED vars PROVE RingInv'
  BY <1>5, RingLeftAlone DEF vars, ringVars
<1> QED BY <1>1, <1>2, <1>3, <1>4, <1>5, ProducerKeepsRing, ConsumerKeepsRing DEF Next

\* The ring is a ring, a block's slots between front and tail are those with an
\* element, and each side is right in what it relies on, wherever the other one
\* is (readerwriterqueue.h:264-470, 548-640).
THEOREM RingInvariant == Spec => []RingInv
<1>1. Init => RingInv
  BY InitRingInv DEF Init
<1>2. RingInv /\ [Next]_vars => RingInv'
  BY NextKeepsRing
<1> QED BY <1>1, <1>2, PTL DEF Spec

\* The assertions of the code never fail: the block the producer moves on to is
\* empty, and the one the consumer moves on to is not (readerwriterqueue.h:582,
\* 337, 408).
THEOREM AssertionsAlwaysHold == Spec => []AssertionsHold
<1>1. ASSUME RingInv PROVE AssertionsHold
  <2>1. ASSUME push.pc = "useNext" PROVE Empty(NextBlock)
    BY <1>1, <2>1, RingFacts DEF RingInv, ProducerKnows
  <2>2. ASSUME pop.pc = "enterNext" PROVE ~Empty(pop.next)
    BY <1>1, <2>2, RingFacts DEF RingInv, ConsumerKnows
  <2> QED BY <2>1, <2>2 DEF AssertionsHold, Empty
<1> QED BY <1>1, RingInvariant, PTL

\* The slots of a block that are not raw are those the indices and the calls
\* under way say.
LEMMA SlotsOfBlock ==
    ASSUME RingInv, freed = {}, NEW b \in 1..Len(block)
    PROVE  {i \in DOMAIN block[b].data : block[b].data[i] # Raw} =
               (Live(b) \ TakenFrom(b)) \union FilledIn(b)
<1>1. block[b] \in Block /\ Shaped(block[b]) /\ Holds(block[b], Taken(b), Filled(b))
  BY PopFacts
<1>2. PICK n \in Nat : n = block[b].size
  BY <1>1 DEF Block
<1>3. DOMAIN block[b].data = 0..n - 1 /\ block[b].front \in 0..n - 1 /\ block[b].tail \in 0..n - 1
  BY <1>1, <1>2 DEF Shaped, Block
<1>4. /\ Live(b) \subseteq 0..n - 1
      /\ \A i \in 0..n - 1 : i \in Live(b) <=> Gap(n, block[b].front, i) < Gap(n, block[b].front, block[b].tail)
  BY <1>1, <1>2, LiveSlots
<1>5. \A i : i \in TakenFrom(b) <=> Taken(b) /\ i = block[b].front
  BY DEF TakenFrom, Taken
<1>6. \A i : i \in FilledIn(b) <=> Filled(b) /\ i = block[b].tail
  BY DEF FilledIn, Filled
<1>7. ASSUME NEW i \in 0..n - 1
      PROVE  block[b].data[i] # Raw <=> i \in (Live(b) \ TakenFrom(b)) \union FilledIn(b)
  BY <1>1, <1>2, <1>4, <1>5, <1>6 DEF Holds
<1>8. (Live(b) \ TakenFrom(b)) \union FilledIn(b) \subseteq 0..n - 1
  BY <1>3, <1>4, <1>6
<1> QED BY <1>3, <1>7, <1>8

\* No element is constructed over another, moved out twice or left behind, and
\* the destructor finds all that are there (readerwriterqueue.h:548-555, 305-314,
\* 209-232).
THEOREM ElementsOnce == Spec => []ElementsLiveOnce
<1>1. ASSUME RingInv, freed # {} PROVE ElementsLiveOnce
  <2>1. \A b \in 1..Len(block) : Shaped(block[b])
    BY <1>1 DEF RingInv, BlocksSound
  <2>2. \A b \in 1..Len(block) : DOMAIN block[b].data = 0..block[b].size - 1
    BY <2>1 DEF Shaped
  <2> QED BY <1>1, <2>2 DEF RingInv, Destroyed, ElementsLiveOnce
<1>2. RingInv => ElementsLiveOnce
  BY <1>1, SlotsOfBlock DEF ElementsLiveOnce
<1> QED BY <1>2, RingInvariant, PTL

-----------------------------------------------------------------------------
(* The semaphore by itself *)

\* What every step's proof expands.
USE DEF Claims, Tokens, Timeouts

\* The semaphore starts in its invariant,
LEMMA InitSemInv == SemInit => SemInv
  BY DEF SemInit, SemInv, SemTypeOK, OneTokenPerClaim, SeenPermitsStay, OnlyTimedWaitsRestore, NotWaiting

\* The signalling thread: a signal meets a claim once, and posts once.
LEMMA SignalKeepsInv == SemInv /\ (CallSignal \/ SignalStep) => SemInv'
<1> SUFFICES ASSUME SemInv, CallSignal \/ SignalStep PROVE SemInv'
  OBVIOUS
<1> USE DEF SemInv, SemTypeOK, OneTokenPerClaim, SeenPermitsStay, OnlyTimedWaitsRestore
<1>1. CASE CallSignal BY <1>1 DEF CallSignal
<1>2. CASE AddPermit BY <1>2 DEF AddPermit
<1>3. CASE Post BY <1>3 DEF Post
<1> QED BY <1>1, <1>2, <1>3 DEF SignalStep

\* A wait up to the point where it sleeps.
LEMMA WaitKeepsInv ==
    SemInv /\ ((\E t \in Timeouts : CallWait(t)) \/ SeePermit \/ TryFails \/ SpinEnds
               \/ TakePermit \/ Claim \/ Wake \/ TimeOut) => SemInv'
<1> SUFFICES ASSUME SemInv,
                    (\E t \in Timeouts : CallWait(t)) \/ SeePermit \/ TryFails \/ SpinEnds
                    \/ TakePermit \/ Claim \/ Wake \/ TimeOut
             PROVE  SemInv'
  OBVIOUS
<1> USE DEF SemInv, SemTypeOK, OneTokenPerClaim, SeenPermitsStay, OnlyTimedWaitsRestore, WaitGoes
<1>1. ASSUME NEW t \in Timeouts, CallWait(t) PROVE SemInv' BY <1>1 DEF CallWait
<1>2. CASE SeePermit BY <1>2 DEF SeePermit
<1>3. CASE TryFails BY <1>3 DEF TryFails
<1>4. CASE SpinEnds BY <1>4 DEF SpinEnds
<1>5. CASE TakePermit BY <1>5 DEF TakePermit
<1>6. CASE Claim BY <1>6 DEF Claim
<1>7. CASE Wake BY <1>7 DEF Wake
<1>8. CASE TimeOut BY <1>8 DEF TimeOut
<1> QED BY <1>1, <1>2, <1>3, <1>4, <1>5, <1>6, <1>7, <1>8

\* The repair after a timeout, and the return.
LEMMA RepairKeepsInv ==
    SemInv /\ (Restore \/ Reclaim \/ TryToken
               \/ \E r \in {"granted", "refused"} : WaitReturns(r)) => SemInv'
<1> SUFFICES ASSUME SemInv,
                    Restore \/ Reclaim \/ TryToken
                    \/ \E r \in {"granted", "refused"} : WaitReturns(r)
             PROVE  SemInv'
  OBVIOUS
<1> USE DEF SemInv, SemTypeOK, OneTokenPerClaim, SeenPermitsStay, OnlyTimedWaitsRestore, WaitGoes
<1>1. CASE Restore BY <1>1 DEF Restore
<1>2. CASE Reclaim BY <1>2 DEF Reclaim
<1>3. CASE TryToken BY <1>3 DEF TryToken
<1>4. ASSUME NEW r \in {"granted", "refused"}, WaitReturns(r) PROVE SemInv'
  BY <1>4 DEF WaitReturns, NotWaiting
<1> QED BY <1>1, <1>2, <1>3, <1>4

\* ... and each of its steps keeps it.
LEMMA NextKeepsInv == SemInv /\ [SemNext]_semVars => SemInv'
<1>1. SemInv /\ UNCHANGED semVars => SemInv'
  BY DEF SemInv, SemTypeOK, OneTokenPerClaim, SeenPermitsStay, OnlyTimedWaitsRestore, semVars
<1> QED BY <1>1, SignalKeepsInv, WaitKeepsInv, RepairKeepsInv DEF SemNext, WaitStep

\* No post is left over and none is missing, whatever timeouts race with
\* signals, and the assertion in signal() holds (atomicops.h:730-738, 765).
THEOREM SemaphoreInvariant == SemSpec => []SemInv
<1> QED BY InitSemInv, NextKeepsInv, PTL DEF SemSpec

-----------------------------------------------------------------------------
(* Refinement *)

\* The signalling thread gives a permit with its addition; its post gives none.
LEMMA SignalRefines ==
    ASSUME SemInv, CallSignal \/ SignalStep
    PROVE  Abstract!Signal \/ UNCHANGED <<Permits, Patience>>
<1> USE DEF SemInv, SemTypeOK, Permits, Patience
<1>1. CASE CallSignal BY <1>1 DEF CallSignal
<1>2. CASE AddPermit
  <2>1. Permits' = Permits + 1 /\ UNCHANGED Patience
    BY <1>2 DEF AddPermit
  <2> QED BY <2>1 DEF Abstract!Signal
<1>3. CASE Post BY <1>3 DEF Post
<1> QED BY <1>1, <1>2, <1>3 DEF SignalStep

\* A step of a wait that decides nothing changes neither the permits nor what the
\* waiter waits for: a claim has its permit taken from the count, and put back.
LEMMA WaitStutters ==
    ASSUME SemInv,
           \/ SeePermit \/ SpinEnds \/ TimeOut \/ Reclaim
           \/ TryFails /\ wait.timeout # "try"
           \/ Claim /\ m_count <= 0
           \/ Restore /\ m_count >= 0
           \/ TryToken /\ m_sema = 0
    PROVE  UNCHANGED <<Permits, Patience>>
<1> USE DEF SemInv, SemTypeOK, SeenPermitsStay, Permits, Patience, WaitGoes
<1>1. CASE SeePermit BY <1>1 DEF SeePermit
<1>2. CASE SpinEnds BY <1>2 DEF SpinEnds
<1>3. CASE TimeOut BY <1>3 DEF TimeOut
<1>4. CASE Reclaim BY <1>4 DEF Reclaim
<1>5. CASE TryFails /\ wait.timeout # "try" BY <1>5 DEF TryFails
<1>6. CASE Claim /\ m_count <= 0 BY <1>6 DEF Claim
<1>7. CASE Restore /\ m_count >= 0 BY <1>7 DEF Restore
<1>8. CASE TryToken /\ m_sema = 0 BY <1>8 DEF TryToken
<1> QED BY <1>1, <1>2, <1>3, <1>4, <1>5, <1>6, <1>7, <1>8

\* The four ways to a permit: there is one, by the invariant.
LEMMA WaitIsGranted ==
    ASSUME SemInv,
           \/ TakePermit \/ Wake
           \/ Claim /\ m_count > 0
           \/ TryToken /\ m_sema > 0
    PROVE  Abstract!Grant
<1> USE DEF SemInv, SemTypeOK, OneTokenPerClaim, SeenPermitsStay, WaitGoes
<1>1. Patience \in {"patient", "impatient"} /\ Patience' = "granted"
  BY DEF Patience, TakePermit, Wake, Claim, TryToken
<1>2. Permits > 0 /\ Permits' = Permits - 1
  BY DEF Permits, TakePermit, Wake, Claim, TryToken
<1> QED BY <1>1, <1>2 DEF Abstract!Grant

\* The two ways to give up: there is no permit, and the wait may end without.
LEMMA WaitIsRefused ==
    ASSUME SemInv,
           \/ TryFails /\ wait.timeout = "try"
           \/ Restore /\ m_count < 0
    PROVE  Abstract!GiveUp
<1> USE DEF SemInv, SemTypeOK, OneTokenPerClaim, OnlyTimedWaitsRestore, WaitGoes
<1>1. Patience = "impatient" /\ Patience' = "refused"
  BY DEF Patience, TryFails, Restore
<1>2. Permits = 0 /\ Permits' = 0
  BY DEF Permits, TryFails, Restore
<1> QED BY <1>1, <1>2 DEF Abstract!GiveUp

\* A wait begins and returns.
LEMMA CallRefines ==
    ASSUME SemInv, NEW t \in Timeouts, CallWait(t)
    PROVE  \E w \in {"patient", "impatient"} : Abstract!Wait(w)
<1>1. Patience = "no" /\ Patience' = IF t = "forever" THEN "patient" ELSE "impatient"
  BY DEF CallWait, Patience
<1>2. UNCHANGED Permits
  BY DEF CallWait, Permits, SemInv, SemTypeOK
<1> QED BY <1>1, <1>2 DEF Abstract!Wait

\* A wait that returns is a return of the abstract semaphore.
LEMMA ReturnRefines ==
    ASSUME SemInv, NEW r \in {"granted", "refused"}, WaitReturns(r)
    PROVE  Abstract!Return
<1>1. Patience \in {"granted", "refused"} /\ Patience' = "no"
  BY DEF WaitReturns, Patience, NotWaiting
<1>2. UNCHANGED Permits
  BY DEF WaitReturns, Permits, NotWaiting, SemInv, SemTypeOK
<1> QED BY <1>1, <1>2 DEF Abstract!Return

\* Each step of the semaphore is a step of the abstract one, or none.
LEMMA StepRefines ==
    ASSUME SemInv, [SemNext]_semVars
    PROVE  [Abstract!AbsNext]_<<Permits, Patience>>
<1> USE DEF Abstract!AbsNext
<1>1. CASE CallSignal \/ SignalStep
  BY <1>1, SignalRefines
<1>2. ASSUME NEW t \in Timeouts, CallWait(t) PROVE Abstract!AbsNext
  BY <1>2, CallRefines
<1>3. CASE WaitStep
  <2>1. m_count \in Int /\ m_sema \in Nat
    BY DEF SemInv, SemTypeOK
  <2> QED BY <1>3, <2>1, WaitStutters, WaitIsGranted, WaitIsRefused DEF WaitStep
<1>4. ASSUME NEW r \in {"granted", "refused"}, WaitReturns(r) PROVE Abstract!AbsNext
  BY <1>4, ReturnRefines
<1>5. CASE UNCHANGED semVars
  BY <1>5 DEF semVars, Permits, Patience
<1> QED BY <1>1, <1>2, <1>3, <1>4, <1>5 DEF SemNext

\* The count, the kernel's semaphore and the repair after a timeout are a
\* semaphore: no permit is lost or invented, and a wait gives up only when it
\* may and there is none (atomicops.h:703-769).
THEOREM SemaphoreRefinement == SemSpec => ImplementsSemaphore
<1>1. SemInit => Abstract!AbsInit
  BY DEF SemInit, Abstract!AbsInit, Permits, Patience, NotWaiting
<1>2. SemInv /\ [SemNext]_semVars => [Abstract!AbsNext]_<<Permits, Patience>>
  BY StepRefines
<1> QED BY <1>1, <1>2, SemaphoreInvariant, PTL
        DEF SemSpec, ImplementsSemaphore, Abstract!AbsSpec, Abstract!absVars

-----------------------------------------------------------------------------
(* The semaphore in the queue *)

\* A step of the queue is a step of the semaphore or leaves it alone.
LEMMA QueueStepsOfSemaphore ==
    ASSUME [Next]_vars
    PROVE  [SemNext]_semVars
<1>1. ASSUME NEW canAlloc \in BOOLEAN, Enqueue(canAlloc) PROVE UNCHANGED semVars
  BY <1>1 DEF Enqueue
<1>2. CASE ProducerStep
  BY <1>2 DEF ProducerStep, EnqueueSucceeds, SemNext
<1>3. ASSUME NEW op \in {"pop", "peek"}, AskRing(op) PROVE UNCHANGED semVars
  BY <1>3 DEF AskRing
<1>4. ASSUME NEW timeout \in Timeouts, AskPermit(timeout) PROVE SemNext
  BY <1>4 DEF AskPermit, SemNext
<1>5. CASE ConsumerStep
  BY <1>5 DEF ConsumerStep, RingAnswers, TakeElement, GoWithout, SemNext
<1>6. CASE DestroyQueue
  BY <1>6 DEF DestroyQueue
<1>7. CASE UNCHANGED vars
  BY <1>7 DEF vars
<1> QED
  BY <1>1, <1>2, <1>3, <1>4, <1>5, <1>6, <1>7 DEF Next

\* The queue's use of its semaphore is one that LightweightSemaphore describes:
\* one thread signals, one waits, each call ends before the next.
THEOREM QueueUsesSemaphore == Spec => SemSpec
<1>1. Init => SemInit
  BY DEF Init
<1> QED
  BY <1>1, QueueStepsOfSemaphore, PTL DEF Spec, SemSpec

\* In the queue too a post is neither left over nor missing, whatever timed waits
\* race with enqueues (readerwriterqueue.h:774-901, atomicops.h:703-769).
THEOREM QueueSemaphoreInvariant == Spec => []SemInv
<1> QED BY QueueUsesSemaphore, SemaphoreInvariant, PTL

\* ... and a consumer is sent away only at a moment without a permit.
THEOREM QueueSemaphoreRefinement == Spec => ImplementsSemaphore
<1> QED BY QueueUsesSemaphore, SemaphoreRefinement, PTL

(* What the queue holds *)

InUse == {Ahead[n] : n \in 0..Distance}

(* Sequences put one after the other *)

\* An element at the end of the second of two sequences is at the end of both,
LEMMA AppendToSecond ==
    ASSUME NEW X, NEW s \in Seq(X), NEW t \in Seq(X), NEW x \in X
    PROVE  s \o Append(t, x) = Append(s \o t, x)
<1>1. <<x>> \in Seq(X)
  OBVIOUS
<1>2. Append(t, x) = t \o <<x>> /\ s \o t \in Seq(X)
  BY AppendIsConcat, ConcatProperties
<1>3. Append(s \o t, x) = (s \o t) \o <<x>>
  BY <1>2, AppendIsConcat
<1> QED BY <1>1, <1>2, <1>3, ConcatAssociative

\* ... and the first element of the first is the first of both.
LEMMA HeadOfFirst ==
    ASSUME NEW X, NEW s \in Seq(X), NEW t \in Seq(X), s # <<>>
    PROVE  s \o t # <<>> /\ Head(s \o t) = Head(s) /\ Tail(s \o t) = Tail(s) \o t
<1>1. /\ s \o t \in Seq(X) /\ Len(s \o t) = Len(s) + Len(t)
      /\ \A i \in 1..Len(s) + Len(t) : (s \o t)[i] = IF i <= Len(s) THEN s[i] ELSE t[i - Len(s)]
  BY ConcatProperties
<1>2. Len(s) \in Nat \ {0} /\ Len(t) \in Nat
  BY EmptySeq, LenProperties
<1>3. s \o t # <<>>
  BY <1>1, <1>2
<1>4. Tail(s) \in Seq(X) /\ Len(Tail(s)) = Len(s) - 1 /\ \A i \in 1..Len(Tail(s)) : Tail(s)[i] = s[i + 1]
  BY HeadTailProperties
<1>5. /\ Tail(s \o t) \in Seq(X) /\ Len(Tail(s \o t)) = Len(s) + Len(t) - 1
      /\ \A i \in 1..Len(Tail(s \o t)) : Tail(s \o t)[i] = (s \o t)[i + 1]
  BY <1>1, <1>3, HeadTailProperties
<1>6. /\ Tail(s) \o t \in Seq(X) /\ Len(Tail(s) \o t) = Len(s) - 1 + Len(t)
      /\ \A i \in 1..Len(s) - 1 + Len(t) :
           (Tail(s) \o t)[i] = IF i <= Len(s) - 1 THEN Tail(s)[i] ELSE t[i - (Len(s) - 1)]
  BY <1>4, ConcatProperties
<1>7. ASSUME NEW i \in 1..Len(Tail(s \o t)) PROVE Tail(s \o t)[i] = (Tail(s) \o t)[i]
  <2>1. i \in Nat /\ i >= 1 /\ i <= Len(s) + Len(t) - 1 /\ i + 1 \in 1..Len(s) + Len(t)
    BY <1>2, <1>5
  <2>2. Tail(s \o t)[i] = IF i + 1 <= Len(s) THEN s[i + 1] ELSE t[(i + 1) - Len(s)]
    BY <1>1, <1>5, <2>1
  <2>3. i \in 1..Len(s) - 1 + Len(t)
    BY <1>2, <2>1
  <2>4. (Tail(s) \o t)[i] = IF i <= Len(s) - 1 THEN Tail(s)[i] ELSE t[i - (Len(s) - 1)]
    BY <1>6, <2>3
  <2>5. i <= Len(s) - 1 => Tail(s)[i] = s[i + 1]
    BY <1>2, <1>4, <2>1
  <2>6. (i + 1) - Len(s) = i - (Len(s) - 1) /\ (i + 1 <= Len(s) <=> i <= Len(s) - 1)
    BY <1>2, <2>1
  <2> QED BY <2>2, <2>4, <2>5, <2>6
<1>8. Len(Tail(s \o t)) = Len(Tail(s) \o t)
  BY <1>2, <1>5, <1>6
<1>9. Tail(s \o t) = Tail(s) \o t
  BY <1>5, <1>6, <1>7, <1>8, SeqEqual
<1>10. Head(s \o t) = Head(s)
  BY <1>1, <1>2
<1> QED BY <1>3, <1>9, <1>10

Gathers(X, e, f) ==
    /\ e \in [Nat -> Seq(X)] /\ f \in [Nat -> Seq(X)]
    /\ f[0] = e[0]
    /\ \A n \in Nat : f[n + 1] = f[n] \o e[n + 1]

\* What is gathered depends on the sequences gathered alone.
LEMMA GatherSame ==
    ASSUME NEW X, NEW e, NEW f, Gathers(X, e, f),
           NEW e2, NEW f2, Gathers(X, e2, f2),
           NEW m \in Nat, \A i \in 0..m : e2[i] = e[i]
    PROVE  f2[m] = f[m]
<1>0. e \in [Nat -> Seq(X)] /\ f \in [Nat -> Seq(X)] /\ e2 \in [Nat -> Seq(X)] /\ f2 \in [Nat -> Seq(X)]
  BY DEF Gathers
<1> DEFINE S == {n \in Nat : n <= m => f2[n] = f[n]}
<1>1. 0 \in S
  BY <1>0 DEF Gathers
<1>2. ASSUME NEW n \in S PROVE n + 1 \in S
  <2> SUFFICES ASSUME n + 1 <= m PROVE f2[n + 1] = f[n + 1]
    BY <1>0
  <2>1. f2[n] = f[n] /\ e2[n + 1] = e[n + 1]
    BY <1>0
  <2> QED BY <1>0, <2>1 DEF Gathers
<1>3. S = Nat
  <2>1. S \subseteq Nat OBVIOUS
  <2> HIDE DEF S
  <2> QED BY <1>1, <1>2, <2>1, Induction
<1>4. m \in S
  BY <1>0, <1>3
<1> QED BY <1>0, <1>4

\* The last sequence gets one more element.
LEMMA GatherAppend ==
    ASSUME NEW X, NEW e, NEW f, Gathers(X, e, f),
           NEW e2, NEW f2, Gathers(X, e2, f2),
           NEW m \in Nat, \A i \in 0..m - 1 : e2[i] = e[i],
           NEW x \in X, e2[m] = Append(e[m], x)
    PROVE  f2[m] = Append(f[m], x)
<1>0. e \in [Nat -> Seq(X)] /\ f \in [Nat -> Seq(X)] /\ e2 \in [Nat -> Seq(X)] /\ f2 \in [Nat -> Seq(X)]
  BY DEF Gathers
<1>1. CASE m = 0
  BY <1>0, <1>1 DEF Gathers
<1>2. CASE m # 0
  <2>1. PICK n \in Nat : n + 1 = m /\ n = m - 1
    BY <1>0, <1>2
  <2>2. f2[n] = f[n]
    <3>1. \A i \in 0..n : e2[i] = e[i]
      BY <1>0, <2>1
    <3> QED BY <3>1, GatherSame
  <2>3. f[n] \in Seq(X) /\ e[m] \in Seq(X)
    BY <1>0
  <2>4. f2[m] = f[n] \o Append(e[m], x) /\ f[m] = f[n] \o e[m]
    BY <1>0, <2>1, <2>2 DEF Gathers
  <2>5. PICK s \in Seq(X), t \in Seq(X) : s = f[n] /\ t = e[m]
    BY <1>0, <2>3
  <2>6. s \o Append(t, x) = Append(s \o t, x)
    BY AppendToSecond
  <2> QED BY <1>0, <2>4, <2>5, <2>6
<1> QED BY <1>0, <1>1, <1>2

\* The first sequence loses its first element.
LEMMA GatherTail ==
    ASSUME NEW X, NEW e, NEW f, Gathers(X, e, f),
           NEW e2, NEW f2, Gathers(X, e2, f2),
           NEW m \in Nat, \A i \in 1..m : e2[i] = e[i],
           e[0] # <<>>, e2[0] = Tail(e[0])
    PROVE  f[m] # <<>> /\ f2[m] = Tail(f[m])
<1>0. e \in [Nat -> Seq(X)] /\ f \in [Nat -> Seq(X)] /\ e2 \in [Nat -> Seq(X)] /\ f2 \in [Nat -> Seq(X)]
  BY DEF Gathers
<1> DEFINE S == {n \in Nat : n <= m => f[n] # <<>> /\ f2[n] = Tail(f[n])}
<1>1. 0 \in S
  BY <1>0 DEF Gathers
<1>2. ASSUME NEW n \in S PROVE n + 1 \in S
  <2> SUFFICES ASSUME n + 1 <= m
               PROVE  f[n + 1] # <<>> /\ f2[n + 1] = Tail(f[n + 1])
    BY <1>0
  <2>1. n \in Nat /\ n + 1 \in 1..m /\ n <= m
    BY <1>0
  <2>2. f[n] # <<>> /\ f2[n] = Tail(f[n]) /\ e2[n + 1] = e[n + 1]
    BY <1>0, <2>1
  <2>3. f[n] \in Seq(X) /\ e[n + 1] \in Seq(X)
    BY <1>0, <2>1
  <2>4. f[n + 1] = f[n] \o e[n + 1] /\ f2[n + 1] = Tail(f[n]) \o e[n + 1]
    BY <1>0, <2>1, <2>2 DEF Gathers
  <2>5. f[n] \o e[n + 1] # <<>> /\ Tail(f[n] \o e[n + 1]) = Tail(f[n]) \o e[n + 1]
    BY <2>2, <2>3, HeadOfFirst
  <2> QED BY <1>0, <2>4, <2>5
<1>3. S = Nat
  <2>1. S \subseteq Nat OBVIOUS
  <2> HIDE DEF S
  <2> QED BY <1>1, <1>2, <2>1, Induction
<1>4. m \in S
  BY <1>0, <1>3
<1> QED BY <1>0, <1>4

\* The first element of the first sequence is the first of all.
LEMMA GatherHead ==
    ASSUME NEW X, NEW e, NEW f, Gathers(X, e, f), NEW m \in Nat,
           e[0] # <<>>
    PROVE  f[m] # <<>> /\ Head(f[m]) = Head(e[0])
<1>0. e \in [Nat -> Seq(X)] /\ f \in [Nat -> Seq(X)]
  BY DEF Gathers
<1> DEFINE S == {n \in Nat : f[n] # <<>> /\ Head(f[n]) = Head(e[0])}
<1>1. 0 \in S
  BY <1>0 DEF Gathers
<1>2. ASSUME NEW n \in S PROVE n + 1 \in S
  <2>1. n \in Nat /\ n + 1 \in Nat /\ f[n] # <<>> /\ Head(f[n]) = Head(e[0])
    BY <1>0
  <2>2. f[n] \in Seq(X) /\ e[n + 1] \in Seq(X) /\ f[n + 1] = f[n] \o e[n + 1]
    BY <1>0, <2>1 DEF Gathers
  <2>4. PICK s \in Seq(X), t \in Seq(X) : s = f[n] /\ t = e[n + 1]
    BY <2>2
  <2>5. s # <<>>
    BY <2>1, <2>4
  <2>6. s \o t # <<>> /\ Head(s \o t) = Head(s)
    BY <2>5, HeadOfFirst
  <2>3. f[n + 1] # <<>> /\ Head(f[n + 1]) = Head(e[0])
    BY <2>1, <2>2, <2>4, <2>6
  <2> QED BY <1>0, <2>1, <2>3
<1>3. S = Nat
  <2>1. S \subseteq Nat OBVIOUS
  <2> HIDE DEF S
  <2> QED BY <1>1, <1>2, <2>1, Induction
<1>4. m \in S
  BY <1>0, <1>3
<1> QED BY <1>0, <1>4

\* The first sequence is empty and is left out.
LEMMA GatherShift ==
    ASSUME NEW X, NEW e, NEW f, Gathers(X, e, f),
           NEW e2, NEW f2, Gathers(X, e2, f2),
           NEW m \in Nat, \A i \in 0..m : e2[i] = e[i + 1], e[0] = <<>>
    PROVE  f2[m] = f[m + 1]
<1>0. e \in [Nat -> Seq(X)] /\ f \in [Nat -> Seq(X)] /\ e2 \in [Nat -> Seq(X)] /\ f2 \in [Nat -> Seq(X)]
  BY DEF Gathers
<1> DEFINE S == {n \in Nat : n <= m => f2[n] = f[n + 1]}
<1>1. 0 \in S
  <2>1. 0 \in 0..m /\ 0 + 1 = 1
    BY <1>0
  <2>2. f2[0] = e[1] /\ e[1] \in Seq(X)
    <3>2. \A i \in 0..m : e2[i] = e[i + 1]
      OBVIOUS
    <3>3. e2[0] = e[0 + 1]
      BY <2>1, <3>2
    <3>4. f2[0] = e2[0]
      BY DEF Gathers
    <3>1. e2[0] = e[1] /\ f2[0] = e2[0]
      BY <2>1, <3>3, <3>4
    <3> QED BY <1>0, <3>1
  <2>3. f[1] = <<>> \o e[1]
    <3>1. f[0 + 1] = f[0] \o e[0 + 1] /\ f[0] = e[0]
      BY <1>0 DEF Gathers
    <3> QED BY <1>0, <2>1, <3>1
  <2>4. f[0 + 1] = f2[0]
    BY <1>0, <2>1, <2>2, <2>3, ConcatEmptySeq
  <2> QED BY <1>0, <2>4
<1>2. ASSUME NEW n \in S PROVE n + 1 \in S
  <2> SUFFICES ASSUME n + 1 <= m PROVE f2[n + 1] = f[(n + 1) + 1]
    BY <1>0
  <2>1. n \in Nat /\ n <= m /\ n + 1 \in 0..m
    BY <1>0
  <2>2. f2[n] = f[n + 1] /\ e2[n + 1] = e[(n + 1) + 1]
    BY <1>0, <2>1
  <2>3. f2[n + 1] = f2[n] \o e2[n + 1] /\ f[(n + 1) + 1] = f[n + 1] \o e[(n + 1) + 1]
    <3>1. PICK k \in Nat : k = n + 1
      BY <2>1
    <3>2. f[k + 1] = f[k] \o e[k + 1]
      BY DEF Gathers
    <3>3. f2[n + 1] = f2[n] \o e2[n + 1]
      BY <2>1 DEF Gathers
    <3> QED BY <3>1, <3>2, <3>3
  <2> QED BY <1>0, <2>2, <2>3
<1>3. S = Nat
  <2>1. S \subseteq Nat OBVIOUS
  <2> HIDE DEF S
  <2> QED BY <1>1, <1>2, <2>1, Induction
<1>4. m \in S
  BY <1>0, <1>3
<1> QED BY <1>0, <1>4

\* What each but the first sequence has at least, they have together.
LEMMA GatherLength ==
    ASSUME NEW X, NEW e, NEW f, Gathers(X, e, f),
           NEW m \in Nat, NEW k \in Nat, \A i \in 1..m : Len(e[i]) >= k
    PROVE  Len(f[m]) >= m * k
<1>0. e \in [Nat -> Seq(X)] /\ f \in [Nat -> Seq(X)]
  BY DEF Gathers
<1> DEFINE S == {n \in Nat : n <= m => Len(f[n]) >= n * k}
<1>1. 0 \in S
  <2>1. f[0] \in Seq(X)
    BY <1>0
  <2>2. Len(f[0]) \in Nat /\ 0 * k = 0
    BY <1>0, <2>1, LenProperties
  <2>3. Len(f[0]) >= 0 * k
    BY <1>0, <2>2
  <2> QED BY <1>0, <2>3
<1>2. ASSUME NEW n \in S PROVE n + 1 \in S
  <2> SUFFICES ASSUME n + 1 <= m PROVE Len(f[n + 1]) >= (n + 1) * k
    BY <1>0
  <2>1. n \in Nat /\ n <= m /\ n + 1 \in 1..m
    BY <1>0
  <2>2. f[n] \in Seq(X) /\ e[n + 1] \in Seq(X)
    BY <1>0, <2>1
  <2>3. Len(f[n]) >= n * k /\ Len(e[n + 1]) >= k
    BY <1>0, <2>1
  <2>4. f[n + 1] = f[n] \o e[n + 1]
    BY <1>0, <2>1 DEF Gathers
  <2>5. Len(f[n + 1]) = Len(f[n]) + Len(e[n + 1])
    BY <1>0, <2>2, <2>4, ConcatProperties
  <2>6. Len(f[n]) \in Nat /\ Len(e[n + 1]) \in Nat
    BY <1>0, <2>2, LenProperties
  <2>7. (n + 1) * k = n * k + k /\ n * k \in Nat
    BY <1>0, <2>1
  <2> QED BY <1>0, <2>3, <2>5, <2>6, <2>7
<1>3. S = Nat
  <2>1. S \subseteq Nat OBVIOUS
  <2> HIDE DEF S
  <2> QED BY <1>1, <1>2, <2>1, Induction
<1>4. m \in S
  BY <1>0, <1>3
<1> QED BY <1>0, <1>4

\* A function that goes on from x0 by g.
Follows(X, x0, g, f) == f \in [Nat -> X] /\ f[0] = x0 /\ \A n \in Nat : f[n + 1] = g[f[n]]

\* A function that goes on from x0 by g exists.
LEMMA FollowsExists ==
    ASSUME NEW X, NEW x0, NEW g, x0 \in X /\ g \in [X -> X]
    PROVE  \E f : Follows(X, x0, g, f)
<1> QED BY Recursion DEF Follows

RowsOf(X) == [Nat -> Seq(X)]

\* A function that gathers exists.
LEMMA GatherExists ==
    ASSUME NEW X, NEW e \in RowsOf(X)
    PROVE  \E f : Gathers(X, e, f)
<1> DEFINE P == Nat \X Seq(X)
           g == [p \in P |-> <<p[1] + 1, p[2] \o e[p[1] + 1]>>]
<1>0. ASSUME NEW p \in P PROVE <<p[1] + 1, p[2] \o e[p[1] + 1]>> \in P
  <2>1. PICK n \in Nat, s \in Seq(X) : n = p[1] /\ s = p[2]
    OBVIOUS
  <2>2. n + 1 \in Nat /\ e[n + 1] \in Seq(X)
    BY DEF RowsOf
  <2>3. s \o e[n + 1] \in Seq(X)
    BY <2>2, ConcatProperties
  <2> QED BY <2>1, <2>2, <2>3
<1>1. g \in [P -> P] /\ <<0, e[0]>> \in P
  <2>1. <<0, e[0]>> \in P
    BY DEF RowsOf
  <2>2. g \in [P -> P]
    <3> HIDE DEF P
    <3> QED BY <1>0
  <2> QED BY <2>1, <2>2
<1>2. \A p \in P : g[p] = <<p[1] + 1, p[2] \o e[p[1] + 1]>>
  <2> HIDE DEF P
  <2> QED OBVIOUS
<1> HIDE DEF g
<1>3. PICK h \in [Nat -> P] : h[0] = <<0, e[0]>> /\ \A n \in Nat : h[n + 1] = g[h[n]]
  <2> HIDE DEF P
  <2>1. PICK Y, y0, k : Y = P /\ y0 = <<0, e[0]>> /\ k = g
    OBVIOUS
  <2>2. y0 \in Y /\ k \in [Y -> Y]
    BY <1>1, <2>1
  <2>3. PICK h : Follows(Y, y0, k, h)
    BY <2>2, FollowsExists
  <2>4. h \in [Nat -> P] /\ h[0] = <<0, e[0]>> /\ \A n \in Nat : h[n + 1] = g[h[n]]
    BY <2>1, <2>3 DEF Follows
  <2> QED BY <2>4
<1>4. ASSUME NEW n \in Nat PROVE h[n] \in P /\ h[n + 1] = <<h[n][1] + 1, h[n][2] \o e[h[n][1] + 1]>>
  <2> HIDE DEF P
  <2>1. h[n] \in P /\ h[n + 1] = g[h[n]]
    BY <1>3
  <2> QED BY <1>2, <2>1
<1> DEFINE S == {n \in Nat : h[n][1] = n}
<1>5. 0 \in S
  BY <1>3
<1>6. ASSUME NEW n \in S PROVE n + 1 \in S
  <2>1. n \in Nat /\ h[n][1] = n
    OBVIOUS
  <2>2. h[n + 1] = <<h[n][1] + 1, h[n][2] \o e[h[n][1] + 1]>>
    BY <1>4, <2>1
  <2>3. h[n + 1][1] = n + 1
    BY <2>1, <2>2
  <2> QED BY <2>1, <2>3
<1>7. S = Nat
  <2>1. S \subseteq Nat OBVIOUS
  <2> HIDE DEF S
  <2> QED BY <1>5, <1>6, <2>1, Induction
<1> DEFINE f == [n \in Nat |-> h[n][2]]
<1>8. f \in [Nat -> Seq(X)]
  BY <1>4
<1>9. ASSUME NEW n \in Nat PROVE f[n + 1] = f[n] \o e[n + 1]
  <2>1. h[n][1] = n
    BY <1>7
  <2>0. h[n + 1] = <<h[n][1] + 1, h[n][2] \o e[h[n][1] + 1]>>
    BY <1>4
  <2>4. h[n + 1] = <<n + 1, h[n][2] \o e[n + 1]>>
    BY <2>0, <2>1
  <2>2. h[n + 1][2] = h[n][2] \o e[n + 1]
    <3>1. PICK p, u, v : p = h[n + 1] /\ u = n + 1 /\ v = h[n][2] \o e[n + 1]
      OBVIOUS
    <3>2. p = <<u, v>>
      BY <2>4, <3>1
    <3>3. p[2] = v
      BY <3>2
    <3> QED BY <3>1, <3>3
  <2>3. f[n] = h[n][2] /\ f[n + 1] = h[n + 1][2]
    OBVIOUS
  <2> QED BY <2>2, <2>3
<1>10. f[0] = e[0]
  <2>1. PICK p, x : p = h[0] /\ x = e[0]
    OBVIOUS
  <2>2. p = <<0, x>>
    BY <1>3, <2>1
  <2>3. p[2] = x
    BY <2>2
  <2> QED BY <2>1, <2>3
<1> HIDE DEF f
<1> QED BY <1>8, <1>9, <1>10 DEF Gathers, RowsOf

(* What a block holds, in order *)

Items == Elements \union {Nothing}

\* The slot that is k places behind slot f in a block of n.
Place(n, f, k) == IF f + k < n THEN f + k ELSE f + k - n

\* The elements of a block, where the first may have been moved out already.
RowOf(k, taken, v) ==
    [j \in 1..Gap(k.size, k.front, k.tail) |->
        IF taken /\ j = 1 THEN v ELSE k.data[Place(k.size, k.front, j - 1)]]

\* A row is a sequence as long as the gap from front to tail.
LEMMA RowTyped ==
    ASSUME NEW k \in Block, Shaped(k), NEW taken \in BOOLEAN, NEW v, taken => v \in Items
    PROVE  /\ RowOf(k, taken, v) \in Seq(Items)
           /\ Len(RowOf(k, taken, v)) = Gap(k.size, k.front, k.tail)
           /\ \A j \in 1..Gap(k.size, k.front, k.tail) :
                RowOf(k, taken, v)[j] = IF taken /\ j = 1 THEN v ELSE k.data[Place(k.size, k.front, j - 1)]
<1>1. PICK n \in Nat, f \in Nat, t \in Nat : n = k.size /\ f = k.front /\ t = k.tail /\ f < n /\ t < n
  BY DEF Block, Shaped
<1>2. PICK g \in Nat : g = Gap(n, f, t) /\ g < n
  BY <1>1 DEF Gap
<1>3. ASSUME NEW j \in 1..g
      PROVE  (IF taken /\ j = 1 THEN v ELSE k.data[Place(n, f, j - 1)]) \in Items
  <2>1. Place(n, f, j - 1) \in 0..n - 1
    BY <1>1, <1>2 DEF Place
  <2>2. k.data \in [0..n - 1 -> Elements]
    BY <1>1 DEF Shaped
  <2>3. k.data[Place(n, f, j - 1)] \in Elements
    BY <2>1, <2>2
  <2> QED BY <2>3 DEF Items
<1>4. RowOf(k, taken, v) = [j \in 1..g |-> IF taken /\ j = 1 THEN v ELSE k.data[Place(n, f, j - 1)]]
  BY <1>1, <1>2 DEF RowOf
<1> HIDE DEF Place, Items
<1> QED BY <1>1, <1>2, <1>3, <1>4

\* The distance the model counts by modulo is that gap.
LEMMA CountIsGap ==
    ASSUME NEW b, block[b] \in Block, Shaped(block[b])
    PROVE  /\ Count(b) = Gap(block[b].size, block[b].front, block[b].tail)
           /\ \A j \in 0..block[b].size - 1 :
                (block[b].front + j) % block[b].size = Place(block[b].size, block[b].front, j)
<1>1. PICK n \in Nat, f \in Nat, t \in Nat : /\ n = block[b].size /\ f = block[b].front /\ t = block[b].tail
                                             /\ n >= 2 /\ f < n /\ t < n
  BY DEF Block, Shaped
<1>2. Count(b) = Gap(n, f, t)
  <2>1. PICK x \in Nat : x = t + n - f /\ x < 2 * n
    BY <1>1
  <2>2. x % n = IF x < n THEN x ELSE x - n
    BY <1>1, <2>1, SlotsAhead
  <2>3. Count(b) = x % n
    BY <1>1, <2>1 DEF Count
  <2> QED BY <1>1, <2>1, <2>2, <2>3 DEF Gap
<1>3. ASSUME NEW j \in 0..n - 1 PROVE (f + j) % n = Place(n, f, j)
  <2>1. j \in Nat /\ j < n
    BY <1>1
  <2>2. f + j \in Nat /\ f + j < 2 * n
    BY <1>1, <2>1
  <2>3. PICK x \in Nat : x = f + j /\ x < 2 * n
    BY <2>2
  <2>4. x % n = IF x < n THEN x ELSE x - n
    BY <1>1, <2>3, SlotsAhead
  <2> QED BY <2>3, <2>4 DEF Place
<1> QED BY <1>1, <1>2, <1>3

\* The elements of a block are its row.
LEMMA ElementsAreRow ==
    RingInv => \A b \in 1..Len(block) :
        /\ block[b] \in Block /\ Shaped(block[b]) /\ Taken(b) \in BOOLEAN /\ (Taken(b) => pop.value \in Items)
        /\ ElementsOf(b) = RowOf(block[b], Taken(b), pop.value)
<1> SUFFICES ASSUME RingInv, NEW b \in 1..Len(block)
             PROVE  /\ block[b] \in Block /\ Shaped(block[b]) /\ Taken(b) \in BOOLEAN /\ (Taken(b) => pop.value \in Items)
                    /\ ElementsOf(b) = RowOf(block[b], Taken(b), pop.value)
  OBVIOUS
<1>1. block[b] \in Block /\ Shaped(block[b]) /\ Taken(b) \in BOOLEAN
  BY DEF RingInv, RingTypeOK, BlocksSound, Taken
<1>2. Taken(b) => pop.value \in Items
  BY DEF RingInv, RingTypeOK, Taken, PopCalls, Items, Idle
<1>3. PICK n \in Nat, f \in Nat, t \in Nat : /\ n = block[b].size /\ f = block[b].front /\ t = block[b].tail
                                             /\ n >= 2 /\ f < n /\ t < n
  BY <1>1 DEF Block, Shaped
<1>4. PICK g \in Nat : g = Gap(n, f, t) /\ g < n
  BY <1>3 DEF Gap
<1>5. Count(b) = g /\ \A j \in 0..n - 1 : (f + j) % n = Place(n, f, j)
  BY <1>1, <1>3, <1>4, CountIsGap
<1>6. ASSUME NEW j \in 1..g
      PROVE  ElementAt(b, (f + j - 1) % n) = IF Taken(b) /\ j = 1 THEN pop.value ELSE block[b].data[Place(n, f, j - 1)]
  <2>1. j - 1 \in 0..n - 1 /\ f + j - 1 = f + (j - 1)
    BY <1>3, <1>4
  <2>2. (f + j - 1) % n = Place(n, f, j - 1)
    BY <1>5, <2>1
  <2>3. Place(n, f, j - 1) = f <=> j = 1
    BY <1>3, <1>4, SMTT(30) DEF Place
  <2> QED BY <1>3, <2>2, <2>3 DEF ElementAt, Taken
<1>7. ElementsOf(b) = [j \in 1..g |-> ElementAt(b, (f + j - 1) % n)]
  BY <1>3, <1>5 DEF ElementsOf
<1>8. RowOf(block[b], Taken(b), pop.value)
          = [j \in 1..g |-> IF Taken(b) /\ j = 1 THEN pop.value ELSE block[b].data[Place(n, f, j - 1)]]
  BY <1>3, <1>4 DEF RowOf
<1>9. ElementsOf(b) = RowOf(block[b], Taken(b), pop.value)
  BY <1>6, <1>7, <1>8
<1> QED BY <1>1, <1>2, <1>9

\* A row is empty when the front is at the tail,
LEMMA RowEmpty ==
    ASSUME NEW k \in Block, Shaped(k), NEW taken \in BOOLEAN, NEW v, taken => v \in Items
    PROVE  RowOf(k, taken, v) = <<>> <=> k.front = k.tail
<1>1. PICK n \in Nat, f \in Nat, t \in Nat : n = k.size /\ f = k.front /\ t = k.tail /\ f < n /\ t < n
  BY DEF Block, Shaped
<1>2. Gap(n, f, t) \in Nat /\ (Gap(n, f, t) = 0 <=> f = t)
  BY <1>1 DEF Gap
<1>3. RowOf(k, taken, v) \in Seq(Items) /\ Len(RowOf(k, taken, v)) = Gap(n, f, t)
  BY <1>1, RowTyped
<1>4. RowOf(k, taken, v) = <<>> <=> Len(RowOf(k, taken, v)) = 0
  BY <1>3, EmptySeq
<1> QED BY <1>1, <1>2, <1>3, <1>4

\* ... and otherwise starts with the element in front, or the one moved out of
\* there.
LEMMA RowFirst ==
    ASSUME NEW k \in Block, Shaped(k), NEW taken \in BOOLEAN, NEW v, taken => v \in Items, k.front # k.tail
    PROVE  RowOf(k, taken, v) # <<>> /\ Head(RowOf(k, taken, v)) = IF taken THEN v ELSE k.data[k.front]
<1>1. PICK n \in Nat, f \in Nat, t \in Nat : n = k.size /\ f = k.front /\ t = k.tail /\ f < n /\ t < n
  BY DEF Block, Shaped
<1>2. PICK g \in Nat : g = Gap(n, f, t) /\ g > 0
  BY <1>1 DEF Gap
<1>3. Place(n, f, 1 - 1) = f
  BY <1>1 DEF Place
<1>4. PICK s \in Seq(Items) : s = RowOf(k, taken, v)
  BY RowTyped
<1>5. Len(s) = g /\ \A j \in 1..g : s[j] = IF taken /\ j = 1 THEN v ELSE k.data[Place(n, f, j - 1)]
  BY <1>1, <1>2, <1>4, RowTyped
<1>6. s[1] = IF taken THEN v ELSE k.data[f]
  <2>1. 1 \in 1..g
    BY <1>2
  <2>2. s[1] = IF taken /\ 1 = 1 THEN v ELSE k.data[Place(n, f, 1 - 1)]
    BY <1>5, <2>1
  <2> QED BY <1>3, <2>2
<1>7. s # <<>> /\ Head(s) = s[1]
  BY <1>2, <1>5
<1> QED BY <1>1, <1>4, <1>6, <1>7

\* An element beyond the tail is not counted,
LEMMA RowFill ==
    ASSUME NEW k \in Block, Shaped(k), NEW taken \in BOOLEAN, NEW v, taken => v \in Items,
           NEW r \in Block, Shaped(r), r.size = k.size, r.front = k.front, r.tail = k.tail,
           \A i \in 0..k.size - 1 : i # k.tail => r.data[i] = k.data[i]
    PROVE  RowOf(r, taken, v) = RowOf(k, taken, v)
<1>1. PICK n \in Nat, f \in Nat, t \in Nat : n = k.size /\ f = k.front /\ t = k.tail /\ f < n /\ t < n
  BY DEF Block, Shaped
<1>2. PICK g \in Nat : g = Gap(n, f, t)
  BY <1>1 DEF Gap
<1>3. ASSUME NEW j \in 1..g PROVE r.data[Place(n, f, j - 1)] = k.data[Place(n, f, j - 1)]
  <2>1. Place(n, f, j - 1) \in 0..n - 1 /\ Place(n, f, j - 1) # t
    BY <1>1, <1>2 DEF Place, Gap
  <2> QED BY <1>1, <2>1
<1>4. RowOf(k, taken, v) = [j \in 1..g |-> IF taken /\ j = 1 THEN v ELSE k.data[Place(n, f, j - 1)]]
  BY <1>1, <1>2 DEF RowOf
<1>5. RowOf(r, taken, v) = [j \in 1..g |-> IF taken /\ j = 1 THEN v ELSE r.data[Place(n, f, j - 1)]]
  BY <1>1, <1>2 DEF RowOf
<1> QED BY <1>3, <1>4, <1>5

\* ... until the tail is behind it.
LEMMA RowPublish ==
    ASSUME NEW k \in Block, Shaped(k), NEW taken \in BOOLEAN, NEW v, taken => v \in Items,
           taken => k.front # k.tail,
           NEW r \in Block, Shaped(r), r.size = k.size, r.front = k.front, r.data = k.data,
           r.tail = After(k.size, k.tail), r.tail # k.front
    PROVE  RowOf(r, taken, v) = Append(RowOf(k, taken, v), k.data[k.tail])
<1>1. PICK n \in Nat, f \in Nat, t \in Nat : n = k.size /\ f = k.front /\ t = k.tail /\ f < n /\ t < n
  BY DEF Block, Shaped
<1>2. PICK g \in Nat : g = Gap(n, f, t)
  BY <1>1 DEF Gap
<1>3. Gap(n, f, After(n, t)) = g + 1 /\ Place(n, f, (g + 1) - 1) = t
  BY <1>1, <1>2 DEF Gap, After, Place
<1>4. k.data[t] \in Items
  BY <1>1 DEF Shaped, Items
<1>5. PICK s, u, x : s = RowOf(k, taken, v) /\ u = RowOf(r, taken, v) /\ x = k.data[t]
  OBVIOUS
<1>6. s \in Seq(Items) /\ Len(s) = g
      /\ \A j \in 1..g : s[j] = IF taken /\ j = 1 THEN v ELSE k.data[Place(n, f, j - 1)]
  BY <1>1, <1>2, <1>5, RowTyped
<1>7. u \in Seq(Items) /\ Len(u) = g + 1
      /\ \A j \in 1..g + 1 : u[j] = IF taken /\ j = 1 THEN v ELSE k.data[Place(n, f, j - 1)]
  <2>1. /\ RowOf(r, taken, v) \in Seq(Items)
        /\ Len(RowOf(r, taken, v)) = Gap(r.size, r.front, r.tail)
        /\ \A j \in 1..Gap(r.size, r.front, r.tail) :
                RowOf(r, taken, v)[j] = IF taken /\ j = 1 THEN v ELSE r.data[Place(r.size, r.front, j - 1)]
    BY RowTyped
  <2>2. Gap(r.size, r.front, r.tail) = g + 1 /\ r.size = n /\ r.front = f /\ r.data = k.data
    BY <1>1, <1>3
  <2> QED BY <1>5, <2>1, <2>2
<1>8. taken => g # 0
  BY <1>1, <1>2 DEF Gap
<1>9. /\ Append(s, x) \in Seq(Items) /\ Len(Append(s, x)) = g + 1
      /\ \A j \in 1..g : Append(s, x)[j] = s[j]
      /\ Append(s, x)[g + 1] = x
  BY <1>4, <1>5, <1>6, AppendProperties
<1>10. ASSUME NEW j \in 1..g + 1 PROVE u[j] = Append(s, x)[j]
  <2>1. CASE j = g + 1
    <3>1. u[g + 1] = IF taken /\ g + 1 = 1 THEN v ELSE k.data[Place(n, f, (g + 1) - 1)]
      BY <1>7, <2>1
    <3>2. ~(taken /\ g + 1 = 1)
      BY <1>8
    <3> QED BY <1>3, <1>5, <1>9, <2>1, <3>1, <3>2
  <2>2. CASE j # g + 1
    <3>1. j \in 1..g
      BY <2>2
    <3> QED BY <1>6, <1>7, <1>9, <3>1
  <2> QED BY <2>1, <2>2
<1>11. u = Append(s, x)
  BY <1>7, <1>9, <1>10, SeqEqual
<1> QED BY <1>1, <1>5, <1>11

\* An element that was moved out still counts as the first,
LEMMA RowTake ==
    ASSUME NEW k \in Block, Shaped(k), NEW w,
           NEW r \in Block, Shaped(r), r.size = k.size, r.front = k.front, r.tail = k.tail,
           \A i \in 0..k.size - 1 : i # k.front => r.data[i] = k.data[i]
    PROVE  RowOf(r, TRUE, k.data[k.front]) = RowOf(k, FALSE, w)
<1>1. PICK n \in Nat, f \in Nat, t \in Nat : n = k.size /\ f = k.front /\ t = k.tail /\ f < n /\ t < n
  BY DEF Block, Shaped
<1>2. PICK g \in Nat : g = Gap(n, f, t) /\ g < n
  BY <1>1 DEF Gap
<1>3. ASSUME NEW j \in 1..g
      PROVE  (IF j = 1 THEN k.data[f] ELSE r.data[Place(n, f, j - 1)]) = k.data[Place(n, f, j - 1)]
  <2>1. j = 1 => Place(n, f, j - 1) = f
    BY <1>1 DEF Place
  <2>2. j # 1 => Place(n, f, j - 1) \in 0..n - 1 /\ Place(n, f, j - 1) # f
    BY <1>1, <1>2 DEF Place
  <2> QED BY <1>1, <2>1, <2>2
<1>4. RowOf(k, FALSE, w) = [j \in 1..g |-> k.data[Place(n, f, j - 1)]]
  BY <1>1, <1>2 DEF RowOf
<1>5. RowOf(r, TRUE, k.data[k.front]) = [j \in 1..g |-> IF j = 1 THEN k.data[f] ELSE r.data[Place(n, f, j - 1)]]
  BY <1>1, <1>2 DEF RowOf
<1> QED BY <1>3, <1>4, <1>5

\* ... until the front is behind it.
LEMMA RowRelease ==
    ASSUME NEW k \in Block, Shaped(k), NEW v \in Items, NEW w, k.front # k.tail,
           NEW r \in Block, Shaped(r), r.size = k.size, r.tail = k.tail, r.data = k.data,
           r.front = After(k.size, k.front)
    PROVE  RowOf(r, FALSE, w) = Tail(RowOf(k, TRUE, v))
<1>1. PICK n \in Nat, f \in Nat, t \in Nat : n = k.size /\ f = k.front /\ t = k.tail /\ f < n /\ t < n
  BY DEF Block, Shaped
<1>2. PICK g \in Nat : g + 1 = Gap(n, f, t) /\ g + 1 < n
  <2>1. Gap(n, f, t) \in Nat /\ Gap(n, f, t) > 0 /\ Gap(n, f, t) < n
    BY <1>1 DEF Gap
  <2>2. PICK h \in Nat : h = Gap(n, f, t)
    BY <2>1
  <2>3. h - 1 \in Nat /\ (h - 1) + 1 = h
    BY <2>1, <2>2
  <2> QED BY <2>1, <2>2, <2>3
<1>3. Gap(n, After(n, f), t) = g
  BY <1>1, <1>2 DEF Gap, After
<1>4. \A j \in 1..g : Place(n, After(n, f), j - 1) = Place(n, f, j)
  BY <1>1, <1>2 DEF Place, After
<1>5. PICK s, u : s = RowOf(k, TRUE, v) /\ u = RowOf(r, FALSE, w)
  OBVIOUS
<1>6. s \in Seq(Items) /\ Len(s) = g + 1
      /\ \A j \in 1..g + 1 : s[j] = IF j = 1 THEN v ELSE k.data[Place(n, f, j - 1)]
  <2>1. PICK taken \in BOOLEAN : taken = TRUE
    OBVIOUS
  <2>2. /\ RowOf(k, taken, v) \in Seq(Items)
        /\ Len(RowOf(k, taken, v)) = Gap(k.size, k.front, k.tail)
        /\ \A j \in 1..Gap(k.size, k.front, k.tail) :
                RowOf(k, taken, v)[j] = IF taken /\ j = 1 THEN v ELSE k.data[Place(k.size, k.front, j - 1)]
    BY RowTyped
  <2> QED BY <1>1, <1>2, <1>5, <2>1, <2>2
<1>7. u \in Seq(Items) /\ Len(u) = g
      /\ \A j \in 1..g : u[j] = k.data[Place(n, After(n, f), j - 1)]
  <2>1. /\ RowOf(r, FALSE, w) \in Seq(Items)
        /\ Len(RowOf(r, FALSE, w)) = Gap(r.size, r.front, r.tail)
        /\ \A j \in 1..Gap(r.size, r.front, r.tail) :
                RowOf(r, FALSE, w)[j] = r.data[Place(r.size, r.front, j - 1)]
    <3>1. PICK taken \in BOOLEAN : taken = FALSE
      OBVIOUS
    <3>2. /\ RowOf(r, taken, w) \in Seq(Items)
          /\ Len(RowOf(r, taken, w)) = Gap(r.size, r.front, r.tail)
          /\ \A j \in 1..Gap(r.size, r.front, r.tail) :
                RowOf(r, taken, w)[j] = IF taken /\ j = 1 THEN w ELSE r.data[Place(r.size, r.front, j - 1)]
      BY <3>1, RowTyped
    <3> QED BY <3>1, <3>2
  <2>2. Gap(r.size, r.front, r.tail) = g /\ r.size = n /\ r.front = After(n, f) /\ r.data = k.data
    BY <1>1, <1>3
  <2> QED BY <1>5, <2>1, <2>2
<1>8. s # <<>>
  BY <1>6
<1>9. Tail(s) \in Seq(Items) /\ Len(Tail(s)) = g /\ \A j \in 1..g : Tail(s)[j] = s[j + 1]
  <2>1. Len(Tail(s)) = Len(s) - 1
    BY <1>6, <1>8, HeadTailProperties
  <2>2. Len(Tail(s)) = g
    BY <1>6, <2>1
  <2> QED BY <1>6, <1>8, <2>2, HeadTailProperties
<1>10. ASSUME NEW j \in 1..g PROVE u[j] = Tail(s)[j]
  <2>1. j + 1 \in 1..g + 1 /\ j + 1 # 1 /\ (j + 1) - 1 = j
    OBVIOUS
  <2>2. s[j + 1] = k.data[Place(n, f, (j + 1) - 1)]
    BY <1>6, <2>1
  <2>3. s[j + 1] = k.data[Place(n, f, j)]
    BY <2>1, <2>2
  <2> QED BY <1>4, <1>7, <1>9, <2>3
<1>11. u = Tail(s)
  BY <1>7, <1>9, <1>10, SeqEqual
<1> QED BY <1>5, <1>11

(* The rows of the blocks in use *)

Row(b) == RowOf(block[b], Taken(b), pop.value)

HeldRows == [n \in Nat |-> Row(Ahead[n])]

Chain ==
    /\ Ahead[0] = frontBlock
    /\ \A n \in Nat : Ahead[n] \in Linked /\ Ahead[n + 1] = block[Ahead[n]].next

\* t is n blocks ahead, and no nearer.
FirstAt(a, n, t) == n \in Nat /\ a[n] = t /\ \A m \in 0..n - 1 : a[m] # t

TailAhead ==
    /\ FirstAt(Ahead, Distance, tailBlock)
    /\ Distance < RingLength
    /\ \A m, n \in 0..Distance : Ahead[m] = Ahead[n] => m = n
    /\ NextBlock # frontBlock => \A m \in 0..Distance : Ahead[m] # NextBlock
    /\ NextBlock = frontBlock => Distance + 1 = RingLength

HeldShape == Chain /\ TailAhead /\ Gathers(Items, HeldRows, Held)

\* There is one place where a block is first met.
LEMMA FirstIsUnique ==
    ASSUME NEW a, NEW n, NEW t, FirstAt(a, n, t),
           NEW b, NEW m, FirstAt(b, m, t), \A i \in 0..n : b[i] = a[i]
    PROVE  m = n
<1>1. m \in Nat /\ n \in Nat /\ a[n] = t /\ b[m] = t
  BY DEF FirstAt
<1>2. CASE m < n
  <2>1. m \in 0..n - 1 /\ m \in 0..n
    BY <1>1, <1>2
  <2> QED BY <1>1, <2>1 DEF FirstAt
<1>3. CASE n < m
  <2>1. n \in 0..m - 1 /\ n \in 0..n
    BY <1>1, <1>3
  <2> QED BY <1>1, <2>1 DEF FirstAt
<1> QED BY <1>1, <1>2, <1>3

\* The n-th block ahead of the front block has position n in the ring.
LEMMA Positions ==
    ASSUME RingInv, NEW pos \in [Linked -> 0..RingLength - 1], InOrder(pos)
    PROVE  \A n \in Nat : n < RingLength => pos[Ahead[n]] = n
<1>1. Chain
  BY AheadStepsOn DEF RingInv, Chain
<1>2. RingLength \in Nat
  BY RingFacts DEF RingInv
<1> HIDE DEF Ahead
<1> DEFINE S == {n \in Nat : n < RingLength => pos[Ahead[n]] = n}
<1>4. 0 \in S
  BY <1>1 DEF InOrder, Chain
<1>5. ASSUME NEW n \in S PROVE n + 1 \in S
  <2> SUFFICES ASSUME n + 1 < RingLength PROVE pos[Ahead[n + 1]] = n + 1
    OBVIOUS
  <2>1. n \in Nat /\ pos[Ahead[n]] = n /\ Ahead[n] \in Linked
    <3>1. n \in Nat /\ (n < RingLength => pos[Ahead[n]] = n)
      OBVIOUS
    <3>2. n < RingLength
      BY <1>2, <3>1
    <3> QED BY <1>1, <3>1, <3>2 DEF Chain
  <2>2. PICK b \in Linked : b = Ahead[n]
    BY <2>1
  <2>3. pos[block[b].next] = n + 1
    <3>1. pos[b] = n /\ n # RingLength - 1
      BY <1>2, <2>1, <2>2
    <3> QED BY <3>1 DEF InOrder
  <2>4. Ahead[n + 1] = block[b].next
    BY <1>1, <2>1, <2>2 DEF Chain
  <2> QED BY <2>3, <2>4
<1>6. S = Nat
  <2>1. S \subseteq Nat
    OBVIOUS
  <2> HIDE DEF S
  <2> QED BY <1>4, <1>5, <2>1, Induction
<1> QED BY <1>6

\* The tail block is met before any block is met again; the one behind it is
\* not in use, or is the front block.
LEMMA TailIsAhead == RingInv => TailAhead
<1> SUFFICES ASSUME RingInv PROVE TailAhead
  OBVIOUS
<1>1. Chain
  BY AheadStepsOn DEF RingInv, Chain
<1>2. /\ RingLength \in Nat /\ Linked \subseteq 1..Len(block) /\ tailBlock \in Linked /\ frontBlock \in Linked
      /\ NextBlock \in Linked /\ Len(block) \in Nat /\ RingLength <= Len(block)
  <2>1. Len(block) \in Nat
    BY DEF RingInv, RingTypeOK
  <2> QED BY <2>1, RingFacts DEF RingInv, NextBlock, RingLength
<1>3. PICK pos \in [Linked -> 0..RingLength - 1] : InOrder(pos)
  BY DEF RingInv, RingOrder
<1>4. \A n \in Nat : n < RingLength => pos[Ahead[n]] = n
  BY <1>3, Positions
<1>5. \A b \in Linked : pos[b] \in Nat /\ pos[b] < RingLength
  BY <1>2, <1>3
<1> HIDE DEF Ahead
<1>6. PICK d \in Nat : d = pos[tailBlock] /\ d < RingLength
  BY <1>2, <1>5
<1>7. Ahead[d] = tailBlock
  <2>1. pos[Ahead[d]] = pos[tailBlock] /\ Ahead[d] \in Linked
    BY <1>1, <1>4, <1>6 DEF Chain
  <2> QED BY <1>2, <1>3, <2>1 DEF InOrder
<1>8. ASSUME NEW m \in 0..d - 1 PROVE Ahead[m] # tailBlock
  <2>1. m \in Nat /\ m < RingLength /\ m # d
    BY <1>2, <1>6
  <2>2. pos[Ahead[m]] = m
    BY <1>4, <2>1
  <2> QED BY <1>6, <2>1, <2>2
<1>9. Distance \in 0..Len(block) - 1 /\ Ahead[Distance] = tailBlock /\ \A m \in 0..Distance - 1 : Ahead[m] # tailBlock
  <2> DEFINE P(n) == Ahead[n] = tailBlock /\ \A m \in 0..n - 1 : Ahead[m] # tailBlock
  <2>1. d \in 0..Len(block) - 1 /\ P(d)
    BY <1>2, <1>6, <1>7, <1>8
  <2>2. Distance = CHOOSE n \in 0..Len(block) - 1 : P(n)
    BY DEF Distance
  <2> HIDE DEF P
  <2>3. Distance \in 0..Len(block) - 1 /\ P(Distance)
    BY <2>1, <2>2
  <2> QED BY <2>3 DEF P
<1>10. FirstAt(Ahead, Distance, tailBlock) /\ FirstAt(Ahead, d, tailBlock)
  BY <1>2, <1>7, <1>8, <1>9 DEF FirstAt
<1>11. Distance = d
  BY <1>10, FirstIsUnique
<1>12. ASSUME NEW m \in 0..d, NEW n \in 0..d, Ahead[m] = Ahead[n] PROVE m = n
  <2>1. m \in Nat /\ n \in Nat /\ m < RingLength /\ n < RingLength
    BY <1>2, <1>6
  <2>2. pos[Ahead[m]] = m /\ pos[Ahead[n]] = n
    BY <1>4, <2>1
  <2> QED BY <1>12, <2>2
<1>13. pos[NextBlock] = (IF d = RingLength - 1 THEN 0 ELSE d + 1) /\ pos[frontBlock] = 0
  BY <1>2, <1>3, <1>6 DEF InOrder, NextBlock
<1>14. NextBlock = frontBlock => d + 1 = RingLength
  BY <1>2, <1>6, <1>13
<1>15. ASSUME NextBlock # frontBlock, NEW m \in 0..d PROVE Ahead[m] # NextBlock
  <2>1. pos[NextBlock] # 0
    BY <1>2, <1>3, <1>13, <1>15 DEF InOrder
  <2>2. pos[NextBlock] = d + 1
    BY <1>13, <2>1
  <2>3. m \in Nat /\ m < RingLength /\ m # d + 1
    BY <1>2, <1>6
  <2>4. pos[Ahead[m]] = m
    BY <1>4, <2>3
  <2> QED BY <2>2, <2>3, <2>4
<1> HIDE DEF Distance
<1> QED BY <1>6, <1>10, <1>11, <1>12, <1>14, <1>15 DEF TailAhead

\* The elements of each block are its row, a sequence of items.
LEMMA RowsTyped ==
    ASSUME RingInv, NEW b \in 1..Len(block)
    PROVE  /\ Row(b) \in Seq(Items)
           /\ Len(Row(b)) = Gap(block[b].size, block[b].front, block[b].tail)
           /\ ElementsOf(b) = Row(b)
<1>1. /\ block[b] \in Block /\ Shaped(block[b]) /\ Taken(b) \in BOOLEAN /\ (Taken(b) => pop.value \in Items)
      /\ ElementsOf(b) = RowOf(block[b], Taken(b), pop.value)
  BY ElementsAreRow
<1>2. PICK k \in Block, taken \in BOOLEAN, v \in {pop.value} : k = block[b] /\ taken = Taken(b) /\ v = pop.value
  BY <1>1
<1>3. RowOf(k, taken, v) \in Seq(Items) /\ Len(RowOf(k, taken, v)) = Gap(k.size, k.front, k.tail)
  BY <1>1, <1>2, RowTyped
<1> QED BY <1>1, <1>2, <1>3 DEF Row

\* What is held is what the rows have, gathered along the ring.
LEMMA HeldGathers == RingInv => Gathers(Items, HeldRows, Held)
<1> SUFFICES ASSUME RingInv PROVE Gathers(Items, HeldRows, Held)
  OBVIOUS
<1>1. Chain
  BY AheadStepsOn DEF RingInv, Chain
<1>2. Linked \subseteq 1..Len(block)
  BY RingFacts DEF RingInv
<1>3. \A n \in Nat : Ahead[n] \in 1..Len(block)
  BY <1>1, <1>2 DEF Chain
<1> HIDE DEF Ahead
<1>4. ASSUME NEW n \in Nat PROVE HeldRows[n] \in Seq(Items) /\ ElementsOf(Ahead[n]) = HeldRows[n]
  <2>1. PICK b \in 1..Len(block) : b = Ahead[n]
    BY <1>3
  <2>2. Row(b) \in Seq(Items) /\ ElementsOf(b) = Row(b)
    BY RowsTyped
  <2>3. HeldRows[n] = Row(Ahead[n])
    BY DEF HeldRows
  <2> QED BY <2>1, <2>2, <2>3
<1>5. PICK e : e = HeldRows
  OBVIOUS
<1>6. e \in RowsOf(Items)
  <2>1. e = [n \in Nat |-> e[n]]
    BY <1>5 DEF HeldRows
  <2> QED BY <1>4, <1>5, <2>1 DEF RowsOf
<1>7. PICK f : Gathers(Items, e, f)
  BY <1>6, GatherExists
<1> DEFINE Step(h) == [n \in Nat |-> IF n = 0 THEN ElementsOf(frontBlock) ELSE h[n - 1] \o ElementsOf(Ahead[n])]
<1>8. ElementsOf(frontBlock) = e[0]
  <2>1. ElementsOf(Ahead[0]) = HeldRows[0]
    BY <1>4
  <2> QED BY <1>1, <1>5, <2>1 DEF Chain
<1>9. f = Step(f)
  <2>1. ASSUME NEW n \in Nat PROVE f[n] = IF n = 0 THEN ElementsOf(frontBlock) ELSE f[n - 1] \o ElementsOf(Ahead[n])
    <3>1. CASE n = 0
      BY <1>7, <1>8, <3>1 DEF Gathers
    <3>2. CASE n # 0
      <4>1. PICK m \in Nat : m = n - 1 /\ m + 1 = n
        BY <3>2
      <4>2. f[m + 1] = f[m] \o e[m + 1]
        BY <1>7 DEF Gathers
      <4>3. e[n] = ElementsOf(Ahead[n])
        BY <1>4, <1>5
      <4> QED BY <3>2, <4>1, <4>2, <4>3
    <3> QED BY <3>1, <3>2
  <2>2. f = [n \in Nat |-> f[n]]
    BY <1>7 DEF Gathers
  <2> QED BY <2>1, <2>2
<1>10. Held = CHOOSE h : h = Step(h)
  BY DEF Held
<1>11. Held = Step(Held)
  BY <1>9, <1>10
<1>12. \A n \in Nat : Held[n] = IF n = 0 THEN ElementsOf(frontBlock) ELSE Held[n - 1] \o ElementsOf(Ahead[n])
  <2>1. PICK h : h = Held
    OBVIOUS
  <2>2. h = Step(h)
    BY <1>11, <2>1
  <2>3. \A n \in Nat : h[n] = IF n = 0 THEN ElementsOf(frontBlock) ELSE h[n - 1] \o ElementsOf(Ahead[n])
    BY <2>2
  <2> QED BY <2>1, <2>3
<1>13. Held[0] = e[0]
  BY <1>8, <1>12
<1>14. ASSUME NEW n \in Nat PROVE Held[n + 1] = Held[n] \o e[n + 1]
  <2>1. PICK m \in Nat : m = n + 1 /\ m # 0 /\ m - 1 = n
    OBVIOUS
  <2>2. Held[m] = Held[m - 1] \o ElementsOf(Ahead[m])
    BY <1>12, <2>1
  <2>3. ElementsOf(Ahead[m]) = e[m]
    BY <1>4, <1>5
  <2> QED BY <2>1, <2>2, <2>3
<1>15. Held = [n \in Nat |-> Held[n]]
  <2>1. PICK h : h = Held
    OBVIOUS
  <2>2. h = Step(h)
    BY <1>11, <2>1
  <2>3. h = [n \in Nat |-> h[n]]
    BY <2>2
  <2> QED BY <2>1, <2>3
<1> HIDE DEF Held
<1>16. \A n \in Nat : Held[n] \in Seq(Items)
  <2> DEFINE S == {n \in Nat : Held[n] \in Seq(Items)}
  <2>1. 0 \in S
    BY <1>4, <1>5, <1>13
  <2>2. ASSUME NEW n \in S PROVE n + 1 \in S
    <3>1. Held[n] \in Seq(Items) /\ n + 1 \in Nat /\ e[n + 1] \in Seq(Items)
      BY <1>4, <1>5
    <3>2. Held[n] \o e[n + 1] \in Seq(Items)
      BY <3>1, ConcatProperties
    <3> QED BY <1>14, <3>1, <3>2
  <2>3. S \subseteq Nat
    OBVIOUS
  <2> HIDE DEF S
  <2>4. S = Nat
    BY <2>1, <2>2, <2>3, Induction
  <2> QED BY <2>4 DEF S
<1>17. Held \in [Nat -> Seq(Items)]
  BY <1>15, <1>16
<1>18. e \in [Nat -> Seq(Items)]
  BY <1>6 DEF RowsOf
<1>19. \A n \in Nat : Held[n + 1] = Held[n] \o e[n + 1]
  BY <1>14
<1>20. Gathers(Items, e, Held)
  BY <1>13, <1>17, <1>18, <1>19 DEF Gathers
<1> QED BY <1>5, <1>20

\* All of this holds wherever the ring invariant does,
LEMMA HeldIsShaped == RingInv => HeldShape
<1> SUFFICES ASSUME RingInv PROVE HeldShape
  OBVIOUS
<1>1. Chain
  BY AheadStepsOn DEF RingInv, Chain
<1>2. TailAhead
  BY TailIsAhead
<1>3. Gathers(Items, HeldRows, Held)
  BY HeldGathers
<1> QED BY <1>1, <1>2, <1>3 DEF HeldShape

\* ... before a step and after it.
LEMMA HeldStaysShaped == RingInv' => HeldShape'
  BY HeldIsShaped, PTL

(* How a step changes what the queue holds *)

\* When the first sequence is empty, the first element of all is that of the
\* second.
LEMMA GatherSecond ==
    ASSUME NEW X, NEW e, NEW f, Gathers(X, e, f), NEW m \in Nat, m # 0,
           e[0] = <<>>, e[1] # <<>>
    PROVE  f[m] # <<>> /\ Head(f[m]) = Head(e[1])
<1>0. e \in [Nat -> Seq(X)] /\ f \in [Nat -> Seq(X)]
  BY DEF Gathers
<1>a. f[1] = e[1]
  <2>1. f[0 + 1] = f[0] \o e[0 + 1] /\ f[0] = e[0]
    BY DEF Gathers
  <2>2. f[1] = <<>> \o e[1] /\ e[1] \in Seq(X)
    BY <1>0, <2>1
  <2> QED BY <2>2, ConcatEmptySeq
<1>b. \A i \in Nat : f[i] \in Seq(X) /\ e[i] \in Seq(X)
  BY <1>0
<1> DEFINE S == {n \in Nat : f[n + 1] # <<>> /\ Head(f[n + 1]) = Head(e[1])}
<1>1. 0 \in S
  <2>1. f[0 + 1] = e[1]
    BY <1>a
  <2> QED BY <2>1
<1>2. ASSUME NEW n \in S PROVE n + 1 \in S
  <2>1. PICK k \in Nat : k = n + 1
    OBVIOUS
  <2>2. f[k] \in Seq(X) /\ e[k + 1] \in Seq(X) /\ f[k + 1] = f[k] \o e[k + 1]
    <3>1. f[k] \in Seq(X) /\ e[k + 1] \in Seq(X)
      BY <1>b
    <3>2. f[k + 1] = f[k] \o e[k + 1]
      BY DEF Gathers
    <3> QED BY <3>1, <3>2
  <2>3. f[k] # <<>> /\ Head(f[k]) = Head(e[1])
    BY <2>1
  <2>4. PICK s \in Seq(X), t \in Seq(X) : s = f[k] /\ t = e[k + 1]
    BY <2>2
  <2>5. s # <<>>
    BY <2>3, <2>4
  <2>6. s \o t # <<>> /\ Head(s \o t) = Head(s)
    BY <2>5, HeadOfFirst
  <2>7. f[k + 1] # <<>> /\ Head(f[k + 1]) = Head(e[1])
    BY <2>2, <2>3, <2>4, <2>6
  <2> QED BY <2>1, <2>7
<1>3. S = Nat
  <2>1. S \subseteq Nat OBVIOUS
  <2> HIDE DEF S
  <2> QED BY <1>1, <1>2, <2>1, Induction
<1>4. m - 1 \in Nat /\ (m - 1) + 1 = m
  OBVIOUS
<1>5. m - 1 \in S
  BY <1>3, <1>4
<1> QED BY <1>4, <1>5

\* The blocks in use stay in their places.
LEMMA StillAhead ==
    ASSUME HeldShape, Chain', frontBlock' = frontBlock,
           \A b \in Linked : b # tailBlock => block'[b].next = block[b].next
    PROVE  \A n \in 0..Distance : Ahead'[n] = Ahead[n]
<1>1. PICK a, a2, d, l, b2 : a = Ahead /\ a2 = Ahead' /\ d = Distance /\ l = Linked /\ b2 = block'
  OBVIOUS
<1>2. /\ a[0] = frontBlock /\ \A n \in Nat : a[n] \in l /\ a[n + 1] = block[a[n]].next
      /\ d \in Nat /\ \A n \in 0..d - 1 : a[n] # tailBlock
  BY <1>1 DEF HeldShape, Chain, TailAhead, FirstAt
<1>3. a2[0] = frontBlock /\ \A n \in Nat : a2[n + 1] = b2[a2[n]].next
  BY <1>1 DEF Chain
<1>4. \A b \in l : b # tailBlock => b2[b].next = block[b].next
  BY <1>1
<1> DEFINE S == {n \in Nat : n <= d => a2[n] = a[n]}
<1>5. 0 \in S
  BY <1>2, <1>3
<1>6. ASSUME NEW n \in S PROVE n + 1 \in S
  <2> SUFFICES ASSUME n + 1 <= d PROVE a2[n + 1] = a[n + 1]
    OBVIOUS
  <2>1. n \in Nat /\ n \in 0..d - 1 /\ a2[n] = a[n]
    BY <1>2
  <2>2. a[n] \in l /\ a[n] # tailBlock
    BY <1>2, <2>1
  <2>3. b2[a[n]].next = block[a[n]].next
    BY <1>4, <2>2
  <2> QED BY <1>2, <1>3, <2>1, <2>3
<1>7. S = Nat
  <2>1. S \subseteq Nat OBVIOUS
  <2> HIDE DEF S
  <2> QED BY <1>5, <1>6, <2>1, Induction
<1>8. \A n \in 0..d : a2[n] = a[n]
  BY <1>2, <1>7
<1> QED BY <1>1, <1>8

\* The tail block stays as far ahead, and the same blocks are in use.
LEMMA StillDistance ==
    ASSUME HeldShape, HeldShape', frontBlock' = frontBlock, tailBlock' = tailBlock,
           \A b \in Linked : b # tailBlock => block'[b].next = block[b].next
    PROVE  /\ \A n \in 0..Distance : Ahead'[n] = Ahead[n]
           /\ Distance' = Distance /\ Distance \in Nat
           /\ InUse' = InUse
<1>1. \A n \in 0..Distance : Ahead'[n] = Ahead[n]
  BY StillAhead DEF HeldShape
<1>2. PICK a, a2, d, d2 : a = Ahead /\ a2 = Ahead' /\ d = Distance /\ d2 = Distance'
  OBVIOUS
<1>3. FirstAt(a, d, tailBlock) /\ FirstAt(a2, d2, tailBlock)
  BY <1>2 DEF HeldShape, TailAhead
<1>4. d2 = d
  BY <1>1, <1>2, <1>3, FirstIsUnique
<1>5. d \in Nat
  BY <1>3 DEF FirstAt
<1>6. InUse = {a[n] : n \in 0..d} /\ InUse' = {a2[n] : n \in 0..d2}
  BY <1>2 DEF InUse
<1>7. InUse' = InUse
  BY <1>1, <1>2, <1>4, <1>6
<1> QED BY <1>1, <1>2, <1>4, <1>5, <1>7

\* The rows, in the places of their blocks.
LEMMA RowsInPlace ==
    ASSUME \A n \in 0..Distance : Ahead'[n] = Ahead[n], Distance \in Nat
    PROVE  \A n \in 0..Distance : /\ Ahead[n] \in InUse
                                  /\ HeldRows[n] = Row(Ahead[n])
                                  /\ \A b : b = Ahead[n] => HeldRows'[n] = Row(b)'
<1> TAKE n \in 0..Distance
<1>1. n \in Nat
  OBVIOUS
<1>2. Ahead[n] \in InUse
  BY DEF InUse
<1>3. HeldRows[n] = Row(Ahead[n])
  BY <1>1 DEF HeldRows
<1>4. ASSUME NEW b, b = Ahead[n] PROVE HeldRows'[n] = Row(b)'
  <2>1. Ahead'[n] = b
    BY <1>4
  <2>2. HeldRows'[n] = Row(Ahead[n])'
    BY <1>1 DEF HeldRows
  <2> QED BY <2>1, <2>2 DEF Row, Taken
<1> QED BY <1>2, <1>3, <1>4

\* What is held is the same when each row is.
LEMMA ContentsKept ==
    ASSUME HeldShape, HeldShape', frontBlock' = frontBlock, tailBlock' = tailBlock,
           \A b \in Linked : b # tailBlock => block'[b].next = block[b].next,
           \A b \in InUse : Row(b)' = Row(b)
    PROVE  Contents' = Contents
<1>1. (\A n \in 0..Distance : Ahead'[n] = Ahead[n]) /\ Distance' = Distance /\ Distance \in Nat
  BY StillDistance
<1>2. PICK d \in Nat : d = Distance
  BY <1>1
<1>3. PICK e, f, e2, f2 : e = HeldRows /\ f = Held /\ e2 = HeldRows' /\ f2 = Held'
  OBVIOUS
<1>4. Gathers(Items, e, f) /\ Gathers(Items, e2, f2)
  BY <1>3 DEF HeldShape
<1>5. ASSUME NEW n \in 0..d PROVE e2[n] = e[n]
  <2>1. PICK b : b = Ahead[n]
    OBVIOUS
  <2>2. b \in InUse /\ e[n] = Row(b) /\ e2[n] = Row(b)'
    BY <1>1, <1>2, <1>3, <2>1, RowsInPlace
  <2> QED BY <2>2
<1>6. f2[d] = f[d]
  BY <1>4, <1>5, GatherSame
<1> QED BY <1>1, <1>2, <1>3, <1>6 DEF Contents

\* An element at the end of the tail block's row is the last of all.
LEMMA ContentsGrow ==
    ASSUME HeldShape, HeldShape', frontBlock' = frontBlock, tailBlock' = tailBlock,
           \A b \in Linked : b # tailBlock => block'[b].next = block[b].next,
           NEW t, t = tailBlock, NEW x \in Items, Row(t)' = Append(Row(t), x),
           \A b \in InUse : b # t => Row(b)' = Row(b)
    PROVE  Contents' = Append(Contents, x)
<1>1. (\A n \in 0..Distance : Ahead'[n] = Ahead[n]) /\ Distance' = Distance /\ Distance \in Nat
  BY StillDistance
<1>2. PICK d \in Nat : d = Distance
  BY <1>1
<1>3. PICK e, f, e2, f2 : e = HeldRows /\ f = Held /\ e2 = HeldRows' /\ f2 = Held'
  OBVIOUS
<1>4. Gathers(Items, e, f) /\ Gathers(Items, e2, f2)
  BY <1>3 DEF HeldShape
<1>5. ASSUME NEW n \in 0..d - 1 PROVE e2[n] = e[n]
  <2>1. PICK b : b = Ahead[n]
    OBVIOUS
  <2>2. b \in InUse /\ e[n] = Row(b) /\ e2[n] = Row(b)'
    BY <1>1, <1>2, <1>3, <2>1, RowsInPlace
  <2>3. b # t
    BY <1>2, <2>1 DEF HeldShape, TailAhead, FirstAt
  <2> QED BY <2>2, <2>3
<1>6. e2[d] = Append(e[d], x)
  <2>1. t = Ahead[d]
    BY <1>2 DEF HeldShape, TailAhead, FirstAt
  <2>2. d \in 0..Distance
    BY <1>2
  <2>3. e[d] = Row(t) /\ e2[d] = Row(t)'
    BY <1>1, <1>2, <1>3, <2>1, <2>2, RowsInPlace
  <2> QED BY <2>3
<1>7. f2[d] = Append(f[d], x)
  <2>1. \A i \in 0..d - 1 : e2[i] = e[i]
    BY <1>5
  <2> HIDE DEF Items
  <2> QED BY <1>4, <1>6, <2>1, GatherAppend
<1> QED BY <1>1, <1>2, <1>3, <1>7 DEF Contents

\* The next block joins those in use, with its element.
LEMMA ContentsExtend ==
    ASSUME HeldShape, HeldShape', frontBlock' = frontBlock, tailBlock' = NextBlock, block' = block,
           NextBlock # frontBlock,
           NEW c, c = NextBlock, NEW x \in Items, Row(c)' = <<x>>,
           \A b \in InUse : Row(b)' = Row(b)
    PROVE  Contents' = Append(Contents, x) /\ InUse' = InUse \union {NextBlock}
<1>1. \A n \in 0..Distance : Ahead'[n] = Ahead[n]
  BY StillAhead DEF HeldShape
<1>2. PICK a, a2, d, d2 : a = Ahead /\ a2 = Ahead' /\ d = Distance /\ d2 = Distance'
  OBVIOUS
<1>3. FirstAt(a, d, tailBlock) /\ FirstAt(a2, d2, c) /\ d \in Nat
  BY <1>2 DEF HeldShape, TailAhead, FirstAt
<1>4. a2[d + 1] = c
  <2>1. a2[d + 1] = block[a2[d]].next
    BY <1>2, <1>3 DEF HeldShape, Chain
  <2>2. a2[d] = a[d] /\ a[d] = tailBlock
    BY <1>1, <1>2, <1>3 DEF FirstAt
  <2> QED BY <2>1, <2>2 DEF NextBlock
<1>5. FirstAt(a2, d + 1, c)
  <2>1. ASSUME NEW m \in 0..(d + 1) - 1 PROVE a2[m] # c
    <3>1. m \in 0..d
      BY <1>3
    <3>2. Ahead[m] # NextBlock
      BY <1>2, <3>1 DEF HeldShape, TailAhead
    <3> QED BY <1>1, <1>2, <3>1, <3>2
  <2> QED BY <1>3, <1>4, <2>1 DEF FirstAt
<1>6. d2 = d + 1
  BY <1>3, <1>5, FirstIsUnique
<1>7. PICK e, f, e2, f2 : e = HeldRows /\ f = Held /\ e2 = HeldRows' /\ f2 = Held'
  OBVIOUS
<1>8. Gathers(Items, e, f) /\ Gathers(Items, e2, f2)
  BY <1>7 DEF HeldShape
<1>9. ASSUME NEW n \in 0..d PROVE e2[n] = e[n]
  <2>1. PICK b : b = Ahead[n]
    OBVIOUS
  <2>2. b \in InUse /\ e[n] = Row(b) /\ e2[n] = Row(b)'
    BY <1>1, <1>2, <1>3, <1>7, <2>1, RowsInPlace
  <2> QED BY <2>2
<1>10. f2[d] = f[d]
  BY <1>3, <1>8, <1>9, GatherSame
<1>11. e2[d + 1] = <<x>>
  <2>1. HeldRows'[d + 1] = Row(Ahead[d + 1])'
    BY <1>3 DEF HeldRows
  <2>2. Ahead'[d + 1] = c
    BY <1>2, <1>4
  <2>3. HeldRows'[d + 1] = Row(c)'
    BY <2>1, <2>2 DEF Row, Taken
  <2> QED BY <1>7, <2>3
<1>12. f2[d + 1] = f[d] \o <<x>>
  BY <1>3, <1>8, <1>10, <1>11 DEF Gathers
<1>13. f[d] \in Seq(Items)
  BY <1>3, <1>8 DEF Gathers
<1>14. f2[d + 1] = Append(f[d], x)
  BY <1>12, <1>13, AppendIsConcat
<1>15. InUse' = InUse \union {NextBlock}
  <2>1. InUse = {a[n] : n \in 0..d} /\ InUse' = {a2[n] : n \in 0..d + 1}
    BY <1>2, <1>6 DEF InUse
  <2>2. 0..d + 1 = (0..d) \union {d + 1}
    BY <1>3
  <2>3. \A n \in 0..d : a2[n] = a[n]
    BY <1>1, <1>2
  <2> QED BY <1>4, <2>1, <2>2, <2>3
<1>16. Contents = f[d] /\ Contents' = f2[d + 1]
  BY <1>2, <1>6, <1>7 DEF Contents
<1> QED BY <1>14, <1>15, <1>16

\* The first element of the front block's row is the first of all that leaves.
LEMMA ContentsShrink ==
    ASSUME HeldShape, HeldShape', frontBlock' = frontBlock, tailBlock' = tailBlock,
           \A b \in Linked : b # tailBlock => block'[b].next = block[b].next,
           NEW t, t = frontBlock, Row(t) # <<>>, Row(t)' = Tail(Row(t)),
           \A b \in InUse : b # t => Row(b)' = Row(b)
    PROVE  Contents # <<>> /\ Contents' = Tail(Contents)
<1>1. (\A n \in 0..Distance : Ahead'[n] = Ahead[n]) /\ Distance' = Distance /\ Distance \in Nat
  BY StillDistance
<1>2. PICK d \in Nat : d = Distance
  BY <1>1
<1>3. PICK e, f, e2, f2 : e = HeldRows /\ f = Held /\ e2 = HeldRows' /\ f2 = Held'
  OBVIOUS
<1>4. Gathers(Items, e, f) /\ Gathers(Items, e2, f2)
  BY <1>3 DEF HeldShape
<1>5. t = Ahead[0] /\ 0 \in 0..Distance
  BY <1>1 DEF HeldShape, Chain
<1>6. ASSUME NEW n \in 1..d PROVE e2[n] = e[n]
  <2>1. PICK b : b = Ahead[n]
    OBVIOUS
  <2>0. n \in 0..Distance /\ n # 0
    BY <1>2
  <2>2. b \in InUse /\ e[n] = Row(b) /\ e2[n] = Row(b)'
    BY <1>1, <1>3, <2>0, <2>1, RowsInPlace
  <2>3. b # t
    BY <1>5, <2>0, <2>1 DEF HeldShape, TailAhead
  <2> QED BY <2>2, <2>3
<1>7. e[0] = Row(t) /\ e2[0] = Row(t)'
  BY <1>1, <1>3, <1>5, RowsInPlace
<1>8. e[0] # <<>> /\ e2[0] = Tail(e[0])
  BY <1>7
<1>9. f[d] # <<>> /\ f2[d] = Tail(f[d])
  BY <1>4, <1>6, <1>8, GatherTail
<1> QED BY <1>1, <1>2, <1>3, <1>9 DEF Contents

\* The front block is left, when it is empty.
LEMMA ContentsPass ==
    ASSUME HeldShape, HeldShape', block' = block, tailBlock' = tailBlock, frontBlock # tailBlock,
           frontBlock' = block[frontBlock].next,
           NEW t, t = frontBlock, Row(t) = <<>>,
           \A b \in InUse : b # t => Row(b)' = Row(b)
    PROVE  Contents' = Contents /\ InUse' = InUse \ {frontBlock}
<1>1. PICK a, a2, d, d2 : a = Ahead /\ a2 = Ahead' /\ d = Distance /\ d2 = Distance'
  OBVIOUS
<1>2. FirstAt(a, d, tailBlock) /\ FirstAt(a2, d2, tailBlock) /\ d \in Nat
  BY <1>1 DEF HeldShape, TailAhead, FirstAt
<1>3. /\ a[0] = frontBlock /\ \A n \in Nat : a[n + 1] = block[a[n]].next
      /\ a2[0] = block[frontBlock].next /\ \A n \in Nat : a2[n + 1] = block[a2[n]].next
  BY <1>1 DEF HeldShape, Chain
<1>4. \A n \in Nat : a2[n] = a[n + 1]
  <2> DEFINE S == {n \in Nat : a2[n] = a[n + 1]}
  <2>1. 0 \in S
    <3>1. a[0 + 1] = block[a[0]].next
      BY <1>3
    <3>2. a2[0] = a[0 + 1]
      BY <1>3, <3>1
    <3> QED BY <3>2
  <2>2. ASSUME NEW n \in S PROVE n + 1 \in S
    <3>1. PICK k \in Nat : k = n + 1
      OBVIOUS
    <3>2. a2[k] = block[a2[n]].next /\ a[k + 1] = block[a[k]].next /\ a2[n] = a[k]
      BY <1>3, <3>1
    <3> QED BY <3>1, <3>2
  <2>3. S \subseteq Nat
    OBVIOUS
  <2> HIDE DEF S
  <2>4. S = Nat
    BY <2>1, <2>2, <2>3, Induction
  <2> QED BY <2>4 DEF S
<1>5. PICK c \in Nat : c + 1 = d
  <2>1. d # 0
    BY <1>2, <1>3 DEF FirstAt
  <2>2. d - 1 \in Nat /\ (d - 1) + 1 = d
    BY <1>2, <2>1
  <2> QED BY <2>2
<1>6. FirstAt(a2, c, tailBlock)
  <2>1. a2[c] = tailBlock
    BY <1>2, <1>4, <1>5 DEF FirstAt
  <2>2. ASSUME NEW m \in 0..c - 1 PROVE a2[m] # tailBlock
    <3>1. m \in Nat /\ m + 1 \in 0..d - 1
      BY <1>5
    <3> QED BY <1>2, <1>4, <3>1 DEF FirstAt
  <2> QED BY <2>1, <2>2 DEF FirstAt
<1>7. d2 = c
  BY <1>2, <1>6, FirstIsUnique
<1>8. PICK e, f, e2, f2 : e = HeldRows /\ f = Held /\ e2 = HeldRows' /\ f2 = Held'
  OBVIOUS
<1>9. Gathers(Items, e, f) /\ Gathers(Items, e2, f2)
  BY <1>8 DEF HeldShape
<1>10. ASSUME NEW i \in 0..c PROVE e2[i] = e[i + 1]
  <2>1. i \in Nat /\ i + 1 \in 0..d /\ i + 1 # 0 /\ 0 \in 0..d
    BY <1>5
  <2>2. PICK b : b = a[i + 1] /\ b = a2[i]
    BY <1>4, <2>1
  <2>3. b \in InUse /\ b # t
    <3>1. b \in InUse
      BY <1>1, <2>1, <2>2 DEF InUse
    <3>2. \A m, n \in 0..d : a[m] = a[n] => m = n
      BY <1>1 DEF HeldShape, TailAhead
    <3>3. a[i + 1] # a[0]
      BY <2>1, <3>2
    <3> QED BY <1>3, <2>2, <3>1, <3>3
  <2>4. e[i + 1] = Row(Ahead[i + 1])
    BY <1>8, <2>1 DEF HeldRows
  <2>5. HeldRows'[i] = Row(Ahead[i])'
    BY <2>1 DEF HeldRows
  <2>6. Ahead'[i] = b
    BY <1>1, <2>2
  <2>7. HeldRows'[i] = Row(b)'
    BY <2>5, <2>6 DEF Row, Taken
  <2>8. e[i + 1] = Row(b)
    BY <1>1, <2>2, <2>4
  <2> QED BY <1>8, <2>3, <2>7, <2>8
<1>11. e[0] = <<>>
  <2>1. HeldRows[0] = Row(Ahead[0])
    BY DEF HeldRows
  <2>2. Ahead[0] = t
    BY <1>1, <1>3
  <2> QED BY <1>8, <2>1, <2>2
<1>12. f2[c] = f[c + 1]
  BY <1>9, <1>10, <1>11, GatherShift
<1>13. InUse' = InUse \ {frontBlock}
  <2>1. InUse = {a[n] : n \in 0..d} /\ InUse' = {a2[n] : n \in 0..c}
    BY <1>1, <1>7 DEF InUse
  <2>2. \A m, n \in 0..d : a[m] = a[n] => m = n
    BY <1>1 DEF HeldShape, TailAhead
  <2>3. ASSUME NEW b \in InUse' PROVE b \in InUse \ {frontBlock}
    <3>1. PICK n \in 0..c : b = a2[n]
      BY <2>1
    <3>0. n \in Nat /\ n + 1 \in 0..d /\ 0 \in 0..d /\ n + 1 # 0
      BY <1>5
    <3>2. b = a[n + 1]
      BY <1>4, <3>0, <3>1
    <3>3. a[n + 1] # a[0]
      BY <2>2, <3>0
    <3> QED BY <1>3, <2>1, <3>0, <3>2, <3>3
  <2>4. ASSUME NEW b \in InUse \ {frontBlock} PROVE b \in InUse'
    <3>1. PICK n \in 0..d : b = a[n]
      BY <2>1
    <3>2. n # 0
      BY <1>3, <3>1
    <3>3. n - 1 \in 0..c /\ (n - 1) + 1 = n /\ n - 1 \in Nat
      BY <1>5, <3>2
    <3>4. b = a2[n - 1]
      BY <1>4, <3>1, <3>3
    <3> QED BY <2>1, <3>3, <3>4
  <2> QED BY <2>3, <2>4
<1>14. Contents = f[d] /\ Contents' = f2[c]
  BY <1>1, <1>7, <1>8 DEF Contents
<1> QED BY <1>5, <1>12, <1>13, <1>14

\* Where the first element is, and that there is one.
LEMMA ContentsTyped == HeldShape => Contents \in Seq(Items)
<1> SUFFICES ASSUME HeldShape PROVE Contents \in Seq(Items)
  OBVIOUS
<1>1. PICK f, d : f = Held /\ d = Distance
  OBVIOUS
<1>2. f \in [Nat -> Seq(Items)] /\ d \in Nat
  BY <1>1 DEF HeldShape, Gathers, TailAhead, FirstAt
<1>3. f[d] \in Seq(Items)
  BY <1>2
<1> QED BY <1>1, <1>3 DEF Contents

\* It is the first in the front block,
LEMMA FirstInFront ==
    ASSUME HeldShape, Row(frontBlock) # <<>>
    PROVE  Contents # <<>> /\ Head(Contents) = Head(Row(frontBlock))
<1>1. PICK e, f, d : e = HeldRows /\ f = Held /\ d = Distance
  OBVIOUS
<1>2. Gathers(Items, e, f) /\ d \in Nat
  BY <1>1 DEF HeldShape, TailAhead, FirstAt
<1>3. e[0] = Row(frontBlock)
  <2>1. HeldRows[0] = Row(Ahead[0])
    BY DEF HeldRows
  <2> QED BY <1>1, <2>1 DEF HeldShape, Chain
<1>4. f[d] # <<>> /\ Head(f[d]) = Head(e[0])
  BY <1>2, <1>3, GatherHead
<1> QED BY <1>1, <1>3, <1>4 DEF Contents

\* ... or, when that is empty, the first in the block behind it;
LEMMA FirstInNext ==
    ASSUME HeldShape, frontBlock # tailBlock, Row(frontBlock) = <<>>,
           NEW c, c = block[frontBlock].next, Row(c) # <<>>
    PROVE  Contents # <<>> /\ Head(Contents) = Head(Row(c))
<1>1. PICK e, f, d : e = HeldRows /\ f = Held /\ d = Distance
  OBVIOUS
<1>2. Gathers(Items, e, f) /\ d \in Nat
  BY <1>1 DEF HeldShape, TailAhead, FirstAt
<1>3. e[0] = <<>> /\ e[1] = Row(c)
  <2>1. HeldRows[0] = Row(Ahead[0]) /\ HeldRows[1] = Row(Ahead[1])
    BY DEF HeldRows
  <2>2. Ahead[0] = frontBlock /\ Ahead[0 + 1] = block[Ahead[0]].next
    BY DEF HeldShape, Chain
  <2>3. Ahead[0] = frontBlock /\ Ahead[1] = c
    BY <2>2
  <2> QED BY <1>1, <2>1, <2>3
<1>4. d # 0
  BY <1>1 DEF HeldShape, TailAhead, FirstAt, Chain
<1>5. f[d] # <<>> /\ Head(f[d]) = Head(e[1])
  BY <1>2, <1>3, <1>4, GatherSecond
<1> QED BY <1>1, <1>3, <1>5 DEF Contents

\* ... there is none when an empty front block is the tail block.
LEMMA NothingHeld ==
    ASSUME HeldShape, frontBlock = tailBlock, Row(frontBlock) = <<>>
    PROVE  Contents = <<>>
<1>1. PICK e, f, d : e = HeldRows /\ f = Held /\ d = Distance
  OBVIOUS
<1>2. Gathers(Items, e, f) /\ d \in Nat
  BY <1>1 DEF HeldShape, TailAhead, FirstAt
<1>3. d = 0
  <2>1. Ahead[0] = tailBlock
    BY DEF HeldShape, Chain
  <2>2. \A m \in 0..d - 1 : Ahead[m] # tailBlock
    BY <1>1 DEF HeldShape, TailAhead, FirstAt
  <2>3. ~(0 \in 0..d - 1)
    BY <2>1, <2>2
  <2> QED BY <1>2, <2>3
<1>4. e[0] = Row(frontBlock)
  <2>1. HeldRows[0] = Row(Ahead[0])
    BY DEF HeldRows
  <2> QED BY <1>1, <2>1 DEF HeldShape, Chain
<1>5. f[0] = e[0]
  BY <1>2 DEF Gathers
<1> QED BY <1>1, <1>3, <1>4, <1>5 DEF Contents

(* The steps that leave what the queue holds as it is *)

SameSlots(b) == block'[b].size = block[b].size /\ block'[b].front = block[b].front /\ block'[b].tail = block[b].tail

Stays ==
    /\ frontBlock' = frontBlock /\ tailBlock' = tailBlock
    /\ \A b \in 1..Len(block) : b # tailBlock => block'[b].next = block[b].next
    /\ \A b \in InUse : Row(b)' = Row(b) /\ SameSlots(b)

\* The blocks in use are linked and well formed, and have front and tail among
\* them.
LEMMA InUseFacts ==
    ASSUME RingInv
    PROVE  /\ InUse \subseteq 1..Len(block) /\ InUse \subseteq Linked /\ Linked \subseteq 1..Len(block)
           /\ frontBlock \in InUse /\ tailBlock \in InUse
           /\ NextBlock # frontBlock => NextBlock \notin InUse
           /\ NextBlock \in Linked
           /\ block \in Seq(Block) /\ Len(block) \in Nat
           /\ \A b \in 1..Len(block) : block[b] \in Block /\ Shaped(block[b]) /\ Taken(b) \in BOOLEAN
                                       /\ (Taken(b) => pop.value \in Items)
<1>1. HeldShape
  BY HeldIsShaped
<1>2. Linked \subseteq 1..Len(block) /\ NextBlock \in Linked
  BY RingFacts DEF RingInv, NextBlock
<1>3. PICK a, d : a = Ahead /\ d = Distance
  OBVIOUS
<1>4. InUse = {a[n] : n \in 0..d}
  BY <1>3 DEF InUse
<1>5. d \in Nat /\ a[d] = tailBlock /\ a[0] = frontBlock /\ \A n \in Nat : a[n] \in Linked
  BY <1>1, <1>3 DEF HeldShape, Chain, TailAhead, FirstAt
<1>6. InUse \subseteq Linked /\ frontBlock \in InUse /\ tailBlock \in InUse
  BY <1>4, <1>5
<1>7. NextBlock # frontBlock => \A m \in 0..d : a[m] # NextBlock
  BY <1>1, <1>3 DEF HeldShape, TailAhead
<1>8. NextBlock # frontBlock => NextBlock \notin InUse
  BY <1>4, <1>7
<1>9. block \in Seq(Block) /\ Len(block) \in Nat
  BY DEF RingInv, RingTypeOK
<1> QED BY <1>2, <1>6, <1>8, <1>9, ElementsAreRow

\* When rows, links and ends stay, so does what is held.
LEMMA StaysHeld ==
    ASSUME RingInv, RingInv', Stays
    PROVE  Contents' = Contents /\ InUse' = InUse
<1>1. HeldShape /\ HeldShape'
  BY HeldIsShaped, HeldStaysShaped
<1>2. \A b \in Linked : b # tailBlock => block'[b].next = block[b].next
  BY InUseFacts DEF Stays
<1>3. Contents' = Contents
  BY <1>1, <1>2, ContentsKept DEF Stays
<1>4. InUse' = InUse
  BY <1>1, <1>2, StillDistance DEF Stays
<1> QED BY <1>3, <1>4

\* A row depends on the indices, the slots and what was moved out alone.
LEMMA RowOfSame ==
    ASSUME NEW k, NEW r, r.size = k.size, r.front = k.front, r.tail = k.tail, r.data = k.data,
           NEW t \in BOOLEAN, NEW t2 \in BOOLEAN, t2 = t, NEW v, NEW v2, t => v2 = v
    PROVE  RowOf(r, t2, v2) = RowOf(k, t, v)
  BY DEF RowOf

\* A block of which nothing that counts changes.
LEMMA RowUnchanged ==
    ASSUME NEW b, SameSlots(b), block'[b].data = block[b].data,
           Taken(b)' <=> Taken(b), Taken(b) => pop'.value = pop.value
    PROVE  Row(b)' = Row(b)
<1>1. PICK k, r, v, v2 : k = block[b] /\ r = block'[b] /\ v = pop.value /\ v2 = pop'.value
  OBVIOUS
<1>2. PICK t \in BOOLEAN, t2 \in BOOLEAN : t = Taken(b) /\ t2 = Taken(b)'
  BY DEF Taken
<1>3. t2 = t
  BY <1>2
<1>4. RowOf(r, t2, v2) = RowOf(k, t, v)
  BY <1>1, <1>2, <1>3, RowOfSame DEF SameSlots
<1>5. Row(b) = RowOf(k, t, v)
  BY <1>1, <1>2 DEF Row
<1>6. Row(b)' = RowOf(r, t2, v2)
  BY <1>1, <1>2 DEF Row
<1> QED BY <1>4, <1>5, <1>6

\* A step that only looks leaves each row.
LEMMA LookStays ==
    ASSUME RingInv, UNCHANGED <<block, frontBlock, tailBlock>>,
           (pop'.pc = "release") <=> (pop.pc = "release"), pop.pc = "release" => pop'.value = pop.value
    PROVE  Stays /\ \A b : Row(b)' = Row(b)
<1>1. ASSUME NEW b PROVE Row(b)' = Row(b) /\ SameSlots(b)
  <2>1. SameSlots(b) /\ block'[b].data = block[b].data
    BY DEF SameSlots
  <2>2. (Taken(b)' <=> Taken(b)) /\ (Taken(b) => pop'.value = pop.value)
    BY DEF Taken
  <2> QED BY <2>1, <2>2, RowUnchanged
<1> QED BY <1>1 DEF Stays

\* What one block's change does.
LEMMA OneChanges ==
    ASSUME RingInv, NEW b \in 1..Len(block), NEW r, block' = [block EXCEPT ![b] = r]
    PROVE  block'[b] = r /\ \A c \in 1..Len(block) : c # b => block'[c] = block[c]
<1>1. block \in Seq(Block)
  BY DEF RingInv, RingTypeOK
<1> QED BY <1>1

\* A change to one block leaves the rows of the others.
LEMMA OthersStay ==
    ASSUME RingInv, NEW b \in 1..Len(block), NEW r, block' = [block EXCEPT ![b] = r],
           UNCHANGED <<frontBlock, tailBlock>>,
           NEW c \in 1..Len(block), c # b,
           Taken(c)' <=> Taken(c), Taken(c) => pop'.value = pop.value
    PROVE  Row(c)' = Row(c) /\ SameSlots(c) /\ block'[c].next = block[c].next /\ block'[c].data = block[c].data
<1>1. block'[c] = block[c]
  BY OneChanges
<1>2. SameSlots(c) /\ block'[c].data = block[c].data
  BY <1>1 DEF SameSlots
<1> QED BY <1>1, <1>2, RowUnchanged

\* A change to one block that leaves its row, if it is in use, leaves what is
\* held.
LEMMA OneStays ==
    ASSUME RingInv, NEW b \in 1..Len(block), NEW r, block' = [block EXCEPT ![b] = r],
           UNCHANGED <<frontBlock, tailBlock>>,
           \A c \in 1..Len(block) : c # b => (Taken(c)' <=> Taken(c)) /\ (Taken(c) => pop'.value = pop.value),
           b = tailBlock \/ r.next = block[b].next,
           b \in InUse => Row(b)' = Row(b) /\ SameSlots(b)
    PROVE  Stays
<1>1. \A c \in 1..Len(block) : c # b => Row(c)' = Row(c) /\ SameSlots(c) /\ block'[c].next = block[c].next
  BY OthersStay
<1>2. block'[b].next = r.next
  BY OneChanges
<1> QED BY <1>1, <1>2, InUseFacts DEF Stays

\* A copy of the other side's index or a link is written, or a block not in use.
LEMMA CopyStays ==
    ASSUME RingInv, NEW b \in 1..Len(block), NEW r, block' = [block EXCEPT ![b] = r],
           UNCHANGED <<frontBlock, tailBlock>>,
           (pop'.pc = "release") <=> (pop.pc = "release"), pop.pc = "release" => pop'.value = pop.value,
           b = tailBlock \/ r.next = block[b].next,
           \/ b \notin InUse
           \/ r.size = block[b].size /\ r.front = block[b].front /\ r.tail = block[b].tail /\ r.data = block[b].data
    PROVE  Stays
<1>1. \A c : (Taken(c)' <=> Taken(c)) /\ (Taken(c) => pop'.value = pop.value)
  BY DEF Taken
<1>2. ASSUME b \in InUse PROVE Row(b)' = Row(b) /\ SameSlots(b)
  <2>1. SameSlots(b) /\ block'[b].data = block[b].data
    BY <1>2, OneChanges DEF SameSlots
  <2> QED BY <1>1, <2>1, RowUnchanged
<1> QED BY <1>1, <1>2, OneStays

\* A push that only looks for room leaves what is held,
LEMMA ProducerLookStays ==
    ASSUME RingInv, (\E c \in BOOLEAN : CallPush(c)) \/ FindFreeBlock \/ FindNoBlock \/ Refuse
    PROVE  Stays
<1>1. UNCHANGED <<block, frontBlock, tailBlock, pop>>
  BY DEF CallPush, FindFreeBlock, FindNoBlock, Refuse
<1> QED BY <1>1, LookStays

\* ... also when it copies the consumer's index,
LEMMA ReloadFrontStays == ASSUME RingInv, ReloadFront PROVE Stays
<1>1. push.pc = "reload" /\ UNCHANGED <<frontBlock, tailBlock, pop>>
  BY DEF ReloadFront
<1>2. PICK b \in 1..Len(block) : b = tailBlock
  BY <1>1, PushFacts
<1> DEFINE r == [block[b] EXCEPT !.localFront = block[b].front]
<1>3. block' = [block EXCEPT ![b] = r]
  BY <1>2 DEF ReloadFront
<1>4. r.size = block[b].size /\ r.front = block[b].front /\ r.tail = block[b].tail /\ r.data = block[b].data
  BY <1>1, <1>2, PushFacts DEF Block
<1> HIDE DEF r
<1> QED BY <1>1, <1>2, <1>3, <1>4, CopyStays

\* ... or sees that the next block is free,
LEMMA UseNextStays == ASSUME RingInv, UseNext PROVE Stays
<1>1. push.pc = "useNext" /\ UNCHANGED <<frontBlock, tailBlock, pop>>
  BY DEF UseNext
<1>2. PICK b \in 1..Len(block) : b = NextBlock
  BY <1>1, PushFacts
<1> DEFINE r == [block[b] EXCEPT !.localFront = block[b].front]
<1>3. block' = [block EXCEPT ![b] = r]
  BY <1>2 DEF UseNext
<1>4. r.size = block[b].size /\ r.front = block[b].front /\ r.tail = block[b].tail /\ r.data = block[b].data
      /\ r.next = block[b].next
  BY <1>1, <1>2, PushFacts DEF Block
<1> HIDE DEF r
<1> QED BY <1>1, <1>2, <1>3, <1>4, CopyStays

\* The slot that is filled in is behind the last element.
LEMMA ConstructStays ==
    ASSUME RingInv, RingInv', Construct
    PROVE  Stays /\ block'[tailBlock].data[block'[tailBlock].tail] = push.value
<1>1. push.pc = "construct" /\ UNCHANGED <<frontBlock, tailBlock, pop>>
  BY DEF Construct
<1>2. PICK b \in 1..Len(block) : b = tailBlock
  BY <1>1, PushFacts
<1>3. block[b] \in Block /\ Shaped(block[b]) /\ Taken(b) \in BOOLEAN /\ (Taken(b) => pop.value \in Items)
  BY InUseFacts
<1>4. PICK k \in Block, taken \in BOOLEAN, v \in {pop.value}, x \in {push.value} : k = block[b] /\ taken = Taken(b) /\ v = pop.value /\ x = push.value
  BY <1>3
<1> DEFINE d == [k.data EXCEPT ![k.tail] = x]
           r == [k EXCEPT !.data = d]
<1>5. block' = [block EXCEPT ![b] = r]
  BY <1>2, <1>4 DEF Construct
<1>6. r.size = k.size /\ r.front = k.front /\ r.tail = k.tail /\ r.next = k.next /\ r.data = d
  BY DEF Block
<1>7. k.tail \in 0..k.size - 1 /\ k.data \in [0..k.size - 1 -> Elements]
  BY <1>3, <1>4 DEF Block, Shaped
<1>8. d[k.tail] = x /\ \A i \in 0..k.size - 1 : i # k.tail => d[i] = k.data[i]
  BY <1>7
<1> HIDE DEF d, r
<1>9. block'[b] = r
  BY <1>5, OneChanges
<1>10. r \in Block /\ Shaped(r)
  <2>1. block' \in Seq(Block) /\ \A c \in 1..Len(block') : Shaped(block'[c])
    BY DEF RingInv, RingTypeOK, BlocksSound
  <2>2. block \in Seq(Block) /\ Len(block') = Len(block)
    <3>1. block \in Seq(Block)
      BY DEF RingInv, RingTypeOK
    <3> QED BY <1>5, <3>1
  <2>3. b \in 1..Len(block')
    BY <2>2
  <2>4. block'[b] \in Block /\ Shaped(block'[b])
    BY <2>1, <2>3
  <2> QED BY <1>9, <2>4
<1>11. RowOf(r, taken, v) = RowOf(k, taken, v)
  <2>1. Shaped(k) /\ (taken => v \in Items)
    BY <1>3, <1>4
  <2>2. \A i \in 0..k.size - 1 : i # k.tail => r.data[i] = k.data[i]
    BY <1>6, <1>8
  <2> QED BY <1>6, <1>10, <2>1, <2>2, RowFill
<1>12. Row(b)' = Row(b)
  <2>1. Row(b) = RowOf(k, taken, v)
    BY <1>4 DEF Row
  <2>2. Row(b)' = RowOf(r, taken, v)
    BY <1>1, <1>4, <1>9 DEF Row, Taken
  <2> QED BY <1>11, <2>1, <2>2
<1>13. SameSlots(b)
  BY <1>4, <1>6, <1>9 DEF SameSlots
<1>14. \A c \in 1..Len(block) : (Taken(c)' <=> Taken(c)) /\ (Taken(c) => pop'.value = pop.value)
  BY <1>1 DEF Taken
<1>15. Stays
  BY <1>1, <1>2, <1>5, <1>12, <1>13, <1>14, OneStays
<1>16. block'[b].data[block'[b].tail] = push.value
  BY <1>4, <1>6, <1>8, <1>9
<1> QED BY <1>2, <1>15, <1>16

\* The next block is not in use yet.
LEMMA NextStays ==
    ASSUME RingInv, ConstructNext \/ PublishNext
    PROVE  Stays
<1>1. push.pc \in {"constructNext", "publishNext"} /\ UNCHANGED <<frontBlock, tailBlock, pop>>
  BY DEF ConstructNext, PublishNext
<1>2. PICK b \in 1..Len(block) : b = NextBlock
  BY <1>1, PushFacts
<1>3. b \notin InUse /\ block[b] \in Block
  BY <1>1, <1>2, NextFacts, InUseFacts
<1>4. CASE ConstructNext
  <2> DEFINE r == [block[b] EXCEPT !.data[block[b].tail] = push.value]
  <2>1. block' = [block EXCEPT ![b] = r]
    BY <1>2, <1>4 DEF ConstructNext
  <2>2. r.next = block[b].next
    BY <1>3 DEF Block
  <2> HIDE DEF r
  <2> QED BY <1>1, <1>3, <2>1, <2>2, CopyStays
<1>5. CASE PublishNext
  <2> DEFINE r == [block[b] EXCEPT !.tail = NextTail(b)]
  <2>1. block' = [block EXCEPT ![b] = r]
    BY <1>2, <1>5 DEF PublishNext
  <2>2. r.next = block[b].next
    BY <1>3 DEF Block
  <2> HIDE DEF r
  <2> QED BY <1>1, <1>3, <2>1, <2>2, CopyStays
<1> QED BY <1>4, <1>5

\* ... or allocates a block that is not linked yet,
LEMMA AllocateStays == ASSUME RingInv, Allocate PROVE Stays
<1>1. UNCHANGED <<frontBlock, tailBlock, pop>>
  BY DEF Allocate
<1>2. block \in Seq(Block) /\ Len(block) \in Nat
  BY DEF RingInv, RingTypeOK
<1>3. \A b \in 1..Len(block) : block'[b] = block[b]
  BY <1>2 DEF Allocate
<1>4. ASSUME NEW b \in 1..Len(block) PROVE Row(b)' = Row(b) /\ SameSlots(b) /\ block'[b].next = block[b].next
  <2>1. block'[b] = block[b]
    BY <1>3
  <2>2. SameSlots(b) /\ block'[b].data = block[b].data
    BY <2>1 DEF SameSlots
  <2>3. (Taken(b)' <=> Taken(b)) /\ (Taken(b) => pop'.value = pop.value)
    BY <1>1 DEF Taken
  <2> QED BY <2>1, <2>2, <2>3, RowUnchanged
<1> QED BY <1>1, <1>4, InUseFacts DEF Stays

\* ... or links it behind the tail block.
LEMMA LinkStays == ASSUME RingInv, Link PROVE Stays
<1>1. push.pc = "link" /\ UNCHANGED <<frontBlock, tailBlock, pop>>
  BY DEF Link
<1>2. PICK b \in 1..Len(block) : b = tailBlock
  BY <1>1, PushFacts
<1> DEFINE r == [block[b] EXCEPT !.next = Len(block)]
<1>3. block' = [block EXCEPT ![b] = r]
  BY <1>2 DEF Link
<1>4. r.size = block[b].size /\ r.front = block[b].front /\ r.tail = block[b].tail /\ r.data = block[b].data
  BY <1>1, <1>2, PushFacts DEF Block
<1> HIDE DEF r
<1> QED BY <1>1, <1>2, <1>3, <1>4, CopyStays

\* A pop that only looks for an element leaves what is held,
LEMMA ConsumerLookStays ==
    ASSUME RingInv,
           (\E op \in {"pop", "peek"} : CallPop(op)) \/ SeeTailElsewhere \/ SeeNothing \/ ReadNext \/ Peek
    PROVE  Stays
<1>1. UNCHANGED <<block, frontBlock, tailBlock>>
  BY DEF CallPop, SeeTailElsewhere, SeeNothing, ReadNext, Peek
<1>2. pop.pc # "release"
  BY DEF CallPop, SeeTailElsewhere, SeeNothing, ReadNext, Peek, Idle
<1>3. pop'.pc # "release"
  <2>1. ASSUME NEW op \in {"pop", "peek"}, CallPop(op) PROVE pop'.pc # "release"
    BY <2>1 DEF CallPop
  <2>2. ASSUME SeeTailElsewhere PROVE pop'.pc # "release"
    BY <2>2, PopMoves DEF SeeTailElsewhere, RingInv, PopPcs
  <2>3. ASSUME ReadNext PROVE pop'.pc # "release"
    <3>1. pop \in PopCalls
      BY <2>3 DEF ReadNext, RingInv, RingTypeOK, Idle
    <3> QED BY <2>3, <3>1 DEF ReadNext, PopCalls
  <2>4. ASSUME SeeNothing \/ Peek PROVE pop'.pc # "release"
    BY <2>4 DEF SeeNothing, Peek, PopReturns, Idle
  <2> QED BY <2>1, <2>2, <2>3, <2>4
<1> QED BY <1>1, <1>2, <1>3, LookStays

\* ... also when it copies the producer's index,
LEMMA LoadTailStays ==
    ASSUME RingInv, NEW from \in {"reload", "recheck"}, NEW otherwise \in {"checkTail", "readNext"}, LoadTail(from, otherwise)
    PROVE  Stays
<1>1. pop.pc = from /\ UNCHANGED <<frontBlock, tailBlock>>
  BY DEF LoadTail
<1>2. freed = {}
  BY <1>1, NotDestroyed DEF RingInv
<1>3. PICK b \in 1..Len(block) : b = frontBlock
  BY <1>2, PopFacts
<1> DEFINE r == [block[b] EXCEPT !.localTail = block[b].tail]
<1>4. block' = [block EXCEPT ![b] = r]
  BY <1>3 DEF LoadTail
<1>5. r.size = block[b].size /\ r.front = block[b].front /\ r.tail = block[b].tail /\ r.data = block[b].data
      /\ r.next = block[b].next
  BY <1>2, PopFacts DEF Block
<1>6. pop.pc # "release" /\ pop'.pc # "release"
  BY <1>1, PopMoves DEF LoadTail, RingInv, PopPcs
<1> HIDE DEF r
<1> QED BY <1>1, <1>4, <1>5, <1>6, CopyStays

\* ... or looks at the block behind the front block.
LEMMA EnterNextStays == ASSUME RingInv, EnterNext PROVE Stays
<1>1. pop.pc = "enterNext" /\ UNCHANGED <<frontBlock, tailBlock>>
  BY DEF EnterNext
<1>2. freed = {}
  BY <1>1, NotDestroyed DEF RingInv
<1>3. PICK b \in 1..Len(block) : b = pop.next
  BY <1>1, <1>2, PopFacts DEF RingInv, ConsumerKnows
<1>4. CASE pop.op = "pop"
  <2> DEFINE r == [block[b] EXCEPT !.localTail = block[b].tail]
  <2>1. block' = [block EXCEPT ![b] = r] /\ PopGoes("advanceFront")
    BY <1>3, <1>4 DEF EnterNext
  <2>2. r.size = block[b].size /\ r.front = block[b].front /\ r.tail = block[b].tail /\ r.data = block[b].data
        /\ r.next = block[b].next
    BY <1>2, PopFacts DEF Block
  <2>3. pop'.pc # "release"
    BY <1>1, <2>1, PopMoves DEF RingInv, PopPcs
  <2> HIDE DEF r
  <2> QED BY <1>1, <2>1, <2>2, <2>3, CopyStays
<1>5. CASE pop.op # "pop"
  <2>1. block' = block /\ pop' = Idle
    BY <1>5 DEF EnterNext, PopReturns
  <2> QED BY <1>1, <2>1, LookStays DEF Idle
<1> QED BY <1>4, <1>5

(* The steps of the consumer on an element, and those that change what is held *)

\* The row of a block is empty when the block is, and starts with its first
\* element.
LEMMA RowIsEmpty ==
    ASSUME RingInv, NEW b \in 1..Len(block)
    PROVE  /\ Row(b) = <<>> <=> Empty(b)
           /\ ~Empty(b) => Head(Row(b)) = IF Taken(b) THEN pop.value ELSE block[b].data[block[b].front]
<1>1. block[b] \in Block /\ Shaped(block[b]) /\ Taken(b) \in BOOLEAN /\ (Taken(b) => pop.value \in Items)
  BY InUseFacts
<1>2. PICK k \in Block, taken \in BOOLEAN, v \in {pop.value} : k = block[b] /\ taken = Taken(b) /\ v = pop.value
  BY <1>1
<1>3. Shaped(k) /\ (taken => v \in Items)
  BY <1>1, <1>2
<1>4. RowOf(k, taken, v) = <<>> <=> k.front = k.tail
  BY <1>3, RowEmpty
<1>5. k.front # k.tail => Head(RowOf(k, taken, v)) = IF taken THEN v ELSE k.data[k.front]
  BY <1>3, RowFirst
<1> QED BY <1>2, <1>4, <1>5 DEF Row, Empty

\* What is in the changed block is well formed.
LEMMA ChangedIsBlock ==
    ASSUME RingInv, RingInv', NEW b \in 1..Len(block), NEW r, block' = [block EXCEPT ![b] = r]
    PROVE  block'[b] = r /\ r \in Block /\ Shaped(r)
<1>1. block'[b] = r
  BY OneChanges
<1>2. block' \in Seq(Block) /\ \A c \in 1..Len(block') : Shaped(block'[c])
  BY DEF RingInv, RingTypeOK, BlocksSound
<1>3. block \in Seq(Block)
  BY DEF RingInv, RingTypeOK
<1>4. Len(block') = Len(block)
  BY <1>3
<1>5. block'[b] \in Block /\ Shaped(block'[b])
  BY <1>2, <1>4
<1> QED BY <1>1, <1>5

\* The element that is moved out still counts.
LEMMA TakeStays == ASSUME RingInv, RingInv', Take PROVE Stays
<1>1. pop.pc = "take" /\ UNCHANGED <<frontBlock, tailBlock>>
  BY DEF Take
<1>2. freed = {}
  BY <1>1, NotDestroyed DEF RingInv
<1>3. PICK b \in 1..Len(block) : b = frontBlock
  BY <1>2, PopFacts
<1>4. block[b] \in Block /\ Shaped(block[b])
  BY InUseFacts
<1>5. PICK k \in Block : k = block[b]
  BY <1>4
<1> DEFINE d == [k.data EXCEPT ![k.front] = Raw]
           r == [k EXCEPT !.data = d]
<1>6. block' = [block EXCEPT ![b] = r]
  BY <1>3, <1>5 DEF Take, BlockFront
<1>7. r.size = k.size /\ r.front = k.front /\ r.tail = k.tail /\ r.next = k.next /\ r.data = d
  BY DEF Block
<1>8. k.front \in 0..k.size - 1 /\ k.data \in [0..k.size - 1 -> Elements]
  BY <1>4, <1>5 DEF Block, Shaped
<1>9. \A i \in 0..k.size - 1 : i # k.front => d[i] = k.data[i]
  BY <1>8
<1> HIDE DEF d, r
<1>10. block'[b] = r /\ r \in Block /\ Shaped(r)
  BY <1>6, ChangedIsBlock
<1>11. pop' \in PopCalls /\ pop'.pc = "release" /\ pop'.value = k.data[k.front]
  <2>1. pop \in PopCalls
    BY <1>1 DEF RingInv, RingTypeOK, Idle
  <2>2. pop'.pc = "release" /\ pop'.value = k.data[k.front]
    BY <1>3, <1>5, <2>1 DEF Take, BlockFront, PopCalls
  <2>3. pop' \in PopCalls
    BY <2>2 DEF RingInv, RingTypeOK, Idle
  <2> QED BY <2>2, <2>3
<1>12. PICK w : w = pop.value
  OBVIOUS
<1>13. RowOf(r, TRUE, k.data[k.front]) = RowOf(k, FALSE, w)
  <2>1. Shaped(k) /\ \A i \in 0..k.size - 1 : i # k.front => r.data[i] = k.data[i]
    BY <1>4, <1>5, <1>7, <1>9
  <2> QED BY <1>7, <1>10, <2>1, RowTake
<1>14. ~Taken(b) /\ Taken(b)'
  BY <1>1, <1>3, <1>11 DEF Taken
<1>15. Row(b) = RowOf(k, FALSE, w)
  <2>1. Taken(b) = FALSE
    BY <1>14 DEF Taken
  <2> QED BY <1>5, <1>12, <2>1 DEF Row
<1>16. Row(b)' = RowOf(r, TRUE, k.data[k.front])
  <2>1. Taken(b)' = TRUE
    BY <1>14 DEF Taken
  <2> QED BY <1>10, <1>11, <2>1 DEF Row
<1>17. SameSlots(b)
  BY <1>5, <1>7, <1>10 DEF SameSlots
<1>18. \A c \in 1..Len(block) : c # b => (Taken(c)' <=> Taken(c)) /\ (Taken(c) => pop'.value = pop.value)
  BY <1>1, <1>3 DEF Taken
<1> QED BY <1>1, <1>5, <1>6, <1>7, <1>13, <1>15, <1>16, <1>17, <1>18, OneStays

\* An accepted push adds its element.
LEMMA PublishAdds ==
    ASSUME RingInv, RingInv', Publish, block[tailBlock].data[block[tailBlock].tail] = push.value
    PROVE  /\ Contents' = Append(Contents, push.value) /\ InUse' = InUse
           /\ \A c \in 1..Len(block) : c # tailBlock => SameSlots(c)
<1>1. push.pc = "publish" /\ UNCHANGED <<frontBlock, tailBlock, pop>>
  BY DEF Publish
<1>2. PICK b \in 1..Len(block) : b = tailBlock
  BY <1>1, PushFacts
<1>3. block[b] \in Block /\ Shaped(block[b]) /\ Taken(b) \in BOOLEAN /\ (Taken(b) => pop.value \in Items)
      /\ (Taken(b) => block[b].front # block[b].tail)
  BY <1>1, InUseFacts, PushFacts DEF Empty
<1>4. PICK k \in Block, taken \in BOOLEAN, v \in {pop.value} : k = block[b] /\ taken = Taken(b) /\ v = pop.value
  BY <1>3
<1> DEFINE e == (k.tail + 1) % k.size
           r == [k EXCEPT !.tail = e]
<1>5. block' = [block EXCEPT ![b] = r]
  BY <1>2, <1>4 DEF Publish, NextTail
<1>6. r.size = k.size /\ r.front = k.front /\ r.tail = e /\ r.next = k.next /\ r.data = k.data
  BY DEF Block
<1>7. e = After(k.size, k.tail)
  BY <1>3, <1>4, NextSlot DEF Block, Shaped
<1> HIDE DEF e, r
<1>8. block'[b] = r /\ r \in Block /\ Shaped(r)
  BY <1>5, ChangedIsBlock
<1>9. e # k.front
  <2>1. CopiesAreBehind(k) /\ e # k.localFront
    BY <1>1, <1>2, <1>4, PushFacts DEF RingInv, ProducerKnows, NextTail, e
  <2> QED BY <1>3, <1>4, <1>7, <2>1, BehindPublish, SMTT(30) DEF Block, Shaped, CopiesAreBehind, Behind
<1>10. RowOf(r, taken, v) = Append(RowOf(k, taken, v), k.data[k.tail])
  <2>1. Shaped(k) /\ (taken => v \in Items) /\ (taken => k.front # k.tail)
    BY <1>3, <1>4
  <2> QED BY <1>6, <1>7, <1>8, <1>9, <2>1, RowPublish
<1>11. Row(b) = RowOf(k, taken, v)
  BY <1>4 DEF Row
<1>12. Row(b)' = RowOf(r, taken, v)
  BY <1>1, <1>4, <1>8 DEF Row, Taken
<1>13. PICK x \in Items : x = push.value /\ x = k.data[k.tail]
  <2>1. push.value \in Nat
    BY <1>1 DEF RingInv, RingTypeOK, PushCalls, Idle
  <2>2. push.value = k.data[k.tail]
    BY <1>2, <1>4
  <2> QED BY <2>1, <2>2 DEF Items, Elements
<1>14. Row(b)' = Append(Row(b), x)
  BY <1>10, <1>11, <1>12, <1>13
<1>15. \A c \in 1..Len(block) : (Taken(c)' <=> Taken(c)) /\ (Taken(c) => pop'.value = pop.value)
  BY <1>1 DEF Taken
<1>16. \A c \in 1..Len(block) : c # b => Row(c)' = Row(c) /\ SameSlots(c) /\ block'[c].next = block[c].next
  BY <1>1, <1>5, <1>15, OthersStay
<1>17. HeldShape /\ HeldShape'
  BY HeldIsShaped, HeldStaysShaped
<1>18. \A c \in Linked : c # tailBlock => block'[c].next = block[c].next
  BY <1>2, <1>16, InUseFacts
<1>19. Contents' = Append(Contents, x)
  <2>1. \A c \in InUse : c # b => Row(c)' = Row(c)
    BY <1>16, InUseFacts
  <2> QED BY <1>1, <1>2, <1>14, <1>17, <1>18, <2>1, ContentsGrow
<1>20. InUse' = InUse
  BY <1>1, <1>17, <1>18, StillDistance
<1> QED BY <1>2, <1>13, <1>16, <1>19, <1>20

\* ... in the next block, when the tail block is full.
LEMMA AdvanceTailAdds ==
    ASSUME RingInv, RingInv', AdvanceTail, NEW c, c = NextBlock, Row(c) = <<push.value>>
    PROVE  Contents' = Append(Contents, push.value) /\ InUse' = InUse \union {NextBlock}
<1>1. push.pc = "advanceTail" /\ UNCHANGED <<frontBlock, block, pop>> /\ tailBlock' = NextBlock
  BY DEF AdvanceTail
<1>2. NextBlock # frontBlock
  BY <1>1 DEF RingInv, ProducerKnows
<1>3. ASSUME NEW b PROVE Row(b)' = Row(b)
  <2>1. SameSlots(b) /\ block'[b].data = block[b].data
    BY <1>1 DEF SameSlots
  <2>2. (Taken(b)' <=> Taken(b)) /\ (Taken(b) => pop'.value = pop.value)
    BY <1>1 DEF Taken
  <2> QED BY <2>1, <2>2, RowUnchanged
<1>4. PICK x \in Items : x = push.value
  <2>1. push.value \in Nat
    BY <1>1 DEF RingInv, RingTypeOK, PushCalls, Idle
  <2> QED BY <2>1 DEF Items, Elements
<1>5. HeldShape /\ HeldShape'
  BY HeldIsShaped, HeldStaysShaped
<1>6. Row(c)' = <<x>>
  BY <1>3, <1>4
<1> QED BY <1>1, <1>2, <1>3, <1>4, <1>5, <1>6, ContentsExtend

\* A pop that returns removes the first element.
LEMMA ReleaseRemoves ==
    ASSUME RingInv, RingInv', Release
    PROVE  /\ Contents # <<>> /\ Contents' = Tail(Contents) /\ pop.value = Head(Contents)
           /\ InUse' = InUse
           /\ \A c \in 1..Len(block) : c # frontBlock => SameSlots(c) /\ Row(c)' = Row(c)
<1>1. pop.pc = "release" /\ UNCHANGED <<frontBlock, tailBlock>> /\ pop' = Idle
  BY DEF Release, PopReturns
<1>2. freed = {}
  BY <1>1, NotDestroyed DEF RingInv
<1>3. PICK b \in 1..Len(block) : b = frontBlock
  BY <1>2, PopFacts
<1>4. block[b] \in Block /\ Shaped(block[b]) /\ Taken(b) /\ pop.value \in Items
  BY <1>1, <1>3, InUseFacts DEF Taken
<1>5. PICK k \in Block, v \in Items : k = block[b] /\ v = pop.value
  BY <1>4
<1>6. k.front # k.tail
  <2>1. k.front # k.localTail
    BY <1>1, <1>3, <1>5 DEF RingInv, ConsumerKnows, BlockFront
  <2>2. CopiesAreBehind(k)
    BY <1>2, <1>5, PopFacts
  <2> QED BY <1>4, <1>5, <2>1, <2>2, NotPassed
<1> DEFINE e == (k.front + 1) % k.size
           r == [k EXCEPT !.front = e]
<1>7. block' = [block EXCEPT ![b] = r]
  BY <1>3, <1>5 DEF Release, BlockFront
<1>8. r.size = k.size /\ r.tail = k.tail /\ r.front = e /\ r.next = k.next /\ r.data = k.data
  BY DEF Block
<1>9. e = After(k.size, k.front)
  BY <1>4, <1>5, NextSlot DEF Block, Shaped
<1> HIDE DEF e, r
<1>10. block'[b] = r /\ r \in Block /\ Shaped(r)
  BY <1>7, ChangedIsBlock
<1>11. PICK w : w = pop'.value
  OBVIOUS
<1>12. RowOf(r, FALSE, w) = Tail(RowOf(k, TRUE, v))
  <2>1. Shaped(k)
    BY <1>4, <1>5
  <2> QED BY <1>6, <1>8, <1>9, <1>10, <2>1, RowRelease
<1>13. Row(b) = RowOf(k, TRUE, v)
  <2>1. Taken(b) = TRUE
    BY <1>4 DEF Taken
  <2> QED BY <1>5, <2>1 DEF Row
<1>14. Row(b)' = RowOf(r, FALSE, w)
  <2>1. Taken(b)' = FALSE
    BY <1>1 DEF Taken, Idle
  <2> QED BY <1>10, <1>11, <2>1 DEF Row
<1>15. Row(b) # <<>> /\ Head(Row(b)) = pop.value /\ Row(b)' = Tail(Row(b))
  BY <1>4, <1>5, <1>6, <1>12, <1>13, <1>14, RowIsEmpty DEF Empty
<1>16. \A c \in 1..Len(block) : c # b => (Taken(c)' <=> Taken(c)) /\ (Taken(c) => pop'.value = pop.value)
  BY <1>1, <1>3 DEF Taken, Idle
<1>17. \A c \in 1..Len(block) : c # b => Row(c)' = Row(c) /\ SameSlots(c) /\ block'[c].next = block[c].next
  BY <1>1, <1>7, <1>16, OthersStay
<1>18. HeldShape /\ HeldShape'
  BY HeldIsShaped, HeldStaysShaped
<1>19. \A c \in Linked : c # tailBlock => block'[c].next = block[c].next
  <2>1. block'[b].next = block[b].next
    BY <1>5, <1>8, <1>10
  <2> QED BY <1>17, <2>1, InUseFacts
<1>20. Contents # <<>> /\ Contents' = Tail(Contents)
  <2>1. \A c \in InUse : c # b => Row(c)' = Row(c)
    BY <1>17, InUseFacts
  <2> QED BY <1>1, <1>3, <1>15, <1>18, <1>19, <2>1, ContentsShrink
<1>21. Head(Contents) = pop.value
  BY <1>3, <1>15, <1>18, FirstInFront
<1>22. InUse' = InUse
  BY <1>1, <1>18, <1>19, StillDistance
<1> QED BY <1>3, <1>17, <1>20, <1>21, <1>22

\* The front block is in use,
LEMMA FrontInUse == RingInv => frontBlock \in InUse
  BY InUseFacts

\* ... before a step and after it.
LEMMA FrontStaysInUse == RingInv' => (frontBlock \in InUse)'
  BY FrontInUse, PTL

\* The front block is left without a change to what is held.
LEMMA AdvanceFrontHeld ==
    ASSUME RingInv, RingInv', AdvanceFront
    PROVE  /\ Contents' = Contents /\ InUse' = InUse \ {frontBlock}
           /\ frontBlock # tailBlock /\ frontBlock' # NextBlock /\ frontBlock' \in InUse
           /\ \A b \in 1..Len(block) : Row(b)' = Row(b)
<1>1. /\ pop.pc = "advanceFront" /\ UNCHANGED <<block, tailBlock>> /\ frontBlock' = pop.next
  BY DEF AdvanceFront
<1>2. /\ frontBlock # tailBlock /\ Empty(frontBlock) /\ frontBlock' = block[frontBlock].next
  BY <1>1 DEF RingInv, ConsumerKnows
<1>3. PICK t \in 1..Len(block) : t = frontBlock
  BY InUseFacts
<1>4. Row(t) = <<>>
  BY <1>2, <1>3, RowIsEmpty
<1>5. pop'.pc = "take"
  BY <1>1, PopMoves DEF AdvanceFront, RingInv, PopPcs
<1>6. ASSUME NEW b \in 1..Len(block) PROVE Row(b)' = Row(b)
  <2>1. SameSlots(b) /\ block'[b].data = block[b].data
    BY <1>1 DEF SameSlots
  <2>2. ~Taken(b) /\ ~Taken(b)'
    BY <1>1, <1>5 DEF Taken
  <2> QED BY <2>1, <2>2, RowUnchanged
<1>7. HeldShape /\ HeldShape'
  BY HeldIsShaped, HeldStaysShaped
<1>8. \A b \in InUse : b # t => Row(b)' = Row(b)
  BY <1>6, InUseFacts
<1>9. Contents' = Contents /\ InUse' = InUse \ {frontBlock}
  BY <1>1, <1>2, <1>3, <1>4, <1>7, <1>8, ContentsPass
<1>10. frontBlock' # NextBlock
  BY <1>2, RingFacts DEF RingInv
<1>11. frontBlock' \in InUse
  <2>1. frontBlock' \in InUse'
    BY FrontStaysInUse
  <2> QED BY <1>9, <2>1
<1> QED BY <1>2, <1>6, <1>9, <1>10, <1>11

\* Where a pop or peek finds the first element.
LEMMA FirstAtFront ==
    ASSUME RingInv, pop.pc = "take"
    PROVE  Contents # <<>> /\ Head(Contents) = block[frontBlock].data[BlockFront]
<1>1. freed = {}
  BY NotDestroyed DEF RingInv
<1>2. PICK b \in 1..Len(block) : b = frontBlock
  BY <1>1, PopFacts
<1>3. ~Empty(b)
  <2>1. block[b].front # block[b].localTail
    BY <1>2 DEF RingInv, ConsumerKnows, BlockFront
  <2> QED BY <1>1, <2>1, PopFacts, NotPassed DEF Empty
<1>4. ~Taken(b)
  BY DEF Taken
<1>5. Row(b) # <<>> /\ Head(Row(b)) = block[b].data[block[b].front]
  BY <1>3, <1>4, RowIsEmpty
<1> QED BY <1>2, <1>5, HeldIsShaped, FirstInFront DEF BlockFront

\* ... or in the next block, when the front block is empty.
LEMMA FirstBehindFront ==
    ASSUME RingInv, pop.pc = "enterNext"
    PROVE  Contents # <<>> /\ Head(Contents) = block[pop.next].data[block[pop.next].front]
<1>1. freed = {}
  BY NotDestroyed DEF RingInv
<1>2. frontBlock # tailBlock /\ Empty(frontBlock) /\ pop.next = block[frontBlock].next /\ ~Empty(pop.next)
  BY RingFacts DEF RingInv, ConsumerKnows
<1>3. PICK b \in 1..Len(block), c \in 1..Len(block) : b = frontBlock /\ c = pop.next
  BY <1>1, <1>2, PopFacts
<1>4. ~Taken(c)
  BY DEF Taken
<1>5. Row(b) = <<>>
  BY <1>2, <1>3, RowIsEmpty
<1>6. Row(c) # <<>> /\ Head(Row(c)) = block[c].data[block[c].front]
  BY <1>2, <1>3, <1>4, RowIsEmpty
<1> QED BY <1>2, <1>3, <1>5, <1>6, HeldIsShaped, FirstInNext

\* A queue without an element in its front block has one only if it has another block.
LEMMA NothingInFront ==
    ASSUME RingInv, Empty(frontBlock), frontBlock = tailBlock
    PROVE  Contents = <<>>
<1>1. PICK b \in 1..Len(block) : b = frontBlock
  BY InUseFacts
<1>2. Row(b) = <<>>
  BY <1>1, RowIsEmpty
<1> QED BY <1>1, <1>2, HeldIsShaped, NothingHeld

-----------------------------------------------------------------------------
(* The inductive invariant of the queue *)

Full(b) == NextTail(b) = block[b].front

\* The element under way is where the producer has put it.
ElementUnderWay ==
    /\ push.pc = "publish" => block[tailBlock].data[block[tailBlock].tail] = push.value
    /\ push.pc = "publishNext" => block[NextBlock].data[block[NextBlock].tail] = push.value
    /\ push.pc = "link" => Row(Len(block)) = <<push.value>>
    /\ push.pc = "advanceTail" => Row(NextBlock) = <<push.value>>

\* A block is left only when it is full, and then only the consumer's is not.
BlocksLeftFull ==
    /\ \A b \in InUse : b # frontBlock /\ b # tailBlock => Full(b)
    /\ push.pc \in {"full", "useNext", "constructNext", "publishNext", "allocate", "link", "advanceTail"}
           /\ tailBlock # frontBlock => Full(tailBlock)

\* No block is smaller, and there are no fewer, than the constructor has made.
Capacity ==
    /\ requested \in Sizes
    /\ largestBlockSize >= Blocks(requested).size
    /\ \A b \in 1..Len(block) : block[b].size >= Blocks(requested).size
    /\ RingLength >= Blocks(requested).count

\* A push that found room is not refused.
RoomIsKept ==
    /\ push.pc = "reload" /\ push.room => Len(Contents) < requested
    /\ push.pc = "full" /\ push.room => NextBlock # frontBlock
    /\ push.pc = "allocate" => ~push.room

\* Which calls are under way together, and what they are part of.
CallsMatch ==
    /\ asked \in [op : {"pop", "peek"}, some : BOOLEAN] \union {NoCall}
    /\ pop # Idle => asked # NoCall /\ asked.op = pop.op /\ wait = NotWaiting
    /\ wait # NotWaiting => blocking /\ asked # NoCall /\ asked.op = "pop" /\ wait.pc # "idle"
    /\ asked # NoCall => freed = {} /\ (pop # Idle \/ wait # NotWaiting)
    /\ signal # "idle" => blocking /\ push = Idle /\ freed = {}
    /\ pop.pc \in {"advanceFront", "release"} => pop.op = "pop"

\* A call that cannot miss an element: there was one at its start, or it has a permit.
CannotMiss == asked # NoCall /\ (asked.some \/ (blocking /\ asked.op = "pop"))

SomeIsFound ==
    /\ pop # Idle /\ CannotMiss => Contents # <<>>
    /\ pop.pc = "checkTail" /\ CannotMiss => frontBlock # tailBlock
    /\ wait.pc \notin {"idle", "granted", "refused"} /\ asked.some => Permits > 0
    /\ wait.pc = "refused" => ~asked.some

PermitsCount == blocking /\ freed = {} => Permits + Granted + Unsignalled = Len(Contents)

FifoInv ==
    /\ ElementUnderWay
    /\ BlocksLeftFull
    /\ Capacity
    /\ RoomIsKept
    /\ CallsMatch
    /\ SomeIsFound
    /\ PermitsCount

(* Which calls are under way together *)

\* A step of a pop goes on with its call or returns from it.
LEMMA PopStepGoesOn ==
    ASSUME RingInv, PopStep
    PROVE  /\ pop # Idle /\ freed' = freed /\ push' = push /\ sent' = sent /\ requested' = requested
           /\ pop' # Idle => pop'.op = pop.op
           /\ pop'.pc \in {"advanceFront", "release"} => pop.op = "pop"
<1>1. pop \in PopCalls \union {Idle} /\ (pop.pc # "idle" => pop # Idle)
  BY DEF RingInv, RingTypeOK, Idle
<1>2. CASE ReloadTail
  <2>1. pop.pc = "reload" /\ PopGoes(IF BlockFront # block[frontBlock].tail THEN "take" ELSE "checkTail")
    BY <1>2 DEF ReloadTail, LoadTail
  <2>2. pop' = [pop EXCEPT !.pc = "take"] \/ pop' = [pop EXCEPT !.pc = "checkTail"]
    BY <2>1 DEF PopGoes
  <2>3. pop # Idle /\ pop'.op = pop.op /\ pop'.pc \in {"take", "checkTail"}
    BY <1>1, <2>1, <2>2 DEF PopCalls, Idle
  <2> QED BY <1>2, <2>3 DEF ReloadTail, LoadTail
<1>3. CASE Recheck
  <2>1. pop.pc = "recheck" /\ PopGoes(IF BlockFront # block[frontBlock].tail THEN "take" ELSE "readNext")
    BY <1>3 DEF Recheck, LoadTail
  <2>2. pop' = [pop EXCEPT !.pc = "take"] \/ pop' = [pop EXCEPT !.pc = "readNext"]
    BY <2>1 DEF PopGoes
  <2>3. pop # Idle /\ pop'.op = pop.op /\ pop'.pc \in {"take", "readNext"}
    BY <1>1, <2>1, <2>2 DEF PopCalls, Idle
  <2> QED BY <1>3, <2>3 DEF Recheck, LoadTail
<1>4. CASE SeeTailElsewhere \/ ReadNext
  BY <1>1, <1>4 DEF SeeTailElsewhere, ReadNext, PopGoes, PopCalls, Idle
<1>5. CASE EnterNext
  BY <1>1, <1>5 DEF EnterNext, PopGoes, PopReturns, PopCalls, Idle
<1>6. CASE AdvanceFront
  BY <1>1, <1>6 DEF AdvanceFront, PopGoes, PopCalls, Idle
<1>7. CASE Take
  BY <1>1, <1>7 DEF Take, PopCalls, Idle
<1>8. CASE SeeNothing \/ Release \/ Peek
  BY <1>1, <1>8 DEF SeeNothing, Release, Peek, PopReturns, Idle
<1> QED BY <1>2, <1>3, <1>4, <1>5, <1>6, <1>7, <1>8 DEF PopStep

\* A step of a wait leaves it waiting.
LEMMA WaitStepGoesOn ==
    ASSUME SemInv, WaitStep
    PROVE  /\ wait.pc # "idle" /\ wait # NotWaiting /\ signal' = signal
           /\ wait' # NotWaiting /\ wait'.pc # "idle"
<1>1. wait.pc \in {"idle", "try", "spin", "take", "claim", "granted", "refused", "reclaim", "sleep", "restore", "token"}
  BY DEF SemInv, SemTypeOK, Claims
<1>2. \E pc : WaitGoes(pc) /\ pc # "idle"
  <2>1. CASE SeePermit \/ TryFails \/ SpinEnds \/ TakePermit
    BY <2>1 DEF SeePermit, TryFails, SpinEnds, TakePermit
  <2>2. CASE Claim \/ Wake \/ TimeOut
    BY <2>2 DEF Claim, Wake, TimeOut
  <2>3. CASE Restore \/ Reclaim \/ TryToken
    BY <2>3 DEF Restore, Reclaim, TryToken
  <2> QED BY <2>1, <2>2, <2>3 DEF WaitStep
<1>3. wait' # NotWaiting /\ wait'.pc # "idle"
  BY <1>2 DEF WaitGoes, NotWaiting, SemInv, SemTypeOK
<1>4. wait.pc # "idle" /\ signal' = signal
  BY DEF WaitStep, SeePermit, TryFails, SpinEnds, TakePermit, Claim, Wake, TimeOut, Restore, Reclaim, TryToken
<1> QED BY <1>3, <1>4 DEF NotWaiting

\* A call of the ring or a wait is always part of the call of the consumer it
\* was made for.
LEMMA CallsStillMatch ==
    ASSUME RingInv, SemInv, CallsMatch, [Next]_vars
    PROVE  CallsMatch'
<1> USE DEF CallsMatch
<1>0. push.pc # "idle" => push # Idle /\ freed = {}
  BY PushFacts DEF Idle
<1>1. CASE \E canAlloc \in BOOLEAN : Enqueue(canAlloc)
  BY <1>1 DEF Enqueue, CallPush, semVars
<1>2. CASE PushStep /\ UNCHANGED <<semVars, blocking, asked>>
  <2>1. push.pc # "idle" /\ UNCHANGED <<pop, freed>>
    BY <1>2 DEF PushStep, ReloadFront, Construct, FindFreeBlock, UseNext, ConstructNext, PublishNext, FindNoBlock, Allocate, Link, Refuse
  <2> QED BY <1>0, <1>2, <2>1 DEF semVars
<1>3. CASE EnqueueSucceeds
  <2>1. push.pc # "idle" /\ UNCHANGED <<pop, freed>> /\ push' = Idle
    BY <1>3 DEF EnqueueSucceeds, PushAccepted, Publish, AdvanceTail, PushReturns
  <2>2. UNCHANGED <<wait, blocking, asked>> /\ (blocking \/ signal' = signal)
    BY <1>3 DEF EnqueueSucceeds, CallSignal, semVars
  <2> QED BY <1>0, <2>1, <2>2
<1>4. CASE SignalStep /\ UNCHANGED <<ringVars, blocking, asked>>
  <2>1. signal # "idle" /\ wait' = wait
    BY <1>4 DEF SignalStep, AddPermit, Post
  <2> QED BY <1>4, <2>1 DEF ringVars
<1>5. CASE \E op \in {"pop", "peek"} : AskRing(op)
  <2>1. PICK op \in {"pop", "peek"} : AskRing(op)
    BY <1>5
  <2>2. asked = NoCall /\ asked' \in [op : {"pop", "peek"}, some : BOOLEAN] /\ asked'.op = op
    BY <2>1 DEF AskRing, Ask
  <2>3. asked' # NoCall
    BY <2>2 DEF NoCall
  <2>4. pop'.op = op /\ pop' # Idle /\ freed = {} /\ UNCHANGED <<push, freed>> /\ pop'.pc \notin {"advanceFront", "release"}
    BY <2>1 DEF AskRing, CallPop, Idle
  <2>5. UNCHANGED <<wait, signal, blocking>>
    BY <2>1 DEF AskRing, semVars
  <2> QED BY <2>2, <2>3, <2>4, <2>5
<1>6. CASE \E timeout \in Timeouts : AskPermit(timeout)
  <2>1. PICK timeout \in Timeouts : AskPermit(timeout)
    BY <1>6
  <2>2. asked = NoCall /\ asked' \in [op : {"pop", "peek"}, some : BOOLEAN] /\ asked'.op = "pop"
    BY <2>1 DEF AskPermit, Ask
  <2>3. asked' # NoCall
    BY <2>2 DEF NoCall
  <2>4. wait'.pc = "try" /\ wait' # NotWaiting /\ signal' = signal
    BY <2>1 DEF AskPermit, CallWait, NotWaiting
  <2>5. UNCHANGED <<push, pop, freed, blocking>> /\ freed = {} /\ blocking
    BY <2>1 DEF AskPermit, ringVars
  <2> QED BY <2>2, <2>3, <2>4, <2>5
<1>7. CASE RingAnswers
  <2>1. UNCHANGED <<wait, signal, blocking>> /\ asked' = IF pop' = Idle THEN NoCall ELSE asked
    BY <1>7 DEF RingAnswers, semVars
  <2>2. PopStep
    BY <1>7 DEF RingAnswers
  <2>3. Idle.pc = "idle"
    BY DEF Idle
  <2> QED BY <2>1, <2>2, <2>3, PopStepGoesOn
<1>8. CASE WaitStep /\ UNCHANGED <<ringVars, blocking, asked>>
  <2>1. UNCHANGED <<push, pop, freed, blocking, asked>>
    BY <1>8 DEF ringVars
  <2> QED BY <1>8, <2>1, WaitStepGoesOn
<1>9. CASE TakeElement
  <2>1. wait.pc = "granted" /\ wait' = NotWaiting /\ UNCHANGED <<signal, blocking, asked, push, freed>>
    BY <1>9 DEF TakeElement, WaitReturns, CallPop
  <2>2. pop' # Idle /\ pop'.op = "pop" /\ pop'.pc \notin {"advanceFront", "release"}
    BY <1>9 DEF TakeElement, CallPop, Idle
  <2>3. wait # NotWaiting
    BY <2>1 DEF NotWaiting
  <2> QED BY <2>1, <2>2, <2>3
<1>10. CASE GoWithout
  <2>1. wait.pc = "refused" /\ wait' = NotWaiting /\ UNCHANGED <<signal, blocking, push, pop, freed>> /\ asked' = NoCall
    BY <1>10 DEF GoWithout, WaitReturns
  <2>2. wait # NotWaiting
    BY <2>1 DEF NotWaiting
  <2> QED BY <2>1, <2>2
<1>11. CASE DestroyQueue
  <2>1. signal = "idle" /\ asked = NoCall /\ UNCHANGED <<signal, wait, blocking, asked, push, pop>>
    BY <1>11 DEF DestroyQueue, Destroy, semVars
  <2> QED BY <2>1
<1>12. CASE UNCHANGED vars
  BY <1>12 DEF vars, ringVars, semVars
<1> QED BY <1>1, <1>2, <1>3, <1>4, <1>5, <1>6, <1>7, <1>8, <1>9, <1>10, <1>11, <1>12 DEF Next, ProducerStep, ConsumerStep

(* What the consumer leaves to the producer as it is *)

ProducersKept ==
    /\ UNCHANGED <<push, tailBlock, largestBlockSize, requested>> /\ Len(block') = Len(block)
    /\ \A b \in 1..Len(block) :
        /\ block'[b].size = block[b].size /\ block'[b].tail = block[b].tail /\ block'[b].next = block[b].next
        /\ block'[b].data[block[b].tail] = block[b].data[block[b].tail]
        /\ b # frontBlock => block'[b].front = block[b].front /\ Row(b)' = Row(b)

\* A step that only looks keeps it.
LEMMA LookKeepsProducers ==
    ASSUME RingInv, UNCHANGED <<push, largestBlockSize, requested, block, frontBlock, tailBlock>>,
           (pop'.pc = "release") <=> (pop.pc = "release"), pop.pc = "release" => pop'.value = pop.value
    PROVE  ProducersKept
  BY LookStays DEF ProducersKept

\* One block changes.
LEMMA ChangeKeepsProducers ==
    ASSUME RingInv, UNCHANGED <<push, largestBlockSize, requested, frontBlock, tailBlock>>,
           NEW b \in 1..Len(block), NEW r, block' = [block EXCEPT ![b] = r],
           r.size = block[b].size, r.tail = block[b].tail, r.next = block[b].next,
           r.data[block[b].tail] = block[b].data[block[b].tail],
           \/ b = frontBlock
           \/ r.front = block[b].front /\ r.data = block[b].data,
           \/ b = frontBlock
           \/ /\ (pop'.pc = "release") <=> (pop.pc = "release")
              /\ pop.pc = "release" => pop'.value = pop.value
    PROVE  ProducersKept
<1>1. block'[b] = r /\ \A c \in 1..Len(block) : c # b => block'[c] = block[c]
  BY OneChanges
<1>2. Len(block') = Len(block)
  BY DEF RingInv, RingTypeOK
<1>3. ASSUME NEW c \in 1..Len(block), c # frontBlock
      PROVE  block'[c].front = block[c].front /\ Row(c)' = Row(c)
  <2>1. SameSlots(c) /\ block'[c].data = block[c].data
    BY <1>1, <1>3 DEF SameSlots
  <2>2. (Taken(c)' <=> Taken(c)) /\ (Taken(c) => pop'.value = pop.value)
    BY <1>3 DEF Taken
  <2> QED BY <2>1, <2>2, RowUnchanged DEF SameSlots
<1>4. ASSUME NEW c \in 1..Len(block)
      PROVE  /\ block'[c].size = block[c].size /\ block'[c].tail = block[c].tail /\ block'[c].next = block[c].next
             /\ block'[c].data[block[c].tail] = block[c].data[block[c].tail]
  BY <1>1
<1> QED BY <1>2, <1>3, <1>4 DEF ProducersKept

\* The steps of a pop keep it: those that look for an element,
LEMMA ConsumerLookKeepsProducers ==
    ASSUME RingInv,
           (\E op \in {"pop", "peek"} : CallPop(op)) \/ SeeTailElsewhere \/ SeeNothing \/ ReadNext \/ Peek
    PROVE  ProducersKept /\ Stays
<1>1. UNCHANGED <<push, largestBlockSize, requested, block, frontBlock, tailBlock>>
  BY DEF CallPop, SeeTailElsewhere, SeeNothing, ReadNext, Peek
<1>2. pop.pc # "release"
  BY DEF CallPop, SeeTailElsewhere, SeeNothing, ReadNext, Peek, Idle
<1>3. pop'.pc # "release"
  <2>1. ASSUME NEW op \in {"pop", "peek"}, CallPop(op) PROVE pop'.pc # "release"
    BY <2>1 DEF CallPop
  <2>2. ASSUME SeeTailElsewhere PROVE pop'.pc # "release"
    BY <2>2, PopMoves DEF SeeTailElsewhere, RingInv, PopPcs
  <2>3. ASSUME ReadNext PROVE pop'.pc # "release"
    <3>1. pop \in PopCalls
      BY <2>3 DEF ReadNext, RingInv, RingTypeOK, Idle
    <3> QED BY <2>3, <3>1 DEF ReadNext, PopCalls
  <2>4. ASSUME SeeNothing \/ Peek PROVE pop'.pc # "release"
    BY <2>4 DEF SeeNothing, Peek, PopReturns, Idle
  <2> QED BY <2>1, <2>2, <2>3, <2>4
<1> QED BY <1>1, <1>2, <1>3, LookStays, LookKeepsProducers

\* ... that copy the producer's index,
LEMMA LoadTailKeepsProducers ==
    ASSUME RingInv, NEW from \in {"reload", "recheck"}, NEW otherwise \in {"checkTail", "readNext"}, LoadTail(from, otherwise)
    PROVE  ProducersKept
<1>1. UNCHANGED <<push, largestBlockSize, requested, frontBlock, tailBlock>>
  BY DEF LoadTail
<1>2. freed = {}
  BY NotDestroyed DEF RingInv, LoadTail
<1>3. PICK b \in 1..Len(block) : b = frontBlock
  BY <1>2, PopFacts
<1> DEFINE r == [block[b] EXCEPT !.localTail = block[b].tail]
<1>4. block' = [block EXCEPT ![b] = r]
  BY <1>3 DEF LoadTail
<1>5. r.size = block[b].size /\ r.tail = block[b].tail /\ r.data = block[b].data /\ r.next = block[b].next
  BY <1>2, PopFacts DEF Block
<1> HIDE DEF r
<1>6. r.data[block[b].tail] = block[b].data[block[b].tail]
  BY <1>5
<1> QED BY <1>1, <1>3, <1>4, <1>5, <1>6, ChangeKeepsProducers

\* ... that look at the block behind,
LEMMA EnterNextKeepsProducers == ASSUME RingInv, EnterNext PROVE ProducersKept
<1>1. pop.pc = "enterNext" /\ UNCHANGED <<push, largestBlockSize, requested, frontBlock, tailBlock>>
  BY DEF EnterNext
<1>2. freed = {}
  BY <1>1, NotDestroyed DEF RingInv
<1>3. PICK b \in 1..Len(block) : b = pop.next
  BY <1>1, <1>2, PopFacts DEF RingInv, ConsumerKnows
<1>4. CASE pop.op = "pop"
  <2> DEFINE r == [block[b] EXCEPT !.localTail = block[b].tail]
  <2>1. block' = [block EXCEPT ![b] = r] /\ PopGoes("advanceFront")
    BY <1>3, <1>4 DEF EnterNext
  <2>2. r.size = block[b].size /\ r.front = block[b].front /\ r.tail = block[b].tail /\ r.data = block[b].data
        /\ r.next = block[b].next
    BY <1>2, PopFacts DEF Block
  <2>3. pop'.pc # "release"
    BY <1>1, <2>1, PopMoves DEF RingInv, PopPcs
  <2> HIDE DEF r
  <2> QED BY <1>1, <2>1, <2>2, <2>3, ChangeKeepsProducers
<1>5. CASE pop.op # "pop"
  <2>1. block' = block /\ pop' = Idle
    BY <1>5 DEF EnterNext, PopReturns
  <2> QED BY <1>1, <2>1, LookKeepsProducers DEF Idle
<1> QED BY <1>4, <1>5

\* ... and that leave the front block.
LEMMA AdvanceFrontKeepsProducers == ASSUME RingInv, RingInv', AdvanceFront PROVE ProducersKept
<1>1. UNCHANGED <<push, largestBlockSize, requested, block, tailBlock>>
  BY DEF AdvanceFront
<1> QED BY <1>1, AdvanceFrontHeld DEF ProducersKept

\* The slot that is filled in is not the one that is emptied.
LEMMA TakeKeepsProducers == ASSUME RingInv, Take PROVE ProducersKept
<1>1. pop.pc = "take" /\ UNCHANGED <<push, largestBlockSize, requested, frontBlock, tailBlock>>
  BY DEF Take
<1>2. freed = {}
  BY <1>1, NotDestroyed DEF RingInv
<1>3. PICK b \in 1..Len(block) : b = frontBlock
  BY <1>2, PopFacts
<1>4. PICK k \in Block : k = block[b] /\ Shaped(k) /\ CopiesAreBehind(k)
  BY <1>2, PopFacts
<1>5. k.front # k.tail
  <2>1. k.front # k.localTail
    BY <1>1, <1>3, <1>4 DEF RingInv, ConsumerKnows, BlockFront
  <2> QED BY <1>4, <2>1, NotPassed
<1> DEFINE d == [k.data EXCEPT ![k.front] = Raw]
           r == [k EXCEPT !.data = d]
<1>6. block' = [block EXCEPT ![b] = r]
  BY <1>3, <1>4 DEF Take, BlockFront
<1>7. r.size = k.size /\ r.tail = k.tail /\ r.next = k.next /\ r.data = d
  BY DEF Block
<1>8. d[k.tail] = k.data[k.tail]
  <2>1. k.tail \in 0..k.size - 1 /\ k.data \in [0..k.size - 1 -> Elements]
    BY <1>4 DEF Block, Shaped
  <2> QED BY <1>5, <2>1
<1> HIDE DEF d, r
<1>9. r.data[block[b].tail] = block[b].data[block[b].tail]
  BY <1>4, <1>7, <1>8
<1> QED BY <1>1, <1>3, <1>4, <1>6, <1>7, <1>9, ChangeKeepsProducers

\* The front that is moved is the consumer's alone.
LEMMA ReleaseKeepsProducers == ASSUME RingInv, Release PROVE ProducersKept
<1>1. pop.pc = "release" /\ UNCHANGED <<push, largestBlockSize, requested, frontBlock, tailBlock>>
  BY DEF Release
<1>2. freed = {}
  BY <1>1, NotDestroyed DEF RingInv
<1>3. PICK b \in 1..Len(block) : b = frontBlock
  BY <1>2, PopFacts
<1>4. block[b] \in Block
  BY <1>2, PopFacts
<1> DEFINE r == [block[b] EXCEPT !.front = (block[b].front + 1) % block[b].size]
<1>5. block' = [block EXCEPT ![b] = r]
  BY <1>3 DEF Release, BlockFront
<1>6. r.size = block[b].size /\ r.tail = block[b].tail /\ r.next = block[b].next /\ r.data = block[b].data
  BY <1>4 DEF Block
<1> HIDE DEF r
<1>7. r.data[block[b].tail] = block[b].data[block[b].tail]
  BY <1>6
<1> QED BY <1>1, <1>3, <1>5, <1>6, <1>7, ChangeKeepsProducers

\* So each step of a pop leaves the producer's part as it is.
LEMMA PopKeepsProducers ==
    ASSUME RingInv, RingInv', PopStep \/ (\E op \in {"pop", "peek"} : CallPop(op))
    PROVE  ProducersKept
  BY ConsumerLookKeepsProducers, LoadTailKeepsProducers, EnterNextKeepsProducers,
     AdvanceFrontKeepsProducers, TakeKeepsProducers, ReleaseKeepsProducers
  DEF PopStep, ReloadTail, Recheck

\* The element under way stays where it is until the producer goes on.
LEMMA ElementStaysUnderWay ==
    ASSUME RingInv, ProducersKept, ElementUnderWay
    PROVE  ElementUnderWay'
<1>1. push' = push /\ tailBlock' = tailBlock /\ Len(block') = Len(block)
  BY DEF ProducersKept
<1>2. ASSUME push.pc # "idle" PROVE tailBlock \in 1..Len(block) /\ NextBlock \in 1..Len(block)
  BY <1>2, PushFacts
<1>3. ASSUME push.pc = "publish" PROVE ElementUnderWay'
  <2>1. block'[tailBlock].tail = block[tailBlock].tail
        /\ block'[tailBlock].data[block[tailBlock].tail] = block[tailBlock].data[block[tailBlock].tail]
    BY <1>2, <1>3 DEF ProducersKept
  <2>2. block'[tailBlock'].data[block'[tailBlock'].tail] = push'.value
    BY <1>1, <1>3, <2>1 DEF ElementUnderWay
  <2> QED BY <1>1, <1>3, <2>2 DEF ElementUnderWay
<1>4. ASSUME push.pc = "publishNext" PROVE ElementUnderWay'
  <2>1. PICK c \in 1..Len(block) : c = NextBlock
    BY <1>2, <1>4
  <2>2. NextBlock' = c
    BY <1>1, <1>2, <1>4, <2>1 DEF ProducersKept, NextBlock
  <2>3. block'[c].tail = block[c].tail /\ block'[c].data[block[c].tail] = block[c].data[block[c].tail]
    BY DEF ProducersKept
  <2>4. block'[NextBlock'].data[block'[NextBlock'].tail] = push'.value
    BY <1>1, <1>4, <2>1, <2>2, <2>3 DEF ElementUnderWay
  <2> QED BY <1>1, <1>4, <2>4 DEF ElementUnderWay
<1>5. ASSUME push.pc = "link" PROVE ElementUnderWay'
  <2>1. PICK c \in 1..Len(block) : c = Len(block) /\ c # frontBlock
    BY <1>5 DEF RingInv, RingTypeOK, RingOrder, ProducerKnows, Linked, RingLength
  <2>2. Row(c)' = Row(c)
    BY <2>1 DEF ProducersKept
  <2>3. Row(c) = <<push.value>>
    BY <1>5, <2>1 DEF ElementUnderWay
  <2>4. Row(Len(block))' = <<push'.value>>
    BY <1>1, <2>1, <2>2, <2>3
  <2> QED BY <1>1, <1>5, <2>4 DEF ElementUnderWay
<1>6. ASSUME push.pc = "advanceTail" PROVE ElementUnderWay'
  <2>1. PICK c \in 1..Len(block) : c = NextBlock /\ c # frontBlock
    BY <1>2, <1>6 DEF RingInv, ProducerKnows
  <2>2. NextBlock' = c
    BY <1>1, <1>2, <1>6, <2>1 DEF ProducersKept, NextBlock
  <2>3. Row(c)' = Row(c) /\ Row(c) = <<push.value>>
    BY <1>6, <2>1 DEF ProducersKept, ElementUnderWay
  <2>4. Row(NextBlock)' = <<push'.value>>
    BY <1>1, <2>2, <2>3
  <2> QED BY <1>1, <1>6, <2>4 DEF ElementUnderWay
<1> QED BY <1>1, <1>3, <1>4, <1>5, <1>6 DEF ElementUnderWay

(* The element under way *)

\* A call that goes on keeps what it was called with.
LEMMA PushKeepsCall ==
    ASSUME RingInv, push.pc # "idle", NEW pc \in PushPcs, PushGoes(pc)
    PROVE  push'.pc = pc /\ push'.value = push.value /\ push'.room = push.room /\ push'.canAlloc = push.canAlloc
           /\ push.value \in Nat
<1>1. push \in PushCalls
  BY DEF RingInv, RingTypeOK, Idle
<1> QED BY <1>1 DEF PushGoes, PushCalls

\* There is no element under way before it is constructed, or after it is
\* published.
LEMMA NotUnderWay ==
    ASSUME push'.pc \notin {"publish", "publishNext", "link", "advanceTail"}
    PROVE  ElementUnderWay'
  BY DEF ElementUnderWay

\* Construction puts it in the free slot of the tail block,
LEMMA ConstructPuts == ASSUME RingInv, RingInv', Construct PROVE ElementUnderWay'
<1>1. push.pc = "construct" /\ UNCHANGED tailBlock /\ PushGoes("publish")
  BY DEF Construct
<1>2. push'.pc = "publish" /\ push'.value = push.value
  BY <1>1, PushKeepsCall DEF PushPcs
<1>3. block'[tailBlock].data[block'[tailBlock].tail] = push.value
  BY ConstructStays
<1>4. block'[tailBlock'].data[block'[tailBlock'].tail] = push'.value
  BY <1>1, <1>2, <1>3
<1> QED BY <1>2, <1>4 DEF ElementUnderWay

\* ... or of the next block,
LEMMA ConstructNextPuts == ASSUME RingInv, ConstructNext PROVE ElementUnderWay'
<1>1. push.pc = "constructNext" /\ UNCHANGED <<frontBlock, tailBlock>> /\ PushGoes("publishNext")
  BY DEF ConstructNext
<1>2. push'.pc = "publishNext" /\ push'.value = push.value
  BY <1>1, PushKeepsCall DEF PushPcs
<1>3. PICK c \in 1..Len(block) : c = NextBlock /\ c # tailBlock
  BY <1>1, PushFacts, NextFacts
<1>4. PICK k \in Block : k = block[c] /\ Shaped(k)
  BY InUseFacts
<1>5. PICK x : x = push.value
  OBVIOUS
<1> DEFINE d == [k.data EXCEPT ![k.tail] = x]
           r == [k EXCEPT !.data = d]
<1>6. block' = [block EXCEPT ![c] = r]
  BY <1>3, <1>4, <1>5 DEF ConstructNext
<1>7. r.tail = k.tail /\ r.data = d
  BY DEF Block
<1>8. d[k.tail] = x
  <2>1. k.tail \in 0..k.size - 1 /\ k.data \in [0..k.size - 1 -> Elements]
    BY <1>4 DEF Block, Shaped
  <2> QED BY <2>1
<1> HIDE DEF d, r
<1>9. block'[c] = r /\ block'[tailBlock] = block[tailBlock]
  BY <1>1, <1>3, <1>6, OneChanges, PushFacts
<1>10. NextBlock' = c
  BY <1>1, <1>3, <1>9 DEF NextBlock
<1>11. block'[NextBlock'].data[block'[NextBlock'].tail] = push'.value
  BY <1>2, <1>5, <1>7, <1>8, <1>9, <1>10
<1> QED BY <1>2, <1>11 DEF ElementUnderWay

\* The next block has this element alone.
LEMMA PublishNextPuts == ASSUME RingInv, RingInv', PublishNext, ElementUnderWay PROVE ElementUnderWay'
<1>1. push.pc = "publishNext" /\ UNCHANGED <<frontBlock, tailBlock, pop>> /\ PushGoes("advanceTail")
  BY DEF PublishNext
<1>2. push'.pc = "advanceTail" /\ push'.value = push.value /\ push.value \in Nat
  BY <1>1, PushKeepsCall DEF PushPcs
<1>3. PICK c \in 1..Len(block) : c = NextBlock /\ c # tailBlock /\ Empty(c) /\ ~Taken(c)
  BY <1>1, PushFacts, NextFacts
<1>4. PICK k \in Block, v \in {pop.value} : k = block[c] /\ Shaped(k) /\ v = pop.value
  BY InUseFacts
<1> DEFINE e == (k.tail + 1) % k.size
           r == [k EXCEPT !.tail = e]
<1>5. block' = [block EXCEPT ![c] = r]
  BY <1>3, <1>4 DEF PublishNext, NextTail
<1>6. r.size = k.size /\ r.front = k.front /\ r.tail = e /\ r.data = k.data
  BY DEF Block
<1>7. e = After(k.size, k.tail)
  BY <1>4, NextSlot DEF Block, Shaped
<1> HIDE DEF e, r
<1>8. block'[c] = r /\ r \in Block /\ Shaped(r) /\ block'[tailBlock] = block[tailBlock]
  BY <1>1, <1>3, <1>5, ChangedIsBlock, OneChanges, PushFacts
<1>9. k.front = k.tail /\ e # k.front
  BY <1>3, <1>4, <1>7 DEF Empty, After, Block, Shaped
<1>10. RowOf(r, FALSE, v) = Append(RowOf(k, FALSE, v), k.data[k.tail])
  BY <1>4, <1>6, <1>7, <1>8, <1>9, RowPublish
<1>11. RowOf(k, FALSE, v) = <<>>
  BY <1>4, <1>9, RowEmpty
<1>12. k.data[k.tail] = push.value
  BY <1>1, <1>3, <1>4 DEF ElementUnderWay
<1>13. RowOf(r, FALSE, v) = <<push.value>>
  <2>1. Append(<<>>, push.value) = <<push.value>>
    BY <1>2
  <2> QED BY <2>1, <1>10, <1>11, <1>12
<1>14. Row(c)' = RowOf(r, FALSE, v)
  <2>1. Taken(c)' = FALSE
    BY <1>1, <1>3 DEF Taken
  <2> QED BY <1>1, <1>4, <1>8, <2>1 DEF Row
<1>15. NextBlock' = c
  BY <1>1, <1>3, <1>8 DEF NextBlock
<1>16. Row(NextBlock)' = <<push'.value>>
  BY <1>2, <1>13, <1>14, <1>15
<1> QED BY <1>2, <1>16 DEF ElementUnderWay

\* A new block is allocated with its element.
LEMMA AllocatePuts == ASSUME RingInv, RingInv', Allocate PROVE ElementUnderWay'
<1>1. push.pc = "allocate" /\ UNCHANGED <<frontBlock, tailBlock, pop>> /\ PushGoes("link")
  BY DEF Allocate
<1>2. push'.pc = "link" /\ push'.value = push.value /\ push.value \in Nat
  BY <1>1, PushKeepsCall DEF PushPcs
<1>3. block \in Seq(Block) /\ Len(block) \in Nat /\ frontBlock \in 1..Len(block) /\ NextBlock \in 1..Len(block)
  BY <1>1, PushFacts
<1>4. PICK n \in Nat \ {0, 1}, x \in Nat, q \in Nat, v \in {pop.value}, c \in Nat :
        n = NewBlockSize /\ x = push.value /\ q = NextBlock /\ v = pop.value /\ c = Len(block) + 1
  <2>1. NewBlockSize \in Nat \ {0, 1}
    <3>1. largestBlockSize \in Nat \ {0, 1}
      BY DEF RingInv, RingTypeOK
    <3> QED BY <3>1 DEF NewBlockSize
  <2>2. NextBlock \in Nat /\ Len(block) + 1 \in Nat
    BY <1>3
  <2> HIDE DEF NewBlockSize, NextBlock
  <2> QED BY <1>2, <2>1, <2>2
<1>5. PICK k \in Block : k = FirstFilled(n, x, q)
  BY NewBlock
<1>6. k.size = n /\ k.front = 0 /\ k.tail = 1 /\ k.data[0] = x
  BY <1>5 DEF FirstFilled, MakeBlock
<1>7. Shaped(k)
  BY <1>5, NewBlock
<1>8. block' = Append(block, k)
  BY <1>4, <1>5 DEF Allocate, FirstFilled
<1>9. Len(block') = c /\ block'[c] = k
  BY <1>3, <1>4, <1>8
<1>10. RowOf(k, FALSE, v) = <<x>>
  <2>1. Gap(k.size, k.front, k.tail) = 1 /\ Place(k.size, k.front, 0) = 0
    BY <1>4, <1>6 DEF Gap, Place
  <2>2. PICK taken \in BOOLEAN : taken = FALSE
    OBVIOUS
  <2>3. PICK row : row = RowOf(k, taken, v)
    OBVIOUS
  <2>4. /\ row \in Seq(Items) /\ Len(row) = 1
        /\ \A j \in 1..1 : row[j] = IF taken /\ j = 1 THEN v ELSE k.data[Place(k.size, k.front, j - 1)]
    <3>1. taken => v \in Items
      BY <2>2
    <3>2. /\ row \in Seq(Items) /\ Len(row) = Gap(k.size, k.front, k.tail)
          /\ \A j \in 1..Gap(k.size, k.front, k.tail) :
                row[j] = IF taken /\ j = 1 THEN v ELSE k.data[Place(k.size, k.front, j - 1)]
      BY <1>7, <2>3, <3>1, RowTyped
    <3> QED BY <2>1, <3>2
  <2>5. row[1] = x
    <3>1. row[1] = k.data[Place(k.size, k.front, 1 - 1)]
      BY <2>2, <2>4
    <3> QED BY <1>6, <2>1, <3>1
  <2>6. x \in Items
    BY DEF Items, Elements
  <2>7. <<x>> \in Seq(Items) /\ Len(<<x>>) = 1 /\ <<x>>[1] = x
    BY <2>6
  <2>8. PICK one : one = <<x>>
    OBVIOUS
  <2>9. row = one
    <3>1. one \in Seq(Items) /\ Len(one) = 1 /\ one[1] = x
      BY <2>7, <2>8
    <3>2. Len(row) = Len(one) /\ \A i \in 1..Len(row) : row[i] = one[i]
      BY <2>4, <2>5, <3>1
    <3> QED BY <2>4, <3>1, <3>2, SeqEqual
  <2> QED BY <2>2, <2>3, <2>8, <2>9
<1>11. Row(c)' = <<x>>
  <2>1. Taken(c)' = FALSE
    BY <1>1, <1>3, <1>4 DEF Taken
  <2> QED BY <1>1, <1>4, <1>9, <1>10, <2>1 DEF Row
<1>12. Row(Len(block))' = <<push'.value>>
  BY <1>2, <1>4, <1>9, <1>11
<1> QED BY <1>2, <1>12 DEF ElementUnderWay

\* ... which is the next block once it is linked.
LEMMA LinkPuts == ASSUME RingInv, Link, ElementUnderWay PROVE ElementUnderWay'
<1>1. push.pc = "link" /\ UNCHANGED <<frontBlock, tailBlock, pop>> /\ PushGoes("advanceTail")
  BY DEF Link
<1>2. push'.pc = "advanceTail" /\ push'.value = push.value
  BY <1>1, PushKeepsCall DEF PushPcs
<1>3. PICK c \in 1..Len(block) : c = Len(block) /\ c # tailBlock
  BY <1>1 DEF RingInv, RingTypeOK, RingOrder, ProducerKnows, Linked, RingLength
<1>4. PICK b \in 1..Len(block) : b = tailBlock
  BY <1>1, PushFacts
<1> DEFINE r == [block[b] EXCEPT !.next = Len(block)]
<1>5. block' = [block EXCEPT ![b] = r]
  BY <1>4 DEF Link
<1>6. r.next = c
  BY <1>1, <1>3, <1>4, PushFacts DEF Block
<1> HIDE DEF r
<1>7. Row(c)' = Row(c)
  <2>1. (Taken(c)' <=> Taken(c)) /\ (Taken(c) => pop'.value = pop.value)
    BY <1>1 DEF Taken
  <2> QED BY <1>1, <1>3, <1>4, <1>5, <2>1, OthersStay
<1>8. NextBlock' = c
  BY <1>1, <1>4, <1>5, <1>6, OneChanges DEF NextBlock
<1>9. Row(c) = <<push.value>>
  BY <1>1, <1>3 DEF ElementUnderWay
<1>10. Row(NextBlock)' = <<push'.value>>
  BY <1>2, <1>7, <1>8, <1>9
<1> QED BY <1>2, <1>10 DEF ElementUnderWay

\* Each step of a push knows where its element is.
LEMMA PushKeepsElement ==
    ASSUME RingInv, RingInv', ElementUnderWay,
           (\E canAlloc \in BOOLEAN : CallPush(canAlloc)) \/ PushStep \/ PushAccepted
    PROVE  ElementUnderWay'
<1>1. CASE Construct \/ ConstructNext \/ PublishNext \/ Allocate \/ Link
  BY <1>1, ConstructPuts, ConstructNextPuts, PublishNextPuts, AllocatePuts, LinkPuts
<1>2. CASE \E canAlloc \in BOOLEAN : CallPush(canAlloc)
  <2>1. push'.pc \in {"construct", "reload"}
    BY <1>2 DEF CallPush
  <2> QED BY <2>1, NotUnderWay
<1>3. CASE Publish \/ AdvanceTail \/ Refuse
  BY <1>3, NotUnderWay DEF Publish, AdvanceTail, Refuse, PushReturns, Idle
<1>4. CASE ReloadFront
  <2>1. push.pc = "reload" /\ (PushGoes("construct") \/ PushGoes("full"))
    BY <1>4 DEF ReloadFront
  <2> QED BY <2>1, PushKeepsCall, NotUnderWay DEF PushPcs
<1>5. CASE FindFreeBlock
  BY <1>5, PushKeepsCall, NotUnderWay DEF PushPcs, FindFreeBlock
<1>6. CASE UseNext
  BY <1>6, PushKeepsCall, NotUnderWay DEF PushPcs, UseNext
<1>7. CASE FindNoBlock
  BY <1>7, PushKeepsCall, NotUnderWay DEF PushPcs, FindNoBlock
<1> QED BY <1>1, <1>2, <1>3, <1>4, <1>5, <1>6, <1>7 DEF PushStep, PushAccepted

(* The blocks that are left full, and what the constructor has made *)

\* What a push does before it is accepted leaves what is held,
LEMMA PushStays ==
    ASSUME RingInv, RingInv', (\E canAlloc \in BOOLEAN : CallPush(canAlloc)) \/ PushStep
    PROVE  Stays
  BY ProducerLookStays, ReloadFrontStays, ConstructStays, UseNextStays, NextStays, AllocateStays, LinkStays
  DEF PushStep

\* ... and so does a pop but for its last steps.
LEMMA PopStays ==
    ASSUME RingInv, RingInv', (\E op \in {"pop", "peek"} : CallPop(op)) \/ PopStep, ~Release, ~AdvanceFront
    PROVE  Stays
  BY ConsumerLookStays, LoadTailStays, EnterNextStays, TakeStays
  DEF PopStep, ReloadTail, Recheck

Leaving == {"full", "useNext", "constructNext", "publishNext", "allocate", "link", "advanceTail"}

\* A step that leaves what is held leaves the full blocks full.
LEMMA StaysLeftFull ==
    ASSUME RingInv, RingInv', BlocksLeftFull, Stays,
           push'.pc \in Leaving => push.pc \in Leaving \/ Full(tailBlock)
    PROVE  BlocksLeftFull'
<1>1. InUse' = InUse /\ frontBlock' = frontBlock /\ tailBlock' = tailBlock
  BY StaysHeld DEF Stays
<1>2. \A b \in InUse : SameSlots(b)
  BY DEF Stays
<1>3. \A b \in InUse : Full(b)' <=> Full(b)
  BY <1>2 DEF SameSlots, Full, NextTail
<1>4. PICK t \in InUse : t = tailBlock
  BY InUseFacts
<1>5. (\A b \in InUse : b # frontBlock /\ b # tailBlock => Full(b))'
  BY <1>1, <1>3 DEF BlocksLeftFull
<1>6. push'.pc \in Leaving /\ t # frontBlock => Full(t)'
  BY <1>3, <1>4 DEF BlocksLeftFull, Leaving
<1>7. (push.pc \in Leaving /\ tailBlock # frontBlock => Full(tailBlock))'
  BY <1>1, <1>4, <1>6
<1> QED BY <1>5, <1>7 DEF BlocksLeftFull, Leaving

\* A push comes to leave the tail block only when it has seen that it is full.
LEMMA PushLeavesFull ==
    ASSUME RingInv, (\E canAlloc \in BOOLEAN : CallPush(canAlloc)) \/ PushStep, push'.pc \in Leaving
    PROVE  push.pc \in Leaving \/ Full(tailBlock)
<1>1. CASE \E canAlloc \in BOOLEAN : CallPush(canAlloc)
  <2>1. push'.pc \in {"construct", "reload"}
    BY <1>1 DEF CallPush
  <2> QED BY <2>1 DEF Leaving
<1>2. CASE ReloadFront
  <2>1. CASE NextTail(tailBlock) # block[tailBlock].front
    <3>1. push.pc = "reload" /\ PushGoes("construct")
      BY <1>2, <2>1 DEF ReloadFront
    <3> QED BY <3>1, PushKeepsCall DEF PushPcs, Leaving
  <2> QED BY <2>1 DEF Full
<1>3. CASE Construct
  <2>1. push'.pc = "publish"
    BY <1>3, PushKeepsCall DEF Construct, PushPcs
  <2> QED BY <2>1 DEF Leaving
<1>4. CASE FindFreeBlock \/ UseNext \/ ConstructNext \/ PublishNext \/ FindNoBlock \/ Allocate \/ Link \/ Refuse
  BY <1>4 DEF FindFreeBlock, UseNext, ConstructNext, PublishNext, FindNoBlock, Allocate, Link, Refuse, Leaving
<1> QED BY <1>1, <1>2, <1>3, <1>4 DEF PushStep

\* A push leaves the tail block full behind it,
LEMMA PushKeepsLeftFull ==
    ASSUME RingInv, RingInv', BlocksLeftFull, ElementUnderWay,
           (\E canAlloc \in BOOLEAN : CallPush(canAlloc)) \/ PushStep \/ PushAccepted
    PROVE  BlocksLeftFull'
<1>1. CASE (\E canAlloc \in BOOLEAN : CallPush(canAlloc)) \/ PushStep
  BY <1>1, PushStays, PushLeavesFull, StaysLeftFull
<1>2. CASE Publish
  <2>1. push.pc = "publish" /\ UNCHANGED <<frontBlock, tailBlock>> /\ push' = Idle
    BY <1>2 DEF Publish, PushReturns
  <2>2. InUse' = InUse /\ \A c \in 1..Len(block) : c # tailBlock => SameSlots(c)
    BY <1>2, <2>1, PublishAdds DEF ElementUnderWay
  <2>3. \A b \in InUse : b # tailBlock => (Full(b)' <=> Full(b))
    BY <2>2, InUseFacts DEF SameSlots, Full, NextTail
  <2> QED BY <2>1, <2>2, <2>3 DEF BlocksLeftFull, Idle
<1>3. CASE AdvanceTail
  <2>1. push.pc = "advanceTail" /\ UNCHANGED <<block, frontBlock>> /\ push' = Idle /\ tailBlock' = NextBlock
    BY <1>3 DEF AdvanceTail, PushReturns
  <2>2. PICK c : c = NextBlock
    OBVIOUS
  <2>3. InUse' = InUse \union {NextBlock}
    BY <1>3, <2>1, <2>2, AdvanceTailAdds DEF ElementUnderWay
  <2>4. \A b : Full(b)' <=> Full(b)
    BY <2>1 DEF Full, NextTail
  <2>5. \A b \in InUse' : b # frontBlock' /\ b # tailBlock' => Full(b)
    BY <2>1, <2>3 DEF BlocksLeftFull
  <2> QED BY <2>1, <2>4, <2>5 DEF BlocksLeftFull, Idle
<1> QED BY <1>1, <1>2, <1>3 DEF PushAccepted

\* ... a pop takes from no other block than the front block,
LEMMA PopKeepsLeftFull ==
    ASSUME RingInv, RingInv', BlocksLeftFull, (\E op \in {"pop", "peek"} : CallPop(op)) \/ PopStep
    PROVE  BlocksLeftFull'
<1>1. UNCHANGED <<push, tailBlock>>
  BY PopKeepsProducers DEF ProducersKept
<1>2. CASE ~Release /\ ~AdvanceFront
  BY <1>1, <1>2, PopStays, StaysLeftFull
<1>3. CASE Release
  <2>1. InUse' = InUse /\ frontBlock' = frontBlock /\ \A c \in 1..Len(block) : c # frontBlock => SameSlots(c)
    BY <1>3, ReleaseRemoves DEF Release
  <2>2. \A b \in InUse : b # frontBlock => (Full(b)' <=> Full(b))
    BY <2>1, InUseFacts DEF SameSlots, Full, NextTail
  <2>3. PICK t \in InUse : t = tailBlock
    BY InUseFacts
  <2>4. (push.pc \in Leaving /\ tailBlock # frontBlock => Full(tailBlock))'
    BY <1>1, <2>1, <2>2, <2>3 DEF BlocksLeftFull, Leaving
  <2>5. (\A b \in InUse : b # frontBlock /\ b # tailBlock => Full(b))'
    BY <1>1, <2>1, <2>2 DEF BlocksLeftFull
  <2> QED BY <2>4, <2>5 DEF BlocksLeftFull, Leaving
<1>4. CASE AdvanceFront
  <2>1. InUse' = InUse \ {frontBlock} /\ frontBlock # tailBlock /\ block' = block
    BY <1>4, AdvanceFrontHeld DEF AdvanceFront
  <2>2. \A b : Full(b)' <=> Full(b)
    BY <2>1 DEF Full, NextTail
  <2>3. PICK t : t = tailBlock
    OBVIOUS
  <2>4. (push.pc \in Leaving /\ tailBlock # frontBlock => Full(tailBlock))'
    BY <1>1, <2>1, <2>2, <2>3 DEF BlocksLeftFull, Leaving
  <2>5. \A b \in InUse' : b # frontBlock' /\ b # tailBlock' => Full(b)
    BY <1>1, <2>1 DEF BlocksLeftFull
  <2> QED BY <2>2, <2>4, <2>5 DEF BlocksLeftFull, Leaving
<1> QED BY <1>2, <1>3, <1>4

\* The destructor leaves the indices and links of the blocks.
LEMMA DestroyHolds ==
    ASSUME RingInv, RingInv', Destroy
    PROVE  /\ UNCHANGED <<frontBlock, tailBlock, push, requested, largestBlockSize>> /\ push = Idle
           /\ InUse' = InUse /\ freed' # {} /\ Len(block') = Len(block)
           /\ \A b \in 1..Len(block) : SameSlots(b)
<1>1. UNCHANGED <<frontBlock, tailBlock, push, requested, largestBlockSize>> /\ push = Idle /\ freed = {}
  BY DEF Destroy
<1>2. block \in Seq(Block) /\ Len(block) \in Nat
  BY DEF RingInv, RingTypeOK
<1>3. Len(block') = Len(block)
  BY <1>2 DEF Destroy
<1>4. ASSUME NEW b \in 1..Len(block) PROVE SameSlots(b) /\ block'[b].next = block[b].next
  <2>1. block[b] \in Block
    BY <1>2
  <2>2. PICK k \in Block : k = block[b]
    BY <2>1
  <2>3. \E d : block'[b] = [k EXCEPT !.data = d]
    BY <2>2 DEF Destroy
  <2>4. PICK d : block'[b] = [k EXCEPT !.data = d]
    BY <2>3
  <2>5. \A q : [k EXCEPT !.data = q].size = k.size /\ [k EXCEPT !.data = q].front = k.front
               /\ [k EXCEPT !.data = q].tail = k.tail /\ [k EXCEPT !.data = q].next = k.next
    BY DEF Block
  <2> QED BY <2>2, <2>4, <2>5 DEF SameSlots
<1>5. InUse' = InUse
  BY <1>1, <1>4, InUseFacts, HeldIsShaped, HeldStaysShaped, StillDistance
<1>6. freed' # {}
  <2>1. Len(block) - 1 \in Nat
    BY <1>2, InUseFacts
  <2>2. Ahead[0] \in InRing
    BY <2>1 DEF InRing
  <2> QED BY <2>2 DEF Destroy
<1> QED BY <1>1, <1>3, <1>4, <1>5, <1>6

\* What a step of the queue does to its ring.
LEMMA StepsOfRing ==
    ASSUME [Next]_vars
    PROVE  \/ (\E canAlloc \in BOOLEAN : CallPush(canAlloc)) \/ PushStep \/ PushAccepted
           \/ (\E op \in {"pop", "peek"} : CallPop(op)) \/ PopStep
           \/ Destroy
           \/ UNCHANGED <<requested, block, frontBlock, tailBlock, largestBlockSize, push, pop, sent, freed>>
  BY DEF Next, vars, ringVars, Enqueue, ProducerStep, EnqueueSucceeds, AskRing, AskPermit, ConsumerStep, RingAnswers,
         TakeElement, GoWithout, DestroyQueue

\* ... so that the blocks between front and tail stay full.
LEMMA LeftStillFull ==
    ASSUME RingInv, RingInv', SemInv, ElementUnderWay, BlocksLeftFull, [Next]_vars
    PROVE  BlocksLeftFull'
<1>1. CASE (\E canAlloc \in BOOLEAN : CallPush(canAlloc)) \/ PushStep \/ PushAccepted
  BY <1>1, PushKeepsLeftFull
<1>2. CASE (\E op \in {"pop", "peek"} : CallPop(op)) \/ PopStep
  BY <1>2, PopKeepsLeftFull
<1>3. CASE Destroy
  <2>1. /\ UNCHANGED <<frontBlock, tailBlock, push>> /\ push = Idle /\ InUse' = InUse
        /\ \A b \in InUse : SameSlots(b)
    BY <1>3, DestroyHolds, InUseFacts
  <2>2. \A b \in InUse : Full(b)' <=> Full(b)
    BY <2>1 DEF SameSlots, Full, NextTail
  <2> QED BY <2>1, <2>2 DEF BlocksLeftFull, Idle
<1>4. CASE UNCHANGED <<requested, block, frontBlock, tailBlock, largestBlockSize, push, pop, sent, freed>>
  BY <1>4, LookStays, StaysLeftFull
<1> QED BY <1>1, <1>2, <1>3, <1>4, StepsOfRing

(* A push that found room *)

\* What the blocks of the constructor hold with one of them left out, or the
\* only one, each filled but for one slot, is enough.
LEMMA BlocksHaveRoom ==
    ASSUME NEW size \in Sizes
    PROVE  \E n \in Nat \ {0}, k \in Nat \ {0} :
              /\ Blocks(size).count = n /\ Blocks(size).size = k + 1
              /\ (n = 1 /\ k >= size) \/ (n - 1) * k >= size
<1>1. size \in Nat \ {0}
  BY SizesAssumption
<1>2. MaxBlockSize \in {2, 4, 8, 16, 32, 64, 128, 256, 512}
  BY MaxBlockSizeAssumption
<1>3. CASE size + 1 > 2 * MaxBlockSize
  <2> DEFINE a == size + 2 * MaxBlockSize - 3
             k == MaxBlockSize - 1
             n == a \div k
  <2>1. Blocks(size) = [count |-> n, size |-> MaxBlockSize]
    BY <1>3 DEF Blocks
  <2>2. k \in Nat \ {0} /\ MaxBlockSize = k + 1
    BY <1>2
  <2>3. n \in Nat \ {0} /\ (n - 1) * k >= size
    BY <1>1, <1>2, <1>3
  <2> HIDE DEF n, k
  <2> QED BY <2>1, <2>2, <2>3
<1>4. CASE ~(size + 1 > 2 * MaxBlockSize)
  <2>1. Blocks(size) = [count |-> 1, size |-> CeilToPow2(size + 1)]
    BY <1>4 DEF Blocks
  <2>2. size + 1 \in Nat /\ 2 <= size + 1 /\ size + 1 <= 1024
    BY <1>1, <1>2, <1>4
  <2>3. PICK c \in Nat \ {0, 1} : c = CeilToPow2(size + 1) /\ c >= size + 1
    BY <2>2, CeilToPow2IsSize
  <2>4. c - 1 \in Nat \ {0} /\ c = (c - 1) + 1 /\ c - 1 >= size
    BY <1>1, <2>3
  <2> QED BY <2>1, <2>3, <2>4
<1> QED BY <1>3, <1>4

\* A full block holds one element less than it has slots.
LEMMA FullRow ==
    ASSUME RingInv, NEW b \in 1..Len(block), Full(b)
    PROVE  Len(Row(b)) = block[b].size - 1
<1>1. PICK k \in Block : k = block[b] /\ Shaped(k)
  BY InUseFacts
<1>2. After(k.size, k.tail) = k.front
  BY <1>1, NextSlot DEF Full, NextTail, Block, Shaped
<1>3. Gap(k.size, k.front, k.tail) = k.size - 1
  BY <1>1, <1>2 DEF After, Gap, Block, Shaped
<1> QED BY <1>1, <1>3, RowsTyped

\* More blocks hold more.
LEMMA MoreBlocksMore ==
    ASSUME NEW a \in Nat, NEW b \in Nat, NEW k \in Nat, a >= b
    PROVE  a * k >= b * k
<1>1. PICK d \in Nat : a = b + d
  <2>1. a - b \in Nat /\ a = b + (a - b)
    OBVIOUS
  <2> QED BY <2>1
<1>2. a * k = b * k + d * k /\ d * k \in Nat /\ b * k \in Nat
  BY <1>1
<1> QED BY <1>2

\* When the tail block is full and the block behind it is the consumer's, there
\* are as many elements as were asked for.
LEMMA FullRing ==
    ASSUME RingInv, BlocksLeftFull, Capacity, Full(tailBlock), NextBlock = frontBlock
    PROVE  Len(Contents) >= requested
<1>1. PICK n \in Nat \ {0}, k \in Nat \ {0} :
        /\ Blocks(requested).count = n /\ Blocks(requested).size = k + 1
        /\ (n = 1 /\ k >= requested) \/ (n - 1) * k >= requested
  BY BlocksHaveRoom DEF Capacity
<1>2. requested \in Nat
  BY SizesAssumption DEF Capacity
<1>3. HeldShape
  BY HeldIsShaped
<1>4. Distance \in Nat /\ Distance + 1 >= n
  <2>1. Distance \in Nat /\ Distance + 1 = RingLength
    BY <1>3 DEF HeldShape, TailAhead, FirstAt
  <2> QED BY <1>1, <2>1 DEF Capacity
<1>5. ASSUME NEW b \in 1..Len(block), Full(b) PROVE Len(Row(b)) \in Nat /\ Len(Row(b)) >= k
  <2>1. Len(Row(b)) = block[b].size - 1
    BY <1>5, FullRow
  <2>2. block[b].size \in Nat /\ block[b].size >= k + 1
    BY <1>1, InUseFacts DEF Capacity, Block
  <2> QED BY <2>1, <2>2
<1>6. CASE Distance = 0
  <2>1. tailBlock = frontBlock
    BY <1>3, <1>6 DEF HeldShape, TailAhead, FirstAt, Chain
  <2>2. PICK b \in 1..Len(block) : b = frontBlock
    BY InUseFacts
  <2>3. Held[0] = HeldRows[0]
    BY <1>3 DEF HeldShape, Gathers
  <2>4. HeldRows[0] = Row(b)
    <3>1. Ahead[0] = b
      BY <1>3, <2>2 DEF HeldShape, Chain
    <3> QED BY <3>1 DEF HeldRows
  <2>5. Contents = Row(b)
    BY <1>6, <2>3, <2>4 DEF Contents
  <2>6. Len(Contents) >= k /\ Len(Contents) \in Nat
    BY <1>5, <2>1, <2>2, <2>5
  <2>7. k >= requested
    <3>1. n = 1
      BY <1>4, <1>6
    <3>2. (n - 1) * k = 0
      BY <3>1
    <3> QED BY <1>1, <1>2, <3>1, <3>2
  <2> QED BY <1>2, <2>6, <2>7
<1>7. CASE Distance > 0
  <2>1. ASSUME NEW i \in 1..Distance PROVE Len(HeldRows[i]) >= k
    <3>1. Ahead[i] \in InUse
      BY <1>4 DEF InUse
    <3>2. PICK b \in 1..Len(block) : b = Ahead[i] /\ b \in InUse
      BY <3>1, InUseFacts
    <3>3. b # frontBlock
      <4>1. 0 \in 0..Distance /\ i \in 0..Distance /\ i # 0
        BY <1>4
      <4>2. Ahead[0] = frontBlock
        BY <1>3 DEF HeldShape, Chain
      <4>3. \A x, y \in 0..Distance : Ahead[x] = Ahead[y] => x = y
        BY <1>3 DEF HeldShape, TailAhead
      <4> QED BY <3>2, <4>1, <4>2, <4>3
    <3>4. Full(b)
      BY <3>2, <3>3 DEF BlocksLeftFull
    <3>5. HeldRows[i] = Row(b)
      BY <1>4, <3>2 DEF HeldRows
    <3> QED BY <1>5, <3>4, <3>5
  <2>2. Len(Held[Distance]) >= Distance * k
    <3>1. Gathers(Items, HeldRows, Held)
      BY <1>3 DEF HeldShape
    <3>2. PICK m \in Nat : m = Distance
      BY <1>4
    <3>3. \A i \in 1..m : Len(HeldRows[i]) >= k
      BY <2>1, <3>2
    <3> HIDE DEF Items
    <3>4. Len(Held[m]) >= m * k
      BY <3>1, <3>3, GatherLength
    <3> QED BY <3>2, <3>4
  <2>3. Contents \in Seq(Items)
    BY <1>3, ContentsTyped
  <2>4. Len(Contents) \in Nat
    BY <2>3
  <2>5. Distance * k >= requested
    <3>1. CASE n = 1 /\ k >= requested
      <4>1. Distance * k >= 1 * k
        BY <1>4, <1>7, MoreBlocksMore
      <4> QED BY <1>2, <1>4, <3>1, <4>1
    <3>2. CASE (n - 1) * k >= requested
      <4>1. n - 1 \in Nat /\ Distance >= n - 1
        BY <1>4
      <4>2. Distance * k >= (n - 1) * k
        BY <1>4, <4>1, MoreBlocksMore
      <4>3. Distance * k \in Nat /\ (n - 1) * k \in Nat
        BY <1>4, <4>1
      <4> QED BY <1>2, <3>2, <4>2, <4>3
    <3> QED BY <1>1, <3>1, <3>2
  <2>6. Distance * k \in Nat
    BY <1>4
  <2> QED BY <1>2, <2>2, <2>4, <2>5, <2>6 DEF Contents
<1> QED BY <1>4, <1>6, <1>7

(* Capacity, and a push that found room *)

\* No step of a push but the allocation makes a block or changes the size of
\* one.
LEMMA PushKeepsSizes ==
    ASSUME RingInv, ReloadFront \/ Construct \/ UseNext \/ ConstructNext \/ PublishNext \/ Publish \/ Link
    PROVE  Len(block') = Len(block) /\ \A b \in 1..Len(block) : block'[b].size = block[b].size
<1>1. push.pc # "idle"
  BY DEF ReloadFront, Construct, UseNext, ConstructNext, PublishNext, Publish, Link
<1>2. block \in Seq(Block) /\ tailBlock \in 1..Len(block) /\ NextBlock \in 1..Len(block)
  BY <1>1, PushFacts
<1>3. PICK b \in 1..Len(block) : \E r : block' = [block EXCEPT ![b] = r] /\ r.size = block[b].size
  <2>1. CASE ReloadFront \/ Construct \/ Publish \/ Link
    <3>1. PICK b \in 1..Len(block), k \in Block : b = tailBlock /\ k = block[b]
      BY <1>2
    <3>2. \E r : block' = [block EXCEPT ![b] = r] /\ r.size = block[b].size
      <4>1. CASE ReloadFront
        <5>1. block' = [block EXCEPT ![b] = [k EXCEPT !.localFront = k.front]]
          BY <3>1, <4>1 DEF ReloadFront
        <5>2. \A d : [k EXCEPT !.localFront = d].size = k.size
          BY DEF Block
        <5> QED BY <3>1, <5>1, <5>2
      <4>2. CASE Construct
        <5>1. block' = [block EXCEPT ![b] = [k EXCEPT !.data = [k.data EXCEPT ![k.tail] = push.value]]]
          BY <3>1, <4>2 DEF Construct
        <5>2. \A d : [k EXCEPT !.data = d].size = k.size
          BY DEF Block
        <5> QED BY <3>1, <5>1, <5>2
      <4>3. CASE Publish
        <5>1. block' = [block EXCEPT ![b] = [k EXCEPT !.tail = NextTail(b)]]
          BY <3>1, <4>3 DEF Publish
        <5>2. \A d : [k EXCEPT !.tail = d].size = k.size
          BY DEF Block
        <5> QED BY <3>1, <5>1, <5>2
      <4>4. CASE Link
        BY <3>1, <4>4 DEF Link, Block
      <4> QED BY <2>1, <4>1, <4>2, <4>3, <4>4
    <3> QED BY <3>2
  <2>2. CASE UseNext \/ ConstructNext \/ PublishNext
    <3>1. PICK b \in 1..Len(block), k \in Block : b = NextBlock /\ k = block[b]
      BY <1>2
    <3>2. \E r : block' = [block EXCEPT ![b] = r] /\ r.size = block[b].size
      <4>1. CASE UseNext
        <5>1. block' = [block EXCEPT ![b] = [k EXCEPT !.localFront = k.front]]
          BY <3>1, <4>1 DEF UseNext
        <5>2. \A d : [k EXCEPT !.localFront = d].size = k.size
          BY DEF Block
        <5> QED BY <3>1, <5>1, <5>2
      <4>2. CASE ConstructNext
        <5>1. block' = [block EXCEPT ![b] = [k EXCEPT !.data = [k.data EXCEPT ![k.tail] = push.value]]]
          BY <3>1, <4>2 DEF ConstructNext
        <5>2. \A d : [k EXCEPT !.data = d].size = k.size
          BY DEF Block
        <5> QED BY <3>1, <5>1, <5>2
      <4>3. CASE PublishNext
        <5>1. block' = [block EXCEPT ![b] = [k EXCEPT !.tail = NextTail(b)]]
          BY <3>1, <4>3 DEF PublishNext
        <5>2. \A d : [k EXCEPT !.tail = d].size = k.size
          BY DEF Block
        <5> QED BY <3>1, <5>1, <5>2
      <4> QED BY <2>2, <4>1, <4>2, <4>3
    <3> QED BY <3>2
  <2> QED BY <2>1, <2>2
<1>4. PICK r : block' = [block EXCEPT ![b] = r] /\ r.size = block[b].size
  BY <1>3
<1>5. Len(block') = Len(block)
  BY <1>2, <1>4
<1> QED BY <1>4, <1>5, OneChanges

\* Where the producer is with a new block.
LEMMA RingLengthKept ==
    ASSUME RingInv, (\E canAlloc \in BOOLEAN : CallPush(canAlloc)) \/ PushStep \/ PushAccepted
    PROVE  RingLength' = IF Link THEN RingLength + 1 ELSE RingLength
<1>1. block \in Seq(Block) /\ Len(block) \in Nat
  BY InUseFacts
<1>2. CASE \E canAlloc \in BOOLEAN : CallPush(canAlloc)
  BY <1>2 DEF CallPush, RingLength, Idle, Link
<1>3. CASE Publish \/ AdvanceTail \/ Refuse
  <2>1. push.pc # "link" /\ push'.pc # "link"
    BY <1>3 DEF Publish, AdvanceTail, Refuse, PushReturns, Idle
  <2>2. Len(block') = Len(block)
    BY <1>3, PushKeepsSizes DEF AdvanceTail, Refuse
  <2> QED BY <2>1, <2>2 DEF RingLength, Link
<1>4. CASE Allocate
  <2>1. push.pc = "allocate" /\ push'.pc = "link"
    BY <1>4, PushKeepsCall DEF Allocate, PushPcs
  <2>2. Len(block') = Len(block) + 1
    BY <1>1, <1>4 DEF Allocate
  <2> QED BY <1>1, <2>1, <2>2 DEF RingLength, Link
<1>5. CASE Link
  <2>1. push.pc = "link" /\ push'.pc = "advanceTail"
    BY <1>5, PushKeepsCall DEF Link, PushPcs
  <2>2. Len(block') = Len(block)
    BY <1>5, PushKeepsSizes
  <2> QED BY <1>1, <1>5, <2>1, <2>2 DEF RingLength
<1>6. CASE ReloadFront \/ Construct \/ UseNext \/ ConstructNext \/ PublishNext
  <2>1. push.pc # "link" /\ push.pc # "idle"
    BY <1>6 DEF ReloadFront, Construct, UseNext, ConstructNext, PublishNext
  <2>2. PushGoes("construct") \/ PushGoes("full") \/ PushGoes("publish") \/ PushGoes("constructNext")
        \/ PushGoes("publishNext") \/ PushGoes("advanceTail")
    BY <1>6 DEF ReloadFront, Construct, UseNext, ConstructNext, PublishNext
  <2>3. push'.pc # "link"
    BY <2>1, <2>2, PushKeepsCall DEF PushPcs
  <2>4. Len(block') = Len(block)
    BY <1>6, PushKeepsSizes
  <2> QED BY <2>1, <2>3, <2>4 DEF RingLength, Link
<1>7. CASE FindFreeBlock \/ FindNoBlock
  <2>1. push.pc = "full" /\ (PushGoes("useNext") \/ PushGoes("allocate")) /\ block' = block
    BY <1>7 DEF FindFreeBlock, FindNoBlock
  <2>2. push'.pc # "link"
    BY <2>1, PushKeepsCall DEF PushPcs
  <2> QED BY <2>1, <2>2 DEF RingLength, Link
<1> QED BY <1>2, <1>3, <1>4, <1>5, <1>6, <1>7 DEF PushStep, PushAccepted

\* With the same sizes, and as many blocks or one more, the capacity stays,
LEMMA SizesKeepCapacity ==
    ASSUME RingInv, Capacity, UNCHANGED <<requested, largestBlockSize>>, Len(block') = Len(block),
           \A b \in 1..Len(block) : block'[b].size = block[b].size,
           RingLength' \in {RingLength, RingLength + 1}
    PROVE  Capacity'
<1>1. Blocks(requested)' = Blocks(requested)
  OBVIOUS
<1>2. Blocks(requested).count \in Nat /\ RingLength \in Nat
  BY BlocksMade, RingFacts DEF Capacity, RingInv
<1> QED BY <1>1, <1>2 DEF Capacity

\* ... and so each step keeps what the constructor has made.
LEMMA CapacityStays ==
    ASSUME RingInv, RingInv', Capacity, [Next]_vars
    PROVE  Capacity'
<1>0. RingLength \in Nat
  BY RingFacts DEF RingInv
<1>1. CASE ReloadFront \/ Construct \/ UseNext \/ ConstructNext \/ PublishNext \/ Publish \/ Link
  <2>1. UNCHANGED <<requested, largestBlockSize>>
    BY <1>1 DEF ReloadFront, Construct, UseNext, ConstructNext, PublishNext, Publish, Link
  <2>2. RingLength' \in {RingLength, RingLength + 1}
    BY <1>1, RingLengthKept DEF PushStep, PushAccepted
  <2> QED BY <1>1, <2>1, <2>2, PushKeepsSizes, SizesKeepCapacity
<1>2. CASE (\E canAlloc \in BOOLEAN : CallPush(canAlloc)) \/ FindFreeBlock \/ FindNoBlock \/ Refuse \/ AdvanceTail
  <2>1. UNCHANGED <<requested, largestBlockSize, block>>
    BY <1>2 DEF CallPush, FindFreeBlock, FindNoBlock, Refuse, AdvanceTail
  <2>2. RingLength' \in {RingLength, RingLength + 1}
    BY <1>2, RingLengthKept DEF PushStep, PushAccepted
  <2> QED BY <2>1, <2>2, SizesKeepCapacity
<1>3. CASE Allocate
  <2>1. block \in Seq(Block) /\ Len(block) \in Nat /\ largestBlockSize \in Nat
    BY DEF RingInv, RingTypeOK
  <2>2. PICK n \in Nat, m \in Nat : n = NewBlockSize /\ n >= largestBlockSize /\ largestBlockSize' = n
                                   /\ m = Blocks(requested).size /\ largestBlockSize >= m
    <3>1. NewBlockSize \in Nat /\ NewBlockSize >= largestBlockSize
      BY <2>1 DEF NewBlockSize
    <3>2. Blocks(requested).size \in Nat /\ largestBlockSize >= Blocks(requested).size
      BY BlocksMade DEF Capacity
    <3> HIDE DEF NewBlockSize
    <3> QED BY <1>3, <3>1, <3>2 DEF Allocate
  <2>3. \E k : block' = Append(block, k) /\ k.size = n
    <3>1. block' = Append(block, FirstFilled(n, push.value, NextBlock))
      BY <1>3, <2>2 DEF Allocate, FirstFilled
    <3>2. FirstFilled(n, push.value, NextBlock).size = n
      BY DEF FirstFilled, MakeBlock
    <3> QED BY <3>1, <3>2
  <2>4. PICK k : block' = Append(block, k) /\ k.size = n
    BY <2>3
  <2>5. Len(block') = Len(block) + 1 /\ block'[Len(block) + 1] = k /\ \A b \in 1..Len(block) : block'[b] = block[b]
    BY <2>1, <2>4
  <2>6. \A b \in 1..Len(block') : block'[b].size >= m
    <3>1. n >= m
      BY <2>1, <2>2
    <3>2. ASSUME NEW b \in 1..Len(block') PROVE block'[b].size >= m
      <4>1. CASE b = Len(block) + 1
        BY <2>4, <2>5, <3>1, <4>1
      <4>2. CASE b # Len(block) + 1
        <5>1. b \in 1..Len(block)
          BY <2>1, <2>5, <4>2
        <5> QED BY <2>2, <2>5, <5>1 DEF Capacity
      <4> QED BY <4>1, <4>2
    <3> QED BY <3>2
  <2>7. RingLength' = RingLength
    BY <1>3, RingLengthKept DEF PushStep, Allocate, Link
  <2>8. requested' = requested
    BY <1>3 DEF Allocate
  <2>9. largestBlockSize' >= m
    BY <2>1, <2>2
  <2> QED BY <2>2, <2>6, <2>7, <2>8, <2>9 DEF Capacity
<1>4. CASE (\E op \in {"pop", "peek"} : CallPop(op)) \/ PopStep
  <2>1. ProducersKept
    BY <1>4, PopKeepsProducers
  <2>2. RingLength' = RingLength
    BY <2>1 DEF ProducersKept, RingLength
  <2> QED BY <2>1, <2>2, SizesKeepCapacity DEF ProducersKept
<1>5. CASE Destroy
  <2>1. /\ UNCHANGED <<requested, largestBlockSize, push>> /\ Len(block') = Len(block)
        /\ \A b \in 1..Len(block) : block'[b].size = block[b].size
    BY <1>5, DestroyHolds DEF SameSlots
  <2>2. RingLength' = RingLength
    BY <2>1 DEF RingLength
  <2> QED BY <2>1, <2>2, SizesKeepCapacity
<1>6. CASE UNCHANGED <<requested, block, frontBlock, tailBlock, largestBlockSize, push, pop, sent, freed>>
  <2>1. RingLength' = RingLength
    BY <1>6 DEF RingLength
  <2> QED BY <1>6, <2>1, SizesKeepCapacity
<1> QED BY <1>1, <1>2, <1>3, <1>4, <1>5, <1>6, StepsOfRing DEF PushStep, PushAccepted

(* What a call does to what is held *)

\* What is held is a finite sequence, one shorter without its first element.
LEMMA HeldTyped ==
    ASSUME RingInv
    PROVE  Contents \in Seq(Items) /\ Len(Contents) \in Nat
           /\ (Contents # <<>> => Len(Contents) > 0 /\ Len(Tail(Contents)) = Len(Contents) - 1)
           /\ (Contents = <<>> => Len(Contents) = 0)
<1>1. PICK s \in Seq(Items) : s = Contents
  BY HeldIsShaped, ContentsTyped
<1> HIDE DEF Items
<1>2. Len(s) \in Nat /\ (s # <<>> => Len(s) > 0 /\ Len(Tail(s)) = Len(s) - 1) /\ (s = <<>> => Len(s) = 0)
  BY EmptySeq, HeadTailProperties
<1> QED BY <1>1, <1>2

\* A push changes nothing held until it is accepted,
LEMMA PushHolds ==
    ASSUME RingInv, RingInv', (\E canAlloc \in BOOLEAN : CallPush(canAlloc)) \/ PushStep
    PROVE  Contents' = Contents
  BY PushStays, StaysHeld

\* ... and then its element is the last,
LEMMA AcceptAdds ==
    ASSUME RingInv, RingInv', ElementUnderWay, PushAccepted
    PROVE  Contents' = Append(Contents, push.value) /\ push.value \in Items
<1>3. push.value \in Nat
  BY DEF PushAccepted, Publish, AdvanceTail, RingInv, RingTypeOK, PushCalls, Idle
<1>1. CASE Publish
  <2>1. block[tailBlock].data[block[tailBlock].tail] = push.value
    BY <1>1 DEF ElementUnderWay, Publish
  <2>2. Contents' = Append(Contents, push.value)
    BY <1>1, <2>1, PublishAdds
  <2> QED BY <1>3, <2>2 DEF Items, Elements
<1>2. CASE AdvanceTail
  <2>1. PICK c : c = NextBlock
    OBVIOUS
  <2>2. Row(c) = <<push.value>>
    BY <1>2, <2>1 DEF ElementUnderWay, AdvanceTail
  <2>3. Contents' = Append(Contents, push.value)
    BY <1>2, <2>1, <2>2, AdvanceTailAdds
  <2> QED BY <1>3, <2>3 DEF Items, Elements
<1> QED BY <1>1, <1>2 DEF PushAccepted

\* ... one more than before.
LEMMA AcceptLengthens ==
    ASSUME RingInv, RingInv', ElementUnderWay, PushAccepted
    PROVE  Len(Contents') = Len(Contents) + 1
<1>1. PICK s \in Seq(Items), x \in Items : s = Contents /\ x = push.value
  BY HeldTyped, AcceptAdds
<1>2. Contents' = Append(s, x)
  BY <1>1, AcceptAdds
<1> HIDE DEF Items
<1> QED BY <1>1, <1>2, AppendProperties

\* A pop changes nothing held until it releases its slot.
LEMMA PopHolds ==
    ASSUME RingInv, RingInv', (\E op \in {"pop", "peek"} : CallPop(op)) \/ PopStep, ~Release
    PROVE  Contents' = Contents
  BY PopStays, StaysHeld, AdvanceFrontHeld

\* A queue that was destroyed has its blocks freed.
LEMMA DestroyLeaves == ASSUME RingInv, RingInv', Destroy PROVE freed' # {}
  BY DestroyHolds

\* The steps of the semaphore change nothing held.
LEMMA IdleHolds ==
    ASSUME RingInv, RingInv', UNCHANGED <<block, frontBlock, tailBlock, pop>>
    PROVE  Contents' = Contents
  BY LookStays, StaysHeld

-----------------------------------------------------------------------------

\* The element under way stays in its place in each step of either side.
LEMMA ElementStillUnderWay ==
    ASSUME RingInv, RingInv', ElementUnderWay, [Next]_vars
    PROVE  ElementUnderWay'
<1>1. CASE (\E canAlloc \in BOOLEAN : CallPush(canAlloc)) \/ PushStep \/ PushAccepted
  BY <1>1, PushKeepsElement
<1>2. CASE (\E op \in {"pop", "peek"} : CallPop(op)) \/ PopStep
  BY <1>2, PopKeepsProducers, ElementStaysUnderWay
<1>3. CASE Destroy
  <2>1. push'.pc = "idle"
    BY <1>3 DEF Destroy, Idle
  <2> QED BY <2>1, NotUnderWay
<1>4. CASE UNCHANGED <<requested, block, frontBlock, tailBlock, largestBlockSize, push, pop, sent, freed>>
  <2>1. ProducersKept
    BY <1>4, LookKeepsProducers
  <2> QED BY <2>1, ElementStaysUnderWay
<1> QED BY <1>1, <1>2, <1>3, <1>4, StepsOfRing

\* The front block is never left for the one behind the tail.
LEMMA NextStaysFree ==
    ASSUME RingInv, RingInv', (\E op \in {"pop", "peek"} : CallPop(op)) \/ PopStep, push.pc # "idle"
    PROVE  NextBlock' = NextBlock /\ (NextBlock # frontBlock => NextBlock' # frontBlock')
<1>1. PICK t \in 1..Len(block) : t = tailBlock
  BY InUseFacts
<1>2. NextBlock' = NextBlock
  BY <1>1, PopKeepsProducers DEF ProducersKept, NextBlock
<1>3. frontBlock' = frontBlock \/ frontBlock' # NextBlock
  <2>1. CASE Release
    BY <2>1 DEF Release
  <2>2. CASE AdvanceFront
    BY <2>2, AdvanceFrontHeld
  <2>3. CASE ~Release /\ ~AdvanceFront
    BY <2>3, PopStays DEF Stays
  <2> QED BY <2>1, <2>2, <2>3
<1> QED BY <1>2, <1>3

\* A push that found room finds it until it returns: the consumer only makes
\* more.
LEMMA RoomStaysKept ==
    ASSUME RingInv, RingInv', BlocksLeftFull, Capacity, RoomIsKept, [Next]_vars
    PROVE  RoomIsKept'
<1>1. CASE \E canAlloc \in BOOLEAN : CallPush(canAlloc)
  <2>1. Contents' = Contents /\ requested' = requested
    BY <1>1, PushHolds DEF CallPush
  <2>2. push'.pc \in {"construct", "reload"} /\ push'.room = (Len(Contents) < requested)
    BY <1>1 DEF CallPush
  <2> QED BY <2>1, <2>2 DEF RoomIsKept
<1>2. CASE ReloadFront
  <2>1. push.pc = "reload" /\ UNCHANGED <<frontBlock, tailBlock>>
    BY <1>2 DEF ReloadFront
  <2>2. CASE NextTail(tailBlock) # block[tailBlock].front
    <3>1. push'.pc = "construct"
      BY <1>2, <2>1, <2>2, PushKeepsCall DEF ReloadFront, PushPcs
    <3> QED BY <3>1 DEF RoomIsKept
  <2>3. CASE NextTail(tailBlock) = block[tailBlock].front
    <3>1. push'.pc = "full" /\ push'.room = push.room
      BY <1>2, <2>1, <2>3, PushKeepsCall DEF ReloadFront, PushPcs
    <3>2. push.room => NextBlock # frontBlock
      <4>1. push.room => Len(Contents) < requested
        BY <2>1 DEF RoomIsKept
      <4>2. NextBlock = frontBlock => Len(Contents) >= requested
        BY <2>3, FullRing DEF Full
      <4>3. Len(Contents) \in Nat /\ requested \in Nat
        BY HeldTyped, SizesAssumption DEF Capacity
      <4> QED BY <4>1, <4>2, <4>3
    <3>3. NextBlock' = NextBlock
      <4>1. PICK b \in 1..Len(block), k \in Block : b = tailBlock /\ k = block[b]
        BY InUseFacts
      <4>2. block' = [block EXCEPT ![b] = [k EXCEPT !.localFront = k.front]]
        BY <1>2, <4>1 DEF ReloadFront
      <4>3. \A d : [k EXCEPT !.localFront = d].next = k.next
        BY DEF Block
      <4>4. block'[b].next = k.next
        BY <4>2, <4>3, OneChanges
      <4> QED BY <2>1, <4>1, <4>4 DEF NextBlock
    <3> QED BY <2>1, <3>1, <3>2, <3>3 DEF RoomIsKept
  <2> QED BY <2>2, <2>3
<1>3. CASE FindNoBlock
  <2>1. push.pc = "full" /\ NextBlock = frontBlock
    BY <1>3 DEF FindNoBlock
  <2>2. push'.pc = "allocate" /\ push'.room = push.room
    BY <1>3, <2>1, PushKeepsCall DEF FindNoBlock, PushPcs
  <2> QED BY <2>1, <2>2 DEF RoomIsKept
<1>4. CASE Construct \/ FindFreeBlock \/ UseNext \/ ConstructNext \/ PublishNext \/ Allocate \/ Link
  <2>1. push.pc # "idle"
    BY <1>4 DEF Construct, FindFreeBlock, UseNext, ConstructNext, PublishNext, Allocate, Link
  <2>2. PushGoes("publish") \/ PushGoes("useNext") \/ PushGoes("constructNext") \/ PushGoes("publishNext")
        \/ PushGoes("advanceTail") \/ PushGoes("link")
    BY <1>4 DEF Construct, FindFreeBlock, UseNext, ConstructNext, PublishNext, Allocate, Link
  <2>3. push'.pc \in {"publish", "useNext", "constructNext", "publishNext", "advanceTail", "link"}
    BY <2>1, <2>2, PushKeepsCall DEF PushPcs
  <2> QED BY <2>3 DEF RoomIsKept
<1>5. CASE Refuse \/ PushAccepted \/ Destroy
  <2>1. push'.pc = "idle"
    BY <1>5 DEF Refuse, PushAccepted, Publish, AdvanceTail, Destroy, PushReturns, Idle
  <2> QED BY <2>1 DEF RoomIsKept
<1>6. CASE (\E op \in {"pop", "peek"} : CallPop(op)) \/ PopStep
  <2>1. push' = push /\ requested' = requested
    BY <1>6, PopKeepsProducers DEF ProducersKept
  <2>2. Len(Contents') <= Len(Contents) /\ Len(Contents) \in Nat /\ Len(Contents') \in Nat
    <3>1. CASE Release
      <4>1. Contents # <<>> /\ Contents' = Tail(Contents)
        BY <3>1, ReleaseRemoves
      <4> QED BY <4>1, HeldTyped
    <3>2. CASE ~Release
      <4>1. Contents' = Contents
        BY <1>6, <3>2, PopHolds
      <4> QED BY <4>1, HeldTyped
    <3> QED BY <3>1, <3>2
  <2>3. requested \in Nat
    BY SizesAssumption DEF Capacity
  <2>4. push.pc = "full" /\ push.room => NextBlock' # frontBlock'
    BY <1>6, NextStaysFree DEF RoomIsKept
  <2>5. push.pc = "reload" /\ push.room => Len(Contents') < requested
    BY <2>2, <2>3 DEF RoomIsKept
  <2> QED BY <2>1, <2>4, <2>5 DEF RoomIsKept
<1>7. CASE UNCHANGED <<requested, block, frontBlock, tailBlock, largestBlockSize, push, pop, sent, freed>>
  <2>1. Contents' = Contents
    BY <1>7, IdleHolds
  <2>2. NextBlock' = NextBlock
    BY <1>7 DEF NextBlock
  <2> QED BY <1>7, <2>1, <2>2 DEF RoomIsKept
<1> QED BY <1>1, <1>2, <1>3, <1>4, <1>5, <1>6, <1>7, StepsOfRing DEF PushStep

(* The permits and the elements *)

\* The permits are a count.
LEMMA PermitsTyped == SemInv => Permits \in Int /\ Permits >= 0
<1> SUFFICES ASSUME SemInv PROVE Permits \in Int /\ Permits >= 0
  OBVIOUS
<1>1. m_count \in Int /\ m_count >= -1 /\ (m_count = -1 => wait.pc \in Claims)
  BY DEF SemInv, SemTypeOK, OneTokenPerClaim
<1> QED BY <1>1 DEF Permits

\* What the steps of the semaphore do to the permits.
LEMMA SameCountSamePermits ==
    ASSUME m_count' = m_count, wait'.pc \in Claims <=> wait.pc \in Claims
    PROVE  Permits' = Permits
  BY DEF Permits, Claims

\* A signal adds one permit,
LEMMA AddPermitAdds == ASSUME SemInv, AddPermit PROVE Permits' = Permits + 1
<1>1. m_count \in Int /\ m_count' = m_count + 1 /\ wait' = wait
  BY DEF SemInv, SemTypeOK, AddPermit
<1> QED BY <1>1 DEF Permits, Claims

\* ... a granted wait takes one, and a refused wait has seen that there was
\* none.
LEMMA WaitPermits ==
    ASSUME SemInv, WaitStep
    PROVE  /\ wait.pc \notin {"idle", "granted", "refused"}
           /\ \/ wait'.pc = "granted" /\ Permits' = Permits - 1
              \/ wait'.pc = "refused" /\ Permits' = Permits /\ Permits = 0
              \/ wait'.pc \notin {"granted", "refused", "idle"} /\ Permits' = Permits
<1>1. /\ m_count \in Int /\ m_sema \in Nat
      /\ wait \in [pc : {"idle", "try", "spin", "take", "claim", "granted", "refused", "reclaim"} \union Claims,
                   timeout : Timeouts]
  BY DEF SemInv, SemTypeOK
<1>2. ASSUME NEW pc, WaitGoes(pc) PROVE wait'.pc = pc
  BY <1>1, <1>2 DEF WaitGoes
<1>3. wait.pc \notin {"idle", "granted", "refused"}
  BY DEF WaitStep, SeePermit, TryFails, SpinEnds, TakePermit, Claim, Wake, TimeOut, Restore, Reclaim, TryToken
<1>4. m_count >= -1 /\ (m_count = -1 => wait.pc \in Claims)
      /\ (wait.pc \in {"take", "reclaim"} => m_count >= 1) /\ (wait.pc = "token" => m_count >= 0)
      /\ Tokens = IF (wait.pc \in Claims /\ m_count >= 0) \/ wait.pc = "reclaim" THEN 1 ELSE 0
  BY DEF SemInv, OneTokenPerClaim, SeenPermitsStay
<1>5. CASE SeePermit \/ SpinEnds
  <2>1. wait.pc \in {"try", "spin"} /\ wait'.pc \in {"take", "claim"} /\ m_count' = m_count
    BY <1>2, <1>5 DEF SeePermit, SpinEnds
  <2> QED BY <1>3, <2>1, SameCountSamePermits DEF Claims
<1>6. CASE TryFails
  <2>1. wait.pc = "try" /\ m_count <= 0 /\ m_count' = m_count /\ (WaitGoes("refused") \/ WaitGoes("spin"))
    BY <1>6 DEF TryFails
  <2>2. wait'.pc \in {"refused", "spin"}
    BY <1>2, <2>1
  <2>3. Permits' = Permits
    BY <2>1, <2>2, SameCountSamePermits DEF Claims
  <2>4. Permits = 0
    BY <1>1, <1>4, <2>1 DEF Permits, Claims
  <2> QED BY <1>3, <2>2, <2>3, <2>4
<1>7. CASE TakePermit
  <2>1. wait.pc = "take" /\ m_count' = m_count - 1 /\ wait'.pc = "granted"
    BY <1>2, <1>7 DEF TakePermit
  <2> QED BY <1>1, <1>3, <2>1 DEF Permits, Claims
<1>8. CASE Claim
  <2>1. wait.pc = "claim" /\ m_count' = m_count - 1
    BY <1>8 DEF Claim
  <2>2. CASE m_count > 0
    <3>1. wait'.pc = "granted"
      BY <1>2, <1>8, <2>2 DEF Claim
    <3> QED BY <1>1, <1>3, <2>1, <3>1 DEF Permits, Claims
  <2>3. CASE ~(m_count > 0)
    <3>1. WaitGoes("restore") \/ WaitGoes("sleep")
      BY <1>8, <2>3 DEF Claim
    <3>2. wait'.pc \in {"restore", "sleep"}
      BY <1>2, <3>1
    <3> QED BY <1>1, <1>3, <2>1, <3>2 DEF Permits, Claims
  <2> QED BY <2>2, <2>3
<1>9. CASE Wake
  <2>1. wait.pc = "sleep" /\ m_count' = m_count /\ wait'.pc = "granted"
    BY <1>2, <1>9 DEF Wake
  <2> QED BY <1>1, <1>3, <2>1 DEF Permits, Claims
<1>10. CASE TimeOut
  <2>1. wait.pc = "sleep" /\ m_count' = m_count /\ wait'.pc = "restore"
    BY <1>2, <1>10 DEF TimeOut
  <2> QED BY <1>3, <2>1, SameCountSamePermits DEF Claims
<1>11. CASE Restore
  <2>1. wait.pc = "restore" /\ m_count' = m_count + 1
    BY <1>11 DEF Restore
  <2>2. CASE m_count < 0
    <3>1. wait'.pc = "refused"
      BY <1>2, <1>11, <2>2 DEF Restore
    <3>2. m_count = -1
      BY <1>1, <1>4, <2>2
    <3> QED BY <1>3, <2>1, <3>1, <3>2 DEF Permits, Claims
  <2>3. CASE ~(m_count < 0)
    <3>1. wait'.pc = "reclaim"
      BY <1>2, <1>11, <2>3 DEF Restore
    <3> QED BY <1>1, <1>3, <2>1, <3>1 DEF Permits, Claims
  <2> QED BY <2>2, <2>3
<1>12. CASE Reclaim
  <2>1. wait.pc = "reclaim" /\ m_count' = m_count - 1
    BY <1>12 DEF Reclaim
  <2>2. WaitGoes("token") \/ WaitGoes("restore")
    BY <1>12 DEF Reclaim
  <2>3. wait'.pc \in {"token", "restore"}
    BY <1>2, <2>2
  <2> QED BY <1>1, <1>3, <2>1, <2>3 DEF Permits, Claims
<1>13. CASE TryToken
  <2>1. wait.pc = "token" /\ m_count' = m_count
    BY <1>13 DEF TryToken
  <2>2. WaitGoes("granted") \/ WaitGoes("restore")
    BY <1>13 DEF TryToken
  <2>3. wait'.pc \in {"granted", "restore"}
    BY <1>2, <2>2
  <2> QED BY <1>1, <1>3, <2>1, <2>3 DEF Permits, Claims
<1> QED BY <1>5, <1>6, <1>7, <1>8, <1>9, <1>10, <1>11, <1>12, <1>13 DEF WaitStep

-----------------------------------------------------------------------------

\* The steps of the producer.
LEMMA ProducerStepsFind ==
    ASSUME RingInv, RingInv', SemInv, ElementUnderWay, CallsMatch, SomeIsFound, PermitsCount,
           (\E canAlloc \in BOOLEAN : Enqueue(canAlloc)) \/ ProducerStep
    PROVE  SomeIsFound' /\ PermitsCount'
<1>1. CASE (\E canAlloc \in BOOLEAN : Enqueue(canAlloc)) \/ (PushStep /\ UNCHANGED <<semVars, blocking, asked>>)
  <2>1. /\ UNCHANGED <<m_count, m_sema, signal, wait, blocking, asked>>
        /\ (\E canAlloc \in BOOLEAN : CallPush(canAlloc)) \/ PushStep
    BY <1>1 DEF Enqueue, semVars
  <2>2. UNCHANGED <<pop, freed, frontBlock, tailBlock>>
    BY <2>1 DEF CallPush, PushStep, ReloadFront, Construct, FindFreeBlock, UseNext, ConstructNext, PublishNext, FindNoBlock, Allocate, Link, Refuse
  <2>3. Contents' = Contents
    BY <2>1, PushHolds
  <2>4. Permits' = Permits /\ Granted' = Granted /\ Unsignalled' = Unsignalled /\ CannotMiss' = CannotMiss
    BY <2>1, <2>2 DEF Permits, Granted, Unsignalled, CannotMiss, Claims
  <2>5. PermitsCount'
    BY <2>1, <2>2, <2>3, <2>4 DEF PermitsCount
  <2>6. SomeIsFound'
    BY <2>1, <2>2, <2>3, <2>4 DEF SomeIsFound
  <2> QED BY <2>5, <2>6
<1>2. CASE EnqueueSucceeds
  <2>1. /\ PushAccepted /\ UNCHANGED <<m_count, wait, blocking, asked>>
        /\ IF blocking THEN signal = "idle" /\ signal' = "add" ELSE signal' = signal
    BY <1>2 DEF EnqueueSucceeds, CallSignal, semVars
  <2>2. UNCHANGED <<pop, freed, frontBlock>> /\ (tailBlock' = tailBlock \/ tailBlock' # frontBlock)
    BY <2>1 DEF PushAccepted, Publish, AdvanceTail, RingInv, ProducerKnows
  <2>3. Len(Contents') = Len(Contents) + 1
    BY <2>1, AcceptLengthens
  <2>4. Permits' = Permits /\ Granted' = Granted /\ CannotMiss' = CannotMiss
    BY <2>1, <2>2 DEF Permits, Granted, CannotMiss, Claims
  <2>5. blocking => Unsignalled = 0 /\ Unsignalled' = 1
    BY <2>1 DEF Unsignalled
  <2>6. PermitsCount'
    <3>1. Permits \in Int /\ Granted \in {0, 1} /\ Len(Contents) \in Nat
      BY PermitsTyped, HeldTyped DEF Granted
    <3> QED BY <2>1, <2>2, <2>3, <2>4, <2>5, <3>1 DEF PermitsCount
  <2>7. Contents' # <<>>
    <3>1. Len(Contents) \in Nat
      BY HeldTyped
    <3>2. Len(Contents') # 0
      BY <2>3, <3>1
    <3>3. Len(<<>>) = 0
      OBVIOUS
    <3> QED BY <3>2, <3>3
  <2>8. SomeIsFound'
    BY <2>1, <2>2, <2>4, <2>7 DEF SomeIsFound
  <2> QED BY <2>6, <2>8
<1>3. CASE SignalStep /\ UNCHANGED <<ringVars, blocking, asked>>
  <2>1. UNCHANGED <<block, frontBlock, tailBlock, pop, freed, blocking, asked, wait>>
    BY <1>3 DEF ringVars, SignalStep, AddPermit, Post
  <2>2. Contents' = Contents
    BY <2>1, IdleHolds
  <2>3. Granted' = Granted /\ CannotMiss' = CannotMiss
    BY <2>1 DEF Granted, CannotMiss
  <2>4. Permits' + Unsignalled' = Permits + Unsignalled /\ Permits' \in {Permits, Permits + 1}
    <3>1. CASE AddPermit
      <4>1. Permits' = Permits + 1 /\ Permits \in Int
        BY <3>1, AddPermitAdds, PermitsTyped
      <4>2. Unsignalled = 1 /\ Unsignalled' = 0
        BY <3>1 DEF AddPermit, Unsignalled
      <4> QED BY <4>1, <4>2
    <3>2. CASE Post
      <4>1. Permits' = Permits /\ Permits \in Int
        BY <2>1, <3>2, SameCountSamePermits, PermitsTyped DEF Post
      <4>2. Unsignalled = 0 /\ Unsignalled' = 0
        BY <3>2 DEF Post, Unsignalled
      <4> QED BY <4>1, <4>2
    <3> QED BY <1>3, <3>1, <3>2 DEF SignalStep
  <2>5. Permits \in Int /\ Granted \in {0, 1} /\ Unsignalled \in {0, 1} /\ Unsignalled' \in {0, 1}
    BY PermitsTyped DEF Granted, Unsignalled
  <2>6. PermitsCount'
    <3>1. Permits' \in Int
      BY <2>4, <2>5
    <3>2. Permits' + Granted' + Unsignalled' = Permits + Granted + Unsignalled
      <4>1. PICK p \in Int, p2 \in Int, g \in Int, u \in Int, u2 \in Int :
              p = Permits /\ p2 = Permits' /\ g = Granted /\ u = Unsignalled /\ u2 = Unsignalled'
        BY <2>5, <3>1
      <4>2. p2 + u2 = p + u
        BY <2>4, <4>1
      <4>3. p2 + g + u2 = p + g + u
        BY <4>2
      <4> QED BY <2>3, <4>1, <4>3
    <3> QED BY <2>1, <2>2, <3>2 DEF PermitsCount
  <2>7. Permits > 0 => Permits' > 0
    BY <2>4, <2>5
  <2>8. SomeIsFound'
    BY <2>1, <2>2, <2>3, <2>7 DEF SomeIsFound
  <2> QED BY <2>6, <2>8
<1> QED BY <1>1, <1>2, <1>3 DEF ProducerStep

\* A consumer with a call under way is not about to make another.
LEMMA NoCallNothing ==
    ASSUME CallsMatch, asked = NoCall
    PROVE  pop = Idle /\ wait = NotWaiting /\ Granted = 0
<1>1. pop = Idle /\ wait = NotWaiting
  BY DEF CallsMatch
<1> QED BY <1>1 DEF Granted, NotWaiting

\* What is counted are numbers.
LEMMA CountsAreInts ==
    ASSUME RingInv, SemInv
    PROVE  Permits \in Int /\ Permits >= 0 /\ Granted \in Int /\ Unsignalled \in Int /\ Unsignalled >= 0
           /\ Len(Contents) \in Int /\ Len(Contents) >= 0
  BY PermitsTyped, HeldTyped DEF Granted, Unsignalled

\* A call of the ring that has a permit, or that saw an element, finds one.
LEMMA AskRingFinds ==
    ASSUME RingInv, RingInv', SemInv, CallsMatch, SomeIsFound, PermitsCount,
           NEW op \in {"pop", "peek"}, AskRing(op)
    PROVE  SomeIsFound' /\ PermitsCount'
<1>1. /\ UNCHANGED <<m_count, m_sema, signal, wait, blocking>> /\ CallPop(op)
      /\ asked = NoCall /\ (~blocking \/ op = "peek")
  BY DEF AskRing, Ask, semVars
<1>2. /\ UNCHANGED <<frontBlock, tailBlock, freed>> /\ pop'.pc \in {"take", "reload"} /\ pop' # Idle
  BY <1>1 DEF CallPop, Idle
<1>3. Contents' = Contents
  <2>1. ~Release
    BY <1>1 DEF CallPop, Release, Idle
  <2> QED BY <1>1, <2>1, PopHolds
<1>4. wait = NotWaiting /\ Granted = 0
  BY <1>1, NoCallNothing
<1>5. asked'.op = op /\ (asked'.some => Contents # <<>>)
  <2>1. PICK u \in {0, 1} : asked'.op = op /\ asked'.some = (Len(Contents) - u > 0)
    BY DEF AskRing, Ask, Unsignalled
  <2>2. Contents = <<>> => Len(Contents) = 0
    BY HeldTyped
  <2>3. ~(0 - u > 0)
    OBVIOUS
  <2> QED BY <2>1, <2>2, <2>3
<1>6. PermitsCount'
  <2>1. Permits' = Permits /\ Unsignalled' = Unsignalled
    BY <1>1 DEF Permits, Claims, Unsignalled
  <2>2. blocking => Granted' = 0
    BY <1>1, <1>4, <1>5 DEF Granted, NotWaiting
  <2> QED BY <1>1, <1>2, <1>3, <1>4, <2>1, <2>2 DEF PermitsCount
<1>7. SomeIsFound'
  BY <1>1, <1>2, <1>3, <1>4, <1>5 DEF SomeIsFound, CannotMiss, NotWaiting
<1> QED BY <1>6, <1>7

\* A wait that starts when there are elements and no late signal finds a
\* permit.
LEMMA AskPermitFinds ==
    ASSUME RingInv, RingInv', SemInv, CallsMatch, SomeIsFound, PermitsCount,
           NEW timeout \in Timeouts, AskPermit(timeout)
    PROVE  SomeIsFound' /\ PermitsCount'
<1>1. /\ UNCHANGED <<m_count, m_sema, signal, blocking, block, frontBlock, tailBlock, pop, freed>>
      /\ asked = NoCall /\ blocking /\ freed = {} /\ wait.pc = "idle" /\ wait'.pc = "try"
  BY DEF AskPermit, Ask, CallWait, ringVars
<1>2. Contents' = Contents
  BY <1>1, IdleHolds
<1>3. pop = Idle /\ Granted = 0 /\ Granted' = 0
  BY <1>1, NoCallNothing DEF Granted
<1>4. Permits' = Permits /\ Unsignalled' = Unsignalled
  BY <1>1 DEF Permits, Claims, Unsignalled
<1>5. asked'.some => Permits > 0
  <2>1. asked'.some = (Len(Contents) - Unsignalled > 0)
    BY DEF AskPermit, Ask
  <2>2. Permits + 0 + Unsignalled = Len(Contents)
    BY <1>1, <1>3 DEF PermitsCount
  <2>3. PICK p \in Int, u \in Int, n \in Int : p = Permits /\ u = Unsignalled /\ n = Len(Contents)
    BY CountsAreInts
  <2>4. p + 0 + u = n
    BY <2>2, <2>3
  <2>5. n - u > 0 => p > 0
    BY <2>4
  <2> QED BY <2>1, <2>3, <2>5
<1>6. PermitsCount'
  BY <1>1, <1>2, <1>3, <1>4 DEF PermitsCount
<1>7. SomeIsFound'
  BY <1>1, <1>3, <1>4, <1>5 DEF SomeIsFound, Idle
<1> QED BY <1>6, <1>7

\* A call of the ring with a permit does not come back empty-handed.
LEMMA RingAnswersFind ==
    ASSUME RingInv, RingInv', SemInv, CallsMatch, SomeIsFound, PermitsCount, RingAnswers
    PROVE  SomeIsFound' /\ PermitsCount'
<1>1. /\ UNCHANGED <<m_count, m_sema, signal, wait, blocking>> /\ PopStep
      /\ asked' = IF pop' = Idle THEN NoCall ELSE asked
  BY DEF RingAnswers, semVars
<1>2. pop # Idle /\ freed' = freed
  BY <1>1, PopStepGoesOn
<1>3. asked # NoCall /\ asked.op = pop.op /\ wait = NotWaiting /\ freed = {}
  BY <1>2 DEF CallsMatch
<1>4. Permits' = Permits /\ Unsignalled' = Unsignalled
  BY <1>1 DEF Permits, Claims, Unsignalled
<1>5. CASE pop' # Idle
  <2>1. ~Release /\ asked' = asked
    BY <1>1, <1>5 DEF Release, PopReturns
  <2>2. Contents' = Contents
    BY <1>1, <2>1, PopHolds
  <2>3. Granted' = Granted /\ CannotMiss' = CannotMiss
    BY <1>1, <1>2, <1>5, <2>1 DEF Granted, CannotMiss
  <2>4. PermitsCount'
    BY <1>1, <1>2, <1>4, <2>2, <2>3 DEF PermitsCount
  <2>5. pop'.pc = "checkTail" => Empty(frontBlock) /\ UNCHANGED <<frontBlock, tailBlock>>
    <3>1. CASE ReloadTail
      <4>1. CASE BlockFront # block[frontBlock].tail
        <5>1. pop.pc = "reload" /\ PopGoes("take")
          BY <3>1, <4>1 DEF ReloadTail, LoadTail
        <5>2. pop'.pc = "take"
          BY <5>1, PopMoves DEF RingInv, PopPcs
        <5> QED BY <5>2
      <4>2. CASE BlockFront = block[frontBlock].tail
        BY <3>1, <4>2 DEF ReloadTail, LoadTail, BlockFront, Empty
      <4> QED BY <4>1, <4>2
    <3>2. CASE Recheck
      <4>1. pop.pc = "recheck" /\ (PopGoes("take") \/ PopGoes("readNext"))
        BY <3>2 DEF Recheck, LoadTail
      <4>2. pop'.pc # "checkTail"
        BY <4>1, PopMoves DEF RingInv, PopPcs
      <4> QED BY <4>2
    <3>3. CASE SeeTailElsewhere \/ AdvanceFront
      <4>1. pop.pc # "idle" /\ (PopGoes("recheck") \/ PopGoes("take"))
        BY <3>3 DEF SeeTailElsewhere, AdvanceFront
      <4>2. pop'.pc # "checkTail"
        BY <4>1, PopMoves DEF RingInv, PopPcs
      <4> QED BY <4>2
    <3>4. CASE ReadNext \/ Take
      <4>1. pop \in PopCalls
        BY <1>2 DEF RingInv, RingTypeOK
      <4> QED BY <3>4, <4>1 DEF ReadNext, Take, PopCalls
    <3>5. CASE EnterNext
      <4>1. pop.pc = "enterNext" /\ PopGoes("advanceFront")
        BY <1>5, <3>5 DEF EnterNext, PopReturns
      <4>2. pop'.pc # "checkTail"
        BY <4>1, PopMoves DEF RingInv, PopPcs
      <4> QED BY <4>2
    <3>6. CASE SeeNothing \/ Release \/ Peek
      BY <1>5, <3>6 DEF SeeNothing, Release, Peek, PopReturns
    <3> QED BY <1>1, <3>1, <3>2, <3>3, <3>4, <3>5, <3>6 DEF PopStep
  <2>6. CannotMiss => Contents # <<>>
    BY <1>2 DEF SomeIsFound
  <2>7. pop'.pc = "checkTail" /\ CannotMiss => frontBlock' # tailBlock'
    BY <2>5, <2>6, NothingInFront
  <2>8. SomeIsFound'
    BY <1>1, <1>3, <2>2, <2>3, <2>6, <2>7 DEF SomeIsFound, NotWaiting
  <2> QED BY <2>4, <2>8
<1>6. CASE pop' = Idle
  <2>1. asked' = NoCall /\ wait'.pc = "idle"
    BY <1>1, <1>3, <1>6 DEF NotWaiting
  <2>2. Granted' = 0
    BY <1>6, <2>1 DEF Granted
  <2>3. SomeIsFound'
    BY <1>6, <2>1 DEF SomeIsFound, Idle
  <2>4. PermitsCount'
    <3> SUFFICES ASSUME blocking PROVE Permits + 0 + Unsignalled = Len(Contents')
      BY <1>1, <1>4, <2>2 DEF PermitsCount
    <3>1. Permits + Granted + Unsignalled = Len(Contents)
      BY <1>3 DEF PermitsCount
    <3>2. PICK p \in Int, u \in Int, n \in Int : p = Permits /\ u = Unsignalled /\ n = Len(Contents)
      BY CountsAreInts
    <3>3. CASE Release
      <4>1. pop.op = "pop"
        BY <3>3 DEF CallsMatch, Release
      <4>2. Granted = 1
        BY <1>2, <1>3, <4>1 DEF Granted
      <4>3. Len(Contents') = Len(Contents) - 1
        BY <3>3, ReleaseRemoves, HeldTyped
      <4>4. p + 1 + u = n
        BY <3>1, <3>2, <4>2
      <4>5. p + 0 + u = n - 1
        BY <4>4
      <4> QED BY <3>2, <4>3, <4>5
    <3>4. CASE ~Release
      <4>1. Contents' = Contents
        BY <1>1, <3>4, PopHolds
      <4>2. pop.op # "pop"
        <5>1. CASE SeeNothing
          <6>1. pop.pc = "checkTail" /\ frontBlock = tailBlock
            BY <5>1 DEF SeeNothing
          <6> QED BY <1>3, <6>1 DEF SomeIsFound, CannotMiss
        <5>2. CASE Peek
          BY <5>2 DEF Peek
        <5>3. CASE EnterNext
          <6>1. pop.pc = "enterNext"
            BY <5>3 DEF EnterNext
          <6>2. ~PopGoes("advanceFront")
            BY <1>6, <6>1, PopMoves DEF RingInv, PopPcs, Idle
          <6> QED BY <5>3, <6>2 DEF EnterNext
        <5>4. CASE ReloadTail \/ Recheck \/ SeeTailElsewhere \/ AdvanceFront
          <6>1. pop.pc # "idle" /\ (PopGoes("recheck") \/ PopGoes("take") \/ PopGoes("readNext") \/ PopGoes("checkTail"))
            BY <5>4 DEF ReloadTail, Recheck, LoadTail, SeeTailElsewhere, AdvanceFront
          <6> QED BY <1>6, <6>1, PopMoves DEF RingInv, PopPcs, Idle
        <5>5. CASE ReadNext \/ Take
          <6>1. pop \in PopCalls
            BY <1>2 DEF RingInv, RingTypeOK
          <6> QED BY <1>6, <5>5, <6>1 DEF ReadNext, Take, PopCalls, Idle
        <5> QED BY <1>1, <3>4, <5>1, <5>2, <5>3, <5>4, <5>5 DEF PopStep
      <4>3. Granted = 0
        BY <1>3, <4>2 DEF Granted, NotWaiting
      <4> QED BY <3>1, <4>1, <4>3
    <3> QED BY <3>3, <3>4
  <2> QED BY <2>3, <2>4
<1> QED BY <1>5, <1>6

\* The steps of a wait: it is not refused when there was a permit for it.
LEMMA WaitFinds ==
    ASSUME RingInv, RingInv', SemInv, CallsMatch, SomeIsFound, PermitsCount,
           WaitStep, UNCHANGED <<ringVars, blocking, asked>>
    PROVE  SomeIsFound' /\ PermitsCount'
<1>1. UNCHANGED <<block, frontBlock, tailBlock, pop, freed, blocking, asked, signal>>
  BY WaitStepGoesOn DEF ringVars
<1>2. wait # NotWaiting
  BY WaitStepGoesOn
<1>3. pop = Idle /\ blocking /\ asked # NoCall /\ asked.op = "pop"
  BY <1>2 DEF CallsMatch
<1>4. Contents' = Contents
  BY <1>1, IdleHolds
<1>5. wait.pc \notin {"idle", "granted", "refused"}
  BY WaitPermits
<1>6. Unsignalled' = Unsignalled /\ Granted = 0
  BY <1>1, <1>3, <1>5 DEF Unsignalled, Granted
<1>7. PermitsCount'
  <2>1. CASE wait'.pc = "granted" /\ Permits' = Permits - 1
    <3>1. Granted' = 1
      BY <2>1 DEF Granted
    <3>2. PICK p \in Int, u \in Int : p = Permits /\ u = Unsignalled
      BY CountsAreInts
    <3>3. (p - 1) + 1 + u = p + 0 + u
      OBVIOUS
    <3> QED BY <1>1, <1>4, <1>6, <2>1, <3>1, <3>2, <3>3 DEF PermitsCount
  <2>2. CASE wait'.pc # "granted" /\ Permits' = Permits
    <3>1. Granted' = 0
      BY <1>1, <1>3, <2>2 DEF Granted
    <3> QED BY <1>1, <1>4, <1>6, <2>2, <3>1 DEF PermitsCount
  <2> QED BY <2>1, <2>2, WaitPermits
<1>8. SomeIsFound'
  <2>1. asked.some => Permits > 0
    BY <1>5 DEF SomeIsFound
  <2>2. wait'.pc = "refused" => ~asked.some
    <3>1. wait'.pc = "refused" => Permits = 0
      BY WaitPermits
    <3> QED BY <2>1, <3>1
  <2>3. wait'.pc \notin {"idle", "granted", "refused"} => Permits' = Permits
    BY WaitPermits
  <2> QED BY <1>1, <1>3, <2>1, <2>2, <2>3 DEF SomeIsFound, Idle
<1> QED BY <1>7, <1>8

\* A granted wait goes on to the ring, where its element is.
LEMMA TakeElementFinds ==
    ASSUME RingInv, RingInv', SemInv, CallsMatch, SomeIsFound, PermitsCount, TakeElement
    PROVE  SomeIsFound' /\ PermitsCount'
<1>1. /\ wait.pc = "granted" /\ wait' = NotWaiting /\ UNCHANGED <<m_count, signal, blocking, asked>> /\ CallPop("pop")
  BY DEF TakeElement, WaitReturns
<1>2. pop' # Idle /\ pop'.pc \in {"take", "reload"} /\ freed' = freed
  BY <1>1 DEF CallPop, Idle
<1>3. blocking /\ asked # NoCall /\ asked.op = "pop" /\ freed = {}
  BY <1>1 DEF CallsMatch, NotWaiting
<1>4. Contents' = Contents
  <2>1. ~Release
    BY <1>1 DEF CallPop, Release, Idle
  <2> QED BY <1>1, <2>1, PopHolds
<1>5. Permits' = Permits /\ Unsignalled' = Unsignalled /\ Granted = 1 /\ Granted' = 1
  BY <1>1, <1>2, <1>3 DEF Permits, Claims, Unsignalled, Granted, NotWaiting
<1>6. PermitsCount'
  BY <1>1, <1>2, <1>4, <1>5 DEF PermitsCount
<1>7. Contents # <<>>
  <2>1. PICK p \in Int, u \in Int, n \in Int : p = Permits /\ u = Unsignalled /\ n = Len(Contents) /\ p >= 0 /\ u >= 0
    BY CountsAreInts
  <2>2. p + 1 + u = n
    BY <1>3, <1>5, <2>1 DEF PermitsCount
  <2>3. n # 0
    BY <2>1, <2>2
  <2> QED BY <2>1, <2>3, HeldTyped
<1>8. SomeIsFound'
  BY <1>1, <1>2, <1>4, <1>7 DEF SomeIsFound, NotWaiting
<1> QED BY <1>6, <1>8

\* A refused wait returns without an element.
LEMMA GoWithoutFinds ==
    ASSUME RingInv, RingInv', SemInv, CallsMatch, SomeIsFound, PermitsCount, GoWithout
    PROVE  SomeIsFound' /\ PermitsCount'
<1>1. /\ wait.pc = "refused" /\ wait' = NotWaiting /\ asked' = NoCall
      /\ UNCHANGED <<m_count, signal, blocking, block, frontBlock, tailBlock, pop, freed>>
  BY DEF GoWithout, WaitReturns
<1>2. pop = Idle
  BY <1>1 DEF CallsMatch, NotWaiting
<1>3. Contents' = Contents
  BY <1>1, IdleHolds
<1>4. Permits' = Permits /\ Unsignalled' = Unsignalled /\ Granted = 0 /\ Granted' = 0
  BY <1>1, <1>2 DEF Permits, Claims, Unsignalled, Granted, NotWaiting
<1>5. PermitsCount'
  BY <1>1, <1>3, <1>4 DEF PermitsCount
<1>6. SomeIsFound'
  BY <1>1, <1>2 DEF SomeIsFound, NotWaiting, Idle
<1> QED BY <1>5, <1>6

\* So each step keeps the permits equal to the elements, and each call that
\* cannot miss finds.
LEMMA SomeIsStillFound ==
    ASSUME RingInv, RingInv', SemInv, ElementUnderWay, CallsMatch, SomeIsFound, PermitsCount, [Next]_vars
    PROVE  SomeIsFound' /\ PermitsCount'
<1>1. CASE DestroyQueue
  <2>1. freed' # {} /\ pop' = Idle /\ UNCHANGED <<wait, asked, m_count>>
    BY <1>1, DestroyLeaves DEF DestroyQueue, Destroy, semVars
  <2>2. PermitsCount'
    BY <2>1 DEF PermitsCount
  <2>3. wait = NotWaiting
    BY <1>1, NoCallNothing DEF DestroyQueue
  <2>4. SomeIsFound'
    BY <2>1, <2>3 DEF SomeIsFound, Idle, NotWaiting
  <2> QED BY <2>2, <2>4
<1>2. CASE UNCHANGED vars
  <2>1. UNCHANGED <<block, frontBlock, tailBlock, pop, freed, blocking, asked, wait, m_count, signal>>
    BY <1>2 DEF vars, ringVars, semVars
  <2>2. Contents' = Contents
    BY <2>1, IdleHolds
  <2>3. Permits' = Permits /\ Granted' = Granted /\ Unsignalled' = Unsignalled /\ CannotMiss' = CannotMiss
    BY <2>1 DEF Permits, Granted, Unsignalled, CannotMiss
  <2> QED BY <2>1, <2>2, <2>3 DEF SomeIsFound, PermitsCount
<1> QED BY <1>1, <1>2, ProducerStepsFind, AskRingFinds, AskPermitFinds, RingAnswersFind, WaitFinds,
           TakeElementFinds, GoWithoutFinds DEF Next, ConsumerStep

\* Each step keeps the invariant of the queue,
LEMMA FifoStays ==
    ASSUME RingInv, RingInv', SemInv, FifoInv, [Next]_vars
    PROVE  FifoInv'
  BY ElementStillUnderWay, LeftStillFull, CapacityStays, RoomStaysKept, CallsStillMatch, SomeIsStillFound DEF FifoInv

\* The constructor leaves an empty queue with the room that was asked for,
LEMMA InitHolds == ASSUME RingInit PROVE Contents = <<>> /\ InUse = {frontBlock} /\ Capacity
<1>1. RingInv
  BY InitRingInv
<1>2. /\ requested \in Sizes /\ frontBlock = 1 /\ tailBlock = 1 /\ push = Idle /\ pop = Idle
  BY DEF RingInit
<1>3. PICK n \in Nat \ {0}, m \in Nat \ {0, 1} : n = Blocks(requested).count /\ m = Blocks(requested).size
  BY <1>2, BlocksMade
<1>4. block = [b \in 1..n |-> Unused(m, (b % n) + 1)] /\ largestBlockSize = m
  BY <1>3 DEF RingInit, Unused
<1>5. Len(block) = n
  BY <1>4
<1>6. \A x : Unused(m, x).size = m /\ Unused(m, x).front = 0 /\ Unused(m, x).tail = 0
  BY DEF Unused, MakeBlock
<1>7. ASSUME NEW b \in 1..n PROVE block[b].size = m /\ block[b].front = 0 /\ block[b].tail = 0
  BY <1>4, <1>6
<1>8. Capacity
  <2>1. RingLength = n
    BY <1>2, <1>5 DEF RingLength, Idle
  <2>2. \A b \in 1..Len(block) : block[b].size >= m
    BY <1>5, <1>7
  <2>3. largestBlockSize >= m /\ RingLength >= n
    BY <1>4, <2>1
  <2> HIDE DEF RingLength
  <2> QED BY <1>2, <1>3, <2>2, <2>3 DEF Capacity
<1>9. Contents = <<>>
  <2>1. Empty(frontBlock)
    BY <1>2, <1>7 DEF Empty
  <2> QED BY <1>1, <1>2, <2>1, NothingInFront
<1>10. InUse = {frontBlock}
  <2>1. /\ Ahead[0] = frontBlock /\ Distance \in Nat
        /\ \A i \in 0..Distance - 1 : Ahead[i] # tailBlock
    BY <1>1, HeldIsShaped DEF HeldShape, Chain, TailAhead, FirstAt
  <2>2. Distance = 0
    <3>1. 0 \notin 0..Distance - 1
      BY <1>2, <2>1
    <3> QED BY <2>1, <3>1
  <2>3. 0..0 = {0}
    OBVIOUS
  <2> QED BY <2>1, <2>2, <2>3 DEF InUse
<1> QED BY <1>8, <1>9, <1>10

\* ... which is in the invariant.
LEMMA InitFifoInv == Init => FifoInv
<1> SUFFICES ASSUME Init PROVE FifoInv
  OBVIOUS
<1>1. RingInit /\ SemInit /\ asked = NoCall
  BY DEF Init
<1>2. Contents = <<>> /\ InUse = {frontBlock} /\ Capacity
  BY <1>1, InitHolds
<1>3. push = Idle /\ pop = Idle /\ freed = {} /\ m_count = 0 /\ signal = "idle" /\ wait = NotWaiting
  BY <1>1 DEF RingInit, SemInit
<1>4. ElementUnderWay /\ BlocksLeftFull /\ RoomIsKept
  BY <1>2, <1>3 DEF ElementUnderWay, BlocksLeftFull, RoomIsKept, Idle
<1>5. CallsMatch
  BY <1>1, <1>3 DEF CallsMatch, Idle
<1>6. SomeIsFound
  BY <1>3 DEF SomeIsFound, Idle, NotWaiting
<1>7. PermitsCount
  <2>1. Permits = 0 /\ Granted = 0 /\ Unsignalled = 0
    BY <1>3 DEF Permits, Granted, Unsignalled, Claims, NotWaiting
  <2>2. Len(Contents) = 0
    BY <1>2
  <2> QED BY <2>1, <2>2 DEF PermitsCount
<1> QED BY <1>2, <1>4, <1>5, <1>6, <1>7 DEF FifoInv

\* The elements are counted, the blocks hold what they were made for, and each
\* call finds what is there (readerwriterqueue.h:264-470, 548-640, 774-901).
THEOREM FifoInvariant == Spec => []FifoInv
<1>1. Init => FifoInv
  BY InitFifoInv
<1>2. RingInv /\ RingInv' /\ SemInv /\ FifoInv /\ [Next]_vars => FifoInv'
  BY FifoStays
<1> QED BY <1>1, <1>2, RingInvariant, QueueSemaphoreInvariant, PTL DEF Spec

\* The permits of the semaphore are the elements of the ring, but for the one
\* that is granted and the one that is not signalled yet: a consumer with a permit
\* finds an element (readerwriterqueue.h:848, 864, 882, 920).
THEOREM PermitsMatch == Spec => []PermitsMatchElements
<1>1. FifoInv => PermitsMatchElements
  <2> SUFFICES ASSUME FifoInv PROVE PermitsMatchElements
    OBVIOUS
  <2>1. blocking /\ pop.pc = "checkTail" /\ pop.op = "pop" => frontBlock # tailBlock
    <3>1. pop.pc = "checkTail" => pop # Idle
      BY DEF Idle
    <3> QED BY <3>1 DEF FifoInv, CallsMatch, SomeIsFound, CannotMiss
  <2> QED BY <2>1 DEF FifoInv, PermitsCount, PermitsMatchElements
<1> QED BY <1>1, FifoInvariant, PTL

-----------------------------------------------------------------------------
(* The queue implements BoundedFifo *)

FifoItems == IF freed = {} THEN Contents ELSE <<>>
FifoPushing == IF push # Idle THEN [op |-> "push", value |-> push.value, room |-> push.room]
               ELSE IF signal = "add" THEN [op |-> "late"] ELSE NoCall

FifoStutters == UNCHANGED <<requested, FifoItems, FifoPushing, asked, got>>

\* The call of a push, and its way through the ring.
LEMMA EnqueueRefines ==
    ASSUME RingInv, RingInv', FifoInv, NEW canAlloc \in BOOLEAN, Enqueue(canAlloc)
    PROVE  \E v \in Values : Fifo!CallPush(v)
<1>1. /\ signal = "idle" /\ push = Idle /\ freed = {} /\ sent < MaxPushes[requested]
      /\ UNCHANGED <<requested, freed, asked, got, signal>>
  BY DEF Enqueue, CallPush, semVars
<1>2. push' # Idle /\ push'.value = sent + 1 /\ push'.room = (Len(Contents) < requested)
  BY DEF Enqueue, CallPush, Idle
<1>3. Contents' = Contents
  BY PushHolds DEF Enqueue
<1>4. sent + 1 \in Values
  <2>1. requested \in Sizes /\ sent \in Nat
    BY DEF FifoInv, Capacity, RingInv, RingTypeOK
  <2>2. MaxPushes[requested] \in Nat
    BY <2>1, MaxPushesAssumption
  <2>3. sent + 1 \in 1..MaxPushes[requested]
    BY <1>1, <2>1, <2>2
  <2> QED BY <2>1, <2>3 DEF Values
<1>5. FifoPushing = NoCall /\ FifoItems = Contents /\ FifoItems' = FifoItems
  BY <1>1, <1>3 DEF FifoPushing, FifoItems
<1>6. FifoPushing' = [op |-> "push", value |-> sent + 1, room |-> Len(Contents) < requested]
  BY <1>2 DEF FifoPushing
<1>7. Fifo!CallPush(sent + 1)
  BY <1>1, <1>5, <1>6 DEF Fifo!CallPush, Fifo!NoCall, NoCall, FifoItems, FifoPushing
<1> QED BY <1>4, <1>7

\* A push is refused only if it found no room.
LEMMA PushStepRefines ==
    ASSUME RingInv, RingInv', FifoInv, PushStep, UNCHANGED <<semVars, blocking, asked>>
    PROVE  Fifo!Refuse \/ FifoStutters
<1>1. push.pc # "idle" /\ UNCHANGED <<requested, freed, asked, got, signal>>
  BY DEF semVars, PushStep, ReloadFront, Construct, FindFreeBlock, UseNext, ConstructNext, PublishNext, FindNoBlock, Allocate, Link, Refuse
<1>2. push # Idle /\ push \in PushCalls
  BY <1>1 DEF Idle, RingInv, RingTypeOK
<1>3. Contents' = Contents
  BY PushHolds
<1>4. FifoItems' = FifoItems
  BY <1>1, <1>3 DEF FifoItems
<1>5. CASE Refuse
  <2>1. push' = Idle /\ signal = "idle" /\ ~push.room
    BY <1>2, <1>5 DEF Refuse, PushReturns, FifoInv, CallsMatch, RoomIsKept
  <2>2. FifoPushing' = NoCall /\ FifoPushing.op = "push" /\ ~FifoPushing.room
    BY <1>1, <1>2, <2>1 DEF FifoPushing
  <2> QED BY <1>1, <1>4, <2>2 DEF Fifo!Refuse, Fifo!NoCall, NoCall, FifoItems, FifoPushing
<1>6. CASE ~Refuse
  <2>1. \E pc \in PushPcs : PushGoes(pc)
    BY <1>6 DEF PushStep, ReloadFront, Construct, FindFreeBlock, UseNext, ConstructNext, PublishNext, FindNoBlock,
                Allocate, Link, PushPcs
  <2>2. push'.pc # "idle" /\ push'.value = push.value /\ push'.room = push.room
    BY <1>1, <2>1, PushKeepsCall DEF PushPcs
  <2>3. push' # Idle
    BY <2>2 DEF Idle
  <2>4. FifoPushing' = FifoPushing
    BY <1>2, <2>2, <2>3 DEF FifoPushing
  <2> QED BY <1>1, <1>4, <2>4 DEF FifoStutters
<1> QED BY <1>5, <1>6

\* An accepted push adds its element at the end.
LEMMA AcceptRefines ==
    ASSUME RingInv, RingInv', FifoInv, EnqueueSucceeds
    PROVE  Fifo!Accept
<1>1. /\ PushAccepted /\ push.pc # "idle" /\ push' = Idle /\ UNCHANGED <<requested, freed, asked, got>>
      /\ signal' \in {signal, "add"}
  BY DEF EnqueueSucceeds, CallSignal, semVars, PushAccepted, Publish, AdvanceTail, PushReturns
<1>2. push # Idle /\ freed = {} /\ signal = "idle"
  BY <1>1, PushFacts DEF Idle, FifoInv, CallsMatch
<1>3. Contents' = Append(Contents, push.value)
  BY <1>1, AcceptAdds DEF FifoInv
<1>4. FifoItems' = Append(FifoItems, push.value)
  BY <1>1, <1>2, <1>3 DEF FifoItems
<1>5. FifoPushing.op = "push" /\ FifoPushing.value = push.value
  BY <1>2 DEF FifoPushing
<1>6. FifoPushing' \in {NoCall, [op |-> "late"]}
  BY <1>1, <1>2 DEF FifoPushing
<1> QED BY <1>1, <1>4, <1>5, <1>6 DEF Fifo!Accept, Fifo!NoCall, Fifo!Late, NoCall, FifoItems, FifoPushing

\* An element that is signalled is no longer late.
LEMMA SignalSettles ==
    ASSUME RingInv, RingInv', FifoInv, SignalStep, UNCHANGED <<ringVars, blocking, asked>>
    PROVE  Fifo!Settle \/ FifoStutters
<1>1. UNCHANGED <<requested, block, frontBlock, tailBlock, push, pop, freed, asked, got>> /\ signal # "idle"
  BY DEF ringVars, SignalStep, AddPermit, Post
<1>2. push = Idle
  BY <1>1 DEF FifoInv, CallsMatch
<1>3. FifoItems' = FifoItems
  BY <1>1, IdleHolds DEF FifoItems
<1>4. CASE AddPermit
  <2>1. FifoPushing = [op |-> "late"] /\ FifoPushing' = NoCall
    BY <1>1, <1>2, <1>4 DEF AddPermit, FifoPushing
  <2> QED BY <1>1, <1>3, <2>1 DEF Fifo!Settle, Fifo!Late, Fifo!NoCall, NoCall, FifoItems, FifoPushing
<1>5. CASE Post
  <2>1. FifoPushing = NoCall /\ FifoPushing' = NoCall
    BY <1>1, <1>2, <1>5 DEF Post, FifoPushing
  <2> QED BY <1>1, <1>3, <2>1 DEF FifoStutters
<1> QED BY <1>4, <1>5 DEF SignalStep

\* A call of the consumer, with what it cannot miss.
LEMMA AskRefines ==
    ASSUME FifoInv, NEW op \in {"pop", "peek"}, Ask(op), freed = {},
           UNCHANGED <<requested, freed, push, signal, got>>, Contents' = Contents
    PROVE  Fifo!CallPop(op)
<1>1. asked = NoCall /\ asked' = [op |-> op, some |-> Len(Contents) - (IF op = "pop" THEN Unsignalled ELSE 0) > 0]
  BY DEF Ask
<1>2. FifoItems' = FifoItems /\ FifoPushing' = FifoPushing /\ FifoItems = Contents
  BY DEF FifoItems, FifoPushing
<1>3. FifoPushing = [op |-> "late"] <=> signal = "add"
  <2>1. CASE push # Idle
    <3>1. signal = "idle"
      BY <2>1 DEF FifoInv, CallsMatch
    <3>2. FifoPushing.op = "push"
      BY <2>1 DEF FifoPushing
    <3> QED BY <3>1, <3>2
  <2>2. CASE push = Idle
    <3>1. NoCall # [op |-> "late"]
      <4>1. NoCall.op = "none" /\ [op |-> "late"].op = "late"
        BY DEF NoCall
      <4> QED BY <4>1
    <3> QED BY <2>2, <3>1 DEF FifoPushing
  <2> QED BY <2>1, <2>2
<1>4. asked' = [op |-> op, some |-> Len(FifoItems) - (IF op = "pop" /\ FifoPushing = [op |-> "late"] THEN 1 ELSE 0) > 0]
  <2>1. (IF op = "pop" THEN Unsignalled ELSE 0) = (IF op = "pop" /\ FifoPushing = [op |-> "late"] THEN 1 ELSE 0)
    BY <1>3 DEF Unsignalled
  <2> QED BY <1>1, <1>2, <2>1
<1> QED BY <1>1, <1>2, <1>4 DEF Fifo!CallPop, Fifo!Visible, Fifo!NoCall, Fifo!Late, NoCall, FifoItems, FifoPushing

\* It goes to the ring at once,
LEMMA AskRingRefines ==
    ASSUME RingInv, RingInv', FifoInv, NEW op \in {"pop", "peek"}, AskRing(op)
    PROVE  Fifo!CallPop(op)
<1>1. Ask(op) /\ CallPop(op) /\ freed = {} /\ UNCHANGED <<requested, freed, push, signal, got>>
  BY DEF AskRing, CallPop, semVars
<1>2. ~Release
  BY <1>1 DEF CallPop, Release, Idle
<1>3. Contents' = Contents
  BY <1>1, <1>2, PopHolds
<1> QED BY <1>1, <1>3, AskRefines

\* ... or to the semaphore first.
LEMMA AskPermitRefines ==
    ASSUME RingInv, RingInv', FifoInv, NEW timeout \in Timeouts, AskPermit(timeout)
    PROVE  Fifo!CallPop("pop")
<1>1. Ask("pop") /\ freed = {} /\ UNCHANGED <<requested, freed, push, signal, got, block, frontBlock, tailBlock, pop>>
  BY DEF AskPermit, CallWait, ringVars
<1>2. Contents' = Contents
  BY <1>1, IdleHolds
<1> QED BY <1>1, <1>2, AskRefines

\* The ring's answer is the first element, or nothing if there was none.
LEMMA AnswerRefines ==
    ASSUME RingInv, RingInv', FifoInv, RingAnswers
    PROVE  Fifo!Take \/ Fifo!ComeBackEmpty \/ FifoStutters
<1>1. /\ PopStep /\ UNCHANGED <<signal, blocking>> /\ asked' = IF pop' = Idle THEN NoCall ELSE asked
  BY DEF RingAnswers, semVars
<1>2. pop # Idle /\ UNCHANGED <<requested, freed, push>>
  BY <1>1, PopStepGoesOn
<1>3. asked # NoCall /\ asked.op = pop.op /\ freed = {}
  BY <1>2 DEF FifoInv, CallsMatch
<1>4. FifoPushing' = FifoPushing /\ FifoItems = Contents /\ FifoItems' = Contents'
  BY <1>1, <1>2, <1>3 DEF FifoPushing, FifoItems
<1>5. CASE Release
  <2>1. Contents # <<>> /\ Contents' = Tail(Contents) /\ got' = Head(Contents) /\ pop' = Idle
    BY <1>5, ReleaseRemoves DEF Release, PopReturns
  <2>2. asked.op = "pop" /\ asked' = NoCall
    BY <1>1, <1>3, <1>5, <2>1 DEF FifoInv, CallsMatch, Release
  <2> QED BY <1>2, <1>3, <1>4, <2>1, <2>2 DEF Fifo!Take, Fifo!NoCall, NoCall, FifoItems, FifoPushing
<1>6. ASSUME ~Release PROVE FifoItems' = FifoItems
  BY <1>1, <1>4, <1>6, PopHolds
<1>7. CASE Peek \/ (EnterNext /\ pop.op # "pop")
  <2>1. Contents # <<>> /\ got' = Head(Contents) /\ pop' = Idle /\ pop.op = "peek" /\ ~Release
    <3>1. CASE Peek
      BY <3>1, FirstAtFront DEF Peek, PopReturns, Release
    <3>2. CASE EnterNext /\ pop.op # "pop"
      BY <3>2, FirstBehindFront DEF EnterNext, PopReturns, Release
    <3> QED BY <1>7, <3>1, <3>2
  <2>2. asked.op = "peek" /\ asked' = NoCall
    BY <1>1, <1>3, <2>1
  <2> QED BY <1>2, <1>3, <1>4, <1>6, <2>1, <2>2 DEF Fifo!Take, Fifo!NoCall, NoCall, FifoItems, FifoPushing
<1>8. CASE SeeNothing
  <2>1. pop.pc = "checkTail" /\ frontBlock = tailBlock /\ got' = Nothing /\ pop' = Idle
    BY <1>8 DEF SeeNothing, PopReturns
  <2>2. ~asked.some /\ asked' = NoCall /\ ~Release
    BY <1>1, <1>3, <2>1 DEF FifoInv, SomeIsFound, CannotMiss, Release
  <2> QED BY <1>2, <1>3, <1>4, <1>6, <2>1, <2>2 DEF Fifo!ComeBackEmpty, Fifo!NoCall, NoCall, FifoItems, FifoPushing
<1>9. CASE ReloadTail \/ Recheck \/ SeeTailElsewhere \/ AdvanceFront \/ ReadNext \/ Take \/ (EnterNext /\ pop.op = "pop")
  <2>1. got' = got /\ ~Release
    BY <1>9 DEF ReloadTail, Recheck, LoadTail, SeeTailElsewhere, AdvanceFront, ReadNext, Take, EnterNext, Release
  <2>2. pop' # Idle
    <3>1. CASE ReadNext \/ Take
      <4>1. pop \in PopCalls
        BY <1>2 DEF RingInv, RingTypeOK
      <4> QED BY <3>1, <4>1 DEF ReadNext, Take, PopCalls, Idle
    <3>2. CASE ReloadTail \/ Recheck \/ SeeTailElsewhere \/ AdvanceFront \/ (EnterNext /\ pop.op = "pop")
      <4>1. pop.pc # "idle" /\ (PopGoes("recheck") \/ PopGoes("take") \/ PopGoes("readNext") \/ PopGoes("checkTail")
                                \/ PopGoes("advanceFront"))
        BY <3>2 DEF ReloadTail, Recheck, LoadTail, SeeTailElsewhere, AdvanceFront, EnterNext
      <4> QED BY <4>1, PopMoves DEF RingInv, PopPcs, Idle
    <3> QED BY <1>9, <3>1, <3>2
  <2> QED BY <1>1, <1>2, <1>4, <1>6, <2>1, <2>2 DEF FifoStutters
<1> QED BY <1>1, <1>5, <1>7, <1>8, <1>9 DEF PopStep

\* The steps of a wait are not seen.
LEMMA WaitRefines ==
    ASSUME RingInv, RingInv', SemInv, FifoInv,
           \/ WaitStep /\ UNCHANGED <<ringVars, blocking, asked>>
           \/ TakeElement
    PROVE  FifoStutters
<1>1. CASE WaitStep /\ UNCHANGED <<ringVars, blocking, asked>>
  <2>1. UNCHANGED <<requested, block, frontBlock, tailBlock, push, pop, freed, asked, got, signal>>
    BY <1>1, WaitStepGoesOn DEF ringVars
  <2>2. FifoItems' = FifoItems
    BY <2>1, IdleHolds DEF FifoItems
  <2> QED BY <2>1, <2>2 DEF FifoStutters, FifoPushing
<1>2. CASE TakeElement
  <2>1. UNCHANGED <<requested, freed, push, signal, got, asked>> /\ CallPop("pop")
    BY <1>2 DEF TakeElement, WaitReturns, CallPop
  <2>2. ~Release
    BY <2>1 DEF CallPop, Release, Idle
  <2>3. FifoItems' = FifoItems
    BY <2>1, <2>2, PopHolds DEF FifoItems
  <2> QED BY <2>1, <2>3 DEF FifoStutters, FifoPushing
<1> QED BY <1>1, <1>2

\* A wait is refused only if there was nothing for it.
LEMMA GoWithoutRefines ==
    ASSUME RingInv, RingInv', FifoInv, GoWithout
    PROVE  Fifo!ComeBackEmpty
<1>1. /\ wait.pc = "refused" /\ got' = Nothing /\ asked' = NoCall
      /\ UNCHANGED <<requested, block, frontBlock, tailBlock, push, pop, freed, signal>>
  BY DEF GoWithout, WaitReturns
<1>2. asked # NoCall /\ ~asked.some
  BY <1>1 DEF FifoInv, CallsMatch, SomeIsFound, NotWaiting
<1>3. FifoItems' = FifoItems /\ FifoPushing' = FifoPushing
  BY <1>1, IdleHolds DEF FifoItems, FifoPushing
<1> QED BY <1>1, <1>2, <1>3 DEF Fifo!ComeBackEmpty, Fifo!NoCall, NoCall, FifoItems, FifoPushing

\* The destructor ends the abstract queue.
LEMMA DestroyRefines ==
    ASSUME RingInv, RingInv', FifoInv, DestroyQueue
    PROVE  Fifo!Destroy
<1>1. signal = "idle" /\ asked = NoCall /\ push = Idle /\ UNCHANGED <<requested, push, got, asked, signal>>
  BY DEF DestroyQueue, Destroy, semVars
<1>2. freed' # {}
  BY DestroyLeaves DEF DestroyQueue
<1>3. FifoItems' = <<>> /\ FifoPushing = NoCall /\ FifoPushing' = NoCall
  BY <1>1, <1>2 DEF FifoItems, FifoPushing
<1> QED BY <1>1, <1>3 DEF Fifo!Destroy, Fifo!NoCall, NoCall, FifoItems, FifoPushing

\* Each step of the queue is a step of the abstract one, or none.
LEMMA QueueStepRefines ==
    ASSUME RingInv, RingInv', SemInv, FifoInv, [Next]_vars
    PROVE  [Fifo!AbsNext]_<<requested, FifoItems, FifoPushing, asked, got>>
<1> USE DEF Fifo!AbsNext
<1>1. ASSUME NEW canAlloc \in BOOLEAN, Enqueue(canAlloc) PROVE Fifo!AbsNext
  BY <1>1, EnqueueRefines
<1>2. CASE ProducerStep
  BY <1>2, PushStepRefines, AcceptRefines, SignalSettles DEF ProducerStep, FifoStutters
<1>3. ASSUME NEW op \in {"pop", "peek"}, AskRing(op) PROVE Fifo!AbsNext
  BY <1>3, AskRingRefines
<1>4. ASSUME NEW timeout \in Timeouts, AskPermit(timeout) PROVE Fifo!AbsNext
  BY <1>4, AskPermitRefines
<1>5. CASE ConsumerStep
  BY <1>5, AnswerRefines, WaitRefines, GoWithoutRefines DEF ConsumerStep, FifoStutters
<1>6. CASE DestroyQueue
  BY <1>6, DestroyRefines
<1>7. CASE UNCHANGED vars
  <2>1. UNCHANGED <<requested, block, frontBlock, tailBlock, push, pop, freed, asked, got, signal>>
    BY <1>7 DEF vars, ringVars, semVars
  <2>2. FifoItems' = FifoItems
    BY <2>1, IdleHolds DEF FifoItems
  <2> QED BY <2>1, <2>2 DEF FifoPushing
<1> QED BY <1>1, <1>2, <1>3, <1>4, <1>5, <1>6, <1>7 DEF Next

\* Both queues are first in, first out; a push that found room is accepted, a pop
\* or peek of a queue that has an element returns the oldest, whatever the other
\* thread is doing (readerwriterqueue.h:107-110, 279-282, 375-378).
THEOREM QueueImplementsBoundedFifo == Spec => ImplementsBoundedFifo
<1>1. Init => Fifo!AbsInit
  <2> SUFFICES ASSUME Init PROVE Fifo!AbsInit
    OBVIOUS
  <2>1. RingInit /\ SemInit /\ asked = NoCall
    BY DEF Init
  <2>2. Contents = <<>>
    BY <2>1, InitHolds
  <2>3. push = Idle /\ freed = {} /\ signal = "idle" /\ got = Nothing /\ requested \in Nat
    BY <2>1, SizesAssumption DEF RingInit, SemInit
  <2> QED BY <2>1, <2>2, <2>3 DEF Fifo!AbsInit, Fifo!NoCall, NoCall
<1>2. RingInv /\ RingInv' /\ SemInv /\ FifoInv /\ [Next]_vars
        => [Fifo!AbsNext]_<<requested, FifoItems, FifoPushing, asked, got>>
  BY QueueStepRefines
<1> QED BY <1>1, <1>2, RingInvariant, QueueSemaphoreInvariant, FifoInvariant, PTL
        DEF Spec, ImplementsBoundedFifo, Fifo!AbsSpec, Fifo!absVars, FifoItems, FifoPushing

==============================================================================

------------------------- MODULE Aggregator_proofs -------------------------
(***************************************************************************)
(* Proofs about Aggregator: with fewer producers than int has value bits,  *)
(* for any number of them and any values, the bitmask is a faithful set of *)
(* producers, and the Aggregator is a Rendezvous.                          *)
(***************************************************************************)
EXTENDS Aggregator, TLAPS

\* No shift and no conversion of Aggregator.hpp is undefined: 30 producers at
\* most, for an int of 32 bits.
FewProducers == MaxProducers < IntBits - 1

\* The bits of producers that few are one bit each, and their own.
LEMMA BitOfFew ==
    ASSUME FewProducers, NEW id \in Ids
    PROVE  Bit(id) = {id}
<1>1. id \in Nat /\ id < IntBits - 1 /\ IntBits \in Nat
  BY WidthsAssumption DEF FewProducers, Ids
<1>2. id % IntBits = id
  BY <1>1
<1> QED
  BY <1>1, <1>2 DEF Bit

\* ... and the mask of a complete round is the set of their ids.
LEMMA FullMaskOfFew ==
    ASSUME FewProducers, NEW count \in 0..MaxProducers
    PROVE  FullMask(count) = 0..(count - 1)
BY WidthsAssumption DEF FewProducers, FullMask

\* The bitmask is the set of the producers in latest: what the invariants need
\* besides themselves is that only registered producers are in it.
AInv ==
    /\ TypeOK
    /\ state = DOMAIN latest
    /\ DOMAIN latest \subseteq Producers
    /\ NeverWaitsForNobody

\* At first nobody is registered or heard.
LEMMA InitAInv == Init => AInv
BY WidthsAssumption
   DEF Init, AInv, TypeOK, Empty, Ids, Producers, NeverWaitsForNobody

\* A producer with its bit down is one that is not in latest.
LEMMA HeardIsStored ==
    ASSUME FewProducers, AInv, NEW id \in Producers
    PROVE  /\ id \in Ids
           /\ Bit(id) = {id}
           /\ Heard(id) <=> id \in DOMAIN latest
           /\ FullMask(producer_count) = Producers
<1>1. id \in Ids
  BY WidthsAssumption DEF AInv, TypeOK, Producers, Ids
<1>2. FullMask(producer_count) = Producers
  BY FullMaskOfFew DEF AInv, TypeOK, Producers
<1> QED
  BY <1>1, <1>2, BitOfFew DEF Heard, AInv

\* Registrations and inputs keep the invariant.
LEMMA NextAInv ==
    ASSUME FewProducers, AInv, [Next]_vars
    PROVE  AInv'
<1>1. CASE UNCHANGED vars
  BY <1>1 DEF vars, AInv, TypeOK, Producers, NeverWaitsForNobody
<1>2. CASE register_producer
  BY <1>2, WidthsAssumption
     DEF register_producer, AInv, TypeOK, Producers, NeverWaitsForNobody
<1>3. ASSUME NEW id \in Producers, DropSecond(id) \/ BadCast(id)
      PROVE  AInv'
  BY <1>3 DEF DropSecond, BadCast, AInv, TypeOK, Producers, NeverWaitsForNobody
<1>4. ASSUME NEW id \in Producers, NEW v \in Values, Keep(id, v)
      PROVE  AInv'
  <2>1. /\ id \in Ids
        /\ Bit(id) = {id}
        /\ state \union {id} # Producers
    BY <1>4, HeardIsStored DEF Keep
  <2>2. /\ DOMAIN latest' = DOMAIN latest \union {id}
        /\ \A i \in DOMAIN latest' : latest'[i] \in Values
    BY <1>4, WidthsAssumption DEF Keep, Stored, AInv, TypeOK
  <2>3. Producers' = Producers /\ id \in 0..(SizeBits - 1)
    BY <1>4, <2>1, WidthsAssumption DEF Keep, Producers, FewProducers, Ids
  <2> QED
    BY <1>4, <2>1, <2>2, <2>3 DEF Keep, AInv, TypeOK, NeverWaitsForNobody
<1>5. ASSUME NEW id \in Producers, NEW v \in Values, Collect(id, v)
      PROVE  AInv'
  <2>1. id \in Ids
    BY HeardIsStored
  <2>2. /\ DOMAIN collected' = DOMAIN latest \union {id}
        /\ \A i \in DOMAIN collected' : collected'[i] \in Values
    BY <1>5, WidthsAssumption DEF Collect, Stored, AInv, TypeOK
  <2>3. Producers' = Producers /\ (producer_count' > 0 => Producers # {})
    BY <1>5 DEF Collect, Producers, AInv, TypeOK
  <2>4. latest' = Empty /\ DOMAIN latest' = {}
    BY <1>5 DEF Collect, Empty
  <2> QED
    BY <1>5, <2>1, <2>2, <2>3, <2>4 DEF Collect, AInv, TypeOK, NeverWaitsForNobody
<1> QED
  BY <1>1, <1>2, <1>3, <1>4, <1>5 DEF Next, process_any

\* The invariant, of every behaviour.
THEOREM InvariantAInv ==
    ASSUME FewProducers
    PROVE  Spec => []AInv
<1>1. Init => AInv
  BY InitAInv
<1>2. AInv /\ [Next]_vars => AInv'
  BY NextAInv
<1> QED
  BY <1>1, <1>2, PTL DEF Spec

\* The variables of Aggregator have their types.
THEOREM TypeCorrect ==
    ASSUME FewProducers
    PROVE  Spec => []TypeOK
<1>1. AInv => TypeOK
  BY DEF AInv
<1> QED
  BY <1>1, InvariantAInv, PTL

\* An Aggregator with an input of every producer has called process().
THEOREM NobodyIsWaitedFor ==
    ASSUME FewProducers
    PROVE  Spec => []NeverWaitsForNobody
<1>1. AInv => NeverWaitsForNobody
  BY DEF AInv
<1> QED
  BY <1>1, InvariantAInv, PTL

\* The mask and the map of inputs agree.
THEOREM MaskIsFaithful ==
    ASSUME FewProducers
    PROVE  Spec => []MaskMatchesInputs
<1>1. AInv => MaskMatchesInputs
  <2> SUFFICES ASSUME AInv PROVE MaskMatchesInputs
    OBVIOUS
  <2>1. DOMAIN latest \subseteq Ids /\ state = DOMAIN latest
    BY DEF AInv, TypeOK
  <2>2. \A id \in DOMAIN latest : Bit(id) = {id}
    BY <2>1, BitOfFew
  <2>3. UNION {Bit(id) : id \in DOMAIN latest} = DOMAIN latest
    BY <2>2
  <2> QED
    BY <2>1, <2>3 DEF MaskMatchesInputs
<1> QED
  BY <1>1, InvariantAInv, PTL

-----------------------------------------------------------------------------
(* Refinement *)

\* Inputs survive being stored as Out, as they do when In and Out are one type.
SameType == \A v \in Values : ThroughOut[v] = v

\* Each call of register_producer() and process_any() is a step of Rendezvous.
LEMMA StepRefines ==
    ASSUME FewProducers, SameType, AInv, [Next]_vars
    PROVE  [Abstract!AbsNext]_(Abstract!absVars)
<1> USE DEF Abstract!absVars
<1>1. CASE UNCHANGED vars
  BY <1>1 DEF vars, Producers
<1>2. CASE register_producer
  <2>1. /\ producer_count \in 0..(MaxProducers - 1)
        /\ producer_count \notin Producers
        /\ Producers' = Producers \union {producer_count}
    BY <1>2, WidthsAssumption DEF register_producer, Producers, AInv, TypeOK
  <2>2. Abstract!Join(producer_count)
    BY <1>2, <2>1 DEF Abstract!Join, register_producer
  <2> QED
    BY <2>1, <2>2 DEF Abstract!AbsNext
<1>3. ASSUME NEW id \in Producers, DropSecond(id)
      PROVE  Abstract!AbsNext
  <2>1. Abstract!Ignore(id)
    BY <1>3, HeardIsStored DEF DropSecond, Abstract!Ignore, Producers
  <2> QED
    BY <2>1 DEF Abstract!AbsNext
<1>4. ASSUME NEW id \in Producers, BadCast(id)
      PROVE  Abstract!AbsNext
  <2>1. Abstract!Refuse(id)
    BY <1>4, HeardIsStored DEF BadCast, Abstract!Refuse, Producers
  <2> QED
    BY <2>1 DEF Abstract!AbsNext
<1>5. ASSUME NEW id \in Producers, NEW v \in Values, Keep(id, v)
      PROVE  Abstract!AbsNext
  <2>1. Abstract!Wait(id, v)
    BY <1>5, HeardIsStored
       DEF Keep, Stored, SameType, AInv, Abstract!Wait, Abstract!With, Producers
  <2> QED
    BY <2>1 DEF Abstract!AbsNext
<1>6. ASSUME NEW id \in Producers, NEW v \in Values, Collect(id, v)
      PROVE  Abstract!AbsNext
  <2>1. Abstract!Meet(id, v)
    BY <1>6, HeardIsStored
       DEF Collect, Stored, SameType, AInv, Empty, Abstract!Nothing,
           Abstract!Meet, Abstract!With, Producers
  <2> QED
    BY <2>1 DEF Abstract!AbsNext
<1> QED
  BY <1>1, <1>2, <1>3, <1>4, <1>5, <1>6 DEF Next, process_any

\* An Aggregator whose In and Out are one type is a Rendezvous: process() gets
\* the first input of each registered producer, each time they are all there.
THEOREM AggregatorIsRendezvous ==
    ASSUME FewProducers, SameType
    PROVE  Spec => ImplementsRendezvous
<1>1. Init => Abstract!AbsInit
  BY DEF Init, Abstract!AbsInit, Producers, Empty, Abstract!Nothing
<1>2. AInv /\ [Next]_vars => [Abstract!AbsNext]_(Abstract!absVars)
  BY StepRefines
<1> QED
  BY <1>1, <1>2, InvariantAInv, PTL
     DEF Spec, ImplementsRendezvous, Abstract!AbsSpec
=============================================================================

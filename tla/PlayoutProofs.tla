--------------------------- MODULE PlayoutProofs ---------------------------
(***************************************************************************)
(* Proofs about the reorder queue, for every ring size and queue capacity  *)
(* and for every sequence of packets.                                      *)
(***************************************************************************)
EXTENDS Playout, FiniteSetTheorems, TLAPS

(* Arithmetic of the ring: a distance is on the ring, and stepping past s  *)
(* shortens the distance to every other element by one more than s's own.  *)
LEMMA DistType ==
    ASSUME NEW s \in Seqs, NEW n \in Seqs
    PROVE  /\ Dist(s, n, Half) \in 0 .. 2 * Half - 1
           /\ Dist(s, n, Half) = 0 <=> s = n
BY HalfAssumption DEF Seqs, Dist

(* Sequence numbers wrap inside the ring.                                  *)
LEMMA SuccType ==
    ASSUME NEW s \in Seqs
    PROVE  Succ(s) \in Seqs
BY HalfAssumption DEF Seqs, Succ

(* A pop at s brings every later packet closer by what it skips.           *)
LEMMA DistAfterSucc ==
    ASSUME NEW n \in Seqs, NEW s \in Seqs, NEW p \in Seqs,
           Dist(s, n, Half) <= Dist(p, n, Half), p # s
    PROVE  Dist(p, Succ(s), Half) = Dist(p, n, Half) - Dist(s, n, Half) - 1
BY HalfAssumption DEF Seqs, Succ, Dist

(* The successor of a packet in the lower half is ahead.                   *)
LEMMA DistToSucc ==
    ASSUME NEW n \in Seqs, NEW s \in Seqs, Dist(s, n, Half) < Half
    PROVE  Succ(s) # n => Dist(Succ(s), n, Half) \in 1 .. Half
BY HalfAssumption DEF Seqs, Succ, Dist

(* Moving the origin back from n to s adds the same amount to every        *)
(* distance that does not wrap.                                            *)
LEMMA DistShift ==
    ASSUME NEW n \in Seqs, NEW s \in Seqs, NEW p \in Seqs, s # n
    PROVE  Dist(p, s, Half) =
             IF Dist(p, n, Half) < Dist(s, n, Half)
             THEN Dist(p, n, Half) + 2 * Half - Dist(s, n, Half)
             ELSE Dist(p, n, Half) - Dist(s, n, Half)
BY HalfAssumption DEF Seqs, Dist

----------------------------------------------------------------------------
(* The inductive invariant: the queue's conjuncts are needed together.     *)
(* Chained needs the types; count stays a natural number on playout_pop    *)
(* only because it is exact; and the slot that is popped is the only one   *)
(* with its sequence number only because there are no duplicates.          *)
Inv == TypeOK /\ CountExact /\ NoDuplicates /\ Chained

(* An emptied slot is a slot.                                              *)
LEMMA FreeSlotType == FreeSlot \in Slot
BY HalfAssumption, HalfStampAssumption DEF FreeSlot, Slot, Seqs, Stamps

(* The occupied slots are a finite set.                                    *)
LEMMA ValidFinite == IsFiniteSet(Slots) /\ Valid \subseteq Slots /\ IsFiniteSet(Valid)
<1>1. IsFiniteSet(Slots)
  BY NAssumption, FS_Interval DEF Slots
<1>2. Valid \subseteq Slots
  BY DEF Valid
<1> QED BY <1>1, <1>2, FS_Subset

(* Occupied slots have a distance on the ring.                             *)
LEMMA AheadType ==
    ASSUME TypeOK, NEW i \in Valid
    PROVE  /\ packets[i] \in Slot
           /\ packets[i].sequence \in Seqs
           /\ Ahead(i) \in 0 .. 2 * Half - 1
<1>1. i \in Slots /\ packets[i] \in Slot
  BY DEF TypeOK, Valid
<1>2. packets[i].sequence \in Seqs
  BY <1>1 DEF Slot
<1> QED BY <1>1, <1>2, DistType DEF Ahead, TypeOK

----------------------------------------------------------------------------
(* What a reset writes is in range.                                        *)
LEMMA Zeros == 0 \in Seqs /\ 0 \in Stamps
BY HalfAssumption, HalfStampAssumption DEF Seqs, Stamps

(* The empty queue satisfies the invariant, at start and after a reset.    *)
LEMMA InvInit == Init => Inv
<1> SUFFICES ASSUME Init PROVE Inv
  OBVIOUS
<1>1. \A i \in Slots : packets[i] = FreeSlot
  BY DEF Init
<1>2. Valid = {}
  BY <1>1 DEF Valid, FreeSlot
<1>3. TypeOK
  <2>1. packets \in [Slots -> Slot]
    BY FreeSlotType DEF Init
  <2> QED BY <2>1, Zeros DEF Init, TypeOK
<1>4. CountExact
  BY <1>2, FS_EmptySet DEF CountExact, Init
<1> QED BY <1>2, <1>3, <1>4 DEF Inv, NoDuplicates, Chained, Init

(* playout_reset and playout_set_floor establish the invariant.            *)
LEMMA InvClear ==
    ASSUME TypeOK, ClearQueue,
           have_floor' \in BOOLEAN, floor_exclusive' \in BOOLEAN, timestamp_floor' \in Stamps
    PROVE  Inv'
<1>1. \A i \in Slots : packets'[i] = FreeSlot
  BY DEF ClearQueue
<1>2. Valid' = {}
  BY <1>1 DEF Valid, FreeSlot
<1>3. TypeOK'
  <2>1. packets' \in [Slots -> Slot]
    BY FreeSlotType DEF ClearQueue
  <2> QED BY <2>1, Zeros DEF ClearQueue, TypeOK
<1>4. CountExact'
  BY <1>2, FS_EmptySet DEF CountExact, ClearQueue
<1> QED BY <1>2, <1>3, <1>4 DEF Inv, NoDuplicates, Chained, ClearQueue

----------------------------------------------------------------------------
(* Storing a packet. *)
LEMMA InvStore ==
    ASSUME Inv, NEW s \in Seqs, NEW t \in Stamps,
           ~Stale(s), ~Duplicate(s), Store(s, t)
    PROVE  Inv'
<1> DEFINE new == [valid |-> TRUE, sequence |-> s, timestamp |-> t]
<1>1. PICK k \in Slots : FirstFree(k) /\ packets' = [packets EXCEPT ![k] = new]
  BY DEF Store
<1>2. k \notin Valid /\ new \in Slot
  BY <1>1 DEF FirstFree, Slot
<1>3. packets' \in [Slots -> Slot] /\ packets'[k] = new
      /\ \A i \in Slots \ {k} : packets'[i] = packets[i]
  BY <1>1, <1>2 DEF Inv, TypeOK
<1>4. Valid' = Valid \cup {k}
  BY <1>2, <1>3 DEF Valid
<1>5. \A i \in Valid : i # k /\ packets'[i] = packets[i]
  BY <1>2, <1>3 DEF Valid
<1>6. TypeOK'
  <2>1. next_sequence' \in Seqs /\ have_sequence' = TRUE /\ count' = count + 1
    BY DEF Store, Inv, TypeOK
  <2> QED BY <1>3, <2>1 DEF Inv, TypeOK, Store, floor
<1>7. CountExact'
  BY <1>2, <1>4, ValidFinite, FS_AddElement DEF Inv, CountExact, Store
<1>8. NoDuplicates'
  <2>1. \A i \in Valid : packets'[i].sequence # s
    BY <1>5 DEF Duplicate
  <2>2. packets'[k].sequence = s
    BY <1>3
  <2> QED BY <1>4, <1>5, <2>1, <2>2 DEF Inv, NoDuplicates
<1>9. Chained'
  <2>1. Ahead(k)' = Dist(s, next_sequence', Half)
    BY <1>3 DEF Ahead
  <2>2. \A i \in Valid : /\ packets[i].sequence \in Seqs
                         /\ Ahead(i) \in 0 .. 2 * Half - 1
                         /\ Ahead(i) = Dist(packets[i].sequence, next_sequence, Half)
                         /\ Ahead(i)' = Dist(packets[i].sequence, next_sequence', Half)
    BY <1>5, AheadType DEF Inv, Ahead
  <2>3. CASE ~have_sequence
    <3>1. Valid = {} /\ next_sequence' = s /\ have_sequence' /\ ~started /\ ~started'
      BY <2>3 DEF Inv, Chained, Store, RestartsAt
    <3>2. Ahead(k)' = 0
      BY <2>1, <3>1, DistType
    <3> QED BY <1>4, <3>1, <3>2, HalfAssumption DEF Chained
  <2>4. CASE have_sequence /\ ~Behind(s, next_sequence, Half)
    <3>1. next_sequence' = next_sequence /\ have_sequence' /\ started' = started
      BY <2>4 DEF Store, RestartsAt
    <3>2. Ahead(k)' < Half
      BY <2>1, <2>4, <3>1, DistType, HalfAssumption DEF Behind, Inv, TypeOK
    <3>3. \A i \in Valid : Ahead(i)' = Ahead(i)
      BY <2>2, <3>1
    <3>4. Ahead(k)' \in 0 .. 2 * Half - 1
      BY <2>1, <3>1, DistType DEF Inv, TypeOK
    <3>5. ASSUME NEW i \in Valid', Ahead(i)' >= Half
          PROVE  \E j \in Valid' : Ahead(j)' < Ahead(i)' /\ Ahead(i)' - Ahead(j)' <= Half
      <4>1. i \in Valid
        BY <1>4, <3>2, <3>4, <3>5, HalfAssumption
      <4>2. PICK j \in Valid : Ahead(j) < Ahead(i) /\ Ahead(i) - Ahead(j) <= Half
        BY <3>3, <3>5, <4>1 DEF Inv, Chained
      <4> QED BY <1>4, <3>3, <4>1, <4>2
    <3>6. have_sequence' /\ ~started' => \E i \in Valid' : Ahead(i)' = 0
      BY <1>4, <2>4, <3>1, <3>3 DEF Inv, Chained
    <3> QED BY <3>1, <3>5, <3>6 DEF Chained
  <2>5. CASE have_sequence /\ Behind(s, next_sequence, Half)
    <3>1. ~started /\ ~started' /\ next_sequence' = s /\ have_sequence'
      BY <2>5 DEF Stale, Store, RestartsAt, Inv, TypeOK
    <3> DEFINE d == Dist(s, next_sequence, Half)
    <3>2. d \in Half .. 2 * Half - 1 /\ s # next_sequence
      BY <2>5, DistType, HalfAssumption DEF Behind, Inv, TypeOK
    <3>3. Ahead(k)' = 0
      BY <2>1, <3>1, DistType
    <3>4. \A i \in Valid : Ahead(i)' = IF Ahead(i) < d THEN Ahead(i) + 2 * Half - d
                                                       ELSE Ahead(i) - d
      BY <2>2, <3>1, <3>2, DistShift DEF Inv, TypeOK
    <3> HIDE DEF d
    <3>5. PICK q \in Valid : Ahead(q) = 0
      BY <2>5, <3>1 DEF Inv, Chained
    <3>6. ASSUME NEW i \in Valid', Ahead(i)' >= Half
          PROVE  \E j \in Valid' : Ahead(j)' < Ahead(i)' /\ Ahead(i)' - Ahead(j)' <= Half
      <4>1. i \in Valid
        BY <1>4, <3>3, <3>6, HalfAssumption
      <4>2. Ahead(i) \in 0 .. 2 * Half - 1
        BY <2>2, <4>1
      <4>3. Ahead(i) < d /\ Ahead(i)' = Ahead(i) + 2 * Half - d
        BY <3>2, <3>4, <3>6, <4>1, <4>2, HalfAssumption
      <4>4. CASE Ahead(i)' <= Half
        BY <1>4, <3>2, <3>3, <4>2, <4>3, <4>4, HalfAssumption
      <4>5. CASE Ahead(i)' > Half /\ Ahead(i) >= Half
        <5>1. PICK j \in Valid : Ahead(j) < Ahead(i) /\ Ahead(i) - Ahead(j) <= Half
          BY <4>1, <4>5 DEF Inv, Chained
        <5>2. Ahead(j) \in 0 .. 2 * Half - 1
          BY <2>2
        <5>3. Ahead(j)' = Ahead(j) + 2 * Half - d
          BY <3>2, <3>4, <4>2, <4>3, <5>1, <5>2, HalfAssumption
        <5> QED BY <1>4, <3>2, <4>2, <4>3, <5>1, <5>2, <5>3, HalfAssumption
      <4>6. CASE Ahead(i)' > Half /\ Ahead(i) < Half
        <5>1. Ahead(q)' = 2 * Half - d
          BY <3>2, <3>4, <3>5, HalfAssumption
        <5> QED BY <1>4, <3>2, <4>2, <4>3, <4>6, <5>1, HalfAssumption
      <4> QED BY <3>2, <4>2, <4>3, <4>4, <4>5, <4>6, HalfAssumption
    <3> QED BY <1>4, <3>1, <3>3, <3>6 DEF Chained
  <2> QED BY <2>3, <2>4, <2>5 DEF Inv, TypeOK
<1> QED BY <1>6, <1>7, <1>8, <1>9 DEF Inv

----------------------------------------------------------------------------
(* Playing a packet.  The packet that is played is in the lower half of    *)
(* the ring: were it in the upper half, Chained would give a nearer one.   *)
LEMMA PeekNear ==
    ASSUME Inv, NEW i \in Slots, Peek(i)
    PROVE  Ahead(i) \in 0 .. Half - 1
<1>1. i \in Valid /\ Ahead(i) \in 0 .. 2 * Half - 1
  BY AheadType DEF Peek, Inv
<1>2. ASSUME Ahead(i) >= Half PROVE FALSE
  <2>1. PICK j \in Valid : Ahead(j) < Ahead(i)
    BY <1>1, <1>2 DEF Inv, Chained
  <2>2. Ahead(j) \in 0 .. 2 * Half - 1 /\ Ahead(i) <= Ahead(j)
    BY <2>1, AheadType DEF Peek, Inv
  <2> QED BY <1>1, <2>1, <2>2, HalfAssumption
<1> QED BY <1>1, <1>2, HalfAssumption

(* playout_pop keeps the invariant.                                        *)
LEMMA InvPop ==
    ASSUME Inv, playout_pop
    PROVE  Inv'
<1>1. PICK k \in Slots :
        /\ Peek(k)
        /\ next_sequence' = Succ(packets[k].sequence)
        /\ packets' = [packets EXCEPT ![k] = FreeSlot]
  BY DEF playout_pop
<1>2. started' = TRUE /\ count' = count - 1 /\ have_floor' = FALSE
      /\ UNCHANGED <<have_sequence, floor_exclusive, timestamp_floor>>
  BY DEF playout_pop
<1>3. k \in Valid /\ packets[k].sequence \in Seqs /\ Ahead(k) \in 0 .. Half - 1
  BY <1>1, AheadType, PeekNear DEF Peek, Inv
<1>4. packets' \in [Slots -> Slot] /\ packets'[k] = FreeSlot
      /\ \A i \in Slots \ {k} : packets'[i] = packets[i]
  BY <1>1, FreeSlotType DEF Inv, TypeOK
<1>5. Valid' = Valid \ {k}
  BY <1>4 DEF Valid, FreeSlot
<1>6. CountExact'
  BY <1>2, <1>3, <1>5, ValidFinite, FS_RemoveElement DEF Inv, CountExact
<1>7. count' \in Nat
  <2>1. IsFiniteSet(Valid')
    BY <1>5, ValidFinite, FS_RemoveElement
  <2> QED BY <1>6, <2>1, FS_CardinalityType DEF CountExact
<1>8. TypeOK'
  BY <1>1, <1>2, <1>3, <1>4, <1>7, SuccType DEF Inv, TypeOK
<1>9. \A i \in Valid' : i \in Valid /\ i # k /\ packets'[i] = packets[i]
  BY <1>4, <1>5, ValidFinite
<1>10. NoDuplicates'
  BY <1>9 DEF Inv, NoDuplicates
<1>11. Chained'
  <2>1. \A i \in Valid' : /\ Ahead(i) \in 0 .. 2 * Half - 1
                          /\ Ahead(i)' = Ahead(i) - Ahead(k) - 1
    <3> SUFFICES ASSUME NEW i \in Valid'
                 PROVE  /\ Ahead(i) \in 0 .. 2 * Half - 1
                        /\ Ahead(i)' = Ahead(i) - Ahead(k) - 1
      OBVIOUS
    <3>1. i \in Valid /\ packets[i].sequence \in Seqs /\ Ahead(i) \in 0 .. 2 * Half - 1
      BY <1>9, AheadType DEF Inv
    <3>2. packets[i].sequence # packets[k].sequence
      BY <1>3, <1>9 DEF Inv, NoDuplicates
    <3>3. Ahead(k) <= Ahead(i)
      BY <1>1, <3>1 DEF Peek
    <3>4. Ahead(i)' = Dist(packets[i].sequence, Succ(packets[k].sequence), Half)
      BY <1>1, <1>9 DEF Ahead
    <3> QED BY <1>3, <3>1, <3>2, <3>3, <3>4, DistAfterSucc DEF Ahead, Inv, TypeOK
  <2>2. ASSUME NEW i \in Valid', Ahead(i)' >= Half
        PROVE  \E j \in Valid' : Ahead(j)' < Ahead(i)' /\ Ahead(i)' - Ahead(j)' <= Half
    <3>1. i \in Valid /\ Ahead(i) >= Half /\ Ahead(i) - Ahead(k) > Half
      BY <1>3, <1>9, <2>1, <2>2, HalfAssumption
    <3>2. PICK j \in Valid : Ahead(j) < Ahead(i) /\ Ahead(i) - Ahead(j) <= Half
      BY <3>1 DEF Inv, Chained
    <3>3. j # k
      BY <1>3, <2>1, <3>1, <3>2, HalfAssumption
    <3>4. j \in Valid'
      BY <1>5, <3>3
    <3> QED BY <1>3, <2>1, <3>2, <3>4, HalfAssumption
  <2>3. have_sequence' = TRUE
    BY <1>2, <1>3 DEF Inv, Chained, TypeOK
  <2> QED BY <1>2, <2>2, <2>3 DEF Chained
<1> QED BY <1>6, <1>8, <1>10, <1>11 DEF Inv

----------------------------------------------------------------------------
(* Every operation keeps the invariant.                                    *)
LEMMA InvNext == Inv /\ [Next]_vars => Inv'
<1> SUFFICES ASSUME Inv, [Next]_vars PROVE Inv'
  OBVIOUS
<1>1. CASE playout_reset
  BY <1>1, InvClear DEF playout_reset, Inv, TypeOK
<1>2. CASE \E t \in Stamps, e \in BOOLEAN : playout_set_floor(t, e)
  BY <1>2, InvClear DEF playout_set_floor, Inv
<1>3. CASE \E s \in Seqs, t \in Stamps, f \in BOOLEAN : playout_push(s, t, f)
  <2>1. PICK s \in Seqs, t \in Stamps, f \in BOOLEAN : playout_push(s, t, f)
    BY <1>3
  <2>2. CASE PushResult(s, t, f) = 1
    BY <2>1, <2>2, InvStore DEF playout_push, PushResult
  <2>3. CASE PushResult(s, t, f) # 1
    BY <2>1, <2>3 DEF playout_push, vars, Inv, TypeOK, CountExact, NoDuplicates,
                      Chained, Valid, Ahead
  <2> QED BY <2>2, <2>3
<1>4. CASE playout_pop
  BY <1>4, InvPop
<1>5. CASE UNCHANGED vars
  BY <1>5 DEF vars, Inv, TypeOK, CountExact, NoDuplicates, Chained, Valid, Ahead
<1> QED BY <1>1, <1>2, <1>3, <1>4, <1>5 DEF Next

(* Every reachable queue satisfies the invariant. *)
THEOREM Invariance == Spec => []Inv
BY InvInit, InvNext, PTL DEF Spec

(* playout_t keeps its C types, for every ring size and capacity. *)
THEOREM TypeCorrect == Spec => []TypeOK
BY Invariance, PTL DEF Inv

(* count is exact, slots hold distinct packets and the queue is chained.   *)
THEOREM QueueConsistent == Spec => []QueueSound
BY Invariance, PTL DEF Inv, QueueSound

(* A pop moves next_sequence forward by at most half the ring.             *)
LEMMA PopForward ==
    ASSUME Inv, playout_pop, next_sequence' # next_sequence
    PROVE  Dist(next_sequence', next_sequence, Half) \in 1 .. Half
<1>1. PICK k \in Slots : Peek(k) /\ next_sequence' = Succ(packets[k].sequence)
  BY DEF playout_pop
<1>2. k \in Valid /\ packets[k].sequence \in Seqs /\ Ahead(k) \in 0 .. Half - 1
  BY <1>1, AheadType, PeekNear DEF Peek, Inv
<1> QED BY <1>1, <1>2, DistToSucc, HalfAssumption DEF Ahead, Inv, TypeOK

(* Playback never moves backwards between two resets, whatever arrives:    *)
(* only playout_pop moves next_sequence once playback has started.         *)
THEOREM PlaysForward == Spec => PlayOrder
<1> DEFINE Forward == started /\ started' /\ next_sequence' # next_sequence
                        => Dist(next_sequence', next_sequence, Half) \in 1 .. Half
<1>1. Inv /\ [Next]_vars => [Forward]_vars
  <2> SUFFICES ASSUME Inv, Next, started, started', next_sequence' # next_sequence
               PROVE  Dist(next_sequence', next_sequence, Half) \in 1 .. Half
    OBVIOUS
  <2>1. ~playout_reset /\ ~(\E t \in Stamps, e \in BOOLEAN : playout_set_floor(t, e))
    BY DEF playout_reset, playout_set_floor, ClearQueue
  <2>2. ~(\E s \in Seqs, t \in Stamps, f \in BOOLEAN : playout_push(s, t, f))
    BY DEF playout_push, Store, RestartsAt, Inv, Chained, vars
  <2> QED BY <2>1, <2>2, PopForward DEF Next
<1> QED BY <1>1, Invariance, PTL DEF Spec, PlayOrder
=============================================================================

-------------------------------- MODULE Tlv --------------------------------
(***************************************************************************)
(* The TLV8 items of the pairing messages, tlv_get and tlv_put of          *)
(* shared/airplay/pairing.c.  An item is a type byte, a length byte and    *)
(* that many bytes; a longer value is cut into fragments.                  *)
(***************************************************************************)
EXTENDS Integers, Sequences, SequencesExt

CONSTANT Fragment   \* 255, the most bytes of an item: its length is one byte

ASSUME FragmentAssumption == Fragment \in 1 .. 255

Scanning == [pos |-> 0, out |-> <<>>, found |-> FALSE, previous |-> -1, size |-> 0, ok |-> TRUE]

(* Mutant of Continues: any adjacent item of the type counts. *)
ContinuesAny(s, type) == s.previous = type

(* An item of the type may follow another one only as its continuation.    *)
Continues(s, type) == s.previous = type /\ s.size = Fragment

(* One round of the loop of tlv_get. *)
Scan(in, type, capacity, s) ==
    LET left == Len(in) - s.pos
        t == in[s.pos + 1]
        n == in[s.pos + 2]
    IN
    IF ~s.ok \/ left = 0 THEN s
    ELSE IF \/ left < 2 \/ n > left - 2
            \/ t = type /\ ((s.found /\ ~Continues(s, type)) \/ n > capacity - Len(s.out))
    THEN [s EXCEPT !.ok = FALSE]
    ELSE [s EXCEPT !.pos = @ + 2 + n,
                   !.out = IF t = type THEN @ \o SubSeq(in, s.pos + 3, s.pos + 2 + n) ELSE @,
                   !.found = @ \/ t = type, !.previous = t, !.size = n]

(* A round takes at least two bytes. *)
tlv_get(in, type, capacity) ==
    LET s == FoldLeft(LAMBDA r, i : Scan(in, type, capacity, r), Scanning, in)
    IN  IF s.ok /\ s.found THEN [ok |-> TRUE, value |-> s.out]
        ELSE [ok |-> FALSE, value |-> <<>>]

(* What tlv_put appends to out, a message or the failure to write one; the *)
(* do loop also writes an empty value.                                     *)
NoValue == [ok |-> FALSE, value |-> <<>>]

Value(out) == [ok |-> TRUE, value |-> out]

PutItem(out, capacity, type, item) ==
    IF ~out.ok \/ Len(item) + 2 > capacity - Len(out.value) THEN NoValue
    ELSE Value(out.value \o <<type, Len(item)>> \o item)

Fragments(data) ==
    LET count == IF data = <<>> THEN 1 ELSE (Len(data) + Fragment - 1) \div Fragment
    IN  [i \in 1..count |->
            SubSeq(data, (i - 1) * Fragment + 1, IF i < count THEN i * Fragment ELSE Len(data))]

tlv_put(out, capacity, type, data) ==
    FoldLeft(LAMBDA o, item : PutItem(o, capacity, type, item), out, Fragments(data))

----------------------------------------------------------------------------
(* What a message says, without the loop: ItemAt[k] is where item k begins,  *)
(* -1 when the bytes before it are not whole items.                        *)
ItemAt(in) ==
    LET at[k \in 1..(Len(in) + 1)] ==
            IF k = 1 THEN 1
            ELSE LET p == at[k - 1] IN
                 IF p \in 1..(Len(in) - 1) /\ p + 1 + in[p + 1] <= Len(in)
                 THEN p + 2 + in[p + 1] ELSE -1
    IN  at

Says(in, type, capacity) ==
    LET at == ItemAt(in)
        count == {k \in DOMAIN at : at[k] = Len(in) + 1}
        last == (CHOOSE k \in count : TRUE) - 1
        mine == {k \in 1..last : in[at[k]] = type}
        value == FoldLeft(LAMBDA v, k : IF k \in mine
                             THEN v \o SubSeq(in, at[k] + 2, at[k + 1] - 1) ELSE v,
                          <<>>, [k \in 1..last |-> k])
    IN  IF /\ count # {} /\ mine # {}
           /\ \A k \in mine : (\E j \in mine : j > k) => k + 1 \in mine /\ in[at[k] + 1] = Fragment
           /\ Len(value) <= capacity
        THEN Value(value) ELSE NoValue

(* tlv_get yields exactly the value a message gives a type, also one cut   *)
(* into fragments, and refuses every message that is truncated, gives the  *)
(* type twice or gives more than fits.                                     *)
TlvReads(in, types, capacities) ==
    \A type \in types, capacity \in capacities :
        tlv_get(in, type, capacity) = Says(in, type, capacity)

(* What tlv_put wrote is read back by tlv_get, at every size around the    *)
(* limit of a fragment, whenever it and its headers fit.                   *)
TlvWrites(value, capacity) ==
    LET first == tlv_put(Value(<<>>), capacity, 1, value)
        both == tlv_put(first, capacity, 2, value)
        size == Len(value) + 2 * Len(Fragments(value))
    IN  /\ first.ok = (size <= capacity)
        /\ both.ok = (2 * size <= capacity)
        /\ both.ok => \A type \in {1, 2} :
               tlv_get(both.value, type, Len(value)) = Value(value)
=============================================================================

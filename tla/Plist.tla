------------------------------- MODULE Plist -------------------------------
(***************************************************************************)
(* Binary property lists, shared/protocol/bplist.c: the writer the AirPlay *)
(* 2 handlers build their responses with, one call at a time, and the      *)
(* reader they take the senders' requests apart with.                      *)
(*                                                                         *)
(* An object is its type and content: the bytes of a string (5) or data    *)
(* (4), the value of an integer (1), the references of an array (10), or   *)
(* of a dictionary (13) with keys and values in turn.  Bytes, offsets and  *)
(* sizes are those of the code.  What a finished list becomes on its way   *)
(* is a change of one byte, or a lost end.                                 *)
(***************************************************************************)
EXTENDS Integers, Sequences, SequencesExt

CONSTANTS
    MaxObjects,   \* offsets of a bplist_writer_t: 128
    Candidates,   \* objects that may be added
    Capacities,   \* sizes of the buffer
    MaxAdded,     \* bound: objects added
    Samples,      \* object sequences whose lists may be damaged
    Damages       \* bytes that a damaged byte may become

ASSUME PlistAssumption ==
    /\ MaxObjects \in 1..256
    /\ \A o \in Candidates : o.type \in {1, 4, 5, 10, 13} /\ o.content \in Seq(Nat)
    /\ Damages \subseteq 0..255

VARIABLES
    writer,    \* bplist_writer_t; used and count are lengths
    objects,   \* history: what was added
    root,      \* history: the root it was finished with
    file,      \* the finished list, <<>> when bplist_finish returned 0
    stage      \* "write", "finished" or "damaged"

plistVars == <<writer, objects, root, file, stage>>

Magic == <<98, 112, 108, 105, 115, 116, 48, 48>>

bplist_writer_init(capacity) ==
    IF capacity < 40 THEN [data |-> <<>>, offsets |-> <<>>, capacity |-> capacity, failed |-> TRUE]
    ELSE [data |-> Magic, offsets |-> <<>>, capacity |-> capacity, failed |-> FALSE]

PlistInit ==
    /\ writer \in {bplist_writer_init(c) : c \in Capacities}
    /\ objects = <<>> /\ root = 0 /\ file = <<>> /\ stage = "write"

----------------------------------------------------------------------------
(* The writer.  A failure sticks. *)
Failed(w) == [w EXCEPT !.failed = TRUE]

BigEndian(v, n) == [i \in 1..n |-> IF n - i > 3 THEN 0 ELSE (v \div 256^(n - i)) % 256]

append(w, v, n) ==
    IF w.failed \/ n > w.capacity - Len(w.data) THEN Failed(w)
    ELSE [w EXCEPT !.data = @ \o BigEndian(v, n)]

start(w, type, n) ==
    IF w.failed \/ Len(w.offsets) = MaxObjects THEN Failed(w)
    ELSE LET marked == append([w EXCEPT !.offsets = Append(@, Len(w.data))],
                              type * 16 + (IF n < 15 THEN n ELSE 15), 1)
         IN  IF n < 15 THEN marked ELSE append(append(marked, 19, 1), n, 8)

bytes(w, type, data) ==
    LET s == start(w, type, Len(data)) IN
    IF s.failed \/ Len(data) > s.capacity - Len(s.data) THEN Failed(s)
    ELSE [s EXCEPT !.data = @ \o data]

bplist_add_uint(w, value) == append(start(w, 1, 3), value, 8)

(* References go to objects added before. *)
References(w, type, n, refs) ==
    LET s == start(w, type, n)
    IN  IF \E i \in DOMAIN refs : refs[i] >= Len(w.offsets) THEN Failed(s)
        ELSE FoldLeft(LAMBDA a, r : append(a, r, 1), s, refs)

bplist_add_array(w, refs) == References(w, 10, Len(refs), refs)

(* First the keys, then the values. *)
bplist_add_dict(w, refs) ==
    LET n == Len(refs) \div 2
    IN  References(w, 13, n, [i \in 1..(2 * n) |->
                                  IF i <= n THEN refs[2 * i - 1] ELSE refs[2 * (i - n)]])

Added(w, o) ==
    CASE o.type \in {4, 5} -> bytes(w, o.type, o.content)
      [] o.type = 1 -> bplist_add_uint(w, o.content[1])
      [] o.type = 10 -> bplist_add_array(w, o.content)
      [] o.type = 13 -> bplist_add_dict(w, o.content)

(* The offset table and the trailer; the list is data when they fit.       *)
bplist_finish(w, top) ==
    LET put(a, p) == append(a, p[1], p[2])
        table == [i \in DOMAIN w.offsets |-> <<w.offsets[i], 4>>]
        trailer == <<<<0, 6>>, <<4, 1>>, <<1, 1>>, <<Len(w.offsets), 8>>, <<top, 8>>,
                     <<Len(w.data), 8>>>>
        end == FoldLeft(put, w, table \o trailer)
    IN  IF top >= Len(w.offsets) \/ end.failed THEN <<>> ELSE end.data

----------------------------------------------------------------------------
(* The reader.  Positions count from 0.  Numbers that no list is as large  *)
(* as are all the same.                                                    *)
Huge == 2^22

read_be(data, pos, n) ==
    FoldLeft(LAMBDA v, b : IF v >= 2^14 THEN Huge ELSE v * 256 + b, 0,
             SubSeq(data, pos + 1, pos + n))

BPLIST_NONE == -1
NoObject == [ok |-> FALSE, type |-> 0, start |-> 0, count |-> 0]

bplist_open(data) ==
    LET size == Len(data)
        tail == size - 32
        p == [data |-> data, count |-> read_be(data, tail + 8, 8),
              root |-> read_be(data, tail + 16, 8), table |-> read_be(data, tail + 24, 8),
              offset_size |-> data[tail + 7], ref_size |-> data[tail + 8]]
    IN  IF size < 40 \/ SubSeq(data, 1, 8) # Magic THEN [ok |-> FALSE, list |-> <<>>]
        ELSE [ok |-> /\ {p.offset_size, p.ref_size} \subseteq 1..8
                     /\ p.count # 0 /\ p.root < p.count
                     /\ p.table \in 8..tail
                     /\ p.count <= (tail - p.table) \div p.offset_size,
              list |-> p]

(* Mutant of Fits: the header of the object is forgotten. *)
FitsTable(p, pos, n, width) == n * width <= p.table

Fits(p, pos, n, width) == n <= (p.table - pos) \div width

Width(p, type) ==
    CASE type = 6 -> 2 [] type = 10 -> p.ref_size [] type = 13 -> 2 * p.ref_size [] OTHER -> 1

(* The marker holds the count, or announces an integer that does.          *)
Extent(p, type, pos, n) ==
    IF Fits(p, pos, n, Width(p, type))
    THEN [ok |-> TRUE, type |-> type, start |-> pos, count |-> n]
    ELSE NoObject

object(p, ref) ==
    LET pos == read_be(p.data, p.table + ref * p.offset_size, p.offset_size)
        type == p.data[pos + 1] \div 16
        n == p.data[pos + 1] % 16
        more == p.data[pos + 2]
        size == 2^(more % 16)
    IN
    IF ref = BPLIST_NONE \/ ref >= p.count THEN NoObject
    ELSE IF pos < 8 \/ pos >= p.table THEN NoObject
    ELSE IF type \in {1, 2} THEN IF n > 3 THEN NoObject ELSE Extent(p, type, pos + 1, 2^n)
    ELSE IF n < 15 THEN Extent(p, type, pos + 1, n)
    ELSE IF pos + 1 >= p.table \/ more \div 16 # 1 \/ more % 16 > 3 THEN NoObject
    ELSE IF size > p.table - (pos + 2) THEN NoObject
    ELSE Extent(p, type, pos + 2 + size, read_be(p.data, pos + 2, size))

reference(p, pos) ==
    LET ref == read_be(p.data, pos, p.ref_size)
    IN  IF ref < p.count THEN ref ELSE BPLIST_NONE

Content(p, o) == SubSeq(p.data, o.start + 1, o.start + o.count)

bplist_get(p, dict, key) ==
    LET d == object(p, dict)
        names(i) == LET k == object(p, reference(p, d.start + (i - 1) * p.ref_size))
                    IN  k.ok /\ k.type = 5 /\ Content(p, k) = key
        found == SelectInSeq([i \in 1..d.count |-> i], names)
    IN  IF ~d.ok \/ d.type # 13 \/ found = 0 THEN BPLIST_NONE
        ELSE reference(p, d.start + (d.count + found - 1) * p.ref_size)

bplist_at(p, array, index) ==
    LET a == object(p, array)
    IN  IF ~a.ok \/ a.type # 10 \/ index >= a.count THEN BPLIST_NONE
        ELSE reference(p, a.start + index * p.ref_size)

bplist_count(p, ref) ==
    LET o == object(p, ref) IN IF o.ok /\ o.type \in {10, 13} THEN o.count ELSE 0

(* -1 stands for the error of bplist_uint, <<-1>> for that of bplist_bytes. *)
bplist_uint(p, ref) ==
    LET o == object(p, ref)
    IN  IF o.ok /\ o.type = 1 THEN read_be(p.data, o.start, o.count) ELSE -1

bplist_bytes(p, ref) ==
    LET o == object(p, ref) IN IF o.ok /\ o.type \in {4, 5} THEN Content(p, o) ELSE <<-1>>

----------------------------------------------------------------------------
Add ==
    /\ stage = "write" /\ Len(objects) < MaxAdded
    /\ \E o \in Candidates :
          /\ writer' = Added(writer, o)
          /\ objects' = Append(objects, o)
    /\ UNCHANGED <<root, file, stage>>

Finish ==
    /\ stage = "write"
    /\ root' \in {0, Len(objects)}
    /\ file' = bplist_finish(writer, root')
    /\ stage' = "finished"
    /\ UNCHANGED <<writer, objects>>

Damage ==
    /\ stage = "finished" /\ objects \in Samples /\ file # <<>>
    /\ \/ \E i \in DOMAIN file, b \in Damages : file' = [file EXCEPT ![i] = b]
       \/ \E n \in 1..Len(file) : file' = SubSeq(file, 1, n)
    /\ stage' = "damaged"
    /\ UNCHANGED <<writer, objects, root>>

PlistNext == Add \/ Finish \/ Damage

----------------------------------------------------------------------------
SizeOf(o) ==
    LET n == Len(o.content)
        count == IF o.type = 13 THEN n \div 2 ELSE n
    IN  IF o.type = 1 THEN 9 ELSE n + (IF count < 15 THEN 1 ELSE 10)

(* The list an object sequence asks for is written exactly if it is legal  *)
(* and fits to the last byte of the trailer.                               *)
PlistWritten ==
    LET size == FoldLeft(LAMBDA n, o : n + SizeOf(o), 8, objects) + 4 * Len(objects) + 32
        legal == /\ Len(objects) <= MaxObjects
                 /\ \A k \in DOMAIN objects : objects[k].type \in {10, 13} =>
                       \A i \in DOMAIN objects[k].content : objects[k].content[i] < k - 1
    IN  stage = "finished" =>
           Len(file) = IF legal /\ root < Len(objects) /\ size <= writer.capacity
                       THEN size ELSE 0

(* Every object reads back as it was added: content, order and number of   *)
(* elements, and the value of the first key of a name.                     *)
PlistReads ==
    LET p == bplist_open(file).list
        same(k) ==
            LET o == objects[k]
                n == Len(o.content)
                keys == [i \in 1..(n \div 2) |-> objects[o.content[2 * i - 1] + 1]]
            IN
            CASE o.type \in {4, 5} -> bplist_bytes(p, k - 1) = o.content
              [] o.type = 1 -> bplist_uint(p, k - 1) = o.content[1]
              [] o.type = 10 ->
                   /\ bplist_count(p, k - 1) = n /\ bplist_at(p, k - 1, n) = BPLIST_NONE
                   /\ \A i \in 1..n : bplist_at(p, k - 1, i - 1) = o.content[i]
              [] o.type = 13 ->
                   /\ bplist_count(p, k - 1) = n \div 2
                   /\ \A i \in DOMAIN keys :
                        keys[i].type = 5 /\ (\A j \in 1..(i - 1) : keys[j] # keys[i])
                           => bplist_get(p, k - 1, keys[i].content) = o.content[2 * i]
    IN  stage = "finished" /\ file # <<>> =>
           bplist_open(file).ok /\ \A k \in DOMAIN objects : same(k)

(* Whatever a list says, an object the reader accepts lies between the     *)
(* header and the offset table, and a reference leads to an entry of the   *)
(* table, so that no query reads outside the list.                         *)
PlistInside ==
    LET p == bplist_open(file).list IN
    stage = "damaged" /\ bplist_open(file).ok =>
           /\ p.table + p.count * p.offset_size <= Len(file) - 32
           /\ \A ref \in 0..(p.count - 1) :
                LET o == object(p, ref) IN
                /\ o.ok => o.start >= 9 /\ o.start + o.count * Width(p, o.type) <= p.table
                /\ bplist_get(p, ref, <<107>>) \in -1..(p.count - 1)
                /\ \A i \in 0..2 : bplist_at(p, ref, i) \in -1..(p.count - 1)

PlistExact == PlistWritten /\ PlistReads /\ PlistInside
=============================================================================

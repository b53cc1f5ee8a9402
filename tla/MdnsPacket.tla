---------------------------- MODULE MdnsPacket ----------------------------
(***************************************************************************)
(* The bytes of mDNS packets in shared/protocol/mdns.c: decode_name, which *)
(* reads a possibly compressed name from a packet of the network, and      *)
(* build_packet, which writes the receiver's records.                      *)
(*                                                                         *)
(* Bytes have 4*Quarter values (256 in the code): below Quarter a label    *)
(* length, from 3*Quarter on the first byte of a pointer.  What a label    *)
(* says does not matter here; in a name that was read it is represented by *)
(* its place in the packet.                                                *)
(***************************************************************************)
EXTENDS Integers, Sequences, SequencesExt

CONSTANTS
    Quarter,     \* 64
    Bytes,       \* bytes that occur in packets
    Length,      \* length of a packet that is read
    NameSize,    \* size of the buffer a name is read into: 256
    MaxLabel,    \* longest label that is written: 63
    MaxName,     \* longest name that is written: 255
    FullName,    \* size of the buffer of the full name: 256
    MaxText,     \* longest TXT entry: 255
    Configs      \* what may be built, see Config

Config == [service : Seq(Nat), instance : Seq(Nat), hostname : Seq(Nat),
           ipv4 : BOOLEAN, txt : Seq(Nat), capacity : Nat]

ASSUME SizesAssumption ==
    /\ {Quarter, Length, NameSize, MaxLabel, MaxName, FullName, MaxText} \subseteq Nat \ {0}
    /\ Bytes \subseteq 0..(4 * Quarter - 1)
    /\ \A c \in Configs : c \in Config

VARIABLES
    data,    \* the packet that is read
    read,    \* the locals of decode_name, and its outcome
    config   \* the service whose packet is built; names are label lengths

packetVars == <<data, read, config>>

NoConfig == [service |-> <<>>, instance |-> <<>>, hostname |-> <<>>,
             ipv4 |-> FALSE, txt |-> <<>>, capacity |-> 0]

NotReading == [outcome |-> "none"]

(* A name is read, from offset 0, or a packet is built.                    *)
PacketInit ==
    \/ /\ data \in [0..(Length - 1) -> Bytes]
       /\ read = [position |-> 0, next |-> 0, used |-> 0, steps |-> 0, labels |-> <<>>,
                  outcome |-> "open"]
       /\ config = NoConfig
    \/ /\ data = <<>>
       /\ read = NotReading
       /\ config \in Configs

----------------------------------------------------------------------------
(* decode_name, one round of its loop per step.                            *)
Outcome(o) == read' = [read EXCEPT !.outcome = o]

Byte == data[read.position]

(* Mutant of RoundsLeft: the bound counts labels, not positions. *)
RoundsHalved == read.steps < Length \div 2

RoundsLeft == read.steps < Length

Reading == read.outcome = "open" /\ RoundsLeft /\ read.position < Length

ReadEnd ==
    /\ Reading /\ Byte = 0
    /\ read' = [read EXCEPT !.outcome = "read",
                            !.next = IF @ # 0 THEN @ ELSE read.position + 1]

ReadPointer ==
    /\ Reading /\ Byte >= 3 * Quarter
    /\ read.position + 1 < Length
    /\ read' = [read EXCEPT
            !.position = (Byte - 3 * Quarter) * 4 * Quarter + data[read.position + 1],
            !.next = IF @ # 0 THEN @ ELSE read.position + 2,
            !.steps = @ + 1]

LabelFits ==
    /\ read.position + 1 + Byte <= Length
    /\ read.used + Byte + 1 < NameSize

ReadLabel ==
    /\ Reading /\ Byte \in 1..(Quarter - 1)
    /\ LabelFits
    /\ read' = [read EXCEPT !.position = @ + 1 + Byte, !.used = @ + Byte + 1,
                            !.labels = Append(@, read.position), !.steps = @ + 1]

(* The packet ends, a label does not fit or has unknown bits, or the loop  *)
(* ran as often as the packet has bytes.                                   *)
Reject ==
    /\ read.outcome = "open"
    /\ \/ ~RoundsLeft
       \/ read.position >= Length
       \/ /\ Reading
          /\ \/ Byte >= 3 * Quarter /\ read.position + 1 >= Length
             \/ Byte \in Quarter..(3 * Quarter - 1)
             \/ Byte \in 1..(Quarter - 1) /\ ~LabelFits
    /\ Outcome("rejected")

decode_name ==
    /\ ReadEnd \/ ReadPointer \/ ReadLabel \/ Reject
    /\ UNCHANGED <<data, config>>

PacketNext == decode_name

----------------------------------------------------------------------------
(* build_packet: the position after each piece, 0 when it does not fit.    *)
LabelWritten(position, length, capacity) ==
    IF position = 0 \/ length \notin 1..MaxLabel \/ position + 1 + length >= capacity
    THEN 0 ELSE position + 1 + length

write_name(labels, capacity, position) ==
    LET end == FoldLeft(LAMBDA p, l : LabelWritten(p, l, capacity), position, labels)
    IN  IF position = 0 \/ labels = <<>> \/ end = 0 \/ end >= capacity
              \/ end - position + 1 > MaxName
        THEN 0 ELSE end + 1

(* begin_record and the fixed fields of a record.                          *)
Room(size, capacity, position) ==
    IF position = 0 \/ position + size > capacity THEN 0 ELSE position + size

begin_record(capacity, position) == Room(10, capacity, position)

TxtWritten(position, length, capacity) ==
    IF position = 0 \/ length > MaxText \/ position + 1 + length > capacity
    THEN 0 ELSE position + 1 + length

TextSize(labels) == FoldLeft(LAMBDA n, l : n + l + 1, -1, labels)

build_packet(c) ==
    LET cap == c.capacity
        full == c.instance \o c.service
        ptr == write_name(full, cap, begin_record(cap, write_name(c.service, cap, 12)))
        srv == write_name(c.hostname, cap,
                   Room(6, cap, begin_record(cap, write_name(full, cap, ptr))))
        a == IF ~c.ipv4 THEN srv
             ELSE Room(4, cap, begin_record(cap, write_name(c.hostname, cap, srv)))
        txt == IF c.txt = <<>> THEN a
               ELSE FoldLeft(LAMBDA p, l : TxtWritten(p, l, cap),
                             begin_record(cap, write_name(full, cap, a)), c.txt)
    IN  IF cap < 12 \/ TextSize(full) >= FullName THEN 0 ELSE txt

----------------------------------------------------------------------------
(* Where the bytes lead, said without the loop: Chain[n] is the position   *)
(* after n labels and pointers, -1 when the bytes there are neither.       *)
Chain ==
    LET chain[n \in 0..(2 * Length)] ==
            IF n = 0 THEN 0
            ELSE LET p == chain[n - 1] IN
                 CASE p \notin 0..(Length - 1) -> -1
                   [] p \in 0..(Length - 1) /\ data[p] \in 1..(Quarter - 1)
                        /\ p + 1 + data[p] <= Length -> p + 1 + data[p]
                   [] p \in 0..(Length - 2) /\ data[p] >= 3 * Quarter ->
                        (data[p] - 3 * Quarter) * 4 * Quarter + data[p + 1]
                   [] OTHER -> -1
    IN  chain

Ends(n) == Chain[n] \in 0..(Length - 1) /\ data[Chain[n]] = 0

Labels(n) == SelectSeq([i \in 1..n |-> Chain[i - 1]], LAMBDA p : data[p] < Quarter)

Written(n) == FoldLeft(LAMBDA u, p : u + data[p] + 1, 0, Labels(n))

Pointers(n) == {i \in 1..n : data[Chain[i - 1]] >= 3 * Quarter}

(* decode_name reads exactly the names there are: when the bytes lead to   *)
(* the end of a name that fits it yields the labels on the way and the     *)
(* position behind the name in the packet, that is behind its first        *)
(* pointer if it has one; otherwise, and on every loop of pointers, it     *)
(* gives up.  The limit on its rounds costs no name.                       *)
NameExact ==
    LET ends == {n \in 0..(2 * Length) : Ends(n) /\ \A m \in 0..(n - 1) : ~Ends(m)}
        names == {n \in ends : Written(n) < NameSize}
    IN  /\ read.outcome = "rejected" => names = {}
        /\ read.outcome = "read" => \E n \in names :
              /\ read.labels = Labels(n)
              /\ read.next = IF Pointers(n) = {} THEN Chain[n] + 1
                             ELSE Chain[(CHOOSE i \in Pointers(n) :
                                            \A j \in Pointers(n) : i <= j) - 1] + 2

NameWidth(labels) == TextSize(labels) + 2

(* build_packet builds the packet exactly when all its names and entries   *)
(* are legal and it fits, never writes beyond the buffer, and returns the  *)
(* sum of what it wrote.                                                   *)
PacketFits ==
    LET c == config
        full == c.instance \o c.service
        names == {c.service, full, c.hostname}
        legal == /\ \A l \in names : Len(l) > 0 /\ NameWidth(l) <= MaxName
                                       /\ \A i \in DOMAIN l : l[i] \in 1..MaxLabel
                 /\ TextSize(full) < FullName
                 /\ \A i \in DOMAIN c.txt : c.txt[i] <= MaxText
        size == 12 + NameWidth(c.service) + 10 + NameWidth(full)
                   + NameWidth(full) + 16 + NameWidth(c.hostname)
                   + (IF c.ipv4 THEN NameWidth(c.hostname) + 14 ELSE 0)
                   + (IF c.txt # <<>> THEN NameWidth(full) + 10 + TextSize(c.txt) + 1 ELSE 0)
    IN  build_packet(c) = IF legal /\ size <= c.capacity THEN size ELSE 0
=============================================================================

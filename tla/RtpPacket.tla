----------------------------- MODULE RtpPacket -----------------------------
(***************************************************************************)
(* The parser of audio packets, rtp_parse_packet of shared/protocol/rtp.c: *)
(* a fixed header, the contributing sources, an extension, the payload and *)
(* its padding, all of it possibly inside the wrapper of a retransmitted   *)
(* packet.  Bytes count from 1; a timestamp is left as its four bytes.     *)
(***************************************************************************)
EXTENDS Integers, Sequences

Retransmit == 86    \* 0x56, the type of the wrapper and of the sequence

NotParsed == [ok |-> FALSE, sequence |-> 0, timestamp |-> <<>>, payload |-> <<>>]

Wrapped(data) == data[2] % 128 = Retransmit

Flag(data, bit) == (data[1] \div bit) % 2 = 1
Padded(data) == Flag(data, 32)
Extended(data) == Flag(data, 16)

(* header_size, with the words of the extension when there is one.         *)
Sources(data) == 12 + 4 * (data[1] % 16)

Header(data) ==
    LET end == Sources(data)
    IN  IF Extended(data) THEN end + 4 + 4 * (data[end + 3] * 256 + data[end + 4]) ELSE end

(* The parser behind the wrapper. *)
ParseBare(data) ==
    LET len == Len(data)
        header == Header(data)
        pad == IF Padded(data) THEN data[len] ELSE 0
    IN
    IF data[1] \div 64 # 2 \/ Sources(data) > len THEN NotParsed
    ELSE IF Extended(data) /\ Sources(data) + 4 > len THEN NotParsed
    ELSE IF header > len THEN NotParsed
    ELSE IF Padded(data) /\ (len = header \/ pad = 0 \/ pad > len - header) THEN NotParsed
    ELSE [ok |-> TRUE, sequence |-> data[3] * 256 + data[4], timestamp |-> SubSeq(data, 5, 8),
          payload |-> SubSeq(data, header + 1, len - pad)]

rtp_parse_packet(data) ==
    IF Len(data) < 12 \/ (Wrapped(data) /\ Len(data) < 16) THEN NotParsed
    ELSE ParseBare(IF Wrapped(data) THEN SubSeq(data, 5, Len(data)) ELSE data)

----------------------------------------------------------------------------
(* A packet is these parts one behind the other; the sizes of sources and  *)
(* extension are in words, -1 words without an extension.                  *)
HeaderOf(sources, words) == 12 + 4 * sources + (IF words >= 0 THEN 4 + 4 * words ELSE 0)

Parts(data, sources, words, pad) ==
    /\ data[1] = 128 + sources + (IF words >= 0 THEN 16 ELSE 0) + (IF pad > 0 THEN 32 ELSE 0)
    /\ HeaderOf(sources, words) + pad <= Len(data)
    /\ words >= 0 => data[12 + 4 * sources + 3] * 256 + data[12 + 4 * sources + 4] = words
    /\ pad > 0 => data[Len(data)] = pad

(* rtp_parse_packet accepts exactly the packets that have these parts, and *)
(* the payload it hands on is what lies between header and padding, of the *)
(* inner packet of a wrapper.                                              *)
RtpExact(data) ==
    LET wrapped == Len(data) >= 2 /\ Wrapped(data)
        bare == IF wrapped THEN SubSeq(data, 5, Len(data)) ELSE data
        n == Len(bare)
        parsed == rtp_parse_packet(data)
        words == -1..(n \div 4)
        splits == {s \in (0..15) \X words \X {0, bare[n]} : Parts(bare, s[1], s[2], s[3])}
    IN  IF n < 12 THEN ~parsed.ok
        ELSE /\ parsed.ok = (splits # {})
             /\ \A s \in splits :
                   /\ parsed.payload = SubSeq(bare, HeaderOf(s[1], s[2]) + 1, n - s[3])
                   /\ parsed.sequence = bare[3] * 256 + bare[4]
=============================================================================

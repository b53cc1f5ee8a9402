-------------------------------- MODULE Sdp --------------------------------
(***************************************************************************)
(* The session description of ANNOUNCE, sdp_parse of                       *)
(* shared/protocol/sdp.c: the lines are applied one after the other to a   *)
(* session with defaults; what they leave open is inferred, and what is    *)
(* out of range replaced.                                                  *)
(*                                                                         *)
(* A line is what scanning finds in it: its kind, the codec it names, the  *)
(* numbers it holds, its base64 or hexadecimal text and the lengths of an  *)
(* AAC description (-1 where one is missing).  Kind "other" is every line  *)
(* the parser passes over.  A base64 character is its value, or one of the *)
(* three below; a hexadecimal one its value, or 16 for any other.          *)
(***************************************************************************)
EXTENDS Integers, Sequences, FiniteSets, FiniteSetsExt, SequencesExt

CONSTANTS
    KeySize,      \* room for the encrypted AES key: 512
    IvSize,       \* 16
    ConfigSize,   \* room for an AudioSpecificConfig: 64
    ScratchSize   \* SDP_SCRATCH_MAX: 4096

ASSUME SdpAssumption == {KeySize, IvSize, ConfigSize, ScratchSize} \subseteq Nat \ {0}

SpaceChar == 64
PadChar == 65
BadChar == 66

----------------------------------------------------------------------------
(* One character of sdp_base64_decode. *)
Decoding == [out |-> <<>>, buffer |-> 0, bits |-> 0, at |-> "text"]

DecodeChar(d, c, size) ==
    IF d.at # "text" \/ c = SpaceChar THEN d
    ELSE IF c = PadChar THEN [d EXCEPT !.at = "end"]
    ELSE IF c = BadChar THEN [d EXCEPT !.at = "failed"]
    ELSE LET buffer == d.buffer * 64 + c
             left == d.bits + 6 - 8
         IN  IF left < 0 THEN [d EXCEPT !.buffer = buffer, !.bits = d.bits + 6]
             ELSE IF Len(d.out) >= size THEN [d EXCEPT !.at = "failed"]
             ELSE [d EXCEPT !.out = Append(@, (buffer \div 2^left) % 256),
                            !.buffer = buffer % 2^left, !.bits = left]

(* len is -1 when it fails; what was decoded until then is in the output.  *)
sdp_base64_decode(text, size) ==
    LET d == FoldLeft(LAMBDA r, c : DecodeChar(r, c, size), Decoding, text)
    IN  [len |-> IF d.at = "failed" THEN -1 ELSE Len(d.out), out |-> d.out]

(* parse_hex_bytes; without any byte, or with too many, there is none.     *)
parse_hex_bytes(text) ==
    LET pairs == Len(text) \div 2
        isHex(k) == text[2*k - 1] < 16 /\ text[2*k] < 16
        count == Max({n \in 0..pairs : \A k \in 1..n : isHex(k)})
    IN  IF count > ConfigSize THEN <<>>
        ELSE [k \in 1..count |-> 16 * text[2*k - 1] + text[2*k]]

----------------------------------------------------------------------------
Zeros(n) == [i \in 1..n |-> 0]

NoLengths == [size |-> 0, index |-> 0, delta |-> 0]

Defaults ==
    [codec |-> "unknown", sample_rate |-> 44100, channels |-> 2, bits_per_sample |-> 16,
     frames_per_packet |-> 0, alac_fmtp |-> <<>>, aac_config |-> <<>>, aac |-> NoLengths,
     key |-> Zeros(KeySize), key_len |-> 0, iv |-> Zeros(IvSize), has_encryption |-> FALSE,
     payload_type |-> 96]

Overwrite(buffer, bytes) == bytes \o SubSeq(buffer, Len(bytes) + 1, Len(buffer))

(* A known codec with its rate, and its channels if they are given.        *)
Rtpmap(s, l) ==
    IF l.codec = "other" \/ l.numbers = <<>> THEN s
    ELSE [s EXCEPT
            !.codec = l.codec,
            !.sample_rate = l.numbers[1],
            !.channels = IF Len(l.numbers) >= 2 THEN l.numbers[2] % 65536 ELSE @,
            !.bits_per_sample = IF l.codec = "pcm" THEN 16 ELSE @,
            !.frames_per_packet = IF l.codec = "aac" THEN 1024 ELSE @]

(* Parameters of AAC, if an rtpmap before said so, or else those of ALAC.  *)
Given(n, default) == IF n = -1 THEN default ELSE n % 256

AacFmtp(s, l) ==
    [s EXCEPT !.aac_config = IF l.text = <<>> THEN @ ELSE parse_hex_bytes(l.text),
              !.aac = [size |-> Given(l.lengths.size, 13), index |-> Given(l.lengths.index, 3),
                       delta |-> Given(l.lengths.delta, 3)]]

AlacFmtp(s, l) ==
    LET n == l.numbers IN
    IF Len(n) < 3 THEN s
    ELSE [s EXCEPT !.alac_fmtp = n,
                   !.frames_per_packet = n[1],
                   !.bits_per_sample = n[3] % 65536,
                   !.channels = IF Len(n) >= 7 THEN n[7] % 65536 ELSE @,
                   !.sample_rate = IF Len(n) >= 11 THEN n[11] ELSE @]

Fmtp(s, l) == IF s.codec = "aac" THEN AacFmtp(s, l) ELSE AlacFmtp(s, l)

(* Mutant of Rsaaeskey: encryption only counts with a key. *)
RsaaeskeyDecoded(s, l) ==
    LET d == sdp_base64_decode(l.text, KeySize)
    IN  IF d.len > 0 THEN [s EXCEPT !.key = Overwrite(@, d.out), !.key_len = d.len,
                                    !.has_encryption = TRUE]
        ELSE s

(* A key that cannot be decoded still asks for encryption.                 *)
Rsaaeskey(s, l) ==
    LET d == sdp_base64_decode(l.text, KeySize)
    IN  [s EXCEPT !.key = Overwrite(@, d.out),
                  !.key_len = IF d.len > 0 THEN d.len ELSE @,
                  !.has_encryption = TRUE]

Aesiv(s, l) ==
    [s EXCEPT !.iv = Overwrite(@, sdp_base64_decode(l.text, IvSize).out), !.has_encryption = TRUE]

ParseLine(s, l) ==
    CASE l.kind = "m" -> [s EXCEPT !.payload_type = l.numbers[1] % 256]
      [] l.kind = "rtpmap" -> Rtpmap(s, l)
      [] l.kind = "fmtp" -> Fmtp(s, l)
      [] l.kind = "rsaaeskey" -> Rsaaeskey(s, l)
      [] l.kind = "aesiv" -> Aesiv(s, l)
      [] OTHER -> s

(* ALAC parameters without a codec mean ALAC. *)
Inferred(s) ==
    LET n == s.alac_fmtp IN
    IF s.codec # "unknown" \/ Len(n) < 3 THEN s
    ELSE [s EXCEPT !.codec = "alac",
                   !.frames_per_packet = IF @ = 0 THEN n[1] ELSE @,
                   !.bits_per_sample = IF @ = 0 THEN n[3] % 65536 ELSE @,
                   !.channels = IF @ = 0 /\ Len(n) >= 7 THEN n[7] % 65536 ELSE @,
                   !.sample_rate = IF @ = 0 /\ Len(n) >= 11 THEN n[11] ELSE @]

Within(value, range, default) == IF value \in range THEN value ELSE default

Sanitized(s) ==
    [s EXCEPT !.frames_per_packet = Within(@, 1..8192, 352),
              !.sample_rate = Within(@, 8000..192000, 44100),
              !.channels = Within(@, 1..2, 2),
              !.bits_per_sample = Within(@, {16, 24}, 16)]

sdp_parse(lines) == Sanitized(Inferred(FoldLeft(ParseLine, Defaults, lines)))

(* airplay_rtsp_announce refuses an empty text, one that does not fit with *)
(* its terminator, and one without a codec.                                *)
Announces(text) ==
    text.size \in 1..(ScratchSize - 1) /\ sdp_parse(text.lines).codec # "unknown"

----------------------------------------------------------------------------
(* The bytes that n base64 values stand for: the bits of all of them, in   *)
(* groups of eight; bits that are left over count for nothing.             *)
BitOf(values, j) == (values[j \div 6 + 1] \div 2^(5 - (j % 6))) % 2

Bytes64(values) ==
    [k \in 1..((6 * Len(values)) \div 8) |->
        FoldLeft(LAMBDA v, i : 2 * v + BitOf(values, 8 * (k - 1) + i - 1), 0,
                 [i \in 1..8 |-> i])]

Base64Exact(text, size) ==
    LET ends == {i \in DOMAIN text : text[i] = PadChar} \cup {Len(text) + 1}
        values == SelectSeq(SubSeq(text, 1, Min(ends) - 1), LAMBDA c : c # SpaceChar)
        d == sdp_base64_decode(text, size)
    IN  IF (\E i \in DOMAIN values : values[i] = BadChar) \/ (6 * Len(values)) \div 8 > size
        THEN d.len = -1
        ELSE d.out = Bytes64(values) /\ d.len = Len(d.out)

(* What a description says, without the loop: each value is the one given  *)
(* last by a line that gives it.                                           *)
SdpExact(text) ==
    LET lines == text.lines
        s == sdp_parse(lines)
        Of(kind) == {i \in DOMAIN lines : lines[i].kind = kind}
        N(i) == lines[i].numbers
        maps == {i \in Of("rtpmap") : lines[i].codec # "other" /\ N(i) # <<>>}
        Before(i) == {j \in maps : j < i}
        ofAac == {i \in Of("fmtp") : Before(i) # {} /\ lines[Max(Before(i))].codec = "aac"}
        ofAlac == {i \in Of("fmtp") \ ofAac : Len(N(i)) >= 3}
        Latest(given, Get(_), default) == IF given = {} THEN default ELSE Get(Max(given))
        coded == {i \in maps : lines[i].codec = "aac"}
        keys == {i \in Of("rsaaeskey") : sdp_base64_decode(lines[i].text, KeySize).len > 0}
    IN
    /\ Announces(text) = (text.size > 0 /\ text.size < ScratchSize /\ maps \cup ofAlac # {})
    /\ s.codec = Latest(maps, LAMBDA i : lines[i].codec, IF ofAlac = {} THEN "unknown" ELSE "alac")
    /\ s.sample_rate = Within(Latest(maps \cup {i \in ofAlac : Len(N(i)) >= 11},
                                   LAMBDA i : IF i \in maps THEN N(i)[1] ELSE N(i)[11], 0),
                              8000..192000, 44100)
    /\ s.channels = Within(Latest({i \in maps : Len(N(i)) >= 2}
                                      \cup {i \in ofAlac : Len(N(i)) >= 7},
                                  LAMBDA i : IF i \in maps THEN N(i)[2] ELSE N(i)[7], 0) % 65536,
                           1..2, 2)
    /\ s.frames_per_packet = Within(Latest(coded \cup ofAlac,
                                         LAMBDA i : IF i \in maps THEN 1024 ELSE N(i)[1], 0),
                                    1..8192, 352)
    /\ s.bits_per_sample = Within(Latest({i \in maps : lines[i].codec = "pcm"} \cup ofAlac,
                                         LAMBDA i : IF i \in maps THEN 16 ELSE N(i)[3], 0) % 65536,
                                  {16, 24}, 16)
    /\ s.payload_type = Latest(Of("m"), LAMBDA i : N(i)[1] % 256, 96)
    /\ s.aac_config = Latest({i \in ofAac : lines[i].text # <<>>},
                             LAMBDA i : parse_hex_bytes(lines[i].text), <<>>)
    /\ s.has_encryption = (Of("rsaaeskey") \cup Of("aesiv") # {})
    /\ s.key_len = Latest(keys, LAMBDA i : sdp_base64_decode(lines[i].text, KeySize).len, 0)
    /\ ofAac # {} => s.aac.size = Latest(ofAac, LAMBDA i : Given(lines[i].lengths.size, 13), 0)
=============================================================================

----------------------------- MODULE MCReceiver -----------------------------
(* Every program, the embedded one started twice; queries of up to two     *)
(* questions, and a response that looks like one.  DNS names of five bytes *)
(* with labels of up to three bytes and pointers to every place in them,   *)
(* services whose packet is around its limits, property lists around the   *)
(* limits of the writer and damaged ones, every short TLV message, RTP     *)
(* packets with every header cut at every length, descriptions of three    *)
(* lines in every order, and every short base64 text.                      *)
EXTENDS Receiver

Raop == [name |-> "raop", served |-> TRUE, qu |-> TRUE]
Airplay == [name |-> "airplay", served |-> TRUE, qu |-> FALSE]
Unserved == [name |-> "host", served |-> FALSE, qu |-> FALSE]
Host == [name |-> "host", served |-> TRUE, qu |-> FALSE]
Bad == [name |-> "bad", served |-> FALSE, qu |-> FALSE]

Query(questions) == [response |-> FALSE, questions |-> questions]

MCPackets ==
    {Query(<<q, r>>) : q \in {Raop, Airplay, Unserved}, r \in {Raop, Host, Bad}}
        \cup {Query(<<Bad, Host>>), [response |-> TRUE, questions |-> <<Host>>]}

MCConfigs ==
    [service : {<<2, 1>>}, instance : {<<1>>, <<3>>, <<4>>, <<1, 3>>, <<3, 3>>, <<0, 2>>},
     hostname : {<<2>>, <<3, 2>>}, ipv4 : BOOLEAN, txt : {<<>>, <<2>>, <<2, 3>>},
     capacity : {10} \cup 60..130]

Object(type, content) == [type |-> type, content |-> content]
Key == Object(5, <<107>>)
Long == Object(4, [i \in 1..15 |-> i])
Number == Object(1, <<258>>)

MCCandidates ==
    {Key, Long, Number, Object(5, <<>>), Object(10, <<>>), Object(10, <<1, 0>>),
     Object(13, <<0, 1>>), Object(13, <<0, 1, 0, 2>>), Object(13, <<1, 0, 0, 1>>)}

MCSamples ==
    {<<Key, Long, Object(13, <<0, 1>>)>>, <<Key, Number, Object(10, <<1, 0>>)>>}

MCTlvMessages == UNION {[1..n -> 0..3] : n \in 0..6}

(* The first byte is also that of the packet inside a wrapper; words is    *)
(* where an extension may have its length.                                 *)
RtpBytes(length, first, type, words, last) ==
    [i \in 1..length |-> CASE i \in {1, 5} -> first
                           [] i = 2 -> type
                           [] i = length -> last
                           [] i \in {16, 20, 24} -> words
                           [] OTHER -> 0]

MCRtpPackets ==
    {RtpBytes(n, first, type, words, last) :
        n \in 0..30, first \in {64, 128, 129, 144, 145, 160, 161, 176, 177, 143},
        type \in {96, 86, 214}, words \in 0..2, last \in {0, 1, 4, 30}}

NoLine == [kind |-> "other", codec |-> "other", numbers |-> <<>>, text |-> <<>>,
           lengths |-> [size |-> -1, index |-> -1, delta |-> -1]]
Map(codec, numbers) == [NoLine EXCEPT !.kind = "rtpmap", !.codec = codec, !.numbers = numbers]
Alac(numbers) == [NoLine EXCEPT !.kind = "fmtp", !.numbers = numbers]
Aac(text, size) == [NoLine EXCEPT !.kind = "fmtp", !.text = text, !.lengths.size = size]
Secret(kind, text) == [NoLine EXCEPT !.kind = kind, !.text = text]

MCLines ==
    {NoLine, [NoLine EXCEPT !.kind = "m", !.numbers = <<353>>],
     Map("alac", <<44100, 2>>), Map("aac", <<48000>>), Map("pcm", <<7999, 1>>),
     Map("pcm", <<192000, 65537>>), Map("other", <<96000>>), Map("alac", <<>>),
     Alac(<<352, 0>>), Alac(<<8192, 0, 24>>), Alac(<<8193, 0, 16, 40, 10, 14, 3>>),
     Alac(<<0, 0, 32, 40, 10, 14, 1, 255, 0, 0, 8000>>),
     Aac(<<1, 2, 1>>, -1), Aac(<<1, 2, 1, 16>>, 269), Aac(<<1, 2, 3, 4, 5, 6>>, 6),
     Secret("rsaaeskey", <<5, 8, 3>>), Secret("rsaaeskey", <<9, 9, BadChar>>),
     Secret("aesiv", <<1, 2, 3, 4>>)}

MCDescriptions ==
    [size : {0, 2, 3}, lines : UNION {[1..n -> MCLines] : n \in 0..3}]

MCBase64Texts ==
    UNION {[1..n -> {0, 21, 62, SpaceChar, PadChar, BadChar}] : n \in 0..5}
=============================================================================

---------------------------- MODULE WireFormats ----------------------------
(***************************************************************************)
(* The formats the receiver reads from and writes to the network: mDNS     *)
(* packets, binary property lists, the TLV items of pairing, RTP packets   *)
(* and session descriptions with their base64.  A behaviour is about one   *)
(* input of one format.                                                    *)
(***************************************************************************)
EXTENDS MdnsPacket, Plist, Tlv, RtpPacket, Sdp

CONSTANTS
    TlvMessages,     \* messages that are read, and values that are written
    TlvTypes,        \* types that are asked for
    TlvCapacities,   \* room for a value, or for a message
    RtpPackets,      \* packets that arrive
    Descriptions,    \* bodies of ANNOUNCE
    Base64Texts      \* keys in them

VARIABLES
    format,   \* "none" or the format at work
    input     \* what is read, in the formats without a state

formatVars == <<format, input, packetVars, plistVars>>

Stateless == {"tlv", "rtp", "sdp", "base64"}

NoFormat ==
    /\ format = "none" /\ input = <<>>
    /\ data = <<>> /\ read = NotReading /\ config = NoConfig
    /\ writer = bplist_writer_init(0) /\ objects = <<>> /\ root = 0 /\ file = <<>>
    /\ stage = "write"

FormatInit ==
    /\ format \in {"dns", "plist"} \cup Stateless
    /\ IF format = "dns" THEN PacketInit
       ELSE data = <<>> /\ read = NotReading /\ config = NoConfig
    /\ IF format = "plist" THEN PlistInit
       ELSE /\ writer = bplist_writer_init(0) /\ objects = <<>> /\ root = 0 /\ file = <<>>
            /\ stage = "write"
    /\ input \in CASE format = "tlv" -> TlvMessages
                   [] format = "rtp" -> RtpPackets
                   [] format = "sdp" -> Descriptions
                   [] format = "base64" -> Base64Texts
                   [] OTHER -> {<<>>}

Processed ==
    \/ format \in Stateless
    \/ format = "dns" /\ read.outcome # "open"
    \/ format = "plist" /\ stage # "write"

FormatNext ==
    \/ format = "dns" /\ PacketNext /\ UNCHANGED <<format, input, plistVars>>
    \/ format = "plist" /\ PlistNext /\ UNCHANGED <<format, input, packetVars>>
    \/ Processed /\ UNCHANGED formatVars

(* Every parser yields exactly what its format says the bytes mean and     *)
(* refuses what is cut off, contradictory or too large, never reading      *)
(* outside; every writer writes exactly what fits, and it reads back.      *)
(* These are the limits a test with well-formed input does not meet.       *)
FormatsExact ==
    /\ format = "dns" => NameExact /\ PacketFits
    /\ format = "plist" => PlistExact
    /\ format = "tlv" => /\ TlvReads(input, TlvTypes, TlvCapacities)
                         /\ \A capacity \in TlvCapacities : TlvWrites(input, capacity)
    /\ format = "rtp" => RtpExact(input)
    /\ format = "sdp" => SdpExact(input)
    /\ format = "base64" => \A size \in 1..KeySize : Base64Exact(input, size)
=============================================================================

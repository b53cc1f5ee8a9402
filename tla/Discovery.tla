----------------------------- MODULE Discovery -----------------------------
(***************************************************************************)
(* What the receiver tells the network about itself: the two mDNS services *)
(* of shared/airplay/airplay_discovery.c and the answers of                *)
(* shared/protocol/mdns.c to the queries of the neighbours.                *)
(*                                                                         *)
(* A packet is a sequence of questions, each reduced to whose name it asks *)
(* for, whether its type and class are ones the receiver serves, and       *)
(* whether it wants a unicast answer (QU).  How a name is read from the    *)
(* bytes of a packet is in MdnsPacket; "bad" is a question that cannot be  *)
(* read.                                                                   *)
(***************************************************************************)
EXTENDS Integers, Sequences

CONSTANT Packets   \* packets that the neighbours may send

Services == {"raop", "airplay"}

Question == [name : Services \cup {"host", "other", "bad"}, served : BOOLEAN, qu : BOOLEAN]

ASSUME PacketsAssumption ==
    \A p \in Packets : p.response \in BOOLEAN /\ p.questions \in Seq(Question)

NoPacket == [response |-> TRUE, questions |-> <<>>]

VARIABLES
    advert,  \* what the network last heard of each service
    packet,  \* the packet airplay_discovery_poll works on
    answers  \* where the answer of each service to it went

discoveryVars == <<advert, packet, answers>>

NoAnswers == [s \in Services |-> "none"]

DiscoveryInit ==
    /\ advert = [s \in Services |-> "silent"]
    /\ packet = NoPacket
    /\ answers = NoAnswers

----------------------------------------------------------------------------
(* The service type or instance of the service, or the shared host name.   *)
name_matches(s, q) == q.name \in {s, "host"}

(* Mutant of mdns_handle_packet_from: only the first question is read. *)
handle_first_question(s, p) ==
    IF p.response \/ p.questions = <<>> THEN "none"
    ELSE LET q == p.questions[1]
         IN  IF q.name # "bad" /\ name_matches(s, q) /\ q.served
             THEN IF q.qu THEN "unicast" ELSE "multicast"
             ELSE "none"

(* Which answer the service gives to a packet: to its first question that  *)
(* matches, before the first one that cannot be read.                      *)
mdns_handle_packet_from(s, p) ==
    LET count == Len(p.questions)
        from[i \in 1..(count + 1)] ==
            IF i > count THEN "none"
            ELSE LET q == p.questions[i] IN
                 CASE q.name = "bad" -> "none"   \* MDNS_ERR_INVALID_DATA
                   [] q.name # "bad" /\ name_matches(s, q) /\ q.served ->
                        IF q.qu THEN "unicast" ELSE "multicast"
                   [] OTHER -> from[i + 1]
    IN  IF p.response THEN "none" ELSE from[1]

(* A response with a positive time to live: 60 s for an announcement and   *)
(* for a multicast answer, 4500 s for a unicast one.                       *)
mdns_announce(s) == advert' = [advert EXCEPT ![s] = "alive"]

(* A response with time to live 0: the neighbours drop the records.        *)
mdns_goodbye(s) == advert' = [advert EXCEPT ![s] = "withdrawn"]

net_udp_recv(p) == packet' = p /\ answers' = NoAnswers /\ UNCHANGED advert

(* The service handles the packet and has nothing to say.                  *)
HandleQuietly(s) ==
    /\ mdns_handle_packet_from(s, packet) = "none"
    /\ UNCHANGED discoveryVars

send_response(s) ==
    /\ mdns_handle_packet_from(s, packet) # "none"
    /\ mdns_announce(s)
    /\ answers' = [answers EXCEPT ![s] = mdns_handle_packet_from(s, packet)]
    /\ UNCHANGED packet

SendFails(s) ==
    /\ mdns_handle_packet_from(s, packet) # "none"
    /\ UNCHANGED discoveryVars

----------------------------------------------------------------------------
(* What a packet asks of the service, said without the loop: its first     *)
(* question for the service, if everything up to there can be read.        *)
FirstAsked(s, p) ==
    {i \in DOMAIN p.questions :
        /\ p.questions[i].name \in {s, "host"} /\ p.questions[i].served
        /\ \A j \in 1..(i - 1) :
              /\ p.questions[j].name # "bad"
              /\ p.questions[j].name \in {s, "host"} => ~p.questions[j].served}

Expected(s, p) ==
    IF p.response \/ FirstAsked(s, p) = {} THEN "none"
    ELSE IF \E i \in FirstAsked(s, p) : p.questions[i].qu THEN "unicast" ELSE "multicast"
=============================================================================

---------------------------- MODULE RtspChannel ----------------------------
(***************************************************************************)
(* The byte channel of one control connection: the receive buffer, request *)
(* framing and dispatch loop of shared/protocol/rtsp.c, and the encrypted  *)
(* records of shared/airplay/pairing.c that the connection switches to     *)
(* after pairing.                                                          *)
(*                                                                         *)
(* A byte knows the request it belongs to, so torn, merged or reordered    *)
(* requests can be seen.  What a request asks for is left out, except that *)
(* one of them completes pairing.  The sender may write requests behind    *)
(* each other, cut them into records anywhere, and misbehave; what it does *)
(* wrong, and what the network does, is kept in faults.                    *)
(***************************************************************************)
EXTENDS Integers, Sequences

CONSTANTS
    RxSize,       \* RTSP_RX_BUFFER_SIZE
    RecordMax,    \* PAIR_RECORD_MAX
    Overhead,     \* bytes of a record besides its payload: 18
    MaxCounter,   \* UINT64_MAX
    MaxReply,     \* bound: records of one response
    Shapes,       \* requests a sender writes: header length and total length
    MaxRequests,  \* bound: requests written
    MaxPlain,     \* bound: bytes written and not yet transmitted
    MaxWire       \* bound: bytes in flight

ASSUME SizesAssumption ==
    /\ RxSize \in Nat \ {0} /\ RecordMax \in 1 .. RxSize
    /\ Overhead \in Nat /\ Overhead > 2
    /\ MaxCounter \in Nat
ASSUME ShapesAssumption ==
    \A s \in Shapes : s.size \in Nat /\ s.head \in 1 .. s.size
ASSUME BoundsAssumption == MaxReply \in Nat /\ MaxPlain \in Nat

VARIABLES
    open, encrypted,   \* of rtsp_client_t
    rx,                \* rx_buffers[i][0 .. rx_lengths[i])
    record,            \* client->record[0 .. record_used)
    read_counter, write_counter,
    pc,                \* "wait" in net_wait, "parse" in the request loop
    wire, eof,         \* bytes in flight; the sender closed its side
    plain,             \* bytes of requests the sender has not transmitted
    next,              \* number of the sender's next request
    asked,             \* number of the request that asks to complete pairing
    seals, tx_counter, \* the sender seals what it transmits
    handled,           \* history: the last request handled
    nonces,            \* history: write counters the responses were sealed with
    faults             \* history: who broke the rules on this connection

receiver == <<open, encrypted, rx, record, read_counter, write_counter, pc>>
sender == <<plain, next, asked, seals, tx_counter>>
vars == <<receiver, sender, wire, eof, handled, nonces, faults>>

Bytes(request, kind, shape) ==
    [i \in 1 .. shape.size |->
        [req |-> request, at |-> i, head |-> shape.head, size |-> shape.size,
         kind |-> kind, sealed |-> FALSE]]

(* On the wire a byte is in clear or the at-th byte of a record.           *)
Clear(b) == [sealed |-> FALSE, payload |-> <<b>>, at |-> 1, counter |-> 0, intact |-> TRUE]

Record(payload, counter, intact) ==
    [i \in 1 .. Len(payload) + Overhead |->
        [sealed |-> TRUE, payload |-> payload, at |-> i, counter |-> counter,
         intact |-> intact]]

Init ==
    /\ open = TRUE /\ encrypted = FALSE
    /\ rx = <<>> /\ record = <<>>
    /\ read_counter = 0 /\ write_counter = 0
    /\ pc = "wait"
    /\ wire = <<>> /\ eof = FALSE
    /\ plain = <<>> /\ next = 1 /\ asked = 0
    /\ seals = FALSE /\ tx_counter = 0
    /\ handled = 0 /\ nonces = <<>> /\ faults = {}

----------------------------------------------------------------------------
(* The sender and the network. *)
Write(kind, shape) ==
    /\ open /\ ~eof
    /\ next <= MaxRequests
    /\ Len(plain) + shape.size <= MaxPlain
    /\ kind = "pair" => asked = 0
    /\ plain' = plain \o Bytes(next, kind, shape)
    /\ next' = next + 1
    /\ asked' = IF kind = "pair" THEN next ELSE asked
    /\ faults' = faults \cup
          IF kind = "malformed" \/ shape.size > RxSize THEN {"sender"} ELSE {}
    /\ UNCHANGED <<receiver, seals, tx_counter, wire, eof, handled, nonces>>

Transmitted(n) ==
    /\ n <= Len(plain)
    /\ plain' = SubSeq(plain, n + 1, Len(plain))
    /\ UNCHANGED <<receiver, next, asked, seals, eof, handled, nonces>>

(* Bytes behind the request that completes pairing have to wait for its    *)
(* response.                                                               *)
TransmitClear(n) ==
    /\ open /\ ~eof /\ ~seals
    /\ Len(wire) + n <= MaxWire
    /\ Transmitted(n)
    /\ wire' = wire \o [i \in 1 .. n |-> Clear(plain[i])]
    /\ faults' = faults \cup
          IF asked # 0 /\ plain[n].req > asked THEN {"sender"} ELSE {}
    /\ UNCHANGED tx_counter

(* A record may be damaged on its way, and may span two requests.          *)
TransmitSealed(n, intact) ==
    /\ open /\ ~eof /\ seals
    /\ n <= RecordMax
    /\ Len(wire) + n + Overhead <= MaxWire
    /\ tx_counter < MaxCounter
    /\ Transmitted(n)
    /\ wire' = wire \o Record(SubSeq(plain, 1, n), tx_counter, intact)
    /\ tx_counter' = tx_counter + 1
    /\ faults' = faults \cup (IF intact THEN {} ELSE {"network"})
                        \cup (IF plain[n].req > plain[1].req THEN {"span"} ELSE {})

(* The sender has the response that completed pairing. *)
StartSealing ==
    /\ open /\ encrypted /\ ~seals
    /\ seals' = TRUE
    /\ UNCHANGED <<receiver, plain, next, asked, tx_counter, wire, eof, handled, nonces, faults>>

(* The sender closes; a reset also loses what is in flight.                *)
HangUp ==
    /\ open /\ ~eof
    /\ eof' = TRUE
    /\ wire' \in {wire, <<>>}
    /\ faults' = faults \cup {"sender"}
    /\ UNCHANGED <<receiver, sender, handled, nonces>>

----------------------------------------------------------------------------
(* close_client: pairing_close erases the counters with the keys.          *)
close_client ==
    /\ open' = FALSE /\ encrypted' = FALSE
    /\ rx' = <<>> /\ record' = <<>>
    /\ read_counter' = 0 /\ write_counter' = 0
    /\ pc' = "wait"

(* The length a record announces.  Bytes that are not the beginning of a   *)
(* record announce anything.                                               *)
Lengths ==
    IF \A i \in 1 .. 2 : record[i].sealed /\ record[i].at = i
    THEN {Len(record[1].payload)}
    ELSE 0 .. RecordMax + 1

(* Mutant of BadLength: a record that just fits is refused. *)
BadLengthTight(length) ==
    length = 0 \/ length > RecordMax \/ length >= RxSize - Len(rx)

BadLength(length) ==
    length = 0 \/ length > RecordMax \/ length > RxSize - Len(rx)

(* pairing_open accepts the record sealed with the expected counter only.  *)
pairing_open(r) ==
    /\ read_counter # MaxCounter
    /\ \A i \in 1 .. Len(r) :
          /\ r[i].sealed /\ r[i].intact
          /\ r[i].counter = read_counter
          /\ r[i].at = i
    /\ Len(r) = Len(r[1].payload) + Overhead

Closed == close_client /\ UNCHANGED <<wire, sender, eof, handled, nonces, faults>>

Took(n) ==
    /\ wire' = SubSeq(wire, n + 1, Len(wire))
    /\ UNCHANGED <<open, encrypted, write_counter, sender, eof, handled, nonces, faults>>

ReceiveClear ==
    \E n \in 1 .. Len(wire) :
        /\ n <= RxSize - Len(rx)
        /\ rx' = rx \o [i \in 1 .. n |-> wire[i].payload[1]]
        /\ pc' = "parse"
        /\ Took(n)
        /\ UNCHANGED <<record, read_counter>>

(* The length comes first; a receive that completes it, or leaves the      *)
(* record incomplete, is a timeout to the caller.                          *)
ReceiveLength ==
    \E n \in 1 .. 2 - Len(record) :
        /\ n <= Len(wire)
        /\ record' = record \o SubSeq(wire, 1, n)
        /\ Took(n)
        /\ UNCHANGED <<rx, read_counter, pc>>

ReceiveRecord(need) ==
    \E n \in 1 .. Len(wire) :
        /\ n <= need - Len(record)
        /\ LET r == record \o SubSeq(wire, 1, n) IN
           IF Len(r) < need
           THEN Took(n) /\ record' = r /\ UNCHANGED <<rx, read_counter, pc>>
           ELSE IF pairing_open(r)
           THEN /\ Took(n)
                /\ record' = <<>>
                /\ rx' = rx \o [i \in 1 .. Len(r[1].payload) |->
                                  [r[1].payload[i] EXCEPT !.sealed = TRUE]]
                /\ read_counter' = read_counter + 1
                /\ pc' = "parse"
           ELSE Closed

(* receive_client in rtsp_server_poll, when the socket is readable.        *)
receive_client ==
    /\ open /\ pc = "wait"
    /\ wire # <<>> \/ eof
    /\ IF ~encrypted \/ Len(record) < 2
       THEN IF wire = <<>> THEN Closed
            ELSE IF encrypted THEN ReceiveLength ELSE ReceiveClear
       ELSE \E length \in Lengths :
               IF BadLength(length) \/ wire = <<>> THEN Closed
               ELSE ReceiveRecord(length + Overhead)

----------------------------------------------------------------------------
(* The result of parse_request: 0 asks for more, -1 is malformed or can    *)
(* never fit, 1 is a complete request.                                     *)
parse_request ==
    LET b == rx[1] IN
    CASE Len(rx) < b.head -> IF Len(rx) = RxSize THEN -1 ELSE 0
      [] b.kind = "malformed" \/ b.size > RxSize -> -1
      [] Len(rx) < b.size -> 0
      [] OTHER -> 1

(* Mutant of pairing_seal: the counter is not looked at, and wraps. *)
pairing_seal_wraps ==
    {[i \in 1 .. n |-> (write_counter + i - 1) % (MaxCounter + 1)] : n \in 1 .. MaxReply}

(* The counters that send_client's calls of pairing_seal use up for one    *)
(* response; the last value of the counter is never used.                  *)
pairing_seal ==
    {[i \in 1 .. n |-> write_counter + i - 1] :
        n \in {m \in 1 .. MaxReply : write_counter + m <= MaxCounter}}

(* rtsp_send_response, in clear or in records: the whole response is sent, *)
(* or fails somewhere on the way.                                          *)
Responses == IF encrypted THEN pairing_seal ELSE {<<>>}
FailedResponses == Responses \cup {<<>>}

(* Mutant of Rest: the bytes behind a request are lost. *)
RestLost(n) == <<>>

(* The memmove of what follows a request of n bytes. *)
Rest(n) == SubSeq(rx, n + 1, Len(rx))

(* Mutant of Crosses: clear bytes may follow the pairing response. *)
CrossesNever(completes, rest) == FALSE

(* Nothing may have been received behind the request that completes        *)
(* pairing: it would count as encrypted.                                   *)
Crosses(completes, rest) == completes /\ rest # <<>>

(* Mutant of Continue: one request per receive. *)
ContinueOnce == "wait"

(* The while loop goes on with the bytes that are left. *)
Continue == "parse"

(* handle_request and its response. *)
Handle ==
    LET b == rx[1]
        rest == Rest(b.size)
        completes == ~encrypted /\ b.kind = "pair"
    IN
    \E used \in Responses :
        /\ nonces' = nonces \o used
        /\ IF Crosses(completes, rest)
           THEN close_client
           ELSE /\ rx' = rest
                /\ encrypted' = (encrypted \/ completes)
                /\ write_counter' = (write_counter + Len(used)) % (MaxCounter + 1)
                /\ pc' = IF rest = <<>> THEN "wait" ELSE Continue
                /\ UNCHANGED <<open, record, read_counter>>
        /\ UNCHANGED faults

(* A response that cannot be sent, or not be sealed any more, closes the   *)
(* client.                                                                 *)
FailToRespond ==
    /\ \E used \in FailedResponses : nonces' = nonces \o used
    /\ close_client
    /\ faults' = faults \cup {"network"}

(* 400 is sent to a client that is then closed anyway. *)
Refuse ==
    /\ \E used \in FailedResponses : nonces' = nonces \o used
    /\ close_client
    /\ UNCHANGED faults

(* One turn of the request loop of rtsp_server_poll.                       *)
ParseRequest ==
    /\ open /\ pc = "parse"
    /\ \/ /\ parse_request = 0
          /\ pc' = "wait"
          /\ UNCHANGED <<open, encrypted, rx, record, read_counter, write_counter, handled,
                         nonces, faults>>
       \/ parse_request = -1 /\ Refuse /\ UNCHANGED handled
       \/ parse_request = 1 /\ (Handle \/ FailToRespond) /\ handled' = rx[1].req
    /\ UNCHANGED <<wire, sender, eof>>

(* The slot takes another connection. *)
Accept ==
    /\ ~open
    /\ open' = TRUE
    /\ encrypted' = FALSE
    /\ rx' = <<>> /\ record' = <<>>
    /\ read_counter' = 0 /\ write_counter' = 0
    /\ pc' = "wait"
    /\ wire' = <<>> /\ eof' = FALSE
    /\ plain' = <<>> /\ asked' = 0 /\ seals' = FALSE /\ tx_counter' = 0
    /\ handled' = next - 1
    /\ nonces' = <<>> /\ faults' = {}
    /\ UNCHANGED next

Next ==
    \/ \E kind \in {"request", "pair", "malformed"}, shape \in Shapes : Write(kind, shape)
    \/ \E n \in 1 .. MaxPlain : TransmitClear(n)
    \/ \E n \in 1 .. RecordMax, intact \in BOOLEAN : TransmitSealed(n, intact)
    \/ StartSealing
    \/ HangUp
    \/ receive_client
    \/ ParseRequest
    \/ Accept

(* The control thread polls again and again. *)
Fairness == WF_vars(receive_client) /\ WF_vars(ParseRequest)

Spec == Init /\ [][Next]_vars /\ Fairness

----------------------------------------------------------------------------
(* The buffer holds the sender's bytes from the first one not yet handled, *)
(* none missing, none twice, none of another connection, wherever TCP and  *)
(* the records cut them: so every request is handled whole, once, in order.*)
RequestsWhole ==
    \A i \in 1 .. Len(rx) :
        IF i = 1 THEN rx[1].req = handled + 1 /\ rx[1].at = 1
        ELSE \/ rx[i].req = rx[i - 1].req /\ rx[i].at = rx[i - 1].at + 1
             \/ /\ rx[i].req = rx[i - 1].req + 1 /\ rx[i].at = 1
                /\ rx[i - 1].at = rx[i - 1].size

(* "No unauthenticated request may cross the final pairing response":      *)
(* once the connection is encrypted, what the loop parses was authentic.   *)
BoundaryHolds == encrypted => \A i \in 1 .. Len(rx) : rx[i].sealed

(* No two records of a connection are sealed with the same nonce, however  *)
(* many responses it takes to reach the end of the counter.                *)
NonceUnique == \A i, j \in 1 .. Len(nonces) : nonces[i] = nonces[j] => i = j

(* A sender that keeps to the protocol is not cut off while the network    *)
(* works: neither fragments, nor pipelined requests, nor requests as large *)
(* as the buffer make the receiver close the connection.  A record that    *)
(* spans requests counts as a fault: it is refused when it is longer than  *)
(* the room left, though its first bytes would complete a request.         *)
ClosedForCause == ~open => faults # {}

(* Every request that was transmitted whole is handled, the last one of    *)
(* several in one segment too, unless the connection is at fault.          *)
Served ==
    \A k \in 1 .. MaxRequests :
        next > k /\ (plain = <<>> \/ plain[1].req > k)
            ~> (handled >= k \/ faults # {})
=============================================================================

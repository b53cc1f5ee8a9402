---------------------------- MODULE RtspControl ----------------------------
(***************************************************************************)
(* The RTSP control thread: the client slots of shared/protocol/rtsp.c and *)
(* the AirPlay 1 and AirPlay 2 request handlers of shared/airplay, which   *)
(* share one stream description (rtsp_stream_state_t) with the audio       *)
(* thread.                                                                 *)
(*                                                                         *)
(* A handler takes state_lock once, changes the stream, unlocks and only   *)
(* then sends its response.  When the response cannot be sent the server   *)
(* closes the client, in a second critical section: closing holds the      *)
(* client in between, and the audio thread may read the stream there.      *)
(***************************************************************************)
EXTENDS StreamState

CONSTANT Clients      \* the RTSP_MAX_CLIENTS slots

ASSUME ClientsAssumption == None \notin Clients

VARIABLES
    clients,  \* rtsp_client_t of each slot
    owner,    \* stream_owner
    closing   \* the client whose response failed, or None

vars == <<clients, stream, owner, closing>>

(* A slot that net_close, pairing_close and the memsets have emptied.      *)
ClosedClient ==
    [open |-> FALSE, peer |-> None, encrypted |-> FALSE, pairing |-> "none",
     fairplay_stage |-> 0, event_listener |-> FALSE, event_client |-> FALSE]

Init ==
    /\ clients = [c \in Clients |-> ClosedClient]
    /\ StreamInit
    /\ owner = None
    /\ closing = None

----------------------------------------------------------------------------
(* A complete request of client c is taken up by the server thread.        *)
Request(c) == closing = None /\ clients[c].open

(* net_tcp_send_all succeeds, or the client will be closed.                *)
Respond(c) == closing' \in {None, c}

(* A request that changes nothing: besides the handlers below, every one   *)
(* that is rejected (400, 453, 455, 461, 470, 500, 501) and only answered. *)
Reply(c) == Request(c) /\ Respond(c) /\ UNCHANGED <<clients, stream, owner>>

(* The owner's request applies update to the stream; any other client's    *)
(* request leaves it alone.                                                *)
OwnerUpdate(c, update) ==
    /\ Request(c)
    /\ Respond(c)
    /\ stream' = IF owner = c THEN update ELSE stream
    /\ UNCHANGED <<clients, owner>>

(* ANNOUNCE and the stream SETUP take the stream over, whoever owns it.    *)
TakeOver(c, update) ==
    /\ Request(c)
    /\ stream.generation < MaxGen
    /\ stream' = update
    /\ owner' = c
    /\ Respond(c)
    /\ UNCHANGED clients

----------------------------------------------------------------------------
(* AirPlay 1 handlers (airplay_rtsp.c). *)
airplay_rtsp_options(c) == Reply(c)
airplay_rtsp_describe(c) == Reply(c)
airplay_rtsp_post(c) == Reply(c)
airplay_rtsp_get_parameter(c) == Reply(c)

(* PLAY echoes the Session header and changes nothing.                     *)
airplay_rtsp_play(c) == Reply(c)

(* A valid SDP body replaces the session and takes the stream over.        *)
airplay_rtsp_announce(c) == TakeOver(c, Announced)

airplay_rtsp_setup(c) ==
    /\ stream.generation < MaxGen
    /\ OwnerUpdate(c, Transported(clients[c].peer))

(* Any client may set the volume. *)
airplay_rtsp_set_parameter(c, volume) ==
    /\ Request(c)
    /\ stream' = Loud(volume)
    /\ Respond(c)
    /\ UNCHANGED <<clients, owner>>

(* FLUSH with (has) or without an rtptime. *)
airplay_rtsp_flush(c, has, stamp) ==
    /\ stream.flush_generation < MaxFlush
    /\ OwnerUpdate(c, Flushed(has, stamp))

airplay_rtsp_teardown(c) ==
    /\ Request(c)
    /\ stream' = IF owner = c THEN Ended ELSE stream
    /\ owner' = IF owner = c THEN None ELSE owner
    /\ Respond(c)
    /\ UNCHANGED clients

airplay_rtsp_pause(c) == OwnerUpdate(c, Paused)

airplay_rtsp_record(c, has, stamp) ==
    /\ ~(clients[c].encrypted /\ clients[c].event_listener)
    /\ OwnerUpdate(c, IF stream.has_session THEN Recorded(has, stamp) ELSE stream)

----------------------------------------------------------------------------
(* AirPlay 2 handlers (airplay2.c, pairing.c, fairplay.c). *)
airplay2_info(c) == Reply(c)
airplay2_feedback(c) == Reply(c)
airplay2_acknowledge(c) == Reply(c)

SetClient(c, record) ==
    /\ Request(c)
    /\ clients' = [clients EXCEPT ![c] = record]
    /\ UNCHANGED <<stream, owner>>

airplay2_fairplay_setup(c) ==
    /\ \E stage \in {1} \cup (IF clients[c].fairplay_stage = 1 THEN {2} ELSE {}) :
          SetClient(c, [clients[c] EXCEPT !.fairplay_stage = stage])
    /\ Respond(c)

(* pairing_setup: M1 starts SRP afresh, M3 proves the PIN, a refused step  *)
(* discards the exchange; an established pairing accepts none of them.     *)
PairingStep(c) ==
    CASE clients[c].pairing = "established" -> {"established"}
      [] clients[c].pairing = "srp"         -> {"srp", "none", "established"}
      [] OTHER                              -> {"srp", "none"}

(* The response that completes pairing is sent in clear; the connection is *)
(* encrypted only if it was sent, and closed when bytes already follow it. *)
airplay2_pair_setup(c) ==
    \E step \in PairingStep(c), sent \in BOOLEAN :
        LET encrypts == ~clients[c].encrypted /\ sent /\ step = "established" IN
        /\ SetClient(c, [clients[c] EXCEPT !.pairing = step, !.encrypted = @ \/ encrypts])
        /\ closing' \in IF ~sent THEN {c} ELSE IF encrypts THEN {None, c} ELSE {None}

(* Mutant of Authorized: the encrypted channel is not required. *)
AuthorizedAlways(c) == TRUE

(* open_encrypted_plist: AirPlay 2 requests need an encrypted connection.  *)
Authorized(c) == clients[c].encrypted

(* The initial SETUP opens the event listener. *)
airplay2_setup_initial(c) ==
    /\ Authorized(c)
    /\ SetClient(c, [clients[c] EXCEPT !.event_listener = TRUE])
    /\ Respond(c)

(* A stream SETUP replaces the session, records and takes the stream over. *)
airplay2_setup_stream(c, type) ==
    /\ Authorized(c)
    /\ TakeOver(c, SetUp2(clients[c].peer, type))

airplay2_set_rate_anchor_time(c, rate) ==
    /\ Authorized(c)
    /\ OwnerUpdate(c, Anchored(rate))

airplay2_record(c) ==
    /\ clients[c].encrypted /\ clients[c].event_listener
    /\ OwnerUpdate(c, IF stream.has_session THEN Recorded(FALSE, 0) ELSE stream)

airplay2_flush_buffered(c) ==
    /\ Authorized(c)
    /\ stream.flush_generation < MaxFlush
    /\ OwnerUpdate(c, FlushedBuffered)

----------------------------------------------------------------------------
(* rtsp_server_poll: connections, the event channel and disconnects.       *)
(* The code takes the first free slot; when there is none it closes the    *)
(* new connection.                                                         *)
Accept(p) ==
    /\ closing = None
    /\ \E c \in Clients :
          /\ ~clients[c].open
          /\ clients' = [clients EXCEPT ![c] = [ClosedClient EXCEPT !.open = TRUE, !.peer = p]]
    /\ UNCHANGED <<stream, owner, closing>>

(* A connection to the event listener is kept when it is from the peer.    *)
AcceptEvent(c, p) ==
    /\ Request(c)
    /\ clients[c].event_listener
    /\ clients' = IF p = clients[c].peer THEN [clients EXCEPT ![c].event_client = TRUE]
                                         ELSE clients
    /\ UNCHANGED <<stream, owner, closing>>

EventClosed(c) ==
    /\ Request(c)
    /\ clients[c].event_client
    /\ clients' = [clients EXCEPT ![c].event_client = FALSE]
    /\ UNCHANGED <<stream, owner, closing>>

(* End of file, a receive error, a bad record or a malformed request.      *)
Disconnect(c) ==
    /\ Request(c)
    /\ closing' = c
    /\ UNCHANGED <<clients, stream, owner>>

(* Mutants of close_client: the session of a lost owner goes on; the       *)
(* generation stays.                                                       *)
close_client_only ==
    /\ closing # None
    /\ clients' = [clients EXCEPT ![closing] = ClosedClient]
    /\ closing' = None
    /\ UNCHANGED <<stream, owner>>

close_client_quietly ==
    /\ closing # None
    /\ stream' = IF owner = closing THEN [Ended EXCEPT !.generation = stream.generation]
                                    ELSE stream
    /\ owner' = IF owner = closing THEN None ELSE owner
    /\ clients' = [clients EXCEPT ![closing] = ClosedClient]
    /\ closing' = None

close_client ==
    /\ closing # None
    /\ stream' = IF owner = closing THEN Ended ELSE stream
    /\ owner' = IF owner = closing THEN None ELSE owner
    /\ clients' = [clients EXCEPT ![closing] = ClosedClient]
    /\ closing' = None

HandleRequest(c) ==
    \/ airplay_rtsp_options(c)
    \/ airplay_rtsp_describe(c)
    \/ airplay_rtsp_post(c)
    \/ airplay_rtsp_get_parameter(c)
    \/ airplay_rtsp_play(c)
    \/ airplay_rtsp_announce(c)
    \/ airplay_rtsp_setup(c)
    \/ \E v \in Volumes : airplay_rtsp_set_parameter(c, v)
    \/ \E has \in BOOLEAN, t \in Stamps : airplay_rtsp_flush(c, has, t)
    \/ airplay_rtsp_teardown(c)
    \/ airplay_rtsp_pause(c)
    \/ \E has \in BOOLEAN, t \in Stamps : airplay_rtsp_record(c, has, t)
    \/ airplay2_info(c)
    \/ airplay2_feedback(c)
    \/ airplay2_acknowledge(c)
    \/ airplay2_fairplay_setup(c)
    \/ airplay2_pair_setup(c)
    \/ airplay2_setup_initial(c)
    \/ \E type \in {Realtime, Buffered} : airplay2_setup_stream(c, type)
    \/ \E rate \in {0, 1} : airplay2_set_rate_anchor_time(c, rate)
    \/ airplay2_record(c)
    \/ airplay2_flush_buffered(c)

Next ==
    \/ \E p \in Peers : Accept(p)
    \/ \E c \in Clients, p \in Peers : AcceptEvent(c, p)
    \/ \E c \in Clients : HandleRequest(c) \/ EventClosed(c) \/ Disconnect(c)
    \/ close_client

Spec == Init /\ [][Next]_vars

----------------------------------------------------------------------------
ClientType ==
    [open : BOOLEAN, peer : Peers \cup {None}, encrypted : BOOLEAN,
     pairing : {"none", "srp", "established"}, fairplay_stage : 0 .. 2,
     event_listener : BOOLEAN, event_client : BOOLEAN]

(* The control state keeps its C types. *)
TypeOK ==
    /\ clients \in [Clients -> ClientType]
    /\ stream \in StreamType
    /\ owner \in Clients \cup {None}
    /\ closing \in Clients \cup {None}

(* The stream never outlives its owner and is never orphaned: there is a   *)
(* session exactly while a connected client owns it, whatever mix of       *)
(* takeovers, teardowns, failed responses and disconnects happened.        *)
SessionOwned ==
    /\ stream.has_session <=> owner # None
    /\ stream.recording => stream.has_session
    /\ owner # None => clients[owner].open

(* An AirPlay 2 stream, whose key came over the encrypted channel, is only *)
(* ever owned by a client whose channel is encrypted.                      *)
KeyedStreamAuthorized ==
    owner # None /\ stream.session.type # 0
        => clients[owner].encrypted /\ clients[owner].pairing = "established"

(* Audio and timing packets are accepted from timing_peer: it is the peer  *)
(* of the client that owns the stream, never that of an earlier owner.     *)
PeerOfOwner ==
    owner # None => stream.timing_peer \in {None, clients[owner].peer}

(* A slot that is reused starts from nothing: a free slot keeps no keys,   *)
(* no pairing and no event sockets of the client before.                   *)
FreeSlotsClean ==
    \A c \in Clients : ~clients[c].open => clients[c] = ClosedClient

(* The owner changes only together with the generation, so the audio       *)
(* thread never attributes one client's session to another.                *)
OwnerChangeVisible ==
    [][owner' # owner => stream'.generation > stream.generation]_vars
=============================================================================

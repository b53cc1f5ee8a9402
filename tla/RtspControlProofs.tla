------------------------- MODULE RtspControlProofs -------------------------
(***************************************************************************)
(* Proofs about RtspControl, for any number of client slots, any peers and *)
(* any bounds: ownership, authorisation, slot reuse, and the refinement of *)
(* StreamSpec by the control thread.                                       *)
(***************************************************************************)
EXTENDS RtspControl, StreamStateProofs

(* What the invariants rest on: a connected client has an address, an      *)
(* encrypted channel comes from a completed pairing, and the client that   *)
(* is being closed is still connected.                                     *)
Connected ==
    /\ \A c \in Clients : clients[c].open => clients[c].peer \in Peers
    /\ \A c \in Clients : clients[c].encrypted => clients[c].pairing = "established"
    /\ closing # None => clients[closing].open

Inv ==
    /\ TypeOK
    /\ Connected
    /\ SessionOwned
    /\ KeyedStreamAuthorized
    /\ PeerOfOwner
    /\ FreeSlotsClean

----------------------------------------------------------------------------
(* What an update by the owner leaves alone: u is the stream after the     *)
(* request of a client with address p.                                     *)
Harmless(u, p) ==
    /\ u \in StreamType
    /\ u.session = stream.session
    /\ u.has_session = stream.has_session
    /\ u.recording => stream.recording \/ stream.has_session
    /\ u.timing_peer \in {stream.timing_peer, p}

(* The updates of PAUSE, FLUSH, RECORD, SETUP, SETRATEANCHORTIME and       *)
(* FLUSHBUFFERED are of that kind.                                         *)
LEMMA HarmlessUpdates ==
    ASSUME stream \in StreamType, NEW p \in Peers, NEW has \in BOOLEAN,
           NEW t \in Stamps, NEW rate \in {0, 1}
    PROVE  /\ Harmless(stream, p)
           /\ Harmless(Transported(p), p)
           /\ Harmless(Paused, p)
           /\ Harmless(Flushed(has, t), p)
           /\ Harmless(FlushedBuffered, p)
           /\ Harmless(Anchored(rate), p)
<1>1. Harmless(stream, p)
  BY DEF Harmless
<1>2. Harmless(Transported(p), p)
  <2>1. Transported(p) \in StreamType
    BY TransportedType
  <2>2. /\ Transported(p).session = stream.session
        /\ Transported(p).has_session = stream.has_session
        /\ Transported(p).recording = stream.recording
        /\ Transported(p).timing_peer = p
    BY DEF Transported, StreamType
  <2> QED BY <2>1, <2>2 DEF Harmless
<1>3. Harmless(Paused, p)
  <2>1. Paused \in StreamType
    BY PausedType
  <2>2. /\ Paused.session = stream.session
        /\ Paused.has_session = stream.has_session
        /\ Paused.recording = FALSE
        /\ Paused.timing_peer = stream.timing_peer
    BY DEF Paused, StreamType
  <2> QED BY <2>1, <2>2 DEF Harmless
<1>4. Harmless(Flushed(has, t), p)
  <2>1. Flushed(has, t) \in StreamType
    BY FlushedType
  <2>2. /\ Flushed(has, t).session = stream.session
        /\ Flushed(has, t).has_session = stream.has_session
        /\ Flushed(has, t).recording = stream.recording
        /\ Flushed(has, t).timing_peer = stream.timing_peer
    BY DEF Flushed, StreamType
  <2> QED BY <2>1, <2>2 DEF Harmless
<1>5. Harmless(FlushedBuffered, p)
  <2>1. FlushedBuffered \in StreamType
    BY FlushedBufferedType
  <2>2. /\ FlushedBuffered.session = stream.session
        /\ FlushedBuffered.has_session = stream.has_session
        /\ FlushedBuffered.recording = stream.recording
        /\ FlushedBuffered.timing_peer = stream.timing_peer
    BY DEF FlushedBuffered, StreamType
  <2> QED BY <2>1, <2>2 DEF Harmless
<1>6. Harmless(Anchored(rate), p)
  <2>1. Anchored(rate) \in StreamType
    BY AnchoredType
  <2>2. /\ Anchored(rate).session = stream.session
        /\ Anchored(rate).has_session = stream.has_session
        /\ Anchored(rate).recording = stream.recording
        /\ Anchored(rate).timing_peer = stream.timing_peer
    BY DEF Anchored, StreamType
  <2> QED BY <2>1, <2>2 DEF Harmless
<1> QED BY <1>1, <1>2, <1>3, <1>4, <1>5, <1>6

(* RECORD turns recording on only while there is a session.                *)
LEMMA HarmlessRecord ==
    ASSUME stream \in StreamType, NEW p \in Peers, NEW has \in BOOLEAN,
           NEW t \in Nat
    PROVE  Harmless(IF stream.has_session THEN Recorded(has, t) ELSE stream, p)
<1>1. CASE stream.has_session
  <2>1. Recorded(has, t) \in StreamType
    BY RecordedType
  <2>2. /\ Recorded(has, t).session = stream.session
        /\ Recorded(has, t).has_session = stream.has_session
        /\ Recorded(has, t).timing_peer = stream.timing_peer
    BY DEF Recorded, StreamType
  <2> QED BY <1>1, <2>1, <2>2 DEF Harmless
<1>2. CASE ~stream.has_session
  BY <1>2 DEF Harmless
<1> QED BY <1>1, <1>2

----------------------------------------------------------------------------
(* A request of the owner with a harmless update keeps the invariant.      *)
LEMMA UpdateStep ==
    ASSUME Inv, NEW c \in Clients, NEW u, Harmless(u, clients[c].peer), OwnerUpdate(c, u)
    PROVE  Inv'
<1> USE DEF Inv, OwnerUpdate, Request, Respond, Harmless
<1>1. TypeOK'
  BY DEF TypeOK
<1>2. Connected'
  BY ClientsAssumption DEF Connected
<1>3. SessionOwned'
  BY ClientsAssumption DEF SessionOwned
<1>4. KeyedStreamAuthorized'
  BY DEF KeyedStreamAuthorized
<1>5. PeerOfOwner'
  BY DEF PeerOfOwner
<1>6. FreeSlotsClean'
  BY DEF FreeSlotsClean
<1> QED BY <1>1, <1>2, <1>3, <1>4, <1>5, <1>6

(* A step of one connected client's pairing, FairPlay or event state keeps *)
(* the invariant when it neither leaves the channel nor fakes a pairing.   *)
LEMMA ClientStep ==
    ASSUME Inv, NEW c \in Clients, NEW r \in ClientType,
           closing = None, clients[c].open,
           r.open, r.peer = clients[c].peer,
           clients[c].encrypted => r.encrypted,
           r.encrypted => r.pairing = "established",
           clients' = [clients EXCEPT ![c] = r],
           UNCHANGED <<stream, owner>>, closing' \in {None, c}
    PROVE  Inv'
<1> USE DEF Inv
<1>1. TypeOK'
  BY DEF TypeOK
<1>2. \A d \in Clients : clients'[d] = IF d = c THEN r ELSE clients[d]
  BY DEF TypeOK
<1>3. owner \in Clients \cup {None}
  BY DEF TypeOK
<1>4. Connected'
  BY <1>2, ClientsAssumption DEF Connected
<1>5. SessionOwned'
  BY <1>2, <1>3 DEF SessionOwned
<1>6. KeyedStreamAuthorized'
  BY <1>2, <1>3 DEF KeyedStreamAuthorized
<1>7. PeerOfOwner'
  BY <1>2, <1>3 DEF PeerOfOwner
<1>8. FreeSlotsClean'
  BY <1>2 DEF FreeSlotsClean
<1> QED BY <1>1, <1>4, <1>5, <1>6, <1>7, <1>8

(* A takeover keeps the invariant when the new stream accepts only the new *)
(* owner's address and a keyed one needs an encrypted channel.             *)
LEMMA TakeOverStep ==
    ASSUME Inv, NEW c \in Clients, NEW u \in StreamType,
           u.has_session = TRUE,
           u.timing_peer \in {None, clients[c].peer},
           u.session.type # 0 => clients[c].encrypted,
           TakeOver(c, u)
    PROVE  Inv'
<1> USE DEF Inv, TakeOver, Request, Respond
<1>1. TypeOK'
  BY DEF TypeOK
<1>2. Connected'
  BY ClientsAssumption DEF Connected
<1>3. SessionOwned'
  BY ClientsAssumption DEF SessionOwned
<1>4. KeyedStreamAuthorized'
  BY DEF KeyedStreamAuthorized, Connected
<1>5. PeerOfOwner'
  BY DEF PeerOfOwner
<1>6. FreeSlotsClean'
  BY DEF FreeSlotsClean
<1> QED BY <1>1, <1>2, <1>3, <1>4, <1>5, <1>6

(* What the three updates that begin or end a session set.                 *)
LEMMA SessionUpdates ==
    ASSUME stream \in StreamType, NEW p \in Peers, NEW type \in {Realtime, Buffered}
    PROVE  /\ Announced.has_session = TRUE
           /\ Announced.timing_peer = None
           /\ Announced.session.type = 0
           /\ SetUp2(p, type).has_session = TRUE
           /\ SetUp2(p, type).timing_peer = p
           /\ Ended.has_session = FALSE
           /\ Ended.recording = FALSE
<1>1. Announced.has_session = TRUE /\ Announced.timing_peer = None
        /\ Announced.session.type = 0
  BY DEF Announced, StreamType
<1>2. SetUp2(p, type).has_session = TRUE /\ SetUp2(p, type).timing_peer = p
  BY DEF SetUp2, StreamType
<1>3. Ended.has_session = FALSE /\ Ended.recording = FALSE
  BY DEF Ended, StreamType
<1> QED BY <1>1, <1>2, <1>3

(* TEARDOWN by any client. *)
LEMMA TeardownStep ==
    ASSUME Inv, NEW c \in Clients, airplay_rtsp_teardown(c)
    PROVE  Inv'
<1> USE DEF Inv, airplay_rtsp_teardown, Request, Respond
<1>1. Ended \in StreamType
  BY EndedType DEF TypeOK
<1>2. Ended.has_session = FALSE /\ Ended.recording = FALSE
  BY DEF Ended, StreamType, TypeOK
<1>3. TypeOK'
  BY <1>1 DEF TypeOK
<1>4. Connected'
  BY ClientsAssumption DEF Connected
<1>5. SessionOwned'
  BY <1>2 DEF SessionOwned
<1>6. KeyedStreamAuthorized' /\ PeerOfOwner'
  BY DEF KeyedStreamAuthorized, PeerOfOwner
<1>7. FreeSlotsClean'
  BY DEF FreeSlotsClean
<1> QED BY <1>3, <1>4, <1>5, <1>6, <1>7

(* close_client, the owner's or another one's. *)
LEMMA CloseStep ==
    ASSUME Inv, close_client
    PROVE  Inv'
<1> USE DEF Inv, close_client
<1>1. Ended \in StreamType
  BY EndedType DEF TypeOK
<1>2. Ended.has_session = FALSE /\ Ended.recording = FALSE
  BY DEF Ended, StreamType, TypeOK
<1>3. ClosedClient \in ClientType
  BY DEF ClosedClient, ClientType
<1>4. closing \in Clients /\ owner \in Clients \cup {None}
  BY DEF TypeOK
<1>5. \A d \in Clients : clients'[d] = IF d = closing THEN ClosedClient ELSE clients[d]
  BY DEF TypeOK
<1>6. ~ClosedClient.open /\ ~ClosedClient.encrypted
  BY DEF ClosedClient
<1>7. TypeOK'
  BY <1>1, <1>3, <1>4 DEF TypeOK
<1>8. Connected'
  BY <1>4, <1>5, <1>6 DEF Connected
<1>9. SessionOwned'
  BY <1>2, <1>4, <1>5 DEF SessionOwned
<1>10. KeyedStreamAuthorized'
  BY <1>4, <1>5 DEF KeyedStreamAuthorized
<1>11. PeerOfOwner'
  BY <1>4, <1>5 DEF PeerOfOwner
<1>12. FreeSlotsClean'
  BY <1>5 DEF FreeSlotsClean
<1> QED BY <1>7, <1>8, <1>9, <1>10, <1>11, <1>12

----------------------------------------------------------------------------
(* Every request that is handled keeps the invariant. *)
LEMMA RequestStep ==
    ASSUME Inv, NEW c \in Clients, HandleRequest(c)
    PROVE  Inv'
<1> DEFINE p == clients[c].peer
<1>0. stream \in StreamType /\ clients[c] \in ClientType
  BY DEF Inv, TypeOK
<1>1. ASSUME Request(c) PROVE p \in Peers
  BY <1>1 DEF Inv, Connected, Request
<1>2. ASSUME Reply(c) PROVE Inv'
  <2>1. OwnerUpdate(c, stream)
    BY <1>2 DEF Reply, OwnerUpdate
  <2>2. Harmless(stream, p)
    BY <1>0 DEF Harmless
  <2> QED BY <2>1, <2>2, UpdateStep
<1>3. CASE airplay_rtsp_announce(c)
  <2>1. Announced \in StreamType
    BY <1>0, AnnouncedType
  <2>2. Announced.has_session = TRUE /\ Announced.timing_peer = None
          /\ Announced.session.type = 0
    BY <1>0 DEF Announced, StreamType
  <2> QED BY <1>3, <2>1, <2>2, TakeOverStep DEF airplay_rtsp_announce
<1>4. CASE airplay_rtsp_setup(c)
  <2>1. p \in Peers
    BY <1>1, <1>4 DEF airplay_rtsp_setup, OwnerUpdate
  <2>2. Harmless(Transported(p), p)
    <3>1. Stamps # {}
      BY StampsAssumption
    <3> QED BY <1>0, <2>1, <3>1, HarmlessUpdates
  <2> QED BY <1>4, <2>2, UpdateStep DEF airplay_rtsp_setup
<1>5. ASSUME NEW v \in Volumes, airplay_rtsp_set_parameter(c, v)
      PROVE  Inv'
  <2>1. Loud(v) \in StreamType
    BY <1>0, LoudType
  <2>2. /\ Loud(v).session = stream.session
        /\ Loud(v).has_session = stream.has_session
        /\ Loud(v).recording = stream.recording
        /\ Loud(v).timing_peer = stream.timing_peer
    BY <1>0 DEF Loud, StreamType
  <2> USE <1>5, <2>1, <2>2 DEF Inv, airplay_rtsp_set_parameter, Request, Respond
  <2>3. TypeOK'
    BY DEF TypeOK
  <2>4. Connected'
    BY ClientsAssumption DEF Connected
  <2>5. SessionOwned'
    BY DEF SessionOwned
  <2>6. KeyedStreamAuthorized' /\ PeerOfOwner'
    BY DEF KeyedStreamAuthorized, PeerOfOwner
  <2>7. FreeSlotsClean'
    BY DEF FreeSlotsClean
  <2> QED BY <2>3, <2>4, <2>5, <2>6, <2>7
<1>6. ASSUME NEW has \in BOOLEAN, NEW t \in Stamps, airplay_rtsp_flush(c, has, t)
      PROVE  Inv'
  <2>1. p \in Peers
    BY <1>1, <1>6 DEF airplay_rtsp_flush, OwnerUpdate
  <2>2. Harmless(Flushed(has, t), p)
    BY <1>0, <2>1, HarmlessUpdates
  <2> QED BY <1>6, <2>2, UpdateStep DEF airplay_rtsp_flush
<1>7. CASE airplay_rtsp_teardown(c)
  BY <1>7, TeardownStep
<1>8. CASE airplay_rtsp_pause(c)
  <2>1. p \in Peers
    BY <1>1, <1>8 DEF airplay_rtsp_pause, OwnerUpdate
  <2>2. Harmless(Paused, p)
    BY <1>0, <2>1, StampsAssumption, HarmlessUpdates
  <2> QED BY <1>8, <2>2, UpdateStep DEF airplay_rtsp_pause
<1>9. ASSUME NEW has \in BOOLEAN, NEW t \in Stamps, airplay_rtsp_record(c, has, t)
      PROVE  Inv'
  <2>1. p \in Peers
    BY <1>1, <1>9 DEF airplay_rtsp_record, OwnerUpdate
  <2>2. Harmless(IF stream.has_session THEN Recorded(has, t) ELSE stream, p)
    BY <1>0, <2>1, StampsAssumption, HarmlessRecord
  <2> QED BY <1>9, <2>2, UpdateStep DEF airplay_rtsp_record
<1>10. CASE airplay2_fairplay_setup(c)
  <2>1. PICK stage \in {1, 2} :
            SetClient(c, [clients[c] EXCEPT !.fairplay_stage = stage])
    BY <1>10 DEF airplay2_fairplay_setup
  <2> DEFINE r == [clients[c] EXCEPT !.fairplay_stage = stage]
  <2>2. r \in ClientType
    BY <1>0 DEF ClientType
  <2>3. /\ r.open = clients[c].open /\ r.peer = clients[c].peer
        /\ r.encrypted = clients[c].encrypted /\ r.pairing = clients[c].pairing
    BY <1>0 DEF ClientType
  <2>4. closing' \in {None, c}
    BY <1>10 DEF airplay2_fairplay_setup, Respond
  <2>5. clients[c].encrypted => clients[c].pairing = "established"
    BY DEF Inv, Connected
  <2> HIDE DEF r
  <2> QED BY <2>1, <2>2, <2>3, <2>4, <2>5, ClientStep DEF SetClient, Request, r
<1>11. CASE airplay2_pair_setup(c)
  <2>1. PICK step \in PairingStep(c), sent \in BOOLEAN :
            LET encrypts == ~clients[c].encrypted /\ sent /\ step = "established" IN
            /\ SetClient(c, [clients[c] EXCEPT !.pairing = step, !.encrypted = @ \/ encrypts])
            /\ closing' \in IF ~sent THEN {c} ELSE IF encrypts THEN {None, c} ELSE {None}
    BY <1>11 DEF airplay2_pair_setup
  <2> DEFINE e == ~clients[c].encrypted /\ sent /\ step = "established"
             r == [clients[c] EXCEPT !.pairing = step, !.encrypted = @ \/ e]
  <2>2. step \in {"none", "srp", "established"}
    BY DEF PairingStep
  <2>3. clients[c].encrypted => step = "established"
    BY DEF Inv, Connected, PairingStep
  <2>4. (clients[c].encrypted \/ e) \in BOOLEAN
    OBVIOUS
  <2>5. r \in ClientType
    BY <1>0, <2>2, <2>4, Zenon DEF ClientType
  <2>6. /\ r.open = clients[c].open /\ r.peer = clients[c].peer /\ r.pairing = step
        /\ r.encrypted = (clients[c].encrypted \/ e)
    BY <1>0 DEF ClientType
  <2>7. closing' \in {None, c}
    BY <2>1
  <2>8. SetClient(c, r)
    BY <2>1
  <2> HIDE DEF r
  <2> QED BY <2>3, <2>5, <2>6, <2>7, <2>8, ClientStep DEF SetClient, Request
<1>12. CASE airplay2_setup_initial(c)
  <2> DEFINE r == [clients[c] EXCEPT !.event_listener = TRUE]
  <2>1. r \in ClientType
    BY <1>0 DEF ClientType
  <2>2. /\ r.open = clients[c].open /\ r.peer = clients[c].peer
        /\ r.encrypted = clients[c].encrypted /\ r.pairing = clients[c].pairing
    BY <1>0 DEF ClientType
  <2>3. SetClient(c, r) /\ closing' \in {None, c}
    BY <1>12 DEF airplay2_setup_initial, Respond
  <2>4. clients[c].encrypted => clients[c].pairing = "established"
    BY DEF Inv, Connected
  <2> HIDE DEF r
  <2> QED BY <2>1, <2>2, <2>3, <2>4, ClientStep DEF SetClient, Request
<1>13. ASSUME NEW type \in {Realtime, Buffered}, airplay2_setup_stream(c, type)
       PROVE  Inv'
  <2>1. p \in Peers
    BY <1>1, <1>13 DEF airplay2_setup_stream, TakeOver
  <2>2. SetUp2(p, type) \in StreamType
    BY <1>0, <2>1, SetUp2Type
  <2>3. SetUp2(p, type).has_session = TRUE /\ SetUp2(p, type).timing_peer = p
    BY <1>0, <2>1, SessionUpdates
  <2> QED BY <1>13, <2>2, <2>3, TakeOverStep DEF airplay2_setup_stream, Authorized
<1>14. ASSUME NEW rate \in {0, 1}, airplay2_set_rate_anchor_time(c, rate)
       PROVE  Inv'
  <2>1. p \in Peers
    BY <1>1, <1>14 DEF airplay2_set_rate_anchor_time, OwnerUpdate
  <2>2. Harmless(Anchored(rate), p)
    BY <1>0, <2>1, StampsAssumption, HarmlessUpdates
  <2> QED BY <1>14, <2>2, UpdateStep DEF airplay2_set_rate_anchor_time
<1>15. CASE airplay2_record(c)
  <2>1. p \in Peers
    BY <1>1, <1>15 DEF airplay2_record, OwnerUpdate
  <2>2. Harmless(IF stream.has_session THEN Recorded(FALSE, 0) ELSE stream, p)
    BY <1>0, <2>1, HarmlessRecord
  <2> QED BY <1>15, <2>2, UpdateStep DEF airplay2_record
<1>16. CASE airplay2_flush_buffered(c)
  <2>1. p \in Peers
    BY <1>1, <1>16 DEF airplay2_flush_buffered, OwnerUpdate
  <2>2. Harmless(FlushedBuffered, p)
    BY <1>0, <2>1, StampsAssumption, HarmlessUpdates
  <2> QED BY <1>16, <2>2, UpdateStep DEF airplay2_flush_buffered
<1> QED BY <1>2, <1>3, <1>4, <1>5, <1>6, <1>7, <1>8, <1>9, <1>10, <1>11, <1>12, <1>13,
           <1>14, <1>15, <1>16
        DEF HandleRequest, airplay_rtsp_options, airplay_rtsp_describe, airplay_rtsp_post,
            airplay_rtsp_get_parameter, airplay_rtsp_play, airplay2_info,
            airplay2_feedback, airplay2_acknowledge

(* Connections, event sockets and disconnects keep the invariant. *)
LEMMA PollStep ==
    ASSUME Inv, Next
    PROVE  Inv'
<1>1. ASSUME NEW p \in Peers, Accept(p)
      PROVE  Inv'
  <2> DEFINE r == [ClosedClient EXCEPT !.open = TRUE, !.peer = p]
  <2>1. PICK c \in Clients : ~clients[c].open /\ clients' = [clients EXCEPT ![c] = r]
    BY <1>1 DEF Accept
  <2>2. r.open = TRUE /\ r.peer = p /\ r.encrypted = FALSE
    BY DEF ClosedClient
  <2>a. ClosedClient \in ClientType
    BY DEF ClosedClient, ClientType
  <2>b. r \in ClientType
    BY <2>a, Zenon DEF ClientType
  <2> HIDE DEF r
  <2>3. \A d \in Clients : clients'[d] = IF d = c THEN r ELSE clients[d]
    BY <2>1 DEF Inv, TypeOK
  <2>4. owner \in Clients \cup {None} /\ owner # c /\ closing = None
    BY <1>1, <2>1, ClientsAssumption DEF Inv, TypeOK, SessionOwned, Accept
  <2> USE <1>1 DEF Inv, Accept
  <2>5. TypeOK'
    BY <2>1, <2>b DEF TypeOK
  <2>6. Connected'
    BY <2>2, <2>3, <2>4 DEF Connected
  <2>7. SessionOwned'
    BY <2>3, <2>4 DEF SessionOwned
  <2>8. KeyedStreamAuthorized' /\ PeerOfOwner'
    BY <2>3, <2>4 DEF KeyedStreamAuthorized, PeerOfOwner
  <2>9. FreeSlotsClean'
    BY <2>2, <2>3 DEF FreeSlotsClean
  <2> QED BY <2>5, <2>6, <2>7, <2>8, <2>9
<1>2. ASSUME NEW c \in Clients, NEW e \in BOOLEAN, Request(c),
             clients' = [clients EXCEPT ![c].event_client = e],
             UNCHANGED <<stream, owner, closing>>
      PROVE  Inv'
  <2> DEFINE r == [clients[c] EXCEPT !.event_client = e]
  <2>1. clients[c] \in ClientType
    BY DEF Inv, TypeOK
  <2>2. r \in ClientType
    BY <2>1 DEF ClientType
  <2>3. /\ r.open = clients[c].open /\ r.peer = clients[c].peer
        /\ r.encrypted = clients[c].encrypted /\ r.pairing = clients[c].pairing
    BY <2>1 DEF ClientType
  <2>4. clients' = [clients EXCEPT ![c] = r]
    BY <1>2
  <2>5. clients[c].encrypted => clients[c].pairing = "established"
    BY DEF Inv, Connected
  <2> HIDE DEF r
  <2> QED BY <1>2, <2>2, <2>3, <2>4, <2>5, ClientStep DEF Request
<1>3. ASSUME NEW c \in Clients, UNCHANGED <<clients, stream, owner>>,
             closing' \in {closing, c}, clients[c].open
      PROVE  Inv'
  BY <1>3 DEF Inv, TypeOK, Connected, SessionOwned, KeyedStreamAuthorized, PeerOfOwner,
              FreeSlotsClean
<1>4. ASSUME NEW c \in Clients, NEW p \in Peers, AcceptEvent(c, p)
      PROVE  Inv'
  <2>1. CASE p = clients[c].peer
    BY <1>2, <1>4, <2>1 DEF AcceptEvent
  <2>2. CASE p # clients[c].peer
    BY <1>3, <1>4, <2>2 DEF AcceptEvent, Request
  <2> QED BY <2>1, <2>2
<1>5. ASSUME NEW c \in Clients, EventClosed(c)
      PROVE  Inv'
  BY <1>2, <1>5 DEF EventClosed
<1>6. ASSUME NEW c \in Clients, Disconnect(c)
      PROVE  Inv'
  BY <1>3, <1>6 DEF Disconnect, Request
<1> QED BY <1>1, <1>4, <1>5, <1>6, RequestStep, CloseStep DEF Next

----------------------------------------------------------------------------
(* The inductive invariant holds throughout. *)
LEMMA Invariance == Spec => []Inv
<1>1. Init => Inv
  <2> SUFFICES ASSUME Init PROVE Inv
    OBVIOUS
  <2>1. ClosedClient \in ClientType
    BY DEF ClosedClient, ClientType
  <2>2. \A c \in Clients : clients[c] = ClosedClient
    BY DEF Init
  <2>3. ~ClosedClient.open /\ ~ClosedClient.encrypted
    BY DEF ClosedClient
  <2>4. TypeOK
    BY <2>1, EmptyStreamType DEF Init, StreamInit, TypeOK
  <2>5. ~stream.has_session /\ ~stream.recording
    BY DEF Init, StreamInit, EmptyStream
  <2>6. Connected
    BY <2>2, <2>3 DEF Init, Connected
  <2>7. SessionOwned
    BY <2>5 DEF Init, SessionOwned
  <2>8. KeyedStreamAuthorized /\ PeerOfOwner
    BY DEF Init, KeyedStreamAuthorized, PeerOfOwner
  <2>9. FreeSlotsClean
    BY <2>2 DEF FreeSlotsClean
  <2> QED BY <2>4, <2>6, <2>7, <2>8, <2>9 DEF Inv
<1>2. Inv /\ UNCHANGED vars => Inv'
  BY DEF Inv, vars, TypeOK, Connected, SessionOwned, KeyedStreamAuthorized, PeerOfOwner,
         FreeSlotsClean
<1>3. Inv /\ [Next]_vars => Inv'
  BY <1>2, PollStep
<1> QED BY <1>1, <1>3, PTL DEF Spec

(* Every handler and every disconnect leaves the client slots and the      *)
(* stream with their types.                                                *)
THEOREM ControlTypeCorrect == Spec => []TypeOK
BY Invariance, PTL DEF Inv

(* There is a session exactly while a connected client owns it, for any    *)
(* number of clients taking it over, failing to be answered and leaving.   *)
THEOREM Ownership == Spec => []SessionOwned
BY Invariance, PTL DEF Inv

(* The owner of an AirPlay 2 stream has completed pairing and talks over   *)
(* the encrypted channel.                                                  *)
THEOREM Authorization == Spec => []KeyedStreamAuthorized
BY Invariance, PTL DEF Inv

(* The only address whose packets the audio thread takes is the owner's.   *)
THEOREM PeerIsTheOwners == Spec => []PeerOfOwner
BY Invariance, PTL DEF Inv

(* accept_clients finds no trace of the previous client in a free slot.    *)
THEOREM SlotsReusedClean == Spec => []FreeSlotsClean
BY Invariance, PTL DEF Inv

----------------------------------------------------------------------------
(* Every step of the control thread is a step of the stream or leaves it   *)
(* alone: only the owner's requests change a session, so there is one.     *)
LEMMA StreamStep ==
    ASSUME Inv, Next
    PROVE  StreamNext \/ UNCHANGED stream
<1>1. ASSUME NEW c \in Clients, HandleRequest(c)
      PROVE  StreamNext \/ UNCHANGED stream
  <2>1. ASSUME owner = c PROVE stream.has_session
    BY <2>1, ClientsAssumption DEF Inv, SessionOwned
  <2>2. ASSUME Request(c) PROVE clients[c].peer \in Peers
    BY <2>2 DEF Inv, Connected, Request
  <2>3. ASSUME Reply(c) PROVE UNCHANGED stream
    BY <2>3 DEF Reply
  <2>4. CASE airplay_rtsp_announce(c)
    BY <2>4 DEF airplay_rtsp_announce, TakeOver, StreamNext, NewSession
  <2>5. CASE airplay_rtsp_setup(c)
    BY <2>1, <2>2, <2>5 DEF airplay_rtsp_setup, OwnerUpdate, StreamNext, Transport
  <2>6. CASE \E v \in Volumes : airplay_rtsp_set_parameter(c, v)
    BY <2>6 DEF airplay_rtsp_set_parameter, StreamNext, Volume
  <2>7. CASE \E has \in BOOLEAN, t \in Stamps : airplay_rtsp_flush(c, has, t)
    BY <2>1, <2>7 DEF airplay_rtsp_flush, OwnerUpdate, StreamNext, Flush
  <2>8. CASE airplay_rtsp_teardown(c)
    BY <2>1, <2>8 DEF airplay_rtsp_teardown, StreamNext, End
  <2>9. CASE airplay_rtsp_pause(c)
    BY <2>1, <2>9 DEF airplay_rtsp_pause, OwnerUpdate, StreamNext, Pause
  <2>10. CASE \E has \in BOOLEAN, t \in Stamps : airplay_rtsp_record(c, has, t)
    BY <2>10 DEF airplay_rtsp_record, OwnerUpdate, StreamNext, Record
  <2>11. CASE airplay2_fairplay_setup(c) \/ airplay2_pair_setup(c)
                \/ airplay2_setup_initial(c)
    BY <2>11 DEF airplay2_fairplay_setup, airplay2_pair_setup, airplay2_setup_initial,
                 SetClient
  <2>12. CASE \E type \in {Realtime, Buffered} : airplay2_setup_stream(c, type)
    BY <2>2, <2>12 DEF airplay2_setup_stream, TakeOver, StreamNext, NewSession
  <2>13. CASE \E rate \in {0, 1} : airplay2_set_rate_anchor_time(c, rate)
    BY <2>1, <2>13 DEF airplay2_set_rate_anchor_time, OwnerUpdate, StreamNext, Anchor
  <2>14. CASE airplay2_record(c)
    <3>1. PICK t \in Stamps : TRUE
      BY StampsAssumption
    <3>2. Recorded(FALSE, 0) = Recorded(FALSE, t)
      BY DEF Recorded
    <3>3. stream.has_session /\ stream' = Recorded(FALSE, t) => Record
      BY DEF Record
    <3> QED BY <2>14, <3>2, <3>3 DEF airplay2_record, OwnerUpdate, StreamNext
  <2>15. CASE airplay2_flush_buffered(c)
    BY <2>1, <2>15 DEF airplay2_flush_buffered, OwnerUpdate, StreamNext, Flush
  <2> QED BY <1>1, <2>3, <2>4, <2>5, <2>6, <2>7, <2>8, <2>9, <2>10, <2>11, <2>12, <2>13,
             <2>14, <2>15
          DEF HandleRequest, airplay_rtsp_options, airplay_rtsp_describe,
              airplay_rtsp_post, airplay_rtsp_get_parameter, airplay_rtsp_play,
              airplay2_info, airplay2_feedback, airplay2_acknowledge
<1>2. ASSUME NEW p \in Peers, Accept(p) PROVE UNCHANGED stream
  BY <1>2 DEF Accept
<1>3. ASSUME NEW c \in Clients, NEW p \in Peers, AcceptEvent(c, p)
      PROVE  UNCHANGED stream
  BY <1>3 DEF AcceptEvent
<1>4. ASSUME NEW c \in Clients, EventClosed(c) \/ Disconnect(c)
      PROVE  UNCHANGED stream
  BY <1>4 DEF EventClosed, Disconnect
<1>5. CASE close_client
  <2>1. owner = closing => stream.has_session
    BY <1>5 DEF close_client, Inv, SessionOwned
  <2> QED BY <1>5, <2>1 DEF close_client, StreamNext, End
<1> QED BY <1>1, <1>2, <1>3, <1>4, <1>5 DEF Next

(* The control thread of rtsp.c with the handlers of airplay_rtsp.c and    *)
(* airplay2.c implements StreamSpec, the specification of the stream that  *)
(* the audio thread is composed with.                                      *)
THEOREM ControlImplementsStream == Spec => StreamSpec
<1>1. Init => StreamInit
  BY DEF Init
<1>2. Inv /\ [Next]_vars => [StreamNext]_stream
  BY StreamStep DEF vars
<1> QED BY <1>1, <1>2, Invariance, PTL DEF Spec, StreamSpec

(* A takeover, a TEARDOWN and a lost owner all move the generation: the    *)
(* audio thread never takes one client's session for another's.            *)
THEOREM OwnerVisible == Spec => OwnerChangeVisible
<1>1. ASSUME Inv, Next
      PROVE  owner' # owner => stream'.generation > stream.generation
  <2>1. Announced.generation > stream.generation /\ Ended.generation > stream.generation
    BY <1>1 DEF Announced, Ended, Inv, TypeOK, StreamType
  <2>2. ASSUME NEW ip, NEW type
        PROVE  SetUp2(ip, type).generation > stream.generation
    BY <1>1 DEF SetUp2, Inv, TypeOK, StreamType
  <2>3. ASSUME NEW c \in Clients, HandleRequest(c)
        PROVE  owner' # owner => stream'.generation > stream.generation
    <3>1. CASE airplay_rtsp_announce(c)
      BY <2>1, <3>1 DEF airplay_rtsp_announce, TakeOver
    <3>2. CASE \E type \in {Realtime, Buffered} : airplay2_setup_stream(c, type)
      BY <2>2, <3>2 DEF airplay2_setup_stream, TakeOver
    <3>3. CASE airplay_rtsp_teardown(c)
      BY <2>1, <3>3 DEF airplay_rtsp_teardown
    <3>4. CASE UNCHANGED owner
      BY <3>4
    <3> QED BY <2>3, <3>1, <3>2, <3>3, <3>4
        DEF HandleRequest, Reply, OwnerUpdate, SetClient, airplay_rtsp_options,
            airplay_rtsp_describe, airplay_rtsp_post, airplay_rtsp_get_parameter,
            airplay_rtsp_play, airplay_rtsp_setup, airplay_rtsp_set_parameter,
            airplay_rtsp_flush, airplay_rtsp_pause, airplay_rtsp_record, airplay2_info,
            airplay2_feedback, airplay2_acknowledge, airplay2_fairplay_setup,
            airplay2_pair_setup, airplay2_setup_initial, airplay2_set_rate_anchor_time,
            airplay2_record, airplay2_flush_buffered
  <2>4. CASE close_client
    BY <2>1, <2>4 DEF close_client
  <2> QED BY <1>1, <2>3, <2>4 DEF Next, Accept, AcceptEvent, EventClosed, Disconnect
<1>2. Inv /\ [Next]_vars =>
        [owner' # owner => stream'.generation > stream.generation]_vars
  BY <1>1 DEF vars
<1> QED BY <1>2, Invariance, PTL DEF Spec, OwnerChangeVisible

(* Whatever the clients do, a boundary the audio thread would install is   *)
(* one of the current session, and no change escapes the generation.       *)
THEOREM ControlKeepsStream == Spec => []BoundaryOfSession /\ GenerationCovers
BY ControlImplementsStream, BoundariesCurrent, ChangesNoticed
=============================================================================

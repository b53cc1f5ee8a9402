----------------------------- MODULE NtpReply ------------------------------
(***************************************************************************)
(* The receiver as the server of the sender's timing requests:             *)
(* audio_pipeline_on_rtp_timing and ntp_sync_reply.  A request carries an  *)
(* origin and a transmit timestamp; its sender fills in the transmit one   *)
(* and, as ntp_sync_request does, leaves the origin 0.                     *)
(***************************************************************************)
EXTENDS Integers

CONSTANT MaxTime   \* bound: time

VARIABLES
    now,
    requests,  \* the sender's requests on the timing port
    replies    \* what was sent back; to is the request answered

vars == <<now, requests, replies>>

Init == now = 1 /\ requests = {} /\ replies = {}

Tick == now < MaxTime /\ now' = now + 1 /\ UNCHANGED <<requests, replies>>

SenderRequests ==
    /\ requests' = requests \cup {[origin |-> 0, transmit |-> now]}
    /\ UNCHANGED <<now, replies>>

ntp_sync_reply(request) ==
    /\ replies' = replies \cup
          {[origin |-> request.origin, receive |-> now, transmit |-> now, to |-> request]}
    /\ UNCHANGED <<now, requests>>

Next == Tick \/ SenderRequests \/ \E request \in requests : ntp_sync_reply(request)

Spec == Init /\ [][Next]_vars

----------------------------------------------------------------------------
(* A reply names the request it answers: its origin is the transmit time   *)
(* of that request, by which ntp_sync_process_packet, and any RAOP timing  *)
(* client, recognises it.                                                  *)
ReplyNamesRequest == \A r \in replies : r.origin = r.to.transmit
=============================================================================

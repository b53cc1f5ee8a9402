------------------------------- MODULE NetIo -------------------------------
(***************************************************************************)
(* The socket layer, platform/linux/net.c (the other platforms differ in   *)
(* the names of the system calls): handles over file descriptors the       *)
(* kernel reuses, waits with a timeout over a 32-bit millisecond clock,    *)
(* and a send that loops until everything is written.                      *)
(*                                                                         *)
(* One thread calls, on a listener, a connection it accepts and a UDP      *)
(* socket.  Only select takes time.                                        *)
(***************************************************************************)
EXTENDS Integers, Sequences, FiniteSets, FiniteSetsExt

CONSTANTS
    ClockRing,  \* values of the millisecond clock: 2^32
    Origins,    \* its values when the run begins
    Timeouts,   \* timeout_ms of the calls; -1 waits for ever
    Length,     \* bytes of a send
    SendRoom,   \* bytes the kernel buffers
    TimeBound   \* bound on time

ASSUME NetAssumption ==
    /\ Timeouts \subseteq Nat \cup {-1}
    /\ \A t \in Timeouts : t < ClockRing
    /\ Origins \subseteq 0 .. ClockRing - 1
    /\ {ClockRing, Length, SendRoom, TimeBound} \subseteq Nat \ {0}

Sockets == {"listener", "client", "udp"}
Fds == 1 .. Cardinality(Sockets) + 1
NoHandle == 0                       \* UINTPTR_MAX

VARIABLES
    time, origin,  \* real time, and the clock at time 0
    handle,        \* the handle each net_socket_t holds
    fds,           \* the descriptors that are open in the kernel
    inbox,         \* what waits to be read at each socket
    room,          \* free bytes in the send buffer of the connection
    wire,          \* the bytes of the last message given to the kernel
    io             \* the call in progress

netVars == <<time, origin, handle, fds, inbox, room, wire, io>>

Idle == [op |-> "none", at |-> "idle", timeout |-> 0, start |-> 0, began |-> 0,
         wait_start |-> 0, wait |-> 0, left |-> 0, sent |-> 0, result |-> "ok"]

Nothing == [s \in Sockets |-> "nothing"]

NetInit ==
    /\ time = 0 /\ origin \in Origins
    /\ handle = [s \in Sockets |-> NoHandle]
    /\ fds = {}
    /\ inbox = Nothing
    /\ room = SendRoom /\ wire = <<>>
    /\ io = Idle

----------------------------------------------------------------------------
now_ms == (origin + time) % ClockRing

(* Mutant of remaining_ms: the clock is taken never to wrap. *)
remaining_ms_nowrap(start, timeout) ==
    IF timeout < 0 THEN -1
    ELSE IF now_ms - start >= timeout THEN 0 ELSE timeout - (now_ms - start)

remaining_ms(start, timeout) ==
    LET elapsed == (now_ms - start) % ClockRing IN
    IF timeout < 0 THEN -1
    ELSE IF elapsed >= timeout THEN 0 ELSE timeout - elapsed

socket_valid(s) == handle[s] # NoHandle

(* The kernel hands out the lowest free descriptor. *)
FreeFd == Min(Fds \ fds)

(* socket, setsockopt, bind and listen; a descriptor whose set-up fails is *)
(* closed again.                                                           *)
open_bound(s) ==
    /\ io.at = "idle" /\ s # "client" /\ ~socket_valid(s)
    /\ \/ handle' = [handle EXCEPT ![s] = FreeFd] /\ fds' = fds \cup {FreeFd}
       \/ UNCHANGED <<handle, fds>>
    /\ UNCHANGED <<time, origin, inbox, room, wire, io>>

(* Mutant of net_close: the handle survives. *)
net_close_keeps(s) ==
    /\ io.at = "idle"
    /\ fds' = fds \ {handle[s]}
    /\ UNCHANGED <<time, origin, handle, inbox, room, wire, io>>

(* The callers close on every error path, a closed socket too. *)
net_close(s) ==
    /\ io.at = "idle"
    /\ fds' = fds \ {handle[s]}
    /\ handle' = [handle EXCEPT ![s] = NoHandle]
    /\ inbox' = [inbox EXCEPT ![s] = "nothing"]
    /\ room' = IF s = "client" THEN SendRoom ELSE room
    /\ UNCHANGED <<time, origin, wire, io>>

----------------------------------------------------------------------------
(* wait_sockets computes what is left of the timeout before each select.   *)
SelectNow(call) ==
    [call EXCEPT !.at = "select", !.left = remaining_ms(call.wait_start, call.wait)]

(* wait_one, or net_wait, begins with its own start.                       *)
BeginWait(call, timeout) ==
    SelectNow([call EXCEPT !.wait_start = now_ms, !.wait = timeout])

OpSocket == [tcp_accept |-> "listener", tcp_recv |-> "client", udp_recv |-> "udp",
             send_all |-> "client"]

(* The sockets a call waits for; net_wait skips the ones that are closed.  *)
Waited ==
    IF io.op = "wait" THEN {s \in Sockets : socket_valid(s)} ELSE {OpSocket[io.op]}

Ready(s) == IF io.op = "send_all" THEN room > 0 ELSE inbox[s] # "nothing"

Finish(result) == io' = [Idle EXCEPT !.op = io.op, !.result = result]

(* A call enters; on an invalid socket it fails at once. *)
Enter(op, timeout) ==
    /\ io.at = "idle"
    /\ IF op = "wait" THEN \E s \in Sockets : socket_valid(s) ELSE socket_valid(OpSocket[op])
    /\ op = "tcp_accept" => ~socket_valid("client")
    /\ LET call == [Idle EXCEPT !.op = op, !.timeout = timeout, !.start = now_ms,
                                !.began = time]
       IN  io' = BeginWait(call, IF op = "send_all" THEN remaining_ms(now_ms, timeout)
                                 ELSE timeout)
    /\ wire' = IF op = "send_all" THEN <<>> ELSE wire
    /\ UNCHANGED <<time, origin, handle, fds, inbox, room>>

select_ready ==
    /\ io.at = "select"
    /\ \E s \in Waited : Ready(s)
    /\ IF io.op = "wait" THEN Finish("ok") ELSE io' = [io EXCEPT !.at = "ready"]
    /\ UNCHANGED <<time, origin, handle, fds, inbox, room, wire>>

select_timeout ==
    /\ io.at = "select" /\ io.left = 0
    /\ Finish("timeout")
    /\ UNCHANGED <<time, origin, handle, fds, inbox, room, wire>>

(* EINTR: what is left is computed again.  Any other error ends the call.  *)
select_fails ==
    /\ io.at = "select"
    /\ \/ IF remaining_ms(io.wait_start, io.wait) = 0 THEN Finish("timeout")
          ELSE io' = SelectNow(io)
       \/ Finish("error")
    /\ UNCHANGED <<time, origin, handle, fds, inbox, room, wire>>

(* accept: the new descriptor is closed when it cannot be set up. *)
net_tcp_accept ==
    /\ io.at = "ready" /\ io.op = "tcp_accept"
    /\ inbox' = [inbox EXCEPT !["listener"] = "nothing"]
    /\ IF inbox["listener"] = "nothing"
       THEN (Finish("timeout") \/ Finish("error")) /\ UNCHANGED <<handle, fds>>
       ELSE \/ /\ handle' = [handle EXCEPT !["client"] = FreeFd]
               /\ fds' = fds \cup {FreeFd}
               /\ Finish("ok")
            \/ Finish("error") /\ UNCHANGED <<handle, fds>>
    /\ UNCHANGED <<time, origin, room, wire>>

(* recv and recvmsg: a datagram larger than the buffer is dropped.         *)
Received(s) ==
    /\ \/ inbox[s] = "data" /\ Finish("ok")
       \/ inbox[s] \in {"nothing", "oversized"} /\ Finish("timeout")
       \/ Finish("error")
    /\ inbox' = [inbox EXCEPT ![s] = "nothing"]
    /\ UNCHANGED <<time, origin, handle, fds, room, wire>>

net_tcp_recv == io.at = "ready" /\ io.op = "tcp_recv" /\ Received("client")
net_udp_recv == io.at = "ready" /\ io.op = "udp_recv" /\ Received("udp")

(* The end of the loop of net_tcp_send_all, and its next wait. *)
SendAgain(sent) ==
    IF sent = Length THEN Finish("ok")
    ELSE IF io.timeout >= 0 /\ remaining_ms(io.start, io.timeout) = 0 THEN Finish("timeout")
    ELSE io' = BeginWait([io EXCEPT !.sent = sent], remaining_ms(io.start, io.timeout))

Bytes(a, b) == [i \in 1 .. b - a + 1 |-> a + i - 1]

(* Mutant of Unsent: the message is sent from its start again. *)
UnsentAll(n) == Bytes(1, n)

Unsent(n) == Bytes(io.sent + 1, io.sent + n)

(* send takes a part, would block or is interrupted, or fails.             *)
net_tcp_send_all ==
    /\ io.at = "ready" /\ io.op = "send_all"
    /\ \/ \E n \in 1 .. Min({room, Length - io.sent}) :
             /\ room' = room - n
             /\ wire' = wire \o Unsent(n)
             /\ SendAgain(io.sent + n)
       \/ SendAgain(io.sent) /\ UNCHANGED <<room, wire>>
       \/ Finish("error") /\ UNCHANGED <<room, wire>>
    /\ UNCHANGED <<time, origin, handle, fds, inbox>>

----------------------------------------------------------------------------
(* The peers and the kernel.  A readable socket may turn out to be empty:  *)
(* select reported a datagram that is dropped, or a connection is gone.    *)
InboxKinds(s) == IF s = "udp" THEN {"data", "oversized"} ELSE {"data"}

PeerWrites(s) ==
    /\ socket_valid(s) /\ inbox[s] = "nothing"
    /\ \E k \in InboxKinds(s) : inbox' = [inbox EXCEPT ![s] = k]
    /\ UNCHANGED <<time, origin, handle, fds, room, wire, io>>

Dropped(s) ==
    /\ io.at = "ready" /\ inbox[s] # "nothing"
    /\ inbox' = [inbox EXCEPT ![s] = "nothing"]
    /\ UNCHANGED <<time, origin, handle, fds, room, wire, io>>

PeerReads ==
    /\ socket_valid("client") /\ room < SendRoom
    /\ room' = room + 1
    /\ UNCHANGED <<time, origin, handle, fds, inbox, wire, io>>

(* Time passes inside select, as long as its timeout has not expired.      *)
NetTick ==
    /\ io.at = "select" /\ io.left # 0
    /\ time < TimeBound
    /\ time' = time + 1
    /\ io' = [io EXCEPT !.left = IF @ > 0 THEN @ - 1 ELSE @]
    /\ UNCHANGED <<origin, handle, fds, inbox, room, wire>>

Operations == {"wait", "tcp_accept", "tcp_recv", "udp_recv", "send_all"}

NetNext ==
    \/ \E s \in Sockets : open_bound(s) \/ net_close(s) \/ PeerWrites(s) \/ Dropped(s)
    \/ \E op \in Operations, t \in Timeouts : Enter(op, t)
    \/ select_ready \/ select_timeout \/ select_fails
    \/ net_tcp_accept \/ net_tcp_recv \/ net_udp_recv \/ net_tcp_send_all
    \/ PeerReads \/ NetTick

NetSpec == NetInit /\ [][NetNext]_netVars

----------------------------------------------------------------------------
(* Every open descriptor belongs to exactly one socket and every handle is *)
(* open: no failed accept or bind leaks one, and a socket closed twice     *)
(* never closes the descriptor the kernel gave to another one since.       *)
HandlesExact ==
    /\ fds = {handle[s] : s \in {r \in Sockets : socket_valid(r)}}
    /\ \A s, r \in Sockets : socket_valid(s) /\ handle[s] = handle[r] => s = r

(* The common timeout contract of net.h: whatever interrupts its waits, a  *)
(* call with a timeout ends within it, across the wrap of the clock.       *)
CallBounded == io.at # "idle" /\ io.timeout >= 0 => time - io.began <= io.timeout

(* The bytes given to the kernel are the message from its start, none left *)
(* out or repeated by a partial or interrupted send; the call reports      *)
(* success only when that is all of it.                                    *)
SentExact ==
    /\ wire = Bytes(1, Len(wire))
    /\ io.at = "idle" /\ io.op = "send_all" /\ io.result = "ok" => Len(wire) = Length
=============================================================================

--------------------------- MODULE PlatformProofs ---------------------------
(***************************************************************************)
(* Proofs about the platform layer: the socket calls of NetIo, the writes  *)
(* of AudioOutput, that its drivers implement AudioDevice, the delay they  *)
(* report, and that frames are heard when they are due.                    *)
(***************************************************************************)
EXTENDS Platform, FiniteSetTheorems, SequenceTheorems, WellFoundedInduction, TLAPS

----------------------------------------------------------------------------
(* The descriptors of NetIo are 1 to 4.                                    *)
LEMMA FourFds == Fds = 1..4
<1>1. Cardinality({}) = 0 /\ IsFiniteSet({})
  BY FS_EmptySet
<1>2. IsFiniteSet({"listener"}) /\ Cardinality({"listener"}) = 1
  BY FS_Singleton
<1>3. /\ IsFiniteSet({"listener"} \cup {"client"})
      /\ Cardinality({"listener"} \cup {"client"}) = 2
  BY <1>2, FS_AddElement
<1>4. Cardinality({"listener"} \cup {"client"} \cup {"udp"}) = 3
  BY <1>3, FS_AddElement
<1>5. {"listener"} \cup {"client"} \cup {"udp"} = Sockets
  BY DEF Sockets
<1>6. Cardinality(Sockets) = 3
  BY <1>4, <1>5
<1> QED BY <1>6 DEF Fds

(* A remainder is the only one.                                            *)
LEMMA ModUnique ==
    ASSUME NEW y \in Int, NEW q \in Int, NEW r \in Int, NEW n \in Nat,
           0 <= r, r < n, y = n * q + r
    PROVE  y % n = r
BY SMTT(30)

(* Division with remainder, for a modulus that is not a literal.           *)
LEMMA DivMod ==
  ASSUME NEW y \in Int, NEW n \in Nat, n > 0
  PROVE  \E q \in Int : y = n * q + (y % n)
<1>1. y \div n \in Int /\ n * (y \div n) <= y /\ y < n * (y \div n) + n
  BY SMTT(30)
<1> DEFINE q == y \div n
<1> HIDE DEF q
<1>2. q \in Int /\ n * q <= y /\ y < n * q + n
  BY <1>1 DEF q
<1>3. PICK p \in Int : p = n * q
  BY <1>2
<1>4. y - p \in Int /\ 0 <= y - p /\ y - p < n /\ y = n * q + (y - p)
  BY <1>2, <1>3
<1>5. y % n = y - p
  <2>1. n \in Nat /\ q \in Int /\ y - p \in Int /\ y \in Int
    BY <1>2, <1>4
  <2> QED BY ONLY <1>4, <2>1, ModUnique, Zenon
<1>6. y = n * q + (y % n)
  BY <1>2, <1>3, <1>5
<1> QED BY <1>2, <1>6

(* A sum wraps around at most once.                                        *)
LEMMA ModAdd ==
  ASSUME NEW y \in Int, NEW n \in Nat, n > 0, NEW d \in 0..n-1
  PROVE  /\ (y % n) + d < n => (y + d) % n = (y % n) + d
         /\ (y % n) + d >= n => (y + d) % n = (y % n) + d - n
<1>1. PICK q \in Int : y = n * q + (y % n)
  BY DivMod
<1>2. PICK r \in 0..n-1 : r = y % n
  OBVIOUS
<1>0. PICK z \in Int : z = y + d
  OBVIOUS
<1>3. ASSUME r + d < n
      PROVE  z % n = r + d
  <2>1. PICK s \in Int : s = r + d
    OBVIOUS
  <2>2. z = n * q + s /\ 0 <= s /\ s < n
    BY <1>0, <1>1, <1>2, <1>3, <2>1
  <2>3. z % n = s
    BY <2>2, ModUnique
  <2> QED BY <2>1, <2>3
<1>4. ASSUME r + d >= n
      PROVE  z % n = r + d - n
  <2>1. n * (q + 1) = n * q + n
    OBVIOUS
  <2>0. PICK s \in Int : s = r + d - n
    OBVIOUS
  <2>3. PICK p \in Int : p = q + 1
    OBVIOUS
  <2>2. z = n * p + s /\ 0 <= s /\ s < n
    BY <1>0, <1>1, <1>2, <1>4, <2>1, <2>0, <2>3
  <2>4. z % n = s
    BY <2>2, ModUnique
  <2> QED BY <2>0, <2>4
<1> QED BY <1>0, <1>2, <1>3, <1>4

(* Two readings of the clock differ by the time between them, wrapped or not. *)
LEMMA ClockDifference ==
    ASSUME NEW n \in Nat, n > 0, NEW y \in Int, NEW d \in 0..n-1
    PROVE  (((y + d) % n) - (y % n)) % n = d
<1>1. /\ (y % n) + d < n => (y + d) % n = (y % n) + d
      /\ (y % n) + d >= n => (y + d) % n = (y % n) + d - n
  BY ModAdd
<1>2. PICK r \in 0..n-1 : r = y % n
  OBVIOUS
<1>3. PICK e \in Int : e = ((y + d) % n) - (y % n)
  BY <1>1, <1>2
<1>5. e = d \/ e = d - n
  BY <1>1, <1>2, <1>3
<1>4. d % n = d /\ (d - n) % n = d
  OBVIOUS
<1>7. CASE e = d
  <2>1. e % n = e
    BY <1>7
  <2> QED BY <1>3, <1>7, <2>1
<1>8. CASE e = d - n
  <2>1. e % n = e + n
    BY <1>8
  <2> QED BY <1>3, <1>8, <2>1
<1> QED BY <1>5, <1>7, <1>8

----------------------------------------------------------------------------
(* The calls in progress. *)
IoType ==
    [op : Operations \cup {"none"}, at : {"idle", "select", "ready"}, timeout : Int,
     start : Int, began : Nat, wait_start : Int, wait : Int, left : Int, sent : Nat,
     result : {"ok", "timeout", "error"}]

NetType ==
    /\ time \in Nat /\ origin \in Origins
    /\ io \in IoType

(* Every wait of a call began at a known instant, and what is left of it   *)
(* ends no later than the call may.                                        *)
WaitWithinCall ==
    \E begun \in io.began..time :
        /\ io.wait_start = (origin + begun) % ClockRing
        /\ io.wait \in Nat
        /\ begun + io.wait <= io.began + io.timeout
        /\ time <= begun + io.wait
        /\ io.at = "select" => io.left \in Nat /\ time + io.left <= begun + io.wait

CallInv ==
    io.at # "idle" =>
        /\ io.timeout \in Timeouts
        /\ io.start = (origin + io.began) % ClockRing
        /\ io.began <= time
        /\ io.timeout >= 0 => WaitWithinCall

(* A descriptor is accepted only into a connection that has none.          *)
HandlesInv ==
    /\ handle \in [Sockets -> 0..4]
    /\ HandlesExact
    /\ io.at # "idle" /\ io.op = "tcp_accept" => ~socket_valid("client")

(* While a message is sent, sent counts the bytes the kernel took.         *)
SendInv ==
    /\ wire = Bytes(1, Len(wire)) /\ Len(wire) \in Nat
    /\ io.at # "idle" /\ io.op = "send_all" => io.sent = Len(wire) /\ io.sent < Length
    /\ io.at = "idle" /\ io.op = "send_all" /\ io.result = "ok" => Len(wire) = Length

NetInv == NetType /\ CallInv /\ HandlesInv /\ SendInv

(* The inductive invariant of the socket layer. *)
SocketInv == NetInv /\ room \in 0..SendRoom

(* The constants. *)
LEMMA NetConstants ==
    /\ ClockRing \in Nat /\ ClockRing > 0
    /\ Length \in Nat /\ Length > 0
    /\ SendRoom \in Nat /\ SendRoom > 0
    /\ \A o \in Origins : o \in Int
    /\ \A t \in Timeouts : t \in Int /\ t >= -1 /\ t < ClockRing
<1>1. ClockRing \in Nat /\ ClockRing > 0
  BY NetAssumption
<1> QED BY <1>1, NetAssumption

(* The lowest free descriptor is free: three sockets cannot hold four.     *)
LEMMA FreeFdFree ==
    ASSUME HandlesInv
    PROVE  FreeFd \in 1..4 /\ FreeFd \notin fds
<1> DEFINE S == Fds \ fds
<1>1. /\ \A x \in fds : x = handle["listener"] \/ x = handle["client"] \/ x = handle["udp"]
      /\ handle["listener"] \in Int /\ handle["client"] \in Int /\ handle["udp"] \in Int
  BY DEF HandlesInv, HandlesExact, Sockets
<1>2. S = (1..4) \ fds
  BY FourFds
<1>3. 1 \in S \/ 2 \in S \/ 3 \in S \/ 4 \in S
  BY <1>1, <1>2
<1>4. \E x \in S : \A y \in S : x <= y
  <2>1. S \subseteq 1..4
    BY <1>2
  <2> HIDE DEF S
  <2>2. CASE 1 \in S
    BY <2>1, <2>2
  <2>3. CASE 1 \notin S /\ 2 \in S
    BY <2>1, <2>3
  <2>4. CASE 1 \notin S /\ 2 \notin S /\ 3 \in S
    BY <2>1, <2>4
  <2>5. CASE 1 \notin S /\ 2 \notin S /\ 3 \notin S /\ 4 \in S
    BY <2>1, <2>5
  <2> QED BY <1>3, <2>2, <2>3, <2>4, <2>5
<1>5. FreeFd \in S
  BY <1>4 DEF FreeFd, Min
<1> QED BY <1>2, <1>5

(* A descriptor opened for a socket that has none.                         *)
LEMMA OpenedExact ==
    ASSUME HandlesInv, NEW s \in Sockets, ~socket_valid(s),
           handle' = [handle EXCEPT ![s] = FreeFd], fds' = fds \cup {FreeFd}
    PROVE  handle' \in [Sockets -> 0..4] /\ HandlesExact'
<1>1. handle \in [Sockets -> 0..4] /\ HandlesExact
  BY DEF HandlesInv
<1>2. FreeFd \in 1..4 /\ FreeFd \notin fds
  BY FreeFdFree
<1>3. PICK fd \in 1..4 : fd = FreeFd
  BY <1>2
<1>4. handle' = [handle EXCEPT ![s] = fd] /\ fds' = fds \cup {fd} /\ fd \notin fds
  BY <1>2, <1>3
<1>5. handle' \in [Sockets -> 0..4]
  BY <1>1, <1>4
<1>6. \A r \in Sockets : handle'[r] = IF r = s THEN fd ELSE handle[r]
  BY <1>1, <1>4
<1>7. \A x : x \in fds <=> \E r \in Sockets : handle[r] # 0 /\ handle[r] = x
  BY <1>1 DEF HandlesExact, socket_valid, NoHandle
<1>8. handle[s] = 0
  BY DEF socket_valid, NoHandle
<1>9. \A x : x \in fds' <=> \E r \in Sockets : handle'[r] # 0 /\ handle'[r] = x
  BY <1>4, <1>6, <1>7, <1>8
<1>10. fds' = {handle'[r] : r \in {q \in Sockets : socket_valid(q)'}}
  BY <1>9 DEF socket_valid, NoHandle
<1>11. \A q, r \in Sockets : socket_valid(q)' /\ handle'[q] = handle'[r] => q = r
  BY <1>1, <1>4, <1>6, <1>7, <1>8 DEF HandlesExact, socket_valid, NoHandle
<1> QED BY <1>5, <1>10, <1>11 DEF HandlesExact

(* A socket is closed, once more perhaps.                                  *)
LEMMA ClosedExact ==
    ASSUME HandlesInv, NEW s \in Sockets,
           handle' = [handle EXCEPT ![s] = NoHandle], fds' = fds \ {handle[s]}
    PROVE  handle' \in [Sockets -> 0..4] /\ HandlesExact'
<1>1. handle \in [Sockets -> 0..4] /\ HandlesExact
  BY DEF HandlesInv
<1>2. handle' \in [Sockets -> 0..4]
  BY <1>1 DEF NoHandle
<1>3. \A r \in Sockets : handle'[r] = IF r = s THEN 0 ELSE handle[r]
  BY <1>1 DEF NoHandle
<1>4. \A x : x \in fds <=> \E r \in Sockets : handle[r] # 0 /\ handle[r] = x
  BY <1>1 DEF HandlesExact, socket_valid, NoHandle
<1>5. \A q, r \in Sockets : handle[q] # 0 /\ handle[q] = handle[r] => q = r
  BY <1>1 DEF HandlesExact, socket_valid, NoHandle
<1>6. \A x : x \in fds' <=> \E r \in Sockets : handle'[r] # 0 /\ handle'[r] = x
  BY <1>3, <1>4, <1>5
<1>7. fds' = {handle'[r] : r \in {q \in Sockets : socket_valid(q)'}}
  BY <1>6 DEF socket_valid, NoHandle
<1>8. \A q, r \in Sockets : socket_valid(q)' /\ handle'[q] = handle'[r] => q = r
  BY <1>3, <1>5 DEF socket_valid, NoHandle
<1> QED BY <1>2, <1>7, <1>8 DEF HandlesExact

(* What is left of a timeout that began at a given instant.                *)
LEMMA RemainingIs ==
    ASSUME origin \in Int, time \in Nat, NEW begun \in Nat, begun <= time,
           time - begun < ClockRing, NEW timeout \in Nat
    PROVE  remaining_ms((origin + begun) % ClockRing, timeout)
             = IF time - begun >= timeout THEN 0 ELSE timeout - (time - begun)
<1>1. PICK d \in 0..ClockRing - 1 : d = time - begun
  BY NetConstants
<1>2. PICK y \in Int : y = origin + begun
  OBVIOUS
<1>3. origin + time = y + d
  BY <1>1, <1>2
<1>4. (((y + d) % ClockRing) - (y % ClockRing)) % ClockRing = d
  BY ClockDifference, NetConstants
<1>5. (now_ms - ((origin + begun) % ClockRing)) % ClockRing = d
  BY <1>2, <1>3, <1>4 DEF now_ms
<1> QED BY <1>1, <1>5 DEF remaining_ms

(* The clock is an integer, and so is what is left.                        *)
LEMMA RemainingType ==
    ASSUME origin \in Int, time \in Nat, NEW start \in Int, NEW timeout \in Int
    PROVE  now_ms \in Int /\ remaining_ms(start, timeout) \in Int
<1>1. now_ms \in Int
  BY NetConstants DEF now_ms
<1>2. (now_ms - start) % ClockRing \in Int
  BY <1>1, NetConstants
<1> QED BY <1>1, <1>2 DEF remaining_ms

(* The origin of the clock is an integer.                                  *)
LEMMA OriginType == NetType => origin \in Int /\ time \in Nat
BY NetConstants DEF NetType

(* A call ends.                                                            *)
LEMMA FinishFields ==
    ASSUME io \in IoType, NEW r \in {"ok", "timeout", "error"}, Finish(r)
    PROVE  /\ io' \in IoType
           /\ io'.at = "idle" /\ io'.op = io.op /\ io'.result = r
<1>1. io' = [op |-> io.op, at |-> "idle", timeout |-> 0, start |-> 0, began |-> 0,
             wait_start |-> 0, wait |-> 0, left |-> 0, sent |-> 0, result |-> r]
  BY DEF Finish, Idle
<1>2. io.op \in Operations \cup {"none"}
  BY DEF IoType
<1> QED BY <1>1, <1>2 DEF IoType

(* A wait begins now.                                                      *)
LEMMA BeginWaitFields ==
    ASSUME NetType, NEW entry \in IoType, NEW w \in Int
    PROVE  /\ BeginWait(entry, w) \in IoType
           /\ BeginWait(entry, w).at = "select"
           /\ BeginWait(entry, w).op = entry.op
           /\ BeginWait(entry, w).timeout = entry.timeout
           /\ BeginWait(entry, w).start = entry.start
           /\ BeginWait(entry, w).began = entry.began
           /\ BeginWait(entry, w).sent = entry.sent
           /\ BeginWait(entry, w).wait_start = (origin + time) % ClockRing
           /\ BeginWait(entry, w).wait = w
           /\ w >= 0 => BeginWait(entry, w).left = w
<1>1. origin \in Int /\ time \in Nat
  BY OriginType
<1>2. now_ms \in Int /\ remaining_ms(now_ms, w) \in Int
  BY <1>1, RemainingType
<1>3. w >= 0 => remaining_ms(now_ms, w) = w
  <2> SUFFICES ASSUME w >= 0 PROVE remaining_ms(now_ms, w) = w
    OBVIOUS
  <2>1. w \in Nat /\ time <= time /\ time - time < ClockRing /\ time - time = 0
    BY <1>1, NetConstants
  <2>2. remaining_ms((origin + time) % ClockRing, w)
          = IF time - time >= w THEN 0 ELSE w - (time - time)
    BY <1>1, <2>1, RemainingIs
  <2> QED BY <2>1, <2>2 DEF now_ms
<1> DEFINE begun == [entry EXCEPT !.wait_start = now_ms, !.wait = w]
<1>4. /\ begun \in IoType
      /\ begun.wait_start = now_ms /\ begun.wait = w
      /\ begun.op = entry.op /\ begun.timeout = entry.timeout /\ begun.start = entry.start
      /\ begun.began = entry.began /\ begun.sent = entry.sent
  BY <1>2 DEF IoType
<1> HIDE DEF begun
<1>5. BeginWait(entry, w) = [begun EXCEPT !.at = "select", !.left = remaining_ms(now_ms, w)]
  BY <1>4 DEF BeginWait, SelectNow, begun
<1>6. PICK left \in Int : left = remaining_ms(now_ms, w) /\ (w >= 0 => left = w)
  BY <1>2, <1>3
<1> DEFINE waits == [begun EXCEPT !.at = "select", !.left = left]
<1>7. /\ waits \in IoType /\ waits.at = "select" /\ waits.left = left
      /\ waits.wait_start = begun.wait_start /\ waits.wait = begun.wait
      /\ waits.op = begun.op /\ waits.timeout = begun.timeout /\ waits.start = begun.start
      /\ waits.began = begun.began /\ waits.sent = begun.sent
  BY <1>4, <1>6 DEF IoType
<1> HIDE DEF waits
<1>8. BeginWait(entry, w) = waits
  BY <1>5, <1>6 DEF waits
<1> QED BY <1>4, <1>6, <1>7, <1>8 DEF now_ms

(* A wait that begins now with what is left of the call, or of any call    *)
(* without a timeout, keeps the account of the call.                       *)
LEMMA BeginWaitInv ==
    ASSUME NetType, NEW entry \in IoType, NEW w \in Int,
           entry.timeout \in Timeouts, entry.start = (origin + entry.began) % ClockRing,
           entry.began <= time,
           entry.timeout >= 0 => w >= 0 /\ time + w <= entry.began + entry.timeout,
           io' = BeginWait(entry, w), time' = time, origin' = origin
    PROVE  NetType' /\ CallInv'
<1>1. origin \in Int /\ time \in Nat /\ entry.began \in Nat /\ entry.timeout \in Int
  BY OriginType DEF IoType
<1>2. /\ io' \in IoType /\ io'.at = "select"
      /\ io'.timeout = entry.timeout /\ io'.start = entry.start /\ io'.began = entry.began
      /\ io'.wait_start = (origin + time) % ClockRing /\ io'.wait = w
      /\ w >= 0 => io'.left = w
  BY BeginWaitFields
<1>3. ASSUME entry.timeout >= 0 PROVE WaitWithinCall'
  <2>1. w \in Nat /\ io'.left = w /\ time + w <= entry.began + entry.timeout
    BY <1>2, <1>3
  <2>2. time \in io'.began..time'
    BY <1>1, <1>2
  <2>3. /\ io'.wait_start = (origin' + time) % ClockRing
        /\ io'.wait \in Nat
        /\ time + io'.wait <= io'.began + io'.timeout
        /\ time' <= time + io'.wait
        /\ io'.left \in Nat /\ time' + io'.left <= time + io'.wait
    BY <1>1, <1>2, <2>1
  <2> QED BY <2>2, <2>3 DEF WaitWithinCall
<1>4. CallInv'
  BY <1>2, <1>3 DEF CallInv
<1>5. NetType'
  BY <1>2 DEF NetType
<1> QED BY <1>4, <1>5

(* What a send takes continues the message where the last one ended.       *)
LEMMA UnsentContinues ==
    ASSUME wire = Bytes(1, Len(wire)), Len(wire) \in Nat, io.sent = Len(wire), NEW n \in Nat
    PROVE  /\ wire \o Unsent(n) = Bytes(1, Len(wire) + n)
           /\ Len(wire \o Unsent(n)) = Len(wire) + n
<1>1. PICK k \in Nat : k = Len(wire)
  OBVIOUS
<1>2. /\ wire = [i \in 1..k |-> i] /\ wire \in Seq(Int)
      /\ Unsent(n) = [i \in 1..n |-> k + i] /\ Unsent(n) \in Seq(Int)
      /\ Bytes(1, k + n) = [i \in 1..k + n |-> i]
  <2>1. k - 1 + 1 = k /\ (k + n) - (k + 1) + 1 = n /\ (k + n) - 1 + 1 = k + n
    OBVIOUS
  <2>2. Bytes(1, k) = [i \in 1..k |-> i]
    BY <2>1 DEF Bytes
  <2>3. Bytes(k + 1, k + n) = [i \in 1..n |-> k + i]
    BY <2>1 DEF Bytes
  <2>4. Bytes(1, k + n) = [i \in 1..k + n |-> i]
    BY <2>1 DEF Bytes
  <2>5. [i \in 1..k |-> i] \in Seq(Int) /\ [i \in 1..n |-> k + i] \in Seq(Int)
    OBVIOUS
  <2> QED BY <1>1, <2>2, <2>3, <2>4, <2>5 DEF Unsent
<1>3. Len(Unsent(n)) = n
  BY <1>2
<1> DEFINE w == wire \o Unsent(n)
<1>4. Len(w) = k + n /\ w \in Seq(Int)
  BY <1>1, <1>2, <1>3
<1> HIDE DEF w
<1>5. \A i \in 1..k + n : w[i] = i
  <2> SUFFICES ASSUME NEW i \in 1..k + n PROVE w[i] = i
    OBVIOUS
  <2>1. CASE i <= k
    BY <1>1, <1>2, <1>3, <2>1 DEF w
  <2>2. CASE i > k
    BY <1>1, <1>2, <1>3, <2>2 DEF w
  <2> QED BY <2>1, <2>2
<1>6. w = [i \in 1..k + n |-> i]
  BY <1>4, <1>5
<1> QED BY <1>1, <1>2, <1>4, <1>6 DEF w

(* Nothing the invariant speaks of changes.                                *)
LEMMA NetQuiet ==
    ASSUME NetInv, UNCHANGED <<time, origin, wire, io>>
    PROVE  /\ NetType' /\ CallInv' /\ SendInv'
           /\ UNCHANGED <<handle, fds>> => HandlesInv'
BY DEF NetInv, NetType, CallInv, SendInv, HandlesInv, HandlesExact, WaitWithinCall, socket_valid

(* A call ends; it reports that a message was sent when it was.            *)
LEMMA FinishInv ==
    ASSUME NetInv, NEW r \in {"ok", "timeout", "error"}, Finish(r),
           UNCHANGED <<time, origin>>,
           wire' = Bytes(1, Len(wire')), Len(wire') \in Nat,
           io.op = "send_all" /\ r = "ok" => Len(wire') = Length
    PROVE  /\ NetType' /\ CallInv' /\ SendInv'
           /\ UNCHANGED <<handle, fds>> => HandlesInv'
<1>1. io' \in IoType /\ io'.at = "idle" /\ io'.op = io.op /\ io'.result = r
  BY FinishFields DEF NetInv, NetType
<1>2. NetType' /\ CallInv' /\ SendInv'
  BY <1>1 DEF NetInv, NetType, CallInv, SendInv
<1>3. UNCHANGED <<handle, fds>> => HandlesInv'
  BY <1>1 DEF NetInv, HandlesInv, HandlesExact, socket_valid
<1> QED BY <1>2, <1>3

(* A descriptor is opened, or its set-up fails; a socket is closed.        *)
LEMMA OpenCloseInv ==
    ASSUME NetInv, NEW s \in Sockets, open_bound(s) \/ net_close(s)
    PROVE  NetInv'
<1>1. io.at = "idle" /\ UNCHANGED <<time, origin, wire, io>>
  BY DEF open_bound, net_close
<1>2. NetType' /\ CallInv' /\ SendInv' /\ (UNCHANGED <<handle, fds>> => HandlesInv')
  BY <1>1, NetQuiet
<1>3. HandlesInv'
  <2>1. CASE open_bound(s)
    <3>1. CASE handle' = [handle EXCEPT ![s] = FreeFd] /\ fds' = fds \cup {FreeFd}
      <4>1. handle' \in [Sockets -> 0..4] /\ HandlesExact'
        BY <2>1, <3>1, OpenedExact DEF open_bound, NetInv
      <4> QED BY <1>1, <4>1 DEF HandlesInv
    <3> QED BY <1>2, <2>1, <3>1 DEF open_bound
  <2>2. CASE net_close(s)
    <3>1. handle' \in [Sockets -> 0..4] /\ HandlesExact'
      BY <2>2, ClosedExact DEF net_close, NetInv
    <3> QED BY <1>1, <3>1 DEF HandlesInv
  <2> QED BY <2>1, <2>2
<1> QED BY <1>2, <1>3 DEF NetInv

(* A call begins.                                                          *)
LEMMA EnterInv ==
    ASSUME NetInv, NEW op \in Operations, NEW t \in Timeouts, Enter(op, t)
    PROVE  NetInv'
<1> DEFINE entry == [Idle EXCEPT !.op = op, !.timeout = t, !.start = now_ms,
                                !.began = time]
           w == IF op = "send_all" THEN remaining_ms(now_ms, t) ELSE t
<1>1. NetType /\ origin \in Int /\ time \in Nat /\ t \in Int
  BY OriginType, NetConstants DEF NetInv
<1>2. now_ms \in Int /\ remaining_ms(now_ms, t) \in Int
  BY <1>1, RemainingType
<1>3. /\ entry \in IoType
      /\ entry.op = op /\ entry.timeout = t /\ entry.start = now_ms /\ entry.began = time
      /\ entry.sent = 0
  <2>1. Idle \in IoType /\ Idle.sent = 0
    BY DEF Idle, IoType
  <2>2. op \in Operations \cup {"none"}
    OBVIOUS
  <2>3. entry \in IoType
    BY <1>1, <1>2, <2>1, <2>2 DEF IoType
  <2>4. /\ entry.op = op /\ entry.timeout = t /\ entry.start = now_ms /\ entry.began = time
        /\ entry.sent = 0
    BY <2>1 DEF IoType
  <2> QED BY <2>3, <2>4
<1>4. w \in Int
  BY <1>1, <1>2
<1>5. t >= 0 => w = t
  <2> SUFFICES ASSUME t >= 0 PROVE remaining_ms(now_ms, t) = t
    OBVIOUS
  <2>1. t \in Nat /\ time <= time /\ time - time < ClockRing /\ time - time = 0
    BY <1>1, NetConstants
  <2>2. remaining_ms((origin + time) % ClockRing, t)
          = IF time - time >= t THEN 0 ELSE t - (time - time)
    BY <1>1, <2>1, RemainingIs
  <2> QED BY <2>1, <2>2 DEF now_ms
<1>6. /\ io' = BeginWait(entry, w)
      /\ UNCHANGED <<time, origin, handle, fds>>
      /\ wire' = IF op = "send_all" THEN <<>> ELSE wire
      /\ op = "tcp_accept" => ~socket_valid("client")
  BY DEF Enter
<1> HIDE DEF entry, w
<1>7. NetType' /\ CallInv'
  <2>1. entry.timeout >= 0 => w >= 0 /\ time + w <= entry.began + entry.timeout
    BY <1>1, <1>3, <1>4, <1>5
  <2>2. entry.start = (origin + entry.began) % ClockRing /\ entry.began <= time
    BY <1>1, <1>3 DEF now_ms
  <2> QED BY <1>1, <1>3, <1>4, <1>6, <2>1, <2>2, BeginWaitInv
<1>8. io'.at = "select" /\ io'.op = op /\ io'.sent = 0
  BY <1>1, <1>3, <1>4, <1>6, BeginWaitFields
<1>9. HandlesInv'
  BY <1>6, <1>8 DEF NetInv, HandlesInv, HandlesExact, socket_valid
<1>10. SendInv'
  <2>1. CASE op = "send_all"
    <3>1. <<>> = Bytes(1, 0)
      BY DEF Bytes
    <3> QED BY <1>6, <1>8, <2>1, <3>1, NetConstants DEF SendInv
  <2>2. CASE op # "send_all"
    BY <1>6, <1>8, <2>2 DEF NetInv, SendInv
  <2> QED BY <2>1, <2>2
<1> QED BY <1>7, <1>9, <1>10 DEF NetInv

(* select returns: ready, expired, interrupted or failed.                  *)
LEMMA SelectInv ==
    ASSUME NetInv, select_ready \/ select_timeout \/ select_fails
    PROVE  NetInv'
<1>1. NetType /\ origin \in Int /\ time \in Nat /\ io \in IoType /\ io.at = "select"
  BY OriginType DEF NetInv, NetType, select_ready, select_timeout, select_fails
<1>2. UNCHANGED <<time, origin, handle, fds, wire>>
  BY DEF select_ready, select_timeout, select_fails
<1>3. wire' = Bytes(1, Len(wire')) /\ Len(wire') \in Nat
  BY <1>2 DEF NetInv, SendInv
<1>4. ASSUME NEW r \in {"ok", "timeout", "error"}, Finish(r), io.op = "send_all" => r # "ok"
      PROVE  NetInv'
  BY <1>2, <1>3, <1>4, FinishInv DEF NetInv
<1>5. CASE io' = [io EXCEPT !.at = "ready"]
  <2>1. /\ io' \in IoType /\ io'.at = "ready" /\ io'.op = io.op /\ io'.sent = io.sent
        /\ io'.timeout = io.timeout /\ io'.start = io.start /\ io'.began = io.began
        /\ io'.wait_start = io.wait_start /\ io'.wait = io.wait
    BY <1>1, <1>5 DEF IoType
  <2>2. WaitWithinCall => WaitWithinCall'
    BY <1>2, <2>1 DEF WaitWithinCall
  <2>3. CallInv'
    BY <1>1, <1>2, <2>1, <2>2 DEF NetInv, CallInv
  <2>4. NetType' /\ SendInv' /\ HandlesInv'
    BY <1>1, <1>2, <2>1
    DEF NetInv, NetType, SendInv, HandlesInv, HandlesExact, socket_valid
  <2> QED BY <2>3, <2>4 DEF NetInv
<1>6. CASE io' = SelectNow(io) /\ remaining_ms(io.wait_start, io.wait) # 0
  <2> DEFINE left == remaining_ms(io.wait_start, io.wait)
  <2>1. io.wait_start \in Int /\ io.wait \in Int /\ io.began \in Nat /\ io.timeout \in Int
    BY <1>1 DEF IoType
  <2>2. left \in Int
    BY <1>1, <2>1, RemainingType
  <2>3. /\ io' \in IoType /\ io'.at = "select" /\ io'.op = io.op /\ io'.sent = io.sent
        /\ io'.timeout = io.timeout /\ io'.start = io.start /\ io'.began = io.began
        /\ io'.wait_start = io.wait_start /\ io'.wait = io.wait /\ io'.left = left
    BY <1>1, <1>6, <2>2 DEF IoType, SelectNow
  <2>4. ASSUME io.timeout >= 0 PROVE WaitWithinCall'
    <3>1. /\ io.timeout < ClockRing /\ WaitWithinCall
      BY <1>1, <2>4, NetConstants DEF NetInv, CallInv
    <3>2. PICK begun \in io.began..time :
            /\ io.wait_start = (origin + begun) % ClockRing
            /\ io.wait \in Nat
            /\ begun + io.wait <= io.began + io.timeout
            /\ time <= begun + io.wait
      BY <3>1 DEF WaitWithinCall
    <3>3. begun \in Nat /\ begun <= time /\ io.wait <= io.timeout
      BY <1>1, <2>1, <3>2
    <3>4. time - begun < ClockRing
      BY <1>1, <2>1, <3>1, <3>2, <3>3, NetConstants
    <3>5. left = IF time - begun >= io.wait THEN 0 ELSE io.wait - (time - begun)
      BY <1>1, <3>2, <3>3, <3>4, RemainingIs
    <3>6. left \in Nat /\ time + left <= begun + io.wait
      BY <1>1, <3>2, <3>3, <3>5
    <3> HIDE DEF left
    <3>7. /\ begun \in io'.began..time'
          /\ io'.wait_start = (origin' + begun) % ClockRing
          /\ io'.wait \in Nat
          /\ begun + io'.wait <= io'.began + io'.timeout
          /\ time' <= begun + io'.wait
          /\ io'.left \in Nat /\ time' + io'.left <= begun + io'.wait
      BY <1>2, <2>3, <3>2, <3>6
    <3> QED BY <3>7 DEF WaitWithinCall
  <2>5. CallInv'
    BY <1>1, <1>2, <2>3, <2>4 DEF NetInv, CallInv
  <2>6. NetType' /\ SendInv' /\ HandlesInv'
    BY <1>1, <1>2, <2>3
    DEF NetInv, NetType, SendInv, HandlesInv, HandlesExact, socket_valid
  <2> QED BY <2>5, <2>6 DEF NetInv
<1>7. CASE select_ready
  BY <1>4, <1>5, <1>7 DEF select_ready
<1>8. CASE select_timeout
  BY <1>4, <1>8 DEF select_timeout
<1>9. CASE select_fails
  BY <1>4, <1>6, <1>9 DEF select_fails
<1> QED BY <1>7, <1>8, <1>9

(* A connection is accepted, or is gone, or cannot be set up.              *)
LEMMA AcceptInv ==
    ASSUME NetInv, net_tcp_accept
    PROVE  NetInv'
<1>1. io \in IoType /\ io.op = "tcp_accept" /\ io.at = "ready"
  BY DEF NetInv, NetType, net_tcp_accept
<1>2. UNCHANGED <<time, origin, wire>> /\ wire' = Bytes(1, Len(wire')) /\ Len(wire') \in Nat
  BY DEF net_tcp_accept, NetInv, SendInv
<1>3. ASSUME NEW r \in {"ok", "timeout", "error"}, Finish(r)
      PROVE  /\ NetType' /\ CallInv' /\ SendInv' /\ io'.at = "idle"
             /\ UNCHANGED <<handle, fds>> => HandlesInv'
  BY <1>1, <1>2, <1>3, FinishInv, FinishFields
<1>4. CASE UNCHANGED <<handle, fds>>
  BY <1>3, <1>4 DEF net_tcp_accept, NetInv
<1>5. CASE /\ handle' = [handle EXCEPT !["client"] = FreeFd]
           /\ fds' = fds \cup {FreeFd}
           /\ Finish("ok")
  <2>1. "client" \in Sockets /\ ~socket_valid("client")
    BY <1>1 DEF NetInv, HandlesInv, Sockets
  <2>2. handle' \in [Sockets -> 0..4] /\ HandlesExact'
    BY <1>5, <2>1, OpenedExact DEF NetInv
  <2>3. HandlesInv'
    BY <1>3, <1>5, <2>2 DEF HandlesInv
  <2> QED BY <1>3, <1>5, <2>3 DEF NetInv
<1> QED BY <1>4, <1>5 DEF net_tcp_accept

(* Data, nothing, or an error is received.                                 *)
LEMMA ReceiveInv ==
    ASSUME NetInv, net_tcp_recv \/ net_udp_recv
    PROVE  NetInv'
<1>1. PICK s \in Sockets : Received(s)
  BY DEF net_tcp_recv, net_udp_recv, Sockets
<1>2. io.op # "send_all"
  BY DEF net_tcp_recv, net_udp_recv
<1>3. UNCHANGED <<time, origin, handle, fds, wire>>
  BY <1>1 DEF Received
<1>4. wire' = Bytes(1, Len(wire')) /\ Len(wire') \in Nat
  BY <1>3 DEF NetInv, SendInv
<1>5. PICK r \in {"ok", "timeout", "error"} : Finish(r)
  BY <1>1 DEF Received
<1> QED BY <1>2, <1>3, <1>4, <1>5, FinishInv DEF NetInv

(* The smaller of two numbers bounds the other one's choice.               *)
LEMMA MinOfTwo ==
    ASSUME NEW a \in Int, NEW b \in Int
    PROVE  Min({a, b}) \in Int /\ Min({a, b}) <= a /\ Min({a, b}) <= b
<1>1. \E x \in {a, b} : \A y \in {a, b} : x <= y
  <2>1. CASE a <= b
    BY <2>1
  <2>2. CASE b <= a
    BY <2>2
  <2> QED BY <2>1, <2>2
<1>2. Min({a, b}) \in {a, b} /\ \A y \in {a, b} : Min({a, b}) <= y
  BY <1>1 DEF Min
<1> QED BY <1>2

(* After each part of a message the loop of net_tcp_send_all ends, times   *)
(* out, or waits for what is left of the call.                             *)
LEMMA SendAgainInv ==
    ASSUME NetInv, io.at = "ready", io.op = "send_all", NEW sent \in Nat, sent <= Length,
           SendAgain(sent), UNCHANGED <<time, origin, handle, fds>>,
           wire' = Bytes(1, sent), Len(wire') = sent
    PROVE  NetInv'
<1>1. NetType /\ origin \in Int /\ time \in Nat /\ io \in IoType
  BY OriginType DEF NetInv, NetType
<1>2. wire' = Bytes(1, Len(wire')) /\ Len(wire') \in Nat
  OBVIOUS
<1>3. CASE sent = Length
  <2>1. Finish("ok")
    BY <1>3 DEF SendAgain
  <2> QED BY <1>2, <1>3, <2>1, FinishInv DEF NetInv
<1>4. CASE Finish("timeout")
  BY <1>2, <1>4, FinishInv DEF NetInv
<1>5. CASE /\ sent # Length
           /\ ~(io.timeout >= 0 /\ remaining_ms(io.start, io.timeout) = 0)
           /\ io' = BeginWait([io EXCEPT !.sent = sent], remaining_ms(io.start, io.timeout))
  <2> DEFINE entry == [io EXCEPT !.sent = sent]
             w == remaining_ms(io.start, io.timeout)
  <2>1. io.start \in Int /\ io.timeout \in Int /\ io.began \in Nat
    BY <1>1 DEF IoType
  <2>2. w \in Int
    BY <1>1, <2>1, RemainingType
  <2>3. /\ entry \in IoType /\ entry.op = io.op /\ entry.timeout = io.timeout
        /\ entry.start = io.start /\ entry.began = io.began /\ entry.sent = sent
    BY <1>1 DEF IoType
  <2>4. /\ io.timeout \in Timeouts /\ io.start = (origin + io.began) % ClockRing
        /\ io.began <= time
    BY DEF NetInv, CallInv
  <2>5. ASSUME io.timeout >= 0
        PROVE  w >= 0 /\ time + w <= io.began + io.timeout
    <3>1. WaitWithinCall /\ io.timeout < ClockRing /\ io.timeout \in Nat
      BY <2>1, <2>4, <2>5, NetConstants DEF NetInv, CallInv
    <3>2. PICK begun \in io.began..time :
            io.wait \in Nat /\ begun + io.wait <= io.began + io.timeout /\ time <= begun + io.wait
      BY <3>1 DEF WaitWithinCall
    <3>3. time - io.began <= io.timeout /\ time - io.began < ClockRing
      <4>1. PICK a \in Int, b \in Int, c \in Int, d \in Int :
               a = io.began /\ b = io.timeout /\ c = ClockRing /\ d = io.wait
        BY <1>1, <2>1, <3>1, NetConstants DEF IoType
      <4>2. time \in Int /\ begun \in Int
        BY <1>1, <2>1, <3>2
      <4>3. b < c /\ begun + d <= a + b /\ time <= begun + d
        BY ONLY <3>1, <3>2, <4>1
      <4> QED BY ONLY <4>1, <4>2, <4>3
    <3>4. w = IF time - io.began >= io.timeout THEN 0 ELSE io.timeout - (time - io.began)
      BY <1>1, <2>1, <2>4, <3>1, <3>3, RemainingIs
    <3> QED BY <1>1, <2>1, <3>1, <3>3, <3>4
  <2>6. io' = BeginWait(entry, w)
    BY <1>5
  <2> HIDE DEF entry, w
  <2>7. NetType' /\ CallInv'
    BY <1>1, <2>2, <2>3, <2>4, <2>5, <2>6, BeginWaitInv
  <2>8. io'.at = "select" /\ io'.op = "send_all" /\ io'.sent = sent
    BY <1>1, <2>2, <2>3, <2>6, BeginWaitFields
  <2>9. SendInv'
    BY <1>2, <1>5, <2>8, NetConstants DEF SendInv
  <2>10. HandlesInv'
    BY <2>8 DEF NetInv, HandlesInv, HandlesExact, socket_valid
  <2> QED BY <2>7, <2>9, <2>10 DEF NetInv
<1> QED BY <1>3, <1>4, <1>5 DEF SendAgain

(* A part of the message is sent, none of it, or the send fails.           *)
LEMMA SendAllInv ==
    ASSUME NetInv, net_tcp_send_all, room \in Nat
    PROVE  NetInv'
<1>1. /\ io.at = "ready" /\ io.op = "send_all" /\ io.sent \in Nat
      /\ io.sent = Len(wire) /\ io.sent < Length /\ wire = Bytes(1, Len(wire))
      /\ UNCHANGED <<time, origin, handle, fds>>
  BY DEF net_tcp_send_all, NetInv, NetType, IoType, SendInv
<1>2. ASSUME NEW n \in 1 .. Min({room, Length - io.sent}),
             wire' = wire \o Unsent(n), SendAgain(io.sent + n)
      PROVE  NetInv'
  <2>1. Length - io.sent \in Int
    BY <1>1, NetConstants
  <2>2. n \in Nat /\ n <= Length - io.sent
    <3>1. room \in Int
      OBVIOUS
    <3>2. Min({room, Length - io.sent}) \in Int /\ Min({room, Length - io.sent}) <= Length - io.sent
      BY <2>1, <3>1, MinOfTwo, Zenon
    <3> QED BY <2>1, <3>2
  <2>3. wire' = Bytes(1, io.sent + n) /\ Len(wire') = io.sent + n
    BY <1>1, <1>2, <2>2, UnsentContinues
  <2>4. io.sent + n \in Nat /\ io.sent + n <= Length
    BY <1>1, <2>2, NetConstants
  <2> QED BY <1>1, <1>2, <2>3, <2>4, SendAgainInv
<1>3. CASE SendAgain(io.sent) /\ UNCHANGED <<room, wire>>
  <2>1. io.sent <= Length
    BY <1>1, NetConstants
  <2> QED BY <1>1, <1>3, <2>1, SendAgainInv
<1>4. CASE Finish("error") /\ UNCHANGED <<room, wire>>
  <2>1. wire' = Bytes(1, Len(wire')) /\ Len(wire') \in Nat
    BY <1>1, <1>4
  <2> QED BY <1>1, <1>4, <2>1, FinishInv DEF NetInv
<1> QED BY <1>2, <1>3, <1>4 DEF net_tcp_send_all

(* Time passes in select.                                                  *)
LEMMA NetTickInv ==
    ASSUME NetInv, NetTick
    PROVE  NetInv'
<1>1. NetType /\ origin \in Int /\ time \in Nat /\ io \in IoType /\ io.at = "select"
  BY OriginType DEF NetInv, NetType, NetTick
<1>2. /\ io.left # 0 /\ time' = time + 1
      /\ io' = [io EXCEPT !.left = IF io.left > 0 THEN io.left - 1 ELSE io.left]
      /\ UNCHANGED <<origin, handle, fds, wire>>
  BY DEF NetTick
<1>3. /\ io' \in IoType /\ io'.at = "select" /\ io'.op = io.op /\ io'.sent = io.sent
      /\ io'.timeout = io.timeout /\ io'.start = io.start /\ io'.began = io.began
      /\ io'.wait_start = io.wait_start /\ io'.wait = io.wait
      /\ io'.left = IF io.left > 0 THEN io.left - 1 ELSE io.left
  <2>1. io.left \in Int
    BY <1>1 DEF IoType
  <2>2. (IF io.left > 0 THEN io.left - 1 ELSE io.left) \in Int
    BY <2>1
  <2> QED BY <1>1, <1>2, <2>2 DEF IoType
<1>4. io.began \in Nat /\ io.timeout \in Int
  BY <1>1 DEF IoType
<1>5. ASSUME io.timeout >= 0 PROVE WaitWithinCall'
  <2>1. WaitWithinCall
    BY <1>1, <1>5 DEF NetInv, CallInv
  <2>2. PICK begun \in io.began..time :
          /\ io.wait_start = (origin + begun) % ClockRing
          /\ io.wait \in Nat
          /\ begun + io.wait <= io.began + io.timeout
          /\ io.left \in Nat /\ time + io.left <= begun + io.wait
    BY <1>1, <2>1 DEF WaitWithinCall
  <2>3. /\ begun \in io'.began..time'
        /\ io'.wait_start = (origin' + begun) % ClockRing
        /\ io'.wait \in Nat
        /\ begun + io'.wait <= io'.began + io'.timeout
        /\ time' <= begun + io'.wait
        /\ io'.left \in Nat /\ time' + io'.left <= begun + io'.wait
    BY <1>1, <1>2, <1>3, <1>4, <2>2
  <2> QED BY <2>3 DEF WaitWithinCall
<1>6. CallInv'
  BY <1>1, <1>2, <1>3, <1>4, <1>5 DEF NetInv, CallInv
<1>7. NetType' /\ SendInv' /\ HandlesInv'
  BY <1>1, <1>2, <1>3 DEF NetInv, NetType, SendInv, HandlesInv, HandlesExact, socket_valid
<1> QED BY <1>6, <1>7 DEF NetInv

(* The send buffer of the kernel never holds more than it can.             *)
LEMMA RoomInv ==
    ASSUME SocketInv, [NetNext]_netVars
    PROVE  room' \in 0..SendRoom
<1>1. room \in 0..SendRoom /\ SendRoom \in Nat /\ io.sent \in Nat /\ Length \in Nat
  BY NetConstants DEF SocketInv, NetInv, NetType, IoType
<1>2. CASE net_tcp_send_all
  <2>1. ASSUME NEW n \in 1 .. Min({room, Length - io.sent}), room' = room - n
        PROVE  room' \in 0..SendRoom
    <3>1. room \in Int /\ Length - io.sent \in Int
      BY <1>1
    <3>2. Min({room, Length - io.sent}) \in Int /\ Min({room, Length - io.sent}) <= room
      BY <3>1, MinOfTwo, Zenon
    <3> QED BY <1>1, <2>1, <3>2
  <2> QED BY <1>1, <1>2, <2>1 DEF net_tcp_send_all
<1>3. CASE PeerReads
  BY <1>1, <1>3 DEF PeerReads
<1>4. ASSUME NEW s \in Sockets, net_close(s)
      PROVE  room' \in 0..SendRoom
  BY <1>1, <1>4 DEF net_close
<1>5. CASE room' = room
  BY <1>1, <1>5
<1> QED BY <1>2, <1>3, <1>4, <1>5
        DEF NetNext, netVars, open_bound, PeerWrites, Dropped, Enter, select_ready,
            select_timeout, select_fails, net_tcp_accept, net_tcp_recv, net_udp_recv, Received,
            NetTick

(* Every step keeps the invariant of the socket layer.                     *)
LEMMA NetNextInv ==
    ASSUME SocketInv, [NetNext]_netVars
    PROVE  SocketInv'
<1>1. NetInv /\ room \in Nat
  BY NetConstants DEF SocketInv
<1>2. ASSUME NEW s \in Sockets, open_bound(s) \/ net_close(s)
      PROVE  NetInv'
  BY <1>1, <1>2, OpenCloseInv
<1>3. ASSUME UNCHANGED <<time, origin, wire, io, handle, fds>>
      PROVE  NetInv'
  BY <1>1, <1>3, NetQuiet DEF NetInv
<1>4. ASSUME NEW op \in Operations, NEW t \in Timeouts, Enter(op, t)
      PROVE  NetInv'
  BY <1>1, <1>4, EnterInv
<1>5. ASSUME select_ready \/ select_timeout \/ select_fails
      PROVE  NetInv'
  BY <1>1, <1>5, SelectInv
<1>6. ASSUME net_tcp_accept \/ net_tcp_recv \/ net_udp_recv
      PROVE  NetInv'
  BY <1>1, <1>6, AcceptInv, ReceiveInv
<1>7. ASSUME net_tcp_send_all \/ NetTick
      PROVE  NetInv'
  BY <1>1, <1>7, SendAllInv, NetTickInv
<1>8. NetInv'
  BY <1>2, <1>3, <1>4, <1>5, <1>6, <1>7
  DEF NetNext, netVars, PeerWrites, Dropped, PeerReads
<1> QED BY <1>8, RoomInv DEF SocketInv

(* The socket layer starts with nothing open and no call.                  *)
LEMMA NetInitInv == NetInit => SocketInv
<1> SUFFICES ASSUME NetInit PROVE SocketInv
  OBVIOUS
<1>1. io = Idle /\ io.at = "idle" /\ io.op = "none" /\ Idle \in IoType
  BY DEF NetInit, Idle, IoType
<1>2. NetType /\ CallInv
  BY <1>1 DEF NetInit, NetType, CallInv
<1>3. handle = [s \in Sockets |-> 0] /\ fds = {}
  BY DEF NetInit, NoHandle
<1>4. HandlesInv
  BY <1>1, <1>3 DEF HandlesInv, HandlesExact, socket_valid, NoHandle
<1>5. <<>> = Bytes(1, 0)
  BY DEF Bytes
<1>6. SendInv
  BY <1>1, <1>5 DEF NetInit, SendInv
<1>7. room \in 0..SendRoom
  BY NetConstants DEF NetInit
<1> QED BY <1>2, <1>4, <1>6, <1>7 DEF SocketInv, NetInv

(* The socket layer keeps its account of descriptors, calls and bytes.     *)
THEOREM SocketLayer == NetSpec => []SocketInv
BY NetInitInv, NetNextInv, PTL DEF NetSpec

(* Every descriptor that is open belongs to exactly one socket of the      *)
(* program: no path of open_bound or net_tcp_accept leaks one, and closing *)
(* a socket twice never closes another one's.                              *)
THEOREM HandlesAreExact == NetSpec => []HandlesExact
<1>1. SocketInv => HandlesExact
  BY DEF SocketInv, NetInv, HandlesInv
<1> QED BY <1>1, SocketLayer, PTL

(* A call of net.h with a timeout ends within it, for every timeout below  *)
(* the period of the clock, wherever the clock wraps and however often     *)
(* select is interrupted or a send is partial.                             *)
THEOREM CallsAreBounded == NetSpec => []CallBounded
<1>1. SocketInv => CallBounded
  <2> SUFFICES ASSUME SocketInv, io.at # "idle", io.timeout >= 0
               PROVE  time - io.began <= io.timeout
    BY DEF CallBounded
  <2>1. WaitWithinCall /\ time \in Nat /\ io.began \in Nat /\ io.timeout \in Int
    BY DEF SocketInv, NetInv, NetType, CallInv, IoType
  <2>2. PICK begun \in io.began..time :
          io.wait \in Nat /\ begun + io.wait <= io.began + io.timeout /\ time <= begun + io.wait
    BY <2>1 DEF WaitWithinCall
  <2> QED BY <2>1, <2>2
<1> QED BY <1>1, SocketLayer, PTL

(* net_tcp_send_all gives the kernel the message from its start, nothing   *)
(* twice and nothing left out, for every length and buffer, and reports    *)
(* success only for all of it.                                             *)
THEOREM MessagesAreSentExactly == NetSpec => []SentExact
<1>1. SocketInv => SentExact
  BY DEF SocketInv, NetInv, SendInv, SentExact
<1> QED BY <1>1, SocketLayer, PTL

----------------------------------------------------------------------------
(* The output side: how long a write has lasted.                           *)

(* The places in audio_write.                                              *)
Writing == call.at \in {"write", "claimed", "wait", "woken"}

(* A call has these fields; the values of packet, due and written do not   *)
(* matter here.                                                            *)
CallShape(c) ==
    /\ c = [at |-> c.at, packet |-> c.packet, due |-> c.due, written |-> c.written,
            since |-> c.since, attempts |-> c.attempts]
   
      /\ c.since \in Nat /\ c.attempts \in Nat

Spent == now - call.since

(* ALSA and waveOut look at the clock before they go on, waveOut also      *)
(* before it sleeps; AudioQueue counts its sleeps instead, and no sleep    *)
(* lasts longer than a tick.                                               *)
WriteInv ==
    /\ now \in Nat
    /\ CallShape(call)
    /\ Writing =>
        /\ 0 <= Spent
        /\ call.at \in {"write", "claimed"} => Spent <= WriteTime
        /\ call.at = "wait" => Spent <= WriteTime
        /\ call.at = "wait" /\ backend = "waveout" => Spent < WriteTime
        /\ call.at = "woken" => Spent <= WriteTime + 1
        /\ call.at = "woken" /\ backend = "waveout" => Spent <= WriteTime
        /\ backend = "audioqueue" => Spent <= call.attempts /\ call.attempts <= WriteTime
        /\ backend = "audioqueue" /\ call.at = "wait" => Spent < call.attempts

(* The call record after one of its fields is replaced.                    *)
LEMMA AtExcept ==
    ASSUME NEW c, CallShape(c), NEW place
    PROVE  /\ CallShape([c EXCEPT !.at = place])
           /\ [c EXCEPT !.at = place].at = place
           /\ [c EXCEPT !.at = place].since = c.since
           /\ [c EXCEPT !.at = place].attempts = c.attempts
<1>1. [c EXCEPT !.at = place] =
        [at |-> place, packet |-> c.packet, due |-> c.due, written |-> c.written,
         since |-> c.since, attempts |-> c.attempts]
  BY DEF CallShape
<1> QED BY <1>1 DEF CallShape

(* The counter of attempts goes on; call and start of the call stay.      *)
LEMMA AttemptsExcept ==
    ASSUME NEW c, CallShape(c), NEW n \in Nat
    PROVE  /\ CallShape([c EXCEPT !.attempts = n])
           /\ [c EXCEPT !.attempts = n].at = c.at
           /\ [c EXCEPT !.attempts = n].since = c.since
           /\ [c EXCEPT !.attempts = n].attempts = n
<1>1. [c EXCEPT !.attempts = n] =
        [at |-> c.at, packet |-> c.packet, due |-> c.due, written |-> c.written,
         since |-> c.since, attempts |-> n]
  BY DEF CallShape
<1> QED BY <1>1 DEF CallShape

(* So do they when another count of frames is written.                     *)
LEMMA WrittenExcept ==
    ASSUME NEW c, CallShape(c), NEW w
    PROVE  /\ CallShape([c EXCEPT !.written = w])
           /\ [c EXCEPT !.written = w].since = c.since
<1>1. [c EXCEPT !.written = w] =
        [at |-> c.at, packet |-> c.packet, due |-> c.due, written |-> w,
         since |-> c.since, attempts |-> c.attempts]
  BY DEF CallShape
<1> QED BY <1>1 DEF CallShape

(* The deadline of a write.                                                *)
LEMMA WriteTimeType == WriteTime \in Nat /\ Attempts \in Nat
BY OutputAssumption

(* No call: nothing to account for.                                        *)
LEMMA NoWrite ==
    ASSUME now' \in Nat, call' = NoCall \/ call' = [NoCall EXCEPT !.at = "closed"]
    PROVE  WriteInv'
<1>1. CallShape(NoCall) /\ CallShape([NoCall EXCEPT !.at = "closed"])
  BY DEF CallShape, NoCall
<1>2. call'.at \notin {"write", "claimed", "wait", "woken"}
  BY DEF NoCall
<1> QED BY <1>1, <1>2 DEF WriteInv, Writing, CallShape

(* The end of the ALSA loop: the next write begins in time.                *)
LEMMA LoopTestKeeps ==
    ASSUME now \in Nat, NEW c, CallShape(c), 0 <= now - c.since,
           backend # "audioqueue", LoopTest(c), UNCHANGED <<now, backend>>
    PROVE  WriteInv'
<1>1. CASE call' = NoCall
  BY <1>1, NoWrite
<1>2. CASE /\ now - c.since < WriteTime
           /\ call' = [c EXCEPT !.at = "write", !.attempts = @ + 1]
  <2> DEFINE n == c.attempts + 1
             d == [c EXCEPT !.at = "write"]
  <2>1. n \in Nat
    BY DEF CallShape
  <2>2. CallShape(d) /\ d.at = "write" /\ d.since = c.since /\ call' = [d EXCEPT !.attempts = n]
    BY <1>2, AtExcept, Zenon
  <2> HIDE DEF n, d
  <2>3. CallShape(call') /\ call'.at = "write" /\ call'.since = c.since
        /\ call'.attempts = n
    BY <2>1, <2>2, AttemptsExcept, Zenon
  <2>4. c.since \in Nat /\ Spent' = now - c.since
    BY <2>3 DEF CallShape, Spent
  <2>5. CallShape(call)'
    BY <2>3 DEF CallShape
  <2> QED BY <1>2, <2>3, <2>4, <2>5, WriteTimeType DEF WriteInv, Writing
<1>3. now - c.since >= WriteTime \/ now - c.since < WriteTime
  BY WriteTimeType DEF CallShape
<1> QED BY <1>1, <1>2, <1>3 DEF LoopTest, Return, Continue

(* The ALSA driver.                                                        *)
LEMMA AlsaKeeps ==
    ASSUME WriteInv, alsa_write \/ alsa_wait
    PROVE  WriteInv'
<1>1. /\ backend = "alsa" /\ UNCHANGED <<now, backend>> /\ now \in Nat /\ CallShape(call)
      /\ call.at \in {"write", "wait", "woken"}
  BY DEF alsa_write, alsa_wait, WriteInv
<1>2. 0 <= now - call.since
  BY <1>1 DEF WriteInv, Writing, Spent
<1>3. CASE call' = NoCall
  BY <1>1, <1>3, NoWrite
<1>4. CASE LoopTest(call)
  BY <1>1, <1>2, <1>4, LoopTestKeeps
<1>5. ASSUME NEW n, LoopTest([call EXCEPT !.written = @ + n])
      PROVE  WriteInv'
  <2> DEFINE w == call.written + n
             c == [call EXCEPT !.written = w]
  <2> HIDE DEF w
  <2>1. CallShape(c) /\ c.since = call.since
    BY <1>1, WrittenExcept
  <2>2. LoopTest(c)
    BY <1>5 DEF w
  <2> HIDE DEF c
  <2> QED BY <1>1, <1>2, <2>1, <2>2, LoopTestKeeps
<1>6. CASE call.at = "write" /\ call' = [call EXCEPT !.at = "wait"]
  <2>1. CallShape(call') /\ call'.at = "wait" /\ call'.since = call.since
    BY <1>1, <1>6, AtExcept, Zenon
  <2>2. CallShape(call)' /\ Spent' = Spent
    BY <1>1, <2>1 DEF CallShape, Spent
  <2> QED BY <1>1, <1>6, <2>1, <2>2 DEF WriteInv, Writing
<1> QED BY <1>3, <1>4, <1>5, <1>6
        DEF alsa_write, alsa_wait, writei_accepts, writei_underrun, writei_waits,
            writei_fails, Return, Continue

(* The AudioQueue driver.                                                  *)
LEMMA QueueKeeps ==
    ASSUME WriteInv, queue_claim \/ queue_enqueue
    PROVE  WriteInv'
<1>1. /\ backend = "audioqueue" /\ UNCHANGED <<now, backend>> /\ now \in Nat
      /\ CallShape(call) /\ call.at \in {"write", "claimed"}
  BY DEF queue_claim, queue_enqueue, WriteInv
<1>2. /\ 0 <= Spent /\ Spent <= call.attempts /\ call.attempts <= WriteTime
      /\ call.since \in Nat /\ call.attempts \in Nat /\ Spent = now - call.since
  BY <1>1 DEF WriteInv, Writing, CallShape, Spent
<1>3. CASE call' = NoCall
  BY <1>1, <1>3, NoWrite
<1>4. CASE call' = [call EXCEPT !.at = "claimed"]
  <2>1. CallShape(call') /\ call'.at = "claimed" /\ call'.since = call.since
        /\ call'.attempts = call.attempts
    BY <1>1, <1>4, AtExcept, Zenon
  <2>2. CallShape(call)' /\ Spent' = Spent
    BY <1>1, <2>1 DEF CallShape, Spent
  <2> QED BY <1>1, <1>2, <2>1, <2>2, WriteTimeType DEF WriteInv, Writing
<1>5. CASE /\ call.attempts < WriteTime
           /\ call' = [call EXCEPT !.at = "wait", !.attempts = @ + 1]
  <2> DEFINE n == call.attempts + 1
             d == [call EXCEPT !.at = "wait"]
  <2>1. n \in Nat
    BY <1>2
  <2>2. CallShape(d) /\ d.at = "wait" /\ d.since = call.since /\ call' = [d EXCEPT !.attempts = n]
    BY <1>1, <1>5, AtExcept, Zenon
  <2> HIDE DEF n, d
  <2>3. CallShape(call') /\ call'.at = "wait" /\ call'.since = call.since
        /\ call'.attempts = n
    BY <2>1, <2>2, AttemptsExcept, Zenon
  <2>4. CallShape(call)' /\ Spent' = Spent
    BY <1>1, <2>3 DEF CallShape, Spent
  <2>5. Spent < n /\ n <= WriteTime /\ Spent <= WriteTime
    BY <1>1, <1>2, <1>5, WriteTimeType DEF n
  <2> QED BY <1>1, <1>2, <2>1, <2>3, <2>4, <2>5, WriteTimeType DEF WriteInv, Writing
<1> QED BY <1>3, <1>4, <1>5 DEF queue_claim, queue_enqueue, Return, Continue

(* The waveOut driver and the board's.                                     *)
LEMMA WaveKeeps ==
    ASSUME WriteInv, wave_write \/ board_write
    PROVE  WriteInv'
<1>1. /\ backend \in {"waveout", "board"} /\ UNCHANGED <<now, backend>> /\ now \in Nat
      /\ CallShape(call) /\ call.at = "write"
  BY DEF wave_write, board_write, WriteInv
<1>2. 0 <= Spent /\ Spent = now - call.since /\ Spent \in Int
  BY <1>1 DEF WriteInv, Writing, CallShape, Spent
<1>3. CASE call' = NoCall
  BY <1>1, <1>3, NoWrite
<1>4. CASE ~(now - call.since >= WriteTime) /\ call' = [call EXCEPT !.at = "wait"]
  <2>1. CallShape(call') /\ call'.at = "wait" /\ call'.since = call.since
    BY <1>1, <1>4, AtExcept, Zenon
  <2>2. CallShape(call)' /\ Spent' = Spent
    BY <1>1, <2>1 DEF CallShape, Spent
  <2>3. Spent < WriteTime /\ Spent <= WriteTime
    BY <1>2, <1>4, WriteTimeType
  <2> QED BY <1>1, <1>2, <2>1, <2>2, <2>3 DEF WriteInv, Writing
<1> QED BY <1>3, <1>4 DEF wave_write, board_write, Return, Continue

(* A sleep ends.                                                           *)
LEMMA WakeKeeps ==
    ASSUME WriteInv, Wake
    PROVE  WriteInv'
<1>1. /\ \/ backend = "waveout" /\ call.at = "woken"
         \/ backend = "audioqueue" /\ call.at \in {"wait", "woken"}
      /\ UNCHANGED <<now, backend>> /\ now \in Nat /\ CallShape(call)
      /\ call' = [call EXCEPT !.at = "write"]
  BY DEF Wake, WriteInv
<1>2. CallShape(call') /\ call'.at = "write" /\ call'.since = call.since
      /\ call'.attempts = call.attempts
  BY <1>1, AtExcept, Zenon
<1>3. CallShape(call)' /\ Spent' = Spent
  BY <1>1, <1>2 DEF CallShape, Spent
<1>4. Spent \in Int /\ call.attempts \in Nat
  BY <1>1 DEF CallShape, Spent
<1>5. Spent <= WriteTime
  BY <1>1, <1>4, WriteTimeType DEF WriteInv, Writing
<1> QED BY <1>1, <1>2, <1>3, <1>5 DEF WriteInv, Writing

(* Time passes, in a write only while it sleeps.                           *)
LEMMA OutputTickKeeps ==
    ASSUME WriteInv, Tick
    PROVE  WriteInv'
<1>1. /\ now' = now + 1 /\ backend' = backend /\ now \in Nat /\ CallShape(call)
      /\ call.at \in {"closed", "poll", "wait"}
      /\ call' = IF call.at = "wait" THEN [call EXCEPT !.at = "woken"] ELSE call
  BY DEF Tick, WriteInv
<1>2. CASE call.at = "wait"
  <2>1. CallShape(call') /\ call'.at = "woken" /\ call'.since = call.since
        /\ call'.attempts = call.attempts
    BY <1>1, <1>2, AtExcept, Zenon
  <2>2. call.since \in Nat /\ call.attempts \in Nat /\ Spent = now - call.since
    BY <1>1 DEF CallShape, Spent
  <2>3. CallShape(call)' /\ Spent' = Spent + 1 /\ Spent \in Int
    BY <1>1, <2>1, <2>2 DEF CallShape, Spent
  <2>4. 0 <= Spent /\ Spent <= WriteTime /\ (backend = "waveout" => Spent < WriteTime)
        /\ (backend = "audioqueue" => Spent < call.attempts /\ call.attempts <= WriteTime)
    BY <1>2 DEF WriteInv, Writing
  <2>5. now' \in Nat
    BY <1>1
  <2> HIDE DEF Spent
  <2>6. 0 <= Spent' /\ Spent' <= WriteTime + 1 /\ (backend = "waveout" => Spent' <= WriteTime)
        /\ (backend = "audioqueue" => Spent' <= call.attempts)
    BY <2>2, <2>3, <2>4, WriteTimeType
  <2> QED BY <1>1, <2>1, <2>3, <2>4, <2>5, <2>6 DEF WriteInv, Writing
<1>3. CASE call.at # "wait"
  BY <1>1, <1>3 DEF WriteInv, Writing, CallShape
<1> QED BY <1>2, <1>3

(* A write begins.                                                         *)
LEMMA SubmitKeeps ==
    ASSUME WriteInv, Submit
    PROVE  WriteInv'
<1>1. /\ UNCHANGED <<now, backend>> /\ now \in Nat
      /\ call' = [at |-> "write", packet |-> HeadPacket, due |-> Deadline(HeadPacket),
                  written |-> 0, since |-> now, attempts |-> 0]
  BY DEF Submit, WriteInv
<1>2. call'.at = "write" /\ call'.since = now /\ call'.attempts = 0
  BY <1>1
<1>3. CallShape(call)'
  BY <1>1 DEF CallShape
<1>4. Spent' = 0
  BY <1>1, <1>2 DEF Spent
<1> QED BY <1>1, <1>2, <1>3, <1>4, WriteTimeType DEF WriteInv, Writing

(* Every write of every driver is accounted for.                           *)
LEMMA WritesAccounted == OutputSpec => []WriteInv
<1>1. OutputInit => WriteInv
  <2> SUFFICES ASSUME OutputInit PROVE WriteInv
    OBVIOUS
  <2>1. CallShape(call) /\ call.at = "closed"
    BY DEF OutputInit, CallShape, NoCall
  <2> QED BY <2>1 DEF OutputInit, WriteInv, Writing
<1>2. WriteInv /\ [OutputNext]_outputVars => WriteInv'
  <2> SUFFICES ASSUME WriteInv, [OutputNext]_outputVars PROVE WriteInv'
    OBVIOUS
  <2>1. CASE UNCHANGED <<now, backend, call>>
    BY <2>1 DEF WriteInv, Writing, CallShape, Spent
  <2>2. CASE now' = now /\ (call' = NoCall \/ call' = [NoCall EXCEPT !.at = "closed"])
    BY <2>2, NoWrite DEF WriteInv
  <2>3. CASE DelayFails \/ TooEarly \/ DropPacket \/ Stall \/ Sync \/ StopRequest \/ Ended
    BY <2>1, <2>3 DEF DelayFails, TooEarly, DropPacket, Stall, Sync, StopRequest, Ended,
                      outputVars
  <2>4. CASE Submit
    BY <2>4, SubmitKeeps
  <2>5. CASE audio_write
    BY <2>5, AlsaKeeps, QueueKeeps, WaveKeeps, WakeKeeps DEF audio_write
  <2>6. CASE \E i \in Slots : buffer_finished(i)
    BY <2>1, <2>6 DEF buffer_finished
  <2>7. CASE Tick
    BY <2>7, OutputTickKeeps
  <2>8. CASE \E p \in 1 .. Packets[backend] : Arrive(p)
    BY <2>1, <2>8 DEF Arrive
  <2>9. CASE alsa_open \/ queue_open \/ wave_open \/ board_open
    BY <2>1, <2>2, <2>9 DEF alsa_open, queue_open, wave_open, board_open, Open
  <2>10. CASE close_audio
    BY <2>2, <2>10 DEF close_audio, alsa_close, queue_close, wave_close, board_close,
                       Close
  <2>11. CASE UNCHANGED outputVars
    BY <2>1, <2>11 DEF outputVars
  <2> QED BY <2>3, <2>4, <2>5, <2>6, <2>7, <2>8, <2>9, <2>10, <2>11 DEF OutputNext
<1> QED BY <1>1, <1>2, PTL DEF OutputSpec

(* audio_write of every driver returns within its deadline and one sleep,  *)
(* whatever the hardware takes, refuses or signals.                        *)
THEOREM WritesAreBounded == OutputSpec => []WriteBounded
<1>1. WriteInv => WriteBounded
  <2> SUFFICES ASSUME WriteInv, Writing PROVE Spent <= WriteTime + 1
    BY DEF WriteBounded, Writing, Spent
  <2>1. Spent \in Int
    BY DEF WriteInv, CallShape, Spent
  <2> HIDE DEF Spent
  <2> QED BY <2>1, WriteTimeType DEF WriteInv, Writing
<1> QED BY <1>1, WritesAccounted, PTL

----------------------------------------------------------------------------
(* Induction along an interval, from the least number principle.           *)

(* The least number principle, for a set.                                  *)
LEMMA LeastNumber ==
    ASSUME NEW T, T \subseteq Nat, T # {}
    PROVE  \E n \in T : \A m \in T : n <= m
<1> DEFINE less == {ss \in Nat \X Nat : ss[1] < ss[2]}
<1>1. IsWellFoundedOn(less, Nat)
  BY NatLessThanWellFounded DEF OpToRel
<1>2. \A m, n \in Nat : m < n => <<m, n>> \in less
  OBVIOUS
<1> HIDE DEF less
<1>3. PICK n \in T : \A m \in T : ~(<<m, n>> \in less)
  BY <1>1, WFMin
<1>4. \A m \in T : ~(m < n)
  BY <1>2, <1>3, Zenon
<1>5. \A m \in T : n <= m
  BY <1>4
<1> QED BY <1>5

(* What holds at 1 and of every successor holds up to n.                   *)
LEMMA AlongInterval ==
    ASSUME NEW n \in Nat, NEW S, n >= 1 => 1 \in S,
           \A k \in 1 .. n : k + 1 <= n /\ k \in S => k + 1 \in S
    PROVE  \A k \in 1 .. n : k \in S
<1> DEFINE T == {k \in 1 .. n : k \notin S}
<1> SUFFICES ASSUME T # {} PROVE FALSE
  OBVIOUS
<1>1. T \subseteq Nat
  OBVIOUS
<1>2. PICK k \in T : \A m \in T : k <= m
  BY <1>1, LeastNumber
<1>3. k \in 1 .. n /\ k \notin S /\ k # 1
  OBVIOUS
<1>4. k - 1 \in 1 .. n /\ ~(k <= k - 1)
  BY <1>3
<1>5. k - 1 \in S
  BY <1>2, <1>4
<1>6. (k - 1) + 1 = k /\ (k - 1) + 1 <= n
  BY <1>3
<1> QED BY <1>3, <1>4, <1>5, <1>6

----------------------------------------------------------------------------
(* The frames of several buffers behind each other.                        *)

(* g[i] is the first i parts joined, up to n of them.                      *)
JoinsTo(n, g, parts) ==
    g = [i \in 1 .. n |-> IF i = 1 THEN parts[i] ELSE g[i - 1] \o parts[i]]

Joins(g, parts) == JoinsTo(Len(parts), g, parts)

(* What FlattenSeq computes.                                               *)
LEMMA FlattenIs ==
    ASSUME NEW parts, Len(parts) # 0
    PROVE  FlattenSeq(parts) = (CHOOSE g : Joins(g, parts))[Len(parts)]
BY DEF FlattenSeq, Joins, JoinsTo

(* There are such prefixes.                                                *)
LEMMA JoinsExist ==
    ASSUME NEW parts, Len(parts) \in Nat, Len(parts) >= 1
    PROVE  \E g : Joins(g, parts)
<1> DEFINE n == Len(parts)
           T == {k \in 1 .. n : \E g : JoinsTo(k, g, parts)}
<1>1. 1 \in T
  <2> DEFINE g == [i \in 1 .. 1 |-> parts[1]]
  <2>1. g = [i \in 1 .. 1 |-> IF i = 1 THEN parts[i] ELSE g[i - 1] \o parts[i]]
    OBVIOUS
  <2>2. JoinsTo(1, g, parts)
    BY <2>1 DEF JoinsTo
  <2> QED BY <2>2
<1>2. ASSUME NEW k \in 1 .. n, k + 1 <= n, k \in T
      PROVE  k + 1 \in T
  <2>1. PICK g : JoinsTo(k, g, parts)
    BY <1>2
  <2>2. PICK x : x = g[k] \o parts[k + 1]
    OBVIOUS
  <2> DEFINE h == [i \in 1 .. k + 1 |-> IF i = k + 1 THEN x ELSE g[i]]
  <2>3. h[k + 1] = x /\ \A i \in 1 .. k : h[i] = g[i]
    OBVIOUS
  <2>4. h = [i \in 1 .. k + 1 |-> h[i]]
    OBVIOUS
  <2> HIDE DEF h
  <2>5. \A i \in 1 .. k + 1 : h[i] = IF i = 1 THEN parts[i] ELSE h[i - 1] \o parts[i]
    <3> SUFFICES ASSUME NEW i \in 1 .. k + 1
                 PROVE  h[i] = IF i = 1 THEN parts[i] ELSE h[i - 1] \o parts[i]
      OBVIOUS
    <3>1. CASE i = k + 1
      <4>1. i # 1 /\ i - 1 = k /\ k \in 1 .. k
        BY <3>1
      <4> QED BY <2>2, <2>3, <3>1, <4>1
    <3>2. CASE i # k + 1
      <4>1. i \in 1 .. k /\ (i # 1 => i - 1 \in 1 .. k)
        BY <3>2
      <4>2. g[i] = IF i = 1 THEN parts[i] ELSE g[i - 1] \o parts[i]
        BY <2>1, <4>1 DEF JoinsTo
      <4> QED BY <2>3, <4>1, <4>2
    <3> QED BY <3>1, <3>2
  <2>6. JoinsTo(k + 1, h, parts)
    BY <2>4, <2>5 DEF JoinsTo
  <2>7. k + 1 \in 1 .. n
    BY <1>2
  <2> QED BY <2>6, <2>7
<1> HIDE DEF T
<1>3. \A k \in 1 .. n : k \in T
  BY <1>1, <1>2, AlongInterval
<1>4. n \in T
  BY <1>3
<1> QED BY <1>4 DEF T, Joins

(* Of parts that begin alike they are alike.                               *)
LEMMA JoinsAgree ==
    ASSUME NEW p, NEW q, NEW g, NEW h, Joins(g, p), Joins(h, q),
           Len(p) \in Nat, Len(q) \in Nat, Len(p) <= Len(q),
           \A i \in 1 .. Len(p) : p[i] = q[i]
    PROVE  \A i \in 1 .. Len(p) : g[i] = h[i]
<1> DEFINE T == {i \in 1 .. Len(p) : g[i] = h[i]}
<1>1. \A i \in 1 .. Len(p) : g[i] = IF i = 1 THEN p[i] ELSE g[i - 1] \o p[i]
  BY DEF Joins, JoinsTo
<1>2. \A i \in 1 .. Len(q) : h[i] = IF i = 1 THEN q[i] ELSE h[i - 1] \o q[i]
  BY DEF Joins, JoinsTo
<1>3. Len(p) >= 1 => 1 \in T
  BY <1>1, <1>2
<1>4. ASSUME NEW k \in 1 .. Len(p), k + 1 <= Len(p), k \in T
      PROVE  k + 1 \in T
  <2>1. k + 1 \in 1 .. Len(p) /\ k + 1 \in 1 .. Len(q) /\ k + 1 # 1 /\ (k + 1) - 1 = k
    BY <1>4
  <2>2. g[k + 1] = g[k] \o p[k + 1] /\ h[k + 1] = h[k] \o q[k + 1]
    BY <1>1, <1>2, <2>1
  <2> QED BY <1>4, <2>1, <2>2
<1> HIDE DEF T
<1>5. \A i \in 1 .. Len(p) : i \in T
  BY <1>3, <1>4, AlongInterval
<1> QED BY <1>5 DEF T

(* A choice of the prefixes; the last is what FlattenSeq computes.         *)
LEMMA FlattenPrefixes ==
    ASSUME NEW S, NEW parts \in Seq(Seq(S)), parts # <<>>
    PROVE  \E g : /\ Joins(g, parts)
                  /\ FlattenSeq(parts) = g[Len(parts)]
                  /\ \A i \in 1 .. Len(parts) : g[i] \in Seq(S)
<1>1. Len(parts) \in Nat /\ Len(parts) >= 1 /\ \A i \in 1 .. Len(parts) : parts[i] \in Seq(S)
  OBVIOUS
<1>2. PICK g : g = CHOOSE h : Joins(h, parts)
  OBVIOUS
<1>3. Joins(g, parts)
  BY <1>1, <1>2, JoinsExist, Zenon
<1>4. FlattenSeq(parts) = g[Len(parts)]
  BY <1>1, <1>2, FlattenIs
<1>5. \A i \in 1 .. Len(parts) : g[i] = IF i = 1 THEN parts[i] ELSE g[i - 1] \o parts[i]
  BY <1>3 DEF Joins, JoinsTo
<1> DEFINE T == {i \in 1 .. Len(parts) : g[i] \in Seq(S)}
<1>6. 1 \in T
  BY <1>1, <1>5
<1>7. ASSUME NEW k \in 1 .. Len(parts), k + 1 <= Len(parts), k \in T
      PROVE  k + 1 \in T
  <2>1. k + 1 \in 1 .. Len(parts) /\ k + 1 # 1 /\ (k + 1) - 1 = k
    BY <1>1, <1>7
  <2>2. g[k + 1] = g[k] \o parts[k + 1]
    BY <1>5, <2>1
  <2>3. g[k] \in Seq(S) /\ parts[k + 1] \in Seq(S)
    BY <1>1, <1>7, <2>1
  <2>4. g[k + 1] \in Seq(S)
    BY <2>2, <2>3, ConcatProperties
  <2> QED BY <2>1, <2>4
<1> HIDE DEF T
<1>8. \A i \in 1 .. Len(parts) : i \in T
  BY <1>1, <1>6, <1>7, AlongInterval
<1> QED BY <1>3, <1>4, <1>8 DEF T

(* Nothing flattens to nothing.                                            *)
LEMMA FlattenEmpty == FlattenSeq(<<>>) = <<>>
BY DEF FlattenSeq

(* The result is a sequence of the same elements.                          *)
LEMMA FlattenType ==
    ASSUME NEW S, NEW parts \in Seq(Seq(S))
    PROVE  FlattenSeq(parts) \in Seq(S)
<1>1. CASE parts = <<>>
  BY <1>1, FlattenEmpty, EmptySeq
<1>2. CASE parts # <<>>
  <2>1. Len(parts) \in 1 .. Len(parts)
    BY <1>2
  <2> QED BY <1>2, <2>1, FlattenPrefixes
<1> QED BY <1>1, <1>2

(* One more part comes behind the others.                                  *)
LEMMA FlattenAppend ==
    ASSUME NEW S, NEW parts \in Seq(Seq(S)), NEW x \in Seq(S)
    PROVE  FlattenSeq(Append(parts, x)) = FlattenSeq(parts) \o x
<1> DEFINE n == Len(parts)
<1>1. PICK more : more = Append(parts, x)
  OBVIOUS
<1>2. /\ more \in Seq(Seq(S)) /\ more # <<>> /\ Len(more) = n + 1 /\ n \in Nat
      /\ \A i \in 1 .. n : more[i] = parts[i]
      /\ more[n + 1] = x
  BY <1>1
<1>3. PICK h : Joins(h, more) /\ FlattenSeq(more) = h[Len(more)]
  BY <1>2, FlattenPrefixes
<1>4. \A i \in 1 .. n + 1 : h[i] = IF i = 1 THEN more[i] ELSE h[i - 1] \o more[i]
  BY <1>2, <1>3 DEF Joins, JoinsTo
<1>5. CASE n = 0
  <2>1. parts = <<>>
    BY <1>5
  <2>2. FlattenSeq(parts) = <<>>
    BY <2>1, FlattenEmpty
  <2>3. h[n + 1] = x /\ <<>> \o x = x
    BY <1>2, <1>4, <1>5
  <2> QED BY <1>1, <1>2, <1>3, <2>2, <2>3
<1>6. CASE n # 0
  <2>1. parts # <<>> /\ n \in 1 .. n /\ n + 1 \in 1 .. n + 1 /\ n + 1 # 1 /\ (n + 1) - 1 = n
    BY <1>2, <1>6
  <2>2. PICK g : Joins(g, parts) /\ FlattenSeq(parts) = g[n]
    BY <2>1, FlattenPrefixes
  <2>3. n <= Len(more) /\ Len(more) \in Nat /\ \A i \in 1 .. n : parts[i] = more[i]
    BY <1>2
  <2>4. \A i \in 1 .. n : g[i] = h[i]
    BY ONLY n \in Nat, <1>3, <2>2, <2>3, JoinsAgree
  <2>5. h[n + 1] = h[n] \o x
    BY <1>2, <1>4, <2>1
  <2> QED BY <1>1, <1>2, <1>3, <2>1, <2>2, <2>4, <2>5
<1> QED BY <1>5, <1>6

(* The first part comes before the others.                                 *)
LEMMA FlattenTail ==
    ASSUME NEW S, NEW parts \in Seq(Seq(S)), parts # <<>>
    PROVE  FlattenSeq(parts) = parts[1] \o FlattenSeq(Tail(parts))
<1>1. PICK rest : rest = Tail(parts)
  OBVIOUS
<1>2. PICK n : n = Len(rest)
  OBVIOUS
<1>3. /\ rest \in Seq(Seq(S)) /\ n \in Nat /\ Len(parts) = n + 1
      /\ \A i \in 1 .. n : rest[i] = parts[i + 1] /\ parts[i + 1] \in Seq(S)
      /\ parts[1] \in Seq(S)
  BY <1>1, <1>2
<1>4. PICK g : Joins(g, parts) /\ FlattenSeq(parts) = g[n + 1]
  BY <1>3, FlattenPrefixes
<1>5. \A i \in 1 .. n + 1 : g[i] = IF i = 1 THEN parts[i] ELSE g[i - 1] \o parts[i]
  BY <1>3, <1>4 DEF Joins, JoinsTo
<1>6. g[1] = parts[1]
  BY <1>3, <1>5
<1>7. CASE n = 0
  <2>1. rest = <<>>
    BY <1>2, <1>3, <1>7, EmptySeq
  <2>2. FlattenSeq(rest) = <<>>
    BY <2>1, FlattenEmpty
  <2>3. parts[1] \o <<>> = parts[1]
    BY <1>3
  <2> QED BY <1>1, <1>4, <1>6, <1>7, <2>2, <2>3
<1>8. CASE n # 0
  <2>1. rest # <<>> /\ n >= 1 /\ n \in 1 .. n
    BY <1>2, <1>3, <1>8
  <2>2. PICK h : /\ Joins(h, rest) /\ FlattenSeq(rest) = h[n]
                 /\ \A i \in 1 .. n : h[i] \in Seq(S)
    BY <1>2, <1>3, <2>1, FlattenPrefixes
  <2>3. \A i \in 1 .. n : h[i] = IF i = 1 THEN rest[i] ELSE h[i - 1] \o rest[i]
    BY <1>2, <2>2 DEF Joins, JoinsTo
  <2> DEFINE T == {i \in 1 .. n : g[i + 1] = parts[1] \o h[i]}
  <2>4. 1 \in T
    <3>1. 1 \in 1 .. n /\ 2 \in 1 .. n + 1 /\ 1 + 1 = 2 /\ 2 - 1 = 1 /\ 2 # 1
      BY <1>3, <2>1
    <3>2. h[1] = rest[1] /\ rest[1] = parts[2]
      BY <1>3, <2>3, <3>1
    <3>3. g[2] = g[1] \o parts[2]
      BY <1>5, <3>1
    <3>4. g[1 + 1] = parts[1] \o h[1]
      BY <1>6, <3>1, <3>2, <3>3
    <3> QED BY <3>1, <3>4
  <2>5. ASSUME NEW k \in 1 .. n, k + 1 <= n, k \in T
        PROVE  k + 1 \in T
    <3>1. /\ k + 1 \in 1 .. n /\ k + 2 \in 1 .. n + 1 /\ (k + 1) + 1 = k + 2
          /\ k + 1 # 1 /\ k + 2 # 1 /\ (k + 1) - 1 = k /\ (k + 2) - 1 = k + 1
      BY <1>3, <2>5
    <3>2. h[k + 1] = h[k] \o rest[k + 1]
      BY <2>3, <3>1
    <3>3. g[k + 2] = g[k + 1] \o parts[k + 2]
      BY <1>5, <3>1
    <3>4. rest[k + 1] = parts[k + 2] /\ parts[k + 2] \in Seq(S)
      BY <1>3, <3>1
    <3>5. h[k] \in Seq(S) /\ g[k + 1] = parts[1] \o h[k]
      BY <2>2, <2>5
    <3>6. PICK a, b, c : a = parts[1] /\ b = h[k] /\ c = parts[k + 2]
      OBVIOUS
    <3>7. a \in Seq(S) /\ b \in Seq(S) /\ c \in Seq(S)
      BY <1>3, <3>4, <3>5, <3>6
    <3>8. (a \o b) \o c = a \o (b \o c)
      BY ONLY <3>7, SMTT(30)
    <3>9. g[k + 2] = parts[1] \o h[k + 1]
      BY <3>2, <3>3, <3>4, <3>5, <3>6, <3>8
    <3> QED BY <3>1, <3>9
  <2> HIDE DEF T
  <2>6. \A i \in 1 .. n : i \in T
    BY <1>3, <2>4, <2>5, AlongInterval
  <2>7. g[n + 1] = parts[1] \o h[n]
    BY <2>1, <2>6 DEF T
  <2> QED BY <1>1, <1>4, <2>2, <2>7
<1> QED BY <1>7, <1>8

----------------------------------------------------------------------------
(* The state of the output side.                                           *)

Frame == [packet : Nat, index : Nat, due : Int]

CallPlaces == {"closed", "poll", "write", "claimed", "wait", "woken"}

CallType ==
    [at : CallPlaces, packet : Nat, due : Int,
     written : Nat, since : Nat, attempts : Nat]

PcmType == [state : {"prepared", "running", "xrun"}, frames : Seq(Frame)]

RingType ==
    [data : [Slots -> Seq(Frame)], busy : SUBSET Slots, next : Slots,
     enqueued : Seq(Slots), head : Nat, finished : SUBSET Slots, started : BOOLEAN]

(* The clock and the driver have their types.                              *)
ClockTypes ==
    /\ backend \in Backends
    /\ now \in Nat /\ synced \in BOOLEAN /\ base \in Nat
    /\ first_arrival \in Int /\ first_packet \in Nat

(* The packet that is written is the first of the queue, which holds only  *)
(* packets behind the one popped last.                                     *)
OrderInv ==
    /\ \A p \in queue : popped < p
    /\ Writing =>
        /\ call.packet \in queue
        /\ \A p \in queue : call.packet <= p
        /\ call.written < F

(* The last frame the device accepted is the last one of this packet that  *)
(* was written, or of a packet before it.  Only ALSA takes parts.          *)
AcceptedInv ==
    /\ backend # "alsa" => call.written = 0
    /\ IF Writing /\ call.written > 0
       THEN accepted.packet = call.packet /\ accepted.index = call.written
       ELSE accepted.packet <= popped

SubmitInv ==
    /\ queue \in SUBSET Nat /\ popped \in Nat /\ stopping \in BOOLEAN
    /\ call \in CallType /\ accepted \in Frame
    /\ OrderInv /\ AcceptedInv

(* The driver has buffer i.                                                *)
InDriver(r, i) == \E k \in 1 .. Len(r.enqueued) : r.enqueued[k] = i

(* The buffers the driver holds are different ones and full; those it is   *)
(* through with are not among them; AudioQueue marks all of them.          *)
BuffersOk(r, driver) ==
    /\ \A k \in 1 .. Len(r.enqueued) : Len(r.data[r.enqueued[k]]) = F
    /\ \A j, k \in 1 .. Len(r.enqueued) : r.enqueued[j] = r.enqueued[k] => j = k
    /\ r.head < F
    /\ r.enqueued = <<>> => r.head = 0
    /\ \A i \in r.finished : ~InDriver(r, i) /\ Len(r.data[i]) = F
    /\ driver = "audioqueue" => \A i \in Slots : InDriver(r, i) \/ i \in r.finished => i \in r.busy
    /\ driver # "audioqueue" => r.finished = {}

(* The next buffer is claimed and not yet given to the driver.             *)
ClaimedOk(r) ==
    r.next \in r.busy /\ ~InDriver(r, r.next) /\ r.next \notin r.finished

BuffersInv ==
    /\ pcm \in PcmType /\ ring \in RingType /\ stuck \in BOOLEAN
    /\ BuffersOk(ring, backend)
    /\ call.at = "claimed" => backend = "audioqueue" /\ ClaimedOk(ring)

(* The inductive invariant of the output side.                             *)
OutputInv == ClockTypes /\ SubmitInv /\ BuffersInv

----------------------------------------------------------------------------
(* The frames of a write.                                                  *)
LEMMA NewFramesAre ==
    ASSUME call \in CallType, NEW n \in Nat
    PROVE  /\ NewFrames(n) \in Seq(Frame) /\ Len(NewFrames(n)) = n
           /\ \A i \in 1 .. n : /\ NewFrames(n)[i].packet = call.packet
                                /\ NewFrames(n)[i].index = call.written + i
                                /\ NewFrames(n)[i].due = call.due + call.written + i - 1
<1>1. PICK w, p, d : w = call.written /\ p = call.packet /\ d = call.due
  OBVIOUS
<1>2. w \in Nat /\ p \in Nat /\ d \in Int
  BY <1>1 DEF CallType
<1> DEFINE f(i) == [packet |-> p, index |-> (w + 1) + i - 1, due |-> d + (w + 1) + i - 2]
           s == [i \in 1 .. n |-> f(i)]
<1>3. (w + n) - (w + 1) + 1 = n
  BY <1>2
<1>4. NewFrames(n) = s
  BY <1>1, <1>3 DEF NewFrames, Frames
<1>5. ASSUME NEW i \in 1 .. n
      PROVE  f(i) \in Frame /\ (w + 1) + i - 1 = w + i /\ d + (w + 1) + i - 2 = d + w + i - 1
  BY <1>2 DEF Frame
<1>6. s \in Seq(Frame) /\ Len(s) = n
  BY <1>5, IsASeq
<1>7. \A i \in 1 .. n : s[i] = f(i)
  OBVIOUS
<1>8. \A i \in 1 .. n : f(i).packet = p /\ f(i).index = w + i /\ f(i).due = d + w + i - 1
  BY <1>5
<1> HIDE DEF s, f
<1> QED BY <1>1, <1>4, <1>6, <1>7, <1>8

(* The constants are positive, and the buffers form a ring.                *)
LEMMA OutputConstants ==
    /\ F \in Nat \ {0} /\ Buffers \in Nat \ {0} /\ Ring \in Nat \ {0}
    /\ Slots \subseteq Nat /\ 1 \in Slots
    /\ \A i \in Slots : NextSlot(i) \in Slots
BY OutputAssumption DEF Slots, NextSlot

(* A ring made of fields of their types.                                   *)
LEMMA RingOfFields ==
    ASSUME NEW d \in [Slots -> Seq(Frame)], NEW b \in SUBSET Slots, NEW n \in Slots,
           NEW e \in Seq(Slots), NEW h \in Nat, NEW f \in SUBSET Slots, NEW s \in BOOLEAN
    PROVE  [data |-> d, busy |-> b, next |-> n, enqueued |-> e, head |-> h, finished |-> f,
            started |-> s] \in RingType
BY DEF RingType

(* A device that was just opened.                                          *)
LEMMA FreshRingOk ==
    ASSUME NEW driver
    PROVE  FreshRing \in RingType /\ BuffersOk(FreshRing, driver)
<1>1. FreshRing \in RingType
  BY OutputConstants, EmptySeq DEF FreshRing, RingType
<1>2. FreshRing.enqueued = <<>> /\ FreshRing.head = 0 /\ FreshRing.finished = {}
  BY DEF FreshRing
<1>3. Len(FreshRing.enqueued) = 0
  BY <1>2
<1> QED BY <1>1, <1>2, <1>3, OutputConstants DEF BuffersOk, InDriver

(* audio_write claims a buffer that is free.                               *)
LEMMA RingClaims ==
    ASSUME NEW r \in RingType, BuffersOk(r, "audioqueue"), r.next \notin r.busy, NEW q,
           q = [r EXCEPT !.busy = @ \cup {r.next}]
    PROVE  q \in RingType /\ BuffersOk(q, "audioqueue") /\ ClaimedOk(q)
<1>1. q \in RingType
  BY DEF RingType
<1>2. /\ q.data = r.data /\ q.next = r.next /\ q.enqueued = r.enqueued /\ q.head = r.head
      /\ q.finished = r.finished /\ q.busy = r.busy \cup {r.next}
  BY DEF RingType
<1>3. r.next \in Slots
  BY DEF RingType
<1>4. ~InDriver(r, r.next) /\ r.next \notin r.finished
  BY <1>3 DEF BuffersOk
<1> QED BY <1>1, <1>2, <1>4 DEF BuffersOk, ClaimedOk, InDriver

(* ... fills it ...                                                        *)
Filling(r, x) == [r EXCEPT !.data[r.next] = x]

(* It leaves the buffers the driver holds as they are.                     *)
LEMMA RingFills ==
    ASSUME NEW r \in RingType, NEW driver, BuffersOk(r, driver),
           ~InDriver(r, r.next), r.next \notin r.finished, NEW x \in Seq(Frame)
    PROVE  /\ Filling(r, x) \in RingType /\ BuffersOk(Filling(r, x), driver)
           /\ Filling(r, x).data[r.next] = x /\ Filling(r, x).next = r.next
           /\ Filling(r, x).enqueued = r.enqueued /\ Filling(r, x).head = r.head
           /\ Filling(r, x).finished = r.finished /\ Filling(r, x).busy = r.busy
           /\ Filling(r, x).started = r.started
           /\ \A k \in 1 .. Len(r.enqueued) :
                 Filling(r, x).data[r.enqueued[k]] = r.data[r.enqueued[k]]
<1>0. PICK q : q = Filling(r, x)
  OBVIOUS
<1>d. PICK d : d = [r.data EXCEPT ![r.next] = x]
  OBVIOUS
<1>e. q = [r EXCEPT !.data = d]
  BY <1>0, <1>d DEF Filling
<1>3. r.next \in Slots /\ r.data \in [Slots -> Seq(Frame)] /\ r.finished \subseteq Slots
      /\ \A k \in 1 .. Len(r.enqueued) : r.enqueued[k] \in Slots
  BY DEF RingType
<1>f. d \in [Slots -> Seq(Frame)] /\ r \in RingType
  BY <1>3, <1>d
<1>1. q \in RingType
  BY ONLY <1>e, <1>f DEF RingType
<1>2. /\ q.next = r.next /\ q.enqueued = r.enqueued /\ q.head = r.head
      /\ q.finished = r.finished /\ q.busy = r.busy /\ q.started = r.started
      /\ q.data = d
  BY ONLY <1>e, <1>f DEF RingType
<1>4. q.data[r.next] = x /\ \A i \in Slots : i # r.next => q.data[i] = r.data[i]
  BY <1>2, <1>3, <1>d
<1>5. \A k \in 1 .. Len(r.enqueued) : q.data[r.enqueued[k]] = r.data[r.enqueued[k]]
  BY <1>3, <1>4 DEF InDriver
<1>6. \A i \in r.finished : q.data[i] = r.data[i]
  BY <1>3, <1>4
<1>7. BuffersOk(q, driver)
  BY <1>2, <1>5, <1>6 DEF BuffersOk, InDriver
<1> QED BY ONLY <1>0, <1>1, <1>2, <1>4, <1>5, <1>7

(* ... and gives it to the driver ...                                      *)
LEMMA RingEnqueues ==
    ASSUME NEW r \in RingType, NEW driver, BuffersOk(r, driver),
           ~InDriver(r, r.next), r.next \notin r.finished, Len(r.data[r.next]) = F,
           driver = "audioqueue" => r.next \in r.busy,
           NEW q \in RingType, q.data = r.data, q.enqueued = Append(r.enqueued, r.next),
           q.head = r.head, q.finished = r.finished, q.busy = r.busy
    PROVE  BuffersOk(q, driver)
<1>1. PICK n : n = Len(r.enqueued)
  OBVIOUS
<1>2. r.enqueued \in Seq(Slots) /\ n \in Nat /\ r.next \in Slots /\ r.head \in Nat
  BY <1>1 DEF RingType
<1>3. /\ Len(q.enqueued) = n + 1 /\ q.enqueued[n + 1] = r.next /\ q.enqueued # <<>>
      /\ \A k \in 1 .. n : q.enqueued[k] = r.enqueued[k]
  BY <1>1, <1>2
<1>4. \A k \in 1 .. n + 1 : k \in 1 .. n \/ k = n + 1
  BY <1>2
<1>5. \A k \in 1 .. n : r.enqueued[k] # r.next
  BY <1>1 DEF InDriver
<1>6. \A i : InDriver(q, i) => InDriver(r, i) \/ i = r.next
  BY <1>1, <1>3, <1>4 DEF InDriver
<1>7. \A k \in 1 .. n + 1 : Len(q.data[q.enqueued[k]]) = F
  BY <1>1, <1>3, <1>4 DEF BuffersOk
<1>8. \A j, k \in 1 .. n + 1 : q.enqueued[j] = q.enqueued[k] => j = k
  BY <1>1, <1>3, <1>4, <1>5 DEF BuffersOk
<1>9. \A i \in q.finished : ~InDriver(q, i) /\ Len(q.data[i]) = F
  BY <1>6 DEF BuffersOk
<1>10. driver = "audioqueue" => \A i \in Slots : InDriver(q, i) \/ i \in q.finished => i \in q.busy
  BY <1>6 DEF BuffersOk
<1> QED BY <1>3, <1>7, <1>8, <1>9, <1>10 DEF BuffersOk

(* ... or, when the driver refuses it, frees it again.                     *)
LEMMA RingGivesUp ==
    ASSUME NEW r \in RingType, NEW driver, BuffersOk(r, driver), ClaimedOk(r), NEW q,
           q = [r EXCEPT !.busy = @ \ {r.next}]
    PROVE  q \in RingType /\ BuffersOk(q, driver)
<1>1. q \in RingType
  BY DEF RingType
<1>2. /\ q.data = r.data /\ q.next = r.next /\ q.enqueued = r.enqueued /\ q.head = r.head
      /\ q.finished = r.finished /\ q.busy = r.busy \ {r.next}
  BY DEF RingType
<1> QED BY <1>1, <1>2 DEF BuffersOk, ClaimedOk, InDriver

(* A callback returns a buffer the driver is through with.                 *)
Returned(r, b) == [r EXCEPT !.busy = @ \ {b}, !.finished = @ \ {b}, !.data[b] = <<>>]

(* Neither what the driver holds nor a claimed buffer is touched.          *)
LEMMA RingReturns ==
    ASSUME NEW r \in RingType, NEW driver, BuffersOk(r, driver), NEW b \in r.finished
    PROVE  /\ Returned(r, b) \in RingType /\ BuffersOk(Returned(r, b), driver)
           /\ Returned(r, b).next = r.next /\ Returned(r, b).enqueued = r.enqueued
           /\ Returned(r, b).head = r.head
           /\ \A k \in 1 .. Len(r.enqueued) :
                 Returned(r, b).data[r.enqueued[k]] = r.data[r.enqueued[k]]
           /\ ClaimedOk(r) => ClaimedOk(Returned(r, b))
<1>0. PICK q : q = Returned(r, b)
  OBVIOUS
<1>q. q = [r EXCEPT !.busy = @ \ {b}, !.finished = @ \ {b}, !.data[b] = <<>>]
  BY <1>0 DEF Returned
<1>1. b \in Slots /\ r.data \in [Slots -> Seq(Frame)] /\ r.finished \subseteq Slots
      /\ (\A k \in 1 .. Len(r.enqueued) : r.enqueued[k] \in Slots) /\ <<>> \in Seq(Frame)
  BY EmptySeq DEF RingType
<1>2. q \in RingType
  BY <1>1, <1>q DEF RingType
<1>3. /\ q.next = r.next /\ q.enqueued = r.enqueued /\ q.head = r.head
      /\ q.finished = r.finished \ {b} /\ q.busy = r.busy \ {b}
      /\ q.data = [r.data EXCEPT ![b] = <<>>]
  BY <1>q DEF RingType
<1>4. \A i \in Slots : i # b => q.data[i] = r.data[i]
  BY <1>1, <1>3
<1>5. ~InDriver(r, b)
  BY DEF BuffersOk
<1>6. \A k \in 1 .. Len(r.enqueued) : q.data[r.enqueued[k]] = r.data[r.enqueued[k]]
  BY <1>1, <1>4, <1>5 DEF InDriver
<1>7. \A i \in q.finished : q.data[i] = r.data[i]
  BY <1>1, <1>3, <1>4
<1>8. \A i : InDriver(q, i) <=> InDriver(r, i)
  BY <1>3 DEF InDriver
<1>9. BuffersOk(q, driver)
  BY <1>3, <1>5, <1>6, <1>7, <1>8 DEF BuffersOk
<1>10. ClaimedOk(r) => ClaimedOk(q)
  BY <1>3, <1>8 DEF ClaimedOk
<1> QED BY <1>0, <1>2, <1>3, <1>6, <1>9, <1>10

(* The hardware plays a frame inside a buffer.                             *)
LEMMA RingAdvances ==
    ASSUME NEW r \in RingType, NEW driver, BuffersOk(r, driver), r.enqueued # <<>>,
           r.head + 1 # F, NEW q, q = [r EXCEPT !.head = @ + 1]
    PROVE  /\ q \in RingType /\ BuffersOk(q, driver)
           /\ q.enqueued = r.enqueued /\ q.head = r.head + 1 /\ q.data = r.data
<1>1. q \in RingType
  <2>1. PICK h : h = r.head + 1
    OBVIOUS
  <2>2. h \in Nat
    BY <2>1 DEF RingType
  <2>3. q = [r EXCEPT !.head = h]
    BY <2>1
  <2> QED BY ONLY r \in RingType, <2>2, <2>3 DEF RingType
<1>2. /\ q.data = r.data /\ q.next = r.next /\ q.enqueued = r.enqueued /\ q.head = r.head + 1
      /\ q.finished = r.finished /\ q.busy = r.busy /\ r.head \in Nat
  BY DEF RingType
<1>3. q.head < F
  <2>1. r.head < F
    BY DEF BuffersOk
  <2> QED BY <1>2, <2>1, OutputConstants
<1> QED BY <1>1, <1>2, <1>3 DEF BuffersOk, InDriver

(* It plays the last frame of a buffer: waveOut marks the buffer as free,  *)
(* AudioQueue will return it.                                              *)
Through(r, driver) ==
    [r EXCEPT !.enqueued = Tail(@), !.head = 0,
              !.finished = IF driver = "audioqueue" THEN {Head(r.enqueued)} ELSE {},
              !.data[Head(r.enqueued)] = IF driver = "audioqueue" THEN @ ELSE <<>>]

(* The other buffers stay as they are.                                     *)
LEMMA RingCompletes ==
    ASSUME NEW r \in RingType, NEW driver, BuffersOk(r, driver), r.enqueued # <<>>,
           driver = "audioqueue" => r.finished = {}
    PROVE  /\ Through(r, driver) \in RingType /\ BuffersOk(Through(r, driver), driver)
           /\ Through(r, driver).enqueued = Tail(r.enqueued) /\ Through(r, driver).head = 0
           /\ \A k \in 1 .. Len(Through(r, driver).enqueued) :
                 Through(r, driver).data[Through(r, driver).enqueued[k]] =
                 r.data[Through(r, driver).enqueued[k]]
<1>0. PICK q, b : q = Through(r, driver) /\ b = Head(r.enqueued)
  OBVIOUS
<1>q. q = [r EXCEPT !.enqueued = Tail(@), !.head = 0,
                    !.finished = IF driver = "audioqueue" THEN {b} ELSE {},
                    !.data[b] = IF driver = "audioqueue" THEN @ ELSE <<>>]
  BY <1>0 DEF Through
<1>1. PICK n : n = Len(r.enqueued)
  OBVIOUS
<1>2. PICK x : x = IF driver = "audioqueue" THEN r.data[b] ELSE <<>>
  OBVIOUS
<1>3. PICK t : t = Tail(r.enqueued)
  OBVIOUS
<1>4. /\ n \in Nat /\ n >= 1 /\ b = r.enqueued[1] /\ b \in Slots /\ t \in Seq(Slots)
      /\ Len(t) = n - 1 /\ \A k \in 1 .. n - 1 : t[k] = r.enqueued[k + 1]
  BY <1>0, <1>1, <1>3 DEF RingType
<1>5. /\ r.data \in [Slots -> Seq(Frame)] /\ r.busy \in SUBSET Slots /\ r.next \in Slots
      /\ r.started \in BOOLEAN
  BY DEF RingType
<1>6. PICK done : done = IF driver = "audioqueue" THEN {b} ELSE {}
  OBVIOUS
<1>7. q = [r EXCEPT !.enqueued = t, !.head = 0, !.finished = done, !.data[b] = x]
  BY <1>2, <1>3, <1>6, <1>q DEF RingType
<1>8. x \in Seq(Frame) /\ done \in SUBSET Slots /\ 0 \in Nat
  BY <1>2, <1>4, <1>5, <1>6, EmptySeq
<1>9. q \in RingType
  <2>1. [r.data EXCEPT ![b] = x] \in [Slots -> Seq(Frame)]
    BY <1>4, <1>5, <1>8
  <2>2. q = [data |-> [r.data EXCEPT ![b] = x], busy |-> r.busy, next |-> r.next,
             enqueued |-> t, head |-> 0, finished |-> done, started |-> r.started]
    BY <1>7 DEF RingType
  <2> QED BY ONLY <1>4, <1>5, <1>8, <2>1, <2>2, RingOfFields
<1>10. /\ q.data = [r.data EXCEPT ![b] = x] /\ q.next = r.next /\ q.enqueued = t /\ q.head = 0
       /\ q.finished = done /\ q.busy = r.busy
  BY <1>7 DEF RingType
<1>11. q.data[b] = x /\ \A i \in Slots : i # b => q.data[i] = r.data[i]
  BY <1>4, <1>5, <1>10
<1>12. \A k \in 1 .. n - 1 : k + 1 \in 1 .. n /\ 1 \in 1 .. n /\ k + 1 # 1
  BY <1>4
<1>13. \A k \in 1 .. n - 1 : t[k] # b
  BY <1>1, <1>4, <1>12 DEF BuffersOk
<1>14. \A k \in 1 .. n - 1 : t[k] \in Slots
  BY <1>4
<1>15. \A k \in 1 .. n - 1 : q.data[t[k]] = r.data[t[k]]
  BY <1>11, <1>13, <1>14
<1>16. \A k \in 1 .. n - 1 : Len(q.data[t[k]]) = F
  BY <1>1, <1>4, <1>12, <1>15 DEF BuffersOk
<1>17. \A j, k \in 1 .. n - 1 : t[j] = t[k] => j = k
  <2> SUFFICES ASSUME NEW j \in 1 .. n - 1, NEW k \in 1 .. n - 1, t[j] = t[k] PROVE j = k
    OBVIOUS
  <2>1. r.enqueued[j + 1] = r.enqueued[k + 1] /\ j + 1 \in 1 .. n /\ k + 1 \in 1 .. n
    BY <1>4, <1>12
  <2>2. j + 1 = k + 1
    BY <1>1, <2>1 DEF BuffersOk
  <2> QED BY <1>4, <2>2
<1>18. \A i : InDriver(q, i) => InDriver(r, i) /\ i # b
  BY <1>1, <1>4, <1>10, <1>12, <1>13 DEF InDriver
<1>19. driver = "audioqueue" => Len(r.data[b]) = F /\ b \in r.busy
  <2>1. InDriver(r, b) /\ 1 \in 1 .. n
    BY <1>1, <1>4 DEF InDriver
  <2> QED BY <1>1, <1>4, <2>1 DEF BuffersOk
<1>20. \A i \in done : ~InDriver(q, i) /\ Len(q.data[i]) = F
  BY <1>2, <1>6, <1>11, <1>18, <1>19
<1>21. driver = "audioqueue" => \A i \in Slots : InDriver(q, i) \/ i \in done => i \in q.busy
  BY <1>6, <1>10, <1>18, <1>19 DEF BuffersOk
<1>22. 0 < F /\ (driver # "audioqueue" => done = {})
  BY <1>6, OutputConstants
<1>23. BuffersOk(q, driver)
  BY <1>4, <1>10, <1>16, <1>17, <1>20, <1>21, <1>22 DEF BuffersOk
<1> QED BY <1>0, <1>3, <1>4, <1>9, <1>10, <1>15, <1>23

----------------------------------------------------------------------------
(* The submission of packets keeps its order.                              *)

(* A call that only changes its place keeps its packet and its frames, ... *)
LEMMA CallMoves ==
    ASSUME NEW c \in CallType, NEW place \in CallPlaces, NEW d, d = [c EXCEPT !.at = place]
    PROVE  /\ d \in CallType /\ d.at = place /\ d.packet = c.packet /\ d.written = c.written
           /\ d.due = c.due /\ d.since = c.since /\ d.attempts = c.attempts
<1>1. d = [at |-> place, packet |-> c.packet, due |-> c.due, written |-> c.written,
           since |-> c.since, attempts |-> c.attempts]
  BY DEF CallType
<1>2. c.packet \in Nat /\ c.due \in Int /\ c.written \in Nat
      /\ c.since \in Nat /\ c.attempts \in Nat
  BY DEF CallType
<1> QED BY ONLY place \in CallPlaces, <1>1, <1>2 DEF CallType, CallPlaces

(* ... and so does one that counts an attempt.                             *)
LEMMA CallCounts ==
    ASSUME NEW c \in CallType, NEW n \in Nat, NEW d, d = [c EXCEPT !.attempts = n]
    PROVE  /\ d \in CallType /\ d.at = c.at /\ d.packet = c.packet /\ d.written = c.written
           /\ d.due = c.due /\ d.since = c.since /\ d.attempts = n
<1>1. d = [at |-> c.at, packet |-> c.packet, due |-> c.due, written |-> c.written,
           since |-> c.since, attempts |-> n]
  BY DEF CallType
<1>2. c.packet \in Nat /\ c.due \in Int /\ c.written \in Nat
      /\ c.since \in Nat /\ c.at \in CallPlaces
  BY DEF CallType
<1> QED BY ONLY n \in Nat, <1>1, <1>2 DEF CallType

(* More frames are written.                                                *)
LEMMA CallAdvances ==
    ASSUME NEW c \in CallType, NEW w \in Nat, NEW d, d = [c EXCEPT !.written = w]
    PROVE  /\ d \in CallType /\ d.at = c.at /\ d.packet = c.packet /\ d.written = w
           /\ d.due = c.due /\ d.since = c.since /\ d.attempts = c.attempts
<1>1. d = [at |-> c.at, packet |-> c.packet, due |-> c.due, written |-> w,
           since |-> c.since, attempts |-> c.attempts]
  BY DEF CallType
<1>2. c.packet \in Nat /\ c.due \in Int /\ c.at \in CallPlaces
      /\ c.since \in Nat /\ c.attempts \in Nat
  BY DEF CallType, CallPlaces
<1> QED BY ONLY w \in Nat, <1>1, <1>2 DEF CallType, CallPlaces

(* No call.                                                                *)
LEMMA NoCallType ==
    /\ NoCall \in CallType /\ NoCall.at = "poll" /\ NoCall.written = 0
    /\ [NoCall EXCEPT !.at = "closed"] \in CallType
    /\ [NoCall EXCEPT !.at = "closed"].at = "closed"
    /\ [NoCall EXCEPT !.at = "closed"].written = 0
BY DEF NoCall, CallType, CallPlaces

(* audio_write goes on with the same frames.                               *)
LEMMA WriteGoesOn ==
    ASSUME SubmitInv, Writing, UNCHANGED <<backend, queue, popped, stopping, accepted>>,
           call' \in CallType, call'.packet = call.packet, call'.written = call.written,
           call'.at \in {"write", "claimed", "wait", "woken"}
    PROVE  SubmitInv'
BY DEF SubmitInv, OrderInv, AcceptedInv, Writing

(* audio_write returns.                                                    *)
LEMMA WriteEnds ==
    ASSUME SubmitInv, Writing, backend' = backend, NEW ok \in BOOLEAN, Return(ok),
           accepted' \in Frame, accepted'.packet <= call.packet
    PROVE  SubmitInv'
<1>1. /\ queue' = queue \ {call.packet} /\ popped' = call.packet /\ call' = NoCall
      /\ stopping' \in BOOLEAN
  BY DEF Return, Pop, SubmitInv
<1>2. call.packet \in Nat /\ queue \subseteq Nat /\ call.packet \in queue
      /\ \A p \in queue : call.packet <= p
  BY DEF SubmitInv, CallType, OrderInv
<1>3. \A p \in queue' : popped' < p
  BY <1>1, <1>2
<1>4. call'.at = "poll" /\ call'.written = 0 /\ call' \in CallType
  BY <1>1, NoCallType
<1> QED BY <1>1, <1>2, <1>3, <1>4 DEF SubmitInv, OrderInv, AcceptedInv, Writing

(* What was accepted before this write is no later than its packet.        *)
LEMMA AcceptedBefore ==
    ASSUME SubmitInv, Writing
    PROVE  /\ accepted \in Frame /\ accepted.packet <= call.packet
           /\ call.written = 0 => accepted.packet < call.packet
           /\ call.packet \in Nat /\ call.written \in Nat /\ call.due \in Int
           /\ call.written < F
<1>1. accepted.packet \in Nat /\ accepted \in Frame /\ popped \in Nat /\ call.packet \in Nat
      /\ call.written \in Nat /\ call.due \in Int
  BY DEF SubmitInv, Frame, CallType
<1>2. popped < call.packet /\ call.written < F
  BY DEF SubmitInv, OrderInv
<1>3. IF call.written > 0 THEN accepted.packet = call.packet ELSE accepted.packet <= popped
  BY DEF SubmitInv, AcceptedInv
<1> QED BY <1>1, <1>2, <1>3

(* Some frames are accepted and the write goes on.                         *)
LEMMA WriteAdvances ==
    ASSUME SubmitInv, Writing, backend = "alsa", UNCHANGED <<backend, queue, popped, stopping>>,
           call' \in CallType, call'.packet = call.packet, call'.at = "write",
           call'.written < F, call'.written > 0,
           accepted' \in Frame, accepted'.packet = call.packet, accepted'.index = call'.written
    PROVE  SubmitInv'
BY DEF SubmitInv, OrderInv, AcceptedInv, Writing

(* The last of the new frames.                                             *)
LEMMA LastNewFrame ==
    ASSUME call \in CallType, NEW n \in Nat, n >= 1
    PROVE  /\ Last(NewFrames(n)) \in Frame
           /\ Last(NewFrames(n)).packet = call.packet
           /\ Last(NewFrames(n)).index = call.written + n
           /\ Last(NewFrames(n)) = NewFrames(n)[n]
<1>1. PICK s : s = NewFrames(n)
  OBVIOUS
<1>2. s \in Seq(Frame) /\ Len(s) = n /\ n \in 1 .. n
  BY <1>1, NewFramesAre
<1>3. s[n].packet = call.packet /\ s[n].index = call.written + n
  BY <1>1, <1>2, NewFramesAre
<1>4. s[n] \in Frame
  BY <1>2
<1> QED BY <1>1, <1>2, <1>3, <1>4 DEF Last

(* The end of the ALSA loop, after nothing or after some frames.           *)
LEMMA LoopTestSubmits ==
    ASSUME SubmitInv, Writing, backend = "alsa", backend' = backend, NEW c \in CallType,
           c.packet = call.packet, LoopTest(c), accepted' \in Frame, c.written <= F,
           \/ c.written = call.written /\ accepted' = accepted
           \/ c.written > 0 /\ accepted'.packet = call.packet /\ accepted'.index = c.written
    PROVE  SubmitInv'
<1>1. call.packet \in Nat /\ accepted.packet <= call.packet /\ c.written \in Nat /\ call.written < F
      /\ F \in Nat
  BY AcceptedBefore, OutputConstants DEF CallType
<1>2. accepted'.packet <= call.packet
  BY <1>1
<1>3. CASE Return(TRUE) \/ Return(FALSE)
  BY <1>2, <1>3, WriteEnds
<1>4. CASE Left(c) # 0 /\ Continue([c EXCEPT !.at = "write", !.attempts = @ + 1])
  <2>1. c.written < F
    BY <1>1, <1>4 DEF Left
  <2>2. PICK d : d = [c EXCEPT !.at = "write", !.attempts = @ + 1]
    OBVIOUS
  <2>3. call' = d /\ UNCHANGED <<queue, popped, stopping>>
    BY <1>4, <2>2 DEF Continue
  <2>4. call' \in CallType /\ call'.at = "write" /\ call'.packet = c.packet
        /\ call'.written = c.written
    <3>1. "write" \in CallPlaces
      BY DEF CallPlaces
    <3>2. PICK e, n : e = [c EXCEPT !.at = "write"] /\ n = c.attempts + 1
      OBVIOUS
    <3>3. d = [e EXCEPT !.attempts = n] /\ n \in Nat
      BY <2>2, <3>2 DEF CallType
    <3>4. e \in CallType /\ e.at = "write" /\ e.packet = c.packet /\ e.written = c.written
      BY ONLY c \in CallType, <3>1, <3>2, CallMoves
    <3>5. d \in CallType /\ d.at = "write" /\ d.packet = c.packet /\ d.written = c.written
      BY ONLY <3>3, <3>4, CallCounts
    <3> QED BY <2>3, <3>5
  <2>5. CASE c.written = call.written /\ accepted' = accepted
    BY <2>3, <2>4, <2>5, WriteGoesOn
  <2>6. CASE c.written > 0 /\ accepted'.packet = call.packet /\ accepted'.index = c.written
    BY <2>1, <2>3, <2>4, <2>6, WriteAdvances
  <2> QED BY <2>5, <2>6
<1> QED BY <1>3, <1>4 DEF LoopTest

(* It takes no more than what is left, and no more than there is room for. *)
LEMMA TakenBounds ==
    ASSUME SubmitInv, Writing, pcm \in PcmType, NEW n \in 1 .. Min({Room, Left(call)})
    PROVE  n \in Nat /\ n >= 1 /\ call.written + n <= F /\ Len(pcm.frames) + n <= Ring
<1>1. call.written \in Nat /\ F \in Nat /\ Ring \in Nat /\ Len(pcm.frames) \in Nat
  BY OutputConstants DEF SubmitInv, CallType, PcmType
<1>2. PICK a, b : a = Room /\ b = Left(call)
  OBVIOUS
<1>3. a = Ring - Len(pcm.frames) /\ b = F - call.written
  BY <1>2 DEF Room, Left
<1>4. a \in Int /\ b \in Int
  BY <1>1, <1>3
<1>5. PICK m : m = Min({a, b})
  OBVIOUS
<1>6. m \in Int /\ m <= a /\ m <= b
  BY ONLY <1>4, <1>5, MinOfTwo
<1>7. n \in 1 .. m
  BY <1>2, <1>5
<1>8. n \in Nat /\ n >= 1 /\ n <= m
  BY ONLY <1>6, <1>7
<1>9. PICK w, l : w = call.written /\ l = Len(pcm.frames)
  OBVIOUS
<1>10. w \in Nat /\ l \in Nat /\ F \in Nat /\ Ring \in Nat /\ m <= Ring - l /\ m <= F - w
  BY ONLY <1>1, <1>3, <1>6, <1>9
<1>11. w + n <= F /\ l + n <= Ring
  BY ONLY <1>6, <1>8, <1>10
<1> QED BY ONLY <1>8, <1>9, <1>11

(* The ALSA driver.                                                        *)
LEMMA AlsaSubmits ==
    ASSUME SubmitInv, pcm \in PcmType, alsa_write \/ alsa_wait
    PROVE  SubmitInv'
<1>1. backend = "alsa" /\ backend' = backend /\ Writing /\ call \in CallType
  BY DEF alsa_write, alsa_wait, Writing, SubmitInv
<1>2. accepted \in Frame /\ accepted.packet <= call.packet /\ call.written < F
      /\ call.written \in Nat
  BY <1>1, AcceptedBefore
<1>3. CASE accepted' = accepted /\ LoopTest(call)
  <2>1. call.written <= F
    BY <1>2, OutputConstants
  <2> QED BY <1>1, <1>2, <1>3, <2>1, LoopTestSubmits
<1>4. CASE accepted' = accepted /\ Return(FALSE)
  BY <1>1, <1>2, <1>4, WriteEnds
<1>5. CASE accepted' = accepted /\ Continue([call EXCEPT !.at = "wait"])
  <2>1. call' \in CallType /\ call'.at = "wait" /\ call'.packet = call.packet
        /\ call'.written = call.written /\ UNCHANGED <<queue, popped, stopping>>
    BY <1>1, <1>5, CallMoves DEF Continue, CallPlaces
  <2> QED BY <1>1, <1>5, <2>1, WriteGoesOn
<1>6. CASE writei_accepts
  <2>1. PICK n \in 1 .. Min({Room, Left(call)}) :
            /\ accepted' = Last(NewFrames(n))
            /\ LoopTest([call EXCEPT !.written = @ + n])
    BY <1>6 DEF writei_accepts
  <2>2. n \in Nat /\ n >= 1 /\ call.written + n <= F
    BY <1>1, TakenBounds
  <2>3. PICK w : w = call.written + n
    OBVIOUS
  <2>4. PICK c : c = [call EXCEPT !.written = w]
    OBVIOUS
  <2>5. w \in Nat /\ w > 0 /\ w <= F
    BY <1>2, <2>2, <2>3
  <2>6. c \in CallType /\ c.packet = call.packet /\ c.written = w
    BY ONLY <1>1, <2>4, <2>5, CallAdvances
  <2>7. LoopTest(c)
    BY <2>1, <2>3, <2>4
  <2>8. accepted' \in Frame /\ accepted'.packet = call.packet /\ accepted'.index = w
    BY <1>1, <2>1, <2>2, <2>3, LastNewFrame
  <2> QED BY <1>1, <2>5, <2>6, <2>7, <2>8, LoopTestSubmits
<1>7. CASE alsa_wait
  BY <1>3, <1>4, <1>7 DEF alsa_wait
<1>8. CASE alsa_write
  BY <1>3, <1>4, <1>5, <1>6, <1>8
     DEF alsa_write, writei_underrun, writei_waits, writei_fails
<1> QED BY <1>7, <1>8

(* The other drivers take a packet as a whole.                             *)
LEMMA WholeFrame ==
    ASSUME SubmitInv, Writing, backend # "alsa", accepted' = Last(NewFrames(F))
    PROVE  accepted' \in Frame /\ accepted'.packet <= call.packet
<1>1. call \in CallType /\ F \in Nat /\ F >= 1 /\ call.packet \in Nat
  BY OutputConstants DEF SubmitInv, CallType
<1> QED BY <1>1, LastNewFrame

(* AudioQueue, waveOut and the board.                                      *)
LEMMA OthersSubmit ==
    ASSUME SubmitInv, queue_claim \/ queue_enqueue \/ wave_write \/ board_write \/ Wake
    PROVE  SubmitInv'
<1>1. backend # "alsa" /\ backend' = backend /\ Writing /\ call \in CallType
  BY DEF queue_claim, queue_enqueue, wave_write, board_write, Wake, Writing, SubmitInv
<1>2. accepted \in Frame /\ accepted.packet <= call.packet
  BY <1>1, AcceptedBefore
<1>3. CASE accepted' \in {accepted, Last(NewFrames(F))} /\ (Return(TRUE) \/ Return(FALSE))
  <2>1. accepted' \in Frame /\ accepted'.packet <= call.packet
    BY <1>1, <1>2, <1>3, WholeFrame
  <2> QED BY <1>1, <1>3, <2>1, WriteEnds
<1>4. ASSUME NEW d, call' = d, UNCHANGED <<queue, popped, stopping, accepted>>,
             NEW place \in {"write", "claimed", "wait"},
             d = [call EXCEPT !.at = place] \/ d = [call EXCEPT !.at = place, !.attempts = @ + 1]
      PROVE  SubmitInv'
  <2>1. place \in CallPlaces
    BY DEF CallPlaces
  <2>2. d \in CallType /\ d.at = place /\ d.packet = call.packet /\ d.written = call.written
    <3>1. CASE d = [call EXCEPT !.at = place]
      BY ONLY <1>1, <2>1, <3>1, CallMoves
    <3>2. CASE d = [call EXCEPT !.at = place, !.attempts = @ + 1]
      <4>1. PICK e, n : e = [call EXCEPT !.at = place] /\ n = call.attempts + 1
        OBVIOUS
      <4>2. d = [e EXCEPT !.attempts = n] /\ n \in Nat
        BY <1>1, <3>2, <4>1 DEF CallType
      <4>3. e \in CallType /\ e.at = place /\ e.packet = call.packet
            /\ e.written = call.written
        BY ONLY <1>1, <2>1, <4>1, CallMoves
      <4> QED BY ONLY <4>2, <4>3, CallCounts
    <3> QED BY ONLY <1>4, <3>1, <3>2
  <2> QED BY <1>1, <1>4, <2>2, WriteGoesOn
<1>7. CASE queue_claim
  BY <1>3, <1>4, <1>7 DEF queue_claim, Continue
<1>8. CASE queue_enqueue
  BY <1>3, <1>8 DEF queue_enqueue
<1>9. CASE wave_write
  <2>1. CASE Continue([call EXCEPT !.at = "wait"]) /\ accepted' = accepted
    BY <1>4, <2>1 DEF Continue
  <2> QED BY <1>3, <1>9, <2>1 DEF wave_write
<1>10. CASE board_write
  BY <1>3, <1>10 DEF board_write
<1>11. CASE Wake
  BY <1>4, <1>11 DEF Wake
<1> QED BY <1>7, <1>8, <1>9, <1>10, <1>11

(* The head of the queue.                                                  *)
LEMMA HeadIsFirst ==
    ASSUME queue \in SUBSET Nat, queue # {}
    PROVE  HeadPacket \in queue /\ \A p \in queue : HeadPacket <= p
<1>1. \E x \in queue : \A y \in queue : x <= y
  BY LeastNumber
<1> QED BY <1>1 DEF HeadPacket, Min

(* Deadlines are times.                                                    *)
LEMMA DeadlineType ==
    ASSUME ClockTypes, NEW p \in Nat
    PROVE  Deadline(p) \in Int
<1>1. F \in Int /\ Fallback \in Int
  BY OutputAssumption, OutputConstants
<1>2. base + (p - 1) * F \in Int
  BY <1>1 DEF ClockTypes
<1>3. first_arrival + Fallback + (p - first_packet) * F \in Int
  BY <1>1 DEF ClockTypes
<1> QED BY <1>2, <1>3 DEF Deadline

(* A write begins.                                                         *)
LEMMA SubmitSubmits ==
    ASSUME ClockTypes, SubmitInv, Submit
    PROVE  SubmitInv'
<1>1. /\ call.at = "poll" /\ queue # {} /\ UNCHANGED <<backend, queue, popped, stopping, accepted>>
      /\ call' = [at |-> "write", packet |-> HeadPacket, due |-> Deadline(HeadPacket),
                  written |-> 0, since |-> now, attempts |-> 0]
  BY DEF Submit, Looked
<1>2. HeadPacket \in queue /\ \A p \in queue : HeadPacket <= p
  BY <1>1, HeadIsFirst DEF SubmitInv
<1>3. HeadPacket \in Nat
  BY <1>2 DEF SubmitInv
<1>4. Deadline(HeadPacket) \in Int /\ now \in Nat
  BY <1>3, DeadlineType DEF ClockTypes
<1>5. call' \in CallType /\ call'.at = "write" /\ call'.packet = HeadPacket /\ call'.written = 0
  BY <1>1, <1>3, <1>4 DEF CallType, CallPlaces
<1>6. accepted.packet <= popped
  BY <1>1 DEF SubmitInv, AcceptedInv, Writing
<1>7. 0 < F
  BY OutputConstants
<1> QED BY <1>1, <1>2, <1>5, <1>6, <1>7 DEF SubmitInv, OrderInv, AcceptedInv, Writing

(* Between two writes: packets come and go.                                *)
LEMMA PollsSubmit ==
    ASSUME SubmitInv, ~Writing, ~Writing', call' \in CallType, call'.written = 0,
           stopping' \in BOOLEAN, UNCHANGED <<backend, accepted>>,
           queue' \in SUBSET Nat, popped' \in Nat, popped <= popped', \A p \in queue' : popped' < p
    PROVE  SubmitInv'
<1>1. accepted.packet \in Nat /\ accepted.packet <= popped /\ popped \in Nat
  BY DEF SubmitInv, AcceptedInv, Frame
<1>2. accepted.packet <= popped'
  BY <1>1
<1> QED BY <1>2 DEF SubmitInv, OrderInv, AcceptedInv, Writing

(* Whatever happens between two writes keeps the order of the queue.       *)
LEMMA PollSteps ==
    ASSUME SubmitInv, ClockTypes,
           \/ DelayFails \/ TooEarly \/ DropPacket \/ Stall \/ Sync \/ StopRequest
           \/ \E p \in 1 .. Packets[backend] : Arrive(p)
           \/ alsa_open \/ queue_open \/ wave_open \/ board_open \/ close_audio
    PROVE  SubmitInv'
<1>1. /\ call \in CallType /\ queue \in SUBSET Nat /\ popped \in Nat /\ stopping \in BOOLEAN
      /\ \A p \in queue : popped < p
  BY DEF SubmitInv, OrderInv
<1>2. call.at \in {"poll", "closed"} /\ ~Writing /\ UNCHANGED <<backend, accepted>>
  BY DEF DelayFails, TooEarly, DropPacket, Stall, Sync, StopRequest, Arrive, alsa_open,
         queue_open, wave_open, board_open, Open, close_audio, alsa_close, queue_close,
         wave_close, board_close, Close, Looked, Writing
<1>3. CASE UNCHANGED <<call, queue, popped>> /\ stopping' \in BOOLEAN
  BY <1>2, <1>3 DEF SubmitInv, OrderInv, AcceptedInv, Writing
<1>4. CASE DelayFails \/ TooEarly \/ Stall \/ Sync \/ StopRequest
  BY <1>1, <1>3, <1>4 DEF DelayFails, TooEarly, Stall, Sync, StopRequest
<1>5. CASE DropPacket
  <2>1. /\ queue' = queue \ {HeadPacket} /\ popped' = HeadPacket /\ queue # {}
        /\ UNCHANGED <<call, stopping>>
    BY <1>5 DEF DropPacket, Pop, Looked
  <2>2. HeadPacket \in queue /\ \A p \in queue : HeadPacket <= p
    BY <1>1, <2>1, HeadIsFirst
  <2>3. \A p \in queue' : popped' < p
    BY <1>1, <2>1, <2>2
  <2>4. popped <= popped' /\ popped' \in Nat /\ queue' \in SUBSET Nat
    BY <1>1, <2>1, <2>2
  <2>5. accepted.packet \in Nat /\ accepted.packet <= popped
    BY <1>2 DEF SubmitInv, AcceptedInv, Frame
  <2>6. accepted.packet <= popped'
    BY <1>1, <2>4, <2>5
  <2> QED BY <1>2, <2>1, <2>3, <2>4, <2>6 DEF SubmitInv, OrderInv, AcceptedInv, Writing
<1>6. CASE \E p \in 1 .. Packets[backend] : Arrive(p)
  <2>1. PICK p \in 1 .. Packets[backend] : Arrive(p)
    BY <1>6
  <2>2. p \in Nat
    BY <2>1, OutputAssumption DEF ClockTypes
  <2>3. popped < p /\ queue' = queue \cup {p} /\ UNCHANGED <<popped, call, stopping>>
    BY <1>1, <2>1, <2>2 DEF Arrive
  <2> QED BY <1>1, <1>2, <2>2, <2>3 DEF SubmitInv, OrderInv, AcceptedInv, Writing
<1>7. CASE alsa_open \/ queue_open \/ wave_open \/ board_open
  <2>1. /\ call' \in {call, NoCall} /\ UNCHANGED <<queue, popped>> /\ stopping' \in BOOLEAN
    BY <1>1, <1>7 DEF alsa_open, queue_open, wave_open, board_open, Open
  <2>2. CASE call' = call
    BY <1>3, <2>1, <2>2
  <2>3. CASE call' = NoCall
    <3>1. call' \in CallType /\ call'.written = 0 /\ ~Writing'
      BY <2>3, NoCallType DEF Writing
    <3>2. popped <= popped'
      BY <1>1, <2>1
    <3> QED BY <1>1, <1>2, <2>1, <3>1, <3>2, PollsSubmit
  <2> QED BY <2>1, <2>2, <2>3
<1>8. CASE close_audio
  <2>1. /\ call' = [NoCall EXCEPT !.at = "closed"] /\ queue' = {} /\ UNCHANGED <<popped, stopping>>
    BY <1>8 DEF close_audio, audio_pipeline_stop, alsa_close, queue_close, wave_close,
                board_close, Close
  <2>2. call' \in CallType /\ call'.written = 0 /\ ~Writing'
    BY <2>1, NoCallType DEF Writing
  <2>3. popped <= popped' /\ queue' \in SUBSET Nat /\ \A p \in queue' : popped' < p
    BY <1>1, <2>1
  <2> QED BY <1>1, <1>2, <2>1, <2>2, <2>3, PollsSubmit
<1> QED BY <1>4, <1>5, <1>6, <1>7, <1>8

(* Time passes.                                                            *)
LEMMA TickSubmits ==
    ASSUME SubmitInv, Tick
    PROVE  SubmitInv'
<1>1. /\ UNCHANGED <<backend, queue, popped, stopping, accepted>> /\ call \in CallType
      /\ call.at \in {"closed", "poll", "wait"}
      /\ call' = IF call.at = "wait" THEN [call EXCEPT !.at = "woken"] ELSE call
  BY DEF Tick, SubmitInv
<1>2. CASE call.at = "wait"
  <2>1. call' = [call EXCEPT !.at = "woken"] /\ "woken" \in CallPlaces /\ Writing
    BY <1>1, <1>2 DEF CallPlaces, Writing
  <2>2. call' \in CallType /\ call'.at = "woken" /\ call'.packet = call.packet
        /\ call'.written = call.written
    BY <1>1, <2>1, CallMoves
  <2> QED BY <1>1, <2>1, <2>2, WriteGoesOn
<1>3. CASE call.at # "wait"
  BY <1>1, <1>3 DEF SubmitInv, OrderInv, AcceptedInv, Writing
<1> QED BY <1>2, <1>3

----------------------------------------------------------------------------
(* The buffers stay in order.                                              *)

(* The next-state forms of the predicates on the ring.                     *)
LEMMA RingNext ==
    ASSUME pcm' \in PcmType, ring' \in RingType, stuck' \in BOOLEAN, backend' = backend,
           BuffersOk(ring', backend), call'.at # "claimed"
    PROVE  BuffersInv'
BY DEF BuffersInv

(* Nothing of the device changes.                                          *)
LEMMA DeviceStays ==
    ASSUME BuffersInv, UNCHANGED <<backend, pcm, ring, stuck>>, call'.at # "claimed" \/ call' = call
    PROVE  BuffersInv'
BY DEF BuffersInv

(* Where a write goes on or ends.                                          *)
LEMMA LoopPlaces ==
    ASSUME SubmitInv, NEW c \in CallType, LoopTest(c)
    PROVE  call'.at \in {"poll", "write"}
<1>1. CASE Return(TRUE) \/ Return(FALSE)
  BY <1>1, NoCallType DEF Return
<1>2. CASE Continue([c EXCEPT !.at = "write", !.attempts = @ + 1])
  <2>1. PICK e, n : e = [c EXCEPT !.at = "write"] /\ n = c.attempts + 1
    OBVIOUS
  <2>2. call' = [e EXCEPT !.attempts = n] /\ n \in Nat
    BY <1>2, <2>1 DEF CallType, Continue
  <2>3. e \in CallType /\ e.at = "write"
    BY <2>1, CallMoves DEF CallPlaces
  <2>4. call'.at = "write"
    BY ONLY <2>2, <2>3, CallCounts
  <2> QED BY <2>4
<1> QED BY <1>1, <1>2 DEF LoopTest

(* ALSA: only pcm changes.                                                 *)
LEMMA AlsaBuffers ==
    ASSUME SubmitInv, BuffersInv, alsa_write \/ alsa_wait
    PROVE  BuffersInv' /\ pcm' \in PcmType
<1>1. /\ UNCHANGED <<backend, ring, stuck>> /\ call \in CallType /\ Writing
      /\ pcm \in PcmType /\ BuffersOk(ring, backend) /\ ring \in RingType /\ stuck \in BOOLEAN
  BY DEF alsa_write, alsa_wait, SubmitInv, BuffersInv, Writing, device
<1>2. pcm.frames \in Seq(Frame)
  BY <1>1 DEF PcmType
<1>3. CASE /\ pcm' \in PcmType
           /\ LoopTest(call) \/ Return(FALSE) \/ Continue([call EXCEPT !.at = "wait"])
  <2>1. CASE LoopTest(call)
    <3>1. call'.at \in {"poll", "write"}
      BY <1>1, <2>1, LoopPlaces
    <3> QED BY <1>1, <1>3, <3>1, RingNext
  <2>2. CASE Return(FALSE)
    <3>1. call'.at = "poll"
      BY <2>2, NoCallType DEF Return
    <3> QED BY <1>1, <1>3, <3>1, RingNext
  <2>3. CASE Continue([call EXCEPT !.at = "wait"])
    <3>1. call'.at = "wait"
      BY <1>1, <2>3, CallMoves DEF Continue, CallPlaces
    <3> QED BY <1>1, <1>3, <3>1, RingNext
  <2> QED BY <1>3, <2>1, <2>2, <2>3
<1>4. CASE writei_accepts
  <2>1. PICK n \in 1 .. Min({Room, Left(call)}) :
            /\ pcm' = [state |-> "running", frames |-> pcm.frames \o NewFrames(n)]
            /\ LoopTest([call EXCEPT !.written = @ + n])
    BY <1>4 DEF writei_accepts
  <2>2. n \in Nat
    BY <1>1, TakenBounds
  <2>3. NewFrames(n) \in Seq(Frame)
    BY <1>1, <2>2, NewFramesAre
  <2>4. pcm.frames \o NewFrames(n) \in Seq(Frame)
    BY <1>2, <2>3, ConcatProperties
  <2>5. pcm' \in PcmType
    BY <2>1, <2>4 DEF PcmType
  <2>6. PICK w : w = call.written + n
    OBVIOUS
  <2>7. w \in Nat
    BY <1>1, <2>2, <2>6 DEF CallType
  <2>8. PICK c : c = [call EXCEPT !.written = w]
    OBVIOUS
  <2>9. c \in CallType
    BY ONLY <1>1, <2>7, <2>8, CallAdvances
  <2>10. LoopTest(c)
    BY <2>1, <2>6, <2>8
  <2>11. call'.at \in {"poll", "write"}
    BY <2>9, <2>10, LoopPlaces
  <2> QED BY <1>1, <2>5, <2>11, RingNext
<1>5. FreshPcm \in PcmType
  BY EmptySeq DEF FreshPcm, PcmType
<1>6. CASE alsa_wait
  BY <1>1, <1>3, <1>6 DEF alsa_wait, device
<1>7. CASE alsa_write
  BY <1>1, <1>3, <1>4, <1>5, <1>7
     DEF alsa_write, writei_underrun, writei_waits, writei_fails
<1> QED BY <1>6, <1>7

(* The end of a write.                                                     *)
LEMMA ReturnPlace ==
    ASSUME NEW ok, Return(ok)
    PROVE  call'.at = "poll"
BY NoCallType DEF Return

(* The board: only pcm changes.                                            *)
LEMMA BoardBuffers ==
    ASSUME SubmitInv, BuffersInv, board_write
    PROVE  BuffersInv'
<1>1. /\ UNCHANGED <<backend, ring, stuck>> /\ call \in CallType
      /\ pcm \in PcmType /\ BuffersOk(ring, backend) /\ ring \in RingType /\ stuck \in BOOLEAN
      /\ call'.at = "poll"
  BY ReturnPlace DEF board_write, SubmitInv, BuffersInv
<1>2. CASE pcm' = [pcm EXCEPT !.frames = @ \o NewFrames(F)]
  <2>1. NewFrames(F) \in Seq(Frame)
    BY <1>1, NewFramesAre, OutputConstants
  <2>2. PICK s : s = pcm.frames \o NewFrames(F)
    OBVIOUS
  <2>3. s \in Seq(Frame)
    BY <1>1, <2>1, <2>2, ConcatProperties DEF PcmType
  <2>4. pcm' = [pcm EXCEPT !.frames = s]
    BY <1>2, <2>2
  <2>5. pcm' \in PcmType
    BY <1>1, <2>3, <2>4 DEF PcmType
  <2> QED BY <1>1, <2>5, RingNext
<1>3. CASE pcm' = pcm
  BY <1>1, <1>3, RingNext
<1> QED BY <1>2, <1>3 DEF board_write

(* The buffer that is filled has the frames of a packet.                   *)
LEMMA FilledOk ==
    ASSUME SubmitInv, BuffersInv, ~InDriver(ring, ring.next), ring.next \notin ring.finished
    PROVE  /\ Filled \in RingType /\ BuffersOk(Filled, backend)
           /\ Filled.data[ring.next] = NewFrames(F) /\ Len(NewFrames(F)) = F
           /\ Filled.next = ring.next /\ Filled.enqueued = ring.enqueued
           /\ Filled.head = ring.head /\ Filled.finished = ring.finished
           /\ Filled.busy = ring.busy /\ Filled.started = ring.started
           /\ \A k \in 1 .. Len(ring.enqueued) :
                 Filled.data[ring.enqueued[k]] = ring.data[ring.enqueued[k]]
<1>1. call \in CallType /\ ring \in RingType /\ BuffersOk(ring, backend)
  BY DEF SubmitInv, BuffersInv
<1>2. PICK x : x = NewFrames(F)
  OBVIOUS
<1>3. x \in Seq(Frame) /\ Len(x) = F
  BY <1>1, <1>2, NewFramesAre, OutputConstants
<1>4. Filled = Filling(ring, x)
  BY <1>2 DEF Filled, Filling
<1>5. ~InDriver(ring, ring.next) /\ ring.next \notin ring.finished
  OBVIOUS
<1>6. /\ Filling(ring, x) \in RingType /\ BuffersOk(Filling(ring, x), backend)
      /\ Filling(ring, x).data[ring.next] = x /\ Filling(ring, x).next = ring.next
      /\ Filling(ring, x).enqueued = ring.enqueued /\ Filling(ring, x).head = ring.head
      /\ Filling(ring, x).finished = ring.finished /\ Filling(ring, x).busy = ring.busy
      /\ Filling(ring, x).started = ring.started
      /\ \A k \in 1 .. Len(ring.enqueued) :
            Filling(ring, x).data[ring.enqueued[k]] = ring.data[ring.enqueued[k]]
  BY ONLY <1>1, <1>3, <1>5, RingFills
<1> QED BY ONLY <1>2, <1>3, <1>4, <1>6

----------------------------------------------------------------------------
(* What a step does to the frames the driver holds.                        *)

(* It leaves them alone; ...                                               *)
Kept(r, q) ==
    /\ q.enqueued = r.enqueued /\ q.head = r.head
    /\ \A k \in 1 .. Len(r.enqueued) : q.data[r.enqueued[k]] = r.data[r.enqueued[k]]

(* ... it gives the driver one more buffer, with the frames x.             *)
Added(r, q, x) ==
    /\ q.enqueued = Append(r.enqueued, r.next) /\ q.head = r.head
    /\ \A k \in 1 .. Len(r.enqueued) : q.data[r.enqueued[k]] = r.data[r.enqueued[k]]
    /\ q.data[r.next] = x

(* The next buffer, full, is given to the driver.                          *)
LEMMA RingAdds ==
    ASSUME NEW r \in RingType, NEW driver, BuffersOk(r, driver),
           ~InDriver(r, r.next), r.next \notin r.finished, Len(r.data[r.next]) = F,
           driver = "audioqueue" => r.next \in r.busy,
           NEW s \in BOOLEAN, NEW n \in Slots, NEW q,
           q = [data |-> r.data, busy |-> r.busy, next |-> n,
                enqueued |-> Append(r.enqueued, r.next), head |-> r.head,
                finished |-> r.finished, started |-> s]
    PROVE  q \in RingType /\ BuffersOk(q, driver)
<1>1. /\ q.data = r.data /\ q.enqueued = Append(r.enqueued, r.next)
      /\ q.head = r.head /\ q.finished = r.finished /\ q.busy = r.busy
  OBVIOUS
<1>2. PICK e : e = Append(r.enqueued, r.next)
  OBVIOUS
<1>3. /\ r.data \in [Slots -> Seq(Frame)] /\ r.busy \in SUBSET Slots /\ r.next \in Slots
      /\ r.enqueued \in Seq(Slots) /\ r.head \in Nat /\ r.finished \in SUBSET Slots
  BY DEF RingType
<1>4. e \in Seq(Slots)
  BY <1>2, <1>3
<1>5. n \in Slots /\ s \in BOOLEAN
  OBVIOUS
<1>6. q = [data |-> r.data, busy |-> r.busy, next |-> n, enqueued |-> e, head |-> r.head,
           finished |-> r.finished, started |-> s]
  BY <1>2
<1>7. q \in RingType
  BY ONLY <1>3, <1>4, <1>5, <1>6, RingOfFields
<1> QED BY <1>1, <1>7, RingEnqueues

(* AudioQueue claims a buffer, waits for one, or gives up.                 *)
LEMMA QueueClaims ==
    ASSUME SubmitInv, BuffersInv, queue_claim
    PROVE  BuffersInv' /\ Kept(ring, ring') /\ accepted' = accepted
<1>1. /\ backend = "audioqueue" /\ call \in CallType /\ ring \in RingType
      /\ BuffersOk(ring, "audioqueue")
      /\ pcm \in PcmType /\ stuck \in BOOLEAN
      /\ UNCHANGED <<backend, pcm, stuck, accepted>>
  BY DEF queue_claim, SubmitInv, BuffersInv
<1>2. CASE /\ ring.next \notin ring.busy
           /\ ring' = [ring EXCEPT !.busy = @ \cup {ring.next}]
           /\ Continue([call EXCEPT !.at = "claimed"])
  <2>1. PICK q : q = [ring EXCEPT !.busy = @ \cup {ring.next}]
    OBVIOUS
  <2>2. q \in RingType /\ BuffersOk(q, "audioqueue") /\ ClaimedOk(q)
    BY ONLY <1>1, <1>2, <2>1, RingClaims
  <2>3. Kept(ring, q)
    BY <1>1, <2>1 DEF Kept, RingType
  <2>4. ring' = q
    BY <1>2, <2>1
  <2> QED BY <1>1, <2>2, <2>3, <2>4 DEF BuffersInv
<1>3. CASE ring' = ring /\ call'.at # "claimed"
  <2>1. Kept(ring, ring')
    BY <1>3 DEF Kept
  <2> QED BY <1>1, <1>3, <2>1, DeviceStays
<1>4. CASE Continue([call EXCEPT !.at = "wait", !.attempts = @ + 1]) /\ ring' = ring
  <2>1. call'.at = "wait"
    BY <1>1, <1>4 DEF Continue, CallType
  <2> QED BY <1>3, <1>4, <2>1
<1>5. CASE Return(FALSE) /\ ring' = ring
  BY <1>3, <1>5, ReturnPlace
<1> QED BY <1>2, <1>4, <1>5 DEF queue_claim

(* A full buffer goes to the driver.                                       *)
LEMMA FilledAdds ==
    ASSUME SubmitInv, BuffersInv, ~InDriver(ring, ring.next), ring.next \notin ring.finished,
           backend = "audioqueue" => ring.next \in ring.busy,
           NEW s \in BOOLEAN, NEW n \in Slots, NEW q,
           q = [data |-> Filled.data, busy |-> ring.busy, next |-> n,
                enqueued |-> Append(ring.enqueued, ring.next), head |-> ring.head,
                finished |-> ring.finished, started |-> s]
    PROVE  q \in RingType /\ BuffersOk(q, backend) /\ Added(ring, q, NewFrames(F))
<1>1. PICK r : r = Filled
  OBVIOUS
<1>2. /\ r \in RingType /\ BuffersOk(r, backend)
      /\ r.data[ring.next] = NewFrames(F) /\ Len(NewFrames(F)) = F
      /\ r.next = ring.next /\ r.enqueued = ring.enqueued
      /\ r.head = ring.head /\ r.finished = ring.finished
      /\ r.busy = ring.busy
      /\ \A k \in 1 .. Len(ring.enqueued) : r.data[ring.enqueued[k]] = ring.data[ring.enqueued[k]]
  BY <1>1, FilledOk
<1>3. ~InDriver(r, r.next) /\ r.next \notin r.finished /\ Len(r.data[r.next]) = F
  BY <1>2 DEF InDriver
<1>4. backend = "audioqueue" => r.next \in r.busy
  BY <1>2
<1>5. s \in BOOLEAN /\ n \in Slots
  OBVIOUS
<1>6. q = [data |-> r.data, busy |-> r.busy, next |-> n,
           enqueued |-> Append(r.enqueued, r.next), head |-> r.head,
           finished |-> r.finished, started |-> s]
  BY <1>1, <1>2
<1>7. q \in RingType /\ BuffersOk(q, backend)
  BY ONLY <1>2, <1>3, <1>4, <1>5, <1>6, RingAdds
<1>8. q.enqueued = Append(ring.enqueued, ring.next) /\ q.head = ring.head /\ q.data = r.data
  BY <1>1
<1>9. Added(ring, q, NewFrames(F))
  BY <1>2, <1>8 DEF Added
<1> QED BY <1>7, <1>9

(* The ring that queue_enqueue and wave_write leave, field by field.       *)
LEMMA FilledFields ==
    ASSUME SubmitInv, BuffersInv, ~InDriver(ring, ring.next), ring.next \notin ring.finished
    PROVE  /\ [Filled EXCEPT !.enqueued = Append(@, ring.next), !.started = TRUE,
                             !.next = NextSlot(@)] =
                [data |-> Filled.data, busy |-> ring.busy, next |-> NextSlot(ring.next),
                 enqueued |-> Append(ring.enqueued, ring.next), head |-> ring.head,
                 finished |-> ring.finished, started |-> TRUE]
           /\ [Filled EXCEPT !.enqueued = Append(@, ring.next)] =
                [data |-> Filled.data, busy |-> ring.busy, next |-> ring.next,
                 enqueued |-> Append(ring.enqueued, ring.next), head |-> ring.head,
                 finished |-> ring.finished, started |-> ring.started]
<1>1. PICK r : r = Filled
  OBVIOUS
<1>2. /\ r \in RingType
      /\ r.next = ring.next /\ r.enqueued = ring.enqueued
      /\ r.head = ring.head /\ r.finished = ring.finished
      /\ r.busy = ring.busy /\ r.started = ring.started
  BY <1>1, FilledOk
<1>3. r = [data |-> r.data, busy |-> ring.busy, next |-> ring.next,
           enqueued |-> ring.enqueued, head |-> ring.head,
           finished |-> ring.finished, started |-> ring.started]
  BY ONLY <1>2 DEF RingType
<1>4. PICK e, m : e = Append(ring.enqueued, ring.next) /\ m = NextSlot(ring.next)
  OBVIOUS
<1>5. [r EXCEPT !.enqueued = Append(@, ring.next), !.started = TRUE, !.next = NextSlot(@)] =
      [r EXCEPT !.enqueued = e, !.started = TRUE, !.next = m]
  BY <1>2, <1>4
<1>6. [r EXCEPT !.enqueued = Append(@, ring.next)] = [r EXCEPT !.enqueued = e]
  BY <1>2, <1>4
<1>7. /\ [r EXCEPT !.enqueued = e, !.started = TRUE, !.next = m] =
           [data |-> r.data, busy |-> ring.busy, next |-> m, enqueued |-> e,
            head |-> ring.head, finished |-> ring.finished, started |-> TRUE]
      /\ [r EXCEPT !.enqueued = e] =
           [data |-> r.data, busy |-> ring.busy, next |-> ring.next, enqueued |-> e,
            head |-> ring.head, finished |-> ring.finished, started |-> ring.started]
  <2>1. PICK d, b, n, q, h, f, s :
            /\ d = r.data /\ b = ring.busy /\ n = ring.next /\ q = ring.enqueued
            /\ h = ring.head /\ f = ring.finished /\ s = ring.started
    OBVIOUS
  <2>2. r = [data |-> d, busy |-> b, next |-> n, enqueued |-> q, head |-> h, finished |-> f,
             started |-> s]
    BY <1>3, <2>1
  <2>3. [r EXCEPT !.enqueued = e] =
        [data |-> d, busy |-> b, next |-> n, enqueued |-> e, head |-> h, finished |-> f,
         started |-> s]
    BY ONLY <2>2
  <2>4. [r EXCEPT !.enqueued = e, !.started = TRUE, !.next = m] =
        [data |-> d, busy |-> b, next |-> m, enqueued |-> e, head |-> h, finished |-> f,
         started |-> TRUE]
    <3>1. PICK x, t : x = [r EXCEPT !.enqueued = e] /\ t = TRUE
      OBVIOUS
    <3>2. PICK y : y = [x EXCEPT !.started = t]
      OBVIOUS
    <3>3. y = [data |-> d, busy |-> b, next |-> n, enqueued |-> e, head |-> h, finished |-> f,
               started |-> t]
      BY ONLY <2>3, <3>1, <3>2
    <3>4. [y EXCEPT !.next = m] =
          [data |-> d, busy |-> b, next |-> m, enqueued |-> e, head |-> h, finished |-> f,
           started |-> t]
      BY ONLY <3>3
    <3> QED BY ONLY <3>1, <3>2, <3>4
  <2> QED BY ONLY <2>1, <2>3, <2>4
<1> QED BY ONLY <1>1, <1>4, <1>5, <1>6, <1>7

(* AudioQueue takes the buffer or refuses it.                              *)
LEMMA QueueEnqueues ==
    ASSUME SubmitInv, BuffersInv, queue_enqueue
    PROVE  /\ BuffersInv'
           /\ \/ Kept(ring, ring') /\ accepted' = accepted
              \/ Added(ring, ring', NewFrames(F)) /\ accepted' = Last(NewFrames(F))
<1>1. /\ backend = "audioqueue" /\ call \in CallType /\ ring \in RingType
      /\ BuffersOk(ring, backend) /\ ClaimedOk(ring)
      /\ pcm \in PcmType /\ stuck \in BOOLEAN
      /\ UNCHANGED <<backend, pcm, stuck>>
  BY DEF queue_enqueue, SubmitInv, BuffersInv
<1>2. ~InDriver(ring, ring.next) /\ ring.next \notin ring.finished /\ ring.next \in ring.busy
  BY <1>1 DEF ClaimedOk
<1>3. call'.at # "claimed"
  BY ReturnPlace DEF queue_enqueue
<1>4. CASE ring' = [Filled EXCEPT !.busy = @ \ {ring.next}] /\ accepted' = accepted
  <2>1. PICK r : r = Filled
    OBVIOUS
  <2>2. /\ r \in RingType /\ BuffersOk(r, backend)
        /\ r.next = ring.next /\ r.enqueued = ring.enqueued
        /\ r.head = ring.head /\ r.finished = ring.finished /\ r.busy = ring.busy
        /\ \A k \in 1 .. Len(ring.enqueued) : r.data[ring.enqueued[k]] = ring.data[ring.enqueued[k]]
    BY <1>2, <2>1, FilledOk
  <2>3. ClaimedOk(r)
    BY <1>1, <2>2 DEF ClaimedOk, InDriver
  <2>4. ring' = [r EXCEPT !.busy = @ \ {r.next}]
    BY <1>4, <2>1, <2>2
  <2>5. ring' \in RingType /\ BuffersOk(ring', backend)
    BY ONLY <2>2, <2>3, <2>4, RingGivesUp
  <2>6. ring'.enqueued = r.enqueued /\ ring'.head = r.head /\ ring'.data = r.data
    BY <2>2, <2>4 DEF RingType
  <2>7. Kept(ring, ring')
    BY <2>2, <2>6 DEF Kept
  <2> QED BY <1>1, <1>3, <1>4, <2>5, <2>7, RingNext
<1>5. ring.next \in Slots /\ ring.started \in BOOLEAN /\ NextSlot(ring.next) \in Slots
      /\ TRUE \in BOOLEAN
  BY <1>1, OutputConstants DEF RingType
<1>6. CASE ring' = [Filled EXCEPT !.enqueued = Append(@, ring.next), !.started = TRUE,
                                  !.next = NextSlot(@)] /\ accepted' = Last(NewFrames(F))
  <2>1. ring' = [data |-> Filled.data, busy |-> ring.busy, next |-> NextSlot(ring.next),
                 enqueued |-> Append(ring.enqueued, ring.next), head |-> ring.head,
                 finished |-> ring.finished, started |-> TRUE]
    BY <1>2, <1>6, FilledFields
  <2>2. ring' \in RingType /\ BuffersOk(ring', backend) /\ Added(ring, ring', NewFrames(F))
    BY <1>2, <1>5, <2>1, FilledAdds
  <2> QED BY <1>1, <1>3, <1>6, <2>2, RingNext
<1>7. CASE ring' = [Filled EXCEPT !.enqueued = Append(@, ring.next)]
           /\ accepted' = Last(NewFrames(F))
  <2>1. ring' = [data |-> Filled.data, busy |-> ring.busy, next |-> ring.next,
                 enqueued |-> Append(ring.enqueued, ring.next), head |-> ring.head,
                 finished |-> ring.finished, started |-> ring.started]
    BY <1>2, <1>7, FilledFields
  <2>2. ring' \in RingType /\ BuffersOk(ring', backend) /\ Added(ring, ring', NewFrames(F))
    BY <1>2, <1>5, <2>1, FilledAdds
  <2> QED BY <1>1, <1>3, <1>7, <2>2, RingNext
<1> QED BY <1>4, <1>6, <1>7 DEF queue_enqueue

(* waveOut takes the next buffer, refuses it, or has it still.             *)
LEMMA WaveWrites ==
    ASSUME SubmitInv, BuffersInv, wave_write
    PROVE  /\ BuffersInv'
           /\ \/ Kept(ring, ring') /\ accepted' = accepted
              \/ Added(ring, ring', NewFrames(F)) /\ accepted' = Last(NewFrames(F))
<1>1. /\ backend = "waveout" /\ call \in CallType /\ ring \in RingType
      /\ BuffersOk(ring, backend)
      /\ pcm \in PcmType /\ stuck \in BOOLEAN
      /\ UNCHANGED <<backend, pcm, stuck>>
  BY DEF wave_write, SubmitInv, BuffersInv
<1>2. call'.at # "claimed"
  <2>1. CASE Return(TRUE) \/ Return(FALSE)
    BY <2>1, ReturnPlace
  <2>2. CASE Continue([call EXCEPT !.at = "wait"])
    BY <1>1, <2>2, CallMoves DEF Continue, CallPlaces
  <2> QED BY <2>1, <2>2 DEF wave_write
<1>3. ring.finished = {} /\ ring.enqueued \in Seq(Slots) /\ ring.next \in Slots
  BY <1>1 DEF BuffersOk, RingType
<1>4. InQueue(ring.next) <=> InDriver(ring, ring.next)
  BY <1>3, RangeEquality DEF InQueue, InDriver
<1>5. CASE ring' = ring /\ accepted' = accepted
  <2>1. Kept(ring, ring')
    BY <1>5 DEF Kept
  <2> QED BY <1>1, <1>2, <1>5, <2>1, DeviceStays
<1>6. CASE ~InDriver(ring, ring.next) /\ ring' = Filled /\ accepted' = accepted
  <2>1. PICK r : r = Filled
    OBVIOUS
  <2>2. /\ r \in RingType /\ BuffersOk(r, backend)
        /\ r.enqueued = ring.enqueued /\ r.head = ring.head
        /\ \A k \in 1 .. Len(ring.enqueued) : r.data[ring.enqueued[k]] = ring.data[ring.enqueued[k]]
    BY <1>3, <1>6, <2>1, FilledOk
  <2>3. Kept(ring, ring')
    BY <1>6, <2>1, <2>2 DEF Kept
  <2> QED BY <1>1, <1>2, <1>6, <2>1, <2>2, <2>3, RingNext
<1>7. CASE /\ ~InDriver(ring, ring.next)
           /\ ring' = [Filled EXCEPT !.enqueued = Append(@, ring.next), !.started = TRUE,
                                     !.next = NextSlot(@)]
           /\ accepted' = Last(NewFrames(F))
  <2>1. ring' = [data |-> Filled.data, busy |-> ring.busy, next |-> NextSlot(ring.next),
                 enqueued |-> Append(ring.enqueued, ring.next), head |-> ring.head,
                 finished |-> ring.finished, started |-> TRUE]
    BY <1>3, <1>7, FilledFields
  <2>2. NextSlot(ring.next) \in Slots /\ ring.next \notin ring.finished /\ TRUE \in BOOLEAN
    BY <1>3, OutputConstants
  <2>3. ring' \in RingType /\ BuffersOk(ring', backend) /\ Added(ring, ring', NewFrames(F))
    BY <1>1, <1>7, <2>1, <2>2, FilledAdds
  <2> QED BY <1>1, <1>2, <1>7, <2>3, RingNext
<1> QED BY <1>4, <1>5, <1>6, <1>7 DEF wave_write

----------------------------------------------------------------------------
(* What AudioQueue and waveOut still have to play.                         *)

Parts(r) == [k \in DOMAIN r.enqueued |-> r.data[r.enqueued[k]]]

AllFrames(r) == FlattenSeq(Parts(r))

Shown(r) == SubSeq(AllFrames(r), r.head + 1, Len(AllFrames(r)))

(* What is queued is in the device of the board, or in the driver's ring.  *)
LEMMA QueuedIs ==
    Queued = IF backend \in {"alsa", "board"} THEN pcm.frames ELSE Shown(ring)
BY DEF Queued, Shown, AllFrames, Parts

(* The frames of the enqueued buffers.                                     *)
LEMMA PartsAre ==
    ASSUME NEW r \in RingType
    PROVE  /\ Parts(r) \in Seq(Seq(Frame)) /\ Len(Parts(r)) = Len(r.enqueued)
           /\ Len(r.enqueued) \in Nat
           /\ \A k \in 1 .. Len(r.enqueued) : Parts(r)[k] = r.data[r.enqueued[k]]
<1>1. PICK n : n = Len(r.enqueued)
  OBVIOUS
<1>2. n \in Nat /\ DOMAIN r.enqueued = 1 .. n /\ r.data \in [Slots -> Seq(Frame)]
      /\ \A k \in 1 .. n : r.enqueued[k] \in Slots
  BY <1>1 DEF RingType
<1> DEFINE e(k) == r.data[r.enqueued[k]]
           s == [k \in 1 .. n |-> e(k)]
<1>3. Parts(r) = s
  BY <1>2 DEF Parts
<1>4. \A k \in 1 .. n : e(k) \in Seq(Frame)
  BY <1>2
<1>5. s \in Seq(Seq(Frame)) /\ Len(s) = n /\ \A k \in 1 .. n : s[k] = e(k)
  BY <1>2, <1>4, IsASeq
<1> HIDE DEF s
<1> QED BY <1>1, <1>2, <1>3, <1>5

(* No buffer, no frame.                                                    *)
LEMMA NoneShown ==
    ASSUME NEW r \in RingType, r.enqueued = <<>>, r.head = 0
    PROVE  AllFrames(r) = <<>> /\ Shown(r) = <<>>
<1>1. Len(r.enqueued) = 0
  OBVIOUS
<1>2. PICK p : p = Parts(r)
  OBVIOUS
<1>3. p \in Seq(Seq(Frame)) /\ Len(p) = 0
  BY <1>1, <1>2, PartsAre
<1>4. p = <<>>
  BY <1>3, EmptySeq
<1>5. AllFrames(r) = <<>>
  BY <1>2, <1>4, FlattenEmpty DEF AllFrames
<1>6. Len(AllFrames(r)) = 0
  BY <1>5
<1> QED BY <1>5, <1>6, SubSeqEmpty DEF Shown

(* The part of the first buffer that was played is left out.               *)
LEMMA ShownAre ==
    ASSUME NEW r \in RingType, NEW driver, BuffersOk(r, driver)
    PROVE  /\ AllFrames(r) \in Seq(Frame) /\ Shown(r) \in Seq(Frame)
           /\ r.head \in Nat /\ r.head <= Len(AllFrames(r))
           /\ Len(Shown(r)) = Len(AllFrames(r)) - r.head
           /\ \A i \in 1 .. Len(AllFrames(r)) - r.head : Shown(r)[i] = AllFrames(r)[r.head + i]
           /\ r.enqueued # <<>> => r.head < Len(AllFrames(r))
<1>1. PICK p, a, h : p = Parts(r) /\ a = AllFrames(r) /\ h = r.head
  OBVIOUS
<1>2. p \in Seq(Seq(Frame)) /\ h \in Nat /\ a = FlattenSeq(p)
  BY <1>1, PartsAre DEF RingType, AllFrames
<1>3. a \in Seq(Frame)
  BY <1>2, FlattenType
<1>4. Len(a) \in Nat
  BY <1>3
<1>5. CASE r.enqueued = <<>>
  <2>1. h = 0
    BY <1>1, <1>5 DEF BuffersOk
  <2>2. a = <<>> /\ Shown(r) = <<>>
    BY <1>1, <1>5, <2>1, NoneShown
  <2>3. Len(a) = 0 /\ Len(Shown(r)) = 0 /\ Shown(r) \in Seq(Frame)
    BY <2>2, EmptySeq
  <2> QED BY <1>1, <1>2, <1>3, <1>5, <2>1, <2>3
<1>6. CASE r.enqueued # <<>>
  <2>1. Len(r.enqueued) \in Nat /\ Len(r.enqueued) >= 1
    <3>1. r.enqueued \in Seq(Slots)
      BY DEF RingType
    <3>2. Len(r.enqueued) \in Nat \ {0}
      BY ONLY <1>6, <3>1, EmptySeq
    <3> QED BY ONLY <3>2
  <2>2. p # <<>> /\ p[1] = r.data[r.enqueued[1]]
    <3>1. 1 \in 1 .. Len(r.enqueued) /\ Len(p) = Len(r.enqueued)
      BY <1>1, <2>1, PartsAre
    <3>2. p[1] = r.data[r.enqueued[1]]
      BY <1>1, <3>1, PartsAre
    <3>3. Len(p) >= 1
      BY ONLY <2>1, <3>1
    <3>4. p # <<>>
      BY ONLY <3>3
    <3> QED BY <3>2, <3>4
  <2>3. Len(p[1]) = F /\ h < F
    BY <1>1, <2>1, <2>2 DEF BuffersOk
  <2>4. PICK x, t : x = p[1] /\ t = FlattenSeq(Tail(p))
    OBVIOUS
  <2>5. Tail(p) \in Seq(Seq(Frame)) /\ x \in Seq(Frame)
    BY <1>2, <2>2, <2>4
  <2>6. t \in Seq(Frame)
    BY <2>4, <2>5, FlattenType
  <2>7. a = x \o t
    BY <1>2, <2>2, <2>4, FlattenTail
  <2>8. Len(a) = Len(x) + Len(t) /\ Len(t) \in Nat
    BY ONLY <2>5, <2>6, <2>7, ConcatProperties, LenProperties
  <2>9. h < Len(a)
    BY <1>2, <2>3, <2>4, <2>8, OutputConstants
  <2>10. \A i \in h + 1 .. Len(a) : a[i] \in Frame
    BY <1>2, <1>3, <1>4
  <2>11. PICK m, n : m = h + 1 /\ n = Len(a)
    OBVIOUS
  <2>12. m \in Int /\ n \in Int /\ (\A i \in m .. n : a[i] \in Frame)
    BY <1>2, <1>4, <2>10, <2>11
  <2>13. /\ SubSeq(a, m, n) \in Seq(Frame)
         /\ Len(SubSeq(a, m, n)) = IF m <= n THEN n - m + 1 ELSE 0
         /\ \A i \in 1 .. n - m + 1 : SubSeq(a, m, n)[i] = a[m + i - 1]
    BY ONLY <2>12, SubSeqProperties
  <2>14. Shown(r) = SubSeq(a, m, n)
    BY <1>1, <2>11 DEF Shown
  <2>15. m <= n /\ n - m + 1 = Len(a) - h
    BY <1>2, <1>4, <2>9, <2>11
  <2>16. \A i \in 1 .. Len(a) - h : m + i - 1 = h + i
    BY <1>2, <1>4, <2>11
  <2>17. PICK w : w = Shown(r)
    OBVIOUS
  <2>18. w \in Seq(Frame) /\ Len(w) = Len(a) - h
    BY ONLY <2>13, <2>14, <2>15, <2>17
  <2>19. \A i \in 1 .. Len(a) - h : w[i] = a[h + i]
    BY ONLY <2>13, <2>14, <2>15, <2>16, <2>17
  <2> QED BY ONLY <1>1, <1>2, <1>3, <2>9, <2>17, <2>18, <2>19
<1> QED BY <1>5, <1>6

(* As long as the driver's buffers stay, so does what is queued.           *)
LEMMA ShownSame ==
    ASSUME NEW r \in RingType, NEW q \in RingType, Kept(r, q)
    PROVE  Parts(q) = Parts(r) /\ Shown(q) = Shown(r)
<1>1. PICK p, s : p = Parts(r) /\ s = Parts(q)
  OBVIOUS
<1>2. p \in Seq(Seq(Frame)) /\ s \in Seq(Seq(Frame)) /\ Len(p) = Len(s)
      /\ \A k \in 1 .. Len(p) : p[k] = s[k]
  <2>1. /\ p \in Seq(Seq(Frame)) /\ Len(p) = Len(r.enqueued)
        /\ \A k \in 1 .. Len(r.enqueued) : p[k] = r.data[r.enqueued[k]]
    BY <1>1, PartsAre
  <2>2. /\ s \in Seq(Seq(Frame)) /\ Len(s) = Len(q.enqueued)
        /\ \A k \in 1 .. Len(q.enqueued) : s[k] = q.data[q.enqueued[k]]
    BY <1>1, PartsAre
  <2>3. q.enqueued = r.enqueued
        /\ \A k \in 1 .. Len(r.enqueued) : q.data[r.enqueued[k]] = r.data[r.enqueued[k]]
    BY DEF Kept
  <2>4. PICK e, l : e = r.enqueued /\ l = Len(e)
    OBVIOUS
  <2>5. Len(p) = l /\ Len(s) = l
    BY ONLY <2>1, <2>2, <2>3, <2>4
  <2>6. ASSUME NEW k \in 1 .. l PROVE p[k] = s[k]
    <3>1. p[k] = r.data[e[k]]
      BY ONLY <2>1, <2>4, <2>6
    <3>2. s[k] = q.data[e[k]]
      BY ONLY <2>2, <2>3, <2>4, <2>6
    <3>3. q.data[e[k]] = r.data[e[k]]
      BY ONLY <2>3, <2>4, <2>6
    <3> QED BY ONLY <3>1, <3>2, <3>3
  <2> QED BY <2>1, <2>2, <2>5, <2>6
<1>3. p = s
  BY ONLY <1>2, SeqEqual
<1>4. q.head = r.head /\ AllFrames(q) = AllFrames(r)
  BY <1>1, <1>3 DEF Kept, AllFrames
<1> QED BY <1>1, <1>3, <1>4 DEF Shown

(* A buffer that is added comes behind what is queued.                     *)
LEMMA ShownAdds ==
    ASSUME NEW r \in RingType, NEW q \in RingType, NEW driver, BuffersOk(r, driver),
           BuffersOk(q, driver), NEW x \in Seq(Frame), Added(r, q, x)
    PROVE  Shown(q) = Shown(r) \o x
<1>1. PICK p, s, n : p = Parts(r) /\ s = Parts(q) /\ n = Len(r.enqueued)
  OBVIOUS
<1>2. p \in Seq(Seq(Frame)) /\ s \in Seq(Seq(Frame)) /\ n \in Nat /\ Len(p) = n
      /\ (\A k \in 1 .. n : p[k] = r.data[r.enqueued[k]])
      /\ Len(s) = Len(q.enqueued)
      /\ (\A k \in 1 .. Len(q.enqueued) : s[k] = q.data[q.enqueued[k]])
  BY <1>1, PartsAre
<1>3. r.enqueued \in Seq(Slots) /\ r.next \in Slots
  BY DEF RingType
<1>4. Len(q.enqueued) = n + 1 /\ q.enqueued[n + 1] = r.next
      /\ \A k \in 1 .. n : q.enqueued[k] = r.enqueued[k]
  BY <1>1, <1>3 DEF Added
<1>5. Len(s) = n + 1 /\ s[n + 1] = x /\ \A k \in 1 .. n : s[k] = p[k]
  <2>1. n + 1 \in 1 .. n + 1 /\ \A k \in 1 .. n : k \in 1 .. n + 1
    BY <1>2
  <2>2. s[n + 1] = q.data[r.next] /\ \A k \in 1 .. n : s[k] = q.data[r.enqueued[k]]
    <3>1. \A k \in 1 .. n + 1 : s[k] = q.data[q.enqueued[k]]
      BY ONLY <1>2, <1>4
    <3>2. s[n + 1] = q.data[r.next]
      BY ONLY <1>4, <2>1, <3>1
    <3>3. \A k \in 1 .. n : s[k] = q.data[r.enqueued[k]]
      BY ONLY <1>4, <2>1, <3>1
    <3> QED BY ONLY <3>2, <3>3
  <2>3. q.data[r.next] = x /\ \A k \in 1 .. n : q.data[r.enqueued[k]] = r.data[r.enqueued[k]]
    BY <1>1 DEF Added
  <2> QED BY ONLY <1>2, <1>4, <2>2, <2>3
<1>6. PICK u : u = Append(p, x)
  OBVIOUS
<1>7. u \in Seq(Seq(Frame)) /\ Len(u) = n + 1 /\ u[n + 1] = x /\ \A k \in 1 .. n : u[k] = p[k]
  BY <1>2, <1>6
<1>8. \A k \in 1 .. Len(s) : s[k] = u[k]
  <2>1. \A k \in 1 .. n + 1 : k \in 1 .. n \/ k = n + 1
    BY <1>2
  <2> QED BY ONLY <1>5, <1>7, <2>1
<1>9. Len(s) = Len(u)
  BY <1>5, <1>7
<1>10. s = u
  BY ONLY <1>2, <1>7, <1>8, <1>9, SeqEqual
<1>11. PICK a, b, h, y : a = AllFrames(r) /\ b = AllFrames(q) /\ h = r.head /\ y = Shown(r)
  OBVIOUS
<1>12. b = a \o x
  <2>1. FlattenSeq(Append(p, x)) = FlattenSeq(p) \o x
    BY <1>2, FlattenAppend
  <2> QED BY <1>1, <1>6, <1>10, <1>11, <2>1 DEF AllFrames
<1>13. q.head = h
  BY <1>11 DEF Added
<1>14. /\ a \in Seq(Frame) /\ y \in Seq(Frame) /\ h \in Nat /\ h <= Len(a)
       /\ Len(y) = Len(a) - h /\ \A i \in 1 .. Len(a) - h : y[i] = a[h + i]
  BY <1>11, ShownAre
<1>15. PICK z : z = Shown(q)
  OBVIOUS
<1>16. z \in Seq(Frame) /\ Len(z) = Len(b) - h /\ \A i \in 1 .. Len(b) - h : z[i] = b[h + i]
  BY <1>11, <1>13, <1>15, ShownAre
<1>17. PICK m, l : m = Len(a) /\ l = Len(x)
  OBVIOUS
<1>18. m \in Nat /\ l \in Nat /\ x \in Seq(Frame)
  BY <1>14, <1>17, LenProperties
<1>19. Len(b) = m + l /\ \A i \in 1 .. m + l : b[i] = IF i <= m THEN a[i] ELSE x[i - m]
  BY ONLY <1>12, <1>14, <1>17, <1>18, ConcatProperties
<1>20. PICK w : w = y \o x
  OBVIOUS
<1>21. PICK j : j = Len(y)
  OBVIOUS
<1>22. w \in Seq(Frame) /\ Len(w) = j + l
       /\ \A i \in 1 .. j + l : w[i] = IF i <= j THEN y[i] ELSE x[i - j]
  <2>1. y \in Seq(Frame) /\ x \in Seq(Frame)
    BY <1>14
  <2>2. Len(w) = Len(y) + Len(x) /\ w \in Seq(Frame)
        /\ \A i \in 1 .. Len(y) + Len(x) : w[i] = IF i <= Len(y) THEN y[i] ELSE x[i - Len(y)]
    BY ONLY <1>20, <2>1, ConcatProperties
  <2> QED BY ONLY <1>17, <1>21, <2>2
<1>23. j = m - h /\ h <= m
  BY <1>14, <1>17, <1>21
<1>24. Len(z) = Len(w)
  BY ONLY <1>14, <1>16, <1>18, <1>19, <1>22, <1>23
<1>25. \A i \in 1 .. Len(z) : z[i] = w[i]
  <2> SUFFICES ASSUME NEW i \in 1 .. Len(z) PROVE z[i] = w[i]
    OBVIOUS
  <2>1. i \in 1 .. j + l /\ h + i \in 1 .. m + l /\ i \in 1 .. Len(b) - h
    BY <1>14, <1>16, <1>18, <1>19, <1>23
  <2>2. z[i] = b[h + i]
    BY <1>16, <2>1
  <2>3. CASE i <= j
    <3>1. h + i <= m /\ i \in 1 .. Len(a) - h
      BY <1>14, <1>17, <1>18, <1>23, <2>1, <2>3
    <3>2. b[h + i] = a[h + i]
      BY <1>19, <2>1, <3>1
    <3>3. w[i] = y[i] /\ y[i] = a[h + i]
      BY <1>14, <1>22, <2>1, <2>3, <3>1
    <3> QED BY <2>2, <3>2, <3>3
  <2>4. CASE ~(i <= j)
    <3>1. ~(h + i <= m) /\ (h + i) - m = i - j
      BY <1>14, <1>18, <1>23, <2>1, <2>4
    <3>2. b[h + i] = x[(h + i) - m]
      BY <1>19, <2>1, <3>1
    <3>3. w[i] = x[i - j]
      BY <1>22, <2>1, <2>4
    <3> QED BY <2>2, <3>1, <3>2, <3>3
  <2> QED BY <2>3, <2>4
<1>26. z = w
  BY ONLY <1>16, <1>22, <1>24, <1>25, SeqEqual
<1> QED BY <1>11, <1>15, <1>20, <1>26

(* The hardware plays a frame of the first buffer ...                      *)
Advanced(r, q) == q.enqueued = r.enqueued /\ q.head = r.head + 1 /\ q.data = r.data

(* ... or the last one of it, and goes on to the next buffer.              *)
Completed(r, q) ==
    /\ r.head + 1 = F /\ q.enqueued = Tail(r.enqueued) /\ q.head = 0
    /\ \A k \in 1 .. Len(q.enqueued) : q.data[q.enqueued[k]] = r.data[q.enqueued[k]]

(* The rest of a sequence, by what is dropped of it.                       *)
LEMMA TailOf ==
    ASSUME NEW s \in Seq(Frame), NEW t \in Seq(Frame), Len(s) >= 1, Len(t) = Len(s) - 1,
           \A i \in 1 .. Len(s) - 1 : t[i] = s[i + 1]
    PROVE  s # <<>> /\ t = Tail(s)
<1>1. s # <<>>
  OBVIOUS
<1>2. PICK u : u = Tail(s)
  OBVIOUS
<1>3. s \in Seq(Frame)
  OBVIOUS
<1>4. u \in Seq(Frame) /\ Len(u) = Len(s) - 1 /\ \A i \in 1 .. Len(u) : u[i] = s[i + 1]
  BY ONLY <1>1, <1>2, <1>3, HeadTailProperties
<1>5. t \in Seq(Frame) /\ Len(t) = Len(u) /\ \A i \in 1 .. Len(t) : t[i] = u[i]
  BY <1>4
<1>6. t = u
  BY ONLY <1>4, <1>5, SeqEqual
<1> QED BY <1>1, <1>2, <1>6

(* Within a buffer.                                                        *)
LEMMA ShownAdvances ==
    ASSUME NEW r \in RingType, NEW q \in RingType, NEW driver, BuffersOk(r, driver),
           BuffersOk(q, driver), r.enqueued # <<>>, Advanced(r, q)
    PROVE  Shown(r) # <<>> /\ Shown(q) = Tail(Shown(r))
<1>1. PICK a, h, y, z : a = AllFrames(r) /\ h = r.head /\ y = Shown(r) /\ z = Shown(q)
  OBVIOUS
<1>2. q.head = h + 1 /\ AllFrames(q) = a
  BY <1>1 DEF Advanced, AllFrames, Parts
<1>3. /\ a \in Seq(Frame) /\ y \in Seq(Frame) /\ h \in Nat /\ h < Len(a)
      /\ Len(y) = Len(a) - h /\ \A i \in 1 .. Len(a) - h : y[i] = a[h + i]
  BY <1>1, ShownAre
<1>4. /\ z \in Seq(Frame) /\ Len(z) = Len(a) - (h + 1)
      /\ \A i \in 1 .. Len(a) - (h + 1) : z[i] = a[(h + 1) + i]
  BY <1>1, <1>2, ShownAre
<1>5. Len(a) \in Nat
  BY <1>3
<1>6. Len(y) >= 1 /\ Len(z) = Len(y) - 1
  BY ONLY <1>3, <1>4, <1>5
<1>7. \A i \in 1 .. Len(y) - 1 : z[i] = y[i + 1]
  <2> SUFFICES ASSUME NEW i \in 1 .. Len(y) - 1 PROVE z[i] = y[i + 1]
    OBVIOUS
  <2>1. i \in 1 .. Len(a) - (h + 1) /\ i + 1 \in 1 .. Len(a) - h /\ (h + 1) + i = h + (i + 1)
    BY <1>3, <1>5
  <2>2. z[i] = a[(h + 1) + i]
    BY ONLY <1>4, <2>1
  <2>3. y[i + 1] = a[h + (i + 1)]
    BY ONLY <1>3, <2>1
  <2> QED BY ONLY <2>1, <2>2, <2>3
<1>8. y \in Seq(Frame) /\ z \in Seq(Frame)
  BY <1>3, <1>4
<1>9. y # <<>> /\ z = Tail(y)
  BY ONLY <1>6, <1>7, <1>8, TailOf
<1> QED BY <1>1, <1>9

(* At the end of a buffer.                                                 *)
LEMMA ShownCompletes ==
    ASSUME NEW r \in RingType, NEW q \in RingType, NEW driver, BuffersOk(r, driver),
           BuffersOk(q, driver), r.enqueued # <<>>, Completed(r, q)
    PROVE  Shown(r) # <<>> /\ Shown(q) = Tail(Shown(r))
<1>1. PICK p, s, n : p = Parts(r) /\ s = Parts(q) /\ n = Len(r.enqueued)
  OBVIOUS
<1>2. /\ p \in Seq(Seq(Frame)) /\ n \in Nat /\ Len(p) = n
      /\ \A k \in 1 .. n : p[k] = r.data[r.enqueued[k]]
  BY <1>1, PartsAre
<1>3. /\ s \in Seq(Seq(Frame)) /\ Len(s) = Len(q.enqueued)
      /\ \A k \in 1 .. Len(q.enqueued) : s[k] = q.data[q.enqueued[k]]
  BY <1>1, PartsAre
<1>4. r.enqueued \in Seq(Slots)
  BY DEF RingType
<1>5. /\ n >= 1 /\ Len(q.enqueued) = n - 1
      /\ \A k \in 1 .. n - 1 : q.enqueued[k] = r.enqueued[k + 1]
  BY <1>1, <1>4 DEF Completed
<1>6. p # <<>> /\ Len(p[1]) = F
  <2>1. 1 \in 1 .. n
    BY <1>2, <1>5
  <2>2. Len(r.data[r.enqueued[1]]) = F
    BY <1>1, <2>1 DEF BuffersOk
  <2>3. Len(p) >= 1
    BY ONLY <1>2, <1>5
  <2>4. p # <<>>
    BY ONLY <2>3
  <2> QED BY <1>2, <2>1, <2>2, <2>4
<1>7. PICK u : u = Tail(p)
  OBVIOUS
<1>8. /\ u \in Seq(Seq(Frame)) /\ Len(u) = n - 1
      /\ \A k \in 1 .. n - 1 : u[k] = p[k + 1]
  BY ONLY <1>2, <1>6, <1>7, HeadTailProperties
<1>9. \A k \in 1 .. Len(s) : s[k] = u[k]
  <2> SUFFICES ASSUME NEW k \in 1 .. n - 1 PROVE s[k] = u[k]
    BY <1>3, <1>5
  <2>1. k + 1 \in 1 .. n
    BY <1>2
  <2>2. s[k] = q.data[q.enqueued[k]]
    BY <1>3, <1>5
  <2>3. q.data[q.enqueued[k]] = r.data[q.enqueued[k]]
    BY <1>5 DEF Completed
  <2>4. u[k] = r.data[r.enqueued[k + 1]]
    BY <1>2, <1>8, <2>1
  <2> QED BY <1>5, <2>2, <2>3, <2>4
<1>10. s \in Seq(Seq(Frame)) /\ u \in Seq(Seq(Frame)) /\ Len(s) = Len(u)
  BY <1>3, <1>5, <1>8
<1>11. s = u
  BY ONLY <1>9, <1>10, SeqEqual
<1>12. PICK a, b, h, y, z, x :
          /\ a = AllFrames(r) /\ b = AllFrames(q) /\ h = r.head /\ y = Shown(r)
          /\ z = Shown(q) /\ x = p[1]
  OBVIOUS
<1>13. a = x \o b /\ x \in Seq(Frame)
  <2>1. FlattenSeq(p) = p[1] \o FlattenSeq(Tail(p))
    BY <1>2, <1>6, FlattenTail
  <2>2. 1 \in 1 .. n
    BY <1>2, <1>5
  <2>3. a = FlattenSeq(p) /\ b = FlattenSeq(Tail(p))
    BY <1>1, <1>7, <1>11, <1>12 DEF AllFrames
  <2>4. x \in Seq(Frame)
    BY ONLY <1>2, <1>12, <2>2, ElementOfSeq
  <2> QED BY ONLY <1>12, <2>1, <2>3, <2>4
<1>14. h + 1 = F /\ q.head = 0
  BY <1>12 DEF Completed
<1>15. /\ a \in Seq(Frame) /\ y \in Seq(Frame) /\ h \in Nat /\ h < Len(a)
       /\ Len(y) = Len(a) - h /\ \A i \in 1 .. Len(a) - h : y[i] = a[h + i]
  BY <1>12, ShownAre
<1>16. /\ b \in Seq(Frame) /\ z \in Seq(Frame) /\ Len(z) = Len(b) - 0
       /\ \A i \in 1 .. Len(b) - 0 : z[i] = b[0 + i]
  BY <1>12, <1>14, ShownAre
<1>17. PICK l : l = Len(b)
  OBVIOUS
<1>18. l \in Nat /\ x \in Seq(Frame) /\ b \in Seq(Frame) /\ Len(x) = h + 1
  BY <1>6, <1>12, <1>13, <1>14, <1>16, <1>17, LenProperties
<1>19. /\ Len(a) = (h + 1) + l
       /\ \A i \in 1 .. (h + 1) + l : a[i] = IF i <= h + 1 THEN x[i] ELSE b[i - (h + 1)]
  BY ONLY <1>13, <1>17, <1>18, ConcatProperties
<1>20. Len(y) >= 1 /\ Len(z) = Len(y) - 1 /\ Len(z) = l
  BY ONLY <1>15, <1>16, <1>17, <1>18, <1>19
<1>21. \A i \in 1 .. Len(y) - 1 : z[i] = y[i + 1]
  <2> SUFFICES ASSUME NEW i \in 1 .. l PROVE z[i] = y[i + 1]
    BY <1>20
  <2>1. /\ i + 1 \in 1 .. Len(a) - h /\ h + (i + 1) \in 1 .. (h + 1) + l
        /\ ~(h + (i + 1) <= h + 1) /\ (h + (i + 1)) - (h + 1) = i /\ 0 + i = i
        /\ i \in 1 .. Len(b) - 0
    BY <1>15, <1>17, <1>18, <1>19
  <2>2. y[i + 1] = a[h + (i + 1)]
    BY <1>15, <2>1
  <2>3. a[h + (i + 1)] = b[i]
    BY <1>19, <2>1
  <2>4. z[i] = b[i]
    BY <1>16, <2>1
  <2> QED BY <2>2, <2>3, <2>4
<1>22. y \in Seq(Frame) /\ z \in Seq(Frame)
  BY <1>15, <1>16
<1>23. y # <<>> /\ z = Tail(y)
  BY ONLY <1>20, <1>21, <1>22, TailOf
<1> QED BY <1>12, <1>23

----------------------------------------------------------------------------
(* What a step of the output side does to the abstract device.             *)

Untouched == Queued' = Queued /\ accepted' = accepted

(* What is queued stays with the device.                                   *)
LEMMA DeviceKeeps ==
    ASSUME BuffersInv, BuffersInv', UNCHANGED <<backend, pcm, accepted>>, Kept(ring, ring')
    PROVE  Untouched
<1>1. ring \in RingType /\ ring' \in RingType
  BY DEF BuffersInv
<1>2. Shown(ring') = Shown(ring)
  BY <1>1, ShownSame
<1>3. Queued' = IF backend' \in {"alsa", "board"} THEN pcm'.frames ELSE Shown(ring')
  BY DEF Queued, Shown, AllFrames, Parts
<1> QED BY <1>2, <1>3, QueuedIs DEF Untouched

(* The callback of AudioQueue.                                             *)
LEMMA CallbackKeeps ==
    ASSUME BuffersInv, NEW i \in Slots, buffer_finished(i)
    PROVE  BuffersInv' /\ Untouched
<1>1. /\ ring \in RingType /\ BuffersOk(ring, backend) /\ i \in ring.finished
      /\ pcm \in PcmType /\ stuck \in BOOLEAN
      /\ call.at = "claimed" => backend = "audioqueue" /\ ClaimedOk(ring)
      /\ UNCHANGED <<backend, pcm, stuck, call, accepted>>
      /\ ring' = [ring EXCEPT !.busy = @ \ {i}, !.finished = @ \ {i}, !.data[i] = <<>>]
  BY DEF BuffersInv, buffer_finished
<1>2. PICK q : q = Returned(ring, i)
  OBVIOUS
<1>3. /\ q \in RingType /\ BuffersOk(q, backend)
      /\ q.enqueued = ring.enqueued /\ q.head = ring.head
      /\ \A k \in 1 .. Len(ring.enqueued) : q.data[ring.enqueued[k]] = ring.data[ring.enqueued[k]]
      /\ ClaimedOk(ring) => ClaimedOk(q)
  <2>1. ring \in RingType /\ BuffersOk(ring, backend) /\ i \in ring.finished
    BY <1>1
  <2>2. /\ Returned(ring, i) \in RingType /\ BuffersOk(Returned(ring, i), backend)
        /\ Returned(ring, i).next = ring.next /\ Returned(ring, i).enqueued = ring.enqueued
        /\ Returned(ring, i).head = ring.head
        /\ \A k \in 1 .. Len(ring.enqueued) :
              Returned(ring, i).data[ring.enqueued[k]] = ring.data[ring.enqueued[k]]
        /\ ClaimedOk(ring) => ClaimedOk(Returned(ring, i))
    BY ONLY <2>1, RingReturns
  <2> QED BY <1>2, <2>2
<1>4. ring' = q
  BY <1>1, <1>2 DEF Returned
<1>5. Kept(ring, ring')
  BY <1>3, <1>4 DEF Kept
<1>6. /\ pcm' \in PcmType /\ stuck' \in BOOLEAN /\ backend' = backend
      /\ ring' \in RingType /\ BuffersOk(ring', backend)
      /\ call'.at = "claimed" => backend = "audioqueue" /\ ClaimedOk(ring')
  BY <1>1, <1>3, <1>4
<1>7. BuffersInv'
  BY <1>6 DEF BuffersInv
<1> QED BY <1>1, <1>5, <1>7, DeviceKeeps

(* A sleep ends.                                                           *)
LEMMA WakeUntouched ==
    ASSUME SubmitInv, BuffersInv, Wake
    PROVE  BuffersInv' /\ Untouched
<1>1. UNCHANGED <<backend, pcm, ring, stuck, accepted>> /\ call'.at = "write"
  BY CallMoves DEF Wake, device, SubmitInv, CallPlaces
<1>2. BuffersInv'
  BY <1>1, DeviceStays
<1>3. Kept(ring, ring')
  BY <1>1 DEF Kept
<1> QED BY <1>1, <1>2, <1>3, DeviceKeeps

(* The device is opened or closed.                                         *)
LEMMA FreshDeviceOk ==
    ASSUME NEW u, FreshDevice(u), backend' = backend, call'.at # "claimed"
    PROVE  BuffersInv' /\ Queued' = <<>>
<1>1. pcm' = FreshPcm /\ ring' = FreshRing /\ stuck' = FALSE
  BY DEF FreshDevice
<1>2. FreshPcm \in PcmType /\ FreshPcm.frames = <<>>
  BY EmptySeq DEF FreshPcm, PcmType
<1>3. FreshRing \in RingType /\ BuffersOk(FreshRing, backend)
  BY FreshRingOk
<1>4. BuffersInv'
  BY <1>1, <1>2, <1>3, RingNext
<1>5. Shown(FreshRing) = <<>>
  <2>1. FreshRing.enqueued = <<>> /\ FreshRing.head = 0
    BY DEF FreshRing
  <2> QED BY <1>3, <2>1, NoneShown
<1>6. Queued' = IF backend' \in {"alsa", "board"} THEN pcm'.frames ELSE Shown(ring')
  BY DEF Queued, Shown, AllFrames, Parts
<1> QED BY <1>1, <1>2, <1>4, <1>5, <1>6

(* Polls, clocks, packets and requests do not reach the device.            *)
LEMMA PollsUntouched ==
    ASSUME SubmitInv, BuffersInv,
           \/ DelayFails \/ TooEarly \/ DropPacket \/ Submit \/ Stall \/ Sync \/ StopRequest
           \/ \E p \in 1 .. Packets[backend] : Arrive(p)
           \/ UNCHANGED outputVars
    PROVE  BuffersInv' /\ Untouched
<1>1. UNCHANGED <<backend, pcm, ring, accepted>> /\ stuck' \in BOOLEAN
  BY DEF DelayFails, TooEarly, DropPacket, Submit, MeasureDelay, Stall, Sync, StopRequest,
         Arrive, device, outputVars, BuffersInv
<1>2. call' = call \/ call'.at # "claimed"
  BY DEF DelayFails, TooEarly, DropPacket, Submit, Stall, Sync, StopRequest, Arrive, outputVars
<1>3. BuffersInv'
  BY <1>1, <1>2 DEF BuffersInv
<1>4. Kept(ring, ring')
  BY <1>1 DEF Kept
<1> QED BY <1>1, <1>3, <1>4, DeviceKeeps

(* A call of the driver begins and ends with the device closed.            *)
LEMMA OpenCloseDevice ==
    ASSUME SubmitInv, BuffersInv,
           alsa_open \/ queue_open \/ wave_open \/ board_open \/ close_audio
    PROVE  BuffersInv' /\ Queued' = <<>> /\ accepted' = accepted
<1>1. PICK u : FreshDevice(u) /\ UNCHANGED <<backend, accepted>>
  BY DEF alsa_open, queue_open, wave_open, board_open, Open, close_audio, alsa_close,
         queue_close, wave_close, board_close, Close
<1>2. call'.at # "claimed"
  <2>1. CASE call' = call /\ call.at = "closed"
    BY <2>1
  <2>2. CASE call' = NoCall \/ call' = [NoCall EXCEPT !.at = "closed"]
    BY <2>2, NoCallType
  <2> QED BY <2>1, <2>2 DEF alsa_open, queue_open, wave_open, board_open, Open, close_audio,
             alsa_close, queue_close, wave_close, board_close, Close
<1> QED BY <1>1, <1>2, FreshDeviceOk

(* The hardware plays the first frame that is queued.                      *)
LEMMA PlaysFrame ==
    ASSUME BuffersInv, Playing, PlayFrame, backend' = backend, call'.at # "claimed"
    PROVE  BuffersInv' /\ Queued # <<>> /\ Queued' = Tail(Queued)
<1>1. /\ pcm \in PcmType /\ ring \in RingType /\ stuck \in BOOLEAN /\ BuffersOk(ring, backend)
      /\ Queued # <<>>
  BY DEF BuffersInv, Playing
<1>2. Queued' = IF backend \in {"alsa", "board"} THEN pcm'.frames ELSE Shown(ring')
  BY DEF Queued, Shown, AllFrames, Parts
<1>3. CASE backend \in {"alsa", "board"}
  <2>1. /\ ring' = ring /\ stuck' = stuck
        /\ pcm' = [frames |-> Tail(pcm.frames),
                   state |-> IF backend = "alsa" /\ Len(pcm.frames) = 1 THEN "xrun"
                             ELSE pcm.state]
    BY <1>3 DEF PlayFrame
  <2>2. /\ pcm.frames # <<>> /\ pcm.frames \in Seq(Frame)
        /\ pcm.state \in {"prepared", "running", "xrun"}
    BY <1>1, <1>3, QueuedIs DEF PcmType
  <2>3. Tail(pcm.frames) \in Seq(Frame)
    BY <2>2
  <2>4. pcm' \in PcmType /\ pcm'.frames = Tail(pcm.frames)
    BY <2>1, <2>2, <2>3 DEF PcmType
  <2>5. BuffersInv'
    BY <1>1, <2>1, <2>4, RingNext
  <2> QED BY <1>1, <1>2, <1>3, <2>4, <2>5, QueuedIs
<1>4. CASE backend \notin {"alsa", "board"}
  <2>1. /\ UNCHANGED <<pcm, stuck>>
        /\ IF EndsBuffer
           THEN /\ backend = "audioqueue" => ring.finished = {}
                /\ ring' = [ring EXCEPT !.enqueued = Tail(@), !.head = 0,
                       !.finished = IF backend = "audioqueue" THEN {HeadBuffer} ELSE {},
                       !.data[HeadBuffer] = IF backend = "audioqueue" THEN @ ELSE <<>>]
           ELSE ring' = [ring EXCEPT !.head = @ + 1]
    BY <1>4 DEF PlayFrame
  <2>2. ring.enqueued # <<>>
    <3> SUFFICES ASSUME ring.enqueued = <<>> PROVE FALSE
      OBVIOUS
    <3>1. ring.head = 0
      BY <1>1 DEF BuffersOk
    <3>2. Shown(ring) = <<>>
      BY <1>1, <3>1, NoneShown
    <3> QED BY <1>1, <1>4, <3>2, QueuedIs
  <2>3. HeadBuffer = Head(ring.enqueued) /\ (EndsBuffer <=> ring.head + 1 = F)
    <3>1. ring.enqueued \in Seq(Slots)
      BY <1>1 DEF RingType
    <3>2. 1 \in 1 .. Len(ring.enqueued) /\ Head(ring.enqueued) = ring.enqueued[1]
      BY <2>2, <3>1
    <3>3. Len(ring.data[ring.enqueued[1]]) = F
      BY <1>1, <3>2 DEF BuffersOk
    <3> QED BY <3>2, <3>3 DEF HeadBuffer, EndsBuffer
  <2>4. CASE EndsBuffer
    <3>1. ring' = Through(ring, backend) /\ (backend = "audioqueue" => ring.finished = {})
      BY <2>1, <2>3, <2>4 DEF Through
    <3>2. ring \in RingType /\ BuffersOk(ring, backend)
      BY <1>1
    <3>3. /\ ring' \in RingType /\ BuffersOk(ring', backend)
          /\ ring'.enqueued = Tail(ring.enqueued) /\ ring'.head = 0
          /\ \A k \in 1 .. Len(ring'.enqueued) :
                ring'.data[ring'.enqueued[k]] = ring.data[ring'.enqueued[k]]
      BY ONLY <2>2, <3>1, <3>2, RingCompletes
    <3>4. Completed(ring, ring')
      BY <2>3, <2>4, <3>3 DEF Completed
    <3>5. Shown(ring') = Tail(Shown(ring))
      BY <1>1, <2>2, <3>3, <3>4, ShownCompletes
    <3>6. BuffersInv'
      BY <1>1, <2>1, <3>3, RingNext
    <3> QED BY <1>1, <1>2, <1>4, <3>5, <3>6, QueuedIs
  <2>5. CASE ~EndsBuffer
    <3>1. ring' = [ring EXCEPT !.head = @ + 1] /\ ring.head + 1 # F
      BY <2>1, <2>3, <2>5
    <3>2. /\ ring' \in RingType /\ BuffersOk(ring', backend)
          /\ ring'.enqueued = ring.enqueued /\ ring'.head = ring.head + 1
          /\ ring'.data = ring.data
      BY ONLY <1>1, <2>2, <3>1, RingAdvances
    <3>3. Advanced(ring, ring')
      BY <3>2 DEF Advanced
    <3>4. Shown(ring') = Tail(Shown(ring))
      BY <1>1, <2>2, <3>2, <3>3, ShownAdvances
    <3>5. BuffersInv'
      BY <1>1, <2>1, <3>2, RingNext
    <3> QED BY <1>1, <1>2, <1>4, <3>4, <3>5, QueuedIs
  <2> QED BY <2>4, <2>5
<1> QED BY <1>3, <1>4

(* Time passes.                                                            *)
LEMMA TickDevice ==
    ASSUME SubmitInv, BuffersInv, Tick
    PROVE  /\ BuffersInv' /\ accepted' = accepted
           /\ Queued' = Queued \/ (Queued # <<>> /\ Queued' = Tail(Queued))
<1>1. UNCHANGED <<backend, accepted>> /\ call'.at # "claimed"
  <2>1. UNCHANGED <<backend, accepted>> /\ call.at \in {"closed", "poll", "wait"}
        /\ call' = IF call.at = "wait" THEN [call EXCEPT !.at = "woken"] ELSE call
    BY DEF Tick
  <2>2. CASE call.at = "wait"
    <3>1. call'.at = "woken"
      BY <2>1, <2>2, CallMoves DEF SubmitInv, CallPlaces
    <3> QED BY <2>1, <3>1
  <2> QED BY <2>1, <2>2
<1>2. CASE Playing
  BY <1>1, <1>2, PlaysFrame DEF Tick
<1>3. CASE ~Playing
  <2>1. UNCHANGED <<pcm, ring, stuck>>
    BY <1>3 DEF Tick, device
  <2>2. BuffersInv' /\ Kept(ring, ring')
    BY <1>1, <2>1, DeviceStays DEF Kept
  <2> QED BY <1>1, <2>1, <2>2, DeviceKeeps DEF Untouched
<1> QED BY <1>2, <1>3

----------------------------------------------------------------------------
(* What a write adds is a run of frames that follow each other.            *)

(* What the driver queues is a sequence of frames.                         *)
LEMMA QueuedType == BuffersInv => Queued \in Seq(Frame)
<1> SUFFICES ASSUME BuffersInv PROVE Queued \in Seq(Frame)
  OBVIOUS
<1>1. pcm.frames \in Seq(Frame)
  BY DEF BuffersInv, PcmType
<1>2. Shown(ring) \in Seq(Frame)
  BY ShownAre DEF BuffersInv
<1> QED BY <1>1, <1>2, QueuedIs

(* The new frames follow the frame accepted last, and each other.          *)
LEMMA NewRun ==
    ASSUME SubmitInv, Writing, NEW n \in Nat, n >= 1
    PROVE  /\ Device!Follows(NewFrames(n)[1], accepted)
           /\ \A i \in 1 .. n - 1 : Device!Follows(NewFrames(n)[i + 1], NewFrames(n)[i])
<1>1. PICK x : x = NewFrames(n)
  OBVIOUS
<1>2. /\ call.packet \in Nat /\ call.written \in Nat /\ accepted \in Frame
      /\ call.written = 0 => accepted.packet < call.packet
  BY AcceptedBefore
<1>3. call.written > 0 => accepted.packet = call.packet /\ accepted.index = call.written
  BY DEF SubmitInv, AcceptedInv
<1>4. \A i \in 1 .. n : x[i].packet = call.packet /\ x[i].index = call.written + i
  BY <1>1, NewFramesAre DEF SubmitInv
<1>5. Device!Follows(x[1], accepted)
  <2>1. 1 \in 1 .. n
    OBVIOUS
  <2>2. x[1].packet = call.packet /\ x[1].index = call.written + 1
    BY <1>4, <2>1
  <2>3. CASE call.written = 0
    BY <1>2, <2>2, <2>3 DEF Device!Follows
  <2>4. CASE call.written # 0
    <3>1. call.written > 0
      BY <1>2, <2>4
    <3> QED BY <1>3, <2>2, <3>1 DEF Device!Follows
  <2> QED BY <2>3, <2>4
<1>6. ASSUME NEW i \in 1 .. n - 1
      PROVE  Device!Follows(x[i + 1], x[i])
  <2>1. i \in 1 .. n /\ i + 1 \in 1 .. n /\ call.written + (i + 1) = (call.written + i) + 1
    BY <1>2
  <2>2. x[i + 1].packet = x[i].packet /\ x[i + 1].index = x[i].index + 1
    BY <1>4, <2>1
  <2> QED BY <2>2 DEF Device!Follows
<1> QED BY <1>1, <1>5, <1>6

(* What was queued and what comes behind it, taken apart again.            *)
LEMMA TakenApart ==
    ASSUME NEW q \in Seq(Frame), NEW x \in Seq(Frame), NEW p, p = q \o x
    PROVE  /\ Len(p) = Len(q) + Len(x) /\ Len(q) \in Nat /\ Len(x) \in Nat
           /\ SubSeq(p, 1, Len(q)) = q
           /\ SubSeq(p, Len(q) + 1, Len(p)) = x
<1>1. PICK m, l : m = Len(q) /\ l = Len(x)
  OBVIOUS
<1>2. m \in Nat /\ l \in Nat /\ q \in Seq(Frame) /\ x \in Seq(Frame)
  BY <1>1, LenProperties
<1>3. /\ p \in Seq(Frame) /\ Len(p) = m + l
      /\ \A i \in 1 .. m + l : p[i] = IF i <= m THEN q[i] ELSE x[i - m]
  BY ONLY <1>1, <1>2, p = q \o x, ConcatProperties
<1>4. PICK s : s = SubSeq(p, 1, m)
  OBVIOUS
<1>5. 1 \in Int /\ m \in Int /\ \A i \in 1 .. m : p[i] \in Frame
  BY ONLY <1>2, <1>3, ElementOfSeq
<1>6. /\ s \in Seq(Frame) /\ Len(s) = IF 1 <= m THEN m - 1 + 1 ELSE 0
      /\ \A i \in 1 .. m - 1 + 1 : s[i] = p[1 + i - 1]
  BY ONLY <1>4, <1>5, SubSeqProperties
<1>7. Len(s) = m /\ \A i \in 1 .. m : s[i] = q[i]
  <2>1. Len(s) = m /\ m - 1 + 1 = m
    BY ONLY <1>2, <1>6
  <2>2. ASSUME NEW i \in 1 .. m PROVE s[i] = q[i]
    <3>1. 1 + i - 1 = i /\ i <= m /\ i \in 1 .. m + l
      BY ONLY <1>2, <2>2
    <3>2. s[i] = p[i]
      BY <1>6, <2>1, <3>1
    <3> QED BY <1>3, <3>1, <3>2
  <2> QED BY <2>1, <2>2
<1>8. s = q
  BY ONLY <1>1, <1>2, <1>6, <1>7, SeqEqual
<1>9. PICK a, b : a = m + 1 /\ b = m + l
  OBVIOUS
<1>10. PICK t : t = SubSeq(p, a, b)
  OBVIOUS
<1>11. a \in Int /\ b \in Int /\ \A i \in a .. b : p[i] \in Frame
  <2>1. \A i \in a .. b : i \in 1 .. Len(p)
    BY ONLY <1>2, <1>3, <1>9
  <2> QED BY ONLY <1>2, <1>3, <1>9, <2>1, ElementOfSeq
<1>12. /\ t \in Seq(Frame) /\ Len(t) = IF a <= b THEN b - a + 1 ELSE 0
       /\ \A i \in 1 .. b - a + 1 : t[i] = p[a + i - 1]
  BY ONLY <1>10, <1>11, SubSeqProperties
<1>13. Len(t) = l /\ \A i \in 1 .. l : t[i] = x[i]
  <2>1. Len(t) = l /\ b - a + 1 = l
    BY ONLY <1>2, <1>9, <1>12
  <2>2. ASSUME NEW i \in 1 .. l PROVE t[i] = x[i]
    <3>1. a + i - 1 = m + i /\ ~(m + i <= m) /\ m + i \in 1 .. m + l /\ (m + i) - m = i
      BY ONLY <1>2, <1>9, <2>2
    <3>2. t[i] = p[m + i]
      BY <1>12, <2>1, <3>1
    <3> QED BY <1>3, <3>1, <3>2
  <2> QED BY <2>1, <2>2
<1>14. t = x
  BY ONLY <1>1, <1>2, <1>12, <1>13, SeqEqual
<1> QED BY <1>1, <1>2, <1>3, <1>4, <1>8, <1>9, <1>10, <1>14

(* The frame accepted last, and the run behind it.                         *)
LEMMA RunOf ==
    ASSUME NEW f \in Frame, NEW x \in Seq(Frame), NEW r, r = <<f>> \o x
    PROVE  /\ Len(r) = Len(x) + 1 /\ r[1] = f /\ Len(x) \in Nat
           /\ \A i \in 1 .. Len(x) : r[i + 1] = x[i]
<1>1. PICK s : s = <<f>>
  OBVIOUS
<1>2. s \in Seq(Frame) /\ Len(s) = 1 /\ s[1] = f
  BY <1>1
<1>3. x \in Seq(Frame) /\ Len(x) \in Nat /\ r = s \o x
  BY <1>1, LenProperties
<1>4. /\ Len(r) = Len(s) + Len(x)
      /\ \A i \in 1 .. Len(s) + Len(x) : r[i] = IF i <= Len(s) THEN s[i] ELSE x[i - Len(s)]
  BY ONLY <1>2, <1>3, ConcatProperties
<1>5. Len(r) = Len(x) + 1
  BY ONLY <1>2, <1>3, <1>4
<1>6. r[1] = f
  BY ONLY <1>2, <1>3, <1>4
<1>7. ASSUME NEW i \in 1 .. Len(x) PROVE r[i + 1] = x[i]
  <2>1. i + 1 \in 1 .. 1 + Len(x) /\ ~(i + 1 <= 1) /\ (i + 1) - 1 = i
    BY ONLY <1>3, <1>7
  <2> QED BY ONLY <1>2, <1>4, <2>1
<1> QED BY ONLY <1>3, <1>5, <1>6, <1>7

(* A write is accepted as the abstract device accepts frames.              *)
LEMMA AcceptsRun ==
    ASSUME SubmitInv, BuffersInv, Writing, NEW n \in Nat, n >= 1,
           Queued' = Queued \o NewFrames(n), accepted' = Last(NewFrames(n))
    PROVE  Device!Accept
<1>1. PICK q, x, p, r : /\ q = Queued /\ x = NewFrames(n) /\ p = Queued'
                        /\ r = <<accepted>> \o x
  OBVIOUS
<1>2. accepted \in Frame /\ call \in CallType
  BY DEF SubmitInv
<1>3. q \in Seq(Frame) /\ x \in Seq(Frame) /\ Len(x) = n
  BY <1>1, <1>2, QueuedType, NewFramesAre
<1>4. /\ Len(p) = Len(q) + n /\ Len(q) \in Nat
      /\ SubSeq(p, 1, Len(q)) = q /\ SubSeq(p, Len(q) + 1, Len(p)) = x
  <2>1. q \in Seq(Frame) /\ x \in Seq(Frame) /\ p = q \o x
    BY <1>1, <1>3
  <2>2. /\ Len(p) = Len(q) + Len(x) /\ Len(q) \in Nat
        /\ SubSeq(p, 1, Len(q)) = q /\ SubSeq(p, Len(q) + 1, Len(p)) = x
    BY ONLY <2>1, TakenApart
  <2> QED BY <1>3, <2>2
<1>5. Len(r) = n + 1 /\ r[1] = accepted /\ \A i \in 1 .. n : r[i + 1] = x[i]
  <2>1. accepted \in Frame /\ x \in Seq(Frame) /\ r = <<accepted>> \o x
    BY <1>1, <1>2, <1>3
  <2>2. Len(r) = Len(x) + 1 /\ r[1] = accepted /\ \A i \in 1 .. Len(x) : r[i + 1] = x[i]
    BY ONLY <2>1, RunOf
  <2> QED BY ONLY <1>3, <2>2
<1>6. /\ Device!Follows(x[1], accepted)
      /\ \A i \in 1 .. n - 1 : Device!Follows(x[i + 1], x[i])
  BY <1>1, NewRun
<1>7. ASSUME NEW i \in 1 .. n
      PROVE  Device!Follows(r[i + 1], r[i])
  <2>1. r[i + 1] = x[i]
    BY <1>5
  <2>2. CASE i = 1
    BY <1>5, <1>6, <2>1, <2>2
  <2>3. CASE i # 1
    <3>1. PICK j : j = i - 1
      OBVIOUS
    <3>2. j \in 1 .. n - 1 /\ j \in 1 .. n /\ j + 1 = i
      BY <2>3, <3>1
    <3>3. r[i] = x[j] /\ Device!Follows(x[i], x[j])
      BY <1>5, <1>6, <3>2
    <3> QED BY <2>1, <3>3
  <2> QED BY <2>2, <2>3
<1>8. accepted' = r[n + 1]
  <2>1. accepted' = x[n]
    BY <1>1, <1>2, LastNewFrame
  <2>2. n \in 1 .. n
    OBVIOUS
  <2> QED BY <1>5, <2>1, <2>2
<1>9. Len(p) > Len(q) /\ Len(r) - 1 = n
  BY ONLY n \in Nat, n >= 1, <1>4, <1>5
<1>10. r = <<accepted>> \o SubSeq(Queued', Len(Queued) + 1, Len(Queued'))
  BY <1>1, <1>4
<1>11. Len(Queued') > Len(Queued) /\ SubSeq(Queued', 1, Len(Queued)) = Queued
  BY <1>1, <1>4, <1>9
<1>12. (\A i \in 1 .. Len(r) - 1 : Device!Follows(r[i + 1], r[i])) /\ accepted' = r[Len(r)]
  BY <1>5, <1>7, <1>8, <1>9
<1> QED BY <1>10, <1>11, <1>12 DEF Device!Accept

(* A full buffer comes behind what AudioQueue or waveOut has queued.       *)
LEMMA AddedQueues ==
    ASSUME SubmitInv, BuffersInv, BuffersInv', backend \notin {"alsa", "board"},
           backend' = backend, Added(ring, ring', NewFrames(F))
    PROVE  Queued' = Queued \o NewFrames(F)
<1>1. F \in Nat /\ F >= 1 /\ call \in CallType
  BY OutputConstants DEF SubmitInv
<1>2. PICK x : x = NewFrames(F)
  OBVIOUS
<1>3. x \in Seq(Frame)
  BY <1>1, <1>2, NewFramesAre
<1>4. /\ ring \in RingType /\ ring' \in RingType /\ BuffersOk(ring, backend)
      /\ BuffersOk(ring', backend)
  BY DEF BuffersInv
<1>5. Shown(ring') = Shown(ring) \o x
  BY <1>2, <1>3, <1>4, ShownAdds
<1>6. Queued' = IF backend \in {"alsa", "board"} THEN pcm'.frames ELSE Shown(ring')
  BY DEF Queued, Shown, AllFrames, Parts
<1> QED BY <1>2, <1>5, <1>6, QueuedIs

(* It is accepted.                                                         *)
LEMMA AddedAccepts ==
    ASSUME SubmitInv, BuffersInv, BuffersInv', Writing, backend \notin {"alsa", "board"},
           backend' = backend, Added(ring, ring', NewFrames(F)),
           accepted' = Last(NewFrames(F))
    PROVE  Device!Accept
<1>1. F \in Nat /\ F >= 1
  BY OutputConstants
<1>2. Queued' = Queued \o NewFrames(F)
  BY AddedQueues
<1> QED BY <1>1, <1>2, AcceptsRun

(* ALSA and the board append to what the device holds.                     *)
LEMMA PcmAccepts ==
    ASSUME SubmitInv, BuffersInv, Writing, backend \in {"alsa", "board"}, backend' = backend,
           NEW n \in Nat, n >= 1, pcm'.frames = pcm.frames \o NewFrames(n),
           accepted' = Last(NewFrames(n))
    PROVE  Device!Accept
<1>1. Queued' = IF backend \in {"alsa", "board"} THEN pcm'.frames ELSE Shown(ring')
  BY DEF Queued, Shown, AllFrames, Parts
<1>2. Queued' = Queued \o NewFrames(n)
  BY <1>1, QueuedIs
<1> QED BY <1>2, AcceptsRun

(* ALSA and the board may also leave what they hold alone.                 *)
LEMMA PcmUntouched ==
    ASSUME backend \in {"alsa", "board"}, backend' = backend, pcm'.frames = pcm.frames,
           accepted' = accepted
    PROVE  Untouched
<1>1. Queued' = IF backend \in {"alsa", "board"} THEN pcm'.frames ELSE Shown(ring')
  BY DEF Queued, Shown, AllFrames, Parts
<1> QED BY <1>1, QueuedIs DEF Untouched

(* What a step of the device is.                                           *)
DeviceStep == Device!Accept \/ Device!Play \/ Device!Close \/ Untouched

(* A write of any driver.                                                  *)
LEMMA WriteSteps ==
    ASSUME SubmitInv, BuffersInv, audio_write
    PROVE  BuffersInv' /\ DeviceStep
<1>1. Writing /\ backend' = backend
  BY DEF audio_write, alsa_write, alsa_wait, queue_claim, queue_enqueue, wave_write, Wake,
         board_write, Writing
<1>2. CASE alsa_wait
  <2>1. backend = "alsa" /\ UNCHANGED <<pcm, accepted>>
    BY <1>2 DEF alsa_wait, device
  <2> QED BY <1>1, <1>2, <2>1, AlsaBuffers, PcmUntouched DEF DeviceStep
<1>3. CASE alsa_write
  <2>1. backend = "alsa" /\ BuffersInv' /\ pcm \in PcmType
    BY <1>3, AlsaBuffers DEF alsa_write, BuffersInv
  <2>2. CASE writei_accepts
    <3>1. PICK n \in 1 .. Min({Room, Left(call)}) :
              /\ pcm' = [state |-> "running", frames |-> pcm.frames \o NewFrames(n)]
              /\ accepted' = Last(NewFrames(n))
      BY <2>2 DEF writei_accepts
    <3>2. n \in Nat /\ n >= 1
      BY <1>1, <2>1, TakenBounds
    <3>3. pcm'.frames = pcm.frames \o NewFrames(n)
      BY <3>1
    <3> QED BY <1>1, <2>1, <3>1, <3>2, <3>3, PcmAccepts DEF DeviceStep
  <2>3. CASE writei_underrun /\ pcm' = FreshPcm
    <3>1. Queued' = <<>> /\ accepted' = accepted
      BY <1>1, <2>1, <2>3 DEF Queued, FreshPcm, writei_underrun
    <3> QED BY <2>1, <3>1 DEF DeviceStep, Device!Close
  <2>4. CASE UNCHANGED <<pcm, accepted>>
    BY <1>1, <2>1, <2>4, PcmUntouched DEF DeviceStep
  <2> QED BY <1>3, <2>2, <2>3, <2>4 DEF alsa_write, writei_underrun, writei_waits, writei_fails
<1>4. CASE queue_claim
  <2>1. BuffersInv' /\ Kept(ring, ring') /\ UNCHANGED <<backend, pcm, accepted>>
    BY <1>1, <1>4, QueueClaims DEF queue_claim
  <2> QED BY <2>1, DeviceKeeps DEF DeviceStep
<1>5. CASE queue_enqueue \/ wave_write
  <2>1. backend \notin {"alsa", "board"} /\ UNCHANGED <<backend, pcm>>
    BY <1>5 DEF queue_enqueue, wave_write
  <2>2. /\ BuffersInv'
        /\ \/ Kept(ring, ring') /\ accepted' = accepted
           \/ Added(ring, ring', NewFrames(F)) /\ accepted' = Last(NewFrames(F))
    BY <1>5, QueueEnqueues, WaveWrites
  <2>3. CASE Kept(ring, ring') /\ accepted' = accepted
    BY <2>1, <2>2, <2>3, DeviceKeeps DEF DeviceStep
  <2>4. CASE Added(ring, ring', NewFrames(F)) /\ accepted' = Last(NewFrames(F))
    BY <1>1, <2>1, <2>2, <2>4, AddedAccepts DEF DeviceStep
  <2> QED BY <2>2, <2>3, <2>4
<1>6. CASE Wake
  BY <1>6, WakeUntouched DEF DeviceStep
<1>7. CASE board_write
  <2>1. BuffersInv' /\ backend = "board" /\ pcm \in PcmType /\ F \in Nat /\ F >= 1
    <3>1. BuffersInv'
      BY <1>7, BoardBuffers
    <3>2. backend = "board" /\ pcm \in PcmType
      BY <1>7 DEF board_write, BuffersInv
    <3> QED BY <3>1, <3>2, OutputConstants
  <2>2. CASE pcm' = [pcm EXCEPT !.frames = @ \o NewFrames(F)] /\ accepted' = Last(NewFrames(F))
    <3>1. pcm'.frames = pcm.frames \o NewFrames(F)
      BY <2>1, <2>2 DEF PcmType
    <3> QED BY <1>1, <2>1, <2>2, <3>1, PcmAccepts DEF DeviceStep
  <2>3. CASE UNCHANGED <<pcm, accepted>>
    BY <1>1, <2>1, <2>3, PcmUntouched DEF DeviceStep
  <2> QED BY <1>7, <2>2, <2>3 DEF board_write
<1> QED BY <1>2, <1>3, <1>4, <1>5, <1>6, <1>7 DEF audio_write

(* Every step keeps the buffers in order and is a step of the device.      *)
LEMMA OutputSteps ==
    ASSUME OutputInv, [OutputNext]_outputVars
    PROVE  BuffersInv' /\ DeviceStep
<1>1. SubmitInv /\ BuffersInv
  BY DEF OutputInv
<1>2. CASE \/ DelayFails \/ TooEarly \/ DropPacket \/ Submit \/ Stall \/ Sync \/ StopRequest
           \/ \E p \in 1 .. Packets[backend] : Arrive(p)
           \/ UNCHANGED outputVars
  BY <1>1, <1>2, PollsUntouched DEF DeviceStep
<1>3. CASE audio_write
  BY <1>1, <1>3, WriteSteps
<1>4. CASE \E i \in Slots : buffer_finished(i)
  BY <1>1, <1>4, CallbackKeeps DEF DeviceStep
<1>5. CASE Tick
  BY <1>1, <1>5, TickDevice DEF DeviceStep, Untouched, Device!Play
<1>6. CASE alsa_open \/ queue_open \/ wave_open \/ board_open \/ close_audio
  BY <1>1, <1>6, OpenCloseDevice DEF DeviceStep, Device!Close
<1>7. CASE Ended
  BY <1>1, <1>7, PollsUntouched DEF DeviceStep, Ended
<1> QED BY <1>2, <1>3, <1>4, <1>5, <1>6, <1>7 DEF OutputNext

(* The clock and the driver keep their types.                              *)
LEMMA ClockStays ==
    ASSUME ClockTypes, [OutputNext]_outputVars
    PROVE  ClockTypes'
<1>1. CASE UNCHANGED <<backend, now, clock>>
  BY <1>1 DEF ClockTypes, clock
<1>2. CASE \/ DelayFails \/ TooEarly \/ DropPacket \/ Submit \/ Stall \/ StopRequest
           \/ Ended \/ UNCHANGED outputVars
  BY <1>1, <1>2 DEF DelayFails, TooEarly, DropPacket, Submit, Stall, StopRequest, Ended,
                    outputVars
<1>3. CASE audio_write
  BY <1>1, <1>3 DEF audio_write, alsa_write, alsa_wait, queue_claim, queue_enqueue, wave_write,
                    Wake, board_write
<1>4. CASE \E i \in Slots : buffer_finished(i)
  BY <1>1, <1>4 DEF buffer_finished
<1>5. CASE Tick
  <2>1. UNCHANGED <<backend, clock>> /\ now' = now + 1
    BY <1>5 DEF Tick
  <2> QED BY <2>1 DEF ClockTypes, clock
<1>6. CASE \E p \in 1 .. Packets[backend] : Arrive(p)
  <2>1. PICK p \in 1 .. Packets[backend] : Arrive(p)
    BY <1>6
  <2>2. p \in Nat
    BY <2>1, OutputAssumption DEF ClockTypes
  <2>3. /\ UNCHANGED <<backend, now, synced, base>>
        /\ \/ first_arrival' = now /\ first_packet' = p
           \/ UNCHANGED <<first_arrival, first_packet>>
    BY <2>1 DEF Arrive
  <2> QED BY <2>2, <2>3 DEF ClockTypes
<1>7. CASE Sync
  <2>1. /\ UNCHANGED <<backend, now, first_arrival, first_packet>>
        /\ synced' = TRUE /\ base' \in Nat
    BY <1>7, OutputAssumption DEF Sync
  <2> QED BY <2>1 DEF ClockTypes
<1>8. CASE alsa_open \/ queue_open \/ wave_open \/ board_open
  BY <1>1, <1>8 DEF alsa_open, queue_open, wave_open, board_open, Open
<1>9. CASE close_audio
  <2>1. UNCHANGED <<backend, now>> /\ synced' \in BOOLEAN
    BY <1>9 DEF close_audio, audio_pipeline_stop
  <2>2. base' = 0 /\ first_arrival' = -1 /\ first_packet' = 0
    BY <1>9 DEF close_audio, audio_pipeline_stop
  <2>3. base' \in Nat /\ first_arrival' \in Int /\ first_packet' \in Nat
    BY ONLY <2>2
  <2> QED BY <2>1, <2>3 DEF ClockTypes
<1> QED BY <1>2, <1>3, <1>4, <1>5, <1>6, <1>7, <1>8, <1>9 DEF OutputNext

(* The submission keeps its order.                                         *)
LEMMA SubmitStays ==
    ASSUME OutputInv, [OutputNext]_outputVars
    PROVE  SubmitInv'
<1>1. SubmitInv /\ ClockTypes /\ pcm \in PcmType
  BY DEF OutputInv, BuffersInv
<1>2. CASE UNCHANGED <<backend, queue, popped, call, stopping, accepted>>
  BY <1>1, <1>2 DEF SubmitInv, OrderInv, AcceptedInv, Writing
<1>3. CASE Submit
  BY <1>1, <1>3, SubmitSubmits
<1>4. CASE \/ DelayFails \/ TooEarly \/ DropPacket \/ Stall \/ Sync \/ StopRequest
           \/ \E p \in 1 .. Packets[backend] : Arrive(p)
           \/ alsa_open \/ queue_open \/ wave_open \/ board_open \/ close_audio
  BY <1>1, <1>4, PollSteps
<1>5. CASE audio_write
  BY <1>1, <1>5, AlsaSubmits, OthersSubmit DEF audio_write
<1>6. CASE \E i \in Slots : buffer_finished(i)
  BY <1>2, <1>6 DEF buffer_finished
<1>7. CASE Tick
  BY <1>1, <1>7, TickSubmits
<1>8. CASE Ended \/ UNCHANGED outputVars
  BY <1>2, <1>8 DEF Ended, outputVars
<1> QED BY <1>3, <1>4, <1>5, <1>6, <1>7, <1>8 DEF OutputNext

(* At the start the device is closed and holds nothing.                    *)
LEMMA OutputStarts == OutputInit => OutputInv /\ Queued = <<>>
<1> SUFFICES ASSUME OutputInit PROVE OutputInv /\ Queued = <<>>
  OBVIOUS
<1>1. ClockTypes
  <2>1. now = 0 /\ base = 0 /\ first_arrival = -1 /\ first_packet = 0
    BY DEF OutputInit
  <2>2. now \in Nat /\ base \in Nat /\ first_arrival \in Int /\ first_packet \in Nat
    BY ONLY <2>1
  <2>3. backend \in Backends /\ synced \in BOOLEAN
    BY DEF OutputInit
  <2> QED BY <2>2, <2>3 DEF ClockTypes
<1>2. call \in CallType /\ call.at = "closed" /\ call.written = 0
  BY NoCallType DEF OutputInit
<1>3. accepted \in Frame /\ accepted.packet = 0
  BY DEF OutputInit, NoFrame, Frame
<1>4. SubmitInv
  <2>1. queue = {} /\ popped = 0 /\ stopping \in BOOLEAN
    BY DEF OutputInit
  <2> QED BY <1>2, <1>3, <2>1 DEF SubmitInv, OrderInv, AcceptedInv, Writing
<1>5. pcm \in PcmType /\ pcm.frames = <<>>
  BY EmptySeq DEF OutputInit, FreshPcm, PcmType
<1>6. ring \in RingType /\ BuffersOk(ring, backend) /\ Shown(ring) = <<>>
  <2>1. FreshRing \in RingType /\ BuffersOk(FreshRing, backend)
    BY FreshRingOk
  <2>2. FreshRing.enqueued = <<>> /\ FreshRing.head = 0
    BY DEF FreshRing
  <2> QED BY <2>1, <2>2, NoneShown DEF OutputInit
<1>7. BuffersInv
  BY <1>2, <1>5, <1>6 DEF OutputInit, BuffersInv
<1>8. Queued = <<>>
  BY <1>5, <1>6, QueuedIs
<1> QED BY <1>1, <1>4, <1>7, <1>8 DEF OutputInv

(* The invariant of the output side: what is submitted keeps the order of  *)
(* the queue, and the driver's buffers are different, full ones, of which  *)
(* none that waits to be played is claimed, filled or freed.               *)
THEOREM OutputAccounted == OutputSpec => []OutputInv
<1>1. OutputInit => OutputInv
  BY OutputStarts
<1>2. OutputInv /\ [OutputNext]_outputVars => OutputInv'
  BY OutputSteps, ClockStays, SubmitStays DEF OutputInv
<1> QED BY <1>1, <1>2, PTL DEF OutputSpec

(* Every driver implements the abstract device: alsa_write and its retries *)
(* after a short count, a wait or an underrun, the buffers of AudioQueue   *)
(* with their callbacks, those of waveOut and the board queue what was     *)
(* written, each frame once and in order, and play it unchanged.           *)
THEOREM DriversImplementDevice == OutputSpec => DeviceSpec
<1>1. OutputInit => Device!DeviceInit
  BY OutputStarts DEF Device!DeviceInit
<1>2. OutputInv /\ [OutputNext]_outputVars =>
        [Device!Accept \/ Device!Play \/ Device!Close]_<<Queued, accepted>>
  BY OutputSteps DEF DeviceStep, Untouched
<1> QED BY <1>1, <1>2, OutputAccounted, PTL DEF OutputSpec, DeviceSpec, Device!DeviceSpec

----------------------------------------------------------------------------
(***************************************************************************)
(* The position that waveOut reports: in any unit it tells how much has    *)
(* been played, but for the millisecond that has begun, until it wraps in  *)
(* a unit other than samples.                                              *)
(***************************************************************************)

(* Division of a number of frames, bytes or milliseconds.                  *)
LEMMA DivBounds ==
    ASSUME NEW y \in Nat, NEW n \in Nat, n > 0
    PROVE  y \div n \in Nat /\ n * (y \div n) <= y /\ y < n * (y \div n) + n
<1>1. y \div n \in Int /\ n * (y \div n) <= y /\ y < n * (y \div n) + n
  BY SMTT(30)
<1>2. PICK q \in Int : q = y \div n /\ n * q <= y /\ y < n * q + n
  BY <1>1
<1>3. q >= 0
  <2> SUFFICES ASSUME q < 0 PROVE FALSE
    BY <1>2
  <2>1. PICK d \in Nat : q = -1 - d
    <3>1. -1 - q \in Nat /\ q = -1 - (-1 - q)
      BY <1>2
    <3> QED BY <3>1
  <2>2. n * q = -n - n * d /\ n * d \in Nat
    BY <2>1
  <2> QED BY <1>2, <2>2
<1> QED BY <1>2, <1>3

(* Products compare as their factors do.                                   *)
LEMMA ProductsCompare ==
    ASSUME NEW n \in Nat, n > 0, NEW a \in Int, NEW b \in Int
    PROVE  /\ n * a < n * b + n => a <= b
           /\ a <= b => n * a <= n * b
<1>1. ASSUME n * a < n * b + n, a > b
      PROVE  FALSE
  <2>1. PICK d \in Nat : a = b + 1 + d
    <3>1. a - b - 1 \in Nat /\ a = b + 1 + (a - b - 1)
      BY <1>1
    <3> QED BY <3>1
  <2>2. n * a = n * b + n + n * d /\ n * d \in Nat /\ n * b \in Int
    BY <2>1
  <2> QED BY <1>1, <2>2
<1>2. ASSUME a <= b
      PROVE  n * a <= n * b
  <2>1. PICK d \in Nat : b = a + d
    <3>1. b - a \in Nat /\ b = a + (b - a)
      BY <1>2
    <3> QED BY <3>1
  <2>2. n * b = n * a + n * d /\ n * d \in Nat /\ n * a \in Int
    BY <2>1
  <2> QED BY <2>2
<1> QED BY <1>1, <1>2

(* The distance of two positions on a ring.                                *)
LEMMA RingDistance ==
    ASSUME NEW x \in Nat, NEW y \in Nat, NEW n \in Nat, y <= x, x - y < n
    PROVE  ((x % n) - (y % n)) % n = x - y
<1>1. n > 0
  <2>1. PICK d \in Int : d = x - y /\ 0 <= d /\ d < n
    OBVIOUS
  <2> QED BY ONLY <2>1
<1>2. PICK m \in Nat, p \in Int, q \in Int : m = n /\ p = x /\ q = y /\ m > 0
  BY <1>1
<1>3. PICK i \in Int : p = m * i + (p % m)
  BY ONLY <1>2, DivMod
<1>4. PICK j \in Int : q = m * j + (q % m)
  BY ONLY <1>2, DivMod
<1>5. PICK a \in Int, b \in Int : a = p % m /\ b = q % m
  BY <1>2
<1>6. PICK v \in Int, w \in Int : v = m * i /\ w = m * j
  BY <1>2
<1>7. m * (j - i) = w - v
  BY <1>2, <1>6
<1>8. p = v + a /\ q = w + b
  BY <1>3, <1>4, <1>5, <1>6
<1>9. PICK k \in Int, c \in Int, r \in Int : k = j - i /\ c = a - b /\ r = p - q
  BY <1>2
<1>10. c = m * k + r /\ 0 <= r /\ r < m
  BY <1>2, <1>6, <1>7, <1>8, <1>9
<1>11. c % m = r
  <2>1. c \in Int /\ k \in Int /\ r \in Int /\ m \in Nat
    BY <1>9
  <2> QED BY ONLY <1>10, <2>1, ModUnique
<1> QED BY <1>2, <1>5, <1>9, <1>11

(* What the driver has told when it has played n frames.                   *)
Told(unit, n) ==
    IF unit = "ms" THEN (Elapsed(unit, n) * SampleRate) \div Second ELSE n

AnyUnit == {"samples", "bytes", "ms"}

LEMMA UnitConstants ==
    /\ SampleRate \in Nat /\ SampleRate > 0 /\ Second \in Nat /\ Second > 0
    /\ FrameBytes \in Nat /\ FrameBytes > 0 /\ PosRing \in Nat /\ PosRing > 0
    /\ Units \subseteq AnyUnit
BY OutputAssumption DEF AnyUnit

(* Some frames in milliseconds, and these in frames again.                 *)
LEMMA MsTold ==
    ASSUME NEW n \in Nat
    PROVE  \E t \in Nat, x \in Nat, r \in Nat, s \in Nat :
              /\ r = SampleRate /\ s = Second /\ r > 0 /\ s > 0
              /\ t = Elapsed("ms", n) /\ x = Told("ms", n)
              /\ r * t <= n * s /\ n * s < r * t + r
              /\ s * x <= r * t /\ r * t < s * x + s
<1>1. PICK r \in Nat, s \in Nat : r = SampleRate /\ s = Second /\ r > 0 /\ s > 0
  BY UnitConstants
<1>2. PICK a \in Nat : a = n * s
  BY <1>1
<1>3. PICK t : t = a \div r
  OBVIOUS
<1>4. t \in Nat /\ r * t <= a /\ a < r * t + r
  BY ONLY <1>1, <1>2, <1>3, DivBounds
<1>5. PICK b \in Nat : b = r * t /\ b = t * r
  BY <1>1, <1>4
<1>6. PICK x : x = b \div s
  OBVIOUS
<1>7. x \in Nat /\ s * x <= b /\ b < s * x + s
  BY ONLY <1>1, <1>5, <1>6, DivBounds
<1>8. t = Elapsed("ms", n)
  BY <1>1, <1>2, <1>3 DEF Elapsed
<1>9. x = Told("ms", n)
  BY <1>1, <1>5, <1>6, <1>8 DEF Told
<1> QED BY <1>1, <1>2, <1>4, <1>5, <1>7, <1>8, <1>9

LEMMA MsFramesIs ==
    MsFrames \in Nat /\ SampleRate + Second - 2 < Second * MsFrames + Second
<1>1. PICK a \in Nat : a = SampleRate + Second - 2
  BY UnitConstants
<1>2. PICK s \in Nat : s = Second /\ s > 0
  BY UnitConstants
<1>3. PICK m : m = a \div s
  OBVIOUS
<1>4. m \in Nat /\ a < s * m + s
  BY ONLY <1>1, <1>2, <1>3, DivBounds
<1> QED BY <1>1, <1>2, <1>3, <1>4 DEF MsFrames

(* No more is told than was played, and no less than a millisecond ago.    *)
LEMMA ToldNear ==
    ASSUME NEW u \in AnyUnit, NEW n \in Nat
    PROVE  /\ Told(u, n) \in Nat /\ Told(u, n) <= n /\ MsFrames \in Nat
           /\ n - Told(u, n) <= (IF u = "ms" THEN MsFrames ELSE 0)
<1>1. CASE u # "ms"
  BY <1>1, MsFramesIs DEF Told
<1>2. CASE u = "ms"
  <2>1. PICK t \in Nat, x \in Nat, r \in Nat, s \in Nat :
              /\ r = SampleRate /\ s = Second /\ r > 0 /\ s > 0
              /\ x = Told("ms", n)
              /\ r * t <= n * s /\ n * s < r * t + r
              /\ s * x <= r * t /\ r * t < s * x + s
    BY MsTold
  <2>2. PICK m \in Nat : m = MsFrames /\ r + s - 2 < s * m + s
    BY <2>1, MsFramesIs
  <2>3. PICK a \in Nat, b \in Nat, c \in Nat : a = s * n /\ a = n * s /\ b = r * t /\ c = s * x
    <3>1. s * n \in Nat /\ r * t \in Nat /\ s * x \in Nat /\ s * n = n * s
      BY <2>1
    <3> QED BY <3>1
  <2>4. x <= n
    <3>1. s * x < s * n + s
      BY <2>1, <2>3
    <3> QED BY ONLY <2>1, <3>1, ProductsCompare
  <2>5. n - x <= m
    <3>1. s * (n - x) = a - c
      BY <2>1, <2>3
    <3>2. a - c <= r + s - 2
      BY <2>1, <2>3
    <3>3. PICK d \in Int : d = n - x /\ s * d < s * m + s
      BY <2>1, <2>2, <2>3, <3>1, <3>2
    <3>4. d <= m
      BY ONLY <2>1, <2>2, <3>3, ProductsCompare
    <3> QED BY <3>3, <3>4
  <2> QED BY <1>2, <2>1, <2>2, <2>4, <2>5
<1> QED BY <1>1, <1>2

(* Another frame: the position does not move back.                         *)
LEMMA ToldGrows ==
    ASSUME NEW u \in AnyUnit, NEW n \in Nat
    PROVE  /\ Told(u, n) <= Told(u, n + 1)
           /\ Elapsed(u, n) \in Nat /\ Elapsed(u, n + 1) \in Nat
           /\ Elapsed(u, n) <= Elapsed(u, n + 1)
<1>1. CASE u = "samples"
  BY <1>1 DEF Told, Elapsed
<1>2. CASE u = "bytes"
  <2>1. PICK b \in Nat : b = FrameBytes
    BY UnitConstants
  <2>2. (n + 1) * b = n * b + b /\ n * b \in Nat
    BY <2>1
  <2>3. Elapsed(u, n) = n * b /\ Elapsed(u, n + 1) = (n + 1) * b
    BY <1>2, <2>1 DEF Elapsed
  <2>4. Told(u, n) = n /\ Told(u, n + 1) = n + 1
    BY <1>2 DEF Told
  <2> QED BY <2>1, <2>2, <2>3, <2>4
<1>3. CASE u = "ms"
  <2>1. PICK t \in Nat, x \in Nat, r \in Nat, s \in Nat :
              /\ r = SampleRate /\ s = Second /\ r > 0 /\ s > 0
              /\ t = Elapsed("ms", n) /\ x = Told("ms", n)
              /\ r * t <= n * s /\ n * s < r * t + r
              /\ s * x <= r * t /\ r * t < s * x + s
    BY MsTold
  <2>2. PICK k \in Nat : k = n + 1
    OBVIOUS
  <2>3. PICK w \in Nat, y \in Nat :
              /\ w = Elapsed("ms", k) /\ y = Told("ms", k)
              /\ k * s < r * w + r /\ r * w < s * y + s
    <3>1. PICK w \in Nat, y \in Nat, q \in Nat, z \in Nat :
                /\ q = SampleRate /\ z = Second /\ q > 0 /\ z > 0
                /\ w = Elapsed("ms", k) /\ y = Told("ms", k)
                /\ q * w <= k * z /\ k * z < q * w + q
                /\ z * y <= q * w /\ q * w < z * y + z
      BY ONLY <2>2, MsTold
    <3> QED BY <2>1, <3>1
  <2>4. PICK a \in Nat, b \in Nat : a = n * s /\ b = k * s /\ a <= b
    <3>1. k * s = n * s + s /\ n * s \in Nat
      BY <2>1, <2>2
    <3> QED BY <2>1, <3>1
  <2>5. t <= w
    <3>1. r * t < r * w + r
      BY <2>1, <2>3, <2>4
    <3> QED BY ONLY <2>1, <2>3, <3>1, ProductsCompare
  <2>6. x <= y
    <3>1. r * t <= r * w
      BY ONLY <2>1, <2>3, <2>5, ProductsCompare
    <3>2. PICK c \in Nat, d \in Nat, e \in Nat, f \in Nat :
             c = s * x /\ d = r * t /\ e = r * w /\ f = s * y
      BY <2>1, <2>3
    <3>3. s * x < s * y + s
      BY <2>1, <2>3, <3>1, <3>2
    <3> QED BY ONLY <2>1, <2>3, <3>3, ProductsCompare
  <2> QED BY <1>3, <2>1, <2>2, <2>3, <2>5, <2>6
<1> QED BY <1>1, <1>2, <1>3 DEF AnyUnit

(* The code gets what the driver has told, as a 32-bit number.             *)
LEMMA FramesReported ==
    ASSUME NEW u \in AnyUnit, NEW n \in Nat, u = "samples" \/ Elapsed(u, n) < PosRing
    PROVE  InFrames(u, Elapsed(u, n) % PosRing) = Told(u, n) % PosRing
<1>1. PICK p \in Nat : p = PosRing /\ p > 0
  BY UnitConstants
<1>2. ASSUME NEW e \in Nat, e < p
      PROVE  e % p = e
  <2>1. e = p * 0 + e /\ 0 <= e /\ 0 \in Int
    BY <1>1
  <2> QED BY ONLY <1>1, <1>2, <2>1, ModUnique
<1>3. CASE u = "samples"
  BY <1>3 DEF InFrames, Elapsed, Told
<1>4. CASE u = "bytes"
  <2>1. PICK b \in Nat : b = FrameBytes /\ b > 0
    BY UnitConstants
  <2>2. PICK e \in Nat : e = n * b /\ e = b * n /\ e = Elapsed(u, n)
    BY <1>4, <2>1 DEF Elapsed
  <2>3. e < p /\ e % p = e
    BY <1>1, <1>2, <1>4, <2>2
  <2>4. PICK q : q = e \div b
    OBVIOUS
  <2>5. q \in Nat /\ b * q <= e /\ e < b * q + b
    BY ONLY <2>1, <2>2, <2>4, DivBounds
  <2>6. q = n
    <3>1. b * q < b * n + b /\ b * n < b * q + b
      BY <2>1, <2>2, <2>5
    <3>2. q <= n
      BY ONLY <2>1, <2>5, <3>1, ProductsCompare
    <3>3. n <= q
      BY ONLY <2>1, <2>5, <3>1, ProductsCompare
    <3> QED BY <2>5, <3>2, <3>3
  <2>7. n < p
    <3>1. PICK d \in Nat : b = d + 1
      <4>1. b - 1 \in Nat /\ b = (b - 1) + 1
        BY <2>1
      <4> QED BY <4>1
    <3>2. e = n + n * d /\ n * d \in Nat
      BY <2>2, <3>1
    <3> QED BY <1>1, <2>3, <3>2
  <2>8. n % p = n
    BY <1>2, <2>7
  <2>9. InFrames(u, e) = q /\ Told(u, n) = n
    BY <1>4, <2>1, <2>4 DEF InFrames, Told
  <2> QED BY <1>1, <2>2, <2>3, <2>6, <2>8, <2>9
<1>5. CASE u = "ms"
  <2>1. PICK t \in Nat : t = Elapsed(u, n)
    BY <1>5, MsTold
  <2>2. t % p = t
    BY <1>1, <1>2, <1>5, <2>1
  <2> QED BY <1>1, <1>5, <2>1, <2>2 DEF InFrames, Told
<1> QED BY <1>3, <1>4, <1>5 DEF AnyUnit

----------------------------------------------------------------------------
(* The delay the drivers report, and the time at which frames are heard.   *)

CountersType ==
    [unit : AnyUnit, position : Nat, last_position : Nat, submitted : Nat, played : Nat]

(* AudioQueue marks no more buffers than the driver has, one it is through *)
(* with, and the one being filled.                                         *)
BusyOk(r, claimed) ==
    /\ \E b \in Slots : r.finished \subseteq {b}
    /\ \A i \in r.busy : InDriver(r, i) \/ i \in r.finished \/ (claimed /\ i = r.next)

(* Buffers are taken in turn: the one AudioQueue is through with, those it *)
(* has, and the next one to be filled.                                     *)
InTurn(r) ==
    /\ \A k \in 1 .. Len(r.enqueued) : k + 1 <= Len(r.enqueued) =>
           r.enqueued[k + 1] = NextSlot(r.enqueued[k])
    /\ r.enqueued # <<>> /\ r.started => r.next = NextSlot(r.enqueued[Len(r.enqueued)])
    /\ \A b \in r.finished :
           IF r.enqueued = <<>> THEN r.next = NextSlot(b) ELSE r.enqueued[1] = NextSlot(b)

(* The position has wrapped in a unit in which it must not.                *)
Lost(c) == c.unit # "samples" /\ Elapsed(c.unit, c.position) >= PosRing

(* What waveOut has played and what it holds is what was submitted; until  *)
(* the position is lost, the code has counted what the driver had told at  *)
(* some time.  A call that writes has asked, so that what is submitted and *)
(* not yet counted as played never exceeds the buffers and a packet, and   *)
(* what the driver has not told.                                           *)
WaveOk(c, len, writing) ==
    /\ c.position + len = c.submitted
    /\ ~Lost(c) =>
         /\ c.last_position = c.played % PosRing
         /\ c.played <= Told(c.unit, c.position)
         /\ c.submitted - c.played <= (IF writing THEN Buffers ELSE Buffers + 1) * F + MsFrames

DelayInv ==
    /\ backend = "alsa" /\ pcm.state = "xrun" => pcm.frames = <<>>
    /\ backend = "audioqueue" => BusyOk(ring, call.at = "claimed") /\ InTurn(ring)
    /\ counters \in CountersType
    /\ backend = "waveout" => WaveOk(counters, Len(Queued), Writing)

(* AudioQueue or waveOut is not started only before the first buffer, or   *)
(* after starting it has failed, which stops the server; a write sleeps    *)
(* only while there is something to play.                                  *)
StartInv ==
    /\ backend \in {"audioqueue", "waveout"} =>
         /\ ~ring.started => /\ ring.finished = {}
                             /\ ring.enqueued = <<>> \/ (stopping /\ ~Writing)
         /\ call.at = "wait" => ring.started /\ ring.enqueued # <<>>
    /\ backend = "board" => call.at # "wait"

Live == ~stuck /\ (backend \in {"alsa", "board"} \/ ring.started)

(* How late is heard what is due at the time due, when n frames are played *)
(* before it.                                                              *)
InTime(n, due) == now + n - due \in -(Margin + Overcount) .. LateLimit

(* What is queued will be heard in time, and so will the rest of the       *)
(* packet that is written.                                                 *)
DueOk ==
    /\ Live => \A i \in 1 .. Len(Queued) : InTime(i - 1, Queued[i].due)
    /\ ~stuck /\ Writing => InTime(Len(Queued), call.due + call.written)

DueInv == ~PositionLost => DueOk

----------------------------------------------------------------------------
(* How much the drivers hold.                                              *)

(* The sums over the subsets of s, one by one.                             *)
SumsOf(g, s) ==
    g = [t \in SUBSET s |->
           IF t = {} THEN 0
           ELSE LET x == CHOOSE x \in t : TRUE IN Len(ring.data[x]) + g[t \ {x}]]

(* What AudioQueue adds up.                                                *)
LEMMA QueueDelayIs ==
    queue_delay_frames = (CHOOSE g : SumsOf(g, ring.busy))[ring.busy]
BY DEF queue_delay_frames, MapThenSumSet, MapThenFoldSet, SumsOf

(* The buffers are finitely many.                                          *)
LEMMA FiniteSlots == IsFiniteSet(Slots) /\ Cardinality(Slots) = Buffers
<1>1. Buffers \in Nat /\ Buffers >= 1
  BY OutputConstants
<1> QED BY <1>1, FS_Interval DEF Slots

(* Full buffers add up to as many packets.                                 *)
LEMMA QueueDelaySum ==
    ASSUME ring.busy \subseteq Slots, \A i \in ring.busy : Len(ring.data[i]) = F
    PROVE  queue_delay_frames = F * Cardinality(ring.busy)
<1> DEFINE b == ring.busy
           h == [t \in SUBSET b |-> F * Cardinality(t)]
<1>1. IsFiniteSet(b)
  BY FiniteSlots, FS_Subset
<1>2. ASSUME NEW t \in SUBSET b
      PROVE  Cardinality(t) \in Nat /\ (t = {} => F * Cardinality(t) = 0)
  <2>1. Cardinality(t) \in Nat
    BY <1>1, FS_Subset, FS_CardinalityType
  <2>2. Cardinality({}) = 0 /\ F * 0 = 0
    BY FS_EmptySet, OutputConstants
  <2> QED BY <2>1, <2>2
<1>3. ASSUME NEW t \in SUBSET b, t # {}, NEW x, x = CHOOSE y \in t : TRUE
      PROVE  /\ x \in t /\ Len(ring.data[x]) = F
             /\ F * Cardinality(t) = F + F * Cardinality(t \ {x})
             /\ Cardinality(t \ {x}) < Cardinality(t)
  <2>1. x \in t
    BY <1>3
  <2>2. IsFiniteSet(t)
    BY <1>1, FS_Subset
  <2>3. Cardinality(t \ {x}) = Cardinality(t) - 1
    BY <2>1, <2>2, FS_RemoveElement
  <2>4. PICK c \in Nat : c = Cardinality(t)
    BY <1>2
  <2>5. F * c = F + F * (c - 1)
    BY OutputConstants
  <2> QED BY <2>1, <2>3, <2>4, <2>5
<1>4. SumsOf(h, b)
  <2>1. ASSUME NEW t \in SUBSET b
        PROVE  h[t] = IF t = {} THEN 0
                      ELSE LET x == CHOOSE x \in t : TRUE IN Len(ring.data[x]) + h[t \ {x}]
    <3>1. CASE t = {}
      BY <1>2, <3>1
    <3>2. CASE t # {}
      <4>1. PICK x : x = CHOOSE y \in t : TRUE
        OBVIOUS
      <4>2. t \ {x} \in SUBSET b
        OBVIOUS
      <4>3. h[t] = F * Cardinality(t) /\ h[t \ {x}] = F * Cardinality(t \ {x})
        BY <4>2
      <4>4. Len(ring.data[x]) = F /\ F * Cardinality(t) = F + F * Cardinality(t \ {x})
        BY <1>3, <3>2, <4>1
      <4> HIDE DEF h
      <4> QED BY <3>2, <4>1, <4>3, <4>4
    <3> QED BY <3>1, <3>2
  <2>2. h = [t \in SUBSET b |-> h[t]]
    OBVIOUS
  <2> HIDE DEF h
  <2> QED BY <2>1, <2>2, Zenon DEF SumsOf
<1>5. PICK g : g = CHOOSE f : SumsOf(f, b)
  OBVIOUS
<1>6. SumsOf(g, b)
  <2> HIDE DEF h
  <2> QED BY <1>4, <1>5, Zenon
<1>7. \A t \in SUBSET b :
         g[t] = IF t = {} THEN 0
                ELSE LET x == CHOOSE x \in t : TRUE IN Len(ring.data[x]) + g[t \ {x}]
  BY <1>6, Zenon DEF SumsOf
<1> HIDE DEF h
<1>8. \A t \in SUBSET b : g[t] = F * Cardinality(t)
  <2> DEFINE S == {n \in Nat : \E t \in SUBSET b :
                      Cardinality(t) = n /\ g[t] # F * Cardinality(t)}
  <2> SUFFICES ASSUME NEW t \in SUBSET b, g[t] # F * Cardinality(t) PROVE FALSE
    OBVIOUS
  <2>1. S \subseteq Nat /\ Cardinality(t) \in S
    BY <1>2
  <2>2. PICK n \in S : \A m \in S : n <= m
    BY <2>1, LeastNumber
  <2>3. PICK u \in SUBSET b : Cardinality(u) = n /\ g[u] # F * Cardinality(u)
    OBVIOUS
  <2>4. u # {}
    BY <1>2, <1>7, <2>3
  <2>5. PICK x : x = CHOOSE y \in u : TRUE
    OBVIOUS
  <2>6. /\ x \in u /\ Len(ring.data[x]) = F
        /\ F * Cardinality(u) = F + F * Cardinality(u \ {x})
        /\ Cardinality(u \ {x}) < Cardinality(u)
    BY <1>3, <2>4, <2>5
  <2>7. g[u] = F + g[u \ {x}]
    BY <1>7, <2>4, <2>5, <2>6
  <2>8. g[u \ {x}] # F * Cardinality(u \ {x})
    BY <2>3, <2>6, <2>7
  <2>9. u \ {x} \in SUBSET b /\ Cardinality(u \ {x}) \in Nat
    BY <1>2
  <2>10. Cardinality(u \ {x}) \in S
    BY <2>8, <2>9
  <2>11. Cardinality(u) \in Nat /\ n <= Cardinality(u \ {x})
    BY <1>2, <2>2, <2>10
  <2> QED BY <2>3, <2>6, <2>9, <2>11
<1> QED BY <1>5, <1>8, QueueDelayIs

(* Full buffers hold as many packets.                                      *)
LEMMA FullBuffers ==
    ASSUME NEW r \in RingType, NEW driver, BuffersOk(r, driver)
    PROVE  /\ Len(r.enqueued) \in Nat /\ r.head \in Nat /\ r.head < F
           /\ Len(Shown(r)) = F * Len(r.enqueued) - r.head
           /\ r.enqueued = <<>> => r.head = 0
<1>1. PICK p, n, a, l : p = Parts(r) /\ n = Len(r.enqueued) /\ a = AllFrames(r) /\ l = F
  OBVIOUS
<1>2. /\ p \in Seq(Seq(Frame)) /\ n \in Nat /\ Len(p) = n /\ l \in Nat
      /\ \A k \in 1 .. n : Len(p[k]) = l
  <2>1. /\ p \in Seq(Seq(Frame)) /\ n \in Nat /\ Len(p) = n
        /\ \A k \in 1 .. n : p[k] = r.data[r.enqueued[k]]
    BY <1>1, PartsAre
  <2>2. \A k \in 1 .. n : Len(r.data[r.enqueued[k]]) = F
    BY <1>1 DEF BuffersOk
  <2> QED BY <1>1, <2>1, <2>2, OutputConstants
<1>3. Len(a) = l * n
  <2>1. CASE n = 0
    <3>1. p = <<>>
      BY <1>2, <2>1, EmptySeq
    <3>2. a = <<>>
      BY <1>1, <3>1, FlattenEmpty DEF AllFrames
    <3>3. l * n = 0 /\ Len(a) = 0
      BY <1>2, <2>1, <3>2
    <3> QED BY <3>3
  <2>2. CASE n # 0
    <3>1. p # <<>> /\ n >= 1
      BY <1>2, <2>2
    <3>2. PICK g : /\ Joins(g, p) /\ FlattenSeq(p) = g[Len(p)]
                   /\ \A i \in 1 .. Len(p) : g[i] \in Seq(Frame)
      BY <1>2, <3>1, FlattenPrefixes
    <3>3. \A i \in 1 .. n : g[i] = IF i = 1 THEN p[i] ELSE g[i - 1] \o p[i]
      BY <1>2, <3>2 DEF Joins, JoinsTo
    <3> DEFINE T == {i \in 1 .. n : Len(g[i]) = l * i}
    <3>4. 1 \in T
      <4>1. 1 \in 1 .. n
        BY <1>2, <3>1
      <4>2. g[1] = p[1] /\ Len(p[1]) = l
        BY <1>2, <3>3, <4>1
      <4>3. l * 1 = l
        BY <1>2
      <4> QED BY <4>1, <4>2, <4>3
    <3>5. ASSUME NEW k \in 1 .. n, k + 1 <= n, k \in T
          PROVE  k + 1 \in T
      <4>1. k + 1 \in 1 .. n /\ k + 1 # 1 /\ (k + 1) - 1 = k
        BY <1>2, <3>5
      <4>2. g[k + 1] = g[k] \o p[k + 1]
        BY <3>3, <4>1
      <4>3. g[k] \in Seq(Frame) /\ p[k + 1] \in Seq(Frame)
        BY <1>2, <3>2, <4>1
      <4>4. Len(g[k + 1]) = Len(g[k]) + Len(p[k + 1])
        BY <4>2, <4>3, ConcatProperties
      <4>5. Len(g[k]) = l * k /\ Len(p[k + 1]) = l
        BY <1>2, <3>5, <4>1
      <4>6. l * (k + 1) = l * k + l
        BY <1>2, <3>5
      <4> QED BY <4>1, <4>4, <4>5, <4>6
    <3> HIDE DEF T
    <3>6. \A i \in 1 .. n : i \in T
      BY <1>2, <3>4, <3>5, AlongInterval
    <3>7. n \in T /\ a = g[n]
      BY <1>1, <1>2, <3>1, <3>2, <3>6 DEF AllFrames
    <3> QED BY <3>7 DEF T
  <2> QED BY <2>1, <2>2
<1>4. Len(Shown(r)) = Len(a) - r.head /\ r.head \in Nat
  BY <1>1, ShownAre
<1>5. r.head < F /\ (r.enqueued = <<>> => r.head = 0)
  BY DEF BuffersOk
<1> QED BY <1>1, <1>2, <1>3, <1>4, <1>5

(* The driver has so many different buffers, no more than there are.       *)
LEMMA HeldBuffers ==
    ASSUME NEW r \in RingType, NEW driver, BuffersOk(r, driver), NEW held,
           held = {i \in Slots : InDriver(r, i)}
    PROVE  IsFiniteSet(held) /\ Cardinality(held) = Len(r.enqueued)
           /\ Len(r.enqueued) <= Buffers
<1>1. PICK n, e : n = Len(r.enqueued) /\ e = r.enqueued
  OBVIOUS
<1>2. e \in Seq(Slots) /\ n = Len(e) /\ n \in Nat /\ e \in [1 .. n -> Slots]
  BY <1>1 DEF RingType
<1>3. \A j, k \in 1 .. n : e[j] = e[k] => j = k
  BY <1>1 DEF BuffersOk
<1>4. e \in Bijection(1 .. n, held)
  <2>1. e \in [1 .. n -> held]
    BY <1>1, <1>2 DEF InDriver
  <2>2. \A i \in held : \E k \in 1 .. n : e[k] = i
    BY <1>1 DEF InDriver
  <2>3. e \in Injection(1 .. n, held)
    <3>1. DOMAIN e = 1 .. n
      BY <1>2
    <3>2. IsInjective(e)
      BY <1>3, <3>1 DEF IsInjective
    <3> QED BY <2>1, <3>2 DEF Injection
  <2>4. e \in Surjection(1 .. n, held)
    BY <2>1, <2>2 DEF Surjection
  <2> QED BY <2>3, <2>4 DEF Bijection
<1>5. IsFiniteSet(1 .. n) /\ Cardinality(1 .. n) = n
  <2>1. 1 \in Int /\ n \in Int
    BY <1>2
  <2>2. Cardinality(1 .. n) = (IF 1 > n THEN 0 ELSE n - 1 + 1) /\ IsFiniteSet(1 .. n)
    BY ONLY <2>1, FS_Interval
  <2> QED BY <1>2, <2>2
<1>6. IsFiniteSet(held) /\ Cardinality(held) = n
  BY <1>4, <1>5, FS_Bijection DEF ExistsBijection
<1>7. Cardinality(held) <= Buffers
  <2>1. held \subseteq Slots
    OBVIOUS
  <2> QED BY <2>1, FiniteSlots, FS_Subset
<1> QED BY <1>1, <1>6, <1>7

(* What AudioQueue counts too much.                                        *)
LEMMA QueueDelayNear ==
    ASSUME ring \in RingType, BuffersOk(ring, "audioqueue"), BusyOk(ring, FALSE)
    PROVE  queue_delay_frames - Len(Shown(ring)) \in 0 .. 2 * F - 1
<1> DEFINE held == {i \in Slots : InDriver(ring, i)}
<1>1. PICK b \in Slots : ring.finished \subseteq {b}
  BY DEF BusyOk
<1>2. ring.busy \subseteq Slots /\ ring.finished \subseteq Slots
  BY DEF RingType
<1>3. ring.busy = held \cup ring.finished
  BY <1>2 DEF BuffersOk, BusyOk
<1>4. \A i \in ring.finished : i \notin held
  BY DEF BuffersOk
<1>5. \A i \in ring.busy : Len(ring.data[i]) = F
  BY <1>3 DEF BuffersOk, InDriver
<1>6. queue_delay_frames = F * Cardinality(ring.busy)
  BY <1>2, <1>5, QueueDelaySum
<1>7. IsFiniteSet(held) /\ Cardinality(held) = Len(ring.enqueued)
  BY HeldBuffers
<1>8. /\ Len(ring.enqueued) \in Nat /\ ring.head \in Nat /\ ring.head < F
      /\ Len(Shown(ring)) = F * Len(ring.enqueued) - ring.head
  BY FullBuffers
<1> HIDE DEF held
<1>9. PICK l \in Nat, n \in Nat, h \in Nat :
         l = F /\ n = Len(ring.enqueued) /\ h = ring.head /\ l >= 1
  <2>1. F \in Nat /\ F >= 1
    BY OutputConstants
  <2>2. PICK n \in Nat, h \in Nat : n = Len(ring.enqueued) /\ h = ring.head
    BY <1>8
  <2> QED BY <2>1, <2>2
<1>10. CASE ring.finished = {}
  <2>1. Cardinality(ring.busy) = n
    BY <1>3, <1>7, <1>9, <1>10
  <2>2. queue_delay_frames = l * n /\ Len(Shown(ring)) = l * n - h /\ h < l
    BY <1>6, <1>8, <1>9, <2>1
  <2>3. PICK x \in Int : x = l * n
    OBVIOUS
  <2>4. queue_delay_frames - Len(Shown(ring)) = h
    BY <2>2, <2>3
  <2>5. h \in 0 .. 2 * l - 1
    BY <1>9, <2>2
  <2> QED BY <1>9, <2>4, <2>5
<1>11. CASE ring.finished # {}
  <2>1. ring.finished = {b} /\ b \notin held
    BY <1>1, <1>4, <1>11
  <2>2. Cardinality(ring.busy) = n + 1
    <3>1. Cardinality(held \cup {b}) = Cardinality(held) + 1
      BY <1>7, <2>1, FS_AddElement
    <3> QED BY <1>3, <1>7, <1>9, <2>1, <3>1
  <2>3. queue_delay_frames = l * (n + 1) /\ Len(Shown(ring)) = l * n - h /\ h < l
    BY <1>6, <1>8, <1>9, <2>2
  <2>4. PICK x \in Int : x = l * n /\ l * (n + 1) = x + l
    BY <1>9
  <2>5. queue_delay_frames - Len(Shown(ring)) = l + h
    BY <2>3, <2>4
  <2>6. l + h \in 0 .. 2 * l - 1
    BY <1>9, <2>3
  <2> QED BY <1>9, <2>5, <2>6
<1> QED BY <1>10, <1>11

(* waveOut has a packet more of slack between two writes.                  *)
LEMMA WaveSlack ==
    ASSUME NEW c \in CountersType, NEW n, NEW w \in BOOLEAN, NEW v \in BOOLEAN,
           WaveOk(c, n, w), v => w
    PROVE  WaveOk(c, n, v)
<1>1. c.submitted - c.played \in Int
  BY DEF CountersType
<1>2. /\ Buffers * F <= (Buffers + 1) * F /\ Buffers * F \in Int /\ (Buffers + 1) * F \in Int
      /\ MsFrames \in Nat
  <2>1. Buffers \in Nat /\ F \in Nat
    BY OutputConstants
  <2>2. (Buffers + 1) * F = Buffers * F + F
    BY <2>1
  <2>3. Buffers * F \in Nat
    BY <2>1
  <2> QED BY <2>1, <2>2, <2>3, MsFramesIs
<1>3. PICK d \in Int, a \in Int, b \in Int, m \in Nat :
         /\ d = c.submitted - c.played /\ a = Buffers * F /\ b = (Buffers + 1) * F /\ a <= b
         /\ m = MsFrames
  BY <1>1, <1>2
<1>4. ~Lost(c) => d <= (IF w THEN a ELSE b) + m
  BY <1>3 DEF WaveOk
<1>5. ~Lost(c) => d <= (IF v THEN a ELSE b) + m
  BY <1>3, <1>4
<1> QED BY <1>3, <1>5 DEF WaveOk

(* The fields of the counters.                                             *)
LEMMA CountersFields ==
    ASSUME NEW c \in CountersType
    PROVE  /\ c.unit \in AnyUnit /\ c.position \in Nat /\ c.last_position \in Nat
           /\ c.submitted \in Nat /\ c.played \in Nat
BY DEF CountersType

(* A position is a number, whatever happens to it.                         *)
LEMMA PlayedType ==
    ASSUME counters \in CountersType
    PROVE  wave_frames \in Nat /\ Played \in Nat
<1>1. PICK u \in AnyUnit, p \in Nat, l \in Nat, q \in Nat :
         /\ u = counters.unit /\ p = counters.position /\ l = counters.last_position
         /\ q = counters.played
  BY CountersFields
<1>2. PICK r \in Nat : r = PosRing /\ r > 0
  BY UnitConstants
<1>3. PICK e \in Nat : e = Elapsed(u, p)
  BY ToldGrows
<1>4. PICK x \in Nat : x = e % r
  BY <1>2
<1>5. InFrames(u, x) \in Nat
  <2>1. CASE u = "samples"
    BY <2>1 DEF InFrames
  <2>2. CASE u = "bytes"
    <3>1. PICK b \in Nat : b = FrameBytes /\ b > 0
      BY UnitConstants
    <3>2. x \div b \in Nat
      BY ONLY <1>4, <3>1, DivBounds
    <3> QED BY <2>2, <3>1, <3>2 DEF InFrames
  <2>3. CASE u = "ms"
    <3>1. PICK g \in Nat, h \in Nat : g = SampleRate /\ h = Second /\ h > 0
      BY UnitConstants
    <3>2. PICK y \in Nat : y = x * g
      BY <3>1
    <3>3. y \div h \in Nat
      BY ONLY <3>1, <3>2, DivBounds
    <3>4. PICK z \in Nat : z = y \div h
      BY <3>3
    <3>5. z % r \in Nat
      BY <1>2
    <3> QED BY <1>2, <2>3, <3>1, <3>2, <3>4, <3>5 DEF InFrames
  <2> QED BY <2>1, <2>2, <2>3 DEF AnyUnit
<1>6. PICK f \in Nat : f = wave_frames
  BY <1>1, <1>2, <1>3, <1>4, <1>5 DEF wave_frames, waveOutGetPosition
<1>7. (f - l) % r \in Nat
  BY <1>2
<1>8. Played = q + ((f - l) % r)
  BY <1>1, <1>2, <1>6 DEF Played
<1> QED BY <1>6, <1>7, <1>8

(* As long as the position can be followed, the code counts what the       *)
(* driver has told, across the wrap.                                       *)
LEMMA WaveDelayIs ==
    ASSUME counters \in CountersType, NEW n \in Nat, NEW w \in BOOLEAN, WaveOk(counters, n, w),
           ~Lost(counters)
    PROVE  /\ Played = Told(counters.unit, counters.position)
           /\ wave_frames = Played % PosRing
           /\ wave_delay_frames \in Nat
           /\ wave_delay_frames - n \in 0 .. (IF counters.unit = "ms" THEN MsFrames ELSE 0)
<1>1. PICK u \in AnyUnit, p \in Nat, l \in Nat, s \in Nat, q \in Nat :
         /\ u = counters.unit /\ p = counters.position /\ l = counters.last_position
         /\ s = counters.submitted /\ q = counters.played
  BY CountersFields
<1>2. PICK r \in Nat : r = PosRing /\ r > 0
  BY UnitConstants
<1>3. PICK x \in Nat, m \in Nat :
         /\ x = Told(u, p) /\ m = MsFrames /\ x <= p
         /\ p - x <= IF u = "ms" THEN m ELSE 0
  BY ToldNear
<1>4. p + n = s /\ l = q % r /\ q <= x
  BY <1>1, <1>2, <1>3 DEF WaveOk
<1>5. s - q < r
  <2>1. WaveOk(counters, n, FALSE)
    BY WaveSlack
  <2>2. PICK b \in Nat : b = (Buffers + 1) * F
    BY OutputConstants
  <2>3. s - q <= b + m
    BY <1>1, <1>3, <2>1, <2>2 DEF WaveOk
  <2>4. b + m < r
    BY <1>2, <1>3, <2>2, OutputAssumption
  <2> QED BY <2>3, <2>4
<1>6. wave_frames = x % r
  <2>1. u = "samples" \/ Elapsed(u, p) < PosRing
    <3>1. Elapsed(u, p) \in Nat
      BY ToldGrows
    <3> QED BY <1>1, <1>2, <3>1 DEF Lost
  <2>2. InFrames(u, Elapsed(u, p) % PosRing) = Told(u, p) % PosRing
    BY <2>1, FramesReported
  <2> QED BY <1>1, <1>2, <1>3, <2>2 DEF wave_frames, waveOutGetPosition
<1>7. ((x % r) - (q % r)) % r = x - q
  <2>1. x - q < r
    BY <1>3, <1>4, <1>5
  <2> QED BY <1>4, <2>1, RingDistance
<1>8. Played = x
  <2>1. Played = q + ((wave_frames - l) % r)
    BY <1>1, <1>2 DEF Played
  <2>2. Played = q + (x - q)
    BY <1>4, <1>6, <1>7, <2>1
  <2> QED BY <2>2
<1>9. wave_delay_frames = IF s > x THEN s - x ELSE 0
  BY <1>1, <1>8 DEF wave_delay_frames
<1>10. wave_delay_frames = n + (p - x)
  BY <1>3, <1>4, <1>9
<1> QED BY <1>1, <1>2, <1>3, <1>6, <1>8, <1>10

(* The position can be followed unless it is lost.                         *)
LEMMA LostIs ==
    ASSUME counters \in CountersType
    PROVE  PositionLost <=> backend = "waveout" /\ Lost(counters)
BY DEF PositionLost, Lost

(* What a driver reports between two writes.                               *)
LEMMA DelayNear ==
    ASSUME ClockTypes, BuffersInv, DelayInv, call.at # "claimed"
    PROVE  /\ Len(Queued) \in Nat /\ Overcount \in Nat
           /\ DelayFrames \in Int
           /\ ~PositionLost => DelayFrames - Len(Queued) \in 0 .. Overcount
<1>1. PICK n \in Nat : n = Len(Queued)
  BY QueuedType, LenProperties
<1>2. backend \in {"alsa", "audioqueue", "waveout", "board"} /\ F \in Nat /\ F >= 1
  BY OutputAssumption, OutputConstants DEF ClockTypes
<1>3. CASE backend = "alsa"
  <2>1. DelayFrames = alsa_delay_frames /\ Overcount = 0 /\ n = Len(pcm.frames)
    BY <1>1, <1>3 DEF DelayFrames, Overcount, Queued
  <2>2. alsa_delay_frames = n
    <3>1. CASE pcm.state = "xrun"
      <4>1. pcm.frames = <<>>
        BY <1>3, <3>1 DEF DelayInv
      <4>2. n = 0
        BY <2>1, <4>1
      <4> QED BY <3>1, <4>2 DEF alsa_delay_frames
    <3>2. CASE pcm.state # "xrun"
      BY <2>1, <3>2 DEF alsa_delay_frames
    <3> QED BY <3>1, <3>2
  <2> QED BY <1>1, <2>1, <2>2
<1>4. CASE backend = "board"
  <2>1. DelayFrames = n /\ Overcount = 0
    BY <1>1, <1>4 DEF DelayFrames, Overcount, Queued
  <2> QED BY <1>1, <2>1
<1>5. CASE backend = "waveout"
  <2>1. /\ DelayFrames = wave_delay_frames /\ counters \in CountersType
        /\ Overcount = IF counters.unit = "ms" THEN MsFrames ELSE 0
    BY <1>5 DEF DelayFrames, Overcount, DelayInv
  <2>2. wave_delay_frames \in Int
    <3>1. Played \in Nat /\ counters.submitted \in Nat
      BY <2>1, PlayedType, CountersFields
    <3> QED BY <3>1 DEF wave_delay_frames
  <2>3. ~PositionLost => wave_delay_frames - n \in 0 .. Overcount
    <3>0. Writing \in BOOLEAN
      BY DEF Writing
    <3>1. PICK w \in BOOLEAN : w = Writing
      BY ONLY <3>0
    <3>2. WaveOk(counters, n, w)
      BY <1>1, <1>5, <3>1 DEF DelayInv
    <3>3. ASSUME ~Lost(counters)
          PROVE  wave_delay_frames - n \in 0 .. (IF counters.unit = "ms" THEN MsFrames ELSE 0)
      BY ONLY <1>1, <2>1, <3>1, <3>2, <3>3, WaveDelayIs
    <3> QED BY <1>5, <2>1, <3>3, LostIs
  <2> QED BY <1>1, <2>1, <2>2, <2>3, MsFramesIs
<1>6. CASE backend = "audioqueue"
  <2>1. DelayFrames = queue_delay_frames /\ Overcount = 2 * F - 1
    BY <1>6 DEF DelayFrames, Overcount
  <2>2. ring \in RingType /\ BuffersOk(ring, "audioqueue") /\ BusyOk(ring, FALSE)
    <3>1. BusyOk(ring, call.at = "claimed")
      BY <1>6 DEF DelayInv
    <3> QED BY <1>6, <3>1 DEF BuffersInv, BusyOk
  <2>3. queue_delay_frames - Len(Shown(ring)) \in 0 .. 2 * F - 1
    BY <2>2, QueueDelayNear
  <2>4. queue_delay_frames \in Int
    <3>1. ring.busy \subseteq Slots /\ \A i \in ring.busy : Len(ring.data[i]) = F
      BY <2>2 DEF RingType, BuffersOk, BusyOk, InDriver
    <3>2. Cardinality(ring.busy) \in Nat
      BY <3>1, FiniteSlots, FS_Subset, FS_CardinalityType
    <3> QED BY <1>2, <3>1, <3>2, QueueDelaySum
  <2>5. n = Len(Shown(ring))
    BY <1>1, <1>6, QueuedIs
  <2> QED BY <1>1, <1>2, <2>1, <2>3, <2>4, <2>5
<1> QED BY <1>2, <1>3, <1>4, <1>5, <1>6

(* The delay is honest.                                                    *)
LEMMA InvHonest == ClockTypes /\ BuffersInv /\ DelayInv => DelayHonest
BY DelayNear DEF DelayHonest

----------------------------------------------------------------------------
(* What is queued stays in time.                                           *)

(* The constants of the deadlines.                                         *)
LEMMA DueConstants ==
    ASSUME ClockTypes
    PROVE  /\ now \in Nat /\ Overcount \in Nat /\ Margin \in Nat /\ LateLimit \in Nat
           /\ F \in Nat /\ F >= 1
<1>1. F \in Nat /\ F >= 1
  BY OutputConstants
<1>2. 2 * F - 1 \in Nat
  BY <1>1
<1> QED BY <1>1, <1>2, OutputAssumption, MsFramesIs DEF ClockTypes, Overcount

(* Frames are due at a time, ...                                           *)
LEMMA DueType ==
    ASSUME NEW s \in Seq(Frame), NEW i \in 1 .. Len(s)
    PROVE  s[i].due \in Int
<1>1. s[i] \in Frame
  BY ElementOfSeq
<1> QED BY <1>1 DEF Frame

(* ... and so is the rest of a packet.                                     *)
LEMMA RestType ==
    ASSUME NEW c \in CallType
    PROVE  c.due \in Int /\ c.written \in Nat /\ c.due + c.written \in Int
<1>1. c.due \in Int /\ c.written \in Nat
  BY DEF CallType
<1> QED BY <1>1

(* A head start of one frame makes up for a tick.                          *)
LEMMA InTimeMoves ==
    ASSUME ClockTypes, NEW n \in Int, NEW m \in Int, NEW d \in Int, NEW e \in Int,
           Overcount' = Overcount, now' \in Int, InTime(n, d), now' + m - e = now + n - d
    PROVE  InTime(m, e)'
BY DueConstants DEF InTime

(* Nothing is queued and nothing is played.                                *)
LEMMA DueSame ==
    ASSUME OutputInv, DueOk, Queued' = Queued, UNCHANGED <<backend, now, Overcount>>, Live' => Live,
           Writing' => Writing /\ call'.due = call.due /\ call'.written = call.written,
           stuck => stuck'
    PROVE  DueOk'
<1>1. ClockTypes /\ call \in CallType /\ Queued \in Seq(Frame) /\ now \in Nat
  BY QueuedType DEF OutputInv, SubmitInv, ClockTypes
<1>2. ASSUME Live', NEW i \in 1 .. Len(Queued)
      PROVE  InTime(i - 1, Queued[i].due)'
  <2>1. PICK d \in Int : d = Queued[i].due /\ d = Queued'[i].due
    BY <1>1, DueType
  <2>2. InTime(i - 1, d)
    BY <1>2, <2>1 DEF DueOk
  <2>3. i - 1 \in Int
    BY <1>1
  <2>4. InTime(i - 1, d)'
    BY <1>1, <2>2, <2>3, InTimeMoves
  <2> QED BY <2>1, <2>4
<1>3. ASSUME ~stuck', Writing'
      PROVE  InTime(Len(Queued), call.due + call.written)'
  <2>1. PICK d \in Int, n \in Int :
           /\ d = call.due + call.written /\ d = call'.due + call'.written
           /\ n = Len(Queued) /\ n = Len(Queued')
    BY <1>1, <1>3, RestType
  <2>2. InTime(n, d)
    BY <1>3, <2>1 DEF DueOk
  <2>3. InTime(n, d)'
    BY <1>1, <2>2, InTimeMoves
  <2> QED BY <2>1, <2>3
<1> QED BY <1>2, <1>3 DEF DueOk

(* Nothing is left to play.                                                *)
LEMMA DueEmpty ==
    ASSUME Queued' = <<>>, ~Writing'
    PROVE  DueOk'
<1>1. Len(Queued') = 0
  OBVIOUS
<1> QED BY <1>1 DEF DueOk

(* Frames of the packet are queued.                                        *)
LEMMA DueAdds ==
    ASSUME OutputInv, DueOk, Writing, NEW n \in Nat, n >= 1, Queued' = Queued \o NewFrames(n),
           UNCHANGED <<backend, now, stuck, Overcount>>, Live' => Live \/ Queued = <<>>,
           Writing' => call'.due = call.due /\ call'.written = call.written + n
    PROVE  DueOk'
<1>1. ClockTypes /\ call \in CallType /\ Queued \in Seq(Frame) /\ now \in Nat
  BY QueuedType DEF OutputInv, SubmitInv, ClockTypes
<1>2. PICK q, x, l : q = Queued /\ x = NewFrames(n) /\ l = Len(q)
  OBVIOUS
<1>3. /\ q \in Seq(Frame) /\ x \in Seq(Frame) /\ l \in Nat /\ Len(x) = n /\ Len(q) = l
      /\ \A j \in 1 .. n : x[j].due = call.due + call.written + j - 1
  <2>1. /\ NewFrames(n) \in Seq(Frame) /\ Len(NewFrames(n)) = n
        /\ \A i \in 1 .. n : NewFrames(n)[i].due = call.due + call.written + i - 1
    BY <1>1, NewFramesAre
  <2>2. q \in Seq(Frame) /\ l \in Nat /\ Len(q) = l
    BY <1>1, <1>2
  <2> QED BY ONLY <1>2, <2>1, <2>2
<1>4. PICK p : p = Queued'
  OBVIOUS
<1>5. /\ Len(p) = l + n
      /\ \A i \in 1 .. l + n : p[i] = IF i <= l THEN q[i] ELSE x[i - l]
  <2>1. p = q \o x
    BY <1>2, <1>4
  <2> QED BY ONLY <1>3, <2>1, ConcatProperties
<1>6. PICK d \in Int : d = call.due + call.written
  BY <1>1, RestType
<1>7. ~stuck => InTime(l, d)
  BY <1>2, <1>6 DEF DueOk
<1>8. ASSUME Live', NEW i \in 1 .. l + n
      PROVE  InTime(i - 1, p[i].due)'
  <2>1. ~stuck
    BY <1>8 DEF Live
  <2>2. i - 1 \in Int
    BY <1>3
  <2>3. CASE i <= l
    <3>1. i \in 1 .. Len(Queued) /\ p[i] = q[i]
      BY <1>2, <1>3, <1>5, <2>3
    <3>2. PICK e \in Int : e = q[i].due
      BY ONLY <1>2, <1>3, <3>1, DueType
    <3>3. Live
      BY <1>2, <1>3, <1>8, <2>3
    <3>4. InTime(i - 1, e)
      BY <1>2, <3>1, <3>2, <3>3 DEF DueOk
    <3>5. InTime(i - 1, e)'
      BY <1>1, <2>2, <3>4, InTimeMoves
    <3> QED BY <3>1, <3>2, <3>5
  <2>4. CASE ~(i <= l)
    <3>1. PICK j \in 1 .. n : j = i - l
      BY <1>3, <2>4
    <3>2. PICK e \in Int : e = d + j - 1
      BY <3>1
    <3>3. p[i].due = e
      BY <1>1, <1>3, <1>5, <1>6, <2>4, <3>1, <3>2 DEF CallType
    <3>4. now' + (i - 1) - e = now + l - d
      BY <1>1, <1>3, <3>1, <3>2
    <3>5. l \in Int /\ now' \in Int /\ Overcount' = Overcount /\ InTime(l, d)
      BY <1>1, <1>3, <1>7, <2>1
    <3>6. InTime(i - 1, e)'
      BY ONLY <1>1, <2>2, <3>4, <3>5, InTimeMoves
    <3> QED BY <3>3, <3>6
  <2> QED BY <2>3, <2>4
<1>9. ASSUME ~stuck', Writing'
      PROVE  InTime(l + n, call.due + call.written)'
  <2>1. PICK e \in Int : e = d + n /\ e = call'.due + call'.written
    <3>1. call.due \in Int /\ call.written \in Nat
      BY <1>1, RestType
    <3> QED BY <1>6, <1>9, <3>1
  <2>2. PICK k \in Int : k = l + n
    BY <1>3
  <2>3. now' + k - e = now + l - d /\ l \in Int /\ now' \in Int /\ Overcount' = Overcount
    BY <1>1, <1>3, <2>1, <2>2
  <2>4. InTime(l, d)
    BY <1>7, <1>9
  <2>5. InTime(k, e)'
    BY ONLY <1>1, <2>3, <2>4, InTimeMoves
  <2> QED BY <2>1, <2>2, <2>5
<1> QED BY <1>4, <1>5, <1>8, <1>9 DEF DueOk

(* A frame is played.                                                      *)
LEMMA DuePlays ==
    ASSUME OutputInv, DueOk, Queued # <<>>, Queued' = Tail(Queued), now' = now + 1,
           UNCHANGED <<backend, stuck, Overcount>>, Live' => Live,
           Writing' => Writing /\ call'.due = call.due /\ call'.written = call.written
    PROVE  DueOk'
<1>1. ClockTypes /\ call \in CallType /\ Queued \in Seq(Frame) /\ now \in Nat
  BY QueuedType DEF OutputInv, SubmitInv, ClockTypes
<1>2. PICK q, p, l : q = Queued /\ p = Queued' /\ l = Len(q)
  OBVIOUS
<1>3. /\ q \in Seq(Frame) /\ l \in Nat /\ l = Len(q) /\ Len(p) = l - 1
      /\ \A i \in 1 .. l - 1 : p[i] = q[i + 1]
  <2>1. q # <<>> /\ q \in Seq(Frame) /\ p = Tail(q)
    BY <1>1, <1>2
  <2>2. Len(p) = Len(q) - 1 /\ Len(q) \in Nat /\ \A i \in 1 .. Len(p) : p[i] = q[i + 1]
    BY ONLY <2>1, HeadTailProperties, LenProperties
  <2> QED BY <1>2, <2>1, <2>2
<1>4. ASSUME Live', NEW i \in 1 .. l - 1
      PROVE  InTime(i - 1, p[i].due)'
  <2>1. i + 1 \in 1 .. Len(Queued) /\ (i + 1) - 1 = i /\ i \in Int /\ i - 1 \in Int
    BY <1>2, <1>3
  <2>2. PICK e \in Int : e = q[i + 1].due /\ p[i].due = e
    <3>1. q[i + 1].due \in Int
      BY ONLY <1>2, <1>3, <2>1, DueType
    <3> QED BY <1>3, <3>1
  <2>3. Live
    BY <1>4
  <2>4. InTime((i + 1) - 1, Queued[i + 1].due)
    BY <2>1, <2>3 DEF DueOk
  <2>5. InTime(i, e)
    BY <1>2, <2>1, <2>2, <2>4
  <2>6. now' + (i - 1) - e = now + i - e /\ now' \in Int /\ Overcount' = Overcount
    BY <1>1, <2>1
  <2>7. InTime(i - 1, e)'
    BY ONLY <1>1, <2>1, <2>5, <2>6, InTimeMoves
  <2> QED BY <2>2, <2>7
<1>5. ASSUME ~stuck', Writing'
      PROVE  InTime(l - 1, call.due + call.written)'
  <2>1. PICK d \in Int, k \in Int :
           d = call.due + call.written /\ d = call'.due + call'.written /\ k = l - 1
    <3>1. call.due + call.written \in Int /\ l - 1 \in Int
      BY <1>1, <1>3, RestType
    <3> QED BY <1>5, <3>1
  <2>2. InTime(l, d)
    BY <1>2, <1>5, <2>1 DEF DueOk
  <2>3. now' + k - d = now + l - d /\ now' \in Int /\ Overcount' = Overcount /\ l \in Int
    BY <1>1, <1>3, <2>1
  <2>4. InTime(k, d)'
    BY ONLY <1>1, <2>1, <2>2, <2>3, InTimeMoves
  <2> QED BY <2>1, <2>4
<1> QED BY <1>2, <1>3, <1>4, <1>5 DEF DueOk

(* So frames are heard in time.                                            *)
LEMMA InvHeard == BuffersInv /\ ClockTypes /\ DueInv => HeardOnTime
<1> SUFFICES ASSUME BuffersInv, ClockTypes, DueOk, Playing
             PROVE  now - Head(Queued).due \in -(Margin + Overcount) .. LateLimit
  BY DEF HeardOnTime, DueInv
<1>1. PICK q : q = Queued
  OBVIOUS
<1>2. q \in Seq(Frame) /\ q # <<>> /\ Live
  BY <1>1, QueuedType DEF Playing, Live
<1>3. 1 \in 1 .. Len(q) /\ Head(q) = q[1]
  BY <1>2
<1>4. InTime(1 - 1, q[1].due)
  BY <1>1, <1>2, <1>3 DEF DueOk
<1>5. PICK d : d = q[1].due
  OBVIOUS
<1>6. d \in Int
  BY ONLY <1>2, <1>3, <1>5, DueType
<1>7. now + (1 - 1) - d = now - d
  BY <1>6, DueConstants
<1> QED BY <1>1, <1>3, <1>4, <1>5, <1>7 DEF InTime

----------------------------------------------------------------------------
(* The counters stay in order.                                             *)

(* What is to be shown of a step.                                          *)
LEMMA DelayNext ==
    ASSUME backend' = backend, counters' \in CountersType,
           backend = "alsa" /\ pcm'.state = "xrun" => pcm'.frames = <<>>,
           backend = "audioqueue" => BusyOk(ring', call'.at = "claimed") /\ InTurn(ring'),
           backend = "waveout" => WaveOk(counters', Len(Queued'), Writing')
    PROVE  DelayInv'
BY DEF DelayInv

(* The device stays as it is.                                              *)
LEMMA DelaySame ==
    ASSUME DelayInv, UNCHANGED <<backend, pcm, ring, counters>>, Queued' = Queued,
           call.at = "claimed" => call'.at = "claimed", Writing' => Writing
    PROVE  DelayInv'
<1>1. counters' \in CountersType
  BY DEF DelayInv
<1>2. ASSUME backend = "audioqueue"
      PROVE  BusyOk(ring', call'.at = "claimed") /\ InTurn(ring')
  BY <1>2 DEF DelayInv, BusyOk
<1>3. ASSUME backend = "waveout"
      PROVE  WaveOk(counters', Len(Queued'), Writing')
  <2>1. WaveOk(counters, Len(Queued), Writing) /\ counters \in CountersType
    BY <1>3 DEF DelayInv
  <2>2. Writing \in BOOLEAN /\ Writing' \in BOOLEAN
    BY DEF Writing
  <2>3. WaveOk(counters, Len(Queued), Writing')
    BY <2>1, <2>2, WaveSlack
  <2> QED BY <2>3
<1> QED BY <1>1, <1>2, <1>3, DelayNext DEF DelayInv

(* The ring of waveOut holds at most its buffers.                          *)
LEMMA WaveFull ==
    ASSUME BuffersInv, backend \notin {"alsa", "board"}
    PROVE  Len(Queued) \in Nat /\ Len(Queued) <= Buffers * F
<1>1. ring \in RingType /\ BuffersOk(ring, backend)
  BY DEF BuffersInv
<1>2. /\ Len(ring.enqueued) \in Nat /\ ring.head \in Nat
      /\ Len(Shown(ring)) = F * Len(ring.enqueued) - ring.head
  BY <1>1, FullBuffers
<1>3. PICK held : held = {i \in Slots : InDriver(ring, i)}
  OBVIOUS
<1>4. Len(ring.enqueued) <= Buffers
  BY ONLY <1>1, <1>3, HeldBuffers
<1>5. PICK n \in Nat, h \in Nat, f \in Nat, b \in Nat :
         n = Len(ring.enqueued) /\ h = ring.head /\ f = F /\ b = Buffers
  BY <1>2, OutputConstants
<1>6. f * n <= b * f
  <2>1. PICK d \in Nat : b = n + d
    <3>1. n <= b
      BY <1>4, <1>5
    <3>2. b - n \in Nat /\ b = n + (b - n)
      BY <1>5, <3>1
    <3> QED BY <3>2
  <2>2. b * f = f * n + d * f /\ d * f \in Nat /\ f * n \in Nat
    BY <2>1
  <2> QED BY <2>2
<1>7. PICK l : l = Len(Queued)
  OBVIOUS
<1>8. l = f * n - h /\ l \in Nat
  <2>1. Queued = Shown(ring)
    BY QueuedIs
  <2>2. Queued \in Seq(Frame)
    BY QueuedType
  <2> QED BY <1>2, <1>5, <1>7, <2>1, <2>2
<1>9. f * n \in Nat /\ b * f \in Nat
  BY <1>5
<1>10. l <= b * f
  BY ONLY <1>5, <1>6, <1>8, <1>9
<1> QED BY <1>5, <1>7, <1>8, <1>10

(* The delay is measured.                                                  *)
LEMMA WaveMeasured ==
    ASSUME NEW c \in CountersType, NEW n \in Nat, n <= Buffers * F, NEW w, WaveOk(c, n, w),
           NEW p \in Nat, NEW l \in Nat,
           ~Lost(c) => p = Told(c.unit, c.position) /\ l = p % PosRing,
           NEW d, d = [c EXCEPT !.played = p, !.last_position = l]
    PROVE  d \in CountersType /\ WaveOk(d, n, TRUE)
<1>1. PICK u \in AnyUnit, k \in Nat, s \in Nat :
         u = c.unit /\ k = c.position /\ s = c.submitted
  BY CountersFields
<1>2. d = [unit |-> u, position |-> k, last_position |-> l, submitted |-> s, played |-> p]
  BY <1>1 DEF CountersType
<1>3. d \in CountersType
  BY <1>2 DEF CountersType
<1>4. k + n = s
  BY <1>1 DEF WaveOk
<1>5. Lost(d) <=> Lost(c)
  BY <1>1, <1>2 DEF Lost
<1>6. ASSUME ~Lost(c)
      PROVE  /\ l = p % PosRing /\ p <= Told(u, k)
             /\ s - p <= Buffers * F + MsFrames
  <2>1. PICK x \in Nat, m \in Nat, b \in Nat :
           /\ x = Told(u, k) /\ m = MsFrames /\ x <= k /\ k - x <= m /\ b = Buffers * F
    <3>1. /\ Told(u, k) \in Nat /\ Told(u, k) <= k /\ MsFrames \in Nat
          /\ k - Told(u, k) <= (IF u = "ms" THEN MsFrames ELSE 0)
      BY ToldNear
    <3>2. Buffers * F \in Nat
      BY OutputConstants
    <3> QED BY <3>1, <3>2
  <2>2. p = x /\ l = p % PosRing
    BY <1>1, <1>6, <2>1
  <2> QED BY <1>4, <2>1, <2>2
<1>7. /\ d.unit = u /\ d.position = k /\ d.last_position = l
      /\ d.submitted = s /\ d.played = p
  BY ONLY <1>2
<1>8. WaveOk(d, n, TRUE)
  <2>1. d.position + n = d.submitted
    BY ONLY <1>4, <1>7
  <2>2. ASSUME ~Lost(d)
        PROVE  /\ d.last_position = d.played % PosRing
               /\ d.played <= Told(d.unit, d.position)
               /\ d.submitted - d.played <= Buffers * F + MsFrames
    BY ONLY <1>5, <1>6, <1>7, <2>2
  <2> QED BY <2>1, <2>2 DEF WaveOk
<1> QED BY <1>3, <1>8

(* play_ready_packets asks the driver for its delay.                       *)
LEMMA DelayMeasured ==
    ASSUME OutputInv, DelayInv, MeasureDelay, Queued' = Queued, backend' = backend,
           call.at # "claimed"
    PROVE  DelayInv'
<1>1. counters \in CountersType /\ BuffersInv
  BY DEF DelayInv, OutputInv
<1>2. ring' = ring /\ pcm' = pcm
  BY DEF MeasureDelay
<1>3. CASE backend = "waveout"
  <2>1. PICK n : n = Len(Queued) /\ n = Len(Queued')
    OBVIOUS
  <2>2. n \in Nat /\ n <= Buffers * F
    BY <1>1, <1>3, <2>1, WaveFull
  <2>3. PICK p \in Nat, l \in Nat : p = Played /\ l = wave_frames
    BY <1>1, PlayedType
  <2>4. counters' = [counters EXCEPT !.played = p, !.last_position = l]
    BY <1>3, <2>3 DEF MeasureDelay
  <2>5. PICK w \in BOOLEAN : w = Writing
    <3>1. Writing \in BOOLEAN
      BY DEF Writing
    <3> QED BY ONLY <3>1
  <2>6. WaveOk(counters, n, w)
    BY <1>3, <2>1, <2>5 DEF DelayInv
  <2>7. ~Lost(counters) => p = Told(counters.unit, counters.position) /\ l = p % PosRing
    BY <1>1, <2>2, <2>3, <2>5, <2>6, WaveDelayIs
  <2>9. counters' \in CountersType /\ WaveOk(counters', n, TRUE)
    BY ONLY <1>1, <2>2, <2>3, <2>4, <2>6, <2>7, WaveMeasured
  <2>10. WaveOk(counters', n, Writing')
    <3>1. Writing' \in BOOLEAN /\ TRUE \in BOOLEAN
      BY DEF Writing
    <3> QED BY <2>2, <2>9, <3>1, WaveSlack
  <2> QED BY <1>3, <2>1, <2>9, <2>10, DelayNext
<1>4. CASE backend # "waveout"
  <2>1. counters' = counters
    BY <1>4 DEF MeasureDelay
  <2>2. backend = "audioqueue" => BusyOk(ring', call'.at = "claimed") /\ InTurn(ring')
    BY <1>2 DEF DelayInv, BusyOk
  <2>3. backend = "alsa" /\ pcm'.state = "xrun" => pcm'.frames = <<>>
    BY <1>2 DEF DelayInv
  <2> QED BY <1>1, <1>4, <2>1, <2>2, <2>3, DelayNext
<1> QED BY <1>3, <1>4

(* ALSA and the board keep no buffers and no counters.                     *)
LEMMA DelayPcm ==
    ASSUME DelayInv, backend \in {"alsa", "board"}, UNCHANGED <<backend, counters>>,
           backend = "alsa" /\ pcm'.state = "xrun" => pcm'.frames = <<>>
    PROVE  DelayInv'
<1>1. counters' \in CountersType
  BY DEF DelayInv
<1> QED BY <1>1, DelayNext

(* ALSA holds nothing after an underrun.                                   *)
LEMMA DelayAlsa ==
    ASSUME OutputInv, DelayInv, alsa_write \/ alsa_wait \/ board_write
    PROVE  DelayInv'
<1>1. backend \in {"alsa", "board"} /\ UNCHANGED <<backend, counters>>
  BY DEF alsa_write, alsa_wait, board_write, device
<1>2. backend = "alsa" /\ pcm'.state = "xrun" => pcm'.frames = <<>>
  <2>1. CASE pcm' = pcm
    BY <2>1 DEF DelayInv
  <2>2. CASE board_write
    BY <2>2 DEF board_write
  <2>3. CASE pcm' = FreshPcm
    BY <2>3 DEF FreshPcm
  <2>4. CASE writei_accepts
    <3>1. PICK n \in 1 .. Min({Room, Left(call)}) :
              pcm' = [state |-> "running", frames |-> pcm.frames \o NewFrames(n)]
      BY <2>4 DEF writei_accepts
    <3>2. pcm'.state = "running"
      BY <3>1
    <3> QED BY <3>2
  <2> QED BY <2>1, <2>2, <2>3, <2>4
     DEF alsa_write, alsa_wait, device, writei_underrun, writei_waits, writei_fails
<1> QED BY <1>1, <1>2, DelayPcm

(* The device is opened or closed.                                         *)
LEMMA WaveFresh ==
    ASSUME NEW u \in AnyUnit, NEW w
    PROVE  FreshCounters(u) \in CountersType /\ WaveOk(FreshCounters(u), 0, w)
<1>1. FreshCounters(u) \in CountersType
  BY DEF FreshCounters, CountersType
<1>2. 0 % PosRing = 0
  <2>1. PosRing \in Nat /\ PosRing > 0 /\ 0 = PosRing * 0 + 0
    BY OutputAssumption
  <2> QED BY <2>1, ModUnique
<1>3. PICK a \in Nat, b \in Nat, m \in Nat, x \in Nat :
         a = Buffers * F /\ b = (Buffers + 1) * F /\ m = MsFrames /\ x = Told(u, 0)
  <2>1. Buffers * F \in Nat /\ (Buffers + 1) * F \in Nat
    BY OutputConstants
  <2> QED BY <2>1, MsFramesIs, ToldNear
<1>4. 0 - 0 <= (IF w THEN Buffers ELSE Buffers + 1) * F + MsFrames
  BY <1>3
<1>5. /\ FreshCounters(u).unit = u /\ FreshCounters(u).position = 0
      /\ FreshCounters(u).last_position = 0 /\ FreshCounters(u).submitted = 0
      /\ FreshCounters(u).played = 0
  BY DEF FreshCounters
<1> QED BY <1>1, <1>2, <1>3, <1>4, <1>5 DEF WaveOk

LEMMA DelayFresh ==
    ASSUME NEW u \in AnyUnit, FreshDevice(u), backend' = backend, Queued' = <<>>
    PROVE  DelayInv'
<1>1. pcm' = FreshPcm /\ ring' = FreshRing /\ counters' = FreshCounters(u)
  BY DEF FreshDevice
<1>2. counters' \in CountersType
  BY <1>1, WaveFresh
<1>3. BusyOk(ring', call'.at = "claimed") /\ InTurn(ring')
  <2>1. ring'.enqueued = <<>> /\ ring'.finished = {} /\ ring'.busy = {} /\ Len(ring'.enqueued) = 0
    BY <1>1 DEF FreshRing
  <2> QED BY <2>1, OutputConstants DEF BusyOk, InTurn
<1>4. WaveOk(counters', Len(Queued'), Writing')
  <2>1. Len(Queued') = 0
    OBVIOUS
  <2> QED BY <1>1, <2>1, WaveFresh
<1>5. pcm'.frames = <<>>
  BY <1>1 DEF FreshPcm
<1> QED BY <1>2, <1>3, <1>4, <1>5, DelayNext

----------------------------------------------------------------------------
(* The turn of the buffers.                                                *)

(* Nothing is given to the driver or played.                               *)
LEMMA TurnKeeps ==
    ASSUME NEW r, NEW q, InTurn(r), q.enqueued = r.enqueued, q.next = r.next,
           q.started = r.started, q.finished \subseteq r.finished
    PROVE  InTurn(q)
BY DEF InTurn

(* The next buffer is given to the driver.                                 *)
LEMMA TurnAdds ==
    ASSUME NEW r \in RingType, NEW q, InTurn(r), r.enqueued # <<>> => r.started,
           q.enqueued = Append(r.enqueued, r.next), q.finished = r.finished,
           q.started => q.next = NextSlot(r.next), NEW c, BusyOk(r, c), q.busy = r.busy
    PROVE  InTurn(q) /\ BusyOk(q, FALSE)
<1>1. PICK e, n, x, t : e = r.enqueued /\ n = Len(e) /\ x = r.next /\ t = q.enqueued
  OBVIOUS
<1>2. e \in Seq(Slots) /\ n \in Nat /\ x \in Slots /\ n = Len(e) /\ (e = <<>> <=> n = 0)
  BY <1>1 DEF RingType
<1>3. /\ Len(t) = n + 1 /\ t # <<>> /\ t[n + 1] = x /\ \A k \in 1 .. n : t[k] = e[k]
  <2>1. t = Append(e, x)
    BY <1>1
  <2> QED BY ONLY <1>2, <2>1
<1>4. ASSUME NEW k \in 1 .. n + 1, k + 1 <= n + 1
      PROVE  t[k + 1] = NextSlot(t[k])
  <2>1. k \in 1 .. n
    BY <1>2, <1>4
  <2>2. CASE k = n
    <3>1. e # <<>> /\ r.next = NextSlot(e[n])
      BY <1>1, <1>2, <2>1, <2>2 DEF InTurn
    <3> QED BY <1>1, <1>3, <2>1, <2>2, <3>1
  <2>3. CASE k # n
    <3>1. k + 1 <= n /\ k + 1 \in 1 .. n
      BY <1>2, <2>1, <2>3
    <3>2. e[k + 1] = NextSlot(e[k])
      BY <1>1, <2>1, <3>1 DEF InTurn
    <3> QED BY <1>3, <2>1, <3>1, <3>2
  <2> QED BY <2>2, <2>3
<1>5. ASSUME NEW b \in r.finished
      PROVE  t[1] = NextSlot(b)
  <2>1. CASE n = 0
    <3>1. r.next = NextSlot(b)
      BY <1>1, <1>2, <2>1 DEF InTurn
    <3>2. t[1] = x
      BY <1>3, <2>1
    <3> QED BY <1>1, <3>1, <3>2
  <2>2. CASE n # 0
    <3>1. e[1] = NextSlot(b)
      BY <1>1, <1>2, <2>2 DEF InTurn
    <3>2. 1 \in 1 .. n
      BY <1>2, <2>2
    <3> QED BY <1>3, <3>1, <3>2
  <2> QED BY <2>1, <2>2
<1>6. InTurn(q)
  BY <1>1, <1>3, <1>4, <1>5 DEF InTurn
<1>7. ASSUME NEW i \in r.busy
      PROVE  InDriver(q, i) \/ i \in r.finished
  <2>1. InDriver(r, i) \/ i \in r.finished \/ i = r.next
    BY <1>7 DEF BusyOk
  <2>2. CASE InDriver(r, i)
    <3>1. PICK k \in 1 .. n : e[k] = i
      BY <1>1, <2>2 DEF InDriver
    <3>2. k \in 1 .. n + 1 /\ t[k] = i
      BY <1>2, <1>3, <3>1
    <3> QED BY <1>1, <1>3, <3>2 DEF InDriver
  <2>3. CASE i = r.next
    <3>1. n + 1 \in 1 .. n + 1
      BY <1>2
    <3> QED BY <1>1, <1>3, <2>3, <3>1 DEF InDriver
  <2> QED BY <2>1, <2>2, <2>3
<1> QED BY <1>6, <1>7 DEF BusyOk

(* The first buffer was played.                                            *)
LEMMA TurnPlays ==
    ASSUME NEW r \in RingType, NEW q, InTurn(r), r.enqueued # <<>>, r.started,
           q.enqueued = Tail(r.enqueued), q.next = r.next, q.finished = {Head(r.enqueued)},
           BusyOk(r, FALSE), r.finished = {}, q.busy = r.busy
    PROVE  InTurn(q) /\ BusyOk(q, FALSE)
<1>1. PICK e, n, h, t : e = r.enqueued /\ n = Len(e) /\ h = Head(e) /\ t = q.enqueued
  OBVIOUS
<1>2. e \in Seq(Slots) /\ n \in Nat /\ n >= 1 /\ n = Len(e) /\ h = e[1] /\ h \in Slots
  BY <1>1 DEF RingType
<1>3. Len(t) = n - 1 /\ (t = <<>> <=> n = 1) /\ \A k \in 1 .. n - 1 : t[k] = e[k + 1]
  <2>1. t = Tail(e) /\ e # <<>> /\ e \in Seq(Slots)
    BY <1>1, <1>2
  <2>2. t \in Seq(Slots) /\ Len(t) = Len(e) - 1 /\ \A k \in 1 .. Len(t) : t[k] = e[k + 1]
    BY ONLY <2>1, HeadTailProperties
  <2>3. t = <<>> <=> Len(t) = 0
    BY ONLY <2>2
  <2> QED BY <1>2, <2>2, <2>3
<1>4. ASSUME NEW k \in 1 .. n - 1, k + 1 <= n - 1
      PROVE  t[k + 1] = NextSlot(t[k])
  <2>1. /\ k + 1 \in 1 .. n /\ (k + 1) + 1 <= n /\ k + 1 \in 1 .. n - 1
    BY <1>2, <1>4
  <2>2. e[(k + 1) + 1] = NextSlot(e[k + 1])
    BY <1>1, <2>1 DEF InTurn
  <2> QED BY <1>3, <2>1, <2>2
<1>5. t # <<>> => q.next = NextSlot(t[n - 1])
  <2> SUFFICES ASSUME t # <<>> PROVE q.next = NextSlot(t[n - 1])
    OBVIOUS
  <2>1. n - 1 \in 1 .. n - 1 /\ (n - 1) + 1 = n
    BY <1>2, <1>3
  <2>2. q.next = NextSlot(e[n])
    BY <1>1 DEF InTurn
  <2> QED BY <1>3, <2>1, <2>2
<1>6. IF t = <<>> THEN q.next = NextSlot(h) ELSE t[1] = NextSlot(h)
  <2>1. CASE n = 1
    <3>1. q.next = NextSlot(e[1])
      BY <1>1, <2>1 DEF InTurn
    <3> QED BY <1>2, <1>3, <2>1, <3>1
  <2>2. CASE n # 1
    <3>1. 1 \in 1 .. n /\ 1 + 1 <= n /\ 1 \in 1 .. n - 1
      BY <1>2, <2>2
    <3>2. e[1 + 1] = NextSlot(e[1])
      BY <1>1, <3>1 DEF InTurn
    <3> QED BY <1>2, <1>3, <2>2, <3>1, <3>2
  <2> QED BY <2>1, <2>2
<1>7. InTurn(q)
  BY <1>1, <1>3, <1>4, <1>5, <1>6 DEF InTurn
<1>8. ASSUME NEW i \in r.busy
      PROVE  InDriver(q, i) \/ i = h
  <2>1. InDriver(r, i)
    BY <1>8 DEF BusyOk
  <2>2. PICK k \in 1 .. n : e[k] = i
    BY <1>1, <2>1 DEF InDriver
  <2>3. CASE k = 1
    BY <1>2, <2>2, <2>3
  <2>4. CASE k # 1
    <3>1. PICK j : j = k - 1
      OBVIOUS
    <3>2. j \in 1 .. n - 1 /\ j + 1 = k
      BY <1>2, <2>4, <3>1
    <3>3. t[j] = i
      BY <1>3, <2>2, <3>2
    <3> QED BY <1>1, <1>3, <3>2, <3>3 DEF InDriver
  <2> QED BY <2>3, <2>4
<1> QED BY <1>1, <1>2, <1>7, <1>8 DEF BusyOk

(* Whether the driver is started is as before.                             *)
LEMMA StartSame ==
    ASSUME StartInv, backend' = backend, ring'.started = ring.started,
           ring'.enqueued = ring.enqueued, ring'.finished \subseteq ring.finished,
           stopping /\ ~Writing => stopping' /\ ~Writing',
           call'.at = "wait" => call.at = "wait"
    PROVE  StartInv'
BY DEF StartInv

(* A driver that has something to play while a packet is written was       *)
(* started.                                                                *)
LEMMA StartedWriting ==
    ASSUME StartInv, Writing, backend \in {"audioqueue", "waveout"}
    PROVE  ring.enqueued # <<>> => ring.started
BY DEF StartInv

(* AudioQueue claims a buffer, or waits for one.                           *)
LEMMA QueueClaimStays ==
    ASSUME OutputInv, DelayInv, StartInv, queue_claim, Queued' = Queued
    PROVE  DelayInv' /\ StartInv'
<1>1. /\ backend = "audioqueue" /\ call.at = "write" /\ Writing /\ ring \in RingType
      /\ call \in CallType /\ UNCHANGED <<backend, pcm, counters, stuck>>
      /\ counters \in CountersType /\ BusyOk(ring, FALSE) /\ InTurn(ring)
  <2>1. BusyOk(ring, call.at = "claimed") /\ InTurn(ring) /\ call.at = "write"
    BY DEF queue_claim, DelayInv
  <2>2. BusyOk(ring, FALSE)
    BY <2>1 DEF BusyOk
  <2> QED BY <2>1, <2>2 DEF queue_claim, DelayInv, OutputInv, SubmitInv, BuffersInv, Writing
<1>2. CASE /\ ring' = [ring EXCEPT !.busy = @ \cup {ring.next}]
           /\ Continue([call EXCEPT !.at = "claimed"])
  <2>1. /\ ring'.enqueued = ring.enqueued /\ ring'.next = ring.next
        /\ ring'.started = ring.started /\ ring'.finished = ring.finished
        /\ ring'.busy = ring.busy \cup {ring.next}
    BY <1>1, <1>2 DEF RingType
  <2>2. call'.at = "claimed" /\ stopping' = stopping
    BY <1>1, <1>2, CallMoves DEF Continue, CallPlaces
  <2>3. InTurn(ring')
    BY <1>1, <2>1, TurnKeeps
  <2>4. BusyOk(ring', TRUE)
    BY <1>1, <2>1 DEF BusyOk, InDriver
  <2>5. BusyOk(ring', call'.at = "claimed")
    BY <2>2, <2>4 DEF BusyOk
  <2>6. DelayInv'
    BY <1>1, <2>3, <2>5, DelayNext
  <2>7. StartInv'
    BY <1>1, <2>1, <2>2, StartSame
  <2> QED BY <2>6, <2>7
<1>3. CASE /\ ring.next \in ring.busy /\ ring' = ring
           /\ Continue([call EXCEPT !.at = "wait", !.attempts = @ + 1])
  <2>1. call'.at = "wait" /\ Writing'
    BY <1>1, <1>3 DEF Continue, CallType, Writing
  <2>2. DelayInv'
    BY <1>1, <1>3, <2>1, DelaySame
  <2>3. ring.enqueued # <<>>
    <3> SUFFICES ASSUME ring.enqueued = <<>> PROVE FALSE
      OBVIOUS
    <3>1. ~InDriver(ring, ring.next)
      <4>1. Len(ring.enqueued) = 0
        OBVIOUS
      <4> QED BY <4>1 DEF InDriver
    <3>2. ring.next \in ring.finished
      BY <1>1, <1>3, <3>1 DEF BusyOk
    <3>3. ring.next = NextSlot(ring.next) /\ ring.next \in Slots
      BY <1>1, <3>2 DEF InTurn, RingType
    <3>4. Buffers \in Nat /\ Buffers > 1
      BY OutputConstants, OutputAssumption
    <3> QED BY <3>3, <3>4 DEF Slots, NextSlot
  <2>4. ring.started
    BY <1>1, <2>3, StartedWriting
  <2> QED BY <1>1, <1>3, <2>2, <2>3, <2>4 DEF StartInv
<1>4. CASE Return(FALSE) /\ ring' = ring
  <2>1. call'.at = "poll" /\ ~Writing'
    BY <1>4, ReturnPlace DEF Writing
  <2>2. DelayInv'
    BY <1>1, <1>4, <2>1, DelaySame
  <2>3. StartInv'
    BY <1>1, <1>4, <2>1, StartSame
  <2> QED BY <2>2, <2>3
<1> QED BY <1>2, <1>3, <1>4 DEF queue_claim

(* It fills the buffer, and takes or refuses it.                           *)
LEMMA QueueEnqueueStays ==
    ASSUME OutputInv, DelayInv, StartInv, queue_enqueue
    PROVE  DelayInv' /\ StartInv'
<1>1. /\ backend = "audioqueue" /\ call.at = "claimed" /\ Writing /\ ring \in RingType
      /\ UNCHANGED <<backend, pcm, counters, stuck>> /\ SubmitInv /\ BuffersInv
      /\ counters \in CountersType /\ BusyOk(ring, TRUE) /\ InTurn(ring)
      /\ ClaimedOk(ring)
  <2>1. BusyOk(ring, call.at = "claimed") /\ InTurn(ring) /\ call.at = "claimed"
    BY DEF queue_enqueue, DelayInv
  <2>2. BusyOk(ring, TRUE)
    BY <2>1 DEF BusyOk
  <2> QED BY <2>1, <2>2 DEF queue_enqueue, DelayInv, OutputInv, BuffersInv, Writing
<1>2. call'.at = "poll" /\ ~Writing'
  <2>1. Return(TRUE) \/ Return(FALSE)
    BY DEF queue_enqueue
  <2> QED BY <2>1, ReturnPlace DEF Writing
<1>3. ~InDriver(ring, ring.next) /\ ring.next \notin ring.finished
  BY <1>1 DEF ClaimedOk
<1>4. ASSUME BusyOk(ring', FALSE), InTurn(ring')
      PROVE  DelayInv'
  <2>1. BusyOk(ring', call'.at = "claimed")
    BY <1>2, <1>4 DEF BusyOk
  <2> QED BY <1>1, <1>4, <2>1, DelayNext
<1>5. ring.enqueued # <<>> => ring.started
  BY <1>1, StartedWriting
<1>6. CASE ring' = [Filled EXCEPT !.busy = @ \ {ring.next}]
  <2>1. PICK r : r = Filled
    OBVIOUS
  <2>2. /\ r \in RingType
        /\ r.next = ring.next /\ r.enqueued = ring.enqueued
        /\ r.finished = ring.finished /\ r.busy = ring.busy /\ r.started = ring.started
    BY <1>1, <1>3, <2>1, FilledOk
  <2>3. ring' = [r EXCEPT !.busy = @ \ {ring.next}]
    BY <1>6, <2>1
  <2>4. /\ ring'.next = ring.next /\ ring'.enqueued = ring.enqueued
        /\ ring'.finished = ring.finished /\ ring'.busy = ring.busy \ {ring.next}
        /\ ring'.started = ring.started
    BY ONLY <2>2, <2>3 DEF RingType
  <2>5. InTurn(ring')
    BY <1>1, <2>4, TurnKeeps
  <2>6. BusyOk(ring', FALSE)
    BY <1>1, <2>4 DEF BusyOk, InDriver
  <2>7. StartInv'
    BY <1>1, <1>2, <2>4, StartSame
  <2> QED BY <1>4, <2>5, <2>6, <2>7
<1>7. CASE ring' = [Filled EXCEPT !.enqueued = Append(@, ring.next), !.started = TRUE,
                                  !.next = NextSlot(@)]
  <2>1. ring' = [data |-> Filled.data, busy |-> ring.busy, next |-> NextSlot(ring.next),
                 enqueued |-> Append(ring.enqueued, ring.next), head |-> ring.head,
                 finished |-> ring.finished, started |-> TRUE]
    BY <1>1, <1>3, <1>7, FilledFields
  <2>2. /\ ring'.enqueued = Append(ring.enqueued, ring.next) /\ ring'.busy = ring.busy
        /\ ring'.finished = ring.finished /\ ring'.next = NextSlot(ring.next)
        /\ ring'.started
    BY ONLY <2>1
  <2>3. InTurn(ring') /\ BusyOk(ring', FALSE)
    BY <1>1, <1>5, <2>2, TurnAdds
  <2>4. StartInv'
    BY <1>1, <1>2, <2>2 DEF StartInv
  <2> QED BY <1>4, <2>3, <2>4
<1>8. CASE /\ ~ring.started /\ ring' = [Filled EXCEPT !.enqueued = Append(@, ring.next)]
           /\ Return(FALSE)
  <2>1. ring' = [data |-> Filled.data, busy |-> ring.busy, next |-> ring.next,
                 enqueued |-> Append(ring.enqueued, ring.next), head |-> ring.head,
                 finished |-> ring.finished, started |-> ring.started]
    BY <1>1, <1>3, <1>8, FilledFields
  <2>2. /\ ring'.enqueued = Append(ring.enqueued, ring.next) /\ ring'.busy = ring.busy
        /\ ring'.finished = ring.finished /\ ~ring'.started
    BY ONLY <1>8, <2>1
  <2>3. InTurn(ring') /\ BusyOk(ring', FALSE)
    BY <1>1, <1>5, <2>2, TurnAdds
  <2>4. stopping' /\ ring'.finished = {}
    BY <1>1, <1>8, <2>2 DEF Return, StartInv
  <2>5. StartInv'
    BY <1>1, <1>2, <2>2, <2>4 DEF StartInv
  <2> QED BY <1>4, <2>3, <2>5
<1> QED BY <1>6, <1>7, <1>8 DEF queue_enqueue

(* A callback frees a buffer.                                              *)
LEMMA CallbackStays ==
    ASSUME OutputInv, DelayInv, StartInv, NEW i \in Slots, buffer_finished(i), Queued' = Queued
    PROVE  DelayInv' /\ StartInv'
<1>1. /\ ring \in RingType /\ UNCHANGED <<backend, pcm, counters, call, stopping>>
      /\ counters \in CountersType
      /\ ring' = [ring EXCEPT !.busy = @ \ {i}, !.finished = @ \ {i}, !.data[i] = <<>>]
  BY DEF OutputInv, BuffersInv, buffer_finished, DelayInv
<1>2. /\ ring'.enqueued = ring.enqueued /\ ring'.next = ring.next
      /\ ring'.finished = ring.finished \ {i} /\ ring'.busy = ring.busy \ {i}
      /\ ring'.started = ring.started
  BY ONLY <1>1 DEF RingType
<1>3. Writing' = Writing
  BY <1>1 DEF Writing
<1>4. ASSUME backend = "audioqueue"
      PROVE  BusyOk(ring', call'.at = "claimed") /\ InTurn(ring')
  <2>1. PICK c : c = (call.at = "claimed") /\ c = (call'.at = "claimed")
    BY <1>1
  <2>2. BusyOk(ring, c) /\ InTurn(ring)
    BY <1>4, <2>1 DEF DelayInv
  <2>3. BusyOk(ring', c)
    BY <1>2, <2>2 DEF BusyOk, InDriver
  <2>4. InTurn(ring')
    BY <1>2, <2>2, TurnKeeps
  <2> QED BY <2>1, <2>3, <2>4
<1>5. backend = "waveout" => WaveOk(counters', Len(Queued'), Writing')
  BY <1>1, <1>3 DEF DelayInv
<1>6. backend = "alsa" /\ pcm'.state = "xrun" => pcm'.frames = <<>>
  BY <1>1 DEF DelayInv
<1>7. DelayInv'
  BY <1>1, <1>4, <1>5, <1>6, DelayNext
<1>8. StartInv'
  BY <1>1, <1>2, <1>3, StartSame
<1> QED BY <1>7, <1>8

(* A packet more is submitted.                                             *)
LEMMA WaveSubmits ==
    ASSUME NEW c \in CountersType, NEW n \in Nat, WaveOk(c, n, TRUE),
           NEW d, d = [c EXCEPT !.submitted = @ + F]
    PROVE  d \in CountersType /\ WaveOk(d, n + F, FALSE)
<1>1. PICK u \in AnyUnit, p \in Nat, l \in Nat, s \in Nat, q \in Nat, f \in Nat, b \in Nat :
         /\ u = c.unit /\ p = c.position /\ l = c.last_position /\ s = c.submitted
         /\ q = c.played /\ f = F /\ b = Buffers
  BY CountersFields, OutputConstants
<1>2. d = [unit |-> u, position |-> p, last_position |-> l, submitted |-> s + f, played |-> q]
  BY <1>1 DEF CountersType
<1>3. Lost(d) <=> Lost(c)
  BY <1>1, <1>2 DEF Lost
<1>4. PICK m \in Nat : m = MsFrames
  BY MsFramesIs
<1>5. PICK x \in Nat : x = b * f /\ (b + 1) * f = x + f
  BY <1>1
<1>6. ASSUME ~Lost(c)
      PROVE  l = q % PosRing /\ q <= Told(u, p) /\ (s + f) - q <= (b + 1) * f + m
  <2>1. l = q % PosRing /\ q <= Told(u, p) /\ s - q <= b * f + m
    BY <1>1, <1>4, <1>6 DEF WaveOk
  <2> QED BY <1>5, <2>1
<1>7. p + (n + f) = s + f /\ s + f \in Nat
  <2>1. p + n = s
    BY <1>1 DEF WaveOk
  <2> QED BY <2>1
<1>8. d \in CountersType
  BY <1>2, <1>7 DEF CountersType
<1> QED BY <1>1, <1>2, <1>3, <1>4, <1>6, <1>7, <1>8 DEF WaveOk

(* waveOut takes the next buffer, refuses it, or has it still.             *)
LEMMA WaveWriteStays ==
    ASSUME OutputInv, BuffersInv', DelayInv, StartInv, wave_write
    PROVE  DelayInv' /\ StartInv'
<1>1. /\ backend = "waveout" /\ call.at = "write" /\ Writing /\ ring \in RingType
      /\ UNCHANGED <<backend, pcm, stuck>> /\ SubmitInv /\ BuffersInv
      /\ counters \in CountersType /\ call \in CallType
      /\ WaveOk(counters, Len(Queued), TRUE)
  <2>1. WaveOk(counters, Len(Queued), Writing) /\ call.at = "write"
    BY DEF wave_write, DelayInv
  <2>2. WaveOk(counters, Len(Queued), TRUE)
    BY <2>1 DEF WaveOk, Writing
  <2> QED BY <2>1, <2>2 DEF wave_write, DelayInv, OutputInv, SubmitInv, BuffersInv, Writing
<1>2. ring.finished = {} /\ ring.enqueued \in Seq(Slots) /\ ring.next \in Slots
  BY <1>1 DEF BuffersInv, BuffersOk, RingType
<1>3. InQueue(ring.next) <=> InDriver(ring, ring.next)
  BY <1>2, RangeEquality DEF InQueue, InDriver
<1>4. ring.enqueued # <<>> => ring.started
  BY <1>1, StartedWriting
<1>5. CASE /\ ~InDriver(ring, ring.next) /\ Return(TRUE)
           /\ ring' = [Filled EXCEPT !.enqueued = Append(@, ring.next), !.started = TRUE,
                                     !.next = NextSlot(@)]
           /\ counters' = [counters EXCEPT !.submitted = @ + F]
  <2>1. ring.next \notin ring.finished
    BY <1>2
  <2>2. ring' = [data |-> Filled.data, busy |-> ring.busy, next |-> NextSlot(ring.next),
                 enqueued |-> Append(ring.enqueued, ring.next), head |-> ring.head,
                 finished |-> ring.finished, started |-> TRUE]
    BY <1>1, <1>5, <2>1, FilledFields
  <2>3. NextSlot(ring.next) \in Slots /\ TRUE \in BOOLEAN
    BY <1>2, OutputConstants
  <2>4. Added(ring, ring', NewFrames(F))
    BY <1>1, <1>5, <2>1, <2>2, <2>3, FilledAdds
  <2>5. Queued' = Queued \o NewFrames(F)
    BY <1>1, <2>4, AddedQueues
  <2>6. PICK n : n = Len(Queued)
    OBVIOUS
  <2>7. n \in Nat /\ Len(Queued') = n + F
    <3>1. NewFrames(F) \in Seq(Frame) /\ Len(NewFrames(F)) = F
      BY <1>1, NewFramesAre, OutputConstants
    <3>2. Queued \in Seq(Frame)
      BY <1>1, QueuedType
    <3>3. Len(Queued \o NewFrames(F)) = Len(Queued) + Len(NewFrames(F)) /\ Len(Queued) \in Nat
      BY <3>1, <3>2, ConcatProperties, LenProperties
    <3> QED BY <2>5, <2>6, <3>1, <3>3
  <2>8. WaveOk(counters, n, TRUE)
    BY <1>1, <2>6
  <2>9. counters' \in CountersType /\ WaveOk(counters', n + F, FALSE)
    BY ONLY <1>1, <1>5, <2>7, <2>8, WaveSubmits
  <2>10. call'.at = "poll" /\ ~Writing'
    BY <1>5, ReturnPlace DEF Writing
  <2>11. WaveOk(counters', Len(Queued'), Writing')
    BY <2>7, <2>9, <2>10 DEF WaveOk
  <2>12. DelayInv'
    BY <1>1, <2>9, <2>11, DelayNext
  <2>13. ring'.started
    BY ONLY <2>2
  <2>14. StartInv'
    BY <1>1, <2>10, <2>13 DEF StartInv
  <2> QED BY <2>12, <2>14
<1>6. ASSUME counters' = counters, Queued' = Queued
      PROVE  DelayInv'
  <2>1. WaveOk(counters', Len(Queued'), Writing')
    <3>1. TRUE \in BOOLEAN /\ Writing' \in BOOLEAN
      BY DEF Writing
    <3>2. WaveOk(counters, Len(Queued), Writing')
      BY <1>1, <3>1, WaveSlack
    <3> QED BY <1>6, <3>2
  <2> QED BY <1>1, <1>6, <2>1, DelayNext
<1>7. CASE /\ ~InDriver(ring, ring.next) /\ ring' = Filled /\ Return(FALSE)
           /\ UNCHANGED <<counters, accepted>>
  <2>1. ring.next \notin ring.finished
    BY <1>2
  <2>2. /\ ring'.next = ring.next /\ ring'.enqueued = ring.enqueued /\ ring'.head = ring.head
        /\ ring'.finished = ring.finished /\ ring'.started = ring.started
        /\ \A k \in 1 .. Len(ring.enqueued) :
              ring'.data[ring.enqueued[k]] = ring.data[ring.enqueued[k]]
    BY <1>1, <1>7, <2>1, FilledOk
  <2>3. Queued' = Queued
    <3>1. Kept(ring, ring')
      BY <2>2 DEF Kept
    <3> QED BY <1>1, <1>7, <3>1, DeviceKeeps DEF Untouched
  <2>4. call'.at = "poll"
    BY <1>7, ReturnPlace
  <2>5. StartInv'
    BY <1>1, <2>2, <2>4, StartSame
  <2> QED BY <1>6, <1>7, <2>3, <2>5
<1>8. CASE UNCHANGED <<ring, counters, accepted>> /\ Return(FALSE)
  <2>1. Queued' = Queued
    <3>1. Kept(ring, ring')
      BY <1>8 DEF Kept
    <3> QED BY <1>1, <1>8, <3>1, DeviceKeeps DEF Untouched
  <2>2. call'.at = "poll"
    BY <1>8, ReturnPlace
  <2>3. StartInv'
    BY <1>1, <1>8, <2>2, StartSame
  <2> QED BY <1>6, <1>8, <2>1, <2>3
<1>9. CASE /\ InDriver(ring, ring.next) /\ UNCHANGED <<ring, counters, accepted>>
           /\ Continue([call EXCEPT !.at = "wait"])
  <2>1. Queued' = Queued
    <3>1. Kept(ring, ring')
      BY <1>9 DEF Kept
    <3> QED BY <1>1, <1>9, <3>1, DeviceKeeps DEF Untouched
  <2>2. ring.enqueued # <<>>
    <3>1. Len(ring.enqueued) # 0
      BY <1>2, <1>9 DEF InDriver
    <3> QED BY <3>1
  <2>3. StartInv'
    BY <1>1, <1>4, <1>9, <2>2 DEF StartInv
  <2> QED BY <1>6, <1>9, <2>1, <2>3
<1> QED BY <1>3, <1>5, <1>7, <1>8, <1>9 DEF wave_write

(* The position moves on by a frame.                                       *)
LEMMA WavePlays ==
    ASSUME NEW c \in CountersType, NEW n \in Nat, n >= 1, NEW w \in BOOLEAN, WaveOk(c, n, w),
           NEW d, d = [c EXCEPT !.position = @ + 1]
    PROVE  d \in CountersType /\ WaveOk(d, n - 1, w) /\ (Lost(c) => Lost(d))
<1>1. PICK u \in AnyUnit, p \in Nat, l \in Nat, s \in Nat, q \in Nat :
         /\ u = c.unit /\ p = c.position /\ l = c.last_position /\ s = c.submitted
         /\ q = c.played
  BY CountersFields
<1>2. d = [unit |-> u, position |-> p + 1, last_position |-> l, submitted |-> s, played |-> q]
  BY <1>1 DEF CountersType
<1>3. d \in CountersType
  BY <1>2 DEF CountersType
<1>4. PICK x \in Nat, y \in Nat, e \in Nat, f \in Nat :
         /\ x = Told(u, p) /\ y = Told(u, p + 1) /\ x <= y
         /\ e = Elapsed(u, p) /\ f = Elapsed(u, p + 1) /\ e <= f
  <2>1. p + 1 \in Nat
    OBVIOUS
  <2> QED BY <2>1, ToldGrows, ToldNear
<1>5. Lost(c) => Lost(d)
  BY <1>1, <1>2, <1>4, UnitConstants DEF Lost
<1>6. (p + 1) + (n - 1) = s
  <2>1. p + n = s
    BY <1>1 DEF WaveOk
  <2> QED BY <2>1
<1>7. ASSUME ~Lost(c)
      PROVE  /\ l = q % PosRing /\ q <= y
             /\ s - q <= (IF w THEN Buffers ELSE Buffers + 1) * F + MsFrames
  <2>1. /\ l = q % PosRing /\ q <= x
        /\ s - q <= (IF w THEN Buffers ELSE Buffers + 1) * F + MsFrames
    BY <1>1, <1>4, <1>7 DEF WaveOk
  <2> QED BY <1>4, <2>1
<1> QED BY <1>2, <1>3, <1>4, <1>5, <1>6, <1>7 DEF WaveOk

(* The place of a call after a tick.                                       *)
LEMMA TickCall ==
    ASSUME SubmitInv, Tick
    PROVE  /\ call.at # "claimed" /\ call'.at \notin {"claimed", "wait"}
           /\ call'.due = call.due /\ call'.written = call.written
           /\ Writing' <=> call.at = "wait"
           /\ Writing <=> call.at = "wait"
           /\ UNCHANGED <<backend, stopping>> /\ now' = now + 1
<1>1. /\ UNCHANGED <<backend, stopping>> /\ now' = now + 1 /\ call \in CallType
      /\ call.at \in {"closed", "poll", "wait"}
      /\ call' = IF call.at = "wait" THEN [call EXCEPT !.at = "woken"] ELSE call
  BY DEF Tick, SubmitInv
<1>2. CASE call.at = "wait"
  <2>1. call' = [call EXCEPT !.at = "woken"] /\ "woken" \in CallPlaces
    BY <1>1, <1>2 DEF CallPlaces
  <2>2. call'.at = "woken" /\ call'.due = call.due /\ call'.written = call.written
    BY <1>1, <2>1, CallMoves
  <2> QED BY <1>1, <1>2, <2>2 DEF Writing
<1>3. CASE call.at # "wait"
  BY <1>1, <1>3 DEF Writing
<1> QED BY <1>2, <1>3

(* A frame of AudioQueue is played.                                        *)
LEMMA QueuePlays ==
    ASSUME BuffersInv, backend = "audioqueue", Playing, PlayFrame, BusyOk(ring, FALSE),
           InTurn(ring)
    PROVE  BusyOk(ring', FALSE) /\ InTurn(ring') /\ ring'.started
<1>1. ring \in RingType /\ BuffersOk(ring, backend) /\ ring.started
  BY DEF BuffersInv, Playing
<1>2. ring.enqueued # <<>>
  <2> SUFFICES ASSUME ring.enqueued = <<>> PROVE FALSE
    OBVIOUS
  <2>1. ring.head = 0
    BY <1>1 DEF BuffersOk
  <2>2. Shown(ring) = <<>>
    BY <1>1, <2>1, NoneShown
  <2> QED BY <2>2, QueuedIs DEF Playing
<1>3. PICK b, t, e : b = Head(ring.enqueued) /\ t = Tail(ring.enqueued) /\ e = {b}
  OBVIOUS
<1>4. CASE EndsBuffer
  <2>1. ring.finished = {}
    BY <1>4 DEF PlayFrame
  <2>2. b \in Slots /\ HeadBuffer = b
    <3>1. ring.enqueued \in Seq(Slots)
      BY <1>1 DEF RingType
    <3> QED BY <1>2, <1>3, <3>1 DEF HeadBuffer
  <2>3. PICK x : x = ring.data[b]
    OBVIOUS
  <2>4. ring' = [ring EXCEPT !.enqueued = t, !.head = 0, !.finished = e, !.data[b] = x]
    <3>1. ring' = [ring EXCEPT !.enqueued = Tail(@), !.head = 0,
                     !.finished = IF backend = "audioqueue" THEN {HeadBuffer} ELSE {},
                     !.data[HeadBuffer] = IF backend = "audioqueue" THEN @ ELSE <<>>]
      BY <1>4 DEF PlayFrame
    <3> QED BY <1>1, <1>3, <2>2, <2>3, <3>1 DEF RingType
  <2>5. /\ ring'.enqueued = t /\ ring'.finished = e /\ ring'.next = ring.next
        /\ ring'.busy = ring.busy /\ ring'.started = ring.started
    <3>1. PICK r, q : r = ring /\ q = ring'
      OBVIOUS
    <3>2. r \in RingType /\ b \in Slots
      BY <1>1, <2>2, <3>1
    <3>3. q = [r EXCEPT !.enqueued = t, !.head = 0, !.finished = e, !.data[b] = x]
      BY <2>4, <3>1
    <3>4. /\ q.enqueued = t /\ q.finished = e /\ q.next = r.next /\ q.busy = r.busy
          /\ q.started = r.started
      BY ONLY <3>2, <3>3 DEF RingType
    <3> QED BY ONLY <3>1, <3>4
  <2>6. InTurn(ring') /\ BusyOk(ring', FALSE)
    BY <1>1, <1>2, <1>3, <2>1, <2>5, TurnPlays
  <2> QED BY <1>1, <2>5, <2>6
<1>5. CASE ~EndsBuffer
  <2>1. ring' = [ring EXCEPT !.head = @ + 1]
    BY <1>5 DEF PlayFrame
  <2>2. /\ ring'.enqueued = ring.enqueued /\ ring'.finished = ring.finished
        /\ ring'.next = ring.next /\ ring'.busy = ring.busy /\ ring'.started = ring.started
    BY ONLY <1>1, <2>1 DEF RingType
  <2>3. InTurn(ring')
    BY <2>2, TurnKeeps
  <2>4. BusyOk(ring', FALSE)
    BY <2>2 DEF BusyOk, InDriver
  <2> QED BY <1>1, <2>2, <2>3, <2>4
<1> QED BY <1>4, <1>5

(* So is one of waveOut.                                                   *)
LEMMA RingStaysStarted ==
    ASSUME BuffersInv, backend = "waveout", Playing, PlayFrame
    PROVE  ring'.started
<1>1. ring \in RingType /\ BuffersOk(ring, backend) /\ ring.started
  BY DEF BuffersInv, Playing
<1>2. ring.enqueued # <<>>
  <2> SUFFICES ASSUME ring.enqueued = <<>> PROVE FALSE
    OBVIOUS
  <2>1. ring.head = 0
    BY <1>1 DEF BuffersOk
  <2>2. Shown(ring) = <<>>
    BY <1>1, <2>1, NoneShown
  <2> QED BY <2>2, QueuedIs DEF Playing
<1>3. CASE EndsBuffer
  <2>1. PICK b, t, e : b = HeadBuffer /\ t = Tail(ring.enqueued) /\ e = {}
    OBVIOUS
  <2>2. b \in Slots
    <3>1. ring.enqueued \in Seq(Slots)
      BY <1>1 DEF RingType
    <3> QED BY <1>2, <2>1, <3>1 DEF HeadBuffer
  <2>3. PICK x : x = <<>>
    OBVIOUS
  <2>4. ring' = [ring EXCEPT !.enqueued = t, !.head = 0, !.finished = e, !.data[b] = x]
    <3>1. ring' = [ring EXCEPT !.enqueued = Tail(@), !.head = 0,
                     !.finished = IF backend = "audioqueue" THEN {HeadBuffer} ELSE {},
                     !.data[HeadBuffer] = IF backend = "audioqueue" THEN @ ELSE <<>>]
      BY <1>3 DEF PlayFrame
    <3> QED BY <1>1, <2>1, <2>2, <2>3, <3>1 DEF RingType
  <2>5. ring'.started = ring.started
    BY ONLY <1>1, <2>2, <2>4 DEF RingType
  <2> QED BY <1>1, <2>5
<1>4. CASE ~EndsBuffer
  <2>1. ring' = [ring EXCEPT !.head = @ + 1]
    BY <1>4 DEF PlayFrame
  <2>2. ring'.started = ring.started
    BY ONLY <1>1, <2>1 DEF RingType
  <2> QED BY <1>1, <2>2
<1> QED BY <1>3, <1>4

(* Time passes.                                                            *)
LEMMA TickStays ==
    ASSUME OutputInv, DelayInv, StartInv, Tick,
           Playing => Queued # <<>> /\ Queued' = Tail(Queued),
           ~Playing => Queued' = Queued
    PROVE  DelayInv' /\ StartInv'
<1>1. /\ call.at # "claimed" /\ call'.at \notin {"claimed", "wait"}
      /\ (Writing' <=> call.at = "wait") /\ (Writing <=> call.at = "wait")
      /\ UNCHANGED <<backend, stopping>>
  BY TickCall DEF OutputInv
<1>2. BuffersInv /\ counters \in CountersType
  BY DEF OutputInv, DelayInv
<1>3. CASE ~Playing
  <2>1. UNCHANGED <<pcm, ring, counters, stuck>>
    BY <1>3 DEF Tick, device
  <2>2. DelayInv'
    BY <1>1, <1>3, <2>1, DelaySame
  <2>3. StartInv'
    BY <1>1, <2>1, StartSame
  <2> QED BY <2>2, <2>3
<1>4. CASE Playing
  <2>1. PlayFrame
    BY <1>4 DEF Tick
  <2>2. CASE backend \in {"alsa", "board"}
    <3>1. counters' = counters /\ ring' = ring
      BY <2>1, <2>2 DEF PlayFrame
    <3>2. ASSUME backend = "alsa", pcm'.state = "xrun"
          PROVE  pcm'.frames = <<>>
      <4>1. pcm.frames # <<>> /\ pcm.frames \in Seq(Frame)
        BY <1>2, <1>4, <3>2, QueuedIs DEF Playing, BuffersInv, PcmType
      <4>2. pcm.state # "xrun"
        BY <3>2, <4>1 DEF DelayInv
      <4>3. pcm' = [frames |-> Tail(pcm.frames),
                    state |-> IF backend = "alsa" /\ Len(pcm.frames) = 1 THEN "xrun"
                              ELSE pcm.state]
        BY <2>1, <2>2 DEF PlayFrame
      <4>4. Len(pcm.frames) = 1 /\ pcm'.frames = Tail(pcm.frames)
        BY <3>2, <4>2, <4>3
      <4>5. PICK t : t = Tail(pcm.frames)
        OBVIOUS
      <4>6. t \in Seq(Frame) /\ Len(t) = Len(pcm.frames) - 1
        BY <4>1, <4>5, HeadTailProperties
      <4>7. t = <<>>
        BY <4>4, <4>6, EmptySeq
      <4> QED BY <4>4, <4>5, <4>7
    <3>3. DelayInv'
      BY <1>1, <2>2, <3>1, <3>2, DelayPcm
    <3>4. StartInv'
      BY <1>1, <2>2, <3>1 DEF StartInv
    <3> QED BY <3>3, <3>4
  <2>3. CASE backend = "audioqueue"
    <3>1. counters' = counters
      BY <2>1, <2>3 DEF PlayFrame
    <3>2. BusyOk(ring, FALSE) /\ InTurn(ring)
      <4>1. BusyOk(ring, call.at = "claimed") /\ InTurn(ring)
        BY <2>3 DEF DelayInv
      <4> QED BY <1>1, <4>1 DEF BusyOk
    <3>3. BusyOk(ring', FALSE) /\ InTurn(ring') /\ ring'.started
      BY <1>2, <1>4, <2>1, <2>3, <3>2, QueuePlays
    <3>4. BusyOk(ring', call'.at = "claimed")
      BY <1>1, <3>3 DEF BusyOk
    <3>5. DelayInv'
      BY <1>1, <1>2, <2>3, <3>1, <3>3, <3>4, DelayNext
    <3>6. StartInv'
      BY <1>1, <2>3, <3>3 DEF StartInv
    <3> QED BY <3>5, <3>6
  <2>4. CASE backend = "waveout"
    <3>1. counters' = [counters EXCEPT !.position = @ + 1]
      BY <2>1, <2>4 DEF PlayFrame
    <3>2. PICK n, w : n = Len(Queued) /\ w = Writing /\ w = Writing'
      BY <1>1 DEF Writing
    <3>3. n \in Nat /\ n >= 1 /\ Len(Queued') = n - 1
      <4>1. Queued \in Seq(Frame) /\ Queued # <<>> /\ Queued' = Tail(Queued)
        BY <1>2, <1>4, QueuedType
      <4> QED BY <3>2, <4>1, HeadTailProperties
    <3>4. w \in BOOLEAN /\ WaveOk(counters, n, w)
      BY <2>4, <3>2 DEF DelayInv, Writing
    <3>5. counters' \in CountersType /\ WaveOk(counters', n - 1, w)
      BY ONLY <1>2, <3>1, <3>3, <3>4, WavePlays
    <3>6. WaveOk(counters', Len(Queued'), Writing')
      BY <3>2, <3>3, <3>5
    <3>7. DelayInv'
      BY <1>1, <2>4, <3>5, <3>6, DelayNext
    <3>8. ring'.started
      BY <1>2, <1>4, <2>1, <2>4, RingStaysStarted
    <3>9. StartInv'
      BY <1>1, <2>4, <3>8 DEF StartInv
    <3> QED BY <3>7, <3>9
  <2> QED BY <1>2, <2>2, <2>3, <2>4, OutputAssumption DEF OutputInv, ClockTypes
<1> QED BY <1>3, <1>4

(* Every step leaves the delay that the driver reports near what it holds. *)
LEMMA DelayStays ==
    ASSUME OutputInv, OutputInv', DelayInv, StartInv, [OutputNext]_outputVars
    PROVE  DelayInv' /\ StartInv'
<1>1. SubmitInv /\ BuffersInv /\ BuffersInv'
  BY DEF OutputInv
<1>2. CASE \/ DelayFails \/ Stall \/ Sync \/ StopRequest \/ Ended
           \/ \E p \in 1 .. Packets[backend] : Arrive(p)
           \/ UNCHANGED outputVars
  <2>1. Queued' = Queued
    BY <1>1, <1>2, PollsUntouched DEF Untouched, Ended
  <2>2. /\ UNCHANGED <<backend, pcm, ring, counters, call>> /\ (stopping => stopping')
    BY <1>2 DEF DelayFails, Stall, Sync, StopRequest, Ended, Arrive, device, outputVars
  <2>3. Writing' <=> Writing
    BY <2>2 DEF Writing
  <2>4. DelayInv'
    BY <2>1, <2>2, <2>3, DelaySame
  <2>5. StartInv'
    BY <2>2, <2>3, StartSame
  <2> QED BY <2>4, <2>5
<1>3. CASE TooEarly \/ DropPacket \/ Submit
  <2>1. Queued' = Queued
    BY <1>1, <1>3, PollsUntouched DEF Untouched
  <2>2. MeasureDelay /\ backend' = backend /\ call.at = "poll" /\ ~stopping
    BY <1>3 DEF TooEarly, DropPacket, Submit, Looked
  <2>3. DelayInv'
    BY <2>1, <2>2, DelayMeasured
  <2>4. ring' = ring /\ call'.at # "wait"
    BY <1>3, <2>2 DEF TooEarly, DropPacket, Submit, MeasureDelay
  <2>5. StartInv'
    BY <2>2, <2>4, StartSame
  <2> QED BY <2>3, <2>5
<1>4. CASE alsa_write \/ alsa_wait \/ board_write
  <2>1. DelayInv'
    BY <1>4, DelayAlsa
  <2>2. backend \in {"alsa", "board"} /\ backend' = backend
    BY <1>4 DEF alsa_write, alsa_wait, board_write
  <2>3. backend = "board" => call'.at = "poll"
    <3> SUFFICES ASSUME backend = "board" PROVE call'.at = "poll"
      OBVIOUS
    <3>1. Return(TRUE) \/ Return(FALSE)
      BY <1>4 DEF alsa_write, alsa_wait, board_write
    <3> QED BY <3>1, ReturnPlace
  <2>4. StartInv'
    BY <2>2, <2>3 DEF StartInv
  <2> QED BY <2>1, <2>4
<1>5. CASE queue_claim
  <2>1. Queued' = Queued
    <3>1. BuffersInv' /\ Kept(ring, ring') /\ UNCHANGED <<backend, pcm, accepted>>
      BY <1>1, <1>5, QueueClaims DEF queue_claim
    <3> QED BY <1>1, <3>1, DeviceKeeps DEF Untouched
  <2> QED BY <1>5, <2>1, QueueClaimStays
<1>6. CASE queue_enqueue
  BY <1>6, QueueEnqueueStays
<1>7. CASE wave_write
  BY <1>1, <1>7, WaveWriteStays
<1>8. CASE Wake
  <2>1. Queued' = Queued
    BY <1>1, <1>8, WakeUntouched DEF Untouched
  <2>2. /\ UNCHANGED <<backend, pcm, ring, counters, stopping>> /\ call'.at = "write"
        /\ Writing /\ Writing' /\ call.at # "claimed"
    BY <1>1, <1>8, CallMoves DEF Wake, device, SubmitInv, CallPlaces, Writing
  <2>3. DelayInv'
    BY <2>1, <2>2, DelaySame
  <2>4. StartInv'
    BY <2>2, StartSame
  <2> QED BY <2>3, <2>4
<1>9. CASE \E i \in Slots : buffer_finished(i)
  <2>1. PICK i \in Slots : buffer_finished(i)
    BY <1>9
  <2>2. Queued' = Queued
    BY <1>1, <2>1, CallbackKeeps DEF Untouched
  <2> QED BY <2>1, <2>2, CallbackStays
<1>10. CASE Tick
  <2>1. call'.at # "claimed" /\ backend' = backend
    BY <1>1, <1>10, TickCall
  <2>2. Playing => Queued # <<>> /\ Queued' = Tail(Queued)
    BY <1>1, <1>10, <2>1, PlaysFrame DEF Tick
  <2>3. ~Playing => Queued' = Queued
    <3> SUFFICES ASSUME ~Playing PROVE Queued' = Queued
      OBVIOUS
    <3>1. UNCHANGED <<pcm, ring, accepted>>
      BY <1>10 DEF Tick, device
    <3>2. Kept(ring, ring')
      BY <3>1 DEF Kept
    <3> QED BY <1>1, <2>1, <3>1, <3>2, DeviceKeeps DEF Untouched
  <2> QED BY <1>10, <2>2, <2>3, TickStays
<1>11. CASE alsa_open \/ queue_open \/ wave_open \/ board_open \/ close_audio
  <2>1. Queued' = <<>>
    BY <1>1, <1>11, OpenCloseDevice
  <2>2. PICK u \in AnyUnit : FreshDevice(u) /\ backend' = backend
    BY <1>11, UnitConstants DEF AnyUnit, alsa_open, queue_open, wave_open, board_open, Open,
       close_audio, alsa_close, queue_close, wave_close, board_close, Close
  <2>3. DelayInv'
    BY <2>1, <2>2, DelayFresh
  <2>4. ring'.enqueued = <<>> /\ ring'.finished = {} /\ ring'.started = FALSE
    BY <2>2 DEF FreshDevice, FreshRing
  <2>5. call'.at # "wait"
    <3>1. CASE call' = call /\ call.at = "closed"
      BY <3>1
    <3>2. CASE call' = NoCall \/ call' = [NoCall EXCEPT !.at = "closed"]
      BY <3>2, NoCallType
    <3> QED BY <1>11, <3>1, <3>2 DEF alsa_open, queue_open, wave_open, board_open, Open,
           close_audio, alsa_close, queue_close, wave_close, board_close, Close
  <2>6. StartInv'
    BY <2>4, <2>5 DEF StartInv
  <2> QED BY <2>3, <2>6
<1> QED BY <1>2, <1>3, <1>4, <1>5, <1>6, <1>7, <1>8, <1>9, <1>10, <1>11 DEF OutputNext, audio_write

----------------------------------------------------------------------------
(* What is queued is heard when it is due.                                 *)

(* A packet is submitted when what the driver holds brings it within the   *)
(* margins of its deadline.                                                *)
LEMMA DueSubmits ==
    ASSUME OutputInv, DelayInv, DueOk, ~PositionLost, Overcount' = Overcount, Submit
    PROVE  DueOk'
<1>1. /\ SubmitInv /\ BuffersInv /\ ClockTypes /\ call.at = "poll" /\ queue # {}
      /\ UNCHANGED <<backend, now>>
      /\ call' = [at |-> "write", packet |-> HeadPacket, due |-> Deadline(HeadPacket),
                  written |-> 0, since |-> now, attempts |-> 0]
      /\ SubmitMargin \in -LateLimit .. Margin /\ ring' = ring /\ stuck' = stuck
  BY DEF OutputInv, Submit, Looked, MeasureDelay
<1>2. Queued' = Queued
  BY <1>1, PollsUntouched DEF Untouched
<1>3. HeadPacket \in Nat
  BY <1>1, HeadIsFirst DEF SubmitInv
<1>4. PICK d \in Int : d = Deadline(HeadPacket)
  BY <1>1, <1>3, DeadlineType
<1>5. PICK n \in Nat, o \in Nat, f \in Int :
         n = Len(Queued) /\ o = Overcount /\ f = DelayFrames /\ f - n \in 0 .. o
  BY <1>1, DelayNear
<1>6. PICK t \in Nat, l \in Nat, m \in Nat : t = now /\ l = LateLimit /\ m = Margin
  BY <1>1, DueConstants
<1>7. d - t - f \in -l .. m
  BY <1>1, <1>4, <1>5, <1>6 DEF SubmitMargin
<1>8. t + n - d \in -(m + o) .. l
  BY <1>5, <1>6, <1>7
<1>9. InTime(n, d)
  BY <1>5, <1>6, <1>8 DEF InTime
<1>10. call'.due = d /\ call'.written = 0 /\ d + 0 = d
  BY <1>1, <1>4
<1>11. InTime(n, d)'
  BY <1>1, <1>6, <1>9, InTimeMoves
<1>12. ASSUME Live', NEW i \in 1 .. Len(Queued)
       PROVE  InTime(i - 1, Queued[i].due)'
  <2>1. Queued \in Seq(Frame)
    BY <1>1, QueuedType
  <2>2. PICK e \in Int : e = Queued[i].due /\ e = Queued'[i].due
    BY <1>2, <2>1, DueType
  <2>3. Live
    BY <1>1, <1>12 DEF Live
  <2>4. InTime(i - 1, e)
    BY <2>2, <2>3 DEF DueOk
  <2>5. i - 1 \in Int
    BY <1>5
  <2>6. InTime(i - 1, e)'
    BY <1>1, <1>6, <2>4, <2>5, InTimeMoves
  <2> QED BY <2>2, <2>6
<1> QED BY <1>2, <1>5, <1>10, <1>11, <1>12 DEF DueOk

(* The loop of ALSA goes on with the same frames.                          *)
LEMMA LoopFrames ==
    ASSUME NEW c \in CallType, LoopTest(c)
    PROVE  Writing' => call'.due = c.due /\ call'.written = c.written
<1>1. CASE Return(TRUE) \/ Return(FALSE)
  BY <1>1, ReturnPlace DEF Writing
<1>2. CASE Continue([c EXCEPT !.at = "write", !.attempts = @ + 1])
  <2>1. PICK e, n : e = [c EXCEPT !.at = "write"] /\ n = c.attempts + 1
    OBVIOUS
  <2>2. call' = [e EXCEPT !.attempts = n] /\ n \in Nat
    BY <1>2, <2>1 DEF CallType, Continue
  <2>3. e \in CallType /\ e.due = c.due /\ e.written = c.written
    BY <2>1, CallMoves DEF CallPlaces
  <2>4. call'.due = c.due /\ call'.written = c.written
    BY ONLY <2>2, <2>3, CallCounts
  <2> QED BY <2>4
<1> QED BY <1>1, <1>2 DEF LoopTest

(* A write goes on with the same frames, or ends.                          *)
LEMMA SameFrames ==
    ASSUME call \in CallType,
           \/ LoopTest(call) \/ Return(TRUE) \/ Return(FALSE)
           \/ Continue([call EXCEPT !.at = "wait"]) \/ Continue([call EXCEPT !.at = "claimed"])
           \/ Continue([call EXCEPT !.at = "wait", !.attempts = @ + 1])
    PROVE  Writing' => call'.due = call.due /\ call'.written = call.written
<1>1. CASE LoopTest(call)
  BY <1>1, LoopFrames
<1>2. CASE Return(TRUE) \/ Return(FALSE)
  BY <1>2, ReturnPlace DEF Writing
<1>3. CASE Continue([call EXCEPT !.at = "wait"]) \/ Continue([call EXCEPT !.at = "claimed"])
  BY <1>3, CallMoves DEF Continue, CallPlaces
<1>4. CASE Continue([call EXCEPT !.at = "wait", !.attempts = @ + 1])
  BY <1>4 DEF Continue, CallType
<1> QED BY <1>1, <1>2, <1>3, <1>4

(* ALSA and the board.                                                     *)
LEMMA DuePcm ==
    ASSUME OutputInv, DelayInv, DueOk, Overcount' = Overcount,
           alsa_write \/ alsa_wait \/ board_write
    PROVE  DueOk'
<1>1. /\ SubmitInv /\ BuffersInv /\ call \in CallType /\ pcm \in PcmType /\ Writing
      /\ backend \in {"alsa", "board"} /\ UNCHANGED <<backend, now, stuck, ring>>
  BY DEF alsa_write, alsa_wait, board_write, OutputInv, SubmitInv, BuffersInv, Writing, device
<1>2. Live' => Live
  BY <1>1 DEF Live
<1>3. Queued' = pcm'.frames /\ Queued = pcm.frames
  BY <1>1 DEF Queued
<1>4. ASSUME pcm'.frames = pcm.frames,
             LoopTest(call) \/ Return(FALSE) \/ Continue([call EXCEPT !.at = "wait"])
      PROVE  DueOk'
  <2>1. Writing' => call'.due = call.due /\ call'.written = call.written
    BY <1>1, <1>4, SameFrames
  <2> QED BY <1>1, <1>2, <1>3, <1>4, <2>1, DueSame
<1>5. CASE writei_accepts
  <2>1. PICK n \in 1 .. Min({Room, Left(call)}) :
            /\ pcm' = [state |-> "running", frames |-> pcm.frames \o NewFrames(n)]
            /\ LoopTest([call EXCEPT !.written = @ + n])
    BY <1>5 DEF writei_accepts
  <2>2. n \in Nat /\ n >= 1
    BY <1>1, TakenBounds
  <2>3. Queued' = Queued \o NewFrames(n)
    BY <1>3, <2>1
  <2>4. PICK w \in Nat : w = call.written + n
    BY <1>1, <2>2 DEF CallType
  <2>5. PICK c : c = [call EXCEPT !.written = w]
    OBVIOUS
  <2>6. c \in CallType /\ c.due = call.due /\ c.written = w
    BY ONLY <1>1, <2>4, <2>5, CallAdvances
  <2>7. LoopTest(c)
    BY <2>1, <2>4, <2>5
  <2>8. Writing' => call'.due = c.due /\ call'.written = c.written
    BY <2>6, <2>7, LoopFrames
  <2> QED BY <1>1, <1>2, <2>2, <2>3, <2>4, <2>6, <2>8, DueAdds
<1>6. CASE backend = "alsa" /\ writei_underrun
  <2>1. pcm'.frames = pcm.frames
    <3>1. CASE pcm' = FreshPcm /\ backend = "alsa"
      <4>1. pcm.frames = <<>>
        BY <1>6, <3>1 DEF DelayInv, writei_underrun
      <4> QED BY <3>1, <4>1 DEF FreshPcm
    <3>2. CASE pcm' = pcm
      BY <3>2
    <3> QED BY <1>6, <3>1, <3>2 DEF writei_underrun
  <2> QED BY <1>4, <1>6, <2>1 DEF writei_underrun
<1>7. CASE board_write
  <2>1. CASE pcm' = [pcm EXCEPT !.frames = @ \o NewFrames(F)] /\ Return(TRUE)
    <3>1. pcm'.frames = pcm.frames \o NewFrames(F)
      BY <1>1, <2>1 DEF PcmType
    <3>2. Queued' = Queued \o NewFrames(F)
      BY <1>3, <3>1
    <3>3. ~Writing'
      BY <2>1, ReturnPlace DEF Writing
    <3>4. F \in Nat /\ F >= 1
      BY OutputConstants
    <3> QED BY <1>1, <1>2, <3>2, <3>3, <3>4, DueAdds
  <2>2. CASE pcm' = pcm /\ Return(FALSE)
    BY <1>4, <2>2
  <2> QED BY <1>7, <2>1, <2>2 DEF board_write
<1>8. CASE alsa_wait
  BY <1>4, <1>8 DEF alsa_wait, device
<1>9. CASE alsa_write
  BY <1>4, <1>5, <1>6, <1>9 DEF alsa_write, writei_waits, writei_fails
<1> QED BY <1>7, <1>8, <1>9

(* What a write does to the ring.                                          *)
LEMMA QueueRing ==
    ASSUME OutputInv, queue_claim \/ queue_enqueue \/ wave_write
    PROVE  \/ ring' = ring
           \/ ring' = [ring EXCEPT !.busy = @ \cup {ring.next}]
           \/ /\ ~InDriver(ring, ring.next) /\ ring.next \notin ring.finished
              /\ \/ ring' = Filled
                 \/ ring' = [Filled EXCEPT !.busy = @ \ {ring.next}]
                 \/ ring' = [Filled EXCEPT !.enqueued = Append(@, ring.next), !.started = TRUE,
                                           !.next = NextSlot(@)]
                 \/ ring' = [Filled EXCEPT !.enqueued = Append(@, ring.next)]
<1>1. ring \in RingType /\ BuffersInv
  BY DEF OutputInv, BuffersInv
<1>2. CASE queue_claim
  BY <1>2 DEF queue_claim
<1>3. CASE queue_enqueue
  <2>1. ~InDriver(ring, ring.next) /\ ring.next \notin ring.finished
    BY <1>1, <1>3 DEF BuffersInv, ClaimedOk, queue_enqueue
  <2> QED BY <1>3, <2>1 DEF queue_enqueue
<1>4. CASE wave_write
  <2>1. ring.finished = {} /\ ring.enqueued \in Seq(Slots)
    BY <1>1, <1>4 DEF BuffersInv, BuffersOk, RingType, wave_write
  <2>2. InQueue(ring.next) <=> InDriver(ring, ring.next)
    BY <2>1, RangeEquality DEF InQueue, InDriver
  <2> QED BY <1>4, <2>1, <2>2 DEF wave_write
<1> QED BY <1>2, <1>3, <1>4

(* AudioQueue and waveOut are started with a buffer.                       *)
LEMMA RingStarts ==
    ASSUME OutputInv, queue_claim \/ queue_enqueue \/ wave_write,
           ring'.enqueued = ring.enqueued
    PROVE  ring'.started = ring.started
<1>1. ring \in RingType /\ SubmitInv /\ BuffersInv
  BY DEF OutputInv, BuffersInv
<1>2. PICK e, x : e = ring.enqueued /\ x = ring.next
  OBVIOUS
<1>3. Append(e, x) # e
  <2>1. e \in Seq(Slots) /\ x \in Slots
    BY <1>1, <1>2 DEF RingType
  <2>2. Len(Append(e, x)) = Len(e) + 1 /\ Len(e) \in Nat
    BY ONLY <2>1
  <2> QED BY <2>2
<1>4. CASE ring' = ring
  BY <1>4
<1>5. CASE ring' = [ring EXCEPT !.busy = @ \cup {ring.next}]
  BY <1>1, <1>5 DEF RingType
<1>6. CASE ~InDriver(ring, ring.next) /\ ring.next \notin ring.finished
  <2>1. PICK r : r = Filled
    OBVIOUS
  <2>2. r \in RingType /\ r.started = ring.started /\ r.enqueued = ring.enqueued
    BY <1>1, <1>6, <2>1, FilledOk
  <2>3. CASE ring' = Filled
    BY <2>1, <2>2, <2>3
  <2>4. CASE ring' = [Filled EXCEPT !.busy = @ \ {ring.next}]
    <3>1. ring' = [r EXCEPT !.busy = @ \ {ring.next}]
      BY <2>1, <2>4
    <3>2. ring'.started = r.started
      BY ONLY <2>2, <3>1 DEF RingType
    <3> QED BY <2>2, <3>2
  <2>5. CASE \/ ring' = [Filled EXCEPT !.enqueued = Append(@, ring.next), !.started = TRUE,
                                       !.next = NextSlot(@)]
             \/ ring' = [Filled EXCEPT !.enqueued = Append(@, ring.next)]
    <3>1. ring'.enqueued = Append(ring.enqueued, ring.next)
      <4>1. \/ ring' = [data |-> Filled.data, busy |-> ring.busy, next |-> NextSlot(ring.next),
                       enqueued |-> Append(ring.enqueued, ring.next), head |-> ring.head,
                       finished |-> ring.finished, started |-> TRUE]
            \/ ring' = [data |-> Filled.data, busy |-> ring.busy, next |-> ring.next,
                       enqueued |-> Append(ring.enqueued, ring.next), head |-> ring.head,
                       finished |-> ring.finished, started |-> ring.started]
        BY <1>1, <1>6, <2>5, FilledFields
      <4> QED BY ONLY <4>1
    <3> QED BY <1>2, <1>3, <3>1
  <2> QED BY <1>4, <1>5, <2>3, <2>4, <2>5, QueueRing
<1> QED BY <1>4, <1>5, <1>6, QueueRing

(* AudioQueue and waveOut.                                                 *)
LEMMA DueRing ==
    ASSUME OutputInv, OutputInv', StartInv, DueOk, Overcount' = Overcount,
           queue_claim \/ queue_enqueue \/ wave_write
    PROVE  DueOk'
<1>1. /\ SubmitInv /\ BuffersInv /\ BuffersInv' /\ call \in CallType /\ Writing
      /\ backend \in {"audioqueue", "waveout"} /\ UNCHANGED <<backend, now, stuck, pcm>>
  BY DEF queue_claim, queue_enqueue, wave_write, OutputInv, SubmitInv, Writing
<1>2. \/ Kept(ring, ring') /\ accepted' = accepted
      \/ Added(ring, ring', NewFrames(F))
  <2>1. CASE queue_claim
    BY <1>1, <2>1, QueueClaims
  <2>2. CASE queue_enqueue
    BY <1>1, <2>2, QueueEnqueues
  <2>3. CASE wave_write
    BY <1>1, <2>3, WaveWrites
  <2> QED BY <2>1, <2>2, <2>3
<1>3. Writing' => call'.due = call.due /\ call'.written = call.written
  BY <1>1, SameFrames DEF queue_claim, queue_enqueue, wave_write
<1>4. ring.enqueued # <<>> => ring.started
  BY <1>1, StartedWriting
<1>6. CASE Added(ring, ring', NewFrames(F))
  <2>1. Queued' = Queued \o NewFrames(F)
    BY <1>1, <1>6, AddedQueues
  <2>2. ring'.enqueued # ring.enqueued
    <3>1. ring.enqueued \in Seq(Slots) /\ ring.next \in Slots
      BY <1>1 DEF BuffersInv, RingType
    <3>2. PICK e, x : e = ring.enqueued /\ x = ring.next
      OBVIOUS
    <3>3. e \in Seq(Slots) /\ x \in Slots
      BY <3>1, <3>2
    <3>4. Len(Append(e, x)) = Len(e) + 1 /\ Len(e) \in Nat
      BY ONLY <3>3
    <3>5. Append(e, x) # e
      BY <3>4
    <3> QED BY <1>6, <3>2, <3>5 DEF Added
  <2>3. ~Writing'
    <3>1. Return(TRUE) \/ Return(FALSE) \/ ring'.enqueued = ring.enqueued
      <4>1. CASE queue_claim
        <5>1. Kept(ring, ring')
          BY <1>1, <4>1, QueueClaims
        <5> QED BY <5>1 DEF Kept
      <4>2. CASE queue_enqueue
        BY <4>2 DEF queue_enqueue
      <4>3. CASE wave_write
        BY <4>3 DEF wave_write
      <4> QED BY <4>1, <4>2, <4>3
    <3> QED BY <2>2, <3>1, ReturnPlace DEF Writing
  <2>4. Live' => Live \/ Queued = <<>>
    <3> SUFFICES ASSUME ~stuck, ~ring.started PROVE Queued = <<>>
      BY <1>1 DEF Live
    <3>1. ring.enqueued = <<>> /\ ring \in RingType /\ ring.head = 0
      BY <1>1, <1>4 DEF BuffersInv, BuffersOk
    <3> QED BY <1>1, <3>1, NoneShown, QueuedIs
  <2>5. F \in Nat /\ F >= 1
    BY OutputConstants
  <2> QED BY <1>1, <2>1, <2>3, <2>4, <2>5, DueAdds
<1>7. CASE Kept(ring, ring') /\ accepted' = accepted
  <2>1. Queued' = Queued
    BY <1>1, <1>7, DeviceKeeps DEF Untouched
  <2>2. Live' => Live
    <3> SUFFICES ASSUME ~stuck, ring'.started PROVE ring.started
      BY <1>1 DEF Live
    <3>1. ring'.enqueued = ring.enqueued
      BY <1>7 DEF Kept
    <3> QED BY <3>1, RingStarts
  <2> QED BY <1>1, <1>3, <2>1, <2>2, DueSame
<1> QED BY <1>2, <1>6, <1>7

(* A write that waits has something queued before it.                      *)
LEMMA WaitsForFrames ==
    ASSUME OutputInv, StartInv, Tick, call.at = "wait"
    PROVE  Queued # <<>> /\ (backend \in {"alsa", "board"} \/ ring.started)
<1>1. BuffersInv /\ backend \in {"alsa", "audioqueue", "waveout", "board"}
  BY OutputAssumption DEF OutputInv, ClockTypes
<1>2. CASE backend = "alsa"
  <2>1. ~(Room > 0)
    BY <1>2 DEF Tick
  <2>2. PICK l : l = Len(pcm.frames)
    OBVIOUS
  <2>3. l \in Nat /\ Ring \in Nat /\ Ring >= 1
    BY <1>1, <2>2, OutputConstants DEF BuffersInv, PcmType
  <2>4. l # 0
    BY <2>1, <2>2, <2>3 DEF Room
  <2>5. pcm.frames # <<>>
    BY <2>2, <2>4
  <2> QED BY <1>2, <2>5, QueuedIs
<1>3. CASE backend = "board"
  BY <1>3 DEF StartInv
<1>4. CASE backend \in {"audioqueue", "waveout"}
  <2>1. ring.started /\ ring.enqueued # <<>> /\ ring \in RingType /\ BuffersOk(ring, backend)
    BY <1>1, <1>4 DEF StartInv, BuffersInv
  <2>2. /\ ring.head \in Nat /\ ring.head < Len(AllFrames(ring))
        /\ Len(Shown(ring)) = Len(AllFrames(ring)) - ring.head /\ AllFrames(ring) \in Seq(Frame)
    BY <2>1, ShownAre
  <2>3. Len(AllFrames(ring)) \in Nat
    BY <2>2, LenProperties
  <2>4. PICK s : s = Shown(ring)
    OBVIOUS
  <2>5. Len(s) # 0
    BY <2>2, <2>3, <2>4
  <2>6. s # <<>>
    BY <2>5
  <2> QED BY <1>4, <2>1, <2>4, <2>6, QueuedIs
<1> QED BY <1>1, <1>2, <1>3, <1>4

(* Time passes.                                                            *)
LEMMA DueTick ==
    ASSUME OutputInv, StartInv, StartInv', DueOk, Overcount' = Overcount, Tick,
           Playing => Queued # <<>> /\ Queued' = Tail(Queued),
           ~Playing => Queued' = Queued
    PROVE  DueOk'
<1>1. /\ call'.due = call.due /\ call'.written = call.written
      /\ (Writing' <=> call.at = "wait") /\ (Writing <=> call.at = "wait")
      /\ backend' = backend /\ now' = now + 1
  BY TickCall DEF OutputInv
<1>2. CASE Playing
  <2>1. stuck' = stuck
    BY <1>2 DEF Tick, PlayFrame
  <2>2. Live' => Live
    BY <1>2 DEF Live, Playing
  <2> QED BY <1>1, <1>2, <2>1, <2>2, DuePlays
<1>3. CASE ~Playing
  <2>1. UNCHANGED <<ring, stuck>>
    BY <1>3 DEF Tick, device
  <2>2. Live' => Queued' = <<>>
    BY <1>1, <1>3, <2>1 DEF Live, Playing
  <2>3. Len(<<>>) = 0
    OBVIOUS
  <2>4. ~stuck' => ~Writing'
    BY <1>1, <1>3, <2>1, WaitsForFrames DEF Playing
  <2> QED BY <2>2, <2>3, <2>4 DEF DueOk
<1> QED BY <1>2, <1>3

(* A device that is opened or closed holds nothing.                        *)
LEMMA DueFresh ==
    ASSUME SubmitInv, BuffersInv,
           alsa_open \/ queue_open \/ wave_open \/ board_open \/ close_audio
    PROVE  DueOk'
<1>1. Queued' = <<>>
  BY OpenCloseDevice
<1>2. ~Writing'
  <2>1. CASE call' = call /\ call.at = "closed"
    BY <2>1 DEF Writing
  <2>2. CASE call' = NoCall \/ call' = [NoCall EXCEPT !.at = "closed"]
    BY <2>2, NoCallType DEF Writing
  <2> QED BY <2>1, <2>2 DEF alsa_open, queue_open, wave_open, board_open, Open, close_audio,
             alsa_close, queue_close, wave_close, board_close, Close
<1> QED BY <1>1, <1>2, DueEmpty

(* Every step keeps what is queued in time.                                *)
LEMMA DueSteps ==
    ASSUME OutputInv, OutputInv', DelayInv, StartInv, StartInv', DueOk, ~PositionLost,
           Overcount' = Overcount, [OutputNext]_outputVars
    PROVE  DueOk'
<1>1. SubmitInv /\ BuffersInv /\ call \in CallType
  BY DEF OutputInv, SubmitInv
<1>2. ASSUME Queued' = Queued, UNCHANGED <<backend, now>>, ring'.started = ring.started,
             stuck => stuck',
             Writing' => Writing /\ call'.due = call.due /\ call'.written = call.written
      PROVE  DueOk'
  <2>1. Live' => Live
    BY <1>2 DEF Live
  <2> QED BY <1>2, <2>1, DueSame
<1>3. CASE \/ DelayFails \/ Stall \/ Sync \/ StopRequest \/ Ended \/ TooEarly \/ DropPacket
           \/ \E p \in 1 .. Packets[backend] : Arrive(p)
           \/ UNCHANGED outputVars
  <2>1. Queued' = Queued
    BY <1>1, <1>3, PollsUntouched DEF Untouched, Ended
  <2>2. UNCHANGED <<backend, now, call, ring>> /\ (stuck => stuck')
    BY <1>3 DEF DelayFails, Stall, Sync, StopRequest, Ended, Arrive, TooEarly, DropPacket,
                MeasureDelay, device, outputVars
  <2>3. Writing' => Writing /\ call'.due = call.due /\ call'.written = call.written
    BY <2>2 DEF Writing
  <2> QED BY <1>2, <2>1, <2>2, <2>3
<1>4. CASE Submit
  BY <1>4, DueSubmits
<1>5. CASE alsa_write \/ alsa_wait \/ board_write
  BY <1>5, DuePcm
<1>6. CASE queue_claim \/ queue_enqueue \/ wave_write
  BY <1>6, DueRing
<1>7. CASE Wake
  <2>1. Queued' = Queued
    BY <1>1, <1>7, WakeUntouched DEF Untouched
  <2>2. /\ UNCHANGED <<backend, now, ring, stuck>> /\ Writing
        /\ call'.due = call.due /\ call'.written = call.written
    BY <1>1, <1>7, CallMoves DEF Wake, device, CallPlaces, Writing
  <2> QED BY <1>2, <2>1, <2>2
<1>8. CASE \E i \in Slots : buffer_finished(i)
  <2>1. PICK i \in Slots : buffer_finished(i)
    BY <1>8
  <2>2. Queued' = Queued
    BY <1>1, <2>1, CallbackKeeps DEF Untouched
  <2>3. UNCHANGED <<backend, now, call, stuck>>
    BY <2>1 DEF buffer_finished
  <2>4. ring'.started = ring.started
    <3>1. ring' = [ring EXCEPT !.busy = @ \ {i}, !.finished = @ \ {i}, !.data[i] = <<>>]
      BY <2>1 DEF buffer_finished
    <3>2. ring \in RingType
      BY <1>1 DEF BuffersInv
    <3> QED BY ONLY <3>1, <3>2 DEF RingType
  <2>5. Writing' => Writing /\ call'.due = call.due /\ call'.written = call.written
    BY <2>3 DEF Writing
  <2> QED BY <1>2, <2>2, <2>3, <2>4, <2>5
<1>9. CASE Tick
  <2>1. call'.at # "claimed" /\ backend' = backend
    BY <1>1, <1>9, TickCall
  <2>2. Playing => Queued # <<>> /\ Queued' = Tail(Queued)
    BY <1>1, <1>9, <2>1, PlaysFrame DEF Tick
  <2>3. ~Playing => Queued' = Queued
    <3> SUFFICES ASSUME ~Playing PROVE Queued' = Queued
      OBVIOUS
    <3>1. UNCHANGED <<pcm, ring, accepted>>
      BY <1>9 DEF Tick, device
    <3>2. Kept(ring, ring') /\ BuffersInv'
      BY <3>1 DEF Kept, OutputInv
    <3> QED BY <1>1, <2>1, <3>1, <3>2, DeviceKeeps DEF Untouched
  <2> QED BY <1>9, <2>2, <2>3, DueTick
<1>10. CASE alsa_open \/ queue_open \/ wave_open \/ board_open \/ close_audio
  BY <1>1, <1>10, DueFresh
<1> QED BY <1>3, <1>4, <1>5, <1>6, <1>7, <1>8, <1>9, <1>10 DEF OutputNext, audio_write

(* Until the device is opened anew, the driver keeps its unit, and a lost  *)
(* position stays lost.                                                    *)
LEMMA UnitStays ==
    ASSUME OutputInv, DelayInv, [OutputNext]_outputVars,
           ~(alsa_open \/ queue_open \/ wave_open \/ board_open \/ close_audio)
    PROVE  Overcount' = Overcount /\ (PositionLost => PositionLost')
<1>1. PICK c : c = counters
  OBVIOUS
<1>2. c \in CountersType /\ counters \in CountersType
  BY <1>1 DEF DelayInv
<1>3. ASSUME NEW p, NEW l, NEW d, d = [c EXCEPT !.played = p, !.last_position = l]
      PROVE  d.unit = c.unit /\ d.position = c.position
  BY <1>2, <1>3 DEF CountersType
<1>4. ASSUME NEW d, d = [c EXCEPT !.submitted = @ + F]
      PROVE  d.unit = c.unit /\ d.position = c.position
  BY <1>2, <1>4 DEF CountersType
<1>5. ASSUME NEW d, d = [c EXCEPT !.position = @ + 1]
      PROVE  d.unit = c.unit /\ d.position = c.position + 1
  BY <1>2, <1>5 DEF CountersType
<1>6. \/ counters' = c
      \/ \E p, l : counters' = [c EXCEPT !.played = p, !.last_position = l]
      \/ counters' = [c EXCEPT !.submitted = @ + F]
      \/ counters' = [c EXCEPT !.position = @ + 1]
  BY <1>1 DEF OutputNext, DelayFails, TooEarly, DropPacket, Submit, MeasureDelay, audio_write,
     alsa_write, alsa_wait, queue_claim, queue_enqueue, wave_write, Wake, board_write,
     buffer_finished, Stall, Tick, PlayFrame, Arrive, Sync, StopRequest, Ended, device, outputVars
<1>7. backend' = backend
  BY DEF OutputNext, DelayFails, TooEarly, DropPacket, Submit, audio_write,
     alsa_write, alsa_wait, queue_claim, queue_enqueue, wave_write, Wake, board_write,
     buffer_finished, Stall, Tick, Arrive, Sync, StopRequest, Ended, outputVars
<1>8. /\ counters'.unit = c.unit
      /\ counters'.position = c.position \/ counters'.position = c.position + 1
  <2>1. CASE counters' = c
    BY <2>1
  <2>2. CASE \E p, l : counters' = [c EXCEPT !.played = p, !.last_position = l]
    <3>1. PICK p, l : counters' = [c EXCEPT !.played = p, !.last_position = l]
      BY <2>2
    <3>2. counters'.unit = c.unit /\ counters'.position = c.position
      BY ONLY <1>3, <3>1
    <3> QED BY <3>2
  <2>3. CASE counters' = [c EXCEPT !.submitted = @ + F]
    BY <1>4, <2>3
  <2>4. CASE counters' = [c EXCEPT !.position = @ + 1]
    BY <1>5, <2>4
  <2> QED BY <1>6, <2>1, <2>2, <2>3, <2>4
<1>9. Overcount' = Overcount
  BY <1>1, <1>7, <1>8 DEF Overcount
<1>10. PositionLost => PositionLost'
  <2>1. PICK u \in AnyUnit, p \in Nat : u = c.unit /\ p = c.position
    BY <1>2, CountersFields
  <2>2. PICK e \in Nat, f \in Nat : e = Elapsed(u, p) /\ f = Elapsed(u, p + 1) /\ e <= f
    BY ToldGrows
  <2> QED BY <1>1, <1>7, <1>8, <2>1, <2>2, UnitConstants DEF PositionLost
<1> QED BY <1>9, <1>10

(* Every step keeps what is queued in time, as long as the position can be *)
(* followed.                                                               *)
LEMMA DueStays ==
    ASSUME OutputInv, OutputInv', DelayInv, StartInv, StartInv', DueInv, [OutputNext]_outputVars
    PROVE  DueInv'
<1>1. CASE alsa_open \/ queue_open \/ wave_open \/ board_open \/ close_audio
  BY <1>1, DueFresh DEF DueInv, OutputInv
<1>2. CASE ~(alsa_open \/ queue_open \/ wave_open \/ board_open \/ close_audio)
  <2>1. Overcount' = Overcount /\ (PositionLost => PositionLost')
    BY <1>2, UnitStays
  <2>2. ASSUME DueOk, ~PositionLost
        PROVE  DueOk'
    BY <2>1, <2>2, DueSteps
  <2> QED BY <2>1, <2>2 DEF DueInv
<1> QED BY <1>1, <1>2

(* At the start nothing is queued.                                         *)
LEMMA DelayStarts == OutputInit => DelayInv /\ StartInv /\ DueInv
<1> SUFFICES ASSUME OutputInit PROVE DelayInv /\ StartInv /\ DueInv
  OBVIOUS
<1>1. /\ pcm = FreshPcm /\ ring = FreshRing /\ counters = FreshCounters("samples")
      /\ call.at = "closed"
  BY NoCallType DEF OutputInit
<1>2. Queued = <<>> /\ Len(<<>>) = 0
  BY OutputStarts
<1>3. counters \in CountersType
  BY <1>1, WaveFresh DEF AnyUnit
<1>4. /\ ring.enqueued = <<>> /\ ring.finished = {} /\ ring.busy = {}
      /\ ring.started = FALSE /\ Len(ring.enqueued) = 0
  BY <1>1 DEF FreshRing
<1>5. BusyOk(ring, call.at = "claimed") /\ InTurn(ring)
  BY <1>4, OutputConstants DEF BusyOk, InTurn
<1>6. ~Writing
  BY <1>1 DEF Writing
<1>7. WaveOk(counters, Len(Queued), Writing)
  BY <1>1, <1>2, WaveFresh DEF AnyUnit
<1>8. DelayInv
  BY <1>1, <1>3, <1>5, <1>7 DEF DelayInv, FreshPcm
<1>9. StartInv
  BY <1>1, <1>4 DEF StartInv
<1>10. DueInv
  BY <1>2, <1>6 DEF DueInv, DueOk
<1> QED BY <1>8, <1>9, <1>10

(* The invariant of the delay: the counters of the drivers add up to what  *)
(* they hold, and all of it will be heard in time.                         *)
THEOREM QueuedIsDue == OutputSpec => [](OutputInv /\ DelayInv /\ StartInv /\ DueInv)
<1>1. OutputInit => DelayInv /\ StartInv /\ DueInv
  BY DelayStarts
<1>2. OutputInv /\ OutputInv' /\ DelayInv /\ StartInv /\ DueInv /\ [OutputNext]_outputVars
        => DelayInv' /\ StartInv' /\ DueInv'
  BY DelayStays, DueStays
<1> QED BY <1>1, <1>2, OutputAccounted, PTL DEF OutputSpec

(* audio_delay_frames of every driver reports what was submitted and not   *)
(* yet played; AudioQueue may add what it has not yet been told about, and *)
(* waveOut the millisecond that has begun.  A position in samples may wrap *)
(* any number of times; one in bytes or milliseconds is claimed for until  *)
(* it wraps.                                                               *)
THEOREM DelaysAreHonest == OutputSpec => []DelayHonest
<1>1. OutputInv /\ DelayInv => DelayHonest
  BY InvHonest DEF OutputInv
<1> QED BY <1>1, QueuedIsDue, PTL

(* What pipeline_play_ready_packets submits by the delay of the driver is  *)
(* heard at its deadline, from the margin before it to the limit behind    *)
(* which packets are dropped, whatever the writes wait for, as long as the *)
(* position of waveOut can be followed.                                    *)
THEOREM FramesAreHeardOnTime == OutputSpec => []HeardOnTime
<1>1. OutputInv /\ DueInv => HeardOnTime
  BY InvHeard DEF OutputInv
<1> QED BY <1>1, QueuedIsDue, PTL
=============================================================================

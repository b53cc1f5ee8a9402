----------------------- MODULE ControlConnectionProofs -----------------------
(***************************************************************************)
(* Proofs about the byte channel of one control connection (RtspChannel),  *)
(* for requests of any shape, buffers and records of any size and counters *)
(* of any width, and about its pairing (Pairing): first what tlv_put       *)
(* writes and tlv_get reads, whatever the fragments and the sizes, then    *)
(* the exchange.                                                           *)
(***************************************************************************)
EXTENDS ControlConnection, SequenceTheorems, WellFoundedInduction, TLAPS

----------------------------------------------------------------------------
(* Induction and sequences.                                                *)

(* The least number principle, for a set.                                  *)
LEMMA Least ==
    ASSUME NEW T, T \subseteq Nat, T # {}
    PROVE  \E n \in T : \A m \in T : ~(m < n)
<1> DEFINE less == {ss \in Nat \X Nat : ss[1] < ss[2]}
<1>1. IsWellFoundedOn(less, Nat)
  BY NatLessThanWellFounded DEF OpToRel
<1>2. \A m, n \in Nat : m < n => <<m, n>> \in less
  OBVIOUS
<1> HIDE DEF less
<1>3. \E n \in T : \A m \in T : ~(<<m, n>> \in less)
  BY <1>1, WFMin
<1> QED BY <1>2, <1>3, Zenon

(* Induction along an interval.                                            *)
LEMMA UpTo ==
    ASSUME NEW n \in Nat, NEW S, n >= 1 => 1 \in S,
           \A k \in 1 .. n : k + 1 <= n /\ k \in S => k + 1 \in S
    PROVE  \A k \in 1 .. n : k \in S
<1> DEFINE T == {k \in 1 .. n : k \notin S}
<1> SUFFICES ASSUME T # {} PROVE FALSE
  OBVIOUS
<1>1. T \subseteq Nat
  OBVIOUS
<1>2. PICK k \in T : \A m \in T : ~(m < k)
  BY <1>1, Least
<1>3. k \in 1 .. n /\ k \notin S /\ k # 1
  OBVIOUS
<1>4. k - 1 \in 1 .. n /\ k - 1 < k
  BY <1>3
<1>5. k - 1 \in S
  BY <1>2, <1>4
<1>6. (k - 1) + 1 = k /\ (k - 1) + 1 <= n
  BY <1>3
<1> QED BY <1>3, <1>4, <1>5, <1>6

(* Joining sequences.                                                      *)
LEMMA Joined ==
    ASSUME NEW S, NEW s \in Seq(S), NEW t \in Seq(S)
    PROVE  /\ s \o t \in Seq(S)
           /\ Len(s \o t) = Len(s) + Len(t)
           /\ \A i \in 1 .. Len(s) : (s \o t)[i] = s[i]
           /\ \A i \in 1 .. Len(t) : (s \o t)[Len(s) + i] = t[i]
           /\ s \o t = <<>> <=> s = <<>> /\ t = <<>>
OBVIOUS

(* A part of a sequence.                                                   *)
LEMMA Part ==
    ASSUME NEW S, NEW s \in Seq(S), NEW m \in 1 .. Len(s) + 1, NEW n \in Nat,
           m - 1 <= n, n <= Len(s)
    PROVE  /\ SubSeq(s, m, n) \in Seq(S)
           /\ Len(SubSeq(s, m, n)) = n - m + 1
           /\ \A i \in 1 .. n - m + 1 : SubSeq(s, m, n)[i] = s[m + i - 1]
OBVIOUS

----------------------------------------------------------------------------
(* The inductive invariant.                                                *)

(* The types of a byte of a request and of a byte on the wire.             *)
Kinds == {"request", "pair", "malformed"}

RequestByte ==
    [req : Nat, at : Nat, head : Nat, size : Nat, kind : Kinds, sealed : BOOLEAN]

Frame ==
    [sealed : BOOLEAN, payload : Seq(RequestByte), at : Nat, counter : Nat,
     intact : BOOLEAN]

(* Byte b comes directly behind byte a in what the sender writes.          *)
Follows(a, b) ==
    \/ /\ a.at < a.size
       /\ b.req = a.req /\ b.at = a.at + 1 /\ b.size = a.size
    \/ a.at = a.size /\ b.req = a.req + 1 /\ b.at = 1

Linked(s) == \A i \in 1 .. Len(s) - 1 : Follows(s[i], s[i + 1])

(* The end of the last request handled, as a byte.                         *)
Origin == [req |-> handled, at |-> 0, size |-> 0]

(* The last byte of s, or the one before s.                                *)
LastOf(before, s) == IF s = <<>> THEN before ELSE s[Len(s)]

(* A byte of a request numbered below n.                                   *)
ByteOk(b, n) ==
    1 <= b.req /\ b.req < n /\ b.at \in 1 .. b.size /\ b.head \in 1 .. b.size

AllOk(s, n) == \A i \in 1 .. Len(s) : ByteOk(s[i], n)

(* What is received next: the record in progress and the wire.             *)
Coming == record \o wire

(* The bytes on the wire that carry one payload.                           *)
FrameLen(f) == IF f.sealed THEN Len(f.payload) + Overhead ELSE 1

FrameOk(f, n) ==
    /\ f.payload # <<>> /\ Linked(f.payload) /\ AllOk(f.payload, n)
    /\ f.at \in 1 .. FrameLen(f)
    /\ IF f.sealed THEN Len(f.payload) <= RecordMax /\ f.counter < MaxCounter
                   ELSE Len(f.payload) = 1

(* Byte g comes directly behind byte f on the wire.                        *)
FrameFollows(f, g) ==
    \/ /\ f.at < FrameLen(f)
       /\ g.at = f.at + 1 /\ g.payload = f.payload
       /\ g.sealed = f.sealed /\ g.counter = f.counter /\ g.intact = f.intact
    \/ /\ f.at = FrameLen(f)
       /\ g.at = 1 /\ Follows(f.payload[Len(f.payload)], g.payload[1])
       /\ f.sealed => g.sealed /\ g.counter = f.counter + 1

FramesLinked(s) == \A i \in 1 .. Len(s) - 1 : FrameFollows(s[i], s[i + 1])

(* The last byte that is received or on its way.                           *)
LastSent ==
    IF Coming = <<>> THEN LastOf(Origin, rx)
    ELSE Coming[Len(Coming)].payload[Len(Coming[Len(Coming)].payload)]

(* The state has its types.                                                *)
ChannelTypes ==
    /\ open \in BOOLEAN /\ encrypted \in BOOLEAN /\ eof \in BOOLEAN /\ seals \in BOOLEAN
    /\ pc \in {"wait", "parse"}
    /\ rx \in Seq(RequestByte) /\ plain \in Seq(RequestByte)
    /\ record \in Seq(Frame) /\ wire \in Seq(Frame)
    /\ read_counter \in Nat /\ write_counter \in Nat /\ tx_counter \in 0 .. MaxCounter
    /\ next \in Nat \ {0} /\ asked \in Nat /\ handled \in Nat

(* Clear or sealed, and where the loop stands.                             *)
ModeInv ==
    /\ ~open => rx = <<>> /\ record = <<>> /\ ~encrypted
    /\ open /\ ~encrypted => ~seals /\ record = <<>> /\ read_counter = 0
    /\ open /\ ~seals => tx_counter = 0 /\ \A i \in 1 .. Len(Coming) : ~Coming[i].sealed
    /\ pc = "parse" => rx # <<>>
    /\ pc = "wait" /\ rx # <<>> => Len(rx) < rx[1].size
    /\ asked < next

(* Each nonce is its number in the order of use.                           *)
NonceInv ==
    /\ nonces \in Seq(Nat) /\ Len(nonces) <= MaxCounter
    /\ \A i \in 1 .. Len(nonces) : nonces[i] = i - 1
    /\ open => write_counter = Len(nonces)

(* What is received.                                                       *)
RxInv ==
    /\ AllOk(rx, next) /\ Linked(rx)
    /\ rx # <<>> => Follows(Origin, rx[1])

(* What is on its way comes directly behind it, in whole records.          *)
ComingInv ==
    /\ FramesLinked(Coming)
    /\ \A i \in 1 .. Len(Coming) : FrameOk(Coming[i], next)
    /\ Coming # <<>> =>
        Coming[1].at = 1 /\ Follows(LastOf(Origin, rx), Coming[1].payload[1])
    /\ ~eof /\ Coming # <<>> =>
        LET last == Coming[Len(Coming)] IN
        /\ last.at = FrameLen(last)
        /\ last.sealed => tx_counter = last.counter + 1

(* What the sender has not transmitted comes behind that.                  *)
PlainInv ==
    /\ AllOk(plain, next) /\ Linked(plain)
    /\ \A i, j \in 1 .. Len(plain) : i <= j => plain[i].req <= plain[j].req
    /\ plain # <<>> => Follows(LastSent, plain[1])
    /\ LET last == LastOf(LastSent, plain) IN last.at = last.size /\ last.req = next - 1

(* While nobody broke the rules: every byte is of a request that fits, the *)
(* pairing request is the last thing in clear, and no record is damaged,   *)
(* spans requests or is out of turn.                                       *)
ByteClean(b, a) ==
    b.kind # "malformed" /\ b.size <= RxSize /\ (b.kind = "pair" => b.req = a)

InClear(b, a) == a = 0 \/ b.req <= a

FrameClean(f, a) ==
    /\ \A i \in 1 .. Len(f.payload) : ByteClean(f.payload[i], a)
    /\ IF f.sealed
       THEN f.intact /\ \A i \in 1 .. Len(f.payload) : f.payload[i].req = f.payload[1].req
       ELSE InClear(f.payload[1], a)

CleanInv ==
    /\ ~eof
    /\ \A i \in 1 .. Len(plain) : ByteClean(plain[i], asked)
    /\ \A i \in 1 .. Len(rx) :
          ByteClean(rx[i], asked) /\ (~encrypted => InClear(rx[i], asked))
    /\ \A i \in 1 .. Len(Coming) : FrameClean(Coming[i], asked)
    /\ encrypted => asked # 0 /\ \A i \in 1 .. Len(Coming) : Coming[i].sealed
    /\ encrypted /\ ~seals => rx = <<>> /\ handled = asked
    /\ IF Coming = <<>> THEN tx_counter = read_counter
       ELSE Coming[1].sealed => Coming[1].counter = read_counter

(* The inductive invariant of the channel.                                 *)
ChannelInv ==
    /\ ChannelTypes
    /\ ModeInv
    /\ NonceInv
    /\ BoundaryHolds
    /\ open => RxInv /\ ComingInv
    /\ open /\ ~eof => PlainInv
    /\ open /\ faults = {} => CleanInv
    /\ ClosedForCause

----------------------------------------------------------------------------
(* Sequences of bytes and of frames.                                       *)

(* The length of a joined sequence.                                        *)
LEMMA LenJoined ==
    ASSUME NEW S, NEW s \in Seq(S), NEW t \in Seq(S)
    PROVE  s \o t \in Seq(S) /\ Len(s \o t) = Len(s) + Len(t)
OBVIOUS

(* Joining three sequences of frames.                                       *)
LEMMA FramesAssociated ==
    ASSUME NEW s \in Seq(Frame), NEW t \in Seq(Frame), NEW u \in Seq(Frame)
    PROVE  (s \o t) \o u = s \o (t \o u)
OBVIOUS

(* An element of a joined sequence is one of its parts'.                   *)
LEMMA JoinedAt ==
    ASSUME NEW S, NEW s \in Seq(S), NEW t \in Seq(S), NEW i \in 1 .. Len(s \o t)
    PROVE  \/ i \in 1 .. Len(s) /\ (s \o t)[i] = s[i]
           \/ \E j \in 1 .. Len(t) : i = Len(s) + j /\ (s \o t)[i] = t[j]
<1>0. Len(s) \in Nat /\ Len(t) \in Nat /\ Len(s \o t) = Len(s) + Len(t) /\ i \in Int
  BY Joined
<1>1. CASE i <= Len(s)
  BY <1>0, <1>1, Joined
<1>2. CASE i > Len(s)
  <2>1. PICK j \in 1 .. Len(t) : i = Len(s) + j
    <3>1. i - Len(s) \in 1 .. Len(t) /\ i = Len(s) + (i - Len(s))
      BY <1>0, <1>2
    <3> QED BY <3>1
  <2>2. (s \o t)[Len(s) + j] = t[j]
    BY <2>1, Joined
  <2> QED BY <2>1, <2>2
<1>3. i <= Len(s) \/ i > Len(s)
  BY <1>0
<1> QED BY <1>1, <1>2, <1>3

(* An element of a joined sequence of bytes of the channel.                *)
LEMMA BytesJoinedAt ==
    ASSUME NEW s \in Seq(RequestByte), NEW t \in Seq(RequestByte), NEW i \in 1 .. Len(s \o t)
    PROVE  \/ i \in 1 .. Len(s) /\ (s \o t)[i] = s[i]
           \/ \E j \in 1 .. Len(t) : i = Len(s) + j /\ (s \o t)[i] = t[j]
<1>0. Len(s) \in Nat /\ Len(t) \in Nat /\ Len(s \o t) = Len(s) + Len(t) /\ i \in Int
  OBVIOUS
<1>1. \A k \in 1 .. Len(s) : (s \o t)[k] = s[k]
  OBVIOUS
<1>2. \A k \in 1 .. Len(t) : (s \o t)[Len(s) + k] = t[k]
  OBVIOUS
<1>3. CASE i <= Len(s)
  <2>1. i \in 1 .. Len(s)
    BY ONLY <1>0, <1>3, i \in 1 .. Len(s \o t)
  <2> QED BY <1>1, <2>1
<1>4. CASE i > Len(s)
  <2>1. PICK j \in 1 .. Len(t) : i = Len(s) + j
    <3>1. i - Len(s) \in 1 .. Len(t) /\ i = Len(s) + (i - Len(s))
      BY ONLY <1>0, <1>4, i \in 1 .. Len(s \o t)
    <3> QED BY <3>1
  <2>2. (s \o t)[Len(s) + j] = t[j]
    BY <1>2, <2>1
  <2> QED BY <2>1, <2>2
<1> QED BY <1>0, <1>3, <1>4

(* The first and the last element of a joined sequence.                    *)
LEMMA JoinedEnds ==
    ASSUME NEW S, NEW s \in Seq(S), NEW t \in Seq(S)
    PROVE  /\ s # <<>> => (s \o t)[1] = s[1]
           /\ s = <<>> => s \o t = t
           /\ t # <<>> => (s \o t)[Len(s \o t)] = t[Len(t)]
           /\ t = <<>> => s \o t = s
<1>0. Len(s) \in Nat /\ Len(t) \in Nat /\ Len(s \o t) = Len(s) + Len(t)
  BY Joined
<1>1. ASSUME s # <<>> PROVE (s \o t)[1] = s[1]
  <2>1. 1 \in 1 .. Len(s)
    BY <1>0, <1>1, EmptySeq
  <2> QED BY <2>1, Joined
<1>2. ASSUME t # <<>> PROVE (s \o t)[Len(s \o t)] = t[Len(t)]
  <2>1. Len(t) \in 1 .. Len(t)
    BY <1>0, <1>2, EmptySeq
  <2>2. (s \o t)[Len(s) + Len(t)] = t[Len(t)]
    BY <2>1, Joined
  <2> QED BY <1>0, <2>2
<1>3. (s = <<>> => s \o t = t) /\ (t = <<>> => s \o t = s)
  OBVIOUS
<1> QED BY <1>1, <1>2, <1>3

(* The two parts of a sequence that is cut.                                *)
LEMMA Cut ==
    ASSUME NEW S, NEW w \in Seq(S), NEW n \in 0 .. Len(w)
    PROVE  /\ SubSeq(w, 1, n) \in Seq(S) /\ Len(SubSeq(w, 1, n)) = n
           /\ \A i \in 1 .. n : i \in 1 .. Len(w) /\ SubSeq(w, 1, n)[i] = w[i]
           /\ SubSeq(w, n + 1, Len(w)) \in Seq(S)
           /\ Len(SubSeq(w, n + 1, Len(w))) = Len(w) - n
           /\ \A i \in 1 .. Len(w) - n :
                n + i \in 1 .. Len(w) /\ SubSeq(w, n + 1, Len(w))[i] = w[n + i]
           /\ SubSeq(w, 1, n) \o SubSeq(w, n + 1, Len(w)) = w
<1> DEFINE a == SubSeq(w, 1, n)
           b == SubSeq(w, n + 1, Len(w))
<1>0. Len(w) \in Nat /\ n \in Nat /\ n <= Len(w)
  OBVIOUS
<1>1. a \in Seq(S) /\ Len(a) = n /\ \A i \in 1 .. n : a[i] = w[i]
  BY <1>0, Part
<1>2. /\ b \in Seq(S) /\ Len(b) = Len(w) - n
      /\ \A i \in 1 .. Len(w) - n : b[i] = w[n + i]
  BY <1>0, Part
<1> HIDE DEF a, b
<1>3. \A i \in 1 .. n : i \in 1 .. Len(w)
  BY <1>0
<1>4. \A i \in 1 .. Len(w) - n : n + i \in 1 .. Len(w)
  BY <1>0
<1>5. a \o b = w
  <2>1. a \o b \in Seq(S) /\ Len(a \o b) = Len(w)
    <3>1. a \o b \in Seq(S) /\ Len(a \o b) = Len(a) + Len(b)
      BY <1>1, <1>2, LenJoined, Zenon
    <3> QED BY <1>0, <1>1, <1>2, <3>1
  <2>2. ASSUME NEW i \in 1 .. Len(a \o b) PROVE (a \o b)[i] = w[i]
    <3>1. CASE i \in 1 .. Len(a) /\ (a \o b)[i] = a[i]
      BY <1>1, <3>1
    <3>2. CASE \E j \in 1 .. Len(b) : i = Len(a) + j /\ (a \o b)[i] = b[j]
      BY <1>1, <1>2, <3>2
    <3>3. a \in Seq(S) /\ b \in Seq(S) /\ i \in 1 .. Len(a \o b)
      BY <1>1, <1>2
    <3>4. \/ i \in 1 .. Len(a) /\ (a \o b)[i] = a[i]
          \/ \E j \in 1 .. Len(b) : i = Len(a) + j /\ (a \o b)[i] = b[j]
      BY ONLY <3>3, JoinedAt
    <3> QED BY ONLY <3>1, <3>2, <3>4
  <2> QED BY <2>1, <2>2, SeqEqual
<1> QED BY <1>1, <1>2, <1>3, <1>4, <1>5 DEF a, b

(* Bytes that are received stay where they are in what is coming.          *)
LEMMA Moved ==
    ASSUME NEW S, NEW d \in Seq(S), NEW w \in Seq(S), NEW n \in 0 .. Len(w)
    PROVE  /\ d \o SubSeq(w, 1, n) \in Seq(S)
           /\ SubSeq(w, n + 1, Len(w)) \in Seq(S)
           /\ Len(d \o SubSeq(w, 1, n)) = Len(d) + n
           /\ (d \o SubSeq(w, 1, n)) \o SubSeq(w, n + 1, Len(w)) = d \o w
<1> DEFINE a == SubSeq(w, 1, n)
           b == SubSeq(w, n + 1, Len(w))
<1>0. a \in Seq(S) /\ b \in Seq(S)
  BY Cut
<1>1. Len(a) = n /\ a \o b = w
  BY Cut
<1> HIDE DEF a, b
<1>2. (d \o a) \o b = d \o (a \o b)
  <2>1. d \in Seq(S)
    OBVIOUS
  <2> QED BY ONLY <1>0, <2>1, SMTT(30)
<1>3. d \o a \in Seq(S) /\ Len(d \o a) = Len(d) + n
  <2>1. d \o a \in Seq(S) /\ Len(d \o a) = Len(d) + Len(a)
    BY <1>0, LenJoined, Zenon
  <2> QED BY <1>1, <2>1
<1> QED BY <1>0, <1>1, <1>2, <1>3 DEF a, b

(* Linked bytes that meet are linked.                                      *)
LEMMA LinkedJoin ==
    ASSUME NEW s \in Seq(RequestByte), NEW t \in Seq(RequestByte), Linked(s), Linked(t),
           s # <<>> /\ t # <<>> => Follows(s[Len(s)], t[1])
    PROVE  Linked(s \o t)
<1> DEFINE u == s \o t
<1>0. /\ u \in Seq(RequestByte) /\ Len(s) \in Nat /\ Len(t) \in Nat
      /\ Len(u) = Len(s) + Len(t)
      /\ \A i \in 1 .. Len(s) : u[i] = s[i]
      /\ \A i \in 1 .. Len(t) : u[Len(s) + i] = t[i]
  BY Joined
<1> HIDE DEF u
<1> SUFFICES ASSUME NEW i \in 1 .. Len(u) - 1 PROVE Follows(u[i], u[i + 1])
  BY DEF Linked, u
<1>1. i \in Int /\ 1 <= i /\ i + 1 <= Len(s) + Len(t)
  BY <1>0
<1>2. CASE i + 1 <= Len(s)
  <2>1. i \in 1 .. Len(s) - 1 /\ i \in 1 .. Len(s) /\ i + 1 \in 1 .. Len(s)
    BY <1>0, <1>1, <1>2
  <2> QED BY <1>0, <2>1 DEF Linked
<1>3. CASE i = Len(s)
  <2>1. i \in 1 .. Len(s) /\ 1 \in 1 .. Len(t) /\ u[i + 1] = t[1] /\ u[i] = s[Len(s)]
    BY <1>0, <1>1, <1>3
  <2>2. s # <<>> /\ t # <<>>
    BY <1>0, <2>1, EmptySeq
  <2> QED BY <2>1, <2>2
<1>4. CASE i > Len(s)
  <2>1. PICK j \in 1 .. Len(t) - 1 : i = Len(s) + j
    <3>1. i - Len(s) \in 1 .. Len(t) - 1 /\ i = Len(s) + (i - Len(s))
      BY <1>0, <1>1, <1>4
    <3> QED BY <3>1
  <2>2. j \in 1 .. Len(t) /\ j + 1 \in 1 .. Len(t) /\ i + 1 = Len(s) + (j + 1)
    BY <1>0, <2>1
  <2>3. u[i] = t[j] /\ u[i + 1] = t[j + 1]
    BY <1>0, <2>1, <2>2
  <2> QED BY <2>1, <2>3 DEF Linked
<1>5. i + 1 <= Len(s) \/ i = Len(s) \/ i > Len(s)
  BY <1>0, <1>1
<1> QED BY <1>2, <1>3, <1>4, <1>5

(* The two parts of linked bytes are linked.                               *)
LEMMA LinkedCut ==
    ASSUME NEW s \in Seq(RequestByte), Linked(s), NEW n \in 0 .. Len(s)
    PROVE  Linked(SubSeq(s, 1, n)) /\ Linked(SubSeq(s, n + 1, Len(s)))
<1> DEFINE a == SubSeq(s, 1, n)
           b == SubSeq(s, n + 1, Len(s))
<1>0. Len(s) \in Nat /\ n \in Nat /\ n <= Len(s)
  OBVIOUS
<1>1. /\ Len(a) = n /\ \A i \in 1 .. n : a[i] = s[i]
      /\ Len(b) = Len(s) - n /\ \A i \in 1 .. Len(s) - n : b[i] = s[n + i]
  BY Cut
<1> HIDE DEF a, b
<1>2. ASSUME NEW i \in 1 .. Len(a) - 1 PROVE Follows(a[i], a[i + 1])
  <2>1. i \in 1 .. n /\ i + 1 \in 1 .. n /\ i \in 1 .. Len(s) - 1
    BY <1>0, <1>1
  <2> QED BY <1>1, <2>1 DEF Linked
<1>3. ASSUME NEW i \in 1 .. Len(b) - 1 PROVE Follows(b[i], b[i + 1])
  <2>1. /\ i \in 1 .. Len(s) - n /\ i + 1 \in 1 .. Len(s) - n
        /\ n + i \in 1 .. Len(s) - 1 /\ n + (i + 1) = (n + i) + 1
    BY <1>0, <1>1
  <2>2. b[i] = s[n + i] /\ b[i + 1] = s[(n + i) + 1]
    BY <1>1, <2>1
  <2> QED BY <2>1, <2>2 DEF Linked
<1> QED BY <1>2, <1>3 DEF Linked, a, b

(* Linked frames that meet are linked.                                     *)
LEMMA FramesJoin ==
    ASSUME NEW s \in Seq(Frame), NEW t \in Seq(Frame), FramesLinked(s), FramesLinked(t),
           s # <<>> /\ t # <<>> => FrameFollows(s[Len(s)], t[1])
    PROVE  FramesLinked(s \o t)
<1> DEFINE u == s \o t
<1>0. /\ u \in Seq(Frame) /\ Len(s) \in Nat /\ Len(t) \in Nat
      /\ Len(u) = Len(s) + Len(t)
      /\ \A i \in 1 .. Len(s) : u[i] = s[i]
      /\ \A i \in 1 .. Len(t) : u[Len(s) + i] = t[i]
  BY Joined
<1> HIDE DEF u
<1> SUFFICES ASSUME NEW i \in 1 .. Len(u) - 1 PROVE FrameFollows(u[i], u[i + 1])
  BY DEF FramesLinked, u
<1>1. i \in Int /\ 1 <= i /\ i + 1 <= Len(s) + Len(t)
  BY <1>0
<1>2. CASE i + 1 <= Len(s)
  <2>1. i \in 1 .. Len(s) - 1 /\ i \in 1 .. Len(s) /\ i + 1 \in 1 .. Len(s)
    BY <1>0, <1>1, <1>2
  <2> QED BY <1>0, <2>1 DEF FramesLinked
<1>3. CASE i = Len(s)
  <2>1. i \in 1 .. Len(s) /\ 1 \in 1 .. Len(t) /\ u[i + 1] = t[1] /\ u[i] = s[Len(s)]
    BY <1>0, <1>1, <1>3
  <2>2. s # <<>> /\ t # <<>>
    BY <1>0, <2>1, EmptySeq
  <2> QED BY <2>1, <2>2
<1>4. CASE i > Len(s)
  <2>1. PICK j \in 1 .. Len(t) - 1 : i = Len(s) + j
    <3>1. i - Len(s) \in 1 .. Len(t) - 1 /\ i = Len(s) + (i - Len(s))
      BY <1>0, <1>1, <1>4
    <3> QED BY <3>1
  <2>2. j \in 1 .. Len(t) /\ j + 1 \in 1 .. Len(t) /\ i + 1 = Len(s) + (j + 1)
    BY <1>0, <2>1
  <2>3. u[i] = t[j] /\ u[i + 1] = t[j + 1]
    BY <1>0, <2>1, <2>2
  <2> QED BY <2>1, <2>3 DEF FramesLinked
<1>5. i + 1 <= Len(s) \/ i = Len(s) \/ i > Len(s)
  BY <1>0, <1>1
<1> QED BY <1>2, <1>3, <1>4, <1>5

(* The two parts of linked frames are linked.                              *)
LEMMA FramesCut ==
    ASSUME NEW s \in Seq(Frame), FramesLinked(s), NEW n \in 0 .. Len(s)
    PROVE  FramesLinked(SubSeq(s, 1, n)) /\ FramesLinked(SubSeq(s, n + 1, Len(s)))
<1> DEFINE a == SubSeq(s, 1, n)
           b == SubSeq(s, n + 1, Len(s))
<1>0. Len(s) \in Nat /\ n \in Nat /\ n <= Len(s)
  OBVIOUS
<1>1. /\ Len(a) = n /\ \A i \in 1 .. n : a[i] = s[i]
      /\ Len(b) = Len(s) - n /\ \A i \in 1 .. Len(s) - n : b[i] = s[n + i]
  BY Cut
<1> HIDE DEF a, b
<1>2. ASSUME NEW i \in 1 .. Len(a) - 1 PROVE FrameFollows(a[i], a[i + 1])
  <2>1. i \in 1 .. n /\ i + 1 \in 1 .. n /\ i \in 1 .. Len(s) - 1
    BY <1>0, <1>1
  <2> QED BY <1>1, <2>1 DEF FramesLinked
<1>3. ASSUME NEW i \in 1 .. Len(b) - 1 PROVE FrameFollows(b[i], b[i + 1])
  <2>1. /\ i \in 1 .. Len(s) - n /\ i + 1 \in 1 .. Len(s) - n
        /\ n + i \in 1 .. Len(s) - 1 /\ n + (i + 1) = (n + i) + 1
    BY <1>0, <1>1
  <2>2. b[i] = s[n + i] /\ b[i + 1] = s[(n + i) + 1]
    BY <1>1, <2>1
  <2> QED BY <2>1, <2>2 DEF FramesLinked
<1> QED BY <1>2, <1>3 DEF FramesLinked, a, b

(* A byte has the fields of its type.                                      *)
LEMMA ByteFields ==
    ASSUME NEW s \in Seq(RequestByte), NEW i \in 1 .. Len(s)
    PROVE  /\ s[i].req \in Nat /\ s[i].at \in Nat /\ s[i].head \in Nat /\ s[i].size \in Nat
           /\ s[i].kind \in Kinds /\ s[i].sealed \in BOOLEAN
<1>1. s[i] \in RequestByte
  OBVIOUS
<1> QED BY <1>1 DEF RequestByte

(* A frame has the fields of its type.                                     *)
LEMMA FrameFields ==
    ASSUME NEW s \in Seq(Frame), NEW i \in 1 .. Len(s)
    PROVE  /\ s[i].sealed \in BOOLEAN /\ s[i].payload \in Seq(RequestByte)
           /\ s[i].at \in Nat /\ s[i].counter \in Nat /\ s[i].intact \in BOOLEAN
<1>1. s[i] \in Frame
  OBVIOUS
<1> QED BY <1>1 DEF Frame

(* The bytes of the first request of a linked sequence.                    *)
LEMMA FirstRequest ==
    ASSUME NEW s \in Seq(RequestByte), Linked(s), s # <<>>, s[1].at = 1
    PROVE  \A k \in 1 .. Len(s) :
              k <= s[1].size => /\ s[k].req = s[1].req /\ s[k].at = k
                                /\ s[k].size = s[1].size
<1>0. Len(s) \in Nat /\ 1 \in 1 .. Len(s)
  BY EmptySeq
<1>1. PICK size \in Nat : size = s[1].size
  BY <1>0, ByteFields
<1> DEFINE S == {k \in 1 .. Len(s) : k <= size => /\ s[k].req = s[1].req /\ s[k].at = k
                                                  /\ s[k].size = size}
<1>2. 1 \in S
  BY <1>0, <1>1
<1>3. ASSUME NEW k \in 1 .. Len(s), k + 1 <= Len(s), k \in S PROVE k + 1 \in S
  <2>1. k \in 1 .. Len(s) - 1 /\ k + 1 \in 1 .. Len(s) /\ k \in Int
    BY <1>0, <1>3
  <2>2. Follows(s[k], s[k + 1])
    BY <2>1 DEF Linked
  <2>3. ASSUME k + 1 <= size
        PROVE  s[k + 1].req = s[1].req /\ s[k + 1].at = k + 1 /\ s[k + 1].size = size
    <3>1. k <= size /\ k < size
      BY <2>1, <2>3
    <3>2. s[k].req = s[1].req /\ s[k].at = k /\ s[k].size = size
      BY <1>3, <3>1
    <3> QED BY <2>1, <2>2, <3>1, <3>2 DEF Follows
  <2> QED BY <2>1, <2>3
<1> HIDE DEF S
<1>4. \A k \in 1 .. Len(s) : k \in S
  BY <1>0, <1>2, <1>3, UpTo
<1> QED BY <1>1, <1>4 DEF S

(* The bytes of one request in a linked sequence.                          *)
LEMMA WithinRequest ==
    ASSUME NEW s \in Seq(RequestByte), Linked(s), s # <<>>,
           \A i \in 1 .. Len(s) : s[i].req = s[1].req
    PROVE  \A k \in 1 .. Len(s) : s[k].at = s[1].at + k - 1 /\ s[k].size = s[1].size
<1>0. Len(s) \in Nat /\ 1 \in 1 .. Len(s)
  BY EmptySeq
<1>1. PICK at \in Nat, size \in Nat, req \in Nat :
          at = s[1].at /\ size = s[1].size /\ req = s[1].req
  BY <1>0, ByteFields
<1> DEFINE S == {k \in 1 .. Len(s) : s[k].at = at + k - 1 /\ s[k].size = size}
<1>2. 1 \in S
  BY <1>0, <1>1
<1>3. ASSUME NEW k \in 1 .. Len(s), k + 1 <= Len(s), k \in S PROVE k + 1 \in S
  <2>1. k \in 1 .. Len(s) - 1 /\ k + 1 \in 1 .. Len(s) /\ k \in Int
    BY <1>0, <1>3
  <2>2. Follows(s[k], s[k + 1]) /\ s[k].req = req /\ s[k + 1].req = req
    BY <1>1, <2>1 DEF Linked
  <2>3. s[k].at = at + k - 1 /\ s[k].size = size
    BY <1>3
  <2>4. s[k + 1].at = (at + k - 1) + 1 /\ s[k + 1].size = size
    BY <2>2, <2>3 DEF Follows
  <2>5. (at + k - 1) + 1 = at + (k + 1) - 1
    BY <2>1
  <2> QED BY <2>1, <2>4, <2>5
<1> HIDE DEF S
<1>4. \A k \in 1 .. Len(s) : k \in S
  BY <1>0, <1>2, <1>3, UpTo
<1> QED BY <1>1, <1>4 DEF S

(* The bytes of the first record of a linked sequence of frames.           *)
LEMMA FirstFrames ==
    ASSUME NEW s \in Seq(Frame), FramesLinked(s), s # <<>>, s[1].at = 1
    PROVE  \A k \in 1 .. Len(s) :
              k <= FrameLen(s[1]) =>
                  /\ s[k].at = k /\ s[k].payload = s[1].payload
                  /\ s[k].sealed = s[1].sealed /\ s[k].counter = s[1].counter
                  /\ s[k].intact = s[1].intact
<1>0. Len(s) \in Nat /\ 1 \in 1 .. Len(s)
  BY EmptySeq
<1>1. PICK len \in Nat : len = FrameLen(s[1])
  <2>1. s[1].payload \in Seq(RequestByte)
    BY <1>0, FrameFields
  <2>2. Len(s[1].payload) \in Nat
    BY <2>1
  <2> QED BY <2>2, SizesAssumption DEF FrameLen
<1> DEFINE P(k) == /\ s[k].at = k /\ s[k].payload = s[1].payload
                   /\ s[k].sealed = s[1].sealed /\ s[k].counter = s[1].counter
                   /\ s[k].intact = s[1].intact
           S == {k \in 1 .. Len(s) : k <= len => P(k)}
<1>2. 1 \in S
  BY <1>0
<1>3. ASSUME NEW k \in 1 .. Len(s), k + 1 <= Len(s), k \in S PROVE k + 1 \in S
  <2>1. k \in 1 .. Len(s) - 1 /\ k + 1 \in 1 .. Len(s) /\ k \in Int
    BY <1>0, <1>3
  <2>2. FrameFollows(s[k], s[k + 1])
    BY <2>1 DEF FramesLinked
  <2>3. ASSUME k + 1 <= len
        PROVE  P(k + 1)
    <3>1. k <= len /\ k < len
      BY <2>1, <2>3
    <3>2. P(k)
      BY <1>3, <3>1
    <3>3. FrameLen(s[k]) = len
      BY <1>1, <3>2 DEF FrameLen
    <3>4. s[k].at < FrameLen(s[k])
      BY <3>1, <3>2, <3>3
    <3>5. ~(s[k].at = FrameLen(s[k]))
      BY <2>1, <3>1, <3>2, <3>3
    <3> QED BY <2>2, <3>2, <3>4, <3>5 DEF FrameFollows
  <2> QED BY <2>1, <2>3
<1> HIDE DEF S
<1>4. \A k \in 1 .. Len(s) : k \in S
  BY <1>0, <1>2, <1>3, UpTo
<1> QED BY <1>1, <1>4 DEF S

----------------------------------------------------------------------------
(* The steps of the channel.                                               *)

(* What is received in the next state, in the terms of that state.         *)
LEMMA RxNext ==
    ASSUME AllOk(rx', next'), Linked(rx'), rx' # <<>> => Follows(Origin', rx'[1])
    PROVE  RxInv'
BY DEF RxInv, AllOk, ByteOk, Linked, Follows

(* What is on its way in the next state, in the terms of that state.       *)
LEMMA ComingNext ==
    ASSUME FramesLinked(Coming'),
           \A i \in 1 .. Len(Coming') : FrameOk(Coming'[i], next'),
           Coming' # <<>> =>
              Coming'[1].at = 1 /\ Follows(LastOf(Origin', rx'), Coming'[1].payload[1]),
           ~eof' /\ Coming' # <<>> =>
              LET last == Coming'[Len(Coming')] IN
              last.at = FrameLen(last) /\ (last.sealed => tx_counter' = last.counter + 1)
    PROVE  ComingInv'
BY DEF ComingInv, FramesLinked, FrameFollows, FrameOk, FrameLen, AllOk, ByteOk, Linked,
       Follows, LastOf

(* What is not transmitted in the next state, likewise.                    *)
LEMMA PlainNext ==
    ASSUME AllOk(plain', next'), Linked(plain'),
           \A i, j \in 1 .. Len(plain') : i <= j => plain'[i].req <= plain'[j].req,
           plain' # <<>> => Follows(LastSent', plain'[1]),
           LET last == LastOf(LastSent', plain') IN
           last.at = last.size /\ last.req = next' - 1
    PROVE  PlainInv'
BY DEF PlainInv, AllOk, ByteOk, Linked, Follows, LastOf

(* A connection without fault in the next state, likewise.                 *)
LEMMA CleanNext ==
    ASSUME ~eof',
           \A i \in 1 .. Len(plain') : ByteClean(plain'[i], asked'),
           \A i \in 1 .. Len(rx') :
              ByteClean(rx'[i], asked') /\ (~encrypted' => InClear(rx'[i], asked')),
           \A i \in 1 .. Len(Coming') : FrameClean(Coming'[i], asked'),
           encrypted' => asked' # 0 /\ \A i \in 1 .. Len(Coming') : Coming'[i].sealed,
           encrypted' /\ ~seals' => rx' = <<>> /\ handled' = asked',
           IF Coming' = <<>> THEN tx_counter' = read_counter'
           ELSE Coming'[1].sealed => Coming'[1].counter = read_counter'
    PROVE  CleanInv'
BY DEF CleanInv, ByteClean, InClear, FrameClean

(* A request number that is used stays a valid one.                        *)
LEMMA OkLater ==
    ASSUME NEW s \in Seq(RequestByte), NEW n \in Nat, AllOk(s, n)
    PROVE  AllOk(s, n + 1)
<1> SUFFICES ASSUME NEW i \in 1 .. Len(s) PROVE ByteOk(s[i], n + 1)
  BY DEF AllOk
<1>1. ByteOk(s[i], n) /\ s[i].req \in Nat
  BY ByteFields DEF AllOk
<1> QED BY <1>1 DEF ByteOk

(* The end of one request stands for its last byte.                        *)
LEMMA SameEnd ==
    ASSUME NEW a, NEW b, a.at = a.size, b.at = b.size, a.req = b.req,
           a.at \in Int, b.at \in Int, NEW c, Follows(a, c)
    PROVE  Follows(b, c)
BY DEF Follows

(* What closing a connection has to show: the rules were broken.           *)
LEMMA CloseKeeps ==
    ASSUME ChannelInv, close_client, UNCHANGED <<wire, sender, eof>>, handled' \in Nat,
           nonces' \in Seq(Nat), Len(nonces') <= MaxCounter,
           \A i \in 1 .. Len(nonces') : nonces'[i] = i - 1,
           faults' # {}
    PROVE  ChannelInv'
<1>1. ChannelTypes'
  <2>1. <<>> \in Seq(RequestByte) /\ <<>> \in Seq(Frame)
    OBVIOUS
  <2> QED BY <2>1 DEF ChannelInv, ChannelTypes, close_client, sender
<1>2. ModeInv'
  BY DEF ChannelInv, ModeInv, close_client, sender
<1>3. NonceInv'
  BY DEF NonceInv, close_client
<1> QED BY <1>1, <1>2, <1>3 DEF ChannelInv, BoundaryHolds, ClosedForCause, close_client

(* The bytes of a request the sender writes.                               *)
LEMMA BytesOfRequest ==
    ASSUME NEW n \in Nat, n >= 1, NEW kind \in Kinds,
           NEW shape \in Shapes, NEW b, b = Bytes(n, kind, shape)
    PROVE  /\ b \in Seq(RequestByte) /\ Len(b) = shape.size /\ shape.size \in Nat
           /\ shape.size >= 1 /\ b # <<>> /\ Linked(b) /\ AllOk(b, n + 1)
           /\ \A i \in 1 .. Len(b) : /\ b[i].req = n /\ b[i].at = i
                                     /\ b[i].size = shape.size /\ b[i].kind = kind
<1>0. shape.size \in Nat /\ shape.head \in 1 .. shape.size /\ shape.size >= 1
  BY ShapesAssumption
<1>1. ASSUME NEW i \in 1 .. shape.size
      PROVE  [req |-> n, at |-> i, head |-> shape.head, size |-> shape.size,
              kind |-> kind, sealed |-> FALSE] \in RequestByte
  BY <1>0 DEF RequestByte
<1>2. b \in Seq(RequestByte) /\ Len(b) = shape.size
  BY <1>0, <1>1 DEF Bytes
<1>3. ASSUME NEW i \in 1 .. shape.size
      PROVE  /\ b[i].req = n /\ b[i].at = i /\ b[i].size = shape.size /\ b[i].kind = kind
             /\ b[i].head = shape.head
  BY DEF Bytes
<1>4. Linked(b)
  <2> SUFFICES ASSUME NEW i \in 1 .. Len(b) - 1 PROVE Follows(b[i], b[i + 1])
    BY DEF Linked
  <2>1. i \in 1 .. shape.size /\ i + 1 \in 1 .. shape.size /\ i < shape.size
    BY <1>0, <1>2
  <2>2. /\ b[i].req = n /\ b[i].at = i /\ b[i].size = shape.size
        /\ b[i + 1].req = n /\ b[i + 1].at = i + 1 /\ b[i + 1].size = shape.size
    BY <1>3, <2>1
  <2> QED BY <2>1, <2>2 DEF Follows
<1>5. AllOk(b, n + 1)
  <2> SUFFICES ASSUME NEW i \in 1 .. Len(b) PROVE ByteOk(b[i], n + 1)
    BY DEF AllOk
  <2>1. i \in 1 .. shape.size
    BY <1>2
  <2> QED BY <1>0, <1>3, <2>1 DEF ByteOk
<1>6. b # <<>>
  BY <1>0, <1>2, EmptySeq
<1>7. \A i \in 1 .. Len(b) : /\ b[i].req = n /\ b[i].at = i
                             /\ b[i].size = shape.size /\ b[i].kind = kind
  BY <1>2, <1>3
<1> QED BY <1>0, <1>2, <1>4, <1>5, <1>6, <1>7

(* The sender writes a request behind the others.                          *)
LEMMA WriteKeeps ==
    ASSUME ChannelInv, NEW kind \in Kinds, NEW shape \in Shapes,
           Write(kind, shape)
    PROVE  ChannelInv'
<1>b. PICK b : b = Bytes(next, kind, shape)
  OBVIOUS
<1>0. /\ open /\ ~eof /\ plain' = plain \o b /\ next' = next + 1
      /\ kind = "pair" => asked = 0
      /\ asked' = IF kind = "pair" THEN next ELSE asked
      /\ faults' = faults \cup
            IF kind = "malformed" \/ shape.size > RxSize THEN {"sender"} ELSE {}
      /\ UNCHANGED <<receiver, seals, tx_counter, wire, eof, handled, nonces>>
  BY <1>b DEF Write
<1>1. /\ b \in Seq(RequestByte) /\ Len(b) = shape.size /\ shape.size \in Nat
      /\ shape.size >= 1 /\ b # <<>> /\ Linked(b) /\ AllOk(b, next + 1)
      /\ \A i \in 1 .. Len(b) : /\ b[i].req = next /\ b[i].at = i
                                /\ b[i].size = shape.size /\ b[i].kind = kind
  <2>1. next \in Nat /\ next >= 1
    BY DEF ChannelInv, ChannelTypes
  <2>2. b \in Seq(RequestByte) /\ Len(b) = shape.size /\ shape.size \in Nat
    BY <1>b, <2>1, BytesOfRequest
  <2>3. shape.size >= 1 /\ b # <<>> /\ Linked(b)
    BY <1>b, <2>1, BytesOfRequest
  <2>4. AllOk(b, next + 1)
    BY <1>b, <2>1, BytesOfRequest
  <2>5. ASSUME NEW i \in 1 .. Len(b)
        PROVE  b[i].req = next /\ b[i].at = i /\ b[i].size = shape.size /\ b[i].kind = kind
    BY <1>b, <2>2 DEF Bytes
  <2> QED BY <2>2, <2>3, <2>4, <2>5
<1>2. ChannelTypes /\ ModeInv /\ NonceInv /\ RxInv /\ ComingInv /\ PlainInv
  BY <1>0 DEF ChannelInv
<1>3. /\ plain \in Seq(RequestByte) /\ rx \in Seq(RequestByte) /\ next \in Nat /\ next >= 1
      /\ asked \in Nat /\ Len(plain) \in Nat /\ record \in Seq(Frame) /\ wire \in Seq(Frame)
  BY <1>2 DEF ChannelTypes
<1>4. Coming' = Coming /\ rx' = rx /\ Origin' = Origin /\ LastSent' = LastSent
  <2>1. Coming' = Coming /\ rx' = rx /\ Origin' = Origin
    BY <1>0 DEF Coming, receiver, Origin
  <2> QED BY <2>1 DEF LastSent, LastOf
<1>5. plain' \in Seq(RequestByte) /\ Len(plain') = Len(plain) + Len(b)
  BY <1>0, <1>1, <1>3, Joined
<1>6. asked' \in Nat /\ asked' < next'
  BY <1>0, <1>2, <1>3 DEF ModeInv
<1>7. ChannelTypes'
  BY <1>0, <1>2, <1>3, <1>5, <1>6 DEF ChannelTypes, receiver
<1>8. ModeInv'
  BY <1>0, <1>2, <1>4, <1>6 DEF ModeInv, receiver
<1>9. NonceInv' /\ BoundaryHolds'
  BY <1>0, <1>2 DEF ChannelInv, NonceInv, BoundaryHolds, receiver
<1>10. RxInv'
  <2>1. AllOk(rx, next + 1)
    BY <1>2, <1>3, OkLater DEF RxInv
  <2> QED BY <1>0, <1>2, <1>4, <2>1, RxNext DEF RxInv
<1>11. Coming \in Seq(Frame)
  BY <1>3, LenJoined DEF Coming
<1>12. ComingInv'
  <2>1. ASSUME NEW i \in 1 .. Len(Coming) PROVE FrameOk(Coming[i], next + 1)
    <3>1. FrameOk(Coming[i], next) /\ Coming[i].payload \in Seq(RequestByte)
      BY <1>2, <1>11, FrameFields DEF ComingInv
    <3>2. AllOk(Coming[i].payload, next + 1)
      BY <1>3, <3>1, OkLater DEF FrameOk
    <3> QED BY <3>1, <3>2 DEF FrameOk
  <2>2. eof' = eof /\ tx_counter' = tx_counter /\ next' = next + 1
    BY <1>0
  <2> QED BY <1>2, <1>4, <2>1, <2>2, ComingNext DEF ComingInv
<1>13. PlainInv'
  <2>1. /\ AllOk(plain, next) /\ Linked(plain)
        /\ \A i, j \in 1 .. Len(plain) : i <= j => plain[i].req <= plain[j].req
        /\ plain # <<>> => Follows(LastSent, plain[1])
        /\ LastOf(LastSent, plain).at = LastOf(LastSent, plain).size
        /\ LastOf(LastSent, plain).req = next - 1
    BY <1>2 DEF PlainInv
  <2>2. 1 \in 1 .. Len(b) /\ Len(b) \in 1 .. Len(b)
    BY <1>1
  <2>3. Follows(LastOf(LastSent, plain), b[1])
    BY <1>1, <1>3, <2>1, <2>2 DEF Follows
  <2>4. Linked(plain')
    <3>1. plain # <<>> => Follows(plain[Len(plain)], b[1])
      BY <2>3 DEF LastOf
    <3> QED BY <1>0, <1>1, <1>3, <2>1, <3>1, LinkedJoin
  <2>5. ASSUME NEW i \in 1 .. Len(plain')
        PROVE  \/ i \in 1 .. Len(plain) /\ plain'[i] = plain[i]
               \/ \E j \in 1 .. Len(b) : i = Len(plain) + j /\ plain'[i] = b[j]
    <3>1. b \in Seq(RequestByte) /\ plain \in Seq(RequestByte) /\ plain' = plain \o b
      BY <1>0, <1>1, <1>3
    <3> QED BY <3>1, JoinedAt
  <2>6. AllOk(plain', next')
    <3>1. AllOk(plain, next + 1)
      BY <1>3, <2>1, OkLater
    <3>2. ASSUME NEW i \in 1 .. Len(plain') PROVE ByteOk(plain'[i], next + 1)
      BY <1>1, <2>5, <3>1 DEF AllOk
    <3> QED BY <1>0, <3>2 DEF AllOk
  <2>7. ASSUME NEW i \in 1 .. Len(plain'), NEW j \in 1 .. Len(plain'), i <= j
        PROVE  plain'[i].req <= plain'[j].req
    <3>1. \A k \in 1 .. Len(plain) : plain[k].req \in Nat /\ plain[k].req < next
      BY <1>3, <2>1, ByteFields DEF AllOk, ByteOk
    <3>2. \A k \in 1 .. Len(b) : b[k].req = next
      BY <1>1
    <3>3. CASE j \in 1 .. Len(plain) /\ plain'[j] = plain[j]
      <4>1. i \in 1 .. Len(plain)
        BY <1>1, <1>3, <1>5, <2>7, <3>3
      <4>2. plain'[i] = plain[i]
        BY <1>0, <1>1, <1>3, <4>1, Joined
      <4> QED BY <2>1, <2>7, <3>3, <4>1, <4>2
    <3>4. CASE \E k \in 1 .. Len(b) : plain'[j] = b[k]
      <4>1. plain'[j].req = next
        BY <3>2, <3>4
      <4>2. plain'[i].req \in Nat /\ plain'[i].req <= next
        <5>1. CASE i \in 1 .. Len(plain) /\ plain'[i] = plain[i]
          BY <1>3, <3>1, <5>1
        <5>2. CASE \E k \in 1 .. Len(b) : plain'[i] = b[k]
          BY <1>3, <3>2, <5>2
        <5> QED BY <2>5, <5>1, <5>2
      <4> QED BY <4>1, <4>2
    <3> QED BY <2>5, <3>3, <3>4
  <2>8. plain' # <<>> /\ Follows(LastSent, plain'[1])
    <3>1. CASE plain = <<>>
      <4>1. plain' = b
        BY <1>0, <1>1, <1>3, <3>1, JoinedEnds
      <4> QED BY <1>1, <2>3, <3>1, <4>1 DEF LastOf
    <3>2. CASE plain # <<>>
      <4>1. plain'[1] = plain[1]
        BY <1>0, <1>1, <1>3, <3>2, JoinedEnds
      <4>2. plain' # <<>>
        BY <1>0, <1>1, <1>3, <3>2, Joined
      <4> QED BY <2>1, <3>2, <4>1, <4>2
    <3> QED BY <3>1, <3>2
  <2>9. LastOf(LastSent, plain') = b[Len(b)]
    BY <1>0, <1>1, <1>3, <2>8, JoinedEnds DEF LastOf
  <2>10. b[Len(b)].at = b[Len(b)].size /\ b[Len(b)].req = next' - 1
    <3>1. b[Len(b)].at = Len(b) /\ b[Len(b)].size = Len(b) /\ b[Len(b)].req = next
      BY <1>1, <2>2
    <3> QED BY <1>0, <1>3, <3>1
  <2> QED BY <1>4, <2>4, <2>6, <2>7, <2>8, <2>9, <2>10, PlainNext
<1>14. ASSUME faults' = {} PROVE CleanInv'
  <2>1. faults = {} /\ kind # "malformed" /\ shape.size <= RxSize
    <3>1. faults = {} /\ ~(kind = "malformed" \/ shape.size > RxSize)
      BY <1>0, <1>14
    <3> QED BY <1>1, <3>1, SizesAssumption
  <2>2. CleanInv
    BY <1>0, <2>1 DEF ChannelInv
  <2>3. ASSUME NEW x, 1 <= x.req, x.req < next, x.req \in Nat
        PROVE  /\ ByteClean(x, asked) => ByteClean(x, asked')
               /\ InClear(x, asked) => InClear(x, asked')
    <3>1. CASE kind = "pair"
      BY <1>0, <1>3, <2>3, <3>1 DEF ByteClean, InClear
    <3>2. CASE kind # "pair"
      BY <1>0, <3>2
    <3> QED BY <3>1, <3>2
  <2>4. ASSUME NEW s \in Seq(RequestByte), AllOk(s, next), NEW i \in 1 .. Len(s)
        PROVE  1 <= s[i].req /\ s[i].req < next /\ s[i].req \in Nat
    BY <2>4, ByteFields DEF AllOk, ByteOk
  <2>5. ASSUME NEW i \in 1 .. Len(plain') PROVE ByteClean(plain'[i], asked')
    <3>1. CASE i \in 1 .. Len(plain) /\ plain'[i] = plain[i]
      <4>1. ByteClean(plain[i], asked)
        BY <2>2, <3>1 DEF CleanInv
      <4> QED BY <1>2, <1>3, <2>3, <2>4, <3>1, <4>1 DEF PlainInv
    <3>2. CASE \E j \in 1 .. Len(b) : i = Len(plain) + j /\ plain'[i] = b[j]
      <4>1. PICK j \in 1 .. Len(b) : plain'[i] = b[j]
        BY <3>2
      <4>2. b[j].req = next /\ b[j].size = shape.size /\ b[j].kind = kind
        BY <1>1
      <4> QED BY <1>0, <2>1, <4>1, <4>2 DEF ByteClean
    <3>3. plain \in Seq(RequestByte) /\ b \in Seq(RequestByte) /\ i \in 1 .. Len(plain \o b)
      BY <1>0, <1>1, <1>3
    <3>4. \/ i \in 1 .. Len(plain) /\ (plain \o b)[i] = plain[i]
          \/ \E j \in 1 .. Len(b) : i = Len(plain) + j /\ (plain \o b)[i] = b[j]
      BY ONLY <3>3, BytesJoinedAt, Zenon
    <3>5. plain' = plain \o b
      BY <1>0, <1>3
    <3> QED BY ONLY <3>1, <3>2, <3>4, <3>5
  <2>6. ASSUME NEW i \in 1 .. Len(rx)
        PROVE  ByteClean(rx[i], asked') /\ (~encrypted' => InClear(rx[i], asked'))
    <3>1. ByteClean(rx[i], asked) /\ (~encrypted => InClear(rx[i], asked))
      BY <2>2 DEF CleanInv
    <3>2. encrypted' = encrypted
      BY <1>0 DEF receiver
    <3> QED BY <1>2, <1>3, <2>3, <2>4, <3>1, <3>2 DEF RxInv
  <2>7. ASSUME NEW i \in 1 .. Len(Coming) PROVE FrameClean(Coming[i], asked')
    <3>1. /\ FrameClean(Coming[i], asked) /\ FrameOk(Coming[i], next)
          /\ Coming[i].payload \in Seq(RequestByte)
      BY <1>2, <1>11, <2>2, FrameFields DEF CleanInv, ComingInv
    <3>2. \A j \in 1 .. Len(Coming[i].payload) :
             /\ 1 <= Coming[i].payload[j].req /\ Coming[i].payload[j].req < next
             /\ Coming[i].payload[j].req \in Nat
      BY <2>4, <3>1 DEF FrameOk
    <3>3. 1 \in 1 .. Len(Coming[i].payload)
      BY <3>1, EmptySeq DEF FrameOk
    <3> QED BY <2>3, <3>1, <3>2, <3>3 DEF FrameClean
  <2>8. /\ encrypted' => asked' # 0 /\ \A i \in 1 .. Len(Coming) : Coming[i].sealed
        /\ encrypted' /\ ~seals' => rx = <<>> /\ handled' = asked'
    BY <1>0, <1>3, <2>2 DEF CleanInv, receiver
  <2>9. ~eof' /\ read_counter' = read_counter /\ tx_counter' = tx_counter
    BY <1>0 DEF receiver
  <2> QED BY <1>4, <2>2, <2>5, <2>6, <2>7, <2>8, <2>9, CleanNext DEF CleanInv
<1>15. open' = open /\ eof' = eof /\ ClosedForCause'
  BY <1>0 DEF receiver, ClosedForCause
<1> QED BY <1>7, <1>8, <1>9, <1>10, <1>12, <1>13, <1>14, <1>15 DEF ChannelInv

(* Appending to the second of two joined sequences.                        *)
LEMMA Appended ==
    ASSUME NEW S, NEW d \in Seq(S), NEW w \in Seq(S), NEW c \in Seq(S), c # <<>>
    PROVE  /\ d \o (w \o c) = (d \o w) \o c
           /\ (d \o w) \o c \in Seq(S) /\ (d \o w) \o c # <<>>
           /\ ((d \o w) \o c)[Len((d \o w) \o c)] = c[Len(c)]
           /\ d \o w = <<>> => (d \o w) \o c = c
           /\ d \o w # <<>> => ((d \o w) \o c)[1] = (d \o w)[1]
<1>1. d \o w \in Seq(S)
  BY LenJoined
<1>2. d \o (w \o c) = (d \o w) \o c
  <2>1. d \in Seq(S) /\ w \in Seq(S) /\ c \in Seq(S)
    OBVIOUS
  <2> QED BY ONLY <2>1, SMTT(30)
<1>3. PICK t \in Seq(S) : t = d \o w
  BY <1>1
<1>4. t \o c \in Seq(S) /\ t \o c # <<>>
  BY Joined
<1>5. (t \o c)[Len(t \o c)] = c[Len(c)]
  BY JoinedEnds, Zenon
<1>6. (t = <<>> => t \o c = c) /\ (t # <<>> => (t \o c)[1] = t[1])
  <2>1. t \in Seq(S) /\ c \in Seq(S)
    OBVIOUS
  <2>2. t = <<>> => t \o c = c
    BY ONLY <2>1, JoinedEnds, Zenon
  <2>3. t # <<>> => (t \o c)[1] = t[1]
    BY ONLY <2>1, JoinedEnds, Zenon
  <2> QED BY ONLY <2>2, <2>3
<1> QED BY <1>2, <1>3, <1>4, <1>5, <1>6, Zenon

(* The sender transmits its next n bytes as the frames c.                  *)
LEMMA SentKeeps ==
    ASSUME ChannelInv, open, ~eof, NEW n \in 1 .. Len(plain), NEW c \in Seq(Frame),
           c # <<>>, FramesLinked(c), \A i \in 1 .. Len(c) : FrameOk(c[i], next),
           c[1].at = 1, c[1].payload[1] = plain[1],
           c[Len(c)].at = FrameLen(c[Len(c)]),
           c[Len(c)].payload[Len(c[Len(c)].payload)] = plain[n],
           c[Len(c)].sealed => tx_counter' = c[Len(c)].counter + 1,
           IF seals THEN c[1].sealed /\ c[1].counter = tx_counter /\ tx_counter' \in 0 .. MaxCounter
                    ELSE tx_counter' = tx_counter /\ \A i \in 1 .. Len(c) : ~c[i].sealed,
           wire' = wire \o c, plain' = SubSeq(plain, n + 1, Len(plain)),
           UNCHANGED <<receiver, next, asked, seals, eof, handled, nonces>>,
           faults' = {} => /\ faults = {}
                           /\ \A i \in 1 .. Len(c) :
                                 FrameClean(c[i], asked) /\ (encrypted => c[i].sealed)
    PROVE  ChannelInv'
<1>0. ChannelTypes /\ ModeInv /\ NonceInv /\ RxInv /\ ComingInv /\ PlainInv
  BY DEF ChannelInv
<1>1. /\ plain \in Seq(RequestByte) /\ rx \in Seq(RequestByte) /\ record \in Seq(Frame)
      /\ wire \in Seq(Frame) /\ Coming \in Seq(Frame)
  BY <1>0, LenJoined DEF ChannelTypes, Coming
<1>2. /\ open' = open /\ encrypted' = encrypted /\ rx' = rx /\ record' = record
      /\ read_counter' = read_counter /\ write_counter' = write_counter /\ pc' = pc
      /\ next' = next /\ asked' = asked /\ seals' = seals /\ eof' = eof
      /\ handled' = handled /\ nonces' = nonces /\ Origin' = Origin
  BY DEF receiver, Origin
<1>3. wire' \in Seq(Frame)
  BY <1>1, LenJoined
<1>a. record \in Seq(Frame) /\ wire \in Seq(Frame) /\ c \in Seq(Frame) /\ c # <<>>
  BY <1>1
<1>4. Coming' = Coming \o c
  <2>1. record \o (wire \o c) = (record \o wire) \o c
    BY ONLY <1>a, FramesAssociated, Zenon
  <2> QED BY <1>2, <2>1 DEF Coming
<1>5. /\ Coming' \in Seq(Frame) /\ Coming' # <<>> /\ Coming'[Len(Coming')] = c[Len(c)]
      /\ Coming = <<>> => Coming' = c
      /\ Coming # <<>> => Coming'[1] = Coming[1]
  <2>1. Coming \o c \in Seq(Frame) /\ Coming \o c # <<>>
    BY ONLY <1>a, Appended DEF Coming
  <2>2. (Coming \o c)[Len(Coming \o c)] = c[Len(c)]
    BY ONLY <1>a, Appended DEF Coming
  <2>3. (Coming = <<>> => Coming \o c = c) /\ (Coming # <<>> => (Coming \o c)[1] = Coming[1])
    BY ONLY <1>a, Appended DEF Coming
  <2> QED BY <1>4, <2>1, <2>2, <2>3, Zenon
<1>6. ASSUME NEW i \in 1 .. Len(Coming')
      PROVE  \/ i \in 1 .. Len(Coming) /\ Coming'[i] = Coming[i]
             \/ \E j \in 1 .. Len(c) : Coming'[i] = c[j]
  BY <1>1, <1>4, JoinedAt
<1>7. 1 \in 1 .. Len(c) /\ Len(c) \in 1 .. Len(c)
  BY EmptySeq
<1>8. Len(plain) \in Nat /\ n \in Nat /\ n <= Len(plain) /\ n >= 1 /\ n \in 0 .. Len(plain)
  BY <1>1
<1>9. /\ plain' \in Seq(RequestByte) /\ Len(plain') = Len(plain) - n
      /\ \A i \in 1 .. Len(plain) - n : n + i \in 1 .. Len(plain) /\ plain'[i] = plain[n + i]
  <2>1. /\ plain \in Seq(RequestByte) /\ n \in 0 .. Len(plain)
        /\ plain' = SubSeq(plain, n + 1, Len(plain))
    BY <1>1, <1>8
  <2> QED BY ONLY <2>1, Cut
<1>10. ChannelTypes'
  BY <1>0, <1>2, <1>3, <1>9 DEF ChannelTypes
<1>11. ModeInv'
  <2>1. ASSUME open', ~seals'
        PROVE  tx_counter' = 0 /\ \A i \in 1 .. Len(Coming') : ~Coming'[i].sealed
    <3>1. ~seals /\ tx_counter = 0 /\ \A i \in 1 .. Len(Coming) : ~Coming[i].sealed
      BY <1>0, <1>2, <2>1 DEF ModeInv
    <3>2. tx_counter' = 0 /\ \A i \in 1 .. Len(c) : ~c[i].sealed
      BY <3>1
    <3> QED BY <1>6, <3>1, <3>2
  <2> QED BY <1>0, <1>2, <2>1 DEF ModeInv
<1>12. NonceInv' /\ BoundaryHolds'
  BY <1>0, <1>2 DEF ChannelInv, NonceInv, BoundaryHolds
<1>13. RxInv'
  BY <1>0, <1>2, RxNext DEF RxInv
<1>14. plain # <<>> /\ Follows(LastSent, plain[1])
  <2>1. plain # <<>>
    BY <1>8, EmptySeq
  <2> QED BY <1>0, <2>1 DEF PlainInv
<1>15. ComingInv'
  <2>1. FramesLinked(Coming')
    <3>1. ASSUME Coming # <<>> PROVE FrameFollows(Coming[Len(Coming)], c[1])
      <4>1. /\ Coming[Len(Coming)].at = FrameLen(Coming[Len(Coming)])
            /\ Coming[Len(Coming)].sealed => tx_counter = Coming[Len(Coming)].counter + 1
        BY <1>0, <3>1 DEF ComingInv
      <4>2. Follows(Coming[Len(Coming)].payload[Len(Coming[Len(Coming)].payload)],
                    c[1].payload[1])
        BY <1>14, <3>1 DEF LastSent
      <4>3. Coming[Len(Coming)].sealed => c[1].sealed /\ c[1].counter = tx_counter
        <5>1. Len(Coming) \in 1 .. Len(Coming)
          BY <1>1, <3>1, EmptySeq
        <5> QED BY <1>0, <5>1 DEF ModeInv
      <4> QED BY <4>1, <4>2, <4>3 DEF FrameFollows
    <3> QED BY <1>0, <1>1, <1>4, <3>1, FramesJoin DEF ComingInv
  <2>2. \A i \in 1 .. Len(Coming') : FrameOk(Coming'[i], next')
    BY <1>0, <1>2, <1>6 DEF ComingInv
  <2>3. Coming'[1].at = 1 /\ Follows(LastOf(Origin', rx'), Coming'[1].payload[1])
    <3>1. CASE Coming = <<>>
      BY <1>2, <1>5, <1>14, <3>1 DEF LastSent
    <3>2. CASE Coming # <<>>
      BY <1>0, <1>2, <1>5, <3>2 DEF ComingInv
    <3> QED BY <3>1, <3>2
  <2> QED BY <1>5, <2>1, <2>2, <2>3, ComingNext
<1>16. PlainInv'
  <2>1. LastSent' = plain[n]
    BY <1>5 DEF LastSent
  <2>2. AllOk(plain', next')
    BY <1>0, <1>2, <1>9 DEF PlainInv, AllOk
  <2>3. Linked(plain')
    BY <1>0, <1>1, <1>8, LinkedCut DEF PlainInv
  <2>4. ASSUME NEW i \in 1 .. Len(plain'), NEW j \in 1 .. Len(plain'), i <= j
        PROVE  plain'[i].req <= plain'[j].req
    <3>1. n + i \in 1 .. Len(plain) /\ n + j \in 1 .. Len(plain) /\ n + i <= n + j
      BY <1>8, <1>9, <2>4
    <3>2. plain[n + i].req <= plain[n + j].req
      BY <1>0, <3>1 DEF PlainInv
    <3> QED BY <1>9, <3>2
  <2>5. ASSUME plain' # <<>> PROVE Follows(plain[n], plain'[1])
    <3>1. 1 \in 1 .. Len(plain) - n
      BY <1>9, <2>5, EmptySeq
    <3>2. n \in 1 .. Len(plain) - 1
      BY <1>8, <3>1
    <3> QED BY <1>0, <1>9, <3>1, <3>2 DEF PlainInv, Linked
  <2>6. LastOf(plain[n], plain') = plain[Len(plain)]
    <3>1. CASE plain' = <<>>
      <4>1. Len(plain) - n = 0
        BY <1>9, <3>1
      <4>2. n = Len(plain)
        BY <1>8, <4>1
      <4> QED BY <3>1, <4>2 DEF LastOf
    <3>2. CASE plain' # <<>>
      <4>1. Len(plain) - n \in 1 .. Len(plain) - n /\ n + (Len(plain) - n) = Len(plain)
        BY <1>8, <1>9, <3>2, EmptySeq
      <4> QED BY <1>9, <3>2, <4>1 DEF LastOf
    <3> QED BY <3>1, <3>2
  <2>7. plain[Len(plain)].at = plain[Len(plain)].size /\ plain[Len(plain)].req = next' - 1
    BY <1>0, <1>2, <1>14 DEF PlainInv, LastOf
  <2> QED BY <2>1, <2>2, <2>3, <2>4, <2>5, <2>6, <2>7, PlainNext
<1>17. ASSUME faults' = {} PROVE CleanInv'
  <2>1. CleanInv
    BY <1>17 DEF ChannelInv
  <2>2. \A i \in 1 .. Len(plain') : ByteClean(plain'[i], asked')
    BY <1>2, <1>9, <2>1 DEF CleanInv
  <2>3. \A i \in 1 .. Len(Coming') : FrameClean(Coming'[i], asked')
    BY <1>2, <1>6, <1>17, <2>1 DEF CleanInv
  <2>4. encrypted' => asked' # 0 /\ \A i \in 1 .. Len(Coming') : Coming'[i].sealed
    BY <1>2, <1>6, <1>17, <2>1 DEF CleanInv
  <2>5. Coming'[1].sealed => Coming'[1].counter = read_counter'
    <3>1. CASE Coming = <<>>
      <4>1. Coming'[1] = c[1] /\ tx_counter = read_counter
        BY <1>5, <2>1, <3>1 DEF CleanInv
      <4> QED BY <1>2, <1>7, <4>1
    <3>2. CASE Coming # <<>>
      BY <1>2, <1>5, <2>1, <3>2 DEF CleanInv
    <3> QED BY <3>1, <3>2
  <2> QED BY <1>2, <1>5, <2>1, <2>2, <2>3, <2>4, <2>5, CleanNext DEF CleanInv
<1>18. ClosedForCause'
  BY <1>2 DEF ClosedForCause
<1> QED BY <1>2, <1>10, <1>11, <1>12, <1>13, <1>15, <1>16, <1>17, <1>18 DEF ChannelInv

(* One byte on the wire in clear.                                          *)
LEMMA ClearFrame ==
    ASSUME NEW b \in RequestByte, NEW n \in Nat, ByteOk(b, n)
    PROVE  /\ Clear(b) \in Frame /\ FrameOk(Clear(b), n)
           /\ ~Clear(b).sealed /\ Clear(b).at = 1 /\ FrameLen(Clear(b)) = 1
           /\ Len(Clear(b).payload) = 1 /\ Clear(b).payload[1] = b
<1>1. <<b>> \in Seq(RequestByte) /\ Len(<<b>>) = 1 /\ <<b>>[1] = b /\ <<b>> # <<>>
  OBVIOUS
<1>2. Clear(b) \in Frame
  BY <1>1 DEF Clear, Frame
<1>3. /\ ~Clear(b).sealed /\ Clear(b).at = 1 /\ Clear(b).payload = <<b>>
      /\ FrameLen(Clear(b)) = 1
  BY DEF Clear, FrameLen
<1>4. Linked(<<b>>) /\ AllOk(<<b>>, n)
  BY <1>1 DEF Linked, AllOk
<1>5. FrameOk(Clear(b), n)
  BY <1>1, <1>3, <1>4 DEF FrameOk
<1> QED BY <1>1, <1>2, <1>3, <1>5

(* The sender transmits bytes in clear.                                    *)
LEMMA TransmitClearKeeps ==
    ASSUME ChannelInv, NEW n \in 1 .. MaxPlain, TransmitClear(n)
    PROVE  ChannelInv'
<1>c. PICK c : c = [i \in 1 .. n |-> Clear(plain[i])]
  OBVIOUS
<1>0. /\ open /\ ~eof /\ ~seals /\ n <= Len(plain) /\ wire' = wire \o c
      /\ plain' = SubSeq(plain, n + 1, Len(plain))
      /\ UNCHANGED <<receiver, next, asked, seals, eof, handled, nonces>>
      /\ tx_counter' = tx_counter
      /\ faults' = faults \cup IF asked # 0 /\ plain[n].req > asked THEN {"sender"} ELSE {}
  BY <1>c DEF TransmitClear, Transmitted
<1>1. ChannelTypes /\ ModeInv /\ RxInv /\ ComingInv /\ PlainInv
  BY <1>0 DEF ChannelInv
<1>2. /\ plain \in Seq(RequestByte) /\ rx \in Seq(RequestByte) /\ record \in Seq(Frame)
      /\ wire \in Seq(Frame) /\ next \in Nat /\ Coming \in Seq(Frame) /\ handled \in Nat
      /\ asked \in Nat /\ Len(plain) \in Nat
  BY <1>1, LenJoined DEF ChannelTypes, Coming
<1>3. n \in 1 .. Len(plain) /\ n \in Nat /\ n >= 1
  BY <1>0, <1>2, BoundsAssumption
<1>4. ASSUME NEW i \in 1 .. n
      PROVE  plain[i] \in RequestByte /\ ByteOk(plain[i], next) /\ i \in 1 .. Len(plain)
  <2>1. i \in 1 .. Len(plain)
    BY <1>2, <1>3
  <2> QED BY <1>1, <1>2, <2>1 DEF PlainInv, AllOk
<1>5. ASSUME NEW i \in 1 .. n
      PROVE  /\ c[i] \in Frame /\ FrameOk(c[i], next) /\ c[i].sealed = FALSE /\ c[i].at = 1
             /\ FrameLen(c[i]) = 1 /\ Len(c[i].payload) = 1 /\ c[i].payload[1] = plain[i]
  <2>1. c[i] = Clear(plain[i])
    BY <1>c
  <2> QED BY ONLY <1>2, <1>4, <2>1, ClearFrame
<1>6. c \in Seq(Frame) /\ Len(c) = n
  <2>1. \A i \in 1 .. n : Clear(plain[i]) \in Frame
    BY <1>5, <1>c
  <2> QED BY ONLY <1>3, <1>c, <2>1
<1>7. c # <<>> /\ 1 \in 1 .. n /\ n \in 1 .. n
  BY <1>3, <1>6, EmptySeq
<1>8. FramesLinked(c)
  <2> SUFFICES ASSUME NEW i \in 1 .. n - 1 PROVE FrameFollows(c[i], c[i + 1])
    BY <1>6 DEF FramesLinked
  <2>1. i \in 1 .. n /\ i + 1 \in 1 .. n /\ i \in 1 .. Len(plain) - 1
    BY <1>2, <1>3
  <2>2. Follows(plain[i], plain[i + 1])
    BY <1>1, <2>1 DEF PlainInv, Linked
  <2>3. /\ c[i].at = FrameLen(c[i]) /\ c[i + 1].at = 1 /\ ~c[i].sealed
        /\ Len(c[i].payload) = 1 /\ c[i].payload[1] = plain[i]
        /\ c[i + 1].payload[1] = plain[i + 1]
    BY <1>5, <2>1
  <2> QED BY <2>2, <2>3 DEF FrameFollows
<1>9. ASSUME faults' = {}
      PROVE  faults = {} /\ \A i \in 1 .. n : FrameClean(c[i], asked) /\ ~encrypted
  <2>1. faults = {} /\ (asked = 0 \/ plain[n].req <= asked)
    <3>1. faults = {} /\ (asked = 0 \/ ~(plain[n].req > asked))
      BY <1>0, <1>9
    <3>2. plain[n].req \in Nat
      BY <1>2, <1>3, ByteFields
    <3> QED BY <1>2, <3>1, <3>2
  <2>2. CleanInv
    BY <1>0, <2>1 DEF ChannelInv
  <2>3. ASSUME NEW i \in 1 .. n PROVE ByteClean(plain[i], asked) /\ InClear(plain[i], asked)
    <3>1. ByteClean(plain[i], asked)
      BY <1>4, <2>2 DEF CleanInv
    <3>2. plain[i].req <= plain[n].req
      <4>1. i \in 1 .. Len(plain) /\ i <= n
        BY <1>3, <1>4
      <4> QED BY <1>1, <1>3, <4>1 DEF PlainInv
    <3>3. plain[i].req \in Nat /\ plain[n].req \in Nat
      BY <1>2, <1>3, <1>4, ByteFields
    <3>4. asked \in Nat
      BY <1>2
    <3>5. InClear(plain[i], asked)
      BY ONLY <2>1, <3>2, <3>3, <3>4 DEF InClear
    <3> QED BY ONLY <3>1, <3>5
  <2>4. ASSUME NEW i \in 1 .. n PROVE FrameClean(c[i], asked)
    <3>1. Len(c[i].payload) = 1 /\ c[i].payload[1] = plain[i]
      BY <1>5
    <3>2. \A j \in 1 .. Len(c[i].payload) : c[i].payload[j] = plain[i]
      BY ONLY <3>1
    <3> QED BY <1>5, <2>3, <3>2 DEF FrameClean
  <2>5. ASSUME encrypted PROVE FALSE
    <3>1. asked # 0 /\ rx = <<>> /\ handled = asked /\ \A i \in 1 .. Len(Coming) : Coming[i].sealed
      BY <1>0, <2>2, <2>5 DEF CleanInv
    <3>2. \A i \in 1 .. Len(Coming) : ~Coming[i].sealed
      BY <1>0, <1>1 DEF ModeInv
    <3>3. Coming = <<>>
      <4>1. Coming # <<>> => 1 \in 1 .. Len(Coming)
        BY <1>2, EmptySeq
      <4> QED BY <3>1, <3>2, <4>1
    <3>4. plain # <<>>
      BY <1>3, EmptySeq
    <3>5. Follows(Origin, plain[1])
      BY <1>1, <3>1, <3>3, <3>4 DEF PlainInv, LastSent, LastOf
    <3>6. plain[1].req = handled + 1
      BY <3>5 DEF Follows, Origin
    <3>7. plain[1].req <= asked
      BY <1>7, <2>3, <3>1 DEF InClear
    <3> QED BY <1>2, <3>1, <3>6, <3>7
  <2> QED BY <2>1, <2>4, <2>5
<1>10. c[1].at = 1 /\ c[1].payload[1] = plain[1]
  BY <1>5, <1>7
<1>11. /\ c[n].at = FrameLen(c[n]) /\ ~c[n].sealed
       /\ c[n].payload[Len(c[n].payload)] = plain[n]
  BY <1>5, <1>7
<1> QED
  <2>1. \A i \in 1 .. Len(c) : FrameOk(c[i], next) /\ ~c[i].sealed
    BY <1>5, <1>6
  <2>2. faults' = {} => /\ faults = {}
                        /\ \A i \in 1 .. Len(c) :
                              FrameClean(c[i], asked) /\ (encrypted => c[i].sealed)
    BY <1>6, <1>9
  <2> QED BY <1>0, <1>3, <1>6, <1>7, <1>8, <1>10, <1>11, <2>1, <2>2, SentKeeps

(* The bytes of one record on the wire are linked.                         *)
LEMMA RecordFrames ==
    ASSUME NEW r \in Seq(Frame),
           \A i \in 1 .. Len(r) : r[i].at = i /\ FrameLen(r[i]) = Len(r),
           \A i, j \in 1 .. Len(r) :
              /\ r[i].sealed = r[j].sealed /\ r[i].payload = r[j].payload
              /\ r[i].counter = r[j].counter /\ r[i].intact = r[j].intact
    PROVE  FramesLinked(r)
<1> SUFFICES ASSUME NEW i \in 1 .. Len(r) - 1 PROVE FrameFollows(r[i], r[i + 1])
  BY DEF FramesLinked
<1>1. i \in 1 .. Len(r) /\ i + 1 \in 1 .. Len(r) /\ i < Len(r)
  OBVIOUS
<1>2. /\ r[i].at = i /\ r[i + 1].at = i + 1 /\ FrameLen(r[i]) = Len(r)
      /\ r[i + 1].payload = r[i].payload /\ r[i + 1].sealed = r[i].sealed
      /\ r[i + 1].counter = r[i].counter /\ r[i + 1].intact = r[i].intact
  BY <1>1
<1> QED BY ONLY <1>1, <1>2 DEF FrameFollows

(* The sender transmits a record.                                          *)
LEMMA TransmitSealedKeeps ==
    ASSUME ChannelInv, NEW n \in 1 .. RecordMax, NEW intact \in BOOLEAN,
           TransmitSealed(n, intact)
    PROVE  ChannelInv'
<1>p. PICK p : p = SubSeq(plain, 1, n)
  OBVIOUS
<1>c. PICK c : c = Record(p, tx_counter, intact)
  OBVIOUS
<1>0. /\ open /\ ~eof /\ seals /\ n <= Len(plain) /\ wire' = wire \o c
      /\ plain' = SubSeq(plain, n + 1, Len(plain)) /\ tx_counter < MaxCounter
      /\ UNCHANGED <<receiver, next, asked, seals, eof, handled, nonces>>
      /\ tx_counter' = tx_counter + 1
      /\ faults' = faults \cup (IF intact THEN {} ELSE {"network"})
                          \cup (IF plain[n].req > plain[1].req THEN {"span"} ELSE {})
  BY <1>p, <1>c DEF TransmitSealed, Transmitted
<1>1. ChannelTypes /\ ModeInv /\ RxInv /\ ComingInv /\ PlainInv
  BY <1>0 DEF ChannelInv
<1>2. /\ plain \in Seq(RequestByte) /\ next \in Nat /\ asked \in Nat /\ Len(plain) \in Nat
      /\ tx_counter \in Nat
  BY <1>1, SizesAssumption DEF ChannelTypes
<1>3. /\ n \in 1 .. Len(plain) /\ n \in 0 .. Len(plain) /\ n \in Nat /\ n >= 1
      /\ n <= RecordMax
  BY <1>0, <1>2, SizesAssumption
<1>4. /\ p \in Seq(RequestByte) /\ Len(p) = n
      /\ \A i \in 1 .. n : i \in 1 .. Len(plain) /\ p[i] = plain[i]
  BY ONLY <1>2, <1>3, <1>p, Cut
<1>5. p # <<>> /\ 1 \in 1 .. n /\ n \in 1 .. n
  BY <1>3, <1>4, EmptySeq
<1>6. Linked(p) /\ AllOk(p, next)
  <2>1. Linked(p)
    BY <1>1, <1>2, <1>3, <1>p, LinkedCut DEF PlainInv
  <2> QED BY <1>1, <1>4, <2>1 DEF PlainInv, AllOk
<1>7. /\ c \in Seq(Frame) /\ Len(c) = n + Overhead /\ c # <<>> /\ FramesLinked(c)
      /\ \A i \in 1 .. Len(c) :
            /\ FrameOk(c[i], next) /\ FrameLen(c[i]) = Len(c)
            /\ c[i].sealed = TRUE /\ c[i].payload = p /\ c[i].at = i
            /\ c[i].counter = tx_counter /\ c[i].intact = intact
  <2>1. intact \in BOOLEAN /\ Len(p) <= RecordMax /\ tx_counter < MaxCounter
    BY <1>0, <1>3, <1>4
  <2>n. PICK m \in Nat : m = n + Overhead /\ m > 2
    BY <1>3, SizesAssumption
  <2>2. c = [i \in 1 .. m |-> [sealed |-> TRUE, payload |-> p, at |-> i,
                               counter |-> tx_counter, intact |-> intact]]
    BY <1>4, <1>c, <2>n DEF Record
  <2>3. ASSUME NEW i \in 1 .. m
        PROVE  [sealed |-> TRUE, payload |-> p, at |-> i, counter |-> tx_counter,
                intact |-> intact] \in Frame
    BY <1>2, <1>4, <2>1 DEF Frame
  <2>4. c \in Seq(Frame) /\ Len(c) = m
    BY ONLY <2>2, <2>3, m \in Nat
  <2>5. ASSUME NEW i \in 1 .. m
        PROVE  /\ c[i].sealed = TRUE /\ c[i].payload = p /\ c[i].at = i
               /\ c[i].counter = tx_counter /\ c[i].intact = intact
    BY <2>2
  <2>6. ASSUME NEW i \in 1 .. m PROVE FrameLen(c[i]) = m
    BY <1>4, <2>5, <2>n DEF FrameLen
  <2>7. FramesLinked(c)
    BY <2>4, <2>5, <2>6, RecordFrames
  <2>8. ASSUME NEW i \in 1 .. m PROVE FrameOk(c[i], next)
    BY <1>5, <1>6, <2>1, <2>5, <2>6 DEF FrameOk
  <2>9. c # <<>>
    BY <2>4, <2>n, EmptySeq
  <2> QED BY <2>4, <2>5, <2>6, <2>7, <2>8, <2>9, <2>n
<1>8. 1 \in 1 .. Len(c) /\ Len(c) \in 1 .. Len(c)
  BY <1>7, EmptySeq
<1>9. ASSUME faults' = {} PROVE faults = {} /\ \A i \in 1 .. Len(c) : FrameClean(c[i], asked)
  <2>1. faults = {} /\ intact /\ ~(plain[n].req > plain[1].req)
    BY <1>0, <1>9
  <2>2. CleanInv
    BY <1>0, <2>1 DEF ChannelInv
  <2>3. ASSUME NEW i \in 1 .. n PROVE ByteClean(p[i], asked) /\ p[i].req = p[1].req
    <3>1. ByteClean(plain[i], asked)
      BY <1>4, <2>2 DEF CleanInv
    <3>2. plain[1].req <= plain[i].req /\ plain[i].req <= plain[n].req
      <4>1. i \in 1 .. Len(plain) /\ i <= n /\ 1 <= i /\ 1 \in 1 .. Len(plain)
        BY <1>2, <1>3, <1>4
      <4> QED BY <1>1, <1>3, <4>1 DEF PlainInv
    <3>3. plain[i].req \in Nat /\ plain[n].req \in Nat /\ plain[1].req \in Nat
      BY <1>2, <1>4, <1>5, ByteFields
    <3>4. plain[i].req = plain[1].req
      BY <2>1, <3>2, <3>3
    <3> QED BY <1>4, <1>5, <3>1, <3>4
  <2>4. ASSUME NEW i \in 1 .. Len(c) PROVE FrameClean(c[i], asked)
    <3>1. c[i].payload = p /\ c[i].intact
      BY <1>7, <2>1
    <3>2. \A k \in 1 .. Len(p) : ByteClean(p[k], asked) /\ p[k].req = p[1].req
      BY <1>4, <2>3
    <3> QED BY <1>7, <3>1, <3>2 DEF FrameClean
  <2> QED BY <2>1, <2>4
<1>10. /\ c[1].at = 1 /\ c[1].payload[1] = plain[1] /\ c[1].sealed /\ c[1].counter = tx_counter
       /\ c[Len(c)].at = FrameLen(c[Len(c)]) /\ c[Len(c)].counter = tx_counter
       /\ c[Len(c)].payload[Len(c[Len(c)].payload)] = plain[n]
  BY <1>4, <1>5, <1>7, <1>8
<1>11. tx_counter' \in 0 .. MaxCounter
  BY <1>0, <1>2, SizesAssumption
<1>12. /\ \A i \in 1 .. Len(c) : FrameOk(c[i], next)
       /\ faults' = {} => /\ faults = {}
                          /\ \A i \in 1 .. Len(c) :
                                FrameClean(c[i], asked) /\ (encrypted => c[i].sealed)
  BY <1>7, <1>9
<1> QED BY <1>0, <1>3, <1>7, <1>10, <1>11, <1>12, SentKeeps

(* The sender starts to seal.                                              *)
LEMMA StartSealingKeeps ==
    ASSUME ChannelInv, StartSealing
    PROVE  ChannelInv'
<1>0. /\ open /\ encrypted /\ seals' = TRUE /\ open' = open /\ encrypted' = encrypted
      /\ rx' = rx /\ record' = record /\ read_counter' = read_counter
      /\ write_counter' = write_counter /\ pc' = pc /\ plain' = plain /\ next' = next
      /\ asked' = asked /\ tx_counter' = tx_counter /\ wire' = wire /\ eof' = eof
      /\ handled' = handled /\ nonces' = nonces /\ faults' = faults
  BY DEF StartSealing, receiver
<1>1. Coming' = Coming /\ Origin' = Origin
  BY <1>0 DEF Coming, Origin
<1>2. LastSent' = LastSent
  BY <1>0, <1>1 DEF LastSent, LastOf
<1>3. ChannelTypes'
  BY <1>0 DEF ChannelInv, ChannelTypes
<1>4. ModeInv'
  BY <1>0, <1>1 DEF ChannelInv, ModeInv
<1>5. NonceInv' /\ BoundaryHolds' /\ ClosedForCause'
  BY <1>0 DEF ChannelInv, NonceInv, BoundaryHolds, ClosedForCause
<1>6. RxInv'
  BY <1>0, <1>1, RxNext DEF ChannelInv, RxInv
<1>7. ComingInv'
  BY <1>0, <1>1, ComingNext DEF ChannelInv, ComingInv
<1>8. ~eof => PlainInv'
  BY <1>0, <1>2, PlainNext DEF ChannelInv, PlainInv
<1>9. faults = {} => CleanInv'
  BY <1>0, <1>1, CleanNext DEF ChannelInv, CleanInv
<1> QED BY <1>0, <1>3, <1>4, <1>5, <1>6, <1>7, <1>8, <1>9 DEF ChannelInv

(* The sender closes.                                                      *)
LEMMA HangUpKeeps ==
    ASSUME ChannelInv, HangUp
    PROVE  ChannelInv'
<1>0. /\ open /\ eof' = TRUE /\ wire' \in {wire, <<>>} /\ faults' # {} /\ open' = open
      /\ encrypted' = encrypted
      /\ rx' = rx /\ record' = record /\ read_counter' = read_counter
      /\ write_counter' = write_counter /\ pc' = pc /\ plain' = plain /\ next' = next
      /\ asked' = asked /\ seals' = seals /\ tx_counter' = tx_counter
      /\ handled' = handled /\ nonces' = nonces
  BY DEF HangUp, receiver, sender
<1>1. ChannelTypes /\ ModeInv /\ RxInv /\ ComingInv
  BY <1>0 DEF ChannelInv
<1>2. record \in Seq(Frame) /\ wire \in Seq(Frame)
  BY <1>1 DEF ChannelTypes
<1>3. wire' \in Seq(Frame)
  <2>1. <<>> \in Seq(Frame) /\ (wire' = wire \/ wire' = <<>>)
    BY <1>0
  <2> QED BY <1>2, <2>1
<1>4. /\ Coming \in Seq(Frame) /\ Coming' \in Seq(Frame) /\ Len(Coming') <= Len(Coming)
      /\ \A i \in 1 .. Len(Coming') : i \in 1 .. Len(Coming) /\ Coming'[i] = Coming[i]
  <2>1. Coming \in Seq(Frame) /\ Len(Coming) = Len(record) + Len(wire)
    BY <1>2, LenJoined DEF Coming
  <2>2. CASE wire' = wire
    <3>1. Coming' = Coming
      BY <1>0, <2>2 DEF Coming
    <3> QED BY <2>1, <3>1
  <2>3. CASE wire' = <<>>
    <3>1. Coming' = record
      BY <1>0, <1>2, <2>3, JoinedEnds DEF Coming
    <3>2. \A i \in 1 .. Len(record) : Coming[i] = record[i]
      BY <1>2, Joined DEF Coming
    <3>3. Len(record) <= Len(Coming) /\ \A i \in 1 .. Len(record) : i \in 1 .. Len(Coming)
      BY <1>2, <2>1
    <3> QED BY <1>2, <2>1, <3>1, <3>2, <3>3
  <2> QED BY <1>0, <2>2, <2>3
<1>5. ChannelTypes'
  BY <1>0, <1>1, <1>3 DEF ChannelTypes
<1>6. ModeInv'
  BY <1>0, <1>1, <1>4 DEF ModeInv
<1>7. NonceInv' /\ BoundaryHolds' /\ ClosedForCause'
  BY <1>0 DEF ChannelInv, NonceInv, BoundaryHolds, ClosedForCause
<1>8. Origin' = Origin
  BY <1>0 DEF Origin
<1>9. RxInv'
  BY <1>0, <1>1, <1>8, RxNext DEF RxInv
<1>10. ComingInv'
  <2>1. FramesLinked(Coming')
    <3> SUFFICES ASSUME NEW i \in 1 .. Len(Coming') - 1
                 PROVE  FrameFollows(Coming'[i], Coming'[i + 1])
      BY DEF FramesLinked
    <3>1. /\ i \in 1 .. Len(Coming') /\ i + 1 \in 1 .. Len(Coming')
          /\ i \in 1 .. Len(Coming) - 1
      BY <1>4
    <3> QED BY <1>1, <1>4, <3>1 DEF ComingInv, FramesLinked
  <2>2. \A i \in 1 .. Len(Coming') : FrameOk(Coming'[i], next')
    BY <1>0, <1>1, <1>4 DEF ComingInv
  <2>3. Coming' # <<>> =>
           Coming'[1].at = 1 /\ Follows(LastOf(Origin', rx'), Coming'[1].payload[1])
    <3>1. ASSUME Coming' # <<>> PROVE Coming'[1] = Coming[1] /\ Coming # <<>>
      <4>1. 1 \in 1 .. Len(Coming')
        BY <1>4, <3>1, EmptySeq
      <4> QED BY <1>4, <4>1, EmptySeq
    <3> QED BY <1>0, <1>1, <1>8, <3>1 DEF ComingInv
  <2> QED BY <1>0, <2>1, <2>2, <2>3, ComingNext
<1> QED BY <1>0, <1>5, <1>6, <1>7, <1>9, <1>10 DEF ChannelInv

(* Bytes of a record move from the wire into its buffer.                   *)
LEMMA PartKeeps ==
    ASSUME ChannelInv, open, encrypted, Coming' = Coming,
           record' \in Seq(Frame), wire' \in Seq(Frame),
           UNCHANGED <<open, encrypted, rx, read_counter, write_counter, pc, sender, eof,
                       handled, nonces, faults>>
    PROVE  ChannelInv'
<1>0. /\ seals' = seals /\ open' = open /\ encrypted' = encrypted
      /\ rx' = rx /\ read_counter' = read_counter
      /\ write_counter' = write_counter /\ pc' = pc /\ plain' = plain /\ next' = next
      /\ asked' = asked /\ tx_counter' = tx_counter /\ eof' = eof
      /\ handled' = handled /\ nonces' = nonces /\ faults' = faults
  BY DEF sender
<1>1. Origin' = Origin
  BY <1>0 DEF Origin
<1>2. LastSent' = LastSent
  BY <1>0, <1>1 DEF LastSent, LastOf
<1>3. ChannelTypes'
  BY <1>0 DEF ChannelInv, ChannelTypes
<1>4. ModeInv'
  BY <1>0, <1>1 DEF ChannelInv, ModeInv
<1>5. NonceInv' /\ BoundaryHolds' /\ ClosedForCause'
  BY <1>0 DEF ChannelInv, NonceInv, BoundaryHolds, ClosedForCause
<1>6. RxInv'
  BY <1>0, <1>1, RxNext DEF ChannelInv, RxInv
<1>7. ComingInv'
  BY <1>0, <1>1, ComingNext DEF ChannelInv, ComingInv
<1>8. ~eof => PlainInv'
  BY <1>0, <1>2, PlainNext DEF ChannelInv, PlainInv
<1>9. faults = {} => CleanInv'
  BY <1>0, <1>1, CleanNext DEF ChannelInv, CleanInv
<1> QED BY <1>0, <1>3, <1>4, <1>5, <1>6, <1>7, <1>8, <1>9 DEF ChannelInv

(* Two bytes that stand at the same place of the same request.             *)
SamePlace(a, b) == a.req = b.req /\ a.at = b.at /\ a.size = b.size

(* The payload of the first k bytes of what is coming reaches the buffer.  *)
LEMMA TakenKeeps ==
    ASSUME ChannelInv, open, NEW k \in 1 .. Len(Coming), NEW t \in Seq(RequestByte),
           t # <<>>, Linked(t), AllOk(t, next), Follows(LastOf(Origin, rx), t[1]),
           Coming[k].at = FrameLen(Coming[k]),
           SamePlace(t[Len(t)], Coming[k].payload[Len(Coming[k].payload)]),
           rx' = rx \o t, Coming' = SubSeq(Coming, k + 1, Len(Coming)),
           record' \in Seq(Frame), wire' \in Seq(Frame), pc' = "parse",
           IF Coming[k].sealed THEN read_counter' = Coming[k].counter + 1
                               ELSE read_counter' = read_counter,
           IF encrypted THEN Coming[k].sealed /\ \A i \in 1 .. Len(t) : t[i].sealed
                        ELSE ~Coming[k].sealed /\ record' = <<>>,
           UNCHANGED <<open, encrypted, write_counter, sender, eof, handled, nonces, faults>>,
           faults = {} => \A i \in 1 .. Len(t) :
              ByteClean(t[i], asked) /\ (~encrypted => InClear(t[i], asked))
    PROVE  ChannelInv'
<1>0. ChannelTypes /\ ModeInv /\ NonceInv /\ BoundaryHolds /\ RxInv /\ ComingInv
  BY DEF ChannelInv
<1>1. /\ plain \in Seq(RequestByte) /\ rx \in Seq(RequestByte) /\ record \in Seq(Frame)
      /\ wire \in Seq(Frame) /\ Coming \in Seq(Frame) /\ read_counter \in Nat
  BY <1>0, LenJoined DEF ChannelTypes, Coming
<1>2. /\ open' = open /\ encrypted' = encrypted /\ write_counter' = write_counter
      /\ next' = next /\ asked' = asked /\ seals' = seals /\ tx_counter' = tx_counter
      /\ plain' = plain /\ eof' = eof
      /\ handled' = handled /\ nonces' = nonces /\ faults' = faults /\ Origin' = Origin
  BY DEF sender, Origin
<1>3. /\ rx' \in Seq(RequestByte) /\ rx' # <<>> /\ rx'[Len(rx')] = t[Len(t)]
      /\ rx = <<>> => rx'[1] = t[1]
      /\ rx # <<>> => rx'[1] = rx[1]
  <2>1. t \in Seq(RequestByte) /\ rx \in Seq(RequestByte) /\ t # <<>> /\ rx' = rx \o t
    BY <1>1
  <2>2. rx' \in Seq(RequestByte) /\ rx' # <<>>
    BY ONLY <2>1, Joined
  <2>3. rx'[Len(rx')] = t[Len(t)]
    BY ONLY <2>1, JoinedEnds
  <2>4. (rx = <<>> => rx' = t) /\ (rx # <<>> => rx'[1] = rx[1])
    BY ONLY <2>1, JoinedEnds
  <2> QED BY <2>2, <2>3, <2>4
<1>4. ASSUME NEW i \in 1 .. Len(rx')
      PROVE  \/ i \in 1 .. Len(rx) /\ rx'[i] = rx[i]
             \/ \E j \in 1 .. Len(t) : rx'[i] = t[j]
  BY <1>1, JoinedAt
<1>5. k \in Nat /\ k >= 1 /\ Len(Coming) \in Nat /\ k <= Len(Coming) /\ k \in 0 .. Len(Coming)
  <2>1. Coming \in Seq(Frame) /\ k \in 1 .. Len(Coming)
    BY <1>1
  <2> QED BY ONLY <2>1
<1>6. /\ Coming' \in Seq(Frame) /\ Len(Coming') = Len(Coming) - k
      /\ \A i \in 1 .. Len(Coming) - k :
            k + i \in 1 .. Len(Coming) /\ Coming'[i] = Coming[k + i]
  BY <1>1, <1>5, Cut
<1>7. Coming # <<>>
  BY <1>5, EmptySeq
<1>8. ASSUME Coming' # <<>>
      PROVE  /\ 1 \in 1 .. Len(Coming') /\ Coming'[1] = Coming[k + 1] /\ k \in 1 .. Len(Coming) - 1
             /\ Coming'[Len(Coming')] = Coming[Len(Coming)]
  <2>1. 1 \in 1 .. Len(Coming) - k /\ Len(Coming) - k \in 1 .. Len(Coming) - k
    BY <1>6, <1>8, EmptySeq
  <2>2. k + (Len(Coming) - k) = Len(Coming) /\ k \in 1 .. Len(Coming) - 1
    BY <1>5, <2>1
  <2> QED BY <1>6, <2>1, <2>2
<1>9. ASSUME Coming' = <<>> PROVE k = Len(Coming)
  <2>1. Len(Coming) - k = 0
    BY <1>6, <1>9
  <2> QED BY <1>5, <2>1
<1>10. Coming[k].at \in Nat /\ Coming[k].sealed \in BOOLEAN /\ Coming[k].counter \in Nat
  BY <1>1, FrameFields
<1>11. ASSUME Coming' # <<>>
       PROVE  /\ Coming'[1].at = 1
              /\ Follows(Coming[k].payload[Len(Coming[k].payload)], Coming'[1].payload[1])
              /\ Coming[k].sealed => Coming'[1].sealed /\ Coming'[1].counter = Coming[k].counter + 1
  <2>1. FrameFollows(Coming[k], Coming[k + 1])
    BY <1>0, <1>8, <1>11 DEF ComingInv, FramesLinked
  <2>2. ~(Coming[k].at < FrameLen(Coming[k]))
    BY <1>10
  <2> QED BY <1>8, <1>11, <2>1, <2>2 DEF FrameFollows
<1>12. ChannelTypes'
  <2>1. read_counter' \in Nat
    <3>1. Coming[k].sealed => read_counter' = Coming[k].counter + 1
      OBVIOUS
    <3>2. ~Coming[k].sealed => read_counter' = read_counter
      OBVIOUS
    <3> QED BY ONLY <1>1, <1>10, <3>1, <3>2
  <2>2. rx' \in Seq(RequestByte) /\ record' \in Seq(Frame) /\ wire' \in Seq(Frame)
    BY <1>3
  <2>3. pc' \in {"wait", "parse"}
    OBVIOUS
  <2> QED BY ONLY <1>0, <1>2, <2>1, <2>2, <2>3 DEF ChannelTypes
<1>13. ModeInv'
  <2>1. ASSUME ~seals
        PROVE  tx_counter' = 0 /\ \A i \in 1 .. Len(Coming') : ~Coming'[i].sealed
    BY <1>0, <1>2, <1>6, <2>1 DEF ModeInv
  <2>2. ~encrypted => ~seals /\ record' = <<>> /\ read_counter' = 0
    BY <1>0 DEF ModeInv
  <2>3. asked' < next'
    BY <1>0, <1>2 DEF ModeInv
  <2> QED BY <1>2, <1>3, <2>1, <2>2, <2>3 DEF ModeInv
<1>14. NonceInv' /\ BoundaryHolds' /\ ClosedForCause'
  <2>1. NonceInv'
    BY <1>0, <1>2 DEF NonceInv
  <2>2. BoundaryHolds'
    BY <1>0, <1>2, <1>4 DEF BoundaryHolds
  <2>3. ClosedForCause'
    BY <1>0, <1>2 DEF ClosedForCause
  <2> QED BY <2>1, <2>2, <2>3
<1>15. RxInv'
  <2>1. AllOk(rx', next')
    BY <1>0, <1>2, <1>4 DEF RxInv, AllOk
  <2>2. Linked(rx')
    <3>1. rx # <<>> => Follows(rx[Len(rx)], t[1])
      BY DEF LastOf
    <3> QED BY <1>0, <1>1, <3>1, LinkedJoin DEF RxInv
  <2>3. Follows(Origin, rx'[1])
    BY <1>0, <1>3 DEF RxInv, LastOf
  <2> QED BY <1>2, <2>1, <2>2, <2>3, RxNext
<1>16. LastOf(Origin', rx') = t[Len(t)]
  BY <1>3 DEF LastOf
<1>17. ComingInv'
  <2>1. FramesLinked(Coming')
    BY <1>0, <1>1, <1>5, FramesCut DEF ComingInv
  <2>2. \A i \in 1 .. Len(Coming') : FrameOk(Coming'[i], next')
    BY <1>0, <1>2, <1>6 DEF ComingInv
  <2>3. ASSUME Coming' # <<>>
        PROVE  Coming'[1].at = 1 /\ Follows(t[Len(t)], Coming'[1].payload[1])
    <3>1. /\ Coming'[1].at = 1
          /\ Follows(Coming[k].payload[Len(Coming[k].payload)], Coming'[1].payload[1])
      BY <1>11, <2>3
    <3>2. SamePlace(t[Len(t)], Coming[k].payload[Len(Coming[k].payload)])
      OBVIOUS
    <3> QED BY ONLY <3>1, <3>2 DEF Follows, SamePlace
  <2>4. ASSUME ~eof', Coming' # <<>>
        PROVE  /\ Coming'[Len(Coming')].at = FrameLen(Coming'[Len(Coming')])
               /\ Coming'[Len(Coming')].sealed => tx_counter' = Coming'[Len(Coming')].counter + 1
    <3>1. /\ Coming[Len(Coming)].at = FrameLen(Coming[Len(Coming)])
          /\ Coming[Len(Coming)].sealed => tx_counter = Coming[Len(Coming)].counter + 1
      BY <1>0, <1>2, <1>7, <2>4 DEF ComingInv
    <3> QED BY ONLY <1>2, <1>8, <2>4, <3>1
  <2> QED BY <1>16, <2>1, <2>2, <2>3, <2>4, ComingNext
<1>18. ASSUME ~eof PROVE PlainInv'
  <2>1. PlainInv
    BY <1>18 DEF ChannelInv
  <2>2. SamePlace(LastSent', LastSent)
    <3>1. LastSent = Coming[Len(Coming)].payload[Len(Coming[Len(Coming)].payload)]
      BY <1>7 DEF LastSent
    <3>2. CASE Coming' = <<>>
      <4>1. LastSent' = t[Len(t)] /\ k = Len(Coming)
        BY <1>9, <1>16, <3>2 DEF LastSent
      <4> QED BY <3>1, <4>1
    <3>3. CASE Coming' # <<>>
      <4>1. LastSent' = LastSent
        BY <1>8, <3>1, <3>3 DEF LastSent
      <4> QED BY <4>1 DEF SamePlace
    <3> QED BY <3>2, <3>3
  <2>3. plain # <<>> => Follows(LastSent', plain[1])
    BY <2>1, <2>2 DEF PlainInv, Follows, SamePlace
  <2>4. LET last == LastOf(LastSent', plain) IN last.at = last.size /\ last.req = next - 1
    BY <2>1, <2>2 DEF PlainInv, LastOf, SamePlace
  <2> QED BY <1>2, <2>1, <2>3, <2>4, PlainNext DEF PlainInv
<1>19. ASSUME faults = {} PROVE CleanInv'
  <2>1. CleanInv
    BY <1>19 DEF ChannelInv
  <2>2. \A i \in 1 .. Len(rx') :
           ByteClean(rx'[i], asked') /\ (~encrypted' => InClear(rx'[i], asked'))
    <3>1. /\ \A i \in 1 .. Len(rx) :
                ByteClean(rx[i], asked) /\ (~encrypted => InClear(rx[i], asked))
          /\ \A i \in 1 .. Len(t) :
                ByteClean(t[i], asked) /\ (~encrypted => InClear(t[i], asked))
      BY <1>19, <2>1 DEF CleanInv
    <3> QED BY ONLY <1>2, <1>4, <3>1
  <2>3. \A i \in 1 .. Len(Coming') : FrameClean(Coming'[i], asked')
    BY <1>2, <1>6, <2>1 DEF CleanInv
  <2>4. encrypted' => asked' # 0 /\ \A i \in 1 .. Len(Coming') : Coming'[i].sealed
    BY <1>2, <1>6, <2>1 DEF CleanInv
  <2>5. encrypted => seals
    BY <1>0 DEF ModeInv
  <2>6. ASSUME Coming' = <<>> PROVE tx_counter = read_counter'
    <3>1. CASE encrypted
      BY <1>0, <1>7, <1>9, <2>1, <2>6, <3>1 DEF ComingInv, CleanInv
    <3>2. CASE ~encrypted
      BY <1>0, <3>2 DEF ModeInv
    <3> QED BY <3>1, <3>2
  <2>7. ASSUME Coming' # <<>>, Coming'[1].sealed PROVE Coming'[1].counter = read_counter'
    <3>1. CASE encrypted
      BY <1>11, <2>7, <3>1
    <3>2. CASE ~encrypted
      BY <1>0, <1>6, <1>8, <2>7, <3>2 DEF ModeInv
    <3> QED BY <3>1, <3>2
  <2>8. ~eof' /\ \A i \in 1 .. Len(plain') : ByteClean(plain'[i], asked')
    BY <1>2, <2>1 DEF CleanInv
  <2>9. IF Coming' = <<>> THEN tx_counter' = read_counter'
        ELSE Coming'[1].sealed => Coming'[1].counter = read_counter'
    BY <1>2, <2>6, <2>7
  <2> QED BY ONLY <1>2, <2>2, <2>3, <2>4, <2>5, <2>8, <2>9, CleanNext
<1> QED BY <1>2, <1>12, <1>13, <1>14, <1>15, <1>17, <1>18, <1>19 DEF ChannelInv

(* Bytes are received in clear.                                            *)
LEMMA ReceiveClearKeeps ==
    ASSUME ChannelInv, open, ~encrypted, ReceiveClear
    PROVE  ChannelInv'
<1>n. PICK n \in 1 .. Len(wire) :
          /\ rx' = rx \o [i \in 1 .. n |-> wire[i].payload[1]] /\ pc' = "parse"
          /\ wire' = SubSeq(wire, n + 1, Len(wire))
          /\ UNCHANGED <<open, encrypted, write_counter, sender, eof, handled, nonces, faults>>
          /\ UNCHANGED <<record, read_counter>>
  BY DEF ReceiveClear, Took
<1>t. PICK t : t = [i \in 1 .. n |-> wire[i].payload[1]]
  OBVIOUS
<1>0. ChannelTypes /\ ModeInv /\ RxInv /\ ComingInv
  BY DEF ChannelInv
<1>1. ~seals /\ record = <<>> /\ read_counter = 0 /\ record' = <<>>
  BY <1>0, <1>n DEF ModeInv
<1>2. wire \in Seq(Frame) /\ Len(wire) \in Nat /\ n \in Nat /\ n >= 1 /\ n <= Len(wire)
  BY <1>0 DEF ChannelTypes
<1>3. Coming = wire /\ Coming' = wire'
  <2>1. \A w \in Seq(Frame) : <<>> \o w = w
    OBVIOUS
  <2>2. wire' \in Seq(Frame)
    BY <1>2, <1>n, Cut
  <2> QED BY <1>1, <1>2, <2>1, <2>2 DEF Coming
<1>4. ASSUME NEW i \in 1 .. Len(wire)
      PROVE  /\ ~wire[i].sealed /\ wire[i].payload \in Seq(RequestByte)
             /\ Len(wire[i].payload) = 1 /\ wire[i].at = 1 /\ FrameLen(wire[i]) = 1
             /\ ByteOk(wire[i].payload[1], next)
             /\ wire[i].payload[1] \in RequestByte
  <2>1. ~wire[i].sealed /\ FrameOk(wire[i], next)
    BY <1>0, <1>1, <1>3 DEF ModeInv, ComingInv
  <2>2. wire[i].payload \in Seq(RequestByte) /\ wire[i].at \in Nat
    BY <1>2, FrameFields
  <2>3. Len(wire[i].payload) = 1 /\ FrameLen(wire[i]) = 1 /\ wire[i].at \in 1 .. 1
    BY <2>1 DEF FrameOk, FrameLen
  <2>4. 1 \in 1 .. Len(wire[i].payload)
    BY <2>3
  <2>5. ByteOk(wire[i].payload[1], next)
    BY <2>1, <2>4 DEF FrameOk, AllOk
  <2> QED BY <2>1, <2>2, <2>3, <2>4, <2>5
<1>5. ASSUME NEW i \in 1 .. n
      PROVE  i \in 1 .. Len(wire) /\ t[i] = wire[i].payload[1]
  BY <1>2, <1>t
<1>6. t \in Seq(RequestByte) /\ Len(t) = n
  <2>1. \A i \in 1 .. n : wire[i].payload[1] \in RequestByte
    BY <1>4, <1>5
  <2> QED BY ONLY <1>2, <1>t, <2>1
<1>7. t # <<>> /\ 1 \in 1 .. n /\ n \in 1 .. n
  BY <1>2, <1>6, EmptySeq
<1>8. Linked(t)
  <2> SUFFICES ASSUME NEW i \in 1 .. n - 1 PROVE Follows(t[i], t[i + 1])
    BY <1>6 DEF Linked
  <2>1. i \in 1 .. n /\ i + 1 \in 1 .. n /\ i \in 1 .. Len(wire) - 1
    BY <1>2
  <2>2. FrameFollows(wire[i], wire[i + 1])
    BY <1>0, <1>3, <2>1 DEF ComingInv, FramesLinked
  <2>3. wire[i].at = 1 /\ FrameLen(wire[i]) = 1 /\ Len(wire[i].payload) = 1
    BY <1>4, <1>5, <2>1
  <2>4. Follows(wire[i].payload[1], wire[i + 1].payload[1])
    BY <2>2, <2>3 DEF FrameFollows
  <2> QED BY <1>5, <2>1, <2>4
<1>9. AllOk(t, next)
  BY <1>4, <1>5, <1>6 DEF AllOk
<1>10. Follows(LastOf(Origin, rx), t[1])
  <2>1. Coming # <<>>
    BY <1>2, <1>3, EmptySeq
  <2> QED BY <1>0, <1>3, <1>5, <1>7, <2>1 DEF ComingInv
<1>11. /\ Coming[n].at = FrameLen(Coming[n]) /\ ~Coming[n].sealed
       /\ SamePlace(t[Len(t)], Coming[n].payload[Len(Coming[n].payload)])
  BY <1>3, <1>4, <1>5, <1>6, <1>7 DEF SamePlace
<1>12. ASSUME faults = {}
       PROVE  \A i \in 1 .. Len(t) :
                 ByteClean(t[i], asked) /\ (~encrypted => InClear(t[i], asked))
  <2>1. \A i \in 1 .. Len(wire) : FrameClean(wire[i], asked)
    BY <1>3, <1>12 DEF ChannelInv, CleanInv
  <2>2. ASSUME NEW i \in 1 .. n PROVE ByteClean(t[i], asked) /\ InClear(t[i], asked)
    <3>1. FrameClean(wire[i], asked) /\ ~wire[i].sealed /\ 1 \in 1 .. Len(wire[i].payload)
      BY <1>4, <1>5, <2>1
    <3> QED BY <1>5, <3>1 DEF FrameClean
  <2> QED BY <1>6, <2>2
<1>13. wire' \in Seq(Frame) /\ record' \in Seq(Frame)
  <2>1. <<>> \in Seq(Frame)
    OBVIOUS
  <2> QED BY <1>1, <1>2, <1>n, <2>1, Cut
<1> QED BY <1>1, <1>2, <1>3, <1>6, <1>7, <1>8, <1>9, <1>10, <1>11, <1>12, <1>13, <1>n, <1>t,
           TakenKeeps

(* What is behind the first part of a joined sequence.                     *)
LEMMA Behind ==
    ASSUME NEW S, NEW s \in Seq(S), NEW w \in Seq(S)
    PROVE  SubSeq(s \o w, Len(s) + 1, Len(s \o w)) = w
<1>1. /\ s \o w \in Seq(S) /\ Len(s \o w) = Len(s) + Len(w) /\ Len(s) \in Nat
      /\ Len(w) \in Nat
  BY LenJoined
<1>u. PICK u \in Seq(S) : u = s \o w
  BY <1>1
<1>n. PICK n \in Nat : n = Len(s) /\ n \in 0 .. Len(u)
  BY <1>1, <1>u
<1>b. PICK b : b = SubSeq(u, n + 1, Len(u))
  OBVIOUS
<1>2. b \in Seq(S) /\ Len(b) = Len(u) - n /\ \A i \in 1 .. Len(u) - n : b[i] = u[n + i]
  BY ONLY <1>u, <1>n, <1>b, u \in Seq(S), n \in Nat, Cut
<1>3. Len(b) = Len(w)
  BY <1>1, <1>2, <1>u, <1>n
<1>4. ASSUME NEW i \in 1 .. Len(b) PROVE b[i] = w[i]
  <2>1. i \in 1 .. Len(w) /\ i \in 1 .. Len(u) - n
    BY <1>2, <1>3
  <2>2. u[Len(s) + i] = w[i]
    BY <1>u, <2>1, Joined
  <2> QED BY <1>2, <1>n, <2>1, <2>2
<1>5. b = w
  BY <1>2, <1>3, <1>4, SeqEqual
<1> QED BY <1>5, <1>u, <1>n, <1>b

(* A record of a sender that keeps to the rules fits into the buffer.      *)
LEMMA RecordFits ==
    ASSUME ChannelInv, open, faults = {}, pc = "wait", Coming # <<>>, Coming[1].sealed
    PROVE  ~BadLength(Len(Coming[1].payload))
<1>0. ChannelTypes /\ ModeInv /\ RxInv /\ ComingInv /\ CleanInv
  BY DEF ChannelInv
<1>1. rx \in Seq(RequestByte) /\ Len(rx) \in Nat /\ Coming \in Seq(Frame) /\ 1 \in 1 .. Len(Coming)
  <2>1. rx \in Seq(RequestByte) /\ Coming \in Seq(Frame)
    BY <1>0, LenJoined DEF ChannelTypes, Coming
  <2> QED BY <2>1, EmptySeq
<1>p. PICK p : p = Coming[1].payload
  OBVIOUS
<1>2. /\ p \in Seq(RequestByte) /\ p # <<>> /\ Linked(p) /\ AllOk(p, next) /\ Len(p) <= RecordMax
      /\ Follows(LastOf(Origin, rx), p[1])
  <2>1. p \in Seq(RequestByte)
    BY <1>1, <1>p, FrameFields
  <2>2. FrameOk(Coming[1], next)
    BY <1>0, <1>1 DEF ComingInv
  <2> QED BY <1>0, <1>p, <2>1, <2>2 DEF ComingInv, FrameOk
<1>3. /\ \A i \in 1 .. Len(p) : p[i].req = p[1].req
      /\ \A i \in 1 .. Len(p) : ByteClean(p[i], asked)
  BY <1>0, <1>1, <1>p DEF CleanInv, FrameClean
<1>4. Len(p) \in Nat /\ Len(p) >= 1 /\ 1 \in 1 .. Len(p) /\ Len(p) \in 1 .. Len(p)
  BY <1>2, EmptySeq
<1>5. CASE rx = <<>>
  BY <1>2, <1>4, <1>5, <1>p, SizesAssumption DEF BadLength
<1>6. CASE rx # <<>>
  <2>1. Len(rx) \in 1 .. Len(rx) /\ 1 \in 1 .. Len(rx)
    BY <1>1, <1>6, EmptySeq
  <2>2. PICK size \in Nat : size = rx[1].size
    BY <1>1, <2>1, ByteFields
  <2>3. Len(rx) < size /\ rx[1].at = 1 /\ Linked(rx)
    BY <1>0, <1>6, <2>2 DEF ModeInv, RxInv, Follows, Origin
  <2>4. rx[Len(rx)].at = Len(rx) /\ rx[Len(rx)].size = size
    <3>1. Len(rx) <= rx[1].size
      BY <1>1, <2>2, <2>3
    <3> QED BY ONLY <1>1, <1>6, <2>1, <2>2, <2>3, <3>1, FirstRequest
  <2>5. p[1].at = Len(rx) + 1 /\ p[1].size = size
    <3>1. Follows(rx[Len(rx)], p[1])
      BY <1>2, <1>6 DEF LastOf
    <3> QED BY <1>1, <2>3, <2>4, <3>1 DEF Follows
  <2>6. p[Len(p)].at = p[1].at + Len(p) - 1 /\ p[Len(p)].size = p[1].size
    BY ONLY <1>2, <1>3, <1>4, WithinRequest
  <2>7. p[Len(p)].at \in 1 .. p[Len(p)].size
    BY <1>2, <1>4 DEF AllOk, ByteOk
  <2>8. p[Len(p)].size <= RxSize
    BY <1>3, <1>4 DEF ByteClean
  <2>9. Len(rx) + Len(p) <= size /\ size <= RxSize
    BY <1>1, <1>4, <2>5, <2>6, <2>7, <2>8
  <2>10. ~(Len(p) > RxSize - Len(rx))
    BY <1>1, <1>4, <2>2, <2>9, SizesAssumption
  <2> QED BY <1>2, <1>4, <1>p, <2>10, SizesAssumption DEF BadLength
<1> QED BY <1>5, <1>6

(* Part of a record is received.                                           *)
LEMMA ReceivePartKeeps ==
    ASSUME ChannelInv, open, encrypted, NEW n \in 1 .. Len(wire),
           record' = record \o SubSeq(wire, 1, n), Took(n), UNCHANGED <<rx, read_counter, pc>>
    PROVE  ChannelInv'
<1>1. /\ record \in Seq(Frame) /\ wire \in Seq(Frame) /\ n \in 0 .. Len(wire)
      /\ wire' = SubSeq(wire, n + 1, Len(wire))
  <2>1. record \in Seq(Frame) /\ wire \in Seq(Frame)
    BY DEF ChannelInv, ChannelTypes
  <2> QED BY <2>1 DEF Took
<1>2. record' \in Seq(Frame) /\ wire' \in Seq(Frame)
  BY <1>1, Moved
<1>3. Coming' = Coming
  <2>1. PICK a, b : a = SubSeq(wire, 1, n) /\ b = wire'
    OBVIOUS
  <2>2. a \in Seq(Frame) /\ b \in Seq(Frame) /\ record \in Seq(Frame)
    BY <1>1, <2>1, Cut
  <2>3. a \o b = wire
    BY <1>1, <2>1, Cut
  <2>4. (record \o a) \o b = record \o (a \o b)
    BY ONLY <2>2, FramesAssociated, Zenon
  <2> QED BY <2>1, <2>3, <2>4 DEF Coming
<1>4. UNCHANGED <<open, encrypted, rx, read_counter, write_counter, pc, sender, eof,
                  handled, nonces, faults>>
  BY DEF Took
<1> QED BY <1>2, <1>3, <1>4, PartKeeps

(* Closing a connection on which somebody broke the rules.                 *)
LEMMA ClosedKeeps ==
    ASSUME ChannelInv, Closed, faults # {}
    PROVE  ChannelInv'
<1>1. /\ close_client /\ UNCHANGED <<wire, sender, eof>> /\ handled' = handled
      /\ nonces' = nonces /\ faults' = faults
  BY DEF Closed
<1>2. handled \in Nat /\ NonceInv
  BY DEF ChannelInv, ChannelTypes
<1> QED BY <1>1, <1>2, CloseKeeps DEF NonceInv

(* The record in progress and the bytes received with it begin what is     *)
(* The positions of the first part of a sequence in two parts.             *)
LEMMA FirstPart ==
    ASSUME NEW k \in Nat, NEW n \in Nat, n >= 1, NEW y \in Nat
    PROVE  k + n \in 1 .. k + n + y /\ \A i \in 1 .. k + n : i \in 1 .. k + n + y
OBVIOUS

(* coming.                                                                 *)
LEMMA RecordSoFar ==
    ASSUME ChannelInv, NEW n \in 1 .. Len(wire), NEW r, r = record \o SubSeq(wire, 1, n)
    PROVE  /\ r \in Seq(Frame) /\ Len(r) = Len(record) + n
           /\ Len(r) \in 1 .. Len(Coming) /\ Coming \in Seq(Frame)
           /\ \A i \in 1 .. Len(r) : i \in 1 .. Len(Coming) /\ r[i] = Coming[i]
           /\ SubSeq(Coming, Len(r) + 1, Len(Coming)) = SubSeq(wire, n + 1, Len(wire))
<1>1. record \in Seq(Frame) /\ wire \in Seq(Frame)
  BY DEF ChannelInv, ChannelTypes
<1>2. n \in 0 .. Len(wire) /\ n \in Nat /\ n >= 1 /\ Len(record) \in Nat
  BY <1>1
<1>3. PICK a, b : a = SubSeq(wire, 1, n) /\ b = SubSeq(wire, n + 1, Len(wire))
  OBVIOUS
<1>4. a \in Seq(Frame) /\ b \in Seq(Frame) /\ record \in Seq(Frame)
  BY <1>1, <1>2, <1>3, Cut
<1>5. Len(a) = n /\ a \o b = wire
  BY <1>1, <1>2, <1>3, Cut
<1>6. r = record \o a
  BY <1>3
<1>7. r \in Seq(Frame) /\ Len(r) = Len(record) + Len(a)
  BY ONLY <1>4, <1>6, LenJoined
<1>8. Coming = r \o b
  <2>1. (record \o a) \o b = record \o (a \o b)
    BY ONLY <1>4, FramesAssociated, Zenon
  <2> QED BY ONLY <1>5, <1>6, <2>1 DEF Coming
<1>9. /\ r \o b \in Seq(Frame) /\ Len(r \o b) = Len(r) + Len(b)
      /\ \A i \in 1 .. Len(r) : (r \o b)[i] = r[i]
  <2>1. r \in Seq(Frame) /\ b \in Seq(Frame)
    BY <1>4, <1>7
  <2>2. r \o b \in Seq(Frame) /\ Len(r \o b) = Len(r) + Len(b)
    BY ONLY <2>1, LenJoined
  <2>3. \A i \in 1 .. Len(r) : (r \o b)[i] = r[i]
    BY ONLY <2>1, Joined
  <2> QED BY <2>2, <2>3
<1>10. SubSeq(r \o b, Len(r) + 1, Len(r \o b)) = b
  BY ONLY <1>4, <1>7, Behind
<1>11. /\ Len(r) \in 1 .. Len(r \o b)
       /\ \A i \in 1 .. Len(r) : i \in 1 .. Len(r \o b)
  <2>1. PICK x \in Nat, y \in Nat, z \in Nat : x = Len(r) /\ y = Len(b) /\ z = Len(r \o b)
    BY ONLY <1>4, <1>7, <1>9
  <2>2. PICK k \in Nat : k = Len(record)
    BY ONLY <1>2
  <2>3. Len(r) = Len(record) + Len(a) /\ Len(a) = n /\ Len(r \o b) = Len(r) + Len(b)
    BY ONLY <1>5, <1>7, <1>9, Zenon
  <2>4. x = k + n /\ z = x + y
    BY ONLY <2>1, <2>2, <2>3, Zenon
  <2>5. n \in Nat /\ n >= 1
    BY ONLY <1>2, Zenon
  <2>6. k + n \in 1 .. k + n + y /\ \A i \in 1 .. k + n : i \in 1 .. k + n + y
    BY ONLY <2>1, <2>2, <2>5, FirstPart, Zenon
  <2>7. x \in 1 .. z /\ \A i \in 1 .. x : i \in 1 .. z
    BY ONLY <2>4, <2>6
  <2> QED BY ONLY <2>1, <2>7, Zenon
<1> QED BY ONLY <1>3, <1>5, <1>7, <1>8, <1>9, <1>10, <1>11

(* A record is opened.                                                     *)
LEMMA OpenedKeeps ==
    ASSUME ChannelInv, open, encrypted, NEW n \in 1 .. Len(wire),
           NEW r, r = record \o SubSeq(wire, 1, n), pairing_open(r), Took(n),
           record' = <<>>,
           rx' = rx \o [i \in 1 .. Len(r[1].payload) |-> [r[1].payload[i] EXCEPT !.sealed = TRUE]],
           read_counter' = read_counter + 1, pc' = "parse"
    PROVE  ChannelInv'
<1>0. ChannelTypes /\ ModeInv /\ RxInv /\ ComingInv
  BY DEF ChannelInv
<1>1. /\ r \in Seq(Frame) /\ Len(r) \in 1 .. Len(Coming) /\ Coming \in Seq(Frame)
      /\ \A i \in 1 .. Len(r) : i \in 1 .. Len(Coming) /\ r[i] = Coming[i]
      /\ SubSeq(Coming, Len(r) + 1, Len(Coming)) = SubSeq(wire, n + 1, Len(wire))
  BY RecordSoFar
<1>k. PICK k \in 1 .. Len(Coming) : k = Len(r)
  BY <1>1
<1>p. PICK p : p = Coming[1].payload
  OBVIOUS
<1>2. 1 \in 1 .. k /\ k \in 1 .. k /\ r[1] = Coming[1] /\ r[k] = Coming[k]
  <2>1. 1 \in 1 .. k /\ k \in 1 .. k
    BY ONLY k \in 1 .. Len(Coming)
  <2> QED BY ONLY <1>1, <1>k, <2>1
<1>3. /\ Coming[1].sealed /\ Coming[k].sealed /\ Coming[k].counter = read_counter
      /\ Coming[k].at = k /\ k = Len(p) + Overhead
  <2>1. /\ r[1].sealed /\ r[k].sealed /\ r[k].counter = read_counter /\ r[k].at = k
        /\ k = Len(r[1].payload) + Overhead
    BY <1>2, <1>k DEF pairing_open
  <2> QED BY ONLY <1>2, <1>p, <2>1
<1>4. Coming # <<>> /\ 1 \in 1 .. Len(Coming)
  BY <1>1, EmptySeq
<1>5. /\ p \in Seq(RequestByte) /\ p # <<>> /\ Linked(p) /\ AllOk(p, next)
      /\ Follows(LastOf(Origin, rx), p[1]) /\ Coming[1].at = 1
  <2>1. p \in Seq(RequestByte)
    BY <1>1, <1>4, <1>p, FrameFields
  <2>2. FrameOk(Coming[1], next)
    BY <1>0, <1>4 DEF ComingInv
  <2> QED BY <1>0, <1>4, <1>p, <2>1, <2>2 DEF ComingInv, FrameOk
<1>6. Coming[k].payload = p
  <2>1. FrameLen(Coming[1]) = k /\ FramesLinked(Coming) /\ k <= FrameLen(Coming[1])
    BY <1>0, <1>3, <1>p DEF FrameLen, ComingInv
  <2> QED BY ONLY <1>1, <1>4, <1>5, <1>p, <2>1, k \in 1 .. Len(Coming), FirstFrames
<1>t. PICK t : t = [i \in 1 .. Len(p) |-> [p[i] EXCEPT !.sealed = TRUE]]
  OBVIOUS
<1>7. Len(p) \in Nat /\ 1 \in 1 .. Len(p) /\ Len(p) \in 1 .. Len(p)
  BY <1>5, EmptySeq
<1>8. ASSUME NEW i \in 1 .. Len(p)
      PROVE  /\ t[i] \in RequestByte /\ SamePlace(t[i], p[i]) /\ t[i].head = p[i].head
             /\ t[i].kind = p[i].kind /\ t[i].sealed
  <2>1. t[i] = [p[i] EXCEPT !.sealed = TRUE]
    BY <1>t
  <2>2. p[i] \in RequestByte
    BY <1>5
  <2> QED BY ONLY <2>1, <2>2 DEF RequestByte, SamePlace
<1>9. t \in Seq(RequestByte) /\ Len(t) = Len(p)
  <2>1. \A i \in 1 .. Len(p) : [p[i] EXCEPT !.sealed = TRUE] \in RequestByte
    BY <1>8, <1>t
  <2> QED BY ONLY <1>7, <1>t, <2>1
<1>10. t # <<>>
  BY <1>7, <1>9, EmptySeq
<1>11. Linked(t)
  <2> SUFFICES ASSUME NEW i \in 1 .. Len(p) - 1 PROVE Follows(t[i], t[i + 1])
    BY <1>9 DEF Linked
  <2>1. i \in 1 .. Len(p) /\ i + 1 \in 1 .. Len(p)
    BY <1>7
  <2>2. Follows(p[i], p[i + 1])
    BY <1>5 DEF Linked
  <2>3. SamePlace(t[i], p[i]) /\ SamePlace(t[i + 1], p[i + 1])
    BY <1>8, <2>1
  <2> QED BY ONLY <2>2, <2>3 DEF SamePlace, Follows
<1>12. AllOk(t, next)
  <2> SUFFICES ASSUME NEW i \in 1 .. Len(p) PROVE ByteOk(t[i], next)
    BY <1>9 DEF AllOk
  <2>1. ByteOk(p[i], next) /\ SamePlace(t[i], p[i]) /\ t[i].head = p[i].head
    BY <1>5, <1>8 DEF AllOk
  <2> QED BY ONLY <2>1 DEF ByteOk, SamePlace
<1>13. Follows(LastOf(Origin, rx), t[1])
  <2>1. SamePlace(t[1], p[1]) /\ Follows(LastOf(Origin, rx), p[1])
    BY <1>5, <1>7, <1>8
  <2> QED BY ONLY <2>1 DEF Follows, SamePlace
<1>14. /\ Coming[k].at = FrameLen(Coming[k])
       /\ SamePlace(t[Len(t)], Coming[k].payload[Len(Coming[k].payload)])
  BY <1>3, <1>6, <1>7, <1>8, <1>9 DEF FrameLen
<1>15. ASSUME faults = {} PROVE \A i \in 1 .. Len(t) : ByteClean(t[i], asked)
  <2>1. \A i \in 1 .. Len(p) : ByteClean(p[i], asked)
    BY <1>4, <1>15, <1>p DEF ChannelInv, CleanInv, FrameClean
  <2> QED BY <1>8, <1>9, <2>1 DEF ByteClean, SamePlace
<1>16. rx' = rx \o t /\ Coming' = SubSeq(Coming, k + 1, Len(Coming)) /\ wire' \in Seq(Frame)
  <2>1. rx' = rx \o t
    BY <1>2, <1>p, <1>t
  <2>2. wire' = SubSeq(wire, n + 1, Len(wire)) /\ wire \in Seq(Frame)
    BY <1>0 DEF Took, ChannelTypes
  <2>3. wire' \in Seq(Frame)
    BY <2>2, Cut
  <2>4. Coming' = wire'
    <3>1. \A w \in Seq(Frame) : <<>> \o w = w
      OBVIOUS
    <3> QED BY <2>3, <3>1 DEF Coming
  <2> QED BY <1>1, <1>k, <2>1, <2>2, <2>3, <2>4
<1>17. /\ record' \in Seq(Frame)
       /\ UNCHANGED <<open, encrypted, write_counter, sender, eof, handled, nonces, faults>>
       /\ \A i \in 1 .. Len(t) : t[i].sealed
  <2>1. <<>> \in Seq(Frame)
    OBVIOUS
  <2> QED BY <1>8, <1>9, <2>1 DEF Took
<1> QED BY <1>3, <1>9, <1>10, <1>11, <1>12, <1>13, <1>14, <1>15, <1>16, <1>17, TakenKeeps

(* The length a sender that keeps to the rules announces.                  *)
LEMMA LengthKnown ==
    ASSUME ChannelInv, open, encrypted, faults = {}, Len(record) >= 2, NEW length \in Lengths
    PROVE  Coming # <<>> /\ Coming[1].sealed /\ length = Len(Coming[1].payload)
<1>0. ChannelTypes /\ ComingInv /\ CleanInv
  BY DEF ChannelInv
<1>1. record \in Seq(Frame) /\ wire \in Seq(Frame) /\ Coming \in Seq(Frame)
  BY <1>0, LenJoined DEF ChannelTypes, Coming
<1>2. Len(Coming) = Len(record) + Len(wire) /\ \A i \in 1 .. Len(record) : Coming[i] = record[i]
  BY <1>1, Joined DEF Coming
<1>3. /\ 1 \in 1 .. Len(record) /\ 2 \in 1 .. Len(record)
      /\ 1 \in 1 .. Len(Coming) /\ 2 \in 1 .. Len(Coming)
  BY <1>1, <1>2
<1>4. Coming # <<>> /\ Coming[1].sealed /\ Coming[2].sealed /\ Coming[1].at = 1
  BY <1>0, <1>1, <1>3, EmptySeq DEF CleanInv, ComingInv
<1>5. 2 <= FrameLen(Coming[1]) /\ FramesLinked(Coming)
  <2>1. Coming[1].payload \in Seq(RequestByte)
    BY <1>1, <1>3, FrameFields
  <2> QED BY <1>0, <1>4, <2>1, SizesAssumption DEF FrameLen, ComingInv
<1>6. Coming[2].at = 2
  BY ONLY <1>1, <1>3, <1>4, <1>5, FirstFrames
<1>7. /\ record[1].sealed /\ record[1].at = 1 /\ record[2].sealed /\ record[2].at = 2
      /\ record[1] = Coming[1]
  BY ONLY <1>2, <1>3, <1>4, <1>6
<1>8. \A i \in 1 .. 2 : record[i].sealed /\ record[i].at = i
  <2>1. \A i \in 1 .. 2 : i = 1 \/ i = 2
    OBVIOUS
  <2> QED BY ONLY <1>7, <2>1
<1>9. length = Len(record[1].payload)
  BY <1>8 DEF Lengths
<1> QED BY <1>4, <1>7, <1>9

(* A complete record of a sender that keeps to the rules is opened.        *)
LEMMA RecordOpens ==
    ASSUME ChannelInv, open, encrypted, faults = {}, Coming # <<>>, NEW n \in 1 .. Len(wire),
           NEW r, r = record \o SubSeq(wire, 1, n), Len(r) = Len(Coming[1].payload) + Overhead
    PROVE  pairing_open(r)
<1>0. ChannelTypes /\ ComingInv /\ CleanInv
  BY DEF ChannelInv
<1>1. /\ r \in Seq(Frame) /\ Len(r) \in 1 .. Len(Coming) /\ Coming \in Seq(Frame)
      /\ \A i \in 1 .. Len(r) : i \in 1 .. Len(Coming) /\ r[i] = Coming[i]
  BY RecordSoFar
<1>2. 1 \in 1 .. Len(Coming) /\ 1 \in 1 .. Len(r) /\ Len(r) \in Nat
  BY <1>1, EmptySeq
<1>3. /\ Coming[1].sealed /\ Coming[1].at = 1 /\ Coming[1].intact
      /\ Coming[1].counter = read_counter /\ Coming[1].counter < MaxCounter
      /\ FramesLinked(Coming)
  BY <1>0, <1>2 DEF CleanInv, ComingInv, FrameClean, FrameOk
<1>4. FrameLen(Coming[1]) = Len(r)
  BY <1>3 DEF FrameLen
<1>5. ASSUME NEW i \in 1 .. Len(r)
      PROVE  r[i].sealed /\ r[i].intact /\ r[i].counter = read_counter /\ r[i].at = i
  <2>1. i \in 1 .. Len(Coming) /\ r[i] = Coming[i] /\ i <= FrameLen(Coming[1])
    BY <1>1, <1>2, <1>4
  <2>2. /\ Coming[i].at = i /\ Coming[i].sealed = Coming[1].sealed
        /\ Coming[i].counter = Coming[1].counter /\ Coming[i].intact = Coming[1].intact
    <3>1. Coming \in Seq(Frame) /\ FramesLinked(Coming) /\ Coming # <<>> /\ Coming[1].at = 1
      BY <1>1, <1>3
    <3>2. \A k \in 1 .. Len(Coming) :
             k <= FrameLen(Coming[1]) =>
                /\ Coming[k].at = k /\ Coming[k].sealed = Coming[1].sealed
                /\ Coming[k].counter = Coming[1].counter /\ Coming[k].intact = Coming[1].intact
      BY ONLY <3>1, FirstFrames
    <3> QED BY ONLY <2>1, <3>2
  <2>3. Coming[i].sealed /\ Coming[i].intact /\ Coming[i].counter = read_counter
    BY <1>3, <2>2
  <2> QED BY <2>1, <2>2, <2>3
<1>6. read_counter # MaxCounter
  <2>1. read_counter \in Nat
    BY <1>0 DEF ChannelTypes
  <2> QED BY <1>3, <2>1, SizesAssumption
<1>7. Len(r) = Len(r[1].payload) + Overhead
  BY <1>1, <1>2
<1> QED BY <1>5, <1>6, <1>7 DEF pairing_open

(* The control thread receives.                                            *)
LEMMA ReceiveKeeps ==
    ASSUME ChannelInv, receive_client
    PROVE  ChannelInv'
<1>0. open /\ pc = "wait" /\ (wire # <<>> \/ eof)
  BY DEF receive_client
<1>1. wire = <<>> => faults # {}
  BY <1>0 DEF ChannelInv, CleanInv
<1>2. record \in Seq(Frame) /\ wire \in Seq(Frame) /\ Len(record) \in Nat /\ Len(wire) \in Nat
  BY DEF ChannelInv, ChannelTypes
<1>3. CASE ~encrypted
  <2>1. CASE wire = <<>>
    BY <1>1, <1>3, <2>1, ClosedKeeps DEF receive_client
  <2>2. CASE wire # <<>>
    <3>1. ReceiveClear
      BY <1>3, <2>2 DEF receive_client
    <3> QED BY <1>0, <1>3, <3>1, ReceiveClearKeeps
  <2> QED BY <2>1, <2>2
<1>4. CASE encrypted /\ Len(record) < 2
  <2>1. CASE wire = <<>>
    BY <1>1, <1>4, <2>1, ClosedKeeps DEF receive_client
  <2>2. CASE wire # <<>>
    <3>1. PICK n \in 1 .. 2 - Len(record) :
             /\ n <= Len(wire) /\ record' = record \o SubSeq(wire, 1, n) /\ Took(n)
             /\ UNCHANGED <<rx, read_counter, pc>>
      BY <1>4, <2>2 DEF receive_client, ReceiveLength
    <3>2. n \in 1 .. Len(wire)
      BY <1>2, <3>1
    <3> QED BY <1>0, <1>4, <3>1, <3>2, ReceivePartKeeps
  <2> QED BY <2>1, <2>2
<1>5. CASE encrypted /\ ~(Len(record) < 2)
  <2>1. Len(record) >= 2
    BY <1>2, <1>5
  <2>2. PICK length \in Lengths :
           IF BadLength(length) \/ wire = <<>> THEN Closed
           ELSE ReceiveRecord(length + Overhead)
    BY <1>5 DEF receive_client
  <2>3. faults = {} => Coming # <<>> /\ Coming[1].sealed /\ length = Len(Coming[1].payload)
    BY <1>0, <1>5, <2>1, LengthKnown
  <2>4. CASE BadLength(length) \/ wire = <<>>
    <3>1. faults # {}
      BY <1>0, <1>1, <2>3, <2>4, RecordFits
    <3> QED BY <2>2, <2>4, <3>1, ClosedKeeps
  <2>5. CASE ~(BadLength(length) \/ wire = <<>>)
    <3>1. PICK n \in 1 .. Len(wire) :
             /\ n <= (length + Overhead) - Len(record)
             /\ LET r == record \o SubSeq(wire, 1, n) IN
                IF Len(r) < length + Overhead
                THEN Took(n) /\ record' = r /\ UNCHANGED <<rx, read_counter, pc>>
                ELSE IF pairing_open(r)
                THEN /\ Took(n)
                     /\ record' = <<>>
                     /\ rx' = rx \o [i \in 1 .. Len(r[1].payload) |->
                                       [r[1].payload[i] EXCEPT !.sealed = TRUE]]
                     /\ read_counter' = read_counter + 1
                     /\ pc' = "parse"
                ELSE Closed
      BY <2>2, <2>5 DEF ReceiveRecord
    <3>r. PICK r : r = record \o SubSeq(wire, 1, n)
      OBVIOUS
    <3>2. CASE Len(r) < length + Overhead
      BY <1>0, <1>5, <3>1, <3>r, <3>2, ReceivePartKeeps
    <3>3. CASE ~(Len(r) < length + Overhead) /\ pairing_open(r)
      BY <1>0, <1>5, <3>1, <3>r, <3>3, OpenedKeeps
    <3>4. CASE ~(Len(r) < length + Overhead) /\ ~pairing_open(r)
      <4>1. Closed
        BY <3>1, <3>r, <3>4
      <4>2. Len(r) = Len(record) + n
        BY <3>r, RecordSoFar
      <4>3. length \in Nat => Len(r) = length + Overhead
        BY <1>2, <3>1, <3>4, <4>2, SizesAssumption
      <4>4. ASSUME faults = {} PROVE FALSE
        <5>1. Coming # <<>> /\ length = Len(Coming[1].payload)
          BY <2>3, <4>4
        <5>2. Len(Coming[1].payload) \in Nat
          <6>1. Coming \in Seq(Frame)
            BY <1>2, LenJoined DEF Coming
          <6>2. Coming[1].payload \in Seq(RequestByte)
            BY <5>1, <6>1, EmptySeq, FrameFields
          <6> QED BY <6>2
        <5>3. Len(r) = Len(Coming[1].payload) + Overhead
          BY <4>3, <5>1, <5>2
        <5> QED BY <1>0, <1>5, <3>r, <3>4, <4>4, <5>1, <5>3, RecordOpens
      <4> QED BY <4>1, <4>4, ClosedKeeps
    <3> QED BY <3>2, <3>3, <3>4
  <2> QED BY <2>4, <2>5
<1> QED BY <1>3, <1>4, <1>5

(* A small number is its own remainder.                                    *)
LEMMA SmallRemainder ==
    ASSUME NEW n \in Nat, NEW y \in 0 .. n
    PROVE  y % (n + 1) = y
OBVIOUS

(* The nonces of a response follow those of the earlier ones.              *)
LEMMA NoncesGo ==
    ASSUME ChannelInv, open, NEW used \in FailedResponses
    PROVE  LET more == nonces \o used IN
           /\ more \in Seq(Nat) /\ Len(more) <= MaxCounter
           /\ \A i \in 1 .. Len(more) : more[i] = i - 1
           /\ (write_counter + Len(used)) % (MaxCounter + 1) = Len(more)
<1>0. /\ nonces \in Seq(Nat) /\ Len(nonces) <= MaxCounter /\ Len(nonces) \in Nat
      /\ \A i \in 1 .. Len(nonces) : nonces[i] = i - 1
      /\ write_counter = Len(nonces) /\ MaxCounter \in Nat
  BY SizesAssumption DEF ChannelInv, NonceInv
<1>1. PICK m \in Nat :
          /\ used \in Seq(Nat) /\ Len(used) = m /\ Len(nonces) + m <= MaxCounter
          /\ \A i \in 1 .. m : used[i] = (Len(nonces) + i) - 1
  <2>1. CASE used = <<>>
    <3>1. used \in Seq(Nat) /\ Len(used) = 0
      BY <2>1
    <3> QED BY <1>0, <3>1
  <2>2. CASE used \in pairing_seal
    <3>1. PICK m \in {m \in 1 .. MaxReply : write_counter + m <= MaxCounter} :
             used = [i \in 1 .. m |-> write_counter + i - 1]
      BY <2>2 DEF pairing_seal
    <3>2. m \in Nat /\ write_counter + m <= MaxCounter /\ write_counter \in Nat
      BY <1>0, <3>1, BoundsAssumption
    <3>3. \A i \in 1 .. m : write_counter + i - 1 \in Nat
      BY <3>2
    <3>4. used \in Seq(Nat) /\ Len(used) = m
      BY ONLY <3>1, <3>2, <3>3
    <3>5. \A i \in 1 .. m : used[i] = (Len(nonces) + i) - 1
      BY <1>0, <3>1
    <3> QED BY <1>0, <3>2, <3>4, <3>5
  <2> QED BY <2>1, <2>2 DEF FailedResponses, Responses
<1>more. PICK more : more = nonces \o used
  OBVIOUS
<1>2. more \in Seq(Nat) /\ Len(more) = Len(nonces) + m
  BY <1>0, <1>1, <1>more, LenJoined
<1>3. ASSUME NEW i \in 1 .. Len(more) PROVE more[i] = i - 1
  <2>1. CASE i \in 1 .. Len(nonces) /\ more[i] = nonces[i]
    BY <1>0, <2>1
  <2>2. CASE \E j \in 1 .. Len(used) : i = Len(nonces) + j /\ more[i] = used[j]
    BY <1>0, <1>1, <2>2
  <2> QED BY <1>0, <1>1, <1>more, <2>1, <2>2, JoinedAt
<1>4. (write_counter + Len(used)) % (MaxCounter + 1) = Len(more)
  <2>1. Len(nonces) + m \in 0 .. MaxCounter
    BY <1>0, <1>1
  <2>2. (Len(nonces) + m) % (MaxCounter + 1) = Len(nonces) + m
    BY ONLY <1>0, <2>1, SmallRemainder
  <2> QED BY <1>0, <1>1, <1>2, <2>2
<1> QED BY <1>0, <1>1, <1>2, <1>3, <1>4, <1>more

(* The first byte of the buffer is the first of the next request, and the  *)
(* last byte of that request is followed by the next one.                  *)
LEMMA AtRequest ==
    ASSUME ChannelInv, open, rx # <<>>
    PROVE  /\ rx \in Seq(RequestByte) /\ Len(rx) \in Nat /\ 1 \in 1 .. Len(rx)
           /\ rx[1].req \in Nat /\ rx[1].req = handled + 1 /\ rx[1].at = 1
           /\ rx[1].size \in Nat /\ rx[1].head \in 1 .. rx[1].size
           /\ rx[1].size <= Len(rx) =>
                 /\ rx[1].size \in 1 .. Len(rx)
                 /\ rx[rx[1].size].req = rx[1].req
                 /\ rx[rx[1].size].at = rx[1].size /\ rx[rx[1].size].size = rx[1].size
<1>0. ChannelTypes /\ RxInv
  BY DEF ChannelInv
<1>1. rx \in Seq(RequestByte) /\ Len(rx) \in Nat /\ 1 \in 1 .. Len(rx)
  BY <1>0, EmptySeq DEF ChannelTypes
<1>2. rx[1].req \in Nat /\ rx[1].size \in Nat
  BY <1>1, ByteFields
<1>3. rx[1].head \in 1 .. rx[1].size /\ rx[1].at = 1 /\ rx[1].req = handled + 1 /\ Linked(rx)
  BY <1>0, <1>1 DEF RxInv, AllOk, ByteOk, Follows, Origin
<1>4. PICK size \in Nat : size = rx[1].size
  BY <1>2
<1>5. ASSUME size <= Len(rx)
      PROVE  size \in 1 .. Len(rx) /\ rx[size].req = rx[1].req /\ rx[size].at = size
             /\ rx[size].size = size
  <2>1. size \in 1 .. Len(rx) /\ size <= rx[1].size
    BY <1>1, <1>3, <1>4, <1>5
  <2>2. rx[size].req = rx[1].req /\ rx[size].at = size /\ rx[size].size = rx[1].size
    BY ONLY <1>1, <1>3, <2>1, rx # <<>>, FirstRequest
  <2> QED BY <1>4, <2>1, <2>2
<1> QED BY <1>1, <1>2, <1>3, <1>4, <1>5

(* The loop waits for the rest of a request.                               *)
LEMMA WaitKeeps ==
    ASSUME ChannelInv, open, pc = "parse", parse_request = 0, pc' = "wait",
           UNCHANGED <<open, encrypted, rx, record, read_counter, write_counter, handled,
                       nonces, faults>>,
           UNCHANGED <<wire, sender, eof>>
    PROVE  ChannelInv'
<1>0. /\ seals' = seals /\ open' = open /\ encrypted' = encrypted
      /\ rx' = rx /\ record' = record /\ read_counter' = read_counter
      /\ write_counter' = write_counter /\ plain' = plain /\ next' = next
      /\ asked' = asked /\ tx_counter' = tx_counter /\ wire' = wire /\ eof' = eof
      /\ handled' = handled /\ nonces' = nonces /\ faults' = faults
  BY DEF sender
<1>1. Coming' = Coming /\ Origin' = Origin
  BY <1>0 DEF Coming, Origin
<1>2. LastSent' = LastSent
  BY <1>0, <1>1 DEF LastSent, LastOf
<1>3. ChannelTypes'
  BY <1>0 DEF ChannelInv, ChannelTypes
<1>4. ModeInv'
  <2>1. rx # <<>> /\ ModeInv
    BY DEF ChannelInv, ModeInv
  <2>2. Len(rx) \in Nat /\ rx[1].size \in Nat /\ rx[1].head \in 1 .. rx[1].size
    BY <2>1, AtRequest
  <2>3. Len(rx) < rx[1].head \/ Len(rx) < rx[1].size
    BY DEF parse_request
  <2>4. Len(rx) < rx[1].size
    BY <2>2, <2>3
  <2> QED BY <1>0, <1>1, <2>1, <2>4 DEF ModeInv
<1>5. NonceInv' /\ BoundaryHolds' /\ ClosedForCause'
  BY <1>0 DEF ChannelInv, NonceInv, BoundaryHolds, ClosedForCause
<1>6. RxInv'
  BY <1>0, <1>1, RxNext DEF ChannelInv, RxInv
<1>7. ComingInv'
  BY <1>0, <1>1, ComingNext DEF ChannelInv, ComingInv
<1>8. ~eof => PlainInv'
  BY <1>0, <1>2, PlainNext DEF ChannelInv, PlainInv
<1>9. faults = {} => CleanInv'
  BY <1>0, <1>1, CleanNext DEF ChannelInv, CleanInv
<1> QED BY <1>0, <1>3, <1>4, <1>5, <1>6, <1>7, <1>8, <1>9 DEF ChannelInv

(* Only a request that breaks the rules is refused.                        *)
LEMMA RefuseKeeps ==
    ASSUME ChannelInv, open, pc = "parse", parse_request = -1, Refuse, handled' = handled,
           UNCHANGED <<wire, sender, eof>>
    PROVE  ChannelInv'
<1>1. rx # <<>>
  BY DEF ChannelInv, ModeInv
<1>2. /\ Len(rx) \in Nat /\ rx[1].size \in Nat /\ rx[1].head \in 1 .. rx[1].size
      /\ 1 \in 1 .. Len(rx)
  BY <1>1, AtRequest
<1>3. \/ Len(rx) < rx[1].head /\ Len(rx) = RxSize
      \/ rx[1].kind = "malformed" \/ rx[1].size > RxSize
  BY DEF parse_request
<1>4. ASSUME faults = {} PROVE FALSE
  <2>1. rx[1].kind # "malformed" /\ rx[1].size <= RxSize
    BY <1>2, <1>4 DEF ChannelInv, CleanInv, ByteClean
  <2> QED BY <1>2, <1>3, <2>1, SizesAssumption
<1>5. PICK used \in FailedResponses : nonces' = nonces \o used
  BY DEF Refuse
<1>6. /\ nonces' \in Seq(Nat) /\ Len(nonces') <= MaxCounter
      /\ \A i \in 1 .. Len(nonces') : nonces'[i] = i - 1
  BY <1>5, NoncesGo
<1>7. close_client /\ faults' = faults /\ handled \in Nat
  BY DEF Refuse, ChannelInv, ChannelTypes
<1> QED BY <1>4, <1>6, <1>7, CloseKeeps

(* A response fails.                                                       *)
LEMMA FailKeeps ==
    ASSUME ChannelInv, open, pc = "parse", FailToRespond, handled' = rx[1].req,
           UNCHANGED <<wire, sender, eof>>
    PROVE  ChannelInv'
<1>1. rx # <<>>
  BY DEF ChannelInv, ModeInv
<1>2. rx[1].req \in Nat
  BY <1>1, AtRequest
<1>3. PICK used \in FailedResponses : nonces' = nonces \o used
  BY DEF FailToRespond
<1>4. /\ nonces' \in Seq(Nat) /\ Len(nonces') <= MaxCounter
      /\ \A i \in 1 .. Len(nonces') : nonces'[i] = i - 1
  BY <1>3, NoncesGo
<1>5. close_client /\ faults' # {}
  BY DEF FailToRespond
<1> QED BY <1>2, <1>4, <1>5, CloseKeeps

(* A request is handled and its bytes leave the buffer.                    *)
LEMMA HandleKeeps ==
    ASSUME ChannelInv, open, pc = "parse", parse_request = 1, Handle, handled' = rx[1].req,
           UNCHANGED <<wire, sender, eof>>
    PROVE  ChannelInv'
<1>0. ChannelTypes /\ ModeInv /\ NonceInv /\ BoundaryHolds /\ RxInv /\ ComingInv /\ rx # <<>>
  BY DEF ChannelInv, ModeInv
<1>size. PICK size : size = rx[1].size
  OBVIOUS
<1>1. /\ rx \in Seq(RequestByte) /\ Len(rx) \in Nat /\ 1 \in 1 .. Len(rx)
      /\ rx[1].req \in Nat /\ rx[1].req = handled + 1
      /\ size \in Nat /\ rx[1].head \in 1 .. size
  BY <1>0, <1>size, AtRequest
<1>2. size <= Len(rx)
  <2>1. ~(Len(rx) < rx[1].size)
    BY DEF parse_request
  <2> QED BY <1>1, <1>size, <2>1
<1>3. /\ size \in 1 .. Len(rx) /\ rx[size].req = rx[1].req /\ rx[size].at = size
      /\ rx[size].size = size
  BY <1>0, <1>2, <1>size, AtRequest
<1>rest. PICK rest : rest = SubSeq(rx, size + 1, Len(rx))
  OBVIOUS
<1>completes. PICK completes \in BOOLEAN : completes = (~encrypted /\ rx[1].kind = "pair")
  OBVIOUS
<1>4. size \in 0 .. Len(rx)
  BY <1>1, <1>3
<1>5. /\ rest \in Seq(RequestByte) /\ Len(rest) = Len(rx) - size
      /\ \A i \in 1 .. Len(rx) - size : size + i \in 1 .. Len(rx) /\ rest[i] = rx[size + i]
  BY ONLY <1>1, <1>4, <1>rest, Cut
<1>6. PICK used \in Responses :
         /\ nonces' = nonces \o used
         /\ IF completes /\ rest # <<>> THEN close_client
            ELSE /\ rx' = rest
                 /\ encrypted' = (encrypted \/ completes)
                 /\ write_counter' = (write_counter + Len(used)) % (MaxCounter + 1)
                 /\ pc' = IF rest = <<>> THEN "wait" ELSE "parse"
                 /\ UNCHANGED <<open, record, read_counter>>
         /\ UNCHANGED faults
  BY <1>rest, <1>size, <1>completes DEF Handle, Rest, Crosses, Continue
<1>7. used \in FailedResponses
  BY DEF FailedResponses
<1>8. /\ nonces' \in Seq(Nat) /\ Len(nonces') <= MaxCounter
      /\ \A i \in 1 .. Len(nonces') : nonces'[i] = i - 1
      /\ (write_counter + Len(used)) % (MaxCounter + 1) = Len(nonces')
  BY <1>6, <1>7, NoncesGo
<1>9. ASSUME rest # <<>>
      PROVE  /\ 1 \in 1 .. Len(rest) /\ rest[1] = rx[size + 1] /\ rest[1].req = rx[1].req + 1
             /\ rest[1].at = 1 /\ size + 1 \in 1 .. Len(rx)
  <2>1. 1 \in 1 .. Len(rest) /\ 1 \in 1 .. Len(rx) - size
    BY <1>5, <1>9, EmptySeq
  <2>2. size + 1 \in 1 .. Len(rx) /\ rest[1] = rx[size + 1]
    BY <1>5, <2>1
  <2>3. size \in 1 .. Len(rx) - 1
    BY <1>1, <1>3, <2>2
  <2>4. Follows(rx[size], rx[size + 1])
    BY <1>0, <2>3 DEF RxInv, Linked
  <2>5. rx[size + 1].req = rx[1].req + 1 /\ rx[size + 1].at = 1
    BY <1>1, <1>3, <2>4 DEF Follows
  <2> QED BY <2>1, <2>2, <2>5
<1>10. ASSUME faults = {}, completes
       PROVE  /\ rx[1].req = asked /\ asked # 0 /\ rest = <<>> /\ Coming = <<>>
  <2>1. CleanInv /\ ~encrypted /\ rx[1].kind = "pair" /\ asked \in Nat
    BY <1>0, <1>10, <1>completes DEF ChannelInv, ChannelTypes
  <2>2. rx[1].req = asked
    BY <1>1, <2>1 DEF CleanInv, ByteClean
  <2>3. handled \in Nat /\ asked # 0
    BY <1>0, <1>1, <2>1, <2>2 DEF ChannelTypes
  <2>4. rest = <<>>
    <3> SUFFICES ASSUME rest # <<>> PROVE FALSE
      OBVIOUS
    <3>1. rest[1].req = asked + 1 /\ rest[1] = rx[size + 1] /\ size + 1 \in 1 .. Len(rx)
      BY <1>9, <2>2
    <3>2. InClear(rx[size + 1], asked)
      BY <2>1, <3>1 DEF CleanInv
    <3> QED BY <2>1, <2>3, <3>1, <3>2 DEF InClear
  <2>5. Coming = <<>>
    <3> SUFFICES ASSUME Coming # <<>> PROVE FALSE
      OBVIOUS
    <3>1. Coming \in Seq(Frame)
      BY <1>0, LenJoined DEF ChannelTypes, Coming
    <3>2. 1 \in 1 .. Len(Coming)
      BY <3>1, EmptySeq
    <3>3. InClear(Coming[1].payload[1], asked)
      <4>1. ~Coming[1].sealed
        BY <1>0, <2>1, <3>2 DEF ModeInv
      <4> QED BY <2>1, <3>2, <4>1 DEF CleanInv, FrameClean
    <3>4. LastOf(Origin, rx) = rx[size]
      <4>1. Len(rx) - size = 0
        BY <1>5, <2>4
      <4>2. Len(rx) = size
        BY <1>1, <4>1
      <4> QED BY <1>0, <4>2 DEF LastOf
    <3>5. Follows(rx[size], Coming[1].payload[1])
      BY <1>0, <3>4 DEF ComingInv
    <3>6. Coming[1].payload[1].req = asked + 1
      BY <1>1, <1>3, <2>2, <3>5 DEF Follows
    <3> QED BY <2>1, <2>3, <3>3, <3>6 DEF InClear
  <2> QED BY <2>2, <2>3, <2>4, <2>5
<1>11. CASE completes /\ rest # <<>>
  <2>1. faults # {}
    BY <1>10, <1>11
  <2>2. close_client /\ faults' = faults /\ handled' \in Nat
    BY <1>1, <1>6, <1>11
  <2> QED BY <1>8, <2>1, <2>2, CloseKeeps
<1>12. CASE ~(completes /\ rest # <<>>)
  <2>0. /\ rx' = rest /\ encrypted' = (encrypted \/ completes) /\ write_counter' = Len(nonces')
        /\ pc' = IF rest = <<>> THEN "wait" ELSE "parse"
        /\ open' = open /\ record' = record /\ read_counter' = read_counter
        /\ faults' = faults /\ seals' = seals /\ plain' = plain /\ next' = next
        /\ asked' = asked /\ tx_counter' = tx_counter /\ wire' = wire /\ eof' = eof
    BY <1>6, <1>8, <1>12 DEF sender
  <2>1. Coming' = Coming
    BY <2>0 DEF Coming
  <2>2. Origin' = [req |-> rx[1].req, at |-> 0, size |-> 0]
    BY DEF Origin
  <2>3. ASSUME NEW c, Follows(LastOf(Origin, rx), c)
        PROVE  Follows(LastOf(Origin', rest), c)
    <3>1. CASE rest = <<>>
      <4>1. Len(rx) - size = 0
        BY <1>5, <3>1
      <4>2. Len(rx) = size
        BY <1>1, <4>1
      <4>3. LastOf(Origin, rx) = rx[size] /\ LastOf(Origin', rest) = Origin'
        BY <1>0, <3>1, <4>2 DEF LastOf
      <4>4. /\ Origin'.at = 0 /\ Origin'.size = 0 /\ Origin'.req = rx[1].req
        BY <2>2
      <4>5. c.req = rx[1].req + 1 /\ c.at = 1
        BY <1>1, <1>3, <2>3, <4>3 DEF Follows
      <4> QED BY ONLY <4>3, <4>4, <4>5 DEF Follows
    <3>2. CASE rest # <<>>
      <4>1. LastOf(Origin, rx) = rx[Len(rx)] /\ LastOf(Origin', rest) = rest[Len(rest)]
        BY <1>0, <3>2 DEF LastOf
      <4>2. Len(rx) - size \in 1 .. Len(rx) - size
        BY <1>1, <1>5, <1>9, <3>2
      <4>3. size + (Len(rx) - size) = Len(rx)
        BY <1>1
      <4>4. rest[Len(rest)] = rx[Len(rx)]
        BY <1>5, <4>2, <4>3
      <4> QED BY <2>3, <4>1, <4>4
    <3> QED BY <3>1, <3>2
  <2>4. LET a == LastOf(Origin, rx)
            b == LastOf(Origin', rest)
        IN  a.at = a.size => b.at = b.size /\ b.req = a.req
    <3>1. CASE rest = <<>>
      <4>1. Len(rx) - size = 0
        BY <1>5, <3>1
      <4>2. Len(rx) = size
        BY <1>1, <4>1
      <4>3. LastOf(Origin, rx) = rx[size] /\ LastOf(Origin', rest) = Origin'
        BY <1>0, <3>1, <4>2 DEF LastOf
      <4>4. /\ Origin'.at = 0 /\ Origin'.size = 0 /\ Origin'.req = rx[1].req
        BY <2>2
      <4> QED BY ONLY <1>3, <4>3, <4>4
    <3>2. CASE rest # <<>>
      <4>1. LastOf(Origin, rx) = rx[Len(rx)] /\ LastOf(Origin', rest) = rest[Len(rest)]
        BY <1>0, <3>2 DEF LastOf
      <4>2. Len(rx) - size \in 1 .. Len(rx) - size
        BY <1>1, <1>5, <1>9, <3>2
      <4>3. size + (Len(rx) - size) = Len(rx)
        BY <1>1
      <4>4. rest[Len(rest)] = rx[Len(rx)]
        BY <1>5, <4>2, <4>3
      <4> QED BY <4>1, <4>4
    <3> QED BY <3>1, <3>2
  <2>5. ChannelTypes'
    <3>1. encrypted' \in BOOLEAN /\ write_counter' \in Nat /\ handled' \in Nat
      BY <1>0, <1>1, <1>8, <2>0 DEF ChannelTypes
    <3>2. pc' \in {"wait", "parse"}
      BY <2>0
    <3> QED BY <1>0, <1>5, <2>0, <3>1, <3>2 DEF ChannelTypes
  <2>6. ModeInv'
    BY <1>0, <2>0, <2>1 DEF ModeInv
  <2>7. NonceInv' /\ ClosedForCause'
    BY <1>8, <2>0 DEF NonceInv, ClosedForCause
  <2>8. BoundaryHolds'
    <3>1. ASSUME encrypted, NEW i \in 1 .. Len(rest) PROVE rest[i].sealed
      BY <1>0, <1>5, <3>1 DEF BoundaryHolds
    <3>2. completes => Len(rest) = 0
      BY <1>12
    <3>3. \A i \in 1 .. 0 : FALSE
      OBVIOUS
    <3> QED BY <2>0, <3>1, <3>2, <3>3 DEF BoundaryHolds
  <2>9. RxInv'
    <3>1. AllOk(rest, next)
      BY <1>0, <1>5 DEF RxInv, AllOk
    <3>2. Linked(rest)
      BY <1>0, <1>1, <1>4, <1>rest, LinkedCut DEF RxInv
    <3>3. rest # <<>> => Follows(Origin', rest[1])
      BY <1>9, <2>2 DEF Follows
    <3> QED BY <2>0, <3>1, <3>2, <3>3, RxNext
  <2>10. ComingInv'
    <3>1. Coming # <<>> => Follows(LastOf(Origin', rest), Coming[1].payload[1])
      BY <1>0, <2>3 DEF ComingInv
    <3> QED BY <1>0, <2>0, <2>1, <3>1, ComingNext DEF ComingInv
  <2>11. ASSUME ~eof PROVE PlainInv'
    <3>1. PlainInv
      BY <2>11 DEF ChannelInv
    <3>2. LastSent = IF Coming = <<>> THEN LastOf(Origin, rx) ELSE LastSent
      BY DEF LastSent
    <3>3. LastSent' = IF Coming = <<>> THEN LastOf(Origin', rest) ELSE LastSent
      BY <2>0, <2>1 DEF LastSent
    <3>4. plain # <<>> => Follows(LastSent', plain[1])
      BY <2>3, <3>1, <3>2, <3>3 DEF PlainInv
    <3>5. LET last == LastOf(LastSent', plain) IN last.at = last.size /\ last.req = next - 1
      <4>1. CASE plain = <<>>
        <5>1. LastOf(LastSent, plain) = LastSent /\ LastOf(LastSent', plain) = LastSent'
          BY <4>1 DEF LastOf
        <5>2. LastSent.at = LastSent.size /\ LastSent.req = next - 1
          BY <3>1, <5>1 DEF PlainInv
        <5>3. LastSent'.at = LastSent'.size /\ LastSent'.req = next - 1
          BY ONLY <2>4, <3>2, <3>3, <5>2
        <5> QED BY <5>1, <5>3
      <4>2. CASE plain # <<>>
        BY <3>1, <4>2 DEF PlainInv, LastOf
      <4> QED BY <4>1, <4>2
    <3> QED BY <2>0, <3>1, <3>4, <3>5, PlainNext DEF PlainInv
  <2>12. ASSUME faults = {} PROVE CleanInv'
    <3>1. CleanInv
      BY <2>12 DEF ChannelInv
    <3>2. \A i \in 1 .. Len(rest) :
             ByteClean(rest[i], asked) /\ (~encrypted => InClear(rest[i], asked))
      BY <1>5, <3>1 DEF CleanInv
    <3>3. \A i \in 1 .. Len(rx') :
             ByteClean(rx'[i], asked') /\ (~encrypted' => InClear(rx'[i], asked'))
      BY ONLY <2>0, <3>2
    <3>4. encrypted' => asked' # 0 /\ \A i \in 1 .. Len(Coming') : Coming'[i].sealed
      <4>1. CASE encrypted
        BY <2>0, <2>1, <3>1, <4>1 DEF CleanInv
      <4>2. CASE completes
        <5>1. asked # 0 /\ Coming = <<>>
          BY <1>10, <2>12, <4>2
        <5>2. \A i \in 1 .. Len(Coming) : Coming[i].sealed
          BY <5>1
        <5> QED BY <2>0, <2>1, <5>1, <5>2
      <4> QED BY <2>0, <4>1, <4>2
    <3>5. encrypted' /\ ~seals' => rx' = <<>> /\ handled' = asked'
      <4>1. CASE encrypted
        BY <1>0, <2>0, <3>1, <4>1 DEF CleanInv
      <4>2. CASE completes
        BY <1>10, <2>0, <2>12, <4>2
      <4> QED BY <2>0, <4>1, <4>2
    <3> QED BY <2>0, <2>1, <3>1, <3>3, <3>4, <3>5, CleanNext DEF CleanInv
  <2> QED BY <2>0, <2>5, <2>6, <2>7, <2>8, <2>9, <2>10, <2>11, <2>12 DEF ChannelInv
<1> QED BY <1>11, <1>12

(* The slot takes another connection.                                      *)
LEMMA AcceptKeeps ==
    ASSUME ChannelInv, Accept
    PROVE  ChannelInv'
<1>0. /\ open' = TRUE /\ encrypted' = FALSE /\ rx' = <<>> /\ record' = <<>>
      /\ read_counter' = 0 /\ write_counter' = 0 /\ pc' = "wait"
      /\ wire' = <<>> /\ eof' = FALSE /\ plain' = <<>> /\ asked' = 0 /\ seals' = FALSE
      /\ tx_counter' = 0 /\ handled' = next - 1 /\ nonces' = <<>> /\ faults' = {}
      /\ next' = next
  BY DEF Accept
<1>1. next \in Nat \ {0} /\ handled' \in Nat /\ MaxCounter \in Nat
  BY <1>0, SizesAssumption DEF ChannelInv, ChannelTypes
<1>2. /\ <<>> \in Seq(RequestByte) /\ <<>> \in Seq(Frame) /\ <<>> \in Seq(Nat)
      /\ \A i \in 1 .. Len(<<>>) : FALSE
  OBVIOUS
<1>3. Coming' = <<>>
  BY <1>0 DEF Coming
<1>4. ChannelTypes'
  <2>1. 0 \in 0 .. MaxCounter /\ 0 \in Nat /\ next' \in Nat \ {0}
    BY <1>0, <1>1
  <2>2. rx' \in Seq(RequestByte) /\ plain' \in Seq(RequestByte)
    BY ONLY <1>0, <1>2
  <2>3. record' \in Seq(Frame) /\ wire' \in Seq(Frame)
    BY ONLY <1>0, <1>2
  <2> QED BY ONLY <1>0, <1>1, <2>1, <2>2, <2>3 DEF ChannelTypes
<1>5. ModeInv'
  BY <1>0, <1>1, <1>2, <1>3 DEF ModeInv
<1>6. NonceInv' /\ BoundaryHolds' /\ ClosedForCause'
  BY <1>0, <1>1, <1>2 DEF NonceInv, BoundaryHolds, ClosedForCause
<1>7. RxInv'
  BY <1>0, <1>2, RxNext DEF AllOk, Linked
<1>8. ComingInv'
  BY <1>3, <1>2, ComingNext DEF FramesLinked
<1>9. PlainInv'
  <2>1. LastSent' = [req |-> next - 1, at |-> 0, size |-> 0]
    BY <1>0, <1>3 DEF LastSent, LastOf, Origin
  <2>2. AllOk(plain', next') /\ Linked(plain')
    BY <1>0, <1>2 DEF AllOk, Linked
  <2>3. LastOf(LastSent', plain') = LastSent'
    BY <1>0 DEF LastOf
  <2> QED BY <1>0, <1>2, <2>1, <2>2, <2>3, PlainNext
<1>10. CleanInv'
  BY <1>0, <1>2, <1>3, CleanNext
<1> QED BY <1>4, <1>5, <1>6, <1>7, <1>8, <1>9, <1>10 DEF ChannelInv

(* A connection starts with the invariant.                                 *)
LEMMA ChannelStarts ==
    ASSUME Init
    PROVE  ChannelInv
<1>0. /\ open = TRUE /\ encrypted = FALSE /\ rx = <<>> /\ record = <<>>
      /\ read_counter = 0 /\ write_counter = 0 /\ pc = "wait"
      /\ wire = <<>> /\ eof = FALSE /\ plain = <<>> /\ asked = 0 /\ seals = FALSE
      /\ tx_counter = 0 /\ handled = 0 /\ nonces = <<>> /\ faults = {} /\ next = 1
  BY DEF Init
<1>1. /\ <<>> \in Seq(RequestByte) /\ <<>> \in Seq(Frame) /\ <<>> \in Seq(Nat)
      /\ \A i \in 1 .. Len(<<>>) : FALSE
  OBVIOUS
<1>2. Coming = <<>>
  BY <1>0 DEF Coming
<1>3. ChannelTypes
  <2>1. 0 \in 0 .. MaxCounter /\ 0 \in Nat /\ 1 \in Nat \ {0}
    BY SizesAssumption
  <2>2. rx \in Seq(RequestByte) /\ plain \in Seq(RequestByte)
    BY ONLY <1>0, <1>1
  <2>3. record \in Seq(Frame) /\ wire \in Seq(Frame)
    BY ONLY <1>0, <1>1
  <2> QED BY ONLY <1>0, <2>1, <2>2, <2>3 DEF ChannelTypes
<1>4. ModeInv
  BY <1>0, <1>1, <1>2 DEF ModeInv
<1>5. NonceInv /\ BoundaryHolds /\ ClosedForCause
  BY <1>0, <1>1, SizesAssumption DEF NonceInv, BoundaryHolds, ClosedForCause
<1>6. RxInv
  BY <1>0, <1>1 DEF RxInv, AllOk, Linked
<1>7. ComingInv
  BY <1>1, <1>2 DEF ComingInv, FramesLinked
<1>8. PlainInv
  <2>1. LastSent = [req |-> 0, at |-> 0, size |-> 0]
    BY <1>0, <1>2 DEF LastSent, LastOf, Origin
  <2>2. AllOk(plain, next) /\ Linked(plain)
    BY <1>0, <1>1 DEF AllOk, Linked
  <2>3. LastOf(LastSent, plain) = LastSent
    BY <1>0 DEF LastOf
  <2> QED BY <1>0, <1>1, <2>1, <2>2, <2>3 DEF PlainInv
<1>9. CleanInv
  BY <1>0, <1>1, <1>2 DEF CleanInv
<1> QED BY <1>3, <1>4, <1>5, <1>6, <1>7, <1>8, <1>9 DEF ChannelInv

(* One turn of the request loop.                                           *)
LEMMA ParseKeeps ==
    ASSUME ChannelInv, ParseRequest
    PROVE  ChannelInv'
<1>0. open /\ pc = "parse" /\ UNCHANGED <<wire, sender, eof>>
  BY DEF ParseRequest
<1>1. CASE /\ parse_request = 0 /\ pc' = "wait"
           /\ UNCHANGED <<open, encrypted, rx, record, read_counter, write_counter, handled,
                          nonces, faults>>
  BY <1>0, <1>1, WaitKeeps
<1>2. CASE parse_request = -1 /\ Refuse /\ UNCHANGED handled
  BY <1>0, <1>2, RefuseKeeps
<1>3. CASE parse_request = 1 /\ Handle /\ handled' = rx[1].req
  BY <1>0, <1>3, HandleKeeps
<1>4. CASE parse_request = 1 /\ FailToRespond /\ handled' = rx[1].req
  BY <1>0, <1>4, FailKeeps
<1> QED BY <1>1, <1>2, <1>3, <1>4 DEF ParseRequest

(* The invariant says nothing of other variables.                          *)
LEMMA ChannelStutters ==
    ASSUME ChannelInv, UNCHANGED vars
    PROVE  ChannelInv'
<1>0. /\ seals' = seals /\ open' = open /\ encrypted' = encrypted
      /\ rx' = rx /\ record' = record /\ read_counter' = read_counter
      /\ write_counter' = write_counter /\ pc' = pc /\ plain' = plain /\ next' = next
      /\ asked' = asked /\ tx_counter' = tx_counter /\ wire' = wire /\ eof' = eof
      /\ handled' = handled /\ nonces' = nonces /\ faults' = faults
  BY DEF vars, receiver, sender
<1>1. Coming' = Coming /\ Origin' = Origin
  BY <1>0 DEF Coming, Origin
<1>2. LastSent' = LastSent
  BY <1>0, <1>1 DEF LastSent, LastOf
<1>3. ChannelTypes'
  BY <1>0 DEF ChannelInv, ChannelTypes
<1>4. ModeInv'
  BY <1>0, <1>1 DEF ChannelInv, ModeInv
<1>5. NonceInv' /\ BoundaryHolds' /\ ClosedForCause'
  BY <1>0 DEF ChannelInv, NonceInv, BoundaryHolds, ClosedForCause
<1>6. open => RxInv'
  BY <1>0, <1>1, RxNext DEF ChannelInv, RxInv
<1>7. open => ComingInv'
  BY <1>0, <1>1, ComingNext DEF ChannelInv, ComingInv
<1>8. open /\ ~eof => PlainInv'
  BY <1>0, <1>2, PlainNext DEF ChannelInv, PlainInv
<1>9. open /\ faults = {} => CleanInv'
  BY <1>0, <1>1, CleanNext DEF ChannelInv, CleanInv
<1> QED BY <1>0, <1>3, <1>4, <1>5, <1>6, <1>7, <1>8, <1>9 DEF ChannelInv

(* Every step of the channel keeps the invariant.                          *)
LEMMA ChannelStep ==
    ASSUME ChannelInv, [Next]_vars
    PROVE  ChannelInv'
<1>1. CASE \E kind \in Kinds, shape \in Shapes : Write(kind, shape)
  BY <1>1, WriteKeeps
<1>2. CASE \E n \in 1 .. MaxPlain : TransmitClear(n)
  BY <1>2, TransmitClearKeeps
<1>3. CASE \E n \in 1 .. RecordMax, intact \in BOOLEAN : TransmitSealed(n, intact)
  BY <1>3, TransmitSealedKeeps
<1>4. CASE StartSealing
  BY <1>4, StartSealingKeeps
<1>5. CASE HangUp
  BY <1>5, HangUpKeeps
<1>6. CASE receive_client
  BY <1>6, ReceiveKeeps
<1>7. CASE ParseRequest
  BY <1>7, ParseKeeps
<1>8. CASE Accept
  BY <1>8, AcceptKeeps
<1>9. CASE UNCHANGED vars
  BY <1>9, ChannelStutters
<1> QED BY <1>1, <1>2, <1>3, <1>4, <1>5, <1>6, <1>7, <1>8, <1>9 DEF Next, Kinds

----------------------------------------------------------------------------
(* The theorems, about the connection that the runs check: the channel     *)
(* beside the pairing exchange.                                            *)

(* Whatever is received, on its way or still to be sent on a connection    *)
(* (the buffer of rtsp_server_poll, the record of receive_client, the      *)
(* wire) is one gapless run of bytes from the end of the last request      *)
(* handled, and while nobody breaks the rules it stays acceptable.         *)
THEOREM ChannelAccounted == ConnectionSpec => []ChannelInv
<1>1. ConnectionInit => ChannelInv
  BY ChannelStarts DEF ConnectionInit
<1>2. ChannelInv /\ [ConnectionNext]_connectionVars => ChannelInv'
  <2> SUFFICES ASSUME ChannelInv, [ConnectionNext]_connectionVars PROVE ChannelInv'
    OBVIOUS
  <2>1. [Next]_vars
    BY DEF ConnectionNext, connectionVars
  <2> QED BY <2>1, ChannelStep
<1> QED BY <1>1, <1>2, PTL DEF ConnectionSpec

(* The parse loop of rtsp_server_poll sees every request whole, once and   *)
(* in order, wherever TCP and the records cut the bytes.                   *)
THEOREM EveryRequestWhole == ConnectionSpec => []RequestsWhole
<1>1. ChannelInv => RequestsWhole
  <2> SUFFICES ASSUME ChannelInv, NEW i \in 1 .. Len(rx)
               PROVE  IF i = 1 THEN rx[1].req = handled + 1 /\ rx[1].at = 1
                      ELSE \/ rx[i].req = rx[i - 1].req /\ rx[i].at = rx[i - 1].at + 1
                           \/ /\ rx[i].req = rx[i - 1].req + 1 /\ rx[i].at = 1
                              /\ rx[i - 1].at = rx[i - 1].size
    BY DEF RequestsWhole
  <2>1. rx \in Seq(RequestByte) /\ rx # <<>>
    BY EmptySeq DEF ChannelInv, ChannelTypes
  <2>2. RxInv
    BY <2>1 DEF ChannelInv, ModeInv, ChannelTypes
  <2>3. CASE i = 1
    BY <2>1, <2>2, <2>3 DEF RxInv, Follows, Origin
  <2>4. CASE i # 1
    <3>1. i - 1 \in 1 .. Len(rx) - 1 /\ (i - 1) + 1 = i
      BY <2>1, <2>4
    <3>2. Follows(rx[i - 1], rx[(i - 1) + 1])
      BY <2>2, <3>1 DEF RxInv, Linked
    <3>3. Follows(rx[i - 1], rx[i])
      BY <3>1, <3>2
    <3> QED BY <2>4, <3>3 DEF Follows
  <2> QED BY <2>3, <2>4
<1> QED BY <1>1, ChannelAccounted, PTL

(* No byte that was received in clear is parsed once the connection is     *)
(* encrypted (the check on rx_lengths behind the final pairing response).  *)
THEOREM BoundaryIsKept == ConnectionSpec => []BoundaryHolds
<1>1. ChannelInv => BoundaryHolds
  BY DEF ChannelInv
<1> QED BY <1>1, ChannelAccounted, PTL

(* pairing_seal never uses a nonce twice on a connection, up to and at the *)
(* end of the counter.                                                     *)
THEOREM NoncesAreUnique == ConnectionSpec => []NonceUnique
<1>1. ChannelInv => NonceUnique
  <2> SUFFICES ASSUME ChannelInv, NEW i \in 1 .. Len(nonces), NEW j \in 1 .. Len(nonces),
                      nonces[i] = nonces[j]
               PROVE  i = j
    BY DEF NonceUnique
  <2>1. i \in Int /\ j \in Int
    OBVIOUS
  <2>2. nonces[i] = i - 1 /\ nonces[j] = j - 1
    BY DEF ChannelInv, NonceInv
  <2>3. i - 1 = j - 1
    BY <2>2
  <2> QED BY ONLY <2>1, <2>3
<1> QED BY <1>1, ChannelAccounted, PTL

(* rtsp_server_poll closes no connection on which the sender kept to the   *)
(* protocol and the network worked.                                        *)
THEOREM NobodyCutOff == ConnectionSpec => []ClosedForCause
<1>1. ChannelInv => ClosedForCause
  BY DEF ChannelInv
<1> QED BY <1>1, ChannelAccounted, PTL

----------------------------------------------------------------------------
(* Folds over a sequence: the loops of the TLV messages.                   *)

(* The greatest of some numbers up to n.                                   *)
LEMMA Greatest ==
    ASSUME NEW n \in Nat, NEW s, s \subseteq 1 .. n, s # {}
    PROVE  Max(s) \in s /\ \A y \in s : y <= Max(s)
<1> DEFINE T == {d \in 0 .. n : n - d \in s}
<1>1. T \subseteq Nat /\ T # {}
  <2>1. PICK x \in s : TRUE
    OBVIOUS
  <2>2. x \in 1 .. n /\ n - (n - x) = x /\ n - x \in 0 .. n
    OBVIOUS
  <2>3. n - x \in T
    BY <2>1, <2>2
  <2>4. T \subseteq Nat
    OBVIOUS
  <2> QED BY <2>3, <2>4
<1>2. PICK d \in T : \A m \in T : ~(m < d)
  BY <1>1, Least
<1>3. n - d \in s
  BY <1>2
<1>4. \A y \in s : n - d >= y
  <2> SUFFICES ASSUME NEW y \in s PROVE n - d >= y
    OBVIOUS
  <2>1. n - y \in T
    OBVIOUS
  <2> QED BY <1>2, <2>1
<1>5. Max(s) \in s /\ \A y \in s : Max(s) >= y
  BY <1>3, <1>4 DEF Max
<1>6. s \subseteq Int
  OBVIOUS
<1> QED BY <1>5, <1>6

(* h folds the functions g[1] .. g[n] over each subset of 1 .. n.          *)
FoldedBy(n, S, base, g, h) ==
    /\ h \in [SUBSET (1 .. n) -> S]
    /\ \A s \in SUBSET (1 .. n) :
          h[s] = IF s = {} THEN base ELSE g[Max(s)][h[s \ {Max(s)}]]

(* A fold whose steps are functions on a set exists.                       *)
LEMMA FoldExists ==
    ASSUME NEW n \in Nat, NEW S, NEW base \in S, NEW g \in [1 .. n -> [S -> S]]
    PROVE  \E h : FoldedBy(n, S, base, g, h)
<1> DEFINE Fold(k, h) ==
       /\ h \in [SUBSET (1 .. k) -> S]
       /\ \A s \in SUBSET (1 .. k) :
             h[s] = IF s = {} THEN base ELSE g[Max(s)][h[s \ {Max(s)}]]
           Good == {k \in 0 .. n : \E h : Fold(k, h)}
<1> DEFINE Bad == {k \in 0 .. n : k \notin Good}
<1>1. 0 \in Good
  <2> DEFINE h == [s \in SUBSET (1 .. 0) |-> base]
  <2>1. \A s \in SUBSET (1 .. 0) : s = {}
    OBVIOUS
  <2>2. Fold(0, h)
    BY <2>1
  <2> HIDE DEF h
  <2>3. 0 \in 0 .. n
    OBVIOUS
  <2> QED BY <2>2, <2>3
<1>2. ASSUME NEW k \in 0 .. n, k + 1 <= n, k \in Good PROVE k + 1 \in Good
  <2>1. PICK h : Fold(k, h)
    BY <1>2
  <2> DEFINE top == k + 1
  <2> DEFINE f == [s \in SUBSET (1 .. k + 1) |->
                     IF k + 1 \in s THEN g[k + 1][h[s \ {k + 1}]] ELSE h[s]]
  <2>2. \A s \in SUBSET (1 .. k + 1) :
           /\ k + 1 \in s => s \ {k + 1} \in SUBSET (1 .. k) /\ Max(s) = k + 1 /\ s # {}
           /\ k + 1 \notin s => s \in SUBSET (1 .. k)
    <3> SUFFICES ASSUME NEW s \in SUBSET (1 .. k + 1)
                 PROVE  /\ k + 1 \in s => s \ {k + 1} \in SUBSET (1 .. k) /\ Max(s) = k + 1
                        /\ k + 1 \notin s => s \in SUBSET (1 .. k)
      OBVIOUS
    <3>1. k + 1 \in s => Max(s) = k + 1
      <4> SUFFICES ASSUME k + 1 \in s PROVE Max(s) = k + 1
        OBVIOUS
      <4>1. Max(s) \in s /\ \A y \in s : y <= Max(s)
        <5>1. s \subseteq 1 .. k + 1 /\ s # {} /\ k + 1 \in Nat
          OBVIOUS
        <5> HIDE DEF Good, f
        <5> QED BY <5>1, Greatest
      <4>2. k + 1 <= Max(s) /\ Max(s) \in 1 .. k + 1
        BY <4>1
      <4> QED BY <4>2
    <3>2. \A x \in 1 .. k + 1 : x # k + 1 => x \in 1 .. k
      OBVIOUS
    <3> QED BY <3>1, <3>2
  <2>3. g[k + 1] \in [S -> S]
    BY <1>2
  <2>4. f \in [SUBSET (1 .. k + 1) -> S]
    <3> SUFFICES ASSUME NEW s \in SUBSET (1 .. k + 1)
                 PROVE  (IF k + 1 \in s THEN g[k + 1][h[s \ {k + 1}]] ELSE h[s]) \in S
      OBVIOUS
    <3> QED BY <2>1, <2>2, <2>3
  <2>5. \A s \in SUBSET (1 .. k + 1) :
           f[s] = IF s = {} THEN base ELSE g[Max(s)][f[s \ {Max(s)}]]
    <3> SUFFICES ASSUME NEW s \in SUBSET (1 .. k + 1)
                 PROVE  f[s] = IF s = {} THEN base ELSE g[Max(s)][f[s \ {Max(s)}]]
      OBVIOUS
    <3>1. CASE k + 1 \in s
      <4>1. s \ {k + 1} \in SUBSET (1 .. k + 1) /\ k + 1 \notin s \ {k + 1}
        OBVIOUS
      <4>2. f[s \ {k + 1}] = h[s \ {k + 1}]
        BY <4>1
      <4>3. f[s] = g[k + 1][h[s \ {k + 1}]]
        BY <3>1
      <4> QED BY <2>2, <3>1, <4>2, <4>3
    <3>2. CASE k + 1 \notin s
      <4>1. f[s] = h[s] /\ s \in SUBSET (1 .. k)
        BY <2>2, <3>2
      <4>2. CASE s = {}
        BY <2>1, <4>1, <4>2
      <4>3. CASE s # {}
        <5>1. s \ {Max(s)} \in SUBSET (1 .. k + 1) /\ k + 1 \notin s \ {Max(s)}
          BY <3>2
        <5>2. f[s \ {Max(s)}] = h[s \ {Max(s)}]
          BY <5>1
        <5> QED BY <2>1, <4>1, <4>3, <5>2
      <4> QED BY <4>2, <4>3
    <3> QED BY <3>1, <3>2
  <2>6. Fold(k + 1, f)
    BY <2>4, <2>5
  <2> HIDE DEF f
  <2>7. k + 1 \in 0 .. n
    BY <1>2
  <2> QED BY ONLY <2>6, <2>7 DEF Good
<1>3. n \in Good
  <2> HIDE DEF Good
  <2> SUFFICES ASSUME Bad # {} PROVE FALSE
    OBVIOUS
  <2>1. Bad \subseteq Nat
    OBVIOUS
  <2>2. PICK k \in Bad : \A m \in Bad : ~(m < k)
    BY <2>1, Least
  <2>3. k \in 0 .. n /\ k \notin Good /\ k # 0
    BY <1>1, <2>2
  <2>4. k - 1 \in 0 .. n /\ k - 1 < k /\ (k - 1) + 1 = k
    BY <2>3
  <2>5. k - 1 \in Good
    BY <2>2, <2>4
  <2> QED BY <1>2, <2>3, <2>4, <2>5
<1> QED BY <1>3 DEF FoldedBy

(* The states of the loop of tlv_get.                                      *)
ScanType == [pos : Nat, out : Seq(Nat), found : BOOLEAN, previous : Int, size : Nat, ok : BOOLEAN]

(* One round keeps the type and, while nothing is wrong, the place within  *)
(* the message.                                                            *)
LEMMA ScanTyped ==
    ASSUME NEW in \in Seq(Nat), NEW type, NEW capacity, NEW s \in ScanType, s.pos <= Len(in)
    PROVE  Scan(in, type, capacity, s) \in ScanType /\ Scan(in, type, capacity, s).pos <= Len(in)
<1> DEFINE left == Len(in) - s.pos
           t == in[s.pos + 1]
           n == in[s.pos + 2]
           bad == \/ left < 2 \/ n > left - 2
                  \/ t = type /\ ((s.found /\ ~Continues(s, type)) \/ n > capacity - Len(s.out))
           after == [s EXCEPT !.pos = @ + 2 + n,
                   !.out = IF t = type THEN @ \o SubSeq(in, s.pos + 3, s.pos + 2 + n) ELSE @,
                   !.found = @ \/ t = type, !.previous = t, !.size = n]
<1>1. Scan(in, type, capacity, s) =
         IF ~s.ok \/ left = 0 THEN s ELSE IF bad THEN [s EXCEPT !.ok = FALSE] ELSE after
  BY DEF Scan
<1>2. [s EXCEPT !.ok = FALSE] \in ScanType /\ [s EXCEPT !.ok = FALSE].pos = s.pos
  BY DEF ScanType
<1>3. ASSUME left # 0, ~bad PROVE after \in ScanType /\ after.pos <= Len(in)
  <2>1. s.pos \in Nat /\ s.out \in Seq(Nat) /\ s.found \in BOOLEAN /\ left >= 2
    BY <1>3 DEF ScanType
  <2>2. t \in Nat /\ n \in Nat /\ n <= left - 2
    <3>1. s.pos + 1 \in 1 .. Len(in) /\ s.pos + 2 \in 1 .. Len(in)
      <4>1. PICK l \in Nat, q \in Nat : l = Len(in) /\ q = s.pos /\ l - q >= 2
        BY <2>1
      <4>2. l - q >= 2
        BY ONLY <4>1
      <4>3. q + 1 \in 1 .. l /\ q + 2 \in 1 .. l
        BY ONLY <4>2, l \in Nat, q \in Nat
      <4> QED BY ONLY <4>1, <4>3
    <3>2. \A i \in 1 .. Len(in) : in[i] \in Nat
      OBVIOUS
    <3>3. ~(n > left - 2)
      BY <1>3
    <3>4. t \in Nat /\ n \in Nat
      BY ONLY <3>1, <3>2
    <3>5. left \in Int
      BY ONLY <2>1, in \in Seq(Nat)
    <3> HIDE DEF left, t, n
    <3> QED BY ONLY <3>3, <3>4, <3>5
  <2>3. PICK p \in Nat, m \in Nat : p = s.pos /\ m = n /\ m <= Len(in) - p - 2
    BY <2>1, <2>2
  <2>4. p + 2 + m \in Nat /\ p + 2 + m <= Len(in) /\ p + 3 >= 1
    <3>1. PICK l \in Nat : l = Len(in)
      OBVIOUS
    <3>2. m <= l - p - 2
      BY <2>3, <3>1
    <3>3. p + 2 + m <= l
      BY ONLY <3>2, l \in Nat, p \in Nat, m \in Nat
    <3> QED BY <3>1, <3>3
  <2>5. SubSeq(in, p + 3, p + 2 + m) \in Seq(Nat)
    <3>1. \A i \in p + 3 .. p + 2 + m : in[i] \in Nat
      BY ONLY <2>4, in \in Seq(Nat), p \in Nat, m \in Nat
    <3> QED BY ONLY <2>4, <3>1, in \in Seq(Nat), p \in Nat, m \in Nat
  <2>6. s.out \o SubSeq(in, p + 3, p + 2 + m) \in Seq(Nat)
    BY ONLY <2>1, <2>5
  <2>7. after = [s EXCEPT !.pos = p + 2 + m,
                   !.out = IF t = type THEN s.out \o SubSeq(in, p + 3, p + 2 + m) ELSE s.out,
                   !.found = s.found \/ t = type, !.previous = t, !.size = m]
    BY <2>3 DEF ScanType
  <2>8. t \in Int
    BY <2>2
  <2> HIDE DEF after, t, n, bad, left
  <2> QED BY <2>1, <2>3, <2>4, <2>6, <2>7, <2>8 DEF ScanType
<1> QED BY <1>1, <1>2, <1>3

(* The states of the loop one by one.                                      *)
Within(in) == {s \in ScanType : s.pos <= Len(in)}

Rounds(in, type, capacity, st) ==
    /\ st \in [0 .. Len(in) -> Within(in)]
    /\ st[0] = Scanning
    /\ \A i \in 1 .. Len(in) : st[i] = Scan(in, type, capacity, st[i - 1])

Result(s) == IF s.ok /\ s.found THEN [ok |-> TRUE, value |-> s.out]
             ELSE [ok |-> FALSE, value |-> <<>>]

(* The numbers up to k, without the last one.                              *)
LEMMA WithoutLast ==
    ASSUME NEW k \in Nat, k >= 1
    PROVE  Max(1 .. k) = k /\ (1 .. k) \ {k} = 1 .. k - 1 /\ 1 .. k # {}
<1>1. 1 .. k \subseteq 1 .. k /\ k \in 1 .. k
  OBVIOUS
<1>2. 1 .. k # {}
  BY <1>1
<1>3. Max(1 .. k) \in 1 .. k /\ \A y \in 1 .. k : y <= Max(1 .. k)
  BY <1>1, <1>2, Greatest
<1>4. Max(1 .. k) = k
  BY <1>1, <1>3
<1>5. (1 .. k) \ {k} = 1 .. k - 1
  OBVIOUS
<1> QED BY <1>2, <1>4, <1>5

(* tlv_get is what its rounds end with.                                    *)
LEMMA ScanRounds ==
    ASSUME NEW in \in Seq(Nat), NEW type, NEW capacity
    PROVE  \E st : /\ Rounds(in, type, capacity, st)
                   /\ tlv_get(in, type, capacity) = Result(st[Len(in)])
<1> DEFINE N == Len(in)
           S == Within(in)
           g == [i \in 1 .. N |-> [s \in S |-> Scan(in, type, capacity, s)]]
           Body(h) == [s \in SUBSET (1 .. N) |->
                         IF s = {} THEN Scanning
                         ELSE Scan(in, type, capacity, h[s \ {Max(s)}])]
           fold == CHOOSE h : h = Body(h)
<1>1. N \in Nat /\ DOMAIN in = 1 .. N
  OBVIOUS
<1>2. Scanning \in S
  BY DEF Scanning, Within, ScanType
<1>3. \A s \in S : Scan(in, type, capacity, s) \in S
  BY ScanTyped DEF Within
<1>4. g \in [1 .. N -> [S -> S]]
  BY <1>3
<1>5. PICK h : FoldedBy(N, S, Scanning, g, h)
  <2> HIDE DEF g, N, S
  <2>1. N \in Nat
    BY <1>1
  <2> QED BY ONLY <2>1, <1>2, <1>4, FoldExists
<1>6. h = Body(h)
  <2>1. \A s \in SUBSET (1 .. N) : s # {} =>
           g[Max(s)][h[s \ {Max(s)}]] = Scan(in, type, capacity, h[s \ {Max(s)}])
    <3> SUFFICES ASSUME NEW s \in SUBSET (1 .. N), s # {}
                 PROVE  g[Max(s)][h[s \ {Max(s)}]] = Scan(in, type, capacity, h[s \ {Max(s)}])
      OBVIOUS
    <3>1. Max(s) \in 1 .. N
      <4>1. s \subseteq 1 .. N
        OBVIOUS
      <4> HIDE DEF N
      <4> QED BY <1>1, <4>1, Greatest
    <3>2. h[s \ {Max(s)}] \in S
      BY <1>5 DEF FoldedBy
    <3> QED BY <3>1, <3>2
  <2>2. h = [s \in SUBSET (1 .. N) |-> h[s]]
    BY <1>5 DEF FoldedBy
  <2>3. \A s \in SUBSET (1 .. N) :
           h[s] = IF s = {} THEN Scanning ELSE Scan(in, type, capacity, h[s \ {Max(s)}])
    BY <1>5, <2>1 DEF FoldedBy
  <2> QED BY <2>2, <2>3
<1>7. fold = Body(fold)
  <2> HIDE DEF Body
  <2> QED BY <1>6
<1>8. tlv_get(in, type, capacity) = Result(fold[1 .. N])
  BY <1>1 DEF tlv_get, FoldLeft, MapThenFoldSet, Result
<1> DEFINE st == [i \in 0 .. N |-> fold[1 .. i]]
           Good == {i \in 1 .. N : st[i] \in S}
<1>9. st[0] = Scanning
  <2>1. 1 .. 0 = {} /\ {} \in SUBSET (1 .. N) /\ 0 \in 0 .. N
    BY <1>1
  <2> HIDE DEF fold, Scanning
  <2> QED BY <1>7, <2>1
<1>10. \A i \in 1 .. N : st[i] = Scan(in, type, capacity, st[i - 1])
  <2> SUFFICES ASSUME NEW i \in 1 .. N PROVE st[i] = Scan(in, type, capacity, st[i - 1])
    OBVIOUS
  <2>1. i \in Nat /\ i >= 1 /\ i - 1 \in 0 .. N /\ i \in 0 .. N /\ 1 .. i \in SUBSET (1 .. N)
    BY <1>1
  <2>2. Max(1 .. i) = i /\ (1 .. i) \ {i} = 1 .. i - 1 /\ 1 .. i # {}
    BY <2>1, WithoutLast
  <2>3. fold[1 .. i] = Scan(in, type, capacity, fold[(1 .. i) \ {Max(1 .. i)}])
    <3> HIDE DEF fold
    <3> QED BY <1>7, <2>1, <2>2
  <2> HIDE DEF fold
  <2> QED BY <2>1, <2>2, <2>3
<1>11. \A i \in 0 .. N : st[i] \in S
  <2> HIDE DEF st, S, N
  <2>1. N >= 1 => 1 \in Good
    BY <1>1, <1>2, <1>3, <1>9, <1>10
  <2>2. \A k \in 1 .. N : k + 1 <= N /\ k \in Good => k + 1 \in Good
    <3> SUFFICES ASSUME NEW k \in 1 .. N, k + 1 <= N, st[k] \in S PROVE k + 1 \in Good
      OBVIOUS
    <3>1. k + 1 \in 1 .. N /\ (k + 1) - 1 = k
      BY <1>1
    <3>2. st[k + 1] = Scan(in, type, capacity, st[k])
      BY <1>10, <3>1
    <3> QED BY <1>3, <3>1, <3>2
  <2>3. \A k \in 1 .. N : k \in Good
    <3> HIDE DEF Good
    <3> QED BY <1>1, <2>1, <2>2, UpTo
  <2> QED BY <1>1, <1>2, <1>9, <2>3
<1>12. st[N] = fold[1 .. N] /\ st = [i \in 0 .. N |-> st[i]]
  BY <1>1
<1> HIDE DEF fold
<1>13. Rounds(in, type, capacity, st)
  <2> HIDE DEF st
  <2> QED BY <1>9, <1>10, <1>11, <1>12 DEF Rounds
<1> QED BY <1>8, <1>12, <1>13

(* The loop comes to the state s; each round but the last took two bytes.  *)
Reached(in, type, capacity, s) ==
    \E st : /\ Rounds(in, type, capacity, st)
            /\ tlv_get(in, type, capacity) = Result(st[Len(in)])
            /\ \E i \in 0 .. Len(in) : st[i] = s /\ (s.ok => 2 * i <= s.pos)

(* The loop starts.                                                        *)
LEMMA ReachedFirst ==
    ASSUME NEW in \in Seq(Nat), NEW type, NEW capacity
    PROVE  Reached(in, type, capacity, Scanning)
<1>1. PICK st : /\ Rounds(in, type, capacity, st)
                /\ tlv_get(in, type, capacity) = Result(st[Len(in)])
  BY ScanRounds
<1>2. 0 \in 0 .. Len(in) /\ Scanning.pos = 0 /\ st[0] = Scanning
  BY <1>1 DEF Scanning, Rounds
<1>3. Scanning.ok => 2 * 0 <= Scanning.pos
  BY <1>2
<1> QED BY <1>1, <1>2, <1>3 DEF Reached

(* What every round keeps from some state on is kept at the end.           *)
LEMMA Onward ==
    ASSUME NEW in \in Seq(Nat), NEW type, NEW capacity,
           NEW s, Reached(in, type, capacity, s),
           NEW Good, s \in Good,
           \A r \in Within(in) : r \in Good => Scan(in, type, capacity, r) \in Good
    PROVE  \E f \in Within(in) : f \in Good /\ tlv_get(in, type, capacity) = Result(f)
<1>1. PICK st : /\ Rounds(in, type, capacity, st)
                /\ tlv_get(in, type, capacity) = Result(st[Len(in)])
                /\ \E i \in 0 .. Len(in) : st[i] = s /\ (s.ok => 2 * i <= s.pos)
  BY DEF Reached
<1>2. PICK i \in 0 .. Len(in) : st[i] = s
  BY <1>1
<1> DEFINE n == Len(in) - i
           Kept == {k \in 1 .. n : st[i + k] \in Good}
<1>3. n \in Nat /\ Len(in) \in Nat
  OBVIOUS
<1>4. \A k \in 0 .. n : i + k \in 0 .. Len(in)
  OBVIOUS
<1>5. \A k \in 0 .. n : k + 1 <= n /\ st[i + k] \in Good => st[i + (k + 1)] \in Good
  <2> SUFFICES ASSUME NEW k \in 0 .. n, k + 1 <= n, st[i + k] \in Good
               PROVE  st[i + (k + 1)] \in Good
    OBVIOUS
  <2>1. i + (k + 1) \in 1 .. Len(in) /\ (i + (k + 1)) - 1 = i + k
    OBVIOUS
  <2>2. st[i + (k + 1)] = Scan(in, type, capacity, st[i + k])
    BY <1>1, <2>1 DEF Rounds
  <2>3. st[i + k] \in Within(in)
    BY <1>1, <1>4 DEF Rounds
  <2> QED BY <2>2, <2>3
<1>6. i + 0 = i /\ 0 \in 0 .. n
  BY <1>3
<1>7. n >= 1 => 1 \in Kept
  <2> SUFFICES ASSUME n >= 1 PROVE st[i + 1] \in Good
    BY <1>3
  <2>1. i + 1 \in 1 .. Len(in) /\ (i + 1) - 1 = i
    BY <1>3
  <2>2. st[i + 1] = Scan(in, type, capacity, st[i])
    BY <1>1, <2>1 DEF Rounds
  <2>3. st[i] \in Within(in)
    BY <1>1 DEF Rounds
  <2> QED BY <1>2, <2>2, <2>3
<1>8. \A k \in 1 .. n : k + 1 <= n /\ k \in Kept => k + 1 \in Kept
  BY <1>3, <1>5
<1>9. \A k \in 1 .. n : k \in Kept
  <2> HIDE DEF Kept, n
  <2> QED BY <1>3, <1>7, <1>8, UpTo
<1>10. st[Len(in)] \in Good
  <2>1. CASE n = 0
    BY <1>2, <2>1
  <2>2. CASE n # 0
    <3>1. n \in 1 .. n /\ i + n = Len(in)
      BY <1>3, <2>2
    <3> QED BY <1>9, <3>1
  <2> QED BY <2>1, <2>2
<1>11. st[Len(in)] \in Within(in)
  BY <1>1, <1>3 DEF Rounds
<1> QED BY <1>1, <1>10, <1>11

(* The states of a loop that yields a value are right.                     *)
LEMMA ReachedOk ==
    ASSUME NEW in \in Seq(Nat), NEW type, NEW capacity, tlv_get(in, type, capacity).ok,
           NEW s, Reached(in, type, capacity, s)
    PROVE  s \in Within(in) /\ s.ok
<1>1. s \in Within(in)
  BY DEF Reached, Rounds
<1>2. ASSUME ~s.ok PROVE FALSE
  <2> DEFINE Good == {s}
  <2>1. \A r \in Within(in) : r \in Good => Scan(in, type, capacity, r) \in Good
    BY <1>2 DEF Scan
  <2>2. s \in Good
    OBVIOUS
  <2> HIDE DEF Good
  <2>3. PICK f \in Within(in) : f \in Good /\ tlv_get(in, type, capacity) = Result(f)
    BY <2>1, <2>2, Onward
  <2>4. f = s
    BY <2>3 DEF Good
  <2> QED BY <1>2, <2>3, <2>4 DEF Result
<1> QED BY <1>1, <1>2

(* The loop ends where the message does.                                   *)
LEMMA ReachedLast ==
    ASSUME NEW in \in Seq(Nat), NEW type, NEW capacity, tlv_get(in, type, capacity).ok,
           NEW s, Reached(in, type, capacity, s), s.pos = Len(in)
    PROVE  s.found /\ tlv_get(in, type, capacity).value = s.out
<1> DEFINE Good == {s}
<1>1. \A r \in Within(in) : r \in Good => Scan(in, type, capacity, r) \in Good
  <2>1. Len(in) - Len(in) = 0
    OBVIOUS
  <2> QED BY <2>1 DEF Scan
<1>2. s \in Good
  OBVIOUS
<1> HIDE DEF Good
<1>3. PICK f \in Within(in) : f \in Good /\ tlv_get(in, type, capacity) = Result(f)
  BY <1>1, <1>2, Onward
<1>4. f = s
  BY <1>3 DEF Good
<1> QED BY <1>3, <1>4 DEF Result

(* What one round makes of an item.                                        *)
After(in, type, s) ==
    LET t == in[s.pos + 1]
        n == in[s.pos + 2]
    IN  [pos |-> s.pos + 2 + n,
         out |-> IF t = type THEN s.out \o SubSeq(in, s.pos + 3, s.pos + 2 + n) ELSE s.out,
         found |-> s.found \/ t = type, previous |-> t, size |-> n, ok |-> TRUE]

(* A round of a loop that yields a value takes a whole item.               *)
LEMMA ReachedNext ==
    ASSUME NEW in \in Seq(Nat), NEW type, NEW capacity, tlv_get(in, type, capacity).ok,
           NEW s, Reached(in, type, capacity, s), s.pos < Len(in)
    PROVE  /\ s.pos + 2 + in[s.pos + 2] <= Len(in)
           /\ in[s.pos + 1] = type =>
                /\ s.found => Continues(s, type)
                /\ ~(in[s.pos + 2] > capacity - Len(s.out))
           /\ Reached(in, type, capacity, After(in, type, s))
<1>1. s \in ScanType /\ s.pos <= Len(in) /\ s.ok
  BY ReachedOk DEF Within
<1> DEFINE left == Len(in) - s.pos
           t == in[s.pos + 1]
           n == in[s.pos + 2]
           bad == \/ left < 2 \/ n > left - 2
                  \/ t = type /\ ((s.found /\ ~Continues(s, type)) \/ n > capacity - Len(s.out))
           further == [s EXCEPT !.pos = @ + 2 + n,
                   !.out = IF t = type THEN @ \o SubSeq(in, s.pos + 3, s.pos + 2 + n) ELSE @,
                   !.found = @ \/ t = type, !.previous = t, !.size = n]
           after == Scan(in, type, capacity, s)
<1>2. after = IF ~s.ok \/ left = 0 THEN s ELSE IF bad THEN [s EXCEPT !.ok = FALSE] ELSE further
  BY DEF Scan
<1>3. PICK st : /\ Rounds(in, type, capacity, st)
                /\ tlv_get(in, type, capacity) = Result(st[Len(in)])
                /\ \E i \in 0 .. Len(in) : st[i] = s /\ (s.ok => 2 * i <= s.pos)
  BY DEF Reached
<1>4. PICK i \in 0 .. Len(in) : st[i] = s /\ 2 * i <= s.pos
  BY <1>1, <1>3
<1>5. i + 1 \in 0 .. Len(in) /\ i + 1 \in 1 .. Len(in) /\ (i + 1) - 1 = i
  <2>1. s.pos \in Nat
    BY <1>1 DEF ScanType
  <2> QED BY <1>4, <2>1
<1>6. st[i + 1] = after
  BY <1>3, <1>4, <1>5 DEF Rounds
<1>7. ASSUME after.ok => 2 * (i + 1) <= after.pos
      PROVE  Reached(in, type, capacity, after)
  <2> HIDE DEF after
  <2> QED BY <1>3, <1>5, <1>6, <1>7 DEF Reached
<1>8. left # 0 /\ left \in Nat
  BY <1>1 DEF ScanType
<1>9. ~bad
  <2> SUFFICES ASSUME bad PROVE FALSE
    OBVIOUS
  <2>1. after = [s EXCEPT !.ok = FALSE]
    BY <1>1, <1>2, <1>8
  <2>2. ~after.ok
    BY <1>1, <2>1 DEF ScanType
  <2> HIDE DEF after
  <2> QED BY <1>7, <2>2, ReachedOk
<1>10. after = further
  BY <1>1, <1>2, <1>8, <1>9
<1>11. PICK p \in Nat, m \in Nat : p = s.pos /\ m = n /\ m <= left - 2
  <2>1. left >= 2 /\ ~(n > left - 2)
    BY <1>8, <1>9
  <2>2. s.pos \in Nat
    BY <1>1 DEF ScanType
  <2>3. s.pos + 2 \in 1 .. Len(in)
    <3>1. PICK l \in Nat, q \in Nat : l = Len(in) /\ q = s.pos
      BY ONLY <2>2, in \in Seq(Nat)
    <3>2. l - q >= 2
      BY <2>1, <3>1
    <3>3. q + 2 \in 1 .. l
      BY ONLY <3>2, l \in Nat, q \in Nat
    <3> QED BY ONLY <3>1, <3>3
  <2>4. n \in Nat
    BY <2>3
  <2> HIDE DEF left, n
  <2>5. n <= left - 2
    BY ONLY <1>8, <2>1, <2>4
  <2> QED BY ONLY <2>2, <2>4, <2>5
<1>12. further = After(in, type, s)
  <2>1. s = [pos |-> s.pos, out |-> s.out, found |-> s.found, previous |-> s.previous,
             size |-> s.size, ok |-> s.ok]
    BY <1>1 DEF ScanType
  <2>2. s.ok = TRUE
    BY <1>1 DEF ScanType
  <2>3. PICK pos, out, found, previous, size, ok :
           /\ s = [pos |-> pos, out |-> out, found |-> found, previous |-> previous,
                   size |-> size, ok |-> ok]
           /\ ok = TRUE
    BY <2>1, <2>2
  <2>4. PICK t1, n1 : t1 = t /\ n1 = n
    OBVIOUS
  <2>5. further = [pos |-> pos + 2 + n1,
           out |-> IF t1 = type THEN out \o SubSeq(in, pos + 3, pos + 2 + n1) ELSE out,
           found |-> found \/ t1 = type, previous |-> t1, size |-> n1, ok |-> ok]
    <3>1. further = [s EXCEPT !.pos = pos + 2 + n1,
                   !.out = IF t1 = type THEN out \o SubSeq(in, pos + 3, pos + 2 + n1) ELSE out,
                   !.found = found \/ t1 = type, !.previous = t1, !.size = n1]
      BY <2>3, <2>4
    <3> HIDE DEF further
    <3> QED BY ONLY <3>1, <2>3
  <2>6. After(in, type, s) = [pos |-> pos + 2 + n1,
           out |-> IF t1 = type THEN out \o SubSeq(in, pos + 3, pos + 2 + n1) ELSE out,
           found |-> found \/ t1 = type, previous |-> t1, size |-> n1, ok |-> ok]
    BY <2>3, <2>4 DEF After
  <2> HIDE DEF further
  <2> QED BY <2>5, <2>6
<1>13. after.pos = p + 2 + m
  BY <1>10, <1>11, <1>1 DEF ScanType
<1>14. p + 2 + m <= Len(in) /\ 2 * (i + 1) <= p + 2 + m
  <2>1. PICK l \in Nat : l = Len(in)
    OBVIOUS
  <2>2. m <= (l - p) - 2 /\ 2 * i <= p
    BY <1>4, <1>11, <2>1
  <2>3. p + 2 + m <= l /\ 2 * (i + 1) <= p + 2 + m
    BY ONLY <2>2, l \in Nat, p \in Nat, m \in Nat, i \in 0 .. Len(in), Len(in) \in Nat
  <2> QED BY <2>1, <2>3
<1>15. Reached(in, type, capacity, After(in, type, s))
  <2> HIDE DEF after, further
  <2> QED BY <1>7, <1>10, <1>12, <1>13, <1>14
<1> QED BY <1>9, <1>11, <1>14, <1>15

----------------------------------------------------------------------------
(* What tlv_put writes, and tlv_get reads of it.                           *)

(* Induction down an interval.                                             *)
LEMMA Downward ==
    ASSUME NEW n \in Nat, NEW Good, n \in Good,
           \A k \in 1 .. n : k \in Good => k - 1 \in Good
    PROVE  \A k \in 0 .. n : k \in Good
<1> DEFINE T == {d \in 0 .. n : n - d \notin Good}
<1>1. T = {}
  <2> SUFFICES ASSUME T # {} PROVE FALSE
    OBVIOUS
  <2>1. T \subseteq Nat
    OBVIOUS
  <2>2. PICK d \in T : \A m \in T : ~(m < d)
    BY <2>1, Least
  <2>3. d \in 0 .. n /\ n - d \notin Good /\ d # 0
    BY <2>2
  <2>4. d - 1 \in 0 .. n /\ d - 1 < d
    BY <2>3
  <2>5. n - (d - 1) \in Good
    BY <2>2, <2>4
  <2>6. n - (d - 1) \in 1 .. n /\ (n - (d - 1)) - 1 = n - d
    BY <2>3
  <2> QED BY <2>3, <2>5, <2>6
<1>2. \A k \in 0 .. n : n - k \in 0 .. n /\ n - (n - k) = k
  OBVIOUS
<1> QED BY <1>1, <1>2

(* A value is cut everywhere a fragment is full.                           *)
Cuts(data, cut) ==
    LET count == Len(Fragments(data)) IN
    /\ cut \in [0 .. count -> 0 .. Len(data)]
    /\ cut[0] = 0 /\ cut[count] = Len(data)
    /\ \A i \in 1 .. count :
          /\ cut[i - 1] <= cut[i] /\ cut[i] - cut[i - 1] <= Fragment
          /\ i < count => cut[i] - cut[i - 1] = Fragment
          /\ data # <<>> => cut[i - 1] < cut[i]
          /\ Fragments(data)[i] = SubSeq(data, cut[i - 1] + 1, cut[i])

(* How many fragments of f bytes hold l bytes.                             *)
LEMMA CountOf ==
    ASSUME NEW l \in Nat, NEW f \in Nat, f > 0, l > 0
    PROVE  LET c == (l + f - 1) \div f IN
           c \in Nat /\ c > 0 /\ (c - 1) * f < l /\ l <= c * f
<1>1. PICK c : c = (l + f - 1) \div f
  OBVIOUS
<1>2. c \in Int /\ c * f <= l + f - 1 /\ l + f - 1 < c * f + f
  BY <1>1
<1>3. (c - 1) * f = c * f - f
  BY <1>2
<1>4. (c - 1) * f < l /\ l <= c * f
  BY <1>2, <1>3
<1>5. c > 0
  BY <1>2, <1>4
<1> QED BY <1>1, <1>2, <1>4, <1>5

(* The pieces of a value, and where they are cut.                          *)
LEMMA FragmentsCut ==
    ASSUME NEW data \in Seq(Nat)
    PROVE  /\ Fragments(data) \in Seq(Seq(Nat)) /\ Len(Fragments(data)) >= 1
           /\ Len(data) <= Fragment => Len(Fragments(data)) = 1
           /\ \E cut : Cuts(data, cut)
<1> DEFINE l == Len(data)
           count == IF data = <<>> THEN 1 ELSE (Len(data) + Fragment - 1) \div Fragment
           cut == [i \in 0 .. count |-> IF i < count THEN i * Fragment ELSE Len(data)]
<1>1. l \in Nat /\ Fragment \in Nat /\ Fragment > 0 /\ (l = 0 <=> data = <<>>)
  BY FragmentAssumption
<1>2. /\ count \in Nat /\ count >= 1 /\ (data # <<>> => (count - 1) * Fragment < l)
      /\ l <= count * Fragment /\ (data = <<>> => count = 1)
  BY <1>1, CountOf
<1>3. Fragments(data) = [i \in 1 .. count |->
            SubSeq(data, (i - 1) * Fragment + 1, IF i < count THEN i * Fragment ELSE l)]
  BY DEF Fragments
<1> HIDE DEF count
<1>4. \A i \in 0 .. count - 1 : i * Fragment \in Nat /\ i * Fragment <= l
                                /\ (data # <<>> => i * Fragment < l)
  <2> SUFFICES ASSUME NEW i \in 0 .. count - 1
               PROVE  i * Fragment \in Nat /\ i * Fragment <= l
                      /\ (data # <<>> => i * Fragment < l)
    OBVIOUS
  <2>1. i * Fragment <= (count - 1) * Fragment /\ i * Fragment \in Nat
    BY <1>1, <1>2
  <2>2. CASE data = <<>>
    <3>1. i = 0
      BY <1>2, <2>2
    <3> QED BY <1>1, <2>2, <3>1
  <2>3. CASE data # <<>>
    BY <1>1, <1>2, <2>1, <2>3
  <2> QED BY <2>2, <2>3
<1>5. cut \in [0 .. count -> 0 .. l]
  BY <1>1, <1>2, <1>4
<1>6. cut[0] = 0 /\ cut[count] = l
  BY <1>1, <1>2
<1>7. ASSUME NEW i \in 1 .. count
      PROVE  /\ cut[i - 1] <= cut[i] /\ cut[i] - cut[i - 1] <= Fragment
             /\ i < count => cut[i] - cut[i - 1] = Fragment
             /\ data # <<>> => cut[i - 1] < cut[i]
             /\ Fragments(data)[i] = SubSeq(data, cut[i - 1] + 1, cut[i])
  <2>1. i - 1 \in 0 .. count - 1 /\ i - 1 \in 0 .. count /\ i - 1 < count /\ i \in 0 .. count
    BY <1>2
  <2>2. cut[i - 1] = (i - 1) * Fragment
    BY <2>1
  <2>3. cut[i] = IF i < count THEN i * Fragment ELSE l
    BY <2>1
  <2>4. (i - 1) * Fragment = i * Fragment - Fragment
    BY <1>1
  <2>5. (i - 1) * Fragment \in Nat /\ (i - 1) * Fragment <= l
        /\ (data # <<>> => (i - 1) * Fragment < l)
    BY <1>4, <2>1
  <2>6. i * Fragment \in Nat
    BY <1>1
  <2>7. i = count => l <= i * Fragment
    BY <1>2
  <2>8. cut[i - 1] <= cut[i] /\ cut[i] - cut[i - 1] <= Fragment
        /\ (i < count => cut[i] - cut[i - 1] = Fragment)
        /\ (data # <<>> => cut[i - 1] < cut[i])
    <3> HIDE DEF cut
    <3>1. CASE i < count
      BY ONLY <1>1, <2>2, <2>3, <2>4, <2>5, <2>6, <3>1, i \in 1 .. count
    <3>2. CASE i = count
      BY ONLY <1>1, <1>2, <2>2, <2>3, <2>4, <2>5, <2>6, <2>7, <3>2, i \in 1 .. count
    <3> QED BY <1>2, <3>1, <3>2
  <2>9. Fragments(data)[i] = SubSeq(data, cut[i - 1] + 1, cut[i])
    <3>1. Fragments(data)[i] =
             SubSeq(data, (i - 1) * Fragment + 1, IF i < count THEN i * Fragment ELSE l)
      BY ONLY <1>3, i \in 1 .. count
    <3> HIDE DEF cut
    <3> QED BY ONLY <3>1, <2>2, <2>3
  <2> QED BY <2>8, <2>9
<1>8. \A i \in 1 .. count : SubSeq(data, (i - 1) * Fragment + 1,
                                   IF i < count THEN i * Fragment ELSE l)
                              \in Seq(Nat)
  <2> SUFFICES ASSUME NEW i \in 1 .. count PROVE Fragments(data)[i] \in Seq(Nat)
    BY <1>3
  <2>1. PICK a \in 0 .. l, b \in 0 .. l : a = cut[i - 1] /\ b = cut[i]
    <3>1. i - 1 \in 0 .. count /\ i \in 0 .. count
      BY <1>2
    <3> HIDE DEF cut
    <3> QED BY <1>5, <3>1
  <2>2. Fragments(data)[i] = SubSeq(data, a + 1, b)
    BY <1>7, <2>1
  <2>3. SubSeq(data, a + 1, b) \in Seq(Nat)
    BY ONLY data \in Seq(Nat), a \in 0 .. l, b \in 0 .. l, <1>1
  <2> QED BY <2>2, <2>3
<1>9. Fragments(data) \in Seq(Seq(Nat)) /\ Len(Fragments(data)) = count
  <2>1. PICK f : f = Fragments(data)
    OBVIOUS
  <2>2. f = [i \in 1 .. count |-> f[i]]
    BY <1>3, <2>1
  <2>3. \A i \in 1 .. count : f[i] \in Seq(Nat)
    <3> SUFFICES ASSUME NEW i \in 1 .. count PROVE f[i] \in Seq(Nat)
      OBVIOUS
    <3>1. f[i] = SubSeq(data, (i - 1) * Fragment + 1, IF i < count THEN i * Fragment ELSE l)
      BY ONLY <1>3, <2>1
    <3> QED BY <1>8, <3>1
  <2>4. f \in Seq(Seq(Nat)) /\ Len(f) = count
    <3>1. f \in [1 .. count -> Seq(Nat)] /\ count \in Nat
      BY ONLY <2>2, <2>3, <1>2
    <3>2. PICK T : T = Seq(Nat)
      OBVIOUS
    <3>3. f \in [1 .. count -> T]
      BY ONLY <3>1, <3>2
    <3>4. f \in Seq(T) /\ Len(f) = count
      BY ONLY <3>1, <3>3
    <3> QED BY <3>2, <3>4
  <2> QED BY <2>1, <2>4
<1>10. l <= Fragment => count = 1
  <2> SUFFICES ASSUME l <= Fragment, count # 1 PROVE FALSE
    OBVIOUS
  <2>1. 1 \in 0 .. count - 1 /\ data # <<>>
    BY <1>2
  <2>2. 1 * Fragment < l
    BY <1>4, <2>1
  <2> QED BY <1>1, <2>2
<1>11. Cuts(data, cut)
  <2> HIDE DEF cut
  <2> QED BY <1>5, <1>6, <1>7, <1>9 DEF Cuts
<1> QED BY <1>2, <1>9, <1>10, <1>11

(* What has been written, and the pieces as they are added.                *)
PutType == [ok : BOOLEAN, value : Seq(Nat)]

Puts(out, limit, type, pieces, st) ==
    /\ st \in [0 .. Len(pieces) -> PutType]
    /\ st[0] = out
    /\ \A i \in 1 .. Len(pieces) : st[i] = PutItem(st[i - 1], limit, type, pieces[i])

(* PutItem yields a message or the failure to write one.                   *)
LEMMA PutTyped ==
    ASSUME NEW out \in PutType, NEW limit, NEW type \in Nat, NEW item \in Seq(Nat)
    PROVE  PutItem(out, limit, type, item) \in PutType
<1>1. <<>> \in Seq(Nat) /\ out.value \in Seq(Nat) /\ Len(item) \in Nat
  BY DEF PutType
<1>2. <<type, Len(item)>> \in Seq(Nat)
  BY <1>1
<1>3. out.value \o <<type, Len(item)>> \o item \in Seq(Nat)
  BY <1>1, <1>2
<1> QED BY <1>1, <1>3 DEF PutItem, NoValue, Value, PutType

(* tlv_put is what its pieces end with.                                    *)
LEMMA PutRounds ==
    ASSUME NEW out \in PutType, NEW limit, NEW type \in Nat, NEW data \in Seq(Nat)
    PROVE  \E st : /\ Puts(out, limit, type, Fragments(data), st)
                   /\ tlv_put(out, limit, type, data) = st[Len(Fragments(data))]
<1>1. PICK fs : fs = Fragments(data)
  OBVIOUS
<1>2. fs \in Seq(Seq(Nat))
  BY <1>1, FragmentsCut
<1> DEFINE N == Len(fs)
           g == [i \in 1 .. N |-> [o \in PutType |-> PutItem(o, limit, type, fs[i])]]
           Body(h) == [s \in SUBSET (1 .. N) |->
                         IF s = {} THEN out
                         ELSE PutItem(h[s \ {Max(s)}], limit, type, fs[Max(s)])]
           fold == CHOOSE h : h = Body(h)
<1>3. N \in Nat /\ DOMAIN fs = 1 .. N /\ \A i \in 1 .. N : fs[i] \in Seq(Nat)
  BY <1>2
<1>4. \A i \in 1 .. N, o \in PutType : PutItem(o, limit, type, fs[i]) \in PutType
  BY <1>3, PutTyped
<1>5. g \in [1 .. N -> [PutType -> PutType]]
  BY <1>4
<1>6. PICK h : FoldedBy(N, PutType, out, g, h)
  <2> HIDE DEF g, N
  <2>1. N \in Nat
    BY <1>3
  <2> QED BY ONLY <2>1, <1>5, out \in PutType, FoldExists
<1>7. h = Body(h)
  <2>1. \A s \in SUBSET (1 .. N) : s # {} =>
           g[Max(s)][h[s \ {Max(s)}]] = PutItem(h[s \ {Max(s)}], limit, type, fs[Max(s)])
    <3> SUFFICES ASSUME NEW s \in SUBSET (1 .. N), s # {}
                 PROVE  g[Max(s)][h[s \ {Max(s)}]]
                           = PutItem(h[s \ {Max(s)}], limit, type, fs[Max(s)])
      OBVIOUS
    <3>1. Max(s) \in 1 .. N
      <4>1. s \subseteq 1 .. N
        OBVIOUS
      <4> HIDE DEF N
      <4> QED BY <1>3, <4>1, Greatest
    <3>2. h[s \ {Max(s)}] \in PutType
      BY <1>6 DEF FoldedBy
    <3> QED BY <3>1, <3>2
  <2>2. h = [s \in SUBSET (1 .. N) |-> h[s]]
    BY <1>6 DEF FoldedBy
  <2>3. \A s \in SUBSET (1 .. N) :
           h[s] = IF s = {} THEN out ELSE PutItem(h[s \ {Max(s)}], limit, type, fs[Max(s)])
    BY <1>6, <2>1 DEF FoldedBy
  <2> QED BY <2>2, <2>3
<1>8. fold = Body(fold)
  <2> HIDE DEF Body
  <2> QED BY <1>7
<1>9. tlv_put(out, limit, type, data) = fold[1 .. N]
  BY <1>1, <1>3 DEF tlv_put, FoldLeft, MapThenFoldSet
<1> DEFINE st == [i \in 0 .. N |-> fold[1 .. i]]
           Good == {i \in 1 .. N : st[i] \in PutType}
<1>10. st[0] = out
  <2>1. 1 .. 0 = {} /\ {} \in SUBSET (1 .. N) /\ 0 \in 0 .. N
    BY <1>3
  <2> HIDE DEF fold
  <2> QED BY <1>8, <2>1
<1>11. \A i \in 1 .. N : st[i] = PutItem(st[i - 1], limit, type, fs[i])
  <2> SUFFICES ASSUME NEW i \in 1 .. N PROVE st[i] = PutItem(st[i - 1], limit, type, fs[i])
    OBVIOUS
  <2>1. i \in Nat /\ i >= 1 /\ i - 1 \in 0 .. N /\ i \in 0 .. N /\ 1 .. i \in SUBSET (1 .. N)
    BY <1>3
  <2>2. Max(1 .. i) = i /\ (1 .. i) \ {i} = 1 .. i - 1 /\ 1 .. i # {}
    BY <2>1, WithoutLast
  <2>3. fold[1 .. i] = PutItem(fold[(1 .. i) \ {Max(1 .. i)}], limit, type, fs[Max(1 .. i)])
    <3> HIDE DEF fold
    <3> QED BY <1>8, <2>1, <2>2
  <2> HIDE DEF fold
  <2> QED BY <2>1, <2>2, <2>3
<1>12. \A i \in 0 .. N : st[i] \in PutType
  <2> HIDE DEF st, N
  <2>1. N >= 1 => 1 \in Good
    BY <1>3, <1>4, <1>10, <1>11
  <2>2. \A k \in 1 .. N : k + 1 <= N /\ k \in Good => k + 1 \in Good
    <3> SUFFICES ASSUME NEW k \in 1 .. N, k + 1 <= N, st[k] \in PutType PROVE k + 1 \in Good
      OBVIOUS
    <3>1. k + 1 \in 1 .. N /\ (k + 1) - 1 = k
      BY <1>3
    <3>2. st[k + 1] = PutItem(st[k], limit, type, fs[k + 1])
      BY <1>11, <3>1
    <3> QED BY <1>4, <3>1, <3>2
  <2>3. \A k \in 1 .. N : k \in Good
    <3> HIDE DEF Good
    <3> QED BY <1>3, <2>1, <2>2, UpTo
  <2> QED BY <1>3, <1>10, <2>3
<1>13. st[N] = fold[1 .. N] /\ st = [i \in 0 .. N |-> st[i]]
  BY <1>3
<1> HIDE DEF fold
<1>14. Puts(out, limit, type, fs, st)
  <2> HIDE DEF st
  <2> QED BY <1>10, <1>11, <1>12, <1>13 DEF Puts
<1> QED BY <1>1, <1>9, <1>13, <1>14

(* One sequence begins another.                                            *)
Begins(s, t) == Len(s) <= Len(t) /\ \A i \in 1 .. Len(s) : t[i] = s[i]

(* What is written stays, and was all written well.                        *)
Written(st, type, pieces, n) ==
    /\ \A k \in 0 .. n : st[k].ok /\ Begins(st[k].value, st[n].value)
    /\ \A k \in 1 .. n : st[k].value = st[k - 1].value \o <<type, Len(pieces[k])>> \o pieces[k]

(* What ended well was written well all the way.                           *)
LEMMA PutBack ==
    ASSUME NEW out \in PutType, NEW limit, NEW type \in Nat, NEW pieces \in Seq(Seq(Nat)),
           NEW st, Puts(out, limit, type, pieces, st), NEW n \in 0 .. Len(pieces), st[n].ok
    PROVE  Written(st, type, pieces, n)
<1> DEFINE Good == {k \in 0 .. n : /\ st[k].ok
                                   /\ Len(st[k].value) <= Len(st[n].value)
                                   /\ \A i \in 1 .. Len(st[k].value) :
                                         st[n].value[i] = st[k].value[i]}
<1>1. n \in Nat /\ \A k \in 1 .. n : k \in 1 .. Len(pieces)
  OBVIOUS
<1>2. \A k \in 0 .. n : st[k] \in PutType
  <2>1. \A k \in 0 .. n : k \in 0 .. Len(pieces)
    OBVIOUS
  <2> QED BY <2>1 DEF Puts
<1>3. \A k \in 1 .. n : st[k] = PutItem(st[k - 1], limit, type, pieces[k])
  BY <1>1 DEF Puts
<1>4. n \in Good
  <2>1. n \in 0 .. n /\ Len(st[n].value) \in Nat
    BY <1>1, <1>2 DEF PutType
  <2> QED BY <2>1
<1>5. ASSUME NEW k \in 1 .. n, st[k].ok
      PROVE  /\ st[k - 1].ok
             /\ st[k].value = st[k - 1].value \o <<type, Len(pieces[k])>> \o pieces[k]
             /\ Len(st[k - 1].value) <= Len(st[k].value)
             /\ \A i \in 1 .. Len(st[k - 1].value) : st[k].value[i] = st[k - 1].value[i]
  <2>1. k - 1 \in 0 .. n
    BY <1>1
  <2>2. st[k - 1] \in PutType /\ pieces[k] \in Seq(Nat)
    BY <1>1, <1>2, <2>1
  <2>3. PICK a \in Seq(Nat), item \in Seq(Nat) : a = st[k - 1].value /\ item = pieces[k]
    BY <2>2 DEF PutType
  <2>4. st[k - 1].ok /\ st[k].value = a \o <<type, Len(item)>> \o item
    <3>1. PICK o : o = st[k - 1] /\ o \in PutType
      BY <2>2
    <3>2. PICK r : r = st[k] /\ r.ok /\ r = PutItem(o, limit, type, item)
      BY <1>3, <1>5, <2>3, <3>1
    <3>3. r = IF ~o.ok \/ Len(item) + 2 > limit - Len(o.value) THEN [ok |-> FALSE, value |-> <<>>]
              ELSE [ok |-> TRUE, value |-> o.value \o <<type, Len(item)>> \o item]
      BY <3>2 DEF PutItem, NoValue, Value
    <3>4. o.ok /\ r = [ok |-> TRUE, value |-> o.value \o <<type, Len(item)>> \o item]
      BY ONLY <3>2, <3>3
    <3>5. r.value = o.value \o <<type, Len(item)>> \o item
      BY ONLY <3>4
    <3> QED BY <2>3, <3>1, <3>2, <3>4, <3>5
  <2>5. <<type, Len(item)>> \in Seq(Nat)
    OBVIOUS
  <2>6. PICK head \in Seq(Nat) : head = <<type, Len(item)>>
    BY <2>5
  <2>7. (a \o head) \o item \in Seq(Nat) /\ Len((a \o head) \o item) >= Len(a)
        /\ \A i \in 1 .. Len(a) : ((a \o head) \o item)[i] = a[i]
    BY ONLY a \in Seq(Nat), head \in Seq(Nat), item \in Seq(Nat)
  <2> QED BY <2>3, <2>4, <2>6, <2>7
<1>6. \A k \in 1 .. n : k \in Good => k - 1 \in Good
  <2> SUFFICES ASSUME NEW k \in 1 .. n, k \in Good PROVE k - 1 \in Good
    OBVIOUS
  <2>1. k - 1 \in 0 .. n /\ k \in 0 .. n
    BY <1>1
  <2>2. Len(st[k - 1].value) \in Nat /\ Len(st[k].value) \in Nat /\ Len(st[n].value) \in Nat
    <3>1. n \in 0 .. n
      BY <1>1
    <3>2. \A x \in PutType : Len(x.value) \in Nat
      BY DEF PutType
    <3>3. st[k - 1] \in PutType /\ st[k] \in PutType /\ st[n] \in PutType
      BY ONLY <1>2, <2>1, <3>1
    <3> QED BY ONLY <3>2, <3>3
  <2>3. /\ st[k - 1].ok
        /\ Len(st[k - 1].value) <= Len(st[k].value)
        /\ \A i \in 1 .. Len(st[k - 1].value) : st[k].value[i] = st[k - 1].value[i]
    BY <1>5
  <2>4. /\ Len(st[k].value) <= Len(st[n].value)
        /\ \A i \in 1 .. Len(st[k].value) : st[n].value[i] = st[k].value[i]
    OBVIOUS
  <2>5. PICK a, b, c : a = st[k - 1].value /\ b = st[k].value /\ c = st[n].value
    OBVIOUS
  <2>6. Len(a) <= Len(c) /\ \A i \in 1 .. Len(a) : c[i] = a[i]
    <3>1. PICK la \in Nat, lb \in Nat : la = Len(a) /\ lb = Len(b)
      BY <2>2, <2>5
    <3>2. \A i \in 1 .. la : i \in 1 .. lb
      <4>1. la <= lb
        BY ONLY <2>3, <2>5, <3>1
      <4> QED BY ONLY <4>1, la \in Nat, lb \in Nat
    <3>3. la <= lb /\ \A i \in 1 .. la : b[i] = a[i]
      BY <2>3, <2>5, <3>1
    <3>4. lb <= Len(c) /\ \A i \in 1 .. lb : c[i] = b[i]
      BY <2>4, <2>5, <3>1
    <3>5. Len(c) \in Nat
      BY <2>2, <2>5
    <3> QED BY ONLY <3>1, <3>2, <3>3, <3>4, <3>5, la \in Nat, lb \in Nat
  <2> QED BY <2>1, <2>3, <2>5, <2>6
<1>7. \A k \in 0 .. n : k \in Good
  <2> HIDE DEF Good
  <2> QED BY <1>1, <1>4, <1>6, Downward
<1>8. \A k \in 1 .. n : k \in 0 .. n
  BY <1>1
<1> QED BY <1>5, <1>7, <1>8 DEF Begins, Written

(* Induction up an interval.                                               *)
LEMMA Upward ==
    ASSUME NEW n \in Nat, NEW Good, 0 \in Good,
           \A k \in 0 .. n : k + 1 <= n /\ k \in Good => k + 1 \in Good
    PROVE  \A k \in 0 .. n : k \in Good
<1>1. n >= 1 => 1 \in Good
  <2>1. 0 \in 0 .. n /\ 0 + 1 = 1
    OBVIOUS
  <2> QED BY <2>1
<1>2. \A k \in 1 .. n : k + 1 <= n /\ k \in Good => k + 1 \in Good
  OBVIOUS
<1>3. \A k \in 1 .. n : k \in Good
  BY <1>1, <1>2, UpTo
<1>4. \A k \in 0 .. n : k = 0 \/ k \in 1 .. n
  OBVIOUS
<1> QED BY <1>3, <1>4

(* How far the loop has read, and what it has found there: nothing yet, or *)
(* a value.                                                                *)
At(in, type, capacity, p, v) ==
    \E s : /\ Reached(in, type, capacity, s) /\ s.pos = p
           /\ v = IF s.found THEN Value(s.out) ELSE NoValue
           /\ ~s.found => s.out = <<>>

(* An item at a place of a message.                                        *)
Stands(in, p, t, item) ==
    /\ p + 2 + Len(item) <= Len(in)
    /\ in[p + 1] = t /\ in[p + 2] = Len(item)
    /\ \A i \in 1 .. Len(item) : in[p + 2 + i] = item[i]

(* What is found once bytes of type t are read.                            *)
Gained(type, t, bytes, v) == IF t = type THEN Value(v.value \o bytes) ELSE v

(* Joining bytes.                                                          *)
LEMMA BytesAssociated ==
    ASSUME NEW f \in Seq(Nat), NEW g \in Seq(Nat), NEW h \in Seq(Nat)
    PROVE  (f \o g) \o h = f \o (g \o h)
OBVIOUS

(* Joining the next fragment of a value.                                   *)
LEMMA NextFragment ==
    ASSUME NEW f \in Seq(Nat), NEW data \in Seq(Nat),
           NEW x \in 0 .. Len(data), NEW y \in x .. Len(data)
    PROVE  (f \o SubSeq(data, 1, x)) \o SubSeq(data, x + 1, y) = f \o SubSeq(data, 1, y)
<1>1. 1 \in 1 .. Len(data) + 1 /\ x \in 1 - 1 .. Len(data)
  OBVIOUS
<1>2. SubSeq(data, 1, x) \o SubSeq(data, x + 1, y) = SubSeq(data, 1, y)
  BY <1>1, ConcatAdjacentSubSeq
<1>3. SubSeq(data, 1, x) \in Seq(Nat) /\ SubSeq(data, x + 1, y) \in Seq(Nat)
  OBVIOUS
<1>4. PICK g, h : g = SubSeq(data, 1, x) /\ h = SubSeq(data, x + 1, y)
  OBVIOUS
<1>5. g \in Seq(Nat) /\ h \in Seq(Nat)
  BY <1>3, <1>4
<1>6. (f \o g) \o h = f \o (g \o h)
  BY <1>5, BytesAssociated
<1> QED BY <1>2, <1>4, <1>6

(* The bytes between two places.                                           *)
LEMMA Between ==
    ASSUME NEW in \in Seq(Nat), NEW p \in Nat, NEW item \in Seq(Nat),
           p + Len(item) <= Len(in), \A i \in 1 .. Len(item) : in[p + i] = item[i]
    PROVE  SubSeq(in, p + 1, p + Len(item)) = item
<1>1. PICK m \in Nat, l \in Nat : m = Len(item) /\ l = Len(in)
  OBVIOUS
<1>2. PICK u : u = SubSeq(in, p + 1, p + m)
  OBVIOUS
<1>3. u \in Seq(Nat) /\ Len(u) = m /\ \A i \in 1 .. m : u[i] = in[p + i]
  <2>1. p + 1 \in Int /\ p + m \in Int /\ (p + m) - (p + 1) + 1 = m
        /\ (p + 1 <= p + m \/ m = 0) /\ \A i \in 1 .. m : (p + 1) + i - 1 = p + i
    OBVIOUS
  <2>2. \A i \in (p + 1) .. (p + m) : in[i] \in Nat
    BY ONLY <1>1, p + Len(item) <= Len(in), in \in Seq(Nat), p \in Nat, m \in Nat, l \in Nat
  <2> QED BY ONLY <1>2, <2>1, <2>2, p \in Nat, m \in Nat
<1>4. \A i \in 1 .. m : u[i] = item[i]
  BY <1>1, <1>3
<1> QED BY <1>1, <1>2, <1>3, <1>4, SeqEqual

(* The loop starts, takes an item, and ends.                               *)
LEMMA AtFirst ==
    ASSUME NEW in \in Seq(Nat), NEW type, NEW capacity
    PROVE  At(in, type, capacity, 0, NoValue)
<1>1. Scanning.pos = 0 /\ ~Scanning.found /\ Scanning.out = <<>>
  BY DEF Scanning
<1> QED BY <1>1, ReachedFirst DEF At

(* Where the loop is, and what it has found, are of the right types.       *)
LEMMA AtTyped ==
    ASSUME NEW in \in Seq(Nat), NEW type, NEW capacity, tlv_get(in, type, capacity).ok,
           NEW p, NEW v, At(in, type, capacity, p, v)
    PROVE  p \in Nat /\ p <= Len(in) /\ v \in PutType /\ (~v.ok => v = NoValue)
<1>1. PICK s : /\ Reached(in, type, capacity, s) /\ s.pos = p
               /\ v = IF s.found THEN Value(s.out) ELSE NoValue
  BY DEF At
<1>2. s.pos \in Nat /\ s.pos <= Len(in) /\ s.out \in Seq(Nat) /\ s.found \in BOOLEAN
  BY <1>1, ReachedOk DEF Within, ScanType
<1> QED BY <1>1, <1>2 DEF Value, NoValue, PutType

(* One item is taken whole.                                                *)
LEMMA ItemRead ==
    ASSUME NEW in \in Seq(Nat), NEW type, NEW capacity, tlv_get(in, type, capacity).ok,
           NEW p \in Nat, NEW v, At(in, type, capacity, p, v),
           NEW t \in Nat, NEW item \in Seq(Nat), Stands(in, p, t, item)
    PROVE  At(in, type, capacity, p + 2 + Len(item), Gained(type, t, item, v))
<1>1. PICK r : /\ Reached(in, type, capacity, r) /\ r.pos = p
               /\ v = IF r.found THEN Value(r.out) ELSE NoValue
               /\ ~r.found => r.out = <<>>
  BY DEF At
<1>2. PICK m \in Nat, l \in Nat : m = Len(item) /\ l = Len(in)
  OBVIOUS
<1>3. /\ p + 2 + m <= l /\ in[p + 1] = t /\ in[p + 2] = m
      /\ \A i \in 1 .. m : in[(p + 2) + i] = item[i]
  BY <1>2 DEF Stands
<1>4. p < l
  BY ONLY <1>3, p \in Nat, m \in Nat, l \in Nat
<1>5. Reached(in, type, capacity, After(in, type, r))
  BY <1>1, <1>2, <1>4, ReachedNext
<1>6. SubSeq(in, p + 3, p + 2 + m) = item
  <2>1. SubSeq(in, (p + 2) + 1, (p + 2) + Len(item)) = item
    BY ONLY <1>2, <1>3, Between, in \in Seq(Nat), p + 2 \in Nat, item \in Seq(Nat)
  <2>2. (p + 2) + 1 = p + 3
    OBVIOUS
  <2> QED BY <1>2, <2>1, <2>2
<1>7. PICK q : q = After(in, type, r)
  OBVIOUS
<1>8. /\ q.pos = p + 2 + m
      /\ q.out = IF t = type THEN r.out \o item ELSE r.out
  BY <1>1, <1>3, <1>6, <1>7 DEF After
<1>9. q.found <=> (r.found \/ t = type)
  BY <1>1, <1>3, <1>7 DEF After
<1>10. Gained(type, t, item, v) = IF q.found THEN Value(q.out) ELSE NoValue
  <2>1. CASE t = type
    <3>1. v.value = r.out
      BY <1>1 DEF Value, NoValue
    <3> QED BY <1>8, <1>9, <2>1, <3>1 DEF Gained
  <2>2. CASE t # type
    BY <1>1, <1>8, <1>9, <2>2 DEF Gained
  <2> QED BY <2>1, <2>2
<1>11. ~q.found => q.out = <<>>
  BY <1>1, <1>8, <1>9
<1> QED BY <1>2, <1>5, <1>7, <1>8, <1>10, <1>11 DEF At

(* The loop ends at the end of the message.                                *)
LEMMA AtLast ==
    ASSUME NEW in \in Seq(Nat), NEW type, NEW capacity, tlv_get(in, type, capacity).ok,
           NEW v, At(in, type, capacity, Len(in), v)
    PROVE  v.ok /\ tlv_get(in, type, capacity).value = v.value
<1>1. PICK s : /\ Reached(in, type, capacity, s) /\ s.pos = Len(in)
               /\ v = IF s.found THEN Value(s.out) ELSE NoValue
  BY DEF At
<1> QED BY <1>1, ReachedLast DEF Value

(* The message in has, from p on, what follows the first n bytes of z.     *)
Carries(in, p, z, n) ==
    /\ p + (Len(z) - n) <= Len(in)
    /\ \A i \in 1 .. Len(z) : i > n => in[p + (i - n)] = z[i]

(* A piece that was added to what was written stands in such a message.    *)
LEMMA PieceStands ==
    ASSUME NEW in \in Seq(Nat), NEW p \in Nat, NEW n \in Nat,
           NEW v \in Seq(Nat), NEW w, NEW z \in Seq(Nat), NEW t \in Nat, NEW item \in Seq(Nat),
           NEW q \in Nat, q = p + (Len(v) - n),
           n <= Len(v), w = v \o <<t, Len(item)>> \o item, Begins(w, z), Carries(in, p, z, n)
    PROVE  Stands(in, q, t, item)
<1>1. PICK a \in Nat, b \in Nat, c \in Nat, l \in Nat :
         a = Len(v) /\ b = Len(item) /\ c = Len(z) /\ l = Len(in)
  OBVIOUS
<1>2. /\ w \in Seq(Nat) /\ Len(w) = a + 2 + b
      /\ w[a + 1] = t /\ w[a + 2] = b
      /\ \A i \in 1 .. b : w[a + 2 + i] = item[i]
  <2>1. /\ w \in Seq(Nat) /\ Len(w) = Len(v) + 2 + Len(item)
        /\ w[Len(v) + 1] = t /\ w[Len(v) + 2] = Len(item)
        /\ \A i \in 1 .. Len(item) : w[Len(v) + 2 + i] = item[i]
    BY ONLY w = v \o <<t, Len(item)>> \o item, v \in Seq(Nat), t \in Nat, item \in Seq(Nat)
  <2> QED BY <1>1, <2>1
<1>3. a + 2 + b <= c /\ \A i \in 1 .. a + 2 + b : z[i] = w[i]
  BY <1>1, <1>2 DEF Begins
<1>4. p + (c - n) <= l /\ \A i \in 1 .. c : i > n => in[p + (i - n)] = z[i]
  BY <1>1 DEF Carries
<1>5. q = p + (a - n)
  BY <1>1
<1>6. n <= a
  BY <1>1
<1>7. q + 2 + b <= l
  BY ONLY <1>3, <1>4, <1>5, <1>6, a \in Nat, b \in Nat, c \in Nat, l \in Nat, p \in Nat, n \in Nat
<1>8. ASSUME NEW i \in 1 .. 2 + b PROVE in[q + i] = w[a + i]
  <2>1. a + i \in 1 .. c /\ a + i > n /\ p + ((a + i) - n) = q + i /\ a + i \in 1 .. a + 2 + b
    BY ONLY <1>3, <1>5, <1>6, i \in 1 .. 2 + b, a \in Nat, b \in Nat, c \in Nat, p \in Nat,
            n \in Nat
  <2>2. in[p + ((a + i) - n)] = z[a + i] /\ z[a + i] = w[a + i]
    BY ONLY <1>3, <1>4, <2>1
  <2> QED BY ONLY <2>1, <2>2
<1>9. in[q + 1] = t /\ in[q + 2] = b
  <2>1. 1 \in 1 .. 2 + b /\ 2 \in 1 .. 2 + b
    OBVIOUS
  <2> QED BY <1>2, <1>8, <2>1
<1>10. \A i \in 1 .. b : in[q + 2 + i] = item[i]
  <2> SUFFICES ASSUME NEW i \in 1 .. b PROVE in[q + 2 + i] = item[i]
    OBVIOUS
  <2>1. 2 + i \in 1 .. 2 + b /\ q + (2 + i) = q + 2 + i /\ a + (2 + i) = a + 2 + i
    OBVIOUS
  <2>2. in[q + (2 + i)] = w[a + (2 + i)]
    BY <1>8, <2>1
  <2> QED BY ONLY <1>2, <2>1, <2>2, i \in 1 .. b
<1> QED BY <1>1, <1>2, <1>5, <1>7, <1>9, <1>10 DEF Stands

(* The loop reads the first m fragments of a value that tlv_put wrote.     *)
LEMMA PiecesRead ==
    ASSUME NEW in \in Seq(Nat), NEW type, NEW capacity, tlv_get(in, type, capacity).ok,
           NEW p \in Nat, NEW found, At(in, type, capacity, p, found),
           NEW out \in PutType, NEW limit, NEW t \in Nat, NEW data \in Seq(Nat),
           NEW st, Puts(out, limit, t, Fragments(data), st),
           NEW cut, Cuts(data, cut),
           NEW m \in 0 .. Len(Fragments(data)), st[m].ok,
           Carries(in, p, st[m].value, Len(out.value))
    PROVE  At(in, type, capacity, p + (Len(st[m].value) - Len(out.value)),
              IF m = 0 THEN found ELSE Gained(type, t, SubSeq(data, 1, cut[m]), found))
<1>1. PICK fs : fs = Fragments(data) /\ fs \in Seq(Seq(Nat))
  BY FragmentsCut
<1>2. PICK n \in Nat : n = Len(out.value)
  BY DEF PutType
<1>3. m \in Nat /\ m \in 0 .. Len(fs) /\ \A k \in 0 .. m : k \in 0 .. Len(fs)
  BY <1>1
<1>4. \A k \in 0 .. m : st[k] \in PutType
  BY <1>1, <1>3 DEF Puts
<1>5. /\ \A k \in 0 .. m : st[k].ok /\ Begins(st[k].value, st[m].value)
      /\ \A k \in 1 .. m : st[k].value = st[k - 1].value \o <<t, Len(fs[k])>> \o fs[k]
  <2>1. Puts(out, limit, t, fs, st)
    BY <1>1
  <2>2. Written(st, t, fs, m)
    BY ONLY <1>1, <1>3, <2>1, out \in PutType, t \in Nat, st[m].ok, PutBack
  <2> QED BY <2>2 DEF Written
<1> DEFINE Sofar(k) == IF k = 0 THEN found ELSE Gained(type, t, SubSeq(data, 1, cut[k]), found)
           Claim(k) == /\ n <= Len(st[k].value)
                       /\ At(in, type, capacity, p + (Len(st[k].value) - n), Sofar(k))
           Good == {k \in 0 .. m : Claim(k)}
<1>6. found \in PutType /\ (~found.ok => found = NoValue)
  BY AtTyped
<1>7. 0 \in Good
  <2>1. st[0] = out /\ 0 \in 0 .. m
    BY <1>3 DEF Puts
  <2>2. p + (Len(st[0].value) - n) = p /\ n <= Len(st[0].value)
    BY <1>2, <2>1
  <2>3. Claim(0)
    BY <2>2
  <2> QED BY <2>1, <2>3
<1>8. ASSUME NEW k \in 0 .. m, k + 1 <= m, k \in Good PROVE k + 1 \in Good
  <2>1. n <= Len(st[k].value) /\ At(in, type, capacity, p + (Len(st[k].value) - n), Sofar(k))
    BY <1>8
  <2> HIDE DEF Good
  <2>2. k + 1 \in 1 .. m /\ k + 1 \in 0 .. m /\ (k + 1) - 1 = k /\ k + 1 \in 1 .. Len(fs)
        /\ k + 1 # 0
    BY <1>3, <1>8
  <2>3. PICK v \in Seq(Nat), w \in Seq(Nat), z \in Seq(Nat), item \in Seq(Nat) :
           v = st[k].value /\ w = st[k + 1].value /\ z = st[m].value /\ item = fs[k + 1]
    <3>1. m \in 0 .. m
      BY <1>3
    <3>2. \A x \in PutType : x.value \in Seq(Nat)
      BY DEF PutType
    <3>3. st[k] \in PutType /\ st[k + 1] \in PutType /\ st[m] \in PutType
      BY ONLY <1>4, <2>2, <3>1, k \in 0 .. m
    <3>4. fs[k + 1] \in Seq(Nat)
      <4>1. fs \in Seq(Seq(Nat)) /\ k + 1 \in 1 .. Len(fs)
        BY ONLY <1>1, <2>2
      <4> QED BY ONLY <4>1
    <3> QED BY ONLY <3>2, <3>3, <3>4
  <2>4. w = v \o <<t, Len(item)>> \o item
    BY <1>5, <2>2, <2>3
  <2>5. Begins(w, z)
    BY <1>5, <2>2, <2>3
  <2>6. n <= Len(v) /\ Carries(in, p, z, n)
    BY <1>2, <2>1, <2>3
  <2>7. Len(w) = Len(v) + 2 + Len(item)
    BY ONLY <2>4, v \in Seq(Nat), t \in Nat, item \in Seq(Nat)
  <2>8. PICK q \in Nat : q = p + (Len(v) - n) /\ Stands(in, q, t, item)
    <3>1. PICK q : q = p + (Len(v) - n)
      OBVIOUS
    <3>2. q \in Nat
      BY ONLY <2>6, <3>1, p \in Nat, n \in Nat, v \in Seq(Nat)
    <3>3. Stands(in, q, t, item)
      BY ONLY <2>4, <2>5, <2>6, <3>1, <3>2, PieceStands, in \in Seq(Nat), p \in Nat, n \in Nat,
              v \in Seq(Nat), z \in Seq(Nat), t \in Nat, item \in Seq(Nat)
    <3> QED BY <3>1, <3>2, <3>3
  <2>9. PICK u : u = Sofar(k)
    OBVIOUS
  <2>10. At(in, type, capacity, q + 2 + Len(item), Gained(type, t, item, u))
    <3>1. At(in, type, capacity, q, u) /\ Stands(in, q, t, item)
      BY <2>1, <2>3, <2>8, <2>9
    <3> QED BY ONLY <3>1, ItemRead, in \in Seq(Nat), tlv_get(in, type, capacity).ok,
                    q \in Nat, t \in Nat, item \in Seq(Nat)
  <2>11. q + 2 + Len(item) = p + (Len(w) - n) /\ n <= Len(w)
    BY <2>6, <2>7, <2>8
  <2>12. Gained(type, t, item, u) = Sofar(k + 1)
    <3>1. PICK x \in 0 .. Len(data), y \in 0 .. Len(data) :
             /\ x = cut[k] /\ y = cut[k + 1] /\ x <= y /\ item = SubSeq(data, x + 1, y)
             /\ k = 0 => x = 0
      <4>1. k \in 0 .. Len(fs) /\ k + 1 \in 0 .. Len(fs) /\ k + 1 \in 1 .. Len(fs)
        BY <1>3, <2>2
      <4>2. /\ cut \in [0 .. Len(fs) -> 0 .. Len(data)] /\ cut[0] = 0
            /\ \A i \in 1 .. Len(fs) : cut[i - 1] <= cut[i]
                  /\ fs[i] = SubSeq(data, cut[i - 1] + 1, cut[i])
        BY <1>1 DEF Cuts
      <4>3. cut[k] <= cut[k + 1] /\ fs[k + 1] = SubSeq(data, cut[k] + 1, cut[k + 1])
        BY ONLY <2>2, <4>1, <4>2
      <4> QED BY ONLY <2>3, <4>1, <4>2, <4>3
    <3>2. SubSeq(data, 1, x) \o SubSeq(data, x + 1, y) = SubSeq(data, 1, y)
      <4>1. 1 \in 1 .. Len(data) + 1 /\ x \in 1 - 1 .. Len(data) /\ y \in x .. Len(data)
        BY <3>1
      <4> QED BY ONLY <4>1, data \in Seq(Nat), ConcatAdjacentSubSeq
    <3>3. Sofar(k + 1) = Gained(type, t, SubSeq(data, 1, y), found)
      BY <2>2, <3>1
    <3>4. CASE t # type
      <4>1. u = found
        BY <2>9, <3>4 DEF Gained
      <4> QED BY <3>3, <3>4, <4>1 DEF Gained
    <3>5. CASE t = type
      <4>1. PICK f \in Seq(Nat) : f = found.value
        BY <1>6 DEF PutType
      <4>2. Sofar(k + 1) = Value(f \o SubSeq(data, 1, y))
        BY <3>3, <3>5, <4>1 DEF Gained
      <4>3. Gained(type, t, item, u) = Value(u.value \o item)
        BY <3>5 DEF Gained
      <4>4. CASE k = 0
        <5>1. u = found /\ item = SubSeq(data, 1, y)
          <6>1. u = found
            BY <2>9, <4>4
          <6>2. x = 0 /\ x + 1 = 1
            BY ONLY <3>1, <4>4
          <6> QED BY ONLY <3>1, <6>1, <6>2
        <5> QED BY <4>1, <4>2, <4>3, <5>1
      <4>5. CASE k # 0
        <5>1. u.value = f \o SubSeq(data, 1, x)
          BY <2>9, <3>1, <3>5, <4>1, <4>5 DEF Gained, Value
        <5>2. (f \o SubSeq(data, 1, x)) \o SubSeq(data, x + 1, y) = f \o SubSeq(data, 1, y)
          <6>1. y \in x .. Len(data)
            BY <3>1
          <6> QED BY ONLY <6>1, f \in Seq(Nat), data \in Seq(Nat), x \in 0 .. Len(data),
                          NextFragment
        <5> QED BY <3>1, <4>2, <4>3, <5>1, <5>2
      <4> QED BY <4>4, <4>5
    <3> QED BY <3>4, <3>5
  <2>13. Claim(k + 1)
    BY <2>3, <2>10, <2>11, <2>12
  <2> QED BY <2>2, <2>13 DEF Good
<1>9. \A k \in 0 .. m : k \in Good
  <2> HIDE DEF Good
  <2> QED BY <1>3, <1>7, <1>8, Upward
<1>10. Claim(m)
  <2>1. m \in 0 .. m
    BY <1>3
  <2> QED BY <1>9, <2>1
<1> QED BY <1>2, <1>10

(* What tlv_put writes of a whole value, and the loop reads.               *)
LEMMA PutIs ==
    ASSUME NEW out \in PutType, NEW limit, NEW t \in Nat, NEW data \in Seq(Nat)
    PROVE  /\ tlv_put(out, limit, t, data) \in PutType
           /\ tlv_put(out, limit, t, data).ok =>
                 out.ok /\ Begins(out.value, tlv_put(out, limit, t, data).value)
           /\ ~tlv_put(out, limit, t, data).ok => tlv_put(out, limit, t, data) = NoValue
<1>1. PICK fs : fs = Fragments(data) /\ fs \in Seq(Seq(Nat)) /\ Len(fs) >= 1
  BY FragmentsCut
<1>2. PICK st : Puts(out, limit, t, fs, st) /\ tlv_put(out, limit, t, data) = st[Len(fs)]
  BY <1>1, PutRounds
<1>3. PICK n \in Nat : n = Len(fs) /\ n >= 1 /\ n \in 0 .. Len(fs) /\ n \in 1 .. Len(fs)
  BY <1>1
<1>4. st[n] \in PutType /\ st[0] = out
  BY <1>2, <1>3 DEF Puts
<1>5. ASSUME st[n].ok PROVE out.ok /\ Begins(out.value, st[n].value)
  <2>1. Written(st, t, fs, n)
    BY <1>1, <1>2, <1>3, <1>5, PutBack
  <2>2. 0 \in 0 .. n
    BY <1>3
  <2> QED BY <1>4, <2>1, <2>2 DEF Written
<1>6. ASSUME ~st[n].ok PROVE st[n] = NoValue
  <2>1. st[n] = PutItem(st[n - 1], limit, t, fs[n])
    BY <1>2, <1>3 DEF Puts
  <2>2. PICK r, o, item : r = st[n] /\ ~r.ok /\ o = st[n - 1] /\ item = fs[n]
    BY <1>6
  <2>3. r = IF ~o.ok \/ Len(item) + 2 > limit - Len(o.value) THEN [ok |-> FALSE, value |-> <<>>]
            ELSE [ok |-> TRUE, value |-> o.value \o <<t, Len(item)>> \o item]
    BY <2>1, <2>2 DEF PutItem, NoValue, Value
  <2>4. r = [ok |-> FALSE, value |-> <<>>]
    BY ONLY <2>2, <2>3
  <2> QED BY <2>2, <2>4 DEF NoValue
<1> QED BY <1>2, <1>3, <1>4, <1>5, <1>6

(* A value that tlv_put wrote is taken whole, all its pieces.              *)
LEMMA ValueRead ==
    ASSUME NEW in \in Seq(Nat), NEW type, NEW capacity, tlv_get(in, type, capacity).ok,
           NEW p \in Nat, NEW found, At(in, type, capacity, p, found),
           NEW out \in PutType, NEW limit, NEW t \in Nat, NEW data \in Seq(Nat),
           NEW put, put = tlv_put(out, limit, t, data), put.ok,
           Carries(in, p, put.value, Len(out.value))
    PROVE  At(in, type, capacity, p + (Len(put.value) - Len(out.value)),
              Gained(type, t, data, found))
<1>1. PICK fs : fs = Fragments(data) /\ fs \in Seq(Seq(Nat)) /\ Len(fs) >= 1
  BY FragmentsCut
<1>2. PICK st : Puts(out, limit, t, fs, st) /\ put = st[Len(fs)]
  BY <1>1, PutRounds
<1>3. PICK cut : Cuts(data, cut)
  BY FragmentsCut
<1>4. PICK m \in Nat : m = Len(fs) /\ m # 0 /\ m \in 0 .. Len(fs)
  BY <1>1
<1>5. SubSeq(data, 1, cut[m]) = data
  <2>1. cut[m] = Len(data)
    BY <1>1, <1>3, <1>4 DEF Cuts
  <2> QED BY <2>1
<1>6. /\ Puts(out, limit, t, Fragments(data), st) /\ m \in 0 .. Len(Fragments(data))
      /\ st[m].ok /\ Carries(in, p, st[m].value, Len(out.value))
  BY <1>1, <1>2, <1>4
<1>7. At(in, type, capacity, p + (Len(st[m].value) - Len(out.value)),
         IF m = 0 THEN found ELSE Gained(type, t, SubSeq(data, 1, cut[m]), found))
  BY <1>3, <1>6, PiecesRead
<1> QED BY <1>2, <1>4, <1>5, <1>7

(* A value of one fragment.                                                *)
LEMMA ShortPut ==
    ASSUME NEW out \in PutType, NEW limit, NEW t \in Nat, NEW data \in Seq(Nat),
           Len(data) <= Fragment
    PROVE  tlv_put(out, limit, t, data) = PutItem(out, limit, t, data)
<1>1. PICK fs : fs = Fragments(data) /\ fs \in Seq(Seq(Nat)) /\ Len(fs) = 1
  BY FragmentsCut
<1>2. PICK st : Puts(out, limit, t, fs, st) /\ tlv_put(out, limit, t, data) = st[1]
  <2>1. PICK st : Puts(out, limit, t, fs, st) /\ tlv_put(out, limit, t, data) = st[Len(fs)]
    BY <1>1, PutRounds
  <2> QED BY <1>1, <2>1
<1>3. PICK cut : Cuts(data, cut)
  BY FragmentsCut
<1>4. fs[1] = data
  <2>1. 1 \in 1 .. Len(fs) /\ 1 - 1 = 0
    BY <1>1
  <2>2. fs[1] = SubSeq(data, cut[0] + 1, cut[1]) /\ cut[0] = 0 /\ cut[1] = Len(data)
    BY <1>1, <1>3, <2>1 DEF Cuts
  <2>3. SubSeq(data, 0 + 1, Len(data)) = data
    OBVIOUS
  <2> QED BY <2>2, <2>3
<1>5. st[1] = PutItem(st[1 - 1], limit, t, fs[1]) /\ st[0] = out
  <2>1. 1 \in 1 .. Len(fs)
    BY <1>1
  <2> QED BY <1>2, <2>1 DEF Puts
<1> QED BY <1>2, <1>4, <1>5

(* The items a sender writes: nothing when they do not fit.                *)
LEMMA ItemIs ==
    ASSUME NEW t \in Nat, NEW data \in Seq(Nat),
           NEW limit, limit = 1000, NEW put, put = tlv_put(Value(<<>>), limit, t, data)
    PROVE  /\ Item(t, data) \in Seq(Nat) /\ put.value = Item(t, data)
           /\ ~put.ok => Item(t, data) = <<>>
<1>1. Value(<<>>) \in PutType
  BY DEF Value, PutType
<1>2. put \in PutType /\ (~put.ok => put = NoValue)
  BY <1>1, PutIs
<1>3. Item(t, data) = put.value
  BY DEF Item
<1>4. ~put.ok => put.value = <<>>
  BY <1>2 DEF NoValue
<1>5. put.value \in Seq(Nat)
  BY <1>2 DEF PutType
<1> QED BY <1>3, <1>4, <1>5

(* The same, of a put that is known only by what it returned.              *)
ItemPut(t, data, put) ==
    Item(t, data) \in Seq(Nat) /\ put.value = Item(t, data) /\ (~put.ok => Item(t, data) = <<>>)

(* So it is known of such a put.                                           *)
LEMMA ItemPutIs ==
    ASSUME NEW t \in Nat, NEW data \in Seq(Nat),
           NEW limit, limit = 1000, NEW put, put = tlv_put(Value(<<>>), limit, t, data)
    PROVE  ItemPut(t, data, put)
BY ItemIs DEF ItemPut

(* An item is bytes.                                                       *)
LEMMA ItemTyped ==
    ASSUME NEW t \in Nat, NEW data \in Seq(Nat)
    PROVE  Item(t, data) \in Seq(Nat)
<1>1. PICK limit, put : limit = 1000 /\ put = tlv_put(Value(<<>>), limit, t, data)
  OBVIOUS
<1>2. ItemPut(t, data, put)
  BY ONLY <1>1, ItemPutIs, t \in Nat, data \in Seq(Nat)
<1> QED BY ONLY <1>2 DEF ItemPut

(* A short item is its type, its length and its bytes.                     *)
LEMMA ShortItem ==
    ASSUME NEW t \in Nat, NEW data \in Seq(Nat), Len(data) <= Fragment
    PROVE  Item(t, data) = <<t, Len(data)>> \o data
<1>1. PICK o, limit : o = Value(<<>>) /\ limit = 1000
  OBVIOUS
<1>2. PICK put : put = tlv_put(o, limit, t, data)
  OBVIOUS
<1>3. PICK w : w = <<t, Len(data)>> \o data
  OBVIOUS
<1>4. o \in PutType /\ o.ok /\ o.value = <<>>
  BY <1>1, <1>2, <1>3 DEF Value, PutType
<1>5. Item(t, data) = put.value
  BY <1>1, <1>2, <1>3 DEF Item
<1>6. put = PutItem(o, limit, t, data)
  <2>1. tlv_put(o, limit, t, data) = PutItem(o, limit, t, data)
    BY ONLY <1>4, ShortPut, t \in Nat, data \in Seq(Nat), Len(data) <= Fragment
  <2> QED BY ONLY <1>1, <1>2, <1>3, <2>1
<1>7. <<>> \o <<t, Len(data)>> \o data = <<t, Len(data)>> \o data
  OBVIOUS
<1>8. ~(Len(data) + 2 > limit - Len(o.value))
  <2>1. Len(o.value) = 0
    BY <1>4
  <2>2. PICK n \in Nat : n = Len(data)
    OBVIOUS
  <2>3. limit = 1000
    BY <1>1, <1>2, <1>3
  <2> QED BY ONLY <2>1, <2>2, <2>3, n \in Nat, Len(data) <= Fragment, FragmentAssumption
<1>9. put = IF ~o.ok \/ Len(data) + 2 > limit - Len(o.value) THEN [ok |-> FALSE, value |-> <<>>]
            ELSE [ok |-> TRUE, value |-> o.value \o <<t, Len(data)>> \o data]
  BY <1>6 DEF PutItem, NoValue, Value
<1>10. put = [ok |-> TRUE, value |-> w]
  <2>1. put = [ok |-> TRUE, value |-> o.value \o <<t, Len(data)>> \o data]
    BY ONLY <1>4, <1>8, <1>9
  <2>2. o.value \o <<t, Len(data)>> \o data = w
    <3>1. o.value = <<>> /\ w = <<t, Len(data)>> \o data
      BY <1>1, <1>2, <1>3, <1>4
    <3>2. PICK x : x = o.value
      OBVIOUS
    <3>3. x = <<>>
      BY <3>1, <3>2
    <3> QED BY ONLY <1>7, <3>1, <3>2, <3>3
  <2> QED BY ONLY <2>1, <2>2
<1>11. put.value = w
  BY ONLY <1>10
<1> QED BY <1>1, <1>2, <1>3, <1>5, <1>11

(* What the loop has found once it has read such an item.                  *)
Taken(type, t, data, v) == IF Item(t, data) = <<>> THEN v ELSE Gained(type, t, data, v)

(* An item within a message is read, whatever stands around it.            *)
LEMMA ReadItem ==
    ASSUME NEW in \in Seq(Nat), NEW type, NEW capacity, tlv_get(in, type, capacity).ok,
           NEW p \in Nat, NEW v, At(in, type, capacity, p, v),
           NEW t \in Nat, NEW data \in Seq(Nat), NEW item, item = Item(t, data),
           Carries(in, p, item, 0)
    PROVE  At(in, type, capacity, p + Len(item), Taken(type, t, data, v))
<1>1. PICK limit, put : limit = 1000 /\ put = tlv_put(Value(<<>>), limit, t, data)
  OBVIOUS
<1>2. PICK out : out = Value(<<>>)
  OBVIOUS
<1>3. out \in PutType /\ Len(out.value) = 0
  BY <1>2 DEF Value, PutType
<1>4. put.value = item /\ item \in Seq(Nat) /\ (~put.ok => item = <<>>)
  <2>1. ItemPut(t, data, put)
    BY ONLY <1>1, ItemPutIs, t \in Nat, data \in Seq(Nat)
  <2> QED BY ONLY <2>1, item = Item(t, data) DEF ItemPut
<1>5. CASE item = <<>>
  <2>1. p + Len(item) = p
    BY <1>5
  <2> QED BY <1>5, <2>1 DEF Taken
<1>6. CASE item # <<>>
  <2>1. put.ok
    BY <1>4, <1>6
  <2>2. Carries(in, p, put.value, Len(out.value))
    BY <1>3, <1>4
  <2>3. put = tlv_put(out, limit, t, data)
    BY <1>1, <1>2
  <2>4. At(in, type, capacity, p + (Len(put.value) - Len(out.value)), Gained(type, t, data, v))
    BY ONLY <1>3, <2>1, <2>2, <2>3, ValueRead, in \in Seq(Nat), tlv_get(in, type, capacity).ok,
            p \in Nat, At(in, type, capacity, p, v), t \in Nat, data \in Seq(Nat)
  <2>5. Len(put.value) - Len(out.value) = Len(item)
    BY <1>3, <1>4
  <2> QED BY <1>6, <2>4, <2>5 DEF Taken
<1> QED BY <1>5, <1>6

(* Where the parts of a message are.                                       *)
LEMMA TwoParts ==
    ASSUME NEW a \in Seq(Nat), NEW b \in Seq(Nat)
    PROVE  /\ a \o b \in Seq(Nat) /\ Len(a \o b) = Len(a) + Len(b)
           /\ Carries(a \o b, 0, a, 0) /\ Carries(a \o b, Len(a), b, 0)
<1>1. /\ a \o b \in Seq(Nat) /\ Len(a \o b) = Len(a) + Len(b)
      /\ \A i \in 1 .. Len(a) : (a \o b)[i] = a[i]
      /\ \A i \in 1 .. Len(b) : (a \o b)[Len(a) + i] = b[i]
  OBVIOUS
<1>2. \A i \in 1 .. Len(a) : 0 + (i - 0) = i
  OBVIOUS
<1>3. \A i \in 1 .. Len(b) : i - 0 = i
  OBVIOUS
<1>4. 0 + (Len(a) - 0) = Len(a) /\ Len(a) <= Len(a) + Len(b)
        /\ Len(a) + (Len(b) - 0) = Len(a) + Len(b)
  OBVIOUS
<1> QED BY ONLY <1>1, <1>2, <1>3, <1>4 DEF Carries

(* A message keeps its parts when it becomes longer.                       *)
LEMMA StillCarries ==
    ASSUME NEW a \in Seq(Nat), NEW b \in Seq(Nat), NEW p \in Nat, NEW c \in Seq(Nat),
           Carries(a, p, c, 0)
    PROVE  Carries(a \o b, p, c, 0)
<1>1. /\ a \o b \in Seq(Nat) /\ Len(a \o b) = Len(a) + Len(b)
      /\ \A i \in 1 .. Len(a) : (a \o b)[i] = a[i]
  OBVIOUS
<1>2. p + (Len(c) - 0) <= Len(a) /\ \A i \in 1 .. Len(c) : i > 0 => a[p + (i - 0)] = c[i]
  BY DEF Carries
<1>3. \A i \in 1 .. Len(c) : p + (i - 0) \in 1 .. Len(a)
  BY <1>2
<1>4. p + (Len(c) - 0) <= Len(a) + Len(b)
  BY <1>2
<1> QED BY ONLY <1>1, <1>2, <1>3, <1>4 DEF Carries

(* A longer beginning.                                                     *)
LEMMA BeginsOn ==
    ASSUME NEW a \in Seq(Nat), NEW b \in Seq(Nat), NEW c \in Seq(Nat), Begins(a, b), Begins(b, c)
    PROVE  Begins(a, c)
<1>1. PICK l \in Nat, m \in Nat, n \in Nat : l = Len(a) /\ m = Len(b) /\ n = Len(c)
  OBVIOUS
<1>2. l <= m /\ m <= n /\ (\A i \in 1 .. l : b[i] = a[i]) /\ \A i \in 1 .. m : c[i] = b[i]
  BY <1>1 DEF Begins
<1>3. l <= n /\ \A i \in 1 .. l : i \in 1 .. m
  BY <1>2
<1> QED BY <1>1, <1>2, <1>3 DEF Begins

(* A sequence begins itself.                                               *)
LEMMA BeginsItself ==
    ASSUME NEW a \in Seq(Nat)
    PROVE  Begins(a, a)
<1>1. Len(a) \in Nat
  OBVIOUS
<1>2. Len(a) <= Len(a)
  BY <1>1
<1> QED BY <1>2 DEF Begins

(* The loop reads a value that the message in was written with.            *)
LEMMA PutRead ==
    ASSUME NEW in \in Seq(Nat), NEW type, NEW capacity, tlv_get(in, type, capacity).ok,
           NEW out \in PutType, NEW v, At(in, type, capacity, Len(out.value), v),
           NEW t \in Nat, NEW data \in Seq(Nat),
           NEW put, put = Put(out, t, data), put.ok, Begins(put.value, in)
    PROVE  At(in, type, capacity, Len(put.value), Gained(type, t, data, v))
<1>1. PICK limit : limit = ResponseSize
  OBVIOUS
<1>2. put = tlv_put(out, limit, t, data)
  BY <1>1 DEF Put
<1>3. put \in PutType /\ Begins(out.value, put.value)
  BY ONLY <1>2, PutIs, out \in PutType, t \in Nat, data \in Seq(Nat), put.ok
<1>4. PICK a \in Seq(Nat), z \in Seq(Nat) : a = out.value /\ z = put.value
  BY <1>3 DEF PutType
<1>5. PICK n \in Nat, m \in Nat, l \in Nat : n = Len(a) /\ m = Len(z) /\ l = Len(in)
  BY <1>4
<1>6. /\ n <= m /\ m <= l /\ \A i \in 1 .. m : in[i] = z[i]
      /\ \A i \in 1 .. m : i > n => n + (i - n) = i
  BY <1>3, <1>4, <1>5 DEF Begins
<1>7. n + (m - n) = m
  OBVIOUS
<1>8. Carries(in, n, z, n)
  BY ONLY <1>5, <1>6, <1>7 DEF Carries
<1>9. At(in, type, capacity, n, v) /\ Carries(in, n, put.value, Len(out.value))
  BY <1>4, <1>5, <1>8
<1>10. At(in, type, capacity, n + (Len(put.value) - Len(out.value)), Gained(type, t, data, v))
  BY ONLY <1>2, <1>9, ValueRead, in \in Seq(Nat), tlv_get(in, type, capacity).ok, n \in Nat,
          out \in PutType, t \in Nat, data \in Seq(Nat), put.ok
<1> QED BY <1>4, <1>5, <1>7, <1>10

(* What Put returns begins with what it was given.                         *)
LEMMA PutMore ==
    ASSUME NEW out \in PutType, NEW t \in Nat, NEW data \in Seq(Nat), NEW put,
           put = Put(out, t, data)
    PROVE  /\ put \in PutType
           /\ put.ok => out.ok /\ Begins(out.value, put.value)
           /\ ~put.ok => put.value = <<>>
<1>1. PICK limit : limit = ResponseSize
  OBVIOUS
<1>2. put = tlv_put(out, limit, t, data)
  BY <1>1 DEF Put
<1>3. /\ put \in PutType
      /\ put.ok => out.ok /\ Begins(out.value, put.value)
      /\ ~put.ok => put = NoValue
  BY ONLY <1>2, PutIs, out \in PutType, t \in Nat, data \in Seq(Nat)
<1> QED BY <1>3 DEF NoValue

(* A message is bytes, and empty when it could not be written.             *)
LEMMA MessageTyped ==
    ASSUME NEW s \in Nat
    PROVE  Message(s) \in PutType /\ (~Message(s).ok => Message(s).value = <<>>)
<1>1. PICK out, t, data, put : /\ out = Value(<<>>) /\ t = 6 /\ data = <<s>>
                               /\ put = Put(out, t, data)
  OBVIOUS
<1>2. out \in PutType /\ t \in Nat /\ data \in Seq(Nat)
  BY <1>1 DEF Value, PutType
<1>3. put = Message(s)
  BY <1>1 DEF Message
<1>4. put \in PutType /\ (~put.ok => put.value = <<>>)
  <2>1. put = Put(out, t, data)
    BY <1>1
  <2> QED BY ONLY <1>2, <2>1, PutMore
<1> QED BY <1>3, <1>4

(* How much of a message that begins with m is read, and what is found.    *)
MessageRead(in, type, capacity, m, s) ==
    At(in, type, capacity, Len(m.value), Gained(type, 6, <<s>>, NoValue))

(* The state is read first.                                                *)
LEMMA MessageIs ==
    ASSUME NEW in \in Seq(Nat), NEW type, NEW capacity, tlv_get(in, type, capacity).ok,
           NEW s \in Nat, NEW m, m = Message(s), m.ok, Begins(m.value, in)
    PROVE  MessageRead(in, type, capacity, m, s)
<1>1. PICK out, t, data : out = Value(<<>>) /\ t = 6 /\ data = <<s>>
  OBVIOUS
<1>2. out \in PutType /\ Len(out.value) = 0 /\ t \in Nat /\ data \in Seq(Nat)
  BY <1>1 DEF Value, PutType
<1>3. m = Put(out, t, data)
  BY <1>1 DEF Message
<1>4. At(in, type, capacity, Len(out.value), NoValue)
  <2>1. At(in, type, capacity, 0, NoValue)
    BY AtFirst
  <2> QED BY <1>2, <2>1
<1>5. At(in, type, capacity, Len(m.value), Gained(type, t, data, NoValue))
  BY ONLY <1>2, <1>3, <1>4, PutRead, in \in Seq(Nat), tlv_get(in, type, capacity).ok, m.ok,
          Begins(m.value, in)
<1> QED BY <1>1, <1>5 DEF MessageRead

(* What is found in an item that is read first.                            *)
LEMMA GainedFirst ==
    ASSUME NEW type, NEW t, NEW data \in Seq(Nat)
    PROVE  Gained(type, t, data, NoValue) = IF t = type THEN Value(data) ELSE NoValue
<1>1. <<>> \o data = data
  OBVIOUS
<1>2. NoValue.value = <<>>
  BY DEF NoValue
<1> QED BY <1>1, <1>2 DEF Gained

(* The first byte of the number of some bytes, and its hashes.             *)
LEMMA MinimalIs ==
    ASSUME NEW a \in Seq(Nat)
    PROVE  minimal(a) \in Seq(Nat) /\ minimal(a)[1] \in Nat
<1> DEFINE nonzero == {i \in DOMAIN a : a[i] # 0}
<1>1. CASE nonzero = {}
  <2>1. minimal(a) = <<0>>
    BY <1>1 DEF minimal
  <2>2. <<0>> \in Seq(Nat) /\ <<0>>[1] = 0
    OBVIOUS
  <2> QED BY <2>1, <2>2
<1>2. CASE nonzero # {}
  <2>1. nonzero \subseteq Nat /\ nonzero \subseteq 1 .. Len(a)
    OBVIOUS
  <2>2. PICK k \in nonzero : \A m \in nonzero : ~(m < k)
    BY <1>2, <2>1, Least
  <2>3. \A j \in nonzero : k <= j
    BY <2>1, <2>2
  <2>4. PICK f : f = CHOOSE i \in nonzero : \A j \in nonzero : i <= j
    OBVIOUS
  <2>5. f \in nonzero
    BY <2>3, <2>4
  <2>6. minimal(a) = SubSeq(a, f, Len(a))
    BY <1>2, <2>4 DEF minimal
  <2>7. f \in 1 .. Len(a)
    BY <2>1, <2>5
  <2>8. SubSeq(a, f, Len(a)) \in Seq(Nat) /\ SubSeq(a, f, Len(a))[1] = a[f]
    BY ONLY <2>7, a \in Seq(Nat)
  <2>9. a[f] \in Nat
    BY <2>7
  <2> QED BY <2>6, <2>8, <2>9
<1> QED BY <1>1, <1>2

(* The bytes of a hash: a tag, an exchange and then only the same byte.    *)
HashBytes(h, tag, e, x, size) ==
    /\ h \in Seq(Nat) /\ Len(h) = size /\ h[1] = tag /\ h[2] = e
    /\ \A i \in 3 .. size : h[i] = x
    /\ size \in Nat /\ 5 <= size /\ size <= Fragment /\ Fragment \in Nat

(* A hash is made of bytes like these.                                     *)
LEMMA HashIs ==
    ASSUME NEW tag \in Nat, NEW e \in Nat, NEW a, NEW x \in Nat, x = a[1],
           NEW h, h = Hash(tag, e, a), NEW size, size = ProofSize
    PROVE  HashBytes(h, tag, e, x, size)
<1>1. size \in Nat /\ 5 <= size /\ size <= Fragment /\ Fragment \in Nat
  BY PairingAssumption, FragmentAssumption
<1>2. h = [i \in 1 .. size |-> IF i = 1 THEN tag ELSE IF i = 2 THEN e ELSE x]
  BY DEF Hash
<1>3. h \in [1 .. size -> Nat]
  BY <1>2
<1>4. h \in Seq(Nat) /\ Len(h) = size
  BY <1>1, <1>3
<1>5. h[1] = tag /\ h[2] = e /\ \A i \in 3 .. size : h[i] = x
  <2>1. 1 \in 1 .. size /\ 2 \in 1 .. size
        /\ \A i \in 3 .. size : i \in 1 .. size /\ i # 1 /\ i # 2
    BY <1>1
  <2> QED BY <1>2, <2>1
<1> QED BY <1>1, <1>4, <1>5 DEF HashBytes

(* A hash shows what it is made of.                                        *)
LEMMA SameHash ==
    ASSUME NEW tag \in Nat, NEW e \in Nat, NEW a, a[1] \in Nat,
           NEW d \in Nat, NEW b, b[1] \in Nat, Hash(tag, e, a) = Hash(tag, d, b)
    PROVE  e = d /\ a[1] = b[1]
<1>1. PICK h, x, y : h = Hash(tag, e, a) /\ h = Hash(tag, d, b) /\ x = a[1] /\ y = b[1]
  OBVIOUS
<1>2. h = [i \in 1 .. ProofSize |-> IF i = 1 THEN tag ELSE IF i = 2 THEN e ELSE x]
  BY <1>1 DEF Hash
<1>3. h = [i \in 1 .. ProofSize |-> IF i = 1 THEN tag ELSE IF i = 2 THEN d ELSE y]
  BY <1>1 DEF Hash
<1>4. 2 \in 1 .. ProofSize /\ 3 \in 1 .. ProofSize
  BY PairingAssumption
<1>5. h[2] = e /\ h[3] = x
  BY ONLY <1>2, <1>4
<1>6. h[2] = d /\ h[3] = y
  BY ONLY <1>3, <1>4
<1> QED BY <1>1, <1>5, <1>6

(* What the sender hears: an M2 offers an exchange, an M4 answers, an      *)
(* error does neither.                                                     *)
LEMMA M2Read ==
    ASSUME NEW e \in Nat, NEW in, in = M2(e).value, M2(e).ok
    PROVE  /\ ~tlv_get(in, 4, ProofSize).ok
           /\ tlv_get(in, 3, PublicSize).ok => tlv_get(in, 3, PublicSize).value[1] \in Nat
<1>1. PICK s, t, u, data, key : s = 2 /\ t = 2 /\ u = 3 /\ data = <<e>> /\ key = PublicKey(e)
  OBVIOUS
<1>2. s \in Nat /\ t \in Nat /\ u \in Nat /\ data \in Seq(Nat) /\ key \in Seq(Nat) /\ key[1] = e
  <2>1. PublicSize \in Nat /\ PublicSize > 0
    BY PairingAssumption
  <2>2. key = [i \in 1 .. PublicSize |-> e]
    BY <1>1 DEF PublicKey
  <2>3. key \in [1 .. PublicSize -> Nat]
    BY <2>2
  <2> QED BY <1>1, <2>1, <2>2, <2>3
<1>3. PICK m, o, put : m = Message(s) /\ o = Put(m, t, data) /\ put = Put(o, u, key)
  OBVIOUS
<1>4. put = M2(e)
  BY <1>1, <1>3 DEF M2
<1>5. m \in PutType
  BY <1>2, <1>3, MessageTyped
<1>6. o \in PutType /\ (o.ok => m.ok /\ Begins(m.value, o.value))
  BY ONLY <1>2, <1>3, <1>5, PutMore
<1>7. put \in PutType /\ (put.ok => o.ok /\ Begins(o.value, put.value))
  BY ONLY <1>2, <1>3, <1>6, PutMore
<1>8. in \in Seq(Nat) /\ in = put.value /\ put.ok /\ o.ok /\ m.ok
  BY <1>4, <1>6, <1>7 DEF PutType
<1>9. Begins(m.value, in) /\ Begins(o.value, in) /\ Begins(put.value, in)
  <2>1. m.value \in Seq(Nat) /\ o.value \in Seq(Nat)
    BY <1>5, <1>6 DEF PutType
  <2>2. Begins(m.value, o.value) /\ Begins(o.value, in)
    BY <1>6, <1>7, <1>8
  <2> QED BY <1>8, <2>1, <2>2, BeginsOn, BeginsItself
<1>10. ASSUME NEW type, NEW capacity, tlv_get(in, type, capacity).ok
       PROVE  At(in, type, capacity, Len(put.value),
                 Gained(type, u, key, Gained(type, t, data, Gained(type, 6, <<s>>, NoValue))))
  <2>1. MessageRead(in, type, capacity, m, s)
    BY ONLY <1>2, <1>3, <1>8, <1>9, <1>10, MessageIs
  <2>2. PICK v : v = Gained(type, 6, <<s>>, NoValue)
    OBVIOUS
  <2>3. At(in, type, capacity, Len(m.value), v)
    BY <2>1, <2>2 DEF MessageRead
  <2>4. PICK w : w = Gained(type, t, data, v)
    OBVIOUS
  <2>5. At(in, type, capacity, Len(o.value), w)
    BY ONLY <1>2, <1>3, <1>5, <1>8, <1>9, <1>10, <2>3, <2>4, PutRead
  <2>6. At(in, type, capacity, Len(put.value), Gained(type, u, key, w))
    BY ONLY <1>2, <1>3, <1>6, <1>8, <1>9, <1>10, <2>5, PutRead
  <2> QED BY <2>2, <2>4, <2>6
<1>11. \A type : type \in {3, 4} => Gained(type, t, data, Gained(type, 6, <<s>>, NoValue)) = NoValue
  BY <1>1 DEF Gained
<1>12. ASSUME tlv_get(in, 4, ProofSize).ok PROVE FALSE
  <2>1. At(in, 4, ProofSize, Len(in), NoValue)
    <3>1. Gained(4, u, key, NoValue) = NoValue
      BY <1>1 DEF Gained
    <3> QED BY <1>8, <1>10, <1>11, <1>12, <3>1
  <2>2. NoValue.ok
    BY <1>8, <1>12, <2>1, AtLast
  <2> QED BY <2>2 DEF NoValue
<1>13. ASSUME tlv_get(in, 3, PublicSize).ok PROVE tlv_get(in, 3, PublicSize).value[1] \in Nat
  <2>1. At(in, 3, PublicSize, Len(in), Value(key))
    <3>1. Gained(3, u, key, NoValue) = Value(key)
      BY <1>1, <1>2, GainedFirst
    <3> QED BY <1>8, <1>10, <1>11, <1>13, <3>1
  <2>2. tlv_get(in, 3, PublicSize).value = Value(key).value
    BY <1>8, <1>13, <2>1, AtLast
  <2> QED BY <1>2, <2>2 DEF Value
<1> QED BY <1>12, <1>13

(* An answer or an error: the second value of the message.                 *)
SecondRead(in, type, capacity, t, data) ==
    /\ t # type => ~tlv_get(in, type, capacity).ok
    /\ t = type /\ tlv_get(in, type, capacity).ok => tlv_get(in, type, capacity).value = data

(* It is all that is read, besides the state.                              *)
LEMMA SecondIs ==
    ASSUME NEW s \in Nat, NEW t \in Nat, NEW data \in Seq(Nat),
           NEW put, put = Put(Message(s), t, data), put.ok,
           NEW type, type # 6, NEW capacity
    PROVE  SecondRead(put.value, type, capacity, t, data)
<1>1. PICK m : m = Message(s)
  OBVIOUS
<1>2. m \in PutType /\ put = Put(m, t, data)
  BY <1>1, MessageTyped
<1>3. put \in PutType /\ m.ok /\ Begins(m.value, put.value)
  BY ONLY <1>2, PutMore, t \in Nat, data \in Seq(Nat), put.ok
<1>4. PICK in \in Seq(Nat) : in = put.value
  BY <1>3 DEF PutType
<1>5. Begins(m.value, in) /\ Begins(put.value, in)
  BY <1>3, <1>4, BeginsItself
<1>6. ASSUME tlv_get(in, type, capacity).ok
      PROVE  At(in, type, capacity, Len(in), Gained(type, t, data, NoValue))
  <2>1. MessageRead(in, type, capacity, m, s)
    BY ONLY <1>1, <1>3, <1>5, <1>6, MessageIs, s \in Nat, in \in Seq(Nat)
  <2>2. At(in, type, capacity, Len(m.value), NoValue)
    BY <2>1 DEF MessageRead, Gained
  <2>3. At(in, type, capacity, Len(put.value), Gained(type, t, data, NoValue))
    BY ONLY <1>2, <1>5, <1>6, <2>2, PutRead, t \in Nat, data \in Seq(Nat), put.ok, in \in Seq(Nat)
  <2> QED BY <1>4, <2>3
<1>7. ASSUME tlv_get(in, type, capacity).ok
      PROVE  t = type /\ tlv_get(in, type, capacity).value = data
  <2>1. PICK v : v = Gained(type, t, data, NoValue) /\ At(in, type, capacity, Len(in), v)
    BY <1>6, <1>7
  <2>2. v.ok /\ tlv_get(in, type, capacity).value = v.value
    BY ONLY <1>7, <2>1, AtLast, in \in Seq(Nat)
  <2>3. v = IF t = type THEN Value(data) ELSE NoValue
    BY <2>1, GainedFirst
  <2> QED BY <2>2, <2>3 DEF Value, NoValue
<1> QED BY <1>4, <1>7 DEF SecondRead

(* An M4 offers no public value and gives the answer it was made with.     *)
LEMMA M4Read ==
    ASSUME NEW e \in Nat, NEW a, a[1] \in Nat, M4(e, a).ok
    PROVE  /\ ~tlv_get(M4(e, a).value, 3, PublicSize).ok
           /\ tlv_get(M4(e, a).value, 4, ProofSize).ok =>
                 tlv_get(M4(e, a).value, 4, ProofSize).value = Answer(e, a)
<1>1. PICK s, t, data, put : s = 4 /\ t = 4 /\ data = Answer(e, a) /\ put = Put(Message(s), t, data)
  OBVIOUS
<1>2. s \in Nat /\ t \in Nat /\ data \in Seq(Nat)
  <2>1. PICK tag \in Nat, x \in Nat : tag = 2 /\ x = a[1]
    OBVIOUS
  <2>2. data = Hash(tag, e, a)
    BY <1>1, <2>1 DEF Answer
  <2>3. PICK size : size = ProofSize
    OBVIOUS
  <2>4. HashBytes(data, tag, e, x, size)
    BY <2>1, <2>2, <2>3, HashIs
  <2>5. data \in Seq(Nat)
    BY ONLY <2>4 DEF HashBytes
  <2> QED BY <1>1, <2>5
<1>3. put = M4(e, a)
  BY <1>1 DEF M4
<1>4. ASSUME NEW type, type # 6, NEW capacity PROVE SecondRead(put.value, type, capacity, t, data)
  <2>1. put = Put(Message(s), t, data) /\ put.ok
    BY <1>1, <1>3
  <2> QED BY ONLY <1>2, <1>4, <2>1, SecondIs
<1>5. SecondRead(put.value, 3, PublicSize, t, data) /\ SecondRead(put.value, 4, ProofSize, t, data)
  BY <1>4
<1> QED BY <1>1, <1>3, <1>5 DEF SecondRead

(* An error offers nothing and answers nothing.                            *)
LEMMA ErrorRead ==
    ASSUME NEW s, Error(s).value # <<>>
    PROVE  /\ ~tlv_get(Error(s).value, 3, PublicSize).ok
           /\ ~tlv_get(Error(s).value, 4, ProofSize).ok
<1>1. PICK r, t, data, put : /\ r = (IF s = 3 THEN 4 ELSE 2) /\ t = 7 /\ data = <<2>>
                             /\ put = Put(Message(r), t, data)
  OBVIOUS
<1>2. r \in Nat /\ t \in Nat /\ data \in Seq(Nat) /\ t # 3 /\ t # 4
  BY <1>1
<1>3. put = Error(s)
  BY <1>1 DEF Error
<1>4. put.ok
  <2>1. PICK m : m = Message(r) /\ m \in PutType
    BY <1>2, MessageTyped
  <2>2. put = Put(m, t, data)
    BY <1>1, <2>1
  <2>3. ~put.ok => put.value = <<>>
    BY ONLY <1>2, <2>1, <2>2, PutMore
  <2> QED BY <1>3, <2>3
<1>5. ASSUME NEW type, type # 6, NEW capacity PROVE SecondRead(put.value, type, capacity, t, data)
  <2>1. put = Put(Message(r), t, data)
    BY <1>1
  <2> QED BY ONLY <1>2, <1>4, <1>5, <2>1, SecondIs
<1>6. SecondRead(put.value, 3, PublicSize, t, data) /\ SecondRead(put.value, 4, ProofSize, t, data)
  BY <1>5
<1> QED BY <1>2, <1>3, <1>6 DEF SecondRead

(* A value that is found in bytes of B is made of them, and so is its type.*)
LEMMA ScanWithin ==
    ASSUME NEW in \in Seq(Nat), NEW type, NEW capacity, NEW p \in Nat, NEW B \in SUBSET Nat,
           \A i \in 1 .. Len(in) : i > p => in[i] \in B,
           NEW s \in ScanType, p <= s.pos, s.pos <= Len(in),
           s.out \in Seq(B), s.found => type \in B,
           NEW r, r = Scan(in, type, capacity, s)
    PROVE  p <= r.pos /\ r.out \in Seq(B) /\ (r.found => type \in B)
<1> DEFINE left == Len(in) - s.pos
           t == in[s.pos + 1]
           n == in[s.pos + 2]
           bad == \/ left < 2 \/ n > left - 2
                  \/ t = type /\ ((s.found /\ ~Continues(s, type)) \/ n > capacity - Len(s.out))
           after == [s EXCEPT !.pos = @ + 2 + n,
                   !.out = IF t = type THEN @ \o SubSeq(in, s.pos + 3, s.pos + 2 + n) ELSE @,
                   !.found = @ \/ t = type, !.previous = t, !.size = n]
<1>1. r = IF ~s.ok \/ left = 0 THEN s ELSE IF bad THEN [s EXCEPT !.ok = FALSE] ELSE after
  BY DEF Scan
<1>2. /\ [s EXCEPT !.ok = FALSE].pos = s.pos /\ [s EXCEPT !.ok = FALSE].out = s.out
      /\ [s EXCEPT !.ok = FALSE].found = s.found
  BY DEF ScanType
<1>3. ASSUME left # 0, ~bad
      PROVE  p <= after.pos /\ after.out \in Seq(B) /\ (after.found => type \in B)
  <2>1. s.pos \in Nat /\ s.found \in BOOLEAN /\ left >= 2 /\ ~(n > left - 2)
    BY <1>3 DEF ScanType
  <2>2. PICK q \in Nat, l \in Nat : q = s.pos /\ l = Len(in)
    BY <2>1
  <2>3. q + 1 \in 1 .. Len(in) /\ q + 2 \in 1 .. Len(in) /\ q + 1 > p
    <3>1. l - q >= 2 /\ p <= q
      BY <2>1, <2>2
    <3>2. q + 1 \in 1 .. l /\ q + 2 \in 1 .. l /\ q + 1 > p
      BY ONLY <3>1, l \in Nat, q \in Nat, p \in Nat
    <3> QED BY <2>2, <3>2
  <2>4. t \in B /\ n \in Nat
    BY <2>2, <2>3
  <2>5. PICK m \in Nat, x \in B : m = n /\ x = t
    BY <2>4
  <2>6. q + 2 + m <= l /\ p <= q
    <3>1. ~(m > (l - q) - 2)
      BY <2>1, <2>2, <2>5
    <3>2. p <= q
      BY <2>2
    <3> QED BY ONLY <3>1, <3>2, l \in Nat, q \in Nat, m \in Nat
  <2>7. SubSeq(in, q + 3, q + 2 + m) \in Seq(B)
    <3>1. \A i \in q + 3 .. q + 2 + m : in[i] \in B
      <4> SUFFICES ASSUME NEW i \in q + 3 .. q + 2 + m PROVE in[i] \in B
        OBVIOUS
      <4>1. i \in 1 .. l /\ i > p
        BY ONLY <2>6, i \in q + 3 .. q + 2 + m, p \in Nat, q \in Nat, m \in Nat, l \in Nat
      <4> QED BY <2>2, <4>1
    <3>2. PICK a \in Nat, b \in Nat : a = q + 3 /\ b = q + 2 + m /\ b <= Len(in) /\ a >= 1
      BY ONLY <2>2, <2>6, q \in Nat, m \in Nat
    <3>3. \A i \in a .. b : in[i] \in B
      BY ONLY <3>1, <3>2
    <3>4. SubSeq(in, a, b) \in Seq(B)
      BY ONLY <3>2, <3>3, in \in Seq(Nat), a \in Nat, b \in Nat
    <3> QED BY ONLY <3>2, <3>4
  <2>8. s.out \o SubSeq(in, q + 3, q + 2 + m) \in Seq(B)
    BY ONLY <2>7, s.out \in Seq(B)
  <2>9. after = [s EXCEPT !.pos = q + 2 + m,
                   !.out = IF x = type THEN s.out \o SubSeq(in, q + 3, q + 2 + m) ELSE s.out,
                   !.found = s.found \/ x = type, !.previous = x, !.size = m]
    BY <2>2, <2>5 DEF ScanType
  <2> HIDE DEF after, t, n, bad, left
  <2>10. /\ after.pos = q + 2 + m
         /\ after.out = IF x = type THEN s.out \o SubSeq(in, q + 3, q + 2 + m) ELSE s.out
         /\ after.found <=> (s.found \/ x = type)
    BY <2>9 DEF ScanType
  <2>11. p <= q + 2 + m
    BY <2>6
  <2> QED BY <2>5, <2>8, <2>10, <2>11
<1> HIDE DEF after, bad, left
<1> QED BY <1>1, <1>2, <1>3

(* A value found behind a place is made of the bytes behind it.            *)
LEMMA ValuesFrom ==
    ASSUME NEW in \in Seq(Nat), NEW type, NEW capacity, tlv_get(in, type, capacity).ok,
           NEW p \in Nat, At(in, type, capacity, p, NoValue), NEW B \in SUBSET Nat,
           \A i \in 1 .. Len(in) : i > p => in[i] \in B
    PROVE  type \in B /\ tlv_get(in, type, capacity).value \in Seq(B)
<1>1. PICK s : /\ Reached(in, type, capacity, s) /\ s.pos = p
               /\ NoValue = IF s.found THEN Value(s.out) ELSE NoValue
               /\ ~s.found => s.out = <<>>
  BY DEF At
<1>2. ~s.found
  BY <1>1 DEF NoValue, Value
<1> DEFINE Good == {r \in ScanType : p <= r.pos /\ r.out \in Seq(B) /\ (r.found => type \in B)}
<1>3. s \in Good
  <2>1. s \in ScanType
    BY <1>1, ReachedOk DEF Within
  <2>2. <<>> \in Seq(B) /\ p <= p
    OBVIOUS
  <2> QED BY <1>1, <1>2, <2>1, <2>2
<1>4. \A r \in Within(in) : r \in Good => Scan(in, type, capacity, r) \in Good
  <2> SUFFICES ASSUME NEW r \in Within(in), r \in Good PROVE Scan(in, type, capacity, r) \in Good
    OBVIOUS
  <2>1. r \in ScanType /\ r.pos <= Len(in)
    BY DEF Within
  <2>2. p <= r.pos /\ r.out \in Seq(B) /\ (r.found => type \in B)
    OBVIOUS
  <2>3. PICK q : q = Scan(in, type, capacity, r)
    OBVIOUS
  <2>4. q \in ScanType
    BY <2>1, <2>3, ScanTyped
  <2>5. p <= q.pos /\ q.out \in Seq(B) /\ (q.found => type \in B)
    BY ONLY <2>1, <2>2, <2>3, ScanWithin, in \in Seq(Nat), p \in Nat, B \in SUBSET Nat,
            \A i \in 1 .. Len(in) : i > p => in[i] \in B
  <2> QED BY <2>3, <2>4, <2>5
<1>5. PICK f \in Within(in) : f \in Good /\ tlv_get(in, type, capacity) = Result(f)
  <2> HIDE DEF Good
  <2> QED BY <1>1, <1>3, <1>4, Onward
<1>6. f.ok /\ f.found
  BY <1>5 DEF Result
<1>7. tlv_get(in, type, capacity).value = f.out
  BY <1>5, <1>6 DEF Result
<1> QED BY <1>5, <1>6, <1>7

(* The bytes behind the first part of a message.                           *)
LEMMA BytesBehind ==
    ASSUME NEW B \in SUBSET Nat, NEW a \in Seq(Nat), NEW c \in Seq(B), NEW d \in Seq(B)
    PROVE  \A i \in 1 .. Len((a \o c) \o d) : i > Len(a) => ((a \o c) \o d)[i] \in B
<1> SUFFICES ASSUME NEW i \in 1 .. Len((a \o c) \o d), i > Len(a)
             PROVE  ((a \o c) \o d)[i] \in B
  OBVIOUS
<1>1. PICK k \in Nat, l \in Nat, m \in Nat : k = Len(a) /\ l = Len(c) /\ m = Len(d)
  OBVIOUS
<1>2. a \o c \in Seq(Nat) /\ Len(a \o c) = k + l
  <2>1. Len(c) \in Nat /\ (\A j \in 1 .. Len(c) : c[j] \in B) /\ c = [j \in 1 .. Len(c) |-> c[j]]
    OBVIOUS
  <2>2. c \in Seq(Nat)
    <3>1. \A j \in 1 .. Len(c) : c[j] \in Nat
      BY <2>1
    <3> QED BY ONLY <2>1, <3>1
  <2> QED BY ONLY <1>1, <2>2, a \in Seq(Nat)
<1>3. CASE i <= k + l
  <2>1. ((a \o c) \o d)[i] = (a \o c)[i]
    BY <1>2, <1>3
  <2>2. (a \o c)[i] = c[i - k] /\ i - k \in 1 .. l
    BY <1>1, <1>3
  <2> QED BY <1>1, <2>1, <2>2
<1>4. CASE i > k + l
  <2>1. ((a \o c) \o d)[i] = d[i - (k + l)] /\ i - (k + l) \in 1 .. m
    BY <1>1, <1>2, <1>4
  <2> QED BY <1>1, <2>1
<1> QED BY <1>3, <1>4

(* The bytes of one item.                                                  *)
LEMMA HeadedBy ==
    ASSUME NEW t \in Nat, NEW n \in Nat, NEW d \in Seq(Nat)
    PROVE  /\ <<t, n>> \o d \in Seq(Nat) /\ Len(<<t, n>> \o d) = 2 + Len(d)
           /\ (<<t, n>> \o d)[1] = t /\ (<<t, n>> \o d)[2] = n
           /\ \A i \in 1 .. Len(d) : (<<t, n>> \o d)[2 + i] = d[i]
OBVIOUS

(* The messages that start an exchange ask for nothing else.               *)
LEMMA StartsStart ==
    ASSUME NEW in \in Starts
    PROVE  in \in Seq(Nat) /\ tlv_get(in, 6, 1) # Value(<<3>>)
<1> DEFINE B == Nat \ {3}
<1>1. PICK state, method, flags, other, six, twice, five, one :
         /\ state = Item(6, <<1>>) /\ method = Item(0, <<0>>) /\ flags = Item(19, <<16>>)
         /\ other = Item(9, <<7, 7, 7>>) /\ six = Item(19, <<15>>) /\ one = Item(0, <<1>>)
         /\ twice = Item(6, <<1, 1>>) /\ five = Item(6, <<5>>)
  OBVIOUS
<1>2. Fragment \in Nat /\ Fragment >= 5
  BY FragmentAssumption, PairingAssumption
<1>3. /\ state \in Seq(B) /\ method \in Seq(B) /\ flags \in Seq(B) /\ six \in Seq(B)
      /\ one \in Seq(B) /\ twice \in Seq(B) /\ five \in Seq(B)
  <2>1. ASSUME NEW t \in B, NEW x \in B PROVE Item(t, <<x>>) \in Seq(B)
    <3>1. PICK d : d = <<x>>
      OBVIOUS
    <3>2. d \in Seq(Nat) /\ Len(d) = 1 /\ Len(d) <= Fragment
      BY <1>2, <3>1
    <3>3. Item(t, d) = <<t, Len(d)>> \o d
      BY <3>2, ShortItem
    <3>4. <<t, 1>> \o <<x>> \in Seq(B)
      OBVIOUS
    <3> QED BY <3>1, <3>2, <3>3, <3>4
  <2>2. twice \in Seq(B)
    <3>1. PICK d, t : d = <<1, 1>> /\ t = 6
      OBVIOUS
    <3>2. d \in Seq(Nat) /\ Len(d) = 2 /\ Len(d) <= Fragment /\ t \in Nat
      BY <1>2, <3>1
    <3>3. Item(t, d) = <<t, Len(d)>> \o d
      BY <3>2, ShortItem
    <3>4. <<6, 2>> \o <<1, 1>> \in Seq(B)
      OBVIOUS
    <3> QED BY <1>1, <3>1, <3>2, <3>3, <3>4
  <2>3. \A i \in {0, 1, 5, 6, 15, 16, 19} : i \in B
    OBVIOUS
  <2> HIDE DEF B
  <2> QED BY <1>1, <2>1, <2>2, <2>3
<1>4. other \in Seq(Nat)
  <2>1. <<7, 7, 7>> \in Seq(Nat)
    OBVIOUS
  <2>2. PICK nine, sevens : nine = 9 /\ sevens = <<7, 7, 7>>
    OBVIOUS
  <2>3. nine \in Nat /\ sevens \in Seq(Nat)
    BY ONLY <2>1, <2>2
  <2>4. Item(nine, sevens) \in Seq(Nat)
    BY ONLY <2>3, ItemTyped
  <2>5. other = Item(nine, sevens)
    BY <1>1, <2>2
  <2> QED BY ONLY <2>4, <2>5
<1>5. \A x : x \in Seq(B) => x \in Seq(Nat)
  OBVIOUS
<1>6. \A x \in Seq(B), y \in Seq(B) : x \o y \in Seq(B)
  <2> HIDE DEF B
  <2> QED OBVIOUS
<1>7. <<>> \in Seq(B) /\ SubSeq(flags, 1, 2) \in Seq(B)
  <2>1. Len(flags) = 3
    <3>1. PICK d \in Seq(Nat), t \in Nat : d = <<16>> /\ t = 19
      <4>1. <<16>> \in Seq(Nat) /\ 19 \in Nat
        OBVIOUS
      <4> QED BY <4>1
    <3>2. d \in Seq(Nat) /\ Len(d) = 1 /\ Len(d) <= Fragment /\ t \in Nat
      BY <1>2, <3>1
    <3>3. Item(t, d) = <<t, Len(d)>> \o d
      BY <3>2, ShortItem
    <3>4. Len(<<t, Len(d)>> \o d) = 3
      <4>1. PICK n \in Nat : n = Len(d) /\ n = 1
        BY ONLY <3>2
      <4>2. Len(<<t, n>> \o d) = 2 + Len(d)
        BY ONLY HeadedBy, d \in Seq(Nat), t \in Nat, n \in Nat
      <4> QED BY ONLY <4>1, <4>2
    <3> QED BY <1>1, <3>1, <3>3, <3>4
  <2> HIDE DEF B
  <2>2. flags[1] \in B /\ flags[2] \in B
    <3>1. 1 \in 1 .. Len(flags) /\ 2 \in 1 .. Len(flags) /\ flags \in Seq(B)
      BY <1>3, <2>1
    <3> QED BY ONLY <3>1
  <2>3. \A i \in 1 .. 2 : flags[i] \in B
    BY <2>2
  <2>4. SubSeq(flags, 1, 2) \in Seq(B)
    BY ONLY <1>3, <2>1, <2>3
  <2>5. <<>> \in Seq(B)
    OBVIOUS
  <2> QED BY <2>4, <2>5
<1>8. in \in Seq(B) \/ in = ((flags \o other) \o method) \o state
  <2>1. \/ in = (state \o method) \o flags \/ in = state \o method
        \/ in = (state \o method) \o six \/ in = (state \o one) \o flags
        \/ in = ((state \o state) \o method) \o flags \/ in = twice \/ in = five
        \/ in = (state \o method) \o SubSeq(flags, 1, 2) \/ in = <<>>
        \/ in = ((flags \o other) \o method) \o state
    BY <1>1 DEF Starts
  <2> HIDE DEF B
  <2>2. /\ state \o method \in Seq(B) /\ state \o one \in Seq(B) /\ state \o state \in Seq(B)
    BY ONLY <1>3, <1>6
  <2>3. (state \o state) \o method \in Seq(B)
    BY ONLY <1>3, <1>6, <2>2
  <2>4. /\ (state \o method) \o flags \in Seq(B) /\ (state \o method) \o six \in Seq(B)
        /\ (state \o one) \o flags \in Seq(B) /\ (state \o method) \o SubSeq(flags, 1, 2) \in Seq(B)
        /\ ((state \o state) \o method) \o flags \in Seq(B)
    BY ONLY <1>3, <1>6, <1>7, <2>2, <2>3
  <2> QED BY ONLY <1>3, <1>7, <2>1, <2>2, <2>4
<1>9. CASE in \in Seq(B)
  <2>1. in \in Seq(Nat)
    BY <1>5, <1>9
  <2>2. ASSUME tlv_get(in, 6, 1) = Value(<< 3 >>) PROVE FALSE
    <3>1. PICK type, capacity : type = 6 /\ capacity = 1
      OBVIOUS
    <3>2. tlv_get(in, type, capacity).ok /\ tlv_get(in, type, capacity).value = <<3>>
      BY <2>2, <3>1 DEF Value
    <3>3. At(in, type, capacity, 0, NoValue)
      BY <2>1, AtFirst
    <3>4. B \in SUBSET Nat /\ 0 \in Nat /\ \A i \in 1 .. Len(in) : i > 0 => in[i] \in B
      BY <1>9
    <3>5. tlv_get(in, type, capacity).value \in Seq(B)
      <4> HIDE DEF B
      <4>1. PICK p : p = 0
        OBVIOUS
      <4> QED BY ONLY <2>1, <3>2, <3>3, <3>4, <4>1, ValuesFrom
    <3>6. <<3>> \notin Seq(B)
      OBVIOUS
    <3> QED BY <3>2, <3>5, <3>6
  <2> QED BY <2>1, <2>2
<1>10. CASE in = ((flags \o other) \o method) \o state
  <2>1. PICK two : two = flags \o other
    OBVIOUS
  <2>2. flags \in Seq(Nat) /\ method \in Seq(Nat) /\ state \in Seq(Nat)
    BY <1>3, <1>5
  <2>3. /\ two \in Seq(Nat) /\ Len(two) = Len(flags) + Len(other)
        /\ Carries(two, 0, flags, 0) /\ Carries(two, Len(flags), other, 0)
    BY ONLY <1>4, <2>1, <2>2, TwoParts
  <2>4. two \o method \in Seq(Nat) /\ in = (two \o method) \o state /\ in \in Seq(Nat)
    BY ONLY <1>10, <2>1, <2>2, <2>3
  <2>5. Carries(in, 0, flags, 0) /\ Carries(in, Len(flags), other, 0)
    <3>1. Len(flags) \in Nat /\ 0 \in Nat
      BY <2>2
    <3>2. Carries(two \o method, 0, flags, 0) /\ Carries(two \o method, Len(flags), other, 0)
      BY ONLY <1>4, <2>2, <2>3, <3>1, StillCarries
    <3> QED BY ONLY <1>4, <2>2, <2>4, <3>1, <3>2, StillCarries
  <2>6. ASSUME tlv_get(in, 6, 1) = Value(<< 3 >>) PROVE FALSE
    <3>1. PICK type, capacity, t, data, u, seven :
             /\ type = 6 /\ capacity = 1 /\ t = 19 /\ data = <<16>> /\ u = 9 /\ seven = <<7, 7, 7>>
      OBVIOUS
    <3>2. tlv_get(in, type, capacity).ok /\ tlv_get(in, type, capacity).value = <<3>>
      BY <2>6, <3>1 DEF Value
    <3>3. At(in, type, capacity, 0, NoValue)
      BY <2>4, AtFirst
    <3>4. t \in Nat /\ u \in Nat /\ data \in Seq(Nat) /\ seven \in Seq(Nat) /\ 0 \in Nat
          /\ flags = Item(t, data) /\ other = Item(u, seven)
      BY <1>1, <3>1
    <3>5. At(in, type, capacity, 0 + Len(flags), Taken(type, t, data, NoValue))
      BY ONLY <2>4, <2>5, <3>2, <3>3, <3>4, ReadItem
    <3>6. Taken(type, t, data, NoValue) = NoValue /\ Taken(type, u, seven, NoValue) = NoValue
      BY <3>1 DEF Taken, Gained
    <3>7. Len(flags) \in Nat /\ 0 + Len(flags) = Len(flags)
      BY <2>2
    <3>8. At(in, type, capacity, Len(flags) + Len(other), NoValue)
      <4>1. At(in, type, capacity, Len(flags), NoValue)
        BY <3>5, <3>6, <3>7
      <4>2. At(in, type, capacity, Len(flags) + Len(other), Taken(type, u, seven, NoValue))
        BY ONLY <2>4, <2>5, <3>2, <3>4, <3>7, <4>1, ReadItem
      <4> QED BY <3>6, <4>2
    <3>9. B \in SUBSET Nat /\ Len(two) \in Nat
          /\ \A i \in 1 .. Len(in) : i > Len(two) => in[i] \in B
      <4>1. B \in SUBSET Nat /\ Len(two) \in Nat
        BY <2>3
      <4> HIDE DEF B
      <4> QED BY ONLY <1>3, <2>3, <2>4, <4>1, BytesBehind
    <3>10. tlv_get(in, type, capacity).value \in Seq(B)
      <4> HIDE DEF B
      <4>1. At(in, type, capacity, Len(two), NoValue)
        BY <2>3, <3>8
      <4> QED BY ONLY <2>4, <3>2, <3>9, <4>1, ValuesFrom
    <3>11. <<3>> \notin Seq(B)
      OBVIOUS
    <3> QED BY <3>2, <3>10, <3>11
  <2> QED BY <2>4, <2>6
<1> QED BY <1>8, <1>9, <1>10

(* The loop passes over an item of another type.                           *)
LEMMA ItemSkipped ==
    ASSUME NEW in \in Seq(Nat), NEW type, NEW capacity, tlv_get(in, type, capacity).ok,
           NEW p \in Nat, At(in, type, capacity, p, NoValue), p + 2 <= Len(in), in[p + 1] # type
    PROVE  /\ p + 2 + in[p + 2] <= Len(in)
           /\ At(in, type, capacity, p + 2 + in[p + 2], NoValue)
<1>1. PICK s : /\ Reached(in, type, capacity, s) /\ s.pos = p
               /\ NoValue = IF s.found THEN Value(s.out) ELSE NoValue
               /\ ~s.found => s.out = <<>>
  BY DEF At
<1>2. ~s.found /\ s.out = <<>>
  BY <1>1 DEF NoValue, Value
<1>3. p < Len(in)
  OBVIOUS
<1>4. p + 2 + in[p + 2] <= Len(in) /\ Reached(in, type, capacity, After(in, type, s))
  BY <1>1, <1>3, ReachedNext
<1>5. PICK r : r = After(in, type, s)
  OBVIOUS
<1>6. r.pos = p + 2 + in[p + 2] /\ ~r.found /\ r.out = <<>>
  BY <1>1, <1>2, <1>5 DEF After
<1> QED BY <1>4, <1>5, <1>6 DEF At

(* What is found in messages of two and of three items.                    *)
LEMMA TakenIs ==
    ASSUME NEW type, NEW t, NEW data \in Seq(Nat), NEW v
    PROVE  /\ t # type => Taken(type, t, data, v) = v
           /\ Taken(type, t, data, NoValue) \in {NoValue, Value(data)}
<1>1. Gained(type, t, data, NoValue) \in {NoValue, Value(data)}
  BY GainedFirst
<1>2. t # type => Gained(type, t, data, v) = v
  BY DEF Gained
<1> QED BY <1>1, <1>2 DEF Taken

(* What the loop has found behind two items.                               *)
LEMMA TwoItems ==
    ASSUME NEW t \in Nat, NEW c \in Seq(Nat), NEW u \in Nat, NEW d \in Seq(Nat),
           NEW x, x = Item(t, c), NEW y, y = Item(u, d),
           NEW z \in Seq(Nat), NEW in, in = (x \o y) \o z,
           NEW type, NEW capacity, tlv_get(in, type, capacity).ok
    PROVE  At(in, type, capacity, Len(x \o y), Taken(type, u, d, Taken(type, t, c, NoValue)))
<1>1. x \in Seq(Nat) /\ y \in Seq(Nat)
  BY ItemTyped
<1>2. PICK w : w = x \o y
  OBVIOUS
<1>3. /\ w \in Seq(Nat) /\ Len(w) = Len(x) + Len(y)
      /\ Carries(w, 0, x, 0) /\ Carries(w, Len(x), y, 0)
  BY ONLY <1>1, <1>2, TwoParts
<1>4. in \in Seq(Nat) /\ in = w \o z
  BY ONLY <1>2, <1>3, in = (x \o y) \o z, z \in Seq(Nat)
<1>5. Len(x) \in Nat /\ 0 \in Nat /\ 0 + Len(x) = Len(x)
  BY <1>1
<1>6. Carries(in, 0, x, 0) /\ Carries(in, Len(x), y, 0)
  BY ONLY <1>1, <1>3, <1>4, <1>5, z \in Seq(Nat), StillCarries
<1>7. At(in, type, capacity, 0, NoValue)
  BY <1>4, AtFirst
<1>8. PICK v : v = Taken(type, t, c, NoValue)
  OBVIOUS
<1>9. At(in, type, capacity, 0 + Len(x), v)
  BY ONLY <1>4, <1>5, <1>6, <1>7, <1>8, ReadItem, t \in Nat, c \in Seq(Nat), x = Item(t, c),
          tlv_get(in, type, capacity).ok
<1>10. At(in, type, capacity, Len(x), v)
  BY <1>5, <1>9
<1>11. At(in, type, capacity, Len(x) + Len(y), Taken(type, u, d, v))
  BY ONLY <1>4, <1>5, <1>6, <1>10, ReadItem, u \in Nat, d \in Seq(Nat), y = Item(u, d),
          tlv_get(in, type, capacity).ok
<1> QED BY <1>2, <1>3, <1>8, <1>11

(* The values of a message of up to three items of different types.        *)
OneOf(in, type, capacity, t, c, u, d, r, f) ==
    \/ type = t /\ tlv_get(in, type, capacity).value = c
    \/ type = u /\ tlv_get(in, type, capacity).value = d
    \/ type = r /\ tlv_get(in, type, capacity).value = f

(* A message of three items of different types holds no other values.      *)
LEMMA ThreeItems ==
    ASSUME NEW t \in Nat, NEW c \in Seq(Nat), NEW u \in Nat, NEW d \in Seq(Nat),
           NEW r \in Nat, NEW f \in Seq(Nat),
           NEW x, x = Item(t, c), NEW y, y = Item(u, d), NEW z, z = Item(r, f),
           NEW in, in = (x \o y) \o z, t # u, u # r, t # r,
           NEW type, NEW capacity, tlv_get(in, type, capacity).ok
    PROVE  in \in Seq(Nat) /\ OneOf(in, type, capacity, t, c, u, d, r, f)
<1>1. x \in Seq(Nat) /\ y \in Seq(Nat) /\ z \in Seq(Nat)
  BY ItemTyped
<1>2. PICK w : w = x \o y
  OBVIOUS
<1>3. PICK v : v = Taken(type, u, d, Taken(type, t, c, NoValue))
  OBVIOUS
<1>4. At(in, type, capacity, Len(w), v)
  <2>1. At(in, type, capacity, Len(x \o y), v)
    BY ONLY <1>1, <1>3, TwoItems, t \in Nat, c \in Seq(Nat), u \in Nat, d \in Seq(Nat),
            x = Item(t, c), y = Item(u, d), in = (x \o y) \o z, tlv_get(in, type, capacity).ok
  <2> QED BY <1>2, <2>1
<1>5. w \in Seq(Nat) /\ in = w \o z
  BY ONLY <1>1, <1>2, in = (x \o y) \o z
<1>6. in \in Seq(Nat) /\ Len(in) = Len(w) + Len(z) /\ Carries(in, Len(w), z, 0) /\ Len(w) \in Nat
  BY ONLY <1>1, <1>5, TwoParts
<1>7. PICK q : q = Taken(type, r, f, v)
  OBVIOUS
<1>8. At(in, type, capacity, Len(w) + Len(z), q)
  BY ONLY <1>4, <1>6, <1>7, ReadItem, r \in Nat, f \in Seq(Nat), z = Item(r, f),
          tlv_get(in, type, capacity).ok
<1>9. q.ok /\ tlv_get(in, type, capacity).value = q.value
  <2>1. At(in, type, capacity, Len(in), q)
    BY <1>6, <1>8
  <2> QED BY ONLY <1>6, <2>1, AtLast, tlv_get(in, type, capacity).ok
<1>10. ~NoValue.ok /\ \A k : Value(k).value = k
  BY DEF Value, NoValue
<1>11. CASE type = t
  <2>1. v = Taken(type, t, c, NoValue) /\ q = v
    BY <1>3, <1>7, <1>11 DEF Taken, Gained
  <2>2. q \in {NoValue, Value(c)}
    BY <2>1, TakenIs
  <2> QED BY <1>6, <1>9, <1>10, <1>11, <2>2 DEF OneOf
<1>12. CASE type = u
  <2>1. v = Taken(type, u, d, NoValue) /\ q = v
    <3>1. Taken(type, t, c, NoValue) = NoValue
      BY <1>12 DEF Taken, Gained
    <3>2. q = v
      BY <1>7, <1>12 DEF Taken, Gained
    <3> QED BY <1>3, <3>1, <3>2
  <2>2. q \in {NoValue, Value(d)}
    BY <2>1, TakenIs
  <2> QED BY <1>6, <1>9, <1>10, <1>12, <2>2 DEF OneOf
<1>13. CASE type = r
  <2>1. v = NoValue
    BY <1>3, <1>13 DEF Taken, Gained
  <2>2. q \in {NoValue, Value(f)}
    BY <1>7, <2>1, TakenIs
  <2> QED BY <1>6, <1>9, <1>10, <1>13, <2>2 DEF OneOf
<1>14. CASE type # t /\ type # u /\ type # r
  <2>1. q = NoValue
    BY <1>3, <1>7, <1>14, TakenIs
  <2> QED BY <1>9, <1>10, <2>1
<1> QED BY <1>11, <1>12, <1>13, <1>14

(* The end of an item that tlv_put wrote: where its last fragment is.      *)
LEMMA LastFragment ==
    ASSUME NEW t \in Nat, NEW data \in Seq(Nat), NEW key, key = Item(t, data), key # <<>>
    PROVE  \E w \in Seq(Nat), item \in Seq(Nat) :
              /\ key = w \o <<t, Len(item)>> \o item
              /\ \A in \in Seq(Nat), p \in Nat :
                    \A type : \A capacity :
                       /\ tlv_get(in, type, capacity).ok /\ type # t
                       /\ At(in, type, capacity, p, NoValue) /\ Carries(in, p, w, 0)
                       => At(in, type, capacity, p + Len(w), NoValue)
<1>1. PICK limit, out, put : limit = 1000 /\ out = Value(<<>>) /\ put = tlv_put(out, limit, t, data)
  OBVIOUS
<1>2. out \in PutType /\ Len(out.value) = 0 /\ out.value = <<>>
  BY <1>1 DEF Value, PutType
<1>3. put.ok /\ put.value = key
  <2>1. put = tlv_put(Value(<<>>), limit, t, data) /\ limit = 1000
    BY <1>1
  <2>2. ItemPut(t, data, put)
    BY ONLY <2>1, ItemPutIs, t \in Nat, data \in Seq(Nat)
  <2> QED BY <2>2 DEF ItemPut
<1>4. PICK fs : fs = Fragments(data) /\ fs \in Seq(Seq(Nat)) /\ Len(fs) >= 1
  BY FragmentsCut
<1>5. PICK st : Puts(out, limit, t, fs, st) /\ put = st[Len(fs)]
  <2>1. put = tlv_put(out, limit, t, data)
    BY <1>1
  <2>2. PICK st : Puts(out, limit, t, Fragments(data), st) /\ put = st[Len(Fragments(data))]
    BY ONLY <1>2, <2>1, PutRounds, t \in Nat, data \in Seq(Nat)
  <2> QED BY <1>4, <2>2
<1>6. PICK n \in Nat, m \in Nat : /\ n = Len(fs) /\ n >= 1 /\ m = n - 1 /\ n \in 1 .. n
                                /\ n \in 0 .. Len(fs)
                                  /\ m \in 0 .. n /\ m \in 0 .. Len(fs)
  <2>1. Len(fs) \in Nat /\ Len(fs) - 1 \in Nat
    BY <1>4
  <2>2. PICK n \in Nat, m \in Nat : n = Len(fs) /\ m = Len(fs) - 1 /\ n >= 1
    BY <1>4, <2>1
  <2>3. n \in 1 .. n /\ n \in 0 .. n /\ m \in 0 .. n /\ m = n - 1
    BY <2>2
  <2> QED BY <2>2, <2>3
<1>7. Written(st, t, fs, n)
  BY ONLY <1>2, <1>3, <1>4, <1>5, <1>6, t \in Nat, PutBack
<1>8. /\ st[m].ok
      /\ st[n].value = st[m].value \o <<t, Len(fs[n])>> \o fs[n]
  BY <1>6, <1>7 DEF Written
<1>9. PICK w \in Seq(Nat), item \in Seq(Nat) : w = st[m].value /\ item = fs[n]
  <2>1. st[m] \in PutType
    BY <1>5, <1>6 DEF Puts
  <2>2. fs[n] \in Seq(Nat)
    BY <1>4, <1>6
  <2> QED BY <2>1, <2>2 DEF PutType
<1>10. key = w \o <<t, Len(item)>> \o item
  BY <1>3, <1>5, <1>6, <1>8, <1>9
<1>11. PICK cut : Cuts(data, cut)
  BY FragmentsCut
<1>12. ASSUME NEW in \in Seq(Nat), NEW p \in Nat, NEW type, NEW capacity,
              tlv_get(in, type, capacity).ok, type # t,
              At(in, type, capacity, p, NoValue), Carries(in, p, w, 0)
       PROVE  At(in, type, capacity, p + Len(w), NoValue)
  <2>1. /\ Puts(out, limit, t, Fragments(data), st) /\ m \in 0 .. Len(Fragments(data)) /\ st[m].ok
        /\ Carries(in, p, st[m].value, Len(out.value))
    BY <1>2, <1>4, <1>5, <1>6, <1>8, <1>9, <1>12
  <2>2. PICK found : found = NoValue /\ At(in, type, capacity, p, found)
    BY <1>12
  <2>3. At(in, type, capacity, p + (Len(st[m].value) - Len(out.value)),
           IF m = 0 THEN found ELSE Gained(type, t, SubSeq(data, 1, cut[m]), found))
    <3>1. At(in, type, capacity, p, found) /\ tlv_get(in, type, capacity).ok
      BY <1>12, <2>2
    <3>2. out \in PutType
      BY <1>2
    <3> QED BY ONLY <1>11, <2>1, <3>1, <3>2, PiecesRead, t \in Nat, data \in Seq(Nat),
                    in \in Seq(Nat), p \in Nat
  <2>4. Gained(type, t, SubSeq(data, 1, cut[m]), found) = found
    BY <1>12 DEF Gained
  <2>5. Len(st[m].value) - Len(out.value) = Len(w)
    BY <1>2, <1>9
  <2> QED BY <2>2, <2>3, <2>4, <2>5
<1> QED BY <1>10, <1>12

(* The bytes around the cut of a truncated key.                            *)
AroundCut(in, q, t, state, w, item, proof) ==
    /\ in \in Seq(Nat) /\ Len(in) = q + 1 + Len(item) + Len(proof)
    /\ Carries(in, 0, state, 0) /\ Carries(in, Len(state), w, 0)
    /\ in[q + 1] = t
    /\ in[q + 2] = IF item = <<>> THEN proof[1] ELSE Len(item)
    /\ \A i \in 1 .. Len(proof) : in[q + 1 + Len(item) + i] = proof[i]

(* Where the bytes of the three parts are.                                 *)
LEMMA CutBytes ==
    ASSUME NEW state \in Seq(Nat), NEW w \in Seq(Nat), NEW t \in Nat, NEW item \in Seq(Nat),
           NEW key, key = w \o <<t, Len(item)>> \o item,
           NEW proof \in Seq(Nat), Len(proof) >= 1,
           NEW begin, begin = SubSeq(key, 1, Len(key) - 1), NEW in, in = (state \o begin) \o proof,
           NEW q, q = Len(state) + Len(w)
    PROVE  AroundCut(in, q, t, state, w, item, proof)
<1>1. PICK l \in Nat, m \in Nat, n \in Nat, k \in Nat :
         l = Len(state) /\ m = Len(w) /\ n = Len(item) /\ k = Len(proof)
  <2>1. Len(state) \in Nat /\ Len(w) \in Nat /\ Len(item) \in Nat /\ Len(proof) \in Nat
    BY ONLY state \in Seq(Nat), w \in Seq(Nat), item \in Seq(Nat), proof \in Seq(Nat)
  <2> QED BY ONLY <2>1
<1>2. PICK head \in Seq(Nat) : /\ head = <<t, Len(item)>> /\ Len(head) = 2
                               /\ head[1] = t /\ head[2] = Len(item)
  <2>1. Len(item) \in Nat
    OBVIOUS
  <2>2. <<t, Len(item)>> \in Seq(Nat)
    BY <2>1
  <2> QED BY <2>2
<1>3. PICK wh \in Seq(Nat) : /\ wh = w \o head /\ Len(wh) = m + 2
                             /\ \A i \in 1 .. m : wh[i] = w[i]
                             /\ wh[m + 1] = t /\ wh[m + 2] = n
  <2>1. /\ w \o head \in Seq(Nat) /\ Len(w \o head) = Len(w) + Len(head)
        /\ \A i \in 1 .. Len(w) : (w \o head)[i] = w[i]
        /\ \A i \in 1 .. Len(head) : (w \o head)[Len(w) + i] = head[i]
    BY ONLY w \in Seq(Nat), head \in Seq(Nat)
  <2>2. 1 \in 1 .. Len(head) /\ 2 \in 1 .. Len(head)
    BY <1>2
  <2> QED BY ONLY <1>1, <1>2, <2>1, <2>2
<1>4. /\ key \in Seq(Nat) /\ Len(key) = (m + 2) + n
      /\ \A i \in 1 .. m : key[i] = w[i]
      /\ key[m + 1] = t /\ key[m + 2] = n
  <2>1. /\ wh \o item \in Seq(Nat) /\ Len(wh \o item) = Len(wh) + Len(item)
        /\ \A i \in 1 .. Len(wh) : (wh \o item)[i] = wh[i]
    BY ONLY wh \in Seq(Nat), item \in Seq(Nat)
  <2>2. key = wh \o item
    BY <1>2, <1>3
  <2>3. m + 1 \in 1 .. Len(wh) /\ m + 2 \in 1 .. Len(wh) /\ \A i \in 1 .. m : i \in 1 .. Len(wh)
    BY <1>3
  <2> QED BY ONLY <1>1, <1>3, <2>1, <2>2, <2>3
<1>5. PICK c \in Seq(Nat) : /\ c = SubSeq(key, 1, Len(key) - 1) /\ Len(c) = m + 1 + n
                            /\ \A i \in 1 .. m + 1 + n : c[i] = key[i]
  <2>1. PICK b \in Nat : b = Len(key) - 1 /\ b = m + 1 + n
    BY <1>4
  <2>2. b <= Len(key)
    BY <1>4, <2>1
  <2>3. SubSeq(key, 1, b) \in Seq(Nat) /\ Len(SubSeq(key, 1, b)) = b
        /\ \A i \in 1 .. b : SubSeq(key, 1, b)[i] = key[i]
    <3>1. key \in Seq(Nat)
      BY <1>4
    <3> QED BY ONLY <2>2, <3>1, b \in Nat
  <2> QED BY <2>1, <2>3
<1>6. PICK u \in Seq(Nat) : /\ u = state \o c /\ Len(u) = l + (m + 1 + n)
                            /\ \A i \in 1 .. l : u[i] = state[i]
                            /\ \A i \in 1 .. m + 1 + n : u[l + i] = c[i]
  <2>1. /\ state \o c \in Seq(Nat) /\ Len(state \o c) = Len(state) + Len(c)
        /\ \A i \in 1 .. Len(state) : (state \o c)[i] = state[i]
        /\ \A i \in 1 .. Len(c) : (state \o c)[Len(state) + i] = c[i]
    BY ONLY state \in Seq(Nat), c \in Seq(Nat)
  <2>2. Len(state) = l /\ Len(c) = m + 1 + n
    BY <1>1, <1>5
  <2>3. PICK u : u = state \o c
    OBVIOUS
  <2> QED BY ONLY <2>1, <2>2, <2>3
<1>7. /\ in \in Seq(Nat) /\ Len(in) = Len(u) + k
      /\ \A i \in 1 .. Len(u) : in[i] = u[i]
      /\ \A i \in 1 .. k : in[Len(u) + i] = proof[i]
  <2>1. in = u \o proof
    BY <1>5, <1>6
  <2> QED BY ONLY <1>1, <2>1, u \in Seq(Nat), proof \in Seq(Nat)
<1>8. q = l + m /\ Len(u) = q + 1 + n
  BY <1>1, <1>6
<1>9. \A i \in 1 .. m + 1 + n : in[l + i] = key[i]
  <2> SUFFICES ASSUME NEW i \in 1 .. m + 1 + n PROVE in[l + i] = key[i]
    OBVIOUS
  <2>1. l + i \in 1 .. Len(u)
    BY <1>6
  <2>2. in[l + i] = u[l + i]
    BY ONLY <1>7, <2>1
  <2>3. u[l + i] = c[i] /\ c[i] = key[i]
    BY ONLY <1>5, <1>6, i \in 1 .. m + 1 + n
  <2> QED BY ONLY <2>2, <2>3
<1>10. Carries(in, 0, state, 0)
  <2>1. 0 + (l - 0) <= Len(in)
    <3>1. Len(in) = (l + (m + 1 + n)) + k
      BY <1>6, <1>7
    <3> QED BY ONLY <3>1, l \in Nat, m \in Nat, n \in Nat, k \in Nat
  <2>2. \A i \in 1 .. l : in[0 + (i - 0)] = state[i]
    <3> SUFFICES ASSUME NEW i \in 1 .. l PROVE in[0 + (i - 0)] = state[i]
      OBVIOUS
    <3>1. 0 + (i - 0) = i /\ i \in 1 .. Len(u)
      BY <1>6
    <3> QED BY <1>6, <1>7, <3>1
  <2> QED BY <1>1, <2>1, <2>2 DEF Carries
<1>11. Carries(in, Len(state), w, 0)
  <2>1. l + (m - 0) <= Len(in)
    BY <1>6, <1>7
  <2>2. \A i \in 1 .. m : in[l + (i - 0)] = w[i]
    <3> SUFFICES ASSUME NEW i \in 1 .. m PROVE in[l + (i - 0)] = w[i]
      OBVIOUS
    <3>1. i - 0 = i /\ i \in 1 .. m + 1 + n
      OBVIOUS
    <3> QED BY <1>4, <1>9, <3>1
  <2> QED BY <1>1, <2>1, <2>2 DEF Carries
<1>12. in[q + 1] = t
  <2>1. m + 1 \in 1 .. m + 1 + n /\ l + (m + 1) = q + 1
    <3>1. q = l + m
      BY <1>8
    <3> QED BY ONLY <3>1, l \in Nat, m \in Nat, n \in Nat
  <2> QED BY <1>4, <1>9, <2>1
<1>13. \A i \in 1 .. k : in[q + 1 + n + i] = proof[i]
  BY <1>7, <1>8
<1>14. in[q + 2] = IF item = <<>> THEN proof[1] ELSE Len(item)
  <2>1. CASE item = <<>>
    <3>1. n = 0 /\ 1 \in 1 .. k /\ q + 1 + 0 + 1 = q + 2
      BY <1>1, <1>8, <2>1
    <3> QED BY <1>13, <2>1, <3>1
  <2>2. CASE item # <<>>
    <3>1. n >= 1
      BY <1>1, <2>2
    <3>2. m + 2 \in 1 .. m + 1 + n /\ l + (m + 2) = q + 2
      <4>1. q = l + m
        BY <1>8
      <4> QED BY ONLY <3>1, <4>1, l \in Nat, m \in Nat, n \in Nat
    <3> QED BY <1>1, <1>4, <1>9, <2>2, <3>2
  <2> QED BY <2>1, <2>2
<1>15. Len(in) = q + 1 + n + k
  BY <1>7, <1>8
<1> QED BY <1>1, <1>7, <1>10, <1>11, <1>12, <1>13, <1>14, <1>15 DEF AroundCut

(* A message without a key.                                                *)
Absent(in, type, capacity) == ~tlv_get(in, type, capacity).ok

(* Neither the one item nor the other gives the type.                      *)
LEMMA NoKeyRead ==
    ASSUME NEW t \in Nat, NEW c \in Seq(Nat), NEW u \in Nat, NEW d \in Seq(Nat),
           NEW x, x = Item(t, c), NEW y, y = Item(u, d), NEW in, in = x \o y,
           NEW type, type # t, type # u, NEW capacity
    PROVE  Absent(in, type, capacity)
<1> SUFFICES ASSUME tlv_get(in, type, capacity).ok PROVE FALSE
  BY DEF Absent
<1>1. x \in Seq(Nat) /\ y \in Seq(Nat)
  BY ItemTyped
<1>2. PICK z \in Seq(Nat) : z = <<>>
  <2>1. <<>> \in Seq(Nat)
    OBVIOUS
  <2> QED BY <2>1
<1>3. in \in Seq(Nat) /\ in = (x \o y) \o z /\ Len(x \o y) = Len(in)
  <2>1. PICK w \in Seq(Nat) : w = x \o y
    <3>1. x \o y \in Seq(Nat)
      BY ONLY <1>1
    <3> QED BY <3>1
  <2>2. w \o <<>> = w
    OBVIOUS
  <2> QED BY <1>1, <1>2, <2>1, <2>2
<1>4. At(in, type, capacity, Len(x \o y), Taken(type, u, d, Taken(type, t, c, NoValue)))
  BY ONLY <1>3, TwoItems, t \in Nat, c \in Seq(Nat), u \in Nat, d \in Seq(Nat),
          x = Item(t, c), y = Item(u, d), z \in Seq(Nat), tlv_get(in, type, capacity).ok
<1>5. Taken(type, u, d, Taken(type, t, c, NoValue)) = NoValue
  BY DEF Taken, Gained
<1>6. NoValue.ok
  BY <1>3, <1>4, <1>5, AtLast
<1> QED BY <1>6 DEF NoValue

(* The bytes of a proof: a type, a length, a tag, an exchange and then     *)
(* only the same byte.                                                     *)
ProofBytes(proof, size, x) ==
    /\ proof \in Seq(Nat) /\ Len(proof) = size + 2 /\ 5 <= size
    /\ proof[1] = 4 /\ proof[2] = size /\ proof[3] = 1
    /\ \A i \in 5 .. size + 2 : proof[i] = x

(* The item of a proof is made of such bytes.                              *)
LEMMA ProofIs ==
    ASSUME NEW e \in Nat, NEW a \in Seq(Nat), NEW proof, proof = Item(4, Proof(e, minimal(a)))
    PROVE  \E size \in Nat, x \in Nat : ProofBytes(proof, size, x)
<1>1. PICK four \in Nat, tag \in Nat : four = 4 /\ tag = 1
  <2>1. 4 \in Nat /\ 1 \in Nat
    OBVIOUS
  <2> QED BY <2>1
<1>2. PICK b : b = minimal(a) /\ b[1] \in Nat
  BY ONLY MinimalIs, a \in Seq(Nat)
<1>3. PICK x \in Nat : x = b[1]
  BY <1>2
<1>4. PICK p, size : p = Hash(tag, e, b) /\ size = ProofSize
  OBVIOUS
<1>5. /\ p \in Seq(Nat) /\ Len(p) = size /\ p[1] = tag
      /\ \A i \in 3 .. size : p[i] = x
      /\ size \in Nat /\ 5 <= size /\ size <= Fragment
  <2>1. HashBytes(p, tag, e, x, size)
    BY ONLY <1>3, <1>4, HashIs, e \in Nat, tag \in Nat, x \in Nat
  <2> QED BY ONLY <2>1 DEF HashBytes
<1>6. proof = Item(four, p)
  BY <1>1, <1>2, <1>4 DEF Proof
<1>7. PICK m \in Nat, d \in Seq(Nat) : m = size /\ d = p
  BY <1>5
<1>8. proof = <<four, m>> \o d
  <2>1. Len(d) <= Fragment /\ Len(d) = m
    BY <1>5, <1>7
  <2>2. Item(four, d) = <<four, Len(d)>> \o d
    BY ONLY <2>1, ShortItem, four \in Nat, d \in Seq(Nat)
  <2> QED BY ONLY <1>6, <1>7, <2>1, <2>2
<1>9. /\ proof \in Seq(Nat) /\ Len(proof) = 2 + Len(d) /\ proof[1] = four /\ proof[2] = m
      /\ \A i \in 1 .. Len(d) : proof[2 + i] = d[i]
  BY ONLY <1>8, HeadedBy, four \in Nat, m \in Nat, d \in Seq(Nat)
<1>10. Len(d) = m /\ 5 <= m /\ d[1] = 1 /\ \A i \in 3 .. m : d[i] = x
  BY ONLY <1>1, <1>5, <1>7
<1>11. proof[3] = 1
  <2>1. 1 \in 1 .. Len(d) /\ 2 + 1 = 3
    BY ONLY <1>10, m \in Nat
  <2> QED BY ONLY <1>9, <1>10, <2>1
<1>12. \A i \in 5 .. m + 2 : proof[i] = x
  <2> SUFFICES ASSUME NEW i \in 5 .. m + 2 PROVE proof[i] = x
    OBVIOUS
  <2>1. i - 2 \in 3 .. m /\ i - 2 \in 1 .. m /\ 2 + (i - 2) = i
    BY ONLY m \in Nat, i \in 5 .. m + 2
  <2> QED BY ONLY <1>9, <1>10, <2>1
<1>13. Len(proof) = m + 2
  BY ONLY <1>9, <1>10, m \in Nat
<1>14. ProofBytes(proof, m, x)
  BY ONLY <1>1, <1>9, <1>10, <1>11, <1>12, <1>13 DEF ProofBytes
<1> QED BY <1>14

(* Where the cut is in a message: the last item begins at q, misses the    *)
(* last of n bytes, or its length, and the proof follows.                  *)
CutAt(in, q, n, t, proof) ==
    /\ in \in Seq(Nat) /\ Len(in) = q + 1 + n + Len(proof)
    /\ in[q + 1] = t /\ in[q + 2] = IF n = 0 THEN proof[1] ELSE n
    /\ \A i \in 1 .. Len(proof) : in[q + 1 + n + i] = proof[i]

CutFound(in, type, capacity, t, proof) ==
    \E q \in Nat, n \in Nat : CutAt(in, q, n, t, proof) /\ At(in, type, capacity, q, NoValue)

(* The loop comes to the item that was cut, and has found nothing.         *)
LEMMA CutPlace ==
    ASSUME NEW s \in Nat, NEW data \in Seq(Nat), NEW state, state = Item(s, data),
           NEW t \in Nat, NEW a \in Seq(Nat), NEW key, key = Item(t, a), key # <<>>,
           NEW proof \in Seq(Nat), Len(proof) >= 1,
           NEW begin, begin = SubSeq(key, 1, Len(key) - 1), NEW in, in = (state \o begin) \o proof,
           NEW type, type # s, type # t, NEW capacity, tlv_get(in, type, capacity).ok
    PROVE  CutFound(in, type, capacity, t, proof)
<1>1. state \in Seq(Nat)
  BY ONLY ItemTyped, s \in Nat, data \in Seq(Nat), state = Item(s, data)
<1>2. PICK w \in Seq(Nat), item \in Seq(Nat) :
         /\ key = w \o <<t, Len(item)>> \o item
         /\ \A m \in Seq(Nat), k \in Nat :
               \A ty : \A ca :
                  /\ tlv_get(m, ty, ca).ok /\ ty # t
                  /\ At(m, ty, ca, k, NoValue) /\ Carries(m, k, w, 0)
                  => At(m, ty, ca, k + Len(w), NoValue)
  BY ONLY t \in Nat, key = Item(t, a), key # <<>>, a \in Seq(Nat), LastFragment
<1>3. PICK q \in Nat, n \in Nat, l \in Nat : q = Len(state) + Len(w) /\ n = Len(item)
        /\ l = Len(state)
  <2>1. Len(state) + Len(w) \in Nat /\ Len(item) \in Nat /\ Len(state) \in Nat
    BY ONLY <1>1, w \in Seq(Nat), item \in Seq(Nat)
  <2> QED BY ONLY <2>1
<1>4. AroundCut(in, q, t, state, w, item, proof)
  <2>1. key = w \o <<t, Len(item)>> \o item /\ q = Len(state) + Len(w)
    BY ONLY <1>2, <1>3
  <2> QED BY ONLY <1>1, <2>1, CutBytes, w \in Seq(Nat), item \in Seq(Nat), q \in Nat, t \in Nat,
                  proof \in Seq(Nat), Len(proof) >= 1, begin = SubSeq(key, 1, Len(key) - 1),
                  in = (state \o begin) \o proof
<1>5. At(in, type, capacity, q, NoValue)
  <2>1. At(in, type, capacity, 0, NoValue) /\ 0 \in Nat
    BY ONLY <1>4, AtFirst DEF AroundCut
  <2>2. At(in, type, capacity, 0 + Len(state), Taken(type, s, data, NoValue))
    <3>1. in \in Seq(Nat) /\ Carries(in, 0, state, 0)
      BY ONLY <1>4 DEF AroundCut
    <3> QED BY ONLY <2>1, <3>1, ReadItem, tlv_get(in, type, capacity).ok, s \in Nat,
                    data \in Seq(Nat), state = Item(s, data)
  <2>3. Taken(type, s, data, NoValue) = NoValue
    BY DEF Taken, Gained
  <2>4. At(in, type, capacity, l, NoValue) /\ Carries(in, l, w, 0) /\ in \in Seq(Nat)
    BY ONLY <1>3, <1>4, <2>2, <2>3, l \in Nat DEF AroundCut
  <2>5. At(in, type, capacity, l + Len(w), NoValue)
    BY ONLY <1>2, <2>4, l \in Nat, tlv_get(in, type, capacity).ok, type # t
  <2> QED BY ONLY <1>3, <2>5
<1>6. CutAt(in, q, n, t, proof)
  <2>1. item = <<>> <=> n = 0
    BY ONLY <1>3, item \in Seq(Nat)
  <2> QED BY ONLY <1>3, <1>4, <2>1 DEF CutAt, AroundCut
<1> QED BY ONLY <1>5, <1>6, q \in Nat, n \in Nat DEF CutFound

(* The item swallows the type of the proof, so its length is taken for a   *)
(* type, its tag for a length: what is left is the same byte again and     *)
(* again.                                                                  *)
SameBytes(in, type, capacity, x) ==
    \E r \in Nat : /\ At(in, type, capacity, r, NoValue)
                   /\ \A i \in 1 .. Len(in) : i > r => in[i] = x

(* Behind the swallowed item only the same byte is left.                   *)
LEMMA Swallowed ==
    ASSUME NEW in, NEW q \in Nat, NEW n \in Nat, NEW size \in Nat, NEW x \in Nat, NEW proof,
           ProofBytes(proof, size, x), NEW t, CutAt(in, q, n, t, proof),
           NEW type, type # t, type = proof[1], NEW capacity, tlv_get(in, type, capacity).ok,
           At(in, type, capacity, q, NoValue)
    PROVE  SameBytes(in, type, capacity, x)
<1>1. /\ 5 <= size /\ proof[1] = 4 /\ proof[2] = size /\ proof[3] = 1
      /\ \A i \in 5 .. size + 2 : proof[i] = x
  BY DEF ProofBytes
<1>2. /\ in \in Seq(Nat) /\ in[q + 1] = t /\ in[q + 2] = IF n = 0 THEN proof[1] ELSE n
      /\ \A i \in 1 .. size + 2 : in[q + 1 + n + i] = proof[i]
  BY DEF CutAt, ProofBytes
<1>3. PICK k \in Nat : k = Len(in) /\ k = q + 1 + n + (size + 2)
  BY DEF CutAt, ProofBytes
<1>4. q + 2 + in[q + 2] <= Len(in) /\ At(in, type, capacity, q + 2 + in[q + 2], NoValue)
  <2>1. q + 2 <= Len(in)
    BY ONLY <1>1, <1>3, q \in Nat, n \in Nat, size \in Nat
  <2>2. in[q + 1] # type
    BY ONLY <1>2, type # t
  <2> QED BY ONLY <1>2, <2>1, <2>2, ItemSkipped, q \in Nat, tlv_get(in, type, capacity).ok,
                  At(in, type, capacity, q, NoValue)
<1>5. ASSUME NEW r \in Nat, r >= q + 1 + n + 4
      PROVE  \A i \in 1 .. Len(in) : i > r => in[i] = x
  <2> SUFFICES ASSUME NEW i \in 1 .. k, i > r PROVE in[i] = x
    BY <1>3
  <2>1. PICK j \in 5 .. size + 2 : i = q + 1 + n + j
    <3>1. i - (q + 1 + n) \in 5 .. size + 2 /\ i = q + 1 + n + (i - (q + 1 + n))
      BY ONLY <1>3, <1>5, i \in 1 .. k, i > r, r \in Nat, q \in Nat, n \in Nat, size \in Nat
    <3> QED BY ONLY <3>1
  <2>2. j \in 1 .. size + 2
    BY ONLY j \in 5 .. size + 2
  <2>3. in[q + 1 + n + j] = proof[j] /\ proof[j] = x
    BY ONLY <1>1, <1>2, <2>2, j \in 5 .. size + 2
  <2> QED BY ONLY <2>1, <2>3
<1>6. CASE n = 0
  <2>1. PICK r \in Nat : r = q + 2 + 4
    OBVIOUS
  <2>2. in[q + 2] = 4
    BY ONLY <1>1, <1>2, <1>6
  <2>3. r >= q + 1 + n + 4
    BY ONLY <1>6, <2>1, q \in Nat
  <2>4. At(in, type, capacity, r, NoValue)
    BY ONLY <1>4, <2>1, <2>2
  <2> QED BY <1>5, <2>3, <2>4 DEF SameBytes
<1>7. CASE n # 0
  <2>1. PICK p \in Nat : p = q + 2 + n
    OBVIOUS
  <2>2. At(in, type, capacity, p, NoValue)
    BY ONLY <1>2, <1>4, <1>7, <2>1
  <2>3. in[p + 1] = size /\ in[p + 2] = 1
    <3>1. /\ q + 1 + n + 2 = p + 1 /\ q + 1 + n + 3 = p + 2
          /\ 2 \in 1 .. size + 2 /\ 3 \in 1 .. size + 2
      BY ONLY <1>1, <2>1, q \in Nat, n \in Nat, size \in Nat
    <3>2. in[q + 1 + n + 2] = proof[2] /\ in[q + 1 + n + 3] = proof[3]
      BY ONLY <1>2, <3>1
    <3> QED BY ONLY <1>1, <3>1, <3>2
  <2>4. p + 2 <= Len(in)
    BY ONLY <1>1, <1>3, <2>1, q \in Nat, n \in Nat, size \in Nat, p \in Nat
  <2>5. in[p + 1] # type
    BY ONLY <1>1, <2>3, type = proof[1], size \in Nat
  <2>6. At(in, type, capacity, p + 2 + in[p + 2], NoValue)
    BY ONLY <1>2, <2>2, <2>4, <2>5, ItemSkipped, p \in Nat, tlv_get(in, type, capacity).ok
  <2>7. PICK r \in Nat : r = p + 2 + 1
    OBVIOUS
  <2>8. At(in, type, capacity, r, NoValue)
    BY ONLY <2>3, <2>6, <2>7
  <2>9. r >= q + 1 + n + 4
    BY ONLY <2>1, <2>7, q \in Nat, n \in Nat
  <2> QED BY <1>5, <2>8, <2>9 DEF SameBytes
<1> QED BY <1>6, <1>7

(* A key cut short swallows the proof behind it: what is left is no proof. *)
LEMMA CutKeyRead ==
    ASSUME NEW e \in Nat, NEW a \in Seq(Nat), Item(3, a) # <<>>,
           NEW in, in = (Item(6, << 3 >>) \o SubSeq(Item(3, a), 1, Len(Item(3, a)) - 1))
                          \o Item(4, Proof(e, minimal(a))),
           NEW type, type = 4, NEW capacity, tlv_get(in, type, capacity).ok
    PROVE  tlv_get(in, type, capacity).value \in Seq({4})
<1>1. PICK s \in Nat, t \in Nat, data \in Seq(Nat) : s = 6 /\ t = 3 /\ data = <<3>>
  <2>1. 6 \in Nat /\ 3 \in Nat /\ <<3>> \in Seq(Nat)
    OBVIOUS
  <2> QED BY ONLY <2>1
<1>2. PICK state, key, proof, begin :
         /\ state = Item(s, data) /\ key = Item(t, a) /\ begin = SubSeq(key, 1, Len(key) - 1)
         /\ proof = Item(4, Proof(e, minimal(a)))
  OBVIOUS
<1>3. in = (state \o begin) \o proof /\ key # <<>>
  BY ONLY <1>1, <1>2, Item(3, a) # <<>>,
          in = (Item(6, <<3>>) \o SubSeq(Item(3, a), 1, Len(Item(3, a)) - 1))
                  \o Item(4, Proof(e, minimal(a)))
<1>4. PICK size \in Nat, x \in Nat : ProofBytes(proof, size, x)
  BY ONLY <1>2, ProofIs, e \in Nat, a \in Seq(Nat)
<1>5. proof \in Seq(Nat) /\ Len(proof) >= 1 /\ type = proof[1]
  BY ONLY <1>4, size \in Nat, type = 4 DEF ProofBytes
<1>6. type # s /\ type # t
  BY ONLY <1>1, type = 4
<1>7. CutFound(in, type, capacity, t, proof)
  <2>1. state = Item(s, data) /\ key = Item(t, a) /\ begin = SubSeq(key, 1, Len(key) - 1)
    BY ONLY <1>2
  <2> QED BY ONLY <1>3, <1>5, <1>6, <2>1, CutPlace, s \in Nat, t \in Nat, data \in Seq(Nat),
                  a \in Seq(Nat), tlv_get(in, type, capacity).ok
<1>8. PICK q \in Nat, n \in Nat : CutAt(in, q, n, t, proof) /\ At(in, type, capacity, q, NoValue)
  BY ONLY <1>7 DEF CutFound
<1>9. SameBytes(in, type, capacity, x)
  BY ONLY <1>4, <1>5, <1>6, <1>8, Swallowed, q \in Nat, n \in Nat, size \in Nat, x \in Nat,
          tlv_get(in, type, capacity).ok
<1>10. PICK r \in Nat : /\ At(in, type, capacity, r, NoValue)
                       /\ \A i \in 1 .. Len(in) : i > r => in[i] = x
  BY ONLY <1>9 DEF SameBytes
<1>11. PICK B \in SUBSET Nat : B = {x}
  <2>1. {x} \in SUBSET Nat
    BY ONLY x \in Nat
  <2> QED BY ONLY <2>1
<1>12. \A i \in 1 .. Len(in) : i > r => in[i] \in B
  BY ONLY <1>10, <1>11
<1>13. in \in Seq(Nat)
  BY ONLY <1>8 DEF CutAt
<1>14. type \in B /\ tlv_get(in, type, capacity).value \in Seq(B)
  BY ONLY <1>10, <1>12, <1>13, ValuesFrom, r \in Nat, B \in SUBSET Nat,
          tlv_get(in, type, capacity).ok
<1>15. B = {4}
  BY ONLY <1>11, <1>14, type = 4
<1> QED BY ONLY <1>14, <1>15

(* A proof in a message is that of the exchange and the public value which *)
(* the sender had in mind, whole and in its place.                         *)
FinishIs(state, key, proof, short, in) ==
    \/ in = (state \o key) \o proof
    \/ in = (proof \o key) \o state
    \/ in = state \o proof
    \/ in = (state \o key) \o short
    \/ in = (state \o SubSeq(key, 1, Len(key) - 1)) \o proof

(* So a proof that verify accepts is that of this exchange and value.      *)
LEMMA FinishesProve ==
    ASSUME NEW e \in Nat, NEW a \in Seq(Nat), NEW in \in Finishes(e, a), NEW g \in Nat,
           NEW three, three = 3, NEW four, four = 4, NEW large, NEW small,
           tlv_get(in, three, large).ok, tlv_get(in, four, small).ok,
           NEW b, b = tlv_get(in, three, large).value,
           NEW value, value = tlv_get(in, four, small).value, value = Proof(g, minimal(b))
    PROVE  b = a /\ g = e
<1>1. PICK x \in Nat : x = minimal(a)[1]
  BY MinimalIs
<1>2. PICK y, m, n : y = minimal(b)[1] /\ m = minimal(a) /\ n = minimal(b)
  OBVIOUS
<1>3. PICK p, size : p = Proof(e, m) /\ size = ProofSize
  OBVIOUS
<1>4. HashBytes(p, 1, e, x, size)
  <2>1. PICK tag \in Nat : tag = 1
    OBVIOUS
  <2>2. p = Hash(tag, e, m) /\ x = m[1]
    BY <1>1, <1>2, <1>3, <2>1 DEF Proof
  <2>3. size = ProofSize
    BY <1>3
  <2>4. HashBytes(p, tag, e, x, size)
    BY ONLY <2>2, <2>3, HashIs, tag \in Nat, e \in Nat, x \in Nat
  <2> QED BY ONLY <2>1, <2>4
<1>5. /\ p \in Seq(Nat) /\ size \in Nat /\ 5 <= size /\ p[2] = e /\ Len(p) = size
  BY ONLY <1>4 DEF HashBytes
<1>6. value[1] = 1 /\ value[2] = g /\ DOMAIN value = 1 .. size
  <2>1. value = [i \in 1 .. size |-> IF i = 1 THEN 1 ELSE IF i = 2 THEN g ELSE y]
    <3>1. value = Hash(1, g, n)
      BY <1>2 DEF Proof
    <3>2. Hash(1, g, n) = [i \in 1 .. size |-> IF i = 1 THEN 1 ELSE IF i = 2 THEN g ELSE n[1]]
      BY <1>3 DEF Hash
    <3> QED BY <1>2, <3>1, <3>2
  <2>2. 1 \in 1 .. size /\ 2 \in 1 .. size
    BY ONLY <1>5
  <2> QED BY ONLY <2>1, <2>2
<1>7. PICK six \in Nat, t \in Nat, u \in Nat, data \in Seq(Nat) : six = 6 /\ t = three
        /\ u = four /\ data = <<3>>
  <2>1. 6 \in Nat /\ three \in Nat /\ four \in Nat /\ <<3>> \in Seq(Nat)
    OBVIOUS
  <2> QED BY <2>1
<1>8. PICK cut \in Seq(Nat) : cut = SubSeq(p, 1, 2) /\ Len(cut) = 2
  <2>1. SubSeq(p, 1, 2) \in Seq(Nat) /\ Len(SubSeq(p, 1, 2)) = 2
    <3>1. 2 <= Len(p) /\ \A i \in 1 .. 2 : p[i] \in Nat
      BY ONLY <1>5
    <3> QED BY ONLY <1>5, <3>1
  <2> QED BY ONLY <2>1
<1>9. PICK state, key, proof, short : /\ state = Item(six, data) /\ key = Item(t, a)
                                     /\ proof = Item(u, p) /\ short = Item(u, cut)
  OBVIOUS
<1>10. FinishIs(state, key, proof, short, in)
  <2>1. state = Item(6, <<3>>) /\ key = Item(3, a) /\ proof = Item(4, Proof(e, minimal(a)))
        /\ short = Item(4, SubSeq(Proof(e, minimal(a)), 1, 2))
    BY ONLY <1>2, <1>3, <1>7, <1>8, <1>9, three = 3, four = 4
  <2> QED BY ONLY <2>1, in \in Finishes(e, a) DEF Finishes, FinishIs
<1>11. six # t /\ t # u /\ six # u
  BY ONLY <1>7, three = 3, four = 4
<1>12. tlv_get(in, t, large).ok /\ tlv_get(in, u, small).ok
       /\ b = tlv_get(in, t, large).value /\ value = tlv_get(in, u, small).value
  BY ONLY <1>7, tlv_get(in, three, large).ok, tlv_get(in, four, small).ok,
          b = tlv_get(in, three, large).value, value = tlv_get(in, four, small).value
<1>13. ASSUME value = p, b = a PROVE b = a /\ g = e
  BY ONLY <1>5, <1>6, <1>13
<1>14. CASE in = (state \o key) \o proof
  <2>1. OneOf(in, t, large, six, data, t, a, u, p)
    BY ONLY <1>5, <1>8, <1>9, <1>11, <1>12, <1>14, ThreeItems, six \in Nat, t \in Nat, u \in Nat,
            data \in Seq(Nat), a \in Seq(Nat), cut \in Seq(Nat)
  <2>2. OneOf(in, u, small, six, data, t, a, u, p)
    BY ONLY <1>5, <1>8, <1>9, <1>11, <1>12, <1>14, ThreeItems, six \in Nat, t \in Nat, u \in Nat,
            data \in Seq(Nat), a \in Seq(Nat), cut \in Seq(Nat)
  <2>3. b = a /\ value = p
    BY ONLY <1>11, <1>12, <2>1, <2>2 DEF OneOf
  <2> QED BY <1>13, <2>3
<1>15. CASE in = (proof \o key) \o state
  <2>1. OneOf(in, t, large, u, p, t, a, six, data)
    BY ONLY <1>5, <1>8, <1>9, <1>11, <1>12, <1>15, ThreeItems, six \in Nat, t \in Nat, u \in Nat,
            data \in Seq(Nat), a \in Seq(Nat), cut \in Seq(Nat)
  <2>2. OneOf(in, u, small, u, p, t, a, six, data)
    BY ONLY <1>5, <1>8, <1>9, <1>11, <1>12, <1>15, ThreeItems, six \in Nat, t \in Nat, u \in Nat,
            data \in Seq(Nat), a \in Seq(Nat), cut \in Seq(Nat)
  <2>3. b = a /\ value = p
    BY ONLY <1>11, <1>12, <2>1, <2>2 DEF OneOf
  <2> QED BY <1>13, <2>3
<1>16. ASSUME in = state \o proof PROVE FALSE
  <2>1. Absent(in, t, large)
    BY ONLY <1>5, <1>9, <1>11, <1>16, NoKeyRead, six \in Nat, u \in Nat, data \in Seq(Nat)
  <2> QED BY ONLY <1>12, <2>1 DEF Absent
<1>17. CASE in = (state \o key) \o short
  <2>1. OneOf(in, t, large, six, data, t, a, u, cut)
    BY ONLY <1>5, <1>8, <1>9, <1>11, <1>12, <1>17, ThreeItems, six \in Nat, t \in Nat, u \in Nat,
            data \in Seq(Nat), a \in Seq(Nat), cut \in Seq(Nat)
  <2>2. OneOf(in, u, small, six, data, t, a, u, cut)
    BY ONLY <1>5, <1>8, <1>9, <1>11, <1>12, <1>17, ThreeItems, six \in Nat, t \in Nat, u \in Nat,
            data \in Seq(Nat), a \in Seq(Nat), cut \in Seq(Nat)
  <2>3. value = cut
    BY ONLY <1>11, <1>12, <2>2 DEF OneOf
  <2>4. DOMAIN cut = 1 .. 2
    BY <1>8
  <2>5. 5 \in 1 .. size /\ 5 \notin 1 .. 2
    BY ONLY <1>5
  <2> QED BY ONLY <1>6, <2>3, <2>4, <2>5
<1>18. CASE in = (state \o SubSeq(key, 1, Len(key) - 1)) \o proof
  <2>1. CASE key = <<>>
    <3>1. SubSeq(<<>>, 1, Len(<<>>) - 1) = <<>>
      OBVIOUS
    <3>2. state \in Seq(Nat)
      BY ONLY <1>9, ItemTyped, six \in Nat, data \in Seq(Nat)
    <3>3. state \o <<>> = state
      BY ONLY <3>2
    <3> QED BY ONLY <1>16, <1>18, <2>1, <3>1, <3>3
  <2>2. CASE key # <<>>
    <3>1. Item(3, a) # <<>>
      BY ONLY <1>7, <1>9, <2>2, three = 3
    <3>2. in = (Item(6, <<3>>) \o SubSeq(Item(3, a), 1, Len(Item(3, a)) - 1))
                  \o Item(4, Proof(e, minimal(a)))
      BY ONLY <1>2, <1>3, <1>7, <1>9, <1>18, three = 3, four = 4
    <3>3. value \in Seq({4})
      BY ONLY <1>12, <3>1, <3>2, CutKeyRead, <1>7, four = 4, e \in Nat, a \in Seq(Nat)
    <3>4. 1 \in DOMAIN value
      BY ONLY <1>5, <1>6
    <3>5. value[1] = 4
      BY ONLY <3>3, <3>4
    <3> QED BY ONLY <1>6, <3>5
  <2> QED BY <2>1, <2>2
<1> QED BY <1>10, <1>14, <1>15, <1>16, <1>17, <1>18 DEF FinishIs

(* What tlv_get returns for bytes is bytes, and nothing when it fails.     *)
LEMMA GetTyped ==
    ASSUME NEW in \in Seq(Nat), NEW type, NEW capacity
    PROVE  /\ tlv_get(in, type, capacity).ok =>
                 tlv_get(in, type, capacity) = Value(tlv_get(in, type, capacity).value)
           /\ tlv_get(in, type, capacity).value \in Seq(Nat)
<1>1. PICK st : /\ Rounds(in, type, capacity, st)
                /\ tlv_get(in, type, capacity) = Result(st[Len(in)])
  BY ScanRounds
<1>2. PICK s, n : s = st[n] /\ n = Len(in)
  OBVIOUS
<1>3. s \in ScanType
  <2>1. n \in 0 .. n /\ n \in Nat
    BY <1>2
  <2> QED BY <1>1, <1>2, <2>1 DEF Rounds, Within
<1>4. s.out \in Seq(Nat) /\ <<>> \in Seq(Nat)
  BY <1>3 DEF ScanType
<1>5. tlv_get(in, type, capacity) = Result(s)
  BY ONLY <1>1, <1>2
<1>6. PICK r, o : r = tlv_get(in, type, capacity) /\ o = s.out
  OBVIOUS
<1>7. r = [ok |-> TRUE, value |-> o] \/ r = [ok |-> FALSE, value |-> <<>>]
  BY ONLY <1>5, <1>6 DEF Result
<1>8. CASE r = [ok |-> TRUE, value |-> o]
  <2>1. r.value = o /\ r = [ok |-> TRUE, value |-> r.value]
    BY ONLY <1>8
  <2> QED BY ONLY <1>4, <1>6, <2>1 DEF Value
<1>9. CASE r = [ok |-> FALSE, value |-> <<>>]
  <2>1. r.value = <<>> /\ ~r.ok
    BY ONLY <1>9
  <2> QED BY ONLY <1>4, <1>6, <2>1
<1> QED BY ONLY <1>7, <1>8, <1>9

(* None of the messages that start an exchange is taken for one that       *)
(* finishes it.                                                            *)
LEMMA StartsOnly ==
    ASSUME NEW in \in Starts, NEW r, r = tlv_get(in, 6, 1), r.ok, Len(r.value) = 1
    PROVE  r.value[1] # 3
<1>1. in \in Seq(Nat) /\ r # Value(<<3>>)
  BY StartsStart
<1>2. PICK six, one : six = 6 /\ one = 1
  OBVIOUS
<1>3. r = tlv_get(in, six, one)
  BY ONLY <1>2, r = tlv_get(in, 6, 1)
<1>4. r = Value(r.value) /\ r.value \in Seq(Nat)
  BY ONLY <1>1, <1>3, r.ok, GetTyped
<1>5. PICK v \in Seq(Nat) : v = r.value /\ Len(v) = 1
  BY <1>4
<1>6. v[1] = 3 => v = <<3>>
  BY ONLY <1>5, v \in Seq(Nat)
<1> QED BY ONLY <1>1, <1>4, <1>5, <1>6

----------------------------------------------------------------------------
(* The invariant of pairing.                                               *)

Numbers == {minimal(b) : b \in Publics}

(* The keys that belong to an exchange and a public value.                 *)
KeysFor(e, a) == [write |-> SharedKey("read", e, a), read |-> SharedKey("write", e, a)]

(* The keys are those of a proof for the latest exchange.                  *)
KeysProved == \E p \in proofs : p[1] = begun /\ keys = KeysFor(p[1], p[2])

(* What the sender can read in the response it has not read yet.           *)
Offering == tlv_get(reply, 3, PublicSize)
Answering == tlv_get(reply, 4, ProofSize)

PairingTypes ==
    /\ begun \in Nat /\ exchange \in {0, begun}
    /\ connected \in BOOLEAN /\ established \in BOOLEAN
    /\ offered \subseteq Nat
    /\ proofs \subseteq Nat \X Numbers

(* An M2 offers a number; an M4 is there only while pairing stands, and    *)
(* answers the proof that its keys are made of.                            *)
ReplyInv ==
    reply # <<>> =>
        /\ Offering.ok => Offering.value[1] \in Nat
        /\ Answering.ok =>
              /\ established
              /\ \E p \in proofs : /\ p[1] = begun /\ keys = KeysFor(p[1], p[2])
                                   /\ Answering.value = Answer(p[1], p[2])

PairedInv ==
    /\ live = {exchange} \ {0}
    /\ established => exchange = 0 /\ connected /\ KeysProved
    /\ ~established => keys = NoKeys /\ agreed = NoKeys
    /\ agreed # NoKeys => keys = [read |-> agreed.write, write |-> agreed.read]

PairingInv == PairingTypes /\ ReplyInv /\ PairedInv

(* The numbers the senders use are sequences that begin with a number, and *)
(* their first byte tells them apart.                                      *)
LEMMA NumbersAre ==
    /\ \A a \in Numbers : a \in Seq(Nat) /\ a[1] \in Nat
    /\ \A a, b \in Numbers : a[1] = b[1] => a = b
<1>1. ASSUME NEW a \in Numbers PROVE a \in Seq(Nat) /\ a[1] \in Nat
  <2>1. PICK x \in Publics : a = minimal(x)
    BY DEF Numbers
  <2>2. x \in Seq(Nat)
    BY PairingAssumption
  <2> QED BY <2>1, <2>2, MinimalIs
<1>2. ASSUME NEW a \in Numbers, NEW b \in Numbers, a[1] = b[1] PROVE a = b
  BY <1>2, HashAssumption DEF Numbers
<1> QED BY <1>1, <1>2

(* Only the proof an answer was made for has this answer.                  *)
LEMMA AnswerTells ==
    ASSUME NEW p \in Nat \X Numbers, NEW q \in Nat \X Numbers,
           Answer(p[1], p[2]) = Answer(q[1], q[2])
    PROVE  p = q
<1>1. PICK tag \in Nat, e \in Nat, d \in Nat : tag = 2 /\ e = p[1] /\ d = q[1]
  OBVIOUS
<1>2. PICK a, b \in Numbers : a = p[2] /\ b = q[2]
  OBVIOUS
<1>3. a[1] \in Nat /\ b[1] \in Nat
  BY NumbersAre
<1>4. Hash(tag, e, a) = Hash(tag, d, b)
  BY <1>1, <1>2 DEF Answer
<1>5. e = d /\ a[1] = b[1]
  BY ONLY <1>3, <1>4, SameHash, tag \in Nat, e \in Nat, d \in Nat
<1>6. a = b
  BY <1>5, NumbersAre
<1>7. p = <<p[1], p[2]>> /\ q = <<q[1], q[2]>>
  OBVIOUS
<1> QED BY ONLY <1>1, <1>2, <1>5, <1>6, <1>7

(* The state an exchange leaves when it fails, whichever way.              *)
LEMMA FailsKeeps ==
    ASSUME PairingInv, NEW s, Fails(s), ~established, connected' = connected,
           offered' = offered, agreed' = agreed, proofs' \subseteq Nat \X Numbers
    PROVE  PairingInv'
<1>1. /\ exchange' = 0 /\ established' = FALSE /\ keys' = NoKeys /\ begun' = begun
      /\ live' = live \ {exchange} /\ reply' = Error(s).value
  BY DEF Fails, pairing_close
<1>2. agreed = NoKeys /\ live = {exchange} \ {0}
  BY DEF PairingInv, PairedInv
<1>3. PairingTypes'
  BY <1>1 DEF PairingInv, PairingTypes
<1>4. PairedInv'
  BY <1>1, <1>2 DEF PairedInv
<1>5. ReplyInv'
  <2>1. ASSUME Error(s).value # <<>>
        PROVE  /\ ~tlv_get(Error(s).value, 3, PublicSize).ok
               /\ ~tlv_get(Error(s).value, 4, ProofSize).ok
    BY <2>1, ErrorRead
  <2> QED BY ONLY <1>1, <2>1 DEF ReplyInv, Offering, Answering
<1> QED BY <1>3, <1>4, <1>5 DEF PairingInv

(* begin, and the M2 it answers with. *)
LEMMA BeginKeeps ==
    ASSUME PairingInv, Begin, M2(begun').ok, reply' = M2(begun').value, ~established,
           connected' = connected, offered' = offered, agreed' = agreed,
           proofs' \subseteq Nat \X Numbers
    PROVE  PairingInv'
<1>1. /\ begun' = begun + 1 /\ exchange' = begun' /\ established' = FALSE /\ keys' = NoKeys
      /\ live' = (live \ {exchange}) \cup {begun'}
  BY DEF Begin
<1>2. PICK e \in Nat : e = begun' /\ e # 0
  BY <1>1 DEF PairingInv, PairingTypes
<1>3. agreed = NoKeys /\ live = {exchange} \ {0}
  BY DEF PairingInv, PairedInv
<1>4. PairingTypes'
  BY <1>1, <1>2 DEF PairingInv, PairingTypes
<1>5. PairedInv'
  BY <1>1, <1>2, <1>3 DEF PairedInv
<1>6. ReplyInv'
  <2>1. PICK in : in = M2(e).value /\ M2(e).ok /\ in = reply'
    BY <1>2
  <2>2. /\ ~tlv_get(in, 4, ProofSize).ok
        /\ tlv_get(in, 3, PublicSize).ok => tlv_get(in, 3, PublicSize).value[1] \in Nat
    BY <2>1, M2Read
  <2> QED BY ONLY <2>1, <2>2 DEF ReplyInv, Offering, Answering
<1> QED BY <1>4, <1>5, <1>6 DEF PairingInv

(* A message that changes nothing, whatever proof it held.                 *)
LEMMA IgnoredKeeps ==
    ASSUME PairingInv, reply' = <<>>, UNCHANGED <<pairing, begun>>, connected' = connected,
           offered' = offered, agreed' = agreed, proofs \subseteq proofs',
           proofs' \subseteq Nat \X Numbers
    PROVE  PairingInv'
<1>1. exchange' = exchange /\ established' = established /\ keys' = keys /\ live' = live
      /\ begun' = begun
  BY DEF pairing
<1>2. PairingTypes'
  BY <1>1 DEF PairingInv, PairingTypes
<1>3. PairedInv'
  <2>1. KeysProved => KeysProved'
    BY <1>1 DEF KeysProved, KeysFor, SharedKey
  <2> QED BY <1>1, <2>1 DEF PairingInv, PairedInv
<1> QED BY <1>2, <1>3 DEF PairingInv, ReplyInv

(* A message that starts an exchange.                                      *)
LEMMA StartKeeps ==
    ASSUME PairingInv, SendStart
    PROVE  PairingInv'
<1>1. PICK in \in Starts : pairing_setup(in)
  BY DEF SendStart
<1>2. /\ connected' = connected /\ offered' = offered /\ agreed' = agreed /\ proofs' = proofs
      /\ proofs \subseteq Nat \X Numbers
  BY DEF SendStart, peer, PairingInv, PairingTypes
<1>3. PICK state : state = tlv_get(in, 6, 1)
  OBVIOUS
<1>4. CASE ~state.ok \/ Len(state.value) # 1 \/ established
  <2>1. reply' = <<>> /\ UNCHANGED <<pairing, begun>>
    BY <1>1, <1>3, <1>4 DEF pairing_setup
  <2> QED BY <1>2, <2>1, IgnoredKeeps
<1>5. CASE ~(~state.ok \/ Len(state.value) # 1 \/ established)
  <2>1. state.value[1] # 3
    BY <1>3, <1>5, StartsOnly
  <2>2. Start(in) \/ Fails(state.value[1])
    BY <1>1, <1>3, <1>5, <2>1 DEF pairing_setup
  <2>3. \/ Begin /\ M2(begun').ok /\ reply' = M2(begun').value
        \/ \E s : Fails(s)
    BY <2>2 DEF Start
  <2> QED BY <1>2, <1>5, <2>3, BeginKeeps, FailsKeeps
<1> QED BY <1>4, <1>5

(* verify accepts only the proof for the exchange in progress.             *)
LEMMA EstablishKeeps ==
    ASSUME PairingInv, NEW e \in offered, NEW a \in Publics, NEW in \in Finishes(e, a),
           ~established, connected, connected' = connected,
           NEW b, b = tlv_get(in, 3, PublicSize), NEW proof, proof = tlv_get(in, 4, ProofSize),
           b.ok, proof.ok, Verifies(b.value, proof.value),
           NEW m, m = M4(exchange, minimal(b.value)), m.ok,
           Establish(b.value), reply' = m.value,
           proofs' = proofs \cup {<<e, minimal(a)>>}, proofs' \subseteq Nat \X Numbers,
           offered' = offered, agreed' = agreed
    PROVE  PairingInv'
<1>1. e \in Nat /\ a \in Seq(Nat) /\ exchange \in Nat /\ begun \in Nat /\ exchange # 0
      /\ exchange = begun
  BY PairingAssumption DEF PairingInv, PairingTypes, Verifies
<1>2. b.value = a /\ exchange = e
  <2>1. PICK three, four : three = 3 /\ four = 4
    OBVIOUS
  <2>2. PICK x, y : x = b.value /\ y = proof.value
    OBVIOUS
  <2>3. y = Proof(exchange, minimal(x))
    BY <2>2 DEF Verifies
  <2>4. /\ tlv_get(in, three, PublicSize).ok /\ tlv_get(in, four, ProofSize).ok
        /\ x = tlv_get(in, three, PublicSize).value
        /\ y = tlv_get(in, four, ProofSize).value
    BY ONLY <2>1, <2>2, b.ok, proof.ok, b = tlv_get(in, 3, PublicSize),
            proof = tlv_get(in, 4, ProofSize)
  <2> QED BY ONLY <1>1, <2>1, <2>2, <2>3, <2>4, FinishesProve, in \in Finishes(e, a)
<1>3. PICK n \in Numbers : n = minimal(a) /\ n = minimal(b.value) /\ n[1] \in Nat
  BY <1>2, NumbersAre DEF Numbers
<1>4. PICK p : p = <<e, n>> /\ p[1] = e /\ p[2] = n /\ p \in proofs'
  BY <1>3
<1>5. /\ established' = TRUE /\ exchange' = 0 /\ live' = live \ {exchange} /\ begun' = begun
      /\ keys' = KeysFor(e, n)
  BY <1>2, <1>3 DEF Establish, KeysFor
<1>6. PairingTypes'
  BY <1>5 DEF PairingInv, PairingTypes
<1>7. KeysProved'
  <2>1. KeysFor(p[1], p[2]) = KeysFor(e, n)
    BY <1>4
  <2>2. p \in proofs' /\ p[1] = begun' /\ keys' = KeysFor(p[1], p[2])
    BY <1>1, <1>2, <1>4, <1>5, <2>1
  <2> QED BY <2>2 DEF KeysProved, KeysFor, SharedKey
<1>8. PairedInv'
  <2>1. agreed = NoKeys /\ live = {exchange} \ {0}
    BY DEF PairingInv, PairedInv
  <2>2. live' = {exchange'} \ {0} /\ established' /\ exchange' = 0 /\ connected'
        /\ agreed' = NoKeys
    BY <1>5, <2>1
  <2>3. NoKeys' = NoKeys
    BY DEF NoKeys
  <2> QED BY <1>7, <2>2, <2>3 DEF PairedInv
<1>9. ReplyInv'
  <2>1. M4(e, n).ok /\ reply' = M4(e, n).value
    BY <1>2, <1>3
  <2>2. /\ ~tlv_get(reply', 3, PublicSize).ok
        /\ tlv_get(reply', 4, ProofSize).ok =>
              tlv_get(reply', 4, ProofSize).value = Answer(e, n)
    BY ONLY <1>1, <1>3, <2>1, M4Read
  <2>3. p[1] = begun' /\ keys' = KeysFor(p[1], p[2]) /\ Answer(p[1], p[2]) = Answer(e, n)
    BY <1>1, <1>2, <1>4, <1>5
  <2>4. Answering'.ok =>
           p \in proofs' /\ p[1] = begun' /\ keys' = KeysFor(p[1], p[2])
           /\ Answering'.value = Answer(p[1], p[2])
    BY ONLY <1>4, <2>2, <2>3 DEF Answering
  <2>5. ~Offering'.ok /\ established'
    BY ONLY <1>5, <2>2 DEF Offering
  <2> QED BY ONLY <2>4, <2>5 DEF ReplyInv, KeysFor, SharedKey, Answer, Hash
<1> QED BY <1>6, <1>8, <1>9 DEF PairingInv

(* A message with a proof.                                                 *)
LEMMA FinishKeeps ==
    ASSUME PairingInv, SendFinish
    PROVE  PairingInv'
<1>1. PICK e \in offered, a \in Publics :
         /\ \E in \in Finishes(e, a) : pairing_setup(in)
         /\ proofs' = proofs \cup {<<e, minimal(a)>>}
  BY DEF SendFinish
<1>2. PICK in \in Finishes(e, a) : pairing_setup(in)
  BY <1>1
<1>3. /\ connected /\ connected' = connected /\ offered' = offered /\ agreed' = agreed
      /\ proofs \subseteq proofs' /\ proofs' \subseteq Nat \X Numbers
  BY <1>1 DEF SendFinish, PairingInv, PairingTypes, Numbers
<1>4. PICK state : state = tlv_get(in, 6, 1)
  OBVIOUS
<1>5. CASE ~state.ok \/ Len(state.value) # 1 \/ established
  <2>1. reply' = <<>> /\ UNCHANGED <<pairing, begun>>
    BY <1>2, <1>4, <1>5 DEF pairing_setup
  <2> QED BY <1>3, <2>1, IgnoredKeeps
<1>6. ASSUME NEW s, Fails(s), ~established PROVE PairingInv'
  BY <1>3, <1>6, FailsKeeps
<1>7. CASE ~(~state.ok \/ Len(state.value) # 1 \/ established)
  <2>1. PICK b, proof : b = tlv_get(in, 3, PublicSize) /\ proof = tlv_get(in, 4, ProofSize)
    OBVIOUS
  <2>2. \/ Begin /\ M2(begun').ok /\ reply' = M2(begun').value
        \/ Finish(in)
        \/ \E s : Fails(s)
    BY <1>2, <1>4, <1>7 DEF pairing_setup, Start
  <2>3. CASE Begin /\ M2(begun').ok /\ reply' = M2(begun').value
    BY <1>3, <1>7, <2>3, BeginKeeps
  <2>4. CASE Finish(in)
    <3>1. \/ /\ b.ok /\ proof.ok /\ Verifies(b.value, proof.value)
             /\ LET m == M4(exchange, minimal(b.value)) IN
                m.ok /\ Establish(b.value) /\ reply' = m.value
          \/ Fails(3)
      BY <2>1, <2>4 DEF Finish
    <3> QED BY <1>1, <1>3, <1>6, <1>7, <2>1, <3>1, EstablishKeeps
  <2> QED BY <1>6, <1>7, <2>2, <2>3, <2>4
<1> QED BY <1>5, <1>7

(* A new connection starts without an exchange.                            *)
LEMMA ConnectKeeps ==
    ASSUME PairingInv, Connect
    PROVE  PairingInv'
<1>1. /\ ~connected /\ connected' = TRUE /\ reply' = <<>> /\ agreed' = NoKeys
      /\ exchange' = exchange /\ established' = established /\ keys' = keys /\ live' = live
      /\ begun' = begun /\ offered' = offered /\ proofs' = proofs
  BY DEF Connect, pairing
<1>2. PairingTypes'
  BY <1>1 DEF PairingInv, PairingTypes
<1>3. PairedInv'
  BY <1>1 DEF PairingInv, PairedInv
<1> QED BY <1>1, <1>2, <1>3 DEF PairingInv, ReplyInv

(* close_client ends what there is.                                        *)
LEMMA DisconnectKeeps ==
    ASSUME PairingInv, Disconnect
    PROVE  PairingInv'
<1>1. /\ connected' = FALSE /\ reply' = <<>> /\ agreed' = NoKeys
      /\ exchange' = 0 /\ established' = FALSE /\ keys' = NoKeys /\ live' = live \ {exchange}
      /\ begun' = begun /\ offered' = offered /\ proofs' = proofs
  BY DEF Disconnect, pairing_close
<1>2. PairingTypes'
  BY <1>1 DEF PairingInv, PairingTypes
<1>3. PairedInv'
  BY <1>1 DEF PairingInv, PairedInv
<1> QED BY <1>1, <1>2, <1>3 DEF PairingInv, ReplyInv

(* The sender derives its keys from the proof that the M4 answers: no      *)
(* other proof it ever sent has this answer.                               *)
LEMMA HearKeeps ==
    ASSUME PairingInv, Hear
    PROVE  PairingInv'
<1>1. /\ reply # <<>> /\ reply' = <<>> /\ connected' = connected
      /\ exchange' = exchange /\ established' = established /\ keys' = keys /\ live' = live
      /\ begun' = begun /\ proofs' = proofs
      /\ offered' = IF Offering.ok THEN offered \cup {Offering.value[1]} ELSE offered
      /\ agreed' \in
           IF Answering.ok
           THEN {[read |-> SharedKey("read", p[1], p[2]),
                  write |-> SharedKey("write", p[1], p[2])] :
                     p \in {q \in proofs : Answering.value = Answer(q[1], q[2])}}
           ELSE {agreed}
  BY DEF Hear, pairing, Offering, Answering
<1>2. PairingTypes'
  BY <1>1 DEF PairingInv, PairingTypes, ReplyInv
<1>3. KeysProved => KeysProved'
  BY <1>1 DEF KeysProved, KeysFor, SharedKey
<1>4. CASE ~Answering.ok
  <2>1. agreed' = agreed
    BY <1>1, <1>4
  <2> QED BY <1>1, <1>2, <1>3, <2>1 DEF PairingInv, PairedInv, ReplyInv
<1>5. CASE Answering.ok
  <2>1. established
    BY <1>1, <1>5 DEF PairingInv, ReplyInv
  <2>2. PICK p \in proofs : /\ keys = KeysFor(p[1], p[2])
                            /\ Answering.value = Answer(p[1], p[2])
    BY <1>1, <1>5 DEF PairingInv, ReplyInv
  <2>3. PICK q \in proofs : /\ Answering.value = Answer(q[1], q[2])
                            /\ agreed' = [read |-> SharedKey("read", q[1], q[2]),
                                          write |-> SharedKey("write", q[1], q[2])]
    BY <1>1, <1>5
  <2>4. p = q
    BY <2>2, <2>3, AnswerTells DEF PairingInv, PairingTypes
  <2>5. keys = [read |-> agreed'.write, write |-> agreed'.read]
    <3>1. PICK r, w : r = SharedKey("read", p[1], p[2]) /\ w = SharedKey("write", p[1], p[2])
      OBVIOUS
    <3>2. keys = [write |-> r, read |-> w] /\ agreed' = [read |-> r, write |-> w]
      BY <2>2, <2>3, <2>4, <3>1 DEF KeysFor
    <3> QED BY ONLY <3>2
  <2>6. PairedInv'
    BY <1>1, <1>3, <2>1, <2>5 DEF PairingInv, PairedInv
  <2> QED BY <1>1, <1>2, <2>6 DEF PairingInv, ReplyInv
<1> QED BY <1>4, <1>5

(* No connection, no exchange.                                             *)
LEMMA PairingStarts == ConnectionInit => PairingInv
<1> SUFFICES ASSUME ConnectionInit PROVE PairingInv
  OBVIOUS
<1> QED BY DEF ConnectionInit, PairingInit, PairingInv, PairingTypes, PairedInv, ReplyInv

(* Every step of the connection keeps the invariant.                       *)
LEMMA PairingStep == PairingInv /\ [ConnectionNext]_connectionVars => PairingInv'
<1> SUFFICES ASSUME PairingInv, [ConnectionNext]_connectionVars
             PROVE  PairingInv'
  OBVIOUS
<1>1. CASE UNCHANGED pairingVars
  BY <1>1 DEF pairingVars, pairing, peer, PairingInv, PairingTypes, PairedInv, ReplyInv,
              KeysProved, KeysFor, SharedKey, Offering, Answering, Answer, Hash
<1>2. CASE PairingNext
  BY <1>2, ConnectKeeps, DisconnectKeeps, StartKeeps, FinishKeeps, HearKeeps DEF PairingNext
<1> QED BY <1>1, <1>2 DEF ConnectionNext, connectionVars

(* What pairing.c and airplay2_pair_setup keep of an exchange, and what    *)
(* the response still to be read says, is accounted for at every step.     *)
THEOREM PairingAccounted == ConnectionSpec => []PairingInv
<1>1. ConnectionInit => PairingInv
  BY PairingStarts
<1>2. PairingInv /\ [ConnectionNext]_connectionVars => PairingInv'
  BY PairingStep
<1> QED BY <1>1, <1>2, PTL DEF ConnectionSpec

(* pairing_setup establishes pairing on the proof of the latest exchange   *)
(* of this connection only, with the keys of the sender that gave it, and  *)
(* the pool holds the numbers of the exchange in progress and no others.   *)
THEOREM PairingIsSound == ConnectionSpec => []PairingSound
<1>1. PairingInv => PairingSound
  <2> SUFFICES ASSUME PairingInv PROVE PairingSound
    OBVIOUS
  <2>1. ASSUME NEW p \in proofs, keys = KeysFor(p[1], p[2])
        PROVE  keys.write = SharedKey("read", p[1], p[2])
    BY <2>1 DEF KeysFor
  <2> QED BY <2>1 DEF PairingInv, PairedInv, KeysProved, PairingSound
<1> QED BY <1>1, PairingAccounted, PTL
=============================================================================

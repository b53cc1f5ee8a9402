------------------------------ MODULE Pairing ------------------------------
(***************************************************************************)
(* Transient pairing of one connection, pairing_setup of                   *)
(* shared/airplay/pairing.c with its caller airplay2_pair_setup: the SRP   *)
(* exchange of messages M1 to M4, what the receiver keeps of it and the    *)
(* keys it ends with.                                                      *)
(*                                                                         *)
(* Messages are bytes and are read and written with Tlv.  The cryptography *)
(* is symbolic: an exchange is the fresh number of its random values, a    *)
(* public value or a hash is made of what it was computed from, and two    *)
(* hashes are equal when that is.  live is what the exchanges hold in the  *)
(* crypto memory pool.                                                     *)
(***************************************************************************)
EXTENDS Tlv

CONSTANTS
    PublicSize,     \* SRP_BYTES: 384, more than a fragment
    ProofSize,      \* 64
    ResponseSize,   \* 512, the response buffer of airplay2_pair_setup
    Publics,        \* public values A a sender uses, as bytes
    MaxExchanges    \* bound: exchanges begun

ASSUME PairingAssumption ==
    /\ {PublicSize, ResponseSize, MaxExchanges} \subseteq Nat
    /\ PublicSize > 0 /\ ProofSize \in 5 .. Fragment /\ ResponseSize >= 6
    /\ Publics \subseteq Seq(Nat)

VARIABLES
    connected,     \* the connection exists
    exchange,      \* p->srp: the exchange in progress, 0 without one
    established,   \* p->established
    keys,          \* p->read_key and p->write_key
    begun,         \* exchanges begun so far
    live,          \* exchanges with numbers in the pool
    reply,         \* the response the sender may read
    offered,       \* sender: exchanges whose M2 it read, on any connection
    proofs,        \* sender: the exchanges and values it sent a proof for
    agreed         \* sender: its keys, once it read M4

pairing == <<exchange, established, keys, live>>
peer == <<offered, proofs, agreed>>
pairingVars == <<connected, pairing, begun, reply, peer>>

NoKeys == [read |-> <<>>, write |-> <<>>]

PairingInit ==
    /\ connected = FALSE
    /\ exchange = 0 /\ established = FALSE /\ keys = NoKeys
    /\ begun = 0 /\ live = {} /\ reply = <<>>
    /\ offered = {} /\ proofs = {} /\ agreed = NoKeys

----------------------------------------------------------------------------
(* minimal: the number that bytes stand for, without its leading zeros.    *)
minimal(bytes) ==
    LET nonzero == {i \in DOMAIN bytes : bytes[i] # 0}
    IN  IF nonzero = {} THEN <<0>>
        ELSE SubSeq(bytes, CHOOSE i \in nonzero : \A j \in nonzero : i <= j, Len(bytes))

(* The receiver's public value, and the hashes over an exchange and the    *)
(* sender's public value a.                                                *)
PublicKey(e) == [i \in 1..PublicSize |-> e]
Hash(tag, e, a) == [i \in 1..ProofSize |-> CASE i = 1 -> tag [] i = 2 -> e [] OTHER -> a[1]]
Proof(e, a) == Hash(1, e, a)
Answer(e, a) == Hash(2, e, a)

(* A hash shows no more of a public value than its first byte, which has   *)
(* to tell the values of the senders apart as the whole number does.       *)
ASSUME HashAssumption ==
    \A a, b \in Publics : minimal(a)[1] = minimal(b)[1] => minimal(a) = minimal(b)

(* Keys are derived from the shared secret and named for their direction,  *)
(* as the sender sees it.                                                  *)
SharedKey(label, e, a) == <<label, e>> \o a

(* Mutant of pairing_close: the structure is erased, the numbers it points *)
(* to stay allocated.                                                      *)
pairing_close_zeroes == exchange' = 0 /\ established' = FALSE /\ keys' = NoKeys /\ live' = live

(* free_srp and the erasure of everything else.                            *)
pairing_close ==
    /\ exchange' = 0 /\ established' = FALSE /\ keys' = NoKeys
    /\ live' = live \ {exchange}

(* begin: the exchange before is closed, and the numbers of the new one    *)
(* are freed again if any computation fails.                               *)
Begin ==
    /\ begun < MaxExchanges
    /\ begun' = begun + 1
    /\ exchange' = begun'
    /\ established' = FALSE /\ keys' = NoKeys
    /\ live' = (live \ {exchange}) \cup {begun'}

(* verify accepts a public value that is not zero with the proof of this   *)
(* very exchange.                                                          *)
Verifies(a, proof) ==
    /\ exchange # 0
    /\ a # <<>> /\ minimal(a) # <<0>>
    /\ proof = Proof(exchange, minimal(a))

Establish(a) ==
    /\ established' = TRUE
    /\ keys' = [write |-> SharedKey("read", exchange, minimal(a)),
                read |-> SharedKey("write", exchange, minimal(a))]
    /\ exchange' = 0 /\ live' = live \ {exchange}    \* free_srp
    /\ UNCHANGED begun

(* Messages are built in order, each piece if the one before it fitted.    *)
Put(out, type, value) == tlv_put(out, ResponseSize, type, value)
Message(state) == Put(Value(<<>>), 6, <<state>>)

M2(e) == Put(Put(Message(2), 2, <<e>>), 3, PublicKey(e))
M4(e, a) == Put(Message(4), 4, Answer(e, a))
Error(state) == Put(Message(IF state = 3 THEN 4 ELSE 2), 7, <<2>>)

Fails(state) == pairing_close /\ UNCHANGED begun /\ reply' = Error(state).value

(* An M1 that asks for transient pairing.                                  *)
Transient(in) ==
    /\ tlv_get(in, 0, 1) = Value(<<0>>)
    /\ LET flags == tlv_get(in, 19, 1)
       IN  flags.ok /\ Len(flags.value) = 1 /\ (flags.value[1] \div 16) % 2 = 1

Start(in) ==
    IF Transient(in)
    THEN \/ Begin /\ M2(begun').ok /\ reply' = M2(begun').value
         \/ Fails(1)
    ELSE Fails(1)

Finish(in) ==
    LET a == tlv_get(in, 3, PublicSize)
        proof == tlv_get(in, 4, ProofSize)
    IN  IF a.ok /\ proof.ok /\ Verifies(a.value, proof.value)
        THEN \/ LET m == M4(exchange, minimal(a.value)) IN
                m.ok /\ Establish(a.value) /\ reply' = m.value
             \/ Fails(3)   \* a computation of verify fails
        ELSE Fails(3)

(* A message without a state, or one after pairing, changes nothing: 400.  *)
pairing_setup(in) ==
    LET state == tlv_get(in, 6, 1) IN
    IF ~state.ok \/ Len(state.value) # 1 \/ established
    THEN reply' = <<>> /\ UNCHANGED <<pairing, begun>>
    ELSE CASE state.value[1] = 1 -> Start(in)
           [] state.value[1] = 3 -> Finish(in)
           [] OTHER -> Fails(state.value[1])

----------------------------------------------------------------------------
(* The sender and the connection. *)
Item(type, value) == tlv_put(Value(<<>>), 1000, type, value).value

Starts ==
    LET state == Item(6, <<1>>) method == Item(0, <<0>>) flags == Item(19, <<16>>) IN
    {state \o method \o flags, flags \o Item(9, <<7, 7, 7>>) \o method \o state,
     state \o method, state \o method \o Item(19, <<15>>), state \o Item(0, <<1>>) \o flags,
     state \o state \o method \o flags, Item(6, <<1, 1>>), Item(6, <<5>>),
     state \o method \o SubSeq(flags, 1, 2), <<>>}

Finishes(e, a) ==
    LET state == Item(6, <<3>>) key == Item(3, a) proof == Item(4, Proof(e, minimal(a))) IN
    {state \o key \o proof, proof \o key \o state, state \o proof,
     state \o key \o Item(4, SubSeq(Proof(e, minimal(a)), 1, 2)),
     state \o SubSeq(key, 1, Len(key) - 1) \o proof}

Connect ==
    /\ ~connected
    /\ connected' = TRUE /\ reply' = <<>> /\ agreed' = NoKeys
    /\ UNCHANGED <<pairing, begun, offered, proofs>>

(* close_client: the sender hung up, or a response could not be sent.      *)
Disconnect ==
    /\ connected
    /\ connected' = FALSE
    /\ pairing_close
    /\ reply' = <<>> /\ agreed' = NoKeys
    /\ UNCHANGED <<begun, offered, proofs>>

SendStart ==
    /\ connected
    /\ \E in \in Starts : pairing_setup(in)
    /\ UNCHANGED <<connected, peer>>

(* A proof for any exchange the sender was ever offered.                   *)
SendFinish ==
    /\ connected
    /\ \E e \in offered, a \in Publics :
          /\ \E in \in Finishes(e, a) : pairing_setup(in)
          /\ proofs' = proofs \cup {<<e, minimal(a)>>}
    /\ UNCHANGED <<connected, offered, agreed>>

Hear ==
    /\ connected /\ reply # <<>>
    /\ reply' = <<>>
    /\ LET key == tlv_get(reply, 3, PublicSize)
           answer == tlv_get(reply, 4, ProofSize)
       IN  /\ offered' = IF key.ok THEN offered \cup {key.value[1]} ELSE offered
           /\ agreed' \in
                IF answer.ok
                THEN {[read |-> SharedKey("read", p[1], p[2]),
                       write |-> SharedKey("write", p[1], p[2])] :
                          p \in {q \in proofs : answer.value = Answer(q[1], q[2])}}
                ELSE {agreed}
    /\ UNCHANGED <<connected, pairing, begun, proofs>>

PairingNext == Connect \/ Disconnect \/ SendStart \/ SendFinish \/ Hear

----------------------------------------------------------------------------
(* Only the proof of the latest exchange of this connection establishes    *)
(* pairing: not that of an exchange a new M1 replaced, of an earlier       *)
(* connection, or one already used.  The keys are then those the sender    *)
(* derives, in opposite directions, until the connection ends; and the     *)
(* pool holds exactly the numbers of the exchange in progress, whichever   *)
(* way the ones before it ended.                                           *)
PairingSound ==
    /\ live = {exchange} \ {0}
    /\ IF established
       THEN /\ exchange = 0 /\ connected
            /\ \E p \in proofs : p[1] = begun /\ keys.write = SharedKey("read", p[1], p[2])
       ELSE keys = NoKeys
    /\ agreed # NoKeys => keys = [read |-> agreed.write, write |-> agreed.read]
=============================================================================

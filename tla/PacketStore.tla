---------------------------- MODULE PacketStore -----------------------------
(***************************************************************************)
(* What the raw-packet opcodes promise a program, with no slots, buffers   *)
(* or heap in sight: a packet id names one packet from RAW_ALLOC until     *)
(* RAW_FREE, every other id is untouched by what is done to it, and        *)
(* RAW_SEND transmits exactly the payload that was put into that packet.   *)
(* NetPackets implements this.                                             *)
(***************************************************************************)
EXTENDS Integers, Sequences

CONSTANTS Ids,          \* packet identifiers
          NoPacket,     \* what an id that names no packet is mapped to
          NoDatagram    \* the wire before the first transmission

VARIABLES store,        \* id -> its packet or NoPacket; <<>> without a net state
          wire          \* the datagram transmitted last

storevars == <<store, wire>>

Live(id) == store[id] # NoPacket

EmptyPacket(capacity) ==
  [capacity |-> capacity, payload |-> <<>>, proto |-> 0, src |-> 0, dst |-> 0]

EmptyStores == {<<>>, [id \in Ids |-> NoPacket]}

Init == store \in EmptyStores /\ wire = NoDatagram

(* A fresh id: never one that is in use, and never someone else's content. *)
Alloc(id) == /\ ~Live(id)
             /\ store'[id] # NoPacket
             /\ store'[id].capacity > 0
             /\ store' = [store EXCEPT ![id] = EmptyPacket(store'[id].capacity)]
             /\ UNCHANGED wire

Free(id) == /\ Live(id)
            /\ store' = [store EXCEPT ![id] = NoPacket]
            /\ UNCHANGED wire

SetHeader(id) == /\ Live(id)
                 /\ store'[id] # NoPacket
                 /\ \E field \in {"proto", "src", "dst"} :
                      store' = [store EXCEPT ![id][field] = store'[id][field]]
                 /\ UNCHANGED wire

SetPayload(id) == /\ Live(id)
                  /\ store'[id] # NoPacket
                  /\ Len(store'[id].payload) <= store[id].capacity
                  /\ store' = [store EXCEPT ![id].payload = store'[id].payload]
                  /\ UNCHANGED wire

Send(id) == /\ Live(id)
            /\ wire' = [dst |-> store[id].dst, data |-> store[id].payload]
            /\ UNCHANGED store

(* The net state comes with a VM and goes with it, all packets at once.    *)
Create  == store = <<>> /\ store' \in EmptyStores /\ UNCHANGED wire
Destroy == store' = <<>> /\ UNCHANGED wire

Next == \/ /\ DOMAIN store' = DOMAIN store
           /\ \E id \in DOMAIN store :
                Alloc(id) \/ Free(id) \/ SetHeader(id) \/ SetPayload(id) \/ Send(id)
        \/ Create
        \/ Destroy

Spec == Init /\ [][Next]_storevars
=============================================================================

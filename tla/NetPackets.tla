----------------------------- MODULE NetPackets -----------------------------
(***************************************************************************)
(* The raw-packet table of a VM (src/src/net.c, src/src/net.h): a fixed    *)
(* array of slots, each owning a heap buffer while it is in use.  Every    *)
(* zeus_net_packet_* function is an action whose last argument is the      *)
(* value the function returns.  malloc and the raw socket are external:    *)
(* either may fail at any call.                                            *)
(***************************************************************************)
EXTENDS MachineWords, FiniteSets

CONSTANTS MAX_PACKETS,      \* ZEUS_MAX_PACKETS
          MAX_PACKET_SIZE,  \* ZEUS_MAX_PACKET_SIZE
          Blocks,           \* addresses malloc can hand out
          NULL,             \* no buffer / no block
          NoDatagram,       \* nothing transmitted yet
          Values,           \* bound: header values a caller passes
          Sources           \* bound: memory images a caller copies payloads from

(* A packet size fits the unsigned 32-bit fields that hold it; NULL is not *)
(* a block, nor what is in one, nor what a program sees of a packet.       *)
ASSUME PacketLimits ==
  /\ MAX_PACKETS \in Nat \ {0}
  /\ MAX_PACKET_SIZE \in Address \ {0}
  /\ NULL \notin Blocks \cup Seq(Byte)
  /\ NULL \notin [capacity : Address, payload : Seq(Byte), proto : Int, src : Address, dst : Address]
  /\ Values \subseteq Word
  /\ Sources \subseteq [0 .. MAX_PACKET_SIZE -> Byte]

VARIABLES packets,          \* ns->packets; the empty function when ns is NULL
          heap,             \* contents of every live malloc block, NULL if not live
          sent              \* the datagram last handed to the raw socket

netvars == <<packets, heap, sent>>

Slots == 0 .. MAX_PACKETS - 1

Packet == [used : BOOLEAN, buf : Blocks \cup {NULL}, size : Address,
           len : Address, proto : Int, src : Address, dst : Address]

(* A slot as calloc and packet_free's memset leave it.                     *)
ZeroPacket == [used |-> FALSE, buf |-> NULL, size |-> 0, len |-> 0,
               proto |-> 0, src |-> 0, dst |-> 0]

(* packet_get returns a packet only for an id in range and in use.         *)
packet_get(id) == id \in DOMAIN packets /\ packets[id].used

NetInit == /\ packets \in {<<>>, [i \in Slots |-> ZeroPacket]}
           /\ heap = [b \in Blocks |-> NULL]
           /\ sent = NoDatagram

(* A fresh table, or none at all when calloc fails.                        *)
zeus_net_create == /\ packets' \in {<<>>, [i \in Slots |-> ZeroPacket]}
                   /\ UNCHANGED <<heap, sent>>

(* Mutant: the loop stops one slot early.                                  *)
DestroySkipsLast ==
  /\ heap' = [b \in Blocks |->
                IF \E i \in DOMAIN packets : /\ i < MAX_PACKETS - 1
                                           /\ packets[i].used /\ packets[i].buf = b
                THEN NULL ELSE heap[b]]
  /\ packets' = <<>>
  /\ UNCHANGED sent

(* Destroying the table frees the buffer of every slot in use.             *)
zeus_net_destroy ==
  /\ heap' = [b \in Blocks |->
                IF \E i \in DOMAIN packets : packets[i].used /\ packets[i].buf = b
                THEN NULL ELSE heap[b]]
  /\ packets' = <<>>
  /\ UNCHANGED sent

FreeSlots == {i \in DOMAIN packets : ~packets[i].used}

AllocFails(r) == r = -1 /\ UNCHANGED netvars

(* The lowest free slot gets a zeroed buffer of the size asked for.        *)
AllocSlot(size, r) ==
  \E b \in Blocks :
    /\ heap[b] = NULL
    /\ r \in FreeSlots /\ \A i \in FreeSlots : r <= i
    /\ heap' = [heap EXCEPT ![b] = [k \in 1 .. size |-> 0]]
    /\ packets' = [packets EXCEPT ![r] = [ZeroPacket EXCEPT !.used = TRUE, !.buf = b,
                                                            !.size = size]]
    /\ UNCHANGED sent

zeus_net_packet_alloc(size, r) ==
  \/ AllocFails(r)                 \* bad size, table full or malloc failed
  \/ size \in 1 .. MAX_PACKET_SIZE /\ AllocSlot(size, r)

(* Mutant: the buffer is freed and the slot is left as it was.             *)
FreeKeepsSlot(id) ==
  /\ packet_get(id)
  /\ heap' = [heap EXCEPT ![packets[id].buf] = NULL]
  /\ UNCHANGED <<packets, sent>>

zeus_net_packet_free(id) ==
  /\ packet_get(id)
  /\ heap' = [heap EXCEPT ![packets[id].buf] = NULL]
  /\ packets' = [packets EXCEPT ![id] = ZeroPacket]
  /\ UNCHANGED sent

zeus_net_packet_set_proto(id, proto) ==
  /\ packet_get(id)
  /\ packets' = [packets EXCEPT ![id].proto = ToI32(proto)]
  /\ UNCHANGED <<heap, sent>>

(* Mutant: the address is stored without the cast to its 32 bits.          *)
SetDstUncast(id, addr) ==
  /\ packet_get(id)
  /\ packets' = [packets EXCEPT ![id].dst = addr]
  /\ UNCHANGED <<heap, sent>>

zeus_net_packet_set_dst(id, addr) ==
  /\ packet_get(id)
  /\ packets' = [packets EXCEPT ![id].dst = ToU32(addr)]
  /\ UNCHANGED <<heap, sent>>

zeus_net_packet_set_src(id, addr) ==
  /\ packet_get(id)
  /\ packets' = [packets EXCEPT ![id].src = ToU32(addr)]
  /\ UNCHANGED <<heap, sent>>

(* Mutant: the size check is off by one.                                   *)
PayloadFitsOffByOne(id, len) == packet_get(id) /\ len <= packets[id].size + 1

PayloadFitsSlot(id, len) == packet_get(id) /\ len <= packets[id].size

(* The payload replaces the first len bytes of the buffer; the rest stays. *)
(* source is a zero-based array of bytes, read from offset on.             *)
zeus_net_packet_set_payload(id, source, offset, len) ==
  /\ PayloadFitsSlot(id, len)
  /\ LET buf == packets[id].buf
     IN  heap' = [heap EXCEPT ![buf] =
                    [k \in 1 .. packets[id].size |->
                       IF k <= len THEN source[offset + k - 1] ELSE heap[buf][k]]]
  /\ packets' = [packets EXCEPT ![id].len = len]
  /\ UNCHANGED sent

(* Mutant: the whole buffer is sent instead of the payload in it.          *)
SendWholeBuffer(id, r) ==
  \/ r = -1 /\ UNCHANGED netvars
  \/ /\ packet_get(id)
     /\ r = packets[id].size
     /\ sent' = [dst |-> packets[id].dst, data |-> heap[packets[id].buf]]
     /\ UNCHANGED <<packets, heap>>

(* A raw socket, opened for this call, takes the whole datagram or fails.  *)
zeus_net_packet_send(id, r) ==
  \/ r = -1 /\ UNCHANGED netvars
  \/ /\ packet_get(id)
     /\ r = packets[id].len
     /\ sent' = [dst  |-> packets[id].dst,
                 data |-> SubSeq(heap[packets[id].buf], 1, packets[id].len)]
     /\ UNCHANGED <<packets, heap>>

(* The callers: any call with any id, in range or not, live or stale.      *)
Ids   == -1 .. MAX_PACKETS
Sizes == 0 .. MAX_PACKET_SIZE + 1

SetHeader(id, v) == \/ zeus_net_packet_set_proto(id, v)
                    \/ zeus_net_packet_set_dst(id, v)
                    \/ zeus_net_packet_set_src(id, v)

NetNext ==
  \/ packets = <<>> /\ zeus_net_create
  \/ zeus_net_destroy
  \/ \E size \in Sizes, r \in Ids : zeus_net_packet_alloc(size, r)
  \/ \E id \in Ids : zeus_net_packet_free(id)
  \/ \E id \in Ids, v \in Values : SetHeader(id, v)
  \/ \E id \in Ids, m \in Sources, len \in Sizes : zeus_net_packet_set_payload(id, m, 0, len)
  \/ \E id \in Ids, r \in -1 .. MAX_PACKET_SIZE : zeus_net_packet_send(id, r)

NetSpec == NetInit /\ [][NetNext]_netvars

-----------------------------------------------------------------------------
(* Types: the table is absent or complete, its fields within their widths. *)
NetTypeOK ==
  /\ packets \in [Slots -> Packet] \cup {<<>>}
  /\ heap \in [Blocks -> Seq(Byte) \cup {NULL}]
  /\ sent \in [dst : Address, data : Seq(Byte)] \cup {NoDatagram}

(* Every live block belongs to exactly one slot in use and every slot in   *)
(* use owns a live block: packet_alloc, packet_free and net_destroy never  *)
(* leak a buffer, share one between two packets or keep a freed one.       *)
Owners(b) == {i \in DOMAIN packets : packets[i].used /\ packets[i].buf = b}

BuffersOwned ==
  /\ \A i \in DOMAIN packets : packets[i].used => packets[i].buf \in Blocks
  /\ \A b \in Blocks : heap[b] # NULL <=> Owners(b) # {}
  /\ \A i, j \in DOMAIN packets :
        packets[i].used /\ packets[j].used /\ packets[i].buf = packets[j].buf => i = j

(* The length packet_send reads, and the size packet_set_payload checks a  *)
(* copy against, never exceed the block that was really allocated.         *)
PayloadFits ==
  \A i \in DOMAIN packets : packets[i].used =>
    /\ packets[i].size = Len(heap[packets[i].buf])
    /\ packets[i].len <= packets[i].size

(* The table implements the promise made to programs: what a packet id is  *)
(* worth is the packet in its slot, its payload the first len bytes of the *)
(* buffer the slot owns.                                                   *)
PacketOf(p) ==
  [capacity |-> p.size, payload |-> SubSeq(heap[p.buf], 1, p.len),
   proto |-> p.proto, src |-> p.src, dst |-> p.dst]

PacketsById == [i \in DOMAIN packets |->
                  IF packets[i].used THEN PacketOf(packets[i]) ELSE NULL]

Promised == INSTANCE PacketStore
              WITH Ids <- Slots, NoPacket <- NULL, store <- PacketsById, wire <- sent

ImplementsPacketStore == Promised!Spec
=============================================================================

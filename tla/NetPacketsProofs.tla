-------------------------- MODULE NetPacketsProofs --------------------------
(***************************************************************************)
(* NetPackets is safe for any number of slots, any heap and any caller:    *)
(* the three invariants that MCNetPackets checks on two slots are together *)
(* inductive, and the table implements PacketStore.  The lemmas take the   *)
(* arguments of a call as they come, so they hold for the calls of a VM as *)
(* well as for those of NetNext.                                           *)
(***************************************************************************)
EXTENDS NetPackets, TLAPS

NetInv == NetTypeOK /\ BuffersOwned /\ PayloadFits

(* What the proofs need to know of bytes and 32-bit fields.                *)
LEMMA Words == 0 \in Address /\ 0 \in Byte /\ Address \subseteq Nat
BY DEF Address, Byte

USE Words

(* A packet size is a small positive number.                               *)
LEMMA PacketSizes ==
  ASSUME NEW size \in 1 .. MAX_PACKET_SIZE
  PROVE  size \in Nat /\ size \in Address
<1>1. MAX_PACKET_SIZE \in 1 .. 255
  BY PacketLimits DEF Address
<1>2. QED
  BY <1>1 DEF Address

(* A buffer is a sequence of as many bytes as it was allocated for.        *)
LEMMA SequenceOfBytes ==
  ASSUME NEW n \in Nat, NEW buf \in [1 .. n -> Byte]
  PROVE  buf \in Seq(Byte) /\ Len(buf) = n
OBVIOUS

(* The slot as packet_alloc fills it in.                                   *)
LEMMA FreshPacket ==
  ASSUME NEW size \in Address, NEW b \in Blocks
  PROVE  LET p == [ZeroPacket EXCEPT !.used = TRUE, !.buf = b, !.size = size]
         IN  p \in Packet /\ p.used /\ p.buf = b /\ p.size = size /\ p.len = 0
<1> DEFINE p == [ZeroPacket EXCEPT !.used = TRUE, !.buf = b, !.size = size]
<1>1. p \in Packet
  <2>1. ZeroPacket \in Packet
    BY DEF ZeroPacket, Packet
  <2>2. QED
    BY <2>1 DEF Packet
<1>2. p.used /\ p.buf = b /\ p.size = size /\ p.len = 0
  BY DEF ZeroPacket
<1>3. QED
  BY <1>1, <1>2

(* The two tables a calloc may return satisfy the invariant on a heap with *)
(* no live block.                                                          *)
LEMMA EmptyTables ==
  ASSUME NetTypeOK, packets' \in {<<>>, [i \in Slots |-> ZeroPacket]},
         heap' \in [Blocks -> {NULL}], sent' = sent
  PROVE  NetInv'
<1>1. ZeroPacket \in Packet
  BY DEF ZeroPacket, Packet
<1>2. NetTypeOK'
  BY <1>1 DEF NetTypeOK
<1>3. \A i \in DOMAIN packets' : ~packets'[i].used
  BY DEF ZeroPacket
<1>4. QED
  BY <1>2, <1>3 DEF NetInv, BuffersOwned, PayloadFits, Owners

(* A used slot holds a packet whose buffer is a live block.                *)
LEMMA UsedSlot ==
  ASSUME NetInv, NEW i, packet_get(i)
  PROVE  /\ packets \in [Slots -> Packet] /\ i \in Slots /\ DOMAIN packets = Slots
         /\ packets[i] \in Packet /\ packets[i].used
         /\ packets[i].buf \in Blocks
         /\ heap[packets[i].buf] \in Seq(Byte)
         /\ packets[i].size = Len(heap[packets[i].buf])
         /\ packets[i].len <= packets[i].size
<1>1. packets \in [Slots -> Packet] /\ i \in Slots /\ packets[i].used
  BY DEF NetInv, NetTypeOK, packet_get
<1>2. packets[i].buf \in Blocks
  BY <1>1 DEF NetInv, BuffersOwned
<1>3. i \in Owners(packets[i].buf)
  BY <1>1 DEF Owners
<1>4. heap[packets[i].buf] # NULL
  BY <1>2, <1>3 DEF NetInv, BuffersOwned
<1>5. QED
  BY <1>1, <1>2, <1>4 DEF NetInv, NetTypeOK, PayloadFits
-----------------------------------------------------------------------------
(* Each operation preserves the invariant.                                 *)

(* Destroying the table frees every live block, since each has an owner.   *)
LEMMA DestroyPreserves ==
  ASSUME NetInv, zeus_net_destroy
  PROVE  NetInv'
<1>1. heap' \in [Blocks -> {NULL}]
  <2> SUFFICES ASSUME NEW b \in Blocks
               PROVE  heap'[b] = NULL
    BY DEF zeus_net_destroy
  <2>1. CASE heap[b] = NULL
    BY <2>1 DEF zeus_net_destroy
  <2>2. CASE heap[b] # NULL
    <3>1. PICK i \in DOMAIN packets : packets[i].used /\ packets[i].buf = b
      BY <2>2 DEF NetInv, BuffersOwned, Owners
    <3>2. QED
      BY <3>1 DEF zeus_net_destroy
  <2>3. QED
    BY <2>1, <2>2
<1>2. QED
  BY <1>1, EmptyTables DEF zeus_net_destroy, NetInv

(* Whoever is handed a table from calloc starts with no live block.        *)
LEMMA CreatePreserves ==
  ASSUME NetInv, packets = <<>>, zeus_net_create
  PROVE  NetInv'
<1>1. \A b \in Blocks : Owners(b) = {}
  BY DEF Owners
<1>2. heap' \in [Blocks -> {NULL}]
  BY <1>1 DEF NetInv, NetTypeOK, BuffersOwned, zeus_net_create
<1>3. QED
  BY <1>2, EmptyTables DEF zeus_net_create, NetInv

(* The block a slot is given had no owner, and its size is the slot's.     *)
LEMMA AllocSlotPreserves ==
  ASSUME NetInv, NEW size \in 1 .. MAX_PACKET_SIZE, NEW r, AllocSlot(size, r)
  PROVE  NetInv'
<1> DEFINE fresh == [k \in 1 .. size |-> 0]
<1>1. PICK b \in Blocks :
        /\ heap[b] = NULL /\ r \in FreeSlots
        /\ heap' = [heap EXCEPT ![b] = fresh]
        /\ packets' = [packets EXCEPT ![r] = [ZeroPacket EXCEPT !.used = TRUE, !.buf = b,
                                                                !.size = size]]
        /\ sent' = sent
  BY DEF AllocSlot
<1> DEFINE p == [ZeroPacket EXCEPT !.used = TRUE, !.buf = b, !.size = size]
<1>2. packets \in [Slots -> Packet] /\ r \in Slots /\ ~packets[r].used
  BY <1>1 DEF NetInv, NetTypeOK, FreeSlots
<1>3. size \in Nat /\ size \in Address
  BY PacketSizes
<1>4. fresh \in Seq(Byte) /\ Len(fresh) = size
  <2>1. fresh \in [1 .. size -> Byte]
    OBVIOUS
  <2>2. QED
    BY <2>1, <1>3, SequenceOfBytes
<1>5. fresh # NULL
  <2> HIDE DEF fresh
  <2>1. NULL \notin Seq(Byte)
    BY PacketLimits
  <2>2. QED
    BY <2>1, <1>4, Zenon
<1>6. p \in Packet /\ p.used /\ p.buf = b /\ p.size = size /\ p.len = 0
  BY <1>3, FreshPacket, Zenon
<1>7. /\ heap' = [heap EXCEPT ![b] = fresh] /\ packets' = [packets EXCEPT ![r] = p]
      /\ sent' = sent
  BY <1>1
<1> HIDE DEF fresh, p
<1>8. NetTypeOK'
  BY <1>2, <1>4, <1>6, <1>7 DEF NetInv, NetTypeOK
<1>9. Owners(b) = {}
  BY <1>1 DEF NetInv, BuffersOwned
<1>10. \A i \in Slots : packets[i].used => packets[i].buf # b
  BY <1>2, <1>9 DEF Owners
<1>11. \A c \in Blocks : Owners(c)' = IF c = b THEN {r} ELSE Owners(c)
  BY <1>2, <1>6, <1>7, <1>10 DEF Owners
<1>12. BuffersOwned'
  <2>1. \A i \in DOMAIN packets' : packets'[i].used => packets'[i].buf \in Blocks
    BY <1>2, <1>6, <1>7 DEF NetInv, BuffersOwned
  <2>2. \A c \in Blocks : heap'[c] # NULL <=> Owners(c)' # {}
    BY <1>1, <1>5, <1>7, <1>11 DEF NetInv, NetTypeOK, BuffersOwned
  <2>3. \A i, j \in DOMAIN packets' :
          packets'[i].used /\ packets'[j].used /\ packets'[i].buf = packets'[j].buf => i = j
    BY <1>2, <1>6, <1>7, <1>10 DEF NetInv, BuffersOwned
  <2>4. QED
    BY <2>1, <2>2, <2>3 DEF BuffersOwned
<1>13. PayloadFits'
  <2> SUFFICES ASSUME NEW i \in Slots, packets'[i].used
               PROVE  /\ packets'[i].size = Len(heap'[packets'[i].buf])
                      /\ packets'[i].len <= packets'[i].size
    BY <1>2, <1>7 DEF PayloadFits
  <2>1. CASE i = r
    BY <2>1, <1>2, <1>3, <1>4, <1>6, <1>7 DEF NetInv, NetTypeOK
  <2>2. CASE i # r
    <3>1. packets'[i] = packets[i] /\ packets[i].buf # b
      BY <2>2, <1>2, <1>7, <1>10
    <3>2. heap'[packets[i].buf] = heap[packets[i].buf]
      BY <3>1, <1>2, <1>7 DEF NetInv, NetTypeOK, BuffersOwned
    <3>3. QED
      BY <3>1, <3>2, <1>2 DEF NetInv, PayloadFits
  <2>3. QED
    BY <2>1, <2>2
<1>14. QED
  BY <1>8, <1>12, <1>13 DEF NetInv

(* An allocation fills one slot or fails and changes nothing.              *)
LEMMA AllocPreserves ==
  ASSUME NetInv, NEW size \in Int, NEW r, zeus_net_packet_alloc(size, r)
  PROVE  NetInv'
<1>1. CASE AllocFails(r)
  BY <1>1 DEF AllocFails, netvars, NetInv, NetTypeOK, BuffersOwned, PayloadFits, Owners
<1>2. CASE size \in 1 .. MAX_PACKET_SIZE /\ AllocSlot(size, r)
  BY <1>2, AllocSlotPreserves
<1>3. QED
  BY <1>1, <1>2 DEF zeus_net_packet_alloc

(* The freed block had one owner, which gives it up.                       *)
LEMMA FreePreserves ==
  ASSUME NetInv, NEW id, zeus_net_packet_free(id)
  PROVE  NetInv'
<1>1. packet_get(id)
  BY DEF zeus_net_packet_free
<1> DEFINE b == packets[id].buf
<1>2. /\ packets \in [Slots -> Packet] /\ id \in Slots /\ DOMAIN packets = Slots
      /\ b \in Blocks /\ packets[id].used
  BY <1>1, UsedSlot
<1>3. /\ heap' = [heap EXCEPT ![b] = NULL] /\ packets' = [packets EXCEPT ![id] = ZeroPacket]
      /\ sent' = sent
  BY DEF zeus_net_packet_free
<1>4. ZeroPacket \in Packet /\ ~ZeroPacket.used
  BY DEF ZeroPacket, Packet
<1>5. NetTypeOK'
  BY <1>2, <1>3, <1>4 DEF NetInv, NetTypeOK
<1>6. \A i \in Slots : packets[i].used /\ packets[i].buf = b => i = id
  BY <1>2 DEF NetInv, BuffersOwned
<1> HIDE DEF b
<1>7. \A c \in Blocks : Owners(c)' = IF c = b THEN {} ELSE Owners(c)
  BY <1>2, <1>3, <1>4, <1>6 DEF Owners, b
<1>8. BuffersOwned'
  BY <1>2, <1>3, <1>4, <1>7 DEF NetInv, NetTypeOK, BuffersOwned
<1>9. PayloadFits'
  BY <1>2, <1>3, <1>4, <1>6 DEF NetInv, NetTypeOK, BuffersOwned, PayloadFits
<1>10. QED
  BY <1>5, <1>8, <1>9 DEF NetInv

(* The header fields are of no interest to the other two invariants.       *)
LEMMA SetHeaderPreserves ==
  ASSUME NetInv, NEW id, NEW v \in Int, SetHeader(id, v)
  PROVE  NetInv'
<1>1. packet_get(id) /\ heap' = heap /\ sent' = sent
  BY DEF SetHeader, zeus_net_packet_set_proto, zeus_net_packet_set_dst, zeus_net_packet_set_src
<1>2. packets \in [Slots -> Packet] /\ id \in Slots /\ packets[id] \in Packet
  BY <1>1, UsedSlot
<1>3. ToI32(v) \in Int /\ ToU32(v) \in Address
  BY DEF ToI32, ToU32, Address
<1>4. PICK p \in Packet : /\ packets' = [packets EXCEPT ![id] = p]
                          /\ p.used = packets[id].used /\ p.buf = packets[id].buf
                          /\ p.size = packets[id].size /\ p.len = packets[id].len
  <2>1. CASE zeus_net_packet_set_proto(id, v)
    <3> DEFINE q == [packets[id] EXCEPT !.proto = ToI32(v)]
    <3>1. /\ q \in Packet /\ q.used = packets[id].used /\ q.buf = packets[id].buf
          /\ q.size = packets[id].size /\ q.len = packets[id].len
      BY <1>2, <1>3 DEF Packet
    <3>2. packets' = [packets EXCEPT ![id] = q]
      BY <2>1 DEF zeus_net_packet_set_proto
    <3>3. QED
      BY <3>1, <3>2
  <2>2. CASE zeus_net_packet_set_dst(id, v)
    <3> DEFINE q == [packets[id] EXCEPT !.dst = ToU32(v)]
    <3>1. /\ q \in Packet /\ q.used = packets[id].used /\ q.buf = packets[id].buf
          /\ q.size = packets[id].size /\ q.len = packets[id].len
      BY <1>2, <1>3 DEF Packet
    <3>2. packets' = [packets EXCEPT ![id] = q]
      BY <2>2 DEF zeus_net_packet_set_dst
    <3>3. QED
      BY <3>1, <3>2
  <2>3. CASE zeus_net_packet_set_src(id, v)
    <3> DEFINE q == [packets[id] EXCEPT !.src = ToU32(v)]
    <3>1. /\ q \in Packet /\ q.used = packets[id].used /\ q.buf = packets[id].buf
          /\ q.size = packets[id].size /\ q.len = packets[id].len
      BY <1>2, <1>3 DEF Packet
    <3>2. packets' = [packets EXCEPT ![id] = q]
      BY <2>3 DEF zeus_net_packet_set_src
    <3>3. QED
      BY <3>1, <3>2
  <2>4. QED
    BY <2>1, <2>2, <2>3 DEF SetHeader
<1>5. NetTypeOK'
  BY <1>1, <1>2, <1>4 DEF NetInv, NetTypeOK
<1>6. \A i \in Slots : /\ packets'[i].used = packets[i].used
                       /\ packets'[i].buf = packets[i].buf
                       /\ packets'[i].size = packets[i].size
                       /\ packets'[i].len = packets[i].len
  BY <1>2, <1>4
<1>7. DOMAIN packets = Slots /\ DOMAIN packets' = Slots
  BY <1>2, <1>4
<1>8. \A b \in Blocks : Owners(b)' = Owners(b)
  BY <1>6, <1>7 DEF Owners
<1>9. QED
  BY <1>1, <1>5, <1>6, <1>7, <1>8 DEF NetInv, BuffersOwned, PayloadFits

(* The bytes a caller copies are bytes, however long its source is.        *)
LEMMA SetPayloadPreserves ==
  ASSUME NetInv, NEW id, NEW source, NEW offset \in Int, NEW len \in Nat,
         \A k \in 1 .. len : source[offset + k - 1] \in Byte,
         zeus_net_packet_set_payload(id, source, offset, len)
  PROVE  NetInv'
<1>1. packet_get(id) /\ len <= packets[id].size
  BY DEF zeus_net_packet_set_payload, PayloadFitsSlot
<1> DEFINE b   == packets[id].buf
           new == [k \in 1 .. packets[id].size |->
                     IF k <= len THEN source[offset + k - 1] ELSE heap[b][k]]
           p   == [packets[id] EXCEPT !.len = len]
<1>2. /\ packets \in [Slots -> Packet] /\ id \in Slots /\ packets[id] \in Packet
      /\ packets[id].used /\ b \in Blocks /\ heap[b] \in Seq(Byte)
      /\ packets[id].size = Len(heap[b])
  BY <1>1, UsedSlot, Zenon
<1>3. packets[id].size \in Address /\ packets[id].size \in Nat
  BY <1>2 DEF Packet
<1>4. new \in Seq(Byte) /\ Len(new) = packets[id].size
  <2>1. \A k \in 1 .. Len(heap[b]) : heap[b][k] \in Byte
    BY <1>2
  <2>2. new \in [1 .. packets[id].size -> Byte]
    <3> SUFFICES ASSUME NEW k \in 1 .. packets[id].size
                 PROVE  (IF k <= len THEN source[offset + k - 1] ELSE heap[b][k]) \in Byte
      BY Zenon
    <3>1. k \in 1 .. Len(heap[b])
      BY <1>2
    <3>2. k <= len => k \in 1 .. len
      BY <1>3
    <3>3. QED
      BY <2>1, <3>1, <3>2
  <2> HIDE DEF new
  <2>3. QED
    BY <2>2, <1>3, SequenceOfBytes
<1>5. p \in Packet /\ p.used /\ p.buf = b /\ p.size = packets[id].size /\ p.len = len
  <2>1. len \in Address
    BY <1>1, <1>3 DEF Address
  <2>2. QED
    BY <2>1, <1>2 DEF Packet
<1>6. /\ heap' = [heap EXCEPT ![b] = new] /\ packets' = [packets EXCEPT ![id] = p]
      /\ sent' = sent
  BY DEF zeus_net_packet_set_payload
<1>7. new # NULL
  <2> HIDE DEF new
  <2>1. NULL \notin Seq(Byte)
    BY PacketLimits
  <2>2. QED
    BY <2>1, <1>4, Zenon
<1>8. heap[b] # NULL
  <2>1. NULL \notin Seq(Byte)
    BY PacketLimits
  <2>2. QED
    BY <2>1, <1>2, Zenon
<1>9. \A i \in Slots : packets[i].used /\ packets[i].buf = b => i = id
  BY <1>2 DEF NetInv, BuffersOwned
<1> HIDE DEF b, new, p
<1>10. NetTypeOK'
  BY <1>2, <1>4, <1>5, <1>6 DEF NetInv, NetTypeOK
<1>11. \A i \in Slots : packets'[i].used = packets[i].used /\ packets'[i].buf = packets[i].buf
  BY <1>2, <1>5, <1>6 DEF b
<1>12. DOMAIN packets = Slots /\ DOMAIN packets' = Slots
  BY <1>2, <1>6
<1>13. \A c \in Blocks : Owners(c)' = Owners(c) /\ (heap'[c] # NULL <=> heap[c] # NULL)
  BY <1>6, <1>7, <1>8, <1>11, <1>12 DEF Owners, NetInv, NetTypeOK
<1>14. BuffersOwned'
  BY <1>11, <1>12, <1>13 DEF NetInv, BuffersOwned
<1>15. PayloadFits'
  <2> SUFFICES ASSUME NEW i \in Slots, packets'[i].used
               PROVE  /\ packets'[i].size = Len(heap'[packets'[i].buf])
                      /\ packets'[i].len <= packets'[i].size
    BY <1>12 DEF PayloadFits
  <2>1. CASE i = id
    BY <2>1, <1>1, <1>2, <1>4, <1>5, <1>6 DEF NetInv, NetTypeOK
  <2>2. CASE i # id
    <3>1. packets'[i] = packets[i] /\ packets[i].buf # b
      BY <2>2, <1>2, <1>6, <1>9
    <3>2. packets[i].buf \in Blocks /\ heap'[packets[i].buf] = heap[packets[i].buf]
      BY <3>1, <1>2, <1>6 DEF NetInv, NetTypeOK, BuffersOwned
    <3>3. QED
      BY <3>1, <3>2, <1>2 DEF NetInv, PayloadFits
  <2>3. QED
    BY <2>1, <2>2
<1>16. QED
  BY <1>10, <1>14, <1>15 DEF NetInv

(* Sending reads the buffer up to the length of the payload.               *)
LEMMA SendPreserves ==
  ASSUME NetInv, NEW id, NEW r, zeus_net_packet_send(id, r)
  PROVE  NetInv'
<1>1. UNCHANGED <<packets, heap>>
  BY DEF zeus_net_packet_send, netvars
<1>2. sent' \in [dst : Address, data : Seq(Byte)] \cup {NoDatagram}
  <2>1. CASE sent' = sent
    BY <2>1 DEF NetInv, NetTypeOK
  <2>2. CASE packet_get(id) /\ sent' = [dst  |-> packets[id].dst,
                 data |-> SubSeq(heap[packets[id].buf], 1, packets[id].len)]
    <3>1. /\ packets[id] \in Packet /\ heap[packets[id].buf] \in Seq(Byte)
          /\ packets[id].len <= Len(heap[packets[id].buf])
      BY <2>2, UsedSlot
    <3>2. packets[id].dst \in Address /\ packets[id].len \in Nat
      BY <3>1 DEF Packet
    <3>3. SubSeq(heap[packets[id].buf], 1, packets[id].len) \in Seq(Byte)
      BY <3>1, <3>2
    <3>4. QED
      BY <2>2, <3>2, <3>3, Zenon
  <2>3. QED
    BY <2>1, <2>2 DEF zeus_net_packet_send, netvars
<1>3. QED
  BY <1>1, <1>2 DEF NetInv, NetTypeOK, BuffersOwned, PayloadFits, Owners

(* The invariant is about the table and the heap only.                     *)
LEMMA StutterPreserves ==
  ASSUME NetInv, UNCHANGED netvars
  PROVE  NetInv'
BY DEF netvars, NetInv, NetTypeOK, BuffersOwned, PayloadFits, Owners

-----------------------------------------------------------------------------
(* The initial states satisfy the invariant.                               *)
LEMMA NetInitInv == NetInit => NetInv
<1> SUFFICES ASSUME NetInit PROVE NetInv
  OBVIOUS
<1>1. ZeroPacket \in Packet
  BY DEF ZeroPacket, Packet
<1>2. NetTypeOK
  BY <1>1 DEF NetInit, NetTypeOK
<1>3. \A i \in DOMAIN packets : ~packets[i].used
  BY DEF NetInit, ZeroPacket
<1>4. \A b \in Blocks : heap[b] = NULL
  BY DEF NetInit
<1>5. QED
  BY <1>2, <1>3, <1>4 DEF NetInv, BuffersOwned, PayloadFits, Owners

(* Every call preserves the invariant.                                     *)
LEMMA NetStep == NetInv /\ [NetNext]_netvars => NetInv'
<1> SUFFICES ASSUME NetInv, [NetNext]_netvars PROVE NetInv'
  OBVIOUS
<1>1. CASE packets = <<>> /\ zeus_net_create
  BY <1>1, CreatePreserves
<1>2. CASE zeus_net_destroy
  BY <1>2, DestroyPreserves
<1>3. ASSUME NEW size \in Sizes, NEW r \in Ids, zeus_net_packet_alloc(size, r)
      PROVE  NetInv'
  <2>1. size \in Int
    BY PacketLimits DEF Sizes
  <2>2. QED
    BY <1>3, <2>1, AllocPreserves
<1>4. ASSUME NEW id \in Ids, zeus_net_packet_free(id) PROVE NetInv'
  BY <1>4, FreePreserves
<1>5. ASSUME NEW id \in Ids, NEW v \in Values, SetHeader(id, v) PROVE NetInv'
  <2>1. v \in Int
    BY PacketLimits DEF Word
  <2>2. QED
    BY <1>5, <2>1, SetHeaderPreserves
<1>6. ASSUME NEW id \in Ids, NEW m \in Sources, NEW len \in Sizes,
             zeus_net_packet_set_payload(id, m, 0, len)
      PROVE  NetInv'
  <2>1. MAX_PACKET_SIZE \in Nat /\ len \in Nat /\ len <= MAX_PACKET_SIZE + 1
    <3>1. MAX_PACKET_SIZE \in Nat
      BY PacketLimits DEF Address
    <3>2. QED
      BY <3>1 DEF Sizes
  <2>2. m \in [0 .. MAX_PACKET_SIZE -> Byte]
    BY PacketLimits, Zenon
  <2>3. \A k \in 1 .. len : m[0 + k - 1] \in Byte
    BY <2>1, <2>2
  <2>4. QED
    BY <1>6, <2>1, <2>3, SetPayloadPreserves
<1>7. ASSUME NEW id \in Ids, NEW r \in -1 .. MAX_PACKET_SIZE, zeus_net_packet_send(id, r)
      PROVE  NetInv'
  BY <1>7, SendPreserves
<1>8. CASE UNCHANGED netvars
  BY <1>8, StutterPreserves
<1>9. QED
  BY <1>1, <1>2, <1>3, <1>4, <1>5, <1>6, <1>7, <1>8 DEF NetNext

-----------------------------------------------------------------------------
(* The table is always well typed and no buffer is ever leaked, shared,    *)
(* kept after free or read past its end, for any MAX_PACKETS, any          *)
(* MAX_PACKET_SIZE and any heap.                                           *)
THEOREM NetInvariant == NetSpec => []NetInv
<1>1. NetInit => NetInv
  BY NetInitInv
<1>2. NetInv /\ [NetNext]_netvars => NetInv'
  BY NetStep
<1>3. QED
  BY <1>1, <1>2, PTL DEF NetSpec

(* Type correctness of the packet table (net.c).                           *)
THEOREM NetTypes == NetSpec => []NetTypeOK
<1>1. NetInv => NetTypeOK
  BY DEF NetInv
<1>2. QED
  BY <1>1, NetInvariant, PTL

(* Buffer ownership: packet_alloc, packet_free and net_destroy.            *)
THEOREM NetBuffersOwned == NetSpec => []BuffersOwned
<1>1. NetInv => BuffersOwned
  BY DEF NetInv
<1>2. QED
  BY <1>1, NetInvariant, PTL

(* The length packet_send reads stays inside the block of the packet.      *)
THEOREM NetPayloadFits == NetSpec => []PayloadFits
<1>1. NetInv => PayloadFits
  BY DEF NetInv
<1>2. QED
  BY <1>1, NetInvariant, PTL

-----------------------------------------------------------------------------
(* The packet table implements PacketStore, for any number of slots, any   *)
(* heap and any caller: what is done to one packet id leaves every other   *)
(* one alone, though their buffers come from one heap.                     *)

(* What a step is to a program: a step of the store, or nothing.           *)
PromiseKept == Promised!Next \/ UNCHANGED Promised!storevars

StoredPacket == [capacity : Address, payload : Seq(Byte), proto : Int, src : Address, dst : Address]

(* What the store holds is never mistaken for an empty slot.               *)
LEMMA NullIsNoPacket == NULL \notin StoredPacket
BY PacketLimits DEF StoredPacket

LEMMA Prefix ==
  ASSUME NEW buf \in Seq(Byte), NEW n \in Nat, n <= Len(buf)
  PROVE  SubSeq(buf, 1, n) \in Seq(Byte) /\ Len(SubSeq(buf, 1, n)) = n
OBVIOUS

LEMMA RecordStored ==
  ASSUME NEW c \in Address, NEW l \in Seq(Byte), NEW a \in Int, NEW b \in Address, NEW d \in Address
  PROVE  [capacity |-> c, payload |-> l, proto |-> a, src |-> b, dst |-> d] \in StoredPacket
BY DEF StoredPacket

(* What it is for one header field at most to change.                      *)
DiffersInOneField(old, new) ==
  \E field \in {"proto", "src", "dst"} : new = [old EXCEPT ![field] = new[field]]

LEMMA HeaderChanged ==
  ASSUME NEW old, NEW new, NEW c, NEW l, NEW a, NEW b, NEW d, NEW x, NEW y, NEW z,
         old = [capacity |-> c, payload |-> l, proto |-> a, src |-> b, dst |-> d],
         new = [capacity |-> c, payload |-> l, proto |-> x, src |-> y, dst |-> z],
         \/ y = b /\ z = d
         \/ x = a /\ z = d
         \/ x = a /\ y = b
  PROVE  DiffersInOneField(old, new)
<1>1. CASE y = b /\ z = d
  <2>1. new = [old EXCEPT !["proto"] = new["proto"]]
    BY <1>1, SMT
  <2>2. QED
    BY <2>1 DEF DiffersInOneField
<1>2. CASE x = a /\ z = d
  <2>1. new = [old EXCEPT !["src"] = new["src"]]
    BY <1>2, SMT
  <2>2. QED
    BY <2>1 DEF DiffersInOneField
<1>3. CASE x = a /\ y = b
  <2>1. new = [old EXCEPT !["dst"] = new["dst"]]
    BY <1>3, SMT
  <2>2. QED
    BY <2>1 DEF DiffersInOneField
<1>4. QED
  BY <1>1, <1>2, <1>3

-----------------------------------------------------------------------------
(* The store has an entry per slot.                                        *)
LEMMA StoredById ==
  /\ DOMAIN PacketsById = DOMAIN packets
  /\ \A i \in DOMAIN packets : PacketsById[i] = IF packets[i].used THEN PacketOf(packets[i]) ELSE NULL
BY DEF PacketsById

(* An id that is in use names a packet of the store.                       *)
LEMMA LivePacket ==
  ASSUME NetInv, NEW id, packet_get(id)
  PROVE  /\ id \in DOMAIN PacketsById /\ PacketsById[id] = PacketOf(packets[id])
         /\ PacketsById[id] \in StoredPacket /\ Promised!Live(id)
<1>1. /\ id \in Slots /\ DOMAIN packets = Slots /\ packets[id] \in Packet /\ packets[id].used
      /\ heap[packets[id].buf] \in Seq(Byte)
      /\ packets[id].size = Len(heap[packets[id].buf]) /\ packets[id].len <= packets[id].size
  BY UsedSlot
<1>2. id \in DOMAIN PacketsById /\ PacketsById[id] = PacketOf(packets[id])
  BY <1>1, StoredById
<1>3. SubSeq(heap[packets[id].buf], 1, packets[id].len) \in Seq(Byte)
  <2>1. packets[id].len \in Address
    BY <1>1 DEF Packet
  <2>2. packets[id].len \in Nat /\ packets[id].len <= Len(heap[packets[id].buf])
    BY <1>1, <2>1
  <2>3. QED
    BY <1>1, <2>2, Prefix
<1>4. PacketOf(packets[id]) \in StoredPacket
  BY <1>1, <1>3 DEF PacketOf, StoredPacket, Packet
<1>5. PacketsById[id] # NULL
  BY <1>2, <1>4, NullIsNoPacket
<1>6. QED
  BY <1>2, <1>4, <1>5 DEF Promised!Live

(* A step that touches one slot, and of the heap only what the others do   *)
(* not own, changes one id.                                                *)
LEMMA OneIdChanges ==
  ASSUME NEW id \in DOMAIN packets, DOMAIN packets' = DOMAIN packets,
         \A i \in DOMAIN packets \ {id} :
           /\ packets'[i] = packets[i]
           /\ packets[i].used => heap'[packets[i].buf] = heap[packets[i].buf]
  PROVE  /\ PacketsById' = [PacketsById EXCEPT ![id] = PacketsById'[id]]
         /\ DOMAIN PacketsById' = DOMAIN PacketsById /\ id \in DOMAIN PacketsById
         /\ PacketsById'[id] = IF packets'[id].used THEN PacketOf(packets[id])' ELSE NULL
<1>1. /\ PacketsById' = [i \in DOMAIN packets |-> IF packets'[i].used THEN PacketOf(packets[i])' ELSE NULL]
      /\ PacketsById = [i \in DOMAIN packets |-> IF packets[i].used THEN PacketOf(packets[i]) ELSE NULL]
  BY DEF PacketsById
<1>2. \A i \in DOMAIN packets \ {id} : PacketsById'[i] = PacketsById[i]
  BY <1>1 DEF PacketOf
<1>3. QED
  BY <1>1, <1>2

-----------------------------------------------------------------------------
(* Each operation keeps the promise.                                       *)
LEMMA CreateKeeps ==
  ASSUME packets = <<>>, zeus_net_create
  PROVE  PromiseKept
<1>1. PacketsById = <<>>
  BY DEF PacketsById
<1>2. CASE packets' = <<>>
  BY <1>1, <1>2 DEF PacketsById, PromiseKept, zeus_net_create, Promised!storevars
<1>3. CASE packets' = [i \in Slots |-> ZeroPacket]
  <2>1. PacketsById' = [i \in Slots |-> NULL]
    BY <1>3 DEF PacketsById, ZeroPacket
  <2>2. QED
    BY <1>1, <2>1 DEF PromiseKept, zeus_net_create, Promised!Next, Promised!Create, Promised!EmptyStores
<1>4. QED
  BY <1>2, <1>3 DEF zeus_net_create

LEMMA DestroyKeeps ==
  ASSUME zeus_net_destroy
  PROVE  PromiseKept
<1>1. PacketsById' = <<>> /\ sent' = sent
  BY DEF zeus_net_destroy, PacketsById
<1>2. QED
  BY <1>1 DEF PromiseKept, Promised!Next, Promised!Destroy

LEMMA AllocKeeps ==
  ASSUME NetInv, NEW size \in Int, NEW r, zeus_net_packet_alloc(size, r)
  PROVE  PromiseKept
<1>1. CASE AllocFails(r)
  BY <1>1 DEF AllocFails, netvars, PacketsById, PacketOf, PromiseKept, Promised!storevars
<1>2. CASE size \in 1 .. MAX_PACKET_SIZE /\ AllocSlot(size, r)
  <2>1. PICK b, fresh, p :
          /\ b \in Blocks /\ heap[b] = NULL /\ r \in FreeSlots /\ fresh = [k \in 1 .. size |-> 0]
          /\ p = [ZeroPacket EXCEPT !.used = TRUE, !.buf = b, !.size = size]
          /\ heap' = [heap EXCEPT ![b] = fresh] /\ packets' = [packets EXCEPT ![r] = p]
          /\ sent' = sent
    BY <1>2 DEF AllocSlot
  <2>2. /\ packets \in [Slots -> Packet] /\ r \in DOMAIN packets /\ ~packets[r].used
        /\ heap \in [Blocks -> Seq(Byte) \cup {NULL}]
    BY <2>1 DEF NetInv, NetTypeOK, FreeSlots
  <2>3. size \in Nat /\ size > 0
    BY <1>2, PacketSizes
  <2>4. /\ p.used /\ p.buf = b /\ p.size = size /\ p.len = 0 /\ p.proto = 0 /\ p.src = 0 /\ p.dst = 0
    BY <2>1 DEF ZeroPacket
  <2>5. Owners(b) = {}
    BY <2>1 DEF NetInv, BuffersOwned
  <2>6. \A i \in DOMAIN packets \ {r} :
          /\ packets'[i] = packets[i]
          /\ packets[i].used => heap'[packets[i].buf] = heap[packets[i].buf]
    BY <2>1, <2>2, <2>5 DEF Owners, NetInv, BuffersOwned
  <2>7. DOMAIN packets' = DOMAIN packets /\ packets'[r] = p /\ heap'[b] = fresh
    BY <2>1, <2>2
  <2>8. /\ PacketsById' = [PacketsById EXCEPT ![r] = PacketsById'[r]]
        /\ DOMAIN PacketsById' = DOMAIN PacketsById /\ r \in DOMAIN PacketsById
        /\ PacketsById'[r] = PacketOf(packets[r])'
    BY <2>2, <2>4, <2>6, <2>7, OneIdChanges
  <2>9. SubSeq(fresh, 1, 0) = <<>>
    BY <2>1, <2>3
  <2>10. PacketOf(packets[r])' = Promised!EmptyPacket(size)
    BY <2>4, <2>7, <2>9 DEF PacketOf, Promised!EmptyPacket
  <2>11. PacketsById'[r].capacity = size /\ ~Promised!Live(r)
    BY <2>2, <2>8, <2>10, StoredById DEF Promised!EmptyPacket, Promised!Live
  <2>12. PacketsById'[r] # NULL
    <3>1. size \in Address /\ <<>> \in Seq(Byte)
      BY <1>2, PacketSizes
    <3>2. Promised!EmptyPacket(size) \in StoredPacket
      <4>1. 0 \in Int
        OBVIOUS
      <4>2. [capacity |-> size, payload |-> <<>>, proto |-> 0, src |-> 0, dst |-> 0] \in StoredPacket
        BY <3>1, <4>1, RecordStored, Zenon
      <4>3. QED
        BY <4>2 DEF Promised!EmptyPacket
    <3>3. QED
      BY <2>8, <2>10, <3>2, NullIsNoPacket, Zenon
  <2>13. Promised!Alloc(r)
    BY <2>1, <2>3, <2>8, <2>10, <2>11, <2>12 DEF Promised!Alloc
  <2>14. QED
    BY <2>8, <2>13 DEF PromiseKept, Promised!Next
<1>3. QED
  BY <1>1, <1>2 DEF zeus_net_packet_alloc

LEMMA FreeKeeps ==
  ASSUME NetInv, NEW id, zeus_net_packet_free(id)
  PROVE  PromiseKept
<1>1. packet_get(id) /\ sent' = sent
  BY DEF zeus_net_packet_free
<1>2. PICK b : /\ b = packets[id].buf /\ heap' = [heap EXCEPT ![b] = NULL]
               /\ packets' = [packets EXCEPT ![id] = ZeroPacket]
  BY DEF zeus_net_packet_free
<1>3. /\ packets \in [Slots -> Packet] /\ id \in DOMAIN packets /\ DOMAIN packets = Slots
      /\ heap \in [Blocks -> Seq(Byte) \cup {NULL}] /\ packets[id].used
  BY <1>1, UsedSlot DEF NetInv, NetTypeOK
<1>4. \A i \in DOMAIN packets \ {id} :
        /\ packets'[i] = packets[i]
        /\ packets[i].used => heap'[packets[i].buf] = heap[packets[i].buf]
  BY <1>2, <1>3 DEF NetInv, BuffersOwned
<1>5. DOMAIN packets' = DOMAIN packets /\ ~packets'[id].used
  BY <1>2, <1>3 DEF ZeroPacket
<1>6. /\ PacketsById' = [PacketsById EXCEPT ![id] = NULL]
      /\ DOMAIN PacketsById' = DOMAIN PacketsById /\ id \in DOMAIN PacketsById
  BY <1>3, <1>4, <1>5, OneIdChanges
<1>7. Promised!Free(id)
  BY <1>1, <1>6, LivePacket DEF Promised!Free
<1>8. QED
  BY <1>6, <1>7 DEF PromiseKept, Promised!Next

(* What an operation on the packet of a slot in use does to the slot.      *)
LEMMA SlotUpdated ==
  ASSUME NetInv, NEW id, packet_get(id), NEW p \in Packet, p.used, p.buf = packets[id].buf,
         packets' = [packets EXCEPT ![id] = p],
         \A b \in Blocks \ {packets[id].buf} : heap'[b] = heap[b]
  PROVE  /\ PacketsById' = [PacketsById EXCEPT ![id] = PacketsById'[id]]
         /\ DOMAIN PacketsById' = DOMAIN PacketsById /\ id \in DOMAIN PacketsById
         /\ PacketsById'[id] = [capacity |-> p.size, payload |-> SubSeq(heap'[p.buf], 1, p.len),
                                proto |-> p.proto, src |-> p.src, dst |-> p.dst]
<1>1. packets \in [Slots -> Packet] /\ id \in DOMAIN packets /\ packets[id].used
  BY UsedSlot
<1>2. DOMAIN packets' = DOMAIN packets /\ packets'[id] = p
  BY <1>1
<1>3. \A i \in DOMAIN packets \ {id} :
        /\ packets'[i] = packets[i]
        /\ packets[i].used => heap'[packets[i].buf] = heap[packets[i].buf]
  BY <1>1 DEF NetInv, BuffersOwned
<1>4. /\ PacketsById' = [PacketsById EXCEPT ![id] = PacketsById'[id]]
      /\ DOMAIN PacketsById' = DOMAIN PacketsById /\ id \in DOMAIN PacketsById
      /\ PacketsById'[id] = PacketOf(packets[id])'
  BY <1>1, <1>2, <1>3, OneIdChanges
<1>5. QED
  BY <1>2, <1>4 DEF PacketOf

(* p differs from old in one header field at most.                         *)
OneFieldChanges(old, p) ==
  \/ p.src = old.src /\ p.dst = old.dst
  \/ p.proto = old.proto /\ p.dst = old.dst
  \/ p.proto = old.proto /\ p.src = old.src

LEMMA SetHeaderKeeps ==
  ASSUME NetInv, NEW id, NEW v \in Int, SetHeader(id, v)
  PROVE  PromiseKept
<1>1. packet_get(id) /\ heap' = heap /\ sent' = sent
  BY DEF SetHeader, zeus_net_packet_set_proto, zeus_net_packet_set_dst, zeus_net_packet_set_src
<1>2. packets[id] \in Packet /\ packets[id].used
  BY <1>1, UsedSlot
<1>3. ToI32(v) \in Int /\ ToU32(v) \in Address
  BY DEF ToI32, ToU32, Address
<1>4. PacketsById[id] = PacketOf(packets[id]) /\ Promised!Live(id)
  BY <1>1, LivePacket
<1>5. PICK p : /\ p \in Packet /\ p.used /\ p.buf = packets[id].buf
               /\ p.size = packets[id].size /\ p.len = packets[id].len
               /\ packets' = [packets EXCEPT ![id] = p]
               /\ OneFieldChanges(packets[id], p)
  <2>1. CASE zeus_net_packet_set_proto(id, v)
    <3>1. PICK p : p = [packets[id] EXCEPT !.proto = ToI32(v)] /\ packets' = [packets EXCEPT ![id] = p]
      BY <2>1 DEF zeus_net_packet_set_proto
    <3>2. p \in Packet
      BY <1>2, <1>3, <3>1 DEF Packet
    <3>3. /\ p.used /\ p.buf = packets[id].buf
          /\ p.size = packets[id].size /\ p.len = packets[id].len
      BY <1>2, <3>1 DEF Packet
    <3>4. OneFieldChanges(packets[id], p)
      BY <1>2, <3>1 DEF Packet, OneFieldChanges
    <3>5. QED
      BY <3>1, <3>2, <3>3, <3>4
  <2>2. CASE zeus_net_packet_set_dst(id, v)
    <3>1. PICK p : p = [packets[id] EXCEPT !.dst = ToU32(v)] /\ packets' = [packets EXCEPT ![id] = p]
      BY <2>2 DEF zeus_net_packet_set_dst
    <3>2. p \in Packet
      BY <1>2, <1>3, <3>1 DEF Packet
    <3>3. /\ p.used /\ p.buf = packets[id].buf
          /\ p.size = packets[id].size /\ p.len = packets[id].len
      BY <1>2, <3>1 DEF Packet
    <3>4. OneFieldChanges(packets[id], p)
      BY <1>2, <3>1 DEF Packet, OneFieldChanges
    <3>5. QED
      BY <3>1, <3>2, <3>3, <3>4
  <2>3. CASE zeus_net_packet_set_src(id, v)
    <3>1. PICK p : p = [packets[id] EXCEPT !.src = ToU32(v)] /\ packets' = [packets EXCEPT ![id] = p]
      BY <2>3 DEF zeus_net_packet_set_src
    <3>2. p \in Packet
      BY <1>2, <1>3, <3>1 DEF Packet
    <3>3. /\ p.used /\ p.buf = packets[id].buf
          /\ p.size = packets[id].size /\ p.len = packets[id].len
      BY <1>2, <3>1 DEF Packet
    <3>4. OneFieldChanges(packets[id], p)
      BY <1>2, <3>1 DEF Packet, OneFieldChanges
    <3>5. QED
      BY <3>1, <3>2, <3>3, <3>4
  <2>4. QED
    BY <2>1, <2>2, <2>3 DEF SetHeader
<1>6. /\ PacketsById' = [PacketsById EXCEPT ![id] = PacketsById'[id]]
      /\ DOMAIN PacketsById' = DOMAIN PacketsById /\ id \in DOMAIN PacketsById
      /\ PacketsById'[id] = [capacity |-> p.size, payload |-> SubSeq(heap'[p.buf], 1, p.len),
                             proto |-> p.proto, src |-> p.src, dst |-> p.dst]
  BY <1>1, <1>5, SlotUpdated
<1>7. PICK field \in {"proto", "src", "dst"} :
        PacketsById'[id] = [PacketsById[id] EXCEPT ![field] = PacketsById'[id][field]]
  <2>1. PICK old, new, payload :
          /\ old = PacketsById[id] /\ new = PacketsById'[id]
          /\ payload = SubSeq(heap[p.buf], 1, p.len)
    OBVIOUS
  <2>2. old = [capacity |-> p.size, payload |-> payload, proto |-> packets[id].proto,
               src |-> packets[id].src, dst |-> packets[id].dst]
    BY <1>4, <1>5, <2>1 DEF PacketOf
  <2>3. new = [capacity |-> p.size, payload |-> payload,
               proto |-> p.proto, src |-> p.src, dst |-> p.dst]
    BY <1>1, <1>6, <2>1
  <2>4. DiffersInOneField(old, new)
    <3>1. PICK a, b, d, x, y, z :
            /\ a = packets[id].proto /\ b = packets[id].src /\ d = packets[id].dst
            /\ x = p.proto /\ y = p.src /\ z = p.dst
      OBVIOUS
    <3>2. (y = b /\ z = d) \/ (x = a /\ z = d) \/ (x = a /\ y = b)
      BY <1>5, <3>1 DEF OneFieldChanges
    <3>3. old = [capacity |-> p.size, payload |-> payload, proto |-> a, src |-> b, dst |-> d]
      BY <2>2, <3>1
    <3>4. new = [capacity |-> p.size, payload |-> payload, proto |-> x, src |-> y, dst |-> z]
      BY <2>3, <3>1
    <3>5. QED
      BY <3>2, <3>3, <3>4, HeaderChanged
  <2>5. QED
    BY <2>1, <2>4 DEF DiffersInOneField
<1>8. PacketsById'[id] # NULL
  <2>1. PacketsById[id] \in StoredPacket
    BY <1>1, LivePacket
  <2>2. p.proto \in Int /\ p.src \in Address /\ p.dst \in Address
    BY <1>5 DEF Packet
  <2>3. PacketsById'[id] \in StoredPacket
    BY <1>1, <1>4, <1>5, <1>6, <2>1, <2>2 DEF PacketOf, StoredPacket
  <2>4. QED
    BY <2>3, NullIsNoPacket
<1>9. PacketsById' = [PacketsById EXCEPT ![id][field] = PacketsById'[id][field]]
  BY <1>6, <1>7
<1>10. Promised!SetHeader(id)
  BY <1>1, <1>4, <1>5, <1>8, <1>9 DEF Promised!SetHeader
<1>11. QED
  BY <1>6, <1>10 DEF PromiseKept, Promised!Next

LEMMA SetPayloadKeeps ==
  ASSUME NetInv, NEW id, NEW source, NEW offset \in Int, NEW len \in Nat,
         \A k \in 1 .. len : source[offset + k - 1] \in Byte,
         zeus_net_packet_set_payload(id, source, offset, len)
  PROVE  PromiseKept
<1>1. packet_get(id) /\ len <= packets[id].size /\ sent' = sent
  BY DEF zeus_net_packet_set_payload, PayloadFitsSlot
<1>2. PICK p, new : /\ p = [packets[id] EXCEPT !.len = len]
                    /\ packets' = [packets EXCEPT ![id] = p]
                    /\ heap' = [heap EXCEPT ![packets[id].buf] = new]
  BY DEF zeus_net_packet_set_payload
<1>3. /\ packets[id] \in Packet /\ packets[id].used /\ packets[id].buf \in Blocks
      /\ heap \in [Blocks -> Seq(Byte) \cup {NULL}] /\ packets \in [Slots -> Packet] /\ id \in Slots
  BY <1>1, UsedSlot DEF NetInv, NetTypeOK
<1>4. /\ p \in Packet /\ p.used /\ p.buf = packets[id].buf /\ p.size = packets[id].size /\ p.len = len
      /\ p.proto = packets[id].proto /\ p.src = packets[id].src /\ p.dst = packets[id].dst
  <2>1. len \in Address
    <3>1. packets[id].size \in Address
      BY <1>3 DEF Packet
    <3>2. QED
      BY <1>1, <3>1 DEF Address
  <2>2. p \in Packet
    BY <1>2, <1>3, <2>1 DEF Packet
  <2>3. p.len = len
    BY <1>2, <1>3 DEF Packet
  <2>4. QED
    BY <1>2, <1>3, <2>2, <2>3 DEF Packet
<1>5. \A b \in Blocks \ {packets[id].buf} : heap'[b] = heap[b]
  BY <1>2, <1>3
<1>6. PICK payload : payload = SubSeq(heap'[p.buf], 1, len)
  OBVIOUS
<1>7. /\ PacketsById' = [PacketsById EXCEPT ![id] = PacketsById'[id]]
      /\ DOMAIN PacketsById' = DOMAIN PacketsById /\ id \in DOMAIN PacketsById
      /\ PacketsById'[id] = [capacity |-> p.size, payload |-> payload,
                             proto |-> p.proto, src |-> p.src, dst |-> p.dst]
  <2>0. /\ packet_get(id) /\ p \in Packet /\ p.used /\ p.buf = packets[id].buf
        /\ packets' = [packets EXCEPT ![id] = p]
    BY <1>1, <1>2, <1>4, Zenon
  <2>1. /\ PacketsById' = [PacketsById EXCEPT ![id] = PacketsById'[id]]
        /\ DOMAIN PacketsById' = DOMAIN PacketsById /\ id \in DOMAIN PacketsById
        /\ PacketsById'[id] = [capacity |-> p.size, payload |-> SubSeq(heap'[p.buf], 1, p.len),
                               proto |-> p.proto, src |-> p.src, dst |-> p.dst]
    BY <2>0, <1>5, SlotUpdated
  <2>2. SubSeq(heap'[p.buf], 1, p.len) = payload
    BY <1>4, <1>6, Zenon
  <2>3. QED
    BY <2>1, <2>2, Zenon
<1>8. PacketsById[id] = PacketOf(packets[id]) /\ Promised!Live(id) /\ PacketsById[id] \in StoredPacket
  BY <1>1, LivePacket
<1>9. payload \in Seq(Byte) /\ Len(payload) = len
  <2>1. NetInv'
    BY SetPayloadPreserves
  <2>2. packets'[id] = p /\ heap'[p.buf] # NULL /\ heap'[p.buf] \in Seq(Byte) \cup {NULL}
    BY <1>2, <1>3, <1>4, <2>1 DEF NetInv, NetTypeOK, BuffersOwned, Owners
  <2>3. len <= Len(heap'[p.buf])
    BY <1>2, <1>3, <1>4, <2>1, <2>2 DEF NetInv, PayloadFits
  <2>4. QED
    BY <1>6, <2>2, <2>3, Prefix
<1>10. PacketsById'[id] # NULL
  <2>1. PacketsById'[id] \in StoredPacket
    BY <1>4, <1>7, <1>9 DEF StoredPacket, Packet
  <2>2. QED
    BY <2>1, NullIsNoPacket
<1>11. PacketsById' = [PacketsById EXCEPT ![id].payload = PacketsById'[id].payload]
  <2>1. PacketsById'[id] = [PacketsById[id] EXCEPT !.payload = PacketsById'[id].payload]
    BY <1>4, <1>7, <1>8 DEF PacketOf
  <2>2. QED
    BY <1>7, <2>1
<1>12. Len(PacketsById'[id].payload) <= PacketsById[id].capacity
  BY <1>1, <1>7, <1>8, <1>9 DEF PacketOf
<1>13. Promised!SetPayload(id)
  BY <1>1, <1>8, <1>10, <1>11, <1>12 DEF Promised!SetPayload
<1>14. QED
  BY <1>7, <1>13 DEF PromiseKept, Promised!Next

LEMMA SendKeeps ==
  ASSUME NetInv, NEW id, NEW r, zeus_net_packet_send(id, r)
  PROVE  PromiseKept
<1>1. PacketsById' = PacketsById
  BY DEF zeus_net_packet_send, netvars, PacketsById, PacketOf
<1>2. CASE sent' = sent
  BY <1>1, <1>2 DEF PromiseKept, Promised!storevars
<1>3. CASE /\ packet_get(id)
           /\ sent' = [dst |-> packets[id].dst,
                       data |-> SubSeq(heap[packets[id].buf], 1, packets[id].len)]
  <2>1. id \in DOMAIN PacketsById /\ PacketsById[id] = PacketOf(packets[id]) /\ Promised!Live(id)
    BY <1>3, LivePacket
  <2>2. Promised!Send(id)
    BY <1>1, <1>3, <2>1 DEF Promised!Send, PacketOf
  <2>3. QED
    BY <1>1, <2>1, <2>2 DEF PromiseKept, Promised!Next
<1>4. QED
  BY <1>2, <1>3 DEF zeus_net_packet_send, netvars

LEMMA StutterKeeps ==
  ASSUME UNCHANGED netvars
  PROVE  PromiseKept
BY DEF netvars, PacketsById, PacketOf, PromiseKept, Promised!storevars

-----------------------------------------------------------------------------
(* A new table is an empty store, and every step is one of the store.      *)
LEMMA StoreInit == NetInit => Promised!Init
<1> SUFFICES ASSUME NetInit PROVE Promised!Init
  OBVIOUS
<1>1. CASE packets = <<>>
  BY <1>1 DEF NetInit, PacketsById, Promised!Init, Promised!EmptyStores
<1>2. CASE packets = [i \in Slots |-> ZeroPacket]
  <2>1. PacketsById = [i \in Slots |-> NULL]
    BY <1>2 DEF PacketsById, ZeroPacket
  <2>2. QED
    BY <2>1 DEF NetInit, Promised!Init, Promised!EmptyStores
<1>3. QED
  BY <1>1, <1>2 DEF NetInit

LEMMA StoreStep == NetInv /\ [NetNext]_netvars => PromiseKept
<1> SUFFICES ASSUME NetInv, [NetNext]_netvars PROVE PromiseKept
  OBVIOUS
<1>1. CASE packets = <<>> /\ zeus_net_create
  BY <1>1, CreateKeeps
<1>2. CASE zeus_net_destroy
  BY <1>2, DestroyKeeps
<1>3. ASSUME NEW size \in Sizes, NEW r \in Ids, zeus_net_packet_alloc(size, r) PROVE PromiseKept
  <2>1. size \in Int
    BY PacketLimits DEF Sizes
  <2>2. QED
    BY <1>3, <2>1, AllocKeeps
<1>4. ASSUME NEW id \in Ids, zeus_net_packet_free(id) PROVE PromiseKept
  BY <1>4, FreeKeeps
<1>5. ASSUME NEW id \in Ids, NEW v \in Values, SetHeader(id, v) PROVE PromiseKept
  <2>1. v \in Int
    BY PacketLimits DEF Word
  <2>2. QED
    BY <1>5, <2>1, SetHeaderKeeps
<1>6. ASSUME NEW id \in Ids, NEW m \in Sources, NEW len \in Sizes,
             zeus_net_packet_set_payload(id, m, 0, len)
      PROVE  PromiseKept
  <2>1. MAX_PACKET_SIZE \in Nat
    BY PacketLimits DEF Address
  <2>2. len \in Nat /\ len <= MAX_PACKET_SIZE + 1
    BY <2>1 DEF Sizes
  <2>3. m \in [0 .. MAX_PACKET_SIZE -> Byte]
    BY PacketLimits, Zenon
  <2>4. \A k \in 1 .. len : m[0 + k - 1] \in Byte
    BY <2>1, <2>2, <2>3
  <2>5. QED
    BY <1>6, <2>2, <2>4, SetPayloadKeeps
<1>7. ASSUME NEW id \in Ids, NEW r \in -1 .. MAX_PACKET_SIZE, zeus_net_packet_send(id, r) PROVE PromiseKept
  BY <1>7, SendKeeps
<1>8. CASE UNCHANGED netvars
  BY <1>8, StutterKeeps
<1>9. QED
  BY <1>1, <1>2, <1>3, <1>4, <1>5, <1>6, <1>7, <1>8 DEF NetNext

(* Slots, buffers and heap of net.c keep what PacketStore promises.        *)
THEOREM NetImplementsPacketStore == NetSpec => ImplementsPacketStore
<1>1. NetInv /\ [NetNext]_netvars => [Promised!Next]_(Promised!storevars)
  BY StoreStep DEF PromiseKept
<1>2. QED
  BY StoreInit, <1>1, NetInvariant, PTL DEF NetSpec, ImplementsPacketStore, Promised!Spec
=============================================================================

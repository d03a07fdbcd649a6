---------------------------- MODULE ByteRingProofs ----------------------------
(***************************************************************************)
(* Theorems about the two rings of bytes under reference/: the bus of      *)
(* Tbus and the input and output of UnityInterop.  They hold for every     *)
(* size of the rings, of headers and of payloads, every number of iovecs   *)
(* and every number of messages.                                           *)
(*                                                                         *)
(* Both proofs keep track of where in the ring each unit of the history    *)
(* lies.  In Tbus that is a packet: Layout says that the packets in flight *)
(* are apart from each other and that each leads to the next, over an      *)
(* unused end of the ring if need be; Contents what they hold; Grants and  *)
(* Reads what an old offset of the other side is still good for.  In       *)
(* UnityInterop it is a cell: RingOK says that the cells behind the head   *)
(* are what was written and not yet given back, committed or not; Framing  *)
(* where the messages of the host begin, and Dispatching which of them is  *)
(* at the offset of the loop.                                              *)
(***************************************************************************)
EXTENDS Tbus, UnityInterop, TLAPS

-----------------------------------------------------------------------------
(* Tbus                                                                    *)

\* The packets whose space the reader has given back.
Freed == Len(delivered) - (IF rpc = "end" THEN Len(iov) ELSE 0)
InFlight == (Freed + 1)..Len(posted)

\* Where a packet begins (the next one: at the tail), and where it ends.
PlaceOf(k) == IF k <= Len(posted) THEN places[k] ELSE tail_offset
EndOf(k) == places[k] + HeaderSize + posted[k][2]
Behind(k) == IF k = Freed THEN head_offset ELSE EndOf(k)

\* Nothing fits at an offset, or it is marked; the reader goes on at 0.
Gap(o) == size - o < HeaderSize \/ buff[o] = Ignore
Leads(o, p) == o = p \/ (p = 0 /\ Gap(o))

CellValue == {Junk, Ignore} \cup {Package(len) : len \in Nat} \cup {Data(id) : id \in Nat}
Offsets == 0..size

TbusTyped ==
    /\ head_offset \in Offsets
    /\ tail_offset \in Offsets
    /\ buff \in [0..(size - 1) -> CellValue]
    /\ spc \in {"begin", "rewind", "fill", "end", "publish"}
    /\ room \in Nat
    /\ length \in Nat
    /\ newTail \in Offsets
    /\ rpc \in {"begin", "peek", "empty", "consume", "end"}
    /\ tailRead \in Offsets
    /\ limit \in Offsets
    /\ ch \in Offsets
    /\ iov \in Seq([base : Nat, len : Nat])
    /\ loaded \in Nat
    /\ posted \in Seq((1..MaxPackets) \X Lengths)
    /\ places \in Seq(Nat)
    /\ delivered \in Seq((1..MaxPackets) \X Lengths)

Histories ==
    /\ Len(places) = Len(posted)
    /\ Len(posted) <= MaxPackets
    /\ spc # "begin" => Len(posted) < MaxPackets
    /\ \A k \in 1..Len(posted) : posted[k][1] = k
    /\ Len(delivered) <= Len(posted)
    /\ \A k \in 1..Len(delivered) : delivered[k] = posted[k]
    /\ Freed >= 0

\* Packets lie whole in the ring, behind the head or before the tail.
Upper(k) == head_offset <= places[k] /\ EndOf(k) <= size
Lower(k) == EndOf(k) <= tail_offset

Layout ==
    /\ \A k \in InFlight : IF head_offset <= tail_offset THEN Upper(k) /\ Lower(k) ELSE Upper(k) \/ Lower(k)
    /\ \A k, l \in InFlight : k < l =>
          /\ Lower(k) => Lower(l)
          /\ EndOf(k) <= places[l] \/ (tail_offset < head_offset /\ head_offset <= places[k] /\ Lower(l))
    /\ \A k \in Freed..Len(posted) : Leads(Behind(k), PlaceOf(k + 1))

Contents ==
    \A k \in InFlight :
        /\ buff[places[k]] = Package(posted[k][2])
        /\ \A i \in (places[k] + HeaderSize)..(EndOf(k) - 1) : buff[i] = Data(k)

Sending == spc \in {"fill", "end", "publish"}
NextEnd == tail_offset + HeaderSize + length

Grants ==
    /\ spc = "rewind" => Gap(tail_offset) /\ head_offset # 0 /\ head_offset <= tail_offset
    /\ Sending => /\ tail_offset + HeaderSize + room <= size
                  /\ tail_offset < head_offset => tail_offset + HeaderSize + room < head_offset
    /\ spc \in {"end", "publish"} =>
          /\ length \in Lengths
          /\ length <= room
          /\ \A i \in (tail_offset + HeaderSize)..(NextEnd - 1) : buff[i] = Data(Len(posted) + 1)
    /\ spc = "publish" =>
          /\ buff[tail_offset] = Package(length)
          /\ \/ newTail = NextEnd
             \/ newTail = 0 /\ NextEnd = size /\ head_offset # 0

Found == Freed + Len(iov)

Reads ==
    /\ rpc = "begin" => iov = <<>>
    /\ rpc # "begin" =>
          /\ loaded <= Len(posted)
          /\ Found <= loaded
          /\ \A i \in 1..Len(iov) :
                iov[i] = [base |-> places[Freed + i] + HeaderSize, len |-> posted[Freed + i][2]]
          /\ Leads(Behind(loaded), tailRead)
          /\ IF head_offset <= tailRead
             THEN /\ tailRead <= tail_offset \/ tail_offset < head_offset
                  /\ \A k \in (Freed + 1)..loaded : head_offset <= places[k] /\ EndOf(k) <= tailRead
             ELSE /\ tailRead <= tail_offset /\ tail_offset < head_offset
                  /\ \A k \in (Freed + 1)..loaded : head_offset <= places[k] \/ EndOf(k) <= tailRead
          /\ Leads(Behind(Found), ch)
          /\ ch # Behind(Found) => tailRead < head_offset /\ head_offset <= Behind(Found)
    /\ rpc = "peek" =>
          \/ limit = size /\ tailRead < head_offset /\ ch = Behind(Found) /\ head_offset <= ch
          \/ limit = tailRead /\ ch <= tailRead
    /\ rpc = "empty" => iov = <<>>

TbusInv == TbusTyped /\ Histories /\ Layout /\ Contents /\ Grants /\ Reads

USE HeaderAssumption

-----------------------------------------------------------------------------

\* The ring holds at least a packet, and a packet more than its header.
LEMMA SizeNat == size \in Nat /\ packet_size \in Nat /\ size >= packet_size /\ packet_size > HeaderSize
  <1>1. packet_size \in Nat /\ packet_size > HeaderSize
    BY PayloadAssumption DEF packet_size
  <1>2. \A p, q \in Nat : q >= 1 => p * q \in Nat /\ p * q >= p
    OBVIOUS
  <1> QED
    BY <1>1, <1>2, NumberAssumption DEF size

\* No packet is empty.
LEMMA LengthFacts == \A len \in Lengths : len \in Nat /\ len >= 1
  BY LengthsAssumption

\* Different cells differ.
LEMMA CellsDiffer ==
  \A len \in Nat : /\ Package(len) # Ignore
                   /\ Package(len) \in CellValue
                   /\ Data(len) \in CellValue
                   /\ Package(len)[1] = "package"
                   /\ Package(len)[2] = len
                   /\ Data(len)[2] = len
                   /\ Ignore \in CellValue
  BY DEF Package, Ignore, Data, CellValue

\* A sequence with one element more.
LEMMA AppendFacts ==
  ASSUME NEW S, NEW s \in Seq(S), NEW e \in S
  PROVE  /\ Append(s, e) \in Seq(S)
         /\ Len(s) \in Nat
         /\ Len(Append(s, e)) = Len(s) + 1
         /\ \A k \in 1..Len(s) : Append(s, e)[k] = s[k]
         /\ Append(s, e)[Len(s) + 1] = e
  OBVIOUS

\* One sequence behind another.
LEMMA ConcatFacts ==
  ASSUME NEW S, NEW s \in Seq(S), NEW t \in Seq(S)
  PROVE  /\ s \o t \in Seq(S)
         /\ Len(s \o t) = Len(s) + Len(t)
         /\ \A k \in 1..Len(s) : (s \o t)[k] = s[k]
         /\ \A i \in 1..Len(t) : (s \o t)[Len(s) + i] = t[i]
  OBVIOUS

\* A sequence that begins another is its SubSeq.
LEMMA PrefixFacts ==
  ASSUME NEW S, NEW s \in Seq(S), NEW t \in Seq(S), Len(s) <= Len(t),
         \A k \in 1..Len(s) : s[k] = t[k]
  PROVE  s = SubSeq(t, 1, Len(s))
  <1>1. SubSeq(t, 1, Len(s)) \in Seq(S) /\ Len(SubSeq(t, 1, Len(s))) = Len(s)
    OBVIOUS
  <1>2. \A k \in 1..Len(s) : SubSeq(t, 1, Len(s))[k] = s[k]
    OBVIOUS
  <1> QED
    BY <1>1, <1>2

\* Where a packet lies, and how long it is.
LEMMA PacketFacts ==
  ASSUME TbusTyped, Histories, NEW k \in 1..Len(posted)
  PROVE  /\ places[k] \in Nat
         /\ posted[k][2] \in Nat /\ posted[k][2] >= 1
         /\ posted[k][2] \in Lengths
         /\ posted[k] = <<k, posted[k][2]>>
         /\ EndOf(k) \in Nat
         /\ EndOf(k) = places[k] + HeaderSize + posted[k][2]
  <1>1. posted[k] \in (1..MaxPackets) \X Lengths /\ places[k] \in Nat
    BY DEF TbusTyped, Histories
  <1>2. posted[k][1] = k
    BY DEF Histories
  <1>3. posted[k][2] \in Lengths /\ posted[k] = <<posted[k][1], posted[k][2]>>
    BY <1>1
  <1>4. posted[k][2] \in Nat /\ posted[k][2] >= 1
    BY <1>3, LengthFacts
  <1> QED
    BY <1>1, <1>2, <1>3, <1>4 DEF EndOf

\* The packets given back are at most those delivered, and those at most the posted ones.
LEMMA CountFacts ==
  ASSUME TbusTyped, Histories
  PROVE  /\ Freed \in Nat
         /\ Len(posted) \in Nat /\ Len(delivered) \in Nat /\ Len(iov) \in Nat
         /\ Freed <= Len(delivered)
         /\ Freed <= Len(posted)
         /\ Found \in Nat
         /\ Found = Freed + Len(iov)
  BY DEF TbusTyped, Histories, Freed, Found

\* A packet in the ring is a packet that was sent, and lies in the ring.
LEMMA InFlightFacts ==
  ASSUME TbusTyped, Histories, Layout, NEW k \in InFlight
  PROVE  /\ k \in 1..Len(posted)
         /\ places[k] \in Nat /\ EndOf(k) \in Nat
         /\ places[k] + HeaderSize < EndOf(k)
         /\ EndOf(k) <= size
         /\ Upper(k) \/ Lower(k)
         /\ head_offset <= tail_offset => Upper(k) /\ Lower(k)
  <1>1. k \in 1..Len(posted)
    BY CountFacts DEF InFlight
  <1>2. Upper(k) \/ Lower(k)
    BY DEF Layout
  <1>3. tail_offset <= size /\ tail_offset \in Nat /\ size \in Nat
    BY SizeNat DEF TbusTyped, Offsets
  <1> QED
    BY <1>1, <1>2, <1>3, PacketFacts, SizeNat DEF Upper, Lower, Layout

\* Packets lie one behind the other; those before the tail come after the others.
LEMMA InFlightOrder ==
  ASSUME TbusTyped, Histories, Layout, NEW k \in InFlight, NEW l \in InFlight, k < l
  PROVE  /\ Lower(k) => Lower(l)
         /\ EndOf(k) <= places[l] \/ (tail_offset < head_offset /\ head_offset <= places[k] /\ Lower(l))
  BY DEF Layout

\* Where a packet ends is known, and it is in the ring.
LEMMA BehindFacts ==
  ASSUME TbusTyped, Histories, Layout, NEW k \in Freed..Len(posted)
  PROVE  /\ Behind(k) \in Nat /\ Behind(k) <= size
         /\ k = Freed => Behind(k) = head_offset
         /\ k # Freed => k \in InFlight /\ Behind(k) = EndOf(k)
         /\ PlaceOf(k + 1) \in Nat
         /\ k < Len(posted) => k + 1 \in InFlight /\ PlaceOf(k + 1) = places[k + 1]
         /\ k = Len(posted) => PlaceOf(k + 1) = tail_offset
         /\ Leads(Behind(k), PlaceOf(k + 1))
  <1>1. Freed \in Nat /\ Len(posted) \in Nat /\ k \in Nat
    BY CountFacts
  <1>2. k # Freed => k \in InFlight
    BY <1>1 DEF InFlight
  <1>3. k < Len(posted) => k + 1 \in InFlight
    BY <1>1 DEF InFlight
  <1>4. head_offset \in Nat /\ head_offset <= size /\ tail_offset \in Nat
    BY SizeNat DEF TbusTyped, Offsets
  <1>5. Leads(Behind(k), PlaceOf(k + 1))
    BY DEF Layout
  <1> QED
    BY <1>1, <1>2, <1>3, <1>4, <1>5, InFlightFacts DEF Behind, PlaceOf

\* The sender leaves a gap only when the head is behind it.
LEMMA GapsAreUpper ==
  ASSUME TbusTyped, Histories, Layout, NEW k \in Freed..Len(posted), Behind(k) # PlaceOf(k + 1)
  PROVE  /\ tail_offset < head_offset
         /\ head_offset <= Behind(k)
         /\ PlaceOf(k + 1) = 0
         /\ Gap(Behind(k))
  <1>0. head_offset \in Nat /\ tail_offset \in Nat
    BY SizeNat DEF TbusTyped, Offsets
  <1>1. PlaceOf(k + 1) = 0 /\ Gap(Behind(k))
    BY BehindFacts DEF Leads
  <1>2. CASE k = Freed
    <2>1. CASE k < Len(posted)
      <3>1. k + 1 \in InFlight /\ places[k + 1] = 0
        BY <2>1, <1>1, BehindFacts
      <3>2. head_offset # 0
        BY <1>1, <1>2, BehindFacts
      <3>3. ~Upper(k + 1)
        BY <3>1, <3>2, <1>0 DEF Upper
      <3> QED
        BY <3>1, <3>3, <1>0, <1>1, <1>2, InFlightFacts, BehindFacts
    <2>2. CASE k = Len(posted)
      BY <2>2, <1>0, <1>1, <1>2, BehindFacts
    <2> QED
      BY <2>1, <2>2, CountFacts
  <1>3. CASE k # Freed
    <2>1. k \in InFlight /\ Behind(k) = EndOf(k) /\ EndOf(k) > 0 /\ places[k] < EndOf(k)
      BY <1>3, BehindFacts, InFlightFacts
    <2>2. CASE k < Len(posted)
      <3>1. k + 1 \in InFlight /\ places[k + 1] = 0
        BY <2>2, <1>1, BehindFacts
      <3>2. EndOf(k) <= places[k + 1] \/ (tail_offset < head_offset /\ head_offset <= places[k])
        BY <2>1, <3>1, CountFacts, InFlightOrder
      <3> QED
        BY <3>1, <3>2, <2>1, <1>0, <1>1, InFlightFacts
    <2>3. CASE k = Len(posted)
      <3>1. tail_offset = 0
        BY <2>3, <1>1, BehindFacts
      <3>2. ~Lower(k)
        BY <3>1, <2>1, InFlightFacts DEF Lower
      <3> QED
        BY <3>1, <3>2, <2>1, <1>0, <1>1, InFlightFacts DEF Upper
    <2> QED
      BY <2>2, <2>3, CountFacts
  <1> QED
    BY <1>2, <1>3

\* A read in progress has found at most the packets before the tail it loaded.
LEMMA ReadCounts ==
  ASSUME TbusTyped, Histories, Reads, rpc # "begin"
  PROVE  /\ Found \in Freed..Len(posted) /\ loaded \in Freed..Len(posted)
         /\ Found <= loaded
  <1>1. loaded \in Nat /\ loaded <= Len(posted) /\ Found <= loaded
    BY DEF Reads, TbusTyped
  <1> QED
    BY <1>1, CountFacts

\* So does the reader's tail, when it is at the start of the ring again.
LEMMA TailReadGap ==
  ASSUME TbusTyped, Histories, Layout, Reads, rpc # "begin", Behind(loaded) # tailRead
  PROVE  /\ tail_offset < head_offset
         /\ head_offset <= Behind(loaded)
         /\ tailRead = 0
         /\ Gap(Behind(loaded))
  <1>0. head_offset \in Nat /\ tail_offset \in Nat /\ tailRead \in Nat
    BY SizeNat DEF TbusTyped, Offsets
  <1>1. tailRead = 0 /\ Gap(Behind(loaded))
    BY DEF Reads, Leads
  <1>2. Freed \in Nat /\ loaded \in Freed..Len(posted)
    BY CountFacts, ReadCounts
  <1>3. CASE loaded = Freed
    BY <1>0, <1>1, <1>2, <1>3, BehindFacts DEF Reads
  <1>4. CASE loaded # Freed
    <2>1. loaded \in InFlight /\ Behind(loaded) = EndOf(loaded) /\ loaded \in (Freed + 1)..loaded
      BY <1>2, <1>4, BehindFacts DEF TbusTyped
    <2>2. EndOf(loaded) > 0 /\ EndOf(loaded) \in Nat /\ places[loaded] \in Nat /\ places[loaded] < EndOf(loaded)
      BY <2>1, InFlightFacts
    <2>3. ~(EndOf(loaded) <= tailRead)
      BY <1>1, <2>2
    <2>4. ~(head_offset <= tailRead)
      BY <2>1, <2>3 DEF Reads
    <2>5. head_offset <= places[loaded] /\ tail_offset < head_offset
      BY <2>1, <2>3, <2>4 DEF Reads
    <2> QED
      BY <1>0, <1>1, <2>1, <2>2, <2>5
  <1> QED
    BY <1>3, <1>4

-----------------------------------------------------------------------------
(* What the sender writes before it publishes disturbs nobody              *)

FreeCell(i) == tail_offset <= i /\ (tail_offset < head_offset => i < head_offset)

ringState == <<head_offset, tail_offset, readerVars, posted, places, delivered>>

\* A store to free cells leaves the packets and the marks as they are.
LEMMA WritingIsHarmless ==
  ASSUME TbusTyped, Histories, Layout, Contents, Reads,
         \A i \in 0..(size - 1) : FreeCell(i) \/ buff'[i] = buff[i],
         UNCHANGED ringState
  PROVE  Layout' /\ Contents' /\ Reads'
  <1>0. /\ head_offset' = head_offset /\ tail_offset' = tail_offset
        /\ posted' = posted /\ places' = places /\ delivered' = delivered
        /\ rpc' = rpc /\ tailRead' = tailRead /\ limit' = limit /\ ch' = ch /\ iov' = iov /\ loaded' = loaded
    BY DEF ringState, readerVars
  <1>a. head_offset \in Nat /\ tail_offset \in Nat /\ size \in Nat
    BY SizeNat DEF TbusTyped, Offsets
  <1>1. /\ Freed' = Freed /\ Found' = Found /\ InFlight' = InFlight
        /\ \A k : PlaceOf(k)' = PlaceOf(k) /\ EndOf(k)' = EndOf(k) /\ Behind(k)' = Behind(k)
        /\ \A k : (Upper(k)' <=> Upper(k)) /\ (Lower(k)' <=> Lower(k))
    BY <1>0 DEF Freed, Found, InFlight, PlaceOf, EndOf, Behind, Upper, Lower
  <1>2. \A o \in Nat : tail_offset < head_offset /\ head_offset <= o /\ Gap(o) => Gap(o)'
    <2> SUFFICES ASSUME NEW o \in Nat, tail_offset < head_offset, head_offset <= o, Gap(o), size - o >= HeaderSize
                 PROVE  buff'[o] = Ignore
      BY <1>0, <1>a DEF Gap
    <2>1. o \in 0..(size - 1) /\ ~FreeCell(o)
      BY <1>a DEF FreeCell
    <2> QED
      BY <1>a, <2>1 DEF Gap
  <1>3. Layout'
    <2>1. \A k \in Freed..Len(posted) : Leads(Behind(k), PlaceOf(k + 1))'
      <3> SUFFICES ASSUME NEW k \in Freed..Len(posted) PROVE Leads(Behind(k), PlaceOf(k + 1))'
        OBVIOUS
      <3>1. CASE Behind(k) = PlaceOf(k + 1)
        BY <3>1, <1>1 DEF Leads
      <3>2. CASE Behind(k) # PlaceOf(k + 1)
        BY <3>2, <1>1, <1>2, GapsAreUpper, BehindFacts DEF Leads
      <3> QED
        BY <3>1, <3>2
    <2> QED
      BY <1>0, <1>1, <2>1 DEF Layout
  <1>4. Contents'
    <2> SUFFICES ASSUME NEW k \in InFlight
                 PROVE  /\ buff'[places[k]] = Package(posted[k][2])
                        /\ \A i \in (places[k] + HeaderSize)..(EndOf(k) - 1) : buff'[i] = Data(k)
      BY <1>0, <1>1 DEF Contents
    <2>1. \A i \in places[k]..(EndOf(k) - 1) : i \in 0..(size - 1) /\ ~FreeCell(i)
      BY <1>a, InFlightFacts DEF FreeCell, Upper, Lower
    <2>2. /\ places[k] \in places[k]..(EndOf(k) - 1)
          /\ (places[k] + HeaderSize)..(EndOf(k) - 1) \subseteq places[k]..(EndOf(k) - 1)
      BY InFlightFacts
    <2> QED
      BY <2>1, <2>2 DEF Contents
  <1>5. Reads'
    <2>1. CASE rpc = "begin"
      BY <1>0, <2>1 DEF Reads
    <2>2. CASE rpc # "begin"
      <3>0. Found \in Freed..Len(posted) /\ loaded \in Freed..Len(posted)
        BY <2>2, ReadCounts
      <3>1. Leads(Behind(loaded), tailRead)'
        BY <3>0, <2>2, <1>0, <1>1, <1>2, TailReadGap, BehindFacts DEF Leads
      <3>2. Leads(Behind(Found), ch)'
        <4>1. CASE ch = Behind(Found)
          BY <4>1, <1>0, <1>1 DEF Leads
        <4>2. CASE ch # Behind(Found)
          <5>1. ch = 0 /\ Gap(Behind(Found)) /\ tailRead < head_offset /\ head_offset <= Behind(Found)
            BY <4>2, <2>2 DEF Reads, Leads
          <5>2. tail_offset < head_offset
            BY <5>1, <2>2, <1>a DEF Reads, TbusTyped, Offsets
          <5> QED
            BY <5>1, <5>2, <3>0, <1>0, <1>1, <1>2, BehindFacts DEF Leads
        <4> QED
          BY <4>1, <4>2
      <3> QED
        BY <1>0, <1>1, <2>2, <3>1, <3>2 DEF Reads
    <2> QED
      BY <2>1, <2>2
  <1> QED
    BY <1>3, <1>4, <1>5

-----------------------------------------------------------------------------
(* The sender                                                              *)

\* What a store changes.
LEMMA PutFacts ==
  ASSUME TbusTyped, NEW from \in Nat, NEW len \in Nat, NEW cell \in CellValue, buff' = Put(from, len, cell)
  PROVE  /\ buff' \in [0..(size - 1) -> CellValue]
         /\ \A i \in 0..(size - 1) : i \in from..(from + len - 1) => buff'[i] = cell
         /\ \A i \in 0..(size - 1) : i \notin from..(from + len - 1) => buff'[i] = buff[i]
  BY DEF Put, TbusTyped

\* Whether or not there is room, tbus_send_begin keeps the invariant.
LEMMA SendBeginStep ==
  ASSUME TbusInv, tbus_send_begin
  PROVE  TbusInv'
  <1> DEFINE write_size == IF head_offset <= tail_offset THEN size - tail_offset
                                                         ELSE head_offset - tail_offset - 1
             enough == write_size >= packet_size
             rewind == ~enough /\ head_offset <= tail_offset /\ head_offset # 0
             marks == ~enough /\ head_offset <= tail_offset /\ write_size >= HeaderSize
  <1>0. /\ spc = "begin"
        /\ Len(posted) < MaxPackets
        /\ spc' = IF enough THEN "fill" ELSE IF rewind THEN "rewind" ELSE "begin"
        /\ room' = IF enough THEN write_size - HeaderSize ELSE 0
        /\ buff' = IF marks THEN Put(tail_offset, 1, Ignore) ELSE buff
        /\ UNCHANGED <<head_offset, tail_offset, length, newTail, readerVars, posted, places, delivered>>
    BY DEF tbus_send_begin
  <1>1. TbusTyped /\ Histories /\ Layout /\ Contents /\ Grants /\ Reads
    BY DEF TbusInv
  <1>2. /\ head_offset \in Nat /\ tail_offset \in Nat /\ size \in Nat /\ packet_size \in Nat
        /\ head_offset <= size /\ tail_offset <= size /\ packet_size > HeaderSize
    BY <1>1, SizeNat DEF TbusTyped, Offsets
  <1>3. /\ buff' \in [0..(size - 1) -> CellValue]
        /\ \A i \in 0..(size - 1) : (i = tail_offset /\ head_offset <= tail_offset) \/ buff'[i] = buff[i]
        /\ marks => buff'[tail_offset] = Ignore
    <2>1. CASE marks
      <3>1. Ignore \in CellValue
        BY CellsDiffer
      <3>2. tail_offset \in 0..(size - 1)
        BY <2>1, <1>2
      <3>a. buff' = Put(tail_offset, 1, Ignore)
        BY <1>0, <2>1
      <3>3. /\ buff' \in [0..(size - 1) -> CellValue]
            /\ \A i \in 0..(size - 1) : i \in tail_offset..(tail_offset + 1 - 1) => buff'[i] = Ignore
            /\ \A i \in 0..(size - 1) : i \notin tail_offset..(tail_offset + 1 - 1) => buff'[i] = buff[i]
        BY <1>1, <1>2, <3>1, <3>a, PutFacts
      <3> QED
        BY <1>2, <2>1, <3>2, <3>3
    <2>2. CASE ~marks
      BY <1>0, <1>1, <2>2 DEF TbusTyped
    <2> QED
      BY <2>1, <2>2
  <1>4. Layout' /\ Contents' /\ Reads'
    <2>1. \A i \in 0..(size - 1) : FreeCell(i) \/ buff'[i] = buff[i]
      BY <1>2, <1>3 DEF FreeCell
    <2>2. UNCHANGED ringState
      BY <1>0 DEF ringState
    <2> QED
      BY <1>1, <2>1, <2>2, WritingIsHarmless
  <1>5. TbusTyped'
    <2>1. room' \in Nat
      BY <1>0, <1>2
    <2>2. spc' \in {"begin", "rewind", "fill", "end", "publish"}
      BY <1>0
    <2> QED
      BY <1>0, <1>1, <1>3, <2>1, <2>2 DEF TbusTyped, readerVars
  <1>6. Histories'
    BY <1>0, <1>1 DEF Histories, Freed, readerVars
  <1>7. Grants'
    <2>1. spc' = "rewind" => Gap(tail_offset)' /\ head_offset # 0 /\ head_offset <= tail_offset
      <3> SUFFICES ASSUME spc' = "rewind"
                   PROVE  Gap(tail_offset)' /\ head_offset # 0 /\ head_offset <= tail_offset
        OBVIOUS
      <3>1. rewind
        BY <1>0
      <3>2. CASE marks
        BY <1>0, <1>3, <3>1, <3>2 DEF Gap
      <3>3. CASE ~marks
        BY <1>0, <1>2, <3>1, <3>3 DEF Gap
      <3> QED
        BY <3>1, <3>2, <3>3
    <2>2. spc' = "fill" => /\ tail_offset + HeaderSize + room' <= size
                           /\ tail_offset < head_offset => tail_offset + HeaderSize + room' < head_offset
      BY <1>0, <1>2
    <2>3. spc' \notin {"end", "publish"}
      BY <1>0
    <2> QED
      BY <1>0, <2>1, <2>2, <2>3 DEF Grants, Sending
  <1> QED
    BY <1>4, <1>5, <1>6, <1>7 DEF TbusInv

\* The payload goes where nothing else is.
LEMMA FillStep ==
  ASSUME TbusInv, Fill
  PROVE  TbusInv'
  <1>1. TbusTyped /\ Histories /\ Layout /\ Contents /\ Grants /\ Reads
    BY DEF TbusInv
  <1>0. PICK len \in Lengths : len <= room /\ length' = len
                              /\ buff' = Put(tail_offset + HeaderSize, len, Data(Len(posted) + 1))
    BY DEF Fill
  <1>a. spc = "fill" /\ spc' = "end"
        /\ UNCHANGED <<head_offset, tail_offset, room, newTail, readerVars, posted, places, delivered>>
    BY DEF Fill
  <1>2. /\ head_offset \in Nat /\ tail_offset \in Nat /\ size \in Nat /\ room \in Nat /\ len \in Nat
        /\ Len(posted) + 1 \in Nat /\ tail_offset + HeaderSize \in Nat
    BY <1>1, SizeNat, CountFacts, LengthFacts DEF TbusTyped, Offsets
  <1>3. /\ tail_offset + HeaderSize + room <= size
        /\ tail_offset < head_offset => tail_offset + HeaderSize + room < head_offset
    BY <1>1, <1>a DEF Grants, Sending
  <1>4. /\ buff' \in [0..(size - 1) -> CellValue]
        /\ \A i \in 0..(size - 1) :
              i \in (tail_offset + HeaderSize)..(tail_offset + HeaderSize + len - 1) => buff'[i] = Data(Len(posted) + 1)
        /\ \A i \in 0..(size - 1) :
              i \notin (tail_offset + HeaderSize)..(tail_offset + HeaderSize + len - 1) => buff'[i] = buff[i]
    <2>1. Data(Len(posted) + 1) \in CellValue
      BY <1>2, CellsDiffer
    <2> QED
      BY <1>0, <1>1, <1>2, <2>1, PutFacts
  <1>5. Layout' /\ Contents' /\ Reads'
    <2>1. \A i \in 0..(size - 1) : FreeCell(i) \/ buff'[i] = buff[i]
      BY <1>0, <1>2, <1>3, <1>4 DEF FreeCell
    <2>2. UNCHANGED ringState
      BY <1>a DEF ringState
    <2> QED
      BY <1>1, <2>1, <2>2, WritingIsHarmless
  <1>6. TbusTyped'
    BY <1>0, <1>1, <1>2, <1>4, <1>a DEF TbusTyped, readerVars
  <1>7. Histories'
    BY <1>1, <1>a DEF Histories, Freed, readerVars
  <1>8. Grants'
    <2>1. \A i \in (tail_offset + HeaderSize)..(tail_offset + HeaderSize + len - 1) :
            buff'[i] = Data(Len(posted) + 1)
      BY <1>0, <1>2, <1>3, <1>4
    <2>2. NextEnd' = tail_offset + HeaderSize + len /\ length' = len /\ posted' = posted
      BY <1>0, <1>a DEF NextEnd
    <2>a. tail_offset' = tail_offset /\ head_offset' = head_offset /\ room' = room
      BY <1>a
    <2>3. \A i \in (tail_offset' + HeaderSize)..(NextEnd' - 1) : buff'[i] = Data(Len(posted') + 1)
      BY <1>2, <2>1, <2>2, <2>a
    <2>4. length' \in Lengths /\ length' <= room'
      BY <1>0, <1>a
    <2> QED
      BY <1>3, <1>a, <2>a, <2>3, <2>4 DEF Grants, Sending
  <1> QED
    BY <1>5, <1>6, <1>7, <1>8 DEF TbusInv

\* So does its header.
LEMMA SendEndStep ==
  ASSUME TbusInv, tbus_send_end
  PROVE  TbusInv'
  <1>1. TbusTyped /\ Histories /\ Layout /\ Contents /\ Grants /\ Reads
    BY DEF TbusInv
  <1>0. /\ spc = "end" /\ spc' = "publish"
        /\ buff' = Put(tail_offset, 1, Package(length))
        /\ newTail' = IF NextEnd >= size /\ head_offset # 0 THEN 0 ELSE NextEnd
        /\ UNCHANGED <<head_offset, tail_offset, room, length, readerVars, posted, places, delivered>>
    BY DEF tbus_send_end, NextEnd
  <1>2. /\ head_offset \in Nat /\ tail_offset \in Nat /\ size \in Nat /\ room \in Nat /\ length \in Nat
    BY <1>1, SizeNat DEF TbusTyped, Offsets
  <1>3. /\ tail_offset + HeaderSize + room <= size
        /\ tail_offset < head_offset => tail_offset + HeaderSize + room < head_offset
        /\ length \in Lengths /\ length <= room /\ length >= 1
        /\ \A i \in (tail_offset + HeaderSize)..(NextEnd - 1) : buff[i] = Data(Len(posted) + 1)
    BY <1>0, <1>1, LengthFacts DEF Grants, Sending
  <1>4. /\ buff' \in [0..(size - 1) -> CellValue]
        /\ \A i \in 0..(size - 1) : i \in tail_offset..(tail_offset + 1 - 1) => buff'[i] = Package(length)
        /\ \A i \in 0..(size - 1) : i \notin tail_offset..(tail_offset + 1 - 1) => buff'[i] = buff[i]
    <2>1. Package(length) \in CellValue
      BY <1>2, CellsDiffer
    <2> QED
      BY <1>0, <1>1, <1>2, <2>1, PutFacts
  <1>5. NextEnd \in Nat /\ NextEnd <= size /\ tail_offset \in 0..(size - 1)
    BY <1>2, <1>3 DEF NextEnd
  <1>6. Layout' /\ Contents' /\ Reads'
    <2>1. \A i \in 0..(size - 1) : FreeCell(i) \/ buff'[i] = buff[i]
      BY <1>2, <1>3, <1>4 DEF FreeCell
    <2>2. UNCHANGED ringState
      BY <1>0 DEF ringState
    <2> QED
      BY <1>1, <2>1, <2>2, WritingIsHarmless
  <1>7. TbusTyped'
    BY <1>0, <1>1, <1>2, <1>4, <1>5 DEF TbusTyped, readerVars, Offsets
  <1>8. Histories'
    BY <1>0, <1>1 DEF Histories, Freed, readerVars
  <1>9. Grants'
    <2>1. \A i \in (tail_offset + HeaderSize)..(NextEnd - 1) : buff'[i] = Data(Len(posted) + 1)
      BY <1>2, <1>3, <1>4, <1>5
    <2>2. buff'[tail_offset] = Package(length)
      BY <1>2, <1>4, <1>5
    <2>3. newTail' = NextEnd \/ (newTail' = 0 /\ NextEnd = size /\ head_offset # 0)
      BY <1>0, <1>2, <1>5
    <2>4. NextEnd' = NextEnd
      BY <1>0 DEF NextEnd
    <2> QED
      BY <1>0, <1>3, <2>1, <2>2, <2>3, <2>4 DEF Grants, Sending
  <1> QED
    BY <1>6, <1>7, <1>8, <1>9 DEF TbusInv

\* The tail goes back to 0 behind a mark, or where no header fits.
LEMMA RewindStep ==
  ASSUME TbusInv, Rewind
  PROVE  TbusInv'
  <1>1. TbusTyped /\ Histories /\ Layout /\ Contents /\ Grants /\ Reads
    BY DEF TbusInv
  <1>0. /\ spc = "rewind" /\ spc' = "begin" /\ tail_offset' = 0
        /\ UNCHANGED <<head_offset, buff, room, length, newTail, readerVars, posted, places, delivered>>
    BY DEF Rewind
  <1>a. /\ rpc' = rpc /\ tailRead' = tailRead /\ limit' = limit /\ ch' = ch /\ iov' = iov /\ loaded' = loaded
    BY <1>0 DEF readerVars
  <1>2. head_offset \in Nat /\ tail_offset \in Nat /\ size \in Nat /\ tailRead \in Nat
    BY <1>1, SizeNat DEF TbusTyped, Offsets
  <1>3. Gap(tail_offset) /\ head_offset # 0 /\ head_offset <= tail_offset
    BY <1>0, <1>1 DEF Grants
  <1>4. /\ Freed' = Freed /\ Found' = Found /\ InFlight' = InFlight
        /\ \A k : EndOf(k)' = EndOf(k) /\ Behind(k)' = Behind(k)
        /\ \A o : (Gap(o)' <=> Gap(o))
    BY <1>0, <1>a DEF Freed, Found, InFlight, EndOf, Behind, Gap
  <1>5. TbusTyped'
    BY <1>0, <1>1, <1>2 DEF TbusTyped, readerVars, Offsets
  <1>6. Histories'
    BY <1>0, <1>1, <1>4 DEF Histories
  <1>7. Layout'
    <2>1. \A k \in InFlight : Upper(k) /\ ~Lower(k)'
      BY <1>0, <1>1, <1>2, <1>3, <1>4, InFlightFacts DEF Lower
    <2>2. \A k, l \in InFlight : k < l => EndOf(k) <= places[l]
      BY <1>1, <1>2, <1>3, InFlightOrder
    <2>3. \A k \in Freed..Len(posted) : Leads(Behind(k), PlaceOf(k + 1))'
      <3> SUFFICES ASSUME NEW k \in Freed..Len(posted) PROVE Leads(Behind(k), PlaceOf(k + 1))'
        OBVIOUS
      <3>1. Behind(k) = PlaceOf(k + 1)
        BY <1>1, <1>2, <1>3, GapsAreUpper
      <3>2. CASE k < Len(posted)
        BY <3>1, <3>2, <1>0, <1>1, <1>4, CountFacts DEF Leads, PlaceOf
      <3>3. CASE k = Len(posted)
        <4>1. Behind(k) = tail_offset /\ PlaceOf(k + 1)' = 0
          BY <3>1, <3>3, <1>0, <1>1, CountFacts DEF PlaceOf
        <4> QED
          BY <4>1, <1>3, <1>4 DEF Leads
      <3> QED
        BY <3>2, <3>3, <1>1, CountFacts
    <2>4. \A k \in InFlight : Upper(k)'
      BY <1>0, <1>4, <2>1 DEF Upper
    <2>5. ~(head_offset' <= tail_offset')
      BY <1>0, <1>2, <1>3
    <2> QED
      BY <1>0, <1>4, <2>1, <2>2, <2>3, <2>4, <2>5 DEF Layout
  <1>8. Contents'
    BY <1>0, <1>1, <1>4 DEF Contents
  <1>9. Grants'
    BY <1>0 DEF Grants, Sending
  <1>10. Reads'
    <2>1. CASE rpc = "begin"
      BY <1>1, <1>a, <2>1 DEF Reads
    <2>2. CASE rpc # "begin"
      <3>1. head_offset <= tailRead
        BY <1>1, <1>2, <1>3, <2>2 DEF Reads
      <3>2. tail_offset' < head_offset'
        BY <1>0, <1>2, <1>3
      <3> QED
        BY <1>0, <1>1, <1>a, <1>4, <2>2, <3>1, <3>2 DEF Reads, Leads
    <2> QED
      BY <2>1, <2>2
  <1> QED
    BY <1>5, <1>6, <1>7, <1>8, <1>9, <1>10 DEF TbusInv

\* The new packet joins those in flight.
LEMMA PublishStep ==
  ASSUME TbusInv, Publish
  PROVE  TbusInv'
  <1>1. TbusTyped /\ Histories /\ Layout /\ Contents /\ Grants /\ Reads
    BY DEF TbusInv
  <1> SUFFICES ASSUME NEW n \in Nat, n = Len(posted) + 1 PROVE TbusInv'
    BY <1>1, CountFacts
  <1>0. /\ spc = "publish" /\ spc' = "begin" /\ tail_offset' = newTail
        /\ posted' = Append(posted, <<n, length>>)
        /\ places' = Append(places, tail_offset)
        /\ UNCHANGED <<head_offset, buff, room, length, newTail, readerVars, delivered>>
    BY DEF Publish
  <1>a. /\ rpc' = rpc /\ tailRead' = tailRead /\ limit' = limit /\ ch' = ch /\ iov' = iov /\ loaded' = loaded
    BY <1>0 DEF readerVars
  <1>2. /\ head_offset \in Nat /\ tail_offset \in Nat /\ size \in Nat /\ tailRead \in Nat
        /\ room \in Nat /\ length \in Nat /\ newTail \in Offsets /\ Len(posted) \in Nat
    BY <1>1, SizeNat, CountFacts DEF TbusTyped, Offsets
  <1>3. /\ tail_offset + HeaderSize + room <= size
        /\ tail_offset < head_offset => tail_offset + HeaderSize + room < head_offset
        /\ length \in Lengths /\ length <= room /\ length >= 1
        /\ \A i \in (tail_offset + HeaderSize)..(NextEnd - 1) : buff[i] = Data(n)
        /\ buff[tail_offset] = Package(length)
        /\ newTail = NextEnd \/ (newTail = 0 /\ NextEnd = size /\ head_offset # 0)
    BY <1>0, <1>1, LengthFacts DEF Grants, Sending
  <1>b. /\ NextEnd \in Nat /\ NextEnd <= size /\ tail_offset + HeaderSize < NextEnd
        /\ tail_offset < head_offset => NextEnd < head_offset /\ newTail = NextEnd
    BY <1>1, <1>2, <1>3 DEF NextEnd, TbusTyped, Offsets
  <1>4. /\ posted' \in Seq((1..MaxPackets) \X Lengths) /\ Len(posted') = n
        /\ places' \in Seq(Nat) /\ Len(places') = n
        /\ \A k \in 1..Len(posted) : posted'[k] = posted[k] /\ places'[k] = places[k]
        /\ posted'[n] = <<n, length>> /\ places'[n] = tail_offset
    <2>1. <<n, length>> \in (1..MaxPackets) \X Lengths
      <3>1. n \in 1..MaxPackets
        BY <1>0, <1>1, <1>2, MaxPacketsAssumption DEF Histories
      <3> QED
        BY <3>1, <1>3
    <2>2. posted \in Seq((1..MaxPackets) \X Lengths) /\ places \in Seq(Nat) /\ Len(places) = Len(posted)
      BY <1>1 DEF TbusTyped, Histories
    <2>3. /\ posted' \in Seq((1..MaxPackets) \X Lengths) /\ Len(posted') = n
          /\ \A k \in 1..Len(posted) : posted'[k] = posted[k]
          /\ posted'[n] = <<n, length>>
      BY <1>0, <1>2, <2>1, <2>2, AppendFacts
    <2>4. /\ places' \in Seq(Nat) /\ Len(places') = n
          /\ \A k \in 1..Len(posted) : places'[k] = places[k]
          /\ places'[n] = tail_offset
      BY <1>0, <1>2, <2>2, AppendFacts
    <2> QED
      BY <2>3, <2>4
  <1>5. /\ Freed' = Freed /\ Found' = Found
        /\ InFlight' = InFlight \cup {n} /\ n \notin InFlight
        /\ \A k \in InFlight : k \in 1..Len(posted) /\ k < n
    <2>1. Freed' = Freed /\ Found' = Found
      BY <1>0, <1>a DEF Freed, Found
    <2>2. Freed \in Nat /\ Freed <= Len(posted)
      BY <1>1, CountFacts
    <2>3. InFlight = (Freed + 1)..(n - 1) /\ InFlight' = (Freed + 1)..n
      BY <1>2, <1>4, <2>1 DEF InFlight
    <2> QED
      BY <1>2, <2>1, <2>2, <2>3
  <1>6. /\ \A k \in 1..Len(posted) : EndOf(k)' = EndOf(k)
        /\ EndOf(n)' = NextEnd
    <2>1. \A k \in 1..Len(posted) : EndOf(k)' = EndOf(k)
      BY <1>4 DEF EndOf
    <2>2. posted'[n][2] = length
      BY <1>4
    <2> QED
      BY <1>4, <2>1, <2>2 DEF EndOf, NextEnd
  <1>7. \A k \in Freed..Len(posted) : Behind(k)' = Behind(k) /\ PlaceOf(k + 1)' = PlaceOf(k + 1)
    <2> SUFFICES ASSUME NEW k \in Freed..Len(posted)
                 PROVE  Behind(k)' = Behind(k) /\ PlaceOf(k + 1)' = PlaceOf(k + 1)
      OBVIOUS
    <2>1. k = Freed \/ k \in 1..Len(posted)
      BY <1>1, CountFacts
    <2>2. Behind(k)' = Behind(k)
      BY <1>0, <1>5, <1>6, <2>1 DEF Behind
    <2>3. k + 1 \in 1..Len(posted) \/ k + 1 = n
      BY <1>1, CountFacts
    <2>4. PlaceOf(k + 1)' = PlaceOf(k + 1)
      BY <1>2, <1>4, <2>3 DEF PlaceOf
    <2> QED
      BY <2>2, <2>4
  <1>8. \A o : Gap(o)' <=> Gap(o)
    BY <1>0 DEF Gap
  <1>9. TbusTyped'
    BY <1>0, <1>1, <1>2, <1>4 DEF TbusTyped, readerVars
  <1>10. Histories'
    <2>1. Len(posted) < MaxPackets
      BY <1>0, <1>1 DEF Histories
    <2>2. \A k \in 1..n : posted'[k][1] = k
      <3>1. \A k \in 1..Len(posted) : posted'[k][1] = k
        BY <1>1, <1>4 DEF Histories
      <3>2. posted'[n][1] = n
        BY <1>4
      <3> QED
        BY <1>2, <3>1, <3>2
    <2>3. Len(delivered) <= n /\ Len(delivered) \in Nat /\ Len(delivered) <= Len(posted)
      BY <1>1, <1>2, CountFacts DEF Histories
    <2>4. \A k \in 1..Len(delivered) : delivered[k] = posted'[k]
      BY <1>1, <1>2, <1>4, <2>3 DEF Histories
    <2> QED
      BY <1>0, <1>1, <1>2, <1>4, <1>5, <2>1, <2>2, <2>3, <2>4, MaxPacketsAssumption DEF Histories
  <1>11. Layout'
    <2>1. /\ \A k \in InFlight : (Upper(k)' <=> Upper(k))
          /\ Upper(n)' <=> head_offset <= tail_offset
          /\ Lower(n)' <=> NextEnd <= newTail
      BY <1>0, <1>b, <1>4, <1>5, <1>6 DEF Upper, Lower
    <2>2. CASE newTail = NextEnd
      <3>1. \A k \in InFlight : Lower(k) => Lower(k)'
        BY <1>0, <1>1, <1>2, <1>b, <1>5, <1>6, <2>2, InFlightFacts DEF Lower
      <3>2. Lower(n)'
        BY <1>b, <2>1, <2>2
      <3>3. head_offset <= tail_offset <=> head_offset' <= tail_offset'
        BY <1>0, <1>2, <1>b, <2>2
      <3>4. \A k \in InFlight' :
              IF head_offset' <= tail_offset' THEN Upper(k)' /\ Lower(k)' ELSE Upper(k)' \/ Lower(k)'
        BY <1>1, <1>2, <1>5, <2>1, <3>1, <3>2, <3>3, InFlightFacts
      <3>5. \A k \in InFlight : Lower(k)' => Lower(k)
        BY <1>0, <1>1, <1>2, <1>b, <1>5, <1>6, <2>2, InFlightFacts DEF Lower, Upper
      <3>6. \A k, l \in InFlight' : k < l =>
              /\ Lower(k)' => Lower(l)'
              /\ EndOf(k)' <= places'[l] \/ (tail_offset' < head_offset' /\ head_offset' <= places'[k] /\ Lower(l)')
        <4> SUFFICES ASSUME NEW k \in InFlight', NEW l \in InFlight', k < l
                     PROVE  /\ Lower(k)' => Lower(l)'
                            /\ EndOf(k)' <= places'[l]
                                \/ (tail_offset' < head_offset' /\ head_offset' <= places'[k] /\ Lower(l)')
          OBVIOUS
        <4>1. k \in InFlight
          BY <1>2, <1>5
        <4>2. CASE l \in InFlight
          <5>1. /\ Lower(k) => Lower(l)
                /\ EndOf(k) <= places[l] \/ (tail_offset < head_offset /\ head_offset <= places[k] /\ Lower(l))
            BY <1>1, <4>1, <4>2, InFlightOrder
          <5>2. k \in 1..Len(posted) /\ l \in 1..Len(posted)
            BY <1>5, <4>1, <4>2
          <5>3. EndOf(k)' = EndOf(k) /\ places'[k] = places[k] /\ places'[l] = places[l]
            BY <5>2, <1>4, <1>6
          <5>4. tail_offset < head_offset => tail_offset' < head_offset'
            BY <1>0, <1>2, <3>3, <1>b, <2>2
          <5> QED
            BY <1>0, <4>1, <4>2, <5>1, <5>3, <5>4, <3>1, <3>5
        <4>3. CASE l = n
          <5>1. EndOf(k) <= tail_offset \/ (tail_offset < head_offset /\ head_offset <= places[k])
            BY <1>1, <1>2, <4>1, InFlightFacts DEF Upper, Lower
          <5>2. k \in 1..Len(posted)
            BY <1>5, <4>1
          <5>3. EndOf(k)' = EndOf(k) /\ places'[k] = places[k] /\ places'[l] = tail_offset
            BY <5>2, <4>3, <1>4, <1>6
          <5>4. tail_offset < head_offset => tail_offset' < head_offset'
            BY <1>0, <1>2, <3>3, <1>b, <2>2
          <5> QED
            BY <1>0, <4>3, <5>1, <5>3, <5>4, <3>2
        <4> QED
          BY <1>5, <4>2, <4>3
      <3>7. \A k \in Freed..n : Leads(Behind(k), PlaceOf(k + 1))'
        <4>1. \A k \in Freed..Len(posted) : Leads(Behind(k), PlaceOf(k + 1))'
          BY <1>1, <1>7, <1>8 DEF Layout, Leads
        <4>2. Behind(n)' = NextEnd /\ PlaceOf(n + 1)' = newTail
          BY <1>0, <1>1, <1>2, <1>4, <1>5, <1>6, CountFacts DEF Behind, PlaceOf
        <4>3. Leads(Behind(n), PlaceOf(n + 1))'
          BY <4>2, <2>2 DEF Leads
        <4> QED
          BY <1>1, <1>2, <4>1, <4>3, CountFacts
      <3> QED
        BY <1>4, <1>5, <3>4, <3>6, <3>7 DEF Layout
    <2>3. CASE newTail # NextEnd
      <3>1. newTail = 0 /\ NextEnd = size /\ head_offset # 0 /\ head_offset <= tail_offset
        BY <1>2, <1>3, <1>b, <2>3
      <3>2. \A k \in InFlight : Upper(k) /\ Lower(k)
        BY <1>1, <3>1, InFlightFacts
      <3>3. \A k \in InFlight' : Upper(k)' /\ ~Lower(k)'
        <4>1. \A k \in InFlight : ~Lower(k)'
          BY <1>0, <1>1, <1>2, <1>5, <1>6, <3>1, InFlightFacts DEF Lower
        <4>2. ~Lower(n)'
          <5>1. ~(NextEnd <= newTail)
            BY <1>2, <1>b, <3>1
          <5> QED
            BY <2>1, <5>1
        <4> QED
          BY <1>5, <2>1, <3>1, <3>2, <4>1, <4>2
      <3>4. ~(head_offset' <= tail_offset')
        BY <1>0, <1>2, <3>1
      <3>5. \A k, l \in InFlight' : k < l => EndOf(k)' <= places'[l]
        <4> SUFFICES ASSUME NEW k \in InFlight', NEW l \in InFlight', k < l PROVE EndOf(k)' <= places'[l]
          OBVIOUS
        <4>1. k \in InFlight /\ k \in 1..Len(posted)
          BY <1>2, <1>5
        <4>2. CASE l \in InFlight
          <5>1. EndOf(k) <= places[l]
            BY <1>1, <1>2, <3>1, <4>1, <4>2, InFlightOrder
          <5>2. l \in 1..Len(posted)
            BY <1>5, <4>2
          <5> QED
            BY <1>4, <1>6, <4>1, <5>1, <5>2
        <4>3. CASE l = n
          BY <1>4, <1>6, <3>2, <4>1, <4>3 DEF Lower
        <4> QED
          BY <1>5, <4>2, <4>3
      <3>6. \A k \in Freed..n : Leads(Behind(k), PlaceOf(k + 1))'
        <4>1. \A k \in Freed..Len(posted) : Leads(Behind(k), PlaceOf(k + 1))'
          BY <1>1, <1>7, <1>8 DEF Layout, Leads
        <4>2. Behind(n)' = size /\ PlaceOf(n + 1)' = 0
          BY <1>0, <1>1, <1>2, <1>4, <1>5, <1>6, <3>1, CountFacts DEF Behind, PlaceOf
        <4>3. Gap(size)
          BY <1>2 DEF Gap
        <4>4. Leads(Behind(n), PlaceOf(n + 1))'
          BY <1>8, <4>2, <4>3 DEF Leads
        <4> QED
          BY <1>1, <1>2, <4>1, <4>4, CountFacts
      <3> QED
        BY <1>4, <1>5, <3>3, <3>4, <3>5, <3>6 DEF Layout
    <2> QED
      BY <2>2, <2>3
  <1>12. Contents'
    <2> SUFFICES ASSUME NEW k \in InFlight'
                 PROVE  /\ buff'[places'[k]] = Package(posted'[k][2])
                        /\ \A i \in (places'[k] + HeaderSize)..(EndOf(k)' - 1) : buff'[i] = Data(k)
      BY DEF Contents
    <2>1. CASE k \in InFlight
      BY <1>0, <1>1, <1>4, <1>5, <1>6, <2>1 DEF Contents
    <2>2. CASE k = n
      <3>1. posted'[k][2] = length /\ places'[k] = tail_offset /\ EndOf(k)' = NextEnd
        BY <1>4, <1>6, <2>2
      <3> QED
        BY <1>0, <1>3, <2>2, <3>1
    <2> QED
      BY <1>5, <2>1, <2>2
  <1>13. Grants'
    BY <1>0 DEF Grants, Sending
  <1>14. Reads'
    <2>1. CASE rpc = "begin"
      BY <1>1, <1>a, <2>1 DEF Reads
    <2>2. CASE rpc # "begin"
      <3>1. /\ Found \in Freed..Len(posted) /\ loaded \in Freed..Len(posted) /\ Found <= loaded
            /\ Freed \in Nat
        BY <1>1, <2>2, ReadCounts, CountFacts
      <3>2. Behind(loaded)' = Behind(loaded) /\ Behind(Found)' = Behind(Found)
        BY <1>7, <3>1, <1>5, <1>a
      <3>3. loaded <= n
        BY <3>1, <1>2
      <3>4. \A k \in (Freed + 1)..loaded : places'[k] = places[k] /\ EndOf(k)' = EndOf(k) /\ posted'[k] = posted[k]
        <4>1. (Freed + 1)..loaded \subseteq 1..Len(posted)
          BY <3>1, <1>2
        <4> QED
          BY <4>1, <1>4, <1>6
      <3>5. \A i \in 1..Len(iov) : Freed + i \in (Freed + 1)..loaded
        BY <1>1, <3>1, CountFacts
      <3>6. \A i \in 1..Len(iov) :
              iov[i] = [base |-> places'[Freed + i] + HeaderSize, len |-> posted'[Freed + i][2]]
        BY <1>1, <2>2, <3>4, <3>5 DEF Reads
      <3>7. Leads(Behind(loaded), tailRead)' /\ Leads(Behind(Found), ch)'
        BY <1>1, <1>8, <1>a, <2>2, <3>2 DEF Reads, Leads
      <3>8. IF head_offset <= tailRead
            THEN /\ tailRead <= tail_offset' \/ tail_offset' < head_offset
                 /\ \A k \in (Freed + 1)..loaded : head_offset <= places'[k] /\ EndOf(k)' <= tailRead
            ELSE /\ tailRead <= tail_offset' /\ tail_offset' < head_offset
                 /\ \A k \in (Freed + 1)..loaded : head_offset <= places'[k] \/ EndOf(k)' <= tailRead
        <4>1. CASE head_offset <= tailRead
          <5>1. tailRead <= tail_offset \/ tail_offset < head_offset
            BY <1>1, <2>2, <4>1 DEF Reads
          <5>2. tailRead <= tail_offset' \/ tail_offset' < head_offset
            BY <1>0, <1>2, <1>3, <1>b, <5>1
          <5> QED
            BY <1>1, <2>2, <3>4, <4>1, <5>2 DEF Reads
        <4>2. CASE ~(head_offset <= tailRead)
          <5>1. tailRead <= tail_offset /\ tail_offset < head_offset
            BY <1>1, <2>2, <4>2 DEF Reads
          <5>2. tailRead <= tail_offset' /\ tail_offset' < head_offset
            BY <1>0, <1>2, <1>b, <5>1
          <5> QED
            BY <1>1, <2>2, <3>4, <4>2, <5>2 DEF Reads
        <4> QED
          BY <4>1, <4>2
      <3> QED
        BY <1>0, <1>1, <1>4, <1>5, <1>a, <2>2, <3>1, <3>2, <3>3, <3>6, <3>7, <3>8 DEF Reads
    <2> QED
      BY <2>1, <2>2
  <1> QED
    BY <1>9, <1>10, <1>11, <1>12, <1>13, <1>14 DEF TbusInv
\* Sending nothing changes nothing.
LEMMA SendNothingStep ==
  ASSUME TbusInv, SendNothing
  PROVE  TbusInv'
  <1>0. /\ spc = "fill" /\ spc' = "begin"
        /\ UNCHANGED <<buff, room, length, newTail>> /\ UNCHANGED ringState
    BY DEF SendNothing, ringState
  <1>1. TbusTyped /\ Histories /\ Layout /\ Contents /\ Grants /\ Reads
    BY DEF TbusInv
  <1>2. Layout' /\ Contents' /\ Reads'
    BY <1>0, <1>1, WritingIsHarmless
  <1>3. TbusTyped'
    BY <1>0, <1>1 DEF TbusTyped, ringState, readerVars
  <1>4. Histories'
    BY <1>0, <1>1 DEF Histories, Freed, ringState, readerVars
  <1>5. Grants'
    BY <1>0 DEF Grants, Sending
  <1> QED
    BY <1>2, <1>3, <1>4, <1>5 DEF TbusInv

-----------------------------------------------------------------------------
(* The reader                                                              *)

\* Until it gives space back, the reader changes nothing but its own view.
LEMMA ReadingIsHarmless ==
  ASSUME Layout, Contents, Grants, Freed' = Freed,
         UNCHANGED <<head_offset, tail_offset, buff, senderVars, posted, places>>
  PROVE  /\ Layout' /\ Contents' /\ Grants'
         /\ \A k : EndOf(k)' = EndOf(k) /\ Behind(k)' = Behind(k)
         /\ \A o : Gap(o)' <=> Gap(o)
  <1>0. /\ head_offset' = head_offset /\ tail_offset' = tail_offset /\ buff' = buff
        /\ posted' = posted /\ places' = places
        /\ spc' = spc /\ room' = room /\ length' = length /\ newTail' = newTail
    BY DEF senderVars
  <1>1. /\ InFlight' = InFlight
        /\ \A k : PlaceOf(k)' = PlaceOf(k) /\ EndOf(k)' = EndOf(k) /\ Behind(k)' = Behind(k)
        /\ \A k : (Upper(k)' <=> Upper(k)) /\ (Lower(k)' <=> Lower(k))
        /\ \A o : Gap(o)' <=> Gap(o)
    BY <1>0 DEF InFlight, PlaceOf, EndOf, Behind, Upper, Lower, Gap
  <1>2. Layout'
    BY <1>0, <1>1 DEF Layout, Leads
  <1>3. Contents'
    BY <1>0, <1>1 DEF Contents
  <1>4. Grants'
    BY <1>0, <1>1 DEF Grants, Sending, NextEnd
  <1> QED
    BY <1>1, <1>2, <1>3, <1>4

\* The reader loads the tail, and with it the packets it may find.
LEMMA ReadBeginStep ==
  ASSUME TbusInv, tbus_read_begin
  PROVE  TbusInv'
  <1>1. TbusTyped /\ Histories /\ Layout /\ Contents /\ Grants /\ Reads
    BY DEF TbusInv
  <1>0. /\ rpc = "begin" /\ rpc' = "peek" /\ tailRead' = tail_offset /\ ch' = head_offset
        /\ limit' = IF head_offset <= tail_offset THEN tail_offset ELSE size
        /\ loaded' = Len(posted)
        /\ iov' = iov /\ posted' = posted /\ places' = places /\ delivered' = delivered
        /\ head_offset' = head_offset /\ tail_offset' = tail_offset
        /\ UNCHANGED <<buff, senderVars>>
    BY DEF tbus_read_begin
  <1>2. iov = <<>> /\ Freed' = Freed /\ Found' = Freed
    BY <1>0, <1>1 DEF Reads, Freed, Found, TbusTyped, Histories
  <1>3. head_offset \in Nat /\ tail_offset \in Nat /\ Freed \in Nat /\ Len(posted) \in Nat /\ Freed <= Len(posted)
    BY <1>1, SizeNat, CountFacts DEF TbusTyped, Offsets
  <1>4. /\ Layout' /\ Contents' /\ Grants'
        /\ \A k : EndOf(k)' = EndOf(k) /\ Behind(k)' = Behind(k)
        /\ \A o : Gap(o)' <=> Gap(o)
    BY <1>0, <1>1, <1>2, ReadingIsHarmless
  <1>5. TbusTyped'
    BY <1>0, <1>1, <1>3, SizeNat DEF TbusTyped, senderVars, Offsets
  <1>6. Histories'
    BY <1>0, <1>1, <1>2 DEF Histories, senderVars
  <1>7. Reads'
    <2>1. Leads(Behind(loaded), tailRead)'
      <3>1. Leads(Behind(Len(posted)), PlaceOf(Len(posted) + 1)) /\ PlaceOf(Len(posted) + 1) = tail_offset
        BY <1>1, <1>3, BehindFacts
      <3>2. Behind(loaded)' = Behind(Len(posted))
        BY <1>0, <1>2 DEF Behind, EndOf
      <3> QED
        BY <1>0, <1>4, <3>1, <3>2 DEF Leads
    <2>2. Behind(Found)' = head_offset
      BY <1>0, <1>2 DEF Behind
    <2>3. \A k \in InFlight :
            IF head_offset <= tail_offset THEN head_offset <= places[k] /\ EndOf(k) <= tail_offset
                                          ELSE head_offset <= places[k] \/ EndOf(k) <= tail_offset
      BY <1>1 DEF Layout, Upper, Lower
    <2>4. (Freed' + 1)..loaded' = InFlight /\ Len(iov') = 0
      BY <1>0, <1>2 DEF InFlight
    <2>5. IF head_offset' <= tailRead'
          THEN /\ tailRead' <= tail_offset' \/ tail_offset' < head_offset'
               /\ \A k \in (Freed' + 1)..loaded' : head_offset' <= places'[k] /\ EndOf(k)' <= tailRead'
          ELSE /\ tailRead' <= tail_offset' /\ tail_offset' < head_offset'
               /\ \A k \in (Freed' + 1)..loaded' : head_offset' <= places'[k] \/ EndOf(k)' <= tailRead'
      <3>1. head_offset' = head_offset /\ tailRead' = tail_offset /\ tail_offset' = tail_offset /\ places' = places
        BY <1>0
      <3>2. \A k \in InFlight : places'[k] = places[k] /\ EndOf(k)' = EndOf(k)
        BY <1>4, <3>1
      <3>3. /\ head_offset <= tail_offset =>
                 \A k \in InFlight : head_offset <= places'[k] /\ EndOf(k)' <= tail_offset
            /\ ~(head_offset <= tail_offset) =>
                 \A k \in InFlight : head_offset <= places'[k] \/ EndOf(k)' <= tail_offset
        BY <2>3, <3>2
      <3>4. tail_offset <= tail_offset /\ (head_offset <= tail_offset \/ tail_offset < head_offset)
        BY <1>3
      <3> QED
        BY <2>4, <3>1, <3>3, <3>4
    <2>6. \/ limit' = size /\ tailRead' < head_offset' /\ ch' = Behind(Found)' /\ head_offset' <= ch'
          \/ limit' = tailRead' /\ ch' <= tailRead'
      BY <1>0, <1>3, <2>2
    <2> QED
      BY <1>0, <1>2, <1>3, <2>1, <2>2, <2>4, <2>5, <2>6 DEF Reads, Leads
  <1> QED
    BY <1>4, <1>5, <1>6, <1>7 DEF TbusInv

\* Before its limit peek stands at the next of the packets that were there when
\* the tail was loaded, unless it is in the gap at the end of the ring.
LEMMA NextPacket ==
  ASSUME TbusTyped, Histories, Layout, Contents, Reads, rpc = "peek",
         AtHeader \/ (ch < limit /\ limit = tailRead)
  PROVE  /\ Found < loaded /\ Found + 1 \in InFlight
         /\ ch = places[Found + 1]
         /\ buff[ch] = Package(posted[Found + 1][2])
         /\ EndOf(Found + 1) <= limit
         /\ AtHeader /\ AtPacket
  <1>0. /\ head_offset \in Nat /\ tail_offset \in Nat /\ tailRead \in Nat /\ limit \in Nat /\ ch \in Nat
        /\ size \in Nat /\ limit <= size /\ loaded \in Nat /\ Len(posted) \in Nat /\ Freed \in Nat /\ Found \in Nat
        /\ head_offset <= size
    BY SizeNat, CountFacts DEF TbusTyped, Offsets
  <1>1. /\ Found \in Freed..Len(posted) /\ loaded \in Freed..Len(posted) /\ Found <= loaded
    BY ReadCounts
  <1>2. /\ Behind(Found) \in Nat /\ Leads(Behind(Found), PlaceOf(Found + 1))
        /\ Found < Len(posted) => Found + 1 \in InFlight /\ PlaceOf(Found + 1) = places[Found + 1]
    BY <1>1, BehindFacts
  <1>3. /\ Leads(Behind(loaded), tailRead) /\ Leads(Behind(Found), ch)
        /\ ch # Behind(Found) => tailRead < head_offset /\ head_offset <= Behind(Found)
        /\ \A k \in (Freed + 1)..loaded :
              IF head_offset <= tailRead THEN head_offset <= places[k] /\ EndOf(k) <= tailRead
                                         ELSE head_offset <= places[k] \/ EndOf(k) <= tailRead
    BY DEF Reads
  <1>4. \/ limit = size /\ tailRead < head_offset /\ ch = Behind(Found) /\ head_offset <= ch
        \/ limit = tailRead /\ ch <= tailRead
    BY DEF Reads
  <1>5. ch < limit
    BY DEF AtHeader
  <1>6. AtHeader => ~Gap(ch)
    BY <1>0 DEF AtHeader, Gap
  <1>7. Found < loaded
    <2> SUFFICES ASSUME Found = loaded PROVE FALSE
      BY <1>0, <1>1
    <2> QED
      BY <1>0, <1>2, <1>3, <1>4, <1>5, <1>6 DEF Leads
  <1> DEFINE k == Found + 1
  <1>8. k \in InFlight /\ PlaceOf(k) = places[k] /\ k \in (Freed + 1)..loaded /\ k \in 1..Len(posted)
    BY <1>0, <1>1, <1>2, <1>7
  <1>9. /\ places[k] \in Nat /\ EndOf(k) \in Nat /\ posted[k][2] \in Nat
        /\ places[k] + HeaderSize < EndOf(k) /\ EndOf(k) <= size
        /\ EndOf(k) = places[k] + HeaderSize + posted[k][2]
    BY <1>8, InFlightFacts, PacketFacts
  <1>10. /\ buff[places[k]] = Package(posted[k][2])
         /\ buff[places[k]] # Ignore
         /\ buff[places[k]][1] = "package" /\ buff[places[k]][2] = posted[k][2]
    <2>1. buff[places[k]] = Package(posted[k][2])
      BY <1>8 DEF Contents
    <2> QED
      BY <2>1, <1>9, CellsDiffer
  <1>11. ~Gap(places[k])
    BY <1>0, <1>9, <1>10 DEF Gap
  <1> HIDE DEF k
  <1>12. ch = places[k]
    <2>1. Leads(Behind(Found), places[k])
      BY <1>2, <1>8 DEF k
    <2>2. CASE ch # Behind(Found)
      BY <1>3, <1>11, <2>1, <2>2 DEF Leads
    <2>3. CASE ch = Behind(Found) /\ Gap(ch) /\ ch # places[k]
      <3>1. limit = tailRead /\ ch < tailRead /\ places[k] = 0
        BY <1>4, <1>5, <1>6, <2>1, <2>3 DEF Leads
      <3>2. Behind(Found) # PlaceOf(Found + 1)
        BY <1>8, <2>3 DEF k
      <3>3. tail_offset < head_offset /\ head_offset <= ch
        BY <1>1, <2>3, <3>2, GapsAreUpper
      <3>4. head_offset <= tailRead
        BY <1>0, <3>1, <3>3
      <3>5. head_offset <= places[k]
        BY <1>3, <1>8, <3>4
      <3> QED
        BY <1>0, <3>1, <3>3, <3>5
    <2>4. CASE ch = Behind(Found) /\ ~Gap(ch)
      BY <2>1, <2>4 DEF Leads
    <2> QED
      BY <2>2, <2>3, <2>4
  <1>13. EndOf(k) <= limit
    BY <1>0, <1>3, <1>4, <1>5, <1>8, <1>9, <1>12
  <1>14. AtHeader
    BY <1>0, <1>5, <1>9, <1>10, <1>12, <1>13 DEF AtHeader
  <1>15. AtPacket
    BY <1>0, <1>9, <1>10, <1>12, <1>13 DEF AtPacket
  <1> QED
    BY <1>7, <1>8, <1>10, <1>12, <1>13, <1>14, <1>15 DEF k
\* While it does not give space back, what the reader knows of the ring stays true.
LEMMA PeekStep ==
  ASSUME TbusInv, peek
  PROVE  TbusInv'
  <1>1. TbusTyped /\ Histories /\ Layout /\ Contents /\ Grants /\ Reads
    BY DEF TbusInv
  <1>0. /\ rpc = "peek" /\ AtHeader /\ rpc' = rpc /\ tailRead' = tailRead /\ limit' = limit /\ loaded' = loaded
        /\ iov' = Append(iov, [base |-> ch + HeaderSize, len |-> buff[ch][2]])
        /\ ch' = ch + HeaderSize + buff[ch][2]
        /\ posted' = posted /\ places' = places /\ delivered' = delivered
        /\ head_offset' = head_offset /\ tail_offset' = tail_offset
        /\ UNCHANGED <<buff, senderVars>>
    BY DEF peek
  <1> SUFFICES ASSUME NEW k \in Nat, k = Found + 1 PROVE TbusInv'
    BY <1>1, CountFacts
  <1>2. /\ Found < loaded /\ k \in InFlight /\ ch = places[k]
        /\ buff[ch] = Package(posted[k][2]) /\ EndOf(k) <= limit
    BY <1>0, <1>1, NextPacket
  <1>3. /\ k \in 1..Len(posted) /\ posted[k][2] \in Nat /\ places[k] \in Nat
        /\ EndOf(k) \in Nat /\ EndOf(k) <= size
        /\ EndOf(k) = places[k] + HeaderSize + posted[k][2]
        /\ places[k] < EndOf(k)
    BY <1>1, <1>2, InFlightFacts, PacketFacts
  <1>4. buff[ch][2] = posted[k][2]
    BY <1>2, <1>3, CellsDiffer
  <1>5. /\ iov \in Seq([base : Nat, len : Nat]) /\ Len(iov) \in Nat /\ Freed \in Nat /\ k = Freed + Len(iov) + 1
    BY <1>1, CountFacts DEF TbusTyped
  <1>6. /\ iov' \in Seq([base : Nat, len : Nat]) /\ Len(iov') = Len(iov) + 1
        /\ \A i \in 1..Len(iov) : iov'[i] = iov[i]
        /\ iov'[Len(iov) + 1] = [base |-> places[k] + HeaderSize, len |-> posted[k][2]]
    <2>1. [base |-> places[k] + HeaderSize, len |-> posted[k][2]] \in [base : Nat, len : Nat]
      BY <1>3
    <2>2. iov' = Append(iov, [base |-> places[k] + HeaderSize, len |-> posted[k][2]])
      BY <1>0, <1>2, <1>4
    <2> QED
      BY <1>5, <2>1, <2>2, AppendFacts
  <1>7. Freed' = Freed /\ Found' = k /\ ch' = EndOf(k)
    BY <1>0, <1>2, <1>3, <1>4, <1>5, <1>6 DEF Freed, Found
  <1>8. /\ Layout' /\ Contents' /\ Grants'
        /\ \A j : EndOf(j)' = EndOf(j) /\ Behind(j)' = Behind(j)
        /\ \A o : Gap(o)' <=> Gap(o)
    BY <1>0, <1>1, <1>7, ReadingIsHarmless
  <1>9. TbusTyped'
    BY <1>0, <1>1, <1>3, <1>6, <1>7, SizeNat DEF TbusTyped, senderVars, Offsets
  <1>10. Histories'
    BY <1>0, <1>1, <1>7 DEF Histories, senderVars
  <1>11. Reads'
    <2>1. Behind(Found)' = EndOf(k)
      <3>1. k # Freed
        BY <1>5
      <3> QED
        BY <1>0, <1>7, <1>8, <3>1 DEF Behind
    <2>2. k <= loaded
      BY <1>1, <1>2, CountFacts DEF TbusTyped
    <2>3. \A i \in 1..Len(iov') :
            iov'[i] = [base |-> places[Freed + i] + HeaderSize, len |-> posted[Freed + i][2]]
      <3>1. \A i \in 1..Len(iov) :
              iov'[i] = [base |-> places[Freed + i] + HeaderSize, len |-> posted[Freed + i][2]]
        BY <1>0, <1>1, <1>6 DEF Reads
      <3>2. Freed + (Len(iov) + 1) = k
        BY <1>5
      <3>3. \A i \in 1..Len(iov') : i \in 1..Len(iov) \/ i = Len(iov) + 1
        BY <1>5, <1>6
      <3>4. iov'[Len(iov) + 1] = [base |-> places[Freed + (Len(iov) + 1)] + HeaderSize,
                                  len |-> posted[Freed + (Len(iov) + 1)][2]]
        BY <1>6, <3>2
      <3> QED
        BY <3>1, <3>3, <3>4
    <2>4. Leads(Behind(loaded), tailRead)'
      <3>1. Behind(loaded)' = Behind(loaded)
        BY <1>0, <1>7 DEF Behind, EndOf
      <3> QED
        BY <1>0, <1>1, <1>8, <3>1 DEF Reads, Leads
    <2>5. IF head_offset' <= tailRead'
          THEN /\ tailRead' <= tail_offset' \/ tail_offset' < head_offset'
               /\ \A j \in (Freed' + 1)..loaded' : head_offset' <= places'[j] /\ EndOf(j)' <= tailRead'
          ELSE /\ tailRead' <= tail_offset' /\ tail_offset' < head_offset'
               /\ \A j \in (Freed' + 1)..loaded' : head_offset' <= places'[j] \/ EndOf(j)' <= tailRead'
      BY <1>0, <1>1, <1>7, <1>8 DEF Reads
    <2>6. \/ limit' = size /\ tailRead' < head_offset' /\ ch' = Behind(Found)' /\ head_offset' <= ch'
          \/ limit' = tailRead' /\ ch' <= tailRead'
      <3>1. head_offset \in Nat
        BY <1>1, SizeNat DEF TbusTyped, Offsets
      <3>2. \/ limit = size /\ tailRead < head_offset /\ head_offset <= ch
            \/ limit = tailRead
        BY <1>0, <1>1 DEF Reads
      <3> QED
        BY <1>0, <1>2, <1>3, <1>7, <2>1, <3>1, <3>2
    <2> QED
      BY <1>0, <1>1, <1>7, <2>1, <2>2, <2>3, <2>4, <2>5, <2>6 DEF Reads, Leads
  <1> QED
    BY <1>8, <1>9, <1>10, <1>11 DEF TbusInv

\* Steps of the reader that keep the packets it has found.
LEMMA ReadsKept ==
  ASSUME TbusTyped, Histories, Layout, Contents, Grants, Reads, rpc # "begin", rpc' # "begin",
         Freed' = Freed, Histories', TbusTyped',
         UNCHANGED <<head_offset, tail_offset, buff, senderVars, tailRead, iov, loaded, posted, places>>,
         Leads(Behind(Found), ch'),
         ch' # Behind(Found) => tailRead < head_offset /\ head_offset <= Behind(Found),
         rpc' = "peek" => limit' = tailRead /\ ch' <= tailRead,
         rpc' = "empty" => iov = <<>>
  PROVE  TbusInv'
  <1>0. /\ tailRead' = tailRead /\ iov' = iov /\ loaded' = loaded /\ posted' = posted /\ places' = places
        /\ head_offset' = head_offset /\ tail_offset' = tail_offset
    OBVIOUS
  <1>1. /\ Layout' /\ Contents' /\ Grants'
        /\ \A k : EndOf(k)' = EndOf(k) /\ Behind(k)' = Behind(k)
        /\ \A o : Gap(o)' <=> Gap(o)
    BY ReadingIsHarmless
  <1>2. Found' = Found
    BY <1>0 DEF Found
  <1>3. Behind(loaded)' = Behind(loaded) /\ Behind(Found)' = Behind(Found)
    BY <1>0, <1>2 DEF Behind, EndOf
  <1>4. Leads(Behind(loaded), tailRead)' /\ Leads(Behind(Found), ch)'
    BY <1>0, <1>1, <1>3 DEF Reads, Leads
  <1>5. \A k \in (Freed + 1)..loaded : places'[k] = places[k] /\ EndOf(k)' = EndOf(k)
    BY <1>0, <1>1
  <1>6. Reads'
    BY <1>0, <1>1, <1>2, <1>3, <1>4, <1>5 DEF Reads
  <1> QED
    BY <1>1, <1>6 DEF TbusInv

\* At the end of the ring the reader goes on at its start; elsewhere the read is complete.
LEMMA PeekReturnsStep ==
  ASSUME TbusInv, PeekReturns
  PROVE  TbusInv'
  <1>1. TbusTyped /\ Histories /\ Layout /\ Contents /\ Grants /\ Reads
    BY DEF TbusInv
  <1>0. /\ rpc = "peek" /\ tailRead' = tailRead /\ loaded' = loaded
        /\ UNCHANGED <<head_offset, tail_offset, buff, senderVars, posted, places, delivered>>
    BY DEF PeekReturns
  <1>2. /\ head_offset \in Nat /\ tailRead \in Nat /\ limit \in Nat /\ ch \in Nat /\ ch <= size
        /\ size \in Nat /\ head_offset <= size /\ tailRead <= size /\ limit <= size
    BY <1>1, SizeNat DEF TbusTyped, Offsets
  <1>3. AtHeader => AtPacket
    BY <1>0, <1>1, NextPacket
  <1>4. ret = IF AtHeader THEN ch ELSE limit
    BY <1>3 DEF ret
  <1>5. ret # NULL
    BY <1>2, <1>4 DEF NULL
  <1>6. /\ Leads(Behind(Found), ch)
        /\ ch # Behind(Found) => tailRead < head_offset /\ head_offset <= Behind(Found)
        /\ \/ limit = size /\ tailRead < head_offset /\ ch = Behind(Found) /\ head_offset <= ch
           \/ limit = tailRead /\ ch <= tailRead
    BY <1>0, <1>1 DEF Reads
  <1>7. CASE ret = limit /\ limit # tailRead
    <2>0. ch' = 0 /\ limit' = tailRead /\ rpc' = rpc /\ iov' = iov
      BY <1>7 DEF PeekReturns
    <2>1. limit = size /\ tailRead < head_offset /\ ch = Behind(Found) /\ head_offset <= ch
      BY <1>6, <1>7
    <2>2. ~AtHeader
      BY <1>2, <1>4, <1>7 DEF AtHeader
    <2>3. Gap(ch)
      BY <1>2, <2>1, <2>2 DEF AtHeader, Gap
    <2>4. Freed' = Freed
      BY <1>0, <2>0 DEF Freed
    <2>5. TbusTyped'
      BY <1>0, <1>1, <1>2, <2>0 DEF TbusTyped, senderVars, Offsets
    <2>6. Histories'
      BY <1>0, <1>1, <2>4 DEF Histories, senderVars
    <2>7. Leads(Behind(Found), ch')
      BY <2>0, <2>1, <2>3 DEF Leads
    <2> QED
      BY <1>0, <1>1, <1>2, <2>0, <2>1, <2>4, <2>5, <2>6, <2>7, ReadsKept
  <1>8. CASE ~(ret = limit /\ limit # tailRead)
    <2>0. ch' = ret /\ limit' = limit /\ iov' = iov /\ rpc' = IF iov = <<>> THEN "empty" ELSE "consume"
      BY <1>5, <1>8 DEF PeekReturns
    <2>1. ch' = ch
      <3>1. CASE AtHeader
        BY <1>4, <2>0, <3>1
      <3>2. CASE ~AtHeader
        <4>1. limit = tailRead /\ ret = limit
          BY <1>4, <1>8, <3>2
        <4>2. ~(ch < limit)
          BY <1>0, <1>1, <3>2, <4>1, NextPacket
        <4>3. ch <= limit
          BY <1>2, <1>6, <4>1
        <4> QED
          BY <1>2, <2>0, <4>1, <4>2, <4>3
      <3> QED
        BY <3>1, <3>2
    <2>4. Freed' = Freed
      BY <1>0, <2>0 DEF Freed
    <2>5. TbusTyped'
      BY <1>0, <1>1, <1>2, <2>0, <2>1 DEF TbusTyped, senderVars, Offsets
    <2>6. Histories'
      BY <1>0, <1>1, <2>4 DEF Histories, senderVars
    <2>7. rpc' # "begin" /\ rpc' # "peek" /\ (rpc' = "empty" => iov = <<>>)
      BY <2>0
    <2> QED
      BY <1>0, <1>1, <1>6, <2>0, <2>1, <2>4, <2>5, <2>6, <2>7, ReadsKept
  <1> QED
    BY <1>7, <1>8

\* What the reader is shown is the packet that was sent.
LEMMA SeenIsPosted ==
  ASSUME TbusTyped, Histories, Layout, Contents, Reads, rpc = "consume", NEW i \in 1..Len(iov)
  PROVE  Seen(iov[i]) = posted[Freed + i]
  <1> SUFFICES ASSUME NEW k \in Nat, k = Freed + i PROVE Seen(iov[i]) = posted[k]
    BY CountFacts
  <1>1. k \in InFlight
    BY CountFacts, ReadCounts DEF InFlight
  <1>2. /\ k \in 1..Len(posted) /\ posted[k][2] \in Nat /\ posted[k][2] >= 1 /\ places[k] \in Nat
        /\ EndOf(k) = places[k] + HeaderSize + posted[k][2]
        /\ posted[k] = <<k, posted[k][2]>>
    BY <1>1, InFlightFacts, PacketFacts
  <1>3. iov[i].base = places[k] + HeaderSize /\ iov[i].len = posted[k][2]
    <2>1. iov[i] = [base |-> places[Freed + i] + HeaderSize, len |-> posted[Freed + i][2]]
      BY DEF Reads
    <2> QED
      BY <2>1
  <1>4. k \in 1..MaxPackets
    BY <1>2, MaxPacketsAssumption, CountFacts DEF Histories
  <1> DEFINE shown == {buff[j] : j \in iov[i].base..(iov[i].base + iov[i].len - 1)}
  <1>5. iov[i].base..(iov[i].base + iov[i].len - 1) = (places[k] + HeaderSize)..(EndOf(k) - 1)
    BY <1>2, <1>3
  <1>6. \A j \in (places[k] + HeaderSize)..(EndOf(k) - 1) : buff[j] = Data(k)
    BY <1>1 DEF Contents
  <1>7. places[k] + HeaderSize \in (places[k] + HeaderSize)..(EndOf(k) - 1)
    BY <1>2
  <1>8. shown = {Data(k)}
    BY <1>5, <1>6, <1>7
  <1>9. (CHOOSE c \in shown : TRUE) = Data(k)
    BY <1>8
  <1>10. Data(k)[2] = k
    BY CellsDiffer
  <1>11. Seen(iov[i]) = <<(CHOOSE c \in shown : TRUE)[2], iov[i].len>>
    BY <1>4, <1>8 DEF Seen
  <1> QED
    BY <1>2, <1>3, <1>9, <1>10, <1>11
\* What is delivered are the next packets that were posted.
LEMMA ConsumeStep ==
  ASSUME TbusInv, Consume
  PROVE  TbusInv'
  <1>1. TbusTyped /\ Histories /\ Layout /\ Contents /\ Grants /\ Reads
    BY DEF TbusInv
  <1>0. /\ rpc = "consume" /\ rpc' = "end"
        /\ delivered' = delivered \o [k \in DOMAIN iov |-> Seen(iov[k])]
        /\ UNCHANGED <<head_offset, tail_offset, buff, senderVars, tailRead, limit, ch, iov, loaded,
                       posted, places>>
    BY DEF Consume
  <1>2. /\ Freed = Len(delivered) /\ Len(delivered) \in Nat /\ Len(iov) \in Nat /\ Len(posted) \in Nat
        /\ DOMAIN iov = 1..Len(iov) /\ Found = Len(delivered) + Len(iov) /\ Found <= Len(posted)
        /\ delivered \in Seq((1..MaxPackets) \X Lengths)
        /\ \A k \in 1..Len(posted) : posted[k] \in (1..MaxPackets) \X Lengths
    BY <1>0, <1>1, CountFacts, ReadCounts DEF Freed, TbusTyped
  <1> DEFINE views == [k \in DOMAIN iov |-> Seen(iov[k])]
  <1>3. \A i \in 1..Len(iov) : views[i] = posted[Len(delivered) + i] /\ Len(delivered) + i \in 1..Len(posted)
    <2> SUFFICES ASSUME NEW i \in 1..Len(iov)
                 PROVE  views[i] = posted[Len(delivered) + i] /\ Len(delivered) + i \in 1..Len(posted)
      OBVIOUS
    <2>1. views[i] = Seen(iov[i])
      BY <1>2
    <2>2. Seen(iov[i]) = posted[Freed + i]
      BY <1>0, <1>1, SeenIsPosted
    <2> QED
      BY <1>2, <2>1, <2>2
  <1>4. views \in Seq((1..MaxPackets) \X Lengths) /\ Len(views) = Len(iov)
    <2>1. views \in [1..Len(iov) -> (1..MaxPackets) \X Lengths]
      BY <1>2, <1>3
    <2> QED
      BY <1>2, <2>1
  <1> HIDE DEF views
  <1>5. /\ delivered' \in Seq((1..MaxPackets) \X Lengths)
        /\ Len(delivered') = Len(delivered) + Len(iov)
        /\ \A k \in 1..Len(delivered) : delivered'[k] = delivered[k]
        /\ \A i \in 1..Len(iov) : delivered'[Len(delivered) + i] = views[i]
    <2>1. delivered' = delivered \o views
      BY <1>0 DEF views
    <2>2. /\ delivered \o views \in Seq((1..MaxPackets) \X Lengths)
          /\ Len(delivered \o views) = Len(delivered) + Len(views)
          /\ \A k \in 1..Len(delivered) : (delivered \o views)[k] = delivered[k]
          /\ \A i \in 1..Len(views) : (delivered \o views)[Len(delivered) + i] = views[i]
      <3>1. delivered \in Seq((1..MaxPackets) \X Lengths) /\ views \in Seq((1..MaxPackets) \X Lengths)
        BY <1>2, <1>4
      <3> QED
        BY <3>1, ConcatFacts
    <2> QED
      BY <1>4, <2>1, <2>2, Zenon
  <1>6. \A k \in 1..Len(delivered') : delivered'[k] = posted[k]
    <2>1. \A k \in 1..Len(delivered) : delivered'[k] = posted[k]
      BY <1>1, <1>5 DEF Histories
    <2>2. \A i \in 1..Len(iov) : delivered'[Len(delivered) + i] = posted[Len(delivered) + i]
      BY <1>3, <1>5
    <2>3. \A k \in 1..Len(delivered') :
            k \in 1..Len(delivered) \/ (k - Len(delivered) \in 1..Len(iov) /\ k = Len(delivered) + (k - Len(delivered)))
      BY <1>2, <1>5
    <2> QED
      BY <2>1, <2>2, <2>3
  <1>7. Freed' = Freed /\ Found' = Found
    BY <1>0, <1>2, <1>5 DEF Freed, Found
  <1>8. Histories'
    BY <1>0, <1>1, <1>2, <1>5, <1>6, <1>7 DEF Histories, senderVars
  <1>9. TbusTyped'
    BY <1>0, <1>1, <1>5 DEF TbusTyped, senderVars
  <1>10. /\ Leads(Behind(Found), ch)
         /\ ch # Behind(Found) => tailRead < head_offset /\ head_offset <= Behind(Found)
    BY <1>0, <1>1 DEF Reads
  <1> QED
    BY <1>0, <1>1, <1>7, <1>8, <1>9, <1>10, ReadsKept

\* A read without packets ends with or without tbus_read_end.
LEMMA ReadNothingStep ==
  ASSUME TbusInv, ReadNothing
  PROVE  TbusInv'
  <1>1. TbusTyped /\ Histories /\ Layout /\ Contents /\ Grants /\ Reads
    BY DEF TbusInv
  <1>0. /\ rpc = "empty" /\ iov = <<>>
        /\ UNCHANGED <<head_offset, tail_offset, buff, senderVars, posted, places, delivered>>
    BY <1>1 DEF ReadNothing, Reads
  <1>2. CASE NotReading
    <2>0. rpc' = "begin" /\ tailRead' = 0 /\ limit' = 0 /\ ch' = 0 /\ iov' = <<>> /\ loaded' = 0
      BY <1>2 DEF NotReading
    <2>1. Freed' = Freed
      BY <1>0, <2>0 DEF Freed
    <2>2. Layout' /\ Contents' /\ Grants'
      BY <1>0, <1>1, <2>1, ReadingIsHarmless
    <2>3. Histories'
      BY <1>0, <1>1, <2>1 DEF Histories, senderVars
    <2>4. TbusTyped'
      BY <1>0, <1>1, <2>0, SizeNat DEF TbusTyped, senderVars, Offsets
    <2>5. Reads'
      BY <2>0 DEF Reads
    <2> QED
      BY <2>2, <2>3, <2>4, <2>5 DEF TbusInv
  <1>3. CASE rpc' = "end" /\ UNCHANGED <<tailRead, limit, ch, iov, loaded>>
    <2>1. Freed' = Freed
      BY <1>0, <1>1, <1>3 DEF Freed, TbusTyped
    <2>2. Histories'
      BY <1>0, <1>1, <2>1 DEF Histories, senderVars
    <2>3. TbusTyped'
      BY <1>0, <1>1, <1>3 DEF TbusTyped, senderVars
    <2>4. /\ Leads(Behind(Found), ch)
          /\ ch # Behind(Found) => tailRead < head_offset /\ head_offset <= Behind(Found)
      BY <1>0, <1>1 DEF Reads
    <2> QED
      BY <1>0, <1>1, <1>3, <2>1, <2>2, <2>3, <2>4, ReadsKept
  <1> QED
    BY <1>2, <1>3 DEF ReadNothing

\* Where the reader gives space back to: never past the tail.
LEMMA NewHead ==
  ASSUME TbusTyped, Histories, Layout, Contents, Reads, rpc = "end"
  PROVE  /\ Leads(ch, PlaceOf(Found + 1))
         /\ head_offset <= tail_offset => head_offset <= ch /\ ch <= tail_offset
         /\ tail_offset < head_offset => ch <= tail_offset \/ head_offset <= ch
         /\ \A k \in (Found + 1)..Len(posted) :
               /\ ch <= places[k] \/ Lower(k)
               /\ ch <= tail_offset => ch <= places[k] /\ Lower(k)
  <1>0. /\ head_offset \in Nat /\ tail_offset \in Nat /\ tailRead \in Nat /\ ch \in Nat /\ size \in Nat
        /\ Len(posted) \in Nat /\ Freed \in Nat /\ Found \in Nat
        /\ Found \in Freed..Len(posted) /\ Found <= Len(posted)
    BY SizeNat, CountFacts, ReadCounts DEF TbusTyped, Offsets
  <1>1. /\ Leads(Behind(Found), ch)
        /\ ch # Behind(Found) => tailRead < head_offset /\ head_offset <= Behind(Found)
        /\ ~(head_offset <= tailRead) => tailRead <= tail_offset /\ tail_offset < head_offset
    BY DEF Reads
  <1>2. /\ Behind(Found) \in Nat /\ Leads(Behind(Found), PlaceOf(Found + 1))
        /\ Found = Freed => Behind(Found) = head_offset
        /\ Found # Freed => Found \in InFlight /\ Behind(Found) = EndOf(Found)
        /\ Found < Len(posted) => Found + 1 \in InFlight /\ PlaceOf(Found + 1) = places[Found + 1]
        /\ Found = Len(posted) => PlaceOf(Found + 1) = tail_offset
    BY <1>0, BehindFacts
  <1>3. \A k \in (Found + 1)..Len(posted) : k \in InFlight /\ Found < k
    BY <1>0 DEF InFlight
  <1>4. CASE ch # Behind(Found)
    <2>1. /\ ch = 0 /\ Gap(Behind(Found)) /\ head_offset <= Behind(Found)
          /\ tail_offset < head_offset
      BY <1>0, <1>1, <1>4 DEF Leads
    <2>2. PlaceOf(Found + 1) = 0
      <3>1. CASE Found = Len(posted)
        BY <1>0, <1>2, <2>1, <3>1 DEF Leads
      <3>2. CASE Found < Len(posted)
        <4> SUFFICES ASSUME NEW k \in Nat, k = Found + 1, places[k] # 0 PROVE FALSE
          BY <1>0, <1>2, <3>2
        <4>1. k \in InFlight /\ places[k] = Behind(Found)
          BY <1>2, <3>2 DEF Leads
        <4>2. /\ places[k] + HeaderSize < EndOf(k) /\ EndOf(k) <= size /\ EndOf(k) \in Nat
              /\ posted[k][2] \in Nat
          BY <4>1, InFlightFacts, PacketFacts
        <4>3. buff[places[k]] # Ignore
          BY <4>1, <4>2, CellsDiffer DEF Contents
        <4> QED
          BY <1>0, <1>2, <2>1, <4>1, <4>2, <4>3 DEF Gap
      <3> QED
        BY <1>0, <3>1, <3>2
    <2>3. \A k \in (Found + 1)..Len(posted) : Lower(k)
      <3> SUFFICES ASSUME NEW k \in (Found + 1)..Len(posted) PROVE Lower(k)
        OBVIOUS
      <3>1. Found < Len(posted)
        BY <1>0
      <3>2. Found + 1 \in InFlight /\ places[Found + 1] = 0
        BY <1>2, <2>2, <3>1
      <3>3. Lower(Found + 1)
        BY <1>0, <2>1, <3>2, InFlightFacts DEF Upper
      <3>4. k = Found + 1 \/ Found + 1 < k
        BY <1>0
      <3> QED
        BY <1>3, <3>2, <3>3, <3>4, InFlightOrder
    <2>4. \A k \in (Found + 1)..Len(posted) : ch <= places[k]
      BY <1>3, <2>1, InFlightFacts
    <2> QED
      BY <1>0, <2>1, <2>2, <2>3, <2>4 DEF Leads
  <1>5. CASE ch = Behind(Found) /\ Found = Freed
    <2>1. ch = head_offset
      BY <1>2, <1>5
    <2> QED
      BY <1>0, <1>2, <1>3, <1>5, <2>1, InFlightFacts DEF Upper
  <1>6. CASE ch = Behind(Found) /\ Found # Freed
    <2>1. /\ Found \in InFlight /\ ch = EndOf(Found) /\ places[Found] \in Nat
          /\ places[Found] + HeaderSize < ch /\ ch <= size
          /\ Upper(Found) \/ Lower(Found)
          /\ head_offset <= tail_offset => Upper(Found) /\ Lower(Found)
      BY <1>2, <1>6, InFlightFacts
    <2>2. \A k \in (Found + 1)..Len(posted) :
            /\ k \in InFlight /\ places[k] \in Nat
            /\ Lower(Found) => Lower(k)
            /\ ch <= places[k] \/ (tail_offset < head_offset /\ head_offset <= places[Found] /\ Lower(k))
      BY <1>3, <2>1, InFlightOrder, InFlightFacts
    <2>3. Lower(Found) <=> ch <= tail_offset
      BY <2>1 DEF Lower
    <2>4. Upper(Found) => head_offset <= places[Found]
      BY DEF Upper
    <2> QED
      BY <1>0, <1>2, <1>6, <2>1, <2>2, <2>3, <2>4
  <1> QED
    BY <1>4, <1>5, <1>6
\* The packets of the read are given back, and no others.
LEMMA ReadEndStep ==
  ASSUME TbusInv, tbus_read_end
  PROVE  TbusInv'
  <1>1. TbusTyped /\ Histories /\ Layout /\ Contents /\ Grants /\ Reads
    BY DEF TbusInv
  <1>0. /\ rpc = "end" /\ head_offset' = ch /\ tail_offset' = tail_offset /\ buff' = buff
        /\ rpc' = "begin" /\ tailRead' = 0 /\ limit' = 0 /\ ch' = 0 /\ iov' = <<>> /\ loaded' = 0
        /\ posted' = posted /\ places' = places /\ delivered' = delivered
        /\ spc' = spc /\ room' = room /\ length' = length /\ newTail' = newTail
    BY DEF tbus_read_end, NotReading, senderVars
  <1>a. /\ head_offset \in Nat /\ tail_offset \in Nat /\ ch \in Nat /\ size \in Nat
        /\ head_offset <= size /\ ch \in Offsets /\ room \in Nat /\ length \in Nat
        /\ Len(posted) \in Nat /\ Freed \in Nat /\ Freed <= Found /\ Found <= Len(posted)
    BY <1>0, <1>1, SizeNat, CountFacts, ReadCounts DEF TbusTyped, Offsets
  <1> SUFFICES ASSUME NEW f \in Nat, f = Found PROVE TbusInv'
    BY <1>1, CountFacts
  <1>2. Freed' = f
    BY <1>0, <1>1 DEF Freed, Found, TbusTyped
  <1>3. /\ InFlight' = (f + 1)..Len(posted) /\ InFlight' \subseteq InFlight
        /\ \A k : EndOf(k)' = EndOf(k) /\ PlaceOf(k)' = PlaceOf(k)
        /\ \A k : Lower(k)' <=> Lower(k)
        /\ \A o : Gap(o)' <=> Gap(o)
    <2>1. InFlight' = (f + 1)..Len(posted)
      BY <1>0, <1>2 DEF InFlight
    <2>2. InFlight = (Freed + 1)..Len(posted)
      BY DEF InFlight
    <2>3. InFlight' \subseteq InFlight
      BY <1>a, <2>1, <2>2
    <2> QED
      BY <1>0, <2>1, <2>3 DEF EndOf, PlaceOf, Lower, Gap
  <1>4. /\ Leads(ch, PlaceOf(f + 1))
        /\ head_offset <= tail_offset => head_offset <= ch /\ ch <= tail_offset
        /\ tail_offset < head_offset => ch <= tail_offset \/ head_offset <= ch
        /\ \A k \in InFlight' :
              /\ ch <= places[k] \/ Lower(k)
              /\ ch <= tail_offset => ch <= places[k] /\ Lower(k)
    BY <1>0, <1>1, <1>3, NewHead
  <1>5. TbusTyped'
    BY <1>0, <1>1, <1>a, SizeNat DEF TbusTyped, Offsets
  <1>6. Histories'
    BY <1>0, <1>1, <1>2 DEF Histories
  <1>7. Layout'
    <2>1. \A k \in InFlight' : /\ Upper(k)' <=> ch <= places[k]
                               /\ EndOf(k) <= size /\ places[k] \in Nat /\ EndOf(k) \in Nat /\ places[k] < EndOf(k)
      BY <1>0, <1>1, <1>3, InFlightFacts DEF Upper
    <2>2. \A k \in InFlight' :
            IF head_offset' <= tail_offset' THEN Upper(k)' /\ Lower(k)' ELSE Upper(k)' \/ Lower(k)'
      BY <1>0, <1>3, <1>4, <2>1
    <2>3. \A k, l \in InFlight' : k < l =>
            /\ Lower(k) => Lower(l)
            /\ EndOf(k) <= places[l] \/ (tail_offset < ch /\ ch <= places[k] /\ Lower(l))
      <3> SUFFICES ASSUME NEW k \in InFlight', NEW l \in InFlight', k < l
                   PROVE  /\ Lower(k) => Lower(l)
                          /\ EndOf(k) <= places[l] \/ (tail_offset < ch /\ ch <= places[k] /\ Lower(l))
        OBVIOUS
      <3>1. /\ Lower(k) => Lower(l)
            /\ EndOf(k) <= places[l] \/ (tail_offset < head_offset /\ head_offset <= places[k] /\ Lower(l))
        BY <1>1, <1>3, InFlightOrder
      <3>2. tail_offset < head_offset /\ head_offset <= places[k] => ~Lower(k)
        BY <1>a, <2>1 DEF Lower
      <3> QED
        BY <1>a, <1>4, <3>1, <3>2
    <2>4. \A k \in f..Len(posted) : Leads(Behind(k), PlaceOf(k + 1))'
      <3> SUFFICES ASSUME NEW k \in f..Len(posted) PROVE Leads(Behind(k), PlaceOf(k + 1))'
        OBVIOUS
      <3>1. CASE k = f
        <4>1. Behind(k)' = ch
          BY <1>0, <1>2, <3>1 DEF Behind
        <4> QED
          BY <1>3, <1>4, <3>1, <4>1 DEF Leads
      <3>2. CASE k # f
        <4>1. k \in Freed..Len(posted) /\ k # Freed
          BY <1>a, <3>2
        <4>2. Behind(k)' = Behind(k)
          BY <1>2, <1>3, <3>2, <4>1 DEF Behind
        <4>3. Leads(Behind(k), PlaceOf(k + 1))
          BY <1>1, <4>1 DEF Layout
        <4> QED
          BY <1>3, <4>2, <4>3 DEF Leads
      <3> QED
        BY <3>1, <3>2
    <2> QED
      BY <1>0, <1>2, <1>3, <2>2, <2>3, <2>4 DEF Layout
  <1>8. Contents'
    BY <1>0, <1>1, <1>3 DEF Contents
  <1>9. Grants'
    <2>1. spc = "rewind" => Gap(tail_offset)' /\ ch # 0 /\ ch <= tail_offset
      BY <1>0, <1>1, <1>a, <1>3, <1>4 DEF Grants
    <2>2. Sending => /\ tail_offset + HeaderSize + room <= size
                     /\ tail_offset < ch => tail_offset + HeaderSize + room < ch
      <3> SUFFICES ASSUME Sending
                   PROVE  /\ tail_offset + HeaderSize + room <= size
                          /\ tail_offset < ch => tail_offset + HeaderSize + room < ch
        OBVIOUS
      <3>1. /\ tail_offset + HeaderSize + room <= size
            /\ tail_offset < head_offset => tail_offset + HeaderSize + room < head_offset
        BY <1>1 DEF Grants
      <3> QED
        BY <1>a, <1>4, <3>1
    <2>3. spc = "publish" =>
            /\ buff[tail_offset] = Package(length)
            /\ \/ newTail = NextEnd
               \/ newTail = 0 /\ NextEnd = size /\ ch # 0
      <3> SUFFICES ASSUME spc = "publish", newTail # NextEnd PROVE ch # 0
        BY <1>1 DEF Grants
      <3>1. /\ NextEnd = size /\ head_offset # 0 /\ length <= room
            /\ tail_offset < head_offset => tail_offset + HeaderSize + room < head_offset
        BY <1>1 DEF Grants, Sending
      <3>2. head_offset <= tail_offset
        BY <1>a, <3>1 DEF NextEnd
      <3> QED
        BY <1>a, <1>4, <3>1, <3>2
    <2>4. NextEnd' = NextEnd /\ (Sending' <=> Sending)
      BY <1>0 DEF NextEnd, Sending
    <2>5. spc \in {"end", "publish"} =>
            /\ length \in Lengths
            /\ length <= room
            /\ \A i \in (tail_offset + HeaderSize)..(NextEnd - 1) : buff[i] = Data(Len(posted) + 1)
      BY <1>1 DEF Grants
    <2> QED
      BY <1>0, <2>1, <2>2, <2>3, <2>4, <2>5 DEF Grants
  <1>10. Reads'
    BY <1>0 DEF Reads
  <1> QED
    BY <1>5, <1>6, <1>7, <1>8, <1>9, <1>10 DEF TbusInv

-----------------------------------------------------------------------------

\* An empty ring.
LEMMA TbusInitInv == TbusInit => TbusInv
  <1> SUFFICES ASSUME TbusInit PROVE TbusInv
    OBVIOUS
  <1>1. /\ Len(posted) = 0 /\ Len(places) = 0 /\ Len(delivered) = 0 /\ Freed = 0 /\ InFlight = {}
    BY DEF TbusInit, Freed, InFlight
  <1>2. TbusTyped
    <2>1. Junk \in CellValue
      BY DEF CellValue
    <2>2. 0 \in Offsets
      BY SizeNat DEF Offsets
    <2> QED
      BY <2>1, <2>2 DEF TbusInit, TbusTyped
  <1>3. Histories
    BY <1>1, MaxPacketsAssumption DEF TbusInit, Histories
  <1>4. Layout
    <2>1. \A k \in Freed..Len(posted) : Leads(Behind(k), PlaceOf(k + 1))
      BY <1>1 DEF TbusInit, Leads, Behind, PlaceOf
    <2> QED
      BY <1>1, <2>1 DEF Layout
  <1>5. Contents
    BY <1>1 DEF Contents
  <1>6. Grants
    BY DEF TbusInit, Grants, Sending
  <1>7. Reads
    BY DEF TbusInit, Reads
  <1> QED
    BY <1>2, <1>3, <1>4, <1>5, <1>6, <1>7 DEF TbusInv

\* Stuttering.
LEMMA TbusStutterInv == ASSUME TbusInv, UNCHANGED tbusVars PROVE TbusInv'
  <1>1. UNCHANGED <<head_offset, tail_offset, buff, spc, room, length, newTail, rpc, tailRead, limit, ch, iov, loaded,
                    posted, places, delivered>>
    BY DEF tbusVars, senderVars, readerVars
  <1>2. UNCHANGED ringState /\ UNCHANGED <<buff, senderVars>>
    BY <1>1 DEF ringState, readerVars, senderVars
  <1>3. TbusTyped' /\ Histories' /\ Grants'
    BY <1>1 DEF TbusInv, TbusTyped, Histories, Grants, Freed, Sending, NextEnd, Gap
  <1> QED
    BY <1>2, <1>3, WritingIsHarmless DEF TbusInv

\* The invariant is inductive.
LEMMA TbusNextInv == ASSUME TbusInv, [TbusNext]_tbusVars PROVE TbusInv'
  BY SendBeginStep, RewindStep, FillStep, SendEndStep, PublishStep, SendNothingStep,
     ReadBeginStep, PeekStep, PeekReturnsStep, ConsumeStep, ReadNothingStep, ReadEndStep, TbusStutterInv
     DEF TbusNext, Sender, Reader

\* The invariant holds in every reachable state.
LEMMA TbusAlways == TbusSafeSpec => []TbusInv
  BY TbusInitInv, TbusNextInv, PTL DEF TbusSafeSpec

\* The sender is never given room in packets the reader still looks at, nor
\* room beyond the ring.
THEOREM TbusNoOverwrite == TbusSafeSpec => []NoOverwrite
  <1>1. TbusInv => NoOverwrite
    <2> SUFFICES ASSUME TbusInv PROVE NoOverwrite
      OBVIOUS
    <2>1. TbusTyped /\ Histories /\ Layout /\ Contents /\ Grants /\ Reads
      BY DEF TbusInv
    <2>2. head_offset \in Nat /\ tail_offset \in Nat /\ size \in Nat /\ room \in Nat /\ DOMAIN buff = 0..(size - 1)
      BY <2>1, SizeNat DEF TbusTyped, Offsets
    <2>3. Sending => Granted \subseteq DOMAIN buff /\ \A i \in Granted : FreeCell(i)
      BY <2>1, <2>2 DEF Grants, Granted, FreeCell
    <2>4. rpc # "begin" => \A i \in Shown : ~FreeCell(i)
      <3> SUFFICES ASSUME rpc # "begin", NEW i \in Shown PROVE ~FreeCell(i)
        OBVIOUS
      <3>1. PICK j \in DOMAIN iov : i \in (iov[j].base - HeaderSize)..(iov[j].base + iov[j].len - 1)
        BY DEF Shown
      <3>2. j \in 1..Len(iov)
        BY <2>1 DEF TbusTyped
      <3> SUFFICES ASSUME NEW k \in Nat, k = Freed + j PROVE ~FreeCell(i)
        BY <2>1, <3>2, CountFacts
      <3>3. iov[j] = [base |-> places[k] + HeaderSize, len |-> posted[k][2]]
        BY <2>1, <3>2 DEF Reads
      <3>4. k \in InFlight
        BY <2>1, <3>2, CountFacts, ReadCounts DEF InFlight
      <3>5. /\ places[k] \in Nat /\ EndOf(k) \in Nat
            /\ Upper(k) \/ Lower(k)
            /\ head_offset <= tail_offset => Upper(k) /\ Lower(k)
            /\ posted[k][2] \in Nat /\ EndOf(k) = places[k] + HeaderSize + posted[k][2]
        BY <2>1, <3>4, InFlightFacts, PacketFacts
      <3>a. iov[j].base = places[k] + HeaderSize /\ iov[j].len = posted[k][2]
        BY <3>3
      <3>6. i \in Int /\ places[k] <= i /\ i < EndOf(k)
        BY <3>1, <3>a, <3>5
      <3> QED
        BY <2>2, <3>5, <3>6 DEF FreeCell, Upper, Lower
    <2> QED
      BY <2>3, <2>4 DEF NoOverwrite, Sending
  <1> QED
    BY <1>1, TbusAlways, PTL

\* The bus is a channel: every packet arrives once, whole, with its length, and
\* in order.
THEOREM TbusIsAChannel == TbusSafeSpec => ImplementsChannel
  <1>1. TbusInit => Channel!Init
    BY DEF TbusInit, Channel!Init
  <1>2. ASSUME TbusInv, TbusInv', [TbusNext]_tbusVars
        PROVE  [Channel!Next]_<<posted, delivered>>
    <2>1. CASE Publish
      <3>1. posted' = Append(posted, <<Len(posted) + 1, length>>) /\ delivered' = delivered
        BY <2>1 DEF Publish
      <3>2. posted \in Seq((1..MaxPackets) \X Lengths) /\ posted' \in Seq((1..MaxPackets) \X Lengths)
        BY <1>2 DEF TbusInv, TbusTyped
      <3>3. Len(posted') = Len(posted) + 1 /\ Len(posted) \in Nat
        BY <3>1, <3>2
      <3>4. SubSeq(posted', 1, Len(posted)) = posted
        BY <3>1, <3>2
      <3>5. \A n \in (Len(posted) + 1)..Len(posted') : posted'[n] \in (1..MaxPackets) \X Lengths
        BY <3>2, <3>3
      <3>6. Len(posted') > Len(posted)
        BY <3>3
      <3>7. Channel!Send
        BY <3>1, <3>4, <3>5, <3>6, Zenon DEF Channel!Send
      <3> QED
        BY <3>7 DEF Channel!Next
    <2>2. CASE Consume
      <3>1. posted' = posted
        BY <2>2 DEF Consume
      <3>2. /\ Len(delivered') <= Len(posted) /\ \A k \in 1..Len(delivered') : delivered'[k] = posted[k]
            /\ \A k \in 1..Len(delivered) : delivered[k] = posted[k]
        BY <1>2, <3>1 DEF TbusInv, Histories
      <3>3. /\ posted \in Seq((1..MaxPackets) \X Lengths)
            /\ delivered \in Seq((1..MaxPackets) \X Lengths) /\ delivered' \in Seq((1..MaxPackets) \X Lengths)
        BY <1>2 DEF TbusInv, TbusTyped
      <3>4. Len(delivered) <= Len(delivered')
        <4>1. delivered' = delivered \o [k \in DOMAIN iov |-> Seen(iov[k])] /\ iov \in Seq([base : Nat, len : Nat])
          BY <2>2, <1>2 DEF Consume, TbusInv, TbusTyped
        <4> DEFINE views == [k \in DOMAIN iov |-> Seen(iov[k])]
        <4>2. views \in Seq({Seen(iov[k]) : k \in DOMAIN iov})
          <5>1. DOMAIN iov = 1..Len(iov) /\ Len(iov) \in Nat
            BY <4>1
          <5>2. views \in [1..Len(iov) -> {Seen(iov[k]) : k \in DOMAIN iov}]
            BY <5>1
          <5> QED
            BY <5>1, <5>2
        <4> HIDE DEF views
        <4>3. Len(delivered') = Len(delivered) + Len(views) /\ Len(views) \in Nat
          BY <3>3, <4>1, <4>2 DEF views
        <4> QED
          BY <3>3, <4>3
      <3>5. delivered' = SubSeq(posted, 1, Len(delivered'))
        BY <3>2, <3>3, PrefixFacts
      <3>6. CASE Len(delivered') = Len(delivered)
        <4>1. delivered' = delivered
          BY <3>2, <3>3, <3>6, PrefixFacts
        <4> QED
          BY <3>1, <4>1
      <3>7. CASE Len(delivered') # Len(delivered)
        <4>1. Len(delivered') \in (Len(delivered) + 1)..Len(posted)
          BY <3>2, <3>3, <3>4, <3>7
        <4> QED
          BY <3>1, <3>5, <4>1 DEF Channel!Next, Channel!Receive
      <3> QED
        BY <3>6, <3>7
    <2>3. CASE ~Publish /\ ~Consume
      <3>1. UNCHANGED <<posted, delivered>>
        BY <1>2, <2>3 DEF TbusNext, Sender, Reader, tbusVars, tbus_send_begin, Rewind, Fill, tbus_send_end,
           SendNothing, tbus_read_begin, peek, PeekReturns, ReadNothing, tbus_read_end
      <3> QED
        BY <3>1
    <2> QED
      BY <2>1, <2>2, <2>3
  <1>3. TbusInit /\ [][TbusNext]_tbusVars /\ []TbusInv => Channel!Init /\ [][Channel!Next]_<<posted, delivered>>
    BY <1>1, <1>2, PTL
  <1> QED
    BY <1>3, TbusAlways, PTL DEF TbusSafeSpec, ImplementsChannel, Channel!Spec

-----------------------------------------------------------------------------
(* UnityInterop                                                            *)

HIDE HeaderAssumption

Positions == 0..(Capacity - 1)

\* The position k cells behind h.
Pos(h, k) == IF h + k < Capacity THEN h + k ELSE h + k - Capacity

\* The ring's writer has loaded the positions, its reader has loaded the tail,
\* and what the host has read is not yet given back.
Writing(r) == IF r = "input" THEN host["input"] = "write" ELSE frame = "write"
Reading(r) == IF r = "input" THEN frame \in {"copy", "store"} ELSE host["output"] \in {"read", "commit"}
Kept(r) == r = "output" /\ host["output"] = "commit"

WriteTail(r) == IF Writing(r) THEN writer[r].tail ELSE tail[r]
Stream(r) == sent[r] \o writer[r].pending
Returned(r) == Len(received[r]) - (IF Kept(r) THEN DataSize(head[r], seen[r]) ELSE 0)

Outcomes == {"handled", "empty", "fatal"}

InteropTyped ==
    /\ frame \in {"out", "read", "copy", "store", "dispatch", "update", "write"}
    /\ head \in [Rings -> Positions]
    /\ tail \in [Rings -> Positions]
    /\ cells \in [Rings -> [Positions -> AllCells \cup {Blank}]]
    /\ data \in Seq(AllCells)
    /\ offset \in Nat
    /\ host \in [Rings -> {"out", "write", "read", "commit"}]
    /\ writer \in [Rings -> [head : Positions, tail : Positions, pending : Seq(AllCells)]]
    /\ seen \in [Rings -> Positions]
    /\ sent \in [Rings -> Seq(AllCells)]
    /\ received \in [Rings -> Seq(AllCells)]
    /\ messages \in Seq([kind : Kinds, start : Nat])
    /\ committed \in Nat
    /\ unread \in Nat
    /\ outcomes \in Seq(Outcomes)
    /\ log \in Seq([first : Nat, last : Nat, outcomes : Seq(Outcomes)])

\* The n cells behind h are those of the stream that follow its first b.
Holds(ring, h, n, stream, b) == \A k \in 1..n : ring[Pos(h, k - 1)] = stream[b + k]

RingOK(r) ==
    /\ Returned(r) >= 0
    /\ Len(sent[r]) = Returned(r) + DataSize(head[r], tail[r])
    /\ Len(Stream(r)) = Returned(r) + DataSize(head[r], WriteTail(r))
    /\ Holds(cells[r], head[r], DataSize(head[r], WriteTail(r)), Stream(r), Returned(r))
    /\ Writing(r) => DataSize(head[r], writer[r].tail) <= DataSize(writer[r].head, writer[r].tail)
    /\ ~Writing(r) => writer[r].pending = <<>>
    /\ Reading(r) => DataSize(head[r], seen[r]) <= DataSize(head[r], tail[r])
    /\ Len(received[r]) <= Len(sent[r])
    /\ \A k \in 1..Len(received[r]) : received[r][k] = sent[r][k]

\* The batch that ReadAll took: what follows what was received before.
Batch ==
    /\ frame = "store" => /\ Len(data) = DataSize(head["input"], seen["input"])
                          /\ \A k \in 1..Len(data) : data[k] = sent["input"][Len(received["input"]) + k]
    /\ frame = "dispatch" =>
          /\ Len(data) <= Len(received["input"])
          /\ \A k \in 1..Len(data) : data[k] = sent["input"][Len(received["input"]) - Len(data) + k]
    /\ frame \notin {"store", "dispatch"} => data = <<>>
    /\ frame # "dispatch" => offset = 0 /\ outcomes = <<>>

\* Messages lie one behind the other in what the host has written.
FrameSize(k) == 2 + BodySize[messages[k].kind]
StartOf(k) == IF k <= Len(messages) THEN messages[k].start ELSE Len(Stream("input"))

Framing ==
    /\ Len(messages) <= MaxInput
    /\ committed <= Len(messages)
    /\ host["input"] # "write" => committed = Len(messages)
    /\ StartOf(1) = 0
    /\ \A k \in 1..Len(messages) : StartOf(k + 1) = StartOf(k) + FrameSize(k)
    /\ \A k, l \in 1..(Len(messages) + 1) : k < l => StartOf(k) + FrameSize(k) <= StartOf(l)
    /\ \A k \in 1..Len(messages) : \A i \in 1..FrameSize(k) :
          Stream("input")[StartOf(k) + i] = Cell(messages[k].kind, k, i)
    /\ StartOf(committed + 1) = Len(sent["input"])

\* The first message of the batch, and the one the loop is at.
Turn == Logged + Len(outcomes) + 1

Dispatching ==
    /\ Logged <= committed
    /\ frame \in {"copy", "store", "dispatch"} => Logged <= unread /\ unread <= committed
    /\ frame \in {"copy", "store"} =>
          StartOf(unread + 1) = Len(received["input"]) + DataSize(head["input"], seen["input"])
    /\ frame # "dispatch" => StartOf(Logged + 1) = Len(received["input"])
    /\ frame = "dispatch" =>
          /\ StartOf(unread + 1) = Len(received["input"])
          /\ offset <= Len(data)
          /\ Turn <= unread + 1
          /\ StartOf(Turn) = Len(received["input"]) - Len(data) + offset
          /\ \A k \in 1..Len(outcomes) : outcomes[k] = messages[Logged + k].kind

Explained ==
    \A b \in 1..Len(log) :
        LET n == Len(log[b].outcomes)
        IN  /\ log[b].first >= 1
            /\ log[b].last <= committed
            /\ log[b].first + n - 1 <= log[b].last
            /\ \A k \in 1..n : log[b].outcomes[k] = messages[log[b].first + k - 1].kind
            /\ log[b].first + n - 1 < log[b].last => log[b].outcomes[n] \in {"empty", "fatal"}

InteropInv ==
    /\ InteropTyped
    /\ \A r \in Rings : RingOK(r)
    /\ Batch
    /\ Framing
    /\ Dispatching
    /\ Explained

-----------------------------------------------------------------------------
(* Positions in a ring                                                     *)

\* A power of two is at least one.
LEMMA CapacityFacts == Capacity \in Nat /\ Capacity >= 1
  BY CapacityAssumption

\* What & mask_ does to a position at most one round away.
LEMMA ModFacts ==
  ASSUME NEW x \in Int, -Capacity <= x, x < 2 * Capacity
  PROVE  x % Capacity = IF x < 0 THEN x + Capacity ELSE IF x < Capacity THEN x ELSE x - Capacity
  <1> DEFINE q == x \div Capacity
             m == x % Capacity
  <1>0. Capacity \in Nat /\ Capacity >= 1
    BY CapacityFacts
  <1>1. q \in Int /\ m \in 0..(Capacity - 1)
    BY <1>0
  <1>2. x = Capacity * q + m
    BY <1>0
  <1> HIDE DEF q, m
  <1>3. q >= -1 /\ q <= 1
    <2>1. CASE q >= 2
      <3>1. Capacity * q >= Capacity * 2
        BY <1>0, <1>1, <2>1
      <3> QED
        BY <1>0, <1>1, <1>2, <3>1
    <2>2. CASE q <= -2
      <3>1. Capacity * q <= Capacity * (-2)
        BY <1>0, <1>1, <2>2
      <3> QED
        BY <1>0, <1>1, <1>2, <3>1
    <2> QED
      BY <1>1, <2>1, <2>2
  <1>4. q = -1 \/ q = 0 \/ q = 1
    BY <1>1, <1>3
  <1>5. CASE q = -1
    BY <1>0, <1>1, <1>2, <1>5 DEF m
  <1>6. CASE q = 0
    BY <1>0, <1>1, <1>2, <1>6 DEF m
  <1>7. CASE q = 1
    BY <1>0, <1>1, <1>2, <1>7 DEF m
  <1> QED
    BY <1>4, <1>5, <1>6, <1>7

\* The data between two positions and the space left are the capacity less one.
LEMMA DataSizeFacts ==
  ASSUME NEW h \in Positions, NEW t \in Positions
  PROVE  /\ DataSize(h, t) \in Positions
         /\ AvailableSpace(h, t) = Capacity - 1 - DataSize(h, t)
         /\ DataSize(h, h) = 0
         /\ (t - h) % Capacity = DataSize(h, t)
  <1>1. (t - h) % Capacity = DataSize(h, t)
    BY CapacityFacts, ModFacts DEF Positions, DataSize
  <1> QED
    BY <1>1, CapacityFacts DEF Positions, DataSize, AvailableSpace

\* Going round the end of the ring is the remainder.
LEMMA PosFacts ==
  ASSUME NEW h \in Positions, NEW k \in Positions
  PROVE  /\ Pos(h, k) \in Positions
         /\ DataSize(h, Pos(h, k)) = k
         /\ (h + k) % Capacity = Pos(h, k)
  <1>1. (h + k) % Capacity = Pos(h, k)
    BY CapacityFacts, ModFacts DEF Positions, Pos
  <1> QED
    BY <1>1, CapacityFacts DEF Positions, DataSize, Pos

\* The tail moves on.
LEMMA ShiftFacts ==
  ASSUME NEW h \in Positions, NEW t \in Positions, NEW n \in Nat, DataSize(h, t) + n < Capacity
  PROVE  /\ (t + n) % Capacity \in Positions
         /\ DataSize(h, (t + n) % Capacity) = DataSize(h, t) + n
  <1>1. n \in Positions
    BY CapacityFacts DEF Positions, DataSize
  <1>2. (t + n) % Capacity = Pos(t, n) /\ Pos(t, n) \in Positions
    BY <1>1, PosFacts
  <1>3. DataSize(h, Pos(t, n)) = DataSize(h, t) + n
    BY <1>1, CapacityFacts DEF Positions, DataSize, Pos
  <1> QED
    BY <1>2, <1>3

\* The head moves on to a position before the tail.
LEMMA SplitFacts ==
  ASSUME NEW h \in Positions, NEW m \in Positions, NEW t \in Positions, DataSize(h, m) <= DataSize(h, t)
  PROVE  /\ DataSize(m, t) = DataSize(h, t) - DataSize(h, m)
         /\ \A k \in 1..DataSize(m, t) : Pos(m, k - 1) = Pos(h, DataSize(h, m) + k - 1)
  BY CapacityFacts DEF Positions, DataSize, Pos

\* A function on 1..n is a sequence of length n.
LEMMA FunctionIsSeq ==
  ASSUME NEW S, NEW n \in Nat, NEW f \in [1..n -> S]
  PROVE  f \in Seq(S) /\ Len(f) = n
  OBVIOUS

\* Cells behind cells.
LEMMA CellsConcat ==
  ASSUME NEW s \in Seq(AllCells), NEW t \in Seq(AllCells)
  PROVE  /\ s \o t \in Seq(AllCells)
         /\ Len(s \o t) = Len(s) + Len(t)
         /\ \A k \in 1..Len(s) : (s \o t)[k] = s[k]
         /\ \A i \in 1..Len(t) : (s \o t)[Len(s) + i] = t[i]
  OBVIOUS

\* Nothing behind a sequence.
LEMMA ConcatEmpty == \A s \in Seq(AllCells) : s \o <<>> = s
  OBVIOUS

\* Three sequences one behind the other.
LEMMA ConcatAssociative ==
  \A s, t, u \in Seq(AllCells) : (s \o t) \o u = s \o (t \o u)
  OBVIOUS

\* What a copy into the free part of the ring leaves of it, and adds.
LEMMA CopyInFacts ==
  ASSUME NEW h \in Positions, NEW t \in Positions, NEW ring, DOMAIN ring = Positions,
         NEW s \in Seq(AllCells), NEW stream \in Seq(AllCells), NEW b \in Nat,
         DataSize(h, t) + Len(s) < Capacity, Len(stream) = b + DataSize(h, t),
         Holds(ring, h, DataSize(h, t), stream, b)
  PROVE  Holds(CopyIn(ring, t, s), h, DataSize(h, t) + Len(s), stream \o s, b)
  <1> SUFFICES ASSUME NEW k \in 1..(DataSize(h, t) + Len(s))
               PROVE  CopyIn(ring, t, s)[Pos(h, k - 1)] = (stream \o s)[b + k]
    BY DEF Holds
  <1>0. /\ DataSize(h, t) \in Positions /\ DataSize(h, t) \in Nat /\ Capacity \in Nat /\ Len(s) \in Nat
        /\ k - 1 \in Positions /\ k \in Nat
    <2>1. DataSize(h, t) \in Positions
      BY DataSizeFacts
    <2>2. Capacity \in Nat /\ Len(s) \in Nat /\ DataSize(h, t) \in Nat
      BY <2>1, CapacityFacts DEF Positions
    <2> QED
      BY <2>1, <2>2 DEF Positions
  <1>1. Pos(h, k - 1) \in Positions
    BY <1>0, PosFacts
  <1>2. DataSize(t, Pos(h, k - 1)) = IF k <= DataSize(h, t) THEN Capacity + k - 1 - DataSize(h, t)
                                                            ELSE k - 1 - DataSize(h, t)
    BY <1>0, CapacityFacts DEF Positions, DataSize, Pos
  <1>3. CopyIn(ring, t, s)[Pos(h, k - 1)] =
          IF DataSize(t, Pos(h, k - 1)) + 1 \in DOMAIN s THEN s[DataSize(t, Pos(h, k - 1)) + 1]
                                                         ELSE ring[Pos(h, k - 1)]
    <2>1. (Pos(h, k - 1) - t) % Capacity = DataSize(t, Pos(h, k - 1))
      BY <1>1, DataSizeFacts
    <2> QED
      BY <1>1, <2>1 DEF CopyIn, Positions
  <1>4. DOMAIN s = 1..Len(s)
    OBVIOUS
  <1>5. CASE k <= DataSize(h, t)
    <2>1. DataSize(t, Pos(h, k - 1)) + 1 \notin DOMAIN s
      BY <1>0, <1>2, <1>4, <1>5
    <2>2. CopyIn(ring, t, s)[Pos(h, k - 1)] = stream[b + k]
      BY <1>0, <1>3, <1>5, <2>1 DEF Holds
    <2>3. b + k \in 1..Len(stream)
      BY <1>0, <1>5
    <2> QED
      BY <2>2, <2>3, CellsConcat
  <1>6. CASE ~(k <= DataSize(h, t))
    <2> DEFINE i == k - DataSize(h, t)
    <2>1. i \in 1..Len(s) /\ b + k = Len(stream) + i /\ DataSize(t, Pos(h, k - 1)) + 1 = i
      BY <1>0, <1>2, <1>6
    <2> HIDE DEF i
    <2>2. CopyIn(ring, t, s)[Pos(h, k - 1)] = s[i]
      BY <1>3, <1>4, <2>1
    <2>3. (stream \o s)[Len(stream) + i] = s[i]
      BY <2>1, CellsConcat
    <2> QED
      BY <2>1, <2>2, <2>3
  <1> QED
    BY <1>5, <1>6

\* A copy into the ring leaves a ring.
LEMMA CopyInDomain ==
  ASSUME NEW S, NEW T, NEW ring \in [Positions -> S], NEW t, NEW s \in Seq(T), T \subseteq S
  PROVE  CopyIn(ring, t, s) \in [Positions -> S]
  <1> SUFFICES ASSUME NEW i \in Positions, NEW k
               PROVE  (IF k \in DOMAIN s THEN s[k] ELSE ring[i]) \in S
    BY DEF CopyIn, Positions
  <1> QED
    OBVIOUS

\* What a copy out of the ring holds.
LEMMA CopyOutFacts ==
  ASSUME NEW h \in Positions, NEW t \in Positions, NEW ring
  PROVE  /\ DOMAIN CopyOut(ring, h, t) = 1..DataSize(h, t)
         /\ \A k \in 1..DataSize(h, t) : CopyOut(ring, h, t)[k] = ring[Pos(h, k - 1)]
  <1>1. \A k \in 1..DataSize(h, t) : (h + k - 1) % Capacity = Pos(h, k - 1)
    <2> SUFFICES ASSUME NEW k \in 1..DataSize(h, t) PROVE (h + k - 1) % Capacity = Pos(h, k - 1)
      OBVIOUS
    <2>1. k - 1 \in Positions /\ h + k - 1 = h + (k - 1)
      BY DataSizeFacts, CapacityFacts DEF Positions
    <2> QED
      BY <2>1, PosFacts
  <1> QED
    BY <1>1 DEF CopyOut

-----------------------------------------------------------------------------
(* What happens to one of the rings                                        *)

\* The types of what concerns one ring.
LEMMA RingTyped ==
  ASSUME InteropTyped, NEW r \in Rings
  PROVE  /\ head[r] \in Positions /\ tail[r] \in Positions /\ seen[r] \in Positions
         /\ cells[r] \in [Positions -> AllCells \cup {Blank}]
         /\ writer[r] \in [head : Positions, tail : Positions, pending : Seq(AllCells)]
         /\ writer[r].head \in Positions /\ writer[r].tail \in Positions /\ writer[r].pending \in Seq(AllCells)
         /\ sent[r] \in Seq(AllCells) /\ received[r] \in Seq(AllCells)
         /\ WriteTail(r) \in Positions
         /\ Stream(r) \in Seq(AllCells)
         /\ Len(Stream(r)) = Len(sent[r]) + Len(writer[r].pending)
         /\ Len(sent[r]) \in Nat /\ Len(received[r]) \in Nat /\ Len(writer[r].pending) \in Nat
         /\ Returned(r) \in Int
         /\ DataSize(head[r], tail[r]) \in Nat /\ DataSize(head[r], tail[r]) < Capacity
         /\ DataSize(head[r], WriteTail(r)) \in Nat /\ DataSize(head[r], WriteTail(r)) < Capacity
         /\ DataSize(head[r], seen[r]) \in Nat /\ DataSize(head[r], seen[r]) < Capacity
  <1>1. /\ head[r] \in Positions /\ tail[r] \in Positions /\ seen[r] \in Positions
        /\ cells[r] \in [Positions -> AllCells \cup {Blank}]
        /\ writer[r] \in [head : Positions, tail : Positions, pending : Seq(AllCells)]
        /\ sent[r] \in Seq(AllCells) /\ received[r] \in Seq(AllCells)
    BY DEF InteropTyped
  <1>2. writer[r].head \in Positions /\ writer[r].tail \in Positions /\ writer[r].pending \in Seq(AllCells)
    BY <1>1
  <1>3. WriteTail(r) \in Positions
    BY <1>1, <1>2 DEF WriteTail
  <1>4. Stream(r) \in Seq(AllCells) /\ Len(Stream(r)) = Len(sent[r]) + Len(writer[r].pending)
    BY <1>1, <1>2, CellsConcat DEF Stream
  <1>5. Len(sent[r]) \in Nat /\ Len(received[r]) \in Nat /\ Len(writer[r].pending) \in Nat
    BY <1>1, <1>2
  <1>6. \A h, t \in Positions : DataSize(h, t) \in Nat /\ DataSize(h, t) < Capacity
    BY DataSizeFacts, CapacityFacts DEF Positions
  <1>7. Returned(r) \in Int
    <2>1. DataSize(head[r], seen[r]) \in Nat
      BY <1>1, <1>6
    <2> QED
      BY <1>5, <2>1 DEF Returned
  <1> QED
    BY <1>1, <1>2, <1>3, <1>4, <1>5, <1>6, <1>7

\* Nothing happens to the ring.
LEMMA RingUntouched ==
  ASSUME NEW r \in Rings, RingOK(r),
         head'[r] = head[r], tail'[r] = tail[r], cells'[r] = cells[r], writer'[r] = writer[r],
         seen'[r] = seen[r], sent'[r] = sent[r], received'[r] = received[r],
         Writing(r)' <=> Writing(r), Reading(r)' => Reading(r), Kept(r)' <=> Kept(r)
  PROVE  RingOK(r)'
  <1>1. /\ Returned(r)' = Returned(r) /\ Stream(r)' = Stream(r) /\ WriteTail(r)' = WriteTail(r)
    BY DEF Returned, Stream, WriteTail
  <1> QED
    BY <1>1 DEF RingOK

\* PrepareWrite: the writer knows both positions.
LEMMA RingPrepared ==
  ASSUME NEW r \in Rings, InteropTyped, RingOK(r), ~Writing(r), Writing(r)',
         writer'[r].head = head[r], writer'[r].tail = tail[r], writer'[r].pending = writer[r].pending,
         head'[r] = head[r], tail'[r] = tail[r], cells'[r] = cells[r],
         seen'[r] = seen[r], sent'[r] = sent[r], received'[r] = received[r],
         Reading(r)' => Reading(r), Kept(r)' <=> Kept(r)
  PROVE  RingOK(r)'
  <1>2. /\ Returned(r)' = Returned(r) /\ Stream(r)' = Stream(r) /\ WriteTail(r)' = WriteTail(r)
    BY DEF Returned, Stream, WriteTail
  <1>3. DataSize(head[r], tail[r]) <= DataSize(head[r], tail[r])
    <2>1. DataSize(head[r], tail[r]) \in Nat
      BY RingTyped
    <2> QED
      BY <2>1
  <1> QED
    BY <1>2, <1>3 DEF RingOK

\* DoWrite: what is written lies behind everything that was not given back.
LEMMA RingWritten ==
  ASSUME NEW r \in Rings, InteropTyped, RingOK(r), Writing(r), Writing(r)',
         NEW s \in Seq(AllCells), Len(s) <= AvailableSpace(writer[r].head, writer[r].tail),
         cells'[r] = CopyIn(cells[r], writer[r].tail, s),
         writer'[r].head = writer[r].head, writer'[r].tail = (writer[r].tail + Len(s)) % Capacity,
         writer'[r].pending = writer[r].pending \o s,
         head'[r] = head[r], tail'[r] = tail[r],
         seen'[r] = seen[r], sent'[r] = sent[r], received'[r] = received[r],
         Reading(r)' => Reading(r), Kept(r)' <=> Kept(r)
  PROVE  RingOK(r)' /\ Stream(r)' = Stream(r) \o s /\ (writer'[r].tail) \in Positions
  <1>0. /\ head[r] \in Positions /\ writer[r].tail \in Positions /\ writer[r].head \in Positions
        /\ cells[r] \in [Positions -> AllCells \cup {Blank}]
        /\ sent[r] \in Seq(AllCells) /\ writer[r].pending \in Seq(AllCells)
        /\ Stream(r) \in Seq(AllCells) /\ Len(s) \in Nat /\ Capacity \in Nat
        /\ WriteTail(r) = writer[r].tail
        /\ DOMAIN cells[r] = Positions
    <2>1. /\ head[r] \in Positions /\ writer[r].tail \in Positions /\ writer[r].head \in Positions
          /\ cells[r] \in [Positions -> AllCells \cup {Blank}]
          /\ sent[r] \in Seq(AllCells) /\ writer[r].pending \in Seq(AllCells)
          /\ Stream(r) \in Seq(AllCells)
      BY RingTyped
    <2>2. Len(s) \in Nat /\ Capacity \in Nat
      BY CapacityFacts
    <2>3. WriteTail(r) = writer[r].tail
      BY DEF WriteTail
    <2> QED
      BY <2>1, <2>2, <2>3
  <1>2. /\ DataSize(head[r], writer[r].tail) \in Nat /\ DataSize(writer[r].head, writer[r].tail) \in Nat
        /\ DataSize(writer[r].head, writer[r].tail) + Len(s) < Capacity
        /\ DataSize(head[r], writer[r].tail) <= DataSize(writer[r].head, writer[r].tail)
        /\ DataSize(head[r], writer[r].tail) + Len(s) < Capacity
    <2>1. /\ DataSize(head[r], writer[r].tail) \in Positions /\ DataSize(writer[r].head, writer[r].tail) \in Positions
          /\ AvailableSpace(writer[r].head, writer[r].tail) = Capacity - 1 - DataSize(writer[r].head, writer[r].tail)
      BY <1>0, DataSizeFacts
    <2>2. DataSize(head[r], writer[r].tail) <= DataSize(writer[r].head, writer[r].tail)
      BY DEF RingOK
    <2> QED
      BY <1>0, <2>1, <2>2 DEF Positions
  <1>3. /\ writer'[r].tail \in Positions
        /\ DataSize(head[r], writer'[r].tail) = DataSize(head[r], writer[r].tail) + Len(s)
        /\ DataSize(writer[r].head, writer'[r].tail) = DataSize(writer[r].head, writer[r].tail) + Len(s)
    BY <1>0, <1>2, ShiftFacts
  <1>a. Returned(r) \in Nat
    <2>1. Returned(r) \in Int
      BY RingTyped
    <2> QED
      BY <2>1 DEF RingOK
  <1>4. Returned(r)' = Returned(r) /\ WriteTail(r)' = writer'[r].tail
    BY DEF Returned, WriteTail
  <1>5. Stream(r)' = Stream(r) \o s
    <2>1. (sent[r] \o writer[r].pending) \o s = sent[r] \o (writer[r].pending \o s)
      <3>1. sent[r] \in Seq(AllCells) /\ writer[r].pending \in Seq(AllCells) /\ s \in Seq(AllCells)
        BY <1>0
      <3> QED
        BY <3>1, ConcatAssociative, Zenon
    <2> QED
      BY <2>1 DEF Stream
  <1>6. Len(Stream(r)') = Returned(r) + DataSize(head[r], writer'[r].tail)
    <2>1. Len(Stream(r) \o s) = Len(Stream(r)) + Len(s)
      BY <1>0, CellsConcat
    <2>2. Len(Stream(r)) = Returned(r) + DataSize(head[r], writer[r].tail)
      BY <1>0 DEF RingOK
    <2> QED
      BY <1>0, <1>2, <1>3, <1>5, <1>a, <2>1, <2>2
  <1>7. Holds(cells'[r], head[r], DataSize(head[r], writer'[r].tail), Stream(r)', Returned(r))
    <2>1. /\ Holds(cells[r], head[r], DataSize(head[r], writer[r].tail), Stream(r), Returned(r))
          /\ Len(Stream(r)) = Returned(r) + DataSize(head[r], writer[r].tail)
      BY <1>0 DEF RingOK
    <2>2. Holds(CopyIn(cells[r], writer[r].tail, s), head[r], DataSize(head[r], writer[r].tail) + Len(s),
                Stream(r) \o s, Returned(r))
      BY <1>0, <1>2, <1>a, <2>1, CopyInFacts
    <2> QED
      BY <1>3, <1>5, <2>2
  <1>8. DataSize(head[r], writer'[r].tail) <= DataSize(writer[r].head, writer'[r].tail)
    BY <1>0, <1>2, <1>3
  <1>9. RingOK(r)'
    BY <1>4, <1>6, <1>7, <1>8 DEF RingOK
  <1> QED
    BY <1>3, <1>5, <1>9

\* CommitWrite: what was written is visible at once.
LEMMA RingCommitted ==
  ASSUME NEW r \in Rings, InteropTyped, RingOK(r), Writing(r), ~Writing(r)',
         tail'[r] = writer[r].tail, sent'[r] = sent[r] \o writer[r].pending, writer'[r] = NotWriting,
         head'[r] = head[r], cells'[r] = cells[r], seen'[r] = seen[r], received'[r] = received[r],
         Reading(r)' => Reading(r), Kept(r)' <=> Kept(r)
  PROVE  RingOK(r)' /\ Stream(r)' = Stream(r) /\ sent'[r] = Stream(r)
  <1>0. /\ head[r] \in Positions /\ writer[r].tail \in Positions
        /\ sent[r] \in Seq(AllCells) /\ writer[r].pending \in Seq(AllCells)
        /\ Stream(r) \in Seq(AllCells) /\ Returned(r) \in Int /\ Len(sent[r]) \in Nat
        /\ Len(Stream(r)) = Len(sent[r]) + Len(writer[r].pending) /\ Len(writer[r].pending) \in Nat
        /\ DataSize(head[r], tail[r]) \in Nat /\ DataSize(head[r], seen[r]) \in Nat
        /\ Len(received[r]) \in Nat
        /\ WriteTail(r) = writer[r].tail
    BY RingTyped DEF WriteTail
  <1>1. writer'[r].pending = <<>>
    BY DEF NotWriting
  <1>2. sent'[r] = Stream(r) /\ Stream(r)' = Stream(r)
    BY <1>0, <1>1, ConcatEmpty DEF Stream
  <1>3. Returned(r)' = Returned(r) /\ WriteTail(r)' = writer[r].tail
    BY DEF Returned, WriteTail
  <1>4. /\ Returned(r) >= 0
        /\ Len(sent[r]) = Returned(r) + DataSize(head[r], tail[r])
        /\ Len(Stream(r)) = Returned(r) + DataSize(head[r], writer[r].tail)
        /\ Holds(cells[r], head[r], DataSize(head[r], writer[r].tail), Stream(r), Returned(r))
        /\ Reading(r) => DataSize(head[r], seen[r]) <= DataSize(head[r], tail[r])
        /\ Len(received[r]) <= Len(sent[r])
        /\ \A k \in 1..Len(received[r]) : received[r][k] = sent[r][k]
    BY <1>0 DEF RingOK
  <1>a. DataSize(head[r], writer[r].tail) \in Nat
    BY <1>0, RingTyped
  <1>5. /\ DataSize(head[r], tail[r]) <= DataSize(head[r], writer[r].tail)
        /\ Len(received[r]) <= Len(Stream(r))
        /\ Reading(r)' => DataSize(head[r], seen[r]) <= DataSize(head[r], writer[r].tail)
    <2>1. DataSize(head[r], tail[r]) <= DataSize(head[r], writer[r].tail) /\ Len(received[r]) <= Len(Stream(r))
      <3>1. /\ Len(sent[r]) = Returned(r) + DataSize(head[r], tail[r])
            /\ Len(sent[r]) + Len(writer[r].pending) = Returned(r) + DataSize(head[r], writer[r].tail)
            /\ Len(received[r]) <= Len(sent[r])
        BY <1>0, <1>4
      <3>2. PICK a, b, c, e, f \in Int, d \in Nat :
               /\ a = Len(sent[r]) /\ b = Returned(r) /\ c = DataSize(head[r], tail[r])
               /\ d = Len(writer[r].pending) /\ e = DataSize(head[r], writer[r].tail) /\ f = Len(received[r])
        <4>1. /\ Len(sent[r]) \in Int /\ DataSize(head[r], tail[r]) \in Int
              /\ DataSize(head[r], writer[r].tail) \in Int /\ Len(received[r]) \in Int
          BY <1>0, <1>a
        <4> QED
          BY <1>0, <4>1, Zenon
      <3>3. a = b + c /\ a + d = b + e /\ f <= a
        BY <3>1, <3>2, Zenon
      <3>4. c <= e /\ f <= a + d
        BY <3>2, <3>3
      <3>5. Len(Stream(r)) = a + d
        BY <1>0, <3>2, Zenon
      <3> QED
        BY <3>2, <3>4, <3>5, Zenon
    <2>2. ASSUME Reading(r)' PROVE DataSize(head[r], seen[r]) <= DataSize(head[r], writer[r].tail)
      <3>1. DataSize(head[r], seen[r]) <= DataSize(head[r], tail[r])
        BY <1>4, <2>2
      <3> QED
        BY <1>0, <1>a, <2>1, <3>1
    <2> QED
      BY <2>1, <2>2
  <1>6. \A k \in 1..Len(received[r]) : received[r][k] = Stream(r)[k]
    <2>1. \A k \in 1..Len(sent[r]) : Stream(r)[k] = sent[r][k]
      BY <1>0, CellsConcat DEF Stream
    <2>2. 1..Len(received[r]) \subseteq 1..Len(sent[r])
      BY <1>0, <1>4
    <2> QED
      BY <1>4, <2>1, <2>2
  <1>7. RingOK(r)'
    BY <1>1, <1>2, <1>3, <1>4, <1>5, <1>6 DEF RingOK
  <1> QED
    BY <1>2, <1>7

\* What has been committed and not given back is in the ring.
LEMMA HoldsSent ==
  ASSUME NEW r \in Rings, InteropTyped, RingOK(r)
  PROVE  Holds(cells[r], head[r], DataSize(head[r], tail[r]), sent[r], Returned(r))
  <1>0. /\ sent[r] \in Seq(AllCells) /\ writer[r].pending \in Seq(AllCells)
        /\ Len(Stream(r)) = Len(sent[r]) + Len(writer[r].pending) /\ Len(writer[r].pending) \in Nat
        /\ Len(sent[r]) \in Nat /\ Returned(r) \in Int
        /\ DataSize(head[r], tail[r]) \in Nat /\ DataSize(head[r], WriteTail(r)) \in Nat
    BY RingTyped
  <1> SUFFICES ASSUME NEW k \in 1..DataSize(head[r], tail[r])
               PROVE  cells[r][Pos(head[r], k - 1)] = sent[r][Returned(r) + k]
    BY DEF Holds
  <1>1. /\ Returned(r) >= 0 /\ Len(sent[r]) = Returned(r) + DataSize(head[r], tail[r])
        /\ Len(Stream(r)) = Returned(r) + DataSize(head[r], WriteTail(r))
    BY DEF RingOK
  <1>a. DataSize(head[r], tail[r]) <= DataSize(head[r], WriteTail(r))
    BY <1>0, <1>1
  <1>2. k \in 1..DataSize(head[r], WriteTail(r)) /\ Returned(r) + k \in 1..Len(sent[r])
    BY <1>0, <1>1, <1>a
  <1>3. cells[r][Pos(head[r], k - 1)] = Stream(r)[Returned(r) + k]
    BY <1>2 DEF RingOK, Holds
  <1>4. Stream(r)[Returned(r) + k] = sent[r][Returned(r) + k]
    BY <1>0, <1>2, CellsConcat DEF Stream
  <1> QED
    BY <1>3, <1>4

\* Without a commit what was written is forgotten.
LEMMA RingAbandoned ==
  ASSUME NEW r \in Rings, InteropTyped, RingOK(r), ~Writing(r)', writer'[r] = NotWriting,
         head'[r] = head[r], tail'[r] = tail[r], cells'[r] = cells[r],
         seen'[r] = seen[r], sent'[r] = sent[r], received'[r] = received[r],
         Reading(r)' => Reading(r), Kept(r)' <=> Kept(r)
  PROVE  RingOK(r)'
  <1>0. /\ sent[r] \in Seq(AllCells) /\ writer[r].pending \in Seq(AllCells)
        /\ Len(Stream(r)) = Len(sent[r]) + Len(writer[r].pending) /\ Len(writer[r].pending) \in Nat
        /\ Len(sent[r]) \in Nat /\ Returned(r) \in Int
        /\ DataSize(head[r], tail[r]) \in Nat /\ DataSize(head[r], WriteTail(r)) \in Nat
    BY RingTyped
  <1>1. writer'[r].pending = <<>>
    BY DEF NotWriting
  <1>2. Stream(r)' = sent[r]
    BY <1>0, <1>1, ConcatEmpty DEF Stream
  <1>3. Returned(r)' = Returned(r) /\ WriteTail(r)' = tail[r]
    BY DEF Returned, WriteTail
  <1>4. Holds(cells[r], head[r], DataSize(head[r], tail[r]), sent[r], Returned(r))
    BY HoldsSent
  <1> QED
    BY <1>1, <1>2, <1>3, <1>4 DEF RingOK

\* A reader loads the tail.
LEMMA RingLoaded ==
  ASSUME NEW r \in Rings, InteropTyped, RingOK(r), seen'[r] = tail[r], ~Kept(r), ~Kept(r)',
         head'[r] = head[r], tail'[r] = tail[r], cells'[r] = cells[r], writer'[r] = writer[r],
         sent'[r] = sent[r], received'[r] = received[r],
         Writing(r)' <=> Writing(r)
  PROVE  RingOK(r)'
  <1>1. Returned(r)' = Returned(r) /\ Stream(r)' = Stream(r) /\ WriteTail(r)' = WriteTail(r)
    BY DEF Returned, Stream, WriteTail
  <1>2. DataSize(head[r], tail[r]) <= DataSize(head[r], tail[r])
    <2>1. DataSize(head[r], tail[r]) \in Nat
      BY RingTyped
    <2> QED
      BY <2>1
  <1> QED
    BY <1>1, <1>2 DEF RingOK

\* What a reader copies is what was sent next, wherever the ring ends.
LEMMA CopyOutIsSent ==
  ASSUME NEW r \in Rings, InteropTyped, RingOK(r), Reading(r), ~Kept(r),
         NEW c, c = CopyOut(cells[r], head[r], seen[r])
  PROVE  /\ c \in Seq(AllCells)
         /\ Len(c) = DataSize(head[r], seen[r])
         /\ Len(received[r]) + Len(c) <= Len(sent[r])
         /\ \A k \in 1..Len(c) : c[k] = sent[r][Len(received[r]) + k]
  <1>0. /\ head[r] \in Positions /\ seen[r] \in Positions /\ sent[r] \in Seq(AllCells)
        /\ Len(sent[r]) \in Nat /\ Len(received[r]) \in Nat
        /\ DataSize(head[r], tail[r]) \in Nat /\ DataSize(head[r], seen[r]) \in Nat
    BY RingTyped
  <1>1. Returned(r) = Len(received[r])
    BY <1>0 DEF Returned
  <1>2. /\ Len(sent[r]) = Len(received[r]) + DataSize(head[r], tail[r])
        /\ DataSize(head[r], seen[r]) <= DataSize(head[r], tail[r])
    BY <1>1 DEF RingOK
  <1>3. DOMAIN c = 1..DataSize(head[r], seen[r])
    BY <1>0, CopyOutFacts
  <1>4. \A k \in 1..DataSize(head[r], seen[r]) :
          c[k] = sent[r][Len(received[r]) + k] /\ sent[r][Len(received[r]) + k] \in AllCells
    <2> SUFFICES ASSUME NEW k \in 1..DataSize(head[r], seen[r])
                 PROVE  c[k] = sent[r][Len(received[r]) + k] /\ sent[r][Len(received[r]) + k] \in AllCells
      OBVIOUS
    <2>1. c[k] = cells[r][Pos(head[r], k - 1)]
      BY <1>0, CopyOutFacts
    <2>2. k \in 1..DataSize(head[r], tail[r]) /\ Len(received[r]) + k \in 1..Len(sent[r])
      BY <1>0, <1>2
    <2>3. cells[r][Pos(head[r], k - 1)] = sent[r][Len(received[r]) + k]
      BY <1>1, <2>2, HoldsSent DEF Holds
    <2> QED
      BY <1>0, <2>1, <2>2, <2>3
  <1>5. c \in [1..DataSize(head[r], seen[r]) -> AllCells]
    <2>1. c = [k \in DOMAIN c |-> c[k]]
      BY DEF CopyOut
    <2> QED
      BY <1>3, <1>4, <2>1
  <1>6. c \in Seq(AllCells) /\ Len(c) = DataSize(head[r], seen[r])
    BY <1>0, <1>5
  <1>7. Len(received[r]) + DataSize(head[r], seen[r]) <= Len(sent[r])
    BY <1>0, <1>2
  <1> QED
    BY <1>4, <1>6, <1>7, Zenon

\* What was received stays the beginning of what was sent.
LEMMA ReceivedFacts ==
  ASSUME NEW r \in Rings, InteropTyped, RingOK(r), NEW c \in Seq(AllCells),
         Len(received[r]) + Len(c) <= Len(sent[r]),
         \A k \in 1..Len(c) : c[k] = sent[r][Len(received[r]) + k],
         received'[r] = received[r] \o c
  PROVE  /\ received'[r] \in Seq(AllCells)
         /\ Len(received'[r]) = Len(received[r]) + Len(c)
         /\ Len(received'[r]) <= Len(sent[r])
         /\ \A k \in 1..Len(received'[r]) : received'[r][k] = sent[r][k]
  <1> SUFFICES ASSUME NEW all, all = received'[r]
               PROVE  /\ all \in Seq(AllCells)
                      /\ Len(all) = Len(received[r]) + Len(c)
                      /\ Len(all) <= Len(sent[r])
                      /\ \A k \in 1..Len(all) : all[k] = sent[r][k]
    OBVIOUS
  <1>0. received[r] \in Seq(AllCells) /\ Len(received[r]) \in Nat /\ Len(c) \in Nat
    <2>1. received[r] \in Seq(AllCells)
      BY RingTyped
    <2> QED
      BY <2>1
  <1>1. /\ all \in Seq(AllCells)
        /\ Len(all) = Len(received[r]) + Len(c)
        /\ \A k \in 1..Len(received[r]) : all[k] = received[r][k]
        /\ \A i \in 1..Len(c) : all[Len(received[r]) + i] = c[i]
    BY <1>0, CellsConcat
  <1>2. \A k \in 1..Len(received[r]) : all[k] = sent[r][k]
    BY <1>1 DEF RingOK
  <1>3. \A k \in 1..Len(all) : k \in 1..Len(received[r])
                               \/ (k - Len(received[r]) \in 1..Len(c) /\ k = Len(received[r]) + (k - Len(received[r])))
    BY <1>0, <1>1
  <1>4. \A k \in 1..Len(all) : all[k] = sent[r][k]
    <2> SUFFICES ASSUME NEW k \in 1..Len(all), k \notin 1..Len(received[r]) PROVE all[k] = sent[r][k]
      BY <1>2
    <2> SUFFICES ASSUME NEW i \in 1..Len(c), k = Len(received[r]) + i PROVE all[k] = sent[r][k]
      BY <1>3
    <2> QED
      BY <1>1
  <1> QED
    BY <1>1, <1>4

\* The host has read, and gives the space back later.
LEMMA RingTaken ==
  ASSUME NEW r \in Rings, InteropTyped, RingOK(r), Reading(r), ~Kept(r), Kept(r)',
         received'[r] = received[r] \o CopyOut(cells[r], head[r], seen[r]),
         head'[r] = head[r], tail'[r] = tail[r], cells'[r] = cells[r], writer'[r] = writer[r],
         seen'[r] = seen[r], sent'[r] = sent[r],
         Writing(r)' <=> Writing(r)
  PROVE  RingOK(r)' /\ received'[r] \in Seq(AllCells)
  <1> SUFFICES ASSUME NEW c, c = CopyOut(cells[r], head[r], seen[r])
               PROVE  RingOK(r)' /\ received'[r] \in Seq(AllCells)
    OBVIOUS
  <1>1. /\ c \in Seq(AllCells)
        /\ Len(c) = DataSize(head[r], seen[r])
        /\ Len(received[r]) + Len(c) <= Len(sent[r])
        /\ \A k \in 1..Len(c) : c[k] = sent[r][Len(received[r]) + k]
    BY CopyOutIsSent
  <1>2. /\ received'[r] \in Seq(AllCells)
        /\ Len(received'[r]) = Len(received[r]) + Len(c)
        /\ Len(received'[r]) <= Len(sent[r])
        /\ \A k \in 1..Len(received'[r]) : received'[r][k] = sent[r][k]
    BY <1>1, ReceivedFacts
  <1>3. Len(received[r]) \in Nat /\ DataSize(head[r], seen[r]) \in Nat
    BY RingTyped
  <1>4. Returned(r)' = Returned(r)
    <2>1. Returned(r)' = Len(received'[r]) - DataSize(head[r], seen[r])
      BY DEF Returned
    <2>2. Returned(r) = Len(received[r])
      BY <1>3 DEF Returned
    <2> QED
      BY <1>1, <1>2, <1>3, <2>1, <2>2
  <1>5. Stream(r)' = Stream(r) /\ WriteTail(r)' = WriteTail(r)
    BY DEF Stream, WriteTail
  <1> QED
    BY <1>2, <1>4, <1>5 DEF RingOK

\* The head moves on to the tail that was loaded.
LEMMA RingGivenBack ==
  ASSUME NEW r \in Rings, InteropTyped, RingOK(r), Reading(r), ~Reading(r)',
         head'[r] = seen[r], Returned(r)' = Returned(r) + DataSize(head[r], seen[r]),
         Len(received'[r]) <= Len(sent[r]),
         \A k \in 1..Len(received'[r]) : received'[r][k] = sent[r][k],
         tail'[r] = tail[r], cells'[r] = cells[r], writer'[r] = writer[r], sent'[r] = sent[r],
         Writing(r)' <=> Writing(r)
  PROVE  RingOK(r)'
  <1>0. /\ head[r] \in Positions /\ seen[r] \in Positions /\ tail[r] \in Positions /\ WriteTail(r) \in Positions
        /\ Len(sent[r]) \in Nat /\ Returned(r) \in Int
        /\ Len(Stream(r)) = Len(sent[r]) + Len(writer[r].pending) /\ Len(writer[r].pending) \in Nat
        /\ DataSize(head[r], tail[r]) \in Nat /\ DataSize(head[r], seen[r]) \in Nat
        /\ DataSize(head[r], WriteTail(r)) \in Nat
    BY RingTyped, Zenon
  <1>1. /\ Returned(r) >= 0
        /\ Len(sent[r]) = Returned(r) + DataSize(head[r], tail[r])
        /\ Len(Stream(r)) = Returned(r) + DataSize(head[r], WriteTail(r))
        /\ DataSize(head[r], seen[r]) <= DataSize(head[r], tail[r])
    BY DEF RingOK
  <1>2. DataSize(head[r], tail[r]) <= DataSize(head[r], WriteTail(r))
    BY <1>0, <1>1
  <1>3. DataSize(head[r], seen[r]) <= DataSize(head[r], WriteTail(r))
    BY <1>0, <1>1, <1>2
  <1>4. /\ DataSize(seen[r], tail[r]) = DataSize(head[r], tail[r]) - DataSize(head[r], seen[r])
        /\ DataSize(seen[r], WriteTail(r)) = DataSize(head[r], WriteTail(r)) - DataSize(head[r], seen[r])
        /\ \A k \in 1..DataSize(seen[r], WriteTail(r)) :
              Pos(seen[r], k - 1) = Pos(head[r], DataSize(head[r], seen[r]) + k - 1)
    BY <1>0, <1>1, <1>3, SplitFacts
  <1>5. Stream(r)' = Stream(r) /\ WriteTail(r)' = WriteTail(r)
    BY DEF Stream, WriteTail
  <1>6. Holds(cells[r], seen[r], DataSize(seen[r], WriteTail(r)), Stream(r), Returned(r) + DataSize(head[r], seen[r]))
    <2> SUFFICES ASSUME NEW k \in 1..DataSize(seen[r], WriteTail(r))
                 PROVE  cells[r][Pos(seen[r], k - 1)] = Stream(r)[Returned(r) + DataSize(head[r], seen[r]) + k]
      BY DEF Holds
    <2> DEFINE j == DataSize(head[r], seen[r]) + k
    <2>1. /\ j \in 1..DataSize(head[r], WriteTail(r))
          /\ j - 1 = DataSize(head[r], seen[r]) + k - 1
          /\ Returned(r) + DataSize(head[r], seen[r]) + k = Returned(r) + j
      BY <1>0, <1>4
    <2>2. cells[r][Pos(head[r], j - 1)] = Stream(r)[Returned(r) + j]
      BY <2>1 DEF RingOK, Holds
    <2> QED
      BY <1>4, <2>1, <2>2
  <1>7. Writing(r) => DataSize(seen[r], writer[r].tail) <= DataSize(writer[r].head, writer[r].tail)
    <2> SUFFICES ASSUME Writing(r) PROVE DataSize(seen[r], writer[r].tail) <= DataSize(writer[r].head, writer[r].tail)
      OBVIOUS
    <2>1. WriteTail(r) = writer[r].tail
      BY DEF WriteTail
    <2>2. DataSize(head[r], writer[r].tail) <= DataSize(writer[r].head, writer[r].tail)
      BY DEF RingOK
    <2>3. DataSize(writer[r].head, writer[r].tail) \in Nat
      <3>1. writer[r].head \in Positions /\ writer[r].tail \in Positions
        BY RingTyped
      <3>2. DataSize(writer[r].head, writer[r].tail) \in Positions
        BY <3>1, DataSizeFacts
      <3> QED
        BY <3>2, CapacityFacts DEF Positions
    <2> QED
      BY <1>0, <1>4, <2>1, <2>2, <2>3
  <1>8. Returned(r)' >= 0
    BY <1>0, <1>1
  <1>9. /\ Len(sent[r]) = Returned(r)' + DataSize(seen[r], tail[r])
        /\ Len(Stream(r)) = Returned(r)' + DataSize(seen[r], WriteTail(r))
    BY <1>0, <1>1, <1>4
  <1>10. ~Writing(r) => writer[r].pending = <<>>
    BY DEF RingOK
  <1>11. /\ head'[r] = seen[r] /\ tail'[r] = tail[r] /\ cells'[r] = cells[r] /\ writer'[r] = writer[r]
         /\ sent'[r] = sent[r]
    OBVIOUS
  <1> QED
    BY <1>5, <1>6, <1>7, <1>8, <1>9, <1>10, <1>11 DEF RingOK

\* Write: positions, data and tail in one.
LEMMA RingWrittenThrough ==
  ASSUME NEW r \in Rings, InteropTyped, RingOK(r), ~Writing(r), ~Writing(r)',
         NEW s \in Seq(AllCells), Len(s) <= AvailableSpace(head[r], tail[r]),
         cells'[r] = CopyIn(cells[r], tail[r], s), tail'[r] = (tail[r] + Len(s)) % Capacity,
         sent'[r] = sent[r] \o s,
         head'[r] = head[r], writer'[r] = writer[r], seen'[r] = seen[r], received'[r] = received[r],
         Reading(r)' => Reading(r), Kept(r)' <=> Kept(r)
  PROVE  RingOK(r)' /\ tail'[r] \in Positions /\ sent'[r] \in Seq(AllCells)
  <1>0. /\ head[r] \in Positions /\ tail[r] \in Positions /\ seen[r] \in Positions
        /\ DOMAIN cells[r] = Positions
        /\ sent[r] \in Seq(AllCells) /\ Len(s) \in Nat /\ Capacity \in Nat
        /\ Len(sent[r]) \in Nat /\ Returned(r) \in Int /\ Len(received[r]) \in Nat
        /\ DataSize(head[r], tail[r]) \in Nat /\ DataSize(head[r], seen[r]) \in Nat
    <2>1. /\ head[r] \in Positions /\ tail[r] \in Positions /\ seen[r] \in Positions
          /\ cells[r] \in [Positions -> AllCells \cup {Blank}] /\ sent[r] \in Seq(AllCells)
          /\ Len(sent[r]) \in Nat /\ Returned(r) \in Int /\ Len(received[r]) \in Nat
          /\ DataSize(head[r], tail[r]) \in Nat /\ DataSize(head[r], seen[r]) \in Nat
      BY RingTyped, Zenon
    <2>2. Len(s) \in Nat /\ Capacity \in Nat
      BY CapacityFacts
    <2>3. DOMAIN cells[r] = Positions
      BY <2>1
    <2> QED
      BY <2>1, <2>2, <2>3, Zenon
  <1>1. /\ Returned(r) >= 0 /\ writer[r].pending = <<>>
        /\ Len(sent[r]) = Returned(r) + DataSize(head[r], tail[r])
        /\ Len(received[r]) <= Len(sent[r])
        /\ \A k \in 1..Len(received[r]) : received[r][k] = sent[r][k]
    BY DEF RingOK
  <1>2. DataSize(head[r], tail[r]) + Len(s) < Capacity
    <2>1. AvailableSpace(head[r], tail[r]) = Capacity - 1 - DataSize(head[r], tail[r])
      BY <1>0, DataSizeFacts
    <2> QED
      BY <1>0, <2>1
  <1>3. /\ tail'[r] \in Positions
        /\ DataSize(head[r], tail'[r]) = DataSize(head[r], tail[r]) + Len(s)
    BY <1>0, <1>2, ShiftFacts
  <1>4. /\ sent'[r] \in Seq(AllCells) /\ Len(sent'[r]) = Len(sent[r]) + Len(s)
        /\ \A k \in 1..Len(sent[r]) : sent'[r][k] = sent[r][k]
    BY <1>0, CellsConcat
  <1>5. Stream(r)' = sent'[r] /\ WriteTail(r)' = tail'[r] /\ Returned(r)' = Returned(r)
    <2>1. sent'[r] \o <<>> = sent'[r]
      BY <1>4, ConcatEmpty
    <2> QED
      BY <1>1, <2>1 DEF Stream, WriteTail, Returned
  <1>6. Holds(cells'[r], head[r], DataSize(head[r], tail'[r]), sent'[r], Returned(r))
    <2>1. Holds(cells[r], head[r], DataSize(head[r], tail[r]), sent[r], Returned(r))
      BY HoldsSent
    <2>2. Returned(r) \in Nat
      BY <1>0, <1>1
    <2>3. Holds(CopyIn(cells[r], tail[r], s), head[r], DataSize(head[r], tail[r]) + Len(s), sent[r] \o s, Returned(r))
      BY <1>0, <1>1, <1>2, <2>1, <2>2, CopyInFacts
    <2> QED
      BY <1>3, <2>3
  <1>7. Len(sent'[r]) = Returned(r) + DataSize(head[r], tail'[r])
    BY <1>0, <1>1, <1>3, <1>4
  <1>8. /\ Len(received[r]) <= Len(sent'[r])
        /\ \A k \in 1..Len(received[r]) : received[r][k] = sent'[r][k]
    <2>1. 1..Len(received[r]) \subseteq 1..Len(sent[r]) /\ Len(received[r]) <= Len(sent'[r])
      BY <1>0, <1>1, <1>4
    <2> QED
      BY <1>1, <1>4, <2>1
  <1>9. Reading(r)' => DataSize(head[r], seen[r]) <= DataSize(head[r], tail'[r])
    <2>1. Reading(r) => DataSize(head[r], seen[r]) <= DataSize(head[r], tail[r])
      BY DEF RingOK
    <2> QED
      BY <1>0, <1>3, <2>1
  <1>10. RingOK(r)'
    BY <1>1, <1>5, <1>6, <1>7, <1>8, <1>9 DEF RingOK
  <1> QED
    BY <1>3, <1>4, <1>10

-----------------------------------------------------------------------------
(* The messages of the host                                                *)

\* The kinds of messages, and the sizes of their bodies.
LEMMA KindFacts ==
  /\ Kinds = {"handled", "empty", "fatal"}
  /\ BodySize["handled"] = 2 /\ BodySize["empty"] = 0 /\ BodySize["fatal"] = 1
  /\ Outcomes = Kinds
  BY DEF Kinds, BodySize, Outcomes

\* No body has more than two cells.
LEMMA BodySizes == \A kind \in Kinds : BodySize[kind] \in 0..2
  BY KindFacts

\* The parts of a cell.
LEMMA CellFacts ==
  ASSUME NEW kind, NEW id, NEW part
  PROVE  Cell(kind, id, part).kind = kind /\ Cell(kind, id, part).id = id /\ Cell(kind, id, part).part = part
  BY DEF Cell

\* A message of the host, cell by cell.
LEMMA FrameFacts ==
  ASSUME NEW kind \in Kinds, NEW id \in 1..MaxInput
  PROVE  /\ Frame(kind, id) \in Seq(AllCells)
         /\ Len(Frame(kind, id)) = 2 + BodySize[kind]
         /\ \A i \in 1..(2 + BodySize[kind]) : Frame(kind, id)[i] = Cell(kind, id, i)
  <1>1. BodySize[kind] \in 0..2
    BY BodySizes
  <1>2. id \in 1..(MaxInput + MaxOutput)
    BY MaxInputAssumption, MaxOutputAssumption
  <1>3. \A i \in 1..(2 + BodySize[kind]) : Cell(kind, id, i) \in AllCells
    BY <1>1, <1>2 DEF AllCells, OutputSize
  <1>4. Frame(kind, id) \in [1..(2 + BodySize[kind]) -> AllCells]
    BY <1>3 DEF Frame
  <1>5. 2 + BodySize[kind] \in Nat
    BY <1>1
  <1> QED
    BY <1>4, <1>5 DEF Frame

\* A message of the battle is made of cells.
LEMMA OutputFrameFacts ==
  ASSUME NEW id \in 1..(MaxInput + MaxOutput)
  PROVE  OutputFrame(id) \in Seq(AllCells)
  <1>1. "handled" \in Kinds
    BY KindFacts
  <1>2. OutputFrame(id) \in [1..OutputSize -> AllCells]
    BY <1>1 DEF OutputFrame, AllCells
  <1>3. OutputSize \in Nat
    BY DEF OutputSize
  <1> QED
    BY <1>2, <1>3, FunctionIsSeq

\* The elements of a sequence.
LEMMA ElementFacts ==
  \A S : \A s \in Seq(S) : \A k \in 1..Len(s) : s[k] \in S
  OBVIOUS

\* Where a message begins, and its size.
LEMMA StartFacts ==
  ASSUME InteropTyped, Framing, NEW k \in 1..(Len(messages) + 1)
  PROVE  /\ StartOf(k) \in Nat
         /\ k <= Len(messages) => /\ messages[k].kind \in Kinds
                                  /\ FrameSize(k) \in 2..4
                                  /\ FrameSize(k) = 2 + BodySize[messages[k].kind]
         /\ k = Len(messages) + 1 => StartOf(k) = Len(Stream("input"))
  <1>0. messages \in Seq([kind : Kinds, start : Nat]) /\ Len(messages) \in Nat
    BY DEF InteropTyped
  <1>1. Len(Stream("input")) \in Nat
    <2>1. Stream("input") \in Seq(AllCells)
      BY RingTyped DEF Rings
    <2> QED
      BY <2>1
  <1>2. CASE k <= Len(messages)
    <2>0. k \in 1..Len(messages)
      BY <1>0, <1>2
    <2>1. messages[k] \in [kind : Kinds, start : Nat]
      BY <1>0, <2>0, ElementFacts, Zenon
    <2>2. messages[k].kind \in Kinds /\ messages[k].start \in Nat
      BY <2>1
    <2>3. BodySize[messages[k].kind] \in 0..2
      BY <2>2, BodySizes
    <2>4. FrameSize(k) \in 2..4
      BY <2>3 DEF FrameSize
    <2> QED
      BY <1>0, <1>2, <2>2, <2>4 DEF StartOf, FrameSize
  <1>3. CASE k = Len(messages) + 1
    BY <1>0, <1>1, <1>3 DEF StartOf
  <1> QED
    BY <1>0, <1>2, <1>3

\* The types of what the loop over the data counts.
LEMMA LoggedFacts ==
  ASSUME InteropTyped
  PROVE  Logged \in Nat /\ Len(outcomes) \in Nat /\ Len(data) \in Nat /\ Len(messages) \in Nat
  <1>1. log \in Seq([first : Nat, last : Nat, outcomes : Seq(Outcomes)])
    BY DEF InteropTyped
  <1>2. log # <<>> => log[Len(log)] \in [first : Nat, last : Nat, outcomes : Seq(Outcomes)]
    <2>1. Len(log) \in Nat /\ (Len(log) = 0 => log = <<>>)
      BY <1>1
    <2>2. log # <<>> => Len(log) \in 1..Len(log)
      BY <2>1
    <2> QED
      BY <1>1, <2>2, ElementFacts, Zenon
  <1>3. Logged \in Nat
    BY <1>2 DEF Logged
  <1> QED
    BY <1>3 DEF InteropTyped

\* Steps that do not touch the input, what was read of it, or its messages.
LEMMA InputUntouched ==
  ASSUME Batch, Framing, Dispatching, Explained,
         frame' = frame \/ (frame \notin {"copy", "store", "dispatch"} /\ frame' \notin {"copy", "store", "dispatch"}),
         host'["input"] # "write" => host["input"] # "write",
         UNCHANGED <<data, offset, messages, committed, unread, outcomes, log>>,
         sent'["input"] = sent["input"], received'["input"] = received["input"],
         writer'["input"].pending = writer["input"].pending,
         head'["input"] = head["input"], seen'["input"] = seen["input"]
  PROVE  Batch' /\ Framing' /\ Dispatching' /\ Explained'
  <1>0. /\ data' = data /\ offset' = offset /\ messages' = messages /\ committed' = committed
        /\ unread' = unread /\ outcomes' = outcomes /\ log' = log
    OBVIOUS
  <1>1. /\ Stream("input")' = Stream("input") /\ Logged' = Logged
        /\ \A k : StartOf(k)' = StartOf(k) /\ FrameSize(k)' = FrameSize(k)
    BY <1>0 DEF Stream, StartOf, FrameSize, Logged
  <1>2. Turn' = Turn
    BY <1>0, <1>1 DEF Turn
  <1>a. StartOf(Turn)' = StartOf(Turn) /\ StartOf(unread + 1)' = StartOf(unread + 1)
        /\ StartOf(Logged + 1)' = StartOf(Logged + 1) /\ StartOf(committed + 1)' = StartOf(committed + 1)
    BY <1>0, <1>1, <1>2 DEF Stream, StartOf
  <1>3. Batch'
    BY <1>0 DEF Batch
  <1>4. Framing'
    BY <1>0, <1>1, <1>a DEF Framing
  <1>5. Dispatching'
    BY <1>0, <1>1, <1>2, <1>a DEF Dispatching
  <1>6. Explained'
    BY <1>0 DEF Explained
  <1> QED
    BY <1>3, <1>4, <1>5, <1>6

\* In the data of the batch the loop finds the message whose turn it is, whole.
LEMMA MessageAtTurn ==
  ASSUME InteropTyped, RingOK("input"), Batch, Framing, Dispatching, frame = "dispatch", offset < Len(data)
  PROVE  /\ Turn \in 1..Len(messages) /\ Turn <= unread
         /\ offset + FrameSize(Turn) <= Len(data)
         /\ Outcome = messages[Turn].kind
  <1> SUFFICES ASSUME NEW m \in Nat, m = Turn
               PROVE  /\ m \in 1..Len(messages) /\ m <= unread
                      /\ offset + FrameSize(m) <= Len(data)
                      /\ Outcome = messages[m].kind
    BY LoggedFacts DEF Turn
  <1>0. /\ Logged \in Nat /\ Len(outcomes) \in Nat /\ Len(data) \in Nat /\ Len(messages) \in Nat
        /\ offset \in Nat /\ unread \in Nat /\ committed \in Nat
        /\ data \in Seq(AllCells)
    BY LoggedFacts DEF InteropTyped
  <1>1. /\ sent["input"] \in Seq(AllCells) /\ writer["input"].pending \in Seq(AllCells)
        /\ Len(sent["input"]) \in Nat /\ Len(received["input"]) \in Nat
    BY RingTyped DEF Rings
  <1>2. /\ Len(received["input"]) <= Len(sent["input"])
        /\ Len(data) <= Len(received["input"])
        /\ \A k \in 1..Len(data) : data[k] = sent["input"][Len(received["input"]) - Len(data) + k]
    BY DEF RingOK, Batch
  <1>3. /\ StartOf(unread + 1) = Len(received["input"])
        /\ m <= unread + 1 /\ m >= 1 /\ unread <= committed /\ committed <= Len(messages)
        /\ StartOf(m) = Len(received["input"]) - Len(data) + offset
    BY <1>0 DEF Dispatching, Framing, Turn
  <1>4. m # unread + 1
    BY <1>0, <1>1, <1>3
  <1>5. m <= unread /\ m \in 1..Len(messages) /\ unread + 1 \in 1..(Len(messages) + 1) /\ m < unread + 1
    BY <1>0, <1>3, <1>4
  <1>6. /\ messages[m].kind \in Kinds /\ FrameSize(m) \in 2..4 /\ FrameSize(m) = 2 + BodySize[messages[m].kind]
        /\ StartOf(m) \in Nat
    BY <1>0, <1>5, StartFacts
  <1>7. StartOf(m) + FrameSize(m) <= StartOf(unread + 1)
    BY <1>0, <1>5 DEF Framing
  <1>8. offset + FrameSize(m) <= Len(data)
    <2>1. Len(received["input"]) - Len(data) + offset + FrameSize(m) <= Len(received["input"])
      BY <1>3, <1>7
    <2>2. FrameSize(m) \in Nat
      BY <1>6
    <2> QED
      BY <1>0, <1>1, <2>1, <2>2
  <1>a. FrameSize(m) \in Nat /\ FrameSize(m) >= 2
    BY <1>6
  <1>b. \A i \in Nat : Len(received["input"]) - Len(data) + (offset + i) = StartOf(m) + i
    <2>1. PICK all \in Int : all = Len(received["input"])
      BY <1>1
    <2>2. StartOf(m) = all - Len(data) + offset /\ Len(data) \in Int /\ offset \in Int
      BY <1>0, <1>3, <2>1
    <2>3. \A i \in Nat : all - Len(data) + (offset + i) = StartOf(m) + i
      BY <2>2
    <2> QED
      BY <2>1, <2>3, Zenon
  <1>9. \A i \in 1..FrameSize(m) : data[offset + i] = Cell(messages[m].kind, m, i)
    <2> SUFFICES ASSUME NEW i \in 1..FrameSize(m) PROVE data[offset + i] = Cell(messages[m].kind, m, i)
      OBVIOUS
    <2>0. i \in Nat /\ i >= 1 /\ i <= FrameSize(m)
      BY <1>a
    <2>a. offset + i \in 1..Len(data)
      BY <1>0, <1>a, <1>8, <2>0
    <2>b. Len(received["input"]) - Len(data) + (offset + i) = StartOf(m) + i
      BY <1>b, <2>0
    <2>c. StartOf(m) + i <= StartOf(unread + 1)
      BY <1>6, <1>7, <1>a, <2>0, <1>3, <1>1
    <2>d. StartOf(m) + i \in 1..Len(sent["input"])
      BY <1>1, <1>2, <1>3, <1>6, <2>0, <2>c
    <2>1. offset + i \in 1..Len(data) /\ StartOf(m) + i \in 1..Len(sent["input"])
          /\ Len(received["input"]) - Len(data) + (offset + i) = StartOf(m) + i
      BY <2>a, <2>b, <2>d
    <2>2. data[offset + i] = sent["input"][StartOf(m) + i]
      BY <1>2, <2>1
    <2>3. Stream("input")[StartOf(m) + i] = sent["input"][StartOf(m) + i]
      BY <1>1, <2>1, CellsConcat DEF Stream
    <2>4. Stream("input")[StartOf(m) + i] = Cell(messages[m].kind, m, i)
      BY <1>5 DEF Framing
    <2> QED
      BY <2>2, <2>3, <2>4
  <1> DEFINE kind == messages[m].kind
  <1>10. data[offset + 1].kind = kind /\ data[offset + 1].part = 1 /\ data[offset + 1].id = m
    <2>1. data[offset + 1] = Cell(kind, m, 1)
      BY <1>6, <1>9
    <2> QED
      BY <2>1, CellFacts
  <1>11. m \in 1..MaxInput
    BY <1>0, <1>5, MaxInputAssumption DEF Framing
  <1>12. SubSeq(data, offset + 1, offset + FrameSize(m)) = Frame(kind, m)
    <2>1. /\ Frame(kind, m) \in Seq(AllCells) /\ Len(Frame(kind, m)) = FrameSize(m)
          /\ \A i \in 1..FrameSize(m) : Frame(kind, m)[i] = Cell(kind, m, i)
      BY <1>6, <1>11, FrameFacts
    <2> DEFINE sub == SubSeq(data, offset + 1, offset + FrameSize(m))
    <2>2. /\ sub \in Seq(AllCells) /\ Len(sub) = FrameSize(m)
          /\ \A i \in 1..FrameSize(m) : sub[i] = data[offset + i]
      <3>1. offset + 1 \in 1..(Len(data) + 1) /\ offset + FrameSize(m) \in offset..Len(data) /\ FrameSize(m) \in Nat
        BY <1>0, <1>a, <1>8
      <3>2. sub \in Seq(AllCells)
        BY <1>0, <3>1
      <3>3. Len(sub) = FrameSize(m)
        BY <1>0, <3>1
      <3>4. \A i \in 1..FrameSize(m) : sub[i] = data[offset + i]
        BY <1>0, <3>1
      <3> QED
        BY <3>2, <3>3, <3>4
    <2> HIDE DEF sub
    <2>3. \A i \in 1..FrameSize(m) : sub[i] = Frame(kind, m)[i]
      BY <1>9, <2>1, <2>2
    <2>4. sub = Frame(kind, m)
      BY <2>1, <2>2, <2>3
    <2> QED
      BY <2>4 DEF sub
  <1>13. Outcome = kind
    <2>1. /\ offset + 2 + BodySize[kind] = offset + FrameSize(m)
          /\ ~(offset + 2 > Len(data)) /\ ~(offset + FrameSize(m) > Len(data))
      BY <1>0, <1>6, <1>8, BodySizes
    <2>2. CASE BodySize[kind] = 0
      <3>1. kind = "empty"
        BY <1>6, <2>2, KindFacts
      <3> QED
        BY <1>10, <2>1, <2>2, <3>1 DEF Outcome
    <2>3. CASE BodySize[kind] # 0
      BY <1>10, <1>12, <2>1, <2>3 DEF Outcome
    <2> QED
      BY <2>2, <2>3
  <1> QED
    BY <1>5, <1>8, <1>13

-----------------------------------------------------------------------------
(* The steps of the frame thread                                           *)

\* There are two rings.
LEMMA RingNames == "input" \in Rings /\ "output" \in Rings /\ \A r \in Rings : r = "input" \/ r = "output"
  BY DEF Rings

\* The exports that leave the rings alone, and an Update that only returns.
LEMMA OutsideStep ==
  ASSUME InteropInv, UNCHANGED <<ringVars, locals, history>>,
         frame' = frame \/ (frame \in {"out", "read", "update"} /\ frame' \in {"out", "read", "update"})
  PROVE  InteropInv'
  <1>1. /\ head' = head /\ tail' = tail /\ cells' = cells /\ data' = data /\ offset' = offset /\ host' = host
        /\ writer' = writer /\ seen' = seen /\ sent' = sent /\ received' = received /\ messages' = messages
        /\ committed' = committed /\ unread' = unread /\ outcomes' = outcomes /\ log' = log
    BY DEF ringVars, locals, history
  <1>2. InteropTyped'
    BY <1>1 DEF InteropInv, InteropTyped
  <1>3. ASSUME NEW r \in Rings PROVE RingOK(r)'
    <2>1. (Writing(r)' <=> Writing(r)) /\ (Reading(r)' => Reading(r)) /\ (Kept(r)' <=> Kept(r))
      BY <1>1 DEF Writing, Reading, Kept
    <2> QED
      BY <1>1, <2>1, RingUntouched DEF InteropInv
  <1>4. Batch' /\ Framing' /\ Dispatching' /\ Explained'
    BY <1>1, InputUntouched DEF InteropInv
  <1> QED
    BY <1>2, <1>3, <1>4 DEF InteropInv

\* The tail that ReadAll loads is the end of the last committed message.
LEMMA ReadAllStep ==
  ASSUME InteropInv, ReadAll
  PROVE  InteropInv'
  <1>1. /\ head' = head /\ tail' = tail /\ cells' = cells /\ data' = data /\ offset' = offset /\ host' = host
        /\ writer' = writer /\ sent' = sent /\ received' = received /\ messages' = messages
        /\ committed' = committed /\ outcomes' = outcomes /\ log' = log
        /\ frame = "read" /\ unread' = committed
        /\ frame' = IF head["input"] = tail["input"] THEN "update" ELSE "copy"
        /\ seen' = [seen EXCEPT !["input"] = tail["input"]]
    BY DEF ReadAll, ringVars
  <1>2. seen'["input"] = tail["input"] /\ seen'["output"] = seen["output"] /\ seen' \in [Rings -> Positions]
    BY <1>1 DEF InteropInv, InteropTyped, Rings
  <1>3. InteropTyped'
    BY <1>1, <1>2 DEF InteropInv, InteropTyped
  <1>4. RingOK("input")'
    <2>1. ~Kept("input") /\ ~Kept("input")' /\ (Writing("input")' <=> Writing("input"))
      BY <1>1 DEF Kept, Writing
    <2> QED
      BY <1>1, <1>2, <2>1, RingNames, RingLoaded DEF InteropInv
  <1>5. RingOK("output")'
    <2>1. /\ Writing("output")' <=> Writing("output")
          /\ Reading("output")' => Reading("output")
          /\ Kept("output")' <=> Kept("output")
      BY <1>1 DEF Writing, Reading, Kept
    <2> QED
      BY <1>1, <1>2, <2>1, RingNames, RingUntouched DEF InteropInv
  <1>6. Batch'
    BY <1>1 DEF InteropInv, Batch
  <1>7. /\ Stream("input")' = Stream("input") /\ Logged' = Logged
        /\ \A k : StartOf(k)' = StartOf(k) /\ FrameSize(k)' = FrameSize(k)
    BY <1>1 DEF Stream, StartOf, FrameSize, Logged
  <1>8. Framing'
    <2>1. StartOf(committed + 1)' = StartOf(committed + 1)
      BY <1>1 DEF StartOf, Stream
    <2> QED
      BY <1>1, <1>7, <2>1 DEF InteropInv, Framing
  <1>9. Dispatching'
    <2>1. Returned("input") = Len(received["input"])
      <3>1. Len(received["input"]) \in Nat
        BY RingTyped, RingNames DEF InteropInv
      <3> QED
        BY <3>1 DEF Returned, Kept
    <2>2. StartOf(committed + 1) = Len(received["input"]) + DataSize(head["input"], tail["input"])
      BY <2>1, RingNames DEF InteropInv, Framing, RingOK
    <2>3. StartOf(Logged + 1)' = StartOf(Logged + 1) /\ StartOf(unread + 1)' = StartOf(committed + 1)
      BY <1>1, <1>7 DEF StartOf, Stream
    <2>4. committed \in Nat
      BY DEF InteropInv, InteropTyped
    <2> QED
      BY <1>1, <1>2, <1>7, <2>2, <2>3, <2>4 DEF InteropInv, Dispatching
  <1>10. Explained'
    BY <1>1 DEF InteropInv, Explained
  <1> QED
    BY <1>3, <1>4, <1>5, <1>6, <1>8, <1>9, <1>10, RingNames DEF InteropInv

\* The data is what was sent next.
LEMMA ReadCopyStep ==
  ASSUME InteropInv, ReadCopy
  PROVE  InteropInv'
  <1>1. /\ head' = head /\ tail' = tail /\ cells' = cells /\ offset' = offset /\ host' = host
        /\ writer' = writer /\ seen' = seen /\ sent' = sent /\ received' = received /\ messages' = messages
        /\ committed' = committed /\ unread' = unread /\ outcomes' = outcomes /\ log' = log
        /\ frame = "copy" /\ frame' = "store"
        /\ data' = CopyOut(cells["input"], head["input"], seen["input"])
    BY DEF ReadCopy, ringVars, history
  <1>2. /\ data' \in Seq(AllCells)
        /\ Len(data') = DataSize(head["input"], seen["input"])
        /\ \A k \in 1..Len(data') : data'[k] = sent["input"][Len(received["input"]) + k]
    <2>1. Reading("input") /\ ~Kept("input")
      BY <1>1 DEF Reading, Kept
    <2> QED
      BY <1>1, <2>1, RingNames, CopyOutIsSent DEF InteropInv
  <1>3. InteropTyped'
    BY <1>1, <1>2 DEF InteropInv, InteropTyped
  <1>4. ASSUME NEW r \in Rings PROVE RingOK(r)'
    <2>1. (Writing(r)' <=> Writing(r)) /\ (Reading(r)' => Reading(r)) /\ (Kept(r)' <=> Kept(r))
      BY <1>1 DEF Writing, Reading, Kept
    <2> QED
      BY <1>1, <2>1, RingUntouched DEF InteropInv
  <1>5. Batch'
    BY <1>1, <1>2 DEF InteropInv, Batch
  <1>6. /\ Stream("input")' = Stream("input") /\ Logged' = Logged
        /\ \A k : StartOf(k)' = StartOf(k) /\ FrameSize(k)' = FrameSize(k)
    BY <1>1 DEF Stream, StartOf, FrameSize, Logged
  <1>7. /\ StartOf(committed + 1)' = StartOf(committed + 1)
        /\ StartOf(unread + 1)' = StartOf(unread + 1)
        /\ StartOf(Logged + 1)' = StartOf(Logged + 1)
    BY <1>1, <1>6 DEF StartOf, Stream
  <1>8. Framing'
    BY <1>1, <1>6, <1>7 DEF InteropInv, Framing
  <1>9. Dispatching'
    BY <1>1, <1>6, <1>7 DEF InteropInv, Dispatching
  <1>10. Explained'
    BY <1>1 DEF InteropInv, Explained
  <1> QED
    BY <1>3, <1>4, <1>5, <1>8, <1>9, <1>10 DEF InteropInv
\* The space is given back once the data is copied.
LEMMA ReadStoreStep ==
  ASSUME InteropInv, ReadStore
  PROVE  InteropInv'
  <1>1. /\ tail' = tail /\ cells' = cells /\ data' = data /\ offset' = offset /\ host' = host
        /\ writer' = writer /\ seen' = seen /\ sent' = sent /\ messages' = messages
        /\ committed' = committed /\ unread' = unread /\ outcomes' = outcomes /\ log' = log
        /\ frame = "store" /\ frame' = "dispatch"
        /\ head' = [head EXCEPT !["input"] = seen["input"]]
        /\ received' = [received EXCEPT !["input"] = @ \o data]
    BY DEF ReadStore, locals
  <1>2. /\ InteropTyped /\ RingOK("input") /\ RingOK("output") /\ Batch /\ Framing /\ Dispatching /\ Explained
    BY RingNames DEF InteropInv
  <1>3. /\ head'["input"] = seen["input"] /\ head'["output"] = head["output"]
        /\ received'["input"] = received["input"] \o data /\ received'["output"] = received["output"]
    BY <1>1, <1>2 DEF InteropTyped, Rings
  <1>4. PICK before \in Nat : before = Len(received["input"])
    BY <1>2, RingTyped, RingNames
  <1>5. PICK n \in Nat : n = DataSize(head["input"], seen["input"])
    BY <1>2, RingTyped, RingNames
  <1>6. /\ data \in Seq(AllCells) /\ Len(data) = n
        /\ \A k \in 1..n : data[k] = sent["input"][before + k]
        /\ outcomes = <<>> /\ offset = 0
    BY <1>1, <1>2, <1>4, <1>5 DEF Batch, InteropTyped
  <1>7. Returned("input") = before
    BY <1>4 DEF Returned, Kept
  <1>8. before + n <= Len(sent["input"])
    <2>1. /\ Len(sent["input"]) = before + DataSize(head["input"], tail["input"])
          /\ n <= DataSize(head["input"], tail["input"])
      BY <1>1, <1>2, <1>5, <1>7 DEF RingOK, Reading
    <2>2. DataSize(head["input"], tail["input"]) \in Nat
      BY <1>2, RingTyped, RingNames
    <2> QED
      BY <2>1, <2>2
  <1>9. /\ received'["input"] \in Seq(AllCells)
        /\ Len(received'["input"]) = before + n
        /\ Len(received'["input"]) <= Len(sent["input"])
        /\ \A k \in 1..Len(received'["input"]) : received'["input"][k] = sent["input"][k]
    <2>1. /\ Len(received["input"]) + Len(data) <= Len(sent["input"])
          /\ \A k \in 1..Len(data) : data[k] = sent["input"][Len(received["input"]) + k]
      BY <1>4, <1>6, <1>8
    <2>2. "input" \in Rings /\ data \in Seq(AllCells)
      BY <1>6, RingNames
    <2>3. /\ received'["input"] \in Seq(AllCells)
          /\ Len(received'["input"]) = Len(received["input"]) + Len(data)
          /\ Len(received'["input"]) <= Len(sent["input"])
          /\ \A k \in 1..Len(received'["input"]) : received'["input"][k] = sent["input"][k]
      BY <1>2, <1>3, <2>1, <2>2, ReceivedFacts
    <2> QED
      BY <1>4, <1>6, <2>3
  <1>10. InteropTyped'
    <2>1. head' \in [Rings -> Positions]
      BY <1>1, <1>2, RingNames DEF InteropTyped
    <2>2. received' \in [Rings -> Seq(AllCells)]
      BY <1>1, <1>2, <1>3, <1>9 DEF InteropTyped, Rings
    <2> QED
      BY <1>1, <1>2, <2>1, <2>2 DEF InteropTyped
  <1>11. RingOK("input")'
    <2>1. Reading("input") /\ ~Reading("input")' /\ (Writing("input")' <=> Writing("input"))
      BY <1>1 DEF Reading, Writing
    <2>2. Returned("input")' = before + n
      BY <1>9 DEF Returned, Kept
    <2>3. Returned("input")' = Returned("input") + DataSize(head["input"], seen["input"])
      BY <1>5, <1>7, <2>2
    <2> QED
      BY <1>1, <1>2, <1>3, <1>9, <2>1, <2>3, RingNames, RingGivenBack
  <1>12. RingOK("output")'
    <2>1. /\ Writing("output")' <=> Writing("output")
          /\ Reading("output")' => Reading("output")
          /\ Kept("output")' <=> Kept("output")
      BY <1>1 DEF Writing, Reading, Kept
    <2> QED
      BY <1>1, <1>2, <1>3, <2>1, RingNames, RingUntouched
  <1>13. Batch'
    <2>1. n <= before + n /\ \A k \in 1..n : before + n - n + k = before + k
      OBVIOUS
    <2>2. \A k \in 1..n : data[k] = sent["input"][before + n - n + k]
      BY <1>6, <2>1
    <2>3. /\ data' = data /\ frame' = "dispatch" /\ Len(data') = n /\ Len(received'["input"]) = before + n
          /\ Len(received["input"])' = before + n /\ sent' = sent
      BY <1>1, <1>6, <1>9
    <2>4. /\ Len(data') <= Len(received["input"])'
          /\ \A k \in 1..Len(data') : data'[k] = sent'["input"][Len(received["input"])' - Len(data') + k]
      BY <2>1, <2>2, <2>3
    <2> QED
      BY <2>3, <2>4 DEF Batch
  <1>14. /\ Stream("input")' = Stream("input") /\ Logged' = Logged
         /\ \A k : StartOf(k)' = StartOf(k) /\ FrameSize(k)' = FrameSize(k)
    BY <1>1 DEF Stream, StartOf, FrameSize, Logged
  <1>15. /\ StartOf(committed + 1)' = StartOf(committed + 1)
         /\ StartOf(unread + 1)' = StartOf(unread + 1)
         /\ Turn' = Logged + 1
         /\ StartOf(Turn)' = StartOf(Logged + 1)
    <2>1. Len(outcomes) = 0 /\ Logged \in Nat
      BY <1>2, <1>6, LoggedFacts
    <2>2. Turn' = Logged + 1
      BY <1>1, <1>14, <2>1 DEF Turn
    <2> QED
      BY <1>1, <1>14, <2>2 DEF StartOf, Stream
  <1>16. Framing'
    BY <1>1, <1>2, <1>14, <1>15 DEF Framing
  <1>17. Dispatching'
    <2>1. /\ Logged <= committed /\ Logged <= unread /\ unread <= committed
          /\ StartOf(unread + 1) = before + n /\ StartOf(Logged + 1) = before
      BY <1>1, <1>2, <1>4, <1>5 DEF Dispatching
    <2>2. Logged \in Nat /\ unread \in Nat /\ Len(outcomes) = 0
      BY <1>2, <1>6, LoggedFacts DEF InteropTyped
    <2>3. Logged + 1 <= unread + 1 /\ offset <= n /\ before = (before + n) - n + offset
      BY <1>6, <2>1, <2>2
    <2>4. \A k \in 1..Len(outcomes) : outcomes[k] = messages[Logged + k].kind
      BY <2>2
    <2> QED
      BY <1>1, <1>6, <1>9, <1>14, <1>15, <2>1, <2>3, <2>4 DEF Dispatching
  <1>18. Explained'
    BY <1>1, <1>2 DEF Explained
  <1> QED
    BY <1>10, <1>11, <1>12, <1>13, <1>16, <1>17, <1>18, RingNames DEF InteropInv

\* The loop goes on with the next message.
LEMMA DispatchStep ==
  ASSUME InteropInv, parseAndDispatchMessage
  PROVE  InteropInv'
  <1>1. /\ head' = head /\ tail' = tail /\ cells' = cells /\ frame' = frame /\ data' = data /\ host' = host
        /\ writer' = writer /\ seen' = seen /\ sent' = sent /\ received' = received /\ messages' = messages
        /\ committed' = committed /\ unread' = unread /\ log' = log
        /\ frame = "dispatch" /\ offset < Len(data) /\ Outcome = "handled"
        /\ outcomes' = Append(outcomes, "handled")
        /\ offset' = offset + 2 + BodySize["handled"]
    BY DEF parseAndDispatchMessage, ringVars
  <1>2. /\ InteropTyped /\ RingOK("input") /\ RingOK("output") /\ Batch /\ Framing /\ Dispatching /\ Explained
    BY RingNames DEF InteropInv
  <1>3. /\ Turn \in 1..Len(messages) /\ Turn <= unread
        /\ offset + FrameSize(Turn) <= Len(data)
        /\ messages[Turn].kind = "handled"
    BY <1>1, <1>2, MessageAtTurn
  <1>4. FrameSize(Turn) = 4 /\ offset' = offset + 4
    <2>1. offset \in Nat
      BY <1>2 DEF InteropTyped
    <2> QED
      BY <1>1, <1>3, <2>1, KindFacts DEF FrameSize
  <1>5. outcomes \in Seq(Outcomes) /\ "handled" \in Outcomes /\ offset \in Nat /\ Logged \in Nat /\ unread \in Nat
        /\ Len(outcomes) \in Nat /\ Len(messages) \in Nat
    BY <1>2, LoggedFacts DEF InteropTyped, Outcomes
  <1>6. /\ outcomes' \in Seq(Outcomes) /\ Len(outcomes') = Len(outcomes) + 1
        /\ \A k \in 1..Len(outcomes) : outcomes'[k] = outcomes[k]
        /\ outcomes'[Len(outcomes) + 1] = "handled"
    BY <1>1, <1>5
  <1>7. InteropTyped'
    <2>1. offset' \in Nat
      BY <1>4, <1>5
    <2> QED
      BY <1>1, <1>2, <1>6, <2>1 DEF InteropTyped
  <1>8. ASSUME NEW r \in Rings PROVE RingOK(r)'
    <2>1. (Writing(r)' <=> Writing(r)) /\ (Reading(r)' => Reading(r)) /\ (Kept(r)' <=> Kept(r))
      BY <1>1 DEF Writing, Reading, Kept
    <2> QED
      BY <1>1, <2>1, RingUntouched DEF InteropInv
  <1>9. Batch'
    BY <1>1, <1>2 DEF Batch
  <1>10. /\ Stream("input")' = Stream("input") /\ Logged' = Logged
         /\ \A k : StartOf(k)' = StartOf(k) /\ FrameSize(k)' = FrameSize(k)
    BY <1>1 DEF Stream, StartOf, FrameSize, Logged
  <1>11. Turn' = Turn + 1
    BY <1>5, <1>6, <1>10 DEF Turn
  <1>12. /\ StartOf(committed + 1)' = StartOf(committed + 1)
         /\ StartOf(unread + 1)' = StartOf(unread + 1)
         /\ StartOf(Turn)' = StartOf(Turn + 1)
    BY <1>1, <1>10, <1>11 DEF StartOf, Stream
  <1>13. Framing'
    BY <1>1, <1>2, <1>10, <1>12 DEF Framing
  <1>14. Dispatching'
    <2>1. PICK all \in Nat : all = Len(received["input"])
      BY <1>2, RingTyped, RingNames
    <2>2. PICK n \in Nat : n = Len(data)
      BY <1>2, LoggedFacts
    <2>3. StartOf(Turn + 1) = StartOf(Turn) + 4
      BY <1>2, <1>3, <1>4 DEF Framing
    <2>4. StartOf(Turn) = all - n + offset
      BY <1>1, <1>2, <2>1, <2>2 DEF Dispatching
    <2>5. StartOf(Turn + 1) = all - n + offset'
      BY <1>4, <1>5, <2>3, <2>4
    <2>6. offset' <= n /\ Turn + 1 <= unread + 1
      BY <1>3, <1>4, <1>5, <2>2
    <2>7. ASSUME NEW k \in 1..Len(outcomes') PROVE outcomes'[k] = messages[Logged + k].kind
      <3>1. CASE k \in 1..Len(outcomes)
        BY <1>1, <1>2, <1>6, <3>1 DEF Dispatching
      <3>2. CASE k = Len(outcomes) + 1
        <4>1. Logged + k = Turn
          BY <1>5, <3>2 DEF Turn
        <4> QED
          BY <1>3, <1>6, <3>2, <4>1
      <3> QED
        BY <1>5, <1>6, <3>1, <3>2
    <2> QED
      BY <1>1, <1>2, <1>10, <1>11, <1>12, <2>1, <2>2, <2>5, <2>6, <2>7 DEF Dispatching
  <1>15. Explained'
    BY <1>1, <1>2 DEF Explained
  <1> QED
    BY <1>7, <1>8, <1>9, <1>13, <1>14, <1>15 DEF InteropInv
\* At the end of the data every message of the batch has had its turn.
LEMMA TurnAtEnd ==
  ASSUME InteropTyped, RingOK("input"), Framing, Dispatching, frame = "dispatch", ~(offset < Len(data))
  PROVE  Turn = unread + 1
  <1>0. /\ Logged \in Nat /\ Len(outcomes) \in Nat /\ Len(data) \in Nat /\ Len(messages) \in Nat
        /\ offset \in Nat /\ unread \in Nat /\ committed \in Nat
    BY LoggedFacts DEF InteropTyped
  <1>1. PICK all \in Nat : all = Len(received["input"])
    BY RingTyped, RingNames
  <1>2. /\ StartOf(unread + 1) = all /\ offset <= Len(data) /\ Turn <= unread + 1
        /\ StartOf(Turn) = all - Len(data) + offset
        /\ unread <= committed /\ committed <= Len(messages)
    BY <1>1 DEF Dispatching, Framing
  <1>3. StartOf(Turn) = all
    BY <1>0, <1>2
  <1>4. Turn \in Nat /\ Turn >= 1
    BY <1>0 DEF Turn
  <1> SUFFICES ASSUME Turn < unread + 1 PROVE FALSE
    BY <1>0, <1>2, <1>4
  <1>5. Turn \in 1..(Len(messages) + 1) /\ unread + 1 \in 1..(Len(messages) + 1) /\ Turn <= Len(messages)
    BY <1>0, <1>2, <1>4
  <1>6. StartOf(Turn) + FrameSize(Turn) <= StartOf(unread + 1)
    BY <1>5 DEF Framing
  <1>7. FrameSize(Turn) \in 2..4
    BY <1>5, StartFacts
  <1> QED
    BY <1>2, <1>3, <1>6, <1>7

\* What the loop leaves in the log.
LEMMA EntryFacts ==
  ASSUME InteropTyped, RingOK("input"), Batch, Framing, Dispatching, frame = "dispatch",
         NEW last, last = IF offset < Len(data) THEN <<Outcome>> ELSE <<>>,
         last # <<"handled">>,
         NEW all, all = outcomes \o last
  PROVE  /\ all \in Seq(Outcomes)
         /\ Logged + 1 + Len(all) - 1 <= unread
         /\ \A k \in 1..Len(all) : all[k] = messages[Logged + 1 + k - 1].kind
         /\ Logged + 1 + Len(all) - 1 < unread => all[Len(all)] \in {"empty", "fatal"}
  <1>0. /\ Logged \in Nat /\ Len(outcomes) \in Nat /\ unread \in Nat /\ outcomes \in Seq(Outcomes)
    BY LoggedFacts DEF InteropTyped
  <1>1. \A k \in 1..Len(outcomes) : outcomes[k] = messages[Logged + k].kind
    BY DEF Dispatching
  <1>2. CASE offset < Len(data)
    <2>1. /\ Turn \in 1..Len(messages) /\ Turn <= unread /\ Outcome = messages[Turn].kind
      BY <1>2, MessageAtTurn
    <2>2. messages[Turn].kind \in Kinds
      <3>1. Turn \in 1..(Len(messages) + 1) /\ Turn <= Len(messages)
        BY <2>1, LoggedFacts
      <3> QED
        BY <3>1, StartFacts
    <2>3. Outcome \in {"empty", "fatal"} /\ Outcome \in Outcomes
      BY <1>2, <2>1, <2>2, KindFacts
    <2>4. all = outcomes \o <<Outcome>>
      BY <1>2
    <2>5. /\ all \in Seq(Outcomes) /\ Len(all) = Len(outcomes) + 1
          /\ \A k \in 1..Len(outcomes) : all[k] = outcomes[k]
          /\ all[Len(outcomes) + 1] = Outcome
      BY <1>0, <2>3, <2>4
    <2>6. Turn = Logged + (Len(outcomes) + 1)
      BY <1>0 DEF Turn
    <2>7. ASSUME NEW k \in 1..Len(all) PROVE all[k] = messages[Logged + 1 + k - 1].kind
      <3>1. Logged + 1 + k - 1 = Logged + k
        BY <1>0, <2>5
      <3>2. CASE k \in 1..Len(outcomes)
        BY <1>1, <2>5, <3>1, <3>2
      <3>3. CASE k = Len(outcomes) + 1
        BY <2>1, <2>5, <2>6, <3>1, <3>3
      <3> QED
        BY <1>0, <2>5, <3>2, <3>3
    <2>8. Logged + 1 + Len(all) - 1 = Turn
      <3>1. PICK n \in Nat : n = Len(outcomes)
        BY <1>0
      <3>2. Len(all) = n + 1 /\ Turn = Logged + (n + 1)
        BY <2>5, <2>6, <3>1
      <3>3. Logged + 1 + (n + 1) - 1 = Logged + (n + 1)
        BY <1>0
      <3> QED
        BY <3>2, <3>3
    <2>9. all[Len(all)] \in {"empty", "fatal"}
      BY <2>3, <2>5
    <2> QED
      BY <2>1, <2>5, <2>7, <2>8, <2>9
  <1>3. CASE ~(offset < Len(data))
    <2>1. all = outcomes
      BY <1>0, <1>3
    <2>2. Turn = unread + 1
      BY <1>3, TurnAtEnd
    <2>3. Logged + 1 + Len(all) - 1 = unread
      <3>1. PICK n \in Nat : n = Len(outcomes)
        BY <1>0
      <3>2. Len(all) = n /\ Logged + n + 1 = unread + 1
        BY <2>1, <2>2, <3>1 DEF Turn
      <3>3. Logged + 1 + n - 1 = unread
        BY <1>0, <3>2
      <3> QED
        BY <3>2, <3>3
    <2>4. \A k \in 1..Len(all) : Logged + 1 + k - 1 = Logged + k
      BY <1>0, <2>1
    <2>5. \A k \in 1..Len(all) : all[k] = messages[Logged + 1 + k - 1].kind
      BY <1>1, <2>1, <2>4
    <2>6. Logged + 1 + Len(all) - 1 <= unread /\ ~(Logged + 1 + Len(all) - 1 < unread)
      <3>1. unread <= unread /\ ~(unread < unread)
        BY <1>0
      <3> QED
        BY <2>3, <3>1, Zenon
    <2> QED
      BY <1>0, <2>1, <2>5, <2>6
  <1> QED
    BY <1>2, <1>3

\* The loop ends, and the log says where.
LEMMA ProcessStep ==
  ASSUME InteropInv, ProcessIncomingMessages
  PROVE  InteropInv'
  <1>2. /\ InteropTyped /\ RingOK("input") /\ RingOK("output") /\ Batch /\ Framing /\ Dispatching /\ Explained
    BY RingNames DEF InteropInv
  <1>a. PICK last : last = IF offset < Len(data) THEN <<Outcome>> ELSE <<>>
    OBVIOUS
  <1>1. /\ head' = head /\ tail' = tail /\ cells' = cells /\ host' = host
        /\ writer' = writer /\ seen' = seen /\ sent' = sent /\ received' = received /\ messages' = messages
        /\ committed' = committed /\ unread' = unread
        /\ frame = "dispatch" /\ frame' \in {"out", "update"}
        /\ data' = <<>> /\ offset' = 0 /\ outcomes' = <<>>
        /\ last # <<"handled">>
        /\ log' = Append(log, [first |-> Logged + 1, last |-> unread, outcomes |-> outcomes \o last])
    BY <1>a DEF ProcessIncomingMessages, Return, ringVars
  <1>3. PICK all : all = outcomes \o last
    OBVIOUS
  <1>4. /\ all \in Seq(Outcomes)
        /\ Logged + 1 + Len(all) - 1 <= unread
        /\ \A k \in 1..Len(all) : all[k] = messages[Logged + 1 + k - 1].kind
        /\ Logged + 1 + Len(all) - 1 < unread => all[Len(all)] \in {"empty", "fatal"}
    BY <1>1, <1>2, <1>3, <1>a, EntryFacts
  <1>5. Logged \in Nat /\ unread \in Nat /\ committed \in Nat
    BY <1>2, LoggedFacts DEF InteropTyped
  <1>6. PICK entry : entry = [first |-> Logged + 1, last |-> unread, outcomes |-> all]
    OBVIOUS
  <1>7. /\ entry \in [first : Nat, last : Nat, outcomes : Seq(Outcomes)]
        /\ entry.first = Logged + 1 /\ entry.last = unread /\ entry.outcomes = all
        /\ log' = Append(log, entry)
    BY <1>1, <1>3, <1>4, <1>5, <1>6
  <1>8. log \in Seq([first : Nat, last : Nat, outcomes : Seq(Outcomes)])
    BY <1>2 DEF InteropTyped
  <1>9. /\ log' \in Seq([first : Nat, last : Nat, outcomes : Seq(Outcomes)])
        /\ Len(log) \in Nat /\ Len(log') = Len(log) + 1
        /\ \A b \in 1..Len(log) : log'[b] = log[b]
        /\ log'[Len(log) + 1] = entry
    <2> DEFINE R == [first : Nat, last : Nat, outcomes : Seq(Outcomes)]
    <2>1. entry \in R /\ log \in Seq(R) /\ log' = Append(log, entry)
      BY <1>7, <1>8
    <2> HIDE DEF R
    <2>2. /\ log' \in Seq(R)
          /\ Len(log) \in Nat /\ Len(log') = Len(log) + 1
          /\ \A b \in 1..Len(log) : log'[b] = log[b]
          /\ log'[Len(log) + 1] = entry
      BY <2>1
    <2> QED
      BY <2>2 DEF R
  <1>10. Logged' = unread
    <2>1. log' # <<>> /\ Len(log') = Len(log) + 1 /\ log'[Len(log')] = entry
      BY <1>9
    <2> QED
      BY <1>7, <2>1 DEF Logged
  <1>11. InteropTyped'
    <2>1. data' \in Seq(AllCells) /\ offset' \in Nat /\ outcomes' \in Seq(Outcomes)
      BY <1>1
    <2> QED
      BY <1>1, <1>2, <1>9, <2>1 DEF InteropTyped
  <1>12. ASSUME NEW r \in Rings PROVE RingOK(r)'
    <2>1. (Writing(r)' <=> Writing(r)) /\ (Reading(r)' => Reading(r)) /\ (Kept(r)' <=> Kept(r))
      BY <1>1 DEF Writing, Reading, Kept
    <2> QED
      BY <1>1, <2>1, RingUntouched DEF InteropInv
  <1>13. Batch'
    BY <1>1 DEF Batch
  <1>14. /\ Stream("input")' = Stream("input")
         /\ \A k : StartOf(k)' = StartOf(k) /\ FrameSize(k)' = FrameSize(k)
    BY <1>1 DEF Stream, StartOf, FrameSize
  <1>15. StartOf(committed + 1)' = StartOf(committed + 1) /\ StartOf(Logged + 1)' = StartOf(unread + 1)
    BY <1>1, <1>10, <1>14 DEF StartOf, Stream
  <1>16. Framing'
    BY <1>1, <1>2, <1>14, <1>15 DEF Framing
  <1>17. Dispatching'
    <2>1. unread <= committed /\ StartOf(unread + 1) = Len(received["input"])
      BY <1>1, <1>2 DEF Dispatching
    <2> QED
      BY <1>1, <1>10, <1>15, <2>1 DEF Dispatching
  <1>18. Explained'
    <2> DEFINE Right(e) ==
                 /\ e.first >= 1
                 /\ e.last <= committed
                 /\ e.first + Len(e.outcomes) - 1 <= e.last
                 /\ \A k \in 1..Len(e.outcomes) : e.outcomes[k] = messages[e.first + k - 1].kind
                 /\ e.first + Len(e.outcomes) - 1 < e.last => e.outcomes[Len(e.outcomes)] \in {"empty", "fatal"}
    <2>a. Explained' <=> \A b \in 1..Len(log') : Right(log'[b])
      BY <1>1, Zenon DEF Explained
    <2>b. \A b \in 1..Len(log) : Right(log[b])
      BY <1>2, Zenon DEF Explained
    <2> SUFFICES ASSUME NEW b \in 1..Len(log') PROVE Right(log'[b])
      BY <2>a
    <2>1. CASE b \in 1..Len(log)
      <3>1. log'[b] = log[b]
        BY <1>9, <2>1
      <3> QED
        BY <2>1, <2>b, <3>1, Zenon
    <2>2. CASE b = Len(log) + 1
      <3>1. log'[b] = entry
        BY <1>9, <2>2
      <3>2. Logged + 1 >= 1 /\ unread <= committed
        BY <1>1, <1>2, <1>5 DEF Dispatching
      <3>3. Right(entry)
        BY <1>4, <1>7, <3>2
      <3> QED
        BY <3>1, <3>3, Zenon
    <2>3. b \in 1..Len(log) \/ b = Len(log) + 1
      <3>1. b \in 1..(Len(log) + 1) /\ Len(log) \in Nat
        BY <1>9
      <3> QED
        BY <3>1
    <2> QED
      BY <2>1, <2>2, <2>3
  <1> QED
    BY <1>11, <1>12, <1>13, <1>16, <1>17, <1>18 DEF InteropInv
\* The battle sends: the input ring is not touched.
LEMMA InputKept ==
  ASSUME InteropInv,
         frame' = frame
         \/ (frame \in {"out", "read", "update", "write"} /\ frame' \in {"out", "read", "update", "write"}),
         UNCHANGED <<data, offset, messages, committed, unread, outcomes, log>>,
         head'["input"] = head["input"], tail'["input"] = tail["input"], cells'["input"] = cells["input"],
         writer'["input"] = writer["input"], seen'["input"] = seen["input"],
         sent'["input"] = sent["input"], received'["input"] = received["input"],
         host'["input"] = host["input"]
  PROVE  RingOK("input")' /\ Batch' /\ Framing' /\ Dispatching' /\ Explained'
  <1>1. RingOK("input")'
    <2>1. /\ Writing("input")' <=> Writing("input")
          /\ Reading("input")' => Reading("input")
          /\ Kept("input")' <=> Kept("input")
      BY DEF Writing, Reading, Kept
    <2> QED
      BY <2>1, RingNames, RingUntouched DEF InteropInv
  <1>2. Batch' /\ Framing' /\ Dispatching' /\ Explained'
    BY InputUntouched DEF InteropInv
  <1> QED
    BY <1>1, <1>2

\* The battle loads the positions of the output.
LEMMA OutputPrepareStep ==
  ASSUME InteropInv, OutputPrepare
  PROVE  InteropInv'
  <1>1. /\ head' = head /\ tail' = tail /\ cells' = cells /\ data' = data /\ offset' = offset /\ host' = host
        /\ seen' = seen /\ sent' = sent /\ received' = received /\ messages' = messages
        /\ committed' = committed /\ unread' = unread /\ outcomes' = outcomes /\ log' = log
        /\ frame = "update" /\ frame' = "write"
        /\ writer' = [writer EXCEPT !["output"].head = head["output"], !["output"].tail = tail["output"]]
    BY DEF OutputPrepare, PrepareWrite, ringVars, history
  <1>2. InteropTyped /\ RingOK("output")
    BY RingNames DEF InteropInv
  <1>3. /\ writer'["input"] = writer["input"]
        /\ writer'["output"].head = head["output"] /\ writer'["output"].tail = tail["output"]
        /\ writer'["output"].pending = writer["output"].pending
        /\ writer' \in [Rings -> [head : Positions, tail : Positions, pending : Seq(AllCells)]]
    BY <1>1, <1>2 DEF InteropTyped, Rings
  <1>4. InteropTyped'
    BY <1>1, <1>2, <1>3 DEF InteropTyped
  <1>5. RingOK("output")'
    <2>1. ~Writing("output") /\ Writing("output")' /\ (Reading("output")' => Reading("output"))
          /\ (Kept("output")' <=> Kept("output"))
      BY <1>1 DEF Writing, Reading, Kept
    <2> QED
      BY <1>1, <1>2, <1>3, <2>1, RingNames, RingPrepared
  <1>6. RingOK("input")' /\ Batch' /\ Framing' /\ Dispatching' /\ Explained'
    BY <1>1, <1>3, InputKept
  <1> QED
    BY <1>4, <1>5, <1>6, RingNames DEF InteropInv

\* The next message of the battle is made of cells.
LEMMA NextOutputFacts ==
  ASSUME InteropTyped, NextOutput <= MaxInput + MaxOutput
  PROVE  OutputFrame(NextOutput) \in Seq(AllCells)
  <1>1. Len(sent["output"]) \in Nat /\ Len(writer["output"].pending) \in Nat
    BY RingTyped, RingNames
  <1>2. PICK a \in Nat : a = Len(sent["output"])
    BY <1>1
  <1>3. PICK b \in Nat : b = Len(writer["output"].pending)
    BY <1>1
  <1>4. (a + b) \div 5 \in Nat
    OBVIOUS
  <1>5. PICK q \in Nat : q = (a + b) \div 5
    BY <1>4
  <1>6. NextOutput = MaxInput + 1 + q
    BY <1>2, <1>3, <1>5 DEF NextOutput, OutputSize
  <1>7. NextOutput \in 1..(MaxInput + MaxOutput)
    BY <1>6, MaxInputAssumption, MaxOutputAssumption
  <1> QED
    BY <1>7, OutputFrameFacts

\* It writes behind its local tail,
LEMMA OutputWriteStep ==
  ASSUME InteropInv, OutputWrite
  PROVE  InteropInv'
  <1>2. InteropTyped /\ RingOK("output")
    BY RingNames DEF InteropInv
  <1>a. PICK s : s = OutputFrame(NextOutput)
    OBVIOUS
  <1>1. /\ head' = head /\ tail' = tail /\ data' = data /\ offset' = offset /\ host' = host
        /\ seen' = seen /\ sent' = sent /\ received' = received /\ messages' = messages
        /\ committed' = committed /\ unread' = unread /\ outcomes' = outcomes /\ log' = log
        /\ frame = "write" /\ frame' = frame
        /\ NextOutput <= MaxInput + MaxOutput
        /\ Len(s) <= AvailableSpace(writer["output"].head, writer["output"].tail)
        /\ cells' = [cells EXCEPT !["output"] = CopyIn(@, writer["output"].tail, s)]
        /\ writer' = [writer EXCEPT !["output"].tail = (@ + Len(s)) % Capacity, !["output"].pending = @ \o s]
    BY <1>a DEF OutputWrite, DoWrite, history
  <1>b. s \in Seq(AllCells)
    BY <1>1, <1>2, <1>a, NextOutputFacts
  <1>3. /\ writer'["input"] = writer["input"] /\ cells'["input"] = cells["input"]
        /\ cells'["output"] = CopyIn(cells["output"], writer["output"].tail, s)
        /\ writer'["output"].head = writer["output"].head
        /\ writer'["output"].tail = (writer["output"].tail + Len(s)) % Capacity
        /\ writer'["output"].pending = writer["output"].pending \o s
    BY <1>1, <1>2 DEF InteropTyped, Rings
  <1>4. RingOK("output")' /\ writer'["output"].tail \in Positions
    <2>1. Writing("output") /\ Writing("output")' /\ (Reading("output")' => Reading("output"))
          /\ (Kept("output")' <=> Kept("output"))
      BY <1>1 DEF Writing, Reading, Kept
    <2> QED
      BY <1>1, <1>2, <1>3, <1>b, <2>1, RingNames, RingWritten
  <1>5. InteropTyped'
    <2>1. cells' \in [Rings -> [Positions -> AllCells \cup {Blank}]]
      <3>1. CopyIn(cells["output"], writer["output"].tail, s) \in [Positions -> AllCells \cup {Blank}]
        BY <1>2, <1>b, RingTyped, RingNames, CopyInDomain
      <3> QED
        BY <1>1, <1>2, <3>1, RingNames DEF InteropTyped
    <2>2. writer' \in [Rings -> [head : Positions, tail : Positions, pending : Seq(AllCells)]]
      <3>1. writer["output"].pending \o s \in Seq(AllCells)
        BY <1>2, <1>b, RingTyped, RingNames, CellsConcat
      <3> QED
        BY <1>1, <1>2, <1>3, <1>4, <3>1, RingNames DEF InteropTyped
    <2> QED
      BY <1>1, <1>2, <2>1, <2>2 DEF InteropTyped
  <1>6. RingOK("input")' /\ Batch' /\ Framing' /\ Dispatching' /\ Explained'
    BY <1>1, <1>3, InputKept
  <1> QED
    BY <1>4, <1>5, <1>6, RingNames DEF InteropInv
\* and makes all of it visible,
LEMMA OutputCommitStep ==
  ASSUME InteropInv, OutputCommit
  PROVE  InteropInv'
  <1>1. /\ head' = head /\ cells' = cells /\ data' = data /\ offset' = offset /\ host' = host
        /\ seen' = seen /\ received' = received /\ messages' = messages
        /\ committed' = committed /\ unread' = unread /\ outcomes' = outcomes /\ log' = log
        /\ frame = "write" /\ frame' = "update"
        /\ tail' = [tail EXCEPT !["output"] = writer["output"].tail]
        /\ sent' = [sent EXCEPT !["output"] = @ \o writer["output"].pending]
        /\ writer' = [writer EXCEPT !["output"] = NotWriting]
    BY DEF OutputCommit, CommitWrite
  <1>2. InteropTyped /\ RingOK("output")
    BY RingNames DEF InteropInv
  <1>3. /\ tail'["input"] = tail["input"] /\ sent'["input"] = sent["input"] /\ writer'["input"] = writer["input"]
        /\ tail'["output"] = writer["output"].tail /\ writer'["output"] = NotWriting
        /\ sent'["output"] = sent["output"] \o writer["output"].pending
    BY <1>1, <1>2 DEF InteropTyped, Rings
  <1>4. RingOK("output")'
    <2>1. Writing("output") /\ ~Writing("output")' /\ (Reading("output")' => Reading("output"))
          /\ (Kept("output")' <=> Kept("output"))
      BY <1>1 DEF Writing, Reading, Kept
    <2> QED
      BY <1>1, <1>2, <1>3, <2>1, RingNames, RingCommitted
  <1>5. InteropTyped'
    <2>1. writer["output"].tail \in Positions /\ sent["output"] \o writer["output"].pending \in Seq(AllCells)
      BY <1>2, RingTyped, RingNames, CellsConcat
    <2>2. tail' \in [Rings -> Positions] /\ sent' \in [Rings -> Seq(AllCells)]
      BY <1>1, <1>2, <2>1, RingNames DEF InteropTyped
    <2>3. NotWriting \in [head : Positions, tail : Positions, pending : Seq(AllCells)]
      BY CapacityFacts DEF NotWriting, Positions
    <2>4. writer' \in [Rings -> [head : Positions, tail : Positions, pending : Seq(AllCells)]]
      BY <1>1, <1>2, <2>3, RingNames DEF InteropTyped
    <2> QED
      BY <1>1, <1>2, <2>2, <2>4 DEF InteropTyped
  <1>6. RingOK("input")' /\ Batch' /\ Framing' /\ Dispatching' /\ Explained'
    BY <1>1, <1>3, InputKept
  <1> QED
    BY <1>4, <1>5, <1>6, RingNames DEF InteropInv

\* or none of it.
LEMMA OutputThrowStep ==
  ASSUME InteropInv, OutputThrow
  PROVE  InteropInv'
  <1>1. /\ head' = head /\ tail' = tail /\ cells' = cells /\ data' = data /\ offset' = offset /\ host' = host
        /\ seen' = seen /\ sent' = sent /\ received' = received /\ messages' = messages
        /\ committed' = committed /\ unread' = unread /\ outcomes' = outcomes /\ log' = log
        /\ frame = "write" /\ frame' = "out"
        /\ writer' = [writer EXCEPT !["output"] = NotWriting]
    BY DEF OutputThrow, Return, ringVars, history
  <1>2. InteropTyped /\ RingOK("output")
    BY RingNames DEF InteropInv
  <1>3. writer'["input"] = writer["input"] /\ writer'["output"] = NotWriting
    BY <1>1, <1>2 DEF InteropTyped, Rings
  <1>4. RingOK("output")'
    <2>1. ~Writing("output")' /\ (Reading("output")' => Reading("output")) /\ (Kept("output")' <=> Kept("output"))
      BY <1>1 DEF Writing, Reading, Kept
    <2> QED
      BY <1>1, <1>2, <1>3, <2>1, RingNames, RingAbandoned
  <1>5. InteropTyped'
    <2>1. NotWriting \in [head : Positions, tail : Positions, pending : Seq(AllCells)]
      BY CapacityFacts DEF NotWriting, Positions
    <2>2. writer' \in [Rings -> [head : Positions, tail : Positions, pending : Seq(AllCells)]]
      BY <1>1, <1>2, <2>1, RingNames DEF InteropTyped
    <2> QED
      BY <1>1, <1>2, <2>2 DEF InteropTyped
  <1>6. RingOK("input")' /\ Batch' /\ Framing' /\ Dispatching' /\ Explained'
    BY <1>1, <1>3, InputKept
  <1> QED
    BY <1>4, <1>5, <1>6, RingNames DEF InteropInv

\* Write does all that at once.
LEMMA WriteStep ==
  ASSUME InteropInv, Write
  PROVE  InteropInv'
  <1>2. InteropTyped /\ RingOK("output")
    BY RingNames DEF InteropInv
  <1>a. PICK s : s = OutputFrame(NextOutput)
    OBVIOUS
  <1>1. /\ head' = head /\ data' = data /\ offset' = offset /\ host' = host /\ writer' = writer
        /\ seen' = seen /\ received' = received /\ messages' = messages
        /\ committed' = committed /\ unread' = unread /\ outcomes' = outcomes /\ log' = log
        /\ frame = "update" /\ frame' = frame
        /\ NextOutput <= MaxInput + MaxOutput
        /\ Len(s) <= AvailableSpace(head["output"], tail["output"])
        /\ cells' = [cells EXCEPT !["output"] = CopyIn(@, tail["output"], s)]
        /\ tail' = [tail EXCEPT !["output"] = (@ + Len(s)) % Capacity]
        /\ sent' = [sent EXCEPT !["output"] = @ \o s]
    BY <1>a DEF Write, locals
  <1>b. s \in Seq(AllCells)
    BY <1>1, <1>2, <1>a, NextOutputFacts
  <1>3. /\ cells'["input"] = cells["input"] /\ tail'["input"] = tail["input"] /\ sent'["input"] = sent["input"]
        /\ cells'["output"] = CopyIn(cells["output"], tail["output"], s)
        /\ tail'["output"] = (tail["output"] + Len(s)) % Capacity
        /\ sent'["output"] = sent["output"] \o s
    BY <1>1, <1>2 DEF InteropTyped, Rings
  <1>4. RingOK("output")' /\ tail'["output"] \in Positions /\ sent'["output"] \in Seq(AllCells)
    <2>1. ~Writing("output") /\ ~Writing("output")' /\ (Reading("output")' => Reading("output"))
          /\ (Kept("output")' <=> Kept("output"))
      BY <1>1 DEF Writing, Reading, Kept
    <2> QED
      BY <1>1, <1>2, <1>3, <1>b, <2>1, RingNames, RingWrittenThrough
  <1>5. InteropTyped'
    <2>1. cells' \in [Rings -> [Positions -> AllCells \cup {Blank}]]
      <3>1. CopyIn(cells["output"], tail["output"], s) \in [Positions -> AllCells \cup {Blank}]
        BY <1>2, <1>b, RingTyped, RingNames, CopyInDomain
      <3> QED
        BY <1>1, <1>2, <3>1, RingNames DEF InteropTyped
    <2>2. tail' \in [Rings -> Positions] /\ sent' \in [Rings -> Seq(AllCells)]
      BY <1>1, <1>2, <1>3, <1>4, RingNames DEF InteropTyped
    <2> QED
      BY <1>1, <1>2, <2>1, <2>2 DEF InteropTyped
  <1>6. RingOK("input")' /\ Batch' /\ Framing' /\ Dispatching' /\ Explained'
    BY <1>1, <1>3, InputKept
  <1> QED
    BY <1>4, <1>5, <1>6, RingNames DEF InteropInv

-----------------------------------------------------------------------------
(* The steps of the host                                                   *)

\* The host loads the tail of the output,
LEMMA GetOutputStep ==
  ASSUME InteropInv, HGameBattle_GetOutputBufferState
  PROVE  InteropInv'
  <1>1. /\ head' = head /\ tail' = tail /\ cells' = cells /\ data' = data /\ offset' = offset /\ frame' = frame
        /\ writer' = writer /\ sent' = sent /\ received' = received /\ messages' = messages
        /\ committed' = committed /\ unread' = unread /\ outcomes' = outcomes /\ log' = log
        /\ host["output"] = "out"
        /\ seen' = [seen EXCEPT !["output"] = tail["output"]]
        /\ host' = [host EXCEPT !["output"] = "read"]
    BY DEF HGameBattle_GetOutputBufferState, ringVars, history
  <1>2. InteropTyped /\ RingOK("output")
    BY RingNames DEF InteropInv
  <1>3. /\ seen'["input"] = seen["input"] /\ host'["input"] = host["input"]
        /\ seen'["output"] = tail["output"] /\ host'["output"] = "read"
        /\ seen' \in [Rings -> Positions] /\ host' \in [Rings -> {"out", "write", "read", "commit"}]
    BY <1>1, <1>2 DEF InteropTyped, Rings
  <1>4. RingOK("output")'
    <2>1. ~Kept("output") /\ ~Kept("output")' /\ (Writing("output")' <=> Writing("output"))
      BY <1>1, <1>3 DEF Kept, Writing
    <2> QED
      BY <1>1, <1>2, <1>3, <2>1, RingNames, RingLoaded
  <1>5. InteropTyped'
    BY <1>1, <1>2, <1>3 DEF InteropTyped
  <1>6. RingOK("input")' /\ Batch' /\ Framing' /\ Dispatching' /\ Explained'
    BY <1>1, <1>3, InputKept
  <1> QED
    BY <1>4, <1>5, <1>6, RingNames DEF InteropInv

\* reads up to there,
LEMMA HostReadStep ==
  ASSUME InteropInv, HostRead
  PROVE  InteropInv'
  <1>1. /\ head' = head /\ tail' = tail /\ cells' = cells /\ data' = data /\ offset' = offset /\ frame' = frame
        /\ writer' = writer /\ seen' = seen /\ sent' = sent /\ messages' = messages
        /\ committed' = committed /\ unread' = unread /\ outcomes' = outcomes /\ log' = log
        /\ host["output"] = "read"
        /\ received' = [received EXCEPT !["output"] =
                            @ \o CopyOut(cells["output"], head["output"], seen["output"])]
        /\ host' = [host EXCEPT !["output"] = "commit"]
    BY DEF HostRead, ringVars
  <1>2. InteropTyped /\ RingOK("output")
    BY RingNames DEF InteropInv
  <1>3. /\ received'["input"] = received["input"] /\ host'["input"] = host["input"]
        /\ received'["output"] = received["output"] \o CopyOut(cells["output"], head["output"], seen["output"])
        /\ host'["output"] = "commit"
        /\ host' \in [Rings -> {"out", "write", "read", "commit"}]
    BY <1>1, <1>2 DEF InteropTyped, Rings
  <1>4. RingOK("output")' /\ received'["output"] \in Seq(AllCells)
    <2>1. Reading("output") /\ ~Kept("output") /\ Kept("output")' /\ (Writing("output")' <=> Writing("output"))
      BY <1>1, <1>3 DEF Kept, Writing, Reading
    <2> QED
      BY <1>1, <1>2, <1>3, <2>1, RingNames, RingTaken
  <1>5. InteropTyped'
    <2>1. received' \in [Rings -> Seq(AllCells)]
      BY <1>1, <1>2, <1>3, <1>4, RingNames DEF InteropTyped
    <2> QED
      BY <1>1, <1>2, <1>3, <2>1 DEF InteropTyped
  <1>6. RingOK("input")' /\ Batch' /\ Framing' /\ Dispatching' /\ Explained'
    BY <1>1, <1>3, InputKept
  <1> QED
    BY <1>4, <1>5, <1>6, RingNames DEF InteropInv

\* and gives the space back.
LEMMA CommitOutputStep ==
  ASSUME InteropInv, HGameBattle_CommitOutputRead
  PROVE  InteropInv'
  <1>1. /\ tail' = tail /\ cells' = cells /\ data' = data /\ offset' = offset /\ frame' = frame
        /\ writer' = writer /\ seen' = seen /\ sent' = sent /\ received' = received /\ messages' = messages
        /\ committed' = committed /\ unread' = unread /\ outcomes' = outcomes /\ log' = log
        /\ host["output"] = "commit"
        /\ head' = [head EXCEPT !["output"] = seen["output"]]
        /\ host' = [host EXCEPT !["output"] = "out"]
    BY DEF HGameBattle_CommitOutputRead, CommitRead, history
  <1>2. InteropTyped /\ RingOK("output")
    BY RingNames DEF InteropInv
  <1>3. /\ head'["input"] = head["input"] /\ host'["input"] = host["input"]
        /\ head'["output"] = seen["output"] /\ host'["output"] = "out"
        /\ head' \in [Rings -> Positions]
        /\ host' \in [Rings -> {"out", "write", "read", "commit"}]
    BY <1>1, <1>2 DEF InteropTyped, Rings
  <1>4. RingOK("output")'
    <2>1. Reading("output") /\ ~Reading("output")' /\ (Writing("output")' <=> Writing("output"))
          /\ Kept("output") /\ ~Kept("output")'
      BY <1>1, <1>3 DEF Kept, Writing, Reading
    <2>2. PICK n \in Nat : n = DataSize(head["output"], seen["output"])
      BY <1>2, RingTyped, RingNames
    <2>3. PICK all \in Nat : all = Len(received["output"])
      BY <1>2, RingTyped, RingNames
    <2>4. Returned("output") = all - n /\ Returned("output")' = all - 0
      BY <1>1, <2>1, <2>2, <2>3 DEF Returned
    <2>5. Returned("output")' = Returned("output") + DataSize(head["output"], seen["output"])
      BY <2>2, <2>4
    <2>6. /\ Len(received'["output"]) <= Len(sent["output"])
          /\ \A k \in 1..Len(received'["output"]) : received'["output"][k] = sent["output"][k]
      BY <1>1, <1>2 DEF RingOK
    <2> QED
      BY <1>1, <1>2, <1>3, <2>1, <2>5, <2>6, RingNames, RingGivenBack
  <1>5. InteropTyped'
    BY <1>1, <1>2, <1>3 DEF InteropTyped
  <1>6. RingOK("input")' /\ Batch' /\ Framing' /\ Dispatching' /\ Explained'
    BY <1>1, <1>3, InputKept
  <1> QED
    BY <1>4, <1>5, <1>6, RingNames DEF InteropInv
\* The host sends: the output ring is not touched.
LEMMA OutputKept ==
  ASSUME InteropInv, frame' = frame,
         head'["output"] = head["output"], tail'["output"] = tail["output"], cells'["output"] = cells["output"],
         writer'["output"] = writer["output"], seen'["output"] = seen["output"],
         sent'["output"] = sent["output"], received'["output"] = received["output"],
         host'["output"] = host["output"]
  PROVE  RingOK("output")'
  <1>1. /\ Writing("output")' <=> Writing("output")
        /\ Reading("output")' => Reading("output")
        /\ Kept("output")' <=> Kept("output")
    BY DEF Writing, Reading, Kept
  <1> QED
    BY <1>1, RingNames, RingUntouched DEF InteropInv

\* The host loads the positions of the input,
LEMMA GetInputStep ==
  ASSUME InteropInv, HGameBattle_GetInputBufferState
  PROVE  InteropInv'
  <1>1. /\ head' = head /\ tail' = tail /\ cells' = cells /\ data' = data /\ offset' = offset /\ frame' = frame
        /\ seen' = seen /\ sent' = sent /\ received' = received /\ messages' = messages
        /\ committed' = committed /\ unread' = unread /\ outcomes' = outcomes /\ log' = log
        /\ host["input"] = "out" /\ host' = [host EXCEPT !["input"] = "write"]
        /\ writer' = [writer EXCEPT !["input"].head = head["input"], !["input"].tail = tail["input"]]
    BY DEF HGameBattle_GetInputBufferState, PrepareWrite, ringVars, history
  <1>2. InteropTyped /\ RingOK("input")
    BY RingNames DEF InteropInv
  <1>3. /\ writer'["output"] = writer["output"] /\ host'["output"] = host["output"] /\ host'["input"] = "write"
        /\ writer'["input"].head = head["input"] /\ writer'["input"].tail = tail["input"]
        /\ writer'["input"].pending = writer["input"].pending
        /\ writer' \in [Rings -> [head : Positions, tail : Positions, pending : Seq(AllCells)]]
        /\ host' \in [Rings -> {"out", "write", "read", "commit"}]
    BY <1>1, <1>2 DEF InteropTyped, Rings
  <1>4. InteropTyped'
    BY <1>1, <1>2, <1>3 DEF InteropTyped
  <1>5. RingOK("input")'
    <2>1. ~Writing("input") /\ Writing("input")' /\ (Reading("input")' => Reading("input"))
          /\ (Kept("input")' <=> Kept("input"))
      BY <1>1, <1>3 DEF Writing, Reading, Kept
    <2> QED
      BY <1>1, <1>2, <1>3, <2>1, RingNames, RingPrepared
  <1>6. RingOK("output")'
    BY <1>1, <1>3, OutputKept
  <1>7. Batch' /\ Framing' /\ Dispatching' /\ Explained'
    BY <1>1, <1>3, InputUntouched DEF InteropInv
  <1> QED
    BY <1>4, <1>5, <1>6, <1>7, RingNames DEF InteropInv

\* A further message follows those that are there.
LEMMA FurtherMessage ==
  ASSUME InteropInv, NEW kind \in Kinds, NEW s, s = Frame(kind, Len(messages) + 1),
         Len(messages) < MaxInput, host'["input"] = "write",
         Stream("input")' = Stream("input") \o s, sent' = sent, committed' = committed,
         messages' = Append(messages, [kind |-> kind, start |-> Len(Stream("input"))])
  PROVE  /\ Framing'
         /\ messages' \in Seq([kind : Kinds, start : Nat])
         /\ \A k \in 1..(Len(messages) + 1) : StartOf(k)' = StartOf(k)
         /\ \A k \in 1..Len(messages) : messages'[k] = messages[k]
  <1>1. InteropTyped /\ Framing
    BY DEF InteropInv
  <1>2. Len(messages) \in Nat /\ committed \in Nat /\ messages \in Seq([kind : Kinds, start : Nat])
    BY <1>1, LoggedFacts DEF InteropTyped
  <1>3. PICK n \in Nat : n = Len(messages)
    BY <1>2
  <1>4. Stream("input") \in Seq(AllCells)
    BY <1>1, RingTyped, RingNames
  <1>5. PICK all \in Nat : all = Len(Stream("input"))
    BY <1>4
  <1>6. n + 1 \in 1..MaxInput
    BY <1>3, MaxInputAssumption
  <1>7. /\ s \in Seq(AllCells) /\ Len(s) = 2 + BodySize[kind]
        /\ \A i \in 1..(2 + BodySize[kind]) : s[i] = Cell(kind, n + 1, i)
    BY <1>3, <1>6, FrameFacts
  <1>8. PICK width \in 2..4 : width = 2 + BodySize[kind]
    BY BodySizes
  <1>9. /\ Len(Stream("input")') = all + width
        /\ \A k \in 1..all : Stream("input")'[k] = Stream("input")[k]
        /\ \A i \in 1..width : Stream("input")'[all + i] = Cell(kind, n + 1, i)
    <2>1. /\ Len(Stream("input") \o s) = Len(Stream("input")) + Len(s)
          /\ \A k \in 1..Len(Stream("input")) : (Stream("input") \o s)[k] = Stream("input")[k]
          /\ \A i \in 1..Len(s) : (Stream("input") \o s)[Len(Stream("input")) + i] = s[i]
      BY <1>4, <1>7, CellsConcat
    <2>2. Len(s) = width /\ \A i \in 1..width : s[i] = Cell(kind, n + 1, i)
      BY <1>7, <1>8
    <2> QED
      BY <1>5, <2>1, <2>2
  <1>10. PICK entry : entry = [kind |-> kind, start |-> all]
    OBVIOUS
  <1>11. entry \in [kind : Kinds, start : Nat] /\ entry.kind = kind /\ entry.start = all
         /\ messages' = Append(messages, entry)
    BY <1>5, <1>10
  <1>12. /\ messages' \in Seq([kind : Kinds, start : Nat]) /\ Len(messages') = n + 1
         /\ \A k \in 1..n : messages'[k] = messages[k]
         /\ messages'[n + 1] = entry
    <2> DEFINE R == [kind : Kinds, start : Nat]
    <2>1. entry \in R /\ messages \in Seq(R) /\ messages' = Append(messages, entry) /\ n = Len(messages)
      BY <1>2, <1>3, <1>11
    <2> HIDE DEF R
    <2>2. /\ messages' \in Seq(R) /\ Len(messages') = n + 1
          /\ \A k \in 1..n : messages'[k] = messages[k]
          /\ messages'[n + 1] = entry
      BY <2>1
    <2> QED
      BY <2>2 DEF R
  <1>13. \A k \in 1..n : StartOf(k)' = StartOf(k) /\ FrameSize(k)' = FrameSize(k) /\ FrameSize(k) \in 2..4
                         /\ StartOf(k) \in Nat
    <2> SUFFICES ASSUME NEW k \in 1..n
                 PROVE  StartOf(k)' = StartOf(k) /\ FrameSize(k)' = FrameSize(k) /\ FrameSize(k) \in 2..4
                        /\ StartOf(k) \in Nat
      OBVIOUS
    <2>1. k \in 1..(Len(messages) + 1) /\ k <= Len(messages) /\ k <= Len(messages')
      BY <1>3, <1>12
    <2>2. StartOf(k)' = messages'[k].start /\ StartOf(k) = messages[k].start
      BY <2>1 DEF StartOf
    <2>3. FrameSize(k)' = 2 + BodySize[messages'[k].kind] /\ FrameSize(k) = 2 + BodySize[messages[k].kind]
      BY DEF FrameSize
    <2>4. messages'[k] = messages[k]
      BY <1>12
    <2>5. FrameSize(k) \in 2..4 /\ StartOf(k) \in Nat
      BY <1>1, <2>1, StartFacts
    <2> QED
      BY <2>2, <2>3, <2>4, <2>5
  <1>14. StartOf(n + 1)' = all /\ StartOf(n + 1) = all /\ FrameSize(n + 1)' = width
    <2>1. StartOf(n + 1)' = messages'[n + 1].start
      BY <1>12 DEF StartOf
    <2>2. StartOf(n + 1) = Len(Stream("input"))
      BY <1>3 DEF StartOf
    <2> QED
      BY <1>5, <1>8, <1>11, <1>12, <2>1, <2>2 DEF FrameSize
  <1>15. StartOf(n + 2)' = all + width
    <2>1. ~(n + 2 <= Len(messages'))
      BY <1>12
    <2> QED
      BY <1>9, <2>1 DEF StartOf
  <1>16. \A k \in 1..(n + 1) : StartOf(k)' = StartOf(k)
    <2>1. \A k \in 1..(n + 1) : k \in 1..n \/ k = n + 1
      OBVIOUS
    <2> QED
      BY <1>13, <1>14, <2>1
  <1>17. Framing'
    <2>1. Len(messages') <= MaxInput /\ committed' <= Len(messages') /\ ~(host'["input"] # "write")
      <3>1. committed <= n
        BY <1>1, <1>3 DEF Framing
      <3> QED
        BY <1>2, <1>6, <1>12, <3>1, MaxInputAssumption
    <2>2. StartOf(1)' = 0
      <3>1. StartOf(1) = 0 /\ 1 \in 1..(n + 1)
        BY <1>1 DEF Framing
      <3> QED
        BY <1>16, <3>1
    <2>3. ASSUME NEW k \in 1..(n + 1) PROVE StartOf(k + 1)' = StartOf(k)' + FrameSize(k)'
      <3>1. CASE k \in 1..n
        <4>1. StartOf(k + 1) = StartOf(k) + FrameSize(k)
          BY <1>1, <1>3, <3>1 DEF Framing
        <4>2. k + 1 \in 1..(n + 1) /\ k \in 1..(n + 1)
          BY <3>1
        <4> QED
          BY <1>13, <1>16, <3>1, <4>1, <4>2
      <3>2. CASE k = n + 1
        <4>1. n + 1 + 1 = n + 2
          OBVIOUS
        <4> QED
          BY <1>14, <1>15, <3>2, <4>1
      <3> QED
        BY <3>1, <3>2
    <2>4. ASSUME NEW k \in 1..(n + 2), NEW l \in 1..(n + 2), k < l
          PROVE  StartOf(k)' + FrameSize(k)' <= StartOf(l)'
      <3>1. (k \in 1..n /\ l \in 1..(n + 1)) \/ (k \in 1..n /\ l = n + 2) \/ (k = n + 1 /\ l = n + 2)
        <4>1. n \in Nat
          BY <1>3
        <4>2. k \in Nat /\ l \in Nat /\ 1 <= k /\ k < l /\ l <= n + 2
          BY <2>4, <4>1
        <4>3. CASE l <= n + 1
          BY <4>1, <4>2, <4>3
        <4>4. CASE l = n + 2
          BY <4>1, <4>2, <4>4
        <4> QED
          BY <4>1, <4>2, <4>3, <4>4
      <3>2. CASE k \in 1..n /\ l \in 1..(n + 1)
        <4>1. StartOf(k) + FrameSize(k) <= StartOf(l)
          <5>1. k \in 1..(Len(messages) + 1) /\ l \in 1..(Len(messages) + 1)
            BY <1>3, <3>2
          <5> QED
            BY <1>1, <2>4, <5>1 DEF Framing
        <4> QED
          BY <1>13, <1>16, <3>2, <4>1
      <3>3. CASE k \in 1..n /\ l = n + 2
        <4>1. StartOf(k) + FrameSize(k) <= StartOf(n + 1)
          <5>1. k \in 1..(Len(messages) + 1) /\ n + 1 \in 1..(Len(messages) + 1) /\ k < n + 1
            BY <1>3, <3>3
          <5> QED
            BY <1>1, <5>1 DEF Framing
        <4>2. StartOf(k) \in Nat /\ FrameSize(k) \in Nat /\ StartOf(k)' = StartOf(k) /\ FrameSize(k)' = FrameSize(k)
          BY <1>13, <3>3
        <4>3. StartOf(l)' = all + width /\ StartOf(n + 1) = all
          BY <1>14, <1>15, <3>3
        <4> QED
          BY <1>8, <4>1, <4>2, <4>3
      <3>4. CASE k = n + 1 /\ l = n + 2
        <4>1. all + width <= all + width
          OBVIOUS
        <4> QED
          BY <1>14, <1>15, <3>4, <4>1
      <3> QED
        BY <3>1, <3>2, <3>3, <3>4
    <2>5. ASSUME NEW k \in 1..(n + 1), NEW i \in 1..FrameSize(k)'
          PROVE  Stream("input")'[StartOf(k)' + i] = Cell(messages'[k].kind, k, i)
      <3>1. CASE k \in 1..n
        <4>1. i \in 1..FrameSize(k)
          BY <1>13, <3>1
        <4>2. Stream("input")[StartOf(k) + i] = Cell(messages[k].kind, k, i)
          BY <1>1, <1>3, <3>1, <4>1 DEF Framing
        <4>3. StartOf(k) + FrameSize(k) <= all
          <5>1. k \in 1..(Len(messages) + 1) /\ n + 1 \in 1..(Len(messages) + 1) /\ k < n + 1
            BY <1>3, <3>1
          <5>2. StartOf(k) + FrameSize(k) <= StartOf(n + 1)
            BY <1>1, <5>1 DEF Framing
          <5> QED
            BY <1>14, <5>2
        <4>4. StartOf(k) \in Nat /\ FrameSize(k) \in Nat
          <5>1. StartOf(k) \in Nat /\ FrameSize(k) \in 2..4
            BY <1>13, <3>1
          <5> QED
            BY <5>1
        <4>5. StartOf(k) + i \in 1..all
          BY <4>1, <4>3, <4>4
        <4>6. StartOf(k)' = StartOf(k) /\ messages'[k] = messages[k]
          BY <1>12, <1>13, <3>1
        <4> QED
          BY <1>9, <4>2, <4>5, <4>6
      <3>2. CASE k = n + 1
        <4>1. i \in 1..width /\ StartOf(k)' = all /\ messages'[k].kind = kind
          BY <1>11, <1>12, <1>14, <3>2
        <4> QED
          BY <1>9, <3>2, <4>1
      <3>3. k \in 1..n \/ k = n + 1
        BY <1>3
      <3> QED
        BY <3>1, <3>2, <3>3
    <2>6. StartOf(committed + 1)' = Len(sent["input"])'
      <3>1. committed + 1 \in 1..(n + 1) /\ StartOf(committed + 1) = Len(sent["input"])
        BY <1>1, <1>2, <1>3 DEF Framing
      <3>2. StartOf(committed + 1)' = StartOf(committed + 1)
        BY <1>16, <3>1
      <3> QED
        BY <3>1, <3>2
    <2>7. Len(messages') = n + 1 /\ n + 1 + 1 = n + 2
      BY <1>12
    <2>8. \A k \in 1..Len(messages') : StartOf(k + 1)' = StartOf(k)' + FrameSize(k)'
      BY <2>3, <2>7
    <2>9. \A k, l \in 1..(Len(messages') + 1) : k < l => StartOf(k)' + FrameSize(k)' <= StartOf(l)'
      BY <2>4, <2>7
    <2>10. \A k \in 1..Len(messages') : \A i \in 1..FrameSize(k)' :
              Stream("input")'[StartOf(k)' + i] = Cell(messages'[k].kind, k, i)
      BY <2>5, <2>7
    <2> QED
      BY <2>1, <2>2, <2>6, <2>8, <2>9, <2>10 DEF Framing
  <1> QED
    BY <1>3, <1>12, <1>16, <1>17
\* writes a message behind its local tail,
LEMMA HostWriteStep ==
  ASSUME InteropInv, HostWrite
  PROVE  InteropInv'
  <1>1. PICK kind \in Kinds :
          /\ DoWrite("input", Frame(kind, Len(messages) + 1))
          /\ messages' = Append(messages,
                 [kind |-> kind, start |-> Len(sent["input"]) + Len(writer["input"].pending)])
    BY DEF HostWrite
  <1>a. PICK s : s = Frame(kind, Len(messages) + 1)
    OBVIOUS
  <1>2. /\ head' = head /\ tail' = tail /\ data' = data /\ offset' = offset /\ host' = host /\ frame' = frame
        /\ seen' = seen /\ sent' = sent /\ received' = received
        /\ committed' = committed /\ unread' = unread /\ outcomes' = outcomes /\ log' = log
        /\ host["input"] = "write" /\ Len(messages) < MaxInput
        /\ Len(s) <= AvailableSpace(writer["input"].head, writer["input"].tail)
        /\ cells' = [cells EXCEPT !["input"] = CopyIn(@, writer["input"].tail, s)]
        /\ writer' = [writer EXCEPT !["input"].tail = (@ + Len(s)) % Capacity, !["input"].pending = @ \o s]
    BY <1>1, <1>a DEF HostWrite, DoWrite
  <1>3. /\ InteropTyped /\ RingOK("input") /\ Batch /\ Framing /\ Dispatching /\ Explained
    BY RingNames DEF InteropInv
  <1>4. s \in Seq(AllCells)
    <2>1. Len(messages) \in Nat
      BY <1>3, LoggedFacts
    <2>2. Len(messages) + 1 \in 1..MaxInput
      BY <1>2, <2>1, MaxInputAssumption
    <2> QED
      BY <1>a, <2>2, FrameFacts
  <1>5. /\ writer'["output"] = writer["output"] /\ cells'["output"] = cells["output"]
        /\ cells'["input"] = CopyIn(cells["input"], writer["input"].tail, s)
        /\ writer'["input"].head = writer["input"].head
        /\ writer'["input"].tail = (writer["input"].tail + Len(s)) % Capacity
        /\ writer'["input"].pending = writer["input"].pending \o s
    BY <1>2, <1>3 DEF InteropTyped, Rings
  <1>6. RingOK("input")' /\ Stream("input")' = Stream("input") \o s /\ writer'["input"].tail \in Positions
    <2>1. Writing("input") /\ Writing("input")' /\ (Reading("input")' => Reading("input"))
          /\ (Kept("input")' <=> Kept("input"))
      BY <1>2 DEF Writing, Reading, Kept
    <2> QED
      BY <1>2, <1>3, <1>4, <1>5, <2>1, RingNames, RingWritten
  <1>7. RingOK("output")'
    BY <1>2, <1>5, OutputKept
  <1>8. /\ Framing'
        /\ messages' \in Seq([kind : Kinds, start : Nat])
        /\ \A k \in 1..(Len(messages) + 1) : StartOf(k)' = StartOf(k)
        /\ \A k \in 1..Len(messages) : messages'[k] = messages[k]
    <2>1. Len(Stream("input")) = Len(sent["input"]) + Len(writer["input"].pending)
      BY <1>3, RingTyped, RingNames
    <2>2. messages' = Append(messages, [kind |-> kind, start |-> Len(Stream("input"))])
      BY <1>1, <2>1
    <2>3. host'["input"] = "write"
      BY <1>2
    <2> QED
      BY <1>1, <1>a, <1>2, <1>6, <2>2, <2>3, FurtherMessage
  <1>9. InteropTyped'
    <2>1. cells' \in [Rings -> [Positions -> AllCells \cup {Blank}]]
      <3>1. CopyIn(cells["input"], writer["input"].tail, s) \in [Positions -> AllCells \cup {Blank}]
        BY <1>3, <1>4, RingTyped, RingNames, CopyInDomain
      <3> QED
        BY <1>2, <1>3, <3>1, RingNames DEF InteropTyped
    <2>2. writer' \in [Rings -> [head : Positions, tail : Positions, pending : Seq(AllCells)]]
      <3>1. writer["input"].pending \o s \in Seq(AllCells)
        BY <1>3, <1>4, RingTyped, RingNames, CellsConcat
      <3> QED
        BY <1>2, <1>3, <1>5, <1>6, <3>1, RingNames DEF InteropTyped
    <2> QED
      BY <1>2, <1>3, <1>8, <2>1, <2>2 DEF InteropTyped
  <1>10. Batch'
    BY <1>2, <1>3 DEF Batch
  <1>11. /\ Logged \in Nat /\ Len(outcomes) \in Nat /\ Len(messages) \in Nat /\ committed \in Nat /\ unread \in Nat
         /\ committed <= Len(messages) /\ Logged <= committed
    BY <1>3, LoggedFacts DEF InteropTyped, Framing, Dispatching
  <1>12. PICK n \in Nat : n = Len(messages)
    BY <1>11
  <1>13. Dispatching'
    <2>1. Logged' = Logged /\ Turn' = Turn
      BY <1>2 DEF Logged, Turn
    <2>2. StartOf(Logged + 1)' = StartOf(Logged + 1)
      <3>1. Logged + 1 \in 1..(n + 1)
        BY <1>11, <1>12
      <3> QED
        BY <1>8, <1>12, <2>1, <3>1
    <2>3. CASE frame \notin {"copy", "store", "dispatch"}
      BY <1>2, <1>3, <2>1, <2>2, <2>3 DEF Dispatching
    <2>4. CASE frame \in {"copy", "store", "dispatch"}
      <3>1. unread <= committed
        BY <1>3, <2>4 DEF Dispatching
      <3>2. unread + 1 \in 1..(n + 1)
        BY <1>11, <1>12, <3>1
      <3>3. StartOf(unread + 1)' = StartOf(unread + 1)
        BY <1>2, <1>8, <1>12, <3>2
      <3>4. CASE frame # "dispatch"
        BY <1>2, <1>3, <2>1, <2>2, <3>3, <3>4 DEF Dispatching
      <3>5. CASE frame = "dispatch"
        <4>1. Turn <= unread + 1 /\ \A k \in 1..Len(outcomes) : outcomes[k] = messages[Logged + k].kind
          BY <1>3, <3>5 DEF Dispatching
        <4>2. Turn \in 1..(n + 1) /\ \A k \in 1..Len(outcomes) : Logged + k \in 1..n
          BY <1>11, <1>12, <3>1, <4>1 DEF Turn
        <4>3. StartOf(Turn)' = StartOf(Turn)
          BY <1>8, <1>12, <2>1, <4>2
        <4>4. \A k \in 1..Len(outcomes) : outcomes[k] = messages'[Logged + k].kind
          BY <1>8, <1>12, <4>1, <4>2
        <4> QED
          BY <1>2, <1>3, <2>1, <3>3, <3>5, <4>3, <4>4 DEF Dispatching
      <3> QED
        BY <3>4, <3>5
    <2> QED
      BY <2>3, <2>4
  <1>14. Explained'
    <2> SUFFICES ASSUME NEW b \in 1..Len(log)
                 PROVE  \A k \in 1..Len(log[b].outcomes) :
                            log[b].outcomes[k] = messages'[log[b].first + k - 1].kind
      BY <1>2, <1>3 DEF Explained
    <2>0. PICK e : e = log[b]
      OBVIOUS
    <2> SUFFICES ASSUME NEW k \in 1..Len(e.outcomes)
                 PROVE  messages'[e.first + k - 1] = messages[e.first + k - 1]
      <3>1. \A k \in 1..Len(log[b].outcomes) : log[b].outcomes[k] = messages[log[b].first + k - 1].kind
        BY <1>3 DEF Explained
      <3> QED
        BY <2>0, <3>1
    <2>1. e \in [first : Nat, last : Nat, outcomes : Seq(Outcomes)]
      <3>1. log \in Seq([first : Nat, last : Nat, outcomes : Seq(Outcomes)])
        BY <1>3 DEF InteropTyped
      <3> QED
        BY <2>0, <3>1, ElementFacts, Zenon
    <2>2. e.first \in Nat /\ e.last \in Nat /\ e.outcomes \in Seq(Outcomes)
      BY <2>1
    <2>3. PICK count \in Nat : count = Len(e.outcomes)
      BY <2>2
    <2>4. e.first >= 1 /\ e.last <= committed /\ e.first + count - 1 <= e.last
      BY <1>3, <2>0, <2>3 DEF Explained
    <2>5. k \in 1..count
      BY <2>3
    <2>6. e.first + k - 1 \in 1..n
      BY <1>11, <1>12, <2>2, <2>4, <2>5
    <2> QED
      BY <1>8, <1>12, <2>6
  <1> QED
    BY <1>6, <1>7, <1>8, <1>9, <1>10, <1>13, <1>14, RingNames DEF InteropInv

\* and makes all it has written visible.
LEMMA CommitInputStep ==
  ASSUME InteropInv, HGameBattle_CommitInputWrite
  PROVE  InteropInv'
  <1>1. /\ head' = head /\ cells' = cells /\ data' = data /\ offset' = offset /\ frame' = frame
        /\ seen' = seen /\ received' = received /\ messages' = messages
        /\ unread' = unread /\ outcomes' = outcomes /\ log' = log
        /\ host["input"] = "write" /\ host' = [host EXCEPT !["input"] = "out"]
        /\ committed' = Len(messages)
        /\ tail' = [tail EXCEPT !["input"] = writer["input"].tail]
        /\ sent' = [sent EXCEPT !["input"] = @ \o writer["input"].pending]
        /\ writer' = [writer EXCEPT !["input"] = NotWriting]
    BY DEF HGameBattle_CommitInputWrite, CommitWrite
  <1>2. /\ InteropTyped /\ RingOK("input") /\ Batch /\ Framing /\ Dispatching /\ Explained
    BY RingNames DEF InteropInv
  <1>3. /\ tail'["output"] = tail["output"] /\ sent'["output"] = sent["output"] /\ writer'["output"] = writer["output"]
        /\ host'["output"] = host["output"] /\ host'["input"] = "out"
        /\ tail'["input"] = writer["input"].tail /\ writer'["input"] = NotWriting
        /\ sent'["input"] = sent["input"] \o writer["input"].pending
        /\ host' \in [Rings -> {"out", "write", "read", "commit"}]
    BY <1>1, <1>2 DEF InteropTyped, Rings
  <1>4. RingOK("input")' /\ Stream("input")' = Stream("input") /\ sent'["input"] = Stream("input")
    <2>1. Writing("input") /\ ~Writing("input")' /\ (Reading("input")' => Reading("input"))
          /\ (Kept("input")' <=> Kept("input"))
      BY <1>1, <1>3 DEF Writing, Reading, Kept
    <2> QED
      BY <1>1, <1>2, <1>3, <2>1, RingNames, RingCommitted
  <1>5. RingOK("output")'
    BY <1>1, <1>3, OutputKept
  <1>6. Len(messages) \in Nat /\ committed \in Nat /\ committed <= Len(messages)
    BY <1>2, LoggedFacts DEF InteropTyped, Framing
  <1>7. InteropTyped'
    <2>1. writer["input"].tail \in Positions /\ sent["input"] \o writer["input"].pending \in Seq(AllCells)
      BY <1>2, RingTyped, RingNames, CellsConcat
    <2>2. tail' \in [Rings -> Positions] /\ sent' \in [Rings -> Seq(AllCells)]
      BY <1>1, <1>2, <2>1, RingNames DEF InteropTyped
    <2>3. NotWriting \in [head : Positions, tail : Positions, pending : Seq(AllCells)]
      BY CapacityFacts DEF NotWriting, Positions
    <2>4. writer' \in [Rings -> [head : Positions, tail : Positions, pending : Seq(AllCells)]]
      BY <1>1, <1>2, <2>3, RingNames DEF InteropTyped
    <2> QED
      BY <1>1, <1>2, <1>3, <1>6, <2>2, <2>4 DEF InteropTyped
  <1>8. PICK all \in Nat : all = Len(sent["input"])
    BY <1>2, RingTyped, RingNames
  <1>9. PICK taken \in Nat : taken = Len(received["input"])
    BY <1>2, RingTyped, RingNames
  <1>10. taken <= all /\ \A k \in 1..all : sent'["input"][k] = sent["input"][k]
    <2>1. sent["input"] \in Seq(AllCells) /\ writer["input"].pending \in Seq(AllCells)
      BY <1>2, RingTyped, RingNames
    <2>2. \A k \in 1..Len(sent["input"]) : (sent["input"] \o writer["input"].pending)[k] = sent["input"][k]
      BY <2>1, CellsConcat
    <2>3. taken <= all
      BY <1>2, <1>8, <1>9 DEF RingOK
    <2> QED
      BY <1>3, <1>8, <2>2, <2>3
  <1>11. Batch'
    <2>1. PICK n \in Nat : n = Len(data)
      BY <1>2, LoggedFacts
    <2>2. CASE frame = "store"
      <3>1. n = DataSize(head["input"], seen["input"]) /\ \A k \in 1..n : data[k] = sent["input"][taken + k]
        BY <1>2, <1>9, <2>1, <2>2 DEF Batch
      <3>2. taken + n <= all
        <4>1. PICK m \in Nat : m = DataSize(head["input"], tail["input"])
          BY <1>2, RingTyped, RingNames
        <4>2. n <= m
          BY <1>2, <2>2, <3>1, <4>1 DEF RingOK, Reading
        <4>3. Returned("input") = taken - 0
          BY <1>9 DEF Returned, Kept
        <4>4. all = Returned("input") + m
          BY <1>2, <1>8, <4>1 DEF RingOK
        <4> QED
          BY <1>9, <4>2, <4>3, <4>4
      <3>3. \A k \in 1..n : taken + k \in 1..all
        BY <1>8, <1>9, <2>1, <3>2
      <3>4. \A k \in 1..n : data[k] = sent'["input"][taken + k]
        BY <1>10, <3>1, <3>3
      <3> QED
        BY <1>1, <1>2, <1>9, <2>1, <2>2, <3>4 DEF Batch
    <2>3. CASE frame = "dispatch"
      <3>1. n <= taken /\ \A k \in 1..n : data[k] = sent["input"][taken - n + k]
        BY <1>2, <1>9, <2>1, <2>3 DEF Batch
      <3>2. \A k \in 1..n : taken - n + k \in 1..all
        BY <1>8, <1>9, <1>10, <2>1, <3>1
      <3>3. \A k \in 1..n : data[k] = sent'["input"][taken - n + k]
        BY <1>10, <3>1, <3>2
      <3> QED
        BY <1>1, <1>2, <1>9, <2>1, <2>3, <3>3 DEF Batch
    <2>4. CASE frame \notin {"store", "dispatch"}
      BY <1>1, <1>2, <2>4 DEF Batch
    <2> QED
      BY <2>2, <2>3, <2>4
  <1>12. Logged' = Logged /\ Turn' = Turn /\ \A k : StartOf(k)' = StartOf(k) /\ FrameSize(k)' = FrameSize(k)
    BY <1>1, <1>4 DEF Logged, Turn, StartOf, FrameSize
  <1>13. Framing'
    <2>1. StartOf(committed + 1)' = Len(Stream("input"))
      <3>1. ~(committed' + 1 <= Len(messages'))
        BY <1>1, <1>6
      <3> QED
        BY <1>4, <3>1 DEF StartOf
    <2>2. committed' <= Len(messages') /\ committed' = Len(messages')
      BY <1>1, <1>6
    <2> QED
      BY <1>1, <1>2, <1>4, <1>12, <2>1, <2>2 DEF Framing
  <1>14. Dispatching'
    <2>1. /\ StartOf(Turn)' = StartOf(Turn) /\ StartOf(unread + 1)' = StartOf(unread + 1)
          /\ StartOf(Logged + 1)' = StartOf(Logged + 1)
      BY <1>1, <1>4, <1>12 DEF StartOf
    <2>2. Logged \in Nat /\ unread \in Nat
      BY <1>2, LoggedFacts DEF InteropTyped
    <2>3. (Logged <= committed => Logged <= committed') /\ (unread <= committed => unread <= committed')
      BY <1>1, <1>6, <2>2
    <2> QED
      BY <1>1, <1>2, <1>12, <2>1, <2>3 DEF Dispatching
  <1>15. Explained'
    <2> SUFFICES ASSUME NEW b \in 1..Len(log), log[b].last <= committed PROVE log[b].last <= committed'
      BY <1>1, <1>2 DEF Explained
    <2>1. log[b] \in [first : Nat, last : Nat, outcomes : Seq(Outcomes)]
      <3>1. log \in Seq([first : Nat, last : Nat, outcomes : Seq(Outcomes)])
        BY <1>2 DEF InteropTyped
      <3> QED
        BY <3>1, ElementFacts, Zenon
    <2>2. log[b].last \in Nat
      BY <2>1
    <2> QED
      BY <1>1, <1>6, <2>2
  <1> QED
    BY <1>4, <1>5, <1>7, <1>11, <1>13, <1>14, <1>15, RingNames DEF InteropInv

-----------------------------------------------------------------------------
(* The invariant                                                           *)

\* Rings that nobody has used yet.
Unused ==
    /\ head = Of(0) /\ tail = Of(0) /\ cells = Of([i \in 0..(Capacity - 1) |-> Blank])
    /\ data = <<>> /\ offset = 0 /\ host = Of("out") /\ writer = Of(NotWriting) /\ seen = Of(0)
    /\ sent = Of(<<>>) /\ received = Of(<<>>) /\ messages = <<>> /\ committed = 0 /\ unread = 0
    /\ outcomes = <<>> /\ log = <<>>

\* New rings satisfy the invariant.
LEMMA UnusedInv ==
  ASSUME Unused, frame = "out"
  PROVE  InteropInv
  <1>1. \A r \in Rings : /\ head[r] = 0 /\ tail[r] = 0 /\ seen[r] = 0 /\ host[r] = "out"
                         /\ writer[r] = NotWriting /\ sent[r] = <<>> /\ received[r] = <<>>
    BY DEF Unused, Of
  <1>2. 0 \in Positions
    BY CapacityFacts DEF Positions
  <1>3. InteropTyped
    <2>1. head \in [Rings -> Positions] /\ tail \in [Rings -> Positions] /\ seen \in [Rings -> Positions]
      BY <1>2 DEF Unused, Of
    <2>2. cells \in [Rings -> [Positions -> AllCells \cup {Blank}]]
      BY DEF Unused, Of, Positions
    <2>3. host \in [Rings -> {"out", "write", "read", "commit"}]
      BY DEF Unused, Of
    <2>4. writer \in [Rings -> [head : Positions, tail : Positions, pending : Seq(AllCells)]]
      BY <1>2 DEF Unused, Of, NotWriting
    <2>5. sent \in [Rings -> Seq(AllCells)] /\ received \in [Rings -> Seq(AllCells)]
      BY DEF Unused, Of
    <2>6. /\ data \in Seq(AllCells) /\ offset \in Nat /\ messages \in Seq([kind : Kinds, start : Nat])
          /\ committed \in Nat /\ unread \in Nat /\ outcomes \in Seq(Outcomes)
          /\ log \in Seq([first : Nat, last : Nat, outcomes : Seq(Outcomes)])
      BY DEF Unused
    <2> QED
      BY <2>1, <2>2, <2>3, <2>4, <2>5, <2>6 DEF InteropTyped
  <1>4. DataSize(0, 0) = 0
    BY DEF DataSize
  <1>5. ASSUME NEW r \in Rings PROVE RingOK(r)
    <2>1. ~Writing(r) /\ ~Reading(r) /\ ~Kept(r)
      BY <1>1, RingNames DEF Writing, Reading, Kept
    <2>2. writer[r].pending = <<>>
      BY <1>1 DEF NotWriting
    <2>3. Stream(r) = <<>> /\ WriteTail(r) = 0 /\ Returned(r) = 0
      BY <1>1, <2>1, <2>2 DEF Stream, WriteTail, Returned
    <2>4. Holds(cells[r], 0, 0, Stream(r), 0)
      BY DEF Holds
    <2>5. Len(sent[r]) = 0 /\ Len(received[r]) = 0 /\ Len(Stream(r)) = 0
      BY <1>1, <2>3
    <2> QED
      BY <1>1, <1>4, <2>1, <2>2, <2>3, <2>4, <2>5 DEF RingOK
  <1>6. Batch
    BY DEF Batch, Unused
  <1>7. Len(messages) = 0 /\ Logged = 0 /\ Len(Stream("input")) = 0 /\ Len(log) = 0
    <2>1. writer["input"].pending = <<>> /\ sent["input"] = <<>>
      BY <1>1, RingNames DEF NotWriting
    <2> QED
      BY <2>1 DEF Unused, Logged, Stream
  <1>8. StartOf(1) = 0
    BY <1>7 DEF StartOf
  <1>9. Framing
    <2>1. committed = 0 /\ host["input"] = "out" /\ Len(sent["input"]) = 0 /\ Len(messages) = 0
      BY <1>1, <1>7, RingNames DEF Unused
    <2>2. 0 <= MaxInput /\ \A k, l \in 1..(0 + 1) : ~(k < l)
      BY MaxInputAssumption
    <2> QED
      BY <1>8, <2>1, <2>2 DEF Framing
  <1>10. Dispatching
    <2>1. committed = 0 /\ Len(received["input"]) = 0
      BY <1>1, RingNames DEF Unused
    <2> QED
      BY <1>7, <1>8, <2>1 DEF Dispatching
  <1>11. Explained
    BY <1>7 DEF Explained
  <1> QED
    BY <1>3, <1>5, <1>6, <1>9, <1>10, <1>11 DEF InteropInv

\* The first rings are new.
LEMMA InteropInit == Init => InteropInv
  BY UnusedInv DEF Init, Unused

\* So are those after a step that replaces them.
LEMMA UnusedNext == (Unused /\ frame = "out")' => InteropInv'
  <1>1. Unused /\ frame = "out" => InteropInv
    BY UnusedInv
  <1> QED
    BY <1>1, PTL

\* Shutdown replaces the rings, or finds no context.
LEMMA ShutdownStep ==
  ASSUME InteropInv, HGameBattle_Shutdown
  PROVE  InteropInv'
  <1>1. CASE NoHandle /\ UNCHANGED <<handle, ringVars, locals, history>>
    <2>1. frame = "out" /\ frame' = "out"
      BY <1>1 DEF HGameBattle_Shutdown, NoHandle, Return
    <2> QED
      BY <1>1, <2>1, OutsideStep
  <1>2. CASE NewRings /\ Return("SUCCESS")
    <2>1. Unused' /\ frame' = "out"
      BY <1>2 DEF NewRings, Unused, Return, Of
    <2> QED
      BY <2>1, UnusedNext
  <1> QED
    BY <1>1, <1>2 DEF HGameBattle_Shutdown
\* The invariant is inductive.
LEMMA InteropNext ==
  ASSUME InteropInv, [Next]_vars
  PROVE  InteropInv'
  <1>1. CASE UNCHANGED vars
    <2>1. frame' = frame /\ UNCHANGED <<ringVars, locals, history>>
      BY <1>1 DEF vars
    <2> QED
      BY <2>1, OutsideStep
  <1>2. CASE HGameBattle_Initialize \/ HGameBattle_Pause \/ HGameBattle_Resume \/ Query \/ Configure
    <2>1. frame = "out" /\ frame' = "out" /\ UNCHANGED <<ringVars, locals, history>>
      BY <1>2 DEF HGameBattle_Initialize, HGameBattle_Pause, HGameBattle_Resume, Query, Configure,
         HGameBattle_GetBufferInfo, HGameBattle_CheckStatus, HGameBattle_LoadConfig, HGameBattle_GetTotalConfigHash,
         HGameBattle_SetSkillJson, HGameBattle_SetDebugDrawEnabled, NoHandle, Returns, Return
    <2> QED
      BY <2>1, OutsideStep
  <1>3. CASE HGameBattle_Update \/ UpdateDone
    <2>1. /\ frame \in {"out", "read", "update"} /\ frame' \in {"out", "read", "update"}
          /\ UNCHANGED <<ringVars, locals, history>>
      BY <1>3 DEF HGameBattle_Update, UpdateDone, NoHandle, Returns, Return
    <2> QED
      BY <2>1, OutsideStep
  <1>4. CASE HGameBattle_Shutdown
    BY <1>4, ShutdownStep
  <1>5. CASE ReadAll \/ ReadCopy \/ ReadStore
    BY <1>5, ReadAllStep, ReadCopyStep, ReadStoreStep
  <1>6. CASE parseAndDispatchMessage \/ ProcessIncomingMessages
    BY <1>6, DispatchStep, ProcessStep
  <1>7. CASE OutputPrepare \/ OutputWrite \/ OutputCommit \/ OutputThrow \/ Write
    BY <1>7, OutputPrepareStep, OutputWriteStep, OutputCommitStep, OutputThrowStep, WriteStep
  <1>8. CASE HGameBattle_GetInputBufferState \/ HostWrite \/ HGameBattle_CommitInputWrite
    BY <1>8, GetInputStep, HostWriteStep, CommitInputStep
  <1>9. CASE HGameBattle_GetOutputBufferState \/ HostRead \/ HGameBattle_CommitOutputRead
    BY <1>9, GetOutputStep, HostReadStep, CommitOutputStep
  <1> QED
    BY <1>1, <1>2, <1>3, <1>4, <1>5, <1>6, <1>7, <1>8, <1>9, Zenon DEF Next, Life, InUpdate, Host

\* The invariant holds in every reachable state.
LEMMA InteropAlways == SafeSpec => []InteropInv
  <1>1. InteropInv /\ [Next]_vars => InteropInv'
    BY InteropNext
  <1> QED
    BY <1>1, InteropInit, PTL DEF SafeSpec

\* Whatever the capacity and however many messages the host writes and the
\* battle sends, a message that ReadAll took out of the ring is dispatched in
\* its turn and whole, unless it is behind an empty message or an exception.
THEOREM InteropLossIsExplained == SafeSpec => []LossIsExplained
  <1>1. InteropInv => LossIsExplained
    <2> SUFFICES ASSUME InteropInv PROVE LossIsExplained
      OBVIOUS
    <2>1. DOMAIN log = 1..Len(log)
      BY DEF InteropInv, InteropTyped
    <2>2. Explained
      BY DEF InteropInv
    <2> QED
      BY <2>1, <2>2 DEF Explained, LossIsExplained
  <1> QED
    BY <1>1, InteropAlways, PTL

-----------------------------------------------------------------------------
(* The rings are channels                                                  *)

\* Behind what was sent come further cells.
LEMMA SentFacts ==
  ASSUME NEW s \in Seq(AllCells), NEW p \in Seq(AllCells), NEW t, t = s \o p, t # s
  PROVE  /\ Len(t) > Len(s)
         /\ SubSeq(t, 1, Len(s)) = s
         /\ \A n \in (Len(s) + 1)..Len(t) : t[n] \in AllCells
  <1>1. t \in Seq(AllCells) /\ Len(t) = Len(s) + Len(p) /\ Len(s) \in Nat /\ Len(p) \in Nat
        /\ \A k \in 1..Len(s) : t[k] = s[k]
    BY CellsConcat
  <1>2. Len(p) # 0
    <2> SUFFICES ASSUME Len(p) = 0 PROVE FALSE
      OBVIOUS
    <2>1. p = <<>>
      OBVIOUS
    <2> QED
      BY <2>1, ConcatEmpty
  <1>3. Len(t) > Len(s) /\ \A n \in (Len(s) + 1)..Len(t) : n \in 1..Len(t)
    BY <1>1, <1>2
  <1>4. SubSeq(t, 1, Len(s)) = s
    BY <1>1, <1>3, PrefixFacts
  <1> QED
    BY <1>1, <1>3, <1>4, ElementFacts

\* What a step does to the ends of a ring.
EndsKept(r) == sent'[r] = sent[r] /\ received'[r] = received[r]
Appended(r) == received'[r] = received[r] /\ \E p \in Seq(AllCells) : sent'[r] = sent[r] \o p
Taken(r) == sent'[r] = sent[r] /\ \E c \in Seq(AllCells) : received'[r] = received[r] \o c
Renewed(r) == sent'[r] = <<>> /\ received'[r] = <<>>

\* A step touches one end of a ring, or renews both.
LEMMA EndsStep ==
  ASSUME InteropInv, [Next]_vars, NEW r \in Rings
  PROVE  EndsKept(r) \/ Appended(r) \/ Taken(r) \/ Renewed(r)
  <1>0. InteropTyped /\ \A q \in Rings : RingOK(q)
    BY DEF InteropInv
  <1>1. CASE UNCHANGED <<sent, received>>
    BY <1>1 DEF EndsKept
  <1>2. CASE HGameBattle_Shutdown
    <2>1. UNCHANGED <<sent, received>> \/ (sent' = Of(<<>>) /\ received' = Of(<<>>))
      BY <1>2 DEF HGameBattle_Shutdown, NewRings, history
    <2> QED
      BY <2>1 DEF EndsKept, Renewed, Of
  <1>3. CASE ReadStore
    <2>1. sent' = sent /\ received' = [received EXCEPT !["input"] = @ \o data]
      BY <1>3 DEF ReadStore
    <2>2. data \in Seq(AllCells) /\ received \in [Rings -> Seq(AllCells)]
      BY <1>0 DEF InteropTyped
    <2>3. CASE r = "input"
      <3>1. received'["input"] = received["input"] \o data
        BY <2>1, <2>2, RingNames
      <3> QED
        BY <2>1, <2>2, <2>3, <3>1 DEF Taken
    <2>4. CASE r # "input"
      BY <2>1, <2>2, <2>4 DEF EndsKept
    <2> QED
      BY <2>3, <2>4
  <1>4. CASE HostRead
    <2>1. PICK c : c = CopyOut(cells["output"], head["output"], seen["output"])
      OBVIOUS
    <2>2. sent' = sent /\ received' = [received EXCEPT !["output"] = @ \o c]
      BY <1>4, <2>1 DEF HostRead
    <2>3. c \in Seq(AllCells)
      <3>1. Reading("output") /\ ~Kept("output")
        BY <1>4 DEF HostRead, Reading, Kept
      <3> QED
        BY <1>0, <2>1, <3>1, RingNames, CopyOutIsSent
    <2>4. received \in [Rings -> Seq(AllCells)]
      BY <1>0 DEF InteropTyped
    <2>5. CASE r = "output"
      <3>1. received'["output"] = received["output"] \o c
        BY <2>2, <2>4, RingNames
      <3> QED
        BY <2>2, <2>3, <2>5, <3>1 DEF Taken
    <2>6. CASE r # "output"
      BY <2>2, <2>4, <2>6 DEF EndsKept
    <2> QED
      BY <2>5, <2>6
  <1>5. CASE OutputCommit \/ HGameBattle_CommitInputWrite \/ Write
    <2>1. PICK w \in Rings, p \in Seq(AllCells) : sent' = [sent EXCEPT ![w] = @ \o p] /\ received' = received
      <3>1. CASE OutputCommit
        <4>1. sent' = [sent EXCEPT !["output"] = @ \o writer["output"].pending] /\ received' = received
          BY <3>1 DEF OutputCommit, CommitWrite
        <4>2. writer["output"].pending \in Seq(AllCells)
          BY <1>0, RingTyped, RingNames
        <4> QED
          BY <4>1, <4>2, RingNames
      <3>2. CASE HGameBattle_CommitInputWrite
        <4>1. sent' = [sent EXCEPT !["input"] = @ \o writer["input"].pending] /\ received' = received
          BY <3>2 DEF HGameBattle_CommitInputWrite, CommitWrite
        <4>2. writer["input"].pending \in Seq(AllCells)
          BY <1>0, RingTyped, RingNames
        <4> QED
          BY <4>1, <4>2, RingNames
      <3>3. CASE Write
        <4>1. /\ sent' = [sent EXCEPT !["output"] = @ \o OutputFrame(NextOutput)] /\ received' = received
              /\ NextOutput <= MaxInput + MaxOutput
          BY <3>3 DEF Write
        <4>2. OutputFrame(NextOutput) \in Seq(AllCells)
          BY <1>0, <4>1, NextOutputFacts
        <4> QED
          BY <4>1, <4>2, RingNames
      <3> QED
        BY <1>5, <3>1, <3>2, <3>3
    <2>2. sent \in [Rings -> Seq(AllCells)]
      BY <1>0 DEF InteropTyped
    <2>3. CASE r = w
      BY <2>1, <2>2, <2>3 DEF Appended
    <2>4. CASE r # w
      BY <2>1, <2>2, <2>4 DEF EndsKept
    <2> QED
      BY <2>3, <2>4
  <1>6. CASE \/ ReadAll \/ ReadCopy \/ parseAndDispatchMessage \/ ProcessIncomingMessages \/ OutputPrepare
             \/ OutputWrite \/ OutputThrow \/ UpdateDone \/ HGameBattle_GetInputBufferState \/ HostWrite
             \/ HGameBattle_GetOutputBufferState \/ HGameBattle_CommitOutputRead \/ HGameBattle_Update
    <2>1. UNCHANGED <<sent, received>>
      BY <1>6 DEF ReadAll, ReadCopy, parseAndDispatchMessage, ProcessIncomingMessages, OutputPrepare, OutputWrite,
         OutputThrow, UpdateDone, HGameBattle_GetInputBufferState, HostWrite, HGameBattle_GetOutputBufferState,
         HGameBattle_CommitOutputRead, HGameBattle_Update, history
    <2> QED
      BY <1>1, <2>1
  <1>7. CASE HGameBattle_Initialize \/ HGameBattle_Pause \/ HGameBattle_Resume \/ Query \/ Configure
    <2>1. UNCHANGED <<sent, received>>
      BY <1>7 DEF HGameBattle_Initialize, HGameBattle_Pause, HGameBattle_Resume, Query, Configure,
         HGameBattle_GetBufferInfo, HGameBattle_CheckStatus, HGameBattle_LoadConfig, HGameBattle_GetTotalConfigHash,
         HGameBattle_SetSkillJson, HGameBattle_SetDebugDrawEnabled, history
    <2> QED
      BY <1>1, <2>1
  <1>8. CASE UNCHANGED vars
    <2>1. UNCHANGED <<sent, received>>
      BY <1>8 DEF vars, history
    <2> QED
      BY <1>1, <2>1
  <1> QED
    BY <1>2, <1>3, <1>4, <1>5, <1>6, <1>7, <1>8, Zenon DEF Next, Life, InUpdate, Host

\* In terms of the channel: a step at either end, a new ring, or nothing.
LEMMA ChannelStep ==
  ASSUME InteropInv, InteropInv', [Next]_vars, NEW r \in Rings
  PROVE  \/ EndsKept(r)
         \/ /\ Len(sent'[r]) > Len(sent[r])
            /\ SubSeq(sent'[r], 1, Len(sent[r])) = sent[r]
            /\ \A n \in (Len(sent[r]) + 1)..Len(sent'[r]) : sent'[r][n] \in AllCells
            /\ received'[r] = received[r]
         \/ /\ \E n \in (Len(received[r]) + 1)..Len(sent[r]) : received'[r] = SubSeq(sent[r], 1, n)
            /\ sent'[r] = sent[r]
         \/ Renewed(r)
  <1>1. /\ sent[r] \in Seq(AllCells) /\ received[r] \in Seq(AllCells)
    BY RingTyped DEF InteropInv
  <1>2. CASE Appended(r)
    <2>1. PICK p \in Seq(AllCells) : sent'[r] = sent[r] \o p
      BY <1>2 DEF Appended
    <2>2. PICK t : t = sent'[r]
      OBVIOUS
    <2>3. CASE t = sent[r]
      BY <1>2, <2>2, <2>3 DEF Appended, EndsKept
    <2>4. CASE t # sent[r]
      <3>1. /\ Len(t) > Len(sent[r])
            /\ SubSeq(t, 1, Len(sent[r])) = sent[r]
            /\ \A n \in (Len(sent[r]) + 1)..Len(t) : t[n] \in AllCells
        BY <1>1, <2>1, <2>2, <2>4, SentFacts
      <3> QED
        BY <1>2, <2>2, <3>1 DEF Appended
    <2> QED
      BY <2>3, <2>4
  <1>3. CASE Taken(r)
    <2>1. PICK c \in Seq(AllCells) : received'[r] = received[r] \o c
      BY <1>3 DEF Taken
    <2>2. PICK v : v = received'[r]
      OBVIOUS
    <2>3. Len(v) <= Len(sent[r]) /\ \A k \in 1..Len(v) : v[k] = sent[r][k]
      <3>1. sent'[r] = sent[r] /\ RingOK(r)'
        BY <1>3 DEF Taken, InteropInv
      <3> QED
        BY <2>2, <3>1 DEF RingOK
    <2>4. CASE v = received[r]
      BY <1>3, <2>2, <2>4 DEF Taken, EndsKept
    <2>5. CASE v # received[r]
      <3>1. \E n \in (Len(received[r]) + 1)..Len(sent[r]) : v = SubSeq(sent[r], 1, n)
        <4>1. Len(v) > Len(received[r])
          BY <1>1, <2>1, <2>2, <2>5, SentFacts
        <4>2. v \in Seq(AllCells)
          BY <2>2 DEF InteropInv, InteropTyped
        <4>3. v = SubSeq(sent[r], 1, Len(v))
          BY <1>1, <2>3, <4>2, PrefixFacts
        <4>4. Len(received[r]) \in Nat /\ Len(sent[r]) \in Nat /\ Len(v) \in Nat
          BY <1>1, <4>2
        <4>5. Len(v) \in (Len(received[r]) + 1)..Len(sent[r])
          BY <2>3, <4>1, <4>4
        <4> QED
          BY <4>3, <4>5
      <3> QED
        BY <1>3, <2>2, <3>1 DEF Taken
    <2> QED
      BY <2>4, <2>5
  <1> QED
    BY <1>2, <1>3, EndsStep

\* Whatever their capacity, both rings are channels: no byte is lost, doubled,
\* overwritten before it is read, or seen before it is committed.
THEOREM InteropRingsAreChannels == SafeSpec => RingsAreChannels
  <1>1. Init => Input!Init /\ Output!Init
    BY RingNames DEF Init, Of, Input!Init, Output!Init
  <1>2. ASSUME InteropInv, InteropInv', [Next]_vars
        PROVE  [Input!Next \/ Input!Reopen]_<<sent["input"], received["input"]>>
    BY <1>2, RingNames, ChannelStep DEF EndsKept, Renewed, Input!Next, Input!Send, Input!Receive, Input!Reopen
  <1>3. ASSUME InteropInv, InteropInv', [Next]_vars
        PROVE  [Output!Next \/ Output!Reopen]_<<sent["output"], received["output"]>>
    BY <1>3, RingNames, ChannelStep DEF EndsKept, Renewed, Output!Next, Output!Send, Output!Receive, Output!Reopen
  <1>4. Init /\ [][Next]_vars /\ []InteropInv =>
          /\ Input!Init /\ [][Input!Next \/ Input!Reopen]_<<sent["input"], received["input"]>>
          /\ Output!Init /\ [][Output!Next \/ Output!Reopen]_<<sent["output"], received["output"]>>
    BY <1>1, <1>2, <1>3, PTL
  <1> QED
    BY <1>4, InteropAlways, PTL DEF SafeSpec, RingsAreChannels, Input!ReopenedSpec, Output!ReopenedSpec
=============================================================================

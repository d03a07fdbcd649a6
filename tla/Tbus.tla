--------------------------------- MODULE Tbus ---------------------------------
(***************************************************************************)
(* tbus.c: one sender and one reader on a ring of bytes in shared memory.  *)
(* A packet is a header and its payload, never split at the end of the     *)
(* ring: the sender leaves the rest of the ring unused, marked by an       *)
(* ignore header when one fits.  The sender owns tail_offset, the reader   *)
(* head_offset; nothing else orders them.                                  *)
(*                                                                         *)
(* Each access of the other side's offset is a step of its own.  Stores    *)
(* take effect in program order: the offsets are volatile and the target   *)
(* is x86.  The callers are the loops of the benchmark of the repository.  *)
(*                                                                         *)
(* A cell stands for a unit of memory of which a header takes HeaderSize;  *)
(* only the first cell of a header says what it is.                        *)
(***************************************************************************)
EXTENDS Integers, Sequences, FiniteSets

CONSTANTS
    HeaderSize,         \* sizeof(tbus_header_t)
    PayloadSize,        \* the size given to tbus_init
    Number,             \* and the number of packets
    Lengths,            \* the lengths the sender sends, if they fit
    IovNum,             \* the iovecs the reader offers
    MaxPackets          \* the last packet

ASSUME HeaderAssumption == HeaderSize \in Nat \ {0}
ASSUME PayloadAssumption == PayloadSize \in Nat \ {0}
\* With one packet the sender that rewinds waits for a reader that ends a read of nothing.
ASSUME NumberAssumption == Number \in Nat \ {0, 1}
ASSUME LengthsAssumption == Lengths \subseteq Nat \ {0}
ASSUME IovAssumption == IovNum \in Nat \ {0}
ASSUME MaxPacketsAssumption == MaxPackets \in Nat

VARIABLES
    head_offset, tail_offset, buff,
    spc,                \* where the sender is
    room,               \* what tbus_send_begin returned
    length,             \* the length it sends
    newTail,            \* its local tail_offset in tbus_send_end
    rpc,                \* where the reader is
    tailRead, limit,    \* tail in tbus_read_begin, and the limit peek was given
    ch, iov,            \* where peek is, and the packets it has found
    loaded,             \* history: the packets before tailRead
    posted, delivered,  \* history: the packets sent and received
    places              \* history: the offsets at which they were put

senderVars == <<spc, room, length, newTail>>
readerVars == <<rpc, tailRead, limit, ch, iov, loaded>>
tbusVars == <<head_offset, tail_offset, buff, senderVars, readerVars, posted, places, delivered>>

\* tbus_init
packet_size == PayloadSize + HeaderSize
size == packet_size * Number

Junk == <<"junk">>
Ignore == <<"ignore">>
Package(len) == <<"package", len>>
Data(id) == <<"data", id>>

Put(from, len, cell) == [i \in DOMAIN buff |-> IF i \in from..(from + len - 1) THEN cell ELSE buff[i]]

TbusInit ==
    /\ head_offset = 0
    /\ tail_offset = 0
    /\ buff = [i \in 0..(size - 1) |-> Junk]
    /\ spc = "begin"
    /\ room = 0
    /\ length = 0
    /\ newTail = 0
    /\ rpc = "begin"
    /\ tailRead = 0
    /\ limit = 0
    /\ ch = 0
    /\ iov = <<>>
    /\ loaded = 0
    /\ posted = <<>>
    /\ places = <<>>
    /\ delivered = <<>>

-----------------------------------------------------------------------------
(* The sender                                                              *)

\* Slips in tbus_send_begin: the rest of the ring is not marked, and the sender
\* does not rewind.
SendBeginUnmarked ==
    /\ spc = "begin"
    /\ Len(posted) < MaxPackets
    /\ LET write_size == IF head_offset <= tail_offset THEN size - tail_offset
                                                       ELSE head_offset - tail_offset - 1
           enough == write_size >= packet_size
           rewind == ~enough /\ head_offset <= tail_offset /\ head_offset # 0
       IN  /\ spc' = IF enough THEN "fill" ELSE IF rewind THEN "rewind" ELSE "begin"
           /\ room' = IF enough THEN write_size - HeaderSize ELSE 0
    /\ UNCHANGED <<buff, head_offset, tail_offset, length, newTail, readerVars, posted, places, delivered>>

SendBeginStays ==
    /\ spc = "begin"
    /\ Len(posted) < MaxPackets
    /\ LET write_size == IF head_offset <= tail_offset THEN size - tail_offset
                                                       ELSE head_offset - tail_offset - 1
           enough == write_size >= packet_size
       IN  /\ spc' = IF enough THEN "fill" ELSE "begin"
           /\ room' = IF enough THEN write_size - HeaderSize ELSE 0
           /\ buff' = IF ~enough /\ head_offset <= tail_offset /\ write_size >= HeaderSize
                      THEN Put(tail_offset, 1, Ignore) ELSE buff
    /\ UNCHANGED <<head_offset, tail_offset, length, newTail, readerVars, posted, places, delivered>>

\* The head decides once: what is left to the end of the ring, or to the head.
tbus_send_begin ==
    /\ spc = "begin"
    /\ Len(posted) < MaxPackets
    /\ LET write_size == IF head_offset <= tail_offset THEN size - tail_offset
                                                       ELSE head_offset - tail_offset - 1
           enough == write_size >= packet_size
           rewind == ~enough /\ head_offset <= tail_offset /\ head_offset # 0
       IN  /\ spc' = IF enough THEN "fill" ELSE IF rewind THEN "rewind" ELSE "begin"
           /\ room' = IF enough THEN write_size - HeaderSize ELSE 0
           /\ buff' = IF ~enough /\ head_offset <= tail_offset /\ write_size >= HeaderSize
                      THEN Put(tail_offset, 1, Ignore) ELSE buff
    /\ UNCHANGED <<head_offset, tail_offset, length, newTail, readerVars, posted, places, delivered>>

\* tail_offset = 0, and tbus_send_begin again.
Rewind ==
    /\ spc = "rewind"
    /\ tail_offset' = 0
    /\ spc' = "begin"
    /\ UNCHANGED <<head_offset, buff, room, length, newTail, readerVars, posted, places, delivered>>

\* The caller writes its payload, as much as it has been given at most; the
\* benchmark's are all of one length.
Fill ==
    /\ spc = "fill"
    /\ \E len \in Lengths :
        /\ len <= room
        /\ length' = len
        /\ buff' = Put(tail_offset + HeaderSize, len, Data(Len(posted) + 1))
    /\ spc' = "end"
    /\ UNCHANGED <<head_offset, tail_offset, room, newTail, readerVars, posted, places, delivered>>

\* The header, and where the tail goes.
tbus_send_end ==
    /\ spc = "end"
    /\ buff' = Put(tail_offset, 1, Package(length))
    /\ LET end == tail_offset + HeaderSize + length
       IN  newTail' = IF end >= size /\ head_offset # 0 THEN 0 ELSE end
    /\ spc' = "publish"
    /\ UNCHANGED <<head_offset, tail_offset, room, length, readerVars, posted, places, delivered>>

\* The last store of tbus_send_end.
Publish ==
    /\ spc = "publish"
    /\ tail_offset' = newTail
    /\ posted' = Append(posted, <<Len(posted) + 1, length>>)
    /\ places' = Append(places, tail_offset)
    /\ spc' = "begin"
    /\ UNCHANGED <<head_offset, buff, room, length, newTail, readerVars, delivered>>

\* tbus_send_end(tb, 0) sends nothing.
SendNothing ==
    /\ spc = "fill"
    /\ spc' = "begin"
    /\ UNCHANGED <<head_offset, tail_offset, buff, room, length, newTail, readerVars, posted, places, delivered>>

-----------------------------------------------------------------------------
(* The reader                                                              *)

NULL == -1

NotReading == rpc' = "begin" /\ tailRead' = 0 /\ limit' = 0 /\ ch' = 0 /\ iov' = <<>> /\ loaded' = 0

\* tbus_read_begin loads the tail and peeks: up to the tail, or to the end of the ring.
tbus_read_begin ==
    /\ rpc = "begin"
    /\ tailRead' = tail_offset
    /\ ch' = head_offset
    /\ limit' = IF head_offset <= tail_offset THEN tail_offset ELSE size
    /\ rpc' = "peek"
    /\ loaded' = Len(posted)
    /\ UNCHANGED <<head_offset, tail_offset, buff, senderVars, iov, posted, places, delivered>>

\* There is a header at ch, and not one to ignore.
AtHeader == ch < limit /\ limit - ch >= HeaderSize /\ buff[ch] # Ignore

\* It is that of a packet which ends before the limit.
AtPacket == buff[ch][1] = "package" /\ ch + HeaderSize + buff[ch][2] <= limit

\* One iteration of peek: the packet goes into the next iovec.
peek ==
    /\ rpc = "peek"
    /\ AtHeader /\ AtPacket
    /\ Len(iov) < IovNum
    /\ iov' = Append(iov, [base |-> ch + HeaderSize, len |-> buff[ch][2]])
    /\ ch' = ch + HeaderSize + buff[ch][2]
    /\ UNCHANGED <<head_offset, tail_offset, buff, senderVars, rpc, tailRead, limit, loaded,
                   posted, places, delivered>>

\* What peek returns: the limit, where it has run out of iovecs, or NULL when
\* there is something else than a header.
ret == IF ~AtHeader THEN limit ELSE IF AtPacket THEN ch ELSE NULL

\* A slip in PeekReturns: the space is given back before the packets are read.
PeekReleases ==
    /\ rpc = "peek"
    /\ AtHeader /\ AtPacket => Len(iov) = IovNum
    /\ IF ret = limit /\ limit # tailRead
       THEN /\ ch' = 0
            /\ limit' = tailRead
            /\ UNCHANGED <<head_offset, rpc, iov>>
       ELSE /\ ch' = IF ret = NULL THEN tailRead ELSE ret
            /\ head_offset' = ch'
            /\ iov' = IF ret = NULL THEN <<>> ELSE iov
            /\ rpc' = IF iov' = <<>> THEN "empty" ELSE "consume"
            /\ UNCHANGED limit
    /\ UNCHANGED <<tail_offset, buff, senderVars, tailRead, loaded, posted, places, delivered>>

\* peek returns.  At the end of the ring it is called once more, from its start
\* up to the tail; otherwise tbus_read_begin returns, without any packet after
\* a NULL.
PeekReturns ==
    /\ rpc = "peek"
    /\ AtHeader /\ AtPacket => Len(iov) = IovNum
    /\ IF ret = limit /\ limit # tailRead
       THEN /\ ch' = 0
            /\ limit' = tailRead
            /\ UNCHANGED <<rpc, iov>>
       ELSE /\ ch' = IF ret = NULL THEN tailRead ELSE ret
            /\ iov' = IF ret = NULL THEN <<>> ELSE iov
            /\ rpc' = IF iov' = <<>> THEN "empty" ELSE "consume"
            /\ UNCHANGED limit
    /\ UNCHANGED <<head_offset, tail_offset, buff, senderVars, tailRead, loaded, posted, places,
                   delivered>>

\* What an iovec shows: the packet it holds, or the cells if they are no packet.
Seen(v) ==
    LET shown == {buff[i] : i \in v.base..(v.base + v.len - 1)}
    IN  IF \E id \in 1..MaxPackets : shown = {Data(id)}
        THEN <<(CHOOSE c \in shown : TRUE)[2], v.len>>
        ELSE <<0, v.len>>

\* The caller reads the payloads in place.  All that it was shown is given back,
\* so it has to look at every iovec; the benchmark, which measures, looks at the
\* first one.
Consume ==
    /\ rpc = "consume"
    /\ delivered' = delivered \o [k \in DOMAIN iov |-> Seen(iov[k])]
    /\ rpc' = "end"
    /\ UNCHANGED <<head_offset, tail_offset, buff, senderVars, tailRead, limit, ch, iov, loaded,
                   posted, places>>

\* Without packets the benchmark leaves out tbus_read_end; a caller need not.
ReadNothing ==
    /\ rpc = "empty"
    /\ \/ NotReading
       \/ rpc' = "end" /\ UNCHANGED <<tailRead, limit, ch, iov, loaded>>
    /\ UNCHANGED <<head_offset, tail_offset, buff, senderVars, posted, places, delivered>>

tbus_read_end ==
    /\ rpc = "end"
    /\ head_offset' = ch
    /\ NotReading
    /\ UNCHANGED <<tail_offset, buff, senderVars, posted, places, delivered>>

-----------------------------------------------------------------------------

Sender == tbus_send_begin \/ Rewind \/ Fill \/ tbus_send_end \/ Publish \/ SendNothing
Reader == tbus_read_begin \/ peek \/ PeekReturns \/ Consume \/ ReadNothing \/ tbus_read_end

TbusNext == Sender \/ Reader

\* Both loops go on; what a caller was given room for it sends in the end.
TbusFairness ==
    /\ WF_tbusVars(tbus_send_begin \/ Rewind \/ tbus_send_end \/ Publish)
    /\ SF_tbusVars(Fill)
    /\ WF_tbusVars(Reader)

TbusSafeSpec == TbusInit /\ [][TbusNext]_tbusVars

TbusSpec == TbusSafeSpec /\ TbusFairness

-----------------------------------------------------------------------------
(* Properties                                                              *)

\* What the sender may write to from the return of tbus_send_begin on.
Granted == tail_offset..(tail_offset + HeaderSize + room - 1)

\* What the reader has been shown and has not given back.
Shown == UNION {(v.base - HeaderSize)..(v.base + v.len - 1) : v \in {iov[k] : k \in DOMAIN iov}}

\* The sender is never given room in packets the reader still looks at, or
\* beyond the ring, although each side knows only an old offset of the other.
NoOverwrite ==
    /\ spc = "fill" => Granted \subseteq DOMAIN buff
    /\ spc \in {"fill", "end", "publish"} /\ rpc \in {"consume", "end"} => Granted \cap Shown = {}

Channel == INSTANCE FifoChannel
    WITH Messages <- (1..MaxPackets) \X Lengths, sent <- posted, received <- delivered

\* The bus is a channel: every packet arrives once, whole, with its length,
\* and in order, however often the ring wraps and wherever the sender gave up
\* the end of it.
ImplementsChannel == Channel!Spec

\* Everything the sender has to send is sent and received: the sender is never
\* left without room for good, even by a reader that does not end a read of
\* nothing, and no packet stays in the ring.
AllArrive == <>(Len(delivered) = MaxPackets)
=============================================================================

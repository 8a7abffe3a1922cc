---------------------------- MODULE PacketStream ----------------------------
(***************************************************************************)
(* How ClientSocket cuts the bytes of a connection into packets: a packet  *)
(* is a CBOR array [reqId, type, command, data] or, with timeout and       *)
(* timestamp, one of six fields; TCP delivers the bytes in reads of any    *)
(* length, and handleBuffer decodes what it has after each of them.        *)
(***************************************************************************)
EXTENDS Naturals, Sequences

CONSTANTS
    MaxPackets,   \* bound on the packets a client sends
    DataLengths   \* lengths a packet's data may have

ASSUME MaxPacketsIsNat == MaxPackets \in Nat

ASSUME DataLengthsAreNats == DataLengths \subseteq Nat

VARIABLES
    wire,        \* bytes sent and not yet read
    buffer,      \* cborBuffer
    delivered,   \* packets given to message_got_callback: what each field was sent as
    sent,        \* packets sent so far: the number of fields of each
    open,        \* the reader runs
    whole,       \* every read so far ended where a packet ends
    astray       \* some read has decoded a buffer that begins inside a byte string

streamVars == <<wire, buffer, delivered, sent, open, whole, astray>>

\* A byte: the head of an array of n, an integer, the head of a byte string of
\* n bytes, or one of those. The decoder sees the kind and n; of and field say which
\* packet, and which of its fields, the byte was sent for.
HeadOf(n, k) == [kind |-> "head", n |-> n, of |-> k, field |-> 0]
IntOf(f, k) == [kind |-> "int", n |-> 0, of |-> k, field |-> f]
StringOf(n, f, k) ==
    <<[kind |-> "bytes", n |-> n, of |-> k, field |-> f]>>
        \o [i \in 1..n |-> [kind |-> "rest", n |-> 0, of |-> k, field |-> f]]

\* The bytes of packet k with n fields and data of length l, as the client encodes it.
Encode(n, l, k) ==
    <<HeadOf(n, k), IntOf(0, k), IntOf(1, k)>> \o StringOf(1, 2, k) \o StringOf(l, 3, k)
        \o (IF n = 6 THEN <<IntOf(4, k), IntOf(5, k)>> ELSE <<>>)

-----------------------------------------------------------------------------
(* PacketBuilder *)

\* The builder after reset; fields are the packet's fields so far, whose number
\* is current_field, and len is _len.
Fresh == [fields |-> <<>>, len |-> 0, valid |-> FALSE, handled |-> <<>>]

IntFields == {0, 1, 4, 5}

StringFields == {2, 3}

\* A nextField that does not reset the builder.
NextFieldKeeps(b, v) ==
    LET fields == Append(b.fields, v)
    IN  IF Len(fields) = b.len
        THEN [b EXCEPT !.fields = fields, !.handled = Append(@, fields)]
        ELSE [b EXCEPT !.fields = fields]

\* A field is read; the last one completes a packet.
NextField(b, v) ==
    LET fields == Append(b.fields, v)
    IN  IF Len(fields) = b.len
        THEN [Fresh EXCEPT !.handled = Append(b.handled, fields)]
        ELSE [b EXCEPT !.fields = fields]

\* handleInteger, handleBytes: a field of the wrong type spoils the packet.
Field(b, x, expected) ==
    IF ~b.valid THEN b
    ELSE IF Len(b.fields) \in expected THEN NextField(b, <<x.of, x.field>>)
    ELSE [b EXCEPT !.valid = FALSE]

\* One decoded item.
Item(b, x) ==
    CASE x.kind = "head"  -> [b EXCEPT !.len = x.n, !.valid = x.n \in {4, 6}]
      [] x.kind = "int"   -> Field(b, x, IntFields)
      [] x.kind = "bytes" -> Field(b, x, StringFields)
      [] x.kind = "rest"  -> b

-----------------------------------------------------------------------------
(* ClientSocket::handleBuffer *)

\* The bytes of the complete items of a buffer: a byte string cut in two waits
\* for more data.
Complete(buf) ==
    LET cut == {i \in DOMAIN buf : buf[i].kind = "bytes" /\ i + buf[i].n > Len(buf)}
    IN  IF cut = {} THEN buf ELSE SubSeq(buf, 1, (CHOOSE i \in cut : TRUE) - 1)

\* The builder after the complete items of a buffer.
Decode(buf) ==
    LET items == Complete(buf)
        after[i \in 0..Len(items)] == IF i = 0 THEN Fresh ELSE Item(after[i - 1], items[i])
    IN  after[Len(items)]

\* A handleBuffer that never drops what it has handled.
KeptAll(buf, total, some, valid) == buf

\* What is kept of a buffer whose items end after total bytes, when packets were
\* handled (some) or the builder is valid. The end of the last packet is to be kept in
\* real_consumed, but as handled is never updated it follows every item once a
\* packet was handled; and it is compared with the bytes left, not with all.
Kept(buf, total, some, valid) ==
    LET real == IF some THEN total ELSE 0
    IN  IF ~some /\ ~valid THEN buf
        ELSE IF real < Len(buf) - total THEN SubSeq(buf, real + 1, Len(buf))
        ELSE <<>>

\* What handleBuffer keeps.
Remaining(buf) ==
    LET b == Decode(buf)
    IN  Kept(buf, Len(Complete(buf)), b.handled # <<>>, b.valid)

\* A buffer that begins inside a byte string, whose contents are the client's.
Misaligned(buf) == buf # <<>> /\ buf[1].kind = "rest"

\* Packets that the decoder finds from such a place on, whether sent as packets or not.
Found == <<<<0, 0>>>>

-----------------------------------------------------------------------------
StreamInit ==
    /\ wire = <<>>
    /\ buffer = <<>>
    /\ delivered = <<>>
    /\ sent = <<>>
    /\ open = TRUE
    /\ whole = TRUE
    /\ astray = FALSE

\* The client sends a packet of n fields with data of length l.
SendPacket(n, l) ==
    /\ Len(sent) < MaxPackets
    /\ sent' = Append(sent, n)
    /\ wire' = wire \o Encode(n, l, Len(sent) + 1)
    /\ UNCHANGED <<buffer, delivered, open, whole, astray>>

\* handleBuffer with a misaligned buffer. The contents of the string are decoded as
\* the items they look like: these may end anywhere, with or without packets, or
\* in an error, upon which the buffer is left as it is and the reader ends.
DecodeContents(buf) ==
    \E some \in BOOLEAN :
        /\ delivered' = IF some THEN Append(delivered, Found) ELSE delivered
        /\ \/ open' = FALSE /\ buffer' = buf
           \/ /\ buffer' \in {Kept(buf, total, some, valid) : total \in 0..Len(buf), valid \in BOOLEAN}
              /\ UNCHANGED open

\* handleBuffer with a buffer that begins where an item begins.
DecodeItems(buf) ==
    /\ delivered' = delivered \o Decode(buf).handled
    /\ buffer' = Remaining(buf)
    /\ UNCHANGED open

\* The reader gets the next n bytes.
Read(n) ==
    /\ open
    /\ wire' = SubSeq(wire, n + 1, Len(wire))
    /\ whole' = (whole /\ (n < Len(wire) => wire[n + 1].kind = "head"))
    /\ LET buf == buffer \o SubSeq(wire, 1, n)
       IN  /\ astray' = (astray \/ Misaligned(buf))
           /\ IF Misaligned(buf) THEN DecodeContents(buf) ELSE DecodeItems(buf)
    /\ UNCHANGED sent

StreamNext ==
    \/ \E n \in {4, 6}, l \in DataLengths : SendPacket(n, l)
    \/ \E n \in 1..Len(wire) : Read(n)

StreamSpec == StreamInit /\ [][StreamNext]_streamVars

-----------------------------------------------------------------------------
(* Properties *)

\* The fields of packet k, each in its place.
Whole(c, k) == [i \in 1..c[k] |-> <<k, i - 1>>]

\* However the bytes are cut into reads, a packet that is delivered is whole, with
\* its fields in their places, and none is delivered twice or out of order, until
\* handleBuffer has cut a byte string in two and reads on inside it: partial state of
\* the builder, which is lost after each read, never ends up in another packet.
Intact ==
    ~astray =>
        /\ \A d \in DOMAIN delivered : \E k \in DOMAIN sent :
            delivered[d] = Whole(sent, k)
        /\ \A d, e \in DOMAIN delivered : d < e => delivered[d][1][1] < delivered[e][1][1]

\* Every packet that was read was delivered once, in order and with its own fields,
\* and nothing is left to spoil the next read.
Caught ==
    /\ delivered = [k \in 1..Len(sent) |-> Whole(sent, k)]
    /\ buffer = <<>>

\* As long as reads end where packets end, however many packets one brings, all
\* bytes read means all packets delivered: handleBuffer leaves neither a handled
\* packet nor a builder's state behind.
WholeReadsDeliver == whole /\ wire = <<>> => Caught

\* The same however the bytes are cut into reads. This is what client_socket.cpp:312
\* is for, which keeps the incomplete rest of a read ("deep copy of the remaining
\* incomplete data").
AllDelivered == open /\ wire = <<>> => Caught

=============================================================================

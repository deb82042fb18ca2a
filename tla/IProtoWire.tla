------------------------------- MODULE IProtoWire -------------------------------
(***************************************************************************)
(* The packets of IProto (src/iproto.cpp, lib/iproto.hpp) from the call of *)
(* Packer() to that of Unpacker(), and the stream between them as onRead() *)
(* of IProto::Conn cuts it (src/iproto_conn.cpp).                          *)
(*                                                                         *)
(* A buffer is a set of pieces: of which type, at which offset, of which   *)
(* size and what is written there.  What is read where no such piece is,   *)
(* is Garbage.  A value is known by its type, its size and its place among *)
(* those that were packed.  Lengths and offsets are uint32_t.              *)
(*                                                                         *)
(* The receiver asks for the types that were packed, in one call of        *)
(* Unpacker() or several, then perhaps for numbers that were not; it may   *)
(* read a packet twice.  A packet with BER lengths is for a peer that is   *)
(* not this library: Unpacker() does not read them.                        *)
(***************************************************************************)
EXTENDS Naturals, Sequences, FiniteSets

CONSTANTS
  Sizes,       \* of strings and ByteBuffers
  Modulus,     \* of uint32_t, 2^32 in the code
  Arrivals,    \* by how much a read may bring more than it waits for
  MaxArgs, MaxPackets  \* bounds

sizeof_hdr == 12

ASSUME BoundsTyped ==
  /\ Sizes \subseteq Nat /\ Arrivals \subseteq Nat
  /\ MaxArgs \in Nat /\ MaxPackets \in Nat
ASSUME SmallPacketsFit ==
  /\ Modulus \in Nat /\ 3 * sizeof_hdr <= Modulus
  /\ sizeof_hdr + MaxArgs * 4 < Modulus
  /\ \A size \in Sizes : size < Modulus

VARIABLES
  pkt,      \* the packet Packer() is building: ofs is the capacity of data
  sent,     \* how many packets have been sent
  wire,     \* the packets on the stream that onRead() has not consumed
  rd_buf,   \* how many bytes of them are in rd_buf
  wanted,   \* how many more the read in progress waits for
  posted,   \* the packets whose callback is posted
  rx,       \* the packet the callback unpacks: ofs is the read cursor
  taken     \* the last tuple unpacked
vars == <<pkt, sent, wire, rd_buf, wanted, posted, rx, taken>>

NoPacket == [given |-> <<>>]

Value(type, size, place) == [type |-> type, size |-> size, place |-> place]
Garbage == Value("garbage", 0, <<0, 0>>)

\* The values that may be packed at a place.
Values(place) ==
  {Value("uint8_t", 1, place), Value("uint32_t", 4, place)}
    \cup {Value(type, size, place) : type \in {"string", "ByteBuffer"}, size \in Sizes}

(***************************************************************************)
(* PackerSetValue.  A piece is appended, in more memory if the capacity is *)
(* too small for it.  The size of a buffer is added to the length in 32    *)
(* bits, that of a number in 64.                                           *)
(***************************************************************************)
Written(p, type, size, what, ofs) ==
  [p EXCEPT !.ofs = ofs, !.len = (@ + size) % Modulus,
            !.data = @ \cup {[type |-> type, at |-> p.len, size |-> size, what |-> what]}]

\* Wrong: the capacity doubles, whatever is to go in.
GrownDoubling(p, size) == (2 * p.ofs) % Modulus

\* Wrong: the capacity is kept in 64 bits.
GrownWide(p, size) == 2 * p.ofs + size

Grown(p, size) == (2 * p.ofs + size) % Modulus

PutNumber(p, type, size, what) ==
  Written(p, type, size, what, IF p.len + size > p.ofs THEN Grown(p, size) ELSE p.ofs)

PutBuffer(p, type, size, what) ==
  Written(p, type, size, what,
          IF (p.len + size) % Modulus > p.ofs THEN Grown(p, size) ELSE p.ofs)

(***************************************************************************)
(* pack_bersize(): the digits of sz to the base 128, the highest first,    *)
(* 128 added to all but the last.                                          *)
(***************************************************************************)
Digit(sz, unit) == (sz \div unit) % 128

\* Wrong: a digit that is 0 is left out.
BerDigitUnlessZero(p, sz, unit) ==
  IF Digit(sz, unit) # 0 THEN PutNumber(p, "digit", 1, 128 + Digit(sz, unit)) ELSE p

BerDigit(p, sz, unit) ==
  IF sz >= unit THEN PutNumber(p, "digit", 1, 128 + Digit(sz, unit)) ELSE p

pack_bersize(p, sz) ==
  LET p4 == BerDigit(p, sz, 268435456)
      p3 == BerDigit(p4, sz, 2097152)
      p2 == BerDigit(p3, sz, 16384)
      p1 == BerDigit(p2, sz, 128)
  IN  PutNumber(p1, "digit", 1, Digit(sz, 1))

PutLength(p, sz) ==
  IF p.ber THEN pack_bersize(p, sz) ELSE PutNumber(p, "length", 4, sz)

PackerSetValue(p, v) ==
  CASE v.type \in {"uint8_t", "uint32_t"} -> PutNumber(p, v.type, v.size, v)
    [] v.type = "string"     -> PutBuffer(PutLength(p, v.size), "string", v.size, v)
    [] v.type = "ByteBuffer" -> PutBuffer(p, "ByteBuffer", v.size, v)

(***************************************************************************)
(* Packer(): the capacity to begin with is that of as many uint32_t as it  *)
(* has arguments.  Its end gives the header the length of what follows it. *)
(***************************************************************************)
Packer ==
  /\ pkt = NoPacket /\ sent < MaxPackets
  /\ \E args \in 1 .. MaxArgs, ber \in BOOLEAN :
       pkt' = [args |-> args, ber |-> ber, given |-> <<>>, data |-> {},
               len |-> sizeof_hdr, ofs |-> sizeof_hdr + args * 4]
  /\ UNCHANGED <<sent, wire, rd_buf, wanted, posted, rx, taken>>

\* A ByteBuffer is unpacked to the end of the packet: it is packed last.
PackerImpl ==
  /\ pkt # NoPacket /\ Len(pkt.given) < pkt.args
  /\ \E v \in Values(<<sent, Len(pkt.given)>>) :
       /\ v.type = "ByteBuffer" => Len(pkt.given) + 1 = pkt.args
       /\ pkt' = [PackerSetValue(pkt, v) EXCEPT !.given = Append(@, v)]
  /\ UNCHANGED <<sent, wire, rd_buf, wanted, posted, rx, taken>>

Inside(p) == \A piece \in p.data : piece.at + piece.size <= p.ofs

\* A packet that has been written past its memory is not followed further.
PackerReturns ==
  /\ pkt # NoPacket /\ Len(pkt.given) = pkt.args /\ Inside(pkt)
  /\ pkt' = NoPacket /\ sent' = sent + 1
  /\ wire' = Append(wire, [raw |-> pkt.len - sizeof_hdr, data |-> pkt.data,
                           ber |-> pkt.ber, given |-> pkt.given])
  /\ UNCHANGED <<rd_buf, wanted, posted, rx, taken>>

(***************************************************************************)
(* onRead(), when a read has filled rd_buf: the whole packets in it are    *)
(* posted to their callbacks, each a copy, and the rest of the next one,   *)
(* or of its header, is waited for.                                        *)
(***************************************************************************)
want_read(p) == sizeof_hdr + p.raw

\* The bytes of the first n packets of the stream.
Before(n) ==
  LET total[k \in 0 .. n] == IF k = 0 THEN 0 ELSE total[k - 1] + want_read(wire[k])
  IN  total[n]

\* Wrong: a header is waited for whole, whatever has come of it.
StillWantedAnew(n, left) ==
  IF left >= sizeof_hdr THEN want_read(wire[n + 1]) - left ELSE sizeof_hdr

StillWanted(n, left) ==
  (IF left >= sizeof_hdr THEN want_read(wire[n + 1]) ELSE sizeof_hdr) - left

onRead ==
  /\ \E more \in Arrivals :
       LET bytes == rd_buf + wanted + more
           whole == CHOOSE n \in 0 .. Len(wire) :
                      Before(n) <= bytes /\ (n = Len(wire) \/ Before(n + 1) > bytes)
           left == bytes - Before(whole)
       IN  /\ bytes <= Before(Len(wire))
           /\ posted' = posted \o SubSeq(wire, 1, whole)
           /\ wire' = SubSeq(wire, whole + 1, Len(wire))
           /\ rd_buf' = left /\ wanted' = StillWanted(whole, left)
  /\ UNCHANGED <<pkt, sent, rx, taken>>

(***************************************************************************)
(* Unpacker().  The first call puts the cursor behind the header and adds  *)
(* the size of the header to hdr.len.  UnpackerGetValue compares the end   *)
(* of what it reads, less that size, with hdr.len: of a number, also of    *)
(* the length of a string, in 64 bits; of the characters of a string with  *)
(* their end added up in 32 bits; of a ByteBuffer not at all.              *)
(***************************************************************************)
CallbackRuns ==
  /\ rx = NoPacket /\ posted # <<>>
  /\ rx' = [raw |-> Head(posted).raw, data |-> Head(posted).data,
            ber |-> Head(posted).ber, given |-> Head(posted).given,
            len |-> Head(posted).raw, ofs |-> 0,
            got |-> <<>>,        \* what has been unpacked of it
            done |-> FALSE,      \* whether that has been all of it, once
            again |-> FALSE,     \* whether it has been begun anew
            beyond |-> FALSE]    \* whether more has been asked than was packed
  /\ posted' = Tail(posted)
  /\ UNCHANGED <<pkt, sent, wire, rd_buf, wanted, taken>>

\* Wrong: hdr.len is left alone.
SetupUnhacked(r) == IF r.ofs = 0 THEN [r EXCEPT !.ofs = sizeof_hdr] ELSE r

Setup(r) ==
  IF r.ofs = 0
  THEN [r EXCEPT !.len = r.raw + sizeof_hdr, !.ofs = sizeof_hdr] ELSE r

BytesLeft(r) == (r.len + Modulus - r.ofs) % Modulus

Missmatch(r, size) == r.ofs + size > r.len + sizeof_hdr

MissmatchInside(r, size) ==
  LET end == (r.ofs + size) % Modulus
  IN  end < sizeof_hdr \/ end > r.len + sizeof_hdr

At(r, ofs, type, size) ==
  LET pieces == {piece \in r.data : piece.at = ofs /\ piece.type = type /\ piece.size = size}
  IN  IF pieces = {} THEN Garbage ELSE (CHOOSE piece \in pieces : TRUE).what

Advance(r, size) == [r EXCEPT !.ofs = (@ + size) % Modulus]

\* A BER length, as the peer reads it: digits up to the first below 128.
BerLength(r) ==
  LET digit(n) == At(r, r.ofs + n - 1, "digit", 1)
      last == CHOOSE n \in 1 .. 5 : digit(n) < 128 /\ \A k \in 1 .. n - 1 : digit(k) >= 128
      sum[n \in 0 .. last] == IF n = 0 THEN 0 ELSE (128 * sum[n - 1]) + (digit(n) % 128)
  IN  [bytes |-> last, size |-> sum[last]]

Stringlength(r) ==
  IF r.ber THEN BerLength(r) ELSE [bytes |-> 4, size |-> At(r, r.ofs, "length", 4)]

\* What is read for a value of a type: how many bytes first, and how many of it.
Asked(r, type) ==
  CASE type = "uint8_t"    -> [bytes |-> 0, size |-> 1]
    [] type = "uint32_t"   -> [bytes |-> 0, size |-> 4]
    [] type = "string"     -> Stringlength(r)
    [] type = "ByteBuffer" -> [bytes |-> 0, size |-> BytesLeft(r)]

Missmatches(r, type, ask) ==
  CASE type = "string" -> \/ Missmatch(r, ask.bytes)
                          \/ MissmatchInside(Advance(r, ask.bytes), ask.size)
    [] type = "ByteBuffer" -> FALSE
    [] OTHER -> Missmatch(r, ask.size)

\* A tuple_missmatch leaves the callback: the packet goes with it.
Refused == rx' = NoPacket /\ UNCHANGED taken

\* The next value of the tuple.
Unpacker ==
  /\ rx # NoPacket /\ Len(rx.got) < Len(rx.given)
  /\ LET r    == Setup(rx)
         type == rx.given[Len(rx.got) + 1].type
         ask  == Asked(r, type)
         got  == Append(rx.got, At(r, r.ofs + ask.bytes, type, ask.size))
         done == Len(got) = Len(rx.given)
     IN  IF Missmatches(r, type, ask) THEN Refused
         ELSE /\ rx' = [Advance(r, ask.bytes + ask.size) EXCEPT
                          !.got = got, !.done = @ \/ done]
              /\ taken' = IF done THEN got ELSE taken
  /\ UNCHANGED <<pkt, sent, wire, rd_buf, wanted, posted>>

\* A number that was not packed.
UnpackerBeyond ==
  /\ rx # NoPacket /\ Len(rx.got) = Len(rx.given)
  /\ \E size \in {1, 4} :
       IF Missmatch(rx, size) THEN Refused
       ELSE rx' = [Advance(rx, size) EXCEPT !.beyond = TRUE] /\ UNCHANGED taken
  /\ UNCHANGED <<pkt, sent, wire, rd_buf, wanted, posted>>

\* Reset(), or a move of the packet, which takes the cursor back and not hdr.len.
BeginAnew ==
  /\ rx # NoPacket /\ ~rx.again /\ ~rx.beyond
  /\ \E len \in {rx.raw, rx.len} :
       rx' = [rx EXCEPT !.ofs = 0, !.len = len, !.got = <<>>, !.again = TRUE]
  /\ UNCHANGED <<pkt, sent, wire, rd_buf, wanted, posted, taken>>

CallbackReturns ==
  /\ rx # NoPacket /\ Len(rx.got) = Len(rx.given)
  /\ rx' = NoPacket
  /\ UNCHANGED <<pkt, sent, wire, rd_buf, wanted, posted, taken>>

Init ==
  /\ pkt = NoPacket /\ sent = 0
  /\ wire = <<>> /\ rd_buf = 0 /\ wanted = sizeof_hdr
  /\ posted = <<>> /\ rx = NoPacket /\ taken = <<>>

Next ==
  \/ Packer \/ PackerImpl \/ PackerReturns
  \/ onRead \/ CallbackRuns
  \/ Unpacker \/ UnpackerBeyond \/ BeginAnew \/ CallbackReturns

Spec == Init /\ [][Next]_vars
-----------------------------------------------------------------------------
(* Lengths, capacities and cursors stay within uint32_t. *)
WireTypeOK ==
  /\ pkt # NoPacket =>
       /\ pkt.len \in 0 .. Modulus - 1 /\ pkt.ofs \in 0 .. Modulus - 1
       /\ Len(pkt.given) <= pkt.args
  /\ sent \in 0 .. MaxPackets
  /\ \A k \in 1 .. Len(wire) : wire[k].raw \in 0 .. Modulus - 1
  /\ rd_buf \in Nat /\ wanted \in Nat
  /\ rx # NoPacket => rx.len \in 0 .. Modulus - 1 /\ rx.ofs \in 0 .. Modulus - 1

(* Packer() writes within the memory it has asked for, as long as the       *)
(* packet is no longer than a third of what uint32_t counts; beyond that the *)
(* capacity may wrap around and the value is copied past it                  *)
(* (iproto.cpp:59-122).                                                      *)
InAllocation ==
  pkt # NoPacket =>
    \/ Inside(pkt)
    \/ \E piece \in pkt.data : 3 * (piece.at + piece.size) > Modulus

(* A read waits for exactly what completes the header or the packet that    *)
(* has begun, never for bytes of the one behind it, which the peer may       *)
(* send only when this one is answered (iproto_conn.cpp:148-162).            *)
WaitsForThisPacket ==
  IF rd_buf >= sizeof_hdr
  THEN wire # <<>> /\ rd_buf + wanted = want_read(Head(wire))
  ELSE rd_buf + wanted = sizeof_hdr

(* Unpacking the types that were packed keeps the cursor in the packet, and *)
(* BytesLeft() is what is left of it, but for a packet begun anew and not    *)
(* read since.  Asked for more, Unpacker() refuses only what ends a header's *)
(* size beyond the packet: hdr.len has been increased by as much             *)
(* (iproto.hpp:112-117, iproto.cpp:128).                                     *)
CursorTrue ==
  rx # NoPacket =>
    LET end == sizeof_hdr + rx.raw
        cursor == IF rx.ofs = 0 THEN sizeof_hdr ELSE rx.ofs
    IN  /\ cursor <= IF rx.beyond THEN end + sizeof_hdr ELSE end
        /\ \/ rx.beyond \/ (rx.again /\ rx.ofs = 0)
           \/ BytesLeft(rx) = end - cursor

(* What is sent and not taken: the packet being unpacked, those whose       *)
(* callback is posted, and those on the stream.                              *)
carried ==
  LET packets == posted \o wire
  IN  (IF rx = NoPacket \/ (rx # NoPacket /\ rx.done) THEN <<>> ELSE <<rx.given>>)
        \o [k \in 1 .. Len(packets) |-> packets[k].given]

Channel == INSTANCE IProtoChannel

(* Packing, the stream and unpacking implement a channel of tuples: each is *)
(* taken as it was packed, whole, in order and once, reading a packet anew   *)
(* gives it again, and none is refused.                                      *)
ImplementsChannel == Channel!Spec
================================================================================

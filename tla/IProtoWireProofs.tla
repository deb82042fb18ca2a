---------------------------- MODULE IProtoWireProofs ----------------------------
(***************************************************************************)
(* Proofs about IProtoWire, for any sizes of strings, any number of        *)
(* arguments and packets, any reads and any width of uint32_t that a       *)
(* packet without strings fits in: Packer() writes inside its memory, a    *)
(* read waits for no more than the packet that has begun, the cursor of    *)
(* Unpacker() is where the next value lies, and all of it together is a    *)
(* channel of tuples.                                                      *)
(*                                                                         *)
(* InAllocation is not inductive: that the capacity suffices now does not  *)
(* say that it will.  What does is PacketOK: as long as nothing ends in    *)
(* the last two thirds, the length is not above the capacity, all pieces   *)
(* end at the length or before, and a third of the modulus bounds it.      *)
(*                                                                         *)
(* The rest is proved from what a packet is, Packed: its values lie one    *)
(* behind the other (LaidOut) and no two pieces can be read for one        *)
(* another.  PktInv says it of the packet being built until an offset      *)
(* wraps around, StreamInv of those on the stream and posted, RxOK of the  *)
(* one being read, whose cursor is where the value after those it has got  *)
(* lies.                                                                   *)
(***************************************************************************)
EXTENDS IProtoWire, WellFoundedInduction, SequenceTheorems, TLAPS

Ends(piece) == piece.at + piece.size
Long(p) == \E piece \in p.data : 3 * Ends(piece) > Modulus

PacketOK(p) ==
  /\ p = [args |-> p.args, ber |-> p.ber, given |-> p.given, data |-> p.data,
          len |-> p.len, ofs |-> p.ofs]
  /\ p.len \in 0 .. Modulus - 1 /\ p.ofs \in 0 .. Modulus - 1
  /\ \A piece \in p.data : piece.at \in Nat /\ piece.size \in Nat
  /\ \/ Long(p)
     \/ /\ p.len <= p.ofs /\ 3 * p.len <= Modulus
        /\ \A piece \in p.data : Ends(piece) <= p.len

LEMMA PacketInside ==
  ASSUME NEW p, PacketOK(p)
  PROVE  Inside(p) \/ Long(p)
  BY SmallPacketsFit DEF PacketOK, Inside, Ends

LEMMA ModulusTyped == Modulus \in Nat /\ Modulus > 0
  BY SmallPacketsFit DEF sizeof_hdr

LEMMA Remainder ==
  ASSUME NEW n \in Nat
  PROVE  n % Modulus \in 0 .. Modulus - 1 /\ (n < Modulus => n % Modulus = n)
  BY ModulusTyped

\* The new capacity holds what is written, if that ends in the first third.
LEMMA WrittenOK ==
  ASSUME NEW p, PacketOK(p), NEW size \in Nat, NEW type, NEW what,
         NEW ofs \in 0 .. Modulus - 1,
         p.len <= p.ofs /\ 3 * (p.len + size) <= Modulus => p.len + size <= ofs
  PROVE  PacketOK(Written(p, type, size, what, ofs))
<1> DEFINE piece == [type |-> type, at |-> p.len, size |-> size, what |-> what]
           w == Written(p, type, size, what, ofs)
<1>1. p.len \in Nat /\ p.len + size \in Nat BY ModulusTyped DEF PacketOK
<1>2. w = [args |-> p.args, ber |-> p.ber, given |-> p.given, data |-> p.data \cup {piece},
           len |-> (p.len + size) % Modulus, ofs |-> ofs]
  <2>1. PICK a, b, g, d, l, o :
          p = [args |-> a, ber |-> b, given |-> g, data |-> d, len |-> l, ofs |-> o]
    BY DEF PacketOK
  <2>2. p.args = a /\ p.ber = b /\ p.given = g /\ p.data = d /\ p.len = l BY <2>1
  <2> DEFINE len == (p.len + size) % Modulus
             data == p.data \cup {piece}
  <2>3. w = [p EXCEPT !.ofs = ofs, !.len = len, !.data = data] BY DEF Written
  <2> HIDE DEF w, len, data
  <2>4. w = [args |-> a, ber |-> b, given |-> g, data |-> data, len |-> len, ofs |-> ofs]
    BY <2>1, <2>3
  <2> USE DEF len, data
  <2> QED BY <2>2, <2>4
<1>3. piece.at = p.len /\ piece.size = size OBVIOUS
<1> HIDE DEF w, piece
<1>4. /\ w.data = p.data \cup {piece} /\ w.len = (p.len + size) % Modulus /\ w.ofs = ofs
      /\ w = [args |-> w.args, ber |-> w.ber, given |-> w.given, data |-> w.data,
              len |-> w.len, ofs |-> w.ofs]
  BY <1>2
<1>5. w.len \in 0 .. Modulus - 1 /\ (p.len + size < Modulus => w.len = p.len + size)
  BY <1>1, <1>4, Remainder
<1>6. \A x \in w.data : x.at \in Nat /\ x.size \in Nat
  BY <1>1, <1>3, <1>4 DEF PacketOK
<1>7. CASE Long(p)
  <2>1. Long(w) BY <1>4, <1>7 DEF Long
  <2> QED BY <1>4, <1>5, <1>6, <2>1 DEF PacketOK, w
<1>8. CASE 3 * (p.len + size) > Modulus
  <2>1. Long(w) BY <1>3, <1>4, <1>8 DEF Long, Ends
  <2> QED BY <1>4, <1>5, <1>6, <2>1 DEF PacketOK, w
<1>9. CASE ~Long(p) /\ 3 * (p.len + size) <= Modulus
  <2>1. p.len <= p.ofs /\ \A x \in p.data : Ends(x) <= p.len BY <1>9 DEF PacketOK
  <2>2. p.len + size < Modulus BY <1>1, <1>9, ModulusTyped
  <2>3. w.len = p.len + size /\ w.len <= ofs /\ 3 * w.len <= Modulus
    BY <1>5, <1>9, <2>1, <2>2
  <2>4. ASSUME NEW x \in w.data PROVE Ends(x) <= w.len
    <3>1. CASE x \in p.data
      <4>1. x.at \in Nat /\ x.size \in Nat BY <3>1 DEF PacketOK
      <4> QED BY <1>1, <2>1, <2>3, <3>1, <4>1 DEF Ends
    <3>2. CASE x = piece BY <1>1, <1>3, <2>3, <3>2 DEF Ends
    <3> QED BY <1>4, <3>1, <3>2
  <2> QED BY <1>4, <1>5, <1>6, <2>3, <2>4 DEF PacketOK, w
<1> QED BY <1>1, <1>7, <1>8, <1>9, ModulusTyped

LEMMA GrownOK ==
  ASSUME NEW p, PacketOK(p), NEW size \in Nat
  PROVE  /\ Grown(p, size) \in 0 .. Modulus - 1
         /\ p.len <= p.ofs /\ 3 * (p.len + size) <= Modulus /\ p.len + size > p.ofs
              => p.len + size <= Grown(p, size)
<1>1. p.len \in Nat /\ p.ofs \in Nat /\ 2 * p.ofs + size \in Nat
  BY ModulusTyped DEF PacketOK
<1>2. /\ Grown(p, size) \in 0 .. Modulus - 1
      /\ 2 * p.ofs + size < Modulus => Grown(p, size) = 2 * p.ofs + size
  BY <1>1, Remainder DEF Grown
<1>3. p.len <= p.ofs /\ 3 * (p.len + size) <= Modulus /\ p.len + size > p.ofs
        => 2 * p.ofs + size < Modulus /\ p.len + size <= 2 * p.ofs + size
  BY <1>1, ModulusTyped
<1> QED BY <1>2, <1>3

LEMMA PutNumberOK ==
  ASSUME NEW p, PacketOK(p), NEW size \in Nat, NEW type, NEW what
  PROVE  PacketOK(PutNumber(p, type, size, what))
<1> DEFINE ofs == IF p.len + size > p.ofs THEN Grown(p, size) ELSE p.ofs
<1>1. p.len \in Nat /\ p.ofs \in 0 .. Modulus - 1 BY ModulusTyped DEF PacketOK
<1>2. /\ ofs \in 0 .. Modulus - 1
      /\ p.len <= p.ofs /\ 3 * (p.len + size) <= Modulus => p.len + size <= ofs
  BY <1>1, GrownOK, ModulusTyped
<1>3. PutNumber(p, type, size, what) = Written(p, type, size, what, ofs) BY DEF PutNumber
<1> HIDE DEF ofs
<1> QED BY <1>2, <1>3, WrittenOK

LEMMA PutBufferOK ==
  ASSUME NEW p, PacketOK(p), NEW size \in Nat, NEW type, NEW what
  PROVE  PacketOK(PutBuffer(p, type, size, what))
<1> DEFINE ofs == IF (p.len + size) % Modulus > p.ofs THEN Grown(p, size) ELSE p.ofs
<1>1. p.len \in Nat /\ p.ofs \in 0 .. Modulus - 1 /\ p.len + size \in Nat
  BY ModulusTyped DEF PacketOK
<1>2. 3 * (p.len + size) <= Modulus => (p.len + size) % Modulus = p.len + size
  <2>1. 3 * (p.len + size) <= Modulus => p.len + size < Modulus BY <1>1, ModulusTyped
  <2> QED BY <1>1, <2>1, Remainder
<1>3. /\ ofs \in 0 .. Modulus - 1
      /\ p.len <= p.ofs /\ 3 * (p.len + size) <= Modulus => p.len + size <= ofs
  BY <1>1, <1>2, GrownOK, ModulusTyped
<1>4. PutBuffer(p, type, size, what) = Written(p, type, size, what, ofs) BY DEF PutBuffer
<1> HIDE DEF ofs
<1> QED BY <1>3, <1>4, WrittenOK

\* A length, of four bytes or of up to five digits.
LEMMA PutLengthOK ==
  ASSUME NEW p, PacketOK(p), NEW sz \in Nat
  PROVE  PacketOK(PutLength(p, sz))
<1>1. ASSUME NEW q, PacketOK(q), NEW unit PROVE PacketOK(BerDigit(q, sz, unit))
  BY <1>1, PutNumberOK DEF BerDigit
<1>2. PacketOK(pack_bersize(p, sz)) BY <1>1, PutNumberOK DEF pack_bersize
<1>3. PacketOK(PutNumber(p, "length", 4, sz)) BY PutNumberOK
<1> QED BY <1>2, <1>3 DEF PutLength

LEMMA PackerSetValueOK ==
  ASSUME NEW p, PacketOK(p), NEW place, NEW v \in Values(place)
  PROVE  PacketOK(PackerSetValue(p, v))
<1>1. v.size \in Nat /\ v.type \in {"uint8_t", "uint32_t", "string", "ByteBuffer"}
  BY BoundsTyped DEF Values, Value
<1>2. CASE v.type \in {"uint8_t", "uint32_t"}
  BY <1>1, <1>2, PutNumberOK DEF PackerSetValue
<1>3. CASE v.type = "string"
  <2>1. PacketOK(PutLength(p, v.size)) BY <1>1, PutLengthOK
  <2>2. PacketOK(PutBuffer(PutLength(p, v.size), "string", v.size, v))
    BY <1>1, <2>1, PutBufferOK
  <2> QED BY <1>3, <2>2 DEF PackerSetValue
<1>4. CASE v.type = "ByteBuffer"
  BY <1>1, <1>4, PutBufferOK DEF PackerSetValue
<1> QED BY <1>1, <1>2, <1>3, <1>4

WireInv == pkt # NoPacket => PacketOK(pkt)

LEMMA PackerOK == ASSUME Packer PROVE PacketOK(pkt')
<1>1. PICK args \in 1 .. MaxArgs, ber \in BOOLEAN :
        pkt' = [args |-> args, ber |-> ber, given |-> <<>>, data |-> {},
                len |-> sizeof_hdr, ofs |-> sizeof_hdr + args * 4]
  BY DEF Packer
<1>2. /\ pkt'.len = sizeof_hdr /\ pkt'.ofs = sizeof_hdr + args * 4 /\ pkt'.data = {}
      /\ pkt' = [args |-> pkt'.args, ber |-> pkt'.ber, given |-> pkt'.given,
                 data |-> pkt'.data, len |-> pkt'.len, ofs |-> pkt'.ofs]
  BY <1>1
<1>3. args \in Nat /\ args <= MaxArgs /\ MaxArgs \in Nat BY BoundsTyped
<1> QED BY <1>2, <1>3, SmallPacketsFit DEF PacketOK, sizeof_hdr

LEMMA PackerImplOK == ASSUME WireInv, PackerImpl PROVE PacketOK(pkt')
<1>1. PICK v \in Values(<<sent, Len(pkt.given)>>) :
        pkt' = [PackerSetValue(pkt, v) EXCEPT !.given = Append(@, v)]
  BY DEF PackerImpl
<1> DEFINE p == PackerSetValue(pkt, v)
<1>2. PacketOK(p) BY <1>1, PackerSetValueOK DEF PackerImpl, WireInv
<1>3. pkt' = [p EXCEPT !.given = Append(@, v)] BY <1>1
<1> HIDE DEF p
<1>4. /\ pkt'.len = p.len /\ pkt'.ofs = p.ofs /\ pkt'.data = p.data
      /\ pkt' = [args |-> pkt'.args, ber |-> pkt'.ber, given |-> pkt'.given,
                 data |-> pkt'.data, len |-> pkt'.len, ofs |-> pkt'.ofs]
  BY <1>2, <1>3 DEF PacketOK
<1> QED BY <1>2, <1>4 DEF PacketOK, Long

LEMMA WireInvStep == WireInv /\ [Next]_vars => WireInv'
<1> SUFFICES ASSUME WireInv, [Next]_vars PROVE WireInv' OBVIOUS
<1>1. CASE Packer BY <1>1, PackerOK DEF WireInv
<1>2. CASE PackerImpl BY <1>2, PackerImplOK DEF WireInv
<1>3. CASE PackerReturns BY <1>3 DEF PackerReturns, WireInv
<1>4. CASE UNCHANGED pkt BY <1>4 DEF WireInv
<1> QED
  BY <1>1, <1>2, <1>3, <1>4
  DEF Next, vars, onRead, CallbackRuns, Unpacker, UnpackerBeyond, BeginAnew, CallbackReturns

(***************************************************************************)
(* Packer() writes within the memory it has asked for, as long as the      *)
(* packet ends in the first third of what uint32_t counts.                 *)
(***************************************************************************)
THEOREM WritesInAllocation == Spec => []InAllocation
<1>1. Init => WireInv BY DEF Init, WireInv
<1>2. WireInv => InAllocation
  BY PacketInside DEF WireInv, InAllocation, Long, Ends
<1> QED BY <1>1, <1>2, WireInvStep, PTL DEF Spec

-----------------------------------------------------------------------------
(***************************************************************************)
(* A set of numbers has a least element: what is claimed of every number   *)
(* is shown of the least of which it might not hold.                       *)
(***************************************************************************)
LEMMA Least ==
  ASSUME NEW T, T \subseteq Nat, T # {}
  PROVE  \E n \in T : \A m \in T : n <= m
<1> DEFINE R == OpToRel(<, Nat)
<1>1. IsWellFoundedOn(R, Nat) BY NatLessThanWellFounded, Zenon
<1>2. \A x \in Nat, y \in Nat : x < y => <<x, y>> \in R BY DEF OpToRel
<1> HIDE DEF R
<1>3. PICK n \in T : \A m \in T : ~(<<m, n>> \in R) BY <1>1, WFMin
<1>4. \A m \in T : ~(m < n) BY <1>2, <1>3
<1> QED BY <1>3, <1>4

(***************************************************************************)
(* The recursive function of Before(), for any number of packets.          *)
(***************************************************************************)
Totals(n, f) == f = [k \in 0 .. n |-> IF k = 0 THEN 0 ELSE f[k - 1] + want_read(wire[k])]

LEMMA BeforeDef == ASSUME NEW n PROVE Before(n) = (CHOOSE f : Totals(n, f))[n]
  BY DEF Before, Totals

LEMMA TotalsStep ==
  ASSUME NEW n \in Nat, NEW f, Totals(n, f), NEW k \in 0 .. n
  PROVE  f[k] = IF k = 0 THEN 0 ELSE f[k - 1] + want_read(wire[k])
  BY DEF Totals

LEMMA TotalsExist == \A n \in Nat : \E f : Totals(n, f)
<1> DEFINE T == {n \in Nat : ~ \E f : Totals(n, f)}
<1> SUFFICES ASSUME T # {} PROVE FALSE OBVIOUS
<1>1. PICK n \in T : \A m \in T : n <= m
  <2>1. T \subseteq Nat OBVIOUS
  <2> HIDE DEF T
  <2> QED BY <2>1, Least
<1>2. n \in Nat /\ ~ \E f : Totals(n, f) OBVIOUS
<1>3. CASE n = 0
  <2> DEFINE f == [k \in 0 .. 0 |-> 0]
  <2>1. Totals(0, f)
    <3>1. \A k \in 0 .. 0 : k = 0 OBVIOUS
    <3> QED BY <3>1 DEF Totals
  <2> QED BY <1>2, <1>3, <2>1
<1>4. CASE n # 0
  <2>1. n - 1 \in Nat /\ n - 1 \notin T BY <1>1, <1>2, <1>4
  <2>2. PICK f : Totals(n - 1, f) BY <2>1
  <2> DEFINE g == [k \in 0 .. n |-> IF k = n THEN f[n - 1] + want_read(wire[n]) ELSE f[k]]
  <2>3. ASSUME NEW k \in 0 .. n
        PROVE  g[k] = IF k = 0 THEN 0 ELSE g[k - 1] + want_read(wire[k])
    <3>1. CASE k = n
      <4>1. k # 0 /\ n - 1 \in 0 .. n /\ n - 1 # n /\ g[n - 1] = f[n - 1] BY <1>2, <1>4, <3>1
      <4>2. g[n] = f[n - 1] + want_read(wire[n]) BY <1>2
      <4> QED BY <3>1, <4>1, <4>2
    <3>2. CASE k # n
      <4>1. k \in 0 .. (n - 1) BY <1>2, <3>2
      <4>2. g[k] = f[k] BY <3>2
      <4>3. k # 0 => k - 1 \in 0 .. n /\ k - 1 # n /\ g[k - 1] = f[k - 1] BY <1>2, <4>1
      <4> QED BY <2>1, <2>2, <4>1, <4>2, <4>3, TotalsStep
    <3> QED BY <3>1, <3>2
  <2>4. Totals(n, g)
    <3>1. g = [k \in 0 .. n |-> g[k]] OBVIOUS
    <3>2. g = [k \in 0 .. n |-> IF k = 0 THEN 0 ELSE g[k - 1] + want_read(wire[k])]
      BY <2>3, <3>1
    <3> QED BY <3>2 DEF Totals
  <2> QED BY <1>2, <2>4
<1> QED BY <1>3, <1>4

LEMMA TotalsAgree ==
  ASSUME NEW n \in Nat, NEW f, Totals(n, f), NEW l \in Nat, NEW g, Totals(l, g), n <= l
  PROVE  \A k \in 0 .. n : f[k] = g[k]
<1> DEFINE T == {k \in 0 .. n : f[k] # g[k]}
<1> SUFFICES ASSUME T # {} PROVE FALSE OBVIOUS
<1>1. PICK k \in T : \A m \in T : k <= m
  <2>1. T \subseteq Nat OBVIOUS
  <2> HIDE DEF T
  <2> QED BY <2>1, Least
<1>2. k \in 0 .. n /\ k \in 0 .. l /\ f[k] # g[k] OBVIOUS
<1>3. /\ f[k] = IF k = 0 THEN 0 ELSE f[k - 1] + want_read(wire[k])
      /\ g[k] = IF k = 0 THEN 0 ELSE g[k - 1] + want_read(wire[k])
  BY <1>2, TotalsStep
<1>4. CASE k # 0
  <2>1. k - 1 \in 0 .. n /\ k - 1 \notin T BY <1>1, <1>2, <1>4
  <2> QED BY <1>2, <1>3, <1>4, <2>1
<1> QED BY <1>2, <1>3, <1>4

LEMMA BeforeStep ==
  /\ Before(0) = 0
  /\ \A n \in Nat : Before(n + 1) = Before(n) + want_read(wire[n + 1])
<1> DEFINE total(n) == CHOOSE f : Totals(n, f)
<1>1. \A n \in Nat : Totals(n, total(n)) BY TotalsExist
<1>2. \A n \in Nat : Before(n) = total(n)[n] BY BeforeDef
<1> HIDE DEF total
<1>3. Before(0) = 0
  <2>1. 0 \in Nat /\ 0 \in 0 .. 0 OBVIOUS
  <2> QED BY <1>1, <1>2, <2>1, TotalsStep
<1>4. ASSUME NEW n \in Nat PROVE Before(n + 1) = Before(n) + want_read(wire[n + 1])
  <2>1. n + 1 \in Nat /\ n + 1 \in 0 .. (n + 1) /\ n + 1 # 0 /\ (n + 1) - 1 = n
        /\ n \in 0 .. n /\ n <= n + 1
    OBVIOUS
  <2>2. total(n + 1)[n + 1] = total(n + 1)[n] + want_read(wire[n + 1])
    BY <1>1, <2>1, TotalsStep
  <2>3. total(n)[n] = total(n + 1)[n] BY <1>1, <2>1, TotalsAgree
  <2> QED BY <1>2, <2>1, <2>2, <2>3
<1> QED BY <1>3, <1>4

(***************************************************************************)
(* The packets on the stream.                                              *)
(***************************************************************************)
Raws == {n \in Nat : sizeof_hdr + n < Modulus}
ValueSet ==
  {v \in [type : {"uint8_t", "uint32_t", "string", "ByteBuffer"},
          size : 0 .. Modulus - 1, place : Nat \X Nat] :
     /\ v.type = "uint8_t" => v.size = 1
     /\ v.type = "uint32_t" => v.size = 4}
PieceSet ==
  [type : {"uint8_t", "uint32_t", "string", "ByteBuffer", "length", "digit"},
   at : Nat, size : Nat, what : Nat \cup ValueSet]

Piece(type, at, size, what) == [type |-> type, at |-> at, size |-> size, what |-> what]

\* No two pieces are read for one another.
Distinct(data) ==
  \A x, y \in data : x.at = y.at /\ x.type = y.type /\ x.size = y.size => x = y

\* The digits of a BER length, from an offset on: as many as it takes.
Units == <<1, 128, 16384, 2097152, 268435456>>
BerLaid(data, sz, from, to) ==
  \E n \in 1 .. 5 :
    /\ to = from + n
    /\ n > 1 => sz >= Units[n]
    /\ n < 5 => sz < Units[n + 1]
    /\ \A k \in 1 .. n :
         Piece("digit", from + k - 1, 1,
               (IF k < n THEN 128 ELSE 0) + Digit(sz, Units[n - k + 1])) \in data

LengthLaid(p, sz, from, to) ==
  IF p.ber THEN BerLaid(p.data, sz, from, to)
  ELSE to = from + 4 /\ Piece("length", from, 4, sz) \in p.data

\* A value lies from one offset to another, a string behind its length.
Laid(p, v, from, to) ==
  \E mid \in Nat :
    /\ IF v.type = "string" THEN LengthLaid(p, v.size, from, mid) ELSE mid = from
    /\ to = mid + v.size
    /\ Piece(v.type, mid, v.size, v) \in p.data

\* The values that were given lie one behind the other, and are all there is.
LaidOut(p, at, end) ==
  /\ at \in [0 .. Len(p.given) -> Nat]
  /\ at[0] = sizeof_hdr /\ at[Len(p.given)] = end
  /\ \A k \in 0 .. Len(p.given) : sizeof_hdr <= at[k] /\ at[k] <= end
  /\ \A k \in 1 .. Len(p.given) : Laid(p, p.given[k], at[k - 1], at[k])

Packed(p) ==
  /\ Distinct(p.data)
  /\ p.given # <<>>
  /\ \A k \in 1 .. Len(p.given) : p.given[k].type = "ByteBuffer" => k = Len(p.given)
  /\ \E at : LaidOut(p, at, want_read(p))

PacketSet ==
  {p \in [raw : Raws, data : SUBSET PieceSet, ber : BOOLEAN, given : Seq(ValueSet)] : Packed(p)}

LEMMA BeforeTyped ==
  ASSUME wire \in Seq(PacketSet)
  PROVE  \A n \in 0 .. Len(wire) : Before(n) \in Nat
<1> DEFINE T == {n \in 0 .. Len(wire) : Before(n) \notin Nat}
<1> SUFFICES ASSUME T # {} PROVE FALSE OBVIOUS
<1>1. PICK n \in T : \A m \in T : n <= m
  <2>1. T \subseteq Nat OBVIOUS
  <2> HIDE DEF T
  <2> QED BY <2>1, Least
<1>2. n \in 0 .. Len(wire) /\ Before(n) \notin Nat /\ Len(wire) \in Nat OBVIOUS
<1>3. n # 0
  <2>1. Before(0) = 0 BY BeforeStep
  <2> QED BY <1>2, <2>1
<1>4. n - 1 \in Nat /\ n - 1 \in 0 .. Len(wire) /\ n - 1 \notin T /\ (n - 1) + 1 = n
  BY <1>1, <1>2, <1>3
<1>5. Before(n - 1) \in Nat BY <1>4
<1>6. Before(n) = Before(n - 1) + want_read(wire[n]) BY <1>4, BeforeStep
<1>7. want_read(wire[n]) \in Nat
  <2>1. wire[n] \in PacketSet BY <1>2, <1>3
  <2> QED BY <2>1 DEF PacketSet, Raws, want_read, sizeof_hdr
<1> QED BY <1>2, <1>5, <1>6, <1>7

\* onRead() finds how many whole packets have come.
Whole(n, bytes) == Before(n) <= bytes /\ (n = Len(wire) \/ Before(n + 1) > bytes)

LEMMA WholeExists ==
  ASSUME wire \in Seq(PacketSet), NEW bytes \in Nat
  PROVE  \E n \in 0 .. Len(wire) : Whole(n, bytes)
<1> DEFINE T == {m \in 0 .. Len(wire) : Before(Len(wire) - m) <= bytes}
<1>1. Len(wire) \in Nat OBVIOUS
<1>2. Len(wire) \in T
  <2>1. Len(wire) - Len(wire) = 0 BY <1>1
  <2>2. Before(Len(wire) - Len(wire)) <= bytes BY <2>1, BeforeStep
  <2> QED BY <1>1, <2>2
<1>3. T \subseteq Nat OBVIOUS
<1>4. PICK m \in T : \A k \in T : m <= k
  <2> HIDE DEF T
  <2> QED BY <1>2, <1>3, Least
<1> DEFINE n == Len(wire) - m
<1>5. m \in 0 .. Len(wire) /\ Before(n) <= bytes OBVIOUS
<1>6. n \in 0 .. Len(wire) BY <1>1, <1>5
<1>7. CASE n # Len(wire)
  <2>1. m - 1 \in 0 .. Len(wire) /\ m - 1 \notin T /\ Len(wire) - (m - 1) = n + 1
    BY <1>1, <1>4, <1>5, <1>7
  <2>2. n + 1 \in 0 .. Len(wire) BY <1>1, <1>6, <1>7
  <2>3. ~(Before(n + 1) <= bytes) BY <2>1
  <2>4. Before(n + 1) \in Nat BY <2>2, BeforeTyped
  <2>5. Before(n + 1) > bytes BY <2>3, <2>4
  <2> QED BY <1>5, <1>6, <2>5 DEF Whole
<1> QED BY <1>5, <1>6, <1>7 DEF Whole

(***************************************************************************)
(* What a read leaves in rd_buf is less than the packet that has begun.    *)
(***************************************************************************)
StreamInv ==
  /\ wire \in Seq(PacketSet) /\ posted \in Seq(PacketSet)
  /\ rd_buf \in Nat /\ wanted \in Nat
  /\ WaitsForThisPacket

LEMMA OnReadCuts ==
  ASSUME StreamInv, onRead
  PROVE  \E n \in 0 .. Len(wire) :
           /\ posted' = posted \o SubSeq(wire, 1, n)
           /\ wire' = SubSeq(wire, n + 1, Len(wire))
           /\ rd_buf' \in Nat /\ wanted' = StillWanted(n, rd_buf')
           /\ \/ rd_buf' < sizeof_hdr
              \/ n # Len(wire) /\ rd_buf' < want_read(wire[n + 1])
<1>1. PICK more \in Arrivals :
       LET bytes == rd_buf + wanted + more
           whole == CHOOSE n \in 0 .. Len(wire) :
                      Before(n) <= bytes /\ (n = Len(wire) \/ Before(n + 1) > bytes)
           left == bytes - Before(whole)
       IN  /\ bytes <= Before(Len(wire))
           /\ posted' = posted \o SubSeq(wire, 1, whole)
           /\ wire' = SubSeq(wire, whole + 1, Len(wire))
           /\ rd_buf' = left /\ wanted' = StillWanted(whole, left)
  BY DEF onRead
<1> DEFINE bytes == rd_buf + wanted + more
           whole == CHOOSE n \in 0 .. Len(wire) : Whole(n, bytes)
           left == bytes - Before(whole)
<1>2. bytes \in Nat BY BoundsTyped DEF StreamInv
<1>3. /\ bytes <= Before(Len(wire))
      /\ posted' = posted \o SubSeq(wire, 1, whole)
      /\ wire' = SubSeq(wire, whole + 1, Len(wire))
      /\ rd_buf' = left /\ wanted' = StillWanted(whole, left)
  BY <1>1, Zenon DEF Whole
<1>4. whole \in 0 .. Len(wire) /\ Whole(whole, bytes)
  <2> HIDE DEF bytes
  <2>1. \E n \in 0 .. Len(wire) : Whole(n, bytes) BY <1>2, WholeExists DEF StreamInv
  <2> QED BY <2>1, Zenon
<1> HIDE DEF bytes, whole
<1>5. Before(whole) \in Nat /\ Len(wire) \in Nat BY <1>4, BeforeTyped DEF StreamInv
<1>6. left \in Nat BY <1>2, <1>4, <1>5 DEF Whole
<1>7. CASE whole = Len(wire)
  <2>1. left < sizeof_hdr BY <1>2, <1>3, <1>5, <1>7 DEF sizeof_hdr
  <2> QED BY <1>3, <1>4, <1>6, <2>1
<1>8. CASE whole # Len(wire)
  <2>1. whole + 1 \in 0 .. Len(wire) /\ whole \in Nat BY <1>4, <1>5, <1>8
  <2>2. Before(whole + 1) = Before(whole) + want_read(wire[whole + 1]) BY <2>1, BeforeStep
  <2>3. Before(whole + 1) \in Nat /\ Before(whole + 1) > bytes
    BY <1>4, <1>8, <2>1, BeforeTyped DEF Whole, StreamInv
  <2>4. want_read(wire[whole + 1]) \in Nat
    <3>1. wire[whole + 1] \in PacketSet BY <1>4, <1>5, <1>8, <2>1 DEF StreamInv
    <3> QED BY <3>1 DEF PacketSet, Raws, want_read, sizeof_hdr
  <2>5. left < want_read(wire[whole + 1]) BY <1>2, <1>5, <2>2, <2>3, <2>4
  <2> QED BY <1>3, <1>4, <1>6, <1>8, <2>5
<1> QED BY <1>7, <1>8

LEMMA OnReadStream == ASSUME StreamInv, onRead PROVE StreamInv'
<1>1. PICK n \in 0 .. Len(wire) :
           /\ posted' = posted \o SubSeq(wire, 1, n)
           /\ wire' = SubSeq(wire, n + 1, Len(wire))
           /\ rd_buf' \in Nat /\ wanted' = StillWanted(n, rd_buf')
           /\ \/ rd_buf' < sizeof_hdr
              \/ n # Len(wire) /\ rd_buf' < want_read(wire[n + 1])
  BY OnReadCuts
<1>2. wire \in Seq(PacketSet) /\ posted \in Seq(PacketSet) /\ Len(wire) \in Nat
  BY DEF StreamInv
<1>3. ASSUME NEW k \in 1 .. Len(wire) PROVE wire[k].raw \in Nat
  <2>1. wire[k] \in PacketSet BY <1>2
  <2> QED BY <2>1 DEF PacketSet, Raws
<1>4. SubSeq(wire, 1, n) \in Seq(PacketSet) /\ SubSeq(wire, n + 1, Len(wire)) \in Seq(PacketSet)
  BY <1>2, SubSeqProperties
<1>5. posted' \in Seq(PacketSet) /\ wire' \in Seq(PacketSet) BY <1>1, <1>2, <1>4, ConcatProperties
<1>6. CASE rd_buf' < sizeof_hdr
  <2>1. wanted' = sizeof_hdr - rd_buf' BY <1>1, <1>6 DEF StillWanted, sizeof_hdr
  <2>2. rd_buf' \in Nat BY <1>1
  <2>5. \A left, rest : left \in Nat /\ left < 12 /\ rest = 12 - left
                           => rest \in Nat /\ left + rest = 12 /\ ~(left >= 12)
    OBVIOUS
  <2>6. wanted' = 12 - rd_buf' BY <2>1 DEF sizeof_hdr
  <2>3. wanted' \in Nat /\ rd_buf' + wanted' = sizeof_hdr /\ ~(rd_buf' >= sizeof_hdr)
    BY <1>6, <2>2, <2>5, <2>6, Zenon DEF sizeof_hdr
  <2>4. WaitsForThisPacket' BY <2>3 DEF WaitsForThisPacket
  <2> QED BY <1>5, <2>2, <2>3, <2>4 DEF StreamInv
<1>7. CASE rd_buf' >= sizeof_hdr
  <2>1. n # Len(wire) /\ rd_buf' < want_read(wire[n + 1]) BY <1>1, <1>7 DEF sizeof_hdr
  <2>2. n + 1 \in 1 .. Len(wire) BY <1>2, <2>1
  <2>3. wanted' = want_read(wire[n + 1]) - rd_buf' BY <1>1, <1>7 DEF StillWanted
  <2>4. wanted' \in Nat /\ rd_buf' + wanted' = want_read(wire[n + 1])
    BY <1>1, <1>3, <2>1, <2>2, <2>3 DEF want_read, sizeof_hdr
  <2>5. wire' # <<>> /\ Head(wire') = wire[n + 1]
    <3>1. /\ Len(wire') = Len(wire) - n /\ \A i \in 1 .. Len(wire') : wire'[i] = wire[n + 1 + i - 1]
      BY <1>1, <1>2, <2>2, SubSeqProperties
    <3>2. 1 \in 1 .. Len(wire') /\ n + 1 + 1 - 1 = n + 1 BY <1>2, <2>2, <3>1
    <3>3. wire'[1] = wire[n + 1] BY <3>1, <3>2
    <3> QED BY <1>5, <3>2, <3>3
  <2>6. want_read(Head(wire')) = want_read(wire[n + 1]) BY <2>5
  <2>7. WaitsForThisPacket' BY <1>7, <2>4, <2>5, <2>6 DEF WaitsForThisPacket, want_read
  <2> QED BY <1>1, <1>5, <2>4, <2>7 DEF StreamInv
<1> QED BY <1>1, <1>6, <1>7 DEF sizeof_hdr
(***************************************************************************)
(* The packet Packer() is building.  Until a piece ends where uint32_t     *)
(* wraps around (which PackerReturns does not let out), the pieces lie one *)
(* behind the other up to its length.                                      *)
(***************************************************************************)
Over(p) == \E piece \in p.data : Modulus <= Ends(piece)

Good(p) ==
  /\ sizeof_hdr <= p.len
  /\ \A piece \in p.data :
       Ends(piece) <= p.len /\ (piece.at < p.len \/ piece.type \in {"string", "ByteBuffer"})
  /\ Distinct(p.data)

Fit(p) == PacketOK(p) /\ p.data \subseteq PieceSet /\ (Over(p) \/ Good(p))

\* q is p with more in it.
Further(p, q) ==
  /\ Fit(q)
  /\ q.args = p.args /\ q.ber = p.ber /\ q.given = p.given /\ p.data \subseteq q.data
  /\ \A piece \in q.data : piece.type = "ByteBuffer" => piece \in p.data

LEMMA WrittenIs ==
  ASSUME NEW p, PacketOK(p), NEW size, NEW type, NEW what, NEW ofs, NEW q,
         q = Written(p, type, size, what, ofs)
  PROVE  /\ q.args = p.args /\ q.ber = p.ber /\ q.given = p.given
         /\ q.data = p.data \cup {Piece(type, p.len, size, what)}
         /\ q.len = (p.len + size) % Modulus
<1>1. PICK a, b, g, d, l, o :
        p = [args |-> a, ber |-> b, given |-> g, data |-> d, len |-> l, ofs |-> o]
  BY DEF PacketOK
<1>2. p.args = a /\ p.ber = b /\ p.given = g /\ p.data = d /\ p.len = l BY <1>1
<1> DEFINE len == (p.len + size) % Modulus
           data == p.data \cup {Piece(type, p.len, size, what)}
<1>3. q = [p EXCEPT !.ofs = ofs, !.len = len, !.data = data] BY DEF Written, Piece
<1> HIDE DEF len, data
<1>4. q = [args |-> a, ber |-> b, given |-> g, data |-> data, len |-> len, ofs |-> ofs]
  BY <1>1, <1>3
<1>5. /\ q.args = p.args /\ q.ber = p.ber /\ q.given = p.given
      /\ q.data = data /\ q.len = len
  BY <1>2, <1>4
<1> QED BY <1>5 DEF len, data

\* A piece put at the end: nothing of its kind may be there.
LEMMA PutFits ==
  ASSUME NEW p, Fit(p), NEW q, PacketOK(q), NEW x, x \in PieceSet,
         x.at = p.len, q.data = p.data \cup {x}, q.len = (p.len + x.size) % Modulus,
         x.size > 0 \/ x.type \in {"string", "ByteBuffer"},
         \A y \in p.data : ~(y.at = p.len /\ y.type = x.type) \/ Over(p)
  PROVE  /\ Fit(q)
         /\ ~Over(q) => ~Over(p) /\ q.len = p.len + x.size
<1>1. /\ x.size \in Nat /\ x.at \in Nat /\ p.len \in Nat /\ p.len + x.size \in Nat
      /\ \A y \in p.data : y.at \in Nat /\ y.size \in Nat
  BY ModulusTyped DEF PieceSet, Fit, PacketOK
<1>2. Over(p) => Over(q) BY DEF Over
<1>3. Ends(x) = p.len + x.size BY DEF Ends
<1>4. ~Over(q) => p.len + x.size < Modulus BY <1>1, <1>3, ModulusTyped DEF Over
<1>5. ~Over(q) => q.len = p.len + x.size BY <1>1, <1>4, Remainder
<1>6. ASSUME ~Over(q) PROVE Good(q)
  <2>1. Good(p) /\ ~Over(p) BY <1>2, <1>6 DEF Fit
  <2>2. sizeof_hdr <= q.len BY <1>1, <1>5, <1>6, <2>1 DEF Good, sizeof_hdr
  <2>3. ASSUME NEW y \in q.data
        PROVE  Ends(y) <= q.len /\ (y.at < q.len \/ y.type \in {"string", "ByteBuffer"})
    <3>1. CASE y \in p.data
      <4>1. Ends(y) <= p.len /\ (y.at < p.len \/ y.type \in {"string", "ByteBuffer"})
        BY <2>1, <3>1 DEF Good
      <4> QED BY <1>1, <1>5, <1>6, <3>1, <4>1 DEF Ends
    <3>2. CASE y = x BY <1>1, <1>3, <1>5, <1>6, <3>2
    <3> QED BY <3>1, <3>2
  <2>4. Distinct(q.data) BY <2>1 DEF Good, Distinct
  <2> QED BY <2>2, <2>3, <2>4 DEF Good
<1>7. q.data \subseteq PieceSet BY DEF Fit
<1> QED BY <1>2, <1>5, <1>6, <1>7 DEF Fit

LEMMA PutNumberFits ==
  ASSUME NEW p, Fit(p), NEW size \in Nat \ {0}, NEW what \in Nat \cup ValueSet,
         NEW type \in {"uint8_t", "uint32_t", "length", "digit"}
  PROVE  LET q == PutNumber(p, type, size, what)
         IN  /\ Further(p, q)
             /\ Piece(type, p.len, size, what) \in q.data
             /\ ~Over(q) => /\ ~Over(p) /\ q.len = p.len + size
                            /\ \A y \in q.data : y.at < q.len
<1> DEFINE q == PutNumber(p, type, size, what)
           ofs == IF p.len + size > p.ofs THEN Grown(p, size) ELSE p.ofs
           x == Piece(type, p.len, size, what)
<1>1. PacketOK(p) /\ PacketOK(q) /\ p.len \in Nat BY PutNumberOK, ModulusTyped DEF Fit, PacketOK
<1>2. q = Written(p, type, size, what, ofs) BY DEF PutNumber
<1> HIDE DEF q, ofs
<1>3. /\ q.args = p.args /\ q.ber = p.ber /\ q.given = p.given
      /\ q.data = p.data \cup {x} /\ q.len = (p.len + size) % Modulus
  BY <1>1, <1>2, WrittenIs
<1>4. x \in PieceSet /\ x.at = p.len /\ x.size = size /\ x.type = type
  BY <1>1 DEF PieceSet, Piece
<1>5. x \in q.data BY <1>3
<1> HIDE DEF x
<1>6. \A y \in p.data : ~(y.at = p.len /\ y.type = x.type) \/ Over(p)
  BY <1>1, <1>4 DEF Fit, Good
<1>7. Fit(q) /\ (~Over(q) => ~Over(p) /\ q.len = p.len + size)
  BY <1>1, <1>3, <1>4, <1>6, PutFits
<1>8. Further(p, q) BY <1>3, <1>4, <1>7 DEF Further
<1>9. ASSUME ~Over(q), NEW y \in q.data PROVE y.at < q.len
  <2>1. Good(p) /\ q.len = p.len + size BY <1>7, <1>9 DEF Fit
  <2>2. CASE y \in p.data
    <3>1. y.at \in Nat /\ y.size \in Nat BY <1>1, <2>2 DEF PacketOK
    <3>2. y.at + y.size <= p.len BY <2>1, <2>2 DEF Good, Ends
    <3> QED BY <1>1, <2>1, <3>1, <3>2
  <2>3. CASE y = x BY <1>1, <1>4, <2>1, <2>3
  <2> QED BY <1>3, <2>2, <2>3
<1> QED BY <1>5, <1>7, <1>8, <1>9 DEF q, x

LEMMA PutBufferFits ==
  ASSUME NEW p, Fit(p), NEW size \in Nat, NEW what \in ValueSet,
         NEW type \in {"string", "ByteBuffer"},
         \A y \in p.data : ~(y.at = p.len /\ y.type = type) \/ Over(p)
  PROVE  LET q == PutBuffer(p, type, size, what)
         IN  /\ Fit(q)
             /\ q.args = p.args /\ q.ber = p.ber /\ q.given = p.given
             /\ q.data = p.data \cup {Piece(type, p.len, size, what)}
             /\ ~Over(q) => ~Over(p) /\ q.len = p.len + size
<1> DEFINE q == PutBuffer(p, type, size, what)
           ofs == IF (p.len + size) % Modulus > p.ofs THEN Grown(p, size) ELSE p.ofs
           x == Piece(type, p.len, size, what)
<1>1. PacketOK(p) /\ PacketOK(q) /\ p.len \in Nat BY PutBufferOK, ModulusTyped DEF Fit, PacketOK
<1>2. q = Written(p, type, size, what, ofs) BY DEF PutBuffer
<1> HIDE DEF q, ofs
<1>3. /\ q.args = p.args /\ q.ber = p.ber /\ q.given = p.given
      /\ q.data = p.data \cup {x} /\ q.len = (p.len + size) % Modulus
  BY <1>1, <1>2, WrittenIs
<1>4. x \in PieceSet /\ x.at = p.len /\ x.size = size /\ x.type = type
  BY <1>1 DEF PieceSet, Piece
<1> HIDE DEF x
<1>5. Fit(q) /\ (~Over(q) => ~Over(p) /\ q.len = p.len + size)
  BY <1>1, <1>3, <1>4, PutFits
<1> QED BY <1>3, <1>5 DEF q, x

LEMMA Further2 ==
  ASSUME NEW p, NEW q, Further(p, q), NEW r, Further(q, r)
  PROVE  Further(p, r) /\ (~Over(r) => ~Over(q))
  BY DEF Further, Over

(***************************************************************************)
(* The digits of a BER length lie where they are read.                     *)
(***************************************************************************)
LEMMA DigitTyped ==
  ASSUME NEW sz \in Nat, NEW n \in 1 .. 5
  PROVE  Digit(sz, Units[n]) \in 0 .. 127
<1>1. CASE n = 1 BY <1>1 DEF Digit, Units
<1>2. CASE n = 2 BY <1>2 DEF Digit, Units
<1>3. CASE n = 3 BY <1>3 DEF Digit, Units
<1>4. CASE n = 4 BY <1>4 DEF Digit, Units
<1>5. CASE n = 5 BY <1>5 DEF Digit, Units
<1> QED BY <1>1, <1>2, <1>3, <1>4, <1>5

LEMMA PutDigitFits ==
  ASSUME NEW p, Fit(p), NEW d \in Nat, NEW q, q = PutNumber(p, "digit", 1, d)
  PROVE  /\ Further(p, q) /\ Piece("digit", p.len, 1, d) \in q.data
         /\ ~Over(q) => q.len = p.len + 1 /\ \A y \in q.data : y.at < q.len
  BY PutNumberFits

LEMMA BerDigitFits ==
  ASSUME NEW p, Fit(p), NEW sz \in Nat, NEW n \in 1 .. 5,
         NEW q, q = BerDigit(p, sz, Units[n])
  PROVE  /\ Further(p, q)
         /\ sz < Units[n] => q = p
         /\ sz >= Units[n] =>
              /\ Piece("digit", p.len, 1, 128 + Digit(sz, Units[n])) \in q.data
              /\ ~Over(q) => q.len = p.len + 1
<1> DEFINE d == 128 + Digit(sz, Units[n])
<1>1. d \in Nat
  <2>1. Digit(sz, Units[n]) \in 0 .. 127 BY DigitTyped, Zenon
  <2>2. \A x \in 0 .. 127 : 128 + x \in Nat OBVIOUS
  <2> QED BY <2>1, <2>2, Zenon
<1>2. Units[n] \in Nat BY DEF Units
<1>3. CASE sz >= Units[n]
  <2>1. q = PutNumber(p, "digit", 1, d) BY <1>3 DEF BerDigit
  <2> HIDE DEF d
  <2>2. Further(p, q) /\ Piece("digit", p.len, 1, d) \in q.data /\ (~Over(q) => q.len = p.len + 1)
    BY <1>1, <2>1, PutDigitFits
  <2> QED BY <1>2, <1>3, <2>2 DEF d
<1>4. CASE sz < Units[n]
  <2>1. q = p BY <1>2, <1>4 DEF BerDigit
  <2> QED BY <1>2, <1>4, <2>1 DEF Further
<1> QED BY <1>2, <1>3, <1>4

LEMMA BerFits ==
  ASSUME NEW p, Fit(p), NEW sz \in Nat, NEW q, q = pack_bersize(p, sz)
  PROVE  /\ Further(p, q)
         /\ ~Over(q) => BerLaid(q.data, sz, p.len, q.len) /\ \A y \in q.data : y.at < q.len
<1> DEFINE p4 == BerDigit(p, sz, Units[5])
           p3 == BerDigit(p4, sz, Units[4])
           p2 == BerDigit(p3, sz, Units[3])
           p1 == BerDigit(p2, sz, Units[2])
           D(n) == Digit(sz, Units[n])
           x(at, what) == Piece("digit", at, 1, what)
<1>1. q = PutNumber(p1, "digit", 1, D(1)) BY DEF pack_bersize, Units
<1>2. \A n \in 1 .. 5 : D(n) \in Nat
  <2>1. \A n \in 1 .. 5 : Digit(sz, Units[n]) \in 0 .. 127 BY DigitTyped, Zenon
  <2>2. \A k \in 0 .. 127 : k \in Nat OBVIOUS
  <2> QED BY <2>1, <2>2, Zenon
<1> HIDE DEF p1, p2, p3, p4, D
<1>3. /\ Further(p, p4) /\ (sz < Units[5] => p4 = p)
      /\ sz >= Units[5] => x(p.len, 128 + D(5)) \in p4.data /\ (~Over(p4) => p4.len = p.len + 1)
  BY BerDigitFits DEF p4, D
<1>4. /\ Further(p4, p3) /\ (sz < Units[4] => p3 = p4)
      /\ sz >= Units[4] => x(p4.len, 128 + D(4)) \in p3.data /\ (~Over(p3) => p3.len = p4.len + 1)
  <2>1. Fit(p4) BY <1>3 DEF Further
  <2> QED BY <2>1, BerDigitFits DEF p3, D
<1>5. /\ Further(p3, p2) /\ (sz < Units[3] => p2 = p3)
      /\ sz >= Units[3] => x(p3.len, 128 + D(3)) \in p2.data /\ (~Over(p2) => p2.len = p3.len + 1)
  <2>1. Fit(p3) BY <1>4 DEF Further
  <2> QED BY <2>1, BerDigitFits DEF p2, D
<1>6. /\ Further(p2, p1) /\ (sz < Units[2] => p1 = p2)
      /\ sz >= Units[2] => x(p2.len, 128 + D(2)) \in p1.data /\ (~Over(p1) => p1.len = p2.len + 1)
  <2>1. Fit(p2) BY <1>5 DEF Further
  <2> QED BY <2>1, BerDigitFits DEF p1, D
<1>7. /\ Further(p1, q) /\ x(p1.len, D(1)) \in q.data
      /\ ~Over(q) => q.len = p1.len + 1 /\ \A y \in q.data : y.at < q.len
  <2>1. Fit(p1) BY <1>6 DEF Further
  <2>2. D(1) \in Nat BY <1>2
  <2> HIDE DEF x
  <2>3. /\ Further(p1, q) /\ Piece("digit", p1.len, 1, D(1)) \in q.data
        /\ ~Over(q) => q.len = p1.len + 1 /\ \A y \in q.data : y.at < q.len
    BY <1>1, <2>1, <2>2, PutDigitFits
  <2> QED BY <2>3 DEF x
<1>8. /\ Further(p, q)
      /\ ~Over(q) => ~Over(p1) /\ ~Over(p2) /\ ~Over(p3) /\ ~Over(p4)
  BY <1>3, <1>4, <1>5, <1>6, <1>7, Further2
<1>9. /\ p4.data \subseteq q.data /\ p3.data \subseteq q.data
      /\ p2.data \subseteq q.data /\ p1.data \subseteq q.data
  BY <1>4, <1>5, <1>6, <1>7 DEF Further
<1>10. p.len \in Nat BY ModulusTyped DEF Fit, PacketOK
<1>11. ASSUME ~Over(q) PROVE BerLaid(q.data, sz, p.len, q.len)
  <2> DEFINE laid(n, k) == x(p.len + k - 1, (IF k < n THEN 128 ELSE 0) + D(n - k + 1)) \in q.data
  <2>1. ASSUME NEW n \in 1 .. 5, q.len = p.len + n,
               n > 1 => sz >= Units[n], n < 5 => sz < Units[n + 1],
               \A k \in 1 .. n : laid(n, k)
        PROVE  BerLaid(q.data, sz, p.len, q.len)
    BY <2>1 DEF BerLaid, D
  <2>2. D(1) \in Nat /\ 0 + D(1) = D(1) BY <1>2
  <2>3. CASE sz < Units[2]
    <3>1. sz < Units[3] /\ sz < Units[4] /\ sz < Units[5] BY <2>3 DEF Units
    <3>2. p1 = p BY <1>3, <1>4, <1>5, <1>6, <2>3, <3>1
    <3>3. laid(1, 1)
      <4>1. p.len + 1 - 1 = p.len /\ 1 - 1 + 1 = 1 /\ ~(1 < 1) BY <1>10
      <4> QED BY <1>7, <2>2, <3>2, <4>1
    <3>4. \A k \in 1 .. 1 : k = 1 OBVIOUS
    <3> HIDE DEF laid
    <3>5. q.len = p.len + 1 BY <1>7, <1>11, <3>2
    <3>6. \A k \in 1 .. 1 : laid(1, k) BY <3>3, <3>4
    <3>7. 1 \in 1 .. 5 /\ ~(1 > 1) /\ 1 + 1 = 2 OBVIOUS
    <3> QED BY <2>1, <2>3, <3>5, <3>6, <3>7
  <2>4. CASE sz >= Units[2] /\ sz < Units[3]
    <3>1. sz < Units[4] /\ sz < Units[5] BY <2>4 DEF Units
    <3>2. p2 = p BY <1>3, <1>4, <1>5, <2>4, <3>1
    <3>3. p1.len = p.len + 1 /\ q.len = p.len + 2 BY <1>6, <1>7, <1>8, <1>10, <1>11, <2>4, <3>2
    <3>4. x(p.len, 128 + D(2)) \in q.data BY <1>6, <1>9, <2>4, <3>2
    <3>5. x(p.len + 1, D(1)) \in q.data BY <1>7, <3>3
    <3>6. laid(2, 1)
      <4>1. p.len + 1 - 1 = p.len /\ 2 - 1 + 1 = 2 /\ 1 < 2 BY <1>10
      <4> QED BY <3>4, <4>1
    <3>7. laid(2, 2)
      <4>1. p.len + 2 - 1 = p.len + 1 /\ 2 - 2 + 1 = 1 /\ ~(2 < 2) BY <1>10
      <4> QED BY <2>2, <3>5, <4>1
    <3>8. \A k \in 1 .. 2 : k = 1 \/ k = 2 OBVIOUS
    <3> HIDE DEF laid
    <3>9. \A k \in 1 .. 2 : laid(2, k) BY <3>6, <3>7, <3>8
    <3>10. 2 \in 1 .. 5 /\ 2 + 1 = 3 OBVIOUS
    <3> QED BY <2>1, <2>4, <3>3, <3>9, <3>10
  <2>5. CASE sz >= Units[3] /\ sz < Units[4]
    <3>1. sz >= Units[2] /\ sz < Units[5] BY <2>5 DEF Units
    <3>2. p3 = p BY <1>3, <1>4, <2>5, <3>1
    <3>3. p2.len = p.len + 1 /\ p1.len = p.len + 2 /\ q.len = p.len + 3
      BY <1>5, <1>6, <1>7, <1>8, <1>10, <1>11, <2>5, <3>1, <3>2
    <3>4. x(p.len, 128 + D(3)) \in q.data BY <1>5, <1>9, <2>5, <3>2
    <3>5. x(p.len + 1, 128 + D(2)) \in q.data BY <1>6, <1>9, <3>1, <3>3
    <3>6. x(p.len + 2, D(1)) \in q.data BY <1>7, <3>3
    <3>7. laid(3, 1)
      <4>1. p.len + 1 - 1 = p.len /\ 3 - 1 + 1 = 3 /\ 1 < 3 BY <1>10
      <4> QED BY <3>4, <4>1
    <3>8. laid(3, 2)
      <4>1. p.len + 2 - 1 = p.len + 1 /\ 3 - 2 + 1 = 2 /\ 2 < 3 BY <1>10
      <4> QED BY <3>5, <4>1
    <3>9. laid(3, 3)
      <4>1. p.len + 3 - 1 = p.len + 2 /\ 3 - 3 + 1 = 1 /\ ~(3 < 3) BY <1>10
      <4> QED BY <2>2, <3>6, <4>1
    <3>10. \A k \in 1 .. 3 : k = 1 \/ k = 2 \/ k = 3 OBVIOUS
    <3> HIDE DEF laid
    <3>11. \A k \in 1 .. 3 : laid(3, k) BY <3>7, <3>8, <3>9, <3>10
    <3>12. 3 \in 1 .. 5 /\ 3 + 1 = 4 OBVIOUS
    <3> QED BY <2>1, <2>5, <3>3, <3>11, <3>12
  <2>6. CASE sz >= Units[4] /\ sz < Units[5]
    <3>1. sz >= Units[2] /\ sz >= Units[3] BY <2>6 DEF Units
    <3>2. p4 = p BY <1>3, <2>6
    <3>3. p3.len = p.len + 1 /\ p2.len = p.len + 2 /\ p1.len = p.len + 3 /\ q.len = p.len + 4
      BY <1>4, <1>5, <1>6, <1>7, <1>8, <1>10, <1>11, <2>6, <3>1, <3>2
    <3>4. /\ x(p.len, 128 + D(4)) \in q.data /\ x(p.len + 1, 128 + D(3)) \in q.data
          /\ x(p.len + 2, 128 + D(2)) \in q.data /\ x(p.len + 3, D(1)) \in q.data
      BY <1>4, <1>5, <1>6, <1>7, <1>9, <2>6, <3>1, <3>2, <3>3
    <3>5. laid(4, 1)
      <4>1. p.len + 1 - 1 = p.len /\ 4 - 1 + 1 = 4 /\ 1 < 4 BY <1>10
      <4> QED BY <3>4, <4>1
    <3>6. laid(4, 2)
      <4>1. p.len + 2 - 1 = p.len + 1 /\ 4 - 2 + 1 = 3 /\ 2 < 4 BY <1>10
      <4> QED BY <3>4, <4>1
    <3>7. laid(4, 3)
      <4>1. p.len + 3 - 1 = p.len + 2 /\ 4 - 3 + 1 = 2 /\ 3 < 4 BY <1>10
      <4> QED BY <3>4, <4>1
    <3>8. laid(4, 4)
      <4>1. p.len + 4 - 1 = p.len + 3 /\ 4 - 4 + 1 = 1 /\ ~(4 < 4) BY <1>10
      <4> QED BY <2>2, <3>4, <4>1
    <3>9. \A k \in 1 .. 4 : k = 1 \/ k = 2 \/ k = 3 \/ k = 4 OBVIOUS
    <3> HIDE DEF laid
    <3>10. \A k \in 1 .. 4 : laid(4, k) BY <3>5, <3>6, <3>7, <3>8, <3>9
    <3>11. 4 \in 1 .. 5 /\ 4 + 1 = 5 OBVIOUS
    <3> QED BY <2>1, <2>6, <3>3, <3>10, <3>11
  <2>7. CASE sz >= Units[5]
    <3>1. sz >= Units[2] /\ sz >= Units[3] /\ sz >= Units[4] BY <2>7 DEF Units
    <3>2. /\ p4.len = p.len + 1 /\ p3.len = p.len + 2 /\ p2.len = p.len + 3
          /\ p1.len = p.len + 4 /\ q.len = p.len + 5
      BY <1>3, <1>4, <1>5, <1>6, <1>7, <1>8, <1>10, <1>11, <2>7, <3>1
    <3>3. /\ x(p.len, 128 + D(5)) \in q.data /\ x(p.len + 1, 128 + D(4)) \in q.data
          /\ x(p.len + 2, 128 + D(3)) \in q.data /\ x(p.len + 3, 128 + D(2)) \in q.data
          /\ x(p.len + 4, D(1)) \in q.data
      BY <1>3, <1>4, <1>5, <1>6, <1>7, <1>9, <2>7, <3>1, <3>2
    <3>4. laid(5, 1)
      <4>1. p.len + 1 - 1 = p.len /\ 5 - 1 + 1 = 5 /\ 1 < 5 BY <1>10
      <4> QED BY <3>3, <4>1
    <3>5. laid(5, 2)
      <4>1. p.len + 2 - 1 = p.len + 1 /\ 5 - 2 + 1 = 4 /\ 2 < 5 BY <1>10
      <4> QED BY <3>3, <4>1
    <3>6. laid(5, 3)
      <4>1. p.len + 3 - 1 = p.len + 2 /\ 5 - 3 + 1 = 3 /\ 3 < 5 BY <1>10
      <4> QED BY <3>3, <4>1
    <3>7. laid(5, 4)
      <4>1. p.len + 4 - 1 = p.len + 3 /\ 5 - 4 + 1 = 2 /\ 4 < 5 BY <1>10
      <4> QED BY <3>3, <4>1
    <3>8. laid(5, 5)
      <4>1. p.len + 5 - 1 = p.len + 4 /\ 5 - 5 + 1 = 1 /\ ~(5 < 5) BY <1>10
      <4> QED BY <2>2, <3>3, <4>1
    <3>9. \A k \in 1 .. 5 : k = 1 \/ k = 2 \/ k = 3 \/ k = 4 \/ k = 5 OBVIOUS
    <3> HIDE DEF laid
    <3>10. \A k \in 1 .. 5 : laid(5, k) BY <3>4, <3>5, <3>6, <3>7, <3>8, <3>9
    <3>11. 5 \in 1 .. 5 /\ ~(5 < 5) OBVIOUS
    <3> QED BY <2>1, <2>7, <3>2, <3>10, <3>11
  <2>8. /\ Units[2] \in Nat /\ Units[3] \in Nat /\ Units[4] \in Nat /\ Units[5] \in Nat
    BY DEF Units
  <2> QED BY <2>3, <2>4, <2>5, <2>6, <2>7, <2>8
<1> QED BY <1>7, <1>8, <1>11

LEMMA PutLengthFits ==
  ASSUME NEW p, Fit(p), NEW sz \in Nat, NEW q, q = PutLength(p, sz)
  PROVE  /\ Further(p, q)
         /\ ~Over(q) => LengthLaid(q, sz, p.len, q.len) /\ \A y \in q.data : y.at < q.len
<1>1. CASE p.ber
  <2>1. q = pack_bersize(p, sz) BY <1>1 DEF PutLength
  <2>2. /\ Further(p, q)
        /\ ~Over(q) => BerLaid(q.data, sz, p.len, q.len) /\ \A y \in q.data : y.at < q.len
    BY <2>1, BerFits
  <2> QED BY <1>1, <2>2 DEF LengthLaid, Further
<1>2. CASE ~p.ber
  <2>1. q = PutNumber(p, "length", 4, sz) BY <1>2 DEF PutLength
  <2>2. /\ Further(p, q) /\ Piece("length", p.len, 4, sz) \in q.data
        /\ ~Over(q) => q.len = p.len + 4 /\ \A y \in q.data : y.at < q.len
    BY <2>1, PutNumberFits
  <2> QED BY <1>2, <2>2 DEF LengthLaid, Further
<1> QED BY <1>1, <1>2

(***************************************************************************)
(* A value is laid behind those before it, which stay where they are.      *)
(***************************************************************************)
LEMMA LaidStays ==
  ASSUME NEW p, NEW q, q.ber = p.ber, p.data \subseteq q.data,
         NEW v, NEW from, NEW to, Laid(p, v, from, to)
  PROVE  Laid(q, v, from, to)
  BY DEF Laid, LengthLaid, BerLaid

LEMMA ValueFits ==
  ASSUME NEW p, Fit(p), \A y \in p.data : y.type # "ByteBuffer",
         NEW v \in ValueSet, NEW q, q = PackerSetValue(p, v)
  PROVE  /\ Fit(q)
         /\ q.args = p.args /\ q.ber = p.ber /\ q.given = p.given /\ p.data \subseteq q.data
         /\ \A y \in q.data : y.type = "ByteBuffer" => v.type = "ByteBuffer"
         /\ ~Over(q) => ~Over(p) /\ p.len <= q.len /\ Laid(q, v, p.len, q.len)
<1>1. /\ v.size \in Nat /\ v.type \in {"uint8_t", "uint32_t", "string", "ByteBuffer"}
      /\ v.type \in {"uint8_t", "uint32_t"} => v.size \in Nat \ {0}
  BY ModulusTyped DEF ValueSet
<1>2. p.len \in Nat BY ModulusTyped DEF Fit, PacketOK
<1>3. CASE v.type \in {"uint8_t", "uint32_t"}
  <2>1. q = PutNumber(p, v.type, v.size, v) BY <1>3 DEF PackerSetValue
  <2>2. /\ Further(p, q) /\ Piece(v.type, p.len, v.size, v) \in q.data
        /\ ~Over(q) => ~Over(p) /\ q.len = p.len + v.size
    BY <1>1, <1>3, <2>1, PutNumberFits
  <2>3. ~Over(q) => Laid(q, v, p.len, q.len) BY <1>2, <1>3, <2>2 DEF Laid
  <2> QED BY <1>1, <1>2, <2>2, <2>3 DEF Further
<1>4. CASE v.type = "string"
  <2> DEFINE l == PutLength(p, v.size)
  <2>1. q = PutBuffer(l, "string", v.size, v) BY <1>4 DEF PackerSetValue
  <2>2. /\ Further(p, l)
        /\ ~Over(l) => LengthLaid(l, v.size, p.len, l.len) /\ \A y \in l.data : y.at < l.len
    BY <1>1, PutLengthFits
  <2> HIDE DEF l
  <2>3. Fit(l) /\ l.len \in Nat BY <2>2, ModulusTyped DEF Further, Fit, PacketOK
  <2>4. \A y \in l.data : ~(y.at = l.len /\ y.type = "string") \/ Over(l)
    BY <2>2, <2>3
  <2>5. /\ Fit(q)
        /\ q.args = l.args /\ q.ber = l.ber /\ q.given = l.given
        /\ q.data = l.data \cup {Piece("string", l.len, v.size, v)}
        /\ ~Over(q) => ~Over(l) /\ q.len = l.len + v.size
    BY <1>1, <2>1, <2>3, <2>4, PutBufferFits
  <2>6. /\ q.args = p.args /\ q.ber = p.ber /\ q.given = p.given /\ p.data \subseteq q.data
        /\ \A y \in q.data : y.type # "ByteBuffer"
    BY <2>2, <2>5 DEF Further, Piece
  <2>7. ASSUME ~Over(q) PROVE ~Over(p) /\ p.len <= q.len /\ Laid(q, v, p.len, q.len)
    <3>1. ~Over(l) /\ q.len = l.len + v.size BY <2>5, <2>7
    <3>2. ~Over(p) BY <2>2, <3>1 DEF Further, Over
    <3>3. LengthLaid(l, v.size, p.len, l.len) BY <2>2, <3>1
    <3>4. LengthLaid(q, v.size, p.len, l.len) BY <2>5, <3>3 DEF LengthLaid, BerLaid
    <3>5. Laid(q, v, p.len, q.len) BY <1>4, <2>3, <2>5, <3>1, <3>4 DEF Laid
    <3>6. p.len <= l.len BY <1>2, <2>3, <3>3 DEF LengthLaid, BerLaid
    <3> QED BY <1>1, <1>2, <2>3, <3>1, <3>2, <3>5, <3>6
  <2> QED BY <1>4, <2>5, <2>6, <2>7
<1>5. CASE v.type = "ByteBuffer"
  <2>1. q = PutBuffer(p, "ByteBuffer", v.size, v) BY <1>5 DEF PackerSetValue
  <2>2. /\ Fit(q)
        /\ q.args = p.args /\ q.ber = p.ber /\ q.given = p.given
        /\ q.data = p.data \cup {Piece("ByteBuffer", p.len, v.size, v)}
        /\ ~Over(q) => ~Over(p) /\ q.len = p.len + v.size
    BY <1>1, <2>1, PutBufferFits
  <2>3. ~Over(q) => Laid(q, v, p.len, q.len) BY <1>2, <1>5, <2>2 DEF Laid
  <2> QED BY <1>1, <1>2, <1>5, <2>2, <2>3
<1> QED BY <1>1, <1>3, <1>4, <1>5

PktInv(p) ==
  /\ Fit(p)
  /\ p.ber \in BOOLEAN /\ p.args \in 1 .. MaxArgs
  /\ p.given \in Seq(ValueSet) /\ Len(p.given) <= p.args
  /\ \A k \in 1 .. Len(p.given) : p.given[k].type = "ByteBuffer" => k = p.args
  /\ (\E y \in p.data : y.type = "ByteBuffer") => Len(p.given) = p.args
  /\ Over(p) \/ \E at : LaidOut(p, at, p.len)

LEMMA PackerBegins == ASSUME Packer PROVE PktInv(pkt')
<1>1. PICK args \in 1 .. MaxArgs, ber \in BOOLEAN :
        pkt' = [args |-> args, ber |-> ber, given |-> <<>>, data |-> {},
                len |-> sizeof_hdr, ofs |-> sizeof_hdr + args * 4]
  BY DEF Packer
<1>2. /\ pkt'.args = args /\ pkt'.ber = ber /\ pkt'.given = <<>> /\ pkt'.data = {}
      /\ pkt'.len = sizeof_hdr
  BY <1>1
<1>3. PacketOK(pkt') BY PackerOK
<1>4. Fit(pkt') BY <1>2, <1>3 DEF Fit, Good, Distinct, sizeof_hdr
<1>5. pkt'.given \in Seq(ValueSet) /\ Len(pkt'.given) = 0 BY <1>2
<1> DEFINE at == [k \in 0 .. 0 |-> 12]
<1>6. at \in [0 .. 0 -> Nat] /\ at[0] = sizeof_hdr /\ \A k \in 0 .. 0 : at[k] = sizeof_hdr
  BY DEF sizeof_hdr
<1> HIDE DEF at
<1>7. LaidOut(pkt', at, pkt'.len) BY <1>2, <1>5, <1>6 DEF LaidOut, sizeof_hdr
<1>8. pkt'.args \in 1 .. MaxArgs /\ 0 <= pkt'.args BY <1>2, BoundsTyped
<1> QED BY <1>2, <1>4, <1>5, <1>7, <1>8 DEF PktInv

LEMMA ValuesTyped ==
  ASSUME NEW place \in Nat \X Nat
  PROVE  Values(place) \subseteq ValueSet
  BY BoundsTyped, SmallPacketsFit DEF Values, Value, ValueSet, sizeof_hdr

LEMMA PackerGoesOn ==
  ASSUME pkt # NoPacket, PktInv(pkt), sent \in Nat, PackerImpl
  PROVE  PktInv(pkt')
<1>1. PICK v \in Values(<<sent, Len(pkt.given)>>) :
       /\ v.type = "ByteBuffer" => Len(pkt.given) + 1 = pkt.args
       /\ pkt' = [PackerSetValue(pkt, v) EXCEPT !.given = Append(@, v)]
  BY DEF PackerImpl
<1> DEFINE n == Len(pkt.given)
           q == PackerSetValue(pkt, v)
<1>2. n \in Nat /\ n < pkt.args /\ pkt.args \in 1 .. MaxArgs BY DEF PackerImpl, PktInv
<1>3. v \in ValueSet
  <2>1. <<sent, Len(pkt.given)>> \in Nat \X Nat BY <1>2
  <2> QED BY <1>1, <2>1, ValuesTyped
<1>4. pkt' = [q EXCEPT !.given = Append(@, v)] BY <1>1
<1>5. \A y \in pkt.data : y.type # "ByteBuffer" BY <1>2 DEF PktInv
<1>6. /\ Fit(q)
      /\ q.args = pkt.args /\ q.ber = pkt.ber /\ q.given = pkt.given /\ pkt.data \subseteq q.data
      /\ \A y \in q.data : y.type = "ByteBuffer" => v.type = "ByteBuffer"
      /\ ~Over(q) => ~Over(pkt) /\ pkt.len <= q.len /\ Laid(q, v, pkt.len, q.len)
  BY <1>3, <1>5, ValueFits DEF PktInv
<1> HIDE DEF q
<1>7. /\ pkt'.args = q.args /\ pkt'.ber = q.ber /\ pkt'.data = q.data /\ pkt'.len = q.len
      /\ pkt'.ofs = q.ofs /\ pkt'.given = Append(q.given, v)
      /\ pkt' = [args |-> pkt'.args, ber |-> pkt'.ber, given |-> pkt'.given,
                 data |-> pkt'.data, len |-> pkt'.len, ofs |-> pkt'.ofs]
  BY <1>4, <1>6 DEF Fit, PacketOK
<1>8. Fit(pkt') BY <1>6, <1>7 DEF Fit, PacketOK, Long, Over, Good
<1>9. /\ pkt.given \in Seq(ValueSet) /\ pkt'.given = Append(pkt.given, v)
      /\ pkt'.given \in Seq(ValueSet) /\ Len(pkt'.given) = n + 1
      /\ pkt'.given[n + 1] = v /\ \A k \in 1 .. n : pkt'.given[k] = pkt.given[k]
  BY <1>3, <1>6, <1>7 DEF PktInv
<1>10. \A k \in 1 .. Len(pkt'.given) : pkt'.given[k].type = "ByteBuffer" => k = pkt'.args
  <2>1. ASSUME NEW k \in 1 .. n, pkt.given[k].type = "ByteBuffer" PROVE k = pkt.args
    BY <2>1 DEF PktInv
  <2>2. \A k \in 1 .. (n + 1) : k \in 1 .. n \/ k = n + 1 BY <1>2
  <2> HIDE DEF n
  <2> QED BY <1>1, <1>6, <1>7, <1>9, <2>1, <2>2 DEF n
<1>11. (\E y \in pkt'.data : y.type = "ByteBuffer") => Len(pkt'.given) = pkt'.args
  BY <1>1, <1>6, <1>7, <1>9
<1>12. ASSUME ~Over(pkt') PROVE \E at : LaidOut(pkt', at, pkt'.len)
  <2>1. /\ ~Over(q) /\ ~Over(pkt) /\ pkt.len <= pkt'.len /\ Laid(q, v, pkt.len, pkt'.len)
    BY <1>6, <1>7, <1>12 DEF Over
  <2>2. PICK at : LaidOut(pkt, at, pkt.len) BY <2>1 DEF PktInv
  <2>3. pkt.len \in Nat /\ pkt'.len \in Nat /\ sizeof_hdr <= pkt.len
    BY <1>7, <1>8, <2>1, ModulusTyped DEF PktInv, Fit, PacketOK, Good
  <2> DEFINE to == [k \in 0 .. (n + 1) |-> IF k = n + 1 THEN pkt'.len ELSE at[k]]
  <2>4. /\ at \in [0 .. n -> Nat] /\ at[0] = sizeof_hdr /\ at[n] = pkt.len
        /\ \A k \in 0 .. n : sizeof_hdr <= at[k] /\ at[k] <= pkt.len
        /\ \A k \in 1 .. n : Laid(pkt, pkt.given[k], at[k - 1], at[k])
    BY <2>2 DEF LaidOut
  <2> HIDE DEF n
  <2>5. to[n + 1] = pkt'.len /\ n + 1 \in 0 .. (n + 1) /\ \A k \in 0 .. n : to[k] = at[k]
    BY <1>2
  <2>6. to \in [0 .. (n + 1) -> Nat] BY <1>2, <2>3, <2>4
  <2> HIDE DEF to
  <2>7. \A k \in 0 .. (n + 1) : k \in 0 .. n \/ k = n + 1 BY <1>2
  <2>8. to[0] = sizeof_hdr BY <1>2, <2>4, <2>5
  <2>9. \A k \in 0 .. (n + 1) : sizeof_hdr <= to[k] /\ to[k] <= pkt'.len
    <3>1. ASSUME NEW k \in 0 .. n PROVE sizeof_hdr <= to[k] /\ to[k] <= pkt'.len
      <4>1. at[k] \in Nat /\ sizeof_hdr <= at[k] /\ at[k] <= pkt.len BY <2>4
      <4> QED BY <2>1, <2>3, <2>5, <4>1 DEF sizeof_hdr
    <3> QED BY <2>1, <2>3, <2>5, <2>7, <3>1 DEF sizeof_hdr
  <2>10. ASSUME NEW k \in 1 .. (n + 1)
         PROVE  Laid(pkt', pkt'.given[k], to[k - 1], to[k])
    <3>1. CASE k \in 1 .. n
      <4>1. Laid(pkt, pkt.given[k], at[k - 1], at[k]) BY <2>4, <3>1
      <4>2. to[k - 1] = at[k - 1] /\ to[k] = at[k] BY <1>2, <2>5, <3>1
      <4>3. pkt'.given[k] = pkt.given[k] BY <1>9, <3>1 DEF n
      <4> QED BY <1>6, <1>7, <4>1, <4>2, <4>3, LaidStays
    <3>2. CASE k = n + 1
      <4>1. k - 1 = n /\ n \in 0 .. n BY <1>2, <3>2
      <4>2. to[k - 1] = pkt.len /\ to[k] = pkt'.len BY <2>4, <2>5, <3>2, <4>1
      <4>3. pkt'.given[k] = v BY <1>9, <3>2 DEF n
      <4> QED BY <1>7, <2>1, <4>2, <4>3, LaidStays
    <3> QED BY <1>2, <3>1, <3>2
  <2>11. Len(pkt'.given) = n + 1 BY <1>9 DEF n
  <2>12. LaidOut(pkt', to, pkt'.len) BY <2>5, <2>6, <2>8, <2>9, <2>10, <2>11 DEF LaidOut
  <2> QED BY <2>12
<1> HIDE DEF n
<1>13. pkt'.ber \in BOOLEAN /\ pkt'.args \in 1 .. MaxArgs /\ Len(pkt'.given) <= pkt'.args
  BY <1>2, <1>6, <1>7, <1>9 DEF PktInv
<1> QED BY <1>8, <1>9, <1>10, <1>11, <1>12, <1>13 DEF PktInv

\* What Packer() sends is whole.
LEMMA PackerSends ==
  ASSUME pkt # NoPacket, PktInv(pkt), PackerReturns
  PROVE  [raw |-> pkt.len - sizeof_hdr, data |-> pkt.data,
          ber |-> pkt.ber, given |-> pkt.given] \in PacketSet
<1> DEFINE p == [raw |-> pkt.len - sizeof_hdr, data |-> pkt.data,
                 ber |-> pkt.ber, given |-> pkt.given]
<1>1. /\ p.raw = pkt.len - sizeof_hdr /\ p.data = pkt.data
      /\ p.ber = pkt.ber /\ p.given = pkt.given
  OBVIOUS
<1>2. ~Over(pkt)
  <2>1. pkt.ofs < Modulus /\ pkt.ofs \in Nat BY ModulusTyped DEF PktInv, Fit, PacketOK
  <2>2. ASSUME NEW x \in pkt.data PROVE ~(Modulus <= Ends(x))
    <3>1. x.at \in Nat /\ x.size \in Nat BY DEF PktInv, Fit, PacketOK
    <3> QED BY <2>1, <3>1, ModulusTyped DEF PackerReturns, Inside, Ends
  <2> QED BY <2>2 DEF Over
<1>3. Good(pkt) /\ pkt.len \in 0 .. Modulus - 1 BY <1>2 DEF PktInv, Fit, PacketOK
<1>4. p.raw \in Raws /\ want_read(p) = pkt.len
  BY <1>1, <1>3, ModulusTyped DEF Good, Raws, want_read, sizeof_hdr
<1>5. Len(pkt.given) = pkt.args /\ pkt.args \in 1 .. MaxArgs BY DEF PackerReturns, PktInv
<1>6. p.given # <<>> BY <1>1, <1>5, BoundsTyped DEF PktInv
<1>7. PICK at : LaidOut(pkt, at, pkt.len) BY <1>2 DEF PktInv
<1>8. LaidOut(p, at, want_read(p)) BY <1>1, <1>4, <1>7 DEF LaidOut, Laid, LengthLaid
<1>9. Packed(p) BY <1>1, <1>3, <1>5, <1>6, <1>8 DEF Packed, Good, PktInv
<1>10. p \in [raw : Raws, data : SUBSET PieceSet, ber : BOOLEAN, given : Seq(ValueSet)]
  BY <1>4 DEF PktInv, Fit
<1> QED BY <1>9, <1>10 DEF PacketSet

(***************************************************************************)
(* What is read where a piece lies is what was written there.              *)
(***************************************************************************)
LEMMA AtLaid ==
  ASSUME NEW r, Distinct(r.data), NEW type, NEW at, NEW size, NEW what,
         Piece(type, at, size, what) \in r.data
  PROVE  At(r, at, type, size) = what
<1> DEFINE pieces == {piece \in r.data : piece.at = at /\ piece.type = type /\ piece.size = size}
           x == Piece(type, at, size, what)
<1>1. x.type = type /\ x.at = at /\ x.size = size /\ x.what = what BY DEF Piece
<1> HIDE DEF x
<1>2. x \in pieces BY <1>1 DEF x
<1>3. \A y \in pieces : y = x BY <1>1, <1>2 DEF Distinct
<1>4. pieces # {} /\ (CHOOSE piece \in pieces : TRUE) = x
  <2> HIDE DEF pieces
  <2> QED BY <1>2, <1>3
<1> QED BY <1>1, <1>4 DEF At

\* What five digits count.
FiveDigits == 34359738368

LEMMA DigitTop ==
  ASSUME NEW sz \in Nat, NEW n \in 1 .. 5, sz < FiveDigits, n < 5 => sz < Units[n + 1]
  PROVE  sz \div Units[n] = Digit(sz, Units[n])
<1>1. CASE n = 1 BY <1>1, SMT DEF Digit, Units, FiveDigits
<1>2. CASE n = 2 BY <1>2, SMT DEF Digit, Units, FiveDigits
<1>3. CASE n = 3 BY <1>3, SMT DEF Digit, Units, FiveDigits
<1>4. CASE n = 4 BY <1>4, SMT DEF Digit, Units, FiveDigits
<1>5. CASE n = 5 BY <1>5, SMT DEF Digit, Units, FiveDigits
<1> QED BY <1>1, <1>2, <1>3, <1>4, <1>5

LEMMA DigitNext ==
  ASSUME NEW sz \in Nat, NEW n \in 1 .. 4
  PROVE  sz \div Units[n] = (128 * (sz \div Units[n + 1])) + Digit(sz, Units[n])
<1>1. CASE n = 1 BY <1>1, SMT DEF Digit, Units
<1>2. CASE n = 2 BY <1>2, SMT DEF Digit, Units
<1>3. CASE n = 3 BY <1>3, SMT DEF Digit, Units
<1>4. CASE n = 4 BY <1>4, SMT DEF Digit, Units
<1> QED BY <1>1, <1>2, <1>3, <1>4

LEMMA BerReads ==
  ASSUME NEW r, Distinct(r.data), r.ofs \in Nat,
         NEW sz \in Nat, sz < FiveDigits, NEW to, BerLaid(r.data, sz, r.ofs, to)
  PROVE  \E n \in 1 .. 5 : to = r.ofs + n /\ BerLength(r) = [bytes |-> n, size |-> sz]
<1>1. PICK n \in 1 .. 5 :
        /\ to = r.ofs + n
        /\ n > 1 => sz >= Units[n]
        /\ n < 5 => sz < Units[n + 1]
        /\ \A k \in 1 .. n :
             Piece("digit", r.ofs + k - 1, 1,
                   (IF k < n THEN 128 ELSE 0) + Digit(sz, Units[n - k + 1])) \in r.data
  BY DEF BerLaid
<1> DEFINE digit(k) == At(r, r.ofs + k - 1, "digit", 1)
           last == CHOOSE m \in 1 .. 5 : digit(m) < 128 /\ \A k \in 1 .. m - 1 : digit(k) >= 128
           Sums(f) == f = [m \in 0 .. last |-> IF m = 0 THEN 0
                                              ELSE (128 * f[m - 1]) + (digit(m) % 128)]
<1>2. ASSUME NEW k \in 1 .. n
      PROVE  /\ digit(k) = (IF k < n THEN 128 ELSE 0) + Digit(sz, Units[n - k + 1])
             /\ n - k + 1 \in 1 .. 5 /\ Digit(sz, Units[n - k + 1]) \in 0 .. 127
  <2>1. n - k + 1 \in 1 .. 5 OBVIOUS
  <2> QED BY <1>1, <2>1, AtLaid, DigitTyped
<1>3. BerLength(r) = [bytes |-> last, size |-> (CHOOSE f : Sums(f))[last]]
  BY DEF BerLength
<1> HIDE DEF digit
<1>4. last = n
  <2>1. digit(n) < 128
    <3>1. n \in 1 .. n /\ ~(n < n) OBVIOUS
    <3> QED BY <1>2, <3>1
  <2>2. ASSUME NEW k \in 1 .. n, k < n PROVE digit(k) >= 128 /\ ~(digit(k) < 128)
    BY <1>2, <2>2
  <2>3. \A k \in 1 .. n - 1 : k \in 1 .. n /\ k < n OBVIOUS
  <2>4. ASSUME NEW m \in 1 .. 5, digit(m) < 128, \A k \in 1 .. m - 1 : digit(k) >= 128
        PROVE  m = n
    <3>1. ~(m < n) BY <2>2, <2>4
    <3>2. ~(n < m)
      <4>1. n < m => n \in 1 .. m - 1 OBVIOUS
      <4>2. digit(n) \in Nat
        <5>1. n \in 1 .. n OBVIOUS
        <5> QED BY <1>2, <5>1
      <4> QED BY <2>1, <2>4, <4>1, <4>2
    <3> QED BY <3>1, <3>2
  <2> QED BY <2>1, <2>2, <2>3, <2>4
<1> HIDE DEF last
<1> DEFINE g == [m \in 0 .. n |-> IF m = 0 THEN 0 ELSE sz \div Units[n - m + 1]]
<1>5. ASSUME NEW m \in 1 .. n
      PROVE  g[m] = (128 * g[m - 1]) + (digit(m) % 128)
  <2>1. digit(m) % 128 = Digit(sz, Units[n - m + 1])
    <3> DEFINE d == Digit(sz, Units[n - m + 1])
    <3>1. d \in 0 .. 127 /\ digit(m) = (IF m < n THEN 128 ELSE 0) + d BY <1>2
    <3> HIDE DEF d
    <3>2. digit(m) % 128 = d BY <3>1
    <3> QED BY <3>2 DEF d
  <2>2. CASE m = 1
    <3>1. n - m + 1 = n BY <2>2
    <3>2. g[m - 1] = 0 /\ g[m] = sz \div Units[n] BY <2>2, <3>1
    <3>3. sz \div Units[n] = Digit(sz, Units[n]) BY <1>1, DigitTop
    <3>4. Digit(sz, Units[n]) \in 0 .. 127 BY DigitTyped
    <3>5. g[m] = Digit(sz, Units[n]) /\ digit(m) % 128 = Digit(sz, Units[n])
      BY <2>1, <3>1, <3>2, <3>3
    <3> DEFINE d == Digit(sz, Units[n])
    <3>6. d \in Int BY <3>4
    <3> HIDE DEF d, g
    <3>7. d = (128 * 0) + d BY <3>6
    <3> QED BY <3>2, <3>5, <3>7 DEF d
  <2>3. CASE m # 1
    <3>1. n - m + 1 \in 1 .. 4 /\ n - (m - 1) + 1 = (n - m + 1) + 1 BY <2>3
    <3>2. g[m] = sz \div Units[n - m + 1] /\ g[m - 1] = sz \div Units[(n - m + 1) + 1]
      BY <2>3, <3>1
    <3> QED BY <2>1, <3>1, <3>2, DigitNext
  <2> QED BY <2>2, <2>3
<1>6. Sums(g)
  <2>1. g = [m \in 0 .. last |-> g[m]] BY <1>4
  <2>2. \A m \in 0 .. last : g[m] = IF m = 0 THEN 0 ELSE (128 * g[m - 1]) + (digit(m) % 128)
    <3>1. g[0] = 0 OBVIOUS
    <3>2. \A m \in 0 .. n : m = 0 \/ m \in 1 .. n OBVIOUS
    <3> HIDE DEF g
    <3> QED BY <1>4, <1>5, <3>1, <3>2
  <2> HIDE DEF g
  <2> QED BY <2>1, <2>2
<1> DEFINE f == CHOOSE f : Sums(f)
<1>7. Sums(f)
  <2> HIDE DEF g, Sums
  <2> QED BY <1>6
<1>8. f[n] = g[n]
  <2> HIDE DEF f, g
  <2>1. \A m \in 0 .. n : f[m] = IF m = 0 THEN 0 ELSE (128 * f[m - 1]) + (digit(m) % 128)
    BY <1>4, <1>7
  <2>2. \A m \in 0 .. n : g[m] = IF m = 0 THEN 0 ELSE (128 * g[m - 1]) + (digit(m) % 128)
    BY <1>4, <1>6
  <2> DEFINE T == {m \in 0 .. n : f[m] # g[m]}
  <2> SUFFICES ASSUME T # {} PROVE FALSE
    <3>1. n \in 0 .. n OBVIOUS
    <3> QED BY <3>1
  <2>3. PICK m \in T : \A k \in T : m <= k
    <3>1. T \subseteq Nat OBVIOUS
    <3> HIDE DEF T
    <3> QED BY <3>1, Least
  <2>4. m \in 0 .. n /\ f[m] # g[m] OBVIOUS
  <2>5. m # 0 BY <2>1, <2>2, <2>4
  <2>6. m - 1 \in 0 .. n /\ m - 1 \notin T BY <2>3, <2>4, <2>5
  <2>7. f[m - 1] = g[m - 1] BY <2>6
  <2> QED BY <2>1, <2>2, <2>4, <2>5, <2>7
<1>9. g[n] = sz
  <2>1. g[n] = sz \div Units[n - n + 1] /\ n - n + 1 = 1 /\ Units[1] = 1 BY DEF Units
  <2> QED BY <2>1
<1>10. BerLength(r) = [bytes |-> n, size |-> sz]
  <2>1. BerLength(r) = [bytes |-> last, size |-> f[last]] BY <1>3
  <2> HIDE DEF f, g
  <2> QED BY <2>1, <1>4, <1>8, <1>9
<1> QED BY <1>1, <1>10

(***************************************************************************)
(* The packet being unpacked: the cursor is where the next value lies.     *)
(***************************************************************************)
RxSet ==
  [raw : Raws, data : SUBSET PieceSet, ber : BOOLEAN, given : Seq(ValueSet),
   len : 0 .. Modulus - 1, ofs : 0 .. Modulus - 1, got : Seq(ValueSet),
   done : BOOLEAN, again : BOOLEAN, beyond : BOOLEAN]

Begun(r) == r.ofs = 0 /\ r.got = <<>> /\ (r.again \/ r.len = r.raw)

AtNext(r) ==
  /\ r.got # <<>> /\ r.len = want_read(r)
  /\ \E at : LaidOut(r, at, want_read(r)) /\ r.ofs = at[Len(r.got)]

PastEnd(r) ==
  /\ r.got = r.given /\ r.len = want_read(r) /\ r.ofs <= want_read(r) + sizeof_hdr

RxOK(r) ==
  /\ r \in RxSet /\ Packed(r)
  /\ Len(r.got) <= Len(r.given) /\ \A k \in 1 .. Len(r.got) : r.got[k] = r.given[k]
  /\ IF r.beyond THEN PastEnd(r) ELSE Begun(r) \/ AtNext(r)
  /\ Len(r.got) = Len(r.given) => r.done

\* The lengths of strings have no more than five digits: they are uint32_t.
LengthsFit == Modulus <= FiveDigits

LEMMA LeftInPacket ==
  ASSUME NEW len \in 0 .. Modulus - 1, NEW ofs \in 0 .. Modulus - 1, ofs <= len
  PROVE  (len + Modulus - ofs) % Modulus = len - ofs
<1>1. len + Modulus - ofs = (len - ofs) + Modulus /\ len - ofs \in 0 .. Modulus - 1
  BY ModulusTyped
<1>2. \A n \in 0 .. Modulus - 1 : (n + Modulus) % Modulus = n BY ModulusTyped
<1> QED BY <1>1, <1>2

LEMMA LengthRead ==
  ASSUME NEW r, r.ofs \in Nat, Distinct(r.data),
         NEW v, v.size \in Nat, v.size < FiveDigits, v.type = "string",
         NEW mid \in Nat, LengthLaid(r, v.size, r.ofs, mid)
  PROVE  /\ Asked(r, v.type).bytes \in Nat /\ r.ofs + Asked(r, v.type).bytes = mid
         /\ Asked(r, v.type).size = v.size
<1> DEFINE ask == Asked(r, v.type)
<1>1. ask = Stringlength(r) BY DEF Asked
<1> HIDE DEF ask
<1>2. CASE ~r.ber
  <2>1. mid = r.ofs + 4 /\ Piece("length", r.ofs, 4, v.size) \in r.data
    BY <1>2 DEF LengthLaid
  <2>2. At(r, r.ofs, "length", 4) = v.size BY <2>1, AtLaid
  <2>3. ask = [bytes |-> 4, size |-> v.size] BY <1>1, <1>2, <2>2 DEF Stringlength
  <2>4. ask.bytes = 4 /\ ask.size = v.size BY <2>3
  <2> QED BY <2>1, <2>4 DEF ask
<1>3. CASE r.ber
  <2>1. BerLaid(r.data, v.size, r.ofs, mid) BY <1>3 DEF LengthLaid
  <2>2. PICK m \in 1 .. 5 : mid = r.ofs + m /\ BerLength(r) = [bytes |-> m, size |-> v.size]
    BY <2>1, BerReads
  <2>3. ask = [bytes |-> m, size |-> v.size] BY <1>1, <1>3, <2>2 DEF Stringlength
  <2>4. ask.bytes = m /\ ask.size = v.size BY <2>3
  <2>5. mid = r.ofs + m /\ m \in Nat BY <2>2
  <2> QED BY <2>4, <2>5 DEF ask
<1> QED BY <1>2, <1>3 DEF ask

LEMMA Reads ==
  ASSUME LengthsFit, NEW r \in RxSet, Packed(r), NEW at, LaidOut(r, at, want_read(r)),
         r.len = want_read(r), NEW n \in Nat, n < Len(r.given), r.ofs = at[n]
  PROVE  LET v   == r.given[n + 1]
             ask == Asked(r, v.type)
         IN  /\ v \in ValueSet /\ at[n + 1] \in Nat
             /\ ask.bytes \in Nat /\ ask.size \in Nat
             /\ at[n + 1] = r.ofs + (ask.bytes + ask.size) /\ at[n + 1] <= want_read(r)
             /\ sizeof_hdr <= at[n + 1]
             /\ At(r, r.ofs + ask.bytes, v.type, ask.size) = v
<1> DEFINE v   == r.given[n + 1]
           ask == Asked(r, v.type)
<1>1. r.given \in Seq(ValueSet) /\ Len(r.given) \in Nat /\ n + 1 \in 1 .. Len(r.given)
      /\ n \in 0 .. Len(r.given) /\ n + 1 \in 0 .. Len(r.given) /\ (n + 1) - 1 = n
  BY DEF RxSet
<1>2. /\ v \in ValueSet /\ v.size \in Nat
      /\ v.type \in {"uint8_t", "uint32_t", "string", "ByteBuffer"}
      /\ v.size < Modulus /\ v.size < FiveDigits
      /\ (v.type = "uint8_t" => v.size = 1) /\ (v.type = "uint32_t" => v.size = 4)
  <2>1. v \in ValueSet BY <1>1
  <2>2. FiveDigits \in Nat BY SMT DEF FiveDigits
  <2> QED BY <2>1, <2>2, ModulusTyped DEF ValueSet, LengthsFit
<1> HIDE DEF v, ask
<1>3. /\ Laid(r, v, at[n], at[n + 1])
      /\ at[n] \in Nat /\ at[n + 1] \in Nat
      /\ sizeof_hdr <= at[n] /\ sizeof_hdr <= at[n + 1] /\ at[n + 1] <= want_read(r)
  <2>1. at \in [0 .. Len(r.given) -> Nat] BY DEF LaidOut
  <2> QED BY <1>1, <2>1 DEF LaidOut, v
<1>4. PICK mid \in Nat :
        /\ IF v.type = "string" THEN LengthLaid(r, v.size, at[n], mid) ELSE mid = at[n]
        /\ at[n + 1] = mid + v.size
        /\ Piece(v.type, mid, v.size, v) \in r.data
  BY <1>3 DEF Laid
<1>5. At(r, mid, v.type, v.size) = v BY <1>4, AtLaid DEF Packed
<1>6. ASSUME ask.bytes \in Nat, r.ofs + ask.bytes = mid, ask.size = v.size
      PROVE  /\ at[n + 1] = r.ofs + (ask.bytes + ask.size)
             /\ At(r, r.ofs + ask.bytes, v.type, ask.size) = v
  <2>1. r.ofs \in Nat BY <1>3
  <2>2. \A a, b, c \in Nat : a + (b + c) = (a + b) + c OBVIOUS
  <2>3. r.ofs + (ask.bytes + v.size) = mid + v.size BY <1>2, <1>6, <2>1, <2>2
  <2>4. at[n + 1] = mid + v.size BY <1>4
  <2> QED BY <1>5, <1>6, <2>3, <2>4, Zenon
<1>7. ask.bytes \in Nat /\ r.ofs + ask.bytes = mid /\ ask.size = v.size
  <2>1. CASE v.type \in {"uint8_t", "uint32_t"}
    BY <1>2, <1>3, <1>4, <2>1 DEF Asked, ask
  <2>2. CASE v.type = "ByteBuffer"
    <3>1. ask = [bytes |-> 0, size |-> BytesLeft(r)] BY <2>2 DEF Asked, ask
    <3>2. n + 1 = Len(r.given) BY <1>1, <2>2 DEF Packed, v
    <3>3. at[n + 1] = want_read(r) /\ mid = at[n] BY <1>4, <2>2, <3>2 DEF LaidOut
    <3>4. r.len \in 0 .. Modulus - 1 /\ r.ofs \in 0 .. Modulus - 1 BY DEF RxSet
    <3>5. r.len = r.ofs + v.size /\ r.ofs \in Nat BY <1>3, <1>4, <3>3
    <3>6. BytesLeft(r) = r.len - r.ofs
      <4>1. r.ofs <= r.len BY <1>2, <3>4, <3>5
      <4> QED BY <3>4, <4>1, LeftInPacket DEF BytesLeft
    <3>7. BytesLeft(r) = v.size BY <1>2, <3>5, <3>6
    <3> QED BY <1>3, <3>1, <3>3, <3>7
  <2>3. CASE v.type = "string"
    <3>1. r.ofs \in Nat /\ Distinct(r.data) /\ LengthLaid(r, v.size, r.ofs, mid)
      BY <1>3, <1>4, <2>3 DEF Packed
    <3> QED BY <1>2, <2>3, <3>1, LengthRead DEF ask
  <2> QED BY <1>2, <2>1, <2>2, <2>3
<1> QED BY <1>2, <1>3, <1>6, <1>7 DEF v, ask

\* Behind the header, as the first call of Unpacker() leaves it.
LEMMA SetUp ==
  ASSUME NEW x, RxOK(x), Len(x.got) < Len(x.given), NEW r, r = Setup(x)
  PROVE  /\ r \in RxSet /\ Packed(r) /\ r.len = want_read(r)
         /\ \E at : LaidOut(r, at, want_read(r)) /\ r.ofs = at[Len(x.got)]
         /\ r.raw = x.raw /\ r.data = x.data /\ r.ber = x.ber /\ r.given = x.given
         /\ r.got = x.got /\ r.done = x.done /\ r.again = x.again
         /\ ~r.beyond /\ ~x.beyond
<1>1. x \in RxSet /\ x.got \in Seq(ValueSet) /\ Len(x.got) \in Nat BY DEF RxOK, RxSet
<1>2. ~x.beyond /\ (Begun(x) \/ AtNext(x))
  <2>1. Len(x.got) # Len(x.given) BY <1>1 DEF RxSet
  <2> QED BY <2>1 DEF RxOK, PastEnd
<1>3. sizeof_hdr \in 0 .. Modulus - 1 /\ x.raw \in Nat
      /\ x.raw + sizeof_hdr \in 0 .. Modulus - 1 /\ want_read(x) = x.raw + sizeof_hdr
  BY <1>1, SmallPacketsFit DEF RxSet, Raws, want_read, sizeof_hdr
<1>4. CASE Begun(x)
  <2>1. r = [x EXCEPT !.len = x.raw + sizeof_hdr, !.ofs = sizeof_hdr]
    BY <1>4 DEF Begun, Setup
  <2>2. /\ r.raw = x.raw /\ r.data = x.data /\ r.ber = x.ber /\ r.given = x.given
        /\ r.got = x.got /\ r.done = x.done /\ r.again = x.again /\ r.beyond = x.beyond
        /\ r.len = x.raw + sizeof_hdr /\ r.ofs = sizeof_hdr /\ r \in RxSet
    BY <1>1, <1>3, <2>1 DEF RxSet
  <2>3. PICK at : LaidOut(x, at, want_read(x)) BY DEF RxOK, Packed
  <2>4. LaidOut(r, at, want_read(r)) /\ Packed(r)
    <3>1. \A to, end : LaidOut(x, to, end) => LaidOut(r, to, end)
      BY <2>2, SMTT(30) DEF LaidOut, Laid, LengthLaid
    <3>2. want_read(r) = want_read(x) BY <2>2 DEF want_read
    <3> QED BY <2>2, <2>3, <3>1, <3>2 DEF RxOK, Packed
  <2>5. r.ofs = at[Len(x.got)]
    <3>1. Len(x.got) = 0 BY <1>4 DEF Begun
    <3> QED BY <2>2, <2>3, <3>1 DEF LaidOut
  <2>6. r.len = want_read(r) BY <1>3, <2>2 DEF want_read
  <2> QED BY <1>2, <2>2, <2>4, <2>5, <2>6
<1>5. CASE AtNext(x)
  <2>1. PICK at : LaidOut(x, at, want_read(x)) /\ x.ofs = at[Len(x.got)] BY <1>5 DEF AtNext
  <2>2. x.ofs # 0
    <3>1. Len(x.got) \in 0 .. Len(x.given) BY <1>1 DEF RxOK, RxSet
    <3> QED BY <2>1, <3>1 DEF LaidOut, sizeof_hdr
  <2>3. r = x BY <2>2 DEF Setup
  <2> QED BY <1>1, <1>2, <1>5, <2>1, <2>3 DEF RxOK, AtNext
<1> QED BY <1>2, <1>4, <1>5

\* A call of Unpacker() takes the next value, and is not refused.
LEMMA UnpackerReads ==
  ASSUME LengthsFit, rx # NoPacket, RxOK(rx), Unpacker
  PROVE  /\ RxOK(rx') /\ rx'.given = rx.given /\ ~rx.beyond
         /\ rx'.got = Append(rx.got, rx.given[Len(rx.got) + 1])
         /\ rx'.done = (rx.done \/ rx'.got = rx.given)
         /\ taken' = IF rx'.got = rx.given THEN rx.given ELSE taken
<1> DEFINE n == Len(rx.got)
           r == Setup(rx)
           v == rx.given[n + 1]
           ask == Asked(r, v.type)
           bytes == ask.bytes + ask.size
           got == Append(rx.got, At(r, r.ofs + ask.bytes, v.type, ask.size))
           done == Len(got) = Len(rx.given)
<1>1. n \in Nat /\ Len(rx.given) \in Nat /\ n < Len(rx.given)
      /\ rx.got \in Seq(ValueSet) /\ rx.given \in Seq(ValueSet)
  BY DEF RxOK, RxSet, Unpacker
<1>2. IF Missmatches(r, v.type, ask) THEN Refused
      ELSE /\ rx' = [Advance(r, bytes) EXCEPT !.got = got, !.done = @ \/ done]
           /\ taken' = IF done THEN got ELSE taken
  BY DEF Unpacker
<1>3. /\ r \in RxSet /\ Packed(r) /\ r.len = want_read(r)
      /\ r.raw = rx.raw /\ r.data = rx.data /\ r.ber = rx.ber /\ r.given = rx.given
      /\ r.got = rx.got /\ r.done = rx.done /\ r.again = rx.again
      /\ ~r.beyond /\ ~rx.beyond
  BY <1>1, SetUp
<1>4. PICK at : LaidOut(r, at, want_read(r)) /\ r.ofs = at[n] BY <1>1, SetUp
<1> HIDE DEF r, ask
<1>5. /\ v \in ValueSet /\ at[n + 1] \in Nat
      /\ ask.bytes \in Nat /\ ask.size \in Nat
      /\ at[n + 1] = r.ofs + bytes /\ at[n + 1] <= want_read(r)
      /\ sizeof_hdr <= at[n + 1]
      /\ At(r, r.ofs + ask.bytes, v.type, ask.size) = v
  <2>1. v = r.given[n + 1] /\ ask = Asked(r, r.given[n + 1].type) BY <1>3 DEF ask
  <2>2. n < Len(r.given) BY <1>1, <1>3
  <2> HIDE DEF n, v
  <2> QED BY <1>1, <1>3, <1>4, <2>1, <2>2, Reads
<1>6. got = Append(rx.got, v) BY <1>5
<1> HIDE DEF n, v, bytes, got
<1>7. want_read(r) \in 0 .. Modulus - 1 /\ r.ofs \in Nat BY <1>3 DEF RxSet
<1>8. (r.ofs + bytes) % Modulus = at[n + 1]
  <2>1. at[n + 1] < Modulus BY <1>5, <1>7, ModulusTyped
  <2> QED BY <1>5, <2>1, Remainder
<1>9. ~Missmatches(r, v.type, ask)
  <2>1. r.ofs + (ask.bytes + ask.size) = at[n + 1] BY <1>5 DEF bytes
  <2>2. ~Missmatch(r, ask.bytes) /\ ~Missmatch(r, ask.size)
    BY <1>3, <1>5, <1>7, <2>1, ModulusTyped DEF Missmatch, sizeof_hdr
  <2>3. ~MissmatchInside(Advance(r, ask.bytes), ask.size)
    <3> DEFINE a == Advance(r, ask.bytes)
    <3>1. r.ofs + ask.bytes \in Nat /\ r.ofs + ask.bytes < Modulus
      BY <1>5, <1>7, <2>1, ModulusTyped
    <3>2. (r.ofs + ask.bytes) % Modulus = r.ofs + ask.bytes BY <3>1, Remainder
    <3>3. a.ofs = r.ofs + ask.bytes /\ a.len = r.len
      BY <1>3, <3>2 DEF Advance, RxSet
    <3> HIDE DEF a
    <3>4. (a.ofs + ask.size) % Modulus = at[n + 1]
      <4>1. a.ofs + ask.size = at[n + 1] BY <1>5, <1>7, <2>1, <3>3
      <4>2. at[n + 1] < Modulus BY <1>5, <1>7, ModulusTyped
      <4> QED BY <1>5, <4>1, <4>2, Remainder
    <3>5. ~MissmatchInside(a, ask.size)
      BY <1>3, <1>5, <1>7, <3>3, <3>4, ModulusTyped DEF MissmatchInside, sizeof_hdr
    <3> QED BY <3>5 DEF a
  <2> QED BY <2>2, <2>3 DEF Missmatches
<1>10. /\ rx' = [Advance(r, bytes) EXCEPT !.got = got, !.done = @ \/ done]
       /\ taken' = IF done THEN got ELSE taken
  BY <1>2, <1>9
<1>11. rx' = [r EXCEPT !.ofs = at[n + 1], !.got = got, !.done = r.done \/ done]
  <2>1. Advance(r, bytes) = [r EXCEPT !.ofs = at[n + 1]] BY <1>8 DEF Advance
  <2> QED BY <1>3, <1>10, <2>1 DEF RxSet
<1>12. /\ got \in Seq(ValueSet) /\ Len(got) = n + 1
       /\ got[n + 1] = v /\ \A k \in 1 .. n : got[k] = rx.got[k]
  BY <1>1, <1>5, <1>6 DEF n
<1>13. at[n + 1] \in 0 .. Modulus - 1 BY <1>5, <1>7, ModulusTyped
<1> HIDE DEF done
<1>14. /\ rx'.raw = r.raw /\ rx'.data = r.data /\ rx'.ber = r.ber /\ rx'.given = r.given
       /\ rx'.len = r.len /\ rx'.ofs = at[n + 1] /\ rx'.got = got
       /\ rx'.done = (r.done \/ done) /\ rx'.again = r.again /\ rx'.beyond = r.beyond
       /\ rx' \in RxSet
  BY <1>3, <1>11, <1>12, <1>13 DEF RxSet, done
<1>15. \A k \in 1 .. Len(got) : got[k] = rx.given[k]
  <2>1. \A k \in 1 .. n : rx.got[k] = rx.given[k] BY DEF RxOK, n
  <2> QED BY <1>1, <1>12, <2>1 DEF v
<1>16. done <=> got = rx.given
  BY <1>1, <1>12, <1>15 DEF done
<1>17. want_read(rx') = want_read(r) BY <1>14 DEF want_read
<1>18. LaidOut(rx', at, want_read(rx')) /\ Packed(rx')
  <2>1. \A to, end : LaidOut(r, to, end) => LaidOut(rx', to, end)
    BY <1>14 DEF LaidOut, Laid, LengthLaid
  <2> QED BY <1>3, <1>4, <1>14, <1>17, <2>1 DEF Packed
<1>19. AtNext(rx') BY <1>1, <1>3, <1>12, <1>14, <1>17, <1>18 DEF AtNext
<1>20. RxOK(rx')
  <2>1. Len(got) <= Len(rx.given) BY <1>1, <1>12
  <2> QED BY <1>3, <1>14, <1>15, <1>18, <1>19, <2>1 DEF RxOK, done
<1>21. rx'.given = rx.given /\ rx'.got = Append(rx.got, v) BY <1>3, <1>6, <1>14
<1>22. rx'.done = (rx.done \/ rx'.got = rx.given)
  <2>1. rx'.done = (rx.done \/ done) /\ (done <=> rx'.got = rx.given) BY <1>3, <1>14, <1>16
  <2> QED BY <2>1, Zenon
<1>23. taken' = IF rx'.got = rx.given THEN rx.given ELSE taken BY <1>10, <1>14, <1>16
<1> QED BY <1>3, <1>20, <1>21, <1>22, <1>23 DEF n, v

(***************************************************************************)
(* The state: what is sent and what is on the stream keep to it whatever   *)
(* the receiver does; the receiver is in step if lengths are uint32_t.     *)
(***************************************************************************)
SenderInv ==
  /\ pkt # NoPacket => PktInv(pkt) /\ sent < MaxPackets
  /\ sent \in 0 .. MaxPackets
  /\ StreamInv

ReceiverInv == rx # NoPacket => RxOK(rx) /\ (rx.done => taken = rx.given)

LEMMA SenderInit == Init => SenderInv
<1>1. <<>> \in Seq(PacketSet) OBVIOUS
<1>2. sent = 0 => sent \in 0 .. MaxPackets BY BoundsTyped
<1> QED BY <1>1, <1>2 DEF Init, SenderInv, StreamInv, WaitsForThisPacket, sizeof_hdr

LEMMA SenderStep == SenderInv /\ [Next]_vars => SenderInv'
<1> SUFFICES ASSUME SenderInv, [Next]_vars PROVE SenderInv' OBVIOUS
<1>1. sent \in Nat BY DEF SenderInv
<1>2. CASE Packer
  <2>1. PktInv(pkt') BY <1>2, PackerBegins
  <2> QED BY <1>2, <2>1 DEF Packer, SenderInv, StreamInv, WaitsForThisPacket
<1>3. CASE PackerImpl
  <2>1. pkt # NoPacket BY <1>3 DEF PackerImpl
  <2>2. PktInv(pkt') BY <1>1, <1>3, <2>1, PackerGoesOn DEF SenderInv
  <2> QED BY <1>3, <2>2 DEF PackerImpl, SenderInv, StreamInv, WaitsForThisPacket
<1>4. CASE PackerReturns
  <2> DEFINE p == [raw |-> pkt.len - sizeof_hdr, data |-> pkt.data,
                   ber |-> pkt.ber, given |-> pkt.given]
  <2>1. p \in PacketSet BY <1>4, PackerSends DEF SenderInv, PackerReturns
  <2>2. wire' = Append(wire, p) /\ UNCHANGED <<rd_buf, wanted, posted>> /\ pkt' = NoPacket
    BY <1>4 DEF PackerReturns
  <2> HIDE DEF p
  <2>3. wire \in Seq(PacketSet) BY DEF SenderInv, StreamInv
  <2>4. wire' \in Seq(PacketSet) /\ (wire # <<>> => wire' # <<>> /\ Head(wire') = Head(wire))
    BY <2>1, <2>2, <2>3
  <2>5. WaitsForThisPacket' BY <2>2, <2>4 DEF SenderInv, StreamInv, WaitsForThisPacket, want_read
  <2>6. sent' \in 0 .. MaxPackets
    <3>1. sent' = sent + 1 BY <1>4 DEF PackerReturns
    <3>2. sent < MaxPackets /\ sent \in 0 .. MaxPackets BY <1>4 DEF PackerReturns, SenderInv
    <3> QED BY <3>1, <3>2, BoundsTyped
  <2> QED BY <2>2, <2>4, <2>5, <2>6 DEF SenderInv, StreamInv
<1>5. CASE onRead
  <2>1. StreamInv' BY <1>5, OnReadStream DEF SenderInv
  <2> QED BY <1>5, <2>1 DEF onRead, SenderInv
<1>6. CASE CallbackRuns
  <2>1. posted \in Seq(PacketSet) /\ posted # <<>> /\ posted' = Tail(posted)
    BY <1>6 DEF CallbackRuns, SenderInv, StreamInv
  <2>2. posted' \in Seq(PacketSet) BY <2>1
  <2> QED BY <1>6, <2>2 DEF CallbackRuns, SenderInv, StreamInv, WaitsForThisPacket
<1>7. CASE UNCHANGED <<pkt, sent, wire, rd_buf, wanted, posted>>
  BY <1>7 DEF SenderInv, StreamInv, WaitsForThisPacket
<1> QED
  BY <1>2, <1>3, <1>4, <1>5, <1>6, <1>7
  DEF Next, vars, Unpacker, UnpackerBeyond, BeginAnew, CallbackReturns

LEMMA RemainderBelow == ASSUME NEW n \in Nat PROVE n % Modulus <= n
<1>1. CASE n < Modulus BY <1>1, Remainder
<1>2. CASE ~(n < Modulus) BY <1>2, Remainder, ModulusTyped
<1> QED BY <1>1, <1>2

\* A packet is unpacked from its beginning.
LEMMA CallbackBegins ==
  ASSUME SenderInv, CallbackRuns
  PROVE  RxOK(rx') /\ ~rx'.done /\ rx'.given = Head(posted).given
<1> DEFINE p == Head(posted)
<1>1. p \in PacketSet BY DEF SenderInv, StreamInv, CallbackRuns
<1>2. rx' = [raw |-> p.raw, data |-> p.data, ber |-> p.ber, given |-> p.given,
             len |-> p.raw, ofs |-> 0, got |-> <<>>,
             done |-> FALSE, again |-> FALSE, beyond |-> FALSE]
  BY DEF CallbackRuns
<1> HIDE DEF p
<1>3. /\ p.raw \in Raws /\ p.data \in SUBSET PieceSet /\ p.ber \in BOOLEAN
      /\ p.given \in Seq(ValueSet) /\ Packed(p)
  BY <1>1 DEF PacketSet
<1>4. p.raw \in 0 .. Modulus - 1 /\ 0 \in 0 .. Modulus - 1
  BY <1>3, ModulusTyped DEF Raws, sizeof_hdr
<1>5. rx' \in RxSet
  <2>1. <<>> \in Seq(ValueSet) OBVIOUS
  <2> QED BY <1>2, <1>3, <1>4, <2>1 DEF RxSet
<1>6. /\ rx'.raw = p.raw /\ rx'.data = p.data /\ rx'.ber = p.ber /\ rx'.given = p.given
      /\ rx'.len = p.raw /\ rx'.ofs = 0 /\ rx'.got = <<>>
      /\ ~rx'.done /\ ~rx'.again /\ ~rx'.beyond
  BY <1>2
<1>7. Packed(rx')
  <2>1. want_read(rx') = want_read(p) BY <1>6 DEF want_read
  <2>2. \A to, end : LaidOut(p, to, end) => LaidOut(rx', to, end)
    BY <1>6 DEF LaidOut, Laid, LengthLaid
  <2> QED BY <1>3, <1>6, <2>1, <2>2 DEF Packed
<1>8. Len(rx'.got) = 0 /\ Len(rx'.given) # 0 /\ Len(rx'.given) \in Nat
  BY <1>3, <1>6, <1>7 DEF Packed
<1> QED BY <1>5, <1>6, <1>7, <1>8 DEF RxOK, Begun, p

LEMMA ReadAll ==
  ASSUME NEW r, RxOK(r), Len(r.got) = Len(r.given)
  PROVE  /\ r.done /\ r.got = r.given /\ r.len = want_read(r)
         /\ r.beyond \/ AtNext(r)
<1>1. r.got \in Seq(ValueSet) /\ r.given \in Seq(ValueSet) /\ r.given # <<>>
  BY DEF RxOK, RxSet, Packed
<1>2. r.got = r.given BY <1>1 DEF RxOK
<1> QED BY <1>1, <1>2 DEF RxOK, PastEnd, Begun, AtNext

LEMMA UnpackerBeyondReads ==
  ASSUME rx # NoPacket, RxOK(rx), UnpackerBeyond
  PROVE  \/ rx' = NoPacket
         \/ RxOK(rx') /\ rx'.given = rx.given /\ rx'.done = rx.done
<1>1. PICK size \in {1, 4} :
        IF Missmatch(rx, size) THEN Refused
        ELSE rx' = [Advance(rx, size) EXCEPT !.beyond = TRUE] /\ UNCHANGED taken
  BY DEF UnpackerBeyond
<1>2. CASE Missmatch(rx, size) BY <1>1, <1>2 DEF Refused
<1>3. CASE ~Missmatch(rx, size)
  <2>1. Len(rx.got) = Len(rx.given) BY DEF UnpackerBeyond
  <2>2. rx.done /\ rx.got = rx.given /\ rx.len = want_read(rx) /\ rx \in RxSet /\ Packed(rx)
    BY <2>1, ReadAll DEF RxOK
  <2> DEFINE ofs == (rx.ofs + size) % Modulus
  <2>3. rx' = [rx EXCEPT !.ofs = ofs, !.beyond = TRUE] BY <1>1, <1>3, <2>2 DEF Advance, RxSet
  <2>4. rx.ofs \in Nat /\ size \in Nat /\ rx.len \in 0 .. Modulus - 1 BY <2>2 DEF RxSet
  <2>5. ofs \in 0 .. Modulus - 1 /\ ofs <= rx.ofs + size BY <2>4, Remainder, RemainderBelow
  <2> HIDE DEF ofs
  <2>6. /\ rx'.raw = rx.raw /\ rx'.data = rx.data /\ rx'.ber = rx.ber /\ rx'.given = rx.given
        /\ rx'.len = rx.len /\ rx'.ofs = ofs /\ rx'.got = rx.got
        /\ rx'.done = rx.done /\ rx'.again = rx.again /\ rx'.beyond /\ rx' \in RxSet
    BY <2>2, <2>3, <2>5 DEF RxSet
  <2>7. want_read(rx') = want_read(rx) BY <2>6 DEF want_read
  <2>8. ofs <= want_read(rx) + sizeof_hdr
    <3>1. rx.ofs + size <= rx.len + sizeof_hdr
      BY <1>3, <2>4, ModulusTyped DEF Missmatch, sizeof_hdr
    <3> QED BY <2>2, <2>4, <2>5, <3>1, ModulusTyped DEF sizeof_hdr
  <2>9. PastEnd(rx') BY <2>2, <2>6, <2>7, <2>8 DEF PastEnd
  <2>10. Packed(rx')
    <3>1. \A to, end : LaidOut(rx, to, end) => LaidOut(rx', to, end)
      BY <2>6 DEF LaidOut, Laid, LengthLaid
    <3> QED BY <2>2, <2>6, <2>7, <3>1 DEF Packed
  <2> QED BY <2>2, <2>6, <2>9, <2>10 DEF RxOK
<1> QED BY <1>2, <1>3

LEMMA BegunAnew ==
  ASSUME rx # NoPacket, RxOK(rx), BeginAnew
  PROVE  RxOK(rx') /\ rx'.given = rx.given /\ rx'.done = rx.done
<1>1. PICK len \in {rx.raw, rx.len} :
        rx' = [rx EXCEPT !.ofs = 0, !.len = len, !.got = <<>>, !.again = TRUE]
  BY DEF BeginAnew
<1>2. rx \in RxSet /\ Packed(rx) /\ ~rx.beyond BY DEF RxOK, BeginAnew
<1>3. len \in 0 .. Modulus - 1 /\ 0 \in 0 .. Modulus - 1
  BY <1>2, ModulusTyped DEF RxSet, Raws, sizeof_hdr
<1>4. <<>> \in Seq(ValueSet) OBVIOUS
<1>5. /\ rx'.raw = rx.raw /\ rx'.data = rx.data /\ rx'.ber = rx.ber /\ rx'.given = rx.given
      /\ rx'.ofs = 0 /\ rx'.got = <<>> /\ rx'.done = rx.done /\ rx'.again /\ ~rx'.beyond
      /\ rx' \in RxSet
  BY <1>1, <1>2, <1>3, <1>4 DEF RxSet
<1>6. Packed(rx')
  <2>1. want_read(rx') = want_read(rx) BY <1>5 DEF want_read
  <2>2. \A to, end : LaidOut(rx, to, end) => LaidOut(rx', to, end)
    BY <1>5 DEF LaidOut, Laid, LengthLaid
  <2> QED BY <1>2, <1>5, <2>1, <2>2 DEF Packed
<1>7. Len(rx'.got) = 0 /\ Len(rx'.given) # 0 /\ Len(rx'.given) \in Nat
  BY <1>5, <1>6 DEF Packed, RxSet
<1> QED BY <1>5, <1>6, <1>7 DEF RxOK, Begun

\* A packet has values: it is not NoPacket.
LEMMA IsPacket == ASSUME NEW r, RxOK(r) PROVE r # NoPacket /\ r.given \in Seq(ValueSet) /\ r.given # <<>>
  BY DEF RxOK, Packed, NoPacket, RxSet

LEMMA ReceiverStep ==
  ASSUME LengthsFit, SenderInv, ReceiverInv, [Next]_vars
  PROVE  ReceiverInv'
<1>1. CASE CallbackRuns BY <1>1, CallbackBegins DEF ReceiverInv
<1>2. CASE Unpacker
  <2>1. rx # NoPacket /\ RxOK(rx) BY <1>2 DEF Unpacker, ReceiverInv
  <2> QED BY <1>2, <2>1, UnpackerReads DEF ReceiverInv
<1>3. CASE UnpackerBeyond
  <2>1. rx # NoPacket /\ RxOK(rx) BY <1>3 DEF UnpackerBeyond, ReceiverInv
  <2>2. UNCHANGED taken BY <1>3 DEF UnpackerBeyond, Refused
  <2> QED BY <1>3, <2>1, <2>2, UnpackerBeyondReads DEF ReceiverInv
<1>4. CASE BeginAnew
  <2>1. rx # NoPacket /\ RxOK(rx) /\ UNCHANGED taken BY <1>4 DEF BeginAnew, ReceiverInv
  <2> QED BY <1>4, <2>1, BegunAnew DEF ReceiverInv
<1>5. CASE CallbackReturns BY <1>5 DEF CallbackReturns, ReceiverInv
<1>6. CASE UNCHANGED <<rx, taken>> BY <1>6 DEF ReceiverInv
<1> QED
  BY <1>1, <1>2, <1>3, <1>4, <1>5, <1>6
  DEF Next, vars, Packer, PackerImpl, PackerReturns, onRead

LEMMA SenderAlways == Spec => []SenderInv
  BY SenderInit, SenderStep, PTL DEF Spec

LEMMA ReceiverAlways == ASSUME LengthsFit PROVE Spec => []ReceiverInv
<1>1. Init => ReceiverInv BY DEF Init, ReceiverInv
<1>2. SenderInv /\ ReceiverInv /\ [Next]_vars => ReceiverInv' BY ReceiverStep
<1> QED BY <1>1, <1>2, SenderAlways, PTL DEF Spec

(***************************************************************************)
(* Lengths, capacities and cursors stay within uint32_t, for all sizes of  *)
(* strings: those of Packer() because it computes them in 32 bits, those   *)
(* of Unpacker() because it reads nothing but what Packer() wrote.         *)
(***************************************************************************)
THEOREM WireTyped == ASSUME LengthsFit PROVE Spec => []WireTypeOK
<1>1. SenderInv /\ ReceiverInv => WireTypeOK
  <2> SUFFICES ASSUME SenderInv, ReceiverInv PROVE WireTypeOK OBVIOUS
  <2>1. pkt # NoPacket => /\ pkt.len \in 0 .. Modulus - 1 /\ pkt.ofs \in 0 .. Modulus - 1
                          /\ Len(pkt.given) <= pkt.args
    BY DEF SenderInv, PktInv, Fit, PacketOK
  <2>2. ASSUME NEW k \in 1 .. Len(wire) PROVE wire[k].raw \in 0 .. Modulus - 1
    <3>1. wire[k] \in PacketSet BY DEF SenderInv, StreamInv
    <3> QED BY <3>1, ModulusTyped DEF PacketSet, Raws, sizeof_hdr
  <2>3. rx # NoPacket => rx.len \in 0 .. Modulus - 1 /\ rx.ofs \in 0 .. Modulus - 1
    BY DEF ReceiverInv, RxOK, RxSet
  <2> QED BY <2>1, <2>2, <2>3 DEF WireTypeOK, SenderInv, StreamInv
<1> QED BY <1>1, SenderAlways, ReceiverAlways, PTL

(***************************************************************************)
(* A read waits for exactly what completes the header or the packet that   *)
(* has begun, however much the reads before it brought.                    *)
(***************************************************************************)
THEOREM WaitsForOnePacket == Spec => []WaitsForThisPacket
<1>1. SenderInv => WaitsForThisPacket BY DEF SenderInv, StreamInv
<1> QED BY <1>1, SenderAlways, PTL

(***************************************************************************)
(* Unpacking the types that were packed keeps the cursor in the packet,    *)
(* and BytesLeft() is what is left of it.  A read of more than was packed  *)
(* may leave the cursor up to a header's size beyond the packet's end.     *)
(***************************************************************************)
THEOREM CursorStaysTrue == ASSUME LengthsFit PROVE Spec => []CursorTrue
<1>1. ReceiverInv => CursorTrue
  <2> SUFFICES ASSUME ReceiverInv, rx # NoPacket PROVE CursorTrue BY DEF CursorTrue
  <2> DEFINE end == sizeof_hdr + rx.raw
             cursor == IF rx.ofs = 0 THEN sizeof_hdr ELSE rx.ofs
  <2>1. RxOK(rx) /\ rx \in RxSet BY DEF ReceiverInv, RxOK
  <2>2. /\ end = want_read(rx) /\ end \in 0 .. Modulus - 1 /\ rx.raw \in 0 .. Modulus - 1
        /\ rx.ofs \in 0 .. Modulus - 1 /\ sizeof_hdr <= end /\ end = rx.raw + sizeof_hdr
    BY <2>1, ModulusTyped DEF RxSet, Raws, want_read, sizeof_hdr
  <2>3. CASE rx.beyond
    <3>1. rx.ofs <= end + sizeof_hdr BY <2>1, <2>2, <2>3 DEF RxOK, PastEnd
    <3>2. cursor <= end + sizeof_hdr BY <2>2, <3>1, ModulusTyped DEF sizeof_hdr
    <3> QED BY <2>3, <3>2 DEF CursorTrue
  <2>4. CASE ~rx.beyond /\ Begun(rx)
    <3>1. rx.ofs = 0 /\ (rx.again \/ rx.len = rx.raw) BY <2>4 DEF Begun
    <3>2. cursor = sizeof_hdr BY <3>1
    <3>3. rx.len = rx.raw => BytesLeft(rx) = end - cursor
      <4>1. rx.len = rx.raw => BytesLeft(rx) = rx.len - rx.ofs
        BY <2>2, <3>1, LeftInPacket DEF BytesLeft
      <4> QED BY <2>2, <3>1, <3>2, <4>1 DEF sizeof_hdr
    <3> QED BY <2>2, <2>4, <3>1, <3>2, <3>3 DEF CursorTrue
  <2>5. CASE ~rx.beyond /\ AtNext(rx)
    <3>1. PICK at : LaidOut(rx, at, want_read(rx)) /\ rx.ofs = at[Len(rx.got)]
      BY <2>5 DEF AtNext
    <3>2. Len(rx.got) \in 0 .. Len(rx.given) BY <2>1 DEF RxOK, RxSet
    <3>3. sizeof_hdr <= rx.ofs /\ rx.ofs <= end BY <2>2, <3>1, <3>2 DEF LaidOut
    <3>4. cursor = rx.ofs BY <2>2, <3>3 DEF sizeof_hdr
    <3>5. BytesLeft(rx) = end - cursor
      BY <2>2, <2>5, <3>3, <3>4, LeftInPacket DEF BytesLeft, AtNext
    <3> QED BY <2>5, <3>3, <3>4, <3>5 DEF CursorTrue
  <2> QED BY <2>1, <2>3, <2>4, <2>5 DEF RxOK
<1> QED BY <1>1, ReceiverAlways, PTL

(***************************************************************************)
(* Sequences that are cut and joined.                                      *)
(***************************************************************************)
LEMMA Joined ==
  ASSUME NEW S, NEW a \in Seq(S), NEW b \in Seq(S)
  PROVE  /\ a \o b \in Seq(S) /\ Len(a \o b) = Len(a) + Len(b)
         /\ \A i \in 1 .. Len(a) : (a \o b)[i] = a[i]
         /\ \A i \in 1 .. Len(b) : (a \o b)[Len(a) + i] = b[i]
<1>1. Len(a) \in Nat /\ Len(b) \in Nat OBVIOUS
<1>2. /\ a \o b \in Seq(S) /\ Len(a \o b) = Len(a) + Len(b)
      /\ \A i \in 1 .. Len(a) + Len(b) : (a \o b)[i] = IF i <= Len(a) THEN a[i] ELSE b[i - Len(a)]
  BY ConcatProperties
<1>3. ASSUME NEW i \in 1 .. Len(a) PROVE (a \o b)[i] = a[i] BY <1>1, <1>2
<1>4. ASSUME NEW i \in 1 .. Len(b) PROVE (a \o b)[Len(a) + i] = b[i]
  <2> DEFINE k == Len(a) + i
  <2>1. k \in 1 .. Len(a) + Len(b) /\ ~(k <= Len(a)) /\ k - Len(a) = i BY <1>1
  <2> HIDE DEF k
  <2>2. (a \o b)[k] = b[i] BY <1>2, <2>1
  <2> QED BY <2>2 DEF k
<1> QED BY <1>2, <1>3, <1>4

\* A sequence is known by its two parts.
LEMMA JoinedIs ==
  ASSUME NEW S, NEW a \in Seq(S), NEW b \in Seq(S), NEW s \in Seq(S),
         Len(s) = Len(a) + Len(b),
         \A i \in 1 .. Len(a) : s[i] = a[i],
         \A i \in 1 .. Len(b) : s[Len(a) + i] = b[i]
  PROVE  s = a \o b
<1>1. Len(a) \in Nat /\ Len(b) \in Nat OBVIOUS
<1>2. /\ a \o b \in Seq(S) /\ Len(a \o b) = Len(s)
      /\ \A i \in 1 .. Len(a) : (a \o b)[i] = a[i]
      /\ \A i \in 1 .. Len(b) : (a \o b)[Len(a) + i] = b[i]
  BY Joined
<1>3. ASSUME NEW k \in 1 .. Len(s) PROVE s[k] = (a \o b)[k]
  <2>1. CASE k \in 1 .. Len(a) BY <1>2, <2>1
  <2>2. CASE ~(k \in 1 .. Len(a))
    <3>1. k - Len(a) \in 1 .. Len(b) /\ Len(a) + (k - Len(a)) = k BY <1>1, <2>2
    <3> DEFINE i == k - Len(a)
    <3>2. s[Len(a) + i] = b[i] /\ (a \o b)[Len(a) + i] = b[i] BY <1>2, <3>1
    <3> QED BY <3>1, <3>2
  <2> QED BY <2>1, <2>2
<1> QED BY <1>2, <1>3, SeqEqual

LEMMA Rejoined ==
  ASSUME NEW S, NEW s \in Seq(S), NEW n \in 0 .. Len(s)
  PROVE  s = SubSeq(s, 1, n) \o SubSeq(s, n + 1, Len(s))
<1> DEFINE a == SubSeq(s, 1, n)
           b == SubSeq(s, n + 1, Len(s))
<1>1. Len(s) \in Nat /\ n \in Nat /\ n <= Len(s) OBVIOUS
<1>2. a \in Seq(S) /\ Len(a) = n /\ \A i \in 1 .. n : a[i] = s[i]
  <2>1. \A i \in 1 .. n : s[i] \in S BY <1>1
  <2>2. \A i \in 1 .. n : 1 + i - 1 = i /\ i \in 1 .. (n - 1 + 1) OBVIOUS
  <2>3. /\ a \in Seq(S) /\ Len(a) = IF 1 <= n THEN n - 1 + 1 ELSE 0
        /\ \A i \in 1 .. (n - 1 + 1) : a[i] = s[1 + i - 1]
    BY <1>1, <2>1, SubSeqProperties
  <2> HIDE DEF a
  <2> QED BY <1>1, <2>2, <2>3
<1>3. b \in Seq(S) /\ Len(b) = Len(s) - n /\ \A i \in 1 .. Len(s) - n : b[i] = s[n + i]
  <2>1. \A i \in (n + 1) .. Len(s) : s[i] \in S BY <1>1
  <2>2. \A i \in 1 .. Len(s) - n : (n + 1) + i - 1 = n + i /\ i \in 1 .. (Len(s) - (n + 1) + 1)
    BY <1>1
  <2>3. /\ b \in Seq(S)
        /\ Len(b) = IF n + 1 <= Len(s) THEN Len(s) - (n + 1) + 1 ELSE 0
        /\ \A i \in 1 .. (Len(s) - (n + 1) + 1) : b[i] = s[(n + 1) + i - 1]
    BY <1>1, <2>1, SubSeqProperties
  <2> HIDE DEF b
  <2> QED BY <1>1, <2>2, <2>3
<1> HIDE DEF a, b
<1>4. s = a \o b
  <2>1. Len(s) = Len(a) + Len(b) BY <1>1, <1>2, <1>3
  <2>2. \A i \in 1 .. Len(a) : s[i] = a[i] BY <1>1, <1>2
  <2>3. \A i \in 1 .. Len(b) : s[Len(a) + i] = b[i] BY <1>1, <1>2, <1>3
  <2> QED BY <1>2, <1>3, <2>1, <2>2, <2>3, JoinedIs
<1> QED BY <1>4 DEF a, b

LEMMA HeadFirst ==
  ASSUME NEW S, NEW s \in Seq(S), s # <<>>
  PROVE  s = <<Head(s)>> \o Tail(s)
<1>1. /\ Head(s) \in S /\ Tail(s) \in Seq(S) /\ Len(Tail(s)) = Len(s) - 1
      /\ \A i \in 1 .. Len(Tail(s)) : Tail(s)[i] = s[i + 1]
  BY HeadTailProperties
<1>2. <<Head(s)>> \in Seq(S) /\ Len(<<Head(s)>>) = 1 /\ <<Head(s)>>[1] = s[1] BY <1>1
<1>3. Len(s) \in Nat /\ Len(s) = 1 + (Len(s) - 1) /\ \A i \in 1 .. Len(s) - 1 : i + 1 = 1 + i
  OBVIOUS
<1> DEFINE a == <<Head(s)>>
           b == Tail(s)
<1> HIDE DEF a, b
<1>4. /\ a \in Seq(S) /\ b \in Seq(S) /\ Len(s) = Len(a) + Len(b)
      /\ \A i \in 1 .. Len(a) : s[i] = a[i]
      /\ \A i \in 1 .. Len(b) : s[Len(a) + i] = b[i]
  BY <1>1, <1>2, <1>3 DEF a, b
<1>5. s = a \o b BY <1>4, JoinedIs
<1> QED BY <1>5 DEF a, b

(***************************************************************************)
(* The channel: what is carried is the tuple being unpacked, if it has not *)
(* been taken, before those that come.                                     *)
(***************************************************************************)
Unread == IF rx = NoPacket \/ (rx # NoPacket /\ rx.done) THEN <<>> ELSE <<rx.given>>
Tuples(packets) == [k \in 1 .. Len(packets) |-> packets[k].given]

LEMMA CarriedIs == carried = Unread \o Tuples(posted \o wire)
  BY DEF carried, Unread, Tuples

LEMMA TuplesTyped ==
  ASSUME NEW packets \in Seq(PacketSet)
  PROVE  Tuples(packets) \in Seq(Seq(ValueSet)) /\ Len(Tuples(packets)) = Len(packets)
<1>1. ASSUME NEW k \in 1 .. Len(packets) PROVE packets[k].given \in Seq(ValueSet)
  <2>1. packets[k] \in PacketSet OBVIOUS
  <2> QED BY <2>1 DEF PacketSet
<1>2. Len(packets) \in Nat OBVIOUS
<1>3. Tuples(packets) \in [1 .. Len(packets) -> Seq(ValueSet)] BY <1>1 DEF Tuples
<1> QED BY <1>2, <1>3, SeqDef

LEMMA TuplesJoined ==
  ASSUME NEW a \in Seq(PacketSet), NEW b \in Seq(PacketSet)
  PROVE  Tuples(a \o b) = Tuples(a) \o Tuples(b)
<1> DEFINE s == Tuples(a \o b)
           S == Seq(ValueSet)
<1>1. /\ a \o b \in Seq(PacketSet) /\ Len(a \o b) = Len(a) + Len(b)
      /\ \A i \in 1 .. Len(a) : (a \o b)[i] = a[i]
      /\ \A i \in 1 .. Len(b) : (a \o b)[Len(a) + i] = b[i]
      /\ Len(a) \in Nat /\ Len(b) \in Nat
  BY Joined
<1>2. /\ s \in Seq(S) /\ Len(s) = Len(a) + Len(b)
      /\ Tuples(a) \in Seq(S) /\ Len(Tuples(a)) = Len(a)
      /\ Tuples(b) \in Seq(S) /\ Len(Tuples(b)) = Len(b)
  BY <1>1, TuplesTyped
<1>3. ASSUME NEW i \in 1 .. Len(a) PROVE s[i] = Tuples(a)[i]
  <2>1. i \in 1 .. Len(a \o b) BY <1>1
  <2> QED BY <1>1, <2>1 DEF Tuples
<1>4. ASSUME NEW i \in 1 .. Len(b) PROVE s[Len(a) + i] = Tuples(b)[i]
  <2>1. Len(a) + i \in 1 .. Len(a \o b) BY <1>1
  <2>2. s[Len(a) + i] = (a \o b)[Len(a) + i].given BY <2>1 DEF Tuples
  <2> QED BY <1>1, <2>2 DEF Tuples
<1> HIDE DEF s, S
<1> DEFINE ta == Tuples(a)
           tb == Tuples(b)
<1>6. /\ s \in Seq(S) /\ ta \in Seq(S) /\ tb \in Seq(S) /\ Len(s) = Len(ta) + Len(tb)
      /\ \A i \in 1 .. Len(ta) : s[i] = ta[i]
      /\ \A i \in 1 .. Len(tb) : s[Len(ta) + i] = tb[i]
  BY <1>2, <1>3, <1>4
<1> HIDE DEF ta, tb
<1>5. s = ta \o tb BY <1>6, JoinedIs
<1> QED BY <1>5 DEF s, ta, tb

LEMMA TuplesOne ==
  ASSUME NEW p \in PacketSet
  PROVE  <<p>> \in Seq(PacketSet) /\ Tuples(<<p>>) = <<p.given>>
  BY DEF Tuples

LEMMA UnreadTyped == ASSUME ReceiverInv PROVE Unread \in Seq(Seq(ValueSet))
<1>1. CASE rx = NoPacket \/ (rx # NoPacket /\ rx.done)
  <2>1. Unread = <<>> BY <1>1 DEF Unread
  <2> QED BY <2>1
<1>2. CASE ~(rx = NoPacket \/ (rx # NoPacket /\ rx.done))
  <2>1. Unread = <<rx.given>> BY <1>2 DEF Unread
  <2>2. rx.given \in Seq(ValueSet) BY <1>2 DEF ReceiverInv, RxOK, RxSet
  <2> QED BY <2>1, <2>2
<1> QED BY <1>1, <1>2

LEMMA SendStep ==
  ASSUME SenderInv, ReceiverInv, PackerReturns
  PROVE  Channel!Send
<1> DEFINE p == [raw |-> pkt.len - sizeof_hdr, data |-> pkt.data,
                 ber |-> pkt.ber, given |-> pkt.given]
           before == posted \o wire
<1>1. p \in PacketSet BY PackerSends DEF SenderInv, PackerReturns
<1>2. wire' = Append(wire, p) /\ UNCHANGED <<posted, rx, taken>> BY DEF PackerReturns
<1> HIDE DEF p
<1>3. posted \in Seq(PacketSet) /\ wire \in Seq(PacketSet) BY DEF SenderInv, StreamInv
<1>4. before \in Seq(PacketSet) /\ posted' \o wire' = Append(before, p)
  BY <1>1, <1>2, <1>3
<1> HIDE DEF before
<1>5. Tuples(Append(before, p)) = Append(Tuples(before), p.given)
  <2>1. Append(before, p) = before \o <<p>> BY <1>1, <1>4, AppendIsConcat
  <2>2. Tuples(before \o <<p>>) = Tuples(before) \o <<p.given>>
    BY <1>1, <1>4, TuplesJoined, TuplesOne
  <2>3. Tuples(before) \in Seq(Seq(ValueSet)) /\ p.given \in Seq(ValueSet)
    BY <1>1, <1>4, TuplesTyped DEF PacketSet
  <2>4. Append(Tuples(before), p.given) = Tuples(before) \o <<p.given>> BY <2>3, AppendIsConcat
  <2> QED BY <2>1, <2>2, <2>4
<1>6. Unread \in Seq(Seq(ValueSet)) /\ Unread' = Unread BY <1>2, UnreadTyped DEF Unread
<1>7. Tuples(before) \in Seq(Seq(ValueSet)) BY <1>4, TuplesTyped
<1>8. p.given \in Seq(ValueSet) BY <1>1 DEF PacketSet
<1>9. carried = Unread \o Tuples(before) BY CarriedIs DEF before
<1>10. carried' = Unread' \o Tuples(posted' \o wire') BY DEF carried, Unread, Tuples
<1>11. carried' = Unread \o Append(Tuples(before), p.given) BY <1>4, <1>5, <1>6, <1>10
<1>12. carried \in Seq(Seq(ValueSet)) /\ carried' = Append(carried, p.given)
  BY <1>6, <1>7, <1>8, <1>9, <1>11
<1>13. carried' # <<>> /\ carried'[Len(carried')] = p.given BY <1>8, <1>12
<1> QED BY <1>2, <1>12, <1>13 DEF Channel!Send

\* onRead() moves packets from the stream to the callbacks.
LEMMA MoveStep ==
  ASSUME SenderInv, onRead
  PROVE  UNCHANGED <<carried, taken>>
<1>1. PICK n \in 0 .. Len(wire) :
        posted' = posted \o SubSeq(wire, 1, n) /\ wire' = SubSeq(wire, n + 1, Len(wire))
  BY OnReadCuts DEF SenderInv
<1>2. posted \in Seq(PacketSet) /\ wire \in Seq(PacketSet) BY DEF SenderInv, StreamInv
<1>3. posted' \o wire' = posted \o wire
  <2> DEFINE a == SubSeq(wire, 1, n)
             b == SubSeq(wire, n + 1, Len(wire))
  <2>1. a \in Seq(PacketSet) /\ b \in Seq(PacketSet) BY <1>2, SubSeqProperties
  <2>2. wire = a \o b BY <1>2, Rejoined
  <2> HIDE DEF a, b
  <2>3. (posted \o a) \o b = posted \o (a \o b)
    <3>1. \A u, v, w \in Seq(PacketSet) : (u \o v) \o w = u \o (v \o w)
      BY ConcatAssociative, SMTT(40)
    <3> QED BY <1>2, <2>1, <3>1, Zenon
  <2> QED BY <1>1, <2>2, <2>3 DEF a, b
<1>4. UNCHANGED <<rx, taken>> BY DEF onRead
<1>5. carried = Unread \o Tuples(posted \o wire) BY CarriedIs
<1>6. carried' = Unread' \o Tuples(posted' \o wire') BY DEF carried, Unread, Tuples
<1>7. Unread' = Unread BY <1>4 DEF Unread
<1> QED BY <1>3, <1>4, <1>5, <1>6, <1>7

LEMMA CallbackStep ==
  ASSUME SenderInv, CallbackRuns
  PROVE  UNCHANGED <<carried, taken>>
<1>1. rx = NoPacket /\ posted # <<>> /\ posted' = Tail(posted) /\ UNCHANGED <<wire, taken>>
  BY DEF CallbackRuns
<1>2. posted \in Seq(PacketSet) /\ wire \in Seq(PacketSet) BY DEF SenderInv, StreamInv
<1>3. RxOK(rx') /\ ~rx'.done /\ rx'.given = Head(posted).given BY CallbackBegins
<1>4. rx' # NoPacket BY <1>3, IsPacket
<1>5. Unread = <<>> BY <1>1 DEF Unread
<1>6. Unread' = <<Head(posted).given>> BY <1>3, <1>4 DEF Unread
<1> DEFINE first == Head(posted)
           rest  == Tail(posted)
<1>7. first \in PacketSet /\ rest \in Seq(PacketSet) /\ <<first>> \in Seq(PacketSet)
      /\ posted = <<first>> \o rest
  BY <1>1, <1>2, HeadTailProperties, HeadFirst, TuplesOne
<1> HIDE DEF first, rest
<1>8. posted \o wire = <<first>> \o (rest \o wire) /\ rest \o wire \in Seq(PacketSet)
  BY <1>2, <1>7, ConcatAssociative
<1>9. Tuples(posted \o wire) = <<first.given>> \o Tuples(rest \o wire)
  BY <1>7, <1>8, TuplesJoined, TuplesOne
<1>10. carried = Unread \o Tuples(posted \o wire) BY CarriedIs
<1>11. carried' = Unread' \o Tuples(rest \o wire) BY <1>1 DEF carried, Unread, Tuples, rest
<1>12. <<>> \o Tuples(posted \o wire) = Tuples(posted \o wire)
  <2>1. posted \o wire \in Seq(PacketSet) BY <1>2
  <2> QED BY <2>1, TuplesTyped, ConcatEmptySeq
<1> QED BY <1>1, <1>5, <1>6, <1>9, <1>10, <1>11, <1>12 DEF first

\* The receiver leaves the stream alone.
LEMMA StreamLeft ==
  ASSUME UNCHANGED <<posted, wire>>
  PROVE  /\ carried' = Unread' \o Tuples(posted \o wire)
         /\ carried = Unread \o Tuples(posted \o wire)
  BY CarriedIs DEF carried, Unread, Tuples

LEMMA UnpackerStep ==
  ASSUME LengthsFit, SenderInv, ReceiverInv, Unpacker
  PROVE  Channel!Take \/ UNCHANGED <<carried, taken>>
<1>1. rx # NoPacket /\ RxOK(rx) /\ (rx.done => taken = rx.given)
  BY DEF Unpacker, ReceiverInv
<1>2. /\ RxOK(rx') /\ rx'.given = rx.given
      /\ rx'.done = (rx.done \/ rx'.got = rx.given)
      /\ taken' = IF rx'.got = rx.given THEN rx.given ELSE taken
  BY <1>1, UnpackerReads
<1>3. rx' # NoPacket BY <1>2, IsPacket
<1>4. /\ carried' = Unread' \o Tuples(posted \o wire)
      /\ carried = Unread \o Tuples(posted \o wire)
  BY StreamLeft DEF Unpacker
<1>5. CASE ~rx.done /\ rx'.got = rx.given
  <2>1. Unread = <<rx.given>> /\ Unread' = <<>> BY <1>1, <1>2, <1>3, <1>5 DEF Unread
  <2>2. posted \o wire \in Seq(PacketSet) BY DEF SenderInv, StreamInv
  <2>3. Tuples(posted \o wire) \in Seq(Seq(ValueSet)) BY <2>2, TuplesTyped
  <2>4. rx.given \in Seq(ValueSet) BY <1>1, IsPacket
  <2> DEFINE rest == Tuples(posted \o wire)
  <2>5. carried = <<rx.given>> \o rest /\ carried' = <<>> \o rest BY <1>4, <2>1
  <2> HIDE DEF rest
  <2>6. rest \in Seq(Seq(ValueSet)) BY <2>3 DEF rest
  <2>7. /\ <<rx.given>> \o rest # <<>> /\ Head(<<rx.given>> \o rest) = rx.given
        /\ <<>> \o rest = rest
    BY <2>4, <2>6
  <2>8. Tail(<<rx.given>> \o rest) = rest
    <3> DEFINE l == <<rx.given>> \o rest
    <3>1. l \in Seq(Seq(ValueSet)) /\ Len(l) = Len(rest) + 1 BY <2>4, <2>6
    <3>2. Len(rest) \in Nat BY <2>6
    <3>3. \A k \in 1 .. Len(rest) : l[k + 1] = rest[k] BY <2>4, <2>6
    <3> HIDE DEF l
    <3>4. Tail(l) \in Seq(Seq(ValueSet)) /\ Len(Tail(l)) = Len(rest)
          /\ \A k \in 1 .. Len(rest) : Tail(l)[k] = l[k + 1]
      BY <3>1, <3>2
    <3>5. Tail(l) = rest BY <2>6, <3>3, <3>4, SeqEqual
    <3> QED BY <3>5 DEF l
  <2>9. taken' = rx.given BY <1>2, <1>5
  <2> QED BY <2>5, <2>7, <2>8, <2>9 DEF Channel!Take
<1>6. CASE rx.done
  <2>1. taken' = taken BY <1>1, <1>2, <1>6
  <2>2. Unread' = Unread BY <1>1, <1>2, <1>3, <1>6 DEF Unread
  <2> QED BY <1>4, <2>1, <2>2
<1>7. CASE ~rx.done /\ ~(rx'.got = rx.given)
  <2>1. taken' = taken /\ ~rx'.done BY <1>2, <1>7
  <2>2. Unread' = Unread BY <1>1, <1>2, <1>3, <1>7, <2>1 DEF Unread
  <2> QED BY <1>4, <2>1, <2>2
<1> QED BY <1>5, <1>6, <1>7

LEMMA ReadAnewStep ==
  ASSUME ReceiverInv, UnpackerBeyond \/ BeginAnew \/ CallbackReturns
  PROVE  UNCHANGED <<carried, taken>>
<1>1. rx # NoPacket /\ RxOK(rx) BY DEF ReceiverInv, UnpackerBeyond, BeginAnew, CallbackReturns
<1>2. UNCHANGED <<posted, wire, taken>>
  BY DEF UnpackerBeyond, BeginAnew, CallbackReturns, Refused
<1>3. /\ carried' = Unread' \o Tuples(posted \o wire)
      /\ carried = Unread \o Tuples(posted \o wire)
  BY <1>2, StreamLeft
<1>4. \/ rx' = NoPacket /\ rx.done
      \/ RxOK(rx') /\ rx'.given = rx.given /\ rx'.done = rx.done
  <2>1. Len(rx.got) = Len(rx.given) => rx.done BY <1>1, ReadAll
  <2>2. CASE UnpackerBeyond
    <3>1. rx.done BY <2>1, <2>2 DEF UnpackerBeyond
    <3> QED BY <1>1, <2>2, <3>1, UnpackerBeyondReads
  <2>3. CASE BeginAnew BY <1>1, <2>3, BegunAnew
  <2>4. CASE CallbackReturns BY <2>1, <2>4 DEF CallbackReturns
  <2> QED BY <2>2, <2>3, <2>4
<1>5. Unread' = Unread
  <2>1. CASE rx' = NoPacket /\ rx.done BY <1>1, <2>1 DEF Unread
  <2>2. CASE RxOK(rx') /\ rx'.given = rx.given /\ rx'.done = rx.done
    <3>1. rx' # NoPacket BY <2>2, IsPacket
    <3> QED BY <1>1, <2>2, <3>1 DEF Unread
  <2> QED BY <1>4, <2>1, <2>2
<1> QED BY <1>2, <1>3, <1>5

(***************************************************************************)
(* Packing, the stream and unpacking implement a channel of tuples: each   *)
(* is taken as it was packed, whole, in order and once, whatever the sizes *)
(* of the strings, however the stream cuts them, with lengths of four      *)
(* bytes or BER ones.  Packer() returning is Send, the call of Unpacker()  *)
(* that first reads a packet to its end is Take.                           *)
(***************************************************************************)
THEOREM WireIsChannel == ASSUME LengthsFit PROVE Spec => ImplementsChannel
<1>1. Init => Channel!Init
  <2> SUFFICES ASSUME Init PROVE Channel!Init OBVIOUS
  <2>1. rx = NoPacket /\ posted = <<>> /\ wire = <<>> /\ taken = <<>> BY DEF Init
  <2>2. Unread = <<>> BY <2>1 DEF Unread
  <2>3. Tuples(posted \o wire) \in Seq(Seq(ValueSet)) /\ Len(Tuples(posted \o wire)) = 0
    <3>1. posted \o wire = <<>> BY <2>1
    <3>2. <<>> \in Seq(PacketSet) /\ Len(<<>>) = 0 OBVIOUS
    <3> QED BY <3>1, <3>2, TuplesTyped
  <2>4. Tuples(posted \o wire) = <<>> BY <2>3
  <2>5. carried = <<>> BY <2>2, <2>4, CarriedIs
  <2> QED BY <2>1, <2>5 DEF Channel!Init
<1>2. SenderInv /\ ReceiverInv /\ [Next]_vars
        => [Channel!Send \/ Channel!Take]_<<carried, taken>>
  <2> SUFFICES ASSUME SenderInv, ReceiverInv, [Next]_vars
               PROVE  Channel!Send \/ Channel!Take \/ UNCHANGED <<carried, taken>>
    OBVIOUS
  <2>1. CASE UNCHANGED <<posted, wire, rx, taken>>
    <3>1. Unread' = Unread BY <2>1 DEF Unread
    <3> QED BY <2>1, <3>1, StreamLeft
  <2>2. CASE PackerReturns BY <2>2, SendStep
  <2>3. CASE onRead BY <2>3, MoveStep
  <2>4. CASE CallbackRuns BY <2>4, CallbackStep
  <2>5. CASE Unpacker BY <2>5, UnpackerStep
  <2>6. CASE UnpackerBeyond \/ BeginAnew \/ CallbackReturns BY <2>6, ReadAnewStep
  <2> QED
    BY <2>1, <2>2, <2>3, <2>4, <2>5, <2>6 DEF Next, vars, Packer, PackerImpl
<1> QED BY <1>1, <1>2, SenderAlways, ReceiverAlways, PTL DEF Spec, ImplementsChannel, Channel!Spec
================================================================================

--------------------------- MODULE PacketizerProofs ---------------------------
(***************************************************************************)
(* Proofs about Depacketizer, for any NAL units, any packet size of at     *)
(* least four bytes, any size of the buffer, any number to begin with and  *)
(* any number of packets, however they are lost, late or repeated, so long *)
(* as none comes from half the circle of numbers away.                     *)
(*                                                                         *)
(* The sender: between two fragments the buffer still holds, from the      *)
(* offset on, the NAL unit's own bytes, and in its first two places the    *)
(* headers of the first fragment; whoever unpacked the packets so far has  *)
(* exactly the bytes below the offset (InHand).  A fragment moves the      *)
(* offset by the bytes it carries (FirstFragment, NextFragment).           *)
(*                                                                         *)
(* The receiver: every stored packet is one of those sent (Located), their *)
(* numbers tell which (NumbersTell), and unless the client knows of a loss *)
(* it has of a frame what one who unpacked every packet up to the one      *)
(* expected would have (InStep); PacketHistory says what that is.          *)
(***************************************************************************)
EXTENDS Depacketizer, ListLemmas, TLAPS

\* A NAL unit as it is read into the buffer.
IsNal(nal) ==
  /\ nal \in Seq(Byte) /\ nal # <<>>
  /\ Len(nal) <= OutPacketBufferMaxSize
  /\ Type(nal[1]) \in 1..23

Buffers == [0..OutPacketBufferMaxSize -> Byte]

\* What the buffer holds when the bytes below an offset have been sent.
HoldsRest(buffer, nal, offset) ==
  /\ buffer \in Buffers
  /\ buffer[0] = FUIndicator(nal[1]) /\ buffer[1] = FUHeader(nal[1])
  /\ \A i \in offset..Len(nal) : buffer[i] = nal[i]

-----------------------------------------------------------------------------
(* Bytes *)

\* The header of a NAL unit, split over two header bytes, comes back.
LEMMA HeaderComesBack ==
  ASSUME NEW h \in Byte
  PROVE  /\ FUIndicator(h) \in Byte /\ Type(FUIndicator(h)) = FU_A
         /\ (FUIndicator(h) \div 32) * 32 + Type(FUHeader(h)) = h
         /\ FUHeader(h) \in Byte /\ FUHeader(h) >= 128
         /\ (FUHeader(h) \div 64) % 2 # 1
BY DEF Byte, FUIndicator, FUHeader, Type, FU_A

\* The header byte of the later fragments: no S bit, and the E bit if it is set.
LEMMA LaterHeader ==
  ASSUME NEW h \in Byte, NEW e \in {0, 64}
  PROVE  LET x == (FUHeader(h) % 128) + e IN
         x \in Byte /\ ~(x >= 128) /\ ((x \div 64) % 2 = 1 <=> e = 64)
BY DEF Byte, FUHeader, Type

\* What memmove copies.
LEMMA BytesAre ==
  ASSUME NEW buffer \in Buffers, NEW from \in Nat, NEW number \in Nat,
         from + number <= OutPacketBufferMaxSize + 1
  PROVE  /\ Bytes(buffer, from, number) \in Seq(Byte)
         /\ Len(Bytes(buffer, from, number)) = number
         /\ \A i \in 1..number : Bytes(buffer, from, number)[i] = buffer[from + i - 1]
<1>1. \A i \in 1..number : from + i - 1 \in 0..OutPacketBufferMaxSize
  BY PacketizerAssumption
<1>2. \A i \in 1..number : buffer[from + i - 1] \in Byte
  BY <1>1 DEF Buffers
<1> QED
  BY <1>2 DEF Bytes

-----------------------------------------------------------------------------
(* The three kinds of packets *)

\* A NAL unit that fits goes as it is.
LEMMA WholeUnit ==
  ASSUME NEW nal, IsNal(nal), NEW buffer \in Buffers,
         \A i \in 1..Len(nal) : buffer[i] = nal[i]
  PROVE  Bytes(buffer, 1, Len(nal)) = nal /\ ~IsFragment(nal)
<1>1. Len(nal) \in Nat /\ 1 + Len(nal) <= OutPacketBufferMaxSize + 1
  BY PacketizerAssumption DEF IsNal
<1> DEFINE b == Bytes(buffer, 1, Len(nal))
<1>2. /\ b \in Seq(Byte) /\ Len(b) = Len(nal)
      /\ \A i \in 1..Len(nal) : b[i] = buffer[1 + i - 1]
  BY <1>1, BytesAre
<1> HIDE DEF b
<1>3. \A i \in 1..Len(nal) : 1 + i - 1 = i
  BY <1>1
<1>4. \A i \in 1..Len(nal) : b[i] = nal[i]
  BY <1>2, <1>3
<1>5. b = nal
  BY <1>2, <1>4, SeqEqual DEF IsNal
<1>6. ~IsFragment(nal)
  BY DEF IsNal, IsFragment, FU_A
<1> QED
  BY <1>5, <1>6 DEF b

\* The first fragment of one that does not.
LEMMA FirstFragment ==
  ASSUME NEW nal, IsNal(nal), Len(nal) > fMaxOutputPacketSize, NEW buffer \in Buffers,
         \A i \in 1..Len(nal) : buffer[i] = nal[i],
         NEW b, b = [buffer EXCEPT ![0] = FUIndicator(buffer[1]), ![1] = FUHeader(buffer[1])],
         NEW p, p = Bytes(b, 0, fMaxOutputPacketSize)
  PROVE  /\ HoldsRest(b, nal, fMaxOutputPacketSize)
         /\ p \in Seq(Byte) /\ Len(p) = fMaxOutputPacketSize
         /\ IsFragment(p) /\ StartBit(p) /\ ~EndBit(p)
         /\ FragmentData(p) = SubSeq(nal, 1, fMaxOutputPacketSize - 1)
<1> DEFINE n == fMaxOutputPacketSize
           h == nal[1]
<1>1. n \in Nat /\ n >= 4 /\ OutPacketBufferMaxSize \in Nat \ {0}
  BY PacketizerAssumption
<1>2. nal \in Seq(Byte) /\ Len(nal) \in Nat /\ Len(nal) <= OutPacketBufferMaxSize /\ n < Len(nal)
  BY <1>1 DEF IsNal
<1>3. h \in Byte /\ buffer[1] = h
  BY <1>1, <1>2
<1>4. FUIndicator(h) \in Byte /\ FUHeader(h) \in Byte
  BY <1>3, HeaderComesBack
<1>5. /\ b \in Buffers /\ b[0] = FUIndicator(h) /\ b[1] = FUHeader(h)
      /\ \A i \in 2..Len(nal) : b[i] = nal[i]
  <2>1. b = [buffer EXCEPT ![0] = FUIndicator(h), ![1] = FUHeader(h)]
    BY <1>3
  <2>2. 0 \in 0..OutPacketBufferMaxSize /\ 1 \in 0..OutPacketBufferMaxSize
    BY <1>1
  <2>3. b \in Buffers
    BY <1>4, <2>1 DEF Buffers
  <2>4. b[0] = FUIndicator(h) /\ b[1] = FUHeader(h)
    BY <2>1, <2>2 DEF Buffers
  <2>5. ASSUME NEW i \in 2..Len(nal) PROVE b[i] = nal[i]
    <3>1. i \in 0..OutPacketBufferMaxSize /\ i # 0 /\ i # 1 /\ i \in 1..Len(nal)
      BY <1>1, <1>2
    <3>2. b[i] = buffer[i]
      BY <2>1, <3>1 DEF Buffers
    <3> QED
      BY <3>1, <3>2
  <2> QED
    BY <2>3, <2>4, <2>5
<1>6. HoldsRest(b, nal, n)
  <2>1. \A i \in n..Len(nal) : i \in 2..Len(nal)
    BY <1>1, <1>2
  <2> QED
    BY <1>5, <2>1 DEF HoldsRest
<1>7. p \in Seq(Byte) /\ Len(p) = n /\ \A i \in 1..n : p[i] = b[0 + i - 1]
  <2>1. 0 \in Nat /\ n \in Nat /\ 0 + n <= OutPacketBufferMaxSize + 1 /\ b \in Buffers
    BY <1>1, <1>2, <1>5
  <2>2. /\ Bytes(b, 0, n) \in Seq(Byte) /\ Len(Bytes(b, 0, n)) = n
        /\ \A i \in 1..n : Bytes(b, 0, n)[i] = b[0 + i - 1]
    BY ONLY <2>1, BytesAre
  <2> QED
    BY <2>2
<1>8. p[1] = FUIndicator(h) /\ p[2] = FUHeader(h)
  <2>1. 1 \in 1..n /\ 2 \in 1..n /\ 0 + 1 - 1 = 0 /\ 0 + 2 - 1 = 1
    BY <1>1
  <2>2. p[1] = b[0 + 1 - 1] /\ p[2] = b[0 + 2 - 1]
    BY <1>7, <2>1
  <2> QED
    BY <1>5, <2>1, <2>2
<1>9. IsFragment(p) /\ StartBit(p) /\ ~EndBit(p)
  BY <1>3, <1>8, HeaderComesBack DEF IsFragment, StartBit, EndBit
<1>10. FragmentData(p) = SubSeq(nal, 1, n - 1)
  <2> DEFINE d == SubSeq(p, 3, n)
  <2>1. FragmentData(p) = <<h>> \o d
    BY <1>3, <1>7, <1>8, <1>9, HeaderComesBack DEF FragmentData
  <2>2. d \in Seq(Byte) /\ Len(d) = n - 2 /\ \A i \in 1..(n - 2) : d[i] = p[3 + i - 1]
    BY <1>1, <1>7, SubSeqProperties
  <2> HIDE DEF d
  <2>3. ASSUME NEW i \in 1..Len(d) PROVE d[i] = nal[1 + i]
    <3>1. PICK j \in 1..n : j = 3 + i - 1
      BY <1>1, <2>2
    <3>2. PICK k \in 2..Len(nal) : k = 1 + i
      BY <1>1, <1>2, <2>2
    <3>3. d[i] = p[j] /\ p[j] = b[0 + j - 1]
      BY <1>7, <2>2, <3>1
    <3>4. 0 + j - 1 = k
      BY <3>1, <3>2
    <3>5. d[i] = nal[k]
      BY <1>5, <3>3, <3>4
    <3> QED
      BY <3>2, <3>5
  <2>4. SubSeq(nal, 1, 1) = <<h>>
    <3>1. /\ SubSeq(nal, 1, 1) \in Seq(Byte) /\ Len(SubSeq(nal, 1, 1)) = 1
          /\ SubSeq(nal, 1, 1)[1] = nal[1]
      <4>1. 1 \in Int /\ \A i \in 1..1 : nal[i] \in Byte
        BY <1>1, <1>2
      <4> QED
        BY <4>1, SubSeqProperties
    <3>2. <<h>> \in Seq(Byte) /\ Len(<<h>>) = 1 /\ <<h>>[1] = h
      BY <1>3
    <3>3. \A i \in 1..1 : SubSeq(nal, 1, 1)[i] = <<h>>[i]
      BY <3>1, <3>2
    <3> QED
      BY <3>1, <3>2, <3>3, SeqEqual
  <2>5. 1 + Len(d) <= Len(nal)
    BY <1>1, <1>2, <2>2
  <2>6. SubSeq(nal, 1, 1) \o d = SubSeq(nal, 1, 1 + Len(d))
    BY <1>2, <2>2, <2>3, <2>5, PrefixGrows
  <2>7. 1 + Len(d) = n - 1
    BY <1>1, <2>2
  <2> QED
    BY <2>1, <2>4, <2>6, <2>7
<1> QED
  BY <1>6, <1>7, <1>9, <1>10

\* The buffer with the two header bytes of a later fragment.
WithHeaders(buffer, offset, e) ==
  [buffer EXCEPT ![offset - 2] = buffer[0], ![offset - 1] = (buffer[1] % 128) + e]

\* The packet p carries the next bytes of a NAL unit, and b is left behind.
CarriesNext(nal, offset, number, e, b, p) ==
  /\ HoldsRest(b, nal, offset + number - 2)
  /\ p \in Seq(Byte) /\ Len(p) = number
  /\ IsFragment(p) /\ ~StartBit(p) /\ (EndBit(p) <=> e = 64)
  /\ FragmentData(p) \in Seq(Byte)
  /\ SubSeq(nal, 1, offset - 1) \o FragmentData(p) = SubSeq(nal, 1, offset + number - 3)

\* A fragment behind it.
LEMMA NextFragment ==
  ASSUME NEW nal, IsNal(nal), NEW offset, offset \in 4..Len(nal), NEW buffer,
         HoldsRest(buffer, nal, offset),
         NEW number, number \in 3..fMaxOutputPacketSize, offset + number <= Len(nal) + 3,
         NEW e, e \in {0, 64},
         NEW b, b = WithHeaders(buffer, offset, e),
         NEW p, p = Bytes(b, offset - 2, number)
  PROVE  CarriesNext(nal, offset, number, e, b, p)
<1> DEFINE h == nal[1]
           x == (FUHeader(h) % 128) + e
<1>0. offset + number <= Len(nal) + 3
  OBVIOUS
<1>1. number \in Nat /\ number >= 3 /\ OutPacketBufferMaxSize \in Nat \ {0}
  BY PacketizerAssumption
<1>2. /\ nal \in Seq(Byte) /\ Len(nal) \in Nat /\ Len(nal) <= OutPacketBufferMaxSize
      /\ offset \in Nat /\ offset >= 4 /\ offset <= Len(nal)
  BY <1>1 DEF IsNal
<1>3. /\ h \in Byte /\ buffer \in Buffers
      /\ buffer[0] = FUIndicator(h) /\ buffer[1] = FUHeader(h)
      /\ \A i \in offset..Len(nal) : buffer[i] = nal[i]
  BY <1>2 DEF HoldsRest
<1>4. FUIndicator(h) \in Byte /\ x \in Byte
  BY <1>3, HeaderComesBack, LaterHeader
<1>5. PICK u, v \in 2..OutPacketBufferMaxSize : u = offset - 2 /\ v = offset - 1 /\ u # v
  BY <1>1, <1>2
<1>6. b = [buffer EXCEPT ![u] = FUIndicator(h), ![v] = x]
  BY <1>3, <1>5 DEF WithHeaders
<1>7. /\ u \in 0..OutPacketBufferMaxSize /\ v \in 0..OutPacketBufferMaxSize
      /\ u # 0 /\ u # 1 /\ v # 0 /\ v # 1
      /\ 0 \in 0..OutPacketBufferMaxSize /\ 1 \in 0..OutPacketBufferMaxSize
  BY <1>1, <1>5
<1> HIDE DEF x
<1>8. b \in Buffers /\ b[u] = FUIndicator(h) /\ b[v] = x
  BY <1>3, <1>4, <1>5, <1>6, <1>7 DEF Buffers
<1>9. b[0] = FUIndicator(h) /\ b[1] = FUHeader(h)
  BY <1>3, <1>6, <1>7 DEF Buffers
<1>10. \A i \in offset..Len(nal) : b[i] = nal[i]
  <2> SUFFICES ASSUME NEW i \in offset..Len(nal) PROVE b[i] = nal[i]
    OBVIOUS
  <2>1. i \in 0..OutPacketBufferMaxSize /\ i # u /\ i # v
    BY <1>1, <1>2, <1>5
  <2> QED
    BY <1>3, <1>6, <2>1 DEF Buffers
<1>11. HoldsRest(b, nal, offset + number - 2)
  <2>1. \A i \in (offset + number - 2)..Len(nal) : i \in offset..Len(nal)
    BY <1>1, <1>2
  <2> QED
    BY <1>8, <1>9, <1>10, <2>1 DEF HoldsRest
<1>12. p \in Seq(Byte) /\ Len(p) = number /\ \A i \in 1..number : p[i] = b[u + i - 1]
  <2>1. /\ u \in Nat /\ number \in Nat /\ u + number <= OutPacketBufferMaxSize + 1
        /\ b \in Buffers
    BY <1>1, <1>2, <1>5, <1>8
  <2>2. p = Bytes(b, u, number)
    BY <1>5
  <2>3. /\ Bytes(b, u, number) \in Seq(Byte) /\ Len(Bytes(b, u, number)) = number
        /\ \A i \in 1..number : Bytes(b, u, number)[i] = b[u + i - 1]
    BY ONLY <2>1, BytesAre
  <2> QED
    BY <2>2, <2>3
<1>13. p[1] = FUIndicator(h) /\ p[2] = x
  <2>1. 1 \in 1..number /\ 2 \in 1..number /\ u + 1 - 1 = u /\ u + 2 - 1 = v
    BY <1>1, <1>5
  <2>2. p[1] = b[u + 1 - 1] /\ p[2] = b[u + 2 - 1]
    BY <1>12, <2>1
  <2> QED
    BY <1>8, <2>1, <2>2
<1>14. IsFragment(p) /\ ~StartBit(p) /\ (EndBit(p) <=> e = 64)
  BY <1>3, <1>13, HeaderComesBack, LaterHeader DEF IsFragment, StartBit, EndBit, x
<1> DEFINE d == SubSeq(p, 3, number)
<1>15. FragmentData(p) = d
  BY <1>12, <1>14 DEF FragmentData
<1>16. d \in Seq(Byte) /\ Len(d) = number - 2 /\ \A i \in 1..(number - 2) : d[i] = p[3 + i - 1]
  <2>1. \A i \in 3..number : p[i] \in Byte
    BY <1>1, <1>12
  <2>2. 3 \in Int /\ number \in Int /\ 3 <= number /\ number - 3 + 1 = number - 2
    BY <1>1
  <2> QED
    BY ONLY <2>1, <2>2, SubSeqProperties
<1> HIDE DEF d
<1>17. PICK a \in Nat : a = offset - 1
  BY <1>2
<1>17a. PICK m \in Nat : m = number - 2 /\ m = Len(d)
  BY <1>1, <1>16
<1>18. ASSUME NEW i \in 1..Len(d) PROVE d[i] = nal[a + i]
  <2>0. i \in 1..m
    BY <1>17a
  <2>1. PICK j \in 1..number : j = 3 + i - 1
    BY ONLY <1>1, <1>17a, <2>0
  <2>2. PICK k \in offset..Len(nal) : k = a + i
    BY ONLY <1>1, <1>2, <1>17, <1>17a, <2>0, <1>0
  <2>3. d[i] = p[j] /\ p[j] = b[u + j - 1]
    BY <1>12, <1>16, <1>17a, <2>0, <2>1
  <2>4. u + j - 1 = k
    BY ONLY <1>2, <1>5, <1>17, <2>0, <2>1, <2>2
  <2>5. d[i] = nal[k]
    BY <1>10, <2>3, <2>4
  <2> QED
    BY <2>2, <2>5
<1>19. a + Len(d) <= Len(nal) /\ a + Len(d) = offset + number - 3
  BY ONLY <1>0, <1>1, <1>2, <1>17, <1>17a
<1>20. SubSeq(nal, 1, a) \o d = SubSeq(nal, 1, a + Len(d))
  BY <1>2, <1>16, <1>18, <1>19, PrefixGrows
<1> QED
  BY <1>11, <1>12, <1>14, <1>15, <1>16, <1>17, <1>19, <1>20 DEF CarriesNext

-----------------------------------------------------------------------------
(* The history of the packets, on which the receiver's proof rests *)

\* What one who unpacks every packet has before the k-th.
Before(k) == IF k = 1 THEN [frames |-> 0, part |-> <<>>] ELSE unpacked[k - 1]

\* The number of the k-th packet, the next one to be sent included.
NumberOf(k) == IF k <= Len(sent) THEN sent[k].seq ELSE fSeqNo

\* Two numbers are d apart, on the circle of numbers.
Apart(s, t, d) == t - s = d \/ t - s = d - SeqModulus

Numbering ==
  /\ \A k \in DOMAIN sent : NumberOf(k + 1) = (NumberOf(k) + 1) % SeqModulus
  /\ \A j, k \in 1..(Len(sent) + 1) :
       j <= k /\ k - j < SeqModulus => Apart(NumberOf(j), NumberOf(k), k - j)

\* A packet adds its data to what was unpacked before.
Adds(k) ==
  LET payload == sent[k].payload
      all == Before(k).part \o Data(payload)
      n == Before(k).frames IN
  /\ Begins(payload) <=> Before(k).part = <<>>
  /\ Completes(payload) =>
       /\ unpacked[k] = [frames |-> n + 1, part |-> <<>>]
       /\ n + 1 \in DOMAIN frames /\ frames[n + 1] = all
  /\ ~Completes(payload) => unpacked[k] = [frames |-> n, part |-> all]

Unpacking ==
  /\ Len(unpacked) = Len(sent)
  /\ Before(Len(sent) + 1) = [frames |-> Len(frames), part |-> part]
  /\ \A k \in DOMAIN sent : Adds(k)
  /\ \A j, k \in 1..(Len(sent) + 1) : j <= k => Before(j).frames <= Before(k).frames

PacketHistory == Numbering /\ Unpacking

\* Whatever is sent, what was true of the packets before remains so.
HistoryKept ==
  /\ Len(sent) <= Len(sent') /\ DOMAIN frames \subseteq DOMAIN frames'
  /\ \A k \in DOMAIN sent : sent'[k] = sent[k]
  /\ \A n \in DOMAIN frames : frames'[n] = frames[n]
  /\ \A k \in 1..(Len(sent) + 1) : NumberOf(k)' = NumberOf(k) /\ Before(k)' = Before(k)

\* A packet's payload that can be unpacked.
Fits(payload) ==
  /\ payload \in Seq(Byte) /\ payload # <<>>
  /\ IsFragment(payload) => Len(payload) > 2

\* What a packet contributes to a frame.
LEMMA DataAreBytes ==
  ASSUME NEW payload, Fits(payload)
  PROVE  Data(payload) \in Seq(Byte)
<1>1. payload \in Seq(Byte) /\ Len(payload) \in Nat
  BY DEF Fits
<1>2. CASE ~IsFragment(payload)
  BY <1>1, <1>2 DEF Data
<1>3. CASE IsFragment(payload)
  <2>1. Len(payload) > 2
    BY <1>3 DEF Fits
  <2>2. payload[1] \in Byte /\ payload[2] \in Byte /\ \A i \in 3..Len(payload) : payload[i] \in Byte
    BY <1>1, <2>1
  <2>3. SubSeq(payload, 3, Len(payload)) \in Seq(Byte)
    BY <1>1, <2>2, SubSeqProperties
  <2>4. PICK x \in Byte : x = (payload[1] \div 32) * 32 + Type(payload[2])
    <3>1. PICK u \in Byte, v \in Byte : u = payload[1] /\ v = payload[2]
      BY <2>2
    <3>2. (u \div 32) * 32 + (v % 32) \in 0..255
      BY DEF Byte
    <3>3. PICK w \in 0..255 : w = (u \div 32) * 32 + (v % 32)
      BY <3>2
    <3>4. (payload[1] \div 32) * 32 + Type(payload[2]) = w
      BY <3>1, <3>3 DEF Type
    <3> QED
      BY ONLY <3>4 DEF Byte
  <2>5. <<x>> \o SubSeq(payload, 3, Len(payload)) \in Seq(Byte)
    BY <2>3, InFront
  <2> QED
    BY <1>3, <2>3, <2>4, <2>5 DEF Data, FragmentData
<1> QED
  BY <1>2, <1>3

\* What one who unpacks it gets.
LEMMA UnpackWhole ==
  ASSUME NEW payload, Unpack(payload), ~IsFragment(payload)
  PROVE  frames' = Append(frames, payload) /\ part' = <<>>
BY DEF Unpack

LEMMA UnpackFirst ==
  ASSUME NEW payload, Unpack(payload), IsFragment(payload), StartBit(payload), ~EndBit(payload)
  PROVE  UNCHANGED frames /\ part' = FragmentData(payload)
BY DEF Unpack

LEMMA UnpackNext ==
  ASSUME NEW payload, Unpack(payload), IsFragment(payload), ~StartBit(payload), ~EndBit(payload)
  PROVE  UNCHANGED frames /\ part' = part \o FragmentData(payload)
BY DEF Unpack

LEMMA UnpackLast ==
  ASSUME NEW payload, Unpack(payload), IsFragment(payload), ~StartBit(payload), EndBit(payload)
  PROVE  frames' = Append(frames, part \o FragmentData(payload)) /\ part' = <<>>
BY DEF Unpack

\* The packets' numbers and the history do not change unless one is sent.
LEMMA HistoryStays ==
  ASSUME UNCHANGED packetVars
  PROVE  HistoryKept /\ (PacketHistory => PacketHistory')
<1>1. UNCHANGED <<fSeqNo, sent, frames, part, unpacked>>
  BY DEF packetVars
<1>2. /\ \A k : NumberOf(k)' = NumberOf(k)
      /\ \A k : Before(k)' = Before(k)
  BY <1>1 DEF NumberOf, Before
<1>3. HistoryKept
  BY <1>1, <1>2 DEF HistoryKept
<1>4. ASSUME PacketHistory PROVE Numbering'
  BY <1>1, <1>2, <1>4 DEF PacketHistory, Numbering
<1>5. ASSUME PacketHistory PROVE Unpacking'
  BY <1>1, <1>2, <1>5 DEF PacketHistory, Unpacking, Adds
<1> QED
  BY <1>3, <1>4, <1>5 DEF PacketHistory

\* What one who unpacks it makes of a packet.
LEMMA UnpackAdds ==
  ASSUME SenderTypeOK, NEW payload, Fits(payload), Unpack(payload),
         IsFragment(payload) => ~(StartBit(payload) /\ EndBit(payload)),
         Begins(payload) <=> part = <<>>,
         NEW all, all = part \o Data(payload)
  PROVE  /\ all \in Seq(Byte)
         /\ Completes(payload) => frames' = Append(frames, all) /\ part' = <<>>
         /\ ~Completes(payload) => frames' = frames /\ part' = all
         /\ unpacked' = Append(unpacked, [frames |-> Len(frames'), part |-> part'])
         /\ frames' \in Seq(Seq(Byte)) /\ part' \in Seq(Byte)
         /\ unpacked' \in Seq([frames : Nat, part : Seq(Byte)])
<1>1. /\ part \in Seq(Byte) /\ frames \in Seq(Seq(Byte))
      /\ unpacked \in Seq([frames : Nat, part : Seq(Byte)])
  BY DEF SenderTypeOK
<1>2. Data(payload) \in Seq(Byte)
  BY DataAreBytes
<1>3. all \in Seq(Byte)
  BY <1>1, <1>2, ConcatProperties
<1>4. part = <<>> => all = Data(payload)
  BY <1>2, ConcatEmptySeq
<1>5. unpacked' = Append(unpacked, [frames |-> Len(frames'), part |-> part'])
  BY DEF Unpack
<1>8. /\ Completes(payload) => frames' = Append(frames, all) /\ part' = <<>>
      /\ ~Completes(payload) => frames' = frames /\ part' = all
  <2>1. CASE ~IsFragment(payload)
    <3>1. Begins(payload) /\ Completes(payload) /\ Data(payload) = payload
      BY <2>1 DEF Begins, Completes, Data
    <3>2. frames' = Append(frames, payload) /\ part' = <<>>
      BY <2>1, UnpackWhole
    <3> QED
      BY <1>4, <3>1, <3>2
  <2>2. CASE IsFragment(payload)
    <3>1. /\ Data(payload) = FragmentData(payload)
          /\ Completes(payload) <=> EndBit(payload)
          /\ Begins(payload) <=> StartBit(payload)
      BY <2>2 DEF Begins, Completes, Data
    <3>2. CASE StartBit(payload)
      <4>1. UNCHANGED frames /\ part' = FragmentData(payload) /\ ~EndBit(payload)
        BY <2>2, <3>2, UnpackFirst
      <4> QED
        BY <1>4, <3>1, <3>2, <4>1
    <3>3. CASE ~StartBit(payload)
      BY <2>2, <3>1, <3>3, UnpackNext, UnpackLast
    <3> QED
      BY <3>2, <3>3
  <2> QED
    BY <2>1, <2>2
<1>9. frames' \in Seq(Seq(Byte)) /\ part' \in Seq(Byte)
  <2>1. Append(frames, all) \in Seq(Seq(Byte)) /\ <<>> \in Seq(Byte)
    BY <1>1, <1>3, AppendProperties
  <2>2. CASE Completes(payload)
    BY <1>8, <2>1, <2>2
  <2>3. CASE ~Completes(payload)
    BY <1>1, <1>3, <1>8, <2>3
  <2> QED
    BY <2>2, <2>3
<1>10. PICK now : now = [frames |-> Len(frames'), part |-> part']
  OBVIOUS
<1>11. now \in [frames : Nat, part : Seq(Byte)]
  BY <1>9, <1>10
<1>12. Append(unpacked, now) \in Seq([frames : Nat, part : Seq(Byte)])
  BY <1>1, <1>11, AppendProperties
<1> QED
  BY <1>3, <1>5, <1>8, <1>9, <1>10, <1>12

\* The next number, on the circle.
LEMMA OneFurther ==
  ASSUME NEW s \in 0..(SeqModulus - 1), NEW t \in 0..(SeqModulus - 1), NEW d \in Nat,
         Apart(s, t, d), d + 1 < SeqModulus
  PROVE  Apart(s, (t + 1) % SeqModulus, d + 1)
<1>1. SeqModulus \in Nat \ {0}
  BY PacketizerAssumption
<1>2. CASE t + 1 < SeqModulus
  <2>1. (t + 1) % SeqModulus = t + 1
    BY <1>1, <1>2
  <2> QED
    BY <1>1, <2>1 DEF Apart
<1>3. CASE t + 1 = SeqModulus
  <2>1. (t + 1) % SeqModulus = 0
    BY <1>1, <1>3
  <2> QED
    BY <1>1, <1>3, <2>1 DEF Apart
<1> QED
  BY <1>1, <1>2, <1>3

\* The packet x is sent.
IsSent(x) ==
  /\ x \in Packet /\ x.seq = fSeqNo /\ Fits(x.payload)
  /\ Begins(x.payload) <=> part = <<>>
  /\ IsFragment(x.payload) => ~(StartBit(x.payload) /\ EndBit(x.payload))
  /\ sent' = Append(sent, x) /\ fSeqNo' = (fSeqNo + 1) % SeqModulus
  /\ Unpack(x.payload)

\* A packet more, in the history.
LEMMA HistoryGrows ==
  ASSUME SenderTypeOK, PacketHistory, NEW x, IsSent(x)
  PROVE  PacketHistory' /\ HistoryKept
<1>0. PICK L : L = Len(sent)
  OBVIOUS
<1>1. /\ L = Len(sent) /\ L \in Nat /\ DOMAIN sent = 1..L
      /\ fSeqNo \in 0..(SeqModulus - 1) /\ SeqModulus \in Nat \ {0}
      /\ Len(frames) \in Nat /\ DOMAIN frames = 1..Len(frames)
  BY <1>0, PacketizerAssumption DEF SenderTypeOK
<1>1a. /\ sent \in Seq(Packet) /\ frames \in Seq(Seq(Byte)) /\ part \in Seq(Byte)
       /\ unpacked \in Seq([frames : Nat, part : Seq(Byte)])
  BY DEF SenderTypeOK
<1>2. /\ Len(sent') = L + 1 /\ DOMAIN sent' = 1..(L + 1)
      /\ \A k \in 1..L : sent'[k] = sent[k]
      /\ sent'[L + 1] = x
  <2>1. sent' = Append(sent, x) /\ x \in Packet
    BY DEF IsSent
  <2>2. /\ Append(sent, x) \in Seq(Packet) /\ Len(Append(sent, x)) = Len(sent) + 1
        /\ \A k \in 1..Len(sent) : Append(sent, x)[k] = sent[k]
        /\ Append(sent, x)[Len(sent) + 1] = x
    BY <1>1a, <2>1, AppendProperties
  <2> QED
    BY <1>1, <2>1, <2>2
<1>3. PICK all : all = part \o Data(x.payload)
  OBVIOUS
<1>4. /\ Completes(x.payload) => frames' = Append(frames, all) /\ part' = <<>>
      /\ ~Completes(x.payload) => frames' = frames /\ part' = all
      /\ unpacked' = Append(unpacked, [frames |-> Len(frames'), part |-> part'])
      /\ all \in Seq(Byte)
      /\ frames' \in Seq(Seq(Byte)) /\ part' \in Seq(Byte)
      /\ unpacked' \in Seq([frames : Nat, part : Seq(Byte)])
  BY <1>3, UnpackAdds DEF IsSent
<1>5. Len(unpacked) = L /\ Before(L + 1) = [frames |-> Len(frames), part |-> part]
  BY <1>0 DEF PacketHistory, Unpacking
<1>6. PICK now : now = [frames |-> Len(frames'), part |-> part']
  OBVIOUS
<1>7. /\ now \in [frames : Nat, part : Seq(Byte)]
      /\ now.frames = Len(frames') /\ now.part = part'
  BY <1>4, <1>6
<1>8. /\ Len(unpacked') = L + 1
      /\ \A k \in 1..L : unpacked'[k] = unpacked[k]
      /\ unpacked'[L + 1] = now
  <2>1. unpacked' = Append(unpacked, now)
    BY <1>4, <1>6
  <2>2. /\ Len(Append(unpacked, now)) = Len(unpacked) + 1
        /\ \A k \in 1..Len(unpacked) : Append(unpacked, now)[k] = unpacked[k]
        /\ Append(unpacked, now)[Len(unpacked) + 1] = now
    BY <1>1a, <1>7, AppendProperties
  <2> QED
    BY <1>5, <2>1, <2>2
<1>9a. Len(frames') \in Nat /\ DOMAIN frames' = 1..Len(frames')
  BY <1>4
<1>9b. /\ Completes(x.payload) =>
            /\ Len(frames') = Len(frames) + 1
            /\ \A n \in 1..Len(frames) : frames'[n] = frames[n]
            /\ frames'[Len(frames) + 1] = all
       /\ ~Completes(x.payload) => frames' = frames
  <2>1. CASE Completes(x.payload)
    <3>1. frames' = Append(frames, all) /\ frames \in Seq(Seq(Byte)) /\ all \in Seq(Byte)
      BY <1>1a, <1>4, <2>1
    <3>2. /\ Len(frames') = Len(frames) + 1
          /\ \A n \in 1..Len(frames) : frames'[n] = frames[n]
          /\ frames'[Len(frames) + 1] = all
      BY ONLY <3>1, AppendProperties
    <3> QED
      BY <2>1, <3>2, Zenon
  <2>2. CASE ~Completes(x.payload)
    BY <1>4, <2>2, Zenon
  <2> QED
    BY <2>1, <2>2
<1>9. Len(frames) <= Len(frames') /\ \A n \in 1..Len(frames) : frames'[n] = frames[n]
  <2>1. CASE Completes(x.payload)
    <3>1. Len(frames') = Len(frames) + 1 /\ \A n \in 1..Len(frames) : frames'[n] = frames[n]
      BY <1>9b, <2>1, Zenon
    <3> QED
      BY <1>1, <3>1
  <2>2. CASE ~Completes(x.payload)
    <3>1. frames' = frames
      BY <1>9b, <2>2, Zenon
    <3> QED
      BY <1>1, <3>1
  <2> QED
    BY <2>1, <2>2
<1>10. ASSUME NEW k \in 1..(L + 1) PROVE Before(k)' = Before(k)
  <2>1. CASE k = 1
    BY <2>1 DEF Before
  <2>2. CASE k # 1
    <3>1. k - 1 \in 1..L
      BY <1>1, <2>2
    <3> QED
      BY <1>8, <2>2, <3>1 DEF Before
  <2> QED
    BY <2>1, <2>2
<1>11. Before(L + 2)' = now
  <2>1. L + 2 # 1 /\ (L + 2) - 1 = L + 1
    BY <1>1
  <2> QED
    BY <1>8, <2>1 DEF Before
<1>12. ASSUME NEW k \in 1..(L + 1) PROVE NumberOf(k)' = NumberOf(k)
  <2>1. NumberOf(k)' = sent'[k].seq
    BY <1>1, <1>2 DEF NumberOf
  <2>2. CASE k \in 1..L
    BY <1>1, <1>2, <2>1, <2>2 DEF NumberOf
  <2>3. CASE k = L + 1
    BY <1>1, <1>2, <2>1, <2>3 DEF NumberOf, IsSent
  <2> QED
    BY <1>1, <2>2, <2>3
<1>13. NumberOf(L + 2)' = (NumberOf(L + 1) + 1) % SeqModulus
  BY <1>1, <1>2 DEF NumberOf, IsSent
<1>14. HistoryKept
  <2>1. Len(sent) <= Len(sent') /\ DOMAIN frames \subseteq DOMAIN frames'
    BY <1>1, <1>2, <1>9, <1>9a
  <2>2. \A k \in DOMAIN sent : sent'[k] = sent[k]
    BY <1>1, <1>2
  <2>3. \A n \in DOMAIN frames : frames'[n] = frames[n]
    BY <1>1, <1>9
  <2>4. \A k \in 1..(Len(sent) + 1) : NumberOf(k)' = NumberOf(k) /\ Before(k)' = Before(k)
    BY <1>1, <1>10, <1>12
  <2> QED
    BY <2>1, <2>2, <2>3, <2>4 DEF HistoryKept
<1>15. \A k \in 1..(L + 1) : NumberOf(k) \in 0..(SeqModulus - 1)
  <2>1. \A k \in 1..L : sent[k].seq \in 0..(SeqModulus - 1)
    <3>1. \A k \in 1..L : sent[k] \in Packet
      BY <1>1, <1>1a
    <3> QED
      BY <3>1 DEF Packet
  <2> QED
    BY <1>1, <2>1 DEF NumberOf
<1>16. Numbering'
  <2>1. ASSUME NEW k \in 1..(L + 1)
        PROVE  NumberOf(k + 1)' = (NumberOf(k)' + 1) % SeqModulus
    <3>1. CASE k = L + 1
      <4>1. k + 1 = L + 2
        BY <1>1, <3>1
      <4> QED
        BY <1>12, <1>13, <3>1, <4>1
    <3>2. CASE k \in 1..L
      <4>1. NumberOf(k + 1) = (NumberOf(k) + 1) % SeqModulus
        BY <1>1, <3>2 DEF PacketHistory, Numbering
      <4>2. k + 1 \in 1..(L + 1)
        BY <1>1, <3>2
      <4> QED
        BY <1>12, <4>1, <4>2
    <3> QED
      BY <1>1, <3>1, <3>2
  <2>2. ASSUME NEW j \in 1..(L + 2), NEW k \in 1..(L + 2), j <= k, k - j < SeqModulus
        PROVE  Apart(NumberOf(j)', NumberOf(k)', k - j)
    <3>1. CASE k \in 1..(L + 1)
      <4>1. j \in 1..(L + 1)
        BY <1>1, <2>2, <3>1
      <4>2. Apart(NumberOf(j), NumberOf(k), k - j)
        BY <1>1, <2>2, <3>1, <4>1 DEF PacketHistory, Numbering
      <4> QED
        BY <1>12, <3>1, <4>1, <4>2
    <3>2. CASE j = k
      <4>1. NumberOf(k)' \in Int /\ k - j = 0
        <5>1. k = L + 2 \/ k \in 1..(L + 1)
          BY <1>1
        <5>2. NumberOf(L + 2)' \in Int
          BY <1>1, <1>13, <1>15
        <5>3. \A i \in 1..(L + 1) : NumberOf(i)' \in Int
          BY <1>12, <1>15
        <5>4. NumberOf(k)' \in Int
          BY <5>1, <5>2, <5>3
        <5> QED
          BY <1>1, <3>2, <5>4
      <4> QED
        BY <3>2, <4>1 DEF Apart
    <3>3. CASE k = L + 2 /\ j \in 1..(L + 1)
      <4>0. (L + 1) - j \in Nat
        BY <1>1, <3>3
      <4>1. PICK d \in Nat : d = (L + 1) - j
        BY <4>0
      <4>2. d + 1 = k - j /\ d + 1 < SeqModulus /\ L + 1 \in 1..(L + 1) /\ j <= L + 1
            /\ d < SeqModulus
        BY <1>1, <2>2, <3>3, <4>1
      <4>3. Apart(NumberOf(j), NumberOf(L + 1), d)
        BY <1>1, <3>3, <4>1, <4>2 DEF PacketHistory, Numbering
      <4>4. Apart(NumberOf(j), (NumberOf(L + 1) + 1) % SeqModulus, d + 1)
        BY <1>15, <3>3, <4>2, <4>3, OneFurther
      <4> QED
        BY <1>12, <1>13, <3>3, <4>2, <4>4
    <3> QED
      BY <1>1, <2>2, <3>1, <3>2, <3>3
  <2>3. Len(sent') + 1 = L + 2 /\ DOMAIN sent' = 1..(L + 1)
    BY <1>1, <1>2
  <2> QED
    BY <2>1, <2>2, <2>3 DEF Numbering
<1>17. Unpacking'
  <2>1. Len(unpacked') = Len(sent') /\ Before(Len(sent) + 1)' = now
    <3>1. Len(sent') + 1 # 1 /\ (Len(sent') + 1) - 1 = L + 1
      BY <1>1, <1>2
    <3> QED
      BY <1>2, <1>8, <3>1 DEF Before
  <2>2. ASSUME NEW k \in 1..L PROVE Adds(k)'
    <3>1. Adds(k) /\ k \in 1..(L + 1)
      BY <1>1 DEF PacketHistory, Unpacking
    <3>2. sent'[k] = sent[k] /\ unpacked'[k] = unpacked[k] /\ Before(k)' = Before(k)
      BY <1>2, <1>8, <1>10, <3>1
    <3> QED
      BY <1>9, <1>14, <3>1, <3>2 DEF Adds, HistoryKept
  <2>3. Adds(L + 1)'
    <3>1. Before(L + 1)' = [frames |-> Len(frames), part |-> part]
      BY <1>1, <1>5, <1>10
    <3>2. Before(L + 1)'.frames = Len(frames) /\ Before(L + 1)'.part = part
      BY <3>1
    <3>3. sent'[L + 1].payload = x.payload /\ unpacked'[L + 1] = now
      BY <1>2, <1>8
    <3>4. Completes(x.payload) =>
            /\ now = [frames |-> Len(frames) + 1, part |-> <<>>]
            /\ Len(frames) + 1 \in DOMAIN frames' /\ frames'[Len(frames) + 1] = all
      BY <1>1, <1>4, <1>6, <1>9
    <3>5. ~Completes(x.payload) => now = [frames |-> Len(frames), part |-> all]
      BY <1>4, <1>6
    <3> QED
      BY <1>3, <3>2, <3>3, <3>4, <3>5 DEF Adds, IsSent
  <2>4. ASSUME NEW j \in 1..(L + 2), NEW k \in 1..(L + 2), j <= k
        PROVE  Before(j)'.frames <= Before(k)'.frames
    <3>1. \A i \in 1..(L + 1) : Before(i).frames <= Len(frames) /\ Before(i).frames \in Nat
      <4> SUFFICES ASSUME NEW i \in 1..(L + 1)
                   PROVE  Before(i).frames <= Len(frames) /\ Before(i).frames \in Nat
        OBVIOUS
      <4>1. i <= L + 1 /\ L + 1 \in 1..(L + 1)
        BY <1>1
      <4>2. Before(i).frames <= Before(L + 1).frames
        BY <1>1, <4>1 DEF PacketHistory, Unpacking
      <4>3. Before(L + 1).frames = Len(frames)
        BY <1>5
      <4>4. Before(i).frames \in Nat
        <5>1. CASE i = 1
          BY <5>1 DEF Before
        <5>2. CASE i # 1
          <6>1. i - 1 \in 1..L
            BY <1>1, <5>2
          <6>2. unpacked[i - 1] \in [frames : Nat, part : Seq(Byte)]
            <7>1. PICK R : R = [frames : Nat, part : Seq(Byte)]
              OBVIOUS
            <7>2. unpacked \in Seq(R) /\ Len(unpacked) = L
              BY <1>1a, <1>5, <7>1
            <7>3. unpacked[i - 1] \in R
              BY ONLY <6>1, <7>2
            <7> QED
              BY <7>1, <7>3
          <6> QED
            BY <5>2, <6>2 DEF Before
        <5> QED
          BY <5>1, <5>2
      <4> QED
        BY <4>2, <4>3, <4>4
    <3>2. CASE k \in 1..(L + 1)
      <4>1. j \in 1..(L + 1)
        BY <1>1, <2>4, <3>2
      <4>2. Before(j).frames <= Before(k).frames
        BY <1>1, <2>4, <3>2, <4>1 DEF PacketHistory, Unpacking
      <4> QED
        BY <1>10, <3>2, <4>1, <4>2
    <3>3. CASE k = L + 2 /\ j = L + 2
      BY <1>7, <1>9, <1>11, <3>3
    <3>4. CASE k = L + 2 /\ j \in 1..(L + 1)
      <4>1. Before(L + 2)'.frames = Len(frames')
        BY <1>7, <1>11
      <4>2. Before(j)'.frames = Before(j).frames
        BY <1>10, <3>4
      <4>3. Before(j).frames <= Len(frames) /\ Before(j).frames \in Nat
        BY <3>1, <3>4
      <4>4. Before(j)'.frames <= Before(L + 2)'.frames
        BY <1>1, <1>9, <4>1, <4>2, <4>3
      <4> QED
        BY <3>4, <4>4
    <3> QED
      BY <1>1, <2>4, <3>2, <3>3, <3>4
  <2>5. Len(sent') + 1 = L + 2 /\ DOMAIN sent' = 1..(L + 1) /\ 1..(L + 1) = 1..L \cup {L + 1}
    BY <1>1, <1>2
  <2> QED
    BY <1>6, <2>1, <2>2, <2>3, <2>4, <2>5 DEF Unpacking
<1> QED
  BY <1>14, <1>16, <1>17 DEF PacketHistory

-----------------------------------------------------------------------------
(* The inductive invariant of the sender *)

\* Nothing in the buffer: everything read was sent, unless the sink stopped.
NothingInHand ==
  /\ fNumValidDataBytes = 1 /\ fCurDataOffset = 1
  /\ sink # "stopped" => frames = read /\ part = <<>>

\* A NAL unit of which some fragments are sent.
InHand ==
  /\ sink = "waiting"
  /\ read # <<>> /\ frames = Front(read)
  /\ fNumValidDataBytes = Len(Last(read)) + 1
  /\ fCurDataOffset \in 4..Len(Last(read))
  /\ HoldsRest(fInputBuffer, Last(read), fCurDataOffset)
  /\ part = SubSeq(Last(read), 1, fCurDataOffset - 1)
  /\ fPictureEndMarker = EndsAccessUnit(Last(read))

SInv ==
  /\ SenderTypeOK
  /\ PacketsFit
  /\ PacketsCarryTheNals
  /\ \A i \in DOMAIN read : IsNal(read[i])
  /\ NothingInHand \/ InHand
  /\ PacketHistory

\* The marker, for one step.
MarkerStep ==
  sent' # sent =>
    (Last(sent').marker <=> frames' # frames /\ EndsAccessUnit(Last(frames')))

\* One more packet.
LEMMA SendKeeps ==
  ASSUME SenderTypeOK, PacketsFit, PacketHistory,
         NEW payload \in Seq(Byte), Len(payload) \in 1..fMaxOutputPacketSize,
         Begins(payload) <=> part = <<>>,
         IsFragment(payload) => Len(payload) > 2 /\ ~(StartBit(payload) /\ EndBit(payload)),
         NEW mark \in BOOLEAN, fLastFragmentCompletedNALUnit' \in BOOLEAN,
         Send(payload, mark)
  PROVE  /\ sent' \in Seq(Packet) /\ PacketsFit'
         /\ fSeqNo' \in 0..(SeqModulus - 1) /\ fPictureEndMarker' \in BOOLEAN
         /\ sink' = "waiting"
         /\ sent' # sent
         /\ Last(sent').marker <=> (fLastFragmentCompletedNALUnit' /\ mark)
         /\ ~fLastFragmentCompletedNALUnit' => fPictureEndMarker' = mark
         /\ unpacked' \in Seq([frames : Nat, part : Seq(Byte)])
         /\ PacketHistory' /\ HistoryKept
<1> DEFINE m == fLastFragmentCompletedNALUnit' /\ mark
           x == [seq |-> fSeqNo, marker |-> m, payload |-> payload]
<1>1. m \in BOOLEAN
  OBVIOUS
<1>2. fSeqNo \in 0..(SeqModulus - 1) /\ sent \in Seq(Packet) /\ SeqModulus \in Nat \ {0}
  BY PacketizerAssumption DEF SenderTypeOK
<1>3. x \in Packet /\ x.seq = fSeqNo /\ x.marker = m /\ x.payload = payload
  BY <1>1, <1>2 DEF Packet
<1>4. sent' = Append(sent, x)
  BY DEF Send
<1>5. /\ fSeqNo' = (fSeqNo + 1) % SeqModulus /\ sink' = "waiting"
      /\ fPictureEndMarker' = (mark /\ ~m)
  BY DEF Send
<1> HIDE DEF x, m
<1>6. fSeqNo' \in 0..(SeqModulus - 1)
  BY <1>2, <1>5
<1>7. /\ Append(sent, x) \in Seq(Packet) /\ Len(Append(sent, x)) = Len(sent) + 1
      /\ Last(Append(sent, x)) = x
      /\ \A i \in 1..Len(sent) : Append(sent, x)[i] = sent[i]
      /\ Append(sent, x)[Len(sent) + 1] = x
  BY <1>2, <1>3, AppendProperties, FrontOfAppend
<1>8. sent' # sent
  <2>1. Len(sent) \in Nat
    BY <1>2
  <2> QED
    BY <1>4, <1>7, <2>1
<1>9. PacketsFit'
  <2> SUFFICES ASSUME NEW i \in DOMAIN sent'
               PROVE  LET q == sent'[i].payload IN
                      /\ Len(q) \in 1..fMaxOutputPacketSize
                      /\ IsFragment(q) => Len(q) > 2 /\ ~(StartBit(q) /\ EndBit(q))
    BY DEF PacketsFit
  <2>1. Len(sent) \in Nat /\ DOMAIN sent = 1..Len(sent)
    BY <1>2
  <2>2. i \in 1..(Len(sent) + 1)
    BY <1>4, <1>7
  <2>3. CASE i \in 1..Len(sent)
    <3>1. sent'[i] = sent[i] /\ i \in DOMAIN sent
      BY <1>4, <1>7, <2>1, <2>3
    <3> QED
      BY <3>1 DEF PacketsFit
  <2>4. CASE i = Len(sent) + 1
    <3>1. sent'[i].payload = payload
      BY <1>3, <1>4, <1>7, <2>4
    <3> QED
      BY <3>1
  <2> QED
    BY <2>1, <2>2, <2>3, <2>4
<1>10. Fits(payload) /\ Unpack(payload)
  <2>1. payload # <<>>
    OBVIOUS
  <2> QED
    BY <2>1 DEF Fits, Send
<1>11. unpacked' \in Seq([frames : Nat, part : Seq(Byte)])
  <2>1. PICK all : all = part \o Data(payload)
    OBVIOUS
  <2> QED
    BY <1>10, <2>1, UnpackAdds
<1>12. PacketHistory' /\ HistoryKept
  <2>1. IsSent(x)
    BY <1>3, <1>4, <1>5, <1>10 DEF IsSent
  <2> QED
    BY <2>1, HistoryGrows
<1> QED
  BY <1>1, <1>3, <1>4, <1>5, <1>6, <1>7, <1>8, <1>9, <1>11, <1>12 DEF m

\* What the properties need of a NAL unit in hand.
LEMMA BegunIsCarried ==
  ASSUME NEW nal \in Seq(Byte), NEW a \in 1..(Len(nal) - 1)
  PROVE  LET s == SubSeq(nal, 1, a) IN
         s \in Seq(Byte) /\ s # <<>> /\ IsPrefix(s, nal) /\ s # nal
<1> DEFINE s == SubSeq(nal, 1, a)
<1>1. Len(nal) \in Nat /\ a \in Nat /\ a >= 1 /\ a < Len(nal)
  OBVIOUS
<1>2. \A i \in 1..a : nal[i] \in Byte
  BY <1>1
<1>3. s \in Seq(Byte) /\ Len(s) = a /\ \A i \in 1..a : s[i] = nal[i]
  BY <1>1, <1>2, SubSeqProperties
<1>4. SubSeq(s, 1, Len(s)) = s /\ SubSeq(nal, 1, Len(s)) = s
  BY <1>3, SubSeqFull
<1> HIDE DEF s
<1>5. s # <<>> /\ s # nal /\ IsPrefix(s, nal)
  BY <1>1, <1>3, <1>4 DEF IsPrefix
<1> QED
  BY <1>3, <1>5 DEF s

-----------------------------------------------------------------------------
(* Every step keeps the invariant *)

LEMMA InitSInv == SenderInit => SInv
<1> SUFFICES ASSUME SenderInit PROVE SInv
  OBVIOUS
<1>1. 0 \in Byte /\ 1 \in 1..(OutPacketBufferMaxSize + 1)
  BY PacketizerAssumption DEF Byte
<1>2. fInputBuffer \in [0..OutPacketBufferMaxSize -> Byte]
  BY <1>1 DEF SenderInit
<1>3. fSeqNo \in 0..(SeqModulus - 1)
  BY PacketizerAssumption DEF SenderInit
<1>4. SenderTypeOK
  <2>1. /\ <<>> \in Seq(Packet) /\ <<>> \in Seq(Seq(Byte)) /\ <<>> \in Seq(Byte)
        /\ <<>> \in Seq([frames : Nat, part : Seq(Byte)])
    OBVIOUS
  <2>2. /\ sent = <<>> /\ read = <<>> /\ frames = <<>> /\ part = <<>> /\ unpacked = <<>>
        /\ fPictureEndMarker = FALSE /\ fLastFragmentCompletedNALUnit = TRUE
        /\ fNumValidDataBytes = 1 /\ fCurDataOffset = 1 /\ sink = "waiting"
    BY DEF SenderInit
  <2> QED
    BY ONLY <1>1, <1>2, <1>3, <2>1, <2>2 DEF SenderTypeOK
<1>5. DOMAIN sent = {} /\ DOMAIN read = {}
  BY DEF SenderInit
<1>6. PacketsFit /\ PacketsCarryTheNals /\ NothingInHand
  BY <1>5 DEF SenderInit, PacketsFit, PacketsCarryTheNals, NothingInHand
<1>7. PacketHistory
  <2>1. /\ sent = <<>> /\ unpacked = <<>> /\ frames = <<>> /\ part = <<>>
        /\ Len(sent) = 0 /\ Len(frames) = 0 /\ fSeqNo \in Int
    BY <1>3, PacketizerAssumption DEF SenderInit
  <2>2. \A k \in 1..(Len(sent) + 1) : k = 1
    BY <2>1
  <2>3. Numbering
    <3>1. NumberOf(1) = fSeqNo
      BY <2>1 DEF NumberOf
    <3>2. Apart(NumberOf(1), NumberOf(1), 1 - 1)
      BY <2>1, <3>1 DEF Apart
    <3> QED
      BY <1>5, <2>2, <3>2 DEF Numbering
  <2>4. Unpacking
    <3>1. Before(1) = [frames |-> 0, part |-> <<>>] /\ Before(1).frames = 0
      BY DEF Before
    <3>2. Len(sent) + 1 = 1 /\ Len(unpacked) = Len(sent)
      BY <2>1
    <3>3. Before(Len(sent) + 1) = [frames |-> Len(frames), part |-> part]
      BY <2>1, <3>1, <3>2
    <3>4. \A j, k \in 1..(Len(sent) + 1) : j <= k => Before(j).frames <= Before(k).frames
      BY <2>2, <3>1
    <3> QED
      BY <1>5, <3>2, <3>3, <3>4 DEF Unpacking
  <2> QED
    BY <2>3, <2>4 DEF PacketHistory
<1> QED
  BY <1>4, <1>5, <1>6, <1>7 DEF SInv

LEMMA SendNextReadsKeeps == ASSUME SInv, SendNextReads PROVE SInv' /\ MarkerStep /\ HistoryKept
<1>1. UNCHANGED <<fPictureEndMarker, fragmenterVars, packetVars, read>> /\ sink' = "reading"
  BY DEF SendNextReads
<1>2. NothingInHand /\ frames = read /\ part = <<>>
  <2>1. ~InHand
    <3>1. Len(Last(read)) \in Nat \/ ~InHand
      BY DEF InHand, HoldsRest
    <3> SUFFICES ASSUME InHand PROVE FALSE
      OBVIOUS
    <3>2. fCurDataOffset \in 4..Len(Last(read)) /\ Len(Last(read)) + 1 = 1
      BY DEF InHand, SendNextReads
    <3> QED
      BY <3>2, AppendToFront DEF InHand, SInv, SenderTypeOK
  <2> QED
    BY <2>1 DEF SInv, NothingInHand, SendNextReads
<1>3. SenderTypeOK'
  BY <1>1 DEF SInv, SenderTypeOK, fragmenterVars, packetVars
<1>4. PacketsFit' /\ PacketsCarryTheNals' /\ NothingInHand'
  BY <1>1, <1>2 DEF SInv, PacketsFit, PacketsCarryTheNals, NothingInHand,
                    fragmenterVars, packetVars
<1>5. \A i \in DOMAIN read' : IsNal(read'[i])
  BY <1>1 DEF SInv
<1>6. PacketHistory' /\ HistoryKept
  BY <1>1, HistoryStays DEF SInv
<1> QED
  BY <1>1, <1>3, <1>4, <1>5, <1>6 DEF SInv, MarkerStep, packetVars

LEMMA AfterGettingNothingKeeps == ASSUME SInv, AfterGettingNothing PROVE SInv' /\ MarkerStep /\ HistoryKept
<1>1. UNCHANGED <<fragmenterVars, sink, packetVars, read>> /\ fPictureEndMarker' = FALSE
  BY DEF AfterGettingNothing
<1>2. NothingInHand
  BY DEF SInv, InHand, AfterGettingNothing
<1>3. SenderTypeOK'
  BY <1>1 DEF SInv, SenderTypeOK, fragmenterVars, packetVars
<1>4. PacketsFit' /\ PacketsCarryTheNals' /\ NothingInHand'
  BY <1>1, <1>2 DEF SInv, PacketsFit, PacketsCarryTheNals, NothingInHand,
                    fragmenterVars, packetVars
<1>5. \A i \in DOMAIN read' : IsNal(read'[i])
  BY <1>1 DEF SInv
<1>6. PacketHistory' /\ HistoryKept
  BY <1>1, HistoryStays DEF SInv
<1> QED
  BY <1>1, <1>3, <1>4, <1>5, <1>6 DEF SInv, MarkerStep, packetVars

LEMMA StopPlayingKeeps == ASSUME SInv, StopPlaying PROVE SInv' /\ MarkerStep /\ HistoryKept
<1>1. /\ UNCHANGED <<fInputBuffer, fPictureEndMarker, packetVars, read>>
      /\ sink' = "stopped" /\ fNumValidDataBytes' = 1 /\ fCurDataOffset' = 1
      /\ fLastFragmentCompletedNALUnit' = TRUE
  BY DEF StopPlaying
<1>2. 1 \in 1..(OutPacketBufferMaxSize + 1)
  BY PacketizerAssumption
<1>3. SenderTypeOK'
  BY <1>1, <1>2 DEF SInv, SenderTypeOK, packetVars
<1>4. PacketsFit' /\ PacketsCarryTheNals' /\ NothingInHand'
  BY <1>1 DEF SInv, PacketsFit, PacketsCarryTheNals, NothingInHand, packetVars
<1>5. \A i \in DOMAIN read' : IsNal(read'[i])
  BY <1>1 DEF SInv
<1>6. PacketHistory' /\ HistoryKept
  BY <1>1, HistoryStays DEF SInv
<1> QED
  BY <1>1, <1>3, <1>4, <1>5, <1>6 DEF SInv, MarkerStep, packetVars

\* A fragment of the NAL unit in hand.
LEMMA SendNextContinuesKeeps == ASSUME SInv, SendNextContinues PROVE SInv' /\ MarkerStep /\ HistoryKept
<1>1. InHand /\ read' = read /\ SenderTypeOK /\ PacketsFit /\ PacketHistory
  BY DEF SInv, NothingInHand, SendNextContinues
<1>2. PICK nal : nal = Last(read)
  OBVIOUS
<1>3. IsNal(nal) /\ Append(frames, nal) = read
  <2>1. read \in Seq(Seq(Byte)) /\ read # <<>>
    BY <1>1 DEF SenderTypeOK, InHand
  <2>2. Len(read) \in DOMAIN read
    BY <2>1
  <2> QED
    BY <1>1, <1>2, <2>1, <2>2, AppendToFront DEF SInv, InHand, Last
<1>4. nal \in Seq(Byte) /\ Len(nal) \in Nat /\ Len(nal) <= OutPacketBufferMaxSize
  BY <1>3 DEF IsNal
<1>5. PICK off \in 4..Len(nal) : off = fCurDataOffset
  BY <1>1, <1>2 DEF InHand
<1>6. PICK buffer, mark : buffer = fInputBuffer /\ mark = fPictureEndMarker
  OBVIOUS
<1>7. /\ HoldsRest(buffer, nal, off) /\ mark = EndsAccessUnit(nal) /\ mark \in BOOLEAN
      /\ part = SubSeq(nal, 1, off - 1) /\ fNumValidDataBytes = Len(nal) + 1
  BY <1>1, <1>2, <1>5, <1>6 DEF InHand, SenderTypeOK
<1>8. DeliverNext(buffer, Len(nal) + 1, mark)
  BY <1>4, <1>5, <1>6, <1>7 DEF SendNextContinues, DeliverFragment, DeliverWhole, DeliverFirst
<1> DEFINE max  == fMaxOutputPacketSize
           last == 2 + ((Len(nal) + 1) - off) <= max
<1>9. IsLastFragment(Len(nal) + 1) <=> last
  BY <1>5 DEF IsLastFragment
<1>10. PICK number, e : /\ number = IF last THEN 2 + ((Len(nal) + 1) - off) ELSE max
                        /\ e = IF last THEN 64 ELSE 0
  OBVIOUS
<1>11. /\ number \in 3..max /\ off + number <= Len(nal) + 3 /\ e \in {0, 64}
       /\ last => off + number - 2 = Len(nal) + 1
       /\ ~last => off + number - 2 \in 4..Len(nal)
       /\ off + number - 3 = (off + number - 2) - 1
  <2>1. max \in Nat /\ max >= 4
    BY PacketizerAssumption
  <2>2. CASE last
    BY <1>4, <1>5, <1>10, <2>1, <2>2
  <2>3. CASE ~last
    BY <1>4, <1>5, <1>10, <2>1, <2>3
  <2> QED
    BY <2>2, <2>3
<1>12. e = 64 <=> last
  BY <1>10
<1>13. PICK b, p : /\ b = WithHeaders(buffer, off, e)
                   /\ p = Bytes(b, off - 2, number)
  OBVIOUS
<1>14. /\ fInputBuffer' = b /\ fLastFragmentCompletedNALUnit' = last
       /\ Advance(off + number - 2, Len(nal) + 1)
       /\ Send(p, mark)
  BY <1>5, <1>8, <1>9, <1>10, <1>13 DEF DeliverNext, OffsetAfter, IsLastFragment, WithHeaders
<1>15. /\ HoldsRest(b, nal, off + number - 2)
       /\ p \in Seq(Byte) /\ Len(p) = number
       /\ IsFragment(p) /\ ~StartBit(p) /\ (EndBit(p) <=> e = 64)
       /\ part \o FragmentData(p) = SubSeq(nal, 1, off + number - 3)
  <2>1. /\ IsNal(nal) /\ off \in 4..Len(nal) /\ HoldsRest(buffer, nal, off)
        /\ number \in 3..fMaxOutputPacketSize /\ off + number <= Len(nal) + 3 /\ e \in {0, 64}
        /\ b = WithHeaders(buffer, off, e)
        /\ p = Bytes(b, off - 2, number)
    BY <1>3, <1>7, <1>11, <1>13
  <2>2. CarriesNext(nal, off, number, e, b, p)
    BY ONLY <2>1, NextFragment
  <2> QED
    BY <1>7, <2>2 DEF CarriesNext
<1>16. last \in BOOLEAN /\ Len(p) \in 1..max /\ Len(p) > 2
  BY <1>11, <1>15
<1>16a. Begins(p) <=> part = <<>>
  <2>1. off - 1 \in 1..(Len(nal) - 1)
    BY <1>4, <1>5
  <2>2. part # <<>>
    BY <1>4, <1>7, <2>1, BegunIsCarried
  <2> QED
    BY <1>15, <2>2 DEF Begins
<1> HIDE DEF last
<1>17. /\ sent' \in Seq(Packet) /\ PacketsFit'
       /\ fSeqNo' \in 0..(SeqModulus - 1) /\ fPictureEndMarker' \in BOOLEAN
       /\ sink' = "waiting" /\ sent' # sent
       /\ Last(sent').marker <=> (last /\ mark)
       /\ ~last => fPictureEndMarker' = mark
       /\ unpacked' \in Seq([frames : Nat, part : Seq(Byte)])
       /\ PacketHistory' /\ HistoryKept
  BY <1>1, <1>7, <1>14, <1>15, <1>16, <1>16a, SendKeeps
<1>18. Unpack(p)
  BY <1>14 DEF Send
<1>19. b \in [0..OutPacketBufferMaxSize -> Byte] /\ frames \in Seq(Seq(Byte))
  BY <1>1, <1>15 DEF HoldsRest, Buffers, SenderTypeOK
<1>20. \A i \in DOMAIN read' : IsNal(read'[i])
  BY <1>1 DEF SInv
<1>21. CASE last
  <2>1. fCurDataOffset' = 1 /\ fNumValidDataBytes' = 1
    BY <1>4, <1>11, <1>14, <1>21 DEF Advance
  <2>2. frames' = Append(frames, part \o FragmentData(p)) /\ part' = <<>>
    BY <1>12, <1>15, <1>18, <1>21, UnpackLast
  <2>3. off + number - 3 = Len(nal)
    BY <1>4, <1>5, <1>11, <1>21
  <2>4. frames' = Append(frames, nal)
    BY <1>4, <1>15, <2>2, <2>3, SubSeqFull
  <2>5. frames' = read' /\ part' = <<>>
    BY <1>1, <1>3, <2>2, <2>4
  <2>6. NothingInHand' /\ PacketsCarryTheNals'
    BY <2>1, <2>5 DEF NothingInHand, PacketsCarryTheNals
  <2>7. SenderTypeOK'
    <3>1. 1 \in 1..(OutPacketBufferMaxSize + 1) /\ <<>> \in Seq(Byte)
      BY PacketizerAssumption
    <3> QED
      BY <1>1, <1>14, <1>16, <1>17, <1>19, <2>1, <2>5, <3>1 DEF SenderTypeOK
  <2>8. MarkerStep
    <3>1. frames' # frames /\ Last(frames') = nal
      <4>1. Append(frames, nal) # frames
        BY <1>4, <1>19, AppendProperties
      <4> QED
        BY <1>4, <1>19, <2>4, <4>1, FrontOfAppend
    <3> QED
      BY <1>7, <1>17, <1>21, <3>1 DEF MarkerStep
  <2> QED
    BY <1>17, <1>20, <2>6, <2>7, <2>8 DEF SInv
<1>22. CASE ~last
  <2>1. PICK new \in 4..Len(nal) : new = off + number - 2
    BY <1>11, <1>22
  <2>2. fCurDataOffset' = new /\ fNumValidDataBytes' = Len(nal) + 1
    BY <1>4, <1>14, <2>1 DEF Advance
  <2>3. frames' = frames /\ part' = part \o FragmentData(p)
    BY <1>12, <1>15, <1>18, <1>22, UnpackNext
  <2>4. part' = SubSeq(nal, 1, new - 1)
    BY <1>11, <1>15, <2>1, <2>3
  <2>5. Last(read') = nal /\ Front(read') = frames' /\ read' # <<>>
    BY <1>1, <1>2, <2>3 DEF InHand
  <2>6. InHand'
    BY <1>7, <1>14, <1>15, <1>17, <1>22, <2>1, <2>2, <2>4, <2>5 DEF InHand
  <2>7. new - 1 \in 1..(Len(nal) - 1)
    BY <1>4, <2>1
  <2>8. part' \in Seq(Byte) /\ part' # <<>> /\ IsPrefix(part', nal) /\ part' # nal
    BY <1>4, <2>4, <2>7, BegunIsCarried
  <2>9. PacketsCarryTheNals'
    BY <2>5, <2>8 DEF PacketsCarryTheNals
  <2>10. SenderTypeOK'
    <3>1. new \in 1..(OutPacketBufferMaxSize + 1)
      BY <1>4, <2>1, PacketizerAssumption
    <3>2. Len(nal) + 1 \in 1..(OutPacketBufferMaxSize + 1)
      BY <1>4, PacketizerAssumption
    <3> QED
      BY <1>1, <1>14, <1>16, <1>17, <1>19, <2>2, <2>3, <2>8, <3>1, <3>2 DEF SenderTypeOK
  <2>11. MarkerStep
    BY <1>17, <1>22, <2>3 DEF MarkerStep
  <2> QED
    BY <1>17, <1>20, <2>6, <2>9, <2>10, <2>11 DEF SInv
<1> QED
  BY <1>21, <1>22

\* A NAL unit that is cut off at the buffer's end keeps its header.
LEMMA TruncatedIsNal ==
  ASSUME NEW nal \in NALs, nal # <<>>
  PROVE  IsNal(Truncated(nal)) /\ EndsAccessUnit(Truncated(nal)) = EndsAccessUnit(nal)
<1>1. /\ nal \in Seq(Byte) /\ Len(nal) \in Nat /\ Len(nal) >= 1 /\ Type(nal[1]) \in 1..23
      /\ OutPacketBufferMaxSize \in Nat /\ OutPacketBufferMaxSize >= 1
  BY PacketizerAssumption
<1>2. CASE Len(nal) > OutPacketBufferMaxSize
  <2> DEFINE s == SubSeq(nal, 1, OutPacketBufferMaxSize)
  <2>1. \A i \in 1..OutPacketBufferMaxSize : nal[i] \in Byte
    BY <1>1, <1>2
  <2>2. /\ s \in Seq(Byte) /\ Len(s) = OutPacketBufferMaxSize
        /\ \A i \in 1..OutPacketBufferMaxSize : s[i] = nal[1 + i - 1]
    BY <1>1, <2>1, SubSeqProperties
  <2> HIDE DEF s
  <2>3. 1 \in 1..OutPacketBufferMaxSize /\ 1 + 1 - 1 = 1
    BY <1>1
  <2>4. s[1] = nal[1] /\ s # <<>>
    BY <1>1, <2>2, <2>3
  <2>5. Truncated(nal) = s
    BY <1>2 DEF Truncated, s
  <2> QED
    BY <1>1, <2>2, <2>4, <2>5 DEF IsNal, EndsAccessUnit
<1>3. CASE ~(Len(nal) > OutPacketBufferMaxSize)
  BY <1>1, <1>3 DEF Truncated, IsNal, EndsAccessUnit
<1> QED
  BY <1>2, <1>3

\* A NAL unit read into the buffer.
LEMMA LandsIsRead ==
  ASSUME NEW nal, IsNal(nal), SenderTypeOK
  PROVE  Lands(nal) \in Buffers /\ \A i \in 1..Len(nal) : Lands(nal)[i] = nal[i]
<1>1. /\ nal \in Seq(Byte) /\ Len(nal) \in Nat /\ Len(nal) <= OutPacketBufferMaxSize
      /\ fInputBuffer \in [0..OutPacketBufferMaxSize -> Byte] /\ OutPacketBufferMaxSize \in Nat
  BY PacketizerAssumption DEF IsNal, SenderTypeOK
<1>2. \A i \in 0..OutPacketBufferMaxSize :
        (IF i \in 1..Len(nal) THEN nal[i] ELSE fInputBuffer[i]) \in Byte
  BY <1>1
<1>3. \A i \in 1..Len(nal) : i \in 0..OutPacketBufferMaxSize
  BY <1>1
<1> QED
  BY <1>2, <1>3 DEF Lands, Buffers

\* A NAL unit is read, and sent whole or its first fragment is.
LEMMA AfterGettingFrameKeeps ==
  ASSUME SInv, NEW nal0 \in NALs, AfterGettingFrame(nal0)
  PROVE  SInv' /\ MarkerStep /\ HistoryKept
<1>1. /\ NothingInHand /\ frames = read /\ part = <<>> /\ fCurDataOffset = 1
      /\ SenderTypeOK /\ PacketsFit /\ PacketHistory
  BY DEF SInv, NothingInHand, InHand, AfterGettingFrame
<1>2. PICK nal, mark : nal = Truncated(nal0) /\ mark = EndsAccessUnit(nal0)
  OBVIOUS
<1>3. IsNal(nal) /\ mark = EndsAccessUnit(nal) /\ mark \in BOOLEAN
  <2>1. nal0 # <<>>
    BY DEF AfterGettingFrame
  <2>2. IsNal(Truncated(nal0)) /\ EndsAccessUnit(Truncated(nal0)) = EndsAccessUnit(nal0)
    BY <2>1, TruncatedIsNal
  <2>3. EndsAccessUnit(nal0) \in BOOLEAN
    BY DEF EndsAccessUnit
  <2> QED
    BY <1>2, <2>2, <2>3
<1>4. nal \in Seq(Byte) /\ nal # <<>> /\ Len(nal) \in Nat /\ Len(nal) >= 1
      /\ Len(nal) <= OutPacketBufferMaxSize
  BY <1>3 DEF IsNal
<1>5. PICK buffer : buffer = Lands(nal)
  OBVIOUS
<1>6. buffer \in Buffers /\ \A i \in 1..Len(nal) : buffer[i] = nal[i]
  BY <1>1, <1>3, <1>5, LandsIsRead
<1>7. read' = Append(read, nal)
      /\ DeliverFragment(buffer, 1 + Len(nal), mark)
  BY <1>2, <1>5 DEF AfterGettingFrame
<1>8. read \in Seq(Seq(Byte)) /\ frames \in Seq(Seq(Byte))
  BY <1>1 DEF SenderTypeOK
<1>9. /\ read' \in Seq(Seq(Byte)) /\ read' # <<>> /\ Front(read') = read /\ Last(read') = nal
      /\ Append(read, nal) # read
  <2>1. Append(read, nal) \in Seq(Seq(Byte)) /\ Len(Append(read, nal)) = Len(read) + 1
    BY <1>4, <1>8, AppendProperties
  <2>2. Len(read) \in Nat
    BY <1>8
  <2>3. Front(Append(read, nal)) = read /\ Last(Append(read, nal)) = nal
    BY <1>4, <1>8, FrontOfAppend
  <2> QED
    BY <1>7, <2>1, <2>2, <2>3
<1>10. \A i \in DOMAIN read' : IsNal(read'[i])
  <2> SUFFICES ASSUME NEW i \in DOMAIN read' PROVE IsNal(read'[i])
    OBVIOUS
  <2>1. DOMAIN read = 1..Len(read) /\ Len(read) \in Nat /\ i \in 1..(Len(read) + 1)
    BY <1>4, <1>7, <1>8, AppendProperties
  <2>2. CASE i \in 1..Len(read)
    BY <1>4, <1>7, <1>8, <2>1, <2>2, AppendProperties DEF SInv
  <2>3. CASE i = Len(read) + 1
    BY <1>3, <1>4, <1>7, <1>8, <2>3, AppendProperties
  <2> QED
    BY <2>1, <2>2, <2>3
<1>11. 1 \in 1..(OutPacketBufferMaxSize + 1) /\ <<>> \in Seq(Byte)
  BY PacketizerAssumption
<1>12. PICK n : n = fMaxOutputPacketSize
  OBVIOUS
<1>13. n \in Nat /\ n >= 4
  BY <1>12, PacketizerAssumption
<1>14. CASE DeliverWhole(buffer, 1 + Len(nal), mark)
  <2>1. (1 + Len(nal)) - 1 = Len(nal)
    BY <1>4
  <2>2. /\ fInputBuffer' = buffer /\ fLastFragmentCompletedNALUnit' = TRUE
        /\ Advance(1 + Len(nal), 1 + Len(nal)) /\ Len(nal) <= n
        /\ Send(Bytes(buffer, 1, Len(nal)), mark)
    BY <1>12, <1>14, <2>1 DEF DeliverWhole
  <2>3. Bytes(buffer, 1, Len(nal)) = nal /\ ~IsFragment(nal)
    BY <1>3, <1>6, WholeUnit
  <2>4. Send(nal, mark) /\ Len(nal) \in 1..n
    BY <1>4, <1>13, <2>2, <2>3
  <2>5. /\ sent' \in Seq(Packet) /\ PacketsFit'
        /\ fSeqNo' \in 0..(SeqModulus - 1) /\ fPictureEndMarker' \in BOOLEAN
        /\ sink' = "waiting" /\ sent' # sent
        /\ Last(sent').marker <=> (TRUE /\ mark)
        /\ unpacked' \in Seq([frames : Nat, part : Seq(Byte)])
        /\ PacketHistory' /\ HistoryKept
    <3>1. Begins(nal) <=> part = <<>>
      BY <1>1, <2>3 DEF Begins
    <3> QED
      BY <1>1, <1>3, <1>4, <1>12, <2>2, <2>3, <2>4, <3>1, SendKeeps
  <2>6. frames' = Append(frames, nal) /\ part' = <<>>
    BY <2>3, <2>4, UnpackWhole DEF Send
  <2>7. frames' = read' /\ part' = <<>>
    BY <1>1, <1>7, <2>6
  <2>8. fCurDataOffset' = 1 /\ fNumValidDataBytes' = 1
    BY <1>4, <2>2 DEF Advance
  <2>9. NothingInHand' /\ PacketsCarryTheNals'
    BY <2>7, <2>8 DEF NothingInHand, PacketsCarryTheNals
  <2>10. SenderTypeOK'
    BY <1>6, <1>9, <1>11, <2>2, <2>5, <2>7, <2>8 DEF SenderTypeOK, Buffers
  <2>11. MarkerStep
    BY <1>1, <1>3, <1>7, <1>9, <2>5, <2>7 DEF MarkerStep
  <2> QED
    BY <1>10, <2>5, <2>9, <2>10, <2>11 DEF SInv
<1>15. CASE DeliverFirst(buffer, 1 + Len(nal), mark)
  <2>1. Len(nal) > n /\ 1 + n - 1 = n /\ n \in 4..Len(nal)
    BY <1>4, <1>12, <1>13, <1>15 DEF DeliverFirst
  <2>2. PICK b, p : /\ b = [buffer EXCEPT ![0] = FUIndicator(buffer[1]), ![1] = FUHeader(buffer[1])]
                    /\ p = Bytes(b, 0, fMaxOutputPacketSize)
    OBVIOUS
  <2>3. /\ fInputBuffer' = b /\ fLastFragmentCompletedNALUnit' = FALSE
        /\ Advance(n, 1 + Len(nal)) /\ Send(p, mark)
    BY <1>1, <1>12, <1>15, <2>1, <2>2 DEF DeliverFirst
  <2>4. /\ HoldsRest(b, nal, n)
        /\ p \in Seq(Byte) /\ Len(p) = n
        /\ IsFragment(p) /\ StartBit(p) /\ ~EndBit(p)
        /\ FragmentData(p) = SubSeq(nal, 1, n - 1)
    BY <1>3, <1>6, <1>12, <2>1, <2>2, FirstFragment
  <2>5. Len(p) \in 1..fMaxOutputPacketSize /\ Len(p) > 2
    BY <1>12, <1>13, <2>4
  <2>6. /\ sent' \in Seq(Packet) /\ PacketsFit'
        /\ fSeqNo' \in 0..(SeqModulus - 1) /\ fPictureEndMarker' \in BOOLEAN
        /\ sink' = "waiting" /\ sent' # sent
        /\ Last(sent').marker <=> (FALSE /\ mark)
        /\ fPictureEndMarker' = mark
        /\ unpacked' \in Seq([frames : Nat, part : Seq(Byte)])
        /\ PacketHistory' /\ HistoryKept
    <3>1. Begins(p) <=> part = <<>>
      BY <1>1, <2>4 DEF Begins
    <3> QED
      BY <1>1, <1>3, <2>3, <2>4, <2>5, <3>1, SendKeeps
  <2>7. frames' = frames /\ part' = SubSeq(nal, 1, n - 1)
    BY <2>3, <2>4, UnpackFirst DEF Send
  <2>8. fCurDataOffset' = n /\ fNumValidDataBytes' = Len(nal) + 1
    BY <1>4, <2>1, <2>3 DEF Advance
  <2>9. InHand'
    BY <1>1, <1>3, <1>9, <2>1, <2>3, <2>4, <2>6, <2>7, <2>8 DEF InHand
  <2>10. n - 1 \in 1..(Len(nal) - 1)
    BY <1>4, <2>1
  <2>11. part' \in Seq(Byte) /\ part' # <<>> /\ IsPrefix(part', nal) /\ part' # nal
    BY <1>4, <2>7, <2>10, BegunIsCarried
  <2>12. PacketsCarryTheNals'
    BY <1>1, <1>9, <2>7, <2>11 DEF PacketsCarryTheNals
  <2>13. SenderTypeOK'
    <3>1. n \in 1..(OutPacketBufferMaxSize + 1)
          /\ Len(nal) + 1 \in 1..(OutPacketBufferMaxSize + 1)
      BY <1>4, <2>1, PacketizerAssumption
    <3>2. b \in [0..OutPacketBufferMaxSize -> Byte]
      BY <2>4 DEF HoldsRest, Buffers
    <3> QED
      BY <1>8, <1>9, <2>3, <2>6, <2>7, <2>8, <2>11, <3>1, <3>2 DEF SenderTypeOK
  <2>14. MarkerStep
    BY <2>6, <2>7 DEF MarkerStep
  <2> QED
    BY <1>10, <2>6, <2>9, <2>12, <2>13, <2>14 DEF SInv
<1> QED
  BY <1>1, <1>7, <1>14, <1>15 DEF DeliverFragment, DeliverNext

LEMMA SenderStutters ==
  ASSUME SInv, UNCHANGED senderVars PROVE SInv' /\ MarkerStep /\ HistoryKept
<1>1. UNCHANGED <<fPictureEndMarker, fInputBuffer, fNumValidDataBytes, fCurDataOffset,
                  fLastFragmentCompletedNALUnit, sink, fSeqNo, sent, frames, part, unpacked,
                  read>>
      /\ UNCHANGED packetVars
  BY DEF senderVars, fragmenterVars, packetVars
<1>2. SenderTypeOK'
  BY <1>1 DEF SInv, SenderTypeOK
<1>3. PacketsFit' /\ PacketsCarryTheNals' /\ \A i \in DOMAIN read' : IsNal(read'[i])
  BY <1>1 DEF SInv, PacketsFit, PacketsCarryTheNals
<1>4. NothingInHand' \/ InHand'
  BY <1>1 DEF SInv, NothingInHand, InHand
<1>5. PacketHistory' /\ HistoryKept
  BY <1>1, HistoryStays DEF SInv
<1> QED
  BY <1>1, <1>2, <1>3, <1>4, <1>5 DEF SInv, MarkerStep

LEMMA SenderKeeps == SInv /\ [Next]_vars => SInv' /\ MarkerStep /\ HistoryKept
<1> SUFFICES ASSUME SInv, [Next]_vars PROVE SInv' /\ MarkerStep /\ HistoryKept
  OBVIOUS
<1>1. CASE SenderStep
  BY <1>1, SendNextReadsKeeps, SendNextContinuesKeeps, AfterGettingFrameKeeps,
     AfterGettingNothingKeeps, StopPlayingKeeps DEF SenderStep
<1>2. CASE UNCHANGED senderVars
  BY <1>2, SenderStutters
<1> QED
  BY <1>1, <1>2 DEF Next, vars

-----------------------------------------------------------------------------
(* Numbers and places *)

\* Remainders of numbers less than once around the circle.
LEMMA Remainder ==
  ASSUME NEW M \in Nat \ {0}, NEW x \in Int
  PROVE  /\ x \in 0..(M - 1) => x % M = x
         /\ x \in (-M)..(-1) => x % M = x + M
OBVIOUS

\* How far one number is behind another, forwards and backwards.
LEMMA Distance ==
  ASSUME NEW s \in 0..(SeqModulus - 1), NEW t \in 0..(SeqModulus - 1),
         NEW d \in 0..(SeqModulus - 1), Apart(s, t, d)
  PROVE  /\ (t - s) % SeqModulus = d
         /\ d # 0 => (s - t) % SeqModulus = SeqModulus - d /\ s # t
<1> DEFINE M == SeqModulus
<1>1. M \in Nat \ {0}
  BY PacketizerAssumption
<1>2. t - s = d \/ t - s = d - M
  BY DEF Apart
<1>3. (t - s) % M = d
  <2>1. PICK x \in Int : x = t - s
    OBVIOUS
  <2>2. CASE x = d
    BY <1>1, <2>1, <2>2, Remainder
  <2>3. CASE x = d - M
    <3>1. x \in (-M)..(-1) /\ x + M = d
      BY <1>1, <2>3
    <3>2. x % M = x + M
      BY <1>1, <3>1, Remainder
    <3> QED
      BY <2>1, <3>1, <3>2
  <2> QED
    BY <1>2, <2>1, <2>2, <2>3
<1>4. ASSUME d # 0 PROVE (s - t) % M = M - d /\ s # t
  <2>1. PICK x \in Int : x = s - t
    OBVIOUS
  <2>2. CASE x = -d
    <3>1. x \in (-M)..(-1) /\ x + M = M - d
      BY <1>1, <1>4, <2>2
    <3>2. x % M = x + M
      BY <1>1, <3>1, Remainder
    <3> QED
      BY <1>4, <2>1, <2>2, <3>1, <3>2
  <2>3. CASE x = M - d
    <3>1. x \in 0..(M - 1) /\ x # 0
      BY <1>1, <1>4, <2>3
    <3>2. x % M = x
      BY <1>1, <3>1, Remainder
    <3> QED
      BY <2>1, <2>3, <3>1, <3>2
  <2> QED
    BY <1>1, <1>2, <2>1, <2>2, <2>3
<1> QED
  BY <1>3, <1>4

\* The numbers are numbers.
LEMMA NumbersAreNumbers ==
  ASSUME SInv, NEW k \in 1..(Len(sent) + 1)
  PROVE  NumberOf(k) \in 0..(SeqModulus - 1)
<1>1. PICK L : L = Len(sent)
  OBVIOUS
<1>2. sent \in Seq(Packet) /\ fSeqNo \in 0..(SeqModulus - 1)
  BY DEF SInv, SenderTypeOK
<1>3. L \in Nat /\ DOMAIN sent = 1..L /\ k \in 1..(L + 1)
  BY <1>1, <1>2
<1>4. CASE k \in 1..L
  <2>1. sent[k] \in Packet
    BY <1>2, <1>3, <1>4
  <2>2. sent[k].seq \in 0..(SeqModulus - 1)
    BY <2>1 DEF Packet
  <2> QED
    BY <1>1, <1>3, <1>4, <2>2 DEF NumberOf
<1>5. CASE k = L + 1
  BY <1>1, <1>2, <1>3, <1>5 DEF NumberOf
<1> QED
  BY <1>3, <1>4, <1>5

\* Near is what the numbers can tell apart.
Near(j, k) == k - j <= MaxDistance /\ j - k <= MaxDistance

\* The numbers of two packets not far from each other tell their order, and
\* how far it is from the earlier one to the later one.
LEMMA NumbersTell ==
  ASSUME SInv, NEW j \in 1..(Len(sent) + 1), NEW k \in 1..(Len(sent) + 1), Near(j, k)
  PROVE  /\ SeqNumLT(NumberOf(j), NumberOf(k)) <=> j < k
         /\ NumberOf(j) = NumberOf(k) <=> j = k
         /\ j <= k => (NumberOf(k) - NumberOf(j)) % SeqModulus = k - j
<1>1. /\ MaxDistance \in Nat /\ 2 * MaxDistance < SeqModulus /\ SeqModulus \in Nat \ {0}
      /\ Len(sent) \in Nat /\ j \in Nat /\ k \in Nat
  BY PacketizerAssumption, DepacketizerAssumption DEF SInv, SenderTypeOK
<1>2. k - j <= MaxDistance /\ j - k <= MaxDistance
  BY DEF Near
<1>3. NumberOf(j) \in 0..(SeqModulus - 1) /\ NumberOf(k) \in 0..(SeqModulus - 1)
  BY NumbersAreNumbers
<1>4. PICK s \in 0..(SeqModulus - 1), t \in 0..(SeqModulus - 1) :
        s = NumberOf(j) /\ t = NumberOf(k)
  BY <1>3
<1>5. CASE j <= k
  <2>1. PICK d \in 0..(SeqModulus - 1) : d = k - j /\ 2 * d < SeqModulus
    BY <1>1, <1>2, <1>5
  <2>2. Apart(s, t, d)
    BY <1>1, <1>4, <1>5, <2>1 DEF SInv, PacketHistory, Numbering
  <2>3. (t - s) % SeqModulus = d /\ (d # 0 => s # t)
    BY <2>2, Distance
  <2>4. s = t <=> j = k
    <3>1. s = t => d = 0
      BY <2>3
    <3>2. d = 0 <=> j = k
      BY <1>1, <2>1
    <3> QED
      BY <1>4, <3>1, <3>2
  <2>5. SeqNumLT(s, t) <=> s # t
    BY <2>1, <2>3 DEF SeqNumLT
  <2>6. j < k <=> j # k
    BY <1>1, <1>5
  <2>7. SeqNumLT(s, t) <=> j < k
    BY <2>4, <2>5, <2>6
  <2>8. (t - s) % SeqModulus = k - j
    BY <2>1, <2>3
  <2> QED
    BY <1>4, <2>4, <2>7, <2>8, Zenon
<1>6. CASE j > k
  <2>1. PICK d \in 0..(SeqModulus - 1) : d = j - k /\ 2 * d < SeqModulus /\ d # 0
    BY <1>1, <1>2, <1>6
  <2>2. Apart(t, s, d)
    BY <1>1, <1>4, <1>6, <2>1 DEF SInv, PacketHistory, Numbering
  <2>3. (t - s) % SeqModulus = SeqModulus - d /\ s # t
    BY <2>1, <2>2, Distance
  <2>4. ~(2 * (SeqModulus - d) < SeqModulus)
    BY <1>1, <2>1
  <2>5. ~SeqNumLT(s, t)
    BY <2>3, <2>4 DEF SeqNumLT
  <2> QED
    BY <1>1, <1>4, <1>6, <2>3, <2>5
<1> QED
  BY <1>1, <1>5, <1>6

-----------------------------------------------------------------------------
(* The types at the client: what is stored can be unpacked *)

\* A stored packet whose header bytes are there.
SoundPacket == {packet \in StoredPacket : Fits(packet.payload)}

ReceiverTypeOK ==
  /\ fHaveSeenFirstPacket \in BOOLEAN
  /\ fNextExpectedSeqNo \in 0..(SeqModulus - 1)
  /\ queue \in Seq(SoundPacket)
  /\ fNeedDelivery \in BOOLEAN
  /\ fPacketLossInFragmentedFrame \in BOOLEAN
  /\ to \in Seq(Byte)
  /\ looping \in BOOLEAN
  /\ place \in Nat \ {0}
  /\ delivered \in Seq(Seq(Byte))
  /\ skipped \in BOOLEAN

-----------------------------------------------------------------------------
(* The inductive invariant of the receiver *)

\* The packets in the queue are packets that were sent, in order, from the
\* one expected on and not far from it.
Located(at) ==
  /\ at \in [DOMAIN queue -> DOMAIN sent]
  /\ \A i \in DOMAIN queue :
       /\ at[i] \in place..(place + MaxDistance)
       /\ queue[i].seq = NumberOf(at[i]) /\ queue[i].payload = sent[at[i]].payload
  /\ \A i, j \in DOMAIN queue : i < j => at[i] < at[j]

\* The first packet of all is still there, in front.
Fresh == queue # <<>> /\ queue[1].first

QueueInv ==
  /\ \E at \in [DOMAIN queue -> DOMAIN sent] : Located(at)
  /\ \A i \in DOMAIN queue : queue[i].first => i = 1 /\ queue[1].seq = fNextExpectedSeqNo

\* The frames the client got, of those that end before the packet expected.
Chosen(at) ==
  /\ at \in [DOMAIN delivered -> DOMAIN frames]
  /\ \A i, j \in DOMAIN delivered : i < j => at[i] < at[j]
  /\ \A i \in DOMAIN delivered :
       at[i] <= Before(place).frames /\ delivered[i] = frames[at[i]]

ChosenInv == \E at \in [DOMAIN delivered -> DOMAIN frames] : Chosen(at)

\* It got every frame that ends before the packet expected.
MissedNone ==
  /\ Len(delivered) = Before(place).frames
  /\ \A i \in DOMAIN delivered : delivered[i] = frames[i]

\* Before it has used a packet.
BeforeTheFirst ==
  /\ delivered = <<>> /\ fNeedDelivery
  /\ ~skipped => place = 1

\* What it has of a frame is what one who got every packet would have.
InStep ==
  /\ fNeedDelivery /\ ~fPacketLossInFragmentedFrame => to = Before(place).part
  /\ ~fNeedDelivery => ~fPacketLossInFragmentedFrame /\ Before(place).part = <<>>
  /\ ~skipped => ~fPacketLossInFragmentedFrame /\ MissedNone

\* After the first packet has come.
Joined ==
  /\ fNextExpectedSeqNo = NumberOf(place)
  /\ QueueInv
  /\ IF Fresh THEN BeforeTheFirst ELSE InStep

NotJoined ==
  /\ queue = <<>> /\ delivered = <<>> /\ fNeedDelivery
  /\ ~looping /\ ~skipped

RInv ==
  /\ place \in 1..(Len(sent) + 1)
  /\ ChosenInv
  /\ looping => fNeedDelivery
  /\ IF fHaveSeenFirstPacket THEN Joined ELSE NotJoined

IInv == SInv /\ ReceiverTypeOK /\ RInv

-----------------------------------------------------------------------------
(* A packet comes *)

\* The packet is put at one place of the queue: those with lower numbers are
\* in front of it, and one with a higher number is next behind it.
PutAt(packet, new, pos) ==
  /\ new \in Seq(SoundPacket) /\ Len(new) = Len(queue) + 1
  /\ \A j \in 1..(Len(queue) + 1) :
       new[j] = IF j < pos THEN queue[j] ELSE IF j = pos THEN packet ELSE queue[j - 1]
  /\ \A i \in 1..(pos - 1) : ~SeqNumLT(packet.seq, queue[i].seq)
  /\ pos <= Len(queue) => SeqNumLT(packet.seq, queue[pos].seq)

LEMMA InsertedIsPut ==
  ASSUME queue \in Seq(SoundPacket), NEW packet \in SoundPacket
  PROVE  \E pos \in 1..(Len(queue) + 1) : PutAt(packet, Inserted(packet), pos)
<1> DEFINE higher(i) == SeqNumLT(packet.seq, queue[i].seq)
           S == {i \in DOMAIN queue : higher(i)}
           first == CHOOSE i \in DOMAIN queue : higher(i) /\ \A j \in 1..(i - 1) : ~higher(j)
<1>0. Len(queue) \in Nat /\ DOMAIN queue = 1..Len(queue)
  OBVIOUS
<1> HIDE DEF higher
<1>1. CASE S = {}
  <2>1. ~(\E i \in DOMAIN queue : higher(i))
    BY <1>1
  <2>2. Inserted(packet) = Append(queue, packet)
    BY <2>1 DEF Inserted, higher
  <2> DEFINE n == Len(queue) + 1
             new == Append(queue, packet)
  <2>3. /\ new \in Seq(SoundPacket) /\ Len(new) = Len(queue) + 1
        /\ \A j \in 1..Len(queue) : new[j] = queue[j]
        /\ new[n] = packet
    BY AppendProperties
  <2> HIDE DEF new
  <2>4. n \in 1..(Len(queue) + 1) /\ ~(n <= Len(queue)) /\ 1..(n - 1) = DOMAIN queue
    BY <1>0
  <2>5. ASSUME NEW j \in 1..(Len(queue) + 1)
        PROVE  new[j] = IF j < n THEN queue[j] ELSE IF j = n THEN packet ELSE queue[j - 1]
    <3>1. CASE j < n
      <4>1. j \in 1..Len(queue)
        BY <1>0, <3>1
      <4> QED
        BY <2>3, <3>1, <4>1
    <3>2. CASE j = n
      BY <1>0, <2>3, <3>2
    <3> QED
      BY <1>0, <3>1, <3>2
  <2>6. PutAt(packet, new, n)
    BY <2>1, <2>3, <2>4, <2>5 DEF PutAt, higher
  <2> QED
    BY <2>2, <2>4, <2>6 DEF new
<1>2. CASE S # {}
  <2>1. S \in SUBSET Nat
    BY <1>0
  <2>2. PICK m \in S : \A y \in S : m <= y
    BY <1>2, <2>1, LeastNatural
  <2>3. m \in DOMAIN queue /\ higher(m) /\ \A j \in 1..(m - 1) : ~higher(j)
    <3>1. m \in 1..Len(queue) /\ m \in Nat /\ higher(m)
      BY <1>0, <2>2
    <3>2. ASSUME NEW j \in 1..(m - 1), higher(j) PROVE FALSE
      <4>1. j \in S
        BY <1>0, <3>1, <3>2
      <4>2. m <= j
        BY <2>2, <4>1
      <4> QED
        BY <3>1, <4>2
    <3> QED
      BY <1>0, <3>1, <3>2
  <2>4. first \in DOMAIN queue /\ higher(first) /\ \A j \in 1..(first - 1) : ~higher(j)
    BY <2>3
  <2>5. Inserted(packet) = InsertAt(queue, first, packet)
    BY <2>3 DEF Inserted, higher
  <2>6. first \in 1..(Len(queue) + 1)
    BY <1>0, <2>4
  <2> HIDE DEF first
  <2>7. PICK new : new = InsertAt(queue, first, packet)
    OBVIOUS
  <2>8. /\ new \in Seq(SoundPacket) /\ Len(new) = Len(queue) + 1
        /\ \A j \in 1..(Len(queue) + 1) :
             new[j] = IF j < first THEN queue[j]
                      ELSE IF j = first THEN packet ELSE queue[j - 1]
    <3>1. /\ InsertAt(queue, first, packet) \in Seq(SoundPacket)
          /\ Len(InsertAt(queue, first, packet)) = Len(queue) + 1
          /\ \A j \in 1..(Len(queue) + 1) :
               InsertAt(queue, first, packet)[j]
                 = IF j < first THEN queue[j] ELSE IF j = first THEN packet ELSE queue[j - 1]
      <4>1. PICK i \in 1..(Len(queue) + 1) : i = first
        BY <2>6
      <4>2. /\ InsertAt(queue, i, packet) \in Seq(SoundPacket)
            /\ Len(InsertAt(queue, i, packet)) = Len(queue) + 1
            /\ \A j \in 1..(Len(queue) + 1) :
                 InsertAt(queue, i, packet)[j]
                   = IF j < i THEN queue[j] ELSE IF j = i THEN packet ELSE queue[j - 1]
        BY InsertionShifts, SMTT(30)
      <4> QED
        BY ONLY <4>1, <4>2
    <3> QED
      BY <2>7, <3>1, Zenon
  <2>9. PutAt(packet, new, first)
    BY <2>4, <2>8 DEF PutAt, higher
  <2> QED
    BY <2>5, <2>6, <2>7, <2>9
<1> QED
  BY <1>1, <1>2

\* The places at which the packets in the queue were sent.
LEMMA PlacesAreNumbers ==
  ASSUME SInv, ReceiverTypeOK, place \in 1..(Len(sent) + 1), NEW at, Located(at)
  PROVE  /\ Len(queue) \in Nat /\ DOMAIN queue = 1..Len(queue)
         /\ Len(sent) \in Nat /\ DOMAIN sent = 1..Len(sent)
         /\ place \in Nat /\ MaxDistance \in Nat
         /\ \A i \in DOMAIN queue :
              /\ at[i] \in DOMAIN sent /\ at[i] \in Nat
              /\ place <= at[i] /\ at[i] <= place + MaxDistance
<1>1. Len(queue) \in Nat /\ DOMAIN queue = 1..Len(queue)
  BY DEF ReceiverTypeOK
<1>2. Len(sent) \in Nat /\ DOMAIN sent = 1..Len(sent)
  BY DEF SInv, SenderTypeOK
<1>3. place \in Nat /\ MaxDistance \in Nat
  BY <1>2, DepacketizerAssumption
<1>4. ASSUME NEW i \in DOMAIN queue
      PROVE  /\ at[i] \in DOMAIN sent /\ at[i] \in Nat
             /\ place <= at[i] /\ at[i] <= place + MaxDistance
  <2>1. at[i] \in DOMAIN sent /\ at[i] \in place..(place + MaxDistance)
    BY <1>4 DEF Located
  <2>2. PICK n : n = at[i]
    OBVIOUS
  <2> QED
    BY <1>2, <1>3, <2>1, <2>2
<1> QED
  BY <1>1, <1>2, <1>3, <1>4

\* The packet that comes finds its place.
LEMMA PutKeepsPlaces ==
  ASSUME SInv, ReceiverTypeOK, place \in 1..(Len(sent) + 1), NEW at, Located(at),
         NEW k \in DOMAIN sent, place <= k, k <= place + MaxDistance,
         \A i \in DOMAIN queue : at[i] # k,
         NEW x, x.seq = NumberOf(k), x.payload = sent[k].payload,
         NEW pos \in 1..(Len(queue) + 1), PutAt(x, queue', pos),
         UNCHANGED <<sent, fSeqNo, place>>
  PROVE  /\ \E new \in [DOMAIN queue' -> DOMAIN sent'] : Located(new)'
         /\ pos = 1 => \A i \in DOMAIN queue : k < at[i]
<1>1. /\ Len(queue) \in Nat /\ DOMAIN queue = 1..Len(queue)
      /\ Len(sent) \in Nat /\ DOMAIN sent = 1..Len(sent)
      /\ place \in Nat /\ MaxDistance \in Nat
      /\ \A i \in DOMAIN queue :
           /\ at[i] \in DOMAIN sent /\ at[i] \in Nat
           /\ place <= at[i] /\ at[i] <= place + MaxDistance
  BY PlacesAreNumbers
<1>2. PICK n \in Nat : n = Len(queue)
  BY <1>1
<1>3. /\ queue' \in Seq(SoundPacket) /\ Len(queue') = n + 1
      /\ \A j \in 1..(n + 1) :
           queue'[j] = IF j < pos THEN queue[j] ELSE IF j = pos THEN x ELSE queue[j - 1]
  BY <1>2 DEF PutAt
<1>4. DOMAIN queue' = 1..(n + 1) /\ k \in Nat /\ pos \in 1..(n + 1)
  BY <1>1, <1>2, <1>3
<1>5. ASSUME NEW i \in DOMAIN queue
      PROVE  SeqNumLT(x.seq, queue[i].seq) <=> k < at[i]
  <2>1. k \in 1..(Len(sent) + 1) /\ at[i] \in 1..(Len(sent) + 1) /\ Near(k, at[i])
    BY <1>1, <1>4, <1>5 DEF Near
  <2>2. queue[i].seq = NumberOf(at[i])
    BY <1>5 DEF Located
  <2> QED
    BY <2>1, <2>2, NumbersTell
<1>6. \A i, j \in DOMAIN queue : i < j => at[i] < at[j]
  BY DEF Located
<1>7. \A i \in DOMAIN queue : i < pos => at[i] < k
  <2> SUFFICES ASSUME NEW i \in DOMAIN queue, i < pos PROVE at[i] < k
    OBVIOUS
  <2>1. i \in 1..(pos - 1)
    BY <1>1, <1>4
  <2>2. ~SeqNumLT(x.seq, queue[i].seq)
    BY <2>1 DEF PutAt
  <2>3. ~(k < at[i]) /\ at[i] # k
    BY <1>5, <2>2
  <2> QED
    BY <1>1, <1>4, <2>3
<1>8. \A i \in DOMAIN queue : i >= pos => k < at[i]
  <2> SUFFICES ASSUME NEW i \in DOMAIN queue, i >= pos PROVE k < at[i]
    OBVIOUS
  <2>1. pos \in DOMAIN queue
    BY <1>1, <1>4
  <2>2. k < at[pos]
    <3>1. pos <= Len(queue)
      BY <1>1, <2>1
    <3>2. SeqNumLT(x.seq, queue[pos].seq)
      BY <3>1 DEF PutAt
    <3> QED
      BY <1>5, <2>1, <3>2
  <2>3. at[pos] <= at[i]
    <3>1. pos = i \/ pos < i
      BY <1>1, <1>4
    <3>2. pos < i => at[pos] < at[i]
      BY <1>6, <2>1
    <3> QED
      BY <1>1, <2>1, <3>1, <3>2
  <2> QED
    BY <1>1, <1>4, <2>1, <2>2, <2>3
<1> DEFINE new == [j \in 1..(n + 1) |-> IF j < pos THEN at[j] ELSE IF j = pos THEN k ELSE at[j - 1]]
<1>9. \A j \in 1..(n + 1) :
        new[j] = IF j < pos THEN at[j] ELSE IF j = pos THEN k ELSE at[j - 1]
  OBVIOUS
<1>10. ASSUME NEW j \in 1..(n + 1)
       PROVE  \/ j < pos /\ j \in DOMAIN queue /\ new[j] = at[j] /\ queue'[j] = queue[j]
              \/ j = pos /\ new[j] = k /\ queue'[j] = x
              \/ /\ j > pos /\ j - 1 \in DOMAIN queue /\ j - 1 >= pos
                 /\ new[j] = at[j - 1] /\ queue'[j] = queue[j - 1]
  <2>1. CASE j < pos
    <3>1. j \in DOMAIN queue
      BY <1>1, <1>2, <1>4, <2>1
    <3> QED
      BY <1>3, <1>9, <2>1, <3>1
  <2>2. CASE j = pos
    <3>1. ~(j < pos)
      BY <1>4, <2>2
    <3> QED
      BY <1>3, <1>9, <2>2, <3>1
  <2>3. CASE j > pos
    <3>1. j - 1 \in DOMAIN queue /\ j - 1 >= pos /\ ~(j < pos) /\ j # pos
      BY <1>1, <1>2, <1>4, <2>3
    <3> QED
      BY <1>3, <1>9, <2>3, <3>1
  <2> QED
    BY <1>4, <2>1, <2>2, <2>3
<1> HIDE DEF new
<1>11. ASSUME NEW j \in 1..(n + 1)
       PROVE  /\ new[j] \in DOMAIN sent /\ new[j] \in place..(place + MaxDistance)
              /\ queue'[j].seq = NumberOf(new[j]) /\ queue'[j].payload = sent[new[j]].payload
  <2>1. \A i \in DOMAIN queue :
          /\ at[i] \in DOMAIN sent /\ at[i] \in place..(place + MaxDistance)
          /\ queue[i].seq = NumberOf(at[i]) /\ queue[i].payload = sent[at[i]].payload
    BY <1>1 DEF Located
  <2>2. k \in place..(place + MaxDistance)
    BY <1>1, <1>4
  <2> QED
    BY <1>10, <2>1, <2>2
<1>12. ASSUME NEW i \in 1..(n + 1), NEW j \in 1..(n + 1), i < j
       PROVE  new[i] < new[j]
  <2>1. \/ i < pos /\ i \in DOMAIN queue /\ new[i] = at[i]
        \/ i = pos /\ new[i] = k
        \/ i > pos /\ i - 1 \in DOMAIN queue /\ i - 1 >= pos /\ new[i] = at[i - 1]
    BY <1>10
  <2>2. \/ j < pos /\ j \in DOMAIN queue /\ new[j] = at[j]
        \/ j = pos /\ new[j] = k
        \/ j > pos /\ j - 1 \in DOMAIN queue /\ j - 1 >= pos /\ new[j] = at[j - 1]
    BY <1>10
  <2>3. CASE i < pos /\ i \in DOMAIN queue /\ new[i] = at[i]
    <3>1. CASE j < pos /\ j \in DOMAIN queue /\ new[j] = at[j]
      BY <1>6, <1>12, <2>3, <3>1
    <3>2. CASE j = pos /\ new[j] = k
      BY <1>7, <2>3, <3>2
    <3>3. CASE j > pos /\ j - 1 \in DOMAIN queue /\ j - 1 >= pos /\ new[j] = at[j - 1]
      <4>1. at[i] < k /\ k < at[j - 1]
        BY <1>7, <1>8, <2>3, <3>3
      <4>2. at[i] \in Nat /\ at[j - 1] \in Nat
        BY <1>1, <2>3, <3>3
      <4> QED
        BY <1>4, <2>3, <3>3, <4>1, <4>2
    <3> QED
      BY <2>2, <3>1, <3>2, <3>3
  <2>4. CASE i = pos /\ new[i] = k
    <3>1. j > pos /\ j - 1 \in DOMAIN queue /\ j - 1 >= pos /\ new[j] = at[j - 1]
      BY <1>4, <1>12, <2>2, <2>4
    <3> QED
      BY <1>8, <2>4, <3>1
  <2>5. CASE i > pos /\ i - 1 \in DOMAIN queue /\ i - 1 >= pos /\ new[i] = at[i - 1]
    <3>1. j > pos /\ j - 1 \in DOMAIN queue /\ j - 1 >= pos /\ new[j] = at[j - 1]
      BY <1>4, <1>12, <2>2, <2>5
    <3>2. i - 1 < j - 1
      BY <1>12
    <3>3. at[i - 1] < at[j - 1]
      BY <1>6, <2>5, <3>1, <3>2
    <3> QED
      BY <2>5, <3>1, <3>3
  <2> QED
    BY <2>1, <2>3, <2>4, <2>5
<1>13. new \in [DOMAIN queue' -> DOMAIN sent']
  <2>1. \A j \in 1..(n + 1) : new[j] \in DOMAIN sent
    BY <1>11
  <2>2. new \in [1..(n + 1) -> DOMAIN sent]
    BY <2>1 DEF new
  <2> QED
    BY <1>4, <2>2
<1>14. \A j \in 1..(n + 1) : NumberOf(new[j])' = NumberOf(new[j])
  BY DEF NumberOf
<1>15. Located(new)'
  BY <1>4, <1>11, <1>12, <1>13, <1>14 DEF Located
<1>16. pos = 1 => \A i \in DOMAIN queue : k < at[i]
  <2>1. \A i \in DOMAIN queue : i >= 1
    BY <1>1
  <2> QED
    BY <1>8, <2>1
<1> QED
  BY <1>13, <1>15, <1>16

\* As long as the client got nothing.
LEMMA NothingChosen ==
  ASSUME delivered = <<>> PROVE ChosenInv
<1> DEFINE at == [i \in {} |-> 1]
<1>1. DOMAIN delivered = {}
  OBVIOUS
<1>2. at \in [DOMAIN delivered -> DOMAIN frames]
  BY <1>1
<1> HIDE DEF at
<1> QED
  BY <1>1, <1>2 DEF ChosenInv, Chosen

LEMMA NothingChosenNext ==
  ASSUME delivered' = <<>> PROVE ChosenInv'
<1> DEFINE at == [i \in {} |-> 1]
<1>1. DOMAIN delivered' = {}
  OBVIOUS
<1>2. at \in [DOMAIN delivered' -> DOMAIN frames']
  BY <1>1
<1> HIDE DEF at
<1> QED
  BY <1>1, <1>2 DEF ChosenInv, Chosen

\* What was sent can be unpacked.
LEMMA SentFits ==
  ASSUME SInv, NEW k \in DOMAIN sent
  PROVE  sent[k] \in Packet /\ Fits(sent[k].payload)
<1>1. sent[k] \in Packet
  BY DEF SInv, SenderTypeOK
<1>2. /\ Len(sent[k].payload) \in 1..fMaxOutputPacketSize
      /\ IsFragment(sent[k].payload) => Len(sent[k].payload) > 2
  BY DEF SInv, PacketsFit
<1>3. sent[k].payload \in Seq(Byte)
  BY <1>1 DEF Packet
<1> QED
  BY <1>1, <1>2, <1>3 DEF Fits

\* While the client does something, nothing is sent.
LEMMA SenderAtRest ==
  ASSUME UNCHANGED senderVars
  PROVE  /\ UNCHANGED <<sent, fSeqNo, frames, part, unpacked>>
         /\ \A k : NumberOf(k)' = NumberOf(k) /\ Before(k)' = Before(k)
<1>1. UNCHANGED <<sent, fSeqNo, frames, part, unpacked>>
  BY DEF senderVars, packetVars
<1> QED
  BY <1>1 DEF NumberOf, Before

\* The first packet of all: it is the one expected.
LEMMA FirstPacketJoins ==
  ASSUME IInv, NEW k \in DOMAIN sent, NetworkReadHandler(k), UNCHANGED senderVars,
         ~fHaveSeenFirstPacket
  PROVE  RInv'
<1>1. queue = <<>> /\ delivered = <<>> /\ fNeedDelivery /\ ~looping /\ ~skipped
  BY DEF IInv, RInv, NotJoined
<1>2. sent \in Seq(Packet) /\ Len(sent) \in Nat /\ DOMAIN sent = 1..Len(sent)
  BY DEF IInv, SInv, SenderTypeOK
<1>3. PICK stored : stored = [seq |-> sent[k].seq, payload |-> sent[k].payload, first |-> TRUE]
  OBVIOUS
<1>4. PICK seq : seq = sent[k].seq
  OBVIOUS
<1>5. Inserted(stored) = <<stored>>
  <2>1. ~(\E i \in DOMAIN queue : SeqNumLT(stored.seq, queue[i].seq))
    BY <1>1
  <2>2. Inserted(stored) = Append(queue, stored)
    BY <2>1 DEF Inserted
  <2> QED
    BY <1>1, <2>2
<1>6. StorePacket(sent[k])
  BY DEF NetworkReadHandler
<1>7. ~SeqNumLT(seq, seq) /\ ~IsDuplicate(sent[k])
  BY <1>1 DEF SeqNumLT, IsDuplicate
<1>8. /\ fHaveSeenFirstPacket' = TRUE /\ fNextExpectedSeqNo' = seq
      /\ queue' = <<stored>>
  BY <1>3, <1>4, <1>5, <1>6, <1>7 DEF StorePacket
<1>9. /\ looping' = fNeedDelivery /\ place' = k /\ skipped' = (skipped \/ k # 1)
      /\ UNCHANGED <<fNeedDelivery, fPacketLossInFragmentedFrame, to, delivered>>
  BY DEF NetworkReadHandler
<1>10. UNCHANGED <<sent, frames>> /\ NumberOf(k)' = NumberOf(k) /\ NumberOf(k) = seq
  BY <1>2, <1>4, SenderAtRest DEF NumberOf
<1>11. k \in Nat /\ k \in 1..Len(sent) /\ MaxDistance \in Nat
  BY <1>2, DepacketizerAssumption
<1>12. DOMAIN queue' = {1} /\ queue'[1] = stored /\ queue' # <<>>
  BY <1>8
<1>13. QueueInv'
  <2> DEFINE at == [i \in {1} |-> k]
  <2>1. at \in [DOMAIN queue' -> DOMAIN sent'] /\ at[1] = k
    BY <1>10, <1>12
  <2>2. k \in k..(k + MaxDistance)
    BY <1>11
  <2>3. stored.seq = seq /\ stored.payload = sent[k].payload /\ stored.first = TRUE
    BY <1>3, <1>4
  <2> HIDE DEF at
  <2>4. Located(at)'
    BY <1>9, <1>10, <1>12, <2>1, <2>2, <2>3 DEF Located
  <2> QED
    BY <1>8, <1>12, <2>1, <2>3, <2>4 DEF QueueInv
<1>14. Fresh' /\ BeforeTheFirst'
  <2>1. stored.first = TRUE
    BY <1>3
  <2>2. Fresh'
    BY <1>12, <2>1 DEF Fresh
  <2>3. BeforeTheFirst'
    BY <1>1, <1>9 DEF BeforeTheFirst
  <2> QED
    BY <2>2, <2>3
<1>15. ChosenInv'
  BY <1>1, <1>9, NothingChosenNext
<1>16. place' \in 1..(Len(sent') + 1)
  BY <1>9, <1>10, <1>11
<1>17. Joined'
  BY <1>8, <1>9, <1>10, <1>13, <1>14 DEF Joined
<1> QED
  BY <1>8, <1>9, <1>15, <1>16, <1>17 DEF RInv

\* Later ones: those behind the time and those that are there are ignored.
LEMMA LaterPacketKeeps ==
  ASSUME IInv, NEW k \in DOMAIN sent, NetworkReadHandler(k), UNCHANGED senderVars,
         fHaveSeenFirstPacket
  PROVE  RInv'
<1>1. /\ Joined /\ SInv /\ ReceiverTypeOK /\ place \in 1..(Len(sent) + 1)
      /\ ChosenInv
  BY DEF IInv, RInv
<1>2. PICK at \in [DOMAIN queue -> DOMAIN sent] : Located(at)
  BY <1>1 DEF Joined, QueueInv
<1>3. /\ Len(queue) \in Nat /\ DOMAIN queue = 1..Len(queue)
      /\ Len(sent) \in Nat /\ DOMAIN sent = 1..Len(sent)
      /\ place \in Nat /\ MaxDistance \in Nat
      /\ \A i \in DOMAIN queue :
           /\ at[i] \in DOMAIN sent /\ at[i] \in Nat
           /\ place <= at[i] /\ at[i] <= place + MaxDistance
  BY <1>1, <1>2, PlacesAreNumbers
<1>4. k \in (place - MaxDistance)..(place + MaxDistance) /\ StorePacket(sent[k])
  BY DEF NetworkReadHandler
<1>5. /\ looping' = fNeedDelivery /\ place' = place /\ skipped' = skipped
      /\ UNCHANGED <<fNeedDelivery, fPacketLossInFragmentedFrame, to, delivered>>
  BY DEF NetworkReadHandler, IInv, ReceiverTypeOK
<1>6. /\ UNCHANGED <<sent, fSeqNo, frames, part, unpacked>>
      /\ \A n : NumberOf(n)' = NumberOf(n) /\ Before(n)' = Before(n)
  BY SenderAtRest
<1>7. PICK x : x = [seq |-> sent[k].seq, payload |-> sent[k].payload, first |-> FALSE]
  OBVIOUS
<1>8. /\ fHaveSeenFirstPacket' = TRUE /\ fNextExpectedSeqNo' = fNextExpectedSeqNo
      /\ queue' = IF SeqNumLT(sent[k].seq, fNextExpectedSeqNo) \/ IsDuplicate(sent[k])
                    THEN queue ELSE Inserted(x)
  BY <1>4, <1>7 DEF StorePacket
<1>9. k \in Nat /\ k \in 1..(Len(sent) + 1) /\ Near(k, place) /\ sent[k].seq = NumberOf(k)
  BY <1>3, <1>4 DEF Near, NumberOf
<1>10. QueueInv' /\ (Fresh' <=> Fresh)
  <2>1. CASE SeqNumLT(sent[k].seq, fNextExpectedSeqNo) \/ IsDuplicate(sent[k])
    <3>1. queue' = queue
      BY <1>8, <2>1
    <3>2. Located(at)'
      BY <1>2, <1>5, <1>6, <3>1 DEF Located
    <3> QED
      BY <1>1, <1>2, <1>6, <1>8, <3>1, <3>2 DEF QueueInv, Fresh, Joined
  <2>2. CASE ~(SeqNumLT(sent[k].seq, fNextExpectedSeqNo) \/ IsDuplicate(sent[k]))
    <3>1. queue' = Inserted(x)
      BY <1>8, <2>2
    <3>2. place <= k /\ k <= place + MaxDistance
      <4>1. ~SeqNumLT(NumberOf(k), NumberOf(place))
        BY <1>1, <1>9, <2>2 DEF Joined
      <4>2. ~(k < place)
        BY <1>1, <1>9, <4>1, NumbersTell
      <4> QED
        BY <1>3, <1>4, <1>9, <4>2
    <3>3. \A i \in DOMAIN queue : at[i] # k
      BY <1>2, <1>9, <2>2 DEF IsDuplicate, Located
    <3>4. x \in SoundPacket /\ x.seq = NumberOf(k) /\ x.payload = sent[k].payload
          /\ x.first = FALSE
      <4>1. sent[k] \in Packet
        BY <1>1 DEF SInv, SenderTypeOK
      <4>2. Fits(sent[k].payload)
        BY <1>1, SentFits
      <4>3. x.seq = sent[k].seq /\ x.payload = sent[k].payload /\ x.first = FALSE
        BY <1>7
      <4>4. x \in StoredPacket
        BY <1>7, <4>1 DEF Packet, StoredPacket
      <4> QED
        BY <1>9, <4>2, <4>3, <4>4 DEF SoundPacket
    <3>5. PICK pos \in 1..(Len(queue) + 1) : PutAt(x, queue', pos)
      BY <1>1, <3>1, <3>4, InsertedIsPut DEF ReceiverTypeOK
    <3>6. /\ \E new \in [DOMAIN queue' -> DOMAIN sent'] : Located(new)'
          /\ pos = 1 => \A i \in DOMAIN queue : k < at[i]
      BY <1>1, <1>2, <1>5, <1>6, <3>2, <3>3, <3>4, <3>5, PutKeepsPlaces
    <3>7. /\ DOMAIN queue' = 1..(Len(queue) + 1)
          /\ \A j \in 1..(Len(queue) + 1) :
               queue'[j] = IF j < pos THEN queue[j] ELSE IF j = pos THEN x ELSE queue[j - 1]
      BY <1>3, <3>5 DEF PutAt
    <3>8. \A i \in DOMAIN queue : queue[i].first => i = 1 /\ queue[1].seq = fNextExpectedSeqNo
      BY <1>1 DEF Joined, QueueInv
    <3>9. pos = 1 => \A i \in DOMAIN queue : ~queue[i].first
      <4> SUFFICES ASSUME pos = 1, NEW i \in DOMAIN queue, queue[i].first PROVE FALSE
        OBVIOUS
      <4>1. i = 1 /\ queue[1].seq = NumberOf(place) /\ 1 \in DOMAIN queue
        BY <1>1, <3>8 DEF Joined
      <4>2. at[1] \in 1..(Len(sent) + 1) /\ Near(at[1], place) /\ NumberOf(at[1]) = queue[1].seq
        BY <1>2, <1>3, <4>1 DEF Near, Located
      <4>3. at[1] = place
        BY <1>1, <4>1, <4>2, NumbersTell
      <4> QED
        BY <1>3, <1>9, <3>2, <3>6, <4>1, <4>3
    <3>10. ASSUME NEW j \in DOMAIN queue', queue'[j].first
           PROVE  j = 1 /\ j < pos /\ queue'[1] = queue[1] /\ 1 \in DOMAIN queue /\ queue[1].first
      <4>1. CASE j < pos
        <5>1. j \in DOMAIN queue /\ queue'[j] = queue[j]
          BY <1>3, <3>5, <3>7, <4>1
        <5> QED
          BY <3>8, <3>10, <4>1, <5>1
      <4>2. CASE j = pos
        BY <3>4, <3>5, <3>7, <3>10, <4>2
      <4>3. CASE j > pos
        <5>1. j - 1 \in DOMAIN queue /\ queue'[j] = queue[j - 1] /\ pos <= j - 1
          BY <1>3, <3>5, <3>7, <4>3
        <5>2. queue[j - 1].first
          BY <3>10, <5>1
        <5>3. j - 1 = 1
          BY <3>8, <5>1, <5>2
        <5>4. pos = 1
          BY <1>3, <3>5, <5>1, <5>3
        <5> QED
          BY <3>9, <5>1, <5>2, <5>4
      <4> QED
        BY <1>3, <3>5, <3>7, <4>1, <4>2, <4>3
    <3>11. ASSUME Fresh PROVE Fresh'
      <4>1. 1 \in DOMAIN queue /\ queue[1].first
        BY <1>3, <3>11 DEF Fresh
      <4>2. pos # 1
        BY <3>9, <4>1
      <4>3. 1 < pos /\ 1 \in 1..(Len(queue) + 1)
        BY <1>3, <3>5, <4>2
      <4>4. queue'[1] = queue[1] /\ queue' # <<>>
        BY <3>7, <4>3
      <4> QED
        BY <4>1, <4>4 DEF Fresh
    <3>12. ASSUME Fresh' PROVE Fresh
      <4>1. 1 \in DOMAIN queue' /\ queue'[1].first
        BY <1>3, <3>7, <3>12 DEF Fresh
      <4>2. 1 \in DOMAIN queue /\ queue[1].first
        BY <3>10, <4>1
      <4> QED
        BY <4>2 DEF Fresh
    <3>13. QueueInv'
      <4>1. ASSUME NEW j \in DOMAIN queue', queue'[j].first
            PROVE  j = 1 /\ queue'[1].seq = fNextExpectedSeqNo'
        BY <1>8, <3>8, <3>10, <4>1
      <4> QED
        BY <3>6, <4>1 DEF QueueInv
    <3> QED
      BY <3>11, <3>12, <3>13
  <2> QED
    BY <2>1, <2>2
<1>11. ChosenInv' /\ (MissedNone => MissedNone')
  BY <1>1, <1>5, <1>6 DEF ChosenInv, Chosen, MissedNone
<1>12. (BeforeTheFirst => BeforeTheFirst') /\ (InStep => InStep')
  BY <1>5, <1>6, <1>11 DEF BeforeTheFirst, InStep
<1>13. Joined'
  BY <1>1, <1>5, <1>6, <1>8, <1>10, <1>12 DEF Joined
<1> QED
  BY <1>1, <1>5, <1>6, <1>8, <1>11, <1>13 DEF RInv

LEMMA NetworkReadHandlerKeeps ==
  ASSUME IInv, NEW k \in DOMAIN sent, NetworkReadHandler(k)
  PROVE  ReceiverTypeOK'
<1>0. PICK packet : packet = sent[k]
  OBVIOUS
<1>1. packet \in Packet /\ Fits(packet.payload)
  <2>1. sent \in Seq(Packet)
    BY DEF IInv, SInv, SenderTypeOK
  <2>2. PICK i \in DOMAIN sent : packet = sent[i]
    BY <1>0
  <2>3. packet \in Packet
    BY <2>1, <2>2
  <2>4. /\ Len(packet.payload) \in 1..fMaxOutputPacketSize
        /\ IsFragment(packet.payload) => Len(packet.payload) > 2
    BY <2>2 DEF IInv, SInv, PacketsFit
  <2>5. packet.payload \in Seq(Byte)
    BY <2>3 DEF Packet
  <2> QED
    BY <2>3, <2>4, <2>5 DEF Fits
<1>2. PICK stored : stored = [seq |-> packet.seq, payload |-> packet.payload,
                              first |-> ~fHaveSeenFirstPacket]
  OBVIOUS
<1>3. stored \in SoundPacket
  BY <1>1, <1>2 DEF IInv, ReceiverTypeOK, SoundPacket, StoredPacket, Packet
<1>4. Inserted(stored) \in Seq(SoundPacket)
  BY <1>3, InsertedIsPut DEF IInv, ReceiverTypeOK, PutAt
<1>5. StorePacket(packet)
  BY <1>0 DEF NetworkReadHandler
<1>6. fHaveSeenFirstPacket' = TRUE /\ (queue' = queue \/ queue' = Inserted(stored))
  BY <1>2, <1>5 DEF StorePacket
<1>7. fNextExpectedSeqNo' \in 0..(SeqModulus - 1)
  BY <1>1, <1>5 DEF StorePacket, IInv, ReceiverTypeOK, Packet
<1>8. queue' \in Seq(SoundPacket)
  BY <1>4, <1>6 DEF IInv, ReceiverTypeOK
<1>9. /\ looping' = fNeedDelivery
      /\ skipped' \in BOOLEAN
      /\ UNCHANGED <<fNeedDelivery, fPacketLossInFragmentedFrame, to, delivered>>
  BY DEF NetworkReadHandler, IInv, ReceiverTypeOK
<1>10. place' \in Nat \ {0}
  <2>1. sent \in Seq(Packet)
    BY DEF IInv, SInv, SenderTypeOK
  <2>2. k \in Nat \ {0}
    BY <2>1
  <2> QED
    BY <2>2 DEF NetworkReadHandler, IInv, ReceiverTypeOK
<1> QED
  BY <1>6, <1>7, <1>8, <1>9, <1>10 DEF IInv, ReceiverTypeOK

-----------------------------------------------------------------------------
(* A packet is used *)

\* Behind the packet used, whose place is k.
LEMMA HeadMoves ==
  ASSUME IInv, queue # <<>>, NEW loss, UsePacket(loss), UNCHANGED senderVars
  PROVE  \E k \in DOMAIN sent :
           /\ place <= k /\ place' = k + 1 /\ k + 1 \in 1..(Len(sent) + 1)
           /\ Head(queue).payload = sent[k].payload
           /\ Head(queue).seq = fNextExpectedSeqNo <=> k = place
           /\ fNextExpectedSeqNo' = NumberOf(k + 1)'
           /\ QueueInv' /\ ~Fresh'
<1>1. /\ Joined /\ SInv /\ ReceiverTypeOK /\ place \in 1..(Len(sent) + 1)
  BY DEF IInv, RInv, NotJoined
<1>2. PICK at \in [DOMAIN queue -> DOMAIN sent] : Located(at)
  BY <1>1 DEF Joined, QueueInv
<1>3. /\ Len(queue) \in Nat /\ DOMAIN queue = 1..Len(queue)
      /\ Len(sent) \in Nat /\ DOMAIN sent = 1..Len(sent)
      /\ place \in Nat /\ MaxDistance \in Nat
      /\ \A i \in DOMAIN queue :
           /\ at[i] \in DOMAIN sent /\ at[i] \in Nat
           /\ place <= at[i] /\ at[i] <= place + MaxDistance
  BY <1>1, <1>2, PlacesAreNumbers
<1>4. queue \in Seq(SoundPacket)
  BY <1>1 DEF ReceiverTypeOK
<1>5. PICK n \in Nat : n = Len(queue)
  BY <1>3
<1>6. n >= 1 /\ 1 \in DOMAIN queue
  BY <1>3, <1>4, <1>5
<1>7. /\ Head(queue) = queue[1]
      /\ Tail(queue) \in Seq(SoundPacket) /\ Len(Tail(queue)) = n - 1
      /\ \A i \in 1..(n - 1) : Tail(queue)[i] = queue[i + 1]
  BY <1>4, <1>5, HeadTailProperties
<1>8. PICK k \in DOMAIN sent : k = at[1]
  BY <1>3, <1>6
<1>9. /\ k \in Nat /\ k + 1 \in 1..(Len(sent) + 1) /\ k \in 1..(Len(sent) + 1)
      /\ place <= k /\ k <= place + MaxDistance /\ Near(place, k) /\ Near(k, place)
  BY <1>3, <1>6, <1>8 DEF Near
<1>10. queue[1].seq = NumberOf(k) /\ queue[1].payload = sent[k].payload
  BY <1>2, <1>6, <1>8 DEF Located
<1>11. fNextExpectedSeqNo = NumberOf(place)
  BY <1>1 DEF Joined
<1>12. NumberOf(k) = NumberOf(place) <=> k = place
  BY <1>1, <1>9, NumbersTell
<1>13. (NumberOf(k) - NumberOf(place)) % SeqModulus = k - place
  BY <1>1, <1>9, NumbersTell
<1>14. place' = k + 1
  <2>1. place' = place + 1 + ((Head(queue).seq - fNextExpectedSeqNo) % SeqModulus)
    BY DEF UsePacket
  <2>2. place' = place + 1 + (k - place)
    BY <1>7, <1>10, <1>11, <1>13, <2>1
  <2> QED
    BY <1>3, <1>9, <2>2
<1>15. /\ UNCHANGED <<sent, fSeqNo, frames, part, unpacked>>
       /\ \A m : NumberOf(m)' = NumberOf(m) /\ Before(m)' = Before(m)
  BY SenderAtRest
<1>16. fNextExpectedSeqNo' = NumberOf(k + 1)
  <2>1. fNextExpectedSeqNo' = (Head(queue).seq + 1) % SeqModulus
    BY DEF UsePacket
  <2>2. NumberOf(k + 1) = (NumberOf(k) + 1) % SeqModulus
    BY <1>1 DEF SInv, PacketHistory, Numbering
  <2> QED
    BY <1>7, <1>10, <2>1, <2>2
<1>17. queue' = Tail(queue)
  BY DEF UsePacket
<1>18. /\ DOMAIN queue' = 1..(n - 1)
       /\ \A i \in 1..(n - 1) : queue'[i] = queue[i + 1] /\ i + 1 \in DOMAIN queue
  BY <1>3, <1>5, <1>7, <1>17
<1>19. \A i \in 1..(n - 1) : ~queue'[i].first
  <2> SUFFICES ASSUME NEW i \in 1..(n - 1), queue'[i].first PROVE FALSE
    OBVIOUS
  <2>1. queue[i + 1].first /\ i + 1 \in DOMAIN queue
    BY <1>18
  <2>2. i + 1 = 1
    BY <1>1, <2>1 DEF Joined, QueueInv
  <2> QED
    BY <1>5, <2>2
<1> DEFINE new == [i \in 1..(n - 1) |-> at[i + 1]]
<1>20. \A i \in 1..(n - 1) : new[i] = at[i + 1]
  OBVIOUS
<1>21. new \in [1..(n - 1) -> DOMAIN sent]
  BY <1>3, <1>18
<1> HIDE DEF new
<1>22. \A i, j \in DOMAIN queue : i < j => at[i] < at[j]
  BY <1>2 DEF Located
<1>23. ASSUME NEW i \in 1..(n - 1)
       PROVE  /\ new[i] \in place'..(place' + MaxDistance)
              /\ queue'[i].seq = NumberOf(new[i])' /\ queue'[i].payload = sent'[new[i]].payload
  <2>1. i + 1 \in DOMAIN queue /\ new[i] = at[i + 1] /\ queue'[i] = queue[i + 1] /\ 1 < i + 1
    BY <1>5, <1>18, <1>20
  <2>2. at[1] < at[i + 1]
    BY <1>6, <1>22, <2>1
  <2>3. at[i + 1] \in Nat /\ at[i + 1] <= place + MaxDistance
    BY <1>3, <2>1
  <2>4. new[i] \in place'..(place' + MaxDistance)
    BY <1>3, <1>8, <1>9, <1>14, <2>1, <2>2, <2>3
  <2>5. queue[i + 1].seq = NumberOf(at[i + 1]) /\ queue[i + 1].payload = sent[at[i + 1]].payload
    BY <1>2, <2>1 DEF Located
  <2> QED
    BY <1>15, <2>1, <2>4, <2>5
<1>24. ASSUME NEW i \in 1..(n - 1), NEW j \in 1..(n - 1), i < j PROVE new[i] < new[j]
  <2>1. i + 1 \in DOMAIN queue /\ j + 1 \in DOMAIN queue /\ i + 1 < j + 1
    BY <1>5, <1>18, <1>24
  <2> QED
    BY <1>20, <1>22, <2>1
<1>25. Located(new)' /\ new \in [DOMAIN queue' -> DOMAIN sent']
  BY <1>15, <1>18, <1>21, <1>23, <1>24 DEF Located
<1>26. QueueInv' /\ ~Fresh'
  <2>1. ~Fresh'
    <3> SUFFICES ASSUME queue' # <<>>, queue'[1].first PROVE FALSE
      BY DEF Fresh
    <3>1. 1 \in DOMAIN queue'
      BY <1>7, <1>17
    <3> QED
      BY <1>18, <1>19, <3>1
  <2> QED
    BY <1>18, <1>19, <1>25, <2>1 DEF QueueInv
<1> QED
  BY <1>7, <1>9, <1>10, <1>11, <1>12, <1>14, <1>15, <1>16, <1>26

\* What one who unpacks every packet has, before one of them.
LEMMA BeforeIs ==
  ASSUME SInv, NEW k \in 1..(Len(sent) + 1)
  PROVE  Before(k).frames \in Nat /\ Before(k).part \in Seq(Byte)
<1>1. CASE k = 1
  <2>1. Before(k) = [frames |-> 0, part |-> <<>>]
    BY <1>1 DEF Before
  <2>2. Before(k).frames = 0 /\ Before(k).part = <<>>
    BY <2>1
  <2> QED
    BY <2>2
<1>2. CASE k # 1
  <2>1. PICK R : R = [frames : Nat, part : Seq(Byte)]
    OBVIOUS
  <2>2. unpacked \in Seq(R) /\ Len(unpacked) = Len(sent) /\ Len(sent) \in Nat
    BY <2>1 DEF SInv, SenderTypeOK, PacketHistory, Unpacking
  <2>3. k - 1 \in 1..Len(unpacked)
    BY <1>2, <2>2
  <2>4. unpacked[k - 1] \in R
    BY ONLY <2>2, <2>3
  <2>5. Before(k) = unpacked[k - 1]
    BY <1>2 DEF Before
  <2> QED
    BY <2>1, <2>4, <2>5
<1> QED
  BY <1>1, <1>2

\* The frame of a certain number.
IsFrame(n, frame) == n \in DOMAIN frames /\ frames[n] = frame

\* What a packet adds to that.
LEMMA WhatAPacketAdds ==
  ASSUME SInv, NEW k \in DOMAIN sent, NEW p, p = sent[k].payload,
         NEW all, all = Before(k).part \o Data(p)
  PROVE  /\ k \in 1..(Len(sent) + 1) /\ k + 1 \in 1..(Len(sent) + 1)
         /\ Begins(p) <=> Before(k).part = <<>>
         /\ Completes(p) => /\ Before(k + 1).frames = Before(k).frames + 1
                            /\ Before(k + 1).part = <<>>
                            /\ IsFrame(Before(k).frames + 1, all)
         /\ ~Completes(p) => /\ Before(k + 1).frames = Before(k).frames
                             /\ Before(k + 1).part = all
         /\ all \in Seq(Byte)
<1>1. Len(sent) \in Nat /\ DOMAIN sent = 1..Len(sent)
  BY DEF SInv, SenderTypeOK
<1>2. k \in 1..(Len(sent) + 1) /\ k + 1 \in 1..(Len(sent) + 1) /\ k + 1 # 1 /\ (k + 1) - 1 = k
  BY <1>1
<1>3. Adds(k)
  BY DEF SInv, PacketHistory, Unpacking
<1>4. Before(k + 1) = unpacked[k]
  BY <1>2 DEF Before
<1>5. PICK n \in Nat : n = Before(k).frames
  BY <1>2, BeforeIs
<1>6. ASSUME Completes(p)
      PROVE  /\ Before(k + 1).frames = n + 1 /\ Before(k + 1).part = <<>>
             /\ IsFrame(n + 1, all)
  <2>1. unpacked[k] = [frames |-> n + 1, part |-> <<>>] /\ IsFrame(n + 1, all)
    BY <1>3, <1>5, <1>6 DEF Adds, IsFrame
  <2> QED
    BY <1>4, <2>1
<1>7. ASSUME ~Completes(p)
      PROVE  Before(k + 1).frames = n /\ Before(k + 1).part = all
  <2>1. PICK r : r = [frames |-> n, part |-> all]
    OBVIOUS
  <2>2. unpacked[k] = r
    BY <1>3, <1>5, <1>7, <2>1 DEF Adds
  <2>3. r.frames = n /\ r.part = all
    BY ONLY <2>1
  <2>4. Before(k + 1) = r
    BY <1>4, <2>2, Zenon
  <2> QED
    BY ONLY <2>3, <2>4
<1>8. Begins(p) <=> Before(k).part = <<>>
  BY <1>3 DEF Adds
<1>9. all \in Seq(Byte)
  <2>1. Data(p) \in Seq(Byte)
    BY SentFits, DataAreBytes
  <2>2. Before(k).part \in Seq(Byte)
    BY <1>2, BeforeIs
  <2> QED
    BY <2>1, <2>2, ConcatProperties
<1> QED
  BY <1>2, <1>5, <1>6, <1>7, <1>8, <1>9

\* A packet is used: what the client has of a frame afterwards.
LEMMA BytesInStep ==
  ASSUME SInv, NEW k \in DOMAIN sent, NEW p, p = sent[k].payload, NEW loss \in BOOLEAN,
         ~(~Begins(p) /\ (loss \/ fPacketLossInFragmentedFrame)),
         ~loss => k = place /\ (~fPacketLossInFragmentedFrame => to = Before(place).part)
  PROVE  Forget(p, loss) = Before(k).part
<1>1. Begins(p) <=> Before(k).part = <<>>
  BY WhatAPacketAdds
<1>2. CASE loss \/ fPacketLossInFragmentedFrame
  BY <1>1, <1>2 DEF Forget
<1>3. CASE ~(loss \/ fPacketLossInFragmentedFrame)
  BY <1>3 DEF Forget
<1> QED
  BY <1>2, <1>3

\* The frames the client got stay those of the frames that were sent.
LEMMA ChosenStays ==
  ASSUME ChosenInv, UNCHANGED <<delivered, frames>>, Before(place).frames \in Nat,
         Before(place').frames \in Nat, Before(place).frames <= Before(place').frames,
         \A m : Before(m)' = Before(m), ReceiverTypeOK, SInv
  PROVE  ChosenInv'
<1>1. PICK at \in [DOMAIN delivered -> DOMAIN frames] : Chosen(at)
  BY DEF ChosenInv
<1>2. PICK a \in Nat, b \in Nat : a = Before(place).frames /\ b = Before(place').frames /\ a <= b
  OBVIOUS
<1>3. Before(place)'.frames = b
  BY <1>2
<1>4. DOMAIN frames \subseteq Nat
  BY DEF SInv, SenderTypeOK
<1>5. \A i \in DOMAIN delivered : at[i] <= b
  <2> SUFFICES ASSUME NEW i \in DOMAIN delivered PROVE at[i] <= b
    OBVIOUS
  <2>1. at[i] \in Nat /\ at[i] <= a
    BY <1>1, <1>2, <1>4 DEF Chosen
  <2> QED
    BY <1>2, <2>1
<1>6. Chosen(at)'
  BY <1>1, <1>3, <1>5 DEF Chosen
<1> QED
  BY <1>1, <1>6 DEF ChosenInv

\* The frame that a packet completes is one more of them.
LEMMA ChosenGrows ==
  ASSUME ChosenInv, ReceiverTypeOK, SInv, UNCHANGED frames,
         NEW a \in Nat, a = Before(place).frames, NEW n \in Nat, a <= n,
         NEW bytes \in Seq(Byte), IsFrame(n + 1, bytes), delivered' = Append(delivered, bytes),
         Before(place)'.frames = n + 1
  PROVE  ChosenInv'
<1>1. PICK at \in [DOMAIN delivered -> DOMAIN frames] : Chosen(at)
  BY DEF ChosenInv
<1>2. DOMAIN frames \subseteq Nat
  BY DEF SInv, SenderTypeOK
<1>3. delivered \in Seq(Seq(Byte)) /\ Len(delivered) \in Nat /\ DOMAIN delivered = 1..Len(delivered)
  BY DEF ReceiverTypeOK
<1>4. PICK m \in Nat : m = Len(delivered)
  BY <1>3
<1>5. /\ Append(delivered, bytes) \in Seq(Seq(Byte)) /\ Len(Append(delivered, bytes)) = m + 1
      /\ \A i \in 1..m : Append(delivered, bytes)[i] = delivered[i]
      /\ Append(delivered, bytes)[m + 1] = bytes
  BY <1>3, <1>4, AppendProperties
<1>6. DOMAIN delivered' = 1..(m + 1)
  BY <1>5
<1> DEFINE new == [i \in 1..(m + 1) |-> IF i <= m THEN at[i] ELSE n + 1]
<1>7. /\ \A i \in 1..m : new[i] = at[i]
      /\ new[m + 1] = n + 1
  BY <1>4
<1>8. \A i \in 1..m : at[i] \in DOMAIN frames /\ at[i] \in Nat /\ at[i] <= a /\ delivered[i] = frames[at[i]]
  BY <1>1, <1>2, <1>3, <1>4 DEF Chosen
<1>9. n + 1 \in DOMAIN frames /\ frames[n + 1] = bytes
  BY DEF IsFrame
<1>10. \A i \in 1..(m + 1) : i \in 1..m \/ i = m + 1
  BY <1>4
<1>11. new \in [1..(m + 1) -> DOMAIN frames]
  <2>1. \A i \in 1..(m + 1) : (IF i <= m THEN at[i] ELSE n + 1) \in DOMAIN frames
    <3> SUFFICES ASSUME NEW i \in 1..(m + 1)
                 PROVE  (IF i <= m THEN at[i] ELSE n + 1) \in DOMAIN frames
      OBVIOUS
    <3>1. CASE i <= m
      <4>1. i \in 1..m
        BY <1>4, <3>1
      <4> QED
        BY <1>8, <3>1, <4>1
    <3>2. CASE ~(i <= m)
      BY <1>9, <3>2
    <3> QED
      BY <3>1, <3>2
  <2> QED
    BY <2>1
<1> HIDE DEF new
<1>12. \A i, j \in 1..(m + 1) : i < j => new[i] < new[j]
  <2> SUFFICES ASSUME NEW i \in 1..(m + 1), NEW j \in 1..(m + 1), i < j PROVE new[i] < new[j]
    OBVIOUS
  <2>1. i \in 1..m
    BY <1>4
  <2>2. CASE j \in 1..m
    BY <1>1, <1>3, <1>4, <1>7, <2>1, <2>2 DEF Chosen
  <2>3. CASE j = m + 1
    BY <1>7, <1>8, <2>1, <2>3
  <2> QED
    BY <1>10, <2>2, <2>3
<1>13. \A i \in 1..(m + 1) : new[i] <= n + 1
  <2> SUFFICES ASSUME NEW i \in 1..(m + 1) PROVE new[i] <= n + 1
    OBVIOUS
  <2>1. CASE i \in 1..m
    BY <1>7, <1>8, <2>1
  <2>2. CASE i = m + 1
    BY <1>7, <2>2
  <2> QED
    BY <1>10, <2>1, <2>2
<1>14. \A i \in 1..(m + 1) : delivered'[i] = frames'[new[i]]
  <2> SUFFICES ASSUME NEW i \in 1..(m + 1) PROVE delivered'[i] = frames[new[i]]
    OBVIOUS
  <2>1. CASE i \in 1..m
    <3>1. delivered'[i] = delivered[i]
      BY <1>5, <2>1
    <3> QED
      BY <1>7, <1>8, <2>1, <3>1
  <2>2. CASE i = m + 1
    <3>1. delivered'[m + 1] = bytes
      BY <1>5
    <3> QED
      BY <1>7, <1>9, <2>2, <3>1
  <2> QED
    BY <1>10, <2>1, <2>2
<1>15. Chosen(new)'
  BY <1>6, <1>11, <1>12, <1>13, <1>14 DEF Chosen
<1> QED
  BY <1>6, <1>11, <1>15 DEF ChosenInv

\* A packet was used, the k-th, and not a frame of other bytes.
LEMMA UsedInStep ==
  ASSUME SInv, ReceiverTypeOK, ChosenInv, fNeedDelivery, UNCHANGED senderVars,
         NEW k \in DOMAIN sent, place \in 1..(Len(sent) + 1), place <= k, place' = k + 1,
         NEW loss \in BOOLEAN, UsePacket(loss),
         NEW p, p = sent[k].payload, Head(queue).payload = p,
         NEW useless, useless = (~Begins(p) /\ (loss \/ fPacketLossInFragmentedFrame)),
         ~loss => k = place /\ (~fPacketLossInFragmentedFrame => to = Before(place).part),
         ~skipped' => k = place /\ MissedNone /\ ~useless
  PROVE  ChosenInv' /\ InStep' /\ (looping' => fNeedDelivery')
<1>1. UNCHANGED frames /\ \A m : Before(m)' = Before(m)
  BY SenderAtRest
<1>2. PICK all : all = Before(k).part \o Data(p)
  OBVIOUS
<1>3. /\ k \in 1..(Len(sent) + 1) /\ k + 1 \in 1..(Len(sent) + 1)
      /\ all \in Seq(Byte)
  BY <1>2, WhatAPacketAdds
<1>4. PICK n \in Nat : n = Before(k).frames
  BY <1>3, BeforeIs
<1>5. PICK a \in Nat : a = Before(place).frames
  BY BeforeIs
<1>6. PICK b \in Nat : b = Before(k + 1).frames
  BY <1>3, BeforeIs
<1>7. a <= n /\ n <= b
  <2>1. \A i, j \in 1..(Len(sent) + 1) : i <= j => Before(i).frames <= Before(j).frames
    BY DEF SInv, PacketHistory, Unpacking
  <2>2. k <= k + 1
    BY <1>3
  <2> QED
    BY <1>3, <1>4, <1>5, <1>6, <2>1, <2>2
<1>8. Before(place)' = Before(k + 1)
  <2>1. PICK m : m = k + 1
    OBVIOUS
  <2>2. Before(place)' = Before(m)'
    BY <2>1 DEF Before
  <2> QED
    BY <1>1, <2>1, <2>2
<1>9. fPacketLossInFragmentedFrame' = useless
  BY DEF UsePacket
<1>10. CASE useless
  <2>1. UNCHANGED <<to, delivered, fNeedDelivery, looping>>
    BY <1>10 DEF UsePacket
  <2>2. Before(place').frames = b /\ a <= b
    BY <1>4, <1>5, <1>6, <1>7
  <2>3. ChosenInv'
    BY <1>1, <1>5, <2>1, <2>2, ChosenStays
  <2>4. InStep'
    BY <1>9, <1>10, <2>1 DEF InStep
  <2> QED
    BY <2>1, <2>3, <2>4
<1>11. CASE ~useless
  <2>1. PICK bytes : bytes = Forget(p, loss) \o Data(p)
    OBVIOUS
  <2>2. Forget(p, loss) = Before(k).part
    BY <1>11, BytesInStep
  <2>3. bytes = all
    BY <1>2, <2>1, <2>2
  <2>4. ~fPacketLossInFragmentedFrame'
    BY <1>9, <1>11
  <2>5. CASE Completes(p)
    <3>1. /\ delivered' = Append(delivered, all)
          /\ fNeedDelivery' = FALSE /\ looping' = FALSE
      BY <1>11, <2>1, <2>3, <2>5 DEF UsePacket
    <3>2. b = n + 1 /\ Before(k + 1).part = <<>> /\ IsFrame(n + 1, all)
      BY <1>2, <1>4, <1>6, <2>5, WhatAPacketAdds
    <3>3. Before(place)'.frames = n + 1 /\ Before(place)'.part = <<>>
      BY <1>6, <1>8, <3>2
    <3>4. ChosenInv'
      BY <1>1, <1>3, <1>4, <1>5, <1>7, <3>1, <3>2, <3>3, ChosenGrows
    <3>5. ~skipped' => MissedNone'
      <4> SUFFICES ASSUME ~skipped' PROVE MissedNone'
        OBVIOUS
      <4>1. k = place /\ MissedNone
        OBVIOUS
      <4>2. Len(delivered) = n
        BY <1>4, <4>1 DEF MissedNone
      <4>3. delivered \in Seq(Seq(Byte)) /\ DOMAIN delivered = 1..n
        BY <4>2 DEF ReceiverTypeOK
      <4>4. \A i \in 1..n : delivered[i] = frames[i]
        BY <4>1, <4>3 DEF MissedNone
      <4>5. frames[n + 1] = all
        BY <3>2 DEF IsFrame
      <4>6. /\ Append(delivered, all) \in Seq(Seq(Byte)) /\ Len(Append(delivered, all)) = n + 1
            /\ \A i \in 1..n : Append(delivered, all)[i] = delivered[i]
            /\ Append(delivered, all)[n + 1] = all
        BY <1>3, <4>2, <4>3, AppendProperties
      <4>7. \A i \in 1..(n + 1) : i \in 1..n \/ i = n + 1
        BY <1>4
      <4>8. \A i \in 1..(n + 1) : Append(delivered, all)[i] = frames[i]
        BY <4>4, <4>5, <4>6, <4>7
      <4>9. DOMAIN Append(delivered, all) = 1..(n + 1)
        BY <4>6
      <4> QED
        BY <1>1, <3>1, <3>3, <4>6, <4>8, <4>9 DEF MissedNone
    <3>6. InStep'
      BY <2>4, <3>1, <3>3, <3>5 DEF InStep
    <3> QED
      BY <3>1, <3>4, <3>6
  <2>6. CASE ~Completes(p)
    <3>1. to' = all /\ UNCHANGED <<delivered, fNeedDelivery, looping>>
      BY <1>11, <2>1, <2>3, <2>6 DEF UsePacket
    <3>2. b = n /\ Before(k + 1).part = all
      BY <1>2, <1>4, <1>6, <2>6, WhatAPacketAdds
    <3>3. Before(place').frames = b /\ a <= b
      BY <1>6, <1>7
    <3>4. ChosenInv'
      BY <1>1, <1>5, <3>1, <3>3, ChosenStays
    <3>5. Before(place)'.frames = n /\ Before(place)'.part = all
      BY <1>6, <1>8, <3>2
    <3>6. ~skipped' => MissedNone'
      BY <1>1, <1>4, <3>1, <3>5 DEF MissedNone
    <3>7. InStep'
      BY <2>4, <3>1, <3>5, <3>6 DEF InStep
    <3> QED
      BY <3>1, <3>4, <3>7
  <2> QED
    BY <2>5, <2>6
<1> QED
  BY <1>10, <1>11

LEMMA UsePacketKeeps ==
  ASSUME IInv, NEW loss \in BOOLEAN, looping, queue # <<>>, UsePacket(loss)
  PROVE  /\ fHaveSeenFirstPacket' \in BOOLEAN
         /\ fNextExpectedSeqNo' \in 0..(SeqModulus - 1)
         /\ queue' \in Seq(SoundPacket)
         /\ fNeedDelivery' \in BOOLEAN
         /\ fPacketLossInFragmentedFrame' \in BOOLEAN
         /\ to' \in Seq(Byte)
         /\ looping' \in BOOLEAN
         /\ place' \in Nat \ {0}
         /\ delivered' \in Seq(Seq(Byte))
<1>1. PICK head, payload : head = Head(queue) /\ payload = head.payload
  OBVIOUS
<1>2. ReceiverTypeOK /\ queue \in Seq(SoundPacket)
  BY DEF IInv, ReceiverTypeOK
<1>3. head \in SoundPacket /\ Tail(queue) \in Seq(SoundPacket)
  BY <1>1, <1>2, HeadTailProperties
<1>4. head.seq \in 0..(SeqModulus - 1) /\ Fits(payload)
  BY <1>1, <1>3 DEF SoundPacket, StoredPacket
<1>5. SeqModulus \in Nat \ {0}
  BY PacketizerAssumption
<1>6. PICK useless : useless = (~Begins(payload) /\ (loss \/ fPacketLossInFragmentedFrame))
  OBVIOUS
<1>7. PICK bytes : bytes = Forget(payload, loss) \o Data(payload)
  OBVIOUS
<1>8. bytes \in Seq(Byte)
  <2>1. Forget(payload, loss) \in Seq(Byte)
    BY <1>2 DEF Forget, ReceiverTypeOK
  <2>2. Data(payload) \in Seq(Byte)
    BY <1>4, DataAreBytes
  <2> QED
    BY <1>7, <2>1, <2>2, ConcatProperties
<1>9. /\ queue' = Tail(queue)
      /\ fNextExpectedSeqNo' = (head.seq + 1) % SeqModulus
      /\ fPacketLossInFragmentedFrame' = useless
      /\ fHaveSeenFirstPacket' = fHaveSeenFirstPacket
      /\ IF useless
           THEN UNCHANGED <<to, delivered, fNeedDelivery, looping>>
           ELSE IF Completes(payload)
             THEN /\ delivered' = Append(delivered, bytes)
                  /\ fNeedDelivery' = FALSE /\ looping' = FALSE
                  /\ UNCHANGED to
             ELSE /\ to' = bytes
                  /\ UNCHANGED <<delivered, fNeedDelivery, looping>>
  BY <1>1, <1>6, <1>7 DEF UsePacket
<1>10. fNextExpectedSeqNo' \in 0..(SeqModulus - 1)
  BY <1>4, <1>5, <1>9
<1>11. useless \in BOOLEAN
  BY <1>6
<1>12. Append(delivered, bytes) \in Seq(Seq(Byte))
  BY <1>2, <1>8, AppendProperties DEF ReceiverTypeOK
<1>13. place' \in Nat \ {0}
  <2>1. place' = place + 1 + ((head.seq - fNextExpectedSeqNo) % SeqModulus)
    BY <1>1 DEF UsePacket
  <2>2. (head.seq - fNextExpectedSeqNo) % SeqModulus \in 0..(SeqModulus - 1)
    BY <1>2, <1>4, <1>5 DEF ReceiverTypeOK
  <2>3. PICK d \in 0..(SeqModulus - 1) : d = (head.seq - fNextExpectedSeqNo) % SeqModulus
    BY <2>2
  <2>4. place' = place + 1 + d /\ place \in Nat \ {0}
    BY <1>2, <2>1, <2>3 DEF ReceiverTypeOK
  <2> QED
    BY <1>5, <2>4
<1> QED
  BY <1>2, <1>3, <1>8, <1>9, <1>10, <1>11, <1>12, <1>13 DEF ReceiverTypeOK

\* The head is the packet expected.
LEMMA UseExpectedKeeps ==
  ASSUME IInv, UseExpected, UNCHANGED senderVars
  PROVE  RInv'
<1>1. /\ looping /\ queue # <<>> /\ Head(queue).seq = fNextExpectedSeqNo
      /\ UsePacket(Head(queue).first) /\ UNCHANGED skipped
  BY DEF UseExpected
<1>2. /\ SInv /\ ReceiverTypeOK /\ ChosenInv /\ place \in 1..(Len(sent) + 1)
      /\ fNeedDelivery /\ fHaveSeenFirstPacket /\ Joined
  BY <1>1 DEF IInv, RInv, NotJoined
<1>3. PICK loss : loss = Head(queue).first
  OBVIOUS
<1>4. queue \in Seq(SoundPacket)
  BY <1>2 DEF ReceiverTypeOK
<1>5. loss \in BOOLEAN /\ Head(queue) = queue[1] /\ 1 \in DOMAIN queue
  BY <1>1, <1>3, <1>4, HeadTailProperties DEF SoundPacket, StoredPacket
<1>6. UsePacket(loss)
  BY <1>1, <1>3
<1>7. PICK k \in DOMAIN sent :
        /\ place <= k /\ place' = k + 1 /\ k + 1 \in 1..(Len(sent) + 1)
        /\ Head(queue).payload = sent[k].payload
        /\ Head(queue).seq = fNextExpectedSeqNo <=> k = place
        /\ fNextExpectedSeqNo' = NumberOf(k + 1)'
        /\ QueueInv' /\ ~Fresh'
  BY <1>1, <1>6, HeadMoves
<1>8. k = place
  BY <1>1, <1>7
<1>9. PICK p : p = sent[k].payload
  OBVIOUS
<1>10. PICK useless : useless = (~Begins(p) /\ (loss \/ fPacketLossInFragmentedFrame))
  OBVIOUS
<1>11. Fresh <=> loss
  BY <1>1, <1>3, <1>5 DEF Fresh
<1>12. IF loss THEN BeforeTheFirst ELSE InStep
  BY <1>2, <1>11 DEF Joined
<1>13. ~loss => (~fPacketLossInFragmentedFrame => to = Before(place).part)
  BY <1>2, <1>12 DEF InStep
<1>14. ASSUME ~skipped' PROVE MissedNone /\ ~useless
  <2>1. ~skipped
    BY <1>1, <1>14
  <2>2. CASE ~loss
    BY <1>10, <1>12, <2>1, <2>2 DEF InStep
  <2>3. CASE loss
    <3>1. delivered = <<>> /\ place = 1
      BY <1>12, <2>1, <2>3 DEF BeforeTheFirst
    <3>2. Before(place) = [frames |-> 0, part |-> <<>>]
      BY <3>1 DEF Before
    <3>3. Before(place).frames = 0 /\ Before(place).part = <<>>
      BY <3>2
    <3>4. Begins(p)
      BY <1>2, <1>8, <1>9, <3>3, WhatAPacketAdds
    <3>5. MissedNone
      BY <3>1, <3>3 DEF MissedNone
    <3> QED
      BY <1>10, <3>4, <3>5
  <2> QED
    BY <2>2, <2>3
<1>15. ChosenInv' /\ InStep' /\ (looping' => fNeedDelivery')
  BY <1>2, <1>5, <1>6, <1>7, <1>8, <1>9, <1>10, <1>13, <1>14, UsedInStep
<1>16. fHaveSeenFirstPacket'
  BY <1>2, <1>6 DEF UsePacket
<1>17. UNCHANGED sent /\ fNextExpectedSeqNo' = NumberOf(place)'
  <2>1. PICK m : m = k + 1
    OBVIOUS
  <2>2. NumberOf(m)' = NumberOf(place)'
    BY <1>7, <2>1 DEF NumberOf
  <2> QED
    BY <1>7, <2>1, <2>2, SenderAtRest
<1>18. Joined'
  BY <1>7, <1>15, <1>17 DEF Joined
<1> QED
  BY <1>7, <1>15, <1>16, <1>17, <1>18 DEF RInv

\* It is not: the packets before it are given up.
LEMMA GiveUpKeeps ==
  ASSUME IInv, GiveUp, UNCHANGED senderVars
  PROVE  RInv'
<1>1. /\ looping /\ queue # <<>> /\ Head(queue).seq # fNextExpectedSeqNo
      /\ UsePacket(TRUE) /\ skipped' = TRUE
  BY DEF GiveUp
<1>2. /\ SInv /\ ReceiverTypeOK /\ ChosenInv /\ place \in 1..(Len(sent) + 1)
      /\ fNeedDelivery /\ fHaveSeenFirstPacket
  BY <1>1 DEF IInv, RInv, NotJoined
<1>3. PICK k \in DOMAIN sent :
        /\ place <= k /\ place' = k + 1 /\ k + 1 \in 1..(Len(sent) + 1)
        /\ Head(queue).payload = sent[k].payload
        /\ fNextExpectedSeqNo' = NumberOf(k + 1)'
        /\ QueueInv' /\ ~Fresh'
  BY <1>1, HeadMoves
<1>4. PICK p : p = sent[k].payload
  OBVIOUS
<1>5. PICK useless : useless = (~Begins(p) /\ (TRUE \/ fPacketLossInFragmentedFrame))
  OBVIOUS
<1>6. ChosenInv' /\ InStep' /\ (looping' => fNeedDelivery')
  BY <1>1, <1>2, <1>3, <1>4, <1>5, UsedInStep
<1>7. fHaveSeenFirstPacket'
  BY <1>1, <1>2 DEF UsePacket
<1>8. UNCHANGED sent /\ fNextExpectedSeqNo' = NumberOf(place)'
  <2>1. PICK m : m = k + 1
    OBVIOUS
  <2>2. NumberOf(m)' = NumberOf(place)'
    BY <1>3, <2>1 DEF NumberOf
  <2> QED
    BY <1>3, <2>1, <2>2, SenderAtRest
<1>9. Joined'
  BY <1>3, <1>6, <1>8 DEF Joined
<1> QED
  BY <1>3, <1>6, <1>7, <1>8, <1>9 DEF RInv

-----------------------------------------------------------------------------
(* The steps in which no packet comes or goes *)

\* The queue is left alone, and no packet is taken back.
LEMMA QueueStays ==
  ASSUME SInv, QueueInv, HistoryKept, UNCHANGED <<queue, place, fNextExpectedSeqNo>>,
         Len(sent') \in Nat, DOMAIN sent' = 1..Len(sent')
  PROVE  QueueInv'
<1>1. PICK at \in [DOMAIN queue -> DOMAIN sent] : Located(at)
  BY DEF QueueInv
<1>2. /\ \A k \in DOMAIN sent : k \in DOMAIN sent' /\ sent'[k] = sent[k]
      /\ \A k \in DOMAIN sent : NumberOf(k)' = NumberOf(k)
  <2>1. DOMAIN sent = 1..Len(sent) /\ Len(sent) \in Nat
    BY DEF SInv, SenderTypeOK
  <2> QED
    BY <2>1 DEF HistoryKept
<1>3. at \in [DOMAIN queue' -> DOMAIN sent']
  BY <1>2
<1>4. \A i \in DOMAIN queue : NumberOf(at[i])' = NumberOf(at[i]) /\ sent'[at[i]] = sent[at[i]]
  BY <1>2 DEF NumberOf
<1>5. Located(at)'
  BY <1>1, <1>3, <1>4 DEF Located
<1> QED
  BY <1>3, <1>5 DEF QueueInv

\* The sender does something.
LEMMA SendersStepKeeps ==
  ASSUME SInv, RInv, HistoryKept, SInv', UNCHANGED receiverVars
  PROVE  RInv'
<1>1. /\ UNCHANGED <<fHaveSeenFirstPacket, fNextExpectedSeqNo, queue, fNeedDelivery,
                     fPacketLossInFragmentedFrame, to, looping, place, delivered, skipped>>
  BY DEF receiverVars, bufferVars
<1>2. /\ Len(sent) \in Nat /\ DOMAIN sent = 1..Len(sent)
      /\ Len(sent') \in Nat /\ DOMAIN sent' = 1..Len(sent')
  BY DEF SInv, SenderTypeOK
<1>3. place \in 1..(Len(sent) + 1)
  BY DEF RInv
<1>4. place' \in 1..(Len(sent') + 1)
  BY <1>1, <1>2, <1>3 DEF HistoryKept
<1>5. NumberOf(place)' = NumberOf(place) /\ Before(place)' = Before(place)
  <2>1. PICK m \in 1..(Len(sent) + 1) : m = place
    BY <1>3
  <2>2. NumberOf(m)' = NumberOf(m) /\ Before(m)' = Before(m)
    BY DEF HistoryKept
  <2>3. NumberOf(place)' = NumberOf(m)' /\ Before(place)' = Before(m)'
    BY <1>1, <2>1 DEF NumberOf, Before
  <2> QED
    BY <2>1, <2>2, <2>3
<1>6. \A n \in DOMAIN frames : n \in DOMAIN frames' /\ frames'[n] = frames[n]
  BY DEF HistoryKept
<1>7. ChosenInv'
  <2>1. PICK at \in [DOMAIN delivered -> DOMAIN frames] : Chosen(at)
    BY DEF RInv, ChosenInv
  <2>2. at \in [DOMAIN delivered' -> DOMAIN frames']
    BY <1>1, <1>6
  <2>3. Chosen(at)'
    BY <1>1, <1>5, <1>6, <2>1, <2>2 DEF Chosen
  <2> QED
    BY <2>2, <2>3 DEF ChosenInv
<1>8. MissedNone /\ ChosenInv => MissedNone'
  <2> SUFFICES ASSUME MissedNone, ChosenInv PROVE MissedNone'
    OBVIOUS
  <2>1. PICK at \in [DOMAIN delivered -> DOMAIN frames] : Chosen(at)
    BY DEF ChosenInv
  <2>2. Before(Len(sent) + 1) = [frames |-> Len(frames), part |-> part]
    BY DEF SInv, PacketHistory, Unpacking
  <2>3. Before(Len(sent) + 1).frames = Len(frames)
    BY ONLY <2>2
  <2>4. \A i, j \in 1..(Len(sent) + 1) : i <= j => Before(i).frames <= Before(j).frames
    BY DEF SInv, PacketHistory, Unpacking
  <2>5. Before(place).frames <= Len(frames)
    BY <1>2, <1>3, <2>3, <2>4
  <2> QED
    BY <1>1, <1>5, <1>6, <2>5 DEF MissedNone
<1>9. CASE ~fHaveSeenFirstPacket
  BY <1>1, <1>4, <1>7, <1>9 DEF RInv, NotJoined
<1>10. CASE fHaveSeenFirstPacket
  <2>1. Joined /\ ChosenInv
    BY <1>10 DEF RInv
  <2>2. QueueInv'
    BY <1>1, <1>2, <2>1, QueueStays DEF Joined
  <2>3. Fresh' <=> Fresh
    BY <1>1 DEF Fresh
  <2>4. BeforeTheFirst => BeforeTheFirst'
    BY <1>1 DEF BeforeTheFirst
  <2>5. InStep => InStep'
    BY <1>1, <1>5, <1>8, <2>1 DEF InStep
  <2>6. Joined'
    BY <1>1, <1>5, <2>1, <2>2, <2>3, <2>4, <2>5 DEF Joined
  <2> QED
    BY <1>1, <1>4, <1>7, <1>10, <2>6 DEF RInv
<1> QED
  BY <1>9, <1>10

\* The client waits, or asks for the next frame.
LEMMA WaitOrAskKeeps ==
  ASSUME IInv, Break \/ DoGetNextFrame, UNCHANGED senderVars
  PROVE  RInv'
<1>1. UNCHANGED <<fHaveSeenFirstPacket, fNextExpectedSeqNo, queue,
                  fPacketLossInFragmentedFrame, place, delivered, skipped>>
  BY DEF Break, DoGetNextFrame, bufferVars
<1>2. SInv /\ RInv
  BY DEF IInv
<1>3. UNCHANGED <<sent, frames>> /\ \A k : NumberOf(k)' = NumberOf(k) /\ Before(k)' = Before(k)
  BY SenderAtRest
<1>4. NumberOf(place)' = NumberOf(place) /\ Before(place)' = Before(place)
  <2>1. PICK m : m = place
    OBVIOUS
  <2>2. NumberOf(place)' = NumberOf(m)' /\ Before(place)' = Before(m)'
    BY <1>1, <2>1 DEF NumberOf, Before
  <2> QED
    BY <1>3, <2>1, <2>2
<1>5. ChosenInv' /\ (MissedNone => MissedNone')
  <2>1. PICK at \in [DOMAIN delivered -> DOMAIN frames] : Chosen(at)
    BY <1>2 DEF RInv, ChosenInv
  <2>2. Chosen(at)'
    BY <1>1, <1>3, <1>4, <2>1 DEF Chosen
  <2> QED
    BY <1>1, <1>3, <1>4, <2>1, <2>2 DEF ChosenInv, MissedNone
<1>6. QueueInv => QueueInv'
  <2> SUFFICES ASSUME NEW at \in [DOMAIN queue -> DOMAIN sent], Located(at)
               PROVE  Located(at)'
    BY <1>1, <1>3 DEF QueueInv
  <2>1. \A i \in DOMAIN queue : NumberOf(at[i])' = NumberOf(at[i])
    BY <1>3 DEF NumberOf
  <2> QED
    BY <1>1, <1>3, <2>1 DEF Located
<1>7. Fresh' <=> Fresh
  BY <1>1 DEF Fresh
<1>8. place' \in 1..(Len(sent') + 1)
  BY <1>1, <1>2, <1>3 DEF RInv
<1>9. CASE Break
  <2>1. looping' = FALSE /\ UNCHANGED <<fNeedDelivery, to>> /\ looping
    BY <1>9 DEF Break
  <2>2. fHaveSeenFirstPacket /\ Joined
    BY <1>2, <2>1 DEF RInv, NotJoined
  <2>3. BeforeTheFirst => BeforeTheFirst'
    BY <1>1, <2>1 DEF BeforeTheFirst
  <2>4. InStep => InStep'
    BY <1>1, <1>4, <1>5, <2>1 DEF InStep
  <2>5. Joined'
    BY <1>1, <1>4, <1>6, <1>7, <2>2, <2>3, <2>4 DEF Joined
  <2> QED
    BY <1>1, <1>5, <1>8, <2>1, <2>2, <2>5 DEF RInv
<1>10. CASE DoGetNextFrame
  <2>1. ~fNeedDelivery /\ fNeedDelivery' = TRUE /\ to' = <<>> /\ looping' = TRUE
    BY <1>10 DEF DoGetNextFrame
  <2>2. fHaveSeenFirstPacket /\ Joined
    BY <1>2, <2>1 DEF RInv, NotJoined
  <2>3. ~Fresh /\ InStep
    BY <2>1, <2>2 DEF Joined, BeforeTheFirst
  <2>4. InStep'
    BY <1>1, <1>4, <1>5, <2>1, <2>3 DEF InStep
  <2>5. Joined'
    BY <1>1, <1>4, <1>6, <1>7, <2>2, <2>3, <2>4 DEF Joined
  <2> QED
    BY <1>1, <1>5, <1>8, <2>1, <2>2, <2>5 DEF RInv
<1> QED
  BY <1>9, <1>10

\* The receiver's part of the inductive invariant.
LEMMA RInvKeeps == IInv /\ [Next]_vars => RInv'
<1> SUFFICES ASSUME IInv, [Next]_vars PROVE RInv'
  OBVIOUS
<1>1. SInv /\ RInv /\ SInv' /\ HistoryKept
  BY SenderKeeps DEF IInv
<1>2. CASE UNCHANGED receiverVars
  BY <1>1, <1>2, SendersStepKeeps
<1>3. CASE ReceiverStep /\ UNCHANGED senderVars
  <2>1. ASSUME NEW k \in DOMAIN sent, NetworkReadHandler(k) PROVE RInv'
    BY <1>3, <2>1, FirstPacketJoins, LaterPacketKeeps
  <2>2. CASE UseExpected
    BY <1>3, <2>2, UseExpectedKeeps
  <2>3. CASE GiveUp
    BY <1>3, <2>3, GiveUpKeeps
  <2>4. CASE Break \/ DoGetNextFrame
    BY <1>3, <2>4, WaitOrAskKeeps
  <2> QED
    BY <1>3, <2>1, <2>2, <2>3, <2>4 DEF ReceiverStep
<1> QED
  BY <1>2, <1>3 DEF Next, vars

LEMMA ReceiverKeeps == IInv /\ [Next]_vars => ReceiverTypeOK'
<1> SUFFICES ASSUME IInv, [Next]_vars PROVE ReceiverTypeOK'
  OBVIOUS
<1>1. ASSUME NEW k \in DOMAIN sent, NetworkReadHandler(k) PROVE ReceiverTypeOK'
  BY <1>1, NetworkReadHandlerKeeps
<1>2. CASE UseExpected
  <2>1. /\ looping /\ queue # <<>> /\ skipped' = skipped /\ queue \in Seq(SoundPacket)
        /\ UsePacket(Head(queue).first)
    BY <1>2 DEF UseExpected, IInv, ReceiverTypeOK
  <2>2. Head(queue).first \in BOOLEAN
    BY <2>1, HeadTailProperties DEF SoundPacket, StoredPacket
  <2> QED
    BY <2>1, <2>2, UsePacketKeeps DEF IInv, ReceiverTypeOK
<1>3. CASE GiveUp
  <2>1. looping /\ queue # <<>> /\ skipped' = TRUE /\ UsePacket(TRUE)
    BY <1>3 DEF GiveUp
  <2> QED
    BY <2>1, UsePacketKeeps DEF ReceiverTypeOK
<1>4. CASE Break
  BY <1>4 DEF Break, IInv, ReceiverTypeOK, bufferVars
<1>5. CASE DoGetNextFrame
  BY <1>5 DEF DoGetNextFrame, IInv, ReceiverTypeOK, bufferVars
<1>6. CASE UNCHANGED receiverVars
  BY <1>6 DEF IInv, ReceiverTypeOK, receiverVars, bufferVars
<1> QED
  BY <1>1, <1>2, <1>3, <1>4, <1>5, <1>6 DEF Next, ReceiverStep, vars

-----------------------------------------------------------------------------
(* The theorems *)

\* The inductive invariant holds.
THEOREM StreamInvariant == Spec => []IInv
<1>1. Init => IInv
  <2> SUFFICES ASSUME Init PROVE IInv
    OBVIOUS
  <2>1. SInv
    BY InitSInv DEF Init
  <2>2. 0 \in 0..(SeqModulus - 1) /\ 1 \in Nat \ {0}
    BY PacketizerAssumption
  <2>3. <<>> \in Seq(SoundPacket) /\ <<>> \in Seq(Byte) /\ <<>> \in Seq(Seq(Byte))
    OBVIOUS
  <2>4. ReceiverTypeOK
    BY <2>2, <2>3 DEF Init, ReceiverInit, ReceiverTypeOK
  <2>5. Len(sent) \in Nat
    BY <2>1 DEF SInv, SenderTypeOK
  <2>6. /\ ~fHaveSeenFirstPacket /\ queue = <<>> /\ delivered = <<>> /\ fNeedDelivery
        /\ ~looping /\ ~skipped /\ place = 1
    BY DEF Init, ReceiverInit
  <2>7. RInv
    BY <2>5, <2>6, NothingChosen DEF RInv, NotJoined
  <2> QED
    BY <2>1, <2>4, <2>7 DEF IInv
<1>2. IInv /\ [Next]_vars => IInv'
  BY SenderKeeps, ReceiverKeeps, RInvKeeps DEF IInv
<1> QED
  BY <1>1, <1>2, PTL DEF Spec

\* All variables keep their types; in particular every packet that is stored
\* can be unpacked.
THEOREM TypeCorrect == Spec => []TypeOK
<1>1. IInv => TypeOK
  <2> SUFFICES ASSUME IInv PROVE TypeOK
    OBVIOUS
  <2>1. Seq(SoundPacket) \subseteq Seq(StoredPacket)
    BY DEF SoundPacket
  <2> QED
    BY <2>1 DEF IInv, SInv, ReceiverTypeOK, TypeOK
<1> QED
  BY <1>1, StreamInvariant, PTL

\* The packets, unpacked in order, give the NAL units that were read.
THEOREM PacketsAreCarriers == Spec => []PacketsCarryTheNals
<1>1. IInv => PacketsCarryTheNals
  BY DEF IInv, SInv
<1> QED
  BY <1>1, StreamInvariant, PTL

\* The queue stays in order and none in it is behind the time: the numbers
\* tell the places, which are in order, as none is far from the one expected.
THEOREM QueueOrdered == Spec => []QueueInOrder
<1>1. IInv => QueueInOrder
  <2> SUFFICES ASSUME IInv PROVE QueueInOrder
    OBVIOUS
  <2>1. CASE ~fHaveSeenFirstPacket
    <3>1. DOMAIN queue = {}
      BY <2>1 DEF IInv, RInv, NotJoined
    <3> QED
      BY <3>1 DEF QueueInOrder
  <2>2. CASE fHaveSeenFirstPacket
    <3>1. /\ Joined /\ SInv /\ ReceiverTypeOK /\ place \in 1..(Len(sent) + 1)
      BY <2>2 DEF IInv, RInv
    <3>2. PICK at \in [DOMAIN queue -> DOMAIN sent] : Located(at)
      BY <3>1 DEF Joined, QueueInv
    <3>3. /\ Len(sent) \in Nat /\ DOMAIN sent = 1..Len(sent)
          /\ place \in Nat /\ MaxDistance \in Nat
          /\ \A i \in DOMAIN queue :
               /\ at[i] \in DOMAIN sent /\ at[i] \in Nat
               /\ place <= at[i] /\ at[i] <= place + MaxDistance
      BY <3>1, <3>2, PlacesAreNumbers
    <3>4. \A i \in DOMAIN queue : queue[i].seq = NumberOf(at[i])
      BY <3>2 DEF Located
    <3>5. ASSUME NEW i \in DOMAIN queue, NEW j \in DOMAIN queue, i < j
          PROVE  SeqNumLT(queue[i].seq, queue[j].seq)
      <4>1. at[i] < at[j]
        BY <3>2, <3>5 DEF Located
      <4>2. PICK a \in 1..(Len(sent) + 1), b \in 1..(Len(sent) + 1) : a = at[i] /\ b = at[j]
        BY <3>3
      <4>3. Near(a, b) /\ a < b
        BY <3>3, <4>1, <4>2 DEF Near
      <4>4. SeqNumLT(NumberOf(a), NumberOf(b))
        BY <3>1, <4>3, NumbersTell
      <4> QED
        BY <3>4, <4>2, <4>4
    <3>6. ASSUME NEW i \in DOMAIN queue PROVE ~SeqNumLT(queue[i].seq, fNextExpectedSeqNo)
      <4>1. PICK a \in 1..(Len(sent) + 1) : a = at[i]
        BY <3>3
      <4>2. Near(a, place) /\ ~(a < place)
        BY <3>3, <4>1 DEF Near
      <4>3. ~SeqNumLT(NumberOf(a), NumberOf(place))
        BY <3>1, <4>2, NumbersTell
      <4> QED
        BY <3>1, <3>4, <4>1, <4>3 DEF Joined
    <3> QED
      BY <3>5, <3>6 DEF QueueInOrder
  <2> QED
    BY <2>1, <2>2
<1> QED
  BY <1>1, StreamInvariant, PTL

\* Whatever was lost, late or repeated, the client gets whole NAL units, in
\* order; and it misses none that it did not give up.
THEOREM FramesWhole == Spec => []FramesAreNals
<1>1. IInv => FramesAreNals
  <2> SUFFICES ASSUME IInv PROVE FramesAreNals
    OBVIOUS
  <2>1. SInv /\ ReceiverTypeOK /\ RInv /\ ChosenInv
    BY DEF IInv, RInv
  <2>2. \E at \in [DOMAIN delivered -> DOMAIN frames] :
          /\ \A i, j \in DOMAIN delivered : i < j => at[i] < at[j]
          /\ \A i \in DOMAIN delivered : delivered[i] = frames[at[i]]
    BY <2>1 DEF ChosenInv, Chosen
  <2>3. frames \in Seq(Seq(Byte)) /\ delivered \in Seq(Seq(Byte))
    BY <2>1 DEF SInv, SenderTypeOK, ReceiverTypeOK
  <2>4. ASSUME ~skipped PROVE IsPrefix(delivered, frames)
    <3>1. CASE delivered = <<>>
      <4>1. Len(delivered) = 0 /\ DOMAIN delivered = {}
        BY <3>1
      <4>2. Len(delivered) <= Len(frames) /\ \A i \in DOMAIN delivered : delivered[i] = frames[i]
        BY <2>3, <4>1
      <4> QED
        BY <2>3, <4>2, ElementsTellPrefix
    <3>2. CASE delivered # <<>>
      <4>1. MissedNone /\ place \in 1..(Len(sent) + 1)
        BY <2>1, <2>4, <3>2 DEF RInv, NotJoined, Joined, BeforeTheFirst, InStep
      <4>2. Before(Len(sent) + 1) = [frames |-> Len(frames), part |-> part]
        BY <2>1 DEF SInv, PacketHistory, Unpacking
      <4>3. Before(Len(sent) + 1).frames = Len(frames)
        BY ONLY <4>2
      <4>4. \A i, j \in 1..(Len(sent) + 1) : i <= j => Before(i).frames <= Before(j).frames
        BY <2>1 DEF SInv, PacketHistory, Unpacking
      <4>5. Len(sent) \in Nat
        BY <2>1 DEF SInv, SenderTypeOK
      <4>6. Before(place).frames <= Len(frames)
        BY <4>1, <4>3, <4>4, <4>5
      <4> QED
        BY <2>3, <4>1, <4>6, ElementsTellPrefix DEF MissedNone
    <3> QED
      BY <3>1, <3>2
  <2> QED
    BY <2>2, <2>4 DEF FramesAreNals
<1> QED
  BY <1>1, StreamInvariant, PTL

\* No packet is too large for the sink, whatever the size of the NAL units.
THEOREM PacketsAlwaysFit == Spec => []PacketsFit
<1>1. IInv => PacketsFit
  BY DEF IInv, SInv
<1> QED
  BY <1>1, StreamInvariant, PTL

\* The marker is where an access unit ends.
THEOREM MarkerIsRight == Spec => MarkerEndsAccessUnit
<1>1. IInv /\ [Next]_vars => [MarkerStep]_senderVars
  BY SenderKeeps DEF IInv
<1> QED
  BY <1>1, StreamInvariant, PTL DEF Spec, MarkerEndsAccessUnit, MarkerStep

=============================================================================

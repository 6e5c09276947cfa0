------------------------- MODULE ByteStreams_proofs -------------------------
(***************************************************************************)
(* The two byte streams: the receive ring of the control board and the     *)
(* serial line from the autopilot.                                         *)
(*                                                                         *)
(* For every size of the ring, every byte width, every stream and every    *)
(* way of cutting it into segments and pbufs: the ring is never overrun,   *)
(* never scanned past its end, and while every segment fits its first      *)
(* pbuf, the packets handled do not depend on the cuts.  For every         *)
(* alphabet, every set of frames and whatever the line does to the bytes:  *)
(* what is returned is decodable with its time stamp, and no frame is lost *)
(* that was not itself disturbed.                                          *)
(***************************************************************************)
EXTENDS ReceiveRing, UartFraming, SequenceTheorems, WellFoundedInduction, TLAPS

-----------------------------------------------------------------------------
(* Induction without an operator: over a set of numbers.                   *)

LEMMA SmallestOf ==
    ASSUME NEW T \in SUBSET Nat, T # {}
    PROVE  \E x \in T : \A y \in T : x <= y
<1>1. IsWellFoundedOn(OpToRel(<, Nat), Nat)
  BY NatLessThanWellFounded
<1>2. PICK x \in T : \A y \in T : ~ (<<y, x>> \in OpToRel(<, Nat))
  BY <1>1, WFMin
<1>3. \A y \in T : ~(y < x)
  BY <1>2 DEF OpToRel
<1> QED BY <1>3

LEMMA SetInduction ==
    ASSUME NEW T, 0 \in T, \A n \in Nat : n \in T => n + 1 \in T
    PROVE  Nat \subseteq T
<1> SUFFICES ASSUME Nat \ T # {} PROVE FALSE
  OBVIOUS
<1>1. PICK x \in Nat \ T : \A y \in Nat \ T : x <= y
  BY SmallestOf
<1>2. x # 0 /\ x - 1 \in Nat
  BY <1>1
<1>3. x - 1 \in T
  BY <1>1, <1>2
<1> QED BY <1>3, <1>1

\* A part of a sequence by its beginning and its length.
LEMMA PartOf ==
    ASSUME NEW S, NEW s \in Seq(S), NEW k \in Nat \ {0}, NEW n \in Nat \ {0},
           k + n <= Len(s) + 1
    PROVE  /\ SubSeq(s, k, k + n - 1) \in Seq(S)
           /\ Len(SubSeq(s, k, k + n - 1)) = n
           /\ \A i \in 1..n : SubSeq(s, k, k + n - 1)[i] = s[k + i - 1]
<1> DEFINE L == Len(s)
           last == k + n - 1
<1>1. L \in Nat /\ k + n <= L + 1
  OBVIOUS
<1> HIDE DEF L
<1>2. k \in Int /\ last \in Int /\ k <= last /\ last - k + 1 = n
  BY <1>1
<1>3. \A i \in k..last : i \in 1..L
  BY <1>1
<1>4. \A i \in k..last : s[i] \in S
  BY <1>3 DEF L
<1> HIDE DEF last
<1>5. /\ SubSeq(s, k, last) \in Seq(S)
      /\ Len(SubSeq(s, k, last)) = IF k <= last THEN last - k + 1 ELSE 0
      /\ \A i \in 1..(last - k + 1) : SubSeq(s, k, last)[i] = s[k + i - 1]
  BY <1>2, <1>4, SubSeqProperties
<1> QED BY <1>2, <1>5 DEF last

\* Two sequences, one behind the other.
LEMMA Joined ==
    ASSUME NEW S, NEW s \in Seq(S), NEW t \in Seq(S)
    PROVE  /\ s \o t \in Seq(S)
           /\ Len(s \o t) = Len(s) + Len(t)
           /\ \A i \in 1..Len(s) : (s \o t)[i] = s[i]
           /\ \A i \in 1..Len(t) : (s \o t)[Len(s) + i] = t[i]
OBVIOUS

LEMMA Appended ==
    ASSUME NEW S, NEW s \in Seq(S), NEW x \in S
    PROVE  /\ Append(s, x) \in Seq(S)
           /\ Len(Append(s, x)) = Len(s) + 1
           /\ Append(s, x)[Len(s) + 1] = x
           /\ \A i \in 1..Len(s) : Append(s, x)[i] = s[i]
OBVIOUS

-----------------------------------------------------------------------------
(* The receive ring.                                                       *)

Slots == 0..(UIETHERNET_MAX_RECV - 1)

\* The modulo of the wrap-around, met only here.
LEMMA WrapOnce ==
    ASSUME NEW n \in Nat \ {0}, NEW j \in 0..(2 * n - 1)
    PROVE  j % n = IF j < n THEN j ELSE j - n
OBVIOUS

\* The size of the ring, apart from what is assumed of the other constants.
LEMMA RingSize == UIETHERNET_MAX_RECV \in Nat /\ UIETHERNET_MAX_RECV >= 4
BY RingAssumption

\* Where an index falls that has gone round the ring at most once.
LEMMA ModSlot ==
    ASSUME NEW j \in 0..(2 * UIETHERNET_MAX_RECV - 1)
    PROVE  /\ Mod(j) \in Slots
           /\ Mod(j) = IF j < UIETHERNET_MAX_RECV THEN j ELSE j - UIETHERNET_MAX_RECV
<1>1. Mod(j) = IF j < UIETHERNET_MAX_RECV THEN j ELSE j - UIETHERNET_MAX_RECV
  <2>1. UIETHERNET_MAX_RECV \in Nat \ {0}
    BY RingSize
  <2>2. j % UIETHERNET_MAX_RECV = IF j < UIETHERNET_MAX_RECV THEN j
                                  ELSE j - UIETHERNET_MAX_RECV
    BY <2>1, WrapOnce
  <2> QED BY <2>2 DEF Mod
<1> QED BY <1>1, RingSize DEF Slots

\* The same for the sum of an index and an offset.
LEMMA ModSum ==
    ASSUME NEW i \in Slots, NEW k \in Slots
    PROVE  Mod(i + k) = IF i + k < UIETHERNET_MAX_RECV THEN i + k
                        ELSE i + k - UIETHERNET_MAX_RECV
<1>1. i + k \in 0..(2 * UIETHERNET_MAX_RECV - 1)
  BY RingSize DEF Slots
<1> QED BY <1>1, ModSlot, RingSize DEF Slots

\* The payloads of lwIP's pbuf chain hold bytes.
LEMMA PbufsType == ASSUME NEW s \in Seq(Byte) PROVE Pbufs(s) \in Seq(Seq(Byte))
<1> DEFINE n == Len(s) - FirstPbuf
           last == (n + NextPbufs - 1) \div NextPbufs
           from(k) == FirstPbuf + (k - 1) * NextPbufs + 1
           to(k) == IF k * NextPbufs <= n THEN FirstPbuf + k * NextPbufs ELSE Len(s)
           others == [k \in 1..last |-> SubSeq(s, from(k), to(k))]
<1>1. CASE Len(s) <= FirstPbuf
  BY <1>1 DEF Pbufs
<1>2. CASE Len(s) > FirstPbuf
  <2>1. Len(s) \in Nat /\ n \in Nat \ {0} /\ FirstPbuf \in Nat /\ NextPbufs \in Nat \ {0}
    BY <1>2, RingAssumption
  <2>2. last \in Nat
    BY <2>1
  <2>3. ASSUME NEW k \in 1..last PROVE SubSeq(s, from(k), to(k)) \in Seq(Byte)
    <3>1. k \in Nat /\ k >= 1
      BY <2>2
    <3>2. k * NextPbufs \in Nat /\ (k - 1) * NextPbufs \in Nat
      BY <2>1, <3>1
    <3>3. from(k) \in Int /\ to(k) \in Int /\ from(k) >= 1 /\ to(k) <= Len(s)
      BY <2>1, <3>2
    <3>4. \A i \in from(k)..to(k) : s[i] \in Byte
      BY <3>3, <2>1
    <3> HIDE DEF from, to
    <3> QED BY <3>3, <3>4, SubSeqProperties
  <2>4. others \in Seq(Seq(Byte))
    <3> HIDE DEF last, from, to
    <3> QED BY <2>2, <2>3
  <2>5. SubSeq(s, 1, FirstPbuf) \in Seq(Byte)
    BY <1>2, <2>1, SubSeqProperties
  <2>6. ~(Len(s) <= FirstPbuf)
    BY <1>2, <2>1
  <2>7. Pbufs(s) = <<SubSeq(s, 1, FirstPbuf)>> \o others
    BY <2>6 DEF Pbufs
  <2> HIDE DEF others
  <2> QED BY <2>4, <2>5, <2>7
<1> QED BY <1>1, <1>2, RingAssumption

\* What the scanner reads of the ring are bytes, and it counts the unread ones.
LEMMA ScanTypes ==
    ASSUME TypeOK
    PROVE  /\ \A k \in Slots : At(k) \in Byte
           /\ Count \in Slots
           /\ ucSize \in Nat
<1> USE RingSize
<1>1. ASSUME NEW k \in Slots PROVE At(k) \in Byte
  <2>1. Mod(read + k) \in Slots
    BY ModSlot DEF TypeOK, Slots
  <2> QED BY <2>1 DEF At, TypeOK, Slots
<1>2. Count \in Slots
  BY DEF Count, TypeOK, Slots
<1>3. ucSize \in Nat
  BY <1>1 DEF ucSize, Byte, Slots
<1> QED BY <1>1, <1>2, <1>3

\* A turn of the scanning loop passes at least one byte and none that has not
\* been written; the parameter's size, which CMD_GET_PARAM_DESC puts in the
\* place of the packet's, is no exception.
LEMMA ConsumedInCount ==
    ASSUME TypeOK, Complete
    PROVE  Consumed \in 1..Count
<1>1. ucSize \in 4..Count /\ Count \in Nat
  BY ScanTypes, RingAssumption DEF Complete, SizeOK, Slots
<1>2. CASE At(2) = CMD_GET_PARAM_DESC /\ ucSize = 5 /\ At(3) \in DOMAIN ParamSize
  <2>1. ParamSize[At(3)] \in 1..4
    BY <1>2, RingAssumption
  <2> QED BY <1>1, <1>2, <2>1 DEF Consumed
<1>3. CASE ~(At(2) = CMD_GET_PARAM_DESC /\ ucSize = 5 /\ At(3) \in DOMAIN ParamSize)
  BY <1>1, <1>3 DEF Consumed
<1> QED BY <1>2, <1>3

\* The read index moves on by n bytes and stays in the ring.
LEMMA AdvanceTypes ==
    ASSUME TypeOK, NEW n \in 1..Count, Advance(n)
    PROVE  read' \in Slots /\ taken' \in Nat
<1>1. read + n \in 0..(2 * UIETHERNET_MAX_RECV - 1) /\ taken + n \in Nat
  BY ScanTypes, RingSize DEF Slots, TypeOK
<1>2. read' = Mod(read + n) /\ taken' = taken + n
  BY DEF Advance
<1> QED BY <1>1, <1>2, ModSlot

-----------------------------------------------------------------------------
\* A segment holds bytes of the stream.
LEMMA SegmentBytes ==
    ASSUME TypeOK, NEW n \in 1..Len(stream), Receive(n)
    PROVE  SubSeq(stream, received + 1, received + n) \in Seq(Byte)
<1>1. \A i \in (received + 1)..(received + n) : stream[i] \in Byte
  <2>1. received + n <= Len(stream)
    BY DEF Receive
  <2> QED BY <2>1 DEF TypeOK
<1> QED BY <1>1, SubSeqProperties DEF TypeOK

\* Every variable keeps its type; the packets handled are sequences of bytes.
LEMMA TypeCorrect == Spec => []TypeOK
<1> USE RingSize
<1>1. Init => TypeOK
  <2> SUFFICES ASSUME Init PROVE TypeOK
    OBVIOUS
  <2>1. 0 \in Byte
    BY RingAssumption DEF Byte
  <2>2. stream \in Seq(Byte)
    BY RingAssumption DEF Init
  <2>3. ring \in [0..(UIETHERNET_MAX_RECV - 1) -> Byte]
    BY <2>1 DEF Init
  <2>4. before \in [written : Nat, handled : Nat]
    BY DEF Init
  <2>5. chain \in Seq(Seq(Byte)) /\ written \in Seq(Byte) /\ handled \in Seq(Seq(Byte))
    BY DEF Init
  <2>6. read \in 0..(UIETHERNET_MAX_RECV - 1) /\ write \in 0..(UIETHERNET_MAX_RECV - 1)
    BY DEF Init
  <2>7. pc = "idle" /\ q \in Nat /\ ulIdx \in Nat /\ received \in Nat /\ taken \in Nat
    BY DEF Init
  <2>8. final \in BOOLEAN /\ accepted \in Nat
    BY DEF Init
  <2>9. passed \in Seq(Byte) /\ fitted \in BOOLEAN
    BY DEF Init
  <2> QED BY <2>2, <2>3, <2>4, <2>5, <2>6, <2>7, <2>8, <2>9 DEF TypeOK
<1>2. TypeOK /\ [Next]_vars => TypeOK'
  <2> SUFFICES ASSUME TypeOK, [Next]_vars PROVE TypeOK'
    OBVIOUS
  <2>1. ASSUME NEW n \in 1..Len(stream), Receive(n) PROVE TypeOK'
    <3>1. SubSeq(stream, received + 1, received + n) \in Seq(Byte)
      BY <2>1, SegmentBytes
    <3>2. chain' \in Seq(Seq(Byte))
      BY <2>1, <3>1, PbufsType DEF Receive
    <3>3. passed' \in Seq(Byte)
      <4>1. passed' = passed \o SubSeq(stream, received + 1, received + n)
        BY <2>1 DEF Receive
      <4>2. passed \in Seq(Byte)
        BY DEF TypeOK
      <4> QED BY <3>1, <4>1, <4>2
    <3>4. fitted' \in BOOLEAN
      BY <2>1, Zenon DEF Receive
    <3>5. /\ q' = 1 /\ ulIdx' = 0 /\ received' = received + n /\ pc' = "copy"
          /\ UNCHANGED <<ringVars, final, accepted, stream, before, written, taken,
                        handled>>
      BY <2>1 DEF Receive
    <3>6. received \in Nat /\ stream \in Seq(Byte)
      BY DEF TypeOK
    <3>7. received' \in Nat /\ q' \in Nat /\ ulIdx' \in Nat
          /\ pc' \in {"idle", "copy", "scan"}
      BY ONLY <3>5, <3>6, n \in 1..Len(stream)
    <3>8. UNCHANGED <<ring, read, write, final, accepted, stream, before, written, taken,
                     handled>>
      BY <3>5, Zenon DEF ringVars
    <3> QED BY <3>2, <3>3, <3>4, <3>7, <3>8, Zenon DEF TypeOK
  <2>2. CASE NextPbuf
    BY <2>2 DEF NextPbuf, TypeOK, ringVars, connVars
  <2>3. ASSUME NEW b \in Byte, CopyByte(b) PROVE TypeOK'
    <3>1. write' \in Slots
      <4>1. write \in 0..(UIETHERNET_MAX_RECV - 1)
        BY DEF TypeOK
      <4>2. write + 1 \in 0..(2 * UIETHERNET_MAX_RECV - 1)
        BY <4>1, RingSize
      <4>3. Mod(write + 1) \in Slots
        BY <4>2, ModSlot
      <4> QED BY <2>3, <4>3 DEF CopyByte
    <3>2. ring' \in [Slots -> Byte] /\ written' \in Seq(Byte)
      <4>1. ring \in [Slots -> Byte] /\ written \in Seq(Byte)
        BY DEF TypeOK, Slots
      <4>2. ring' = [ring EXCEPT ![write] = b] /\ written' = Append(written, b)
        BY <2>3 DEF CopyByte
      <4>3. ring' \in [Slots -> Byte]
        BY ONLY <4>1, <4>2, b \in Byte
      <4>4. written' \in Seq(Byte)
        BY ONLY <4>1, <4>2, b \in Byte
      <4> QED BY <4>3, <4>4
    <3>3. pc' \in {"copy", "scan"} /\ final' = FALSE /\ ulIdx' \in Nat
      <4>1. ulIdx \in Nat
        BY DEF TypeOK
      <4> QED BY <2>3, <4>1 DEF CopyByte
    <3>4. UNCHANGED <<read, chain, q, accepted, stream, before, received, passed, fitted,
                      taken, handled>>
      BY <2>3 DEF CopyByte, connVars
    <3> QED BY <3>1, <3>2, <3>3, <3>4 DEF TypeOK, Slots
  <2>4. CASE CopyDone
    BY <2>4 DEF CopyDone, TypeOK, ringVars, copyVars, connVars
  <2>5. CASE Skip
    <3>1. 1 \in 1..Count
      BY <2>5 DEF Skip, Count, TypeOK
    <3>2. read' \in Slots /\ taken' \in Nat
      BY <2>5, <3>1, AdvanceTypes DEF Skip
    <3> QED BY <2>5, <3>2 DEF Skip, Advance, TypeOK, Slots, copyVars, connVars
  <2>6. CASE HandlePacket
    <3>1. Consumed \in 1..Count
      BY <2>6, ConsumedInCount DEF HandlePacket
    <3>2. read' \in Slots /\ taken' \in Nat
      BY <2>6, <3>1, AdvanceTypes DEF HandlePacket
    <3>3. Packet \in Seq(Byte)
      <4>1. ucSize \in Nat /\ \A k \in 1..ucSize : k - 1 \in Slots
        BY <2>6, ScanTypes DEF HandlePacket, Complete, SizeOK, Slots
      <4>2. \A k \in 1..ucSize : At(k - 1) \in Byte
        BY <4>1, ScanTypes
      <4> QED BY <4>1, <4>2 DEF Packet
    <3>4. handled' \in Seq(Seq(Byte))
      BY <2>6, <3>3 DEF HandlePacket, TypeOK
    <3> QED BY <2>6, <3>2, <3>4 DEF HandlePacket, Advance, TypeOK, Slots, copyVars, connVars
  <2>7. CASE StopScan
    BY <2>7 DEF StopScan, TypeOK, ringVars, copyVars, connVars
  <2>8. CASE UIEthernetAccept
    <3>1. stream' \in Seq(Byte)
      BY <2>8, RingAssumption DEF UIEthernetAccept
    <3>3. accepted' \in Nat
      BY <2>8 DEF UIEthernetAccept, TypeOK
    <3>2. before' \in [written : Nat, handled : Nat]
      BY <2>8 DEF UIEthernetAccept, TypeOK
    <3> QED BY <2>8, <3>1, <3>2, <3>3 DEF UIEthernetAccept, TypeOK, ringVars, copyVars, connVars
  <2>9. CASE UNCHANGED vars
    BY <2>9 DEF vars, connVars, TypeOK
  <2> QED BY <2>1, <2>2, <2>3, <2>4, <2>5, <2>6, <2>7, <2>8, <2>9 DEF Next, Handler
<1> QED BY <1>1, <1>2, PTL DEF Spec

-----------------------------------------------------------------------------
\* The scan gives room back whatever the bytes in the ring are: it stops only
\* when the ring is empty, holds a lone tag, or holds less than a packet whose
\* announced length fits the ring.  None of these fills the ring, so there is
\* room whenever the scan is not running, which is what RoomToCopy needs when
\* a copy resumes or starts.
RoomInv == pc # "scan" => Mod(write + 1) # read

\* A scan that stops leaves room.
LEMMA StopLeavesRoom == ASSUME TypeOK, StopScan PROVE Mod(write + 1) # read
<1> USE RingSize
<1>1. read \in Slots /\ write \in Slots
  BY DEF TypeOK, Slots
<1>2. /\ Mod(write + 1) = IF write + 1 < UIETHERNET_MAX_RECV THEN write + 1
                          ELSE write + 1 - UIETHERNET_MAX_RECV
      /\ Mod(read + 1) = IF read + 1 < UIETHERNET_MAX_RECV THEN read + 1
                         ELSE read + 1 - UIETHERNET_MAX_RECV
  <2>1. 1 \in Slots
    BY DEF Slots
  <2> QED BY <1>1, <2>1, ModSum
<1>3. CASE read = write
  BY <1>1, <1>2, <1>3 DEF Slots
<1>4. CASE Tagged /\ ~Sized
  BY <1>1, <1>2, <1>4 DEF Tagged, Sized, Slots
<1>5. CASE SizeOK /\ ~Complete
  <2>1. Count < UIETHERNET_MAX_RECV - 1
    BY <1>5, ScanTypes DEF SizeOK, Complete, Slots
  <2> QED BY <1>1, <1>2, <2>1 DEF Count, Slots
<1> QED BY <1>3, <1>4, <1>5 DEF StopScan

\* UIEthernetReceive stores a byte only when the ring has room for it, although
\* it never checks before storing.
THEOREM AlwaysRoom == Spec => []RoomToCopy
<1>1. Init /\ TypeOK => RoomInv
  BY RingAssumption, ModSlot DEF Init, RoomInv, Slots, TypeOK
<1>2. TypeOK /\ RoomInv /\ [Next]_vars => RoomInv'
  <2> SUFFICES ASSUME TypeOK, RoomInv, [Next]_vars PROVE RoomInv'
    OBVIOUS
  <2> USE DEF RoomInv, ringVars, copyVars
  <2>1. ASSUME NEW n \in 1..Len(stream), Receive(n) PROVE RoomInv'
    BY <2>1 DEF Receive, Mod
  <2>2. CASE NextPbuf
    BY <2>2 DEF NextPbuf, Mod
  <2>3. ASSUME NEW b \in Byte, CopyByte(b) PROVE RoomInv'
    BY <2>3 DEF CopyByte, Mod
  <2>4. CASE CopyDone
    BY <2>4 DEF CopyDone
  <2>5. CASE Skip
    BY <2>5 DEF Skip, Advance
  <2>6. CASE HandlePacket
    BY <2>6 DEF HandlePacket, Advance
  <2>7. CASE StopScan
    BY <2>7, StopLeavesRoom DEF StopScan, Mod
  <2>8. CASE UIEthernetAccept
    BY <2>8 DEF UIEthernetAccept, Mod
  <2>9. CASE UNCHANGED vars
    BY <2>9 DEF vars, Mod
  <2> QED BY <2>1, <2>2, <2>3, <2>4, <2>5, <2>6, <2>7, <2>8, <2>9 DEF Next, Handler
<1>3. RoomInv => RoomToCopy
  BY DEF RoomInv, RoomToCopy
<1> QED BY <1>1, <1>2, <1>3, TypeCorrect, PTL DEF Spec

-----------------------------------------------------------------------------
\* Storing a byte where there is room appends it to the unread ones.
LEMMA CopyKeepsUnread ==
    ASSUME TypeOK, RingHoldsUnread, Mod(write + 1) # read,
           NEW b \in Byte, CopyByte(b)
    PROVE  RingHoldsUnread'
<1> USE RingSize
<1>1. /\ read \in Slots /\ write \in Slots
      /\ ring \in [Slots -> Byte] /\ written \in Seq(Byte) /\ taken \in Nat
  BY DEF TypeOK, Slots
<1>2. /\ read' = read /\ taken' = taken
      /\ write' = Mod(write + 1)
      /\ ring' = [ring EXCEPT ![write] = b]
      /\ written' = Append(written, b)
  BY DEF CopyByte
<1>3. write' = IF write + 1 < UIETHERNET_MAX_RECV THEN write + 1
               ELSE write + 1 - UIETHERNET_MAX_RECV
  <2>1. write + 1 \in 0..(2 * UIETHERNET_MAX_RECV - 1)
    BY <1>1 DEF Slots
  <2>2. PICK j : j = write + 1
    OBVIOUS
  <2>3. j \in 0..(2 * UIETHERNET_MAX_RECV - 1)
    BY <2>1, <2>2, Zenon
  <2>4. Mod(j) = IF j < UIETHERNET_MAX_RECV THEN j ELSE j - UIETHERNET_MAX_RECV
    BY <2>3, ModSlot, Zenon
  <2>5. write' = Mod(j)
    BY <1>2, <2>2, Zenon
  <2>6. write' = IF j < UIETHERNET_MAX_RECV THEN j ELSE j - UIETHERNET_MAX_RECV
    BY <2>4, <2>5
  <2> QED BY <1>1, <2>2, <2>6 DEF Slots
<1>4. Count' = Count + 1 /\ Count \in Nat /\ Count < UIETHERNET_MAX_RECV - 1
  <2>1. write' # read /\ read' = read
    BY <1>2
  <2>2. CASE write + 1 < UIETHERNET_MAX_RECV
    BY <1>1, <1>3, <2>1, <2>2 DEF Count, Slots
  <2>3. CASE write + 1 = UIETHERNET_MAX_RECV
    BY <1>1, <1>3, <2>1, <2>3 DEF Count, Slots
  <2> QED BY <1>1, <2>2, <2>3 DEF Slots
<1>5. Count = Len(written) - taken
  BY DEF RingHoldsUnread
<1>6. Len(written') = Len(written) + 1 /\ Len(written) \in Nat
  BY <1>1, <1>2
<1>7. ASSUME NEW k \in 0..(Count' - 1) PROVE At(k)' = written'[taken' + k + 1]
  <2>1. k \in Slots /\ k <= Count
    BY <1>4 DEF Slots
  <2>2. Mod(read + k) = IF read + k < UIETHERNET_MAX_RECV THEN read + k
                        ELSE read + k - UIETHERNET_MAX_RECV
    BY <1>1, <2>1, ModSlot DEF Slots
  <2>3. At(k)' = ring'[Mod(read + k)]
    BY <1>2 DEF At, Mod
  <2>4. CASE k = Count
    <3>1. Mod(read + k) = write
      BY <1>1, <2>2, <2>4 DEF Count, Slots
    <3>2. taken' + k + 1 = Len(written) + 1
      BY <1>1, <1>2, <1>5, <1>6, <2>4
    <3>3. written'[Len(written) + 1] = b
      BY <1>1, <1>2
    <3> QED BY <1>1, <1>2, <2>3, <3>1, <3>2, <3>3
  <2>5. CASE k < Count
    <3>1. Mod(read + k) # write /\ Mod(read + k) \in Slots
      BY <1>1, <2>1, <2>2, <2>5 DEF Count, Slots
    <3>2. taken + k + 1 \in 1..Len(written)
      BY <1>1, <1>4, <1>5, <1>6, <2>1, <2>5
    <3>3. At(k) = written[taken + k + 1]
      BY <1>4, <2>1, <2>5 DEF RingHoldsUnread
    <3>4. written'[taken + k + 1] = written[taken + k + 1]
      BY <1>1, <1>2, <3>2
    <3>5. ring'[Mod(read + k)] = ring[Mod(read + k)]
      BY <1>1, <1>2, <3>1
    <3> QED BY <1>2, <2>3, <3>3, <3>4, <3>5 DEF At
  <2> QED BY <1>4, <2>1, <2>4, <2>5
<1>8. Count' = Len(written') - taken'
  BY <1>1, <1>2, <1>4, <1>5, <1>6
<1> QED BY <1>7, <1>8 DEF RingHoldsUnread

\* Passing n unread bytes leaves the rest in place.
LEMMA AdvanceKeepsUnread ==
    ASSUME TypeOK, RingHoldsUnread, NEW n \in 1..Count, Advance(n)
    PROVE  RingHoldsUnread'
<1> USE RingSize
<1>1. /\ read \in Slots /\ write \in Slots
      /\ written \in Seq(Byte) /\ taken \in Nat
  BY DEF TypeOK, Slots
<1>2. /\ read' = Mod(read + n) /\ taken' = taken + n
      /\ ring' = ring /\ write' = write /\ written' = written
  BY DEF Advance
<1>3. Count \in Slots /\ n \in Slots
  BY ScanTypes DEF Slots
<1>4. read' = IF read + n < UIETHERNET_MAX_RECV THEN read + n
              ELSE read + n - UIETHERNET_MAX_RECV
  BY <1>1, <1>2, <1>3, ModSlot DEF Slots
<1>5. Count' = Count - n
  BY <1>1, <1>2, <1>3, <1>4 DEF Count, Slots
<1>6. ASSUME NEW k \in 0..(Count' - 1) PROVE At(k)' = written'[taken' + k + 1]
  <2>1. k \in Slots /\ n + k \in 0..(Count - 1) /\ n + k \in Slots
    BY <1>3, <1>5 DEF Slots
  <2>2. Mod(read + (n + k)) = IF read + (n + k) < UIETHERNET_MAX_RECV
                              THEN read + (n + k)
                              ELSE read + (n + k) - UIETHERNET_MAX_RECV
    BY <1>1, <2>1, ModSlot DEF Slots
  <2>3. read' \in Slots
    BY <1>1, <1>2, <1>3, ModSlot DEF Slots
  <2>4. Mod(read' + k) = IF read' + k < UIETHERNET_MAX_RECV THEN read' + k
                         ELSE read' + k - UIETHERNET_MAX_RECV
    BY <2>1, <2>3, ModSum
  <2>5. Mod(read' + k) = Mod(read + (n + k))
    BY <1>1, <1>3, <1>4, <2>1, <2>2, <2>4 DEF Slots
  <2>6. At(k)' = At(n + k)
    BY <1>2, <2>5 DEF At, Mod
  <2>7. At(n + k) = written[taken + (n + k) + 1]
    BY <2>1 DEF RingHoldsUnread
  <2>8. taken' + k + 1 = taken + (n + k) + 1
    BY <1>1, <1>2, <1>3, <2>1 DEF Slots
  <2> QED BY <1>2, <2>6, <2>7, <2>8
<1>7. Count' = Len(written') - taken'
  <2>1. Count = Len(written) - taken /\ Len(written) \in Nat
    BY <1>1 DEF RingHoldsUnread
  <2> QED BY <1>1, <1>2, <1>3, <1>5, <2>1 DEF Slots
<1> QED BY <1>6, <1>7 DEF RingHoldsUnread

\* Nothing the host sends makes the copy loop overwrite a byte that is still
\* to be scanned, or the scanner read a byte that was never written.
THEOREM RingIsFaithful == Spec => []RingHoldsUnread
<1>1. Init => RingHoldsUnread
  BY DEF Init, RingHoldsUnread, Count
<1>2. TypeOK /\ RoomToCopy /\ RingHoldsUnread /\ [Next]_vars => RingHoldsUnread'
  <2> SUFFICES ASSUME TypeOK, RoomToCopy, RingHoldsUnread, [Next]_vars
               PROVE  RingHoldsUnread'
    OBVIOUS
  <2>1. ASSUME UNCHANGED <<ring, read, write, written, taken>> PROVE RingHoldsUnread'
    BY <2>1 DEF RingHoldsUnread, Count, At, Mod
  <2>2. ASSUME NEW n \in 1..Len(stream), Receive(n) PROVE RingHoldsUnread'
    BY <2>1, <2>2 DEF Receive, ringVars
  <2>3. CASE NextPbuf
    BY <2>1, <2>3 DEF NextPbuf, ringVars
  <2>4. ASSUME NEW b \in Byte, CopyByte(b) PROVE RingHoldsUnread'
    BY <2>4, CopyKeepsUnread DEF RoomToCopy, CopyByte
  <2>5. CASE CopyDone
    BY <2>1, <2>5 DEF CopyDone, ringVars
  <2>6. CASE Skip
    <3>1. 1 \in 1..Count
      BY <2>6, RingSize DEF Skip, Count, TypeOK
    <3> QED BY <2>6, <3>1, AdvanceKeepsUnread DEF Skip
  <2>7. CASE HandlePacket
    <3>1. Consumed \in 1..Count
      BY <2>7, ConsumedInCount DEF HandlePacket
    <3> QED BY <2>7, <3>1, AdvanceKeepsUnread DEF HandlePacket
  <2>8. CASE StopScan
    BY <2>1, <2>8 DEF StopScan, ringVars
  <2>9. CASE UIEthernetAccept
    BY <2>1, <2>9 DEF UIEthernetAccept, ringVars
  <2>10. CASE UNCHANGED vars
    BY <2>1, <2>10 DEF vars
  <2> QED BY <2>2, <2>3, <2>4, <2>5, <2>6, <2>7, <2>8, <2>9, <2>10 DEF Next, Handler
<1> QED BY <1>1, <1>2, TypeCorrect, AlwaysRoom, PTL DEF Spec
-----------------------------------------------------------------------------
(* The reference parser.                                                   *)

Packets == Seq(Seq(Byte))

\* What ParseFrom's function is at a place, from what it is at later ones.
ParseStep(s, f, k) ==
    IF k > Len(s) \/ Unfinished(s, k) THEN << >>
    ELSE IF PacketsAt(s, k) = {} THEN f[k + 1]
    ELSE <<SubSeq(s, k, k + (CHOOSE m \in PacketsAt(s, k) : TRUE) - 1)>>
             \o f[k + (CHOOSE m \in PacketsAt(s, k) : TRUE)]

\* The step looks only at later places, and at those that exist.
LEMMA ParseStepLocal ==
    ASSUME NEW s \in Seq(Byte), NEW k \in 1..(Len(s) + 1), NEW f, NEW g,
           \A j \in (k + 1)..(Len(s) + 1) : f[j] = g[j] /\ f[j] \in Packets
    PROVE  ParseStep(s, f, k) = ParseStep(s, g, k) /\ ParseStep(s, f, k) \in Packets
<1> DEFINE L == Len(s)
           n == CHOOSE m \in PacketsAt(s, k) : TRUE
<1>1. L \in Nat
  OBVIOUS
<1>2. CASE k > L \/ Unfinished(s, k)
  BY <1>2 DEF ParseStep, Packets
<1>3. CASE k <= L /\ ~Unfinished(s, k) /\ PacketsAt(s, k) = {}
  <2>1. k + 1 \in (k + 1)..(L + 1)
    BY <1>1, <1>3
  <2>2. ParseStep(s, f, k) = f[k + 1] /\ ParseStep(s, g, k) = g[k + 1]
    BY <1>1, <1>3 DEF ParseStep
  <2> QED BY <2>1, <2>2
<1>4. CASE k <= L /\ ~Unfinished(s, k) /\ PacketsAt(s, k) # {}
  <2>1. n \in PacketsAt(s, k)
    BY <1>4
  <2>2. n \in Sizes /\ k + n <= L + 1
    BY <2>1 DEF PacketsAt
  <2>3. n \in Nat /\ n >= 4
    BY <2>2, RingSize DEF Sizes
  <2>4. k + n \in (k + 1)..(L + 1)
    BY <1>1, <2>2, <2>3
  <2>5. /\ ParseStep(s, f, k) = <<SubSeq(s, k, k + n - 1)>> \o f[k + n]
        /\ ParseStep(s, g, k) = <<SubSeq(s, k, k + n - 1)>> \o g[k + n]
    BY <1>1, <1>4 DEF ParseStep
  <2>6. SubSeq(s, k, k + n - 1) \in Seq(Byte)
    <3> HIDE DEF n
    <3> QED BY <2>2, <2>3, PartOf
  <2>7. <<SubSeq(s, k, k + n - 1)>> \in Packets
    BY <2>6 DEF Packets
  <2> HIDE DEF n, L
  <2>8. f[k + n] \in Packets /\ f[k + n] = g[k + n]
    BY <2>4 DEF L
  <2> QED BY <2>5, <2>7, <2>8 DEF Packets
<1> QED BY <1>1, <1>2, <1>3, <1>4

\* The function exists, so that ParseFrom follows its definition.
LEMMA ParseFromStep ==
    ASSUME NEW s \in Seq(Byte), NEW i \in 1..(Len(s) + 1)
    PROVE  /\ ParseFrom(s, i) \in Packets
           /\ ParseFrom(s, i) =
                IF i > Len(s) \/ Unfinished(s, i) THEN << >>
                ELSE IF PacketsAt(s, i) = {} THEN ParseFrom(s, i + 1)
                ELSE LET n == CHOOSE m \in PacketsAt(s, i) : TRUE
                     IN  <<SubSeq(s, i, i + n - 1)>> \o ParseFrom(s, i + n)
<1> DEFINE L == Len(s)
           From(m) == (L + 1 - m)..(L + 1)
           Solves(g, m) == /\ g \in [From(m) -> Packets]
                           /\ \A k \in From(m) : g[k] = ParseStep(s, g, k)
           T == {m \in Nat : m <= L => \E g : Solves(g, m)}
<1>1. L \in Nat
  OBVIOUS
<1> HIDE DEF L
<1>2. 0 \in T
  <2> DEFINE g == [k \in From(0) |-> << >>]
  <2>1. From(0) = {L + 1}
    BY <1>1
  <2>2. << >> \in Packets
    BY DEF Packets
  <2>3. \A k \in From(0) : ParseStep(s, g, k) = << >>
    BY <2>1, <1>1 DEF ParseStep, L
  <2>4. Solves(g, 0)
    BY <2>2, <2>3
  <2> QED BY <2>4
<1>3. ASSUME NEW m \in Nat, m \in T PROVE m + 1 \in T
  <2> SUFFICES ASSUME m + 1 <= L PROVE \E g : Solves(g, m + 1)
    OBVIOUS
  <2>1. m \in T /\ m <= L
    BY <1>1, <1>3
  <2>2. \E g : Solves(g, m)
    BY <2>1
  <2>3. PICK g : Solves(g, m)
    BY <2>2
  <2> DEFINE h == [k \in From(m + 1) |-> IF k \in From(m) THEN g[k]
                                         ELSE ParseStep(s, g, k)]
  <2>4. \A k \in From(m + 1) : k \in From(m) \/ k = L - m
    BY <1>1
  <2>5. \A k \in From(m) : k \in From(m + 1) /\ h[k] = g[k] /\ g[k] \in Packets
    BY <1>1, <2>3
  <2>6. ASSUME NEW k \in From(m + 1)
        PROVE  ParseStep(s, g, k) = ParseStep(s, h, k) /\ ParseStep(s, g, k) \in Packets
    <3>1. \A j \in (k + 1)..(L + 1) : j \in From(m)
      BY <1>1, <2>1, <2>6
    <3>2. \A j \in (k + 1)..(L + 1) : g[j] = h[j] /\ g[j] \in Packets
      BY <3>1, <2>5
    <3>3. k \in 1..(L + 1)
      BY <1>1, <2>6
    <3> HIDE DEF h, From, Solves, T
    <3> QED BY <3>2, <3>3, ParseStepLocal DEF L
  <2>7. \A k \in From(m) : h[k] = ParseStep(s, h, k)
    <3>1. \A k \in From(m) : g[k] = ParseStep(s, g, k)
      BY <2>3
    <3> HIDE DEF h
    <3> QED BY <2>5, <2>6, <3>1
  <2>8. \A k \in From(m + 1) \ From(m) : h[k] = ParseStep(s, h, k)
    <3>1. \A k \in From(m + 1) \ From(m) : h[k] = ParseStep(s, g, k)
      OBVIOUS
    <3> HIDE DEF h
    <3> QED BY <2>6, <3>1
  <2>9. h \in [From(m + 1) -> Packets]
    <3> HIDE DEF From
    <3>1. \A k \in From(m + 1) : (IF k \in From(m) THEN g[k] ELSE ParseStep(s, g, k))
                                   \in Packets
      BY <2>5, <2>6
    <3> QED BY <3>1
  <2>10. Solves(h, m + 1)
    <3> HIDE DEF h, From
    <3> QED BY <2>7, <2>8, <2>9
  <2> QED BY <2>10
<1>4. \E g : Solves(g, L)
  <2>1. L \in T
    <3> HIDE DEF T
    <3> QED BY <1>1, <1>2, <1>3, SetInduction
  <2> HIDE DEF Solves
  <2> QED BY <2>1, <1>1
<1> DEFINE f == CHOOSE from : from = [k \in 1..(L + 1) |-> ParseStep(s, from, k)]
<1>5. f = [k \in 1..(L + 1) |-> ParseStep(s, f, k)]
  <2>1. PICK g : Solves(g, L)
    BY <1>4
  <2>2. From(L) = 1..(L + 1)
    BY <1>1
  <2>3. g = [k \in 1..(L + 1) |-> ParseStep(s, g, k)]
    BY <2>1, <2>2
  <2> QED BY <2>3
<1>6. \A k \in 1..(L + 1) : ParseFrom(s, k) = f[k]
  BY DEF ParseFrom, ParseStep, L
<1> HIDE DEF f
<1>7. \A k \in 1..(L + 1) : f[k] \in Packets
  <2> DEFINE U == {m \in Nat : m <= L => \A k \in From(m) : f[k] \in Packets}
  <2>1. ASSUME NEW k \in 1..(L + 1), \A j \in (k + 1)..(L + 1) : f[j] \in Packets
        PROVE  f[k] \in Packets
    <3>1. ParseStep(s, f, k) \in Packets
      BY <2>1, ParseStepLocal DEF L
    <3> QED BY <1>5, <3>1
  <2>2. 0 \in U
    <3> SUFFICES ASSUME NEW k \in From(0) PROVE f[k] \in Packets
      OBVIOUS
    <3>1. k = L + 1 /\ k \in 1..(L + 1)
      BY <1>1
    <3>2. (k + 1)..(L + 1) = {}
      BY <1>1, <3>1
    <3> QED BY <2>1, <3>1, <3>2
  <2>3. ASSUME NEW m \in Nat, m \in U PROVE m + 1 \in U
    <3> SUFFICES ASSUME m + 1 <= L, NEW k \in From(m + 1) PROVE f[k] \in Packets
      OBVIOUS
    <3>1. \A j \in From(m) : f[j] \in Packets
      BY <1>1, <2>3
    <3>2. k \in From(m) \/ k = L - m
      BY <1>1
    <3>3. k = L - m => /\ k \in 1..(L + 1)
                       /\ \A j \in (k + 1)..(L + 1) : j \in From(m)
      BY <1>1
    <3> QED BY <2>1, <3>1, <3>2, <3>3
  <2>4. L \in U
    <3> HIDE DEF U
    <3> QED BY <1>1, <2>2, <2>3, SetInduction
  <2>5. From(L) = 1..(L + 1)
    BY <1>1
  <2> QED BY <1>1, <2>4, <2>5
<1>8. /\ i \in 1..(L + 1) /\ ParseFrom(s, i) = f[i] /\ f[i] \in Packets
      /\ f[i] = ParseStep(s, f, i)
  BY <1>5, <1>6, <1>7 DEF L
<1>9. CASE i > L \/ Unfinished(s, i)
  BY <1>8, <1>9 DEF ParseStep, L
<1>10. CASE i <= L /\ ~Unfinished(s, i) /\ PacketsAt(s, i) = {}
  <2>1. i + 1 \in 1..(L + 1)
    BY <1>1, <1>8, <1>10
  <2>2. ParseFrom(s, i) = ParseFrom(s, i + 1)
    BY <1>1, <1>6, <1>8, <1>10, <2>1 DEF ParseStep, L
  <2> QED BY <1>1, <1>8, <1>10, <2>2 DEF L
<1>11. CASE i <= L /\ ~Unfinished(s, i) /\ PacketsAt(s, i) # {}
  <2> DEFINE n == CHOOSE m \in PacketsAt(s, i) : TRUE
  <2>1. n \in Sizes /\ i + n <= L + 1
    BY <1>11 DEF PacketsAt, L
  <2>2. i + n \in 1..(L + 1)
    <3> HIDE DEF n
    <3> QED BY <1>1, <1>8, <2>1, RingSize DEF Sizes
  <2>3. ParseFrom(s, i) = <<SubSeq(s, i, i + n - 1)>> \o ParseFrom(s, i + n)
    <3>1. ParseStep(s, f, i) = <<SubSeq(s, i, i + n - 1)>> \o f[i + n]
      BY <1>1, <1>8, <1>11 DEF ParseStep, L
    <3> HIDE DEF n
    <3>2. ParseFrom(s, i + n) = f[i + n]
      BY <1>6, <2>2
    <3> QED BY <1>8, <3>1, <3>2
  <2> QED BY <1>1, <1>8, <1>11, <2>3 DEF L
<1> QED BY <1>1, <1>8, <1>9, <1>10, <1>11
\* A packet that is at a place can be told from its first two bytes.
LEMMA PacketAtPlace ==
    ASSUME NEW s \in Seq(Byte), NEW k \in 1..Len(s), NEW n \in PacketsAt(s, k)
    PROVE  /\ k < Len(s) /\ s[k] = TAG_CMD /\ s[k + 1] = n /\ n \in Sizes
           /\ k + n <= Len(s) + 1
           /\ ByteSum(SubSeq(s, k, k + n - 1)) = 0
<1> DEFINE L == Len(s)
           sub == SubSeq(s, k, k + n - 1)
<1>1. /\ L \in Nat /\ k \in Nat /\ k >= 1
      /\ n \in Sizes /\ k + n <= L + 1 /\ WellFormed(sub)
  BY DEF PacketsAt
<1>2. n \in Nat /\ n >= 4
  BY <1>1, RingSize DEF Sizes
<1>3. /\ Len(sub) = n
      /\ \A i \in 1..n : sub[i] = s[k + i - 1]
  <2>1. k \in Nat \ {0} /\ n \in Nat \ {0} /\ k + n <= Len(s) + 1
    BY <1>1, <1>2
  <2> QED BY <2>1, PartOf
<1>4. sub[1] = TAG_CMD /\ sub[2] = Len(sub) /\ ByteSum(sub) = 0
  BY <1>1 DEF WellFormed
<1> HIDE DEF sub, L
<1>5. 1 \in 1..n /\ 2 \in 1..n /\ k + 1 - 1 = k /\ k + 2 - 1 = k + 1 /\ k < L
  BY <1>1, <1>2
<1>6. sub[1] = s[k] /\ sub[2] = s[k + 1]
  BY <1>3, <1>5
<1> QED BY <1>1, <1>3, <1>4, <1>5, <1>6 DEF L, sub

\* No packet begins where there is no tag, or an impossible size, or a wrong sum.
LEMMA NoPacketHere ==
    ASSUME NEW s \in Seq(Byte), NEW k \in 1..Len(s),
           \/ s[k] # TAG_CMD
           \/ k < Len(s) /\ s[k + 1] \notin Sizes
           \/ /\ k < Len(s) /\ k + s[k + 1] <= Len(s) + 1
              /\ ByteSum(SubSeq(s, k, k + s[k + 1] - 1)) # 0
    PROVE  ParseFrom(s, k) = ParseFrom(s, k + 1)
<1>1. PacketsAt(s, k) = {}
  <2> SUFFICES ASSUME NEW n \in PacketsAt(s, k) PROVE FALSE
    OBVIOUS
  <2> QED BY PacketAtPlace
<1>2. ~Unfinished(s, k) /\ ~(k > Len(s)) /\ k \in 1..(Len(s) + 1)
  <2>1. /\ Len(s) \in Nat /\ k \in Nat /\ k >= 1 /\ k <= Len(s)
    OBVIOUS
  <2>2. k < Len(s) => s[k + 1] \in Int
    <3> SUFFICES ASSUME k < Len(s) PROVE s[k + 1] \in Int
      OBVIOUS
    <3>1. k + 1 \in 1..Len(s)
      BY <2>1
    <3>2. s[k + 1] \in Byte
      BY <3>1
    <3> QED BY <3>2, RingAssumption DEF Byte
  <2>3. s[k] # TAG_CMD => ~Unfinished(s, k)
    BY DEF Unfinished
  <2>4. k < Len(s) /\ s[k + 1] \notin Sizes => ~Unfinished(s, k)
    BY <2>1 DEF Unfinished
  <2>5. k < Len(s) /\ k + s[k + 1] <= Len(s) + 1 => ~Unfinished(s, k)
    BY <2>1, <2>2 DEF Unfinished
  <2> QED BY <2>1, <2>3, <2>4, <2>5
<1> QED BY <1>1, <1>2, ParseFromStep

\* A packet that is all there and has the right sum.
LEMMA PacketHere ==
    ASSUME NEW s \in Seq(Byte), NEW k \in 1..Len(s), NEW n \in Sizes,
           k + n <= Len(s) + 1, s[k] = TAG_CMD, s[k + 1] = n,
           ByteSum(SubSeq(s, k, k + n - 1)) = 0
    PROVE  ParseFrom(s, k) = <<SubSeq(s, k, k + n - 1)>> \o ParseFrom(s, k + n)
<1> DEFINE L == Len(s)
           sub == SubSeq(s, k, k + n - 1)
<1>1. L \in Nat /\ k \in Nat /\ k >= 1 /\ k + n <= L + 1
  OBVIOUS
<1>2. n \in Nat /\ n >= 4
  BY RingSize DEF Sizes
<1>3. k \in Nat \ {0} /\ n \in Nat \ {0} /\ k + n <= Len(s) + 1
  BY <1>1, <1>2
<1>4. /\ SubSeq(s, k, k + n - 1) \in Seq(Byte)
      /\ Len(SubSeq(s, k, k + n - 1)) = n
      /\ \A i \in 1..n : SubSeq(s, k, k + n - 1)[i] = s[k + i - 1]
  BY <1>3, PartOf
<1>5. WellFormed(sub)
  <2>0. Len(sub) = n /\ \A i \in 1..n : sub[i] = s[k + i - 1]
    BY <1>4
  <2> HIDE DEF sub
  <2>1. 1 \in 1..n /\ 2 \in 1..n /\ k + 1 - 1 = k /\ k + 2 - 1 = k + 1
    BY <1>1, <1>2
  <2>2. sub[1] = TAG_CMD /\ sub[2] = n
    BY <2>0, <2>1
  <2> QED BY <1>2, <2>0, <2>2 DEF WellFormed, sub
<1>6. n \in PacketsAt(s, k)
  BY <1>5 DEF PacketsAt
<1>7. \A m \in PacketsAt(s, k) : m = n
  BY PacketAtPlace
<1>8. (CHOOSE m \in PacketsAt(s, k) : TRUE) = n
  BY <1>6, <1>7
<1>9. ~Unfinished(s, k) /\ ~(k > L) /\ k \in 1..(L + 1)
  BY <1>1, <1>2 DEF Unfinished, L
<1> QED BY <1>6, <1>8, <1>9, ParseFromStep
-----------------------------------------------------------------------------
(* What is handled is what the parser finds, whatever comes after it.      *)

\* What has been handled and what the parser finds from the read index on make
\* up what it finds in all bytes, those still to come included.  Between two
\* segments nothing is left to find.
ParseInv ==
    /\ \A more \in Seq(Byte) :
          Parse(written \o more) = handled \o ParseFrom(written \o more, taken + 1)
    /\ pc = "idle" => ParseFrom(written, taken + 1) = << >>

\* The unread bytes of the ring in the sequence of all bytes.
LEMMA UnreadBytes ==
    ASSUME TypeOK, RingHoldsUnread, NEW more \in Seq(Byte)
    PROVE  /\ written \o more \in Seq(Byte)
           /\ Count \in Nat /\ taken \in Nat
           /\ Len(written \o more) = taken + Count + Len(more)
           /\ \A j \in 0..(Count - 1) : (written \o more)[taken + 1 + j] = At(j)
<1>1. /\ written \in Seq(Byte) /\ taken \in Nat /\ Count \in Nat
      /\ Len(written) = taken + Count
      /\ \A j \in 0..(Count - 1) : At(j) = written[taken + j + 1]
  <2>1. written \in Seq(Byte) /\ taken \in Nat
    BY DEF TypeOK
  <2>2. Count \in Nat
    BY ScanTypes, RingSize DEF Slots
  <2>3. Count = Len(written) - taken /\ \A j \in 0..(Count - 1) : At(j) = written[taken + j + 1]
    BY Zenon DEF RingHoldsUnread
  <2>4. Len(written) = taken + Count
    BY <2>1, <2>2, <2>3
  <2> QED BY <2>1, <2>2, <2>3, <2>4, Zenon
<1>2. /\ written \o more \in Seq(Byte)
      /\ Len(written \o more) = Len(written) + Len(more)
      /\ \A i \in 1..Len(written) : (written \o more)[i] = written[i]
  BY <1>1
<1> HIDE DEF Count, At
<1>3. ASSUME NEW j \in 0..(Count - 1)
      PROVE  (written \o more)[taken + 1 + j] = At(j)
  <2>1. taken + 1 + j \in 1..Len(written) /\ taken + 1 + j = taken + j + 1
    BY <1>1
  <2> QED BY <1>1, <1>2, <2>1
<1> QED BY <1>1, <1>2, <1>3

\* The scanner's tests, by the number of unread bytes.
LEMMA TestsByCount ==
    ASSUME TypeOK
    PROVE  /\ Count \in Nat
           /\ read = write <=> Count = 0
           /\ Mod(read + 1) = write <=> Count = 1
<1> USE RingSize
<1>1. read \in Slots /\ write \in Slots
  BY DEF TypeOK, Slots
<1>2. Mod(read + 1) = IF read + 1 < UIETHERNET_MAX_RECV THEN read + 1
                      ELSE read + 1 - UIETHERNET_MAX_RECV
  <2>1. 1 \in Slots
    BY DEF Slots
  <2> QED BY <1>1, <2>1, ModSum
<1> QED BY <1>1, <1>2 DEF Count, Slots

\* A packet that is complete in the ring is a part of the bytes.
LEMMA PacketIsPart ==
    ASSUME TypeOK, RingHoldsUnread, Complete, NEW more \in Seq(Byte)
    PROVE  /\ ucSize \in Sizes /\ ucSize <= Count
           /\ Packet = SubSeq(written \o more, taken + 1, taken + 1 + ucSize - 1)
<1> DEFINE s == written \o more
           k == taken + 1
           n == ucSize
<1>1. /\ s \in Seq(Byte) /\ Count \in Nat /\ taken \in Nat
      /\ Len(s) = taken + Count + Len(more)
      /\ \A j \in 0..(Count - 1) : s[k + j] = At(j)
  <2>1. Len(more) \in Nat
    OBVIOUS
  <2> QED BY <2>1, UnreadBytes, Zenon
<1>2. n \in Sizes /\ n <= Count /\ n \in Nat /\ n >= 4
  BY <1>1, ScanTypes, RingSize DEF Complete, SizeOK, Sizes
<1> HIDE DEF s, n
<1>3. k \in Nat \ {0} /\ n \in Nat \ {0} /\ k + n <= Len(s) + 1
  <2>1. Len(more) \in Nat
    OBVIOUS
  <2> QED BY <1>1, <1>2, <2>1
<1>4. /\ SubSeq(s, k, k + n - 1) \in Seq(Byte)
      /\ Len(SubSeq(s, k, k + n - 1)) = n
      /\ \A i \in 1..n : SubSeq(s, k, k + n - 1)[i] = s[k + i - 1]
  BY <1>1, <1>3, PartOf
<1>5. \A i \in 1..n : SubSeq(s, k, k + n - 1)[i] = At(i - 1)
  <2> TAKE i \in 1..n
  <2>1. i - 1 \in 0..(Count - 1) /\ k + (i - 1) = k + i - 1
    BY <1>1, <1>2
  <2> QED BY <1>1, <1>4, <2>1
<1>6. SubSeq(s, k, k + n - 1) = [i \in 1..n |-> At(i - 1)]
  BY <1>4, <1>5
<1> QED BY <1>2, <1>6 DEF Packet, n, s

\* Skipping a byte leaves the parser where it was.
LEMMA SkipFindsNothing ==
    ASSUME TypeOK, RingHoldsUnread, Skip, NEW more \in Seq(Byte)
    PROVE  ParseFrom(written \o more, taken + 1) = ParseFrom(written \o more, taken + 2)
<1> DEFINE s == written \o more
           k == taken + 1
<1>1. /\ s \in Seq(Byte) /\ Count \in Nat /\ taken \in Nat
      /\ Len(s) = taken + Count + Len(more) /\ Len(more) \in Nat
      /\ \A j \in 0..(Count - 1) : s[k + j] = At(j)
  <2>1. Len(more) \in Nat
    OBVIOUS
  <2> QED BY <2>1, UnreadBytes, Zenon
<1>2. Count >= 1
  BY <1>1, TestsByCount DEF Skip
<1> HIDE DEF s
<1>3. k \in 1..Len(s) /\ s[k] = At(0) /\ k + 1 = taken + 2
  <2>1. 0 \in 0..(Count - 1) /\ k + 0 = k
    BY <1>1, <1>2
  <2> QED BY <1>1, <1>2, <2>1
<1>4. Sized => k < Len(s) /\ s[k + 1] = ucSize
  <2> SUFFICES ASSUME Sized PROVE k < Len(s) /\ s[k + 1] = ucSize
    OBVIOUS
  <2>1. Count >= 2
    BY <1>1, <1>2, TestsByCount DEF Sized
  <2>2. 1 \in 0..(Count - 1)
    BY <1>1, <2>1
  <2> QED BY <1>1, <2>1, <2>2 DEF ucSize
<1>5. CASE ~Tagged
  <2>1. s[k] # TAG_CMD
    BY <1>3, <1>5 DEF Tagged, Skip
  <2> QED BY <1>1, <1>3, <2>1, NoPacketHere DEF s
<1>6. CASE Sized /\ ~SizeOK
  <2>1. s[k + 1] \notin Sizes
    BY <1>4, <1>6, ScanTypes, RingSize DEF SizeOK, Sizes
  <2> QED BY <1>1, <1>3, <1>4, <1>6, <2>1, NoPacketHere DEF s
<1>7. CASE Complete /\ Checksum # 0
  <2>1. Sized
    BY <1>7 DEF Complete, SizeOK
  <2>2. /\ ucSize \in Sizes /\ ucSize <= Count
        /\ Packet = SubSeq(s, k, k + ucSize - 1)
    BY <1>7, PacketIsPart DEF s
  <2>3. k + s[k + 1] <= Len(s) + 1
    BY <1>1, <1>4, <2>1, <2>2, ScanTypes
  <2>4. ByteSum(SubSeq(s, k, k + s[k + 1] - 1)) # 0
    BY <1>4, <1>7, <2>1, <2>2 DEF Checksum
  <2> QED BY <1>1, <1>3, <1>4, <2>1, <2>3, <2>4, NoPacketHere DEF s
<1> QED BY <1>5, <1>6, <1>7 DEF Skip

\* A packet handled is one that the parser finds.
LEMMA HandledIsFound ==
    ASSUME TypeOK, RingHoldsUnread, Complete, Checksum = 0, NEW more \in Seq(Byte)
    PROVE  ParseFrom(written \o more, taken + 1) =
             <<Packet>> \o ParseFrom(written \o more, taken + 1 + ucSize)
<1> DEFINE s == written \o more
           k == taken + 1
<1>1. /\ s \in Seq(Byte) /\ Count \in Nat /\ taken \in Nat
      /\ Len(s) = taken + Count + Len(more) /\ Len(more) \in Nat
      /\ \A j \in 0..(Count - 1) : s[k + j] = At(j)
  <2>1. Len(more) \in Nat
    OBVIOUS
  <2> QED BY <2>1, UnreadBytes, Zenon
<1>2. /\ ucSize \in Sizes /\ ucSize <= Count
      /\ Packet = SubSeq(s, k, k + ucSize - 1)
  BY PacketIsPart
<1>3. ucSize \in Nat /\ ucSize >= 4
  BY <1>2, RingSize DEF Sizes
<1> HIDE DEF s
<1>4. 0 \in 0..(Count - 1) /\ 1 \in 0..(Count - 1) /\ k + 0 = k
  BY <1>1, <1>2, <1>3
<1>5. s[k] = TAG_CMD /\ s[k + 1] = ucSize
  BY <1>1, <1>4 DEF Complete, SizeOK, Sized, Tagged, ucSize
<1>6. k \in 1..Len(s) /\ k + ucSize <= Len(s) + 1
  BY <1>1, <1>2, <1>3
<1>7. ByteSum(SubSeq(s, k, k + ucSize - 1)) = 0
  BY <1>2 DEF Checksum
<1> QED BY <1>1, <1>2, <1>5, <1>6, <1>7, PacketHere DEF s
\* Where there is no tag for a few bytes, the parser passes over all of them.
LEMMA PassOver ==
    ASSUME NEW s \in Seq(Byte), NEW k \in Nat \ {0}, k + 5 <= Len(s) + 1,
           \A j \in 1..4 : s[k + j] # TAG_CMD,
           NEW p \in 1..4
    PROVE  ParseFrom(s, k + p) = ParseFrom(s, k + 5)
<1>1. Len(s) \in Nat
  OBVIOUS
<1>2. ASSUME NEW j \in 1..4 PROVE ParseFrom(s, k + j) = ParseFrom(s, (k + j) + 1)
  <2>1. k + j \in 1..Len(s)
    BY <1>1, <1>2
  <2> QED BY <1>2, <2>1, NoPacketHere
<1>3. ParseFrom(s, k + 4) = ParseFrom(s, k + 5)
  <2>1. 4 \in 1..4 /\ (k + 4) + 1 = k + 5
    OBVIOUS
  <2> QED BY <1>2, <2>1
<1>4. ParseFrom(s, k + 3) = ParseFrom(s, k + 5)
  <2>1. 3 \in 1..4 /\ (k + 3) + 1 = k + 4
    OBVIOUS
  <2> QED BY <1>2, <1>3, <2>1
<1>5. ParseFrom(s, k + 2) = ParseFrom(s, k + 5)
  <2>1. 2 \in 1..4 /\ (k + 2) + 1 = k + 3
    OBVIOUS
  <2> QED BY <1>2, <1>4, <2>1
<1>6. ParseFrom(s, k + 1) = ParseFrom(s, k + 5)
  <2>1. 1 \in 1..4 /\ (k + 1) + 1 = k + 2
    OBVIOUS
  <2> QED BY <1>2, <1>5, <2>1
<1>7. p = 1 \/ p = 2 \/ p = 3 \/ p = 4
  OBVIOUS
<1> QED BY <1>3, <1>4, <1>5, <1>6, <1>7

\* A request whose ucSize has been overwritten holds no second tag.
LEMMA RequestHoldsNoTag ==
    ASSUME NoTagInRequest, TypeOK, ucSize = 5, Checksum = 0, At(0) = TAG_CMD,
           At(2) = CMD_GET_PARAM_DESC, At(3) \in DOMAIN ParamSize
    PROVE  \A j \in 1..4 : At(j) # TAG_CMD
<1>1. /\ TAG_CMD # 5 /\ TAG_CMD # CMD_GET_PARAM_DESC /\ TAG_CMD # At(3)
      /\ ByteSum(<<TAG_CMD, 5, CMD_GET_PARAM_DESC, At(3), TAG_CMD>>) # 0
  BY DEF NoTagInRequest
<1>2. At(1) = 5
  BY DEF ucSize
<1>3. ASSUME At(4) = TAG_CMD PROVE FALSE
  <2>1. Packet = [i \in 1..5 |-> At(i - 1)]
    BY DEF Packet
  <2>2. /\ Packet[1] = At(0) /\ Packet[2] = At(1) /\ Packet[3] = At(2)
        /\ Packet[4] = At(3) /\ Packet[5] = At(4)
    BY <2>1
  <2>3. Packet = <<Packet[1], Packet[2], Packet[3], Packet[4], Packet[5]>>
    BY <2>1
  <2>4. Packet = <<TAG_CMD, 5, CMD_GET_PARAM_DESC, At(3), TAG_CMD>>
    BY <1>2, <1>3, <2>2, <2>3
  <2> QED BY <1>1, <2>4 DEF Checksum
<1>4. \A j \in 1..4 : j = 1 \/ j = 2 \/ j = 3 \/ j = 4
  OBVIOUS
<1> QED BY <1>1, <1>2, <1>3, <1>4

\* Wherever the scan resumes after a packet, the parser goes on behind it.
LEMMA ResumesBehind ==
    ASSUME NoTagInRequest, TypeOK, RingHoldsUnread, Complete, Checksum = 0,
           NEW more \in Seq(Byte)
    PROVE  ParseFrom(written \o more, taken + Consumed + 1) =
             ParseFrom(written \o more, taken + 1 + ucSize)
<1> DEFINE s == written \o more
           k == taken + 1
           overwritten == /\ At(2) = CMD_GET_PARAM_DESC /\ ucSize = 5
                          /\ At(3) \in DOMAIN ParamSize
<1>1. /\ s \in Seq(Byte) /\ Count \in Nat /\ taken \in Nat
      /\ Len(s) = taken + Count + Len(more) /\ Len(more) \in Nat
      /\ \A j \in 0..(Count - 1) : s[k + j] = At(j)
  <2>1. Len(more) \in Nat
    OBVIOUS
  <2> QED BY <2>1, UnreadBytes, Zenon
<1>2. ucSize <= Count /\ At(0) = TAG_CMD /\ ucSize \in Nat
  BY PacketIsPart, ScanTypes DEF Complete, SizeOK, Sized, Tagged
<1> HIDE DEF s
<1>3. CASE ~overwritten
  <2>1. Consumed = ucSize
    BY <1>3 DEF Consumed
  <2>2. taken + ucSize + 1 = taken + 1 + ucSize
    BY <1>1, <1>2
  <2> QED BY <2>1, <2>2
<1>4. CASE overwritten
  <2>1. Consumed = ParamSize[At(3)]
    BY <1>4 DEF Consumed
  <2>2. ParamSize[At(3)] \in 1..4
    BY <1>4, RingAssumption
  <2>3. \A j \in 1..4 : At(j) # TAG_CMD
    BY <1>2, <1>4, RequestHoldsNoTag
  <2>4. \A j \in 1..4 : j \in 0..(Count - 1)
    BY <1>1, <1>2, <1>4
  <2>5. \A j \in 1..4 : s[k + j] # TAG_CMD
    BY <1>1, <2>3, <2>4
  <2>6. k \in Nat \ {0} /\ k + 5 <= Len(s) + 1
    BY <1>1, <1>2, <1>4
  <2>7. ParseFrom(s, k + ParamSize[At(3)]) = ParseFrom(s, k + 5)
    BY <1>1, <2>2, <2>5, <2>6, PassOver
  <2>8. taken + ParamSize[At(3)] + 1 = k + ParamSize[At(3)]
    BY <1>1, <2>2
  <2> QED BY <1>4, <2>1, <2>7, <2>8 DEF s
<1> QED BY <1>3, <1>4

\* The scan stops where there is nothing left to find yet.
LEMMA NothingLeft ==
    ASSUME TypeOK, RingHoldsUnread, StopScan
    PROVE  ParseFrom(written, taken + 1) = << >>
<1> DEFINE k == taken + 1
<1>1. /\ written \in Seq(Byte) /\ Count \in Nat /\ taken \in Nat
      /\ Len(written) = taken + Count
      /\ \A j \in 0..(Count - 1) : written[k + j] = At(j)
  <2>1. \A j \in Int : taken + j + 1 = k + j
    BY DEF TypeOK
  <2>2. written \in Seq(Byte) /\ taken \in Nat /\ Count \in Nat
    BY TestsByCount DEF TypeOK
  <2>3. Len(written) = taken + Count
    BY <2>2 DEF RingHoldsUnread
  <2>4. ASSUME NEW j \in 0..(Count - 1) PROVE written[k + j] = At(j)
    BY <2>1, <2>2, <2>4 DEF RingHoldsUnread
  <2> QED BY <2>2, <2>3, <2>4
<1>2. k \in 1..(Len(written) + 1)
  BY <1>1
<1>3. CASE read = write
  <2>1. k > Len(written)
    BY <1>1, <1>3, TestsByCount
  <2> QED BY <1>1, <1>2, <2>1, ParseFromStep
<1>4. CASE Tagged /\ ~Sized
  <2>1. Count = 1 /\ At(0) = TAG_CMD
    BY <1>4, TestsByCount DEF Tagged, Sized
  <2>2. k = Len(written) /\ written[k] = TAG_CMD
    <3>1. 0 \in 0..(Count - 1) /\ k + 0 = k
      BY <1>1, <2>1
    <3> QED BY <1>1, <2>1, <3>1
  <2>3. Unfinished(written, k)
    BY <2>2 DEF Unfinished
  <2> QED BY <1>1, <1>2, <2>3, ParseFromStep
<1>5. CASE SizeOK /\ ~Complete
  <2>1. /\ At(0) = TAG_CMD /\ Count # 0 /\ Count # 1
        /\ ucSize \in Sizes /\ ucSize \in Nat /\ Count < ucSize
    BY <1>1, <1>5, TestsByCount, ScanTypes, RingSize
       DEF Complete, SizeOK, Sized, Tagged, Sizes
  <2>2. 0 \in 0..(Count - 1) /\ 1 \in 0..(Count - 1) /\ k + 0 = k
    BY <1>1, <2>1
  <2>3. written[k] = TAG_CMD /\ written[k + 1] = ucSize
    BY <1>1, <2>1, <2>2 DEF ucSize
  <2>4. k + ucSize > Len(written) + 1
    BY <1>1, <2>1
  <2>5. Unfinished(written, k)
    BY <2>1, <2>3, <2>4 DEF Unfinished
  <2> QED BY <1>1, <1>2, <2>5, ParseFromStep
<1> QED BY <1>3, <1>4, <1>5 DEF StopScan

-----------------------------------------------------------------------------
(* While every segment fits its first pbuf, what is copied is what came.    *)

\* The bytes of the present segment that are still to be copied.
Left == IF pc = "idle" \/ q # 1 THEN 0 ELSE Len(chain[1]) - ulIdx

PassedInv ==
    fitted =>
        /\ pc # "idle" => Len(chain) = 1 /\ q \in 1..2
        /\ pc # "idle" /\ q = 1 => ulIdx \in 0..Len(chain[1])
        /\ pc = "scan" /\ final => q = 2
        /\ Len(passed) = Len(written) + Left
        /\ \A i \in 1..Len(written) : passed[i] = written[i]
        /\ \A i \in 1..Left : passed[Len(written) + i] = chain[1][ulIdx + i]

\* A segment that fits begins to be copied.
LEMMA ReceiveLeaves ==
    ASSUME TypeOK, TypeOK', PassedInv, NEW n \in 1..Len(stream), Receive(n)
    PROVE  PassedInv'
<1> DEFINE segment == SubSeq(stream, received + 1, received + n)
<1>1. segment \in Seq(Byte) /\ Len(segment) \in Nat
  <2>1. segment \in Seq(Byte)
    BY SegmentBytes
  <2> HIDE DEF segment
  <2> QED BY <2>1
<1>2. /\ pc = "idle" /\ pc' = "copy" /\ q' = 1 /\ ulIdx' = 0
      /\ chain' = Pbufs(segment) /\ passed' = passed \o segment
      /\ fitted' = (fitted /\ Len(segment) <= FirstPbuf)
      /\ written' = written
  BY DEF Receive
<1> HIDE DEF segment
<1>3. SUFFICES ASSUME fitted' PROVE PassedInv'
  BY DEF PassedInv
<1>4. fitted /\ chain' = <<segment>>
  BY <1>2, <1>3 DEF Pbufs
<1>5. /\ Len(passed) = Len(written) /\ Len(written) \in Nat
      /\ \A i \in 1..Len(written) : passed[i] = written[i]
  <2>1. Left = 0
    BY <1>2 DEF Left
  <2>2. /\ Len(passed) = Len(written) + Left
        /\ \A i \in 1..Len(written) : passed[i] = written[i]
    BY <1>4 DEF PassedInv
  <2>3. written \in Seq(Byte)
    BY DEF TypeOK
  <2>4. Len(written) \in Nat
    BY <2>3
  <2> QED BY ONLY <2>1, <2>2, <2>4
<1>6. /\ Len(passed') = Len(passed) + Len(segment)
      /\ \A i \in 1..Len(passed) : passed'[i] = passed[i]
      /\ \A i \in 1..Len(segment) : passed'[Len(passed) + i] = segment[i]
  <2>1. passed \in Seq(Byte)
    BY DEF TypeOK
  <2> QED BY <1>1, <1>2, <2>1, Joined
<1>7. Left' = Len(segment) /\ Len(chain') = 1 /\ chain'[1] = segment
  BY <1>1, <1>2, <1>4 DEF Left
<1>8. \A i \in 1..Len(segment) : ulIdx' + i = i
  BY <1>1, <1>2
<1> QED BY <1>1, <1>2, <1>5, <1>6, <1>7, <1>8 DEF PassedInv

\* The next byte copied is the next that came.
LEMMA CopyLeaves ==
    ASSUME TypeOK, TypeOK', PassedInv, NEW b \in Byte, CopyByte(b)
    PROVE  PassedInv'
<1>1. /\ pc = "copy" /\ q <= Len(chain) /\ ulIdx < Len(chain[q]) /\ b \in PucData
      /\ ulIdx' = ulIdx + 1 /\ written' = Append(written, b)
      /\ pc' \in {"copy", "scan"} /\ final' = FALSE
      /\ UNCHANGED <<chain, q, passed, fitted>>
  BY DEF CopyByte, connVars
<1>2. SUFFICES ASSUME fitted PROVE PassedInv'
  BY <1>1 DEF PassedInv
<1>3. /\ Len(chain) = 1 /\ q = 1 /\ ulIdx \in Nat /\ Len(chain[1]) \in Nat
      /\ ulIdx < Len(chain[1])
  <2>1. Len(chain) = 1 /\ q \in 1..2 /\ ulIdx \in Nat
    BY <1>1, <1>2 DEF PassedInv, TypeOK
  <2>2. q = 1
    BY <1>1, <2>1
  <2>3. chain[1] \in Seq(Byte)
    <3>1. chain \in Seq(Seq(Byte)) /\ 1 \in 1..Len(chain)
      BY <2>1 DEF TypeOK
    <3> QED BY <3>1
  <2> QED BY <1>1, <2>1, <2>2, <2>3
<1>4. b = chain[1][ulIdx + 1]
  BY <1>1, <1>3 DEF PucData
<1>5. /\ Left = Len(chain[1]) - ulIdx /\ Left' = Left - 1 /\ Left \in Nat \ {0}
  BY <1>1, <1>3 DEF Left
<1>6. /\ Len(written) \in Nat /\ Len(written') = Len(written) + 1
      /\ written'[Len(written) + 1] = b
      /\ \A i \in 1..Len(written) : written'[i] = written[i]
  <2>1. written \in Seq(Byte)
    BY DEF TypeOK
  <2> QED BY <1>1, <2>1, Appended
<1> DEFINE w == Len(written)
           left == Left
<1>7. /\ Len(passed) = w + left
      /\ \A i \in 1..w : passed[i] = written[i]
      /\ \A i \in 1..left : passed[w + i] = chain[1][ulIdx + i]
  BY <1>2 DEF PassedInv
<1>8. w \in Nat /\ left \in Nat \ {0} /\ Left' = left - 1 /\ Len(written') = w + 1
      /\ written'[w + 1] = b /\ \A i \in 1..w : written'[i] = written[i]
  BY <1>5, <1>6
<1> HIDE DEF w, left
<1>9. ASSUME NEW i \in 1..(w + 1) PROVE passed'[i] = written'[i]
  <2>1. CASE i \in 1..w
    BY <1>1, <1>7, <1>8, <2>1
  <2>2. CASE i = w + 1
    <3>1. 1 \in 1..left
      BY <1>8
    <3> QED BY <1>1, <1>4, <1>7, <1>8, <2>2, <3>1
  <2> QED BY <1>8, <2>1, <2>2
<1>10. ASSUME NEW i \in 1..(left - 1) PROVE passed'[w + 1 + i] = chain'[1][ulIdx' + i]
  <2>1. i + 1 \in 1..left /\ w + (i + 1) = w + 1 + i /\ ulIdx + (i + 1) = ulIdx' + i
    BY <1>1, <1>3, <1>8
  <2> QED BY <1>1, <1>7, <2>1
<1>11. Len(passed') = (w + 1) + (left - 1)
  BY <1>1, <1>7, <1>8
<1>12. ulIdx' \in 0..Len(chain[1])
  BY <1>1, <1>3
<1> QED BY <1>1, <1>3, <1>8, <1>9, <1>10, <1>11, <1>12 DEF PassedInv

\* No other step copies or receives.
LEMMA NextPbufLeaves ==
    ASSUME TypeOK, PassedInv, NextPbuf
    PROVE  PassedInv'
<1>1. /\ pc = "copy" /\ q <= Len(chain) /\ ulIdx = Len(chain[q]) /\ q' = q + 1
      /\ UNCHANGED <<pc, chain, final, passed, fitted, written>>
  BY DEF NextPbuf, connVars
<1>2. SUFFICES ASSUME fitted PROVE PassedInv'
  BY <1>1 DEF PassedInv
<1>3. Len(chain) = 1 /\ q = 1 /\ q' = 2 /\ ulIdx = Len(chain[1])
  <2>1. pc # "idle"
    BY <1>1
  <2>2. Len(chain) = 1 /\ q \in 1..2
    BY <1>2, <2>1 DEF PassedInv
  <2>3. q = 1
    BY <1>1, <2>2
  <2> QED BY <1>1, <2>2, <2>3
<1>4. Left = 0 /\ Left' = 0
  BY <1>1, <1>3 DEF Left, TypeOK
<1> QED BY <1>1, <1>2, <1>3, <1>4 DEF PassedInv

LEMMA CopiedIsPassed == Spec => []PassedInv
<1>1. Init => PassedInv
  BY DEF Init, PassedInv, Left
<1>2. TypeOK /\ TypeOK' /\ PassedInv /\ [Next]_vars => PassedInv'
  <2> SUFFICES ASSUME TypeOK, TypeOK', PassedInv, [Next]_vars PROVE PassedInv'
    OBVIOUS
  <2>1. ASSUME UNCHANGED <<pc, chain, q, ulIdx, final, passed, fitted, written>>
        PROVE  PassedInv'
    BY <2>1 DEF PassedInv, Left
  <2>2. ASSUME NEW n \in 1..Len(stream), Receive(n) PROVE PassedInv'
    BY <2>2, ReceiveLeaves
  <2>3. CASE NextPbuf
    BY <2>3, NextPbufLeaves
  <2>4. ASSUME NEW b \in Byte, CopyByte(b) PROVE PassedInv'
    BY <2>4, CopyLeaves
  <2>5. CASE CopyDone
    <3>1. /\ pc = "copy" /\ pc' = "scan" /\ q > Len(chain)
          /\ UNCHANGED <<chain, q, ulIdx, passed, fitted, written>>
      BY <2>5 DEF CopyDone, copyVars, connVars
    <3>2. Left' = Left
      BY <3>1 DEF Left
    <3>3. SUFFICES ASSUME fitted PROVE PassedInv'
      BY <3>1 DEF PassedInv
    <3>4. Len(chain) = 1 /\ q \in 1..2
      BY <3>1, <3>3 DEF PassedInv
    <3>5. q = 2
      BY ONLY <3>1, <3>4
    <3>6. /\ Len(passed) = Len(written) + Left
          /\ \A i \in 1..Len(written) : passed[i] = written[i]
          /\ \A i \in 1..Left : passed[Len(written) + i] = chain[1][ulIdx + i]
      BY <3>3, Zenon DEF PassedInv
    <3>7. /\ Len(passed') = Len(written') + Left'
          /\ \A i \in 1..Len(written') : passed'[i] = written'[i]
          /\ \A i \in 1..Left' : passed'[Len(written') + i] = chain'[1][ulIdx' + i]
      <4>1. passed' = passed /\ written' = written /\ chain' = chain /\ ulIdx' = ulIdx
        BY <3>1
      <4> QED BY <3>2, <3>6, <4>1, Zenon
    <3>8. Len(chain') = 1 /\ q' = 2
      BY ONLY <3>1, <3>4, <3>5
    <3>9. q' # 1 /\ q' \in 1..2
      BY ONLY <3>8
    <3> QED BY <3>7, <3>8, <3>9, Zenon DEF PassedInv
  <2>6. CASE Skip \/ HandlePacket
    BY <2>1, <2>6 DEF Skip, HandlePacket, Advance, copyVars, connVars
  <2>7. CASE StopScan
    <3>1. /\ pc = "scan" /\ pc' = (IF final THEN "idle" ELSE "copy")
          /\ UNCHANGED <<chain, q, ulIdx, final, passed, fitted, written>>
      BY <2>7 DEF StopScan, copyVars, connVars
    <3>2. CASE ~final
      BY <3>1, <3>2 DEF PassedInv, Left
    <3>3. CASE final
      BY <3>1, <3>3 DEF PassedInv, Left
    <3> QED BY <3>2, <3>3
  <2>8. CASE UIEthernetAccept
    BY <2>1, <2>8 DEF UIEthernetAccept, copyVars
  <2>9. CASE UNCHANGED vars
    BY <2>1, <2>9 DEF vars
  <2> QED BY <2>2, <2>3, <2>4, <2>5, <2>6, <2>7, <2>8, <2>9 DEF Next, Handler
<1> QED BY <1>1, <1>2, TypeCorrect, PTL DEF Spec

-----------------------------------------------------------------------------
\* As long as every segment fits its first pbuf, the packets handled depend on
\* the bytes received only: not on how they were cut into segments, on the
\* place in the ring where they came to lie, or on what came behind them
\* (UIEthernetReceive, UIEthernetScanReceive).
THEOREM CutsAreInvisible == NoTagInRequest => (Spec => []CutsDoNotMatter)
<1> SUFFICES ASSUME NoTagInRequest PROVE Spec => []CutsDoNotMatter
  OBVIOUS
<1>1. Init => ParseInv
  <2> SUFFICES ASSUME Init PROVE ParseInv
    OBVIOUS
  <2>1. written = << >> /\ handled = << >> /\ taken = 0
    BY DEF Init
  <2>2. ASSUME NEW more \in Seq(Byte)
        PROVE  Parse(written \o more) = handled \o ParseFrom(written \o more, taken + 1)
    <3>1. written \o more = more
      BY <2>1
    <3>2. Len(more) \in Nat
      OBVIOUS
    <3>3. 1 \in 1..(Len(more) + 1)
      BY <3>2
    <3>4. ParseFrom(more, 1) \in Seq(Seq(Byte))
      BY <3>3, ParseFromStep DEF Packets
    <3>5. << >> \o ParseFrom(more, 1) = ParseFrom(more, 1)
      BY <3>4
    <3>6. taken + 1 = 1
      BY <2>1
    <3> QED BY <2>1, <3>1, <3>5, <3>6 DEF Parse
  <2>3. ParseFrom(written, taken + 1) = << >>
    <3>1. << >> \in Seq(Byte) /\ Len(<< >>) = 0
      OBVIOUS
    <3>2. ASSUME NEW s \in Seq(Byte), Len(s) = 0 PROVE ParseFrom(s, 1) = << >>
      <4>1. 1 \in 1..(Len(s) + 1) /\ 1 > Len(s)
        BY <3>2
      <4> QED BY <4>1, ParseFromStep
    <3>3. taken + 1 = 1
      BY <2>1
    <3> QED BY <2>1, <3>1, <3>2, <3>3
  <2> QED BY <2>2, <2>3 DEF ParseInv
<1>2. TypeOK /\ TypeOK' /\ RingHoldsUnread /\ ParseInv /\ [Next]_vars => ParseInv'
  <2> SUFFICES ASSUME TypeOK, TypeOK', RingHoldsUnread, ParseInv, [Next]_vars
               PROVE  ParseInv'
    OBVIOUS
  <2>1. ASSUME UNCHANGED <<written, taken, handled>>,
               pc' = "idle" => pc = "idle"
        PROVE  ParseInv'
    BY <2>1 DEF ParseInv
  <2>2. ASSUME NEW n \in 1..Len(stream), Receive(n) PROVE ParseInv'
    BY <2>1, <2>2 DEF Receive
  <2>3. CASE NextPbuf
    BY <2>1, <2>3 DEF NextPbuf
  <2>4. ASSUME NEW b \in Byte, CopyByte(b) PROVE ParseInv'
    <3>1. /\ written' = Append(written, b) /\ taken' = taken /\ handled' = handled
          /\ pc' # "idle" /\ written \in Seq(Byte)
      BY <2>4 DEF CopyByte, TypeOK
    <3>2. ASSUME NEW more \in Seq(Byte)
          PROVE  Parse(written' \o more) = handled' \o ParseFrom(written' \o more, taken' + 1)
      <4>1. <<b>> \o more \in Seq(Byte)
        OBVIOUS
      <4>2. written' \o more = written \o (<<b>> \o more)
        <5>1. Append(written, b) \o more = written \o (<<b>> \o more)
          BY <3>1
        <5> QED BY <3>1, <5>1
      <4>3. Parse(written \o (<<b>> \o more)) =
              handled \o ParseFrom(written \o (<<b>> \o more), taken + 1)
        BY <4>1 DEF ParseInv
      <4> QED BY <3>1, <4>2, <4>3
    <3> QED BY <3>1, <3>2 DEF ParseInv
  <2>5. CASE CopyDone
    BY <2>1, <2>5 DEF CopyDone
  <2>6. CASE Skip
    <3>1. /\ written' = written /\ handled' = handled /\ taken' = taken + 1
          /\ pc' # "idle" /\ taken \in Nat
      BY <2>6 DEF Skip, Advance, TypeOK
    <3>2. taken' + 1 = taken + 2
      BY <3>1
    <3> QED BY <2>6, <3>1, <3>2, SkipFindsNothing DEF ParseInv
  <2>7. CASE HandlePacket
    <3>1. /\ written' = written /\ handled' = Append(handled, Packet)
          /\ taken' = taken + Consumed /\ pc' # "idle"
          /\ Complete /\ Checksum = 0
      BY <2>7 DEF HandlePacket, Advance
    <3>2. ASSUME NEW more \in Seq(Byte)
          PROVE  Parse(written \o more) =
                   Append(handled, Packet) \o ParseFrom(written \o more, taken + Consumed + 1)
      <4> DEFINE others == ParseFrom(written \o more, taken + 1 + ucSize)
      <4>1. Parse(written \o more) = handled \o (<<Packet>> \o others)
        BY <3>1, HandledIsFound DEF ParseInv
      <4>2. ParseFrom(written \o more, taken + Consumed + 1) = others
        BY <3>1, ResumesBehind
      <4>3. others \in Seq(Seq(Byte))
        <5>1. /\ written \o more \in Seq(Byte) /\ taken \in Nat /\ Count \in Nat
              /\ Len(written \o more) = taken + Count + Len(more) /\ Len(more) \in Nat
          BY UnreadBytes
        <5>2. ucSize \in Nat /\ ucSize <= Count
          BY <3>1, PacketIsPart, ScanTypes
        <5>3. taken + 1 + ucSize \in 1..(Len(written \o more) + 1)
          BY <5>1, <5>2
        <5> QED BY <5>1, <5>3, ParseFromStep DEF Packets
      <4>4. handled \in Seq(Seq(Byte)) /\ Packet \in Seq(Byte)
        <5>1. handled \in Seq(Seq(Byte)) /\ handled' \in Seq(Seq(Byte))
          BY DEF TypeOK
        <5>2. Len(handled) + 1 \in DOMAIN handled' /\ handled'[Len(handled) + 1] = Packet
          BY <3>1, <5>1
        <5> QED BY <5>1, <5>2
      <4> HIDE DEF others
      <4>5. Append(handled, Packet) \o others = handled \o (<<Packet>> \o others)
        BY <4>3, <4>4
      <4> QED BY <4>1, <4>2, <4>5
    <3> QED BY <3>1, <3>2 DEF ParseInv
  <2>8. CASE StopScan
    <3>1. UNCHANGED <<written, taken, handled>>
      BY <2>8 DEF StopScan
    <3> QED BY <2>8, <3>1, NothingLeft DEF ParseInv
  <2>9. CASE UIEthernetAccept
    BY <2>1, <2>9 DEF UIEthernetAccept
  <2>10. CASE UNCHANGED vars
    BY <2>1, <2>10 DEF vars
  <2> QED BY <2>2, <2>3, <2>4, <2>5, <2>6, <2>7, <2>8, <2>9, <2>10 DEF Next, Handler
<1>3. TypeOK /\ ParseInv /\ PassedInv => CutsDoNotMatter
  <2> SUFFICES ASSUME TypeOK, ParseInv, PassedInv, pc = "idle", fitted
               PROVE  handled = Parse(passed)
    BY DEF CutsDoNotMatter
  <2>1. << >> \in Seq(Byte) /\ written \o << >> = written /\ handled \o << >> = handled
    BY DEF TypeOK
  <2>2. Parse(written \o << >>) = handled \o ParseFrom(written \o << >>, taken + 1)
    BY <2>1 DEF ParseInv
  <2>3. ParseFrom(written, taken + 1) = << >>
    BY DEF ParseInv
  <2>4. passed = written
    <3>1. passed \in Seq(Byte) /\ written \in Seq(Byte)
      BY DEF TypeOK
    <3>2. Len(passed) = Len(written) /\ \A i \in 1..Len(written) : passed[i] = written[i]
      BY <3>1 DEF PassedInv, Left
    <3> QED BY <3>1, <3>2
  <2> QED BY <2>1, <2>2, <2>3, <2>4
<1> QED BY <1>1, <1>2, <1>3, TypeCorrect, RingIsFaithful, CopiedIsPassed, PTL DEF Spec
-----------------------------------------------------------------------------
(* UartFraming: the sums.                                                  *)

LEMMA BaseIsNat == Base \in Nat /\ Base > 1 /\ \A x \in Int : x % Base \in UartByte
<1>1. Base \in Nat /\ Base > 1
  BY UartAssumption
<1> QED BY <1>1 DEF UartByte

LEMMA BytesAreNumbers == UartByte \subseteq Int
  BY DEF UartByte

LEMMA ModuloBase ==
    ASSUME NEW x \in Nat
    PROVE  x % Base <= x /\ (x < Base => x % Base = x)
  BY BaseIsNat

LEMMA Elements ==
    ASSUME NEW S, NEW s \in Seq(S)
    PROVE  Len(s) \in Nat /\ \A i \in 1..Len(s) : s[i] \in S
OBVIOUS

LEMMA Rest ==
    ASSUME NEW S, NEW s \in Seq(S), s # << >>
    PROVE  /\ Head(s) \in S /\ Head(s) = s[1]
           /\ Tail(s) \in Seq(S) /\ Len(Tail(s)) = Len(s) - 1
           /\ \A i \in 1..(Len(s) - 1) : Tail(s)[i] = s[i + 1]
           /\ Len(s) \in Nat \ {0}
OBVIOUS

\* The same part of two sequences that agree there.
LEMMA SamePart ==
    ASSUME NEW S, NEW s \in Seq(S), NEW t \in Seq(S), NEW m \in Nat \ {0}, NEW n \in Int,
           n <= Len(s), n <= Len(t), \A i \in m..n : s[i] = t[i]
    PROVE  /\ SubSeq(s, m, n) \in Seq(S) /\ SubSeq(s, m, n) = SubSeq(t, m, n)
           /\ Len(SubSeq(s, m, n)) = IF m <= n THEN n - m + 1 ELSE 0
           /\ \A i \in 1..(n - m + 1) : SubSeq(s, m, n)[i] = s[m + i - 1]
<1> DEFINE one == SubSeq(s, m, n)
           two == SubSeq(t, m, n)
<1>1. \A i \in m..n : i \in 1..Len(s) /\ i \in 1..Len(t)
  OBVIOUS
<1>2. \A i \in m..n : s[i] \in S /\ t[i] \in S
  BY <1>1
<1>3. /\ one \in Seq(S) /\ Len(one) = IF m <= n THEN n - m + 1 ELSE 0
      /\ \A i \in 1..(n - m + 1) : one[i] = s[m + i - 1]
  BY <1>2, SubSeqProperties
<1>4. /\ two \in Seq(S) /\ Len(two) = IF m <= n THEN n - m + 1 ELSE 0
      /\ \A i \in 1..(n - m + 1) : two[i] = t[m + i - 1]
  BY <1>2, SubSeqProperties
<1> HIDE DEF one, two
<1>5. \A i \in 1..Len(one) : i \in 1..(n - m + 1) /\ m + i - 1 \in m..n
  BY <1>3
<1>6. \A i \in 1..Len(one) : one[i] = two[i]
  BY <1>3, <1>4, <1>5
<1>7. one = two
  BY <1>3, <1>4, <1>6, SeqEqual
<1> QED BY <1>3, <1>7 DEF one, two

\* A running sum exists and stays a byte.
Running(L, x) == CHOOSE g : g = [i \in 0..L |->
                     IF i = 0 THEN 0 ELSE (g[i - 1] + x[i]) % Base]

LEMMA RunningSum ==
    ASSUME NEW L \in Nat, NEW x, \A i \in 1..L : x[i] \in UartByte
    PROVE  Running(L, x) \in [0..L -> UartByte]
<1> DEFINE f == Running(L, x)
           Entry(g, i) == IF i = 0 THEN 0 ELSE (g[i - 1] + x[i]) % Base
           Solves(g, n) == g \in [0..n -> UartByte] /\ \A i \in 0..n : g[i] = Entry(g, i)
           T == {n \in Nat : n <= L => \E g : Solves(g, n)}
<1>1. 0 \in UartByte /\ UartByte \subseteq Int
  BY BaseIsNat DEF UartByte
<1>2. 0 \in T
  <2> DEFINE g == [i \in {0} |-> 0]
  <2>1. Solves(g, 0)
    BY <1>1
  <2> QED BY <2>1
<1>3. ASSUME NEW n \in Nat, n \in T PROVE n + 1 \in T
  <2> SUFFICES ASSUME n + 1 <= L PROVE \E g : Solves(g, n + 1)
    OBVIOUS
  <2>1. \E g : Solves(g, n)
    BY <1>3
  <2>2. PICK g : Solves(g, n)
    BY <2>1
  <2> DEFINE last == (g[n] + x[n + 1]) % Base
             h == [i \in 0..(n + 1) |-> IF i <= n THEN g[i] ELSE last]
  <2>3. last \in UartByte
    <3>0. n \in 0..n /\ n + 1 \in 1..L
      OBVIOUS
    <3>1. g[n] \in Int /\ x[n + 1] \in Int
      BY <1>1, <2>2, <3>0
    <3>2. g[n] + x[n + 1] \in Int
      BY <3>1
    <3> QED BY <3>2, BaseIsNat
  <2> HIDE DEF last
  <2>4. h \in [0..(n + 1) -> UartByte]
    BY <2>2, <2>3
  <2>5. \A i \in 0..(n + 1) : h[i] = Entry(h, i)
    <3> TAKE i \in 0..(n + 1)
    <3>1. CASE i = 0
      BY <2>2, <3>1
    <3>2. CASE i \in 1..n
      BY <2>2, <3>2
    <3>3. CASE i = n + 1
      BY <2>2, <3>3 DEF last
    <3> QED BY <3>1, <3>2, <3>3
  <2>6. Solves(h, n + 1)
    <3> HIDE DEF h
    <3> QED BY <2>4, <2>5
  <2> QED BY <2>6
<1>4. \E g : Solves(g, L)
  <2>1. L \in T
    <3> HIDE DEF T
    <3> QED BY <1>2, <1>3, SetInduction
  <2> HIDE DEF Solves
  <2> QED BY <2>1
<1>5. PICK g : Solves(g, L)
  <2> HIDE DEF Solves
  <2> QED BY <1>4
<1>6. g = [i \in 0..L |-> Entry(g, i)]
  BY <1>5
<1>7. f = [i \in 0..L |-> Entry(f, i)]
  BY <1>6 DEF Running
<1> HIDE DEF f
<1> DEFINE U == {n \in Nat : n <= L => f[n] \in UartByte}
<1>8. 0 \in U
  <2>1. f[0] = 0
    BY <1>7
  <2> QED BY <1>1, <2>1
<1>9. ASSUME NEW n \in Nat, n \in U PROVE n + 1 \in U
  <2> SUFFICES ASSUME n + 1 <= L PROVE f[n + 1] \in UartByte
    OBVIOUS
  <2>0. n + 1 \in 1..L /\ n + 1 \in 0..L /\ n + 1 # 0 /\ n + 1 - 1 = n /\ n <= L
    OBVIOUS
  <2>1. f[n + 1] = (f[n] + x[n + 1]) % Base
    BY <1>7, <2>0
  <2>2. f[n] \in Int /\ x[n + 1] \in Int
    BY <1>1, <1>9, <2>0
  <2>3. f[n] + x[n + 1] \in Int
    BY <2>2
  <2> QED BY <2>1, <2>3, BaseIsNat
<1>10. \A n \in 0..L : f[n] \in UartByte
  <2>1. Nat \subseteq U
    <3> HIDE DEF U
    <3> QED BY <1>8, <1>9, SetInduction
  <2> QED BY <2>1
<1>11. f \in [0..L -> UartByte]
  <2> HIDE DEF U
  <2> QED BY <1>7, <1>10
<1> QED BY <1>11 DEF f

\* The two sums of calculate_checksum are bytes.
LEMMA SumsAreBytes ==
    ASSUME NEW bytes \in Seq(UartByte)
    PROVE  /\ Sums(bytes) \in Seq(UartByte)
           /\ Len(Sums(bytes)) = 2
           /\ Sums(bytes) = <<Sums(bytes)[1], Sums(bytes)[2]>>
<1> DEFINE L == Len(bytes)
           first == Running(L, bytes)
           second == Running(L, first)
<1>1. L \in Nat /\ \A i \in 1..L : bytes[i] \in UartByte
  OBVIOUS
<1>2. Sums(bytes) = <<first[L], second[L]>>
  BY DEF Sums, Running
<1> HIDE DEF L
<1>3. first \in [0..L -> UartByte]
  BY <1>1, RunningSum
<1>4. second \in [0..L -> UartByte]
  <2> HIDE DEF first
  <2>1. \A i \in 1..L : first[i] \in UartByte
    BY <1>1, <1>3
  <2> QED BY <1>1, <2>1, RunningSum
<1>5. first[L] \in UartByte /\ second[L] \in UartByte
  <2> HIDE DEF first, second
  <2> QED BY <1>1, <1>3, <1>4
<1> HIDE DEF first, second
<1> QED BY <1>2, <1>5

LEMMA SumsOfNothing == Sums(<< >>) = <<0, 0>>
<1> DEFINE g == [i \in 0..0 |-> 0]
<1>1. ASSUME NEW x PROVE Running(0, x)[0] = 0
  <2>1. g = [i \in 0..0 |-> IF i = 0 THEN 0 ELSE (g[i - 1] + x[i]) % Base]
    OBVIOUS
  <2>2. Running(0, x) = [i \in 0..0 |-> IF i = 0 THEN 0
                                        ELSE (Running(0, x)[i - 1] + x[i]) % Base]
    BY <2>1 DEF Running
  <2> HIDE DEF g
  <2> QED BY <2>2
<1>2. Len(<< >>) = 0
  OBVIOUS
<1>3. Sums(<< >>) = <<Running(0, << >>)[0], Running(0, Running(0, << >>))[0]>>
  BY <1>2 DEF Sums, Running
<1> QED BY <1>1, <1>3

-----------------------------------------------------------------------------
(* UartFraming: frames.                                                    *)

\* Bytes and the sums behind them are bytes, whatever their length byte says,
\* if it does not point behind them.
LEMMA WithSumsType ==
    ASSUME NEW bytes \in Seq(UartByte), Len(bytes) >= 2, bytes[2] - 2 <= Len(bytes)
    PROVE  /\ WithSums(bytes) \in Seq(UartByte)
           /\ Len(WithSums(bytes)) = Len(bytes) + 2
           /\ \A i \in 1..Len(bytes) : WithSums(bytes)[i] = bytes[i]
           /\ WithSums(bytes)[Len(bytes) + 1] = Sums(Summed(bytes))[1]
           /\ WithSums(bytes)[Len(bytes) + 2] = Sums(Summed(bytes))[2]
<1> DEFINE L == Len(bytes)
           last == bytes[2] - 2
           sums == Sums(Summed(bytes))
<1>1. L \in Nat /\ L >= 2 /\ last \in Int /\ last <= L
  <2>1. 2 \in 1..Len(bytes) /\ Len(bytes) \in Nat
    OBVIOUS
  <2>2. bytes[2] \in UartByte
    BY <2>1
  <2>3. bytes[2] \in Int
    BY <2>2, BytesAreNumbers
  <2> QED BY <2>1, <2>3
<1>2. Summed(bytes) \in Seq(UartByte)
  <2> HIDE DEF L, last
  <2>1. \A i \in 2..last : i \in 1..L
    BY <1>1
  <2>2. \A i \in 2..last : bytes[i] \in UartByte
    BY <2>1 DEF L
  <2>3. SubSeq(bytes, 2, last) \in Seq(UartByte)
    BY <1>1, <2>2, SubSeqProperties
  <2> QED BY <2>3 DEF Summed, last
<1>3. sums \in Seq(UartByte) /\ Len(sums) = 2
  BY <1>2, SumsAreBytes
<1> HIDE DEF sums
<1>4. /\ bytes \o sums \in Seq(UartByte)
      /\ Len(bytes \o sums) = Len(bytes) + 2
      /\ \A i \in 1..Len(bytes) : (bytes \o sums)[i] = bytes[i]
      /\ (bytes \o sums)[Len(bytes) + 1] = sums[1]
      /\ (bytes \o sums)[Len(bytes) + 2] = sums[2]
  <2>1. 1 \in 1..Len(sums) /\ 2 \in 1..Len(sums)
    BY <1>3
  <2> QED BY <1>3, <2>1, Joined
<1>5. WithSums(bytes) = bytes \o sums
  BY DEF WithSums, sums
<1> QED BY <1>4, <1>5 DEF sums

\* With the right length byte the sums agree.
LEMMA WithSumsAgrees ==
    ASSUME NEW bytes \in Seq(UartByte), Len(bytes) >= 2, bytes[2] = Len(bytes) + 2
    PROVE  SumsAgree(WithSums(bytes)) /\ WithSums(bytes)[2] = Len(bytes) + 2
<1> DEFINE L == Len(bytes)
           w == WithSums(bytes)
<1>1. L \in Nat /\ L >= 2 /\ bytes[2] - 2 = L /\ bytes[2] = L + 2
  OBVIOUS
<1>2. /\ w \in Seq(UartByte) /\ Len(w) = L + 2
      /\ \A i \in 1..L : w[i] = bytes[i]
      /\ w[L + 1] = Sums(Summed(bytes))[1]
      /\ w[L + 2] = Sums(Summed(bytes))[2]
  BY <1>1, WithSumsType
<1> HIDE DEF w, L
<1>3. 2 \in 1..L
  BY <1>1
<1>4. w[2] = L + 2 /\ w[2] - 1 = L + 1 /\ w[2] - 2 = L
  BY <1>1, <1>2, <1>3
<1>5. SubSeq(w, 2, L) = SubSeq(bytes, 2, L) /\ SubSeq(bytes, 2, L) \in Seq(UartByte)
  <2>1. \A i \in 2..L : i \in 1..L
    BY <1>1
  <2>2. \A i \in 2..L : w[i] = bytes[i]
    BY <1>2, <2>1
  <2>3. L <= Len(w) /\ L <= Len(bytes) /\ L \in Int /\ 2 \in Nat \ {0}
    BY <1>1, <1>2 DEF L
  <2> QED BY <1>2, <2>2, <2>3, SamePart
<1>6. Summed(w) = Summed(bytes) /\ Summed(bytes) \in Seq(UartByte)
  BY <1>1, <1>4, <1>5 DEF Summed
<1>7. <<w[w[2] - 1], w[w[2]]>> = Sums(Summed(w))
  <2>1. Sums(Summed(w)) = <<Sums(Summed(w))[1], Sums(Summed(w))[2]>>
    BY <1>6, SumsAreBytes
  <2> QED BY <1>2, <1>4, <1>6, <2>1
<1>8. {w[2] - 1, w[2]} \subseteq DOMAIN w
  BY <1>1, <1>2, <1>4
<1> QED BY <1>4, <1>7, <1>8 DEF SumsAgree, w, L

\* A frame of the autopilot.
LEMMA FrameIsGood ==
    ASSUME NEW body \in Seq(UartByte), Len(body) + 4 < Base
    PROVE  /\ Frame(body) \in Seq(UartByte)
           /\ Len(Frame(body)) = Len(body) + 4
           /\ Frame(body)[1] = START
           /\ Frame(body)[2] = Len(body) + 4
           /\ \A i \in 1..Len(body) : Frame(body)[i + 2] = body[i]
           /\ SumsAgree(Frame(body))
<1> DEFINE bytes == <<START, Len(body) + 4>> \o body
<1>1. Len(body) \in Nat
  OBVIOUS
<1>2. START \in UartByte /\ Len(body) + 4 \in UartByte
  BY <1>1, UartAssumption DEF UartByte
<1>3. /\ bytes \in Seq(UartByte) /\ Len(bytes) = Len(body) + 2
      /\ bytes[1] = START /\ bytes[2] = Len(body) + 4
      /\ \A i \in 1..Len(body) : bytes[i + 2] = body[i]
  BY <1>1, <1>2
<1> HIDE DEF bytes
<1>4. Len(bytes) >= 2 /\ bytes[2] = Len(bytes) + 2 /\ bytes[2] - 2 <= Len(bytes)
  BY <1>1, <1>3
<1>5. /\ WithSums(bytes) \in Seq(UartByte)
      /\ Len(WithSums(bytes)) = Len(bytes) + 2
      /\ \A i \in 1..Len(bytes) : WithSums(bytes)[i] = bytes[i]
      /\ SumsAgree(WithSums(bytes))
  BY <1>3, <1>4, WithSumsType, WithSumsAgrees
<1>6. /\ 1 \in 1..Len(bytes) /\ 2 \in 1..Len(bytes)
      /\ \A i \in 1..Len(body) : i + 2 \in 1..Len(bytes)
  BY <1>1, <1>3
<1>7. Frame(body) = WithSums(bytes)
  BY DEF Frame, bytes
<1> QED BY <1>1, <1>3, <1>5, <1>6, <1>7

\* What serial_input_get_lisa_data returns: as long as its length byte says,
\* with sums that agree.
Whole(frame) == /\ frame \in Seq(UartByte) /\ Len(frame) >= 2
                /\ frame[1] = START /\ frame[2] = Len(frame)
                /\ SumsAgree(frame)

\* It has room for a length byte and two sums behind its start byte: shorter
\* ones would need the sum zero in the place of a byte that is not zero.
LEMMA WholeHasFour ==
    ASSUME NEW frame, Whole(frame)
    PROVE  /\ Len(frame) \in Nat /\ Len(frame) >= 4 /\ Len(frame) < Base
           /\ Summed(frame) = SubSeq(frame, 2, Len(frame) - 2)
           /\ frame[Len(frame) - 1] = Sums(Summed(frame))[1]
           /\ frame[Len(frame)] = Sums(Summed(frame))[2]
<1> DEFINE L == Len(frame)
<1>1. /\ frame \in Seq(UartByte) /\ L \in Nat /\ L >= 2
      /\ frame[1] = START /\ frame[2] = L /\ SumsAgree(frame)
  BY DEF Whole
<1> HIDE DEF L
<1>2. L < Base
  <2>1. 2 \in 1..L
    BY <1>1
  <2>2. frame[2] \in UartByte
    BY <1>1, <2>1 DEF L
  <2> QED BY <1>1, <2>2, BaseIsNat DEF UartByte
<1>3. Summed(frame) = SubSeq(frame, 2, L - 2)
  BY <1>1 DEF Summed
<1>4. <<frame[L - 1], frame[L]>> = Sums(Summed(frame))
  BY <1>1 DEF SumsAgree
<1>5. ASSUME L < 4 PROVE FALSE
  <2>1. Summed(frame) = << >>
    <3>1. L - 2 \in Int /\ L - 2 < 2
      BY <1>1, <1>5
    <3> QED BY <1>3, <3>1, SubSeqEmpty
  <2>2. frame[L - 1] = 0 /\ frame[L] = 0
    BY <1>4, <2>1, SumsOfNothing
  <2>3. START # 0
    BY UartAssumption
  <2>4. L = 2 \/ L = 3
    BY <1>1, <1>5
  <2> QED BY <1>1, <2>2, <2>3, <2>4
<1> QED BY <1>1, <1>2, <1>3, <1>4, <1>5 DEF L

LEMMA StampsAreBytes ==
    ASSUME NEW tv \in Stamps
    PROVE  tv \in Seq(UartByte) /\ Len(tv) = StampSize /\ StampSize \in Nat
<1>1. tv \in [1..StampSize -> UartByte] /\ StampSize \in Nat
  BY UartAssumption
<1> QED BY <1>1

\* What add_timestamp makes of a frame before the sums are put behind it.
Stamped(frame, tv) == (<<frame[1], (frame[2] + StampSize) % Base>>
                         \o SubSeq(frame, 3, frame[2] - 2)) \o tv

LEMMA StampedBytes ==
    ASSUME NEW frame, Whole(frame), NEW tv \in Stamps
    PROVE  /\ Stamped(frame, tv) \in Seq(UartByte)
           /\ Len(Stamped(frame, tv)) = Len(frame) + StampSize - 2
           /\ Stamped(frame, tv)[1] = START
           /\ Stamped(frame, tv)[2] = (Len(frame) + StampSize) % Base
           /\ \A i \in 3..(Len(frame) - 2) : Stamped(frame, tv)[i] = frame[i]
<1> DEFINE L == Len(frame)
           head == <<frame[1], (frame[2] + StampSize) % Base>>
           mid == SubSeq(frame, 3, L - 2)
<1>1. L \in Nat /\ L >= 4 /\ L < Base /\ frame \in Seq(UartByte)
      /\ frame[1] = START /\ frame[2] = L
  BY WholeHasFour DEF Whole
<1>2. tv \in Seq(UartByte) /\ Len(tv) = StampSize /\ StampSize \in Nat
  BY StampsAreBytes
<1>3. head \in Seq(UartByte) /\ Len(head) = 2 /\ head[1] = START
      /\ head[2] = (L + StampSize) % Base
  <2>1. L + StampSize \in Int
    BY <1>1, <1>2
  <2>2. (L + StampSize) % Base \in UartByte
    BY <2>1, BaseIsNat
  <2>3. START \in UartByte
    BY UartAssumption
  <2> HIDE DEF L
  <2> QED BY <1>1, <2>2, <2>3
<1>4. /\ mid \in Seq(UartByte) /\ Len(mid) = L - 4
      /\ \A i \in 1..(L - 4) : mid[i] = frame[i + 2]
  <2> HIDE DEF L
  <2>1. L - 2 \in Int /\ L - 2 <= Len(frame) /\ 3 \in Nat \ {0} /\ (L - 2) - 3 + 1 = L - 4
    BY <1>1 DEF L
  <2> HIDE DEF mid
  <2>2. /\ mid \in Seq(UartByte)
        /\ Len(mid) = IF 3 <= L - 2 THEN (L - 2) - 3 + 1 ELSE 0
        /\ \A i \in 1..((L - 2) - 3 + 1) : mid[i] = frame[3 + i - 1]
    BY <1>1, <2>1, SamePart DEF mid
  <2>3. Len(mid) = L - 4
    BY <1>1, <2>2
  <2>4. \A i \in 1..(L - 4) : 3 + i - 1 = i + 2 /\ i \in 1..((L - 2) - 3 + 1)
    BY <1>1
  <2> QED BY <2>2, <2>3, <2>4
<1> HIDE DEF head, mid, L
<1>5. /\ head \o mid \in Seq(UartByte) /\ Len(head \o mid) = L - 2
      /\ (head \o mid)[1] = head[1] /\ (head \o mid)[2] = head[2]
      /\ \A i \in 1..(L - 4) : (head \o mid)[2 + i] = frame[i + 2]
  <2>1. 1 \in 1..Len(head) /\ 2 \in 1..Len(head)
    BY <1>3
  <2>2. head \in Seq(UartByte) /\ mid \in Seq(UartByte)
    BY <1>3, <1>4
  <2>3. /\ head \o mid \in Seq(UartByte)
        /\ Len(head \o mid) = Len(head) + Len(mid)
        /\ \A i \in 1..Len(head) : (head \o mid)[i] = head[i]
        /\ \A i \in 1..Len(mid) : (head \o mid)[Len(head) + i] = mid[i]
    BY <2>2, Joined
  <2> DEFINE hm == head \o mid
  <2> HIDE DEF hm
  <2>4. /\ hm \in Seq(UartByte) /\ Len(hm) = 2 + (L - 4)
        /\ \A i \in 1..2 : hm[i] = head[i]
        /\ \A i \in 1..(L - 4) : hm[2 + i] = mid[i]
    BY <1>3, <1>4, <2>3 DEF hm
  <2>5. 2 + (L - 4) = L - 2 /\ 1 \in 1..2 /\ 2 \in 1..2
    BY <1>1
  <2>6. \A i \in 1..(L - 4) : hm[2 + i] = frame[i + 2]
    BY <1>4, <2>4
  <2> QED BY <2>4, <2>5, <2>6 DEF hm
<1> DEFINE hm == head \o mid
<1> HIDE DEF hm
<1>6. /\ hm \o tv \in Seq(UartByte)
      /\ Len(hm \o tv) = L - 2 + StampSize
      /\ \A i \in 1..(L - 2) : (hm \o tv)[i] = hm[i]
  <2>1. hm \in Seq(UartByte) /\ tv \in Seq(UartByte) /\ Len(hm) = L - 2
    BY <1>2, <1>5 DEF hm
  <2>2. /\ hm \o tv \in Seq(UartByte)
        /\ Len(hm \o tv) = Len(hm) + Len(tv)
        /\ \A i \in 1..Len(hm) : (hm \o tv)[i] = hm[i]
    BY <2>1, Joined
  <2> QED BY <1>2, <2>1, <2>2
<1>7. Stamped(frame, tv) = hm \o tv
  BY <1>1 DEF Stamped, hm, head, mid
<1>8. 1 \in 1..(L - 2) /\ 2 \in 1..(L - 2) /\ L - 2 + StampSize = L + StampSize - 2
  BY <1>1, <1>2
<1>9. \A i \in 3..(L - 2) : (hm \o tv)[i] = frame[i]
  <2> TAKE i \in 3..(L - 2)
  <2>1. i \in 1..(L - 2) /\ i - 2 \in 1..(L - 4) /\ 2 + (i - 2) = i /\ (i - 2) + 2 = i
    BY <1>1
  <2> QED BY <1>5, <1>6, <2>1 DEF hm
<1> QED BY <1>3, <1>5, <1>6, <1>7, <1>8, <1>9 DEF L, hm

\* A datagram consists of bytes, also where its length byte has wrapped around.
LEMMA StampType ==
    ASSUME NEW frame, Whole(frame), NEW tv \in Stamps
    PROVE  add_timestamp(frame, tv) \in Seq(UartByte)
<1> DEFINE bytes == Stamped(frame, tv)
<1>1. /\ bytes \in Seq(UartByte) /\ Len(bytes) = Len(frame) + StampSize - 2
      /\ bytes[2] = (Len(frame) + StampSize) % Base
  BY StampedBytes
<1>2. Len(frame) \in Nat /\ Len(frame) >= 4 /\ StampSize \in Nat
  BY WholeHasFour, StampsAreBytes
<1> HIDE DEF bytes
<1>3. bytes[2] <= Len(frame) + StampSize /\ bytes[2] \in Int
  <2>1. Len(frame) + StampSize \in Nat
    BY <1>2
  <2>2. (Len(frame) + StampSize) % Base \in UartByte
    BY <2>1, BaseIsNat
  <2> QED BY <1>1, <2>1, <2>2, ModuloBase, BytesAreNumbers
<1>4. Len(bytes) >= 2 /\ bytes[2] - 2 <= Len(bytes)
  BY <1>1, <1>2, <1>3
<1>5. add_timestamp(frame, tv) = WithSums(bytes)
  BY DEF add_timestamp, Stamped, bytes
<1> QED BY <1>1, <1>4, <1>5, WithSumsType

\* A datagram that is not longer than its length byte can say passes the checks
\* of data_decode, and without its time stamp it is the frame again.
LEMMA StampFits ==
    ASSUME NEW frame, Whole(frame), NEW tv \in Stamps,
           frame[2] + StampSize < Base
    PROVE  /\ Decodable(add_timestamp(frame, tv))
           /\ strip_timestamp(add_timestamp(frame, tv)) = frame
<1> DEFINE L == Len(frame)
           bytes == Stamped(frame, tv)
           w == add_timestamp(frame, tv)
           back == <<w[1], L % Base>> \o SubSeq(w, 3, L - 2)
<1>1. /\ L \in Nat /\ L >= 4 /\ L < Base /\ frame \in Seq(UartByte)
      /\ frame[1] = START /\ frame[2] = L
      /\ Summed(frame) = SubSeq(frame, 2, L - 2)
      /\ frame[L - 1] = Sums(Summed(frame))[1]
      /\ frame[L] = Sums(Summed(frame))[2]
  BY WholeHasFour DEF Whole
<1>2. StampSize \in Nat
  BY StampsAreBytes
<1>3. /\ bytes \in Seq(UartByte) /\ Len(bytes) = L + StampSize - 2
      /\ bytes[1] = START /\ bytes[2] = (L + StampSize) % Base
      /\ \A i \in 3..(L - 2) : bytes[i] = frame[i]
  BY StampedBytes
<1>4. w = WithSums(bytes)
  BY DEF add_timestamp, Stamped
<1> HIDE DEF L, bytes, w
<1>5. L + StampSize \in Nat /\ L + StampSize < Base /\ L \in Nat
  BY <1>1, <1>2
<1>6. (L + StampSize) % Base = L + StampSize /\ L % Base = L
  BY <1>1, <1>5, ModuloBase
<1>7. /\ bytes[2] = Len(bytes) + 2 /\ Len(bytes) >= 2
      /\ bytes[2] - 2 <= Len(bytes) /\ Len(bytes) + 2 = L + StampSize
  BY <1>1, <1>2, <1>3, <1>6
<1>8. /\ w \in Seq(UartByte) /\ Len(w) = L + StampSize
      /\ \A i \in 1..Len(bytes) : w[i] = bytes[i]
  BY <1>3, <1>4, <1>7, WithSumsType
<1>9. SumsAgree(w) /\ w[2] = L + StampSize
  BY <1>3, <1>4, <1>7, WithSumsAgrees
<1>10. /\ 1 \in 1..Len(bytes)
       /\ \A i \in 3..(L - 2) : i \in 1..Len(bytes)
       /\ L - 2 <= Len(w) /\ L - 2 <= L /\ L - 2 \in Int /\ 3 \in Nat \ {0} /\ 2 \in Nat \ {0}
       /\ w[2] - StampSize = L
  BY <1>1, <1>2, <1>3, <1>8, <1>9
<1>11. w[1] = START /\ \A i \in 3..(L - 2) : w[i] = frame[i]
  BY <1>3, <1>8, <1>10
<1>12. Decodable(w)
  BY <1>9, <1>11 DEF Decodable
<1> DEFINE mid == SubSeq(w, 3, L - 2)
<1>13. /\ mid \in Seq(UartByte) /\ Len(mid) = L - 4
       /\ \A i \in 1..(L - 4) : mid[i] = frame[i + 2]
  <2>1. /\ SubSeq(w, 3, L - 2) \in Seq(UartByte)
        /\ Len(SubSeq(w, 3, L - 2)) = IF 3 <= L - 2 THEN (L - 2) - 3 + 1 ELSE 0
        /\ \A i \in 1..((L - 2) - 3 + 1) : SubSeq(w, 3, L - 2)[i] = w[3 + i - 1]
    BY <1>8, <1>10, SamePart
  <2> HIDE DEF mid
  <2>2. Len(mid) = L - 4
    BY <1>1, <2>1 DEF mid
  <2>3. \A i \in 1..(L - 4) : 3 + i - 1 = i + 2 /\ i \in 1..((L - 2) - 3 + 1)
                              /\ i + 2 \in 3..(L - 2)
    BY <1>1
  <2>4. \A i \in 1..(L - 4) : mid[i] = frame[i + 2]
    BY <1>11, <2>1, <2>3 DEF mid
  <2> QED BY <2>1, <2>2, <2>4 DEF mid
<1> DEFINE front == <<START, L>>
<1>14. /\ front \in Seq(UartByte) /\ Len(front) = 2
       /\ front[1] = START /\ front[2] = L
  <2>1. START \in UartByte /\ L \in UartByte
    BY <1>1, UartAssumption DEF UartByte
  <2> QED BY <2>1
<1>15. back = front \o mid
  BY <1>6, <1>11
<1> HIDE DEF front, mid, back
<1>16. /\ back \in Seq(UartByte) /\ Len(back) = L - 2
       /\ \A i \in 1..(L - 2) : back[i] = frame[i]
  <2>1. /\ front \o mid \in Seq(UartByte)
        /\ Len(front \o mid) = Len(front) + Len(mid)
        /\ \A i \in 1..Len(front) : (front \o mid)[i] = front[i]
        /\ \A i \in 1..Len(mid) : (front \o mid)[Len(front) + i] = mid[i]
    <3>1. front \in Seq(UartByte) /\ mid \in Seq(UartByte)
      BY <1>13, <1>14
    <3> QED BY <3>1, Joined
  <2>2. /\ back \in Seq(UartByte) /\ Len(back) = 2 + (L - 4)
        /\ \A i \in 1..2 : back[i] = front[i]
        /\ \A i \in 1..(L - 4) : back[2 + i] = mid[i]
    BY <1>13, <1>14, <1>15, <2>1
  <2>3. 2 + (L - 4) = L - 2
    BY <1>1
  <2>4. ASSUME NEW i \in 1..(L - 2) PROVE back[i] = frame[i]
    <3>1. CASE i = 1
      BY <1>1, <1>14, <2>2, <3>1
    <3>2. CASE i = 2
      BY <1>1, <1>14, <2>2, <3>2
    <3>3. CASE i >= 3
      <4>1. i - 2 \in 1..(L - 4) /\ 2 + (i - 2) = i /\ (i - 2) + 2 = i
        BY <1>1, <3>3
      <4> QED BY <1>13, <2>2, <4>1
    <3>4. i \in Int /\ (i = 1 \/ i = 2 \/ i >= 3)
      BY <1>1
    <3> QED BY <3>1, <3>2, <3>3, <3>4
  <2> QED BY <2>2, <2>3, <2>4
<1>17. /\ Len(back) >= 2 /\ back[2] = L /\ back[2] - 2 <= Len(back)
       /\ back[2] - 2 = L - 2 /\ Len(back) + 1 = L - 1 /\ Len(back) + 2 = L
  BY <1>1, <1>16
<1>18. /\ WithSums(back) \in Seq(UartByte) /\ Len(WithSums(back)) = Len(back) + 2
       /\ \A i \in 1..Len(back) : WithSums(back)[i] = back[i]
       /\ WithSums(back)[Len(back) + 1] = Sums(Summed(back))[1]
       /\ WithSums(back)[Len(back) + 2] = Sums(Summed(back))[2]
  BY <1>16, <1>17, WithSumsType
<1>19. Summed(back) = Summed(frame)
  <2>1. \A i \in 2..(L - 2) : i \in 1..(L - 2)
    BY <1>1
  <2>2. \A i \in 2..(L - 2) : back[i] = frame[i]
    BY <1>16, <2>1
  <2>3. L - 2 <= Len(back) /\ L - 2 <= Len(frame) /\ L - 2 \in Int /\ 2 \in Nat \ {0}
    BY <1>1, <1>10, <1>16 DEF L
  <2>4. SubSeq(back, 2, L - 2) = SubSeq(frame, 2, L - 2)
    BY <1>1, <1>16, <2>2, <2>3, SamePart
  <2> QED BY <1>1, <1>17, <2>4 DEF Summed
<1>20. WithSums(back) = frame
  <2> DEFINE b == WithSums(back)
  <2> HIDE DEF b
  <2>1. /\ b \in Seq(UartByte) /\ Len(b) = L
        /\ \A i \in 1..(L - 2) : b[i] = frame[i]
        /\ b[L - 1] = frame[L - 1] /\ b[L] = frame[L]
    BY <1>1, <1>16, <1>17, <1>18, <1>19 DEF b
  <2>2. \A i \in 1..L : i \in 1..(L - 2) \/ i = L - 1 \/ i = L
    BY <1>1
  <2>3. \A i \in 1..Len(b) : b[i] = frame[i]
    BY <2>1, <2>2
  <2>4. Len(b) = Len(frame)
    BY <2>1 DEF L
  <2>5. b = frame
    BY <1>1, <2>1, <2>3, <2>4, SeqEqual
  <2> QED BY <2>5 DEF b
<1>21. strip_timestamp(w) = WithSums(back)
  BY <1>10 DEF strip_timestamp, back
<1> QED BY <1>12, <1>20, <1>21 DEF w

-----------------------------------------------------------------------------
(* UartFraming: every reachable state.                                     *)

SentInv ==
    /\ sentFrames \in Seq(Seq(UartByte)) /\ Len(sentFrames) <= MaxFrames
    /\ rest \in Seq(UartByte) /\ (rest # << >> => sentFrames # << >>)
    /\ \A k \in 1..Len(sentFrames) :
          /\ Whole(sentFrames[k])
          /\ sentFrames[k][Len(sentFrames[k]) - 2] = k

ReaderInv ==
    /\ line \in Seq(UartByte)
    /\ phase \in {"start", "length", "message"}
    /\ buffer \in Seq(UartByte)
    /\ phase # "start" => /\ Len(buffer) = (IF phase = "length" THEN 1 ELSE 2)
                          /\ buffer[1] = START

ArrivedInv ==
    /\ arrived \in Seq(Seq(UartByte))
    /\ \A i \in 1..Len(arrived) : Whole(arrived[i])
    /\ datagrams \in Seq(Seq(UartByte)) /\ Len(datagrams) = Len(arrived)
    /\ \A i \in 1..Len(datagrams) :
          \E tv \in Stamps : datagrams[i] = add_timestamp(arrived[i], tv)

HistoryInv ==
    /\ faults \in 0..MaxFaults /\ aligned \in BOOLEAN
    /\ waiting \in Seq(Seq(UartByte))

UartIInv == SentInv /\ ReaderInv /\ ArrivedInv /\ HistoryInv

\* A frame that begins.
LEMMA FrameBegins ==
    ASSUME NEW body \in Bodies, NEW k \in Nat, k < MaxFrames
    PROVE  LET f == Frame(Append(body, k + 1)) IN
           /\ f \in Seq(UartByte) /\ Whole(f) /\ f[Len(f) - 2] = k + 1
<1> DEFINE b == Append(body, k + 1)
           f == Frame(b)
<1>1. /\ body \in Seq(UartByte) /\ Len(body) \in Nat /\ Len(body) + 5 < Base
      /\ MaxFrames \in Nat /\ MaxFrames < Base /\ Base \in Nat
  BY UartAssumption
<1>2. k + 1 \in UartByte
  BY <1>1 DEF UartByte
<1>3. b \in Seq(UartByte) /\ Len(b) = Len(body) + 1 /\ b[Len(b)] = k + 1
  BY <1>1, <1>2
<1> HIDE DEF b
<1>4. Len(b) \in Nat /\ Len(b) + 4 < Base /\ Len(b) \in 1..Len(b)
  BY <1>1, <1>3
<1>5. /\ f \in Seq(UartByte) /\ Len(f) = Len(b) + 4
      /\ f[1] = START /\ f[2] = Len(b) + 4
      /\ \A i \in 1..Len(b) : f[i + 2] = b[i]
      /\ SumsAgree(f)
  BY <1>3, <1>4, FrameIsGood
<1> HIDE DEF f
<1>6. Whole(f)
  BY <1>4, <1>5 DEF Whole
<1>7. f[Len(f) - 2] = k + 1
  <2>1. Len(f) - 2 = Len(b) + 2
    BY <1>4, <1>5
  <2> QED BY <1>3, <1>4, <1>5, <2>1
<1> QED BY <1>5, <1>6, <1>7 DEF f, b

\* The frame that the reader returns.
LEMMA FrameIsRead ==
    ASSUME ReaderInv, phase = "message", CanRead(StillToRead), ~(StillToRead < 0),
           SumsAgree(buffer \o SubSeq(line, 1, StillToRead))
    PROVE  /\ Whole(buffer \o SubSeq(line, 1, StillToRead))
           /\ StillToRead \in Nat /\ StillToRead <= Len(line)
           /\ buffer[2] = StillToRead + 2
<1> DEFINE n == StillToRead
           part == SubSeq(line, 1, n)
           frame == buffer \o part
<1>1. /\ line \in Seq(UartByte) /\ buffer \in Seq(UartByte) /\ Len(buffer) = 2
      /\ buffer[1] = START
  BY DEF ReaderInv
<1>2. buffer[2] \in UartByte
  <2>1. 2 \in 1..Len(buffer)
    BY <1>1
  <2>2. \A i \in 1..Len(buffer) : buffer[i] \in UartByte
    BY <1>1, Elements
  <2> QED BY <2>1, <2>2
<1>3. n = buffer[2] - 2 /\ Len(line) >= n
  BY DEF StillToRead, CanRead
<1> HIDE DEF n
<1>4. buffer[2] \in Int /\ n \in Nat /\ n <= Len(line) /\ buffer[2] = n + 2
  <2>1. buffer[2] \in Int
    BY <1>2, BytesAreNumbers
  <2>2. ~(n < 0)
    BY DEF n
  <2> QED BY <1>1, <1>3, <2>1, <2>2
<1>5. part \in Seq(UartByte) /\ Len(part) = n
  <2>1. /\ SubSeq(line, 1, n) \in Seq(UartByte)
        /\ Len(SubSeq(line, 1, n)) = IF 1 <= n THEN n - 1 + 1 ELSE 0
    <3>1. 1 \in Nat \ {0} /\ n \in Int
      BY <1>4
    <3> QED BY <1>1, <1>4, <3>1, SamePart
  <2> HIDE DEF part
  <2>2. Len(part) = n
    BY <1>4, <2>1 DEF part
  <2> QED BY <2>1, <2>2 DEF part
<1> HIDE DEF part
<1>6. /\ frame \in Seq(UartByte) /\ Len(frame) = n + 2
      /\ frame[1] = START /\ frame[2] = n + 2
  <2>1. /\ frame \in Seq(UartByte) /\ Len(frame) = Len(buffer) + Len(part)
        /\ \A i \in 1..Len(buffer) : frame[i] = buffer[i]
    <3>1. buffer \in Seq(UartByte) /\ part \in Seq(UartByte)
      BY <1>1, <1>5
    <3> QED BY <3>1, Joined, Zenon
  <2>2. 1 \in 1..Len(buffer) /\ 2 \in 1..Len(buffer)
    BY ONLY <1>1
  <2> HIDE DEF frame
  <2> QED BY <1>1, <1>4, <1>5, <2>1, <2>2
<1>7. SumsAgree(frame)
  BY DEF n, part
<1> HIDE DEF frame
<1>8. Whole(frame)
  BY <1>4, <1>6, <1>7 DEF Whole
<1> QED BY <1>4, <1>8 DEF frame, part, n

LEMMA UartInitIInv == UartInit => UartIInv
<1> SUFFICES ASSUME UartInit PROVE UartIInv
  OBVIOUS
<1>1. SentInv
  BY UartAssumption DEF UartInit, SentInv
<1>2. ReaderInv
  BY DEF UartInit, ReaderInv
<1>3. ArrivedInv
  BY DEF UartInit, ArrivedInv
<1>4. HistoryInv
  BY UartAssumption DEF UartInit, HistoryInv
<1> QED BY <1>1, <1>2, <1>3, <1>4 DEF UartIInv

LEMMA SentStep ==
    ASSUME SentInv, [UartNext]_uartVars
    PROVE  SentInv'
<1>0. /\ sentFrames \in Seq(Seq(UartByte)) /\ Len(sentFrames) <= MaxFrames
      /\ rest \in Seq(UartByte) /\ Len(sentFrames) \in Nat
  BY DEF SentInv
<1>1. CASE BeginFrame
  <2>1. PICK body \in Bodies :
          /\ sentFrames' = Append(sentFrames, Frame(Append(body, Len(sentFrames) + 1)))
          /\ rest' = Frame(Append(body, Len(sentFrames) + 1))
    BY <1>1 DEF BeginFrame
  <2> DEFINE f == Frame(Append(body, Len(sentFrames) + 1))
             n == Len(sentFrames)
  <2>2. n < MaxFrames /\ n \in Nat
    BY <1>0, <1>1 DEF BeginFrame
  <2>3. f \in Seq(UartByte) /\ Whole(f) /\ f[Len(f) - 2] = n + 1
    BY <2>2, FrameBegins
  <2>4. sentFrames' = Append(sentFrames, f) /\ rest' = f
    BY <2>1
  <2> HIDE DEF f
  <2>5. /\ sentFrames' \in Seq(Seq(UartByte)) /\ Len(sentFrames') = n + 1
        /\ sentFrames'[n + 1] = f
        /\ \A k \in 1..n : sentFrames'[k] = sentFrames[k]
    BY <1>0, <2>3, <2>4
  <2> HIDE DEF n
  <2>6. Len(sentFrames') <= MaxFrames /\ sentFrames' # << >>
    BY <2>2, <2>5, UartAssumption
  <2>7. ASSUME NEW k \in 1..Len(sentFrames')
        PROVE  Whole(sentFrames'[k]) /\ sentFrames'[k][Len(sentFrames'[k]) - 2] = k
    <3>1. CASE k = n + 1
      BY <2>3, <2>5, <3>1
    <3>2. CASE k \in 1..n
      BY <2>5, <3>2 DEF SentInv, n
    <3>3. k = n + 1 \/ k \in 1..n
      BY <2>2, <2>5
    <3> QED BY <3>1, <3>2, <3>3
  <2> HIDE DEF Whole
  <2> QED BY <2>3, <2>4, <2>5, <2>6, <2>7 DEF SentInv
<1>2. ASSUME rest # << >>, rest' = Tail(rest), UNCHANGED sentFrames PROVE SentInv'
  <2>1. rest' \in Seq(UartByte)
    BY <1>0, <1>2
  <2> HIDE DEF Whole
  <2> QED BY <1>2, <2>1 DEF SentInv
<1>3. ASSUME UNCHANGED senderVars PROVE SentInv'
  BY <1>3 DEF SentInv, senderVars
<1>4. CASE SendByte \/ LoseByte \/ ChangeByte
  BY <1>2, <1>4 DEF SendByte, LoseByte, ChangeByte
<1>5. CASE InventByte \/ Reader \/ ReadFails
  BY <1>3, <1>5 DEF InventByte, Reader, ReadStart, ReadLength, ReadMessage, ReadFails
<1>6. CASE UNCHANGED uartVars
  BY <1>3, <1>6 DEF uartVars
<1> QED BY <1>1, <1>4, <1>5, <1>6 DEF UartNext

LEMMA ReaderStep ==
    ASSUME SentInv, ReaderInv, [UartNext]_uartVars
    PROVE  ReaderInv'
<1>0. /\ line \in Seq(UartByte) /\ buffer \in Seq(UartByte) /\ rest \in Seq(UartByte)
  BY DEF SentInv, ReaderInv
<1>1. ASSUME NEW b \in UartByte, line' = Append(line, b), UNCHANGED <<phase, buffer>>
      PROVE  ReaderInv'
  BY <1>0, <1>1 DEF ReaderInv
<1>2. ASSUME UNCHANGED <<line, phase, buffer>> PROVE ReaderInv'
  BY <1>2 DEF ReaderInv
<1>3. ASSUME Flush PROVE ReaderInv'
  BY <1>3 DEF Flush, ReaderInv
<1>4. ASSUME rest # << >> PROVE Head(rest) \in UartByte
  BY <1>0, <1>4
<1>5. CASE SendByte
  BY <1>1, <1>4, <1>5 DEF SendByte, readerVars
<1>6. CASE ChangeByte \/ InventByte
  BY <1>1, <1>6 DEF ChangeByte, InventByte, readerVars
<1>7. CASE BeginFrame \/ LoseByte
  BY <1>2, <1>7 DEF BeginFrame, LoseByte, readerVars
<1>8. CASE ReadFails
  BY <1>3, <1>8 DEF ReadFails
<1>9. CASE ReadStart
  <2>1. Head(line) \in UartByte /\ Tail(line) \in Seq(UartByte)
    BY <1>0, <1>9 DEF ReadStart, CanRead
  <2>2. /\ line' = Tail(line) /\ buffer' = <<Head(line)>>
        /\ phase' = IF Head(line) = START THEN "length" ELSE "start"
    BY <1>9 DEF ReadStart
  <2>3. /\ buffer' \in Seq(UartByte) /\ Len(buffer') = 1 /\ buffer'[1] = Head(line)
    BY <2>1, <2>2
  <2> QED BY <2>1, <2>2, <2>3 DEF ReaderInv
<1>10. CASE ReadLength
  <2>1. Head(line) \in UartByte /\ Tail(line) \in Seq(UartByte)
    BY <1>0, <1>10 DEF ReadLength, CanRead
  <2>2. /\ line' = Tail(line) /\ buffer' = Append(buffer, Head(line)) /\ phase' = "message"
        /\ Len(buffer) = 1 /\ buffer[1] = START
    BY <1>10 DEF ReadLength, ReaderInv
  <2> DEFINE h == Head(line)
  <2> HIDE DEF h
  <2>3. h \in UartByte /\ buffer' = Append(buffer, h)
    BY <2>1, <2>2 DEF h
  <2>4. /\ Append(buffer, h) \in Seq(UartByte) /\ Len(Append(buffer, h)) = 2
        /\ Append(buffer, h)[1] = buffer[1]
    <3>1. /\ Append(buffer, h) \in Seq(UartByte) /\ Len(Append(buffer, h)) = Len(buffer) + 1
          /\ \A i \in 1..Len(buffer) : Append(buffer, h)[i] = buffer[i]
      BY <1>0, <2>3, Appended
    <3> QED BY <2>2, <3>1
  <2>5. /\ buffer' \in Seq(UartByte) /\ Len(buffer') = 2 /\ buffer'[1] = START
    BY <2>2, <2>3, <2>4
  <2> QED BY <2>1, <2>2, <2>5 DEF ReaderInv
<1>11. CASE ReadMessage
  <2>1. CASE Flush
    BY <1>3, <2>1
  <2>2. CASE ~Flush
    <3>1. /\ phase = "message" /\ CanRead(StillToRead) /\ ~(StillToRead < 0)
          /\ SumsAgree(buffer \o SubSeq(line, 1, StillToRead))
          /\ line' = SubSeq(line, StillToRead + 1, Len(line))
          /\ phase' = "start" /\ buffer' = << >>
      BY <1>11, <2>2 DEF ReadMessage
    <3>2. StillToRead \in Nat
      BY <3>1, FrameIsRead
    <3> DEFINE n == StillToRead
    <3> HIDE DEF n
    <3>3. SubSeq(line, n + 1, Len(line)) \in Seq(UartByte)
      <4>1. n + 1 \in Nat \ {0} /\ Len(line) \in Int
        BY <1>0, <3>2 DEF n
      <4> QED BY <1>0, <4>1, SamePart
    <3> QED BY <3>1, <3>3 DEF ReaderInv, n
  <2> QED BY <2>1, <2>2
<1>12. CASE UNCHANGED uartVars
  BY <1>2, <1>12 DEF uartVars, readerVars
<1> QED BY <1>5, <1>6, <1>7, <1>8, <1>9, <1>10, <1>11, <1>12 DEF UartNext, Reader

LEMMA ArrivedStep ==
    ASSUME ReaderInv, ArrivedInv, [UartNext]_uartVars
    PROVE  ArrivedInv'
<1>1. ASSUME UNCHANGED <<arrived, datagrams>> PROVE ArrivedInv'
  BY <1>1 DEF ArrivedInv
<1>2. CASE ReadMessage /\ ~Flush
  <2> DEFINE frame == buffer \o SubSeq(line, 1, StillToRead)
  <2>1. /\ phase = "message" /\ CanRead(StillToRead) /\ ~(StillToRead < 0)
        /\ SumsAgree(frame) /\ arrived' = Append(arrived, frame)
        /\ \E tv \in Stamps : datagrams' = Append(datagrams, add_timestamp(frame, tv))
    BY <1>2 DEF ReadMessage
  <2>2. Whole(frame)
    BY <2>1, FrameIsRead
  <2>3. PICK tv \in Stamps : datagrams' = Append(datagrams, add_timestamp(frame, tv))
    BY <2>1
  <2> HIDE DEF frame
  <2> DEFINE n == Len(arrived)
             d == add_timestamp(frame, tv)
  <2>4. frame \in Seq(UartByte) /\ d \in Seq(UartByte)
    BY <2>2, StampType DEF Whole
  <2>5. datagrams' = Append(datagrams, d)
    BY <2>3
  <2> HIDE DEF d
  <2>6. /\ arrived \in Seq(Seq(UartByte)) /\ datagrams \in Seq(Seq(UartByte))
        /\ n \in Nat /\ Len(datagrams) = n
    BY DEF ArrivedInv
  <2>7. /\ arrived' \in Seq(Seq(UartByte)) /\ Len(arrived') = n + 1
        /\ arrived'[n + 1] = frame
        /\ \A i \in 1..n : arrived'[i] = arrived[i]
    BY <2>1, <2>4, <2>6
  <2>8. /\ datagrams' \in Seq(Seq(UartByte)) /\ Len(datagrams') = n + 1
        /\ datagrams'[n + 1] = d
        /\ \A i \in 1..n : datagrams'[i] = datagrams[i]
    BY <2>4, <2>5, <2>6
  <2> HIDE DEF n
  <2>9. ASSUME NEW i \in 1..(n + 1)
        PROVE  /\ Whole(arrived'[i])
               /\ \E t \in Stamps : datagrams'[i] = add_timestamp(arrived'[i], t)
    <3>1. CASE i = n + 1
      BY <2>2, <2>7, <2>8, <3>1 DEF d
    <3>2. CASE i \in 1..n
      <4>1. Whole(arrived[i]) /\ \E t \in Stamps : datagrams[i] = add_timestamp(arrived[i], t)
        BY <2>6, <3>2 DEF ArrivedInv, n
      <4> QED BY <2>7, <2>8, <3>2, <4>1
    <3>3. i = n + 1 \/ i \in 1..n
      BY <2>6
    <3> QED BY <3>1, <3>2, <3>3
  <2> QED BY <2>7, <2>8, <2>9 DEF ArrivedInv
<1>3. CASE (ReadMessage /\ Flush) \/ ReadFails
  BY <1>1, <1>3 DEF ReadFails, Flush
<1>4. CASE BeginFrame \/ SendByte \/ LoseByte \/ ChangeByte \/ InventByte
  BY <1>1, <1>4 DEF BeginFrame, SendByte, LoseByte, ChangeByte, InventByte, readerVars
<1>5. CASE ReadStart \/ ReadLength
  BY <1>1, <1>5 DEF ReadStart, ReadLength
<1>6. CASE UNCHANGED uartVars
  BY <1>1, <1>6 DEF uartVars, readerVars
<1> QED BY <1>2, <1>3, <1>4, <1>5, <1>6 DEF UartNext, Reader

LEMMA HistoryStep ==
    ASSUME SentInv, HistoryInv, [UartNext]_uartVars
    PROVE  HistoryInv'
<1>0. ASSUME Fault PROVE faults' \in 0..MaxFaults /\ aligned' \in BOOLEAN
  <2>1. faults' \in 0..MaxFaults
    BY <1>0, UartAssumption DEF Fault, HistoryInv
  <2>2. aligned' = FALSE
    BY <1>0 DEF Fault
  <2> QED BY <2>1, <2>2
<1>1. CASE BeginFrame
  BY <1>1 DEF BeginFrame, HistoryInv
<1>2. CASE SendByte
  <2>1. Last(sentFrames) \in Seq(UartByte)
    <3>1. sentFrames \in Seq(Seq(UartByte)) /\ sentFrames # << >>
      BY <1>2 DEF SendByte, SentInv
    <3>2. Len(sentFrames) \in 1..Len(sentFrames)
      BY <3>1
    <3> QED BY <3>1, <3>2, Elements DEF Last
  <2>2. Append(waiting, Last(sentFrames)) \in Seq(Seq(UartByte))
    BY <2>1, Appended DEF HistoryInv
  <2> QED BY <1>2, <2>2 DEF SendByte, HistoryInv
<1>3. CASE LoseByte \/ ChangeByte \/ InventByte
  <2>1. Fault /\ waiting' = waiting
    BY <1>3 DEF LoseByte, ChangeByte, InventByte
  <2> QED BY <1>0, <2>1 DEF HistoryInv
<1>4. CASE ReadFails
  <2>1. Fault /\ waiting' = << >>
    BY <1>4 DEF ReadFails
  <2> QED BY <1>0, <2>1 DEF HistoryInv
<1>5. CASE Reader
  <2>1. UNCHANGED <<faults, aligned>>
    BY <1>5 DEF Reader, ReadStart, ReadLength, ReadMessage
  <2>2. waiting' = waiting \/ (waiting # << >> /\ waiting' = Tail(waiting))
    BY <1>5 DEF Reader, ReadStart, ReadLength, ReadMessage
  <2>3. waiting' \in Seq(Seq(UartByte))
    BY <2>2, Rest DEF HistoryInv
  <2> QED BY <2>1, <2>3 DEF HistoryInv
<1>6. CASE UNCHANGED uartVars
  BY <1>6 DEF uartVars, HistoryInv
<1> QED BY <1>1, <1>2, <1>3, <1>4, <1>5, <1>6 DEF UartNext

LEMMA UartSpecIInv == UartSpec => []UartIInv
<1>1. UartIInv /\ [UartNext]_uartVars => UartIInv'
  BY SentStep, ReaderStep, ArrivedStep, HistoryStep DEF UartIInv
<1> QED BY UartInitIInv, <1>1, PTL DEF UartSpec

\* The queues and buffers of the serial line, its sender and its reader keep
\* their types and lengths in every state, whatever bytes and frames there are.
THEOREM UartTypeCorrect == UartSpec => []UartTypeOK
<1>1. UartIInv => UartTypeOK
  BY DEF UartIInv, SentInv, ReaderInv, ArrivedInv, HistoryInv, UartTypeOK
<1> QED BY <1>1, UartSpecIInv, PTL

\* What lisa_to_pc sends on passes data_decode's checks and is, without its
\* time stamp, the frame that the reader returned, for every alphabet, frame
\* and time stamp and whatever the line does to the bytes, unless the frame is so
\* long that the length byte wraps: the code does not look.
THEOREM DatagramsAreDecodable == UartSpec => []StampedIsDecodable
<1>1. UartIInv => StampedIsDecodable
  <2> SUFFICES ASSUME UartIInv, NEW i \in DOMAIN datagrams, arrived[i][2] + StampSize < Base
               PROVE  /\ Decodable(datagrams[i])
                      /\ strip_timestamp(datagrams[i]) = arrived[i]
    BY DEF StampedIsDecodable
  <2>1. i \in 1..Len(datagrams) /\ i \in 1..Len(arrived)
    BY DEF UartIInv, ArrivedInv
  <2>2. Whole(arrived[i]) /\ \E tv \in Stamps : datagrams[i] = add_timestamp(arrived[i], tv)
    BY <2>1 DEF UartIInv, ArrivedInv
  <2> HIDE DEF Whole
  <2> QED BY <2>2, StampFits
<1> QED BY <1>1, UartSpecIInv, PTL

-----------------------------------------------------------------------------
(* UartFraming: undisturbed frames.                                        *)

\* What the reader has of a frame and what is still in the input queue.  A byte
\* that is no start byte is left in the buffer and overwritten.
Pending == (IF phase = "start" THEN << >> ELSE buffer) \o line

\* The bytes p begin with the frames lo + 1 .. hi of sf; frame k ends at at[k].
InPlace(p, sf, lo, hi, at) ==
    /\ lo \in Nat /\ hi \in Nat /\ lo <= hi /\ hi <= Len(sf)
    /\ at \in [lo..hi -> Nat] /\ at[lo] = 0
    /\ \A k \in (lo + 1)..hi : at[k] = at[k - 1] + Len(sf[k])
    /\ \A j, k \in lo..hi : j <= k => at[j] <= at[k]
    /\ at[hi] <= Len(p)
    /\ \A k \in (lo + 1)..hi : \A i \in 1..Len(sf[k]) : p[at[k - 1] + i] = sf[k][i]

FramesOf(sf) == /\ sf \in Seq(Seq(UartByte))
                /\ \A k \in 1..Len(sf) : Whole(sf[k])

LEMMA Inside ==
    ASSUME NEW a \in Nat, NEW l \in Nat, NEW b \in Nat, NEW m \in Nat, NEW n \in Nat,
           NEW i \in 1..l, b = a + l, b <= m
    PROVE  /\ a + i \in 1..m
           /\ a >= n => (a - n) + i \in 1..(m - n) /\ n + ((a - n) + i) = a + i
OBVIOUS

LEMMA FrameLength ==
    ASSUME NEW sf, FramesOf(sf), NEW k \in 1..Len(sf)
    PROVE  /\ Len(sf[k]) \in Nat /\ Len(sf[k]) >= 4
           /\ sf[k] \in Seq(UartByte) /\ sf[k][1] = START /\ sf[k][2] = Len(sf[k])
           /\ SumsAgree(sf[k])
<1>1. Whole(sf[k])
  BY DEF FramesOf
<1>2. Len(sf[k]) \in Nat /\ Len(sf[k]) >= 4
  BY <1>1, WholeHasFour
<1> QED BY <1>1, <1>2 DEF Whole

\* Bytes behind the frames do not disturb them, nor does a frame that begins.
LEMMA MoreBytes ==
    ASSUME NEW sf, FramesOf(sf), NEW lo, NEW hi, NEW at,
           NEW p \in Seq(UartByte), NEW p2 \in Seq(UartByte),
           InPlace(p, sf, lo, hi, at),
           Len(p) <= Len(p2), \A i \in 1..Len(p) : p2[i] = p[i]
    PROVE  InPlace(p2, sf, lo, hi, at)
<1>0. /\ lo \in Nat /\ hi \in Nat /\ lo <= hi /\ hi <= Len(sf)
      /\ at \in [lo..hi -> Nat] /\ at[lo] = 0
      /\ \A k \in (lo + 1)..hi : at[k] = at[k - 1] + Len(sf[k])
      /\ \A j, k \in lo..hi : j <= k => at[j] <= at[k]
      /\ at[hi] <= Len(p)
      /\ \A k \in (lo + 1)..hi : \A i \in 1..Len(sf[k]) : p[at[k - 1] + i] = sf[k][i]
      /\ Len(p) \in Nat /\ Len(p2) \in Nat /\ Len(sf) \in Nat
  BY Elements DEF InPlace, FramesOf
<1>1. at[hi] <= Len(p2)
  <2>1. at[hi] \in Nat
    BY <1>0
  <2> QED BY <1>0, <2>1
<1>2. ASSUME NEW k \in (lo + 1)..hi, NEW i \in 1..Len(sf[k])
      PROVE  p2[at[k - 1] + i] = sf[k][i]
  <2>1. k \in lo..hi /\ k - 1 \in lo..hi /\ k \in 1..Len(sf) /\ hi \in lo..hi /\ k <= hi
    BY <1>0
  <2>2. at[k] \in Nat /\ at[k - 1] \in Nat /\ at[hi] \in Nat /\ at[k] <= at[hi]
    BY <1>0, <2>1
  <2>3. Len(sf[k]) \in Nat
    BY <2>1, FrameLength
  <2>4. at[k] = at[k - 1] + Len(sf[k]) /\ p[at[k - 1] + i] = sf[k][i]
    BY <1>0
  <2>5. at[k - 1] + i \in 1..Len(p)
    <3>1. at[k] <= Len(p)
      BY <1>0, <2>2
    <3> QED BY <1>0, <2>2, <2>3, <2>4, <3>1, Inside
  <2>6. p2[at[k - 1] + i] = p[at[k - 1] + i]
    BY <2>5
  <2> QED BY <2>4, <2>6
<1> QED BY <1>0, <1>1, <1>2 DEF InPlace

LEMMA MoreFrames ==
    ASSUME NEW sf, FramesOf(sf), NEW lo, NEW hi, NEW at, NEW p \in Seq(UartByte),
           InPlace(p, sf, lo, hi, at), NEW f \in Seq(UartByte)
    PROVE  InPlace(p, Append(sf, f), lo, hi, at)
<1> DEFINE g == Append(sf, f)
<1>1. /\ Len(g) = Len(sf) + 1 /\ Len(sf) \in Nat
      /\ \A k \in 1..Len(sf) : g[k] = sf[k]
  BY DEF FramesOf
<1> HIDE DEF g
<1>2. /\ lo \in Nat /\ hi \in Nat /\ lo <= hi /\ hi <= Len(sf)
  BY DEF InPlace
<1>3. \A k \in (lo + 1)..hi : g[k] = sf[k]
  <2>1. \A k \in (lo + 1)..hi : k \in 1..Len(sf)
    BY <1>1, <1>2
  <2> QED BY <1>1, <2>1
<1>4. hi <= Len(g)
  BY <1>1, <1>2
<1>5. InPlace(p, g, lo, hi, at)
  <2>1. /\ at \in [lo..hi -> Nat] /\ at[lo] = 0
        /\ \A k \in (lo + 1)..hi : at[k] = at[k - 1] + Len(sf[k])
        /\ \A j, k \in lo..hi : j <= k => at[j] <= at[k]
        /\ at[hi] <= Len(p)
        /\ \A k \in (lo + 1)..hi : \A i \in 1..Len(sf[k]) : p[at[k - 1] + i] = sf[k][i]
    BY DEF InPlace
  <2>2. \A k \in (lo + 1)..hi : at[k] = at[k - 1] + Len(g[k])
    BY <1>3, <2>1
  <2>3. \A k \in (lo + 1)..hi : \A i \in 1..Len(g[k]) : p[at[k - 1] + i] = g[k][i]
    BY <1>3, <2>1
  <2> QED BY <1>2, <1>4, <2>1, <2>2, <2>3 DEF InPlace
<1> QED BY <1>5 DEF g

LEMMA NoneInPlace ==
    ASSUME NEW sf, FramesOf(sf), NEW lo \in Nat, lo <= Len(sf), NEW p \in Seq(UartByte)
    PROVE  \E at : InPlace(p, sf, lo, lo, at) /\ at[lo] = 0
<1> DEFINE at == [k \in lo..lo |-> 0]
<1>1. at \in [lo..lo -> Nat] /\ at[lo] = 0 /\ \A k \in lo..lo : at[k] = 0
  OBVIOUS
<1> HIDE DEF at
<1>2. Len(p) \in Nat /\ \A k : k \notin (lo + 1)..lo
  OBVIOUS
<1>3. InPlace(p, sf, lo, lo, at)
  <2>1. \A j, k \in lo..lo : j <= k => at[j] <= at[k]
    BY <1>1
  <2> QED BY <1>1, <1>2, <2>1 DEF InPlace
<1> QED BY <1>1, <1>3

\* A frame at the end of the bytes.
LEMMA OneMore ==
    ASSUME NEW sf, FramesOf(sf), NEW lo, NEW hi, NEW at, NEW p2 \in Seq(UartByte),
           InPlace(p2, sf, lo, hi, at), hi + 1 <= Len(sf),
           Len(p2) = at[hi] + Len(sf[hi + 1]),
           \A i \in 1..Len(sf[hi + 1]) : p2[at[hi] + i] = sf[hi + 1][i]
    PROVE  \E end : InPlace(p2, sf, lo, hi + 1, end) /\ end[hi + 1] = Len(p2)
<1> DEFINE end == [k \in lo..(hi + 1) |-> IF k <= hi THEN at[k] ELSE Len(p2)]
<1>0. /\ lo \in Nat /\ hi \in Nat /\ lo <= hi /\ hi <= Len(sf)
      /\ at \in [lo..hi -> Nat] /\ at[lo] = 0
      /\ \A k \in (lo + 1)..hi : at[k] = at[k - 1] + Len(sf[k])
      /\ \A j, k \in lo..hi : j <= k => at[j] <= at[k]
      /\ at[hi] <= Len(p2)
      /\ \A k \in (lo + 1)..hi : \A i \in 1..Len(sf[k]) : p2[at[k - 1] + i] = sf[k][i]
      /\ Len(p2) \in Nat /\ Len(sf) \in Nat
  BY Elements DEF InPlace, FramesOf
<1>1. /\ end \in [lo..(hi + 1) -> Nat] /\ end[hi + 1] = Len(p2)
      /\ \A k \in lo..hi : end[k] = at[k]
  BY <1>0
<1> HIDE DEF end
<1>2. lo \in lo..hi /\ hi \in lo..hi /\ hi + 1 \in Nat /\ lo <= hi + 1
  BY <1>0
<1>3. ASSUME NEW k \in (lo + 1)..(hi + 1) PROVE end[k] = end[k - 1] + Len(sf[k])
  <2>1. CASE k = hi + 1
    <3>1. k - 1 = hi
      BY <1>0, <2>1
    <3> QED BY <1>1, <1>2, <2>1, <3>1
  <2>2. CASE k <= hi
    <3>1. k \in lo..hi /\ k - 1 \in lo..hi /\ k \in (lo + 1)..hi
      BY <1>0, <2>2
    <3> QED BY <1>0, <1>1, <3>1
  <2>3. k = hi + 1 \/ k <= hi
    BY <1>0
  <2> QED BY <2>1, <2>2, <2>3
<1>4. ASSUME NEW j \in lo..(hi + 1), NEW k \in lo..(hi + 1), j <= k PROVE end[j] <= end[k]
  <2>1. CASE k <= hi
    <3>1. j \in lo..hi /\ k \in lo..hi
      BY <1>0, <1>4, <2>1
    <3> QED BY <1>0, <1>1, <1>4, <3>1
  <2>2. CASE k = hi + 1
    <3>1. CASE j = hi + 1
      BY <1>0, <1>1, <2>2, <3>1
    <3>2. CASE j <= hi
      <4>1. j \in lo..hi
        BY <1>0, <3>2
      <4>2. at[j] <= at[hi] /\ at[j] \in Nat /\ at[hi] \in Nat
        BY <1>0, <1>2, <3>2, <4>1
      <4> QED BY <1>0, <1>1, <2>2, <4>1, <4>2
    <3>3. j = hi + 1 \/ j <= hi
      BY <1>0
    <3> QED BY <3>1, <3>2, <3>3
  <2>3. k = hi + 1 \/ k <= hi
    BY <1>0
  <2> QED BY <2>1, <2>2, <2>3
<1>5. ASSUME NEW k \in (lo + 1)..(hi + 1), NEW i \in 1..Len(sf[k])
      PROVE  p2[end[k - 1] + i] = sf[k][i]
  <2>1. CASE k = hi + 1
    <3>1. k - 1 = hi /\ end[k - 1] = at[hi]
      BY <1>0, <1>1, <1>2, <2>1
    <3> QED BY <2>1, <3>1
  <2>2. CASE k <= hi
    <3>1. k - 1 \in lo..hi /\ k \in (lo + 1)..hi
      BY <1>0, <2>2
    <3>2. end[k - 1] = at[k - 1]
      BY <1>1, <3>1
    <3>3. p2[at[k - 1] + i] = sf[k][i]
      BY <1>0, <3>1
    <3> QED BY <3>2, <3>3
  <2>3. k = hi + 1 \/ k <= hi
    BY <1>0
  <2> QED BY <2>1, <2>2, <2>3
<1>6. end[lo] = 0 /\ end[hi + 1] <= Len(p2)
  BY <1>0, <1>1, <1>2
<1>7. InPlace(p2, sf, lo, hi + 1, end)
  BY <1>0, <1>1, <1>2, <1>3, <1>4, <1>5, <1>6 DEF InPlace
<1> QED BY <1>1, <1>7

\* The first frame, and the bytes without it.
LEMMA FirstFrame ==
    ASSUME NEW sf, FramesOf(sf), NEW lo, NEW hi, NEW at, NEW p \in Seq(UartByte),
           InPlace(p, sf, lo, hi, at), lo < hi
    PROVE  /\ lo + 1 \in 1..Len(sf)
           /\ Len(sf[lo + 1]) \in Nat /\ Len(sf[lo + 1]) >= 4
           /\ Len(sf[lo + 1]) <= Len(p)
           /\ \A i \in 1..Len(sf[lo + 1]) : p[i] = sf[lo + 1][i]
           /\ at[lo + 1] = Len(sf[lo + 1])
<1>0. /\ lo \in Nat /\ hi \in Nat /\ lo <= hi /\ hi <= Len(sf)
      /\ at \in [lo..hi -> Nat] /\ at[lo] = 0
      /\ \A k \in (lo + 1)..hi : at[k] = at[k - 1] + Len(sf[k])
      /\ \A j, k \in lo..hi : j <= k => at[j] <= at[k]
      /\ at[hi] <= Len(p)
      /\ \A k \in (lo + 1)..hi : \A i \in 1..Len(sf[k]) : p[at[k - 1] + i] = sf[k][i]
      /\ Len(p) \in Nat /\ Len(sf) \in Nat
  BY Elements DEF InPlace, FramesOf
<1>1. /\ lo + 1 \in (lo + 1)..hi /\ (lo + 1) - 1 = lo /\ lo + 1 \in 1..Len(sf)
      /\ lo + 1 \in lo..hi /\ hi \in lo..hi /\ lo + 1 <= hi
  <2>1. lo \in Nat /\ hi \in Nat /\ lo < hi /\ hi <= Len(sf) /\ Len(sf) \in Nat
    BY <1>0
  <2> QED BY ONLY <2>1
<1>2. Len(sf[lo + 1]) \in Nat /\ Len(sf[lo + 1]) >= 4
  BY <1>1, FrameLength
<1> DEFINE n == Len(sf[lo + 1])
<1> HIDE DEF n
<1>3. at[lo + 1] = 0 + n
  BY <1>0, <1>1 DEF n
<1>4. at[lo + 1] = n /\ n \in Nat
  BY <1>2, <1>3 DEF n
<1>5. n <= Len(p)
  <2>1. at[lo + 1] <= at[hi] /\ at[hi] \in Nat
    BY <1>0, <1>1
  <2> QED BY <1>0, <1>4, <2>1
<1>6. ASSUME NEW i \in 1..n PROVE p[i] = sf[lo + 1][i]
  <2>1. p[at[(lo + 1) - 1] + i] = sf[lo + 1][i]
    BY <1>0, <1>1 DEF n
  <2>2. at[(lo + 1) - 1] + i = i
    BY <1>0, <1>1
  <2> QED BY <2>1, <2>2
<1> QED BY <1>1, <1>2, <1>4, <1>5, <1>6 DEF n

LEMMA OneLess ==
    ASSUME NEW sf, FramesOf(sf), NEW lo, NEW hi, NEW at, NEW p \in Seq(UartByte),
           InPlace(p, sf, lo, hi, at), lo < hi, NEW p2 \in Seq(UartByte),
           Len(p2) = Len(p) - Len(sf[lo + 1]),
           \A i \in 1..Len(p2) : p2[i] = p[Len(sf[lo + 1]) + i]
    PROVE  \E end : /\ InPlace(p2, sf, lo + 1, hi, end)
                    /\ end[hi] = at[hi] - Len(sf[lo + 1])
<1> DEFINE n == Len(sf[lo + 1])
           end == [k \in (lo + 1)..hi |-> at[k] - n]
<1>0. /\ lo \in Nat /\ hi \in Nat /\ lo <= hi /\ hi <= Len(sf)
      /\ at \in [lo..hi -> Nat] /\ at[lo] = 0
      /\ \A k \in (lo + 1)..hi : at[k] = at[k - 1] + Len(sf[k])
      /\ \A j, k \in lo..hi : j <= k => at[j] <= at[k]
      /\ at[hi] <= Len(p)
      /\ \A k \in (lo + 1)..hi : \A i \in 1..Len(sf[k]) : p[at[k - 1] + i] = sf[k][i]
      /\ Len(p) \in Nat /\ Len(p2) \in Nat /\ Len(sf) \in Nat
  BY Elements DEF InPlace, FramesOf
<1>1. n \in Nat /\ n <= Len(p) /\ at[lo + 1] = n
  BY FirstFrame
<1>2. Len(p2) = Len(p) - n /\ \A i \in 1..Len(p2) : p2[i] = p[n + i]
  OBVIOUS
<1> HIDE DEF n
<1>3. \A k \in (lo + 1)..hi : k \in lo..hi /\ lo + 1 <= k /\ lo + 1 \in lo..hi
  BY <1>0
<1>4. \A k \in (lo + 1)..hi : at[k] \in Nat /\ at[k] >= n
  BY <1>0, <1>1, <1>3
<1>5. end \in [(lo + 1)..hi -> Nat] /\ \A k \in (lo + 1)..hi : end[k] = at[k] - n
  BY <1>1, <1>4
<1> HIDE DEF end
<1>6. lo + 1 \in (lo + 1)..hi /\ hi \in (lo + 1)..hi /\ lo + 1 \in Nat /\ lo + 1 <= hi
  BY <1>0
<1>7. end[lo + 1] = 0 /\ end[hi] = at[hi] - n /\ end[hi] <= Len(p2)
  <2>1. at[hi] \in Nat /\ at[hi] <= Len(p)
    BY <1>0, <1>4, <1>6
  <2>2. end[lo + 1] = at[lo + 1] - n /\ end[hi] = at[hi] - n
    BY <1>5, <1>6
  <2>3. end[lo + 1] = 0
    BY <1>1, <2>2
  <2>4. at[hi] - n <= Len(p) - n
    BY <1>0, <1>1, <2>1
  <2> QED BY <1>2, <2>2, <2>3, <2>4
<1>8. \A j, k \in (lo + 1)..hi : j <= k => end[j] <= end[k]
  <2> TAKE j \in (lo + 1)..hi, k \in (lo + 1)..hi
  <2> HAVE j <= k
  <2>1. at[j] <= at[k] /\ at[j] \in Nat /\ at[k] \in Nat
    BY <1>0, <1>3
  <2> QED BY <1>1, <1>5, <2>1
<1>9. ASSUME NEW k \in (lo + 1 + 1)..hi PROVE end[k] = end[k - 1] + Len(sf[k])
  <2>1. k \in (lo + 1)..hi /\ k - 1 \in (lo + 1)..hi
    BY <1>0
  <2>2. at[k] = at[k - 1] + Len(sf[k]) /\ at[k - 1] \in Nat /\ at[k] \in Nat
    BY <1>0, <1>4, <2>1
  <2>3. Len(sf[k]) \in Nat
    <3>1. k \in 1..Len(sf)
      BY <1>0
    <3> QED BY <3>1, FrameLength
  <2>4. end[k] = at[k] - n /\ end[k - 1] = at[k - 1] - n
    BY <1>5, <2>1
  <2> QED BY <1>1, <2>2, <2>3, <2>4
<1>10. ASSUME NEW k \in (lo + 1 + 1)..hi, NEW i \in 1..Len(sf[k])
       PROVE  p2[end[k - 1] + i] = sf[k][i]
  <2>1. k \in (lo + 1)..hi /\ k - 1 \in (lo + 1)..hi /\ k \in 1..Len(sf) /\ k <= hi
    BY <1>0
  <2>2. /\ at[k] = at[k - 1] + Len(sf[k]) /\ at[k - 1] \in Nat /\ at[k] \in Nat
        /\ p[at[k - 1] + i] = sf[k][i]
    BY <1>0, <1>4, <2>1
  <2>3. Len(sf[k]) \in Nat
    BY <2>1, FrameLength
  <2>4. at[k] <= at[hi] /\ at[hi] \in Nat /\ at[hi] <= Len(p)
    BY <1>0, <1>3, <1>4, <1>6, <2>1
  <2>5. end[k - 1] = at[k - 1] - n /\ at[k - 1] >= n
    BY <1>4, <1>5, <2>1
  <2>6. /\ end[k - 1] + i \in 1..Len(p2)
        /\ n + (end[k - 1] + i) = at[k - 1] + i
    <3>1. at[k] <= Len(p)
      BY <1>0, <2>2, <2>4
    <3>2. /\ (at[k - 1] - n) + i \in 1..(Len(p) - n)
          /\ n + ((at[k - 1] - n) + i) = at[k - 1] + i
      <4>1. /\ at[k - 1] \in Nat /\ Len(sf[k]) \in Nat /\ at[k] \in Nat
            /\ Len(p) \in Nat /\ n \in Nat /\ at[k - 1] >= n
        BY <1>0, <1>1, <2>2, <2>3, <2>5
      <4>2. at[k] = at[k - 1] + Len(sf[k])
        BY <2>2
      <4> DEFINE a == at[k - 1]
                 b == at[k]
                 l == Len(sf[k])
                 m == Len(p)
      <4>3. /\ a \in Nat /\ l \in Nat /\ b \in Nat /\ m \in Nat /\ i \in 1..l
            /\ b = a + l /\ b <= m /\ a >= n
        BY <3>1, <4>1, <4>2
      <4> HIDE DEF a, b, l, m
      <4>4. (a - n) + i \in 1..(m - n) /\ n + ((a - n) + i) = a + i
        BY <1>1, <4>3
      <4> QED BY <4>4 DEF a, m
    <3> QED BY <1>2, <2>5, <3>2
  <2>7. p2[end[k - 1] + i] = p[n + (end[k - 1] + i)]
    BY <1>2, <2>6
  <2> QED BY <2>2, <2>6, <2>7
<1>11. InPlace(p2, sf, lo + 1, hi, end)
  BY <1>0, <1>5, <1>6, <1>7, <1>8, <1>9, <1>10 DEF InPlace
<1> QED BY <1>7, <1>11 DEF n

\* A frame f of which the bytes r are still to be sent; the others are the last
\* of p, behind the first `from'.
Begun(p, from, f, r) ==
    /\ Len(r) <= Len(f) /\ Len(p) + Len(r) = from + Len(f)
    /\ \A i \in 1..(Len(f) - Len(r)) : p[from + i] = f[i]
    /\ \A i \in 1..Len(r) : r[i] = f[Len(f) - Len(r) + i]

\* The frames that are owed are those in place.
OwedAt(lo, hi) ==
    /\ Len(waiting) = hi - lo
    /\ \A i \in 1..(hi - lo) : waiting[i] = sentFrames[lo + i]

AlignedAt(hi, at) ==
    aligned => IF rest = << >>
                 THEN hi = Len(sentFrames) /\ Len(Pending) = at[hi]
                 ELSE /\ hi + 1 = Len(sentFrames)
                      /\ Begun(Pending, at[hi], sentFrames[hi + 1], rest)

UndisturbedAt(lo) ==
    faults = 0 => /\ aligned /\ lo = Len(arrived)
                  /\ \A i \in 1..lo : arrived[i] = sentFrames[i]

KeptAt(lo, hi, at) ==
    /\ InPlace(Pending, sentFrames, lo, hi, at)
    /\ OwedAt(lo, hi) /\ AlignedAt(hi, at) /\ UndisturbedAt(lo)

KeptInv == \E lo, hi, at : KeptAt(lo, hi, at)

LEMMA PendingBytes ==
    ASSUME ReaderInv
    PROVE  /\ Pending \in Seq(UartByte) /\ Len(Pending) \in Nat
           /\ phase = "start" => Pending = line
           /\ phase # "start" => /\ Pending = buffer \o line
                                 /\ Len(Pending) = Len(buffer) + Len(line)
                                 /\ \A i \in 1..Len(buffer) : Pending[i] = buffer[i]
                                 /\ \A i \in 1..Len(line) : Pending[Len(buffer) + i] = line[i]
<1>1. line \in Seq(UartByte) /\ buffer \in Seq(UartByte)
  BY DEF ReaderInv
<1>2. CASE phase = "start"
  <2>1. << >> \o line = line
    BY <1>1
  <2>2. Pending = line
    BY <1>2, <2>1 DEF Pending
  <2> QED BY <1>1, <1>2, <2>2
<1>3. CASE phase # "start"
  <2>1. Pending = buffer \o line
    BY <1>3 DEF Pending
  <2>2. /\ buffer \o line \in Seq(UartByte) /\ Len(buffer \o line) = Len(buffer) + Len(line)
        /\ \A i \in 1..Len(buffer) : (buffer \o line)[i] = buffer[i]
        /\ \A i \in 1..Len(line) : (buffer \o line)[Len(buffer) + i] = line[i]
    BY <1>1, Joined
  <2>3. Len(Pending) \in Nat
    BY <2>1, <2>2, Elements
  <2> QED BY <1>3, <2>1, <2>2, <2>3
<1> QED BY <1>2, <1>3

LEMMA PendingAfter ==
    ASSUME ReaderInv'
    PROVE  Pending' \in Seq(UartByte) /\ Len(Pending') \in Nat
<1>1. line' \in Seq(UartByte) /\ buffer' \in Seq(UartByte) /\ << >> \in Seq(UartByte)
  BY DEF ReaderInv
<1>2. buffer' \o line' \in Seq(UartByte) /\ << >> \o line' \in Seq(UartByte)
  BY <1>1, Joined
<1>3. Pending' \in Seq(UartByte)
  BY <1>2 DEF Pending
<1> QED BY <1>3, Elements

LEMMA PendingGrows ==
    ASSUME ReaderInv, ReaderInv', NEW b \in UartByte, line' = Append(line, b),
           UNCHANGED <<phase, buffer>>
    PROVE  /\ Pending' = Append(Pending, b) /\ Pending' \in Seq(UartByte)
           /\ Len(Pending') = Len(Pending) + 1 /\ Pending'[Len(Pending) + 1] = b
           /\ \A i \in 1..Len(Pending) : Pending'[i] = Pending[i]
<1>1. line \in Seq(UartByte) /\ buffer \in Seq(UartByte)
  BY DEF ReaderInv
<1> DEFINE old == IF phase = "start" THEN << >> ELSE buffer
<1>2. old \in Seq(UartByte) /\ Pending = old \o line /\ Pending' = old \o Append(line, b)
  BY <1>1 DEF Pending
<1> HIDE DEF old
<1>3. old \o Append(line, b) = Append(old \o line, b)
  BY <1>1, <1>2
<1>4. Pending \in Seq(UartByte)
  BY PendingBytes
<1> QED BY <1>2, <1>3, <1>4, Appended

LEMMA FramesAreSent ==
    ASSUME SentInv
    PROVE  FramesOf(sentFrames) /\ Len(sentFrames) \in Nat
  BY Elements DEF SentInv, FramesOf

\* While the line is aligned, or a frame waits, the reader is at the beginning
\* of a frame that was sent.
LEMMA AtFrame ==
    ASSUME UartIInv, NEW lo, NEW hi, NEW at, KeptAt(lo, hi, at),
           Len(Pending) >= 1, aligned \/ lo < hi
    PROVE  \E k \in 1..Len(sentFrames) :
              /\ \A i \in 1..Len(sentFrames[k]) :
                    i <= Len(Pending) => Pending[i] = sentFrames[k][i]
              /\ Len(Pending) >= Len(sentFrames[k]) => lo < hi /\ k = lo + 1
<1>1. FramesOf(sentFrames) /\ Len(sentFrames) \in Nat
  BY FramesAreSent DEF UartIInv
<1>2. Pending \in Seq(UartByte) /\ Len(Pending) \in Nat
  BY PendingBytes DEF UartIInv
<1>3. /\ InPlace(Pending, sentFrames, lo, hi, at) /\ AlignedAt(hi, at)
      /\ lo \in Nat /\ hi \in Nat /\ lo <= hi /\ at[lo] = 0
  BY DEF KeptAt, InPlace
<1>4. CASE lo < hi
  <2>1. /\ lo + 1 \in 1..Len(sentFrames)
        /\ \A i \in 1..Len(sentFrames[lo + 1]) : Pending[i] = sentFrames[lo + 1][i]
    <3>1. /\ FramesOf(sentFrames) /\ Pending \in Seq(UartByte)
          /\ InPlace(Pending, sentFrames, lo, hi, at) /\ lo < hi
      BY <1>1, <1>2, <1>3, <1>4
    <3> HIDE DEF FramesOf, InPlace
    <3> QED BY <3>1, FirstFrame
  <2> QED BY <1>4, <2>1
<1>5. CASE ~(lo < hi)
  <2>1. lo = hi /\ aligned /\ at[hi] = 0
    BY <1>3, <1>5
  <2>2. rest # << >> /\ hi + 1 = Len(sentFrames) /\ Begun(Pending, 0, sentFrames[hi + 1], rest)
    BY <1>2, <1>3, <2>1 DEF AlignedAt
  <2> DEFINE f == sentFrames[hi + 1]
  <2>3. hi + 1 \in 1..Len(sentFrames) /\ Len(f) \in Nat
    <3>1. hi + 1 \in 1..Len(sentFrames)
      BY <1>1, <1>3, <2>2
    <3> QED BY <1>1, <3>1, FrameLength
  <2>4. rest \in Seq(UartByte) /\ Len(rest) \in Nat \ {0}
    <3>1. rest \in Seq(UartByte)
      BY DEF UartIInv, SentInv
    <3> QED BY <2>2, <3>1, Rest
  <2> HIDE DEF f
  <2>5. /\ Len(Pending) + Len(rest) = 0 + Len(f)
        /\ \A i \in 1..(Len(f) - Len(rest)) : Pending[0 + i] = f[i]
    BY <2>2 DEF Begun, f
  <2>6. Len(Pending) = Len(f) - Len(rest) /\ ~(Len(Pending) >= Len(f))
    BY <1>2, <2>3, <2>4, <2>5
  <2>7. ASSUME NEW i \in 1..Len(f), i <= Len(Pending) PROVE Pending[i] = f[i]
    <3>1. i \in 1..(Len(f) - Len(rest)) /\ 0 + i = i
      BY <1>2, <2>3, <2>6, <2>7
    <3> QED BY <2>5, <3>1
  <2> QED BY <2>3, <2>6, <2>7 DEF f
<1> QED BY <1>4, <1>5

LEMMA NothingOwed ==
    ASSUME UartIInv, NEW lo, NEW hi, NEW at, KeptAt(lo, hi, at), ~(lo < hi)
    PROVE  waiting = << >>
<1>1. OwedAt(lo, hi) /\ lo = hi /\ lo \in Nat
  BY DEF KeptAt, InPlace
<1>2. waiting \in Seq(Seq(UartByte)) /\ Len(waiting) = 0
  BY <1>1 DEF OwedAt, UartIInv, HistoryInv
<1> QED BY <1>2

-----------------------------------------------------------------------------
(* Each step keeps the undisturbed frames.                                 *)

LEMMA KeptInit == UartInit => KeptInv
<1> SUFFICES ASSUME UartInit PROVE KeptInv
  OBVIOUS
<1>1. sentFrames = << >> /\ Pending = << >>
  BY DEF UartInit, Pending
<1>2. FramesOf(sentFrames) /\ Pending \in Seq(UartByte) /\ Len(sentFrames) = 0
      /\ Len(Pending) = 0
  BY <1>1 DEF FramesOf
<1>3. PICK at : InPlace(Pending, sentFrames, 0, 0, at) /\ at[0] = 0
  <2>1. 0 \in Nat /\ 0 <= Len(sentFrames)
    BY <1>2
  <2> QED BY <1>2, <2>1, NoneInPlace
<1>4. OwedAt(0, 0)
  <2>1. waiting = << >> /\ 0 - 0 = 0
    BY DEF UartInit
  <2> QED BY <2>1 DEF OwedAt
<1>5. AlignedAt(0, at)
  BY <1>2, <1>3 DEF AlignedAt, UartInit
<1>6. UndisturbedAt(0)
  <2>1. aligned /\ arrived = << >>
    BY DEF UartInit
  <2> QED BY <2>1 DEF UndisturbedAt
<1> QED BY <1>3, <1>4, <1>5, <1>6 DEF KeptInv, KeptAt

\* All is lost, and nothing is owed.
LEMMA KeptNothing ==
    ASSUME UartIInv', aligned' => FALSE, faults' # 0,
           waiting' = << >>
    PROVE  KeptInv'
<1>1. FramesOf(sentFrames') /\ Len(sentFrames') \in Nat
  BY Elements DEF UartIInv, SentInv, FramesOf
<1>2. Pending' \in Seq(UartByte)
  BY PendingAfter DEF UartIInv
<1>3. PICK at : InPlace(Pending', sentFrames', 0, 0, at)
  <2>1. 0 \in Nat /\ 0 <= Len(sentFrames')
    BY <1>1
  <2> QED BY <1>1, <1>2, <2>1, NoneInPlace
<1>4. OwedAt(0, 0)'
  <2>1. 0 - 0 = 0 /\ Len(waiting') = 0
    OBVIOUS
  <2> QED BY <2>1 DEF OwedAt
<1>5. AlignedAt(0, at)' /\ UndisturbedAt(0)'
  BY DEF AlignedAt, UndisturbedAt
<1> QED BY <1>3, <1>4, <1>5 DEF KeptInv, KeptAt

\* Bytes come behind the others, or none, and the line is not aligned.
LEMMA KeptBehind ==
    ASSUME UartIInv, UartIInv', KeptInv, aligned' => FALSE, faults' # 0,
           UNCHANGED <<sentFrames, arrived, waiting>>,
           Len(Pending) <= Len(Pending'), \A i \in 1..Len(Pending) : Pending'[i] = Pending[i]
    PROVE  KeptInv'
<1>1. PICK lo, hi, at : KeptAt(lo, hi, at)
  BY DEF KeptInv
<1>2. Pending \in Seq(UartByte) /\ Pending' \in Seq(UartByte)
  BY PendingBytes, PendingAfter DEF UartIInv
<1>3. InPlace(Pending', sentFrames, lo, hi, at)
  <2>1. FramesOf(sentFrames) /\ InPlace(Pending, sentFrames, lo, hi, at)
    BY <1>1, FramesAreSent DEF UartIInv, KeptAt
  <2> QED BY <1>2, <2>1, MoreBytes
<1>4. InPlace(Pending', sentFrames', lo, hi, at)
  BY <1>3
<1>5. OwedAt(lo, hi)' /\ AlignedAt(hi, at)' /\ UndisturbedAt(lo)'
  BY <1>1 DEF KeptAt, OwedAt, AlignedAt, UndisturbedAt
<1> QED BY <1>4, <1>5 DEF KeptInv, KeptAt

\* The reader goes on within a frame.
LEMMA KeptSame ==
    ASSUME KeptInv, UNCHANGED <<sentFrames, rest, arrived, waiting, aligned, faults>>,
           Pending' = Pending
    PROVE  KeptInv'
<1>1. PICK lo, hi, at : KeptAt(lo, hi, at)
  BY DEF KeptInv
<1>2. KeptAt(lo, hi, at)'
  BY <1>1 DEF KeptAt, OwedAt, AlignedAt, UndisturbedAt
<1> QED BY <1>2 DEF KeptInv

LEMMA KeptBegin ==
    ASSUME UartIInv, UartIInv', KeptInv, BeginFrame
    PROVE  KeptInv'
<1> DEFINE n == Len(sentFrames)
           f == rest'
           p == Pending
<1>0. PICK lo, hi, at : KeptAt(lo, hi, at)
  BY DEF KeptInv
<1>1. /\ FramesOf(sentFrames) /\ n \in Nat
      /\ FramesOf(sentFrames') /\ f \in Seq(UartByte)
  BY FramesAreSent, Elements DEF UartIInv, SentInv, FramesOf
<1>2. /\ sentFrames' = Append(sentFrames, f) /\ rest = << >>
      /\ Pending' = p /\ faults' = faults /\ waiting' = waiting /\ arrived' = arrived
      /\ aligned' = (aligned \/ Idle)
  BY DEF BeginFrame, readerVars, Pending
<1>3. p \in Seq(UartByte) /\ Len(p) \in Nat
  BY PendingBytes DEF UartIInv
<1>4. /\ InPlace(p, sentFrames, lo, hi, at) /\ OwedAt(lo, hi) /\ AlignedAt(hi, at)
      /\ UndisturbedAt(lo)
      /\ lo \in Nat /\ hi \in Nat /\ lo <= hi /\ hi <= n
  BY <1>0 DEF KeptAt, InPlace
<1> HIDE DEF f, p, n
<1>5. /\ Len(sentFrames') = n + 1 /\ sentFrames'[n + 1] = f
      /\ \A k \in 1..n : sentFrames'[k] = sentFrames[k]
  <2>1. sentFrames \in Seq(Seq(UartByte))
    BY <1>1 DEF FramesOf
  <2> QED BY <1>1, <1>2, <2>1, Appended DEF n
<1>6. Len(f) \in Nat /\ Len(f) >= 4 /\ f # << >>
  <2>1. n + 1 \in 1..Len(sentFrames')
    BY <1>1, <1>5
  <2>2. Len(f) \in Nat /\ Len(f) >= 4
    BY <1>1, <1>5, <2>1, FrameLength
  <2> QED BY <2>2
<1>7. \A k \in 1..n : k \in 1..Len(sentFrames')
  BY <1>1, <1>5
<1>8. InPlace(p, sentFrames', lo, hi, at)
  BY <1>1, <1>2, <1>3, <1>4, MoreFrames
<1>9. OwedAt(lo, hi)'
  <2>1. \A i \in 1..(hi - lo) : lo + i \in 1..n
    BY <1>1, <1>4
  <2> QED BY <1>2, <1>4, <1>5, <2>1 DEF OwedAt
<1>10. CASE aligned
  <2>1. hi = n /\ Len(p) = at[hi]
    BY <1>2, <1>4, <1>10 DEF AlignedAt, n, p
  <2>2. Begun(p, at[hi], f, f)
    <3>1. Len(f) <= Len(f) /\ Len(p) + Len(f) = at[hi] + Len(f) /\ Len(f) - Len(f) = 0
      BY <1>3, <1>6, <2>1
    <3>2. \A i \in 1..Len(f) : 0 + i = i
      OBVIOUS
    <3>3. \A i \in 1..0 : p[at[hi] + i] = f[i]
      OBVIOUS
    <3> QED BY <3>1, <3>2, <3>3 DEF Begun
  <2>3. AlignedAt(hi, at)'
    BY <1>2, <1>5, <1>6, <2>1, <2>2 DEF AlignedAt, f
  <2>4. UndisturbedAt(lo)'
    <3>1. \A i \in 1..lo : i \in 1..n
      BY <1>1, <1>4
    <3>2. faults = 0 => lo = Len(arrived) /\ \A i \in 1..lo : arrived[i] = sentFrames[i]
      BY <1>4 DEF UndisturbedAt
    <3>3. aligned'
      BY <1>2, <1>10
    <3> QED BY <1>2, <1>5, <3>1, <3>2, <3>3 DEF UndisturbedAt
  <2>5. KeptAt(lo, hi, at)'
    BY <1>2, <1>8, <1>9, <2>3, <2>4 DEF KeptAt
  <2> QED BY <2>5 DEF KeptInv
<1>11. CASE ~aligned /\ Idle
  <2>1. Len(p) = 0
    <3>1. p = << >>
      BY <1>11, PendingBytes DEF Idle, UartIInv, p
    <3> QED BY <3>1
  <2>2. lo = hi
    <3> SUFFICES ASSUME lo < hi PROVE FALSE
      BY <1>4
    <3>1. Len(sentFrames[lo + 1]) \in Nat /\ Len(sentFrames[lo + 1]) >= 4
          /\ Len(sentFrames[lo + 1]) <= Len(p)
      BY <1>1, <1>3, <1>4, FirstFrame
    <3> QED BY <2>1, <3>1
  <2>3. PICK m \in Nat : m = n /\ m <= Len(sentFrames')
    BY <1>1, <1>5
  <2>4. PICK end : InPlace(p, sentFrames', m, m, end) /\ end[m] = 0
    BY <1>1, <1>3, <2>3, NoneInPlace
  <2>5. OwedAt(m, m)'
    <3>1. hi - lo = 0 /\ m - m = 0
      BY <1>4, <2>2, <2>3
    <3> QED BY <1>9, <3>1 DEF OwedAt
  <2>6. Begun(p, 0, f, f)
    <3>1. Len(f) <= Len(f) /\ Len(p) + Len(f) = 0 + Len(f) /\ Len(f) - Len(f) = 0
      BY <1>6, <2>1
    <3>2. \A i \in 1..Len(f) : 0 + i = i
      OBVIOUS
    <3>3. \A i \in 1..0 : p[0 + i] = f[i]
      OBVIOUS
    <3> QED BY <3>1, <3>2, <3>3 DEF Begun
  <2>7. AlignedAt(m, end)'
    <3>1. /\ rest' # << >> /\ m + 1 = Len(sentFrames') /\ end[m] = 0
          /\ sentFrames'[m + 1] = rest'
      BY <1>5, <1>6, <2>3, <2>4 DEF f
    <3> QED BY <1>2, <2>6, <3>1 DEF AlignedAt, f
  <2>8. UndisturbedAt(m)'
    BY <1>2, <1>4, <1>11 DEF UndisturbedAt
  <2>9. KeptAt(m, m, end)'
    BY <1>2, <2>4, <2>5, <2>7, <2>8 DEF KeptAt, p
  <2> QED BY <2>9 DEF KeptInv
<1>12. CASE ~aligned /\ ~Idle
  <2>1. AlignedAt(hi, at)' /\ UndisturbedAt(lo)'
    BY <1>2, <1>4, <1>12 DEF AlignedAt, UndisturbedAt
  <2>2. KeptAt(lo, hi, at)'
    BY <1>2, <1>8, <1>9, <2>1 DEF KeptAt
  <2> QED BY <2>2 DEF KeptInv
<1> QED BY <1>10, <1>11, <1>12

\* One more byte of a frame is sent.
LEMMA BegunGrows ==
    ASSUME NEW p \in Seq(UartByte), NEW p2 \in Seq(UartByte), NEW from \in Nat,
           NEW f \in Seq(UartByte), NEW r \in Seq(UartByte), r # << >>,
           Begun(p, from, f, r),
           Len(p2) = Len(p) + 1, p2[Len(p) + 1] = Head(r),
           \A i \in 1..Len(p) : p2[i] = p[i]
    PROVE  Begun(p2, from, f, Tail(r))
<1> DEFINE t == Tail(r)
           m == Len(r)
           l == Len(f)
<1>1. /\ m \in Nat \ {0} /\ l \in Nat /\ Len(p) \in Nat
      /\ Head(r) = r[1] /\ Len(t) = m - 1
      /\ \A i \in 1..(m - 1) : t[i] = r[i + 1]
  BY Rest, Elements
<1>2. /\ m <= l /\ Len(p) + m = from + l
      /\ \A i \in 1..(l - m) : p[from + i] = f[i]
      /\ \A i \in 1..m : r[i] = f[l - m + i]
  BY DEF Begun
<1> HIDE DEF t, m, l
<1>3. Len(t) <= l /\ Len(p2) + Len(t) = from + l /\ l - Len(t) = l - m + 1
  <2>1. Len(t) = m - 1 /\ m \in Nat /\ l \in Nat /\ Len(p) \in Nat /\ m <= l
        /\ Len(p) + m = from + l
    BY <1>1, <1>2
  <2> DEFINE lp == Len(p)
             lq == Len(p2)
             lt == Len(t)
  <2>2. /\ lt = m - 1 /\ m \in Nat /\ l \in Nat /\ lp \in Nat /\ m <= l
        /\ lp + m = from + l /\ lq = lp + 1
    BY <2>1
  <2> HIDE DEF lp, lq, lt
  <2>3. lt <= l /\ lq + lt = from + l /\ l - lt = l - m + 1
    BY <2>2
  <2> QED BY <2>3 DEF lp, lq, lt
<1>4. ASSUME NEW i \in 1..(l - m + 1) PROVE p2[from + i] = f[i]
  <2>1. CASE i \in 1..(l - m)
    <3>1. from + i \in 1..Len(p)
      BY <1>1, <1>2, <2>1
    <3> QED BY <1>2, <2>1, <3>1
  <2>2. CASE i = l - m + 1
    <3>1. from + i = Len(p) + 1
      <4>1. m \in Nat /\ l \in Nat /\ Len(p) \in Nat /\ Len(p) + m = from + l
        BY <1>1, <1>2
      <4> DEFINE lp == Len(p)
      <4> HIDE DEF lp
      <4>2. m \in Nat /\ l \in Nat /\ lp \in Nat /\ lp + m = from + l
        BY <4>1 DEF lp
      <4>3. from + i = lp + 1
        BY <2>2, <4>2
      <4> QED BY <4>3 DEF lp
    <3>2. 1 \in 1..m
      BY <1>1
    <3>3. r[1] = f[l - m + 1]
      BY <1>2, <3>2
    <3> QED BY <1>1, <2>2, <3>1, <3>3
  <2>3. i \in 1..(l - m) \/ i = l - m + 1
    BY <1>1, <1>2
  <2> QED BY <2>1, <2>2, <2>3
<1>5. ASSUME NEW i \in 1..(m - 1) PROVE t[i] = f[l - (m - 1) + i]
  <2>0. m \in Nat \ {0} /\ l \in Nat
    BY <1>1
  <2>1. i + 1 \in 1..m /\ l - m + (i + 1) = l - (m - 1) + i
    BY <2>0
  <2>2. r[i + 1] = f[l - m + (i + 1)]
    BY <1>2, <2>1
  <2> QED BY <1>1, <2>1, <2>2
<1>6. Begun(p2, from, f, t)
  <2>1. \A i \in 1..(l - Len(t)) : p2[from + i] = f[i]
    BY <1>3, <1>4
  <2>2. \A i \in 1..Len(t) : t[i] = f[l - Len(t) + i]
    BY <1>1, <1>5
  <2> QED BY <1>3, <2>1, <2>2 DEF Begun, l
<1> QED BY <1>6 DEF t

LEMMA KeptSend ==
    ASSUME UartIInv, UartIInv', KeptInv, SendByte
    PROVE  KeptInv'
<1> DEFINE n == Len(sentFrames)
           p == Pending
           p2 == Pending'
<1>0. PICK lo, hi, at : KeptAt(lo, hi, at)
  BY DEF KeptInv
<1>1. /\ FramesOf(sentFrames) /\ n \in Nat /\ rest \in Seq(UartByte) /\ rest # << >>
      /\ p \in Seq(UartByte) /\ Len(p) \in Nat
  BY FramesAreSent, PendingBytes DEF UartIInv, SentInv, SendByte
<1>2. /\ rest' = Tail(rest) /\ line' = Append(line, Head(rest))
      /\ UNCHANGED <<sentFrames, phase, buffer, arrived, faults, aligned>>
      /\ waiting' = IF Len(rest) = 1 /\ aligned THEN Append(waiting, sentFrames[n]) ELSE waiting
  BY DEF SendByte, readerVars, Last
<1>3. /\ Head(rest) \in UartByte /\ Len(rest) \in Nat \ {0} /\ Len(Tail(rest)) = Len(rest) - 1
      /\ Tail(rest) \in Seq(UartByte)
  BY <1>1, Rest
<1>4. /\ p2 \in Seq(UartByte) /\ Len(p2) = Len(p) + 1 /\ p2[Len(p) + 1] = Head(rest)
      /\ \A i \in 1..Len(p) : p2[i] = p[i]
  BY <1>2, <1>3, PendingGrows DEF UartIInv
<1>5. /\ InPlace(p, sentFrames, lo, hi, at) /\ OwedAt(lo, hi) /\ AlignedAt(hi, at)
      /\ UndisturbedAt(lo)
      /\ lo \in Nat /\ hi \in Nat /\ lo <= hi /\ hi <= n
      /\ at[hi] \in Nat
  <2>1. InPlace(p, sentFrames, lo, hi, at)
    BY <1>0 DEF KeptAt
  <2>2. lo \in Nat /\ hi \in Nat /\ lo <= hi /\ hi <= n /\ at \in [lo..hi -> Nat]
    BY <2>1 DEF InPlace
  <2> HIDE DEF n, p
  <2>3. at[hi] \in Nat
    BY <2>2
  <2> QED BY <1>0, <2>1, <2>2, <2>3 DEF KeptAt
<1> HIDE DEF n, p, p2
<1>6. CASE ~aligned
  <2>1. /\ ~aligned' /\ waiting' = waiting /\ faults' # 0
        /\ Len(p) <= Len(p2)
    BY <1>1, <1>2, <1>4, <1>5, <1>6 DEF UndisturbedAt
  <2> QED BY <1>2, <1>4, <2>1, KeptBehind DEF p, p2
<1>7. CASE aligned
  <2> DEFINE f == sentFrames[hi + 1]
  <2>1. hi + 1 = n /\ Begun(p, at[hi], f, rest)
    BY <1>1, <1>5, <1>7 DEF AlignedAt, n, p
  <2>2. f \in Seq(UartByte) /\ Len(f) \in Nat
    <3>1. hi + 1 \in 1..Len(sentFrames)
      BY <1>1, <1>5, <2>1 DEF n
    <3> QED BY <1>1, <3>1, FrameLength
  <2> HIDE DEF f
  <2>3. Begun(p2, at[hi], f, rest')
    BY <1>1, <1>2, <1>4, <1>5, <2>1, <2>2, BegunGrows
  <2>4. InPlace(p2, sentFrames, lo, hi, at)
    <3>1. Len(p) <= Len(p2)
      BY <1>1, <1>4
    <3> QED BY <1>1, <1>4, <1>5, <3>1, MoreBytes
  <2>5. CASE Len(rest) = 1
    <3>1. Len(rest') = 0 /\ rest' = << >>
      <4>1. Len(rest') = 0 /\ rest' \in Seq(UartByte)
        BY <1>2, <1>3, <2>5
      <4> QED BY <4>1
    <3>2. /\ Len(p2) \in Nat /\ Len(p2) = at[hi] + Len(f)
          /\ \A i \in 1..Len(f) : p2[at[hi] + i] = f[i]
      <4>1. Len(p2) \in Nat
        BY <1>1, <1>4
      <4>2. /\ Len(p2) + 0 = at[hi] + Len(f)
            /\ \A i \in 1..(Len(f) - 0) : p2[at[hi] + i] = f[i]
        BY <2>3, <3>1 DEF Begun
      <4>3. Len(f) - 0 = Len(f) /\ Len(p2) + 0 = Len(p2)
        BY <2>2, <4>1
      <4> QED BY <4>1, <4>2, <4>3
    <3>3. PICK end : InPlace(p2, sentFrames, lo, hi + 1, end) /\ end[hi + 1] = Len(p2)
      <4>1. hi + 1 <= Len(sentFrames)
        BY <1>1, <2>1 DEF n
      <4>2. /\ Len(p2) = at[hi] + Len(sentFrames[hi + 1])
            /\ \A i \in 1..Len(sentFrames[hi + 1]) : p2[at[hi] + i] = sentFrames[hi + 1][i]
        BY <3>2 DEF f
      <4>3. FramesOf(sentFrames) /\ p2 \in Seq(UartByte)
        BY <1>1, <1>4
      <4> QED BY <2>4, <4>1, <4>2, <4>3, OneMore
    <3>4. waiting' = Append(waiting, f)
      BY <1>2, <1>7, <2>1, <2>5 DEF f
    <3>5. /\ Len(waiting') = Len(waiting) + 1 /\ waiting'[Len(waiting) + 1] = f
          /\ \A i \in 1..Len(waiting) : waiting'[i] = waiting[i]
      BY <2>2, <3>4, Appended DEF UartIInv, HistoryInv
    <3>. PICK up \in Nat : up = hi + 1
      BY <1>5
    <3>6. OwedAt(lo, up)'
      <4>1. /\ Len(waiting) = hi - lo
            /\ \A i \in 1..(hi - lo) : waiting[i] = sentFrames[lo + i]
        BY <1>5 DEF OwedAt
      <4>2. hi - lo + 1 = hi + 1 - lo /\ lo + (hi + 1 - lo) = hi + 1
            /\ \A i \in 1..(hi + 1 - lo) : i \in 1..(hi - lo) \/ i = hi + 1 - lo
        BY <1>5
      <4>3. \A i \in 1..(hi + 1 - lo) : waiting'[i] = sentFrames[lo + i]
        BY <3>5, <4>1, <4>2 DEF f
      <4>4. Len(waiting') = hi + 1 - lo
        BY <3>5, <4>1, <4>2
      <4>5. \A i \in 1..(hi + 1 - lo) : waiting'[i] = sentFrames'[lo + i]
        BY <1>2, <4>3
      <4>6. /\ Len(waiting') = up - lo
            /\ \A i \in 1..(up - lo) : waiting'[i] = sentFrames'[lo + i]
        BY <1>5, <4>4, <4>5
      <4> QED BY <4>6 DEF OwedAt
    <3>7. AlignedAt(up, end)'
      BY <1>2, <2>1, <3>1, <3>3 DEF AlignedAt, n, p2
    <3>8. UndisturbedAt(lo)'
      BY <1>2, <1>5 DEF UndisturbedAt
    <3>9. KeptAt(lo, up, end)'
      BY <1>2, <3>3, <3>6, <3>7, <3>8 DEF KeptAt, p2
    <3> QED BY <3>9 DEF KeptInv
  <2>6. CASE Len(rest) # 1
    <3>1. rest' # << >>
      <4>1. Len(rest') # 0
        BY <1>2, <1>3, <2>6
      <4> QED BY <4>1
    <3>2. waiting' = waiting
      BY <1>2, <2>6
    <3>3. OwedAt(lo, hi)'
      BY <1>2, <1>5, <3>2 DEF OwedAt
    <3>4. AlignedAt(hi, at)'
      BY <1>2, <2>1, <2>3, <3>1 DEF AlignedAt, n, p2, f
    <3>5. UndisturbedAt(lo)'
      BY <1>2, <1>5 DEF UndisturbedAt
    <3>6. KeptAt(lo, hi, at)'
      BY <1>2, <2>4, <3>3, <3>4, <3>5 DEF KeptAt, p2
    <3> QED BY <3>6 DEF KeptInv
  <2> QED BY <2>5, <2>6
<1> QED BY <1>6, <1>7

LEMMA IdleOwesNothing ==
    ASSUME UartIInv, KeptInv, Idle
    PROVE  waiting = << >>
<1>1. PICK lo, hi, at : KeptAt(lo, hi, at)
  BY DEF KeptInv
<1>2. Pending = << >>
  BY PendingBytes DEF Idle, UartIInv
<1>3. ~(lo < hi)
  <2> SUFFICES ASSUME lo < hi PROVE FALSE
    OBVIOUS
  <2>1. /\ FramesOf(sentFrames) /\ Pending \in Seq(UartByte)
        /\ InPlace(Pending, sentFrames, lo, hi, at) /\ lo < hi
    BY <1>1, <1>2, FramesAreSent DEF UartIInv, KeptAt
  <2> HIDE DEF FramesOf, InPlace
  <2>2. Len(sentFrames[lo + 1]) \in Nat /\ Len(sentFrames[lo + 1]) >= 4
        /\ Len(sentFrames[lo + 1]) <= Len(Pending)
    BY <2>1, FirstFrame
  <2> QED BY <1>2, <2>2
<1> QED BY <1>1, <1>3, NothingOwed

LEMMA KeptBehindStep ==
    ASSUME UartIInv, UartIInv', KeptInv, LoseByte \/ ChangeByte \/ InventByte
    PROVE  KeptInv'
<1>1. /\ UNCHANGED <<sentFrames, phase, buffer, arrived, waiting>>
      /\ aligned' = FALSE /\ faults' = faults + 1 /\ faults \in Nat
  BY DEF LoseByte, ChangeByte, InventByte, Fault, readerVars, senderVars, UartIInv, HistoryInv
<1>2. /\ aligned' => FALSE
      /\ faults' # 0
  BY <1>1
<1>3. CASE LoseByte
  <2>1. Pending' = Pending
    BY <1>1, <1>3 DEF LoseByte, Pending
  <2>2. Len(Pending) \in Nat
    BY PendingBytes DEF UartIInv
  <2>3. Len(Pending) <= Len(Pending') /\ \A i \in 1..Len(Pending) : Pending'[i] = Pending[i]
    BY <2>1, <2>2
  <2> QED BY <1>1, <1>2, <2>3, KeptBehind
<1>4. CASE ChangeByte \/ InventByte
  <2>1. PICK b \in UartByte : line' = Append(line, b)
    BY <1>4 DEF ChangeByte, InventByte
  <2>2. /\ Len(Pending') = Len(Pending) + 1
        /\ \A i \in 1..Len(Pending) : Pending'[i] = Pending[i]
    BY <1>1, <2>1, PendingGrows DEF UartIInv
  <2>3. Len(Pending) \in Nat
    BY PendingBytes DEF UartIInv
  <2>4. Len(Pending) <= Len(Pending')
    BY <2>2, <2>3
  <2> QED BY <1>1, <1>2, <2>2, <2>4, KeptBehind
<1> QED BY <1>3, <1>4

\* Nothing is owed and the line is not aligned: whatever is thrown away, no
\* undisturbed frame is.
LEMMA NothingWaits ==
    ASSUME UartIInv, UartIInv', NEW lo, NEW hi, NEW at, KeptAt(lo, hi, at),
           ~(aligned \/ lo < hi), UNCHANGED <<sentFrames, waiting, aligned, faults>>
    PROVE  KeptInv'
<1>1. OwedAt(lo, hi) /\ lo = hi /\ lo \in Nat
  BY DEF KeptAt, InPlace
<1>2. waiting \in Seq(Seq(UartByte)) /\ Len(waiting) = 0
  BY <1>1 DEF OwedAt, UartIInv, HistoryInv
<1>3. waiting' = << >>
  BY <1>2
<1>4. aligned' => FALSE
  OBVIOUS
<1>5. faults' # 0
  BY DEF KeptAt, UndisturbedAt
<1> QED BY <1>3, <1>4, <1>5, KeptNothing

LEMMA KeptStart ==
    ASSUME UartIInv, UartIInv', KeptInv, ReadStart
    PROVE  KeptInv'
<1>0. PICK lo, hi, at : KeptAt(lo, hi, at)
  BY DEF KeptInv
<1>1. /\ line \in Seq(UartByte) /\ line # << >> /\ phase = "start"
      /\ buffer' = <<Head(line)>> /\ line' = Tail(line)
      /\ phase' = IF Head(line) = START THEN "length" ELSE "start"
      /\ UNCHANGED <<sentFrames, rest, arrived, waiting, aligned, faults>>
  BY DEF ReadStart, CanRead, senderVars, UartIInv, ReaderInv
<1>2. Pending = line
  BY <1>1, PendingBytes DEF UartIInv
<1>3. CASE Head(line) = START
  <2>1. Pending' = <<Head(line)>> \o Tail(line)
    BY <1>1, <1>3 DEF Pending
  <2>2. <<Head(line)>> \o Tail(line) = line
    BY <1>1
  <2> QED BY <1>1, <1>2, <2>1, <2>2, KeptSame
<1>4. CASE Head(line) # START
  <2>1. ASSUME aligned \/ lo < hi PROVE FALSE
    <3>1. Len(Pending) \in Nat \ {0} /\ Head(line) = Pending[1]
      BY <1>1, <1>2, Rest
    <3>2. PICK k \in 1..Len(sentFrames) :
            \A i \in 1..Len(sentFrames[k]) : i <= Len(Pending) => Pending[i] = sentFrames[k][i]
      <4>1. Len(Pending) >= 1
        BY <3>1
      <4> QED BY <1>0, <2>1, <4>1, AtFrame
    <3>3. /\ Len(sentFrames[k]) \in Nat /\ Len(sentFrames[k]) >= 4
          /\ sentFrames[k][1] = START
      BY FramesAreSent, FrameLength DEF UartIInv
    <3>4. 1 \in 1..Len(sentFrames[k]) /\ 1 <= Len(Pending)
      BY <3>1, <3>3
    <3> QED BY <1>4, <3>1, <3>2, <3>3, <3>4
  <2> QED BY <1>0, <1>1, <2>1, NothingWaits
<1> QED BY <1>3, <1>4

LEMMA KeptLength ==
    ASSUME UartIInv, KeptInv, ReadLength
    PROVE  KeptInv'
<1>1. /\ line \in Seq(UartByte) /\ line # << >> /\ phase = "length" /\ buffer \in Seq(UartByte)
      /\ buffer' = Append(buffer, Head(line)) /\ line' = Tail(line) /\ phase' = "message"
      /\ UNCHANGED <<sentFrames, rest, arrived, waiting, aligned, faults>>
  BY DEF ReadLength, CanRead, senderVars, UartIInv, ReaderInv
<1>2. Pending = buffer \o line /\ Pending' = Append(buffer, Head(line)) \o Tail(line)
  BY <1>1 DEF Pending
<1>3. Append(buffer, Head(line)) \o Tail(line) = buffer \o line
  BY <1>1
<1> QED BY <1>1, <1>2, <1>3, KeptSame

\* What the reader takes for the message is the frame it is in, and that frame
\* is there as a whole.
LEMMA FrameIsReturned ==
    ASSUME UartIInv, NEW lo, NEW hi, NEW at, KeptAt(lo, hi, at), ReadMessage,
           aligned \/ lo < hi
    PROVE  LET f == sentFrames[lo + 1] IN
           /\ lo < hi
           /\ arrived' = Append(arrived, f)
           /\ waiting # << >> /\ Head(waiting) = f /\ waiting' = Tail(waiting)
           /\ Pending' \in Seq(UartByte) /\ Len(Pending') = Len(Pending) - Len(f)
           /\ \A i \in 1..Len(Pending') : Pending'[i] = Pending[Len(f) + i]
<1> DEFINE p == Pending
           n == StillToRead
<1>1. /\ line \in Seq(UartByte) /\ Len(line) \in Nat /\ phase = "message"
      /\ buffer \in Seq(UartByte) /\ Len(buffer) = 2
      /\ p \in Seq(UartByte) /\ Len(p) \in Nat /\ Len(p) = 2 + Len(line)
      /\ \A i \in 1..2 : p[i] = buffer[i]
      /\ \A i \in 1..Len(line) : p[2 + i] = line[i]
  <2>1. phase = "message" /\ ReaderInv
    BY DEF ReadMessage, UartIInv
  <2>2. line \in Seq(UartByte) /\ buffer \in Seq(UartByte) /\ Len(buffer) = 2
    BY <2>1 DEF ReaderInv
  <2> QED BY <2>1, <2>2, PendingBytes, Elements
<1> HIDE DEF p
<1>2. PICK k \in 1..Len(sentFrames) :
        /\ \A i \in 1..Len(sentFrames[k]) : i <= Len(p) => p[i] = sentFrames[k][i]
        /\ Len(p) >= Len(sentFrames[k]) => lo < hi /\ k = lo + 1
  <2>1. Len(p) >= 1
    BY <1>1
  <2> QED BY <2>1, AtFrame DEF p
<1> DEFINE f == sentFrames[k]
<1>3. /\ Len(f) \in Nat /\ Len(f) >= 4 /\ f \in Seq(UartByte)
      /\ f[1] = START /\ f[2] = Len(f) /\ SumsAgree(f)
  BY FramesAreSent, FrameLength DEF UartIInv
<1>4. /\ \A i \in 1..Len(f) : i <= Len(p) => p[i] = f[i]
      /\ Len(p) >= Len(f) => lo < hi /\ k = lo + 1
  BY <1>2
<1> HIDE DEF f
<1>5. n = Len(f) - 2
  <2>1. 2 \in 1..Len(f) /\ 2 <= Len(p) /\ 2 \in 1..2
    BY <1>1, <1>3
  <2>2. buffer[2] = Len(f)
    BY <1>1, <1>3, <1>4, <2>1
  <2> QED BY <2>2 DEF StillToRead
<1>6. Len(line) >= n
  BY DEF ReadMessage, CanRead
<1> HIDE DEF n
<1>7. Len(p) >= Len(f) /\ lo < hi /\ k = lo + 1 /\ n \in Nat /\ n <= Len(line)
  <2>1. Len(p) >= Len(f) /\ n \in Nat /\ n <= Len(line)
    BY <1>1, <1>3, <1>5, <1>6
  <2> QED BY <1>4, <2>1
<1>8. buffer \o SubSeq(line, 1, n) = f
  <2> DEFINE part == SubSeq(line, 1, n)
             whole == buffer \o part
  <2>1. /\ SubSeq(line, 1, n) \in Seq(UartByte)
        /\ Len(SubSeq(line, 1, n)) = IF 1 <= n THEN n - 1 + 1 ELSE 0
        /\ \A i \in 1..(n - 1 + 1) : SubSeq(line, 1, n)[i] = line[1 + i - 1]
    <3>1. 1 \in Nat \ {0} /\ n \in Int
      BY <1>7
    <3> QED BY <1>1, <1>7, <3>1, SamePart
  <2> HIDE DEF part
  <2>2. part \in Seq(UartByte) /\ Len(part) = n /\ \A i \in 1..n : part[i] = line[i]
    <3>1. part \in Seq(UartByte) /\ Len(part) = n
      BY <1>7, <2>1 DEF part
    <3>2. \A i \in 1..n : i \in 1..(n - 1 + 1) /\ 1 + i - 1 = i
      BY <1>7
    <3>3. \A i \in 1..n : part[i] = line[i]
      BY <2>1, <3>2 DEF part
    <3> QED BY <3>1, <3>3
  <2>3. /\ buffer \o part \in Seq(UartByte) /\ Len(buffer \o part) = Len(buffer) + Len(part)
        /\ \A i \in 1..Len(buffer) : (buffer \o part)[i] = buffer[i]
        /\ \A i \in 1..Len(part) : (buffer \o part)[Len(buffer) + i] = part[i]
    <3>1. buffer \in Seq(UartByte) /\ part \in Seq(UartByte)
      BY <1>1, <2>2
    <3> QED BY <3>1, Joined
  <2> HIDE DEF whole
  <2>4. /\ whole \in Seq(UartByte) /\ Len(whole) = 2 + n
        /\ \A i \in 1..2 : whole[i] = buffer[i]
        /\ \A i \in 1..n : whole[2 + i] = part[i]
    BY <1>1, <2>2, <2>3 DEF whole
  <2>5. Len(whole) = Len(f)
    BY <1>3, <1>5, <2>4
  <2>6. ASSUME NEW i \in 1..Len(whole) PROVE whole[i] = p[i]
    <3>1. CASE i \in 1..2
      BY <1>1, <2>4, <3>1
    <3>2. CASE i \in 3..(n + 2)
      <4>1. i - 2 \in 1..n /\ i - 2 \in 1..Len(line) /\ 2 + (i - 2) = i
        BY <1>1, <1>7, <3>2
      <4>2. whole[i] = part[i - 2] /\ p[i] = line[i - 2]
        BY <1>1, <2>4, <4>1
      <4> QED BY <2>2, <4>1, <4>2
    <3>3. i \in 1..2 \/ i \in 3..(n + 2)
      BY <1>7, <2>4
    <3> QED BY <3>1, <3>2, <3>3
  <2>7. \A i \in 1..Len(whole) : whole[i] = f[i]
    <3>1. \A i \in 1..Len(whole) : i \in 1..Len(f) /\ i <= Len(p)
      BY <1>1, <1>3, <1>7, <2>5
    <3> QED BY <1>4, <2>6, <3>1
  <2>8. whole = f
    BY <1>3, <2>4, <2>5, <2>7, SeqEqual
  <2> QED BY <2>8 DEF whole, part
<1>15. waiting # << >> /\ Head(waiting) = f
  <2>1. /\ Len(waiting) = hi - lo /\ lo \in Nat /\ hi \in Nat
        /\ \A i \in 1..(hi - lo) : waiting[i] = sentFrames[lo + i]
    BY DEF KeptAt, InPlace, OwedAt
  <2>2. 1 \in 1..(hi - lo) /\ Len(waiting) # 0
    BY <1>7, <2>1
  <2>3. waiting \in Seq(Seq(UartByte)) /\ waiting # << >>
    BY <2>2 DEF UartIInv, HistoryInv
  <2>4. Head(waiting) = waiting[1]
    BY <2>3, Rest
  <2> QED BY <1>7, <2>1, <2>2, <2>3, <2>4 DEF f
<1>9. /\ arrived' = Append(arrived, f) /\ line' = SubSeq(line, n + 1, Len(line))
      /\ phase' = "start" /\ waiting' = Tail(waiting)
  <2>1. ~(n < 0)
    BY <1>7
  <2> QED BY <1>3, <1>8, <1>15, <2>1 DEF ReadMessage, n
<1>10. Pending' = line'
  <2>1. Pending' = << >> \o line'
    BY <1>9 DEF Pending
  <2>2. line' \in Seq(UartByte)
    <3>1. SubSeq(line, n + 1, Len(line)) \in Seq(UartByte)
      <4>1. n + 1 \in Nat \ {0} /\ Len(line) \in Int /\ Len(line) <= Len(line)
        BY <1>1, <1>7
      <4> QED BY <1>1, <4>1, SamePart
    <3> QED BY <1>9, <3>1
  <2> QED BY <2>1, <2>2
<1>11. /\ line' \in Seq(UartByte) /\ Len(line') = Len(line) - n
       /\ \A i \in 1..(Len(line) - n) : line'[i] = line[n + i]
  <2> DEFINE m == Len(line)
             tail == SubSeq(line, n + 1, m)
  <2>1. /\ SubSeq(line, n + 1, m) \in Seq(UartByte)
        /\ Len(SubSeq(line, n + 1, m)) = IF n + 1 <= m THEN m - (n + 1) + 1 ELSE 0
        /\ \A i \in 1..(m - (n + 1) + 1) : SubSeq(line, n + 1, m)[i] = line[n + 1 + i - 1]
    <3>1. n + 1 \in Nat \ {0} /\ m \in Int /\ m <= Len(line)
      BY <1>1, <1>7
    <3> QED BY <1>1, <3>1, SamePart, SMTT(30)
  <2>2. m \in Nat /\ n \in Nat /\ n <= m
    BY <1>1, <1>7
  <2>3. line' = tail
    BY <1>9
  <2> HIDE DEF tail, m
  <2>4. Len(tail) = m - n
    BY <2>1, <2>2 DEF tail
  <2>5. \A i \in 1..(m - n) : i \in 1..(m - (n + 1) + 1) /\ n + 1 + i - 1 = n + i
    BY <2>2
  <2>6. \A i \in 1..(m - n) : tail[i] = line[n + i]
    BY <2>1, <2>5 DEF tail
  <2> QED BY <2>1, <2>3, <2>4, <2>6 DEF tail, m
<1>12. Len(Pending') = Len(p) - Len(f)
  <2>1. Len(line) - n = Len(p) - Len(f)
    BY <1>1, <1>3, <1>5, <1>7
  <2> QED BY <1>10, <1>11, <2>1
<1>13. ASSUME NEW i \in 1..Len(Pending') PROVE Pending'[i] = p[Len(f) + i]
  <2>1. i \in 1..(Len(line) - n)
    BY <1>10, <1>11
  <2>2. n + i \in 1..Len(line) /\ 2 + (n + i) = Len(f) + i
    BY <1>1, <1>3, <1>5, <1>7, <2>1
  <2>3. Pending'[i] = line[n + i] /\ p[2 + (n + i)] = line[n + i]
    BY <1>1, <1>10, <1>11, <2>1, <2>2
  <2> QED BY <2>2, <2>3
<1>14. f = sentFrames[lo + 1]
  BY <1>7 DEF f
<1> QED BY <1>7, <1>9, <1>10, <1>11, <1>12, <1>13, <1>14, <1>15 DEF p

\* What has been sent of a frame is still at the end.
LEMMA BegunMoves ==
    ASSUME NEW p, NEW p2, NEW f, NEW r, NEW from \in Nat, NEW n \in Nat, NEW to \in Nat,
           Len(p) \in Nat, Len(r) \in Nat, Len(f) \in Nat,
           Begun(p, from, f, r), from = to + n,
           Len(p2) = Len(p) - n, \A i \in 1..Len(p2) : p2[i] = p[n + i]
    PROVE  Begun(p2, to, f, r)
<1> DEFINE lp == Len(p)
           lq == Len(p2)
           lr == Len(r)
           lf == Len(f)
<1>1. /\ lr <= lf /\ lp + lr = from + lf
      /\ \A i \in 1..(lf - lr) : p[from + i] = f[i]
      /\ \A i \in 1..lr : r[i] = f[lf - lr + i]
  BY DEF Begun
<1>2. lp \in Nat /\ lr \in Nat /\ lf \in Nat /\ lq = lp - n /\ \A i \in 1..lq : p2[i] = p[n + i]
  OBVIOUS
<1> HIDE DEF lp, lq, lr, lf
<1>3. lq + lr = to + lf
  BY <1>1, <1>2
<1>4. ASSUME NEW i \in 1..(lf - lr) PROVE p2[to + i] = f[i]
  <2>1. to + i \in 1..lq /\ n + (to + i) = from + i
    BY <1>1, <1>2
  <2>2. p2[to + i] = p[n + (to + i)]
    BY <1>2, <2>1
  <2> QED BY <1>1, <2>1, <2>2
<1> QED BY <1>1, <1>3, <1>4 DEF Begun, lq, lr, lf

LEMMA KeptMessage ==
    ASSUME UartIInv, UartIInv', KeptInv, ReadMessage
    PROVE  KeptInv'
<1>0. PICK lo, hi, at : KeptAt(lo, hi, at)
  BY DEF KeptInv
<1>1. /\ UNCHANGED <<sentFrames, rest, aligned, faults>>
      /\ arrived \in Seq(Seq(UartByte)) /\ arrived' \in Seq(Seq(UartByte))
  BY DEF ReadMessage, senderVars, UartIInv, ArrivedInv
<1>2. CASE ~(aligned \/ lo < hi)
  <2>1. waiting = << >>
    BY <1>0, <1>2, NothingOwed
  <2>2. waiting' = waiting
    BY <2>1 DEF ReadMessage
  <2> QED BY <1>0, <1>1, <1>2, <2>2, NothingWaits
<1>3. CASE aligned \/ lo < hi
  <2> DEFINE f == sentFrames[lo + 1]
             p == Pending
             p2 == Pending'
  <2>1. /\ lo < hi /\ arrived' = Append(arrived, f)
        /\ p2 \in Seq(UartByte) /\ Len(p2) = Len(p) - Len(f)
        /\ \A i \in 1..Len(p2) : p2[i] = p[Len(f) + i]
    BY <1>0, <1>3, FrameIsReturned
  <2>2. /\ InPlace(p, sentFrames, lo, hi, at) /\ OwedAt(lo, hi) /\ AlignedAt(hi, at)
        /\ UndisturbedAt(lo)
    BY <1>0 DEF KeptAt
  <2>3. /\ lo \in Nat /\ hi \in Nat /\ hi <= Len(sentFrames)
        /\ at \in [lo..hi -> Nat]
    BY <2>2 DEF InPlace
  <2>4. FramesOf(sentFrames) /\ Len(sentFrames) \in Nat /\ p \in Seq(UartByte) /\ Len(p) \in Nat
    BY FramesAreSent, PendingBytes DEF UartIInv
  <2>5. /\ lo + 1 \in 1..Len(sentFrames) /\ Len(f) \in Nat /\ Len(f) >= 4 /\ f \in Seq(UartByte)
    <3>1. lo + 1 \in 1..Len(sentFrames)
      BY <2>1, <2>3, <2>4
    <3> QED BY <2>4, <3>1, FrameLength
  <2> HIDE DEF f, p, p2
  <2>6. PICK end : InPlace(p2, sentFrames, lo + 1, hi, end) /\ end[hi] = at[hi] - Len(f)
    BY <2>1, <2>2, <2>4, OneLess DEF f
  <2>7. /\ waiting # << >> /\ waiting' = Tail(waiting) /\ waiting \in Seq(Seq(UartByte))
    BY <1>0, <1>3, FrameIsReturned DEF UartIInv, HistoryInv
  <2>8. OwedAt(lo + 1, hi)'
    <3>1. /\ Len(waiting) = hi - lo
          /\ \A i \in 1..(hi - lo) : waiting[i] = sentFrames[lo + i]
      BY <2>2 DEF OwedAt
    <3>2. /\ Len(waiting') = Len(waiting) - 1
          /\ \A i \in 1..(Len(waiting) - 1) : waiting'[i] = waiting[i + 1]
      BY <2>7, Rest
    <3>3. hi - lo - 1 = hi - (lo + 1)
      BY <2>3
    <3>4. ASSUME NEW i \in 1..(hi - (lo + 1)) PROVE waiting'[i] = sentFrames[lo + 1 + i]
      <4>1. i \in 1..(hi - lo - 1) /\ i + 1 \in 1..(hi - lo) /\ lo + (i + 1) = lo + 1 + i
        BY <2>3
      <4> QED BY <3>1, <3>2, <4>1
    <3> QED BY <1>1, <3>1, <3>2, <3>3, <3>4 DEF OwedAt
  <2>9. at[hi] \in Nat /\ end[hi] \in Nat /\ at[hi] = end[hi] + Len(f)
    <3>1. at[hi] \in Nat
      BY <2>1, <2>3
    <3>2. end[hi] \in Nat
      <4>1. end \in [(lo + 1)..hi -> Nat] /\ lo + 1 <= hi
        BY <2>6 DEF InPlace
      <4>2. hi \in (lo + 1)..hi
        BY <2>3, <4>1
      <4> QED BY <4>1, <4>2
    <3> QED BY <2>5, <2>6, <3>1, <3>2
  <2>10. AlignedAt(hi, end)'
    <3>1. CASE ~aligned
      BY <1>1, <3>1 DEF AlignedAt
    <3>2. CASE aligned /\ rest = << >>
      <4>1. hi = Len(sentFrames) /\ Len(p) = at[hi]
        BY <2>2, <3>2 DEF AlignedAt, p
      <4>2. Len(p2) = end[hi]
        BY <2>1, <2>6, <4>1
      <4> QED BY <1>1, <3>2, <4>1, <4>2 DEF AlignedAt, p2
    <3>3. CASE aligned /\ rest # << >>
      <4> DEFINE g == sentFrames[hi + 1]
      <4>1. hi + 1 = Len(sentFrames) /\ Begun(p, at[hi], g, rest)
        BY <2>2, <3>3 DEF AlignedAt, p
      <4>2. Len(g) \in Nat
        <5>1. hi + 1 \in 1..Len(sentFrames)
          BY <2>3, <2>4, <4>1
        <5> QED BY <2>4, <5>1, FrameLength
      <4>3. Len(rest) \in Nat
        BY Elements DEF UartIInv, SentInv
      <4> HIDE DEF g
      <4>4. Begun(p2, end[hi], g, rest)
        <5> DEFINE from == at[hi]
                   to == end[hi]
                   n == Len(f)
        <5>1. from \in Nat /\ n \in Nat /\ to \in Nat /\ from = to + n
          BY <2>5, <2>9
        <5>2. Begun(p, from, g, rest) /\ Len(p2) = Len(p) - n /\ \A i \in 1..Len(p2) : p2[i] = p[n + i]
          BY <2>1, <4>1
        <5> HIDE DEF from, to, n
        <5>3. Begun(p2, to, g, rest)
          BY <2>4, <4>2, <4>3, <5>1, <5>2, BegunMoves
        <5> QED BY <5>3 DEF to
      <4> QED BY <1>1, <3>3, <4>1, <4>4 DEF AlignedAt, p2, g
    <3> QED BY <3>1, <3>2, <3>3
  <2>11. UndisturbedAt(lo + 1)'
    <3> SUFFICES ASSUME faults = 0
                 PROVE  /\ aligned /\ lo + 1 = Len(arrived')
                        /\ \A i \in 1..(lo + 1) : arrived'[i] = sentFrames[i]
      BY <1>1 DEF UndisturbedAt
    <3>1. aligned /\ lo = Len(arrived) /\ \A i \in 1..lo : arrived[i] = sentFrames[i]
      BY <2>2 DEF UndisturbedAt
    <3>2. /\ Len(arrived') = lo + 1 /\ arrived'[lo + 1] = f
          /\ \A i \in 1..lo : arrived'[i] = arrived[i]
      BY <1>1, <2>1, <2>5, <3>1, Appended
    <3>3. \A i \in 1..(lo + 1) : i \in 1..lo \/ i = lo + 1
      BY <2>3
    <3>4. \A i \in 1..(lo + 1) : arrived'[i] = sentFrames[i]
      BY <3>1, <3>2, <3>3 DEF f
    <3> QED BY <3>1, <3>2, <3>4
  <2>12. KeptAt(lo + 1, hi, end)'
    BY <1>1, <2>6, <2>8, <2>10, <2>11 DEF KeptAt, p2
  <2> QED BY <2>12 DEF KeptInv
<1> QED BY <1>2, <1>3

LEMMA KeptFails ==
    ASSUME UartIInv, UartIInv', KeptInv, ReadFails
    PROVE  KeptInv'
<1>1. /\ UNCHANGED <<sentFrames, rest, arrived>>
      /\ waiting' = << >>
      /\ aligned' = FALSE /\ faults' = faults + 1 /\ faults \in Nat
  BY DEF ReadFails, Flush, Fault, senderVars, UartIInv, HistoryInv
<1>2. aligned' => FALSE
  BY <1>1
<1>3. faults' # 0
  BY <1>1
<1> QED BY <1>1, <1>2, <1>3, KeptNothing

LEMMA UartKeepsFrames == UartSpec => [](UartIInv /\ KeptInv)
<1>1. ASSUME UartIInv, KeptInv, [UartNext]_uartVars PROVE UartIInv' /\ KeptInv'
  <2>1. UartIInv'
    BY <1>1, SentStep, ReaderStep, ArrivedStep, HistoryStep DEF UartIInv
  <2>2. CASE UNCHANGED uartVars
    <3>1. Pending' = Pending
      BY <2>2 DEF uartVars, readerVars, Pending
    <3> QED BY <1>1, <2>1, <2>2, <3>1, KeptSame DEF uartVars, senderVars, readerVars
  <2>3. CASE UartNext
    BY <1>1, <2>1, <2>3, KeptBegin, KeptSend, KeptBehindStep, KeptStart, KeptLength, KeptMessage,
       KeptFails DEF UartNext, Reader
  <2> QED BY <1>1, <2>1, <2>2, <2>3
<1>2. UartInit => UartIInv /\ KeptInv
  BY UartInitIInv, KeptInit
<1> QED BY <1>1, <1>2, PTL DEF UartSpec

\* A frame that was sent whole, with nothing lost, invented or changed since it
\* or the frames it follows began at an idle reader, is still there, byte for
\* byte, until it is returned or a read fails: no flush of the reader and no
\* misread length costs it, whatever happened on the line before and after it.
OwedFramesAreKept ==
    \A k \in DOMAIN waiting :
        \E n \in Nat : /\ n + Len(waiting[k]) <= Len(Pending)
                       /\ \A i \in 1..Len(waiting[k]) : Pending[n + i] = waiting[k][i]

THEOREM NoCleanFrameIsLost == UartSpec => []OwedFramesAreKept
<1>1. ASSUME UartIInv, KeptInv PROVE OwedFramesAreKept
  <2>1. PICK lo, hi, at : KeptAt(lo, hi, at)
    BY <1>1 DEF KeptInv
  <2>2. /\ InPlace(Pending, sentFrames, lo, hi, at) /\ OwedAt(lo, hi)
    BY <2>1 DEF KeptAt
  <2>3. /\ lo \in Nat /\ hi \in Nat /\ lo <= hi
        /\ at \in [lo..hi -> Nat]
        /\ \A k \in (lo + 1)..hi : at[k] = at[k - 1] + Len(sentFrames[k])
        /\ \A j, k \in lo..hi : j <= k => at[j] <= at[k]
        /\ at[hi] <= Len(Pending)
        /\ \A k \in (lo + 1)..hi : \A i \in 1..Len(sentFrames[k]) :
              Pending[at[k - 1] + i] = sentFrames[k][i]
    BY <2>2 DEF InPlace
  <2>4. Len(Pending) \in Nat
    BY <1>1, PendingBytes DEF UartIInv
  <2>5. ASSUME NEW k \in (lo + 1)..hi
        PROVE  \E n \in Nat :
                 /\ n + Len(sentFrames[k]) <= Len(Pending)
                 /\ \A i \in 1..Len(sentFrames[k]) : Pending[n + i] = sentFrames[k][i]
    <3>1. k \in lo..hi /\ k - 1 \in lo..hi /\ hi \in lo..hi /\ k <= hi
      BY <2>3
    <3>2. at[k - 1] \in Nat /\ at[k] \in Nat /\ at[hi] \in Nat /\ at[k] <= at[hi]
      BY <2>3, <3>1
    <3>3. at[k] <= Len(Pending)
      BY <2>3, <2>4, <3>2
    <3>4. at[k - 1] + Len(sentFrames[k]) <= Len(Pending)
      BY <2>3, <3>3
    <3> QED BY <2>3, <3>2, <3>4
  <2>6. ASSUME NEW k \in DOMAIN waiting
        PROVE  \E n \in Nat : /\ n + Len(waiting[k]) <= Len(Pending)
                              /\ \A i \in 1..Len(waiting[k]) : Pending[n + i] = waiting[k][i]
    <3>1. waiting \in Seq(Seq(UartByte)) /\ Len(waiting) = hi - lo
          /\ \A i \in 1..(hi - lo) : waiting[i] = sentFrames[lo + i]
      BY <1>1, <2>2 DEF OwedAt, UartIInv, HistoryInv
    <3>2. k \in 1..(hi - lo)
      BY <3>1
    <3>3. lo + k \in (lo + 1)..hi
      <4>1. lo \in Nat /\ hi \in Nat /\ lo <= hi
        BY <2>3
      <4> QED BY <3>2, <4>1
    <3>4. waiting[k] = sentFrames[lo + k]
      BY <3>1, <3>2
    <3> QED BY <2>5, <3>3, <3>4
  <2> QED BY <2>6 DEF OwedFramesAreKept
<1> QED BY <1>1, UartKeepsFrames, PTL

\* While a frame is owed, the message the reader takes passes its checks and is
\* the first frame owed: its flush, which empties the whole queue, never runs
\* then.
THEOREM NoFlushBeforeCleanFrame ==
    UartSpec => [][ReadMessage /\ waiting # << >> => arrived' = Append(arrived, Head(waiting))]_uartVars
<1>1. ASSUME UartIInv, KeptInv, ReadMessage, waiting # << >>
      PROVE  arrived' = Append(arrived, Head(waiting))
  <2>1. PICK lo, hi, at : KeptAt(lo, hi, at)
    BY <1>1 DEF KeptInv
  <2>2. lo < hi
    BY <1>1, <2>1, NothingOwed
  <2> QED BY <1>1, <2>1, <2>2, FrameIsReturned
<1> QED BY <1>1, UartKeepsFrames, PTL DEF UartSpec

\* As long as nothing is disturbed, the reader returns the frames in the order
\* in which they were sent, each once and none left out.
UndisturbedInOrder ==
    faults = 0 => /\ Len(arrived) <= Len(sentFrames)
                  /\ \A i \in 1..Len(arrived) : arrived[i] = sentFrames[i]

LEMMA KeptInOrder == KeptInv /\ Len(sentFrames) \in Nat => UndisturbedInOrder
<1> SUFFICES ASSUME KeptInv, Len(sentFrames) \in Nat, faults = 0
             PROVE  /\ Len(arrived) <= Len(sentFrames)
                    /\ \A i \in 1..Len(arrived) : arrived[i] = sentFrames[i]
  BY DEF UndisturbedInOrder
<1>1. PICK lo, hi, at : KeptAt(lo, hi, at)
  BY DEF KeptInv
<1>2. lo \in Nat /\ hi \in Nat /\ lo <= hi /\ hi <= Len(sentFrames)
  BY <1>1 DEF KeptAt, InPlace
<1>3. lo = Len(arrived) /\ \A i \in 1..lo : arrived[i] = sentFrames[i]
  BY <1>1 DEF KeptAt, UndisturbedAt
<1> QED BY <1>2, <1>3

THEOREM UndisturbedFramesArriveInOrder == UartSpec => []UndisturbedInOrder
<1>1. UartIInv /\ KeptInv => UndisturbedInOrder
  BY KeptInOrder, FramesAreSent DEF UartIInv
<1> QED BY <1>1, UartKeepsFrames, PTL

\* Each step is one of LossyLine or none.
LEMMA LineStep ==
    ASSUME UartIInv, KeptInv, [UartNext]_uartVars
    PROVE  [Line!Next]_(Line!vars)
<1>1. ASSUME UNCHANGED <<waiting, aligned, arrived>> PROVE UNCHANGED Line!vars
  BY <1>1 DEF Line!vars
<1>2. CASE BeginFrame
  <2>1. /\ UNCHANGED <<waiting, arrived>> /\ aligned' = (aligned \/ Idle)
    BY <1>2 DEF BeginFrame, readerVars
  <2>2. aligned \in BOOLEAN
    BY DEF UartIInv, HistoryInv
  <2>3. CASE aligned' = aligned
    BY <1>1, <2>1, <2>3
  <2>4. CASE aligned' # aligned
    <3>1. aligned' /\ Idle
      BY <2>1, <2>2, <2>4, Zenon
    <3>2. waiting = << >>
      BY <3>1, IdleOwesNothing
    <3>3. Line!Settle
      BY <2>1, <3>1, <3>2 DEF Line!Settle
    <3> QED BY <3>3 DEF Line!Next
  <2> QED BY <2>3, <2>4
<1>3. CASE SendByte
  <2>1. UNCHANGED <<aligned, arrived>>
    BY <1>3 DEF SendByte, readerVars
  <2>2. CASE Len(rest) = 1 /\ aligned
    <3> DEFINE f == Last(sentFrames)
    <3>1. waiting' = Append(waiting, f) /\ aligned
      BY <1>3, <2>2 DEF SendByte
    <3>2. waiting \in Seq(Seq(UartByte)) /\ waiting' \in Seq(Seq(UartByte))
      BY <3>1, HistoryStep DEF UartIInv, HistoryInv
    <3> HIDE DEF f
    <3>3. Len(waiting) + 1 \in DOMAIN waiting' /\ waiting'[Len(waiting) + 1] = f
      BY <3>1, <3>2
    <3>4. f \in Line!Elements(waiting')
      BY <3>3 DEF Line!Elements
    <3>5. Line!Send(f)
      BY <2>1, <3>1 DEF Line!Send
    <3> QED BY <3>4, <3>5 DEF Line!Next
  <2>3. CASE ~(Len(rest) = 1 /\ aligned)
    <3>1. waiting' = waiting
      BY <1>3, <2>3 DEF SendByte
    <3> QED BY <1>1, <2>1, <3>1
  <2> QED BY <2>2, <2>3
<1>4. CASE LoseByte \/ ChangeByte \/ InventByte \/ ReadFails
  <2>1. aligned' = FALSE /\ arrived' = arrived /\ waiting' \in {waiting, << >>}
    BY <1>4 DEF LoseByte, ChangeByte, InventByte, ReadFails, Fault, Flush, readerVars
  <2>2. Line!Disturb
    BY <2>1 DEF Line!Disturb
  <2> QED BY <2>2 DEF Line!Next
<1>5. CASE ReadStart \/ ReadLength
  <2>1. UNCHANGED <<waiting, aligned, arrived>>
    BY <1>5 DEF ReadStart, ReadLength
  <2> QED BY <1>1, <2>1
<1>6. CASE ReadMessage
  <2>1. PICK lo, hi, at : KeptAt(lo, hi, at)
    BY DEF KeptInv
  <2>2. aligned' = aligned
    BY <1>6 DEF ReadMessage
  <2>3. CASE aligned \/ lo < hi
    <3>1. /\ waiting # << >> /\ waiting' = Tail(waiting)
          /\ arrived' = Append(arrived, Head(waiting))
      BY <1>6, <2>1, <2>3, FrameIsReturned
    <3>2. Line!Arrive
      BY <2>2, <3>1 DEF Line!Arrive
    <3> QED BY <3>2 DEF Line!Next
  <2>4. CASE ~(aligned \/ lo < hi)
    <3>1. waiting = << >> /\ ~aligned
      BY <2>1, <2>4, NothingOwed
    <3>2. waiting' = waiting
      BY <1>6, <3>1 DEF ReadMessage
    <3>3. CASE arrived' = arrived
      BY <1>1, <2>2, <3>2, <3>3
    <3>4. CASE arrived' # arrived
      <4>1. PICK frame : arrived' = Append(arrived, frame)
        BY <1>6, <3>4 DEF ReadMessage, Flush
      <4>2. frame \in Line!Elements(arrived')
        <5>1. arrived \in Seq(Seq(UartByte))
          BY DEF UartIInv, ArrivedInv
        <5>2. Len(arrived) + 1 \in DOMAIN arrived' /\ arrived'[Len(arrived) + 1] = frame
          BY <4>1, <5>1
        <5> QED BY <5>2 DEF Line!Elements
      <4>3. Line!Guess(frame)
        BY <2>2, <3>1, <3>2, <4>1 DEF Line!Guess
      <4> QED BY <4>2, <4>3 DEF Line!Next
    <3> QED BY <3>3, <3>4
  <2> QED BY <2>3, <2>4
<1>7. CASE UNCHANGED uartVars
  BY <1>1, <1>7 DEF uartVars, readerVars
<1> QED BY <1>2, <1>3, <1>4, <1>5, <1>6, <1>7 DEF UartNext, Reader

\* For every alphabet, every set of frames and any number of bytes lost, changed
\* or invented and of reads that fail, wherever, what the reader does is a
\* LossyLine: the frames sent undisturbed are returned whole, once and in order,
\* before anything that the reader makes of disturbed bytes.
THEOREM UartIsLossyLine == UartSpec => ImplementsLossyLine
<1>1. UartInit => Line!Init
  BY DEF UartInit, Line!Init
<1>2. UartIInv /\ KeptInv /\ [UartNext]_uartVars => [Line!Next]_(Line!vars)
  BY LineStep
<1> QED BY <1>1, <1>2, UartKeepsFrames, PTL DEF UartSpec, ImplementsLossyLine, Line!Spec
=============================================================================

---------------------------- MODULE ReceiveRing ----------------------------
(***************************************************************************)
(* The command receiver of the carousel's control board: UIEthernetReceive *)
(* copies the bytes of a TCP segment into a ring of UIETHERNET_MAX_RECV    *)
(* bytes and UIEthernetScanReceive looks for command packets in it         *)
(* (stellaris_mcu_board/mcu_sw/ui_ethernet.c).  Both run inside the        *)
(* Ethernet interrupt, which no other user of the ring can pre-empt; the   *)
(* steps are one byte copied and one turn of the scanning loop.            *)
(*                                                                         *)
(*     {tag} {length} {command} {data ...} {checksum}                      *)
(*                                                                         *)
(* A byte is a number below BYTE (256).  Handling a packet is appending it *)
(* to handled; what the commands do is in module ControlBoard.             *)
(***************************************************************************)
EXTENDS Integers, Sequences

CONSTANTS BYTE,                 \* number of byte values
          UIETHERNET_MAX_RECV,  \* size of the ring
          TAG_CMD,              \* first byte of a command packet
          CMD_GET_PARAM_DESC,   \* the command that overwrites ucSize
          ParamSize,            \* size in bytes of each known parameter
          FirstPbuf, NextPbufs, \* payload bytes a segment's first and further
                                \* pbufs hold (PBUF_POOL_BUFSIZE, lwipopts.h)
          Streams,              \* what a host may send over a connection
          MaxConnections        \* bound on the connections accepted

Byte == 0..(BYTE - 1)

\* g_sUIParameters lists sizes of one to four bytes as describable.
ASSUME RingAssumption ==
    /\ BYTE \in Nat \ {0}
    /\ UIETHERNET_MAX_RECV \in Nat /\ UIETHERNET_MAX_RECV >= 4
    /\ TAG_CMD \in Byte
    /\ ParamSize \in [DOMAIN ParamSize -> 1..4]
    /\ FirstPbuf \in Nat \ {0} /\ NextPbufs \in Nat \ {0}
    /\ Streams \subseteq Seq(Byte)
    /\ MaxConnections \in Nat \ {0}

VARIABLES ring,     \* g_pucUIEthernetReceive
          read,     \* g_ulUIEthernetReceiveRead
          write,    \* g_ulUIEthernetReceiveWrite
          pc,       \* "idle", "copy" or "scan"
          chain,    \* the payloads of the pbuf chain being copied
          q, ulIdx, \* the pbuf and the offset the copy loop has reached
          final,    \* the scan is the one after the loop
          accepted, \* how many connections have been accepted
          stream,   \* the bytes the host sends over the present one
          received, \* how many of them TCP has passed on
          passed,   \* history: every byte TCP has passed on
          fitted,   \* history: each segment so far fitted its first pbuf
          written,  \* history: every byte copied into the ring
          taken,    \* history: how many of those the scanner has passed
          handled,  \* history: the packets handled
          before    \* history: how much of written and handled is from
                    \* earlier connections

ringVars == <<ring, read, write>>
copyVars == <<chain, q, ulIdx>>
connVars == <<accepted, stream, before, passed, fitted>>
vars == <<ring, read, write, pc, chain, q, ulIdx, final, accepted, stream,
          received, passed, fitted, written, taken, handled, before>>

Mod(i) == i % UIETHERNET_MAX_RECV

Init == /\ ring = [k \in 0..(UIETHERNET_MAX_RECV - 1) |-> 0]
        /\ read = 0
        /\ write = 0
        /\ pc = "idle"
        /\ chain = << >>
        /\ q = 1
        /\ ulIdx = 0
        /\ final = FALSE
        /\ accepted = 1
        /\ stream \in Streams
        /\ received = 0
        /\ passed = << >>
        /\ fitted = TRUE
        /\ written = << >>
        /\ taken = 0
        /\ handled = << >>
        /\ before = [written |-> 0, handled |-> 0]

-----------------------------------------------------------------------------
(* UIEthernetAccept starts a connection with the ring as the last one has  *)
(* left it.                                                                *)

UIEthernetAccept == /\ pc = "idle"
                    /\ accepted < MaxConnections
                    /\ accepted' = accepted + 1
                    /\ stream' \in Streams
                    /\ received' = 0
                    /\ before' = [written |-> Len(written), handled |-> Len(handled)]
                    /\ UNCHANGED <<ringVars, pc, copyVars, final, passed, fitted,
                                   written, taken, handled>>

-----------------------------------------------------------------------------
(* UIEthernetReceive                                                       *)

\* lwIP's chain of pbufs for a segment: the first one also held the headers.
Pbufs(segment) ==
    IF Len(segment) <= FirstPbuf THEN <<segment>>
    ELSE LET n == Len(segment) - FirstPbuf
         IN  <<SubSeq(segment, 1, FirstPbuf)>> \o
             [k \in 1..((n + NextPbufs - 1) \div NextPbufs) |->
                 SubSeq(segment, FirstPbuf + (k - 1) * NextPbufs + 1,
                        IF k * NextPbufs <= n THEN FirstPbuf + k * NextPbufs
                                              ELSE Len(segment))]

\* TCP passes on the next n bytes of the stream in one call.
Receive(n) == /\ pc = "idle"
              /\ received + n <= Len(stream)
              /\ LET segment == SubSeq(stream, received + 1, received + n) IN
                 /\ chain' = Pbufs(segment)
                 /\ passed' = passed \o segment
                 /\ fitted' = (fitted /\ Len(segment) <= FirstPbuf)
              /\ q' = 1
              /\ ulIdx' = 0
              /\ received' = received + n
              /\ pc' = "copy"
              /\ UNCHANGED <<ringVars, final, accepted, stream, before, written,
                             taken, handled>>

NextPbuf == /\ pc = "copy"
            /\ q <= Len(chain)
            /\ ulIdx = Len(chain[q])
            /\ q' = q + 1
            /\ ulIdx' = 0
            /\ UNCHANGED <<ringVars, pc, chain, final, connVars, received, written,
                           taken, handled>>

\* pucData is set to the first payload and not advanced with q: the bytes of
\* a later pbuf are read from the first payload, and behind its end from
\* whatever memory follows it.
PucData == IF ulIdx < Len(chain[1]) THEN {chain[1][ulIdx + 1]} ELSE Byte

CopyByte(b) ==
    /\ pc = "copy"
    /\ q <= Len(chain)
    /\ ulIdx < Len(chain[q])
    /\ b \in PucData
    /\ ring' = [ring EXCEPT ![write] = b]
    /\ write' = Mod(write + 1)
    /\ ulIdx' = ulIdx + 1
    /\ written' = Append(written, b)
    /\ pc' = IF Mod(write' + 1) = read THEN "scan" ELSE "copy"
    /\ final' = FALSE
    /\ UNCHANGED <<read, chain, q, connVars, received, taken, handled>>

CopyDone == /\ pc = "copy"
            /\ q > Len(chain)
            /\ pc' = "scan"
            /\ final' = TRUE
            /\ UNCHANGED <<ringVars, copyVars, connVars, received, written, taken,
                           handled>>

-----------------------------------------------------------------------------
(* UIEthernetScanReceive: one turn of its loop                             *)

At(k) == ring[Mod(read + k)]

Count == IF read > write THEN write - read + UIETHERNET_MAX_RECV
                         ELSE write - read

ucSize == At(1)

Tagged   == read # write /\ At(0) = TAG_CMD
Sized    == Tagged /\ Mod(read + 1) # write
\* Fault: a length larger than the ring is waited for.
SizeFrom4 == Sized /\ ucSize >= 4

SizeOK   == Sized /\ ucSize >= 4 /\ ucSize <= UIETHERNET_MAX_RECV - 1
\* Fault: a packet is handled before all of it has come.
Started == SizeOK

Complete == SizeOK /\ Count >= ucSize

Packet == [k \in 1..ucSize |-> At(k - 1)]

\* The sum that the loop keeps in a byte.
ByteSum(s) == LET sum[k \in 0..Len(s)] ==
                      IF k = 0 THEN 0 ELSE (sum[k - 1] + s[k]) % BYTE
              IN  sum[Len(s)]

\* Fault: the sum leaves out the packet's last byte.
ShortChecksum == ByteSum(SubSeq(Packet, 1, ucSize - 1))

Checksum == ByteSum(Packet)

\* CMD_GET_PARAM_DESC replaces ucSize by the size of the parameter, so that
\* the scan resumes inside the packet it has just handled.
Consumed == IF At(2) = CMD_GET_PARAM_DESC /\ ucSize = 5
               /\ At(3) \in DOMAIN ParamSize
            THEN ParamSize[At(3)]
            ELSE ucSize

Advance(n) == /\ read' = Mod(read + n)
              /\ taken' = taken + n
              /\ UNCHANGED <<ring, write, pc, copyVars, final, connVars, received,
                             written>>

\* Fault: the loop goes on without skipping an impossible length.
SkipUnlessSize == /\ pc = "scan"
                  /\ read # write
                  /\ ~Tagged \/ (Complete /\ Checksum # 0)
                  /\ Advance(1)
                  /\ UNCHANGED handled

\* Not a tag, an impossible length, or a wrong checksum: skip one byte.
Skip == /\ pc = "scan"
        /\ read # write
        /\ ~Tagged \/ (Sized /\ ~SizeOK) \/ (Complete /\ Checksum # 0)
        /\ Advance(1)
        /\ UNCHANGED handled

HandlePacket == /\ pc = "scan"
                /\ Complete
                /\ Checksum = 0
                /\ handled' = Append(handled, Packet)
                /\ Advance(Consumed)

\* Nothing left, or the rest of a packet is still to come.
StopScan == /\ pc = "scan"
            /\ \/ read = write
               \/ Tagged /\ ~Sized
               \/ SizeOK /\ ~Complete
            /\ pc' = IF final THEN "idle" ELSE "copy"
            /\ UNCHANGED <<ringVars, copyVars, final, connVars, received, written,
                           taken, handled>>

-----------------------------------------------------------------------------
Handler == \/ NextPbuf \/ \E b \in Byte : CopyByte(b)
           \/ CopyDone \/ Skip \/ HandlePacket \/ StopScan

Next == Handler \/ UIEthernetAccept \/ \E n \in 1..Len(stream) : Receive(n)

Spec == Init /\ [][Next]_vars

\* An interrupt handler that has started runs on.
FairSpec == Spec /\ WF_vars(Handler)

-----------------------------------------------------------------------------
(* What a scanner that saw all bytes at once would handle.                 *)

Sizes == 4..(UIETHERNET_MAX_RECV - 1)

\* A packet as ui_ethernet.c documents it.
WellFormed(s) == /\ Len(s) >= 4
                 /\ s[1] = TAG_CMD
                 /\ s[2] = Len(s)
                 /\ ByteSum(s) = 0

\* The sizes of the packets that are at place k: one or none.
PacketsAt(s, k) == {n \in Sizes : /\ k + n <= Len(s) + 1
                                  /\ WellFormed(SubSeq(s, k, k + n - 1))}

\* The bytes from k on may be the beginning of a packet.
Unfinished(s, k) == /\ s[k] = TAG_CMD
                    /\ k = Len(s) \/ /\ s[k + 1] \in Sizes
                                     /\ k + s[k + 1] > Len(s) + 1

ParseFrom(s, i) ==
    LET from[k \in 1..(Len(s) + 1)] ==
            IF k > Len(s) \/ Unfinished(s, k) THEN << >>
            ELSE IF PacketsAt(s, k) = {} THEN from[k + 1]
            ELSE LET n == CHOOSE m \in PacketsAt(s, k) : TRUE
                 IN  <<SubSeq(s, k, k + n - 1)>> \o from[k + n]
    IN  from[i]

Parse(s) == ParseFrom(s, 1)

-----------------------------------------------------------------------------
TypeOK == /\ ring \in [0..(UIETHERNET_MAX_RECV - 1) -> Byte]
          /\ read \in 0..(UIETHERNET_MAX_RECV - 1)
          /\ write \in 0..(UIETHERNET_MAX_RECV - 1)
          /\ pc \in {"idle", "copy", "scan"}
          /\ chain \in Seq(Seq(Byte))
          /\ q \in Nat /\ ulIdx \in Nat
          /\ final \in BOOLEAN
          /\ accepted \in Nat
          /\ stream \in Seq(Byte)
          /\ received \in Nat
          /\ passed \in Seq(Byte)
          /\ fitted \in BOOLEAN
          /\ written \in Seq(Byte)
          /\ taken \in Nat
          /\ handled \in Seq(Seq(Byte))
          /\ before \in [written : Nat, handled : Nat]

\* UIEthernetReceive never checks for room before it stores a byte: it counts
\* on a scan of the full ring giving at least one byte back ("Scan the receive
\* buffer for command packets if it is full").  So there is room whenever the
\* copy loop runs, whatever the bytes are.
RoomToCopy == pc = "copy" => Mod(write + 1) # read

\* The ring holds, in order, exactly the bytes written and not yet scanned:
\* none is overwritten, and the scanner never runs past the write index.
RingHoldsUnread ==
    /\ Count = Len(written) - taken
    /\ \A k \in 0..(Count - 1) : At(k) = written[taken + k + 1]

\* The scan resumes inside a request whose ucSize is overwritten, and finds no
\* tag there: neither size, command and parameter nor a checksum is one.
NoTagInRequest ==
    \A id \in DOMAIN ParamSize :
        /\ TAG_CMD \notin {5, CMD_GET_PARAM_DESC, id}
        /\ ByteSum(<<TAG_CMD, 5, CMD_GET_PARAM_DESC, id, TAG_CMD>>) # 0

\* As long as every segment fits its first pbuf, what is handled depends on the
\* bytes received and not on how TCP has cut them into segments, where the ring
\* wrapped around, or which connection they came from, if the protocol's numbers
\* satisfy NoTagInRequest.  Of a longer segment wrong bytes are copied.
CutsDoNotMatter ==
    pc = "idle" /\ fitted => handled = Parse(passed)

\* The interrupt handler returns: no input keeps the scanning loop running.
ReceiveReturns == (pc # "idle") ~> (pc = "idle")
=============================================================================

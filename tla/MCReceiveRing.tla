--------------------------- MODULE MCReceiveRing ---------------------------
(***************************************************************************)
(* A ring of six bytes and bytes modulo eight: 7 is the tag, 4 and 5 are   *)
(* the possible packet lengths, 1 and 6 are out of range, and each is a    *)
(* command, a datum and a checksum as well, so that packets can begin      *)
(* inside packets.                                                         *)
(***************************************************************************)
EXTENDS ReceiveRing, SequencesExt

CONSTANT MaxParts  \* how many parts Conversations join

\* The firmware's only parameter has two bytes.
MCParamSize == 4 :> 2

\* A packet with a tag inside; the parameter description request; a lost byte,
\* the head of a packet that is cut off, a length out of range.
Parts == {<<7, 4, 7, 6>>, <<7, 5, 4, 4, 4>>, <<1>>, <<7, 5, 7>>, <<7, 6>>}

\* Every way of sending MaxParts of them one after the other.
Conversations == {FlattenSeq(s) : s \in [1..MaxParts -> Parts]}

\* The hypothesis under which CutsDoNotMatter is proved holds of these numbers,
\* as of the firmware's.
ASSUME NumbersHideNoTag == NoTagInRequest

\* "If we already have a connection, kill it and start over": what is handled
\* of a connection depends on its own bytes.  The code breaks this, the ring is
\* not emptied in between (README, section 4).
StartsOver ==
    pc = "idle" =>
        SubSeq(handled, before.handled + 1, Len(handled))
            = Parse(SubSeq(stream, 1, received))

\* "Copy the next character into the receive buffer": what is copied is what
\* was received.  The code breaks this for segments of more than one pbuf, of
\* which it copies the first payload again (README, section 4).
CopiesWhatCame == pc = "idle" => written = passed
=============================================================================

--------------------------- MODULE DroppingQueue ---------------------------
(***************************************************************************)
(* What circular_buffer.c promises its users: a first-in first-out queue   *)
(* of at most Capacity elements in which a write to a full queue discards  *)
(* the oldest element ("overwriting oldest element if buffer is full").    *)
(***************************************************************************)
EXTENDS Integers, Sequences

CONSTANTS Elem, Zero, Capacity

VARIABLES queue,    \* the elements waiting to be read, oldest first
          elem      \* the reader's element, where the last read was copied

qvars == <<queue, elem>>

Init == /\ queue = << >>
        /\ elem = Zero

Write(e) == /\ queue' = Append(IF Len(queue) = Capacity THEN Tail(queue)
                                                        ELSE queue, e)
            /\ UNCHANGED elem

Read == /\ queue # << >>
        /\ elem' = Head(queue)
        /\ queue' = Tail(queue)

Next == Read \/ \E e \in Elem : Write(e)

Spec == Init /\ [][Next]_qvars
=============================================================================

--------------------------- MODULE CircularBuffer ---------------------------
(***************************************************************************)
(* The circular buffer of bbones/shared/circular_buffer.c: an array of     *)
(* size + 1 slots of which one is always left open, so that start = end    *)
(* means empty and never full.  A buffer is a record; the operators carry  *)
(* the names of the C functions.                                           *)
(***************************************************************************)
EXTENDS Integers

\* The buffers made by cbInit(cb, n), holding elements of Elem.
Buffer(n, Elem) == [size  : {n + 1},
                    start : 0..n,
                    end   : 0..n,
                    elems : [0..n -> Elem]]

\* zero is what calloc leaves in a slot.
cbInit(n, zero) == [size  |-> n + 1,
                    start |-> 0,
                    end   |-> 0,
                    elems |-> [i \in 0..n |-> zero]]

After(cb, i) == (i + 1) % cb.size

\* Fault: full one element too early.
cbIsFullEarly(cb) == After(cb, After(cb, cb.end)) = cb.start

cbIsFull(cb)  == After(cb, cb.end) = cb.start

cbIsEmpty(cb) == cb.end = cb.start

\* cbWrite is three statements; PingPongLog runs them one at a time.
cbStore(cb, e) == [cb EXCEPT !.elems[cb.end] = e]

cbAdvanceEnd(cb) == [cb EXCEPT !.end = After(cb, @)]

\* Fault: a full buffer is written to like any other.
cbDropNothing(cb) == cb

cbDropOldest(cb) ==
    IF cb.end = cb.start THEN [cb EXCEPT !.start = After(cb, @)] ELSE cb

cbWrite(cb, e) == cbDropOldest(cbAdvanceEnd(cbStore(cb, e)))

\* cbRead is the oldest element and the advanced start.
cbOldest(cb) == cb.elems[cb.start]

cbAdvanceStart(cb) == [cb EXCEPT !.start = After(cb, @)]

-----------------------------------------------------------------------------
\* The abstract content: the elements from start up to end, oldest first.
cbCount(cb) == IF cb.end >= cb.start THEN cb.end - cb.start
                                     ELSE cb.end + cb.size - cb.start

Slot(cb, i) == IF cb.start + i >= cb.size THEN cb.start + i - cb.size
                                          ELSE cb.start + i

cbContents(cb) == [i \in 1..cbCount(cb) |-> cb.elems[Slot(cb, i - 1)]]

\* The buffer holds at least two elements.
cbHasTwo(cb) == ~cbIsEmpty(cb) /\ After(cb, cb.start) # cb.end
=============================================================================

----------------------------- MODULE LossyLine -----------------------------
(***************************************************************************)
(* What the serial line promises to the programs of the BeagleBone.  Two   *)
(* sums cannot tell every disturbed frame from a sent one, so that what    *)
(* arrives after a disturbance is anyone's guess; but a frame that was     *)
(* sent undisturbed is owed: it arrives whole, once, in order, before      *)
(* whatever is made of the bytes behind it, and only a failing read costs  *)
(* it.  A disturbance is over at the next frame that meets an idle reader. *)
(***************************************************************************)
EXTENDS Integers, Sequences

VARIABLES waiting,    \* frames that are owed
          disturbed,  \* a fault since a frame last met an idle reader
          arrived     \* the frames that arrived

vars == <<waiting, disturbed, arrived>>

Init == waiting = << >> /\ disturbed = FALSE /\ arrived = << >>

Send(f) == /\ ~disturbed
           /\ waiting' = Append(waiting, f)
           /\ UNCHANGED <<disturbed, arrived>>

Arrive == /\ waiting # << >>
          /\ arrived' = Append(arrived, Head(waiting))
          /\ waiting' = Tail(waiting)
          /\ UNCHANGED disturbed

Disturb == /\ disturbed' = TRUE
           /\ waiting' \in {waiting, << >>}
           /\ UNCHANGED arrived

Settle == /\ waiting = << >>
          /\ disturbed' = FALSE
          /\ UNCHANGED <<waiting, arrived>>

Guess(f) == /\ disturbed /\ waiting = << >>
            /\ arrived' = Append(arrived, f)
            /\ UNCHANGED <<waiting, disturbed>>

Elements(s) == {s[i] : i \in DOMAIN s}

Next == \/ \E f \in Elements(waiting') : Send(f)
        \/ \E f \in Elements(arrived') : Guess(f)
        \/ Arrive \/ Disturb \/ Settle

Spec == Init /\ [][Next]_vars
=============================================================================

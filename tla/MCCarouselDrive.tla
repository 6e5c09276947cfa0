-------------------------- MODULE MCCarouselDrive --------------------------
EXTENDS CarouselDrive

MCTargets == {0, 3}
MCInitSpeeds == {3}

\* "avoid jumps" without exception.  The code breaks this in the two ways that
\* NoJump leaves out (README, section 4).
AvoidsJumps == [][Abs(drive' - drive) <= Reach(faults')]_drive
=============================================================================

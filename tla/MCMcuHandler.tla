---------------------------- MODULE MCMcuHandler ----------------------------
EXTENDS McuHandler

\* Positions inside and beyond the travel, on both sides.
MCPositions == {-3, 1}

\* One derivative that takes a surface past its end within two samples.
MCDerivatives == {-1, 2}
=============================================================================

---------------------------- MODULE MCCorrections ----------------------------
\* Instances of Corrections for TLC.
EXTENDS Corrections
=============================================================================

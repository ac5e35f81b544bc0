---------------------------- MODULE MCSelfUpdate ----------------------------
\* Instances of SelfUpdate for TLC.
EXTENDS SelfUpdate

\* Behaviours are followed up to the first overlap: from there on NeverStranded,
\* BackInService and JobSettles are excused for good.
UntilOverlap == "overlap" \notin mishaps
=============================================================================

--------------------------- MODULE MCChannelSession ---------------------------
\* Instances of ChannelSession for TLC.
EXTENDS ChannelSession, TLC

\* Turns that are treated alike may be exchanged, and so may channels.
MCSymmetry == Permutations(Turns \ ContextTurns) \cup Permutations(Channels)
=============================================================================

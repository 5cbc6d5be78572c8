----------------------- MODULE MCChannelSessionSerial -------------------------
\* Instances of ChannelSessionSerial for TLC.
EXTENDS ChannelSessionSerial, TLC

MCSymmetry == Permutations(Turns \ ContextTurns) \cup Permutations(Channels)
=============================================================================

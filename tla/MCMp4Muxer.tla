----------------------------- MODULE MCMp4Muxer -----------------------------
EXTENDS Mp4MuxerProofs

\* An IDR picture of two NAL units and a P picture of one.
MCFrames == {[nals |-> 2, bytes |-> 3, key |-> TRUE],
             [nals |-> 1, bytes |-> 2, key |-> FALSE]}
=============================================================================

--------------------------- MODULE MCStreamServer ---------------------------
EXTENDS StreamServer
=============================================================================

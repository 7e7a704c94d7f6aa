---------------------------- MODULE MCConnection ----------------------------
EXTENDS Connection

CONSTANTS s1, s2, s3

\* Two sockets at once and one that still closes.
MCSockets == {s1, s2, s3}
=============================================================================

--------------------------- MODULE MCTokenRefresh ---------------------------
EXTENDS TokenRefresh, TLC
CONSTANTS w1, w2, k1
OneWeb == {w1}
TwoWeb == {w1, w2}
OneWorker == {k1}
NoWorker == {}
=============================================================================

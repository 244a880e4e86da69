---------------------------- MODULE MCImagePipeline ----------------------------
EXTENDS ImagePipeline
TwoImages == {1, 2}
Faces == [i \in TwoImages |-> 1]

\* An ordinary image beside one the service cannot survive, and beside a
\* missing one of which the cap leaves one out; two that are given up.
World(k1, k2, d) == [kind |-> [i \in TwoImages |-> IF i = 1 THEN k1 ELSE k2], depicting |-> d]
PairsOfImages ==
    {World("plain", "poison", {1}), World("plain", "missing", TwoImages),
     World("refused", "unrenderable", {}), World("plain", "unrenderable", {})}
===============================================================================

------------------------------ MODULE WakeSignal ------------------------------
(***************************************************************************)
(* What the wake-up counter promises (the head of wake.py), without the    *)
(* counter: a worker that listens and is asked looks at the tables once    *)
(* more, and nothing but its own look, or its own end, takes the request   *)
(* back.  WakeCounter implements it.                                       *)
(***************************************************************************)
EXTENDS Naturals
CONSTANT Workers
VARIABLES
    asks,        \* requests so far
    listening,   \* the workers that can tell a new request from an old one
    asked        \* those of them that have yet to look
signal == <<asks, listening, asked>>

Init == asks = 0 /\ listening = {} /\ asked = {}

Ask ==
    /\ asks' = asks + 1
    /\ asked' = asked \union listening
    /\ UNCHANGED listening

\* A request may arrive while the worker takes its first look at the counter.
Listen(w) ==
    /\ w \notin listening
    /\ listening' = listening \union {w}
    /\ asked' \in {asked, asked \union {w}}
    /\ UNCHANGED asks

Look(w) ==
    /\ w \in asked
    /\ asked' = asked \ {w}
    /\ UNCHANGED <<asks, listening>>

\* A worker that comes back looks at everything before it listens.
Leave(w) ==
    /\ listening' = listening \ {w}
    /\ asked' = asked \ {w}
    /\ UNCHANGED asks

Next == Ask \/ \E w \in Workers : Listen(w) \/ Look(w) \/ Leave(w)

Spec == Init /\ [][Next]_signal
===============================================================================

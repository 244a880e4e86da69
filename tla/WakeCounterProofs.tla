--------------------------- MODULE WakeCounterProofs ---------------------------
(***************************************************************************)
(* The counter keeps the promise of WakeSignal, for any number of workers. *)
(***************************************************************************)
EXTENDS WakeCounter, TLAPS

\* Baselines and values in hand never run ahead of the counter, nor a baseline
\* ahead of the value it is compared with.
Baselines ==
    \A w \in Workers :
        /\ seen[w] # None => seen[w] <= seq
        /\ hand[w] \notin {None, NotReading} =>
              hand[w] <= seq /\ (seen[w] # None => seen[w] <= hand[w])

\* Only a worker with a baseline is woken, and it looks before it reads again.
Wakes ==
    \A w \in Workers :
        /\ woken[w] => seen[w] # None /\ hand[w] = NotReading
        /\ place[w] \in {"down", "starting"} => seen[w] = None /\ ~woken[w]
        /\ place[w] = "down" => hand[w] = NotReading

WakeInv == WakeTypeOK /\ Baselines /\ Wakes

USE WakeAssumption

\* The start.
LEMMA WakeStart == WakeInit => WakeInv
  BY DEF WakeInit, WakeInv, WakeTypeOK, Baselines, Wakes, Stages

\* One step of one worker leaves the others' entries alone.
LEMMA WakeStep == WakeInv /\ [WakeNext]_wakeVars => WakeInv'
  <1> SUFFICES ASSUME WakeInv, [WakeNext]_wakeVars PROVE WakeInv'
    OBVIOUS
  <1> USE DEF WakeInv, WakeTypeOK, Stages
  <1>1. CASE RequestWake
    <2>1. WakeTypeOK'
      BY <1>1 DEF RequestWake
    <2>2. Baselines'
      BY <1>1 DEF RequestWake, Baselines
    <2>3. Wakes'
      BY <1>1 DEF RequestWake, Wakes
    <2> QED  BY <2>1, <2>2, <2>3
  <1>2. ASSUME NEW w \in Workers, Read(w) PROVE WakeInv'
    <2>1. WakeTypeOK'
      BY <1>2 DEF Read, Unread
    <2>2. Baselines'
      BY <1>2 DEF Read, Unread, Baselines
    <2>3. Wakes'
      BY <1>2 DEF Read, Watching, Wakes
    <2> QED  BY <2>1, <2>2, <2>3
  <1>3. ASSUME NEW w \in Workers, Prime(w) PROVE WakeInv'
    <2>1. WakeTypeOK'
      BY <1>3 DEF Prime
    <2>2. Baselines'
      BY <1>3 DEF Prime, Baselines
    <2>3. Wakes'
      BY <1>3 DEF Prime, Wakes
    <2> QED  BY <2>1, <2>2, <2>3
  <1>4. ASSUME NEW w \in Workers, Consume(w) PROVE WakeInv'
    <2>1. WakeTypeOK'
      BY <1>4 DEF Consume, IsNew
    <2>2. Baselines'
      BY <1>4 DEF Consume, IsNew, Baselines
    <2>3. Wakes'
      <3>1. seen'[w] # None \/ ~IsNew(w)
        BY <1>4 DEF Consume, IsNew
      <3>2. hand'[w] = NotReading /\ place[w] \notin {"down", "starting"}
        BY <1>4 DEF Consume, Wakes
      <3>3. woken'[w] => IsNew(w)
        BY <1>4, Zenon DEF Consume
      <3> QED  BY <1>4, <3>1, <3>2, <3>3 DEF Consume, Wakes
    <2> QED  BY <2>1, <2>2, <2>3
  <1>5. ASSUME NEW w \in Workers, OnWake(w) \/ Drained(w) \/ CycleEnds(w) \/ NextCycle(w)
        PROVE WakeInv'
    <2>1. WakeTypeOK'
      BY <1>5 DEF OnWake, Drained, CycleEnds, NextCycle
    <2>2. Baselines'
      BY <1>5 DEF OnWake, Drained, CycleEnds, NextCycle, Baselines
    <2>3. Wakes'
      BY <1>5 DEF OnWake, Drained, CycleEnds, NextCycle, Wakes
    <2> QED  BY <2>1, <2>2, <2>3
  <1>6. ASSUME NEW w \in Workers, Crash(w) \/ Restart(w) PROVE WakeInv'
    <2>1. WakeTypeOK'
      <3>1. CASE Crash(w)
        <4>1. seq' \in 0..MaxSeq /\ failures' \in 0..MaxFailures
          BY <3>1 DEF Crash
        <4> QED  BY <3>1, <4>1, Zenon DEF Crash
      <3>2. CASE Restart(w)
        BY <3>2 DEF Restart
      <3> QED  BY <1>6, <3>1, <3>2
    <2>2. Baselines'
      BY <1>6 DEF Crash, Restart, Baselines
    <2>3. Wakes'
      BY <1>6 DEF Crash, Restart, Wakes
    <2> QED  BY <2>1, <2>2, <2>3
  <1>7. CASE UNCHANGED wakeVars
    BY <1>7 DEF wakeVars, Baselines, Wakes
  <1>8. CASE StatementFails
    BY <1>8 DEF StatementFails, Baselines, Wakes
  <1> QED  BY <1>1, <1>2, <1>3, <1>4, <1>5, <1>6, <1>7, <1>8 DEF WakeNext

\* Every step is a step of the promise, or none of its variables' business.
LEMMA WakeRefines == WakeInv /\ [WakeNext]_wakeVars => [Signal!Next]_(Signal!signal)
  <1> SUFFICES ASSUME WakeInv, [WakeNext]_wakeVars PROVE [Signal!Next]_(Signal!signal)
    OBVIOUS
  <1> USE DEF WakeInv, WakeTypeOK, Listening, Asked
  <1>1. CASE RequestWake
    <2>1. Signal!Ask
      BY <1>1 DEF RequestWake, Baselines, Signal!Ask
    <2> QED  BY <2>1 DEF Signal!Next
  <1>2. ASSUME NEW w \in Workers, Read(w) PROVE UNCHANGED Signal!signal
    BY <1>2 DEF Read, Signal!signal
  <1>3. ASSUME NEW w \in Workers, Prime(w) PROVE [Signal!Next]_(Signal!signal)
    <2>1. seen[w] = None /\ ~woken[w] /\ w \notin Listening
      BY <1>3 DEF Prime, Wakes
    <2>2. CASE hand[w] = None
      BY <1>3, <2>2 DEF Prime, Signal!signal
    <2>3. CASE hand[w] # None
      <3>1. Listening' = Listening \union {w}
        BY <1>3, <2>3 DEF Prime
      <3>2. Asked' \in {Asked, Asked \union {w}}
        BY <1>3, <2>1, <2>3 DEF Prime
      <3>3. Signal!Listen(w)
        BY <1>3, <2>1, <3>1, <3>2 DEF Prime, Signal!Listen
      <3> QED  BY <3>3 DEF Signal!Next
    <2> QED  BY <2>2, <2>3
  <1>4. ASSUME NEW w \in Workers, Consume(w) PROVE [Signal!Next]_(Signal!signal)
    <2>0. ~woken[w] /\ hand[w] # NotReading
      BY <1>4 DEF Consume, Wakes
    <2>1. CASE ~IsNew(w)
      BY <1>4, <2>0, <2>1 DEF Consume, Signal!signal
    <2>2. CASE IsNew(w) /\ seen[w] = None
      <3>1. Listening' = Listening \union {w} /\ w \notin Listening
        BY <1>4, <2>2 DEF Consume, IsNew
      <3>2. Asked' \in {Asked, Asked \union {w}}
        BY <1>4, <2>0, <2>2 DEF Consume, IsNew
      <3>3. Signal!Listen(w)
        BY <1>4, <3>1, <3>2 DEF Consume, Signal!Listen
      <3> QED  BY <3>3 DEF Signal!Next
    <2>3. CASE IsNew(w) /\ seen[w] # None
      <3>1. seen[w] # seq
        BY <2>0, <2>3 DEF IsNew, Baselines
      <3>2. Listening' = Listening
        BY <1>4, <2>3 DEF Consume, IsNew
      <3>3. Asked' = Asked
        BY <1>4, <2>3, <3>1 DEF Consume, IsNew
      <3> QED  BY <1>4, <3>2, <3>3 DEF Consume, Signal!signal
    <2> QED  BY <2>1, <2>2, <2>3
  <1>5. ASSUME NEW w \in Workers, OnWake(w) \/ NextCycle(w) PROVE [Signal!Next]_(Signal!signal)
    <2>0. UNCHANGED <<seq, seen>> /\ woken' = [woken EXCEPT ![w] = FALSE]
      BY <1>5 DEF OnWake, NextCycle
    <2>1. CASE woken[w] /\ seen[w] = seq
      <3>1. w \in Asked /\ Asked' = Asked \ {w} /\ Listening' = Listening
        BY <2>0, <2>1 DEF Wakes
      <3>2. Signal!Look(w)
        BY <2>0, <3>1 DEF Signal!Look
      <3> QED  BY <3>2 DEF Signal!Next
    <2>2. CASE ~(woken[w] /\ seen[w] = seq)
      <3>1. Asked' = Asked /\ Listening' = Listening
        BY <2>0, <2>2
      <3> QED  BY <2>0, <3>1 DEF Signal!signal
    <2> QED  BY <2>1, <2>2
  <1>6. ASSUME NEW w \in Workers, Drained(w) \/ CycleEnds(w) \/ Restart(w)
        PROVE UNCHANGED Signal!signal
    BY <1>6 DEF Drained, CycleEnds, Restart, Signal!signal
  <1>7. ASSUME NEW w \in Workers, Crash(w) PROVE Signal!Next
    <2>1. Listening' = Listening \ {w}
      BY <1>7 DEF Crash
    <2>2. Asked' = Asked \ {w}
      BY <1>7 DEF Crash
    <2>3. Signal!Leave(w)
      BY <1>7, <2>1, <2>2 DEF Crash, Signal!Leave
    <2> QED  BY <2>3 DEF Signal!Next
  <1>8. CASE UNCHANGED wakeVars
    BY <1>8 DEF wakeVars, Signal!signal
  <1>9. CASE StatementFails
    BY <1>9 DEF StatementFails, Signal!signal
  <1> QED  BY <1>1, <1>2, <1>3, <1>4, <1>5, <1>6, <1>7, <1>8, <1>9 DEF WakeNext

\* The types of the counter and of the workers' view of it (WakeWatcher).
THEOREM WakeTypeCorrect == WakeSpec => []WakeTypeOK
  <1>1. WakeInv => WakeTypeOK
    BY DEF WakeInv
  <1> QED  BY <1>1, WakeStart, WakeStep, PTL DEF WakeSpec

\* A request reaches every worker that listens and only its own look, or its
\* end, takes it back (wake.py:7-13): the counter implements WakeSignal.
THEOREM CounterKeepsSignal == WakeSpec => SignalIsKept
  <1>1. WakeInit => Signal!Init
    BY DEF WakeInit, Signal!Init, Listening, Asked
  <1> QED  BY <1>1, WakeStart, WakeStep, WakeRefines, PTL DEF WakeSpec, SignalIsKept, Signal!Spec
===============================================================================

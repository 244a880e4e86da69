------------------------------ MODULE WakeCounter ------------------------------
(***************************************************************************)
(* The wake-up counter (wake.py) and the main loop of the workers that     *)
(* watch it (worker.py, main): a row of the database that the web app      *)
(* counts up and every worker compares with a baseline of its own.         *)
(***************************************************************************)
EXTENDS Naturals

CONSTANTS
    Workers,
    None,          \* no baseline yet, or a value that could not be read
    NotReading,    \* no value in hand
    MaxSeq,        \* bound: requests that reach the counter
    MaxFailures    \* bound: statements that fail and workers that die

ASSUME WakeAssumption ==
    /\ MaxSeq \in Nat /\ MaxFailures \in Nat
    /\ None \notin Nat /\ NotReading \notin Nat /\ NotReading # None

VARIABLES
    seq,         \* worker_wake.seq, 0 while there is no row
    seen,        \* WakeWatcher._seen
    hand,        \* `current' in consume() and prime()
    woken,       \* consume() returned True, and nothing was looked at yet
    place,       \* where the main loop is
    failures
wakeVars == <<seq, seen, hand, woken, place, failures>>

Stages == {"down", "starting", "drain", "busy", "asleep"}

WakeTypeOK ==
    /\ seq \in 0..MaxSeq
    /\ seen \in [Workers -> 0..MaxSeq \union {None}]
    /\ hand \in [Workers -> 0..MaxSeq \union {None, NotReading}]
    /\ woken \in [Workers -> BOOLEAN]
    /\ place \in [Workers -> Stages]
    /\ failures \in 0..MaxFailures

WakeInit ==
    /\ seq = 0
    /\ seen = [w \in Workers |-> None]
    /\ hand = [w \in Workers |-> NotReading]
    /\ woken = [w \in Workers |-> FALSE]
    /\ place = [w \in Workers |-> "starting"]
    /\ failures = 0

-----------------------------------------------------------------------------
\* request_wake: the row is counted up; or that fails, and nothing happens.
RequestWake ==
    /\ seq < MaxSeq
    /\ seq' = seq + 1
    /\ UNCHANGED <<seen, hand, woken, place, failures>>

\* _read, from prime() before the first cycle, and from consume() while the
\* threads of a cycle run and all through the sleep. The value may be old by
\* the time it is compared.
AsZero == 0                                                        \* mutant
Unread == None
NeverAsleep(w) == place[w] \in {"starting", "drain", "busy"}       \* mutant
Watching(w) == place[w] \in {"starting", "drain", "busy", "asleep"}
Read(w) ==
    /\ Watching(w) /\ ~woken[w] /\ hand[w] = NotReading
    /\ \/ hand' = [hand EXCEPT ![w] = seq] /\ UNCHANGED failures
       \/ /\ failures < MaxFailures /\ failures' = failures + 1
          /\ hand' = [hand EXCEPT ![w] = Unread]
    /\ UNCHANGED <<seq, seen, woken, place>>

\* prime() adopts the value; the first cycle looks at everything.
Prime(w) ==
    /\ place[w] = "starting" /\ hand[w] # NotReading
    /\ seen' = [seen EXCEPT ![w] = IF hand[w] # None THEN hand[w] ELSE @]
    /\ hand' = [hand EXCEPT ![w] = NotReading]
    /\ place' = [place EXCEPT ![w] = "drain"]
    /\ UNCHANGED <<seq, woken, failures>>

\* consume(): a new value becomes the baseline, and is news unless there was none.
IsNew(w) == hand[w] # None /\ hand[w] # seen[w]
Consume(w) ==
    /\ place[w] # "starting" /\ hand[w] # NotReading
    /\ seen' = [seen EXCEPT ![w] = IF IsNew(w) THEN hand[w] ELSE @]
    /\ woken' = [woken EXCEPT ![w] = IsNew(w) /\ seen[w] # None]
    /\ hand' = [hand EXCEPT ![w] = NotReading]
    /\ UNCHANGED <<seq, place, failures>>

\* on_wake of a running cycle: SDC runs and inference, in the busy phase also
\* new projects if a slot is free.
OnWake(w) ==
    /\ woken[w] /\ place[w] \in {"drain", "busy"}
    /\ woken' = [woken EXCEPT ![w] = FALSE]
    /\ UNCHANGED <<seq, seen, hand, place, failures>>

\* The inference queue is empty (_drain_inference_queue), then the active
\* projects are done (_process_active_projects), then the loop sleeps.
Idle(w) == hand[w] = NotReading /\ ~woken[w]
Drained(w) ==
    /\ place[w] = "drain" /\ Idle(w)
    /\ place' = [place EXCEPT ![w] = "busy"]
    /\ UNCHANGED <<seq, seen, hand, woken, failures>>
CycleEnds(w) ==
    /\ place[w] = "busy" /\ Idle(w)
    /\ place' = [place EXCEPT ![w] = "asleep"]
    /\ UNCHANGED <<seq, seen, hand, woken, failures>>

\* _sleep_until_next_cycle is over: the poll interval has passed, or a wake-up
\* came; _run_cycle looks at everything.
NextCycle(w) ==
    /\ place[w] = "asleep" /\ hand[w] = NotReading
    /\ place' = [place EXCEPT ![w] = "drain"]
    /\ woken' = [woken EXCEPT ![w] = FALSE]
    /\ UNCHANGED <<seq, seen, hand, failures>>

Crash(w) ==
    /\ place[w] # "down"
    /\ failures < MaxFailures /\ failures' = failures + 1
    /\ place' = [place EXCEPT ![w] = "down"]
    /\ seen' = [seen EXCEPT ![w] = None]
    /\ hand' = [hand EXCEPT ![w] = NotReading]
    /\ woken' = [woken EXCEPT ![w] = FALSE]
    /\ UNCHANGED seq
Restart(w) ==
    /\ place[w] = "down"
    /\ place' = [place EXCEPT ![w] = "starting"]
    /\ UNCHANGED <<seq, seen, hand, woken, failures>>

\* Any other statement of a worker fails.
StatementFails ==
    /\ failures < MaxFailures /\ failures' = failures + 1
    /\ UNCHANGED <<seq, seen, hand, woken, place>>

WakeNext ==
    \/ RequestWake \/ StatementFails
    \/ \E w \in Workers :
         \/ Read(w) \/ Prime(w) \/ Consume(w) \/ OnWake(w) \/ Drained(w) \/ CycleEnds(w)
         \/ NextCycle(w) \/ Crash(w) \/ Restart(w)

WakeSpec == WakeInit /\ [][WakeNext]_wakeVars

-----------------------------------------------------------------------------
Listening == {w \in Workers : seen[w] # None}
Asked == {w \in Listening : seen[w] # seq \/ woken[w]}
Signal == INSTANCE WakeSignal WITH asks <- seq, listening <- Listening, asked <- Asked

\* "Every worker that sees a value it has not handled yet starts its next
\* cycle at once", and "a request that arrives while a worker is busy is still
\* seen on its next check instead of being lost" (wake.py:7-13): between a
\* request and a worker's look at the tables nothing takes the request back,
\* no worker takes another's, and no worker is woken without a request.
SignalIsKept == Signal!Spec

\* ... and the look comes (worker.py, _sleep_until_next_cycle).
RequestsAreSeen == \A w \in Workers : w \in Asked ~> w \notin Asked
===============================================================================

---------------------------- MODULE KeyedHistory ----------------------------
(***************************************************************************)
(* script/builtins/state.go: throttle, debounce, ewma and pid_update.      *)
(*                                                                         *)
(* Each of them keeps what it must remember about a key in one cell of the *)
(* state map.  A call reads the wall clock (or takes a sample), reads the  *)
(* cell under the read lock, and overwrites the cell under the write lock: *)
(* three steps, between which other scripts may call the same function on  *)
(* the same key and the clock may be set back.  The cells have different   *)
(* names, so one key of each function is enough.                           *)
(*                                                                         *)
(* The cell of a filter (ewma, pid_update) is represented by the sequence  *)
(* of samples folded into it.  The average and the integrator are folds of *)
(* the whole sequence, the previous error is its last element.             *)
(***************************************************************************)
EXTENDS Integers, Sequences

CONSTANTS
    Handlers,   \* the goroutines that may run a script
    Delay,      \* delay_ms
    MaxTime,    \* bound: the largest clock reading
    MaxCalls,   \* bound: calls
    MaxJumps    \* bound: how often the clock is set back

ASSUME DelayAssumption == Delay \in Nat \ {0}
ASSUME BoundsAssumption == MaxTime \in Nat /\ MaxCalls \in Nat /\ MaxJumps \in Nat

Functions == {"throttle", "debounce", "filter"}

VARIABLES
    clock,      \* time.Now().UnixMilli()
    last,       \* the stamps in the cells of throttle and debounce, in a
                \* sequence that is empty while there is no cell
    hist,       \* the samples folded into the filter's cell
    pc,         \* where each handler's call is
    fun,        \* the function it calls
    arg,        \* the clock reading or the sample of the call
    old,        \* what the call read from its cell
    calls, jumps,   \* (bounds)
    overlapped, \* ghost: the functions of which two calls overlapped
    fired,      \* ghost: the stamps of calls of throttle that returned true
    asked,      \* ghost: the stamps of completed calls of debounce
    quiet,      \* ghost: which of them returned true
    samples     \* ghost: the samples whose call completed

call == <<pc, fun, arg, old>>
answers == <<fired, asked, quiet, samples>>
vars == <<clock, last, hist, call, calls, jumps, overlapped, answers>>

Init ==
    /\ clock = 0
    /\ last = [f \in {"throttle", "debounce"} |-> <<>>]
    /\ hist = <<>>
    /\ pc = [h \in Handlers |-> "idle"]
    /\ fun = [h \in Handlers |-> "filter"]
    /\ arg = [h \in Handlers |-> 0]
    /\ old = [h \in Handlers |-> <<>>]
    /\ calls = 0
    /\ jumps = 0
    /\ overlapped = {}
    /\ fired = <<>>
    /\ asked = <<>>
    /\ quiet = {}
    /\ samples = <<>>

-----------------------------------------------------------------------------

Tick ==
    /\ clock < MaxTime
    /\ clock' = clock + 1
    /\ UNCHANGED <<last, hist, call, calls, jumps, overlapped, answers>>

\* The wall clock is corrected: UnixMilli has no monotonic part.
SetBack ==
    /\ jumps < MaxJumps
    /\ jumps' = jumps + 1
    /\ \E t \in 0..(clock - 1) : clock' = t
    /\ UNCHANGED <<last, hist, call, calls, overlapped, answers>>

\* A script calls f: now := time.Now().UnixMilli(), or a new sample.
Begin(h, f) ==
    /\ pc[h] = "idle"
    /\ calls < MaxCalls
    /\ calls' = calls + 1
    /\ pc' = [pc EXCEPT ![h] = "read"]
    /\ fun' = [fun EXCEPT ![h] = f]
    /\ arg' = [arg EXCEPT ![h] = IF f = "filter" THEN calls + 1 ELSE clock]
    /\ overlapped' = IF \E g \in Handlers : pc[g] # "idle" /\ fun[g] = f
                     THEN overlapped \cup {f} ELSE overlapped
    /\ UNCHANGED <<clock, last, hist, old, jumps, answers>>

\* mu.RLock: the cell is read.
Read(h) ==
    /\ pc[h] = "read"
    /\ old' = [old EXCEPT ![h] = IF fun[h] = "filter" THEN hist
                                                     ELSE last[fun[h]]]
    /\ pc' = [pc EXCEPT ![h] = "decide"]
    /\ UNCHANGED <<clock, last, hist, fun, arg, calls, jumps, overlapped, answers>>

\* The cell exists, and now - last < delay.
Early(h) == old[h] # <<>> /\ arg[h] - old[h][1] < Delay

Return(h) ==
    /\ pc' = [pc EXCEPT ![h] = "idle"]
    /\ arg' = [arg EXCEPT ![h] = 0]
    /\ old' = [old EXCEPT ![h] = <<>>]
    /\ UNCHANGED <<clock, fun, calls, jumps, overlapped>>

\* Seeded bug: a refused call is remembered, too.
ThrottleRefuseRemembers(h) ==
    /\ pc[h] = "decide" /\ fun[h] = "throttle"
    /\ Early(h)
    /\ last' = [last EXCEPT !["throttle"] = <<arg[h]>>]
    /\ UNCHANGED <<hist, answers>>
    /\ Return(h)

\* throttle returns false and leaves the cell alone.
ThrottleRefuse(h) ==
    /\ pc[h] = "decide" /\ fun[h] = "throttle"
    /\ Early(h)
    /\ UNCHANGED <<last, hist, answers>>
    /\ Return(h)

\* Seeded bug: the cell is only created, never overwritten.
ThrottleFireOnce(h) ==
    /\ pc[h] = "decide" /\ fun[h] = "throttle"
    /\ ~Early(h)
    /\ last' = [last EXCEPT !["throttle"] = IF @ = <<>> THEN <<arg[h]>> ELSE @]
    /\ fired' = Append(fired, arg[h])
    /\ UNCHANGED <<hist, asked, quiet, samples>>
    /\ Return(h)

\* mu.Lock: throttle stores the stamp and returns true.
ThrottleFire(h) ==
    /\ pc[h] = "decide" /\ fun[h] = "throttle"
    /\ ~Early(h)
    /\ last' = [last EXCEPT !["throttle"] = <<arg[h]>>]
    /\ fired' = Append(fired, arg[h])
    /\ UNCHANGED <<hist, asked, quiet, samples>>
    /\ Return(h)

\* Seeded bug: a call that returns false is not remembered.
DebounceForgets(h) ==
    /\ pc[h] = "decide" /\ fun[h] = "debounce"
    /\ last' = [last EXCEPT !["debounce"] =
                   IF ~Early(h) THEN <<arg[h]>> ELSE @]
    /\ asked' = Append(asked, arg[h])
    /\ quiet' = IF old[h] # <<>> /\ ~Early(h)
                THEN quiet \cup {Len(asked) + 1} ELSE quiet
    /\ UNCHANGED <<hist, fired, samples>>
    /\ Return(h)

\* mu.Lock: debounce stores the stamp of every call.
Debounce(h) ==
    /\ pc[h] = "decide" /\ fun[h] = "debounce"
    /\ last' = [last EXCEPT !["debounce"] = <<arg[h]>>]
    /\ asked' = Append(asked, arg[h])
    /\ quiet' = IF old[h] # <<>> /\ ~Early(h)
                THEN quiet \cup {Len(asked) + 1} ELSE quiet
    /\ UNCHANGED <<hist, fired, samples>>
    /\ Return(h)

\* Seeded bug: the first sample is returned as it is and not stored.
FilterStartsLate(h) ==
    /\ pc[h] = "decide" /\ fun[h] = "filter"
    /\ hist' = IF samples = <<>> THEN <<>> ELSE Append(old[h], arg[h])
    /\ samples' = Append(samples, arg[h])
    /\ UNCHANGED <<last, fired, asked, quiet>>
    /\ Return(h)

\* mu.Lock: ewma and pid_update store what they computed from the cell.
Filter(h) ==
    /\ pc[h] = "decide" /\ fun[h] = "filter"
    /\ hist' = Append(old[h], arg[h])
    /\ samples' = Append(samples, arg[h])
    /\ UNCHANGED <<last, fired, asked, quiet>>
    /\ Return(h)

Next ==
    \/ Tick
    \/ SetBack
    \/ \E h \in Handlers :
          \/ \E f \in Functions : Begin(h, f)
          \/ Read(h)
          \/ ThrottleRefuse(h)
          \/ ThrottleFire(h)
          \/ Debounce(h)
          \/ Filter(h)

Spec == Init /\ [][Next]_vars

-----------------------------------------------------------------------------
(* Correctness.                                                            *)

TypeOK ==
    /\ clock \in Nat
    /\ last \in [{"throttle", "debounce"} -> Seq(Nat)]
    /\ hist \in Seq(Nat)
    /\ pc \in [Handlers -> {"idle", "read", "decide"}]
    /\ fun \in [Handlers -> Functions]
    /\ arg \in [Handlers -> Nat]
    /\ old \in [Handlers -> Seq(Nat)]
    /\ calls \in Nat
    /\ jumps \in Nat
    /\ overlapped \subseteq Functions
    /\ fired \in Seq(Nat)
    /\ asked \in Seq(Nat)
    /\ quiet \subseteq 1..Len(asked)
    /\ samples \in Seq(Nat)

\* "returns false until delay_ms milliseconds have elapsed": as long as no two
\* calls overlap, the stamps of the calls that throttle lets through are a
\* delay apart, even when the clock is set back.
ThrottleSpaced ==
    "throttle" \notin overlapped =>
        \A i, j \in 1..Len(fired) : i < j => fired[j] - fired[i] >= Delay

\* A call that overlaps others may be let through with them, but none is let
\* through late: a refusal means that less than a delay before (or later, by a
\* clock that was set back since) some call was let through.  Refused calls
\* do not prolong the wait.
RefusalJustified ==
    [][\A h \in Handlers :
          ThrottleRefuse(h) =>
              \E i \in 1..Len(fired) : arg[h] - fired[i] < Delay]_vars

\* "true only when the gap between calls is at least delay_ms": as long as no
\* two calls overlap and the clock is not set back, no earlier call of
\* debounce is closer than the delay to one that returned true, and the
\* first call returns false.
DebounceQuiet ==
    ("debounce" \notin overlapped /\ jumps = 0) =>
        /\ 1 \notin quiet
        /\ \A j \in quiet : \A i \in 1..(j - 1) : asked[j] - asked[i] >= Delay

\* A sample is never folded in twice, and nothing else is; and it is folded
\* in by the time its call returns, as long as no two calls overlap.
SamplesFolded ==
    /\ \A i, j \in 1..Len(hist) : hist[i] = hist[j] => i = j
    /\ \A i \in 1..Len(hist) : \E j \in 1..Len(samples) : hist[i] = samples[j]
    /\ "filter" \notin overlapped => hist = samples

=============================================================================

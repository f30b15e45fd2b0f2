------------------------ MODULE KeyedHistory_proofs ------------------------
(***************************************************************************)
(* What throttle, debounce, ewma and pid_update promise, for every number  *)
(* of goroutines, every delay and every bound: HistoryInv is inductive.    *)
(***************************************************************************)
EXTENDS KeyedHistory, TLAPS

-----------------------------------------------------------------------------
(* The inductive invariant.                                                *)

Calls(h, f) == pc[h] # "idle" /\ fun[h] = f
Decides(h, f) == pc[h] = "decide" /\ fun[h] = f
Cell(f) == IF f = "filter" THEN hist ELSE last[f]

\* While no two calls of a function overlap there is one at most, and what it
\* read is what the cell still has.
OneAtATime ==
    \A f \in Functions \ overlapped :
        /\ \A g, h \in Handlers : Calls(g, f) /\ Calls(h, f) => g = h
        /\ \A h \in Handlers : Decides(h, f) => old[h] = Cell(f)

\* A cell has the stamp that was stored last.
Latest(q) == IF q = <<>> THEN <<>> ELSE <<q[Len(q)]>>
StampsCurrent ==
    /\ last["throttle"] = Latest(fired)
    /\ last["debounce"] = Latest(asked)

\* A call of throttle that found a stamp found that of a call let through.
OldFired ==
    \A h \in Handlers : Decides(h, "throttle") /\ old[h] # <<>> =>
        \E i \in 1..Len(fired) : old[h][1] = fired[i]

\* Unless the clock is set back or calls overlap, debounce is called later and
\* later.
StampsGrow ==
    ("debounce" \notin overlapped /\ jumps = 0) =>
        /\ \A i \in 1..Len(asked) : asked[i] <= clock
        /\ \A i, j \in 1..Len(asked) : i < j => asked[i] <= asked[j]
        /\ \A h \in Handlers : Calls(h, "debounce") =>
              /\ arg[h] <= clock
              /\ \A i \in 1..Len(asked) : asked[i] <= arg[h]

\* The samples of the calls in progress differ, and were not folded in yet.
Distinct(q) == \A i, j \in 1..Len(q) : q[i] = q[j] => i = j
Within(q, r) == \A i \in 1..Len(q) : \E j \in 1..Len(r) : q[i] = r[j]
SamplesNew ==
    /\ \A i \in 1..Len(samples) : samples[i] <= calls
    /\ \A h \in Handlers : Calls(h, "filter") =>
          /\ arg[h] <= calls
          /\ \A i \in 1..Len(samples) : samples[i] # arg[h]
          /\ \A g \in Handlers : Calls(g, "filter") /\ arg[g] = arg[h] => g = h
    /\ \A h \in Handlers : Decides(h, "filter") =>
          Distinct(old[h]) /\ Within(old[h], samples)

HistoryInv ==
    /\ TypeOK
    /\ OneAtATime
    /\ StampsCurrent
    /\ OldFired
    /\ StampsGrow
    /\ SamplesNew
    /\ ThrottleSpaced
    /\ DebounceQuiet
    /\ SamplesFolded

-----------------------------------------------------------------------------
\* What Append does, stated once for the ghosts that record calls.
LEMMA Appended ==
    ASSUME NEW S, NEW q \in Seq(S), NEW e \in S
    PROVE  /\ Append(q, e) \in Seq(S)
           /\ Append(q, e) # <<>>
           /\ Len(Append(q, e)) = Len(q) + 1
           /\ Len(q) \in Nat
           /\ Append(q, e)[Len(q) + 1] = e
           /\ \A i \in 1..Len(q) : Append(q, e)[i] = q[i]
           /\ \A i \in 1..(Len(q) + 1) : i \in 1..Len(q) \/ i = Len(q) + 1
<1>1. /\ Append(q, e) \in Seq(S)
      /\ Len(Append(q, e)) = Len(q) + 1
      /\ Len(q) \in Nat
      /\ Append(q, e)[Len(q) + 1] = e
  OBVIOUS
<1>2. Append(q, e) # <<>>
  BY <1>1
<1>3. \A i \in 1..Len(q) : Append(q, e)[i] = q[i]
  OBVIOUS
<1>4. \A i \in 1..(Len(q) + 1) : i \in 1..Len(q) \/ i = Len(q) + 1
  BY <1>1
<1> QED
  BY <1>1, <1>2, <1>3, <1>4

\* A stamp that is a delay later than another one is a delay later than those
\* before that.
LEMMA LaterStill ==
    ASSUME NEW a \in Nat, NEW b \in Nat, NEW c \in Nat, a - b >= Delay, c <= b
    PROVE  a - c >= Delay
BY DelayAssumption

\* The cell holds what was appended last.
LEMMA LatestAppended ==
    ASSUME NEW S, NEW q \in Seq(S), NEW e \in S
    PROVE  Latest(Append(q, e)) = <<e>>
BY Appended DEF Latest

LEMMA InitHistory == Init => HistoryInv
<1> SUFFICES ASSUME Init PROVE HistoryInv
  OBVIOUS
<1>1. TypeOK
  BY DEF Init, TypeOK, Functions
<1>2. OneAtATime
  BY DEF Init, OneAtATime, Calls, Decides
<1>3. StampsCurrent
  BY DEF Init, StampsCurrent, Latest
<1>4. OldFired /\ StampsGrow
  BY DEF Init, OldFired, StampsGrow, Calls, Decides
<1>5. SamplesNew
  BY DEF Init, SamplesNew, Calls, Decides
<1>6. ThrottleSpaced /\ DebounceQuiet /\ SamplesFolded
  BY DEF Init, ThrottleSpaced, DebounceQuiet, SamplesFolded
<1> QED
  BY <1>1, <1>2, <1>3, <1>4, <1>5, <1>6 DEF HistoryInv

\* A step that only moves the clock: forward, or back and then counted.
LEMMA ClockStep ==
    ASSUME HistoryInv, clock' \in Nat, jumps' \in Nat,
           jumps' = 0 => (jumps = 0 /\ clock' >= clock),
           UNCHANGED <<last, hist, call, calls, overlapped, answers>>
    PROVE  HistoryInv'
<1> USE DEF call, answers
<1>1. TypeOK'
  BY DEF HistoryInv, TypeOK
<1>2. OneAtATime'
  BY DEF HistoryInv, OneAtATime, Calls, Decides, Cell
<1>3. StampsCurrent'
  BY DEF HistoryInv, StampsCurrent, Latest
<1>4. OldFired'
  BY DEF HistoryInv, OldFired, Decides
<1>5. StampsGrow'
  <2> SUFFICES ASSUME "debounce" \notin overlapped', jumps' = 0
               PROVE  StampsGrow'
    BY DEF StampsGrow
  <2>1. /\ "debounce" \notin overlapped
        /\ jumps = 0
        /\ clock \in Nat
        /\ clock' >= clock
    BY DEF HistoryInv, TypeOK
  <2>2. /\ asked' = asked /\ arg' = arg
        /\ \A h \in Handlers : Calls(h, "debounce")' <=> Calls(h, "debounce")
    BY DEF Calls
  <2>3. /\ \A i \in 1..Len(asked) : asked[i] \in Nat
        /\ \A h \in Handlers : arg[h] \in Nat
    <3>1. asked \in Seq(Nat) /\ arg \in [Handlers -> Nat]
      BY DEF HistoryInv, TypeOK
    <3> QED
      BY <3>1
  <2>4. StampsGrow
    BY DEF HistoryInv
  <2>5. \A i \in 1..Len(asked) : asked[i] <= clock'
    BY <2>1, <2>3, <2>4 DEF StampsGrow
  <2>6. \A h \in Handlers : Calls(h, "debounce") => arg[h] <= clock'
    BY <2>1, <2>3, <2>4 DEF StampsGrow
  <2>7. /\ \A i, j \in 1..Len(asked) : i < j => asked[i] <= asked[j]
        /\ \A h \in Handlers : Calls(h, "debounce") =>
              \A i \in 1..Len(asked) : asked[i] <= arg[h]
    BY <2>1, <2>4 DEF StampsGrow
  <2>8. \A h \in Handlers : Calls(h, "debounce")' =>
           /\ arg'[h] <= clock'
           /\ \A i \in 1..Len(asked') : asked'[i] <= arg'[h]
    BY <2>2, <2>6, <2>7
  <2> QED
    BY <2>2, <2>5, <2>7, <2>8 DEF StampsGrow
<1>6. SamplesNew'
  BY DEF HistoryInv, SamplesNew, Calls, Decides, Distinct, Within
<1>7. ThrottleSpaced'
  BY DEF HistoryInv, ThrottleSpaced
<1>8. DebounceQuiet'
  BY DEF HistoryInv, DebounceQuiet
<1>9. SamplesFolded'
  BY DEF HistoryInv, SamplesFolded
<1> QED
  BY <1>1, <1>2, <1>3, <1>4, <1>5, <1>6, <1>7, <1>8, <1>9 DEF HistoryInv

\* A call begins: it overlaps every call of the same function, and its stamp
\* or sample is the greatest so far.
LEMMA BeginStep ==
    ASSUME HistoryInv, NEW h \in Handlers, NEW f \in Functions, Begin(h, f)
    PROVE  HistoryInv'
<1> USE DEF Begin, answers
<1>1. TypeOK'
  <2>1. /\ calls' \in Nat
        /\ pc' \in [Handlers -> {"idle", "read", "decide"}]
        /\ fun' \in [Handlers -> Functions]
        /\ overlapped' \subseteq Functions
    BY DEF HistoryInv, TypeOK
  <2>2. arg' \in [Handlers -> Nat]
    BY DEF HistoryInv, TypeOK
  <2> QED
    BY <2>1, <2>2 DEF HistoryInv, TypeOK
<1>2. OneAtATime'
  <2> SUFFICES ASSUME NEW e \in Functions \ overlapped'
               PROVE  /\ \A g, k \in Handlers :
                            Calls(g, e)' /\ Calls(k, e)' => g = k
                      /\ \A k \in Handlers : Decides(k, e)' => old'[k] = Cell(e)'
    BY DEF OneAtATime
  <2>1. e \notin overlapped
    OBVIOUS
  <2>2. \A k \in Handlers : Calls(k, e)' => Calls(k, e) \/ (k = h /\ e = f)
    BY DEF HistoryInv, TypeOK, Calls
  <2>3. e = f => \A k \in Handlers : ~Calls(k, e)
    BY DEF Calls
  <2>4. \A k \in Handlers : Decides(k, e)' => Decides(k, e)
    BY DEF HistoryInv, TypeOK, Decides
  <2> QED
    BY <2>1, <2>2, <2>3, <2>4 DEF HistoryInv, OneAtATime, Cell
<1>3. StampsCurrent'
  BY DEF HistoryInv, StampsCurrent, Latest
<1>4. OldFired'
  BY DEF HistoryInv, TypeOK, OldFired, Decides
<1>5. StampsGrow'
  <2> SUFFICES ASSUME "debounce" \notin overlapped', jumps' = 0
               PROVE  StampsGrow'
    BY DEF StampsGrow
  <2>1. /\ "debounce" \notin overlapped
        /\ jumps = 0
        /\ asked' = asked /\ clock' = clock
        /\ clock \in Nat
    BY DEF HistoryInv, TypeOK
  <2>2. \A k \in Handlers : Calls(k, "debounce")' =>
           \/ Calls(k, "debounce") /\ k # h /\ arg'[k] = arg[k]
           \/ arg'[k] = clock
    BY DEF HistoryInv, TypeOK, Calls
  <2>3. /\ \A i \in 1..Len(asked) : asked[i] <= clock
        /\ \A i, j \in 1..Len(asked) : i < j => asked[i] <= asked[j]
        /\ \A k \in Handlers : Calls(k, "debounce") =>
              /\ arg[k] <= clock
              /\ \A i \in 1..Len(asked) : asked[i] <= arg[k]
    BY <2>1 DEF HistoryInv, StampsGrow
  <2>4. \A k \in Handlers : Calls(k, "debounce")' =>
           /\ arg'[k] <= clock'
           /\ \A i \in 1..Len(asked') : asked'[i] <= arg'[k]
    BY <2>1, <2>2, <2>3
  <2> QED
    BY <2>1, <2>3, <2>4 DEF StampsGrow
<1>6. SamplesNew'
  <2>0. /\ calls \in Nat /\ calls' = calls + 1 /\ samples' = samples
        /\ \A i \in 1..Len(samples) : samples[i] \in Nat /\ samples[i] <= calls
        /\ \A k \in Handlers : arg[k] \in Nat
        /\ \A k \in Handlers : Calls(k, "filter") =>
              /\ arg[k] <= calls
              /\ \A i \in 1..Len(samples) : samples[i] # arg[k]
              /\ \A g \in Handlers : Calls(g, "filter") /\ arg[g] = arg[k] => g = k
    <3>1. /\ samples \in Seq(Nat) /\ arg \in [Handlers -> Nat] /\ calls \in Nat
          /\ calls' = calls + 1 /\ samples' = samples
      BY DEF HistoryInv, TypeOK
    <3>2. SamplesNew
      BY DEF HistoryInv
    <3> HIDE DEF Begin
    <3> QED
      BY <3>1, <3>2 DEF SamplesNew
  <2>1. \A i \in 1..Len(samples') : samples'[i] <= calls'
    BY <2>0
  <2>2. \A k \in Handlers : Calls(k, "filter")' =>
           \/ Calls(k, "filter") /\ k # h /\ arg'[k] = arg[k]
           \/ k = h /\ arg'[k] = calls + 1
    BY DEF HistoryInv, TypeOK, Calls
  <2>3. \A k \in Handlers : Calls(k, "filter")' =>
          /\ arg'[k] <= calls'
          /\ \A i \in 1..Len(samples') : samples'[i] # arg'[k]
    BY <2>0, <2>2
  <2>4. \A k \in Handlers : Calls(k, "filter")' =>
          \A g \in Handlers : Calls(g, "filter")' /\ arg'[g] = arg'[k] => g = k
    BY <2>0, <2>2
  <2>5. \A k \in Handlers : Decides(k, "filter")' => Decides(k, "filter")
    BY DEF HistoryInv, TypeOK, Decides
  <2> QED
    BY <2>1, <2>3, <2>4, <2>5 DEF HistoryInv, SamplesNew, Distinct, Within
<1>7. ThrottleSpaced'
  BY DEF HistoryInv, ThrottleSpaced
<1>8. DebounceQuiet'
  BY DEF HistoryInv, DebounceQuiet
<1>9. SamplesFolded'
  BY DEF HistoryInv, SamplesFolded
<1> QED
  BY <1>1, <1>2, <1>3, <1>4, <1>5, <1>6, <1>7, <1>8, <1>9 DEF HistoryInv

\* What a call reads is what the cell has.
LEMMA ReadStep ==
    ASSUME HistoryInv, NEW h \in Handlers, Read(h)
    PROVE  HistoryInv'
<1> USE DEF Read, answers
<1>0. fun[h] \in Functions /\ old'[h] = Cell(fun[h])
  BY DEF HistoryInv, TypeOK, Cell
<1>1. TypeOK'
  BY DEF HistoryInv, TypeOK, Functions
<1>a. \A k \in Handlers, f \in Functions : Calls(k, f)' => Calls(k, f)
  BY DEF HistoryInv, TypeOK, Calls
<1>b. \A k \in Handlers, f \in Functions :
         Decides(k, f)' => \/ k # h /\ Decides(k, f) /\ old'[k] = old[k]
                           \/ k = h /\ f = fun[h]
  BY DEF HistoryInv, TypeOK, Decides
<1>2. OneAtATime'
  BY <1>0, <1>a, <1>b DEF HistoryInv, OneAtATime, Cell
<1>3. StampsCurrent'
  BY DEF HistoryInv, StampsCurrent, Latest
<1>4. OldFired'
  <2> SUFFICES ASSUME NEW k \in Handlers, Decides(k, "throttle")',
                      old'[k] # <<>>
               PROVE  \E i \in 1..Len(fired') : old'[k][1] = fired'[i]
    BY DEF OldFired
  <2>1. CASE k = h
    <3>1. old'[h] = Latest(fired)
      BY <2>1, <1>0, <1>b DEF Functions, Cell, HistoryInv, StampsCurrent
    <3>2. fired # <<>> /\ old'[h][1] = fired[Len(fired)]
      BY <2>1, <3>1 DEF Latest
    <3>3. Len(fired) \in 1..Len(fired)
      BY <3>2 DEF HistoryInv, TypeOK
    <3> QED
      BY <2>1, <3>2, <3>3
  <2>2. CASE k # h
    BY <2>2, <1>b DEF Functions, HistoryInv, OldFired
  <2> QED
    BY <2>1, <2>2
<1>5. StampsGrow'
  BY <1>a DEF HistoryInv, TypeOK, StampsGrow, Functions
<1>6. SamplesNew'
  <2>1. /\ \A i \in 1..Len(samples') : samples'[i] <= calls'
        /\ \A k \in Handlers : Calls(k, "filter")' =>
              /\ arg'[k] <= calls'
              /\ \A i \in 1..Len(samples') : samples'[i] # arg'[k]
              /\ \A g \in Handlers :
                    Calls(g, "filter")' /\ arg'[g] = arg'[k] => g = k
    BY <1>a DEF HistoryInv, SamplesNew, Functions
  <2>2. Distinct(hist) /\ Within(hist, samples)
    BY DEF HistoryInv, SamplesFolded, Distinct, Within
  <2>3. \A k \in Handlers : Decides(k, "filter")' =>
           Distinct(old'[k]) /\ Within(old'[k], samples)
    BY <1>0, <1>b, <2>2 DEF HistoryInv, SamplesNew, Functions, Cell
  <2> QED
    BY <2>1, <2>3 DEF SamplesNew, Distinct, Within
<1>7. ThrottleSpaced'
  BY DEF HistoryInv, ThrottleSpaced
<1>8. DebounceQuiet'
  BY DEF HistoryInv, DebounceQuiet
<1>9. SamplesFolded'
  BY DEF HistoryInv, SamplesFolded
<1> QED
  BY <1>1, <1>2, <1>3, <1>4, <1>5, <1>6, <1>7, <1>8, <1>9 DEF HistoryInv

\* A call of throttle that is refused: it leaves no trace.
LEMMA RefuseStep ==
    ASSUME HistoryInv, NEW h \in Handlers, ThrottleRefuse(h)
    PROVE  HistoryInv'
<1> USE DEF ThrottleRefuse, Return, answers
<1>1. TypeOK'
  BY DEF HistoryInv, TypeOK
<1>a. \A k \in Handlers, f \in Functions :
         Calls(k, f)' => Calls(k, f) /\ k # h /\ arg'[k] = arg[k]
  BY DEF HistoryInv, TypeOK, Calls
<1>b. \A k \in Handlers, f \in Functions :
         Decides(k, f)' => Decides(k, f) /\ old'[k] = old[k]
  BY DEF HistoryInv, TypeOK, Decides
<1>2. OneAtATime'
  BY <1>a, <1>b DEF HistoryInv, OneAtATime, Cell
<1>3. StampsCurrent'
  BY DEF HistoryInv, StampsCurrent, Latest
<1>4. OldFired'
  BY <1>b DEF HistoryInv, OldFired, Functions
<1>5. StampsGrow'
  BY <1>a DEF HistoryInv, StampsGrow, Functions
<1>6. SamplesNew'
  BY <1>a, <1>b DEF HistoryInv, SamplesNew, Functions, Distinct, Within
<1>7. ThrottleSpaced'
  BY DEF HistoryInv, ThrottleSpaced
<1>8. DebounceQuiet'
  BY DEF HistoryInv, DebounceQuiet
<1>9. SamplesFolded'
  BY DEF HistoryInv, SamplesFolded
<1> QED
  BY <1>1, <1>2, <1>3, <1>4, <1>5, <1>6, <1>7, <1>8, <1>9 DEF HistoryInv

\* A call that is let through: it was not early, so that it is a delay later
\* than the latest one before it, which is later than all the others.
LEMMA FireStep ==
    ASSUME HistoryInv, NEW h \in Handlers, ThrottleFire(h)
    PROVE  HistoryInv'
<1> USE DEF ThrottleFire, Return
<1>0. /\ arg[h] \in Nat
      /\ fired \in Seq(Nat)
      /\ fired' = Append(fired, arg[h])
      /\ Decides(h, "throttle")
      /\ Calls(h, "throttle")
  BY DEF HistoryInv, TypeOK, Decides, Calls
<1>r. /\ fired' \in Seq(Nat)
      /\ Len(fired') = Len(fired) + 1
      /\ Len(fired) \in Nat
      /\ fired'[Len(fired) + 1] = arg[h]
      /\ \A i \in 1..Len(fired) : fired'[i] = fired[i] /\ fired[i] \in Nat
      /\ \A i \in 1..Len(fired') : i \in 1..Len(fired) \/ i = Len(fired) + 1
  BY <1>0, Appended
<1>1. TypeOK'
  BY <1>r DEF HistoryInv, TypeOK
<1>a. \A k \in Handlers, f \in Functions :
         Calls(k, f)' => Calls(k, f) /\ k # h /\ arg'[k] = arg[k]
  BY DEF HistoryInv, TypeOK, Calls
<1>b. \A k \in Handlers, f \in Functions :
         Decides(k, f)' => Decides(k, f) /\ k # h /\ old'[k] = old[k]
  BY DEF HistoryInv, TypeOK, Decides
<1>2. OneAtATime'
  <2> SUFFICES ASSUME NEW f \in Functions \ overlapped
               PROVE  /\ \A g, k \in Handlers :
                            Calls(g, f)' /\ Calls(k, f)' => g = k
                      /\ \A k \in Handlers : Decides(k, f)' => old'[k] = Cell(f)'
    BY DEF OneAtATime
  <2>1. \A g, k \in Handlers : Calls(g, f)' /\ Calls(k, f)' => g = k
    BY <1>a DEF HistoryInv, OneAtATime
  <2>2. CASE f = "throttle"
    <3>1. \A k \in Handlers : ~Decides(k, f)'
      BY <1>0, <1>b, <2>2 DEF HistoryInv, OneAtATime, Calls, Decides
    <3> QED
      BY <2>1, <3>1
  <2>3. CASE f # "throttle"
    <3>1. Cell(f)' = Cell(f)
      BY <2>3 DEF Cell, HistoryInv, TypeOK, Functions
    <3> QED
      BY <1>b, <2>1, <3>1 DEF HistoryInv, OneAtATime
  <2> QED
    BY <2>2, <2>3
<1>3. StampsCurrent'
  <2>1. Latest(fired') = <<arg[h]>>
    BY <1>0, LatestAppended
  <2>2. last'["throttle"] = <<arg[h]>> /\ last'["debounce"] = last["debounce"]
    BY DEF HistoryInv, TypeOK
  <2> QED
    BY <2>1, <2>2 DEF HistoryInv, StampsCurrent, Latest
<1>4. OldFired'
  BY <1>b, <1>r DEF HistoryInv, OldFired, Functions
<1>5. StampsGrow'
  BY <1>a DEF HistoryInv, StampsGrow, Functions
<1>6. SamplesNew'
  BY <1>a, <1>b DEF HistoryInv, SamplesNew, Functions, Distinct, Within
<1>7. ThrottleSpaced'
  <2> SUFFICES ASSUME "throttle" \notin overlapped,
                      NEW i \in 1..Len(fired'), NEW j \in 1..Len(fired'), i < j
               PROVE  fired'[j] - fired'[i] >= Delay
    BY DEF ThrottleSpaced
  <2>1. CASE j \in 1..Len(fired)
    BY <1>r, <2>1 DEF HistoryInv, ThrottleSpaced
  <2>2. CASE j = Len(fired) + 1
    <3>1. i \in 1..Len(fired) /\ fired # <<>>
      BY <1>r, <2>2
    <3>2. old[h] = <<fired[Len(fired)]>>
      BY <1>0, <3>1
      DEF HistoryInv, OneAtATime, StampsCurrent, Latest, Cell, Functions
    <3>3. arg[h] - fired[Len(fired)] >= Delay
      <4>1. Len(fired) \in 1..Len(fired)
        BY <1>r, <3>1
      <4> QED
        BY <1>0, <1>r, <3>2, <4>1, DelayAssumption DEF Early
    <3>4. fired[i] <= fired[Len(fired)]
      <4>1. CASE i = Len(fired)
        BY <1>r, <3>1, <4>1
      <4>2. CASE i # Len(fired)
        <5>1. fired[Len(fired)] - fired[i] >= Delay
          BY <1>r, <3>1, <4>2 DEF HistoryInv, ThrottleSpaced
        <5> QED
          BY <1>r, <3>1, <5>1, DelayAssumption
      <4> QED
        BY <4>1, <4>2
    <3>5. fired'[j] = arg[h] /\ fired'[i] = fired[i] /\ fired[i] \in Nat
      BY <1>r, <2>2, <3>1
    <3>6. fired[Len(fired)] \in Nat
      BY <1>r, <3>1
    <3>7. arg[h] - fired[i] >= Delay
      BY <1>0, <3>3, <3>4, <3>5, <3>6, LaterStill
    <3> QED
      BY <3>5, <3>7
  <2> QED
    BY <1>r, <2>1, <2>2
<1>8. DebounceQuiet'
  BY DEF HistoryInv, DebounceQuiet
<1>9. SamplesFolded'
  BY DEF HistoryInv, SamplesFolded
<1> QED
  BY <1>1, <1>2, <1>3, <1>4, <1>5, <1>6, <1>7, <1>8, <1>9 DEF HistoryInv

\* A call of debounce: nothing was asked since the stamp it read, and that one
\* is the latest unless the clock was set back.
LEMMA DebounceStep ==
    ASSUME HistoryInv, NEW h \in Handlers, Debounce(h)
    PROVE  HistoryInv'
<1> USE DEF Debounce, Return
<1>0. /\ arg[h] \in Nat
      /\ asked \in Seq(Nat)
      /\ asked' = Append(asked, arg[h])
      /\ Decides(h, "debounce")
      /\ Calls(h, "debounce")
  BY DEF HistoryInv, TypeOK, Decides, Calls
<1>r. /\ asked' \in Seq(Nat)
      /\ Len(asked') = Len(asked) + 1
      /\ Len(asked) \in Nat
      /\ asked'[Len(asked) + 1] = arg[h]
      /\ \A i \in 1..Len(asked) : asked'[i] = asked[i] /\ asked[i] \in Nat
      /\ \A i \in 1..Len(asked') : i \in 1..Len(asked) \/ i = Len(asked) + 1
  BY <1>0, Appended
<1>1. TypeOK'
  <2>1. quiet \subseteq 1..Len(asked)
    BY DEF HistoryInv, TypeOK
  <2>2. quiet' \subseteq quiet \cup {Len(asked) + 1}
    OBVIOUS
  <2> HIDE DEF Debounce
  <2>3. quiet' \subseteq 1..Len(asked')
    BY <1>r, <2>1, <2>2
  <2> USE DEF Debounce
  <2> QED
    BY <1>r, <2>3 DEF HistoryInv, TypeOK
<1>a. \A k \in Handlers, f \in Functions :
         Calls(k, f)' => Calls(k, f) /\ k # h /\ arg'[k] = arg[k]
  BY DEF HistoryInv, TypeOK, Calls
<1>b. \A k \in Handlers, f \in Functions :
         Decides(k, f)' => Decides(k, f) /\ k # h /\ old'[k] = old[k]
  BY DEF HistoryInv, TypeOK, Decides
<1>c. "debounce" \notin overlapped =>
         \A k \in Handlers : Calls(k, "debounce") => k = h
  BY <1>0 DEF HistoryInv, OneAtATime, Functions
<1>2. OneAtATime'
  <2> SUFFICES ASSUME NEW f \in Functions \ overlapped
               PROVE  /\ \A g, k \in Handlers :
                            Calls(g, f)' /\ Calls(k, f)' => g = k
                      /\ \A k \in Handlers : Decides(k, f)' => old'[k] = Cell(f)'
    BY DEF OneAtATime
  <2>1. \A g, k \in Handlers : Calls(g, f)' /\ Calls(k, f)' => g = k
    BY <1>a DEF HistoryInv, OneAtATime
  <2>2. CASE f = "debounce"
    <3>1. \A k \in Handlers : ~Decides(k, f)'
      BY <1>b, <1>c, <2>2 DEF Calls, Decides
    <3> QED
      BY <2>1, <3>1
  <2>3. CASE f # "debounce"
    <3>1. Cell(f)' = Cell(f)
      BY <2>3 DEF Cell, HistoryInv, TypeOK, Functions
    <3> QED
      BY <1>b, <2>1, <3>1 DEF HistoryInv, OneAtATime
  <2> QED
    BY <2>2, <2>3
<1>3. StampsCurrent'
  <2>1. Latest(asked') = <<arg[h]>>
    BY <1>0, LatestAppended
  <2>2. last'["debounce"] = <<arg[h]>> /\ last'["throttle"] = last["throttle"]
    BY DEF HistoryInv, TypeOK
  <2> QED
    BY <2>1, <2>2 DEF HistoryInv, StampsCurrent, Latest
<1>4. OldFired'
  BY <1>b DEF HistoryInv, OldFired, Functions
<1>5. StampsGrow'
  <2> SUFFICES ASSUME "debounce" \notin overlapped, jumps = 0
               PROVE  StampsGrow'
    BY DEF StampsGrow
  <2>1. /\ \A i \in 1..Len(asked) : asked[i] <= clock
        /\ \A i, j \in 1..Len(asked) : i < j => asked[i] <= asked[j]
        /\ arg[h] <= clock
        /\ \A i \in 1..Len(asked) : asked[i] <= arg[h]
    BY <1>0 DEF HistoryInv, StampsGrow
  <2>2. \A k \in Handlers : ~Calls(k, "debounce")'
    BY <1>a, <1>c DEF Functions
  <2>3. \A i \in 1..Len(asked') : asked'[i] <= clock'
    BY <1>r, <2>1
  <2>4. \A i, j \in 1..Len(asked') : i < j => asked'[i] <= asked'[j]
    <3> SUFFICES ASSUME NEW i \in 1..Len(asked'), NEW j \in 1..Len(asked'), i < j
                 PROVE  asked'[i] <= asked'[j]
      OBVIOUS
    <3>1. i \in 1..Len(asked)
      BY <1>r
    <3>2. CASE j \in 1..Len(asked)
      BY <1>r, <2>1, <3>1, <3>2
    <3>3. CASE j = Len(asked) + 1
      BY <1>r, <2>1, <3>1, <3>3
    <3> QED
      BY <1>r, <3>2, <3>3
  <2> QED
    BY <2>2, <2>3, <2>4 DEF StampsGrow
<1>6. SamplesNew'
  BY <1>a, <1>b DEF HistoryInv, SamplesNew, Functions, Distinct, Within
<1>7. ThrottleSpaced'
  BY DEF HistoryInv, ThrottleSpaced
<1>8. DebounceQuiet'
  <2> SUFFICES ASSUME "debounce" \notin overlapped, jumps = 0
               PROVE  /\ 1 \notin quiet'
                      /\ \A j \in quiet' : \A i \in 1..(j - 1) :
                            asked'[j] - asked'[i] >= Delay
    BY DEF DebounceQuiet
  <2>1. /\ 1 \notin quiet
        /\ \A j \in quiet : \A i \in 1..(j - 1) : asked[j] - asked[i] >= Delay
    BY DEF HistoryInv, DebounceQuiet
  <2>2. quiet \subseteq 1..Len(asked)
    BY DEF HistoryInv, TypeOK
  <2>3. \A j \in quiet : \A i \in 1..(j - 1) : asked'[j] - asked'[i] >= Delay
    <3> SUFFICES ASSUME NEW j \in quiet, NEW i \in 1..(j - 1)
                 PROVE  asked'[j] - asked'[i] >= Delay
      OBVIOUS
    <3>1. j \in 1..Len(asked) /\ i \in 1..Len(asked)
      BY <1>r, <2>2
    <3> QED
      BY <1>r, <2>1, <3>1
  <2>4. CASE old[h] # <<>> /\ ~Early(h)
    <3>1. old[h] = Latest(asked)
      BY <1>0 DEF HistoryInv, OneAtATime, StampsCurrent, Cell, Functions
    <3>2. asked # <<>> /\ old[h][1] = asked[Len(asked)]
      BY <2>4, <3>1 DEF Latest
    <3>3. Len(asked) \in 1..Len(asked)
      BY <1>r, <3>2
    <3>4. arg[h] - asked[Len(asked)] >= Delay
      BY <1>0, <1>r, <2>4, <3>2, <3>3, DelayAssumption DEF Early
    <3>5. \A i \in 1..Len(asked) : asked[i] <= asked[Len(asked)]
      <4> TAKE i \in 1..Len(asked)
      <4>1. CASE i = Len(asked)
        BY <1>r, <4>1
      <4>2. CASE i # Len(asked)
        BY <1>r, <3>3, <4>2 DEF HistoryInv, StampsGrow
      <4> QED
        BY <4>1, <4>2
    <3>6. \A i \in 1..Len(asked) : asked'[Len(asked) + 1] - asked'[i] >= Delay
      BY <1>0, <1>r, <3>3, <3>4, <3>5, DelayAssumption
    <3>7. quiet' = quiet \cup {Len(asked) + 1} /\ Len(asked) + 1 # 1
      BY <1>r, <2>4, <3>3
    <3>8. \A i \in 1..(Len(asked) + 1 - 1) : i \in 1..Len(asked)
      BY <1>r
    <3> HIDE DEF Debounce
    <3>9. ASSUME NEW j \in quiet', NEW i \in 1..(j - 1)
          PROVE  asked'[j] - asked'[i] >= Delay
      BY <2>3, <3>6, <3>7, <3>8
    <3> QED
      BY <2>1, <3>7, <3>9
  <2>5. CASE ~(old[h] # <<>> /\ ~Early(h))
    BY <2>1, <2>3, <2>5
  <2> QED
    BY <2>4, <2>5
<1>9. SamplesFolded'
  BY DEF HistoryInv, SamplesFolded
<1> QED
  BY <1>1, <1>2, <1>3, <1>4, <1>5, <1>6, <1>7, <1>8, <1>9 DEF HistoryInv

\* A filter stores its sample behind those it read: they were all folded in by
\* calls that completed, and the sample was not.
LEMMA FilterStep ==
    ASSUME HistoryInv, NEW h \in Handlers, Filter(h)
    PROVE  HistoryInv'
<1> USE DEF Filter, Return
<1>0. /\ arg[h] \in Nat
      /\ samples \in Seq(Nat)
      /\ old[h] \in Seq(Nat)
      /\ samples' = Append(samples, arg[h])
      /\ hist' = Append(old[h], arg[h])
      /\ Decides(h, "filter")
      /\ Calls(h, "filter")
  BY DEF HistoryInv, TypeOK, Decides, Calls
<1>r. /\ samples' \in Seq(Nat)
      /\ Len(samples') = Len(samples) + 1
      /\ Len(samples) \in Nat
      /\ samples'[Len(samples) + 1] = arg[h]
      /\ \A i \in 1..Len(samples) : samples'[i] = samples[i]
      /\ \A i \in 1..Len(samples') : i \in 1..Len(samples) \/ i = Len(samples) + 1
      /\ \A i \in 1..Len(samples) : i \in 1..Len(samples')
      /\ Len(samples) + 1 \in 1..Len(samples')
  BY <1>0, Appended
<1>s. /\ hist' \in Seq(Nat)
      /\ Len(hist') = Len(old[h]) + 1
      /\ hist'[Len(old[h]) + 1] = arg[h]
      /\ \A i \in 1..Len(old[h]) : hist'[i] = old[h][i]
      /\ \A i \in 1..Len(hist') : i \in 1..Len(old[h]) \/ i = Len(old[h]) + 1
  BY <1>0, Appended
<1>n. /\ arg[h] <= calls
      /\ \A i \in 1..Len(samples) : samples[i] # arg[h] /\ samples[i] <= calls
      /\ \A g \in Handlers : Calls(g, "filter") /\ arg[g] = arg[h] => g = h
      /\ Distinct(old[h]) /\ Within(old[h], samples)
  BY <1>0 DEF HistoryInv, SamplesNew
<1>1. TypeOK'
  BY <1>r, <1>s DEF HistoryInv, TypeOK
<1>a. \A k \in Handlers, f \in Functions :
         Calls(k, f)' => Calls(k, f) /\ k # h /\ arg'[k] = arg[k]
  BY DEF HistoryInv, TypeOK, Calls
<1>b. \A k \in Handlers, f \in Functions :
         Decides(k, f)' => Decides(k, f) /\ k # h /\ old'[k] = old[k]
  BY DEF HistoryInv, TypeOK, Decides
<1>2. OneAtATime'
  <2> SUFFICES ASSUME NEW f \in Functions \ overlapped
               PROVE  /\ \A g, k \in Handlers :
                            Calls(g, f)' /\ Calls(k, f)' => g = k
                      /\ \A k \in Handlers : Decides(k, f)' => old'[k] = Cell(f)'
    BY DEF OneAtATime
  <2>1. \A g, k \in Handlers : Calls(g, f)' /\ Calls(k, f)' => g = k
    BY <1>a DEF HistoryInv, OneAtATime
  <2>2. CASE f = "filter"
    <3>1. \A k \in Handlers : ~Decides(k, f)'
      BY <1>0, <1>b, <2>2 DEF HistoryInv, OneAtATime, Calls, Decides
    <3> QED
      BY <2>1, <3>1
  <2>3. CASE f # "filter"
    <3>1. Cell(f)' = Cell(f)
      BY <2>3 DEF Cell
    <3> QED
      BY <1>b, <2>1, <3>1 DEF HistoryInv, OneAtATime
  <2> QED
    BY <2>2, <2>3
<1>3. StampsCurrent'
  BY DEF HistoryInv, StampsCurrent, Latest
<1>4. OldFired'
  BY <1>b DEF HistoryInv, OldFired, Functions
<1>5. StampsGrow'
  BY <1>a DEF HistoryInv, StampsGrow, Functions
<1>h. samples' = Append(samples, arg[h])
  BY <1>0
<1>u. calls' = calls
  OBVIOUS
<1>o. ASSUME "filter" \notin overlapped PROVE hist = samples /\ old[h] = hist
  BY <1>o, <1>0 DEF HistoryInv, SamplesFolded, OneAtATime, Cell, Functions
<1>v. ASSUME "filter" \notin overlapped' PROVE hist' = samples'
  BY <1>v, <1>o, <1>0
<1> HIDE DEF Filter
<1>6. SamplesNew'
  <2>1. \A i \in 1..Len(samples') : samples'[i] <= calls'
    BY <1>r, <1>n, <1>u
  <2>2. ASSUME NEW k \in Handlers, Calls(k, "filter")'
        PROVE  /\ arg'[k] <= calls'
               /\ \A i \in 1..Len(samples') : samples'[i] # arg'[k]
               /\ \A g \in Handlers :
                     Calls(g, "filter")' /\ arg'[g] = arg'[k] => g = k
    <3>1. Calls(k, "filter") /\ k # h /\ arg'[k] = arg[k]
      BY <1>a, <2>2 DEF Functions
    <3>2. /\ arg[k] <= calls
          /\ \A i \in 1..Len(samples) : samples[i] # arg[k]
          /\ \A g \in Handlers : Calls(g, "filter") /\ arg[g] = arg[k] => g = k
      BY <3>1 DEF HistoryInv, SamplesNew
    <3>3. arg[h] # arg[k]
      BY <1>n, <3>1
    <3>4. \A i \in 1..Len(samples') : samples'[i] # arg'[k]
      BY <1>r, <3>1, <3>2, <3>3
    <3>5. \A g \in Handlers :
             Calls(g, "filter")' /\ arg'[g] = arg'[k] => g = k
      BY <1>a, <3>1, <3>2 DEF Functions
    <3> QED
      BY <1>u, <3>1, <3>2, <3>4, <3>5
  <2>3. ASSUME NEW k \in Handlers, Decides(k, "filter")'
        PROVE  Distinct(old'[k]) /\ Within(old'[k], samples')
    <3>1. /\ old'[k] = old[k]
          /\ Distinct(old[k]) /\ Within(old[k], samples)
      BY <1>b, <2>3 DEF HistoryInv, SamplesNew, Functions
    <3>2. Within(old[k], samples')
      BY <1>r, <3>1 DEF Within
    <3> QED
      BY <3>1, <3>2
  <2> QED
    BY <2>1, <2>2, <2>3 DEF SamplesNew, Distinct, Within
<1>7. ThrottleSpaced'
  BY DEF HistoryInv, ThrottleSpaced, Filter
<1>8. DebounceQuiet'
  BY DEF HistoryInv, DebounceQuiet, Filter
<1>9. SamplesFolded'
  <2>1. \A i \in 1..Len(old[h]) : old[h][i] # arg[h]
    BY <1>n DEF Within
  <2>2. \A i, j \in 1..Len(hist') : hist'[i] = hist'[j] => i = j
    BY <1>s, <1>n, <2>1 DEF Distinct
  <2>3. \A i \in 1..Len(hist') : \E j \in 1..Len(samples') : hist'[i] = samples'[j]
    <3> TAKE i \in 1..Len(hist')
    <3>1. CASE i = Len(old[h]) + 1
      BY <1>s, <1>r, <3>1
    <3>2. CASE i \in 1..Len(old[h])
      <4>1. PICK j \in 1..Len(samples) : old[h][i] = samples[j]
        BY <1>n, <3>2 DEF Within
      <4> QED
        BY <1>s, <1>r, <3>2, <4>1
    <3> QED
      BY <1>s, <3>1, <3>2
  <2> QED
    BY <1>v, <2>2, <2>3 DEF SamplesFolded
<1> QED
  BY <1>1, <1>2, <1>3, <1>4, <1>5, <1>6, <1>7, <1>8, <1>9 DEF HistoryInv

LEMMA StepHistory == HistoryInv /\ [Next]_vars => HistoryInv'
<1> SUFFICES ASSUME HistoryInv, [Next]_vars PROVE HistoryInv'
  OBVIOUS
<1>t. clock \in Nat /\ jumps \in Nat
  BY DEF HistoryInv, TypeOK
<1>1. CASE Tick
  BY <1>t, <1>1, ClockStep DEF Tick
<1>2. CASE SetBack
  <2>1. clock' \in Nat /\ jumps' \in Nat /\ jumps' # 0
    BY <1>t, <1>2 DEF SetBack
  <2> QED
    BY <1>2, <2>1, ClockStep DEF SetBack
<1>3. ASSUME NEW h \in Handlers, NEW f \in Functions, Begin(h, f)
      PROVE  HistoryInv'
  BY <1>3, BeginStep
<1>4. ASSUME NEW h \in Handlers, Read(h) PROVE HistoryInv'
  BY <1>4, ReadStep
<1>5. ASSUME NEW h \in Handlers, ThrottleRefuse(h) PROVE HistoryInv'
  BY <1>5, RefuseStep
<1>6. ASSUME NEW h \in Handlers, ThrottleFire(h) PROVE HistoryInv'
  BY <1>6, FireStep
<1>7. ASSUME NEW h \in Handlers, Debounce(h) PROVE HistoryInv'
  BY <1>7, DebounceStep
<1>8. ASSUME NEW h \in Handlers, Filter(h) PROVE HistoryInv'
  BY <1>8, FilterStep
<1>9. CASE UNCHANGED vars
  BY <1>t, <1>9, ClockStep DEF vars
<1> QED
  BY <1>1, <1>2, <1>3, <1>4, <1>5, <1>6, <1>7, <1>8, <1>9 DEF Next

\* What a call read is still in its cell while no calls overlap, the cells
\* agree with the calls that completed, and samples are new: always.
THEOREM HistoryInvariance == Spec => []HistoryInv
<1> QED
  BY InitHistory, StepHistory, PTL DEF Spec

\* Calls of throttle that do not overlap are let through a delay apart, even
\* when the clock is set back.
THEOREM LetThroughApart == Spec => []ThrottleSpaced
<1>1. HistoryInv => ThrottleSpaced
  BY DEF HistoryInv
<1> QED
  BY <1>1, HistoryInvariance, PTL

\* A call of debounce that returns true is a delay later than all calls before
\* it, as long as calls do not overlap and the clock is not set back.
THEOREM TrueAfterQuiet == Spec => []DebounceQuiet
<1>1. HistoryInv => DebounceQuiet
  BY DEF HistoryInv
<1> QED
  BY <1>1, HistoryInvariance, PTL

\* ewma and pid_update fold each sample in at most once, nothing but samples,
\* and all of them unless calls overlap.
THEOREM EachSampleOnce == Spec => []SamplesFolded
<1>1. HistoryInv => SamplesFolded
  BY DEF HistoryInv
<1> QED
  BY <1>1, HistoryInvariance, PTL

\* throttle refuses a call only within the delay of one that was let through,
\* whether or not calls overlap and whatever the clock does.
THEOREM RefusedForAReason == Spec => RefusalJustified
<1>1. ASSUME HistoryInv, NEW h \in Handlers, ThrottleRefuse(h)
      PROVE  \E i \in 1..Len(fired) : arg[h] - fired[i] < Delay
  <2>1. Decides(h, "throttle") /\ old[h] # <<>> /\ arg[h] - old[h][1] < Delay
    BY <1>1 DEF ThrottleRefuse, Early, Decides
  <2>2. PICK i \in 1..Len(fired) : old[h][1] = fired[i]
    BY <1>1, <2>1 DEF HistoryInv, OldFired
  <2> QED
    BY <2>1, <2>2
<1>2. HistoryInv =>
        [\A h \in Handlers : ThrottleRefuse(h) =>
            \E i \in 1..Len(fired) : arg[h] - fired[i] < Delay]_vars
  BY <1>1
<1> QED
  BY <1>2, HistoryInvariance, PTL DEF RefusalJustified
=============================================================================

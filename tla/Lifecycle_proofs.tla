-------------------------- MODULE Lifecycle_proofs --------------------------
(***************************************************************************)
(* How a process of the server ends, and that it is the process StateStore *)
(* assumes, for every set of handlers.                                     *)
(***************************************************************************)
EXTENDS Lifecycle, TLAPS

LEMMA InitIInv == Init => IInv
<1> SUFFICES ASSUME Init
             PROVE  IInv
  OBVIOUS
<1>1. TypeOK
  BY DEF Init, TypeOK, Stages
<1>2. ResourcesFollowMain
  BY DEF Init, ResourcesFollowMain
<1>3. StopsOnSignal
  BY DEF Init, StopsOnSignal
<1>4. ScriptsWhileServing
  BY DEF Init, ScriptsWhileServing
<1> QED  BY <1>1, <1>2, <1>3, <1>4 DEF IInv

\* However a process ends, it leaves nothing behind.
LEMMA EndIInv ==
    ASSUME IInv,
           NEW how \in {"ok", "error", "signal", "fault", "panic", "kill"},
           End(how), UNCHANGED signalled
    PROVE  IInv'
BY DEF End, IInv, TypeOK, Stages, ResourcesFollowMain, StopsOnSignal,
       ScriptsWhileServing, Serving

LEMMA MainIInv ==
    ASSUME IInv, Main
    PROVE  IInv'
<1> USE DEF IInv, TypeOK, Stages, ResourcesFollowMain, StopsOnSignal,
            ScriptsWhileServing, Serving, Go, Loop, signals, resources
<1>1. CASE OpenDB
  BY <1>1 DEF OpenDB
<1>2. CASE BuildEngine
  BY <1>2 DEF BuildEngine
<1>3. CASE AddService
  BY <1>3 DEF AddService
<1>4. CASE Recover
  BY <1>4 DEF Recover
<1>5. CASE Abandon
  BY <1>5 DEF Abandon
<1>6. CASE CloseGpio
  BY <1>6 DEF CloseGpio
<1>7. CASE CloseDB
  BY <1>7 DEF CloseDB
<1>8. CASE Return
  BY <1>8, EndIInv DEF Return
<1> QED
  BY <1>1, <1>2, <1>3, <1>4, <1>5, <1>6, <1>7, <1>8 DEF Main

LEMMA ScriptIInv ==
    ASSUME IInv, NEW h \in Handlers, Script(h)
    PROVE  IInv'
<1> USE DEF IInv, TypeOK, Stages, ResourcesFollowMain, StopsOnSignal,
            ScriptsWhileServing, Serving, signals, resources, vars
<1>1. CASE RunScript(h)
  BY <1>1 DEF RunScript
<1>2. CASE EndScript(h)
  BY <1>2 DEF EndScript
<1>3. CASE Crash(h)
  BY <1>3, EndIInv DEF Crash
<1>4. ASSUME NEW valid \in BOOLEAN, GpioCall(h, valid)
      PROVE  IInv'
  <2>1. CASE End("fault") /\ UNCHANGED signalled
    BY <2>1, EndIInv
  <2>2. CASE /\ running' = running \ {h}
             /\ UNCHANGED <<stage, signals, resources, exit>>
    BY <2>2
  <2>3. CASE UNCHANGED vars
    BY <2>3
  <2> QED  BY <1>4, <2>1, <2>2, <2>3 DEF GpioCall
<1> QED  BY <1>1, <1>2, <1>3, <1>4 DEF Script

LEMMA NextIInv == IInv /\ [Next]_vars => IInv'
<1> SUFFICES ASSUME IInv, [Next]_vars
             PROVE  IInv'
  OBVIOUS
<1> USE DEF IInv, TypeOK, Stages, ResourcesFollowMain, StopsOnSignal,
            ScriptsWhileServing, Serving, Go, signals, resources
<1>1. CASE Main
  BY <1>1, MainIInv
<1>2. CASE StartFails
  BY <1>2, EndIInv DEF StartFails
<1>3. CASE AdvertiseReturns
  BY <1>3 DEF AdvertiseReturns
<1>4. CASE Signal
  <2>1. ASSUME End("signal"), UNCHANGED signalled
        PROVE  IInv'
    BY <2>1, EndIInv
  <2>2. ASSUME /\ catcher # "none"
               /\ signalled' = TRUE
               /\ sigCh' = 1
               /\ UNCHANGED <<stage, catcher, cancelled, resources, running,
                             exit>>
        PROVE  IInv'
    BY <2>2
  <2> QED  BY <1>4, <2>1, <2>2 DEF Signal
<1>5. CASE StartCatcher
  BY <1>5 DEF StartCatcher
<1>6. CASE Cancel
  BY <1>6 DEF Cancel
<1>7. ASSUME NEW h \in Handlers, Script(h)
      PROVE  IInv'
  BY <1>7, ScriptIInv
<1>8. CASE Kill
  BY <1>8, EndIInv DEF Kill
<1>9. CASE Start
  <2>1. /\ stage = "down" /\ stage' = "open"
        /\ signalled' = FALSE
        /\ UNCHANGED <<catcher, sigCh, cancelled, gp, running, exit>>
    BY <1>9 DEF Start
  <2>2. UNCHANGED db
    BY <1>9, Zenon DEF Start
  <2>3. cancelled' = FALSE /\ db' = FALSE
    BY <2>1, <2>2
  <2>4. TypeOK'
    BY <2>1, <2>3
  <2>5. ResourcesFollowMain'
    BY <2>1, <2>3
  <2>6. StopsOnSignal'
    BY <2>1, <2>3
  <2>7. ScriptsWhileServing'
    BY <2>1
  <2> QED  BY <2>4, <2>5, <2>6, <2>7
<1>10. CASE UNCHANGED vars
  <2>1. /\ UNCHANGED <<stage, catcher, sigCh, running, exit, gp>>
        /\ UNCHANGED cancelled
        /\ UNCHANGED db
        /\ UNCHANGED signalled
    BY <1>10, Zenon DEF vars
  <2> QED  BY <2>1
<1> QED
  BY <1>1, <1>2, <1>3, <1>4, <1>5, <1>6, <1>7, <1>8, <1>9, <1>10 DEF Next

\* The resources, the signals and the scripts follow what main does.
THEOREM Invariance == Spec => []IInv
<1> QED  BY InitIInv, NextIInv, PTL DEF Spec

-----------------------------------------------------------------------------
(* How a process ends.                                                     *)

\* One of the ends that are explained.
LEMMA StepExplained ==
    ASSUME IInv, Next, stage # "down", stage' = "down"
    PROVE  \/ exit' = "ok" /\ signalled /\ cancelled /\ ~db /\ gp # "mapped"
           \/ exit' = "error" /\ ~Serving
           \/ exit' = "signal" /\ ~signalled /\ ~Serving
           \/ exit' = "fault" /\ signalled /\ db = (stage = "closeDB")
                 /\ running # {}
           \/ exit' = "panic" /\ running # {}
           \/ exit' = "kill"
<1> USE DEF IInv, TypeOK, Stages, ResourcesFollowMain, StopsOnSignal, Serving,
            Go, Loop, End
<1>1. CASE Main
  <2>1. Return
    BY <1>1 DEF Main, OpenDB, BuildEngine, AddService, Recover, Abandon,
                CloseGpio, CloseDB
  <2> QED  BY <2>1 DEF Return
<1>2. CASE StartFails
  BY <1>2 DEF StartFails
<1>3. CASE AdvertiseReturns
  BY <1>3 DEF AdvertiseReturns
<1>4. CASE Signal
  BY <1>4 DEF Signal
<1>5. CASE StartCatcher \/ Cancel
  BY <1>5 DEF StartCatcher, Cancel
<1>6. ASSUME NEW h \in Handlers, Script(h)
      PROVE  \/ exit' = "panic" /\ running # {}
             \/ exit' = "fault" /\ signalled /\ db = (stage = "closeDB")
                   /\ running # {}
  <2>1. CASE Crash(h)
    BY <2>1 DEF Crash
  <2>2. ASSUME NEW valid \in BOOLEAN, GpioCall(h, valid)
        PROVE  exit' = "fault" /\ h \in running /\ gp = "unmapped"
    BY <2>2 DEF GpioCall, vars
  <2>3. gp = "unmapped" => signalled /\ (db <=> stage = "closeDB")
    OBVIOUS
  <2> QED  BY <1>6, <2>1, <2>2, <2>3 DEF Script, RunScript, EndScript
<1>7. CASE Kill
  BY <1>7 DEF Kill
<1>8. CASE Start
  BY <1>8 DEF Start
<1> QED
  BY <1>1, <1>2, <1>3, <1>4, <1>5, <1>6, <1>7, <1>8 DEF Next

\* Every end of every process has one of the reasons that EndsExplained lists.
THEOREM EndsForAReason == Spec => EndsExplained
<1>1. IInv /\ [Next]_vars =>
        [(stage # "down" /\ stage' = "down") =>
          \/ exit' = "ok" /\ signalled /\ cancelled /\ ~db /\ gp # "mapped"
          \/ exit' = "error" /\ ~Serving
          \/ exit' = "signal" /\ ~signalled /\ ~Serving
          \/ exit' = "fault" /\ signalled /\ db = (stage = "closeDB")
                /\ running # {}
          \/ exit' = "panic" /\ running # {}
          \/ exit' = "kill"]_vars
  BY StepExplained
<1> QED  BY <1>1, Invariance, PTL DEF Spec, EndsExplained

-----------------------------------------------------------------------------
(* The process StateStore assumes.                                         *)

\* What the end of a process is to the store: nothing, if the database was
\* not open yet, or Stop.
LEMMA EndStops ==
    ASSUME IInv, NEW how, End(how)
    PROVE  Store!Next \/ UNCHANGED Store!vars
<1>1. Phase' = "down"
  BY DEF End, Phase
<1>2. CASE Phase = "down"
  BY <1>1, <1>2 DEF Store!vars, Store!memory
<1>3. CASE Phase # "down"
  <2>1. Store!Stop
    BY <1>1, <1>3 DEF Store!Stop, Store!Persistent, Store!counts
  <2> QED  BY <2>1 DEF Store!Next
<1> QED  BY <1>2, <1>3

LEMMA InitStore == Init => Store!Init
BY DEF Init, Store!Init, Phase

\* Where the phase does not change, nothing happens to the store.
LEMMA SamePhase ==
    ASSUME Phase' = Phase
    PROVE  UNCHANGED Store!vars
BY DEF Store!vars, Store!memory

\* NewEngine reads the open database: Start.  The deferred Close of the
\* database: Close.  What else main does changes nothing.
LEMMA MainStore ==
    ASSUME IInv, Main
    PROVE  Store!Next \/ UNCHANGED Store!vars
<1> USE DEF IInv, ResourcesFollowMain, Go, Loop, Phase
<1>1. CASE OpenDB
  BY <1>1, SamePhase DEF OpenDB
<1>2. CASE BuildEngine
  <2>1. Phase = "down" /\ Phase' = "up"
    BY <1>2 DEF BuildEngine
  <2>2. Store!Start
    BY <2>1 DEF Store!Start, Store!counts, Store!memory
  <2> QED  BY <2>2 DEF Store!Next
<1>3. CASE AddService
  BY <1>3, SamePhase DEF AddService, resources
<1>4. CASE Recover
  BY <1>4, SamePhase DEF Recover, resources
<1>5. CASE Abandon
  BY <1>5, SamePhase DEF Abandon, resources
<1>6. CASE CloseGpio
  BY <1>6, SamePhase DEF CloseGpio
<1>7. CASE CloseDB
  <2>1. Phase = "up" /\ Phase' = "closing"
    BY <1>7 DEF CloseDB
  <2>2. Store!Close
    BY <2>1 DEF Store!Close, Store!counts, Store!memory
  <2> QED  BY <2>2 DEF Store!Next
<1>8. CASE Return
  BY <1>8, EndStops DEF Return
<1> QED
  BY <1>1, <1>2, <1>3, <1>4, <1>5, <1>6, <1>7, <1>8 DEF Main

LEMMA NextStore == IInv /\ [Next]_vars => [Store!Next]_(Store!vars)
<1> SUFFICES ASSUME IInv, [Next]_vars
             PROVE  Store!Next \/ UNCHANGED Store!vars
  OBVIOUS
<1>1. CASE Main
  BY <1>1, MainStore
<1>2. CASE StartFails
  BY <1>2, EndStops DEF StartFails
<1>3. CASE AdvertiseReturns
  BY <1>3, SamePhase DEF AdvertiseReturns, Go, resources, Phase
<1>4. CASE Signal
  <2>1. CASE End("signal")
    BY <2>1, EndStops
  <2>2. CASE UNCHANGED <<stage, resources>>
    BY <2>2, SamePhase DEF resources, Phase
  <2> QED  BY <1>4, <2>1, <2>2 DEF Signal
<1>5. CASE StartCatcher
  BY <1>5, SamePhase DEF StartCatcher, resources, Phase
<1>6. CASE Cancel
  BY <1>6, SamePhase DEF Cancel, resources, Phase
<1>7. ASSUME NEW h \in Handlers, Script(h)
      PROVE  Store!Next \/ UNCHANGED Store!vars
  <2>1. CASE UNCHANGED <<stage, resources>>
    BY <2>1, SamePhase DEF resources, Phase
  <2>2. ASSUME NEW how, End(how)
        PROVE  Store!Next \/ UNCHANGED Store!vars
    BY <2>2, EndStops
  <2>3. CASE RunScript(h) \/ EndScript(h)
    BY <2>1, <2>3 DEF RunScript, EndScript
  <2>4. CASE Crash(h)
    BY <2>2, <2>4 DEF Crash
  <2>5. ASSUME NEW valid \in BOOLEAN, GpioCall(h, valid)
        PROVE  Store!Next \/ UNCHANGED Store!vars
    <3>1. \/ UNCHANGED <<stage, signals, resources, exit>>
          \/ UNCHANGED vars
          \/ End("fault")
      BY <2>5, Zenon DEF GpioCall
    <3>2. UNCHANGED <<stage, resources>> \/ End("fault")
      BY <3>1, Zenon DEF vars, resources
    <3> QED  BY <2>1, <2>2, <3>2
  <2> QED  BY <1>7, <2>3, <2>4, <2>5 DEF Script
<1>8. CASE Kill
  BY <1>8, EndStops DEF Kill
<1>9. CASE Start
  BY <1>9, SamePhase DEF Start, Go, resources, Phase
<1>10. CASE UNCHANGED vars
  BY <1>10, SamePhase DEF vars, resources, Phase
<1> QED
  BY <1>1, <1>2, <1>3, <1>4, <1>5, <1>6, <1>7, <1>8, <1>9, <1>10 DEF Next

\* The process does what StateStore assumes of the one it runs in: the
\* database is read before it is used, closed at most once, and every process
\* that read it ends before the next one does.
THEOREM IsStoreProcess == Spec => StoreProcess
<1> QED
  BY InitStore, NextStore, Invariance, PTL
  DEF Spec, StoreProcess, Store!Spec
=============================================================================

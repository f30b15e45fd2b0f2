------------------------------ MODULE Lifecycle ------------------------------
(***************************************************************************)
(* main.go, ble/manager.go and gpio/gpio.go: one server process after the  *)
(* other, from db.Open to the deferred closes, with the scripts that the   *)
(* callbacks of the BLE stack run meanwhile.                               *)
(*                                                                         *)
(* The process is installed as a service that is started again when it     *)
(* failed (install.sh: Restart=on-failure, SuccessfulExit=false).          *)
(*                                                                         *)
(* Nobody waits for the callbacks.  Shutting down takes the registers of   *)
(* the pins away (gp.Close unmaps them) and then closes the database,      *)
(* while scripts may still run.                                            *)
(***************************************************************************)
EXTENDS Naturals

CONSTANT Handlers   \* the goroutines that may run a script

VARIABLES
    stage,      \* where main is, "down" when there is no process
    catcher,    \* the goroutine of cancelOnSignal
    sigCh,      \* how many signals its channel holds
    cancelled,  \* ctx.Err() # nil
    gp,         \* the registers: "nil" (not available), "mapped", "unmapped"
    db,         \* the database is open
    running,    \* the handlers that run a script
    exit,       \* ghost: how the last process ended, see End
    signalled   \* ghost: a signal was caught for the process

signals == <<catcher, sigCh, cancelled, signalled>>
resources == <<gp, db>>
vars == <<stage, catcher, sigCh, cancelled, gp, db, running, exit, signalled>>

\* Every stage in its order.  "manager" is RunBLEManager up to its loop,
\* "advertise" the call of the BLE library, "wait" the select after it.
Stages == {"down", "open", "engine", "manager", "advertise", "wait",
           "closeGpio", "closeDB", "return"}

\* Centrals can write once the service was added.
Serving == stage \in {"advertise", "wait", "closeGpio", "closeDB", "return"}

Init ==
    /\ stage = "open"
    /\ catcher = "none"
    /\ sigCh = 0
    /\ cancelled = FALSE
    /\ gp = "nil"
    /\ db = FALSE
    /\ running = {}
    /\ exit = "none"
    /\ signalled = FALSE

Go(from, to) == stage = from /\ stage' = to

\* The process ends: "ok", main returns; "error", os.Exit(1); "panic", a
\* script panics, and nobody recovers from that; "fault", a builtin uses pins
\* that are not mapped; "signal", one nobody catches; "kill", SIGKILL.  The
\* operating system takes everything back.
End(how) ==
    /\ stage # "down"
    /\ stage' = "down"
    /\ exit' = how
    /\ catcher' = "none"
    /\ sigCh' = 0
    /\ cancelled' = FALSE
    /\ gp' = "nil"
    /\ db' = FALSE
    /\ running' = {}

-----------------------------------------------------------------------------
(* bleMain up to the manager.                                              *)

\* Seeded bug: the error of db.Open is reported and not acted upon.
OpenDBGoesOn ==
    /\ Go("open", "engine")
    /\ db' \in BOOLEAN
    /\ UNCHANGED <<signals, gp, running, exit>>

OpenDB ==
    /\ Go("open", "engine")
    /\ db' = TRUE
    /\ UNCHANGED <<signals, gp, running, exit>>

\* Seeded bug: gp = nil is forgotten.
BuildEngineKeepsGpio ==
    /\ Go("engine", "manager")
    /\ gp' \in {"unmapped", "mapped"}
    /\ catcher' = "starting"
    /\ UNCHANGED <<sigCh, cancelled, signalled, db, running, exit>>

\* gpio.Open, which may fail, NewEngine, and signal.Notify in cancelOnSignal.
BuildEngine ==
    /\ Go("engine", "manager")
    /\ gp' \in {"nil", "mapped"}
    /\ catcher' = "starting"
    /\ UNCHANGED <<sigCh, cancelled, signalled, db, running, exit>>

\* db.Open, NewEngine, or the BLE device failed: os.Exit(1), which runs no
\* deferred call.
StartFails ==
    /\ stage \in {"open", "engine", "manager"}
    /\ End("error")
    /\ UNCHANGED signalled

-----------------------------------------------------------------------------
(* RunBLEManager.                                                          *)

\* The top of the loop.
Loop(from) == Go(from, IF cancelled THEN "closeGpio" ELSE "advertise")

AddService ==
    /\ Loop("manager")
    /\ UNCHANGED <<signals, resources, running, exit>>

\* Seeded bug: an end without an error is taken for a request to stop.
AdvertiseReturnsOnce ==
    /\ \E err \in BOOLEAN :
          Go("advertise", IF cancelled \/ ~err THEN "closeGpio" ELSE "wait")
    /\ UNCHANGED <<signals, resources, running, exit>>

\* AdvertiseNameAndServices ends, with or without an error.
AdvertiseReturns ==
    /\ Go("advertise", IF cancelled THEN "closeGpio" ELSE "wait")
    /\ UNCHANGED <<signals, resources, running, exit>>

\* The select after it: the timer of the recovery delay.
Recover ==
    /\ Loop("wait")
    /\ UNCHANGED <<signals, resources, running, exit>>

\* ... or ctx.Done().
Abandon ==
    /\ cancelled
    /\ Go("wait", "closeGpio")
    /\ UNCHANGED <<signals, resources, running, exit>>

-----------------------------------------------------------------------------
(* The deferred calls, the last one first.                                 *)

CloseGpio ==
    /\ Go("closeGpio", "closeDB")
    /\ gp' = IF gp = "mapped" THEN "unmapped" ELSE gp
    /\ UNCHANGED <<signals, db, running, exit>>

CloseDB ==
    /\ Go("closeDB", "return")
    /\ db' = FALSE
    /\ UNCHANGED <<signals, gp, running, exit>>

Return ==
    /\ stage = "return"
    /\ End("ok")
    /\ UNCHANGED signalled

-----------------------------------------------------------------------------
(* Signals.                                                                *)

\* Seeded bug: a channel without a buffer.  The signal package does not wait
\* for a receiver.
SignalUnbuffered ==
    /\ stage # "down"
    /\ \/ /\ catcher = "none"
          /\ End("signal")
          /\ UNCHANGED signalled
       \/ /\ catcher # "none"
          /\ signalled' = TRUE
          /\ cancelled' = (cancelled \/ catcher = "receive")
          /\ catcher' = IF catcher = "receive" THEN "done" ELSE catcher
          /\ UNCHANGED <<stage, sigCh, resources, running, exit>>

\* SIGINT or SIGTERM.  Before signal.Notify it ends the process; after that
\* it goes into the channel, or nowhere when that one is full.
Signal ==
    /\ stage # "down"
    /\ \/ /\ catcher = "none"
          /\ End("signal")
          /\ UNCHANGED signalled
       \/ /\ catcher # "none"
          /\ signalled' = TRUE
          /\ sigCh' = 1
          /\ UNCHANGED <<stage, catcher, cancelled, resources, running, exit>>

\* The goroutine comes to its receive.
StartCatcher ==
    /\ catcher = "starting"
    /\ catcher' = "receive"
    /\ UNCHANGED <<stage, sigCh, cancelled, signalled, resources, running, exit>>

\* It receives one signal, cancels, and is no more.
Cancel ==
    /\ catcher = "receive"
    /\ sigCh = 1
    /\ catcher' = "done"
    /\ sigCh' = 0
    /\ cancelled' = TRUE
    /\ UNCHANGED <<stage, signalled, resources, running, exit>>

-----------------------------------------------------------------------------
(* Scripts, and the builtins of builtins/gpio.go.                          *)

RunScript(h) ==
    /\ Serving
    /\ h \notin running
    /\ running' = running \cup {h}
    /\ UNCHANGED <<stage, signals, resources, exit>>

\* A script ends, be it by an error.
EndScript(h) ==
    /\ h \in running
    /\ running' = running \ {h}
    /\ UNCHANGED <<stage, signals, resources, exit>>

\* One of the calls that PanicsExplained of Builtins tells of, or two scripts
\* that change one map of the shared state at once.  c.Run() in HandleEvent is
\* called without a recover, there or in its callers.
Crash(h) ==
    /\ h \in running
    /\ End("panic")
    /\ UNCHANGED signalled

\* A gpio builtin.  Without the pins, or with arguments that are not a pin
\* number and integers, it returns an error, which ends the script.
\* Otherwise it reads or writes a register.
GpioCall(h, valid) ==
    /\ h \in running
    /\ \/ /\ gp = "nil" \/ ~valid
          /\ running' = running \ {h}
          /\ UNCHANGED <<stage, signals, resources, exit>>
       \/ /\ gp = "mapped" /\ valid
          /\ UNCHANGED vars
       \/ /\ gp = "unmapped" /\ valid
          /\ End("fault")
          /\ UNCHANGED signalled

-----------------------------------------------------------------------------
(* The outside.                                                            *)

Kill ==
    /\ End("kill")
    /\ UNCHANGED signalled

\* The service is started again: by the service manager after a failure (a
\* process that a signal killed counts as failed or not), or by anybody.
Start ==
    /\ Go("down", "open")
    /\ signalled' = FALSE
    /\ UNCHANGED <<catcher, sigCh, cancelled, resources, running, exit>>

Failed == exit \in {"error", "panic", "fault", "kill"}

\* What main does next, but for the call of the BLE library.
Main ==
    \/ OpenDB
    \/ BuildEngine
    \/ AddService
    \/ Recover
    \/ Abandon
    \/ CloseGpio
    \/ CloseDB
    \/ Return

Script(h) ==
    \/ RunScript(h)
    \/ EndScript(h)
    \/ Crash(h)
    \/ \E valid \in BOOLEAN : GpioCall(h, valid)

Next ==
    \/ Main
    \/ StartFails
    \/ AdvertiseReturns
    \/ Signal
    \/ StartCatcher
    \/ Cancel
    \/ \E h \in Handlers : Script(h)
    \/ Kill
    \/ Start

Spec == Init /\ [][Next]_vars

\* Goroutines that can run do.  The BLE library returns once the context is
\* cancelled; it owes nothing before.  The service manager starts what
\* failed, and what makes a start fail does not last for ever.
FairSpec ==
    /\ Spec
    /\ WF_vars(Main)
    /\ WF_vars(cancelled /\ AdvertiseReturns)
    /\ WF_vars(StartCatcher)
    /\ WF_vars(Cancel)
    /\ WF_vars(Failed /\ Start)
    /\ SF_vars(OpenDB)
    /\ SF_vars(BuildEngine)
    /\ SF_vars(AddService)

-----------------------------------------------------------------------------
(* Correctness.                                                            *)

TypeOK ==
    /\ stage \in Stages
    /\ catcher \in {"none", "starting", "receive", "done"}
    /\ sigCh \in {0, 1}
    /\ cancelled \in BOOLEAN
    /\ gp \in {"nil", "mapped", "unmapped"}
    /\ db \in BOOLEAN
    /\ running \subseteq Handlers
    /\ exit \in {"none", "ok", "error", "signal", "fault", "panic", "kill"}
    /\ signalled \in BOOLEAN

\* The database is open from db.Open to its deferred Close; the pins can only
\* be mapped between gpio.Open and theirs, and are unmapped after that.
ResourcesFollowMain ==
    /\ db <=> stage \in {"engine", "manager", "advertise", "wait",
                         "closeGpio", "closeDB"}
    /\ gp = "mapped" =>
          stage \in {"manager", "advertise", "wait", "closeGpio"}
    /\ gp = "unmapped" => stage \in {"closeDB", "return"}

\* Signals are caught from the call of NewEngine on, a signal is in the channel
\* or led to the cancellation only if there was one, and nothing but a
\* cancellation brings main to its deferred calls.
StopsOnSignal ==
    /\ catcher = "none" <=> stage \in {"down", "open", "engine"}
    /\ catcher = "none" => sigCh = 0 /\ ~cancelled
    /\ stage \in {"open", "engine"} => ~signalled
    /\ sigCh = 1 \/ cancelled => signalled
    /\ stage \in {"closeGpio", "closeDB", "return"} => cancelled

\* A script runs only where centrals can write.
ScriptsWhileServing == running # {} => Serving

\* The inductive invariant.
IInv ==
    /\ TypeOK
    /\ ResourcesFollowMain
    /\ StopsOnSignal
    /\ ScriptsWhileServing

\* A process ends for a reason: it returns with everything closed, and only
\* because it was told to; it gives up before it serves anybody; it is told to
\* before it can catch a signal; it is killed; a script panics; or, while it
\* shuts down, a script that still runs uses a pin.  In particular no end of
\* advertising, and no use of a pin on a machine without pins, ends it.  That
\* scripts can end it at all is against the docs: see ScriptsContained.
EndsExplained ==
    [][(stage # "down" /\ stage' = "down") =>
          \/ exit' = "ok" /\ signalled /\ cancelled /\ ~db /\ gp # "mapped"
          \/ exit' = "error" /\ ~Serving
          \/ exit' = "signal" /\ ~signalled /\ ~Serving
          \/ exit' = "fault" /\ signalled /\ db = (stage = "closeDB")
                /\ running # {}
          \/ exit' = "panic" /\ running # {}
          \/ exit' = "kill"]_vars

\* "If a script panics or returns an error, the error is logged and execution
\* continues.  The BLE connection is not dropped" (docs/SCRIPTING.md 40): nothing
\* a script does ends the process.  It is false: HandleEvent runs scripts without
\* a recover, and nothing below it has one.
ScriptsContained == [][(\E h \in Handlers : Script(h)) => stage' = stage]_vars

\* A signal that is caught ends the process, whatever advertising and the
\* scripts do, how many signals follow, and if it comes before the goroutine
\* that waits for it runs.
ShutdownEnds == signalled ~> (stage = "down")

\* The server advertises again and again: after advertising ended, after a
\* start that failed, after a panic or a kill.  Only a signal stops that.
AdvertisesAgain ==
    []<>(stage = "advertise" \/ signalled \/ (stage = "down" /\ exit = "signal"))

\* The process that StateStore assumes: it closes the database at most once,
\* ends, and starts again.
Phase == IF stage \in {"down", "open", "engine"} THEN "down"
         ELSE IF db THEN "up" ELSE "closing"

Store == INSTANCE StateStore WITH
    phase <- Phase, Handlers <- {}, Keys <- {}, Volatile <- {}, Vals <- {},
    Missing <- "missing", NotJson <- {}, Mutable <- {}, Json <- <<>>,
    MaxCalls <- 0, MaxFaults <- 0, mem <- <<>>, op <- <<>>, calls <- 0,
    faults <- 0, adrift <- {}, before <- <<>>, cut <- {}, db <- <<>>

StoreProcess == Store!Spec
=============================================================================

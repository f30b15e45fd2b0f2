-------------------------------- MODULE Panel --------------------------------
(***************************************************************************)
(* panel/main.go and the process side of panel/stats.go: the control       *)
(* panel and the server processes it watches, starts and stops, on a Linux *)
(* machine with systemd, where the server may or may not be a unit.        *)
(*                                                                         *)
(* Update handles one message at a time and returns commands, which run in *)
(* goroutines of their own and each end in a message.  Nothing orders      *)
(* them: a result may be handled long after it was found, and after a      *)
(* newer one.                                                              *)
(*                                                                         *)
(* The binary is there and can be run, and all servers run in its directory*)
(* with its data.                                                          *)
(* A server opens the database first, which at most one process can have   *)
(* open: a second server exits.  The panel never waits for a server it     *)
(* started, so that one stays as a zombie when it exits, and pgrep lists   *)
(* zombies, too.  systemd starts its server again when it failed, and not  *)
(* when it was stopped by a signal.                                        *)
(***************************************************************************)
EXTENDS Naturals, Sequences, FiniteSetsExt, SequencesExt

CONSTANTS
    watchMode,  \* the flag --watch
    MaxKeys,    \* bound: keys pressed
    MaxCrashes  \* bound: servers that crash

ASSUME WatchAssumption == watchMode \in BOOLEAN
ASSUME BoundsAssumption == MaxKeys \in Nat /\ MaxCrashes \in Nat

\* One process from the beginning, at most one for each key, and one for each
\* failure of the unit's server: a crash, or another server that is faster.
Pids == 1..(2 * MaxKeys + MaxCrashes + 1)

VARIABLES
    ready, svc, action,     \* of the model
    quit,       \* the program has ended
    collects,   \* gatherStats commands that did not come to serviceInfo yet
    samples,    \* what serviceInfo found, not handled by Update yet
    ticks,      \* pending ticks
    clears,     \* pending ticks of three seconds that clear the action
    jobs,       \* pending commands of keys
    proc,       \* the state of each server process
    own,        \* those that are children of the panel
    unit,       \* the ActiveState of the unit, "inactive" if there is none
    service,    \* its MainPID
    crashes,    \* crashes so far (bound)
    keys,       \* keys pressed so far (bound)
    extra       \* ghost: collectCmds beyond the first one and those of ticks

ui == <<ready, svc, action, quit>>
refresh == <<collects, samples, ticks>>
systemd == <<unit, service>>
processes == <<proc, own, systemd, crashes>>
vars == <<ui, refresh, clears, jobs, processes, keys, extra>>

\* What pgrep -x dbikeserver lists, and what really runs.
Listed == {p \in Pids : proc[p] \in {"starting", "up", "exiting", "zombie"}}
Living == {p \in Pids : proc[p] \in {"starting", "up", "exiting"}}
Zombies == {p \in Pids : proc[p] = "zombie"}
Locked == {p \in Pids : proc[p] \in {"up", "exiting"}}
Fresh == Min({p \in Pids : proc[p] = "none"})

\* serviceInfoLinux: systemctl show, and pgrepFallback.
serviceInfo ==
    CASE unit = "active" -> [status |-> "running", pid |-> service]
      [] unit # "active" /\ Listed # {} -> [status |-> "running", pid |-> Min(Listed)]
      [] OTHER -> [status |-> unit, pid |-> 0]

\* What becomes of a process that exits.
Ended(p) == IF p \in own THEN "zombie" ELSE "gone"
Killed(p) == CASE proc[p] = "starting" -> Ended(p)
               [] proc[p] = "up" -> "exiting"
               [] OTHER -> proc[p]

\* SIGTERM to some processes.  Its default action, which ends a server that
\* has no handler yet, is a clean end for systemd.
Kill(S) ==
    /\ proc' = [p \in Pids |-> IF p \in S THEN Killed(p) ELSE proc[p]]
    /\ unit' = IF unit = "active" /\ service \in S /\ proc[service] = "starting"
               THEN "inactive" ELSE unit

\* The end of p: systemd restarts its server when it failed.
End(p, clean) ==
    /\ proc' = [proc EXCEPT ![p] = Ended(p)]
    /\ unit' = CASE p # service -> unit
                 [] p = service /\ clean -> "inactive"
                 [] OTHER -> "activating"

\* main: ensureServerRunning finds a server, which may be gone the next
\* moment, or starts one.
Init ==
    /\ \E s \in {"up", "gone", "starting"} :
          /\ proc = [p \in Pids |-> IF p = 1 THEN s ELSE "none"]
          /\ unit \in {"inactive"} \cup IF s = "gone" THEN {} ELSE {"active"}
          /\ own = IF s = "starting" /\ unit # "active" THEN {1} ELSE {}
    /\ service = IF unit = "active" THEN 1 ELSE 0
    /\ crashes = 0
    /\ ready = FALSE
    /\ svc = [status |-> "", pid |-> 0]
    /\ action = ""
    /\ quit = FALSE
    /\ collects = 1
    /\ samples = <<>>
    /\ ticks = 0
    /\ clears = 0
    /\ jobs = <<>>
    /\ keys = 0
    /\ extra = 0

-----------------------------------------------------------------------------
(* Refreshing.                                                             *)

\* gatherStats calls serviceInfo.
Collect ==
    /\ ~quit
    /\ collects > 0
    /\ collects' = collects - 1
    /\ samples' = Append(samples, serviceInfo)
    /\ UNCHANGED <<ui, ticks, clears, jobs, processes, keys, extra>>

\* Seeded bug: only the first result starts a tick.
StatsMsgTicksOnce(i) ==
    /\ ~quit
    /\ svc' = samples[i]
    /\ ready' = TRUE
    /\ samples' = RemoveAt(samples, i)
    /\ ticks' = IF watchMode /\ ~ready THEN ticks + 1 ELSE ticks
    /\ UNCHANGED <<action, quit, collects, clears, jobs, processes, keys, extra>>

\* case statsMsg
StatsMsg(i) ==
    /\ ~quit
    /\ svc' = samples[i]
    /\ ready' = TRUE
    /\ samples' = RemoveAt(samples, i)
    /\ ticks' = IF watchMode THEN ticks + 1 ELSE ticks
    /\ UNCHANGED <<action, quit, collects, clears, jobs, processes, keys, extra>>

\* case tickMsg
TickMsg ==
    /\ ~quit
    /\ ticks > 0
    /\ ticks' = ticks - 1
    /\ collects' = collects + 1
    /\ UNCHANGED <<ui, samples, clears, jobs, processes, keys, extra>>

-----------------------------------------------------------------------------
(* Keys, which do nothing before the first result.                         *)

Press ==
    /\ ~quit
    /\ ready
    /\ keys < MaxKeys
    /\ keys' = keys + 1

\* "r"
KeyRefresh ==
    /\ Press
    /\ collects' = collects + 1
    /\ extra' = extra + 1
    /\ UNCHANGED <<ui, samples, ticks, clears, jobs, processes>>

\* "s": toggleServiceCmd goes by the last result.  It sets the action of a
\* copy of the model, so the action does not change.
KeyToggle ==
    /\ Press
    /\ jobs' = Append(jobs, IF svc.status = "running"
                            THEN [do |-> "stop", pid |-> svc.pid]
                            ELSE [do |-> "start", pid |-> 0])
    /\ UNCHANGED <<ui, refresh, clears, processes, extra>>

\* "b" and "u"
KeyInstall(what) ==
    /\ Press
    /\ action' = what
    /\ jobs' = Append(jobs, [do |-> what, pid |-> 0])
    /\ UNCHANGED <<ready, svc, quit, refresh, clears, processes, extra>>

\* "q", and any other key outside watch mode.  No command begins any more, and
\* the zombies are reaped.
Quit ==
    /\ Press
    /\ quit' = TRUE
    /\ proc' = [p \in Pids |-> IF proc[p] = "zombie" THEN "gone" ELSE proc[p]]
    /\ own' = {}
    /\ UNCHANGED <<ready, svc, action, refresh, clears, jobs, systemd, crashes, extra>>

-----------------------------------------------------------------------------
(* The commands of keys.                                                   *)

Becomes(i, what) == jobs' = [jobs EXCEPT ![i].do = what]
Spawn(p) == proc' = [proc EXCEPT ![p] = "starting"]

\* stopServerCmd: kill, by the process id of the last result.
Stop(i) ==
    /\ ~quit
    /\ jobs[i].do = "stop"
    /\ Kill({jobs[i].pid})
    /\ Becomes(i, "done")
    /\ UNCHANGED <<ui, refresh, clears, own, service, crashes, keys, extra>>

\* Seeded bug: nothing is started while another command is shown.
StartUnlessBusy(i) ==
    /\ ~quit
    /\ jobs[i].do = "start"
    /\ \/ action = "" /\ Spawn(Fresh) /\ own' = own \cup {Fresh}
       \/ action # "" /\ UNCHANGED <<proc, own>>
    /\ Becomes(i, "done")
    /\ UNCHANGED <<ui, refresh, clears, systemd, crashes, keys, extra>>

\* startServerCmd: cmd.Start, and no cmd.Wait.
Start(i) ==
    /\ ~quit
    /\ jobs[i].do = "start"
    /\ Spawn(Fresh)
    /\ own' = own \cup {Fresh}
    /\ Becomes(i, "done")
    /\ UNCHANGED <<ui, refresh, clears, systemd, crashes, keys, extra>>

\* install.sh, which goes on when the panel has ended.  First build, and upgrade
\* when its build of the server fails, no server runs, or it may not restart
\* the unit: no process changes.
Build(i) ==
    /\ jobs[i].do \in {"build", "upgrade"}
    /\ Becomes(i, "done")
    /\ UNCHANGED <<ui, refresh, clears, processes, keys, extra>>

\* install.sh upgrade: systemctl restart, which waits for the end of the old
\* server, and of two restarts at once makes one,
UnitRestart(i) ==
    /\ jobs[i].do = "upgrade"
    /\ unit = "active"
    /\ Kill({service})
    /\ Becomes(i, "restart unit")
    /\ UNCHANGED <<ui, refresh, clears, own, service, crashes, keys, extra>>

UnitStart(i) ==
    /\ jobs[i].do = "restart unit"
    /\ \/ unit = "inactive" /\ Spawn(Fresh) /\ unit' = "active" /\ service' = Fresh
       \/ unit = "active" /\ proc[service] # "exiting" /\ UNCHANGED <<proc, systemd>>
    /\ Becomes(i, "done")
    /\ UNCHANGED <<ui, refresh, clears, own, crashes, keys, extra>>

\* or pkill, a second's sleep, and a new server.
UpgradeKill(i) ==
    /\ jobs[i].do = "upgrade"
    /\ unit # "active"
    /\ Listed # {}
    /\ Kill(Pids)
    /\ Becomes(i, "restart")
    /\ UNCHANGED <<ui, refresh, clears, own, service, crashes, keys, extra>>

UpgradeStart(i) ==
    /\ jobs[i].do = "restart"
    /\ Spawn(Fresh)
    /\ Becomes(i, "done")
    /\ UNCHANGED <<ui, refresh, clears, own, systemd, crashes, keys, extra>>

\* Seeded bug: the message stays.
ActionDoneMsgStays(i) ==
    /\ ~quit
    /\ jobs[i].do = "done"
    /\ action' = "done"
    /\ jobs' = RemoveAt(jobs, i)
    /\ collects' = collects + 1
    /\ extra' = extra + 1
    /\ UNCHANGED <<ready, svc, quit, samples, ticks, clears, processes, keys>>

\* case actionDoneMsg
ActionDoneMsg(i) ==
    /\ ~quit
    /\ jobs[i].do = "done"
    /\ action' = "done"
    /\ jobs' = RemoveAt(jobs, i)
    /\ collects' = collects + 1
    /\ clears' = clears + 1
    /\ extra' = extra + 1
    /\ UNCHANGED <<ready, svc, quit, samples, ticks, processes, keys>>

\* case clearActionMsg
ClearActionMsg ==
    /\ ~quit
    /\ clears > 0
    /\ clears' = clears - 1
    /\ action' = ""
    /\ UNCHANGED <<ready, svc, quit, refresh, jobs, processes, keys, extra>>

-----------------------------------------------------------------------------
(* The server processes.                                                   *)

Fail == crashes < MaxCrashes /\ crashes' = crashes + 1

\* db.Open succeeds, or the process exits because another one has it open.
Boot(p) ==
    /\ proc[p] = "starting"
    /\ \/ Locked = {} /\ proc' = [proc EXCEPT ![p] = "up"] /\ UNCHANGED unit
       \/ Locked # {} /\ End(p, FALSE)
    /\ UNCHANGED <<ui, refresh, clears, jobs, own, service, crashes, keys, extra>>

\* While systemctl waits for the end of the server, systemd does not care how
\* it ends.
Awaited == \E i \in 1..Len(jobs) : jobs[i].do = "restart unit"

\* The signal handler cancelled the manager: main returns, unless a script that
\* still runs makes the process fail (see Lifecycle).
Exit(p) ==
    /\ proc[p] = "exiting"
    /\ \/ End(p, TRUE) /\ UNCHANGED crashes
       \/ Fail /\ End(p, Awaited)
    /\ UNCHANGED <<ui, refresh, clears, jobs, own, service, keys, extra>>

\* A panic, or an error of the BLE library.
Crash(p) ==
    /\ proc[p] = "up"
    /\ Fail
    /\ End(p, FALSE)
    /\ UNCHANGED <<ui, refresh, clears, jobs, own, service, keys, extra>>

\* Restart=on-failure.  Attempts while another server has the database fail
\* again and are left out.
Restart ==
    /\ unit = "activating"
    /\ Locked = {}
    /\ Spawn(Fresh)
    /\ unit' = "active"
    /\ service' = Fresh
    /\ UNCHANGED <<ui, refresh, clears, jobs, own, crashes, keys, extra>>

Job(i) ==
    \/ Stop(i)
    \/ Start(i)
    \/ Build(i)
    \/ UnitRestart(i)
    \/ UnitStart(i)
    \/ UpgradeKill(i)
    \/ UpgradeStart(i)
    \/ ActionDoneMsg(i)

Next ==
    \/ Collect
    \/ \E i \in 1..Len(samples) : StatsMsg(i)
    \/ TickMsg
    \/ KeyRefresh
    \/ KeyToggle
    \/ \E what \in {"build", "upgrade"} : KeyInstall(what)
    \/ Quit
    \/ \E i \in 1..Len(jobs) : Job(i)
    \/ ClearActionMsg
    \/ \E p \in Pids : Boot(p) \/ Exit(p) \/ Crash(p)
    \/ Restart

Spec == Init /\ [][Next]_vars

\* Commands end, timers fire, messages are handled and processes run; of
\* several results that wait none waits for ever.  Nobody presses a key, and no
\* server crashes.
FairSpec ==
    /\ Spec
    /\ WF_vars(Collect)
    /\ WF_vars(TickMsg)
    /\ WF_vars(ClearActionMsg)
    /\ WF_vars(Restart)
    /\ \A i \in 1..(MaxKeys + 1) :
          /\ SF_vars(i <= Len(samples) /\ StatsMsg(i))
          /\ WF_vars(i <= Len(jobs) /\ Job(i))
    /\ \A p \in Pids : WF_vars(Boot(p)) /\ WF_vars(Exit(p))

-----------------------------------------------------------------------------
(* Correctness.                                                            *)

\* In watch mode refreshing never stops, and there is exactly one refresh
\* under way for the start of the program, for each "r" and for each command
\* that ended: each of these goes on for ever, so that the panel refreshes
\* more and more often.  Outside watch mode no tick is started.
RefreshChains ==
    ~quit => LET n == collects + Len(samples) + ticks
             IN  IF watchMode THEN n = 1 + extra
                 ELSE ticks = 0 /\ n <= 1 + extra

\* No message stays for ever, whichever commands overlap and whichever timer
\* clears it.
MessageGoes == action # "" ~> (action = "" \/ quit)

Doing(what) == \E i \in 1..Len(jobs) : jobs[i].do \in what
Stopping == (\E p \in Pids : proc[p] = "exiting") \/ Doing({"stop", "upgrade"})

\* A start, the second half of an upgrade and a failure of the unit's server lead
\* to a server that is up, even when the panel went by an old result and another
\* server is there or is started at the same time by systemd, unless one is being
\* stopped.  (A server that is up is not always the end of it: see the README.)
StartServes ==
    (Doing({"start", "restart", "restart unit"}) \/ unit = "activating")
        ~> (\E p \in Pids : proc[p] = "up") \/ Stopping \/ quit

\* When no server runs, the panel comes to show that, as long as none of the
\* servers it started itself has ended.
StoppedIsShown ==
    (ready /\ Living = {}) ~> (svc.status # "running" \/ Living # {}
                               \/ Zombies # {} \/ quit)

\* "It shows ... the status of the server process, and lets the user
\* start/stop the service": the same without exception.
StatusShown ==
    (ready /\ Living = {}) ~> (svc.status # "running" \/ Living # {} \/ quit)
-----------------------------------------------------------------------------
(* Types.                                                                  *)

Statuses == {"", "running", "inactive", "active", "activating"}
Actions == {"", "build", "upgrade", "done"}
Results == [status : Statuses, pid : Pids \cup {0}]
Starters == {"start", "upgrade", "restart", "restart unit"}
Commands == [do : Starters \cup {"stop", "build", "done"}, pid : Pids \cup {0}]

UiTypeOK ==
    /\ ready \in BOOLEAN
    /\ svc \in Results
    /\ action \in Actions
    /\ quit \in BOOLEAN

RefreshTypeOK ==
    /\ collects \in Nat
    /\ samples \in Seq(Results)
    /\ ticks \in Nat

JobsTypeOK == clears \in Nat /\ jobs \in Seq(Commands)

ProcessTypeOK ==
    /\ proc \in [Pids -> {"none", "starting", "up", "exiting", "zombie", "gone"}]
    /\ own \subseteq Pids
    /\ unit \in {"inactive", "active", "activating"}
    /\ service \in Pids \cup {0}

CountTypeOK ==
    /\ crashes \in 0..MaxCrashes
    /\ keys \in 0..MaxKeys
    /\ extra \in Nat

TypeOK ==
    /\ UiTypeOK
    /\ RefreshTypeOK
    /\ JobsTypeOK
    /\ ProcessTypeOK
    /\ CountTypeOK
=============================================================================

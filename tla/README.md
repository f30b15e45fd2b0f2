# A TLA+ model of dBikeServer

dBikeServer is a Bluetooth Low Energy peripheral. A central writes JSON packets,
one per line, to a *write characteristic*; the server acknowledges each one, runs
the Tengo script of its topic, and sends packets back through a *notify
characteristic*. Scripts share a state that is kept in BadgerDB. A terminal panel
watches, starts and stops the server.

Paths below are those of the repository under `src/`.

## Inventory

| Part | Source | State | Operations | What makes it correct |
|---|---|---|---|---|
| Notify characteristic | `ble/characteristics.go` 15-60 | `sendCh`, a channel of 32 packets; one handler goroutine per subscription | `Notify` (drops when full); the handler: drain, greet, take and write at intervals, return | no packet of an earlier subscriber reaches a new one; none is written twice; order; a handler starts, serves and ends |
| Write characteristic, framer | `ble/characteristics.go` 62-88, `ble/framer.go` | a buffer under a mutex that outlives connections | append a chunk, reset when too long, cut lines, decode, dispatch | no byte lost, repeated or reordered whatever the chunks; every line dispatched once |
| Frame handler | `handler.go`, `ipc/types.go` | none | error report, `ack`, script, built-in `ping` | exactly one reply per frame, acknowledgement first, never waits |
| Script engine | `script/engine.go` | compiled scripts, the state map | start: restore the state, compile; `HandleEvent`; `notify` | a failed script counts as handled; the restored state is the saved one |
| Script state | `script/builtins/state.go` | a map under a read-write lock, the `state:` entries | `get_state`, `set_state`, `del_state`, `throttle`, `debounce`, `ewma`, `pid_update` | map and database agree; a restart restores; rate limits hold |
| Database builtins | `db/db.go`, `script/builtins/db.go` | `kv:`, `config:` and `log:` entries | get, set, delete, list, `db_log`, `db_logs` | namespaces apart; logs complete, newest first |
| BLE manager, lifecycle | `ble/manager.go`, `main.go`, `gpio/gpio.go` | context, advertising loop, the signal channel, the registers of the pins | start, advertise, recover, cancel on a signal, close | a process ends for a reason; advertising is resumed; shutdown ends |
| Panel | `panel/*.go` | the Bubble Tea model; pending commands | refresh, toggle, build, upgrade, quit | the picture is refreshed and true; commands do what the keys say |
| Pure builtins | `script/builtins/{builtins,array,map,math,string,core,types,encoding}.go` | none | conversions, arrays, numbers, text | total on their inputs, round trips |
| GPIO, OpenAI, installer, logging | `gpio/`, `script/builtins/{gpio,openai}.go`, `install.sh`, `util/` | outside the program | calls to the outside; the units' restarts | |

How they interact: go-ble calls the write handler and the notify handlers in
goroutines of its own. The write handler calls the framer, then `handleFrame`,
which calls the engine and `Notify` in the same goroutine. Scripts call the
builtins, again in that goroutine. The two directions meet only in `sendCh`. The
script state and the framer are shared by all write handlers, the database by
all scripts. `main` starts and closes all of it, and waits for none of those
goroutines. The panel knows the server only as a process.

The hard behaviours are: handlers of subscriptions that overlap on one channel;
a drain loop made of two steps; a buffer that survives its central; locks that
are released before the work they protect is finished; errors that are dropped;
clocks that are not monotonic; results of the panel's commands that arrive late
and out of order; processes nobody waits for. `PROJECT.json` lists each one at
its line, with the properties that speak about it.

## Modules

| Module | Models | Notes |
|---|---|---|
| `NotifyFeed` | what subscribers are promised | abstract: accept, join, deliver |
| `NotifyChannel` | `sendCh` and the handlers | implements `NotifyFeed` |
| `LineFramer` | `Append` and the write handler, any chunks, several writers | |
| `IpcSession` | centrals that send messages in chunks and disconnect | extends `LineFramer` |
| `IpcSession_proofs` | | of the framer: lossless framing, whole lines, the bound, every line dispatched once; sessions are behaviours of the framer; packets are messages that were sent; errors and losses have causes |
| `IpcServer` | `handleFrame`, `HandleEvent`, `notify` | extends `NotifyChannel` |
| `IpcServer_proofs` | | of the channel: type, freshness, at most once, refinement; one reply per frame, acknowledgement first, still the feed |
| `StateStore` | `set_state`, `del_state`, `get_state`, restoration, faults, shutdown, kills | |
| `StateStore_proofs` | | write-through, what a restart keeps |
| `Lifecycle` | `bleMain`, `RunBLEManager`, signals, the service manager, scripts nobody waits for | implements the process of `StateStore` |
| `Lifecycle_proofs` | | why a process ends; the implementation |
| `KeyedHistory` | `throttle`, `debounce`, `ewma`, `pid_update` | |
| `KeyedHistory_proofs` | | spacing, quiet, samples, refusals |
| `ScriptDB` | the `kv:`, `config:` and `log:` builtins and the scans | |
| `ScriptDB_proofs` | | namespaces, collisions, the order of logs |
| `Panel` | the update loop, its commands, and server processes | |
| `Panel_proofs` | | refreshes, what waits at most, enough processes |
| `Values` | the objects of scripts, conversions, JSON, numbers | used by `MCStateStore`, extended by `TextBuiltins` |
| `TextBuiltins` | the text, encoding and type builtins, as operators | extended by `Builtins` |
| `Builtins` | a script that calls the builtins, and `notify` | |
| `Builtins_proofs` | | what brings the server down; numbers, slices, sorting, pairs, texts, comparisons and JSON; every value is an object |
| `MCIpcSession`, `MCIpcServer`, `MCStateStore`, `MCScriptDB`, `MCBuiltins` | values of constants for TLC | |

Definitions marked `Seeded bug` are not part of a model. Each is a plausible
mistake in the code of the definition that follows it; put in its place it
makes the property named in `PROJECT.json` fail, which shows that the property
depends on that code.

### Notify channel

A packet is its number in the order of acceptance. `pc` says where each handler
is: `drain` is the condition `len(nc.sendCh) > 0`, `drainRecv` the receive after
it, `select` the wait for a packet or for the end of the subscription, `write`
and `sleep` the two statements of the first case. `Subscribe` and `Unsubscribe`
stand for go-ble, which is not part of the repository. `Notify` is the whole
non-blocking send, as an action of the application (`AppNotify`) or of the
handler (`Ready`).

An `n.Write` reaches the central or fails, also after the end of the subscription,
which the handler does not look at before; a failure loses the packet. When both
cases of the `select` are ready, either may be taken.

### Framing

`AppendChunk` is `Append` up to the size check, `CutLine` one turn of the split
loop, `Release` the end of the loop and of the critical section. The mutex is
represented by the writer that is in `split`. `Dispatch` is one turn of the
handler's loop. In `LineFramer` chunks are arbitrary; in `IpcSession` they are
pieces of messages written by one central after the other, any of which may
disconnect inside a message, while two calls of the handler may overlap. A
message may be empty: a line of nothing but its newline. Messages are decoded
when they are whole.

### Frame handler

`IpcServer` adds workers to `NotifyChannel`. What `Notify` queues is recorded in
`log`, what it drops in `dropped`. `scripts` is chosen at the start among the
sets in `ScriptDirs`, as the engine compiles its scripts once.

### State store

`mem` is the map, `db` the entries, decoded. `Update` is the half of `set_state`
or `del_state` under the lock, `Persist` the half after it, `PersistFails` the
same with an error that is dropped. `Close` closes the database when a signal
ended the manager; handlers go on. `Stop` ends the process at any moment, in
`up` or in `closing`, so it stands for a return of `main` and for a kill. What
was acknowledged is then in the database, which a power cut would not guarantee
(see "Not modelled"). `Start` is `NewEngine`, `StartBlank` the same when the
scan fails. A value has an encoding, `Json[v]`: the value that decoding gives
back. `StateStore` knows no more of it; `MCStateStore` takes it from `Values`,
by converting, encoding, decoding and converting back. The first process is
started like every other one, and there may be any number of them.

A key is *adrift* when the map and its entry may differ: two calls on it
overlapped, its value has no JSON, it was changed in place, the database refused
it, or the start did not read it. The properties say that these are the only
ways for the two to part.

### Lifecycle

`stage` says where `main` is; every stage is left by the call that the code has
there, and the deferred closes are `closeGpio` and `closeDB`, in the order of
their defers. `catcher` is the goroutine of `cancelOnSignal`, and `sigCh` its
channel of one place: a signal before `signal.Notify` kills the process, a
signal before the goroutine runs waits, and the ones after the first are lost.
The BLE library is the step `AdvertiseReturns`, which may come at any time, with
or without an error. Handlers run scripts from the moment the service was added
to the end of the process; a script may panic (`Crash`), in one of the ways
`Builtins` tells of, and nobody recovers from that; or it may use a pin
(`GpioCall`): without pins, or with wrong arguments, that is an error that ends
the script; after `gp.Close` it is a memory fault. `Start` is the service
manager (`Restart=on-failure` in `install.sh`) or a user. As a process, it is
the one that `StateStore` assumes: `StoreProcess` is `StateStore!Spec` with the
phase computed from `stage` and `db`, and no keys.

### Keyed history, script database

Both read the wall clock in a step of its own, before the cell or the entry is
written, and both let it be set back. A filter's cell is the sequence of samples
folded into it. A database key is the sequence of its parts between colons, and
the database a function from the keys that have a value. `DbGet` and `ConfigGet`
are what a script would read in a state; the properties compare them with what
scripts set and did not delete since.

### Values and builtins

A value is a record with one field that names its type. Numbers are scaled down:
integers have `IntBits` bits, floats `FloatBits` significant bits and a
resolution of one half, so the places where int64 and float64 part (beyond 2^53
and at 2^63) lie within a few dozen values. A sum beyond the largest float is an
infinity. `tengoObjToGo`, `goToTengo`, `Marshal` and `Unmarshal` rebuild a value
and change its leaves, each in its own way (`Rebuilt`); a text is a JSON
document when all its parts are of the kinds JSON has, and no number in it is
beyond the floats (`IsDocument`). A conversion of a float that is out of range
is a choice between what amd64 and arm64 do. A builtin is an operator that
returns the set of its results: several where a Go map is iterated, where a sort
is not stable, or where objects are compared by a text that varies. `Builtins`
is a script that calls them one after the other on one value; what a call
returned is the argument of the next one. Of the order of texts only the first
character is modelled. A text is a sequence of characters, one of which is white
space, or an encoding: its name followed by what was encoded, so decoding is
taking the name away. A map that contains itself, or is nested deeper than the
stack allows, is the value `Endless`; what is in it is not modelled, so it is no
argument by itself, only inside other values. What recurses into one (comparison
by text, JSON, `notify`) overflows the stack. Arrays that contain themselves are
not modelled, but would behave in the same way. `LongestText` is what memory
lasts for, below the range of integers; only `repeat` and the pads, whose length
an argument sets, can go beyond it. `Notify` is the `notify` builtin up to the
encoding of the packet, which `NotifyChannel` knows by its number.

### Panel

Pending commands are counted (`collects`, `ticks`, `clears`) or listed
(`samples`, `jobs`), and any of them may end next. The processes follow the
operating system: a killed server exits after a while, a second server finds the
database locked and exits, a child nobody waits for stays a zombie, and a server
may crash or fail while it shuts down. `install.sh`, once started, goes on when
the user quits the panel. The machine is a Linux one with systemd. The first
server may be the unit's: then `unit` is its `ActiveState`, systemd starts it
again when it failed, and `install.sh upgrade` restarts it with `systemctl`;
without the unit `serviceInfo` and `upgrade` go by `pgrep`. A restart that finds
the database locked fails again and is left out.

## Runs

| Run | Question | Bounds |
|---|---|---|
| `Notify` | is the channel safe, does it implement the feed, do handlers serve and end | 2 subscriptions, queue of 2, 2 calls and 2 greetings: the queue overflows and the handlers overlap in every location |
| `NotifyStall` | does a handler always come to serve its subscription | the same; it does not |
| `Session` | is framing lossless for overlapping calls, what do leftovers and resets do to whole messages | 2 calls at a time, 4 messages of up to 3 bytes and a newline, one of them empty, chunks of up to 3 bytes, a buffer of 4: the second message is reset or not, as the chunks fall; disconnects anywhere |
| `Server` | one reply per frame, acknowledgement first, never waiting | 2 frames at once, a queue of 2, `ping` built in or scripted |
| `StateSafety` | when may map and database differ, what does a restart keep | 2 handlers, a persistent and a volatile key, 7 values (numbers, NaN, arrays with bytes), 3 calls, 1 fault, any number of processes |
| `ScriptPanic` | does the server outlive every script | 1 script at a time; it does not |
| `KeyedHistory` | what do rate limits and filters promise | 2 handlers, 4 calls, clock to 4, a delay of 2, set back once |
| `ScriptDB` | what do `db_logs`, `db_keys` and the getters return | 2 handlers, 4 calls, 3 topics of which one extends another, an empty text and another one, set back once |
| `Lifecycle` | why does a process end, does a signal end it, does advertising go on, is it the process of the state store | 2 scripts at a time; nothing else is bounded |
| `Builtins` | do the builtins do what the docs say, where do they not, what brings the server down | 5-bit integers, 3-bit floats, 38 values at the edges, nested up to 6 deep, two of them with an endless map inside, texts of up to 5 characters, memory for 12, two calls: every builtin after every other |
| `Panel` | does the panel keep refreshing, clear its messages, do servers start | 2 keys, 1 crash, 6 processes, with the unit and without |
| `PanelZombie` | does the panel show that the server is stopped | 1 key; it does not |

The bounds are small, but every hazard needs at most two overlapping actors and
a queue, buffer or clock that can be full, empty or wrong. The safety results of
the channel, the framer, the frame handler, the state store, the rate limits,
the database, the lifecycle, and the builtins on numbers, arrays and texts do not
rest on them: they are proved.
`Lifecycle` has no bound but the number of scripts.

`Lifecycle` is checked for deadlock: a server can always go on. In the other
runs `CHECK_DEADLOCK` is off, because the program may rest: no central has to
write or subscribe, no script has to run, a user may quit.

### What the failing runs show

- `NotifyStall`: `for len(nc.sendCh) > 0 { <-nc.sendCh }` blocks when another
  handler takes the last packet between the two halves. The new handler then
  waits for a packet, even past the end of its subscription, and discards it
  when it comes. `docs/README.md` 116 says the helper "drains the channel and
  writes notifications at a controlled interval".
- `ScriptPanic`: `docs/SCRIPTING.md` 40 says that when a script panics "the error is
  logged and execution continues. The BLE connection is not dropped". `HandleEvent`
  calls `c.Run()` (`script/engine.go` 146) without a recover, and neither its callers
  nor the Tengo VM have one: the panic ends the process. `PanicsExplained` and
  `EndsExplained`, which hold, say which calls do this and list it among the ends of
  a process; they do not say that it is right.
- `PanelZombie`: a server that the panel started and stopped is listed by
  `pgrep` for ever; the panel shows it as running and cannot start it again.

### What the exceptions in the other runs say

Some properties hold with exceptions that a reader of the docs may not expect:

- `ErrorsExplained`: the framer tests the size before it cuts lines, so a reset
  can throw a complete line away, although its log says "without newline".
- `PanicsExplained`: `slice_array` with a negative end, `rand_int` with bounds
  that are too far apart, `repeat` and the pads with a length there is no memory
  for, and all that recurses into a value which contains itself (`sort_array`,
  `unique`, `array_contains`, `join`, `json_encode`, `notify`) end the server,
  against `docs/SCRIPTING.md` 40 (see `ScriptPanic`). `set_state`, `db_set`, `db_log`,
  `log` and `format` recurse as well; their modules leave such values out.
- `OnlyCollisionsLose`: `docs/SCRIPTING.md` 574 says that log entries "are always
  ordered and never overwrite each other". Two entries of one topic with the same
  clock reading have the same key, so the later one replaces the other: overlapping
  calls, a coarse clock or one that was set back are enough; and after the clock was
  set back the entries are out of order. The docs also say that `db_logs` returns
  the entries "for `topic`" (578); it returns those of every topic that extends the
  name after a colon, too, and they use up its limit.
- `RestartKeepsSaved`: what comes back is the value as JSON gives it back. An
  integer that was stored is a float after a restart, which in Tengo neither equals
  it nor indexes an array, although `docs/SCRIPTING.md` 440 says that values are
  "restored automatically on restart". `WrittenThrough` lists the ways to lose a
  value: NaN, a change in place, overlapping calls, a fault.
- `EndsExplained`: a script panics (see `ScriptPanic`). And a script that still
  runs during shutdown ends the process with a memory fault when it uses a pin,
  because `gp.Close` comes before `database.Close` and waits for nobody; the
  exit is then a failure, after which the service manager starts the server
  again although it was told to stop, and the database may not have been closed.
- `StartServes`: "leads to a server that is up" is less than a user may expect.
  `upgrade` without the unit waits one second: when the old server has not ended by
  then, the new one finds the database locked and exits, and no server is left; and
  the key that stops a server kills by a result that may be seconds old. The property
  excepts a server that is being stopped, so it shows neither.
- `NamespacesSeparate`: an empty text is stored, but `DB.Get` copies it to nil,
  which the getters take for an entry that is not there: `config_get` returns
  undefined for a setting of `config_set(key, "")`, as if it had not been set. A
  value of `db_set` is JSON, which is never empty.
- `TextsMeetDocs`: `pad_left` and `pad_right` with a pad of several characters go
  beyond the width.
- `TextsDecide`: `array_contains` may not find a map that is in the array, and
  `unique` may keep it twice, because the text of a map has its keys in any order.
- `NumbersMeetDocs`: `clamp` leaves its range when an integer meets a fractional
  bound; integers beyond the precision of a float change.
- `JsonSettles`: no payload and no restored value has an integer in it, so
  `is_int(payload.rpm) ? payload.rpm : 0` (`docs/SCRIPTING.md` 404) is always 0.
  A payload with NaN or an infinity goes out as an empty line, and `notify`
  returns as if it had been sent.

One disagreement with the docs is in the model but in no property:
`docs/SCRIPTING.md` 613 says that scripts continue running when a `gpio_` call
fails on a machine without pins; `GpioCall` ends the script, because the error of
a builtin ends every script.

### Fairness

- `NotifyChannel`: the Go scheduler runs each goroutine that can run (WF of
  `Handler`), `select` chooses at random among the ready cases (SF of `Done`:
  a case that is ready again and again is chosen), and waiting receivers of a
  channel are served in turn (SF of `DrainRecv`). Nothing is asked of callers
  and centrals. `SoleSubscriberServed` is false for handlers that overlap, so it
  says "alone".
- `IpcSession`, `IpcServer`: calls that run go on running. Subscribers and their
  handlers owe nothing in `IpcServer`: `FramesHandled` holds while nobody reads.
- `Panel`: commands end, timers fire, processes run, systemd restarts its unit,
  and no message of several that wait is passed over for ever.
- `Lifecycle`: goroutines run; the BLE library returns once its context is
  cancelled (and owes nothing before); the service manager starts what failed;
  and a start that could succeed again and again does so in the end (SF of the
  steps that may fail), for a database that stays locked cannot be served.
- `StateStore`, `KeyedHistory`, `ScriptDB`, `Builtins`: safety only.

## Proofs

Proved with TLAPS for every value of the constants that satisfies the
assumptions named in the modules. The inductive invariants stand in the proofs
modules, before the proofs that need them:

- `IpcServer_proofs`, of `NotifyChannel`: `Invariance` (`IInv`), `TypeCorrect`,
  `Freshness`, `AtMostOnce`, `Refinement`. Freshness and single delivery are not
  inductive: they hold because the queue is in the order of acceptance,
  everything that left it is older than what is in it, and what is in it when a
  handler joins is nothing. `IInv` says this as `QueueOrder`,
  `TakenBeforeQueued`, `HeldOnce` and `QueueAboveFloor`. The lemmas on appending
  to and taking from a queue carry the sequence reasoning. The refinement maps
  `Joined` and `enq` to the feed; `Ready` and `Notify` accept, `DrainCheck`
  joins, `Write` delivers, and everything else stutters.
- `IpcSession_proofs`, of `LineFramer`: `FramerInvariance`, `LosslessFraming`,
  `LineFraming`. The buffer may hold complete lines only while a writer is in
  the loop, and there is one such writer at most. `DispatchInvariance` and
  `EveryLineOnce`: that all lines were dispatched once when no call runs is not
  inductive; `DispatchInv` counts, at any moment and for any set of lines, those
  cut on one side and those dispatched or waiting in a call on the other
  (`Balanced`). Each step moves one line, and the lemmas on cardinalities say
  what that does to the counts.
- `IpcSession_proofs`, of `IpcSession`: `SessionImplementsFramer`, `SessionFraming`,
  `SessionDispatch`, `SessionInvariance`, `PacketsWereSent`, `ErrorsHaveCauses`,
  `LossesHaveCauses`. A write of a session is a call with a piece of the wire, and
  pieces of the wire are chunks (`WireAssumption`, which TLC evaluates for the
  messages of the run); a disconnect changes nothing the framer sees. So all that
  is proved of the framer holds of sessions. Every byte of a message has its place
  on the wire (by least counterexamples: the places are found, not computed), and
  `SessionInv` says that what is in the lines, the buffer and the next chunk
  was written (`Written`, which the last byte of a message cut short was not) and
  comes in the order of places (`LinesInOrder`; `DispatchInOrder` for the lines
  on their way to the handler while no calls overlap). A line that is a message
  then has the message's last byte and the newline behind it, and no two lines
  are the same message; with the counts of `DispatchInv`, no two that are
  dispatched. The bytes of a line, and of the input a call has not cut yet, are
  neighbours on the wire or begin where a disconnect or a reset left off
  (`Contiguous`), and what was written is in them or was taken by a reset
  (`Received`). So a bad line holds a byte of a message cut short or begins in the
  middle of one a reset took the beginning of, and a whole message that is lost
  ends a bad line. Distinct lines have distinct such causes, which bounds the
  number of errors and of losses (`OneEach`).
- `IpcServer_proofs`, of `IpcServer`: `ServerInvariance`, `RepliesOnce`, `AcksFirst`,
  `ServerFeed`. `ServerInv` says what each frame has been told by the place its
  worker is at (`RepliesCounted`), that everything queued is in `log` at its
  number (`LogComplete`), and that an answer in `log` is behind its
  acknowledgement, unless that one was dropped (`AnswersBehindAcks`); with the
  order of the queue, which the invariant of the channel gives, nobody
  is written the two in the other order. Frame handlers and scripts are callers of
  `Notify`, so the steps of the channel map to the feed as before.
- `StateStore_proofs`: `Invariance`, `WriteThrough`, `Durability`. A pending
  call on a key that is not adrift is the only one and carries the value in the
  map (`CallsCurrent`); what a process leaves behind (`LeftBehind`) is what the
  restart reads.
- `Lifecycle_proofs`: `Invariance`, `EndsForAReason`, `IsStoreProcess`. What is
  open, which signals wait and which scripts may run follow from the stage `main`
  is at (`ResourcesFollowMain`, `StopsOnSignal`, `ScriptsWhileServing`). The
  process implements that of the state store step by step: with no keys every
  action of `StateStore` but those of the process is void.
- `KeyedHistory_proofs`: `HistoryInvariance`, `LetThroughApart`, `TrueAfterQuiet`,
  `EachSampleOnce`, `RefusedForAReason`. The cells agree with the last completed
  calls (`StampsCurrent`); while the calls of a function do not overlap there is
  one at most and what it read is what its cell still has (`OneAtATime`); without
  a clock set back a stamp is not before any earlier one (`StampsGrow`); a sample
  in progress is a new one (`SamplesNew`); and what a call of `throttle` found is
  a stamp that was let through, whatever overlaps (`OldFired`).
- `ScriptDB_proofs`: `StoreInvariance`, `Namespaces`, `OnlyCollisions`,
  `NewestFirst`. The database has exactly the keys of what was set and not
  deleted and of the entries logged, and under the key of an entry the last one
  that has it (`Stored`); stamps are in the order of the entries while there is
  no disorder (`Orderly`). The rest is about keys: they tell namespaces, topics
  and stamps apart, and their order is transitive and total on a namespace. So a
  finite set of them has a last key and each key a rank, which makes `Backwards`
  a list of the whole set in descending order; that a nonempty set of naturals
  has a least element takes the place of induction.
- `Panel_proofs`: `PanelInvariance`, `RefreshesGoOn`, `WorkIsBounded`,
  `ProcessesSuffice`. Each step passes a refresh on or begins one with its cause.
  The other two are about the bounds of the model. A key is the cause of one
  command or one more refresh (`KeysSpent`), so that no result and no command
  waits at a place `FairSpec` is not fair to. And `Affords` counts what may still
  start a server (keys, commands, crashes, the restart that a failure calls for,
  and servers that may take the database from that of the unit) against the
  processes that are left: so `Fresh` is always there, and the bound `Pids` cuts
  off no behaviour. It needs that systemd knows its server
  (`UnitFollowsServer`).
- `Builtins_proofs`: `ScriptInvariance`, `PanicsHaveCauses`,
  `NumbersAsDocumented`, `ArraysAsDocumented`, `TextsAsDocumented`,
  `TextsDecided`, `ValuesInvariance`, `JsonSettled`, for any values, operands
  and texts; assumed are only that slices begin and end at integers
  (`IndicesAssumption`), that floats have fewer bits than integers
  (`BitsAssumption`), and that what scripts begin with and pass on are objects
  within these widths, nested less deep than `MaxNesting` or endless maps inside
  such values (`ValuesAssumption`), and that memory lasts for no more than the
  range of integers (`MemoryAssumption`). `ScriptInv` says that every call so
  far returned what its builtin may return, and that a panic is explained by the
  last call; each step is such a call (`EveryStep`), and the rest is about
  operators. Numbers: the solver knows nothing of powers of two, so `2^n` is the
  size of a power set; rounding to a float keeps the order, and changes nothing
  up to `FloatBits` bits. Arrays: a sorted array is a rearrangement by a
  bijection, so each value is in it as often as before, and the pairs of a map
  have each key once. Texts: pieces are found from the end of a text to its
  beginning and joined the other way round, so that what is joined after n
  pieces is the text up to the nth separator; and no occurrence of what was
  replaced can reach into what replaces it. Comparisons and JSON are about what
  a recursion over arrays in arrays makes of a value. The library's induction
  over data is out of reach, but a value has finitely many levels, so what holds
  of a value when it holds of its parts holds of the deepest ones and, level by
  level, of the value (least counterexamples again). `ObjectInv` says that what
  a script computes is an object whose numbers keep their widths; one lemma per
  builtin says that its result is put together from parts of its arguments and
  from such leaves. For JSON, the four conversions all keep the shape of a
  value, so to convert it twice is to convert its leaves twice, and leaves
  settle: no encoded leaf is an integer or bytes, the nearest float of a float
  is itself, replaced characters stay.

Each inductive invariant was first checked by TLC, as an `INVARIANT` of its
module's run (`DispatchInv`, in `SessionInv` too, for the sets of lines that a run
can cut; `ScriptInv` with the `Indices` of the run for the integers; `ObjectInv` too).
`FramerInv`, `LinesAreLines` and `TypeOK` of the channel are proved
and no longer checked by a run of their own.

Only model-checked: every liveness property (the provers here do neither
fairness nor `ENABLED`). Every safety invariant and action property that a
passing run checks is proved.

## Not modelled

- OpenAI calls (one request without state), logging, the panel's view (layout)
  and its statistics other than the state of the server (readings of the system).
- The registers behind the pins: modes, edges, PWM, and the rights they need.
- The contents of packets, except for what becomes of a payload in JSON.
- Of the builtins averages, interpolation and trigonometry (quotients and real
  functions), case mapping and formatted text, the clock, and what is in a map
  that contains itself.
- Power cuts. `db.go` opens Badger with its defaults, that is without `SyncWrites`:
  what was written and acknowledged may be lost with the power, though not with the
  process.
- Scripts that never end: nothing interrupts them, and their write handler is lost.
- Script compilation, which succeeds or ends the process (`BuildEngine`,
  `StartFails`), and the value-log collection of the database, which changes
  nothing a script sees.
- launchd, and the parts of `install.sh` the panel does not run: shell around
  package and service managers.

## Plan

The plan this project was built along is carried out: each component that can be
modelled is, each hazard in `PROJECT.json` has a property (some as an exception
it names), and each invariant and action property of the passing runs has a
theorem. What is left is liveness, which would need a prover that knows fairness
and `ENABLED`, and the parts listed under "Not modelled".

# RuntimeForge in TLA+

RuntimeForge is a daemon that builds llama.cpp and its forks from source, keeps
the resulting runtimes, chooses one for a GGUF model and supervises the
`llama-server` process that serves it. This directory holds TLA+ models of the
parts of it that are hard to test, TLC configurations that check them on small
instances, and proofs for the parts where an argument for every instance is
possible. Paths below are relative to `src/`.

    tlc -workers 2 -config SupervisorLive.cfg MCSupervisor    # one run
    tlapm SupervisorProofs.tla                                # one proof module

## 1. The system

| Component | State | Operations | Talks to |
|---|---|---|---|
| Supervisor (`internal/supervisor`) | map of instances under a mutex; a child process, a `watch` and a `waitReady` goroutine for each | Load, Unload, Shutdown, SetPortRange, List/Get | operating system; callbacks OnChange and OnLog into the event hub; gateway and management API read it |
| Build engine (`internal/build/engine.go`) | jobs, cancel functions, slots (`sem`), subscribers; build and runtime directories | Submit, Cancel, run, Subscribe/emit, collectBinaries | source manager, planner, preflight, manifest hook of `cmd/runtimeforge` |
| Source manager (`internal/source`) | registry under a mutex, saved as `sources.json`; one checkout for each source | Add, Remove, Check, EnsureClone, EnsureCheckout, SetBuildCommand | git; build engine |
| JSON stores (`sources.json`, `model_settings.json`, `selections.json`, `models.json`) | a map in memory and a file | load, change and save | file system; daemon and CLI commands both open them |
| Event distribution (`engine.emit`, `internal/server/events.go`, `forwardBuildEvents`, `cmdBuild`) | two maps of buffered channels | subscribe, send, unsubscribe, forward | every component that reports something; browsers |
| Runtime selection (`internal/selection`, `resolveRuntime`) | pins | Resolve, SetModel, SetFormat | runtime registry, configuration, hardware report |
| Runtime registry (`internal/runtimes`) | manifests on disk | Write, List, Remove, BinaryPath | build engine, selection |
| Architecture extraction (`internal/runtimes/arch.go`) | none | read LLM_ARCH_NAMES of a checkout | manifest hook |
| Gateway (`internal/server/openai.go`) | none | choose an instance from a List, proxy to the port it names | supervisor, model registry |
| Management API (`internal/server`) | none of its own | handlers that call everything above | all |
| Configuration (`internal/config`, `cfgState`) | layers of TOML files, the live configuration | Load/Merge, SaveOverlay, reload | supervisor (a copy of the port range), selection |
| Model registry and scan (`internal/models`, `scan` and its callers) | list of models without a lock, `models.json` | ScanTargets, Replace, List; a scan at start-up, on request, after a change of the sources, and a command | configuration, file system, GGUF reader |
| GGUF reader (`internal/gguf`) | none | read a header, skip arrays, parse shard names | model scan |
| Hardware detection (`internal/hardware`, `hardwareState`) | the latest report | detect, refresh | `nvidia-smi`, `vulkaninfo`; selection, preflight |
| Daemon and service commands (`cmdServe`, `cmd/runtimeforge/service.go`) | PID file, process, systemd unit | serve, start, stop, restart | operating system, systemd, supervisor's Shutdown |
| Plan, preflight, application directories, web interface | none | CMake flags, checks, paths, pages | |

What is hard here is concurrency with little locking around it:

* the supervisor finds an instance by its id again after every unlocked wait,
  while other calls may have removed it or put another one in its place;
* jobs share one checkout, one build tree and one runtime directory for each
  variant, and a slot with a limit, and they can be canceled at every moment;
* channels are copied under a lock and sent to after it, dropped events
  included, and one reader waits for a particular event;
* stores are saved through a temporary file, some with and some without their
  mutex, and by more than one process;
* a change of the configuration is merged into a file, reloaded and copied in
  steps of their own, and the merge depends on what the file has already;
* a check, a build and an edit of the registry read a source's state at
  different times and write it back later;
* a request is dialled to a port, and a port, like a process number in the PID
  file, may belong to somebody else by then;
* scans walk over files and drives that come and go, and replace a list that
  nothing locks;
* a shutdown is a chain of waits in three places (requests, children, the `stop`
  command), each with a limit of its own.

`PROJECT.json` lists these hazards one by one with the line where each bites.

## 2. Modules

`Lifecycle` <- refined by - `Supervisor` <- extended by - `Gateway`; `Events`
instances `EventHub` twice; `ModelScan` extends `GGUF`, and `Selection` extends
`Hardware`; the others stand alone. Each `MC...` module extends its component with the
values its configurations use. Operators named in a comment *Mutant* are
plausible bugs of the definition below them; no specification uses them.

**Lifecycle** is the promise to a client that watches the listed status of each
model: absent, loading, ready or error, with the allowed changes between them,
and that no load stays undecided.

**Supervisor** is `supervisor.go`. An instance is named by the Load call that
makes it, so `instances[loadModel[l]]` (what the id means now) and `l` (the
instance a goroutine was started for) can differ, as they do in the code.
One step is one critical section, one blocking call or one unlocked access.
`ScanPort`, `ProbePort`, `Insert`, `Start`, `Bind`, `Reply` are Load (284-327,
478-503); `Bind` is the unlocked assignment of `inst.proc` and the start of the
goroutines. `Watch` is 366-383, `ReadyCheck`/`ReadyProbe`/`ReadyMark`/
`ReadyTimeout` are 385-431, `Lookup`/`Signal`/`Kill`/`WaitDone`/`Delete` are
Unload (330-357), with `Shutdown*` over it (359-364). `child` and `jammed` are
what the operating system knows: a child may bind its port when nobody has it,
exit at any time, and its log pipe jams when the scanner of 164-170 meets a line
over its limit, after which `cmd.Wait` does not return. Which calls clients let
overlap is the constant `Overlap`: the API takes no lock around them. What an
exit does is said twice: `CrashRecorded`, once `watch` has seen it, and
`CrashShows`, that the instance it was of does not stay listed as if it ran.

**BuildEngine** is Submit, Cancel, `run` with every early return,
`collectBinaries` and the manifest hook, and the part of EnsureCheckout that
moves a checkout. A directory is described by the commit its contents are from,
which is what the properties compare. Restarts forget the jobs and keep the disk,
on which a `git` or a compiler's children that outlived the daemon may still have
moved the checkout or written the build tree (`StillCheckedOut`, `StillCompiled`).

**EventHub** is the pattern that `engine.go` and `events.go` both write out:
copy the channels under the lock, then a non-blocking send to each. A send on a
closed channel panics; net/http recovers it in a handler and nothing does in
another goroutine. **Events** composes the hub of the engine and the hub of the
server through the forwarder of the daemon, or has `cmdBuild` as the engine's
only reader: `reader` says which process it is.

**StateFile** is a store: start and load, change, marshal, open the temporary
file, write, rename, over inodes and names as POSIX has them. `Locked` is the
difference between `source/manager.go` (mutex kept) and `loadsettings/store.go`
(released before the write). `Home` gives each call its process, and `Quiet` are the
calls that report success whatever their save did (`Manager.update`, 246).

**SourceManager** is one source and one branch: `source` is the registry's entry
with the recorded commits and the update flag, `head`, `objects` and `origin` the
checkout. Check and EnsureCheckout are split at each git command and each
critical section. `overlap`, chosen at the start, says what may happen while a
call is under way.

**Selection** is Resolve and its caller: list the runtimes, decide, look for the
binary, while runtimes come and go, pins are set and configuration and hardware
change. The choice is the code's (rank, filter, sort by rank and then by build
time); the properties say what the choice should be without that order.

**Gateway** is the proxy composed with the supervisor: every step of `Supervisor`
goes on, `Inserted` gives the new instance its `StartedAt`, and a request is
`AskLoaded` or `AskModel` (`selectInstance` on one List) and, any time later,
`Dial`. The reverse proxy reaches whichever child has the port.

**Hardware** is `hardware.go` as functions of a host: its devices, which tools
are there and how they fare. `detectGPUs` and `availableBackends` go through
what the tools print; `Works` and `Inventory` say the same from the host.
`mergeGPUs` says which entries the loop leaves, and MCSelection has TLC compare
it with the loop itself (`MergeIsTheLoop`). The
variable `host` of Selection is what a refresh reports on.

**GGUF** is the reader of a header as functions from a position to a position, over
cells: a value has as many as its type has bytes. `skipArray` is a recursive
function, and its lengths go through `Int64`, which has `Width` bits. The
second part of the module is a writer, to compare the reader with.

**ModelScan** is `models.go` and its callers. A scan reads the configuration, takes
the files of one target after the other (`Walk`, `VisitFile`), reads the header
each has at that moment and groups them (`Visit`, `addFile`), and replaces the
registry in two steps, memory and file. Around it files and a drive come and go,
sources are changed and the daemon is killed. `current` says that a scan has
answered and nothing changed since it began. `ListBegin` and `ListEnd` are the two
words of the slice header that `List` reads while a scan may be assigning it.

**Daemon** is `cmdServe` from boot to cleanup, `start`, `stop` and the PID file
(created and written in two steps), the unit systemd runs, and
POST /system/restart. A SIGTERM is ignored while the requests are waited for and
ends a daemon in its cleanup, since the deferred `stop` (783) restores the default
action before the deferred `cleanup` (768) runs. Processes are numbers that are
given again. Time is in
ticks of five seconds, of which all limits here are multiples: ten seconds for
requests, five for a child, fifteen for `stop`.

**Configuration** is Merge with its `+` keys over layers of entries, and around
it one PUT of `/config`: `Put` reads and merges, `Open` and `Write` are
`os.WriteFile`, `Load` and `Set` the reload, `Apply` the supervisor's copy of the
port range. A write that fails part-way, or is killed, leaves what `Cut` says: some
of the entries, or a text that ends within one and does not parse. Where the code
iterates a map, `late` says which of two keys comes last. `disturbed`, chosen at
the start, says what goes wrong in a behaviour.

## 3. Runs

| Run | Instance | What it shows |
|---|---|---|
| SupervisorLive | 1 model, 2 loads, 1 unload, Shutdown, any two of these calls beside each other, 1 jam | TypeOK; `CrashRecorded`, no exit is missed by the record; `LifecycleSpec`, refinement of Lifecycle with its liveness; `CrashShows`, a crashed instance is unloaded or listed as failed; `ShutdownReturns`, unless the instance it is unloading has a jammed log pipe |
| GatewayRequests | 2 models with names of their own, 2 loads, 1 unload, Shutdown, 1 request, 2 ports, calls one after the other | `AnsweredByChosen`; and over the same composition `NoOrphan`, `FailedLoadLeavesNothing`, `ShutdownStopsAll`, `PortsDistinct` |
| SupervisorOrphan (violation) | 1 model, 1 load, 1 unload | an Unload between 309 and 319 leaves the process without an entry |
| BuildSerial | 2 jobs, 2 commits, 1 slot, removals, restarts, overlong lines | `RuntimesFaithful`, `CommitHonoured`, `SlotAccounting`, `OutcomeIsFinal`, `JobsEnd` |
| EventsBoth | both kinds of process; 1 job, 1 callback, 1 handler, 1 browser, channels of 2 and 1 | `InOrder`, `BroadcastsEnd`, `CommandReturns` |
| EventsPanic (violation) | 1 callback, 1 browser that leaves | a send on a closed channel ends the daemon |
| StateFileLocked | 3 calls, one of them quiet, 2 keys, failures, kills and restarts | `AlwaysLoads`, `Durable` |
| SourceCalls | 2 URLs of 2 commits, 1 check, 2 builds | `FlagAgrees`, `OwnCommits`, `WantedIsFetched` |
| SelectionLoad | 3 models, 2 commits, 3 sets of backends, 2 builds, 1 pin, 3 hosts | `ReportFaithful`, `ChoiceRuns`, `PriorityHonoured`, `RefusedForCause` |
| ConfigurationPuts | 3 requests of 6 bodies, 3 keys in 2 tables; requests overlap, kills, a failing disk or none; writes cut short | `SavedIsLive`, `RangeFollows`, `LayersHold`, `StartsAgain` |
| ModelScanSources | a split of 2 shards, a model, a hidden file; 2 configurations of sources; 1 request, 2 changes around the daemon | `RescanCurrent`, `ReadsAsWritten`, `StartKeepsModels` |
| DaemonCommands | 2 process numbers, 2 starts, 1 stop, 1 child, 1 fault; signals at any time, commands one after the other | `StartedIsNamed`, `StopIsTrue`, `GivesUpForCause`, `OrderlyExit`, `ShutdownEnds`, `RestartServes` |

A run lists the properties about what could go wrong. The type invariant of each
module may be added to its configuration; so may `ErrorIsFinal` and `UnloadReturns` (SupervisorLive),
`MemoryAgrees` (StateFileLocked), `PinOrNothing` and `LastBuilt` (SelectionLoad),
which hold as well.

Why the bounds are enough to meet the interesting cases:

* Supervisor: a second load of one model lets the late `watch`, `waitReady` and
  `Unload` of the first meet a later instance, the only way in which the id's
  meaning changes; one unload and Shutdown's own make two unloads of one id.
  `CONSTRAINT Bounds` keeps it to two calls at a time, of which Shutdown is one,
  and one jam, and has the loads used in their order. Only the beginning of a
  call and a jam can exceed it, and neither is fair, so no behaviour loses a step
  it has to take. What a second jam, or three calls at a time, would do to the
  safety properties is covered by the proofs, which have no such bound.
* Gateway: a second model is what can have the port by the time of the dial, an
  unload and a load are what gives it, and a request is alone with the
  supervisor: requests share nothing. The port range does not change here; the
  theorem `PortsStayDistinct` covers its changes. The properties without liveness
  are also proved for every instance.
* BuildEngine: two jobs are a holder of the slot and one that waits, and two
  commits tell whose contents a directory has.
* Events: two events of a goroutine can be swapped, and a channel of one is full
  after the first; the real capacities are 256 and 128. `EngineCapacity` equals
  `MaxEvents` because `CommandReturns` is about a build whose events fit.
* StateFile: three calls are two that overlap and one after a restart; the quiet
  one differs from the others only in what it reports.
* SourceManager: two builds are one before and one after the URL changes; pushes,
  edits and calls each overlap the calls in a part of the run of their own
  (`EachAlone`). `OwnCommits` is stated where calls overlap neither calls nor
  edits, `WantedIsFetched` where nothing overlaps; `FlagAgrees` in all four.
* Selection: two commits, of which the newer knows one more architecture, and
  `cpu`, `cuda` and both make every tie of `Before`; the priority list
  `cuda, cpu, cuda` is what `+backend_priority` in a later layer makes.
  The hosts of `AnyHost` have a card with both APIs beside an integrated one, a
  card whose driver does not answer beside a software renderer, and a detection
  that is skipped. `ReportFaithful` is also checked
  over all hosts of one and two different cards, tools that are missing, work or
  fail silently (`Hosts <- ManyHosts`, with one model and nothing built).
* ModelScan: a split, a model of its own and a hidden file, in a directory below a
  drive, meet every branch of the walk, the depth and the grouping; two changes
  are an unmount and a mount, a removal and a restart, or an edit of the sources
  after one of them. An int64 has six bits, and the headers read have each kind
  of value and arrays in arrays.
* Daemon: two numbers are a daemon and what comes after it; a third would be
  another idle one, as `OtherTakes` needs one that is free. Two starts and a stop
  are a stop between two starts, in any order. One fault: each kind meets every
  state of the rest.
* Configuration: two keys of one table and one of another tell a table the user
  layer has from one it has not; the third request comes after every outcome of
  two. `SavedIsLive` and `RangeFollows` leave out overlapping requests, and
  `LayersHold` is stated where nothing goes wrong, `StartsAgain` wherever
  requests do not overlap.

`CHECK_DEADLOCK FALSE` stands where a finite number of calls is all there is to
do (Events, StateFile, SourceManager), and in Daemon, where a shutdown really
hangs when a log pipe is jammed and nobody kills the process. In `BuildEngine` the step `Idle` says when
nothing is left to do, and any other stop is an error; in `Supervisor` and
`Selection` the port range or the configuration can always be set again, and
what has to move is stated as liveness.

Fairness: goroutines that can run do run (weak), and blocking calls that the
code bounds return: HealthCheck and Listen, a Kill's effect, external commands.
`ReadyTimeout` is strongly fair because its test stands at the top of a loop that
leaves it and comes back while the clock runs on; `TakeSlot` is strongly fair
because Go serves goroutines blocked on a channel in order. In Daemon the clock goes on (strong, since a tick
waits for waits that are over to be acted upon), a killed child is gone, and
systemd starts and, after ninety seconds, kills its unit. Nothing is assumed
that would make a child bind or exit, a client call, a browser read or leave, or
a scanner go on after an overlong line.

## 4. Proofs

`SupervisorProofs`, for every set of models, calls and port ranges:

* `TypeCorrect`, `CrashesAreRecorded`, `ErrorsAreFinal`, `ImplementsLifecycle`
  hold of `SafetySpec` whichever calls overlap. The invariant is
  `IInv == TypeOK /\ Consistent /\ CrashRecorded`. `CrashRecorded` alone is not
  inductive: that `watch` marks the right instance, or a harmless one, needs
  `Consistent`, which says that a goroutine only runs for a Load that has bound
  its process, that a listed instance has passed `Insert` and is listed under
  its own model, and that a running Unload has an instance. `ErrorsAreFinal`
  and the refinement then follow step by step (`StatusSteps`, `SlotStep`).
* `NoOrphans`, `FailedLoads`, `ShutdownIsComplete` assume `Polite`: calls on one
  model do not overlap each other, nor any call Shutdown (SupervisorOrphan shows
  why). The second invariant is `Sole /\ Held /\ Tended`: at most one call works
  on a model; the instance a call works on is the listed one; a live child is
  listed and no Unload is past waiting for it.
* `PortsStayDistinct` assumes that no two calls overlap (`OneAtATime`), since the
  probe of a port and its reservation are two steps: the port a Load has chosen
  is not that of a listed instance from the scan to the insertion.

Its last part is about Gateway, for every set of requests and names:
`GatewayIsSupervisor` is a refinement, each step of the composition a step of the supervisor or none, so
the theorems above hold beside requests. `AnswersAreChosen` assumes `Polite` and
`OneAtATime`; its invariant says that a request being dialled has the port its
instance has had since it was inserted, so that a child on this port and a
listed instance of the same port are the same by `PortsStayDistinct`.

`ModelScanProofs`, for every set of files, directories, sources and requests:

* `ModelsAreKept` is about a list of models that has been saved, and needs no more
  than the module's assumptions, whichever scans overlap. Its invariant is small: the scan at start-up comes to its assignment
  only with a list that is not empty (`AutoFinds`), and the command never comes
  to one.
* `RescansAreCurrent` compares what the walks and the grouping leave in the
  registry with `Expected`, which knows of neither. It takes four facts as given,
  and section 5 shows what goes wrong without each: scans do not overlap
  (`~Overlap`), headers are read as they were written (`[]ReadsAsWritten`, which
  TLC checks), two files of one directory and stem are shards of one split
  (`NamesApart`), and no source reaches a file twice (`ReachedOnce`). MCModelScan
  has TLC evaluate the last two on the files and sources of its run.
  The invariant says of a scan under way that its groups are those of the files
  it has passed, each with exactly the files of its key, and with its first
  shard as soon as that has been read (`Grouped`); that what it is still to
  visit is `Listed` and is reached once (`OnItsWay`); and of all scans, that one
  is under way at a time and none that a change has outdated beside a current
  registry (`Orderly`). The size of a model is a fold over its files, of which
  the proof needs only that equal summands have equal sums.

Its last part is about StateFile, for every number of calls, keys and values, with
kills: under `Guarded` (the mutex kept over the save, one process) `FilesLoad`,
`ChangesLast` and `MemoryIsSaved`; `ChangesLast` is about the changes whose save
succeeded. `FileInv` adds to the three properties that one call saves at
a time (`Holds`), that new inodes are nameless (`Fresh`), that the temporary
name has what the call has written (`Staged`), that what is saved is the map
with the call's change (`Current`), and that the running map has every change
reported done (`Remembered`).

`BuildEngineProofs`, for every number of jobs, sources and slots, with removals,
restarts and overlong lines: `TypeCorrect`, `SlotsAreKept` and
`OutcomesAreFinal`, from `SlotInv`, in which `Held` says that a slot belongs to
just the jobs between the wait and the release and `StatusAgrees` what a status
tells of a job's place; the bound on the slots is then one on cardinalities.
`CommitsAreHonoured` and `RuntimesAreFaithful` assume `Slots = 1`: two jobs
past the wait are then the same (`OneHolder`), so that the checkout is at what
the job that works wants (`CheckedOut`). What a restart leaves of the commands
under way is at a commit some job wanted, in a directory no job works in yet.

`SourceManagerProofs`, for every set of repositories and calls: `TypeCorrect` and
`FlagsAgree` whatever overlaps, since what EnsureCheckout records is a commit
(`Found`); `CommitsAreOwn` where calls overlap neither calls nor edits, since the
copy a call works on is then of the entry's URL (`OwnWork`); `WantedAreFetched`
where pushes do not overlap either: no commit is recorded before it is pushed
(`NoFuture`), and a build sets the URL, fetches and checks out with nothing in
between (`Brought`).

`ConfigurationProofs`, for every set of requests, tables and flags:

* `WhatRunsIsSaved` and `RangesFollow` hold whatever Merge does, with kills and
  failures and no overlap. What runs is saved but from the truncation of the file
  to the setting of what was loaded, and then that is saved (`SavedBetween`).
* `DaemonStartsAgain` says that a start is refused only after a value of the wrong
  type or a write that was cut short, which section 5 shows to be enough. It needs
  `LoadInv`: as long as neither has happened (`Unharmed`), the file and what is
  about to be written to it have the types of the fields, and it is written to a
  file just emptied, so that a kill between two steps leaves a whole or an empty
  one. Lists are over a set
  `Elements`, and `TypesAssumption` says that the layers below the user's and
  the arguments have the types: without that no daemon ever starts.
* `LayersAreKept` is about what Merge computes: that a merged layer carries what
  the body said and what it had before (`FileKept`, `HeldKept`), and what is
  loaded from it obeys that (`LiveKept`), through every order in which the map's
  keys come.

`DaemonProofs`, for every set of process numbers, commands, faults and children:
`TypeCorrect` and `ExitsAreOrderly` hold whichever commands overlap. The second is
about a daemon whose cleanup no signal ends: it has waited for every child, but
for a request that outlived its ten seconds or a jammed log pipe. It rests on
`Tidy`, once the requests are over the children of Shutdown's list are
all there are. `StartedAreNamed`, `StopsAreTrue` and `GivingUpHasCause` assume
commands one after the other (`~Concurrent`). The invariant says for that case
that a start goes on only when no start's daemon runs and a stop only on the one
it has read of (`Alone`), that each start command makes one daemon (`Births`),
and, for the two timers, that a daemon being stopped has less left of its ten
seconds than the stop of its fifteen (`InTime`).

`EventsProofs`, for every number of builds, callbacks, handlers and browsers and
for channels of every capacity: `TypeCorrect`, `OrderIsKept` and
`CommandStaysToTheEnd`. An order of what is delivered is not inductive without
what is on its way: a goroutine hands out its newest event (`EngineSending`,
`ServerSending`), and a channel it has yet to come to holds only older ones of it
(`EngineBound`, `ServerBound`). The forwarder passes on what it has read last,
which ties the second hub's bound to the first hub's reader (`Sent`).
`CommandStaysToTheEnd` is the safety part of `CommandReturns` (`LeavesAfterEnd`), for
one job, which is what `cmdBuild` submits.

`SelectionProofs`, for every set of variants, models, hosts and lists:
`TypeCorrect` and `LastBuiltIsChosen` without more; `ChoicesRun` and
`RefusalsHaveCause` if detection reports the backends that work
(`DetectionIsRight`), `PrioritiesAreHonoured` if also no backend comes first in a
list later than the number of its different names allows (`ListsAreShort`; a
list without repetitions is one, `ShortLists`). MCSelection has TLC evaluate
both on the hosts and lists of its runs: they hold of all but `Broken` and
`Overgrown`, with which the properties fail (section 5). The argument is about the value
of the choice: that ranks are places in the list (`RankIs`), that a set of
them has a least one (`Least`, from the well-foundedness of the naturals), and
so what the best candidate is (`AutomaticIs`). The state invariant is small:
manifests have different times, and the step that decides has a list of them.

Its last part is about what a detection reports of a host. `ReportsAreFaithful` is
for devices whose names tell them apart and tools that work, are missing or
fail silently (`UsualHost`); section 5 shows the two hosts that are not. An order of
the host's devices is built up with the lists (`Lists`): of those with CUDA, of those with
a driver, and merged of both, each once; that two lists in an order of the
same devices have as many copies of each entry is then a fact about bijections
(`Counted`). `DetectionFindsWhatWorks` concludes `DetectionIsRight` for hosts where also
`DriversAgree`: NVIDIA's Vulkan driver is not there without CUDA, nor a
software renderer as the driver of a CUDA card. MCSelection has TLC evaluate
both conditions on the hosts of the runs.

Proofs assume the ASSUMEs of the modules, which TLC evaluates on every run, and
what a theorem names (`Polite`, `OneAtATime`, `Guarded`, `Slots = 1`,
`~Concurrent`, one job, `DetectionIsRight`, `ListsAreShort`, `HostsAreUsual`,
`DriversAgree`, `~Overlap`, `NamesApart`, `ReachedOnce`, `[]ReadsAsWritten`).

Only model-checked:

* All liveness, and the fairness part of the refinement: they rest on ENABLED,
  which the prover does not handle. `ImplementsLifecycle` is the safety part of
  the property `LifecycleSpec` that SupervisorLive checks.
* `ReadsAsWritten` of ModelScan: the readers and writers of GGUF are recursive
  functions over a header, and what they compute for every header needs an
  induction over it. `RescansAreCurrent` rests on it as a hypothesis.

## 5. Where the code departs from what is said of it

Two runs are expected to fail and are listed as findings in `PROJECT.json`. The
configurations below show further departures; each checks the one property
named, which TLC finds violated. Where a change is given, it is made to the
configuration named, with `SYMMETRY` and the other properties taken out.

| Configuration | Module | Property | What happens |
|---|---|---|---|
| SupervisorStaleWatch | MCSupervisor | ReadyFailsOnlyOnCrash | The `watch` of an unloaded instance marks the one loaded after it as failed (369; SPEC.md:302). |
| SupervisorLive, `SPECIFICATION SafetySpec`, without `CONSTRAINT` | MCSupervisor | ShutdownStopsAll | A Load that Shutdown's List does not see, or an Unload before the process is assigned, leaves a process when Shutdown has returned (361; SPEC.md:301). |
| SupervisorJam | MCSupervisor | ShutdownStopsEvery | Unload waits for a `cmd.Wait` that a jammed log pipe blocks, and Shutdown never comes to the instances after it (345; comment at 359). |
| BuildShared | MCBuildEngine | ManifestFaithful | With two slots the checkout is shared, and a manifest has another commit's architectures (main.go:254; SPEC.md:247-249). |
| BuildLateCancel | MCBuildEngine | CanceledNeverSucceeds | A cancel accepted after the last command is not looked at (440; SPEC.md:222). |
| BuildLateCancel, `SPECIFICATION Spec`, `OverlongLines = TRUE` | MCBuildEngine | CancelEndsJob | An overlong compiler line leaves the job running whatever Cancel does (71; SPEC.md:222). |
| BuildRebuild | MCBuildEngine | ListedIsInstalled | A rebuild empties `bin` first; when the copy fails the old manifest still lists it (538; manifest.go:124). |
| EventsFlood | MCEvents | BuildIsReported | With more events than the channel holds, the one of the end is dropped and `runtimeforge build` waits for ever (main.go:352). |
| EventsFlood, `Callbacks = {w1}`, `Browsers = {b1}`, `Readers = {"forwarder"}`, `EngineCapacity = 1` | MCEvents | EveryoneIsSent | A subscriber whose channel is full is not sent the event (events.go:12). |
| StateFileSettings | MCStateFile | Durable | The mutex is released before the write: a change reported done is undone by an older save (loadsettings/store.go:99 and line 1). |
| StateFileTorn | MCStateFile | AlwaysLoads | Two saves share a temporary file, and the text of both is renamed into place (loadsettings/store.go:98). |
| StateFileCommand | MCStateFile | Durable | A CLI command and the daemon each save a map of their own; the later save undoes the other's change (manager.go:79). |
| StateFileLocked | MCStateFile | ReportedIsSaved | A build is accepted though the save of its command failed, and a check answers with a state that was not saved; the next start has the old ones (management.go:126; manager.go:246; SPEC.md:220). |
| SourceCalls, `Overlaps = {{}}` | MCSourceManager | UnspecifiedIsNewest | A build without a commit takes the one the last check recorded (manager.go:301, comment at 278-279). |
| SourceCalls | MCSourceManager | ResolvedBeforeFetch | The ref is resolved after the fetch, so a push in between names a commit that is not there (306). |
| SourceCalls, `Overlaps = {{"calls", "edits"}}` | MCSourceManager | ResolvedBeforeFetch | Between a build's set-url and its fetch a build of another URL sets the origin, and the commit resolved is not fetched (297). |
| SourceCalls, `Repos = {r1}`, `Overlaps = {{"calls"}}` | MCSourceManager | UpToDateIsOut | A check that read HEAD before a build moved it reports a source as up to date that is not (228). |
| ConfigurationAppend | MCConfiguration | AppendsToList | A `+` list in a request replaces the list when the user layer already has the table (config.go:168; SPEC.md:104). |
| ConfigurationLost | MCConfiguration | SavesAll | Two requests read the file before either writes: one change is lost (config.go:308; comment at 299-301). |
| ConfigurationLost, `Disturbances = {"kills"}` | MCConfiguration | SavesAll | A kill between the truncation and the write loses what earlier requests saved (config.go:322). |
| ConfigurationLost, `Disturbances = {"kills"}` or `{"failures"}` | MCConfiguration | StartsAlways | A kill during the write, or a disk that fills up, leaves a text cut short in `90-user.toml`, and the daemon does not start on it (config.go:322). |
| ConfigurationLost | MCConfiguration | RangeIsLive | Of two requests the one that loaded the older configuration sets the supervisor's port range last (server.go:234). |
| ConfigurationAppend | MCConfiguration | StartsAlways | A request that is refused for a value of the wrong type has been saved; the daemon does not start again (main.go:686; server.go:231). |
| SelectionRebuild | MCSelection | NewestCommit | Ties go to the last build, not the newest commit (selection.go:257; SPEC.md:271). |
| SelectionOvergrown | MCSelection | ListedFirst | With names repeated in the list, an unlisted backend ranks before a listed one (229). |
| SelectionLoad, `Hosts <- Broken` | MCSelection | ChoiceRuns, ReportFaithful | `nvidia-smi` fails with a message, which is read as a card: "cuda" is available and a CUDA runtime is chosen (hardware.go:112; comment at 70). |
| SelectionLoad, `Hosts <- Twins` | MCSelection | ReportFaithful | Of two cards of one name the first is given both Vulkan devices (hardware.go:209; comment at 203). |
| GatewayRequests | MCGateway | AnsweredByModel | Between the choice and the dial the model is unloaded and another one loaded on its port, which answers (openai.go:72; comment at 39). |
| GatewayRequests | MCGateway | ErrorIsCrash | The `waitReady` of an unloaded instance finds the one loaded after it by its id and marks it ready before its server listens: 502 (supervisor.go:408). |
| GatewayRequests, `NameOf <- SameNames` | MCGateway | ReadyIsServed | Of two loaded models of one name the one still loading is found, and the request refused (openai.go:120; comment at 40). |
| GatewayRequests, `Overlap = {"models"}` | MCGateway | AnsweredByChosen | Two loads at once take the same port (supervisor.go:495), and one answers for the other while both are listed. |
| ModelScanSources, `Overlap = TRUE`, `Contents <- Plain` | MCModelScan | RescanCurrent | The result of a scan replaces that of one that began later (management.go:323). |
| ModelScanSources, `Contents <- UsualHuge` | MCModelScan | ReadsAsWritten | The length of a huge array overflows to nothing, and a file cut short is taken for a whole one (gguf.go:311). |
| ModelScanSources, `Files <- Beside`, `WalkOrder <- BesideOrder`, `Contents <- UsualBeside` | MCModelScan | RescanCurrent | A file beside a split of the same stem is put into one model with its shards (models.go:344; SPEC.md:284). |
| ModelScanSources, `SourceSets <- Nested` | MCModelScan | RescanCurrent | A file that two sources reach is listed twice in its model and its size counted twice (models.go:151). |
| ModelScanSources | MCModelScan | ListIsWhole | List reads the slice header while Replace assigns it, a data race: the length may be of one registry and the array of the next (models.go:77; comment at 74). |
| ModelScanSources | MCModelScan | CommandFindsAll | `model scan` knows the directories but neither the roots nor the files of the sources (main.go:568; 502). |
| DaemonCommands | MCDaemon | RefusedForCause | After a crash the number in the PID file is another program's, and start says that RuntimeForge is running (service.go:49). |
| DaemonCommands | MCDaemon | StopSucceeds | Ten seconds for an open stream and five for a child are stop's fifteen: it reports a failure while the daemon ends (service.go:106; comment at 81). |
| DaemonCommands | MCDaemon | CleanupIsDone | The deferred `stop` runs before the deferred `cleanup`: a second SIGTERM ends the daemon before its children (main.go:783; SPEC.md:301). Only Pdeathsig is left to end them. |
| DaemonCommands, `InService = TRUE` | MCDaemon | RestartsItself | A daemon started from a terminal that a service runs takes itself for the unit's, and restarts another (service.go:152; comment at 150). |
| DaemonCommands, `Concurrent = TRUE` | MCDaemon | StopIsTrue, StartedIsNamed | A start beside a stop: the stop removes the PID file of the new daemon (service.go:90, 100), or two starts pass the check (48). |

## 6. Not modelled

* Within modelled components: log tails, command-line arguments and CMake flags
  (data no property tells apart), the order of `OnChange` callbacks of different
  goroutines, the choice among `ls-remote`'s lines and the submodule fallback,
  more than one source in SourceManager (sources share nothing but the registry
  file, which is StateFile's), selections.json and models.json as files (their
  stores have no mutex at all; the file part is StateFile's).
* In Supervisor: a user's own `--port` among the arguments, which overrides the
  supervisor's. In BuildEngine: commands that outlive the daemon until the next
  one works on the same source; they are over by then. In SourceManager: forced
  pushes, after which a recorded commit cannot be fetched.
* In Configuration: a write cut short within a number, which leaves another
  number; tables in tables, keys of no type, the directory that is
  always added to `scan_dirs`, the first writing of `config.toml`, and settings
  that their users read once (`max_concurrent_builds`, the listener's address).
* In ModelScan and GGUF: display names, quantizations, the errors a scan reports,
  tensor data (it is not read), symbolic links, the numbers in shard names.
* In Hardware: the versions of tools, where they are looked for, the text of their
  output beyond lines and blocks. Two refreshes at once, of which the later one
  may store the older report, are one step each here.
* In Daemon: socket activation, SIGINT, which does what SIGTERM does, the
  writing of the unit file, and the commands that only print.
* `internal/runtimes/arch.go` and preflight parse text; what they answer is a choice
  of the model. The web interface keeps no state here.

## 7. Plan

What is left, in this order:

1. Of Daemon, what holds of commands that overlap: which of `StartedIsNamed` and
   `StopIsTrue` stays true of the daemon that is not in the middle of one.
2. The order in which callbacks of different goroutines report one instance
   (`supervisor.go:451`), as a channel of Supervisor that a client reads; and two
   hardware refreshes at once, with the report as a variable of its own.
3. Configuration refined to a store in which a request is one step, where
   requests do not overlap.
4. The submodule fallback and the ref's several lines in SourceManager.

New properties share the runs kept here: one run for each question, with the
constants of the instance chosen in `Init` where two disciplines of the clients
are compared, as SourceManager, Events and Configuration do.

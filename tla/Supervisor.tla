----------------------------- MODULE Supervisor -----------------------------
(***************************************************************************)
(* internal/supervisor/supervisor.go: the map of llama-server instances    *)
(* and every goroutine that reads or writes it.                            *)
(*                                                                         *)
(* One step is one critical section of s.mu, one blocking call (Start,     *)
(* HealthCheck, Wait, Kill, Listen) or one unlocked access.  An Instance   *)
(* object is named by the Load call that creates it, so that "the entry    *)
(* the id has now" and "the instance this goroutine was started for" are   *)
(* different things, as they are in the code, where watch, waitReady,      *)
(* setError and Unload find an instance by its id each time.               *)
(***************************************************************************)
EXTENDS Integers, FiniteSets

CONSTANTS
    Models,      \* model ids, the keys of s.instances
    Loads,       \* Load calls; each makes at most one Instance
    Unloads,     \* Unload calls made by clients
    PortRanges,  \* port ranges a configuration may set, [lo, hi]
    Overlap,     \* which calls clients let overlap, see MayCall
    OverlongLines, \* whether a child may print a line the log scanner rejects
    None         \* no instance, no model

ASSUME SupervisorAssumption ==
    /\ PortRanges \subseteq [lo : Int, hi : Int]
    /\ None \notin Loads \cup Models
    /\ "shutdown" \notin Unloads
    /\ Overlap \subseteq {"model", "models", "shutdown"}
    /\ OverlongLines \in BOOLEAN

Unloaders == Unloads \cup {"shutdown"}   \* Shutdown makes its own Unload calls

VARIABLES
    portRange,   \* s.opts.PortRange
    instances,   \* s.instances: model id -> Instance or None
    status,      \* Instance.Status
    port,        \* the port allocatePort is trying, Instance.Port once inserted
    limit,       \* allocatePort's local hi
    proc,        \* Instance.proc # nil
    loadPc, loadModel,
    child,       \* the operating system's view of the instance's process
    jammed,      \* its output is no longer read, so cmd.Wait cannot return
    watchPc, readyPc,
    probePort,   \* waitReady's local port
    unloadPc, unloadModel, unloadInst,
    shutPc, todo \* Shutdown and the ids its List returned

instVars   == <<instances, status, proc>>
loadVars   == <<loadPc, loadModel, port, limit>>
childVars  == <<child, jammed>>
goVars     == <<watchPc, readyPc, probePort>>
unloadVars == <<unloadPc, unloadModel, unloadInst>>
shutVars   == <<shutPc, todo>>
vars == <<portRange, instVars, loadVars, childVars, goVars, unloadVars, shutVars>>

LoadBusy   == {"scan", "probe", "insert", "start", "bind", "reply"}
UnloadBusy == {"signal", "wait", "reap", "delete"}
Live       == {"starting", "serving"}

TypeOK ==
    /\ portRange \in [lo : Int, hi : Int]
    /\ instances \in [Models -> Loads \cup {None}]
    /\ status \in [Loads -> {"absent", "loading", "ready", "error"}]
    /\ port \in [Loads -> Int]
    /\ limit \in [Loads -> Int]
    /\ proc \in [Loads -> BOOLEAN]
    /\ loadPc \in [Loads -> LoadBusy \cup {"idle", "returned", "failed"}]
    /\ loadModel \in [Loads -> Models \cup {None}]
    /\ child \in [Loads -> Live \cup {"none", "exited"}]
    /\ jammed \in [Loads -> BOOLEAN]
    /\ watchPc \in [Loads -> {"none", "waiting", "done"}]
    /\ readyPc \in [Loads -> {"none", "check", "probe", "mark", "done"}]
    /\ probePort \in [Loads -> Int]
    /\ unloadPc \in [Unloaders -> UnloadBusy \cup {"idle", "done"}]
    /\ unloadModel \in [Unloaders -> Models \cup {None}]
    /\ unloadInst \in [Unloaders -> Loads \cup {None}]
    /\ shutPc \in {"idle", "loop", "done"}
    /\ todo \in SUBSET Models

Init ==
    /\ portRange \in PortRanges
    /\ instances = [m \in Models |-> None]
    /\ status = [l \in Loads |-> "absent"]
    /\ port = [l \in Loads |-> 0]
    /\ limit = [l \in Loads |-> 0]
    /\ proc = [l \in Loads |-> FALSE]
    /\ loadPc = [l \in Loads |-> "idle"]
    /\ loadModel = [l \in Loads |-> None]
    /\ child = [l \in Loads |-> "none"]
    /\ jammed = [l \in Loads |-> FALSE]
    /\ watchPc = [l \in Loads |-> "none"]
    /\ readyPc = [l \in Loads |-> "none"]
    /\ probePort = [l \in Loads |-> 0]
    /\ unloadPc = [u \in Unloaders |-> "idle"]
    /\ unloadModel = [u \in Unloaders |-> None]
    /\ unloadInst = [u \in Unloaders |-> None]
    /\ shutPc = "idle"
    /\ todo = {}

-----------------------------------------------------------------------------
(* Which calls may be made while others are running.  The management API   *)
(* takes no lock around Load and Unload, so all three overlaps are         *)
(* possible; a run that leaves one out describes a well-behaved client:    *)
(*   "model"    calls on the same model,                                   *)
(*   "models"   calls on different models,                                 *)
(*   "shutdown" calls still running, or made, once Shutdown has begun      *)
(*              (the HTTP server gives its handlers ten seconds).          *)

ActiveLoad(l)   == loadPc[l] \in LoadBusy
ActiveUnload(u) == unloadPc[u] \in UnloadBusy
NoActiveCall    == /\ \A l \in Loads : ~ActiveLoad(l)
                   /\ \A u \in Unloaders : ~ActiveUnload(u)

MayOverlap(m, n) == IF m = n THEN "model" \in Overlap ELSE "models" \in Overlap

MayCall(m) ==
    /\ shutPc = "idle" \/ "shutdown" \in Overlap
    /\ \A l \in Loads : ActiveLoad(l) => MayOverlap(m, loadModel[l])
    /\ \A u \in Unloads : ActiveUnload(u) => MayOverlap(m, unloadModel[u])

-----------------------------------------------------------------------------
(* The children.  Outside src/: a llama-server binds its port, or exits    *)
(* because another process holds it; it may exit at any time.  Its port is *)
(* the one BuildArgs puts first: a user's own --port, which comes after it *)
(* and overrides it, is not modelled.                                      *)

Bound(p) == \E l \in Loads : child[l] = "serving" /\ port[l] = p

ChildBinds(l) ==
    /\ child[l] = "starting"
    /\ ~Bound(port[l])
    /\ child' = [child EXCEPT ![l] = "serving"]
    /\ UNCHANGED <<portRange, instVars, loadVars, jammed, goVars, unloadVars, shutVars>>

ChildExits(l) ==
    /\ child[l] \in Live
    /\ child' = [child EXCEPT ![l] = "exited"]
    /\ UNCHANGED <<portRange, instVars, loadVars, jammed, goVars, unloadVars, shutVars>>

\* A line over the scanner's 1 MiB limit ends the goroutine that reads the
\* pipe; exec's copying goroutine then blocks, and cmd.Wait waits for it.
ScannerStops(l) ==
    /\ OverlongLines
    /\ child[l] \in Live /\ ~jammed[l]
    /\ jammed' = [jammed EXCEPT ![l] = TRUE]
    /\ UNCHANGED <<portRange, instVars, loadVars, child, goVars, unloadVars, shutVars>>

\* p.Wait() returns.
Reaped(l) == child[l] = "exited" /\ ~jammed[l]

-----------------------------------------------------------------------------
(* Load.  allocatePort looks at each port of the range it read at the      *)
(* start, first in the map (scan), then by listening on it (probe).        *)

LoadBegin(l, m) ==
    /\ loadPc[l] = "idle"
    /\ MayCall(m)
    /\ loadPc' = [loadPc EXCEPT ![l] = "scan"]
    /\ loadModel' = [loadModel EXCEPT ![l] = m]
    /\ port' = [port EXCEPT ![l] = portRange.lo]
    /\ limit' = [limit EXCEPT ![l] = portRange.hi]
    /\ UNCHANGED <<portRange, instVars, childVars, goVars, unloadVars, shutVars>>

InMap(k) == \E m \in Models : instances[m] = k

\* Mutant: only ready instances count as using their port.
PortUsedByReady(p) == \E k \in Loads : InMap(k) /\ status[k] = "ready" /\ port[k] = p
PortUsed(p) == \E k \in Loads : InMap(k) /\ port[k] = p

ScanPort(l) ==
    /\ loadPc[l] = "scan"
    /\ \/ /\ port[l] > limit[l]                     \* no free port available
          /\ loadPc' = [loadPc EXCEPT ![l] = "failed"]
          /\ UNCHANGED port
       \/ /\ port[l] <= limit[l] /\ PortUsed(port[l])
          /\ port' = [port EXCEPT ![l] = @ + 1]
          /\ UNCHANGED loadPc
       \/ /\ port[l] <= limit[l] /\ ~PortUsed(port[l])
          /\ loadPc' = [loadPc EXCEPT ![l] = "probe"]
          /\ UNCHANGED port
    /\ UNCHANGED <<portRange, instVars, loadModel, limit, childVars, goVars, unloadVars, shutVars>>

\* net.Listen fails when a child is bound there, and may fail because some
\* other program is.
ProbePort(l) ==
    /\ loadPc[l] = "probe"
    /\ \/ /\ port' = [port EXCEPT ![l] = @ + 1]
          /\ loadPc' = [loadPc EXCEPT ![l] = "scan"]
       \/ /\ ~Bound(port[l])
          /\ loadPc' = [loadPc EXCEPT ![l] = "insert"]
          /\ UNCHANGED port
    /\ UNCHANGED <<portRange, instVars, loadModel, limit, childVars, goVars, unloadVars, shutVars>>

\* Mutant: no check that the model is already loaded.
InsertUnchecked(l) ==
    /\ loadPc[l] = "insert"
    /\ loadPc' = [loadPc EXCEPT ![l] = "start"]
    /\ instances' = [instances EXCEPT ![loadModel[l]] = l]
    /\ status' = [status EXCEPT ![l] = "loading"]
    /\ UNCHANGED <<portRange, proc, loadModel, port, limit, childVars, goVars, unloadVars, shutVars>>

Insert(l) ==
    /\ loadPc[l] = "insert"
    /\ IF instances[loadModel[l]] # None
       THEN /\ loadPc' = [loadPc EXCEPT ![l] = "failed"]     \* already loaded
            /\ UNCHANGED <<instances, status>>
       ELSE /\ loadPc' = [loadPc EXCEPT ![l] = "start"]
            /\ instances' = [instances EXCEPT ![loadModel[l]] = l]
            /\ status' = [status EXCEPT ![l] = "loading"]
    /\ UNCHANGED <<portRange, proc, loadModel, port, limit, childVars, goVars, unloadVars, shutVars>>

\* setError(id): the status of whatever instance the id has now.
WithError(m) ==
    IF instances[m] = None THEN status ELSE [status EXCEPT ![instances[m]] = "error"]

\* Mutant: a failed Start leaves the entry as it is.
StartForgetting(l) ==
    /\ loadPc[l] = "start"
    /\ \/ child' = [child EXCEPT ![l] = "starting"] /\ loadPc' = [loadPc EXCEPT ![l] = "bind"]
       \/ loadPc' = [loadPc EXCEPT ![l] = "failed"] /\ UNCHANGED child
    /\ UNCHANGED <<portRange, instVars, loadModel, port, limit, jammed, goVars, unloadVars, shutVars>>

Start(l) ==
    /\ loadPc[l] = "start"
    /\ \/ /\ child' = [child EXCEPT ![l] = "starting"]
          /\ loadPc' = [loadPc EXCEPT ![l] = "bind"]
          /\ UNCHANGED status
       \/ /\ status' = WithError(loadModel[l])
          /\ loadPc' = [loadPc EXCEPT ![l] = "failed"]
          /\ UNCHANGED child
    /\ UNCHANGED <<portRange, instances, proc, loadModel, port, limit, jammed, goVars, unloadVars, shutVars>>

\* inst.proc = p, without the lock, then go watch, go waitReady.
Bind(l) ==
    /\ loadPc[l] = "bind"
    /\ proc' = [proc EXCEPT ![l] = TRUE]
    /\ watchPc' = [watchPc EXCEPT ![l] = "waiting"]
    /\ readyPc' = [readyPc EXCEPT ![l] = "check"]
    /\ loadPc' = [loadPc EXCEPT ![l] = "reply"]
    /\ UNCHANGED <<portRange, instances, status, loadModel, port, limit, childVars, probePort, unloadVars, shutVars>>

\* return s.snapshot(inst.ID)
Reply(l) ==
    /\ loadPc[l] = "reply"
    /\ loadPc' = [loadPc EXCEPT ![l] =
                    IF instances[loadModel[l]] = None THEN "failed" ELSE "returned"]
    /\ UNCHANGED <<portRange, instVars, loadModel, port, limit, childVars, goVars, unloadVars, shutVars>>

LoadStep(l) == \/ ScanPort(l) \/ ProbePort(l) \/ Insert(l)
               \/ Start(l) \/ Bind(l) \/ Reply(l)

-----------------------------------------------------------------------------
(* The two goroutines of an instance, both working on loadModel[l], the id.*)

\* Mutants: an exit while loading is left to waitReady; only that one is
\* recorded.
WatchReadyOnly(l) ==
    /\ watchPc[l] = "waiting" /\ Reaped(l)
    /\ watchPc' = [watchPc EXCEPT ![l] = "done"]
    /\ status' = IF status[l] = "ready" THEN WithError(loadModel[l]) ELSE status
    /\ UNCHANGED <<portRange, instances, proc, loadVars, childVars, readyPc, probePort, unloadVars, shutVars>>
WatchLoadingOnly(l) ==
    /\ watchPc[l] = "waiting" /\ Reaped(l)
    /\ watchPc' = [watchPc EXCEPT ![l] = "done"]
    /\ status' = IF status[l] = "loading" THEN WithError(loadModel[l]) ELSE status
    /\ UNCHANGED <<portRange, instances, proc, loadVars, childVars, readyPc, probePort, unloadVars, shutVars>>

Watch(l) ==
    /\ watchPc[l] = "waiting" /\ Reaped(l)
    /\ watchPc' = [watchPc EXCEPT ![l] = "done"]
    /\ status' = WithError(loadModel[l])
    /\ UNCHANGED <<portRange, instances, proc, loadVars, childVars, readyPc, probePort, unloadVars, shutVars>>

StillLoading(m) == instances[m] # None /\ status[instances[m]] = "loading"

ReadyCheck(l) ==
    /\ readyPc[l] = "check"
    /\ IF StillLoading(loadModel[l])
       THEN /\ readyPc' = [readyPc EXCEPT ![l] = "probe"]
            /\ probePort' = [probePort EXCEPT ![l] = port[instances[loadModel[l]]]]
       ELSE /\ readyPc' = [readyPc EXCEPT ![l] = "done"]
            /\ UNCHANGED probePort
    /\ UNCHANGED <<portRange, instVars, loadVars, childVars, watchPc, unloadVars, shutVars>>

\* The health request is answered by whichever child holds the port; it may
\* also fail, be refused or report a model still being read.
ReadyProbe(l) ==
    /\ readyPc[l] = "probe"
    /\ \/ readyPc' = [readyPc EXCEPT ![l] = "check"]
       \/ Bound(probePort[l]) /\ readyPc' = [readyPc EXCEPT ![l] = "mark"]
    /\ probePort' = [probePort EXCEPT ![l] = 0]
    /\ UNCHANGED <<portRange, instVars, loadVars, childVars, watchPc, unloadVars, shutVars>>

\* Mutant: the status is not looked at again after the health check.
ReadyMarkUnchecked(l) ==
    /\ readyPc[l] = "mark"
    /\ readyPc' = [readyPc EXCEPT ![l] = "done"]
    /\ status' = IF instances[loadModel[l]] # None
                 THEN [status EXCEPT ![instances[loadModel[l]]] = "ready"]
                 ELSE status
    /\ UNCHANGED <<portRange, instances, proc, loadVars, childVars, watchPc, probePort, unloadVars, shutVars>>

ReadyMark(l) ==
    /\ readyPc[l] = "mark"
    /\ readyPc' = [readyPc EXCEPT ![l] = "done"]
    /\ status' = IF StillLoading(loadModel[l])
                 THEN [status EXCEPT ![instances[loadModel[l]]] = "ready"]
                 ELSE status
    /\ UNCHANGED <<portRange, instances, proc, loadVars, childVars, watchPc, probePort, unloadVars, shutVars>>

\* Mutant: an instance that is not ready in time is dropped from the map.
ReadyTimeoutRemoving(l) ==
    /\ readyPc[l] = "check"
    /\ readyPc' = [readyPc EXCEPT ![l] = "done"]
    /\ instances' = [instances EXCEPT ![loadModel[l]] = None]
    /\ UNCHANGED <<portRange, status, proc, loadVars, childVars, watchPc, probePort, unloadVars, shutVars>>

\* The deadline is only looked at at the top of the loop.
ReadyTimeout(l) ==
    /\ readyPc[l] = "check"
    /\ readyPc' = [readyPc EXCEPT ![l] = "done"]
    /\ status' = WithError(loadModel[l])
    /\ UNCHANGED <<portRange, instances, proc, loadVars, childVars, watchPc, probePort, unloadVars, shutVars>>

ReadyStep(l) == ReadyCheck(l) \/ ReadyProbe(l) \/ ReadyMark(l)

-----------------------------------------------------------------------------
(* Unload, for a client or for Shutdown.                                   *)

Lookup(u, m) ==
    /\ unloadModel' = [unloadModel EXCEPT ![u] = m]
    /\ unloadInst' = [unloadInst EXCEPT ![u] = instances[m]]
    /\ unloadPc' = [unloadPc EXCEPT ![u] =
                      IF instances[m] = None THEN "done" ELSE "signal"]

UnloadBegin(u, m) ==
    /\ u \in Unloads
    /\ unloadPc[u] = "idle"
    /\ MayCall(m)
    /\ Lookup(u, m)
    /\ UNCHANGED <<portRange, instVars, loadVars, childVars, goVars, shutVars>>

\* if inst.proc != nil, read without the lock; the interrupt only asks.
Signal(u) ==
    /\ unloadPc[u] = "signal"
    /\ unloadPc' = [unloadPc EXCEPT ![u] =
                      IF proc[unloadInst[u]] THEN "wait" ELSE "delete"]
    /\ UNCHANGED <<portRange, instVars, loadVars, childVars, goVars, unloadModel, unloadInst, shutVars>>

\* Mutant: no kill for a child that ignores the interrupt.
NoKill(u) == unloadPc[u] = "reap" /\ UNCHANGED vars

\* Five seconds without an exit.
Kill(u) ==
    /\ unloadPc[u] = "wait"
    /\ unloadPc' = [unloadPc EXCEPT ![u] = "reap"]
    /\ child' = [child EXCEPT ![unloadInst[u]] = "exited"]
    /\ UNCHANGED <<portRange, instVars, loadVars, jammed, goVars, unloadModel, unloadInst, shutVars>>

\* Mutant: Unload does not wait for the exit.
WaitDoneEarly(u) ==
    /\ unloadPc[u] \in {"wait", "reap"}
    /\ unloadPc' = [unloadPc EXCEPT ![u] = "delete"]
    /\ UNCHANGED <<portRange, instVars, loadVars, childVars, goVars, unloadModel, unloadInst, shutVars>>

WaitDone(u) ==
    /\ unloadPc[u] \in {"wait", "reap"}
    /\ Reaped(unloadInst[u])
    /\ unloadPc' = [unloadPc EXCEPT ![u] = "delete"]
    /\ UNCHANGED <<portRange, instVars, loadVars, childVars, goVars, unloadModel, unloadInst, shutVars>>

\* Mutant: the instance itself is marked stopped, a status no reader expects.
DeleteMarkingStopped(u) ==
    /\ unloadPc[u] = "delete"
    /\ status' = [status EXCEPT ![unloadInst[u]] = "stopped"]
    /\ instances' = [instances EXCEPT ![unloadModel[u]] = None]
    /\ unloadPc' = [unloadPc EXCEPT ![u] = "done"]
    /\ UNCHANGED <<portRange, proc, loadVars, childVars, goVars, unloadModel, unloadInst, shutVars>>

\* delete(s.instances, id), whatever the id holds by now.
Delete(u) ==
    /\ unloadPc[u] = "delete"
    /\ instances' = [instances EXCEPT ![unloadModel[u]] = None]
    /\ unloadPc' = [unloadPc EXCEPT ![u] = "done"]
    /\ UNCHANGED <<portRange, status, proc, loadVars, childVars, goVars, unloadModel, unloadInst, shutVars>>

UnloadStep(u) == Signal(u) \/ Kill(u) \/ WaitDone(u) \/ Delete(u)

-----------------------------------------------------------------------------
(* Shutdown: List once, then one Unload after the other.                   *)

\* Mutant: only ready instances are shut down.
ShutdownBeginReady ==
    /\ shutPc = "idle"
    /\ NoActiveCall \/ "shutdown" \in Overlap
    /\ shutPc' = "loop"
    /\ todo' = {m \in Models : instances[m] # None /\ status[instances[m]] = "ready"}
    /\ UNCHANGED <<portRange, instVars, loadVars, childVars, goVars, unloadVars>>

ShutdownBegin ==
    /\ shutPc = "idle"
    /\ NoActiveCall \/ "shutdown" \in Overlap
    /\ shutPc' = "loop"
    /\ todo' = {m \in Models : instances[m] # None}
    /\ UNCHANGED <<portRange, instVars, loadVars, childVars, goVars, unloadVars>>

ShutdownNext ==
    /\ shutPc = "loop" /\ ~ActiveUnload("shutdown")
    /\ \E m \in todo : Lookup("shutdown", m) /\ todo' = todo \ {m}
    /\ UNCHANGED <<portRange, instVars, loadVars, childVars, goVars, shutPc>>

ShutdownEnd ==
    /\ shutPc = "loop" /\ ~ActiveUnload("shutdown") /\ todo = {}
    /\ shutPc' = "done"
    /\ UNCHANGED <<portRange, instVars, loadVars, childVars, goVars, unloadVars, todo>>

ShutdownStep == ShutdownNext \/ ShutdownEnd

SetPortRange(r) ==
    /\ r.hi >= r.lo /\ r.lo > 0
    /\ portRange' = r
    /\ UNCHANGED <<instVars, loadVars, childVars, goVars, unloadVars, shutVars>>

-----------------------------------------------------------------------------
Next ==
    \/ \E l \in Loads, m \in Models : LoadBegin(l, m)
    \/ \E l \in Loads : LoadStep(l) \/ Watch(l) \/ ReadyStep(l) \/ ReadyTimeout(l)
    \/ \E l \in Loads : ChildBinds(l) \/ ChildExits(l) \/ ScannerStops(l)
    \/ \E u \in Unloads, m \in Models : UnloadBegin(u, m)
    \/ \E u \in Unloaders : UnloadStep(u)
    \/ ShutdownBegin \/ ShutdownStep
    \/ \E r \in PortRanges : SetPortRange(r)

SafetySpec == Init /\ [][Next]_vars

\* Goroutines are scheduled, Start, HealthCheck (5 s) and Listen return, a
\* killed child dies, and the clock passes waitReady's deadline however often
\* its loop leaves the test for a probe (hence strong fairness).  Nothing
\* makes a child bind or exit, or a client call.
Fairness ==
    /\ \A l \in Loads : /\ WF_vars(LoadStep(l)) /\ WF_vars(Watch(l))
                        /\ WF_vars(ReadyStep(l)) /\ SF_vars(ReadyTimeout(l))
    /\ \A u \in Unloaders : WF_vars(UnloadStep(u))
    /\ WF_vars(ShutdownStep)

Spec == SafetySpec /\ Fairness

-----------------------------------------------------------------------------
(* Properties that hold however calls overlap.                             *)

\* "error" is the last status of an Instance: no late health answer, timeout
\* or exit turns it back (waitReady 408, watch 373).
ErrorIsFinal ==
    [][\A l \in Loads : status[l] = "error" => status'[l] = "error"]_vars

\* A crash is never missed: once the goroutine that waits for a listed
\* instance's process has seen it exit, the instance is listed as failed,
\* whichever of watch, waitReady and Unload ran in between (366-389).
CrashRecorded ==
    \A m \in Models : instances[m] # None /\ watchPc[instances[m]] = "done"
                        => status[instances[m]] = "error"

\* The status listed for each model follows the abstract lifecycle.
slot == [m \in Models |-> IF instances[m] = None THEN "absent" ELSE status[instances[m]]]
LC == INSTANCE Lifecycle
LifecycleSteps == LC!Init /\ [][LC!Next]_slot
LifecycleSpec  == LC!Spec

-----------------------------------------------------------------------------
(* Properties of well-behaved clients: no overlap on one model.            *)

\* Every running child is the process of the instance listed for its model,
\* so that Unload and Shutdown can reach it (SPEC.md:301).
NoOrphan ==
    \A l \in Loads : child[l] \in Live => instances[loadModel[l]] = l

\* A Load that reports an error left no process behind (284-327).
FailedLoadLeavesNothing ==
    \A l \in Loads : loadPc[l] = "failed" => child[l] \notin Live

\* When Shutdown returns, nothing is running and nothing is listed (359-364).
ShutdownStopsAll ==
    shutPc = "done" => /\ \A l \in Loads : child[l] \notin Live
                       /\ \A m \in Models : instances[m] = None

\* Listed instances have ports of their own (478-503): needs calls on
\* different models not to overlap either.
PortsDistinct ==
    \A m, n \in Models : /\ m # n /\ instances[m] # None /\ instances[n] # None
                         => port[instances[m]] # port[instances[n]]

-----------------------------------------------------------------------------
(* Liveness.                                                               *)

\* Unload always answers, unless the log scanner of the process it waits for
\* has stopped at an overlong line (330-357, 164-170).
UnloadReturns ==
    \A u \in Unloaders :
        ActiveUnload(u) ~> \/ unloadPc[u] = "done"
                           \/ unloadInst[u] # None /\ jammed[unloadInst[u]]

\* A crash comes to be seen: an instance whose process has exited, however
\* early in its Load, does not stay listed as loading or ready.  It is unloaded
\* or listed as failed, whichever goroutines of its id run in between, unless
\* its log pipe is jammed (319-325, 366-383).
CrashShows ==
    \A m \in Models, l \in Loads :
        instances[m] = l /\ child[l] = "exited"
          ~> instances[m] # l \/ status[l] = "error" \/ jammed[l]

\* Shutdown, once begun, returns whatever clients, children and timeouts do
\* meanwhile, Loads and Unloads made after its List among them.  Only a jammed
\* log pipe of the very instance it is unloading holds it up (359-364, 345).
ShutdownReturns ==
    shutPc = "loop" ~> \/ shutPc = "done"
                       \/ /\ unloadInst["shutdown"] # None
                          /\ jammed[unloadInst["shutdown"]]

-----------------------------------------------------------------------------
(* Claims the code does not keep.                                          *)

\* Once Load has returned and its model is no longer listed, its process is
\* gone (SPEC.md:301, children are reliably stopped on unload).
UnloadedIsStopped ==
    \A l \in Loads : /\ loadPc[l] \in {"returned", "failed"}
                     /\ instances[loadModel[l]] = None
                     => child[l] \notin Live

\* Shutdown stops every instance (supervisor.go:359).
ShutdownStopsEvery == shutPc = "loop" ~> \A l \in Loads : child[l] \notin Live

\* A ready instance is only ever marked failed because its own process has
\* exited (SPEC.md:302, crash detection).
ReadyFailsOnlyOnCrash ==
    [][\A l \in Loads : status[l] = "ready" /\ status'[l] = "error"
                          => child[l] = "exited"]_vars

=============================================================================

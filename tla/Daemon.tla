------------------------------- MODULE Daemon -------------------------------
(***************************************************************************)
(* The life of the daemon: cmdServe, `runtimeforge start` and `stop` with  *)
(* their PID file (cmd/runtimeforge), the systemd unit that may run it     *)
(* instead, POST /system/restart, and the llama-server children, which     *)
(* the supervisor stops and Pdeathsig follows the daemon with.             *)
(*                                                                         *)
(* A process is the number the operating system gives it, and a number is  *)
(* given again once its process is gone.  Time passes in ticks of five     *)
(* seconds, the measure of all the waits here, and no tick passes while a  *)
(* wait that is over has not been acted upon.                              *)
(***************************************************************************)
EXTENDS Integers, FiniteSets

CONSTANTS
    Pids,         \* process numbers
    Starts,       \* `runtimeforge start` commands
    Stops,        \* `runtimeforge stop` commands
    MaxKids,      \* bound on the children of a daemon
    MaxFaults,    \* bound on kills, failed boots and writes, and jammed log pipes
    Concurrent,   \* whether start and stop commands may overlap
    InService,    \* whether start is run from inside some other systemd service
    None

ASSUME DaemonAssumption ==
    /\ None \notin Pids \cup Starts
    /\ MaxKids \in Nat /\ MaxFaults \in Nat
    /\ Concurrent \in BOOLEAN /\ InService \in BOOLEAN

HttpTicksTwenty == 4   \* Mutant: twenty seconds

HttpTicks == 2   \* httpSrv.Shutdown's ten seconds
KillTicks == 1   \* Unload's five seconds for a child to exit
StopTicks == 3   \* cmdStop's fifteen seconds

VARIABLES
    proc,       \* what each process number is
    by,         \* the start command that made the daemon; None for systemd
    listening,  \* the daemon that has the port of the API
    busy,       \* some request or event stream is open
    kids,       \* children that run
    todo,       \* those of Shutdown's list that still have to be unloaded
    jammed,     \* a child's output has jammed its log pipe
    timer,      \* ticks left of the daemon's wait
    overrun,    \* a request outlived the ten seconds
    pidFile,    \* the process the file names; None when it has no number
    start,      \* state of each start command
    stop,       \* state of each stop command
    unit,       \* the systemd unit and its main process
    faults

daemonVars == <<proc, by, listening, busy, kids, todo, jammed, timer, overrun>>
vars == <<daemonVars, pidFile, start, stop, unit, faults>>

Running  == {"boot", "serve", "http", "cleanup"}
Daemons  == {p \in Pids : proc[p] \in Running}
Alive(p) == proc[p] \in Running \cup {"other"}    \* kill(pid, 0)

StartDone == {"started", "refused", "failed"}
StopDone  == {"stopped", "notrunning", "gaveup", "failed"}

TypeOK ==
    /\ proc \in [Pids -> Running \cup {"never", "gone", "other"}]
    /\ by \in [Pids -> Starts \cup {None}]
    /\ listening \in Pids \cup {None}
    /\ busy \in [Pids -> BOOLEAN] /\ jammed \in [Pids -> BOOLEAN] /\ overrun \in [Pids -> BOOLEAN]
    /\ kids \in [Pids -> 0 .. MaxKids] /\ todo \in [Pids -> 0 .. MaxKids]
    /\ timer \in [Pids -> 0 .. HttpTicks]
    /\ pidFile \in Pids \cup {None}
    /\ start \in [Starts -> [pc : {"idle", "spawn", "create", "write"} \cup StartDone,
                             pid : Pids \cup {None}]]
    /\ stop \in [Stops -> [pc : {"idle", "signal", "poll", "remove", "clear"} \cup StopDone,
                           pid : Pids \cup {None}, left : 0 .. StopTicks]]
    /\ unit \in [pc : {"off", "on", "restart", "failed"}, pid : Pids \cup {None}]
    /\ faults \in 0 .. MaxFaults

Init ==
    /\ proc = [p \in Pids |-> "never"] /\ by = [p \in Pids |-> None]
    /\ listening = None
    /\ busy = [p \in Pids |-> FALSE] /\ overrun = [p \in Pids |-> FALSE]
    /\ kids = [p \in Pids |-> 0] /\ todo = [p \in Pids |-> 0]
    /\ jammed = [p \in Pids |-> FALSE] /\ timer = [p \in Pids |-> 0]
    /\ pidFile = None
    /\ start = [c \in Starts |-> [pc |-> "idle", pid |-> None]]
    /\ stop = [c \in Stops |-> [pc |-> "idle", pid |-> None, left |-> 0]]
    /\ unit = [pc |-> "off", pid |-> None]
    /\ faults = 0

Fault == faults < MaxFaults /\ faults' = faults + 1

-----------------------------------------------------------------------------
(* Processes.                                                              *)

Spawn(p, c) ==
    /\ ~Alive(p)
    /\ proc' = [proc EXCEPT ![p] = "boot"]
    /\ by' = [by EXCEPT ![p] = c]
    /\ UNCHANGED <<listening, busy, kids, todo, jammed, timer, overrun>>

\* The process is gone: its port is free, and its children, which get
\* Pdeathsig, go with it.
Gone(p) ==
    /\ proc' = [proc EXCEPT ![p] = "gone"]
    /\ by' = [by EXCEPT ![p] = None]
    /\ listening' = IF listening = p THEN None ELSE listening
    /\ busy' = [busy EXCEPT ![p] = FALSE]
    /\ overrun' = [overrun EXCEPT ![p] = FALSE]
    /\ kids' = [kids EXCEPT ![p] = 0]
    /\ todo' = [todo EXCEPT ![p] = 0]
    /\ jammed' = [jammed EXCEPT ![p] = FALSE]
    /\ timer' = [timer EXCEPT ![p] = 0]

\* systemd sees its main process exit: Restart=on-failure.
Noticed(p, failure) ==
    unit' = IF unit.pid # p THEN unit
            ELSE [pc |-> IF unit.pc = "restart" THEN "restart" ELSE IF failure THEN "failed" ELSE "off",
                  pid |-> None]

\* Where SIGTERM has its default action, and ends the process: in another
\* program, before NotifyContext, and once the deferred stop of cmdServe has
\* run, which it does before the deferred cleanup.
Defaulted == {"boot", "cleanup", "other"}

\* SIGTERM: the first one a daemon that serves is told of begins httpSrv.Shutdown,
\* which closes the port; those during that wait do nothing.
Terminate(p) ==
    CASE proc[p] = "serve" ->
            /\ proc' = [proc EXCEPT ![p] = "http"]
            /\ timer' = [timer EXCEPT ![p] = HttpTicks]
            /\ listening' = None
            /\ UNCHANGED <<by, busy, kids, todo, jammed, overrun>>
      [] proc[p] \in Defaulted -> Gone(p)
      [] OTHER -> UNCHANGED daemonVars

\* Another program is given the number of a process that is gone; there are
\* always numbers left.
OtherTakes(p) ==
    /\ proc[p] = "gone" /\ \E q \in Pids \ {p} : ~Alive(q)
    /\ proc' = [proc EXCEPT ![p] = "other"]
    /\ UNCHANGED <<by, listening, busy, kids, todo, jammed, timer, overrun, pidFile, start, stop, unit, faults>>
OtherExits(p) ==
    /\ proc[p] = "other" /\ Gone(p)
    /\ UNCHANGED <<pidFile, start, stop, unit, faults>>

Kill(p) ==
    /\ p \in Daemons /\ Fault
    /\ Gone(p) /\ Noticed(p, TRUE)
    /\ UNCHANGED <<pidFile, start, stop>>

-----------------------------------------------------------------------------
(* cmdServe.                                                               *)

\* Configuration, buildDeps or server.New fails.
BootFails(p) ==
    /\ proc[p] = "boot" /\ Fault
    /\ Gone(p) /\ Noticed(p, TRUE)
    /\ UNCHANGED <<pidFile, start, stop>>

\* ListenAndServe: the address is free, or errc ends the daemon.
Listen(p) ==
    /\ proc[p] = "boot"
    /\ IF listening = None
       THEN /\ proc' = [proc EXCEPT ![p] = "serve"]
            /\ listening' = p
            /\ UNCHANGED <<by, busy, kids, todo, jammed, timer, overrun, unit>>
       ELSE Gone(p) /\ Noticed(p, TRUE)
    /\ UNCHANGED <<pidFile, start, stop, faults>>

Request(p) ==
    /\ proc[p] = "serve" /\ ~busy[p]
    /\ busy' = [busy EXCEPT ![p] = TRUE]
    /\ UNCHANGED <<proc, by, listening, kids, todo, jammed, timer, overrun, pidFile, start, stop, unit, faults>>

\* The request is answered, or the client of the event stream leaves.
RequestEnds(p) ==
    /\ busy[p]
    /\ busy' = [busy EXCEPT ![p] = FALSE]
    /\ UNCHANGED <<proc, by, listening, kids, todo, jammed, timer, overrun, pidFile, start, stop, unit, faults>>

\* A load, which is a request, starts a child.
ChildStarts(p) ==
    /\ busy[p] /\ kids[p] < MaxKids
    /\ kids' = [kids EXCEPT ![p] = @ + 1]
    /\ UNCHANGED <<proc, by, listening, busy, todo, jammed, timer, overrun, pidFile, start, stop, unit, faults>>

\* A line over the scanner's buffer: the child's Wait will not return.
ChildJams(p) ==
    /\ kids[p] > 0 /\ ~jammed[p] /\ Fault
    /\ jammed' = [jammed EXCEPT ![p] = TRUE]
    /\ UNCHANGED <<proc, by, listening, busy, kids, todo, timer, overrun, pidFile, start, stop, unit>>

\* The children whose Wait returns once they have exited.
Loose(p) == kids[p] - (IF jammed[p] THEN 1 ELSE 0)

\* A child exits by itself, listed by Shutdown or not.
ChildExits(p) ==
    /\ Loose(p) > 0
    /\ kids' = [kids EXCEPT ![p] = @ - 1]
    /\ \E n \in {todo[p], todo[p] - 1} : n \in 0 .. kids[p] - 1 /\ todo' = [todo EXCEPT ![p] = n]
    /\ UNCHANGED <<proc, by, listening, busy, jammed, timer, overrun, pidFile, start, stop, unit, faults>>

\* Mutants: Shutdown's context has no deadline; the deferred cleanup is missing.
HttpDoneWaiting(p) ==
    /\ proc[p] = "http" /\ ~busy[p]
    /\ proc' = [proc EXCEPT ![p] = "cleanup"]
    /\ todo' = [todo EXCEPT ![p] = kids[p]]
    /\ timer' = [timer EXCEPT ![p] = KillTicks]
    /\ UNCHANGED <<by, listening, busy, kids, jammed, overrun, pidFile, start, stop, unit, faults>>
HttpDoneNoCleanup(p) ==
    /\ proc[p] = "http"
    /\ ~busy[p] \/ timer[p] = 0
    /\ proc' = [proc EXCEPT ![p] = "cleanup"]
    /\ overrun' = [overrun EXCEPT ![p] = busy[p]]
    /\ UNCHANGED <<by, listening, busy, kids, todo, jammed, timer, pidFile, start, stop, unit, faults>>

\* httpSrv.Shutdown returns when no request is left or after ten seconds, and
\* the deferred cleanup lists the instances.
HttpDone(p) ==
    /\ proc[p] = "http"
    /\ ~busy[p] \/ timer[p] = 0
    /\ proc' = [proc EXCEPT ![p] = "cleanup"]
    /\ overrun' = [overrun EXCEPT ![p] = busy[p]]
    /\ todo' = [todo EXCEPT ![p] = kids[p]]
    /\ timer' = [timer EXCEPT ![p] = KillTicks]
    /\ UNCHANGED <<by, listening, busy, kids, jammed, pidFile, start, stop, unit, faults>>

\* One Unload of sup.Shutdown: the child exits on the interrupt, or is killed
\* when its time is over, and its Wait returns.
CleanupChild(p) ==
    /\ proc[p] = "cleanup" /\ todo[p] > 0 /\ Loose(p) > 0
    /\ todo' = [todo EXCEPT ![p] = @ - 1]
    /\ kids' = [kids EXCEPT ![p] = @ - 1]
    /\ timer' = [timer EXCEPT ![p] = KillTicks]
    /\ UNCHANGED <<proc, by, listening, busy, jammed, overrun, pidFile, start, stop, unit, faults>>

\* Shutdown's error, if any, is the daemon's.
Exit(p) ==
    /\ proc[p] = "cleanup" /\ todo[p] = 0
    /\ Gone(p) /\ Noticed(p, overrun[p])
    /\ UNCHANGED <<pidFile, start, stop, faults>>

DaemonStep(p) == Listen(p) \/ HttpDone(p) \/ Exit(p)
-----------------------------------------------------------------------------
(* runtimeforge start and stop, each a process of its own.                 *)

StartBusy(c) == start[c].pc \in {"spawn", "create", "write"}
StopBusy(c)  == stop[c].pc \in {"signal", "poll", "remove", "clear"}
MayRun       == Concurrent \/ /\ \A c \in Starts : ~StartBusy(c)
                              /\ \A c \in Stops : ~StopBusy(c)

StopOver(how) == [pc |-> how, pid |-> None, left |-> 0]

\* readPID and processAlive.
FileAlive == pidFile # None /\ Alive(pidFile)

\* Mutant: start looks for no daemon.
StartCheckNothing(c) ==
    /\ start[c].pc = "idle" /\ MayRun
    /\ start' = [start EXCEPT ![c].pc = "spawn"]
    /\ UNCHANGED <<daemonVars, pidFile, stop, unit, faults>>

StartCheck(c) ==
    /\ start[c].pc = "idle" /\ MayRun
    /\ start' = [start EXCEPT ![c].pc = IF FileAlive THEN "refused" ELSE "spawn"]
    /\ UNCHANGED <<daemonVars, pidFile, stop, unit, faults>>

StartSpawn(c, p) ==
    /\ start[c].pc = "spawn"
    /\ Spawn(p, c)
    /\ start' = [start EXCEPT ![c] = [pc |-> "create", pid |-> p]]
    /\ UNCHANGED <<pidFile, stop, unit, faults>>

\* os.WriteFile empties the file first, and may fail: the daemon runs on.
StartCreate(c) ==
    /\ start[c].pc = "create"
    /\ \/ /\ pidFile' = None
          /\ start' = [start EXCEPT ![c].pc = "write"]
          /\ UNCHANGED faults
       \/ /\ Fault
          /\ start' = [start EXCEPT ![c] = [pc |-> "failed", pid |-> None]]
          /\ UNCHANGED pidFile
    /\ UNCHANGED <<daemonVars, stop, unit>>

StartWrite(c) ==
    /\ start[c].pc = "write"
    /\ pidFile' = start[c].pid
    /\ start' = [start EXCEPT ![c] = [pc |-> "started", pid |-> None]]
    /\ UNCHANGED <<daemonVars, stop, unit, faults>>

StopRead(c) ==
    /\ stop[c].pc = "idle" /\ MayRun
    /\ stop' = [stop EXCEPT ![c] = [pc |-> IF FileAlive THEN "signal" ELSE "clear",
                                    pid |-> pidFile, left |-> 0]]
    /\ UNCHANGED <<daemonVars, pidFile, start, unit, faults>>

\* syscall.Kill fails when the process has gone since.
StopSignal(c) ==
    /\ stop[c].pc = "signal"
    /\ IF Alive(stop[c].pid)
       THEN /\ Terminate(stop[c].pid)
            /\ IF proc[stop[c].pid] \in Defaulted THEN Noticed(stop[c].pid, FALSE) ELSE UNCHANGED unit
            /\ stop' = [stop EXCEPT ![c].pc = "poll", ![c].left = StopTicks]
       ELSE /\ stop' = [stop EXCEPT ![c] = StopOver("failed")]
            /\ UNCHANGED <<daemonVars, unit>>
    /\ UNCHANGED <<pidFile, start, faults>>

\* Mutant: stop does not wait for the process to be gone.
StopPollAtOnce(c) ==
    /\ stop[c].pc = "poll"
    /\ stop' = [stop EXCEPT ![c].pc = "remove"]
    /\ UNCHANGED <<daemonVars, pidFile, start, unit, faults>>

StopPoll(c) ==
    /\ stop[c].pc = "poll" /\ ~Alive(stop[c].pid)
    /\ stop' = [stop EXCEPT ![c].pc = "remove"]
    /\ UNCHANGED <<daemonVars, pidFile, start, unit, faults>>

StopGivesUp(c) ==
    /\ stop[c].pc = "poll" /\ stop[c].left = 0
    /\ stop' = [stop EXCEPT ![c] = StopOver("gaveup")]
    /\ UNCHANGED <<daemonVars, pidFile, start, unit, faults>>

\* os.Remove, whatever the file names by now.
StopRemove(c) ==
    /\ stop[c].pc \in {"remove", "clear"}
    /\ pidFile' = None
    /\ stop' = [stop EXCEPT ![c] = StopOver(IF stop[c].pc = "remove" THEN "stopped" ELSE "notrunning")]
    /\ UNCHANGED <<daemonVars, start, unit, faults>>

StartStep(c) == StartCreate(c) \/ StartWrite(c) \/ \E p \in Pids : StartSpawn(c, p)
StopStep(c)  == StopSignal(c) \/ StopPoll(c) \/ StopGivesUp(c) \/ StopRemove(c)

-----------------------------------------------------------------------------
(* systemd.                                                                *)

\* systemctl --user start, and the start that ends a restart or follows a
\* failure.
UnitStart(p) ==
    /\ unit.pid = None
    /\ Spawn(p, None)
    /\ unit' = [pc |-> "on", pid |-> p]
    /\ UNCHANGED <<pidFile, start, stop, faults>>

\* systemdUnitName, for the process p: the environment of a service is
\* inherited, by the daemons that start makes too.
Managed(p) == p = unit.pid \/ InService

\* POST /system/restart of the daemon p, then the job it queues, which stops
\* the unit's process if there is one.
Restart(p) ==
    /\ proc[p] = "serve" /\ Managed(p) /\ unit.pc # "restart"
    /\ IF unit.pid = None
       THEN /\ unit' = [unit EXCEPT !.pc = "restart"]
            /\ UNCHANGED daemonVars
       ELSE /\ Terminate(unit.pid)
            /\ unit' = IF proc[unit.pid] \in Defaulted THEN [pc |-> "restart", pid |-> None]
                       ELSE [unit EXCEPT !.pc = "restart"]
    /\ UNCHANGED <<pidFile, start, stop, faults>>

\* A unit that does not stop in time is killed (TimeoutStopSec, ninety seconds).
StopTimeout(p) ==
    /\ unit = [pc |-> "restart", pid |-> p]
    /\ proc[p] = "cleanup" /\ timer[p] = 0 /\ jammed[p]
    /\ Gone(p) /\ Noticed(p, TRUE)
    /\ UNCHANGED <<pidFile, start, stop, faults>>

UnitAgain == unit.pc \in {"restart", "failed"} /\ \E p \in Pids : UnitStart(p)

-----------------------------------------------------------------------------
(* Time.                                                                   *)

Over(p) == \/ proc[p] = "http" /\ (~busy[p] \/ timer[p] = 0)
           \/ proc[p] = "cleanup" /\ (todo[p] = 0 \/ (timer[p] = 0 /\ Loose(p) > 0))

Polling(c) == stop[c].pc = "poll"

Tick ==
    /\ (\E p \in Pids : timer[p] > 0) \/ \E c \in Stops : Polling(c)
    /\ \A p \in Pids : ~Over(p)
    /\ \A c \in Stops : Polling(c) => stop[c].left > 0 /\ Alive(stop[c].pid)
    /\ timer' = [p \in Pids |-> IF timer[p] > 0 THEN timer[p] - 1 ELSE 0]
    /\ stop' = [c \in Stops |-> IF Polling(c) THEN [stop[c] EXCEPT !.left = @ - 1] ELSE stop[c]]
    /\ UNCHANGED <<proc, by, listening, busy, kids, todo, jammed, overrun, pidFile, start, unit, faults>>

-----------------------------------------------------------------------------
Next ==
    \/ \E p \in Pids : \/ DaemonStep(p) \/ BootFails(p) \/ Kill(p)
                       \/ Request(p) \/ RequestEnds(p)
                       \/ ChildStarts(p) \/ ChildExits(p) \/ ChildJams(p) \/ CleanupChild(p)
                       \/ OtherTakes(p) \/ OtherExits(p)
                       \/ UnitStart(p) \/ Restart(p) \/ StopTimeout(p)
    \/ \E c \in Starts : StartCheck(c) \/ StartStep(c)
    \/ \E c \in Stops : StopRead(c) \/ StopStep(c)
    \/ Tick

SafetySpec == Init /\ [][Next]_vars

\* Processes and commands run, the clock goes on, a child that is killed is
\* gone, and systemd does what its unit says.
Fairness ==
    /\ \A p \in Pids : /\ WF_vars(DaemonStep(p)) /\ WF_vars(timer[p] = 0 /\ CleanupChild(p))
                       /\ WF_vars(StopTimeout(p))
    /\ \A c \in Starts : WF_vars(StartStep(c))
    /\ \A c \in Stops : WF_vars(StopStep(c))
    /\ WF_vars(UnitAgain) /\ SF_vars(Tick)

Spec == SafetySpec /\ Fairness

-----------------------------------------------------------------------------
(* Properties.                                                             *)

Started(p) == p \in Daemons /\ by[p] # None /\ start[by[p]].pc = "started"

\* With commands given one after the other, a daemon that start reported stays
\* the one the file names, whatever numbers are given again, other daemons
\* come and go, stops give up and writes fail (service.go 42-107).
StartedIsNamed == \A p \in Pids : Started(p) => pidFile = p

\* When stop says that the daemon has stopped, or that none is running, no
\* daemon of a start that reported one is running (88-103).
StopIsTrue ==
    [][\A c \in Stops : stop[c].pc \in {"remove", "clear"} /\ stop'[c].pc \in StopDone
                           => \A p \in Pids : ~Started(p)]_vars

\* stop gives up on the daemon of a start only when it has come to its
\* cleanup: the ten seconds for requests are inside stop's fifteen, however
\* long the streams stay open (service.go 97, main.go:807).
GivesUpForCause ==
    [][\A c \in Stops : LET p == stop[c].pid IN
          stop[c].pc = "poll" /\ stop'[c].pc = "gaveup" /\ p \in Daemons /\ by[p] # None
             => proc[p] = "cleanup"]_vars

\* The step sends the process p a SIGTERM, of a stop or of systemd.
Signalled(p) ==
    \/ \E c \in Stops : stop[c].pc = "signal" /\ stop'[c].pc = "poll" /\ stop[c].pid = p
    \/ unit.pid = p /\ unit.pc # "restart" /\ unit'.pc = "restart"

\* A daemon that ends by itself, by no signal during its cleanup, has waited
\* for every child to end, unless a request outlived the ten seconds, which may
\* then load another, or a jammed child made systemd kill it (main.go 768,
\* 783, 805-809).
OrderlyExit ==
    [][\A p \in Pids :
          proc[p] = "cleanup" /\ proc'[p] = "gone" /\ faults' = faults /\ ~Signalled(p)
             => kids[p] = 0 \/ overrun[p] \/ jammed[p]]_vars

\* Every shutdown ends, whatever streams stay open and children ignore, unless
\* a log pipe is jammed (main.go 805-809, supervisor.go 338-364).
ShutdownEnds == \A p \in Pids : proc[p] \in {"http", "cleanup"} ~> proc[p] = "gone" \/ jammed[p]

\* A restart from the API ends with a daemon that serves, whatever happens to
\* the processes, unless a stop is given (server.go 191-214).
RestartServes ==
    unit.pc = "restart" ~> listening # None \/ \E c \in Stops : stop[c].pc # "idle"

-----------------------------------------------------------------------------
(* Claims the code does not keep.                                          *)

\* start says that RuntimeForge is already running (service.go:49) only when
\* it is.
RefusedForCause ==
    [][\A c \in Starts : start[c].pc = "idle" /\ start'[c].pc = "refused" => Daemons # {}]_vars

\* stop terminates a daemon started with start (service.go:81).
StopSucceeds == \A c \in Stops : stop[c].pc # "gaveup"

\* A daemon that begins its cleanup in time stops its children itself and waits
\* for them (SPEC.md:301): a second SIGTERM leaves them to Pdeathsig.
CleanupIsDone ==
    [][\A p \in Pids :
          proc[p] = "cleanup" /\ proc'[p] = "gone" /\ faults' = faults /\ ~overrun[p] /\ ~jammed[p]
             => kids[p] = 0]_vars

\* A restart is refused when the daemon is not managed by systemd
\* (service.go:150).
RestartsItself == [][unit.pc # "restart" /\ unit'.pc = "restart" => unit.pid # None]_vars
=============================================================================

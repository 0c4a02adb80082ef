---------------------------- MODULE DaemonProofs ----------------------------
(***************************************************************************)
(* For any process numbers, children, faults and units: an exit leaves no  *)
(* child but by a signal during the cleanup, a request that outlived its   *)
(* time or a jammed child, whichever commands overlap; and where start and *)
(* stop commands are given one after the other, what the PID file names    *)
(* and what the commands say is true, and stop gives up for cause only.    *)
(***************************************************************************)
EXTENDS Daemon, TLAPS

\* Each start command makes one daemon at most, and has its number until it
\* has written it.
Births ==
    /\ \A p \in Pids : by[p] # None => start[by[p]].pc \in {"create", "write", "started", "failed"}
    /\ \A p \in Pids : by[p] # None /\ start[by[p]].pc \in {"create", "write"} => start[by[p]].pid = p
    /\ \A p, q \in Pids : by[p] # None /\ by[p] = by[q] => p = q
    /\ \A c \in Starts : start[c].pc \in {"create", "write"} => start[c].pid \in Pids

\* What a stop signals and waits for is a process number the file has named.
Targets == \A c \in Stops : stop[c].pc \in {"signal", "poll"} => stop[c].pid \in Pids

\* Once the requests are over, Shutdown's list is the children there are.
Tidy == \A p \in Pids : proc[p] = "cleanup" /\ ~overrun[p] => ~busy[p] /\ todo[p] = kids[p]

\* One command at a time.
OneCommand ==
    /\ \A c, d \in Starts : StartBusy(c) /\ StartBusy(d) => c = d
    /\ \A c, d \in Stops : StopBusy(c) /\ StopBusy(d) => c = d
    /\ \A c \in Starts, d \in Stops : ~(StartBusy(c) /\ StopBusy(d))

\* A start goes on when no start's daemon runs, and a stop from its last
\* question on; until then, only the one it has read of.
Alone ==
    /\ \A c \in Starts : StartBusy(c) => \A p \in Pids : ~Started(p)
    /\ \A c \in Stops : stop[c].pc \in {"remove", "clear"} => \A p \in Pids : ~Started(p)
    /\ \A c \in Stops : stop[c].pc \in {"signal", "poll"}
                          => \A p \in Pids : Started(p) => p = stop[c].pid

\* While a stop polls, what the daemon still has of its ten seconds is less
\* than what the stop has of its fifteen.
InTime ==
    \A c \in Stops : LET p == stop[c].pid IN
        stop[c].pc = "poll" /\ p \in Daemons /\ by[p] # None
           => proc[p] = "cleanup" \/ (proc[p] = "http" /\ timer[p] < stop[c].left)

CommandsInv == OneCommand /\ Alone /\ InTime /\ StartedIsNamed

IInv == TypeOK /\ Births /\ Targets /\ Tidy /\ (~Concurrent => CommandsInv)

-----------------------------------------------------------------------------
(* What the steps do.                                                      *)

\* A daemon of a start command that runs after a step ran before it, and goes
\* on from http and cleanup to cleanup, with the ticks it had.
Onward ==
    \A p \in Pids : by'[p] # None
        => /\ by'[p] = by[p]
           /\ p \in Daemons' => p \in Daemons
           /\ p \in Daemons' /\ proc[p] = "cleanup" => proc'[p] = "cleanup"
           /\ p \in Daemons' /\ proc[p] = "http"
                 => proc'[p] = "cleanup" \/ (proc'[p] = "http" /\ timer'[p] = timer[p])

LEMMA GoneOnward ==
    ASSUME TypeOK, NEW p \in Pids, Gone(p)
    PROVE  Onward
BY DaemonAssumption DEF TypeOK, Gone, Onward, Daemons, Running

LEMMA TerminateOnward ==
    ASSUME TypeOK, NEW p \in Pids, Terminate(p)
    PROVE  Onward
<1>1. CASE proc[p] = "serve"
  BY <1>1, DaemonAssumption DEF TypeOK, Terminate, Defaulted, Onward, Daemons, Running
<1>2. CASE proc[p] \in Defaulted
  BY <1>2, GoneOnward DEF Terminate, Defaulted
<1>3. CASE proc[p] \notin {"serve"} \cup Defaulted
  BY <1>3 DEF Terminate, Defaulted, daemonVars, Onward, Daemons
<1> QED  BY <1>1, <1>2, <1>3

LEMMA StopOnward ==
    ASSUME TypeOK, Targets, NEW c \in Stops, StopRead(c) \/ StopStep(c)
    PROVE  Onward
<1>1. CASE StopSignal(c)
  BY <1>1, TerminateOnward DEF StopSignal, Targets, daemonVars, Onward, Daemons
<1>2. CASE StopRead(c) \/ StopPoll(c) \/ StopGivesUp(c) \/ StopRemove(c)
  BY <1>2 DEF StopRead, StopPoll, StopGivesUp, StopRemove, daemonVars, Onward, Daemons
<1> QED  BY <1>1, <1>2 DEF StopStep

\* What the world does to the daemons: every step but those of the commands
\* and of the clock.
World(p) ==
    \/ DaemonStep(p) \/ BootFails(p) \/ Kill(p) \/ Request(p) \/ RequestEnds(p)
    \/ ChildStarts(p) \/ ChildExits(p) \/ ChildJams(p) \/ CleanupChild(p)
    \/ OtherTakes(p) \/ OtherExits(p) \/ UnitStart(p) \/ Restart(p) \/ StopTimeout(p)

LEMMA WorldStep ==
    ASSUME TypeOK, NEW p \in Pids, World(p)
    PROVE  Onward /\ UNCHANGED <<pidFile, start, stop>>
<1>1. CASE OtherExits(p) \/ Kill(p) \/ BootFails(p) \/ Exit(p) \/ StopTimeout(p)
  BY <1>1, GoneOnward DEF OtherExits, Kill, BootFails, Exit, StopTimeout
<1>2. CASE Listen(p)
  <2>1. CASE listening = None
    BY <1>2, <2>1, DaemonAssumption DEF Listen, TypeOK, Onward, Daemons, Running
  <2> QED  BY <1>2, <2>1, GoneOnward DEF Listen
<1>3. CASE UnitStart(p)
  BY <1>3, DaemonAssumption DEF UnitStart, Spawn, TypeOK, Onward, Daemons, Running
<1>4. CASE Restart(p)
  <2>1. CASE unit.pid = None
    BY <1>4, <2>1 DEF Restart, daemonVars, Onward, Daemons
  <2>2. CASE unit.pid # None
    BY <1>4, <2>2, TerminateOnward DEF Restart, TypeOK
  <2> QED  BY <2>1, <2>2
<1>5. CASE OtherTakes(p)
  BY <1>5, DaemonAssumption DEF OtherTakes, TypeOK, Onward, Daemons, Running
<1>6. CASE Request(p) \/ RequestEnds(p) \/ ChildStarts(p) \/ ChildExits(p) \/ ChildJams(p)
  BY <1>6 DEF Request, RequestEnds, ChildStarts, ChildExits, ChildJams, TypeOK, Onward, Daemons
<1>7. CASE HttpDone(p) \/ CleanupChild(p)
  BY <1>7, DaemonAssumption DEF HttpDone, CleanupChild, TypeOK, Onward, Daemons, Running
<1> QED
  BY <1>1, <1>2, <1>3, <1>4, <1>5, <1>6, <1>7 DEF World, DaemonStep

-----------------------------------------------------------------------------
(* Types.                                                                  *)

StopStates == [Stops -> [pc : {"idle", "signal", "poll", "remove", "clear"} \cup StopDone,
                         pid : Pids \cup {None}, left : 0 .. StopTicks]]
UnitStates == [pc : {"off", "on", "restart", "failed"}, pid : Pids \cup {None}]

LEMMA GoneType ==
    ASSUME TypeOK, NEW p \in Pids, Gone(p), UNCHANGED <<pidFile, start>>,
           stop' \in StopStates,
           unit' \in UnitStates,
           faults' \in 0 .. MaxFaults
    PROVE  TypeOK'
BY DaemonAssumption DEF TypeOK, StopStates, UnitStates, Gone, HttpTicks

LEMMA NoticedType ==
    ASSUME TypeOK, NEW p \in Pids, NEW failure \in BOOLEAN, Noticed(p, failure)
    PROVE  unit' \in UnitStates
BY DEF TypeOK, UnitStates, Noticed

LEMMA TerminateType ==
    ASSUME TypeOK, NEW p \in Pids, Terminate(p), UNCHANGED <<pidFile, start, faults>>,
           stop' \in StopStates,
           unit' \in UnitStates
    PROVE  TypeOK'
<1>1. CASE proc[p] = "serve"
  <2>1. /\ proc' = [proc EXCEPT ![p] = "http"] /\ timer' = [timer EXCEPT ![p] = HttpTicks]
        /\ listening' = None /\ UNCHANGED <<by, busy, kids, todo, jammed, overrun>>
    BY <1>1 DEF Terminate, Defaulted
  <2> QED  BY <2>1 DEF TypeOK, StopStates, UnitStates, HttpTicks, Running
<1>2. CASE proc[p] \in Defaulted
  <2>1. faults' \in 0 .. MaxFaults
    BY DEF TypeOK
  <2> QED  BY <1>2, <2>1, GoneType DEF Terminate, Defaulted
<1>3. CASE proc[p] \notin {"serve"} \cup Defaulted
  BY <1>3 DEF Terminate, Defaulted, daemonVars, TypeOK, StopStates, UnitStates
<1> QED  BY <1>1, <1>2, <1>3

LEMMA WorldType ==
    ASSUME TypeOK, NEW p \in Pids, World(p)
    PROVE  TypeOK'
<1> USE DaemonAssumption
<1>a. stop \in StopStates /\ unit \in UnitStates /\ faults \in 0 .. MaxFaults
  BY DEF TypeOK, StopStates, UnitStates
<1>1. CASE OtherExits(p)
  BY <1>1, <1>a, GoneType DEF OtherExits
<1>2. CASE Kill(p) \/ BootFails(p)
  <2>1. faults' \in 0 .. MaxFaults
    <3>1. faults < MaxFaults /\ faults' = faults + 1
      BY <1>2 DEF Kill, BootFails, Fault
    <3> QED  BY <3>1, <1>a
  <2>2. Gone(p) /\ Noticed(p, TRUE) /\ UNCHANGED <<pidFile, start, stop>>
    BY <1>2 DEF Kill, BootFails
  <2>3. unit' \in UnitStates
    BY <2>2, NoticedType
  <2>4. stop' \in StopStates
    BY <2>2, <1>a
  <2> QED  BY <2>1, <2>2, <2>3, <2>4, GoneType
<1>3. CASE Exit(p)
  <2>1. overrun[p] \in BOOLEAN
    BY DEF TypeOK
  <2> QED  BY <1>3, <2>1, <1>a, GoneType, NoticedType DEF Exit
<1>4. CASE StopTimeout(p)
  BY <1>4, <1>a, GoneType, NoticedType DEF StopTimeout
<1>5. CASE Listen(p)
  <2>1. CASE listening = None
    BY <1>5, <2>1 DEF Listen, TypeOK, Running
  <2>2. CASE listening # None
    BY <1>5, <2>2, <1>a, GoneType, NoticedType DEF Listen
  <2> QED  BY <2>1, <2>2
<1>6. CASE UnitStart(p)
  BY <1>6 DEF UnitStart, Spawn, TypeOK, Running
<1>7. CASE Restart(p)
  <2>1. unit' \in UnitStates
    BY <1>7 DEF Restart, TypeOK, UnitStates
  <2>2. CASE unit.pid = None
    BY <1>7, <2>1, <2>2 DEF Restart, daemonVars, TypeOK, UnitStates
  <2>3. CASE unit.pid # None
    <3>1. unit.pid \in Pids
      BY <2>3 DEF TypeOK
    <3> QED  BY <1>7, <2>1, <2>3, <3>1, <1>a, TerminateType DEF Restart
  <2> QED  BY <2>2, <2>3
<1>8. CASE OtherTakes(p)
  BY <1>8 DEF OtherTakes, TypeOK
<1>9. CASE Request(p) \/ RequestEnds(p)
  BY <1>9 DEF Request, RequestEnds, TypeOK
<1>14. CASE ChildStarts(p)
  BY <1>14 DEF ChildStarts, TypeOK
<1>10. CASE ChildJams(p)
  BY <1>10 DEF ChildJams, Fault, TypeOK
<1>11. CASE ChildExits(p)
  BY <1>11 DEF ChildExits, Loose, TypeOK
<1>12. CASE HttpDone(p)
  BY <1>12 DEF HttpDone, TypeOK, Running, HttpTicks, KillTicks
<1>13. CASE CleanupChild(p)
  BY <1>13 DEF CleanupChild, Loose, TypeOK, HttpTicks, KillTicks
<1> QED
  BY <1>1, <1>2, <1>3, <1>4, <1>5, <1>6, <1>7, <1>8, <1>9, <1>10, <1>11, <1>12, <1>13, <1>14 DEF World, DaemonStep

LEMMA StartType ==
    ASSUME TypeOK, Births, NEW c \in Starts, StartCheck(c) \/ StartStep(c)
    PROVE  TypeOK'
<1> USE DaemonAssumption
<1>1. CASE StartCheck(c)
  BY <1>1 DEF StartCheck, daemonVars, TypeOK, StartDone
<1>2. ASSUME NEW p \in Pids, StartSpawn(c, p) PROVE TypeOK'
  BY <1>2 DEF StartSpawn, Spawn, TypeOK, Running
<1>3. CASE StartCreate(c)
  <2>1. start' \in [Starts -> [pc : {"idle", "spawn", "create", "write"} \cup StartDone,
                               pid : Pids \cup {None}]]
    <3>1. start \in [Starts -> [pc : {"idle", "spawn", "create", "write"} \cup StartDone,
                                pid : Pids \cup {None}]]
      BY DEF TypeOK
    <3>2. \/ start' = [start EXCEPT ![c].pc = "write"]
          \/ start' = [start EXCEPT ![c] = [pc |-> "failed", pid |-> None]]
      BY <1>3 DEF StartCreate
    <3> QED  BY <3>1, <3>2 DEF StartDone
  <2>2. pidFile' \in Pids \cup {None} /\ faults' \in 0 .. MaxFaults
    BY <1>3 DEF StartCreate, Fault, TypeOK
  <2> QED  BY <1>3, <2>1, <2>2 DEF StartCreate, daemonVars, TypeOK
<1>4. CASE StartWrite(c)
  BY <1>4 DEF StartWrite, daemonVars, TypeOK, StartDone
<1> QED  BY <1>1, <1>2, <1>3, <1>4 DEF StartStep

LEMMA StopType ==
    ASSUME TypeOK, Targets, NEW c \in Stops, StopRead(c) \/ StopStep(c)
    PROVE  TypeOK'
<1> USE DaemonAssumption
<1>a. stop \in StopStates
  BY DEF TypeOK, StopStates
<1>1. CASE StopRead(c)
  BY <1>1 DEF StopRead, daemonVars, TypeOK, StopTicks
<1>2. CASE StopSignal(c)
  <2>1. stop[c].pid \in Pids
    BY <1>2 DEF StopSignal, Targets
  <2>2. stop' \in StopStates
    <3>1. CASE Alive(stop[c].pid)
      <4>1. stop' = [stop EXCEPT ![c].pc = "poll", ![c].left = StopTicks]
        BY <1>2, <3>1 DEF StopSignal
      <4>2. /\ stop' = [d \in DOMAIN stop |-> IF d = c THEN stop'[c] ELSE stop[d]]
            /\ stop'[c] = [pc |-> "poll", pid |-> stop[c].pid, left |-> StopTicks]
        BY <1>a, <4>1 DEF StopStates
      <4>3. stop'[c] \in [pc : {"idle", "signal", "poll", "remove", "clear"} \cup StopDone,
                           pid : Pids \cup {None}, left : 0 .. StopTicks]
        BY <2>1, <4>2 DEF StopTicks
      <4> QED  BY <1>a, <4>2, <4>3 DEF StopStates
    <3>2. CASE ~Alive(stop[c].pid)
      <4>1. stop' = [stop EXCEPT ![c] = StopOver("failed")]
        BY <1>2, <3>2 DEF StopSignal
      <4> QED  BY <1>a, <4>1 DEF StopOver, StopDone, StopTicks, StopStates
    <3> QED  BY <3>1, <3>2
  <2>3. unit' \in UnitStates
    BY <1>2, <2>1, NoticedType DEF StopSignal, TypeOK, UnitStates
  <2>4. CASE Alive(stop[c].pid)
    <3>1. faults \in 0 .. MaxFaults /\ UNCHANGED faults
      BY <1>2 DEF StopSignal, TypeOK
    <3> QED  BY <1>2, <2>1, <2>2, <2>3, <2>4, <3>1, TerminateType DEF StopSignal
  <2>5. CASE ~Alive(stop[c].pid)
    BY <1>2, <2>2, <2>3, <2>5 DEF StopSignal, daemonVars, TypeOK, StopStates, UnitStates
  <2> QED  BY <2>4, <2>5
<1>3. CASE StopPoll(c) \/ StopGivesUp(c) \/ StopRemove(c)
  BY <1>3 DEF StopPoll, StopGivesUp, StopRemove, StopOver, StopDone, daemonVars, TypeOK, StopTicks
<1> QED  BY <1>1, <1>2, <1>3 DEF StopStep

LEMMA TickType ==
    ASSUME TypeOK, Tick
    PROVE  TypeOK'
BY DaemonAssumption DEF TypeOK, Tick, Polling, HttpTicks, StopTicks

LEMMA TypeStep ==
    ASSUME TypeOK, Births, Targets, [Next]_vars
    PROVE  TypeOK'
<1>1. CASE UNCHANGED vars
  BY <1>1 DEF vars, daemonVars, TypeOK
<1>2. CASE Next
  BY <1>2, WorldType, StartType, StopType, TickType DEF Next, World
<1> QED  BY <1>1, <1>2

-----------------------------------------------------------------------------
(* What no overlap of commands disturbs.                                   *)

LEMMA BirthsStep ==
    ASSUME TypeOK, Births, Targets, [Next]_vars
    PROVE  Births'
<1> USE DaemonAssumption
<1>1. ASSUME UNCHANGED start, Onward PROVE Births'
  BY <1>1 DEF Births, Onward
<1>2. ASSUME NEW p \in Pids, World(p) PROVE Births'
  BY <1>1, <1>2, WorldStep
<1>3. ASSUME NEW c \in Stops, StopRead(c) \/ StopStep(c) PROVE Births'
  <2>1. Onward
    BY <1>3, StopOnward
  <2>2. UNCHANGED start
    BY <1>3 DEF StopStep, StopRead, StopSignal, StopPoll, StopGivesUp, StopRemove
  <2> QED  BY <1>1, <2>1, <2>2
<1>4. ASSUME NEW c \in Starts, StartCheck(c) PROVE Births'
  BY <1>4 DEF StartCheck, daemonVars, Births, TypeOK
<1>5. ASSUME NEW c \in Starts, NEW p \in Pids, StartSpawn(c, p) PROVE Births'
  BY <1>5 DEF StartSpawn, Spawn, Births, TypeOK
<1>6. ASSUME NEW c \in Starts, StartCreate(c) \/ StartWrite(c) PROVE Births'
  <2>1. UNCHANGED by /\ \A d \in Starts \ {c} : start'[d] = start[d]
    BY <1>6 DEF StartCreate, StartWrite, daemonVars, TypeOK
  <2>2. /\ start[c].pc \in {"create", "write"} /\ start'[c].pc \in {"write", "failed", "started"}
        /\ start'[c].pc = "write" => start'[c].pid = start[c].pid
    BY <1>6 DEF StartCreate, StartWrite, TypeOK
  <2>3. \A p \in Pids : by[p] # None => by[p] \in Starts
    BY DEF TypeOK
  <2> QED  BY <2>1, <2>2, <2>3 DEF Births
<1>7. CASE Tick \/ UNCHANGED vars
  BY <1>7 DEF Tick, vars, daemonVars, Births
<1> QED
  BY <1>2, <1>3, <1>4, <1>5, <1>6, <1>7 DEF Next, World, StartStep

LEMMA TargetsStep ==
    ASSUME TypeOK, Targets, [Next]_vars
    PROVE  Targets'
<1>1. ASSUME NEW p \in Pids, World(p) PROVE Targets'
  BY <1>1, WorldStep DEF Targets
<1>2. ASSUME NEW c \in Stops, StopRead(c) PROVE Targets'
  BY <1>2 DEF StopRead, FileAlive, TypeOK, Targets
<1>3. ASSUME NEW c \in Stops, StopSignal(c) PROVE Targets'
  <2>1. CASE Alive(stop[c].pid)
    BY <1>3, <2>1 DEF StopSignal, TypeOK, Targets
  <2>2. CASE ~Alive(stop[c].pid)
    BY <1>3, <2>2 DEF StopSignal, StopOver, TypeOK, Targets
  <2> QED  BY <2>1, <2>2
<1>4. ASSUME NEW c \in Stops, StopPoll(c) PROVE Targets'
  BY <1>4 DEF StopPoll, TypeOK, Targets
<1>8. ASSUME NEW c \in Stops, StopGivesUp(c) PROVE Targets'
  BY <1>8 DEF StopGivesUp, StopOver, TypeOK, Targets
<1>9. ASSUME NEW c \in Stops, StopRemove(c) PROVE Targets'
  BY <1>9 DEF StopRemove, StopOver, TypeOK, Targets
<1>5. CASE Tick
  BY <1>5 DEF Tick, TypeOK, Targets
<1>6. ASSUME NEW c \in Starts, StartCheck(c) \/ StartStep(c) PROVE Targets'
  BY <1>6 DEF StartCheck, StartStep, StartCreate, StartWrite, StartSpawn, Targets
<1>7. CASE UNCHANGED vars
  BY <1>7 DEF vars, Targets
<1> QED
  BY <1>1, <1>2, <1>3, <1>4, <1>5, <1>6, <1>7, <1>8, <1>9 DEF Next, World, StopStep

\* Nothing begins in cleanup, and what has begun before is over or an overrun.
LEMMA TidyStep ==
    ASSUME TypeOK, Targets, Tidy, [Next]_vars
    PROVE  Tidy'
<1> USE DaemonAssumption
<1>1. ASSUME NEW p \in Pids, Gone(p) PROVE Tidy'
  BY <1>1 DEF Gone, Tidy, TypeOK
<1>2. ASSUME NEW p \in Pids, Terminate(p) PROVE Tidy'
  <2>1. CASE proc[p] = "serve"
    BY <2>1, <1>2 DEF Terminate, Defaulted, Tidy, TypeOK
  <2>2. CASE proc[p] \in Defaulted
    BY <2>2, <1>2, <1>1 DEF Terminate, Defaulted
  <2>3. CASE proc[p] \notin {"serve"} \cup Defaulted
    BY <2>3, <1>2 DEF Terminate, Tidy, daemonVars
  <2> QED  BY <2>1, <2>2, <2>3
<1>3. ASSUME NEW p \in Pids, NEW c, Spawn(p, c) PROVE Tidy'
  BY <1>3 DEF Spawn, Tidy, TypeOK
<1>4. CASE UNCHANGED <<proc, busy, kids, todo, overrun>>
  BY <1>4 DEF Tidy
<1>5. ASSUME NEW p \in Pids, OtherExits(p) \/ Kill(p) \/ BootFails(p) \/ Exit(p) \/ StopTimeout(p)
      PROVE  Tidy'
  BY <1>1, <1>5 DEF OtherExits, Kill, BootFails, Exit, StopTimeout
<1>6. ASSUME NEW p \in Pids, Listen(p) PROVE Tidy'
  BY <1>1, <1>6 DEF Listen, Tidy, TypeOK
<1>7. ASSUME NEW p \in Pids, Restart(p) PROVE Tidy'
  <2>1. CASE unit.pid = None
    BY <1>7, <2>1, <1>4 DEF Restart, daemonVars
  <2>2. CASE unit.pid # None
    BY <1>7, <2>2, <1>2 DEF Restart, TypeOK
  <2> QED  BY <2>1, <2>2
<1>8. ASSUME NEW p \in Pids, OtherTakes(p) \/ Request(p) \/ RequestEnds(p) \/ ChildStarts(p) PROVE Tidy'
  BY <1>8 DEF OtherTakes, Request, RequestEnds, ChildStarts, Tidy, TypeOK
<1>9. ASSUME NEW p \in Pids, ChildExits(p) PROVE Tidy'
  BY <1>9 DEF ChildExits, Loose, Tidy, TypeOK
<1>10. ASSUME NEW p \in Pids, HttpDone(p) PROVE Tidy'
  BY <1>10 DEF HttpDone, Tidy, TypeOK
<1>11. ASSUME NEW p \in Pids, CleanupChild(p) PROVE Tidy'
  BY <1>11 DEF CleanupChild, Loose, Tidy, TypeOK
<1>12. ASSUME NEW c \in Stops, StopSignal(c) PROVE Tidy'
  BY <1>12, <1>2, <1>4 DEF StopSignal, Targets, daemonVars
<1>13. ASSUME NEW c \in Stops, StopRead(c) \/ StopPoll(c) \/ StopGivesUp(c) \/ StopRemove(c) PROVE Tidy'
  BY <1>13, <1>4 DEF StopRead, StopPoll, StopGivesUp, StopRemove, daemonVars
<1>14. ASSUME NEW c \in Starts, StartCheck(c) \/ StartStep(c) PROVE Tidy'
  BY <1>14, <1>3, <1>4 DEF StartCheck, StartStep, StartCreate, StartWrite, StartSpawn, daemonVars
<1>15. ASSUME NEW p \in Pids, UnitStart(p) \/ ChildJams(p) PROVE Tidy'
  BY <1>15, <1>3, <1>4 DEF UnitStart, ChildJams
<1>16. CASE Tick \/ UNCHANGED vars
  BY <1>16, <1>4 DEF Tick, vars, daemonVars
<1> QED
  BY <1>5, <1>6, <1>7, <1>8, <1>9, <1>10, <1>11, <1>12, <1>13, <1>14, <1>15, <1>16
     DEF Next, DaemonStep, StopStep

-----------------------------------------------------------------------------
(* Commands one after the other.                                           *)

\* Steps that touch no command leave the commands' invariant alone.
LEMMA WorldCommands ==
    ASSUME TypeOK, CommandsInv, Onward, UNCHANGED <<pidFile, start, stop>>
    PROVE  CommandsInv'
<1>1. \A p \in Pids : Started(p)' => Started(p)
  BY DEF Started, Onward
<1>2. OneCommand'
  BY DEF CommandsInv, OneCommand, StartBusy, StopBusy
<1>3. Alone' /\ StartedIsNamed'
  BY <1>1 DEF CommandsInv, Alone, StartedIsNamed, StartBusy
<1>4. InTime'
  BY DEF CommandsInv, InTime, Onward, Daemons
<1> QED  BY <1>2, <1>3, <1>4 DEF CommandsInv

\* No stop waits while a start goes on.
LEMMA StartCommands ==
    ASSUME TypeOK, Births, CommandsInv, ~Concurrent, NEW c \in Starts, StartCheck(c) \/ StartStep(c)
    PROVE  CommandsInv'
<1> USE DaemonAssumption
<1>1. UNCHANGED stop /\ \A d \in Stops : ~StopBusy(d)
  BY DEF StartCheck, StartStep, StartCreate, StartWrite, StartSpawn, MayRun,
         CommandsInv, OneCommand, StartBusy
<1>2. \A d \in Starts \ {c} : start'[d] = start[d] /\ ~StartBusy(d)
  BY DEF StartCheck, StartStep, StartCreate, StartWrite, StartSpawn, MayRun,
         CommandsInv, OneCommand, StartBusy, TypeOK
<1>3. OneCommand' /\ InTime'
  BY <1>1, <1>2 DEF OneCommand, InTime, StartBusy, StopBusy
<1>4. (\A d \in Stops : stop'[d].pc \notin {"remove", "clear", "signal", "poll"})
  BY <1>1 DEF StopBusy
<1>5. (\A d \in Starts \ {c} : ~StartBusy(d)')
  BY <1>2 DEF StartBusy
<1>6. CASE StartCheck(c)
  <2>1. UNCHANGED <<proc, by, pidFile>> /\ start'[c].pc \in {"spawn", "refused"}
        /\ (start'[c].pc = "spawn" => ~FileAlive)
    BY <1>6 DEF StartCheck, daemonVars, TypeOK
  <2>2. \A p \in Pids : Started(p)' => Started(p)
    BY <1>2, <2>1 DEF Started, Daemons, TypeOK
  <2>3. start'[c].pc = "spawn" => \A p \in Pids : ~Started(p)
    BY <2>1 DEF CommandsInv, StartedIsNamed, Started, Daemons, FileAlive, Alive
  <2>4. Alone' /\ StartedIsNamed'
    BY <1>4, <1>5, <2>1, <2>2, <2>3 DEF Alone, CommandsInv, StartedIsNamed, StartBusy
  <2> QED  BY <1>3, <2>4 DEF CommandsInv
<1>7. ASSUME NEW p \in Pids, StartSpawn(c, p) PROVE CommandsInv'
  <2>1. /\ proc' = [proc EXCEPT ![p] = "boot"] /\ by' = [by EXCEPT ![p] = c]
        /\ start[c].pc = "spawn" /\ start'[c].pc = "create" /\ UNCHANGED pidFile
    BY <1>7 DEF StartSpawn, Spawn, TypeOK
  <2>2. \A q \in Pids : ~Started(q)
    BY <2>1 DEF CommandsInv, Alone, StartBusy
  <2>3. \A q \in Pids : ~Started(q)'
    BY <1>2, <2>1, <2>2 DEF Started, Daemons, TypeOK
  <2>4. Alone' /\ StartedIsNamed'
    BY <1>4, <2>3 DEF Alone, StartedIsNamed
  <2> QED  BY <1>3, <2>4 DEF CommandsInv
<1>8. CASE StartCreate(c)
  <2>1. UNCHANGED <<proc, by>> /\ start[c].pc = "create" /\ start'[c].pc \in {"write", "failed"}
    BY <1>8 DEF StartCreate, daemonVars, TypeOK
  <2>2. \A q \in Pids : ~Started(q)
    BY <2>1 DEF CommandsInv, Alone, StartBusy
  <2>3. \A q \in Pids : ~Started(q)'
    BY <1>2, <2>1, <2>2 DEF Started, Daemons, TypeOK
  <2>4. Alone' /\ StartedIsNamed'
    BY <1>4, <2>3 DEF Alone, StartedIsNamed
  <2> QED  BY <1>3, <2>4 DEF CommandsInv
<1>9. CASE StartWrite(c)
  <2>1. /\ UNCHANGED <<proc, by>> /\ start[c].pc = "write" /\ start'[c].pc = "started"
        /\ pidFile' = start[c].pid
    BY <1>9 DEF StartWrite, daemonVars, TypeOK
  <2>2. \A q \in Pids : ~Started(q)
    BY <2>1 DEF CommandsInv, Alone, StartBusy
  <2>3. \A q \in Pids : Started(q)' => by[q] = c
    BY <1>2, <2>1, <2>2 DEF Started, Daemons, TypeOK
  <2>4. \A q \in Pids : Started(q)' => pidFile' = q
    BY <2>1, <2>3 DEF Births
  <2>5. ~StartBusy(c)'
    BY <2>1 DEF StartBusy
  <2>6. Alone' /\ StartedIsNamed'
    BY <1>4, <1>5, <2>4, <2>5 DEF Alone, StartedIsNamed
  <2> QED  BY <1>3, <2>6 DEF CommandsInv
<1> QED  BY <1>6, <1>7, <1>8, <1>9 DEF StartStep

\* A stop does with the daemon what its steps say, and no start goes on.
LEMMA StopCommands ==
    ASSUME TypeOK, Targets, CommandsInv, ~Concurrent, NEW c \in Stops, StopRead(c) \/ StopStep(c)
    PROVE  CommandsInv'
<1> USE DaemonAssumption
<1>1. UNCHANGED start /\ \A d \in Starts : ~StartBusy(d)
  BY DEF StopRead, StopStep, StopSignal, StopPoll, StopGivesUp, StopRemove, MayRun,
         CommandsInv, OneCommand, StopBusy
<1>2. \A d \in Stops \ {c} : stop'[d] = stop[d] /\ ~StopBusy(d)
  BY DEF StopRead, StopStep, StopSignal, StopPoll, StopGivesUp, StopRemove, MayRun,
         CommandsInv, OneCommand, StopBusy, TypeOK
<1>3. OneCommand'
  BY <1>1, <1>2 DEF OneCommand, StartBusy, StopBusy
<1>4. \A d \in Stops \ {c} : stop'[d].pc \notin {"remove", "clear", "signal", "poll"}
  BY <1>2 DEF StopBusy
<1>5. \A d \in Starts : ~StartBusy(d)'
  BY <1>1 DEF StartBusy
<1>6. Onward
  BY StopOnward
<1>7. \A p \in Pids : Started(p)' => Started(p)
  BY <1>1, <1>6 DEF Started, Onward
<1>8. CASE StopRead(c)
  <2>1. /\ UNCHANGED pidFile /\ stop'[c].pc \in {"signal", "clear"}
        /\ stop'[c].pid = pidFile /\ (stop'[c].pc = "clear" => ~FileAlive)
    BY <1>8 DEF StopRead, TypeOK
  <2>2. stop'[c].pc = "clear" => \A p \in Pids : ~Started(p)
    BY <2>1 DEF CommandsInv, StartedIsNamed, Started, Daemons, FileAlive, Alive
  <2>3. Alone' /\ StartedIsNamed' /\ InTime'
    BY <1>4, <1>5, <1>7, <2>1, <2>2 DEF Alone, StartedIsNamed, InTime, CommandsInv
  <2> QED  BY <1>3, <2>3 DEF CommandsInv
<1>9. CASE StopSignal(c) /\ Alive(stop[c].pid)
  <2> DEFINE q == stop[c].pid
  <2>1. /\ UNCHANGED pidFile /\ stop[c].pc = "signal" /\ stop'[c].pc = "poll"
        /\ stop'[c].pid = q /\ stop'[c].left = StopTicks /\ Terminate(q) /\ q \in Pids
    BY <1>9 DEF StopSignal, TypeOK, Targets
  <2>2. q \in Daemons' => proc'[q] = "cleanup" \/ (proc'[q] = "http" /\ timer'[q] < StopTicks)
    <3>1. CASE proc[q] = "serve"
      BY <2>1, <3>1 DEF Terminate, Defaulted, TypeOK, HttpTicks, StopTicks
    <3>2. CASE proc[q] \in Defaulted
      BY <2>1, <3>2 DEF Terminate, Defaulted, Gone, TypeOK, Daemons, Running
    <3>3. CASE proc[q] \notin {"serve"} \cup Defaulted
      BY <2>1, <3>3 DEF Terminate, Defaulted, TypeOK, Daemons, Running, daemonVars, HttpTicks, StopTicks
    <3> QED  BY <3>1, <3>2, <3>3
  <2>3. InTime'
    BY <1>4, <2>1, <2>2 DEF InTime
  <2>4. Alone' /\ StartedIsNamed'
    BY <1>4, <1>5, <1>7, <2>1 DEF Alone, StartedIsNamed, CommandsInv
  <2> QED  BY <1>3, <2>3, <2>4 DEF CommandsInv
<1>10. CASE StopPoll(c)
  <2>1. /\ UNCHANGED pidFile /\ stop[c].pc = "poll" /\ stop'[c].pc = "remove" /\ ~Alive(stop[c].pid)
    BY <1>10 DEF StopPoll, TypeOK
  <2>2. \A p \in Pids : ~Started(p)
    BY <2>1 DEF CommandsInv, Alone, Started, Daemons, Alive
  <2>3. Alone' /\ StartedIsNamed' /\ InTime'
    BY <1>4, <1>5, <1>7, <2>1, <2>2 DEF Alone, StartedIsNamed, InTime
  <2> QED  BY <1>3, <2>3 DEF CommandsInv
<1>11. CASE StopGivesUp(c) \/ (StopSignal(c) /\ ~Alive(stop[c].pid))
  <2>1. UNCHANGED pidFile /\ stop'[c].pc \in {"gaveup", "failed"}
    <3>1. stop' = [stop EXCEPT ![c] = StopOver("gaveup")] \/ stop' = [stop EXCEPT ![c] = StopOver("failed")]
      BY <1>11 DEF StopGivesUp, StopSignal
    <3>2. stop'[c].pc \in {"gaveup", "failed"}
      BY <3>1 DEF StopOver, TypeOK
    <3> QED  BY <1>11, <3>2 DEF StopGivesUp, StopSignal
  <2>2. Alone' /\ StartedIsNamed' /\ InTime'
    BY <1>4, <1>5, <1>7, <2>1 DEF Alone, StartedIsNamed, InTime, CommandsInv
  <2> QED  BY <1>3, <2>2 DEF CommandsInv
<1>12. CASE StopRemove(c)
  <2>1. stop[c].pc \in {"remove", "clear"} /\ stop'[c].pc \in {"stopped", "notrunning"}
    BY <1>12 DEF StopRemove, StopOver, TypeOK
  <2>2. \A p \in Pids : ~Started(p)
    BY <2>1 DEF CommandsInv, Alone
  <2>3. Alone' /\ StartedIsNamed' /\ InTime'
    BY <1>4, <1>5, <1>7, <2>1, <2>2 DEF Alone, StartedIsNamed, InTime
  <2> QED  BY <1>3, <2>3 DEF CommandsInv
<1> QED  BY <1>8, <1>9, <1>10, <1>11, <1>12 DEF StopStep

\* No tick passes a daemon that is done waiting for its requests.
LEMMA TickCommands ==
    ASSUME TypeOK, CommandsInv, Targets, Tick
    PROVE  CommandsInv'
<1>1. UNCHANGED <<proc, by, pidFile, start>>
  BY DEF Tick
<1>2. \A c \in Stops : stop'[c].pc = stop[c].pc /\ stop'[c].pid = stop[c].pid
  BY DEF Tick, TypeOK
<1>3. OneCommand' /\ Alone' /\ StartedIsNamed'
  BY <1>1, <1>2 DEF CommandsInv, OneCommand, Alone, StartedIsNamed, Started, Daemons, StartBusy, StopBusy
<1>4. ASSUME NEW c \in Stops, stop[c].pc = "poll" PROVE stop'[c].left = stop[c].left - 1
  BY <1>4 DEF Tick, Polling, TypeOK
<1>5. ASSUME NEW p \in Pids, proc[p] = "http" PROVE timer'[p] = timer[p] - 1
  <2>1. timer[p] > 0
    BY <1>5 DEF Tick, Over, TypeOK, HttpTicks
  <2> QED  BY <2>1 DEF Tick
<1>6. \A c \in Stops : stop[c].left \in Int /\ (stop[c].pc = "poll" => stop[c].pid \in Pids)
  BY DEF TypeOK, Targets, StopTicks
<1>7. \A p \in Pids : timer[p] \in Int
  BY DEF TypeOK, HttpTicks
<1>8. InTime'
  BY <1>1, <1>2, <1>4, <1>5, <1>6, <1>7 DEF CommandsInv, InTime, Daemons
<1> QED  BY <1>3, <1>8 DEF CommandsInv

-----------------------------------------------------------------------------
(* The theorems.                                                           *)

LEMMA InitInv == Init => IInv
BY DaemonAssumption
   DEF Init, IInv, TypeOK, Births, Targets, Tidy, CommandsInv, OneCommand, Alone, InTime,
       StartedIsNamed, Started, StartBusy, StopBusy, Running, Daemons, HttpTicks, StopTicks

LEMMA InvStep ==
    ASSUME IInv, [Next]_vars
    PROVE  IInv'
<1>1. TypeOK' /\ Births' /\ Targets' /\ Tidy'
  BY TypeStep, BirthsStep, TargetsStep, TidyStep DEF IInv
<1>2. ASSUME ~Concurrent PROVE CommandsInv'
  <2> USE <1>2 DEF IInv
  <2>1. ASSUME NEW p \in Pids, World(p) PROVE CommandsInv'
    BY <2>1, WorldStep, WorldCommands
  <2>2. ASSUME UNCHANGED vars PROVE CommandsInv'
    BY <2>2, WorldCommands DEF vars, daemonVars, Onward, Daemons
  <2> QED
    BY <2>1, <2>2, StartCommands, StopCommands, TickCommands DEF Next, World
<1> QED  BY <1>1, <1>2 DEF IInv

LEMMA InvHolds == SafetySpec => []IInv
BY InitInv, InvStep, PTL DEF SafetySpec

\* The daemon's and the commands' variables keep their types, whichever
\* commands overlap.
THEOREM TypeCorrect == SafetySpec => []TypeOK
BY InvHolds, PTL DEF IInv

\* A daemon that start reported stays the one the PID file names, for commands
\* one after the other, through any reuse of numbers, restarts of the unit,
\* kills and failed writes (service.go 42-107).
THEOREM StartedAreNamed == ~Concurrent => (SafetySpec => []StartedIsNamed)
<1> SUFFICES ASSUME ~Concurrent PROVE SafetySpec => []StartedIsNamed OBVIOUS
<1>1. IInv => StartedIsNamed  BY DEF IInv, CommandsInv
<1> QED  BY <1>1, InvHolds, PTL

\* For the same commands, what stop says of the daemon is true (88-103).
THEOREM StopsAreTrue == ~Concurrent => (SafetySpec => StopIsTrue)
<1> SUFFICES ASSUME ~Concurrent PROVE SafetySpec => StopIsTrue OBVIOUS
<1> DEFINE True == \A c \in Stops : stop[c].pc \in {"remove", "clear"} /\ stop'[c].pc \in StopDone
                                      => \A p \in Pids : ~Started(p)
<1>1. IInv => True  BY DEF IInv, CommandsInv, Alone
<1>2. IInv /\ [Next]_vars => [True]_vars  BY <1>1
<1> QED  BY <1>2, InvHolds, PTL DEF StopIsTrue, SafetySpec

\* Only a stop whose time is over gives up.
LEMMA GaveUp ==
    ASSUME TypeOK, Next, NEW c \in Stops, stop[c].pc = "poll", stop'[c].pc = "gaveup"
    PROVE  stop[c].left = 0
<1>1. ASSUME NEW d \in Stops, StopGivesUp(d) PROVE d = c /\ stop[d].left = 0
  BY <1>1 DEF StopGivesUp, TypeOK
<1>2. ASSUME NEW d \in Stops, StopRead(d) PROVE FALSE
  <2>1. stop[d].pc = "idle" /\ stop'[c] = stop[c]
    BY <1>2 DEF StopRead, TypeOK
  <2> QED  BY <2>1
<1>3. ASSUME NEW d \in Stops, StopSignal(d) PROVE FALSE
  <2>1. d # c
    BY <1>3 DEF StopSignal
  <2>2. stop'[c] = stop[c]
    BY <1>3, <2>1 DEF StopSignal, TypeOK
  <2> QED  BY <2>2
<1>4. ASSUME NEW d \in Stops, StopPoll(d) PROVE FALSE
  BY <1>4 DEF StopPoll, TypeOK
<1>5. ASSUME NEW d \in Stops, StopRemove(d) PROVE FALSE
  <2>1. d # c
    BY <1>5 DEF StopRemove
  <2>2. stop'[c] = stop[c]
    BY <1>5, <2>1 DEF StopRemove, TypeOK
  <2> QED  BY <2>2
<1>6. ASSUME Tick PROVE FALSE
  BY <1>6 DEF Tick, TypeOK
<1>7. ASSUME NEW p \in Pids, World(p) PROVE FALSE
  BY <1>7, WorldStep
<1>8. ASSUME NEW d \in Starts, StartCheck(d) \/ StartStep(d) PROVE FALSE
  BY <1>8 DEF StartCheck, StartStep, StartCreate, StartWrite, StartSpawn
<1> QED
  BY <1>1, <1>2, <1>3, <1>4, <1>5, <1>6, <1>7, <1>8 DEF Next, World, StopStep

\* For the same commands stop gives up on the daemon of a start only in its
\* cleanup (service.go 97, main.go:807).
THEOREM GivingUpHasCause == ~Concurrent => (SafetySpec => GivesUpForCause)
<1> SUFFICES ASSUME ~Concurrent PROVE SafetySpec => GivesUpForCause OBVIOUS
<1> DEFINE Cause == \A c \in Stops : LET p == stop[c].pid IN
             stop[c].pc = "poll" /\ stop'[c].pc = "gaveup" /\ p \in Daemons /\ by[p] # None
                => proc[p] = "cleanup"
<1>1. IInv /\ [Next]_vars => [Cause]_vars
  <2> SUFFICES ASSUME IInv, Next PROVE Cause BY DEF vars
  <2> SUFFICES ASSUME NEW c \in Stops, stop[c].pc = "poll", stop'[c].pc = "gaveup",
                      stop[c].pid \in Daemons, by[stop[c].pid] # None
               PROVE  proc[stop[c].pid] = "cleanup"
    OBVIOUS
  <2>1. stop[c].left = 0
    BY GaveUp DEF IInv
  <2>2. timer[stop[c].pid] \in 0 .. HttpTicks
    BY DEF IInv, TypeOK, Daemons
  <2> QED  BY <2>1, <2>2 DEF IInv, CommandsInv, InTime, HttpTicks
<1> QED  BY <1>1, InvHolds, PTL DEF GivesUpForCause, SafetySpec

\* A daemon in its cleanup that is gone after a step has unloaded what it had
\* listed, unless it was sent a signal or killed, by a fault or for a jammed
\* child.
LEMMA CleanupEnds ==
    ASSUME TypeOK, Targets, Next, NEW p \in Pids, proc[p] = "cleanup", proc'[p] = "gone",
           faults' = faults, ~Signalled(p), ~jammed[p]
    PROVE  todo[p] = 0
<1>1. ASSUME NEW q \in Pids, Gone(q) PROVE p = q
  BY <1>1 DEF Gone, TypeOK
<1>2. ASSUME NEW q \in Pids, Terminate(q) PROVE p = q
  BY <1>1, <1>2 DEF Terminate, TypeOK, daemonVars
<1>3. ASSUME NEW q \in Pids, NEW c, Spawn(q, c) PROVE FALSE
  BY <1>3 DEF Spawn, TypeOK
<1>4. ASSUME UNCHANGED proc PROVE FALSE
  BY <1>4
<1>5. ASSUME NEW q \in Pids, OtherExits(q) \/ StopTimeout(q) PROVE FALSE
  BY <1>1, <1>5 DEF OtherExits, StopTimeout
<1>6. ASSUME NEW q \in Pids, Kill(q) \/ BootFails(q) PROVE FALSE
  <2>1. faults' = faults + 1
    BY <1>6 DEF Kill, BootFails, Fault
  <2>2. faults \in 0 .. MaxFaults
    BY DEF TypeOK
  <2> QED  BY <2>1, <2>2, DaemonAssumption
<1>7. ASSUME NEW q \in Pids, Exit(q) PROVE todo[p] = 0
  BY <1>1, <1>7 DEF Exit
<1>8. ASSUME NEW q \in Pids, Listen(q) PROVE FALSE
  BY <1>1, <1>8 DEF Listen, TypeOK
<1>9. ASSUME NEW q \in Pids, Restart(q) PROVE FALSE
  <2>1. unit.pid # None /\ Terminate(unit.pid) /\ unit.pc # "restart" /\ unit'.pc = "restart"
    BY <1>4, <1>9 DEF Restart, daemonVars, TypeOK
  <2>2. unit.pid = p
    BY <1>2, <2>1 DEF TypeOK
  <2> QED  BY <2>1, <2>2 DEF Signalled
<1>10. ASSUME NEW q \in Pids, UnitStart(q) \/ HttpDone(q) \/ OtherTakes(q) PROVE FALSE
  BY <1>3, <1>10 DEF UnitStart, HttpDone, OtherTakes, TypeOK
<1>11. ASSUME NEW q \in Pids, Request(q) \/ RequestEnds(q) \/ ChildStarts(q) \/ ChildExits(q)
                              \/ ChildJams(q) \/ CleanupChild(q)
       PROVE  FALSE
  BY <1>4, <1>11 DEF Request, RequestEnds, ChildStarts, ChildExits, ChildJams, CleanupChild
<1>12. ASSUME NEW c \in Starts, StartCheck(c) \/ StartStep(c) PROVE FALSE
  BY <1>3, <1>4, <1>12 DEF StartCheck, StartStep, StartCreate, StartWrite, StartSpawn, daemonVars
<1>13. ASSUME NEW c \in Stops, StopRead(c) \/ StopStep(c) PROVE FALSE
  <2>1. StopSignal(c)
    BY <1>4, <1>13 DEF StopRead, StopStep, StopPoll, StopGivesUp, StopRemove, daemonVars
  <2>2. /\ stop[c].pc = "signal" /\ Terminate(stop[c].pid)
        /\ stop' = [stop EXCEPT ![c].pc = "poll", ![c].left = StopTicks]
    BY <1>4, <2>1 DEF StopSignal, daemonVars
  <2>3. stop'[c].pc = "poll" /\ stop[c].pid = p
    BY <1>2, <2>2 DEF TypeOK, Targets
  <2> QED  BY <2>2, <2>3 DEF Signalled
<1>14. ASSUME Tick PROVE FALSE
  BY <1>4, <1>14 DEF Tick
<1> QED
  BY <1>5, <1>6, <1>7, <1>8, <1>9, <1>10, <1>11, <1>12, <1>13, <1>14 DEF Next, DaemonStep

\* A daemon that ends by itself leaves no child, for any number of children,
\* whatever commands, restarts and requests overlap, but for a request that
\* outlived its time, a jammed child and a signal during the cleanup, which
\* ends it there (main.go 768, 783, 805-809).
THEOREM ExitsAreOrderly == SafetySpec => OrderlyExit
<1> DEFINE Orderly == \A p \in Pids :
          proc[p] = "cleanup" /\ proc'[p] = "gone" /\ faults' = faults /\ ~Signalled(p)
             => kids[p] = 0 \/ overrun[p] \/ jammed[p]
<1>1. IInv /\ [Next]_vars => [Orderly]_vars
  <2> SUFFICES ASSUME IInv, Next PROVE Orderly BY DEF vars
  <2> QED  BY CleanupEnds DEF IInv, Tidy
<1> QED  BY <1>1, InvHolds, PTL DEF OrderlyExit, SafetySpec
=============================================================================

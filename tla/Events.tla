------------------------------- MODULE Events -------------------------------
(***************************************************************************)
(* How an event reaches its reader.  In the daemon a build goroutine emits *)
(* on the engine's hub, forwardBuildEvents copies every event to the       *)
(* server's hub, where the supervisor's callbacks and the HTTP handlers    *)
(* broadcast too, and each browser drains a channel of its own.  In the    *)
(* command "runtimeforge build" the only subscriber of the engine is       *)
(* cmdBuild, which leaves when it has read the end of its job.             *)
(***************************************************************************)
EXTENDS Integers, Sequences, FiniteSets

CONSTANTS
    Jobs,       \* build goroutines
    Callbacks,  \* goroutines of the supervisor that call OnChange or OnLog
    Handlers,   \* HTTP handlers that broadcast
    Browsers,   \* connections to /api/v1/events
    Readers,    \* what may subscribe to the engine: "forwarder" in the daemon,
                \* "cmdBuild" in the command
    EngineCapacity, ServerCapacity,
    MaxEvents,  \* events a goroutine makes, the last of a job being its end
    Leaves,     \* whether browsers disconnect
    None

ASSUME EventsAssumption ==
    /\ Readers \subseteq {"forwarder", "cmdBuild"}
    /\ Readers \cap (Jobs \cup Callbacks \cup Handlers \cup Browsers) = {}
    /\ Jobs \cap (Callbacks \cup Handlers) = {}
    /\ {EngineCapacity, ServerCapacity, MaxEvents} \subseteq Nat \ {0}
    /\ Leaves \in BOOLEAN
    /\ None \notin [from : Jobs \cup Callbacks \cup Handlers, nr : 1..MaxEvents]

VARIABLES
    reader,   \* the one that this process has
    eSubs, eClosed, eQueue, eSending, eTargets, eCrashed,
    sSubs, sClosed, sQueue, sSending, sTargets, sCrashed,
    made,     \* how many events each goroutine has made
    seen,     \* the number of the last event a reader got from each
    returned  \* cmdBuild has left its loop

engineVars == <<eSubs, eClosed, eQueue, eSending, eTargets, eCrashed>>
serverVars == <<sSubs, sClosed, sQueue, sSending, sTargets, sCrashed>>
vars == <<reader, engineVars, serverVars, made, seen, returned>>

Daemon  == reader = "forwarder"
Command == reader = "cmdBuild"

E == INSTANCE EventHub WITH
        Publishers <- Jobs, Handlers <- {}, Clients <- Readers, Capacity <- EngineCapacity,
        subs <- eSubs, closed <- eClosed, queue <- eQueue,
        sending <- eSending, targets <- eTargets, crashed <- eCrashed

Casters == Callbacks \cup Handlers
S == INSTANCE EventHub WITH
        Publishers <- Casters \cup Readers, Clients <- Browsers, Capacity <- ServerCapacity,
        subs <- sSubs, closed <- sClosed, queue <- sQueue,
        sending <- sSending, targets <- sTargets, crashed <- sCrashed

Makers == Jobs \cup Casters
Event  == [from : Makers, nr : 1..MaxEvents]
Ends   == [from : Jobs, nr : {MaxEvents}]

TypeOK ==
    /\ reader \in Readers
    /\ E!TypeOK(Event) /\ S!TypeOK(Event)
    /\ made \in [Makers -> 0..MaxEvents]
    /\ seen \in [Browsers \cup Readers -> [Makers -> 0..MaxEvents]]
    /\ returned \in BOOLEAN

Init ==
    /\ reader \in Readers
    /\ E!Init /\ S!Init
    /\ made = [m \in Makers |-> 0]
    /\ seen = [r \in Browsers \cup Readers |-> [m \in Makers |-> 0]]
    /\ returned = FALSE

Running == ~eCrashed /\ ~sCrashed
Make(m) == /\ made[m] < MaxEvents
           /\ made' = [made EXCEPT ![m] = @ + 1]
Made(m) == [from |-> m, nr |-> made[m] + 1]
Saw(r, event) == seen' = [seen EXCEPT ![r][event.from] = event.nr]

-----------------------------------------------------------------------------
\* Mutant: the job is submitted before cmdBuild subscribes.
EmitEarly(j) ==
    /\ Running
    /\ Make(j) /\ E!Publish(j, Made(j))
    /\ UNCHANGED <<reader, serverVars, seen, returned>>

\* cmdBuild subscribes before it submits its job; the forwarder's goroutine
\* may start late.
Emit(j) ==
    /\ Running /\ (Command => "cmdBuild" \in eSubs)
    /\ Make(j) /\ E!Publish(j, Made(j))
    /\ UNCHANGED <<reader, serverVars, seen, returned>>

EngineStep(j) ==
    /\ Running /\ E!PublishStep(j)
    /\ UNCHANGED <<reader, serverVars, made, seen, returned>>

EngineSubscribe(r) ==
    /\ Running /\ r = reader /\ E!Subscribe(r)
    /\ UNCHANGED <<reader, serverVars, made, seen, returned>>

\* Mutant: the forwarder starts a goroutine for each event, so that a
\* broadcast need not wait for the one before.
ForwardAsync ==
    /\ Running /\ Daemon /\ "forwarder" \in eSubs
    /\ \E i \in DOMAIN eQueue["forwarder"] :
          /\ Saw("forwarder", eQueue["forwarder"][i])
          /\ S!Publish("forwarder", eQueue["forwarder"][i])
          /\ eQueue' = [eQueue EXCEPT !["forwarder"] =
                [k \in 1..Len(@) - 1 |-> IF k < i THEN @[k] ELSE @[k + 1]]]
    /\ UNCHANGED <<reader, eSubs, eClosed, eSending, eTargets, eCrashed, made, returned>>

\* for ev := range ch { s.broadcast(ev.Type, ev) }
Forward ==
    /\ Running /\ Daemon /\ E!Receive("forwarder")
    /\ Saw("forwarder", Head(eQueue["forwarder"]))
    /\ S!Publish("forwarder", Head(eQueue["forwarder"]))
    /\ UNCHANGED <<reader, made, returned>>

\* cmdBuild's loop, until its job is no longer pending.
CommandRead ==
    /\ Running /\ Command /\ ~returned /\ E!Receive("cmdBuild")
    /\ Saw("cmdBuild", Head(eQueue["cmdBuild"]))
    /\ returned' = (Head(eQueue["cmdBuild"]) \in Ends)
    /\ UNCHANGED <<reader, serverVars, made>>

\* The deferred unsub.
CommandLeave ==
    /\ Running /\ returned /\ E!Unsubscribe("cmdBuild")
    /\ UNCHANGED <<reader, serverVars, made, seen, returned>>

Broadcast(m) ==
    /\ Running /\ Daemon /\ Make(m) /\ S!Publish(m, Made(m))
    /\ UNCHANGED <<reader, engineVars, seen, returned>>

ServerStep(p) ==
    /\ Running /\ S!PublishStep(p)
    /\ UNCHANGED <<reader, engineVars, made, seen, returned>>

Connect(b) ==
    /\ Running /\ Daemon /\ S!Subscribe(b)
    /\ UNCHANGED <<reader, engineVars, made, seen, returned>>

Read(b) ==
    /\ Running /\ S!Receive(b)
    /\ Saw(b, Head(sQueue[b]))
    /\ UNCHANGED <<reader, engineVars, made, returned>>

Disconnect(b) ==
    /\ Running /\ Leaves /\ S!Unsubscribe(b)
    /\ UNCHANGED <<reader, engineVars, made, seen, returned>>

Next ==
    \/ \E j \in Jobs : Emit(j) \/ EngineStep(j)
    \/ \E r \in Readers : EngineSubscribe(r)
    \/ Forward \/ CommandRead \/ CommandLeave
    \/ \E m \in Casters : Broadcast(m)
    \/ \E p \in Casters \cup Readers : ServerStep(p)
    \/ \E b \in Browsers : Connect(b) \/ Read(b) \/ Disconnect(b)

SafetySpec == Init /\ [][Next]_vars

\* Goroutines run; nothing makes a browser read, and cmdBuild prints each
\* line to a terminal that takes it sooner or later.
Spec ==
    /\ SafetySpec
    /\ \A j \in Jobs : WF_vars(EngineStep(j)) /\ WF_vars(Emit(j))
    /\ \A p \in Casters \cup Readers : WF_vars(ServerStep(p))
    /\ WF_vars(Forward) /\ WF_vars(CommandRead)
    /\ \A r \in Readers : WF_vars(EngineSubscribe(r))

-----------------------------------------------------------------------------
(* Properties.                                                             *)

\* What a reader gets from one goroutine comes in the order it was made and
\* no event twice, through both hubs and whatever was dropped on the way.
InSequence(queue, old) ==
    \A i \in DOMAIN queue :
        /\ queue[i].nr > old[queue[i].from]
        /\ \A k \in 1..i - 1 : queue[k].from = queue[i].from => queue[k].nr < queue[i].nr
InOrder ==
    /\ \A b \in Browsers : InSequence(sQueue[b], seen[b])
    /\ \A r \in Readers : InSequence(eQueue[r], seen[r])

\* A browser that does not read holds up nobody: every broadcast ends.
BroadcastsEnd == \A p \in Casters \cup Readers : sSending[p] # None ~> sSending[p] = None \/ sCrashed

\* cmdBuild does not return before its job is over, whatever it has read and
\* missed of it by then (main.go 337-368).
LeavesAfterEnd == returned => \A j \in Jobs : made[j] = MaxEvents

\* When the events of a build fit the channel, cmdBuild returns, and not before
\* the end of its job.
CommandReturns == []LeavesAfterEnd /\ ("cmdBuild" \in eSubs ~> returned)

-----------------------------------------------------------------------------
(* Claims the code does not keep.                                          *)

\* broadcast sends an event to every subscriber of that moment that stays
\* (events.go:12): none is left out because its channel is full.
EveryoneIsSent ==
    [][\A p \in Casters \cup Readers : \A b \in sTargets[p] :
          b \notin sTargets'[p] /\ b \in sSubs
              => sQueue'[b] # <<>> /\ sQueue'[b][Len(sQueue'[b])] = sSending[p]]_vars

\* A browser that goes away does not end the daemon: users decide when it
\* runs (SPEC.md:366), and broadcast is for subscribers (events.go:12).
LeavingIsHarmless == ~sCrashed

\* "runtimeforge build" returns when its job is over (main.go 352 waits while
\* one is pending), however much the compiler printed.
BuildIsReported == (Command /\ \A j \in Jobs : made[j] = MaxEvents) ~> returned
=============================================================================

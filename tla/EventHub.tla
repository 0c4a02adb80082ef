------------------------------ MODULE EventHub ------------------------------
(***************************************************************************)
(* The publish/subscribe hub that internal/build/engine.go (Subscribe and  *)
(* emit) and internal/server/events.go (subscribe, broadcast, unsubscribe  *)
(* and the receiving loop of handleEvents) both write out: a map of        *)
(* buffered channels that a publisher copies under the lock and sends to   *)
(* after releasing it.                                                     *)
(*                                                                         *)
(* The module has actions and no specification of its own; Events instances*)
(* it once for each hub.                                                   *)
(***************************************************************************)
EXTENDS Integers, Sequences

CONSTANTS
    Publishers, \* goroutines that call emit or broadcast
    Handlers,   \* those of them whose panic net/http recovers
    Clients,    \* Subscribe calls
    Capacity,   \* of each channel: 256 in the engine, 128 in the server
    None

VARIABLES
    subs,    \* the keys of the map
    closed,  \* channels that have been closed
    queue,   \* what each channel holds
    sending, \* the event each publisher is handing out
    targets, \* the channels of its copy that it has not come to
    crashed  \* a goroutine has panicked and taken the process with it

vars == <<subs, closed, queue, sending, targets, crashed>>

TypeOK(Event) ==
    /\ subs \subseteq Clients /\ closed \subseteq Clients
    /\ subs \cap closed = {}
    /\ queue \in [Clients -> Seq(Event)]
    /\ \A c \in Clients : Len(queue[c]) <= Capacity
    /\ sending \in [Publishers -> Event \cup {None}]
    /\ targets \in [Publishers -> SUBSET (subs \cup closed)]
    /\ \A p \in Publishers : sending[p] = None => targets[p] = {}
    /\ crashed \in BOOLEAN

Init ==
    /\ subs = {} /\ closed = {}
    /\ queue = [c \in Clients |-> <<>>]
    /\ sending = [p \in Publishers |-> None]
    /\ targets = [p \in Publishers |-> {}]
    /\ crashed = FALSE

Subscribe(c) ==
    /\ ~crashed /\ c \notin subs \cup closed
    /\ subs' = subs \cup {c}
    /\ UNCHANGED <<closed, queue, sending, targets, crashed>>

\* The copy of the map, under the lock.
Publish(p, event) ==
    /\ ~crashed /\ sending[p] = None
    /\ sending' = [sending EXCEPT ![p] = event]
    /\ targets' = [targets EXCEPT ![p] = subs]
    /\ UNCHANGED <<subs, closed, queue, crashed>>

\* Mutant: a full channel makes the publisher wait.
OfferWaiting(p, c) ==
    /\ ~crashed /\ c \in targets[p] \ closed
    /\ Len(queue[c]) < Capacity
    /\ queue' = [queue EXCEPT ![c] = Append(@, sending[p])]
    /\ targets' = [targets EXCEPT ![p] = @ \ {c}]
    /\ UNCHANGED <<subs, closed, sending, crashed>>

\* select { case c <- data: default: }, in the order Go ranges over the map.
\* A send on a closed channel panics, in a select too.
Offer(p, c) ==
    /\ ~crashed /\ c \in targets[p] \ closed
    /\ queue' = [queue EXCEPT ![c] = IF Len(@) < Capacity THEN Append(@, sending[p]) ELSE @]
    /\ targets' = [targets EXCEPT ![p] = @ \ {c}]
    /\ UNCHANGED <<subs, closed, sending, crashed>>

SendOnClosed(p, c) ==
    /\ ~crashed /\ c \in targets[p] \cap closed
    /\ IF p \in Handlers
       THEN /\ sending' = [sending EXCEPT ![p] = None]
            /\ targets' = [targets EXCEPT ![p] = {}]
            /\ UNCHANGED crashed
       ELSE crashed' = TRUE /\ UNCHANGED <<sending, targets>>
    /\ UNCHANGED <<subs, closed, queue>>

Finish(p) ==
    /\ ~crashed /\ sending[p] # None /\ targets[p] = {}
    /\ sending' = [sending EXCEPT ![p] = None]
    /\ UNCHANGED <<subs, closed, queue, targets, crashed>>

Receive(c) ==
    /\ ~crashed /\ c \in subs /\ queue[c] # <<>>
    /\ queue' = [queue EXCEPT ![c] = Tail(@)]
    /\ UNCHANGED <<subs, closed, sending, targets, crashed>>

\* Mutant: the channel is closed and stays in the map.
UnsubscribeKeeping(c) ==
    /\ ~crashed /\ c \in subs
    /\ closed' = closed \cup {c}
    /\ UNCHANGED <<subs, queue, sending, targets, crashed>>

\* delete from the map and close, in one critical section.
Unsubscribe(c) ==
    /\ ~crashed /\ c \in subs
    /\ subs' = subs \ {c}
    /\ closed' = closed \cup {c}
    /\ UNCHANGED <<queue, sending, targets, crashed>>

PublishStep(p) == (\E c \in Clients : Offer(p, c) \/ SendOnClosed(p, c)) \/ Finish(p)
=============================================================================

---------------------------- MODULE EventsProofs ----------------------------
(***************************************************************************)
(* Proofs about Events: an event reaches its reader in the order its       *)
(* goroutine made it, through both hubs (InOrder).  The invariant says     *)
(* what is on its way: a goroutine hands out its newest event, and a       *)
(* channel it has not come to has only older ones of it; the forwarder's   *)
(* broadcasts are numbered by what it has read from the engine.            *)
(***************************************************************************)
EXTENDS Events, TLAPS

\* A channel and what its reader got have nothing of m newer than n.
Within(queue, old, m, n) ==
    /\ old[m] <= n
    /\ \A i \in DOMAIN queue : queue[i].from = m => queue[i].nr <= n

\* The last event of m that the server's hub was given.
Sent(m) == IF m \in Casters THEN made[m]
           ELSE IF "forwarder" \in Readers THEN seen["forwarder"][m] ELSE 0

EngineSending == \A j \in Jobs : eSending[j] # None => eSending[j] = [from |-> j, nr |-> made[j]]

ServerSending ==
    \A p \in Casters \cup Readers : sSending[p] # None =>
        IF p \in Casters
        THEN sSending[p] = [from |-> p, nr |-> made[p]]
        ELSE /\ p = "forwarder" /\ sSending[p].from \in Jobs
             /\ sSending[p].nr = seen[p][sSending[p].from]

FromJobs == \A r \in Readers : \A i \in DOMAIN eQueue[r] : eQueue[r][i].from \in Jobs

EngineBound ==
    /\ \A r \in Readers : \A j \in Jobs : Within(eQueue[r], seen[r], j, made[j])
    /\ \A j \in Jobs : \A r \in eTargets[j] : Within(eQueue[r], seen[r], j, made[j] - 1)

ServerBound ==
    /\ \A b \in Browsers : \A m \in Makers : Within(sQueue[b], seen[b], m, Sent(m))
    /\ \A p \in Casters \cup Readers : \A b \in sTargets[p] :
           Within(sQueue[b], seen[b], sSending[p].from, sSending[p].nr - 1)

EngineInv == /\ EngineSending /\ FromJobs /\ EngineBound
             /\ \A r \in Readers : InSequence(eQueue[r], seen[r])
ServerInv == /\ ServerSending /\ ServerBound
             /\ \A b \in Browsers : InSequence(sQueue[b], seen[b])
IInv == TypeOK /\ EngineInv /\ ServerInv

-----------------------------------------------------------------------------
(* One channel.                                                            *)

\* What a channel's reader got is a numbering of the goroutines.
Counts == [Makers -> 0..MaxEvents]

LEMMA Numbers ==
    /\ MaxEvents \in Nat
    /\ \A e \in Event : e.from \in Makers /\ e.nr \in 1..MaxEvents /\ e.nr \in Int
    /\ \A old \in Counts : \A m \in Makers : old[m] \in 0..MaxEvents /\ old[m] \in Int
    /\ \A q \in Seq(Event) : \A i \in DOMAIN q : q[i] \in Event
<1>1. MaxEvents \in Nat
    BY EventsAssumption
<1>2. \A e \in Event : e.from \in Makers /\ e.nr \in 1..MaxEvents
    BY DEF Event
<1>3. \A old \in Counts : \A m \in Makers : old[m] \in 0..MaxEvents
    BY DEF Counts
<1>4. \A q \in Seq(Event) : \A i \in DOMAIN q : q[i] \in Event
    OBVIOUS
<1> QED BY <1>1, <1>2, <1>3, <1>4

\* A send appends an event that is newer than what the channel has of its
\* goroutine.
LEMMA AppendOrdered ==
    ASSUME NEW q \in Seq(Event), NEW old \in Counts, NEW e \in Event,
           InSequence(q, old), Within(q, old, e.from, e.nr - 1)
    PROVE  InSequence(Append(q, e), old)
<1>1. e.nr \in Int /\ e.from \in Makers
    BY Numbers
<1>2. old[e.from] \in Int
    BY <1>1, Numbers
<1>3. \A i \in DOMAIN q : q[i].nr \in Int
    BY Numbers
<1> SUFFICES ASSUME NEW i \in DOMAIN Append(q, e)
             PROVE  /\ Append(q, e)[i].nr > old[Append(q, e)[i].from]
                    /\ \A k \in 1..i - 1 : Append(q, e)[k].from = Append(q, e)[i].from
                                           => Append(q, e)[k].nr < Append(q, e)[i].nr
    BY DEF InSequence
<1>4. CASE i \in DOMAIN q
    <2>1. Append(q, e)[i] = q[i] /\ \A k \in 1..i - 1 : Append(q, e)[k] = q[k]
        BY <1>4
    <2> QED BY <1>4, <2>1 DEF InSequence
<1>5. CASE i = Len(q) + 1
    <2>1. Append(q, e)[i] = e /\ \A k \in 1..i - 1 : Append(q, e)[k] = q[k] /\ k \in DOMAIN q
        BY <1>5
    <2>2. e.nr > old[e.from]
        BY <1>1, <1>2 DEF Within
    <2>3. \A k \in 1..i - 1 : q[k].from = e.from => q[k].nr < e.nr
        BY <1>1, <1>3, <2>1 DEF Within
    <2> QED BY <2>1, <2>2, <2>3
<1> QED BY <1>4, <1>5

LEMMA AppendWithin ==
    ASSUME NEW q \in Seq(Event), NEW old, NEW e \in Event, NEW m, NEW n,
           Within(q, old, m, n), e.from = m => e.nr <= n
    PROVE  Within(Append(q, e), old, m, n)
<1> SUFFICES ASSUME NEW i \in DOMAIN Append(q, e), Append(q, e)[i].from = m
             PROVE  Append(q, e)[i].nr <= n
    BY DEF Within
<1>1. CASE i \in DOMAIN q
    BY <1>1 DEF Within
<1>2. CASE i = Len(q) + 1
    BY <1>2
<1> QED BY <1>1, <1>2

\* A receive takes the head and notes its number.
LEMMA ReceiveOrdered ==
    ASSUME NEW q \in Seq(Event), q # <<>>, NEW old \in Counts, InSequence(q, old)
    PROVE  LET new == [old EXCEPT ![Head(q).from] = Head(q).nr]
           IN /\ new \in Counts
              /\ Tail(q) \in Seq(Event)
              /\ InSequence(Tail(q), new)
<1> DEFINE new == [old EXCEPT ![Head(q).from] = Head(q).nr]
<1>1. Head(q) = q[1] /\ 1 \in DOMAIN q /\ Head(q) \in Event
    OBVIOUS
<1>2. Head(q).from \in Makers /\ Head(q).nr \in 1..MaxEvents /\ MaxEvents \in Nat
    BY <1>1, Numbers
<1>3. new \in Counts
    BY <1>2 DEF Counts
<1>4. \A i \in DOMAIN Tail(q) : Tail(q)[i] = q[i + 1] /\ i + 1 \in DOMAIN q /\ i \in 1..(i + 1) - 1 /\ i \in Nat /\ 1 \in 1..(i + 1) - 1
    OBVIOUS
<1>5. InSequence(Tail(q), new)
    <2> SUFFICES ASSUME NEW i \in DOMAIN Tail(q)
                 PROVE  /\ q[i + 1].nr > new[q[i + 1].from]
                        /\ \A k \in 1..i - 1 : q[k + 1].from = q[i + 1].from => q[k + 1].nr < q[i + 1].nr
        BY <1>4 DEF InSequence
    <2>1. q[i + 1].nr > old[q[i + 1].from] /\ q[i + 1].from \in Makers
        BY <1>4, Numbers DEF InSequence
    <2>2. q[1].from = q[i + 1].from => q[1].nr < q[i + 1].nr
        BY <1>4 DEF InSequence
    <2>3. q[i + 1].nr \in Int /\ q[1].nr \in Int
        BY <1>1, <1>4, Numbers
    <2>4. q[i + 1].nr > new[q[i + 1].from]
        BY <1>1, <1>2, <2>1, <2>2, <2>3 DEF Counts
    <2>5. \A k \in 1..i - 1 : k + 1 \in 1..(i + 1) - 1
        BY <1>4
    <2>6. \A k \in 1..i - 1 : q[k + 1].from = q[i + 1].from => q[k + 1].nr < q[i + 1].nr
        BY <1>4, <2>5 DEF InSequence
    <2> QED BY <2>4, <2>6
<1>6. Tail(q) \in Seq(Event)
    OBVIOUS
<1> QED BY <1>3, <1>5, <1>6

LEMMA ReceiveWithin ==
    ASSUME NEW q \in Seq(Event), q # <<>>, NEW old \in Counts, NEW m \in Makers, NEW n,
           Within(q, old, m, n)
    PROVE  Within(Tail(q), [old EXCEPT ![Head(q).from] = Head(q).nr], m, n)
<1>1. Head(q) = q[1] /\ 1 \in DOMAIN q
    OBVIOUS
<1>2. [old EXCEPT ![Head(q).from] = Head(q).nr][m] <= n
    BY <1>1 DEF Within, Counts
<1>3. \A i \in DOMAIN Tail(q) : Tail(q)[i] = q[i + 1] /\ i + 1 \in DOMAIN q
    OBVIOUS
<1> QED BY <1>2, <1>3 DEF Within

\* A bound may only grow.
LEMMA WithinMore ==
    ASSUME NEW q \in Seq(Event), NEW old \in Counts, NEW m \in Makers, NEW n \in Int, NEW o \in Int,
           Within(q, old, m, n), n <= o
    PROVE  Within(q, old, m, o)
<1>1. old[m] \in Int /\ \A i \in DOMAIN q : q[i].nr \in Int
    BY Numbers
<1> QED BY <1>1 DEF Within
-----------------------------------------------------------------------------
(* The two hubs.                                                           *)

\* Every operation of the engine's hub keeps its types.
LEMMA EngineTypes ==
    ASSUME E!TypeOK(Event),
           \/ \E c \in Readers : E!Subscribe(c) \/ E!Receive(c) \/ E!Unsubscribe(c)
           \/ \E p \in Jobs : E!PublishStep(p) \/ \E e \in Event : E!Publish(p, e)
    PROVE  E!TypeOK(Event)'
<1>1. ASSUME NEW c \in Readers, E!Subscribe(c) PROVE E!TypeOK(Event)'
    BY <1>1 DEF E!TypeOK, E!Subscribe
<1>2. ASSUME NEW c \in Readers, E!Unsubscribe(c) PROVE E!TypeOK(Event)'
    BY <1>2 DEF E!TypeOK, E!Unsubscribe
<1>3. ASSUME NEW c \in Readers, E!Receive(c) PROVE E!TypeOK(Event)'
    <2>1. Tail(eQueue[c]) \in Seq(Event) /\ Len(Tail(eQueue[c])) <= EngineCapacity
        BY <1>3, EventsAssumption DEF E!TypeOK, E!Receive
    <2> QED BY <1>3, <2>1 DEF E!TypeOK, E!Receive
<1>4. ASSUME NEW p \in Jobs, NEW e \in Event, E!Publish(p, e) PROVE E!TypeOK(Event)'
    <2>1. e # None
        BY EventsAssumption DEF Event, Makers, Casters
    <2> QED BY <1>4, <2>1 DEF E!TypeOK, E!Publish
<1>5. ASSUME NEW p \in Jobs, E!Finish(p) PROVE E!TypeOK(Event)'
    BY <1>5 DEF E!TypeOK, E!Finish
<1>6. ASSUME NEW p \in Jobs, NEW c \in Readers, E!SendOnClosed(p, c) PROVE E!TypeOK(Event)'
    BY <1>6 DEF E!TypeOK, E!SendOnClosed
<1>7. ASSUME NEW p \in Jobs, NEW c \in Readers, E!Offer(p, c) PROVE E!TypeOK(Event)'
    <2>1. eSending[p] \in Event
        BY <1>7 DEF E!TypeOK, E!Offer
    <2>2. /\ eQueue'[c] \in Seq(Event) /\ Len(eQueue'[c]) <= EngineCapacity
          /\ eQueue' \in [Readers -> Seq(Event)]
          /\ \A d \in Readers : d # c => eQueue'[d] = eQueue[d]
        BY <1>7, <2>1, EventsAssumption DEF E!TypeOK, E!Offer
    <2> QED BY <1>7, <2>2 DEF E!TypeOK, E!Offer
<1> QED BY <1>1, <1>2, <1>3, <1>4, <1>5, <1>6, <1>7 DEF E!PublishStep

\* Every operation of the server's hub keeps its types.
LEMMA ServerTypes ==
    ASSUME S!TypeOK(Event),
           \/ \E c \in Browsers : S!Subscribe(c) \/ S!Receive(c) \/ S!Unsubscribe(c)
           \/ \E p \in (Casters \cup Readers) : S!PublishStep(p) \/ \E e \in Event : S!Publish(p, e)
    PROVE  S!TypeOK(Event)'
<1>1. ASSUME NEW c \in Browsers, S!Subscribe(c) PROVE S!TypeOK(Event)'
    BY <1>1 DEF S!TypeOK, S!Subscribe
<1>2. ASSUME NEW c \in Browsers, S!Unsubscribe(c) PROVE S!TypeOK(Event)'
    BY <1>2 DEF S!TypeOK, S!Unsubscribe
<1>3. ASSUME NEW c \in Browsers, S!Receive(c) PROVE S!TypeOK(Event)'
    <2>1. Tail(sQueue[c]) \in Seq(Event) /\ Len(Tail(sQueue[c])) <= ServerCapacity
        BY <1>3, EventsAssumption DEF S!TypeOK, S!Receive
    <2> QED BY <1>3, <2>1 DEF S!TypeOK, S!Receive
<1>4. ASSUME NEW p \in (Casters \cup Readers), NEW e \in Event, S!Publish(p, e) PROVE S!TypeOK(Event)'
    <2>1. e # None
        BY EventsAssumption DEF Event, Makers, Casters
    <2> QED BY <1>4, <2>1 DEF S!TypeOK, S!Publish
<1>5. ASSUME NEW p \in (Casters \cup Readers), S!Finish(p) PROVE S!TypeOK(Event)'
    BY <1>5 DEF S!TypeOK, S!Finish
<1>6. ASSUME NEW p \in (Casters \cup Readers), NEW c \in Browsers, S!SendOnClosed(p, c) PROVE S!TypeOK(Event)'
    BY <1>6 DEF S!TypeOK, S!SendOnClosed
<1>7. ASSUME NEW p \in (Casters \cup Readers), NEW c \in Browsers, S!Offer(p, c) PROVE S!TypeOK(Event)'
    <2>1. sSending[p] \in Event
        BY <1>7 DEF S!TypeOK, S!Offer
    <2>2. /\ sQueue'[c] \in Seq(Event) /\ Len(sQueue'[c]) <= ServerCapacity
          /\ sQueue' \in [Browsers -> Seq(Event)]
          /\ \A d \in Browsers : d # c => sQueue'[d] = sQueue[d]
        BY <1>7, <2>1, EventsAssumption DEF S!TypeOK, S!Offer
    <2> QED BY <1>7, <2>2 DEF S!TypeOK, S!Offer
<1> QED BY <1>1, <1>2, <1>3, <1>4, <1>5, <1>6, <1>7 DEF S!PublishStep
-----------------------------------------------------------------------------
(* What keeps the order in the engine's hub.                               *)

LEMMA EngineTyped ==
    TypeOK => /\ \A r \in Readers : eQueue[r] \in Seq(Event) /\ seen[r] \in Counts
              /\ \A j \in Jobs : /\ eTargets[j] \subseteq Readers
                                 /\ eTargets[j] # {} => eSending[j] # None
                                 /\ made[j] \in 0..MaxEvents /\ made[j] \in Int
BY Numbers DEF TypeOK, E!TypeOK, Makers, Counts

\* A step that sends nothing and starts no broadcast.
LEMMA EngineQuiet ==
    ASSUME TypeOK, EngineInv, UNCHANGED eQueue,
           \A j \in Jobs : /\ eSending'[j] \in {eSending[j], None}
                           /\ eTargets'[j] \subseteq eTargets[j]
                           /\ made'[j] = made[j],
           \A r \in Readers : seen'[r] = seen[r]
    PROVE  EngineInv'
<1>1. EngineSending'
    BY DEF EngineInv, EngineSending
<1>2. FromJobs'
    BY DEF EngineInv, FromJobs
<1>3. (\A r \in Readers : InSequence(eQueue[r], seen[r]))'
    BY DEF EngineInv, InSequence
<1>4. EngineBound'
    BY EngineTyped DEF EngineInv, EngineBound, Within
<1> QED BY <1>1, <1>2, <1>3, <1>4 DEF EngineInv

\* A job makes its next event and copies the map.
LEMMA EnginePublishes ==
    ASSUME TypeOK, EngineInv, NEW j \in Jobs, Make(j), E!Publish(j, Made(j)), UNCHANGED seen
    PROVE  EngineInv'
<1>1. /\ j \in Makers /\ UNCHANGED eQueue
      /\ made'[j] = made[j] + 1 /\ \A k \in Jobs : k # j => made'[k] = made[k]
      /\ eSending'[j] = [from |-> j, nr |-> made[j] + 1]
      /\ \A k \in Jobs : k # j => eSending'[k] = eSending[k] /\ eTargets'[k] = eTargets[k]
      /\ eTargets'[j] = eSubs /\ eSubs \subseteq Readers
    BY DEF TypeOK, E!TypeOK, Make, Made, E!Publish, Makers
<1>2. EngineSending'
    BY <1>1 DEF EngineInv, EngineSending
<1>3. FromJobs'
    BY <1>1 DEF EngineInv, FromJobs
<1>4. (\A r \in Readers : InSequence(eQueue[r], seen[r]))'
    BY <1>1 DEF EngineInv, InSequence
<1>5. ASSUME NEW r \in Readers PROVE Within(eQueue[r], seen[r], j, made[j] + 1)
    BY <1>1, WithinMore, EngineTyped DEF EngineInv, EngineBound
<1>6. (\A r \in Readers : \A k \in Jobs : Within(eQueue[r], seen[r], k, made[k]))'
    <2> SUFFICES ASSUME NEW r \in Readers, NEW k \in Jobs
                 PROVE  Within(eQueue[r], seen[r], k, made'[k])
        BY <1>1 DEF Within
    <2> QED BY <1>1, <1>5 DEF EngineInv, EngineBound
<1>7. (\A k \in Jobs : \A r \in eTargets[k] : Within(eQueue[r], seen[r], k, made[k] - 1))'
    <2> SUFFICES ASSUME NEW k \in Jobs, NEW r \in eTargets'[k]
                 PROVE  Within(eQueue[r], seen[r], k, made'[k] - 1)
        BY <1>1 DEF Within
    <2>1. made'[j] - 1 = made[j]
        BY <1>1, EngineTyped
    <2> QED BY <1>1, <2>1 DEF EngineInv, EngineBound
<1> QED BY <1>2, <1>3, <1>4, <1>6, <1>7 DEF EngineInv, EngineBound

\* The channel gets the event unless it is full, and is passed either way.
LEMMA EngineOffers ==
    ASSUME TypeOK, EngineInv, NEW j \in Jobs, NEW c \in Readers, E!Offer(j, c), UNCHANGED <<made, seen>>
    PROVE  EngineInv'
<1> DEFINE e == eSending[j]
<1>1. /\ eQueue[c] \in Seq(Event) /\ seen[c] \in Counts /\ j \in Makers
      /\ c \in eTargets[j] /\ e = [from |-> j, nr |-> made[j]] /\ e \in Event
      /\ e.from = j /\ e.nr = made[j] /\ made[j] \in Int
    <2>1. c \in eTargets[j] /\ e # None
        BY EngineTyped DEF E!Offer
    <2>2. e = [from |-> j, nr |-> made[j]] /\ e \in Event
        BY <2>1 DEF EngineInv, EngineSending, TypeOK, E!TypeOK
    <2> QED BY <2>1, <2>2, EngineTyped DEF Makers
<1>2. /\ \A r \in Readers : r # c => eQueue'[r] = eQueue[r]
      /\ eQueue'[c] \in {eQueue[c], Append(eQueue[c], e)}
      /\ eTargets'[j] = eTargets[j] \ {c}
      /\ \A k \in Jobs : k # j => eTargets'[k] = eTargets[k]
      /\ UNCHANGED eSending
    BY DEF E!Offer, TypeOK, E!TypeOK
<1>3. /\ InSequence(eQueue[c], seen[c])
      /\ Within(eQueue[c], seen[c], j, made[j] - 1)
    BY <1>1 DEF EngineInv, EngineBound
<1>4. InSequence(eQueue'[c], seen[c])
    BY <1>1, <1>2, <1>3, AppendOrdered
<1>5. ASSUME NEW k \in Jobs PROVE Within(eQueue'[c], seen[c], k, made[k])
    <2>1. Within(eQueue[c], seen[c], k, made[k])
        BY DEF EngineInv, EngineBound
    <2>2. e.from = k => e.nr <= made[k]
        BY <1>1
    <2>3. eQueue[c] \in Seq(Event) /\ e \in Event
        BY <1>1
    <2> HIDE DEF e
    <2>4. Within(Append(eQueue[c], e), seen[c], k, made[k])
        BY <2>1, <2>2, <2>3, AppendWithin
    <2> QED BY <1>2, <2>1, <2>4
<1>6. ASSUME NEW k \in Jobs, k # j, c \in eTargets[k] PROVE Within(eQueue'[c], seen[c], k, made[k] - 1)
    <2>1. Within(eQueue[c], seen[c], k, made[k] - 1)
        BY <1>6 DEF EngineInv, EngineBound
    <2>2. e.from # k
        BY <1>1, <1>6
    <2>3. eQueue[c] \in Seq(Event) /\ e \in Event
        BY <1>1
    <2> HIDE DEF e
    <2>4. Within(Append(eQueue[c], e), seen[c], k, made[k] - 1)
        BY <2>1, <2>2, <2>3, AppendWithin
    <2> QED BY <1>2, <2>1, <2>4
<1>7. EngineSending'
    BY <1>2 DEF EngineInv, EngineSending
<1>8. FromJobs'
    <2> SUFFICES ASSUME NEW r \in Readers, NEW i \in DOMAIN eQueue'[r] PROVE eQueue'[r][i].from \in Jobs
        BY DEF FromJobs
    <2>1. CASE eQueue'[r] = eQueue[r]
        BY <2>1 DEF EngineInv, FromJobs
    <2>2. CASE r = c /\ eQueue'[c] = Append(eQueue[c], e)
        <3>1. eQueue[c] \in Seq(Event) /\ e.from \in Jobs
            BY <1>1
        <3>2. \A k \in DOMAIN eQueue[c] : eQueue[c][k].from \in Jobs
            BY DEF EngineInv, FromJobs
        <3> HIDE DEF e
        <3>3. i \in DOMAIN Append(eQueue[c], e)
            BY <2>2
        <3>4. Append(eQueue[c], e)[i].from \in Jobs
            BY <3>1, <3>2, <3>3
        <3> QED BY <2>2, <3>4
    <2> QED BY <1>2, <2>1, <2>2
<1>9. (\A r \in Readers : InSequence(eQueue[r], seen[r]))'
    <2> SUFFICES ASSUME NEW r \in Readers PROVE InSequence(eQueue'[r], seen[r])
        BY DEF InSequence
    <2> QED BY <1>2, <1>4 DEF EngineInv
<1>10. (\A r \in Readers : \A k \in Jobs : Within(eQueue[r], seen[r], k, made[k]))'
    <2> SUFFICES ASSUME NEW r \in Readers, NEW k \in Jobs PROVE Within(eQueue'[r], seen[r], k, made[k])
        BY DEF Within
    <2> QED BY <1>2, <1>5 DEF EngineInv, EngineBound
<1>11. (\A k \in Jobs : \A r \in eTargets[k] : Within(eQueue[r], seen[r], k, made[k] - 1))'
    <2> SUFFICES ASSUME NEW k \in Jobs, NEW r \in eTargets'[k] PROVE Within(eQueue'[r], seen[r], k, made[k] - 1)
        BY DEF Within
    <2>1. r \in eTargets[k] /\ r \in Readers /\ (k = j => r # c)
        BY <1>2, EngineTyped
    <2> QED BY <1>2, <1>6, <2>1 DEF EngineInv, EngineBound
<1> QED BY <1>7, <1>8, <1>9, <1>10, <1>11 DEF EngineInv, EngineBound

\* A reader takes the head of its channel.
LEMMA EngineReceives ==
    ASSUME TypeOK, EngineInv, NEW r \in Readers, E!Receive(r), Saw(r, Head(eQueue[r])), UNCHANGED made
    PROVE  EngineInv'
<1> DEFINE e   == Head(eQueue[r])
           new == [seen[r] EXCEPT ![e.from] = e.nr]
<1>1. /\ eQueue[r] \in Seq(Event) /\ eQueue[r] # <<>> /\ seen[r] \in Counts
      /\ seen'[r] = new /\ \A s \in Readers : s # r => seen'[s] = seen[s]
      /\ eQueue'[r] = Tail(eQueue[r]) /\ \A s \in Readers : s # r => eQueue'[s] = eQueue[s]
      /\ UNCHANGED <<eSending, eTargets>>
    BY EngineTyped DEF TypeOK, E!TypeOK, E!Receive, Saw
<1>2. EngineSending'
    BY <1>1 DEF EngineInv, EngineSending
<1>3. FromJobs'
    <2>1. \A i \in DOMAIN Tail(eQueue[r]) : Tail(eQueue[r])[i] = eQueue[r][i + 1] /\ i + 1 \in DOMAIN eQueue[r]
        BY <1>1
    <2>2. \A k \in DOMAIN eQueue[r] : eQueue[r][k].from \in Jobs
        BY DEF EngineInv, FromJobs
    <2>3. \A i \in DOMAIN Tail(eQueue[r]) : Tail(eQueue[r])[i].from \in Jobs
        BY <2>1, <2>2
    <2> SUFFICES ASSUME NEW s \in Readers, NEW i \in DOMAIN eQueue'[s] PROVE eQueue'[s][i].from \in Jobs
        BY DEF FromJobs
    <2>4. CASE s = r
        BY <1>1, <2>3, <2>4
    <2>5. CASE s # r
        BY <1>1, <2>5 DEF EngineInv, FromJobs
    <2> QED BY <2>4, <2>5
<1>4. InSequence(Tail(eQueue[r]), new)
    BY <1>1, ReceiveOrdered DEF EngineInv
<1>5. (\A s \in Readers : InSequence(eQueue[s], seen[s]))'
    <2> SUFFICES ASSUME NEW s \in Readers PROVE InSequence(eQueue'[s], seen'[s])
        BY DEF InSequence
    <2> QED BY <1>1, <1>4 DEF EngineInv
<1>6. ASSUME NEW s \in Readers, NEW j \in Makers, NEW n, Within(eQueue[s], seen[s], j, n)
      PROVE  Within(eQueue'[s], seen'[s], j, n)
    <2>1. CASE s = r
        <3>1. Within(Tail(eQueue[r]), new, j, n)
            BY <1>1, <1>6, <2>1, ReceiveWithin
        <3> QED BY <1>1, <2>1, <3>1
    <2>2. CASE s # r
        BY <1>1, <1>6, <2>2
    <2> QED BY <2>1, <2>2
<1>7. Jobs \subseteq Makers /\ \A j \in Jobs : eTargets[j] \subseteq Readers
    BY EngineTyped DEF Makers
<1>8. (\A s \in Readers : \A j \in Jobs : Within(eQueue[s], seen[s], j, made[j]))'
    <2> SUFFICES ASSUME NEW s \in Readers, NEW j \in Jobs PROVE Within(eQueue'[s], seen'[s], j, made[j])
        BY DEF Within
    <2> QED BY <1>6, <1>7 DEF EngineInv, EngineBound
<1>9. (\A j \in Jobs : \A s \in eTargets[j] : Within(eQueue[s], seen[s], j, made[j] - 1))'
    <2> SUFFICES ASSUME NEW j \in Jobs, NEW s \in eTargets[j] PROVE Within(eQueue'[s], seen'[s], j, made[j] - 1)
        BY <1>1 DEF Within
    <2> QED BY <1>6, <1>7 DEF EngineInv, EngineBound
<1> QED BY <1>2, <1>3, <1>5, <1>8, <1>9 DEF EngineInv, EngineBound
-----------------------------------------------------------------------------
(* What keeps the order in the server's hub.                               *)

LEMMA ServerTyped ==
    TypeOK => /\ \A b \in Browsers : sQueue[b] \in Seq(Event) /\ seen[b] \in Counts
              /\ \A p \in Casters \cup Readers : /\ sTargets[p] \subseteq Browsers
                                                 /\ sTargets[p] # {} => sSending[p] # None
                                                 /\ sSending[p] # None => sSending[p] \in Event
              /\ \A m \in Makers : made[m] \in 0..MaxEvents /\ made[m] \in Int /\ Sent(m) \in Int
<1> SUFFICES ASSUME TypeOK
             PROVE  /\ \A b \in Browsers : sQueue[b] \in Seq(Event) /\ seen[b] \in Counts
                    /\ \A p \in Casters \cup Readers : /\ sTargets[p] \subseteq Browsers
                                                       /\ sTargets[p] # {} => sSending[p] # None
                                                       /\ sSending[p] # None => sSending[p] \in Event
                    /\ \A m \in Makers : made[m] \in 0..MaxEvents /\ made[m] \in Int /\ Sent(m) \in Int
    OBVIOUS
<1>1. \A b \in Browsers : sQueue[b] \in Seq(Event) /\ seen[b] \in Counts
    BY DEF TypeOK, S!TypeOK, Counts
<1>2. \A p \in Casters \cup Readers : /\ sTargets[p] \subseteq Browsers
                                      /\ sTargets[p] # {} => sSending[p] # None
                                      /\ sSending[p] # None => sSending[p] \in Event
    BY DEF TypeOK, S!TypeOK
<1>3. made \in Counts /\ \A r \in Readers : seen[r] \in Counts
    BY DEF TypeOK, Counts
<1>4. \A m \in Makers : made[m] \in 0..MaxEvents /\ made[m] \in Int
    BY <1>3, Numbers
<1>5. \A m \in Makers : Sent(m) \in Int
    BY <1>3, <1>4, Numbers DEF Sent
<1> QED BY <1>1, <1>2, <1>4, <1>5

\* Publishers send different goroutines' events.
LEMMA SendersDiffer ==
    ASSUME TypeOK, ServerInv,
           NEW p \in Casters \cup Readers, sSending[p] # None,
           NEW q \in Casters \cup Readers, sSending[q] # None, p # q
    PROVE  sSending[p].from # sSending[q].from
<1>1. \A c \in Casters : c \notin Jobs
    BY EventsAssumption DEF Casters
<1>2. ASSUME NEW r \in Casters \cup Readers, sSending[r] # None
      PROVE  IF r \in Casters THEN sSending[r].from = r ELSE r = "forwarder" /\ sSending[r].from \in Jobs
    <2>1. CASE r \in Casters
        <3>1. sSending[r] = [from |-> r, nr |-> made[r]]
            BY <1>2, <2>1 DEF ServerInv, ServerSending
        <3> QED BY <2>1, <3>1
    <2>2. CASE r \notin Casters
        BY <1>2, <2>2 DEF ServerInv, ServerSending
    <2> QED BY <2>1, <2>2
<1> QED BY <1>1, <1>2

\* An event that is being handed out is not newer than the last one sent.
LEMMA SendingIsSent ==
    ASSUME TypeOK, ServerInv, NEW p \in Casters \cup Readers, sSending[p] # None
    PROVE  sSending[p].nr <= Sent(sSending[p].from)
<1>1. sSending[p] \in Event
    BY ServerTyped
<1>2. sSending[p].nr \in Int
    BY <1>1, Numbers
<1>3. CASE p \in Casters
    <2>1. sSending[p] = [from |-> p, nr |-> made[p]]
        BY <1>3 DEF ServerInv, ServerSending
    <2>2. sSending[p].from = p /\ sSending[p].nr = made[p]
        BY <2>1
    <2> QED BY <1>2, <1>3, <2>2 DEF Sent
<1>4. CASE p \notin Casters
    <2>1. p = "forwarder" /\ sSending[p].from \in Jobs /\ sSending[p].nr = seen[p][sSending[p].from]
        BY <1>4 DEF ServerInv, ServerSending
    <2>2. sSending[p].from \notin Casters /\ "forwarder" \in Readers
        BY <1>4, <2>1, EventsAssumption DEF Casters
    <2> QED BY <1>2, <2>1, <2>2 DEF Sent
<1> QED BY <1>3, <1>4

\* A step that sends nothing and starts no broadcast.
LEMMA ServerQuiet ==
    ASSUME TypeOK, TypeOK', ServerInv, UNCHANGED sQueue,
           \A p \in Casters \cup Readers : /\ sSending'[p] \in {sSending[p], None}
                                           /\ sTargets'[p] \subseteq sTargets[p],
           \A m \in Casters : made'[m] = made[m],
           \A b \in Browsers : seen'[b] = seen[b],
           "forwarder" \in Readers => seen'["forwarder"] = seen["forwarder"]
    PROVE  ServerInv'
<1>1. ServerSending'
    <2> SUFFICES ASSUME NEW p \in Casters \cup Readers, sSending'[p] # None
                 PROVE  IF p \in Casters
                        THEN sSending'[p] = [from |-> p, nr |-> made'[p]]
                        ELSE /\ p = "forwarder" /\ sSending'[p].from \in Jobs
                             /\ sSending'[p].nr = seen'[p][sSending'[p].from]
        BY DEF ServerSending
    <2>1. sSending'[p] = sSending[p] /\ sSending[p] # None
        OBVIOUS
    <2>2. CASE p \in Casters
        <3>1. sSending[p] = [from |-> p, nr |-> made[p]]
            BY <2>1, <2>2 DEF ServerInv, ServerSending
        <3> QED BY <2>1, <2>2, <3>1
    <2>3. CASE p \notin Casters
        <3>1. p = "forwarder" /\ sSending[p].from \in Jobs /\ sSending[p].nr = seen[p][sSending[p].from]
            BY <2>1, <2>3 DEF ServerInv, ServerSending
        <3>2. seen'[p] = seen[p]
            BY <2>3, <3>1
        <3> QED BY <2>1, <2>3, <3>1, <3>2
    <2> QED BY <2>2, <2>3
<1>2. (\A b \in Browsers : InSequence(sQueue[b], seen[b]))'
    BY DEF ServerInv, InSequence
<1>3. (\A b \in Browsers : \A m \in Makers : Within(sQueue[b], seen[b], m, Sent(m)))'
    <2> SUFFICES ASSUME NEW b \in Browsers, NEW m \in Makers
                 PROVE  Within(sQueue[b], seen[b], m, Sent(m)')
        BY DEF Within
    <2>1. Sent(m)' = Sent(m)
        BY DEF Sent
    <2> QED BY <2>1 DEF ServerInv, ServerBound
<1>4. (\A p \in Casters \cup Readers : \A b \in sTargets[p] :
          Within(sQueue[b], seen[b], sSending[p].from, sSending[p].nr - 1))'
    <2> SUFFICES ASSUME NEW p \in Casters \cup Readers, NEW b \in sTargets'[p]
                 PROVE  Within(sQueue[b], seen'[b], sSending'[p].from, sSending'[p].nr - 1)
        BY DEF Within
    <2>1. b \in sTargets[p] /\ b \in Browsers
        BY ServerTyped
    <2>2. sSending'[p] # None
        BY DEF TypeOK, S!TypeOK
    <2> QED BY <2>1, <2>2 DEF ServerInv, ServerBound
<1> QED BY <1>1, <1>2, <1>3, <1>4 DEF ServerInv, ServerBound

\* A broadcast begins with an event that is newer than all of its goroutine.
LEMMA ServerPublishes ==
    ASSUME TypeOK, TypeOK', ServerInv, NEW p \in Casters \cup Readers, NEW e \in Event, S!Publish(p, e),
           Sent(e.from) < e.nr,
           \A m \in Makers : Sent(m)' \in Int /\ Sent(m) <= Sent(m)',
           \A b \in Browsers : seen'[b] = seen[b],
           ServerSending'
    PROVE  ServerInv'
<1>1. /\ UNCHANGED sQueue
      /\ sSending'[p] = e /\ sTargets'[p] = sSubs /\ sSubs \subseteq Browsers
      /\ \A q \in Casters \cup Readers : q # p => sSending'[q] = sSending[q] /\ sTargets'[q] = sTargets[q]
    BY DEF S!Publish, TypeOK, S!TypeOK
<1>2. (\A b \in Browsers : InSequence(sQueue[b], seen[b]))'
    BY <1>1 DEF ServerInv, InSequence
<1>3. (\A b \in Browsers : \A m \in Makers : Within(sQueue[b], seen[b], m, Sent(m)))'
    <2> SUFFICES ASSUME NEW b \in Browsers, NEW m \in Makers
                 PROVE  Within(sQueue[b], seen[b], m, Sent(m)')
        BY <1>1 DEF Within
    <2>1. Sent(m) \in Int /\ Sent(m)' \in Int /\ Sent(m) <= Sent(m)'
        BY ServerTyped
    <2>2. Within(sQueue[b], seen[b], m, Sent(m))
        BY DEF ServerInv, ServerBound
    <2> QED BY <2>1, <2>2, ServerTyped, WithinMore
<1>4. ASSUME NEW b \in Browsers PROVE Within(sQueue[b], seen[b], e.from, e.nr - 1)
    <2>1. e.from \in Makers /\ e.nr \in Int
        BY Numbers
    <2>2. Within(sQueue[b], seen[b], e.from, Sent(e.from))
        BY <2>1 DEF ServerInv, ServerBound
    <2>3. Sent(e.from) \in Int /\ Sent(e.from) <= e.nr - 1 /\ e.nr - 1 \in Int
        BY <2>1, ServerTyped
    <2> QED BY <2>1, <2>2, <2>3, ServerTyped, WithinMore
<1>5. (\A q \in Casters \cup Readers : \A b \in sTargets[q] :
          Within(sQueue[b], seen[b], sSending[q].from, sSending[q].nr - 1))'
    <2> SUFFICES ASSUME NEW q \in Casters \cup Readers, NEW b \in sTargets'[q]
                 PROVE  Within(sQueue[b], seen'[b], sSending'[q].from, sSending'[q].nr - 1)
        BY <1>1 DEF Within
    <2>1. CASE q = p
        BY <1>1, <1>4, <2>1
    <2>2. CASE q # p
        <3>1. b \in sTargets[q] /\ b \in Browsers
            BY <1>1, <2>2, ServerTyped
        <3> QED BY <1>1, <2>2, <3>1 DEF ServerInv, ServerBound
    <2> QED BY <2>1, <2>2
<1> QED BY <1>2, <1>3, <1>5 DEF ServerInv, ServerBound

LEMMA ServerOffers ==
    ASSUME TypeOK, ServerInv, NEW p \in Casters \cup Readers, NEW c \in Browsers, S!Offer(p, c),
           UNCHANGED <<made, seen>>
    PROVE  ServerInv'
<1> DEFINE e == sSending[p]
<1>1. c \in sTargets[p] /\ e # None /\ e \in Event /\ sQueue[c] \in Seq(Event) /\ seen[c] \in Counts
    BY ServerTyped DEF S!Offer
<1>2. /\ \A b \in Browsers : b # c => sQueue'[b] = sQueue[b]
      /\ sQueue'[c] \in {sQueue[c], Append(sQueue[c], e)}
      /\ sTargets'[p] = sTargets[p] \ {c}
      /\ \A q \in Casters \cup Readers : q # p => sTargets'[q] = sTargets[q]
      /\ UNCHANGED sSending
    BY DEF S!Offer, TypeOK, S!TypeOK
<1>3. InSequence(sQueue[c], seen[c]) /\ Within(sQueue[c], seen[c], e.from, e.nr - 1)
    BY <1>1 DEF ServerInv, ServerBound
<1>4. InSequence(sQueue'[c], seen[c])
    BY <1>1, <1>2, <1>3, AppendOrdered
<1>5. e.nr <= Sent(e.from)
    BY <1>1, SendingIsSent
<1>6. ASSUME NEW m, NEW n, Within(sQueue[c], seen[c], m, n), e.from = m => e.nr <= n
      PROVE  Within(sQueue'[c], seen[c], m, n)
    <2> HIDE DEF e
    <2>1. Within(Append(sQueue[c], e), seen[c], m, n)
        BY <1>1, <1>6, AppendWithin
    <2> QED BY <1>2, <1>6, <2>1
<1>7. ServerSending'
    BY <1>2 DEF ServerInv, ServerSending
<1>8. (\A b \in Browsers : InSequence(sQueue[b], seen[b]))'
    <2> SUFFICES ASSUME NEW b \in Browsers PROVE InSequence(sQueue'[b], seen[b])
        BY DEF InSequence
    <2> QED BY <1>2, <1>4 DEF ServerInv
<1>9. (\A b \in Browsers : \A m \in Makers : Within(sQueue[b], seen[b], m, Sent(m)))'
    <2> SUFFICES ASSUME NEW b \in Browsers, NEW m \in Makers
                 PROVE  Within(sQueue'[b], seen[b], m, Sent(m)')
        BY DEF Within
    <2>1. Sent(m)' = Sent(m)
        BY DEF Sent
    <2>2. Within(sQueue[b], seen[b], m, Sent(m))
        BY DEF ServerInv, ServerBound
    <2>3. CASE b = c
        <3> HIDE DEF e
        <3>1. e.from = m => e.nr <= Sent(m)
            BY <1>5
        <3> QED BY <1>6, <2>1, <2>2, <2>3, <3>1
    <2>4. CASE b # c
        BY <1>2, <2>1, <2>2, <2>4
    <2> QED BY <2>3, <2>4
<1>10. (\A q \in Casters \cup Readers : \A b \in sTargets[q] :
          Within(sQueue[b], seen[b], sSending[q].from, sSending[q].nr - 1))'
    <2> SUFFICES ASSUME NEW q \in Casters \cup Readers, NEW b \in sTargets'[q]
                 PROVE  Within(sQueue'[b], seen[b], sSending[q].from, sSending[q].nr - 1)
        BY <1>2 DEF Within
    <2>1. b \in sTargets[q] /\ b \in Browsers /\ (q = p => b # c)
        BY <1>2, ServerTyped
    <2>2. Within(sQueue[b], seen[b], sSending[q].from, sSending[q].nr - 1)
        BY <2>1 DEF ServerInv, ServerBound
    <2>3. CASE b = c
        <3>1. q # p /\ sSending[q] # None
            BY <2>1, <2>3, ServerTyped
        <3>2. e.from # sSending[q].from
            BY <1>1, <3>1, SendersDiffer
        <3> HIDE DEF e
        <3> QED BY <1>6, <2>2, <2>3, <3>2
    <2>4. CASE b # c
        BY <1>2, <2>1, <2>2, <2>4
    <2> QED BY <2>3, <2>4
<1> QED BY <1>7, <1>8, <1>9, <1>10 DEF ServerInv, ServerBound

LEMMA ServerReceives ==
    ASSUME TypeOK, ServerInv, NEW c \in Browsers, S!Receive(c), Saw(c, Head(sQueue[c])), UNCHANGED made
    PROVE  ServerInv'
<1> DEFINE e   == Head(sQueue[c])
           new == [seen[c] EXCEPT ![e.from] = e.nr]
<1>1. /\ sQueue[c] \in Seq(Event) /\ sQueue[c] # <<>> /\ seen[c] \in Counts
      /\ seen'[c] = new /\ \A b \in Browsers \cup Readers : b # c => seen'[b] = seen[b]
      /\ sQueue'[c] = Tail(sQueue[c]) /\ \A b \in Browsers : b # c => sQueue'[b] = sQueue[b]
      /\ UNCHANGED <<sSending, sTargets>>
    BY ServerTyped DEF TypeOK, S!TypeOK, S!Receive, Saw
<1>2. c \notin Readers
    BY EventsAssumption
<1>3. ServerSending'
    BY <1>1, <1>2 DEF ServerInv, ServerSending
<1>4. InSequence(Tail(sQueue[c]), new)
    BY <1>1, ReceiveOrdered DEF ServerInv
<1>5. (\A b \in Browsers : InSequence(sQueue[b], seen[b]))'
    <2> SUFFICES ASSUME NEW b \in Browsers PROVE InSequence(sQueue'[b], seen'[b])
        BY DEF InSequence
    <2> QED BY <1>1, <1>4 DEF ServerInv
<1>6. ASSUME NEW b \in Browsers, NEW m \in Makers, NEW n, Within(sQueue[b], seen[b], m, n)
      PROVE  Within(sQueue'[b], seen'[b], m, n)
    <2>1. CASE b = c
        <3>1. Within(Tail(sQueue[c]), new, m, n)
            BY <1>1, <1>6, <2>1, ReceiveWithin
        <3> QED BY <1>1, <2>1, <3>1
    <2>2. CASE b # c
        BY <1>1, <1>6, <2>2
    <2> QED BY <2>1, <2>2
<1>7. (\A b \in Browsers : \A m \in Makers : Within(sQueue[b], seen[b], m, Sent(m)))'
    <2> SUFFICES ASSUME NEW b \in Browsers, NEW m \in Makers
                 PROVE  Within(sQueue'[b], seen'[b], m, Sent(m)')
        BY DEF Within
    <2>1. Sent(m)' = Sent(m)
        BY <1>1, <1>2 DEF Sent
    <2> QED BY <1>6, <2>1 DEF ServerInv, ServerBound
<1>8. (\A p \in Casters \cup Readers : \A b \in sTargets[p] :
          Within(sQueue[b], seen[b], sSending[p].from, sSending[p].nr - 1))'
    <2> SUFFICES ASSUME NEW p \in Casters \cup Readers, NEW b \in sTargets[p]
                 PROVE  Within(sQueue'[b], seen'[b], sSending[p].from, sSending[p].nr - 1)
        BY <1>1 DEF Within
    <2>1. b \in Browsers /\ sSending[p] \in Event
        BY ServerTyped
    <2>2. sSending[p].from \in Makers
        BY <2>1, Numbers
    <2> QED BY <1>6, <2>1, <2>2 DEF ServerInv, ServerBound
<1> QED BY <1>3, <1>5, <1>7, <1>8 DEF ServerInv, ServerBound

-----------------------------------------------------------------------------
(* The whole of it.                                                        *)

LEMMA InitInv == Init => IInv
<1> SUFFICES ASSUME Init PROVE IInv
    OBVIOUS
<1>1. MaxEvents \in Nat /\ EngineCapacity \in Nat /\ ServerCapacity \in Nat
    BY EventsAssumption
<1>2. TypeOK
    <2>1. <<>> \in Seq(Event) /\ Len(<<>>) = 0
        OBVIOUS
    <2>2. E!Init => /\ \A r \in Readers : Len(eQueue[r]) <= EngineCapacity
                    /\ eQueue \in [Readers -> Seq(Event)]
        BY <1>1, <2>1 DEF E!Init
    <2>3. S!Init => /\ \A b \in Browsers : Len(sQueue[b]) <= ServerCapacity
                    /\ sQueue \in [Browsers -> Seq(Event)]
        BY <1>1, <2>1 DEF S!Init
    <2>4. E!TypeOK(Event)
        BY <2>2 DEF Init, E!Init, E!TypeOK
    <2>5. S!TypeOK(Event)
        BY <2>3 DEF Init, S!Init, S!TypeOK
    <2>6. 0 \in 0..MaxEvents
        BY <1>1
    <2>7. made \in [Makers -> 0..MaxEvents] /\ seen \in [Browsers \cup Readers -> [Makers -> 0..MaxEvents]]
        BY <2>6 DEF Init
    <2> QED BY <2>4, <2>5, <2>7 DEF Init, TypeOK
<1>3. EngineInv
    BY <1>1 DEF Init, E!Init, EngineInv, EngineSending, FromJobs, EngineBound, InSequence, Within, Makers
<1>4. ServerInv
    <2>1. ServerSending /\ \A b \in Browsers : InSequence(sQueue[b], seen[b])
        BY DEF Init, S!Init, ServerSending, InSequence
    <2>2. \A m \in Makers : Sent(m) = 0
        BY DEF Init, Sent
    <2>3. ServerBound
        BY <2>2 DEF Init, S!Init, ServerBound, Within
    <2> QED BY <2>1, <2>3 DEF ServerInv
<1> QED BY <1>2, <1>3, <1>4 DEF IInv

LEMMA TypeStep == TypeOK /\ [Next]_vars => TypeOK'
<1> SUFFICES ASSUME TypeOK, [Next]_vars PROVE TypeOK'
    OBVIOUS
<1> DEFINE Rest == /\ reader' \in Readers /\ returned' \in BOOLEAN
                   /\ made' \in [Makers -> 0..MaxEvents]
                   /\ seen' \in [Browsers \cup Readers -> [Makers -> 0..MaxEvents]]
<1>1. UNCHANGED engineVars => E!TypeOK(Event)'
    BY DEF TypeOK, engineVars, E!TypeOK
<1>2. UNCHANGED serverVars => S!TypeOK(Event)'
    BY DEF TypeOK, serverVars, S!TypeOK
<1>3. UNCHANGED <<reader, made, seen, returned>> => Rest
    BY DEF TypeOK
<1>4. ASSUME NEW m \in Makers, Make(m)
      PROVE  Made(m) \in Event /\ made' \in [Makers -> 0..MaxEvents]
    BY <1>4, EventsAssumption DEF Make, Made, Event, TypeOK
<1>5. ASSUME NEW r \in Browsers \cup Readers, NEW e \in Event, Saw(r, e)
      PROVE  seen' \in [Browsers \cup Readers -> [Makers -> 0..MaxEvents]]
    <2>1. e.from \in Makers /\ e.nr \in 0..MaxEvents
        BY Numbers
    <2> QED BY <1>5, <2>1 DEF Saw, TypeOK
<1>6. Jobs \subseteq Makers /\ Casters \subseteq Makers
    BY DEF Makers
<1>7. ASSUME NEW j \in Jobs, Emit(j) PROVE TypeOK'
    <2>1. E!TypeOK(Event)'
        BY <1>4, <1>6, <1>7, EngineTypes DEF Emit, TypeOK
    <2> QED BY <1>2, <1>4, <1>6, <1>7, <2>1 DEF Emit, TypeOK
<1>8. ASSUME NEW j \in Jobs, EngineStep(j) PROVE TypeOK'
    <2>1. E!TypeOK(Event)'
        BY <1>8, EngineTypes DEF EngineStep, TypeOK
    <2> QED BY <1>2, <1>3, <1>8, <2>1 DEF EngineStep, TypeOK
<1>9. ASSUME NEW r \in Readers, EngineSubscribe(r) PROVE TypeOK'
    <2>1. E!TypeOK(Event)'
        BY <1>9, EngineTypes DEF EngineSubscribe, TypeOK
    <2> QED BY <1>2, <1>3, <1>9, <2>1 DEF EngineSubscribe, TypeOK
<1>10. ASSUME NEW r \in Readers, E!Receive(r) PROVE Head(eQueue[r]) \in Event /\ E!TypeOK(Event)'
    <2>1. eQueue[r] \in Seq(Event) /\ eQueue[r] # <<>>
        BY <1>10 DEF E!Receive, TypeOK, E!TypeOK
    <2>2. Head(eQueue[r]) \in Event
        BY <2>1
    <2> QED BY <1>10, <2>2, EngineTypes DEF TypeOK
<1>11. ASSUME Forward PROVE TypeOK'
    <2>1. "forwarder" \in Readers
        BY <1>11 DEF Forward, Daemon, TypeOK
    <2>2. Head(eQueue["forwarder"]) \in Event /\ E!TypeOK(Event)'
        BY <1>10, <1>11, <2>1 DEF Forward
    <2>3. S!TypeOK(Event)'
        BY <1>11, <2>1, <2>2, ServerTypes DEF Forward, TypeOK
    <2> QED BY <1>5, <1>11, <2>1, <2>2, <2>3 DEF Forward, TypeOK
<1>12. ASSUME CommandRead PROVE TypeOK'
    <2>1. "cmdBuild" \in Readers
        BY <1>12 DEF CommandRead, Command, TypeOK
    <2>2. Head(eQueue["cmdBuild"]) \in Event /\ E!TypeOK(Event)'
        BY <1>10, <1>12, <2>1 DEF CommandRead
    <2> QED BY <1>2, <1>5, <1>12, <2>1, <2>2 DEF CommandRead, TypeOK
<1>13. ASSUME CommandLeave PROVE TypeOK'
    <2>1. "cmdBuild" \in Readers
        BY <1>13 DEF CommandLeave, E!Unsubscribe, TypeOK, E!TypeOK
    <2>2. E!TypeOK(Event)'
        BY <1>13, <2>1, EngineTypes DEF CommandLeave, TypeOK
    <2> QED BY <1>2, <1>3, <1>13, <2>2 DEF CommandLeave, TypeOK
<1>14. ASSUME NEW m \in Casters, Broadcast(m) PROVE TypeOK'
    <2>1. S!TypeOK(Event)'
        BY <1>4, <1>6, <1>14, ServerTypes DEF Broadcast, TypeOK
    <2> QED BY <1>1, <1>4, <1>6, <1>14, <2>1 DEF Broadcast, TypeOK
<1>15. ASSUME NEW p \in Casters \cup Readers, ServerStep(p) PROVE TypeOK'
    <2>1. S!TypeOK(Event)'
        BY <1>15, ServerTypes DEF ServerStep, TypeOK
    <2> QED BY <1>1, <1>3, <1>15, <2>1 DEF ServerStep, TypeOK
<1>16. ASSUME NEW b \in Browsers, Connect(b) \/ Disconnect(b) PROVE TypeOK'
    <2>1. S!TypeOK(Event)'
        BY <1>16, ServerTypes DEF Connect, Disconnect, TypeOK
    <2> QED BY <1>1, <1>3, <1>16, <2>1 DEF Connect, Disconnect, TypeOK
<1>17. ASSUME NEW b \in Browsers, Read(b) PROVE TypeOK'
    <2>1. S!TypeOK(Event)'
        BY <1>17, ServerTypes DEF Read, TypeOK
    <2>2. sQueue[b] \in Seq(Event) /\ sQueue[b] # <<>>
        BY <1>17 DEF Read, S!Receive, TypeOK, S!TypeOK
    <2>3. Head(sQueue[b]) \in Event
        BY <2>2
    <2> QED BY <1>1, <1>5, <1>17, <2>1, <2>3 DEF Read, TypeOK
<1>18. CASE UNCHANGED vars
    BY <1>1, <1>2, <1>3, <1>18 DEF vars, TypeOK
<1> QED
    BY <1>7, <1>8, <1>9, <1>11, <1>12, <1>13, <1>14, <1>15, <1>16, <1>17, <1>18 DEF Next

\* The engine's order depends on nothing of the server, and the server's on
\* the forwarder's reading and the makers of its own events.
LEMMA InvStep == IInv /\ [Next]_vars => IInv'
<1> SUFFICES ASSUME IInv, [Next]_vars PROVE IInv'
    OBVIOUS
<1>1. TypeOK /\ EngineInv /\ ServerInv /\ TypeOK'
    BY TypeStep DEF IInv
<1>2. UNCHANGED <<engineVars, seen>> /\ (\A j \in Jobs : made'[j] = made[j]) => EngineInv'
    BY <1>1, EngineQuiet DEF engineVars
<1>3. UNCHANGED <<serverVars, seen>> /\ (\A m \in Casters : made'[m] = made[m]) => ServerInv'
    BY <1>1, ServerQuiet DEF serverVars
<1>4. \A m \in Casters : m \notin Jobs
    BY EventsAssumption DEF Casters
<1>5. ASSUME NEW k \in Makers, Make(k) PROVE \A m \in Makers : m # k => made'[m] = made[m]
    BY <1>1, <1>5 DEF Make, TypeOK
<1>6. Jobs \subseteq Makers /\ Casters \subseteq Makers
    BY DEF Makers
<1>7. ASSUME NEW j \in Jobs, Emit(j) PROVE IInv'
    <2>1. EngineInv'
        BY <1>1, <1>7, EnginePublishes DEF Emit
    <2>2. ServerInv'
        BY <1>3, <1>4, <1>5, <1>6, <1>7 DEF Emit
    <2> QED BY <1>1, <2>1, <2>2 DEF IInv
<1>8. ASSUME NEW j \in Jobs, EngineStep(j) PROVE IInv'
    <2>1. ASSUME NEW c \in Readers, E!Offer(j, c) PROVE EngineInv'
        BY <1>1, <1>8, <2>1, EngineOffers DEF EngineStep
    <2>2. ASSUME NEW c \in Readers, E!SendOnClosed(j, c) PROVE EngineInv'
        BY <1>1, <1>8, <2>2, EngineQuiet DEF EngineStep, E!SendOnClosed, TypeOK, E!TypeOK
    <2>3. ASSUME E!Finish(j) PROVE EngineInv'
        BY <1>1, <1>8, <2>3, EngineQuiet DEF EngineStep, E!Finish, TypeOK, E!TypeOK
    <2>4. EngineInv'
        BY <1>8, <2>1, <2>2, <2>3 DEF EngineStep, E!PublishStep
    <2>5. ServerInv'
        BY <1>3, <1>8 DEF EngineStep
    <2> QED BY <1>1, <2>4, <2>5 DEF IInv
<1>9. ASSUME NEW r \in Readers, EngineSubscribe(r) PROVE IInv'
    <2>1. EngineInv'
        BY <1>1, <1>9, EngineQuiet DEF EngineSubscribe, E!Subscribe
    <2> QED BY <1>1, <1>3, <1>9, <2>1 DEF EngineSubscribe, IInv
<1>10. ASSUME Forward PROVE IInv'
    <2> DEFINE f == "forwarder"
               e == Head(eQueue[f])
    <2>1. /\ f \in Readers /\ E!Receive(f) /\ Saw(f, e) /\ S!Publish(f, e) /\ UNCHANGED made
          /\ f \notin Casters /\ f \notin Browsers
        BY <1>1, <1>10, EventsAssumption DEF Forward, Daemon, TypeOK, Casters
    <2>2. EngineInv'
        BY <1>1, <2>1, EngineReceives
    <2>3. eQueue[f] \in Seq(Event) /\ eQueue[f] # <<>> /\ seen[f] \in Counts
        BY <1>1, <2>1, EngineTyped DEF E!Receive
    <2>4. e = eQueue[f][1] /\ 1 \in DOMAIN eQueue[f] /\ e \in Event
        BY <2>3
    <2>5. e.from \in Jobs /\ e.nr > seen[f][e.from] /\ e.from \in Makers /\ e.nr \in Int
        BY <1>1, <2>1, <2>4, Numbers DEF EngineInv, FromJobs, InSequence
    <2>6. e.from \notin Casters
        BY <1>4, <2>5
    <2> HIDE DEF e
    <2>7. /\ seen'[f][e.from] = e.nr
          /\ \A m \in Makers : m # e.from => seen'[f][m] = seen[f][m]
          /\ \A r \in Browsers \cup Readers : r # f => seen'[r] = seen[r]
        BY <1>1, <2>1, <2>5 DEF Saw, TypeOK
    <2>8. Sent(e.from) < e.nr
        BY <2>1, <2>3, <2>5, <2>6, Numbers DEF Sent
    <2>9. ASSUME NEW m \in Makers PROVE Sent(m)' \in Int /\ Sent(m) <= Sent(m)'
        <3>1. Sent(m) \in Int
            BY <1>1, ServerTyped
        <3>2. CASE m = e.from
            BY <2>1, <2>5, <2>6, <2>7, <2>8, <3>1, <3>2 DEF Sent
        <3>3. CASE m # e.from
            <4>1. Sent(m)' = Sent(m)
                BY <2>1, <2>7, <3>3 DEF Sent
            <4> QED BY <3>1, <4>1
        <3> QED BY <3>2, <3>3
    <2>10. \A b \in Browsers : seen'[b] = seen[b]
        BY <2>1, <2>7
    <2>11. ServerSending'
        <3> SUFFICES ASSUME NEW p \in Casters \cup Readers, sSending'[p] # None
                     PROVE  IF p \in Casters
                            THEN sSending'[p] = [from |-> p, nr |-> made'[p]]
                            ELSE /\ p = f /\ sSending'[p].from \in Jobs
                                 /\ sSending'[p].nr = seen'[p][sSending'[p].from]
            BY DEF ServerSending
        <3>1. sSending'[f] = e /\ \A q \in Casters \cup Readers : q # f => sSending'[q] = sSending[q]
            BY <1>1, <2>1 DEF S!Publish, TypeOK, S!TypeOK
        <3>2. CASE p = f
            BY <2>1, <2>5, <2>7, <3>1, <3>2
        <3>3. CASE p # f
            BY <1>1, <2>1, <3>1, <3>3 DEF ServerInv, ServerSending
        <3> QED BY <3>2, <3>3
    <2>12. ServerInv'
        BY <1>1, <2>1, <2>4, <2>8, <2>9, <2>10, <2>11, ServerPublishes DEF e
    <2> QED BY <1>1, <2>2, <2>12 DEF IInv
<1>11. ASSUME CommandRead PROVE IInv'
    <2> DEFINE c == "cmdBuild"
    <2>1. /\ c \in Readers /\ E!Receive(c) /\ Saw(c, Head(eQueue[c])) /\ UNCHANGED <<made, serverVars>>
          /\ c \notin Browsers /\ c # "forwarder"
        BY <1>1, <1>11, EventsAssumption DEF CommandRead, Command, TypeOK
    <2>2. EngineInv'
        BY <1>1, <2>1, EngineReceives
    <2>3. \A r \in Browsers \cup Readers : r # c => seen'[r] = seen[r]
        BY <1>1, <2>1 DEF Saw, TypeOK
    <2>4. ServerInv'
        BY <1>1, <2>1, <2>3, ServerQuiet DEF serverVars
    <2> QED BY <1>1, <2>2, <2>4 DEF IInv
<1>12. ASSUME CommandLeave PROVE IInv'
    <2>1. EngineInv'
        BY <1>1, <1>12, EngineQuiet DEF CommandLeave, E!Unsubscribe
    <2> QED BY <1>1, <1>3, <1>12, <2>1 DEF CommandLeave, IInv
<1>13. ASSUME NEW k \in Casters, Broadcast(k) PROVE IInv'
    <2> DEFINE e == Made(k)
    <2>1. /\ k \in Makers /\ e.from = k /\ e.nr = made[k] + 1 /\ made'[k] = made[k] + 1
          /\ e = [from |-> k, nr |-> made'[k]] /\ made[k] \in Int
          /\ S!Publish(k, e) /\ UNCHANGED <<seen, engineVars>>
        BY <1>1, <1>6, <1>13, ServerTyped DEF Broadcast, Make, Made, TypeOK
    <2>2. EngineInv'
        BY <1>2, <1>4, <1>5, <1>6, <1>13, <2>1 DEF Broadcast
    <2>3. e \in Event
        BY <1>1, <1>13, <2>1, EventsAssumption DEF Broadcast, Make, Event, TypeOK
    <2> HIDE DEF e
    <2>4. \A m \in Makers : m # k => made'[m] = made[m]
        BY <1>5, <1>6, <1>13 DEF Broadcast
    <2>5. Sent(e.from) < e.nr
        BY <2>1 DEF Sent
    <2>6. ASSUME NEW m \in Makers PROVE Sent(m)' \in Int /\ Sent(m) <= Sent(m)'
        <3>1. Sent(m) \in Int
            BY <1>1, ServerTyped
        <3>2. CASE m = k
            BY <2>1, <3>2 DEF Sent
        <3>3. CASE m # k
            <4>1. Sent(m)' = Sent(m)
                BY <2>1, <2>4, <3>3 DEF Sent
            <4> QED BY <3>1, <4>1
        <3> QED BY <3>2, <3>3
    <2>7. ServerSending'
        <3> SUFFICES ASSUME NEW p \in Casters \cup Readers, sSending'[p] # None
                     PROVE  IF p \in Casters
                            THEN sSending'[p] = [from |-> p, nr |-> made'[p]]
                            ELSE /\ p = "forwarder" /\ sSending'[p].from \in Jobs
                                 /\ sSending'[p].nr = seen'[p][sSending'[p].from]
            BY DEF ServerSending
        <3>1. sSending'[k] = e /\ \A q \in Casters \cup Readers : q # k => sSending'[q] = sSending[q]
            BY <1>1, <2>1 DEF S!Publish, TypeOK, S!TypeOK
        <3>2. CASE p = k
            BY <2>1, <3>1, <3>2
        <3>3. CASE p # k /\ p \in Casters
            <4>1. made'[p] = made[p] /\ sSending'[p] = sSending[p]
                BY <1>6, <2>4, <3>1, <3>3
            <4>2. sSending[p] = [from |-> p, nr |-> made[p]]
                BY <1>1, <3>3, <4>1 DEF ServerInv, ServerSending
            <4> QED BY <3>3, <4>1, <4>2
        <3>4. CASE p # k /\ p \notin Casters
            <4>1. seen' = seen /\ sSending'[p] = sSending[p]
                BY <2>1, <3>1, <3>4
            <4>2. p = "forwarder" /\ sSending[p].from \in Jobs /\ sSending[p].nr = seen[p][sSending[p].from]
                BY <1>1, <3>4, <4>1 DEF ServerInv, ServerSending
            <4> QED BY <3>4, <4>1, <4>2
        <3> QED BY <3>2, <3>3, <3>4
    <2>8. \A b \in Browsers : seen'[b] = seen[b]
        BY <2>1
    <2>9. ServerInv'
        BY <1>1, <2>1, <2>3, <2>5, <2>6, <2>7, <2>8, ServerPublishes
    <2> QED BY <1>1, <2>2, <2>9 DEF IInv
<1>14. ASSUME NEW p \in Casters \cup Readers, ServerStep(p) PROVE IInv'
    <2>1. ASSUME NEW b \in Browsers, S!Offer(p, b) PROVE ServerInv'
        BY <1>1, <1>14, <2>1, ServerOffers DEF ServerStep
    <2>2. ASSUME NEW b \in Browsers, S!SendOnClosed(p, b) PROVE ServerInv'
        <3>1. /\ UNCHANGED sQueue
              /\ \A q \in Casters \cup Readers : /\ sSending'[q] \in {sSending[q], None}
                                                 /\ sTargets'[q] \subseteq sTargets[q]
            <4>1. /\ DOMAIN sSending = Casters \cup Readers
                  /\ DOMAIN sTargets = Casters \cup Readers
                BY <1>1 DEF TypeOK, S!TypeOK
            <4>2. CASE p \in Handlers
                BY <2>2, <4>1, <4>2 DEF S!SendOnClosed
            <4>3. CASE p \notin Handlers
                BY <2>2, <4>1, <4>3 DEF S!SendOnClosed
            <4> QED BY <4>2, <4>3
        <3>2. UNCHANGED <<made, seen>>
            BY <1>14 DEF ServerStep
        <3> QED BY <1>1, <3>1, <3>2, ServerQuiet
    <2>3. ASSUME S!Finish(p) PROVE ServerInv'
        BY <1>1, <1>14, <2>3, ServerQuiet DEF ServerStep, S!Finish, TypeOK, S!TypeOK
    <2>4. ServerInv'
        BY <1>14, <2>1, <2>2, <2>3 DEF ServerStep, S!PublishStep
    <2> QED BY <1>1, <1>2, <1>14, <2>4 DEF ServerStep, IInv
<1>15. ASSUME NEW b \in Browsers, Connect(b) \/ Disconnect(b) PROVE IInv'
    <2>1. ServerInv'
        BY <1>1, <1>15, ServerQuiet DEF Connect, Disconnect, S!Subscribe, S!Unsubscribe
    <2> QED BY <1>1, <1>2, <1>15, <2>1 DEF Connect, Disconnect, IInv
<1>16. ASSUME NEW b \in Browsers, Read(b) PROVE IInv'
    <2>1. ServerInv'
        BY <1>1, <1>16, ServerReceives DEF Read
    <2>2. \A r \in Readers : seen'[r] = seen[r]
        BY <1>1, <1>16, EventsAssumption DEF Read, Saw, TypeOK
    <2>3. EngineInv'
        BY <1>1, <1>16, <2>2, EngineQuiet DEF Read, engineVars
    <2> QED BY <1>1, <2>1, <2>3 DEF IInv
<1>17. CASE UNCHANGED vars
    BY <1>1, <1>2, <1>3, <1>17 DEF vars, IInv
<1> QED
    BY <1>7, <1>8, <1>9, <1>10, <1>11, <1>12, <1>13, <1>14, <1>15, <1>16, <1>17 DEF Next

\* The invariant holds of every execution.
LEMMA InvHolds == SafetySpec => []IInv
<1> QED BY InitInv, InvStep, PTL DEF SafetySpec

-----------------------------------------------------------------------------
(* Theorems.                                                               *)

\* Both hubs keep their types, whatever subscribes, leaves or is dropped: a
\* channel is never over its capacity, and nobody but a publisher that holds
\* an event has channels left to come to (events.go 13-64, engine.go 185-215).
THEOREM TypeCorrect == SafetySpec => []TypeOK
<1>1. IInv => TypeOK
    BY DEF IInv
<1> QED BY <1>1, InvHolds, PTL

\* What a reader gets from one goroutine comes in the order it was made and
\* no event twice, for any number of builds, callbacks, handlers and browsers
\* and for channels of any capacity: the drop of an event on a full channel
\* leaves a gap and turns nothing around (events.go 13-64, engine.go 185-215).
THEOREM OrderIsKept == SafetySpec => []InOrder
<1>1. IInv => InOrder
    BY DEF IInv, EngineInv, ServerInv, InOrder
<1> QED BY <1>1, InvHolds, PTL

\* What has ended cmdBuild's loop has been made.
Ended == returned => \E j \in Jobs : made[j] = MaxEvents

LEMMA EndedHolds == SafetySpec => []Ended
<1>1. Init => Ended
    BY DEF Init, Ended
<1>2. IInv /\ Ended /\ [Next]_vars => Ended'
    <2> SUFFICES ASSUME IInv, Ended, [Next]_vars PROVE Ended'
        OBVIOUS
    <2>1. UNCHANGED <<made, returned>> => Ended'
        BY DEF Ended
    <2>2. ASSUME NEW m \in Makers, Make(m), UNCHANGED returned PROVE Ended'
        <3>1. \A j \in Jobs : made[j] = MaxEvents => made'[j] = MaxEvents
            <4>1. made \in [Makers -> 0..MaxEvents] /\ Jobs \subseteq Makers
                BY DEF IInv, TypeOK, Makers
            <4>2. MaxEvents \in Nat /\ made[m] < MaxEvents
                BY <2>2, Numbers DEF Make
            <4> QED BY <2>2, <4>1, <4>2 DEF Make
        <3> QED BY <2>2, <3>1 DEF Ended
    <2>3. ASSUME CommandRead PROVE Ended'
        <3> DEFINE q == eQueue["cmdBuild"]
        <3>1. "cmdBuild" \in Readers /\ q # <<>> /\ UNCHANGED made /\ returned' = (Head(q) \in Ends)
            BY <2>3 DEF CommandRead, Command, E!Receive, IInv, TypeOK
        <3>2. q \in Seq(Event)
            BY <3>1, EngineTyped DEF IInv
        <3>3. Head(q) = q[1] /\ 1 \in DOMAIN q
            BY <3>1, <3>2
        <3>4. CASE Head(q) \in Ends
            <4>1. q[1].from \in Jobs /\ q[1].nr = MaxEvents
                BY <3>3, <3>4 DEF Ends
            <4>2. MaxEvents <= made[q[1].from]
                BY <3>1, <3>3, <4>1 DEF IInv, EngineInv, EngineBound, Within
            <4>3. made[q[1].from] = MaxEvents
                BY <4>1, <4>2, EngineTyped, Numbers DEF IInv
            <4> QED BY <3>1, <4>1, <4>3 DEF Ended
        <3>5. CASE Head(q) \notin Ends
            BY <3>1, <3>5 DEF Ended
        <3> QED BY <3>4, <3>5
    <2>4. Jobs \subseteq Makers /\ Casters \subseteq Makers
        BY DEF Makers
    <2>5. ASSUME NEW j \in Jobs, Emit(j) PROVE Ended'
        BY <2>2, <2>4, <2>5 DEF Emit
    <2>6. ASSUME NEW m \in Casters, Broadcast(m) PROVE Ended'
        BY <2>2, <2>4, <2>6 DEF Broadcast
    <2> QED
        BY <2>1, <2>3, <2>5, <2>6
        DEF Next, EngineStep, EngineSubscribe, Forward, CommandLeave, ServerStep, Connect, Read, Disconnect, vars
<1> QED BY <1>1, <1>2, InvHolds, PTL DEF SafetySpec

\* cmdBuild, which submits one job, does not return before that job is over,
\* whatever it has read and missed of it by then, for channels of any capacity
\* and a job of any number of events (main.go 337-368).
THEOREM CommandStaysToTheEnd ==
    (\A i, j \in Jobs : i = j) => (SafetySpec => []LeavesAfterEnd)
<1> SUFFICES ASSUME \A i, j \in Jobs : i = j PROVE SafetySpec => []LeavesAfterEnd
    OBVIOUS
<1>1. Ended => LeavesAfterEnd
    BY DEF Ended, LeavesAfterEnd
<1> QED BY <1>1, EndedHolds, PTL
=============================================================================

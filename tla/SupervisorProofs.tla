-------------------------- MODULE SupervisorProofs --------------------------
(***************************************************************************)
(* Theorems about Supervisor, for any sets of models, Load calls and       *)
(* Unload calls, and any port ranges; and about Gateway, which behaves     *)
(* like a supervisor, for any number of requests and any model names.      *)
(***************************************************************************)
EXTENDS Gateway, TLAPS

-----------------------------------------------------------------------------
(* Part 1: what holds whichever calls overlap.                             *)

\* What keeps the goroutines, which find instances by id, inside the map.
Consistent ==
    /\ \A l \in Loads : loadPc[l] # "idle" => loadModel[l] \in Models
    /\ \A l \in Loads : watchPc[l] # "none" \/ readyPc[l] # "none"
                          => loadPc[l] \in {"reply", "returned", "failed"}
    /\ \A l \in Loads : loadPc[l] \in {"idle", "scan", "probe", "insert"}
                          => status[l] = "absent"
    /\ \A m \in Models : instances[m] # None
                          => /\ loadModel[instances[m]] = m
                             /\ loadPc[instances[m]] \in {"start", "bind", "reply", "returned", "failed"}
                             /\ status[instances[m]] # "absent"
    /\ \A u \in Unloaders : ActiveUnload(u) => unloadModel[u] \in Models /\ unloadInst[u] \in Loads

IInv == TypeOK /\ Consistent /\ CrashRecorded

\* The initial state satisfies the inductive invariant.
LEMMA InitIInv == Init => IInv
BY SupervisorAssumption
   DEF Init, IInv, TypeOK, Consistent, CrashRecorded, LoadBusy, UnloadBusy, Live, ActiveUnload, Unloaders

\* Every step keeps the types.
LEMMA TypeStep == TypeOK /\ Consistent /\ [Next]_vars => TypeOK'
<1> SUFFICES ASSUME TypeOK, Consistent, [Next]_vars PROVE TypeOK'
  OBVIOUS
<1> USE SupervisorAssumption DEF LoadBusy, UnloadBusy, Live, ActiveUnload, instVars, loadVars,
        childVars, goVars, unloadVars, shutVars
<1>1. ASSUME NEW l \in Loads, NEW m \in Models, LoadBegin(l, m) PROVE TypeOK'
  BY <1>1 DEF TypeOK, LoadBegin
<1>2. ASSUME NEW l \in Loads, ScanPort(l) PROVE TypeOK'
  BY <1>2 DEF TypeOK, ScanPort
<1>3. ASSUME NEW l \in Loads, ProbePort(l) PROVE TypeOK'
  BY <1>3 DEF TypeOK, ProbePort
<1>4. ASSUME NEW l \in Loads, Insert(l) PROVE TypeOK'
  BY <1>4 DEF TypeOK, Insert
<1>5. ASSUME NEW l \in Loads, Start(l) PROVE TypeOK'
  BY <1>5 DEF TypeOK, Start, WithError
<1>6. ASSUME NEW l \in Loads, Bind(l) PROVE TypeOK'
  BY <1>6 DEF TypeOK, Bind
<1>7. ASSUME NEW l \in Loads, Reply(l) PROVE TypeOK'
  BY <1>7 DEF TypeOK, Reply
<1>8. ASSUME NEW l \in Loads, Watch(l) PROVE TypeOK'
  BY <1>8 DEF TypeOK, Watch, WithError
<1>9. ASSUME NEW l \in Loads, ReadyCheck(l) PROVE TypeOK'
  BY <1>9 DEF TypeOK, ReadyCheck, StillLoading, Consistent
<1>10. ASSUME NEW l \in Loads, ReadyProbe(l) PROVE TypeOK'
  BY <1>10 DEF TypeOK, ReadyProbe
<1>11. ASSUME NEW l \in Loads, ReadyMark(l) PROVE TypeOK'
  BY <1>11 DEF TypeOK, ReadyMark
<1>12. ASSUME NEW l \in Loads, ReadyTimeout(l) PROVE TypeOK'
  BY <1>12 DEF TypeOK, ReadyTimeout, WithError
<1>13. ASSUME NEW l \in Loads, ChildBinds(l) \/ ChildExits(l) PROVE TypeOK'
  BY <1>13 DEF TypeOK, ChildBinds, ChildExits
<1>23. ASSUME NEW l \in Loads, ScannerStops(l) PROVE TypeOK'
  BY <1>23 DEF TypeOK, ScannerStops
<1>14. ASSUME NEW u \in Unloads, NEW m \in Models, UnloadBegin(u, m) PROVE TypeOK'
  BY <1>14 DEF TypeOK, UnloadBegin, Lookup
<1>15. ASSUME NEW u \in Unloaders, Signal(u) PROVE TypeOK'
  BY <1>15 DEF TypeOK, Signal
<1>16. ASSUME NEW u \in Unloaders, Kill(u) PROVE TypeOK'
  BY <1>16 DEF TypeOK, Kill
<1>17. ASSUME NEW u \in Unloaders, WaitDone(u) PROVE TypeOK'
  BY <1>17 DEF TypeOK, WaitDone
<1>18. ASSUME NEW u \in Unloaders, Delete(u) PROVE TypeOK'
  BY <1>18 DEF TypeOK, Delete
<1>19. ASSUME ShutdownBegin PROVE TypeOK'
  BY <1>19 DEF TypeOK, ShutdownBegin
<1>20. ASSUME ShutdownStep PROVE TypeOK'
  BY <1>20 DEF TypeOK, ShutdownStep, ShutdownNext, ShutdownEnd, Lookup
<1>21. ASSUME NEW r \in PortRanges, SetPortRange(r) PROVE TypeOK'
  BY <1>21 DEF TypeOK, SetPortRange
<1>22. ASSUME UNCHANGED vars PROVE TypeOK'
  BY <1>22 DEF TypeOK, vars
<1> QED
  BY <1>1, <1>2, <1>3, <1>4, <1>5, <1>6, <1>7, <1>8, <1>9, <1>10, <1>11, <1>12, <1>13, <1>14,
     <1>15, <1>16, <1>17, <1>18, <1>19, <1>20, <1>21, <1>22, <1>23
     DEF Next, LoadStep, ReadyStep, UnloadStep

\* Every step keeps the map, the goroutines and the crash records consistent.
LEMMA ConsistentStep == IInv /\ [Next]_vars => Consistent' /\ CrashRecorded'
<1> SUFFICES ASSUME TypeOK, Consistent, CrashRecorded, [Next]_vars
             PROVE  Consistent' /\ CrashRecorded'
  BY DEF IInv
<1> USE SupervisorAssumption DEF LoadBusy, UnloadBusy, ActiveUnload, instVars, loadVars,
        childVars, goVars, unloadVars, shutVars
<1> DEFINE Goal == Consistent' /\ CrashRecorded'
<1>1. ASSUME NEW l \in Loads, NEW m \in Models, LoadBegin(l, m) PROVE Goal
  BY <1>1 DEF TypeOK, Consistent, CrashRecorded, LoadBegin
<1>2. ASSUME NEW l \in Loads, ScanPort(l) PROVE Goal
  BY <1>2 DEF TypeOK, Consistent, CrashRecorded, ScanPort
<1>3. ASSUME NEW l \in Loads, ProbePort(l) PROVE Goal
  BY <1>3 DEF TypeOK, Consistent, CrashRecorded, ProbePort
<1>4. ASSUME NEW l \in Loads, Insert(l) PROVE Goal
  BY <1>4 DEF TypeOK, Consistent, CrashRecorded, Insert
<1>5. ASSUME NEW l \in Loads, Start(l) PROVE Goal
  BY <1>5 DEF TypeOK, Consistent, CrashRecorded, Start, WithError
<1>6. ASSUME NEW l \in Loads, Bind(l) PROVE Goal
  BY <1>6 DEF TypeOK, Consistent, CrashRecorded, Bind
<1>7. ASSUME NEW l \in Loads, Reply(l) PROVE Goal
  BY <1>7 DEF TypeOK, Consistent, CrashRecorded, Reply
<1>8. ASSUME NEW l \in Loads, Watch(l) PROVE Goal
  BY <1>8 DEF TypeOK, Consistent, CrashRecorded, Watch, WithError
<1>9. ASSUME NEW l \in Loads, ReadyCheck(l) PROVE Goal
  BY <1>9 DEF TypeOK, Consistent, CrashRecorded, ReadyCheck, StillLoading
<1>10. ASSUME NEW l \in Loads, ReadyProbe(l) PROVE Goal
  BY <1>10 DEF TypeOK, Consistent, CrashRecorded, ReadyProbe
<1>11. ASSUME NEW l \in Loads, ReadyMark(l) PROVE Goal
  BY <1>11 DEF TypeOK, Consistent, CrashRecorded, ReadyMark, StillLoading
<1>12. ASSUME NEW l \in Loads, ReadyTimeout(l) PROVE Goal
  BY <1>12 DEF TypeOK, Consistent, CrashRecorded, ReadyTimeout, WithError
<1>13. ASSUME NEW l \in Loads, ChildBinds(l) \/ ChildExits(l) PROVE Goal
  BY <1>13 DEF TypeOK, Consistent, CrashRecorded, ChildBinds, ChildExits
<1>14. ASSUME NEW l \in Loads, ScannerStops(l) PROVE Goal
  BY <1>14 DEF TypeOK, Consistent, CrashRecorded, ScannerStops
<1>15. ASSUME NEW u \in Unloads, NEW m \in Models, UnloadBegin(u, m) PROVE Goal
  BY <1>15 DEF TypeOK, Consistent, CrashRecorded, UnloadBegin, Lookup
<1>16. ASSUME NEW u \in Unloaders, Signal(u) PROVE Goal
  BY <1>16 DEF TypeOK, Consistent, CrashRecorded, Signal
<1>17. ASSUME NEW u \in Unloaders, Kill(u) PROVE Goal
  BY <1>17 DEF TypeOK, Consistent, CrashRecorded, Kill
<1>18. ASSUME NEW u \in Unloaders, WaitDone(u) PROVE Goal
  BY <1>18 DEF TypeOK, Consistent, CrashRecorded, WaitDone
<1>19. ASSUME NEW u \in Unloaders, Delete(u) PROVE Goal
  BY <1>19 DEF TypeOK, Consistent, CrashRecorded, Delete
<1>20. ASSUME ShutdownBegin PROVE Goal
  BY <1>20 DEF TypeOK, Consistent, CrashRecorded, ShutdownBegin
<1>21. ASSUME ShutdownStep PROVE Goal
  BY <1>21 DEF TypeOK, Consistent, CrashRecorded, ShutdownStep, ShutdownNext, ShutdownEnd, Lookup
<1>22. ASSUME NEW r \in PortRanges, SetPortRange(r) PROVE Goal
  BY <1>22 DEF TypeOK, Consistent, CrashRecorded, SetPortRange
<1>23. ASSUME UNCHANGED vars PROVE Goal
  BY <1>23 DEF TypeOK, Consistent, CrashRecorded, vars
<1> QED
  BY <1>1, <1>2, <1>3, <1>4, <1>5, <1>6, <1>7, <1>8, <1>9, <1>10, <1>11, <1>12, <1>13, <1>14,
     <1>15, <1>16, <1>17, <1>18, <1>19, <1>20, <1>21, <1>22, <1>23
     DEF Next, LoadStep, ReadyStep, UnloadStep

\* The inductive invariant holds in every state.
LEMMA Inductive == SafetySpec => []IInv
<1>1. IInv /\ [Next]_vars => IInv'
  BY TypeStep, ConsistentStep DEF IInv
<1> QED
  BY InitIInv, <1>1, PTL DEF SafetySpec

\* Every variable keeps its type, in every state of every behaviour.
THEOREM TypeCorrect == SafetySpec => []TypeOK
BY Inductive, PTL DEF IInv

\* No crash of a listed instance goes unrecorded.
THEOREM CrashesAreRecorded == SafetySpec => []CrashRecorded
BY Inductive, PTL DEF IInv

\* A step leaves an Instance's status alone, or inserts it as "loading", or
\* makes a listed one "ready" from "loading", or "error".
StatusStep(l) ==
    \/ status'[l] = status[l]
    \/ status[l] = "absent" /\ status'[l] = "loading"
    \/ status[l] = "loading" /\ status'[l] = "ready"
    \/ status'[l] = "error"

LEMMA StatusSteps == IInv /\ [Next]_vars => \A l \in Loads : StatusStep(l)
<1> SUFFICES ASSUME IInv, [Next]_vars, NEW k \in Loads PROVE StatusStep(k)
  OBVIOUS
<1> USE DEF StatusStep, IInv, TypeOK, Consistent, instVars
<1>1. ASSUME NEW l \in Loads, Insert(l) PROVE StatusStep(k)
  BY <1>1 DEF Insert
<1>2. ASSUME NEW l \in Loads, Start(l) PROVE StatusStep(k)
  BY <1>2 DEF Start, WithError
<1>3. ASSUME NEW l \in Loads, Watch(l) \/ ReadyTimeout(l) PROVE StatusStep(k)
  BY <1>3 DEF Watch, ReadyTimeout, WithError
<1>4. ASSUME NEW l \in Loads, ReadyMark(l) PROVE StatusStep(k)
  BY <1>4 DEF ReadyMark, StillLoading
<1>5. CASE UNCHANGED status
  BY <1>5
<1> QED
  BY <1>1, <1>2, <1>3, <1>4, <1>5
     DEF Next, vars, LoadStep, LoadBegin, ScanPort, ProbePort, Bind, Reply, ReadyStep, ReadyCheck,
         ReadyProbe, ChildBinds, ChildExits, ScannerStops, UnloadBegin, UnloadStep, Signal, Kill,
         WaitDone, Delete, ShutdownBegin, ShutdownStep, ShutdownNext, ShutdownEnd, SetPortRange

\* A failed Instance stays failed, whichever goroutine answers late.
THEOREM ErrorsAreFinal == SafetySpec => ErrorIsFinal
<1>1. IInv /\ [Next]_vars => [\A l \in Loads : status[l] = "error" => status'[l] = "error"]_vars
  BY StatusSteps DEF StatusStep, IInv, TypeOK
<1> QED
  BY <1>1, Inductive, PTL DEF SafetySpec, ErrorIsFinal

-----------------------------------------------------------------------------
(* Part 2: the supervisor implements Lifecycle (its safety part).          *)

\* slot changes at one model only.
LEMMA SlotExcept ==
    ASSUME NEW m \in Models, NEW v, slot'[m] = v,
           \A n \in Models \ {m} : slot'[n] = slot[n]
    PROVE  slot' = [slot EXCEPT ![m] = v]
<1>1. slot = [n \in Models |-> slot[n]] /\ slot' = [n \in Models |-> slot'[n]]
  BY DEF slot
<1> QED  BY <1>1

\* What a step does to one listed status, seen through slot.
LEMMA SlotStep ==
    ASSUME IInv, [Next]_vars
    PROVE  \/ slot' = slot
           \/ \E m \in Models : LC!Appear(m) \/ LC!BecomeReady(m) \/ LC!Fail(m) \/ LC!Remove(m)
<1> USE DEF IInv, TypeOK, Consistent, instVars
<1> DEFINE Step == \/ slot' = slot
                   \/ \E m \in Models : LC!Appear(m) \/ LC!BecomeReady(m) \/ LC!Fail(m) \/ LC!Remove(m)
<1>e. ASSUME NEW m \in Models, status' = WithError(m), UNCHANGED instances PROVE Step
  <2>1. CASE instances[m] = None \/ status[instances[m]] = "error"
    BY <1>e, <2>1 DEF WithError, slot
  <2>2. CASE instances[m] # None /\ status[instances[m]] # "error"
    <3>1. slot[m] \in {"loading", "ready"}
      BY <2>2 DEF slot
    <3>2. slot'[m] = "error" /\ \A n \in Models \ {m} : slot'[n] = slot[n]
      BY <1>e, <2>2 DEF WithError, slot
    <3>3. slot' = [slot EXCEPT ![m] = "error"]
      BY <3>2, SlotExcept
    <3> QED  BY <3>1, <3>3 DEF LC!Fail, LC!Set
  <2> QED  BY <2>1, <2>2
<1>1. ASSUME NEW l \in Loads, Insert(l) PROVE Step
  <2>1. CASE instances[loadModel[l]] # None
    BY <1>1, <2>1 DEF Insert, slot
  <2>2. CASE instances[loadModel[l]] = None
    <3>1. loadModel[l] \in Models /\ slot[loadModel[l]] = "absent"
      BY <1>1, <2>2 DEF Insert, slot
    <3>2. /\ slot'[loadModel[l]] = "loading"
          /\ \A n \in Models \ {loadModel[l]} : slot'[n] = slot[n]
      BY <1>1, <2>2, <3>1, SupervisorAssumption DEF Insert, slot
    <3>3. slot' = [slot EXCEPT ![loadModel[l]] = "loading"]
      BY <3>1, <3>2, SlotExcept
    <3> QED  BY <3>1, <3>3 DEF LC!Appear, LC!Set
  <2> QED  BY <2>1, <2>2
<1>2. ASSUME NEW l \in Loads, Start(l) PROVE Step
  <2>1. CASE UNCHANGED status
    BY <1>2, <2>1 DEF Start, slot
  <2>2. CASE status' = WithError(loadModel[l])
    BY <1>2, <2>2, <1>e DEF Start
  <2> QED  BY <1>2, <2>1, <2>2 DEF Start
<1>3. ASSUME NEW l \in Loads, Watch(l) \/ ReadyTimeout(l) PROVE Step
  <2>1. loadModel[l] \in Models /\ UNCHANGED instances /\ status' = WithError(loadModel[l])
    BY <1>3 DEF Watch, ReadyTimeout
  <2> QED  BY <2>1, <1>e
<1>4. ASSUME NEW l \in Loads, ReadyMark(l) PROVE Step
  <2>1. CASE ~StillLoading(loadModel[l])
    BY <1>4, <2>1 DEF ReadyMark, slot
  <2>2. CASE StillLoading(loadModel[l])
    <3>1. loadModel[l] \in Models /\ slot[loadModel[l]] = "loading"
      BY <1>4, <2>2 DEF ReadyMark, StillLoading, slot
    <3>2. /\ slot'[loadModel[l]] = "ready"
          /\ \A n \in Models \ {loadModel[l]} : slot'[n] = slot[n]
      BY <1>4, <2>2, <3>1 DEF ReadyMark, StillLoading, slot
    <3>3. slot' = [slot EXCEPT ![loadModel[l]] = "ready"]
      BY <3>1, <3>2, SlotExcept
    <3> QED  BY <3>1, <3>3 DEF LC!BecomeReady, LC!Set
  <2> QED  BY <2>1, <2>2
<1>5. ASSUME NEW u \in Unloaders, Delete(u) PROVE Step
  <2>1. unloadModel[u] \in Models /\ UNCHANGED status
    BY <1>5 DEF Delete, ActiveUnload, UnloadBusy
  <2>2. CASE instances[unloadModel[u]] = None
    BY <1>5, <2>1, <2>2 DEF Delete, slot
  <2>3. CASE instances[unloadModel[u]] # None
    <3>1. slot[unloadModel[u]] \in {"loading", "ready", "error"}
      BY <2>1, <2>3 DEF slot
    <3>2. slot' = [slot EXCEPT ![unloadModel[u]] = "absent"]
      BY <1>5, <2>1 DEF Delete, slot
    <3> QED  BY <2>1, <3>1, <3>2 DEF LC!Remove, LC!Set
  <2> QED  BY <2>2, <2>3
<1>6. CASE UNCHANGED <<instances, status>>
  BY <1>6 DEF slot
<1> QED
  BY <1>1, <1>2, <1>3, <1>4, <1>5, <1>6
     DEF Next, vars, LoadStep, LoadBegin, ScanPort, ProbePort, Bind, Reply, ReadyStep, ReadyCheck,
         ReadyProbe, ChildBinds, ChildExits, ScannerStops, UnloadBegin, UnloadStep, Signal, Kill,
         WaitDone, ShutdownBegin, ShutdownStep, ShutdownNext, ShutdownEnd, SetPortRange

\* The supervisor's steps, seen by a client that watches the listed
\* statuses, are steps of Lifecycle or change nothing it sees.
THEOREM ImplementsLifecycle == SafetySpec => LifecycleSteps
<1>1. Init => LC!Init
  BY DEF Init, LC!Init, slot
<1>2. IInv /\ [Next]_vars => [LC!Next]_slot
  BY SlotStep DEF LC!Next
<1> QED
  BY <1>1, <1>2, Inductive, PTL DEF SafetySpec, LifecycleSteps

-----------------------------------------------------------------------------
(* Part 3: clients that do not overlap calls on one model, and a Shutdown  *)
(* that begins when the handlers have finished.  Calls on different models *)
(* still overlap freely.                                                   *)

Polite == "model" \notin Overlap /\ "shutdown" \notin Overlap

\* At most one call works on a model, and none besides Shutdown's own once
\* Shutdown has begun.
Sole ==
    /\ \A l, k \in Loads : ActiveLoad(l) /\ ActiveLoad(k) /\ loadModel[l] = loadModel[k] => l = k
    /\ \A l \in Loads, u \in Unloaders :
          ActiveLoad(l) /\ ActiveUnload(u) => loadModel[l] # unloadModel[u]
    /\ \A u, v \in Unloaders :
          ActiveUnload(u) /\ ActiveUnload(v) /\ unloadModel[u] = unloadModel[v] => u = v
    /\ shutPc # "loop" => ~ActiveUnload("shutdown")
    /\ shutPc # "idle" => /\ \A l \in Loads : ~ActiveLoad(l)
                          /\ \A u \in Unloads : ~ActiveUnload(u)

\* A running call's instance is the listed one, and Shutdown has not
\* forgotten a listed one.
Held ==
    /\ \A l \in Loads : loadPc[l] \in {"start", "bind", "reply"} => instances[loadModel[l]] = l
    /\ \A l \in Loads : loadPc[l] \in {"reply", "returned"} => proc[l]
    /\ \A u \in Unloaders : ActiveUnload(u) => instances[unloadModel[u]] = unloadInst[u]
    /\ \A m \in Models :
          /\ shutPc = "loop" /\ instances[m] # None
               => m \in todo \/ (ActiveUnload("shutdown") /\ unloadModel["shutdown"] = m)
          /\ shutPc = "done" => instances[m] = None

\* A live child's Load has got as far as starting it, its instance is listed,
\* and no Unload is past waiting for it.
Tended ==
    /\ \A l \in Loads : child[l] \in Live => loadPc[l] \in {"bind", "reply", "returned"}
    /\ \A u \in Unloaders : unloadPc[u] = "delete" => child[unloadInst[u]] \notin Live
    /\ NoOrphan

PoliteInv == Sole /\ Held /\ Tended

LEMMA InitPolite == Init => PoliteInv
BY SupervisorAssumption
   DEF Init, PoliteInv, Sole, Held, Tended, NoOrphan, ActiveLoad, ActiveUnload, LoadBusy,
       UnloadBusy, Live, Unloaders

\* Every step keeps calls apart.
LEMMA SoleStep == Polite /\ IInv /\ PoliteInv /\ [Next]_vars => Sole'
<1> SUFFICES ASSUME Polite, TypeOK, Consistent, PoliteInv, [Next]_vars PROVE Sole'
  BY DEF IInv
<1> USE SupervisorAssumption DEF LoadBusy, UnloadBusy, ActiveLoad, ActiveUnload, Live, Unloaders,
        Polite, PoliteInv, instVars, loadVars, childVars, goVars, unloadVars, shutVars
<1>1. ASSUME NEW l \in Loads, NEW m \in Models, LoadBegin(l, m) PROVE Sole'
  BY <1>1 DEF TypeOK, Sole, LoadBegin, MayCall, MayOverlap
<1>2. ASSUME NEW l \in Loads, ScanPort(l) PROVE Sole'
  <2>1. /\ UNCHANGED <<loadModel, unloadPc, unloadModel, shutPc>>
        /\ \A k \in Loads : loadPc'[k] \in LoadBusy => loadPc[k] \in LoadBusy
    BY <1>2 DEF TypeOK, ScanPort
  <2> QED  BY <2>1 DEF Sole
<1>3. ASSUME NEW l \in Loads, ProbePort(l) PROVE Sole'
  <2>1. /\ UNCHANGED <<loadModel, unloadPc, unloadModel, shutPc>>
        /\ \A k \in Loads : loadPc'[k] \in LoadBusy => loadPc[k] \in LoadBusy
    BY <1>3 DEF TypeOK, ProbePort
  <2> QED  BY <2>1 DEF Sole
<1>4. ASSUME NEW l \in Loads, Insert(l) PROVE Sole'
  <2>1. /\ UNCHANGED <<loadModel, unloadPc, unloadModel, shutPc>>
        /\ \A k \in Loads : loadPc'[k] \in LoadBusy => loadPc[k] \in LoadBusy
    BY <1>4 DEF TypeOK, Insert
  <2> QED  BY <2>1 DEF Sole
<1>5. ASSUME NEW l \in Loads, Start(l) PROVE Sole'
  BY <1>5 DEF TypeOK, Sole, Start
<1>6. ASSUME NEW l \in Loads, Bind(l) PROVE Sole'
  BY <1>6 DEF TypeOK, Sole, Bind
<1>7. ASSUME NEW l \in Loads, Reply(l) PROVE Sole'
  BY <1>7 DEF TypeOK, Sole, Reply
<1>8. ASSUME NEW l \in Loads, Watch(l) \/ ReadyStep(l) \/ ReadyTimeout(l) PROVE Sole'
  BY <1>8 DEF TypeOK, Sole, Watch, ReadyStep, ReadyCheck, ReadyProbe, ReadyMark, ReadyTimeout
<1>9. ASSUME NEW l \in Loads, ChildBinds(l) PROVE Sole'
  BY <1>9 DEF TypeOK, Sole, ChildBinds
<1>10. ASSUME NEW l \in Loads, ChildExits(l) PROVE Sole'
  BY <1>10 DEF TypeOK, Sole, ChildExits
<1>11. ASSUME NEW l \in Loads, ScannerStops(l) PROVE Sole'
  BY <1>11 DEF TypeOK, Sole, ScannerStops
<1>12. ASSUME NEW u \in Unloads, NEW m \in Models, UnloadBegin(u, m) PROVE Sole'
  BY <1>12 DEF TypeOK, Sole, UnloadBegin, Lookup, MayCall, MayOverlap
<1>13. ASSUME NEW u \in Unloaders, Signal(u) PROVE Sole'
  BY <1>13 DEF TypeOK, Sole, Signal
<1>14. ASSUME NEW u \in Unloaders, Kill(u) PROVE Sole'
  BY <1>14 DEF TypeOK, Sole, Kill
<1>15. ASSUME NEW u \in Unloaders, WaitDone(u) PROVE Sole'
  BY <1>15 DEF TypeOK, Sole, WaitDone, Reaped
<1>16. ASSUME NEW u \in Unloaders, Delete(u) PROVE Sole'
  BY <1>16 DEF TypeOK, Sole, Delete
<1>17. ASSUME ShutdownBegin PROVE Sole'
  BY <1>17 DEF TypeOK, Sole, ShutdownBegin, NoActiveCall
<1>18. ASSUME ShutdownNext PROVE Sole'
  BY <1>18 DEF TypeOK, Sole, ShutdownNext, Lookup
<1>19. ASSUME ShutdownEnd PROVE Sole'
  BY <1>19 DEF TypeOK, Sole, ShutdownEnd
<1>20. ASSUME NEW r \in PortRanges, SetPortRange(r) PROVE Sole'
  BY <1>20 DEF TypeOK, Sole, SetPortRange
<1>21. ASSUME UNCHANGED vars PROVE Sole'
  BY <1>21 DEF TypeOK, Sole, vars
<1> QED
  BY <1>1, <1>2, <1>3, <1>4, <1>5, <1>6, <1>7, <1>8, <1>9, <1>10, <1>11,
     <1>12, <1>13, <1>14, <1>15, <1>16, <1>17, <1>18, <1>19, <1>20, <1>21
     DEF Next, LoadStep, UnloadStep, ShutdownStep

\* Every step keeps running calls and Shutdown attached to the listed instances.
LEMMA HeldStep == Polite /\ IInv /\ PoliteInv /\ [Next]_vars => Held'
<1> SUFFICES ASSUME Polite, TypeOK, Consistent, PoliteInv, [Next]_vars PROVE Held'
  BY DEF IInv
<1> USE SupervisorAssumption DEF LoadBusy, UnloadBusy, ActiveLoad, ActiveUnload, Live, Unloaders,
        Polite, PoliteInv, instVars, loadVars, childVars, goVars, unloadVars, shutVars
<1>1. ASSUME NEW l \in Loads, NEW m \in Models, LoadBegin(l, m) PROVE Held'
  BY <1>1 DEF TypeOK, Consistent, Sole, Held, LoadBegin, MayCall, MayOverlap
<1>2. ASSUME NEW l \in Loads, ScanPort(l) PROVE Held'
  BY <1>2 DEF TypeOK, Consistent, Sole, Held, ScanPort
<1>3. ASSUME NEW l \in Loads, ProbePort(l) PROVE Held'
  BY <1>3 DEF TypeOK, Consistent, Sole, Held, ProbePort
<1>4. ASSUME NEW l \in Loads, Insert(l) PROVE Held'
  BY <1>4 DEF TypeOK, Consistent, Sole, Held, Insert
<1>5. ASSUME NEW l \in Loads, Start(l) PROVE Held'
  BY <1>5 DEF TypeOK, Consistent, Sole, Held, Start
<1>6. ASSUME NEW l \in Loads, Bind(l) PROVE Held'
  BY <1>6 DEF TypeOK, Consistent, Sole, Held, Bind
<1>7. ASSUME NEW l \in Loads, Reply(l) PROVE Held'
  BY <1>7 DEF TypeOK, Consistent, Sole, Held, Reply
<1>8. ASSUME NEW l \in Loads, Watch(l) \/ ReadyStep(l) \/ ReadyTimeout(l) PROVE Held'
  BY <1>8 DEF TypeOK, Consistent, Sole, Held, Watch, ReadyStep, ReadyCheck, ReadyProbe, ReadyMark, ReadyTimeout
<1>9. ASSUME NEW l \in Loads, ChildBinds(l) PROVE Held'
  BY <1>9 DEF TypeOK, Consistent, Sole, Held, ChildBinds
<1>10. ASSUME NEW l \in Loads, ChildExits(l) PROVE Held'
  BY <1>10 DEF TypeOK, Consistent, Sole, Held, ChildExits
<1>11. ASSUME NEW l \in Loads, ScannerStops(l) PROVE Held'
  BY <1>11 DEF TypeOK, Consistent, Sole, Held, ScannerStops
<1>12. ASSUME NEW u \in Unloads, NEW m \in Models, UnloadBegin(u, m) PROVE Held'
  BY <1>12 DEF TypeOK, Consistent, Sole, Held, UnloadBegin, Lookup, MayCall, MayOverlap
<1>13. ASSUME NEW u \in Unloaders, Signal(u) PROVE Held'
  BY <1>13 DEF TypeOK, Consistent, Sole, Held, Signal
<1>14. ASSUME NEW u \in Unloaders, Kill(u) PROVE Held'
  BY <1>14 DEF TypeOK, Consistent, Sole, Held, Kill
<1>15. ASSUME NEW u \in Unloaders, WaitDone(u) PROVE Held'
  BY <1>15 DEF TypeOK, Consistent, Sole, Held, WaitDone, Reaped
<1>16. ASSUME NEW u \in Unloaders, Delete(u) PROVE Held'
  BY <1>16 DEF TypeOK, Consistent, Sole, Held, Delete
<1>17. ASSUME ShutdownBegin PROVE Held'
  BY <1>17 DEF TypeOK, Consistent, Sole, Held, ShutdownBegin, NoActiveCall
<1>18. ASSUME ShutdownNext PROVE Held'
  BY <1>18 DEF TypeOK, Consistent, Sole, Held, ShutdownNext, Lookup
<1>19. ASSUME ShutdownEnd PROVE Held'
  BY <1>19 DEF TypeOK, Consistent, Sole, Held, ShutdownEnd
<1>20. ASSUME NEW r \in PortRanges, SetPortRange(r) PROVE Held'
  BY <1>20 DEF TypeOK, Consistent, Sole, Held, SetPortRange
<1>21. ASSUME UNCHANGED vars PROVE Held'
  BY <1>21 DEF TypeOK, Consistent, Sole, Held, vars
<1> QED
  BY <1>1, <1>2, <1>3, <1>4, <1>5, <1>6, <1>7, <1>8, <1>9, <1>10, <1>11,
     <1>12, <1>13, <1>14, <1>15, <1>16, <1>17, <1>18, <1>19, <1>20, <1>21
     DEF Next, LoadStep, UnloadStep, ShutdownStep

\* Every step keeps live children listed.
LEMMA TendedStep == Polite /\ IInv /\ PoliteInv /\ [Next]_vars => Tended'
<1> SUFFICES ASSUME Polite, TypeOK, Consistent, PoliteInv, [Next]_vars PROVE Tended'
  BY DEF IInv
<1> USE SupervisorAssumption DEF LoadBusy, UnloadBusy, ActiveLoad, ActiveUnload, Live, Unloaders,
        Polite, PoliteInv, instVars, loadVars, childVars, goVars, unloadVars, shutVars
<1>1. ASSUME NEW l \in Loads, NEW m \in Models, LoadBegin(l, m) PROVE Tended'
  BY <1>1 DEF TypeOK, Tended, NoOrphan, LoadBegin, MayCall, MayOverlap
<1>2. ASSUME NEW l \in Loads, ScanPort(l) PROVE Tended'
  BY <1>2 DEF TypeOK, Tended, NoOrphan, ScanPort
<1>3. ASSUME NEW l \in Loads, ProbePort(l) PROVE Tended'
  BY <1>3 DEF TypeOK, Tended, NoOrphan, ProbePort
<1>4. ASSUME NEW l \in Loads, Insert(l) PROVE Tended'
  <2>1. UNCHANGED <<child, unloadPc, unloadInst, loadModel>>
    BY <1>4 DEF Insert
  <2>2. \A k \in Loads : child'[k] \in Live => k # l /\ loadPc'[k] = loadPc[k]
    BY <1>4, <2>1 DEF TypeOK, Tended, Insert
  <2>3. \A k \in Loads : child'[k] \in Live => instances'[loadModel'[k]] = k
    <3> SUFFICES ASSUME NEW k \in Loads, child[k] \in Live PROVE instances'[loadModel[k]] = k
      BY <2>1
    <3>1. instances[loadModel[k]] = k /\ loadModel[k] \in Models /\ loadModel[l] \in Models
      BY <1>4 DEF Tended, NoOrphan, Consistent, Insert
    <3>2. CASE instances[loadModel[l]] # None
      BY <1>4, <3>1, <3>2 DEF Insert
    <3>3. CASE instances[loadModel[l]] = None
      <4>1. loadModel[k] # loadModel[l]
        BY <3>1, <3>3
      <4>2. instances' = [instances EXCEPT ![loadModel[l]] = l]
        BY <1>4, <3>3 DEF Insert
      <4> QED  BY <3>1, <4>1, <4>2 DEF TypeOK
    <3> QED  BY <3>2, <3>3
  <2> QED
    BY <2>1, <2>2, <2>3 DEF Tended, NoOrphan
<1>5. ASSUME NEW l \in Loads, Start(l) PROVE Tended'
  BY <1>5 DEF TypeOK, Consistent, Sole, Held, Tended, NoOrphan, Start
<1>6. ASSUME NEW l \in Loads, Bind(l) PROVE Tended'
  BY <1>6 DEF TypeOK, Consistent, Sole, Held, Tended, NoOrphan, Bind
<1>7. ASSUME NEW l \in Loads, Reply(l) PROVE Tended'
  BY <1>7 DEF TypeOK, Tended, NoOrphan, Reply
<1>8. ASSUME NEW l \in Loads, Watch(l) \/ ReadyStep(l) \/ ReadyTimeout(l) PROVE Tended'
  BY <1>8 DEF TypeOK, Tended, NoOrphan, Watch, ReadyStep, ReadyCheck, ReadyProbe, ReadyMark, ReadyTimeout
<1>9. ASSUME NEW l \in Loads, ChildBinds(l) PROVE Tended'
  BY <1>9 DEF TypeOK, Tended, NoOrphan, ChildBinds
<1>10. ASSUME NEW l \in Loads, ChildExits(l) PROVE Tended'
  BY <1>10 DEF TypeOK, Tended, NoOrphan, ChildExits
<1>11. ASSUME NEW l \in Loads, ScannerStops(l) PROVE Tended'
  BY <1>11 DEF TypeOK, Tended, NoOrphan, ScannerStops
<1>12. ASSUME NEW u \in Unloads, NEW m \in Models, UnloadBegin(u, m) PROVE Tended'
  BY <1>12 DEF TypeOK, Consistent, Sole, Held, Tended, NoOrphan, UnloadBegin, Lookup, MayCall, MayOverlap
<1>13. ASSUME NEW u \in Unloaders, Signal(u) PROVE Tended'
  BY <1>13 DEF TypeOK, Consistent, Sole, Held, Tended, NoOrphan, Signal
<1>14. ASSUME NEW u \in Unloaders, Kill(u) PROVE Tended'
  BY <1>14 DEF TypeOK, Tended, NoOrphan, Kill
<1>15. ASSUME NEW u \in Unloaders, WaitDone(u) PROVE Tended'
  BY <1>15 DEF TypeOK, Tended, NoOrphan, WaitDone, Reaped
<1>16. ASSUME NEW u \in Unloaders, Delete(u) PROVE Tended'
  BY <1>16 DEF TypeOK, Consistent, Sole, Held, Tended, NoOrphan, Delete
<1>17. ASSUME ShutdownBegin PROVE Tended'
  BY <1>17 DEF TypeOK, Tended, NoOrphan, ShutdownBegin, NoActiveCall
<1>18. ASSUME ShutdownNext PROVE Tended'
  BY <1>18 DEF TypeOK, Consistent, Sole, Held, Tended, NoOrphan, ShutdownNext, Lookup
<1>19. ASSUME ShutdownEnd PROVE Tended'
  BY <1>19 DEF TypeOK, Tended, NoOrphan, ShutdownEnd
<1>20. ASSUME NEW r \in PortRanges, SetPortRange(r) PROVE Tended'
  BY <1>20 DEF TypeOK, Tended, NoOrphan, SetPortRange
<1>21. ASSUME UNCHANGED vars PROVE Tended'
  BY <1>21 DEF TypeOK, Tended, NoOrphan, vars
<1> QED
  BY <1>1, <1>2, <1>3, <1>4, <1>5, <1>6, <1>7, <1>8, <1>9, <1>10, <1>11,
     <1>12, <1>13, <1>14, <1>15, <1>16, <1>17, <1>18, <1>19, <1>20, <1>21
     DEF Next, LoadStep, UnloadStep, ShutdownStep

\* With polite clients the second invariant holds in every state.
LEMMA PoliteInductive == Polite /\ SafetySpec => []PoliteInv
<1> SUFFICES ASSUME Polite PROVE SafetySpec => []PoliteInv
  OBVIOUS
<1>1. IInv /\ PoliteInv /\ [Next]_vars => PoliteInv'
  BY SoleStep, HeldStep, TendedStep DEF PoliteInv
<1> QED
  BY InitPolite, <1>1, Inductive, PTL DEF SafetySpec

\* Every running child can be reached through the map.
THEOREM NoOrphans == Polite /\ SafetySpec => []NoOrphan
BY PoliteInductive, PTL DEF PoliteInv, Tended

\* A Load that failed left no process behind.
THEOREM FailedLoads == Polite /\ SafetySpec => []FailedLoadLeavesNothing
<1>1. PoliteInv => FailedLoadLeavesNothing
  BY DEF PoliteInv, Tended, FailedLoadLeavesNothing
<1> QED  BY PoliteInductive, <1>1, PTL

\* When Shutdown has returned nothing is listed and nothing runs.
THEOREM ShutdownIsComplete == Polite /\ SafetySpec => []ShutdownStopsAll
<1>1. IInv /\ PoliteInv => ShutdownStopsAll
  <2> SUFFICES ASSUME IInv, PoliteInv, shutPc = "done"
               PROVE  /\ \A l \in Loads : child[l] \notin Live
                      /\ \A m \in Models : instances[m] = None
    BY DEF ShutdownStopsAll
  <2>1. \A m \in Models : instances[m] = None
    BY DEF PoliteInv, Held
  <2>2. ASSUME NEW l \in Loads, child[l] \in Live PROVE FALSE
    <3>1. loadModel[l] \in Models
      BY <2>2 DEF PoliteInv, Tended, IInv, Consistent
    <3>2. instances[loadModel[l]] = l
      BY <2>2 DEF PoliteInv, Tended, NoOrphan
    <3> QED  BY <2>1, <3>1, <3>2, SupervisorAssumption
  <2> QED  BY <2>1, <2>2
<1> QED  BY PoliteInductive, Inductive, <1>1, PTL

-----------------------------------------------------------------------------
(* Part 4: clients that make one call at a time.                           *)

OneAtATime == Overlap \cap {"model", "models"} = {}

\* Only one Load is choosing a port, and nobody has taken a port since its
\* scan found it unused.
PortChoice ==
    /\ \A l, k \in Loads : ActiveLoad(l) /\ ActiveLoad(k) => l = k
    /\ \A l \in Loads : loadPc[l] \in {"probe", "insert"} => ~PortUsed(port[l])
    /\ PortsDistinct

LEMMA PortChoiceStep == OneAtATime /\ IInv /\ PortChoice /\ [Next]_vars => PortChoice'
<1> SUFFICES ASSUME OneAtATime, TypeOK, Consistent, PortChoice, [Next]_vars PROVE PortChoice'
  BY DEF IInv
<1> USE SupervisorAssumption DEF LoadBusy, ActiveLoad, OneAtATime, PortChoice, PortsDistinct, PortUsed,
        InMap, instVars, loadVars, childVars, goVars, unloadVars, shutVars
<1>1. ASSUME NEW l \in Loads, NEW m \in Models, LoadBegin(l, m) PROVE PortChoice'
  BY <1>1 DEF TypeOK, Consistent, LoadBegin, MayCall, MayOverlap
<1>2. ASSUME NEW l \in Loads, ScanPort(l) PROVE PortChoice'
  BY <1>2 DEF TypeOK, Consistent, ScanPort
<1>3. ASSUME NEW l \in Loads, ProbePort(l) PROVE PortChoice'
  BY <1>3 DEF TypeOK, Consistent, ProbePort
<1>4. ASSUME NEW l \in Loads, Insert(l) PROVE PortChoice'
  <2>1. /\ port' = port /\ loadPc[l] = "insert" /\ loadPc'[l] \in {"failed", "start"}
        /\ \A k \in Loads \ {l} : loadPc'[k] = loadPc[k]
    BY <1>4 DEF TypeOK, Insert
  <2>2. \A k \in Loads \ {l} : loadPc[k] \notin LoadBusy
    BY <2>1
  <2>3. /\ \A j, k \in Loads : ActiveLoad(j)' /\ ActiveLoad(k)' => j = k
        /\ \A k \in Loads : loadPc'[k] \notin {"probe", "insert"}
    BY <2>1, <2>2
  <2>4. PortsDistinct'
    <3>1. CASE instances[loadModel[l]] # None
      BY <1>4, <2>1, <3>1 DEF Insert
    <3>2. CASE instances[loadModel[l]] = None
      <4>1. loadModel[l] \in Models
        BY <2>1 DEF Consistent
      <4>2. /\ instances'[loadModel[l]] = l
            /\ \A m \in Models \ {loadModel[l]} : instances'[m] = instances[m]
        BY <1>4, <3>2, <4>1 DEF TypeOK, Insert
      <4>3. \A m \in Models : instances[m] # None => port[instances[m]] # port[l]
        BY <2>1 DEF TypeOK
      <4> QED  BY <2>1, <4>2, <4>3
    <3> QED  BY <3>1, <3>2
  <2> QED  BY <2>3, <2>4
<1>5. ASSUME NEW l \in Loads, Start(l) \/ Bind(l) \/ Reply(l) PROVE PortChoice'
  <2>1. /\ UNCHANGED <<instances, port>>
        /\ \A k \in Loads : /\ loadPc'[k] \in LoadBusy => loadPc[k] \in LoadBusy
                            /\ loadPc'[k] \in {"probe", "insert"} => loadPc'[k] = loadPc[k]
    BY <1>5 DEF TypeOK, Start, Bind, Reply
  <2> QED  BY <2>1
<1>6. ASSUME NEW u \in Unloaders, Delete(u) PROVE PortChoice'
  BY <1>6 DEF TypeOK, Delete
<1>7. CASE UNCHANGED <<instances, port, loadPc>>
  BY <1>7
<1> QED
  BY <1>1, <1>2, <1>3, <1>4, <1>5, <1>6, <1>7
     DEF Next, vars, LoadStep, ReadyStep, ReadyCheck, ReadyProbe, ReadyMark, ReadyTimeout, Watch,
         ChildBinds, ChildExits, ScannerStops, UnloadBegin, UnloadStep, Signal, Kill,
         WaitDone, ShutdownBegin, ShutdownStep, ShutdownNext, ShutdownEnd, SetPortRange

\* Listed instances never share a port when Loads do not overlap.
THEOREM PortsStayDistinct == OneAtATime /\ SafetySpec => []PortsDistinct
<1> SUFFICES ASSUME OneAtATime PROVE SafetySpec => []PortsDistinct
  OBVIOUS
<1>1. Init => PortChoice
  BY SupervisorAssumption DEF Init, PortChoice, PortsDistinct, ActiveLoad, LoadBusy
<1>2. IInv /\ PortChoice /\ [Next]_vars => PortChoice'
  BY PortChoiceStep
<1>3. PortChoice => PortsDistinct
  BY DEF PortChoice
<1> QED  BY <1>1, <1>2, <1>3, Inductive, PTL DEF SafetySpec


-----------------------------------------------------------------------------
(* Part 5: the gateway.                                                    *)

\* Requests neither help nor hinder the supervisor, so that whatever holds of
\* it holds here.
THEOREM GatewayIsSupervisor == GatewaySpec => SafetySpec
<1>1. GatewayInit => Init
  BY DEF GatewayInit
<1>2. [GatewayNext]_<<vars, gateVars>> => [Next]_vars
  BY DEF GatewayNext, SupervisorStep, AskLoaded, AskModel, Dial
<1> QED
  BY <1>1, <1>2, PTL DEF GatewaySpec, SafetySpec

-----------------------------------------------------------------------------
(* An instance that has been inserted keeps its port, and once it is no    *)
(* longer listed it never is again.                                        *)

Placed == {"start", "bind", "reply", "returned", "failed"}

LEMMA PlacedStays ==
    ASSUME IInv, [Next]_vars, NEW l \in Loads, loadPc[l] \in Placed
    PROVE  loadPc'[l] \in Placed /\ port'[l] = port[l] /\ (InMap(l)' => InMap(l))
<1> USE SupervisorAssumption DEF Placed, InMap, IInv, TypeOK, Consistent, instVars, loadVars
<1> DEFINE Goal == loadPc'[l] \in Placed /\ port'[l] = port[l] /\ (InMap(l)' => InMap(l))
<1>1. ASSUME NEW k \in Loads, NEW m \in Models, LoadBegin(k, m) PROVE Goal
  BY <1>1 DEF LoadBegin
<1>2. ASSUME NEW k \in Loads, ScanPort(k) \/ ProbePort(k) PROVE Goal
  BY <1>2 DEF ScanPort, ProbePort
<1>3. ASSUME NEW k \in Loads, Insert(k) PROVE Goal
  BY <1>3 DEF Insert
<1>4. ASSUME NEW k \in Loads, Start(k) \/ Bind(k) \/ Reply(k) PROVE Goal
  BY <1>4 DEF Start, Bind, Reply
<1>5. ASSUME NEW u \in Unloaders, Delete(u) PROVE Goal
  BY <1>5 DEF Delete
<1>6. CASE UNCHANGED <<instances, port, loadPc>>
  BY <1>6
<1> QED
  BY <1>1, <1>2, <1>3, <1>4, <1>5, <1>6
     DEF Next, vars, LoadStep, ReadyStep, ReadyCheck, ReadyProbe, ReadyMark, ReadyTimeout, Watch,
         ChildBinds, ChildExits, ScannerStops, UnloadBegin, UnloadStep, Signal, Kill,
         WaitDone, ShutdownBegin, ShutdownStep, ShutdownNext, ShutdownEnd, SetPortRange

-----------------------------------------------------------------------------
(* Clients that make one call at a time.                                   *)

\* A request has the port of the instance it was given, which has been
\* inserted, and was answered by a child of the supervisor if by any.
Calls == [pc : {"idle", "dial", "done"}, inst : Loads \cup {None}, port : Int,
          by : Loads \cup {None}, code : Int]

Routed ==
    /\ request \in [Requests -> Calls]
    /\ \A r \in Requests :
          /\ request[r].pc = "idle" => request[r].inst = None
          /\ request[r].pc # "done" => request[r].by = None
          /\ request[r].pc = "dial" \/ request[r].by # None => request[r].inst # None
          /\ request[r].inst # None => /\ loadPc[request[r].inst] \in Placed
                                       /\ request[r].port = port[request[r].inst]

GInv == Routed /\ AnsweredByChosen

\* A child that serves on the port of a listed instance is that instance's.
LEMMA OwnPort ==
    ASSUME IInv, PoliteInv, PortsDistinct, NEW k \in Loads, NEW l \in Loads,
           child[k] = "serving", InMap(l), port[k] = port[l]
    PROVE  k = l
<1>1. loadModel[k] \in Models /\ instances[loadModel[k]] = k
  BY DEF IInv, Consistent, PoliteInv, Tended, NoOrphan, Live
<1>2. PICK m \in Models : instances[m] = l
  BY DEF InMap
<1> QED
  BY <1>1, <1>2, SupervisorAssumption DEF PortsDistinct

LEMMA GInvStep ==
    ASSUME IInv, PoliteInv, PortsDistinct, GInv, [GatewayNext]_<<vars, gateVars>>
    PROVE  GInv'
<1> USE SupervisorAssumption DEF GInv
<1>1. ASSUME [Next]_vars, UNCHANGED request PROVE GInv'
  <2>1. \A r \in Requests : request[r].inst # None =>
            /\ loadPc'[request[r].inst] \in Placed
            /\ port'[request[r].inst] = port[request[r].inst]
            /\ InMap(request[r].inst)' => InMap(request[r].inst)
    BY <1>1, PlacedStays DEF Routed, Calls
  <2>2. Routed'
    BY <1>1, <2>1 DEF Routed, Calls
  <2>3. AnsweredByChosen'
    BY <1>1, <2>1 DEF Routed, Calls, AnsweredByChosen
  <2> QED  BY <2>2, <2>3
<1>2. ASSUME NEW r \in Requests, UNCHANGED <<loadPc, port, instances>>, NEW code \in Int, Refuse(r, code)
      PROVE  GInv'
  <2> DEFINE new == [request[r] EXCEPT !.pc = "done", !.code = code]
  <2>1. request[r] \in Calls
    BY DEF Routed
  <2>2. /\ new \in Calls /\ new.pc = "done"
        /\ new.inst = request[r].inst /\ new.by = request[r].by /\ new.port = request[r].port
    BY <2>1 DEF Calls
  <2>3. request' = [request EXCEPT ![r] = new]
    BY <1>2 DEF Refuse
  <2> HIDE DEF new
  <2>4. Routed'
    BY <1>2, <2>2, <2>3 DEF Routed
  <2>5. AnsweredByChosen'
    BY <1>2, <2>2, <2>3 DEF Routed, AnsweredByChosen, InMap
  <2> QED  BY <2>4, <2>5
<1>3. ASSUME NEW r \in Requests, UNCHANGED vars, request[r].pc = "idle",
             NEW k \in Loads, InMap(k), Choose(r, k)
      PROVE  GInv'
  <2>1. loadPc[k] \in Placed /\ port[k] \in Int
    BY <1>3 DEF IInv, TypeOK, Consistent, InMap, Placed
  <2>2. request' = [request EXCEPT ![r].pc = "dial", ![r].inst = k, ![r].port = port[k]]
    BY <1>3 DEF Choose
  <2>3. Routed'
    BY <1>3, <2>1, <2>2 DEF vars, instVars, loadVars, Routed, Calls
  <2>4. AnsweredByChosen'
    BY <1>3, <2>2 DEF vars, instVars, loadVars, Routed, Calls, AnsweredByChosen, InMap
  <2> QED  BY <2>3, <2>4
<1>4. ASSUME NEW r \in Requests, Dial(r) PROVE GInv'
  <2>1. UNCHANGED <<loadPc, port, instances>> /\ request[r].pc = "dial"
    BY <1>4 DEF Dial, vars, instVars, loadVars
  <2>2. request[r].inst \in Loads
    BY <2>1 DEF Routed, Calls
  <2>3. CASE Refuse(r, 502)
    BY <1>2, <2>1, <2>3
  <2>4. ASSUME NEW k \in Loads, child[k] = "serving", port[k] = request[r].port,
               request' = [request EXCEPT ![r].pc = "done", ![r].by = k, ![r].code = 200]
        PROVE  GInv'
    <3>1. Routed'
      BY <2>1, <2>2, <2>4 DEF Routed, Calls
    <3>2. k # request[r].inst => ~InMap(request[r].inst)
      BY <2>1, <2>2, <2>4, OwnPort DEF Routed
    <3>3. AnsweredByChosen'
      BY <2>1, <2>2, <2>4, <3>2 DEF Routed, Calls, AnsweredByChosen, InMap
    <3> QED  BY <3>1, <3>3
  <2> QED  BY <1>4, <2>3, <2>4 DEF Dial
<1>5. CASE SupervisorStep
  BY <1>1, <1>5 DEF SupervisorStep
<1>6. ASSUME NEW r \in Requests, AskLoaded(r) PROVE GInv'
  BY <1>2, <1>3, <1>6 DEF vars, instVars, loadVars, AskLoaded, NewestReady, Ready, Listed
<1>7. ASSUME NEW r \in Requests, NEW w \in Wants, AskModel(r, w) PROVE GInv'
  BY <1>2, <1>3, <1>7 DEF vars, instVars, loadVars, AskModel, Called, Listed
<1>8. CASE UNCHANGED <<vars, gateVars>>
  BY <1>1, <1>8 DEF gateVars
<1> QED
  BY <1>4, <1>5, <1>6, <1>7, <1>8 DEF GatewayNext

\* The answer of another instance's server reaches only a request whose own
\* instance is no longer listed, when loads and unloads come one at a time.
THEOREM AnswersAreChosen == Polite /\ OneAtATime /\ GatewaySpec => []AnsweredByChosen
<1> SUFFICES ASSUME Polite, OneAtATime PROVE GatewaySpec => []AnsweredByChosen
  OBVIOUS
<1>1. GatewayInit => GInv
  BY DEF GatewayInit, NoCall, GInv, Routed, Calls, AnsweredByChosen
<1>2. IInv /\ PoliteInv /\ PortsDistinct /\ GInv /\ [GatewayNext]_<<vars, gateVars>> => GInv'
  BY GInvStep
<1>3. SafetySpec => [](IInv /\ PoliteInv /\ PortsDistinct)
  BY Inductive, PoliteInductive, PortsStayDistinct, PTL
<1>4. GInv => AnsweredByChosen
  BY DEF GInv
<1> QED
  BY <1>1, <1>2, <1>3, <1>4, GatewayIsSupervisor, PTL DEF GatewaySpec

=============================================================================

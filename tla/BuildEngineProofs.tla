------------------------- MODULE BuildEngineProofs --------------------------
(***************************************************************************)
(* For any number of jobs, sources and slots, with removals, restarts and  *)
(* hanging compilers: slots and outcomes are kept.  With a single slot     *)
(* runtimes are of the commit they are filed under.                        *)
(***************************************************************************)
EXTENDS BuildEngine, FiniteSetTheorems, TLAPS

USE BuildAssumption

Ending  == {"cleanup", "release"}
Holding == Working \cup Ending    \* where a job holds its slot

Requests == [source : Sources, commit : Commits \cup {None}, backend : Backends]

\* A job that was submitted has a request, and no commit before it looks.
Asked ==
    \A j \in Jobs : /\ pc[j] = "idle" => commit[j] = None
                    /\ pc[j] # "idle" => req[j] \in Requests

\* The slots belong to the jobs that are past the wait and not yet over.
Held ==
    /\ IsFiniteSet(sem) /\ Cardinality(sem) <= Slots
    /\ \A j \in Jobs : j \in sem <=> pc[j] \in Holding

\* Only a job that is under way can be canceled.
Cancelable == \A j \in cancels : pc[j] \in Working \cup {"queued", "cleanup"}

\* The status says where a job is.
StatusAgrees ==
    \A j \in Jobs : /\ status[j] = "running" <=> pc[j] \in Working
                    /\ status[j] = "queued" <=> pc[j] = "queued"
                    /\ status[j] \in Terminal => pc[j] \in Ending \cup {"done"}

SlotInv == TypeOK /\ Asked /\ Held /\ Cancelable /\ StatusAgrees

\* With one slot, what is checked out is what the job that holds it wants.
CheckedOut ==
    \A j \in Jobs : /\ pc[j] = "head" => head[Src(j)] \in Wanted(j) \cup {None}
                    /\ pc[j] \in Located => head[Src(j)] \in {commit[j], None}

IInv == SlotInv /\ CheckedOut /\ CommitHonoured /\ RuntimesFaithful

-----------------------------------------------------------------------------
\* The initial states satisfy the invariants.
LEMMA InitIInv == Init => IInv
<1> SUFFICES ASSUME Init PROVE IInv OBVIOUS
<1>1. TypeOK BY DEF Init, TypeOK, Located, Working, Commands
<1>2. Asked /\ Cancelable /\ StatusAgrees
  BY DEF Init, Asked, Cancelable, StatusAgrees, Working, Commands, Located, Ending, Terminal
<1>3. Held BY FS_EmptySet DEF Init, Held, Holding, Working, Commands, Located, Ending
<1>4. CheckedOut /\ CommitHonoured /\ RuntimesFaithful
  BY DEF Init, CheckedOut, CommitHonoured, RuntimesFaithful, Located
<1> QED BY <1>1, <1>2, <1>3, <1>4 DEF IInv, SlotInv

\* A job past EnsureCheckout works in a directory of its own variant.
LEMMA DirTyped ==
    ASSUME TypeOK, Asked, NEW j \in Jobs, pc[j] \in Located
    PROVE  Src(j) \in Sources /\ commit[j] \in Commits /\ Dir(j) \in Variants /\ Dir(j)[2] = commit[j]
<1>1. req[j] \in Requests
  BY DEF Asked, Located
<1>2. commit[j] \in Commits BY DEF TypeOK
<1> QED BY <1>1, <1>2 DEF Requests, Dir, Src, Variants

\* Types are preserved by every action.
LEMMA TypeStep == TypeOK /\ Asked /\ [Next]_vars => TypeOK'
<1> SUFFICES ASSUME TypeOK, Asked, [Next]_vars PROVE TypeOK' OBVIOUS
<1>1. ASSUME NEW j \in Jobs, NEW s \in Sources, NEW c \in Commits \cup {None}, NEW b \in Backends,
             Submit(j, [source |-> s, commit |-> c, backend |-> b])
      PROVE  TypeOK'
  BY <1>1 DEF Submit, TypeOK, Located, Terminal, Goto, diskVars
<1>2. ASSUME NEW j \in Jobs, Cancel(j) \/ TakeSlot(j) \/ CancelQueued(j) PROVE TypeOK'
  BY <1>2 DEF Cancel, TakeSlot, CancelQueued, TypeOK, Located, Working, Commands, Terminal, Goto, diskVars
<1>3. ASSUME NEW j \in Jobs, Fetch(j) PROVE TypeOK'
  BY <1>3 DEF Fetch, TypeOK, Located, Working, Commands, Goto
<1>13. ASSUME NEW j \in Jobs, Checkout(j) PROVE TypeOK'
  <2>1. Wanted(j) \subseteq Commits
    <3>1. pc[j] # "idle" BY <1>13 DEF Checkout
    <3>2. req[j] \in Requests BY <3>1 DEF Asked
    <3>3. req[j].commit \in Commits \cup {None} BY <3>2 DEF Requests
    <3> QED BY <3>3 DEF Wanted
  <2>2. PICK c \in Commits : head' = [head EXCEPT ![Src(j)] = c]
    BY <1>13, <2>1 DEF Checkout
  <2>3. pc' = [pc EXCEPT ![j] = "head"] /\ UNCHANGED <<req, status, commit, canceled, cancels, sem>>
    BY <1>13 DEF Checkout, Goto
  <2>4. UNCHANGED <<registered, tree, bin, manifest>> BY <1>13 DEF Checkout
  <2> QED BY <2>2, <2>3, <2>4 DEF TypeOK, Located, Working, Commands
<1>4. ASSUME NEW j \in Jobs, Head(j) PROVE TypeOK'
  <2>1. head[Src(j)] \in Commits
    <3>1. Src(j) \in Sources BY <1>4 DEF Head, Src, Asked, Requests
    <3> QED BY <1>4, <3>1 DEF Head, TypeOK
  <2> QED BY <1>4, <2>1 DEF Head, TypeOK, Located, Working, Goto, diskVars
<1>5. ASSUME NEW j \in Jobs, MakePlan(j) \/ Configure(j) PROVE TypeOK'
  <2>1. pc' = [pc EXCEPT ![j] = "configure"] \/ pc' = [pc EXCEPT ![j] = "compile"]
    BY <1>5 DEF MakePlan, Configure, Goto
  <2>2. commit[j] # None /\ UNCHANGED <<req, status, commit, canceled, cancels, sem, diskVars>>
    BY <1>5 DEF MakePlan, Configure, TypeOK, Located
  <2> QED BY <2>1, <2>2 DEF TypeOK, Located, Working, diskVars
<1>6. ASSUME NEW j \in Jobs, Compile(j) \/ Collect(j) \/ Copy(j) \/ Hook(j) PROVE TypeOK'
  BY <1>6, DirTyped DEF Compile, Collect, Copy, Hook, TypeOK, Located, Working, Commands, Goto
<1>7. ASSUME NEW j \in Jobs, Succeed(j) \/ Cleanup(j) \/ Release(j) PROVE TypeOK'
  BY <1>7 DEF Succeed, Cleanup, Release, TypeOK, Located, Terminal, Goto, diskVars
<1>8. ASSUME NEW j \in Jobs, Fail(j) \/ Jam(j) PROVE TypeOK'
  <2>1. UNCHANGED <<req, commit, canceled, cancels, sem, registered, head, bin, manifest>>
    BY <1>8 DEF Fail, Jam
  <2>2. \/ tree' = tree
        \/ pc[j] = "compile" /\ head[Src(j)] # None /\ tree' = [tree EXCEPT ![Dir(j)] = head[Src(j)]]
    BY <1>8 DEF Fail, Jam
  <2>3. tree' \in [Variants -> Commits \cup {None}]
    BY <2>2, DirTyped DEF TypeOK, Located
  <2>4. status' \in [Jobs -> Terminal \cup {"none", "queued", "running"}]
    BY <1>8 DEF Fail, Jam, TypeOK, Terminal
  <2>5. \/ pc' = [pc EXCEPT ![j] = "cleanup"]
        \/ pc' = [pc EXCEPT ![j] = "jammed"] /\ pc[j] \in Located
    BY <1>8 DEF Fail, Jam, Goto, Located
  <2>6. pc' \in [Jobs -> Working \cup {"idle", "queued", "cleanup", "release", "done"}]
    BY <2>5 DEF TypeOK, Working, Located
  <2>7. \A k \in Jobs : pc'[k] \in Located => commit[k] # None
    BY <2>5 DEF TypeOK, Located
  <2> QED BY <2>1, <2>3, <2>4, <2>6, <2>7 DEF TypeOK
<1>9. ASSUME NEW s \in Sources, NEW purge \in BOOLEAN, AddSource(s) \/ RemoveSource(s, purge) PROVE TypeOK'
  BY <1>9 DEF AddSource, RemoveSource, TypeOK, jobVars
<1>10. ASSUME NEW d \in Variants, RemoveRuntime(d) PROVE TypeOK'
  BY <1>10 DEF RemoveRuntime, TypeOK, jobVars
<1>11. CASE Restart BY <1>11 DEF Restart, TypeOK, Located
<1>12. CASE UNCHANGED vars BY <1>12 DEF vars, TypeOK, jobVars, diskVars
<1> QED BY <1>1, <1>2, <1>3, <1>4, <1>5, <1>6, <1>7, <1>8, <1>9, <1>10, <1>11, <1>12, <1>13
        DEF Next, RunStep, Success, Idle

\* Every action keeps what a job's place says of its request, its cancel and
\* its status.
LEMMA LabelStep ==
    SlotInv /\ [Next]_vars => Asked' /\ Cancelable' /\ StatusAgrees'
<1> SUFFICES ASSUME TypeOK, Asked, Held, Cancelable, StatusAgrees, [Next]_vars
             PROVE  Asked' /\ Cancelable' /\ StatusAgrees'
  BY DEF SlotInv
<1> DEFINE Goal == Asked' /\ Cancelable' /\ StatusAgrees'
<1>1. ASSUME NEW j \in Jobs, NEW s \in Sources, NEW c \in Commits \cup {None}, NEW b \in Backends,
             Submit(j, [source |-> s, commit |-> c, backend |-> b])
      PROVE  Goal
  <2>1. [source |-> s, commit |-> c, backend |-> b] \in Requests BY DEF Requests
  <2> QED BY <1>1, <2>1 DEF Submit, TypeOK, Asked, Cancelable, StatusAgrees, Working, Commands,
                            Located, Ending, Terminal, Goto
<1>2. ASSUME NEW j \in Jobs, Cancel(j) PROVE Goal
  BY <1>2 DEF Cancel, TypeOK, Asked, Cancelable, StatusAgrees
<1>3. ASSUME NEW j \in Jobs, TakeSlot(j) \/ CancelQueued(j) PROVE Goal
  BY <1>3 DEF TakeSlot, CancelQueued, TypeOK, Asked, Cancelable, StatusAgrees, Working, Commands,
              Located, Ending, Terminal, Goto
<1>4. ASSUME NEW j \in Jobs, Fetch(j) \/ Checkout(j) \/ Head(j) PROVE Goal
  BY <1>4 DEF Fetch, Checkout, Head, TypeOK, Asked, Cancelable, StatusAgrees, Working, Commands,
              Located, Ending, Goto
<1>5. ASSUME NEW j \in Jobs, MakePlan(j) \/ Configure(j) \/ Jam(j) PROVE Goal
  BY <1>5 DEF MakePlan, Configure, Jam, TypeOK, Asked, Cancelable, StatusAgrees, Working, Commands,
              Located, Ending, Goto
<1>6. ASSUME NEW j \in Jobs, Compile(j) \/ Collect(j) \/ Copy(j) \/ Hook(j) PROVE Goal
  BY <1>6 DEF Compile, Collect, Copy, Hook, TypeOK, Asked, Cancelable, StatusAgrees, Working,
              Commands, Located, Ending, Goto
<1>7. ASSUME NEW j \in Jobs, Fail(j) \/ Succeed(j) PROVE Goal
  BY <1>7 DEF Fail, Succeed, TypeOK, Asked, Cancelable, StatusAgrees, Working, Commands,
              Located, Ending, Terminal, Goto
<1>8. ASSUME NEW j \in Jobs, Cleanup(j) \/ Release(j) PROVE Goal
  BY <1>8 DEF Cleanup, Release, TypeOK, Asked, Cancelable, StatusAgrees, Working, Commands,
              Located, Ending, Terminal, Goto
<1>9. CASE Restart
  BY <1>9 DEF Restart, TypeOK, Asked, Cancelable, StatusAgrees, Working, Commands, Located, Ending, Terminal
<1>10. CASE UNCHANGED jobVars
  BY <1>10 DEF jobVars, Asked, Cancelable, StatusAgrees
<1>11. ASSUME NEW s \in Sources, NEW purge \in BOOLEAN, AddSource(s) \/ RemoveSource(s, purge)
       PROVE  UNCHANGED jobVars
  BY <1>11 DEF AddSource, RemoveSource
<1>12. ASSUME NEW d \in Variants, RemoveRuntime(d) PROVE UNCHANGED jobVars
  BY <1>12 DEF RemoveRuntime
<1>13. Idle \/ UNCHANGED vars => UNCHANGED jobVars BY DEF Idle, vars
<1> QED BY <1>1, <1>2, <1>3, <1>4, <1>5, <1>6, <1>7, <1>8, <1>9, <1>10, <1>11, <1>12, <1>13
        DEF Next, RunStep, Success

\* Every action keeps the slots with the jobs that are past the wait.
LEMMA HeldStep == SlotInv /\ [Next]_vars => Held'
<1> SUFFICES ASSUME TypeOK, Asked, Held, Cancelable, StatusAgrees, [Next]_vars PROVE Held'
  BY DEF SlotInv
<1>1. ASSUME NEW j \in Jobs, NEW s \in Sources, NEW c \in Commits \cup {None}, NEW b \in Backends,
             Submit(j, [source |-> s, commit |-> c, backend |-> b])
      PROVE  Held'
  BY <1>1 DEF Submit, TypeOK, Held, Holding, Working, Commands, Located, Ending, Goto
<1>2. ASSUME NEW j \in Jobs, Cancel(j) \/ CancelQueued(j) PROVE Held'
  BY <1>2 DEF Cancel, CancelQueued, TypeOK, Held, Holding, Working, Commands, Located, Ending, Goto
<1>3. ASSUME NEW j \in Jobs, TakeSlot(j) PROVE Held'
  <2>1. sem' = sem \cup {j} /\ pc' = [pc EXCEPT ![j] = "fetch"] /\ Cardinality(sem) < Slots
    BY <1>3 DEF TakeSlot, Goto
  <2>2. j \notin sem
    BY <1>3 DEF TakeSlot, Held, Holding, Working, Commands, Located, Ending
  <2>3. IsFiniteSet(sem') /\ Cardinality(sem') = Cardinality(sem) + 1
    BY <2>1, <2>2, FS_AddElement DEF Held
  <2>4. Cardinality(sem) \in Nat BY FS_CardinalityType DEF Held
  <2>5. Cardinality(sem') <= Slots BY <2>1, <2>3, <2>4
  <2>6. \A k \in Jobs : k \in sem' <=> pc'[k] \in Holding
    BY <2>1 DEF TypeOK, Held, Holding, Working, Commands
  <2> QED BY <2>3, <2>5, <2>6 DEF Held
<1>4. ASSUME NEW j \in Jobs, Fetch(j) \/ Checkout(j) \/ Head(j) PROVE Held'
  BY <1>4 DEF Fetch, Checkout, Head, TypeOK, Held, Holding, Working, Commands, Located, Ending, Goto
<1>5. ASSUME NEW j \in Jobs, MakePlan(j) \/ Configure(j) \/ Jam(j) PROVE Held'
  BY <1>5 DEF MakePlan, Configure, Jam, TypeOK, Held, Holding, Working, Commands, Located, Ending, Goto
<1>6. ASSUME NEW j \in Jobs, Compile(j) \/ Collect(j) \/ Copy(j) \/ Hook(j) PROVE Held'
  BY <1>6 DEF Compile, Collect, Copy, Hook, TypeOK, Held, Holding, Working, Commands, Located, Ending, Goto
<1>7. ASSUME NEW j \in Jobs, Fail(j) \/ Succeed(j) \/ Cleanup(j) PROVE Held'
  BY <1>7 DEF Fail, Succeed, Cleanup, TypeOK, Held, Holding, Working, Commands, Located, Ending, Goto
<1>8. ASSUME NEW j \in Jobs, Release(j) PROVE Held'
  <2>1. sem' = sem \ {j} /\ pc' = [pc EXCEPT ![j] = "done"]
    BY <1>8 DEF Release, Goto
  <2>2. IsFiniteSet(sem') /\ Cardinality(sem') <= Cardinality(sem)
    <3>1. IsFiniteSet(sem) /\ Cardinality(sem) \in Nat BY FS_CardinalityType DEF Held
    <3>2. /\ IsFiniteSet(sem \ {j})
          /\ Cardinality(sem \ {j}) = IF j \in sem THEN Cardinality(sem) - 1 ELSE Cardinality(sem)
      BY <3>1, FS_RemoveElement
    <3> QED BY <2>1, <3>1, <3>2
  <2>3. Cardinality(sem) \in Nat /\ Cardinality(sem') \in Nat
    BY <2>2, FS_CardinalityType DEF Held
  <2>4. Cardinality(sem') <= Slots BY <2>2, <2>3 DEF Held
  <2>5. \A k \in Jobs : k \in sem' <=> pc'[k] \in Holding
    BY <2>1 DEF TypeOK, Held, Holding, Working, Commands, Located, Ending
  <2> QED BY <2>2, <2>4, <2>5 DEF Held
<1>9. CASE Restart
  BY <1>9, FS_EmptySet DEF Restart, Held, Holding, Working, Commands, Located, Ending
<1>10. CASE UNCHANGED jobVars
  BY <1>10 DEF jobVars, Held
<1>11. ASSUME NEW s \in Sources, NEW purge \in BOOLEAN, AddSource(s) \/ RemoveSource(s, purge)
       PROVE  UNCHANGED jobVars
  BY <1>11 DEF AddSource, RemoveSource
<1>12. ASSUME NEW d \in Variants, RemoveRuntime(d) PROVE UNCHANGED jobVars
  BY <1>12 DEF RemoveRuntime
<1>13. Idle \/ UNCHANGED vars => UNCHANGED jobVars BY DEF Idle, vars
<1> QED BY <1>1, <1>2, <1>3, <1>4, <1>5, <1>6, <1>7, <1>8, <1>9, <1>10, <1>11, <1>12, <1>13
        DEF Next, RunStep, Success

\* The slots, the labels and the types, in every state.
LEMMA SlotInductive == SafetySpec => []SlotInv
<1>1. Init => SlotInv BY InitIInv DEF IInv
<1>2. SlotInv /\ [Next]_vars => SlotInv'
  BY TypeStep, LabelStep, HeldStep DEF SlotInv
<1> QED BY <1>1, <1>2, PTL DEF SafetySpec

-----------------------------------------------------------------------------
\* Type correctness, whatever is removed, restarted or jammed meanwhile.
THEOREM TypeCorrect == SafetySpec => []TypeOK
<1>1. SlotInv => TypeOK BY DEF SlotInv
<1> QED BY <1>1, SlotInductive, PTL

\* e.sem bounds the running jobs, and a job that is over holds no slot and
\* cannot be canceled: the two deferred functions of run (304-322).
THEOREM SlotsAreKept == SafetySpec => []SlotAccounting
<1>1. SlotInv => SlotAccounting
  <2> SUFFICES ASSUME SlotInv PROVE SlotAccounting OBVIOUS
  <2> DEFINE Running == {j \in Jobs : status[j] = "running"}
  <2>1. Running \subseteq sem
    BY DEF SlotInv, StatusAgrees, Held, Holding
  <2>2. Cardinality(Running) <= Cardinality(sem) /\ IsFiniteSet(Running)
    BY <2>1, FS_Subset DEF SlotInv, Held
  <2>3. Cardinality(Running) \in Nat /\ Cardinality(sem) \in Nat
    BY <2>2, FS_CardinalityType DEF SlotInv, Held
  <2>4. Cardinality(Running) <= Slots
    BY <2>2, <2>3 DEF SlotInv, Held
  <2>5. \A j \in Jobs : pc[j] = "done" => j \notin sem /\ j \notin cancels
    BY DEF SlotInv, Held, Cancelable, Holding, Working, Commands, Located, Ending
  <2> QED BY <2>4, <2>5 DEF SlotAccounting
<1> QED BY <1>1, SlotInductive, PTL

\* setStatus is not called for a job whose outcome was set: each terminal
\* status is set where run returns (468-489).
THEOREM OutcomesAreFinal == SafetySpec => OutcomeIsFinal
<1> DEFINE Kept == \A j \in Jobs : status[j] \in Terminal => status'[j] \in {status[j], "none"}
<1>1. SlotInv /\ [Next]_vars => [Kept]_vars
  <2> SUFFICES ASSUME SlotInv, Next PROVE Kept BY DEF vars
  <2>1. ASSUME NEW k \in Jobs, status[k] \in Terminal
        PROVE  pc[k] \in Ending \cup {"done"}
    BY <2>1 DEF SlotInv, StatusAgrees
  <2>2. ASSUME NEW j \in Jobs, NEW new \in Terminal \cup {"queued", "running"},
               pc[j] \notin Ending \cup {"done"}, status' = [status EXCEPT ![j] = new]
        PROVE  Kept
    BY <2>1, <2>2 DEF SlotInv, TypeOK
  <2>3. ASSUME NEW j \in Jobs, NEW r, Submit(j, r) PROVE Kept
    BY <2>2, <2>3 DEF Submit, Ending
  <2>4. ASSUME NEW j \in Jobs, TakeSlot(j) \/ CancelQueued(j) PROVE Kept
    BY <2>2, <2>4 DEF TakeSlot, CancelQueued, Ending, Terminal
  <2>5. ASSUME NEW j \in Jobs, Fail(j) PROVE Kept
    <3>1. pc[j] \notin Ending \cup {"done"}
      BY <2>5 DEF Fail, Working, Commands, Located, Ending
    <3>2. PICK new \in Terminal : status' = [status EXCEPT ![j] = new]
      BY <2>5 DEF Fail, Terminal
    <3> QED BY <2>2, <3>1, <3>2
  <2>6. ASSUME NEW j \in Jobs, Succeed(j) PROVE Kept
    BY <2>2, <2>6 DEF Succeed, Ending, Terminal
  <2>7. CASE UNCHANGED status BY <2>7
  <2>8. CASE Restart BY <2>8 DEF Restart
  <2>9. ASSUME NEW j \in Jobs, Cancel(j) \/ Jam(j) \/ Cleanup(j) \/ Release(j) PROVE UNCHANGED status
    BY <2>9 DEF Cancel, Jam, Cleanup, Release
  <2>10. ASSUME NEW j \in Jobs, Fetch(j) \/ Checkout(j) \/ Head(j) \/ MakePlan(j) \/ Configure(j)
                                \/ Compile(j) \/ Collect(j) \/ Copy(j) \/ Hook(j)
         PROVE  UNCHANGED status
    BY <2>10 DEF Fetch, Checkout, Head, MakePlan, Configure, Compile, Collect, Copy, Hook
  <2>11. ASSUME NEW s \in Sources, NEW purge \in BOOLEAN, AddSource(s) \/ RemoveSource(s, purge)
         PROVE  UNCHANGED status
    BY <2>11 DEF AddSource, RemoveSource, jobVars
  <2>12. ASSUME NEW d \in Variants, RemoveRuntime(d) PROVE UNCHANGED status
    BY <2>12 DEF RemoveRuntime, jobVars
  <2>13. Idle => UNCHANGED status BY DEF Idle, vars, jobVars
  <2> QED BY <2>3, <2>4, <2>5, <2>6, <2>7, <2>8, <2>9, <2>10, <2>11, <2>12, <2>13
          DEF Next, RunStep, Success
<1> QED BY <1>1, SlotInductive, PTL DEF SafetySpec, OutcomeIsFinal

-----------------------------------------------------------------------------
(* With a single slot.                                                     *)

\* One slot has one holder.
LEMMA OneHolder ==
    ASSUME Slots = 1, Held, NEW j \in Jobs, NEW k \in Jobs, pc[j] \in Holding, pc[k] \in Holding
    PROVE  j = k
<1>1. j \in sem /\ k \in sem BY DEF Held
<1>2. IsFiniteSet(sem) /\ Cardinality(sem) \in Nat /\ Cardinality(sem) <= 1
  BY FS_CardinalityType DEF Held
<1>3. Cardinality(sem) = 0 \/ Cardinality(sem) = 1 BY <1>2
<1>4. Cardinality(sem) # 0 BY <1>1, <1>2, FS_EmptySet
<1>5. PICK x : sem = {x} BY <1>2, <1>3, <1>4, FS_Singleton
<1> QED BY <1>1, <1>5

\* While a job of one slot moves, no other is past the wait.
LEMMA CheckedOutStep ==
    Slots = 1 /\ IInv /\ [Next]_vars => CheckedOut'
<1> SUFFICES ASSUME Slots = 1, TypeOK, Asked, Held, CheckedOut, [Next]_vars PROVE CheckedOut'
  BY DEF IInv, SlotInv
<1>1. ASSUME NEW j \in Jobs, pc[j] \in Holding, NEW k \in Jobs, pc[k] \in Located \cup {"head"}
      PROVE  k = j
  BY <1>1, OneHolder DEF Holding, Working, Commands
<1>2. ASSUME NEW j \in Jobs, NEW s \in Sources, NEW c \in Commits \cup {None}, NEW b \in Backends,
             Submit(j, [source |-> s, commit |-> c, backend |-> b])
      PROVE  CheckedOut'
  BY <1>2 DEF Submit, TypeOK, CheckedOut, Src, Wanted, Located, Goto, diskVars
<1>14. ASSUME UNCHANGED <<req, commit, head>>,
              \A k \in Jobs : \/ pc'[k] \notin Located \cup {"head"}
                              \/ pc'[k] = "head" /\ pc[k] = "head"
                              \/ pc'[k] \in Located /\ pc[k] \in Located
       PROVE  CheckedOut'
  BY <1>14 DEF CheckedOut, Src, Wanted, Located
<1>3. ASSUME NEW j \in Jobs, Cancel(j) \/ TakeSlot(j) \/ CancelQueued(j) PROVE CheckedOut'
  <2>1. UNCHANGED <<req, commit, head>>
    BY <1>3 DEF Cancel, TakeSlot, CancelQueued, diskVars
  <2>2. pc' = pc \/ pc' = [pc EXCEPT ![j] = "fetch"] \/ pc' = [pc EXCEPT ![j] = "done"]
    BY <1>3 DEF Cancel, TakeSlot, CancelQueued, Goto
  <2> QED BY <1>14, <2>1, <2>2 DEF TypeOK, Located, Working, Commands
<1>4. ASSUME NEW j \in Jobs, Fetch(j) PROVE CheckedOut'
  <2>1. \A k \in Jobs : pc'[k] \notin Located \cup {"head"}
    BY <1>1, <1>4 DEF Fetch, TypeOK, Holding, Working, Commands, Located, Goto
  <2> QED BY <2>1 DEF CheckedOut
<1>5. ASSUME NEW j \in Jobs, Checkout(j) PROVE CheckedOut'
  <2>1. \A k \in Jobs : pc[k] \notin Located \cup {"head"}
    BY <1>1, <1>5 DEF Checkout, Holding, Working, Commands, Located
  <2>2. pc' = [pc EXCEPT ![j] = "head"] /\ UNCHANGED <<req, commit>>
    BY <1>5 DEF Checkout, Goto
  <2>3. Src(j) \in Sources BY <1>5 DEF Checkout, Src, Asked, Requests
  <2>4. PICK c \in Wanted(j) : head' = [head EXCEPT ![Src(j)] = c] BY <1>5 DEF Checkout
  <2>5. head'[Src(j)] \in Wanted(j) BY <2>3, <2>4 DEF TypeOK
  <2> QED BY <2>1, <2>2, <2>5 DEF TypeOK, CheckedOut, Src, Wanted, Located
<1>6. ASSUME NEW j \in Jobs, Head(j) PROVE CheckedOut'
  <2>1. \A k \in Jobs : pc'[k] \in Located \cup {"head"} => k = j /\ pc'[k] = "plan"
    BY <1>1, <1>6 DEF Head, TypeOK, Holding, Working, Commands, Located, Goto
  <2>2. UNCHANGED <<req, head>> /\ commit'[j] = head[Src(j)]
    BY <1>6 DEF Head, TypeOK, diskVars
  <2>3. head'[Src(j)'] = commit'[j] BY <2>2 DEF Src
  <2> QED BY <2>1, <2>3 DEF CheckedOut, Located
<1>7. ASSUME NEW j \in Jobs, MakePlan(j) \/ Configure(j) \/ Jam(j) PROVE CheckedOut'
  <2>1. UNCHANGED <<req, commit, head>> /\ pc[j] \in Located
    BY <1>7 DEF MakePlan, Configure, Jam, diskVars, Located
  <2>2. PICK label \in Located : pc' = [pc EXCEPT ![j] = label]
    BY <1>7 DEF MakePlan, Configure, Jam, Goto, Located
  <2> QED BY <1>14, <2>1, <2>2 DEF TypeOK, Located
<1>8. ASSUME NEW j \in Jobs, Compile(j) \/ Collect(j) \/ Copy(j) \/ Hook(j) PROVE CheckedOut'
  <2>1. UNCHANGED <<req, commit, head>> /\ pc[j] \in Located
    BY <1>8 DEF Compile, Collect, Copy, Hook, Located
  <2>2. PICK label \in Located : pc' = [pc EXCEPT ![j] = label]
    BY <1>8 DEF Compile, Collect, Copy, Hook, Goto, Located
  <2> QED BY <1>14, <2>1, <2>2 DEF TypeOK, Located
<1>9. ASSUME NEW j \in Jobs, Fail(j) \/ Succeed(j) \/ Cleanup(j) \/ Release(j) PROVE CheckedOut'
  <2>1. UNCHANGED <<req, commit, head>>
    BY <1>9 DEF Fail, Succeed, Cleanup, Release, diskVars
  <2>2. PICK label \in Ending \cup {"done"} : pc' = [pc EXCEPT ![j] = label]
    BY <1>9 DEF Fail, Succeed, Cleanup, Release, Goto, Ending
  <2> QED BY <1>14, <2>1, <2>2 DEF TypeOK, Located, Ending
<1>10. ASSUME NEW s \in Sources, NEW purge \in BOOLEAN, AddSource(s) \/ RemoveSource(s, purge)
       PROVE  CheckedOut'
  <2>1. UNCHANGED <<pc, req, commit>> BY <1>10 DEF AddSource, RemoveSource, jobVars
  <2>2. \A t \in Sources : head'[t] \in {head[t], None}
    BY <1>10 DEF AddSource, RemoveSource, TypeOK
  <2>3. \A j \in Jobs : pc[j] \in Located \cup {"head"} => Src(j) \in Sources
    BY DEF Asked, Requests, Src, Located
  <2> QED BY <2>1, <2>2, <2>3 DEF CheckedOut, Src, Wanted
<1>11. ASSUME NEW d \in Variants, RemoveRuntime(d) PROVE CheckedOut'
  BY <1>11 DEF RemoveRuntime, CheckedOut, Src, Wanted, jobVars
<1>12. CASE Restart
  BY <1>12 DEF Restart, TypeOK, CheckedOut, Located
<1>13. CASE UNCHANGED vars
  BY <1>13 DEF CheckedOut, Src, Wanted, vars, jobVars, diskVars
<1> QED BY <1>2, <1>3, <1>4, <1>5, <1>6, <1>7, <1>8, <1>9, <1>10, <1>11, <1>12, <1>13
        DEF Next, RunStep, Success, Idle

\* rev-parse answers with a commit the request allows.
LEMMA CommitStep == IInv /\ [Next]_vars => CommitHonoured'
<1> SUFFICES ASSUME TypeOK, Asked, CheckedOut, CommitHonoured, [Next]_vars PROVE CommitHonoured'
  BY DEF IInv, SlotInv
<1>1. ASSUME NEW j \in Jobs, NEW s \in Sources, NEW c \in Commits \cup {None}, NEW b \in Backends,
             Submit(j, [source |-> s, commit |-> c, backend |-> b])
      PROVE  CommitHonoured'
  BY <1>1 DEF Submit, TypeOK, Asked, CommitHonoured
<1>2. ASSUME NEW j \in Jobs, Head(j) PROVE CommitHonoured'
  <2>1. head[Src(j)] \in Wanted(j) BY <1>2 DEF Head, CheckedOut
  <2>2. req[j].commit # None => head[Src(j)] = req[j].commit BY <2>1 DEF Wanted
  <2> QED BY <1>2, <2>2 DEF Head, TypeOK, CommitHonoured
<1>3. ASSUME UNCHANGED <<req, commit>> PROVE CommitHonoured'
  BY <1>3 DEF CommitHonoured
<1>4. ASSUME NEW j \in Jobs, Cancel(j) \/ TakeSlot(j) \/ CancelQueued(j) \/ Jam(j)
      PROVE  UNCHANGED <<req, commit>>
  BY <1>4 DEF Cancel, TakeSlot, CancelQueued, Jam
<1>5. ASSUME NEW j \in Jobs, \/ Fetch(j) \/ Checkout(j) \/ MakePlan(j) \/ Configure(j) \/ Compile(j)
                             \/ Collect(j) \/ Copy(j) \/ Hook(j) \/ Succeed(j)
      PROVE  UNCHANGED <<req, commit>>
  BY <1>5 DEF Fetch, Checkout, MakePlan, Configure, Compile, Collect, Copy, Hook, Succeed
<1>6. ASSUME NEW j \in Jobs, Fail(j) \/ Cleanup(j) \/ Release(j) PROVE UNCHANGED <<req, commit>>
  BY <1>6 DEF Fail, Cleanup, Release
<1>7. ASSUME NEW s \in Sources, NEW purge \in BOOLEAN, AddSource(s) \/ RemoveSource(s, purge)
      PROVE  UNCHANGED <<req, commit>>
  BY <1>7 DEF AddSource, RemoveSource, jobVars
<1>8. ASSUME NEW d \in Variants, RemoveRuntime(d) PROVE UNCHANGED <<req, commit>>
  BY <1>8 DEF RemoveRuntime, jobVars
<1>9. Restart \/ Idle \/ UNCHANGED vars => UNCHANGED <<req, commit>>
  BY DEF Restart, Idle, vars, jobVars
<1> QED BY <1>1, <1>2, <1>3, <1>4, <1>5, <1>6, <1>7, <1>8, <1>9 DEF Next, RunStep, Success

\* What is compiled, copied and read is of the commit the directory names.
LEMMA RuntimesStep == IInv /\ [Next]_vars => RuntimesFaithful'
<1> SUFFICES ASSUME TypeOK, Asked, CheckedOut, RuntimesFaithful, [Next]_vars PROVE RuntimesFaithful'
  BY DEF IInv, SlotInv
<1>1. ASSUME NEW j \in Jobs, pc[j] \in Located, head[Src(j)] # None
      PROVE  Dir(j) \in Variants /\ head[Src(j)] = Dir(j)[2]
  BY <1>1, DirTyped DEF CheckedOut
<1>2. ASSUME NEW j \in Jobs, Compile(j) \/ Fail(j) \/ Jam(j) PROVE RuntimesFaithful'
  <2>1. UNCHANGED <<bin, manifest>> BY <1>2 DEF Compile, Fail, Jam
  <2>2. tree' = tree \/ /\ pc[j] = "compile" /\ head[Src(j)] # None
                        /\ tree' = [tree EXCEPT ![Dir(j)] = head[Src(j)]]
    BY <1>2 DEF Compile, Fail, Jam
  <2> QED BY <1>1, <2>1, <2>2 DEF TypeOK, RuntimesFaithful, Located
<1>3. ASSUME NEW j \in Jobs, Collect(j) \/ Copy(j) PROVE RuntimesFaithful'
  <2>1. pc[j] \in Located BY <1>3 DEF Collect, Copy, Located
  <2> QED BY <1>3, <2>1, DirTyped DEF Collect, Copy, TypeOK, RuntimesFaithful
<1>4. ASSUME NEW j \in Jobs, Hook(j) PROVE RuntimesFaithful'
  <2>1. Dir(j) \in Variants /\ head[Src(j)] = Dir(j)[2] BY <1>1, <1>4 DEF Hook, Located
  <2> QED BY <1>4, <2>1 DEF Hook, TypeOK, RuntimesFaithful
<1>5. ASSUME NEW d \in Variants, RemoveRuntime(d) PROVE RuntimesFaithful'
  BY <1>5 DEF RemoveRuntime, TypeOK, RuntimesFaithful
<1>6. ASSUME UNCHANGED <<tree, bin, manifest>> PROVE RuntimesFaithful'
  BY <1>6 DEF RuntimesFaithful
<1>7. ASSUME NEW j \in Jobs, NEW r, Submit(j, r) PROVE UNCHANGED <<tree, bin, manifest>>
  BY <1>7 DEF Submit, diskVars
<1>8. ASSUME NEW j \in Jobs, Cancel(j) \/ TakeSlot(j) \/ CancelQueued(j)
      PROVE  UNCHANGED <<tree, bin, manifest>>
  BY <1>8 DEF Cancel, TakeSlot, CancelQueued, diskVars
<1>9. ASSUME NEW j \in Jobs, \/ Fetch(j) \/ Checkout(j) \/ Head(j) \/ MakePlan(j) \/ Configure(j)
                             \/ Succeed(j) \/ Cleanup(j) \/ Release(j)
      PROVE  UNCHANGED <<tree, bin, manifest>>
  BY <1>9 DEF Fetch, Checkout, Head, MakePlan, Configure, Succeed, Cleanup, Release, diskVars
<1>10. ASSUME NEW s \in Sources, NEW purge \in BOOLEAN, AddSource(s) \/ RemoveSource(s, purge)
       PROVE  UNCHANGED <<tree, bin, manifest>>
  BY <1>10 DEF AddSource, RemoveSource
<1>11. Idle \/ UNCHANGED vars => UNCHANGED <<tree, bin, manifest>>
  BY DEF Idle, vars, diskVars
<1>12. CASE Restart
  <2>1. UNCHANGED <<bin, manifest>> BY <1>12 DEF Restart
  <2>2. \A d \in Variants : StillCompiled(d) \subseteq {d[2]}
    BY <1>1 DEF StillCompiled, Located
  <2>3. \A d \in Variants : tree'[d] \in {tree[d]} \cup StillCompiled(d)
    BY <1>12 DEF Restart
  <2> QED BY <2>1, <2>2, <2>3 DEF RuntimesFaithful
<1> QED BY <1>2, <1>3, <1>4, <1>5, <1>6, <1>7, <1>8, <1>9, <1>10, <1>11, <1>12 DEF Next, RunStep, Success

\* The whole invariant, in every state, when builds run one at a time.
LEMMA SerialInductive == Slots = 1 => (SafetySpec => []IInv)
<1> SUFFICES ASSUME Slots = 1 PROVE SafetySpec => []IInv OBVIOUS
<1>1. IInv /\ [Next]_vars => IInv'
  BY TypeStep, LabelStep, HeldStep, CheckedOutStep, CommitStep, RuntimesStep DEF IInv, SlotInv
<1> QED BY <1>1, InitIInv, PTL DEF SafetySpec

\* A job builds the commit it was asked for, if builds run one at a time.
THEOREM CommitsAreHonoured == Slots = 1 => (SafetySpec => []CommitHonoured)
<1> SUFFICES ASSUME Slots = 1 PROVE SafetySpec => []CommitHonoured OBVIOUS
<1>1. IInv => CommitHonoured BY DEF IInv
<1>2. SafetySpec => []IInv BY SerialInductive
<1> QED BY <1>1, <1>2, PTL

\* The tree, the binaries and the architectures filed under a commit are of
\* that commit, if builds run one at a time, whatever is removed or killed.
THEOREM RuntimesAreFaithful == Slots = 1 => (SafetySpec => []RuntimesFaithful)
<1> SUFFICES ASSUME Slots = 1 PROVE SafetySpec => []RuntimesFaithful OBVIOUS
<1>1. IInv => RuntimesFaithful BY DEF IInv
<1>2. SafetySpec => []IInv BY SerialInductive
<1> QED BY <1>1, <1>2, PTL
=============================================================================

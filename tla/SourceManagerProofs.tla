------------------------ MODULE SourceManagerProofs -------------------------
(***************************************************************************)
(* For any repositories, commits and calls: what the registry shows of a   *)
(* source agrees with itself; with edits and calls apart it is of the      *)
(* source's own repository; with pushes apart too, what a build asks for   *)
(* is there when it is checked out.                                        *)
(***************************************************************************)
EXTENDS SourceManager, TLAPS

USE SourceAssumption

-----------------------------------------------------------------------------
(* Part 1: whichever calls, edits and pushes overlap.                      *)

\* A call under way has a copy of an entry; what it has found is a commit;
\* and no commit is recorded that has not been pushed.
Found ==
    \A c \in Calls :
        /\ Busy(c) => copy[c] # None /\ copy[c] \in Sources
        /\ pc[c] = "checkout" => wanted[c] \in Commits
        /\ pc[c] = "record" => local[c] \in Commits

IInv == TypeOK /\ Found /\ FlagAgrees

\* A repository's tip and what is below it are commits.
LEMMA TipType ==
    ASSUME TypeOK, NEW r \in Repos
    PROVE  Tip(r) \in Commits /\ Pushed(r) \subseteq Commits /\ Tip(r) \in Pushed(r)
BY DEF TypeOK, Tip, Pushed, Commits

\* The initial states satisfy the invariant.
LEMMA InitIInv == Init => IInv
BY DEF Init, IInv, TypeOK, Found, FlagAgrees, Maybe, Busy, CheckBusy, BuildBusy

\* Every action keeps the types.
LEMMA TypeStep == TypeOK /\ Found /\ [Next]_vars => TypeOK'
<1> SUFFICES ASSUME TypeOK, Found, [Next]_vars PROVE TypeOK' OBVIOUS
<1>1. ASSUME NEW r \in Repos, Push(r) PROVE TypeOK'
  BY <1>1 DEF Push, TypeOK, diskVars, callVars
<1>2. ASSUME NEW r \in Repos, Add(r) PROVE TypeOK'
  BY <1>2 DEF Add, TypeOK, Maybe, Sources, repoVars, diskVars, callVars
<1>3. ASSUME NEW purge \in BOOLEAN, Remove(purge) PROVE TypeOK'
  BY <1>3 DEF Remove, TypeOK, Maybe, repoVars, diskVars, callVars
<1>4. ASSUME NEW c \in Checks, CheckBegin(c) PROVE TypeOK'
  BY <1>4 DEF CheckBegin, TypeOK, Maybe, CheckBusy, Calls, Goto, repoVars, diskVars
<1>5. ASSUME NEW c \in Checks, CheckResolve(c) PROVE TypeOK'
  <2>1. Tip(copy[c].url) \in Commits
    BY <1>5, TipType DEF CheckResolve, Found, Busy, CheckBusy, Calls, Sources
  <2> QED BY <1>5, <2>1 DEF CheckResolve, TypeOK, Maybe, CheckBusy, Calls, Goto, repoVars, diskVars
<1>6. ASSUME NEW c \in Checks, CheckCompare(c) PROVE TypeOK'
  BY <1>6 DEF CheckCompare, TypeOK, Maybe, CheckBusy, Calls, Goto, repoVars, diskVars
<1>7. ASSUME NEW c \in Checks, CheckStore(c) PROVE TypeOK'
  BY <1>7 DEF CheckStore, TypeOK, Maybe, Sources, CheckBusy, Calls, Goto, repoVars, diskVars
<1>8. ASSUME NEW b \in Builds, NEW commit \in Maybe(UNION {Pushed(r) : r \in Repos}), BuildBegin(b, commit)
      PROVE  TypeOK'
  <2>1. commit \in Maybe(Commits) BY <1>8, TipType DEF Maybe
  <2> QED BY <1>8, <2>1 DEF BuildBegin, TypeOK, Maybe, BuildBusy, Calls, Goto, repoVars, diskVars
<1>9. ASSUME NEW b \in Builds, Clone(b) PROVE TypeOK'
  <2>1. source # None => /\ source.url \in Repos /\ Tip(source.url) \in Pushed(source.url)
                         /\ Pushed(source.url) \subseteq Commits
    BY TipType DEF TypeOK, Maybe, Sources
  <2>2. pc' \in [Calls -> CheckBusy \cup BuildBusy \cup {"idle", "done", "failed"}]
    BY <1>9 DEF Clone, TypeOK, BuildBusy, Goto
  <2>3. \/ UNCHANGED diskVars
        \/ source # None /\ head' = Tip(source.url) /\ objects' = Pushed(source.url) /\ origin' = source.url
    BY <1>9 DEF Clone
  <2>4. /\ head' \in Maybe(Commits) /\ objects' \subseteq Commits /\ origin' \in Maybe(Repos)
        /\ head' # None => head' \in objects' /\ origin' # None
    <3>1. CASE UNCHANGED diskVars BY <3>1 DEF TypeOK, diskVars
    <3>2. CASE source # None /\ head' = Tip(source.url) /\ objects' = Pushed(source.url) /\ origin' = source.url
      BY <2>1, <3>2 DEF Maybe
    <3> QED BY <2>3, <3>1, <3>2
  <2>5. UNCHANGED <<repoVars, source, copy, wanted, remote, local>> BY <1>9 DEF Clone
  <2> QED BY <2>2, <2>4, <2>5 DEF TypeOK, repoVars
<1>10. ASSUME NEW b \in Builds, SetURL(b) \/ Fetch(b) PROVE TypeOK'
  <2>1. copy[b] \in Sources BY <1>10 DEF SetURL, Fetch, Found, Busy, BuildBusy, Calls
  <2>2. head # None => origin \in Repos BY DEF TypeOK, Maybe
  <2>3. origin \in Repos => Pushed(origin) \subseteq Commits BY TipType
  <2>4. /\ head' = head /\ objects \subseteq objects' /\ objects' \subseteq Commits
        /\ origin' \in Repos
    BY <1>10, <2>1, <2>2, <2>3 DEF SetURL, Fetch, TypeOK, Sources
  <2>5. PICK label \in BuildBusy : pc' = [pc EXCEPT ![b] = label]
    BY <1>10 DEF SetURL, Fetch, Goto, BuildBusy
  <2>6. UNCHANGED <<repoVars, source, copy, wanted, remote, local>> BY <1>10 DEF SetURL, Fetch
  <2> QED BY <2>4, <2>5, <2>6 DEF TypeOK, Maybe, repoVars
<1>11. ASSUME NEW b \in Builds, Pick(b) PROVE TypeOK'
  <2>1. copy[b] \in Sources BY <1>11 DEF Pick, Found, Busy, BuildBusy, Calls
  <2>2. Tip(copy[b].url) \in Commits BY <2>1, TipType DEF Sources
  <2> QED BY <1>11, <2>1, <2>2 DEF Pick, TypeOK, Maybe, Sources, BuildBusy, Calls, Goto, repoVars, diskVars
<1>12. ASSUME NEW b \in Builds, Checkout(b) PROVE TypeOK'
  BY <1>12 DEF Checkout, TypeOK, Maybe, BuildBusy, Calls, Goto, repoVars
<1>13. ASSUME NEW b \in Builds, Submodules(b) \/ ReadHead(b) \/ BuildFails(b) PROVE TypeOK'
  BY <1>13 DEF Submodules, ReadHead, BuildFails, TypeOK, Maybe, BuildBusy, Calls, Goto, repoVars, diskVars
<1>14. ASSUME NEW b \in Builds, Record(b) PROVE TypeOK'
  BY <1>14 DEF Record, TypeOK, Maybe, Sources, BuildBusy, Calls, Goto, repoVars, diskVars
<1>15. CASE UNCHANGED vars BY <1>15 DEF vars, repoVars, diskVars, callVars, TypeOK
<1> QED BY <1>1, <1>2, <1>3, <1>4, <1>5, <1>6, <1>7, <1>8, <1>9, <1>10, <1>11, <1>12, <1>13, <1>14, <1>15
        DEF Next, BuildStep

\* Every action keeps what the calls have found, and the flag.
LEMMA FoundStep == IInv /\ [Next]_vars => Found' /\ FlagAgrees'
<1> SUFFICES ASSUME TypeOK, Found, FlagAgrees, [Next]_vars PROVE Found' /\ FlagAgrees'
  BY DEF IInv
<1> DEFINE Goal == Found' /\ FlagAgrees'
<1>1. ASSUME UNCHANGED <<source, callVars>> PROVE Goal
  BY <1>1 DEF callVars, Found, FlagAgrees, Busy
<1>2. ASSUME NEW r \in Repos, Push(r) PROVE UNCHANGED <<source, callVars>>
  BY <1>2 DEF Push
<1>3. ASSUME NEW r \in Repos, Add(r) PROVE Goal
  BY <1>3 DEF Add, callVars, Found, FlagAgrees, Busy
<1>4. ASSUME NEW purge \in BOOLEAN, Remove(purge) PROVE Goal
  BY <1>4 DEF Remove, callVars, Found, FlagAgrees, Busy
<1>5. ASSUME NEW c \in Checks, CheckBegin(c) PROVE Goal
  BY <1>5 DEF CheckBegin, TypeOK, Maybe, Found, FlagAgrees, Busy, CheckBusy, BuildBusy, Calls, Goto
<1>6. ASSUME NEW c \in Checks, CheckResolve(c) \/ CheckCompare(c) PROVE Goal
  BY <1>6 DEF CheckResolve, CheckCompare, TypeOK, Found, FlagAgrees, Busy, CheckBusy, BuildBusy, Calls, Goto
<1>7. ASSUME NEW c \in Checks, CheckStore(c) PROVE Goal
  BY <1>7 DEF CheckStore, TypeOK, Maybe, Sources, Found, FlagAgrees, Busy, CheckBusy, BuildBusy, Calls, Goto
<1>8. ASSUME NEW b \in Builds, NEW commit, BuildBegin(b, commit) PROVE Goal
  BY <1>8 DEF BuildBegin, TypeOK, Maybe, Found, FlagAgrees, Busy, CheckBusy, BuildBusy, Calls, Goto
<1>9. ASSUME NEW b \in Builds, Clone(b) \/ SetURL(b) \/ Fetch(b) PROVE Goal
  BY <1>9 DEF Clone, SetURL, Fetch, TypeOK, Found, FlagAgrees, Busy, CheckBusy, BuildBusy, Calls, Goto
<1>10. ASSUME NEW b \in Builds, Pick(b) PROVE Goal
  <2>1. copy[b] \in Sources BY <1>10 DEF Pick, Found, Busy, BuildBusy, Calls
  <2>2. Tip(copy[b].url) \in Commits BY <2>1, TipType DEF Sources
  <2> QED BY <1>10, <2>1, <2>2 DEF Pick, TypeOK, Maybe, Sources, Found, FlagAgrees, Busy, CheckBusy, BuildBusy, Calls, Goto
<1>11. ASSUME NEW b \in Builds, Checkout(b) \/ Submodules(b) \/ BuildFails(b) PROVE Goal
  BY <1>11 DEF Checkout, Submodules, BuildFails, TypeOK, Found, FlagAgrees, Busy, CheckBusy, BuildBusy, Calls, Goto
<1>12. ASSUME NEW b \in Builds, ReadHead(b) PROVE Goal
  BY <1>12 DEF ReadHead, TypeOK, Maybe, Found, FlagAgrees, Busy, CheckBusy, BuildBusy, Calls, Goto
<1>13. ASSUME NEW b \in Builds, Record(b) PROVE Goal
  <2>1. Found' BY <1>13 DEF Record, TypeOK, Found, Busy, CheckBusy, BuildBusy, Calls, Goto
  <2>2. local[b] # None BY <1>13 DEF Record, Found, Calls, Commits
  <2>3. FlagAgrees' BY <1>13, <2>2 DEF Record, TypeOK, Maybe, Sources, FlagAgrees
  <2> QED BY <2>1, <2>3
<1>14. UNCHANGED vars => UNCHANGED <<source, callVars>> BY DEF vars
<1> QED BY <1>1, <1>2, <1>3, <1>4, <1>5, <1>6, <1>7, <1>8, <1>9, <1>10, <1>11, <1>12, <1>13, <1>14
        DEF Next, BuildStep

\* The invariant holds in every state.
LEMMA Inductive == Spec => []IInv
<1>1. IInv /\ [Next]_vars => IInv' BY TypeStep, FoundStep DEF IInv
<1> QED BY <1>1, InitIInv, PTL DEF Spec

\* Types, and that a checkout is at a commit it has.
THEOREM TypeCorrect == Spec => []TypeOK
<1>1. IInv => TypeOK BY DEF IInv
<1> QED BY <1>1, Inductive, PTL

\* Whatever overlaps, the flag is of the two commits beside it: Check writes
\* all three at once, and EnsureCheckout compares with the entry it writes.
THEOREM FlagsAgree == Spec => []FlagAgrees
<1>1. IInv => FlagAgrees BY DEF IInv
<1> QED BY <1>1, Inductive, PTL

-----------------------------------------------------------------------------
(* Part 2: calls one after the other, and no edit while one is under way.  *)

Apart == overlap \cap {"calls", "edits"} = {}

Single == \A c, d \in Calls : Busy(c) /\ Busy(d) => c = d

\* A call works on the entry it copied, which is still there, and what a check
\* has resolved is of that entry's repository.
OwnWork ==
    \A c \in Calls : /\ Busy(c) => source # None /\ copy[c].url = source.url
                     /\ pc[c] \in {"compare", "store"} => /\ remote[c] # None
                                                          /\ remote[c].repo = source.url

OwnInv == Apart => Single /\ OwnWork /\ OwnCommits

\* The discipline of a behaviour does not change.
LEMMA OverlapStays == [Next]_vars => overlap' = overlap
BY DEF Next, vars, Push, Add, Remove, CheckBegin, CheckResolve, CheckCompare, CheckStore,
       BuildBegin, BuildStep, Clone, SetURL, Fetch, Pick, Checkout, Submodules, ReadHead, Record,
       BuildFails, repoVars

\* A call begins when no other is under way, and no step begins another.
LEMMA SingleStep == TypeOK /\ Apart /\ Single /\ [Next]_vars => Single'
<1> SUFFICES ASSUME TypeOK, Apart, Single, [Next]_vars PROVE Single' OBVIOUS
<1>1. ASSUME UNCHANGED callVars PROVE Single'
  BY <1>1 DEF callVars, Single, Busy
<1>2. ASSUME NEW c \in Calls, Quiet, NEW label, Goto(c, label) PROVE Single'
  BY <1>2 DEF Quiet, Goto, TypeOK, Single, Busy
<1>3. ASSUME NEW c \in Calls, Busy(c), NEW label, Goto(c, label) PROVE Single'
  BY <1>3 DEF Goto, TypeOK, Single, Busy
<1>4. ASSUME NEW r \in Repos, Push(r) \/ Add(r) PROVE UNCHANGED callVars
  BY <1>4 DEF Push, Add
<1>5. ASSUME NEW purge \in BOOLEAN, Remove(purge) PROVE UNCHANGED callVars
  BY <1>5 DEF Remove
<1>6. ASSUME NEW c \in Checks, CheckBegin(c) PROVE Single'
  BY <1>2, <1>6 DEF CheckBegin, May, Apart, Calls
<1>7. ASSUME NEW c \in Checks, CheckResolve(c) \/ CheckCompare(c) \/ CheckStore(c) PROVE Single'
  <2>1. c \in Calls /\ Busy(c)
    BY <1>7 DEF CheckResolve, CheckCompare, CheckStore, Calls, Busy, CheckBusy
  <2> QED BY <1>3, <1>7, <2>1 DEF CheckResolve, CheckCompare, CheckStore
<1>8. ASSUME NEW b \in Builds, NEW commit, BuildBegin(b, commit) PROVE Single'
  BY <1>2, <1>8 DEF BuildBegin, May, Apart, Calls
<1>9. ASSUME NEW b \in Builds, BuildStep(b) PROVE Single'
  <2>1. b \in Calls /\ Busy(b)
    BY <1>9 DEF BuildStep, Clone, SetURL, Fetch, Pick, Checkout, Submodules, ReadHead, Record,
                BuildFails, Calls, Busy, BuildBusy
  <2>2. \E label : Goto(b, label)
    BY <1>9 DEF BuildStep, Clone, SetURL, Fetch, Pick, Checkout, Submodules, ReadHead, Record, BuildFails
  <2> QED BY <1>3, <2>1, <2>2
<1>10. CASE UNCHANGED vars BY <1>1, <1>10 DEF vars
<1> QED BY <1>1, <1>4, <1>5, <1>6, <1>7, <1>8, <1>9, <1>10 DEF Next

\* What a check records is of the repository the entry names.
LEMMA OwnStep == IInv /\ Apart /\ Single /\ OwnWork /\ OwnCommits /\ [Next]_vars => OwnWork' /\ OwnCommits'
<1> SUFFICES ASSUME TypeOK, Found, Apart, Single, OwnWork, OwnCommits, [Next]_vars
             PROVE  OwnWork' /\ OwnCommits'
  BY DEF IInv
<1>1. source # None /\ source.remote # None => source.remote.repo = source.url
  BY DEF Apart, OwnCommits
<1> DEFINE Owned == source' # None /\ source'.remote # None => source'.remote.repo = source'.url
           Goal  == OwnWork' /\ Owned
<1>2. Owned => OwnCommits' BY OverlapStays DEF OwnCommits
<1>3. ASSUME NEW r \in Repos, Push(r) PROVE Goal
  BY <1>1, <1>3 DEF Push, callVars, OwnWork, Busy
<1>4. ASSUME NEW r \in Repos, Add(r) PROVE Goal
  <2>1. \A c \in Calls : ~Busy(c) BY <1>4 DEF Add, May, Apart, Quiet
  <2>2. OwnWork' BY <1>4, <2>1 DEF Add, callVars, OwnWork, Busy, CheckBusy
  <2> QED BY <1>4, <2>2 DEF Add
<1>5. ASSUME NEW purge \in BOOLEAN, Remove(purge) PROVE Goal
  <2>1. \A c \in Calls : ~Busy(c) BY <1>5 DEF Remove, May, Apart, Quiet
  <2>2. OwnWork' BY <1>5, <2>1 DEF Remove, callVars, OwnWork, Busy, CheckBusy
  <2> QED BY <1>5, <2>2 DEF Remove
<1>6. ASSUME NEW c \in Checks, CheckBegin(c) PROVE Goal
  BY <1>1, <1>6 DEF CheckBegin, TypeOK, OwnWork, Busy, CheckBusy, BuildBusy, Calls, Goto
<1>7. ASSUME NEW c \in Checks, CheckResolve(c) PROVE Goal
  <2>1. copy[c] \in Sources /\ source # None /\ copy[c].url = source.url
    BY <1>7 DEF CheckResolve, Found, OwnWork, Busy, CheckBusy, Calls
  <2>2. Tip(copy[c].url) # None /\ Tip(copy[c].url).repo = source.url
    BY <2>1, TipType DEF Sources, Tip, Commits
  <2> QED BY <1>1, <1>7, <2>1, <2>2 DEF CheckResolve, TypeOK, OwnWork, Busy, CheckBusy, BuildBusy, Calls, Goto
<1>8. ASSUME NEW c \in Checks, CheckCompare(c) PROVE Goal
  BY <1>1, <1>8 DEF CheckCompare, TypeOK, OwnWork, Busy, CheckBusy, BuildBusy, Calls, Goto
<1>9. ASSUME NEW c \in Checks, CheckStore(c) PROVE Goal
  <2>1. source \in Sources /\ source # None /\ remote[c].repo = source.url /\ Busy(c) /\ c \in Calls
    BY <1>9 DEF CheckStore, OwnWork, Busy, CheckBusy, Calls, TypeOK, Maybe
  <2>2. source'.url = source.url /\ source'.remote = remote[c]
    BY <1>9, <2>1 DEF CheckStore, Sources
  <2>3. \A d \in Calls : ~Busy(d)'
    BY <1>9, <2>1 DEF CheckStore, Single, TypeOK, Busy, CheckBusy, BuildBusy, Goto
  <2> QED BY <2>1, <2>2, <2>3 DEF OwnWork, Busy, CheckBusy
<1>10. ASSUME NEW b \in Builds, NEW commit, BuildBegin(b, commit) PROVE Goal
  BY <1>1, <1>10 DEF BuildBegin, TypeOK, OwnWork, Busy, CheckBusy, BuildBusy, Calls, Goto
<1>11. ASSUME NEW b \in Builds, Record(b) PROVE Goal
  <2>1. source \in Sources /\ source # None /\ Busy(b) /\ b \in Calls
    BY <1>11 DEF Record, OwnWork, Busy, BuildBusy, Calls, TypeOK, Maybe
  <2>2. source'.url = source.url /\ source'.remote = source.remote
    BY <1>11, <2>1 DEF Record, Sources
  <2>3. \A d \in Calls : ~Busy(d)'
    BY <1>11, <2>1 DEF Record, Single, TypeOK, Busy, CheckBusy, BuildBusy, Goto
  <2> QED BY <1>1, <2>1, <2>2, <2>3 DEF OwnWork, Busy, CheckBusy
<1>12. ASSUME NEW b \in Builds, Clone(b) \/ SetURL(b) \/ Fetch(b) \/ Pick(b) \/ Checkout(b)
                                \/ Submodules(b) \/ ReadHead(b) \/ BuildFails(b)
       PROVE  Goal
  <2>1. UNCHANGED <<source, copy, remote>> /\ pc[b] \in BuildBusy /\ b \in Calls
    BY <1>12 DEF Clone, SetURL, Fetch, Pick, Checkout, Submodules, ReadHead, BuildFails, BuildBusy, Calls
  <2>2. PICK label \in BuildBusy \cup {"failed"} : pc' = [pc EXCEPT ![b] = label]
    BY <1>12 DEF Clone, SetURL, Fetch, Pick, Checkout, Submodules, ReadHead, BuildFails, BuildBusy, Goto
  <2>3. OwnWork' BY <2>1, <2>2 DEF TypeOK, OwnWork, Busy, CheckBusy, BuildBusy
  <2> QED BY <1>1, <2>1, <2>3
<1>13. ASSUME UNCHANGED vars PROVE Goal
  <2>1. UNCHANGED <<source, pc, copy, remote>> BY <1>13 DEF vars, callVars
  <2>2. OwnWork' BY <2>1 DEF OwnWork, Busy
  <2> QED BY <1>1, <2>1, <2>2
<1> QED BY <1>2, <1>3, <1>4, <1>5, <1>6, <1>7, <1>8, <1>9, <1>10, <1>11, <1>12, <1>13 DEF Next, BuildStep

\* The invariant of part 2 holds in every state.
LEMMA OwnInductive == Spec => []OwnInv
<1>1. Init => OwnInv
  BY DEF Init, OwnInv, Single, OwnWork, OwnCommits, Busy, CheckBusy, BuildBusy
<1>2. IInv /\ OwnInv /\ [Next]_vars => OwnInv'
  <2> SUFFICES ASSUME IInv, OwnInv, [Next]_vars, Apart' PROVE Single' /\ OwnWork' /\ OwnCommits'
    BY DEF OwnInv
  <2>1. Apart BY OverlapStays DEF Apart
  <2> QED BY <2>1, SingleStep, OwnStep DEF OwnInv, IInv
<1> QED BY <1>1, <1>2, Inductive, PTL DEF Spec

\* The newest commit recorded is of the source's own URL, also when the name
\* had another URL before.
THEOREM CommitsAreOwn == Spec => []OwnCommits
<1>1. OwnInv => OwnCommits BY DEF OwnInv, Apart, OwnCommits
<1> QED BY <1>1, OwnInductive, PTL

-----------------------------------------------------------------------------
(* Part 3: calls, edits and pushes one after the other.                    *)

\* Commits that are recorded, asked for or found have been pushed.
Known(c)    == c # None => c.nr <= tip[c.repo]
Recorded(s) == s # None => Known(s.remote)
NoFuture ==
    /\ Recorded(source)
    /\ \A c \in Calls : Recorded(copy[c]) /\ Known(wanted[c]) /\ Known(remote[c])

\* How far a build has brought the clone to the URL of its copy.
Brought ==
    \A b \in Calls : /\ pc[b] = "fetch" => origin = copy[b].url
                     /\ pc[b] \in {"pick", "checkout"} => Pushed(copy[b].url) \subseteq objects

FetchInv == overlap = {} => Brought

\* What is at or below a tip has been pushed.
LEMMA PushedKnown ==
    ASSUME TypeOK, NEW r \in Repos, NEW c \in Pushed(r) PROVE Known(c)
<1>1. PICK n \in 1 .. tip[r] : c = [repo |-> r, nr |-> n] BY DEF Pushed
<1> QED BY <1>1 DEF TypeOK, Known

\* No call finds a commit before it is pushed.
LEMMA KnownStep == IInv /\ NoFuture /\ [Next]_vars => NoFuture'
<1> SUFFICES ASSUME TypeOK, Found, NoFuture, [Next]_vars PROVE NoFuture'
  BY DEF IInv
<1>1. ASSUME NEW r \in Repos, Push(r) PROVE NoFuture'
  <2>1. \A q \in Repos : tip[q] <= tip'[q] /\ tip[q] \in Int /\ tip'[q] \in Int BY <1>1 DEF Push, TypeOK
  <2>2. ASSUME NEW c \in Maybe(Commits), Known(c) PROVE Known(c)'
    BY <2>1, <2>2 DEF Known, Maybe, Commits
  <2>3. UNCHANGED <<source, copy, wanted, remote>> BY <1>1 DEF Push, callVars
  <2>4. ASSUME NEW s \in Maybe(Sources), Recorded(s) PROVE Recorded(s)'
    <3>1. s # None => s.remote \in Maybe(Commits) BY DEF Maybe, Sources
    <3> QED BY <2>2, <2>4, <3>1 DEF Recorded
  <2>5. Recorded(source)' BY <2>3, <2>4 DEF NoFuture, TypeOK, Recorded
  <2>6. ASSUME NEW c \in Calls PROVE (Recorded(copy[c]) /\ Known(wanted[c]) /\ Known(remote[c]))'
    <3>1. copy[c] \in Maybe(Sources) /\ wanted[c] \in Maybe(Commits) /\ remote[c] \in Maybe(Commits)
      BY DEF TypeOK
    <3>2. Recorded(copy[c])' BY <2>3, <2>4, <3>1 DEF NoFuture, Recorded
    <3>3. Known(wanted[c])' /\ Known(remote[c])' BY <2>2, <2>3, <3>1 DEF NoFuture, Known
    <3> QED BY <3>2, <3>3
  <2> QED BY <2>5, <2>6 DEF NoFuture
<1>3. ASSUME UNCHANGED <<tip, source, copy, wanted, remote>> PROVE NoFuture'
  BY <1>3 DEF NoFuture, Recorded, Known
<1>4. ASSUME NEW r \in Repos, Add(r) PROVE NoFuture'
  BY <1>4 DEF Add, repoVars, callVars, NoFuture, Recorded, Known
<1>5. ASSUME NEW purge \in BOOLEAN, Remove(purge) PROVE NoFuture'
  BY <1>5 DEF Remove, repoVars, callVars, NoFuture, Recorded, Known
<1>6. ASSUME NEW c \in Checks, CheckBegin(c) PROVE NoFuture'
  BY <1>6 DEF CheckBegin, repoVars, NoFuture, TypeOK, Recorded, Known, Calls
<1>7. ASSUME NEW c \in Checks, CheckResolve(c) PROVE NoFuture'
  <2>1. copy[c].url \in Repos BY <1>7 DEF CheckResolve, Found, Busy, CheckBusy, Calls, Sources
  <2>2. Known(Tip(copy[c].url)) BY <2>1, TipType, PushedKnown
  <2> QED BY <1>7, <2>2 DEF CheckResolve, repoVars, NoFuture, TypeOK, Recorded, Known, Calls
<1>8. ASSUME NEW c \in Checks, CheckStore(c) PROVE NoFuture'
  <2>1. source # None => source'.remote = remote[c]
    BY <1>8 DEF CheckStore, TypeOK, Maybe, Sources
  <2>2. source = None => source' = None BY <1>8 DEF CheckStore
  <2>3. UNCHANGED <<tip, copy, wanted, remote>> BY <1>8 DEF CheckStore, repoVars
  <2>4. Known(remote[c]) BY <1>8 DEF NoFuture, Calls
  <2> QED BY <2>1, <2>2, <2>3, <2>4 DEF NoFuture, Recorded, Known
<1>9. ASSUME NEW b \in Builds, NEW commit \in Maybe(UNION {Pushed(r) : r \in Repos}), BuildBegin(b, commit)
      PROVE  NoFuture'
  <2>1. Known(commit)
    <3>1. CASE commit = None BY <3>1 DEF Known
    <3>2. CASE commit \in UNION {Pushed(r) : r \in Repos} BY <3>2, PushedKnown
    <3> QED BY <3>1, <3>2 DEF Maybe
  <2> QED BY <1>9, <2>1 DEF BuildBegin, repoVars, NoFuture, TypeOK, Recorded, Known, Calls
<1>10. ASSUME NEW b \in Builds, Pick(b) PROVE NoFuture'
  <2>1. copy[b] \in Sources BY <1>10 DEF Pick, Found, Busy, BuildBusy, Calls
  <2>2. Known(Tip(copy[b].url)) BY <2>1, TipType, PushedKnown DEF Sources
  <2>3. Known(copy[b].remote) BY <1>10 DEF Pick, NoFuture, Recorded, Found, Busy, BuildBusy, Calls
  <2>4. Known(wanted[b]) BY <1>10 DEF NoFuture, Calls
  <2>5. PICK w : Known(w) /\ wanted' = [wanted EXCEPT ![b] = w]
    BY <1>10, <2>2, <2>3, <2>4 DEF Pick
  <2> QED BY <1>10, <2>5 DEF Pick, repoVars, NoFuture, TypeOK, Recorded, Known, Calls
<1>11. ASSUME NEW b \in Builds, Record(b) PROVE NoFuture'
  <2>1. source # None => source'.remote = source.remote
    BY <1>11 DEF Record, TypeOK, Maybe, Sources
  <2>2. source = None => source' = None BY <1>11 DEF Record
  <2>3. UNCHANGED <<tip, copy, wanted, remote>> BY <1>11 DEF Record, repoVars
  <2> QED BY <2>1, <2>2, <2>3 DEF NoFuture, Recorded, Known
<1>12. ASSUME NEW b \in Builds, Clone(b) \/ SetURL(b) \/ Fetch(b) \/ Checkout(b)
       PROVE  UNCHANGED <<tip, source, copy, wanted, remote>>
  BY <1>12 DEF Clone, SetURL, Fetch, Checkout, repoVars
<1>13. ASSUME NEW b \in Builds, Submodules(b) \/ ReadHead(b) \/ BuildFails(b)
       PROVE  UNCHANGED <<tip, source, copy, wanted, remote>>
  BY <1>13 DEF Submodules, ReadHead, BuildFails, repoVars
<1>14. ASSUME NEW c \in Checks, CheckCompare(c) PROVE UNCHANGED <<tip, source, copy, wanted, remote>>
  BY <1>14 DEF CheckCompare, repoVars
<1>15. UNCHANGED vars => UNCHANGED <<tip, source, copy, wanted, remote>>
  BY DEF vars, repoVars, callVars
<1> QED BY <1>1, <1>3, <1>4, <1>5, <1>6, <1>7, <1>8, <1>9, <1>10, <1>11, <1>12, <1>13, <1>14, <1>15
        DEF Next, BuildStep

\* What is asked for at the checkout is among what was fetched.
LEMMA BroughtIsThere ==
    ASSUME TypeOK, Found, NoFuture, Brought PROVE CanCheckOut
<1> SUFFICES ASSUME NEW b \in Builds, pc[b] = "checkout", wanted[b].repo = copy[b].url
             PROVE  wanted[b] \in objects
  BY DEF CanCheckOut
<1>1. b \in Calls /\ copy[b].url \in Repos BY DEF Found, Busy, BuildBusy, Calls, Sources
<1>2. wanted[b] \in Commits /\ wanted[b] # None BY <1>1 DEF Found, Commits
<1>3. wanted[b].nr \in 1 .. MaxPush /\ wanted[b].nr <= tip[copy[b].url]
  BY <1>1, <1>2 DEF NoFuture, Known, Commits
<1>4. wanted[b].nr \in 1 .. tip[copy[b].url] BY <1>1, <1>3 DEF TypeOK
<1>5. wanted[b] = [repo |-> copy[b].url, nr |-> wanted[b].nr] BY <1>2 DEF Commits
<1>6. wanted[b] \in Pushed(copy[b].url) BY <1>4, <1>5 DEF Pushed
<1> QED BY <1>1, <1>6 DEF Brought

\* A build sets the URL, fetches and checks out with nothing in between.
LEMMA BroughtStep ==
    IInv /\ overlap = {} /\ Single /\ Brought /\ [Next]_vars => Brought'
<1> SUFFICES ASSUME TypeOK, overlap = {}, Single, Brought, [Next]_vars PROVE Brought'
  BY DEF IInv
<1> DEFINE Moving(b) == pc[b] \in {"fetch", "pick", "checkout"}
<1>1. ASSUME \A b \in Calls : ~Moving(b)' PROVE Brought' BY <1>1 DEF Brought
<1>2. ASSUME Quiet, UNCHANGED pc PROVE Brought'
  BY <1>1, <1>2 DEF Quiet, Busy, BuildBusy
<1>3. ASSUME NEW r \in Repos, Push(r) \/ Add(r) PROVE Brought'
  BY <1>2, <1>3 DEF Push, Add, May, callVars
<1>4. ASSUME NEW purge \in BOOLEAN, Remove(purge) PROVE Brought'
  BY <1>2, <1>4 DEF Remove, May, callVars
<1>5. ASSUME NEW c \in Checks, CheckBegin(c) PROVE Brought'
  BY <1>1, <1>5 DEF CheckBegin, May, Quiet, Busy, BuildBusy, TypeOK, Goto, Calls
<1>6. ASSUME NEW c \in Calls, Busy(c), NEW label, Goto(c, label), label \notin {"fetch", "pick", "checkout"}
      PROVE  Brought'
  <2>1. \A b \in Calls : b # c => ~Moving(b) BY <1>6 DEF Single, Busy, BuildBusy
  <2> QED BY <1>1, <1>6, <2>1 DEF Goto, TypeOK
<1>7. ASSUME NEW c \in Checks, CheckResolve(c) \/ CheckCompare(c) \/ CheckStore(c) PROVE Brought'
  <2>1. c \in Calls /\ Busy(c)
    BY <1>7 DEF CheckResolve, CheckCompare, CheckStore, Calls, Busy, CheckBusy
  <2> QED BY <1>6, <1>7, <2>1 DEF CheckResolve, CheckCompare, CheckStore
<1>8. ASSUME NEW b \in Builds, NEW commit, BuildBegin(b, commit) PROVE Brought'
  BY <1>1, <1>8 DEF BuildBegin, May, Quiet, Busy, BuildBusy, TypeOK, Goto, Calls
<1>9. ASSUME NEW b \in Builds, \/ Clone(b) \/ Checkout(b) \/ Submodules(b) \/ ReadHead(b)
                               \/ Record(b) \/ BuildFails(b)
      PROVE  Brought'
  <2>1. b \in Calls /\ Busy(b)
    BY <1>9 DEF Clone, Checkout, Submodules, ReadHead, Record, BuildFails, Calls, Busy, BuildBusy
  <2> QED BY <1>6, <1>9, <2>1 DEF Clone, Checkout, Submodules, ReadHead, Record, BuildFails
<1>10. ASSUME NEW b \in Builds, SetURL(b) \/ Fetch(b) \/ Pick(b) PROVE Brought'
  <2>1. b \in Calls /\ Busy(b) BY <1>10 DEF SetURL, Fetch, Pick, Calls, Busy, BuildBusy
  <2>2. \A c \in Calls : c # b => ~Moving(c) BY <2>1 DEF Single, Busy, BuildBusy
  <2>3. UNCHANGED <<tip, copy>> BY <1>10 DEF SetURL, Fetch, Pick, repoVars
  <2>4. CASE SetURL(b)
    <3>1. pc' = [pc EXCEPT ![b] = "fetch"] /\ origin' = copy[b].url BY <2>4 DEF SetURL, Goto
    <3> QED BY <2>1, <2>2, <2>3, <3>1 DEF Brought, TypeOK
  <2>5. CASE Fetch(b)
    <3>1. pc' = [pc EXCEPT ![b] = "pick"] /\ Pushed(copy[b].url) \subseteq objects'
      BY <2>1, <2>5 DEF Fetch, Goto, Brought
    <3> QED BY <2>1, <2>2, <2>3, <3>1 DEF Brought, TypeOK, Pushed
  <2>6. CASE Pick(b)
    <3>1. pc' = [pc EXCEPT ![b] = "checkout"] /\ Pushed(copy[b].url) \subseteq objects'
      BY <2>1, <2>6 DEF Pick, Goto, Brought, diskVars
    <3> QED BY <2>1, <2>2, <2>3, <3>1 DEF Brought, TypeOK, Pushed
  <2> QED BY <1>10, <2>4, <2>5, <2>6
<1>11. CASE UNCHANGED vars
  <2>1. UNCHANGED <<tip, pc, copy, origin, objects>> BY <1>11 DEF vars, repoVars, diskVars, callVars
  <2> QED BY <2>1 DEF Brought, Pushed
<1> QED BY <1>3, <1>4, <1>5, <1>7, <1>8, <1>9, <1>10, <1>11 DEF Next, BuildStep

\* A commit of the source's own URL is there when a build checks it out,
\* whatever URL the clone's origin had before.
THEOREM WantedAreFetched == Spec => []WantedIsFetched
<1>1. Init => NoFuture /\ FetchInv
  BY DEF Init, NoFuture, Recorded, Known, FetchInv, Brought
<1>2. IInv /\ NoFuture /\ [Next]_vars => NoFuture' BY KnownStep
<1>3. IInv /\ OwnInv /\ FetchInv /\ [Next]_vars => FetchInv'
  BY OverlapStays, BroughtStep DEF OwnInv, Apart, FetchInv
<1>4. IInv /\ NoFuture /\ FetchInv => WantedIsFetched
  BY BroughtIsThere DEF IInv, FetchInv, WantedIsFetched
<1> QED BY <1>1, <1>2, <1>3, <1>4, Inductive, OwnInductive, PTL DEF Spec
=============================================================================

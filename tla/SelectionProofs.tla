-------------------------- MODULE SelectionProofs ---------------------------
(***************************************************************************)
(* Theorems about Selection, for any runtimes, models, pins and priority   *)
(* lists and for every interleaving of a load with builds, removals,       *)
(* settings and detections: what an automatic load starts.  The last part  *)
(* is about Hardware: what a detection reports of a host.                  *)
(***************************************************************************)
EXTENDS Selection, FiniteSetTheorems, FunctionTheorems, SequenceTheorems, WellFoundedInduction, TLAPS

-----------------------------------------------------------------------------
(* Least and greatest elements.                                            *)

LEMMA Least ==
    ASSUME NEW S, S \subseteq Nat, S # {}
    PROVE  \E x \in S : \A y \in S : x <= y
<1>1. PICK x \in S : \A y \in S : ~ (<<y, x>> \in OpToRel(<,Nat))
    BY NatLessThanWellFounded, WFMin
<1>2. \A y \in S : ~ (y < x)
    BY <1>1 DEF OpToRel
<1> QED BY <1>2

LEMMA MinIsLeast ==
    ASSUME NEW S, S \subseteq Nat, S # {}
    PROVE  Min(S) \in S /\ \A y \in S : Min(S) <= y
BY Least DEF Min

\* A sequence's range is finite.
LEMMA RangeIsFinite ==
    ASSUME NEW p, p \in Seq(Range(p))
    PROVE  Cardinality(Range(p)) \in Nat
<1>1. DOMAIN p = 1..Len(p) /\ Len(p) \in Nat
    OBVIOUS
<1>2. IsFiniteSet(1..Len(p))
    BY <1>1, FS_Interval
<1>3. p \in Surjection(1..Len(p), Range(p))
    BY <1>1 DEF Surjection, Range
<1> QED BY <1>2, <1>3, FS_Surjection, FS_CardinalityType

-----------------------------------------------------------------------------
(* The invariant.                                                          *)

\* The list a load works on has manifests of different times, and a load that
\* has begun has a model.
IInv ==
    /\ TypeOK
    /\ \A v, w \in Variants : v # w /\ list[v] # 0 => list[v] # list[w]
    /\ pc # "idle" => model \in Models

-----------------------------------------------------------------------------
(* Ranks.                                                                  *)

LEMMA Places ==
    TypeOK => /\ DOMAIN priority \subseteq Nat \ {0}
              /\ Cardinality(Range(priority)) \in Nat
<1> SUFFICES ASSUME TypeOK
             PROVE  DOMAIN priority \subseteq Nat \ {0} /\ Cardinality(Range(priority)) \in Nat
    OBVIOUS
<1>1. priority \in Seq(Range(priority))
    BY SelectionAssumption DEF TypeOK
<1>2. DOMAIN priority = 1..Len(priority) /\ Len(priority) \in Nat
    BY <1>1
<1> QED BY <1>1, <1>2, RangeIsFinite

\* A backend that has a place has the rank of its first one.
LEMMA RankIs ==
    ASSUME TypeOK, NEW b
    PROVE  /\ Rank(b) \in Nat
           /\ b \in Range(priority) => /\ Rank(b) + 1 \in DOMAIN priority
                                       /\ priority[Rank(b) + 1] = b
                                       /\ \A i \in DOMAIN priority : priority[i] = b => Rank(b) < i
           /\ b \notin Range(priority) => Rank(b) = Cardinality(Range(priority)) + 1
<1> DEFINE S == {i \in DOMAIN priority : priority[i] = b}
<1>1. CASE b \in Range(priority)
    <2>1. S \subseteq Nat \ {0} /\ S # {}
        BY <1>1, Places DEF Range
    <2>2. Min(S) \in S /\ \A y \in S : Min(S) <= y
        BY <2>1, MinIsLeast
    <2>3. Rank(b) = Min(S) - 1
        BY <1>1 DEF Rank
    <2>4. Min(S) \in DOMAIN priority /\ priority[Min(S)] = b
        BY <2>2
    <2>5. \A i \in DOMAIN priority : priority[i] = b => Min(S) <= i
        BY <2>2
    <2> HIDE DEF S
    <2>6. Min(S) \in Nat \ {0} /\ DOMAIN priority \subseteq Nat
        BY <2>1, <2>2, Places
    <2>7. Rank(b) + 1 = Min(S) /\ Rank(b) \in Nat
        BY <2>3, <2>6
    <2> QED BY <1>1, <2>4, <2>5, <2>6, <2>7
<1>2. CASE b \notin Range(priority)
    BY <1>2, Places DEF Rank
<1> QED BY <1>1, <1>2

\* A runtime has the rank of the best of its backends that work.
LEMMA BackendRankIs ==
    ASSUME TypeOK, NEW v, Working(v) # {}
    PROVE  /\ BackendRank(v) \in Nat
           /\ \E b \in Working(v) : Rank(b) = BackendRank(v)
           /\ \A b \in Working(v) : BackendRank(v) <= Rank(b)
<1> DEFINE S == {Rank(b) : b \in Working(v)}
<1>1. S \subseteq Nat /\ S # {}
    BY RankIs
<1>2. BackendRank(v) = Min(S)
    BY DEF BackendRank
<1>3. Min(S) \in S /\ \A y \in S : Min(S) <= y
    BY <1>1, MinIsLeast
<1> QED BY <1>1, <1>2, <1>3

\* The choice is a candidate that comes before all others.
LEMMA AutomaticIs ==
    ASSUME IInv, NEW m, autoSelect, ModelArch[m] # None, Candidates(list, ModelArch[m]) # {}
    PROVE  LET found == Candidates(list, ModelArch[m])
               v     == Automatic(list, m)
           IN v \in found /\ \A w \in found \ {v} : Before(list, v, w)
<1> DEFINE found == Candidates(list, ModelArch[m])
           Ranks == {BackendRank(v) : v \in found}
<1>1. TypeOK /\ clock \in Nat /\ \A v \in found : /\ v \in Variants /\ Working(v) # {}
                                                  /\ list[v] \in 0..clock /\ list[v] # 0
    BY SelectionAssumption DEF IInv, TypeOK, Candidates
<1>2. \A v \in found : BackendRank(v) \in Nat
    BY <1>1, BackendRankIs
<1>3. Ranks \subseteq Nat /\ Ranks # {}
    BY <1>2
<1>4. PICK r \in Ranks : \A y \in Ranks : r <= y
    BY <1>3, Least
<1> DEFINE Best == {v \in found : BackendRank(v) = r}
           Ages == {clock - list[v] : v \in Best}
<1>5. Ages \subseteq Nat /\ Ages # {}
    BY <1>1, <1>4
<1>6. PICK a \in Ages : \A y \in Ages : a <= y
    BY <1>5, Least
<1>7. PICK v \in Best : a = clock - list[v]
    BY <1>6
<1>8. v \in found /\ BackendRank(v) = r
    BY <1>7
<1>9. ASSUME NEW w \in found \ {v} PROVE Before(list, v, w)
    <2>1. r <= BackendRank(w) /\ r \in Nat /\ BackendRank(w) \in Nat
        BY <1>2, <1>3, <1>4
    <2>2. CASE r < BackendRank(w)
        BY <1>8, <2>2 DEF Before
    <2>3. CASE r = BackendRank(w)
        <3>1. w \in Best
            BY <2>3
        <3>2. clock - list[v] <= clock - list[w]
            BY <1>6, <1>7, <3>1
        <3>3. list[v] # list[w]
            BY <1>1, <1>8 DEF IInv
        <3>4. list[v] \in 0..clock /\ list[w] \in 0..clock /\ clock \in Nat
            BY <1>1, <1>8
        <3>5. list[v] > list[w]
            BY <3>2, <3>3, <3>4
        <3> QED BY <1>8, <2>3, <3>5 DEF Before
    <2> QED BY <2>1, <2>2, <2>3
<1>10. Automatic(list, m) = CHOOSE u \in found : \A w \in found \ {u} : Before(list, u, w)
    BY DEF Automatic
<1> HIDE DEF found, Ranks, Best, Ages
<1>11. \E u \in found : \A w \in found \ {u} : Before(list, u, w)
    BY <1>8, <1>9
<1>12. Automatic(list, m) \in found /\ \A w \in found \ {Automatic(list, m)} : Before(list, Automatic(list, m), w)
    BY <1>10, <1>11
<1> QED BY <1>12 DEF found

\* Without a candidate, an architecture or leave to choose there is no choice.
LEMMA NoneChosen ==
    ASSUME NEW m, ~autoSelect \/ ModelArch[m] = None \/ Candidates(list, ModelArch[m]) = {}
    PROVE  Automatic(list, m) = None
BY DEF Automatic

LEMMA InitInv == Init => IInv
<1> SUFFICES ASSUME Init PROVE IInv
    OBVIOUS
<1>1. TypeOK
    BY SelectionAssumption DEF Init, TypeOK, NotBuilt, Maybe
<1> QED BY <1>1 DEF Init, IInv, NotBuilt

LEMMA InvStep == IInv /\ [Next]_vars => IInv'
<1> SUFFICES ASSUME IInv, [Next]_vars PROVE IInv'
    OBVIOUS
<1> USE SelectionAssumption DEF hostVars, pinVars, confVars, loadVars
<1>1. ASSUME NEW m \in Models, NEW v \in Maybe(Named), LoadBegin(m, v) PROVE IInv'
    <2>1. NotBuilt \in [Variants -> 0..clock] /\ Maybe(Named) \subseteq Maybe(Variants)
        BY DEF IInv, TypeOK, NotBuilt, Maybe
    <2> QED BY <1>1, <2>1 DEF LoadBegin, IInv, TypeOK, NotBuilt, Maybe
<1>2. ASSUME List PROVE IInv'
    BY <1>2 DEF List, IInv, TypeOK
<1>3. ASSUME Decide PROVE IInv'
    <2>1. model \in Models
        BY <1>3 DEF Decide, IInv
    <2>2. Automatic(list, model) \in Maybe(Variants)
        <3>1. CASE Automatic(list, model) = None
            BY <3>1 DEF Maybe
        <3>2. CASE Automatic(list, model) # None
            BY <3>2, AutomaticIs, NoneChosen DEF Maybe, Candidates
        <3> QED BY <3>1, <3>2
    <2>3. Pin(model) \in Maybe(Variants) /\ Manual(list, Pin(model)) \in Maybe(Variants)
        BY <2>1 DEF Pin, Manual, Maybe, IInv, TypeOK
    <2>4. chosen' \in Maybe(Variants)
        BY <1>3, <2>2, <2>3 DEF Decide, Maybe, IInv, TypeOK
    <2>5. pc' \in {"failed", "locate"} /\ by' \in {"request", "pin", "auto"}
        BY <1>3 DEF Decide
    <2> QED BY <1>3, <2>1, <2>4, <2>5 DEF Decide, IInv, TypeOK
<1>4. ASSUME Locate PROVE IInv'
    BY <1>4 DEF Locate, IInv, TypeOK
<1>5. ASSUME NEW v \in Variants, Build(v) PROVE IInv'
    <2>1. /\ clock' \in 0..MaxBuilds /\ builtAt' \in [Variants -> 0..clock']
          /\ list \in [Variants -> 0..clock']
        BY <1>5 DEF Build, IInv, TypeOK
    <2>2. \A u, w \in Variants : u # w /\ builtAt'[u] # 0 => builtAt'[u] # builtAt'[w]
        BY <1>5 DEF Build, IInv, TypeOK
    <2> QED BY <1>5, <2>1, <2>2 DEF Build, IInv, TypeOK
<1>6. ASSUME NEW v \in Variants, RemoveRuntime(v) PROVE IInv'
    BY <1>6 DEF RemoveRuntime, IInv, TypeOK
<1>7. ASSUME NEW v \in Maybe(Named), SetFormat(v) \/ \E m \in Models : SetModel(m, v) PROVE IInv'
    <2>1. v \in Maybe(Variants)
        BY DEF Maybe
    <2>2. CASE SetFormat(v)
        BY <2>1, <2>2 DEF SetFormat, IInv, TypeOK
    <2>3. ASSUME NEW m \in Models, SetModel(m, v) PROVE IInv'
        <3>1. modelPin' \in [Models -> Maybe(Variants)]
            BY <2>1, <2>3 DEF SetModel, IInv, TypeOK
        <3> QED BY <2>3, <3>1 DEF SetModel, IInv, TypeOK
    <2> QED BY <1>7, <2>2, <2>3
<1>8. ASSUME NEW p \in Priorities, NEW auto \in BOOLEAN, Configure(p, auto) PROVE IInv'
    BY <1>8 DEF Configure, IInv, TypeOK
<1>9. ASSUME NEW h \in Hosts, Refresh(h) PROVE IInv'
    BY <1>9 DEF Refresh, IInv, TypeOK
<1>10. CASE UNCHANGED vars
    BY <1>10 DEF vars, IInv, TypeOK
<1> QED BY <1>1, <1>2, <1>3, <1>4, <1>5, <1>6, <1>7, <1>8, <1>9, <1>10 DEF Next

LEMMA InvHolds == Spec => []IInv
<1> QED BY InitInv, InvStep, PTL DEF Spec

-----------------------------------------------------------------------------
(* What the step that decides sees.                                        *)

DetectionIsRight == \A h \in Hosts : FindsWhatWorks(h)
ListsAreShort    == \A p \in Priorities : IsShort(p)

\* A list that repeats no name is one.
LEMMA ShortLists ==
    ASSUME NEW p, p \in Seq(Range(p)), \A i, k \in DOMAIN p : p[i] = p[k] => i = k
    PROVE  IsShort(p)
<1>1. DOMAIN p = 1..Len(p) /\ Len(p) \in Nat
    OBVIOUS
<1>2. IsFiniteSet(1..Len(p)) /\ Cardinality(1..Len(p)) = Len(p)
    <2>1. PICK n \in Nat : n = Len(p)
        BY <1>1
    <2>2. IsFiniteSet(1..n) /\ Cardinality(1..n) = n
        BY FS_Interval
    <2> QED BY <2>1, <2>2
<1>3. p \in Surjection(1..Len(p), Range(p))
    BY <1>1 DEF Surjection, Range
<1>4. p \in Injection(1..Len(p), Range(p))
    BY <1>1, <1>3 DEF Injection, IsInjective, Surjection
<1>5. Cardinality(Range(p)) = Len(p)
    BY <1>2, <1>3, <1>4, FS_Surjection
<1> QED BY <1>1, <1>5 DEF IsShort

\* A runtime's working backends are the ones it can be used with.
LEMMA WorkingIsUsable ==
    ASSUME DetectionIsRight, TypeOK, NEW v \in Variants, NEW b
    PROVE  b \in Working(v) <=> Usable(v, b)
<1>1. host \in Hosts /\ available = Detect(host).backends
    BY DEF TypeOK, available, Report
<1>2. b \in v.backends => b \in UNION BackendSets
    BY DEF Variants
<1>3. CASE host.skip
    <2>1. available = {}
        BY <1>1, <1>3 DEF Detect
    <2> QED BY <1>3, <2>1 DEF Working, Usable
<1>4. CASE ~host.skip
    <2>1. "cpu" \in available
        BY <1>1, <1>4 DEF Detect, availableBackends
    <2>2. b \in UNION BackendSets => (b \in available <=> Works(host, b))
        BY <1>1, <1>4 DEF DetectionIsRight, FindsWhatWorks
    <2> QED BY <1>2, <1>4, <2>1, <2>2 DEF Working, Usable
<1> QED BY <1>3, <1>4

\* The candidates are the runtimes that suit the model and have a usable backend.
LEMMA CandidatesAre ==
    ASSUME DetectionIsRight, TypeOK
    PROVE  Candidates(list, ModelArch[model]) = {v \in Variants : Suits(v) /\ \E b \in UNION BackendSets : Usable(v, b)}
<1>1. \A v \in Variants : Working(v) # {} <=> \E b \in UNION BackendSets : Usable(v, b)
    <2> SUFFICES ASSUME NEW v \in Variants
                 PROVE  Working(v) # {} <=> \E b \in UNION BackendSets : Usable(v, b)
        OBVIOUS
    <2>1. \A b : b \in Working(v) <=> Usable(v, b)
        BY WorkingIsUsable
    <2>2. \A b : Usable(v, b) => b \in UNION BackendSets
        BY DEF Usable, Variants
    <2> QED BY <2>1, <2>2
<1> QED BY <1>1 DEF Candidates, Suits

\* Only Decide decides.
LEMMA DecidedIs ==
    ASSUME IInv, Next, Decided
    PROVE  /\ UNCHANGED <<list, model, autoSelect, priority, host>>
           /\ by' = "auto" => requested = None /\ Pin(model) = None /\ chosen' = Automatic(list, model)
           /\ by' = "auto" /\ chosen' # None =>
                 LET found == Candidates(list, ModelArch[model])
                 IN chosen' \in found /\ \A w \in found \ {chosen'} : Before(list, chosen', w)
<1>1. Decide
    BY DEF Next, Decided, LoadBegin, List, Locate, Build, RemoveRuntime, SetFormat, SetModel, Configure, Refresh,
           pinVars, confVars, loadVars
<1>2. /\ UNCHANGED <<list, model, autoSelect, priority, host>>
      /\ by' = "auto" => requested = None /\ Pin(model) = None /\ chosen' = Automatic(list, model)
    BY <1>1 DEF Decide, confVars
<1>3. ASSUME by' = "auto", chosen' # None
      PROVE  LET found == Candidates(list, ModelArch[model])
             IN chosen' \in found /\ \A w \in found \ {chosen'} : Before(list, chosen', w)
    <2>1. autoSelect /\ ModelArch[model] # None /\ Candidates(list, ModelArch[model]) # {}
        BY <1>2, <1>3, NoneChosen
    <2> QED BY <1>2, <1>3, <2>1, AutomaticIs
<1> QED BY <1>2, <1>3

-----------------------------------------------------------------------------
(* Theorems.                                                               *)

\* Types, and that no two manifests have one time, whatever is built over.
THEOREM TypeCorrect == Spec => []TypeOK
<1>1. IInv => TypeOK
    BY DEF IInv
<1> QED BY <1>1, InvHolds, PTL

\* Given a detection that finds what works, an automatic choice can run the
\* model on this host, for any runtimes and any host, whatever is built,
\* removed or configured while it is made (selection.go 158-218).
THEOREM ChoicesRun == DetectionIsRight => (Spec => ChoiceRuns)
<1> SUFFICES ASSUME DetectionIsRight PROVE Spec => ChoiceRuns
    OBVIOUS
<1> DEFINE Kept == Decided /\ by' = "auto" /\ chosen' # None
                      => Suits(chosen') /\ \E b \in UNION BackendSets : Usable(chosen', b)
<1>1. IInv /\ [Next]_vars => [Kept]_vars
    <2> SUFFICES ASSUME IInv, Next, Decided, by' = "auto", chosen' # None
                 PROVE  Suits(chosen') /\ \E b \in UNION BackendSets : Usable(chosen', b)
        BY DEF vars
    <2>1. chosen' \in Candidates(list, ModelArch[model])
        BY DecidedIs
    <2> QED BY <2>1, CandidatesAre DEF IInv
<1> QED BY <1>1, InvHolds, PTL DEF ChoiceRuns, Spec

\* Given a detection that finds what works, an automatic load is refused only
\* if no runtime would do (selection.go 158-218).
THEOREM RefusalsHaveCause == DetectionIsRight => (Spec => RefusedForCause)
<1> SUFFICES ASSUME DetectionIsRight PROVE Spec => RefusedForCause
    OBVIOUS
<1> DEFINE Kept == Decided /\ by' = "auto" /\ chosen' = None /\ autoSelect
                      => \A w \in Variants, b \in UNION BackendSets : ~(Suits(w) /\ Usable(w, b))
<1>1. IInv /\ [Next]_vars => [Kept]_vars
    <2> SUFFICES ASSUME IInv, Next, Decided, by' = "auto", chosen' = None, autoSelect,
                        NEW w \in Variants, NEW b \in UNION BackendSets, Suits(w), Usable(w, b)
                 PROVE  FALSE
        BY DEF vars
    <2>1. chosen' = Automatic(list, model)
        BY DecidedIs
    <2>2. w \in Candidates(list, ModelArch[model])
        BY CandidatesAre DEF IInv
    <2>3. ModelArch[model] # None
        <3>1. CommitArchs[w.commit] \subseteq Archs
            BY SelectionAssumption DEF Variants
        <3> QED BY <3>1, SelectionAssumption DEF Suits
    <2>4. Automatic(list, model) \in Variants
        BY <2>2, <2>3, AutomaticIs DEF Candidates
    <2> QED BY <2>1, <2>4, SelectionAssumption
<1> QED BY <1>1, InvHolds, PTL DEF RefusedForCause, Spec

\* Given also lists that name no backend too late, no runtime that suits the
\* model has a usable backend of a better place in backend_priority than the
\* chosen one's best (selection.go 222-264).
THEOREM PrioritiesAreHonoured == DetectionIsRight /\ ListsAreShort => (Spec => PriorityHonoured)
<1> SUFFICES ASSUME DetectionIsRight, ListsAreShort PROVE Spec => PriorityHonoured
    OBVIOUS
<1> DEFINE Kept == Decided /\ by' = "auto" /\ chosen' # None
                      => \A w \in Variants, i \in DOMAIN priority :
                            Suits(w) /\ Usable(w, priority[i])
                                => \E k \in 1..i : Usable(chosen', priority[k])
<1>1. IInv /\ [Next]_vars => [Kept]_vars
    <2> SUFFICES ASSUME IInv, Next, Decided, by' = "auto", chosen' # None,
                        NEW w \in Variants, NEW i \in DOMAIN priority, Suits(w), Usable(w, priority[i])
                 PROVE  \E k \in 1..i : Usable(chosen', priority[k])
        BY DEF vars
    <2> DEFINE c == priority[i]
               found == Candidates(list, ModelArch[model])
    <2>1. TypeOK /\ DOMAIN priority \subseteq Nat \ {0} /\ Cardinality(Range(priority)) \in Nat
        BY Places DEF IInv
    <2>2. chosen' \in found /\ \A u \in found \ {chosen'} : Before(list, chosen', u)
        BY DecidedIs
    <2>3. c \in Working(w)
        BY <2>1, WorkingIsUsable
    <2>4. w \in found
        BY <2>1, <2>3 DEF Candidates, Suits
    <2>5. chosen' \in Variants /\ Working(chosen') # {}
        BY <2>2 DEF Candidates
    <2>6. /\ BackendRank(w) \in Nat /\ BackendRank(w) <= Rank(c)
          /\ BackendRank(chosen') \in Nat /\ Rank(c) \in Nat
        BY <2>1, <2>3, <2>5, BackendRankIs, RankIs
    <2>7. BackendRank(chosen') <= BackendRank(w)
        <3>1. CASE w = chosen'
            BY <2>6, <3>1
        <3>2. CASE w # chosen'
            BY <2>2, <2>4, <2>6, <3>2 DEF Before
        <3> QED BY <3>1, <3>2
    <2>8. PICK b \in Working(chosen') : Rank(b) = BackendRank(chosen')
        BY <2>1, <2>5, BackendRankIs
    <2>9. c \in Range(priority)
        BY DEF Range
    <2>10. Rank(c) < i /\ Rank(c) + 1 \in DOMAIN priority /\ priority[Rank(c) + 1] = c
        BY <2>1, <2>9, RankIs
    <2>11. Rank(c) + 1 <= Cardinality(Range(priority)) + 1
        <3> DEFINE r == Rank(c)
        <3>1. /\ r \in Nat /\ r + 1 \in DOMAIN priority /\ priority[r + 1] = c
              /\ \A k \in DOMAIN priority : priority[k] = c => r < k
            BY <2>1, <2>6, <2>9, RankIs
        <3>2. \A k \in 1..Len(priority) : k \in DOMAIN priority
            BY <2>1, SelectionAssumption DEF TypeOK
        <3>3. Len(priority) \in Nat /\ r + 1 <= Len(priority)
            BY <2>1, <3>1, SelectionAssumption DEF TypeOK
        <3> HIDE DEF r
        <3>4. \A k \in 1..(r + 1) - 1 : priority[k] # c
            BY <3>1, <3>2, <3>3
        <3>5. r + 1 <= Cardinality(Range(priority)) + 1
            BY <2>1, <3>1, <3>4 DEF ListsAreShort, IsShort, TypeOK
        <3> QED BY <3>5 DEF r
    <2>12. b \in Range(priority)
        <3>1. b \notin Range(priority) => Rank(b) = Cardinality(Range(priority)) + 1
            BY <2>1, RankIs
        <3> QED BY <2>1, <2>6, <2>7, <2>8, <2>11, <3>1
    <2>13. Rank(b) + 1 \in DOMAIN priority /\ priority[Rank(b) + 1] = b /\ Rank(b) \in Nat
        BY <2>1, <2>12, RankIs
    <2>14. Rank(b) + 1 \in 1..i
        BY <2>1, <2>6, <2>7, <2>8, <2>10, <2>13
    <2>15. Usable(chosen', b)
        BY <2>1, <2>5, <2>8, WorkingIsUsable
    <2> QED BY <2>13, <2>14, <2>15
<1> QED BY <1>1, InvHolds, PTL DEF PriorityHonoured, Spec

\* Of the runtimes with the chosen one's backends the choice is the last
\* built, whatever detection found (selection.go 244-264).
THEOREM LastBuiltIsChosen == Spec => LastBuilt
<1> DEFINE Kept == Decided /\ by' = "auto" /\ chosen' # None
                      => \A w \in Variants : Suits(w) /\ w.backends = chosen'.backends
                                                => list[w] <= list[chosen']
<1>1. IInv /\ [Next]_vars => [Kept]_vars
    <2> SUFFICES ASSUME IInv, Next, Decided, by' = "auto", chosen' # None,
                        NEW w \in Variants, Suits(w), w.backends = chosen'.backends
                 PROVE  list[w] <= list[chosen']
        BY DEF vars
    <2> DEFINE found == Candidates(list, ModelArch[model])
    <2>1. chosen' \in found /\ \A u \in found \ {chosen'} : Before(list, chosen', u)
        BY DecidedIs
    <2>2. Working(w) = Working(chosen') /\ BackendRank(w) = BackendRank(chosen')
        BY DEF Working, BackendRank
    <2>3. chosen' \in Variants /\ w \in found
        BY <2>1, <2>2 DEF Candidates, Suits
    <2>4. list[w] \in 0..clock /\ list[chosen'] \in 0..clock /\ clock \in Nat /\ BackendRank(w) \in Nat
        BY <2>1, <2>2, <2>3, BackendRankIs, SelectionAssumption DEF IInv, TypeOK, Candidates
    <2>5. CASE w = chosen'
        BY <2>4, <2>5
    <2>6. CASE w # chosen'
        BY <2>1, <2>2, <2>3, <2>4, <2>6 DEF Before
    <2> QED BY <2>5, <2>6
<1> QED BY <1>1, InvHolds, PTL DEF LastBuilt, Spec

-----------------------------------------------------------------------------
(* What detection reports.                                                 *)

\* The places of a finite list's part can be put in order.
LEMMA OrderExists ==
    ASSUME NEW n \in Nat, NEW S \in SUBSET (1 .. n)
    PROVE  \E p \in [1 .. Cardinality(S) -> S] : \A i, j \in DOMAIN p : i < j => p[i] < p[j]
<1> DEFINE Good(T) == \E p \in [1 .. Cardinality(T) -> T] : \A i, j \in DOMAIN p : i < j => p[i] < p[j]
           Bad == {m \in Nat : \E T \in SUBSET (1 .. m) : ~Good(T)}
<1> HIDE DEF Good
<1>1. SUFFICES ASSUME Bad # {} PROVE FALSE
    <2>1. Bad = {} => Good(S)
        OBVIOUS
    <2> QED BY <2>1 DEF Good
<1>2. PICK m \in Bad : \A k \in Bad : m <= k
    BY <1>1, Least
<1>3. PICK T \in SUBSET (1 .. m) : ~Good(T)
    OBVIOUS
<1>4. m \in Nat
    OBVIOUS
<1>5. IsFiniteSet(T)
    <2>1. IsFiniteSet(1 .. m)
        BY <1>4, FS_Interval
    <2> QED BY <2>1, FS_Subset
<1>6. CASE m \notin T
    <2>1. T = {} \/ (m > 0 /\ T \in SUBSET (1 .. m - 1))
        BY <1>4, <1>6
    <2>2. CASE T = {}
        <3>1. Cardinality(T) = 0
            BY <2>2, FS_EmptySet
        <3>2. PICK p : p = [i \in 1 .. 0 |-> 0]
            OBVIOUS
        <3>3. p \in [1 .. Cardinality(T) -> T] /\ DOMAIN p = {}
            BY <3>1, <3>2
        <3>4. Good(T)
            BY <3>3 DEF Good
        <3> QED BY <1>3, <3>4
    <2>3. CASE m > 0 /\ T \in SUBSET (1 .. m - 1)
        <3>1. m - 1 \in Bad
            BY <1>3, <1>4, <2>3
        <3> QED BY <1>2, <1>4, <3>1
    <2> QED BY <2>1, <2>2, <2>3
<1>7. CASE m \in T
    <2> DEFINE U == T \ {m}
               c == Cardinality(U)
    <2>1. m > 0 /\ m - 1 \in Nat /\ U \in SUBSET (1 .. m - 1)
        BY <1>4, <1>7
    <2>2. Good(U)
        <3>1. m - 1 \notin Bad
            BY <1>2, <1>4
        <3> HIDE DEF U
        <3> QED BY <2>1, <3>1
    <2>3. IsFiniteSet(U) /\ c \in Nat /\ Cardinality(T) = c + 1
        <3>1. T = U \cup {m} /\ m \notin U
            BY <1>7
        <3>2. IsFiniteSet(U)
            BY <1>5, FS_Subset
        <3>3. c \in Nat
            BY <3>2, FS_CardinalityType
        <3> HIDE DEF U
        <3> QED BY <3>1, <3>2, <3>3, FS_AddElement
    <2>4. PICK q \in [1 .. c -> U] : \A i, j \in DOMAIN q : i < j => q[i] < q[j]
        BY <2>2 DEF Good
    <2>5. PICK p : p = [i \in 1 .. c + 1 |-> IF i = c + 1 THEN m ELSE q[i]]
        OBVIOUS
    <2> HIDE DEF c
    <2>6. p \in [1 .. c + 1 -> T]
        BY <1>7, <2>3, <2>4, <2>5
    <2>7. \A i \in 1 .. c : p[i] = q[i] /\ q[i] < m /\ q[i] \in Nat
        <3> SUFFICES ASSUME NEW i \in 1 .. c PROVE p[i] = q[i] /\ q[i] < m /\ q[i] \in Nat
            OBVIOUS
        <3>1. q[i] \in U
            BY <2>4
        <3>2. i \in 1 .. c + 1 /\ i # c + 1
            BY <2>3
        <3>3. p[i] = q[i]
            BY <2>5, <3>2
        <3>4. \A k \in U : k < m /\ k \in Nat
            BY <1>4, <2>1
        <3> HIDE DEF U
        <3> QED BY <3>1, <3>3, <3>4
    <2>8. \A i, j \in 1 .. c + 1 : i < j => p[i] < p[j]
        <3> SUFFICES ASSUME NEW i \in 1 .. c + 1, NEW j \in 1 .. c + 1, i < j PROVE p[i] < p[j]
            OBVIOUS
        <3>1. i \in 1 .. c
            BY <2>3
        <3>2. CASE j = c + 1
            BY <2>3, <2>5, <2>7, <3>1, <3>2
        <3>3. CASE j # c + 1
            <4>1. j \in 1 .. c
                BY <2>3, <3>3
            <4>2. q[i] < q[j]
                BY <2>4, <3>1, <4>1
            <4> QED BY <2>7, <3>1, <4>1, <4>2
        <3> QED BY <3>2, <3>3
    <2>9. Good(T)
        BY <2>3, <2>6, <2>8 DEF Good
    <2> QED BY <1>3, <2>9
<1> QED BY <1>6, <1>7

\* At has each of the places once.
LEMMA OrderedIs ==
    ASSUME NEW n \in Nat, NEW S \in SUBSET (1 .. n)
    PROVE  Cardinality(S) \in Nat /\ Ordered(S) \in Bijection(1 .. Cardinality(S), S)
<1> DEFINE c == Cardinality(S)
           p == Ordered(S)
<1>1. IsFiniteSet(S) /\ c \in Nat
    <2>1. IsFiniteSet(1 .. n)
        BY FS_Interval
    <2>2. IsFiniteSet(S)
        BY <2>1, FS_Subset
    <2> QED BY <2>2, FS_CardinalityType
<1>2. p \in [1 .. c -> S] /\ \A i, j \in DOMAIN p : i < j => p[i] < p[j]
    BY OrderExists, Zenon DEF Ordered
<1> HIDE DEF p, c
<1>3. \A i, j \in 1 .. c : p[i] = p[j] => i = j
    <2> SUFFICES ASSUME NEW i \in 1 .. c, NEW j \in 1 .. c, p[i] = p[j] PROVE i = j
        OBVIOUS
    <2>1. ~(i < j) /\ ~(j < i)
        <3>1. DOMAIN p = 1 .. c
            BY <1>2
        <3>2. p[i] \in S /\ S \subseteq Nat
            BY <1>2
        <3>3. (i < j => p[i] < p[j]) /\ (j < i => p[j] < p[i])
            BY <1>2, <3>1, Zenon
        <3>4. \A x \in Nat : ~(x < x)
            OBVIOUS
        <3> QED BY <3>2, <3>3, <3>4
    <2>2. i \in Nat /\ j \in Nat
        BY <1>1
    <2> QED BY <2>1, <2>2
<1>4. p \in Injection(1 .. c, S)
    BY <1>2, <1>3, Fun_IsInj
<1>5. Cardinality(1 .. c) = c
    BY <1>1, FS_Interval
<1>6. p \in Surjection(1 .. c, S)
    BY <1>1, <1>4, <1>5, FS_Injection DEF c
<1>7. p \in Bijection(1 .. c, S)
    BY <1>4, <1>6, Fun_IsBij
<1> QED BY <1>1, <1>7 DEF p, c

\* A list whose elements are those of a set in some order has as many of a
\* kind as the set has.
LEMMA Counted ==
    ASSUME NEW n \in Nat, NEW K, NEW f \in Bijection(1 .. n, K), NEW T \in SUBSET K
    PROVE  /\ Cardinality(K) = n
           /\ Cardinality({i \in 1 .. n : f[i] \in T}) = Cardinality(T)
<1> DEFINE I == {i \in 1 .. n : f[i] \in T}
<1>1. f \in [1 .. n -> K] /\ (\A a, b \in 1 .. n : f[a] = f[b] => a = b)
                        /\ (\A t \in K : \E s \in 1 .. n : f[s] = t)
    BY Fun_BijectionProperties
<1>2. IsFiniteSet(1 .. n) /\ Cardinality(1 .. n) = n
    BY FS_Interval
<1>3. IsFiniteSet(I)
    BY <1>2, FS_Subset
<1>4. PICK g : g = [i \in I |-> f[i]]
    OBVIOUS
<1>5. g \in [I -> T] /\ (\A a, b \in I : g[a] = g[b] => a = b) /\ (\A t \in T : \E s \in I : g[s] = t)
    BY <1>1, <1>4
<1>6. g \in Bijection(I, T)
    BY <1>5, Fun_IsBij
<1>7. ExistsBijection(I, T) /\ ExistsBijection(1 .. n, K)
    BY <1>6, Fun_ExistsBij
<1> QED BY <1>2, <1>3, <1>7, FS_Bijection

\* The entry of a device that is in the nvidia-smi list N, the vulkaninfo list V
\* or both.
Entry(h, k, N, V) ==
    [vendor |-> IF k \in N THEN "nvidia" ELSE vendorFromDriver(h.devices[k].driver),
     name   |-> h.devices[k].name,
     apis   |-> {a \in {"cuda", "vulkan"} : k \in IF a = "cuda" THEN N ELSE V}]

\* gpus has the entries of the devices in N and V, in the order f.
Lists(gpus, f, h, N, V) ==
    /\ gpus \in Seq(Range(gpus))
    /\ f \in Bijection(1 .. Len(gpus), N \cup V)
    /\ \A i \in 1 .. Len(gpus) : gpus[i] = Entry(h, f[i], N, V)

\* A function on 1 .. n is a sequence.
LEMMA IsList ==
    ASSUME NEW n \in Nat, NEW s, s = [i \in 1 .. n |-> s[i]]
    PROVE  s \in Seq(Range(s)) /\ Len(s) = n
BY DEF Range

LEMMA NoneListed ==
    ASSUME NEW h
    PROVE  \E f : Lists(<<>>, f, h, {}, {})
<1>1. PICK f : f = [i \in 1 .. 0 |-> i]
    OBVIOUS
<1>2. f \in Bijection(1 .. 0, {})
    <2>1. 1 .. 0 = {}
        OBVIOUS
    <2>2. f \in [1 .. 0 -> {}]
        BY <1>1, <2>1
    <2> QED BY <2>1, <2>2, Fun_IsBij
<1>3. Len(<<>>) = 0 /\ <<>> \in Seq(Range(<<>>))
    OBVIOUS
<1> QED BY <1>2, <1>3 DEF Lists

\* nvidia-smi's list is of the devices with CUDA.
LEMMA NvidiaLists ==
    ASSUME NEW h, UsualHost(h), h.nvidia = "works"
    PROVE  \E f : Lists(parseNvidiaSMI(NvidiaLines(h)), f, h, Under(h, "cuda"), {})
<1>1. DOMAIN h.devices = 1 .. Len(h.devices) /\ Len(h.devices) \in Nat
    BY DEF UsualHost
<1> DEFINE S == {i \in DOMAIN h.devices : h.devices[i].cuda}
           c == Cardinality(S)
           f == Ordered(S)
           gpus == parseNvidiaSMI(NvidiaLines(h))
<1>2. S \in SUBSET (1 .. Len(h.devices)) /\ S = Under(h, "cuda")
    BY <1>1 DEF Under, Has
<1>3. c \in Nat /\ f \in Bijection(1 .. c, S)
    BY <1>1, <1>2, OrderedIs
<1>4. gpus = [i \in 1 .. c |-> [vendor |-> "nvidia", name |-> h.devices[f[i]].name, apis |-> {"cuda"}]]
    BY DEF parseNvidiaSMI, NvidiaLines, At
<1> HIDE DEF gpus, f, c, S
<1>5. gpus \in Seq(Range(gpus)) /\ Len(gpus) = c
    BY <1>3, <1>4, IsList
<1>6. ASSUME NEW i \in 1 .. c PROVE gpus[i] = Entry(h, f[i], S, {})
    <2>1. f[i] \in S
        BY <1>3, Fun_BijectionProperties
    <2> QED BY <1>4, <2>1 DEF Entry
<1>7. Lists(gpus, f, h, S, {})
    BY <1>3, <1>5, <1>6 DEF Lists
<1> QED BY <1>2, <1>7 DEF gpus

\* vulkaninfo's is of those with a driver.
LEMMA VulkanLists ==
    ASSUME NEW h, UsualHost(h), h.vulkan = "works"
    PROVE  \E f : Lists(parseVulkanSummary(VulkanBlocks(h)), f, h, {}, Under(h, "vulkan"))
<1>1. DOMAIN h.devices = 1 .. Len(h.devices) /\ Len(h.devices) \in Nat
    BY DEF UsualHost
<1> DEFINE S == {i \in DOMAIN h.devices : h.devices[i].driver # "none"}
           c == Cardinality(S)
           f == Ordered(S)
           gpus == parseVulkanSummary(VulkanBlocks(h))
<1>2. S \in SUBSET (1 .. Len(h.devices)) /\ S = Under(h, "vulkan")
    BY <1>1 DEF Under, Has
<1>3. c \in Nat /\ f \in Bijection(1 .. c, S)
    BY <1>1, <1>2, OrderedIs
<1>4. gpus = [i \in 1 .. c |-> [vendor |-> vendorFromDriver(h.devices[f[i]].driver),
                                name |-> h.devices[f[i]].name, apis |-> {"vulkan"}]]
    BY DEF parseVulkanSummary, VulkanBlocks, At
<1> HIDE DEF gpus, f, c, S
<1>5. gpus \in Seq(Range(gpus)) /\ Len(gpus) = c
    BY <1>3, <1>4, IsList
<1>6. ASSUME NEW i \in 1 .. c PROVE gpus[i] = Entry(h, f[i], {}, S)
    <2>1. f[i] \in S
        BY <1>3, Fun_BijectionProperties
    <2> QED BY <1>4, <2>1 DEF Entry
<1>7. Lists(gpus, f, h, {}, S)
    BY <1>3, <1>5, <1>6 DEF Lists
<1> QED BY <1>2, <1>7 DEF gpus

\* Two orders one after the other.
LEMMA OneAfterTheOther ==
    ASSUME NEW m \in Nat, NEW c \in Nat, NEW N, NEW W, N \cap W = {},
           NEW p \in Bijection(1 .. m, N), NEW s \in Bijection(1 .. c, W)
    PROVE  [i \in 1 .. m + c |-> IF i <= m THEN p[i] ELSE s[i - m]] \in Bijection(1 .. m + c, N \cup W)
<1>1. p \in [1 .. m -> N] /\ (\A i, j \in 1 .. m : p[i] = p[j] => i = j) /\ (\A k \in N : \E i \in 1 .. m : p[i] = k)
    BY Fun_BijectionProperties
<1>2. s \in [1 .. c -> W] /\ (\A i, j \in 1 .. c : s[i] = s[j] => i = j) /\ (\A k \in W : \E i \in 1 .. c : s[i] = k)
    BY Fun_BijectionProperties
<1>3. PICK q : q = [i \in 1 .. m + c |-> IF i <= m THEN p[i] ELSE s[i - m]]
    OBVIOUS
<1>4. ASSUME NEW i \in 1 .. m + c
      PROVE  \/ i \in 1 .. m /\ q[i] = p[i] /\ q[i] \in N
             \/ i \notin 1 .. m /\ i - m \in 1 .. c /\ q[i] = s[i - m] /\ q[i] \in W
    <2>1. CASE i \in 1 .. m
        BY <1>1, <1>3, <2>1
    <2>2. CASE i \notin 1 .. m
        <3>1. i - m \in 1 .. c /\ ~(i <= m)
            BY <2>2
        <3> QED BY <1>2, <1>3, <2>2, <3>1
    <2> QED BY <2>1, <2>2
<1>5. q \in [1 .. m + c -> N \cup W]
    <2>1. \A i \in 1 .. m + c : q[i] \in N \cup W
        BY <1>4
    <2> QED BY <1>3, <2>1
<1>6. ASSUME NEW i \in 1 .. m + c, NEW j \in 1 .. m + c, q[i] = q[j] PROVE i = j
    <2>1. CASE i \in 1 .. m
        <3>1. q[i] \in N /\ q[i] = p[i]
            BY <1>4, <2>1
        <3>2. j \in 1 .. m /\ q[j] = p[j]
            BY <1>4, <1>6, <3>1
        <3> QED BY <1>1, <1>6, <2>1, <3>1, <3>2
    <2>2. CASE i \notin 1 .. m
        <3>1. q[i] \in W /\ q[i] = s[i - m] /\ i - m \in 1 .. c
            BY <1>4, <2>2
        <3>2. q[j] = s[j - m] /\ j - m \in 1 .. c
            BY <1>4, <1>6, <3>1
        <3>3. i - m = j - m
            BY <1>2, <1>6, <3>1, <3>2
        <3> QED BY <3>3
    <2> QED BY <2>1, <2>2
<1>7. ASSUME NEW k \in N \cup W PROVE \E i \in 1 .. m + c : q[i] = k
    <2>1. CASE k \in N
        <3>1. PICK i \in 1 .. m : p[i] = k
            BY <1>1, <2>1
        <3>2. i \in 1 .. m + c /\ i <= m
            OBVIOUS
        <3> QED BY <1>3, <3>1, <3>2
    <2>2. CASE k \in W
        <3>1. PICK i \in 1 .. c : s[i] = k
            BY <1>2, <2>2
        <3>2. PICK j : j = i + m
            OBVIOUS
        <3>3. j \in 1 .. m + c /\ ~(j <= m) /\ j - m = i
            BY <3>2
        <3> QED BY <1>3, <3>1, <3>3
    <2> QED BY <2>1, <2>2
<1>8. q \in Bijection(1 .. m + c, N \cup W)
    BY <1>5, <1>6, <1>7, Fun_IsBij
<1> QED BY <1>3, <1>8

LEMMA ListsAre ==
    ASSUME NEW gpus, NEW f, NEW h, NEW N, NEW V, Lists(gpus, f, h, N, V)
    PROVE  LET n == Len(gpus)
               K == N \cup V IN
           /\ n \in Nat /\ DOMAIN gpus = 1 .. n
           /\ f \in [1 .. n -> K] /\ (\A i, j \in 1 .. n : f[i] = f[j] => i = j)
           /\ \A k \in K : \E i \in 1 .. n : f[i] = k
           /\ \A i \in 1 .. n : gpus[i] = Entry(h, f[i], N, V)
<1>1. gpus \in Seq(Range(gpus)) /\ \A i \in 1 .. Len(gpus) : gpus[i] = Entry(h, f[i], N, V)
    BY DEF Lists
<1>2. Len(gpus) \in Nat /\ DOMAIN gpus = 1 .. Len(gpus)
    BY <1>1
<1>3. f \in Bijection(1 .. Len(gpus), N \cup V)
    BY DEF Lists
<1>4. /\ f \in [1 .. Len(gpus) -> N \cup V] /\ (\A i, j \in 1 .. Len(gpus) : f[i] = f[j] => i = j)
      /\ \A k \in N \cup V : \E i \in 1 .. Len(gpus) : f[i] = k
    <2>1. PICK S, K : S = 1 .. Len(gpus) /\ K = N \cup V
        OBVIOUS
    <2>2. f \in Bijection(S, K)
        BY <1>3, <2>1
    <2>3. f \in [S -> K] /\ (\A i, j \in S : f[i] = f[j] => i = j) /\ \A k \in K : \E i \in S : f[i] = k
        BY <2>2, Fun_BijectionProperties
    <2> QED BY <2>1, <2>3
<1> QED BY <1>1, <1>2, <1>4

LEMMA ApiAdded ==
    ASSUME NEW v, NEW name, NEW apis, NEW e, e = [vendor |-> v, name |-> name, apis |-> apis]
    PROVE  [e EXCEPT !.apis = @ \cup {"vulkan"}] = [vendor |-> v, name |-> name, apis |-> apis \cup {"vulkan"}]
OBVIOUS

\* Merged, the two lists are of the devices that one or both have, each once.
LEMMA MergeLists ==
    ASSUME NEW h, UsualHost(h), NEW N \in SUBSET DOMAIN h.devices, NEW V \in SUBSET DOMAIN h.devices,
           NEW base, NEW p, Lists(base, p, h, N, {}), NEW extra, NEW r, Lists(extra, r, h, {}, V)
    PROVE  \E q : Lists(mergeGPUs(base, extra), q, h, N, V)
<1> DEFINE m == Len(base)
           n == Len(extra)
           A == {i \in FirstOfName(extra) : extra[i].name \notin NamesIn(base)}
           c == Cardinality(A)
           o == Ordered(A)
           more == At(extra, A)
           first == [i \in DOMAIN base |->
                       IF i \in FirstOfName(base) /\ base[i].name \in NamesIn(extra)
                       THEN [base[i] EXCEPT !.apis = @ \cup {"vulkan"}] ELSE base[i]]
           gpus == mergeGPUs(base, extra)
<1>1. /\ m \in Nat /\ DOMAIN base = 1 .. m
      /\ p \in [1 .. m -> N] /\ (\A i, j \in 1 .. m : p[i] = p[j] => i = j) /\ (\A k \in N : \E i \in 1 .. m : p[i] = k)
      /\ \A i \in 1 .. m : base[i] = Entry(h, p[i], N, {})
    BY ListsAre
<1>2. /\ n \in Nat /\ DOMAIN extra = 1 .. n
      /\ r \in [1 .. n -> V] /\ (\A i, j \in 1 .. n : r[i] = r[j] => i = j) /\ (\A k \in V : \E i \in 1 .. n : r[i] = k)
      /\ \A i \in 1 .. n : extra[i] = Entry(h, r[i], {}, V)
    BY ListsAre
<1>3. /\ \A i \in 1 .. m : p[i] \in N /\ base[i].name = h.devices[p[i]].name
      /\ \A i \in 1 .. n : r[i] \in V /\ extra[i].name = h.devices[r[i]].name
    <2>1. \A i \in 1 .. m : p[i] \in N /\ base[i].name = h.devices[p[i]].name
        BY <1>1 DEF Entry
    <2>2. \A i \in 1 .. n : r[i] \in V /\ extra[i].name = h.devices[r[i]].name
        BY <1>2 DEF Entry
    <2> QED BY <2>1, <2>2
<1>4. \A j, k \in N \cup V : h.devices[j].name = h.devices[k].name => j = k
    BY DEF UsualHost
<1>5. \A i \in 1 .. m : base[i].name \in NamesIn(extra) <=> p[i] \in V
    <2>1. ASSUME NEW i \in 1 .. m, p[i] \in V PROVE base[i].name \in NamesIn(extra)
        <3>1. PICK j \in 1 .. n : r[j] = p[i]
            BY <1>2, <2>1
        <3> QED BY <1>2, <1>3, <3>1 DEF NamesIn
    <2>2. ASSUME NEW i \in 1 .. m, base[i].name \in NamesIn(extra) PROVE p[i] \in V
        <3>1. PICK j \in 1 .. n : extra[j].name = base[i].name
            BY <1>2, <2>2 DEF NamesIn
        <3> QED BY <1>3, <1>4, <3>1
    <2> QED BY <2>1, <2>2
<1>6. \A i \in 1 .. n : extra[i].name \in NamesIn(base) <=> r[i] \in N
    <2>1. ASSUME NEW i \in 1 .. n, r[i] \in N PROVE extra[i].name \in NamesIn(base)
        <3>1. PICK j \in 1 .. m : p[j] = r[i]
            BY <1>1, <2>1
        <3> QED BY <1>1, <1>3, <3>1 DEF NamesIn
    <2>2. ASSUME NEW i \in 1 .. n, extra[i].name \in NamesIn(base) PROVE r[i] \in N
        <3>1. PICK j \in 1 .. m : base[j].name = extra[i].name
            BY <1>1, <2>2 DEF NamesIn
        <3> QED BY <1>3, <1>4, <3>1
    <2> QED BY <2>1, <2>2
<1>7. FirstOfName(base) = 1 .. m /\ FirstOfName(extra) = 1 .. n
    <2>1. \A i, j \in 1 .. m : base[j].name = base[i].name => j = i
        BY <1>1, <1>3, <1>4
    <2>2. \A i, j \in 1 .. n : extra[j].name = extra[i].name => j = i
        BY <1>2, <1>3, <1>4
    <2> QED BY <1>1, <1>2, <2>1, <2>2 DEF FirstOfName
<1>8. A = {i \in 1 .. n : r[i] \notin N}
    BY <1>6, <1>7
<1>9. c \in Nat /\ o \in Bijection(1 .. c, A)
    BY <1>2, <1>8, OrderedIs
<1>10. gpus = first \o more /\ more = [i \in 1 .. c |-> extra[o[i]]]
    BY DEF mergeGPUs, At
<1>11. first = [i \in 1 .. m |-> IF p[i] \in V THEN [base[i] EXCEPT !.apis = @ \cup {"vulkan"}] ELSE base[i]]
    BY <1>1, <1>5, <1>7
<1> HIDE DEF gpus, more, first, o, c, A
<1>12. o \in [1 .. c -> A] /\ (\A i, j \in 1 .. c : o[i] = o[j] => i = j) /\ (\A k \in A : \E i \in 1 .. c : o[i] = k)
    BY <1>9, Fun_BijectionProperties
<1>13. first \in Seq(Range(first)) /\ Len(first) = m /\ \A i \in 1 .. m : first[i] = Entry(h, p[i], N, V)
    <2>1. first \in Seq(Range(first)) /\ Len(first) = m
        <3>1. first = [i \in 1 .. m |-> first[i]]
            BY <1>11
        <3> QED BY <1>1, <3>1, IsList
    <2>2. ASSUME NEW i \in 1 .. m PROVE first[i] = Entry(h, p[i], N, V)
        <3>1. base[i] = Entry(h, p[i], N, {}) /\ p[i] \in N
            BY <1>1, <1>3
        <3>2. CASE p[i] \in V
            <4>1. first[i] = [base[i] EXCEPT !.apis = @ \cup {"vulkan"}]
                BY <1>11, <3>2
            <4>2. PICK a, b : /\ a = {x \in {"cuda", "vulkan"} : p[i] \in IF x = "cuda" THEN N ELSE {}}
                              /\ b = {x \in {"cuda", "vulkan"} : p[i] \in IF x = "cuda" THEN N ELSE V}
                OBVIOUS
            <4>3. base[i] = [vendor |-> "nvidia", name |-> h.devices[p[i]].name, apis |-> a]
                BY <3>1, <4>2 DEF Entry
            <4>4. b = a \cup {"vulkan"}
                BY <3>1, <3>2, <4>2
            <4>5. first[i] = [vendor |-> "nvidia", name |-> h.devices[p[i]].name, apis |-> b]
                <5>1. PICK name : name = h.devices[p[i]].name
                    OBVIOUS
                <5>2. PICK e : e = [vendor |-> "nvidia", name |-> name, apis |-> a]
                    OBVIOUS
                <5>3. [e EXCEPT !.apis = @ \cup {"vulkan"}] = [vendor |-> "nvidia", name |-> name, apis |-> a \cup {"vulkan"}]
                    BY <5>2, ApiAdded
                <5> QED BY <4>1, <4>3, <4>4, <5>1, <5>2, <5>3
            <4> QED BY <3>1, <4>2, <4>5 DEF Entry
        <3>3. CASE p[i] \notin V
            <4>1. first[i] = base[i]
                BY <1>11, <3>3
            <4> QED BY <3>1, <3>3, <4>1 DEF Entry
        <3> QED BY <3>2, <3>3
    <2> QED BY <2>1, <2>2
<1>14. PICK s : s = [i \in 1 .. c |-> r[o[i]]]
    OBVIOUS
<1>15. s \in Bijection(1 .. c, V \ N)
    <2>1. ASSUME NEW i \in 1 .. c PROVE o[i] \in 1 .. n /\ s[i] = r[o[i]] /\ s[i] \in V \ N
        BY <1>3, <1>8, <1>12, <1>14
    <2>2. s \in [1 .. c -> V \ N]
        BY <1>14, <2>1
    <2>3. \A i, j \in 1 .. c : s[i] = s[j] => i = j
        BY <1>2, <1>12, <2>1
    <2>4. ASSUME NEW k \in V \ N PROVE \E i \in 1 .. c : s[i] = k
        <3>1. PICK j \in 1 .. n : r[j] = k
            BY <1>2
        <3>2. PICK i \in 1 .. c : o[i] = j
            BY <1>8, <1>12, <3>1
        <3> QED BY <2>1, <3>1, <3>2
    <2> QED BY <2>2, <2>3, <2>4, Fun_IsBij
<1>16. more \in Seq(Range(more)) /\ Len(more) = c /\ \A i \in 1 .. c : more[i] = Entry(h, s[i], N, V)
    <2>1. more \in Seq(Range(more)) /\ Len(more) = c
        BY <1>9, <1>10, IsList
    <2>2. ASSUME NEW i \in 1 .. c PROVE more[i] = Entry(h, s[i], N, V)
        <3>1. o[i] \in 1 .. n /\ s[i] = r[o[i]] /\ s[i] \notin N
            BY <1>8, <1>12, <1>14
        <3>2. more[i] = Entry(h, s[i], {}, V)
            BY <1>2, <1>10, <3>1
        <3> QED BY <3>1, <3>2 DEF Entry
    <2> QED BY <2>1, <2>2
<1>17. PICK q : q = [i \in 1 .. m + c |-> IF i <= m THEN p[i] ELSE s[i - m]]
    OBVIOUS
<1>18. q \in Bijection(1 .. m + c, N \cup V)
    <2>1. p \in Bijection(1 .. m, N)
        BY DEF Lists
    <2>2. q \in Bijection(1 .. m + c, N \cup (V \ N))
        <3>1. m \in Nat /\ c \in Nat /\ N \cap (V \ N) = {}
            BY <1>1, <1>9
        <3> QED BY <1>15, <1>17, <2>1, <3>1, OneAfterTheOther
    <2>3. N \cup (V \ N) = N \cup V
        OBVIOUS
    <2> QED BY <2>2, <2>3
<1>19. /\ gpus \in Seq(Range(gpus)) /\ Len(gpus) = m + c
       /\ \A i \in 1 .. m + c : gpus[i] = IF i <= m THEN first[i] ELSE more[i - m]
    <2> DEFINE S == Range(first) \cup Range(more)
    <2>1. first \in Seq(S) /\ more \in Seq(S)
        BY <1>13, <1>16, SeqMonotonic
    <2> HIDE DEF S
    <2>5. /\ gpus \in Seq(S)
          /\ Len(gpus) = Len(first) + Len(more)
          /\ \A i \in 1 .. Len(first) + Len(more) : gpus[i] = IF i <= Len(first) THEN first[i] ELSE more[i - Len(first)]
        BY <1>10, <2>1, ConcatProperties, Zenon
    <2>2. gpus \in Seq(S) /\ Len(gpus) = m + c
        BY <1>13, <1>16, <2>5
    <2>3. \A i \in 1 .. m + c : gpus[i] = IF i <= m THEN first[i] ELSE more[i - m]
        BY <1>13, <1>16, <2>5
    <2>4. gpus = [i \in 1 .. m + c |-> gpus[i]] /\ m + c \in Nat
        BY <1>1, <1>9, <2>2
    <2> QED BY <2>2, <2>3, <2>4, IsList
<1>20. ASSUME NEW i \in 1 .. m + c PROVE gpus[i] = Entry(h, q[i], N, V)
    <2>1. CASE i <= m
        <3>1. i \in 1 .. m
            BY <1>1, <1>9, <2>1
        <3> QED BY <1>13, <1>17, <1>19, <2>1, <3>1
    <2>2. CASE ~(i <= m)
        <3>1. i - m \in 1 .. c
            BY <1>1, <1>9, <2>2
        <3> QED BY <1>16, <1>17, <1>19, <2>2, <3>1
    <2> QED BY <2>1, <2>2
<1>21. Lists(gpus, q, h, N, V)
    BY <1>18, <1>19, <1>20 DEF Lists
<1> QED BY <1>21 DEF gpus

\* What a device has, for the reference and for the report.
Apis(h, k) == {a \in {"cuda", "vulkan"} : Has(h, h.devices[k], a)}
Shown(h)   == Under(h, "cuda") \cup Under(h, "vulkan")

LEMMA EntryHas ==
    ASSUME NEW h, NEW k \in Shown(h)
    PROVE  LET e == Entry(h, k, Under(h, "cuda"), Under(h, "vulkan")) IN
           /\ e.name = h.devices[k].name /\ e.apis = Apis(h, k)
           /\ e.vendor = IF k \in Under(h, "cuda") THEN "nvidia" ELSE vendorFromDriver(h.devices[k].driver)
BY DEF Entry, Apis, Shown, Under

\* The report of a usual host has its devices with an API, each once.
LEMMA DetectedAre ==
    ASSUME NEW h, UsualHost(h)
    PROVE  \E q : Lists(detectGPUs(h), q, h, Under(h, "cuda"), Under(h, "vulkan"))
<1> DEFINE N == Under(h, "cuda")
           V == Under(h, "vulkan")
           nvidia == IF h.nvidia = "works" THEN parseNvidiaSMI(NvidiaLines(h)) ELSE <<>>
<1>1. N \in SUBSET DOMAIN h.devices /\ V \in SUBSET DOMAIN h.devices
    BY DEF Under
<1>2. (h.nvidia # "works" => N = {}) /\ (h.vulkan # "works" => V = {})
    BY DEF Under, Has
<1>3. detectGPUs(h) = IF h.vulkan = "works" THEN mergeGPUs(nvidia, parseVulkanSummary(VulkanBlocks(h))) ELSE nvidia
    BY DEF detectGPUs, UsualHost
<1>4. PICK p : Lists(nvidia, p, h, N, {})
    <2>1. CASE h.nvidia = "works"
        BY <2>1, NvidiaLists
    <2>2. CASE h.nvidia # "works"
        BY <1>2, <2>2, NoneListed
    <2> QED BY <2>1, <2>2
<1> HIDE DEF N, V, nvidia
<1>5. CASE h.vulkan = "works"
    <2>1. PICK r : Lists(parseVulkanSummary(VulkanBlocks(h)), r, h, {}, V)
        BY <1>5, VulkanLists DEF V
    <2>2. \E q : Lists(mergeGPUs(nvidia, parseVulkanSummary(VulkanBlocks(h))), q, h, N, V)
        BY <1>1, <1>4, <2>1, MergeLists
    <2> QED BY <1>3, <1>5, <2>2 DEF N, V
<1>6. CASE h.vulkan # "works"
    BY <1>2, <1>3, <1>4, <1>6 DEF N, V
<1> QED BY <1>5, <1>6

\* So has the inventory.
LEMMA InventoryIs ==
    ASSUME NEW h, UsualHost(h)
    PROVE  \E f : /\ Len(Inventory(h)) \in Nat /\ DOMAIN Inventory(h) = 1 .. Len(Inventory(h))
                  /\ f \in Bijection(1 .. Len(Inventory(h)), Shown(h))
                  /\ \A i \in 1 .. Len(Inventory(h)) :
                        Inventory(h)[i].name = h.devices[f[i]].name /\ Inventory(h)[i].apis = Apis(h, f[i])
<1>1. DOMAIN h.devices = 1 .. Len(h.devices) /\ Len(h.devices) \in Nat
    BY DEF UsualHost
<1> DEFINE entry == [i \in DOMAIN h.devices |-> [name |-> h.devices[i].name, apis |-> Apis(h, i)]]
           S == {i \in DOMAIN entry : entry[i].apis # {}}
           c == Cardinality(S)
           f == Ordered(S)
           rows == Inventory(h)
<1>2. rows = [i \in 1 .. c |-> entry[f[i]]]
    BY DEF Inventory, At, Apis
<1>3. S = Shown(h)
    <2>1. \A k \in DOMAIN h.devices : entry[k].apis # {} <=> k \in Shown(h)
        BY DEF Shown, Under, Apis
    <2> QED BY <2>1 DEF Shown, Under
<1>4. c \in Nat /\ f \in Bijection(1 .. c, S)
    <2>1. S \in SUBSET (1 .. Len(h.devices))
        BY <1>1
    <2> HIDE DEF S
    <2> QED BY <1>1, <2>1, OrderedIs
<1> HIDE DEF rows, c, f
<1>5. Len(rows) = c /\ DOMAIN rows = 1 .. c
    <2> HIDE DEF entry
    <2> QED BY <1>2, <1>4, IsList
<1>6. ASSUME NEW i \in 1 .. c PROVE rows[i].name = h.devices[f[i]].name /\ rows[i].apis = Apis(h, f[i])
    <2>1. f[i] \in S
        <3> HIDE DEF S
        <3> QED BY <1>4, Fun_BijectionProperties
    <2> QED BY <1>2, <2>1
<1> HIDE DEF S
<1> QED BY <1>3, <1>4, <1>5, <1>6 DEF rows

\* Of a list of the devices K, how many have this name and these APIs.
LEMMA CopiesAre ==
    ASSUME NEW h, NEW K, NEW rows, Len(rows) \in Nat, DOMAIN rows = 1 .. Len(rows),
           NEW f \in Bijection(1 .. Len(rows), K), NEW e,
           \A i \in 1 .. Len(rows) : rows[i].name = h.devices[f[i]].name /\ rows[i].apis = Apis(h, f[i])
    PROVE  /\ Len(rows) = Cardinality(K)
           /\ Copies(rows, e) = Cardinality({k \in K : h.devices[k].name = e.name /\ Apis(h, k) = e.apis})
<1> DEFINE T == {k \in K : h.devices[k].name = e.name /\ Apis(h, k) = e.apis}
           n == Len(rows)
<1>1. \A i \in 1 .. n : f[i] \in K
    BY Fun_BijectionProperties
<1>2. {i \in DOMAIN rows : rows[i].name = e.name /\ rows[i].apis = e.apis} = {i \in 1 .. n : f[i] \in T}
    BY <1>1
<1>3. T \in SUBSET K
    OBVIOUS
<1>4. n \in Nat /\ f \in Bijection(1 .. n, K)
    OBVIOUS
<1> HIDE DEF T, n
<1>5. Cardinality(K) = n /\ Cardinality({i \in 1 .. n : f[i] \in T}) = Cardinality(T)
    BY <1>3, <1>4, Counted
<1> QED BY <1>2, <1>5 DEF Copies, T, n

\* The hosts whose reports can be trusted, device by device.
HostsAreUsual == \A h \in Hosts : ~h.skip => UsualHost(h)

\* The report lists the devices of the host as they are (hardware.go 76-200), for any
\* devices with names that tell them apart and tools that work, are not there or
\* fail without a message.
THEOREM ReportsAreFaithful ==
    ASSUME HostsAreUsual
    PROVE  Spec => []ReportFaithful
<1>1. TypeOK => ReportFaithful
    <2> SUFFICES ASSUME TypeOK, ~host.skip
                 PROVE  LET gpus == Detect(host).gpus IN
                        /\ Len(gpus) = Len(Inventory(host))
                        /\ \A g \in Range(gpus) : Copies(gpus, g) = Copies(Inventory(host), g)
                        /\ \A t \in {"nvidia", "vulkan"} : host[t] \in {"silent", "message"} => t \in Detect(host).notes
        BY DEF TypeOK, ReportFaithful, Report
    <2>1. host \in Hosts /\ UsualHost(host)
        BY DEF TypeOK, HostsAreUsual
    <2> DEFINE gpus == detectGPUs(host)
    <2>2. Detect(host).gpus = gpus /\ Detect(host).notes = {t \in {"nvidia", "vulkan"} : host[t] = "silent"}
        BY DEF Detect
    <2>3. PICK q : Lists(gpus, q, host, Under(host, "cuda"), Under(host, "vulkan"))
        BY <2>1, DetectedAre
    <2>4. PICK f : /\ Len(Inventory(host)) \in Nat /\ DOMAIN Inventory(host) = 1 .. Len(Inventory(host))
                   /\ f \in Bijection(1 .. Len(Inventory(host)), Shown(host))
                   /\ \A i \in 1 .. Len(Inventory(host)) :
                         Inventory(host)[i].name = host.devices[f[i]].name /\ Inventory(host)[i].apis = Apis(host, f[i])
        BY <2>1, InventoryIs
    <2> HIDE DEF gpus
    <2>5. /\ Len(gpus) \in Nat /\ DOMAIN gpus = 1 .. Len(gpus)
          /\ q \in Bijection(1 .. Len(gpus), Shown(host))
        BY <2>3 DEF Lists, Shown
    <2>6. ASSUME NEW i \in 1 .. Len(gpus)
          PROVE  gpus[i].name = host.devices[q[i]].name /\ gpus[i].apis = Apis(host, q[i])
        <3>1. q[i] \in Shown(host)
            BY <2>5, Fun_BijectionProperties
        <3>2. gpus[i] = Entry(host, q[i], Under(host, "cuda"), Under(host, "vulkan"))
            BY <2>3 DEF Lists
        <3> QED BY <3>1, <3>2, EntryHas
    <2>7. ASSUME NEW g
          PROVE  Len(gpus) = Len(Inventory(host)) /\ Copies(gpus, g) = Copies(Inventory(host), g)
        <3> DEFINE T == {k \in Shown(host) : host.devices[k].name = g.name /\ Apis(host, k) = g.apis}
        <3>1. Len(gpus) = Cardinality(Shown(host)) /\ Copies(gpus, g) = Cardinality(T)
            BY <2>5, <2>6, CopiesAre
        <3>2. Len(Inventory(host)) = Cardinality(Shown(host)) /\ Copies(Inventory(host), g) = Cardinality(T)
            <4>1. PICK inventory : inventory = Inventory(host)
                OBVIOUS
            <4>2. Len(inventory) = Cardinality(Shown(host)) /\ Copies(inventory, g) = Cardinality(T)
                BY <2>4, <4>1, CopiesAre
            <4> QED BY <4>1, <4>2
        <3> QED BY <3>1, <3>2
    <2>8. \A t \in {"nvidia", "vulkan"} : host[t] # "message"
        BY <2>1 DEF UsualHost
    <2> QED BY <2>2, <2>7, <2>8
<1> QED BY <1>1, TypeCorrect, PTL

\* What DetectionIsRight asks of detection, it does: the backends it reports are
\* those that work, for the same hosts, if drivers and tools do not contradict each
\* other (hardware.go 106-258).
THEOREM DetectionFindsWhatWorks ==
    ASSUME HostsAreUsual, \A h \in Hosts : ~h.skip => DriversAgree(h)
    PROVE  DetectionIsRight
<1> SUFFICES ASSUME NEW h \in Hosts, ~h.skip, NEW b
             PROVE  b \in Detect(h).backends <=> Works(h, b)
    BY DEF DetectionIsRight, FindsWhatWorks
<1> DEFINE N == Under(h, "cuda")
           V == Under(h, "vulkan")
           gpus == detectGPUs(h)
           driver(k) == vendorFromDriver(h.devices[k].driver)
<1>1. UsualHost(h) /\ DriversAgree(h)
    BY DEF HostsAreUsual
<1>2. PICK q : Lists(gpus, q, h, N, V)
    BY <1>1, DetectedAre
<1>3. Detect(h).backends = availableBackends(h)
    BY DEF Detect
<1>4. N \subseteq DOMAIN h.devices /\ V \subseteq DOMAIN h.devices /\ Range(h.devices) = {h.devices[k] : k \in DOMAIN h.devices}
    BY DEF Under, Range
<1> HIDE DEF gpus
<1>5. Range(gpus) = {Entry(h, k, N, V) : k \in Shown(h)}
    <2>1. DOMAIN gpus = 1 .. Len(gpus) /\ q \in [1 .. Len(gpus) -> Shown(h)]
          /\ \A k \in Shown(h) : \E i \in 1 .. Len(gpus) : q[i] = k
        BY <1>2, ListsAre DEF Shown
    <2>2. \A i \in 1 .. Len(gpus) : gpus[i] = Entry(h, q[i], N, V)
        BY <1>2 DEF Lists
    <2> QED BY <2>1, <2>2 DEF Range
<1>6. \A k \in Shown(h) : /\ Entry(h, k, N, V).vendor = IF k \in N THEN "nvidia" ELSE driver(k)
                          /\ "vulkan" \in Entry(h, k, N, V).apis <=> k \in V
    BY DEF Entry
<1>7. b \in availableBackends(h) <=>
         \/ b = "cpu"
         \/ b = "cuda" /\ h.nvidia # "missing" /\ \E k \in Shown(h) : k \in N \/ driver(k) = "nvidia"
         \/ b = "vulkan" /\ h.vulkan # "missing" /\ \E k \in V : (IF k \in N THEN "nvidia" ELSE driver(k)) # "software"
    BY <1>5, <1>6 DEF availableBackends, gpus, Shown
<1>8. Works(h, b) <=>
         \/ b = "cpu"
         \/ b = "cuda" /\ N # {}
         \/ b = "vulkan" /\ \E k \in V : driver(k) # "software"
    BY <1>4 DEF Works, Under
<1>9. (N # {} => h.nvidia = "works") /\ (V # {} => h.vulkan = "works")
    BY DEF Under, Has
<1>10. \A k \in V : /\ driver(k) = "nvidia" /\ h.nvidia # "missing" => N # {}
                    /\ k \in N => driver(k) # "software"
    BY <1>1 DEF DriversAgree
<1>11. b = "cuda" => (b \in availableBackends(h) <=> Works(h, b))
    BY <1>7, <1>8, <1>9, <1>10 DEF Shown
<1>12. b = "vulkan" => (b \in availableBackends(h) <=> Works(h, b))
    BY <1>7, <1>8, <1>9, <1>10
<1> QED BY <1>3, <1>7, <1>8, <1>11, <1>12
=============================================================================

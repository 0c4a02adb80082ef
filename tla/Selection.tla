----------------------------- MODULE Selection ------------------------------
(***************************************************************************)
(* internal/selection/selection.go and its caller, resolveRuntime of       *)
(* internal/server/management.go: which installed runtime serves a model.  *)
(* One load goes on while runtimes are built and removed, pins are set,    *)
(* and the configuration and the detected hardware change; it reads each   *)
(* of these at a moment of its own.                                        *)
(*                                                                         *)
(* A runtime is named by its commit, whose number is its age, and the set  *)
(* of backends compiled into it; its ID and its manifest follow from them. *)
(***************************************************************************)
EXTENDS Integers, Hardware

CONSTANTS
    Models, Archs,
    ModelArch,    \* the architecture of each model, None if it is not known
    Commits,      \* of one source, a larger number for a newer one
    CommitArchs,  \* the architectures each commit supports
    BackendSets,  \* what may be compiled together
    Priorities,   \* values of backend_priority
    Hosts,        \* what hardware detection may look at, see Hardware
    Named,        \* the runtimes users ask for or pin
    MaxBuilds,
    None

Variants == [commit : Commits, backends : BackendSets]
Maybe(S) == S \cup {None}

ASSUME SelectionAssumption ==
    /\ Commits \subseteq Nat /\ MaxBuilds \in Nat
    /\ ModelArch \in [Models -> Maybe(Archs)] /\ None \notin Archs
    /\ CommitArchs \in [Commits -> SUBSET Archs]
    /\ {} \notin BackendSets /\ \A set \in BackendSets : IsFiniteSet(set)
    /\ Named \subseteq Variants /\ None \notin Variants
    /\ \A list \in Priorities : list \in Seq(Range(list))

VARIABLES
    builtAt,   \* the time in each runtime's manifest, 0 if there is none
    clock,
    modelPin, formatPin, \* selections.json
    priority, autoSelect, \* of the configuration
    host,      \* the host as the last detection found it
    pc, model, \* the load and its model
    requested, \* the runtime_id of its request
    list,      \* what Registry.List returned
    chosen, by \* the runtime and what chose it

hostVars == <<builtAt, clock>>
pinVars  == <<modelPin, formatPin>>
confVars == <<priority, autoSelect, host>>
loadVars == <<pc, model, requested, list, chosen, by>>
vars     == <<hostVars, pinVars, confVars, loadVars>>

NotBuilt == [v \in Variants |-> 0]

\* The types, and that no two manifests are of one time.
TypeOK ==
    /\ builtAt \in [Variants -> 0..clock] /\ clock \in 0..MaxBuilds
    /\ \A v, w \in Variants : v # w /\ builtAt[v] # 0 => builtAt[v] # builtAt[w]
    /\ modelPin \in [Models -> Maybe(Variants)] /\ formatPin \in Maybe(Variants)
    /\ priority \in Priorities /\ autoSelect \in BOOLEAN /\ host \in Hosts
    /\ pc \in {"idle", "list", "decide", "locate", "located", "failed"}
    /\ model \in Maybe(Models) /\ requested \in Maybe(Variants)
    /\ list \in [Variants -> 0..clock]
    /\ chosen \in Maybe(Variants)
    /\ by \in {"request", "pin", "auto", "none"}

Init ==
    /\ builtAt = NotBuilt /\ clock = 0
    /\ modelPin = [m \in Models |-> None] /\ formatPin = None
    /\ priority \in Priorities /\ autoSelect \in BOOLEAN /\ host \in Hosts
    /\ pc = "idle" /\ model = None /\ requested = None
    /\ list = NotBuilt /\ chosen = None /\ by = "none"

-----------------------------------------------------------------------------
(* Resolve, over the list l.                                               *)

Report    == [h \in Hosts |-> Detect(h)]
available == Report[host].backends

\* Mutant: a backend named twice has the rank of its last place.
RankLast(b) == IF b \in Range(priority)
               THEN Max({i \in DOMAIN priority : priority[i] = b}) - 1
               ELSE Cardinality(Range(priority)) + 1
\* A backend's first place; len(rank) + 1 for one without a place.
Rank(b) == IF b \in Range(priority)
           THEN Min({i \in DOMAIN priority : priority[i] = b}) - 1
           ELSE Cardinality(Range(priority)) + 1

\* Mutant: a backend that is not in the priority list is not used.
WorkingListed(v) == {b \in v.backends \cap Range(priority) : available # {} => b \in available}
\* An empty availability list disables the filter.
Working(v) == {b \in v.backends : available # {} => b \in available}
BackendRank(v) == Min({Rank(b) : b \in Working(v)})

\* Mutant: the architecture is not looked at.
CandidatesOfAnyArch(l, arch) == {v \in Variants : l[v] # 0 /\ Working(v) # {}}
Candidates(l, arch) ==
    {v \in Variants : l[v] # 0 /\ arch \in CommitArchs[v.commit] /\ Working(v) # {}}

\* Mutant: the oldest build first.
BeforeByAge(l, v, w) ==
    \/ BackendRank(v) < BackendRank(w)
    \/ BackendRank(v) = BackendRank(w) /\ l[v] < l[w]
Before(l, v, w) ==
    \/ BackendRank(v) < BackendRank(w)
    \/ BackendRank(v) = BackendRank(w) /\ l[v] > l[w]

Automatic(l, m) ==
    LET found == Candidates(l, ModelArch[m]) IN
    IF autoSelect /\ ModelArch[m] # None /\ found # {}
    THEN CHOOSE v \in found : \A w \in found \ {v} : Before(l, v, w)
    ELSE None

\* Mutant: a pin to a runtime that is gone is passed over.
ManualOrAuto(l, v) == IF l[v] # 0 THEN v ELSE Automatic(l, model)
Manual(l, v) == IF l[v] # 0 THEN v ELSE None

Pin(m) == IF modelPin[m] # None THEN modelPin[m] ELSE formatPin

-----------------------------------------------------------------------------
(* A load, from handleModelLoad to the name of the binary.                 *)

LoadBegin(m, v) ==
    /\ pc \in {"idle", "located", "failed"}
    /\ pc' = "list" /\ model' = m /\ requested' = v
    /\ list' = NotBuilt /\ chosen' = None /\ by' = "none"
    /\ UNCHANGED <<hostVars, pinVars, confVars>>

List ==
    /\ pc = "list"
    /\ pc' = "decide" /\ list' = builtAt
    /\ UNCHANGED <<hostVars, pinVars, confVars, model, requested, chosen, by>>

Decide ==
    /\ pc = "decide"
    /\ by' = IF requested # None THEN "request"
             ELSE IF Pin(model) # None THEN "pin" ELSE "auto"
    /\ chosen' = IF requested # None
                 THEN IF list[requested] # 0 THEN requested ELSE None
                 ELSE IF Pin(model) # None THEN Manual(list, Pin(model))
                 ELSE Automatic(list, model)
    /\ pc' = IF chosen' = None THEN "failed" ELSE "locate"
    /\ UNCHANGED <<hostVars, pinVars, confVars, model, requested, list>>

\* BinaryPath looks at the disk again.
Locate ==
    /\ pc = "locate"
    /\ pc' = IF builtAt[chosen] # 0 THEN "located" ELSE "failed"
    /\ UNCHANGED <<hostVars, pinVars, confVars, model, requested, list, chosen, by>>

-----------------------------------------------------------------------------
(* What goes on meanwhile.                                                 *)

\* Mutant: a manifest keeps the time of the commit's first build.
BuildOfCommit(v) ==
    /\ clock < MaxBuilds
    /\ clock' = clock + 1
    /\ builtAt' = [builtAt EXCEPT ![v] =
          Min({clock + 1} \cup ({builtAt[w] : w \in {u \in Variants : u.commit = v.commit}} \ {0}))]
    /\ UNCHANGED <<pinVars, confVars, loadVars>>
\* A build's hook writes a manifest, over the one of the last build.
Build(v) ==
    /\ clock < MaxBuilds
    /\ clock' = clock + 1
    /\ builtAt' = [builtAt EXCEPT ![v] = clock + 1]
    /\ UNCHANGED <<pinVars, confVars, loadVars>>

RemoveRuntime(v) ==
    /\ builtAt[v] # 0
    /\ builtAt' = [builtAt EXCEPT ![v] = 0]
    /\ UNCHANGED <<clock, pinVars, confVars, loadVars>>

\* Neither asks whether the runtime is installed; "" clears.
SetModel(m, v) ==
    /\ modelPin' = [modelPin EXCEPT ![m] = v]
    /\ UNCHANGED <<hostVars, formatPin, confVars, loadVars>>

SetFormat(v) ==
    /\ formatPin' = v
    /\ UNCHANGED <<hostVars, modelPin, confVars, loadVars>>

Configure(p, auto) ==
    /\ priority' = p /\ autoSelect' = auto
    /\ UNCHANGED <<hostVars, pinVars, host, loadVars>>

\* hardwareState.Refresh: the report is replaced by a new detection's.
Refresh(h) ==
    /\ host' = h
    /\ UNCHANGED <<hostVars, pinVars, priority, autoSelect, loadVars>>

Next ==
    \/ \E m \in Models, v \in Maybe(Named) : LoadBegin(m, v)
    \/ List \/ Decide \/ Locate
    \/ \E v \in Variants : Build(v) \/ RemoveRuntime(v)
    \/ \E v \in Maybe(Named) : SetFormat(v) \/ \E m \in Models : SetModel(m, v)
    \/ \E p \in Priorities, auto \in BOOLEAN : Configure(p, auto)
    \/ \E h \in Hosts : Refresh(h)

Spec == Init /\ [][Next]_vars

-----------------------------------------------------------------------------
(* Properties of the step that decides, the automatic choice given by what  *)
(* it should be and not by how it is found.                                *)

Decided      == pc = "decide" /\ pc' # "decide"
Suits(v)     == list[v] # 0 /\ ModelArch[model] \in CommitArchs[v.commit]
Usable(v, b) == b \in v.backends /\ (host.skip \/ Works(host, b))

\* What the choice takes from elsewhere: a detection that reports the backends
\* that work, of those that are compiled; and a priority list in which no name
\* comes so late, for its repetitions, that it is past len(rank) + 1, the rank
\* of a backend the list does not have.
FindsWhatWorks(h) == ~h.skip => \A b \in UNION BackendSets : b \in Detect(h).backends <=> Works(h, b)
IsShort(p) == \A i \in DOMAIN p : (\A k \in 1..i - 1 : p[k] # p[i]) => i <= Cardinality(Range(p)) + 1

\* An automatic choice can run the model on this host: it was installed,
\* supports the architecture and has a backend that is there, whatever was
\* built, removed or configured while it was made (163-170).
ChoiceRuns ==
    [][Decided /\ by' = "auto" /\ chosen' # None
          => Suits(chosen') /\ \E b \in UNION BackendSets : Usable(chosen', b)]_vars

\* No runtime that suits the model has a usable backend of a better place in
\* backend_priority than the best of the chosen one (SPEC.md:271), a backend
\* named twice counting by its first place.
PriorityHonoured ==
    [][Decided /\ by' = "auto" /\ chosen' # None
          => \A w \in Variants, i \in DOMAIN priority :
                Suits(w) /\ Usable(w, priority[i])
                    => \E k \in 1..i : Usable(chosen', priority[k])]_vars

\* Of the runtimes with the chosen one's backends, it is the last built.
LastBuilt ==
    [][Decided /\ by' = "auto" /\ chosen' # None
          => \A w \in Variants : Suits(w) /\ w.backends = chosen'.backends
                                    => list[w] <= list[chosen']]_vars

\* Where the user has pinned a runtime that is gone, the load fails: nothing
\* else is started in its place (SPEC.md:268-269).
PinOrNothing ==
    [][Decided /\ (requested # None \/ modelPin[model] # None \/ formatPin # None)
          => chosen' \in {None, requested, modelPin[model], formatPin}]_vars

\* An automatic load is only refused if no runtime would do.
RefusedForCause ==
    [][Decided /\ by' = "auto" /\ chosen' = None /\ autoSelect
          => \A w \in Variants, b \in UNION BackendSets : ~(Suits(w) /\ Usable(w, b))]_vars

\* The report has every device once, with the APIs it has, however the two
\* tools' lists overlap, and notes each that failed (hardware.go 76-200).
ReportFaithful ==
    ~host.skip => LET gpus == Report[host].gpus IN
        /\ Len(gpus) = Len(Inventory(host))
        /\ \A g \in Range(gpus) : Copies(gpus, g) = Copies(Inventory(host), g)
        /\ \A t \in {"nvidia", "vulkan"} : host[t] \in {"silent", "message"} => t \in Report[host].notes

-----------------------------------------------------------------------------
(* Claims the code does not keep.                                          *)

\* The best priority index decides (selection.go:219), whatever the list: a
\* backend that has one comes before a backend that has none.
ListedFirst ==
    [][Decided /\ by' = "auto" /\ chosen' # None
          => \A w \in Variants, b \in Range(priority) :
                Suits(w) /\ Usable(w, b)
                    => \E best \in Range(priority) : Usable(chosen', best)]_vars

\* Of the same backend, the newer commit (SPEC.md:271).
NewestCommit ==
    [][Decided /\ by' = "auto" /\ chosen' # None
          => \A w \in Variants : Suits(w) /\ w.backends = chosen'.backends
                                    => w.commit <= chosen'.commit]_vars
=============================================================================

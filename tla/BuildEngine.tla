---------------------------- MODULE BuildEngine -----------------------------
(***************************************************************************)
(* internal/build/engine.go, with the part of source.Manager's             *)
(* EnsureCheckout that moves the shared checkout and the hook of           *)
(* cmd/runtimeforge that writes the manifest: the jobs, the slots they     *)
(* wait for, cancellation, and the directories they share on disk.         *)
(*                                                                         *)
(* One step is one external command, one critical section of e.mu, or one  *)
(* operation on the file system.  A directory is described by the commit   *)
(* its contents come from.                                                 *)
(***************************************************************************)
EXTENDS Integers, FiniteSets

CONSTANTS
    Jobs,          \* Submit calls that are accepted
    Sources, Commits, Backends,
    Slots,         \* capacity of e.sem, max_concurrent_builds
    Removals,      \* whether users delete sources and runtimes meanwhile
    Restarts,      \* whether the daemon is killed and started again
    OverlongLines, \* whether a compiler may print a line the log scanner rejects
    None

ASSUME BuildAssumption ==
    /\ Slots \in Nat \ {0}
    /\ None \notin Commits \cup Sources \cup Jobs
    /\ "partial" \notin Commits
    /\ {Removals, Restarts, OverlongLines} \subseteq BOOLEAN

Variants == Sources \X Commits \X Backends   \* runtimes/<source>/<commit>/<backend>

VARIABLES
    pc,
    req,        \* the Request: source, commit (None for the newest) and backend
    status,     \* Job.Status
    commit,     \* Job.Commit once EnsureCheckout has answered
    canceled,   \* jobs whose context Cancel has ended
    cancels,    \* the keys of e.cancels
    sem,        \* the jobs holding a slot
    registered, \* sources in the registry
    head,       \* the commit checked out in each source's directory, None if absent
    tree,       \* the commit each build directory's bin was compiled from
    bin,        \* the commit each runtime's bin was copied from, or "partial"
    manifest    \* the commit each runtime's architectures were read from

jobVars  == <<pc, req, status, commit, canceled, cancels, sem>>
diskVars == <<registered, head, tree, bin, manifest>>
vars     == <<jobVars, diskVars>>

Terminal == {"succeeded", "failed", "canceled"}
Commands == {"fetch", "checkout", "head", "configure", "compile"}  \* bound to the job's context
Located  == {"plan", "configure", "compile", "collect", "copy", "hook", "succeed", "jammed"}
Working  == Commands \cup Located

\* The types, and that a job past EnsureCheckout knows what it builds.
TypeOK ==
    /\ pc \in [Jobs -> Working \cup {"idle", "queued", "cleanup", "release", "done"}]
    /\ req \in [Jobs -> [source : Sources, commit : Commits \cup {None}, backend : Backends] \cup {None}]
    /\ status \in [Jobs -> Terminal \cup {"none", "queued", "running"}]
    /\ commit \in [Jobs -> Commits \cup {None}]
    /\ \A j \in Jobs : pc[j] \in Located => commit[j] # None
    /\ canceled \subseteq Jobs /\ cancels \subseteq Jobs /\ sem \subseteq Jobs
    /\ registered \subseteq Sources
    /\ head \in [Sources -> Commits \cup {None}]
    /\ tree \in [Variants -> Commits \cup {None}]
    /\ bin \in [Variants -> Commits \cup {None, "partial"}]
    /\ manifest \in [Variants -> Commits \cup {None}]

Init ==
    /\ pc = [j \in Jobs |-> "idle"]
    /\ req = [j \in Jobs |-> None]
    /\ status = [j \in Jobs |-> "none"]
    /\ commit = [j \in Jobs |-> None]
    /\ canceled = {} /\ cancels = {} /\ sem = {}
    /\ registered = Sources
    /\ head = [s \in Sources |-> None]
    /\ tree = [d \in Variants |-> None]
    /\ bin = [d \in Variants |-> None]
    /\ manifest = [d \in Variants |-> None]

Src(j) == req[j].source
Dir(j) == <<Src(j), commit[j], req[j].backend>>    \* of buildDir and of installDir

Goto(j, label) == pc' = [pc EXCEPT ![j] = label]

-----------------------------------------------------------------------------
(* Clients.                                                                *)

Submit(j, r) ==
    /\ pc[j] = "idle" /\ r.source \in registered
    /\ req' = [req EXCEPT ![j] = r]
    /\ status' = [status EXCEPT ![j] = "queued"]
    /\ cancels' = cancels \cup {j}
    /\ Goto(j, "queued")
    /\ UNCHANGED <<commit, canceled, sem, diskVars>>

\* Cancel answers true, whatever the job is doing.
Cancel(j) ==
    /\ j \in cancels
    /\ canceled' = canceled \cup {j}
    /\ UNCHANGED <<pc, req, status, commit, cancels, sem, diskVars>>

-----------------------------------------------------------------------------
(* run: the wait for a slot, then the commands.                            *)

\* Mutant: the slot is not limited.
TakeSlotAlways(j) ==
    /\ pc[j] = "queued"
    /\ sem' = sem \cup {j}
    /\ status' = [status EXCEPT ![j] = "running"]
    /\ Goto(j, "fetch")
    /\ UNCHANGED <<req, commit, canceled, cancels, diskVars>>

TakeSlot(j) ==
    /\ pc[j] = "queued"
    /\ Cardinality(sem) < Slots
    /\ sem' = sem \cup {j}
    /\ status' = [status EXCEPT ![j] = "running"]
    /\ Goto(j, "fetch")
    /\ UNCHANGED <<req, commit, canceled, cancels, diskVars>>

\* Mutant: a job canceled while it waits is marked, and goes on waiting.
CancelQueuedHolding(j) ==
    /\ pc[j] = "queued" /\ j \in canceled
    /\ status' = [status EXCEPT ![j] = "canceled"]
    /\ UNCHANGED <<pc, req, commit, canceled, cancels, sem, diskVars>>

\* select takes either ready case, so a canceled job may still take a slot.
CancelQueued(j) ==
    /\ pc[j] = "queued" /\ j \in canceled
    /\ status' = [status EXCEPT ![j] = "canceled"]
    /\ cancels' = cancels \ {j}
    /\ Goto(j, "done")
    /\ UNCHANGED <<req, commit, canceled, sem, diskVars>>

\* A command under the job's context cannot succeed once that has ended; any
\* step may fail, and ctx.Err() decides what the failure is called.  A compiler
\* that fails, or is stopped too late, may have written its output.
Fail(j) ==
    /\ pc[j] \in Working \ {"succeed", "jammed"}
    /\ status' = [status EXCEPT ![j] =
                    IF pc[j] \in Commands /\ j \in canceled THEN "canceled" ELSE "failed"]
    /\ \/ UNCHANGED tree
       \/ pc[j] = "compile" /\ head[Src(j)] # None /\ tree' = [tree EXCEPT ![Dir(j)] = head[Src(j)]]
    /\ Goto(j, "cleanup")
    /\ UNCHANGED <<req, commit, canceled, cancels, sem, registered, head, bin, manifest>>

\* A line over the scanner's limit: the reader stops, cmd.Wait waits for the
\* copying goroutine, and the job's context cannot help.  A compiler may have
\* written its output by then.
Jam(j) ==
    /\ OverlongLines /\ pc[j] \in {"configure", "compile"}
    /\ \/ UNCHANGED tree
       \/ pc[j] = "compile" /\ head[Src(j)] # None /\ tree' = [tree EXCEPT ![Dir(j)] = head[Src(j)]]
    /\ Goto(j, "jammed")
    /\ UNCHANGED <<req, status, commit, canceled, cancels, sem, registered, head, bin, manifest>>

\* EnsureClone, remote set-url, fetch.  A fresh clone has some commit out.
Fetch(j) ==
    /\ pc[j] = "fetch" /\ j \notin canceled /\ Src(j) \in registered
    /\ \E c \in Commits :
          head' = [head EXCEPT ![Src(j)] = IF @ = None THEN c ELSE @]
    /\ Goto(j, "checkout")
    /\ UNCHANGED <<req, status, commit, canceled, cancels, sem, registered, tree, bin, manifest>>

Wanted(j) == IF req[j].commit = None THEN Commits ELSE {req[j].commit}

\* Mutant: the newest commit is checked out whatever the request says.
CheckoutNewest(j) ==
    /\ pc[j] = "checkout" /\ j \notin canceled /\ head[Src(j)] # None
    /\ \E c \in Commits : head' = [head EXCEPT ![Src(j)] = c]
    /\ Goto(j, "head")
    /\ UNCHANGED <<req, status, commit, canceled, cancels, sem, registered, tree, bin, manifest>>

Checkout(j) ==
    /\ pc[j] = "checkout" /\ j \notin canceled /\ head[Src(j)] # None
    /\ \E c \in Wanted(j) : head' = [head EXCEPT ![Src(j)] = c]
    /\ Goto(j, "head")
    /\ UNCHANGED <<req, status, commit, canceled, cancels, sem, registered, tree, bin, manifest>>

\* Mutant: what rev-parse printed is taken without looking at its error.
HeadUnchecked(j) ==
    /\ pc[j] = "head" /\ j \notin canceled
    /\ commit' = [commit EXCEPT ![j] = head[Src(j)]]
    /\ Goto(j, "plan")
    /\ UNCHANGED <<req, status, canceled, cancels, sem, diskVars>>

\* rev-parse HEAD decides which commit the job says it builds.
Head(j) ==
    /\ pc[j] = "head" /\ j \notin canceled /\ head[Src(j)] # None
    /\ commit' = [commit EXCEPT ![j] = head[Src(j)]]
    /\ Goto(j, "plan")
    /\ UNCHANGED <<req, status, canceled, cancels, sem, diskVars>>

\* BuildPlan and MkdirAll; a custom command is one Run instead of two.
MakePlan(j) ==
    /\ pc[j] = "plan"
    /\ pc' \in {[pc EXCEPT ![j] = "configure"], [pc EXCEPT ![j] = "compile"]}
    /\ UNCHANGED <<req, status, commit, canceled, cancels, sem, diskVars>>

Configure(j) ==
    /\ pc[j] = "configure" /\ j \notin canceled
    /\ Goto(j, "compile")
    /\ UNCHANGED <<req, status, commit, canceled, cancels, sem, diskVars>>

\* The compiler reads whatever is checked out now.
Compile(j) ==
    /\ pc[j] = "compile" /\ j \notin canceled /\ head[Src(j)] # None
    /\ tree' = [tree EXCEPT ![Dir(j)] = head[Src(j)]]
    /\ Goto(j, "collect")
    /\ UNCHANGED <<req, status, commit, canceled, cancels, sem, registered, head, bin, manifest>>

\* collectBinaries empties the runtime's bin, then fills it from the build
\* directory; failing in between leaves it incomplete.
Collect(j) ==
    /\ pc[j] = "collect"
    /\ bin' = [bin EXCEPT ![Dir(j)] = "partial"]
    /\ Goto(j, "copy")
    /\ UNCHANGED <<req, status, commit, canceled, cancels, sem, registered, head, tree, manifest>>

Copy(j) ==
    /\ pc[j] = "copy"
    /\ bin' = [bin EXCEPT ![Dir(j)] = tree[Dir(j)]]
    /\ Goto(j, "hook")
    /\ UNCHANGED <<req, status, commit, canceled, cancels, sem, registered, head, tree, manifest>>

\* OnSuccess: ExtractArchitectures from the checkout, then Registry.Write.
Hook(j) ==
    /\ pc[j] = "hook" /\ head[Src(j)] # None
    /\ manifest' = [manifest EXCEPT ![Dir(j)] = head[Src(j)]]
    /\ Goto(j, "succeed")
    /\ UNCHANGED <<req, status, commit, canceled, cancels, sem, registered, head, tree, bin>>

Succeed(j) ==
    /\ pc[j] = "succeed"
    /\ status' = [status EXCEPT ![j] = "succeeded"]
    /\ Goto(j, "cleanup")
    /\ UNCHANGED <<req, commit, canceled, cancels, sem, diskVars>>

\* The deferred functions, last first: forget the cancel, free the slot.
\* Mutant: the slot is freed before the job is forgotten and is then kept.
CleanupLeaking(j) ==
    /\ pc[j] = "cleanup"
    /\ cancels' = cancels \ {j}
    /\ Goto(j, "done")
    /\ UNCHANGED <<req, status, commit, canceled, sem, diskVars>>

Cleanup(j) ==
    /\ pc[j] = "cleanup"
    /\ cancels' = cancels \ {j}
    /\ Goto(j, "release")
    /\ UNCHANGED <<req, status, commit, canceled, sem, diskVars>>

Release(j) ==
    /\ pc[j] = "release"
    /\ sem' = sem \ {j}
    /\ Goto(j, "done")
    /\ UNCHANGED <<req, status, commit, canceled, cancels, diskVars>>

Success(j) == \/ Fetch(j) \/ Checkout(j) \/ Head(j) \/ MakePlan(j) \/ Configure(j) \/ Compile(j)
              \/ Collect(j) \/ Copy(j) \/ Hook(j) \/ Succeed(j)

RunStep(j) == Success(j) \/ Fail(j) \/ Cleanup(j) \/ Release(j)

-----------------------------------------------------------------------------
(* The rest of the daemon, on the same directories.                        *)

\* DELETE a source, with its checkout or not; POST adds it back.
RemoveSource(s, purge) ==
    /\ Removals /\ s \in registered
    /\ registered' = registered \ {s}
    /\ head' = IF purge THEN [head EXCEPT ![s] = None] ELSE head
    /\ UNCHANGED <<jobVars, tree, bin, manifest>>

AddSource(s) ==
    /\ s \notin registered
    /\ registered' = registered \cup {s}
    /\ UNCHANGED <<jobVars, head, tree, bin, manifest>>

\* Registry.Remove finds a runtime by its manifest.
RemoveRuntime(d) ==
    /\ Removals /\ manifest[d] # None
    /\ manifest' = [manifest EXCEPT ![d] = None]
    /\ bin' = [bin EXCEPT ![d] = None]
    /\ UNCHANGED <<jobVars, registered, head, tree>>

\* Commits that a command under way may still check out, or compile, when the
\* daemon is gone: git is not killed with it (git.go:22-31), a compiler's own
\* children are not either (engine.go:52 is for the process it starts).
StillCheckedOut(s) ==
    UNION {Wanted(j) : j \in {k \in Jobs : pc[k] = "checkout" /\ Src(k) = s /\ head[s] # None}}
      \cup UNION {Commits : j \in {k \in Jobs : pc[k] = "fetch" /\ Src(k) = s /\ head[s] = None}}
StillCompiled(d) ==
    {head[Src(j)] : j \in {k \in Jobs : pc[k] = "compile" /\ Dir(k) = d /\ head[Src(k)] # None}}

\* Jobs live in memory only.  What outlives the daemon is over when the next
\* one accepts a job.
Restart ==
    /\ Restarts
    /\ \E j \in Jobs : status[j] # "none"
    /\ pc' = [j \in Jobs |-> IF pc[j] = "idle" THEN "idle" ELSE "done"]
    /\ status' = [j \in Jobs |-> "none"]
    /\ cancels' = {} /\ sem' = {}
    /\ head' \in {h \in [Sources -> Commits \cup {None}] :
                    \A s \in Sources : h[s] \in {head[s]} \cup StillCheckedOut(s)}
    /\ tree' \in {t \in [Variants -> Commits \cup {None}] :
                    \A d \in Variants : t[d] \in {tree[d]} \cup StillCompiled(d)}
    /\ UNCHANGED <<req, commit, canceled, registered, bin, manifest>>

-----------------------------------------------------------------------------
\* Every job has ended, or hangs, or waits for the slot of one that hangs.
Idle ==
    /\ \A j \in Jobs : \/ pc[j] \in {"jammed", "done"}
                       \/ pc[j] = "queued" /\ \E k \in sem : pc[k] = "jammed"
    /\ UNCHANGED vars

Next ==
    \/ \E j \in Jobs, s \in Sources, c \in Commits \cup {None}, b \in Backends :
          Submit(j, [source |-> s, commit |-> c, backend |-> b])
    \/ \E j \in Jobs : Cancel(j) \/ TakeSlot(j) \/ CancelQueued(j) \/ RunStep(j) \/ Jam(j)
    \/ \E s \in Sources : AddSource(s) \/ \E purge \in BOOLEAN : RemoveSource(s, purge)
    \/ \E d \in Variants : RemoveRuntime(d)
    \/ Restart
    \/ Idle

SafetySpec == Init /\ [][Next]_vars

\* Commands end, and Go serves the goroutines blocked on a channel in order.
Spec ==
    /\ SafetySpec
    /\ \A j \in Jobs : /\ WF_vars(RunStep(j)) /\ SF_vars(TakeSlot(j))
                       /\ WF_vars(CancelQueued(j))

-----------------------------------------------------------------------------
(* Properties.                                                             *)

\* The commits of a runtime's three parts agree with its directory: what was
\* compiled, what was copied, and what its architectures were read from
\* (SPEC.md:248, "known exactly, not guessed").  Needs a single slot.
RuntimesFaithful ==
    \A d \in Variants : /\ tree[d] \in {None, d[2]}
                        /\ bin[d] \in {None, "partial", d[2]}
                        /\ manifest[d] \in {None, d[2]}

\* A job that was asked for a commit builds that commit (EnsureCheckout
\* 300-321 reads HEAD back after checking out).  Needs a single slot.
CommitHonoured ==
    \A j \in Jobs : commit[j] # None /\ req[j].commit # None => commit[j] = req[j].commit

\* At most Slots jobs run, and a job that is over holds no slot and can no
\* longer be canceled, whatever way it ended (304-322).
SlotAccounting ==
    /\ Cardinality({j \in Jobs : status[j] = "running"}) <= Slots
    /\ \A j \in Jobs : pc[j] = "done" => j \notin sem /\ j \notin cancels

\* The outcome of a job is final until the daemon forgets it (468-489).
OutcomeIsFinal ==
    [][\A j \in Jobs : status[j] \in Terminal => status'[j] \in {status[j], "none"}]_vars

\* An accepted job ends, unless the daemon is killed first or a command hangs
\* at an overlong line, in the job itself or in one whose slot it waits for.
JobsEnd ==
    \A j \in Jobs : status[j] = "queued" ~> \/ status[j] \in Terminal \cup {"none"}
                                            \/ \E k \in Jobs : pc[k] = "jammed"

-----------------------------------------------------------------------------
(* Claims the code does not keep.                                          *)

\* The manifest's architectures are those of the commit it names, read from
\* the source and not guessed (SPEC.md:247-249).
ManifestFaithful == \A d \in Variants : manifest[d] \in {None, d[2]}

\* Cancel stops the job (SPEC.md:222): a job it accepted does not succeed.
CanceledNeverSucceeds ==
    [][\A j \in Jobs : j \in canceled /\ status[j] # "succeeded" => status'[j] # "succeeded"]_vars

\* Cancel stops a running job at once (SPEC.md:222), so it ends.
CancelEndsJob == \A j \in Jobs : (j \in canceled /\ status[j] = "running") ~> status[j] \in Terminal

\* With no job under way, every runtime that List returns is installed, its
\* binaries in place (manifest.go:124).
ListedIsInstalled ==
    (\A j \in Jobs : pc[j] \in {"idle", "done"})
        => \A d \in Variants : manifest[d] # None => bin[d] \in Commits
=============================================================================

--------------------------- MODULE SourceManager ----------------------------
(***************************************************************************)
(* internal/source/manager.go: what the registry records of one source and *)
(* what its checkout holds, while checks, builds, edits of the registry    *)
(* and pushes to the repositories go on.                                   *)
(*                                                                         *)
(* One step is one critical section of m.mu or one git command.  The       *)
(* source's ref is one branch, whose commits are numbered.                 *)
(***************************************************************************)
EXTENDS Integers, FiniteSets

CONSTANTS
    Repos,    \* URLs the source may be registered with
    MaxPush,  \* commits of each repository
    Checks, Builds,   \* calls of Check and EnsureCheckout
    Overlaps, \* values of overlap
    None

ASSUME SourceAssumption ==
    /\ MaxPush \in Nat \ {0}
    /\ None \notin Repos /\ None \notin [repo : Repos, nr : 1..MaxPush]
    /\ Overlaps \subseteq SUBSET {"calls", "edits", "pushes"}

Calls   == Checks \cup Builds
Commits == [repo : Repos, nr : 1..MaxPush]

VARIABLES
    overlap,  \* what may happen while a call is under way, the same all along
    tip,      \* the number of each repository's newest commit
    source,   \* the entry m.sources has for the name, or None
    head,     \* the commit checked out, None if there is no checkout
    objects,  \* the commits the clone has
    origin,   \* the URL of the clone's origin
    pc,
    copy,     \* the copy of the entry a call made at its start
    wanted,   \* the commit a build asks for, or has resolved
    remote, local \* what a check has found so far

repoVars == <<overlap, tip>>
diskVars == <<head, objects, origin>>
callVars == <<pc, copy, wanted, remote, local>>
vars     == <<repoVars, source, diskVars, callVars>>

Maybe(S) == S \cup {None}
Sources  == [url : Repos, remote : Maybe(Commits), local : Maybe(Commits), update : BOOLEAN]

CheckBusy == {"resolve", "compare", "store"}
BuildBusy == {"clone", "seturl", "fetch", "pick", "checkout", "submodules", "head", "record"}
Busy(c)   == pc[c] \in CheckBusy \cup BuildBusy
Quiet     == \A c \in Calls : ~Busy(c)

\* The types, and that a checkout is at a commit it has.
TypeOK ==
    /\ overlap \in Overlaps
    /\ tip \in [Repos -> 1..MaxPush]
    /\ source \in Maybe(Sources)
    /\ head \in Maybe(Commits) /\ objects \subseteq Commits /\ origin \in Maybe(Repos)
    /\ head # None => head \in objects /\ origin # None
    /\ pc \in [Calls -> CheckBusy \cup BuildBusy \cup {"idle", "done", "failed"}]
    /\ copy \in [Calls -> Maybe(Sources)]
    /\ wanted \in [Calls -> Maybe(Commits)]
    /\ remote \in [Calls -> Maybe(Commits)] /\ local \in [Calls -> Maybe(Commits)]

Init ==
    /\ overlap \in Overlaps
    /\ tip = [r \in Repos |-> 1]
    /\ source = None
    /\ head = None /\ objects = {} /\ origin = None
    /\ pc = [c \in Calls |-> "idle"]
    /\ copy = [c \in Calls |-> None]
    /\ wanted = [c \in Calls |-> None]
    /\ remote = [c \in Calls |-> None] /\ local = [c \in Calls |-> None]

May(kind) == kind \in overlap \/ Quiet
Goto(c, label) == pc' = [pc EXCEPT ![c] = label]
Tip(r)     == [repo |-> r, nr |-> tip[r]]
Pushed(r)  == {[repo |-> r, nr |-> n] : n \in 1..tip[r]}

-----------------------------------------------------------------------------
\* A branch only grows: a forced push, after which a commit that was recorded
\* is no longer there to fetch, is not modelled.
Push(r) ==
    /\ May("pushes") /\ tip[r] < MaxPush
    /\ tip' = [tip EXCEPT ![r] = @ + 1]
    /\ UNCHANGED <<overlap, source, diskVars, callVars>>

\* Mutant: a name that is added again gets its old entry, under the new URL.
AddKeeping(url) ==
    /\ May("edits") /\ source = None
    /\ source' = [url |-> url, remote |-> head, local |-> head, update |-> FALSE]
    /\ UNCHANGED <<repoVars, diskVars, callVars>>

Add(url) ==
    /\ May("edits") /\ source = None
    /\ source' = [url |-> url, remote |-> None, local |-> None, update |-> FALSE]
    /\ UNCHANGED <<repoVars, diskVars, callVars>>

Remove(purge) ==
    /\ May("edits") /\ source # None
    /\ source' = None
    /\ IF purge THEN head' = None /\ objects' = {} /\ origin' = None
                ELSE UNCHANGED diskVars
    /\ UNCHANGED <<repoVars, callVars>>

-----------------------------------------------------------------------------
(* Check.                                                                  *)

CheckBegin(c) ==
    /\ pc[c] = "idle" /\ May("calls") /\ source # None
    /\ copy' = [copy EXCEPT ![c] = source]
    /\ Goto(c, "resolve")
    /\ UNCHANGED <<repoVars, source, diskVars, wanted, remote, local>>

\* ls-remote at the URL of the copy; a failure leaves the commits as they are.
CheckResolve(c) ==
    /\ pc[c] = "resolve"
    /\ \/ remote' = [remote EXCEPT ![c] = Tip(copy[c].url)] /\ Goto(c, "compare")
       \/ Goto(c, "failed") /\ UNCHANGED remote
    /\ UNCHANGED <<repoVars, source, diskVars, copy, wanted, local>>

\* rev-parse HEAD, whose failure counts as no checkout.
CheckCompare(c) ==
    /\ pc[c] = "compare"
    /\ \E found \in {head, None} : local' = [local EXCEPT ![c] = found]
    /\ Goto(c, "store")
    /\ UNCHANGED <<repoVars, source, diskVars, copy, wanted, remote>>

\* Mutant: only what has changed since the call began is written.
CheckStoreChanged(c) ==
    /\ pc[c] = "store"
    /\ source' = IF source = None THEN None
                 ELSE [source EXCEPT !.remote = remote[c],
                                     !.local = IF local[c] = copy[c].local THEN @ ELSE local[c],
                                     !.update = local[c] = None \/ local[c] # remote[c]]
    /\ Goto(c, "done")
    /\ UNCHANGED <<repoVars, diskVars, copy, wanted, remote, local>>

\* update: the entry the name has by now, if any.
CheckStore(c) ==
    /\ pc[c] = "store"
    /\ source' = IF source = None THEN None
                 ELSE [source EXCEPT !.remote = remote[c], !.local = local[c],
                                     !.update = local[c] = None \/ local[c] # remote[c]]
    /\ Goto(c, "done")
    /\ UNCHANGED <<repoVars, diskVars, copy, wanted, remote, local>>

-----------------------------------------------------------------------------
(* EnsureCheckout, called by a build's goroutine.                          *)

BuildBegin(b, commit) ==
    /\ pc[b] = "idle" /\ May("calls") /\ source # None
    /\ copy' = [copy EXCEPT ![b] = source]
    /\ wanted' = [wanted EXCEPT ![b] = commit]
    /\ Goto(b, "clone")
    /\ UNCHANGED <<repoVars, source, diskVars, remote, local>>

\* EnsureClone looks the source up again.
Clone(b) ==
    /\ pc[b] = "clone"
    /\ IF source = None THEN Goto(b, "failed") /\ UNCHANGED diskVars
       ELSE IF head # None THEN Goto(b, "seturl") /\ UNCHANGED diskVars
       ELSE /\ Goto(b, "seturl")
            /\ head' = Tip(source.url) /\ objects' = Pushed(source.url)
            /\ origin' = source.url
    /\ UNCHANGED <<repoVars, source, copy, wanted, remote, local>>

\* Mutant: the origin of an existing clone is left as it is.
SetURLNever(b) ==
    /\ pc[b] = "seturl" /\ head # None
    /\ Goto(b, "fetch")
    /\ UNCHANGED <<repoVars, source, diskVars, copy, wanted, remote, local>>

SetURL(b) ==
    /\ pc[b] = "seturl" /\ head # None
    /\ origin' = copy[b].url
    /\ Goto(b, "fetch")
    /\ UNCHANGED <<repoVars, source, head, objects, copy, wanted, remote, local>>

Fetch(b) ==
    /\ pc[b] = "fetch" /\ head # None
    /\ objects' = objects \cup Pushed(origin)
    /\ Goto(b, "pick")
    /\ UNCHANGED <<repoVars, source, head, origin, copy, wanted, remote, local>>

\* The commit asked for, else the one the last check recorded, else ls-remote.
Pick(b) ==
    /\ pc[b] = "pick"
    /\ wanted' = [wanted EXCEPT ![b] =
                    IF @ # None THEN @
                    ELSE IF copy[b].remote # None THEN copy[b].remote
                    ELSE Tip(copy[b].url)]
    /\ Goto(b, "checkout")
    /\ UNCHANGED <<repoVars, source, diskVars, copy, remote, local>>

\* Mutant: HEAD is set without asking whether the commit is there.
CheckoutUnchecked(b) ==
    /\ pc[b] = "checkout" /\ head # None
    /\ head' = wanted[b]
    /\ Goto(b, "submodules")
    /\ UNCHANGED <<repoVars, source, objects, origin, copy, wanted, remote, local>>

Checkout(b) ==
    /\ pc[b] = "checkout" /\ head # None /\ wanted[b] \in objects
    /\ head' = wanted[b]
    /\ Goto(b, "submodules")
    /\ UNCHANGED <<repoVars, source, objects, origin, copy, wanted, remote, local>>

Submodules(b) ==
    /\ pc[b] = "submodules"
    /\ Goto(b, "head")
    /\ UNCHANGED <<repoVars, source, diskVars, copy, wanted, remote, local>>

ReadHead(b) ==
    /\ pc[b] = "head" /\ head # None
    /\ local' = [local EXCEPT ![b] = head]
    /\ Goto(b, "record")
    /\ UNCHANGED <<repoVars, source, diskVars, copy, wanted, remote>>

Record(b) ==
    /\ pc[b] = "record"
    /\ source' = IF source = None THEN None
                 ELSE [source EXCEPT !.local = local[b], !.update = local[b] # source.remote]
    /\ Goto(b, "done")
    /\ UNCHANGED <<repoVars, diskVars, copy, wanted, remote, local>>

\* Any git command may fail, and the checkout may be gone.
BuildFails(b) ==
    /\ pc[b] \in BuildBusy \ {"record"}
    /\ Goto(b, "failed")
    /\ UNCHANGED <<repoVars, source, diskVars, copy, wanted, remote, local>>

BuildStep(b) == \/ Clone(b) \/ SetURL(b) \/ Fetch(b) \/ Pick(b) \/ Checkout(b)
                \/ Submodules(b) \/ ReadHead(b) \/ Record(b) \/ BuildFails(b)

-----------------------------------------------------------------------------
Next ==
    \/ \E r \in Repos : Push(r) \/ Add(r)
    \/ \E purge \in BOOLEAN : Remove(purge)
    \/ \E c \in Checks : CheckBegin(c) \/ CheckResolve(c) \/ CheckCompare(c) \/ CheckStore(c)
    \/ \E b \in Builds : \/ \E commit \in Maybe(UNION {Pushed(r) : r \in Repos}) : BuildBegin(b, commit)
                         \/ BuildStep(b)

Spec == Init /\ [][Next]_vars

-----------------------------------------------------------------------------
(* Properties.                                                             *)

\* The flag the UI shows agrees with the two commits it shows beside it,
\* whichever of checks and builds wrote them last (231, 320).
FlagAgrees ==
    source # None =>
        \/ source.update = (source.local = None \/ source.local # source.remote)
        \/ ~source.update /\ source.local = None /\ source.remote = None

\* What is recorded of a source's remote, and what a build without a commit
\* goes by, comes from the source's own URL, though the name was another
\* source's before and the checkout is still that one's (141-191, 222-232).
\* Needs calls and edits apart.
OwnCommits ==
    overlap \cap {"calls", "edits"} = {} /\ source # None /\ source.remote # None => source.remote.repo = source.url

CanCheckOut ==
    \A b \in Builds : pc[b] = "checkout" /\ wanted[b].repo = copy[b].url => wanted[b] \in objects

\* A commit of the source's own URL is there when it is checked out, whatever
\* the clone's origin was before (289-298).  Needs calls, edits and pushes apart.
WantedIsFetched == overlap = {} => CanCheckOut

-----------------------------------------------------------------------------
(* Claims the code does not keep.                                          *)

\* If commit is empty the configured ref is resolved remotely first
\* (manager.go:278-279): the build is of a commit that is the newest then.
UnspecifiedIsNewest ==
    [][\A b \in Builds : wanted[b] = None /\ wanted'[b] # None /\ Busy(b)
          => wanted'[b] = Tip(copy[b].url)]_vars

\* ... and first means before the fetch, which then brings it.
ResolvedBeforeFetch == CanCheckOut

\* Check compares the remote commit with the local checkout
\* (manager.go:202-203): a source it finds up to date has that commit out.
UpToDateIsOut ==
    [][\A c \in Checks : CheckStore(c) /\ source' # None /\ ~source'.update
          => head = source'.remote]_vars
=============================================================================

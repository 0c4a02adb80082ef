----------------------------- MODULE ModelScan ------------------------------
(***************************************************************************)
(* The model registry (internal/models/models.go) and who fills it: the    *)
(* scan at start-up, POST /models/scan and PUT /models/sources in the      *)
(* daemon, and `runtimeforge model scan` in a process of its own.  Files   *)
(* come, grow and go while a scan walks over them, and their headers are   *)
(* read by GGUF.                                                           *)
(***************************************************************************)
EXTENDS GGUF, FiniteSets

CONSTANTS
    Files,       \* every *.gguf file there may be
    Name,        \* Files -> [dir, stem, index, total]; index 0 is no shard
    WalkOrder,   \* Files -> Nat, the order of their paths
    HiddenDirs,  \* names of directories that start with a dot
    App, Drive,  \* directories: the application's own, one that may be unmounted
    Contents,    \* assignments of header pairs to the files
    Changing,    \* files that may come and go
    Downloaded,  \* a file that may be there in part when the daemon starts
    SourceSets,  \* [scanDirs, depth, roots, files] of a configuration
    Rescans,     \* requests for a scan
    Overlap,     \* whether a scan may start while another runs
    MaxChanges,  \* bound on the events around the daemon
    None

ASSUME ModelScanAssumption ==
    /\ None \notin Files /\ Changing \cup {Downloaded} \subseteq Files
    /\ Rescans \cap {"auto", "command"} = {}
    /\ Overlap \in BOOLEAN /\ MaxChanges \in Nat
    /\ \A f \in Files : /\ Name[f] = [dir   |-> Name[f].dir, stem |-> Name[f].stem,
                                      index |-> Name[f].index, total |-> Name[f].total]
                       /\ Name[f].index \in Nat
    /\ \A src \in SourceSets : /\ src = [scanDirs |-> src.scanDirs, depth |-> src.depth,
                                        roots |-> src.roots, files |-> src.files]
                              /\ src.scanDirs \in Seq(Range(src.scanDirs))
                              /\ src.roots \in Seq(Range(src.roots)) /\ src.files \in Seq(Files)

Scans == Rescans \cup {"auto", "command"}

VARIABLES
    content,   \* the header each file has when it is complete
    disk,      \* the cells each file has so far, -1 when there is no file
    mounted,
    sources,   \* the live configuration's [models]
    up,        \* the daemon runs
    registry,  \* r.models
    saved,     \* the list in models.json
    scan,      \* the state of each scan
    reader,    \* a List under way: the length it read, or None
    current,   \* a scan has answered and nothing has changed since it began
    changes

vars == <<content, disk, mounted, sources, up, registry, saved, scan, reader, current, changes>>
worldVars == <<content, disk, mounted, sources, up, changes>>

NoScan == [pc |-> "idle", dirs |-> <<>>, list |-> {}, files |-> <<>>, groups |-> << >>,
           found |-> {}, outdated |-> FALSE]

TypeOK ==
    /\ content \in Contents
    /\ disk \in [Files -> Int] /\ mounted \in BOOLEAN /\ sources \in SourceSets
    /\ up \in BOOLEAN /\ current \in BOOLEAN /\ changes \in 0 .. MaxChanges
    /\ DOMAIN scan = Scans
    /\ \A s \in Scans : scan[s].pc \in {"idle", "config", "walk", "assign", "save"}
    /\ \A m \in registry \cup saved : m.path \in Files /\ m.files \in [Files -> Nat]
    /\ reader \in Nat \cup {None}

WholeLength(f) == Len(HeaderCells(content[f]))
Complete(f)    == disk[f] = WholeLength(f)

Init ==
    /\ content \in Contents
    /\ \E n \in 0 .. WholeLength(Downloaded) :
            disk = [f \in Files |-> IF f = Downloaded THEN n ELSE WholeLength(f)]
    /\ mounted = TRUE
    /\ sources \in SourceSets
    /\ up = TRUE
    /\ registry = {} /\ saved = {}
    /\ scan = [s \in Scans |-> IF s = "auto" THEN [NoScan EXCEPT !.pc = "config"] ELSE NoScan]
    /\ reader = None
    /\ current = FALSE
    /\ changes = 0

-----------------------------------------------------------------------------
(* Files and directories.                                                  *)

Exists(f) == disk[f] >= 0 /\ (mounted \/ ~IsPrefix(Drive, Name[f].dir))

Present(f) == SubSeq(HeaderCells(content[f]), 1, disk[f])

\* WalkDir's visit to a target: hidden directories and those deeper than the
\* target's depth are skipped.
Visible(f, target) ==
    LET dir   == Name[f].dir
        below == SubSeq(dir, Len(target.path) + 1, Len(dir))
    IN /\ IsPrefix(target.path, dir)
       /\ \A i \in DOMAIN below : below[i] \notin HiddenDirs
       /\ target.depth >= 0 => Len(below) <= target.depth

\* os.Stat and the sizes of a group's files.
SumOf(sizes)  == FoldFunction(+, 0, sizes)
SizeOf(files) == SumOf([f \in Files |-> IF Exists(f) THEN files[f] * disk[f] ELSE 0])

-----------------------------------------------------------------------------
(* Configuration.                                                          *)

\* ensureScanDir, at the end of every load of the configuration.
ScanDirs(src) == IF App \in Range(src.scanDirs) THEN src.scanDirs ELSE <<App>> \o src.scanDirs

\* Mutant: the configured depth is used for the roots as well.
TargetsOneDepth(src) ==
    [i \in DOMAIN ScanDirs(src) |-> [path |-> ScanDirs(src)[i], depth |-> src.depth]]
        \o [i \in DOMAIN src.roots |-> [path |-> src.roots[i].path, depth |-> src.depth]]

modelTargets(src) ==
    [i \in DOMAIN ScanDirs(src) |-> [path |-> ScanDirs(src)[i], depth |-> src.depth]] \o src.roots

-----------------------------------------------------------------------------
(* A scan.                                                                 *)

Scanning(s) == scan[s].pc # "idle"
MayScan     == Overlap \/ \A s \in Scans : ~Scanning(s)

Begin(s) == scan' = [scan EXCEPT ![s] = [NoScan EXCEPT !.pc = "config"]]

\* A request for a scan; the daemon must be there to get it.
Rescan(s) ==
    /\ s \in Rescans /\ up /\ ~Scanning(s) /\ MayScan
    /\ Begin(s)
    /\ UNCHANGED <<worldVars, registry, saved, reader, current>>

\* What is current no longer is, and no scan under way will make it so.
Outdating(scans) == [s \in Scans |-> [scans[s] EXCEPT !.outdated = Scanning(s)]]

\* PUT /models/sources: UpdateConfig, then the scan.
PutSources(s, src) ==
    /\ s \in Rescans /\ up /\ ~Scanning(s) /\ MayScan /\ changes < MaxChanges
    /\ sources' = src
    /\ scan' = [Outdating(scan) EXCEPT ![s] = [NoScan EXCEPT !.pc = "config"]]
    /\ current' = FALSE
    /\ changes' = changes + 1
    /\ UNCHANGED <<content, disk, mounted, up, registry, saved, reader>>

\* cmdModel scan: the configured directories to any depth, nothing else.
Command ==
    /\ ~Scanning("command") /\ MayScan
    /\ Begin("command")
    /\ UNCHANGED <<worldVars, registry, saved, reader, current>>

\* scan(), and Scan for the command: the targets of the configuration now.
ReadConfig(s) ==
    /\ scan[s].pc = "config"
    /\ scan' = [scan EXCEPT ![s].pc = "walk",
                  ![s].dirs = IF s = "command"
                              THEN modelTargets([sources EXCEPT !.roots = <<>>, !.depth = -1])
                              ELSE modelTargets(sources),
                  ![s].files = IF s = "command" THEN <<>> ELSE sources.files]
    /\ UNCHANGED <<worldVars, registry, saved, reader, current>>

\* The next target's files, as its directories list them.
Walk(s) ==
    /\ scan[s].pc = "walk" /\ scan[s].list = {} /\ scan[s].dirs # <<>>
    /\ scan' = [scan EXCEPT
                  ![s].dirs = Tail(@),
                  ![s].list = {f \in Files : Exists(f) /\ Visible(f, Head(scan[s].dirs))}]
    /\ UNCHANGED <<worldVars, registry, saved, reader, current>>

groupKey(f) == <<Name[f].dir, Name[f].stem>>
NewGroup    == [files |-> [f \in Files |-> 0], primary |-> None, total |-> 0, arch |-> <<>>]

KeyArchitecture == <<1>>
Architecture(h) == String(h, KeyArchitecture)

\* readMeta: gguf.Open of what the file has now.
readMeta(f) == IF Exists(f) THEN readHeader(Present(f)) ELSE Unread

\* The group f belongs to, with f as one of its files.
Joined(groups, f) ==
    LET g == IF groupKey(f) \in DOMAIN groups THEN groups[groupKey(f)] ELSE NewGroup
    IN [g EXCEPT !.files[f] = @ + 1, !.total = IF Name[f].index > 0 THEN Name[f].total ELSE 1]

\* Mutant: every shard is a primary.
AddAnyPrimary(groups, f) ==
    LET h == readMeta(f)
        n == Joined(groups, f)
    IN [k \in DOMAIN groups \cup {groupKey(f)} |->
           IF k # groupKey(f) THEN groups[k]
           ELSE IF h.ok THEN [n EXCEPT !.primary = f, !.arch = Architecture(h)] ELSE n]

addFile(groups, f) ==
    LET h == readMeta(f)
        n == Joined(groups, f)
    IN [k \in DOMAIN groups \cup {groupKey(f)} |->
           IF k # groupKey(f) THEN groups[k]
           ELSE IF Name[f].index <= 1 /\ h.ok THEN [n EXCEPT !.primary = f, !.arch = Architecture(h)]
           ELSE n]

\* Files are visited in the order of their paths.
Visit(s) ==
    /\ scan[s].pc = "walk"
    /\ \E f \in scan[s].list :
          /\ \A g \in scan[s].list : WalkOrder[f] <= WalkOrder[g]
          /\ scan' = [scan EXCEPT ![s].list = @ \ {f}, ![s].groups = addFile(@, f)]
    /\ UNCHANGED <<worldVars, registry, saved, reader, current>>

\* A file of the configuration, when it is there.
VisitFile(s) ==
    /\ scan[s].pc = "walk" /\ scan[s].list = {} /\ scan[s].dirs = <<>> /\ scan[s].files # <<>>
    /\ scan' = [scan EXCEPT
                  ![s].files = Tail(@),
                  ![s].groups = IF Exists(Head(scan[s].files)) THEN addFile(@, Head(scan[s].files)) ELSE @]
    /\ UNCHANGED <<worldVars, registry, saved, reader, current>>

toModel(g) ==
    [path |-> g.primary, files |-> g.files, total |-> g.total, size |-> SizeOf(g.files), arch |-> g.arch]

Models(groups) == {toModel(groups[k]) : k \in {k \in DOMAIN groups : groups[k].primary # None}}

\* Mutant: the scan at start-up replaces the list with whatever it found.
CollectReplacing(s) ==
    /\ scan[s].pc = "walk" /\ scan[s].list = {} /\ scan[s].dirs = <<>> /\ scan[s].files = <<>>
    /\ LET found == Models(scan[s].groups)
       IN scan' = [scan EXCEPT ![s] =
                     [@ EXCEPT !.pc = IF s = "command" THEN "save" ELSE "assign", !.found = found, !.groups = << >>]]
    /\ UNCHANGED <<worldVars, registry, saved, reader, current>>

\* The end of ScanTargets.  autoScan leaves the registry alone when nothing
\* is found; the command has no registry but the file.
Collect(s) ==
    /\ scan[s].pc = "walk" /\ scan[s].list = {} /\ scan[s].dirs = <<>> /\ scan[s].files = <<>>
    /\ LET found == Models(scan[s].groups)
       IN scan' = [scan EXCEPT ![s] =
                     IF s = "auto" /\ found = {} THEN NoScan
                     ELSE [@ EXCEPT !.pc = IF s = "command" THEN "save" ELSE "assign",
                                    !.found = found, !.groups = << >>]]
    /\ UNCHANGED <<worldVars, registry, saved, reader, current>>

\* Replace: first the list in memory.
Assign(s) ==
    /\ scan[s].pc = "assign"
    /\ registry' = scan[s].found
    /\ current' = (current \/ ~scan[s].outdated)
    /\ scan' = [scan EXCEPT ![s] = [NoScan EXCEPT !.pc = "save"]]
    /\ UNCHANGED <<worldVars, saved, reader>>

\* Then save, through a temporary file; it may fail.
Save(s) ==
    /\ scan[s].pc = "save"
    /\ saved' \in {saved, IF s = "command" THEN scan[s].found ELSE registry}
    /\ scan' = [scan EXCEPT ![s] = NoScan]
    /\ UNCHANGED <<worldVars, registry, reader, current>>

ScanStep(s) == ReadConfig(s) \/ Walk(s) \/ Visit(s) \/ VisitFile(s) \/ Collect(s) \/ Assign(s) \/ Save(s)

-----------------------------------------------------------------------------
(* List takes no lock either.  Its append reads the header of r.models, of *)
(* which the length and the array are words of their own, and Replace      *)
(* writes that header beside it: a data race.  ListBegin reads the length, *)
(* ListEnd the array.  A List that meets no assignment reads one header,   *)
(* and is left out.                                                        *)

ListBegin ==
    /\ up /\ reader = None /\ \E s \in Scans : scan[s].pc = "assign"
    /\ reader' = Cardinality(registry)
    /\ UNCHANGED <<worldVars, registry, saved, scan, current>>

ListEnd ==
    /\ reader # None
    /\ reader' = None
    /\ UNCHANGED <<worldVars, registry, saved, scan, current>>

-----------------------------------------------------------------------------
(* Around the daemon.                                                      *)

Change(newDisk, newMounted) ==
    /\ changes < MaxChanges
    /\ changes' = changes + 1
    /\ disk' = newDisk
    /\ mounted' = newMounted
    /\ current' = FALSE
    /\ scan' = Outdating(scan)
    /\ UNCHANGED <<content, sources, up, registry, saved, reader>>

\* A file is removed, or is there whole.
SetFile(f, n) == mounted /\ disk[f] # n /\ Change([disk EXCEPT ![f] = n], mounted)
Mount         == Change(disk, ~mounted)

Kill ==
    /\ up /\ changes < MaxChanges
    /\ changes' = changes + 1
    /\ up' = FALSE /\ current' = FALSE /\ reader' = None
    /\ scan' = [s \in Scans |-> IF s = "command" THEN scan[s] ELSE NoScan]
    /\ UNCHANGED <<content, disk, mounted, sources, registry, saved>>

\* Mutant: the registry starts empty.
StartEmpty ==
    /\ ~up
    /\ up' = TRUE /\ registry' = {}
    /\ scan' = [scan EXCEPT !["auto"] = [NoScan EXCEPT !.pc = "config"]]
    /\ UNCHANGED <<content, disk, mounted, sources, saved, reader, current, changes>>

\* NewRegistry, then server.New starts autoScan.
Start ==
    /\ ~up /\ MayScan
    /\ up' = TRUE /\ registry' = saved
    /\ scan' = [scan EXCEPT !["auto"] = [NoScan EXCEPT !.pc = "config"]]
    /\ UNCHANGED <<content, disk, mounted, sources, saved, reader, current, changes>>

-----------------------------------------------------------------------------
Next ==
    \/ \E s \in Rescans : Rescan(s) \/ \E src \in SourceSets : PutSources(s, src)
    \/ Command
    \/ \E s \in Scans : ScanStep(s)
    \/ ListBegin \/ ListEnd
    \/ \E f \in Changing : \E n \in {-1, WholeLength(f)} : SetFile(f, n)
    \/ Mount \/ Kill \/ Start

Spec == Init /\ [][Next]_vars
-----------------------------------------------------------------------------
(* Properties.                                                             *)

\* What a scan of the sources should list, said without walks and groups.
Listed ==
    {f \in Files : /\ Exists(f)
                   /\ \/ \E d \in {App} \cup Range(sources.scanDirs) :
                            Visible(f, [path |-> d, depth |-> sources.depth])
                      \/ \E root \in Range(sources.roots) : Visible(f, root)
                      \/ f \in Range(sources.files)}

\* The files of one model: a file that is no shard, or the shards of one split.
SameModel(f, g) == f = g \/ /\ Name[f].index > 0 /\ Name[g].index > 0
                            /\ [Name[f] EXCEPT !.index = 0] = [Name[g] EXCEPT !.index = 0]

Expected ==
    {LET files == [g \in Files |-> IF g \in Listed /\ SameModel(f, g) THEN 1 ELSE 0]
     IN [path |-> f, files |-> files, total |-> IF Name[f].index > 0 THEN Name[f].total ELSE 1,
         size |-> SizeOf(files), arch |-> String([metadata |-> HeaderData(content[f])], KeyArchitecture)] :
     f \in {f \in Listed : Complete(f) /\ Name[f].index <= 1}}

\* When a scan has replaced the registry and neither the files nor the sources
\* have changed since it began, the registry has exactly one model for each
\* readable file or split the sources reach, with all its files and their
\* architecture (models.go 139-228, management.go 306-354).
RescanCurrent == up /\ current => registry = Expected

\* A header that is all there is read as it was written, and any part of it
\* is refused, whatever arrays it has to skip (gguf.go 176-357).
ReadsAsWritten ==
    \A f \in Files : disk[f] >= 0 =>
        readHeader(Present(f)) = IF Complete(f)
                                 THEN [ok |-> TRUE, metadata |-> HeaderData(content[f])]
                                 ELSE Unread

\* Only a scan somebody asked for empties a list that is not: neither a kill
\* and a start nor the scan that follows it does, whatever is unmounted or
\* removed by then (management.go 315-325).  It is about a list that has been
\* saved: what was found since, and could not be, a kill may well lose; and it
\* says nothing of a list that only gets shorter.
StartKeepsModels ==
    [][registry' = {} /\ registry # {} /\ saved # {} =>
          \E s \in Rescans : scan[s].pc = "assign" /\ scan[s].found = {}]_vars

-----------------------------------------------------------------------------
(* What RescanCurrent needs of the names and the sources: an instance has   *)
(* them, and the proof takes them as hypotheses.                            *)

\* The models have names of their own: files of one directory and stem are
\* shards of one split, which has one first shard.
NamesApart ==
    \A f, g \in Files : groupKey(f) = groupKey(g) /\ f # g =>
        SameModel(f, g) /\ ~(Name[f].index <= 1 /\ Name[g].index <= 1)

\* No file is reached twice by the targets and files that a scan goes through.
Once(dirs, list, files) ==
    /\ \A f \in Files : \A i, j \in DOMAIN dirs : Visible(f, dirs[i]) /\ Visible(f, dirs[j]) => i = j
    /\ \A f \in list : (\A i \in DOMAIN dirs : ~Visible(f, dirs[i])) /\ f \notin Range(files)
    /\ \A f \in Range(files) : \A i \in DOMAIN dirs : ~Visible(f, dirs[i])
    /\ \A i, j \in DOMAIN files : files[i] = files[j] => i = j

ReachedOnce == \A src \in SourceSets : Once(modelTargets(src), {}, src.files)

-----------------------------------------------------------------------------
(* Claims the code does not keep.                                          *)

\* List returns the registered models (models.go:74), not as many of the new
\* ones as there were before the registry was replaced.
ListIsWhole == [][reader # None /\ reader' = None /\ up' => Cardinality(registry) = reader]_vars

\* After `model scan`, the file has what the sources reach (main.go:502 sends
\* the user there for a model that is missing).
CommandFindsAll ==
    [][scan["command"].pc = "save" /\ ~scan["command"].outdated /\ saved' = scan["command"].found
          => saved' = Expected]_vars
=============================================================================

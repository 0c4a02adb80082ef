-------------------------- MODULE ModelScanProofs ---------------------------
(***************************************************************************)
(* For any files, directories and sources: a registry is only emptied by a *)
(* scan somebody asked for; and a scan that nothing disturbs lists just    *)
(* what the sources reach, if headers are read as they were written, no    *)
(* two models share a name and no source reaches a file twice.  The third  *)
(* part is about StateFile.                                                *)
(***************************************************************************)
EXTENDS ModelScan, StateFile, SequenceTheorems, TLAPS

\* What a scan goes through: the configured directories and roots.
Targets ==
    [path : {App} \cup UNION {Range(src.scanDirs) : src \in SourceSets},
     depth : {-1} \cup {src.depth : src \in SourceSets}] \cup UNION {Range(src.roots) : src \in SourceSets}

\* The state of a scan.
Record(pc, dirs, list, files, groups, found, outdated) ==
    [pc |-> pc, dirs |-> dirs, list |-> list, files |-> files, groups |-> groups, found |-> found,
     outdated |-> outdated]

IsRecord(r) == r = Record(r.pc, r.dirs, r.list, r.files, r.groups, r.found, r.outdated)

IsScan(r) ==
    /\ IsRecord(r)
    /\ r.dirs \in Seq(Targets) /\ r.files \in Seq(Files)
    /\ r.list \subseteq Files /\ r.outdated \in BOOLEAN
    /\ r.pc \in {"idle", "config", "walk", "assign", "save"}

Shape ==
    /\ sources \in SourceSets
    /\ scan = [s \in Scans |-> scan[s]] /\ \A s \in Scans : IsScan(scan[s])
    /\ scan["command"].pc # "assign"

-----------------------------------------------------------------------------
(* Part 1: what empties a registry.                                        *)

\* A scan at start-up that has found nothing is over.
AutoFinds == scan["auto"].pc = "assign" => scan["auto"].found # {}

\* A scan's state may become any record of this kind.
Becomes(s, r) == scan' = [scan EXCEPT ![s] = r]

\* The targets of a configuration are targets.
LEMMA TargetsAre ==
    ASSUME NEW src \in SourceSets
    PROVE  /\ modelTargets(src) \in Seq(Targets)
           /\ modelTargets([src EXCEPT !.roots = <<>>, !.depth = -1]) \in Seq(Targets)
<1>1. src.scanDirs \in Seq(Range(src.scanDirs)) /\ src.roots \in Seq(Range(src.roots))
  BY ModelScanAssumption
<1> DEFINE Paths == {App} \cup UNION {Range(c.scanDirs) : c \in SourceSets}
           Depths == {-1} \cup {c.depth : c \in SourceSets}
<1>2. src.scanDirs \in Seq(Paths) /\ <<App>> \in Seq(Paths)
  <2>1. Range(src.scanDirs) \subseteq Paths
    OBVIOUS
  <2> QED  BY <1>1, <2>1, SeqMonotonic
<1>3. ScanDirs(src) \in Seq(Paths)
  <2>1. <<App>> \o src.scanDirs \in Seq(Paths)
    BY <1>2, ConcatProperties
  <2> QED  BY <1>2, <2>1 DEF ScanDirs
<1>4. src.roots \in Seq(Targets) /\ <<>> \in Seq(Targets)
  <2>1. Range(src.roots) \subseteq Targets
    BY DEF Targets
  <2> QED  BY <1>1, <2>1
<1>5. \A d \in Depths, dirs \in Seq(Paths) :
         [i \in DOMAIN dirs |-> [path |-> dirs[i], depth |-> d]] \in Seq(Targets)
  <2> SUFFICES ASSUME NEW d \in Depths, NEW dirs \in Seq(Paths)
               PROVE  [i \in DOMAIN dirs |-> [path |-> dirs[i], depth |-> d]] \in Seq(Targets)
    OBVIOUS
  <2>1. DOMAIN dirs = 1..Len(dirs) /\ Len(dirs) \in Nat /\ \A i \in DOMAIN dirs : dirs[i] \in Paths
    OBVIOUS
  <2>2. \A i \in DOMAIN dirs : [path |-> dirs[i], depth |-> d] \in Targets
    BY <2>1 DEF Targets
  <2> QED  BY <2>1, <2>2
<1> DEFINE bare == [src EXCEPT !.roots = <<>>, !.depth = -1]
<1>6. src = [scanDirs |-> src.scanDirs, depth |-> src.depth, roots |-> src.roots, files |-> src.files]
  BY ModelScanAssumption
<1>7. bare = [scanDirs |-> src.scanDirs, depth |-> -1, roots |-> <<>>, files |-> src.files]
  <2>1. ASSUME NEW q, q = [src EXCEPT !.roots = <<>>, !.depth = -1]
        PROVE  q = [scanDirs |-> src.scanDirs, depth |-> -1, roots |-> <<>>, files |-> src.files]
    BY <1>6, <2>1
  <2> QED  BY <2>1, Zenon
<1>8. bare.scanDirs = src.scanDirs /\ bare.depth = -1 /\ bare.roots = <<>>
  BY <1>7
<1>9. ScanDirs(bare) = ScanDirs(src)
  BY <1>8 DEF ScanDirs
<1>10. src.depth \in Depths /\ -1 \in Depths
  OBVIOUS
<1> HIDE DEF bare, Paths, Depths
<1>11. modelTargets(src) \in Seq(Targets)
  BY <1>3, <1>4, <1>5, <1>10 DEF modelTargets
<1>12. modelTargets(bare) \in Seq(Targets)
  BY <1>3, <1>4, <1>5, <1>8, <1>9, <1>10 DEF modelTargets
<1> QED  BY <1>11, <1>12 DEF bare

\* What the updates of a scan's state make of it; and what its fields are.
LEMMA WalkRecord ==
    ASSUME NEW r, IsRecord(r), NEW d, NEW l
    PROVE  [r EXCEPT !.dirs = d, !.list = l]
              = Record(r.pc, d, l, r.files, r.groups, r.found, r.outdated)
<1>1. ASSUME NEW q, q = [r EXCEPT !.dirs = d, !.list = l]
      PROVE  q = Record(r.pc, d, l, r.files, r.groups, r.found, r.outdated)
  BY <1>1 DEF IsRecord, Record
<1> QED  BY <1>1, Zenon

LEMMA VisitRecord ==
    ASSUME NEW r, IsRecord(r), NEW l, NEW g
    PROVE  [r EXCEPT !.list = l, !.groups = g]
              = Record(r.pc, r.dirs, l, r.files, g, r.found, r.outdated)
<1>1. ASSUME NEW q, q = [r EXCEPT !.list = l, !.groups = g]
      PROVE  q = Record(r.pc, r.dirs, l, r.files, g, r.found, r.outdated)
  BY <1>1 DEF IsRecord, Record
<1> QED  BY <1>1, Zenon

LEMMA FileRecord ==
    ASSUME NEW r, IsRecord(r), NEW f, NEW g
    PROVE  [r EXCEPT !.files = f, !.groups = g]
              = Record(r.pc, r.dirs, r.list, f, g, r.found, r.outdated)
<1>1. ASSUME NEW q, q = [r EXCEPT !.files = f, !.groups = g]
      PROVE  q = Record(r.pc, r.dirs, r.list, f, g, r.found, r.outdated)
  BY <1>1 DEF IsRecord, Record
<1> QED  BY <1>1, Zenon

LEMMA OutdatedRecord ==
    ASSUME NEW r, IsRecord(r), NEW o
    PROVE  [r EXCEPT !.outdated = o]
              = Record(r.pc, r.dirs, r.list, r.files, r.groups, r.found, o)
<1>1. ASSUME NEW q, q = [r EXCEPT !.outdated = o]
      PROVE  q = Record(r.pc, r.dirs, r.list, r.files, r.groups, r.found, o)
  BY <1>1 DEF IsRecord, Record
<1> QED  BY <1>1, Zenon

LEMMA Fields ==
    ASSUME NEW pc, NEW dirs, NEW list, NEW files, NEW groups, NEW found, NEW outdated, NEW r,
           r = Record(pc, dirs, list, files, groups, found, outdated)
    PROVE  /\ r.pc = pc /\ r.dirs = dirs /\ r.list = list /\ r.files = files
           /\ r.groups = groups /\ r.found = found /\ r.outdated = outdated
           /\ IsRecord(r)
BY DEF IsRecord, Record

LEMMA NoScanIs ==
    /\ NoScan = Record("idle", <<>>, {}, <<>>, << >>, {}, FALSE)
    /\ \A label \in {"config", "save"} :
          [NoScan EXCEPT !.pc = label] = Record(label, <<>>, {}, <<>>, << >>, {}, FALSE)
    /\ IsScan(NoScan) /\ NoScan.pc = "idle" /\ ~NoScan.outdated
    /\ \A label \in {"config", "save"} :
          /\ IsScan([NoScan EXCEPT !.pc = label]) /\ [NoScan EXCEPT !.pc = label].pc = label
          /\ ~[NoScan EXCEPT !.pc = label].outdated
<1>1. NoScan = Record("idle", <<>>, {}, <<>>, << >>, {}, FALSE)
  BY DEF NoScan, Record
<1>2. ASSUME NEW label, NEW q, q = [NoScan EXCEPT !.pc = label]
      PROVE  q = Record(label, <<>>, {}, <<>>, << >>, {}, FALSE)
  BY <1>2 DEF NoScan, Record
<1>3. ASSUME NEW label \in {"idle", "config", "save"}, NEW r,
             r = Record(label, <<>>, {}, <<>>, << >>, {}, FALSE)
      PROVE  IsScan(r) /\ r.pc = label /\ ~r.outdated
  <2>1. /\ r.pc = label /\ r.dirs = <<>> /\ r.list = {} /\ r.files = <<>> /\ r.groups = << >> /\ r.found = {}
        /\ r.outdated = FALSE
    BY <1>3 DEF Record
  <2>2. IsRecord(r)
    BY <1>3, <2>1 DEF IsRecord, Record
  <2>3. r.dirs \in Seq(Targets) /\ r.files \in Seq(Files)
    BY <2>1, EmptySeq
  <2> QED  BY <2>1, <2>2, <2>3 DEF IsScan
<1>4. \A label : [NoScan EXCEPT !.pc = label] = Record(label, <<>>, {}, <<>>, << >>, {}, FALSE)
  BY <1>2, Zenon
<1> QED  BY <1>1, <1>3, <1>4

\* What a scan's configuration has it go through.
DirsOf(s)  == IF s = "command" THEN modelTargets([sources EXCEPT !.roots = <<>>, !.depth = -1])
              ELSE modelTargets(sources)
FilesOf(s) == IF s = "command" THEN <<>> ELSE sources.files

LEMMA ConfigurationIs ==
    ASSUME sources \in SourceSets, NEW s
    PROVE  DirsOf(s) \in Seq(Targets) /\ FilesOf(s) \in Seq(Files)
<1>1. sources.files \in Seq(Files) /\ <<>> \in Seq(Files)
  BY EmptySeq, ModelScanAssumption
<1>2. modelTargets(sources) \in Seq(Targets)
      /\ modelTargets([sources EXCEPT !.roots = <<>>, !.depth = -1]) \in Seq(Targets)
  BY TargetsAre, Zenon
<1> QED  BY <1>1, <1>2, Zenon DEF DirsOf, FilesOf

\* What each step of a scan makes of its state.
LEMMA StepsMake ==
    ASSUME NEW s \in Scans, scan = [t \in Scans |-> scan[t]], IsScan(scan[s]),
           NEW r, r = scan[s]
    PROVE  /\ ReadConfig(s) =>
                Becomes(s, Record("walk", DirsOf(s), r.list, FilesOf(s), r.groups, r.found, r.outdated))
           /\ Walk(s) => LET list == {f \in Files : Exists(f) /\ Visible(f, Head(r.dirs))}
                         IN Becomes(s, Record("walk", Tail(r.dirs), list, r.files, r.groups, r.found, r.outdated))
           /\ Visit(s) => \E f \in r.list :
                Becomes(s, Record("walk", r.dirs, r.list \ {f}, r.files, addFile(r.groups, f), r.found, r.outdated))
           /\ VisitFile(s) =>
                LET f == Head(r.files)
                    groups == IF Exists(f) THEN addFile(r.groups, f) ELSE r.groups
                IN Becomes(s, Record("walk", r.dirs, r.list, Tail(r.files), groups, r.found, r.outdated))
           /\ Collect(s) =>
                LET found == Models(r.groups)
                    label == IF s = "command" THEN "save" ELSE "assign"
                IN IF s = "auto" /\ found = {} THEN Becomes(s, NoScan)
                   ELSE Becomes(s, Record(label, r.dirs, r.list, r.files, << >>, found, r.outdated))
           /\ Assign(s) => Becomes(s, [NoScan EXCEPT !.pc = "save"])
           /\ Save(s) => Becomes(s, NoScan)
<1>1. IsRecord(r)
  BY DEF IsScan
<1>2. ReadConfig(s) =>
         Becomes(s, Record("walk", DirsOf(s), r.list, FilesOf(s), r.groups, r.found, r.outdated))
  <2> SUFFICES ASSUME ReadConfig(s)
               PROVE  Becomes(s, Record("walk", DirsOf(s), r.list, FilesOf(s), r.groups, r.found, r.outdated))
    OBVIOUS
  <2>1. Becomes(s, [r EXCEPT !.pc = "walk", !.dirs = DirsOf(s), !.files = FilesOf(s)])
    BY DEF ReadConfig, Becomes, DirsOf, FilesOf
  <2>2. ASSUME NEW q, q = [r EXCEPT !.pc = "walk", !.dirs = DirsOf(s), !.files = FilesOf(s)]
        PROVE  q = Record("walk", DirsOf(s), r.list, FilesOf(s), r.groups, r.found, r.outdated)
    BY <1>1, <2>2 DEF IsRecord, Record
  <2> QED  BY <2>1, <2>2, Zenon
<1>3. Walk(s) => LET list == {f \in Files : Exists(f) /\ Visible(f, Head(r.dirs))}
                 IN Becomes(s, Record("walk", Tail(r.dirs), list, r.files, r.groups, r.found, r.outdated))
  <2> DEFINE list == {f \in Files : Exists(f) /\ Visible(f, Head(r.dirs))}
  <2> SUFFICES ASSUME Walk(s)
               PROVE  Becomes(s, Record("walk", Tail(r.dirs), list, r.files, r.groups, r.found, r.outdated))
    OBVIOUS
  <2>1. Becomes(s, [r EXCEPT !.dirs = Tail(r.dirs), !.list = list]) /\ r.pc = "walk"
    BY DEF Walk, Becomes
  <2> HIDE DEF list
  <2>2. [r EXCEPT !.dirs = Tail(r.dirs), !.list = list]
          = Record(r.pc, Tail(r.dirs), list, r.files, r.groups, r.found, r.outdated)
    BY <1>1, WalkRecord
  <2> QED  BY <2>1, <2>2
<1>4. Visit(s) => \E f \in r.list :
         Becomes(s, Record("walk", r.dirs, r.list \ {f}, r.files, addFile(r.groups, f), r.found, r.outdated))
  <2> SUFFICES ASSUME Visit(s)
               PROVE  \E f \in r.list : Becomes(s, Record("walk", r.dirs, r.list \ {f}, r.files,
                                                         addFile(r.groups, f), r.found, r.outdated))
    OBVIOUS
  <2>1. PICK f \in r.list : Becomes(s, [r EXCEPT !.list = r.list \ {f}, !.groups = addFile(r.groups, f)])
    BY DEF Visit, Becomes
  <2>2. [r EXCEPT !.list = r.list \ {f}, !.groups = addFile(r.groups, f)]
          = Record(r.pc, r.dirs, r.list \ {f}, r.files, addFile(r.groups, f), r.found, r.outdated)
    BY <1>1, VisitRecord
  <2>3. r.pc = "walk"
    BY DEF Visit
  <2> QED  BY <2>1, <2>2, <2>3
<1>5. VisitFile(s) =>
         LET f == Head(r.files)
             groups == IF Exists(f) THEN addFile(r.groups, f) ELSE r.groups
         IN Becomes(s, Record("walk", r.dirs, r.list, Tail(r.files), groups, r.found, r.outdated))
  <2> DEFINE f == Head(r.files)
             groups == IF Exists(f) THEN addFile(r.groups, f) ELSE r.groups
  <2> SUFFICES ASSUME VisitFile(s)
               PROVE  Becomes(s, Record("walk", r.dirs, r.list, Tail(r.files), groups, r.found, r.outdated))
    OBVIOUS
  <2>1. Becomes(s, [r EXCEPT !.files = Tail(r.files), !.groups = groups]) /\ r.pc = "walk"
    BY DEF VisitFile, Becomes
  <2> HIDE DEF groups
  <2>2. [r EXCEPT !.files = Tail(r.files), !.groups = groups]
          = Record(r.pc, r.dirs, r.list, Tail(r.files), groups, r.found, r.outdated)
    BY <1>1, FileRecord
  <2> QED  BY <2>1, <2>2
<1>6. Collect(s) =>
         LET found == Models(r.groups)
             label == IF s = "command" THEN "save" ELSE "assign"
         IN IF s = "auto" /\ found = {} THEN Becomes(s, NoScan)
            ELSE Becomes(s, Record(label, r.dirs, r.list, r.files, << >>, found, r.outdated))
  <2> DEFINE found == Models(r.groups)
             label == IF s = "command" THEN "save" ELSE "assign"
  <2>1. Collect(s) => IF s = "auto" /\ found = {} THEN Becomes(s, NoScan)
                      ELSE Becomes(s, [r EXCEPT !.pc = label, !.found = found, !.groups = << >>])
    BY DEF Collect, Becomes
  <2> HIDE DEF found, label
  <2>2. ASSUME NEW q, q = [r EXCEPT !.pc = label, !.found = found, !.groups = << >>]
        PROVE  q = Record(label, r.dirs, r.list, r.files, << >>, found, r.outdated)
    BY <1>1, <2>2 DEF IsRecord, Record
  <2>3. Collect(s) => IF s = "auto" /\ found = {} THEN Becomes(s, NoScan)
                      ELSE Becomes(s, Record(label, r.dirs, r.list, r.files, << >>, found, r.outdated))
    BY <2>1, <2>2
  <2> QED  BY <2>3 DEF found, label
<1>7. (Assign(s) => Becomes(s, [NoScan EXCEPT !.pc = "save"])) /\ (Save(s) => Becomes(s, NoScan))
  BY DEF Assign, Save, Becomes
<1> QED  BY <1>2, <1>3, <1>4, <1>5, <1>6, <1>7

\* What every step of a scan keeps.
LEMMA ScanSteps ==
    ASSUME Shape, NEW s \in Scans, ScanStep(s)
    PROVE  /\ \E q : IsScan(q) /\ Becomes(s, q) /\ (s = "command" => q.pc # "assign")
                     /\ (s = "auto" /\ q.pc = "assign" => q.found # {})
           /\ UNCHANGED worldVars
           /\ registry' # registry => scan[s].pc = "assign" /\ registry' = scan[s].found
<1> DEFINE Goal == \E q : IsScan(q) /\ Becomes(s, q) /\ (s = "command" => q.pc # "assign")
                          /\ (s = "auto" /\ q.pc = "assign" => q.found # {})
<1>1. IsScan(scan[s]) /\ sources \in SourceSets /\ scan = [t \in Scans |-> scan[t]]
  BY DEF Shape
<1>2. PICK r : r = scan[s]
  OBVIOUS
<1>3. r.dirs \in Seq(Targets) /\ r.files \in Seq(Files) /\ r.list \subseteq Files /\ r.outdated \in BOOLEAN
  BY <1>1, <1>2 DEF IsScan
<1>4. \A dirs \in Seq(Targets), list \in SUBSET Files, files \in Seq(Files) : \A groups, found :
         LET q == Record("walk", dirs, list, files, groups, found, r.outdated)
         IN Becomes(s, q) => Goal
  <2> SUFFICES ASSUME NEW dirs \in Seq(Targets), NEW list \in SUBSET Files, NEW files \in Seq(Files),
                      NEW groups, NEW found, NEW q,
                      q = Record("walk", dirs, list, files, groups, found, r.outdated), Becomes(s, q)
               PROVE  Goal
    OBVIOUS
  <2>1. IsScan(q) /\ q.pc = "walk"
    BY <1>3, Fields DEF IsScan
  <2> QED  BY <2>1
<1>5. ASSUME ReadConfig(s) PROVE Goal
  BY <1>1, <1>2, <1>3, <1>4, <1>5, StepsMake, ConfigurationIs
<1>6. ASSUME Walk(s) PROVE Goal
  <2>1. Tail(r.dirs) \in Seq(Targets)
    BY <1>2, <1>3, <1>6 DEF Walk
  <2> DEFINE list == {f \in Files : Exists(f) /\ Visible(f, Head(r.dirs))}
  <2>2. list \in SUBSET Files /\ Becomes(s, Record("walk", Tail(r.dirs), list, r.files, r.groups, r.found, r.outdated))
    BY <1>1, <1>2, <1>6, StepsMake
  <2> HIDE DEF list
  <2> QED  BY <1>3, <1>4, <2>1, <2>2
<1>7. ASSUME Visit(s) PROVE Goal
  <2>1. PICK f \in r.list :
          Becomes(s, Record("walk", r.dirs, r.list \ {f}, r.files, addFile(r.groups, f), r.found, r.outdated))
    BY <1>1, <1>2, <1>7, StepsMake
  <2> QED  BY <1>3, <1>4, <2>1
<1>8. ASSUME VisitFile(s) PROVE Goal
  <2>1. Tail(r.files) \in Seq(Files)
    BY <1>2, <1>3, <1>8 DEF VisitFile
  <2>2. \E groups : Becomes(s, Record("walk", r.dirs, r.list, Tail(r.files), groups, r.found, r.outdated))
    BY <1>1, <1>2, <1>8, StepsMake
  <2> QED  BY <1>3, <1>4, <2>1, <2>2
<1>9. ASSUME Collect(s) PROVE Goal
  <2> DEFINE found == Models(r.groups)
             label == IF s = "command" THEN "save" ELSE "assign"
  <2>1. IF s = "auto" /\ found = {} THEN Becomes(s, NoScan)
        ELSE Becomes(s, Record(label, r.dirs, r.list, r.files, << >>, found, r.outdated))
    BY <1>1, <1>2, <1>9, StepsMake
  <2> HIDE DEF found
  <2>2. CASE s = "auto" /\ found = {}
    BY <2>1, <2>2, NoScanIs
  <2>3. CASE ~(s = "auto" /\ found = {})
    <3>1. PICK q : q = Record(label, r.dirs, r.list, r.files, << >>, found, r.outdated)
      OBVIOUS
    <3>2. IsScan(q) /\ q.pc = label /\ q.found = found
      BY <1>3, <3>1, Fields DEF IsScan
    <3> QED  BY <2>1, <2>3, <3>1, <3>2
  <2> QED  BY <2>2, <2>3
<1>10. ASSUME Assign(s) \/ Save(s) PROVE Goal
  BY <1>1, <1>2, <1>10, StepsMake, NoScanIs
<1> HIDE DEF Goal
<1>11. Goal
  BY <1>5, <1>6, <1>7, <1>8, <1>9, <1>10 DEF ScanStep
<1>12. UNCHANGED worldVars /\ (registry' # registry => scan[s].pc = "assign" /\ registry' = scan[s].found)
  BY DEF ScanStep, ReadConfig, Walk, Visit, VisitFile, Collect, Assign, Save
<1> QED  BY <1>11, <1>12 DEF Goal

LEMMA OutdatedIs ==
    ASSUME Shape, NEW s \in Scans
    PROVE  /\ IsScan(Outdating(scan)[s]) /\ Outdating(scan)[s].outdated = Scanning(s)
           /\ Outdating(scan)[s].pc = scan[s].pc /\ Outdating(scan)[s].found = scan[s].found
           /\ Outdating(scan)[s] = [scan[s] EXCEPT !.outdated = Scanning(s)]
<1> DEFINE q == [scan[s] EXCEPT !.outdated = Scanning(s)]
<1>1. IsScan(scan[s]) /\ Outdating(scan)[s] = q /\ Scanning(s) \in BOOLEAN
  BY DEF Shape, Outdating, Scanning
<1>2. q = Record(scan[s].pc, scan[s].dirs, scan[s].list, scan[s].files, scan[s].groups, scan[s].found, Scanning(s))
  BY <1>1, OutdatedRecord, Zenon DEF IsScan
<1> HIDE DEF q
<1>3. IsScan(q) /\ q.outdated = Scanning(s) /\ q.pc = scan[s].pc /\ q.found = scan[s].found
  BY <1>1, <1>2, Fields DEF IsScan
<1> QED  BY <1>1, <1>3 DEF q

LEMMA ShapeStep == Shape /\ AutoFinds /\ [Next]_vars => Shape' /\ AutoFinds'
<1> SUFFICES ASSUME Shape, AutoFinds, [Next]_vars PROVE Shape' /\ AutoFinds'
  OBVIOUS
<1>1. "auto" \in Scans /\ "command" \in Scans /\ Rescans \subseteq Scans
      /\ "auto" \notin Rescans /\ "command" \notin Rescans
  BY ModelScanAssumption DEF Scans
<1>2. ASSUME NEW s \in Scans, NEW r, IsScan(r), Becomes(s, r), s = "command" => r.pc # "assign",
             s = "auto" /\ r.pc = "assign" => r.found # {}, sources' \in SourceSets
      PROVE  Shape' /\ AutoFinds'
  BY <1>1, <1>2 DEF Shape, AutoFinds, Becomes
<1>3. ASSUME NEW s \in Rescans, Rescan(s) PROVE Shape' /\ AutoFinds'
  <2>1. Becomes(s, [NoScan EXCEPT !.pc = "config"]) /\ sources' \in SourceSets
    BY <1>3 DEF Rescan, Begin, Becomes, worldVars, Shape
  <2> QED  BY <1>1, <1>2, <2>1, NoScanIs
<1>4. ASSUME NEW s \in Rescans, NEW src \in SourceSets, PutSources(s, src) PROVE Shape' /\ AutoFinds'
  <2> DEFINE r == [NoScan EXCEPT !.pc = "config"]
  <2>1. scan' = [Outdating(scan) EXCEPT ![s] = r] /\ sources' = src
    BY <1>4 DEF PutSources
  <2>2. scan' = [t \in Scans |-> IF t = s THEN r ELSE Outdating(scan)[t]]
    BY <1>1, <2>1 DEF Outdating
  <2>3. IsScan(r) /\ r.pc = "config"
    BY NoScanIs
  <2> HIDE DEF r
  <2>4. \A t \in Scans : scan'[t] = IF t = s THEN r ELSE Outdating(scan)[t]
    BY <2>2
  <2>5. (\A t \in Scans : IsScan(scan'[t])) /\ scan'["command"].pc # "assign" /\ sources' \in SourceSets
    <3>1. \A t \in Scans : IsScan(scan'[t])
      BY <2>3, <2>4, OutdatedIs
    <3>2. scan["command"].pc # "assign"
      BY DEF Shape
    <3>3. scan'["command"] = Outdating(scan)["command"]
      BY <1>1, <2>4
    <3>4. Outdating(scan)["command"].pc = scan["command"].pc
      BY <1>1, OutdatedIs
    <3> QED  BY <2>1, <3>1, <3>2, <3>3, <3>4
  <2>6. AutoFinds'
    BY <1>1, <2>3, <2>4, OutdatedIs DEF AutoFinds
  <2> QED  BY <2>2, <2>4, <2>5, <2>6 DEF Shape
<1>5. ASSUME Command PROVE Shape' /\ AutoFinds'
  <2>1. Becomes("command", [NoScan EXCEPT !.pc = "config"]) /\ sources' \in SourceSets
    BY <1>5 DEF Command, Begin, Becomes, worldVars, Shape
  <2> QED  BY <1>1, <1>2, <2>1, NoScanIs
<1>6. ASSUME NEW s \in Scans, ScanStep(s) PROVE Shape' /\ AutoFinds'
  BY <1>2, <1>6, ScanSteps DEF worldVars, Shape
<1>7. ASSUME ListBegin \/ ListEnd \/ UNCHANGED vars PROVE Shape' /\ AutoFinds'
  BY <1>7 DEF ListBegin, ListEnd, vars, worldVars, Shape, AutoFinds
<1>8. ASSUME NEW d, NEW m, Change(d, m) PROVE Shape' /\ AutoFinds'
  <2>1. scan' = Outdating(scan) /\ sources' = sources
    BY <1>8 DEF Change
  <2>2. Outdating(scan) = [s \in Scans |-> Outdating(scan)[s]]
    BY DEF Outdating
  <2> QED  BY <1>1, <2>1, <2>2, OutdatedIs DEF Shape, AutoFinds
<1>9. ASSUME Kill PROVE Shape' /\ AutoFinds'
  BY <1>1, <1>9, NoScanIs DEF Kill, Shape, AutoFinds
<1>10. ASSUME Start PROVE Shape' /\ AutoFinds'
  <2>1. Becomes("auto", [NoScan EXCEPT !.pc = "config"]) /\ sources' \in SourceSets
    BY <1>10 DEF Start, Becomes, Shape
  <2> QED  BY <1>1, <1>2, <2>1, NoScanIs
<1> QED  BY <1>3, <1>4, <1>5, <1>6, <1>7, <1>8, <1>9, <1>10 DEF Next, SetFile, Mount

LEMMA ShapeHolds == Spec => [](Shape /\ AutoFinds)
<1>1. Init => Shape /\ AutoFinds
  BY NoScanIs DEF Init, Shape, AutoFinds, Scans
<1> QED  BY <1>1, ShapeStep, PTL DEF Spec

\* A registry that is not empty is emptied by a scan that was asked for and
\* found nothing, for any sources and any overlap of scans, and not by a start
\* or the scan that follows it (management.go 315-325, models.go 46-72).
THEOREM ModelsAreKept == Spec => StartKeepsModels
<1> DEFINE Kept == registry' = {} /\ registry # {} /\ saved # {} =>
                      \E s \in Rescans : scan[s].pc = "assign" /\ scan[s].found = {}
<1>1. Shape /\ AutoFinds /\ [Next]_vars => [Kept]_vars
  <2> SUFFICES ASSUME Shape, AutoFinds, Next, registry' = {}, registry # {}, saved # {}
               PROVE  \E s \in Rescans : scan[s].pc = "assign" /\ scan[s].found = {}
    BY Zenon DEF Kept
  <2>1. PICK s \in Scans : ScanStep(s)
    BY DEF Next, Rescan, PutSources, Command, ListBegin, ListEnd, SetFile, Mount, Change, Kill, Start
  <2>2. scan[s].pc = "assign" /\ scan[s].found = {}
    BY <2>1, ScanSteps
  <2> QED  BY <2>2 DEF Scans, Shape, AutoFinds
<1> QED  BY <1>1, ShapeHolds, PTL DEF Spec, StartKeepsModels

-----------------------------------------------------------------------------
(* Part 2: what a scan finds.                                              *)

\* Who may be scanning for the daemon.
DaemonScans == Scans \ {"command"}

\* The files a scan is still to visit.
Remaining(dirs, list, files) ==
    list \cup {f \in Files : /\ Exists(f)
                             /\ \/ \E i \in DOMAIN dirs : Visible(f, dirs[i])
                                \/ f \in Range(files)}

Leads(f)   == Name[f].index <= 1 /\ Complete(f)
TotalOf(f) == IF Name[f].index > 0 THEN Name[f].total ELSE 1
ArchOf(f)  == String([metadata |-> HeaderData(content[f])], KeyArchitecture)

Group(files, primary, total, arch) == [files |-> files, primary |-> primary, total |-> total, arch |-> arch]
Members(V, k)                      == [f \in Files |-> IF f \in V /\ groupKey(f) = k THEN 1 ELSE 0]

\* The group that the files V make under the key k.
GroupOf(g, V, k) ==
    /\ g = Group(Members(V, k), g.primary, g.total, g.arch)
    /\ \A f \in V : groupKey(f) = k => g.total = TotalOf(f)
    /\ g.primary = None => \A f \in V : groupKey(f) = k => ~Leads(f)
    /\ g.primary # None => /\ g.primary \in V /\ groupKey(g.primary) = k /\ Leads(g.primary)
                           /\ g.arch = ArchOf(g.primary)

Grouped(groups, V) ==
    /\ DOMAIN groups = {groupKey(f) : f \in V}
    /\ \A k \in DOMAIN groups : GroupOf(groups[k], V, k)

\* A scan on its way has grouped the listed files it is past.
OnItsWay(dirs, list, files, groups) ==
    /\ Once(dirs, list, files)
    /\ Remaining(dirs, list, files) \subseteq Listed
    /\ Grouped(groups, Listed \ Remaining(dirs, list, files))

\* What a scan's state is when nothing has disturbed it.
Undisturbed(r) ==
    /\ r.pc = "config" => r.list = {} /\ r.groups = << >>
    /\ r.pc = "walk" => OnItsWay(r.dirs, r.list, r.files, r.groups)
    /\ r.pc = "assign" => r.found = Expected

\* One scan at a time, none without a daemon but the command's; a registry is
\* current only while no scan of older files or sources is under way.
Orderly ==
    /\ \A s, t \in Scans : Scanning(s) /\ Scanning(t) => s = t
    /\ ~up => ~current /\ \A s \in DaemonScans : ~Scanning(s)
    /\ \A s \in Scans : scan[s].outdated => Scanning(s)
    /\ \A s \in DaemonScans : scan[s].outdated => ~current

ScanInv == Orderly /\ (\A s \in DaemonScans : ~scan[s].outdated => Undisturbed(scan[s])) /\ RescanCurrent

\* The group a file joins: that of its key, or a new one.
LEMMA JoinedIs ==
    ASSUME NEW groups, NEW V \in SUBSET Files, NEW f \in Files \ V, Grouped(groups, V)
    PROVE  \E p, a :
              /\ Joined(groups, f) = Group(Members(V \cup {f}, groupKey(f)), p, TotalOf(f), a)
              /\ p = None => \A x \in V : groupKey(x) = groupKey(f) => ~Leads(x)
              /\ p # None => p \in V /\ groupKey(p) = groupKey(f) /\ Leads(p) /\ a = ArchOf(p)
<1> DEFINE k == groupKey(f)
           g == IF k \in DOMAIN groups THEN groups[k] ELSE NewGroup
<1>1. PICK p, a, t : /\ g = Group(Members(V, k), p, t, a)
                     /\ p = None => \A x \in V : groupKey(x) = k => ~Leads(x)
                     /\ p # None => p \in V /\ groupKey(p) = k /\ Leads(p) /\ a = ArchOf(p)
  <2>1. CASE k \in DOMAIN groups
    BY <2>1 DEF Grouped, GroupOf
  <2>2. CASE k \notin DOMAIN groups
    <3>1. \A x \in V : groupKey(x) # k
      BY <2>2 DEF Grouped
    <3>2. Members(V, k) = [x \in Files |-> 0]
      BY <3>1 DEF Members
    <3>3. g = Group(Members(V, k), None, 0, <<>>)
      BY <2>2, <3>2 DEF NewGroup, Group
    <3> QED  BY <3>1, <3>3
  <2> QED  BY <2>1, <2>2
<1>2. Joined(groups, f) = [g EXCEPT !.files[f] = @ + 1, !.total = TotalOf(f)]
  BY DEF Joined, TotalOf
<1> HIDE DEF g
<1>3. ASSUME NEW q, q = [g EXCEPT !.files[f] = @ + 1, !.total = TotalOf(f)]
      PROVE  q = Group([Members(V, k) EXCEPT ![f] = @ + 1], p, TotalOf(f), a)
  BY <1>1, <1>3 DEF Group
<1>4. [Members(V, k) EXCEPT ![f] = @ + 1] = Members(V \cup {f}, k)
  <2>1. Members(V, k)[f] = 0 /\ Members(V \cup {f}, k)[f] = 1
    BY DEF Members
  <2>2. \A x \in Files : x # f => Members(V, k)[x] = Members(V \cup {f}, k)[x]
    BY DEF Members
  <2>3. ASSUME NEW m, m = Members(V, k), NEW w, w = Members(V \cup {f}, k)
        PROVE  [m EXCEPT ![f] = m[f] + 1] = w
    <3>1. m = [x \in Files |-> m[x]] /\ w = [x \in Files |-> w[x]] /\ m[f] + 1 = w[f]
      BY <2>1, <2>3 DEF Members
    <3> QED  BY <2>2, <2>3, <3>1
  <2> QED  BY <2>3, Zenon
<1>5. Joined(groups, f) = Group(Members(V \cup {f}, k), p, TotalOf(f), a)
  BY <1>2, <1>3, <1>4, Zenon
<1> QED  BY <1>1, <1>5

\* A header is read as it was written; so is its architecture.
LEMMA MetaIs ==
    ASSUME ReadsAsWritten, NEW f \in Files, Exists(f)
    PROVE  (readMeta(f).ok <=> Complete(f)) /\ (Complete(f) => Architecture(readMeta(f)) = ArchOf(f))
<1>1. readMeta(f) = IF Complete(f) THEN [ok |-> TRUE, metadata |-> HeaderData(content[f])] ELSE Unread
  BY DEF ReadsAsWritten, readMeta, Exists
<1>2. CASE Complete(f)
  <2>1. readMeta(f).ok = TRUE /\ readMeta(f).metadata = HeaderData(content[f])
    BY <1>1, <1>2
  <2>2. [metadata |-> HeaderData(content[f])].metadata = HeaderData(content[f])
    OBVIOUS
  <2>3. Architecture(readMeta(f)) = ArchOf(f)
    BY <2>1, <2>2 DEF Architecture, ArchOf, String
  <2> QED  BY <1>2, <2>1, <2>3
<1>3. CASE ~Complete(f)
  BY <1>1, <1>3 DEF Unread
<1> QED  BY <1>2, <1>3

\* Files of one key agree on how many files their model has.
LEMMA TotalsAgree ==
    ASSUME NamesApart, NEW f \in Files, NEW g \in Files, groupKey(f) = groupKey(g)
    PROVE  TotalOf(f) = TotalOf(g)
<1>1. CASE f = g
  BY <1>1
<1>2. CASE f # g
  <2>1. Name[f].index > 0 /\ Name[g].index > 0
        /\ [Name[f] EXCEPT !.index = 0] = [Name[g] EXCEPT !.index = 0]
    BY <1>2 DEF NamesApart, SameModel
  <2>2. [Name[f] EXCEPT !.index = 0].total = Name[f].total /\ [Name[g] EXCEPT !.index = 0].total = Name[g].total
    BY ModelScanAssumption
  <2> QED  BY <2>1, <2>2 DEF TotalOf
<1> QED  BY <1>1, <1>2

\* A file that joins the files V makes the groups of one file more.
LEMMA FileJoins ==
    ASSUME NamesApart, ReadsAsWritten, NEW groups, NEW V \in SUBSET Files, NEW f \in Files \ V,
           Grouped(groups, V), Exists(f)
    PROVE  Grouped(addFile(groups, f), V \cup {f})
<1> DEFINE k == groupKey(f)
           W == V \cup {f}
           n == Joined(groups, f)
           h == readMeta(f)
           new == addFile(groups, f)
<1>1. PICK p, a : /\ n = Group(Members(W, k), p, TotalOf(f), a)
                  /\ p = None => \A x \in V : groupKey(x) = k => ~Leads(x)
                  /\ p # None => p \in V /\ groupKey(p) = k /\ Leads(p) /\ a = ArchOf(p)
  BY JoinedIs
<1>2. PICK g : g = IF Leads(f) THEN [n EXCEPT !.primary = f, !.arch = ArchOf(f)] ELSE n
  OBVIOUS
<1>3. new = [j \in DOMAIN groups \cup {k} |-> IF j # k THEN groups[j] ELSE g]
  <2>1. (Leads(f) <=> Name[f].index <= 1 /\ h.ok) /\ (Leads(f) => Architecture(h) = ArchOf(f))
    BY MetaIs DEF Leads
  <2> QED  BY <1>2, <2>1 DEF addFile
<1>4. DOMAIN new = {groupKey(x) : x \in W} /\ new[k] = g /\ \A j \in DOMAIN groups : j # k => new[j] = groups[j]
  BY <1>3 DEF Grouped
<1>5. \A x \in W : groupKey(x) = k => TotalOf(x) = TotalOf(f)
  BY TotalsAgree
<1>6. None \notin Files
  BY ModelScanAssumption
<1> HIDE DEF n, new, W, k
<1>7. GroupOf(g, W, k)
  <2>1. CASE Leads(f)
    <3>1. ASSUME NEW q, q = [n EXCEPT !.primary = f, !.arch = ArchOf(f)]
          PROVE  q = Group(Members(W, k), f, TotalOf(f), ArchOf(f))
      BY <1>1, <3>1 DEF Group
    <3>2. g = Group(Members(W, k), f, TotalOf(f), ArchOf(f))
      BY <1>2, <2>1, <3>1, Zenon
    <3>3. g.primary = f /\ g.total = TotalOf(f) /\ g.arch = ArchOf(f)
      BY <3>2 DEF Group
    <3> QED  BY <1>5, <1>6, <2>1, <3>2, <3>3 DEF GroupOf, W, k
  <2>2. CASE ~Leads(f)
    <3>1. g = Group(Members(W, k), p, TotalOf(f), a)
      BY <1>1, <1>2, <2>2
    <3>2. g.primary = p /\ g.total = TotalOf(f) /\ g.arch = a
      BY <3>1 DEF Group
    <3> QED  BY <1>1, <1>5, <2>2, <3>1, <3>2 DEF GroupOf, W
  <2> QED  BY <2>1, <2>2
<1>8. ASSUME NEW j \in DOMAIN groups, j # k PROVE GroupOf(groups[j], W, j)
  <2>1. groupKey(f) # j
    BY <1>8 DEF k
  <2>2. Members(W, j) = Members(V, j)
    BY <2>1 DEF Members, W
  <2>3. GroupOf(groups[j], V, j)
    BY DEF Grouped
  <2> QED  BY <2>1, <2>2, <2>3 DEF GroupOf, W
<1>9. DOMAIN new = DOMAIN groups \cup {k}
  BY <1>3
<1>10. \A j \in DOMAIN new : GroupOf(new[j], W, j)
  BY <1>4, <1>7, <1>8, <1>9
<1> QED  BY <1>4, <1>10 DEF Grouped, new, W

\* All that a scan has grouped, listed: what is expected.
LEMMA CollectsExpected ==
    ASSUME NamesApart, NEW groups, Grouped(groups, Listed)
    PROVE  Models(groups) = Expected
<1> DEFINE M(f) == [path |-> f, files |-> Members(Listed, groupKey(f)), total |-> TotalOf(f),
                    size |-> SizeOf(Members(Listed, groupKey(f))), arch |-> ArchOf(f)]
           Leaders == {f \in Listed : Leads(f)}
<1>1. Listed \subseteq Files /\ None \notin Files
  BY ModelScanAssumption DEF Listed
<1>2. ASSUME NEW f \in Leaders
      PROVE  [g \in Files |-> IF g \in Listed /\ SameModel(f, g) THEN 1 ELSE 0] = Members(Listed, groupKey(f))
  <2> SUFFICES ASSUME NEW g \in Files PROVE SameModel(f, g) <=> groupKey(g) = groupKey(f)
    BY DEF Members
  <2>1. groupKey(g) = groupKey(f) => SameModel(f, g)
    BY <1>1 DEF NamesApart, SameModel
  <2>2. SameModel(f, g) => groupKey(g) = groupKey(f)
    <3>1. ASSUME [Name[f] EXCEPT !.index = 0] = [Name[g] EXCEPT !.index = 0]
          PROVE  Name[f].dir = Name[g].dir /\ Name[f].stem = Name[g].stem
      <4>1. /\ [Name[f] EXCEPT !.index = 0].dir = Name[f].dir /\ [Name[f] EXCEPT !.index = 0].stem = Name[f].stem
            /\ [Name[g] EXCEPT !.index = 0].dir = Name[g].dir /\ [Name[g] EXCEPT !.index = 0].stem = Name[g].stem
        BY <1>1, ModelScanAssumption
      <4> QED  BY <3>1, <4>1
    <3> QED  BY <3>1 DEF SameModel, groupKey
  <2> QED  BY <2>1, <2>2
<1>3. Expected = {M(f) : f \in Leaders}
  BY <1>2 DEF Expected, Leads, TotalOf, ArchOf
<1>4. ASSUME NEW k \in DOMAIN groups, groups[k].primary # None
      PROVE  groups[k].primary \in Leaders /\ groupKey(groups[k].primary) = k
             /\ toModel(groups[k]) = M(groups[k].primary)
  <2>1. PICK g : g = groups[k]
    OBVIOUS
  <2>2. GroupOf(g, Listed, k) /\ g.primary # None
    BY <1>4, <2>1 DEF Grouped
  <2>3. g = Group(Members(Listed, k), g.primary, g.total, g.arch)
        /\ g.primary \in Listed /\ groupKey(g.primary) = k /\ Leads(g.primary)
        /\ g.total = TotalOf(g.primary) /\ g.arch = ArchOf(g.primary)
    BY <2>2 DEF GroupOf
  <2>4. g.files = Members(Listed, k)
    BY <2>3 DEF Group
  <2> QED  BY <2>1, <2>3, <2>4 DEF toModel
<1>5. ASSUME NEW f \in Leaders
      PROVE  \E k \in DOMAIN groups : groups[k].primary # None /\ groups[k].primary = f
  <2> DEFINE k == groupKey(f)
  <2>1. k \in DOMAIN groups /\ GroupOf(groups[k], Listed, k)
    BY DEF Grouped
  <2>2. groups[k].primary # None
    BY <2>1 DEF GroupOf
  <2>3. groups[k].primary \in Files /\ groupKey(groups[k].primary) = k /\ Leads(groups[k].primary)
    BY <1>1, <2>1, <2>2 DEF GroupOf
  <2>4. groups[k].primary = f
    BY <1>1, <2>3 DEF NamesApart, Leads
  <2> QED  BY <2>1, <2>2, <2>4
<1> DEFINE Found == {k \in DOMAIN groups : groups[k].primary # None}
<1>6. Models(groups) = {toModel(groups[k]) : k \in Found}
  BY DEF Models
<1> HIDE DEF M, Leaders
<1>7. \A k \in Found : toModel(groups[k]) = M(groups[k].primary) /\ groups[k].primary \in Leaders
  BY <1>4
<1>8. \A f \in Leaders : \E k \in Found : groups[k].primary = f
  BY <1>5
<1>9. {toModel(groups[k]) : k \in Found} = {M(f) : f \in Leaders}
  BY <1>7, <1>8
<1> QED  BY <1>3, <1>6, <1>9

\* The targets of a configuration: the directories and the roots.
LEMMA TargetsRange ==
    ASSUME NEW src \in SourceSets
    PROVE  Range(modelTargets(src))
              = {[path |-> d, depth |-> src.depth] : d \in {App} \cup Range(src.scanDirs)} \cup Range(src.roots)
<1> DEFINE Paths == {App} \cup Range(src.scanDirs)
           dirs  == ScanDirs(src)
           paths == [i \in DOMAIN dirs |-> [path |-> dirs[i], depth |-> src.depth]]
           AllTargets == {[path |-> d, depth |-> src.depth] : d \in Paths} \cup Range(src.roots)
<1>1. src.scanDirs \in Seq(Range(src.scanDirs)) /\ src.roots \in Seq(Range(src.roots))
  BY ModelScanAssumption
<1>2. src.scanDirs \in Seq(Paths) /\ <<App>> \in Seq(Paths) /\ Range(<<App>>) = {App}
  <2>1. src.scanDirs \in Seq(Paths)
    BY <1>1, SeqMonotonic
  <2>2. DOMAIN <<App>> = {1} /\ <<App>>[1] = App
    OBVIOUS
  <2>3. Range(<<App>>) = {App}
    BY <2>2 DEF Range
  <2> QED  BY <2>1, <2>3
<1>3. dirs \in Seq(Paths) /\ Range(dirs) = Paths
  <2>1. CASE App \in Range(src.scanDirs)
    BY <1>2, <2>1 DEF ScanDirs
  <2>2. CASE App \notin Range(src.scanDirs)
    <3> HIDE DEF Paths
    <3>1. <<App>> \o src.scanDirs \in Seq(Paths)
      BY <1>2, ConcatProperties
    <3>2. Range(<<App>> \o src.scanDirs) = Range(<<App>>) \cup Range(src.scanDirs)
      <4>1. ASSUME NEW one \in Seq(Paths) PROVE Range(one \o src.scanDirs) = Range(one) \cup Range(src.scanDirs)
        BY <1>2, RangeConcatenation
      <4> QED  BY <1>2, <4>1, Zenon
    <3> QED  BY <1>2, <2>2, <3>1, <3>2 DEF ScanDirs, Paths
  <2> QED  BY <2>1, <2>2
<1> HIDE DEF dirs
<1>4. paths \in Seq(AllTargets) /\ src.roots \in Seq(AllTargets)
  <2>1. DOMAIN dirs = 1..Len(dirs) /\ Len(dirs) \in Nat /\ \A i \in DOMAIN dirs : dirs[i] \in Paths
    BY <1>3
  <2>2. \A i \in DOMAIN dirs : [path |-> dirs[i], depth |-> src.depth] \in AllTargets
    BY <2>1
  <2>3. Range(src.roots) \subseteq AllTargets
    OBVIOUS
  <2> HIDE DEF AllTargets, Paths
  <2>4. paths \in Seq(AllTargets)
    BY <2>1, <2>2
  <2> QED  BY <1>1, <2>3, <2>4, SeqMonotonic
<1>5. Range(paths) = {[path |-> d, depth |-> src.depth] : d \in Range(dirs)}
  BY DEF Range
<1>6. Range(paths \o src.roots) = Range(paths) \cup Range(src.roots)
  BY <1>4, RangeConcatenation
<1>7. modelTargets(src) = paths \o src.roots
  BY DEF modelTargets, dirs
<1> QED  BY <1>3, <1>5, <1>6, <1>7

\* At its first step a scan has all to visit and no groups.
LEMMA StartsOnItsWay ==
    ASSUME ReachedOnce, sources \in SourceSets
    PROVE  OnItsWay(modelTargets(sources), {}, sources.files, << >>)
<1> DEFINE dirs == modelTargets(sources)
<1>1. \A f : (\E i \in DOMAIN dirs : Visible(f, dirs[i]))
               <=> \/ \E d \in {App} \cup Range(sources.scanDirs) : Visible(f, [path |-> d, depth |-> sources.depth])
                   \/ \E root \in Range(sources.roots) : Visible(f, root)
  <2>1. \A f : (\E i \in DOMAIN dirs : Visible(f, dirs[i])) <=> \E t \in Range(dirs) : Visible(f, t)
    BY DEF Range
  <2>2. Range(dirs) = {[path |-> d, depth |-> sources.depth] : d \in {App} \cup Range(sources.scanDirs)}
                         \cup Range(sources.roots)
    BY TargetsRange
  <2> QED  BY <2>1, <2>2
<1> HIDE DEF dirs
<1>2. Remaining(dirs, {}, sources.files) = Listed
  BY <1>1 DEF Remaining, Listed
<1>3. Grouped(<< >>, {})
  BY DEF Grouped
<1>4. Once(dirs, {}, sources.files)
  BY DEF ReachedOnce, dirs
<1> QED  BY <1>2, <1>3, <1>4 DEF OnItsWay, dirs

\* The next target's files wait in the list instead.
LEMMA WalkOnItsWay ==
    ASSUME NEW dirs \in Seq(Targets), dirs # <<>>, NEW files, NEW groups,
           OnItsWay(dirs, {}, files, groups),
           NEW list, list = {f \in Files : Exists(f) /\ Visible(f, Head(dirs))}
    PROVE  OnItsWay(Tail(dirs), list, files, groups)
<1>1. /\ DOMAIN dirs = 1..Len(dirs) /\ Len(dirs) \in Nat \ {0} /\ Head(dirs) = dirs[1]
      /\ DOMAIN Tail(dirs) = 1..(Len(dirs) - 1) /\ \A i \in DOMAIN Tail(dirs) : Tail(dirs)[i] = dirs[i + 1]
  BY HeadTailProperties
<1>2. PICK rest : rest = Tail(dirs)
  OBVIOUS
<1>3. Once(dirs, {}, files)
  BY DEF OnItsWay
<1>4. \A i \in DOMAIN rest : i + 1 \in DOMAIN dirs /\ i + 1 # 1 /\ rest[i] = dirs[i + 1]
  BY <1>1, <1>2
<1>5. \A i \in DOMAIN dirs : i # 1 => i - 1 \in DOMAIN rest /\ rest[i - 1] = dirs[i]
  BY <1>1, <1>2
<1>6. 1 \in DOMAIN dirs /\ Head(dirs) = dirs[1] /\ DOMAIN rest \subseteq Int
  BY <1>1, <1>2
<1>7. Once(rest, list, files)
  <2>1. \A f \in Files : \A i, j \in DOMAIN rest : Visible(f, rest[i]) /\ Visible(f, rest[j]) => i = j
    BY <1>3, <1>4, <1>6 DEF Once
  <2>2. \A f \in list : (\A i \in DOMAIN rest : ~Visible(f, rest[i])) /\ f \notin Range(files)
    BY <1>3, <1>4, <1>6 DEF Once
  <2>3. \A f \in Range(files) : \A i \in DOMAIN rest : ~Visible(f, rest[i])
    BY <1>3, <1>4 DEF Once
  <2> QED  BY <1>3, <2>1, <2>2, <2>3 DEF Once
<1>8. \A f : (\E i \in DOMAIN dirs : Visible(f, dirs[i]))
               <=> Visible(f, Head(dirs)) \/ \E i \in DOMAIN rest : Visible(f, rest[i])
  BY <1>4, <1>5, <1>6
<1>9. Remaining(rest, list, files) = Remaining(dirs, {}, files)
  BY <1>8 DEF Remaining
<1> QED  BY <1>2, <1>7, <1>9 DEF OnItsWay

\* A listed file that is visited is to be visited no more.
LEMMA VisitOnItsWay ==
    ASSUME NamesApart, ReadsAsWritten, NEW dirs, NEW list \in SUBSET Files, NEW files, NEW groups,
           OnItsWay(dirs, list, files, groups), NEW f \in list
    PROVE  OnItsWay(dirs, list \ {f}, files, addFile(groups, f))
<1>1. Once(dirs, list, files) /\ f \in Listed
  BY DEF OnItsWay, Remaining
<1>2. Once(dirs, list \ {f}, files)
  BY <1>1 DEF Once
<1>3. (\A i \in DOMAIN dirs : ~Visible(f, dirs[i])) /\ f \notin Range(files)
  BY <1>1 DEF Once
<1> DEFINE before == Remaining(dirs, list, files)
           after  == Remaining(dirs, list \ {f}, files)
<1>4. after = before \ {f} /\ f \in before
  BY <1>3 DEF Remaining
<1>5. Exists(f) /\ Listed \subseteq Files
  BY <1>1 DEF Listed
<1> HIDE DEF before, after
<1>6. Grouped(groups, Listed \ before) /\ before \subseteq Listed
  BY DEF OnItsWay, before
<1>7. Grouped(addFile(groups, f), (Listed \ before) \cup {f})
  BY <1>4, <1>5, <1>6, FileJoins
<1>8. (Listed \ before) \cup {f} = Listed \ after /\ after \subseteq Listed
  BY <1>1, <1>4, <1>6
<1> QED  BY <1>2, <1>7, <1>8 DEF OnItsWay, after

\* So is a file of the configuration, when it is there.
LEMMA FileOnItsWay ==
    ASSUME NamesApart, ReadsAsWritten, NEW files \in Seq(Files), files # <<>>, NEW groups,
           OnItsWay(<<>>, {}, files, groups),
           NEW new, new = IF Exists(Head(files)) THEN addFile(groups, Head(files)) ELSE groups
    PROVE  OnItsWay(<<>>, {}, Tail(files), new)
<1>1. PICK rest, f : rest = Tail(files) /\ f = Head(files)
  OBVIOUS
<1>2. /\ DOMAIN files = 1..Len(files) /\ Len(files) \in Nat \ {0} /\ f = files[1]
      /\ DOMAIN rest = 1..(Len(files) - 1) /\ \A i \in DOMAIN rest : rest[i] = files[i + 1]
  BY <1>1, HeadTailProperties
<1>3. Once(<<>>, {}, files) /\ f \in Files
  BY <1>1 DEF OnItsWay
<1>4. \A i \in DOMAIN rest : i + 1 \in DOMAIN files /\ i + 1 # 1 /\ rest[i] = files[i + 1]
  BY <1>2
<1>5. \A i \in DOMAIN files : i # 1 => i - 1 \in DOMAIN rest /\ rest[i - 1] = files[i]
  BY <1>2
<1>6. 1 \in DOMAIN files /\ f = files[1] /\ DOMAIN rest \subseteq Int
  BY <1>2
<1>7. Range(rest) = Range(files) \ {f}
  BY <1>3, <1>4, <1>5, <1>6 DEF Once, Range
<1>8. Once(<<>>, {}, rest)
  <2>1. \A i, j \in DOMAIN rest : rest[i] = rest[j] => i = j
    BY <1>3, <1>4, <1>6 DEF Once
  <2> QED  BY <1>3, <1>7, <2>1 DEF Once
<1> DEFINE before == Remaining(<<>>, {}, files)
           after  == Remaining(<<>>, {}, rest)
<1>9. Grouped(groups, Listed \ before) /\ before \subseteq Listed /\ Listed \subseteq Files
  BY DEF OnItsWay, Listed
<1>10. f \in Range(files) /\ after = before \ {f} /\ (f \in before <=> Exists(f))
  <2>1. f \in Range(files)
    BY <1>6 DEF Range
  <2> QED  BY <1>3, <1>7, <2>1 DEF Remaining
<1> HIDE DEF before, after
<1>11. Grouped(new, Listed \ after)
  <2>1. CASE Exists(f)
    <3>1. f \in Files \ (Listed \ before) /\ new = addFile(groups, f)
      BY <1>1, <1>3, <1>10, <2>1
    <3>2. Grouped(addFile(groups, f), (Listed \ before) \cup {f})
      BY <1>9, <2>1, <3>1, FileJoins
    <3>3. (Listed \ before) \cup {f} = Listed \ after
      BY <1>9, <1>10, <2>1
    <3> QED  BY <3>1, <3>2, <3>3
  <2>2. CASE ~Exists(f)
    BY <1>1, <1>9, <1>10, <2>2
  <2> QED  BY <2>1, <2>2
<1>12. after \subseteq Listed
  BY <1>9, <1>10
<1> QED  BY <1>1, <1>8, <1>11, <1>12 DEF OnItsWay, after

\* With nothing left to visit, what is found is what is expected.
LEMMA ArrivesExpected ==
    ASSUME NamesApart, NEW groups, OnItsWay(<<>>, {}, <<>>, groups)
    PROVE  Models(groups) = Expected
<1>1. Range(<<>>) = {}
  BY DEF Range
<1>2. Remaining(<<>>, {}, <<>>) = {}
  BY <1>1 DEF Remaining
<1>3. Grouped(groups, Listed)
  BY <1>2 DEF OnItsWay
<1> QED  BY <1>3, CollectsExpected

\* A step of a scan outdates none, and makes the registry current only as the
\* last step of a scan that is not outdated.
LEMMA ScanKeepsOrder ==
    ASSUME Shape, NEW s \in Scans, ScanStep(s)
    PROVE  /\ Scanning(s)
           /\ \E q : Becomes(s, q) /\ (q.outdated => scan[s].outdated /\ q.pc # "idle" /\ current' = current)
                  /\ (scan[s].outdated => q.outdated \/ q.pc \in {"idle", "save"})
           /\ \/ UNCHANGED <<registry, current>>
              \/ /\ scan[s].pc = "assign" /\ registry' = scan[s].found
                 /\ current' = (current \/ ~scan[s].outdated)
<1>1. IsScan(scan[s]) /\ scan = [t \in Scans |-> scan[t]]
  BY DEF Shape
<1>2. PICK r : r = scan[s]
  OBVIOUS
<1> DEFINE Kept == \E q : Becomes(s, q) /\ (q.outdated => r.outdated /\ q.pc # "idle" /\ current' = current)
                          /\ (r.outdated => q.outdated \/ q.pc \in {"idle", "save"})
<1>3. ASSUME NEW pc, NEW dirs, NEW list, NEW files, NEW groups, NEW found, pc # "idle", current' = current,
             Becomes(s, Record(pc, dirs, list, files, groups, found, r.outdated))
      PROVE  Kept
  <2>1. PICK q : q = Record(pc, dirs, list, files, groups, found, r.outdated)
    OBVIOUS
  <2>2. q.outdated = r.outdated /\ q.pc = pc
    BY <2>1, Fields
  <2> QED  BY <1>3, <2>1, <2>2
<1>4. ASSUME NEW q, Becomes(s, q), ~q.outdated, q.pc \in {"idle", "save"} PROVE Kept
  BY <1>4
<1> HIDE DEF Kept
<1>5. ASSUME ReadConfig(s) PROVE Kept
  <2>1. Becomes(s, Record("walk", DirsOf(s), r.list, FilesOf(s), r.groups, r.found, r.outdated))
    BY <1>1, <1>2, <1>5, StepsMake
  <2>2. current' = current
    BY <1>5 DEF ReadConfig
  <2> QED  BY <1>3, <2>1, <2>2
<1>6. ASSUME Walk(s) PROVE Kept
  <2>1. \E list : Becomes(s, Record("walk", Tail(r.dirs), list, r.files, r.groups, r.found, r.outdated))
    BY <1>1, <1>2, <1>6, StepsMake
  <2>2. current' = current
    BY <1>6 DEF Walk
  <2> QED  BY <1>3, <2>1, <2>2
<1>7. ASSUME Visit(s) PROVE Kept
  <2>1. PICK f \in r.list :
          Becomes(s, Record("walk", r.dirs, r.list \ {f}, r.files, addFile(r.groups, f), r.found, r.outdated))
    BY <1>1, <1>2, <1>7, StepsMake
  <2>2. current' = current
    BY <1>7 DEF Visit
  <2> QED  BY <1>3, <2>1, <2>2
<1>8. ASSUME VisitFile(s) PROVE Kept
  <2>1. \E groups : Becomes(s, Record("walk", r.dirs, r.list, Tail(r.files), groups, r.found, r.outdated))
    BY <1>1, <1>2, <1>8, StepsMake
  <2>2. current' = current
    BY <1>8 DEF VisitFile
  <2> QED  BY <1>3, <2>1, <2>2
<1>9. ASSUME Collect(s) PROVE Kept
  <2>1. current' = current
    BY <1>9 DEF Collect
  <2>2. \/ Becomes(s, NoScan)
        \/ \E pc, dirs, list, files, groups, found :
              pc # "idle" /\ Becomes(s, Record(pc, dirs, list, files, groups, found, r.outdated))
    BY <1>1, <1>2, <1>9, StepsMake
  <2> QED  BY <1>3, <1>4, <2>1, <2>2, NoScanIs
<1>10. ASSUME Assign(s) \/ Save(s) PROVE Kept
  BY <1>1, <1>2, <1>4, <1>10, StepsMake, NoScanIs
<1>11. Kept
  BY <1>5, <1>6, <1>7, <1>8, <1>9, <1>10 DEF ScanStep
<1>12. Scanning(s)
  BY DEF Scanning, ScanStep, ReadConfig, Walk, Visit, VisitFile, Collect, Assign, Save
<1>13. \/ UNCHANGED <<registry, current>>
       \/ /\ scan[s].pc = "assign" /\ registry' = scan[s].found
          /\ current' = (current \/ ~scan[s].outdated)
  BY DEF ScanStep, ReadConfig, Walk, Visit, VisitFile, Collect, Assign, Save
<1> QED  BY <1>2, <1>11, <1>12, <1>13 DEF Kept

\* What a step of a scan for the daemon makes of an undisturbed state.
LEMMA ScanStaysUndisturbed ==
    ASSUME NamesApart, ReachedOnce, ReadsAsWritten, Shape, NEW s \in DaemonScans, ScanStep(s),
           Undisturbed(scan[s])
    PROVE  \E q : Becomes(s, q) /\ Undisturbed(q)
<1>1. IsScan(scan[s]) /\ scan = [t \in Scans |-> scan[t]] /\ sources \in SourceSets
      /\ s \in Scans /\ s # "command"
  BY DEF Shape, DaemonScans
<1>2. PICK r : r = scan[s]
  OBVIOUS
<1>3. r.dirs \in Seq(Targets) /\ r.files \in Seq(Files) /\ r.list \subseteq Files
  BY <1>1, <1>2 DEF IsScan
<1> DEFINE Kept == \E q : Becomes(s, q) /\ Undisturbed(q)
<1>4. ASSUME NEW dirs, NEW list, NEW files, NEW groups, NEW found, NEW o, OnItsWay(dirs, list, files, groups),
             Becomes(s, Record("walk", dirs, list, files, groups, found, o))
      PROVE  Kept
  <2>1. PICK q : q = Record("walk", dirs, list, files, groups, found, o)
    OBVIOUS
  <2>2. q.pc = "walk" /\ q.dirs = dirs /\ q.list = list /\ q.files = files /\ q.groups = groups
    BY <2>1, Fields
  <2> QED  BY <1>4, <2>1, <2>2 DEF Undisturbed
<1>5. ASSUME NEW q, Becomes(s, q), q.pc \in {"idle", "save"} PROVE Kept
  BY <1>5 DEF Undisturbed
<1>6. r.pc = "walk" => OnItsWay(r.dirs, r.list, r.files, r.groups)
  BY <1>2 DEF Undisturbed
<1>7. ASSUME ReadConfig(s) PROVE Kept
  <2>1. r.list = {} /\ r.groups = << >>
    BY <1>2, <1>7 DEF ReadConfig, Undisturbed
  <2>2. OnItsWay(DirsOf(s), r.list, FilesOf(s), r.groups)
    BY <1>1, <2>1, StartsOnItsWay DEF DirsOf, FilesOf
  <2>3. Becomes(s, Record("walk", DirsOf(s), r.list, FilesOf(s), r.groups, r.found, r.outdated))
    BY <1>1, <1>2, <1>7, StepsMake
  <2> HIDE DEF Kept
  <2> QED  BY <1>4, <2>2, <2>3
<1>8. ASSUME Walk(s) PROVE Kept
  <2>1. PICK list : list = {f \in Files : Exists(f) /\ Visible(f, Head(r.dirs))}
    OBVIOUS
  <2>2. r.pc = "walk" /\ r.list = {} /\ r.dirs # <<>>
    BY <1>2, <1>8 DEF Walk
  <2>3. OnItsWay(Tail(r.dirs), list, r.files, r.groups)
    BY <1>3, <1>6, <2>1, <2>2, WalkOnItsWay
  <2>4. Becomes(s, Record("walk", Tail(r.dirs), list, r.files, r.groups, r.found, r.outdated))
    BY <1>1, <1>2, <1>8, <2>1, StepsMake
  <2> HIDE DEF Kept
  <2> QED  BY <1>4, <2>3, <2>4
<1>9. ASSUME Visit(s) PROVE Kept
  <2>1. PICK f \in r.list :
          Becomes(s, Record("walk", r.dirs, r.list \ {f}, r.files, addFile(r.groups, f), r.found, r.outdated))
    BY <1>1, <1>2, <1>9, StepsMake
  <2>2. r.pc = "walk"
    BY <1>2, <1>9 DEF Visit
  <2>3. OnItsWay(r.dirs, r.list \ {f}, r.files, addFile(r.groups, f))
    BY <1>3, <1>6, <2>2, VisitOnItsWay
  <2> HIDE DEF Kept
  <2> QED  BY <1>4, <2>1, <2>3
<1>10. ASSUME VisitFile(s) PROVE Kept
  <2>1. PICK new : new = IF Exists(Head(r.files)) THEN addFile(r.groups, Head(r.files)) ELSE r.groups
    OBVIOUS
  <2>2. r.pc = "walk" /\ r.list = {} /\ r.dirs = <<>> /\ r.files # <<>>
    BY <1>2, <1>10 DEF VisitFile
  <2>3. OnItsWay(r.dirs, r.list, Tail(r.files), new)
    BY <1>3, <1>6, <2>1, <2>2, FileOnItsWay
  <2>4. Becomes(s, Record("walk", r.dirs, r.list, Tail(r.files), new, r.found, r.outdated))
    BY <1>1, <1>2, <1>10, <2>1, StepsMake
  <2> HIDE DEF Kept
  <2> QED  BY <1>4, <2>3, <2>4
<1>11. ASSUME Collect(s) PROVE Kept
  <2>1. r.pc = "walk" /\ r.list = {} /\ r.dirs = <<>> /\ r.files = <<>>
    BY <1>2, <1>11 DEF Collect
  <2>2. Models(r.groups) = Expected
    BY <1>6, <2>1, ArrivesExpected
  <2>3. \/ Becomes(s, NoScan)
        \/ Becomes(s, Record("assign", r.dirs, r.list, r.files, << >>, Expected, r.outdated))
    BY <1>1, <1>2, <1>11, <2>2, StepsMake
  <2>4. CASE Becomes(s, NoScan)
    BY <1>5, <2>4, NoScanIs
  <2>5. CASE Becomes(s, Record("assign", r.dirs, r.list, r.files, << >>, Expected, r.outdated))
    <3>1. PICK q : q = Record("assign", r.dirs, r.list, r.files, << >>, Expected, r.outdated)
      OBVIOUS
    <3>2. q.pc = "assign" /\ q.found = Expected
      BY <3>1, Fields
    <3> QED  BY <2>5, <3>1, <3>2 DEF Undisturbed
  <2> QED  BY <2>3, <2>4, <2>5
<1>12. ASSUME Assign(s) \/ Save(s) PROVE Kept
  <2>1. \E q : Becomes(s, q) /\ q.pc \in {"idle", "save"}
    BY <1>1, <1>2, <1>12, StepsMake, NoScanIs
  <2> QED  BY <1>5, <2>1
<1> QED  BY <1>7, <1>8, <1>9, <1>10, <1>11, <1>12 DEF ScanStep

\* What the world and the sources leave alone, a step that leaves them alone does.
LEMMA Steady ==
    ASSUME UNCHANGED <<content, disk, mounted, sources>>
    PROVE  /\ Expected' = Expected
           /\ \A q : Undisturbed(q)' <=> Undisturbed(q)
<1>1. disk' = disk /\ mounted' = mounted /\ content' = content /\ sources' = sources
  OBVIOUS
<1>2. \A f : (Exists(f)' <=> Exists(f)) /\ (Complete(f)' <=> Complete(f)) /\ ArchOf(f)' = ArchOf(f)
  BY <1>1 DEF Exists, Complete, WholeLength, ArchOf
<1>3. Listed' = Listed
  BY <1>1, <1>2 DEF Listed
<1>4. \A files : SizeOf(files)' = SizeOf(files)
  <2> TAKE files
  <2> DEFINE sizes == [f \in Files |-> IF Exists(f) THEN files[f] * disk[f] ELSE 0]
  <2>1. sizes' = sizes
    BY <1>1, <1>2
  <2> HIDE DEF sizes
  <2>2. SizeOf(files) = SumOf(sizes) /\ SizeOf(files)' = SumOf(sizes')
    BY DEF SizeOf, sizes
  <2> QED  BY <2>1, <2>2
<1>5. Expected' = Expected
  BY <1>1, <1>2, <1>3, <1>4 DEF Expected
<1>6. \A dirs, list, files : Remaining(dirs, list, files)' = Remaining(dirs, list, files)
  BY <1>2 DEF Remaining
<1>7. \A groups, V : Grouped(groups, V)' <=> Grouped(groups, V)
  <2>1. \A f : Leads(f)' <=> Leads(f)
    BY <1>2 DEF Leads
  <2>2. \A g, V, k : GroupOf(g, V, k)' <=> GroupOf(g, V, k)
    BY <1>2, <2>1 DEF GroupOf
  <2> QED  BY <2>2 DEF Grouped
<1>8. \A dirs, list, files, groups : OnItsWay(dirs, list, files, groups)' <=> OnItsWay(dirs, list, files, groups)
  BY <1>3, <1>6, <1>7 DEF OnItsWay
<1> QED  BY <1>5, <1>8 DEF Undisturbed

LEMMA Watched ==
    DaemonScans \subseteq Scans /\ "auto" \in DaemonScans /\ Rescans \subseteq DaemonScans
    /\ "command" \in Scans /\ "command" \notin DaemonScans
BY ModelScanAssumption DEF DaemonScans, Scans

LEMMA FreshIs ==
    \A q : q = [NoScan EXCEPT !.pc = "config"] =>
        IsScan(q) /\ q.pc = "config" /\ ~q.outdated /\ q.list = {} /\ q.groups = << >>
<1> SUFFICES ASSUME NEW q, q = [NoScan EXCEPT !.pc = "config"]
             PROVE  IsScan(q) /\ q.pc = "config" /\ ~q.outdated /\ q.list = {} /\ q.groups = << >>
  OBVIOUS
<1>1. q.list = {} /\ q.groups = << >>
  BY DEF NoScan
<1> QED  BY <1>1, NoScanIs

\* A scan begins when none is under way.
LEMMA BeginsInOrder ==
    ASSUME Shape, Orderly, \A t \in Scans : ~Scanning(t), NEW s \in Scans, NEW q, Becomes(s, q),
           q = [NoScan EXCEPT !.pc = "config"], s # "command" => up', up' # up => ~up,
           current' = current, current => up
    PROVE  Orderly'
<1>1. q.pc = "config" /\ ~q.outdated
  BY FreshIs
<1>2. \A t \in Scans : scan'[t] = IF t = s THEN q ELSE scan[t]
  BY DEF Shape, Becomes
<1>3. \A t \in Scans : scan[t].pc = "idle" /\ ~scan[t].outdated
  BY DEF Scanning, Orderly
<1>4. \A t \in Scans : (Scanning(t)' <=> t = s) /\ ~scan'[t].outdated
  BY <1>1, <1>2, <1>3 DEF Scanning
<1>5. ~up' => ~current' /\ \A t \in DaemonScans : ~Scanning(t)'
  BY <1>4, Watched DEF DaemonScans
<1> QED  BY <1>4, <1>5, Watched DEF Orderly

\* The states that have become out of date.
LEMMA OutdatesAll ==
    ASSUME Shape, NEW t \in Scans
    PROVE  /\ Outdating(scan)[t].pc = scan[t].pc /\ (Outdating(scan)[t].outdated <=> Scanning(t))
           /\ ~Outdating(scan)[t].outdated => Outdating(scan)[t].pc = "idle"
BY OutdatedIs DEF Scanning

LEMMA OrderStep ==
    ~Overlap /\ Shape /\ Orderly /\ [Next]_vars => Orderly'
<1> SUFFICES ASSUME ~Overlap, Shape, Orderly, [Next]_vars PROVE Orderly'
  OBVIOUS
<1>1. MayScan => \A t \in Scans : ~Scanning(t)
  BY DEF MayScan
<1>2. scan = [t \in Scans |-> scan[t]] /\ (current => up)
  BY DEF Shape, Orderly
<1>3. PICK fresh : fresh = [NoScan EXCEPT !.pc = "config"]
  OBVIOUS
<1>4. ASSUME NEW s \in Rescans, Rescan(s) PROVE Orderly'
  <2>1. Becomes(s, fresh) /\ UNCHANGED <<up, current>> /\ up /\ MayScan
    BY <1>3, <1>4 DEF Rescan, Begin, Becomes, worldVars
  <2> QED  BY <1>1, <1>2, <1>3, <2>1, Watched, BeginsInOrder
<1>5. ASSUME Command PROVE Orderly'
  <2>1. Becomes("command", fresh) /\ UNCHANGED <<up, current>> /\ MayScan
    BY <1>3, <1>5 DEF Command, Begin, Becomes, worldVars
  <2> QED  BY <1>1, <1>2, <1>3, <2>1, Watched, BeginsInOrder
<1>6. ASSUME Start PROVE Orderly'
  <2>1. Becomes("auto", fresh) /\ up' = TRUE /\ ~up /\ current' = current /\ MayScan
    BY <1>3, <1>6 DEF Start, Becomes
  <2> QED  BY <1>1, <1>2, <1>3, <2>1, Watched, BeginsInOrder
<1>7. ASSUME NEW s \in Rescans, NEW src \in SourceSets, PutSources(s, src) PROVE Orderly'
  <2>1. scan' = [Outdating(scan) EXCEPT ![s] = fresh] /\ up /\ up' = up /\ current' = FALSE /\ MayScan
    BY <1>3, <1>7 DEF PutSources
  <2>2. \A t \in Scans : scan'[t] = IF t = s THEN fresh ELSE Outdating(scan)[t]
    BY <2>1 DEF Outdating
  <2>3. \A t \in Scans : (Scanning(t)' <=> t = s) /\ ~scan'[t].outdated
    <3>1. fresh.pc = "config" /\ ~fresh.outdated
      BY <1>3, FreshIs
    <3>2. \A t \in Scans : Outdating(scan)[t].pc = "idle" /\ ~Outdating(scan)[t].outdated
      BY <1>1, <2>1, OutdatesAll DEF Scanning
    <3> QED  BY <2>2, <3>1, <3>2 DEF Scanning
  <2> QED  BY <2>1, <2>3, Watched DEF Orderly
<1>8. ASSUME NEW d, NEW m, Change(d, m) PROVE Orderly'
  <2>1. scan' = Outdating(scan) /\ up' = up /\ current' = FALSE
    BY <1>8 DEF Change
  <2>2. \A t \in Scans : (Scanning(t)' <=> Scanning(t)) /\ (scan'[t].outdated <=> Scanning(t))
    BY <2>1, OutdatesAll DEF Scanning
  <2> QED  BY <2>1, <2>2, Watched DEF Orderly
<1>9. ASSUME Kill PROVE Orderly'
  <2>1. /\ up' = FALSE /\ current' = FALSE
        /\ \A t \in Scans : scan'[t] = IF t = "command" THEN scan[t] ELSE NoScan
    BY <1>9 DEF Kill
  <2>2. \A t \in Scans : /\ Scanning(t)' <=> t = "command" /\ Scanning(t)
                         /\ scan'[t].outdated => t = "command" /\ scan[t].outdated
    BY <2>1, NoScanIs DEF Scanning
  <2> QED  BY <2>1, <2>2 DEF Orderly, DaemonScans
<1>10. ASSUME NEW s \in Scans, ScanStep(s) PROVE Orderly'
  <2>1. PICK q : Becomes(s, q) /\ (q.outdated => scan[s].outdated /\ q.pc # "idle" /\ current' = current)
    BY <1>10, ScanKeepsOrder
  <2>2. Scanning(s) /\ up' = up
    BY <1>10, ScanKeepsOrder, ScanSteps DEF worldVars
  <2>3. \A t \in Scans : scan'[t] = IF t = s THEN q ELSE scan[t]
    BY <1>2, <2>1 DEF Becomes
  <2>4. \A t \in Scans : t # s => ~Scanning(t) /\ ~scan[t].outdated
    BY <2>2 DEF Orderly
  <2>5. \A t \in Scans : /\ Scanning(t)' => t = s
                         /\ scan'[t].outdated => t = s /\ Scanning(t)' /\ scan[s].outdated /\ current' = current
    BY <2>1, <2>3, <2>4 DEF Scanning
  <2>6. current' = current \/ s \in DaemonScans
    BY <1>10, ScanKeepsOrder DEF Shape, DaemonScans
  <2>7. s \in DaemonScans => up
    BY <2>2 DEF Orderly
  <2>8. \A t, u \in Scans : Scanning(t)' /\ Scanning(u)' => t = u
    BY <2>5
  <2>9. ~up' => ~current' /\ \A t \in DaemonScans : ~Scanning(t)'
    BY <1>2, <2>2, <2>5, <2>6, <2>7, Watched
  <2>10. \A t \in DaemonScans : scan'[t].outdated => ~current'
    BY <2>5, Watched DEF Orderly
  <2> QED  BY <2>5, <2>8, <2>9, <2>10 DEF Orderly
<1>11. ASSUME ListBegin \/ ListEnd \/ UNCHANGED vars PROVE Orderly'
  <2>1. UNCHANGED <<scan, up, current>>
    BY <1>11 DEF ListBegin, ListEnd, vars, worldVars
  <2> QED  BY <2>1 DEF Orderly, Scanning
<1> QED  BY <1>4, <1>5, <1>6, <1>7, <1>8, <1>9, <1>10, <1>11 DEF Next, SetFile, Mount

\* What is not out of date is undisturbed.
LEMMA FoundStep ==
    ~Overlap /\ NamesApart /\ ReachedOnce /\ Shape /\ ScanInv /\ ReadsAsWritten /\ [Next]_vars
        => \A t \in DaemonScans : ~scan'[t].outdated => Undisturbed(scan[t])'
<1> SUFFICES ASSUME NamesApart, ReachedOnce, Shape, ScanInv, ReadsAsWritten, [Next]_vars, NEW t \in DaemonScans,
                    ~scan'[t].outdated
             PROVE  Undisturbed(scan[t])'
  OBVIOUS
<1>1. scan = [u \in Scans |-> scan[u]] /\ t \in Scans /\ t # "command"
  BY Watched DEF Shape
<1>2. PICK fresh : fresh = [NoScan EXCEPT !.pc = "config"]
  OBVIOUS
<1>3. ASSUME NEW q, scan'[t] = q, q = fresh \/ q.pc \in {"idle", "save"} PROVE Undisturbed(scan[t])'
  <2>1. q.pc = "config" => q.list = {} /\ q.groups = << >>
    BY <1>2, <1>3, FreshIs
  <2>2. q.pc \in {"config", "idle", "save"}
    BY <1>2, <1>3, FreshIs
  <2> QED  BY <1>3, <2>1, <2>2 DEF Undisturbed
<1>4. ASSUME UNCHANGED <<content, disk, mounted, sources>>, scan'[t] = scan[t] PROVE Undisturbed(scan[t])'
  <2>1. PICK q : q = scan[t]
    OBVIOUS
  <2>2. Undisturbed(q)
    BY <1>4, <2>1 DEF ScanInv
  <2>3. Undisturbed(q)'
    BY <1>4, <2>2, Steady
  <2> QED  BY <1>4, <2>1, <2>3
<1>5. ASSUME NEW s \in Scans, Becomes(s, fresh), UNCHANGED <<content, disk, mounted, sources>>
      PROVE  Undisturbed(scan[t])'
  <2>1. CASE s = t
    BY <1>1, <1>3, <1>5, <2>1 DEF Becomes
  <2>2. CASE s # t
    <3>1. scan'[t] = scan[t]
      BY <1>1, <1>5, <2>2 DEF Becomes
    <3> QED  BY <1>4, <1>5, <3>1
  <2> QED  BY <2>1, <2>2
<1>6. ASSUME NEW s \in Rescans, Rescan(s) PROVE Undisturbed(scan[t])'
  BY <1>2, <1>5, <1>6, Watched DEF Rescan, Begin, Becomes, worldVars
<1>7. ASSUME Command PROVE Undisturbed(scan[t])'
  BY <1>2, <1>5, <1>7, Watched DEF Command, Begin, Becomes, worldVars
<1>8. ASSUME Start PROVE Undisturbed(scan[t])'
  BY <1>2, <1>5, <1>8, Watched DEF Start, Becomes
<1>9. ASSUME NEW s \in Rescans, NEW src \in SourceSets, PutSources(s, src) PROVE Undisturbed(scan[t])'
  <2>1. scan' = [Outdating(scan) EXCEPT ![s] = fresh]
    BY <1>2, <1>9 DEF PutSources
  <2>2. scan'[t] = IF t = s THEN fresh ELSE Outdating(scan)[t]
    BY <1>1, <2>1 DEF Outdating
  <2>3. CASE t = s
    BY <1>3, <2>2, <2>3
  <2>4. CASE t # s
    <3>1. Outdating(scan)[t].pc = "idle"
      BY <1>1, <2>2, <2>4, OutdatesAll
    <3> QED  BY <1>3, <2>2, <2>4, <3>1
  <2> QED  BY <2>3, <2>4
<1>10. ASSUME NEW d, NEW m, Change(d, m) PROVE Undisturbed(scan[t])'
  <2>1. scan'[t] = Outdating(scan)[t]
    BY <1>10 DEF Change
  <2>2. Outdating(scan)[t].pc = "idle"
    BY <1>1, <2>1, OutdatesAll
  <2> QED  BY <1>3, <2>1, <2>2
<1>11. ASSUME Kill PROVE Undisturbed(scan[t])'
  <2>1. scan'[t] = NoScan
    BY <1>1, <1>11 DEF Kill
  <2> QED  BY <1>3, <2>1, NoScanIs
<1>12. ASSUME NEW s \in Scans, ScanStep(s) PROVE Undisturbed(scan[t])'
  <2>1. UNCHANGED <<content, disk, mounted, sources>>
    BY <1>12, ScanSteps DEF worldVars
  <2>2. CASE s # t
    <3>1. PICK q : Becomes(s, q)
      BY <1>12, ScanSteps
    <3>2. scan'[t] = scan[t]
      BY <1>1, <2>2, <3>1 DEF Becomes
    <3> QED  BY <1>4, <2>1, <3>2
  <2>3. CASE s = t /\ ~scan[t].outdated
    <3>1. Undisturbed(scan[s])
      BY <2>3 DEF ScanInv
    <3>2. PICK q : Becomes(s, q) /\ Undisturbed(q)
      BY <1>12, <2>3, <3>1, ScanStaysUndisturbed
    <3>3. scan'[t] = q
      BY <1>1, <2>3, <3>2 DEF Becomes
    <3>4. Undisturbed(q)'
      BY <2>1, <3>2, Steady
    <3> QED  BY <3>3, <3>4
  <2>4. CASE s = t /\ scan[t].outdated
    <3>1. PICK q : Becomes(s, q) /\ (scan[s].outdated => q.outdated \/ q.pc \in {"idle", "save"})
      BY <1>12, ScanKeepsOrder
    <3>2. scan'[t] = q
      BY <1>1, <2>4, <3>1 DEF Becomes
    <3> QED  BY <1>3, <2>4, <3>1, <3>2
  <2> QED  BY <2>2, <2>3, <2>4
<1>13. ASSUME ListBegin \/ ListEnd \/ UNCHANGED vars PROVE Undisturbed(scan[t])'
  <2>1. UNCHANGED <<content, disk, mounted, sources>> /\ scan'[t] = scan[t]
    BY <1>13 DEF ListBegin, ListEnd, vars, worldVars
  <2> QED  BY <1>4, <2>1
<1> QED  BY <1>6, <1>7, <1>8, <1>9, <1>10, <1>11, <1>12, <1>13 DEF Next, SetFile, Mount

\* What makes the registry current is a scan that found what is expected.
LEMMA CurrentStep == Shape /\ ScanInv /\ [Next]_vars => RescanCurrent'
<1> SUFFICES ASSUME Shape, ScanInv, [Next]_vars, up', current' PROVE registry' = Expected'
  BY DEF RescanCurrent
<1>1. up /\ current => registry = Expected
  BY DEF ScanInv, RescanCurrent
<1>2. ASSUME UNCHANGED <<worldVars, registry, current>> PROVE registry' = Expected'
  BY <1>1, <1>2, Steady DEF worldVars
<1>3. ASSUME NEW s \in Rescans, Rescan(s) PROVE registry' = Expected'
  BY <1>2, <1>3 DEF Rescan
<1>4. ASSUME Command \/ ListBegin \/ ListEnd \/ UNCHANGED vars PROVE registry' = Expected'
  BY <1>2, <1>4 DEF Command, ListBegin, ListEnd, vars, worldVars
<1>5. ~Start /\ ~Kill /\ (\A d, m : ~Change(d, m)) /\ \A s, src : ~PutSources(s, src)
  BY DEF Start, Kill, Change, PutSources, ScanInv, Orderly
<1>6. ASSUME NEW s \in Scans, ScanStep(s) PROVE registry' = Expected'
  <2>1. UNCHANGED worldVars
    BY <1>6, ScanSteps
  <2>2. CASE UNCHANGED <<registry, current>>
    BY <1>2, <2>1, <2>2
  <2>3. CASE /\ scan[s].pc = "assign" /\ registry' = scan[s].found
             /\ current' = (current \/ ~scan[s].outdated)
    <3>1. s \in DaemonScans
      BY <2>3 DEF Shape, DaemonScans
    <3>2. ~scan[s].outdated
      BY <2>3, <3>1 DEF ScanInv, Orderly
    <3>3. scan[s].found = Expected
      BY <2>3, <3>1, <3>2 DEF ScanInv, Undisturbed
    <3> QED  BY <2>1, <2>3, <3>3, Steady DEF worldVars
  <2> QED  BY <1>6, <2>2, <2>3, ScanKeepsOrder
<1> QED  BY <1>3, <1>4, <1>5, <1>6 DEF Next, SetFile, Mount

LEMMA ScanInductive ==
    ASSUME ~Overlap, NamesApart, ReachedOnce
    PROVE  Spec /\ []ReadsAsWritten => []ScanInv
<1>1. Init => ScanInv
  <2> SUFFICES ASSUME Init PROVE ScanInv
    OBVIOUS
  <2>1. PICK fresh : fresh = [NoScan EXCEPT !.pc = "config"]
    OBVIOUS
  <2>2. \A s \in Scans : scan[s] = IF s = "auto" THEN fresh ELSE NoScan
    BY <2>1 DEF Init
  <2>3. \A s \in Scans : (Scanning(s) <=> s = "auto") /\ ~scan[s].outdated
    BY <2>1, <2>2, FreshIs, NoScanIs DEF Scanning
  <2>4. Orderly /\ RescanCurrent
    BY <2>3 DEF Orderly, RescanCurrent, Init
  <2>5. \A s \in Scans : Undisturbed(scan[s])
    BY <2>1, <2>2, FreshIs, NoScanIs DEF Undisturbed
  <2> QED  BY <2>4, <2>5, Watched DEF ScanInv
<1>2. Shape /\ ScanInv /\ ReadsAsWritten /\ [Next]_vars => ScanInv'
  BY OrderStep, FoundStep, CurrentStep DEF ScanInv
<1> QED  BY <1>1, <1>2, ShapeHolds, PTL DEF Spec

\* When a scan has replaced the registry and nothing has changed since it
\* began, the registry is what the sources reach: for any files and sources,
\* if headers are read as they were written, the models have names of their
\* own, no source reaches a file twice and scans do not overlap
\* (models.go 139-228, management.go 306-354).
THEOREM RescansAreCurrent ==
    ASSUME ~Overlap, NamesApart, ReachedOnce
    PROVE  Spec /\ []ReadsAsWritten => []RescanCurrent
<1>1. ScanInv => RescanCurrent
  BY DEF ScanInv
<1> QED  BY <1>1, ScanInductive, PTL

-----------------------------------------------------------------------------
(* Part 3: the files under state/, models.json and its neighbours, when a   *)
(* process keeps its mutex until the rename.                                *)

\* internal/source/manager.go, when no command of the CLI runs.
Guarded == Locked /\ \A p, q \in Processes : p = q

\* The call that is saving holds the mutex of a running process.
Holds == \A c \in Calls : step[c] \in Saving => holder[Home[c]] = c /\ state[Home[c]] = "up"

\* An inode that is yet to be created has no name.
Fresh == \A c \in Calls : step[c] \in {"idle", "marshal", "open"} => tmp # c /\ file # c

\* What a call has written so far is under the temporary name.
Staged ==
    \A c \in Calls :
        /\ step[c] \in {"write", "rename"} => tmp # Nothing /\ node[c] = tmp
        /\ step[c] = "write" => shape[node[c]] = "empty"
        /\ step[c] = "rename" => shape[node[c]] = "whole" /\ text[node[c]] = raw[c]

\* What is being saved is the map as it is now, the call's change included.
Current ==
    \A c \in Calls :
        /\ step[c] = "idle" => key[c] = Nothing
        /\ step[c] # "idle" => key[c] \in Keys
        /\ step[c] \in Saving => data[Home[c]][key[c]] = value[c]
        /\ step[c] \in {"open", "write", "rename"} => raw[c] = data[Home[c]]

\* A change reported done is in the map of the running process.
Remembered ==
    \A c \in Calls : step[c] = "returned" /\ Alone(c) /\ state[Home[c]] = "up"
        => data[Home[c]][key[c]] = value[c]

FileInv == /\ FileTypeOK /\ Holds /\ Fresh /\ Staged /\ Current
        /\ AlwaysLoads /\ Durable /\ Remembered /\ MemoryAgrees

USE StateFileAssumption

-----------------------------------------------------------------------------
\* The initial states satisfy the inductive invariant.
LEMMA InitFileInv == FileInit => FileInv
<1> SUFFICES ASSUME FileInit PROVE FileInv OBVIOUS
<1>1. FileTypeOK BY DEF FileInit, FileTypeOK, NoKeys, Maps
<1>2. Holds /\ Fresh /\ Staged /\ Current
  BY DEF FileInit, Holds, Fresh, Staged, Current, Saving
<1>3. AlwaysLoads /\ Durable /\ Remembered /\ MemoryAgrees
  BY DEF FileInit, AlwaysLoads, Durable, Remembered, MemoryAgrees, Loadable
<1> QED BY <1>1, <1>2, <1>3 DEF FileInv

\* Only one call is saving: two would hold the same mutex.
LEMMA OneSaver ==
    ASSUME Guarded, Holds, NEW c \in Calls, NEW d \in Calls,
           step[c] \in Saving, step[d] \in Saving
    PROVE  c = d
BY DEF Guarded, Holds

\* Types are preserved by every action, and the two names stay apart because
\* a new inode is one that has no name yet.
LEMMA FileTypeStep == FileTypeOK /\ Fresh /\ [FileNext]_fileVars => FileTypeOK'
<1> SUFFICES ASSUME FileTypeOK, Fresh, [FileNext]_fileVars PROVE FileTypeOK' OBVIOUS
<1> USE DEF FileTypeOK
<1>1. ASSUME NEW p \in Processes, StartProcess(p) PROVE FileTypeOK'
  <2>1. OnDisk \in Maps BY DEF OnDisk, NoKeys, Maps
  <2>2. data' \in [Processes -> Maps] BY <1>1, <2>1 DEF StartProcess
  <2>3. state' \in [Processes -> {"down", "up", "refused"}] BY <1>1 DEF StartProcess
  <2>4. UNCHANGED <<holder, step, key, value, raw, node, tmp, file, shape, text>>
    BY <1>1 DEF StartProcess, callVars, diskVars
  <2> QED BY <2>2, <2>3, <2>4
<1>2. ASSUME NEW p \in Processes, KillProcess(p) PROVE FileTypeOK'
  BY <1>2 DEF KillProcess, Saving, diskVars
<1>3. ASSUME NEW c \in Calls, NEW k \in Keys, NEW v \in Values \cup {Nothing}, Update(c, k, v)
      PROVE  FileTypeOK'
  BY <1>3 DEF Update, Goto, Saving, Maps, diskVars
<1>4. ASSUME NEW c \in Calls, Marshal(c) PROVE FileTypeOK'
  BY <1>4 DEF Marshal, Goto, Saving, diskVars
<1>5. ASSUME NEW c \in Calls, Open(c) PROVE FileTypeOK'
  BY <1>5 DEF Open, Goto, Saving, Fresh
<1>6. ASSUME NEW c \in Calls, Write(c) PROVE FileTypeOK'
  <2>1. UNCHANGED <<state, data, holder, key, value, raw, node, tmp, file>> BY <1>6 DEF Write
  <2>2. step' \in [Calls -> Saving \cup {"idle", "returned", "failed", "unsaved", "killed"}]
    BY <1>6 DEF Write, Goto, Saving
  <2>3. shape' \in [Calls -> {"empty", "whole", "mixed"}] BY <1>6 DEF Write
  <2>4. text' \in [Calls -> Maps] BY <1>6 DEF Write
  <2> QED BY <2>1, <2>2, <2>3, <2>4
<1>7. ASSUME NEW c \in Calls, Rename(c) PROVE FileTypeOK'
  BY <1>7 DEF Rename, Leave, Goto, Saving
<1>8. ASSUME NEW c \in Calls, Fail(c) PROVE FileTypeOK'
  BY <1>8 DEF Fail, Leave, Goto, Saving, diskVars
<1>9. CASE UNCHANGED fileVars BY <1>9 DEF fileVars, callVars, diskVars
<1> QED BY <1>1, <1>2, <1>3, <1>4, <1>5, <1>6, <1>7, <1>8, <1>9 DEF FileNext


-----------------------------------------------------------------------------
\* The steps that leave the disk alone.
LEMMA MemorySteps ==
    ASSUME Guarded, FileInv, FileTypeOK',
           \/ \E p \in Processes : StartProcess(p) \/ KillProcess(p)
           \/ \E c \in Calls : Marshal(c) \/ Fail(c)
           \/ UNCHANGED fileVars
    PROVE  FileInv'
<1> USE DEF FileInv, FileTypeOK
<1>1. ASSUME NEW p \in Processes, StartProcess(p) PROVE FileInv'
  <2> USE <1>1 DEF StartProcess, callVars, diskVars
  <2>1. \A q \in Processes : q = p BY DEF Guarded
  <2>2. Holds' BY DEF Holds
  <2>3. Fresh' /\ Staged' /\ AlwaysLoads' /\ Durable'
    BY DEF Fresh, Staged, AlwaysLoads, Loadable, Durable, Alone, OnDisk
  <2>4. \A c \in Calls : step[c] \notin Saving BY <2>1 DEF Holds
  <2>5. Current' BY <2>4 DEF Current, Saving
  <2>6. data'[p] = OnDisk BY DEF AlwaysLoads
  <2>7. Remembered' BY <2>1, <2>6 DEF Remembered, Durable, Alone
  <2>8. MemoryAgrees' BY <2>1, <2>6 DEF MemoryAgrees, Settled, OnDisk
  <2> QED BY <2>2, <2>3, <2>5, <2>7, <2>8
<1>2. ASSUME NEW p \in Processes, KillProcess(p) PROVE FileInv'
  <2> USE <1>2 DEF KillProcess, diskVars
  <2>1. \A q \in Processes : q = p BY DEF Guarded
  <2>2. \A c \in Calls : step'[c] \notin Saving BY <2>1 DEF Saving
  <2>3. Holds' BY <2>2 DEF Holds
  <2>4. Fresh' /\ Staged' BY DEF Fresh, Staged, Saving
  <2>5. Current' BY <2>2 DEF Current, Saving
  <2>6. AlwaysLoads' /\ Durable'
    BY DEF AlwaysLoads, Loadable, Durable, Alone, OnDisk, Saving
  <2>7. Remembered' BY <2>1 DEF Remembered
  <2>8. MemoryAgrees' BY <2>1 DEF MemoryAgrees
  <2> QED BY <2>3, <2>4, <2>5, <2>6, <2>7, <2>8
<1>3. ASSUME NEW d \in Calls, Marshal(d) PROVE FileInv'
  <2> USE <1>3 DEF Marshal, Goto, diskVars
  <2>1. Holds' BY DEF Holds, Saving
  <2>2. Fresh' /\ Staged' BY DEF Fresh, Staged
  <2>3. Current' BY DEF Current, Saving
  <2>4. AlwaysLoads' /\ Durable' /\ Remembered'
    BY DEF AlwaysLoads, Loadable, Durable, Remembered, Alone, OnDisk
  <2>5. MemoryAgrees' BY DEF MemoryAgrees, Settled, OnDisk
  <2> QED BY <2>1, <2>2, <2>3, <2>4, <2>5
<1>4. ASSUME NEW d \in Calls, Fail(d) PROVE FileInv'
  <2> USE <1>4 DEF Fail, Leave, Goto, diskVars
  <2>1. \A c \in Calls : step[c] \in Saving => c = d BY OneSaver DEF Saving
  <2>2. Holds' BY <2>1 DEF Holds, Saving
  <2>3. Fresh' /\ Staged' BY DEF Fresh, Staged
  <2>4. Current' BY DEF Current, Saving
  <2>5. AlwaysLoads' /\ Durable' /\ Remembered'
    BY DEF AlwaysLoads, Loadable, Durable, Remembered, Alone, OnDisk
  <2>6. MemoryAgrees' BY DEF MemoryAgrees, Settled, OnDisk
  <2> QED BY <2>2, <2>3, <2>4, <2>5, <2>6
<1>5. CASE UNCHANGED fileVars
  BY <1>5 DEF fileVars, callVars, diskVars, Holds, Fresh, Staged, Current, AlwaysLoads,
       Loadable, Durable, Remembered, MemoryAgrees, Alone, Settled, OnDisk
<1> QED BY <1>1, <1>2, <1>3, <1>4, <1>5

\* A change starts: nobody else is saving, and it is on a key of its own as
\* far as the changes that are still to be remembered go.
LEMMA UpdateStep ==
    ASSUME Guarded, FileInv, FileTypeOK',
           NEW d \in Calls, NEW k \in Keys, NEW v \in Values \cup {Nothing}, Update(d, k, v)
    PROVE  FileInv'
<1> USE DEF FileInv, FileTypeOK, Update, Goto, diskVars
<1>1. \A c \in Calls : step[c] \notin Saving BY DEF Holds, Guarded
<1>2. Locked /\ Home[d] \in Processes BY DEF Guarded
<1>3. Holds' BY <1>1, <1>2 DEF Holds
<1>4. Fresh' /\ Staged' BY <1>1 DEF Fresh, Staged, Saving
<1>5. data'[Home[d]][k] = v BY <1>2 DEF Maps
<1>6. Current' BY <1>1, <1>5 DEF Current, Saving
<1>7. AlwaysLoads' BY DEF AlwaysLoads, Loadable
<1>8. \A c \in Calls : step'[c] = "returned" /\ Alone(c)'
        => c # d /\ step[c] = "returned" /\ Alone(c) /\ key[c] # k /\ key[c] \in Keys
  BY DEF Alone, Current
<1>9. Durable' BY <1>8 DEF Durable, Loadable, OnDisk
<1>10. Remembered' BY <1>2, <1>8 DEF Remembered, Maps
<1>11. MemoryAgrees'
  <2>1. \A p \in Processes : p = Home[d] BY <1>2 DEF Guarded
  <2> QED BY <2>1 DEF MemoryAgrees, Settled
<1> QED BY <1>3, <1>4, <1>6, <1>7, <1>9, <1>10, <1>11

\* The steps of a save touch only the inode under the temporary name.
LEMMA DiskSteps ==
    ASSUME Guarded, FileInv, FileTypeOK', NEW d \in Calls, Open(d) \/ Write(d)
    PROVE  FileInv'
<1> USE DEF FileInv, FileTypeOK, Goto
<1>1. \A c \in Calls : step[c] \in Saving => c = d BY OneSaver DEF Open, Write, Saving
<1>2. CASE Open(d)
  <2> USE <1>2 DEF Open
  <2>1. PICK n \in Calls : /\ n = IF tmp = Nothing THEN d ELSE tmp
                           /\ n # Nothing /\ n # file /\ node' = [node EXCEPT ![d] = n] /\ tmp' = n
                           /\ shape' = [shape EXCEPT ![n] = "empty"]
    BY DEF Fresh
  <2>2. Holds' BY DEF Holds, Saving
  <2>3. Fresh' BY <1>1, <2>1 DEF Fresh, Saving
  <2>4. Staged' BY <1>1, <2>1 DEF Staged, Saving
  <2>5. Current' BY DEF Current, Saving
  <2>6. AlwaysLoads' /\ Durable' /\ Remembered'
    BY <2>1 DEF AlwaysLoads, Loadable, Durable, Remembered, Alone, OnDisk
  <2>7. MemoryAgrees' BY <2>1 DEF MemoryAgrees, Settled, OnDisk
  <2> QED BY <2>2, <2>3, <2>4, <2>5, <2>6, <2>7
<1>3. CASE Write(d)
  <2> USE <1>3 DEF Write
  <2>1. node[d] = tmp /\ tmp # file /\ node[d] \in Calls /\ shape[node[d]] = "empty"
    BY DEF Staged
  <2>2. shape' = [shape EXCEPT ![node[d]] = "whole"] BY <2>1
  <2>3. Holds' BY DEF Holds, Saving
  <2>4. Fresh' BY DEF Fresh
  <2>5. Staged' BY <1>1, <2>1, <2>2 DEF Staged, Saving
  <2>6. Current' BY DEF Current, Saving
  <2>7. AlwaysLoads' /\ Durable' /\ Remembered'
    BY <2>1, <2>2 DEF AlwaysLoads, Loadable, Durable, Remembered, Alone, OnDisk
  <2>8. MemoryAgrees' BY <2>1 DEF MemoryAgrees, Settled, OnDisk
  <2> QED BY <2>3, <2>4, <2>5, <2>6, <2>7, <2>8
<1> QED BY <1>2, <1>3

\* The rename puts the map as it is now under the file's name.
LEMMA RenameStep ==
    ASSUME Guarded, FileInv, FileTypeOK', NEW d \in Calls, Rename(d)
    PROVE  FileInv'
<1> USE DEF FileInv, FileTypeOK, Rename, Leave, Goto
<1>1. \A c \in Calls : step[c] \in Saving => c = d BY OneSaver DEF Saving
<1>2. \A p \in Processes : p = Home[d] BY DEF Guarded
<1>3. /\ tmp # Nothing /\ tmp \in Calls /\ shape[tmp] = "whole"
      /\ text[tmp] = data[Home[d]] /\ data[Home[d]][key[d]] = value[d]
      /\ state[Home[d]] = "up"
  BY DEF Staged, Current, Holds, Saving
<1>4. /\ step' = [step EXCEPT ![d] = "returned"] /\ file' = tmp /\ tmp' = Nothing BY <1>3
<1>5. OnDisk' = data[Home[d]] /\ Loadable' BY <1>3, <1>4 DEF OnDisk, Loadable
<1>6. Holds' BY <1>1, <1>4 DEF Holds, Saving
<1>7. Fresh' /\ Staged' BY <1>1, <1>4 DEF Fresh, Staged, Saving
<1>8. Current' BY <1>4 DEF Current, Saving
<1>9. AlwaysLoads' BY <1>5 DEF AlwaysLoads
<1>10. \A c \in Calls : step'[c] = "returned" /\ Alone(c)' => data[Home[c]][key[c]] = value[c]
  BY <1>2, <1>3, <1>4 DEF Remembered, Alone
<1>11. Durable' /\ Remembered' BY <1>2, <1>5, <1>10 DEF Durable, Remembered
<1>12. MemoryAgrees' BY <1>2, <1>5 DEF MemoryAgrees
<1> QED BY <1>6, <1>7, <1>8, <1>9, <1>11, <1>12

\* IInv is an inductive invariant of the guarded store.
LEMMA FileInductive == Guarded => (FileSpec => []FileInv)
<1> SUFFICES ASSUME Guarded PROVE FileSpec => []FileInv OBVIOUS
<1>1. FileInv /\ [FileNext]_fileVars => FileInv'
  <2> SUFFICES ASSUME FileInv, [FileNext]_fileVars PROVE FileInv' OBVIOUS
  <2>1. FileTypeOK' BY FileTypeStep DEF FileInv
  <2> QED BY <2>1, MemorySteps, UpdateStep, DiskSteps, RenameStep DEF FileNext
<1> QED BY InitFileInv, <1>1, PTL DEF FileSpec

-----------------------------------------------------------------------------
\* A daemon killed while it saves its sources starts again (manager.go 99-103).
THEOREM FilesLoad == Guarded => (FileSpec => []AlwaysLoads)
<1>1. FileInv => AlwaysLoads BY DEF FileInv
<1> QED BY FileInductive, <1>1, PTL

\* What Add, Remove, SetBuildCommand or Check reported done survives restarts
\* and the calls of others (manager.go 79-103, 125-191).
THEOREM ChangesLast == Guarded => (FileSpec => []Durable)
<1>1. FileInv => Durable BY DEF FileInv
<1> QED BY FileInductive, <1>1, PTL

\* When every call has answered without an error, the registry in memory is the
\* one in the file.
THEOREM MemoryIsSaved == Guarded => (FileSpec => []MemoryAgrees)
<1>1. FileInv => MemoryAgrees BY DEF FileInv
<1> QED BY FileInductive, <1>1, PTL
=============================================================================

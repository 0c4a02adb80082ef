----------------------------- MODULE StateFile ------------------------------
(***************************************************************************)
(* The JSON files under state/: a map in memory, each change of which is   *)
(* saved whole to "<file>.tmp" and renamed over the file, and which is     *)
(* loaded when the process starts.  internal/loadsettings/store.go and     *)
(* internal/source/manager.go differ in one thing, whether the mutex is    *)
(* kept while the file is written (Locked); the daemon and each command of *)
(* the CLI have a map of their own for the same file.                      *)
(*                                                                         *)
(* A directory entry names an inode, as on POSIX file systems: opening     *)
(* truncates the inode that has the name now, a write goes to the inode    *)
(* that was opened, and a rename gives it another name.  An inode is named *)
(* by the call that created it.                                            *)
(*                                                                         *)
(* The names differ from those of ModelScan: ModelScanProofs extends both. *)
(***************************************************************************)
EXTENDS Integers

CONSTANTS
    Processes,  \* processes of the program that use the file
    Calls,      \* Set, Add, Remove, ... calls
    Home,       \* the process each call is made in
    Quiet,      \* calls that report success whether or not their save did
    Keys, Values,
    Locked,     \* whether the mutex is held from the change to the rename
    CallsOverlap, \* whether calls may overlap
    Restarts,   \* whether processes are killed and started again
    Nothing     \* no call, no key

ASSUME StateFileAssumption ==
    /\ Home \in [Calls -> Processes]
    /\ Quiet \subseteq Calls
    /\ {Locked, CallsOverlap, Restarts} \subseteq BOOLEAN
    /\ Nothing \notin Calls \cup Keys \cup Values

Maps == [Keys -> Values \cup {Nothing}]   \* Nothing: the map has no such key

VARIABLES
    state,   \* of each process
    data,    \* the map of each process
    holder,  \* the call that holds a process's mutex across its steps
    step, key, value,
    raw,     \* what json.MarshalIndent returned to the call
    node,    \* the inode the call has open
    tmp, file, \* the inodes with the two names
    shape,   \* of an inode's contents: "empty", "whole" JSON or "mixed"
    text     \* the map that whole contents say

callVars == <<step, key, value, raw, node>>
diskVars == <<tmp, file, shape, text>>
fileVars == <<state, data, holder, callVars, diskVars>>

Saving == {"marshal", "open", "write", "rename"}

\* The types, and that the two names never share an inode.
FileTypeOK ==
    /\ state \in [Processes -> {"down", "up", "refused"}]
    /\ data \in [Processes -> Maps]
    /\ holder \in [Processes -> Calls \cup {Nothing}]
    /\ step \in [Calls -> Saving \cup {"idle", "returned", "failed", "unsaved", "killed"}]
    /\ key \in [Calls -> Keys \cup {Nothing}]
    /\ value \in [Calls -> Values \cup {Nothing}]
    /\ raw \in [Calls -> Maps]
    /\ node \in [Calls -> Calls \cup {Nothing}]
    /\ tmp \in Calls \cup {Nothing} /\ file \in Calls \cup {Nothing}
    /\ tmp # Nothing => tmp # file
    /\ shape \in [Calls -> {"empty", "whole", "mixed"}]
    /\ text \in [Calls -> Maps]

NoKeys == [k \in Keys |-> Nothing]

FileInit ==
    /\ state = [p \in Processes |-> "down"]
    /\ data = [p \in Processes |-> NoKeys]
    /\ holder = [p \in Processes |-> Nothing]
    /\ step = [c \in Calls |-> "idle"]
    /\ key = [c \in Calls |-> Nothing]
    /\ value = [c \in Calls |-> Nothing]
    /\ raw = [c \in Calls |-> NoKeys]
    /\ node = [c \in Calls |-> Nothing]
    /\ tmp = Nothing /\ file = Nothing
    /\ shape = [c \in Calls |-> "empty"]
    /\ text = [c \in Calls |-> NoKeys]

-----------------------------------------------------------------------------
(* NewStore, NewManager: a missing file is an empty map, one that is not   *)
(* JSON an error, with which the daemon does not start.                    *)

Loadable == file # Nothing => shape[file] = "whole"
OnDisk   == IF file = Nothing THEN NoKeys ELSE text[file]

StartProcess(p) ==
    /\ state[p] = "down"
    /\ IF Loadable
       THEN data' = [data EXCEPT ![p] = OnDisk] /\ state' = [state EXCEPT ![p] = "up"]
       ELSE state' = [state EXCEPT ![p] = "refused"] /\ UNCHANGED data
    /\ UNCHANGED <<holder, callVars, diskVars>>

KillProcess(p) ==
    /\ Restarts /\ state[p] = "up"
    /\ state' = [state EXCEPT ![p] = "down"]
    /\ holder' = [holder EXCEPT ![p] = Nothing]
    /\ step' = [c \in Calls |-> IF Home[c] = p /\ step[c] \in Saving THEN "killed" ELSE step[c]]
    /\ UNCHANGED <<data, key, value, raw, node, diskVars>>

-----------------------------------------------------------------------------
(* One call: change the map, then save.                                    *)

MayCall == CallsOverlap \/ \A c \in Calls : step[c] \notin Saving

Goto(c, label) == step' = [step EXCEPT ![c] = label]
Leave(c, label) ==
    /\ Goto(c, label)
    /\ holder' = IF Locked THEN [holder EXCEPT ![Home[c]] = Nothing] ELSE holder

\* Mutant: the mutex is only held for the change.
UpdateReleasing(c, k, v) ==
    /\ step[c] = "idle" /\ MayCall
    /\ state[Home[c]] = "up" /\ holder[Home[c]] = Nothing
    /\ key' = [key EXCEPT ![c] = k]
    /\ value' = [value EXCEPT ![c] = v]
    /\ data' = [data EXCEPT ![Home[c]][k] = v]
    /\ Goto(c, "marshal")
    /\ UNCHANGED <<state, holder, raw, node, diskVars>>

Update(c, k, v) ==
    /\ step[c] = "idle" /\ MayCall
    /\ state[Home[c]] = "up" /\ holder[Home[c]] = Nothing
    /\ key' = [key EXCEPT ![c] = k]
    /\ value' = [value EXCEPT ![c] = v]
    /\ data' = [data EXCEPT ![Home[c]][k] = v]
    /\ holder' = IF Locked THEN [holder EXCEPT ![Home[c]] = c] ELSE holder
    /\ Goto(c, "marshal")
    /\ UNCHANGED <<state, raw, node, diskVars>>

Marshal(c) ==
    /\ step[c] = "marshal"
    /\ raw' = [raw EXCEPT ![c] = data[Home[c]]]
    /\ Goto(c, "open")
    /\ UNCHANGED <<state, data, holder, key, value, node, diskVars>>

\* Mutant: the file itself is opened, there is no second name.
OpenInPlace(c) ==
    /\ step[c] = "open"
    /\ LET n == IF file = Nothing THEN c ELSE file IN
          /\ node' = [node EXCEPT ![c] = n]
          /\ tmp' = Nothing /\ file' = n
          /\ shape' = [shape EXCEPT ![n] = "empty"]
    /\ Goto(c, "write")
    /\ UNCHANGED <<state, data, holder, key, value, raw, text>>

\* os.WriteFile opens with O_CREATE and O_TRUNC...
Open(c) ==
    /\ step[c] = "open"
    /\ LET n == IF tmp = Nothing THEN c ELSE tmp IN
          /\ node' = [node EXCEPT ![c] = n]
          /\ tmp' = n
          /\ shape' = [shape EXCEPT ![n] = "empty"]
    /\ Goto(c, "write")
    /\ UNCHANGED <<state, data, holder, key, value, raw, file, text>>

\* ... and writes from the start: over another call's longer text, the end of
\* that stays.
Write(c) ==
    /\ step[c] = "write"
    /\ \/ shape' = [shape EXCEPT ![node[c]] = "whole"]
       \/ /\ \/ shape[node[c]] = "mixed"
             \/ shape[node[c]] = "whole" /\ text[node[c]] # raw[c]
          /\ shape' = [shape EXCEPT ![node[c]] = "mixed"]
    /\ text' = [text EXCEPT ![node[c]] = raw[c]]
    /\ Goto(c, "rename")
    /\ UNCHANGED <<state, data, holder, key, value, raw, node, tmp, file>>

\* Mutant: a second link instead of a rename.
RenameLinking(c) ==
    /\ step[c] = "rename" /\ tmp # Nothing
    /\ file' = tmp /\ Leave(c, "returned")
    /\ UNCHANGED <<state, data, key, value, raw, node, tmp, shape, text>>

Rename(c) ==
    /\ step[c] = "rename"
    /\ IF tmp = Nothing
       THEN Leave(c, "failed") /\ UNCHANGED <<tmp, file>>   \* no such file
       ELSE Leave(c, "returned") /\ file' = tmp /\ tmp' = Nothing
    /\ UNCHANGED <<state, data, key, value, raw, node, shape, text>>

\* MkdirAll, the open or the write fails; the map stays changed.  Check and
\* EnsureCheckout drop the error (manager.go:246), and so does the handler of a
\* build for SetBuildCommand's (management.go:126): "unsaved", though their
\* callers are told that all went well.
Fail(c) ==
    /\ step[c] \in {"open", "write"}
    /\ Leave(c, IF c \in Quiet THEN "unsaved" ELSE "failed")
    /\ UNCHANGED <<state, data, key, value, raw, node, diskVars>>

-----------------------------------------------------------------------------
FileNext ==
    \/ \E p \in Processes : StartProcess(p) \/ KillProcess(p)
    \/ \E c \in Calls, k \in Keys, v \in Values \cup {Nothing} : Update(c, k, v)
    \/ \E c \in Calls : Marshal(c) \/ Open(c) \/ Write(c) \/ Rename(c) \/ Fail(c)

FileSpec == FileInit /\ [][FileNext]_fileVars

-----------------------------------------------------------------------------
(* Properties.  They need the mutex kept, or calls that do not overlap, and *)
(* a single process.                                                       *)

\* A kill at any moment leaves a file that the next start can load.
AlwaysLoads == Loadable

\* A change whose save succeeded is in the file from then on, whatever other
\* calls, failures and restarts come after it, until another call changes the
\* same key.  For all calls but the quiet ones that is what reporting success
\* means.
Alone(c) == \A d \in Calls \ {c} : key[d] # key[c]
Durable ==
    \A c \in Calls : step[c] = "returned" /\ Alone(c)
        => Loadable /\ OnDisk[key[c]] = value[c]

\* What is running agrees with what a restart would load, key by key, but for
\* the keys of calls that have failed or are not over.
Settled(p) == \A c \in Calls : Home[c] = p => step[c] \in {"idle", "returned"}
MemoryAgrees ==
    \A p \in Processes : state[p] = "up" /\ Settled(p)
        => data[p] = OnDisk

-----------------------------------------------------------------------------
(* A claim the code does not keep.                                         *)

\* Durable for every call that reports success, the quiet ones included: the
\* command of a build is saved for the next build's form (SPEC.md:220).
ReportedIsSaved ==
    \A c \in Calls : step[c] \in {"returned", "unsaved"} /\ Alone(c)
        => Loadable /\ OnDisk[key[c]] = value[c]
=============================================================================

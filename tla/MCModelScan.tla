---------------------------- MODULE MCModelScan -----------------------------
(* Instances of ModelScan for TLC. *)
EXTENDS ModelScan

AppDir   == <<"app">>
DriveDir == <<"drive">>
Hidden   == {".part"}

OneOf(dir, stem)          == [dir |-> dir, stem |-> stem, index |-> 0, total |-> 1]
ShardOf(dir, stem, i, n)  == [dir |-> dir, stem |-> stem, index |-> i, total |-> n]

NameOf ==
    "one"   :> ShardOf(<<"drive", "big">>, "big", 1, 2) @@
    "two"   :> ShardOf(<<"drive", "big">>, "big", 2, 2) @@
    "part"  :> OneOf(<<"drive", ".part">>, "solo") @@
    "whole" :> OneOf(<<"drive", "big">>, "big") @@
    "solo"  :> OneOf(DriveDir, "solo")
InOrder    == "part" :> 1 @@ "one" :> 2 @@ "two" :> 3 @@ "solo" :> 5
Everything == {"part", "one", "two", "solo"}
\* The split again in one file, beside its shards.
BesideOrder == InOrder @@ "whole" :> 4
Beside      == Everything \cup {"whole"}
Movable    == {"solo", "two"}

Pair(key, v) == [key |-> key, val |-> v]
Arch(a)      == Pair(KeyArchitecture, ScalarOf(TypeString, a))
Llama        == <<Arch(<<3>>)>>

\* Each kind of value a reader has to take or skip before the architecture.
EveryKind ==
    <<Pair(<<2>>, ScalarOf(TypeUint32, <<1, 2, 3, 4>>)),
      Pair(<<4>>, FixedArray(TypeUint16, 2)),
      Pair(<<5>>, FixedArray(TypeUint64, 0)),
      Pair(<<6>>, StringArray(<<<<>>, <<4, 5>>>>)),
      Pair(<<7>>, NestedArray(<<FixedArray(TypeUint8, 1), StringArray(<<<<6>>>>)>>)),
      Arch(<<3, 3>>)>>

\* An array whose length in bytes is zero as an int64.
Huge == <<Pair(<<5>>, FixedArray(TypeUint64, 8)), Arch(<<3>>)>>

Usual       == {[f \in Everything |-> IF f = "solo" THEN EveryKind ELSE Llama]}
UsualBeside == {[f \in Beside |-> Llama]}
Plain       == {[f \in Everything |-> Llama]}
UsualHuge   == {[f \in Everything |-> IF f = "solo" THEN Huge ELSE Llama]}

\* The drive to any depth; its top only, with a shard as a file of its own.
Reachable == {[scanDirs |-> <<AppDir, DriveDir>>, depth |-> -1, roots |-> <<>>, files |-> <<>>],
              [scanDirs |-> <<>>, depth |-> -1, roots |-> <<[path |-> DriveDir, depth |-> 0]>>,
               files |-> <<"one">>]}
\* The drive twice, as a directory and as a root.
Nested == {[scanDirs |-> <<DriveDir>>, depth |-> -1, roots |-> <<[path |-> DriveDir, depth |-> -1]>>,
            files |-> <<>>]}

\* What RescansAreCurrent assumes is so of this run.  Beside and Nested are
\* what it rules out.
ASSUME SourcesAreUsual ==
    Files = Everything /\ SourceSets = Reachable => NamesApart /\ ReachedOnce
=============================================================================

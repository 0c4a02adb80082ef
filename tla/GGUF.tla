-------------------------------- MODULE GGUF --------------------------------
(***************************************************************************)
(* internal/gguf/gguf.go: the reader of a model file's header.             *)
(*                                                                         *)
(* A file is a sequence of cells.  Each integer of the format itself (the  *)
(* magic number, counts, lengths and types) takes one cell whatever its    *)
(* width in bytes, a value of type t takes fixedSizes[t] cells and a       *)
(* string one cell per byte.  An int64 has Width bits here, not 64.        *)
(* A reader takes the position of the next cell and returns the position   *)
(* after what it read, or Failed.                                          *)
(***************************************************************************)
EXTENDS Integers, SequencesExt

CONSTANTS
    Width,        \* bits of an int64
    MaxStringLen  \* maxStringLen

ASSUME GGUFAssumption == Width \in Nat \ {0} /\ MaxStringLen \in Nat

Magic      == 7
Versions   == {2, 3}
TypeUint8  == 0
TypeUint16 == 2
TypeUint32 == 4
TypeString == 8
TypeArray  == 9
TypeUint64 == 10
fixedSizes == [t \in (0 .. 12) \ {TypeString, TypeArray} |->
                  CASE t \in {0, 1, 7}      -> 1
                    [] t \in {2, 3}         -> 2
                    [] t \in {4, 5, 6}      -> 4
                    [] t \in {10, 11, 12}   -> 8]

Failed == 0

\* Two's complement: the value of x in an int64.
Int64(x) == LET m == x % 2 ^ Width
            IN IF m < 2 ^ (Width - 1) THEN m ELSE m - 2 ^ Width

\* io.ReadFull and io.CopyN: n more cells, or an error at the end of the file.
Take(s, p, n) == IF p + n <= Len(s) + 1 THEN p + n ELSE Failed

readString(s, p) ==
    IF p > Len(s) \/ s[p] > MaxStringLen THEN Failed ELSE Take(s, p + 1, s[p])

\* Mutants: the elements of an array are not counted by their size; the
\* elements of an array of strings are skipped as if they were empty.
SkipCounting(s) ==
    LET skip[p \in 1 .. Len(s) + 1, t \in Nat, n \in Nat] == Take(s, p, n) IN skip
SkipStringsEmpty(s) ==
    LET skip[p \in 1 .. Len(s) + 1, t \in Nat, n \in Nat] ==
        IF t \in DOMAIN fixedSizes
        THEN Take(s, p, Int64(fixedSizes[t] * n))
        ELSE Take(s, p, n)
    IN skip

\* skipArray at p, for n elements of type t.  A length that is not positive
\* as an int64 is taken as nothing left to skip.
skipArray(s) ==
    LET skip[p \in 1 .. Len(s) + 1, t \in Nat, n \in Nat] ==
        CASE n = 0 -> p
          [] n > 0 /\ t \in DOMAIN fixedSizes ->
                LET remaining == Int64(fixedSizes[t] * n)
                IN IF remaining > 0 THEN Take(s, p, remaining) ELSE p
          [] n > 0 /\ t = TypeString ->
                LET q == readString(s, p)
                IN IF q = Failed THEN Failed ELSE skip[q, t, n - 1]
          [] n > 0 /\ t = TypeArray ->
                LET q == IF p + 1 > Len(s) THEN Failed ELSE skip[p + 2, s[p], s[p + 1]]
                IN IF q = Failed THEN Failed ELSE skip[q, t, n - 1]
          [] OTHER -> Failed
    IN skip

\* readValue at p, with readScalar: the value and the position after it.
readValue(s, p) ==
    LET Nothing == [next |-> Failed, value |-> <<>>]
        Scalar(first, q) == [next |-> q, value |-> [type |-> s[p], scalar |-> SubSeq(s, first, q - 1)]]
    IN CASE p > Len(s) -> Nothing
         [] p <= Len(s) /\ s[p] = TypeArray ->
               IF p + 2 > Len(s) THEN Nothing
               ELSE [next  |-> skipArray(s)[p + 3, s[p + 1], s[p + 2]],
                     value |-> [type |-> TypeArray, elem |-> s[p + 1], len |-> s[p + 2]]]
         [] p <= Len(s) /\ s[p] = TypeString ->
               LET q == readString(s, p + 1)
               IN IF q = Failed THEN Nothing ELSE Scalar(p + 2, q)
         [] p <= Len(s) /\ s[p] \in DOMAIN fixedSizes ->
               LET q == Take(s, p + 1, fixedSizes[s[p]])
               IN IF q = Failed THEN Nothing ELSE Scalar(p + 1, q)
         [] OTHER -> Nothing

\* readHeader: the metadata, a function of the keys, or an error.  A key that
\* comes twice has its last value.
Unread == [ok |-> FALSE, metadata |-> << >>]

readHeader(s) ==
    LET Pair(h) ==
            LET q == readString(s, h.next)
                v == readValue(s, q)
            IN IF q = Failed THEN [h EXCEPT !.next = Failed]
               ELSE [next |-> v.next,
                     metadata |-> SubSeq(s, h.next + 1, q - 1) :> v.value @@ h.metadata]
        kv[i \in Nat] ==
            IF i = 0 THEN [next |-> 5, metadata |-> << >>]
            ELSE LET h == kv[i - 1] IN IF h.next = Failed THEN h ELSE Pair(h)
    IN IF Len(s) < 4 \/ s[1] # Magic \/ s[2] \notin Versions THEN Unread
       ELSE LET h == kv[s[4]]
            IN IF h.next = Failed THEN Unread ELSE [ok |-> TRUE, metadata |-> h.metadata]

\* File.String of a key: empty when it is missing or not a string.
String(f, key) ==
    IF key \in DOMAIN f.metadata /\ f.metadata[key].type = TypeString
    THEN f.metadata[key].scalar ELSE <<>>

-----------------------------------------------------------------------------
(* What a writer puts into a header, to compare the reader with: a value   *)
(* together with the cells it is written as.                               *)

Cells(n) == [i \in 1 .. n |-> 1]
StringCells(x) == <<Len(x)>> \o x

ScalarOf(t, x) == [value |-> [type |-> t, scalar |-> x],
                   cells |-> <<t>> \o (IF t = TypeString THEN StringCells(x) ELSE x)]

ArrayOf(t, n, cells) == [value |-> [type |-> TypeArray, elem |-> t, len |-> n],
                         cells |-> <<TypeArray, t, n>> \o cells]
FixedArray(t, n)  == ArrayOf(t, n, Cells(fixedSizes[t] * n))
StringArray(xs)   == ArrayOf(TypeString, Len(xs), FlattenSeq([i \in DOMAIN xs |-> StringCells(xs[i])]))
NestedArray(vs)   == ArrayOf(TypeArray, Len(vs), FlattenSeq([i \in DOMAIN vs |-> Tail(vs[i].cells)]))

\* A header of the pairs kvs, [key, val] with different keys: its cells, and
\* the metadata a reader should find there.
HeaderCells(kvs) ==
    <<Magic, 3, 0, Len(kvs)>>
        \o FlattenSeq([i \in DOMAIN kvs |-> StringCells(kvs[i].key) \o kvs[i].val.cells])
HeaderData(kvs) ==
    [k \in {kvs[i].key : i \in DOMAIN kvs} |->
        kvs[CHOOSE i \in DOMAIN kvs : kvs[i].key = k].val.value]
=============================================================================

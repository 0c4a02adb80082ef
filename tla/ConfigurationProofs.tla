------------------------ MODULE ConfigurationProofs -------------------------
(***************************************************************************)
(* For any tables, requests and flags: where requests do not overlap, what *)
(* runs is what is saved, and the daemon starts again but after a write    *)
(* that is cut short; and where nothing goes wrong, the layers override    *)
(* each other and lists are appended to as Merge means it.                 *)
(***************************************************************************)
EXTENDS Configuration, TLAPS

\* The shape of what the requests hold.
Shape ==
    /\ pc \in [Puts -> Working \cup {"idle", "answered", "refused", "failed", "broken", "killed", "cut"}]
    /\ next = [p \in Puts |-> next[p]]

\* Requests are answered one at a time, by a daemon that runs.
OneAtATime ==
    /\ \A p, q \in UnderWay : p = q
    /\ state # "up" => UnderWay = {}

\* What is saved can be loaded, and loading it gives c.
Saved(c) == file # Torn /\ c \in Loads(file, flags)

\* What runs is saved, but from the truncation of the file to the setting of
\* what was loaded; and that is saved when it is set.
SavedBetween ==
    /\ state = "up" /\ ~Failed /\ (\A p \in Puts : pc[p] \notin {"write", "load", "set"}) => Saved(live)
    /\ \A p \in Puts : pc[p] = "set" => Saved(next[p])

\* The supervisor's range is the live one, but from the setting to the telling.
RangeBetween ==
    /\ state = "up" /\ (\A p \in Puts : pc[p] # "apply") /\ Accepted(live[PortRange])
          => range = live[PortRange]
    /\ \A p \in Puts : pc[p] = "apply" => next[p] = live

IInv == Shape /\ (disturbed # "puts" => OneAtATime /\ SavedBetween /\ RangeBetween)

-----------------------------------------------------------------------------
\* The initial states satisfy the invariant.
LEMMA InitIInv == Init => IInv
BY DEF Init, IInv, Shape, OneAtATime, SavedBetween, RangeBetween, UnderWay, Working

\* A daemon that has started runs what the file and its flags come to, and its
\* supervisor has the range, or one of its own for a range of another length.
LEMMA StartStep ==
    ASSUME Shape, OneAtATime, SavedBetween, Start
    PROVE  OneAtATime' /\ SavedBetween' /\ RangeBetween'
<1>1. UnderWay = {} /\ UNCHANGED <<disturbed, flags, file, pc, next>>
  BY DEF Start, OneAtATime, callVars
<1>2. \A p \in Puts : pc[p] \notin Working BY <1>1 DEF UnderWay
<1>3. state' = "up" => /\ Saved(live')
                       /\ Accepted(live'[PortRange]) => range' = live'[PortRange]
  BY DEF Start, Saved, Accepted
<1>4. OneAtATime' BY <1>1 DEF OneAtATime, UnderWay
<1>5. SavedBetween' BY <1>1, <1>2, <1>3 DEF SavedBetween, Saved, Working
<1>6. RangeBetween' BY <1>1, <1>2, <1>3 DEF RangeBetween, Working
<1> QED BY <1>4, <1>5, <1>6

\* A daemon that ends takes the request it was answering with it.
LEMMA StopStep ==
    ASSUME Shape, OneAtATime, SavedBetween, Stop
    PROVE  OneAtATime' /\ SavedBetween' /\ RangeBetween'
<1>1. state' # "up" /\ \A p \in Puts : pc'[p] \notin Working
  BY DEF Stop, UnderWay, Working
<1> QED BY <1>1 DEF OneAtATime, SavedBetween, RangeBetween, UnderWay, Working

\* A request begins when no other is being answered.
LEMMA PutStep ==
    ASSUME Shape, OneAtATime, SavedBetween, RangeBetween, disturbed # "puts",
           NEW p \in Puts, NEW b \in Bodies, Put(p, b)
    PROVE  OneAtATime' /\ SavedBetween' /\ RangeBetween'
<1>1. /\ state = "up" /\ \A q \in Puts : pc[q] \notin Working
      /\ UNCHANGED <<state, flags, live, range, file, next>> /\ pc[p] = "idle"
  BY DEF Put, UnderWay
<1>2. PICK label \in {"open", "refused"} : pc' = [pc EXCEPT ![p] = label]
  BY DEF Put, Goto
<1>3. \A q \in Puts : pc'[q] \notin Working \ {"open"}
  BY <1>1, <1>2 DEF Shape, Working
<1>4. OneAtATime' BY <1>1, <1>2 DEF Shape, OneAtATime, UnderWay
<1>5. SavedBetween'
  <2>1. ~Failed => Saved(live) BY <1>1 DEF SavedBetween, Working
  <2>2. Failed => Failed' BY <1>1, <1>2 DEF Failed, Shape
  <2>3. Saved(live) => Saved(live)' BY <1>1 DEF Saved
  <2> QED BY <1>3, <2>1, <2>2, <2>3 DEF SavedBetween, Working
<1>6. RangeBetween' BY <1>1, <1>3 DEF RangeBetween, Working
<1> QED BY <1>4, <1>5, <1>6

\* A request goes on while no other is being answered.
LEMMA Alone ==
    ASSUME Shape, OneAtATime, NEW p \in Puts, pc[p] \in Working
    PROVE  state = "up" /\ \A q \in Puts : q # p => pc[q] \notin Working
BY DEF OneAtATime, UnderWay

\* SaveOverlay and reload: what they leave in the file, what they load of it
\* and what of that is set.
LEMMA RequestStep ==
    ASSUME Shape, OneAtATime, SavedBetween, RangeBetween, NEW p \in Puts,
           Open(p) \/ Write(p) \/ Fail(p) \/ Load(p) \/ Set(p) \/ Apply(p)
    PROVE  OneAtATime' /\ SavedBetween' /\ RangeBetween'
<1>1. pc[p] \in Working /\ UNCHANGED <<state, flags>>
  BY DEF Open, Write, Fail, Load, Set, Apply, Working
<1>2. state = "up" /\ \A q \in Puts : q # p => pc[q] \notin Working
  BY <1>1, Alone
<1>3. PICK label : pc' = [pc EXCEPT ![p] = label]
  BY DEF Open, Write, Fail, Load, Set, Apply, Goto
<1>4. pc'[p] = label /\ \A q \in Puts : q # p => pc'[q] = pc[q] /\ pc'[q] \notin Working
  BY <1>2, <1>3 DEF Shape
<1>5. OneAtATime' BY <1>1, <1>2, <1>4 DEF OneAtATime, UnderWay
<1> DEFINE Goal == SavedBetween' /\ RangeBetween'
<1>6. ASSUME Open(p) \/ Write(p) PROVE Goal
  <2>1. pc[p] # "apply" /\ label \in {"write", "load"} /\ UNCHANGED <<live, range, next>>
    BY <1>4, <1>6 DEF Open, Write, Goto, Shape
  <2>2. SavedBetween' BY <1>4, <2>1 DEF SavedBetween, Working
  <2>3. RangeBetween' BY <1>1, <1>2, <1>4, <2>1 DEF RangeBetween, Working
  <2> QED BY <2>2, <2>3
<1>7. ASSUME Fail(p) PROVE Goal
  <2>1. UNCHANGED <<live, range, next>> /\ pc[p] \in {"open", "write"}
    BY <1>7 DEF Fail
  <2>2. (pc[p] = "open" /\ label = "refused" /\ UNCHANGED file) \/ label = "broken"
    BY <1>4, <1>7 DEF Fail, Goto, Shape
  <2>3. CASE pc[p] = "open" /\ label = "refused" /\ UNCHANGED file
    <3>1. Failed => Failed' BY <1>4, <2>3 DEF Failed
    <3>2. ~Failed => Saved(live) BY <1>2, <2>3 DEF SavedBetween, Working
    <3>3. Saved(live) => Saved(live)' BY <1>1, <2>1, <2>3 DEF Saved
    <3> QED BY <1>2, <1>4, <2>1, <2>3, <3>1, <3>2, <3>3 DEF SavedBetween, RangeBetween, Working
  <2>4. CASE label = "broken"
    <3>1. Failed' BY <1>4, <2>4 DEF Failed
    <3> QED BY <1>1, <1>2, <1>4, <2>1, <2>4, <3>1 DEF SavedBetween, RangeBetween, Working
  <2> QED BY <2>2, <2>3, <2>4
<1>8. ASSUME Load(p) PROVE Goal
  <2>1. UNCHANGED <<live, range, file>> /\ pc[p] = "load" BY <1>8 DEF Load
  <2>2. \/ label = "failed"
        \/ label = "set" /\ file # Torn /\ \E c \in Loads(file, flags) : next'[p] = c
    <3>1. CASE pc' = [pc EXCEPT ![p] = "failed"] BY <1>4, <3>1 DEF Shape
    <3>2. CASE /\ file # Torn /\ pc' = [pc EXCEPT ![p] = "set"]
               /\ \E c \in Loads(file, flags) : next' = [next EXCEPT ![p] = c]
      <4>1. label = "set" BY <1>4, <3>2 DEF Shape
      <4>2. PICK c \in Loads(file, flags) : next' = [next EXCEPT ![p] = c] BY <3>2
      <4>3. next'[p] = c BY <4>2 DEF Shape
      <4> QED BY <3>2, <4>1, <4>3
    <3> QED BY <1>8, <3>1, <3>2 DEF Load, Goto
  <2>3. CASE label = "failed"
    <3>1. Failed' BY <1>4, <2>3 DEF Failed
    <3> QED BY <1>2, <1>4, <2>1, <2>3, <3>1 DEF SavedBetween, RangeBetween, Working
  <2>4. CASE label = "set" /\ file # Torn /\ \E c \in Loads(file, flags) : next'[p] = c
    <3>1. Saved(next[p])' BY <1>1, <2>1, <2>4 DEF Saved
    <3>2. SavedBetween' BY <1>4, <2>4, <3>1 DEF SavedBetween, Working
    <3>3. RangeBetween' BY <1>2, <1>4, <2>1, <2>4 DEF RangeBetween, Working
    <3> QED BY <3>2, <3>3
  <2> QED BY <2>2, <2>3, <2>4
<1>9. ASSUME Set(p) PROVE Goal
  <2>1. live' = next[p] /\ UNCHANGED <<range, file, next>> /\ pc[p] = "set" /\ label = "apply"
    BY <1>4, <1>9 DEF Set, Goto, Shape
  <2>2. Saved(live)' BY <1>1, <2>1 DEF SavedBetween, Saved
  <2>3. SavedBetween' BY <1>4, <2>1, <2>2 DEF SavedBetween, Working
  <2>4. RangeBetween' BY <1>4, <2>1 DEF RangeBetween, Working
  <2> QED BY <2>3, <2>4
<1>10. ASSUME Apply(p) PROVE Goal
  <2>1. UNCHANGED <<live, file>> /\ pc[p] = "apply" /\ label = "answered"
    BY <1>4, <1>10 DEF Apply, Goto, Shape
  <2>2. Accepted(live[PortRange]) => range' = live[PortRange]
    BY <1>10, <2>1 DEF Apply, RangeBetween
  <2>3. Failed => Failed' BY <1>4, <2>1 DEF Failed
  <2>4. ~Failed => Saved(live) BY <1>2, <2>1 DEF SavedBetween, Working
  <2>5. Saved(live) => Saved(live)' BY <1>1, <2>1 DEF Saved
  <2>6. SavedBetween' BY <1>4, <2>1, <2>3, <2>4, <2>5 DEF SavedBetween, Working
  <2>7. RangeBetween' BY <1>4, <2>1, <2>2 DEF RangeBetween, Working, Accepted
  <2> QED BY <2>6, <2>7
<1> QED BY <1>5, <1>6, <1>7, <1>8, <1>9, <1>10

\* The shape is kept, whatever overlaps.
LEMMA ShapeStep == Shape /\ [Next]_vars => Shape'
<1> SUFFICES ASSUME Shape, [Next]_vars PROVE Shape' OBVIOUS
<1>1. CASE Start \/ UNCHANGED vars
  <2>1. UNCHANGED <<pc, next>> BY <1>1 DEF Start, vars, callVars
  <2> QED BY <2>1 DEF Shape
<1>2. CASE Stop BY <1>2 DEF Stop, Shape, Working
<1>3. ASSUME NEW p \in Puts, NEW b \in Bodies, Put(p, b) PROVE Shape'
  BY <1>3 DEF Put, Goto, Shape, Working
<1>4. ASSUME NEW p \in Puts, Open(p) \/ Write(p) \/ Fail(p) \/ Load(p) \/ Set(p) \/ Apply(p) PROVE Shape'
  <2>1. PICK label \in Working \cup {"answered", "refused", "failed", "broken"} : pc' = [pc EXCEPT ![p] = label]
    BY <1>4 DEF Open, Write, Fail, Load, Set, Apply, Goto, Working
  <2>2. next' = next \/ \E c : next' = [next EXCEPT ![p] = c]
    BY <1>4 DEF Open, Write, Fail, Load, Set, Apply
  <2> QED BY <2>1, <2>2 DEF Shape
<1> QED BY <1>1, <1>2, <1>3, <1>4 DEF Next

\* What is disturbed in a behaviour does not change.
LEMMA DisturbedStays == [Next]_vars => disturbed' = disturbed
BY DEF Next, vars, Start, Stop, Put, Open, Write, Fail, Load, Set, Apply

\* The invariant holds in every state.
LEMMA Inductive == Spec => []IInv
<1>1. IInv /\ [Next]_vars => IInv'
  <2> SUFFICES ASSUME Shape, OneAtATime, SavedBetween, RangeBetween, disturbed # "puts", [Next]_vars
               PROVE  OneAtATime' /\ SavedBetween' /\ RangeBetween'
    BY ShapeStep, DisturbedStays DEF IInv
  <2>1. CASE UNCHANGED vars
    BY <2>1 DEF vars, callVars, OneAtATime, SavedBetween, RangeBetween, Saved, Failed, UnderWay
  <2> QED BY <2>1, StartStep, StopStep, PutStep, RequestStep DEF Next
<1> QED BY <1>1, InitIInv, PTL DEF Spec

-----------------------------------------------------------------------------
\* What runs is what the next start would load, when no request is being
\* answered and none has failed: updateConfig saves first and reloads after.
THEOREM WhatRunsIsSaved == Spec => []SavedIsLive
<1>1. IInv => SavedIsLive
  BY DEF IInv, SavedBetween, Saved, SavedIsLive, Settled, UnderWay, Working
<1> QED BY <1>1, Inductive, PTL

\* The supervisor's port range is the live one, if that is one it takes:
\* handleConfigPut tells it after every reload, and cmdServe at the start.
THEOREM RangesFollow == Spec => []RangeFollows
<1>1. IInv => RangeFollows
  BY DEF IInv, RangeBetween, RangeFollows, Settled, UnderWay, Working
<1> QED BY <1>1, Inductive, PTL

-----------------------------------------------------------------------------
(* Merge, key by key.                                                      *)

Has(l, k) == {Name(k), Plus(k)} \cap DOMAIN l # {}

\* A layer all of whose values have their types.
IsSound(l) == IsLayer(l) /\ IsTyped(l)

\* What Merge gives a key: the overlay's value, or the base's, with the
\* addition behind it.
Merged(base, over, late, k) ==
    LET given == IF Name(k) \in DOMAIN over THEN over[Name(k)]
                 ELSE IF Name(k) \in DOMAIN base THEN base[Name(k)] ELSE None
    IN  IF Plus(k) \in DOMAIN over /\ (k \in late \/ Name(k) \notin DOMAIN over)
        THEN AppendValue(given, over[Plus(k)]) ELSE given

\* Names and additions are told apart, and each belongs to its key.
LEMMA EntryKeys ==
    /\ \A k, j \in Keys : Name(k) # Plus(j) /\ (Name(k) = Name(j) => k = j) /\ (Plus(k) = Plus(j) => k = j)
    /\ \A k \in Keys : Name(k)[2] = k /\ Plus(k)[2] = k /\ Name(k) \in Entries
    /\ \A e \in Entries : e[2] \in Keys /\ (e = Name(e[2]) \/ (e = Plus(e[2]) /\ e[2] \in ListKeys))
<1>1. \A k, j \in Keys : Name(k) # Plus(j) /\ (Name(k) = Name(j) => k = j) /\ (Plus(k) = Plus(j) => k = j)
  BY DEF Name, Plus
<1>2. \A k \in Keys : Name(k)[2] = k /\ Plus(k)[2] = k /\ Name(k) \in Entries
  BY DEF Name, Plus, Entries
<1>3. ASSUME NEW e \in Entries
      PROVE  e[2] \in Keys /\ (e = Name(e[2]) \/ (e = Plus(e[2]) /\ e[2] \in ListKeys))
  <2>1. ListKeys \subseteq Keys  BY ConfigurationAssumption
  <2>2. CASE e \in {Name(k) : k \in Keys}
    BY <1>2, <2>2 
  <2>3. CASE e \in {Plus(k) : k \in ListKeys}
    BY <1>2, <2>1, <2>3
  <2> QED  BY <2>2, <2>3 DEF Entries
<1> QED  BY <1>1, <1>2, <1>3

\* In a table that the base has, "+" entries stay the base's.
LEMMA MergeNested ==
    ASSUME NEW base, NEW over, NEW late, IsLayer(base), IsLayer(over),
           NEW k \in Keys, HasTable(base, TableOf[k])
    PROVE  LET m == Merge(base, over, late) IN
           /\ Plus(k) \in DOMAIN m <=> Plus(k) \in DOMAIN base
           /\ Plus(k) \in DOMAIN base => m[Plus(k)] = base[Plus(k)]
           /\ Name(k) \in DOMAIN m <=> Name(k) \in DOMAIN base \/ Has(over, k)
           /\ Has(over, k) => m[Name(k)] = Merged(base, over, late, k)
           /\ ~Has(over, k) /\ Name(k) \in DOMAIN base => m[Name(k)] = base[Name(k)]
<1> DEFINE m == Merge(base, over, late)
           nested == {e \in Entries : HasTable(base, TableOf[e[2]])}
           named == {Name(e[2]) : e \in DOMAIN over \cap nested}
<1>1. DOMAIN m = DOMAIN base \cup named \cup (DOMAIN over \ nested)
  BY DEF Merge
<1>2. ASSUME NEW e \in DOMAIN m, e \in nested
      PROVE  m[e] = IF e \in named THEN Merged(base, over, late, e[2]) ELSE base[e]
  BY <1>2 DEF Merge, Merged
<1>3. Name(k) \in nested /\ (Plus(k) \in Entries => Plus(k) \in nested)
  BY EntryKeys
<1>4. Name(k) \in named <=> Has(over, k)
  BY EntryKeys, <1>3 DEF Has, IsLayer
<1>5. Plus(k) \notin named
  BY EntryKeys
<1>6. Plus(k) \in DOMAIN base \cup DOMAIN over => Plus(k) \in nested
  BY <1>3 DEF IsLayer
<1> HIDE DEF m, nested, named
<1>7. Name(k)[2] = k
  BY EntryKeys
<1> QED
  BY <1>1, <1>2, <1>3, <1>4, <1>5, <1>6, <1>7 DEF m

\* A table that only the overlay has is copied.
LEMMA MergeCopied ==
    ASSUME NEW base, NEW over, NEW late, IsLayer(base), IsLayer(over),
           NEW k \in Keys, ~HasTable(base, TableOf[k])
    PROVE  LET m == Merge(base, over, late) IN
           \A e \in {Name(k), Plus(k)} : /\ e \in DOMAIN m <=> e \in DOMAIN over
                                         /\ e \in DOMAIN over => m[e] = over[e]
<1> DEFINE m == Merge(base, over, late)
           nested == {e \in Entries : HasTable(base, TableOf[e[2]])}
           named == {Name(e[2]) : e \in DOMAIN over \cap nested}
<1>1. DOMAIN m = DOMAIN base \cup named \cup (DOMAIN over \ nested)
  BY DEF Merge
<1>2. \A e \in DOMAIN m : e \notin nested => m[e] = over[e]
  BY DEF Merge
<1>3. ASSUME NEW e \in {Name(k), Plus(k)}
      PROVE  e \notin nested /\ e \notin named /\ e \notin DOMAIN base
  <2>1. e[2] = k
    BY EntryKeys
  <2>2. e \notin nested /\ e \notin DOMAIN base
    BY <2>1 DEF HasTable
  <2>3. e \notin named
    BY <2>1, EntryKeys, <1>3
  <2> QED  BY <2>2, <2>3
<1> HIDE DEF m, nested, named
<1> QED
  BY <1>1, <1>2, <1>3 DEF m

\* Only keys with lists have "+" entries.
LEMMA PlusOfLists ==
    ASSUME NEW l, IsLayer(l), NEW k \in Keys, Plus(k) \in DOMAIN l
    PROVE  k \in ListKeys
BY EntryKeys DEF IsLayer

LEMMA MergeIsLayer ==
    ASSUME NEW base, NEW over, NEW late, IsLayer(base), IsLayer(over)
    PROVE  IsLayer(Merge(base, over, late))
<1> DEFINE nested == {e \in Entries : HasTable(base, TableOf[e[2]])}
           named == {Name(e[2]) : e \in DOMAIN over \cap nested}
<1>1. DOMAIN Merge(base, over, late) = DOMAIN base \cup named \cup (DOMAIN over \ nested)
  BY DEF Merge
<1>2. named \subseteq Entries
  BY EntryKeys
<1> HIDE DEF nested, named
<1> QED  BY <1>1, <1>2 DEF IsLayer

\* The arguments override what the user's layer sets or adds to, and that the
\* layers below it, of which every key has a value.
LEMMA LayeredKey ==
    ASSUME NEW user, IsLayer(user), NEW overlay \in FlagChoices, NEW late, NEW k \in Keys
    PROVE  LET m == Merge(Merge(Base, user, late), overlay, {}) IN
           m[Name(k)] = IF Name(k) \in DOMAIN overlay THEN overlay[Name(k)]
                        ELSE IF Has(user, k) THEN Merged(Base, user, late, k) ELSE Base[Name(k)]
<1> DEFINE lower == Merge(Base, user, late)
           m == Merge(lower, overlay, {})
<1>1. IsLayer(Base) /\ IsLayer(overlay) /\ Name(k) \in DOMAIN Base
  BY ConfigurationAssumption
<1>2. Plus(k) \notin DOMAIN overlay
  BY ConfigurationAssumption, EntryKeys
<1>3. HasTable(Base, TableOf[k])
  BY <1>1, EntryKeys DEF HasTable
<1>4. IsLayer(lower)
  BY <1>1, MergeIsLayer
<1>5. /\ Name(k) \in DOMAIN lower
      /\ lower[Name(k)] = IF Has(user, k) THEN Merged(Base, user, late, k) ELSE Base[Name(k)]
  BY <1>1, <1>3, MergeNested
<1>6. HasTable(lower, TableOf[k])
  BY <1>5, EntryKeys DEF HasTable
<1> HIDE DEF lower
<1>7. CASE Name(k) \in DOMAIN overlay
  <2>1. Has(overlay, k) /\ Merged(lower, overlay, {}, k) = overlay[Name(k)]
    BY <1>7, <1>2 DEF Has, Merged
  <2> QED  BY <1>1, <1>4, <1>6, <1>7, <2>1, MergeNested DEF lower
<1>8. CASE Name(k) \notin DOMAIN overlay
  <2>1. ~Has(overlay, k)
    BY <1>8, <1>2 DEF Has
  <2> QED  BY <1>1, <1>4, <1>5, <1>6, <1>8, <2>1, MergeNested DEF lower
<1> QED  BY <1>7, <1>8

-----------------------------------------------------------------------------
(* Types: a merge of typed layers is one.                                  *)

LEMMA ListsAreNotWrong == \A s \in Seq(Elements) : s # Wrong /\ s # None /\ Wrong \notin Range(s)
<1> SUFFICES ASSUME NEW s \in Seq(Elements) PROVE s # Wrong /\ s # None /\ Wrong \notin Range(s)
  OBVIOUS
<1>1. s \in Seq(Elements \cup {Wrong})
  OBVIOUS
<1>2. Wrong \notin Range(s)
  BY TypesAssumption DEF Range
<1> QED  BY <1>1, <1>2, TypesAssumption

LEMMA TypedBody ==
    ASSUME NEW b \in Bodies, ~Mistyped(b)
    PROVE  IsSound(b)
<1>1. ASSUME NEW e \in DOMAIN b, e[2] \in ListKeys PROVE b[e] \in Seq(Elements)
  <2>1. b[e] \in Seq(Elements \cup {Wrong}) /\ Wrong \notin Range(b[e])
    BY <1>1, TypesAssumption DEF Mistyped
  <2> DEFINE s == b[e]
  <2>2. \A i \in 1 .. Len(s) : s[i] \in Elements
    BY <2>1 DEF Range
  <2> HIDE DEF s
  <2> QED  BY <2>1, <2>2 DEF s
<1>2. \A e \in DOMAIN b : b[e] # Wrong
  BY DEF Mistyped
<1> QED  BY <1>1, <1>2, ConfigurationAssumption DEF IsSound, IsTyped

LEMMA MergedTyped ==
    ASSUME NEW base, NEW over, NEW late, IsSound(base), IsSound(over), NEW k \in Keys, Has(over, k)
    PROVE  IF k \in ListKeys THEN Merged(base, over, late, k) \in Seq(Elements)
           ELSE Merged(base, over, late, k) # Wrong
<1>1. CASE k \notin ListKeys
  <2>1. Plus(k) \notin DOMAIN over /\ Name(k) \in DOMAIN over /\ over[Name(k)] # Wrong
    BY <1>1, PlusOfLists, EntryKeys DEF Has, IsSound, IsTyped
  <2> QED  BY <1>1, <2>1 DEF Merged
<1>2. CASE k \in ListKeys
  <2> DEFINE given == IF Name(k) \in DOMAIN over THEN over[Name(k)]
                      ELSE IF Name(k) \in DOMAIN base THEN base[Name(k)] ELSE None
  <2>1. /\ Name(k) \in DOMAIN over => over[Name(k)] \in Seq(Elements)
        /\ Name(k) \in DOMAIN base => base[Name(k)] \in Seq(Elements)
        /\ Plus(k) \in DOMAIN over => over[Plus(k)] \in Seq(Elements)
    BY <1>2, EntryKeys DEF IsSound, IsTyped
  <2>2. given \in Seq(Elements) \cup {None}
    BY <2>1
  <2>3. ASSUME Plus(k) \in DOMAIN over PROVE AppendValue(given, over[Plus(k)]) \in Seq(Elements)
    <3> DEFINE a == over[Plus(k)]
    <3>1. a \in Seq(Elements) /\ a # Wrong
      BY <2>1, <2>3, ListsAreNotWrong
    <3>2. (IF given \in {None, Wrong} THEN <<>> ELSE given) \in Seq(Elements)
      BY <2>2
    <3> HIDE DEF a, given
    <3>3. AppendValue(given, a) \in Seq(Elements)
      BY <3>1, <3>2 DEF AppendValue
    <3> QED  BY <3>3 DEF a
  <2>4. Plus(k) \notin DOMAIN over => given \in Seq(Elements)
    BY <2>1 DEF Has
  <2>5. Name(k) \in DOMAIN over => given \in Seq(Elements)
    BY <2>1
  <2>6. Merged(base, over, late, k) \in {given, AppendValue(given, over[Plus(k)])}
    BY DEF Merged
  <2> HIDE DEF given
  <2> QED  BY <1>2, <2>3, <2>4, <2>5, <2>6 DEF Merged, given
<1> QED  BY <1>1, <1>2

LEMMA MergeSound ==
    ASSUME NEW base, NEW over, NEW late, IsSound(base), IsSound(over)
    PROVE  IsSound(Merge(base, over, late))
<1> DEFINE m == Merge(base, over, late)
<1>1. IsLayer(base) /\ IsLayer(over) /\ IsLayer(m)
  BY MergeIsLayer DEF IsSound
<1>2. ASSUME NEW e \in DOMAIN m
      PROVE  IF e[2] \in ListKeys THEN m[e] \in Seq(Elements) ELSE m[e] # Wrong
  <2> DEFINE k == e[2]
  <2>1. k \in Keys /\ (e = Name(k) \/ e = Plus(k)) /\ Name(k)[2] = k /\ Plus(k)[2] = k
    BY <1>1, <1>2, EntryKeys DEF IsLayer
  <2>2. \A l \in {base, over} : e \in DOMAIN l =>
            IF k \in ListKeys THEN l[e] \in Seq(Elements) ELSE l[e] # Wrong
    BY DEF IsSound, IsTyped
  <2> HIDE DEF m, k
  <2>3. CASE HasTable(base, TableOf[k])
    <3>1. Has(over, k) /\ e = Name(k) => m[e] = Merged(base, over, late, k)
      BY <1>1, <2>1, <2>3, MergeNested DEF m
    <3>2. ~(Has(over, k) /\ e = Name(k)) => e \in DOMAIN base /\ m[e] = base[e]
      BY <1>1, <1>2, <2>1, <2>3, MergeNested DEF m
    <3> QED  BY <2>1, <2>2, <3>1, <3>2, MergedTyped DEF k
  <2>4. CASE ~HasTable(base, TableOf[k])
    <3>1. e \in DOMAIN over /\ m[e] = over[e]
      BY <1>1, <1>2, <2>1, <2>4, MergeCopied DEF m
    <3> QED  BY <2>2, <3>1 DEF k
  <2> QED  BY <2>3, <2>4
<1> QED  BY <1>1, <1>2 DEF IsSound, IsTyped

\* What a typed file and the arguments come to can be decoded.
LEMMA SoundLoads ==
    ASSUME NEW user, IsSound(user), NEW overlay \in FlagChoices
    PROVE  \A m \in Layered(user, overlay) : Decodes(m)
<1> SUFFICES ASSUME NEW late \in SUBSET ListKeys, NEW k \in Keys
             PROVE  LET m == Merge(Merge(Base, user, late), overlay, {}) IN
                    m[Name(k)] # Wrong /\ (k \in ListKeys => Wrong \notin Range(m[Name(k)]))
  BY DEF Layered, Decodes
<1> DEFINE m == Merge(Merge(Base, user, late), overlay, {})
<1>1. IsSound(Base) /\ IsSound(overlay) /\ Name(k) \in DOMAIN Base /\ Name(k)[2] = k
  BY ConfigurationAssumption, TypesAssumption, EntryKeys DEF IsSound
<1>2. IF k \in ListKeys THEN m[Name(k)] \in Seq(Elements) ELSE m[Name(k)] # Wrong
  <2>1. m[Name(k)] = IF Name(k) \in DOMAIN overlay THEN overlay[Name(k)]
                     ELSE IF Has(user, k) THEN Merged(Base, user, late, k) ELSE Base[Name(k)]
    BY LayeredKey DEF IsSound
  <2>2. \A l \in {Base, overlay} : Name(k) \in DOMAIN l =>
            IF k \in ListKeys THEN l[Name(k)] \in Seq(Elements) ELSE l[Name(k)] # Wrong
    BY <1>1 DEF IsSound, IsTyped
  <2>3. Has(user, k) => IF k \in ListKeys THEN Merged(Base, user, late, k) \in Seq(Elements)
                        ELSE Merged(Base, user, late, k) # Wrong
    BY <1>1, MergedTyped
  <2> HIDE DEF m
  <2> QED  BY <1>1, <2>1, <2>2, <2>3
<1> HIDE DEF m
<1>3. m[Name(k)] # Wrong /\ (k \in ListKeys => Wrong \notin Range(m[Name(k)]))
  BY <1>2, ListsAreNotWrong
<1> QED  BY <1>3 DEF m

-----------------------------------------------------------------------------
(* Starting again.                                                         *)

\* A request that has not begun has no body yet.
Bodied ==
    /\ body = [p \in Puts |-> body[p]] /\ held = [p \in Puts |-> held[p]]
    /\ flags \in FlagChoices
    /\ \A p \in Puts : body[p] \in Bodies \cup {NoEntries} /\ (pc[p] = "idle" => body[p] = NoEntries)

\* No value of the wrong type so far and no write cut short.
Unharmed == \A p \in Puts : ~Mistyped(body[p]) /\ ~CutShort(p)

\* What is in the file and what is about to be written to it has the types,
\* and it is written to an empty file.
Loadable ==
    /\ state # "refused"
    /\ file # Torn /\ IsSound(file)
    /\ \A p \in Puts : IsSound(held[p]) /\ (pc[p] = "write" => file = NoEntries)

LoadInv == Bodied /\ (disturbed # "puts" /\ Unharmed => Loadable)

LEMMA NothingIsSound == IsSound(NoEntries) /\ ~Mistyped(NoEntries) /\ DOMAIN NoEntries = {}
BY DEF IsSound, IsLayer, IsTyped, NoEntries, Mistyped

LEMMA SoundIsWhole == \A l : IsSound(l) => l # Torn
BY ConfigurationAssumption DEF IsSound

LEMMA BodiedStep == Shape /\ Bodied /\ [Next]_vars => Bodied'
<1> SUFFICES ASSUME Shape, Bodied, [Next]_vars PROVE Bodied' OBVIOUS
<1>1. CASE Start \/ UNCHANGED vars
  BY <1>1 DEF Start, vars, callVars, Bodied
<1>2. CASE Stop
  BY <1>2 DEF Stop, Bodied
<1>3. ASSUME NEW p \in Puts, NEW b \in Bodies, Put(p, b) PROVE Bodied'
  <2>1. PICK label \in {"open", "refused"} : pc' = [pc EXCEPT ![p] = label]
    BY <1>3 DEF Put, Goto
  <2>2. body' = [body EXCEPT ![p] = b] /\ UNCHANGED flags
    BY <1>3 DEF Put
  <2>3. held' = held \/ \E l : held' = [held EXCEPT ![p] = l]
    BY <1>3 DEF Put
  <2> QED  BY <2>1, <2>2, <2>3 DEF Bodied, Shape
<1>4. ASSUME NEW p \in Puts, Open(p) \/ Write(p) \/ Fail(p) \/ Load(p) \/ Set(p) \/ Apply(p) PROVE Bodied'
  <2>1. PICK label \in Working \cup {"answered", "refused", "failed", "broken"} : pc' = [pc EXCEPT ![p] = label]
    BY <1>4 DEF Open, Write, Fail, Load, Set, Apply, Goto, Working
  <2>2. UNCHANGED <<body, flags>> /\ (held' = held \/ held' = [held EXCEPT ![p] = NoEntries])
    BY <1>4 DEF Open, Write, Fail, Load, Set, Apply
  <2> QED  BY <2>1, <2>2 DEF Bodied, Shape, Working
<1> QED  BY <1>1, <1>2, <1>3, <1>4 DEF Next

\* What a request had in its body, or was cut short at, stays with it.
LEMMA UnharmedBefore == Shape /\ Bodied /\ [Next]_vars /\ Unharmed' => Unharmed
<1> SUFFICES ASSUME Shape, Bodied, [Next]_vars, Unharmed' PROVE Unharmed OBVIOUS
<1>1. \A p \in Puts : CutShort(p) => CutShort(p)'
  <2>1. ASSUME UNCHANGED pc PROVE \A p \in Puts : CutShort(p) => CutShort(p)'
    BY <2>1 DEF CutShort
  <2>2. ASSUME NEW p \in Puts, NEW label, pc[p] \notin {"broken", "cut"}, pc' = [pc EXCEPT ![p] = label]
        PROVE  \A q \in Puts : CutShort(q) => CutShort(q)'
    BY <2>2 DEF CutShort, Shape
  <2>3. ASSUME Stop PROVE \A p \in Puts : CutShort(p) => CutShort(p)'
    BY <2>3 DEF Stop, CutShort, UnderWay, Working
  <2>4. ASSUME NEW p \in Puts, NEW b \in Bodies, Put(p, b)
        PROVE  \A q \in Puts : CutShort(q) => CutShort(q)'
    BY <2>2, <2>4 DEF Put, Goto
  <2>5. ASSUME NEW p \in Puts, Open(p) \/ Write(p) \/ Fail(p) \/ Load(p) \/ Set(p) \/ Apply(p)
        PROVE  \A q \in Puts : CutShort(q) => CutShort(q)'
    BY <2>2, <2>5 DEF Open, Write, Fail, Load, Set, Apply, Goto
  <2> QED  BY <2>1, <2>3, <2>4, <2>5 DEF Next, Start, vars, callVars
<1>2. ASSUME UNCHANGED body PROVE Unharmed
  BY <1>1, <1>2 DEF Unharmed
<1>3. ASSUME NEW p \in Puts, NEW b \in Bodies, Put(p, b) PROVE Unharmed
  <2>1. body' = [body EXCEPT ![p] = b] /\ body[p] = NoEntries
    BY <1>3 DEF Put, Bodied
  <2> QED  BY <1>1, <2>1, NothingIsSound DEF Unharmed, Bodied
<1> QED
  BY <1>2, <1>3 DEF Next, vars, callVars, Start, Stop, Open, Write, Fail, Load, Set, Apply

LEMMA LoadableStep ==
    ASSUME Shape, OneAtATime, Bodied, Loadable, Unharmed', disturbed # "puts", [Next]_vars
    PROVE  Loadable'
<1>1. ASSUME Start PROVE Loadable'
  <2>1. ~LoadFails(file, flags)
    BY SoundLoads DEF LoadFails, Loadable, Bodied
  <2>2. state' = "up" /\ UNCHANGED <<file, pc, held>>
    BY <1>1, <2>1 DEF Start, callVars
  <2> QED  BY <2>2 DEF Loadable
<1>2. ASSUME Stop PROVE Loadable'
  <2>1. PICK cut \in SUBSET {p \in Puts : pc[p] = "write"} :
           /\ pc' = [p \in Puts |-> IF p \in cut THEN "cut"
                                   ELSE IF p \in UnderWay THEN "killed" ELSE pc[p]]
           /\ IF cut = {} THEN UNCHANGED file ELSE \E p \in cut : file' \in Cut(held[p])
    BY <1>2 DEF Stop
  <2>2. cut = {}
    BY <2>1 DEF Unharmed, CutShort
  <2> QED  BY <1>2, <2>1, <2>2, NothingIsSound DEF Stop, Loadable, Shape
<1>3. ASSUME NEW p \in Puts, NEW b \in Bodies, Put(p, b) PROVE Loadable'
  <2>1. UNCHANGED <<state, file>> /\ file # Torn
    BY <1>3 DEF Put, Loadable
  <2>2. PICK late \in SUBSET ListKeys : held' = [held EXCEPT ![p] = Merge(file, b, late)]
    BY <1>3, <2>1 DEF Put
  <2>3. body' = [body EXCEPT ![p] = b] /\ pc' = [pc EXCEPT ![p] = "open"]
    BY <1>3, <2>1 DEF Put, Goto
  <2>4. ~Mistyped(b)
    BY <2>3 DEF Unharmed, Bodied
  <2>5. IsSound(Merge(file, b, late))
    BY <2>4, TypedBody, MergeSound DEF Loadable
  <2> QED  BY <2>1, <2>2, <2>3, <2>5 DEF Loadable, Bodied, Shape
<1>4. ASSUME NEW p \in Puts, Open(p) PROVE Loadable'
  <2>1. file' = NoEntries /\ pc' = [pc EXCEPT ![p] = "write"] /\ UNCHANGED <<state, held>>
    BY <1>4 DEF Open, Goto
  <2> QED  BY <2>1, NothingIsSound, SoundIsWhole DEF Loadable, Shape
<1>5. ASSUME NEW p \in Puts, Write(p) PROVE Loadable'
  <2>1. pc[p] = "write" /\ file = NoEntries /\ UNCHANGED state
    BY <1>5 DEF Write, Loadable
  <2>2. file' = held[p] \/ file' = Leftover(held[p])
    BY <1>5, <2>1 DEF Write
  <2>3. IsSound(Leftover(held[p]))
    <3>1. DOMAIN Leftover(held[p]) = DOMAIN held[p] /\ \A e \in DOMAIN held[p] : Leftover(held[p])[e] = held[p][e]
      BY <2>1, NothingIsSound DEF Leftover
    <3> QED  BY <3>1 DEF Loadable, IsSound, IsLayer, IsTyped
  <2>4. pc' = [pc EXCEPT ![p] = "load"] /\ held' = [held EXCEPT ![p] = NoEntries]
    BY <1>5 DEF Write, Goto
  <2>5. \A q \in Puts : pc'[q] # "write"
    BY <2>1, <2>4, Alone DEF Shape, Working
  <2> QED  BY <2>1, <2>2, <2>3, <2>4, <2>5, NothingIsSound, SoundIsWhole DEF Loadable, Bodied
<1>6. ASSUME NEW p \in Puts, Fail(p) \/ Load(p) \/ Set(p) \/ Apply(p) PROVE Loadable'
  <2>0. pc'[p] # "broken"
    BY DEF Unharmed, CutShort
  <2>1. PICK label \in {"refused", "failed", "set", "apply", "answered"} : pc' = [pc EXCEPT ![p] = label]
    BY <1>6, <2>0 DEF Fail, Load, Set, Apply, Goto, Shape
  <2>2. UNCHANGED <<state, file>> /\ (held' = held \/ held' = [held EXCEPT ![p] = NoEntries])
    BY <1>6, <2>0, <2>1 DEF Goto, Shape, Fail, Load, Set, Apply
  <2> QED  BY <2>1, <2>2, NothingIsSound DEF Loadable, Bodied, Shape
<1>7. CASE UNCHANGED vars
  BY <1>7 DEF vars, callVars, Loadable
<1> QED  BY <1>1, <1>2, <1>3, <1>4, <1>5, <1>6, <1>7 DEF Next

LEMMA LoadInductive == Spec => []LoadInv
<1>1. Init => LoadInv
  BY NothingIsSound, SoundIsWhole DEF Init, LoadInv, Bodied, Loadable, Unharmed
<1>2. IInv /\ LoadInv /\ [Next]_vars => LoadInv'
  <2> SUFFICES ASSUME IInv, LoadInv, [Next]_vars PROVE LoadInv' OBVIOUS
  <2>1. Bodied'
    BY BodiedStep DEF IInv, LoadInv
  <2>2. ASSUME disturbed' # "puts", Unharmed' PROVE Loadable'
    BY <2>2, DisturbedStays, UnharmedBefore, LoadableStep DEF IInv, LoadInv
  <2> QED  BY <2>1, <2>2 DEF LoadInv
<1> QED  BY <1>1, <1>2, Inductive, PTL DEF Spec

\* Where requests do not overlap, the daemon is refused a start only after a
\* value of the wrong type or a write cut short, wherever else kills and
\* failures of the disk have hit: SaveOverlay writes to an empty file what it
\* has merged (config.go 301-323).
THEOREM DaemonStartsAgain == Spec => []StartsAgain
<1>1. LoadInv => StartsAgain
  BY DEF LoadInv, Loadable, Unharmed, StartsAgain
<1> QED  BY <1>1, LoadInductive, PTL

-----------------------------------------------------------------------------
(* The order of the layers.                                                *)

\* The request p alone says what the key k is, or what is added to its list.
Sets(p, k) == Touches(p, k) /\ Plus(k) \notin DOMAIN body[p] /\ AloneOn(p, {k})
Adds(p, k) == Touches(p, k) /\ Name(k) \notin DOMAIN body[p] /\ AloneOn(p, Siblings(k))

\* A user layer with the keys of requests only, and with what p says of them.
Only(l) == \A k \in Keys : Has(l, k) => \E p \in Puts : Touches(p, k)
Carries(l, p) ==
    \A k \in Keys :
        /\ Sets(p, k) => /\ Name(k) \in DOMAIN l /\ l[Name(k)] = body[p][Name(k)]
                         /\ Plus(k) \notin DOMAIN l
        /\ Adds(p, k) => /\ Plus(k) \in DOMAIN l /\ l[Plus(k)] = body[p][Plus(k)]
                         /\ Name(k) \notin DOMAIN l

\* A configuration in which arguments override requests, these for p in P, and
\* requests the layers below.
Obeys(c, P) ==
    \A k \in Keys :
        /\ Name(k) \in DOMAIN flags => c[k] = flags[Name(k)]
        /\ Name(k) \notin DOMAIN flags =>
            /\ (\A p \in Puts : ~Touches(p, k)) => c[k] = Base[Name(k)]
            /\ \A p \in P : /\ Sets(p, k) => c[k] = body[p][Name(k)]
                            /\ Adds(p, k) => c[k] = Base[Name(k)] \o body[p][Plus(k)]

In(labels) == {p \in Puts : pc[p] \in labels}
Written    == {"load", "set", "apply", "answered", "failed"}

\* The file holds what has been written, but while it is written again.
FileKept ==
    /\ IsLayer(file) /\ \A p \in Puts : pc[p] = "write" => file = NoEntries
    /\ In({"write"}) = {} => Only(file) /\ \A q \in In(Written) : Carries(file, q)
\* What is about to be written holds that, and the request's own body.
HeldKept ==
    \A p \in In({"open", "write"}) : /\ IsLayer(held[p]) /\ Only(held[p])
                                     /\ \A q \in In(Written) \cup {p} : Carries(held[p], q)
\* So does what runs, and what is about to.
LiveKept ==
    /\ state = "up" => Obeys(live, In({"apply", "answered"}))
    /\ \A p \in In({"set"}) : Obeys(next[p], In({"apply", "answered"}) \cup {p})

LayersInv == disturbed = "nothing" => FileKept /\ HeldKept /\ LiveKept

\* What a file comes to: a start or a reload obeys all it carries.
LEMMA LoadsObey ==
    ASSUME flags \in FlagChoices, IsLayer(file), Only(file),
           NEW P, P \subseteq Puts, \A p \in P : Carries(file, p), NEW c \in Loads(file, flags)
    PROVE  Obeys(c, P)
<1>1. PICK late \in SUBSET ListKeys : LET m == Merge(Merge(Base, file, late), flags, {}) IN
                                      c = Decode(m) /\ Decodes(m)
  BY DEF Loads, Layered
<1> DEFINE m == Merge(Merge(Base, file, late), flags, {})
<1>2. c = Decode(m) /\ Decodes(m)
  BY <1>1
<1>3. ASSUME NEW k \in Keys
      PROVE  m[Name(k)] = IF Name(k) \in DOMAIN flags THEN flags[Name(k)]
                          ELSE IF Has(file, k) THEN Merged(Base, file, late, k) ELSE Base[Name(k)]
  BY LayeredKey
<1> HIDE DEF m
<1>4. \A k \in Keys : c[k] = m[Name(k)]
  BY <1>2 DEF Decode
<1> SUFFICES ASSUME NEW k \in Keys, Name(k) \notin DOMAIN flags
             PROVE  /\ (\A p \in Puts : ~Touches(p, k)) => c[k] = Base[Name(k)]
                    /\ \A p \in P : /\ Sets(p, k) => c[k] = body[p][Name(k)]
                                    /\ Adds(p, k) => c[k] = Base[Name(k)] \o body[p][Plus(k)]
  BY <1>3, <1>4 DEF Obeys
<1>5. c[k] = IF Has(file, k) THEN Merged(Base, file, late, k) ELSE Base[Name(k)]
  BY <1>3, <1>4
<1>6. (\A p \in Puts : ~Touches(p, k)) => c[k] = Base[Name(k)]
  BY <1>5 DEF Only
<1>7. ASSUME NEW p \in P, Sets(p, k) PROVE c[k] = body[p][Name(k)]
  <2>1. Name(k) \in DOMAIN file /\ file[Name(k)] = body[p][Name(k)] /\ Plus(k) \notin DOMAIN file
    BY <1>7 DEF Carries
  <2> QED  BY <1>5, <2>1 DEF Has, Merged
<1>8. ASSUME NEW p \in P, Adds(p, k) PROVE c[k] = Base[Name(k)] \o body[p][Plus(k)]
  <2> DEFINE a == body[p][Plus(k)]
             b == Base[Name(k)]
  <2>1. Plus(k) \in DOMAIN file /\ file[Plus(k)] = a /\ Name(k) \notin DOMAIN file
    BY <1>8 DEF Carries
  <2>2. k \in ListKeys /\ Name(k) \in DOMAIN Base /\ b \in Seq(Elements)
    BY <2>1, PlusOfLists, EntryKeys, ConfigurationAssumption, TypesAssumption DEF IsTyped
  <2>3. b # None /\ b # Wrong
    BY <2>2, ListsAreNotWrong
  <2> HIDE DEF a, b
  <2>4. Merged(Base, file, late, k) = AppendValue(b, a)
    BY <2>1, <2>2 DEF Merged, b
  <2>5. c[k] = AppendValue(b, a)
    BY <1>5, <2>1, <2>4 DEF Has
  <2>6. a # Wrong
    <3> SUFFICES ASSUME a = Wrong PROVE FALSE
      OBVIOUS
    <3>1. c[k] = b \o <<Wrong>>
      BY <2>3, <2>5 DEF AppendValue
    <3>2. b \o <<Wrong>> = Append(b, Wrong) /\ b \in Seq(Elements \cup {Wrong})
      BY <2>2
    <3>3. Wrong \in Range(c[k])
      BY <3>1, <3>2 DEF Range
    <3>4. Wrong \notin Range(m[Name(k)])
      BY <1>2, <2>2 DEF Decodes
    <3> QED  BY <1>4, <3>3, <3>4
  <2> QED  BY <2>3, <2>5, <2>6 DEF AppendValue, a, b
<1> QED  BY <1>6, <1>7, <1>8

\* A new body leaves alone what the others say, if they still say it alone.
LEMMA NewBody ==
    ASSUME Bodied, NEW p \in Puts, pc[p] = "idle", NEW b, body' = [body EXCEPT ![p] = b]
    PROVE  /\ \A q \in Puts, k \in Keys : Touches(q, k) => Touches(q, k)'
           /\ \A k \in Keys : Touches(p, k)' <=> Has(b, k)
           /\ \A q \in Puts \ {p} : body'[q] = body[q]
           /\ \A q \in Puts \ {p}, k \in Keys :
                /\ Sets(q, k)' => Sets(q, k) /\ ~Has(b, k)
                /\ Adds(q, k)' => Adds(q, k) /\ ~Has(b, k)
           /\ \A k \in Keys :
                /\ Sets(p, k)' => Has(b, k) /\ Plus(k) \notin DOMAIN b /\ \A q \in Puts : ~Touches(q, k)
                /\ Adds(p, k)' => /\ Has(b, k) /\ Name(k) \notin DOMAIN b
                                  /\ \A q \in Puts, j \in Keys : TableOf[j] = TableOf[k] => ~Touches(q, j)
<1>1. body[p] = NoEntries /\ body'[p] = b /\ \A q \in Puts \ {p} : body'[q] = body[q]
  BY DEF Bodied
<1>2. \A k \in Keys : ~Touches(p, k) /\ (Touches(p, k)' <=> Has(b, k))
  BY <1>1, NothingIsSound DEF Touches, Has
<1>3. \A q \in Puts \ {p}, k \in Keys : Touches(q, k)' <=> Touches(q, k)
  BY <1>1 DEF Touches
<1>4. ASSUME NEW q \in Puts \ {p}, NEW ks, ks \subseteq Keys, AloneOn(q, ks)'
      PROVE  AloneOn(q, ks) /\ \A k \in ks : ~Has(b, k)
  BY <1>2, <1>3, <1>4 DEF AloneOn
<1>5. ASSUME NEW ks, ks \subseteq Keys, AloneOn(p, ks)'
      PROVE  \A q \in Puts, k \in ks : ~Touches(q, k)
  BY <1>2, <1>3, <1>5 DEF AloneOn
<1>6. \A k \in Keys : {k} \subseteq Keys /\ Siblings(k) \subseteq Keys /\ k \in Siblings(k)
  BY DEF Siblings
<1>7. ASSUME NEW q \in Puts \ {p}, NEW k \in Keys
      PROVE  /\ Sets(q, k)' => Sets(q, k) /\ ~Has(b, k)
             /\ Adds(q, k)' => Adds(q, k) /\ ~Has(b, k)
  <2>1. Sets(q, k)' => AloneOn(q, {k})'
    BY DEF Sets
  <2>2. Adds(q, k)' => AloneOn(q, Siblings(k))'
    BY DEF Adds, Siblings
  <2> QED  BY <1>1, <1>3, <1>4, <1>6, <2>1, <2>2 DEF Sets, Adds
<1>8. ASSUME NEW k \in Keys
      PROVE  /\ Sets(p, k)' => Has(b, k) /\ Plus(k) \notin DOMAIN b /\ \A q \in Puts : ~Touches(q, k)
             /\ Adds(p, k)' => /\ Has(b, k) /\ Name(k) \notin DOMAIN b
                               /\ \A q \in Puts, j \in Keys : TableOf[j] = TableOf[k] => ~Touches(q, j)
  <2>1. Sets(p, k)' => AloneOn(p, {k})'
    BY DEF Sets
  <2>2. Adds(p, k)' => AloneOn(p, Siblings(k))'
    BY DEF Adds, Siblings
  <2> QED  BY <1>1, <1>2, <1>5, <1>6, <2>1, <2>2 DEF Sets, Adds, Siblings
<1> QED  BY <1>1, <1>2, <1>3, <1>7, <1>8

\* Merging it into a file keeps what the file carries and takes what it says.
LEMMA NewMerge ==
    ASSUME Bodied, IsLayer(file), Only(file), NEW p \in Puts, pc[p] = "idle", NEW b, IsLayer(b),
           body' = [body EXCEPT ![p] = b], NEW late,
           NEW m, m = Merge(file, b, late)
    PROVE  /\ IsLayer(m) /\ Only(m)' /\ Carries(m, p)'
           /\ \A q \in Puts \ {p} : Carries(file, q) => Carries(m, q)'
<1>1. IsLayer(m)
  BY MergeIsLayer
<1>2. ASSUME NEW k \in Keys, Has(m, k) PROVE \E q \in Puts : Touches(q, k)'
  <2>1. Has(file, k) \/ Has(b, k)
    <3>1. CASE HasTable(file, TableOf[k])
      BY <1>2, <3>1, MergeNested DEF Has
    <3>2. CASE ~HasTable(file, TableOf[k])
      BY <1>2, <3>2, MergeCopied DEF Has
    <3> QED  BY <3>1, <3>2
  <2> QED  BY <2>1, NewBody DEF Only
<1>3. ASSUME NEW q \in Puts \ {p}, Carries(file, q), NEW k \in Keys, Sets(q, k)' \/ Adds(q, k)'
      PROVE  \A e \in {Name(k), Plus(k)} : /\ e \in DOMAIN m <=> e \in DOMAIN file
                                           /\ e \in DOMAIN file => m[e] = file[e]
  <2>1. ~Has(b, k) /\ (Sets(q, k) \/ Adds(q, k))
    BY <1>3, NewBody
  <2>2. Has(file, k)
    BY <1>3, <2>1 DEF Carries, Has
  <2>3. HasTable(file, TableOf[k])
    BY <2>2, EntryKeys DEF Has, HasTable
  <2> QED  BY <2>1, <2>3, MergeNested
<1>4. ASSUME NEW q \in Puts \ {p}, Carries(file, q) PROVE Carries(m, q)'
  <2> SUFFICES ASSUME NEW k \in Keys
               PROVE  /\ Sets(q, k)' => /\ Name(k) \in DOMAIN m /\ m[Name(k)] = body'[q][Name(k)]
                                        /\ Plus(k) \notin DOMAIN m
                      /\ Adds(q, k)' => /\ Plus(k) \in DOMAIN m /\ m[Plus(k)] = body'[q][Plus(k)]
                                        /\ Name(k) \notin DOMAIN m
    BY DEF Carries
  <2>1. Sets(q, k)' => Sets(q, k)
    BY NewBody
  <2>2. Adds(q, k)' => Adds(q, k)
    BY NewBody
  <2>3. body'[q] = body[q]
    BY NewBody
  <2> QED  BY <1>3, <1>4, <2>1, <2>2, <2>3 DEF Carries
<1>5. ASSUME NEW k \in Keys, Sets(p, k)'
      PROVE  Name(k) \in DOMAIN m /\ m[Name(k)] = b[Name(k)] /\ Plus(k) \notin DOMAIN m
  <2>1. Has(b, k) /\ Plus(k) \notin DOMAIN b /\ Name(k) \in DOMAIN b /\ ~Has(file, k)
    <3>1. Has(b, k) /\ Plus(k) \notin DOMAIN b /\ \A q \in Puts : ~Touches(q, k)
      BY <1>5, NewBody
    <3> QED  BY <3>1 DEF Has, Only
  <2>2. CASE HasTable(file, TableOf[k])
    <3>1. Merged(file, b, late, k) = b[Name(k)]
      BY <2>1 DEF Merged
    <3> QED  BY <2>1, <2>2, <3>1, MergeNested DEF Has
  <2>3. CASE ~HasTable(file, TableOf[k])
    BY <2>1, <2>3, MergeCopied
  <2> QED  BY <2>2, <2>3
<1>6. ASSUME NEW k \in Keys, Adds(p, k)'
      PROVE  Plus(k) \in DOMAIN m /\ m[Plus(k)] = b[Plus(k)] /\ Name(k) \notin DOMAIN m
  <2>1. /\ Has(b, k) /\ Name(k) \notin DOMAIN b
        /\ \A q \in Puts, j \in Keys : TableOf[j] = TableOf[k] => ~Touches(q, j)
    BY <1>6, NewBody
  <2>2. ~HasTable(file, TableOf[k])
    <3> SUFFICES ASSUME NEW e \in DOMAIN file, TableOf[e[2]] = TableOf[k] PROVE FALSE
      BY DEF HasTable
    <3>1. e[2] \in Keys /\ Has(file, e[2])
      BY EntryKeys DEF IsLayer, Has
    <3> QED  BY <2>1, <3>1 DEF Only
  <2> QED  BY <2>1, <2>2, MergeCopied DEF Has
<1>7. body'[p] = b
  BY DEF Bodied
<1>8. Carries(m, p)'
  BY <1>5, <1>6, <1>7 DEF Carries
<1> QED  BY <1>1, <1>2, <1>4, <1>8 DEF Only

\* What a layer carries and a configuration obeys is a matter of the bodies.
LEMMA SameBodies ==
    ASSUME UNCHANGED <<body, flags>>, NEW l
    PROVE  /\ Only(l)' <=> Only(l)
           /\ \A p \in Puts : Carries(l, p)' <=> Carries(l, p)
           /\ \A P \in SUBSET Puts : Obeys(l, P)' <=> Obeys(l, P)
<1>1. \A p \in Puts, k \in Keys : Touches(p, k)' <=> Touches(p, k)
  BY DEF Touches
<1>2. \A p \in Puts, k \in Keys : (Sets(p, k)' <=> Sets(p, k)) /\ (Adds(p, k)' <=> Adds(p, k))
  BY DEF Sets, Adds, Touches, AloneOn, Siblings
<1>3. Only(l)' <=> Only(l)
  BY <1>1 DEF Only
<1>4. \A p \in Puts : Carries(l, p)' <=> Carries(l, p)
  BY <1>2 DEF Carries
<1>5. \A P \in SUBSET Puts : Obeys(l, P)' <=> Obeys(l, P)
  BY <1>1, <1>2 DEF Obeys
<1> QED  BY <1>3, <1>4, <1>5

LEMMA StartKept ==
    ASSUME Bodied, OneAtATime, FileKept, Start
    PROVE  FileKept' /\ HeldKept' /\ LiveKept'
<1>1. UnderWay = {} /\ UNCHANGED <<file, flags, body, pc, held, next>>
  BY DEF Start, OneAtATime, callVars
<1>2. In({"write"}) = {} /\ In({"open", "write"}) = {} /\ In({"set"}) = {}
  BY <1>1 DEF In, UnderWay, Working
<1>3. FileKept'
  BY <1>1, SameBodies DEF FileKept, In
<1>4. HeldKept'
  BY <1>1, <1>2 DEF HeldKept, In
<1>5. ASSUME state' = "up" PROVE Obeys(live, In({"apply", "answered"}))'
  <2>1. PICK c \in Loads(file, flags) : live' = c
    BY <1>5 DEF Start
  <2>2. Obeys(c, In({"apply", "answered"}))
    BY <1>2, <2>1, LoadsObey DEF FileKept, In, Written, Bodied
  <2>3. In({"apply", "answered"})' = In({"apply", "answered"}) /\ In({"apply", "answered"}) \in SUBSET Puts
    BY <1>1 DEF In
  <2> QED  BY <1>1, <2>1, <2>2, <2>3, SameBodies
<1>6. LiveKept'
  BY <1>1, <1>2, <1>5 DEF LiveKept, In
<1> QED  BY <1>3, <1>4, <1>6

\* A request that begins takes what is in the file with it.
LEMMA PutKept ==
    ASSUME Shape, OneAtATime, Bodied, FileKept, HeldKept, LiveKept, disturbed = "nothing",
           NEW p \in Puts, NEW b \in Bodies, Put(p, b)
    PROVE  FileKept' /\ HeldKept' /\ LiveKept'
<1>1. /\ pc[p] = "idle" /\ state = "up" /\ \A q \in Puts : pc[q] \notin Working
      /\ body' = [body EXCEPT ![p] = b] /\ UNCHANGED <<state, flags, live, file>>
  BY DEF Put, UnderWay
<1>2. file # Torn
  BY ConfigurationAssumption DEF FileKept
<1>3. /\ pc' = [pc EXCEPT ![p] = "open"]
      /\ \E late \in SUBSET ListKeys : held' = [held EXCEPT ![p] = Merge(file, b, late)]
  BY <1>2 DEF Put, Goto
<1>4. PICK late \in SUBSET ListKeys : held' = [held EXCEPT ![p] = Merge(file, b, late)]
  BY <1>3
<1>5. PICK m : m = Merge(file, b, late)
  OBVIOUS
<1>6. IsLayer(b) /\ IsLayer(file) /\ In({"write"}) = {} /\ Only(file)
  BY <1>1, ConfigurationAssumption DEF FileKept, In, Working
<1>7. /\ In({"write"})' = {} /\ In({"open", "write"})' = {p} /\ In({"set"})' = {}
      /\ In(Written)' = In(Written) /\ In({"apply", "answered"})' = In({"apply", "answered"})
      /\ p \notin In(Written) /\ p \notin In({"apply", "answered"})
  BY <1>1, <1>3 DEF Shape, In, Written, Working
<1>8. /\ IsLayer(m) /\ Only(m)' /\ Carries(m, p)'
      /\ \A q \in Puts \ {p} : Carries(file, q) => Carries(m, q)'
  BY <1>1, <1>5, <1>6, NewMerge
<1>9. /\ \A q \in Puts, k \in Keys : Touches(q, k) => Touches(q, k)'
      /\ \A q \in Puts \ {p} : body'[q] = body[q]
      /\ \A q \in Puts \ {p}, k \in Keys : (Sets(q, k)' => Sets(q, k)) /\ (Adds(q, k)' => Adds(q, k))
  BY <1>1, NewBody
<1>10. FileKept'
  <2>1. Only(file)'
    BY <1>1, <1>6, <1>9 DEF Only
  <2>2. \A q \in In(Written) : Carries(file, q)
    BY <1>6 DEF FileKept
  <2>3. \A q \in In(Written) : Carries(file, q)'
    BY <1>1, <1>7, <1>9, <2>2 DEF Carries, In
  <2>4. \A q \in Puts : pc'[q] # "write"
    BY <1>7 DEF In
  <2> QED  BY <1>1, <1>6, <1>7, <2>1, <2>3, <2>4 DEF FileKept
<1>11. HeldKept'
  <2>1. held'[p] = m
    BY <1>4, <1>5 DEF Bodied
  <2>2. \A q \in In(Written) : Carries(file, q)
    BY <1>6 DEF FileKept
  <2>3. \A q \in In(Written) \cup {p} : Carries(m, q)'
    BY <1>7, <1>8, <2>2 DEF In
  <2> QED  BY <1>7, <1>8, <2>1, <2>3 DEF HeldKept
<1>12. LiveKept'
  <2>1. Obeys(live, In({"apply", "answered"}))
    BY <1>1 DEF LiveKept
  <2> DEFINE Done == In({"apply", "answered"})
  <2>2. Done' = Done /\ Done \subseteq Puts \ {p} /\ UNCHANGED <<live, flags>>
    BY <1>1, <1>7 DEF In
  <2> HIDE DEF Done
  <2>3. \A k \in Keys : (\A q \in Puts : ~Touches(q, k)') => \A q \in Puts : ~Touches(q, k)
    BY <1>9
  <2>4. \A q \in Done : /\ body'[q] = body[q]
                         /\ \A k \in Keys : (Sets(q, k)' => Sets(q, k)) /\ (Adds(q, k)' => Adds(q, k))
    BY <1>9, <2>2
  <2>5. Obeys(live, Done)
    BY <2>1 DEF Done
  <2>6. Obeys(live, Done)'
    BY <2>2, <2>3, <2>4, <2>5 DEF Obeys
  <2> QED  BY <1>7, <2>6 DEF LiveKept, Done
<1> QED  BY <1>10, <1>11, <1>12

\* It is written to an empty file and loaded, and what was loaded is set.
LEMMA RequestKept ==
    ASSUME Shape, OneAtATime, Bodied, FileKept, HeldKept, LiveKept, disturbed = "nothing",
           NEW p \in Puts, Open(p) \/ Write(p) \/ Fail(p) \/ Load(p) \/ Set(p) \/ Apply(p)
    PROVE  FileKept' /\ HeldKept' /\ LiveKept'
<1>1. pc[p] \in Working /\ UNCHANGED <<state, flags, body>>
  BY DEF Open, Write, Fail, Load, Set, Apply, Working
<1>2. state = "up" /\ \A q \in Puts : q # p => pc[q] \notin Working
  BY <1>1, Alone
<1>3. PICK label \in Working \cup {"answered", "failed", "broken", "refused"} : pc' = [pc EXCEPT ![p] = label]
  BY DEF Open, Write, Fail, Load, Set, Apply, Goto, Working
<1>4. pc'[p] = label /\ \A q \in Puts : q # p => pc'[q] = pc[q]
  BY <1>3 DEF Shape
<1> DEFINE Done == In({"apply", "answered"})
<1>5. Done \in SUBSET Puts /\ In(Written) \in SUBSET Puts
  BY DEF In
<1>6. CASE Open(p)
  <2>1. /\ pc[p] = "open" /\ label = "write" /\ file' = NoEntries /\ UNCHANGED <<live, held, next>>
    BY <1>4, <1>6 DEF Open, Goto, Shape
  <2>2. /\ In({"write"})' = {p} /\ In({"open", "write"})' = {p} /\ In({"set"})' = {}
        /\ In(Written)' = In(Written) /\ Done' = Done /\ p \in In({"open", "write"})
    BY <1>2, <1>4, <2>1 DEF In, Working, Written
  <2>3. FileKept'
    BY <2>1, <2>2, NothingIsSound DEF FileKept, IsSound
  <2>4. HeldKept'
    BY <1>1, <1>5, <2>1, <2>2, SameBodies DEF HeldKept
  <2>5. LiveKept'
    BY <1>1, <1>5, <2>1, <2>2, SameBodies DEF LiveKept
  <2> QED  BY <2>3, <2>4, <2>5
<1>7. CASE Write(p)
  <2>1. pc[p] = "write" /\ label = "load" /\ file = NoEntries /\ UNCHANGED <<live, next>>
    BY <1>4, <1>7 DEF Write, Goto, Shape, FileKept
  <2>2. /\ In({"write"})' = {} /\ In({"open", "write"})' = {} /\ In({"set"})' = {}
        /\ In(Written)' = In(Written) \cup {p} /\ Done' = Done /\ p \in In({"open", "write"})
    BY <1>2, <1>4, <2>1 DEF In, Working, Written
  <2>3. file' = held[p] \/ file' = Leftover(held[p])
    BY <1>7, <2>1 DEF Write
  <2>4. DOMAIN file' = DOMAIN held[p] /\ \A e \in DOMAIN held[p] : file'[e] = held[p][e]
    BY <2>1, <2>3, NothingIsSound DEF Leftover
  <2>5. IsLayer(held[p]) /\ Only(held[p]) /\ \A q \in In(Written) \cup {p} : Carries(held[p], q)
    BY <2>2 DEF HeldKept
  <2>6. PICK l : l = file'
    OBVIOUS
  <2>7. IsLayer(l) /\ Only(l) /\ \A q \in In(Written) \cup {p} : Carries(l, q)
    BY <2>4, <2>5, <2>6 DEF IsLayer, Only, Has, Carries
  <2>8. Only(l)' /\ \A q \in In(Written) \cup {p} : Carries(l, q)'
    BY <1>1, <1>5, <2>7, SameBodies
  <2>9. \A q \in Puts : pc'[q] # "write"
    BY <2>2 DEF In
  <2>10. FileKept'
    BY <2>2, <2>6, <2>7, <2>8, <2>9 DEF FileKept
  <2>11. HeldKept' /\ LiveKept'
    BY <1>1, <1>5, <2>1, <2>2, SameBodies DEF HeldKept, LiveKept
  <2> QED  BY <2>10, <2>11
<1>8. CASE Load(p)
  <2>1. pc[p] = "load" /\ label \in {"set", "failed"} /\ UNCHANGED <<file, live, held>>
    BY <1>4, <1>8 DEF Load, Goto, Shape
  <2>2. /\ In({"write"}) = {} /\ In({"write"})' = {} /\ In({"open", "write"})' = {}
        /\ In({"set"})' \subseteq {p}
        /\ In(Written)' = In(Written) /\ Done' = Done /\ Done \cup {p} \subseteq In(Written)
    BY <1>2, <1>4, <2>1 DEF In, Working, Written
  <2>3. IsLayer(file) /\ Only(file) /\ \A q \in In(Written) : Carries(file, q)
    BY <2>2 DEF FileKept
  <2>4. \A q \in Puts : pc'[q] # "write"
    BY <2>2 DEF In
  <2>5. FileKept'
    BY <1>1, <1>5, <2>1, <2>2, <2>3, <2>4, SameBodies DEF FileKept
  <2>6. ASSUME p \in In({"set"})' PROVE Obeys(next[p], Done \cup {p})'
    <3>1. label = "set"
      BY <1>4, <2>6 DEF In
    <3>2. \E c \in Loads(file, flags) : next' = [next EXCEPT ![p] = c]
      BY <1>4, <1>8, <3>1 DEF Load, Goto, Shape
    <3>3. PICK c \in Loads(file, flags) : next' = [next EXCEPT ![p] = c]
      BY <3>2
    <3>4. next'[p] = c
      BY <3>3 DEF Shape
    <3>5. Obeys(c, Done \cup {p})
      BY <1>5, <2>2, <2>3, LoadsObey DEF Bodied
    <3> QED  BY <1>1, <1>5, <2>2, <3>4, <3>5, SameBodies
  <2>7. LiveKept'
    BY <1>1, <1>2, <1>5, <2>1, <2>2, <2>6, SameBodies DEF LiveKept
  <2>8. HeldKept'
    BY <2>2 DEF HeldKept
  <2> QED  BY <2>5, <2>7, <2>8
<1>9. CASE Set(p)
  <2>1. pc[p] = "set" /\ label = "apply" /\ live' = next[p] /\ UNCHANGED <<file, held, next>>
    BY <1>4, <1>9 DEF Set, Goto, Shape
  <2>2. /\ In({"write"}) = {} /\ In({"write"})' = {} /\ In({"open", "write"})' = {} /\ In({"set"})' = {}
        /\ In(Written)' = In(Written) /\ Done' = Done \cup {p} /\ p \in In({"set"})
    BY <1>2, <1>4, <2>1 DEF In, Working, Written
  <2>3. \A q \in Puts : pc'[q] # "write"
    BY <2>2 DEF In
  <2>4. FileKept'
    BY <1>1, <1>5, <2>1, <2>2, <2>3, SameBodies DEF FileKept
  <2>5. Obeys(live, Done)'
    <3>1. PICK c : c = next[p]
      OBVIOUS
    <3>2. Obeys(c, Done \cup {p}) /\ Done \cup {p} \in SUBSET Puts
      BY <1>5, <2>2, <3>1 DEF LiveKept
    <3> QED  BY <1>1, <2>1, <2>2, <3>1, <3>2, SameBodies
  <2>6. HeldKept' /\ LiveKept'
    BY <2>2, <2>5 DEF HeldKept, LiveKept
  <2> QED  BY <2>4, <2>6
<1>10. CASE Apply(p)
  <2>1. pc[p] = "apply" /\ label = "answered" /\ UNCHANGED <<file, live, held>>
    BY <1>4, <1>10 DEF Apply, Goto, Shape
  <2>2. /\ In({"write"}) = {} /\ In({"write"})' = {} /\ In({"open", "write"})' = {} /\ In({"set"})' = {}
        /\ In(Written)' = In(Written) /\ Done' = Done
    BY <1>2, <1>4, <2>1 DEF In, Working, Written
  <2>3. \A q \in Puts : pc'[q] # "write"
    BY <2>2 DEF In
  <2>4. FileKept'
    BY <1>1, <1>5, <2>1, <2>2, <2>3, SameBodies DEF FileKept
  <2>5. HeldKept' /\ LiveKept'
    BY <1>1, <1>5, <2>1, <2>2, SameBodies DEF HeldKept, LiveKept
  <2> QED  BY <2>4, <2>5
<1>11. ~Fail(p)
  BY DEF Fail
<1> QED  BY <1>6, <1>7, <1>8, <1>9, <1>10, <1>11

LEMMA LayersStep == IInv /\ Bodied /\ LayersInv /\ [Next]_vars => LayersInv'
<1> SUFFICES ASSUME Shape, OneAtATime, Bodied, FileKept, HeldKept, LiveKept, disturbed = "nothing",
                    [Next]_vars
             PROVE  FileKept' /\ HeldKept' /\ LiveKept'
  BY DisturbedStays DEF IInv, LayersInv
<1>1. \A P \in {In({"set"}), In({"apply", "answered"}), In(Written), In({"open", "write"})} : P \in SUBSET Puts
  BY DEF In
<1>2. CASE Stop
  <2>1. /\ UnderWay = {} /\ UNCHANGED <<file, flags, body>> /\ state' = "down"
        /\ pc' = [p \in Puts |-> IF p \in UnderWay THEN "killed" ELSE pc[p]]
    <3>1. UnderWay = {} /\ {p \in Puts : pc[p] = "write"} = {}
      BY <1>2 DEF Stop, UnderWay, Working
    <3> QED  BY <1>2, <3>1 DEF Stop
  <2>2. pc' = pc
    BY <2>1 DEF Shape
  <2>3. In({"open", "write"})' = {} /\ In({"set"})' = {}
    BY <2>1, <2>2 DEF In, UnderWay, Working
  <2>4. In({"write"})' = In({"write"}) /\ In(Written)' = In(Written)
    BY <2>2 DEF In
  <2>5. FileKept'
    BY <1>1, <2>1, <2>2, <2>4, SameBodies DEF FileKept
  <2> QED  BY <2>1, <2>3, <2>5 DEF HeldKept, LiveKept
<1>3. CASE UNCHANGED vars
  <2>1. UNCHANGED <<state, flags, live, file, body, held, next>>
    BY <1>3 DEF vars, callVars
  <2>2. pc' = pc
    BY <1>3 DEF vars, callVars
  <2>3. /\ In({"write"})' = In({"write"}) /\ In(Written)' = In(Written) /\ In({"set"})' = In({"set"})
        /\ In({"apply", "answered"})' = In({"apply", "answered"})
        /\ In({"open", "write"})' = In({"open", "write"})
    BY <2>2 DEF In
  <2>4. FileKept'
    BY <1>1, <2>1, <2>2, <2>3, SameBodies DEF FileKept
  <2>5. HeldKept'
    BY <1>1, <2>1, <2>3, SameBodies DEF HeldKept
  <2>6. LiveKept'
    BY <1>1, <2>1, <2>3, SameBodies DEF LiveKept
  <2> QED  BY <2>4, <2>5, <2>6
<1> QED  BY <1>2, <1>3, StartKept, PutKept, RequestKept DEF Next

\* Arguments override requests, requests the layers below them, and a list to
\* which one request has added alone is that of the layers below and the
\* addition, for any tables, bodies and order of requests and restarts.
THEOREM LayersAreKept == Spec => []LayersHold
<1>1. Init => LayersInv
  <2> SUFFICES ASSUME Init PROVE FileKept /\ HeldKept /\ LiveKept
    BY DEF LayersInv
  <2>1. \A P : In(P) \subseteq Puts
    BY DEF In
  <2>2. In({"write"}) = {} /\ In({"open", "write"}) = {} /\ In({"set"}) = {} /\ In(Written) = {}
    BY DEF Init, In, Written
  <2>3. FileKept
    BY <2>2, NothingIsSound DEF Init, FileKept, Only, Has, IsSound
  <2> QED  BY <2>2, <2>3 DEF Init, HeldKept, LiveKept
<1>2. Init => Bodied
  BY DEF Init, Bodied
<1>3. IInv /\ Bodied /\ [Next]_vars => Bodied'
  BY BodiedStep DEF IInv
<1>4. LayersInv => LayersHold
  <2> SUFFICES ASSUME FileKept, LiveKept, state = "up", NEW k \in Keys
               PROVE  /\ Name(k) \in DOMAIN flags => live[k] = flags[Name(k)]
                      /\ Name(k) \notin DOMAIN flags =>
                          /\ (\A p \in Puts : ~Touches(p, k)) => live[k] = Base[Name(k)]
                          /\ \A p \in Puts : pc[p] = "answered" =>
                              /\ Touches(p, k) /\ Plus(k) \notin DOMAIN body[p] /\ AloneOn(p, {k})
                                  => live[k] = body[p][Name(k)]
                              /\ Touches(p, k) /\ Name(k) \notin DOMAIN body[p] /\ AloneOn(p, Siblings(k))
                                  => live[k] = Base[Name(k)] \o body[p][Plus(k)]
    BY DEF LayersInv, LayersHold, Settled
  <2>1. Obeys(live, In({"apply", "answered"}))
    BY DEF LiveKept
  <2> QED  BY <2>1 DEF Obeys, In, Sets, Adds
<1> QED  BY <1>1, <1>2, <1>3, <1>4, LayersStep, Inductive, PTL DEF Spec
=============================================================================

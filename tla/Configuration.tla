--------------------------- MODULE Configuration ----------------------------
(***************************************************************************)
(* The configuration: layers of tables, merged when it is loaded; the user *)
(* layer config.d/90-user.toml, into which PUT /config merges its body;    *)
(* the live configuration, reloaded after that; and the copy of the port   *)
(* range in the supervisor.  internal/config/config.go, cfgState,          *)
(* updateConfig and cmdServe of cmd/runtimeforge, handleConfigPut.         *)
(*                                                                         *)
(* A layer is a function from the entries it has, <<prefix, key>> with the *)
(* prefix "" or "+", to values; it has a table when it has an entry of it. *)
(* Values of list keys are sequences.  Wrong is a value that the field's   *)
(* type does not decode: text, or a fraction that sanitizeNumbers leaves.  *)
(***************************************************************************)
EXTENDS Integers, Sequences, Functions

CONSTANTS
    Keys, ListKeys, \* the keys of interest, and those with lists
    TableOf,        \* the table of each key
    Base,           \* what the layers below the user's come to
    FlagChoices,    \* layers the arguments of `serve` can make (main.go:746-756)
    Bodies,         \* bodies of PUT /config
    Puts,           \* PUT /config requests
    Elements,       \* what lists hold
    DefaultRange,   \* the supervisor's own default
    Disturbances,   \* what can go wrong, one of them in a behaviour
    Wrong, Torn, None

PortRange == "internal_port_range"

Name(k)   == <<"", k>>
Plus(k)   == <<"+", k>>
Entries   == {Name(k) : k \in Keys} \cup {Plus(k) : k \in ListKeys}
IsLayer(l) == DOMAIN l \subseteq Entries

ASSUME ConfigurationAssumption ==
    /\ PortRange \in ListKeys /\ ListKeys \subseteq Keys
    /\ IsLayer(Base) /\ DOMAIN Base = {Name(k) : k \in Keys}
    /\ \A l \in FlagChoices \cup Bodies : IsLayer(l)
    /\ ~IsLayer(Torn)
    /\ \A l \in FlagChoices : DOMAIN l \subseteq {Name(k) : k \in Keys}
    /\ Disturbances \subseteq {"nothing", "puts", "kills", "failures"}

\* The layers below the user's and the arguments have the types of the fields:
\* otherwise no daemon ever starts.
IsTyped(l) == \A e \in DOMAIN l : IF e[2] \in ListKeys THEN l[e] \in Seq(Elements) ELSE l[e] # Wrong

ASSUME TypesAssumption ==
    /\ Wrong \notin Elements
    /\ None \notin Seq(Elements \cup {Wrong}) /\ Wrong \notin Seq(Elements \cup {Wrong})
    /\ \A l \in FlagChoices \cup {Base} : IsTyped(l)
    /\ \A b \in Bodies : \A e \in DOMAIN b :
          e[2] \in ListKeys => b[e] \in Seq(Elements \cup {Wrong}) \cup {Wrong}

VARIABLES
    disturbed, \* "puts" overlap, "kills" during one, "failures" of the disk
    state,     \* of the daemon
    flags,     \* its overlay, from the arguments it is always started with
    live,      \* cfgState.cfg
    range,     \* Supervisor.opts.PortRange
    file,      \* the user layer on disk, or Torn: not TOML
    pc, body,  \* of each request
    held,      \* what SaveOverlay is about to write
    next       \* what reload has loaded

callVars == <<pc, body, held, next>>
vars     == <<disturbed, state, flags, live, range, file, callVars>>

NoEntries == [e \in {} |-> None]

-----------------------------------------------------------------------------
(* Merge, Decode                                                           *)

HasTable(l, t) == \E e \in DOMAIN l : TableOf[e[2]] = t

\* Mutant: a list is appended as one element.
AppendWhole(existing, addition) ==
    (IF existing \in {None, Wrong} THEN <<>> ELSE existing) \o <<Wrong>>

\* A base that is not a list counts as empty; an addition that is not one is
\* appended as an element.
AppendValue(existing, addition) ==
    (IF existing \in {None, Wrong} THEN <<>> ELSE existing)
        \o (IF addition = Wrong THEN <<Wrong>> ELSE addition)

\* A table that only the overlay has is copied as it stands, "+" included. Of
\* a key given in both ways Go's map order says which is visited last: "+" for
\* the keys in late.
Merge(base, over, late) ==
    LET nested  == {e \in Entries : HasTable(base, TableOf[e[2]])}
        Given(k) == IF Name(k) \in DOMAIN over THEN over[Name(k)]
                    ELSE IF Name(k) \in DOMAIN base THEN base[Name(k)] ELSE None
        Appends(k) == /\ Plus(k) \in DOMAIN over
                      /\ k \in late \/ Name(k) \notin DOMAIN over
        Value(k) == IF Appends(k) THEN AppendValue(Given(k), over[Plus(k)]) ELSE Given(k)
        named   == {Name(e[2]) : e \in DOMAIN over \cap nested}
    IN  [e \in DOMAIN base \cup named \cup (DOMAIN over \ nested) |->
            IF e \notin nested THEN over[e]
            ELSE IF e \in named THEN Value(e[2])
            ELSE base[e]]

\* Layered: what a user layer and the flags can come to.
Layered(user, overlay) ==
    {Merge(Merge(Base, user, late), overlay, {}) : late \in SUBSET ListKeys}

Decodes(m) ==
    \A k \in Keys : /\ m[Name(k)] # Wrong
                    /\ k \in ListKeys => Wrong \notin Range(m[Name(k)])
Decode(m) == [k \in Keys |-> m[Name(k)]]

\* Mutant: fields of the wrong type are let through.
LoadsUnchecked(user, overlay) == {Decode(m) : m \in Layered(user, overlay)}

\* Load: the configurations it can return; none when it always fails.
Loads(user, overlay) == {Decode(m) : m \in {n \in Layered(user, overlay) : Decodes(n)}}
LoadFails(user, overlay) ==
    user # Torn => \E m \in Layered(user, overlay) : ~Decodes(m)

-----------------------------------------------------------------------------
Working  == {"open", "write", "load", "set", "apply"}
UnderWay == {p \in Puts : pc[p] \in Working}

IsConfig(c) == /\ DOMAIN c = Keys
               /\ \A k \in ListKeys : c[k] # Wrong /\ Wrong \notin Range(c[k])
               /\ \A k \in Keys \ ListKeys : c[k] # Wrong

\* The types; what runs has been decoded.
TypeOK ==
    /\ disturbed \in Disturbances
    /\ state \in {"down", "up", "refused"}
    /\ flags \in FlagChoices
    /\ state = "up" => IsConfig(live)
    /\ range \in Seq(Int) /\ Len(range) = 2
    /\ file = Torn \/ IsLayer(file)
    /\ pc \in [Puts -> Working \cup {"idle", "answered", "refused", "failed", "broken", "killed", "cut"}]
    /\ body \in [Puts -> Bodies \cup {NoEntries}]
    /\ \A p \in Puts : IsLayer(held[p])
    /\ \A p \in Puts : pc[p] \in {"set", "apply"} => IsConfig(next[p])

Init ==
    /\ disturbed \in Disturbances
    /\ state = "down"
    /\ flags \in FlagChoices
    /\ live = None
    /\ range = DefaultRange
    /\ file = NoEntries
    /\ pc = [p \in Puts |-> "idle"]
    /\ body = [p \in Puts |-> NoEntries]
    /\ held = [p \in Puts |-> NoEntries]
    /\ next = [p \in Puts |-> None]

-----------------------------------------------------------------------------
(* The daemon.                                                             *)

\* cmdServe; supervisor.New only looks at the length of the range.
Start ==
    /\ state # "up"
    /\ \/ /\ LoadFails(file, flags)
          /\ state' = "refused" /\ UNCHANGED <<live, range>>
       \/ /\ file # Torn
          /\ \E c \in Loads(file, flags) :
                /\ live' = c
                /\ range' = IF Len(c[PortRange]) = 2 THEN c[PortRange] ELSE DefaultRange
          /\ state' = "up"
    /\ UNCHANGED <<disturbed, flags, file, callVars>>

\* What a write that ends early leaves: some of the entries, as many as were
\* written, or text that ends in the middle of one, which is no TOML.
Cut(l) == {Torn} \cup {Restrict(l, es) : es \in SUBSET DOMAIN l}

\* A kill ends requests between their steps, or in the middle of a write.
Stop ==
    /\ state = "up"
    /\ UnderWay = {} \/ disturbed = "kills"
    /\ state' = "down" /\ live' = None
    /\ \E cut \in SUBSET {p \in Puts : pc[p] = "write"} :
          /\ pc' = [p \in Puts |-> IF p \in cut THEN "cut"
                                  ELSE IF p \in UnderWay THEN "killed" ELSE pc[p]]
          /\ IF cut = {} THEN UNCHANGED file ELSE \E p \in cut : file' \in Cut(held[p])
    /\ held' = [p \in Puts |-> NoEntries] /\ next' = [p \in Puts |-> None]
    /\ UNCHANGED <<disturbed, flags, range, body>>

-----------------------------------------------------------------------------
(* PUT /config: SaveOverlay, reload, SetPortRange.                         *)

Goto(p, label) == pc' = [pc EXCEPT ![p] = label]

\* Mutant: the body alone is saved.
PutForgetting(p, b) ==
    /\ pc[p] = "idle" /\ state = "up"
    /\ UnderWay = {} \/ disturbed = "puts"
    /\ body' = [body EXCEPT ![p] = b]
    /\ held' = [held EXCEPT ![p] = b] /\ Goto(p, "open")
    /\ UNCHANGED <<disturbed, state, flags, live, range, file, next>>

\* The file is read and merged with the body.
Put(p, b) ==
    /\ pc[p] = "idle" /\ state = "up"
    /\ UnderWay = {} \/ disturbed = "puts"
    /\ body' = [body EXCEPT ![p] = b]
    /\ IF file = Torn
       THEN Goto(p, "refused") /\ UNCHANGED held
       ELSE /\ \E late \in SUBSET ListKeys : held' = [held EXCEPT ![p] = Merge(file, b, late)]
            /\ Goto(p, "open")
    /\ UNCHANGED <<disturbed, state, flags, live, range, file, next>>

\* os.WriteFile truncates...
Open(p) ==
    /\ pc[p] = "open"
    /\ file' = NoEntries
    /\ Goto(p, "write")
    /\ UNCHANGED <<disturbed, state, flags, live, range, body, held, next>>

\* ... and writes from the start. Over another request's longer text the end
\* of that stays: no TOML any more, or tables of it after those written.
Leftover(l) ==
    [e \in DOMAIN l \cup {d \in DOMAIN file : ~HasTable(l, TableOf[d[2]])} |->
        IF e \in DOMAIN l THEN l[e] ELSE file[e]]
Write(p) ==
    /\ pc[p] = "write"
    /\ \/ file' = held[p]
       \/ file \notin {NoEntries, held[p]} /\ file' = Torn
       \/ file # Torn /\ file' = Leftover(held[p])
    /\ held' = [held EXCEPT ![p] = NoEntries]
    /\ Goto(p, "load")
    /\ UNCHANGED <<disturbed, state, flags, live, range, body, next>>

\* The directory or the open fails, or the write at some place.
Fail(p) ==
    /\ disturbed = "failures"
    /\ \/ pc[p] = "open" /\ Goto(p, "refused") /\ UNCHANGED file
       \/ pc[p] = "write" /\ Goto(p, "broken") /\ file' \in Cut(held[p])
    /\ held' = [held EXCEPT ![p] = NoEntries]
    /\ UNCHANGED <<disturbed, state, flags, live, range, body, next>>

\* reload; what has been saved stays when it cannot be loaded.
Load(p) ==
    /\ pc[p] = "load"
    /\ \/ LoadFails(file, flags) /\ Goto(p, "failed") /\ UNCHANGED next
       \/ /\ file # Torn
          /\ \E c \in Loads(file, flags) : next' = [next EXCEPT ![p] = c]
          /\ Goto(p, "set")
    /\ UNCHANGED <<disturbed, state, flags, live, range, file, body, held>>

\* Mutant: what was loaded is only returned.
SetNothing(p) ==
    /\ pc[p] = "set"
    /\ Goto(p, "apply")
    /\ UNCHANGED <<disturbed, state, flags, live, range, file, body, held, next>>

Set(p) ==
    /\ pc[p] = "set"
    /\ live' = next[p]
    /\ Goto(p, "apply")
    /\ UNCHANGED <<disturbed, state, flags, range, file, body, held, next>>

\* handleConfigPut and the test in SetPortRange.
Accepted(r) == Len(r) = 2 /\ r[1] > 0 /\ r[1] <= r[2]

\* Mutant: the supervisor is only told when it starts.
ApplyNothing(p) ==
    /\ pc[p] = "apply"
    /\ next' = [next EXCEPT ![p] = None]
    /\ Goto(p, "answered")
    /\ UNCHANGED <<disturbed, state, flags, live, range, file, body, held>>

Apply(p) ==
    /\ pc[p] = "apply"
    /\ range' = IF Accepted(next[p][PortRange]) THEN next[p][PortRange] ELSE range
    /\ next' = [next EXCEPT ![p] = None]
    /\ Goto(p, "answered")
    /\ UNCHANGED <<disturbed, state, flags, live, file, body, held>>

-----------------------------------------------------------------------------
Next ==
    \/ Start \/ Stop
    \/ \E p \in Puts, b \in Bodies : Put(p, b)
    \/ \E p \in Puts :
          Open(p) \/ Write(p) \/ Fail(p) \/ Load(p) \/ Set(p) \/ Apply(p)

Spec == Init /\ [][Next]_vars

-----------------------------------------------------------------------------
(* Properties.                                                             *)

Settled  == state = "up" /\ UnderWay = {}
Failed   == \E p \in Puts : pc[p] \in {"failed", "broken"}
Touches(p, k) == {Name(k), Plus(k)} \cap DOMAIN body[p] # {}

\* When no request is being answered and none has failed after it opened the
\* file, what runs is what the next start would load, kills and refused
\* requests before that included (updateConfig saves first, reloads after).
SavedIsLive ==
    Settled /\ disturbed # "puts" /\ ~Failed
        => file # Torn /\ live \in Loads(file, flags)

\* The supervisor's copy of the port range follows the live one, unless that
\* is one SetPortRange does not take.
RangeFollows ==
    Settled /\ disturbed # "puts" /\ Accepted(live[PortRange])
        => range = live[PortRange]

\* Arguments override requests, requests the files below them (SPEC.md:95-104):
\* a key no request has named has its base value, one that a single request
\* has set that request's, and a list to which a request alone in its table
\* has added is the base list with the addition.
AloneOn(p, ks) == \A q \in Puts \ {p} : \A k \in ks : ~Touches(q, k)
Siblings(k)    == {j \in Keys : TableOf[j] = TableOf[k]}
LayersHold ==
    Settled /\ disturbed = "nothing" => \A k \in Keys :
        /\ Name(k) \in DOMAIN flags => live[k] = flags[Name(k)]
        /\ Name(k) \notin DOMAIN flags =>
            /\ (\A p \in Puts : ~Touches(p, k)) => live[k] = Base[Name(k)]
            /\ \A p \in Puts : pc[p] = "answered" =>
                /\ Touches(p, k) /\ Plus(k) \notin DOMAIN body[p] /\ AloneOn(p, {k})
                    => live[k] = body[p][Name(k)]
                /\ Touches(p, k) /\ Name(k) \notin DOMAIN body[p] /\ AloneOn(p, Siblings(k))
                    => live[k] = Base[Name(k)] \o body[p][Plus(k)]

\* Where requests do not overlap, a start is refused only after a request with
\* a value of the wrong type or one cut short in its write: no kill between two
\* steps, no refused request, no order of starts and lists added to is enough
\* (config.go 301-323, main.go 686-691).
Mistyped(b) == \E e \in DOMAIN b : \/ b[e] = Wrong
                                   \/ e[2] \in ListKeys /\ Wrong \in Range(b[e])
CutShort(p) == pc[p] \in {"broken", "cut"}
StartsAgain ==
    state = "refused" => disturbed = "puts" \/ \E p \in Puts : CutShort(p) \/ Mistyped(body[p])

-----------------------------------------------------------------------------
(* Not so, though said or implied:                                         *)

\* SPEC.md:104: a list under a "+" key is added to what was there.
AppendsToList ==
    Settled /\ disturbed = "nothing" => \A p \in Puts, k \in ListKeys :
        pc[p] = "answered" /\ {Name(k), Plus(k)} \cap DOMAIN body[p] = {Plus(k)} /\ AloneOn(p, {k})
            => live[k] = Base[Name(k)] \o body[p][Plus(k)]

\* config.go:300: what one request has saved stays when others save, or are
\* killed at it.
SavesAll ==
    Settled => \A p \in Puts, k \in Keys \ ListKeys :
        pc[p] = "answered" /\ Touches(p, k) /\ Name(k) \notin DOMAIN flags /\ AloneOn(p, {k})
            => live[k] = body[p][Name(k)]

\* server.go:234: the supervisor has the port range that was reloaded, whichever
\* requests overlapped.
RangeIsLive == Settled /\ Accepted(live[PortRange]) => range = live[PortRange]

\* server.go:231: the body of a request that is refused has no effect, so the
\* daemon can always be started again.
StartsAlways == state # "refused"
=============================================================================

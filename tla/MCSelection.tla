---------------------------- MODULE MCSelection -----------------------------
(* Instances of Selection for TLC. *)
EXTENDS Selection

CONSTANTS known, unknown, newer, llama, qwen

\* The newer commit knows an architecture more.
ArchOf     == [m \in Models |-> IF m = known THEN llama ELSE IF m = newer THEN qwen ELSE None]
ArchsOf    == [c \in Commits |-> IF c = 1 THEN {llama} ELSE {llama, qwen}]
CpuCuda    == {{"cpu"}, {"cuda"}, {"cpu", "cuda"}}
CpuVulkan  == {{"cpu"}, {"vulkan"}}
JustCpu    == {{"cpu"}}

One == {[commit |-> 1, backends |-> {"cpu"}]}

\* The default and a shorter list, and lists that name a backend again, as
\* "+backend_priority" in another layer makes them.
Usual      == {<<"cuda", "vulkan", "cpu">>, <<"cpu">>}
Repeating  == {<<"cuda", "cpu", "cuda">>, <<"cpu">>}
Overgrown  == {<<"cuda", "cuda", "cuda", "cpu">>}

Device(name, cuda, driver) == [name |-> name, cuda |-> cuda, driver |-> driver]
Host(nvidia, vulkan, devices) == [skip |-> FALSE, nvidia |-> nvidia, vulkan |-> vulkan, devices |-> devices]

Laptop   == Host("works", "works", <<Device("igpu", FALSE, "anv"), Device("card", TRUE, "nvidia")>>)
Server   == Host("silent", "works", <<Device("card", TRUE, "none"), Device("cpu", FALSE, "llvmpipe")>>)
Plain    == Host("missing", "works", <<Device("igpu", FALSE, "radv")>>)
Skipped  == [Laptop EXCEPT !.skip = TRUE]
AnyHost  == {Laptop, Server, Skipped}
JustPlain == {Plain}

\* A driver that does not answer, and two cards of one kind.
Broken   == AnyHost \cup {Host("message", "missing", <<Device("card", TRUE, "none")>>)}
Twins    == AnyHost \cup {Host("works", "works", <<Device("card", TRUE, "nvidia"), Device("card", TRUE, "nvidia")>>)}

\* Every host of at most two devices of different names.
ManyHosts ==
    LET Of(name) == {Device(name, c, d) : c \in BOOLEAN, d \in {"none", "nvidia", "radv", "llvmpipe"}}
    IN {[skip |-> FALSE, nvidia |-> n, vulkan |-> v, devices |-> s] :
           n \in {"missing", "works", "silent"}, v \in {"missing", "works", "silent"},
           s \in {<<>>} \cup {<<d>> : d \in Of("a")} \cup (Of("a") \X Of("b"))}

\* mergeGPUs as the loop over the Vulkan devices, and the same of the lists of
\* up to two cards and three devices of two names.
MergeInTurn(base, extra) ==
    FoldLeft(LAMBDA gpus, e :
                LET same == {i \in DOMAIN gpus : gpus[i].name = e.name}
                    first == CHOOSE i \in same : \A j \in same : i <= j
                IN IF same = {} THEN Append(gpus, e)
                   ELSE [gpus EXCEPT ![first].apis = @ \cup {"vulkan"}],
             base, extra)

ASSUME MergeIsTheLoop ==
    LET Lists(n, entry) == UNION {[1 .. i -> entry] : i \in 0 .. n}
        Of(api) == [name : {"a", "b"}, apis : {{api}}]
    IN \A base \in Lists(2, Of("cuda")), extra \in Lists(3, Of("vulkan")) :
          mergeGPUs(base, extra) = MergeInTurn(base, extra)

\* What the theorems suppose holds of the hosts and lists of the runs; it does
\* not of Broken and of Overgrown.
ASSUME RunsAreUsual ==
    /\ \A h \in AnyHost \cup JustPlain \cup Twins : FindsWhatWorks(h)
    /\ \A h \in AnyHost \cup JustPlain : UsualHost(h) /\ DriversAgree(h)
    /\ \A h \in ManyHosts : UsualHost(h)
    /\ \A p \in Usual \cup Repeating : IsShort(p)
=============================================================================

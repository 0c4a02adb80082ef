------------------------------ MODULE Hardware ------------------------------
(***************************************************************************)
(* internal/hardware/hardware.go: the report made of what nvidia-smi and   *)
(* vulkaninfo print.  A host is its devices, each with its name, whether   *)
(* CUDA has it and the Vulkan driver that has it, if any, and how the two  *)
(* tools fare; a tool that fails may have printed nothing, as when the     *)
(* thirty seconds of a detection are over, or a message.                   *)
(***************************************************************************)
EXTENDS Integers, FiniteSets, Sequences, SequencesExt

CONSTANT Message   \* what a failing tool prints, read as the name of a card

\* "silent": an error and no output; "message": an error and some output.
ToolStates == {"missing", "works", "silent", "message"}

\* Some places of a list in their order, and what the list has there.
Ordered(S)  == CHOOSE p \in [1 .. Cardinality(S) -> S] : \A i, j \in DOMAIN p : i < j => p[i] < p[j]
At(list, S) == [i \in 1 .. Cardinality(S) |-> list[Ordered(S)[i]]]

-----------------------------------------------------------------------------
(* Parsing.                                                                *)

\* The lines that nvidia-smi prints, and the blocks that vulkaninfo does.
NvidiaLines(host)  == LET cards == At(host.devices, {i \in DOMAIN host.devices : host.devices[i].cuda})
                      IN [i \in DOMAIN cards |-> cards[i].name]
VulkanBlocks(host) == At(host.devices, {i \in DOMAIN host.devices : host.devices[i].driver # "none"})

\* A card for each line that is not empty, whatever it says.
parseNvidiaSMI(lines) ==
    [i \in DOMAIN lines |-> [vendor |-> "nvidia", name |-> lines[i], apis |-> {"cuda"}]]

vendorFromDriver(driver) ==
    CASE driver = "nvidia" -> "nvidia"
      [] driver \in {"radv", "amdvlk"} -> "amd"
      [] driver = "anv" -> "intel"
      [] driver \in {"llvmpipe", "lavapipe", "swiftshader"} -> "software"
      [] OTHER -> "unknown"

parseVulkanSummary(blocks) ==
    [i \in DOMAIN blocks |-> [vendor |-> vendorFromDriver(blocks[i].driver),
                              name |-> blocks[i].name, apis |-> {"vulkan"}]]

-----------------------------------------------------------------------------
(* The report.                                                             *)

NamesIn(list)     == {list[i].name : i \in DOMAIN list}
FirstOfName(list) == {i \in DOMAIN list : \A j \in DOMAIN list : list[j].name = list[i].name => i <= j}

\* A Vulkan device goes to the first entry of its name, or to the end.
mergeGPUs(base, extra) ==
    [i \in DOMAIN base |->
        IF i \in FirstOfName(base) /\ base[i].name \in NamesIn(extra)
        THEN [base[i] EXCEPT !.apis = @ \cup {"vulkan"}] ELSE base[i]]
    \o At(extra, {i \in FirstOfName(extra) : extra[i].name \notin NamesIn(base)})

\* Mutant: the two lists are put together and not merged.
detectApart(host) ==
    (IF host.nvidia = "works" THEN parseNvidiaSMI(NvidiaLines(host)) ELSE <<>>)
    \o (IF host.vulkan = "works" THEN parseVulkanSummary(VulkanBlocks(host)) ELSE <<>>)

\* What a failing nvidia-smi has printed is read as if it had not failed.
detectGPUs(host) ==
    LET nvidia == CASE host.nvidia = "works" -> parseNvidiaSMI(NvidiaLines(host))
                    [] host.nvidia = "message" -> parseNvidiaSMI(<<Message>>)
                    [] OTHER -> <<>>
    IN IF host.vulkan = "works" THEN mergeGPUs(nvidia, parseVulkanSummary(VulkanBlocks(host))) ELSE nvidia

availableBackends(host) ==
    LET gpus == Range(detectGPUs(host)) IN
    {"cpu"} \cup {b \in {"cuda"} : host.nvidia # "missing" /\ \E g \in gpus : g.vendor = "nvidia"}
            \cup {b \in {"vulkan"} : /\ host.vulkan # "missing"
                                     /\ \E g \in gpus : g.vendor # "software" /\ "vulkan" \in g.apis}

\* detectHardware: an empty report when detection is skipped; only a failure
\* without output is noted.
Detect(host) ==
    IF host.skip THEN [gpus |-> <<>>, backends |-> {}, notes |-> {}]
    ELSE [gpus     |-> detectGPUs(host),
          backends |-> availableBackends(host),
          notes    |-> {t \in {"nvidia", "vulkan"} : host[t] = "silent"}]

-----------------------------------------------------------------------------
(* What a report should say, from the host and not from the tools' output. *)

Has(host, d, api) == CASE api = "cuda"   -> host.nvidia = "works" /\ d.cuda
                       [] api = "vulkan" -> host.vulkan = "works" /\ d.driver # "none"

\* A backend that this host can run.
Works(host, b) ==
    \/ b = "cpu"
    \/ /\ b \in {"cuda", "vulkan"}
       /\ \E d \in Range(host.devices) :
             Has(host, d, b) /\ (b = "vulkan" => vendorFromDriver(d.driver) # "software")

\* The APIs of each device that has some.
Inventory(host) ==
    LET entry == [i \in DOMAIN host.devices |->
                    [name |-> host.devices[i].name,
                     apis |-> {a \in {"cuda", "vulkan"} : Has(host, host.devices[i], a)}]]
    IN At(entry, {i \in DOMAIN entry : entry[i].apis # {}})

\* Hosts a report can be right about: names tell the devices apart, and a tool
\* prints what it should or nothing.
UsualHost(host) ==
    /\ host.devices \in Seq(Range(host.devices))
    /\ \A i, j \in DOMAIN host.devices : host.devices[i].name = host.devices[j].name => i = j
    /\ {host.nvidia, host.vulkan} \subseteq {"missing", "works", "silent"}

\* The devices the tool of an API lists.
Under(host, api) == {i \in DOMAIN host.devices : Has(host, host.devices[i], api)}

\* Where nvidia-smi is, NVIDIA's Vulkan driver runs beside a card with CUDA, and
\* no card with CUDA has a software renderer for a driver.
DriversAgree(host) ==
    \A i \in Under(host, "vulkan") :
        LET vendor == vendorFromDriver(host.devices[i].driver) IN
        /\ vendor = "nvidia" /\ host.nvidia # "missing" => Under(host, "cuda") # {}
        /\ i \in Under(host, "cuda") => vendor # "software"

Copies(seq, e) == Cardinality({i \in DOMAIN seq : seq[i].name = e.name /\ seq[i].apis = e.apis})
=============================================================================

-------------------------- MODULE MCConfiguration ---------------------------
(* Instances of Configuration for TLC. *)
EXTENDS Configuration, TLC

CONSTANTS cuda, cpu, rocm

Lists    == {PortRange, "backend_priority"}
AllKeys  == Lists \cup {"port"}
Tables   == [k \in AllKeys |-> IF k = "backend_priority" THEN "runtime" ELSE "server"]

Port(n)     == (Name("port") :> n)
Ports(r)    == (Name(PortRange) :> r)
Priority(s) == (Name("backend_priority") :> s)

Defaults  == Port(1) @@ Ports(<<1, 2>>) @@ Priority(<<cuda, cpu>>)
Range0    == <<3, 3>>
NoTOML    == <<"torn", "">> :> None
Contents  == 1 .. 9 \cup {cuda, cpu, rocm}
Arguments == {NoEntries, Port(9)}

\* Each way a body can name a key: set, added to, both, of the wrong type; port
\* ranges that SetPortRange takes and not; and one body for two tables.
Requests == {Ports(<<5, 6>>), Ports(<<6, 5>>), Plus(PortRange) :> <<7>>,
             Priority(<<cpu>>) @@ (Plus("backend_priority") :> <<cuda>>),
             Priority(Wrong), Port(3) @@ Priority(<<rocm>>)}

Symmetry == Permutations(Puts)
=============================================================================

SPECIFICATION Spec
CONSTANTS
    known = known
    unknown = unknown
    newer = newer
    llama = llama
    qwen = qwen
    Models = {known, newer, unknown}
    Archs = {llama, qwen}
    ModelArch <- ArchOf
    Commits = {1, 2}
    CommitArchs <- ArchsOf
    BackendSets <- CpuCuda
    Priorities <- Repeating
    Hosts <- AnyHost
    MaxBuilds = 2
    Named <- One
    Message = Message
    None = None
INVARIANTS ReportFaithful
PROPERTIES ChoiceRuns PriorityHonoured RefusedForCause

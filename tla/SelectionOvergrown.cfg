SPECIFICATION Spec
CONSTANTS
    known = known
    unknown = unknown
    newer = newer
    llama = llama
    qwen = qwen
    Models = {known}
    Archs = {llama, qwen}
    ModelArch <- ArchOf
    Commits = {1}
    CommitArchs <- ArchsOf
    BackendSets <- CpuVulkan
    Priorities <- Overgrown
    Hosts <- JustPlain
    MaxBuilds = 2
    Named = {}
    Message = Message
    None = None
PROPERTIES ListedFirst

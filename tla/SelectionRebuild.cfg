SPECIFICATION Spec
CONSTANTS
    known = known
    unknown = unknown
    newer = newer
    llama = llama
    qwen = qwen
    Models = {known}
    Archs = {llama, qwen}
    ModelArch <- ArchOf
    Commits = {1, 2}
    CommitArchs <- ArchsOf
    BackendSets <- JustCpu
    Priorities <- Usual
    Hosts <- AnyHost
    MaxBuilds = 2
    Named = {}
    Message = Message
    None = None
PROPERTIES NewestCommit

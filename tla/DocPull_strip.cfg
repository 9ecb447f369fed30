SPECIFICATION Spec
CONSTANTS
    Files = {1, 2, 3}
    Docs = {1, 2}
    Old = Old
    Gen = Gen
    None = None
    Mine = {mine}
    Theirs = {theirs}
    FirstCommits = {{1, 3}, {2}}
    EditKinds = {"unstaged"}
    UpstreamDeletes = FALSE
    GitMayFail = FALSE
    ChunkSize = 1
    MaxEdits = 1
    MaxUpstream = 2
    MaxPulls = 1
PROPERTY NothingLocalLost
CHECK_DEADLOCK FALSE

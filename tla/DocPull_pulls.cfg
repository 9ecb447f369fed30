SPECIFICATION Spec
CONSTANTS
    Files = {1, 2, 3}
    Docs = {1, 2}
    Old = Old
    Gen = Gen
    None = None
    Mine = {mine}
    Theirs = {theirs}
    FirstCommits = {{1, 3}, {2}}
    EditKinds = {"new", "unstaged", "staged", "commit", "during"}
    UpstreamDeletes = TRUE
    GitMayFail = TRUE
    ChunkSize = 1
    MaxEdits = 2
    MaxUpstream = 2
    MaxPulls = 2
INVARIANT TypeOK
INVARIANT PullDelivers
 
PROPERTY NothingSneaksIn
CHECK_DEADLOCK FALSE

SPECIFICATION FairSpec
CONSTANTS
    Inlines = {"code"}
    Urls = {"a", "b"}
    Branches = {"dev"}
    Tags = {"v1"}
    None = None
    Specs <- MCSpecs
    MaxEvents = 3
INVARIANTS
    TypeOK
    HashOfContent
    CommitOfUrl
PROPERTIES
    Settles
    Quiet
CHECK_DEADLOCK FALSE

\* One paginated and one plain entity of up to six records.
SPECIFICATION FairSpec
CONSTANTS
    Sites <- AllSites
    Paged = {tasks}
    Plain = {tags}
    Unknown = unknown
    Sizes = {1, 2, 3}
    DefaultLimit = 1
    MaxOffset = 4
INVARIANTS ShowsLatest PageInRange NotStranded MissesFew RepeatsFew LinksNameThePages
PROPERTIES LoadingEnds
CHECK_DEADLOCK FALSE

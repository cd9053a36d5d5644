\* The times of the tags are on both sides of Half.
CONSTANTS
    Half = 8
    Cap = 6
    Misread <- MCMisread
    BadTags <- MCBadTags
    MaxTimeouts = 2
    MaxRegistrations = 2
    Registrations <- MCRegistrations
    Requests <- MCRequests
    Scripts <- MCScripts
    Pieces = {1, 10}
    Arrivals = {1, 3}
    Window = 1
SPECIFICATION Spec
INVARIANTS TagsInOrder EofAtEnd FailsForAReason NothingBehindTheBody
PROPERTIES StopsAtEnd FindsItsHandler
CHECK_DEADLOCK FALSE

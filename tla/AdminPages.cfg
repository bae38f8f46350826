\* Two values typed, three tasks at a time, one of them of a page left; the configuration
\* of one page changed.
CONSTANTS
    MaxEdits = 2
    MaxTasks = 3
    MaxOrphans = 1
    MaxChanged = 1
SPECIFICATION Spec
INVARIANTS TypeOK NeverBlanked ShownIsSaved IInv
PROPERTIES TypedIsKept SavedStays FormComesBack
CHECK_DEADLOCK FALSE

\* Concurrent OnChange goroutines, Sync and Stop on one namespace with two
\* keys: the merge stays well typed and agrees with agollo's diff.
CONSTANTS
    Namespaces = {n1}
    Keys = {k1, k2}
    Vals = {v1, v2}
    MaxPublish = 2
    MaxSync = 1
    Absent = Absent
SPECIFICATION Spec
\* Events stop at MaxPublish; the real process then waits in Next.
CHECK_DEADLOCK FALSE
INVARIANTS
    TypeOK
    DiffRoundTrip

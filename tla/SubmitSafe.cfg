\* Three requests, one idempotency key, one publication.  The requests of the
\* instance run out.
CONSTANTS
    Requests = {r1, r2, r3}
    None = None
    Keys = {k1}
    Payloads = {a, b}
    Publishers = {p1}
SPECIFICATION MCSpec
SYMMETRY Symmetry
INVARIANTS TypeOK ReferencedExists NoAcceptanceAfterClose SameKeySameAnswer
    AnsweredIsEnqueued
CHECK_DEADLOCK FALSE

\* A create and its retry with the same idempotency key.
CONSTANTS
    Requests = {r1, r2}
    None = None
    Keys = {k1}
    Payloads = {a}
    Publishers = {p1}
SPECIFICATION Spec
INVARIANT NothingAnsweredIsLost

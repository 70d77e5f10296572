\* Two requests publish the challenge and one creates a submission.
CONSTANTS
    Requests = {r1}
    None = None
    Keys = {k1}
    Payloads = {a, b}
    Publishers = {p1, p2}
SPECIFICATION Spec
INVARIANT NoAcceptanceAfterClose

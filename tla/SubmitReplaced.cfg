\* One request creates a submission, another one uploads its artifact.
CONSTANTS
    Requests = {r1, r2}
    None = None
    Keys = {k1}
    Payloads = {a}
    Publishers = {p1}
SPECIFICATION Spec
PROPERTY ArtifactSettled

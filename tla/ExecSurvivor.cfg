\* A program that starts a child, on a host with Job Objects.
CONSTANTS
    Asked = {"child_process"}
    Children = {"c1"}
    JobObjectsHere = TRUE
    OutputCap = 1
    MaxProcessCount = 2
    RetainOnFailure = FALSE
    MaxExecutions = 1
SPECIFICATION XSpec
INVARIANT SuccessIsClean
CHECK_DEADLOCK FALSE

\* One profile with a login and a proxy credential, three operations, two faults in each.
SPECIFICATION Spec
CONSTANTS
    Documents = {"system", "portable", "session"}
    Secrets = {s1, s2}
    Default = "system"
    Slots = {"login", "proxy"}
    MaxOperations = 3
    MaxFaults = 2
SYMMETRY SecretSymmetry
INVARIANTS CopySurvives AsBeforeOrAsAsked
PROPERTIES FailureRestores ImplementsSavedDocument
\* Only a restart is left once every operation was used.
CHECK_DEADLOCK FALSE

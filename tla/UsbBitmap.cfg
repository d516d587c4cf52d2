SPECIFICATION Spec
CONSTANTS
    NoKeys = NoKeys
    Junk = Junk
    Key = Key
    Reports <- MCReports
    Worlds <- Announcing
PROPERTY DoneEndsWait

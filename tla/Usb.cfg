SPECIFICATION Spec
CONSTANTS
    NoKeys = NoKeys
    Junk = Junk
    Key = Key
    Reports <- MCReports
    Worlds <- QuietHarshMute
INVARIANT TypeOK
INVARIANT EnumeratedInOrder
PROPERTY PortFollowsKeyboard
PROPERTY Reenumerates

\* Memory of three words.
SPECIFICATION Spec
CONSTANTS
    Last = 2
    Status = 1
    Pace = 3
INVARIANT NoContention
PROPERTY ActsAsPorts

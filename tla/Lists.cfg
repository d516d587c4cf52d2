SPECIFICATION Spec
CONSTANTS
    Lengths <- MCLengths
    PacketSize = 8
INVARIANT WellLinked
INVARIANT TogglesAlternate
INVARIANT AddressKnown
INVARIANT RoomEnough
INVARIANT AnswersReadable

SPECIFICATION Spec
CONSTANTS
    Upper <- MCUpper
    NumberOf <- MCNumberOf
    Numeral <- MCNumeral
    ByteValues = 2
    Clients = {c1, c2}
    Rude = {c2}
    Corpus <- MCCorpus
    Sessions <- MCSessions
    Literal <- MCLiteral
    Default <- MCDefault
    Backlog = 1
    MaxQueries = 2
    NoAnswer = NoAnswer
    Forms = {"core"}
INVARIANTS
    ServerTypeOK
    OneLineInFlight
PROPERTIES
    ServiceKept
    StopsForCause
    EveryClientServed
CHECK_DEADLOCK FALSE

CONSTANTS
    Clients = {c1, c2, c3}
    Killable = {c2}
    Backlog = 2
    NoClient = NoClient
SPECIFICATION Spec
INVARIANTS
    AtMostOnce
    OnlyOverlapsDropped
    DroppedNeverRun
    IdleNotRefused
PROPERTIES
    IdleServed
    ImplementsChannel
    AcceptsAgain
    Settled
CHECK_DEADLOCK FALSE

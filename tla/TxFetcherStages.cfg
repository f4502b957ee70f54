CONSTANTS
    Peers = {A, B}
    Hashes = {x, y}
    MaxTxAnnounces = 3
    MaxTxRetrievals = 2
    None = None
SPECIFICATION Spec
INVARIANTS OneStage NoPanic FetchedFromDebtor MapsAgree TimersArmed
PROPERTY IdlePeerIsAsked

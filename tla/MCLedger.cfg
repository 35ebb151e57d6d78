SPECIFICATION LedgerSpec
CONSTANTS
    Producers = {"p1", "p2"}
    Events <- MCEvents
    IdOf <- MCIdOf
    TimeOf <- MCTimeOf
    Batches <- MCBatches
    MaxEntries = 3
    NoHead = NoHead
    Nobody = Nobody
INVARIANTS
    LedgerSound
    CertificatesSound
CHECK_DEADLOCK FALSE

SPECIFICATION CallersSpec
CONSTANTS
    Owners = {}
    Connections = {c1, c2}
    Clients = {k1}
    ActorOf <- MCActorOf
    RequestIds = {r1}
    Calls = {"append", "lookup"}
    Requests <- MCRequests
    MaxWorkers = 2
    MaxJournal = 1
    NoConnection = NoConnection
    NoOwner = NoOwner
    NoIntent = NoIntent
    Actors = {"ann", "bob"}
    Everyone = "everyone"
    ActorRate = 2
    GlobalRate = 3
    Second = 2
    MaxTime = 4
SYMMETRY Symmetry
INVARIANTS
    CallersToldTruth
    PermitsKept
    RatesKept

SPECIFICATION DecisionsSpec
CONSTANTS
    Actors = {"ann", "bob", "cat"}
    Humans = {"ann", "bob", "cat"}
    Scopes = {"s"}
    Grants <- MCGrants
    Quorum = 1
    ClaimIds = {"k"}
    EvidenceIds = {"e"}
    Ledger <- MCLedger
    ArtifactIds = {"doc", "plan1", "plan2", "ev1", "ev2"}
    Manifest <- MCManifest
    Digests = {"entry", "both", "noA", "p1", "p2", "r1", "r2", "forged"}
    TransitionIds = {1, 2, 3, 4, 5, 6, 7, 8, 9, 10}
    Commands <- MCCommands
    MaxRecords = 8
    MaxOutstanding = 1
    Documents <- MCDocuments
    Plans <- MCPlans
    Evaluations <- MCEvaluations
    Media <- MCMedia
    Statement <- MCStatement
    AuthorityDigest = "auth"
    EvidenceHead = "head"
    Policies <- MCPolicies
    Heads = {"head", "other"}
    MaxInputs = 1
    NoGroup = NoGroup
INVARIANTS
    GateEarned
    GateSound
    DecisionsEarned
    HistorySound
PROPERTIES
    PullsItsOwnWay
CHECK_DEADLOCK FALSE

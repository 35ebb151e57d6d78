SPECIFICATION Spec
CONSTANTS
    Actors <- MCActors
    Humans <- MCHumans
    Scopes <- MCScopes
    Grants <- MCGrants
    Quorum = 2
    ClaimIds <- MCClaimIds
    EvidenceIds <- MCEvidenceIds
    Ledger <- MCLedger
    ArtifactIds <- MCArtifactIds
    Manifest <- MCManifest
    Digests <- MCDigests
    TransitionIds <- MCTransitionIds
    Commands <- MCCommands
    MaxRecords = 7
    MaxOutstanding = 2
INVARIANTS
    TypeOK
    ApprovalIsEndorsed
    ReviewedAsSeen
    RevisionsAccount
PROPERTY
    FrozenAfterSubmit

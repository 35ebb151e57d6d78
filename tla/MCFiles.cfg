SPECIFICATION FilesSpec
CONSTANTS
    Publishers = {b1}
    Replacing = {}
    Readers = {r1}
    Workflows <- ReadWorkflows
    Others <- MCOthers
    DigestOrder <- ReadDigests
    InitialData <- MCInitialData
    MaxEdits = 0
    MaxTampers = 2
    MaxArtifacts = 3
    MaxArtifactBytes = 2
    MaxObjectBytes = 4
    MaxSourceBytes = 6
    NoFile = NoFile
    Torn = Torn
    NoNode = NoNode
    None = None
    Operators = {ann}
    Ids = {1}
    Batches = {left, right}
    left = left
    MaxJournal = 2
    p1 = p1
    p2 = p2
    m1 = m1
    m2 = m2
    Before <- MCBefore
    Exporters = {p1, p2}
    Verifiers = {v1}
    Members = {m1, m2}
    MaxForeign = 3
INVARIANTS
    ArchivesSound
    PublishersTruthful
    DirectoriesSound
    CreationsSound
    CommandsTruthful
PROPERTIES
    NothingReplaced

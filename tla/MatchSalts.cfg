\* Two fetches beside one ingest of three entries, of which two share a key; and
\* requests for the file of a match, one after the other.
SPECIFICATION MCSpec
CONSTANTS
    Matches = {1, 2}
    TooOld = {2}
    Fetches = {f1, f2}
    Ingests = {i1}
    Entries <- SomeEntries
    SteamAnswers <- SteamSays
    Connections = {c1}
    Files <- SomeFiles
    Form <- SomeForms
    SaltsTtl = 1
    HasTtl = 1
    MaxQuery = 0
    MaxTime = 2
SYMMETRY Symmetry
INVARIANTS TypesOK AnswersGiveUrl FetchesAccountedFor  SuccessMeansStored
    FilesServedInOrder
CHECK_DEADLOCK FALSE

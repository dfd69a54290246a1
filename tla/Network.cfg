\* Entity resolution, the model router, the schema and the readings of a case.
CONSTANTS
    r1 = r1
    r2 = r2
    u1 = u1
    u2 = u2
    Runs = {r1, r2}
    Files = {"named", "paid", "pair", "seen"}
    MentionsIn <- RecordMentions
    EdgesIn <- RecordEdges
    Decisions = {"rejected"}
    Older <- OlderNodes
    MaxNodes = 4
    Workers = {r1, r2}
    Reviewers = {u1, u2}
    FileOf <- LinkFiles
    ReadingsOf <- LinkReadings
    Edits <- References
    Semantic = TRUE
    MaxPasses = 3
    MaxEdits = 1
    MaxReviews = 2
    Items = {"i", "j", "k"}
    Units <- UnitsOf
    Contents <- BytesOf
    Facts <- Pages
    Degraded = {"j"}
    Answers <- WhatModelsSay
    MaxRetries = 1
    MaxRuns = 2
    Revisions <- Scripts
    Declared <- Entities
    MaxCommands = 3
    ValuePool <- Values
    RecordPool <- RecordQuestions
    RelationPool <- RelationQuestions
    ContactPool <- ContactQuestions
    SeenPool <- SeenQuestions
    TrailPool <- TrailQuestions
    LinkPool <- LinkQuestions
    RegisterPool <- Registers
    TimelinePool <- Timelines
    PagePool <- PageQuestions
    RowPool <- RowQuestions
    ChatPool <- ChatQuestions
    LinePool <- LineQuestions
    Window <- Incident
    Lures <- PhishingMail
    TypeOf <- NodeTypes
    LabelOf <- NodeLabels
    FileName <- FileNames
    Alphabet <- SignalOrder
    Visible <- OpenCases
    Identity <- Suspect
    Limit = 2
SPECIFICATION Spec
INVARIANTS NetworkIsExact LinksAreExact RouterIsSound AnswersAgree SchemaIsDeclared
PROPERTIES MergeKeepsFacts
SYMMETRY Interchangeable
CHECK_DEADLOCK FALSE

\* Accounts, the mail sender, evidence intake and the case desk, one scene each.
CONSTANTS
    ann = ann
    bob = bob
    u1 = u1
    u2 = u2
    u3 = u3
    r1 = r1
    r2 = r2
    Emails = {"e"}
    Requests = {r1, r2}
    MaxAttempts = 2
    Fields = {"language", "theme"}
    Values = {"v", "w"}
    Default = "v"
    MaxCodes = 2
    MaxSessions = 2
    MaxWrites = 3
    Callbacks = {"c", "d"}
    Inodes = {"i", "j", "k", "l"}
    Uploads = {u1, u2, u3}
    Contents = {"x", "y"}
    Refused = {"z"}
    ProcessOf <- Served
    Route <- Routes
    Consumed <- Queues
    Users = {ann, bob}
    Owner = ann
    Machine = "worker"
    Handlers = {r1, r2}
    Windows = {"june", "none"}
    NoWindow = "none"
    MaxClock = 3
    MaxItems = 2
SPECIFICATION MCSpec
INVARIANTS CodesGuardTheAccount SessionsAreVerified AccountPageIsTrue AuthorizationLasts IntakeKeepsEvidence
    NothingGoesUnseen DeskRecordsAgree
PROPERTIES TheEvidenceIsTaken
CHECK_DEADLOCK FALSE

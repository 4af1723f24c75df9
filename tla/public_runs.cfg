CONSTANTS
    None = None
    ed = ed
    ad = ad
    Workflow = {w1, w2}
    Password = {hunter}
    Publisher = {ad}
    PublisherCaps <- EditorAndAdmin
    Process = {api}
    Client = {visitor}
    TrustedProxy = {}
    Run = {r1}
    Credential = {"none", "key", "invalid_key"}
    TokenTTL = 1
    BaseSeconds = 1
    MaxSeconds = 4
    MaxExponent = 1023
    EndOfTime = 1
    MaxGuesses = 0
SYMMETRY Symmetric
SPECIFICATION Spec
CHECK_DEADLOCK FALSE
INVARIANTS PublishingTypeOK RunsAreEntitled
PROPERTIES PasswordIsKept

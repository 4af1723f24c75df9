CONSTANTS
    None = None
    ed = ed
    ad = ad
    Workflow = {w1}
    Password = {hunter, swordfish}
    Publisher = {ad}
    PublisherCaps <- EditorAndAdmin
    Process = {api}
    Client = {visitor}
    TrustedProxy = {}
    Run = {r1}
    Credential = {"none"}
    TokenTTL = 2
    BaseSeconds = 1
    MaxSeconds = 4
    MaxExponent = 1023
    EndOfTime = 1
    MaxGuesses = 1
SPECIFICATION Spec
CHECK_DEADLOCK FALSE
PROPERTIES VisibilityIsKept

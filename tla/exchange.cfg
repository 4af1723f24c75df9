CONSTANTS
    None = None
    ed = ed
    ad = ad
    Workflow = {w1}
    Password = {hunter}
    Publisher = {ad}
    PublisherCaps <- EditorAndAdmin
    Process = {api}
    Client = {visitor, proxy}
    TrustedProxy = {proxy}
    Run = {r1}
    Credential = {}
    TokenTTL = 1
    BaseSeconds = 1
    MaxSeconds = 3
    MaxExponent = 1023
    EndOfTime = 4
    MaxGuesses = 3
SPECIFICATION Spec
CHECK_DEADLOCK FALSE
INVARIANTS GuessesAreSpaced BlocksAreShort
PROPERTIES UsesLimiter

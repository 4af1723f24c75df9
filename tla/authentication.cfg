CONSTANTS
    None = None
    old = old
    new = new
    Kid = {old, new}
    Exp <- MCExp
    Interval = 2
    Lifespan = 5
    MaxTime = 9
SPECIFICATION Spec
INVARIANTS TypeOK KeysAreFresh RotationIsNoOutage FetchesAreFew

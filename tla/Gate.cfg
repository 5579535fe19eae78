SPECIFICATION Spec
CONSTANTS
    Processes = {p1, p2}
    SecretTtl = 2
    MaxSkew = 1
    MaxSecret = 2
    MaxTime = 4
    MaxAttempts = 2
    MaxTaps = 1
    Drift = 1
    None = None
INVARIANTS TypeOK
PROPERTIES RotatedSecretDies PhoneIsNotRefused TapIsAnswered

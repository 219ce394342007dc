\* The founder and one more person, two requests at once, an invitation, a crash.
CONSTANTS
    f = f   a = a   c1 = c1   c2 = c2
    People = {f, a}
    Founder = f
    Clients = {c1, c2}
    Invites = {1}
    SignupModes = {TRUE, FALSE}
    MaxRestarts = 1
SPECIFICATION Spec
INVARIANTS AdminKept UsedOnce
CHECK_DEADLOCK FALSE
SYMMETRY Alike

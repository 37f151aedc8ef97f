SPECIFICATION ServerSpec
CONSTANTS
    MaxFaults = 2
    MaxRegistered = 2
    Request = {r1, r2, r3}
    User = {u1, u2}
    Phone = {p1}
    Blank = Blank
    Password = {w1}
    Text = {t1}
    None = None
INVARIANTS TypeOK NoPresetTwice ReferencesHold UsersTypeOK PhoneIsUnique CanLogIn LostOnlyByOverlap SeededBeforeRegistered
PROPERTY ServesAgain
CHECK_DEADLOCK FALSE

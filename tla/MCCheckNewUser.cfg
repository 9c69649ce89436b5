SPECIFICATION Spec
CONSTANTS
    u1 = u1
    u2 = u2
    u3 = u3
    r1 = r1
    r2 = r2
    User = {u1, u2, u3}
    InMail = {u1, u2}
    InList = {u1, u2, u3}
    Quoted = {u2}
    Run = {r1, r2}
    Faults = {"sql", "mail", "crash"}
    MaxFaults = 2
    MaxMails = 5
INVARIANTS TypeOK OnlyLateUsersAreMissed MailsAreBounded
PROPERTY EveryUserIsListed

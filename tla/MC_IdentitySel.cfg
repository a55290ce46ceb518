CONSTANTS
    a1 = a1
    a2 = a2
    a3 = a3
    e1 = e1
    eLong = eLong
    w1 = w1
    w2 = w2
    r1 = r1
    moodle = moodle
    filler = filler
    sLong = sLong
    nullBytes = nullBytes
    NoRecord = NoRecord
    Accounts <- MC_Accounts
    Emails <- MC_Emails
    LongEmails <- MC_LongEmails
    Passwords <- MC_Passwords
    Referals <- MC_Referals
    Services <- MC_Services
    LongServices <- MC_LongServices
    Filler <- filler
    NullBytes <- nullBytes

SYMMETRY MC_Symmetry

SPECIFICATION Spec

INVARIANTS
    TypeOK

PROPERTIES
    LinkConsumesReferal

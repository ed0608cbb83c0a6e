\* A registration and four more calls: two logins or three refreshes of one
\* login, or registrations that collide.  Every request is answered once.
CHECK_DEADLOCK FALSE
SPECIFICATION Spec
CONSTANTS
    Requests = {r1, r2, r3, r4, r5}
    Names = {alice, bob}
    Emails = {mail1, mail2}
    None = None
SYMMETRY Symmetries
INVARIANTS TypeOK UniqueUsers ExchangedIsRevoked SessionGoesOn
PROPERTIES SpentIsWorthless

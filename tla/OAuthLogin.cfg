\* Two logins, two callbacks that may race, repeat or mix them, every fault.
SPECIFICATION Spec
CONSTANTS
    Starts = {s1, s2}
    Callbacks = {c1, c2}
    google = google
    microsoft = microsoft
    ann = ann
    bob = bob
    mia = mia
    mail = mail
    Providers <- MCProviders
    Accounts <- MCAccounts
    Emails <- MCEmails
    ProviderOf <- MCProviderOf
    EmailOf <- MCEmailOf
    None = None
    NoEmail = NoEmail
    Faults <- MCFaults
INVARIANTS
    TypeOK
    LoginIsTheOneStarted
    AuditMatchesAnswer
PROPERTIES
    ImplementsLogins
    PoppedStateIsUnknown
\* Logins and callbacks are finitely many; then the service waits.
CHECK_DEADLOCK FALSE

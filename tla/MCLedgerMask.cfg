SPECIFICATION LedgerSpec
CONSTANTS
    task = task
    mail = mail
    page = page
    here = here
    there = there
    s1 = s1
    s2 = s2
    None = none
    Entities <- MCEntities
    Scopes = {here, there}
    OrderOf <- MCOrderOf
    LockKeyOf <- MCLockKeyOf
    Batches <- MCBatches
    SecretsOf <- TwoSecrets
    Procs = {p1, p2}
INVARIANTS NoWaitCycle

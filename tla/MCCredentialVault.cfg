SPECIFICATION VaultFairSpec
CONSTANTS
    Threads = {t1, t2}
    Names = {alpaca, dhan, twelve_data}
    Layered = {alpaca, dhan}
    MaxRotations = 2
    MaxCalls = 4
    MaxStarts = 3
INVARIANTS
    KeyOpensVault
    CredentialsInForce
PROPERTIES
    StartsAgain
CHECK_DEADLOCK FALSE

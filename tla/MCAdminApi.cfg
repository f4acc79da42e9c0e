\* Three changes by one client, one restart, two vaults, a managed token beside the
\* environment's; one failure blocks for one tick.
SPECIFICATION Spec
CONSTANTS
    MaxCrashes = 2
    Client = {c1}
    Limit = 1
    Window = 1
    MaxEntries = 1
    Token = {t1}
    EnvAuth = t0
    Open = Open
    MaxVaults = 2
    MaxOps = 3
INVARIANTS VaultInv MigrationsInv AuthCurrent
PROPERTIES ReloadConverges StartsUp

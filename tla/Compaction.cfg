CONSTANTS
    wa = wa
    wb = wb
    k1 = k1
    k2 = k2
    k3 = k3
    Key = {k1, k2, k3}
    Writer = {wa, wb}
    KeysOf <- MCKeysOf
    BlockCap = 2
    BatchSize = 2
    Configs <- MCConfigs
    MaxDoc = 3
    MaxHdr = 2
    MaxCompact = 1
    MaxRollback = 1
    Loads = {"plain", "txn", "upto", "rollback", "callback"}
SPECIFICATION MCSpec
INVARIANTS CoTypeOK SwitchExact DeltaSynchronized UptoSnapshots
CHECK_DEADLOCK FALSE

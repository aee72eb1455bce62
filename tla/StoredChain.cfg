SPECIFICATION StoredSpec
CONSTANTS
    VerityIds = {v1, v2}
    Contents = {release, split}
    Unserializable = Unserializable
    Junk = Junk
    MaxEntries = 3
    MaxAlterations = 3
SYMMETRY ChainSymmetry
INVARIANTS StoredTypeOK UnalteredVerifies HeadFixesHistory OneAlterationSeen
CHECK_DEADLOCK FALSE

SPECIFICATION StoredSpec
CONSTANTS
    VerityIds = {v1, v2}
    Contents = {release, split}
    Unserializable = Unserializable
    Junk = Junk
    MaxEntries = 3
    MaxAlterations = 3
INVARIANT VerifiedIsIntact
CHECK_DEADLOCK FALSE

SPECIFICATION TreeSpec
CONSTANTS
    Hashes = {a, b}
    MaxLeaves = 7
INVARIANTS TreeTypeOK RootFresh RootFixesLeaves
PROPERTY Returns

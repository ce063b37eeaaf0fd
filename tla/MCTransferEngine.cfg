CONSTANTS
    r1 = r1  r2 = r2  None = None
    Requests = {r1, r2}
    Chunks = 2
    MaxVersions = 2
    MaxCrashes = 1
    MaxCancels = 2
SPECIFICATION Spec
SYMMETRY Symmetry
CONSTRAINT NotOvertaken
INVARIANTS ArchiveMatches VerifiedIsWhole OffsetBacked Resumable CanonicalWhole
PROPERTIES OldFilesKept KeepsContract

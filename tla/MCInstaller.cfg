SPECIFICATION FairSpec
CONSTANTS
    Releases = {r1, r2}
    Nothing = Nothing
    Broken = Broken
PROPERTIES
    InstallationIsAtomic
    RerunsSucceed

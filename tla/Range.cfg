SPECIFICATION FairSpec
CONSTANTS
    Length <- ThreeFiles
    Sizes <- Listings
    MaxFailures = 2
    MaxCrashes = 1
INVARIANTS TypeOK CountedBytes OneFile
PROPERTIES ImplementsPartFile PartCompletes
CHECK_DEADLOCK FALSE

SPECIFICATION Spec
CONSTANTS
    MaxRuns = 2
    MaxMigrations = 1
    MaxAgenda = 3
INVARIANTS
    AlwaysGoverned
    ValidatedMeansConfigured
    VerifiedLeavesOneMinter
    ReviewedStaysExecutable
    OrderMattersOnlyWhereIntended
PROPERTIES
    ReviewedMeansValidated
CHECK_DEADLOCK FALSE

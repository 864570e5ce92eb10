SPECIFICATION FairSpec
CONSTANTS
    MaxChanges = 1
    MaxStreams = 2
    MaxFaults = 1
    MaxWrites = 1
    MaxSlow = 1
INVARIANT
    CurrentWhenQuiet
PROPERTIES
    AdmitsWhatIsKnown
    Recovers

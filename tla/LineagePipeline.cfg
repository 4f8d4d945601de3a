SPECIFICATION Spec
CONSTANTS
    raw = raw
    silver = silver
    gold = gold
    load = load
    fan = fan
    None = None
    Runs = {r1, r2}
    Tables = {raw, silver, gold}
    Artifacts = {load, fan}
    Hops <- MCHops
    Discovers <- MCDiscovers
    Edits <- MCEdits
    MaxClears = 1
SYMMETRY MCRuns
INVARIANTS TypeOK DoneMeansServed SkippedMeansTaken
CHECK_DEADLOCK FALSE

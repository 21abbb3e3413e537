SPECIFICATION Spec
CONSTANTS
    Services = {s1, s2}
    Metas <- MCMetas
    Chars = {"_", "a", "b", "d", "f", "n", "r", "u"}
    RunnerId <- MCRunnerId
    Remotes <- MCRemotes
    ActionLists <- MCActionLists
    Configs <- MCConfigs
    Terms <- MCTerms
    Queries <- MCQueries
    MaxEvents = 3
INVARIANTS TypeOK WaitsForItsCalls ActionsAtMostOnce NeverStuck ServicesTracked TriggersAccepted RunsWhatWasFound
PROPERTIES KeepsContract JobsAnswered
CHECK_DEADLOCK FALSE

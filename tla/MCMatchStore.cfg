SPECIFICATION Spec
CONSTANTS
    Runners = {plain, weak, strong, other}
    Unique = {weak, strong, other}
    Weak = {weak}
    Ids = {i1, i2}
    NoMatch = NoMatch
    MaxMatches = 4
SYMMETRY IdSymmetry
INVARIANTS TypeOK FoundIdsStay ListedIdsAreKnown StrongFirstIsUnique
PROPERTY OnlyWeakIsReplaced

SPECIFICATION Spec
CONSTANTS
    Runners = {weak, strong, other}
    Unique = {weak, strong, other}
    Weak = {weak}
    Ids = {i1}
    NoMatch = NoMatch
    MaxMatches = 3
INVARIANT NoDuplicates

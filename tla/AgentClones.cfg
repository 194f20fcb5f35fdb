SPECIFICATION AgentSpec
CONSTANTS
    Datasets = {mysql, postgres}
    OtherTypes = {redis}
INVARIANT CreatedHasClone
INVARIANT DeletedIsGone
PROPERTY ImplementsService

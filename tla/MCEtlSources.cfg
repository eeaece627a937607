SPECIFICATION Spec
CONSTANTS
    Protocols = {{"ssl"}, {"plain"}, {"ssl", "plain"}}
    Unsteady = {{"ssl"}, {"plain"}}
    MaxDrops = 1
INVARIANTS SourcesAgree
PROPERTIES Reconnects ExecuteReturns

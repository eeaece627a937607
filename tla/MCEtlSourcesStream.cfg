SPECIFICATION Spec
CONSTANTS
    Protocols = {{"plain"}}
    Unsteady = {}
    MaxDrops = 0
PROPERTY StreamForwarded

SPECIFICATION Spec
CONSTANTS
    Nodes = {n1}
    MaxCount = 1
    MaxEvents = 2
PROPERTIES
    DeletedStaysDeleted

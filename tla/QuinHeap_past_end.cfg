SPECIFICATION Spec
CONSTANTS
    Programs <- PastEnd
    MaxWords = 13
    MaxString = 2
PROPERTIES
    ManagedSpec

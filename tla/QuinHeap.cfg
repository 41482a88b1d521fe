SPECIFICATION Spec
VIEW WithoutIds
CONSTANTS
    Programs <- Small
    MaxWords = 13
    MaxString = 2
INVARIANTS
    TypeOK
    HeapParseable
    ReferencesHeld
PROPERTIES
    CollectionIsExact
    PermanentsStay
    ManagedSpec

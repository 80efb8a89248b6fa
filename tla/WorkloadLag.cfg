SPECIFICATION Spec
CONSTANTS
    Absent = Absent
    MaxLag = 1
    MaxUid = 2
    Lagging = {"sc", "sci"}
INVARIANT TypeOK
INVARIANT RestsOnlyWhenProjected
PROPERTY InstanceKeptWhileOwned
PROPERTY ImplementsContract

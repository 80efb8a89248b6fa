SPECIFICATION FairSpec
CONSTANTS
    Absent = Absent
    MaxLag = 1
    MaxUid = 1
    Lagging = {"sc", "sci"}
PROPERTY DeletionCompletes
PROPERTY Converges

\* Every command line with up to two key IDs of every kind, two clients, --index from -1 to 3.
CONSTANTS
    ClientIDs = {"c1", "c2"}
    Indexes <- MCIndexes
    OtherKinds = {"master"}
SPECIFICATION Spec
INVARIANT TypeOK
INVARIANT DestroysRequestedKey

\* Two workers, four uses of the library, every order of giving up.
SPECIFICATION FairSpec
CONSTANTS
    Workers = {w1, w2}
    MaxUses = 4
INVARIANTS
    NoDangling
    HandlesFindTheLibrary
 
CHECK_DEADLOCK FALSE

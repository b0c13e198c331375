SPECIFICATION FairSpec
CONSTANTS
    Addrs <- Three
    Prints <- Values
    Fingerprint <- XorOf
    MaxReuse = 2
INVARIANTS TypeOK PopsBestProgram UsedToTheLimit NoDuplicates
PROPERTIES Drains

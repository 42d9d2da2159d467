CONSTANTS
    Session = {s1, s2}
    Login = {l1}
    Admin = {a1}
    Asker = {k1}
    MaxChanges = 1
SPECIFICATION FairSpec
INVARIANTS BlockHolds
PROPERTIES DirectoryPrevails

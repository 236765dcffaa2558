SPECIFICATION Spec
CONSTANTS
    r1 = r1
    r2 = r2
    Requests <- MCRequests
    Shared <- MCShared
    Guests <- MCGuests
    Hosts <- MCHosts
    BlockSize = 4
    L2Size = 2
    RbSize = 1
    RbPick <- MCRbPick
    MaxCrashes = 1
    MaxDiscards = 1
SYMMETRY Symmetry
INVARIANTS TypeOK CrashRefcounts GuestData DependencyAcyclic
CHECK_DEADLOCK FALSE

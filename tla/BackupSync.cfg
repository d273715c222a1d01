\* Two CLI invocations, applies that rename the scope, one late helper.
CONSTANTS
    Procs = {p1, p2}
    Users = {opc, alice}
    Boot = opc
    Routings = {r1}
    BootRoutings = {b1}
    NoRouting = NoRouting
    Gens = {g1, g2, g3, g4}
    NoMarker = NoMarker
    Scopes = {s1, s2}
    MaxLate = 1
SPECIFICATION Spec
INVARIANTS
    TypeOK
    UnmarkedMeansSynced
    SyncSerialised
PROPERTIES
    ReplicationSpec
SYMMETRY Symmetry

\* A helper outlives its ssh client: the newer snapshot is overwritten.
CONSTANTS
    Procs = {p1, p2}
    Users = {opc, alice}
    Boot = opc
    Routings = {r1, r2}
    BootRoutings = {b1}
    NoRouting = NoRouting
    Gens = {g1, g2, g3}
    NoMarker = NoMarker
    Scopes = {s1}
    MaxLate = 1
SPECIFICATION Spec
INVARIANT OlderSnapshotNeverWins
SYMMETRY Symmetry

SPECIFICATION CoordSpec
CONSTANTS
    N = 5
    Isometry <- Affine
    Identity <- AffineIdentity
    Compose <- AffineCompose
    Invert <- AffineInvert
    Setups <- AllSetups
    Isometries <- Samples
    MaxInits = 2
INVARIANTS
    CoordTypeOK
    FinalIffConnected
    Coherent
CHECK_DEADLOCK FALSE

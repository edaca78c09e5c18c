SPECIFICATION LiveSpec
CONSTANTS
    Kinds <- AllKinds
    MaxInputs = 4
CHECK_DEADLOCK FALSE
INVARIANTS TypeOK NeverWedged LockedMeansClosed ShownMeansOpen OverlayAgrees
PROPERTIES GoodSecretLifts ScreenFreed BootEnds

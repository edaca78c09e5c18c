SPECIFICATION Spec
CONSTANTS
    Ids = {c1}
    Attempts = {a1, a2}
    NoAttempt = NoAttempt
    NoId = NoId
SYMMETRY Symmetry
CHECK_DEADLOCK FALSE
INVARIANTS TypeOK SessionIffConnected Watched UiAgrees OrphansEnd AttemptResolves
PROPERTIES NoSpuriousDrop

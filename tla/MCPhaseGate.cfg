CONSTANTS
    Phases <- MCPhases
    Requires <- MCRequires
    Order <- MCOrder
    Escalations = {"heavy"}
    NotRun = NotRun
SPECIFICATION GateSpec
INVARIANTS GateTypeOK ForcedOrder NothingAroundTheGate
PROPERTIES UnlockJustified

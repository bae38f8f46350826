\* Two rows, two parameters, one script, two stops anywhere.
CONSTANTS
    s1 = s1
    Scripts = {s1}
    MaxId = 2
    MaxParams = 2
    MaxStops = 2
SPECIFICATION Spec
INVARIANTS TypeOK IInv
PROPERTIES PbxInOrder PmsInOrder DataOnlyOnLink InboundElaborated
CHECK_DEADLOCK FALSE

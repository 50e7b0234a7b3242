SPECIFICATION Spec
CONSTANTS
    Editors = {e1, e2, e3}
    MaxTime = 3
PROPERTIES
    CheckSeesOtherSeconds
    NoSpuriousRefusal

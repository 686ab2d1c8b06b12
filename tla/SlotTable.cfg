SPECIFICATION Spec
CONSTANT NSlots = 4
INVARIANTS
    CountsAgree

CONSTANTS
    Props = {p1, p2, p3}
SPECIFICATION HSpec
INVARIANTS HTypeOK ResponseIsFinal
PROPERTIES HandlerTerminates

CONSTANTS
    Props = {p1, p2, p3}
SPECIFICATION HSpec
INVARIANT ServerSurvives

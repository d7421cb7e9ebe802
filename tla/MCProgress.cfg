CONSTANTS
    Parts = {"store", "bridge", "runs", "renamed", "accounts", "submit"}
    None = None
    Missing = Missing
    NL = NL
    Control = Control
    d1 = d1
    d2 = d2
SPECIFICATION FairSpec
PROPERTIES DeliveryResumes DeliveryGoesOn RunEnds EveryCallEnds EveryAttemptAnswered
\* deliveries and requests come to their end
CHECK_DEADLOCK FALSE

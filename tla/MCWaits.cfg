CONSTANTS
    Parts = {"messages", "dispatch", "events", "cert", "hook"}
    None = None
    Folders = Folders
SPECIFICATION FairSpec
PROPERTIES EveryReadEnds EveryConnectionEnds EveryoneTold Heals
\* requests come to their end
CHECK_DEADLOCK FALSE

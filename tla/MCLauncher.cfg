\* One node. A program exits once, a start fails once, and Restart Mining is clicked twice.
SPECIFICATION LauncherSpec
CONSTANTS
    Nodes = {"bch2"}
    Unsteady = {"bch2", "stratum"}
    MaxOwnExits = 1
    MaxFailures = 1
    MaxClicks = 2
INVARIANTS
    StopsCleanly
PROPERTIES
    ComesBack

\* Two processes, two process ids, at most two faults.
SPECIFICATION Spec
CONSTANTS
    Slots = {s1, s2}
    Pids = {1, 2}
    Commands <- MCCommands
    Programs <- MCPrograms
    Disk <- MCDisk
    MaxFaults = 2
INVARIANTS
    ReadsItsOwn
    SuccessIsAnImage
    NoTemporaryLeft
PROPERTY ErrorsKeepTheOutput

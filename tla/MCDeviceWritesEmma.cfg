SPECIFICATION WritesSpec
CONSTANTS
    Entries = {home, shed}
    Owner = home
    Absent = Absent
    Compositions <- Installations
    Calls <- Tasks
    NoCall = NoCall
    Periods <- ThePeriods
    Clashing <- Overlap
    MAX_TOU_PERIODS = 2
    MAX_RANK = 2
    MAX_REFUSED = 1
    task1 = task1
    task2 = task2
    p = p
    q = q
    home = home
    shed = shed
PROPERTIES
    ServicesSpareEmma
SYMMETRY Symmetry

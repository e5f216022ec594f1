\* One command at a time, listings with --search.
SPECIFICATION Spec
CONSTANTS
    p1 = p1
    p2 = p2
    work = work
    home = home
    Proc = {p1}
    Word = {work, home}
    Search = {home}
    Everything = Everything
    NoListing = NoListing
    MaxId = 4
    Crashes = FALSE
INVARIANTS PicksWhatWasShown

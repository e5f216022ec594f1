\* Two processes, deaths between any two steps, listings without --search.
SPECIFICATION Spec
CONSTANTS
    p1 = p1
    p2 = p2
    work = work
    home = home
    Proc = {p1, p2}
    Word = {work}
    Search = {}
    Everything = Everything
    NoListing = NoListing
    MaxId = 3
    Crashes = TRUE
INVARIANTS TypeOK PicksWhatWasShown
PROPERTIES DeletesWhatWasShown

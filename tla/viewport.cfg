CONSTANTS
    Lines <- MCLines
    Starts <- MCStarts
    Colour <- MCColour
    Keep = Keep
    Empty = Empty
    Plain = "plain"
    Sizes <- MCSizes
    MinRows = 3
    MinCols = 4
    Banners = {1, 3}
    Inputs = {"x"}
    MaxLines = 2
    MaxEvents = 5
SPECIFICATION Spec
INVARIANTS
    ScreenIsTrue
    ViewStays

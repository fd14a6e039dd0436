CONSTANTS
    Keys = {1, 2, 3}
    Values = {1, 2}
    Size = 6
    MaxCopies = 2
    MaxEmpty = 2
SPECIFICATION Spec
INVARIANTS SearchTree FindsWhatIsThere
PROPERTIES ImplementsBag
VIEW Contents

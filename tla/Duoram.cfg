CONSTANTS
    M = 3
    Size = 2
    Width = 4
    Blinds = {1, 2}
    Scripts <- MCScripts
SPECIFICATION FairSpec
INVARIANTS BlindsAgree SharesOfMemory ReadsInOrder WritesTakeEffect
PROPERTIES Completes

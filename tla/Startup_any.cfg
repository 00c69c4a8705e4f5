\* Every state of the files, and whatever the server answers.
SPECIFICATION FairSpec
CONSTANTS
    Tries = 3
    Situations = {"refuse", "garble"}
INVARIANTS
    TypeOK
    ValuesFromFile
    FiltersWithServersList
    FoundOnce
    FoundJustly
PROPERTY
    StartEnds

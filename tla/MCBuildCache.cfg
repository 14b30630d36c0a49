CONSTANTS
    Builds = 3
    Key = {"O1", "O2"}
    Config <- MCConfig
    Env = {"set", "unset"}
    Header = {"h1", "h2"}
    Name = {"std", "home"}
    Places <- MCPlaces
    Version = {"v1", "v2"}
    Includes <- MCIncludes
    Warns <- MCWarns
    MaxEdits = 1
    MaxDisturbed = 2
SPECIFICATION Spec
INVARIANTS SlotsConsistent NoSpuriousMiss OptionsRespected
PROPERTY HitIsFresh
CHECK_DEADLOCK FALSE

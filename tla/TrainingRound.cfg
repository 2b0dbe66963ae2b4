SPECIFICATION Spec
CONSTANTS
    Games = {g1, g2}
    UserGames = {g1, g2}
    MaxVersion = 2
    MaxTries = 1
    BatchLimit = 1
    AtomicPromotion = TRUE
    StableAlign = TRUE
    MinNewMoves <- MCMinNewMoves
INVARIANTS
    OneServed
    OnePointer
    
    
    LineageIsHonest

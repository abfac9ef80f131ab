SPECIFICATION FairSpec
CONSTANTS
    w1 = w1
    w2 = w2
    m1 = m1
    m2 = m2
    m3 = m3
    Main = Main
    None = None
    Original = Original
    Damaged = Damaged
    Workers <- MCWorkers
    Modules <- MCModules
    ModuleOf <- MCModuleOf
    Inventory <- MCInventory
    ChunkSize = 2
    Corpus <- MCCorpus
    Suite = "suite"
    Effects <- MCEffects
INVARIANTS
    JudgedAlone
    ZeroMeansCaught
PROPERTY
    EveryRunEnds
CHECK_DEADLOCK FALSE

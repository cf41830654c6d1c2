CONSTANTS
    Callers = {c1, c2, c3}
    PluginLists <- MCLists
    Configured <- MCAllConfigured
    StoreList <- MCStoreYaml
    NumLoaders = 2
    NumWatchers = 1
SPECIFICATION Spec
INVARIANTS TypeOK
PROPERTIES LifecycleRefined
CHECK_DEADLOCK FALSE

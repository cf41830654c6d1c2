CONSTANTS
    Callers = {c1}
    PluginLists <- MCTestOnly
    Configured <- MCAllConfigured
    StoreList <- MCStoreYaml
    NumLoaders = 1
    NumWatchers = 1
SPECIFICATION Spec
INVARIANT LoadersRunOnce
CHECK_DEADLOCK FALSE

CONSTANTS
    Callers = {c1}
    PluginLists <- MCApolloStoreOnly
    Configured <- MCAllConfigured
    StoreList <- MCStoreYaml
    NumLoaders = 1
    NumWatchers = 1
SPECIFICATION Spec
INVARIANT NoNilDereference
CHECK_DEADLOCK FALSE

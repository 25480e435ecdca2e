CONSTANTS
    Exts <- MCExts
    NoExt = "none"
    Artifacts <- MCArtifacts
    NoArtifact = NoArtifact
    NoHook = NoHook
    HostHook = HostHook
    Builtins <- MCBuiltins
    FallbackLimit = 3
    Prefixes <- MCPrefixes
    NoPrefix = "no_prefix"
    Sanitize <- MCSanitize
    Alias <- MCAlias
    Databases <- MCDatabases
    FirstDb = "d1"
    PrefixRows <- MCPrefixRows
    UnloadsBeforeOpen = TRUE
    BusyExts <- MCBusyExts
    MaxLoads = 3
SPECIFICATION Spec
INVARIANTS NothingLeftBehind RunsItsOwnVersion  ManifestsHaveRoutes
 

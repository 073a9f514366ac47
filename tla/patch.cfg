SPECIFICATION Spec
CONSTANTS
    fileF = fileF
    fileG = fileG
    newFile = newFile
    remote = remote
    local = local
    Files = {fileF, fileG, newFile}
    Absent = Absent
    Mismatch = Mismatch
    NoProvider = NoProvider
    LocalProviders = {local}
    MaxOffset = 1
    MaxRetries = 2
    Norm <- MCNorm
    Contents <- MCContents
    Diffs <- MCDiffs
    Responses <- MCResponses
    Contexts <- MCContexts
INVARIANTS TypeOK OriginalsKept SuccessIsExact EveryProviderAsked
PROPERTY KernelAnswers

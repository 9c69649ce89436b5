SPECIFICATION Spec
CONSTANTS
    Word <- MCWord
    Within <- MCWithin
    Invocation <- MCInvocation
    ArgLists <- MCArgLists
    Machines = {1, 4, 80}
    Edits = {4, 412, 12}
    ShortWrites = {3}
    Garbage = {0, 1}
    MaxInstalls = 2
    MaxFaults = 1
INVARIANTS
    TypeOK
    StatusZeroIsExplained
    SpelledOutWordsAreObeyed
    BackupsCanBeDecrypted
    ConfigurationIsComplete
    UpgradesKeepTheConfiguration
CONSTRAINT OddCommandsAtRest
CHECK_DEADLOCK FALSE

\* One part runs.  It may stop: its input is used up, the master returned, an
\* oops or a request that never returns ended the module.
SPECIFICATION PartsSpec
CONSTANTS
    Alphabet <- EdgeBytes
    MaxLength = 4
    Cut = 3
    Values <- EdgeTags
    Rest <- MCRest
    Sizes = {10, 32}
    MinimumSize = 32
    Tags <- WrittenTags
    Texts <- WrittenTexts
    MaxItems = 3
    DeviceWords <- MCDeviceWords
    IdWords <- MCIdWords
    NumberWords <- MCNumberWords
    Flags = {TRUE, FALSE}
    Contents <- MCContents
    Names <- MCNames
    Tails <- MCTails
    PartTypes = {"a", "b"}
    MultiDone = "done"
    MaxParts = 5
    Users = {"alice", "bob"}
    Streams = {"out"}
    MaxRuns = 2
    MaxOutput = 2
    Agents = {a1, a2}
    Devices = {0, 1, 2}
    Programs = {p1}
INVARIANTS TextInv TagsRight WriterInv MessagesArrive ConnectionInv MasterInv 
PROPERTIES StartMasterReturns
CHECK_DEADLOCK FALSE

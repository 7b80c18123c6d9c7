\* Thirteen components, one at a time, each at the bounds its section names.
CONSTANTS
  \* dictionary
  TermByte = {1, 2}
  MaxTermLen = 2
  DictBlockTerms = 2
  InlineDF = 2
  MaxMask = 3
  MaxU48 = 7
  Entry <- MCEntry
  \* postings, and the build that writes them
  PostingsBlockLen = 2
  SkipFanout = 2
  Widths <- MCWidths
  MaxPatches = 1
  PatchCost = 1
  HeaderSize = 2
  MaxDocid = 200
  MaxList = 5
  Gap = {1, 3, 30}
  Hit <- MCHit
  Page <- MCPage
  MaxPages = 4
  Budget = 3
  InlineMax = 1
  MaxTF = 2
  MaxPosition = 2
  PunchChunk = 1
  Chunk = {1, 2}
  \* hot files
  BandOrder <- MCOrder
  Align = 3
  Header <- MCHeader
  Meta <- MCMeta
  Stats <- MCStats
  Payload <- MCPayload
  NoFile = NoFile
  \* display records, docvalues and tombstones
  Record <- MCRecord
  DocValue <- MCValue
  MaxDocs = 4
  MaxDeltas = 2
  DocBlockDocs = 2
  DictMinSamples = 3
  DictSamples = 2
  DictMaxSize = 2
  ByteBits = 2
  DocidBytes = 1
  DocidSpace = 8
  \* cold segments
  PageRow <- MCPageRow
  DocmapRow <- MCDocmapRow
  Source <- MCSource
  RawDoc <- MCRawDoc
  Section <- MCSection
  MaxRows = 5
  BlockTarget = 3
  PerBlock = 2
  MaxAnchorLen = 2
  Pays = 3
  BloomBlocks = 2
  \* URLs and text
  Urls <- MCUrls
  MaxSpellings = 2
  MaxNumberLen = 2
  MaxTermBytes = 4
  Base64Min = 3
  RepeatMin = 3
  MaxText = 4
  \* wire
  Byte = 9
  MaxFrame = 40
  maxTermLen = 2
  maxQueryTerms = 2
  maxShards = 2
  maxResultEntries = 2
  maxSnipDocs = 2
  MaxSends = 2
  Bodies <- MCBodies
  \* manifests
  MaxPos = 3
  MaxManSeq = 3
  MaxManifests = 3
  \* uploads
  MaxParts = 3
  Concurrency = 2
  MaxFaults = 2
  \* import
  Home <- MCHome
  Feeds <- MCFeeds
  SegRows = 2
  SegBytes = 3
  MaxLives = 3
  MaxCommits = 7
  \* read planner
  Depth = 2
  MaxOutstanding = 3
  Large = {2}
  Broken = {3}
  MaxReads = 4
SPECIFICATION ComponentsSpec
INVARIANTS DictAnswers PostingsHold FileHolds DocsHold SegmentsHold  TokensAreRuns OneEncoding OneLiveSet BuildInverts UploadIsWhole ImportLands EachReadOnce
CHECK_DEADLOCK FALSE

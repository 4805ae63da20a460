SPECIFICATION LibSpec
CONSTANTS
  Items = {p1, p2, p3}
  NULL = NULL
  Size = 4
  Nodes = {n1, n2, n3, n4}
  Data = {a, b}
  Owned = {a}
  Nil = Nil
  Keys = {"k0", "k2", "k5"}
  Vals = {v1, v2, v3}
  NoVal = NoVal
  OwnedVals = {v1, v2}
  Hash <- MCHash
  Primes <- MCPrimes
  Bytes = {"x", "y"}
  Unset = "?"
  BufferMax = 4
  DEFAULT_SIZE = 1
  HeadMax = 6
  LineMax = 5
  CodecMax = 6
  ChunkMax = 5
  DigestMax = 9
  WordsMax = 4
  FormatMax = 3
  SearchMax = 5
  JsonMax = 5
  StringMax = 4
  ArrayMax = 5
  NestingLimit = 3
  JsonItems = 4
  LoginMax = 5
INVARIANTS
  HeadIsRead
  CodecsInvert
  ChunksAgree
  TextSurvives
PROPERTIES
  FifoSpec
  SpaceComesBack
  ListIsSequence
  TableIsMap
  BufferHoldsBytes
  JsonReadsBack
  PatchesApply
  PeersAreKnown

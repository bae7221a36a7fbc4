SPECIFICATION Spec
CONSTANTS
  CHUNK_SIZE = 2  TAG_LEN = 1  COUNTER_MAX = 2
  a = a  b = b  k1 = k1  k2 = k2  k3 = k3  w1 = w1  w2 = w2
  src = src  blob = blob  dst = dst
  DataKeys = {k1, k2}  WrapKeys = {w1, w2}
  BASE = 3  BLOB_DOMAIN <- MCBlobDomain  FIELD_DOMAIN <- MCFieldDomain
  ATTEST_DOMAIN <- MCAttestDomain
  NoncePrefixes <- TwoPrefixes  BlobIds <- TwoIds
  Zero = zero  Bytes = {a, b, zero}  NoBind = NoBind  NoKey = NoKey
  Calls = {c1}  Files = {blob, dst}  EncOut = {blob}
  NoInode = NoInode  NoCall = NoCall
  Requests <- InputRequests  Disks <- InputDisks
  Stored <- MCStored  StoredBind <- MCStoredBind  StoredSeals <- MCStoredSeals
  MaxCrashes = 0
INVARIANTS OutputAuthentic StreamingMatchesMemory MemoryAuthentic

SPECIFICATION Spec
CONSTANTS
  CHUNK_SIZE = 1  TAG_LEN = 1  COUNTER_MAX = 3
  a = a  b = b  k1 = k1  k2 = k2  k3 = k3  w1 = w1  w2 = w2
  src = src  blob = blob  dst = dst
  DataKeys = {k1, k2, k3}  WrapKeys = {w1}
  BASE = 3  BLOB_DOMAIN <- MCBlobDomain  FIELD_DOMAIN <- MCFieldDomain
  ATTEST_DOMAIN <- MCAttestDomain
  NoncePrefixes <- OnePrefix  BlobIds <- OneId
  Zero = zero  Bytes = {a, b, zero}  NoBind = NoBind  NoKey = NoKey
  Calls = {c1, c2}  Files = {src, blob, dst}  EncOut = {blob}
  NoInode = NoInode  NoCall = NoCall
  Requests <- RaceRequests  Disks <- RaceDisks
  Stored <- OneStored  StoredBind <- OneBind  StoredSeals <- OneSeals
  MaxCrashes = 1
INVARIANTS TypeOK OutputAuthentic RoundTrip
PROPERTIES DecryptIsAtomic

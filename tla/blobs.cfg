SPECIFICATION Spec
CONSTANTS
  CHUNK_SIZE = 1  TAG_LEN = 1  COUNTER_MAX = 1
  BASE = 4  BLOB_DOMAIN <- MCBlobDomain  FIELD_DOMAIN <- MCFieldDomain
  ATTEST_DOMAIN <- MCAttestDomain  Domains <- OtherDomains  Messages <- MCMessages
  a = a  b = b  Zero = zero  Bytes = {a, b, zero}
  NoBind = NoBind  NoKey = NoKey  NoVault = NoVault  NoEntropy = NoEntropy  NoFile = NoFile
  SECRET_LEN = 2  IV_LEN = 1  WrapKeys <- MCWrapKeys
  Handles = {h1}
  Secrets <- GoodSecrets  Phrases <- NoPhrases  Names <- OneName  BlobIds <- TwoIds  IVs <- OneIV
  Texts <- OneText  DataKeys = {k1, k2}  NoncePrefixes <- OnePrefix  Paths = {p, q}
  MaxKept = 0  MaxFields = 0  MaxSigs = 0
INVARIANTS BlobsOpenExactly
SYMMETRY KeySymmetry

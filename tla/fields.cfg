SPECIFICATION Spec
CONSTANTS
  CHUNK_SIZE = 2  TAG_LEN = 1  COUNTER_MAX = 3
  BASE = 4  BLOB_DOMAIN <- MCBlobDomain  FIELD_DOMAIN <- MCFieldDomain
  ATTEST_DOMAIN <- MCAttestDomain  Domains <- OtherDomains  Messages <- MCMessages
  a = a  b = b  Zero = zero  Bytes = {a, b, zero}
  NoBind = NoBind  NoKey = NoKey  NoVault = NoVault  NoEntropy = NoEntropy  NoFile = NoFile
  SECRET_LEN = 2  IV_LEN = 1  WrapKeys <- MCWrapKeys
  Handles = {h1, h2}
  Secrets <- GoodSecrets  Phrases <- NoPhrases  Names <- MCNames  BlobIds <- OneName  IVs <- TwoIVs
  Texts <- ShortTexts  DataKeys = {}  NoncePrefixes <- NoPrefixes  Paths = {}
  MaxKept = 4  MaxFields = 1  MaxSigs = 0
INVARIANTS FieldsOpenExactly

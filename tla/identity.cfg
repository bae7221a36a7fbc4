SPECIFICATION Spec
CONSTANTS
  CHUNK_SIZE = 2  TAG_LEN = 1  COUNTER_MAX = 3
  BASE = 4  BLOB_DOMAIN <- MCBlobDomain  FIELD_DOMAIN <- MCFieldDomain
  ATTEST_DOMAIN <- MCAttestDomain  Domains <- OtherDomains  Messages <- MCMessages
  a = a  b = b  Zero = zero  Bytes = {a, b, zero}
  NoBind = NoBind  NoKey = NoKey  NoVault = NoVault  NoEntropy = NoEntropy  NoFile = NoFile
  SECRET_LEN = 2  IV_LEN = 1  WrapKeys <- MCWrapKeys
  Handles = {h1, h2}
  Secrets <- MCSecrets  Phrases <- MCPhrases  Names <- OneName  BlobIds <- OneName  IVs <- OneIV
  Texts <- ShortTexts  DataKeys = {k1}  NoncePrefixes <- OnePrefix  Paths = {}
  MaxKept = 4  MaxFields = 1  MaxSigs = 2
INVARIANTS TypeOK SignaturesBound KeysOnePurpose RecoveryRestores

-------------------------------- MODULE Aad --------------------------------
(***************************************************************************)
(* Associated data and signing input, byte by byte: every byte string that *)
(* crates/filum-crypto/src/aad.rs builds, and the framing auth.rs puts in  *)
(* front of a message before it is signed.  An identifier is the sequence  *)
(* of its UTF-8 bytes.                                                     *)
(***************************************************************************)
EXTENDS Integers, Sequences

CONSTANTS
    BASE,          \* values of a byte (u8: 256)
    BLOB_DOMAIN,   \* domain of all blob AAD
    FIELD_DOMAIN,  \* domain of all metadata-field AAD
    ATTEST_DOMAIN  \* domain of signed attestations

Octet == 0 .. BASE - 1

\* Two byte strings differ before either of them ends.
Diverge(s, t) == \E i \in 1 .. Len(s) : i <= Len(t) /\ s[i] # t[i]

ASSUME BaseAssumption == BASE \in Nat /\ BASE > 2
ASSUME DomainAssumption ==
    /\ BLOB_DOMAIN \in Seq(Octet) /\ FIELD_DOMAIN \in Seq(Octet)
    /\ ATTEST_DOMAIN \in Seq(Octet) /\ Len(ATTEST_DOMAIN) < BASE
    /\ Diverge(BLOB_DOMAIN, FIELD_DOMAIN)

\* u32::try_from: the length has at most four digits.
FitsU32(n) == ((n \div BASE) \div BASE) \div BASE < BASE

\* u32::to_be_bytes.
ToBeBytes(n) ==
    << (((n \div BASE) \div BASE) \div BASE) % BASE, ((n \div BASE) \div BASE) % BASE,
       (n \div BASE) % BASE, n % BASE >>

\* An identifier that aad.rs accepts; any other is InvalidContext.
Usable(id) == id # <<>> /\ FitsU32(Len(id))

\* A variable-length component: its length, then its bytes.
Prefixed(id) == ToBeBytes(Len(id)) \o id

BlobSegmentAad(id) == BLOB_DOMAIN \o Prefixed(id)

\* blob_wrap_aad: the segment AAD and every header field but the key.
BlobWrapAad(id, version, prefix, size) ==
    BlobSegmentAad(id) \o (<<version>> \o (prefix \o ToBeBytes(size)))

\* Mutant: the two names are concatenated without their lengths.
FieldAadUnprefixed(record, field) == FIELD_DOMAIN \o (record \o field)

FieldAad(record, field) == FIELD_DOMAIN \o (Prefixed(record) \o Prefixed(field))

\* Mutant: the domain is not preceded by its length.
FrameUnprefixed(domain, message) == domain \o message

\* The framing of domain_separated, for any domain: one length byte, the
\* domain, the message.
Frame(domain, message) == <<Len(domain) % BASE>> \o (domain \o message)

DomainSeparated(message) == Frame(ATTEST_DOMAIN, message)
=============================================================================

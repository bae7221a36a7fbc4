------------------------------- MODULE Vault -------------------------------
(***************************************************************************)
(* What an application does with the library through its foreign-function  *)
(* interface (crates/filum-crypto-uniffi/src/lib.rs) over vault.rs, kdf.rs,*)
(* recovery.rs, metadata.rs, auth.rs and the blob codec: any sequence of   *)
(* calls on any number of vaults, with arguments of any length, and the    *)
(* loss of the device in between.                                          *)
(*                                                                         *)
(* Vault methods take &self and share nothing but the random source, so a  *)
(* call is one step; a call that fails changes nothing, except the output  *)
(* of encrypt_file_to_blob.  Calls on files do not overlap here: a         *)
(* decryption publishes in one step, overlapped or not (AtomicOutput in    *)
(* BlobFileRefinement), but an encryption truncates its output and writes  *)
(* in place, and its step is the whole effect of a call that no other call *)
(* overlaps.  What overlapping encryptions leave is BlobFile's subject.    *)
(* Cryptography is symbolic: a derived key is its secret and context, a    *)
(* ciphertext or signature is everything it binds.  fields, sigs and blobs *)
(* are histories: what was made, with the secret of the vault that made it *)
(* (by); blobs holds the blobs that a call returned or left whole in a     *)
(* file, a call that failed included.                                      *)
(***************************************************************************)
EXTENDS BlobCodec, FiniteSets

CONSTANTS
    Handles,     \* Vault objects the application can hold
    SECRET_LEN,  \* bytes of a master secret (32)
    IV_LEN,      \* bytes of a GCM nonce (12)
    IVs,         \* nonces the random source may draw
    Secrets,     \* byte strings passed as master secrets, of any length
    Phrases,     \* recovery phrases typed in: word lists, see Mnemonic
    Names,       \* record identifiers and field names
    Texts,       \* plaintexts
    Messages,    \* messages to sign
    Domains,     \* domain tags of other signing flows
    Paths,       \* files
    NoVault, NoEntropy, NoFile,  \* "not open", "random source failed", "no file"
    MaxKept, MaxFields, MaxSigs  \* bounds on what is kept, sealed and signed

VARIABLES
    vault, born,   \* the open vaults, and the secret each was opened from
    held,          \* master secrets the application stores
    written,       \* phrases written down: [secret, phrase]
    fields, sigs, blobs, file

vars == <<bind, seals, vault, born, held, written, fields, sigs, blobs, file>>

ASSUME LengthAssumption ==
    /\ SECRET_LEN \in Nat /\ IV_LEN \in Nat
    /\ IVs \subseteq [1 .. IV_LEN -> Octet] /\ NoEntropy \notin IVs
    /\ Secrets \subseteq Seq(Octet) /\ Names \subseteq Seq(Octet)
    /\ Messages \subseteq Seq(Octet) /\ Domains \subseteq Seq(Octet)
    /\ \A d \in Domains : Len(d) < BASE
    /\ Phrases \subseteq [entropy : Seq(Octet), valid : BOOLEAN]

----------------------------------------------------------------------------
(* Key derivation and recovery phrases                                     *)

WRAP_CTX     == "filer-crypto/v1/wrap"
METADATA_CTX == "filer-crypto/v1/metadata"
SIGN_CTX     == "filer-crypto/v1/sign"

DeriveSubkey(secret, info) == [secret |-> secret, info |-> info]

Secret == [1 .. SECRET_LEN -> Octet]

ASSUME KeyAssumption == \A s \in Secret : DeriveSubkey(s, WRAP_CTX) \in WrapKeys

\* Plaintexts an application brings are bytes, and hold no wrap made later.
ASSUME TextAssumption ==
    Texts \subseteq Seq(Bytes) /\ \A k \in DataKeys : [wrapped |-> k] \notin Bytes

\* Mutant: two subkeys are derived with one context.
CoreOpenSharedKey(secret) ==
    [wrap_key |-> DeriveSubkey(secret, WRAP_CTX), metadata_key |-> DeriveSubkey(secret, WRAP_CTX),
     signing_key |-> DeriveSubkey(secret, SIGN_CTX)]

\* Vault::open.
CoreOpen(secret) ==
    [wrap_key |-> DeriveSubkey(secret, WRAP_CTX), metadata_key |-> DeriveSubkey(secret, METADATA_CTX),
     signing_key |-> DeriveSubkey(secret, SIGN_CTX)]

\* BIP39: the words of any legal entropy, with a right or wrong checksum.
Mnemonic(entropy, valid) == [entropy |-> entropy, valid |-> valid]

\* Mutant: a phrase of fewer words fills the front of the secret.
PhraseToSecretPadded(p) ==
    IF p.valid THEN Ok([i \in 1 .. SECRET_LEN |-> IF i <= Len(p.entropy) THEN p.entropy[i] ELSE 0])
    ELSE Err("InvalidPhrase")

PhraseToSecret(p) ==
    IF p.valid /\ Len(p.entropy) = SECRET_LEN THEN Ok(p.entropy) ELSE Err("InvalidPhrase")

FromRecoveryPhrase(p) ==
    IF PhraseToSecret(p).res = "Ok" THEN Ok(CoreOpen(PhraseToSecret(p).out)) ELSE PhraseToSecret(p)

\* Mutant: no length check.
VecToSecretArrayAny(bytes) == Ok(bytes)

VecToSecretArray(bytes) ==
    IF Len(bytes) = SECRET_LEN THEN Ok(bytes) ELSE Err("InvalidKeyLength")

SecretToPhrase(bytes) ==
    IF VecToSecretArray(bytes).res = "Ok" THEN Ok(Mnemonic(bytes, TRUE)) ELSE VecToSecretArray(bytes)

Open(bytes) ==
    IF VecToSecretArray(bytes).res = "Ok" THEN Ok(CoreOpen(bytes)) ELSE VecToSecretArray(bytes)

----------------------------------------------------------------------------
(* Metadata fields                                                         *)

\* AES-256-GCM: what a ciphertext binds.
Gcm(key, iv, aad, msg) == [key |-> key, iv |-> iv, aad |-> aad, msg |-> msg]

EncryptField(msg, key, record, field, iv) ==
    IF ~Usable(record) \/ ~Usable(field) THEN Err("InvalidContext")
    ELSE IF iv = NoEntropy THEN Err("Randomness")
    ELSE Ok([ciphertext |-> Gcm(key, iv, FieldAad(record, field), msg), iv |-> iv])

DecryptField(env, key, record, field) ==
    IF ~Usable(record) \/ ~Usable(field) THEN Err("InvalidContext")
    ELSE IF env.ciphertext = Gcm(key, env.iv, FieldAad(record, field), env.ciphertext.msg)
    THEN Ok(env.ciphertext.msg) ELSE Err("Aead")

\* The envelope that crosses the interface carries an IV of any length.
TryFrom(env) == IF Len(env.iv) = IV_LEN THEN Ok(env) ELSE Err("InvalidKeyLength")

DecryptMetadataField(v, env, record, field) ==
    IF TryFrom(env).res = "Ok" THEN DecryptField(env, v.metadata_key, record, field)
    ELSE TryFrom(env)

----------------------------------------------------------------------------
(* Signatures; len is the number of bytes that cross the interface         *)

DevicePublicKey(v) == [len |-> 32, of |-> v.signing_key]

Sign(key, message) == [len |-> 64, of |-> key, over |-> DomainSeparated(message)]

CoreVerify(pk, message, sig) ==
    IF sig.of = pk.of /\ sig.over = DomainSeparated(message) THEN Ok(<<>>)
    ELSE Err("InvalidSignature")

VerifySignature(pk, message, sig) ==
    IF pk.len # 32 \/ sig.len # 64 THEN Err("InvalidKeyLength")
    ELSE CoreVerify(pk, message, sig)

----------------------------------------------------------------------------
Init ==
    /\ bind = [k \in DataKeys |-> NoBind] /\ seals = [k \in DataKeys |-> <<>>]
    /\ vault = [h \in Handles |-> NoVault] /\ born = [h \in Handles |-> <<>>]
    /\ held = {} /\ written = {} /\ fields = {} /\ sigs = {} /\ blobs = {}
    /\ file \in [Paths -> Texts \cup {NoFile}]

Live(h) == vault[h] # NoVault

\* A bound: the application and its user keep few secrets and phrases.
MayKeep == Cardinality(held) + Cardinality(written) < MaxKept

\* The secret drawn is one that nobody has drawn before.
GenerateMasterSecret ==
    /\ MayKeep
    /\ \E s \in {t \in Secrets : Len(t) = SECRET_LEN} \ (held \cup {w.secret : w \in written}) :
         held' = held \cup {s}
    /\ UNCHANGED <<cryptoVars, vault, born, written, fields, sigs, blobs, file>>

\* secret_to_phrase, and the user writes the phrase down.
WritePhrase ==
    /\ MayKeep
    /\ \E s \in held \cup Secrets :
         /\ SecretToPhrase(s).res = "Ok"
         /\ written' = written \cup {[secret |-> s, phrase |-> SecretToPhrase(s).out]}
    /\ UNCHANGED <<cryptoVars, vault, born, held, fields, sigs, blobs, file>>

\* phrase_to_secret, and the application stores the result.
RestoreSecret ==
    /\ MayKeep
    /\ \E p \in Phrases \cup {w.phrase : w \in written} :
         /\ PhraseToSecret(p).res = "Ok"
         /\ held' = held \cup {PhraseToSecret(p).out}
    /\ UNCHANGED <<cryptoVars, vault, born, written, fields, sigs, blobs, file>>

OpenVault(h) ==
    /\ ~Live(h)
    /\ \E s \in held \cup Secrets :
         /\ Open(s).res = "Ok"
         /\ vault' = [vault EXCEPT ![h] = Open(s).out]
         /\ born' = [born EXCEPT ![h] = s]
    /\ UNCHANGED <<cryptoVars, held, written, fields, sigs, blobs, file>>

OpenFromPhrase(h) ==
    /\ ~Live(h)
    /\ \E p \in Phrases \cup {w.phrase : w \in written} :
         /\ FromRecoveryPhrase(p).res = "Ok"
         /\ vault' = [vault EXCEPT ![h] = FromRecoveryPhrase(p).out]
         /\ born' = [born EXCEPT ![h] = PhraseToSecret(p).out]
    /\ UNCHANGED <<cryptoVars, held, written, fields, sigs, blobs, file>>

\* The device is lost or the application reinstalled: what is stored
\* elsewhere and what is written down remain.
Reinstall ==
    /\ vault' = [h \in Handles |-> NoVault] /\ born' = [h \in Handles |-> <<>>]
    /\ held' = {}
    /\ UNCHANGED <<cryptoVars, written, fields, sigs, blobs, file>>

EncryptMetadataField(h) ==
    /\ Live(h) /\ Cardinality(fields) < MaxFields
    /\ \E msg \in Texts, record \in Names, field \in Names, iv \in IVs \cup {NoEntropy} :
         LET r == EncryptField(msg, vault[h].metadata_key, record, field, iv)
         IN  /\ r.res = "Ok"
             /\ fields' = fields \cup {[by |-> born[h], record |-> record, field |-> field,
                                        msg |-> msg, env |-> r.out]}
    /\ UNCHANGED <<cryptoVars, vault, born, held, written, sigs, blobs, file>>

SignChallenge(h) ==
    /\ Live(h) /\ Cardinality(sigs) < MaxSigs
    /\ \E m \in Messages :
         sigs' = sigs \cup {[by |-> born[h], msg |-> m, sig |-> Sign(vault[h].signing_key, m)]}
    /\ UNCHANGED <<cryptoVars, vault, born, held, written, fields, blobs, file>>

\* The encoder's effect: key k, drawn at random, is wrapped for id, and the
\* first n segments of text are sealed under it.
SealUnder(h, text, id, k, cell, n) ==
    /\ bind[k] = NoBind
    /\ bind' = [bind EXCEPT ![k] = Wrap(vault[h].wrap_key, id, cell)]
    /\ seals' = [seals EXCEPT ![k] = SubSeq(ChunkedSeals(text, id, cell), 1, n)]

Made(h, text, id, framed) == [by |-> born[h], id |-> id, msg |-> text, framed |-> framed]

EncryptBlob(h) ==
    /\ Live(h)
    /\ \E text \in Texts, id \in BlobIds, k \in DataKeys, cell \in PrefixCell :
         LET r == EncryptChunked(text, id, k, cell)
         IN  /\ r.res = "Ok"
             /\ SealUnder(h, text, id, k, cell, Len(text) \div CHUNK_SIZE + 1)
             /\ blobs' = blobs \cup {Made(h, text, id, r.out)}
    /\ UNCHANGED <<vault, born, held, written, fields, sigs, file>>

\* It runs alone to its end: the output is truncated and written in place.
EncryptFileToBlob(h) ==
    /\ Live(h)
    /\ \E in \in Paths, out \in Paths, id \in BlobIds, k \in DataKeys, cell \in PrefixCell :
         LET r == EncryptChunked(file[in], id, k, cell)
         IN  /\ file[in] # NoFile /\ in # out /\ r.res = "Ok"
             /\ SealUnder(h, file[in], id, k, cell, Len(file[in]) \div CHUNK_SIZE + 1)
             /\ blobs' = blobs \cup {Made(h, file[in], id, r.out)}
             /\ file' = [file EXCEPT ![out] = r.out]
    /\ UNCHANGED <<vault, born, held, written, fields, sigs>>

\* It fails, or the process dies, after File::create: any beginning of what
\* was sealed is left behind.  That is the whole blob when only the last flush
\* failed and the BufWriter, dropped, wrote the rest, or when the process died
\* between the last write and the return.
EncryptFileFails(h) ==
    /\ Live(h)
    /\ \E in \in Paths, out \in Paths, id \in BlobIds, k \in DataKeys, cell \in PrefixCell :
         /\ file[in] # NoFile /\ in # out /\ Usable(id)
         /\ LET ss == ChunkedSeals(file[in], id, cell)
                framed == Framed(k, cell, ss)
            IN  \E n \in 0 .. Len(ss), keep \in 0 .. Len(framed) :
                  /\ Len(ss) > COUNTER_MAX + 1 => n <= COUNTER_MAX
                  /\ keep <= Len(Framed(k, cell, SubSeq(ss, 1, n)))
                  /\ SealUnder(h, file[in], id, k, cell, n)
                  /\ file' = [file EXCEPT ![out] = SubSeq(framed, 1, keep)]
                  /\ blobs' = IF n = Len(ss) /\ keep = Len(framed)
                              THEN blobs \cup {Made(h, file[in], id, framed)} ELSE blobs
    /\ UNCHANGED <<vault, born, held, written, fields, sigs>>

\* Vault::decrypt_blob.
DecryptBlob(v, framed, id) == DecryptChunked(framed, v.wrap_key, id)

DecryptBlobToFile(h) ==
    /\ Live(h)
    /\ \E in \in Paths, out \in Paths, id \in BlobIds :
         LET r == DecryptBlob(vault[h], file[in], id)
         IN  /\ file[in] # NoFile /\ r.res = "Ok"
             /\ file' = [file EXCEPT ![out] = r.out]
    /\ UNCHANGED <<cryptoVars, vault, born, held, written, fields, sigs, blobs>>

Next ==
    \/ GenerateMasterSecret \/ WritePhrase \/ RestoreSecret \/ Reinstall
    \/ \E h \in Handles :
         \/ OpenVault(h) \/ OpenFromPhrase(h) \/ EncryptMetadataField(h) \/ SignChallenge(h)
         \/ EncryptBlob(h) \/ EncryptFileToBlob(h) \/ EncryptFileFails(h) \/ DecryptBlobToFile(h)

Spec == Init /\ [][Next]_vars

----------------------------------------------------------------------------
(* Properties                                                              *)

TypeOK ==
    /\ bind \in [DataKeys -> [wk : {DeriveSubkey(s, WRAP_CTX) : s \in Secret}, aad : Seq(Octet)]
                              \cup {NoBind}]
    /\ vault \in [Handles -> {CoreOpen(s) : s \in Secret} \cup {NoVault}]
    /\ born \in [Handles -> Secret \cup {<<>>}]
    /\ held \subseteq Secret
    /\ written \subseteq {[secret |-> s, phrase |-> Mnemonic(s, TRUE)] : s \in Secret}

\* "a ciphertext transplanted to a different record id or field name fails
\* authentication" (metadata.rs), and one in its place never does: whichever
\* way a vault was opened, it opens a stored ciphertext exactly when a vault
\* of the same master secret sealed it for that record and field and it comes
\* with its own IV, and then returns what was sealed.
FieldsOpenExactly ==
    \A h \in Handles, f \in fields, iv \in IVs \cup {<<>>}, record \in Names, field \in Names :
        Live(h) =>
            LET env == [ciphertext |-> f.env.ciphertext, iv |-> iv]
                r   == DecryptMetadataField(vault[h], env, record, field)
            IN  IF born[h] = f.by /\ record = f.record /\ field = f.field /\ iv = f.env.iv
                THEN r = Ok(f.msg) ELSE r.res # "Ok"

\* A vault opens a blob, or a file, exactly when it is all of one blob sealed
\* to the end under the same master secret for the same identifier, and then
\* returns the whole plaintext.  What a failed or interrupted encryption left
\* opens under no vault, however long, unless it is the whole blob; and then
\* it opens as the blob of a call that returned does.
BlobsOpenExactly ==
    \A h \in Handles, id \in BlobIds,
       framed \in {b.framed : b \in blobs} \cup ({file[p] : p \in Paths} \ {NoFile}) :
        Live(h) =>
            LET made == {b \in blobs : b.framed = framed /\ b.by = born[h] /\ b.id = id}
                r    == DecryptBlob(vault[h], framed, id)
            IN  IF made = {} THEN r.res # "Ok" ELSE \A b \in made : r = Ok(b.msg)

\* A signature verifies under a vault's public key exactly for the message
\* that a vault of the same master secret signed, when no byte of either was
\* cut off, and is never a signature over what a flow with another domain tag
\* signs or checks (auth.rs: "distinct (domain, message) pairs always sign
\* distinct bytes").
SignaturesBound ==
    \A s \in sigs, m \in Messages :
        /\ \A h \in Handles, cut, short \in {0, 1} :
             Live(h) =>
                LET pk  == [DevicePublicKey(vault[h]) EXCEPT !.len = @ - short]
                    sig == [s.sig EXCEPT !.len = @ - cut]
                IN  VerifySignature(pk, m, sig).res = "Ok"
                      <=> born[h] = s.by /\ m = s.msg /\ cut = 0 /\ short = 0
        /\ \A d \in Domains \ {ATTEST_DOMAIN} : s.sig.over # Frame(d, m)

\* "The metadata key ... is independent of the wrapping key" (metadata.rs): no
\* key that has wrapped a blob has sealed a field or signed, in any vault.
KeysOnePurpose ==
    LET wraps   == {bind[k].wk : k \in {j \in DataKeys : bind[j] # NoBind}}
        seal    == {f.env.ciphertext.key : f \in fields}
        signing == {s.sig.of : s \in sigs}
    IN  wraps \cap seal = {} /\ wraps \cap signing = {} /\ seal \cap signing = {}

\* "the device identity is stable across reinstalls" (auth.rs): a phrase that
\* was written down opens the very vault its secret opens, and no other
\* phrase, longer, shorter, mistyped or of another vault, opens that one.
RecoveryRestores ==
    \A w \in written, h \in Handles :
        Live(h) /\ born[h] = w.secret =>
            \A p \in Phrases \cup {x.phrase : x \in written} :
                FromRecoveryPhrase(p) = Ok(vault[h]) <=> p = w.phrase
=============================================================================

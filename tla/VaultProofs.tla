---------------------------- MODULE VaultProofs ----------------------------
(* The invariant of Vault and the theorems that follow from it, for any     *)
(* number of vaults, secrets, names and messages and any sequence of calls. *)
EXTENDS Vault, AadProofs

\* An open vault holds the keys of the secret it was opened from.
VaultsDerived == \A h \in Handles : Live(h) => born[h] \in Secret /\ vault[h] = CoreOpen(born[h])

\* A stored field is what its vault sealed, for names it accepted.
FieldsSealed ==
    \A f \in fields :
        /\ f.record \in Names /\ Usable(f.record)
        /\ f.field \in Names /\ Usable(f.field)
        /\ f.env.iv \in IVs
        /\ f.env.ciphertext =
             Gcm(DeriveSubkey(f.by, METADATA_CTX), f.env.iv, FieldAad(f.record, f.field), f.msg)

\* A signature is what its vault signed.
SigsMade ==
    \A s \in sigs : s.msg \in Messages /\ s.sig = Sign(DeriveSubkey(s.by, SIGN_CTX), s.msg)

IndInv == TypeOK /\ VaultsDerived /\ FieldsSealed /\ SigsMade

----------------------------------------------------------------------------
(* Lengths and types                                                       *)

\* The functions on 1 .. n are the sequences of length n.
LEMMA Fixed ==
    ASSUME NEW n \in Nat
    PROVE  \A s : s \in [1 .. n -> Octet] <=> s \in Seq(Octet) /\ Len(s) = n
  <1>1. ASSUME NEW s \in [1 .. n -> Octet]
        PROVE  s \in Seq(Octet) /\ Len(s) = n
    <2>1. s \in Seq(Octet) BY SeqDef
    <2>2. DOMAIN s = 1 .. n OBVIOUS
    <2> QED BY <2>1, <2>2, LenProperties
  <1>2. ASSUME NEW s \in Seq(Octet), Len(s) = n
        PROVE  s \in [1 .. n -> Octet]
    BY <1>2, LenProperties
  <1> QED BY <1>1, <1>2

\* The secrets the two constructors accept are master secrets.
LEMMA Accepted ==
    /\ \A s \in Secrets \cup Secret :
         /\ VecToSecretArray(s).res = "Ok" => s \in Secret
         /\ SecretToPhrase(s).res = "Ok" => SecretToPhrase(s).out = Mnemonic(s, TRUE) /\ s \in Secret
         /\ Open(s).res = "Ok" => Open(s).out = CoreOpen(s) /\ s \in Secret
    /\ \A p \in [entropy : Seq(Octet), valid : BOOLEAN] :
         /\ PhraseToSecret(p).res = "Ok" =>
              PhraseToSecret(p).out = p.entropy /\ p.entropy \in Secret /\ p.valid
         /\ FromRecoveryPhrase(p).res = "Ok" =>
              FromRecoveryPhrase(p).out = CoreOpen(p.entropy) /\ PhraseToSecret(p).res = "Ok"
  <1>1. \A s : s \in Secret <=> s \in Seq(Octet) /\ Len(s) = SECRET_LEN
    BY Fixed, LengthAssumption DEF Secret
  <1>2. ASSUME NEW s \in Secrets \cup Secret
        PROVE  /\ VecToSecretArray(s).res = "Ok" => s \in Secret
               /\ SecretToPhrase(s).res = "Ok" => SecretToPhrase(s).out = Mnemonic(s, TRUE) /\ s \in Secret
               /\ Open(s).res = "Ok" => Open(s).out = CoreOpen(s) /\ s \in Secret
    <2>1. s \in Seq(Octet) BY <1>1, LengthAssumption
    <2>2. VecToSecretArray(s).res = "Ok" => s \in Secret
      BY <1>1, <2>1 DEF VecToSecretArray, Ok, Err
    <2> QED BY <2>2 DEF SecretToPhrase, Open, Ok
  <1>3. ASSUME NEW p \in [entropy : Seq(Octet), valid : BOOLEAN]
        PROVE  /\ PhraseToSecret(p).res = "Ok" =>
                    PhraseToSecret(p).out = p.entropy /\ p.entropy \in Secret /\ p.valid
               /\ FromRecoveryPhrase(p).res = "Ok" =>
                    FromRecoveryPhrase(p).out = CoreOpen(p.entropy) /\ PhraseToSecret(p).res = "Ok"
    <2>1. PhraseToSecret(p).res = "Ok" =>
            PhraseToSecret(p).out = p.entropy /\ p.entropy \in Secret /\ p.valid
      BY <1>1, <1>3 DEF PhraseToSecret, Ok, Err
    <2> QED BY <2>1 DEF FromRecoveryPhrase, Ok
  <1> QED BY <1>2, <1>3

\* Every phrase an action may use has the shape of a phrase.
LEMMA PhraseShape ==
    ASSUME TypeOK
    PROVE  Phrases \cup {w.phrase : w \in written} \subseteq [entropy : Seq(Octet), valid : BOOLEAN]
  <1>1. \A s \in Secret : s \in Seq(Octet)
    BY Fixed, LengthAssumption DEF Secret
  <1>2. ASSUME NEW w \in written
        PROVE  w.phrase \in [entropy : Seq(Octet), valid : BOOLEAN]
    <2>1. PICK s \in Secret : w = [secret |-> s, phrase |-> Mnemonic(s, TRUE)]
      BY DEF TypeOK
    <2>2. w.phrase = [entropy |-> s, valid |-> TRUE]
      BY <2>1 DEF Mnemonic
    <2> QED BY <1>1, <2>2
  <1> QED BY <1>2, LengthAssumption

\* The wrap of a data key by a vault is a typed binding.
LEMMA WrapTyped ==
    ASSUME NEW s \in Secret, NEW id \in BlobIds, NEW cell \in PrefixCell
    PROVE  Wrap(DeriveSubkey(s, WRAP_CTX), id, cell) \in
             [wk : {DeriveSubkey(t, WRAP_CTX) : t \in Secret}, aad : Seq(Octet)]
  <1> DEFINE z == ToBeBytes(CHUNK_SIZE)  y == cell.prefix \o z  x == <<VERSION>> \o y
             b == BlobSegmentAad(id)
  <1>1. z \in Seq(Octet) BY ToBeBytesInjective, ChunkAssumption
  <1>2. cell.prefix \in Seq(Octet) BY NameAssumption DEF PrefixCell
  <1>3. y \in Seq(Octet)
    <2> HIDE DEF z
    <2> QED BY <1>1, <1>2, Concat
  <1>4. <<VERSION>> \in Seq(Octet) BY BaseAssumption DEF VERSION, Octet
  <1>5. x \in Seq(Octet)
    <2> HIDE DEF y
    <2> QED BY <1>3, <1>4, Concat
  <1>6. b \in Seq(Octet)
    <2>1. Prefixed(id) \in Seq(Octet) BY PrefixedDecode, EmptySeq, NameAssumption
    <2> QED BY <2>1, Concat, DomainAssumption DEF BlobSegmentAad
  <1>7. b \o x \in Seq(Octet)
    <2> HIDE DEF x, b
    <2> QED BY <1>5, <1>6, Concat
  <1> HIDE DEF z, y, x, b
  <1>8. BlobWrapAad(id, VERSION, cell.prefix, CHUNK_SIZE) \in Seq(Octet)
    BY <1>7 DEF BlobWrapAad, x, y, z, b
  <1> QED BY <1>8 DEF Wrap

----------------------------------------------------------------------------
(* The invariant holds initially and every step preserves it               *)

\* The invariant holds initially.
LEMMA InitInv == Init => IndInv
  <1> SUFFICES ASSUME Init PROVE IndInv
    OBVIOUS
  <1>1. TypeOK BY DEF Init, TypeOK
  <1> QED BY <1>1 DEF Init, IndInv, VaultsDerived, FieldsSealed, SigsMade, Live

\* The parts over variables that a step leaves alone are preserved.
LEMMA Kept ==
    ASSUME IndInv
    PROVE  /\ UNCHANGED <<vault, born>> => VaultsDerived'
           /\ UNCHANGED fields => FieldsSealed'
           /\ UNCHANGED sigs => SigsMade'
  BY DEF IndInv, VaultsDerived, Live, FieldsSealed, SigsMade

\* Handle h is opened from secret s.
LEMMA OpenInv ==
    ASSUME IndInv, NEW h \in Handles, NEW s \in Secret,
           vault' = [vault EXCEPT ![h] = CoreOpen(s)], born' = [born EXCEPT ![h] = s],
           UNCHANGED <<bind, held, written, fields, sigs>>
    PROVE  IndInv'
  <1>1. /\ vault \in [Handles -> {CoreOpen(t) : t \in Secret} \cup {NoVault}]
        /\ born \in [Handles -> Secret \cup {<<>>}]
    BY DEF IndInv, TypeOK
  <1>2. TypeOK'
    <2>1. vault' \in [Handles -> {CoreOpen(t) : t \in Secret} \cup {NoVault}]
      BY <1>1
    <2>2. born' \in [Handles -> Secret \cup {<<>>}]
      BY <1>1
    <2> QED BY <2>1, <2>2 DEF IndInv, TypeOK
  <1>3. VaultsDerived'
    BY <1>1 DEF IndInv, VaultsDerived, Live
  <1> QED BY <1>2, <1>3, Kept DEF IndInv

\* The keys of an open vault.
LEMMA LiveKeys ==
    ASSUME IndInv, NEW h \in Handles, Live(h)
    PROVE  /\ born[h] \in Secret
           /\ vault[h].wrap_key = DeriveSubkey(born[h], WRAP_CTX)
           /\ vault[h].metadata_key = DeriveSubkey(born[h], METADATA_CTX)
           /\ vault[h].signing_key = DeriveSubkey(born[h], SIGN_CTX)
  <1>1. born[h] \in Secret /\ vault[h] = CoreOpen(born[h])
    BY DEF IndInv, VaultsDerived
  <1> QED BY <1>1 DEF CoreOpen

\* What EncryptBlob, EncryptFileToBlob and EncryptFileFails do to the
\* variables of the invariant.
LEMMA SealInv ==
    ASSUME IndInv, NEW h \in Handles, Live(h),
           NEW text, NEW id \in BlobIds, NEW k \in DataKeys, NEW cell \in PrefixCell, NEW n,
           SealUnder(h, text, id, k, cell, n),
           UNCHANGED <<vault, born, held, written, fields, sigs>>
    PROVE  IndInv'
  <1> DEFINE W == [wk : {DeriveSubkey(t, WRAP_CTX) : t \in Secret}, aad : Seq(Octet)]
             w == Wrap(vault[h].wrap_key, id, cell)
  <1>1. w \in W
    BY LiveKeys, WrapTyped
  <1>2. bind' = [bind EXCEPT ![k] = w] /\ bind \in [DataKeys -> W \cup {NoBind}]
    BY DEF SealUnder, IndInv, TypeOK
  <1>3. bind' \in [DataKeys -> W \cup {NoBind}]
    <2> HIDE DEF w, W
    <2> QED BY <1>1, <1>2
  <1>4. TypeOK'
    BY <1>3 DEF IndInv, TypeOK
  <1> QED BY <1>4, Kept DEF IndInv

\* Sealing a field adds a field sealed under the metadata key.
LEMMA FieldInv ==
    ASSUME IndInv, NEW h \in Handles, EncryptMetadataField(h)
    PROVE  IndInv'
  <1>1. Live(h) /\ UNCHANGED <<bind, vault, born, held, written, sigs>>
    BY DEF EncryptMetadataField, cryptoVars
  <1>2. PICK msg \in Texts, record \in Names, field \in Names, iv \in IVs \cup {NoEntropy} :
          LET r == EncryptField(msg, vault[h].metadata_key, record, field, iv)
          IN  /\ r.res = "Ok"
              /\ fields' = fields \cup {[by |-> born[h], record |-> record, field |-> field,
                                         msg |-> msg, env |-> r.out]}
    BY DEF EncryptMetadataField
  <1> DEFINE key == vault[h].metadata_key
             c   == Gcm(key, iv, FieldAad(record, field), msg)
             new == [by |-> born[h], record |-> record, field |-> field, msg |-> msg,
                     env |-> [ciphertext |-> c, iv |-> iv]]
  <1>3. Usable(record) /\ Usable(field) /\ iv \in IVs /\ fields' = fields \cup {new}
    BY <1>2 DEF EncryptField, Ok, Err
  <1>4. key = DeriveSubkey(born[h], METADATA_CTX)
    BY <1>1, LiveKeys
  <1>5. FieldsSealed'
    <2>1. FieldsSealed BY DEF IndInv
    <2>2. /\ new.record = record /\ new.field = field /\ new.by = born[h] /\ new.msg = msg
          /\ new.env.iv = iv /\ new.env.ciphertext = c
      OBVIOUS
    <2>3. c = Gcm(DeriveSubkey(born[h], METADATA_CTX), iv, FieldAad(record, field), msg)
      BY <1>4
    <2> HIDE DEF new, c, key
    <2> QED BY <1>3, <2>1, <2>2, <2>3 DEF FieldsSealed
  <1>6. TypeOK'
    BY <1>1 DEF IndInv, TypeOK
  <1> QED BY <1>1, <1>5, <1>6, Kept DEF IndInv

\* Signing adds a signature under the signing key.
LEMMA SignInv ==
    ASSUME IndInv, NEW h \in Handles, SignChallenge(h)
    PROVE  IndInv'
  <1>1. Live(h) /\ UNCHANGED <<bind, vault, born, held, written, fields>>
    BY DEF SignChallenge, cryptoVars
  <1>2. PICK m \in Messages :
          sigs' = sigs \cup {[by |-> born[h], msg |-> m, sig |-> Sign(vault[h].signing_key, m)]}
    BY DEF SignChallenge
  <1>3. vault[h].signing_key = DeriveSubkey(born[h], SIGN_CTX)
    BY <1>1, LiveKeys
  <1>4. SigsMade'
    BY <1>2, <1>3 DEF IndInv, SigsMade
  <1>5. TypeOK'
    BY <1>1 DEF IndInv, TypeOK
  <1> QED BY <1>1, <1>4, <1>5, Kept DEF IndInv

\* Every step preserves the invariant.
LEMMA StepInv == IndInv /\ [Next]_vars => IndInv'
  <1> SUFFICES ASSUME IndInv, [Next]_vars PROVE IndInv'
    OBVIOUS
  <1> DEFINE P == Phrases \cup {w.phrase : w \in written}
  <1>0. /\ held \subseteq Secret
        /\ P \subseteq [entropy : Seq(Octet), valid : BOOLEAN]
        /\ \A s \in held \cup Secrets : s \in Secrets \cup Secret
    BY PhraseShape DEF IndInv, TypeOK
  <1> HIDE DEF P
  <1>1. CASE GenerateMasterSecret
    <2>1. UNCHANGED <<bind, vault, born, written, fields, sigs>> /\ held' \subseteq Secret
      BY <1>0, <1>1, Fixed, LengthAssumption DEF GenerateMasterSecret, cryptoVars, Secret
    <2>2. TypeOK' BY <2>1 DEF IndInv, TypeOK
    <2> QED BY <2>1, <2>2, Kept DEF IndInv
  <1>2. CASE WritePhrase
    <2>1. UNCHANGED <<bind, vault, born, held, fields, sigs>>
      BY <1>2 DEF WritePhrase, cryptoVars
    <2>2. PICK s \in held \cup Secrets :
            /\ SecretToPhrase(s).res = "Ok"
            /\ written' = written \cup {[secret |-> s, phrase |-> SecretToPhrase(s).out]}
      BY <1>2 DEF WritePhrase
    <2>3. s \in Secret /\ SecretToPhrase(s).out = Mnemonic(s, TRUE)
      BY <1>0, <2>2, Accepted
    <2>4. TypeOK' BY <2>1, <2>2, <2>3 DEF IndInv, TypeOK
    <2> QED BY <2>1, <2>4, Kept DEF IndInv
  <1>3. CASE RestoreSecret
    <2>1. UNCHANGED <<bind, vault, born, written, fields, sigs>>
      BY <1>3 DEF RestoreSecret, cryptoVars
    <2>2. PICK p \in P : PhraseToSecret(p).res = "Ok" /\ held' = held \cup {PhraseToSecret(p).out}
      BY <1>3 DEF RestoreSecret, P
    <2>3. held' \subseteq Secret
      BY <1>0, <2>2, Accepted
    <2>4. TypeOK' BY <2>1, <2>3 DEF IndInv, TypeOK
    <2> QED BY <2>1, <2>4, Kept DEF IndInv
  <1>4. CASE Reinstall
    <2>1. /\ vault' = [h \in Handles |-> NoVault] /\ born' = [h \in Handles |-> <<>>]
          /\ held' = {} /\ UNCHANGED <<bind, written, fields, sigs>>
      BY <1>4 DEF Reinstall, cryptoVars
    <2>2. TypeOK' BY <2>1 DEF IndInv, TypeOK
    <2>3. VaultsDerived' BY <2>1 DEF VaultsDerived, Live
    <2> QED BY <2>1, <2>2, <2>3, Kept DEF IndInv
  <1>5. ASSUME NEW h \in Handles, OpenVault(h)
        PROVE  IndInv'
    <2>1. PICK s \in held \cup Secrets :
            /\ Open(s).res = "Ok" /\ vault' = [vault EXCEPT ![h] = Open(s).out]
            /\ born' = [born EXCEPT ![h] = s]
      BY <1>5 DEF OpenVault
    <2>2. s \in Secret /\ Open(s).out = CoreOpen(s)
      BY <1>0, <2>1, Accepted
    <2>3. UNCHANGED <<bind, held, written, fields, sigs>>
      BY <1>5 DEF OpenVault, cryptoVars
    <2> QED BY <2>1, <2>2, <2>3, OpenInv
  <1>6. ASSUME NEW h \in Handles, OpenFromPhrase(h)
        PROVE  IndInv'
    <2>1. PICK p \in P :
            /\ FromRecoveryPhrase(p).res = "Ok"
            /\ vault' = [vault EXCEPT ![h] = FromRecoveryPhrase(p).out]
            /\ born' = [born EXCEPT ![h] = PhraseToSecret(p).out]
      BY <1>6 DEF OpenFromPhrase, P
    <2>2. /\ p.entropy \in Secret /\ PhraseToSecret(p).out = p.entropy
          /\ FromRecoveryPhrase(p).out = CoreOpen(p.entropy)
      BY <1>0, <2>1, Accepted
    <2>3. UNCHANGED <<bind, held, written, fields, sigs>>
      BY <1>6 DEF OpenFromPhrase, cryptoVars
    <2> QED BY <2>1, <2>2, <2>3, OpenInv
  <1>7. ASSUME NEW h \in Handles, EncryptBlob(h)
        PROVE  IndInv'
    <2>1. /\ Live(h) /\ UNCHANGED <<vault, born, held, written, fields, sigs>>
          /\ \E text \in Texts, id \in BlobIds, k \in DataKeys, cell \in PrefixCell :
               SealUnder(h, text, id, k, cell, Len(text) \div CHUNK_SIZE + 1)
      BY <1>7 DEF EncryptBlob
    <2> QED BY <2>1, SealInv
  <1>8. ASSUME NEW h \in Handles, EncryptFileToBlob(h)
        PROVE  IndInv'
    <2>1. /\ Live(h) /\ UNCHANGED <<vault, born, held, written, fields, sigs>>
          /\ \E in \in Paths, id \in BlobIds, k \in DataKeys, cell \in PrefixCell :
               SealUnder(h, file[in], id, k, cell, Len(file[in]) \div CHUNK_SIZE + 1)
      BY <1>8 DEF EncryptFileToBlob
    <2> QED BY <2>1, SealInv
  <1>9. ASSUME NEW h \in Handles, EncryptFileFails(h)
        PROVE  IndInv'
    <2>1. /\ Live(h) /\ UNCHANGED <<vault, born, held, written, fields, sigs>>
          /\ \E in \in Paths, id \in BlobIds, k \in DataKeys, cell \in PrefixCell, n \in Nat :
               SealUnder(h, file[in], id, k, cell, n)
      BY <1>9 DEF EncryptFileFails
    <2> QED BY <2>1, SealInv
  <1>10. CASE \/ UNCHANGED vars
              \/ \E h \in Handles : DecryptBlobToFile(h)
    <2>1. UNCHANGED <<bind, vault, born, held, written, fields, sigs>>
      BY <1>10 DEF vars, DecryptBlobToFile, cryptoVars
    <2>2. TypeOK' BY <2>1 DEF IndInv, TypeOK
    <2> QED BY <2>1, <2>2, Kept DEF IndInv
  <1> QED BY <1>1, <1>2, <1>3, <1>4, <1>5, <1>6, <1>7, <1>8, <1>9, <1>10, FieldInv, SignInv DEF Next

\* The invariant holds in every reachable state.
THEOREM Invariance == Spec => []IndInv
  <1> QED BY InitInv, StepInv, PTL DEF Spec

----------------------------------------------------------------------------
(* Theorems                                                                *)

\* Only master secrets of the right length become keys, whatever byte strings
\* and phrases cross the interface (vec_to_secret_array, phrase_to_secret).
THEOREM TypeCorrectness == Spec => []TypeOK
  <1>1. IndInv => TypeOK BY DEF IndInv
  <1> QED BY <1>1, Invariance, PTL

\* A metadata field opens in its own place and nowhere else, for all names,
\* IVs and secrets (encrypt_field, decrypt_field, field_aad).
THEOREM FieldsExact == Spec => []FieldsOpenExactly
  <1>1. ASSUME IndInv, NEW h \in Handles, NEW f \in fields, NEW iv \in IVs \cup {<<>>},
               NEW record \in Names, NEW field \in Names, Live(h)
        PROVE  LET env == [ciphertext |-> f.env.ciphertext, iv |-> iv]
                   r   == DecryptMetadataField(vault[h], env, record, field)
               IN  IF born[h] = f.by /\ record = f.record /\ field = f.field /\ iv = f.env.iv
                   THEN r = Ok(f.msg) ELSE r.res # "Ok"
    <2> DEFINE c   == f.env.ciphertext
               env == [ciphertext |-> c, iv |-> iv]
               key == DeriveSubkey(born[h], METADATA_CTX)
               own == born[h] = f.by /\ record = f.record /\ field = f.field /\ iv = f.env.iv
    <2>1. /\ f.record \in Names /\ Usable(f.record) /\ f.field \in Names /\ Usable(f.field)
          /\ f.env.iv \in IVs
          /\ c = Gcm(DeriveSubkey(f.by, METADATA_CTX), f.env.iv, FieldAad(f.record, f.field), f.msg)
      BY <1>1 DEF IndInv, FieldsSealed
    <2>2. vault[h].metadata_key = key
      BY <1>1, LiveKeys
    <2>3. /\ record \in Seq(Octet) /\ field \in Seq(Octet)
          /\ f.record \in Seq(Octet) /\ f.field \in Seq(Octet)
      BY <2>1, LengthAssumption
    <2>4. Len(f.env.iv) = IV_LEN
      BY <2>1, Fixed, LengthAssumption
    <2>5. env.iv = iv /\ env.ciphertext = c /\ c.msg = f.msg
      BY <2>1 DEF Gcm
    <2> HIDE DEF c, env
    <2>6. CASE own
      <3>1. TryFrom(env).res = "Ok"
        BY <2>4, <2>5, <2>6 DEF TryFrom, Ok
      <3>2. c = Gcm(key, env.iv, FieldAad(record, field), c.msg)
        BY <2>1, <2>5, <2>6
      <3>3. DecryptField(env, key, record, field) = Ok(f.msg)
        BY <2>1, <2>5, <2>6, <3>2 DEF DecryptField
      <3> QED BY <2>2, <2>6, <3>1, <3>3 DEF DecryptMetadataField, env, c
    <2>7. CASE ~own
      <3>1. ASSUME Usable(record), Usable(field), c = Gcm(key, iv, FieldAad(record, field), c.msg)
            PROVE  FALSE
        <4>1. /\ key = DeriveSubkey(f.by, METADATA_CTX) /\ iv = f.env.iv
              /\ FieldAad(record, field) = FieldAad(f.record, f.field)
          BY <2>1, <3>1 DEF Gcm
        <4>2. born[h] = f.by
          BY <4>1 DEF DeriveSubkey
        <4>3. record = f.record /\ field = f.field
          BY <2>1, <2>3, <3>1, <4>1, FieldAadInjective
        <4> QED BY <2>7, <4>1, <4>2, <4>3
      <3>2. DecryptField(env, key, record, field).res # "Ok"
        BY <2>5, <3>1 DEF DecryptField, Err
      <3>3. TryFrom(env).res # "Ok" \/ DecryptMetadataField(vault[h], env, record, field).res # "Ok"
        BY <2>2, <3>2 DEF DecryptMetadataField
      <3>4. DecryptMetadataField(vault[h], env, record, field).res # "Ok"
        BY <3>3 DEF DecryptMetadataField
      <3> QED BY <2>7, <3>4 DEF env, c
    <2> QED BY <2>6, <2>7
  <1>2. IndInv => FieldsOpenExactly
    BY <1>1 DEF FieldsOpenExactly
  <1> QED BY <1>2, Invariance, PTL

\* A signature verifies for its own signer, message and domain only, for all
\* messages and all domain tags of up to 255 bytes (sign_challenge,
\* verify_signature, domain_separated).
THEOREM SignaturesAreBound == Spec => []SignaturesBound
  <1>1. ASSUME IndInv, NEW s \in sigs, NEW m \in Messages
        PROVE  /\ \A h \in Handles, cut, short \in {0, 1} :
                    Live(h) =>
                        LET pk  == [DevicePublicKey(vault[h]) EXCEPT !.len = @ - short]
                            sig == [s.sig EXCEPT !.len = @ - cut]
                        IN  VerifySignature(pk, m, sig).res = "Ok"
                              <=> born[h] = s.by /\ m = s.msg /\ cut = 0 /\ short = 0
               /\ \A d \in Domains \ {ATTEST_DOMAIN} : s.sig.over # Frame(d, m)
    <2>1. s.msg \in Messages /\ s.sig = Sign(DeriveSubkey(s.by, SIGN_CTX), s.msg)
      BY <1>1 DEF IndInv, SigsMade
    <2>2. /\ s.sig = [len |-> 64, of |-> DeriveSubkey(s.by, SIGN_CTX), over |-> Frame(ATTEST_DOMAIN, s.msg)]
      BY <2>1 DEF Sign, DomainSeparated
    <2>3. /\ m \in Seq(Octet) /\ s.msg \in Seq(Octet)
          /\ ATTEST_DOMAIN \in Seq(Octet) /\ Len(ATTEST_DOMAIN) < BASE
      BY <2>1, LengthAssumption, DomainAssumption
    <2>4. ASSUME NEW h \in Handles, NEW cut \in {0, 1}, NEW short \in {0, 1}, Live(h)
          PROVE  LET pk  == [DevicePublicKey(vault[h]) EXCEPT !.len = @ - short]
                     sig == [s.sig EXCEPT !.len = @ - cut]
                 IN  VerifySignature(pk, m, sig).res = "Ok"
                       <=> born[h] = s.by /\ m = s.msg /\ cut = 0 /\ short = 0
      <3> DEFINE pk  == [DevicePublicKey(vault[h]) EXCEPT !.len = @ - short]
                 sig == [s.sig EXCEPT !.len = @ - cut]
                 key == DeriveSubkey(born[h], SIGN_CTX)
                 by  == DeriveSubkey(s.by, SIGN_CTX)
      <3>1. DevicePublicKey(vault[h]) = [len |-> 32, of |-> key]
        BY <1>1, <2>4, LiveKeys DEF DevicePublicKey
      <3>2. pk.len = 32 - short /\ pk.of = key
        BY <3>1
      <3>3. sig.len = 64 - cut /\ sig.of = by /\ sig.over = Frame(ATTEST_DOMAIN, s.msg)
        BY <2>2
      <3>4. by = key <=> born[h] = s.by
        BY DEF DeriveSubkey
      <3>5. Frame(ATTEST_DOMAIN, s.msg) = Frame(ATTEST_DOMAIN, m) <=> m = s.msg
        BY <2>3, FrameInjective
      <3> HIDE DEF pk, sig, key, by
      <3>6. CoreVerify(pk, m, sig).res = "Ok" <=> born[h] = s.by /\ m = s.msg
        BY <3>2, <3>3, <3>4, <3>5 DEF CoreVerify, DomainSeparated, Ok, Err
      <3>7. VerifySignature(pk, m, sig).res = "Ok"
              <=> cut = 0 /\ short = 0 /\ CoreVerify(pk, m, sig).res = "Ok"
        BY <3>2, <3>3 DEF VerifySignature, Err
      <3> QED BY <3>6, <3>7 DEF pk, sig
    <2>5. ASSUME NEW d \in Domains \ {ATTEST_DOMAIN}
          PROVE  s.sig.over # Frame(d, m)
      <3>1. d \in Seq(Octet) /\ Len(d) < BASE /\ d # ATTEST_DOMAIN
        BY LengthAssumption
      <3>2. s.sig.over = Frame(ATTEST_DOMAIN, s.msg)
        BY <2>2
      <3> QED BY <2>3, <3>1, <3>2, FrameInjective
    <2> QED BY <2>4, <2>5
  <1>2. IndInv => SignaturesBound
    BY <1>1 DEF SignaturesBound
  <1> QED BY <1>2, Invariance, PTL

\* No key has two purposes, in any vaults of any secrets (Vault::open,
\* derive_subkey).
THEOREM OnePurpose == Spec => []KeysOnePurpose
  <1>1. ASSUME IndInv PROVE KeysOnePurpose
    <2>1. \A k \in DataKeys : bind[k] # NoBind => bind[k].wk.info = WRAP_CTX
      <3> SUFFICES ASSUME NEW k \in DataKeys, bind[k] # NoBind PROVE bind[k].wk.info = WRAP_CTX
        OBVIOUS
      <3>1. bind[k] \in [wk : {DeriveSubkey(t, WRAP_CTX) : t \in Secret}, aad : Seq(Octet)]
        BY <1>1 DEF IndInv, TypeOK
      <3>2. PICK t \in Secret : bind[k].wk = DeriveSubkey(t, WRAP_CTX)
        BY <3>1
      <3> QED BY <3>2 DEF DeriveSubkey
    <2>2. \A f \in fields : f.env.ciphertext.key.info = METADATA_CTX
      <3> SUFFICES ASSUME NEW f \in fields PROVE f.env.ciphertext.key.info = METADATA_CTX
        OBVIOUS
      <3>1. f.env.ciphertext.key = DeriveSubkey(f.by, METADATA_CTX)
        <4>1. f.env.ciphertext =
                Gcm(DeriveSubkey(f.by, METADATA_CTX), f.env.iv, FieldAad(f.record, f.field), f.msg)
          BY <1>1 DEF IndInv, FieldsSealed
        <4> QED BY <4>1 DEF Gcm
      <3> QED BY <3>1 DEF DeriveSubkey
    <2>3. \A s \in sigs : s.sig.of.info = SIGN_CTX
      <3> SUFFICES ASSUME NEW s \in sigs PROVE s.sig.of.info = SIGN_CTX
        OBVIOUS
      <3>1. s.sig.of = DeriveSubkey(s.by, SIGN_CTX)
        <4>1. s.sig = Sign(DeriveSubkey(s.by, SIGN_CTX), s.msg)
          BY <1>1 DEF IndInv, SigsMade
        <4> QED BY <4>1 DEF Sign
      <3> QED BY <3>1 DEF DeriveSubkey
    <2>4. WRAP_CTX # METADATA_CTX /\ WRAP_CTX # SIGN_CTX /\ METADATA_CTX # SIGN_CTX
      BY DEF WRAP_CTX, METADATA_CTX, SIGN_CTX
    <2> QED BY <2>1, <2>2, <2>3, <2>4 DEF KeysOnePurpose
  <1> QED BY <1>1, Invariance, PTL

\* A written phrase, and no other, opens the vault of its secret, after any
\* number of reinstallations (secret_to_phrase, from_recovery_phrase).
THEOREM RecoveryIsExact == Spec => []RecoveryRestores
  <1>1. ASSUME IndInv, NEW w \in written, NEW h \in Handles, Live(h), born[h] = w.secret,
               NEW p \in Phrases \cup {x.phrase : x \in written}
        PROVE  FromRecoveryPhrase(p) = Ok(vault[h]) <=> p = w.phrase
    <2>1. p \in [entropy : Seq(Octet), valid : BOOLEAN]
      BY <1>1, PhraseShape DEF IndInv
    <2>2. PICK t \in Secret : w = [secret |-> t, phrase |-> Mnemonic(t, TRUE)]
      BY <1>1 DEF IndInv, TypeOK
    <2>3. w.secret \in Secret /\ w.phrase = [entropy |-> w.secret, valid |-> TRUE]
      BY <2>2 DEF Mnemonic
    <2>4. Len(w.secret) = SECRET_LEN
      BY <2>3, Fixed, LengthAssumption DEF Secret
    <2>5. vault[h] = CoreOpen(w.secret)
      BY <1>1 DEF IndInv, VaultsDerived
    <2>6. ASSUME p = w.phrase PROVE FromRecoveryPhrase(p) = Ok(vault[h])
      <3>1. p.entropy = w.secret /\ p.valid
        BY <2>3, <2>6
      <3>2. PhraseToSecret(p) = Ok(w.secret)
        BY <2>4, <3>1 DEF PhraseToSecret
      <3> QED BY <2>5, <3>2 DEF FromRecoveryPhrase, Ok
    <2>7. ASSUME FromRecoveryPhrase(p) = Ok(vault[h]) PROVE p = w.phrase
      <3>1. FromRecoveryPhrase(p).res = "Ok" /\ FromRecoveryPhrase(p).out = CoreOpen(w.secret)
        BY <2>5, <2>7 DEF Ok
      <3>2. p.valid /\ CoreOpen(p.entropy) = CoreOpen(w.secret)
        BY <2>1, <3>1, Accepted
      <3>3. p.entropy = w.secret
        BY <3>2 DEF CoreOpen, DeriveSubkey
      <3> QED BY <2>1, <2>3, <3>2, <3>3
    <2> QED BY <2>6, <2>7
  <1>2. IndInv => RecoveryRestores
    BY <1>1 DEF RecoveryRestores
  <1> QED BY <1>2, Invariance, PTL
=============================================================================

------------------------------ MODULE MCVault ------------------------------
(* Small instances of Vault.  Bytes have four values, names and domains are *)
(* chosen so that unprefixed concatenations of different ones are equal.    *)
EXTENDS Vault

CONSTANTS a, b

MCBlobDomain   == <<1>>
MCFieldDomain  == <<2>>
MCAttestDomain == <<1>>
OtherDomains   == {<<1, 1>>, <<2>>, <<>>}
MCMessages     == {<<>>, <<0>>, <<1, 0>>}

\* Two master secrets, and byte strings that are too short and too long.
s1 == <<1, 0>>
s2 == <<1, 1>>
MCSecrets == {s1, s2, <<1>>, <<1, 0, 0>>}
GoodSecrets == {s1, s2}

\* Phrases of fewer and of more words, and one with a wrong checksum.
MCPhrases == {Mnemonic(<<1>>, TRUE), Mnemonic(<<1, 0, 0>>, TRUE), Mnemonic(s1, FALSE)}
NoPhrases == {}

MCWrapKeys == {DeriveSubkey(s, WRAP_CTX) : s \in Secret}

OneIV  == {<<0>>}
TwoIVs == {<<0>>, <<1>>}

TooLong   == [i \in 1 .. BASE * BASE * BASE * BASE |-> 1]
MCNames   == {<<>>, <<0>>, <<1>>, <<1, 0>>, <<1, 1>>, TooLong}
OneName   == {<<1>>}
TwoIds    == {<<>>, <<1>>, <<1, 1>>}
MCPrefixes == {<<0>>, <<1>>}
OnePrefix  == {<<0>>}
NoPrefixes == {}

ShortTexts == {<<>>, <<a>>}
OneText    == {<<a>>}

\* Data keys are interchangeable.
KeySymmetry == Permutations(DataKeys)
=============================================================================

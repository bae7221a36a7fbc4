# A TLA+ model of filum-crypto

filum-crypto is the cryptographic core of Filum, a document vault: a Rust crate that derives
keys from a master secret, encrypts metadata fields and blobs, signs backend
challenges and converts the secret to a recovery phrase, exported to Swift
through UniFFI. Three things in it are hard. The blob file codec streams files
of any size through a chunked authenticated format, over a file system that other
calls use at the same time and that can fail or crash at every step, and makes an
atomicity promise to its callers. The vault's promises (what opens where, what
survives the loss of a device) rest on byte layouts, contexts and length checks
spread over six files. And the release workflow changes three remote things one
after the other. `BlobFile`, `Vault` and `Release` model these three.

Source paths are relative to `crates/filum-crypto/src/` unless they say more.

## Inventory

| Component | Source | State it keeps | Operations | What makes it correct |
|---|---|---|---|---|
| In-memory blob codec | `blob.rs` 34-258 | none | `encrypt_chunked`, `decrypt_chunked`, `wrap_data_key`, `unwrap_data_key`, `write_header` | accepts only a complete blob for the given key and identifier; same bytes as the file codec |
| Blob file codec | `blob.rs` 260-480 | open files, read buffer, held-back chunk, STREAM position, write buffer, armed clean-up; the file system | `encrypt_file_chunked`, `decrypt_file_chunked`, `read_full`, `sibling_temp_path`, `TempCleanup::drop` | the output of a decryption is whole and authentic or untouched, under concurrency, failure and crashes; every call returns |
| Associated data | `aad.rs` | none | `blob_segment_aad`, `blob_wrap_aad`, `field_aad` | different inputs never give the same bytes |
| Metadata fields | `metadata.rs` | none | `encrypt_field`, `decrypt_field` | a field opens only for the record and field it was sealed for |
| Key derivation | `kdf.rs` | none | `derive_subkey` | one key per purpose |
| Recovery phrase | `recovery.rs` | none | `generate_master_secret`, `secret_to_phrase`, `phrase_to_secret` | a partial inverse pair; refused phrases change nothing |
| Authentication | `auth.rs` | none | `sign_challenge`, `verify_signature` | a signature is for one domain and one challenge |
| Vault | `vault.rs`, `lib.rs` | derived keys, immutable after `open` | `open`, `from_recovery_phrase`, delegating methods | same secret, same keys; everything it seals it can open |
| Errors | `error.rs` | none | the variants of `FilumCryptoError` | each failure reports the right cause |
| UniFFI layer | `crates/filum-crypto-uniffi/src/` | reference-counted vaults | exported functions, length checks, error mapping | wrong lengths and errors are reported, never truncated |
| Swift bindings | `Sources/FilumCrypto/` (generated) | object handles, buffers | calls through the C ABI | a handle is freed once, after its last use |
| Release pipeline | `.github/workflows/release.yml`, `Package.swift` | main, tags, releases, the pinned checksum | check, build, pin, push, publish | the tag points at a manifest that matches the artifact |
| Build scripts, CI | `scripts/`, `ci.yml` | none beyond a run | build, test, package | |
| Fixtures generator | `tests/generate_fixtures.rs` | none | writes test vectors | |

How they interact: the vault derives its keys once and passes them, by reference,
to metadata, blob and authentication functions; metadata and blob functions build
their associated data first and fail with `InvalidContext` before they touch
randomness, keys or files.
The UniFFI layer forwards to the vault from whatever thread Swift calls it on, and
the vault has no lock: calls run concurrently and meet only in the file system.
The two blob codecs share the header and the associated data and implement the
framing twice.

What is hard, and hardly reached by a unit test, is listed at its line under
`hazards` in `PROJECT.json`: a reader whose input is rewritten in place, two
writers of one file, temporary files that meet, a crash between write, sync and
rename, failures of the clean-up itself, short reads, inputs that end on a chunk
boundary, the 32-bit STREAM counter, inputs that grow while they are read;
concatenations of names that collide, byte vectors of the wrong length, phrases
of another length, one key with two purposes; a release run that fails between
its pushes or works on a checkout that main has left behind.

## Modules

| Module | Models |
|---|---|
| `Aad` | the byte strings of `aad.rs` and the framing of signed messages in `auth.rs`, byte by byte |
| `AadProofs` | that different inputs give different byte strings |
| `BlobCodec` | the blob format and the in-memory codec, as operators; the ideal AEAD as two ghost variables |
| `BlobFile` | the file codec: concurrent calls, the file system, failures, crashes; its properties |
| `AtomicOutput` | what `decrypt_file_chunked` promises: an abstract specification |
| `MCBlobFile` | values of the constants for the runs |
| `BlobFileProofs` | the inductive invariant of `BlobFile` and the theorems about its outputs |
| `BlobFileRefinement` | the proof that `BlobFile` implements `AtomicOutput` |
| `BlobCodecProofs` | what the operators of `BlobCodec` compute, for inputs of every length |
| `BlobFileEndToEnd` | the proofs that follow the data of `BlobFile` from source to blob to output |
| `Vault` | any sequence of calls through the foreign-function interface on any vaults: `vault.rs`, `kdf.rs`, `recovery.rs`, `metadata.rs`, `auth.rs` and the UniFFI layer |
| `MCVault` | values of the constants for its runs |
| `VaultProofs` | the inductive invariant of `Vault` and the theorems about fields, signatures and keys |
| `VaultBlobs` | the theorem about its blobs and files |
| `Release` | `release.yml` against main, tags and releases |
| `MCRelease` | the symmetry of its run |
| `ReleaseProofs` | the inductive invariant of `Release` and the theorems |

`BlobCodec` extends `Aad`. `BlobFile` and `Vault` extend `BlobCodec`: the first
takes the file operations apart into system calls and lets them overlap, the
second has each as one step, among everything else an application calls. `BlobFile` instantiates `AtomicOutput` under a refinement
mapping. Operators whose comment begins with "Mutant" are plausible bugs; nothing
in the specification uses them. Substituting one for the operator it varies makes the property named in `PROJECT.json` fail.

### Aad

An identifier is the sequence of its UTF-8 bytes, a byte a number below `BASE`
(256). `Prefixed` puts the four digits of the length in front; `Usable` is what
the functions accept (not empty, length below `BASE^4`); the domains are
constants of which the proofs need only that the blob and field domains differ
before either ends. `Frame` is `domain_separated` for any domain, so that it can
be asked whether another flow's domain could collide.

### BlobCodec

A byte string is a sequence of cells. A cell is a whole header field, one byte of
a sealed segment, or one plaintext byte; so the header is four cells
(`WriteHeader`), and a segment is as long as its message plus `TAG_LEN`, which is
what the arithmetic on lengths in both codecs depends on. A byte of a segment
names the data key, the STREAM counter and its offset in the segment, so a
segment that was cut, shifted, swapped or altered differs from the original.

AES-256-GCM is ideal. `seals[k]` are the segments sealed under data key `k`, in
the order of the counter, each with its nonce prefix, terminal flag, associated
data and message; `bind[k]` is the key wrap. `Opens` accepts bytes only if they
are exactly a recorded segment with the same prefix, position, flag and
associated data; `Unwraps` likewise. Data keys are random, so an encryption draws
one that nobody has. `upto` is history: the plaintext up to a segment, which lets
properties talk about the whole plaintext without recursion.

`EncryptChunked` and `DecryptChunked` are the in-memory codec, with its early
returns: the identifier first, then length, version, chunk size, unwrap,
segments. `ChunkedSeals` has the terminal segment cover the remainder, empty at
an exact multiple. The decoder cuts the body every `CHUNK_SIZE + TAG_LEN` bytes
(`Pieces`) and opens the last piece as the terminal segment (`OpensBody`).

### BlobFile

Each member of `Calls` is one call of either operation. Its locals are functions
of the call: control point `pc`, arguments, result; `fin`, `pos`, `buf`,
`pending` on the reading side; `dk`, `prefix`, `ctr` for the stream; `fout`,
`woff`, `wbuf`, `due`, `armed` on the writing side. The file system is `dir` (path
to inode), `data` (inode to content) and `synced` (how much of it is on disk).

| Control point | Steps | Code |
|---|---|---|
| `idle` | `StartRejected`, `StartDecrypt`, `StartEncrypt`, `StartNoRandomness` | 284-302, 397-399 |
| `open` | `OpenInput`, `UnusableInput`, `EarlyIoError` | 304, 401 |
| `create` | `CreateOutput`, `EarlyIoError` | 306-311 |
| `header` | `Read`, `ParseHeader`, `RejectHeader`, `UnusableInput`, `EarlyIoError` | 403-427 |
| `temp` | `CreateTemp`, `NoTempPath`, `CreateTempFails` | 435-441 |
| `read` | `Read`, `ReadFull`, `IoError` | 262-274, 321, 446 |
| `pend` | `EncryptNext`, `DecryptNext`, `SegmentError` | 322-331, 447-456 |
| `tail` | `EncryptLast`, `DecryptLast`, `HoldChunk`, `SegmentError` | 332-344, 457-469 |
| `flush`, `finish` | `Flush`, `Finish` | 345-346, 470 |
| `sync`, `rename` | `SyncAll`, `Rename` | 473-478 |
| `drop` | `Drop` | unwinding, 357-363 |

- **Reading.** One `read()` returns any positive number of the bytes there are;
  `read_full` ends when the buffer is full or `read()` returns 0. The file is
  looked at when it is read, so it can shrink or grow in between.
- **Writing.** `write_all` puts bytes in the BufWriter and says how many are
  `due`; `Push` is one `write()` of some of them, at the call's own offset, into
  whatever inode the call has open, with a hole if the file was truncated
  meanwhile. The call goes on when nothing is due. A full chunk is larger than
  the BufWriter and goes through; a remainder may stay in it.
- **Creating.** `File::create` truncates the inode the path names, or makes one.
  An encryption does that to its output in place; a decryption to a sibling path
  whose random suffix is the name of the call, that is, never the same twice.
- **Failing.** Every system call and the random source can fail. A call that has
  a file open leaves through `drop`: the BufWriter writes any beginning of what it
  holds, then the armed `TempCleanup` tries to remove the temporary file.
- **Crashing.** A crash kills every running call. An inode with unsynced data
  keeps any beginning not shorter than what was synced, and the rest is gone or
  reads as zero. Directory operations are durable at once; the code does not sync
  the directory, and with a lost rename the output is the earlier file, which the
  promise allows.

Simplifications: a path used as an output of encryptions is not an output of
decryptions (`RequestAssumption`), since an encryption promises nothing about its
output and truncates it in place; retries of interrupted reads are stutters;
BufReader's read-ahead behind the header is a `read()` before the temporary file
is created, a step no other call sees; zeroising memory is not modelled.

### Vault

A step is one call. Vault methods take `&self` and share nothing but the random
source and the files, so interleavings of calls that touch no file in common are
sequences of calls. Calls on files do not overlap in this module. For a decryption
that loses nothing: overlapped or not it publishes in one step (`AtomicOutput`).
An encryption truncates its output and writes in place, so `EncryptFileToBlob` is
its whole effect when nobody else writes its files (`FramingAgrees`); the mixtures
that overlapping encryptions leave, and the bytes a crash of the machine takes
from a file that was not synced, are `BlobFile`'s subject.

A call that fails changes nothing and is no step, except an encryption that has
created its output (`EncryptFileFails`): it leaves any beginning of what it had
sealed. That can be the whole blob, and the call an error: `flush` (`blob.rs:345`)
fails and the `BufWriter`, when it is dropped, writes the rest; or the process
dies between the last write and the return. Decryptions and verifications of
everything that was ever made, under everything it could be offered with, are in
the properties.

| State | Code |
|---|---|
| `vault[h]` | `Vault { wrap_key, metadata_key, signing_key }`; a derived key is its secret and its context string |
| `born[h]` | history: the secret `vault[h]` was opened from |
| `held`, `written` | what the application stores and what the user wrote down |
| `fields`, `sigs` | history: everything sealed and signed so far, with the secret of the maker |
| `blobs` | history: every blob a call returned or left whole in a file, failed calls included, with the secret of the maker |
| `bind`, `seals` | the ideal AEAD of `BlobCodec` |
| `file` | contents of the application's files |

`Reinstall` loses the vaults and `held`. Ed25519 and GCM are ideal: a signature
or ciphertext is everything it binds. A BIP39 phrase is an entropy of any length
with a right or wrong checksum. `VecToSecretArray`, `TryFrom` and
`VerifySignature` are the length checks of the UniFFI layer; its error conversion
keeps the names, so an error is one string. An encryption of a file onto itself
is left to `BlobFile`.

### Release

A commit is the sequence of the trees of its history, a tree the three values
the workflow reads or writes. `Dispatch` queues a run with the commit main has
then, `Start` checks that commit out when no other run is in progress (the
concurrency group keeps one waiting run and replaces it), and the steps of the
job follow `Steps`. `Merge` moves main at any time. Every step can `Fail`, which
undoes nothing. A push of main is refused unless it fast-forwards, a push of a
tag if it exists. `Build` returns any checksum: builds are not reproducible, and
two may coincide, in which case `git commit` finds nothing to commit. The URL in
the notes of a release names its version, which relies on the `GITHUB_REF_NAME`
that the step sets for itself (`release.yml:142`) replacing the one of the runner,
as the workflow intends. The manual
repairs of `docs/VERSIONING.md` are not code and not modelled.

## Runs

| Run | Instance | Properties | States |
|---|---|---|---|
| `publish` | two decryptions of a blob with one full chunk and an empty terminal segment, to one output that exists or not; one crash | `OutputAuthentic`, `TempAccounted`, `OutputUntouched` | 16 490 |
| `inputs` | one decryption of each of about 450 damaged files, three identifiers, two keys, chunks of two | `OutputAuthentic`, `StreamingMatchesMemory`, `MemoryAuthentic` | 42 275 |
| `race` | two calls, encryption or decryption, on the same blob; one crash | `TypeOK`, `OutputAuthentic`, `RoundTrip`, `DecryptIsAtomic` | 220 322 |
| `writers` | three calls, up to two of them encryptions to one blob; calls and keys are symmetric | `OutputAuthentic`, `RoundTrip` | 884 472 |
| `returns` | two calls that read what the other, or they themselves, write; weak fairness | `CallReturns` | 303 297 |
| `chunks` | an encryption and a decryption, chunks of two, sources of 0 to 5 bytes, counter limit 1 | `FramingIdentical`, `BlobsDecode` | 343 100 |
| `fields` | two vaults of two secrets, one stored field, six names: empty, overlong, and four whose concatenations coincide; two IVs | `FieldsOpenExactly` | 18 576 |
| `identity` | two vaults, secrets and phrases of the right length, too short, too long, mistyped; two signatures, one field, one blob | `TypeOK`, `SignaturesBound`, `KeysOnePurpose`, `RecoveryRestores` | 79 200 |
| `blobs` | a vault reopened with two secrets, two data keys, two files, two usable identifiers and an empty one, counter limit 1 | `BlobsOpenExactly` | 31 764 |
| `release` | three versions, three artifacts, main of up to five commits; new versions and artifacts are symmetric | `PublishedConsistent`, `TagsOnMain`, `NothingLost` | 121 755 |
| `pin` | two versions; expected to fail | `MainPinPublished` | violated |

What they show:

- `OutputAuthentic`: at a decryption output there is the file from before, or the
  whole plaintext of one complete blob bound to the identifier and key of a call
  that succeeded. This is the sentence "a file exists at `output` iff it is
  complete, fully authenticated plaintext", for outputs the codec made.
- `OutputUntouched`: an output changes only in the step in which a decryption to
  it returns `Ok`.
- `TempAccounted`: a temporary file belongs to a call that has unwrapped its key
  and is running, was killed, or failed to remove it.
- `DecryptIsAtomic`: `BlobFile` implements `AtomicOutput`. The mapping shows the
  contents of the outputs, the arguments and status of the decryptions and the
  set of complete blobs, and hides everything else.
- `RoundTrip`: a decryption that publishes the blob of an encryption whose source
  was left alone publishes that source, whoever else wrote to the blob.
- `FramingIdentical`: the streaming encoder seals the segments the in-memory one
  seals (message, associated data, position and terminal flag of each) and frames
  them alike, and it runs out of counters exactly when that one does. The
  ciphertext is a function of these, the key and the prefix, so the bytes are the
  same. An encryption whose files another call wrote to, or that ran before a
  crash, is not compared.
- `StreamingMatchesMemory`: the streaming decoder publishes what the in-memory one
  returns and reports a bad blob only if that one does. A file whose content
  another call wrote is not compared, nor is an I/O error, which the in-memory
  decoder cannot have; a file shorter than a header is one of these (`Io` when
  streaming, `Aead` in memory).
- `MemoryAuthentic`, `BlobsDecode`: the in-memory decoder accepts exactly the
  complete blobs.
- `CallReturns`: a started call returns or dies in a crash.
- `FieldsOpenExactly`: an open vault opens a stored field exactly when a vault of
  the same secret made it for the same names, and returns what was sealed.
- `BlobsOpenExactly`: an open vault opens a blob or a file exactly when it is all
  of one blob sealed to the end under the same secret for the same identifier, and
  returns the whole plaintext. What a failed encryption left opens nowhere unless
  it is the whole blob, and then it opens like any other.
- `SignaturesBound`: a signature verifies exactly for its signer and message, and
  is never over the bytes another domain tag would sign.
- `KeysOnePurpose`: no key that wraps a data key seals fields or signs.
- `RecoveryRestores`: a written phrase, and no other phrase, opens the vault of
  its secret.
- `PublishedConsistent`, `TagsOnMain`, `NothingLost`: at the tag of a release
  everything names one version and one artifact; tags are on main; a run never
  removes what was merged, tagged or published.
- `MainPinPublished` is what `docs/VERSIONING.md` (51-52) says of main. It does
  not hold: main is pushed before the tag and the release, and a run that fails
  in between leaves main pinned to a release that does not exist until somebody
  repairs it by hand.

Bounds. Chunks of one or two bytes with a one-byte tag give every shape the length
arithmetic tells apart: empty, short, exactly full, full and a remainder. Three
calls are the smallest number with two writers and a reader; the argument why
more cannot matter is the proof, which has no bound. One crash suffices because
no call resumes after it; calls that start later find files as they are, and the
proofs allow any number of crashes.
In the runs of `Vault` bytes have four values, secrets two bytes, domains and
prefixes one; one stored field suffices for `fields`, since the property is about
each field by itself. `MaxKept`, `MaxFields`, `MaxSigs` and `MaxCommits` bound
what would grow without end; the theorems hold for every value of them.
`COUNTER_MAX` is 1 to 3, so that the counter runs out in `chunks`
(`2^32 - 1` in the code). Init of `inputs` enumerates damaged files, since a file
on disk can hold anything. Deadlock is checked everywhere: `Terminated` is a step
only when every call has ended.

Fairness. `FairSpec` assumes only that a started call that can go on by itself
does (weak fairness of `Advance(c)`): the thread is scheduled and system calls
return. Nothing is assumed about failures, other calls or starting a call.
`CallReturns` needs no bound on inputs that grow, because what can extend them is
another call, which ends, or the call itself, whose STREAM counter runs out.

## Proofs

### BlobFileProofs

It proves, for every value of the constants that satisfies the
named assumptions (positive chunk and tag lengths, distinct names, requests that
keep encryption outputs apart, an initial disk of byte strings that holds no wrap
of a data key still to be drawn, stored blobs made by the encoder) and so for any number of calls, files, keys and crashes:

- `TypeCorrectness`: `Spec => []TypeOK`
- `OutputAuthenticity`: `Spec => []OutputAuthentic`
- `TempsAccounted`: `Spec => []TempAccounted`
- `OutputsUntouched`: `Spec => OutputUntouched`

They follow from one inductive invariant, `IndInv` (theorem `Invariance`):

- `CallInv`: what each local is at each control point; in particular nothing is
  open or armed before a file is created and nothing is due outside the loop.
- `SealInv`: every stream accumulates its messages and ends with at most one
  terminal segment; live encryptors have different keys and open streams. Without
  it a second encryptor could extend a stream that a decryption has finished.
- `OwnInv`: an encryption writes encryption inodes only and a decryption its own;
  a decryption output names the file from before or a published one. Without it
  another call could write into a published file.
- `TempInv`: a temporary path names the inode of its decryption, with the
  clean-up armed.
- `DecInv`: file and buffer of a decryption together are the plaintext of the
  segments it has opened; past the loop the stream is complete; at `sync`
  everything buffered is due, at `rename` nothing is buffered and everything is
  synced. This is what makes `Rename` a publication.

The argument: one lemma per part shows that a step of a call preserves it, from
lemmas on what a step cannot touch (`OthersKeep`, `DataKeep`, `DirKeep`,
`PathKeep`, `DecInodeKeep`, `PublishedKeep`); `CrashInv` does crashes, where
`synced` earns its keep. `OutputsUntouched` also uses that a crash leaves a synced
inode alone.

### BlobFileRefinement

`Atomicity`: `Spec => DecryptIsAtomic`. Initial states map to initial states, and
under `IndInv` each step of a call, and each crash, maps to the step of
`AtomicOutput` it stands for: `Rename` to the publication, the steps that set a
result or kill a call to `Fail` and `Kill`, the terminal seal of an encryption to
a blob that may be published, everything else to a stutter. The one step that is
not obvious is `Rename`, and `DecInv` is what it needs.

### BlobCodecProofs

Lemmas about the in-memory codec. `ChunkedSealsAre`: what `encrypt_chunked` seals
is a complete stream that carries the plaintext, as long as the counter lasts.
`PiecesOf`: a body made of full segments and a last one falls apart, at every
`CHUNK_SIZE + TAG_LEN` bytes, into these segments. `DecoderExact`: what
`decrypt_chunked` accepts is all of one complete blob with the given key,
identifier and prefix, and it returns its plaintext. `FramedDecodes`: it accepts
each of them. `WrapBinds`: a key wrap determines wrapping key, identifier and
prefix. `MustDecode`, `DoesDecode`: the same, one piece at a time, as the
streaming decoder goes.

These are facts about sequences of every length and need induction. The provers
cannot instantiate an induction theorem that takes a predicate, so `Counting`
states induction for a set of numbers, from the well-foundedness of `<`, and each
use defines the set of the lengths for which its claim holds (`FlattenParts`,
`FlattenIs`, `FlattenPick`).

### BlobFileEndToEnd

`MemoryAuthenticity`, `BlobsReadable`, `StreamingAgrees`, `FramingAgrees` and
`RoundTrips` prove `MemoryAuthentic`, `BlobsDecode`, `StreamingMatchesMemory`,
`FramingIdentical` and `RoundTrip`. `IndInv` says what a decryption has opened and
nothing about the bytes it read or about where an encryption had its plaintext
from, so two more invariants are added, in layers:

- `KeysInv`: a wrapped data key has one encoder, whose segments are a `Stream`
  for the identifier and prefix of the wrap, at counters that are left (`StreamInv`,
  `KeyInv`); an inode nobody has written is synced and holds no wrap of a key that was
  drawn later (`QuietInv`); read buffer and held-back chunk have the lengths the
  loop relies on (`Shape`). Without `QuietInv` a fresh key could be one whose wrap
  is already in an input.
- `FlowInv`: for an input that nobody writes, held-back chunk and read buffer are
  the bytes of the file at the positions the counter implies (`ReadInv`), the
  segments sealed so far are those of `ChunkedSeals` on the whole source
  (`EncInv`), output and buffer together are `Framed` of them (`OutInv`), and the
  pieces opened so far are those the in-memory decoder would open (`OpenInv`).
  This is where short reads, the chunk held back because it may be the last, and
  the empty terminal segment are dealt with.

### AadProofs

`FieldAadInjective`, `BlobSegmentAadInjective`, `BlobWrapAadInjective`,
`BlobFieldAadDisjoint` and `FrameInjective`: for byte strings of any length, and
identifiers that are accepted, equal associated data (or signed bytes) come from
equal inputs, and blob and field data are never equal. The argument is a decoder:
`PrefixedDecode` shows that the first component of an encoding can be read back
from it, whatever follows, because four digits determine the length
(`ToBeBytesInjective`); each theorem reads both inputs back from the same bytes.

### VaultProofs

`TypeCorrectness`, `FieldsExact`, `SignaturesAreBound`, `OnePurpose` and
`RecoveryIsExact` prove the properties of `fields` and `identity` for any numbers
of vaults, names, secrets and messages of any length. The inductive invariant
adds to `TypeOK` that an open vault holds the keys of the secret it was opened
from (`VaultsDerived`), and what each stored field and signature was made of
(`FieldsSealed`, `SigsMade`); without the first nothing ties what a reopened vault
can open to what an earlier one sealed. The theorems of `AadProofs` do the rest.

### VaultBlobs

`BlobsExact` proves `BlobsOpenExactly`. The invariant `WholeInv` adds to that of
`VaultProofs` that a blob on record is all that was sealed under its key
(`BlobsInv`), and of every content, file, blob or plaintext, that it carries only
wraps of keys that were drawn, and if it is all that was sealed under such a key
then it is on record (`ContentsInv`). The second part is what rules out the
remains of a failed encryption that are one byte or more short of the blob, even
when the terminal segment was sealed (`RemainsInv`; a failed call that left the
whole blob is a case of `ReturnInv`), and has to be known of plaintexts too, since
a blob can be encrypted again and come back. Both directions then follow from `FramedDecodes`,
`DecoderExact` and `WrapBinds`. Two assumptions on the constants are needed: an
application brings plain bytes, in which no wrap made later occurs
(`TextAssumption`), and the sentinel for "not wrapped" is no wrap by a derived key
(`KeyAssumption` with `WrapAssumption`).

### ReleaseProofs

`PublishedIsConsistent`, `TagsAreOnMain` and `NothingIsLost`. The inductive
invariant says what a run has established at each of its steps (`JobInv`): after
the checks that its version is the one in the checkout, after the commit what the
manifest says, after the push of main that its commit stays a prefix of main, and
after the push of the tag that the tag is its commit.

### Only model-checked

`CallReturns`: it is a liveness property, and fairness and `ENABLED` are beyond the
prover. Every other property of a passing run is a theorem. `MainPinPublished`
is refuted by its run.

## Not modelled, and the plan

Not modelled:

- The Swift bindings: generated by uniffi-bindgen. The interface they call is
  `Vault`'s; marshalling and the reference count of a handle are the generator's.
- Zeroising secrets in memory: no property of this project can see memory after
  its owner is gone.
- The build scripts and CI, which keep no state between runs; the fixtures
  generator, which only calls the public API.
- The primitives and the file system themselves (AES-GCM, HKDF, Ed25519, BIP39,
  `std::fs`), which are modelled from how the code uses them.
- The manual recovery of a failed release.
- The loss of a rename in a crash: the promise of `decrypt_file_chunked` holds with
  either version of the output.

What is left of the plan: the safety part of `CallReturns` as theorems (what a
call that has not returned still has ahead of it: input, counter and buffer
bound its steps), from which TLC's liveness check could be argued for every
instance.

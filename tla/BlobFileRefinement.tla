------------------------- MODULE BlobFileRefinement -------------------------
(***************************************************************************)
(* BlobFile implements AtomicOutput: seen from outside, a decryption that  *)
(* reads, buffers, writes a temporary file, syncs, renames, fails, cleans  *)
(* up or dies replaces its output in one step or does nothing to it.       *)
(*                                                                         *)
(* Start of a decryption   Begin      Rename                      Publish  *)
(* return or unwind with   Fail       Crash                       Kill     *)
(*   an error                         anything else               Make     *)
(***************************************************************************)
EXTENDS BlobFileProofs

USE DEF ctlVars, readVars, strmVars, outVars, fsVars, histVars, cryptoVars

\* Complete blobs are for ever: no step seals after a terminal segment or
\* wraps a data key again.
LEMMA MadeGrows ==
    ASSUME TypeOK, TypeOK', StreamsGrow
    PROVE  Made \subseteq Made'
  <1> SUFFICES ASSUME NEW m \in Made PROVE m \in Made' OBVIOUS
  <1>1. PICK k \in DataKeys, cell \in PrefixCell :
          /\ Complete(seals[k]) /\ m.plain = Plain(seals[k])
          /\ bind[k] = Wrap(m.wk, m.id, cell)
    BY DEF Made
  <1>2. m \in [wk : WrapKeys, id : BlobIds, plain : {Plain(seals[j]) : j \in DataKeys}]
    BY DEF Made
  <1>3. bind[k] # NoBind
    BY <1>1, <1>2, WrapAssumption DEF WrapRecord
  <1>4. seals'[k] = seals[k] /\ bind'[k] = bind[k] BY <1>1, <1>3 DEF StreamsGrow
  <1>5. m \in [wk : WrapKeys, id : BlobIds, plain : {Plain(seals'[j]) : j \in DataKeys}]
    BY <1>1, <1>2, <1>4
  <1> QED BY <1>1, <1>4, <1>5 DEF Made

\* A step of a started decryption other than rename keeps its result, or ends
\* it with an error and touches nothing of the ideal cipher.
LEMMA DecryptStep ==
    ASSUME IndInv, NEW c \in Calls, Advance(c) \/ Fault(c), arg[c] \in Requests, Dec(c), ~Rename(c)
    PROVE  /\ arg'[c] = arg[c] /\ pc'[c] # "dead" /\ pc[c] # "dead"
           /\ \/ res'[c] = res[c]
              \/ /\ res[c] = "none" /\ res'[c] \notin {"none", "Ok"}
                 /\ UNCHANGED <<bind, seals>>
  <1>1. TypeOK /\ CallInv(c) /\ ~Enc(c) BY ArgTyped DEF IndInv
  <1> DEFINE Goal == /\ arg'[c] = arg[c] /\ pc'[c] # "dead" /\ pc[c] # "dead"
                     /\ \/ res'[c] = res[c]
                        \/ /\ res[c] = "none" /\ res'[c] \notin {"none", "Ok"}
                           /\ UNCHANGED <<bind, seals>>
  <1>2. UnusableInput(c) \/ RejectHeader(c) \/ EarlyIoError(c) \/ NoTempPath(c) => Goal
    BY <1>1 DEF TypeOK, CallInv, Early, Return, UnusableInput, RejectHeader, EarlyIoError, NoTempPath
  <1>3. SegmentError(c) => Goal BY <1>1 DEF TypeOK, CallInv, Early, Writing, Unwind, SegmentError
  <1>4. IoError(c) => Goal BY <1>1 DEF TypeOK, CallInv, Early, Writing, Unwind, IoError
  <1>5. CreateTempFails(c) => Goal BY <1>1 DEF TypeOK, CallInv, Early, CreateTempFails
  <1>6. OpenInput(c) \/ Read(c) \/ ReadFull(c) \/ ParseHeader(c) => Goal
    BY <1>1 DEF TypeOK, OpenInput, Read, ReadFull, ParseHeader
  <1>7. CreateTemp(c) \/ DecryptNext(c) \/ DecryptLast(c) \/ HoldChunk(c) => Goal
    BY <1>1 DEF TypeOK, CreateTemp, DecryptNext, DecryptLast, HoldChunk
  <1>8. Push(c) => Goal BY <1>1 DEF TypeOK, CallInv, Writing, Push
  <1>9. Flush(c) \/ SyncAll(c) \/ Drop(c) => Goal BY <1>1 DEF TypeOK, Flush, SyncAll, Drop
  <1>10. ~EncryptNext(c) /\ ~EncryptLast(c) /\ ~Finish(c) /\ ~CreateOutput(c)
    BY <1>1 DEF CallInv, EncryptNext, EncryptLast, Finish, CreateOutput
  <1> QED BY <1>2, <1>3, <1>4, <1>5, <1>6, <1>7, <1>8, <1>9, <1>10 DEF Advance, Fault

\* A step of one call leaves the status and request of the others.
LEMMA StatusOthers ==
    ASSUME TypeOK, NEW c \in Calls, Start(c) \/ Advance(c) \/ Fault(c), NEW e \in Calls, e # c
    PROVE  Status(e)' = Status(e) /\ arg'[e] = arg[e]
  <1>1. pc'[e] = pc[e] /\ arg'[e] = arg[e] /\ res'[e] = res[e] BY OthersKeep
  <1> QED BY <1>1 DEF Status, Enc

----------------------------------------------------------------------------
(* The mapped state                                                        *)

File   == [p \in DecOut |-> Content(p)]
Req    == [c \in Calls |-> IF Status(c) = "idle" THEN NoCall ELSE arg[c]]
Stat   == [c \in Calls |-> Status(c)]

\* A step of one call moves only that call.
LEMMA OneMoves ==
    ASSUME TypeOK, NEW c \in Calls, Start(c) \/ Advance(c) \/ Fault(c)
    PROVE  /\ Stat' = [Stat EXCEPT ![c] = Status(c)']
           /\ Req' = [Req EXCEPT ![c] = IF Status(c)' = "idle" THEN NoCall ELSE arg'[c]]
           /\ Stat[c] = Status(c) /\ Req[c] = IF Status(c) = "idle" THEN NoCall ELSE arg[c]
  <1>1. \A e \in Calls : e # c => Status(e)' = Status(e) /\ arg'[e] = arg[e] BY StatusOthers
  <1> QED BY <1>1 DEF Req, Stat

\* A step of one call other than its rename leaves every output.
LEMMA FileKeep ==
    ASSUME IndInv, NEW c \in Calls, Start(c) \/ Advance(c) \/ Fault(c), ~Rename(c)
    PROVE  File' = File
  <1>1. \A p \in DecOut : Content(p)' = Content(p) BY ContentKeep
  <1> QED BY <1>1 DEF File

\* Starting a decryption begins it, or fails it at once; an encryption only
\* draws a data key.
LEMMA BeginStep ==
    ASSUME IndInv, NEW c \in Calls, Start(c)
    PROVE  \/ Atomic!Begin(c, "running") \/ Atomic!Begin(c, "failed") \/ Atomic!Make
  <1>1. TypeOK /\ pc[c] = "idle" /\ arg[c] = NoCall /\ res[c] = "none" /\ Status(c) = "idle"
    BY Running DEF IndInv, CallInv, Early, Status
  <1>2. PICK r \in Requests : arg' = [arg EXCEPT ![c] = r]
    BY DEF Start, StartRejected, StartDecrypt, StartEncrypt, StartNoRandomness
  <1>3. arg'[c] = r /\ r # NoCall BY <1>1, <1>2, Names DEF TypeOK
  <1>4. File' = File
    BY <1>1, FileKeep DEF Rename
  <1>5. /\ Stat' = [Stat EXCEPT ![c] = Status(c)']
        /\ Req' = [Req EXCEPT ![c] = IF Status(c)' = "idle" THEN NoCall ELSE r]
        /\ Stat[c] = "idle" /\ Req[c] = NoCall
    BY <1>1, <1>3, OneMoves
  <1>6. CASE r.op = "encrypt"
    <2>1. Status(c)' = "idle" BY <1>3, <1>6 DEF Status, Enc
    <2>2. Req' = Req /\ Stat' = Stat BY <1>5, <2>1 DEF Req, Stat
    <2>3. Made \subseteq Made' BY <1>1, MadeGrows, SealStep, TypeStep DEF IndInv
    <2> QED BY <1>4, <2>2, <2>3 DEF Atomic!Make, File, Req, Stat
  <1>7. CASE r.op # "encrypt"
    <2>1. UNCHANGED <<bind, seals>> /\ ((pc'[c] = "open" /\ res'[c] = "none") \/ res'[c] = "InvalidContext")
      BY <1>1, <1>2, <1>3, <1>7
      DEF TypeOK, Return, Start, StartRejected, StartDecrypt, StartEncrypt, StartNoRandomness
    <2>2. Status(c)' \in {"running", "failed"} BY <1>3, <1>7, <2>1 DEF Status, Enc
    <2>3. Req' = [Req EXCEPT ![c] = r] BY <1>5, <2>2
    <2>4. Made' = Made BY <2>1 DEF Made
    <2>5. \E outcome \in {"running", "failed"} : Atomic!Begin(c, outcome)
      BY <1>4, <1>5, <2>2, <2>3, <2>4 DEF Atomic!Begin, File, Req, Stat
    <2> QED BY <2>5
  <1> QED BY <1>6, <1>7

\* The rename publishes the plaintext of a complete blob.
LEMMA PublishStep ==
    ASSUME IndInv, NEW c \in Calls, Rename(c)
    PROVE  Atomic!Publish(c)
  <1>1. TypeOK /\ CallInv(c) /\ Advance(c) BY DEF IndInv, Advance
  <1>2. /\ arg[c] \in Requests /\ Dec(c) /\ arg' = arg
        /\ dir'[arg[c].out] = c /\ Published(c, arg[c].out)'
    BY RenamePublishes DEF IndInv
  <1>3. pc[c] = "rename" /\ res[c] = "none" /\ res'[c] = "Ok" /\ UNCHANGED <<bind, seals, dk, prefix>>
    BY <1>1 DEF Rename, Return, TypeOK, CallInv, Writing
  <1>4. arg[c] # NoCall /\ ~Enc(c) /\ arg[c].out \in DecOut
    BY <1>2, ArgTyped, Names DEF DecOut
  <1>5. Status(c) = "running" /\ Status(c)' = "ok"
    BY <1>2, <1>3, <1>4 DEF Status, Enc
  <1>6. /\ Stat' = [Stat EXCEPT ![c] = "ok"] /\ Stat[c] = "running" /\ Req[c] = arg[c]
        /\ Req' = [Req EXCEPT ![c] = arg[c]]
    BY <1>1, <1>2, <1>5, OneMoves
  <1>7. Req' = Req BY <1>6 DEF Req
  <1>8. Made' = Made BY <1>3 DEF Made
  <1> DEFINE m == [wk |-> arg[c].wk, id |-> arg[c].id, plain |-> Plain(seals[dk[c]])]
  <1>9. m \in Made
    <2>1. /\ dk[c] \in DataKeys /\ prefix[c] \in PrefixCell /\ Complete(seals[dk[c]])
          /\ bind[dk[c]] = Wrap(arg[c].wk, arg[c].id, prefix[c])
      BY <1>2, <1>3 DEF Published, Unwrapped
    <2>2. m \in [wk : WrapKeys, id : BlobIds, plain : {Plain(seals[k]) : k \in DataKeys}]
      BY <1>2, <2>1, ArgTyped
    <2> QED BY <2>1, <2>2 DEF Made
  <1>10. File' = [File EXCEPT ![arg[c].out] = Plain(seals[dk[c]])]
    <2>1. \A p \in DecOut : p # arg[c].out => Content(p)' = Content(p)
      BY <1>1, ContentKeep
    <2>2. Content(arg[c].out)' = Plain(seals[dk[c]])
      <3>1. data'[c] = Plain(seals[dk[c]]) BY <1>2, <1>3 DEF Published
      <3>2. c # NoInode BY Names
      <3> QED BY <1>2, <3>1, <3>2 DEF Content
    <2> QED BY <1>2, <2>1, <2>2 DEF File
  <1>11. /\ m.wk = Req[c].wk /\ m.id = Req[c].id
         /\ File' = [File EXCEPT ![Req[c].out] = m.plain]
    BY <1>6, <1>10
  <1> HIDE DEF m
  <1> QED BY <1>6, <1>7, <1>8, <1>9, <1>11 DEF Atomic!Publish, File, Req, Stat

\* Every other step of a call fails it, or shows nothing but a new blob.
LEMMA CallStepMaps ==
    ASSUME IndInv, NEW c \in Calls, Advance(c) \/ Fault(c), ~Rename(c), ~Start(c)
    PROVE  Atomic!Fail(c) \/ Atomic!Make
  <1>1. TypeOK /\ CallInv(c) /\ arg[c] \in Requests /\ arg[c] # NoCall
    BY Running, Names DEF IndInv, CallInv
  <1>2. File' = File BY FileKeep
  <1>3. Made \subseteq Made' BY <1>1, MadeGrows, SealStep, TypeStep DEF IndInv
  <1>4. /\ Stat' = [Stat EXCEPT ![c] = Status(c)']
        /\ Req' = [Req EXCEPT ![c] = IF Status(c)' = "idle" THEN NoCall ELSE arg'[c]]
        /\ Stat[c] = Status(c) /\ Req[c] = IF Status(c) = "idle" THEN NoCall ELSE arg[c]
    BY <1>1, OneMoves
  <1>5. arg'[c] = arg[c] BY <1>1, ArgKeep DEF IndInv
  <1>6. CASE Status(c)' = Status(c)
    <2>1. Stat' = Stat /\ Req' = Req BY <1>4, <1>5, <1>6 DEF Req, Stat
    <2> QED BY <1>2, <1>3, <2>1 DEF Atomic!Make, File, Req, Stat
  <1>7. CASE Enc(c)
    <2>1. Status(c)' = "idle" /\ Status(c) = "idle" BY <1>1, <1>5, <1>7 DEF Status, Enc
    <2> QED BY <1>6, <2>1
  <1>8. CASE ~Enc(c)
    <2>1. /\ pc'[c] # "dead" /\ pc[c] # "dead"
          /\ \/ res'[c] = res[c]
             \/ /\ res[c] = "none" /\ res'[c] \notin {"none", "Ok"}
                /\ UNCHANGED <<bind, seals>>
      BY <1>1, <1>8, ArgTyped, DecryptStep
    <2>2. CASE res'[c] = res[c]
      <3>1. Status(c)' = Status(c) BY <1>5, <2>1, <2>2 DEF Status, Enc
      <3> QED BY <1>6, <3>1
    <2>3. CASE /\ res[c] = "none" /\ res'[c] \notin {"none", "Ok"} /\ UNCHANGED <<bind, seals>>
      <3>1. Status(c) = "running" /\ Status(c)' = "failed"
        BY <1>1, <1>5, <1>8, <2>1, <2>3 DEF Status, Enc
      <3>2. Made' = Made BY <2>3 DEF Made
      <3>3. Req' = Req BY <1>4, <1>5, <3>1 DEF Req
      <3> QED BY <1>2, <1>4, <3>1, <3>2, <3>3 DEF Atomic!Fail, File, Req, Stat
    <2> QED BY <2>1, <2>2, <2>3
  <1> QED BY <1>7, <1>8

\* A crash ends the decryptions that are running and shows nothing else.
LEMMA KillStep ==
    ASSUME IndInv, Crash
    PROVE  Atomic!Kill
  <1>1. /\ pc' = [c \in Calls |-> IF Active(c) THEN "dead" ELSE pc[c]]
        /\ UNCHANGED <<bind, seals, arg, res>>
    BY DEF Crash
  <1>2. ASSUME NEW c \in Calls
        PROVE  Status(c)' = IF Status(c) = "running" THEN "killed" ELSE Status(c)
    <2>1. CallInv(c) BY DEF IndInv
    <2>2. pc'[c] = IF Active(c) THEN "dead" ELSE pc[c] BY <1>1
    <2>3. Status(c) = "running" => Active(c)
      BY <2>1 DEF Status, Active, CallInv
    <2>4. Status(c) = "killed" => pc[c] = "dead" /\ ~Active(c) BY DEF Status, Active
    <2> QED BY <1>1, <2>2, <2>3, <2>4 DEF Status, Enc
  <1>3. Stat' = [c \in Calls |-> IF Stat[c] = "running" THEN "killed" ELSE Stat[c]]
    BY <1>2 DEF Stat
  <1>4. Req' = Req
    <2>1. \A c \in Calls : Status(c)' = "idle" <=> Status(c) = "idle" BY <1>2
    <2> QED BY <1>1, <2>1 DEF Req
  <1>5. File' = File BY CrashContentKeep DEF File
  <1>6. Made' = Made BY <1>1 DEF Made
  <1> QED BY <1>3, <1>4, <1>5, <1>6 DEF Atomic!Kill, File, Req, Stat

----------------------------------------------------------------------------
\* decrypt_file_chunked is "Atomic with respect to `output`": every behaviour
\* of the file codec, with its buffers, temporary files, failures and crashes,
\* is a behaviour of AtomicOutput.
THEOREM Atomicity == Spec => DecryptIsAtomic
  <1>1. Init => Atomic!Init
    <2> SUFFICES ASSUME Init PROVE Atomic!Init OBVIOUS
    <2>1. \A c \in Calls : Status(c) = "idle" BY DEF Init, Status
    <2> QED BY <2>1 DEF Atomic!Init
  <1>2. IndInv /\ [Next]_vars => [Atomic!Next]_(Atomic!vars)
    <2> SUFFICES ASSUME IndInv, [Next]_vars PROVE Atomic!Next \/ UNCHANGED Atomic!vars OBVIOUS
    <2>1. CASE \E c \in Calls : Start(c) \/ Advance(c) \/ Fault(c)
      <3>1. PICK c \in Calls : Start(c) \/ Advance(c) \/ Fault(c) BY <2>1
      <3>2. CASE Start(c) BY <3>2, BeginStep DEF Atomic!Next
      <3>3. CASE Rename(c) BY <3>3, PublishStep DEF Atomic!Next
      <3>4. CASE ~Start(c) /\ ~Rename(c) BY <3>1, <3>4, CallStepMaps DEF Atomic!Next
      <3> QED BY <3>2, <3>3, <3>4
    <2>2. CASE Crash BY <2>2, KillStep DEF Atomic!Next
    <2>3. CASE UNCHANGED vars
      BY <2>3 DEF vars, Atomic!vars, Content, Status, Enc, Made
    <2> QED BY <2>1, <2>2, <2>3 DEF Next, Terminated
  <1> QED BY <1>1, <1>2, Invariance, PTL DEF Spec, DecryptIsAtomic, Atomic!Spec
=============================================================================

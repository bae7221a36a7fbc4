---------------------------- MODULE AtomicOutput ----------------------------
(***************************************************************************)
(* What decrypt_file_chunked promises of its output ("Atomic with respect  *)
(* to `output`"), with no temporary file, buffer, segment or sync in sight: *)
(* a call either replaces the file at its output, in one step, by the      *)
(* plaintext of a complete blob made for its key and identifier, or leaves *)
(* every output as it was.                                                 *)
(***************************************************************************)
CONSTANTS
    Calls,     \* decryption calls
    Requests,  \* their possible arguments, records with out, id and wk
    NoCall     \* the arguments of a call that has not started

VARIABLES
    file,      \* contents of the outputs
    req,       \* arguments of each call
    status,    \* "idle", "running", "ok", "failed" or "killed"
    made       \* complete blobs: key, identifier and plaintext

vars == <<file, req, status, made>>

Init ==
    /\ req = [c \in Calls |-> NoCall]
    /\ status = [c \in Calls |-> "idle"]

Begin(c, outcome) ==
    /\ status[c] = "idle"
    /\ \E r \in Requests : req' = [req EXCEPT ![c] = r]
    /\ status' = [status EXCEPT ![c] = outcome]
    /\ UNCHANGED <<file, made>>

Publish(c) ==
    /\ status[c] = "running"
    /\ status' = [status EXCEPT ![c] = "ok"]
    /\ \E m \in made :
         /\ m.wk = req[c].wk /\ m.id = req[c].id
         /\ file' = [file EXCEPT ![req[c].out] = m.plain]
    /\ UNCHANGED <<req, made>>

Fail(c) ==
    /\ status[c] = "running"
    /\ status' = [status EXCEPT ![c] = "failed"]
    /\ UNCHANGED <<file, req, made>>

\* A crash ends every running call.
Kill ==
    /\ status' = [c \in Calls |-> IF status[c] = "running" THEN "killed" ELSE status[c]]
    /\ UNCHANGED <<file, req, made>>

\* Someone completes a blob; complete blobs are for ever.
Make ==
    /\ made \subseteq made'
    /\ UNCHANGED <<file, req, status>>

Next ==
    \/ \E c \in Calls :
         \/ Begin(c, "running") \/ Begin(c, "failed")
         \/ Publish(c) \/ Fail(c)
    \/ Kill
    \/ Make

Spec == Init /\ [][Next]_vars
=============================================================================

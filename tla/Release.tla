------------------------------ MODULE Release ------------------------------
(***************************************************************************)
(* The release workflow (.github/workflows/release.yml) against the remote *)
(* repository: main, the tags and the published releases.  Runs are queued *)
(* by the concurrency group, work on a checkout of the commit they were    *)
(* dispatched at, can fail or time out at every step, and are not undone;  *)
(* pull requests are merged meanwhile.                                     *)
(*                                                                         *)
(* A commit is the sequence of the trees of its history.  A tree is what   *)
(* the workflow reads and writes: the workspace version of Cargo.toml and  *)
(* the URL and checksum of the binaryTarget in Package.swift.              *)
(***************************************************************************)
EXTENDS Naturals, SequencesExt

CONSTANTS
    Versions,    \* versions a maintainer may enter or put into Cargo.toml
    First,       \* the version published before the first run
    Checksums,   \* checksums of artifacts; builds are not reproducible
    FirstSum,    \* the checksum of the artifact of First
    Idle, None,  \* "no run", "no tag, no release, nothing yet"
    MaxCommits   \* bound on the length of main

VARIABLES
    main,      \* refs/heads/main of origin
    tags,      \* refs/tags/v* of origin, by version
    releases,  \* published releases, by version
    pending,   \* the run that waits in the concurrency group
    job        \* the run in progress

vars == <<main, tags, releases, pending, job>>

ASSUME FirstAssumption == First \in Versions /\ FirstSum \in Checksums

Tree == [version : Versions, url : Versions, sum : Checksums]

ASSUME NoneAssumption == None \notin Seq(Tree)

\* Mutant: the tag is pushed before main.
StepsTagFirst == <<"verify", "build", "commit", "push tag", "push main", "release">>

\* The steps of the job that act on something; job.at indexes them.
Steps == <<"verify", "build", "commit", "push main", "push tag", "release">>

At(step) == job # Idle /\ Steps[job.at] = step

\* The job goes on to its next step with these changes.
Goes(j) == job' = [j EXCEPT !.at = @ + 1]

Init ==
    LET tree == [version |-> First, url |-> First, sum |-> FirstSum]
    IN  /\ main = <<tree>>
        /\ tags = [v \in Versions |-> IF v = First THEN main ELSE None]
        /\ releases = [v \in Versions |->
              IF v = First THEN [artifact |-> FirstSum, url |-> First, sum |-> FirstSum] ELSE None]
        /\ pending = None /\ job = Idle

\* A pull request is merged: it may bump the version, and "never touches
\* Package.swift's URL or checksum".
Merge ==
    /\ Len(main) < MaxCommits
    /\ \E v \in Versions : main' = Append(main, [Last(main) EXCEPT !.version = v])
    /\ UNCHANGED <<tags, releases, pending, job>>

\* workflow_dispatch: the run waits, and replaces one that was waiting.
Dispatch ==
    /\ \E v \in Versions, ref \in {"main", "other"} :
         pending' = [version |-> v, ref |-> ref, head |-> main]
    /\ UNCHANGED <<main, tags, releases, job>>

\* actions/checkout fetches the commit of the dispatch.
Start ==
    /\ job = Idle /\ pending # None
    /\ job' = [at |-> 1, version |-> pending.version, ref |-> pending.ref,
               head |-> pending.head, sum |-> None]
    /\ pending' = None
    /\ UNCHANGED <<main, tags, releases>>

\* Mutant: the version entered is not compared with Cargo.toml.
VerifyAnyVersion ==
    /\ At("verify")
    /\ job.ref = "main" /\ tags[job.version] = None
    /\ Goes(job)
    /\ UNCHANGED <<main, tags, releases, pending>>

\* The three checks; a job that fails one can only Fail.
Verify ==
    /\ At("verify")
    /\ job.ref = "main"
    /\ Last(job.head).version = job.version
    /\ tags[job.version] = None
    /\ Goes(job)
    /\ UNCHANGED <<main, tags, releases, pending>>

\* Build XCFramework, Compute checksums.
Build ==
    /\ At("build")
    /\ \E s \in Checksums : Goes([job EXCEPT !.sum = s])
    /\ UNCHANGED <<main, tags, releases, pending>>

\* Pin Package.swift, commit and tag in the checkout; git commit fails when
\* nothing changed.
Commit ==
    LET pinned == [version |-> Last(job.head).version, url |-> job.version, sum |-> job.sum]
    IN  /\ At("commit")
        /\ pinned # Last(job.head) /\ Len(job.head) < MaxCommits
        /\ Goes([job EXCEPT !.head = Append(@, pinned)])
        /\ UNCHANGED <<main, tags, releases, pending>>

\* Mutant: git push --force origin HEAD:main.
PushMainForce ==
    /\ At("push main")
    /\ main' = job.head
    /\ Goes(job)
    /\ UNCHANGED <<tags, releases, pending>>

\* git push origin HEAD:main is refused unless it fast-forwards.
PushMain ==
    /\ At("push main")
    /\ IsPrefix(main, job.head)
    /\ main' = job.head
    /\ Goes(job)
    /\ UNCHANGED <<tags, releases, pending>>

\* git push origin "v$version" is refused when the tag exists.
PushTag ==
    /\ At("push tag")
    /\ tags[job.version] = None
    /\ tags' = [tags EXCEPT ![job.version] = job.head]
    /\ Goes(job)
    /\ UNCHANGED <<main, releases, pending>>

\* gh release create, with the artifact built in this run and the snippet of
\* release-notes.sh.
CreateRelease ==
    /\ At("release")
    /\ releases[job.version] = None
    /\ releases' = [releases EXCEPT ![job.version] =
                       [artifact |-> job.sum, url |-> job.version, sum |-> job.sum]]
    /\ job' = Idle
    /\ UNCHANGED <<main, tags, pending>>

\* A check or a command fails, the run is cancelled or times out.
Fail ==
    /\ job # Idle
    /\ job' = Idle
    /\ UNCHANGED <<main, tags, releases, pending>>

Next ==
    \/ Merge \/ Dispatch \/ Start \/ Verify \/ Build \/ Commit
    \/ PushMain \/ PushTag \/ CreateRelease \/ Fail

Spec == Init /\ [][Next]_vars

----------------------------------------------------------------------------
(* Properties                                                              *)

Released == {v \in Versions : releases[v] # None}

\* "the tag always points at a commit whose Package.swift matches the
\* published artifact" (docs/VERSIONING.md): at the tag of every release, the
\* manifest and Cargo.toml name this version, and the manifest and the release
\* notes carry the checksum of the artifact that was uploaded, although builds
\* differ and failed runs of the same version came before.
PublishedConsistent ==
    \A v \in Released :
        /\ tags[v] # None
        /\ Last(tags[v]) = [version |-> v, url |-> v, sum |-> releases[v].artifact]
        /\ releases[v].url = v /\ releases[v].sum = releases[v].artifact

\* "Push the commit and tag together" (release.yml), in two commands: however
\* far a run gets and whatever was merged meanwhile, every tag is a commit of
\* main.
TagsOnMain == \A v \in Versions : tags[v] # None => IsPrefix(tags[v], main)

\* The run pushes a checkout made at its dispatch: it never removes from main
\* what was merged while it waited or was building, and never moves a tag or
\* replaces a release.
NothingLost ==
    [][ /\ IsPrefix(main, main')
        /\ \A v \in Versions : /\ tags[v] # None => tags'[v] = tags[v]
                               /\ releases[v] # None => releases'[v] = releases[v] ]_vars

\* "Package.swift's .binaryTarget URL on main points at the latest published
\* release" (docs/VERSIONING.md), whenever no run is in progress.
MainPinPublished ==
    job = Idle => /\ Last(main).url \in Released
                  /\ releases[Last(main).url].artifact = Last(main).sum
=============================================================================

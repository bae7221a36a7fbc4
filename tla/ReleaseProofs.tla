--------------------------- MODULE ReleaseProofs ---------------------------
(* The invariant of Release and the theorems that follow from it, for any   *)
(* versions, artifacts, merges, runs and failures.                          *)
EXTENDS Release, SequenceTheorems, TLAPS

Commits == Seq(Tree) \ {<<>>}

JobRecord ==
    [at : 1 .. 6, version : Versions, ref : {"main", "other"}, head : Commits,
     sum : Checksums \cup {None}]

\* What a run has established when it is at step at.
JobInv ==
    job # Idle =>
        /\ job \in JobRecord
        /\ job.at >= 2 => Last(job.head).version = job.version
        /\ job.at >= 3 => job.sum \in Checksums
        /\ job.at >= 4 => Last(job.head) = [version |-> job.version, url |-> job.version, sum |-> job.sum]
        /\ job.at >= 5 => IsPrefix(job.head, main)
        /\ job.at >= 6 => tags[job.version] = job.head

RefsInv ==
    /\ main \in Commits
    /\ tags \in [Versions -> Commits \cup {None}]
    /\ DOMAIN releases = Versions
    /\ pending # None =>
         pending \in [version : Versions, ref : {"main", "other"}, head : Commits]

IndInv == RefsInv /\ JobInv /\ TagsOnMain /\ PublishedConsistent

----------------------------------------------------------------------------
(* Prefixes                                                                *)

\* A prefix agrees element by element.
LEMMA PrefixByElements ==
    ASSUME NEW S, NEW s \in Seq(S), NEW t \in Seq(S)
    PROVE  IsPrefix(s, t) <=> Len(s) <= Len(t) /\ \A i \in 1 .. Len(s) : s[i] = t[i]
  <1>1. Len(s) \in Nat /\ Len(t) \in Nat
    BY LenProperties
  <1>2. ASSUME Len(s) <= Len(t)
        PROVE  /\ SubSeq(t, 1, Len(s)) \in Seq(S) /\ Len(SubSeq(t, 1, Len(s))) = Len(s)
               /\ \A i \in 1 .. Len(s) : SubSeq(t, 1, Len(s))[i] = t[i]
    <2>1. \A i \in 1 .. Len(s) : t[i] \in S
      BY <1>1, <1>2, ElementOfSeq
    <2> QED BY <1>1, <2>1, SubSeqProperties
  <1>3. SubSeq(s, 1, Len(s)) = s
    <2>1. /\ SubSeq(s, 1, Len(s)) \in Seq(S) /\ Len(SubSeq(s, 1, Len(s))) = Len(s)
          /\ \A i \in 1 .. Len(s) : SubSeq(s, 1, Len(s))[i] = s[i]
      <3>1. \A i \in 1 .. Len(s) : s[i] \in S
        BY <1>1, ElementOfSeq
      <3> QED BY <1>1, <3>1, SubSeqProperties
    <2> QED BY <2>1, SeqEqual
  <1>4. ASSUME Len(s) <= Len(t)
        PROVE  s = SubSeq(t, 1, Len(s)) <=> \A i \in 1 .. Len(s) : s[i] = t[i]
    <2> DEFINE u == SubSeq(t, 1, Len(s))
    <2>1. u \in Seq(S) /\ Len(u) = Len(s) /\ \A i \in 1 .. Len(s) : u[i] = t[i]
      BY <1>2, <1>4
    <2> HIDE DEF u
    <2>2. (\A i \in 1 .. Len(s) : s[i] = t[i]) => s = u
      BY <2>1, SeqEqual
    <2> QED BY <2>1, <2>2 DEF u
  <1> QED BY <1>3, <1>4 DEF IsPrefix

\* Being a prefix is reflexive and transitive.
LEMMA PrefixOrder ==
    ASSUME NEW S, NEW s \in Seq(S), NEW t \in Seq(S), NEW u \in Seq(S)
    PROVE  /\ IsPrefix(s, s)
           /\ IsPrefix(s, t) /\ IsPrefix(t, u) => IsPrefix(s, u)
  <1>1. Len(s) \in Nat /\ Len(t) \in Nat /\ Len(u) \in Nat
    BY LenProperties
  <1> QED BY <1>1, PrefixByElements

\* A commit on top of a history.
LEMMA AppendCommit ==
    ASSUME NEW s \in Commits, NEW e \in Tree
    PROVE  Append(s, e) \in Commits /\ IsPrefix(s, Append(s, e)) /\ Last(Append(s, e)) = e
  <1> DEFINE a == Append(s, e)
  <1>1. /\ s \in Seq(Tree) /\ a \in Seq(Tree) /\ a # <<>> /\ Len(a) = Len(s) + 1
        /\ \A i \in 1 .. Len(s) : a[i] = s[i]
        /\ a[Len(s) + 1] = e
    BY AppendProperties DEF Commits
  <1>2. Len(s) \in Nat BY <1>1, LenProperties
  <1> HIDE DEF a
  <1>3. IsPrefix(s, a) BY <1>1, <1>2, PrefixByElements
  <1> QED BY <1>1, <1>3 DEF Commits, Last, a

\* The head of a history is a tree.
LEMMA LastTree ==
    ASSUME NEW s \in Commits
    PROVE  Last(s) \in Tree
  <1>1. s \in Seq(Tree) /\ Len(s) \in Nat \ {0}
    BY EmptySeq DEF Commits
  <1> QED BY <1>1, ElementOfSeq DEF Last

\* The same for histories of commits.
LEMMA PrefixCommits ==
    /\ \A s \in Commits : IsPrefix(s, s)
    /\ \A s, t, u \in Commits : IsPrefix(s, t) /\ IsPrefix(t, u) => IsPrefix(s, u)
  BY PrefixOrder DEF Commits

\* Main moves on along its own history.
LEMMA MainGrows ==
    ASSUME IndInv, main' \in Commits, IsPrefix(main, main'), UNCHANGED tags
    PROVE  /\ TagsOnMain'
           /\ \A s \in Commits : IsPrefix(s, main) => IsPrefix(s, main')
  <1>1. main \in Commits /\ \A v \in Versions : tags[v] # None => tags[v] \in Commits
    BY DEF IndInv, RefsInv
  <1>2. \A s \in Commits : IsPrefix(s, main) => IsPrefix(s, main')
    BY <1>1, PrefixCommits
  <1> QED BY <1>1, <1>2 DEF IndInv, TagsOnMain

----------------------------------------------------------------------------
(* Steps                                                                   *)

\* The step a job is at, by its number.
LEMMA Index ==
    ASSUME JobInv
    PROVE  /\ At("verify") => job # Idle /\ job.at = 1
           /\ At("build") => job # Idle /\ job.at = 2
           /\ At("commit") => job # Idle /\ job.at = 3
           /\ At("push main") => job # Idle /\ job.at = 4
           /\ At("push tag") => job # Idle /\ job.at = 5
           /\ At("release") => job # Idle /\ job.at = 6
  <1>1. job # Idle => job.at \in {1, 2, 3, 4, 5, 6}
    BY DEF JobInv, JobRecord
  <1>2. /\ Steps[1] = "verify" /\ Steps[2] = "build" /\ Steps[3] = "commit"
        /\ Steps[4] = "push main" /\ Steps[5] = "push tag" /\ Steps[6] = "release"
    BY DEF Steps
  <1>3. CASE job = Idle BY <1>3 DEF At
  <1>4. CASE job # Idle
    <2>1. \A step : At(step) => Steps[job.at] = step BY DEF At
    <2> QED BY <1>1, <1>2, <1>4, <2>1
  <1> QED BY <1>3, <1>4

\* The job goes on, with the checksum or the head it has just made.
LEMMA JobGoes ==
    ASSUME NEW j \in JobRecord, j.at # 6, Goes(j)
    PROVE  /\ job' \in JobRecord /\ job'.at = j.at + 1 /\ job'.version = j.version
           /\ job'.head = j.head /\ job'.sum = j.sum
  <1>1. job' = [j EXCEPT !.at = @ + 1] /\ j.at + 1 \in 1 .. 6
    BY DEF Goes, JobRecord
  <1> QED BY <1>1 DEF JobRecord

\* A step that only changes the job, or queues a run.
LEMMA RefsKept ==
    ASSUME IndInv, UNCHANGED <<main, tags, releases>>
    PROVE  /\ TagsOnMain' /\ PublishedConsistent'
           /\ UNCHANGED pending => RefsInv'
           /\ UNCHANGED job => JobInv'
  BY DEF IndInv, TagsOnMain, PublishedConsistent, Released, RefsInv, JobInv, JobRecord

\* The invariant holds initially.
LEMMA InitInv == Init => IndInv
  <1> SUFFICES ASSUME Init PROVE IndInv
    OBVIOUS
  <1> DEFINE tree == [version |-> First, url |-> First, sum |-> FirstSum]
  <1>1. tree \in Tree BY FirstAssumption DEF Tree
  <1>2. main = <<tree>> BY DEF Init
  <1>3. main \in Commits /\ Last(main) = tree
    BY <1>1, <1>2 DEF Commits, Last
  <1>4. tags = [v \in Versions |-> IF v = First THEN main ELSE None]
    BY DEF Init
  <1>5. /\ releases = [v \in Versions |->
             IF v = First THEN [artifact |-> FirstSum, url |-> First, sum |-> FirstSum] ELSE None]
        /\ pending = None /\ job = Idle
    BY DEF Init
  <1>6. RefsInv /\ JobInv
    BY <1>3, <1>4, <1>5 DEF RefsInv, JobInv, JobRecord
  <1>7. TagsOnMain
    BY <1>3, <1>4, PrefixCommits DEF TagsOnMain
  <1>8. main # None
    BY <1>3, NoneAssumption DEF Commits
  <1>9. PublishedConsistent
    BY <1>3, <1>4, <1>5, <1>8 DEF PublishedConsistent, Released
  <1> QED BY <1>6, <1>7, <1>9 DEF IndInv

\* A merge moves main on and leaves tags and releases behind.
LEMMA MergeInv == ASSUME IndInv, Merge PROVE IndInv'
  <1>1. PICK v \in Versions : main' = Append(main, [Last(main) EXCEPT !.version = v])
    BY DEF Merge
  <1>2. UNCHANGED <<tags, releases, pending, job>> /\ main \in Commits
    BY DEF Merge, IndInv, RefsInv
  <1>3. [Last(main) EXCEPT !.version = v] \in Tree
    BY <1>2, LastTree DEF Tree
  <1>4. main' \in Commits /\ IsPrefix(main, main')
    BY <1>1, <1>2, <1>3, AppendCommit
  <1>5. TagsOnMain' /\ \A s \in Commits : IsPrefix(s, main) => IsPrefix(s, main')
    BY <1>2, <1>4, MainGrows
  <1>6. JobInv'
    BY <1>2, <1>5 DEF IndInv, JobInv, JobRecord
  <1>7. RefsInv' /\ PublishedConsistent'
    BY <1>2, <1>4 DEF IndInv, RefsInv, PublishedConsistent, Released
  <1> QED BY <1>5, <1>6, <1>7 DEF IndInv

\* Requesting, starting and giving up a run change no ref.
LEMMA QueueInv == ASSUME IndInv, Dispatch \/ Start \/ Fail PROVE IndInv'
  <1>1. CASE Dispatch
    <2>1. UNCHANGED <<main, tags, releases, job>>
      BY <1>1 DEF Dispatch
    <2>2. pending' \in [version : Versions, ref : {"main", "other"}, head : Commits]
      BY <1>1 DEF Dispatch, IndInv, RefsInv
    <2>3. RefsInv'
      BY <2>1, <2>2 DEF IndInv, RefsInv
    <2> QED BY <2>1, <2>3, RefsKept DEF IndInv
  <1>2. CASE Start
    <2>1. /\ UNCHANGED <<main, tags, releases>> /\ pending # None /\ pending' = None
          /\ job' = [at |-> 1, version |-> pending.version, ref |-> pending.ref,
                     head |-> pending.head, sum |-> None]
      BY <1>2 DEF Start
    <2>2. pending \in [version : Versions, ref : {"main", "other"}, head : Commits]
      BY <2>1 DEF IndInv, RefsInv
    <2>3. RefsInv' /\ JobInv'
      BY <2>1, <2>2 DEF IndInv, RefsInv, JobInv, JobRecord
    <2> QED BY <2>1, <2>3, RefsKept DEF IndInv
  <1>3. CASE Fail
    <2>1. UNCHANGED <<main, tags, releases, pending>> /\ job' = Idle
      BY <1>3 DEF Fail
    <2>2. JobInv' BY <2>1 DEF JobInv, JobRecord
    <2> QED BY <2>1, <2>2, RefsKept DEF IndInv
  <1> QED BY <1>1, <1>2, <1>3

\* The steps that work on the checkout.
LEMMA LocalInv == ASSUME IndInv, Verify \/ Build \/ Commit PROVE IndInv'
  <1>1. UNCHANGED <<main, tags, releases, pending>>
    BY DEF Verify, Build, Commit
  <1>2. SUFFICES JobInv'
    BY <1>1, RefsKept DEF IndInv
  <1>3. JobInv BY DEF IndInv
  <1>4. CASE Verify
    <2>1. job # Idle /\ job.at = 1 /\ Last(job.head).version = job.version /\ Goes(job)
      BY <1>3, <1>4, Index DEF Verify
    <2>2. job \in JobRecord BY <1>3, <2>1 DEF JobInv, JobRecord
    <2> QED BY <2>1, <2>2, JobGoes DEF JobInv, JobRecord
  <1>5. CASE Build
    <2>1. job # Idle /\ job.at = 2
      BY <1>3, <1>5, Index DEF Build
    <2>2. PICK c \in Checksums : Goes([job EXCEPT !.sum = c])
      BY <1>5 DEF Build
    <2> DEFINE j == [job EXCEPT !.sum = c]
    <2>3. job \in JobRecord /\ Last(job.head).version = job.version
      BY <1>3, <2>1 DEF JobInv, JobRecord
    <2>4. j \in JobRecord /\ j.at = 2 /\ j.version = job.version /\ j.head = job.head /\ j.sum = c
      BY <2>1, <2>3 DEF JobRecord
    <2> HIDE DEF j
    <2>5. Goes(j) BY <2>2 DEF j
    <2> QED BY <2>3, <2>4, <2>5, JobGoes DEF JobInv, JobRecord
  <1>6. CASE Commit
    <2> DEFINE pinned == [version |-> Last(job.head).version, url |-> job.version, sum |-> job.sum]
               j      == [job EXCEPT !.head = Append(@, pinned)]
    <2>1. job # Idle /\ job.at = 3 /\ Goes(j)
      BY <1>3, <1>6, Index DEF Commit
    <2>2. /\ job \in JobRecord /\ job.sum \in Checksums
          /\ Last(job.head).version = job.version
      BY <1>3, <2>1 DEF JobInv, JobRecord
    <2>3. job.head \in Commits /\ job.version \in Versions /\ Last(job.head) \in Tree
      BY <2>2, LastTree DEF JobRecord
    <2>4. pinned = [version |-> job.version, url |-> job.version, sum |-> job.sum]
      BY <2>2
    <2>5. pinned \in Tree
      BY <2>2, <2>3, <2>4 DEF Tree
    <2> HIDE DEF pinned
    <2>6. Append(job.head, pinned) \in Commits /\ Last(Append(job.head, pinned)) = pinned
      BY <2>3, <2>5, AppendCommit
    <2>7. /\ j \in JobRecord /\ j.at = 3 /\ j.version = job.version /\ j.sum = job.sum
          /\ j.head = Append(job.head, pinned)
      BY <2>1, <2>2, <2>6 DEF JobRecord
    <2> HIDE DEF j
    <2>8. job' \in JobRecord /\ job'.at = 4 /\ job'.version = job.version /\ job'.sum = job.sum
      BY <2>1, <2>7, JobGoes
    <2>9. job'.head = Append(job.head, pinned)
      BY <2>1, <2>7, JobGoes
    <2>10. Last(job'.head) = pinned
      BY <2>6, <2>9
    <2> QED BY <2>2, <2>4, <2>8, <2>10 DEF JobInv
  <1> QED BY <1>4, <1>5, <1>6

\* The pin is pushed on top of main.
LEMMA PushMainInv == ASSUME IndInv, PushMain PROVE IndInv' /\ IsPrefix(main, main')
  <1>1. JobInv /\ RefsInv BY DEF IndInv
  <1>2. job # Idle /\ job.at = 4
    BY <1>1, Index DEF PushMain
  <1>3. /\ main' = job.head /\ IsPrefix(main, job.head) /\ job' = [job EXCEPT !.at = @ + 1]
        /\ UNCHANGED <<tags, releases, pending>>
    BY DEF PushMain, Goes
  <1>4. main' \in Commits /\ job.head \in Commits
    BY <1>1, <1>2, <1>3 DEF JobInv, JobRecord
  <1>5. TagsOnMain' BY <1>3, <1>4, MainGrows
  <1>6. IsPrefix(job.head, main') BY <1>3, <1>4, PrefixCommits
  <1>7. JobInv' BY <1>1, <1>2, <1>3, <1>6 DEF JobInv, JobRecord
  <1>8. RefsInv' /\ PublishedConsistent'
    BY <1>1, <1>3, <1>4 DEF IndInv, RefsInv, PublishedConsistent, Released
  <1> QED BY <1>3, <1>5, <1>7, <1>8 DEF IndInv

\* The tag is put on the pinned commit.
LEMMA PushTagInv == ASSUME IndInv, PushTag PROVE IndInv'
  <1>1. JobInv /\ RefsInv /\ TagsOnMain /\ PublishedConsistent BY DEF IndInv
  <1>2. job # Idle /\ job.at = 5
    BY <1>1, Index DEF PushTag
  <1>3. /\ tags[job.version] = None /\ tags' = [tags EXCEPT ![job.version] = job.head]
        /\ job' = [job EXCEPT !.at = @ + 1] /\ UNCHANGED <<main, releases, pending>>
    BY DEF PushTag, Goes
  <1>4. job.head \in Commits /\ job.version \in Versions /\ IsPrefix(job.head, main)
    BY <1>1, <1>2 DEF JobInv, JobRecord
  <1>5. /\ tags' \in [Versions -> Commits \cup {None}] /\ tags'[job.version] = job.head
        /\ \A v \in Versions : v # job.version => tags'[v] = tags[v]
    BY <1>1, <1>3, <1>4 DEF RefsInv
  <1>6. RefsInv' BY <1>1, <1>3, <1>5 DEF RefsInv
  <1>7. JobInv' BY <1>1, <1>2, <1>3, <1>5 DEF JobInv, JobRecord
  <1>8. TagsOnMain' BY <1>1, <1>3, <1>4, <1>5 DEF TagsOnMain
  <1>9. PublishedConsistent'
    <2>1. job.version \notin Released BY <1>1, <1>3 DEF PublishedConsistent
    <2> QED BY <1>1, <1>3, <1>5, <2>1 DEF PublishedConsistent, Released
  <1> QED BY <1>6, <1>7, <1>8, <1>9 DEF IndInv

\* The release carries the artifact that was pinned.
LEMMA CreateReleaseInv == ASSUME IndInv, CreateRelease PROVE IndInv'
  <1>1. JobInv /\ RefsInv /\ PublishedConsistent BY DEF IndInv
  <1>2. job # Idle /\ job.at = 6
    BY <1>1, Index DEF CreateRelease
  <1> DEFINE rel == [artifact |-> job.sum, url |-> job.version, sum |-> job.sum]
  <1>3. /\ releases' = [releases EXCEPT ![job.version] = rel] /\ job' = Idle
        /\ UNCHANGED <<main, tags, pending>>
    BY DEF CreateRelease
  <1>4. /\ job.head \in Commits /\ job.version \in Versions /\ tags[job.version] = job.head
        /\ Last(job.head) = [version |-> job.version, url |-> job.version, sum |-> job.sum]
    BY <1>1, <1>2 DEF JobInv, JobRecord
  <1>5. DOMAIN releases' = Versions /\ \A v \in Versions : v # job.version => releases'[v] = releases[v]
    BY <1>1, <1>3 DEF RefsInv
  <1>6. releases'[job.version] = rel
    BY <1>1, <1>3, <1>4 DEF RefsInv
  <1>7. tags[job.version] # None
    BY <1>4, NoneAssumption DEF Commits
  <1>8. PublishedConsistent'
    <2> SUFFICES ASSUME NEW v \in Versions, releases'[v] # None
                 PROVE  /\ tags'[v] # None
                        /\ Last(tags'[v]) = [version |-> v, url |-> v, sum |-> releases'[v].artifact]
                        /\ releases'[v].url = v /\ releases'[v].sum = releases'[v].artifact
      BY DEF PublishedConsistent, Released
    <2>1. CASE v = job.version
      BY <1>3, <1>4, <1>6, <1>7, <2>1
    <2>2. CASE v # job.version
      <3>1. releases'[v] = releases[v] /\ v \in Released /\ tags' = tags
        BY <1>3, <1>5, <2>2 DEF Released
      <3> QED BY <1>1, <3>1 DEF PublishedConsistent
    <2> QED BY <2>1, <2>2
  <1>9. RefsInv' BY <1>1, <1>3, <1>5 DEF RefsInv
  <1>10. JobInv' /\ TagsOnMain' BY <1>3 DEF IndInv, JobInv, TagsOnMain
  <1> QED BY <1>8, <1>9, <1>10 DEF IndInv

\* Every step preserves the invariant.
LEMMA StepInv == IndInv /\ [Next]_vars => IndInv'
  <1> SUFFICES ASSUME IndInv, [Next]_vars PROVE IndInv'
    OBVIOUS
  <1>1. CASE UNCHANGED vars
    BY <1>1, RefsKept DEF vars, IndInv
  <1> QED BY <1>1, MergeInv, QueueInv, LocalInv, PushMainInv, PushTagInv, CreateReleaseInv DEF Next

\* The invariant holds in every reachable state.
THEOREM Invariance == Spec => []IndInv
  <1> QED BY InitInv, StepInv, PTL DEF Spec

----------------------------------------------------------------------------
(* Theorems                                                                *)

\* At the tag of every release, manifest and artifact agree, for any number
\* of versions, artifacts, merges and failed runs (release.yml).
THEOREM PublishedIsConsistent == Spec => []PublishedConsistent
  <1>1. IndInv => PublishedConsistent BY DEF IndInv
  <1> QED BY <1>1, Invariance, PTL

\* Every tag is a commit of main (release.yml pushes main first).
THEOREM TagsAreOnMain == Spec => []TagsOnMain
  <1>1. IndInv => TagsOnMain BY DEF IndInv
  <1> QED BY <1>1, Invariance, PTL

\* No step of a run removes a merged commit, moves a tag or replaces a
\* release (release.yml pushes without force).
THEOREM NothingIsLost == Spec => NothingLost
  <1> DEFINE A == /\ IsPrefix(main, main')
                  /\ \A v \in Versions : /\ tags[v] # None => tags'[v] = tags[v]
                                         /\ releases[v] # None => releases'[v] = releases[v]
  <1>1. ASSUME IndInv, [Next]_vars PROVE [A]_vars
    <2>1. main \in Commits /\ tags \in [Versions -> Commits \cup {None}] /\ DOMAIN releases = Versions
      BY <1>1 DEF IndInv, RefsInv
    <2>2. IsPrefix(main, main)
      BY <2>1, PrefixCommits
    <2>3. CASE Merge
      <3>1. PICK v \in Versions : main' = Append(main, [Last(main) EXCEPT !.version = v])
        BY <2>3 DEF Merge
      <3>2. [Last(main) EXCEPT !.version = v] \in Tree
        BY <2>1, LastTree DEF Tree
      <3>3. IsPrefix(main, main')
        BY <2>1, <3>1, <3>2, AppendCommit
      <3> QED BY <2>3, <3>3 DEF Merge
    <2>4. CASE PushMain
      BY <1>1, <2>4, PushMainInv DEF PushMain
    <2>5. CASE PushTag
      <3>1. /\ UNCHANGED <<main, releases>> /\ tags[job.version] = None
            /\ tags' = [tags EXCEPT ![job.version] = job.head]
        BY <2>5 DEF PushTag
      <3> QED BY <2>1, <2>2, <3>1
    <2>6. CASE CreateRelease
      <3>1. /\ UNCHANGED <<main, tags>> /\ releases[job.version] = None
            /\ \E rel : releases' = [releases EXCEPT ![job.version] = rel]
        BY <2>6 DEF CreateRelease
      <3> QED BY <2>1, <2>2, <3>1
    <2>7. CASE Dispatch \/ Start \/ Verify \/ Build \/ Commit \/ Fail
      <3>1. UNCHANGED <<main, tags, releases>>
        BY <2>7 DEF Dispatch, Start, Verify, Build, Commit, Fail
      <3> QED BY <2>2, <3>1
    <2> QED BY <1>1, <2>3, <2>4, <2>5, <2>6, <2>7 DEF Next
  <1> QED BY <1>1, Invariance, PTL DEF Spec, NothingLost
=============================================================================

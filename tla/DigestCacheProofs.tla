-------------------------- MODULE DigestCacheProofs --------------------------
(***************************************************************************)
(* TLAPS proofs about DigestCache: a hit on an entry that was stored       *)
(* promptly is fresh, for any artifacts, processes, edits, cache size and  *)
(* margin, and without any bound on the time a call takes.                 *)
(***************************************************************************)
EXTENDS DigestCache, TLAPS

Phases == {"idle", "before", "lookup", "hit", "hash", "after", "decide", "replace", "return"}

\* A timestamp is less than one granule old when it is given.
LEMMA StampRecent ==
    ASSUME NEW t \in Nat
    PROVE  Stamp(t) \in Nat /\ Stamp(t) <= t /\ t < Stamp(t) + Granularity
BY TimesAssumption DEF Stamp

\* The files of an artifact are files.
LEMMA FilesOfFiles ==
    \A a \in Artifacts : FilesOf[a] \subseteq Files
BY DEF Files

\* The digest of a state of the files is a digest.
LEMMA DigestType ==
    ASSUME NEW a \in Artifacts, NEW c \in [Files -> Contents]
    PROVE  /\ DigestOf(a, c) \in Reads
           /\ \A f \in FilesOf[a] : DigestOf(a, c)[f] = c[f]
           /\ \A f \in Files \ FilesOf[a] : DigestOf(a, c)[f] = None
BY FilesOfFiles DEF DigestOf, Reads

\* Unread timestamps and contents, and a fresh job, are well typed.
LEMMA FreshTypes ==
    /\ Unread \in Times /\ Unread \in Reads
    /\ NoJob \in JobType
<1>1. Unread \in Times /\ Unread \in Reads
  BY DEF Unread, Times, Reads
<1> QED
  BY <1>1 DEF NoJob, JobType

\* Nothing has been read or stored in the beginning.
LEMMA InitInv ==
    ASSUME Init
    PROVE  Inv
<1> USE TimesAssumption, FilesAssumption, NoneAssumption
<1>1. TypeOK
  BY FreshTypes DEF Init, TypeOK
<1>2. \A h \in Hashers : pc[h] = "idle" /\ job[h] = NoJob
  BY DEF Init
<1>3. Cached = {}
  BY <1>2 DEF Cached, Init, NoJob
<1>4. PhaseInv
  BY <1>2 DEF PhaseInv, PhaseOf, Looking, Init, NoJob
<1>5. ReadInv /\ HashInv /\ EntryInv /\ PromptHitIsFresh
  BY <1>2, <1>3 DEF ReadInv, ReadOf, HashInv, EntryInv, PromptHitIsFresh
<1> QED
  BY <1>1, <1>4, <1>5 DEF Inv

\* A settled timestamp is older than any that an edit can give.
LEMMA SettledIsOld ==
    ASSUME TypeOK, NEW stats \in Times, NEW f \in Files, NEW began \in Nat, began <= now,
           Settled(stats, f, began)
    PROVE  stats[f] \in Nat /\ stats[f] < Stamp(now)
<1>1. now \in Nat /\ Stamp(now) \in Nat /\ now < Stamp(now) + Granularity
  BY StampRecent DEF TypeOK
<1>2. stats[f] \in Nat
  BY DEF Settled, Times
<1> QED
  BY <1>1, <1>2, TimesAssumption DEF Settled

\* What the jobs and the cache hold is well typed.
LEMMA Typed ==
    ASSUME TypeOK
    PROVE  /\ \A h \in Hashers : job[h] \in JobType
           /\ \A e \in Cached : e \in EntryType
BY DEF TypeOK, Cached, JobType

\* A digest that is true of some timestamps stays true of them in a step that
\* leaves the files alone, where no call may match that could not before, and
\* a call that begins sees what the files hold.
LEMMA TrueKept ==
    ASSUME TypeOK, NEW a \in Artifacts, NEW stats, NEW digest \in Reads,
           TrueOf(a, stats, digest), content' = content, ctime' = ctime,
           \A h \in Hashers : MayMatch(h, a, stats)' =>
              \/ MayMatch(h, a, stats) /\ job'[h].held = job[h].held
              \/ (\A f \in FilesOf[a] : stats[f] = ctime[f]) /\ DigestOf(a, content) \in job'[h].held
    PROVE  TrueOf(a, stats, digest)'
<1>1. ASSUME NEW h \in Hashers, MayMatch(h, a, stats)'
      PROVE  digest \in job'[h].held
  <2>1. CASE MayMatch(h, a, stats) /\ job'[h].held = job[h].held
    BY <2>1 DEF TrueOf
  <2>2. CASE (\A f \in FilesOf[a] : stats[f] = ctime[f]) /\ DigestOf(a, content) \in job'[h].held
    <3>1. \A f \in FilesOf[a] : digest[f] = content[f]
      BY <2>2 DEF TrueOf
    <3>2. digest = DigestOf(a, content)
      BY <3>1 DEF TrueOf, TypeOK, Reads, DigestOf
    <3> QED
      BY <2>2, <3>2
  <2> QED
    BY <1>1, <2>1, <2>2
<1> QED
  BY <1>1 DEF TrueOf
\* It also stays true of settled timestamps in an edit.
LEMMA TrueEdited ==
    ASSUME TypeOK, PhaseInv, NEW g \in Files, Edit(g), NEW a \in Artifacts, NEW stats \in Times,
           NEW digest \in Reads, NEW began \in Nat, began <= now,
           \A f \in FilesOf[a] : Settled(stats, f, began), TrueOf(a, stats, digest)
    PROVE  TrueOf(a, stats, digest)'
<1>1. ctime' = [ctime EXCEPT ![g] = Stamp(now)] /\ pc' = pc
  BY DEF Edit
<1>2. \A f \in Files : f # g => content'[f] = content[f] /\ ctime'[f] = ctime[f]
  BY DEF Edit, TypeOK
<1>3. ctime'[g] = Stamp(now)
  BY <1>1 DEF TypeOK
<1>4. FilesOf[a] \subseteq Files
  BY FilesOfFiles
<1>5. g \in FilesOf[a] => ctime'[g] # stats[g]
  <2>1. ASSUME g \in FilesOf[a]
        PROVE  stats[g] \in Nat /\ stats[g] < Stamp(now)
    BY <2>1, SettledIsOld
  <2> QED
    BY <1>3, <2>1, StampRecent DEF TypeOK
<1>6. \A f \in FilesOf[a] : ctime'[f] = stats[f] => digest[f] = content'[f]
  BY <1>2, <1>4, <1>5 DEF TrueOf
<1>7. ASSUME NEW h \in Hashers, MayMatch(h, a, stats)'
      PROVE  digest \in job'[h].held
  <2>1. Looking(h) /\ job'[h] = [job[h] EXCEPT !.held = @ \cup {DigestOf(job[h].path, content')}]
    BY <1>1, <1>7 DEF MayMatch, Looking, Edit
  <2>2. PICK j \in JobType : j = job[h]
    BY DEF TypeOK
  <2>3. /\ job'[h].before = job[h].before /\ job'[h].path = job[h].path
        /\ job'[h].held = job[h].held \cup {DigestOf(job[h].path, content')}
    BY <2>1, <2>2 DEF JobType
  <2>4. \A f \in FilesOf[a] : stats[f] = IF job[h].before[f] = None THEN ctime'[f] ELSE job[h].before[f]
    BY <1>7, <2>3 DEF MayMatch
  <2>5. \A f \in FilesOf[a] : stats[f] = IF job[h].before[f] = None THEN ctime[f] ELSE job[h].before[f]
    BY <1>2, <1>4, <1>5, <2>4
  <2>6. MayMatch(h, a, stats)
    BY <1>7, <2>1, <2>3, <2>5 DEF MayMatch
  <2> QED
    BY <2>3, <2>6 DEF TrueOf
<1> QED
  BY <1>6, <1>7 DEF TrueOf

\* A step of one call that leaves the files alone preserves the invariant when
\* what that call has read fits its phase and the entries it holds are good.
LEMMA CallInv ==
    ASSUME Inv, NEW h \in Hashers, NEW j \in JobType, NEW p \in Phases,
           pc' = [pc EXCEPT ![h] = p], job' = [job EXCEPT ![h] = j], UNCHANGED disk,
           cache' \subseteq Cached,
           PhaseOf(h)', ReadOf(h)',
           p \in {"after", "decide"} /\ Undisturbed(h)' => TrueOf(j.path, j.before, j.digest),
           p = "hit" /\ j.prompt => j.digest \in j.held,
           \A e \in j.entries : Prompt(e) => e \in Cached \/ Good(e),
           p \in {"before", "lookup"} =>
              \/ j.before = Unread /\ DigestOf(j.path, content) \in j.held
              \/ /\ Looking(h) /\ j.held = job[h].held /\ j.path = job[h].path
                 /\ \A f \in Files : \/ j.before[f] = job[h].before[f]
                                     \/ job[h].before[f] = None /\ j.before[f] = ctime[f]
    PROVE  Inv'
<1> USE TimesAssumption, NoneAssumption
<1>1. TypeOK /\ PhaseInv /\ ReadInv /\ HashInv /\ EntryInv /\ PromptHitIsFresh
  BY DEF Inv
<1>2. now' = now /\ content' = content /\ ctime' = ctime /\ edits' = edits
  BY DEF disk
<1>3. /\ pc'[h] = p /\ job'[h] = j
      /\ \A g \in Hashers : g # h => pc'[g] = pc[g] /\ job'[g] = job[g]
  BY <1>1 DEF TypeOK
<1>4. TypeOK'
  <2>1. cache' \subseteq EntryType
    BY <1>1, Typed
  <2>2. pc' \in [Hashers -> Phases] /\ job' \in [Hashers -> JobType]
    BY <1>1 DEF TypeOK, Phases
  <2> QED
    BY <1>1, <1>2, <2>1, <2>2 DEF TypeOK, Phases
<1>5. ASSUME NEW a \in Artifacts, NEW stats, NEW digest \in Reads, TrueOf(a, stats, digest)
      PROVE  TrueOf(a, stats, digest)'
  <2>1. ASSUME NEW g \in Hashers, MayMatch(g, a, stats)'
        PROVE  \/ MayMatch(g, a, stats) /\ job'[g].held = job[g].held
               \/ (\A f \in FilesOf[a] : stats[f] = ctime[f]) /\ DigestOf(a, content) \in job'[g].held
    <3>1. CASE g # h
      BY <1>2, <1>3, <2>1, <3>1 DEF MayMatch, Looking
    <3>2. CASE g = h
      <4>1. /\ p \in {"before", "lookup"} /\ j.path = a
            /\ \A f \in FilesOf[a] : stats[f] = IF j.before[f] = None THEN ctime[f] ELSE j.before[f]
        BY <1>2, <1>3, <2>1, <3>2 DEF MayMatch, Looking
      <4>2. CASE j.before = Unread /\ DigestOf(j.path, content) \in j.held
        <5>1. \A f \in FilesOf[a] : j.before[f] = None
          BY <4>2, FilesOfFiles DEF Unread
        <5> QED
          BY <1>3, <3>2, <4>1, <4>2, <5>1
      <4>3. CASE /\ Looking(h) /\ j.held = job[h].held /\ j.path = job[h].path
                 /\ \A f \in Files : \/ j.before[f] = job[h].before[f]
                                     \/ job[h].before[f] = None /\ j.before[f] = ctime[f]
        <5>1. ASSUME NEW f \in FilesOf[a]
              PROVE  stats[f] = IF job[h].before[f] = None THEN ctime[f] ELSE job[h].before[f]
          <6>1. f \in Files
            BY FilesOfFiles
          <6>2. ctime[f] \in Nat
            BY <1>1, <6>1 DEF TypeOK
          <6> QED
            BY <4>1, <4>3, <6>1, <6>2
        <5>2. MayMatch(h, a, stats)
          BY <4>1, <4>3, <5>1 DEF MayMatch
        <5> QED
          BY <1>3, <3>2, <4>3, <5>2
      <4> QED
        BY <4>1, <4>2, <4>3
    <3> QED
      BY <3>1, <3>2
  <2> QED
    BY <1>1, <1>2, <1>5, <2>1, TrueKept
<1>6. PhaseInv'
  <2>1. ASSUME NEW g \in Hashers, g # h
        PROVE  PhaseOf(g)'
    BY <1>1, <1>2, <1>3, <2>1 DEF PhaseInv, PhaseOf, Looking, Mine
  <2> QED
    BY <2>1 DEF PhaseInv
<1>7. ReadInv'
  <2>1. ASSUME NEW g \in Hashers, g # h
        PROVE  ReadOf(g)'
    BY <1>1, <1>2, <1>3, <2>1 DEF ReadInv, ReadOf, Mine, Settled
  <2> QED
    BY <2>1 DEF ReadInv
<1>8. HashInv'
  <2>1. ASSUME NEW g \in Hashers, pc'[g] \in {"after", "decide"}, Undisturbed(g)'
        PROVE  TrueOf(job[g].path, job[g].before, job[g].digest)'
    <3>1. PICK i \in JobType : i = job'[g]
      BY <1>4 DEF TypeOK
    <3>2. i.path \in Artifacts
      BY <1>6, <2>1, <3>1 DEF PhaseInv, PhaseOf
    <3>3. TrueOf(i.path, i.before, i.digest)
      <4>1. CASE g = h
        BY <1>3, <2>1, <3>1, <4>1
      <4>2. CASE g # h
        <5>1. Undisturbed(g)
          BY <1>2, <1>3, <2>1, <4>2 DEF Undisturbed, Mine
        <5> QED
          BY <1>1, <1>3, <2>1, <3>1, <4>2, <5>1 DEF HashInv
      <4> QED
        BY <4>1, <4>2
    <3>4. i.digest \in Reads
      BY <3>1 DEF JobType
    <3>5. TrueOf(i.path, i.before, i.digest)'
      BY <1>5, <3>2, <3>3, <3>4
    <3> QED
      BY <3>1, <3>5
  <2> QED
    BY <2>1 DEF HashInv
<1>9. EntryInv'
  <2>1. ASSUME NEW e \in Cached', Prompt(e)
        PROVE  Good(e)'
    <3>1. e \in EntryType
      BY <1>4, <2>1 DEF Cached, TypeOK, JobType
    <3>2. e \in Cached \/ Good(e)
      BY <1>3, <2>1 DEF Cached
    <3>3. Good(e)
      BY <1>1, <2>1, <3>2 DEF EntryInv
    <3>4. TrueOf(e.key, e.stats, e.digest)'
      BY <1>5, <3>1, <3>3 DEF Good, EntryType
    <3> QED
      BY <1>2, <3>3, <3>4 DEF Good, Settled
  <2> QED
    BY <2>1 DEF EntryInv, Prompt
<1>10. PromptHitIsFresh'
  BY <1>1, <1>3 DEF PromptHitIsFresh
<1> QED
  BY <1>4, <1>6, <1>7, <1>8, <1>9, <1>10 DEF Inv
\* A call that ends, from any phase, forgets what it has read; it may replace
\* the cache by the entries it holds.
LEMMA EndInv ==
    ASSUME Inv, NEW h \in Hashers, pc' = [pc EXCEPT ![h] = "idle"], job' = [job EXCEPT ![h] = NoJob],
           UNCHANGED disk, cache' = cache \/ cache' = job[h].entries \/ cache' = {}
    PROVE  Inv'
<1>1. cache' \subseteq Cached
  BY DEF Cached
<1>2. pc'[h] = "idle" /\ job'[h] = NoJob /\ now' = now /\ now \in Nat
  BY DEF Inv, TypeOK, disk
<1>3. PhaseOf(h)' /\ ReadOf(h)'
  BY <1>2 DEF PhaseOf, ReadOf, NoJob, Looking
<1>4. NoJob.entries = {}
  BY DEF NoJob
<1> QED
  BY <1>1, <1>3, <1>4, FreshTypes, CallInv DEF Phases

\* A call that begins sees the artifact as it is.
LEMMA BeginInv ==
    ASSUME Inv, NEW h \in Hashers, NEW a \in Artifacts, Begin(h, a)
    PROVE  Inv'
<1> DEFINE j == [NoJob EXCEPT !.path = a, !.start = now, !.held = {DigestOf(a, content)}]
<1>1. TypeOK /\ FilesOf[a] \subseteq Files
  BY FilesOfFiles DEF Inv
<1>2. DigestOf(a, content) \in Reads
  BY <1>1, DigestType DEF TypeOK
<1>3. /\ j.path = a /\ j.start = now /\ j.held = {DigestOf(a, content)} /\ j.before = Unread
      /\ j.digest = Unread /\ j.after = Unread /\ j.entries = {} /\ ~j.prompt
  BY DEF NoJob
<1>4. j \in JobType
  BY <1>1, <1>2, FreshTypes DEF JobType, TypeOK, NoJob
<1>5. pc' = [pc EXCEPT ![h] = "before"] /\ job' = [job EXCEPT ![h] = j] /\ UNCHANGED disk /\ cache' = cache
  BY DEF Begin, Step
<1> HIDE DEF j
<1>6. pc'[h] = "before" /\ job'[h] = j /\ now' = now /\ content' = content
  BY <1>1, <1>5 DEF TypeOK, disk
<1>7. PhaseOf(h)' /\ ReadOf(h)'
  BY <1>1, <1>3, <1>6 DEF PhaseOf, ReadOf, Looking, TypeOK
<1>8. cache' \subseteq Cached
  BY <1>5 DEF Cached
<1> QED
  BY <1>3, <1>4, <1>5, <1>7, <1>8, CallInv DEF Phases

\* The first fingerprint reads one more timestamp.
LEMMA StatBeforeInv ==
    ASSUME Inv, NEW h \in Hashers, NEW f \in Files, StatBefore(h, f)
    PROVE  Inv'
<1> USE NoneAssumption
<1>1. TypeOK /\ PhaseOf(h) /\ pc[h] = "before" /\ f \in Left(h, job[h].before)
  BY DEF Inv, PhaseInv, StatBefore, Visit
<1>2. PICK i \in JobType : i = job[h]
  BY <1>1 DEF TypeOK
<1>3. PICK p \in Phases : /\ p = (IF Left(h, job[h].before) = {f} THEN "lookup" ELSE "before")
                          /\ pc' = [pc EXCEPT ![h] = p]
  BY DEF StatBefore, Visit, Phases
<1> DEFINE j == [i EXCEPT !.before[f] = ctime[f]]
<1>4. job' = [job EXCEPT ![h] = j] /\ UNCHANGED disk /\ cache' = cache
  BY <1>1, <1>2 DEF StatBefore, TypeOK
<1>5. /\ j \in JobType /\ j.before = [i.before EXCEPT ![f] = ctime[f]] /\ j.held = i.held
      /\ j.path = i.path /\ j.digest = i.digest /\ j.after = i.after /\ j.start = i.start
      /\ j.entries = i.entries
  BY <1>1, <1>2 DEF JobType, Times, TypeOK
<1> HIDE DEF j
<1>6. pc'[h] = p /\ job'[h] = j /\ now' = now /\ content' = content
  BY <1>1, <1>3, <1>4 DEF TypeOK, disk
<1>7. j.path \in Artifacts /\ FilesOf[j.path] \subseteq Files
  BY <1>1, <1>2, <1>5, FilesOfFiles DEF PhaseOf
<1>8. j.before[f] = ctime[f] /\ ctime[f] \in Nat /\ \A g \in Files : g # f => j.before[g] = i.before[g]
  BY <1>1, <1>2, <1>5 DEF JobType, Times, TypeOK
<1>9. p = "lookup" => \A g \in FilesOf[j.path] : j.before[g] # None
  BY <1>2, <1>3, <1>5, <1>7, <1>8 DEF Left, Mine
<1>10. PhaseOf(h)' /\ ReadOf(h)'
  <2>1. p \in {"before", "lookup"}
    BY <1>3
  <2>2. j.digest = Unread /\ j.after = Unread /\ DigestOf(j.path, content) \in j.held /\ j.start <= now
    BY <1>1, <1>2, <1>5 DEF PhaseOf, Looking
  <2> QED
    BY <1>6, <1>7, <1>9, <2>1, <2>2 DEF PhaseOf, ReadOf, Looking, Mine
<1>11. i.before[f] = None /\ Looking(h)
  BY <1>1, <1>2 DEF Left, Looking
<1>12. cache' \subseteq Cached /\ \A e \in j.entries : e \in Cached
  BY <1>2, <1>4, <1>5 DEF Cached
<1>13. p \notin {"after", "decide", "hit"}
  BY <1>3
<1>14. \A g \in Files : j.before[g] = job[h].before[g] \/ (job[h].before[g] = None /\ j.before[g] = ctime[g])
  BY <1>2, <1>8, <1>11
<1> QED
  BY <1>2, <1>3, <1>4, <1>5, <1>10, <1>11, <1>12, <1>13, <1>14, CallInv

\* A call that turns to hashing, with or without a fingerprint.
LEMMA ToHashInv ==
    ASSUME Inv, NEW h \in Hashers, Uncacheable(h) \/ Miss(h)
    PROVE  Inv'
<1>1. TypeOK /\ PhaseOf(h) /\ Looking(h) /\ pc' = [pc EXCEPT ![h] = "hash"] /\ UNCHANGED disk /\ cache' = cache
  BY DEF Inv, PhaseInv, Uncacheable, Miss, Step, Looking
<1>2. PICK i \in JobType : i = job[h]
  BY <1>1 DEF TypeOK
<1>3. PICK j \in JobType :
         /\ job' = [job EXCEPT ![h] = j]
         /\ j.path = i.path /\ j.digest = i.digest /\ j.after = i.after /\ j.start = i.start
         /\ j.entries = i.entries
         /\ j.cacheable => pc[h] = "lookup" /\ j.before = i.before
  <2>1. CASE Uncacheable(h)
    <3>1. PICK j \in JobType : j = [i EXCEPT !.cacheable = FALSE, !.before = Unread, !.held = {}]
      BY FreshTypes DEF JobType
    <3>2. job' = [job EXCEPT ![h] = j]
      BY <1>1, <1>2, <2>1, <3>1 DEF Uncacheable, TypeOK
    <3> QED
      BY <3>1, <3>2 DEF JobType
  <2>2. CASE Miss(h)
    <3>1. PICK j \in JobType : j = [i EXCEPT !.held = {}]
      BY DEF JobType
    <3>2. job' = [job EXCEPT ![h] = j] /\ pc[h] = "lookup"
      BY <1>1, <1>2, <2>2, <3>1 DEF Miss, Step, TypeOK
    <3> QED
      BY <3>1, <3>2 DEF JobType
  <2> QED
    BY <2>1, <2>2
<1>4. pc'[h] = "hash" /\ job'[h] = j /\ now' = now
  BY <1>1, <1>3 DEF TypeOK, disk
<1>5. \A f \in Files : j.digest[f] = None
  BY <1>1, <1>2, <1>3 DEF PhaseOf, Unread
<1>6. FilesOf[j.path] \subseteq Files
  BY <1>1, <1>2, <1>3, FilesOfFiles DEF PhaseOf, Looking
<1>7. PhaseOf(h)' /\ ReadOf(h)'
  BY <1>1, <1>2, <1>3, <1>4, <1>5, <1>6 DEF PhaseOf, ReadOf, Looking, Mine
<1>8. cache' \subseteq Cached /\ \A e \in j.entries : e \in Cached
  BY <1>1, <1>2, <1>3 DEF Cached
<1> QED
  BY <1>1, <1>3, <1>7, <1>8, CallInv DEF Phases

\* A hit on a promptly stored entry returns what the call has seen.
LEMMA HitInv ==
    ASSUME Inv, NEW h \in Hashers, Hit(h)
    PROVE  Inv'
<1>1. TypeOK /\ PhaseOf(h) /\ pc[h] = "lookup" /\ Looking(h) /\ pc' = [pc EXCEPT ![h] = "hit"]
      /\ UNCHANGED disk /\ cache' = cache
  BY DEF Inv, PhaseInv, Hit, Step, Looking
<1>2. PICK i \in JobType : i = job[h]
  BY <1>1 DEF TypeOK
<1>3. PICK e \in cache : /\ Matches(e, h)
                         /\ job' = [job EXCEPT ![h].digest = e.digest, ![h].prompt = Prompt(e)]
  BY DEF Hit
<1>4. e \in EntryType /\ e \in Cached
  BY <1>1 DEF TypeOK, Cached
<1>5. Prompt(e) \in BOOLEAN
  BY DEF Prompt
<1> DEFINE j == [i EXCEPT !.digest = e.digest, !.prompt = Prompt(e)]
<1>6. job' = [job EXCEPT ![h] = j]
  BY <1>1, <1>2, <1>3 DEF TypeOK
<1>7. /\ j \in JobType /\ j.path = i.path /\ j.start = i.start /\ j.entries = i.entries
      /\ j.held = i.held /\ j.digest = e.digest /\ j.prompt = Prompt(e)
  BY <1>4, <1>5 DEF JobType, EntryType
<1> HIDE DEF j
<1>8. pc'[h] = "hit" /\ job'[h] = j /\ now' = now
  BY <1>1, <1>6 DEF TypeOK, disk
<1>9. PhaseOf(h)' /\ ReadOf(h)'
  BY <1>1, <1>2, <1>7, <1>8 DEF PhaseOf, ReadOf, Looking
<1>10. ASSUME Prompt(e)
       PROVE  e.digest \in i.held
  <2>1. TrueOf(e.key, e.stats, e.digest)
    BY <1>4, <1>10 DEF Inv, EntryInv, Good
  <2>2. MayMatch(h, e.key, e.stats)
    BY <1>1, <1>3 DEF MayMatch, Matches, PhaseOf, Mine
  <2> QED
    BY <1>2, <2>1, <2>2 DEF TrueOf
<1>11. cache' \subseteq Cached /\ \A o \in j.entries : o \in Cached
  BY <1>1, <1>2, <1>7 DEF Cached
<1> QED
  BY <1>1, <1>6, <1>7, <1>9, <1>10, <1>11, CallInv DEF Phases
\* hash_artifact() reads one more file; with the last one, an undisturbed call
\* holds the digest of the artifact as it is.
LEMMA HashFileInv ==
    ASSUME Inv, NEW h \in Hashers, NEW f \in Files, HashFile(h, f)
    PROVE  Inv'
<1> USE NoneAssumption
<1>1. TypeOK /\ PhaseInv /\ PhaseOf(h) /\ ReadOf(h) /\ pc[h] = "hash" /\ f \in Left(h, job[h].digest)
  BY DEF Inv, PhaseInv, ReadInv, HashFile, Visit
<1>2. PICK i \in JobType : i = job[h]
  BY <1>1 DEF TypeOK
<1>3. PICK p \in Phases :
         /\ p = (IF Left(h, job[h].digest) = {f} THEN IF i.cacheable THEN "after" ELSE "return" ELSE "hash")
         /\ pc' = [pc EXCEPT ![h] = p]
  BY <1>2 DEF HashFile, Visit, Phases
<1> DEFINE j == [i EXCEPT !.digest[f] = content[f]]
<1>4. job' = [job EXCEPT ![h] = j] /\ UNCHANGED disk /\ cache' = cache
  BY <1>1, <1>2 DEF HashFile, TypeOK
<1>5. /\ j \in JobType /\ j.digest = [i.digest EXCEPT ![f] = content[f]] /\ j.before = i.before
      /\ j.path = i.path /\ j.cacheable = i.cacheable /\ j.after = i.after /\ j.start = i.start
      /\ j.entries = i.entries
  BY <1>1, <1>2 DEF JobType, Reads, TypeOK
<1> HIDE DEF j
<1>6. pc'[h] = p /\ job'[h] = j /\ now' = now /\ content' = content /\ ctime' = ctime
  BY <1>1, <1>3, <1>4 DEF TypeOK, disk
<1>7. j.path \in Artifacts /\ FilesOf[j.path] \subseteq Files /\ f \in FilesOf[j.path] /\ i.after = Unread
  BY <1>1, <1>2, <1>5, FilesOfFiles DEF PhaseOf, Left, Mine
<1>8. j.digest[f] = content[f] /\ \A g \in Files : g # f => j.digest[g] = i.digest[g]
  BY <1>1, <1>2, <1>5 DEF JobType, Reads, TypeOK
<1>9. \A g \in Files \ FilesOf[j.path] : j.digest[g] = None
  BY <1>1, <1>2, <1>5, <1>7, <1>8 DEF PhaseOf, Mine
<1>10. p \in {"after", "hash", "return"} /\ (p = "after" => i.cacheable)
  BY <1>3
<1>11. PhaseOf(h)'
  BY <1>1, <1>2, <1>5, <1>6, <1>7, <1>9, <1>10 DEF PhaseOf, Looking, Mine
<1>12. \A g \in FilesOf[j.path] :
          /\ i.cacheable /\ j.digest[g] # None /\ Settled(i.before, g, i.start) /\ ctime[g] = i.before[g]
          => j.digest[g] = content[g]
  BY <1>1, <1>2, <1>5, <1>7, <1>8 DEF ReadOf, Mine
<1>13. ReadOf(h)'
  BY <1>5, <1>6, <1>12 DEF ReadOf, Mine, Settled
<1>14. ASSUME p = "after", Undisturbed(h)'
       PROVE  TrueOf(j.path, j.before, j.digest)
  <2>1. \A g \in FilesOf[j.path] : Settled(i.before, g, i.start) /\ ctime[g] = i.before[g]
    BY <1>5, <1>6, <1>7, <1>14 DEF Undisturbed, Mine, Settled, Unread
  <2>2. \A g \in FilesOf[j.path] : j.digest[g] # None
    <3>1. Left(h, job[h].digest) = {f}
      BY <1>3, <1>14
    <3>2. \A g \in FilesOf[j.path] : g # f => i.digest[g] # None
      BY <1>2, <1>5, <3>1 DEF Left, Mine
    <3> QED
      BY <1>1, <1>7, <1>8, <3>2 DEF TypeOK
  <2>3. \A g \in FilesOf[j.path] : j.digest[g] = content[g]
    BY <1>10, <1>12, <1>14, <2>1, <2>2
  <2>4. j.digest = DigestOf(j.path, content)
    BY <1>5, <1>9, <2>3 DEF DigestOf, JobType, Reads
  <2>5. \A g \in Hashers : MayMatch(g, j.path, j.before) => DigestOf(j.path, content) \in job[g].held
    BY <1>1 DEF MayMatch, PhaseInv, PhaseOf
  <2> QED
    BY <1>9, <2>3, <2>4, <2>5 DEF TrueOf
<1>15. cache' \subseteq Cached /\ \A e \in j.entries : e \in Cached
  BY <1>2, <1>4, <1>5 DEF Cached
<1> QED
  BY <1>3, <1>4, <1>5, <1>10, <1>11, <1>13, <1>14, <1>15, CallInv

\* The second fingerprint reads one more timestamp.
LEMMA StatAfterInv ==
    ASSUME Inv, NEW h \in Hashers, NEW f \in Files, StatAfter(h, f)
    PROVE  Inv'
<1> USE NoneAssumption
<1>1. TypeOK /\ PhaseOf(h) /\ HashInv /\ pc[h] = "after" /\ f \in Left(h, job[h].after)
  BY DEF Inv, PhaseInv, StatAfter, Visit
<1>2. PICK i \in JobType : i = job[h]
  BY <1>1 DEF TypeOK
<1>3. PICK p \in {"after", "decide"} : pc' = [pc EXCEPT ![h] = p]
  BY DEF StatAfter, Visit
<1> DEFINE j == [i EXCEPT !.after[f] = ctime[f]]
<1>4. job' = [job EXCEPT ![h] = j] /\ UNCHANGED disk /\ cache' = cache
  BY <1>1, <1>2 DEF StatAfter, TypeOK
<1>5. /\ j \in JobType /\ j.after = [i.after EXCEPT ![f] = ctime[f]] /\ j.before = i.before
      /\ j.path = i.path /\ j.digest = i.digest /\ j.start = i.start /\ j.entries = i.entries
  BY <1>1, <1>2 DEF JobType, Times, TypeOK
<1> HIDE DEF j
<1>6. pc'[h] = p /\ job'[h] = j /\ now' = now /\ ctime' = ctime
  BY <1>1, <1>3, <1>4 DEF TypeOK, disk
<1>7. PhaseOf(h)' /\ ReadOf(h)'
  BY <1>1, <1>2, <1>3, <1>5, <1>6 DEF PhaseOf, ReadOf, Looking, Mine
<1>8. j.after[f] = ctime[f] /\ ctime[f] \in Nat /\ \A g \in Files : g # f => j.after[g] = i.after[g]
  BY <1>1, <1>2, <1>5 DEF JobType, Times, TypeOK
<1>9. FilesOf[i.path] \subseteq Files /\ i.after[f] = None
  BY <1>1, <1>2, FilesOfFiles DEF PhaseOf, Left
<1>10. ASSUME Undisturbed(h)'
       PROVE  TrueOf(j.path, j.before, j.digest)
  <2>1. ASSUME NEW g \in FilesOf[i.path]
        PROVE  /\ Settled(i.before, g, i.start)
               /\ i.before[g] = IF i.after[g] = None THEN ctime[g] ELSE i.after[g]
    <3>1. /\ Settled(i.before, g, i.start)
          /\ i.before[g] = IF j.after[g] = None THEN ctime[g] ELSE j.after[g]
      BY <1>5, <1>6, <1>10, <2>1 DEF Undisturbed, Mine, Settled
    <3> QED
      BY <1>8, <1>9, <2>1, <3>1
  <2>2. Undisturbed(h)
    BY <1>2, <2>1 DEF Undisturbed, Mine
  <2> QED
    BY <1>1, <1>2, <1>5, <2>2 DEF HashInv
<1>11. cache' \subseteq Cached /\ \A e \in j.entries : e \in Cached
  BY <1>2, <1>4, <1>5 DEF Cached
<1> QED
  BY <1>3, <1>4, <1>5, <1>7, <1>10, <1>11, CallInv DEF Phases

\* An entry stored promptly after an undisturbed call is good.
LEMMA StoreInv ==
    ASSUME Inv, NEW h \in Hashers, Store(h)
    PROVE  Inv'
<1> USE TimesAssumption, NoneAssumption
<1>1. TypeOK /\ PhaseOf(h) /\ HashInv /\ pc[h] = "decide" /\ StoreAllowed(h)
      /\ pc' = [pc EXCEPT ![h] = "replace"] /\ UNCHANGED disk /\ cache' = cache
  BY DEF Inv, PhaseInv, Store, Step
<1>2. PICK i \in JobType : i = job[h]
  BY <1>1 DEF TypeOK
<1>3. PICK e : e = Entry(i.path, i.before, i.digest, now, i.start)
  OBVIOUS
<1>4. PICK kept \in Kept({o \in cache : o.key # job[h].path} \cup {e}) :
          job' = [job EXCEPT ![h].entries = kept]
  BY <1>2, <1>3 DEF Store
<1>5. /\ e.key = i.path /\ e.stats = i.before /\ e.digest = i.digest /\ e.recorded_at = now
      /\ e.began = i.start /\ e \in EntryType /\ i.path \in Artifacts /\ now \in Nat /\ i.start \in Nat
      /\ i.start <= now
  BY <1>1, <1>2, <1>3 DEF Entry, EntryType, JobType, TypeOK, PhaseOf
<1>6. kept \subseteq cache \cup {e} /\ kept \subseteq EntryType
  BY <1>1, <1>4, <1>5 DEF Kept, TypeOK
<1> DEFINE j == [i EXCEPT !.entries = kept]
<1>7. job' = [job EXCEPT ![h] = j]
  BY <1>1, <1>2, <1>4 DEF TypeOK
<1>8. /\ j \in JobType /\ j.entries = kept /\ j.path = i.path /\ j.start = i.start
  BY <1>6 DEF JobType
<1> HIDE DEF j
<1>9. pc'[h] = "replace" /\ job'[h] = j /\ now' = now
  BY <1>1, <1>7 DEF TypeOK, disk
<1>10. PhaseOf(h)' /\ ReadOf(h)'
  BY <1>5, <1>8, <1>9 DEF PhaseOf, ReadOf, Looking
<1>11. ASSUME Prompt(e)
       PROVE  Good(e)
  <2>1. ASSUME NEW f \in FilesOf[i.path]
        PROVE  Settled(i.before, f, i.start) /\ i.after[f] = i.before[f] /\ i.before[f] # None
    <3>1. f \in Files /\ i.before[f] # None
      BY <1>1, <1>2, <1>5, FilesOfFiles DEF PhaseOf, Mine
    <3>2. i.before[f] \in Nat
      BY <3>1 DEF JobType, Times
    <3>3. i.before[f] <= now - RACY_MARGIN /\ i.after = i.before
      BY <1>1, <1>2 DEF StoreAllowed, _all_older_than_margin, Mine
    <3>4. now - i.start + Granularity <= RACY_MARGIN
      BY <1>5, <1>11 DEF Prompt
    <3> QED
      BY <1>5, <3>1, <3>2, <3>3, <3>4 DEF Settled
  <2>2. Undisturbed(h)
    BY <1>2, <2>1 DEF Undisturbed, Mine
  <2>3. TrueOf(i.path, i.before, i.digest)
    BY <1>1, <1>2, <2>2 DEF HashInv
  <2> QED
    BY <1>5, <2>1, <2>3 DEF Good
<1>12. cache' \subseteq Cached /\ \A o \in j.entries : Prompt(o) => o \in Cached \/ Good(o)
  BY <1>1, <1>6, <1>8, <1>11 DEF Cached
<1> QED
  BY <1>1, <1>7, <1>8, <1>10, <1>12, CallInv DEF Phases
\* An edit gives a timestamp that no settled one equals, and every call that
\* may still match sees the artifact as it has become.
LEMMA EditInv ==
    ASSUME Inv, NEW g \in Files, Edit(g)
    PROVE  Inv'
<1> USE TimesAssumption, NoneAssumption
<1>1. TypeOK /\ PhaseInv /\ ReadInv /\ HashInv /\ EntryInv /\ PromptHitIsFresh
  BY DEF Inv
<1>2. PICK c \in Contents : content' = [content EXCEPT ![g] = c]
  BY DEF Edit
<1>3. now' = now /\ cache' = cache /\ pc' = pc /\ edits' = edits + 1 /\ ctime' = [ctime EXCEPT ![g] = Stamp(now)]
  BY DEF Edit
<1>4. content' \in [Files -> Contents] /\ ctime' \in [Files -> Nat] /\ ctime'[g] = Stamp(now)
      /\ \A f \in Files : f # g => content'[f] = content[f] /\ ctime'[f] = ctime[f]
  BY <1>1, <1>2, <1>3, StampRecent DEF TypeOK
<1>5. ASSUME NEW h \in Hashers
      PROVE  /\ job'[h] \in JobType
             /\ job'[h].path = job[h].path /\ job'[h].start = job[h].start
             /\ job'[h].cacheable = job[h].cacheable /\ job'[h].before = job[h].before
             /\ job'[h].digest = job[h].digest /\ job'[h].after = job[h].after
             /\ job'[h].entries = job[h].entries /\ job'[h].prompt = job[h].prompt
             /\ IF Looking(h) THEN DigestOf(job[h].path, content') \in job'[h].held
                              ELSE job'[h].held = job[h].held
  <2>1. PICK i \in JobType : i = job[h]
    BY <1>1 DEF TypeOK
  <2>2. CASE Looking(h)
    <3>1. DigestOf(i.path, content') \in Reads
      BY <1>1, <1>4, <2>1, <2>2, DigestType DEF PhaseInv, PhaseOf, Looking
    <3>2. job'[h] = [i EXCEPT !.held = @ \cup {DigestOf(i.path, content')}]
      BY <2>1, <2>2 DEF Edit
    <3> QED
      BY <2>1, <2>2, <3>1, <3>2 DEF JobType
  <2>3. CASE ~Looking(h)
    BY <2>1, <2>3 DEF Edit
  <2> QED
    BY <2>2, <2>3
<1>6. TypeOK'
  <2>1. job' \in [Hashers -> JobType]
    BY <1>5 DEF Edit
  <2> QED
    BY <1>1, <1>3, <1>4, <2>1 DEF TypeOK
<1>7. PhaseInv'
  BY <1>1, <1>3, <1>5 DEF PhaseInv, PhaseOf, Looking, Mine
<1>8. ASSUME NEW stats \in Times, NEW f \in Files, NEW began \in Nat, began <= now,
             Settled(stats, f, began), ctime'[f] = stats[f]
      PROVE  ctime[f] = stats[f] /\ content'[f] = content[f]
  <2>1. stats[f] \in Nat /\ stats[f] < Stamp(now) /\ Stamp(now) \in Nat
    BY <1>1, <1>8, SettledIsOld, StampRecent DEF TypeOK
  <2> QED
    BY <1>4, <1>8, <2>1
<1>9. ReadInv'
  <2>1. ASSUME NEW h \in Hashers, pc[h] = "hash", job[h].cacheable, NEW f \in Mine(h),
               job[h].digest[f] # None, Settled(job[h].before, f, job[h].start),
               ctime'[f] = job[h].before[f]
        PROVE  job[h].digest[f] = content'[f]
    <3>1. job[h].before \in Times /\ job[h].start \in Nat /\ job[h].start <= now
      BY <1>1 DEF TypeOK, JobType, PhaseInv, PhaseOf
    <3>2. f \in Files
      BY <1>1, <2>1, FilesOfFiles DEF Mine, PhaseInv, PhaseOf
    <3>3. ctime[f] = job[h].before[f] /\ content'[f] = content[f]
      BY <1>8, <2>1, <3>1, <3>2
    <3> QED
      BY <1>1, <2>1, <3>3 DEF ReadInv, ReadOf
  <2> QED
    BY <1>3, <1>5, <2>1 DEF ReadInv, ReadOf, Mine
<1>10. HashInv'
  <2>1. ASSUME NEW h \in Hashers, pc[h] \in {"after", "decide"}, Undisturbed(h)'
        PROVE  TrueOf(job[h].path, job[h].before, job[h].digest)'
    <3>1. PICK i \in JobType : i = job[h]
      BY <1>1 DEF TypeOK
    <3>2. i.path \in Artifacts /\ i.start \in Nat /\ i.start <= now /\ FilesOf[i.path] \subseteq Files
          /\ i.before \in Times /\ i.digest \in Reads
      BY <1>1, <2>1, <3>1, FilesOfFiles DEF PhaseInv, PhaseOf, JobType
    <3>3. ASSUME NEW f \in FilesOf[i.path]
          PROVE  /\ Settled(i.before, f, i.start)
                 /\ i.before[f] = IF i.after[f] = None THEN ctime[f] ELSE i.after[f]
      <4>1. /\ Settled(i.before, f, i.start)
            /\ i.before[f] = IF i.after[f] = None THEN ctime'[f] ELSE i.after[f]
        BY <1>5, <2>1, <3>1, <3>3 DEF Undisturbed, Mine, Settled
      <4> QED
        BY <1>8, <3>2, <3>3, <4>1
    <3>4. Undisturbed(h)
      BY <3>1, <3>3 DEF Undisturbed, Mine
    <3>5. TrueOf(i.path, i.before, i.digest)
      BY <1>1, <2>1, <3>1, <3>4 DEF HashInv
    <3>6. TrueOf(i.path, i.before, i.digest)'
      BY <1>1, <3>2, <3>3, <3>5, TrueEdited
    <3> QED
      BY <1>5, <3>1, <3>6
  <2> QED
    BY <1>3, <2>1 DEF HashInv
<1>11. EntryInv'
  <2>1. Cached' = Cached
    BY <1>3, <1>5 DEF Cached
  <2>2. ASSUME NEW e \in Cached, Prompt(e)
        PROVE  Good(e)'
    <3>1. e \in EntryType /\ Good(e)
      BY <1>1, <2>2, Typed DEF EntryInv
    <3>2. TrueOf(e.key, e.stats, e.digest)'
      BY <1>1, <3>1, TrueEdited DEF Good, EntryType
    <3> QED
      BY <1>3, <3>1, <3>2 DEF Good, Settled
  <2> QED
    BY <2>1, <2>2 DEF EntryInv, Prompt
<1>12. PromptHitIsFresh'
  BY <1>1, <1>3, <1>5 DEF PromptHitIsFresh, Looking
<1> QED
  BY <1>6, <1>7, <1>9, <1>10, <1>11, <1>12 DEF Inv

\* The cache file is lost, time passes, or nothing happens.
LEMMA WorldInv ==
    ASSUME Inv, CacheLost \/ Tick \/ UNCHANGED vars
    PROVE  Inv'
<1>1. TypeOK /\ PhaseInv /\ ReadInv /\ HashInv /\ EntryInv /\ PromptHitIsFresh
  BY DEF Inv
<1>2. /\ content' = content /\ ctime' = ctime /\ edits' = edits /\ pc' = pc /\ job' = job
      /\ now \in Nat /\ now' \in Nat /\ now <= now' /\ cache' \subseteq cache
  BY <1>1 DEF CacheLost, Tick, vars, disk, TypeOK
<1>3. TypeOK'
  BY <1>1, <1>2 DEF TypeOK
<1>4. PhaseInv'
  <2>1. \A h \in Hashers : job[h].start \in Nat
    BY <1>1 DEF TypeOK, JobType
  <2> QED
    BY <1>1, <1>2, <2>1 DEF PhaseInv, PhaseOf, Looking, Mine
<1>5. \A a, stats, digest : TrueOf(a, stats, digest) => TrueOf(a, stats, digest)'
  BY <1>2 DEF TrueOf, MayMatch, Looking
<1>6. ReadInv' /\ PromptHitIsFresh'
  BY <1>1, <1>2 DEF ReadInv, ReadOf, Mine, Settled, PromptHitIsFresh
<1>7. HashInv'
  BY <1>1, <1>2 DEF HashInv, Undisturbed, Mine, Settled, TrueOf, MayMatch, Looking
<1>8. EntryInv'
  <2>1. ASSUME NEW e \in Cached', Prompt(e)
        PROVE  Good(e)'
    <3>1. e \in Cached
      BY <1>2, <2>1 DEF Cached
    <3>2. Good(e) /\ e.began \in Nat
      BY <1>1, <2>1, <3>1, Typed DEF EntryInv, EntryType
    <3> QED
      BY <1>2, <3>2 DEF Good, Settled, TrueOf, MayMatch, Looking
  <2> QED
    BY <2>1 DEF EntryInv, Prompt
<1> QED
  BY <1>3, <1>4, <1>6, <1>7, <1>8 DEF Inv

\* Every step preserves the invariant.
LEMMA NextInv ==
    ASSUME Inv, [Next]_vars
    PROVE  Inv'
<1>1. ASSUME NEW h \in Hashers, Hash(h)
      PROVE  Inv'
  <2>1. ASSUME Abandon(h) \/ DoNotStore(h) \/ Replace(h) \/ StoreFails(h) \/ Return(h)
        PROVE  Inv'
    BY <2>1, EndInv DEF Abandon, DoNotStore, Replace, StoreFails, Return, Finish, Step
  <2> QED
    BY <1>1, <2>1, BeginInv, StatBeforeInv, ToHashInv, HitInv, HashFileInv, StatAfterInv, StoreInv
    DEF Hash
<1> QED
  BY <1>1, EditInv, WorldInv DEF Next

\* What a call has read, computed and stored fits the files at every moment.
THEOREM Invariance == Spec => []Inv
<1>1. Init => Inv
  BY InitInv
<1>2. Inv /\ [Next]_vars => Inv'
  BY NextInv
<1> QED
  BY <1>1, <1>2, PTL DEF Spec

\* A hit on an entry stored within RACY_MARGIN - Granularity of the beginning
\* of its call is the digest of a state the artifact was in during the call.
THEOREM PromptHitsAreFresh == Spec => []PromptHitIsFresh
<1>1. Inv => PromptHitIsFresh
  BY DEF Inv
<1> QED
  BY <1>1, Invariance, PTL
=============================================================================

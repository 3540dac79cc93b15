----------------------------- MODULE DigestCache -----------------------------
(***************************************************************************)
(* The opt-in digest cache (cache/digest_cache.py): hash() reuses a stored *)
(* digest when the metadata of every file of an artifact is what it was    *)
(* when the digest was stored.  Files are edited at any moment, clocks     *)
(* tick, several processes share the cache file, and hashing takes any     *)
(* time: nothing in the code bounds it.                                    *)
(*                                                                         *)
(* Of the metadata only ctime is kept: every change of content sets it to  *)
(* the current time, rounded down to the granularity of the file system,   *)
(* and nothing else sets it.  Edits keep size and inode, the case that     *)
(* those two fields cannot detect.  The digest of an artifact is the       *)
(* function from its files to the contents read.                           *)
(*                                                                         *)
(* Three fields only observe and enable no step: held, the states of the   *)
(* artifact since a call began; prompt, whether the entry a call took was  *)
(* stored promptly; and began, when the call that stored an entry began.   *)
(***************************************************************************)
EXTENDS Integers, FiniteSets

CONSTANTS
    Artifacts,      \* artifact paths
    FilesOf,        \* the files of each artifact, disjoint
    Contents,       \* contents of a file
    Initial,        \* what the files may hold in the beginning
    Hashers,        \* processes calling hash()
    None,           \* "no value"
    Granularity,    \* clock ticks per file system timestamp
    RACY_MARGIN,    \* RACY_MARGIN_NS, in clock ticks
    MAX_ENTRIES,    \* entries the cache file keeps
    MaxTime,        \* bound: the clock
    MaxEdits        \* bound: edits of files

Files == UNION {FilesOf[a] : a \in Artifacts}

ASSUME TimesAssumption ==
    /\ Granularity \in Nat \ {0} /\ RACY_MARGIN \in Nat
    /\ MAX_ENTRIES \in Nat \ {0} /\ MaxTime \in Nat /\ MaxEdits \in Nat
ASSUME FilesAssumption ==
    /\ \A a \in Artifacts : FilesOf[a] # {}
    /\ \A a, b \in Artifacts : a # b => FilesOf[a] \cap FilesOf[b] = {}
    /\ Initial \subseteq [Files -> Contents]
ASSUME NoneAssumption == None \notin Nat \cup Contents \cup Artifacts

VARIABLES
    now,        \* the clock
    content,    \* of each file
    ctime,      \* of each file
    edits,      \* how often files were edited
    cache,      \* the entries of the cache file
    pc,         \* where a hasher stands in its call
    job         \* the arguments and local variables of its call

vars == <<now, content, ctime, edits, cache, pc, job>>

Stamp(t) == t - (t % Granularity)

Entry(key, stats, digest, recorded, began) ==
    [key |-> key, stats |-> stats, digest |-> digest, recorded_at |-> recorded, began |-> began]

Unread == [f \in Files |-> None]
NoJob == [path |-> None, start |-> 0, cacheable |-> TRUE, before |-> Unread, digest |-> Unread,
          after |-> Unread, entries |-> {}, held |-> {}, prompt |-> FALSE]

\* The digest of an artifact whose files are in the given state.
DigestOf(a, contents) == [f \in Files |-> IF f \in FilesOf[a] THEN contents[f] ELSE None]

Init ==
    /\ now = 0
    /\ content \in Initial
    /\ ctime = [f \in Files |-> 0]
    /\ edits = 0
    /\ cache = {}
    /\ pc = [h \in Hashers |-> "idle"]
    /\ job = [h \in Hashers |-> NoJob]

-----------------------------------------------------------------------------
(* One call of hash().                                                     *)

disk == <<now, content, ctime, edits>>

Step(h, from, to) ==
    /\ pc[h] = from
    /\ pc' = [pc EXCEPT ![h] = to]

Finish(h, from) ==
    /\ Step(h, from, "idle")
    /\ job' = [job EXCEPT ![h] = NoJob]

Mine(h) == FilesOf[job[h].path]
Left(h, reads) == {f \in Mine(h) : reads[f] = None}

\* Read one more file in the given phase, and enter the next phase with the last.
Visit(h, f, phase, reads, following) ==
    /\ pc[h] = phase
    /\ f \in Left(h, reads)
    /\ pc' = [pc EXCEPT ![h] = IF Left(h, reads) = {f} THEN following ELSE phase]

Begin(h, a) ==
    /\ Step(h, "idle", "before")
    /\ job' = [job EXCEPT ![h] = [NoJob EXCEPT !.path = a, !.start = now,
                                               !.held = {DigestOf(a, content)}]]
    /\ UNCHANGED <<disk, cache>>

\* _capture_fingerprint(), one lstat() at a time.
StatBefore(h, f) ==
    /\ Visit(h, f, "before", job[h].before, "lookup")
    /\ job' = [job EXCEPT ![h].before[f] = ctime[f]]
    /\ UNCHANGED <<disk, cache>>

\* It returns None: the artifact is hashed and nothing is stored.
Uncacheable(h) ==
    /\ Step(h, "before", "hash")
    /\ job' = [job EXCEPT ![h].cacheable = FALSE, ![h].before = Unread, ![h].held = {}]
    /\ UNCHANGED <<disk, cache>>

Matches(e, h) == e.key = job[h].path /\ e.stats = job[h].before

\* The entry was stored so soon after its call began that its timestamps were
\* already a full granule old at that moment.
Prompt(e) == e.recorded_at - e.began + Granularity <= RACY_MARGIN

\* _load() and the lookup: a hit returns the stored digest.
Hit(h) ==
    /\ Step(h, "lookup", "hit")
    /\ \E e \in cache :
        /\ Matches(e, h)
        /\ job' = [job EXCEPT ![h].digest = e.digest, ![h].prompt = Prompt(e)]
    /\ UNCHANGED <<disk, cache>>

Miss(h) ==
    /\ Step(h, "lookup", "hash")
    /\ \A e \in cache : ~Matches(e, h)
    /\ job' = [job EXCEPT ![h].held = {}]
    /\ UNCHANGED <<disk, cache>>

\* hash_artifact(), one file at a time.
HashFile(h, f) ==
    /\ Visit(h, f, "hash", job[h].digest, IF job[h].cacheable THEN "after" ELSE "return")
    /\ job' = [job EXCEPT ![h].digest[f] = content[f]]
    /\ UNCHANGED <<disk, cache>>

StatAfter(h, f) ==
    /\ Visit(h, f, "after", job[h].after, "decide")
    /\ job' = [job EXCEPT ![h].after[f] = ctime[f]]
    /\ UNCHANGED <<disk, cache>>

\* hash_artifact() raises, the second fingerprint is None, or the process dies.
Abandon(h) ==
    /\ \E phase \in {"before", "lookup", "hash", "after"} : Finish(h, phase)
    /\ UNCHANGED <<disk, cache>>

_all_older_than_margin(h) ==
    \A f \in Mine(h) : job[h].before[f] <= now - RACY_MARGIN

StoreAllowed_NoMargin(h) == job[h].after = job[h].before
\* Stat-hash-stat, then the racy margin, measured at the moment of storing.
StoreAllowed(h) == job[h].after = job[h].before /\ _all_older_than_margin(h)

DoNotStore(h) ==
    /\ Finish(h, "decide")
    /\ ~StoreAllowed(h)
    /\ UNCHANGED <<disk, cache>>

\* The entries kept when there are too many: the most recently recorded ones.
Kept(entries) ==
    {k \in SUBSET entries :
        /\ Cardinality(k) = IF Cardinality(entries) > MAX_ENTRIES
                            THEN MAX_ENTRIES ELSE Cardinality(entries)
        /\ \A e \in k, o \in entries \ k : o.recorded_at <= e.recorded_at}

\* _store() loads the file as it is now, adds the entry and drops the oldest.
Store(h) ==
    /\ Step(h, "decide", "replace")
    /\ StoreAllowed(h)
    /\ LET entry == Entry(job[h].path, job[h].before, job[h].digest, now, job[h].start)
           entries == {e \in cache : e.key # job[h].path} \cup {entry}
       IN  \E kept \in Kept(entries) : job' = [job EXCEPT ![h].entries = kept]
    /\ UNCHANGED <<disk, cache>>

\* os.replace(): last writer wins.
Replace(h) ==
    /\ Finish(h, "replace")
    /\ cache' = job[h].entries
    /\ UNCHANGED disk

\* A failed write, or a temporary name already taken, is logged and swallowed;
\* a crash has the same effect.
StoreFails(h) ==
    /\ Finish(h, "replace")
    /\ UNCHANGED <<disk, cache>>

Return(h) ==
    /\ Finish(h, "hit") \/ Finish(h, "return")
    /\ UNCHANGED <<disk, cache>>

-----------------------------------------------------------------------------
(* The world around it.                                                    *)

\* The hashers that may still take a digest from the cache.
Looking(h) == pc[h] \in {"before", "lookup"}

Edit(f) ==
    /\ edits < MaxEdits
    /\ edits' = edits + 1
    /\ content' \in {[content EXCEPT ![f] = c] : c \in Contents}
    /\ ctime' = [ctime EXCEPT ![f] = Stamp(now)]
    /\ job' = [h \in Hashers |->
          IF Looking(h) THEN [job[h] EXCEPT !.held = @ \cup {DigestOf(job[h].path, content')}]
                        ELSE job[h]]
    /\ UNCHANGED <<now, cache, pc>>

\* The cache file is deleted, corrupt, too large or somebody else's: _load()
\* takes it for empty.
CacheLost ==
    /\ cache # {}
    /\ cache' = {}
    /\ UNCHANGED <<disk, pc, job>>

Tick ==
    /\ now < MaxTime
    /\ now' = now + 1
    /\ UNCHANGED <<content, ctime, edits, cache, pc, job>>

-----------------------------------------------------------------------------
Hash(h) ==
    \/ \E a \in Artifacts : Begin(h, a)
    \/ \E f \in Files : StatBefore(h, f) \/ HashFile(h, f) \/ StatAfter(h, f)
    \/ Uncacheable(h) \/ Abandon(h) \/ Hit(h) \/ Miss(h) \/ DoNotStore(h) \/ Store(h)
    \/ Replace(h) \/ StoreFails(h) \/ Return(h)

Next == (\E h \in Hashers : Hash(h)) \/ (\E f \in Files : Edit(f)) \/ CacheLost \/ Tick
Spec == Init /\ [][Next]_vars

-----------------------------------------------------------------------------
(* Properties.                                                             *)

\* The digest that hash() takes from the cache is the digest of a state that
\* the whole artifact was in at one moment of the call ("the files look
\* unchanged since ModelGuard last hashed them").  The docstring promises it
\* without a condition; it fails when hashing outlasts the racy margin, since
\* the margin is measured at the moment of storing.
HitIsFresh ==
    \A h \in Hashers : pc[h] = "hit" => job[h].digest \in job[h].held

\* It holds of every entry that was stored promptly, whatever edits, other
\* processes and lost cache files do, and however slow the other calls are.
PromptHitIsFresh ==
    \A h \in Hashers : pc[h] = "hit" /\ job[h].prompt => job[h].digest \in job[h].held

-----------------------------------------------------------------------------
(* The inductive invariant behind the proofs in DigestCacheProofs.         *)

Times == [Files -> Nat \cup {None}]
Reads == [Files -> Contents \cup {None}]
EntryType == [key : Artifacts, stats : Times, digest : Reads, recorded_at : Nat, began : Nat]
JobType ==
    [path : Artifacts \cup {None}, start : Nat, cacheable : BOOLEAN, before : Times, digest : Reads,
     after : Times, entries : SUBSET EntryType, held : SUBSET Reads, prompt : BOOLEAN]

TypeOK ==
    /\ now \in Nat
    /\ content \in [Files -> Contents]
    /\ ctime \in [Files -> Nat]
    /\ edits \in Nat
    /\ cache \in SUBSET EntryType
    /\ pc \in [Hashers -> {"idle", "before", "lookup", "hit", "hash", "after", "decide",
                           "replace", "return"}]
    /\ job \in [Hashers -> JobType]

\* What a hasher has read, by phase.
PhaseOf(h) ==
    /\ job[h].start <= now
    /\ pc[h] # "idle" => job[h].path \in Artifacts
    /\ Looking(h) => job[h].digest = Unread /\ DigestOf(job[h].path, content) \in job[h].held
    /\ pc[h] \in {"before", "lookup", "hash"} => job[h].after = Unread
    /\ pc[h] \in {"lookup", "after", "decide"} \/ (pc[h] = "hash" /\ job[h].cacheable) =>
          \A f \in Mine(h) : job[h].before[f] # None
    /\ pc[h] = "hash" => \A f \in Files \ Mine(h) : job[h].digest[f] = None
PhaseInv == \A h \in Hashers : PhaseOf(h)

\* A timestamp older than a call, so that later edits cannot repeat it.
Settled(stats, f, began) == stats[f] # None /\ stats[f] + Granularity <= began

\* A file that still has its settled timestamp has the content read since.
ReadOf(h) ==
    pc[h] = "hash" /\ job[h].cacheable => \A f \in Mine(h) :
        /\ job[h].digest[f] # None /\ Settled(job[h].before, f, job[h].start)
        /\ ctime[f] = job[h].before[f]
        => job[h].digest[f] = content[f]
ReadInv == \A h \in Hashers : ReadOf(h)

\* A call that may still find the given timestamps, all of them.
MayMatch(h, a, stats) ==
    /\ Looking(h) /\ job[h].path = a
    /\ \A f \in FilesOf[a] :
          stats[f] = IF job[h].before[f] = None THEN ctime[f] ELSE job[h].before[f]

\* A digest that is true of the given timestamps: of every file that still has
\* its own, and of the artifact at some moment of every call that may match.
TrueOf(a, stats, digest) ==
    /\ \A f \in Files \ FilesOf[a] : digest[f] = None
    /\ \A f \in FilesOf[a] : ctime[f] = stats[f] => digest[f] = content[f]
    /\ \A h \in Hashers : MayMatch(h, a, stats) => digest \in job[h].held

\* So far no file has changed since the first fingerprint.
Undisturbed(h) ==
    \A f \in Mine(h) :
        /\ Settled(job[h].before, f, job[h].start)
        /\ job[h].before[f] = IF job[h].after[f] = None THEN ctime[f] ELSE job[h].after[f]

\* What an undisturbed call has computed is true of its fingerprint ...
HashInv ==
    \A h \in Hashers :
        pc[h] \in {"after", "decide"} /\ Undisturbed(h) =>
            TrueOf(job[h].path, job[h].before, job[h].digest)

\* ... and so are the entries stored promptly.
Cached == cache \cup UNION {job[h].entries : h \in Hashers}

Good(e) ==
    /\ \A f \in FilesOf[e.key] : Settled(e.stats, f, e.began)
    /\ e.began <= now
    /\ TrueOf(e.key, e.stats, e.digest)
EntryInv == \A e \in Cached : Prompt(e) => Good(e)

Inv == TypeOK /\ PhaseInv /\ ReadInv /\ HashInv /\ EntryInv /\ PromptHitIsFresh
=============================================================================

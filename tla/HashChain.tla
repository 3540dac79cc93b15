------------------------------ MODULE HashChain ------------------------------
(***************************************************************************)
(* Appending to a hash-chained log (audit/chain.py, used by                *)
(* audit/log.py): append_entry() reads the last line, then opens the file  *)
(* again and writes.  Writers may interleave between the two, a write may  *)
(* fail or its process may die with only a part of the line on disk, and   *)
(* somebody may edit the finished file with an editor.                     *)
(*                                                                         *)
(* Records are the numbers of the append calls: each carries a fresh       *)
(* correlation_id, so no two are equal.  0 stands for content that an edit *)
(* puts in the place of a record.                                          *)
(***************************************************************************)
EXTENDS ChainFile, FiniteSets

CONSTANTS
    Writers,        \* processes appending to the log
    MaxAppends,     \* bound: append_entry() calls per behaviour
    MaxFaults,      \* bound: writes that do not return normally
    MaxEdits        \* bound: edits of the finished file by hand

VARIABLES
    file,       \* the lines of the log
    pc,         \* "idle", or "write" between reading and writing
    entry,      \* the entry a writer has prepared
    acked,      \* records whose append_entry() returned, in that order
    issued,     \* the logs, as sequences of records, that appends have made
    raced,      \* whether two append_entry() calls have overlapped
    appends, faults, edits      \* counters for the bounds

vars == <<file, pc, entry, acked, issued, raced, appends, faults, edits>>

Init ==
    /\ file = << >>
    /\ pc = [w \in Writers |-> "idle"]
    /\ entry = [w \in Writers |-> Entry(0, Genesis, 0)]
    /\ acked = << >> /\ issued = {Genesis} /\ raced = FALSE
    /\ appends = 0 /\ faults = 0 /\ edits = 0

-----------------------------------------------------------------------------
\* append_entry(), up to opening the file for writing.
ReadLast(w) ==
    /\ pc[w] = "idle"
    /\ appends < MaxAppends
    /\ appends' = appends + 1
    /\ ~LastUnreadable(file)
    /\ entry' = [entry EXCEPT ![w] = NextEntry(file, appends + 1)]
    /\ pc' = [pc EXCEPT ![w] = "write"]
    /\ raced' = (raced \/ \E v \in Writers : pc[v] = "write")
    /\ UNCHANGED <<file, acked, issued, faults, edits>>

\* _read_last_entry() raises: nothing is written.
ReadLastFails(w) ==
    /\ pc[w] = "idle"
    /\ appends < MaxAppends
    /\ appends' = appends + 1
    /\ LastUnreadable(file)
    /\ UNCHANGED <<file, pc, entry, acked, issued, raced, faults, edits>>

\* The write.  Opened with "a", it lands at the end of the file as it now is.
Write(w) ==
    /\ pc[w] = "write"
    /\ pc' = [pc EXCEPT ![w] = "idle"]
    /\ file' = AppendText(file, Line(<<entry[w]>>, FALSE, TRUE))
    /\ issued' = issued \cup {entry[w].record_hash}
    /\ acked' = Append(acked, entry[w].record)
    /\ UNCHANGED <<entry, raced, appends, faults, edits>>

\* What a full disk or a dying process can leave of the line: nothing, a
\* fragment, all but its newline, or all of it with nobody told.
PartialWrites(e) ==
    {Line(<< >>, TRUE, FALSE), Line(<<e>>, FALSE, FALSE), Line(<<e>>, FALSE, TRUE)}

WriteFails(w) ==
    /\ pc[w] = "write"
    /\ faults < MaxFaults
    /\ faults' = faults + 1
    /\ pc' = [pc EXCEPT ![w] = "idle"]
    /\ \/ UNCHANGED <<file, issued>>
       \/ \E line \in PartialWrites(entry[w]) :
            /\ file' = AppendText(file, line)
            /\ issued' = IF line.torn THEN issued ELSE issued \cup {entry[w].record_hash}
    /\ UNCHANGED <<entry, acked, raced, appends, edits>>

-----------------------------------------------------------------------------
(* Edits of the file at rest: any one field of a line, the edits of whole  *)
(* lines that the module says it detects, and the one (cutting the tail)   *)
(* that it says it does not.  A forger who recomputes the hashes of every  *)
(* line is outside, as in the module's docstring.                          *)

Edited ==
    /\ edits < MaxEdits
    /\ edits' = edits + 1
    /\ \A w \in Writers : pc[w] = "idle"
    /\ ~Unreadable(file)
    /\ UNCHANGED <<pc, entry, acked, issued, raced, appends, faults>>

\* The index may become any number, and a hash any that the log has ever had.
EditedEntries(e) ==
    {[e EXCEPT !.record = 0]}
    \cup {[e EXCEPT !.index = n] : n \in {0, MaxAppends}}
    \cup {[e EXCEPT !.prev_hash = h] : h \in issued}
    \cup {[e EXCEPT !.record_hash = h] : h \in issued}

EditEntry(i) ==
    /\ Edited
    /\ \E e \in EditedEntries(file[i].entries[1]) : file' = [file EXCEPT ![i].entries[1] = e]

DeleteLine(i) ==
    /\ Edited
    /\ i < Len(file)
    /\ file' = SubSeq(file, 1, i - 1) \o SubSeq(file, i + 1, Len(file))

SwapLines(i, j) ==
    /\ Edited
    /\ file[i].newline /\ file[j].newline
    /\ file' = [file EXCEPT ![i] = file[j], ![j] = file[i]]

CutTail(i) ==
    /\ Edited
    /\ file' = SubSeq(file, 1, i - 1)

-----------------------------------------------------------------------------
Append1(w) == ReadLast(w) \/ ReadLastFails(w) \/ Write(w) \/ WriteFails(w)

Edit ==
    \E i \in DOMAIN file :
        \/ EditEntry(i) \/ DeleteLine(i) \/ CutTail(i)
        \/ \E j \in DOMAIN file : i < j /\ SwapLines(i, j)

Next == (\E w \in Writers : Append1(w)) \/ Edit
Spec == Init /\ [][Next]_vars

-----------------------------------------------------------------------------
(* Properties.                                                             *)

ReadRecords == [i \in DOMAIN file |-> read_all_entries(file)[i].record]

\* An append that returned is never lost behind the caller's back, however
\* many writers there are and whatever happens to the other writes: readers
\* of the log either fail or see every such record, in the order in which
\* the appends returned, as long as nobody edits the file.
AckedReadable ==
    edits = 0 => Unreadable(file) \/
        \E f \in [DOMAIN acked -> DOMAIN file] :
            /\ \A i \in DOMAIN acked : ReadRecords[f[i]] = acked[i]
            /\ \A i, j \in DOMAIN acked : i < j => f[i] < f[j]

\* While no two appends overlap, nothing but editing raises ChainIntegrityError:
\* a write cut short, or one whose newline is missing, is reported as
\* unreadable text and never as tampering.
NoFalseAlarm == edits = 0 /\ ~raced => Unreadable(file) \/ verify_chain(file)

\* The records of a readable log that verifies are exactly those that a
\* sequence of appends once left in it: edited, deleted and reordered records
\* and two writers that raced are all detected, also after further edits and
\* after appends on top of them.  A log whose tail was cut off is such a log,
\* and is not detected; nor is an edited index, which no hash covers and
\* verify_chain() never compares: the property says nothing of the indexes.
VerifiedIsGenuine ==
    Unreadable(file) \/ ~verify_chain(file) \/ ReadRecords \in issued
=============================================================================

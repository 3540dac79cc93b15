------------------------------ MODULE ChainFile ------------------------------
(***************************************************************************)
(* The hash-chained JSON Lines file of audit/chain.py as a data structure: *)
(* its bytes, what the readers make of them and what appending adds.  The  *)
(* audit log, the provenance store and the revocation log of the local     *)
(* registry are all such files.                                            *)
(*                                                                         *)
(* A line keeps every complete entry whose JSON text is on it, so that     *)
(* text is never lost in the model: a line parses only if it holds exactly *)
(* one entry and no fragment.  A SHA-256 hash is the sequence of records   *)
(* it covers, so hashes are equal exactly when the hashed bytes are.       *)
(***************************************************************************)
EXTENDS Naturals, Sequences

Genesis == << >>        \* _GENESIS_HASH

Entry(index, prev, record) ==
    [index |-> index, prev_hash |-> prev, record |-> record,
     record_hash |-> Append(prev, record)]

\* A line of text: its entries, whether it holds a fragment of an entry, and
\* whether a newline ends it.
Line(entries, torn, newline) == [entries |-> entries, torn |-> torn, newline |-> newline]

Parses(line) == Len(line.entries) = 1 /\ ~line.torn

\* What open("a").write() does: text continues an unfinished last line.
AppendText_Rewrites(file, line) == <<line>>
AppendText(file, line) ==
    IF file # << >> /\ ~file[Len(file)].newline
    THEN [file EXCEPT ![Len(file)] =
              Line(@.entries \o line.entries, @.torn \/ line.torn, line.newline)]
    ELSE Append(file, line)

-----------------------------------------------------------------------------
\* read_all_entries() raises JSONDecodeError on any line that does not parse.
Unreadable(file) == \E i \in DOMAIN file : ~Parses(file[i])
read_all_entries(file) == [i \in DOMAIN file |-> file[i].entries[1]]

\* _read_last_entry() looks at the last line only.
LastUnreadable(file) == file # << >> /\ ~Parses(file[Len(file)])
_read_last_entry(file) == file[Len(file)].entries[1]

\* The first half of append_entry(): the entry that continues the file.
NextEntry_PrevOfLast(file, record) ==
    IF file = << >>
    THEN Entry(0, Genesis, record)
    ELSE LET last == _read_last_entry(file)
         IN  Entry(last.index + 1, last.prev_hash, record)
NextEntry(file, record) ==
    IF file = << >>
    THEN Entry(0, Genesis, record)
    ELSE LET last == _read_last_entry(file)
         IN  Entry(last.index + 1, last.record_hash, record)

\* verify_chain() on a readable file: no ChainIntegrityError.
verify_chain_LinksOnly(file) ==
    LET entries == read_all_entries(file)
    IN  \A i \in DOMAIN entries :
            entries[i].prev_hash = IF i = 1 THEN Genesis ELSE entries[i - 1].record_hash
verify_chain(file) ==
    LET entries == read_all_entries(file)
    IN  \A i \in DOMAIN entries :
            /\ entries[i].prev_hash = IF i = 1 THEN Genesis ELSE entries[i - 1].record_hash
            /\ entries[i].record_hash = Append(entries[i].prev_hash, entries[i].record)
=============================================================================

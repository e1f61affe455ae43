--------------------------- MODULE BoundedJournal ---------------------------
(***************************************************************************)
(* append_bounded_line (bounded_journal.py): a file of at most MaxLines    *)
(* lines that is read, extended, trimmed and replaced under a lock of its  *)
(* own.  A component that journals extends this module and says what       *)
(* becomes of the other variables.                                         *)
(***************************************************************************)
EXTENDS Naturals, Sequences

CONSTANTS
  Process, NoProcess,
  MaxLines    \* max_lines

ASSUME MaxLinesAssumption == MaxLines \in Nat \ {0}
ASSUME NoProcessAssumption == NoProcess \notin Process

VARIABLES
  journal,    \* the lines of the file
  holder,     \* who holds <path>.lock
  entry,      \* each writer: "idle", "waiting" or "replacing"
  line,       \* the line it has to append
  text,       \* the new contents it has prepared
  written     \* for the properties: every line written so far, in order

journalVars == <<journal, holder, entry, line, text, written>>

NoLine == [call |-> 0]

JournalInit ==
  /\ journal = <<>> /\ written = <<>>
  /\ holder = NoProcess
  /\ entry = [p \in Process |-> "idle"]
  /\ line = [p \in Process |-> NoLine]
  /\ text = [p \in Process |-> <<>>]

Newest(lines) ==
  IF Len(lines) <= MaxLines THEN lines
  ELSE SubSeq(lines, Len(lines) - MaxLines + 1, Len(lines))

JournalBegin(p, l) ==
  /\ entry[p] = "idle"
  /\ entry' = [entry EXCEPT ![p] = "waiting"]
  /\ line' = [line EXCEPT ![p] = l]
  /\ UNCHANGED <<journal, holder, text, written>>

Prepare(p) ==
  /\ entry[p] = "waiting"
  /\ text' = [text EXCEPT ![p] = Newest(Append(journal, line[p]))]
  /\ entry' = [entry EXCEPT ![p] = "replacing"]
  /\ UNCHANGED <<journal, line, written>>

\* Mutant: no lock around the read and the write.
JournalReadUnlocked(p) == Prepare(p) /\ UNCHANGED holder

\* acquire_lock, then read, append and trim; the temporary file is written.
JournalRead(p) == holder = NoProcess /\ Prepare(p) /\ holder' = p

\* What a writer leaves behind when it is through, gives up or dies; the
\* kernel releases the lock of the dead.
JournalEnd(p) ==
  /\ entry' = [entry EXCEPT ![p] = "idle"]
  /\ line' = [line EXCEPT ![p] = NoLine]
  /\ text' = [text EXCEPT ![p] = <<>>]
  /\ holder' = IF holder = p THEN NoProcess ELSE holder

\* os.replace, then release_lock.
JournalReplace(p) ==
  /\ entry[p] = "replacing"
  /\ journal' = text[p]
  /\ written' = Append(written, line[p])
  /\ JournalEnd(p)

\* LockTimeoutError, or an OSError while reading or writing.
JournalFail(p) ==
  /\ entry[p] # "idle"
  /\ JournalEnd(p)
  /\ UNCHANGED <<journal, written>>

\* The file holds the newest lines that were written, however many processes
\* append at once and wherever they die: none is lost but to the bound.
JournalKeepsNewest == journal = Newest(written)
=============================================================================

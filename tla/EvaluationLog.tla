---------------------------- MODULE EvaluationLog ----------------------------
(***************************************************************************)
(* The validator's local log of evaluations (EvaluationLog): JSON lines in *)
(* a file of bounded size with a bounded number of backups.  A round       *)
(* appends several records; a record that does not fit the file rotates    *)
(* the files first, by one unlink and a series of renames.  The process    *)
(* may die, and a write or a rename may fail, between any two of these     *)
(* steps and in the middle of a write.                                     *)
(*                                                                         *)
(* A file is a sequence of bytes.  A record of n bytes is the bytes        *)
(* <<id, 1, n>> .. <<id, n - 1, n>> and a newline.                         *)
(***************************************************************************)
EXTENDS Integers, Sequences, SequencesExt

CONSTANTS
    Backups,     \* backup_count
    MaxFile,     \* max_file_bytes
    MaxRecord,   \* MAX_RECORD_BYTES
    Parts,       \* the [base, reason, check] sizes of the records rounds produce
    MaxRecords   \* bound of the model: records ever begun

\* What is assumed of the constants; evaluated in ValidatorParts.
EvaluationLogAssumption ==
    /\ Backups \in Nat /\ MaxRecord \in Nat \ {0}
    /\ MaxFile \in Nat /\ MaxFile >= MaxRecord
    /\ Parts \subseteq [base : 2..MaxFile, reason : 0..MaxFile, check : 0..MaxFile]

VARIABLES
    files,    \* 0..Backups -> contents, or Absent
    pc,       \* "idle", "write", "rotate", "rewrite"
    index,    \* the rename that is next in _rotate; Backups stands for the unlink
    left,     \* records of the round that are still to be written
    record,   \* the record being appended: [id, size]
    begun,    \* the number of records begun
    logged    \* history: the ids of the records that were written whole, in order

vars == <<files, pc, index, left, record, begun, logged>>

Absent == << <<-1, -1, -1>> >>   \* not the contents of any file
NL == <<0, 0, 0>>

Contents(f) == IF f = Absent THEN << >> ELSE f

Raw(r) == [i \in 1..r.size |-> IF i = r.size THEN NL ELSE <<r.id, i, r.size>>]
-----------------------------------------------------------------------------
Init ==
    /\ files = [i \in 0..Backups |-> Absent]
    /\ pc = "idle" /\ index = 0 /\ left = 0
    /\ record = [id |-> 0, size |-> 0]
    /\ begun = 0 /\ logged = << >>

\* record_round: optional fields go first, the failed check before the reason; a
\* record whose base is too large is an error (0).
Fitted(p) ==
    LET sizes == <<p.base + p.reason + p.check, p.base + p.reason, p.base>>
        fits  == {i \in 1..3 : sizes[i] <= MaxRecord}
    IN  IF fits = {} THEN 0 ELSE sizes[CHOOSE i \in fits : \A j \in fits : i <= j]

StartRound(n) ==
    /\ pc = "idle" /\ left = 0
    /\ left' = n
    /\ UNCHANGED <<files, pc, index, record, begun, logged>>

NextRecord(p) ==
    /\ pc = "idle" /\ left > 0 /\ begun < MaxRecords
    /\ begun' = begun + 1
    /\ record' = [id |-> begun + 1, size |-> Fitted(p)]
    /\ IF Fitted(p) = 0 THEN left' = 0 /\ pc' = "idle"
                        ELSE left' = left - 1 /\ pc' = "write"
    /\ UNCHANGED <<files, index, logged>>

\* Faulty variant: a record is appended to whatever the file ends with.
SeparatorNever(f) == << >>

\* _write_if_fits: a partial line is ended before the record.
Separator(f) == IF f # << >> /\ Last(f) # NL THEN <<NL>> ELSE << >>

Fits(f) == Len(f) + Len(Separator(f)) + record.size <= MaxFile

Written == Separator(Contents(files[0])) \o Raw(record)

\* os.open creates the file even when the record does not fit it.
WriteIfFits ==
    /\ pc \in {"write", "rewrite"}
    /\ LET f == Contents(files[0])
       IN  \/ /\ Fits(f)
              /\ files' = [files EXCEPT ![0] = f \o Written]
              /\ logged' = Append(logged, record.id)
              /\ pc' = "idle"
              /\ UNCHANGED index
           \/ /\ ~Fits(f) /\ pc = "write"
              /\ files' = [files EXCEPT ![0] = f]
              /\ pc' = "rotate" /\ index' = Backups
              /\ UNCHANGED logged
    /\ UNCHANGED <<left, record, begun>>

\* Faulty variant: the renames run from the newest file to the oldest.
MovesUp(i) ==
    IF i = Backups THEN [files EXCEPT ![Backups] = Absent]
    ELSE LET j == Backups - 1 - i
         IN  IF files[j] = Absent THEN files
             ELSE [files EXCEPT ![j + 1] = files[j], ![j] = Absent]

\* _rotate: the oldest backup is removed, then each file takes the next name; a
\* missing file is passed over.  Without backups the file itself is removed.
Moves(i) ==
    IF i = Backups THEN [files EXCEPT ![i] = Absent]
    ELSE IF files[i] = Absent THEN files
    ELSE [files EXCEPT ![i + 1] = files[i], ![i] = Absent]

Rotate ==
    /\ pc = "rotate"
    /\ files' = Moves(index)
    /\ IF index = 0 THEN pc' = "rewrite" /\ UNCHANGED index
                    ELSE index' = index - 1 /\ UNCHANGED pc
    /\ UNCHANGED <<left, record, begun, logged>>

\* A write is cut short after n bytes.  A record that lacks at most its newline is in
\* the log, whatever the process made of it.
Torn(n) ==
    /\ pc \in {"write", "rewrite"}
    /\ Fits(Contents(files[0])) /\ n \in 0..Len(Written)
    /\ files' = [files EXCEPT ![0] = Contents(@) \o SubSeq(Written, 1, n)]
    /\ logged' = IF n >= Len(Written) - 1 THEN Append(logged, record.id) ELSE logged

\* The process dies, or an OSError ends record_round with False: either way the
\* records left of the round are not written, and the next round carries on.
Abandon ==
    /\ pc # "idle"
    /\ \/ \E n \in 0..MaxRecord + 1 : Torn(n)
       \/ UNCHANGED <<files, logged>>
    /\ pc' = "idle" /\ index' = 0 /\ left' = 0
    /\ UNCHANGED <<record, begun>>

Next ==
    \/ \E n \in 1..2 : StartRound(n)
    \/ \E p \in Parts : NextRecord(p)
    \/ WriteIfFits \/ Rotate \/ Abandon

Spec == Init /\ [][Next]_vars
-----------------------------------------------------------------------------
\* Lines that parse: they start a line and run to its end, or the end of the file.
Starts(f) ==
    {p \in DOMAIN f :
        /\ f[p] # NL /\ f[p][2] = 1
        /\ p = 1 \/ f[p - 1] = NL
        /\ LET size == f[p][3]
           IN  /\ p + size - 2 <= Len(f)
               /\ \A i \in 1..size - 1 : f[p + i - 1] = <<f[p][1], i, size>>
               /\ p + size - 2 = Len(f) \/ f[p + size - 1] = NL}

ReadableIn(f) ==
    LET at == SetToSortSeq(Starts(f), <)
    IN  [i \in DOMAIN at |-> f[at[i]][1]]

\* What a reader of all the files finds, oldest first.
Readable ==
    FlattenSeq([i \in 1..Backups + 1 |-> ReadableIn(Contents(files[Backups + 1 - i]))])

\* The log on disk never exceeds its bounds, and a record begun always fits a file.
TypeOK ==
    /\ DOMAIN files = 0..Backups
    /\ \A i \in 0..Backups : Len(Contents(files[i])) <= MaxFile
    /\ pc \in {"idle", "write", "rotate", "rewrite"}
    /\ index \in 0..Backups /\ left \in 0..2
    /\ pc = "rewrite" => files[0] = Absent /\ record.size \in 1..MaxFile

\* A record that was appended is there to be read, however many writes before it
\* were cut short.
AppendedIsReadable ==
    [][logged' # logged => Last(logged') \in ToSet(ReadableIn(Contents(files'[0])))]_vars

\* However rotation is interrupted and taken up again, what is readable is the latest
\* part of what was logged, in order and without a hole.
OldestLostFirst == IsSuffix(Readable, logged)

\* Records are lost only where the last backup is removed: no rename of a rotation,
\* and no write cut short, takes a record away.
OnlyTheOldestIsRemoved ==
    [][IsPrefix(Readable, Readable') \/ (pc = "rotate" /\ index = Backups)]_vars

\* What the log keeps (record_round), wherever the process dies or a write fails.
LogKept == []TypeOK /\ []OldestLostFirst /\ AppendedIsReadable /\ OnlyTheOldestIsRemoved
=============================================================================

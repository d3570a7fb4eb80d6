--------------------------- MODULE WorkspaceReader ---------------------------
(***************************************************************************)
(* The read-only tools a model has on its workspace                        *)
(* (WorkspaceReader.execute): find_files, list_files and read_file return  *)
(* a page and the offset of the next one.  A model follows next_offset     *)
(* until there is none.                                                    *)
(*                                                                         *)
(* A workspace is a set of files, each a path of segments; segments are    *)
(* numbers, for their order.  A file's bytes are a sequence of units, each *)
(* a character of 1 to 4 bytes or the longest piece of one that is         *)
(* malformed; the decoder gives one symbol for a unit.                     *)
(***************************************************************************)
EXTENDS Integers, Sequences, FiniteSets, SequencesExt

CONSTANTS
    Names,        \* segments
    Workspaces,   \* finite sets of paths, none of them a proper prefix of another
    Texts,        \* sequences of [width, whole]
    ListEntries,  \* LIST_ENTRIES
    ReadBytes     \* READ_BYTES

\* What is assumed of the constants; evaluated in MinerParts.
WorkspaceReaderAssumption ==
    /\ Names \subseteq Nat
    /\ ListEntries \in Nat \ {0}
    /\ \A S \in Workspaces :
          /\ IsFiniteSet(S) /\ S \subseteq Seq(Names) \ {<< >>}
          /\ \A p, q \in S : IsPrefix(p, q) => p = q
    /\ ReadBytes \in Nat   \* a page holds any unit and one byte more
    /\ Texts \subseteq Seq([width : 1..ReadBytes - 1, whole : BOOLEAN])

VARIABLES
    files,    \* the workspace
    text,     \* the file that is read
    tool,     \* "find_files", "list_files" or "read_file"
    offset,   \* of the page that is next
    got,      \* what the pages so far have shown
    ended     \* whether the last page had no next_offset

vars == <<files, text, tool, offset, got, ended>>
-----------------------------------------------------------------------------
\* The first segment in which two files of a workspace differ: neither is in the other.
Fork(p, q) ==
    CHOOSE n \in (1..Len(p)) \intersect (1..Len(q)) :
        p[n] # q[n] /\ \A i \in 1..n - 1 : p[i] = q[i]

\* _files_under: the files of a directory by name, then its subdirectories by name,
\* each with all that is under it.
WalksBefore(p, q) ==
    LET n == Fork(p, q)
    IN  \/ Len(p) = n /\ Len(q) # n
        \/ (Len(p) = n <=> Len(q) = n) /\ p[n] < q[n]

\* sorted(): the elements of S, each at the place the elements before it leave it.
Sorted(S, before) == [k \in 1..Cardinality(S) |-> CHOOSE x \in S : before[x] = k - 1]

Ascending(S) == Sorted(S, [x \in S |-> Cardinality({y \in S : y < x})])

FilesUnder ==
    Sorted(files, [p \in files |-> Cardinality({q \in files \ {p} : WalksBefore(q, p)})])

\* The walk stops at limit files.
FilesUpTo(limit) ==
    SubSeq(FilesUnder, 1, IF limit < Len(FilesUnder) THEN limit ELSE Len(FilesUnder))

\* The entries of the root, by name.
Roots == {p[1] : p \in files}
Entries == Ascending(Roots)

Slice(seq) ==
    SubSeq(seq, offset + 1,
           IF offset + ListEntries < Len(seq) THEN offset + ListEntries ELSE Len(seq))

Init ==
    /\ \/ tool \in {"find_files", "list_files"} /\ files \in Workspaces /\ text = << >>
       \/ tool = "read_file" /\ files = {} /\ text \in Texts
    /\ offset = 0 /\ got = << >> /\ ended = FALSE

Turn(page, next, more) ==
    /\ got' = got \o page
    /\ ended' = ~more
    /\ offset' = IF more THEN next ELSE offset
    /\ UNCHANGED <<files, text, tool>>

\* Faulty variant: the walk stops at the end of the page.
FoundBare == FilesUpTo(offset + ListEntries)

\* One file more than the page shows whether another page follows.
Found == FilesUpTo(offset + ListEntries + 1)

FindFiles ==
    /\ tool = "find_files" /\ ~ended
    /\ LET page == Slice(Found)
       IN  Turn(page, offset + Len(page), Len(Found) > offset + Len(page))

ListFiles ==
    /\ tool = "list_files" /\ ~ended
    /\ LET page == Slice(Entries)
       IN  Turn(page, offset + Len(page), offset + Len(page) < Len(Entries))

\* The bytes of the units before unit i, each by its place in its unit.
BytesBefore(i) == UNION {{j} \X (1..text[j].width) : j \in 1..i - 1}

\* The byte at which unit i starts, and the length of the file.
StartOf(i) == Cardinality(BytesBefore(i))
Size == StartOf(Len(text) + 1)

WindowEnd == IF offset + ReadBytes < Size THEN offset + ReadBytes ELSE Size

\* Faulty variant: handle.read(1) is not None
HasMoreAlways == TRUE

HasMore == offset + ReadBytes < Size

\* The units the decoder gives for this page.  At the end of the page it keeps back
\* a unit that is cut off, and a malformed one that could still become a character;
\* final = not has_more gives those out too.
Decoded ==
    {i \in DOMAIN text :
        /\ StartOf(i) >= offset
        /\ StartOf(i) + text[i].width <= WindowEnd
        /\ HasMore => text[i].whole \/ StartOf(i) + text[i].width < WindowEnd}

\* len(buffered)
Buffered ==
    LET rest == {i \in DOMAIN text : StartOf(i) >= offset /\ StartOf(i) < WindowEnd} \ Decoded
    IN  IF rest = {} THEN 0
        ELSE WindowEnd - StartOf(CHOOSE i \in rest : \A j \in rest : i <= j)

ReadFile ==
    /\ tool = "read_file" /\ ~ended
    /\ Turn(Ascending(Decoded), WindowEnd - Buffered, HasMore)

Next == FindFiles \/ ListFiles \/ ReadFile

\* The model goes on to the last page.
Spec == Init /\ [][Next]_vars /\ WF_vars(Next)
-----------------------------------------------------------------------------
\* A page of text starts where a character does.
TypeOK ==
    /\ tool \in {"find_files", "list_files"} => files \in Workspaces
    /\ tool = "read_file" => /\ text \in Texts
                              /\ offset \in {StartOf(i) : i \in 1..Len(text) + 1}
    /\ offset \in 0..Size + Cardinality(files) /\ ended \in BOOLEAN

Whole ==
    CASE tool = "find_files" -> FilesUnder
      [] tool = "list_files" -> Entries
      [] tool = "read_file"  -> [i \in DOMAIN text |-> i]

\* What there is to show.
Items ==
    CASE tool = "find_files" -> files
      [] tool = "list_files" -> Roots
      [] tool = "read_file"  -> DOMAIN text

\* Pages fit together: what they have shown is always the beginning of the whole, and
\* once there is no next page they have shown every file, entry or character, each
\* once: none is skipped or repeated at a page's edge, also where a character is cut in
\* two.  The first conjunct is the type invariant.
PagesFit ==
    /\ TypeOK
    /\ IsPrefix(got, Whole)
    /\ ended => /\ got = Whole /\ Len(got) = Cardinality(Items)
                /\ \A x \in Items : \E k \in DOMAIN got : got[k] = x

\* Following next_offset comes to an end: every page moves on.
PagingEnds == <>ended
=============================================================================

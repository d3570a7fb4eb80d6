-------------------------------- MODULE Fetch --------------------------------
(***************************************************************************)
(* How an archive gets from the artifact store into a directory:           *)
(* download_object writes a temporary file beside the target and renames   *)
(* it once its size and digest agree; extract_archive verifies the file    *)
(* again, decompresses it into a scratch file, inspects the names of all   *)
(* members, and only then creates the destination and extracts them.  The  *)
(* store may send anything; the network, the disk or a cancellation may    *)
(* end any step, and the removal of what it left may fail as well; the     *)
(* process may die between any two steps.                                  *)
(*                                                                         *)
(* A member is a path (a sequence of segments) and whether it is a file;   *)
(* the archive may list any members in any order.                          *)
(***************************************************************************)
EXTENDS Integers, Sequences, FiniteSets, SequencesExt

CONSTANTS
    Segments,     \* names a path is made of
    MaxDepth,     \* bound of the model: segments of a path
    MaxEntries,   \* max_entries of ArchiveLimits
    Size          \* compressed_size_bytes of the reference, in chunks

\* What is assumed of the constants; evaluated in ValidatorParts.
FetchAssumption == MaxEntries \in Nat /\ Size \in Nat /\ MaxDepth \in Nat \ {0}

Paths == UNION {[1..n -> Segments] : n \in 1..MaxDepth}

Members == [path : Paths, file : BOOLEAN]

VARIABLES
    pc,        \* the step that is next
    received,  \* chunks received
    honest,    \* whether the bytes received are those of the reference
    temp,      \* whether the temporary file of the download exists
    archive,   \* the downloaded file: "none", "good" or "bad"
    scratch,   \* whether the decompressed scratch file exists
    members,   \* what the archive lists
    done,      \* how many of them are extracted
    dest,      \* whether the destination exists
    tree       \* the destination: path -> "dir", "file" or "part"

vars == <<pc, received, honest, temp, archive, scratch, members, done, dest, tree>>

EmptyTree == [p \in {} |-> "dir"]
-----------------------------------------------------------------------------
Init ==
    /\ pc = "request" /\ received = 0 /\ honest = TRUE
    /\ temp = FALSE /\ archive = "none" /\ scratch = FALSE
    /\ members = << >> /\ done = 0 /\ dest = FALSE /\ tree = EmptyTree

\* The limits, the origin, the target and the response's status, encoding and
\* declared length are in order (otherwise Fail); mkstemp.
Request ==
    /\ pc = "request"
    /\ pc' = "receive" /\ temp' = TRUE
    /\ UNCHANGED <<received, honest, archive, scratch, members, done, dest, tree>>

\* A stream that exceeds its size is not read on.
Within == received <= Size

Receive ==
    /\ pc = "receive" /\ Within
    /\ received' = received + 1
    /\ honest' \in {honest, FALSE}
    /\ UNCHANGED <<pc, temp, archive, scratch, members, done, dest, tree>>

\* Faulty variant: the length of the download is enough.
DigestMatchesAny == TRUE

\* digest.hexdigest() == sha256: only the reference's own bytes have its digest.
DigestMatches == honest

\* The stream ended; a stream too long, too short or with another digest is an
\* error.  os.replace publishes the file.
Publish ==
    /\ pc = "receive" /\ received = Size /\ DigestMatches
    /\ temp' = FALSE
    /\ archive' = IF honest THEN "good" ELSE "bad"
    /\ pc' = "verify"
    /\ UNCHANGED <<received, honest, scratch, members, done, dest, tree>>

\* verify_archive_file reads the file and its digest again; _decompress_archive, up to
\* the advertised size, into the scratch file, which tarfile then reads.
Decompress ==
    /\ pc = "verify" /\ archive = "good"
    /\ pc' = "inspect" /\ scratch' = TRUE
    /\ UNCHANGED <<received, honest, temp, archive, members, done, dest, tree>>

Proper(prefix, path) == Len(prefix) < Len(path) /\ IsPrefix(prefix, path)

\* Faulty variant: a file may be listed where another member needs a directory.
AcceptedFlat(ms) ==
    /\ Len(ms) <= MaxEntries
    /\ \A i, j \in DOMAIN ms : i # j => ms[i].path # ms[j].path

\* _inspect_members: no path twice, and no file that is another member's parent.
Accepted(ms) ==
    /\ Len(ms) <= MaxEntries
    /\ \A i, j \in DOMAIN ms : i # j => ms[i].path # ms[j].path
    /\ ~\E i, j \in DOMAIN ms : ms[i].file /\ Proper(ms[i].path, ms[j].path)

Inspect(ms) ==
    /\ pc = "inspect" /\ Accepted(ms)
    /\ members' = ms
    /\ dest' = TRUE
    /\ pc' = "extract"
    /\ UNCHANGED <<received, honest, temp, archive, scratch, done, tree>>

Parents(path) == {SubSeq(path, 1, n) : n \in 1..Len(path) - 1}

Current == members[done + 1]

\* mkdir(parents = True, exist_ok = True) and open(O_CREAT | O_EXCL)
Collides(m) ==
    \/ \E p \in Parents(m.path) : p \in DOMAIN tree /\ tree[p] # "dir"
    \/ m.path \in DOMAIN tree /\ (m.file \/ tree[m.path] # "dir")

\* The next member, in the archive's order.  A file is written in two steps.
ExtractMember ==
    /\ pc = "extract" /\ done < Len(members) /\ ~Collides(Current)
    /\ tree' = [p \in DOMAIN tree \union Parents(Current.path) \union {Current.path} |->
                  IF p = Current.path THEN IF Current.file THEN "part" ELSE "dir"
                  ELSE IF p \in Parents(Current.path) THEN "dir" ELSE tree[p]]
    /\ IF Current.file THEN pc' = "write" /\ UNCHANGED done
                        ELSE done' = done + 1 /\ UNCHANGED pc
    /\ UNCHANGED <<received, honest, temp, archive, scratch, members, dest>>

\* Faulty variant: a member cut short is taken as it is.
WriteMemberShort ==
    /\ pc = "write"
    /\ done' = done + 1
    /\ pc' = "extract"
    /\ UNCHANGED <<received, honest, temp, archive, scratch, members, dest, tree>>

\* The contents, as long as the archive says, or Fail.
WriteMember ==
    /\ pc = "write"
    /\ tree' = [tree EXCEPT ![Current.path] = "file"]
    /\ done' = done + 1
    /\ pc' = "extract"
    /\ UNCHANGED <<received, honest, temp, archive, scratch, members, dest>>

\* extract_archive's finally removes the scratch file.
Return ==
    /\ pc = "extract" /\ done = Len(members)
    /\ pc' = "returned" /\ scratch' = FALSE
    /\ UNCHANGED <<received, honest, temp, archive, members, done, dest, tree>>

InProgress == pc \notin {"returned", "failed", "died"}

\* An error of any step, or a cancelled download: the finally of the download, or
\* the handlers and the finally of the extraction.  What they should remove may stay:
\* a failed unlink of the temporary file is ignored; rmtree may stop with a part
\* of the tree left, and only an ArchiveError or an OSError leads to it; and the
\* unlink of the scratch file may raise, after a whole extraction too.
Fail ==
    /\ InProgress
    /\ pc' = "failed"
    /\ temp' \in {temp, FALSE} /\ scratch' \in {scratch, FALSE} /\ dest' \in {dest, FALSE}
    /\ \E left \in SUBSET DOMAIN tree :
         /\ ~dest' => left = {}
         /\ \A p \in left : Parents(p) \subseteq left    \* files go before their directory
         /\ tree' = [p \in left |-> tree[p]]
    /\ UNCHANGED <<received, honest, archive, members, done>>

\* The process dies: files stay as they are.
Die ==
    /\ InProgress
    /\ pc' = "died"
    /\ UNCHANGED <<received, honest, temp, archive, scratch, members, done, dest, tree>>

Archives == UNION {[1..n -> Members] : n \in 0..MaxEntries}

Next ==
    \/ Request \/ Receive \/ Publish \/ Decompress
    \/ pc = "inspect" /\ \E ms \in Archives : Inspect(ms)
    \/ ExtractMember \/ WriteMember \/ Return
    \/ Fail \/ Die

Spec == Init /\ [][Next]_vars
-----------------------------------------------------------------------------
TypeOK ==
    /\ pc \in {"request", "receive", "verify", "inspect", "extract", "write",
               "returned", "failed", "died"}
    /\ received \in 0..Size + 1 /\ done \in 0..MaxEntries
    /\ {honest, temp, scratch, dest} \subseteq BOOLEAN
    /\ archive \in {"none", "good", "bad"}
    /\ DOMAIN tree \subseteq Paths /\ \A p \in DOMAIN tree : tree[p] \in {"dir", "file", "part"}

\* Whatever the store sends and wherever the process dies, a file with the target's
\* name holds the bytes of the reference: a later start may use it as it is.
ArchiveIsVerified == archive # "bad"

\* An archive whose names pass inspection extracts without a collision, in whatever
\* order it lists its members: no file is opened twice or where a directory is
\* needed, so the extraction never fails half way because of the archive.
InspectedNeverCollides ==
    pc = "extract" /\ done < Len(members) => ~Collides(Current)

\* The paths of all members, with the directories above them.
Listed == UNION {Parents(m.path) \union {m.path} : m \in ToSet(members)}

AsListed(m) == tree[m.path] = IF m.file THEN "file" ELSE "dir"

\* What extract_archive returns is whole and sits alone: every member is there as
\* listed, with the directories it needs and nothing else, and neither a scratch nor
\* a temporary file is left.
ReturnedIsWhole ==
    pc = "returned" =>
        /\ dest /\ ~scratch /\ ~temp
        /\ \A m \in ToSet(members) : AsListed(m)
        /\ DOMAIN tree = Listed

\* What an extraction leaves when it fails, even if its clean-up fails too, or when the
\* process dies: there is a destination only of a verified archive, nothing in it that
\* the archive does not list, and of the files in it only the one that was being written
\* may be cut short.
LeftoversAreListed ==
    /\ dest => archive = "good"
    /\ ~dest => tree = EmptyTree
    /\ DOMAIN tree \subseteq Listed
    /\ \A m \in ToSet(members) :
         m.path \in DOMAIN tree => AsListed(m) \/ (done < Len(members) /\ m = Current)

\* What a fetched archive is worth (download_object, extract_archive), wherever it fails
\* or the process dies.
FetchSound ==
    /\ TypeOK
    /\ ArchiveIsVerified
    /\ InspectedNeverCollides
    /\ ReturnedIsWhole
    /\ LeftoversAreListed
=============================================================================

-------------------------- MODULE ArtifactDownload --------------------------
(***************************************************************************)
(* downloader.py, with the receipts of artifact_verification.py and         *)
(* artifact_identity.py.  A download reads into `<dest>.part`, resumes what *)
(* it finds there, compares sizes, renames, and only then hashes; any       *)
(* number of processes may do so at once.  Files are inodes, so that a      *)
(* writer whose file is renamed away keeps writing.  A block is <<revision  *)
(* of the file on the server, its number>>.  What no process looks at, but  *)
(* makes a file other than its blocks promise, is kept in `doubts`.         *)
(***************************************************************************)
EXTENDS Integers, Sequences, SequencesExt, FiniteSets, FiniteSetsExt

CONSTANTS
    Downloaders,  \* processes that may call ensure_model for the same file
    Revisions,    \* what the server may hold under the url
    Pinned,       \* the revision expected_sha256 names, or NoDigest
    NoDigest,
    VerifyExisting, \* ensure_model is called with verify_existing
    Size,         \* blocks of the file
    MaxRetries,
    Tries,        \* bound: attempts to download
    Edits         \* bound: replacements of the file by its owner

VARIABLES
    content,   \* content[i]: the blocks of inode i
    part, dest, \* inodes the two names lead to, or NoFile
    proc,      \* proc[d]: the call of process d
    tries, edits,
    hashing,   \* [blocks, file, changed]: what verify_model_artifact hashed, before the stat
    receipt,   \* [blocks, file, fresh, overtaken], or NoReceipt
    doubts     \* doubts[i]: history, what went wrong while inode i was written

vars == <<content, part, dest, proc, tries, edits, hashing, receipt, doubts>>

NoFile == 0
NoReceipt == [blocks |-> <<>>, file |-> NoFile, fresh |-> FALSE, overtaken |-> FALSE]
Unread == [blocks |-> <<>>, file |-> NoFile, changed |-> FALSE]
Inodes == 1..(Cardinality(Downloaders) + 4)
Whole(r) == [i \in 1..Size |-> <<r, i>>]
Gap == <<"hole", 0>>

\* file: the one that is written, or of which the size was compared before the rename.
Idle == [pc |-> "idle", attempt |-> 0, resume |-> 0, file |-> NoFile, at |-> 0,
         body |-> <<>>, total |-> 0]

InHand == {proc[d].file : d \in Downloaders}
Fresh == CHOOSE i \in Inodes : i \notin InHand \cup {part, dest, receipt.file}

TypeOK ==
    /\ part \in Inodes \cup {NoFile} /\ dest \in Inodes \cup {NoFile}
    /\ \A d \in Downloaders :
          /\ proc[d].pc \in {"idle", "stat", "request", "read", "check", "rename", "verify",
                             "present"}
          /\ proc[d].attempt \in 0..MaxRetries /\ proc[d].total \in 0..(3 * Size)
    /\ \A i \in Inodes : Len(content[i]) <= 3 * Size

Init ==
    /\ content = [i \in Inodes |-> <<>>] /\ doubts = [i \in Inodes |-> {}]
    /\ part = NoFile /\ dest = NoFile
    /\ proc = [d \in Downloaders |-> Idle]
    /\ tries = 0 /\ edits = 0
    /\ hashing = Unread /\ receipt = NoReceipt

-----------------------------------------------------------------------------
(* Writing. *)

\* Mutant of Stamped: a write leaves the stamp of the file as it is.
StampedAlike(f) == UNCHANGED <<hashing, receipt>>

\* Who writes to file f gives it another size or time.
Stamped(f) ==
    /\ hashing' = IF hashing.file = f THEN [hashing EXCEPT !.changed = TRUE] ELSE hashing
    /\ receipt' = IF receipt.file = f THEN [receipt EXCEPT !.fresh = FALSE] ELSE receipt

\* "wb" writes at its own offset and leaves a hole behind the end of a file that
\* somebody else has truncated; "ab" writes at the end, wherever that is.
Written(s, at, b) ==
    LET padded == s \o [i \in 1..Max({0, at - 1 - Len(s)}) |-> Gap]
    IN  IF at <= Len(s) THEN [s EXCEPT ![at] = b] ELSE Append(padded, b)

-----------------------------------------------------------------------------
(* One call. *)

Unwritten == UNCHANGED <<content, part, dest, edits, hashing, receipt, doubts>>

Call(d) ==
    /\ proc[d].pc = "idle"
    /\ proc' = [proc EXCEPT ![d] =
          IF dest = NoFile THEN [Idle EXCEPT !.pc = "stat", !.attempt = 1]
          ELSE IF VerifyExisting /\ Pinned # NoDigest THEN [Idle EXCEPT !.pc = "present"]
          ELSE Idle]
    /\ UNCHANGED tries /\ Unwritten

\* verify_existing: a mismatch raises and changes nothing.
CheckPresent(d) ==
    /\ proc[d].pc = "present"
    /\ proc' = [proc EXCEPT ![d] = Idle]
    /\ UNCHANGED tries /\ Unwritten

\* The except clause of download_model: another attempt, or RuntimeError.
Failed(d) ==
    IF proc[d].attempt = MaxRetries THEN Idle
    ELSE [Idle EXCEPT !.pc = "stat", !.attempt = proc[d].attempt + 1]

StatPart(d) ==
    /\ proc[d].pc = "stat" /\ tries < Tries
    /\ tries' = tries + 1
    /\ proc' = [proc EXCEPT ![d].pc = "request",
                            ![d].resume = IF part = NoFile THEN 0 ELSE Len(content[part])]
    /\ Unwritten

\* The answer to a request from block n + 1 on: 206 with the rest, or 200 with
\* everything from a server without ranges; an offset past the end is 416.
Bodies(r, n) == {Whole(r)} \cup (IF n < Size THEN {SubSeq(Whole(r), n + 1, Size)} ELSE {})

RequestFails(d) ==
    /\ proc[d].pc = "request"
    /\ proc' = [proc EXCEPT ![d] = Failed(d)]
    /\ UNCHANGED tries /\ Unwritten

\* What is doubtful of file f once the body of revision r is written behind `base`: the part
\* file is not the one that was asked to be resumed, or somebody else has it in hand; the
\* server does not know ranges; what is there is of another revision.
DoubtsOf(d, f, base, r, body) ==
    (IF proc[d].resume # Len(base) \/ f \in InHand THEN {"crossed"} ELSE {})
    \cup (IF Len(body) # Size - proc[d].resume THEN {"unranged"} ELSE {})
    \cup (IF \E i \in 1..Len(base) : base[i][1] # r THEN {"mixed"} ELSE {})

\* The response is there; the file is opened, and truncated unless it is resumed.
Respond(d) ==
    /\ proc[d].pc = "request"
    /\ \E r \in Revisions : \E body \in Bodies(r, proc[d].resume) :
       \E reported \in {0, Len(body)} :
          LET f == IF part = NoFile THEN Fresh ELSE part
              append == proc[d].resume > 0
              kept == append /\ part # NoFile
              base == IF kept THEN content[f] ELSE <<>>
          IN  /\ part' = f
              /\ content' = [content EXCEPT ![f] = base]
              /\ doubts' = [doubts EXCEPT ![f] = (IF kept THEN @ ELSE {})
                                                 \cup DoubtsOf(d, f, base, r, body)]
              /\ Stamped(f)
              /\ proc' = [proc EXCEPT ![d] =
                    [@ EXCEPT !.pc = "read", !.file = f, !.at = IF append THEN 0 ELSE 1,
                              !.body = body, !.total = reported + proc[d].resume]]
    /\ UNCHANGED <<dest, tries, edits>>

ReadBlock(d) ==
    /\ proc[d].pc = "read" /\ proc[d].body # <<>>
    /\ LET f == proc[d].file
           at == IF proc[d].at = 0 THEN Len(content[f]) + 1 ELSE proc[d].at
       IN  /\ Len(content[f]) < 3 * Size
           /\ content' = [content EXCEPT ![f] = Written(@, at, Head(proc[d].body))]
           /\ Stamped(f)
           /\ proc' = [proc EXCEPT ![d].body = Tail(@), ![d].at = IF @ = 0 THEN 0 ELSE @ + 1]
    /\ UNCHANGED <<part, dest, tries, edits, doubts>>

\* The body ends, which a closed connection does as well without an exception.
BodyEnds(d) ==
    /\ proc[d].pc = "read"
    /\ proc' = [proc EXCEPT ![d].pc = "check", ![d].file = NoFile, ![d].body = <<>>, ![d].at = 0]
    /\ UNCHANGED tries /\ Unwritten

ReadFails(d) ==
    /\ proc[d].pc = "read"
    /\ proc' = [proc EXCEPT ![d] = Failed(d)]
    /\ UNCHANGED tries /\ Unwritten

\* Mutant of Complete: the size is not compared.
CompleteAnyway(d) == part # NoFile

\* Without a part file stat raises.
Complete(d) == part # NoFile /\ (proc[d].total > 0 => Len(content[part]) >= proc[d].total)

CompareSize(d) ==
    /\ proc[d].pc = "check"
    /\ proc' = [proc EXCEPT ![d] = IF Complete(d) THEN [@ EXCEPT !.pc = "rename", !.file = part]
                                                  ELSE Failed(d)]
    /\ UNCHANGED tries /\ Unwritten

\* The file is renamed that bears the name now, and it was compared with what the server
\* said, which need not be the size of the file.
Rename(d) ==
    /\ proc[d].pc = "rename"
    /\ IF part = NoFile
       THEN /\ proc' = [proc EXCEPT ![d] = Failed(d)]
            /\ UNCHANGED <<dest, part, doubts>>
       ELSE /\ dest' = part /\ part' = NoFile
            /\ doubts' = [doubts EXCEPT ![part] = @
                  \cup (IF proc[d].file # part THEN {"crossed"} ELSE {})
                  \cup (IF proc[d].total < Size THEN {"unsized"} ELSE {})]
            /\ proc' = [proc EXCEPT ![d] = IF Pinned = NoDigest THEN Idle
                             ELSE [@ EXCEPT !.pc = "verify", !.file = NoFile]]
    /\ UNCHANGED <<content, tries, edits, hashing, receipt>>

Matches(d) == dest # NoFile /\ content[dest] = Whole(Pinned)

Verify(d) ==
    /\ proc[d].pc = "verify"
    /\ proc' = [proc EXCEPT ![d] = IF Matches(d) THEN Idle ELSE Failed(d)]
    /\ UNCHANGED tries /\ Unwritten

\* The process is killed; what it has written stays.
Crash(d) ==
    /\ proc[d].pc # "idle"
    /\ proc' = [proc EXCEPT ![d] = Idle]
    /\ UNCHANGED tries /\ Unwritten

-----------------------------------------------------------------------------
(* Receipts: hash, then stat and save; valid while the stamp is the file's. *)

HashFile ==
    /\ hashing = Unread /\ dest # NoFile
    /\ hashing' = [blocks |-> content[dest], file |-> dest, changed |-> FALSE]
    /\ UNCHANGED <<content, part, dest, proc, tries, edits, receipt, doubts>>

\* overtaken is history: the stamp is of another file, or of another content of it, than
\* the digest.
SaveReceipt ==
    /\ hashing # Unread
    /\ hashing' = Unread
    /\ receipt' = IF dest = NoFile THEN receipt
                  ELSE [blocks |-> hashing.blocks, file |-> dest, fresh |-> TRUE,
                        overtaken |-> hashing.changed \/ hashing.file # dest]
    /\ UNCHANGED <<content, part, dest, proc, tries, edits, doubts>>

\* fresh stands for the equality of size, mtime_ns, inode and device.
MatchesFile == receipt.file # NoFile /\ receipt.file = dest /\ receipt.fresh

\* The owner of the machine copies another file over the model, in place or by a
\* rename, or removes it.
Replace ==
    /\ dest # NoFile /\ edits < Edits
    /\ edits' = edits + 1
    /\ \/ \E f \in {dest, Fresh} :
             /\ dest' = f
             /\ content' = [content EXCEPT ![f] = <<Gap>>]
             /\ doubts' = [doubts EXCEPT ![f] = {"edited"}]
             /\ Stamped(f)
       \/ /\ dest' = NoFile
          /\ UNCHANGED <<content, doubts, hashing, receipt>>
    /\ UNCHANGED <<part, proc, tries>>

Next ==
    \/ \E d \in Downloaders :
          Call(d) \/ CheckPresent(d) \/ StatPart(d) \/ RequestFails(d) \/ Respond(d)
          \/ ReadBlock(d) \/ BodyEnds(d) \/ ReadFails(d) \/ CompareSize(d) \/ Rename(d)
          \/ Verify(d) \/ Crash(d)
    \/ HashFile \/ SaveReceipt \/ Replace

Spec == Init /\ [][Next]_vars

-----------------------------------------------------------------------------
(* Properties. *)

\* A file that bears the model's name has every block in its place, whatever attempts,
\* dropped connections and kills led to it and however many processes worked on it
\* (download_model: "with resume, atomic write"): unless two of them were at the same part
\* file at once, the server ignored the range or told no size, or the owner has put another
\* file there.  The blocks are of one revision, unless the part file of another was resumed.
PublishedIsWhole ==
    dest # NoFile =>
        /\ doubts[dest] \subseteq {"mixed"} =>
              Len(content[dest]) = Size /\ \A i \in 1..Size : content[dest][i][2] = i
        /\ doubts[dest] = {} => \E r \in Revisions : content[dest] = Whole(r)

\* A receipt that still matches the file vouches for the digest of what the file
\* holds now (ArtifactVerificationReceipt: "reuse the strong digest only while
\* matches_file remains true"), unless the file was changed between its hash and its stat.
ReceiptIsTruthful == MatchesFile /\ ~receipt.overtaken => receipt.blocks = content[dest]

=============================================================================

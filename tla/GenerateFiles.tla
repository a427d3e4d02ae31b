--------------------------- MODULE GenerateFiles ---------------------------
(***************************************************************************)
(* The file system under a generated store, and the questions the          *)
(* generator asks of it: where a planned file lands, whether it may be     *)
(* replaced, which files are leftovers of an earlier run.                  *)
(*                                                                         *)
(* A path is resolved afresh by every call that takes one; a directory     *)
(* handle stays with the directory it was opened on.  So directories have  *)
(* an identity besides their path, and files one besides their name.  File *)
(* names never differ in case only.                                        *)
(***************************************************************************)
EXTENDS Integers, Sequences, FiniteSets, SequencesExt

CONSTANT MaxLinks  \* maxOutputSymlinkDepth

VARIABLES
    at,      \* the directory each path names
    linked,  \* the output path is a symbolic link to "Alt"
    files,   \* what each directory holds
    nextId   \* the identity of the next file created

fileSystem == <<at, linked, files, nextId>>

Paths == {"Dir", "Alt", "Out"}
Directories == {"d1", "d2", "o1", "o2"}

\* The names planned files and leftovers have, in path order; rasql.sum and a
\* Go file somebody else wrote complete the directory.
Order == <<"query", "schema", "test", "table">>
GenNames == Range(Order)
GoNames == GenNames \cup {"main"}
Names == GoNames \cup {"sum"}

Ordered(S) == SelectSeq(Order, LAMBDA n : n \in S)

Locations == Paths \X Names
Nowhere == <<"none", "none">>

\* The contents of a file: rendered from the snapshot of the inputs (snap) and
\* the query text read after it (sql); rasql.sum also holds the digest of the
\* query file (query).  Two hand-written ones, of this and of another package.
Content(of, snap, sql, query) == [of |-> of, snap |-> snap, sql |-> sql, query |-> query]
Hand == Content("hand", 0, 0, 0)
Foreign == Content("foreign", 0, 0, 0)

\* The marker stands on the first line of what rasqlgen renders, not of rasql.sum.
Marked(content) == content.of \in GenNames

Absent == [kind |-> "none", id |-> 0, content |-> Hand, to |-> Nowhere]
File(id, content) == [kind |-> "file", id |-> id, content |-> content, to |-> Nowhere]
Link(to) == [kind |-> "link", id |-> 0, content |-> Hand, to |-> to]
Other == [kind |-> "other", id |-> 0, content |-> Hand, to |-> Nowhere]

----------------------------------------------------------------------------
(* Resolution.                                                             *)

\* filepath.EvalSymlinks of the output directory, and of any directory.
EvalDir == IF linked THEN "Alt" ELSE "Dir"
Eval(path) == IF path = "Dir" THEN EvalDir ELSE path

\* os.Lstat.
EntryAt(loc) ==
    LET d == at[Eval(loc[1])] IN IF d = "none" THEN Absent ELSE files[d][loc[2]]

\* resolveOutputPath: the links along a path, at most MaxLinks of them.
Chase[loc \in Locations, followed \in 0..MaxLinks] ==
    LET e == EntryAt(loc) IN
    CASE e.kind = "other" -> Nowhere
      [] e.kind \in {"none", "file"} -> <<Eval(loc[1]), loc[2]>>
      [] e.kind = "link" /\ followed = MaxLinks -> Nowhere
      [] OTHER -> Chase[e.to, followed + 1]

\* requireMarker, existingDestinationMode: what may be replaced.
Replaceable(e) == e.kind = "none" \/ (e.kind = "file" /\ Marked(e.content))

\* genfile.ResolveDestination; Nowhere is a refusal.
ResolveDestination(loc) ==
    LET d == Chase[loc, 0] IN
    IF d # Nowhere /\ d[2] \in GenNames /\ Replaceable(EntryAt(d)) THEN d ELSE Nowhere

\* The directory of a resolved destination, "none" when it is Nowhere or missing.
DirAt(loc) == IF loc = Nowhere THEN "none" ELSE at[loc[1]]

\* os.Stat of an entry by its path: the file at the end of its links.
StatAt(loc) == LET d == Chase[loc, 0] IN IF d = Nowhere THEN Other ELSE EntryAt(d)

\* root.Lstat: a regular file, or nothing.
RegularOrAbsent(d, name) == files[d][name].kind \in {"none", "file"}

\* The path by which the links of a directory spell one into itself.
Home(d) == IF d \in {"o1", "o2"} THEN "Out" ELSE "Dir"

\* root.Open of a bare name: a directory handle follows the links that stay in its
\* directory, which are relative, and no other.  Other stands for an error.
Opened[d \in Directories, name \in Names, followed \in 0..MaxLinks] ==
    LET e == files[d][name] IN
    CASE e.kind # "link" -> e
      [] e.kind = "link" /\ (e.to[1] # Home(d) \/ followed = MaxLinks) -> Other
      [] OTHER -> Opened[d, e.to[2], followed + 1]

\* publicationState finds a file or finds that there is none.
Opens(d, name) == Opened[d, name, 0].kind # "other"

----------------------------------------------------------------------------
(* Ownership of what is in a directory.                                    *)

\* readOrphanMarker and publicationOrphanState: the file an entry stands for,
\* read through the handle, or through the path when it is a link.
Seen(d, path, name) ==
    IF files[d][name].kind = "link" THEN StatAt(<<path, name>>) ELSE files[d][name]

HasMarker(e) == e.kind = "file" /\ Marked(e.content)

\* findOrphansAt: the generated files that a plan does not write.
Leftovers(d, path, planned) ==
    {name \in GenNames \ planned : HasMarker(Seen(d, path, name))}

\* scanForeignPackageAt: a Go file of some other package.
HoldsForeign(d, path, planned) ==
    \E name \in GoNames \ planned :
        /\ files[d][name].kind # "none"
        /\ LET e == StatAt(<<path, name>>) IN e.kind = "file" /\ e.content = Foreign

----------------------------------------------------------------------------
(* What changes it.                                                        *)

\* A complete temporary file renamed over a name.
Rename(d, name, content) ==
    /\ files' = [files EXCEPT ![d][name] = File(nextId, content)]
    /\ nextId' = nextId + 1

Unlink(d, name) ==
    /\ files' = [files EXCEPT ![d][name] = Absent]
    /\ UNCHANGED nextId
=============================================================================

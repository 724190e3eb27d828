-------------------------------- MODULE Files --------------------------------
(* The file functions of tools.h over a small file system. A path is the    *)
(* sequence of its names; at a path is nothing, a directory, or a file: the *)
(* sequence of the pieces that were written to it, one for each call. One   *)
(* stream stays open between calls, that of log.h. It follows its file when *)
(* the file is renamed, and keeps it when the path is removed.              *)
(* Renaming and removing directories is left out: the code leaves it to the *)
(* system.                                                                  *)
EXTENDS Integers, Sequences

CONSTANTS
  Paths,     \* paths the application uses, with their prefixes
  MaxData,   \* bound: pieces in a file
  NULL, Dir, Gone

(* What one call or line leaves in a file.                                  *)
Pieces == {"piece", "line", "garbled", "hole"}

ASSUME FilesAssumption ==
  /\ \A p \in Paths : p \in Seq(STRING) \ {<<>>} /\ \A k \in 1 .. Len(p) - 1 : SubSeq(p, 1, k) \in Paths
  /\ NULL \notin Paths /\ Gone \notin Paths
  /\ NULL \notin Seq(Pieces) /\ Dir \notin Seq(Pieces) /\ NULL # Dir

VARIABLES
  tree,      \* [Paths -> NULL, Dir or a sequence of pieces]
  stream,    \* the open stream: where its file is, or Gone, and its offset; or NULL
  failed     \* how the program ended, "no" while it runs

files == <<tree, stream, failed>>

FilesInit ==
  tree = [p \in Paths |-> NULL] /\ stream = NULL /\ failed = "no"

IsFile(p) == tree[p] \notin {NULL, Dir}
IsDir(t, p) == p = <<>> \/ t[p] = Dir
Parent(p) == SubSeq(p, 1, Len(p) - 1)
Content(p) == IF IsFile(p) THEN tree[p] ELSE <<>>

(* fopen for writing: what is at the path is a file, or there can be one.   *)
Writable(p) == IsDir(tree, Parent(p)) /\ tree[p] # Dir
StreamOn(p) == IF stream = NULL THEN FALSE ELSE stream.at = p
Leaves(t) == tree' = t /\ UNCHANGED <<stream, failed>>

(* Mutant: the file is opened with mode "wb".                               *)
file_write_new(p, given) ==
  /\ Len(Content(p)) < MaxData
  /\ Leaves(IF given /\ Writable(p) THEN [tree EXCEPT ![p] = <<"piece">>] ELSE tree)

(* The piece goes behind what is there (mode "ab"); without data, nothing.  *)
file_write(p, given) ==
  /\ Len(Content(p)) < MaxData
  /\ Leaves(IF given /\ Writable(p) THEN [tree EXCEPT ![p] = Append(Content(p), "piece")] ELSE tree)

(* file_read, file_fetch: the size of a directory is no size to allocate,   *)
(* and the terminator goes to NULL.                                         *)
file_read(p) ==
  /\ failed' = IF tree[p] = Dir THEN "read" ELSE failed
  /\ UNCHANGED <<tree, stream>>

(* The destination is opened, and so emptied or made, before it is known    *)
(* whether there is a source; a directory can be opened and reads nothing.  *)
copied(p, to) == tree[p] # NULL /\ Writable(to)
file_copy(p, to) ==
  Leaves(IF Writable(to) THEN [tree EXCEPT ![to] = IF p = to THEN <<>> ELSE Content(p)] ELSE tree)

Followed(p, to) ==
  IF StreamOn(p) THEN [stream EXCEPT !.at = to]
  ELSE IF StreamOn(to) THEN [at |-> Gone, offset |-> 0] ELSE stream
file_rename(p, to) ==
  /\ tree[p] # Dir
  /\ IF IsFile(p) /\ Writable(to) /\ p # to
     THEN /\ tree' = [tree EXCEPT ![to] = tree[p], ![p] = NULL]
          /\ stream' = Followed(p, to) /\ UNCHANGED failed
     ELSE UNCHANGED files

file_remove(p) ==
  /\ tree[p] # Dir
  /\ tree' = [tree EXCEPT ![p] = NULL]
  /\ stream' = IF StreamOn(p) THEN [at |-> Gone, offset |-> 0] ELSE stream
  /\ UNCHANGED failed

Mkdir(t, p) == IF IsDir(t, Parent(p)) /\ t[p] = NULL THEN [t EXCEPT ![p] = Dir] ELSE t
file_mkdir(p) == Leaves(Mkdir(tree, p))

(* Every prefix in turn, whether or not it could be made; the result is     *)
(* that of the whole path.                                                  *)
MadeUpTo(p) ==
  LET t[k \in 0 .. Len(p)] == IF k = 0 THEN tree ELSE Mkdir(t[k - 1], SubSeq(p, 1, k)) IN t
created(p) == MadeUpTo(p)[Len(p)] # MadeUpTo(p)[Len(p) - 1]
file_create_directory(p) == Leaves(MadeUpTo(p)[Len(p)])

(* tools_format gives back the format and not the text: the environment     *)
(* gets the literal, and freeing a literal ends the program.                *)
tools_set_env == failed' = "set_env" /\ UNCHANGED <<tree, stream>>

FilesNext ==
  \/ \E p \in Paths : \/ \E given \in BOOLEAN : file_write(p, given)
                      \/ file_read(p) \/ file_remove(p)
                      \/ file_mkdir(p) \/ file_create_directory(p)
  \/ \E p, to \in Paths : file_copy(p, to) \/ file_rename(p, to)
  \/ tools_set_env
=============================================================================

--------------------------------- MODULE Log ---------------------------------
(* The log of log.h, which writes to a stream of its own while the program  *)
(* uses the same files through tools.h. What goes to the terminal, and the  *)
(* application's callback, are left out; a line in a file is one piece.     *)
EXTENDS Files

CONSTANTS Levels   \* PCT_LOG_DEBUG .. PCT_LOG_ERROR

VARIABLES
  quiet, level,    \* L.quiet and L.level
  touched          \* another call changed the log's file since it was opened

settings == <<quiet, level>>
logVars == <<files, settings, touched>>

LogInit == FilesInit /\ quiet = FALSE /\ level = 0 /\ touched = FALSE

log_set_quiet(q) == quiet' = q /\ UNCHANGED <<files, level, touched>>
log_set_level(l) == level' = l /\ UNCHANGED <<files, quiet, touched>>

(* Mode "w": the file is emptied, and lines go to the stream's own offset;  *)
(* a file that cannot be opened leaves no stream, and nobody is told. The   *)
(* stream used before is not closed.                                        *)
log_set_file(p) ==
  /\ IF p = NULL THEN stream' = NULL /\ UNCHANGED tree
     ELSE IF Writable(p)
     THEN tree' = [tree EXCEPT ![p] = <<>>] /\ stream' = [at |-> p, offset |-> 0]
     ELSE stream' = NULL /\ UNCHANGED tree
  /\ touched' = FALSE /\ UNCHANGED <<failed, settings>>

WriteAt(d, offset, piece) ==
  [i \in 1 .. IF Len(d) > offset THEN Len(d) ELSE offset + 1 |->
     IF i = offset + 1 THEN piece ELSE IF i <= Len(d) THEN d[i] ELSE "hole"]

(* The terminal's line uses the arguments up: what the file gets for a      *)
(* format with arguments is whatever a second reading finds, if that does   *)
(* not end the program. Without a file the line still goes to the stream,   *)
(* which is NULL, and that ends the program.                                *)
__pct_log(l, args) ==
  LET writes == ~quiet /\ l >= level
      line == IF args THEN "garbled" ELSE "line"
  IN /\ UNCHANGED <<settings, touched>>
     /\ \/ /\ writes /\ (stream = NULL \/ args)
           /\ failed' = "log" /\ UNCHANGED <<tree, stream>>
        \/ /\ writes => stream # NULL
           /\ UNCHANGED failed
           /\ IF writes /\ ~StreamOn(Gone)
              THEN /\ stream.offset < MaxData
                   /\ tree' = [tree EXCEPT ![stream.at] = WriteAt(@, stream.offset, line)]
                   /\ stream' = [stream EXCEPT !.offset = @ + 1]
              ELSE UNCHANGED <<tree, stream>>

(* A call of tools.h, and whether it changed the file under the stream.     *)
Tools ==
  /\ FilesNext
  /\ touched' = (touched \/ \E p \in Paths : StreamOn(p) /\ StreamOn(p)' /\ tree'[p] # tree[p])
  /\ UNCHANGED settings

LogNext ==
  /\ failed = "no"
  /\ \/ \E q \in BOOLEAN : log_set_quiet(q)
     \/ \E l \in Levels : log_set_level(l)
     \/ \E p \in Paths \cup {NULL} : log_set_file(p)
     \/ \E l \in Levels, args \in BOOLEAN : __pct_log(l, args)
     \/ Tools

LogSpec == LogInit /\ [][LogNext]_logVars

----------------------------------------------------------------------------
(* The stream is at the end of its file, as long as nobody else wrote it.   *)
StreamAtEnd ==
  \A p \in Paths : StreamOn(p) => IsFile(p) /\ (~touched => stream.offset = Len(tree[p]))

(* What is in a file stays there, behind it the new: but for a file that is *)
(* removed or moved, replaced by another, given to the log, the destination *)
(* of a copy, or logged to after another call changed it, when the lines    *)
(* land on what that call wrote.                                            *)
IsPrefixOf(d, e) == Len(d) <= Len(e) /\ SubSeq(e, 1, Len(d)) = d
WrittenKept ==
  \A p \in Paths : IsFile(p) =>
    \/ tree'[p] \notin {NULL, Dir} /\ IsPrefixOf(tree[p], tree'[p])
    \/ log_set_file(p) \/ file_remove(p)
    \/ \E q \in Paths : file_copy(q, p) \/ file_rename(q, p) \/ file_rename(p, q)
    \/ touched /\ StreamOn(p) /\ stream' # stream

(* A copy that reports success leaves the source's content behind the other *)
(* path, unless both are one, which it empties, or the source is a          *)
(* directory; one that fails has emptied what it could open. A file that is *)
(* renamed keeps its content. No other path is changed.                     *)
CopyTells ==
  \A p, to \in Paths :
    /\ file_copy(p, to) =>
         LET there == IF tree'[to] \in {NULL, Dir} THEN <<>> ELSE tree'[to]
         IN there = IF copied(p, to) /\ p # to THEN Content(p) ELSE <<>>
    /\ file_rename(p, to) /\ tree' # tree => tree'[to] = tree[p]
    /\ file_copy(p, to) \/ file_rename(p, to) => \A q \in Paths \ {p, to} : tree'[q] = tree[q]

(* A directory that was made is there with all above it, and no file on     *)
(* the way became one.                                                      *)
CreateTells ==
  \A p \in Paths : file_create_directory(p) =>
    /\ created(p) => \A k \in 1 .. Len(p) : tree'[SubSeq(p, 1, k)] = Dir
    /\ \A q \in Paths : IsFile(q) => tree'[q] = tree[q]

FilesStep == WrittenKept /\ CopyTells /\ CreateTells /\ StreamAtEnd'
FilesAgree == [][FilesStep]_logVars

(* test.c logs a line first of all: a call of the log returns.              *)
LogReturns == failed # "log"
=============================================================================

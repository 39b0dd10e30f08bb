---------------------------- MODULE AtomicFileSet ----------------------------
(***************************************************************************)
(* What a live update promises of the installed files, whatever happens    *)
(* between its disk operations: the set of files a recovery would arrive   *)
(* at is replaced as a whole, or not at all, and the set it replaced can   *)
(* be brought back as a whole until the next update begins.                *)
(***************************************************************************)
CONSTANTS Path, Bytes

VARIABLES files,     \* what every path holds once recovery has run
          undo       \* what ROLLBACK-LAST would restore

Install == /\ files' \in [Path -> Bytes]
           /\ undo' = files

Undo == /\ files' = undo
        /\ UNCHANGED undo

Forget == /\ undo' = files
          /\ UNCHANGED files

FilesInit == /\ files \in [Path -> Bytes]
             /\ undo = files

FilesNext == Install \/ Undo \/ Forget

FilesSpec == FilesInit /\ [][FilesNext]_<<files, undo>>
=============================================================================

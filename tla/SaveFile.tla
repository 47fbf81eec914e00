------------------------------ MODULE SaveFile ------------------------------
(***************************************************************************)
(* PlatformServices::write_binary_file_atomic and read_binary_file, for    *)
(* the one file they serve, session_state_path(): a temporary file written *)
(* in full, then renamed over the saved game, by way of a backup where     *)
(* rename does not replace an existing file.                               *)
(*                                                                         *)
(* A step is one call of the file system.  Each may fail, except the test  *)
(* that a file exists, and the process may die between any two.  What a    *)
(* rename did stays done: the machine itself does not go down.             *)
(***************************************************************************)
CONSTANTS
    Games,      \* encoded games
    NoGame,     \* there is no saved game, or none is being saved
    Torn,       \* content of a file that was not written to its end
    Missing     \* there is no such file

ASSUME SaveFileAssumption ==
    /\ NoGame \notin Games
    /\ Torn \notin Games
    /\ Missing \notin Games \cup {NoGame, Torn}

Contents == Games \cup {Torn, Missing}

VARIABLES
    main,       \* the file at path
    temp,       \* path.tmp
    backup,     \* path.bak
    pc,         \* the call that comes next
    game        \* the game being saved

save_vars == <<main, temp, backup, pc, game>>

Calls ==
    {"idle",
     "open",            \* open the temporary file and empty it
     "write",           \* write it and close it
     "replace",         \* rename it to path
     "exists",          \* is there a previous file
     "remove_backup",   \* remove an older backup
     "back_up",         \* rename path to backup
     "move_in",         \* rename the temporary file to the vacant path
     "restore",         \* rename the backup back to path
     "remove_temp",
     "drop_backup",
     "true", "false"}   \* return

SaveTypeOK ==
    /\ main \in Contents
    /\ temp \in Contents
    /\ backup \in Contents
    /\ pc \in Calls
    /\ game \in Games \cup {NoGame}

\* A first start, or one that finds what an earlier version of the game saved.
SaveInit ==
    /\ main \in Games \cup {Missing}
    /\ temp = Missing
    /\ backup = Missing
    /\ pc = "idle"
    /\ game = NoGame

Calling(call) == pc = call
Then(call) == pc' = call

\* read_binary_file: the backup stands in for a file that cannot be opened.
ReadBinaryFile ==
    IF main # Missing THEN main ELSE IF backup # Missing THEN backup ELSE NoGame
-----------------------------------------------------------------------------
BeginSave(g) ==
    /\ Calling("idle")
    /\ game' = g
    /\ Then("open")
    /\ UNCHANGED <<main, temp, backup>>

OpenTemp ==
    /\ Calling("open")
    /\ \/ temp' = Torn /\ Then("write")
       \/ temp' = temp /\ Then("false")
    /\ UNCHANGED <<main, backup, game>>

WriteTemp ==
    /\ Calling("write")
    /\ \/ temp' = game /\ Then("replace")
       \/ temp' = temp /\ Then("false")
    /\ UNCHANGED <<main, backup, game>>

\* Fails where rename does not replace an existing file, and for other reasons.
Replace ==
    /\ Calling("replace")
    /\ \/ main' = temp /\ temp' = Missing /\ Then("true")
       \/ UNCHANGED <<main, temp>> /\ Then("exists")
    /\ UNCHANGED <<backup, game>>

TestExists ==
    /\ Calling("exists")
    /\ Then(IF main # Missing THEN "remove_backup" ELSE "move_in")
    /\ UNCHANGED <<main, temp, backup, game>>

\* A failure to remove it is ignored.
RemoveBackup ==
    /\ Calling("remove_backup")
    /\ backup' \in {backup, Missing}
    /\ Then("back_up")
    /\ UNCHANGED <<main, temp, game>>

\* mutant: makes room by removing the old file
RemovesInsteadOfBackUp ==
    /\ Calling("back_up")
    /\ main' = Missing
    /\ Then("move_in")
    /\ UNCHANGED <<temp, backup, game>>

BackUp ==
    /\ Calling("back_up")
    /\ \/ backup' = main /\ main' = Missing /\ Then("move_in")
       \/ UNCHANGED <<main, backup>> /\ Then("remove_temp")
    /\ UNCHANGED <<temp, game>>

MoveIn ==
    /\ Calling("move_in")
    /\ \/ main' = temp /\ temp' = Missing /\ Then("drop_backup")
       \/ UNCHANGED <<main, temp>> /\ Then("restore")
    /\ UNCHANGED <<backup, game>>

Restore ==
    /\ Calling("restore")
    /\ \/ backup # Missing /\ main' = backup /\ backup' = Missing
       \/ UNCHANGED <<main, backup>>
    /\ Then("remove_temp")
    /\ UNCHANGED <<temp, game>>

RemoveTemp ==
    /\ Calling("remove_temp")
    /\ temp' \in {temp, Missing}
    /\ Then("false")
    /\ UNCHANGED <<main, backup, game>>

DropBackup ==
    /\ Calling("drop_backup")
    /\ backup' \in {backup, Missing}
    /\ Then("true")
    /\ UNCHANGED <<main, temp, game>>

Return ==
    /\ pc \in {"true", "false"}
    /\ game' = NoGame
    /\ Then("idle")
    /\ UNCHANGED <<main, temp, backup>>

\* The process dies; the next one finds the files as they are.
Crash ==
    /\ ~Calling("idle")
    /\ game' = NoGame
    /\ Then("idle")
    /\ UNCHANGED <<main, temp, backup>>

SaveStep ==
    \/ OpenTemp
    \/ WriteTemp
    \/ Replace
    \/ TestExists
    \/ RemoveBackup
    \/ BackUp
    \/ MoveIn
    \/ Restore
    \/ RemoveTemp
    \/ DropBackup
    \/ Return

SaveNext == SaveStep \/ Crash \/ \E g \in Games : BeginSave(g)

SaveSpec == SaveInit /\ [][SaveNext]_save_vars
-----------------------------------------------------------------------------
(* Properties *)

\* The calls that come after the file has been replaced
Replaced == pc \in {"drop_backup", "true"}

\* What each call may count on: only the temporary file is ever incomplete, it is
\* whole once it may be renamed, and the file is backed up only when there is one
\* and moved in only where there is none.  About the order of the calls in
\* write_binary_file_atomic.
FilesInOrder ==
    /\ Torn \notin {main, backup}
    /\ game = NoGame <=> pc = "idle"
    /\ pc \in {"replace", "exists", "remove_backup", "back_up", "move_in"} =>
           temp = game
    /\ pc \in {"remove_backup", "back_up"} => main # Missing
    /\ pc \in {"move_in", "restore"} => main = Missing
    /\ Replaced => main = game

FilesInv == SaveTypeOK /\ FilesInOrder

\* Wherever a save fails or the process dies, a start finds the game that was
\* saved before or the one that was being saved, in full, and the caller is told
\* which.  About write_binary_file_atomic and the fallback of read_binary_file.
Cell == INSTANCE SaveCell WITH
    saved <- ReadBinaryFile, saving <- game, done <- Replaced

SavesAreAtomic == Cell!Spec
=============================================================================

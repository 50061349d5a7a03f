------------------------------- MODULE NvPrefs -------------------------------
(***************************************************************************)
(* A setting of the NVIDIA driver that the host changes for all programs   *)
(* while it runs, and the undo file that gives it back                     *)
(* (platform/windows/nvprefs/, called by main.cpp and by                   *)
(* streaming_will_start()).                                                *)
(*                                                                         *)
(* The process may be killed between any two steps, and the driver and the *)
(* file system may refuse.  While the driver is not loaded the user may    *)
(* change the setting, but not to the host's own value, which the code     *)
(* cannot tell from its own doing.  The option to leave the setting alone  *)
(* is off.                                                                 *)
(***************************************************************************)
EXTENDS Integers

CONSTANTS Value,      \* what a user may set; Unset is no setting at all
          Ours,       \* OGL_CPL_PREFER_DXPRESENT_PREFER_ENABLED
          Unset, NoFile, Torn, NoUndo,
          MaxCrash, MaxFail, MaxEdit    \* bounds

VARIABLES saved,      \* the setting in the driver
          loaded,     \* the setting in the session of driver_settings
          file,       \* the undo file: NoFile, Torn or the value to go back to
          handle,     \* undo_file: "none", "open", or "closed" when it was deleted
          undoData,   \* undo_data of the object
          newUndo,    \* undo_data of modify_global_profile()
          user,       \* what the user set last
          pc,         \* the next step of the process, "off" when it does not run
          gaveUp,     \* a restore failed and the file was deleted all the same
          crashes, fails, edits

nvVars == <<saved, loaded, file, handle, undoData, newUndo, user, pc, gaveUp, crashes, fails,
            edits>>

Theirs == Value \union {Unset}

Init == /\ user \in Theirs /\ saved = user /\ loaded = user
        /\ file = NoFile /\ handle = "none" /\ undoData = NoUndo /\ newUndo = NoUndo
        /\ pc = "off" /\ gaveUp = FALSE /\ crashes = 0 /\ fails = 0 /\ edits = 0

\* A call that can be refused was, or was not.
Works == UNCHANGED fails
Fails == fails < MaxFail /\ fails' = fails + 1

-----------------------------------------------------------------------------
(* The process and the user *)

\* main() loads the driver and looks for the undo file of a run that crashed.
Start == /\ pc = "off" /\ pc' = "restore" /\ loaded' = saved
         /\ UNCHANGED <<saved, file, handle, undoData, newUndo, user, gaveUp, crashes, fails,
                        edits>>

\* streaming_will_start() does the same, unless the file is the host's own.
Stream == /\ pc = "idle" /\ loaded' = saved
          /\ pc' = IF handle = "none" THEN "restore" ELSE "modify"
          /\ UNCHANGED <<saved, file, handle, undoData, newUndo, user, gaveUp, crashes, fails,
                         edits>>

Crash == /\ pc # "off" /\ crashes < MaxCrash /\ crashes' = crashes + 1
         /\ pc' = "off" /\ handle' = "none" /\ undoData' = NoUndo /\ newUndo' = NoUndo
         /\ UNCHANGED <<saved, loaded, file, user, gaveUp, fails, edits>>

Edit == /\ pc \in {"off", "idle"} /\ edits < MaxEdit /\ edits' = edits + 1
        /\ \E v \in Theirs : saved' = v /\ user' = v
        /\ gaveUp' = FALSE
        /\ UNCHANGED <<loaded, file, handle, undoData, newUndo, pc, crashes, fails>>

-----------------------------------------------------------------------------
(* restore_from_and_delete_undo_file_if_exists() *)

\* driver_settings_t::restore_global_profile_to_undo(): only a value that is
\* the host's own goes back.
GoBack(value) == IF loaded = Ours THEN value ELSE loaded

\* The value goes back in the session, then in the driver.
RestoreFromFile ==
  /\ pc = "restore" /\ file # NoFile
  /\ pc' = "restoreDelete"
  /\ loaded' = IF file = Torn THEN loaded ELSE GoBack(file)
  /\ \/ Works /\ saved' = loaded' /\ UNCHANGED gaveUp
     \/ Fails /\ UNCHANGED saved /\ gaveUp' = (saved = Ours)
  /\ UNCHANGED <<file, handle, undoData, newUndo, user, crashes, edits>>

\* "Deleting the file anyway".
DeleteOld ==
  /\ pc = "restoreDelete" /\ pc' = "modify"
  /\ \/ Works /\ file' = NoFile
     \/ Fails /\ UNCHANGED file
  /\ UNCHANGED <<saved, loaded, handle, undoData, newUndo, user, gaveUp, crashes, edits>>

NothingToRestore ==
  /\ pc = "restore" /\ file = NoFile /\ pc' = "modify"
  /\ UNCHANGED <<saved, loaded, file, handle, undoData, newUndo, user, gaveUp, crashes, fails,
                 edits>>

-----------------------------------------------------------------------------
(* modify_global_profile() *)

\* check_and_modify_global_profile(): the session gets the host's value.
CheckAndModify ==
  /\ pc = "modify"
  /\ IF loaded = Ours THEN pc' = "idle" /\ UNCHANGED <<loaded, newUndo>>
     ELSE pc' = "create" /\ newUndo' = loaded /\ loaded' = Ours
  /\ UNCHANGED <<saved, file, handle, undoData, user, gaveUp, crashes, fails, edits>>

\* create_new_file(): a file that is there is not replaced.
CreateUndo ==
  /\ pc = "create"
  /\ \/ handle # "none" /\ pc' = "write" /\ Works /\ UNCHANGED <<file, handle>>
     \/ handle = "none" /\ file = NoFile /\ Works
          /\ pc' = "write" /\ file' = Torn /\ handle' = "open"
     \/ handle = "none" /\ (IF file = NoFile THEN Fails ELSE Works)
          /\ pc' = "idle" /\ UNCHANGED <<file, handle>>
  /\ UNCHANGED <<saved, loaded, undoData, newUndo, user, gaveUp, crashes, edits>>

\* write_undo_data() empties the file before it writes.
Truncate ==
  /\ pc = "write"
  /\ undoData' = newUndo
  /\ IF handle = "open" THEN pc' = "fill" /\ file' = Torn
                        ELSE pc' = "idle" /\ UNCHANGED file
  /\ UNCHANGED <<saved, loaded, handle, newUndo, user, gaveUp, crashes, fails, edits>>

\* A file that could not be written is deleted; the object keeps its empty hull.
Fill ==
  /\ pc = "fill"
  /\ \/ Works /\ file' = undoData /\ pc' = "save" /\ UNCHANGED handle
     \/ Fails /\ file' = NoFile /\ handle' = "closed" /\ pc' = "idle"
  /\ UNCHANGED <<saved, loaded, undoData, newUndo, user, gaveUp, crashes, edits>>

\* save_settings(): only now other programs see the host's value.
Save ==
  /\ pc = "save" /\ pc' = "idle"
  /\ (Works /\ saved' = loaded) \/ (Fails /\ UNCHANGED saved)
  /\ UNCHANGED <<loaded, file, handle, undoData, newUndo, user, gaveUp, crashes, edits>>

-----------------------------------------------------------------------------
(* restore_global_profile() *)

\* main() ends, and so does a process that has no undo file.
Exit ==
  /\ pc = "idle"
  /\ pc' = IF handle = "none" THEN "off" ELSE "exit"
  /\ loaded' = saved
  /\ UNCHANGED <<saved, file, handle, undoData, newUndo, user, gaveUp, crashes, fails, edits>>

\* When it fails, the destructor of nvprefs_interface tries once more.
NextTry == IF pc = "exit" THEN "exitAgain" ELSE "done"

RestoreAtExit ==
  /\ pc \in {"exit", "exitAgain"}
  /\ \/ /\ Works /\ loaded' = GoBack(undoData) /\ saved' = loaded'
        /\ pc' = IF pc = "exit" THEN "delete" ELSE "deleteAgain"
     \/ /\ Fails /\ UNCHANGED saved /\ loaded' = saved /\ pc' = NextTry
  /\ UNCHANGED <<file, handle, undoData, newUndo, user, gaveUp, crashes, edits>>

DeleteAtExit ==
  /\ pc \in {"delete", "deleteAgain"}
  /\ \/ Works /\ handle = "open" /\ file' = NoFile /\ handle' = "none" /\ pc' = "done"
     \/ /\ IF handle = "open" THEN Fails ELSE Works
        /\ UNCHANGED <<file, handle>>
        /\ pc' = IF pc = "delete" THEN "exitAgain" ELSE "done"
  /\ UNCHANGED <<saved, loaded, undoData, newUndo, user, gaveUp, crashes, edits>>

Terminate ==
  /\ pc = "done" /\ pc' = "off"
  /\ handle' = "none" /\ undoData' = NoUndo /\ newUndo' = NoUndo
  /\ UNCHANGED <<saved, loaded, file, user, gaveUp, crashes, fails, edits>>

Next == \/ Start \/ Stream \/ Crash \/ Edit
        \/ RestoreFromFile \/ DeleteOld \/ NothingToRestore
        \/ CheckAndModify \/ CreateUndo \/ Truncate \/ Fill \/ Save
        \/ Exit \/ RestoreAtExit \/ DeleteAtExit \/ Terminate

Spec == Init /\ [][Next]_nvVars

-----------------------------------------------------------------------------
(* Properties *)

TypeOK == /\ saved \in Theirs \union {Ours} /\ loaded \in Theirs \union {Ours}
          /\ file \in Theirs \union {NoFile, Torn} /\ handle \in {"none", "open", "closed"}
          /\ undoData \in Theirs \union {NoUndo} /\ newUndo \in Theirs \union {NoUndo}
          /\ user \in Theirs /\ gaveUp \in BOOLEAN
          /\ pc \in {"off", "restore", "restoreDelete", "modify", "create", "write", "fill",
                     "save", "idle", "exit", "exitAgain", "delete", "deleteAgain", "done"}

\* As long as the driver has the host's value, the file says what the user had,
\* so that a crash at any moment can be made good; unless a restore failed.
UserIsRemembered == saved = Ours => file = user \/ gaveUp

\* The driver never gets a value that nobody wants: it is the host's or the
\* one the user set last.
NothingElse == saved \in {Ours, user}

\* A process that ended by itself left nothing behind, if nothing refused.
CleanExit == (pc = "off" /\ crashes = 0 /\ fails = 0) => saved = user /\ file = NoFile
=============================================================================

------------------------------- MODULE Startup -------------------------------
(***************************************************************************)
(* The app from one start to the next: the constructor reads the settings  *)
(* and the library in one go, and nothing in the app reads them again.     *)
(***************************************************************************)
EXTENDS Settings, NoteStore

startupVars == <<settingsVars, storeVars>>

StartupInit == SettingsInit /\ StoreInit

Launch == Start /\ SetRootPath
Quit == Stop /\ Forget
InUse == PickContext \/ \E text \in FieldTexts : Connect(text)
Around ==
  \/ \E c \in Contexts : ContextChanges(c)
  \/ \E k \in ConfigsOnDisk : ConfigChanges(k)
  \/ EnvironmentChanges

StartupNext ==
  \/ Launch \/ Quit
  \/ (InUse \/ Around) /\ UNCHANGED storeVars

StartupSpec == StartupInit /\ [][StartupNext]_startupVars
------------------------------------------------------------------------------
(* Types of the two components.                                            *)
StartupTypeOK == SettingsTypeOK /\ StoreTypeOK

(* What the user sees of the library, for as long as the app runs.         *)
NotesAreLibrary == app.running => ListIsLibrary
=============================================================================

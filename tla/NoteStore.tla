------------------------------ MODULE NoteStore ------------------------------
(***************************************************************************)
(* notes/NoteStore: the list of notebooks that can be attached, read from  *)
(* the device's library. The library is flat: a metadata record per uuid,  *)
(* a folder or a document, names its parent, and the tree the user knows   *)
(* is rebuilt from these links, which need not make a tree.                *)
(*                                                                         *)
(* A folder's uuid stands for the name it shows. A record that cannot be   *)
(* read has another type, and so has a uuid without one: a missing library *)
(* is one without records. What a page's files hold is in Attachments.     *)
(***************************************************************************)
EXTENDS Naturals, Sequences, FiniteSets, SequencesExt

CONSTANTS Uuids, Root, Trash,
          Guard,       \* folders a path may have: 32
          Libraries    \* the libraries the device may hold

ASSUME StoreAssumption ==
  /\ IsFiniteSet(Uuids) /\ Root \notin Uuids /\ Trash \notin Uuids
  /\ Guard \in Nat \ {0}

Parents == Uuids \cup {Root, Trash}
Pages == [named : BOOLEAN, rm : BOOLEAN, thumb : BOOLEAN]
ASSUME LibraryAssumption ==
  \A lib \in Libraries : \A u \in Uuids :
    /\ lib[u].type \in {"folder", "document", "other"}
    /\ lib[u].parent \in Parents
    /\ lib[u].deleted \in {"no", "true", "'true'"}
    /\ lib[u].notebook \in BOOLEAN /\ lib[u].modified \in Nat
    /\ lib[u].pages \in Seq(Pages)

VARIABLES library,    \* the directory m_root
          notes       \* m_notes, the rows of the list

storeVars == <<library, notes>>
------------------------------------------------------------------------------
(* isDeleted(): a JSON true, or the string.                                *)
IsDeleted(u) == library[u].deleted # "no"

IsFolder(p) == p \in Uuids /\ library[p].type = "folder"

(* folderPath(): the folders from the top to a document's parent. Links    *)
(* that go round in circles are followed Guard times. Of the loop, `parts` *)
(* and `parent` after n turns.                                             *)
ClimbToEnd(c) ==
  IF IsFolder(c.parent)
  THEN [parts |-> Append(c.parts, c.parent), parent |-> library[c.parent].parent]
  ELSE c
Climb(c) ==
  IF IsFolder(c.parent)
  THEN [parts |-> <<c.parent>> \o c.parts, parent |-> library[c.parent].parent]
  ELSE c
FolderPath(parent) ==
  LET after[n \in 0 .. Guard] ==
        IF n = 0 THEN [parts |-> <<>>, parent |-> parent]
        ELSE Climb(after[n - 1])
  IN after[Guard].parts

(* The pages that have a file the app can attach, in their order.          *)
HasFile(page) == page.named /\ (page.rm \/ page.thumb)
PagesOf(u) ==
  LET found[n \in 0 .. Len(library[u].pages)] ==
        IF n = 0 THEN <<>>
        ELSE IF HasFile(library[u].pages[n])
             THEN Append(found[n - 1], library[u].pages[n])
             ELSE found[n - 1]
  IN found[Len(library[u].pages)]

Listed(u) ==
  /\ library[u].type = "document" /\ ~ IsDeleted(u)
  /\ library[u].parent # Trash /\ library[u].notebook
  /\ PagesOf(u) # <<>>

NoteOf(u) ==
  [uuid |-> u, folder |-> FolderPath(library[u].parent),
   pages |-> PagesOf(u), modified |-> library[u].modified]

(* scan(): the latest first; std::sort leaves equals in any order.         *)
Scans ==
  {[k \in DOMAIN order |-> NoteOf(order[k])] :
     order \in {s \in SetToSeqs({u \in Uuids : Listed(u)}) :
       \A i, j \in DOMAIN s :
         i < j => library[s[i]].modified >= library[s[j]].modified}}
------------------------------------------------------------------------------
StoreInit == library \in Libraries /\ notes = <<>>

(* setRootPath(), of an object that had none, and reload() after it.       *)
SetRootPath == notes' \in Scans /\ UNCHANGED library

(* The object goes with the app.                                           *)
Forget == notes' = <<>> /\ UNCHANGED library
------------------------------------------------------------------------------
StoreTypeOK ==
  /\ library \in Libraries
  /\ notes \in Seq([uuid : Uuids, folder : Seq(Uuids), pages : Seq(Pages),
                    modified : Nat])

(* A row's folder is a chain of folders, each in the one before it, that   *)
(* ends at the note's parent and begins at a folder that is in none, or    *)
(* where the guard cut a chain that is too long or never ends.             *)
PathIsReal(u, path) ==
  LET ends == [k \in 1 .. Len(path) + 1 |->
                 IF k > Len(path) THEN u ELSE path[k]]
  IN /\ \A k \in DOMAIN path : library[ends[k + 1]].parent = path[k]
     /\ \A k \in DOMAIN path : IsFolder(path[k])
     /\ IsFolder(library[ends[1]].parent) => Len(path) = Guard

(* In the trash: put there, or in a folder that is, at any depth. The      *)
(* trash is in every set of parents that holds a record's own and, with a  *)
(* folder, that folder's.                                                  *)
InTrash(u) ==
  \A above \in SUBSET Parents :
    /\ library[u].parent \in above
    /\ \A p \in above : IsFolder(p) => library[p].parent \in above
    => Trash \in above

(* The list holds notebooks only that are not deleted nor put in the trash *)
(* and have a page to attach, and each of these that is not in the trash   *)
(* in any way; once, the latest first, and under its real folder.          *)
Attachable(u) ==
  /\ library[u].type = "document" /\ library[u].deleted = "no"
  /\ library[u].notebook
  /\ \E k \in DOMAIN library[u].pages :
       /\ library[u].pages[k].named
       /\ library[u].pages[k].rm \/ library[u].pages[k].thumb
ListIsLibrary ==
  /\ \A n \in DOMAIN notes :
       Attachable(notes[n].uuid) /\ library[notes[n].uuid].parent # Trash
  /\ \A u \in Uuids : Attachable(u) /\ ~ InTrash(u) =>
       \E n \in DOMAIN notes : notes[n].uuid = u
  /\ \A n, m \in DOMAIN notes :
       n < m => /\ notes[n].uuid # notes[m].uuid
                /\ notes[n].modified >= notes[m].modified
  /\ \A n \in DOMAIN notes : PathIsReal(notes[n].uuid, notes[n].folder)

(* notes/NoteStore.h lines 12-13: the notebooks listed are "not            *)
(* deleted/trashed".                                                       *)
NoTrashListed == \A n \in DOMAIN notes : ~ InTrash(notes[n].uuid)
=============================================================================

----------------------------- MODULE Attachments -----------------------------
(***************************************************************************)
(* Notebook pages on their way to a prompt: notes/NoteStore's list of the  *)
(* device's library, agents/AppController's staging of a page range as one *)
(* PNG per page or one PDF (stageNotePages, clearAttachment), and the part *)
(* of selectAgent() and sendPrompt() that is about attachments. Around     *)
(* them: the device, which goes on writing and deleting pages.             *)
(*                                                                         *)
(* One notebook stands for the library: a second staging replaces the      *)
(* first whatever notebook it is from. The list is scanned when the        *)
(* library's path is set, and nothing calls reload() after that. Of a page *)
(* file the model keeps what rm/RmParser finds in it; pixels, file sizes   *)
(* beyond three weights, and the temp directory's path are left out.       *)
(***************************************************************************)
EXTENDS Naturals, Sequences, FiniteSets, SequencesExt

CONSTANTS Agents, NoAgent,
          PageCount,      \* pages of the notebook
          Limits,         \* max_payload an agent may advertise (0: unknown)
          PngSize, PdfPageSize, ThumbSize   \* encoded sizes

ASSUME AttachmentAssumption ==
  /\ NoAgent \notin Agents
  /\ {PageCount, PngSize, PdfPageSize, ThumbSize} \subseteq Nat \ {0}
  /\ Limits \subseteq Nat

VARIABLES device,      \* the notebook's page files, as they are now
          notes,       \* NoteStore's snapshot: the pages it offers
          temp,        \* names of the rendered files in the temp directory
          staging,     \* m_staged, m_attachmentLabel, and two histories
          selection,   \* m_selectedRow and what was cached with it
          published    \* of the last prompt with attachments: for whom the pages
                       \* were staged, and to whom they went

attachVars == <<device, notes, temp, staging, selection, published>>
------------------------------------------------------------------------------
(* What a .rm file is to RmParser::parse: not there, without a lines       *)
(* header, or a page with or without typed text and strokes. A truncated   *)
(* file counts as the page that its whole blocks make: parse stops at the  *)
(* cut and still returns true.                                             *)
PageFiles == {"none", "bad", "blank", "typed", "ink", "mixed"}
Loads(file) == file \notin {"none", "bad"}
HasContent(file) == file \in {"ink", "mixed"}
HasText(file) == file \in {"typed", "mixed"}

PageNumbers == 1 .. PageCount
Devices == [PageNumbers -> [rm : PageFiles, thumb : BOOLEAN]]

(* scan(): pages with a .rm or a thumbnail, in the notebook's order.       *)
Scan(d) ==
  FlattenSeq([p \in PageNumbers |->
                IF d[p].rm = "none" /\ ~ d[p].thumb THEN <<>>
                ELSE <<[page |-> p, rm |-> d[p].rm # "none", thumb |-> d[p].thumb]>>])

(* loadRmPage(): the path is empty for a page scanned without a .rm.       *)
FileOf(n) == IF n.rm THEN device[n.page].rm ELSE "none"

(* A staged file: rendered into the temp directory, or a thumbnail where   *)
(* it lies. `name` is the number in page-N.png, 0 for the PDF.             *)
Staged == [rendered : BOOLEAN, name : 0 .. PageCount, pages : Seq(PageNumbers)]
Labels == [from : PageNumbers, to : PageNumbers, pdf : BOOLEAN]
NoLabel == [none |-> TRUE]

(* The pages of a range that show something and whose rendering, should it *)
(* be tried, can be saved (the temp directory may be full).                *)
Printable(range, saved) ==
  {range[k].page : k \in {j \in DOMAIN range :
     Loads(FileOf(range[j])) /\ range[j].page \in saved
       /\ (HasContent(FileOf(range[j])) \/ HasText(FileOf(range[j])))}}

(* The PNG branch: a page with strokes is rendered; any other, or one that *)
(* cannot be saved, is its thumbnail, or is skipped. Names go by position. *)
StagePng(n, name, saved) ==
  IF Loads(FileOf(n)) /\ HasContent(FileOf(n)) /\ n.page \in saved
  THEN <<[rendered |-> TRUE, name |-> name, pages |-> <<n.page>>]>>
  ELSE IF n.thumb
  THEN <<[rendered |-> FALSE, name |-> name, pages |-> <<n.page>>]>>
  ELSE <<>>
StagePngsLate(range, saved) ==
  FlattenSeq([k \in DOMAIN range |-> StagePng(range[k], k + 1, saved)])
StagePngsCompact(range, saved) ==
  LET files == FlattenSeq([k \in DOMAIN range |-> StagePng(range[k], k, saved)])
  IN [k \in DOMAIN files |-> [files[k] EXCEPT !.name = k]]
StagePngs(range, saved) ==
  FlattenSeq([k \in DOMAIN range |-> StagePng(range[k], k, saved)])

(* The PDF branch: renderToPdf() keeps pages with strokes or typed text.   *)
Drawable(n) ==
  Loads(FileOf(n)) /\ (HasContent(FileOf(n)) \/ HasText(FileOf(n)))
StagePdf(range, saved) ==
  LET drawn == FlattenSeq([k \in DOMAIN range |->
                             IF Drawable(range[k]) THEN <<range[k].page>> ELSE <<>>])
  IN IF drawn = <<>> \/ saved = {} THEN <<>>
     ELSE <<[rendered |-> TRUE, name |-> 0, pages |-> drawn]>>

NothingStaged ==
  [files |-> <<>>, label |-> NoLabel, owner |-> NoAgent, printable |-> {}]
Rendered(files) == {files[k].name : k \in {j \in DOMAIN files : files[j].rendered}}

(* The encoded sizes that sendPrompt() adds up.                            *)
SizeOf(f) ==
  IF ~ f.rendered THEN ThumbSize
  ELSE IF f.name = 0 THEN PdfPageSize * Len(f.pages) ELSE PngSize
Encoded(files) == FoldLeft(LAMBDA sum, f : sum + SizeOf(f), 0, files)

(* A file the app still finds when it reads it.                            *)
Readable(f) == IF f.rendered THEN f.name \in temp ELSE device[f.pages[1]].thumb
------------------------------------------------------------------------------
Nobody == [agent |-> NoAgent, accepts |-> FALSE, limit |-> 0]
Unpublished == [to |-> NoAgent, owner |-> NoAgent]

AttachInit ==
  /\ device \in Devices /\ notes = Scan(device)
  /\ temp = {} /\ staging = NothingStaged
  /\ selection = Nobody /\ published = Unpublished

(* clearAttachment()                                                       *)
Clear == temp' = {} /\ staging' = NothingStaged

(* selectAgent(): the row's capabilities are cached with the selection.    *)
SelectAgentOnly(k, accepts, limit) ==
  /\ selection' = [agent |-> k, accepts |-> accepts, limit |-> limit]
  /\ UNCHANGED <<device, notes, temp, staging, published>>
SelectAgent(k, accepts, limit) ==
  /\ selection' = [agent |-> k, accepts |-> accepts, limit |-> limit]
  /\ Clear
  /\ UNCHANGED <<device, notes, published>>

(* stageNotePages(), offered by the chat screen of the selected agent. The *)
(* earlier staging goes first, its files too. Nothing rendered: no label.  *)
StagePages(from, to, pdf, saved) ==
  LET range == SubSeq(notes, from, to)
      files == IF pdf THEN StagePdf(range, saved) ELSE StagePngs(range, saved)
  IN /\ from \in DOMAIN notes /\ to \in DOMAIN notes /\ from <= to
     /\ selection.agent # NoAgent
     /\ temp' = Rendered(files)
     /\ staging' =
          [files |-> files,
           label |-> IF files = <<>> THEN NoLabel
                     ELSE [from |-> from, to |-> to, pdf |-> pdf],
           owner |-> selection.agent,
           printable |-> IF pdf /\ saved = {} THEN {}
                         ELSE Printable(range, IF pdf THEN PageNumbers ELSE saved)]
     /\ UNCHANGED <<device, notes, selection, published>>

RemoveAttachment ==
  /\ staging.label # NoLabel /\ Clear
  /\ UNCHANGED <<device, notes, selection, published>>

(* sendPrompt() with attachments, over a connection: refused when the      *)
(* agent takes none, when a file cannot be read, or when they are too big. *)
SendPrompt ==
  /\ staging.files # <<>>
  /\ selection.accepts
  /\ \A k \in DOMAIN staging.files : Readable(staging.files[k])
  /\ selection.limit = 0 \/ Encoded(staging.files) <= selection.limit
  /\ published' = [to |-> selection.agent, owner |-> staging.owner]
  /\ Clear
  /\ UNCHANGED <<device, notes, selection>>

(* The device writes, syncs or deletes a page file, or its thumbnail.      *)
DeviceChanges(p, rm, thumb) ==
  /\ device' = [device EXCEPT ![p] = [rm |-> rm, thumb |-> thumb]]
  /\ UNCHANGED <<notes, temp, staging, selection, published>>

AttachNext ==
  \/ \E k \in Agents, accepts \in BOOLEAN, limit \in Limits :
       SelectAgent(k, accepts, limit)
  \/ \E from, to \in PageNumbers, pdf \in BOOLEAN,
        saved \in SUBSET PageNumbers : StagePages(from, to, pdf, saved)
  \/ RemoveAttachment \/ SendPrompt
  \/ \E p \in PageNumbers, rm \in PageFiles, thumb \in BOOLEAN :
       DeviceChanges(p, rm, thumb)

AttachSpec == AttachInit /\ [][AttachNext]_attachVars
------------------------------------------------------------------------------
Stagings == [files : Seq(Staged), label : Labels \cup {NoLabel},
             owner : Agents \cup {NoAgent}, printable : SUBSET PageNumbers]
(* Types.                                                                  *)
AttachTypeOK ==
  /\ device \in Devices
  /\ notes \in Seq([page : PageNumbers, rm : BOOLEAN, thumb : BOOLEAN])
  /\ temp \in SUBSET (0 .. PageCount)
  /\ staging \in Stagings
  /\ selection \in [agent : Agents \cup {NoAgent}, accepts : BOOLEAN,
                    limit : Limits \cup {0}]
  /\ published \in [to : Agents \cup {NoAgent}, owner : Agents \cup {NoAgent}]

(* Pages staged for one agent are never sent to another.                   *)
NoCarryOver ==
  /\ staging.files # <<>> => staging.owner = selection.agent
  /\ published.owner = published.to

(* An attachment is the page its name and the label say: page-N.png is the *)
(* N-th page of the range, whichever pages were skipped, and every page of *)
(* the PDF is of the range, in its order, none that shows something left   *)
(* out.                                                                    *)
AttachedAsLabelled ==
  \A k \in DOMAIN staging.files :
    LET f == staging.files[k]
        range == SubSeq(notes, staging.label.from, staging.label.to)
    IN IF staging.label.pdf
       THEN /\ \A i, j \in DOMAIN f.pages : i < j => f.pages[i] < f.pages[j]
            /\ \A i \in DOMAIN f.pages :
                 \E n \in DOMAIN range : range[n].page = f.pages[i]
            /\ staging.printable \subseteq ToSet(f.pages)
       ELSE f.name \in DOMAIN range /\ f.pages = <<range[f.name].page>>

(* README.md lines 107-108, "Any page is attachable": no page of the range *)
(* that had strokes or typed text when it was staged is missing from what  *)
(* is staged, unless a rendering could not be saved.                       *)
Attached == UNION {ToSet(staging.files[k].pages) : k \in DOMAIN staging.files}
AnyPageAttachable == staging.printable \subseteq Attached
=============================================================================

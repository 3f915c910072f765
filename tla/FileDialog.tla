------------------------------ MODULE FileDialog ------------------------------
(***************************************************************************)
(* The file transfer dialog, VNCViewer/fxdlg.c, with the engine it calls   *)
(* and the server behind it.                                               *)
(*                                                                         *)
(* An operation copies, moves or deletes the items selected in a panel.    *)
(* It works through the scan list, directories first: a directory is       *)
(* listed, its items are added and it is created on the other side; a file *)
(* is transferred or deleted.  A move keeps what it has transferred in the *)
(* list to delete and deletes it last.  Every step starts when the answer  *)
(* to the one before arrives; answers name no request.                     *)
(*                                                                         *)
(* The panels show one directory on each side.  Renaming, the commands on  *)
(* local files only and moving through the directories are left out.       *)
(***************************************************************************)
EXTENDS FileXfer

CONSTANTS Patient, \* whether the user lets a listing, an operation and a clean-up end
          MaxCommands \* how often the user asks for something

ASSUME DialogAssumption == Patient \in BOOLEAN /\ MaxCommands \in Nat

VARIABLES shown,   \* hwndFX: the dialog exists
          job,     \* the fields of DLGDATA, the controls and the message boxes
          panel,   \* the remote panel: whether it has a path, and its items
          posted,  \* WM_ENDOFLOCALLIST is in the message queue
          commands \* commands the user has given

dialogVars == <<shown, job, panel, posted, commands>>
vars == <<serverVars, engineVars, dialogVars>>

ToLocal  == {"RLCOPY", "RLMOVE"}
ToRemote == {"LRCOPY", "LRMOVE"}
Moves    == {"RLMOVE", "LRMOVE"}
Ops      == ToLocal \union ToRemote \union {"RDELETE"}

\* asked is fFileListRequested, cancel is fScanCancel; the boxes are not modal.
NoJob == [op |-> "NONE", scan |-> <<>>, del |-> <<>>, flags |-> {}, cancel |-> FALSE,
          enabled |-> TRUE, asked |-> FALSE, boxes |-> {}]
\* _scanFilesClean leaves the boxes and the request for a listing.
CleanJob(j) == [NoJob EXCEPT !.asked = j.asked, !.boxes = j.boxes]
Notes == {"DRIVES", "PERMISSION_DENIED", "PATH", "FINDDATA", "END_OF_LIST", "DELETE_RES",
          "MKDIR_RES", "RECV_CREATE_FAIL", "RECV_WRITE_FAIL", "RECV_READ_FAIL",
          "RECV_CHUNK", "RECV_END_OF_FILE", "SEND_WRITE_FAIL", "SEND_READ_FAIL",
          "SEND_CHUNK", "SEND_END_OF_FILE"}

NoPanel == [path |-> FALSE, items |-> {}]

-----------------------------------------------------------------------------
(* The lists.                                                              *)

\* _scanFilesAdd: a directory goes after the directory being scanned, or
\* first; a file goes last.
ScanFilesAdd(scan, i) ==
  IF ~i.d THEN Append(scan, i)
  ELSE IF scan # <<>> /\ Head(scan).d THEN InsertAt(scan, 2, i)
  ELSE <<i>> \o scan

\* A choice that is not for all holds for one item.
Sticky(flags) == IF "FORALL" \in flags THEN flags ELSE {}

\* The first item is done with: it is kept to be deleted, or dropped.
Done(j, keep) == [j EXCEPT !.scan = Tail(@),
                           !.del = IF keep THEN <<Head(j.scan)>> \o @ ELSE @]

\* The lists without the files at their head that are there already and that
\* the user wants to keep.
WithoutKept(j, there) ==
  LET stops == {k \in DOMAIN j.scan : j.scan[k] \notin there}
      first == IF stops = {} THEN Len(j.scan) + 1 ELSE Min(stops) IN
  IF "NOOVERWRITE" \in j.flags THEN [j EXCEPT !.scan = SubSeq(@, first, Len(@))] ELSE j

-----------------------------------------------------------------------------
(* The next step of an operation.  fs stands for the local files as the    *)
(* handler has left them, sent for the messages it has sent.               *)

\* _scanNextStep at the end of an operation: the controls are enabled, and
\* the remote panel is read again unless a listing is under way.
EndOfScan(j, fs, sent) ==
  LET refresh == j.op \in (Ops \ {"RLCOPY"}) /\ ~j.asked IN
  /\ job' = [CleanJob(j) EXCEPT !.enabled = ~refresh, !.asked = @ \/ refresh]
  /\ Send(sent \o (IF refresh THEN <<ListRequest(panel.path, <<>>)>> ELSE <<>>))
  /\ local' = fs
  /\ UNCHANGED posted

Ends(j, fs)        == EndOfScan(j, fs, <<>>) /\ UNCHANGED rec
Waits(j, fs)       == job' = j /\ local' = fs /\ UNCHANGED <<rec, posted, toServer>>
Requests(j, fs, m) == job' = j /\ local' = fs /\ Send(<<m>>) /\ UNCHANGED <<rec, posted>>
Asks(j, fs, b)     == Waits([j EXCEPT !.boxes = @ \union {b}], fs)
Starts(j, fs)      == job' = j /\ local' = fs /\ UNCHANGED posted

\* _scanSendRequest: the first item of a remote list.
ScanSendRequest(j0, fs) ==
  LET j == IF j0.op \in ToLocal
           THEN WithoutKept(j0, {i \in ToSet(j0.scan) : ~i.d /\ IsFile(fs, i.p)}) ELSE j0
      i == Head(j.scan)
      once == [j EXCEPT !.flags = Sticky(@)] IN
  IF j.scan = <<>>
  THEN IF j.del = <<>> THEN Ends(j, fs)
       ELSE Requests(j, fs, Msg("delete", Head(j.del).p, TRUE))
  ELSE IF i.d THEN Requests(j, fs, ListRequest(TRUE, i.p))
  ELSE IF j.op \notin ToLocal THEN Requests(j, fs, Msg("delete", i.p, TRUE))
  ELSE IF IsFile(fs, i.p) /\ "OVERWRITE" \notin j.flags THEN Asks(once, fs, "overwrite")
  ELSE IF FxBusy THEN Ends(once, fs)
  ELSE FxRecvFile(i.p) /\ Starts(once, fs)

\* What the remote panel shows under the name of an item of the top level.
Shown(i) == IF Len(i.p) = 1 THEN {k \in panel.items : k.p = i.p} ELSE {}
OtherKind(i) == \E k \in Shown(i) : k.d # i.d
AsksAbout(j, i) == \/ OtherKind(i)
                   \/ /\ Shown(i) # {}
                      /\ (IF i.d THEN "RDIROVERWRITE" ELSE "OVERWRITE") \notin j.flags
Question(i) == IF OtherKind(i) THEN "error" ELSE IF i.d THEN "rdir" ELSE "overwrite"

\* _scanLocalRequest deletes at the end what a move has sent.
DeleteLocal(fs, i) == IF CanRemove(fs, i.p) THEN Erase(fs, i.p) ELSE fs
DeleteSent(j, fs) ==
  \/ Ends(j, FoldLeft(DeleteLocal, fs, j.del))
  \/ /\ "delete" \in Events
     /\ \E k \in DOMAIN j.del :
          /\ ~j.del[k].d
          /\ Asks([j EXCEPT !.del = SubSeq(@, k, Len(@))],
                  FoldLeft(DeleteLocal, fs, SubSeq(j.del, 1, k - 1)), "error")

\* A local directory is read at once, and the rest is left to a message; when
\* it cannot be read nothing follows.
ReadLocalDir(j, fs, i) ==
  \E ok \in Outcome("readDir") :
    IF ok /\ IsFolder(fs, i.p)
    THEN /\ job' = [j EXCEPT !.scan = FoldLeft(ScanFilesAdd, @, SetToSeq(Listing(fs, i.p)))]
         /\ posted' = TRUE
         /\ local' = fs /\ UNCHANGED <<rec, toServer>>
    ELSE Waits(j, fs)

\* fxSendFile opens the file first: it may not be there any more.
SendLocalFile(j, fs, i) ==
  \E ok \in Outcome("open") :
    IF ok /\ ~FxBusy /\ IsFile(fs, i.p)
    THEN FxSendFile(i.p) /\ Starts(j, fs)
    ELSE Asks(j, fs, "error")

ScanLocalRequest(j0, fs) ==
  LET j == WithoutKept(j0, {i \in ToSet(j0.scan) : ~i.d /\ \E k \in Shown(i) : ~k.d})
      i == Head(j.scan)
      once == IF Len(i.p) = 1 THEN [j EXCEPT !.flags = Sticky(@)] ELSE j IN
  IF j.scan = <<>> THEN DeleteSent(j, fs)
  ELSE IF AsksAbout(j, i) THEN Asks(once, fs, Question(i))
  ELSE IF i.d THEN ReadLocalDir(once, fs, i)
  ELSE SendLocalFile(once, fs, i)

ScanNextStep(j, fs) ==
  IF j.cancel THEN Ends(j, fs)
  ELSE IF j.op \in ToRemote THEN ScanLocalRequest(j, fs)
  ELSE ScanSendRequest(j, fs)

Others == UNCHANGED <<shown, panel, commands, crashed>>
Still  == UNCHANGED <<local, rec, posted, toServer>>

-----------------------------------------------------------------------------
(* The GUI thread handles what the RFB thread tells it.                    *)

Heard(c) == /\ ~crashed /\ note.c \in c /\ note' = NoNote
            /\ UNCHANGED <<viewOnly, fd, sending, remote, toViewer, listing, clean>>

\* Without a dialog only CFX_DRIVES means something: it opens one.  The list
\* of drives selects a drive, and the listing of the drive is requested.
FilexferDrives ==
  LET first == ~shown
      select == first \/ (~panel.path /\ ~job.asked) IN
  /\ Heard({"DRIVES"})
  /\ shown' = TRUE
  /\ panel' = IF first THEN NoPanel ELSE panel
  /\ job' = IF select THEN [(IF first THEN NoJob ELSE job) EXCEPT !.enabled = FALSE, !.asked = TRUE]
            ELSE job
  /\ Send(IF select THEN <<ListRequest(TRUE, <<>>)>> ELSE <<>>)
  /\ UNCHANGED <<local, rec, posted, commands, crashed>>

PermissionDenied == Heard({"PERMISSION_DENIED"}) /\ UNCHANGED job /\ Still /\ Others

NobodyHears == /\ ~shown /\ Heard(Notes \ {"DRIVES", "PERMISSION_DENIED"})
               /\ UNCHANGED job /\ Still /\ Others

\* A listing for the panel enables the controls with its first message.
FilexferPath ==
  /\ shown /\ Heard({"PATH"})
  /\ IF job.scan # <<>> THEN UNCHANGED <<job, panel>>
     ELSE /\ job' = [job EXCEPT !.enabled = TRUE]
          /\ panel' = [path |-> TRUE, items |-> {}]
  /\ Still /\ UNCHANGED <<shown, commands, crashed>>

\* An item is added to the directory being scanned, or else to the panel.
FilexferFindData ==
  /\ shown /\ Heard({"FINDDATA"})
  /\ IF job.scan = <<>>
     THEN panel' = [panel EXCEPT !.items = @ \union {note.i}] /\ UNCHANGED job
     ELSE /\ job' = IF Head(job.scan).d
                    THEN [job EXCEPT !.scan =
                           ScanFilesAdd(@, Item(Append(Head(@).p, Last(note.i.p)), note.i.d))]
                    ELSE job
          /\ UNCHANGED panel
  /\ Still /\ UNCHANGED <<shown, commands, crashed>>

\* The directory that has been listed is created here and leaves the list.
ListedDir(j) ==
  LET p == Head(j.scan).p
      fs == IF j.op # "RDELETE" /\ p \notin DOMAIN local /\ IsFolder(local, Front(p))
            THEN Put(local, p, Folder) ELSE local IN
  IF j.op = "RDELETE" \/ IsFolder(fs, p)
  THEN ScanNextStep(Done(j, j.op # "RLCOPY"), fs)
  ELSE Asks(j, fs, "fatal")

FilexferEndOfList ==
  /\ shown /\ Heard({"END_OF_LIST"})
  /\ IF job.scan = <<>> THEN Waits([job EXCEPT !.asked = FALSE, !.enabled = TRUE], local)
     ELSE IF Head(job.scan).d THEN ListedDir(job)
     ELSE UNCHANGED job /\ Still
  /\ Others

\* After a cancel the next block of a file ends the operation.
FilexferFileChunk ==
  /\ shown /\ Heard({"RECV_CHUNK", "SEND_CHUNK"})
  /\ IF job.cancel
     THEN /\ rec' = IF rec.fSendReady THEN [rec EXCEPT !.fSendAbort = TRUE] ELSE NoRec
          /\ EndOfScan(job, IF rec.fSendReady THEN local ELSE Cleaned(rec), AbortMessages)
     ELSE UNCHANGED job /\ Still
  /\ Others

\* Faulty variant: the next file of a move is not asked for.
FaultyEndOfFile ==
  /\ shown /\ Heard({"RECV_END_OF_FILE", "SEND_END_OF_FILE"})
  /\ IF job.op \in Moves THEN Waits(Done(job, TRUE), local)
     ELSE IF job.scan = <<>> THEN UNCHANGED job /\ Still
     ELSE ScanNextStep(Done(job, FALSE), local)
  /\ Others

\* The first item has been transferred.
FilexferEndOfFile ==
  /\ shown /\ Heard({"RECV_END_OF_FILE", "SEND_END_OF_FILE"})
  /\ IF job.scan = <<>> THEN UNCHANGED job /\ Still
     ELSE ScanNextStep(Done(job, job.op \in Moves), local)
  /\ Others

FilexferFail ==
  /\ shown /\ Heard({"RECV_CREATE_FAIL", "RECV_WRITE_FAIL", "RECV_READ_FAIL",
                     "SEND_WRITE_FAIL", "SEND_READ_FAIL"})
  /\ IF job.scan = <<>> /\ job.del = <<>> THEN UNCHANGED job /\ Still
     ELSE Asks(job, local, "error")
  /\ Others

\* The first item of the operation's list has been deleted, or has not.
FilexferDeleteResult ==
  LET j == IF job.op = "RDELETE" /\ job.scan # <<>> THEN [job EXCEPT !.scan = Tail(@)]
           ELSE IF job.del # <<>> THEN [job EXCEPT !.del = Tail(@)]
           ELSE job IN
  /\ shown /\ Heard({"DELETE_RES"})
  /\ IF job.op = "RLMOVE" /\ job.del = <<>> THEN UNCHANGED job /\ Still
     ELSE IF note.i.d THEN ScanNextStep(j, local)
     ELSE Asks(j, local, "fatal")
  /\ Others

\* The directory exists on the server, or cannot be created there.  Without
\* such an operation the user must have named a directory, and the code uses
\* the record being edited: there is none here.
FilexferMkDirResult ==
  /\ shown /\ Heard({"MKDIR_RES"})
  /\ IF job.op \in ToRemote
     THEN ScanNextStep(job, local) /\ UNCHANGED crashed
     ELSE /\ crashed' = note.i.d
          /\ Waits([job EXCEPT !.enabled = TRUE,
                               !.boxes = IF note.i.d THEN @ ELSE @ \union {"fatal"}], local)
  /\ UNCHANGED <<shown, panel, commands>>

\* The posted message after a local directory has been read: it is created on
\* the server, and leaves the list.
WmEndOfLocalList ==
  /\ ~crashed /\ shown /\ posted /\ posted' = FALSE
  /\ IF job.scan # <<>> /\ Head(job.scan).d
     THEN /\ Send(<<Msg("mkdir", Head(job.scan).p, TRUE)>>)
          /\ job' = Done(job, job.op # "LRCOPY")
     ELSE job' = CleanJob(job) /\ UNCHANGED toServer
  /\ UNCHANGED <<viewOnly, fd, sending, remote, toViewer, listing, clean, note, local, rec>>
  /\ Others

-----------------------------------------------------------------------------
(* The user, in the GUI thread.                                            *)

ByUser == /\ ~crashed /\ (Patient => ~clean)
          /\ UNCHANGED <<viewOnly, fd, sending, remote, toViewer, listing, clean, note, crashed>>
Idle == job.op = "NONE" /\ ~job.asked /\ job.boxes = {}
Command == /\ ByUser /\ shown
           /\ Patient => Idle
           /\ commands < MaxCommands /\ commands' = commands + 1

\* CWC_FILE_TRANSFER: the drives are listed first, to see if it is allowed.
OpenFileTransfer ==
  /\ ByUser /\ ~shown
  /\ Patient => commands = 0
  /\ commands < MaxCommands /\ commands' = commands + 1
  /\ Send(<<ListRequest(FALSE, <<>>)>>)
  /\ UNCHANGED <<local, rec, shown, job, panel, posted>>

\* Faulty variant: the transfer goes on without its dialog.
FaultyCloseDialog ==
  /\ "close" \in Events
  /\ ByUser /\ shown
  /\ shown' = FALSE /\ job' = [NoJob EXCEPT !.scan = job.scan] /\ panel' = NoPanel
  /\ posted' = FALSE
  /\ UNCHANGED <<toServer, rec, local, commands>>

\* WM_CLOSE: a transfer is aborted and the dialog, its lists and its message
\* boxes are destroyed.
CloseDialog ==
  /\ "close" \in Events
  /\ ByUser /\ shown
  /\ Send(AbortMessages) /\ FxAbortFileTransfer
  /\ shown' = FALSE /\ job' = NoJob /\ panel' = NoPanel /\ posted' = FALSE
  /\ UNCHANGED commands

\* _queryFileList for the remote panel; without a path it asks for the drives.
Refresh ==
  /\ Command /\ job.enabled
  /\ IF job.asked THEN UNCHANGED <<job, toServer>>
     ELSE /\ job' = [job EXCEPT !.enabled = FALSE, !.asked = TRUE]
          /\ Send(<<ListRequest(panel.path, <<>>)>>)
  /\ UNCHANGED <<local, rec, shown, panel, posted>>

\* _cmdScanOp: a new operation on the items S of a panel.
Selectable(o) == IF o \in ToRemote THEN Listing(local, <<>>) ELSE panel.items
StartScan(j, o, S) ==
  ScanNextStep([CleanJob(j) EXCEPT !.op = o, !.enabled = FALSE,
                                   !.scan = FoldLeft(ScanFilesAdd, <<>>, SetToSeq(S))], local)

Copy ==
  /\ Command /\ job.enabled /\ panel.path
  /\ \E o \in {"RLCOPY", "LRCOPY"} : \E S \in SUBSET Selectable(o) \ {{}} :
       StartScan(job, o, S)
  /\ UNCHANGED <<shown, panel>>

\* A move and a deletion are confirmed in a box of their own.
Confirm ==
  /\ Command /\ job.enabled
  /\ \E o \in Moves \union {"RDELETE"} :
       /\ Selectable(o) # {}
       /\ Waits([job EXCEPT !.boxes = @ \union {o}], local)
  /\ UNCHANGED <<shown, panel>>

Confirmed ==
  /\ ByUser /\ shown /\ panel.path
  /\ \E o \in job.boxes \intersect Ops : \E S \in SUBSET Selectable(o) \ {{}} :
       StartScan([job EXCEPT !.boxes = @ \ {o}], o, S)
  /\ UNCHANGED <<shown, panel, commands>>

NotConfirmed ==
  /\ ByUser /\ shown
  /\ \E o \in job.boxes \intersect Ops : Waits([job EXCEPT !.boxes = @ \ {o}], local)
  /\ UNCHANGED <<shown, panel, commands>>

\* The progress dialog is disabled while there is a box.
Cancel ==
  /\ "cancel" \in Events
  /\ ByUser /\ shown /\ job.op # "NONE" /\ job.boxes = {} /\ ~job.cancel
  /\ Waits([job EXCEPT !.cancel = TRUE], local)
  /\ UNCHANGED <<shown, panel, commands>>

\* Faulty variant: a skipped file of a move is deleted with the others.
FaultySkip(j) == IF j.scan # <<>> THEN Done(j, j.op \in Moves)
                 ELSE IF j.del # <<>> THEN [j EXCEPT !.del = Tail(@)]
                 ELSE [j EXCEPT !.cancel = TRUE]

\* _scanSkipNext; there may be nothing to skip.
Skip(j) == IF j.scan # <<>> THEN [j EXCEPT !.scan = Tail(@)]
           ELSE IF j.del # <<>> THEN [j EXCEPT !.del = Tail(@)]
           ELSE [j EXCEPT !.cancel = TRUE]
Flags(j, flags) == [j EXCEPT !.flags = flags]

\* What the buttons of a box make of the operation.
Answers(b, j) ==
  {[j EXCEPT !.cancel = TRUE]}
  \union (IF b = "fatal" THEN {} ELSE {Skip(j)})
  \union (IF b = "rdir" THEN {Flags(j, {"RDIROVERWRITE"})} ELSE {})
  \union (IF b = "overwrite"
          THEN {Flags(j, {"OVERWRITE"}), Flags(j, {"OVERWRITE", "FORALL"}),
                Flags(j, {"NOOVERWRITE", "FORALL"})}
          ELSE {})

WmMsgBoxDismiss ==
  /\ ByUser /\ shown
  /\ \E b \in job.boxes \ Ops :
       \E j \in Answers(b, [job EXCEPT !.boxes = @ \ {b}]) : ScanNextStep(j, local)
  /\ UNCHANGED <<shown, panel, commands>>

-----------------------------------------------------------------------------
DialogInit == /\ shown = FALSE /\ job = NoJob /\ panel = NoPanel
              /\ posted = FALSE /\ commands = 0

Init == ServerInit /\ EngineInit /\ DialogInit

Hear == \/ FilexferDrives \/ PermissionDenied \/ NobodyHears
        \/ FilexferPath \/ FilexferFindData \/ FilexferEndOfList
        \/ FilexferFileChunk \/ FilexferEndOfFile \/ FilexferFail
        \/ FilexferDeleteResult \/ FilexferMkDirResult
User == \/ OpenFileTransfer \/ CloseDialog \/ Refresh \/ Copy \/ Confirm
        \/ Confirmed \/ NotConfirmed \/ Cancel \/ WmMsgBoxDismiss

Server == ServerNext /\ UNCHANGED <<engineVars, dialogVars>>
Rfb    == RfbNext /\ UNCHANGED dialogVars

Next == Server \/ Rfb \/ Hear \/ WmEndOfLocalList \/ User

\* Both threads and the server go on, and the user answers the boxes.
Fairness == /\ WF_vars(Server) /\ WF_vars(Rfb)
            /\ WF_vars(Hear \/ WmEndOfLocalList)
            /\ WF_vars(WmMsgBoxDismiss \/ Confirmed)

Spec == Init /\ [][Next]_vars /\ Fairness
-----------------------------------------------------------------------------
(* Properties.                                                             *)

\* Every variable has its type, and without the dialog there is no operation,
\* no box and no message for it: WM_CLOSE in fxdlg.c destroys them all.
TypeOK ==
  /\ fd.mode \in {"none", "r", "w"} /\ rec.h \in Handles
  /\ note.c \in Notes \union {"none"} /\ job.op \in Ops \union {"NONE"}
  /\ \A i \in Range(job.scan) \union Range(job.del) : i = Item(i.p, i.d)
  /\ {viewOnly, sending, listing, clean, crashed, shown, posted, job.asked,
      job.enabled, job.cancel} \subseteq BOOLEAN
  /\ ~shown => job = NoJob /\ panel = NoPanel /\ ~posted

Files(fs) == {p \in DOMAIN fs : IsFile(fs, p)}

\* A block the server is about to write goes to the file the viewer read it
\* from, whatever was aborted, refused, cancelled or closed before: messages
\* name no file, the descriptor of rfbProcessFileTransfer decides.  When the end
\* of a file reaches a server that is still writing, the file is the one the
\* viewer read and has its whole content.
SentWhole ==
  toServer # <<>> /\ fd.mode = "w" =>
    LET m == Head(toServer) IN
    /\ m.t \in {"packet", "eof"} => fd.path = m.p
    /\ m.t = "eof" => remote[fd.path] = m.b

\* The engine, the dialog and the server are at the same file, though messages
\* and callbacks name none: the file in transfer is the first item of the
\* operation, and goes in its direction; no handler is entered when the record
\* it follows does not exist; and when CFX_RECV_END_OF_FILE informs the window
\* that the end of the file is reached (filexfer.h), the first item is here as
\* it is on the server.
TransferInStep ==
  /\ ~crashed
  /\ rec.used => /\ job.scan # <<>> /\ Head(job.scan) = Item(rec.path, FALSE)
                 /\ job.op \in (IF rec.recv THEN ToLocal ELSE ToRemote)
  /\ note.c = "RECV_END_OF_FILE" =>
       /\ job.scan # <<>>
       /\ LET p == Head(job.scan).p IN
          IsFile(local, p) /\ IsFile(remote, p) /\ local[p] = remote[p]

\* What a file on the server will be when the messages under way have arrived.
Arriving(p) ==
  LET ms == SelectSeq(toServer, LAMBDA m : m.t = "packet" /\ m.p = p) IN
  remote[p] \o [k \in DOMAIN ms |-> ms[k].b]

\* A move deletes no file before the other side has its content: the list to
\* delete of fxdlg.c holds only what has been transferred.
MovedIsCopied ==
  [][/\ job.op = "RLMOVE" => \A p \in Files(remote) \ DOMAIN remote' :
          IsFile(local, p) /\ local[p] = remote[p]
     /\ job.op = "LRMOVE" => \A p \in Files(local) \ DOMAIN local' :
          IsFile(remote, p) /\ Arriving(p) = local[p]]_vars

\* Every operation ends, and every listing the dialog waits for arrives: each
\* step waits for the answer to the one before.
Ended == /\ job.op # "NONE" ~> job.op = "NONE"
         /\ job.asked ~> ~job.asked
=============================================================================

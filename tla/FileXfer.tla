------------------------------- MODULE FileXfer -------------------------------
(***************************************************************************)
(* The viewer's file transfer engine: VNCViewer/filexfer.c.                *)
(*                                                                         *)
(* Two threads use it.  The GUI thread calls fxRecvFile, fxSendFile, ...:  *)
(* the operators named Fx..., conjuncts of the dialog's actions.  The RFB  *)
(* thread reads the server's messages and sends the blocks of a file; it   *)
(* tells the dialog by WinSendMsg, and waits until the GUI thread has      *)
(* handled the message.  No mutex is held, so the record of the transfer   *)
(* may change under the RFB thread while it waits.                         *)
(***************************************************************************)
EXTENDS FileServer

CONSTANT LocalInit \* the viewer's files: a function from paths to contents

ASSUME LocalAssumption == FileSystem(LocalInit)

VARIABLES local,   \* the viewer's files
          rec,     \* the FXCDFILE record of the client
          listing, \* _TAG_LIST_OBTAINING: the path of a listing has been read
          note,    \* the window message the RFB thread is sending
          clean,   \* whether it calls fxClean when the message is handled
          crashed  \* whether the viewer has followed a NULL pointer

engineVars == <<local, rec, listing, note, clean, crashed>>

\* h is the handle: -1 until the file is opened, NULLHANDLE once it has been
\* handed over, "stray": open for writing under a name that is not local.
Handles == {"-1", "null", "read", "write", "stray"}
NoRec == [used |-> FALSE, recv |-> FALSE, path |-> <<>>, h |-> "null",
          pos |-> 0, fSendReady |-> FALSE, fSendAbort |-> FALSE]

NoNote     == [c |-> "none", i |-> Item(<<>>, FALSE)]
Note(c, i) == [c |-> c, i |-> i]
Tell(c)    == note' = Note(c, Item(<<>>, FALSE))

Send(ms) == toServer' = toServer \o ms

-----------------------------------------------------------------------------
\* fxClean closes the file, and deletes it when it was being received: also a
\* file of that name that this transfer has never opened, as -1 is no
\* NULLHANDLE.
Cleaned(r) == IF r.used /\ r.recv /\ r.h # "null" /\ CanRemove(local, r.path)
              THEN Erase(local, r.path) ELSE local
FxClean == rec' = NoRec /\ local' = Cleaned(rec)

ListRequest(named, p) == IF named THEN Msg("dir", p, TRUE) ELSE Msg("abort", <<>>, TRUE)

\* fxRecvFile and fxSendFile refuse when there is a record.
FxBusy == rec.used

FxRecvFile(p) ==
  /\ rec' = [NoRec EXCEPT !.used = TRUE, !.recv = TRUE, !.path = p, !.h = "-1"]
  /\ Send(<<Msg("request", p, TRUE)>>)

FxSendFile(p) ==
  /\ rec' = [NoRec EXCEPT !.used = TRUE, !.path = p, !.h = "read"]
  /\ Send(<<Msg("offer", p, TRUE)>>)

\* fxAbortFileTransfer: a sender is only flagged, the RFB thread will stop.
AbortMessages == IF rec.used /\ ~rec.fSendReady THEN <<Msg("abort", <<>>, FALSE)>> ELSE <<>>
FxAbortFileTransfer ==
  CASE ~rec.used      -> UNCHANGED <<rec, local>>
    [] rec.fSendReady -> rec' = [rec EXCEPT !.fSendAbort = TRUE] /\ UNCHANGED local
    [] OTHER          -> FxClean

-----------------------------------------------------------------------------
(* The RFB thread: _cbRFBMessage, one action per type of message.          *)

RfbIdle == note = NoNote /\ ~clean /\ ~crashed

Handle(t) == /\ RfbIdle
             /\ toViewer # <<>> /\ Head(toViewer).t = t
             /\ toViewer' = Tail(toViewer)
             /\ UNCHANGED <<viewOnly, fd, sending, remote>>

Quiet == UNCHANGED <<note, clean>>

FileTransferAccess ==
  /\ Handle("access")
  /\ IF Head(toViewer).ok THEN Send(<<Msg("drives", <<>>, TRUE)>>) /\ UNCHANGED note
                          ELSE Tell("PERMISSION_DENIED") /\ UNCHANGED toServer
  /\ UNCHANGED <<local, rec, listing, clean, crashed>>

ADrivesList == /\ Handle("drives")
               /\ Tell("DRIVES")
               /\ UNCHANGED <<toServer, local, rec, listing, clean, crashed>>

\* The first message of a listing is its path, the others are items.
ADirectory ==
  /\ Handle("dir")
  /\ listing' = TRUE
  /\ note' = Note(IF listing THEN "FINDDATA" ELSE "PATH",
                  Item(Head(toViewer).p, Head(toViewer).ok))
  /\ UNCHANGED <<toServer, local, rec, clean, crashed>>

EndOfList == /\ Handle("end")
             /\ listing' = FALSE
             /\ Tell("END_OF_LIST")
             /\ UNCHANGED <<toServer, local, rec, clean, crashed>>

\* rfbFileHeader.  The server has the file, or has not; the local file is
\* created, or cannot be.  The server is not told of the last.
\* Faulty variant: the record of a refused transfer is kept.
FaultyHeaderRefused == /\ Send(<<Msg("header", <<>>, FALSE)>>)
                       /\ Tell("RECV_READ_FAIL")
                       /\ UNCHANGED <<rec, local, clean>>

HeaderRefused == /\ Send(<<Msg("header", <<>>, FALSE)>>)
                 /\ FxClean
                 /\ Tell("RECV_READ_FAIL")
                 /\ UNCHANGED clean

HeaderAccepted ==
  \E ok \in Outcome("open") :
    IF ~rec.recv
    THEN /\ rec' = [rec EXCEPT !.h = "stray"]
         /\ Send(<<Msg("header", <<>>, TRUE)>>)
         /\ Quiet /\ UNCHANGED local
    ELSE IF ok /\ rec.h = "-1" /\ CanCreate(local, rec.path)
    THEN /\ local' = Put(local, rec.path, <<>>)
         /\ rec' = [rec EXCEPT !.h = "write"]
         /\ Send(<<Msg("header", <<>>, TRUE)>>)
         /\ Quiet
    ELSE /\ Tell("RECV_CREATE_FAIL") /\ clean' = TRUE
         /\ UNCHANGED <<rec, local, toServer>>

FileHeaderAnswer ==
  /\ Handle("header")
  /\ IF ~rec.used THEN Quiet /\ UNCHANGED <<rec, local, toServer>>
     ELSE IF ~Head(toViewer).ok THEN HeaderRefused
     ELSE HeaderAccepted
  /\ UNCHANGED <<listing, crashed>>

\* rfbFilePacket.  Writing needs a handle open for writing; what is written to
\* a file that is no longer listed is not seen.
FilePacketIn ==
  /\ Handle("packet")
  /\ IF ~rec.used \/ rec.h = "null" THEN Quiet /\ UNCHANGED local
     ELSE \E ok \in Outcome("write") :
       IF ok /\ rec.h \in {"write", "stray"}
       THEN /\ Tell("RECV_CHUNK")
            /\ local' = IF rec.h = "stray" \/ ~IsFile(local, rec.path) THEN local
                        ELSE [local EXCEPT ![rec.path] = Append(@, Head(toViewer).b)]
            /\ UNCHANGED clean
       ELSE Tell("RECV_WRITE_FAIL") /\ clean' = TRUE /\ UNCHANGED local
  /\ UNCHANGED <<rec, toServer, listing, crashed>>

\* rfbEndOfFile.  The record is gone when the dialog hears of it, so the
\* dialog may start the next transfer at once; the file stays.
EndOfFileIn ==
  /\ Handle("eof")
  /\ IF ~rec.used \/ rec.h = "null" THEN UNCHANGED <<rec, note>>
     ELSE rec' = NoRec /\ Tell("RECV_END_OF_FILE")
  /\ UNCHANGED <<toServer, local, listing, clean, crashed>>

AbortFileTransferIn ==
  /\ Handle("abort")
  /\ IF rec.used /\ rec.recv THEN Tell("RECV_READ_FAIL") /\ clean' = TRUE ELSE Quiet
  /\ UNCHANGED <<toServer, local, rec, listing, crashed>>

\* rfbFileAcceptHeader.  Without a record the viewer follows a NULL pointer.
FileAcceptHeader ==
  /\ Handle("accept")
  /\ IF ~Head(toViewer).ok
     THEN Tell("SEND_WRITE_FAIL") /\ clean' = TRUE /\ UNCHANGED <<rec, crashed>>
     ELSE /\ Quiet
          /\ rec' = IF rec.used THEN [rec EXCEPT !.fSendReady = TRUE] ELSE rec
          /\ crashed' = ~rec.used
  /\ UNCHANGED <<toServer, local, listing>>

CommandReturn ==
  /\ \E t \in {"mkdirDone", "deleteDone"} : Handle(t)
  /\ note' = Note(IF Head(toViewer).t = "mkdirDone" THEN "MKDIR_RES" ELSE "DELETE_RES",
                  Item(Head(toViewer).p, Head(toViewer).ok))
  /\ UNCHANGED <<toServer, local, rec, listing, clean, crashed>>

-----------------------------------------------------------------------------
(* fxWaitForMessage sends the blocks of a file before it waits for data.   *)

\* The file is read from the handle: a block, its end, or an error.
SendBlock ==
  /\ RfbIdle /\ rec.used /\ rec.fSendReady /\ ~rec.fSendAbort
  /\ \E ok \in Outcome("read") :
       IF ~ok \/ rec.h # "read" \/ ~IsFile(local, rec.path)
       THEN Tell("SEND_READ_FAIL") /\ clean' = TRUE /\ UNCHANGED <<rec, local, toServer>>
       ELSE IF rec.pos >= Len(local[rec.path])
       THEN /\ Send(<<Eof(rec.path, local[rec.path])>>)
            /\ FxClean
            /\ Tell("SEND_END_OF_FILE")
            /\ UNCHANGED clean
       ELSE /\ Send(<<Packet(rec.path, local[rec.path][rec.pos + 1])>>)
            /\ rec' = [rec EXCEPT !.pos = @ + 1]
            /\ Tell("SEND_CHUNK")
            /\ UNCHANGED <<local, clean>>
  /\ UNCHANGED <<viewOnly, fd, sending, remote, toViewer, listing, crashed>>

SendAbort ==
  /\ RfbIdle /\ rec.used /\ rec.fSendReady /\ rec.fSendAbort
  /\ Send(<<Msg("abort", <<>>, FALSE)>>)
  /\ FxClean /\ Quiet
  /\ UNCHANGED <<viewOnly, fd, sending, remote, toViewer, listing, crashed>>

\* WinSendMsg has returned, and the handler goes on to fxClean.
CleanAfterNote ==
  /\ note = NoNote /\ clean /\ ~crashed
  /\ FxClean /\ clean' = FALSE
  /\ UNCHANGED <<serverVars, listing, note, crashed>>

EngineInit == /\ local = LocalInit
              /\ rec = NoRec /\ listing = FALSE
              /\ note = NoNote /\ clean = FALSE /\ crashed = FALSE

RfbNext == \/ FileTransferAccess \/ ADrivesList \/ ADirectory \/ EndOfList
           \/ FileHeaderAnswer \/ FilePacketIn \/ EndOfFileIn
           \/ AbortFileTransferIn \/ FileAcceptHeader \/ CommandReturn
           \/ SendBlock \/ SendAbort \/ CleanAfterNote
=============================================================================

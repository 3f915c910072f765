------------------------------ MODULE FileServer ------------------------------
(***************************************************************************)
(* The server's side of a file transfer: rfbProcessFileTransfer and        *)
(* rfbSendFileTransferChunk of libvncserver/rfbserver.c, for one client.   *)
(*                                                                         *)
(* A path is a sequence of names below the directory both panels show; a   *)
(* content is a sequence of blocks, or Folder.  The two directions of the  *)
(* socket are queues.  The server is one thread: it handles a message, or  *)
(* sends a block of the file it has been told to send.                     *)
(***************************************************************************)
EXTENDS Integers, Sequences, SequencesExt

CONSTANTS Folder,     \* the content of a directory
          RemoteInit, \* the server's files: a function from paths to contents
          MaxQueue,   \* blocks the server may have in flight: room in its socket
          Events      \* the failures and user's actions that may happen

\* Finitely many files, each with a directory's content or a sequence of blocks.
FileSystem(fs) == /\ fs = [p \in DOMAIN fs |-> fs[p]] /\ IsFiniteSet(DOMAIN fs)
                  /\ \A p \in DOMAIN fs : fs[p] = Folder \/ fs[p] \in Seq(Range(fs[p]))

ASSUME ServerAssumption == MaxQueue \in Nat \ {0} /\ FileSystem(RemoteInit)

VARIABLES viewOnly, \* cl->viewOnly: fixed when the client logs on
          fd,       \* cl->fileTransfer.fd: what it has open, and how
          sending,  \* cl->fileTransfer.sending
          remote,   \* the server's files
          toServer, \* messages on their way to the server
          toViewer  \* messages on their way to the viewer

serverVars == <<viewOnly, fd, sending, remote, toServer, toViewer>>

Closed == [mode |-> "none", path |-> <<>>, pos |-> 0]
Msg(t, p, ok) == [t |-> t, p |-> p, ok |-> ok, b |-> Folder]
\* A block and the end of a file name no file: p is the file they were read
\* from, and b at the end is its content, for the properties.
Packet(p, b)  == [t |-> "packet", p |-> p, ok |-> TRUE, b |-> b]
Eof(p, c)     == [t |-> "eof", p |-> p, ok |-> TRUE, b |-> c]

\* What an operation that may fail can answer.
Outcome(event) == IF event \in Events THEN BOOLEAN ELSE {TRUE}

-----------------------------------------------------------------------------
(* File systems, the same on both sides.                                   *)

IsFile(fs, p)   == p \in DOMAIN fs /\ fs[p] # Folder
IsFolder(fs, p) == p = <<>> \/ (p \in DOMAIN fs /\ fs[p] = Folder)
Children(fs, p) == {q \in DOMAIN fs : q # <<>> /\ Front(q) = p}
Put(fs, p, c)   == [q \in DOMAIN fs \union {p} |-> IF q = p THEN c ELSE fs[q]]
Erase(fs, p)    == [q \in DOMAIN fs \ {p} |-> fs[q]]

\* open for writing: the file is created, or replaced by an empty one.
CanCreate(fs, p) == ~IsFolder(fs, p) /\ IsFolder(fs, Front(p))
\* A directory goes only when it is empty.
CanRemove(fs, p) == p \in DOMAIN fs /\ (IsFolder(fs, p) => Children(fs, p) = {})

\* An item of a listing: a path and its directory attribute.
Item(p, d)    == [p |-> p, d |-> d]
Listing(fs, p) == {Item(q, IsFolder(fs, q)) : q \in Children(fs, p)}

-----------------------------------------------------------------------------
Reply(ms) == toViewer' = toViewer \o ms

Receive(t) == /\ toServer # <<>> /\ Head(toServer).t = t
              /\ toServer' = Tail(toServer)
              /\ UNCHANGED viewOnly

\* rfbDirContentRequest, rfbRDrivesList.
DrivesList == Receive("drives") /\ Reply(<<Msg("drives", <<>>, TRUE)>>)
              /\ UNCHANGED <<fd, sending, remote>>

\* rfbSendDirContent: the path, an item after another, the end of the list;
\* the end alone when the directory cannot be read.
DirContent ==
  LET p == Head(toServer).p
      items == SetToSeq(Listing(remote, p)) IN
  /\ Receive("dir")
  /\ Reply(IF IsFolder(remote, p)
           THEN <<Msg("dir", p, TRUE)>>
                \o [k \in DOMAIN items |-> Msg("dir", items[k].p, items[k].d)]
                \o <<Msg("end", p, TRUE)>>
           ELSE <<Msg("end", p, FALSE)>>)
  /\ UNCHANGED <<fd, sending, remote>>

\* The viewer asks for a file.  The descriptor that may still be open is
\* forgotten; the flag sending keeps its value when the file cannot be opened.
FileTransferRequest ==
  LET p == Head(toServer).p IN
  /\ Receive("request")
  /\ \E ok \in Outcome("srvOpen") :
       IF ok /\ IsFile(remote, p)
       THEN /\ fd' = [mode |-> "r", path |-> p, pos |-> 0]
            /\ sending' = FALSE
            /\ Reply(<<Msg("header", p, TRUE)>>)
       ELSE /\ fd' = Closed
            /\ Reply(<<Msg("header", p, FALSE)>>)
            /\ UNCHANGED sending
  /\ UNCHANGED remote

\* A block of the open file, its end, or a report that it cannot be read.
Chunk(f) ==
  \E ok \in Outcome("srvRead") :
    IF ~ok \/ f.mode # "r" \/ ~IsFile(remote, f.path)
    THEN Reply(<<Msg("abort", <<>>, TRUE)>>) /\ fd' = Closed /\ sending' = FALSE
    ELSE IF f.pos >= Len(remote[f.path])
    THEN Reply(<<Msg("eof", <<>>, TRUE)>>) /\ fd' = Closed /\ sending' = FALSE
    ELSE /\ Reply(<<Packet(f.path, remote[f.path][f.pos + 1])>>)
         /\ fd' = [f EXCEPT !.pos = @ + 1]
         /\ sending' = TRUE

HasRoom == Cardinality({k \in DOMAIN toViewer : toViewer[k].t = "packet"}) < MaxQueue

\* rfbSendFileTransferChunk, called again and again by rfbCheckFds.
SendFileTransferChunk ==
  /\ fd.mode # "none" /\ sending /\ HasRoom
  /\ Chunk(fd)
  /\ UNCHANGED <<viewOnly, remote, toServer>>

\* The viewer can take the file or cannot; if it can, the first block follows
\* at once.
FileHeader ==
  /\ Receive("header")
  /\ IF ~Head(toServer).ok
     THEN fd' = Closed /\ Reply(<<>>) /\ UNCHANGED sending
     ELSE IF fd.mode # "none" /\ HasRoom
     THEN Chunk(fd)
     ELSE sending' = TRUE /\ Reply(<<>>) /\ UNCHANGED fd
  /\ UNCHANGED remote

\* The viewer offers a file: it is created, or made empty.
FileTransferOffer ==
  LET p == Head(toServer).p IN
  /\ Receive("offer")
  /\ \E ok \in Outcome("srvOpen") :
       IF ok /\ CanCreate(remote, p)
       THEN /\ remote' = Put(remote, p, <<>>)
            /\ fd' = [mode |-> "w", path |-> p, pos |-> 0]
            /\ sending' = FALSE
            /\ Reply(<<Msg("accept", p, TRUE)>>)
       ELSE /\ fd' = Closed
            /\ Reply(<<Msg("accept", p, FALSE)>>)
            /\ UNCHANGED <<remote, sending>>

\* Faulty variant: a failed write is only logged.
FaultyPacket ==
  /\ Receive("packet")
  /\ IF fd.mode # "w" THEN UNCHANGED remote
     ELSE \E ok \in Outcome("srvWrite") :
       remote' = IF ok THEN [remote EXCEPT ![fd.path] = Append(@, Head(toServer).b)] ELSE remote
  /\ UNCHANGED <<fd, sending, toViewer>>

\* A block for the open file.  A failed write closes it; nobody is told.
FilePacket ==
  /\ Receive("packet")
  /\ IF fd.mode = "none" THEN UNCHANGED <<fd, sending, remote>>
     ELSE \E ok \in Outcome("srvWrite") :
       IF ok /\ fd.mode = "w"
       THEN /\ remote' = [remote EXCEPT ![fd.path] = Append(@, Head(toServer).b)]
            /\ UNCHANGED <<fd, sending>>
       ELSE fd' = Closed /\ sending' = FALSE /\ UNCHANGED remote
  /\ UNCHANGED toViewer

EndOfFile == /\ Receive("eof")
             /\ fd' = Closed /\ sending' = FALSE
             /\ UNCHANGED <<remote, toViewer>>

\* rfbAbortFileTransfer ends a transfer when there is one, without an answer.
\* When there is none it asks for permission: old clients are refused.
AbortFileTransfer ==
  /\ Receive("abort")
  /\ IF fd.mode # "none"
     THEN fd' = Closed /\ sending' = FALSE /\ Reply(<<>>)
     ELSE /\ Reply(<<IF Head(toServer).ok THEN Msg("access", <<>>, ~viewOnly)
                     ELSE Msg("abort", <<>>, FALSE)>>)
          /\ UNCHANGED <<fd, sending>>
  /\ UNCHANGED remote

\* rfbCommand: create a directory, delete a file or an empty directory.  A
\* file the server has open is not deleted.
CommandDirCreate ==
  LET p == Head(toServer).p
      ok == p \notin DOMAIN remote /\ IsFolder(remote, Front(p)) IN
  /\ Receive("mkdir")
  /\ remote' = IF ok THEN Put(remote, p, Folder) ELSE remote
  /\ Reply(<<Msg("mkdirDone", p, ok)>>)
  /\ UNCHANGED <<fd, sending>>

CommandFileDelete ==
  LET p == Head(toServer).p IN
  /\ Receive("delete")
  /\ \E done \in Outcome("srvDelete") :
       LET ok == done /\ CanRemove(remote, p) /\ fd.path # p IN
       /\ remote' = IF ok THEN Erase(remote, p) ELSE remote
       /\ Reply(<<Msg("deleteDone", p, ok)>>)
  /\ UNCHANGED <<fd, sending>>

ServerInit == /\ viewOnly \in (IF "viewOnly" \in Events THEN BOOLEAN ELSE {FALSE})
              /\ fd = Closed /\ sending = FALSE
              /\ remote = RemoteInit
              /\ toServer = <<>> /\ toViewer = <<>>

ServerNext == \/ DrivesList \/ DirContent \/ FileTransferRequest \/ FileHeader
              \/ FileTransferOffer \/ FilePacket \/ EndOfFile \/ AbortFileTransfer
              \/ CommandDirCreate \/ CommandFileDelete \/ SendFileTransferChunk
=============================================================================

----------------------------- MODULE ScreenUpdate -----------------------------
(***************************************************************************)
(* How the desktop gets to the clients of the server: rfbsUpdateScreen and *)
(* rfbsSetMouse of VNCServer/rfbsrv.c, which the messages of the hook DLL  *)
(* call, and LibVNCServer's regions, cursor and rfbSendFramebufferUpdate.  *)
(*                                                                         *)
(* Everything runs in the server's main thread, one message of the hook or *)
(* of a client, or one visit of rfbUpdateClient, at a time.  A region is   *)
(* the set of its pixels <<x, y>>.  What is sent arrives in order, so an   *)
(* update counts as shown when it is sent; a client whose socket fails is  *)
(* gone (Leave).                                                           *)
(***************************************************************************)
EXTENDS Integers, FiniteSets

CONSTANTS Viewers,
          W, H,       \* the desktop
          Images,     \* mouse pointers
          Box,        \* their sizes and hot spots
          Positions,  \* where the pointer may be
          Damaged,    \* rectangles the hook reports, y upwards as in PM
          Asked,      \* regions a client may ask for
          Slices,     \* progressiveSliceHeight: values a user may configure
          Defers,     \* whether deferUpdateTime is not 0: the same
          TurnOff     \* whether a client may give up cursor shape updates

Pixels == (0..W-1) \X (0..H-1)
Rectangles == {r \in [xl : 0..W, xr : 0..W, yb : 0..H, yt : 0..H] :
                 r.xl < r.xr /\ r.yb < r.yt}

ASSUME ScreenAssumption ==
  /\ W \in Nat \ {0} /\ H \in Nat \ {0}
  /\ Box \in [Images -> [w : Nat, h : Nat, x : Int, y : Int]]
  /\ Positions \subseteq Int \X Int
  /\ Damaged \subseteq Rectangles
  /\ Asked \subseteq SUBSET Pixels
  /\ Slices \subseteq Nat
  /\ Defers \subseteq BOOLEAN
  /\ TurnOff \in BOOLEAN

VARIABLES image,  \* screen->cursor, the object stCursor
          pos,    \* screen->cursorX, cursorY
          slice,  \* screen->progressiveSliceHeight
          defer,  \* screen->deferUpdateTime # 0
          cl      \* the clients' records

viewVars == <<image, pos, slice, defer, cl>>
screen == <<image, pos, slice, defer>>

(***************************************************************************)
(* A client's record.  The last four fields are history, for the           *)
(* properties: what has changed since it was last sent to the client.      *)
(***************************************************************************)
Client == [open      : BOOLEAN,          \* in the list
           modified  : SUBSET Pixels,    \* modifiedRegion
           requested : SUBSET Pixels,    \* requestedRegion
           shape     : BOOLEAN,          \* enableCursorShapeUpdates
           follow    : BOOLEAN,          \* enableCursorPosUpdates
           ext       : BOOLEAN,          \* useExtDesktopSize
           changed   : BOOLEAN,          \* cursorWasChanged
           moved     : BOOLEAN,          \* cursorWasMoved
           size      : BOOLEAN,          \* newFBSizePending
           cur       : Positions,        \* cursorX, cursorY
           y         : 0..H-1,           \* progressiveSliceY
           deferring : BOOLEAN,          \* startDeferring
           lag       : SUBSET Pixels,    \* frame buffer copied anew there
           scars     : SUBSET Pixels,    \* the pointer drawn there is another
           oldShape  : BOOLEAN,          \* another image of the pointer
           oldPos    : BOOLEAN]          \* another place of the pointer

-----------------------------------------------------------------------------
(* Rectangles on the screen.                                               *)

Between(x1, y1, x2, y2) == {p \in Pixels : x1 <= p[1] /\ p[1] < x2 /\ y1 <= p[2] /\ p[2] < y2}
AtLeast(a, b) == IF a < b THEN b ELSE a
AtMost(a, b)  == IF a > b THEN b ELSE a

\* The corners of a pointer's image at a place.
CursorLeft(p, i)   == p[1] - Box[i].x
CursorTop(p, i)    == p[2] - Box[i].y
CursorRight(p, i)  == CursorLeft(p, i) + Box[i].w
CursorBottom(p, i) == CursorTop(p, i) + Box[i].h

\* rfbRedrawAfterHideCursor: sraClipRect2 leaves at least a border of a
\* rectangle that is out of the screen.
CursorRect(p, i) == Between(AtMost(AtLeast(CursorLeft(p, i), 0), W - 1),
                            AtMost(AtLeast(CursorTop(p, i), 0), H - 1),
                            AtMost(AtLeast(CursorRight(p, i), 1), W),
                            AtMost(AtLeast(CursorBottom(p, i), 1), H))

\* rfbShowCursor never draws in the last column and the last row.
Drawn(p, i) == Between(CursorLeft(p, i), CursorTop(p, i),
                       AtMost(CursorRight(p, i), W - 1),
                       AtMost(CursorBottom(p, i), H - 1))

\* sraRgnBBox.
BBox(S) == {p \in Pixels : /\ \E q \in S : q[1] <= p[1]
                           /\ \E q \in S : p[1] <= q[1]
                           /\ \E q \in S : q[2] <= p[2]
                           /\ \E q \in S : p[2] <= q[2]}

-----------------------------------------------------------------------------
(* The clients come and go.                                                *)

NoClient == [open |-> FALSE, modified |-> {}, requested |-> {}, shape |-> FALSE,
             follow |-> FALSE, ext |-> FALSE, changed |-> FALSE, moved |-> FALSE,
             size |-> FALSE, cur |-> CHOOSE p \in Positions : TRUE, y |-> 0,
             deferring |-> FALSE,
             lag |-> {}, scars |-> {}, oldShape |-> FALSE, oldPos |-> FALSE]

\* rfbNewTCPOrUDPClient.  With the first client _cbClientNew starts the hooks
\* and copies the whole desktop: the new record asks for all of it anyway.
Connect(c) ==
  /\ ~cl[c].open
  /\ cl' = [cl EXCEPT ![c] = [NoClient EXCEPT !.open = TRUE, !.cur = pos,
                                !.modified = Pixels, !.lag = Pixels,
                                !.oldShape = TRUE, !.oldPos = TRUE]]
  /\ UNCHANGED screen

Leave(c) == /\ cl[c].open
            /\ cl' = [cl EXCEPT ![c] = NoClient]
            /\ UNCHANGED screen

-----------------------------------------------------------------------------
(* The hook's messages: HM_SCREEN and HM_MOUSE.                            *)

\* _getScreen copies the lines yBottom to yTop - 1, counted upwards.
Copied(r) == Between(r.xl, H - r.yt, r.xr, H - r.yb)

\* Faulty variant: the lower edge is turned round as the upper one is.
FaultyMarked(r) == Between(r.xl, H - r.yt, r.xr, H - r.yb - 1)

\* rfbsUpdateScreen marks a line more, and rfbMarkRectAsModified clips it.
Marked(r) == Between(r.xl, AtLeast(H - r.yt - 1, 0), r.xr, H - r.yb)

UpdateScreen ==
  \E r \in Damaged :
    /\ cl' = [c \in Viewers |->
                IF cl[c].open
                THEN [cl[c] EXCEPT !.modified = @ \union Marked(r),
                                   !.lag      = @ \union Copied(r)]
                ELSE cl[c]]
    /\ UNCHANGED screen

\* _cursorSet fills the cursor object in place, so that rfbSetCursor, which
\* marks the rectangles of the old and the new object, sees the new one twice.
NewCursor(k, i) ==
  [k EXCEPT !.changed  = TRUE,
            !.oldShape = TRUE,
            !.modified = IF k.shape THEN @ ELSE @ \union CursorRect(k.cur, i),
            !.scars    = IF k.shape THEN @
                         ELSE @ \union Drawn(k.cur, image) \union Drawn(k.cur, i)]

NewPosition(k) == [k EXCEPT !.moved = TRUE, !.oldPos = TRUE]

SetMouse ==
  \E i \in Images, p \in Positions :
    /\ <<i, p>> # <<image, pos>>
    /\ image' = i /\ pos' = p
    /\ cl' = [c \in Viewers |->
                IF ~cl[c].open THEN cl[c]
                ELSE LET k == IF i = image THEN cl[c] ELSE NewCursor(cl[c], i)
                     IN  IF p = pos THEN k ELSE NewPosition(k)]
    /\ UNCHANGED <<slice, defer>>

\* rfbsSetServer with another configuration.
SetServer == /\ \E s \in Slices, d \in Defers :
                  /\ <<s, d>> # <<slice, defer>>
                  /\ slice' = s /\ defer' = d
             /\ UNCHANGED <<image, pos, cl>>

-----------------------------------------------------------------------------
(* The clients' messages.                                                  *)

\* rfbFramebufferUpdateRequest.
Request(k, area, incremental) ==
  [k EXCEPT !.requested = @ \union area,
            !.modified  = IF incremental THEN @ ELSE @ \union area,
            !.size      = @ \/ (~incremental /\ k.ext)]

Ask(c, area, incremental) ==
  /\ cl[c].open
  /\ cl' = [cl EXCEPT ![c] = Request(@, area, incremental)]
  /\ UNCHANGED screen

\* Faulty variant: the image of the pointer is sent only to clients that had
\* none before.
FaultyEncodings(k, shape, follow, ext) ==
  [k EXCEPT !.shape    = shape,
            !.follow   = shape /\ follow,
            !.ext      = ext,
            !.changed  = shape /\ ~k.shape,
            !.moved    = @ \/ follow,
            !.modified = IF shape THEN @ \union CursorRect(k.cur, image) ELSE @,
            !.scars    = IF shape = k.shape THEN @ ELSE @ \union Drawn(k.cur, image)]

\* rfbSetEncodings resets the flags, and sets those of the list; a pointer that
\* was drawn is removed, but none is put up.  The position is sent only to
\* clients that draw the pointer.
Encodings(k, shape, follow, ext) ==
  [k EXCEPT !.shape    = shape,
            !.follow   = shape /\ follow,
            !.ext      = ext,
            !.changed  = shape,
            !.moved    = @ \/ follow,
            !.modified = IF shape THEN @ \union CursorRect(k.cur, image) ELSE @,
            !.scars    = IF shape = k.shape THEN @ ELSE @ \union Drawn(k.cur, image)]

SetEncodings(c) ==
  /\ cl[c].open
  /\ \E shape, follow, ext \in BOOLEAN :
       /\ cl[c].shape /\ ~TurnOff => shape
       /\ cl' = [cl EXCEPT ![c] = Encodings(@, shape, follow, ext)]
  /\ UNCHANGED screen

\* rfbSetDesktopSize is refused by LibVNCServer's own hook.
SetDesktopSize(c) == /\ cl[c].open
                     /\ cl' = [cl EXCEPT ![c].size = TRUE]
                     /\ UNCHANGED screen

-----------------------------------------------------------------------------
(* rfbUpdateClient and rfbSendFramebufferUpdate.                           *)

CursorAway(k) == ~k.shape /\ k.cur # pos

\* FB_UPDATE_PENDING.
Pending(k) == \/ k.shape /\ k.changed
              \/ CursorAway(k)
              \/ k.ext /\ k.size
              \/ k.follow /\ k.moved
              \/ k.modified # {}

\* The slice begins where the last one ended, if something is modified there,
\* or else at the top of what is modified.
TopOf(S) == CHOOSE y \in 0..H-1 : (\E p \in S : p[2] = y) /\ (\A p \in S : y <= p[2])

\* Faulty variant: each slice begins at the top.
FaultySliceStart(k) == IF k.modified = {} THEN k.y ELSE TopOf(k.modified)

SliceStart(k) ==
  IF k.modified = {} \/ (\E p, q \in k.modified : p[2] <= k.y /\ k.y <= q[2])
  THEN k.y ELSE TopOf(k.modified)

\* Faulty variant: the next slice may begin below the screen.
FaultyNextSlice(k) == IF slice = 0 THEN k.y ELSE SliceStart(k) + slice

NextSlice(k) == IF slice = 0 THEN k.y
                ELSE IF SliceStart(k) + slice >= H THEN 0 ELSE SliceStart(k) + slice

InSlice(k) == IF slice = 0 THEN k.modified
              ELSE {p \in k.modified : SliceStart(k) <= p[2] /\ p[2] < SliceStart(k) + slice}

\* The size alone is sent; the request and the regions stay as they are.
SendSize(k) == [k EXCEPT !.size = FALSE]

\* Nothing in the slice is asked for: the request stays.
NothingToSend(k) == /\ InSlice(k) \intersect k.requested = {}
                    /\ ~CursorAway(k)
                    /\ ~(k.shape /\ k.changed)
                    /\ ~(k.follow /\ k.moved)

\* Faulty variant: only the new place is sent.
FaultyCursorTrack(k) == IF CursorAway(k) THEN CursorRect(pos, image) ELSE {}

\* Pixels of a client that does not draw the pointer itself come with the
\* pointer drawn in; if it has moved, both places are sent.
CursorTrack(k) == IF CursorAway(k)
                  THEN CursorRect(k.cur, image) \union CursorRect(pos, image) ELSE {}
CursorMoves(k) == IF CursorAway(k) THEN Drawn(k.cur, image) \union Drawn(pos, image) ELSE {}

UpdateRegion(k) == (InSlice(k) \intersect k.requested) \union CursorTrack(k)

SendRegion(k, sent) ==
  [k EXCEPT !.modified  = @ \ (InSlice(k) \intersect k.requested),
            !.requested = {},
            !.y         = NextSlice(k),
            !.cur       = IF k.shape THEN @ ELSE pos,
            !.changed   = @ /\ ~k.shape,
            !.moved     = @ /\ ~k.follow,
            !.lag       = @ \ sent,
            !.scars     = (@ \union CursorMoves(k)) \ sent,
            !.oldShape  = @ /\ ~(k.shape /\ k.changed),
            !.oldPos    = @ /\ ~(k.follow /\ k.moved)]

\* More rectangles than maxRectsPerUpdate are sent as their bounding box.
Answers(k) == IF k.ext /\ k.size THEN {SendSize(k)}
              ELSE IF NothingToSend(k) THEN {[k EXCEPT !.y = NextSlice(k)]}
              ELSE {SendRegion(k, UpdateRegion(k)), SendRegion(k, BBox(UpdateRegion(k)))}

Due(c) == cl[c].open /\ Pending(cl[c]) /\ cl[c].requested # {}

\* The first visit starts the clock, one after the time has passed sends.
StartDeferring(c) == /\ Due(c) /\ defer /\ ~cl[c].deferring
                     /\ cl' = [cl EXCEPT ![c].deferring = TRUE]
                     /\ UNCHANGED screen

SendFramebufferUpdate(c) ==
  /\ Due(c) /\ (defer => cl[c].deferring)
  /\ \E k \in Answers(cl[c]) :
       cl' = [cl EXCEPT ![c] = [k EXCEPT !.deferring = @ /\ ~defer]]
  /\ UNCHANGED screen

UpdateClient(c) == StartDeferring(c) \/ SendFramebufferUpdate(c)

-----------------------------------------------------------------------------
ScreenInit == /\ image \in Images /\ pos \in Positions
              /\ slice \in Slices /\ defer \in Defers
              /\ cl = [c \in Viewers |-> NoClient]

AskMore(c) == cl[c].requested # Pixels /\ Ask(c, Pixels, TRUE)
AskPart(c) == \E area \in Asked, incremental \in BOOLEAN :
                /\ ~(incremental /\ area = Pixels)
                /\ Ask(c, area, incremental)

ScreenNext ==
  \/ UpdateScreen \/ SetMouse \/ SetServer
  \/ \E c \in Viewers : \/ Connect(c) \/ Leave(c)
                        \/ AskMore(c) \/ AskPart(c) \/ SetDesktopSize(c)
                        \/ SetEncodings(c) \/ UpdateClient(c)

\* The main thread visits every client in each round; a client asks for more
\* when it has got what it asked for.
ScreenFairness == \A c \in Viewers : WF_viewVars(UpdateClient(c)) /\ WF_viewVars(AskMore(c))

ScreenSpec == ScreenInit /\ [][ScreenNext]_viewVars /\ ScreenFairness

-----------------------------------------------------------------------------
(* Properties.                                                             *)

\* Every field has its type; regions are within the screen.
ScreenTypeOK == /\ image \in Images /\ pos \in Positions
                /\ slice \in Slices /\ defer \in Defers
                /\ cl \in [Viewers -> Client]

\* Wherever the frame buffer was copied anew since a client was sent that
\* pixel, the client's modifiedRegion has the pixel: no change of the screen
\* is lost between the hook's message and an update, whatever the client
\* asked for and however the update was sliced.
PixelsCovered == \A c \in Viewers : cl[c].lag \subseteq cl[c].modified

\* The same for the pointer that the server draws for clients without cursor
\* shape updates: rfbRedrawAfterHideCursor makes sure "that if the frameBuffer
\* was transmitted with a cursor drawn, then that region gets redrawn", and
\* for them the cursor is "put up".  It holds when the pointers have the same
\* size and hot spot and no client goes back to a pointer the server draws.
CursorCovered == \A c \in Viewers :
  cl[c].scars \subseteq cl[c].modified \union CursorTrack(cl[c])

\* A client that draws the pointer itself has the current image and, if it
\* follows the pointer, the current place, or is going to be sent them.
CursorKnown == \A c \in Viewers :
  /\ cl[c].shape /\ cl[c].oldShape => cl[c].changed
  /\ cl[c].follow /\ cl[c].oldPos => cl[c].moved

\* A changed pixel is sent to a client that goes on asking for the changes of
\* the whole screen, whatever else changes meanwhile and however the screen is
\* sliced.  A client is excepted that again and again asks for a part of the
\* screen, whose turn it may never be, or for the size, which may then be all
\* it is told.
Distracted(k) == k.requested \notin {{}, Pixels} \/ (k.ext /\ k.size)
PixelsArrive == \A c \in Viewers, p \in Pixels :
  (p \in cl[c].lag ~> p \notin cl[c].lag) \/ []<>Distracted(cl[c])
=============================================================================

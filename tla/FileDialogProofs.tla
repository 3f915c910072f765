--------------------------- MODULE FileDialogProofs ---------------------------
(***************************************************************************)
(* Proofs about the file transfer dialog, its engine and the server, for   *)
(* any files on both sides, any room in the socket, every failure and      *)
(* every command of the user: the variables keep their types, and what the *)
(* server writes is the file the viewer reads (SentWhole).  For a user who *)
(* lets an operation end, and a viewer that can write its files, the       *)
(* dialog, the engine and the server are at the same file                  *)
(* (TransferInStep).                                                       *)
(*                                                                         *)
(* Messages name no file.  The inductive invariant (Line) puts a mark      *)
(* between any two messages on their way to the server: which file the     *)
(* server has open there if it is writing, and how much of it it has.  The *)
(* mark before the first message is true of the server, the mark behind    *)
(* the last is true of the sender, and each message leads from one mark to *)
(* the next.                                                               *)
(*                                                                         *)
(* Answers name no request.  The second invariant (InStep) says that at    *)
(* most one thing is under way, and lists what it can be (Phase): each     *)
(* phase says what there is of it in the dialog, in the record, in the two *)
(* queues and in the server, so that what arrives can only be the answer   *)
(* to what has been asked.                                                 *)
(***************************************************************************)
EXTENDS FileDialog, SequenceLemmas, FunctionTheorems

-----------------------------------------------------------------------------
(* Types. *)

IsItem(i)   == i = Item(i.p, i.d) /\ i.d \in BOOLEAN
ItemList(s) == IsSeq(s) /\ \A k \in 1 .. Len(s) : IsItem(s[k])

IsJob(j) ==
  /\ j = [op |-> j.op, scan |-> j.scan, del |-> j.del, flags |-> j.flags, cancel |-> j.cancel,
          enabled |-> j.enabled, asked |-> j.asked, boxes |-> j.boxes]
  /\ j.op \in Ops \union {"NONE"}
  /\ ItemList(j.scan) /\ ItemList(j.del)
  /\ {j.cancel, j.enabled, j.asked} \subseteq BOOLEAN

IsRec(r) ==
  /\ r = [used |-> r.used, recv |-> r.recv, path |-> r.path, h |-> r.h,
          pos |-> r.pos, fSendReady |-> r.fSendReady, fSendAbort |-> r.fSendAbort]
  /\ {r.used, r.recv, r.fSendReady, r.fSendAbort} \subseteq BOOLEAN
  /\ r.h \in Handles /\ r.pos \in Nat

IsFd(f) == /\ f = [mode |-> f.mode, path |-> f.path, pos |-> f.pos]
           /\ f.mode \in {"none", "r", "w"}

IsNote(n) == /\ n = Note(n.c, n.i)
             /\ n.c \in Notes \union {"none"}
             /\ n.i = Item(n.i.p, n.i.d) /\ n.i.d \in BOOLEAN

\* A list of files that may be asked for its items.
Listable(fs) == fs = [p \in DOMAIN fs |-> fs[p]] /\ IsFiniteSet(DOMAIN fs)

\* The files fs may have become when some were deleted.
Parts(fs) == {[q \in D |-> fs[q]] : D \in SUBSET DOMAIN fs}

-----------------------------------------------------------------------------
(* Lists of files. *)

LEMMA PutListable ==
  ASSUME NEW fs, NEW p, NEW c, Listable(fs)
  PROVE  Listable(Put(fs, p, c)) /\ DOMAIN Put(fs, p, c) = DOMAIN fs \union {p}
<1>1. IsFiniteSet(DOMAIN fs \union {p})
  BY FS_AddElement DEF Listable
<1>. QED BY <1>1 DEF Listable, Put

LEMMA PutAt ==
  ASSUME NEW fs, NEW p, NEW c, NEW q \in DOMAIN fs \union {p}
  PROVE  Put(fs, p, c)[q] = IF q = p THEN c ELSE fs[q]
  BY DEF Put

LEMMA EraseListable ==
  ASSUME NEW fs, NEW p, Listable(fs)
  PROVE  /\ Listable(Erase(fs, p)) /\ DOMAIN Erase(fs, p) = DOMAIN fs \ {p}
         /\ \A q \in DOMAIN fs : q # p => Erase(fs, p)[q] = fs[q]
<1>1. IsFiniteSet(DOMAIN fs \ {p})
  BY FS_RemoveElement DEF Listable
<1>. QED BY <1>1 DEF Listable, Erase

LEMMA ListingFinite ==
  ASSUME NEW fs, NEW p, Listable(fs)
  PROVE  /\ IsFiniteSet(Listing(fs, p))
         /\ \A i \in Listing(fs, p) : IsItem(i)
<1>. DEFINE C == Children(fs, p)
            f == [q \in C |-> Item(q, IsFolder(fs, q))]
<1>1. IsFiniteSet(C)
  <2>1. C \in SUBSET DOMAIN fs
    BY DEF Children
  <2>. QED BY <2>1, FS_Subset DEF Listable
<1>2. f \in Surjection(C, Listing(fs, p))
  <2>1. f \in [C -> Listing(fs, p)]
    BY DEF Listing
  <2>2. \A t \in Listing(fs, p) : \E s \in C : f[s] = t
    BY DEF Listing
  <2>. HIDE DEF f
  <2>. QED BY <2>1, <2>2, Fun_IsSurj
<1>3. IsFiniteSet(Listing(fs, p))
  <2>. HIDE DEF f, C
  <2>. QED BY <1>1, <1>2, FS_Surjection
<1>4. ASSUME NEW i \in Listing(fs, p) PROVE IsItem(i)
  <2>1. PICK q \in C : i = Item(q, IsFolder(fs, q))
    BY DEF Listing
  <2>2. IsFolder(fs, q) \in BOOLEAN
    BY DEF IsFolder
  <2>. QED BY <2>1, <2>2 DEF Item, IsItem
<1>. QED BY <1>3, <1>4

\* The items of a finite set, in some order.
LEMMA SetToSeqListed ==
  ASSUME NEW S, IsFiniteSet(S)
  PROVE  SetToSeq(S) \in Seq(S)
<1>1. Cardinality(S) \in Nat /\ ExistsBijection(1 .. Cardinality(S), S)
  BY FS_CardinalityType
<1>2. PICK f : f \in Bijection(1 .. Cardinality(S), S)
  BY <1>1 DEF ExistsBijection
<1>3. f \in [1 .. Cardinality(S) -> S] /\ \A a, b \in 1 .. Cardinality(S) : f[a] = f[b] => a = b
  BY <1>2, Fun_BijectionProperties
<1>4. IsInjective(f)
  BY <1>3 DEF IsInjective
<1>5. SetToSeq(S) \in [1 .. Cardinality(S) -> S]
  BY <1>3, <1>4 DEF SetToSeq
<1>. QED BY <1>1, <1>5

-----------------------------------------------------------------------------
(* The folds. *)

FoldDeletes(fs, s) ==
  CHOOSE it : it = [A \in SUBSET DOMAIN s |-> IF A = {} THEN fs
                                              ELSE DeleteLocal(it[A \ {Max(A)}], s[Max(A)])]

LEMMA FoldDeletesIs ==
  ASSUME NEW fs, NEW s
  PROVE  FoldLeft(DeleteLocal, fs, s) = FoldDeletes(fs, s)[DOMAIN s]
  BY DEF FoldLeft, MapThenFoldSet, FoldDeletes

LEMMA DeletePart ==
  ASSUME NEW fs, NEW g \in Parts(fs), NEW i
  PROVE  DeleteLocal(g, i) \in Parts(fs)
<1>1. PICK D \in SUBSET DOMAIN fs : g = [q \in D |-> fs[q]]
  BY DEF Parts
<1>2. Erase(g, i.p) = [q \in D \ {i.p} |-> fs[q]]
  BY <1>1 DEF Erase
<1>3. Erase(g, i.p) \in Parts(fs)
  BY <1>2, <1>1 DEF Parts
<1>. QED BY <1>3 DEF DeleteLocal

LEMMA FoldDeletesPart ==
  ASSUME NEW fs, Listable(fs), NEW s, IsSeq(s)
  PROVE  FoldLeft(DeleteLocal, fs, s) \in Parts(fs)
<1>. DEFINE D == DOMAIN s
            S == Parts(fs)
            pick == [A \in SUBSET D |-> Max(A)]
            step == [i \in D |-> [g \in S |-> DeleteLocal(g, s[i])]]
            Rule(it) == it = [A \in SUBSET D |-> IF A = {} THEN fs
                                                 ELSE DeleteLocal(it[A \ {Max(A)}], s[Max(A)])]
<1>1. IsFiniteSet(D) /\ Picks(pick, D)
  <2>1. Len(s) \in Nat /\ D = 1 .. Len(s)
    BY SeqKnown
  <2>2. IsFiniteSet(1 .. Len(s)) /\ \A A \in SUBSET (1 .. Len(s)) : A # {} => Max(A) \in A
    BY <2>1, MaxPicks
  <2>. QED BY <2>1, <2>2 DEF Picks
<1>2. fs \in S
  <2>1. DOMAIN fs \in SUBSET DOMAIN fs
    OBVIOUS
  <2>. QED BY <2>1 DEF Parts, Listable
<1>3. step \in [D -> [S -> S]]
  BY DeletePart
<1>4. PICK it \in [SUBSET D -> S] : FoldRule(it, D, fs, step, pick)
  <2>. HIDE DEF D, S, pick, step
  <2>. QED BY <1>1, <1>2, <1>3, FoldExists
<1>5. Rule(it)
  <2>1. ASSUME NEW A \in SUBSET D, A # {}
        PROVE  step[pick[A]][it[A \ {pick[A]}]] = DeleteLocal(it[A \ {Max(A)}], s[Max(A)])
    <3>1. Max(A) \in D /\ A \ {Max(A)} \in SUBSET D /\ pick[A] = Max(A)
      BY <1>1, <2>1 DEF Picks
    <3>2. it[A \ {Max(A)}] \in S
      BY <3>1
    <3>. QED BY <3>1, <3>2
  <2>2. \A A \in SUBSET D : it[A] = IF A = {} THEN fs ELSE step[pick[A]][it[A \ {pick[A]}]]
    BY <1>4 DEF FoldRule
  <2>3. \A A \in SUBSET D : it[A] = IF A = {} THEN fs
                                    ELSE DeleteLocal(it[A \ {Max(A)}], s[Max(A)])
    BY <2>1, <2>2
  <2>4. it = [A \in SUBSET D |-> it[A]]
    OBVIOUS
  <2>. QED BY <2>3, <2>4, Zenon
<1>6. Rule(FoldDeletes(fs, s))
  BY <1>5, Zenon DEF FoldDeletes
<1>. DEFINE f == FoldDeletes(fs, s)
<1>7. f[{}] \in S
  BY <1>6, <1>2
<1>8. \A A \in SUBSET D : A # {} /\ f[A \ {pick[A]}] \in S => f[A] \in S
  <2>1. ASSUME NEW A \in SUBSET D, A # {}, f[A \ {pick[A]}] \in S PROVE f[A] \in S
    <3>1. pick[A] = Max(A)
      OBVIOUS
    <3>2. f[A] = DeleteLocal(f[A \ {Max(A)}], s[Max(A)])
      BY <1>6, <2>1, Zenon
    <3>3. f[A \ {Max(A)}] \in S
      BY <3>1, <2>1
    <3>. HIDE DEF f
    <3>. QED BY <3>2, <3>3, DeletePart
  <2>. QED BY <2>1
<1>9. f[D] \in S
  <2>. HIDE DEF D, S, pick, f
  <2>. QED BY <1>1, <1>7, <1>8, FoldTyped
<1>. QED BY <1>9, FoldDeletesIs, Zenon

FoldAdds(scan, s) ==
  CHOOSE it : it = [A \in SUBSET DOMAIN s |-> IF A = {} THEN scan
                                              ELSE ScanFilesAdd(it[A \ {Max(A)}], s[Max(A)])]

LEMMA FoldAddsIs ==
  ASSUME NEW scan, NEW s
  PROVE  FoldLeft(ScanFilesAdd, scan, s) = FoldAdds(scan, s)[DOMAIN s]
  BY DEF FoldLeft, MapThenFoldSet, FoldAdds

LEMMA AddListed ==
  ASSUME NEW T, NEW scan \in Seq(T), NEW i \in T
  PROVE  ScanFilesAdd(scan, i) \in Seq(T)
<1>1. CASE ~i.d
  BY <1>1 DEF ScanFilesAdd
<1>2. CASE i.d /\ scan # <<>> /\ Head(scan).d
  <2>1. SubSeq(scan, 1, 2 - 1) \in Seq(T) /\ <<i>> \in Seq(T) /\ SubSeq(scan, 2, Len(scan)) \in Seq(T)
    BY <1>2
  <2>2. InsertAt(scan, 2, i) \in Seq(T)
    BY <2>1 DEF InsertAt
  <2>. QED BY <1>2, <2>2 DEF ScanFilesAdd
<1>3. CASE i.d /\ ~ (scan # <<>> /\ Head(scan).d)
  <2>1. <<i>> \o scan \in Seq(T)
    OBVIOUS
  <2>. QED BY <1>3, <2>1 DEF ScanFilesAdd
<1>. QED BY <1>1, <1>2, <1>3

\* The items that are added come from T, and so do those of the list.
LEMMA FoldAddsListed ==
  ASSUME NEW T, NEW scan \in Seq(T), NEW s \in Seq(T)
  PROVE  FoldLeft(ScanFilesAdd, scan, s) \in Seq(T)
<1>. DEFINE D == DOMAIN s
            S == Seq(T)
            pick == [A \in SUBSET D |-> Max(A)]
            step == [i \in D |-> [g \in S |-> ScanFilesAdd(g, s[i])]]
            Rule(it) == it = [A \in SUBSET D |-> IF A = {} THEN scan
                                                 ELSE ScanFilesAdd(it[A \ {Max(A)}], s[Max(A)])]
<1>0. Len(s) \in Nat /\ D = 1 .. Len(s) /\ \A i \in D : s[i] \in T
  OBVIOUS
<1>1. IsFiniteSet(D) /\ Picks(pick, D)
  <2>2. IsFiniteSet(1 .. Len(s)) /\ \A A \in SUBSET (1 .. Len(s)) : A # {} => Max(A) \in A
    BY <1>0, MaxPicks
  <2>. QED BY <1>0, <2>2 DEF Picks
<1>2. scan \in S
  OBVIOUS
<1>3. step \in [D -> [S -> S]]
  <2>1. ASSUME NEW i \in D, NEW g \in S PROVE ScanFilesAdd(g, s[i]) \in S
    BY <1>0, AddListed
  <2>. QED BY <2>1
<1>4. PICK it \in [SUBSET D -> S] : FoldRule(it, D, scan, step, pick)
  <2>. HIDE DEF D, S, pick, step
  <2>. QED BY <1>1, <1>2, <1>3, FoldExists
<1>5. Rule(it)
  <2>1. ASSUME NEW A \in SUBSET D, A # {}
        PROVE  step[pick[A]][it[A \ {pick[A]}]] = ScanFilesAdd(it[A \ {Max(A)}], s[Max(A)])
    <3>1. Max(A) \in D /\ A \ {Max(A)} \in SUBSET D /\ pick[A] = Max(A)
      BY <1>1, <2>1 DEF Picks
    <3>2. it[A \ {Max(A)}] \in S
      BY <3>1
    <3>. QED BY <3>1, <3>2
  <2>2. \A A \in SUBSET D : it[A] = IF A = {} THEN scan ELSE step[pick[A]][it[A \ {pick[A]}]]
    BY <1>4 DEF FoldRule
  <2>3. \A A \in SUBSET D : it[A] = IF A = {} THEN scan
                                    ELSE ScanFilesAdd(it[A \ {Max(A)}], s[Max(A)])
    <3>. HIDE DEF step, pick
    <3>. QED BY <2>1, <2>2
  <2>4. it = [A \in SUBSET D |-> it[A]]
    OBVIOUS
  <2>. QED BY <2>3, <2>4, Zenon
<1>6. Rule(FoldAdds(scan, s))
  BY <1>5, Zenon DEF FoldAdds
<1>. DEFINE f == FoldAdds(scan, s)
<1>7. f[{}] \in S
  BY <1>6, <1>2
<1>8. \A A \in SUBSET D : A # {} /\ f[A \ {pick[A]}] \in S => f[A] \in S
  <2>1. ASSUME NEW A \in SUBSET D, A # {}, f[A \ {pick[A]}] \in S PROVE f[A] \in S
    <3>1. pick[A] = Max(A) /\ Max(A) \in D
      BY <1>1, <2>1 DEF Picks
    <3>2. f[A] = ScanFilesAdd(f[A \ {Max(A)}], s[Max(A)])
      BY <1>6, <2>1, Zenon
    <3>3. f[A \ {Max(A)}] \in S /\ s[Max(A)] \in T
      BY <3>1, <2>1, <1>0
    <3>. HIDE DEF f
    <3>4. ASSUME NEW g \in Seq(T), NEW i \in T PROVE ScanFilesAdd(g, i) \in Seq(T)
      BY AddListed
    <3>5. ScanFilesAdd(f[A \ {Max(A)}], s[Max(A)]) \in Seq(T)
      BY <3>3, <3>4
    <3>. QED BY <3>2, <3>5
  <2>. QED BY <2>1
<1>9. f[D] \in S
  <2>. HIDE DEF D, S, pick, f
  <2>. QED BY <1>1, <1>7, <1>8, FoldTyped
<1>. QED BY <1>9, FoldAddsIs, Zenon

\* A list stays one of items when items are added.
LEMMA ItemsKnown ==
  ASSUME NEW s, ItemList(s)
  PROVE  \E T : s \in Seq(T) /\ \A i \in T : IsItem(i)
<1>1. PICK S : s \in Seq(S)
  BY DEF ItemList, IsSeq
<1>. DEFINE T == {i \in S : IsItem(i)}
<1>2. \A k \in 1 .. Len(s) : s[k] \in T
  BY <1>1 DEF ItemList
<1>3. s \in Seq(T)
  BY <1>1, <1>2
<1>. QED BY <1>3

LEMMA ItemsListed ==
  ASSUME NEW T, NEW s \in Seq(T), \A i \in T : IsItem(i)
  PROVE  ItemList(s)
  BY DEF ItemList, IsSeq

LEMMA ItemsAdded ==
  ASSUME NEW scan, ItemList(scan), NEW S, IsFiniteSet(S), \A i \in S : IsItem(i)
  PROVE  ItemList(FoldLeft(ScanFilesAdd, scan, SetToSeq(S)))
<1>1. PICK T : scan \in Seq(T) /\ \A i \in T : IsItem(i)
  BY ItemsKnown
<1>. DEFINE U == T \union S
<1>2. scan \in Seq(U) /\ \A i \in U : IsItem(i)
  BY <1>1
<1>3. SetToSeq(S) \in Seq(S)
  BY SetToSeqListed
<1>4. SetToSeq(S) \in Seq(U)
  BY <1>3
<1>5. FoldLeft(ScanFilesAdd, scan, SetToSeq(S)) \in Seq(U)
  <2>. HIDE DEF U
  <2>. QED BY <1>2, <1>4, FoldAddsListed
<1>. QED BY <1>2, <1>5, ItemsListed

LEMMA OneItemAdded ==
  ASSUME NEW scan, ItemList(scan), NEW p, NEW d \in BOOLEAN
  PROVE  ItemList(ScanFilesAdd(scan, Item(p, d)))
<1>1. PICK T : scan \in Seq(T) /\ \A i \in T : IsItem(i)
  BY ItemsKnown
<1>. DEFINE U == T \union {Item(p, d)}
<1>2. scan \in Seq(U) /\ Item(p, d) \in U /\ \A i \in U : IsItem(i)
  BY <1>1 DEF Item, IsItem
<1>3. ScanFilesAdd(scan, Item(p, d)) \in Seq(U)
  <2>. HIDE DEF U
  <2>. QED BY <1>2, AddListed
<1>. QED BY <1>2, <1>3, ItemsListed

LEMMA ItemsTail ==
  ASSUME NEW s, ItemList(s), s # <<>>
  PROVE  ItemList(Tail(s)) /\ IsItem(Head(s)) /\ Head(s) = s[1]
<1>1. PICK T : s \in Seq(T) /\ \A i \in T : IsItem(i)
  BY ItemsKnown
<1>2. Tail(s) \in Seq(T) /\ Head(s) \in T /\ Head(s) = s[1]
  BY <1>1
<1>. QED BY <1>1, <1>2, ItemsListed

LEMMA ItemsFrom ==
  ASSUME NEW s, ItemList(s), NEW m \in Nat \ {0}
  PROVE  ItemList(SubSeq(s, m, Len(s)))
<1>1. PICK T : s \in Seq(T) /\ \A i \in T : IsItem(i)
  BY ItemsKnown
<1>2. SubSeq(s, m, Len(s)) \in Seq(T)
  BY <1>1
<1>. QED BY <1>1, <1>2, ItemsListed

LEMMA ItemsCons ==
  ASSUME NEW s, ItemList(s), NEW i, IsItem(i)
  PROVE  ItemList(<<i>> \o s)
<1>1. PICK T : s \in Seq(T) /\ \A k \in T : IsItem(k)
  BY ItemsKnown
<1>. DEFINE U == T \union {i}
<1>2. s \in Seq(U) /\ i \in U /\ \A k \in U : IsItem(k)
  BY <1>1
<1>3. <<i>> \o s \in Seq(U)
  BY <1>2
<1>. QED BY <1>2, <1>3, ItemsListed

LEMMA ItemsNone == ItemList(<<>>)
  BY SeqEmpty DEF ItemList

-----------------------------------------------------------------------------
(* What the next step of an operation does.                                *)

\* Messages that carry no file to the server.
Plain(ms) == IsSeq(ms) /\ \A k \in 1 .. Len(ms) : ms[k].t \notin {"offer", "packet", "eof"}

\* Of the transfer of a file that is here, a step leaves what there is, or
\* starts one.
SaysPlain == \E ms : Plain(ms) /\ toServer' = toServer \o ms
Offered(p) == [NoRec EXCEPT !.used = TRUE, !.path = p, !.h = "read"]
StartsSend == /\ ~rec.used
              /\ \E p : /\ IsFile(local', p) /\ rec' = Offered(p)
                        /\ toServer' = toServer \o <<Msg("offer", p, TRUE)>>
RecKept == /\ IsRec(rec')
           /\ rec'.used /\ rec'.h = "read" =>
                rec.used /\ rec.h = "read" /\ rec'.path = rec.path /\ rec'.pos = rec.pos
Transfers == \/ rec' = rec /\ SaysPlain
             \/ RecKept /\ SaysPlain
             \/ StartsSend

\* What holds after it, fs being the local files it was called with.
Stepped(fs) == IsJob(job') /\ local' \in Parts(fs) /\ Transfers /\ posted' \in BOOLEAN

LEMMA PlainNone == Plain(<<>>)
  BY SeqEmpty DEF Plain

LEMMA PlainOne ==
  ASSUME NEW t, t \notin {"offer", "packet", "eof"}, NEW p, NEW ok
  PROVE  Plain(<<Msg(t, p, ok)>>)
  BY SeqOne DEF Plain, Msg

LEMMA PlainList ==
  ASSUME NEW named, NEW p
  PROVE  Plain(<<ListRequest(named, p)>>)
<1>1. Plain(<<Msg("dir", p, TRUE)>>) /\ Plain(<<Msg("abort", <<>>, TRUE)>>)
  BY PlainOne
<1>. QED BY <1>1 DEF ListRequest

LEMMA PlainBoth ==
  ASSUME NEW a, NEW b, Plain(a), Plain(b)
  PROVE  Plain(a \o b)
<1>1. IsSeq(a) /\ IsSeq(b) /\ Len(a) \in Nat /\ Len(b) \in Nat
  BY SeqKnown DEF Plain
<1>2. /\ IsSeq(a \o b) /\ Len(a \o b) = Len(a) + Len(b)
      /\ \A k \in 1 .. Len(a) : (a \o b)[k] = a[k]
      /\ \A k \in 1 .. Len(b) : (a \o b)[Len(a) + k] = b[k]
  BY <1>1, SeqConcat
<1>3. ASSUME NEW k \in 1 .. Len(a \o b) PROVE (a \o b)[k].t \notin {"offer", "packet", "eof"}
  <2>1. CASE k <= Len(a)
    BY <2>1, <1>1, <1>2 DEF Plain
  <2>2. CASE k > Len(a)
    <3>1. k - Len(a) \in 1 .. Len(b) /\ Len(a) + (k - Len(a)) = k
      BY <2>2, <1>1, <1>2
    <3>2. (a \o b)[k] = b[k - Len(a)]
      BY <3>1, <1>2
    <3>. QED BY <3>1, <3>2 DEF Plain
  <2>. QED BY <2>1, <2>2, <1>1, <1>2
<1>. QED BY <1>2, <1>3 DEF Plain

LEMMA SaysNothing ==
  ASSUME IsSeq(toServer), UNCHANGED toServer
  PROVE  SaysPlain
<1>1. toServer \o <<>> = toServer
  BY DEF IsSeq
<1>. QED BY <1>1, PlainNone DEF SaysPlain

LEMMA SaysThat ==
  ASSUME NEW ms, Plain(ms), Send(ms)
  PROVE  SaysPlain
  BY DEF SaysPlain, Send

LEMMA PartItself ==
  ASSUME NEW fs, Listable(fs)
  PROVE  fs \in Parts(fs)
<1>1. DOMAIN fs \in SUBSET DOMAIN fs
  OBVIOUS
<1>. QED BY <1>1 DEF Parts, Listable

Carries(c, n, a, b) == c = [n EXCEPT !.asked = a, !.boxes = b]

LEMMA JobCarried ==
  ASSUME NEW n, IsJob(n), NEW a \in BOOLEAN, NEW b, NEW c, Carries(c, n, a, b)
  PROVE  IsJob(c) /\ c.asked = a /\ c.op = n.op /\ c.scan = n.scan /\ c.del = n.del
<1>1. DOMAIN n = {"op", "scan", "del", "flags", "cancel", "enabled", "asked", "boxes"}
  BY DEF IsJob
<1>2. DOMAIN c = DOMAIN n /\ c.asked = a /\ c.op = n.op /\ c.scan = n.scan /\ c.del = n.del
      /\ c.cancel = n.cancel /\ c.enabled = n.enabled
  BY <1>1 DEF Carries
<1>3. c = [op |-> c.op, scan |-> c.scan, del |-> c.del, flags |-> c.flags, cancel |-> c.cancel,
           enabled |-> c.enabled, asked |-> c.asked, boxes |-> c.boxes]
  BY <1>1, <1>2 DEF Carries
<1>. QED BY <1>2, <1>3 DEF IsJob

LEMMA CleanJobTyped ==
  ASSUME NEW j, IsJob(j)
  PROVE  /\ IsJob(CleanJob(j)) /\ CleanJob(j).asked = j.asked /\ CleanJob(j).op = "NONE"
         /\ CleanJob(j).scan = <<>> /\ CleanJob(j).del = <<>> /\ IsJob(NoJob)
<1>1. NoJob.asked = FALSE /\ NoJob.scan = <<>> /\ NoJob.del = <<>> /\ NoJob.op = "NONE"
  BY DEF NoJob
<1>2. IsJob(NoJob)
  BY ItemsNone DEF IsJob, NoJob
<1>3. j.asked \in BOOLEAN
  BY DEF IsJob
<1>. DEFINE c == CleanJob(j)
            n == NoJob
<1>4. Carries(c, n, j.asked, j.boxes)
  BY DEF CleanJob, Carries
<1>. HIDE DEF c, n
<1>5. IsJob(n)
  BY <1>2 DEF n
<1>6. IsJob(c) /\ c.asked = j.asked /\ c.op = n.op /\ c.scan = n.scan /\ c.del = n.del
  BY <1>3, <1>4, <1>5, JobCarried
<1>. QED BY <1>1, <1>2, <1>6 DEF c, n

LEMMA EndOfScanStep ==
  ASSUME NEW j, NEW fs, NEW sent, IsJob(j), Plain(sent), EndOfScan(j, fs, sent)
  PROVE  IsJob(job') /\ local' = fs /\ SaysPlain /\ posted' = posted
<1>. DEFINE refresh == j.op \in (Ops \ {"RLCOPY"}) /\ ~j.asked
            ms == IF refresh THEN <<ListRequest(panel.path, <<>>)>> ELSE <<>>
            c == CleanJob(j)
<1>1. job' = [c EXCEPT !.enabled = ~refresh, !.asked = @ \/ refresh]
  BY DEF EndOfScan
<1>2. IsJob(c)
  BY CleanJobTyped
<1>3. IsJob(job')
  <2>1. (~refresh) \in BOOLEAN /\ (c.asked \/ refresh) \in BOOLEAN
    OBVIOUS
  <2>. HIDE DEF refresh, c
  <2>. QED BY <1>1, <1>2, <2>1 DEF IsJob
<1>4. Plain(ms)
  BY PlainNone, PlainList
<1>5. Plain(sent \o ms)
  BY <1>4, PlainBoth
<1>6. Send(sent \o ms) /\ local' = fs /\ posted' = posted
  BY DEF EndOfScan
<1>7. SaysPlain
  BY <1>5, <1>6, SaysThat
<1>. QED BY <1>3, <1>6, <1>7

Ready(j, fs) == IsJob(j) /\ Listable(fs) /\ IsSeq(toServer) /\ posted \in BOOLEAN

LEMMA EndsStep ==
  ASSUME NEW j, NEW fs, NEW g \in Parts(fs), Ready(j, fs), Ends(j, g)
  PROVE  Stepped(fs)
<1>1. EndOfScan(j, g, <<>>) /\ rec' = rec
  BY DEF Ends
<1>2. IsJob(job') /\ local' = g /\ SaysPlain /\ posted' = posted
  BY <1>1, PlainNone, EndOfScanStep DEF Ready
<1>. QED BY <1>1, <1>2 DEF Stepped, Transfers, Ready

LEMMA WaitsStep ==
  ASSUME NEW j, NEW fs, NEW g \in Parts(fs), Ready(j, fs), Waits(j, g)
  PROVE  Stepped(fs)
<1>1. job' = j /\ local' = g /\ rec' = rec /\ posted' = posted /\ SaysPlain
  BY SaysNothing DEF Waits, Ready
<1>. QED BY <1>1 DEF Stepped, Transfers, Ready

LEMMA RequestsStep ==
  ASSUME NEW j, NEW fs, NEW m, Ready(j, fs), Plain(<<m>>), Requests(j, fs, m)
  PROVE  Stepped(fs)
<1>1. job' = j /\ local' = fs /\ rec' = rec /\ posted' = posted /\ SaysPlain
  BY SaysThat DEF Requests
<1>2. fs \in Parts(fs)
  BY PartItself DEF Ready
<1>. QED BY <1>1, <1>2 DEF Stepped, Transfers, Ready

LEMMA AsksStep ==
  ASSUME NEW j, NEW fs, NEW g \in Parts(fs), NEW b, Ready(j, fs), Asks(j, g, b)
  PROVE  Stepped(fs)
<1>. DEFINE k == [j EXCEPT !.boxes = @ \union {b}]
<1>1. Waits(k, g)
  BY DEF Asks
<1>2. Ready(k, fs)
  BY DEF Ready, IsJob
<1>. HIDE DEF k
<1>. QED BY <1>1, <1>2, WaitsStep

LEMMA StickyJob ==
  ASSUME NEW j, IsJob(j)
  PROVE  IsJob([j EXCEPT !.flags = Sticky(@)])
  BY DEF IsJob

LEMMA WithoutKeptJob ==
  ASSUME NEW j, IsJob(j), NEW there
  PROVE  IsJob(WithoutKept(j, there))
<1>. DEFINE stops == {k \in DOMAIN j.scan : j.scan[k] \notin there}
            first == IF stops = {} THEN Len(j.scan) + 1 ELSE Min(stops)
<1>1. Len(j.scan) \in Nat /\ DOMAIN j.scan = 1 .. Len(j.scan)
  BY SeqKnown DEF IsJob, ItemList
<1>2. first \in Nat \ {0}
  <2>1. CASE stops = {}
    BY <2>1, <1>1
  <2>2. CASE stops # {}
    <3>1. stops \subseteq Nat \ {0} /\ stops \subseteq Nat
      BY <1>1
    <3>2. \E m \in stops : \A n \in stops : m <= n
      <4>. HIDE DEF stops
      <4>. QED BY <3>1, <2>2, LeastNumber
    <3>3. Min(stops) \in stops
      <4>. HIDE DEF stops
      <4>. QED BY <3>2 DEF Min
    <3>. QED BY <3>1, <3>3, <2>2
  <2>. QED BY <2>1, <2>2
<1>3. ItemList(SubSeq(j.scan, first, Len(j.scan)))
  <2>1. ItemList(j.scan)
    BY DEF IsJob
  <2>. HIDE DEF first
  <2>. QED BY <1>2, <2>1, ItemsFrom
<1>4. WithoutKept(j, there) = IF "NOOVERWRITE" \in j.flags
                              THEN [j EXCEPT !.scan = SubSeq(@, first, Len(@))] ELSE j
  BY DEF WithoutKept
<1>. HIDE DEF first
<1>5. CASE "NOOVERWRITE" \in j.flags
  <2>1. WithoutKept(j, there) = [j EXCEPT !.scan = SubSeq(j.scan, first, Len(j.scan))]
    BY <1>4, <1>5
  <2>. QED BY <2>1, <1>3 DEF IsJob
<1>. QED BY <1>4, <1>5

-----------------------------------------------------------------------------
(* The next step of an operation, request by request. *)

LEMMA RecvStep ==
  ASSUME NEW j, NEW fs, NEW p, Ready(j, fs), FxRecvFile(p), Starts(j, fs)
  PROVE  Stepped(fs)
<1>1. job' = j /\ local' = fs /\ posted' = posted
  BY DEF Starts
<1>2. fs \in Parts(fs)
  BY PartItself DEF Ready
<1>3. RecKept
  <2>1. IsRec(rec') /\ rec'.h = "-1"
    BY DEF FxRecvFile, NoRec, IsRec, Handles
  <2>. QED BY <2>1 DEF RecKept
<1>4. SaysPlain
  BY PlainOne, SaysThat DEF FxRecvFile
<1>. QED BY <1>1, <1>2, <1>3, <1>4 DEF Stepped, Transfers, Ready

LEMMA SendStep ==
  ASSUME NEW j, NEW fs, NEW p, Ready(j, fs), ~FxBusy, IsFile(fs, p), FxSendFile(p), Starts(j, fs)
  PROVE  Stepped(fs)
<1>1. job' = j /\ local' = fs /\ posted' = posted
  BY DEF Starts
<1>2. fs \in Parts(fs)
  BY PartItself DEF Ready
<1>3. StartsSend
  BY <1>1 DEF StartsSend, FxSendFile, FxBusy, Offered, Send
<1>. QED BY <1>1, <1>2, <1>3 DEF Stepped, Transfers, Ready

LEMMA ScanSendRequestStep ==
  ASSUME NEW j0, NEW fs, Ready(j0, fs), ScanSendRequest(j0, fs)
  PROVE  Stepped(fs)
<1>. DEFINE j == IF j0.op \in ToLocal
                 THEN WithoutKept(j0, {i \in ToSet(j0.scan) : ~i.d /\ IsFile(fs, i.p)}) ELSE j0
            i == Head(j.scan)
            once == [j EXCEPT !.flags = Sticky(@)]
<1>1. Ready(j, fs)
  BY WithoutKeptJob DEF Ready
<1>2. Ready(once, fs)
  <2>. HIDE DEF j
  <2>. QED BY <1>1, StickyJob DEF Ready
<1>3. fs \in Parts(fs)
  BY PartItself DEF Ready
<1>4. \/ Ends(j, fs)
      \/ Requests(j, fs, Msg("delete", Head(j.del).p, TRUE))
      \/ Requests(j, fs, ListRequest(TRUE, i.p))
      \/ Requests(j, fs, Msg("delete", i.p, TRUE))
      \/ Asks(once, fs, "overwrite")
      \/ Ends(once, fs)
      \/ FxRecvFile(i.p) /\ Starts(once, fs)
  BY DEF ScanSendRequest
<1>. HIDE DEF j, i, once
<1>5. CASE Ends(j, fs) \/ Ends(once, fs)
  BY <1>5, <1>1, <1>2, <1>3, EndsStep
<1>6. CASE Requests(j, fs, Msg("delete", Head(j.del).p, TRUE))
  BY <1>6, <1>1, PlainOne, RequestsStep
<1>7. CASE Requests(j, fs, ListRequest(TRUE, i.p))
  BY <1>7, <1>1, PlainList, RequestsStep
<1>8. CASE Requests(j, fs, Msg("delete", i.p, TRUE))
  BY <1>8, <1>1, PlainOne, RequestsStep
<1>9. CASE Asks(once, fs, "overwrite")
  BY <1>9, <1>2, <1>3, AsksStep
<1>10. CASE FxRecvFile(i.p) /\ Starts(once, fs)
  BY <1>10, <1>2, RecvStep
<1>. QED BY <1>4, <1>5, <1>6, <1>7, <1>8, <1>9, <1>10

LEMMA DeleteSentStep ==
  ASSUME NEW j, NEW fs, Ready(j, fs), DeleteSent(j, fs)
  PROVE  Stepped(fs)
<1>0. IsSeq(j.del) /\ ItemList(j.del)
  BY DEF Ready, IsJob, ItemList
<1>1. CASE Ends(j, FoldLeft(DeleteLocal, fs, j.del))
  <2>1. FoldLeft(DeleteLocal, fs, j.del) \in Parts(fs)
    BY <1>0, FoldDeletesPart DEF Ready
  <2>. QED BY <1>1, <2>1, EndsStep
<1>2. ASSUME NEW k \in DOMAIN j.del,
             Asks([j EXCEPT !.del = SubSeq(@, k, Len(@))],
                  FoldLeft(DeleteLocal, fs, SubSeq(j.del, 1, k - 1)), "error")
      PROVE  Stepped(fs)
  <2>1. Len(j.del) \in Nat /\ DOMAIN j.del = 1 .. Len(j.del)
    BY <1>0, SeqKnown
  <2>2. k \in Nat \ {0} /\ k - 1 \in Nat /\ k - 1 <= Len(j.del)
    BY <2>1
  <2>3. IsSeq(SubSeq(j.del, 1, k - 1))
    BY <2>2, <1>0, SeqPart
  <2>4. FoldLeft(DeleteLocal, fs, SubSeq(j.del, 1, k - 1)) \in Parts(fs)
    BY <2>3, FoldDeletesPart DEF Ready
  <2>. DEFINE d == SubSeq(j.del, k, Len(j.del))
              l == [j EXCEPT !.del = d]
              g == FoldLeft(DeleteLocal, fs, SubSeq(j.del, 1, k - 1))
  <2>5. ItemList(d)
    BY <2>2, <1>0, ItemsFrom
  <2>6. Ready(l, fs)
    <3>. HIDE DEF d
    <3>. QED BY <2>5 DEF Ready, IsJob
  <2>7. Asks(l, g, "error")
    BY <1>2
  <2>. HIDE DEF l, g
  <2>. QED BY <2>4, <2>6, <2>7, AsksStep DEF g
<1>. QED BY <1>1, <1>2 DEF DeleteSent

LEMMA ReadLocalDirStep ==
  ASSUME NEW j, NEW fs, NEW i, Ready(j, fs), ReadLocalDir(j, fs, i)
  PROVE  Stepped(fs)
<1>1. fs \in Parts(fs)
  BY PartItself DEF Ready
<1>2. CASE Waits(j, fs)
  BY <1>1, <1>2, WaitsStep
<1>3. CASE /\ job' = [j EXCEPT !.scan = FoldLeft(ScanFilesAdd, @, SetToSeq(Listing(fs, i.p)))]
           /\ posted' = TRUE
           /\ local' = fs /\ UNCHANGED <<rec, toServer>>
  <2>. DEFINE scan == FoldLeft(ScanFilesAdd, j.scan, SetToSeq(Listing(fs, i.p)))
              l == [j EXCEPT !.scan = scan]
  <2>1. ItemList(scan)
    <3>1. IsFiniteSet(Listing(fs, i.p)) /\ \A k \in Listing(fs, i.p) : IsItem(k)
      BY ListingFinite DEF Ready
    <3>2. ItemList(j.scan)
      BY DEF Ready, IsJob
    <3>. QED BY <3>1, <3>2, ItemsAdded
  <2>2. job' = l
    BY <1>3
  <2>3. IsJob(l)
    <3>. HIDE DEF scan
    <3>. QED BY <2>1 DEF Ready, IsJob
  <2>4. SaysPlain
    BY <1>3, SaysNothing DEF Ready
  <2>5. IsJob(job')
    BY <2>2, <2>3
  <2>. HIDE DEF l
  <2>. QED BY <1>1, <1>3, <2>4, <2>5 DEF Stepped, Transfers
<1>. QED BY <1>2, <1>3 DEF ReadLocalDir

LEMMA SendLocalFileStep ==
  ASSUME NEW j, NEW fs, NEW i, Ready(j, fs), SendLocalFile(j, fs, i)
  PROVE  Stepped(fs)
<1>1. fs \in Parts(fs)
  BY PartItself DEF Ready
<1>2. \/ ~FxBusy /\ IsFile(fs, i.p) /\ FxSendFile(i.p) /\ Starts(j, fs)
      \/ Asks(j, fs, "error")
  BY DEF SendLocalFile
<1>. QED BY <1>1, <1>2, SendStep, AsksStep

LEMMA ScanLocalRequestStep ==
  ASSUME NEW j0, NEW fs, Ready(j0, fs), ScanLocalRequest(j0, fs)
  PROVE  Stepped(fs)
<1>. DEFINE j == WithoutKept(j0, {i \in ToSet(j0.scan) : ~i.d /\ \E k \in Shown(i) : ~k.d})
            i == Head(j.scan)
            once == IF Len(i.p) = 1 THEN [j EXCEPT !.flags = Sticky(@)] ELSE j
<1>1. Ready(j, fs)
  BY WithoutKeptJob DEF Ready
<1>2. Ready(once, fs)
  <2>. HIDE DEF j
  <2>. QED BY <1>1, StickyJob DEF Ready
<1>3. fs \in Parts(fs)
  BY PartItself DEF Ready
<1>4. \/ DeleteSent(j, fs) \/ Asks(once, fs, Question(i))
      \/ ReadLocalDir(once, fs, i) \/ SendLocalFile(once, fs, i)
  BY DEF ScanLocalRequest
<1>. HIDE DEF j, i, once
<1>. QED BY <1>1, <1>2, <1>3, <1>4, DeleteSentStep, AsksStep, ReadLocalDirStep, SendLocalFileStep

LEMMA ScanNextStepStep ==
  ASSUME NEW j, NEW fs, Ready(j, fs), ScanNextStep(j, fs)
  PROVE  Stepped(fs)
<1>1. fs \in Parts(fs)
  BY PartItself DEF Ready
<1>. QED BY <1>1, EndsStep, ScanLocalRequestStep, ScanSendRequestStep DEF ScanNextStep

-----------------------------------------------------------------------------
(* The inductive invariant. *)

ItemsIn(S) == \A i \in S : IsItem(i)

Typed ==
  /\ {viewOnly, sending, listing, clean, crashed, shown, posted} \subseteq BOOLEAN
  /\ IsFd(fd) /\ IsRec(rec) /\ IsNote(note) /\ IsJob(job)
  /\ panel = [path |-> panel.path, items |-> panel.items]
  /\ IsFiniteSet(panel.items) /\ ItemsIn(panel.items)
  /\ FileSystem(local) /\ FileSystem(remote)
  /\ IsSeq(toServer) /\ IsSeq(toViewer)
  /\ \A k \in 1 .. Len(toViewer) : toViewer[k].ok \in BOOLEAN
  /\ ~shown => job = NoJob /\ panel = NoPanel /\ posted = FALSE

\* A mark says what the server has of a file between two messages, if it is
\* writing at all: the path, the content to come, the number of blocks.
Mark(p, c, n) == [p |-> p, c |-> c, n |-> n]
IsMark(a) == a.n \in Nat /\ IsSeq(a.c) /\ a.n <= Len(a.c)

\* The mark before a message and the mark behind it.
Follows(m, a, b) ==
  /\ m.t = "offer" => b.p = m.p /\ b.n = 0
  /\ m.t = "packet" => /\ a.p = m.p /\ a.n < Len(a.c) /\ m.b = a.c[a.n + 1]
                       /\ b = Mark(a.p, a.c, a.n + 1)
  /\ m.t = "eof" => a.p = m.p /\ a.n = Len(a.c) /\ m.b = a.c
  /\ m.t \notin {"offer", "packet", "eof"} => b = a

\* Marks along the queue to the server: the first is what the server has, the
\* last what the viewer has sent.
Marks(g) == \A k \in 1 .. Len(toServer) + 1 : IsMark(g[k])
Along(g) == \A k \in 1 .. Len(toServer) : Follows(toServer[k], g[k], g[k + 1])
Written(a) == fd.mode = "w" => /\ fd.path = a.p /\ fd.path \in DOMAIN remote
                               /\ remote[fd.path] = SubSeq(a.c, 1, a.n)
Sending == rec.used /\ rec.h = "read" /\ IsFile(local, rec.path)
Sent(a) == Sending => a = Mark(rec.path, local[rec.path], rec.pos)
Line(g) == Marks(g) /\ Along(g) /\ Written(g[1]) /\ Sent(g[Len(toServer) + 1])

IInv == Typed /\ \E g : Line(g)

-----------------------------------------------------------------------------
(* How the marks move. *)

\* The file being sent is the same, and as far.
SenderKept ==
  Sending' => /\ Sending
              /\ rec'.path = rec.path /\ rec'.pos = rec.pos
              /\ local'[rec.path] = local[rec.path]

LEMMA SentKept ==
  ASSUME NEW a, Sent(a), SenderKept
  PROVE  Sent(a)'
  BY DEF Sent, SenderKept, Mark

\* Nothing is sent, nothing is taken.
LEMMA LineKept ==
  ASSUME NEW g, Line(g), UNCHANGED toServer, SenderKept, Written(g[1])'
  PROVE  Line(g)'
<1>1. Sent(g[Len(toServer) + 1])'
  BY SentKept DEF Line
<1>. QED BY <1>1 DEF Line, Marks, Along

\* The server takes a message.
LEMMA LineTaken ==
  ASSUME NEW g, Line(g), IsSeq(toServer), toServer # <<>>, toServer' = Tail(toServer),
         UNCHANGED <<rec, local>>, Written(g[2])'
  PROVE  (\E h : Line(h))'
<1>. DEFINE h == [k \in Nat |-> g[k + 1]]
<1>0. PICK a : a = g[Len(toServer) + 1]
  OBVIOUS
<1>1. /\ Len(toServer) \in Nat /\ Len(toServer') = Len(toServer) - 1 /\ Len(toServer) >= 1
      /\ \A k \in 1 .. Len(toServer) - 1 : toServer'[k] = toServer[k + 1]
  BY SeqTail, SeqKnown
<1>2. \A k \in Nat : h[k] = g[k + 1]
  OBVIOUS
<1>. HIDE DEF h
<1>3. Marks(h)'
  <2>1. ASSUME NEW k \in 1 .. Len(toServer') + 1 PROVE IsMark(h[k])
    <3>1. k + 1 \in 1 .. Len(toServer) + 1 /\ k \in Nat
      BY <1>1
    <3>. QED BY <3>1, <1>2 DEF Line, Marks
  <2>. QED BY <2>1 DEF Marks
<1>4. Along(h)'
  <2>1. ASSUME NEW k \in 1 .. Len(toServer') PROVE Follows(toServer'[k], h[k], h[k + 1])
    <3>1. k + 1 \in 1 .. Len(toServer) /\ k \in Nat /\ k + 1 \in Nat /\ k \in 1 .. Len(toServer) - 1
      BY <1>1
    <3>2. Follows(toServer[k + 1], g[k + 1], g[(k + 1) + 1])
      BY <3>1 DEF Line, Along
    <3>3. toServer'[k] = toServer[k + 1] /\ h[k] = g[k + 1] /\ h[k + 1] = g[(k + 1) + 1]
      BY <3>1, <1>1, <1>2
    <3>. QED BY <3>2, <3>3
  <2>. QED BY <2>1 DEF Along
<1>5. h[1] = g[2] /\ h[Len(toServer') + 1] = g[Len(toServer) + 1]
  BY <1>1, <1>2
<1>6. Written(h[1])'
  BY <1>5 DEF Written
<1>7. Sent(h[Len(toServer) + 1])'
  <2>1. Sent(a)
    BY <1>0 DEF Line
  <2>2. Sent(a)'
    BY <2>1 DEF Sent, Sending
  <2>. QED BY <2>2, <1>5, <1>0 DEF Sent
<1>8. Line(h)'
  BY <1>3, <1>4, <1>6, <1>7 DEF Line
<1>. QED BY <1>8

\* The viewer sends messages that carry no file.
LEMMA LinePlain ==
  ASSUME NEW g, Line(g), IsSeq(toServer), SaysPlain, SenderKept, UNCHANGED <<fd, remote>>
  PROVE  (\E h : Line(h))'
<1>1. PICK ms : Plain(ms) /\ toServer' = toServer \o ms
  BY DEF SaysPlain
<1>0. PICK n : n = Len(toServer)
  OBVIOUS
<1>. DEFINE h == [k \in Nat |-> IF k <= n + 1 THEN g[k] ELSE g[n + 1]]
<1>2. /\ n \in Nat /\ Len(ms) \in Nat /\ Len(toServer') = n + Len(ms)
      /\ \A k \in 1 .. n : toServer'[k] = toServer[k]
      /\ \A k \in 1 .. Len(ms) : toServer'[n + k] = ms[k]
  BY <1>0, <1>1, SeqConcat, SeqKnown DEF Plain
<1>3. \A k \in Nat : h[k] = IF k <= n + 1 THEN g[k] ELSE g[n + 1]
  OBVIOUS
<1>. HIDE DEF h
<1>4. Marks(h)'
  <2>1. ASSUME NEW k \in 1 .. Len(toServer') + 1 PROVE IsMark(h[k])
    <3>1. k \in Nat /\ n + 1 \in 1 .. n + 1 /\ (k <= n + 1 => k \in 1 .. n + 1)
      BY <1>2
    <3>2. IsMark(g[n + 1]) /\ (k <= n + 1 => IsMark(g[k]))
      BY <1>0, <3>1 DEF Line, Marks
    <3>. QED BY <3>1, <3>2, <1>3
  <2>. QED BY <2>1 DEF Marks
<1>5. Along(h)'
  <2>1. ASSUME NEW k \in 1 .. Len(toServer') PROVE Follows(toServer'[k], h[k], h[k + 1])
    <3>1. CASE k <= n
      <4>1. k \in 1 .. n /\ k \in Nat /\ k + 1 \in Nat /\ k <= n + 1 /\ k + 1 <= n + 1
        BY <3>1, <1>2
      <4>2. Follows(toServer[k], g[k], g[k + 1])
        BY <1>0, <4>1 DEF Line, Along
      <4>3. toServer'[k] = toServer[k] /\ h[k] = g[k] /\ h[k + 1] = g[k + 1]
        BY <4>1, <1>2, <1>3
      <4>. QED BY <4>2, <4>3
    <3>2. CASE k > n
      <4>1. k - n \in 1 .. Len(ms) /\ n + (k - n) = k /\ k \in Nat /\ k + 1 \in Nat
            /\ ~ (k + 1 <= n + 1) /\ (k <= n + 1 => k = n + 1)
        BY <3>2, <1>2
      <4>2. toServer'[k] = ms[k - n]
        BY <4>1, <1>2
      <4>3. h[k] = g[n + 1] /\ h[k + 1] = g[n + 1]
        BY <4>1, <1>3
      <4>4. ms[k - n].t \notin {"offer", "packet", "eof"}
        BY <4>1, <1>1 DEF Plain
      <4>. QED BY <4>2, <4>3, <4>4 DEF Follows
    <3>. QED BY <3>1, <3>2, <1>2
  <2>. QED BY <2>1 DEF Along
<1>6. h[1] = g[1] /\ h[Len(toServer') + 1] = g[n + 1]
  <2>1. 1 \in Nat /\ 1 <= n + 1 /\ Len(toServer') + 1 \in Nat
        /\ (Len(toServer') + 1 <= n + 1 => Len(toServer') + 1 = n + 1)
    BY <1>2
  <2>. QED BY <2>1, <1>3
<1>7. Written(h[1])'
  BY <1>6 DEF Line, Written
<1>8. Sent(h[Len(toServer) + 1])'
  <2>1. Sent(g[n + 1])'
    BY <1>0, SentKept DEF Line
  <2>. QED BY <2>1, <1>6 DEF Sent
<1>9. Line(h)'
  BY <1>4, <1>5, <1>7, <1>8 DEF Line
<1>. QED BY <1>9

\* The viewer sends one message; b is the mark behind it.
LEMMA LineOne ==
  ASSUME NEW g, Line(g), IsSeq(toServer), NEW m, toServer' = toServer \o <<m>>,
         UNCHANGED <<fd, remote>>,
         NEW b, IsMark(b), Follows(m, g[Len(toServer) + 1], b), Sent(b)'
  PROVE  (\E h : Line(h))'
<1>0. PICK n : n = Len(toServer)
  OBVIOUS
<1>. DEFINE h == [k \in Nat |-> IF k <= n + 1 THEN g[k] ELSE b]
<1>2. /\ n \in Nat /\ Len(toServer') = n + 1
      /\ \A k \in 1 .. n : toServer'[k] = toServer[k]
      /\ toServer'[n + 1] = m
  <2>1. IsSeq(<<m>>) /\ Len(<<m>>) = 1 /\ <<m>>[1] = m /\ n \in Nat
    BY <1>0, SeqOne, SeqKnown
  <2>2. /\ Len(toServer \o <<m>>) = n + Len(<<m>>)
        /\ \A k \in 1 .. n : (toServer \o <<m>>)[k] = toServer[k]
        /\ \A k \in 1 .. Len(<<m>>) : (toServer \o <<m>>)[n + k] = <<m>>[k]
    BY <1>0, <2>1, SeqConcat
  <2>3. (toServer \o <<m>>)[n + 1] = m
    BY <2>1, <2>2
  <2>. QED BY <1>0, <2>1, <2>2, <2>3
<1>3. \A k \in Nat : h[k] = IF k <= n + 1 THEN g[k] ELSE b
  OBVIOUS
<1>. HIDE DEF h
<1>4. Marks(h)'
  <2>1. ASSUME NEW k \in 1 .. Len(toServer') + 1 PROVE IsMark(h[k])
    <3>1. k \in Nat /\ (k <= n + 1 => k \in 1 .. n + 1)
      BY <1>2
    <3>2. k <= n + 1 => IsMark(g[k])
      BY <1>0, <3>1 DEF Line, Marks
    <3>. QED BY <3>1, <3>2, <1>3
  <2>. QED BY <2>1 DEF Marks
<1>5. Along(h)'
  <2>1. ASSUME NEW k \in 1 .. Len(toServer') PROVE Follows(toServer'[k], h[k], h[k + 1])
    <3>1. CASE k <= n
      <4>1. k \in 1 .. n /\ k \in Nat /\ k + 1 \in Nat /\ k <= n + 1 /\ k + 1 <= n + 1
        BY <3>1, <1>2
      <4>2. Follows(toServer[k], g[k], g[k + 1])
        BY <1>0, <4>1 DEF Line, Along
      <4>3. toServer'[k] = toServer[k] /\ h[k] = g[k] /\ h[k + 1] = g[k + 1]
        BY <4>1, <1>2, <1>3
      <4>. QED BY <4>2, <4>3
    <3>2. CASE k > n
      <4>1. k = n + 1 /\ k \in Nat /\ k + 1 \in Nat /\ ~ (k + 1 <= n + 1) /\ k <= n + 1
        BY <3>2, <1>2
      <4>2. h[k] = g[k] /\ h[k + 1] = b
        BY <4>1, <1>3
      <4>3. Follows(m, g[n + 1], b)
        BY <1>0
      <4>. QED BY <4>1, <4>2, <4>3, <1>2
    <3>. QED BY <3>1, <3>2, <1>2
  <2>. QED BY <2>1 DEF Along
<1>6. h[1] = g[1] /\ h[Len(toServer') + 1] = b
  <2>1. 1 \in Nat /\ 1 <= n + 1 /\ Len(toServer') + 1 \in Nat /\ ~ (Len(toServer') + 1 <= n + 1)
    BY <1>2
  <2>. QED BY <2>1, <1>3
<1>7. Written(h[1])'
  BY <1>6 DEF Line, Written
<1>8. Sent(h[Len(toServer) + 1])'
  BY <1>6 DEF Sent
<1>9. Line(h)'
  BY <1>4, <1>5, <1>7, <1>8 DEF Line
<1>. QED BY <1>9

-----------------------------------------------------------------------------
(* What a step of the dialog leaves of the invariant. *)

\* No file of fs is new.
OnlyFewer(fs) == \A p : IsFile(fs, p) => IsFile(local, p) /\ fs[p] = local[p]

LEMMA FewerParts ==
  ASSUME NEW fs, OnlyFewer(fs), NEW g \in Parts(fs)
  PROVE  OnlyFewer(g)
<1>1. PICK D \in SUBSET DOMAIN fs : g = [q \in D |-> fs[q]]
  BY DEF Parts
<1>2. ASSUME NEW p, IsFile(g, p) PROVE IsFile(fs, p) /\ g[p] = fs[p]
  BY <1>1, <1>2 DEF IsFile
<1>. QED BY <1>2 DEF OnlyFewer

LEMMA FewerSelf == OnlyFewer(local)
  BY DEF OnlyFewer

\* A directory that is created is no file.
LEMMA FewerPut ==
  ASSUME NEW p, p \notin DOMAIN local
  PROVE  OnlyFewer(Put(local, p, Folder))
  BY DEF OnlyFewer, IsFile, Put

LEMMA FewerErase ==
  ASSUME NEW p
  PROVE  OnlyFewer(Erase(local, p))
  BY DEF OnlyFewer, IsFile, Erase

LEMMA PartsSystem ==
  ASSUME NEW fs, FileSystem(fs), NEW g \in Parts(fs)
  PROVE  FileSystem(g)
<1>1. PICK D \in SUBSET DOMAIN fs : g = [q \in D |-> fs[q]]
  BY DEF Parts
<1>2. DOMAIN g = D /\ IsFiniteSet(D) /\ \A q \in D : g[q] = fs[q] /\ q \in DOMAIN fs
  BY <1>1, FS_Subset DEF FileSystem
<1>. QED BY <1>1, <1>2 DEF FileSystem

LEMMA SystemListable ==
  ASSUME NEW fs, FileSystem(fs)
  PROVE  Listable(fs) /\ \A p : IsFile(fs, p) => IsSeq(fs[p])
  BY DEF FileSystem, Listable, IsFile, IsSeq

LEMMA PutSystem ==
  ASSUME NEW fs, NEW p, NEW c, FileSystem(fs), c = Folder \/ c = <<>>
  PROVE  FileSystem(Put(fs, p, c))
<1>. DEFINE g == Put(fs, p, c)
<1>1. Listable(fs)
  BY SystemListable
<1>2. Listable(g) /\ DOMAIN g = DOMAIN fs \union {p}
  BY <1>1, PutListable
<1>3. \A q \in DOMAIN fs \union {p} : g[q] = IF q = p THEN c ELSE fs[q]
  BY DEF Put
<1>. HIDE DEF g
<1>4. ASSUME NEW q \in DOMAIN g PROVE g[q] = Folder \/ g[q] \in Seq(Range(g[q]))
  <2>1. CASE q = p
    <3>1. <<>> \in Seq(Range(<<>>))
      OBVIOUS
    <3>. QED BY <2>1, <3>1, <1>2, <1>3
  <2>2. CASE q # p
    BY <2>2, <1>2, <1>3 DEF FileSystem
  <2>. QED BY <2>1, <2>2
<1>. QED BY <1>2, <1>4 DEF FileSystem, Listable, g

LEMMA EraseSystem ==
  ASSUME NEW fs, NEW p, FileSystem(fs)
  PROVE  FileSystem(Erase(fs, p))
<1>1. Erase(fs, p) \in Parts(fs)
  BY DEF Erase, Parts
<1>. QED BY <1>1, PartsSystem

LEMMA CleanedSystem ==
  ASSUME FileSystem(local), NEW r
  PROVE  FileSystem(Cleaned(r)) /\ OnlyFewer(Cleaned(r))
  BY EraseSystem, FewerErase, FewerSelf DEF Cleaned

LEMMA KeptSender ==
  ASSUME OnlyFewer(local'), rec' = rec \/ RecKept
  PROVE  SenderKept
  BY DEF OnlyFewer, RecKept, SenderKept, Sending

Begun(fs) == FileSystem(fs) /\ OnlyFewer(fs) /\ Stepped(fs)

LEMMA BegunTyped ==
  ASSUME Typed, NEW fs, Begun(fs)
  PROVE  /\ IsJob(job') /\ IsRec(rec') /\ FileSystem(local') /\ IsSeq(toServer')
         /\ posted' \in BOOLEAN
<1>1. FileSystem(local')
  BY PartsSystem DEF Begun, Stepped
<1>2. IsSeq(toServer')
  <2>1. ASSUME NEW ms, Plain(ms), toServer' = toServer \o ms PROVE IsSeq(toServer')
    BY <2>1, SeqConcat DEF Plain, Typed
  <2>2. ASSUME NEW m, toServer' = toServer \o <<m>> PROVE IsSeq(toServer')
    <3>1. IsSeq(<<m>>)
      BY SeqOne
    <3>. QED BY <3>1, <2>2, SeqConcat DEF Typed
  <2>. QED BY <2>1, <2>2 DEF Begun, Stepped, Transfers, SaysPlain, StartsSend
<1>3. IsRec(rec')
  <2>1. CASE rec' = rec
    BY <2>1 DEF Typed
  <2>2. CASE RecKept
    BY <2>2 DEF RecKept
  <2>3. CASE StartsSend
    <3>1. PICK p : rec' = Offered(p)
      BY <2>3 DEF StartsSend
    <3>2. rec' = [used |-> TRUE, recv |-> FALSE, path |-> p, h |-> "read",
                  pos |-> 0, fSendReady |-> FALSE, fSendAbort |-> FALSE]
      BY <3>1 DEF Offered, NoRec
    <3>. QED BY <3>2 DEF IsRec, Handles
  <2>. QED BY <2>1, <2>2, <2>3 DEF Begun, Stepped, Transfers
<1>. QED BY <1>1, <1>2, <1>3 DEF Begun, Stepped

LEMMA BegunLine ==
  ASSUME Typed, NEW g, Line(g), NEW fs, Begun(fs), UNCHANGED <<fd, remote>>
  PROVE  (\E h : Line(h))'
<1>1. OnlyFewer(local') /\ IsSeq(toServer) /\ FileSystem(local')
  BY FewerParts, PartsSystem DEF Begun, Stepped, Typed
<1>2. CASE (rec' = rec \/ RecKept) /\ SaysPlain
  BY <1>1, <1>2, KeptSender, LinePlain
<1>3. CASE StartsSend
  <2>1. PICK p : /\ IsFile(local', p) /\ rec' = Offered(p)
                 /\ toServer' = toServer \o <<Msg("offer", p, TRUE)>>
    BY <1>3 DEF StartsSend
  <2>2. PICK c : c = local'[p]
    OBVIOUS
  <2>. DEFINE m == Msg("offer", p, TRUE)
              b == Mark(p, c, 0)
  <2>3. IsSeq(c)
    BY <2>1, <2>2, <1>1, SystemListable
  <2>4. IsMark(b)
    BY <2>3, SeqKnown DEF IsMark, Mark
  <2>5. m.t = "offer" /\ m.p = p /\ b.p = p /\ b.n = 0
    BY DEF Msg, Mark
  <2>6. Follows(m, g[Len(toServer) + 1], b)
    BY <2>5 DEF Follows
  <2>7. Sent(b)'
    <3>1. rec'.path = p /\ rec'.pos = 0
      BY <2>1 DEF Offered, NoRec
    <3>. QED BY <3>1, <2>2 DEF Sent
  <2>8. toServer' = toServer \o <<m>>
    BY <2>1
  <2>. HIDE DEF m, b
  <2>. QED BY <2>4, <2>6, <2>7, <2>8, <1>1, LineOne
<1>. QED BY <1>2, <1>3 DEF Begun, Stepped, Transfers

-----------------------------------------------------------------------------
(* The RFB thread. *)

Queued == IsSeq(toViewer) /\ \A k \in 1 .. Len(toViewer) : toViewer[k].ok \in BOOLEAN
Framed == UNCHANGED <<viewOnly, fd, sending, remote, shown, job, panel, posted>>

LEMMA RfbTyped ==
  ASSUME Typed, Framed, IsRec(rec'), IsNote(note'), {listing', clean', crashed'} \subseteq BOOLEAN,
         FileSystem(local'), Queued', IsSeq(toServer')
  PROVE  Typed'
<1>1. /\ viewOnly' = viewOnly /\ fd' = fd /\ sending' = sending /\ remote' = remote
      /\ shown' = shown /\ job' = job /\ panel' = panel /\ posted' = posted
  BY DEF Framed
<1>. QED BY <1>1 DEF Typed, Queued

LEMMA RfbStep ==
  ASSUME Typed, NEW g, Line(g), Framed, IsRec(rec'), IsNote(note'),
         {listing', clean', crashed'} \subseteq BOOLEAN,
         FileSystem(local'), Queued', SaysPlain, SenderKept
  PROVE  IInv'
<1>1. IsSeq(toServer')
  <2>1. PICK ms : Plain(ms) /\ toServer' = toServer \o ms
    BY DEF SaysPlain
  <2>. QED BY <2>1, SeqConcat DEF Plain, Typed
<1>2. Typed'
  BY <1>1, RfbTyped
<1>3. (\E h : Line(h))'
  BY LinePlain DEF Typed, Framed
<1>. QED BY <1>2, <1>3 DEF IInv

LEMMA Quiescent ==
  ASSUME Typed
  PROVE  /\ IsRec(rec) /\ IsNote(note) /\ {listing, clean, crashed} \subseteq BOOLEAN
         /\ FileSystem(local) /\ Queued /\ IsSeq(toServer) /\ IsSeq(toViewer)
  BY DEF Typed, Queued

LEMMA HandleFeeds ==
  ASSUME Typed, NEW t, Handle(t)
  PROVE  Queued' /\ Head(toViewer).ok \in BOOLEAN /\ Head(toViewer).t = t
<1>1. /\ IsSeq(Tail(toViewer)) /\ Len(Tail(toViewer)) = Len(toViewer) - 1 /\ Len(toViewer) >= 1
      /\ Head(toViewer) = toViewer[1] /\ Len(toViewer) \in Nat
      /\ \A k \in 1 .. Len(toViewer) - 1 : Tail(toViewer)[k] = toViewer[k + 1]
  BY SeqTail, SeqKnown DEF Typed, Handle
<1>2. ASSUME NEW k \in 1 .. Len(Tail(toViewer)) PROVE Tail(toViewer)[k].ok \in BOOLEAN
  <2>1. k + 1 \in 1 .. Len(toViewer) /\ k \in 1 .. Len(toViewer) - 1
    BY <1>1
  <2>2. toViewer[k + 1].ok \in BOOLEAN
    BY <2>1 DEF Typed
  <2>. QED BY <2>1, <2>2, <1>1
<1>3. toViewer[1].ok \in BOOLEAN
  <2>1. 1 \in 1 .. Len(toViewer)
    BY <1>1
  <2>. QED BY <2>1 DEF Typed
<1>4. toViewer' = Tail(toViewer)
  BY DEF Handle
<1>5. Queued'
  BY <1>1, <1>2, <1>4 DEF Queued
<1>. QED BY <1>1, <1>3, <1>5 DEF Handle

LEMMA NoteTyped ==
  ASSUME NEW c \in Notes \union {"none"}, NEW p, NEW d \in BOOLEAN
  PROVE  IsNote(Note(c, Item(p, d))) /\ IsNote(NoNote)
  BY DEF IsNote, Note, NoNote, Item

LEMMA TellTyped ==
  ASSUME NEW c \in Notes, Tell(c)
  PROVE  IsNote(note')
  BY NoteTyped DEF Tell

LEMMA KeepsSender ==
  ASSUME UNCHANGED <<rec, local>>
  PROVE  SenderKept
  BY DEF SenderKept, Sending

LEMMA NoSender ==
  ASSUME ~ (rec'.used /\ rec'.h = "read")
  PROVE  SenderKept
  BY DEF SenderKept, Sending

LEMMA NoRecTyped == IsRec(NoRec) /\ ~NoRec.used
  BY DEF IsRec, NoRec, Handles

LEMMA CleanStep ==
  ASSUME Typed, FxClean
  PROVE  IsRec(rec') /\ FileSystem(local') /\ SenderKept
<1>1. rec' = NoRec /\ local' = Cleaned(rec)
  BY DEF FxClean
<1>2. FileSystem(Cleaned(rec))
  BY CleanedSystem DEF Typed
<1>. QED BY <1>1, <1>2, NoRecTyped, NoSender

\* A file has another content.
LEMMA WriteSystem ==
  ASSUME NEW fs, FileSystem(fs), NEW p \in DOMAIN fs, NEW s, IsSeq(s)
  PROVE  FileSystem([fs EXCEPT ![p] = s])
<1>1. s \in Seq(Range(s))
  <2>1. \A k \in 1 .. Len(s) : s[k] \in Range(s)
    BY SeqKnown DEF Range
  <2>2. PICK T : s \in Seq(T)
    BY DEF IsSeq
  <2>. QED BY <2>1, <2>2
<1>2. [fs EXCEPT ![p] = s] = [q \in DOMAIN fs |-> IF q = p THEN s ELSE fs[q]]
  BY DEF FileSystem
<1>. DEFINE h == [q \in DOMAIN fs |-> IF q = p THEN s ELSE fs[q]]
<1>3. FileSystem(h)
  <2>1. DOMAIN h = DOMAIN fs /\ \A q \in DOMAIN fs : h[q] = IF q = p THEN s ELSE fs[q]
    OBVIOUS
  <2>2. h = [q \in DOMAIN h |-> h[q]]
    OBVIOUS
  <2>. HIDE DEF h
  <2>. QED BY <1>1, <2>1, <2>2 DEF FileSystem
<1>. QED BY <1>2, <1>3

LEMMA AppendSystem ==
  ASSUME NEW fs, FileSystem(fs), NEW p, IsFile(fs, p), NEW b
  PROVE  FileSystem([fs EXCEPT ![p] = Append(@, b)])
<1>1. p \in DOMAIN fs /\ IsSeq(fs[p])
  BY SystemListable DEF IsFile
<1>2. PICK s : s = Append(fs[p], b)
  OBVIOUS
<1>3. IsSeq(s)
  BY <1>1, <1>2, SeqAppend
<1>4. FileSystem([fs EXCEPT ![p] = s])
  BY <1>1, <1>3, WriteSystem
<1>. QED BY <1>2, <1>4

LEMMA FileTransferAccessStep ==
  ASSUME Typed, NEW g, Line(g), FileTransferAccess, UNCHANGED dialogVars
  PROVE  IInv'
<1>1. Framed /\ local' = local /\ rec' = rec /\ listing' = listing /\ clean' = clean
      /\ crashed' = crashed
  BY DEF Framed, FileTransferAccess, Handle, dialogVars
<1>2. Queued'
  BY HandleFeeds DEF FileTransferAccess
<1>3. SaysPlain
  BY PlainOne, SaysThat, SaysNothing, Quiescent DEF FileTransferAccess
<1>4. IsNote(note')
  BY TellTyped, Quiescent DEF FileTransferAccess, Notes
<1>. QED BY <1>1, <1>2, <1>3, <1>4, RfbStep, KeepsSender, Quiescent

LEMMA ADrivesListStep ==
  ASSUME Typed, NEW g, Line(g), ADrivesList, UNCHANGED dialogVars
  PROVE  IInv'
<1>1. Framed /\ local' = local /\ rec' = rec /\ listing' = listing /\ clean' = clean
      /\ crashed' = crashed /\ toServer' = toServer
  BY DEF Framed, ADrivesList, Handle, dialogVars
<1>2. Queued'
  BY HandleFeeds DEF ADrivesList
<1>3. IsNote(note')
  BY TellTyped DEF ADrivesList, Notes
<1>. QED BY <1>1, <1>2, <1>3, RfbStep, KeepsSender, Quiescent, SaysNothing

LEMMA ADirectoryStep ==
  ASSUME Typed, NEW g, Line(g), ADirectory, UNCHANGED dialogVars
  PROVE  IInv'
<1>1. Framed /\ local' = local /\ rec' = rec /\ listing' = TRUE /\ clean' = clean
      /\ crashed' = crashed /\ toServer' = toServer
  BY DEF Framed, ADirectory, Handle, dialogVars
<1>2. Queued' /\ Head(toViewer).ok \in BOOLEAN
  BY HandleFeeds DEF ADirectory
<1>3. IsNote(note')
  <2>1. (IF listing THEN "FINDDATA" ELSE "PATH") \in Notes
    BY DEF Notes
  <2>. QED BY <2>1, <1>2, NoteTyped DEF ADirectory
<1>. QED BY <1>1, <1>2, <1>3, RfbStep, KeepsSender, Quiescent, SaysNothing

LEMMA EndOfListStep ==
  ASSUME Typed, NEW g, Line(g), EndOfList, UNCHANGED dialogVars
  PROVE  IInv'
<1>1. Framed /\ local' = local /\ rec' = rec /\ listing' = FALSE /\ clean' = clean
      /\ crashed' = crashed /\ toServer' = toServer
  BY DEF Framed, EndOfList, Handle, dialogVars
<1>2. Queued'
  BY HandleFeeds DEF EndOfList
<1>3. IsNote(note')
  BY TellTyped DEF EndOfList, Notes
<1>. QED BY <1>1, <1>2, <1>3, RfbStep, KeepsSender, Quiescent, SaysNothing

LEMMA FileHeaderAnswerStep ==
  ASSUME Typed, NEW g, Line(g), FileHeaderAnswer, UNCHANGED dialogVars
  PROVE  IInv'
<1>1. Framed /\ listing' = listing /\ crashed' = crashed
  BY DEF Framed, FileHeaderAnswer, Handle, dialogVars
<1>2. Queued'
  BY HandleFeeds DEF FileHeaderAnswer
<1>3. CASE Quiet /\ UNCHANGED <<rec, local, toServer>>
  <2>1. rec' = rec /\ local' = local /\ note' = note /\ clean' = clean /\ toServer' = toServer
    BY <1>3 DEF Quiet
  <2>. QED BY <2>1, <1>1, <1>2, RfbStep, KeepsSender, Quiescent, SaysNothing
<1>4. CASE HeaderRefused
  <2>1. IsNote(note') /\ clean' = clean
    BY <1>4, TellTyped DEF HeaderRefused, Notes
  <2>2. SaysPlain
    BY <1>4, PlainOne, SaysThat DEF HeaderRefused
  <2>3. IsRec(rec') /\ FileSystem(local') /\ SenderKept
    BY <1>4, CleanStep DEF HeaderRefused
  <2>. QED BY <2>1, <2>2, <2>3, <1>1, <1>2, RfbStep, Quiescent
<1>5. CASE /\ rec' = [rec EXCEPT !.h = "stray"]
           /\ Send(<<Msg("header", <<>>, TRUE)>>)
           /\ Quiet /\ UNCHANGED local
  <2>1. IsRec(rec') /\ rec'.h = "stray"
    BY <1>5 DEF Typed, IsRec, Handles
  <2>2. SaysPlain
    BY <1>5, PlainOne, SaysThat
  <2>3. note' = note /\ clean' = clean /\ local' = local
    BY <1>5 DEF Quiet
  <2>. QED BY <2>1, <2>2, <2>3, <1>1, <1>2, RfbStep, NoSender, Quiescent
<1>6. CASE /\ local' = Put(local, rec.path, <<>>)
           /\ rec' = [rec EXCEPT !.h = "write"]
           /\ Send(<<Msg("header", <<>>, TRUE)>>)
           /\ Quiet
  <2>1. IsRec(rec') /\ rec'.h = "write"
    BY <1>6 DEF Typed, IsRec, Handles
  <2>2. SaysPlain
    BY <1>6, PlainOne, SaysThat
  <2>3. note' = note /\ clean' = clean
    BY <1>6 DEF Quiet
  <2>4. FileSystem(local')
    BY <1>6, PutSystem, Quiescent
  <2>. QED BY <2>1, <2>2, <2>3, <2>4, <1>1, <1>2, RfbStep, NoSender, Quiescent
<1>7. CASE /\ Tell("RECV_CREATE_FAIL") /\ clean' = TRUE
           /\ UNCHANGED <<rec, local, toServer>>
  <2>1. IsNote(note') /\ rec' = rec /\ local' = local /\ toServer' = toServer
    BY <1>7, TellTyped DEF Notes
  <2>. QED BY <2>1, <1>7, <1>1, <1>2, RfbStep, KeepsSender, Quiescent, SaysNothing
<1>. QED BY <1>3, <1>4, <1>5, <1>6, <1>7 DEF FileHeaderAnswer, HeaderAccepted

LEMMA FilePacketInStep ==
  ASSUME Typed, NEW g, Line(g), FilePacketIn, UNCHANGED dialogVars
  PROVE  IInv'
<1>1. Framed /\ listing' = listing /\ crashed' = crashed /\ rec' = rec /\ toServer' = toServer
  BY DEF Framed, FilePacketIn, Handle, dialogVars
<1>2. Queued' /\ SaysPlain
  BY HandleFeeds, SaysNothing, Quiescent DEF FilePacketIn
<1>3. IsNote(note') /\ clean' \in BOOLEAN
  BY TellTyped, Quiescent DEF FilePacketIn, Quiet, Notes
<1>4. FileSystem(local') /\ SenderKept
  <2>1. CASE local' = local
    BY <2>1, <1>1, KeepsSender, Quiescent
  <2>2. CASE /\ rec.h = "write" /\ IsFile(local, rec.path)
             /\ local' = [local EXCEPT ![rec.path] = Append(@, Head(toViewer).b)]
    <3>1. FileSystem(local')
      BY <2>2, AppendSystem, Quiescent
    <3>. QED BY <3>1, <2>2, <1>1, NoSender
  <2>3. local' = local \/ /\ rec.h = "write" /\ IsFile(local, rec.path)
                          /\ local' = [local EXCEPT ![rec.path] = Append(@, Head(toViewer).b)]
    BY DEF FilePacketIn
  <2>. QED BY <2>1, <2>2, <2>3
<1>. QED BY <1>1, <1>2, <1>3, <1>4, RfbStep, Quiescent

LEMMA EndOfFileInStep ==
  ASSUME Typed, NEW g, Line(g), EndOfFileIn, UNCHANGED dialogVars
  PROVE  IInv'
<1>1. Framed /\ listing' = listing /\ crashed' = crashed /\ local' = local /\ toServer' = toServer
      /\ clean' = clean
  BY DEF Framed, EndOfFileIn, Handle, dialogVars
<1>2. Queued' /\ SaysPlain
  BY HandleFeeds, SaysNothing, Quiescent DEF EndOfFileIn
<1>3. IsNote(note')
  BY TellTyped, Quiescent DEF EndOfFileIn, Notes
<1>4. IsRec(rec') /\ SenderKept
  BY <1>1, NoRecTyped, NoSender, KeepsSender, Quiescent DEF EndOfFileIn
<1>. QED BY <1>1, <1>2, <1>3, <1>4, RfbStep, Quiescent

LEMMA AbortFileTransferInStep ==
  ASSUME Typed, NEW g, Line(g), AbortFileTransferIn, UNCHANGED dialogVars
  PROVE  IInv'
<1>1. Framed /\ local' = local /\ rec' = rec /\ listing' = listing
      /\ crashed' = crashed /\ toServer' = toServer
  BY DEF Framed, AbortFileTransferIn, Handle, dialogVars
<1>2. Queued'
  BY HandleFeeds DEF AbortFileTransferIn
<1>3. IsNote(note') /\ clean' \in BOOLEAN
  BY TellTyped, Quiescent DEF AbortFileTransferIn, Quiet, Notes
<1>. QED BY <1>1, <1>2, <1>3, RfbStep, KeepsSender, Quiescent, SaysNothing

LEMMA FileAcceptHeaderStep ==
  ASSUME Typed, NEW g, Line(g), FileAcceptHeader, UNCHANGED dialogVars
  PROVE  IInv'
<1>1. Framed /\ local' = local /\ listing' = listing /\ toServer' = toServer
  BY DEF Framed, FileAcceptHeader, Handle, dialogVars
<1>2. Queued' /\ SaysPlain
  BY HandleFeeds, SaysNothing, Quiescent DEF FileAcceptHeader
<1>3. IsNote(note') /\ {clean', crashed'} \subseteq BOOLEAN
  BY TellTyped, Quiescent DEF FileAcceptHeader, Quiet, Notes, Typed, IsRec
<1>4. IsRec(rec') /\ SenderKept
  <2>1. CASE rec' = rec
    BY <2>1, <1>1, KeepsSender, Quiescent
  <2>2. CASE rec' = [rec EXCEPT !.fSendReady = TRUE]
    <3>1. IsRec(rec') /\ rec'.used = rec.used /\ rec'.h = rec.h /\ rec'.path = rec.path
          /\ rec'.pos = rec.pos
      BY <2>2 DEF Typed, IsRec
    <3>. QED BY <3>1, <1>1 DEF SenderKept, Sending
  <2>3. rec' = rec \/ rec' = [rec EXCEPT !.fSendReady = TRUE]
    BY DEF FileAcceptHeader
  <2>. QED BY <2>1, <2>2, <2>3
<1>. QED BY <1>1, <1>2, <1>3, <1>4, RfbStep, Quiescent

LEMMA CommandReturnStep ==
  ASSUME Typed, NEW g, Line(g), CommandReturn, UNCHANGED dialogVars
  PROVE  IInv'
<1>0. PICK t : Handle(t)
  BY DEF CommandReturn
<1>1. Framed /\ local' = local /\ rec' = rec /\ listing' = listing /\ clean' = clean
      /\ crashed' = crashed /\ toServer' = toServer
  BY <1>0 DEF Framed, CommandReturn, Handle, dialogVars
<1>2. Queued' /\ Head(toViewer).ok \in BOOLEAN
  BY <1>0, HandleFeeds
<1>3. IsNote(note')
  <2>1. (IF Head(toViewer).t = "mkdirDone" THEN "MKDIR_RES" ELSE "DELETE_RES") \in Notes
    BY DEF Notes
  <2>. QED BY <2>1, <1>2, NoteTyped DEF CommandReturn
<1>. QED BY <1>1, <1>2, <1>3, RfbStep, KeepsSender, Quiescent, SaysNothing

LEMMA SendAbortStep ==
  ASSUME Typed, NEW g, Line(g), SendAbort, UNCHANGED dialogVars
  PROVE  IInv'
<1>1. Framed /\ listing' = listing /\ crashed' = crashed /\ note' = note /\ clean' = clean
      /\ toViewer' = toViewer
  BY DEF Framed, SendAbort, Quiet, dialogVars
<1>2. Queued'
  BY <1>1, Quiescent DEF Queued
<1>3. SaysPlain
  BY PlainOne, SaysThat DEF SendAbort
<1>4. IsRec(rec') /\ FileSystem(local') /\ SenderKept
  BY CleanStep DEF SendAbort
<1>. QED BY <1>1, <1>2, <1>3, <1>4, RfbStep, Quiescent

LEMMA CleanAfterNoteStep ==
  ASSUME Typed, NEW g, Line(g), CleanAfterNote, UNCHANGED dialogVars
  PROVE  IInv'
<1>1. Framed /\ listing' = listing /\ crashed' = crashed /\ note' = note /\ clean' = FALSE
      /\ toViewer' = toViewer /\ toServer' = toServer
  BY DEF Framed, CleanAfterNote, serverVars, dialogVars
<1>2. Queued' /\ SaysPlain
  BY <1>1, Quiescent, SaysNothing DEF Queued
<1>4. IsRec(rec') /\ FileSystem(local') /\ SenderKept
  BY CleanStep DEF CleanAfterNote
<1>. QED BY <1>1, <1>2, <1>4, RfbStep, Quiescent

\* A block goes to the server, or the end of the file.
LEMMA SendBlockStep ==
  ASSUME Typed, NEW g, Line(g), SendBlock, UNCHANGED dialogVars
  PROVE  IInv'
<1>1. Framed /\ listing' = listing /\ crashed' = crashed /\ toViewer' = toViewer
      /\ fd' = fd /\ remote' = remote
  BY DEF Framed, SendBlock, dialogVars
<1>2. Queued' /\ IsSeq(toServer)
  BY <1>1, Quiescent DEF Queued
<1>3. CASE Tell("SEND_READ_FAIL") /\ clean' = TRUE /\ UNCHANGED <<rec, local, toServer>>
  <2>1. IsNote(note') /\ rec' = rec /\ local' = local /\ toServer' = toServer
    BY <1>3, TellTyped DEF Notes
  <2>. QED BY <2>1, <1>3, <1>1, <1>2, RfbStep, KeepsSender, Quiescent, SaysNothing
<1>4. ASSUME rec.used, rec.h = "read", IsFile(local, rec.path),
             \/ /\ rec.pos >= Len(local[rec.path])
                /\ Send(<<Eof(rec.path, local[rec.path])>>)
                /\ FxClean
                /\ Tell("SEND_END_OF_FILE")
                /\ UNCHANGED clean
             \/ /\ ~ (rec.pos >= Len(local[rec.path]))
                /\ Send(<<Packet(rec.path, local[rec.path][rec.pos + 1])>>)
                /\ rec' = [rec EXCEPT !.pos = @ + 1]
                /\ Tell("SEND_CHUNK")
                /\ UNCHANGED <<local, clean>>
      PROVE  IInv'
  <2>1. PICK a : a = g[Len(toServer) + 1]
    OBVIOUS
  <2>2. PICK p, c, n : p = rec.path /\ c = local[rec.path] /\ n = rec.pos
    OBVIOUS
  <2>3. a = Mark(p, c, n)
    BY <1>4, <2>1, <2>2 DEF Line, Sent, Sending
  <2>4. IsMark(a)
    <3>1. Len(toServer) + 1 \in 1 .. Len(toServer) + 1
      BY <1>2, SeqKnown
    <3>. QED BY <3>1, <2>1 DEF Line, Marks
  <2>5. a.p = p /\ a.c = c /\ a.n = n /\ n \in Nat /\ IsSeq(c) /\ n <= Len(c) /\ Len(c) \in Nat
    BY <2>3, <2>4, SeqKnown DEF Mark, IsMark
  <2>6. CASE /\ rec.pos >= Len(local[rec.path])
             /\ Send(<<Eof(rec.path, local[rec.path])>>)
             /\ FxClean
             /\ Tell("SEND_END_OF_FILE")
             /\ UNCHANGED clean
    <3>. DEFINE m == Eof(p, c)
    <3>1. m.t = "eof" /\ m.p = p /\ m.b = c
      BY DEF Eof
    <3>2. toServer' = toServer \o <<m>>
      BY <2>6, <2>2 DEF Send
    <3>. HIDE DEF m
    <3>3. Follows(m, a, a)
      <4>1. n = Len(c)
        BY <2>5, <2>6, <2>2
      <4>2. a.p = m.p /\ a.n = Len(a.c) /\ m.b = a.c
        BY <3>1, <4>1, <2>5
      <4>. QED BY <3>1, <4>2 DEF Follows
    <3>4. rec' = NoRec
      BY <2>6 DEF FxClean
    <3>5. Sent(a)'
      BY <3>4, NoRecTyped DEF Sent, Sending
    <3>6. (\E h : Line(h))'
      BY <3>2, <3>3, <3>5, <2>1, <2>4, <1>1, <1>2, LineOne
    <3>7. IsSeq(toServer')
      BY <3>2, <1>2, SeqOne, SeqConcat
    <3>8. IsRec(rec') /\ FileSystem(local') /\ IsNote(note') /\ clean' = clean
      BY <2>6, CleanStep, TellTyped DEF Notes
    <3>9. Typed'
      BY <3>7, <3>8, <1>1, <1>2, RfbTyped, Quiescent
    <3>. QED BY <3>6, <3>9 DEF IInv
  <2>7. CASE /\ ~ (rec.pos >= Len(local[rec.path]))
             /\ Send(<<Packet(rec.path, local[rec.path][rec.pos + 1])>>)
             /\ rec' = [rec EXCEPT !.pos = @ + 1]
             /\ Tell("SEND_CHUNK")
             /\ UNCHANGED <<local, clean>>
    <3>. DEFINE m == Packet(p, c[n + 1])
                b == Mark(p, c, n + 1)
    <3>1. m.t = "packet" /\ m.p = p /\ m.b = c[n + 1]
      BY DEF Packet
    <3>2. toServer' = toServer \o <<m>> /\ local' = local /\ clean' = clean
      BY <2>7, <2>2 DEF Send
    <3>3. n < Len(c)
      BY <2>5, <2>7, <2>2
    <3>4. IsMark(b)
      BY <3>3, <2>5 DEF IsMark, Mark
    <3>5. Follows(m, a, b)
      <4>. HIDE DEF m
      <4>1. a.p = m.p /\ a.n < Len(a.c) /\ m.b = a.c[a.n + 1] /\ b = Mark(a.p, a.c, a.n + 1)
        BY <3>1, <3>3, <2>5
      <4>. HIDE DEF b
      <4>. QED BY <3>1, <4>1 DEF Follows
    <3>6. IsRec(rec') /\ rec'.path = p /\ rec'.pos = n + 1
      BY <2>7, <2>2 DEF Typed, IsRec
    <3>7. Sent(b)'
      BY <3>6, <3>2, <2>2 DEF Sent
    <3>. HIDE DEF m, b
    <3>8. (\E h : Line(h))'
      BY <3>2, <3>4, <3>5, <3>7, <2>1, <1>1, <1>2, LineOne
    <3>9. IsSeq(toServer')
      BY <3>2, <1>2, SeqOne, SeqConcat
    <3>10. IsNote(note')
      BY <2>7, TellTyped DEF Notes
    <3>11. Typed'
      BY <3>2, <3>6, <3>9, <3>10, <1>1, <1>2, RfbTyped, Quiescent
    <3>. QED BY <3>8, <3>11 DEF IInv
  <2>. QED BY <1>4, <2>6, <2>7
<1>. QED BY <1>3, <1>4 DEF SendBlock

-----------------------------------------------------------------------------
(* The server. *)

ViewerRests == UNCHANGED <<engineVars, dialogVars>>
Answerable(ms) == IsSeq(ms) /\ \A k \in 1 .. Len(ms) : ms[k].ok \in BOOLEAN

LEMMA AnswerNone == Answerable(<<>>)
  BY SeqEmpty DEF Answerable

LEMMA AnswerOne ==
  ASSUME NEW m, m.ok \in BOOLEAN
  PROVE  Answerable(<<m>>)
  BY SeqOne DEF Answerable

LEMMA AnswerMsg ==
  ASSUME NEW t, NEW p, NEW ok \in BOOLEAN
  PROVE  Answerable(<<Msg(t, p, ok)>>)
<1>. DEFINE m == Msg(t, p, ok)
<1>1. m.ok \in BOOLEAN
  BY DEF Msg
<1>. HIDE DEF m
<1>2. Answerable(<<m>>)
  BY <1>1, AnswerOne
<1>. QED BY <1>2 DEF m

LEMMA AnswerPacket ==
  ASSUME NEW p, NEW b
  PROVE  Answerable(<<Packet(p, b)>>)
<1>. DEFINE m == Packet(p, b)
<1>1. m.ok \in BOOLEAN
  BY DEF Packet
<1>. HIDE DEF m
<1>2. Answerable(<<m>>)
  BY <1>1, AnswerOne
<1>. QED BY <1>2 DEF m

LEMMA AnswerBoth ==
  ASSUME NEW a, NEW b, Answerable(a), Answerable(b)
  PROVE  Answerable(a \o b)
<1>1. IsSeq(a) /\ IsSeq(b) /\ Len(a) \in Nat /\ Len(b) \in Nat
  BY SeqKnown DEF Answerable
<1>2. /\ IsSeq(a \o b) /\ Len(a \o b) = Len(a) + Len(b)
      /\ \A k \in 1 .. Len(a) : (a \o b)[k] = a[k]
      /\ \A k \in 1 .. Len(b) : (a \o b)[Len(a) + k] = b[k]
  BY <1>1, SeqConcat
<1>3. ASSUME NEW k \in 1 .. Len(a \o b) PROVE (a \o b)[k].ok \in BOOLEAN
  <2>1. CASE k <= Len(a)
    BY <2>1, <1>1, <1>2 DEF Answerable
  <2>2. CASE k > Len(a)
    <3>1. k - Len(a) \in 1 .. Len(b) /\ Len(a) + (k - Len(a)) = k
      BY <2>2, <1>1, <1>2
    <3>2. (a \o b)[k] = b[k - Len(a)]
      BY <3>1, <1>2
    <3>. QED BY <3>1, <3>2 DEF Answerable
  <2>. QED BY <2>1, <2>2, <1>1, <1>2
<1>. QED BY <1>2, <1>3 DEF Answerable

LEMMA ReplyFeeds ==
  ASSUME Typed, NEW ms, Answerable(ms), Reply(ms)
  PROVE  Queued'
<1>1. Answerable(toViewer)
  BY DEF Typed, Answerable
<1>2. Answerable(toViewer \o ms)
  BY <1>1, AnswerBoth
<1>3. toViewer' = toViewer \o ms
  BY DEF Reply
<1>. QED BY <1>2, <1>3 DEF Answerable, Queued

LEMMA ServerTyped ==
  ASSUME Typed, ViewerRests, viewOnly' = viewOnly, IsFd(fd'), sending' \in BOOLEAN,
         FileSystem(remote'), IsSeq(toServer'), Queued'
  PROVE  Typed'
<1>1. /\ local' = local /\ rec' = rec /\ listing' = listing /\ note' = note /\ clean' = clean
      /\ crashed' = crashed /\ shown' = shown /\ job' = job /\ panel' = panel
      /\ posted' = posted
  BY DEF ViewerRests, engineVars, dialogVars
<1>. QED BY <1>1 DEF Typed, Queued

\* The marks before and behind the message the server takes.
Behind(g, m) == IsMark(g[1]) /\ IsMark(g[2]) /\ Follows(m, g[1], g[2]) /\ Written(g[1])

LEMMA Taken ==
  ASSUME Typed, NEW g, Line(g), NEW t, Receive(t)
  PROVE  /\ Behind(g, Head(toServer)) /\ Head(toServer).t = t /\ viewOnly' = viewOnly
         /\ IsSeq(toServer') /\ toServer # <<>> /\ toServer' = Tail(toServer)
<1>1. /\ toServer # <<>> /\ toServer' = Tail(toServer) /\ viewOnly' = viewOnly
      /\ Head(toServer).t = t
  BY DEF Receive
<1>2. /\ IsSeq(Tail(toServer)) /\ Len(toServer) >= 1 /\ Head(toServer) = toServer[1]
      /\ Len(toServer) \in Nat
  BY <1>1, SeqTail, SeqKnown DEF Typed
<1>3. 1 \in 1 .. Len(toServer) /\ 1 \in 1 .. Len(toServer) + 1 /\ 2 \in 1 .. Len(toServer) + 1
      /\ 1 + 1 = 2
  BY <1>2
<1>4. IsMark(g[1]) /\ IsMark(g[2]) /\ Follows(toServer[1], g[1], g[2])
  BY <1>3 DEF Line, Marks, Along
<1>. QED BY <1>1, <1>2, <1>4 DEF Behind, Line

LEMMA ServerStep ==
  ASSUME Typed, NEW g, Line(g), NEW t, Receive(t), ViewerRests,
         IsFd(fd'), sending' \in BOOLEAN, FileSystem(remote'), Queued', Written(g[2])'
  PROVE  IInv'
<1>1. /\ viewOnly' = viewOnly /\ IsSeq(toServer') /\ toServer # <<>>
      /\ toServer' = Tail(toServer)
  BY Taken
<1>2. Typed'
  BY <1>1, ServerTyped
<1>3. IsSeq(toServer) /\ UNCHANGED <<rec, local>>
  BY DEF Typed, ViewerRests, engineVars
<1>4. (\E h : Line(h))'
  BY <1>1, <1>3, LineTaken
<1>. QED BY <1>2, <1>4 DEF IInv

\* A message that carries no file leaves the mark; what the server is writing
\* has to stay.
LEMMA WrittenKept ==
  ASSUME NEW g, NEW m, Behind(g, m), m.t \notin {"offer", "packet", "eof"},
         fd' = fd, fd.mode = "w" /\ fd.path \in DOMAIN remote =>
                     fd.path \in DOMAIN remote' /\ remote'[fd.path] = remote[fd.path]
  PROVE  Written(g[2])'
<1>1. g[2] = g[1]
  BY DEF Behind, Follows
<1>. QED BY <1>1 DEF Behind, Written

LEMMA NotWriting ==
  ASSUME NEW a, fd'.mode # "w"
  PROVE  Written(a)'
  BY DEF Written

LEMMA ClosedFd == IsFd(Closed) /\ Closed.mode # "w"
  BY DEF IsFd, Closed

LEMMA ServerRests ==
  ASSUME Typed
  PROVE  IsFd(fd) /\ sending \in BOOLEAN /\ FileSystem(remote) /\ Queued /\ viewOnly \in BOOLEAN
  BY DEF Typed, Queued

LEMMA DrivesListStep ==
  ASSUME Typed, NEW g, Line(g), DrivesList, ViewerRests
  PROVE  IInv'
<1>1. Receive("drives") /\ fd' = fd /\ sending' = sending /\ remote' = remote
  BY DEF DrivesList
<1>2. Queued'
  <2>1. Answerable(<<Msg("drives", <<>>, TRUE)>>)
    BY AnswerMsg
  <2>. QED BY <2>1, ReplyFeeds DEF DrivesList
<1>3. Behind(g, Head(toServer)) /\ Head(toServer).t = "drives"
  BY <1>1, Taken
<1>4. Written(g[2])'
  BY <1>1, <1>3, WrittenKept
<1>. QED BY <1>1, <1>2, <1>4, ServerStep, ServerRests

LEMMA DirContentStep ==
  ASSUME Typed, NEW g, Line(g), DirContent, ViewerRests
  PROVE  IInv'
<1>1. Receive("dir") /\ fd' = fd /\ sending' = sending /\ remote' = remote
  BY DEF DirContent
<1>2. Queued'
  <2>1. PICK p : p = Head(toServer).p
    OBVIOUS
  <2>2. PICK items : items = SetToSeq(Listing(remote, p))
    OBVIOUS
  <2>3. /\ items \in Seq(Listing(remote, p))
        /\ \A i \in Listing(remote, p) : i.d \in BOOLEAN
    BY <2>2, ListingFinite, SetToSeqListed, SystemListable DEF Typed, IsItem
  <2>. DEFINE ms == [k \in DOMAIN items |-> Msg("dir", items[k].p, items[k].d)]
  <2>4. Answerable(ms)
    <3>1. \A k \in DOMAIN items : items[k].d \in BOOLEAN
      BY <2>3
    <3>2. DOMAIN items = 1 .. Len(items) /\ Len(items) \in Nat
      BY <2>3
    <3>. DEFINE T == {ms[k] : k \in DOMAIN items}
    <3>3. ms \in Seq(T) /\ Len(ms) = Len(items)
      BY <3>2
    <3>4. \A k \in DOMAIN items : ms[k].ok = items[k].d
      BY DEF Msg
    <3>. HIDE DEF ms
    <3>. QED BY <3>1, <3>2, <3>3, <3>4 DEF Answerable, IsSeq
  <2>. HIDE DEF ms
  <2>5. Answerable(<<Msg("dir", p, TRUE)>>) /\ Answerable(<<Msg("end", p, TRUE)>>)
        /\ Answerable(<<Msg("end", p, FALSE)>>)
    BY AnswerMsg
  <2>6. Answerable(<<Msg("dir", p, TRUE)>> \o ms)
    BY <2>4, <2>5, AnswerBoth
  <2>7. Answerable((<<Msg("dir", p, TRUE)>> \o ms) \o <<Msg("end", p, TRUE)>>)
    BY <2>5, <2>6, AnswerBoth
  <2>8. \/ Reply((<<Msg("dir", p, TRUE)>> \o ms) \o <<Msg("end", p, TRUE)>>)
        \/ Reply(<<Msg("end", p, FALSE)>>)
    BY <2>1, <2>2 DEF DirContent, ms
  <2>. QED BY <2>5, <2>7, <2>8, ReplyFeeds
<1>3. Behind(g, Head(toServer)) /\ Head(toServer).t = "dir"
  BY <1>1, Taken
<1>4. Written(g[2])'
  BY <1>1, <1>3, WrittenKept
<1>. QED BY <1>1, <1>2, <1>4, ServerStep, ServerRests

LEMMA FileTransferRequestStep ==
  ASSUME Typed, NEW g, Line(g), FileTransferRequest, ViewerRests
  PROVE  IInv'
<1>1. Receive("request") /\ remote' = remote
  BY DEF FileTransferRequest
<1>2. IsFd(fd') /\ fd'.mode # "w" /\ sending' \in BOOLEAN
  <2>1. CASE fd' = Closed /\ sending' = sending
    BY <2>1, ClosedFd, ServerRests
  <2>2. CASE /\ fd' = [mode |-> "r", path |-> Head(toServer).p, pos |-> 0]
             /\ sending' = FALSE
    BY <2>2 DEF IsFd
  <2>. QED BY <2>1, <2>2 DEF FileTransferRequest
<1>3. Queued'
  <2>1. PICK p : p = Head(toServer).p
    OBVIOUS
  <2>2. Answerable(<<Msg("header", p, TRUE)>>) /\ Answerable(<<Msg("header", p, FALSE)>>)
    BY AnswerMsg
  <2>3. Reply(<<Msg("header", p, TRUE)>>) \/ Reply(<<Msg("header", p, FALSE)>>)
    BY <2>1 DEF FileTransferRequest
  <2>. QED BY <2>2, <2>3, ReplyFeeds
<1>. QED BY <1>1, <1>2, <1>3, NotWriting, ServerStep, ServerRests

\* A block, the end or the failure: the server is reading.
LEMMA ChunkRead ==
  ASSUME Typed, Chunk(fd)
  PROVE  IsFd(fd') /\ fd'.mode # "w" /\ sending' \in BOOLEAN /\ Queued'
<1>1. CASE fd' = Closed /\ sending' = FALSE /\ \E t : Reply(<<Msg(t, <<>>, TRUE)>>)
  <2>1. PICK t : Reply(<<Msg(t, <<>>, TRUE)>>)
    BY <1>1
  <2>2. Answerable(<<Msg(t, <<>>, TRUE)>>)
    BY AnswerMsg
  <2>. QED BY <1>1, <2>1, <2>2, ClosedFd, ReplyFeeds
<1>2. CASE /\ fd.mode = "r"
           /\ Reply(<<Packet(fd.path, remote[fd.path][fd.pos + 1])>>)
           /\ fd' = [fd EXCEPT !.pos = @ + 1]
           /\ sending' = TRUE
  <2>1. Answerable(<<Packet(fd.path, remote[fd.path][fd.pos + 1])>>)
    BY AnswerPacket
  <2>2. IsFd(fd') /\ fd'.mode # "w"
    BY <1>2 DEF Typed, IsFd
  <2>. QED BY <1>2, <2>1, <2>2, ReplyFeeds
<1>. QED BY <1>1, <1>2 DEF Chunk

LEMMA FileHeaderStep ==
  ASSUME Typed, NEW g, Line(g), FileHeader, ViewerRests
  PROVE  IInv'
<1>1. Receive("header") /\ remote' = remote
  BY DEF FileHeader
<1>2. Behind(g, Head(toServer)) /\ Head(toServer).t = "header"
  BY <1>1, Taken
<1>3. CASE fd' = Closed /\ Reply(<<>>) /\ UNCHANGED sending
  BY <1>1, <1>3, ClosedFd, AnswerNone, ReplyFeeds, NotWriting, ServerStep, ServerRests
<1>4. CASE Chunk(fd)
  BY <1>1, <1>4, ChunkRead, NotWriting, ServerStep, ServerRests
<1>5. CASE sending' = TRUE /\ Reply(<<>>) /\ UNCHANGED fd
  <2>1. Written(g[2])'
    BY <1>1, <1>2, <1>5, WrittenKept
  <2>. QED BY <1>1, <1>5, <2>1, AnswerNone, ReplyFeeds, ServerStep, ServerRests
<1>. QED BY <1>3, <1>4, <1>5 DEF FileHeader

LEMMA FileTransferOfferStep ==
  ASSUME Typed, NEW g, Line(g), FileTransferOffer, ViewerRests
  PROVE  IInv'
<1>1. Receive("offer")
  BY DEF FileTransferOffer
<1>2. Behind(g, Head(toServer)) /\ Head(toServer).t = "offer"
  BY <1>1, Taken
<1>3. PICK p : p = Head(toServer).p
  OBVIOUS
<1>4. CASE /\ remote' = Put(remote, p, <<>>)
           /\ fd' = [mode |-> "w", path |-> p, pos |-> 0]
           /\ sending' = FALSE
           /\ Reply(<<Msg("accept", p, TRUE)>>)
  <2>1. Queued'
    <3>1. Answerable(<<Msg("accept", p, TRUE)>>)
      BY AnswerMsg
    <3>. QED BY <3>1, <1>4, ReplyFeeds
  <2>2. IsFd(fd') /\ sending' \in BOOLEAN /\ fd'.path = p
    BY <1>4 DEF IsFd
  <2>3. FileSystem(remote') /\ p \in DOMAIN remote'
    <3>1. PICK c : c = <<>>
      OBVIOUS
    <3>2. FileSystem(remote)
      BY ServerRests
    <3>3. FileSystem(Put(remote, p, c)) /\ DOMAIN Put(remote, p, c) = DOMAIN remote \union {p}
      BY <3>1, <3>2, PutSystem, SystemListable, PutListable
    <3>. QED BY <1>4, <3>1, <3>3
  <2>4. remote'[p] = <<>>
    BY <1>4 DEF Put
  <2>5. g[2].p = p /\ g[2].n = 0 /\ IsSeq(g[2].c)
    BY <1>2, <1>3 DEF Behind, Follows, IsMark
  <2>6. SubSeq(g[2].c, 1, g[2].n) = <<>>
    BY <2>5, SeqWhole
  <2>7. Written(g[2])'
    BY <2>2, <2>3, <2>4, <2>5, <2>6 DEF Written
  <2>. QED BY <1>1, <2>1, <2>2, <2>3, <2>7, ServerStep
<1>5. CASE /\ fd' = Closed
           /\ Reply(<<Msg("accept", p, FALSE)>>)
           /\ UNCHANGED <<remote, sending>>
  <2>1. Queued'
    <3>1. Answerable(<<Msg("accept", p, FALSE)>>)
      BY AnswerMsg
    <3>. QED BY <3>1, <1>5, ReplyFeeds
  <2>2. remote' = remote /\ sending' = sending
    BY <1>5
  <2>. QED BY <1>1, <1>5, <2>1, <2>2, ClosedFd, NotWriting, ServerStep, ServerRests
<1>. QED BY <1>3, <1>4, <1>5 DEF FileTransferOffer

\* A block for the file that is being written is the next one of it.
LEMMA FilePacketStep ==
  ASSUME Typed, NEW g, Line(g), FilePacket, ViewerRests
  PROVE  IInv'
<1>1. Receive("packet") /\ toViewer' = toViewer
  BY DEF FilePacket
<1>2. Behind(g, Head(toServer)) /\ Head(toServer).t = "packet"
  BY <1>1, Taken
<1>3. Queued'
  BY <1>1, ServerRests DEF Queued
<1>4. CASE fd.mode = "none" /\ UNCHANGED <<fd, sending, remote>>
  BY <1>1, <1>3, <1>4, NotWriting, ServerStep, ServerRests
<1>5. CASE fd' = Closed /\ sending' = FALSE /\ UNCHANGED remote
  BY <1>1, <1>3, <1>5, ClosedFd, NotWriting, ServerStep, ServerRests
<1>6. CASE /\ fd.mode = "w"
           /\ remote' = [remote EXCEPT ![fd.path] = Append(@, Head(toServer).b)]
           /\ UNCHANGED <<fd, sending>>
  <2>1. PICK p, c, n : p = g[1].p /\ c = g[1].c /\ n = g[1].n
    OBVIOUS
  <2>2. /\ fd.path = p /\ p \in DOMAIN remote /\ remote[p] = SubSeq(c, 1, n)
    BY <1>2, <1>6, <2>1 DEF Behind, Written
  <2>3. n \in Nat /\ IsSeq(c) /\ n < Len(c)
    BY <1>2, <2>1 DEF Behind, Follows, IsMark
  <2>4. Head(toServer).b = c[n + 1] /\ g[2] = Mark(p, c, n + 1)
    BY <1>2, <2>1 DEF Behind, Follows
  <2>5. g[2].p = p /\ g[2].c = c /\ g[2].n = n + 1
    BY <2>4 DEF Mark
  <2>6. remote'[p] = Append(remote[p], c[n + 1]) /\ DOMAIN remote' = DOMAIN remote
    BY <1>6, <2>2, <2>4 DEF Typed, FileSystem
  <2>7. remote'[p] = SubSeq(c, 1, n + 1)
    BY <2>2, <2>3, <2>6, SeqGrows
  <2>8. FileSystem(remote')
    <3>1. PICK s : s = SubSeq(c, 1, n + 1)
      OBVIOUS
    <3>2. IsSeq(s)
      <4>1. PICK k \in Nat : k = n + 1
        BY <2>3
      <4>2. k \in 0 .. Len(c)
        <5>1. Len(c) \in Nat
          BY <2>3, SeqKnown
        <5>. QED BY <5>1, <4>1, <2>3
      <4>3. IsSeq(SubSeq(c, 1, k))
        <5>1. IsSeq(c)
          BY <2>3
        <5>. QED BY <5>1, <4>2, SeqPart
      <4>. QED BY <3>1, <4>1, <4>3
    <3>3. remote' = [remote EXCEPT ![p] = s]
      BY <1>6, <2>2, <2>6, <2>7, <3>1
    <3>4. FileSystem(remote)
      BY ServerRests
    <3>. QED BY <2>2, <3>2, <3>3, <3>4, WriteSystem
  <2>9. fd' = fd /\ sending' = sending
    BY <1>6
  <2>10. Written(g[2])'
    BY <2>2, <2>5, <2>6, <2>7, <2>9 DEF Written
  <2>. QED BY <1>1, <1>3, <2>8, <2>9, <2>10, ServerStep, ServerRests
<1>. QED BY <1>4, <1>5, <1>6 DEF FilePacket

LEMMA EndOfFileStep ==
  ASSUME Typed, NEW g, Line(g), EndOfFile, ViewerRests
  PROVE  IInv'
<1>1. Receive("eof") /\ fd' = Closed /\ sending' = FALSE /\ remote' = remote
      /\ toViewer' = toViewer
  BY DEF EndOfFile
<1>2. Queued'
  BY <1>1, ServerRests DEF Queued
<1>. QED BY <1>1, <1>2, ClosedFd, NotWriting, ServerStep, ServerRests

LEMMA AbortFileTransferStep ==
  ASSUME Typed, NEW g, Line(g), AbortFileTransfer, ViewerRests
  PROVE  IInv'
<1>1. Receive("abort") /\ remote' = remote
  BY DEF AbortFileTransfer
<1>2. Behind(g, Head(toServer)) /\ Head(toServer).t = "abort"
  BY <1>1, Taken
<1>3. CASE fd' = Closed /\ sending' = FALSE /\ Reply(<<>>)
  BY <1>1, <1>3, ClosedFd, AnswerNone, ReplyFeeds, NotWriting, ServerStep, ServerRests
<1>4. CASE /\ Reply(<<IF Head(toServer).ok THEN Msg("access", <<>>, ~viewOnly)
                      ELSE Msg("abort", <<>>, FALSE)>>)
           /\ UNCHANGED <<fd, sending>>
  <2>. DEFINE m == IF Head(toServer).ok THEN Msg("access", <<>>, ~viewOnly)
                   ELSE Msg("abort", <<>>, FALSE)
  <2>1. m.ok \in BOOLEAN
    BY DEF Msg
  <2>2. Reply(<<m>>)
    BY <1>4
  <2>3. Queued'
    <3>. HIDE DEF m
    <3>. QED BY <2>1, <2>2, AnswerOne, ReplyFeeds
  <2>4. fd' = fd /\ sending' = sending
    BY <1>4
  <2>5. Written(g[2])'
    BY <1>1, <1>2, <2>4, WrittenKept
  <2>. QED BY <1>1, <2>3, <2>4, <2>5, ServerStep, ServerRests
<1>. QED BY <1>3, <1>4 DEF AbortFileTransfer

LEMMA CommandDirCreateStep ==
  ASSUME Typed, NEW g, Line(g), CommandDirCreate, ViewerRests
  PROVE  IInv'
<1>1. Receive("mkdir") /\ fd' = fd /\ sending' = sending
  BY DEF CommandDirCreate
<1>2. Behind(g, Head(toServer)) /\ Head(toServer).t = "mkdir"
  BY <1>1, Taken
<1>3. PICK p : p = Head(toServer).p
  OBVIOUS
<1>4. Queued'
  <2>1. PICK ok : ok = (p \notin DOMAIN remote /\ IsFolder(remote, Front(p)))
    OBVIOUS
  <2>2. ok \in BOOLEAN
    BY <2>1 DEF IsFolder
  <2>3. Reply(<<Msg("mkdirDone", p, ok)>>)
    BY <1>3, <2>1 DEF CommandDirCreate
  <2>4. Answerable(<<Msg("mkdirDone", p, ok)>>)
    BY <2>2, AnswerMsg
  <2>. QED BY <2>3, <2>4, ReplyFeeds
<1>5. remote' = remote \/ (p \notin DOMAIN remote /\ remote' = Put(remote, p, Folder))
  BY <1>3 DEF CommandDirCreate
<1>6. FileSystem(remote')
  <2>1. FileSystem(Put(remote, p, Folder)) /\ FileSystem(remote)
    BY PutSystem, ServerRests
  <2>. QED BY <1>5, <2>1
<1>7. ASSUME NEW q \in DOMAIN remote PROVE q \in DOMAIN remote' /\ remote'[q] = remote[q]
  BY <1>5 DEF Put
<1>8. Written(g[2])'
  BY <1>1, <1>2, <1>7, WrittenKept
<1>. QED BY <1>1, <1>4, <1>6, <1>8, ServerStep, ServerRests

\* The file the server has open is not deleted.
LEMMA CommandFileDeleteStep ==
  ASSUME Typed, NEW g, Line(g), CommandFileDelete, ViewerRests
  PROVE  IInv'
<1>1. Receive("delete") /\ fd' = fd /\ sending' = sending
  BY DEF CommandFileDelete
<1>2. Behind(g, Head(toServer)) /\ Head(toServer).t = "delete"
  BY <1>1, Taken
<1>3. PICK p : p = Head(toServer).p
  OBVIOUS
<1>4. PICK done \in BOOLEAN :
        /\ remote' = IF done /\ CanRemove(remote, p) /\ fd.path # p THEN Erase(remote, p)
                     ELSE remote
        /\ Reply(<<Msg("deleteDone", p, done /\ CanRemove(remote, p) /\ fd.path # p)>>)
  BY <1>3 DEF CommandFileDelete, Outcome
<1>5. Queued'
  <2>1. PICK ok : ok = (done /\ CanRemove(remote, p) /\ fd.path # p)
    OBVIOUS
  <2>2. ok \in BOOLEAN
    BY <2>1 DEF CanRemove
  <2>3. Reply(<<Msg("deleteDone", p, ok)>>)
    BY <1>4, <2>1
  <2>4. Answerable(<<Msg("deleteDone", p, ok)>>)
    BY <2>2, AnswerMsg
  <2>. QED BY <2>3, <2>4, ReplyFeeds
<1>6. remote' = remote \/ (fd.path # p /\ remote' = Erase(remote, p))
  BY <1>4
<1>7. FileSystem(remote')
  <2>1. FileSystem(Erase(remote, p)) /\ FileSystem(remote)
    BY EraseSystem, ServerRests
  <2>. QED BY <1>6, <2>1
<1>8. fd.path \in DOMAIN remote =>
        fd.path \in DOMAIN remote' /\ remote'[fd.path] = remote[fd.path]
  BY <1>6 DEF Erase
<1>9. Written(g[2])'
  BY <1>1, <1>2, <1>8, WrittenKept
<1>. QED BY <1>1, <1>5, <1>7, <1>9, ServerStep, ServerRests

LEMMA SendFileTransferChunkStep ==
  ASSUME Typed, NEW g, Line(g), SendFileTransferChunk, ViewerRests
  PROVE  IInv'
<1>1. /\ Chunk(fd) /\ viewOnly' = viewOnly /\ remote' = remote /\ toServer' = toServer
      /\ rec' = rec /\ local' = local
  BY DEF SendFileTransferChunk, ViewerRests, engineVars
<1>2. IsFd(fd') /\ fd'.mode # "w" /\ sending' \in BOOLEAN /\ Queued'
  BY <1>1, ChunkRead
<1>3. Typed'
  BY <1>1, <1>2, ServerTyped, ServerRests DEF Typed
<1>4. Line(g)'
  BY <1>1, <1>2, KeepsSender, NotWriting, LineKept
<1>. QED BY <1>3, <1>4 DEF IInv

LEMMA ServerKeeps ==
  ASSUME IInv, ServerNext, ViewerRests
  PROVE  IInv'
<1>1. PICK g : Line(g)
  BY DEF IInv
<1>2. Typed
  BY DEF IInv
<1>. QED BY <1>1, <1>2, DrivesListStep, DirContentStep, FileTransferRequestStep, FileHeaderStep,
            FileTransferOfferStep, FilePacketStep, EndOfFileStep, AbortFileTransferStep,
            CommandDirCreateStep, CommandFileDeleteStep, SendFileTransferChunkStep
         DEF ServerNext

LEMMA RfbKeeps ==
  ASSUME IInv, RfbNext, UNCHANGED dialogVars
  PROVE  IInv'
<1>1. PICK g : Line(g)
  BY DEF IInv
<1>2. Typed
  BY DEF IInv
<1>. QED BY <1>1, <1>2, FileTransferAccessStep, ADrivesListStep, ADirectoryStep, EndOfListStep,
            FileHeaderAnswerStep, FilePacketInStep, EndOfFileInStep, AbortFileTransferInStep,
            FileAcceptHeaderStep, CommandReturnStep, SendBlockStep, SendAbortStep,
            CleanAfterNoteStep
         DEF RfbNext

-----------------------------------------------------------------------------
(* The GUI thread. *)

PanelOK == /\ panel = [path |-> panel.path, items |-> panel.items]
           /\ IsFiniteSet(panel.items) /\ ItemsIn(panel.items)
GuiFrame == UNCHANGED <<viewOnly, fd, sending, remote, toViewer, listing, clean>>
\* Without the dialog there is no operation.
Orphaned == job = NoJob /\ panel = NoPanel /\ posted = FALSE

LEMMA GuiTyped ==
  ASSUME Typed, GuiFrame, IsJob(job'), IsRec(rec'), FileSystem(local'), IsSeq(toServer'),
         {posted', crashed', shown'} \subseteq BOOLEAN, IsNote(note'), PanelOK',
         shown' \/ Orphaned'
  PROVE  Typed'
<1>1. /\ viewOnly' = viewOnly /\ fd' = fd /\ sending' = sending /\ remote' = remote
      /\ toViewer' = toViewer /\ listing' = listing /\ clean' = clean
  BY DEF GuiFrame
<1>. QED BY <1>1 DEF Typed, PanelOK, Orphaned

LEMMA GuiStep ==
  ASSUME Typed, NEW g, Line(g), GuiFrame, NEW fs, Begun(fs), IsNote(note'),
         {crashed', shown'} \subseteq BOOLEAN, PanelOK', shown' \/ Orphaned'
  PROVE  IInv'
<1>1. /\ IsJob(job') /\ IsRec(rec') /\ FileSystem(local') /\ IsSeq(toServer')
      /\ posted' \in BOOLEAN
  BY BegunTyped
<1>2. Typed'
  BY <1>1, GuiTyped
<1>3. UNCHANGED <<fd, remote>>
  BY DEF GuiFrame
<1>4. (\E h : Line(h))'
  BY <1>3, BegunLine
<1>. QED BY <1>2, <1>4 DEF IInv

LEMMA BegunLocal ==
  ASSUME Typed, local' = local, rec' = rec, SaysPlain, IsJob(job'), posted' \in BOOLEAN
  PROVE  Begun(local)
<1>1. FileSystem(local) /\ Listable(local)
  BY SystemListable DEF Typed
<1>2. local' \in Parts(local)
  BY <1>1, PartItself
<1>. QED BY <1>1, <1>2, FewerSelf DEF Begun, Stepped, Transfers

LEMMA BegunStill ==
  ASSUME Typed, Still, IsJob(job')
  PROVE  Begun(local)
<1>1. local' = local /\ rec' = rec /\ posted' = posted /\ toServer' = toServer
  BY DEF Still
<1>2. SaysPlain /\ posted \in BOOLEAN
  BY <1>1, SaysNothing DEF Typed
<1>. QED BY <1>1, <1>2, BegunLocal

LEMMA ReadyNow ==
  ASSUME Typed, NEW j, IsJob(j), NEW fs, FileSystem(fs)
  PROVE  Ready(j, fs) /\ fs \in Parts(fs)
  BY SystemListable, PartItself DEF Typed, Ready

LEMMA BegunScan ==
  ASSUME Typed, NEW j, IsJob(j), NEW fs, FileSystem(fs), OnlyFewer(fs), ScanNextStep(j, fs)
  PROVE  Begun(fs)
  BY ReadyNow, ScanNextStepStep DEF Begun

LEMMA BegunWaits ==
  ASSUME Typed, NEW j, IsJob(j), Waits(j, local)
  PROVE  Begun(local)
<1>1. FileSystem(local)
  BY DEF Typed
<1>. QED BY <1>1, ReadyNow, WaitsStep, FewerSelf DEF Begun

LEMMA BegunAsks ==
  ASSUME Typed, NEW j, IsJob(j), NEW fs, FileSystem(fs), OnlyFewer(fs), NEW b, Asks(j, fs, b)
  PROVE  Begun(fs)
  BY ReadyNow, AsksStep DEF Begun

-----------------------------------------------------------------------------
(* The operation after an answer. *)

LEMMA JobScan ==
  ASSUME NEW j, IsJob(j), NEW s, ItemList(s)
  PROVE  IsJob([j EXCEPT !.scan = s])
  BY DEF IsJob

LEMMA JobDel ==
  ASSUME NEW j, IsJob(j), NEW s, ItemList(s)
  PROVE  IsJob([j EXCEPT !.del = s])
  BY DEF IsJob

LEMMA JobBoxes ==
  ASSUME NEW j, IsJob(j), NEW b
  PROVE  IsJob([j EXCEPT !.boxes = b]) /\ IsJob([j EXCEPT !.flags = b])
  BY DEF IsJob

LEMMA JobCancel ==
  ASSUME NEW j, IsJob(j), NEW b \in BOOLEAN
  PROVE  IsJob([j EXCEPT !.cancel = b]) /\ IsJob([j EXCEPT !.enabled = b])
  BY DEF IsJob

LEMMA JobAsked ==
  ASSUME NEW j, IsJob(j), NEW a \in BOOLEAN, NEW b \in BOOLEAN
  PROVE  /\ IsJob([j EXCEPT !.enabled = a, !.asked = b])
         /\ IsJob([j EXCEPT !.asked = b, !.enabled = a])
<1>. DEFINE k == [j EXCEPT !.enabled = a]
<1>1. [j EXCEPT !.enabled = a, !.asked = b] = [k EXCEPT !.asked = b]
      /\ [j EXCEPT !.asked = b, !.enabled = a] = [k EXCEPT !.asked = b]
  BY DEF IsJob
<1>2. IsJob(k)
  BY JobCancel
<1>. HIDE DEF k
<1>3. IsJob([k EXCEPT !.asked = b])
  BY <1>2 DEF IsJob
<1>. QED BY <1>1, <1>3

LEMMA JobStarted ==
  ASSUME NEW j, IsJob(j), NEW o \in Ops, NEW s, ItemList(s)
  PROVE  IsJob([j EXCEPT !.op = o, !.enabled = FALSE, !.scan = s])
<1>. DEFINE k == [j EXCEPT !.enabled = FALSE]
            l == [k EXCEPT !.op = o]
<1>1. [j EXCEPT !.op = o, !.enabled = FALSE, !.scan = s] = [l EXCEPT !.scan = s]
  BY DEF IsJob
<1>2. IsJob(k)
  BY JobCancel
<1>3. IsJob(l)
  <2>. HIDE DEF k
  <2>. QED BY <1>2 DEF IsJob
<1>. HIDE DEF l
<1>4. IsJob([l EXCEPT !.scan = s])
  BY <1>3, JobScan
<1>. QED BY <1>1, <1>4

LEMMA JobScanTail ==
  ASSUME NEW j, IsJob(j), j.scan # <<>>
  PROVE  IsJob([j EXCEPT !.scan = Tail(@)])
<1>1. ItemList(Tail(j.scan))
  BY ItemsTail DEF IsJob
<1>. QED BY <1>1, JobScan

LEMMA JobDelTail ==
  ASSUME NEW j, IsJob(j), j.del # <<>>
  PROVE  IsJob([j EXCEPT !.del = Tail(@)])
<1>1. ItemList(Tail(j.del))
  BY ItemsTail DEF IsJob
<1>. QED BY <1>1, JobDel

LEMMA DoneJob ==
  ASSUME NEW j, IsJob(j), j.scan # <<>>, NEW keep
  PROVE  IsJob(Done(j, keep))
<1>. DEFINE s == Tail(j.scan)
            d == IF keep THEN <<Head(j.scan)>> \o j.del ELSE j.del
<1>1. ItemList(s) /\ IsItem(Head(j.scan)) /\ ItemList(j.del)
  BY ItemsTail DEF IsJob
<1>2. ItemList(<<Head(j.scan)>> \o j.del)
  BY <1>1, ItemsCons
<1>3. ItemList(d)
  BY <1>1, <1>2
<1>4. Done(j, keep) = [j EXCEPT !.scan = s, !.del = d]
  BY DEF Done
<1>. DEFINE k == [j EXCEPT !.scan = s]
<1>5. IsJob(k)
  BY <1>1, JobScan
<1>6. IsJob([k EXCEPT !.del = d])
  <2>. HIDE DEF k, d
  <2>. QED BY <1>3, <1>5, JobDel
<1>7. Done(j, keep) = [k EXCEPT !.del = d]
  <2>. HIDE DEF s, d
  <2>. QED BY <1>4 DEF IsJob
<1>. QED BY <1>6, <1>7

-----------------------------------------------------------------------------
(* What the dialog hears. *)

LEMMA HeardFrame ==
  ASSUME NEW c, Heard(c)
  PROVE  GuiFrame /\ IsNote(note')
  BY NoteTyped DEF Heard, GuiFrame, IsNote, NoNote, Note, Item

LEMMA Present ==
  ASSUME Typed
  PROVE  /\ IsJob(job) /\ PanelOK /\ {posted, crashed, shown} \subseteq BOOLEAN
         /\ FileSystem(local) /\ OnlyFewer(local) /\ IsNote(note) /\ (shown \/ Orphaned)
  BY FewerSelf DEF Typed, PanelOK, Orphaned

LEMMA OthersKeep ==
  ASSUME Typed, Others
  PROVE  /\ {crashed', shown'} \subseteq BOOLEAN /\ PanelOK' /\ shown' = shown
         /\ panel' = panel
  BY DEF Others, Typed, PanelOK

LEMMA NoPanelOK == NoPanel.items = {} /\ IsFiniteSet({})
                   /\ NoPanel = [path |-> NoPanel.path, items |-> NoPanel.items]
  BY FS_EmptySet DEF NoPanel

LEMMA FilexferDrivesStep ==
  ASSUME Typed, NEW g, Line(g), FilexferDrives
  PROVE  IInv'
<1>1. GuiFrame /\ IsNote(note') /\ shown' = TRUE /\ local' = local /\ rec' = rec
      /\ posted' = posted /\ crashed' = crashed
  BY HeardFrame DEF FilexferDrives
<1>2. IsJob(job')
  <2>1. IsJob(NoJob) /\ IsJob(job)
    BY CleanJobTyped, Present
  <2>2. IsJob([NoJob EXCEPT !.enabled = FALSE, !.asked = TRUE])
        /\ IsJob([job EXCEPT !.enabled = FALSE, !.asked = TRUE])
    BY <2>1, JobAsked
  <2>. QED BY <2>1, <2>2 DEF FilexferDrives
<1>3. PanelOK'
  BY NoPanelOK, Present DEF FilexferDrives, PanelOK, ItemsIn
<1>4. SaysPlain
  BY PlainList, PlainNone, SaysThat DEF FilexferDrives
<1>5. Begun(local)
  BY <1>1, <1>2, <1>4, BegunLocal, Present
<1>. QED BY <1>1, <1>3, <1>5, GuiStep, Present

LEMMA PermissionDeniedStep ==
  ASSUME Typed, NEW g, Line(g), PermissionDenied
  PROVE  IInv'
<1>1. GuiFrame /\ IsNote(note') /\ job' = job /\ Still /\ Others
  BY HeardFrame DEF PermissionDenied
<1>2. Begun(local)
  BY <1>1, BegunStill, Present
<1>3. shown' \/ Orphaned'
  BY <1>1, Present DEF Still, Others, Orphaned
<1>. QED BY <1>1, <1>2, <1>3, GuiStep, OthersKeep

LEMMA NobodyHearsStep ==
  ASSUME Typed, NEW g, Line(g), NobodyHears
  PROVE  IInv'
<1>1. GuiFrame /\ IsNote(note') /\ job' = job /\ Still /\ Others
  BY HeardFrame DEF NobodyHears
<1>2. Begun(local)
  BY <1>1, BegunStill, Present
<1>3. shown' \/ Orphaned'
  BY <1>1, Present DEF Still, Others, Orphaned
<1>. QED BY <1>1, <1>2, <1>3, GuiStep, OthersKeep

LEMMA FilexferPathStep ==
  ASSUME Typed, NEW g, Line(g), FilexferPath
  PROVE  IInv'
<1>1. GuiFrame /\ IsNote(note') /\ Still /\ shown' = TRUE /\ crashed' = crashed
  BY HeardFrame DEF FilexferPath, Typed
<1>2. IsJob(job')
  BY JobCancel, Present DEF FilexferPath
<1>3. PanelOK'
  <2>1. CASE panel' = panel
    BY <2>1, Present DEF PanelOK
  <2>2. CASE panel' = [path |-> TRUE, items |-> {}]
    BY <2>2, FS_EmptySet DEF PanelOK, ItemsIn
  <2>. QED BY <2>1, <2>2 DEF FilexferPath
<1>4. Begun(local)
  BY <1>1, <1>2, BegunStill
<1>. QED BY <1>1, <1>3, <1>4, GuiStep, Present

LEMMA FilexferFindDataStep ==
  ASSUME Typed, NEW g, Line(g), FilexferFindData
  PROVE  IInv'
<1>1. GuiFrame /\ IsNote(note') /\ Still /\ shown' = TRUE /\ crashed' = crashed
  BY HeardFrame DEF FilexferFindData, Typed
<1>2. IsJob(job')
  <2>1. CASE job' = job
    BY <2>1, Present
  <2>2. CASE job' = [job EXCEPT !.scan =
               ScanFilesAdd(@, Item(Append(Head(@).p, Last(note.i.p)), note.i.d))]
    <3>. DEFINE s == ScanFilesAdd(job.scan,
                       Item(Append(Head(job.scan).p, Last(note.i.p)), note.i.d))
    <3>1. ItemList(s)
      BY OneItemAdded, Present DEF IsJob, IsNote
    <3>2. job' = [job EXCEPT !.scan = s]
      BY <2>2
    <3>. HIDE DEF s
    <3>. QED BY <3>1, <3>2, JobScan, Present
  <2>. QED BY <2>1, <2>2 DEF FilexferFindData
<1>3. PanelOK'
  <2>1. CASE panel' = panel
    BY <2>1, Present DEF PanelOK
  <2>2. CASE panel' = [panel EXCEPT !.items = @ \union {note.i}]
    <3>1. IsItem(note.i)
      BY Present DEF IsNote, Note, IsItem
    <3>2. PanelOK
      BY Present
    <3>3. IsFiniteSet(panel.items \union {note.i})
      BY <3>2, FS_AddElement DEF PanelOK
    <3>4. panel' = [path |-> panel.path, items |-> panel.items \union {note.i}]
      BY <2>2, <3>2 DEF PanelOK
    <3>. QED BY <3>1, <3>2, <3>3, <3>4 DEF PanelOK, ItemsIn
  <2>. QED BY <2>1, <2>2 DEF FilexferFindData
<1>4. Begun(local)
  BY <1>1, <1>2, BegunStill
<1>. QED BY <1>1, <1>3, <1>4, GuiStep, Present

LEMMA ListedDirBegun ==
  ASSUME Typed, job.scan # <<>>, ListedDir(job)
  PROVE  \E fs : Begun(fs)
<1>. DEFINE p == Head(job.scan).p
            fs == IF job.op # "RDELETE" /\ p \notin DOMAIN local /\ IsFolder(local, Front(p))
                  THEN Put(local, p, Folder) ELSE local
<1>1. FileSystem(fs) /\ OnlyFewer(fs)
  <2>1. FileSystem(local) /\ OnlyFewer(local)
    BY Present
  <2>2. FileSystem(Put(local, p, Folder))
    BY <2>1, PutSystem
  <2>3. p \notin DOMAIN local => OnlyFewer(Put(local, p, Folder))
    BY FewerPut
  <2>. QED BY <2>1, <2>2, <2>3
<1>2. IsJob(Done(job, job.op # "RLCOPY")) /\ IsJob(job)
  BY DoneJob, Present
<1>3. ScanNextStep(Done(job, job.op # "RLCOPY"), fs) \/ Asks(job, fs, "fatal")
  BY DEF ListedDir
<1>. HIDE DEF fs
<1>. QED BY <1>1, <1>2, <1>3, BegunScan, BegunAsks

LEMMA FilexferEndOfListStep ==
  ASSUME Typed, NEW g, Line(g), FilexferEndOfList
  PROVE  IInv'
<1>1. GuiFrame /\ IsNote(note') /\ Others /\ shown
  BY HeardFrame DEF FilexferEndOfList
<1>2. \E fs : Begun(fs)
  <2>1. CASE Waits([job EXCEPT !.asked = FALSE, !.enabled = TRUE], local)
    <3>1. IsJob([job EXCEPT !.asked = FALSE, !.enabled = TRUE])
      BY JobAsked, Present
    <3>. QED BY <2>1, <3>1, BegunWaits
  <2>2. CASE job.scan # <<>> /\ ListedDir(job)
    BY <2>2, ListedDirBegun
  <2>3. CASE UNCHANGED job /\ Still
    BY <2>3, BegunStill, Present
  <2>. QED BY <2>1, <2>2, <2>3 DEF FilexferEndOfList
<1>. QED BY <1>1, <1>2, GuiStep, OthersKeep

LEMMA FilexferFileChunkStep ==
  ASSUME Typed, NEW g, Line(g), FilexferFileChunk
  PROVE  IInv'
<1>1. GuiFrame /\ IsNote(note') /\ Others /\ shown
  BY HeardFrame DEF FilexferFileChunk
<1>2. \E fs : Begun(fs)
  <2>1. CASE UNCHANGED job /\ Still
    BY <2>1, BegunStill, Present
  <2>2. CASE /\ rec' = IF rec.fSendReady THEN [rec EXCEPT !.fSendAbort = TRUE] ELSE NoRec
             /\ EndOfScan(job, IF rec.fSendReady THEN local ELSE Cleaned(rec), AbortMessages)
    <3>. DEFINE fs == IF rec.fSendReady THEN local ELSE Cleaned(rec)
    <3>1. FileSystem(fs) /\ OnlyFewer(fs)
      BY CleanedSystem, Present
    <3>2. Plain(AbortMessages)
      BY PlainOne, PlainNone DEF AbortMessages
    <3>3. RecKept
      <4>1. CASE rec' = [rec EXCEPT !.fSendAbort = TRUE]
        BY <4>1 DEF RecKept, Typed, IsRec
      <4>2. CASE rec' = NoRec
        BY <4>2, NoRecTyped DEF RecKept
      <4>. QED BY <2>2, <4>1, <4>2
    <3>4. EndOfScan(job, fs, AbortMessages)
      BY <2>2
    <3>. HIDE DEF fs
    <3>5. IsJob(job') /\ local' = fs /\ SaysPlain /\ posted' = posted
      BY <3>2, <3>4, EndOfScanStep, Present
    <3>6. fs \in Parts(fs) /\ posted \in BOOLEAN
      BY <3>1, ReadyNow, Present
    <3>7. Stepped(fs)
      BY <3>3, <3>5, <3>6 DEF Stepped, Transfers
    <3>. QED BY <3>1, <3>7 DEF Begun
  <2>. QED BY <2>1, <2>2 DEF FilexferFileChunk
<1>. QED BY <1>1, <1>2, GuiStep, OthersKeep

LEMMA FilexferEndOfFileStep ==
  ASSUME Typed, NEW g, Line(g), FilexferEndOfFile
  PROVE  IInv'
<1>1. GuiFrame /\ IsNote(note') /\ Others /\ shown
  BY HeardFrame DEF FilexferEndOfFile
<1>2. \E fs : Begun(fs)
  <2>1. CASE UNCHANGED job /\ Still
    BY <2>1, BegunStill, Present
  <2>2. CASE job.scan # <<>> /\ ScanNextStep(Done(job, job.op \in Moves), local)
    <3>1. IsJob(Done(job, job.op \in Moves))
      BY <2>2, DoneJob, Present
    <3>. QED BY <2>2, <3>1, BegunScan, Present
  <2>. QED BY <2>1, <2>2 DEF FilexferEndOfFile
<1>. QED BY <1>1, <1>2, GuiStep, OthersKeep

LEMMA FilexferFailStep ==
  ASSUME Typed, NEW g, Line(g), FilexferFail
  PROVE  IInv'
<1>1. GuiFrame /\ IsNote(note') /\ Others /\ shown
  BY HeardFrame DEF FilexferFail
<1>2. \E fs : Begun(fs)
  <2>1. CASE UNCHANGED job /\ Still
    BY <2>1, BegunStill, Present
  <2>2. CASE Asks(job, local, "error")
    BY <2>2, BegunAsks, Present
  <2>. QED BY <2>1, <2>2 DEF FilexferFail
<1>. QED BY <1>1, <1>2, GuiStep, OthersKeep

LEMMA FilexferDeleteResultStep ==
  ASSUME Typed, NEW g, Line(g), FilexferDeleteResult
  PROVE  IInv'
<1>. DEFINE j == IF job.op = "RDELETE" /\ job.scan # <<>> THEN [job EXCEPT !.scan = Tail(@)]
                 ELSE IF job.del # <<>> THEN [job EXCEPT !.del = Tail(@)]
                 ELSE job
<1>1. GuiFrame /\ IsNote(note') /\ Others /\ shown
  BY HeardFrame DEF FilexferDeleteResult
<1>2. IsJob(j)
  BY JobScanTail, JobDelTail, Present
<1>3. (UNCHANGED job /\ Still) \/ ScanNextStep(j, local) \/ Asks(j, local, "fatal")
  BY DEF FilexferDeleteResult
<1>. HIDE DEF j
<1>4. \E fs : Begun(fs)
  BY <1>2, <1>3, BegunStill, BegunScan, BegunAsks, Present
<1>. QED BY <1>1, <1>4, GuiStep, OthersKeep

LEMMA FilexferMkDirResultStep ==
  ASSUME Typed, NEW g, Line(g), FilexferMkDirResult
  PROVE  IInv'
<1>1. GuiFrame /\ IsNote(note') /\ shown' = TRUE /\ panel' = panel
  BY HeardFrame DEF FilexferMkDirResult, Typed
<1>2. crashed' \in BOOLEAN /\ \E fs : Begun(fs)
  <2>1. CASE ScanNextStep(job, local) /\ UNCHANGED crashed
    BY <2>1, BegunScan, Present
  <2>2. CASE /\ crashed' = note.i.d
             /\ Waits([job EXCEPT !.enabled = TRUE,
                                  !.boxes = IF note.i.d THEN @ ELSE @ \union {"fatal"}], local)
    <3>. DEFINE b == IF note.i.d THEN job.boxes ELSE job.boxes \union {"fatal"}
                j == [job EXCEPT !.enabled = TRUE, !.boxes = b]
    <3>1. Waits(j, local)
      BY <2>2
    <3>2. IsJob(j)
      <4>. DEFINE k == [job EXCEPT !.enabled = TRUE]
      <4>1. IsJob(k)
        BY JobCancel, Present
      <4>2. j = [k EXCEPT !.boxes = b]
        <5>. HIDE DEF b
        <5>. QED BY Present DEF IsJob
      <4>. HIDE DEF k, b, j
      <4>. QED BY <4>1, <4>2, JobBoxes
    <3>. HIDE DEF j
    <3>3. crashed' \in BOOLEAN
      BY <2>2, Present DEF IsNote
    <3>. QED BY <3>1, <3>2, <3>3, BegunWaits
  <2>. QED BY <2>1, <2>2 DEF FilexferMkDirResult
<1>3. PanelOK'
  BY <1>1, Present DEF PanelOK
<1>. QED BY <1>1, <1>2, <1>3, GuiStep

LEMMA WmEndOfLocalListStep ==
  ASSUME Typed, NEW g, Line(g), WmEndOfLocalList
  PROVE  IInv'
<1>1. /\ GuiFrame /\ note' = note /\ Others /\ shown /\ local' = local /\ rec' = rec
      /\ posted' = FALSE
  BY DEF WmEndOfLocalList, GuiFrame
<1>2. IsJob(job') /\ SaysPlain
  <2>1. CASE /\ job.scan # <<>>
             /\ Send(<<Msg("mkdir", Head(job.scan).p, TRUE)>>)
             /\ job' = Done(job, job.op # "LRCOPY")
    BY <2>1, DoneJob, Present, PlainOne, SaysThat
  <2>2. CASE job' = CleanJob(job) /\ UNCHANGED toServer
    BY <2>2, CleanJobTyped, Present, SaysNothing DEF Typed
  <2>. QED BY <2>1, <2>2 DEF WmEndOfLocalList
<1>3. Begun(local)
  BY <1>1, <1>2, BegunLocal
<1>. QED BY <1>1, <1>3, GuiStep, OthersKeep, Present

-----------------------------------------------------------------------------
(* The user. *)

LEMMA ByUserFrame ==
  ASSUME Typed, ByUser
  PROVE  GuiFrame /\ IsNote(note') /\ crashed' = crashed /\ crashed' \in BOOLEAN
  BY Present DEF ByUser, GuiFrame

LEMMA UserStep ==
  ASSUME Typed, NEW g, Line(g), ByUser, shown, shown' = shown, panel' = panel,
         \E fs : Begun(fs)
  PROVE  IInv'
<1>1. PanelOK' /\ shown' \in BOOLEAN
  BY Present DEF PanelOK
<1>. QED BY <1>1, ByUserFrame, GuiStep

\* The items that are selected.
LEMMA SelectedItems ==
  ASSUME Typed, NEW o, NEW S \in SUBSET Selectable(o)
  PROVE  IsFiniteSet(S) /\ \A i \in S : IsItem(i)
<1>1. /\ IsFiniteSet(Listing(local, <<>>))
      /\ \A i \in Listing(local, <<>>) : IsItem(i)
  <2>1. PICK p : p = <<>>
    OBVIOUS
  <2>2. Listable(local)
    BY SystemListable, Present
  <2>. QED BY <2>1, <2>2, ListingFinite
<1>2. IsFiniteSet(panel.items) /\ \A i \in panel.items : IsItem(i)
  BY DEF Typed, ItemsIn
<1>3. IsFiniteSet(Selectable(o)) /\ \A i \in Selectable(o) : IsItem(i)
  BY <1>1, <1>2 DEF Selectable
<1>. QED BY <1>3, FS_Subset

LEMMA StartScanBegun ==
  ASSUME Typed, NEW j, IsJob(j), NEW o \in Ops, NEW S \in SUBSET Selectable(o),
         StartScan(j, o, S)
  PROVE  Begun(local)
<1>. DEFINE s == FoldLeft(ScanFilesAdd, <<>>, SetToSeq(S))
            c == CleanJob(j)
            k == [c EXCEPT !.op = o, !.enabled = FALSE, !.scan = s]
<1>1. ItemList(s)
  <2>1. PICK scan : scan = <<>>
    OBVIOUS
  <2>2. ItemList(scan)
    BY <2>1, ItemsNone
  <2>3. ItemList(FoldLeft(ScanFilesAdd, scan, SetToSeq(S)))
    BY <2>2, SelectedItems, ItemsAdded
  <2>. QED BY <2>1, <2>3
<1>2. IsJob(c)
  BY CleanJobTyped
<1>3. ScanNextStep(k, local)
  BY DEF StartScan
<1>4. IsJob(k)
  <2>. HIDE DEF s, c
  <2>. QED BY <1>1, <1>2, JobStarted
<1>. HIDE DEF k
<1>. QED BY <1>3, <1>4, BegunScan, Present

LEMMA OpenFileTransferStep ==
  ASSUME Typed, NEW g, Line(g), OpenFileTransfer
  PROVE  IInv'
<1>1. /\ ByUser /\ local' = local /\ rec' = rec /\ shown' = shown /\ job' = job
      /\ panel' = panel /\ posted' = posted
  BY DEF OpenFileTransfer
<1>2. SaysPlain
  <2>1. PICK p : p = <<>>
    OBVIOUS
  <2>2. Send(<<ListRequest(FALSE, p)>>)
    BY <2>1 DEF OpenFileTransfer
  <2>. QED BY <2>2, PlainList, SaysThat
<1>3. Begun(local)
  BY <1>1, <1>2, BegunLocal, Present
<1>4. PanelOK' /\ shown' \in BOOLEAN /\ (shown' \/ Orphaned')
  BY <1>1, Present DEF PanelOK, Orphaned
<1>. QED BY <1>1, <1>3, <1>4, ByUserFrame, GuiStep

LEMMA CloseDialogStep ==
  ASSUME Typed, NEW g, Line(g), CloseDialog
  PROVE  IInv'
<1>1. /\ ByUser /\ Send(AbortMessages) /\ FxAbortFileTransfer
      /\ shown' = FALSE /\ job' = NoJob /\ panel' = NoPanel /\ posted' = FALSE
  BY DEF CloseDialog
<1>2. SaysPlain
  <2>1. Plain(AbortMessages)
    BY PlainOne, PlainNone DEF AbortMessages
  <2>. QED BY <1>1, <2>1, SaysThat
<1>3. IsJob(job') /\ posted' \in BOOLEAN
  BY <1>1, CleanJobTyped, Present
<1>4. \E fs : Begun(fs)
  <2>1. CASE UNCHANGED <<rec, local>>
    BY <2>1, <1>2, <1>3, BegunLocal
  <2>2. CASE rec' = [rec EXCEPT !.fSendAbort = TRUE] /\ UNCHANGED local
    <3>1. RecKept
      BY <2>2 DEF RecKept, Typed, IsRec
    <3>2. local' = local /\ local \in Parts(local)
      BY <2>2, ReadyNow, Present
    <3>3. Stepped(local)
      BY <1>2, <1>3, <3>1, <3>2 DEF Stepped, Transfers
    <3>. QED BY <3>3, Present DEF Begun
  <2>3. CASE FxClean
    <3>1. rec' = NoRec /\ local' = Cleaned(rec)
      BY <2>3 DEF FxClean
    <3>2. PICK fs : fs = Cleaned(rec)
      OBVIOUS
    <3>3. FileSystem(fs) /\ OnlyFewer(fs)
      BY <3>2, CleanedSystem, Present
    <3>4. fs \in Parts(fs)
      BY <3>3, ReadyNow, Present
    <3>5. RecKept
      BY <3>1, NoRecTyped DEF RecKept
    <3>6. Stepped(fs)
      BY <1>2, <1>3, <3>1, <3>2, <3>4, <3>5 DEF Stepped, Transfers
    <3>. QED BY <3>3, <3>6 DEF Begun
  <2>. QED BY <1>1, <2>1, <2>2, <2>3 DEF FxAbortFileTransfer
<1>5. PanelOK' /\ shown' \in BOOLEAN /\ Orphaned'
  BY <1>1, NoPanelOK DEF PanelOK, Orphaned, ItemsIn
<1>. QED BY <1>1, <1>4, <1>5, ByUserFrame, GuiStep

LEMMA RefreshStep ==
  ASSUME Typed, NEW g, Line(g), Refresh
  PROVE  IInv'
<1>1. /\ ByUser /\ shown /\ shown' = shown /\ panel' = panel /\ local' = local /\ rec' = rec
      /\ posted' = posted
  BY DEF Refresh, Command
<1>2. IsJob(job') /\ SaysPlain
  <2>1. CASE UNCHANGED <<job, toServer>>
    BY <2>1, SaysNothing, Present DEF Typed
  <2>2. CASE /\ job' = [job EXCEPT !.enabled = FALSE, !.asked = TRUE]
             /\ Send(<<ListRequest(panel.path, <<>>)>>)
    <3>1. PICK p : p = <<>>
      OBVIOUS
    <3>2. Send(<<ListRequest(panel.path, p)>>)
      BY <2>2, <3>1
    <3>. QED BY <2>2, <3>2, JobAsked, PlainList, SaysThat, Present
  <2>. QED BY <2>1, <2>2 DEF Refresh
<1>3. Begun(local)
  BY <1>1, <1>2, BegunLocal, Present
<1>. QED BY <1>1, <1>3, UserStep

LEMMA CopyStep ==
  ASSUME Typed, NEW g, Line(g), Copy
  PROVE  IInv'
<1>1. ByUser /\ shown /\ shown' = shown /\ panel' = panel
  BY DEF Copy, Command
<1>0. PICK o \in {"RLCOPY", "LRCOPY"} : \E S \in SUBSET Selectable(o) : StartScan(job, o, S)
  BY DEF Copy
<1>2. PICK S \in SUBSET Selectable(o) : StartScan(job, o, S)
  BY <1>0
<1>3. o \in Ops
  BY DEF Ops, ToLocal, ToRemote
<1>4. Begun(local)
  BY <1>2, <1>3, StartScanBegun, Present
<1>. QED BY <1>1, <1>4, UserStep

LEMMA ConfirmStep ==
  ASSUME Typed, NEW g, Line(g), Confirm
  PROVE  IInv'
<1>1. ByUser /\ shown /\ shown' = shown /\ panel' = panel
  BY DEF Confirm, Command
<1>2. PICK b : Waits([job EXCEPT !.boxes = b], local)
  BY DEF Confirm
<1>. DEFINE j == [job EXCEPT !.boxes = b]
<1>3. IsJob(j)
  BY JobBoxes, Present
<1>4. Begun(local)
  <2>1. Waits(j, local)
    BY <1>2
  <2>. HIDE DEF j
  <2>. QED BY <2>1, <1>3, BegunWaits
<1>. QED BY <1>1, <1>4, UserStep

LEMMA ConfirmedStep ==
  ASSUME Typed, NEW g, Line(g), Confirmed
  PROVE  IInv'
<1>1. ByUser /\ shown /\ shown' = shown /\ panel' = panel
  BY DEF Confirmed
<1>0. PICK o \in Ops : \E S \in SUBSET Selectable(o) :
        StartScan([job EXCEPT !.boxes = @ \ {o}], o, S)
  BY DEF Confirmed
<1>2. PICK S \in SUBSET Selectable(o) : StartScan([job EXCEPT !.boxes = @ \ {o}], o, S)
  BY <1>0
<1>3. PICK b : b = job.boxes \ {o}
  OBVIOUS
<1>. DEFINE j == [job EXCEPT !.boxes = b]
<1>4. IsJob(j)
  BY JobBoxes, Present
<1>5. StartScan(j, o, S)
  BY <1>2, <1>3
<1>. HIDE DEF j
<1>6. Begun(local)
  BY <1>4, <1>5, StartScanBegun
<1>. QED BY <1>1, <1>6, UserStep

LEMMA NotConfirmedStep ==
  ASSUME Typed, NEW g, Line(g), NotConfirmed
  PROVE  IInv'
<1>1. ByUser /\ shown /\ shown' = shown /\ panel' = panel
  BY DEF NotConfirmed
<1>2. PICK o : Waits([job EXCEPT !.boxes = @ \ {o}], local)
  BY DEF NotConfirmed
<1>3. PICK b : b = job.boxes \ {o}
  OBVIOUS
<1>. DEFINE j == [job EXCEPT !.boxes = b]
<1>4. IsJob(j)
  BY JobBoxes, Present
<1>5. Waits(j, local)
  BY <1>2, <1>3
<1>. HIDE DEF j
<1>6. Begun(local)
  BY <1>4, <1>5, BegunWaits
<1>. QED BY <1>1, <1>6, UserStep

LEMMA CancelStep ==
  ASSUME Typed, NEW g, Line(g), Cancel
  PROVE  IInv'
<1>1. ByUser /\ shown /\ shown' = shown /\ panel' = panel
  BY DEF Cancel
<1>. DEFINE j == [job EXCEPT !.cancel = TRUE]
<1>2. IsJob(j)
  BY JobCancel, Present
<1>3. Waits(j, local)
  BY DEF Cancel
<1>. HIDE DEF j
<1>4. Begun(local)
  BY <1>2, <1>3, BegunWaits
<1>. QED BY <1>1, <1>4, UserStep

LEMMA AnswersTyped ==
  ASSUME NEW b, NEW j, IsJob(j), NEW k \in Answers(b, j)
  PROVE  IsJob(k)
<1>1. IsJob([j EXCEPT !.cancel = TRUE])
  BY JobCancel
<1>2. IsJob(Skip(j))
  BY <1>1, JobScanTail, JobDelTail DEF Skip
<1>3. ASSUME NEW f PROVE IsJob(Flags(j, f))
  BY JobBoxes DEF Flags
<1>4. \/ k = [j EXCEPT !.cancel = TRUE] \/ k = Skip(j)
      \/ k = Flags(j, {"RDIROVERWRITE"}) \/ k = Flags(j, {"OVERWRITE"})
      \/ k = Flags(j, {"OVERWRITE", "FORALL"}) \/ k = Flags(j, {"NOOVERWRITE", "FORALL"})
  BY DEF Answers
<1>. QED BY <1>1, <1>2, <1>3, <1>4

LEMMA WmMsgBoxDismissStep ==
  ASSUME Typed, NEW g, Line(g), WmMsgBoxDismiss
  PROVE  IInv'
<1>1. ByUser /\ shown /\ shown' = shown /\ panel' = panel
  BY DEF WmMsgBoxDismiss
<1>2. PICK b, k : /\ k \in Answers(b, [job EXCEPT !.boxes = @ \ {b}])
                  /\ ScanNextStep(k, local)
  BY DEF WmMsgBoxDismiss
<1>3. PICK c : c = job.boxes \ {b}
  OBVIOUS
<1>. DEFINE j == [job EXCEPT !.boxes = c]
<1>4. IsJob(j)
  BY JobBoxes, Present
<1>5. k \in Answers(b, j)
  BY <1>2, <1>3
<1>. HIDE DEF j
<1>6. IsJob(k)
  BY <1>4, <1>5, AnswersTyped
<1>7. Begun(local)
  BY <1>2, <1>6, BegunScan, Present
<1>. QED BY <1>1, <1>7, UserStep

-----------------------------------------------------------------------------
(* The theorems. *)

LEMMA HearKeeps ==
  ASSUME IInv, Hear \/ WmEndOfLocalList
  PROVE  IInv'
<1>1. PICK g : Line(g)
  BY DEF IInv
<1>2. Typed
  BY DEF IInv
<1>. QED BY <1>1, <1>2, FilexferDrivesStep, PermissionDeniedStep, NobodyHearsStep,
            FilexferPathStep, FilexferFindDataStep, FilexferEndOfListStep,
            FilexferFileChunkStep, FilexferEndOfFileStep, FilexferFailStep,
            FilexferDeleteResultStep, FilexferMkDirResultStep, WmEndOfLocalListStep
         DEF Hear

LEMMA UserKeeps ==
  ASSUME IInv, User
  PROVE  IInv'
<1>1. PICK g : Line(g)
  BY DEF IInv
<1>2. Typed
  BY DEF IInv
<1>. QED BY <1>1, <1>2, OpenFileTransferStep, CloseDialogStep, RefreshStep, CopyStep,
            ConfirmStep, ConfirmedStep, NotConfirmedStep, CancelStep, WmMsgBoxDismissStep
         DEF User

LEMMA IInvInit == Init => IInv
<1>. SUFFICES ASSUME Init PROVE IInv
  OBVIOUS
<1>1. /\ viewOnly \in BOOLEAN /\ fd = Closed /\ sending = FALSE /\ remote = RemoteInit
      /\ toServer = <<>> /\ toViewer = <<>> /\ local = LocalInit /\ rec = NoRec
      /\ listing = FALSE /\ note = NoNote /\ clean = FALSE /\ crashed = FALSE
      /\ shown = FALSE /\ job = NoJob /\ panel = NoPanel /\ posted = FALSE
  BY DEF Init, ServerInit, EngineInit, DialogInit
<1>2. FileSystem(local) /\ FileSystem(remote)
  <2>1. FileSystem(RemoteInit) /\ FileSystem(LocalInit)
    BY ServerAssumption, LocalAssumption
  <2>. QED BY <1>1, <2>1
<1>3. IsFd(fd) /\ IsRec(rec) /\ IsJob(job) /\ IsNote(note)
  <2>1. "none" \in Notes \union {"none"} /\ FALSE \in BOOLEAN
    OBVIOUS
  <2>2. IsNote(NoNote)
    BY <2>1, NoteTyped
  <2>3. IsJob(NoJob)
    BY ItemsNone DEF IsJob, NoJob
  <2>. QED BY <1>1, <2>2, <2>3, ClosedFd, NoRecTyped
<1>4. IsSeq(toServer) /\ IsSeq(toViewer) /\ Len(toServer) = 0 /\ Len(toViewer) = 0
  BY <1>1, SeqEmpty
<1>5. Typed
  <2>1. /\ panel = [path |-> panel.path, items |-> panel.items]
        /\ IsFiniteSet(panel.items) /\ ItemsIn(panel.items)
    BY <1>1, NoPanelOK DEF ItemsIn
  <2>2. \A k \in 1 .. Len(toViewer) : toViewer[k].ok \in BOOLEAN
    BY <1>4
  <2>3. {viewOnly, sending, listing, clean, crashed, shown, posted} \subseteq BOOLEAN
    BY <1>1
  <2>. QED BY <1>1, <1>2, <1>3, <1>4, <2>1, <2>2, <2>3, Zenon DEF Typed
<1>. DEFINE g == [k \in Nat |-> Mark(<<>>, <<>>, 0)]
<1>6. Line(g)
  <2>1. g[1] = Mark(<<>>, <<>>, 0) /\ g[0 + 1] = Mark(<<>>, <<>>, 0)
    OBVIOUS
  <2>2. IsMark(Mark(<<>>, <<>>, 0))
    BY SeqEmpty DEF IsMark, Mark
  <2>3. Marks(g)
    BY <1>4, <2>1, <2>2 DEF Marks
  <2>4. Along(g)
    BY <1>4 DEF Along
  <2>5. Written(g[1]) /\ Sent(g[Len(toServer) + 1])
    BY <1>1, ClosedFd, NoRecTyped DEF Written, Sent, Sending
  <2>. QED BY <2>3, <2>4, <2>5 DEF Line
<1>. QED BY <1>5, <1>6 DEF IInv

LEMMA IInvNext == IInv /\ [Next]_vars => IInv'
<1>. SUFFICES ASSUME IInv, [Next]_vars PROVE IInv'
  OBVIOUS
<1>1. CASE Server
  BY <1>1, ServerKeeps DEF Server, ViewerRests
<1>2. CASE Rfb
  BY <1>2, RfbKeeps DEF Rfb
<1>3. CASE Hear \/ WmEndOfLocalList
  BY <1>3, HearKeeps
<1>4. CASE User
  BY <1>4, UserKeeps
<1>5. CASE UNCHANGED vars
  <2>1. /\ viewOnly' = viewOnly /\ fd' = fd /\ sending' = sending /\ remote' = remote
        /\ toServer' = toServer /\ toViewer' = toViewer /\ local' = local /\ rec' = rec
        /\ listing' = listing /\ note' = note /\ clean' = clean /\ crashed' = crashed
        /\ shown' = shown /\ job' = job /\ panel' = panel /\ posted' = posted
    BY <1>5 DEF vars, serverVars, engineVars, dialogVars
  <2>2. PICK g : Line(g)
    BY DEF IInv
  <2>3. Typed'
    BY <2>1 DEF IInv, Typed
  <2>4. Line(g)'
    BY <2>1, <2>2 DEF Line, Marks, Along, Written, Sent, Sending
  <2>. QED BY <2>3, <2>4 DEF IInv
<1>. QED BY <1>1, <1>2, <1>3, <1>4, <1>5 DEF Next

THEOREM Invariant == Spec => []IInv
<1>. QED BY IInvInit, IInvNext, PTL DEF Spec

LEMMA IInvTypeOK == IInv => TypeOK
<1>. SUFFICES ASSUME Typed PROVE TypeOK
  BY DEF IInv
<1>1. ASSUME NEW s, ItemList(s), NEW i \in Range(s) PROVE i = Item(i.p, i.d)
  <2>1. DOMAIN s = 1 .. Len(s)
    BY <1>1, SeqKnown DEF ItemList
  <2>. QED BY <1>1, <2>1 DEF ItemList, IsItem, Range
<1>2. \A i \in Range(job.scan) \union Range(job.del) : i = Item(i.p, i.d)
  BY <1>1 DEF Typed, IsJob
<1>3. fd.mode \in {"none", "r", "w"} /\ rec.h \in Handles
  BY DEF Typed, IsFd, IsRec
<1>4. note.c \in Notes \union {"none"} /\ job.op \in Ops \union {"NONE"}
  BY DEF Typed, IsNote, IsJob
<1>5. {viewOnly, sending, listing, clean, crashed, shown, posted, job.asked,
       job.enabled, job.cancel} \subseteq BOOLEAN
  BY DEF Typed, IsJob
<1>6. ~shown => job = NoJob /\ panel = NoPanel /\ ~posted
  BY DEF Typed
<1>. QED BY <1>2, <1>3, <1>4, <1>5, <1>6 DEF TypeOK

THEOREM TypeCorrect == Spec => []TypeOK
<1>. QED BY Invariant, IInvTypeOK, PTL

LEMMA IInvSentWhole == IInv => SentWhole
<1>. SUFFICES ASSUME IInv, toServer # <<>>, fd.mode = "w", NEW m, m = Head(toServer)
              PROVE  /\ m.t \in {"packet", "eof"} => fd.path = m.p
                     /\ m.t = "eof" => remote[fd.path] = m.b
  BY DEF SentWhole
<1>1. PICK g : Line(g)
  BY DEF IInv
<1>2. Typed /\ IsSeq(toServer)
  BY DEF IInv, Typed
<1>3. Len(toServer) \in Nat /\ Len(toServer) >= 1 /\ Head(toServer) = toServer[1]
  BY <1>2, SeqTail, SeqKnown
<1>4. 1 \in 1 .. Len(toServer) /\ 1 \in 1 .. Len(toServer) + 1 /\ 1 + 1 = 2
  BY <1>3
<1>5. Follows(m, g[1], g[2]) /\ IsMark(g[1]) /\ Written(g[1])
  BY <1>1, <1>3, <1>4 DEF Line, Marks, Along
<1>6. fd.path = g[1].p /\ remote[fd.path] = SubSeq(g[1].c, 1, g[1].n)
  BY <1>5 DEF Written
<1>7. m.t \in {"packet", "eof"} => g[1].p = m.p
  BY <1>5 DEF Follows
<1>8. m.t = "eof" => g[1].n = Len(g[1].c) /\ m.b = g[1].c
  BY <1>5 DEF Follows
<1>9. SubSeq(g[1].c, 1, Len(g[1].c)) = g[1].c
  BY <1>5, SeqWhole DEF IsMark
<1>. QED BY <1>6, <1>7, <1>8, <1>9

THEOREM WholeFiles == Spec => []SentWhole
<1>. QED BY Invariant, IInvSentWhole, PTL

-----------------------------------------------------------------------------
(* The dialog, the engine and the server keep in step.                     *)
(*                                                                         *)
(* A patient user gives a command when nothing is under way; nothing is    *)
(* cancelled or closed, and the local disk takes what is written.  Then at *)
(* most one thing is under way: a message that is to be answered, an       *)
(* answer, a listing, a file in one direction, or a message for the        *)
(* dialog.  Each phase says what there is of it on both sides.             *)

Orderly == Patient /\ {"write", "close", "cancel"} \intersect Events = {}

\* Messages the server does not answer, and that change no phase.
Stale(m) == m.t \in {"packet", "eof"} \/ (m.t = "header" /\ ~m.ok)
Unanswered(s) == IsSeq(s) /\ \A k \in 1 .. Len(s) : Stale(s[k])
Awaited(m) == \E s : Unanswered(s) /\ toServer = s \o <<m>>

\* The record is that of the first item of the operation.
Held(recv) == /\ rec.used /\ rec.recv = recv /\ ~rec.fSendAbort
              /\ job.scan # <<>> /\ Head(job.scan) = Item(rec.path, FALSE)
              /\ job.op \in (IF recv THEN ToLocal ELSE ToRemote)
Kept == IF clean THEN Held(TRUE) \/ Held(FALSE) ELSE ~rec.used
Calm == job.boxes = {} /\ posted = FALSE
\* The panel or a directory of the operation is being listed.
DirFirst(j) == j.op \in Ops \ ToRemote /\ j.scan # <<>> /\ Head(j.scan).d
Listed == job.asked \/ DirFirst(job)

Common ==
  /\ ~crashed /\ ~job.cancel
  /\ job.asked => job.op = "NONE"
  /\ job.op = "NONE" => job.scan = <<>>
  /\ shown => panel.path \/ job.asked

\* A box asks about the operation, or whether there shall be one.
BoxesOf(j) == \A a, b \in j.boxes : a = b /\ (a \in Ops <=> j.op = "NONE")

\* Nothing is under way.
Rest ==
  /\ note = NoNote /\ toViewer = <<>> /\ Unanswered(toServer)
  /\ ~sending /\ ~listing /\ ~job.asked /\ Kept
  /\ posted => ~clean /\ job.boxes = {} /\ job.op \in ToRemote
  /\ BoxesOf(job)

\* The server is asked for something.
Requested(m) ==
  \/ m.t \in {"abort", "drives"} /\ m.ok /\ ~shown /\ commands # 0 /\ ~rec.used
  \/ m.t = "dir" /\ Listed /\ (panel.path \/ m.p = <<>>) /\ ~rec.used
  \/ m.t = "delete" /\ job.op \in Ops /\ ~rec.used
  \/ m.t = "mkdir" /\ job.op \in ToRemote /\ ~rec.used
  \/ m.t = "request" /\ Held(TRUE) /\ ~rec.fSendReady /\ rec.h = "-1" /\ m.p = rec.path
  \/ /\ m.t = "header" /\ m.ok /\ Held(TRUE) /\ ~rec.fSendReady /\ rec.h = "write"
     /\ IsFile(local, rec.path) /\ local[rec.path] = <<>>
     /\ IsFile(remote, rec.path) /\ fd = [mode |-> "r", path |-> rec.path, pos |-> 0]
     /\ toServer = <<m>>
  \/ m.t = "offer" /\ Held(FALSE) /\ ~rec.fSendReady

Asking(m) ==
  /\ note = NoNote /\ toViewer = <<>> /\ Awaited(m)
  /\ ~clean /\ ~sending /\ ~listing /\ Calm
  /\ Requested(m)

\* The server has answered.
Replied(m) ==
  \/ m.t \in {"access", "drives"} /\ ~shown /\ commands # 0 /\ ~rec.used
  \/ /\ m.t = "header" /\ Held(TRUE) /\ ~rec.fSendReady /\ rec.h = "-1"
     /\ m.ok => /\ IsFile(remote, rec.path)
                /\ fd = [mode |-> "r", path |-> rec.path, pos |-> 0]
  \/ m.t = "accept" /\ Held(FALSE) /\ ~rec.fSendReady
  \/ m.t = "mkdirDone" /\ job.op \in ToRemote /\ ~rec.used
  \/ m.t = "deleteDone" /\ job.op \in Ops /\ ~rec.used

Answering(m) ==
  /\ note = NoNote /\ toViewer = <<m>> /\ toServer = <<>>
  /\ ~clean /\ ~sending /\ ~listing /\ Calm
  /\ Replied(m)

\* A listing arrives: its path first, its end last.
Streaming ==
  /\ toViewer # <<>> /\ toServer = <<>> /\ ~clean /\ ~sending /\ Calm /\ ~rec.used /\ Listed
  /\ \A k \in 1 .. Len(toViewer) : toViewer[k].t = (IF k = Len(toViewer) THEN "end" ELSE "dir")
  /\ note = NoNote \/ (note.c \in {"PATH", "FINDDATA"} /\ listing)
  /\ panel.path \/ note.c = "PATH" \/ (~listing /\ Len(toViewer) > 1)

Fails == {"RECV_CREATE_FAIL", "RECV_READ_FAIL", "SEND_WRITE_FAIL", "SEND_READ_FAIL"}

\* The dialog is told, and what of.
Told ==
  \/ note.c \in {"DRIVES", "PERMISSION_DENIED"} /\ ~shown /\ commands # 0
  \/ note.c = "END_OF_LIST" /\ Listed /\ panel.path
  \/ note.c = "MKDIR_RES" /\ job.op \in ToRemote
  \/ note.c = "DELETE_RES" /\ job.op \in Ops
  \/ note.c \in Fails /\ job.scan # <<>>
  \/ /\ note.c = "RECV_END_OF_FILE" /\ job.op \in ToLocal /\ job.scan # <<>>
     /\ toServer = <<>>
     /\ \E p : /\ p = Head(job.scan).p /\ IsFile(local, p) /\ IsFile(remote, p)
               /\ local[p] = remote[p]
  \/ note.c = "SEND_END_OF_FILE" /\ job.op \in ToRemote /\ job.scan # <<>>

Noted ==
  /\ toViewer = <<>> /\ Unanswered(toServer) /\ ~sending /\ ~listing /\ Calm /\ Kept
  /\ clean => note.c \in Fails
  /\ Told

\* A file arrives: l is what there is of it here, r what it is on the server.
Coming(l, r) == \A k \in 1 .. Len(toViewer) :
   \/ toViewer[k].t = "packet" /\ Len(l) + k <= Len(r) /\ toViewer[k].b = r[Len(l) + k]
   \/ ~sending /\ k = Len(toViewer) /\ toViewer[k].t = "eof" /\ Len(l) + k = Len(r) + 1
   \/ ~sending /\ k = Len(toViewer) /\ toViewer[k].t = "abort"
Arrives(l, r) ==
  /\ Len(l) <= Len(r) /\ l = SubSeq(r, 1, Len(l)) /\ Coming(l, r)
  /\ sending => fd = [mode |-> "r", path |-> rec.path, pos |-> Len(l) + Len(toViewer)]
Receiving ==
  /\ note = NoNote \/ note.c = "RECV_CHUNK"
  /\ toServer = <<>> /\ ~clean /\ ~listing /\ Calm
  /\ Held(TRUE) /\ rec.h = "write" /\ ~rec.fSendReady
  /\ IsFile(local, rec.path) /\ IsFile(remote, rec.path)
  /\ Arrives(local[rec.path], remote[rec.path])

\* A file is sent.
SendingFile ==
  /\ note = NoNote \/ note.c = "SEND_CHUNK"
  /\ toViewer = <<>> /\ Unanswered(toServer) /\ ~clean /\ ~sending /\ ~listing /\ Calm
  /\ Held(FALSE) /\ rec.fSendReady

Phase == \/ Rest \/ Streaming \/ Noted \/ Receiving \/ SendingFile
         \/ \E m : Asking(m)
         \/ \E m : Answering(m)
InStep == Common /\ Phase

-----------------------------------------------------------------------------
(* The two queues. *)

LEMMA UnansweredNone == Unanswered(<<>>)
  BY SeqEmpty DEF Unanswered

LEMMA UnansweredMore ==
  ASSUME NEW s, Unanswered(s), NEW m, Stale(m)
  PROVE  Unanswered(s \o <<m>>)
<1>1. IsSeq(<<m>>) /\ Len(<<m>>) = 1 /\ <<m>>[1] = m /\ IsSeq(s) /\ Len(s) \in Nat
  BY SeqOne, SeqKnown DEF Unanswered
<1>. DEFINE t == s \o <<m>>
<1>2. /\ IsSeq(t) /\ Len(t) = Len(s) + Len(<<m>>)
      /\ \A k \in 1 .. Len(s) : t[k] = s[k]
      /\ \A k \in 1 .. Len(<<m>>) : t[Len(s) + k] = <<m>>[k]
  BY <1>1, SeqConcat
<1>3. t[Len(s) + 1] = m /\ Len(t) = Len(s) + 1
  BY <1>1, <1>2
<1>. HIDE DEF t
<1>4. ASSUME NEW k \in 1 .. Len(t) PROVE Stale(t[k])
  <2>1. k \in 1 .. Len(s) \/ k = Len(s) + 1
    BY <1>1, <1>3
  <2>. QED BY <2>1, <1>2, <1>3 DEF Unanswered
<1>5. Unanswered(t)
  BY <1>2, <1>4 DEF Unanswered
<1>. QED BY <1>5 DEF t

LEMMA UnansweredTail ==
  ASSUME NEW s, Unanswered(s), s # <<>>
  PROVE  Stale(Head(s)) /\ Unanswered(Tail(s))
<1>1. /\ IsSeq(Tail(s)) /\ Len(Tail(s)) = Len(s) - 1 /\ Len(s) >= 1 /\ Head(s) = s[1]
      /\ \A k \in 1 .. Len(s) - 1 : Tail(s)[k] = s[k + 1]
  BY SeqTail DEF Unanswered
<1>2. Len(s) \in Nat
  BY SeqKnown DEF Unanswered
<1>3. Stale(s[1])
  BY <1>1, <1>2 DEF Unanswered
<1>. DEFINE t == Tail(s)
<1>4. ASSUME NEW k \in 1 .. Len(t) PROVE Stale(t[k])
  <2>1. k + 1 \in 1 .. Len(s) /\ t[k] = s[k + 1]
    BY <1>1, <1>2
  <2>. QED BY <2>1 DEF Unanswered
<1>5. Unanswered(t)
  <2>. HIDE DEF t
  <2>1. IsSeq(t)
    BY <1>1 DEF t
  <2>. QED BY <2>1, <1>4 DEF Unanswered
<1>. QED BY <1>1, <1>3, <1>5

\* The first of the messages of which m is the last.
LEMMA AwaitedFirst ==
  ASSUME NEW s, Unanswered(s), NEW m, NEW q, q = s \o <<m>>
  PROVE  /\ q # <<>>
         /\ s = <<>> => Head(q) = m /\ Tail(q) = <<>> /\ q = <<m>>
         /\ s # <<>> => Stale(Head(q)) /\ Unanswered(Tail(s)) /\ Tail(q) = Tail(s) \o <<m>>
<1>1. PICK S : s \in Seq(S)
  BY DEF Unanswered, IsSeq
<1>. DEFINE T == S \union {m}
<1>2. s \in Seq(T) /\ <<m>> \in Seq(T) /\ q \in Seq(T)
  BY <1>1
<1>. HIDE DEF T
<1>3. q # <<>> /\ (s = <<>> => q = <<m>>)
  <2>1. Len(q) = Len(s) + 1 /\ Len(s) \in Nat /\ q[Len(s) + 1] = m
    BY <1>2
  <2>2. q # <<>>
    BY <2>1, <1>2
  <2>3. ASSUME s = <<>> PROVE q = <<m>>
    <3>1. PICK t : t = <<m>>
      OBVIOUS
    <3>2. t \in Seq(T)
      BY <3>1, <1>2
    <3>3. <<>> \o t = t
      BY <3>2
    <3>. QED BY <3>1, <3>3, <2>3
  <2>. QED BY <2>2, <2>3
<1>4. ASSUME s # <<>> PROVE Head(q) = Head(s) /\ Tail(q) = Tail(s) \o <<m>>
  BY <1>2, <1>4
<1>5. Head(<<m>>) = m /\ Tail(<<m>>) = <<>>
  OBVIOUS
<1>. QED BY <1>3, <1>4, <1>5, UnansweredTail

-----------------------------------------------------------------------------
(* The next step of an operation leads to a phase.                         *)

\* Nothing is under way, and the handler is about to start what follows.
Settled ==
  /\ note' = NoNote /\ toViewer' = <<>> /\ ~sending' /\ ~listing' /\ ~clean' /\ ~crashed'
  /\ panel' = panel /\ panel.path /\ Unanswered(toServer) /\ ~rec.used /\ posted = FALSE

OpJob(j)   == IsJob(j) /\ j.op \in Ops /\ ~j.asked /\ j.boxes = {}
LiveJob(j) == OpJob(j) /\ ~j.cancel

LEMMA SettledRest ==
  ASSUME Settled, ~job'.cancel, ~job'.asked, BoxesOf(job'), job'.op = "NONE" => job'.scan = <<>>,
         rec' = rec, toServer' = toServer,
         posted' => job'.boxes = {} /\ job'.op \in ToRemote
  PROVE  InStep'
<1>1. Common'
  BY DEF Common, Settled
<1>2. Rest'
  BY DEF Rest, Settled, Kept
<1>. QED BY <1>1, <1>2 DEF InStep, Phase

LEMMA SettledAsks ==
  ASSUME Settled, NEW m, toServer' = toServer \o <<m>>, posted' = posted, job'.boxes = {},
         ~job'.cancel, job'.asked => job'.op = "NONE", job'.op = "NONE" => job'.scan = <<>>,
         Requested(m)'
  PROVE  InStep'
<1>1. Common'
  BY DEF Common, Settled
<1>2. Awaited(m)'
  <2>1. \E s : Unanswered(s) /\ toServer' = s \o <<m>>
    BY DEF Settled
  <2>. QED BY <2>1 DEF Awaited
<1>3. Asking(m)'
  BY <1>2 DEF Asking, Settled, Calm
<1>. QED BY <1>1, <1>3 DEF InStep, Phase

LEMMA OpNotNone == "NONE" \notin Ops /\ ToLocal \subseteq Ops /\ ToRemote \subseteq Ops
                   /\ ToLocal \cap ToRemote = {} /\ "RDELETE" \notin ToLocal \union ToRemote
  BY DEF Ops, ToLocal, ToRemote

LEMMA CleanJobBlank ==
  ASSUME NEW j, IsJob(j)
  PROVE  /\ CleanJob(j).asked = j.asked /\ CleanJob(j).boxes = j.boxes
         /\ CleanJob(j).op = "NONE" /\ CleanJob(j).scan = <<>> /\ CleanJob(j).cancel = FALSE
  BY DEF CleanJob, NoJob

LEMMA EndsInStep ==
  ASSUME Settled, NEW j, OpJob(j), NEW fs, Ends(j, fs)
  PROVE  InStep'
<1>. DEFINE refresh == j.op \in (Ops \ {"RLCOPY"}) /\ ~j.asked
            m == Msg("dir", <<>>, TRUE)
            c == CleanJob(j)
<1>1. /\ job' = [c EXCEPT !.enabled = ~refresh, !.asked = @ \/ refresh]
      /\ Send(<<>> \o (IF refresh THEN <<ListRequest(panel.path, <<>>)>> ELSE <<>>))
      /\ posted' = posted /\ rec' = rec
  BY DEF Ends, EndOfScan
<1>2. /\ c.asked = j.asked /\ c.boxes = {} /\ c.op = "NONE" /\ c.scan = <<>> /\ c.cancel = FALSE
      /\ IsJob(c)
  BY CleanJobBlank, CleanJobTyped DEF OpJob
<1>3. /\ job'.asked = (c.asked \/ refresh) /\ job'.boxes = {} /\ job'.op = "NONE"
      /\ job'.scan = <<>> /\ job'.cancel = FALSE
  <2>. HIDE DEF c, refresh
  <2>1. DOMAIN c = {"op", "scan", "del", "flags", "cancel", "enabled", "asked", "boxes"}
    BY <1>2 DEF IsJob
  <2>. QED BY <1>1, <1>2, <2>1
<1>4. CASE refresh
  <2>1. Send(<<m>>)
    <3>1. ListRequest(panel.path, <<>>) = m
      BY DEF ListRequest, Settled
    <3>2. PICK l : l = <<m>>
      OBVIOUS
    <3>3. IsSeq(l)
      BY <3>2, SeqOne
    <3>4. <<>> \o l = l
      BY <3>3 DEF IsSeq
    <3>5. <<>> \o (IF refresh THEN <<ListRequest(panel.path, <<>>)>> ELSE <<>>) = <<>> \o l
      BY <1>4, <3>1, <3>2
    <3>. QED BY <1>1, <3>2, <3>4, <3>5 DEF Send
  <2>2. toServer' = toServer \o <<m>>
    BY <2>1 DEF Send
  <2>3. job'.asked = TRUE
    BY <1>3, <1>4
  <2>4. m.t = "dir" /\ m.p = <<>>
    BY DEF Msg
  <2>. HIDE DEF m
  <2>5. Requested(m)'
    BY <2>3, <2>4, <1>1 DEF Requested, Listed, Settled
  <2>. QED BY <1>1, <1>3, <2>2, <2>3, <2>5, SettledAsks
<1>5. CASE ~refresh
  <2>1. toServer' = toServer
    <3>1. Send(<<>> \o <<>>)
      BY <1>1, <1>5
    <3>2. <<>> \o <<>> = <<>>
      OBVIOUS
    <3>3. toServer \o <<>> = toServer
      BY DEF Settled, Unanswered, IsSeq
    <3>. QED BY <3>1, <3>2, <3>3 DEF Send
  <2>2. ~job'.asked
    BY <1>2, <1>3, <1>5 DEF OpJob
  <2>3. BoxesOf(job')
    BY <1>3 DEF BoxesOf
  <2>. QED BY <1>1, <1>3, <2>1, <2>2, <2>3, SettledRest DEF Settled
<1>. QED BY <1>4, <1>5

LEMMA WaitsInStep ==
  ASSUME Settled, NEW j, LiveJob(j), NEW fs, Waits(j, fs)
  PROVE  InStep'
<1>1. job' = j /\ rec' = rec /\ posted' = posted /\ toServer' = toServer
  BY DEF Waits
<1>2. BoxesOf(job')
  BY <1>1 DEF LiveJob, OpJob, BoxesOf
<1>. QED BY <1>1, <1>2, SettledRest, OpNotNone DEF LiveJob, OpJob, Settled

LEMMA AsksInStep ==
  ASSUME Settled, NEW j, LiveJob(j), NEW fs, NEW b, b \notin Ops, Asks(j, fs, b)
  PROVE  InStep'
<1>. DEFINE k == [j EXCEPT !.boxes = {b}]
<1>1. j.boxes \union {b} = {b}
  BY DEF LiveJob, OpJob
<1>2. [j EXCEPT !.boxes = @ \union {b}] = k
  BY <1>1
<1>3. Waits(k, fs)
  BY <1>2 DEF Asks
<1>4. /\ k.boxes = {b} /\ k.op = j.op /\ k.asked = j.asked /\ k.cancel = j.cancel
      /\ k.scan = j.scan
  BY DEF LiveJob, OpJob, IsJob
<1>. HIDE DEF k
<1>5. job' = k /\ rec' = rec /\ posted' = posted /\ toServer' = toServer
  BY <1>3 DEF Waits
<1>6. BoxesOf(job')
  BY <1>4, <1>5, OpNotNone DEF BoxesOf, LiveJob, OpJob
<1>. QED BY <1>4, <1>5, <1>6, SettledRest, OpNotNone DEF LiveJob, OpJob, Settled

LEMMA RequestsInStep ==
  ASSUME Settled, NEW j, LiveJob(j), NEW fs, NEW m, Requests(j, fs, m),
         m.t = "delete" \/ (m.t = "dir" /\ DirFirst(j))
  PROVE  InStep'
<1>1. job' = j /\ rec' = rec /\ posted' = posted /\ toServer' = toServer \o <<m>>
  BY DEF Requests, Send
<1>2. Requested(m)'
  BY <1>1 DEF Requested, Listed, Settled, LiveJob, OpJob, DirFirst
<1>. QED BY <1>1, <1>2, SettledAsks, OpNotNone DEF LiveJob, OpJob

\* A file of the operation is asked for, or offered.
FileFirst(j, p) == j.scan # <<>> /\ Head(j.scan) = Item(p, FALSE)

LEMMA RecvInStep ==
  ASSUME Settled, NEW j, LiveJob(j), NEW fs, NEW p, FileFirst(j, p), j.op \in ToLocal,
         FxRecvFile(p), Starts(j, fs)
  PROVE  InStep'
<1>. DEFINE m == Msg("request", p, TRUE)
<1>1. job' = j /\ posted' = posted /\ toServer' = toServer \o <<m>>
  BY DEF Starts, FxRecvFile, Send
<1>2. /\ rec'.used = TRUE /\ rec'.recv = TRUE /\ rec'.path = p /\ rec'.h = "-1"
      /\ rec'.fSendReady = FALSE /\ rec'.fSendAbort = FALSE
  BY DEF FxRecvFile, NoRec
<1>3. m.t = "request" /\ m.p = p
  BY DEF Msg
<1>. HIDE DEF m
<1>4. Held(TRUE)'
  BY <1>1, <1>2 DEF Held, FileFirst
<1>5. Requested(m)'
  BY <1>2, <1>3, <1>4 DEF Requested
<1>. QED BY <1>1, <1>5, SettledAsks, OpNotNone DEF LiveJob, OpJob

LEMMA SendInStep ==
  ASSUME Settled, NEW j, LiveJob(j), NEW fs, NEW p, FileFirst(j, p), j.op \in ToRemote,
         FxSendFile(p), Starts(j, fs)
  PROVE  InStep'
<1>. DEFINE m == Msg("offer", p, TRUE)
<1>1. job' = j /\ posted' = posted /\ toServer' = toServer \o <<m>>
  BY DEF Starts, FxSendFile, Send
<1>2. /\ rec'.used = TRUE /\ rec'.recv = FALSE /\ rec'.path = p
      /\ rec'.fSendReady = FALSE /\ rec'.fSendAbort = FALSE
  BY DEF FxSendFile, NoRec
<1>3. m.t = "offer"
  BY DEF Msg
<1>. HIDE DEF m
<1>4. Held(FALSE)'
  BY <1>1, <1>2 DEF Held, FileFirst
<1>5. Requested(m)'
  BY <1>2, <1>3, <1>4 DEF Requested
<1>. QED BY <1>1, <1>5, SettledAsks, OpNotNone DEF LiveJob, OpJob

LEMMA StickyLive ==
  ASSUME NEW j, LiveJob(j)
  PROVE  /\ LiveJob([j EXCEPT !.flags = Sticky(@)])
         /\ [j EXCEPT !.flags = Sticky(@)].scan = j.scan /\ [j EXCEPT !.flags = Sticky(@)].op = j.op
<1>. DEFINE k == [j EXCEPT !.flags = Sticky(@)]
<1>1. IsJob(k)
  BY StickyJob DEF LiveJob, OpJob
<1>2. /\ k.op = j.op /\ k.asked = j.asked /\ k.boxes = j.boxes /\ k.cancel = j.cancel
      /\ k.scan = j.scan
  BY DEF LiveJob, OpJob, IsJob
<1>. HIDE DEF k
<1>3. LiveJob(k)
  BY <1>1, <1>2 DEF LiveJob, OpJob
<1>. QED BY <1>2, <1>3 DEF k

LEMMA WithoutKeptLive ==
  ASSUME NEW j, LiveJob(j), NEW there
  PROVE  LiveJob(WithoutKept(j, there)) /\ WithoutKept(j, there).op = j.op
<1>1. IsJob(WithoutKept(j, there))
  BY WithoutKeptJob DEF LiveJob, OpJob
<1>2. PICK s : WithoutKept(j, there) = [j EXCEPT !.scan = s] \/ WithoutKept(j, there) = j
  <2>1. CASE "NOOVERWRITE" \in j.flags
    <3>1. \E n : WithoutKept(j, there) = [j EXCEPT !.scan = SubSeq(@, n, Len(@))]
      BY <2>1 DEF WithoutKept
    <3>2. PICK n : WithoutKept(j, there) = [j EXCEPT !.scan = SubSeq(@, n, Len(@))]
      BY <3>1
    <3>3. PICK s : s = SubSeq(j.scan, n, Len(j.scan))
      OBVIOUS
    <3>4. WithoutKept(j, there) = [j EXCEPT !.scan = s]
      BY <3>2, <3>3
    <3>. QED BY <3>4
  <2>2. CASE "NOOVERWRITE" \notin j.flags
    BY <2>2 DEF WithoutKept
  <2>. QED BY <2>1, <2>2
<1>. DEFINE k == [j EXCEPT !.scan = s]
<1>3. k.op = j.op /\ k.asked = j.asked /\ k.boxes = j.boxes /\ k.cancel = j.cancel
  BY DEF LiveJob, OpJob, IsJob
<1>. HIDE DEF k
<1>4. CASE WithoutKept(j, there) = k
  BY <1>1, <1>3, <1>4 DEF LiveJob, OpJob
<1>5. CASE WithoutKept(j, there) = j
  BY <1>5
<1>. QED BY <1>2, <1>4, <1>5 DEF k

LEMMA FirstItem ==
  ASSUME NEW j, IsJob(j), j.scan # <<>>
  PROVE  /\ Head(j.scan).d \in BOOLEAN
         /\ ~Head(j.scan).d => FileFirst(j, Head(j.scan).p)
<1>1. IsItem(Head(j.scan))
  BY ItemsTail DEF IsJob
<1>. QED BY <1>1 DEF IsItem, FileFirst

LEMMA ScanSendRequestInStep ==
  ASSUME Settled, NEW j0, LiveJob(j0), j0.op \notin ToRemote, NEW fs, ScanSendRequest(j0, fs)
  PROVE  InStep'
<1>. DEFINE j == IF j0.op \in ToLocal
                 THEN WithoutKept(j0, {i \in ToSet(j0.scan) : ~i.d /\ IsFile(fs, i.p)}) ELSE j0
            i == Head(j.scan)
            once == [j EXCEPT !.flags = Sticky(@)]
<1>1. LiveJob(j) /\ j.op = j0.op
  BY WithoutKeptLive
<1>2. \/ Ends(j, fs)
      \/ Requests(j, fs, Msg("delete", Head(j.del).p, TRUE))
      \/ Requests(j, fs, ListRequest(TRUE, i.p)) /\ j.scan # <<>> /\ i.d
      \/ Requests(j, fs, Msg("delete", i.p, TRUE))
      \/ Asks(once, fs, "overwrite")
      \/ Ends(once, fs)
      \/ FxRecvFile(i.p) /\ Starts(once, fs) /\ j.scan # <<>> /\ ~i.d /\ j.op \in ToLocal
  BY DEF ScanSendRequest
<1>. HIDE DEF j
<1>3. LiveJob(once) /\ once.scan = j.scan /\ once.op = j.op
  BY <1>1, StickyLive
<1>. HIDE DEF once
<1>4. OpJob(j) /\ OpJob(once) /\ IsJob(j)
  BY <1>1, <1>3 DEF LiveJob, OpJob
<1>5. CASE Ends(j, fs) \/ Ends(once, fs)
  BY <1>4, <1>5, EndsInStep
<1>6. ASSUME NEW p, Requests(j, fs, Msg("delete", p, TRUE)) PROVE InStep'
  <2>1. PICK m : m = Msg("delete", p, TRUE)
    OBVIOUS
  <2>2. m.t = "delete" /\ Requests(j, fs, m)
    BY <2>1, <1>6 DEF Msg
  <2>. QED BY <2>2, <1>1, RequestsInStep
<1>7. CASE Requests(j, fs, ListRequest(TRUE, i.p)) /\ j.scan # <<>> /\ i.d
  <2>1. PICK m : m = Msg("dir", i.p, TRUE)
    OBVIOUS
  <2>2. m.t = "dir" /\ Requests(j, fs, m)
    BY <2>1, <1>7 DEF Msg, ListRequest
  <2>3. DirFirst(j)
    BY <1>1, <1>4, <1>7 DEF DirFirst, OpJob
  <2>. QED BY <2>2, <2>3, <1>1, RequestsInStep
<1>8. CASE Asks(once, fs, "overwrite")
  <2>1. "overwrite" \notin Ops
    BY DEF Ops, ToLocal, ToRemote
  <2>. QED BY <2>1, <1>3, <1>8, AsksInStep
<1>9. CASE FxRecvFile(i.p) /\ Starts(once, fs) /\ j.scan # <<>> /\ ~i.d /\ j.op \in ToLocal
  <2>1. FileFirst(once, i.p)
    BY <1>4, <1>9, <1>3, FirstItem DEF FileFirst
  <2>. QED BY <2>1, <1>3, <1>9, RecvInStep
<1>. HIDE DEF i
<1>. QED BY <1>2, <1>5, <1>6, <1>7, <1>8, <1>9

LEMMA DeleteSentInStep ==
  ASSUME Settled, NEW j, LiveJob(j), NEW fs, DeleteSent(j, fs)
  PROVE  InStep'
<1>1. ASSUME NEW g, Ends(j, g) PROVE InStep'
  BY <1>1, EndsInStep DEF LiveJob
<1>2. ASSUME NEW k \in DOMAIN j.del, NEW g, Asks([j EXCEPT !.del = SubSeq(@, k, Len(@))], g, "error")
      PROVE  InStep'
  <2>1. IsSeq(j.del) /\ ItemList(j.del)
    BY DEF LiveJob, OpJob, IsJob, ItemList
  <2>2. Len(j.del) \in Nat /\ DOMAIN j.del = 1 .. Len(j.del)
    BY <2>1, SeqKnown
  <2>3. k \in Nat \ {0}
    BY <2>2
  <2>4. PICK d : d = SubSeq(j.del, k, Len(j.del))
    OBVIOUS
  <2>5. ItemList(d)
    BY <2>1, <2>3, <2>4, ItemsFrom
  <2>. DEFINE l == [j EXCEPT !.del = d]
  <2>6. IsJob(l)
    BY <2>5, JobDel DEF LiveJob, OpJob
  <2>7. l.op = j.op /\ l.asked = j.asked /\ l.boxes = j.boxes /\ l.cancel = j.cancel
    BY DEF LiveJob, OpJob, IsJob
  <2>8. Asks(l, g, "error")
    BY <1>2, <2>4
  <2>. HIDE DEF l
  <2>9. LiveJob(l)
    BY <2>6, <2>7 DEF LiveJob, OpJob
  <2>10. "error" \notin Ops
    BY DEF Ops, ToLocal, ToRemote
  <2>. QED BY <2>8, <2>9, <2>10, AsksInStep
<1>. QED BY <1>1, <1>2 DEF DeleteSent

LEMMA ReadLocalDirInStep ==
  ASSUME Settled, NEW j, LiveJob(j), j.op \in ToRemote, NEW fs, Listable(fs), NEW i,
         ReadLocalDir(j, fs, i)
  PROVE  InStep'
<1>1. CASE Waits(j, fs)
  BY <1>1, WaitsInStep
<1>2. CASE /\ job' = [j EXCEPT !.scan = FoldLeft(ScanFilesAdd, @, SetToSeq(Listing(fs, i.p)))]
           /\ posted' = TRUE
           /\ local' = fs /\ UNCHANGED <<rec, toServer>>
  <2>1. PICK s : s = FoldLeft(ScanFilesAdd, j.scan, SetToSeq(Listing(fs, i.p)))
    OBVIOUS
  <2>2. job' = [j EXCEPT !.scan = s] /\ rec' = rec /\ toServer' = toServer
    BY <1>2, <2>1
  <2>3. /\ job'.op = j.op /\ job'.asked = j.asked /\ job'.boxes = j.boxes
        /\ job'.cancel = j.cancel
    BY <2>2 DEF LiveJob, OpJob, IsJob
  <2>4. BoxesOf(job') /\ ~job'.cancel /\ ~job'.asked /\ job'.boxes = {} /\ job'.op # "NONE"
    BY <2>3, OpNotNone DEF LiveJob, OpJob, BoxesOf
  <2>. QED BY <2>2, <2>3, <2>4, SettledRest
<1>. QED BY <1>1, <1>2 DEF ReadLocalDir

LEMMA ScanLocalRequestInStep ==
  ASSUME Settled, NEW j0, LiveJob(j0), j0.op \in ToRemote, NEW fs, Listable(fs),
         ScanLocalRequest(j0, fs)
  PROVE  InStep'
<1>. DEFINE j == WithoutKept(j0, {i \in ToSet(j0.scan) : ~i.d /\ \E k \in Shown(i) : ~k.d})
            i == Head(j.scan)
            once == IF Len(i.p) = 1 THEN [j EXCEPT !.flags = Sticky(@)] ELSE j
<1>1. LiveJob(j) /\ j.op = j0.op
  BY WithoutKeptLive
<1>2. \/ DeleteSent(j, fs)
      \/ Asks(once, fs, Question(i))
      \/ ReadLocalDir(once, fs, i)
      \/ SendLocalFile(once, fs, i) /\ j.scan # <<>> /\ ~i.d
  BY DEF ScanLocalRequest
<1>. HIDE DEF j
<1>3. LiveJob(once) /\ once.scan = j.scan /\ once.op = j.op
  BY <1>1, StickyLive
<1>4. Question(i) \notin Ops /\ "error" \notin Ops
  BY DEF Question, Ops, ToLocal, ToRemote
<1>. HIDE DEF once
<1>5. CASE SendLocalFile(once, fs, i) /\ j.scan # <<>> /\ ~i.d
  <2>1. IsJob(j)
    BY <1>1 DEF LiveJob, OpJob
  <2>2. FileFirst(once, i.p)
    BY <2>1, <1>3, <1>5, FirstItem DEF FileFirst
  <2>3. (FxSendFile(i.p) /\ Starts(once, fs)) \/ Asks(once, fs, "error")
    BY <1>5 DEF SendLocalFile
  <2>4. once.op \in ToRemote
    BY <1>1, <1>3
  <2>. QED BY <2>2, <2>3, <2>4, <1>3, <1>4, SendInStep, AsksInStep
<1>6. once.op \in ToRemote
  BY <1>1, <1>3
<1>. HIDE DEF i
<1>. QED BY <1>1, <1>2, <1>3, <1>4, <1>5, <1>6, DeleteSentInStep, AsksInStep, ReadLocalDirInStep

LEMMA ScanNextStepInStep ==
  ASSUME Settled, NEW j, OpJob(j), NEW fs, Listable(fs), ScanNextStep(j, fs)
  PROVE  InStep'
<1>1. CASE j.cancel
  BY <1>1, EndsInStep DEF ScanNextStep
<1>2. CASE ~j.cancel
  <2>1. LiveJob(j)
    BY <1>2 DEF LiveJob
  <2>. QED BY <1>2, <2>1, ScanLocalRequestInStep, ScanSendRequestInStep DEF ScanNextStep
<1>. QED BY <1>1, <1>2

-----------------------------------------------------------------------------
(* The dialog is told: each handler leads to a phase.                      *)

LEMMA ScanOp ==
  ASSUME NEW j, OpJob(j), NEW s, ItemList(s)
  PROVE  /\ OpJob([j EXCEPT !.scan = s]) /\ OpJob([j EXCEPT !.del = s])
         /\ [j EXCEPT !.scan = s].cancel = j.cancel /\ [j EXCEPT !.del = s].cancel = j.cancel
         /\ [j EXCEPT !.scan = s].op = j.op /\ [j EXCEPT !.del = s].op = j.op
<1>. DEFINE k == [j EXCEPT !.scan = s]
            l == [j EXCEPT !.del = s]
<1>1. IsJob(k) /\ IsJob(l)
  BY JobScan, JobDel DEF OpJob
<1>2. /\ k.op = j.op /\ k.asked = j.asked /\ k.boxes = j.boxes /\ k.cancel = j.cancel
      /\ l.op = j.op /\ l.asked = j.asked /\ l.boxes = j.boxes /\ l.cancel = j.cancel
  BY DEF OpJob, IsJob
<1>. HIDE DEF k, l
<1>3. OpJob(k) /\ OpJob(l)
  BY <1>1, <1>2 DEF OpJob
<1>. QED BY <1>2, <1>3 DEF k, l

LEMMA TailOp ==
  ASSUME NEW j, OpJob(j)
  PROVE  /\ j.scan # <<>> => /\ OpJob([j EXCEPT !.scan = Tail(@)])
                             /\ [j EXCEPT !.scan = Tail(@)].cancel = j.cancel
         /\ j.del # <<>> => /\ OpJob([j EXCEPT !.del = Tail(@)])
                            /\ [j EXCEPT !.del = Tail(@)].cancel = j.cancel
<1>1. ItemList(j.scan) /\ ItemList(j.del)
  BY DEF OpJob, IsJob
<1>2. j.scan # <<>> => ItemList(Tail(j.scan))
  BY <1>1, ItemsTail
<1>3. j.del # <<>> => ItemList(Tail(j.del))
  BY <1>1, ItemsTail
<1>. QED BY <1>2, <1>3, ScanOp

LEMMA DoneOp ==
  ASSUME NEW j, OpJob(j), j.scan # <<>>, NEW keep
  PROVE  OpJob(Done(j, keep)) /\ Done(j, keep).cancel = j.cancel
<1>1. IsJob(Done(j, keep))
  BY DoneJob DEF OpJob
<1>2. PICK s, d : s = Tail(j.scan) /\ d = IF keep THEN <<Head(j.scan)>> \o j.del ELSE j.del
  OBVIOUS
<1>3. Done(j, keep) = [j EXCEPT !.scan = s, !.del = d]
  BY <1>2 DEF Done
<1>4. /\ Done(j, keep).op = j.op /\ Done(j, keep).asked = j.asked
      /\ Done(j, keep).boxes = j.boxes /\ Done(j, keep).cancel = j.cancel
  BY <1>3 DEF OpJob, IsJob
<1>. QED BY <1>1, <1>4 DEF OpJob

LEMMA NotedNow ==
  ASSUME InStep, note.c \notin {"none", "PATH", "FINDDATA", "RECV_CHUNK", "SEND_CHUNK"}
  PROVE  Noted /\ Common
<1>1. NoNote.c = "none"
  BY DEF NoNote
<1>. QED BY <1>1 DEF InStep, Phase, Rest, Streaming, Receiving, SendingFile, Asking, Answering

LEMMA HeardSettled ==
  ASSUME Noted, ~clean, NEW c, Heard(c), panel.path, panel' = panel, ~crashed'
  PROVE  Settled
  BY DEF Noted, Told, Heard, Settled, Kept, Calm

\* The operation goes on.
LEMMA NotedOp ==
  ASSUME Typed, Noted, Common, job.op \in Ops
  PROVE  OpJob(job) /\ LiveJob(job) /\ shown /\ panel.path /\ Listable(local)
<1>1. IsJob(job) /\ ~job.asked /\ ~job.cancel
  BY OpNotNone DEF Typed, Common
<1>2. shown
  BY OpNotNone DEF Typed, NoJob
<1>3. panel.path
  BY <1>1, <1>2 DEF Common
<1>. QED BY <1>1, <1>2, <1>3, SystemListable DEF Typed, OpJob, LiveJob, Noted, Told, Calm

LEMMA HeardRest ==
  ASSUME Noted, Common, NEW c, Heard(c), Still, Others, job' = job, ~job.asked
  PROVE  InStep'
<1>1. /\ note' = NoNote /\ sending' = sending /\ toViewer' = toViewer /\ listing' = listing
      /\ clean' = clean /\ rec' = rec /\ posted' = posted /\ toServer' = toServer
      /\ shown' = shown /\ panel' = panel /\ crashed' = crashed
  BY DEF Heard, Still, Others
<1>2. Common'
  BY <1>1 DEF Common
<1>3. Kept'
  BY <1>1 DEF Kept, Held, Noted, Told
<1>4. Rest'
  BY <1>1, <1>3 DEF Rest, Noted, Told, Calm, BoxesOf
<1>. QED BY <1>2, <1>4 DEF InStep, Phase

LEMMA FilexferDrivesInStep ==
  ASSUME Typed, InStep, FilexferDrives
  PROVE  InStep'
<1>1. note.c = "DRIVES"
  BY DEF FilexferDrives, Heard
<1>2. Noted /\ Common
  BY <1>1, NotedNow
<1>3. ~shown /\ ~clean
  BY <1>1, <1>2 DEF Noted, Told, Fails
<1>. DEFINE m == Msg("dir", <<>>, TRUE)
<1>4. /\ shown' = TRUE /\ panel' = NoPanel
      /\ job' = [NoJob EXCEPT !.enabled = FALSE, !.asked = TRUE]
      /\ toServer' = toServer \o <<m>>
      /\ rec' = rec /\ posted' = posted /\ crashed' = crashed
  BY <1>3 DEF FilexferDrives, Send, ListRequest
<1>5. /\ note' = NoNote /\ sending' = sending /\ toViewer' = toViewer /\ listing' = listing
      /\ clean' = clean
  BY DEF FilexferDrives, Heard
<1>6. job'.asked = TRUE /\ job'.op = "NONE" /\ job'.scan = <<>> /\ job'.cancel = FALSE /\ job'.boxes = {}
  BY <1>4 DEF NoJob
<1>7. Common'
  BY <1>2, <1>4, <1>6 DEF Common
<1>8. m.t = "dir" /\ m.p = <<>>
  BY DEF Msg
<1>. HIDE DEF m
<1>9. ~rec.used
  BY <1>2, <1>3 DEF Noted, Told, Kept
<1>10. Requested(m)'
  BY <1>4, <1>6, <1>8, <1>9 DEF Requested, Listed
<1>11. Awaited(m)'
  <2>1. \E s : Unanswered(s) /\ toServer' = s \o <<m>>
    BY <1>2, <1>4 DEF Noted, Told
  <2>. QED BY <2>1 DEF Awaited
<1>12. Asking(m)'
  BY <1>2, <1>3, <1>4, <1>5, <1>6, <1>10, <1>11 DEF Asking, Noted, Told, Calm
<1>. QED BY <1>7, <1>12 DEF InStep, Phase

LEMMA PermissionDeniedInStep ==
  ASSUME Typed, InStep, PermissionDenied
  PROVE  InStep'
<1>1. note.c = "PERMISSION_DENIED" /\ Heard({"PERMISSION_DENIED"}) /\ Still /\ Others /\ job' = job
  BY DEF PermissionDenied, Heard
<1>2. Noted /\ Common
  BY <1>1, NotedNow
<1>3. ~shown
  BY <1>1, <1>2 DEF Noted, Told, Fails
<1>4. ~job.asked
  BY <1>3 DEF Typed, NoJob
<1>. QED BY <1>1, <1>2, <1>4, HeardRest

LEMMA NobodyHearsNever ==
  ASSUME Typed, InStep
  PROVE  ~NobodyHears
<1>. SUFFICES ASSUME NobodyHears PROVE FALSE
  OBVIOUS
<1>1. ~shown /\ note.c \in Notes \ {"DRIVES", "PERMISSION_DENIED"}
  BY DEF NobodyHears, Heard
<1>2. job.asked = FALSE /\ job.op = "NONE" /\ job.scan = <<>>
  BY <1>1 DEF Typed, NoJob
<1>3. note.c # "none"
  BY <1>1 DEF Notes
<1>4. NoNote.c = "none"
  BY DEF NoNote
<1>5. job.op \notin Ops /\ job.op \notin ToLocal /\ job.op \notin ToRemote
  BY <1>2, OpNotNone
<1>6. ~Listed
  BY <1>2, <1>5 DEF Listed, DirFirst
<1>7. CASE note.c \notin {"PATH", "FINDDATA", "RECV_CHUNK", "SEND_CHUNK"}
  <2>1. Noted
    BY <1>3, <1>7, NotedNow
  <2>. QED BY <2>1, <1>1, <1>2, <1>5, <1>6, Zenon DEF Noted, Told
<1>8. CASE note.c \in {"PATH", "FINDDATA", "RECV_CHUNK", "SEND_CHUNK"}
  <2>1. Streaming \/ Receiving \/ SendingFile
    BY <1>4, <1>8 DEF InStep, Phase, Rest, Noted, Told, Asking, Answering, Fails
  <2>2. ~Streaming
    BY <1>6, Zenon DEF Streaming
  <2>3. ~Receiving /\ ~SendingFile
    BY <1>2, Zenon DEF Receiving, SendingFile, Held
  <2>. QED BY <2>1, <2>2, <2>3
<1>. QED BY <1>7, <1>8

LEMMA StreamNow ==
  ASSUME InStep, note.c \in {"PATH", "FINDDATA"}
  PROVE  Streaming /\ Common
<1>1. NoNote.c = "none"
  BY DEF NoNote
<1>. QED BY <1>1 DEF InStep, Phase, Rest, Noted, Told, Receiving, SendingFile, Asking, Answering, Fails

\* A directory at the head of the list stays there.
LEMMA AddKeepsFirst ==
  ASSUME NEW s, IsSeq(s), s # <<>>, Head(s).d, NEW i
  PROVE  ScanFilesAdd(s, i) # <<>> /\ Head(ScanFilesAdd(s, i)) = Head(s)
<1>1. PICK S : s \in Seq(S)
  BY DEF IsSeq
<1>. DEFINE T == S \union {i}
<1>2. s \in Seq(T) /\ i \in T
  BY <1>1
<1>. HIDE DEF T
<1>3. CASE ~i.d
  <2>1. ScanFilesAdd(s, i) = Append(s, i)
    BY <1>3 DEF ScanFilesAdd
  <2>2. Append(s, i) # <<>> /\ Head(Append(s, i)) = Head(s)
    BY <1>2
  <2>. QED BY <2>1, <2>2
<1>4. CASE i.d
  <2>1. PICK a, b : a = SubSeq(s, 1, 1) /\ b = SubSeq(s, 2, Len(s))
    OBVIOUS
  <2>2. ScanFilesAdd(s, i) = (a \o <<i>>) \o b
    BY <1>4, <2>1 DEF ScanFilesAdd, InsertAt
  <2>3. a \in Seq(T) /\ b \in Seq(T) /\ Len(a) = 1 /\ a[1] = Head(s)
    BY <1>2, <2>1
  <2>4. PICK c : c = a \o <<i>>
    OBVIOUS
  <2>5. IsSeq(c) /\ Len(c) = 2 /\ c[1] = Head(s)
    <3>1. IsSeq(a) /\ IsSeq(<<i>>) /\ Len(<<i>>) = 1
      BY <2>3, SeqOne DEF IsSeq
    <3>. QED BY <2>3, <2>4, <3>1, SeqConcat
  <2>6. IsSeq(c \o b) /\ Len(c \o b) = 2 + Len(b) /\ Len(b) \in Nat /\ (c \o b)[1] = Head(s)
    <3>1. IsSeq(b) /\ Len(b) \in Nat
      BY <2>3 DEF IsSeq
    <3>0. IsSeq(c)
      BY <2>5
    <3>4. IsSeq(b)
      BY <3>1
    <3>2. /\ IsSeq(c \o b) /\ Len(c \o b) = Len(c) + Len(b)
          /\ \A k \in 1 .. Len(c) : (c \o b)[k] = c[k]
      BY <3>0, <3>4, SeqConcat
    <3>3. 1 \in 1 .. Len(c)
      BY <2>5
    <3>. QED BY <2>5, <3>1, <3>2, <3>3
  <2>7. c \o b # <<>> /\ Head(c \o b) = (c \o b)[1]
    BY <2>6, SeqKnown
  <2>. QED BY <2>2, <2>4, <2>6, <2>7
<1>. QED BY <1>3, <1>4

\* The listing goes on.
LEMMA StreamOn ==
  ASSUME Streaming, Common, NEW c, Heard(c), Still, shown' = shown, crashed' = crashed,
         panel'.path, job'.op = job.op, job'.asked = job.asked, job'.boxes = job.boxes,
         job'.cancel = job.cancel, DirFirst(job) => DirFirst(job'),
         job.op = "NONE" => job'.scan = <<>>
  PROVE  InStep'
<1>1. /\ note' = NoNote /\ sending' = sending /\ toViewer' = toViewer /\ listing' = listing
      /\ clean' = clean /\ rec' = rec /\ posted' = posted /\ toServer' = toServer
  BY DEF Heard, Still
<1>2. Common'
  BY <1>1 DEF Common
<1>3. Listed'
  BY DEF Streaming, Listed
<1>4. Streaming'
  BY <1>1, <1>3 DEF Streaming, Calm
<1>. QED BY <1>2, <1>4 DEF InStep, Phase

LEMMA FilexferPathInStep ==
  ASSUME Typed, InStep, FilexferPath
  PROVE  InStep'
<1>1. shown /\ Heard({"PATH"}) /\ note.c = "PATH" /\ Still /\ shown' = shown /\ crashed' = crashed
  BY DEF FilexferPath, Heard
<1>2. Streaming /\ Common
  BY <1>1, StreamNow
<1>3. CASE job.scan # <<>>
  <2>1. job' = job /\ panel' = panel
    BY <1>3 DEF FilexferPath
  <2>2. panel.path
    BY <1>1, <1>2, <1>3 DEF Common
  <2>3. job.op # "NONE"
    BY <1>2, <1>3 DEF Common
  <2>. QED BY <1>1, <1>2, <2>1, <2>2, <2>3, StreamOn, Zenon
<1>4. CASE job.scan = <<>>
  <2>1. job' = [job EXCEPT !.enabled = TRUE] /\ panel' = [path |-> TRUE, items |-> {}]
    BY <1>4 DEF FilexferPath
  <2>2. /\ job'.op = job.op /\ job'.asked = job.asked /\ job'.boxes = job.boxes
        /\ job'.cancel = job.cancel /\ job'.scan = job.scan /\ panel'.path
    BY <2>1 DEF Typed, IsJob
  <2>3. ~DirFirst(job)
    BY <1>4 DEF DirFirst
  <2>. QED BY <1>1, <1>2, <1>4, <2>2, <2>3, StreamOn, Zenon
<1>. QED BY <1>3, <1>4

LEMMA FilexferFindDataInStep ==
  ASSUME Typed, InStep, FilexferFindData
  PROVE  InStep'
<1>1. /\ shown /\ Heard({"FINDDATA"}) /\ note.c = "FINDDATA" /\ Still /\ shown' = shown
      /\ crashed' = crashed
  BY DEF FilexferFindData, Heard
<1>2. Streaming /\ Common
  BY <1>1, StreamNow
<1>3. panel.path
  <2>1. NoNote.c = "none"
    BY DEF NoNote
  <2>. QED BY <1>1, <1>2, <2>1 DEF Streaming
<1>4. CASE job.scan = <<>>
  <2>1. job' = job /\ panel' = [panel EXCEPT !.items = @ \union {note.i}]
    BY <1>4 DEF FilexferFindData
  <2>2. panel'.path
    BY <2>1, <1>3 DEF Typed
  <2>. QED BY <1>1, <1>2, <1>4, <2>1, <2>2, StreamOn, Zenon
<1>5. CASE job.scan # <<>> /\ Head(job.scan).d
  <2>1. PICK i : job' = [job EXCEPT !.scan = ScanFilesAdd(@, i)] /\ panel' = panel
    BY <1>5 DEF FilexferFindData
  <2>2. PICK s : s = ScanFilesAdd(job.scan, i)
    OBVIOUS
  <2>3. IsSeq(job.scan)
    BY DEF Typed, IsJob, ItemList
  <2>4. s # <<>> /\ Head(s) = Head(job.scan)
    BY <1>5, <2>2, <2>3, AddKeepsFirst
  <2>5. job' = [job EXCEPT !.scan = s]
    BY <2>1, <2>2
  <2>6. /\ job'.op = job.op /\ job'.asked = job.asked /\ job'.boxes = job.boxes
        /\ job'.cancel = job.cancel /\ job'.scan = s
    BY <2>5 DEF Typed, IsJob
  <2>7. DirFirst(job) => DirFirst(job')
    BY <2>4, <2>6 DEF DirFirst
  <2>8. job.op # "NONE"
    BY <1>2, <1>5 DEF Common
  <2>. QED BY <1>1, <1>2, <1>3, <2>1, <2>6, <2>7, <2>8, StreamOn, Zenon
<1>6. CASE job.scan # <<>> /\ ~Head(job.scan).d
  <2>1. job' = job /\ panel' = panel
    BY <1>6 DEF FilexferFindData
  <2>2. job.op # "NONE"
    BY <1>2, <1>6 DEF Common
  <2>. QED BY <1>1, <1>2, <1>3, <2>1, <2>2, StreamOn, Zenon
<1>. QED BY <1>4, <1>5, <1>6

LEMMA FilexferEndOfListInStep ==
  ASSUME Typed, InStep, FilexferEndOfList
  PROVE  InStep'
<1>1. shown /\ Heard({"END_OF_LIST"}) /\ note.c = "END_OF_LIST" /\ Others
  BY DEF FilexferEndOfList, Heard
<1>2. Noted /\ Common
  BY <1>1, NotedNow
<1>3. Listed /\ panel.path /\ ~clean
  BY <1>1, <1>2 DEF Noted, Told, Fails
<1>4. Settled
  <2>1. panel' = panel /\ ~crashed'
    BY <1>1, <1>2 DEF Others, Common
  <2>. QED BY <1>1, <1>2, <1>3, <2>1, HeardSettled
<1>5. CASE job.scan = <<>>
  <2>1. Waits([job EXCEPT !.asked = FALSE, !.enabled = TRUE], local)
    BY <1>5 DEF FilexferEndOfList
  <2>2. /\ job' = [job EXCEPT !.asked = FALSE, !.enabled = TRUE]
        /\ rec' = rec /\ posted' = posted /\ toServer' = toServer
    BY <2>1 DEF Waits
  <2>3. /\ job'.op = job.op /\ job'.asked = FALSE /\ job'.boxes = job.boxes
        /\ job'.cancel = job.cancel /\ job'.scan = job.scan
    BY <2>2 DEF Typed, IsJob
  <2>4. BoxesOf(job') /\ job'.boxes = {}
    BY <1>2, <2>3 DEF BoxesOf, Noted, Told, Calm
  <2>5. ~posted'
    BY <2>2, <1>4 DEF Settled
  <2>. QED BY <1>2, <1>4, <1>5, <2>2, <2>3, <2>4, <2>5, SettledRest DEF Common
<1>6. CASE job.scan # <<>>
  <2>1. job.op # "NONE" /\ ~job.asked
    BY <1>2, <1>6 DEF Common
  <2>2. DirFirst(job)
    BY <1>3, <2>1 DEF Listed
  <2>3. job.op \in Ops /\ Head(job.scan).d
    BY <2>2 DEF DirFirst
  <2>4. OpJob(job) /\ LiveJob(job) /\ Listable(local)
    BY <1>2, <2>3, NotedOp
  <2>5. ListedDir(job)
    BY <1>6, <2>3 DEF FilexferEndOfList
  <2>. DEFINE p == Head(job.scan).p
              fs == IF job.op # "RDELETE" /\ p \notin DOMAIN local /\ IsFolder(local, Front(p))
                    THEN Put(local, p, Folder) ELSE local
  <2>6. Listable(fs)
    BY <2>4, PutListable
  <2>7. ScanNextStep(Done(job, job.op # "RLCOPY"), fs) \/ Asks(job, fs, "fatal")
    BY <2>5 DEF ListedDir
  <2>. HIDE DEF fs
  <2>8. PICK k : k = Done(job, job.op # "RLCOPY")
    OBVIOUS
  <2>9. OpJob(k)
    BY <2>4, <2>8, <1>6, DoneOp
  <2>10. CASE ScanNextStep(k, fs)
    BY <1>4, <2>6, <2>9, <2>10, ScanNextStepInStep
  <2>11. CASE Asks(job, fs, "fatal")
    <3>1. "fatal" \notin Ops
      BY DEF Ops, ToLocal, ToRemote
    <3>. QED BY <1>4, <2>4, <2>11, <3>1, AsksInStep
  <2>. QED BY <2>7, <2>8, <2>10, <2>11
<1>. QED BY <1>5, <1>6

LEMMA FilexferFileChunkInStep ==
  ASSUME Typed, InStep, FilexferFileChunk
  PROVE  InStep'
<1>1. /\ Heard({"RECV_CHUNK", "SEND_CHUNK"}) /\ note.c \in {"RECV_CHUNK", "SEND_CHUNK"}
      /\ Others
  BY DEF FilexferFileChunk, Heard
<1>2. Common /\ (Receiving \/ SendingFile)
  <2>1. NoNote.c = "none"
    BY DEF NoNote
  <2>. QED BY <1>1, <2>1 DEF InStep, Phase, Rest, Noted, Told, Streaming, Asking, Answering, Fails
<1>3. job' = job /\ Still
  BY <1>2 DEF FilexferFileChunk, Common
<1>4. /\ note' = NoNote /\ sending' = sending /\ toViewer' = toViewer /\ listing' = listing
      /\ clean' = clean /\ rec' = rec /\ posted' = posted /\ toServer' = toServer
      /\ shown' = shown /\ panel' = panel /\ crashed' = crashed /\ local' = local
      /\ fd' = fd /\ remote' = remote
  BY <1>1, <1>3 DEF Heard, Still, Others
<1>5. Common'
  BY <1>2, <1>3, <1>4 DEF Common
<1>6. Receiving \/ SendingFile => Receiving' \/ SendingFile'
  <2>1. CASE Receiving
    <3>1. Held(TRUE)'
      BY <2>1, <1>3, <1>4 DEF Held, Receiving
    <3>2. Arrives(local[rec.path], remote[rec.path])'
      BY <2>1, <1>3, <1>4 DEF Receiving, Arrives, Coming
    <3>. QED BY <2>1, <1>3, <1>4, <3>1, <3>2 DEF Receiving, Calm
  <2>2. CASE SendingFile
    BY <2>2, <1>3, <1>4 DEF SendingFile, Held, Calm
  <2>. QED BY <2>1, <2>2
<1>. QED BY <1>2, <1>5, <1>6 DEF InStep, Phase

LEMMA FilexferEndOfFileInStep ==
  ASSUME Typed, InStep, FilexferEndOfFile
  PROVE  InStep'
<1>1. /\ Heard({"RECV_END_OF_FILE", "SEND_END_OF_FILE"}) /\ Others
      /\ note.c \in {"RECV_END_OF_FILE", "SEND_END_OF_FILE"}
  BY DEF FilexferEndOfFile, Heard
<1>2. Noted /\ Common
  BY <1>1, NotedNow
<1>3. job.op \in Ops /\ job.scan # <<>> /\ ~clean
  <2>1. job.op \in ToLocal \union ToRemote /\ job.scan # <<>> /\ ~clean
    BY <1>1, <1>2, Zenon DEF Noted, Told, Fails
  <2>. QED BY <2>1, OpNotNone
<1>4. OpJob(job) /\ Listable(local) /\ panel.path
  BY <1>2, <1>3, NotedOp
<1>5. panel' = panel /\ ~crashed'
  BY <1>1, <1>2 DEF Others, Common
<1>6. Settled
  BY <1>1, <1>2, <1>3, <1>4, <1>5, HeardSettled
<1>7. PICK k : k = Done(job, job.op \in Moves)
  OBVIOUS
<1>8. OpJob(k)
  BY <1>3, <1>4, <1>7, DoneOp
<1>9. ScanNextStep(k, local)
  BY <1>3, <1>7 DEF FilexferEndOfFile
<1>. QED BY <1>4, <1>6, <1>8, <1>9, ScanNextStepInStep

LEMMA FilexferFailInStep ==
  ASSUME Typed, InStep, FilexferFail
  PROVE  InStep'
<1>1. /\ Heard({"RECV_CREATE_FAIL", "RECV_WRITE_FAIL", "RECV_READ_FAIL",
                "SEND_WRITE_FAIL", "SEND_READ_FAIL"})
      /\ note.c \in {"RECV_CREATE_FAIL", "RECV_WRITE_FAIL", "RECV_READ_FAIL",
                     "SEND_WRITE_FAIL", "SEND_READ_FAIL"}
      /\ Others
  BY DEF FilexferFail, Heard
<1>2. Noted /\ Common
  BY <1>1, NotedNow
<1>3. job.scan # <<>>
  BY <1>1, <1>2 DEF Noted, Told
<1>4. job.op # "NONE" /\ ~job.asked
  BY <1>2, <1>3 DEF Common
<1>5. Asks(job, local, "error")
  BY <1>3 DEF FilexferFail
<1>6. /\ note' = NoNote /\ sending' = sending /\ toViewer' = toViewer /\ listing' = listing
      /\ clean' = clean /\ rec' = rec /\ posted' = posted /\ toServer' = toServer
      /\ shown' = shown /\ panel' = panel /\ crashed' = crashed
      /\ job' = [job EXCEPT !.boxes = @ \union {"error"}]
  BY <1>1, <1>5 DEF Heard, Asks, Waits, Others
<1>7. /\ job'.op = job.op /\ job'.asked = job.asked /\ job'.cancel = job.cancel
      /\ job'.scan = job.scan /\ job'.boxes = {"error"}
  <2>1. job'.boxes = job.boxes \union {"error"}
    BY <1>6 DEF Typed, IsJob
  <2>. QED BY <2>1, <1>2, <1>6 DEF Typed, IsJob, Noted, Told, Calm
<1>8. BoxesOf(job')
  <2>1. "error" \notin Ops
    BY DEF Ops, ToLocal, ToRemote
  <2>. QED BY <2>1, <1>4, <1>7 DEF BoxesOf
<1>9. Common'
  BY <1>2, <1>6, <1>7 DEF Common
<1>10. Kept'
  BY <1>2, <1>6, <1>7 DEF Noted, Told, Kept, Held
<1>11. Rest'
  BY <1>2, <1>4, <1>6, <1>7, <1>8, <1>10 DEF Rest, Noted, Told, Calm
<1>. QED BY <1>9, <1>11, Zenon DEF InStep, Phase

LEMMA FilexferDeleteResultInStep ==
  ASSUME Typed, InStep, FilexferDeleteResult
  PROVE  InStep'
<1>. DEFINE j == IF job.op = "RDELETE" /\ job.scan # <<>> THEN [job EXCEPT !.scan = Tail(@)]
                 ELSE IF job.del # <<>> THEN [job EXCEPT !.del = Tail(@)]
                 ELSE job
<1>1. Heard({"DELETE_RES"}) /\ note.c = "DELETE_RES" /\ Others
  BY DEF FilexferDeleteResult, Heard
<1>2. Noted /\ Common
  BY <1>1, NotedNow
<1>3. job.op \in Ops /\ ~clean
  BY <1>1, <1>2, Zenon DEF Noted, Told, Fails
<1>4. OpJob(job) /\ LiveJob(job) /\ Listable(local) /\ panel.path
  BY <1>2, <1>3, NotedOp
<1>5. panel' = panel /\ ~crashed'
  BY <1>1, <1>2 DEF Others, Common
<1>6. Settled
  BY <1>1, <1>2, <1>3, <1>4, <1>5, HeardSettled
<1>7. OpJob(j) /\ j.cancel = job.cancel
  BY <1>4, TailOp
<1>8. \/ UNCHANGED job /\ Still
      \/ ScanNextStep(j, local)
      \/ Asks(j, local, "fatal")
  BY DEF FilexferDeleteResult
<1>. HIDE DEF j
<1>9. CASE UNCHANGED job /\ Still
  BY <1>1, <1>2, <1>4, <1>9, HeardRest DEF OpJob
<1>10. CASE ScanNextStep(j, local)
  BY <1>4, <1>6, <1>7, <1>10, ScanNextStepInStep
<1>11. CASE Asks(j, local, "fatal")
  <2>1. "fatal" \notin Ops
    BY DEF Ops, ToLocal, ToRemote
  <2>2. LiveJob(j)
    BY <1>4, <1>7 DEF LiveJob
  <2>. QED BY <1>6, <1>11, <2>1, <2>2, AsksInStep
<1>. QED BY <1>8, <1>9, <1>10, <1>11

LEMMA FilexferMkDirResultInStep ==
  ASSUME Typed, InStep, FilexferMkDirResult
  PROVE  InStep'
<1>1. /\ Heard({"MKDIR_RES"}) /\ note.c = "MKDIR_RES" /\ panel' = panel
  BY DEF FilexferMkDirResult, Heard
<1>2. Noted /\ Common
  BY <1>1, NotedNow
<1>3. job.op \in ToRemote /\ ~clean
  BY <1>1, <1>2, Zenon DEF Noted, Told, Fails
<1>4. OpJob(job) /\ Listable(local) /\ panel.path
  BY <1>2, <1>3, OpNotNone, NotedOp
<1>5. ScanNextStep(job, local) /\ ~crashed'
  BY <1>2, <1>3 DEF FilexferMkDirResult, Common
<1>6. Settled
  BY <1>1, <1>2, <1>3, <1>4, <1>5, HeardSettled
<1>. QED BY <1>4, <1>5, <1>6, ScanNextStepInStep

LEMMA WmEndOfLocalListInStep ==
  ASSUME Typed, InStep, WmEndOfLocalList
  PROVE  InStep'
<1>1. Common /\ Rest
  <2>1. posted = TRUE
    BY DEF WmEndOfLocalList, Typed
  <2>. QED BY <2>1 DEF InStep, Phase, Streaming, Noted, Told, Receiving, SendingFile, Asking,
                       Answering, Calm
<1>2. /\ posted /\ posted' = FALSE /\ note' = note /\ sending' = sending /\ toViewer' = toViewer
      /\ listing' = listing /\ clean' = clean /\ rec' = rec
      /\ shown' = shown /\ panel' = panel /\ crashed' = crashed
  BY DEF WmEndOfLocalList, Others
<1>3. /\ ~clean /\ job.boxes = {} /\ job.op \in ToRemote /\ ~job.asked /\ ~job.cancel
      /\ ~rec.used /\ Unanswered(toServer)
  BY <1>1, <1>2 DEF Rest, Kept, Common
<1>4. job.op \in Ops /\ OpJob(job)
  BY <1>3, OpNotNone DEF OpJob, Typed
<1>5. CASE job.scan # <<>> /\ Head(job.scan).d
  <2>1. PICK m : m = Msg("mkdir", Head(job.scan).p, TRUE)
    OBVIOUS
  <2>2. PICK k : k = Done(job, job.op # "LRCOPY")
    OBVIOUS
  <2>3. toServer' = toServer \o <<m>> /\ job' = k
    BY <1>5, <2>1, <2>2 DEF WmEndOfLocalList, Send
  <2>4. OpJob(k) /\ k.cancel = job.cancel
    BY <1>4, <1>5, <2>2, DoneOp
  <2>5. k.op = job.op
    <3>1. \E s, d : k = [job EXCEPT !.scan = s, !.del = d]
      BY <2>2 DEF Done
    <3>2. PICK s, d : k = [job EXCEPT !.scan = s, !.del = d]
      BY <3>1
    <3>. QED BY <3>2 DEF OpJob, IsJob, Typed
  <2>6. Common'
    BY <1>1, <1>2, <1>3, <2>3, <2>4, OpNotNone DEF Common, OpJob
  <2>7. Awaited(m)'
    <3>1. \E s : Unanswered(s) /\ toServer' = s \o <<m>>
      BY <1>3, <2>3
    <3>. QED BY <3>1 DEF Awaited
  <2>8. m.t = "mkdir"
    BY <2>1 DEF Msg
  <2>9. Requested(m)'
    BY <1>2, <1>3, <2>3, <2>5, <2>8 DEF Requested
  <2>10. Asking(m)'
    BY <1>1, <1>2, <1>3, <2>3, <2>4, <2>7, <2>9 DEF Asking, Calm, Rest, OpJob
  <2>. QED BY <2>6, <2>10, Zenon DEF InStep, Phase
<1>6. CASE ~ (job.scan # <<>> /\ Head(job.scan).d)
  <2>1. job' = CleanJob(job) /\ toServer' = toServer
    BY <1>6 DEF WmEndOfLocalList
  <2>2. /\ job'.op = "NONE" /\ job'.scan = <<>> /\ job'.cancel = FALSE /\ job'.boxes = {}
        /\ ~job'.asked
    BY <2>1, <1>3, <1>4, CleanJobBlank DEF OpJob
  <2>3. Common'
    BY <1>1, <1>2, <1>3, <2>2 DEF Common
  <2>4. Rest'
    BY <1>1, <1>2, <1>3, <2>1, <2>2 DEF Rest, Kept, BoxesOf
  <2>. QED BY <2>3, <2>4, Zenon DEF InStep, Phase
<1>. QED BY <1>5, <1>6

-----------------------------------------------------------------------------
(* The user, who is patient: nothing is under way when he does something.  *)

LEMMA IdleRest ==
  ASSUME Typed, InStep, job.op = "NONE", ~job.asked, shown \/ commands = 0
  PROVE  Rest /\ Common
<1>1. /\ job.op \notin Ops /\ job.op \notin ToLocal /\ job.op \notin ToRemote
      /\ job.scan = <<>> /\ Common
  BY OpNotNone DEF InStep, Common
<1>2. ~Listed
  BY <1>1 DEF Listed, DirFirst
<1>3. ~Held(TRUE) /\ ~Held(FALSE)
  BY <1>1 DEF Held
<1>4. ~Streaming
  BY <1>2, Zenon DEF Streaming
<1>5. ~Noted
  BY <1>1, <1>2, Zenon DEF Noted, Told
<1>6. ~Receiving /\ ~SendingFile
  BY <1>3, Zenon DEF Receiving, SendingFile
<1>7. ASSUME NEW m PROVE ~Asking(m) /\ ~Answering(m)
  BY <1>1, <1>2, <1>3, Zenon DEF Asking, Answering, Requested, Replied
<1>. QED BY <1>1, <1>4, <1>5, <1>6, <1>7, Zenon DEF InStep, Phase

\* There is a box only at rest.
LEMMA BoxRest ==
  ASSUME InStep, job.boxes # {}
  PROVE  Rest /\ Common
<1>1. ~Calm
  BY DEF Calm
<1>. QED BY <1>1, Zenon DEF InStep, Phase, Streaming, Noted, Told, Receiving, SendingFile, Asking, Answering

LEMMA RestSettled ==
  ASSUME Orderly, Rest, Common, ByUser, panel' = panel, panel.path, posted = FALSE
  PROVE  Settled /\ ~clean
<1>1. ~clean
  BY DEF Orderly, ByUser
<1>2. /\ note' = note /\ toViewer' = toViewer /\ sending' = sending /\ listing' = listing
      /\ clean' = clean /\ crashed' = crashed
  BY DEF ByUser
<1>. QED BY <1>1, <1>2 DEF Rest, Common, Settled, Kept

LEMMA OpenFileTransferInStep ==
  ASSUME Orderly, Typed, InStep, OpenFileTransfer
  PROVE  InStep'
<1>1. /\ ByUser /\ ~shown /\ commands = 0 /\ commands' = commands + 1
      /\ rec' = rec /\ shown' = shown /\ job' = job /\ panel' = panel /\ posted' = posted
      /\ Send(<<ListRequest(FALSE, <<>>)>>)
  BY DEF OpenFileTransfer, Orderly
<1>2. job = NoJob /\ posted = FALSE
  BY <1>1 DEF Typed
<1>3. job.op = "NONE" /\ ~job.asked /\ job.boxes = {}
  BY <1>2 DEF NoJob
<1>4. Rest /\ Common
  BY <1>1, <1>3, IdleRest
<1>5. PICK m : m = Msg("abort", <<>>, TRUE)
  OBVIOUS
<1>6. m.t = "abort" /\ m.ok /\ toServer' = toServer \o <<m>>
  BY <1>1, <1>5 DEF Msg, Send, ListRequest
<1>7. ~clean /\ /\ note' = note /\ toViewer' = toViewer /\ sending' = sending
                /\ listing' = listing /\ clean' = clean /\ crashed' = crashed
  BY <1>1 DEF ByUser, Orderly
<1>8. Common'
  BY <1>1, <1>4, <1>7 DEF Common
<1>9. Awaited(m)'
  <2>1. \E s : Unanswered(s) /\ toServer' = s \o <<m>>
    BY <1>4, <1>6 DEF Rest
  <2>. QED BY <2>1 DEF Awaited
<1>10. commands' # 0
  BY <1>1
<1>11. ~rec.used
  BY <1>4, <1>7 DEF Rest, Kept
<1>12. Requested(m)'
  BY <1>1, <1>6, <1>10, <1>11 DEF Requested
<1>13. Asking(m)'
  BY <1>1, <1>2, <1>3, <1>4, <1>7, <1>9, <1>12 DEF Asking, Calm, Rest
<1>. QED BY <1>8, <1>13, Zenon DEF InStep, Phase

\* A command comes when nothing is under way.
LEMMA CommandSettled ==
  ASSUME Orderly, Typed, InStep, Command, panel' = panel
  PROVE  /\ Settled /\ Common /\ panel.path /\ posted = FALSE
         /\ job.op = "NONE" /\ job.scan = <<>> /\ ~job.asked /\ job.boxes = {}
<1>1. ByUser /\ shown /\ Idle
  BY DEF Command, Orderly
<1>2. job.op = "NONE" /\ ~job.asked /\ job.boxes = {}
  BY <1>1 DEF Idle
<1>3. Rest /\ Common
  BY <1>1, <1>2, IdleRest
<1>4. job.scan = <<>> /\ panel.path
  BY <1>1, <1>2, <1>3 DEF Common
<1>5. posted = FALSE
  BY <1>2, <1>3, OpNotNone DEF Rest, Typed
<1>. QED BY <1>1, <1>2, <1>3, <1>4, <1>5, RestSettled

LEMMA RefreshInStep ==
  ASSUME Orderly, Typed, InStep, Refresh
  PROVE  InStep'
<1>1. /\ Command /\ rec' = rec /\ panel' = panel /\ posted' = posted
  BY DEF Refresh
<1>2. /\ Settled /\ Common /\ panel.path /\ posted = FALSE
      /\ job.op = "NONE" /\ job.scan = <<>> /\ ~job.asked /\ job.boxes = {}
  BY <1>1, CommandSettled
<1>3. PICK m : m = Msg("dir", <<>>, TRUE)
  OBVIOUS
<1>4. m.t = "dir" /\ m.p = <<>> /\ toServer' = toServer \o <<m>>
  BY <1>2, <1>3 DEF Refresh, Msg, Send, ListRequest
<1>5. job' = [job EXCEPT !.enabled = FALSE, !.asked = TRUE]
  BY <1>2 DEF Refresh
<1>6. /\ job'.op = job.op /\ job'.asked = TRUE /\ job'.boxes = job.boxes
      /\ job'.cancel = job.cancel /\ job'.scan = job.scan
  BY <1>5 DEF Typed, IsJob
<1>7. Requested(m)'
  BY <1>1, <1>2, <1>4, <1>6 DEF Requested, Listed, Settled
<1>. QED BY <1>1, <1>2, <1>4, <1>6, <1>7, SettledAsks DEF Common

LEMMA StartScanInStep ==
  ASSUME Typed, Settled, NEW j, IsJob(j), ~j.asked, j.boxes = {}, NEW o \in Ops,
         NEW S \in SUBSET Selectable(o), StartScan(j, o, S)
  PROVE  InStep'
<1>. DEFINE s == FoldLeft(ScanFilesAdd, <<>>, SetToSeq(S))
            c == CleanJob(j)
            k == [c EXCEPT !.op = o, !.enabled = FALSE, !.scan = s]
<1>1. ItemList(s)
  <2>1. PICK scan : scan = <<>>
    OBVIOUS
  <2>2. ItemList(scan)
    BY <2>1, ItemsNone
  <2>3. ItemList(FoldLeft(ScanFilesAdd, scan, SetToSeq(S)))
    BY <2>2, SelectedItems, ItemsAdded
  <2>. QED BY <2>1, <2>3
<1>2. IsJob(c) /\ c.asked = j.asked /\ c.boxes = j.boxes
  BY CleanJobTyped, CleanJobBlank
<1>3. ScanNextStep(k, local)
  BY DEF StartScan
<1>4. IsJob(k)
  <2>. HIDE DEF s, c
  <2>. QED BY <1>1, <1>2, JobStarted
<1>5. k.op = o /\ k.asked = c.asked /\ k.boxes = c.boxes
  <2>. HIDE DEF s, c
  <2>. QED BY <1>2 DEF IsJob
<1>. HIDE DEF k
<1>6. OpJob(k)
  BY <1>2, <1>4, <1>5 DEF OpJob
<1>7. Listable(local)
  BY SystemListable DEF Typed
<1>. QED BY <1>3, <1>6, <1>7, ScanNextStepInStep

LEMMA CopyInStep ==
  ASSUME Orderly, Typed, InStep, Copy
  PROVE  InStep'
<1>1. Command /\ panel' = panel
  BY DEF Copy
<1>2. Settled /\ ~job.asked /\ job.boxes = {}
  BY <1>1, CommandSettled
<1>3. PICK o \in {"RLCOPY", "LRCOPY"} :
        \E S \in SUBSET Selectable(o) \ {{}} : StartScan(job, o, S)
  BY DEF Copy
<1>4. PICK S \in SUBSET Selectable(o) : StartScan(job, o, S)
  BY <1>3
<1>5. o \in Ops /\ IsJob(job)
  BY DEF Ops, ToLocal, ToRemote, Typed
<1>. QED BY <1>2, <1>4, <1>5, StartScanInStep

LEMMA ConfirmInStep ==
  ASSUME Orderly, Typed, InStep, Confirm
  PROVE  InStep'
<1>1. Command /\ panel' = panel
  BY DEF Confirm
<1>2. /\ Settled /\ Common /\ panel.path /\ posted = FALSE
      /\ job.op = "NONE" /\ job.scan = <<>> /\ ~job.asked /\ job.boxes = {}
  BY <1>1, CommandSettled
<1>3. PICK o \in Moves \union {"RDELETE"} : Waits([job EXCEPT !.boxes = @ \union {o}], local)
  BY DEF Confirm
<1>4. /\ job' = [job EXCEPT !.boxes = @ \union {o}]
      /\ rec' = rec /\ posted' = posted /\ toServer' = toServer
  BY <1>3 DEF Waits
<1>5. /\ job'.op = job.op /\ job'.asked = job.asked /\ job'.cancel = job.cancel
      /\ job'.scan = job.scan /\ job'.boxes = {o}
  <2>1. [job EXCEPT !.boxes = @ \union {o}] = [job EXCEPT !.boxes = {o}]
    BY <1>2
  <2>. QED BY <1>4, <2>1 DEF Typed, IsJob
<1>6. o \in Ops
  BY DEF Ops, ToLocal, ToRemote, Moves
<1>7. BoxesOf(job')
  BY <1>2, <1>5, <1>6 DEF BoxesOf
<1>. QED BY <1>2, <1>4, <1>5, <1>7, SettledRest DEF Common

\* A confirmation is the only box, and there is no operation.
LEMMA BoxSettled ==
  ASSUME Orderly, Typed, InStep, ByUser, shown, panel' = panel, NEW b \in job.boxes
  PROVE  /\ Settled /\ Common /\ posted = FALSE /\ ~job.asked /\ job.boxes = {b}
         /\ b \in Ops <=> job.op = "NONE"
<1>1. Rest /\ Common
  BY BoxRest
<1>2. ~job.asked /\ job.boxes = {b} /\ (b \in Ops <=> job.op = "NONE")
  BY <1>1 DEF Rest, BoxesOf
<1>3. posted = FALSE
  BY <1>1 DEF Rest, Typed
<1>4. panel.path
  BY <1>1, <1>2 DEF Common
<1>. QED BY <1>1, <1>2, <1>3, <1>4, RestSettled

LEMMA ConfirmedInStep ==
  ASSUME Orderly, Typed, InStep, Confirmed
  PROVE  InStep'
<1>1. ByUser /\ shown /\ panel' = panel
  BY DEF Confirmed
<1>2. PICK o \in job.boxes \intersect Ops :
        \E S \in SUBSET Selectable(o) \ {{}} : StartScan([job EXCEPT !.boxes = @ \ {o}], o, S)
  BY DEF Confirmed
<1>3. PICK S \in SUBSET Selectable(o) : StartScan([job EXCEPT !.boxes = @ \ {o}], o, S)
  BY <1>2
<1>4. Settled /\ ~job.asked /\ job.boxes = {o}
  BY <1>1, BoxSettled
<1>5. PICK c : c = job.boxes \ {o}
  OBVIOUS
<1>6. c = {}
  BY <1>4, <1>5
<1>. DEFINE j == [job EXCEPT !.boxes = c]
<1>7. StartScan(j, o, S)
  BY <1>3, <1>5
<1>8. IsJob(j)
  BY JobBoxes, Present
<1>9. j.asked = job.asked /\ j.boxes = c
  BY DEF Typed, IsJob
<1>. HIDE DEF j
<1>. QED BY <1>4, <1>6, <1>7, <1>8, <1>9, StartScanInStep

LEMMA NotConfirmedInStep ==
  ASSUME Orderly, Typed, InStep, NotConfirmed
  PROVE  InStep'
<1>1. ByUser /\ shown /\ panel' = panel
  BY DEF NotConfirmed
<1>2. PICK o \in job.boxes \intersect Ops : Waits([job EXCEPT !.boxes = @ \ {o}], local)
  BY DEF NotConfirmed
<1>3. /\ Settled /\ Common /\ posted = FALSE /\ ~job.asked /\ job.boxes = {o}
  BY <1>1, BoxSettled
<1>4. /\ job' = [job EXCEPT !.boxes = @ \ {o}]
      /\ rec' = rec /\ posted' = posted /\ toServer' = toServer
  BY <1>2 DEF Waits
<1>5. /\ job'.op = job.op /\ job'.asked = job.asked /\ job'.cancel = job.cancel
      /\ job'.scan = job.scan /\ job'.boxes = {}
  <2>1. [job EXCEPT !.boxes = @ \ {o}] = [job EXCEPT !.boxes = {}]
    BY <1>3
  <2>. QED BY <1>4, <2>1 DEF Typed, IsJob
<1>6. BoxesOf(job')
  BY <1>5 DEF BoxesOf
<1>. QED BY <1>3, <1>4, <1>5, <1>6, SettledRest DEF Common

LEMMA AnswersOp ==
  ASSUME NEW b, NEW j, OpJob(j), NEW k \in Answers(b, j)
  PROVE  OpJob(k)
<1>1. OpJob([j EXCEPT !.cancel = TRUE])
  <2>. DEFINE l == [j EXCEPT !.cancel = TRUE]
  <2>1. IsJob(l)
    BY JobCancel DEF OpJob
  <2>2. l.op = j.op /\ l.asked = j.asked /\ l.boxes = j.boxes
    BY DEF OpJob, IsJob
  <2>. HIDE DEF l
  <2>3. OpJob(l)
    BY <2>1, <2>2 DEF OpJob
  <2>. QED BY <2>3 DEF l
<1>2. OpJob(Skip(j))
  BY <1>1, TailOp DEF Skip
<1>3. ASSUME NEW f PROVE OpJob(Flags(j, f))
  <2>. DEFINE l == [j EXCEPT !.flags = f]
  <2>1. IsJob(l)
    BY JobBoxes DEF OpJob
  <2>2. l.op = j.op /\ l.asked = j.asked /\ l.boxes = j.boxes
    BY DEF OpJob, IsJob
  <2>. HIDE DEF l
  <2>3. OpJob(l)
    BY <2>1, <2>2 DEF OpJob
  <2>. QED BY <2>3 DEF l, Flags
<1>4. \/ k = [j EXCEPT !.cancel = TRUE] \/ k = Skip(j)
      \/ k = Flags(j, {"RDIROVERWRITE"}) \/ k = Flags(j, {"OVERWRITE"})
      \/ k = Flags(j, {"OVERWRITE", "FORALL"}) \/ k = Flags(j, {"NOOVERWRITE", "FORALL"})
  BY DEF Answers
<1>. QED BY <1>1, <1>2, <1>3, <1>4

LEMMA WmMsgBoxDismissInStep ==
  ASSUME Orderly, Typed, InStep, WmMsgBoxDismiss
  PROVE  InStep'
<1>1. ByUser /\ shown /\ panel' = panel
  BY DEF WmMsgBoxDismiss
<1>2. PICK b \in job.boxes \ Ops :
        \E k \in Answers(b, [job EXCEPT !.boxes = @ \ {b}]) : ScanNextStep(k, local)
  BY DEF WmMsgBoxDismiss
<1>3. PICK k \in Answers(b, [job EXCEPT !.boxes = @ \ {b}]) : ScanNextStep(k, local)
  BY <1>2
<1>4. Settled /\ ~job.asked /\ job.boxes = {b} /\ job.op # "NONE"
  BY <1>1, BoxSettled
<1>5. PICK c : c = job.boxes \ {b}
  OBVIOUS
<1>6. c = {}
  BY <1>4, <1>5
<1>. DEFINE j == [job EXCEPT !.boxes = c]
<1>7. k \in Answers(b, j)
  BY <1>5
<1>8. IsJob(j)
  BY JobBoxes, Present
<1>9. j.asked = job.asked /\ j.boxes = c /\ j.op = job.op /\ job.op \in Ops
  BY <1>4 DEF Typed, IsJob
<1>. HIDE DEF j
<1>10. OpJob(k)
  <2>1. OpJob(j)
    BY <1>4, <1>6, <1>8, <1>9 DEF OpJob
  <2>. QED BY <1>7, <2>1, AnswersOp
<1>11. Listable(local)
  BY SystemListable DEF Typed
<1>. QED BY <1>3, <1>4, <1>10, <1>11, ScanNextStepInStep

LEMMA UserInStep ==
  ASSUME Orderly, Typed, InStep, User
  PROVE  InStep'
<1>1. ~CloseDialog /\ ~Cancel
  BY DEF Orderly, CloseDialog, Cancel
<1>. QED BY <1>1, OpenFileTransferInStep, RefreshInStep, CopyInStep, ConfirmInStep,
            ConfirmedInStep, NotConfirmedInStep, WmMsgBoxDismissInStep DEF User

-----------------------------------------------------------------------------
(* The RFB thread: what it takes from the socket tells the phase.          *)

LEMMA ViewerHead ==
  ASSUME Typed, InStep, NEW t, Handle(t)
  PROVE  /\ Common /\ note = NoNote /\ ~clean /\ ~crashed /\ toViewer # <<>>
         /\ Head(toViewer).t = t /\ toViewer' = Tail(toViewer)
         /\ fd' = fd /\ sending' = sending /\ remote' = remote
         /\ t \in {"dir", "end"} => Streaming
         /\ t \in {"packet", "eof", "abort"} => Receiving
         /\ t \in {"access", "drives", "header", "accept", "mkdirDone", "deleteDone"} =>
              Answering(Head(toViewer)) /\ Tail(toViewer) = <<>>
<1>1. /\ note = NoNote /\ ~clean /\ ~crashed /\ toViewer # <<>>
      /\ Head(toViewer).t = t /\ toViewer' = Tail(toViewer)
      /\ fd' = fd /\ sending' = sending /\ remote' = remote /\ Common
  BY DEF Handle, RfbIdle, InStep
<1>2. Len(toViewer) \in Nat /\ Len(toViewer) >= 1 /\ Head(toViewer) = toViewer[1]
  BY <1>1, SeqTail, SeqKnown DEF Typed
<1>3. 1 \in 1 .. Len(toViewer)
  BY <1>2
<1>4. Streaming => t \in {"dir", "end"}
  BY <1>1, <1>2, <1>3 DEF Streaming
<1>5. Receiving => t \in {"packet", "eof", "abort"}
  BY <1>1, <1>2, <1>3 DEF Receiving, Arrives, Coming
<1>6. ASSUME NEW m, Answering(m)
      PROVE  /\ t \in {"access", "drives", "header", "accept", "mkdirDone", "deleteDone"}
             /\ Answering(Head(toViewer)) /\ Tail(toViewer) = <<>>
  <2>1. toViewer = <<m>>
    BY <1>6 DEF Answering
  <2>2. Head(toViewer) = m /\ Tail(toViewer) = <<>>
    BY <2>1
  <2>. QED BY <1>1, <1>6, <2>2 DEF Answering, Replied
<1>7. Streaming \/ Receiving \/ \E m : Answering(m)
  <2>1. NoNote.c = "none"
    BY DEF NoNote
  <2>. QED BY <1>1, Zenon DEF InStep, Phase, Rest, Noted, SendingFile, Asking
<1>. QED BY <1>1, <1>4, <1>5, <1>6, <1>7, Zenon

LEMMA RfbCommon ==
  ASSUME Common, UNCHANGED dialogVars, ~crashed'
  PROVE  /\ Common' /\ shown' = shown /\ job' = job /\ panel' = panel /\ posted' = posted
         /\ commands' = commands /\ (Calm => Calm')
         /\ (Listed => Listed') /\ (BoxesOf(job) => BoxesOf(job'))
<1>1. /\ shown' = shown /\ job' = job /\ panel' = panel /\ posted' = posted
      /\ commands' = commands
  BY DEF dialogVars
<1>. QED BY <1>1 DEF Common, Calm, Listed

\* One message is sent when none is under way.
LEMMA SendsOne ==
  ASSUME toServer = <<>>, NEW m, Send(<<m>>)
  PROVE  /\ Awaited(m)' /\ toServer' = <<m>>
         /\ Stale(m) => Unanswered(toServer')
<1>1. PICK s, l : s = <<>> /\ l = <<m>>
  OBVIOUS
<1>2. IsSeq(l)
  BY <1>1, SeqOne
<1>3. <<>> \o l = l
  BY <1>2 DEF IsSeq
<1>4. toServer' = s \o <<m>> /\ toServer' = <<m>>
  BY <1>1, <1>3 DEF Send
<1>5. Unanswered(s)
  BY <1>1, UnansweredNone
<1>6. Awaited(m)'
  BY <1>4, <1>5 DEF Awaited
<1>7. Stale(m) => Unanswered(toServer')
  BY <1>4, <1>5, UnansweredMore
<1>. QED BY <1>4, <1>6, <1>7

LEMMA NoRecFree == ~NoRec.used
  BY DEF NoRec

LEMMA FileTransferAccessInStep ==
  ASSUME Typed, InStep, FileTransferAccess, UNCHANGED dialogVars
  PROVE  InStep'
<1>1. /\ Handle("access") /\ rec' = rec /\ listing' = listing /\ clean' = clean
      /\ crashed' = crashed
  BY DEF FileTransferAccess
<1>2. PICK m : m = Head(toViewer)
  OBVIOUS
<1>3. /\ Common /\ note = NoNote /\ ~clean /\ ~crashed /\ m.t = "access" /\ sending' = sending
      /\ Answering(m) /\ toViewer' = <<>>
  BY <1>1, <1>2, ViewerHead
<1>4. /\ toServer = <<>> /\ ~sending /\ ~listing /\ Calm /\ ~shown /\ commands # 0 /\ ~rec.used
  BY <1>3 DEF Answering, Replied
<1>5. /\ Common' /\ shown' = shown /\ commands' = commands /\ Calm'
  BY <1>1, <1>3, <1>4, RfbCommon
<1>6. CASE m.ok
  <2>1. PICK n : n = Msg("drives", <<>>, TRUE)
    OBVIOUS
  <2>2. Send(<<n>>) /\ note' = note /\ n.t = "drives" /\ n.ok
    BY <1>2, <1>6, <2>1 DEF FileTransferAccess, Msg
  <2>3. Awaited(n)'
    BY <1>4, <2>2, SendsOne
  <2>4. Requested(n)'
    BY <1>1, <1>4, <1>5, <2>2 DEF Requested
  <2>5. Asking(n)'
    BY <1>1, <1>3, <1>4, <1>5, <2>2, <2>3, <2>4 DEF Asking
  <2>. QED BY <1>5, <2>5, Zenon DEF InStep, Phase
<1>7. CASE ~m.ok
  <2>1. note'.c = "PERMISSION_DENIED" /\ toServer' = toServer
    BY <1>2, <1>7 DEF FileTransferAccess, Tell, Note
  <2>2. Told'
    BY <1>4, <1>5, <2>1 DEF Told
  <2>3. Noted'
    BY <1>1, <1>3, <1>4, <1>5, <2>1, <2>2, UnansweredNone DEF Noted, Kept
  <2>. QED BY <1>5, <2>3, Zenon DEF InStep, Phase
<1>. QED BY <1>6, <1>7

LEMMA ADrivesListInStep ==
  ASSUME Typed, InStep, ADrivesList, UNCHANGED dialogVars
  PROVE  InStep'
<1>1. /\ Handle("drives") /\ rec' = rec /\ listing' = listing /\ clean' = clean
      /\ crashed' = crashed /\ note'.c = "DRIVES" /\ toServer' = toServer
  BY DEF ADrivesList, Tell, Note
<1>2. PICK m : m = Head(toViewer)
  OBVIOUS
<1>3. /\ Common /\ ~clean /\ ~crashed /\ m.t = "drives" /\ sending' = sending
      /\ Answering(m) /\ toViewer' = <<>>
  BY <1>1, <1>2, ViewerHead
<1>4. /\ toServer = <<>> /\ ~sending /\ ~listing /\ Calm /\ ~shown /\ commands # 0 /\ ~rec.used
  BY <1>3 DEF Answering, Replied
<1>5. /\ Common' /\ shown' = shown /\ commands' = commands /\ Calm'
  BY <1>1, <1>3, <1>4, RfbCommon
<1>6. Told'
  BY <1>1, <1>4, <1>5 DEF Told
<1>7. Noted'
  BY <1>1, <1>3, <1>4, <1>5, <1>6, UnansweredNone DEF Noted, Kept
<1>. QED BY <1>5, <1>7, Zenon DEF InStep, Phase

LEMMA ADirectoryInStep ==
  ASSUME Typed, InStep, ADirectory, UNCHANGED dialogVars
  PROVE  InStep'
<1>1. /\ Handle("dir") /\ rec' = rec /\ listing' = TRUE /\ clean' = clean
      /\ crashed' = crashed /\ toServer' = toServer
      /\ note'.c = IF listing THEN "FINDDATA" ELSE "PATH"
  BY DEF ADirectory, Note
<1>2. /\ Common /\ ~clean /\ ~crashed /\ Head(toViewer).t = "dir" /\ sending' = sending
      /\ Streaming /\ toViewer' = Tail(toViewer) /\ note = NoNote /\ toViewer # <<>>
  BY <1>1, ViewerHead
<1>3. /\ Common' /\ Calm' /\ Listed' /\ panel' = panel
  <2>1. Calm /\ Listed
    BY <1>2, Zenon DEF Streaming
  <2>. QED BY <1>1, <1>2, <2>1, RfbCommon
<1>4. /\ IsSeq(Tail(toViewer)) /\ Len(Tail(toViewer)) = Len(toViewer) - 1 /\ Len(toViewer) >= 1
      /\ Head(toViewer) = toViewer[1] /\ Len(toViewer) \in Nat
      /\ \A k \in 1 .. Len(toViewer) - 1 : Tail(toViewer)[k] = toViewer[k + 1]
  BY <1>2, SeqTail, SeqKnown DEF Typed
<1>5. PICK q : q = Tail(toViewer)
  OBVIOUS
<1>6. Len(toViewer) # 1
  <2>1. 1 \in 1 .. Len(toViewer)
    BY <1>4
  <2>2. toViewer[1].t = (IF 1 = Len(toViewer) THEN "end" ELSE "dir")
    BY <1>2, <2>1 DEF Streaming
  <2>. QED BY <1>2, <1>4, <2>2
<1>7. q # <<>>
  <2>1. IsSeq(q) /\ Len(q) # 0
    BY <1>4, <1>5, <1>6
  <2>. QED BY <2>1, SeqKnown
<1>8. ASSUME NEW k \in 1 .. Len(q) PROVE q[k].t = (IF k = Len(q) THEN "end" ELSE "dir")
  <2>1. k + 1 \in 1 .. Len(toViewer) /\ q[k] = toViewer[k + 1]
    BY <1>4, <1>5
  <2>2. toViewer[k + 1].t = (IF k + 1 = Len(toViewer) THEN "end" ELSE "dir")
    BY <1>2, <2>1 DEF Streaming
  <2>. QED BY <1>4, <1>5, <2>1, <2>2
<1>9. panel.path \/ note'.c = "PATH"
  <2>1. NoNote.c = "none"
    BY DEF NoNote
  <2>. QED BY <1>1, <1>2, <2>1 DEF Streaming
<1>10. Streaming'
  BY <1>1, <1>2, <1>3, <1>5, <1>7, <1>8, <1>9 DEF Streaming
<1>. QED BY <1>3, <1>10, Zenon DEF InStep, Phase

LEMMA EndOfListInStep ==
  ASSUME Typed, InStep, EndOfList, UNCHANGED dialogVars
  PROVE  InStep'
<1>1. /\ Handle("end") /\ rec' = rec /\ listing' = FALSE /\ clean' = clean
      /\ crashed' = crashed /\ toServer' = toServer /\ note'.c = "END_OF_LIST"
  BY DEF EndOfList, Note, Tell
<1>2. /\ Common /\ ~clean /\ ~crashed /\ Head(toViewer).t = "end" /\ sending' = sending
      /\ Streaming /\ toViewer' = Tail(toViewer) /\ note = NoNote /\ toViewer # <<>>
  BY <1>1, ViewerHead
<1>3. /\ Common' /\ Calm' /\ Listed' /\ panel' = panel
  <2>1. Calm /\ Listed
    BY <1>2, Zenon DEF Streaming
  <2>. QED BY <1>1, <1>2, <2>1, RfbCommon
<1>4. /\ IsSeq(Tail(toViewer)) /\ Len(Tail(toViewer)) = Len(toViewer) - 1 /\ Len(toViewer) >= 1
      /\ Head(toViewer) = toViewer[1] /\ Len(toViewer) \in Nat
  BY <1>2, SeqTail, SeqKnown DEF Typed
<1>5. Len(toViewer) = 1
  <2>1. 1 \in 1 .. Len(toViewer)
    BY <1>4
  <2>2. toViewer[1].t = (IF 1 = Len(toViewer) THEN "end" ELSE "dir")
    BY <1>2, <2>1 DEF Streaming
  <2>. QED BY <1>2, <1>4, <2>2
<1>6. toViewer' = <<>>
  <2>1. PICK q : q = Tail(toViewer)
    OBVIOUS
  <2>2. IsSeq(q) /\ Len(q) = 0
    BY <1>4, <1>5, <2>1
  <2>3. q = <<>>
    BY <2>2, SeqKnown
  <2>. QED BY <1>2, <2>1, <2>3
<1>7. panel.path
  <2>1. NoNote.c = "none"
    BY DEF NoNote
  <2>. QED BY <1>2, <1>5, <2>1 DEF Streaming
<1>8. Told'
  BY <1>1, <1>3, <1>7 DEF Told
<1>9. Noted'
  BY <1>1, <1>2, <1>3, <1>6, <1>8, UnansweredNone DEF Noted, Kept, Streaming
<1>. QED BY <1>3, <1>9, Zenon DEF InStep, Phase

LEMMA CommandReturnInStep ==
  ASSUME Typed, InStep, CommandReturn, UNCHANGED dialogVars
  PROVE  InStep'
<1>1. PICK m : m = Head(toViewer)
  OBVIOUS
<1>2. /\ rec' = rec /\ listing' = listing /\ clean' = clean
      /\ crashed' = crashed /\ toServer' = toServer
      /\ note'.c = IF m.t = "mkdirDone" THEN "MKDIR_RES" ELSE "DELETE_RES"
  BY <1>1 DEF CommandReturn, Note
<1>3. PICK t \in {"mkdirDone", "deleteDone"} : Handle(t)
  BY DEF CommandReturn
<1>4. /\ Common /\ ~clean /\ ~crashed /\ m.t = t /\ sending' = sending
      /\ Answering(m) /\ toViewer' = <<>>
  BY <1>1, <1>3, ViewerHead
<1>5. /\ toServer = <<>> /\ ~sending /\ ~listing /\ Calm /\ ~rec.used
      /\ job.op \in (IF t = "mkdirDone" THEN ToRemote ELSE Ops)
  BY <1>3, <1>4 DEF Answering, Replied
<1>6. /\ Common' /\ job' = job /\ Calm'
  BY <1>2, <1>4, <1>5, RfbCommon
<1>7. Told'
  BY <1>2, <1>3, <1>4, <1>5, <1>6 DEF Told
<1>8. Noted'
  BY <1>2, <1>4, <1>5, <1>6, <1>7, UnansweredNone DEF Noted, Kept
<1>. QED BY <1>6, <1>8, Zenon DEF InStep, Phase

LEMMA FileHeaderAnswerInStep ==
  ASSUME ~IsSeq(Folder), Typed, InStep, FileHeaderAnswer, UNCHANGED dialogVars
  PROVE  InStep'
<1>1. /\ Handle("header") /\ listing' = listing /\ crashed' = crashed
  BY DEF FileHeaderAnswer
<1>2. PICK m : m = Head(toViewer)
  OBVIOUS
<1>3. /\ Common /\ ~clean /\ ~crashed /\ m.t = "header" /\ sending' = sending /\ note = NoNote
      /\ Answering(m) /\ toViewer' = <<>> /\ fd' = fd /\ remote' = remote
  BY <1>1, <1>2, ViewerHead
<1>4. /\ toServer = <<>> /\ ~sending /\ ~listing /\ Calm
      /\ Held(TRUE) /\ ~rec.fSendReady /\ rec.h = "-1"
      /\ m.ok => /\ IsFile(remote, rec.path)
                 /\ fd = [mode |-> "r", path |-> rec.path, pos |-> 0]
  BY <1>3 DEF Answering, Replied
<1>5. /\ rec.used /\ rec.recv /\ ~rec.fSendAbort /\ job.scan # <<>>
      /\ Head(job.scan) = Item(rec.path, FALSE) /\ job.op \in ToLocal
  BY <1>4 DEF Held
<1>6. /\ Common' /\ job' = job /\ Calm'
  BY <1>1, <1>3, <1>4, RfbCommon
<1>7. CASE ~m.ok
  <2>1. PICK n : n = Msg("header", <<>>, FALSE)
    OBVIOUS
  <2>2. /\ Send(<<n>>) /\ rec' = NoRec /\ note'.c = "RECV_READ_FAIL" /\ clean' = clean
    BY <1>2, <1>5, <1>7, <2>1 DEF FileHeaderAnswer, HeaderRefused, FxClean, Tell, Note
  <2>3. Stale(n)
    BY <2>1 DEF Msg, Stale
  <2>4. Unanswered(toServer')
    BY <1>4, <2>2, <2>3, SendsOne
  <2>5. Told'
    BY <1>5, <1>6, <2>2 DEF Told, Fails
  <2>6. Kept'
    BY <1>3, <2>2, NoRecFree DEF Kept
  <2>7. Noted'
    BY <1>1, <1>3, <1>4, <1>6, <2>2, <2>4, <2>5, <2>6 DEF Noted
  <2>. QED BY <1>6, <2>7, Zenon DEF InStep, Phase
<1>8. CASE m.ok
  <2>1. \/ /\ local' = Put(local, rec.path, <<>>)
           /\ rec' = [rec EXCEPT !.h = "write"]
           /\ Send(<<Msg("header", <<>>, TRUE)>>)
           /\ note' = note /\ clean' = clean
        \/ /\ Tell("RECV_CREATE_FAIL") /\ clean' = TRUE
           /\ rec' = rec /\ toServer' = toServer
    BY <1>2, <1>5, <1>8 DEF FileHeaderAnswer, HeaderAccepted, Quiet
  <2>2. CASE /\ local' = Put(local, rec.path, <<>>)
             /\ rec' = [rec EXCEPT !.h = "write"]
             /\ Send(<<Msg("header", <<>>, TRUE)>>)
             /\ note' = note /\ clean' = clean
    <3>1. PICK n : n = Msg("header", <<>>, TRUE)
      OBVIOUS
    <3>2. n.t = "header" /\ n.ok /\ Send(<<n>>)
      BY <2>2, <3>1 DEF Msg
    <3>3. Awaited(n)' /\ toServer' = <<n>>
      BY <1>4, <3>2, SendsOne
    <3>4. /\ rec'.used = rec.used /\ rec'.recv = rec.recv /\ rec'.path = rec.path
          /\ rec'.h = "write" /\ rec'.fSendReady = rec.fSendReady
          /\ rec'.fSendAbort = rec.fSendAbort
      BY <2>2 DEF Typed, IsRec
    <3>5. Held(TRUE)'
      BY <1>5, <1>6, <3>4 DEF Held
    <3>6. rec.path \in DOMAIN local' /\ local'[rec.path] = <<>>
      <4>1. DOMAIN Put(local, rec.path, <<>>) = DOMAIN local \union {rec.path}
            /\ Put(local, rec.path, <<>>)[rec.path] = <<>>
        BY DEF Put
      <4>. QED BY <2>2, <4>1
    <3>7. IsFile(local', rec.path)
      <4>1. Folder # <<>>
        BY SeqEmpty
      <4>. QED BY <3>6, <4>1 DEF IsFile
    <3>8. IsFile(remote', rec.path) /\ fd' = [mode |-> "r", path |-> rec.path, pos |-> 0]
      BY <1>3, <1>4, <1>8
    <3>9. Requested(n)'
      BY <1>4, <3>2, <3>3, <3>4, <3>5, <3>6, <3>7, <3>8 DEF Requested
    <3>10. Asking(n)'
      BY <1>1, <1>3, <1>4, <1>6, <2>2, <3>3, <3>9 DEF Asking
    <3>. QED BY <1>6, <3>10, Zenon DEF InStep, Phase
  <2>3. CASE Tell("RECV_CREATE_FAIL") /\ clean' = TRUE /\ rec' = rec /\ toServer' = toServer
    <3>1. note'.c = "RECV_CREATE_FAIL"
      BY <2>3 DEF Tell, Note
    <3>2. Held(TRUE)'
      BY <1>4, <1>6, <2>3 DEF Held
    <3>3. Told'
      BY <1>5, <1>6, <3>1 DEF Told, Fails
    <3>4. Noted'
      BY <1>1, <1>3, <1>4, <1>6, <2>3, <3>1, <3>2, <3>3, UnansweredNone DEF Noted, Kept, Fails
    <3>. QED BY <1>6, <3>4, Zenon DEF InStep, Phase
  <2>. QED BY <2>1, <2>2, <2>3
<1>. QED BY <1>7, <1>8

LEMMA FileAcceptHeaderInStep ==
  ASSUME Typed, InStep, FileAcceptHeader, UNCHANGED dialogVars
  PROVE  InStep'
<1>1. /\ Handle("accept") /\ listing' = listing /\ toServer' = toServer
  BY DEF FileAcceptHeader
<1>2. PICK m : m = Head(toViewer)
  OBVIOUS
<1>3. /\ Common /\ ~clean /\ ~crashed /\ m.t = "accept" /\ sending' = sending /\ note = NoNote
      /\ Answering(m) /\ toViewer' = <<>>
  BY <1>1, <1>2, ViewerHead
<1>4. toServer = <<>> /\ ~sending /\ ~listing /\ Calm /\ Held(FALSE)
  BY <1>3 DEF Answering, Replied
<1>5. /\ rec.used /\ ~rec.recv /\ ~rec.fSendAbort /\ job.scan # <<>>
      /\ Head(job.scan) = Item(rec.path, FALSE) /\ job.op \in ToRemote
  BY <1>4 DEF Held
<1>6. ~crashed'
  BY <1>2, <1>3, <1>5 DEF FileAcceptHeader, Quiet
<1>7. /\ Common' /\ job' = job /\ Calm'
  BY <1>3, <1>4, <1>6, RfbCommon
<1>8. Unanswered(toServer')
  BY <1>1, <1>4, UnansweredNone
<1>9. CASE m.ok
  <2>1. rec' = [rec EXCEPT !.fSendReady = TRUE] /\ note' = note /\ clean' = clean
    BY <1>2, <1>5, <1>9 DEF FileAcceptHeader, Quiet
  <2>2. /\ rec'.used = rec.used /\ rec'.recv = rec.recv /\ rec'.path = rec.path
        /\ rec'.fSendReady = TRUE /\ rec'.fSendAbort = rec.fSendAbort
    BY <2>1 DEF Typed, IsRec
  <2>3. Held(FALSE)'
    BY <1>4, <1>5, <1>7, <2>2 DEF Held
  <2>4. SendingFile'
    BY <1>1, <1>3, <1>4, <1>7, <1>8, <2>1, <2>2, <2>3 DEF SendingFile
  <2>. QED BY <1>7, <2>4, Zenon DEF InStep, Phase
<1>10. CASE ~m.ok
  <2>1. note'.c = "SEND_WRITE_FAIL" /\ clean' = TRUE /\ rec' = rec
    BY <1>2, <1>10 DEF FileAcceptHeader, Tell, Note
  <2>2. Held(FALSE)'
    BY <1>4, <1>7, <2>1 DEF Held
  <2>3. Told'
    BY <1>5, <1>7, <2>1 DEF Told, Fails
  <2>4. Noted'
    BY <1>1, <1>3, <1>4, <1>7, <1>8, <2>1, <2>2, <2>3 DEF Noted, Kept, Fails
  <2>. QED BY <1>7, <2>4, Zenon DEF InStep, Phase
<1>. QED BY <1>9, <1>10

\* The first message of a file that arrives.
LEMMA ReceivingHead ==
  ASSUME Typed, Receiving, toViewer # <<>>
  PROVE  /\ Held(TRUE) /\ rec.used /\ rec.recv /\ rec.h = "write" /\ toServer = <<>>
         /\ ~listing /\ Calm
         /\ job.scan # <<>> /\ Head(job.scan) = Item(rec.path, FALSE) /\ job.op \in ToLocal
         /\ IsFile(local, rec.path) /\ IsFile(remote, rec.path)
         /\ IsSeq(local[rec.path]) /\ IsSeq(remote[rec.path])
         /\ \/ /\ Head(toViewer).t = "packet"
               /\ Len(local[rec.path]) < Len(remote[rec.path])
               /\ Head(toViewer).b = remote[rec.path][Len(local[rec.path]) + 1]
            \/ /\ Head(toViewer).t = "eof" /\ ~sending /\ Tail(toViewer) = <<>>
               /\ local[rec.path] = remote[rec.path]
            \/ Head(toViewer).t = "abort" /\ ~sending /\ Tail(toViewer) = <<>>
<1>1. /\ Held(TRUE) /\ rec.h = "write" /\ toServer = <<>> /\ ~listing /\ Calm
      /\ IsFile(local, rec.path) /\ IsFile(remote, rec.path)
  BY DEF Receiving
<1>2. /\ rec.used /\ rec.recv /\ job.scan # <<>> /\ Head(job.scan) = Item(rec.path, FALSE)
      /\ job.op \in ToLocal
  BY <1>1 DEF Held
<1>3. PICK l : l = local[rec.path]
  OBVIOUS
<1>4. PICK r : r = remote[rec.path]
  OBVIOUS
<1>5. IsSeq(l) /\ IsSeq(r)
  BY <1>1, <1>3, <1>4, SystemListable DEF Typed
<1>6. /\ Len(l) \in Nat /\ Len(r) \in Nat /\ Len(toViewer) \in Nat
      /\ Len(toViewer) >= 1 /\ Head(toViewer) = toViewer[1]
      /\ IsSeq(Tail(toViewer)) /\ Len(Tail(toViewer)) = Len(toViewer) - 1
  BY <1>5, SeqKnown, SeqTail DEF Typed
<1>7. Arrives(l, r)
  BY <1>3, <1>4 DEF Receiving
<1>8. 1 \in 1 .. Len(toViewer)
  BY <1>6
<1>9. \/ toViewer[1].t = "packet" /\ Len(l) + 1 <= Len(r) /\ toViewer[1].b = r[Len(l) + 1]
      \/ ~sending /\ 1 = Len(toViewer) /\ toViewer[1].t = "eof" /\ Len(l) + 1 = Len(r) + 1
      \/ ~sending /\ 1 = Len(toViewer) /\ toViewer[1].t = "abort"
  BY <1>7, <1>8 DEF Arrives, Coming
<1>10. 1 = Len(toViewer) => Tail(toViewer) = <<>>
  <2>1. PICK q : q = Tail(toViewer)
    OBVIOUS
  <2>2. ASSUME 1 = Len(toViewer) PROVE IsSeq(q) /\ Len(q) = 0
    BY <2>1, <2>2, <1>6
  <2>. QED BY <2>1, <2>2, SeqKnown
<1>11. Len(l) + 1 = Len(r) + 1 => l = r
  <2>1. l = SubSeq(r, 1, Len(l))
    BY <1>7 DEF Arrives
  <2>2. SubSeq(r, 1, Len(r)) = r
    BY <1>5, SeqWhole
  <2>3. ASSUME Len(l) + 1 = Len(r) + 1 PROVE Len(l) = Len(r)
    BY <2>3, <1>6
  <2>. QED BY <2>1, <2>2, <2>3
<1>12. \/ Head(toViewer).t = "packet" /\ Len(l) < Len(r) /\ Head(toViewer).b = r[Len(l) + 1]
       \/ Head(toViewer).t = "eof" /\ ~sending /\ Tail(toViewer) = <<>> /\ l = r
       \/ Head(toViewer).t = "abort" /\ ~sending /\ Tail(toViewer) = <<>>
  BY <1>6, <1>9, <1>10, <1>11
<1>. QED BY <1>1, <1>2, <1>3, <1>4, <1>5, <1>12

LEMMA EndOfFileInInStep ==
  ASSUME Typed, InStep, EndOfFileIn, UNCHANGED dialogVars
  PROVE  InStep'
<1>1. /\ Handle("eof") /\ listing' = listing /\ clean' = clean /\ crashed' = crashed
      /\ toServer' = toServer /\ local' = local
  BY DEF EndOfFileIn
<1>2. /\ Common /\ ~clean /\ ~crashed /\ Head(toViewer).t = "eof" /\ sending' = sending
      /\ Receiving /\ toViewer # <<>> /\ toViewer' = Tail(toViewer) /\ remote' = remote
  BY <1>1, ViewerHead
<1>3. /\ rec.used /\ rec.recv /\ rec.h = "write" /\ toServer = <<>>
      /\ ~listing /\ Calm
      /\ job.scan # <<>> /\ Head(job.scan) = Item(rec.path, FALSE) /\ job.op \in ToLocal
      /\ IsFile(local, rec.path) /\ IsFile(remote, rec.path)
      /\ ~sending /\ Tail(toViewer) = <<>> /\ local[rec.path] = remote[rec.path]
  BY <1>2, ReceivingHead
<1>4. Common' /\ job' = job /\ Calm'
  BY <1>1, <1>2, <1>3, RfbCommon
<1>5. rec' = NoRec /\ note'.c = "RECV_END_OF_FILE"
  BY <1>3 DEF EndOfFileIn, Tell, Note
<1>6. Head(job.scan).p = rec.path
  BY <1>3 DEF Item
<1>7. Told'
  <2>1. PICK p : p = rec.path
    OBVIOUS
  <2>2. /\ p = Head(job'.scan).p /\ IsFile(local', p) /\ IsFile(remote', p)
        /\ local'[p] = remote'[p]
    BY <1>1, <1>2, <1>3, <1>4, <1>6, <2>1
  <2>. QED BY <1>1, <1>3, <1>4, <1>5, <2>2 DEF Told
<1>8. Noted'
  BY <1>1, <1>2, <1>3, <1>4, <1>5, <1>7, UnansweredNone, NoRecFree DEF Noted, Kept
<1>. QED BY <1>4, <1>8, Zenon DEF InStep, Phase

LEMMA AbortFileTransferInInStep ==
  ASSUME Typed, InStep, AbortFileTransferIn, UNCHANGED dialogVars
  PROVE  InStep'
<1>1. /\ Handle("abort") /\ listing' = listing /\ crashed' = crashed
      /\ toServer' = toServer /\ rec' = rec
  BY DEF AbortFileTransferIn
<1>2. /\ Common /\ ~clean /\ ~crashed /\ Head(toViewer).t = "abort" /\ sending' = sending
      /\ Receiving /\ toViewer # <<>> /\ toViewer' = Tail(toViewer)
  BY <1>1, ViewerHead
<1>3. /\ Held(TRUE) /\ rec.used /\ rec.recv /\ toServer = <<>> /\ ~listing /\ Calm
      /\ job.scan # <<>> /\ ~sending /\ Tail(toViewer) = <<>>
  BY <1>2, ReceivingHead
<1>4. Common' /\ job' = job /\ Calm'
  BY <1>1, <1>2, <1>3, RfbCommon
<1>5. note'.c = "RECV_READ_FAIL" /\ clean' = TRUE
  BY <1>3 DEF AbortFileTransferIn, Tell, Note
<1>6. Held(TRUE)'
  BY <1>1, <1>3, <1>4 DEF Held
<1>7. Told'
  BY <1>3, <1>4, <1>5 DEF Told, Fails
<1>8. Noted'
  BY <1>1, <1>2, <1>3, <1>4, <1>5, <1>6, <1>7, UnansweredNone DEF Noted, Kept, Fails
<1>. QED BY <1>4, <1>8, Zenon DEF InStep, Phase

\* A block is written behind those that are there.
LEMMA ArrivesMore ==
  ASSUME NEW l, NEW r, IsSeq(l), IsSeq(r), Arrives(l, r), IsSeq(toViewer), toViewer # <<>>,
         Len(l) < Len(r), UNCHANGED <<fd, sending>>, rec'.path = rec.path,
         toViewer' = Tail(toViewer), NEW n, n = Append(l, r[Len(l) + 1])
  PROVE  Arrives(n, r)' /\ IsSeq(n)
<1>1. /\ Len(l) \in Nat /\ Len(r) \in Nat /\ Len(toViewer) \in Nat
      /\ Len(toViewer) >= 1
      /\ IsSeq(Tail(toViewer)) /\ Len(Tail(toViewer)) = Len(toViewer) - 1
      /\ \A k \in 1 .. Len(toViewer) - 1 : Tail(toViewer)[k] = toViewer[k + 1]
  BY SeqKnown, SeqTail
<1>2. IsSeq(n) /\ Len(n) = Len(l) + 1
  BY SeqAppend
<1>3. n = SubSeq(r, 1, Len(n))
  <2>1. l = SubSeq(r, 1, Len(l))
    BY DEF Arrives
  <2>2. PICK k \in Nat : k = Len(l)
    BY <1>1
  <2>3. Append(SubSeq(r, 1, k), r[k + 1]) = SubSeq(r, 1, k + 1)
    BY <1>1, <2>2, SeqGrows
  <2>4. n = Append(SubSeq(r, 1, k), r[k + 1])
    BY <2>1, <2>2
  <2>. QED BY <1>2, <2>2, <2>3, <2>4
<1>4. PICK q : q = Tail(toViewer)
  OBVIOUS
<1>5. ASSUME NEW k \in 1 .. Len(q)
      PROVE  \/ q[k].t = "packet" /\ Len(n) + k <= Len(r) /\ q[k].b = r[Len(n) + k]
             \/ ~sending /\ k = Len(q) /\ q[k].t = "eof" /\ Len(n) + k = Len(r) + 1
             \/ ~sending /\ k = Len(q) /\ q[k].t = "abort"
  <2>1. k + 1 \in 1 .. Len(toViewer) /\ q[k] = toViewer[k + 1] /\ k \in Nat
    BY <1>1, <1>4
  <2>2. \/ /\ toViewer[k + 1].t = "packet" /\ Len(l) + (k + 1) <= Len(r)
           /\ toViewer[k + 1].b = r[Len(l) + (k + 1)]
        \/ /\ ~sending /\ k + 1 = Len(toViewer) /\ toViewer[k + 1].t = "eof"
           /\ Len(l) + (k + 1) = Len(r) + 1
        \/ ~sending /\ k + 1 = Len(toViewer) /\ toViewer[k + 1].t = "abort"
    BY <2>1 DEF Arrives, Coming
  <2>3. Len(l) + (k + 1) = Len(n) + k
    BY <1>1, <1>2, <2>1
  <2>4. Len(q) = Len(toViewer) - 1 /\ Len(toViewer) \in Nat /\ k \in Nat
    BY <1>1, <1>4, <2>1
  <2>5. ASSUME k + 1 = Len(toViewer) PROVE k = Len(q)
    <3>1. PICK a \in Nat : a = Len(toViewer)
      BY <2>4
    <3>2. Len(q) = a - 1 /\ k + 1 = a
      BY <2>4, <2>5, <3>1
    <3>. QED BY <2>4, <3>1, <3>2
  <2>. QED BY <2>1, <2>2, <2>3, <2>5
<1>6. Coming(n, r)'
  BY <1>4, <1>5 DEF Coming
<1>7. sending' => fd' = [mode |-> "r", path |-> rec'.path, pos |-> Len(n) + Len(toViewer')]
  <2>1. sending => fd = [mode |-> "r", path |-> rec.path, pos |-> Len(l) + Len(toViewer)]
    BY DEF Arrives
  <2>2. Len(n) + Len(Tail(toViewer)) = Len(l) + Len(toViewer)
    BY <1>1, <1>2
  <2>. QED BY <2>1, <2>2
<1>8. Len(n) <= Len(r)
  BY <1>1, <1>2
<1>. QED BY <1>2, <1>3, <1>6, <1>7, <1>8 DEF Arrives

LEMMA FilePacketInInStep ==
  ASSUME ~IsSeq(Folder), Orderly, Typed, InStep, FilePacketIn, UNCHANGED dialogVars
  PROVE  InStep'
<1>1. /\ Handle("packet") /\ listing' = listing /\ crashed' = crashed
      /\ toServer' = toServer /\ rec' = rec
  BY DEF FilePacketIn
<1>2. /\ Common /\ ~clean /\ ~crashed /\ Head(toViewer).t = "packet" /\ sending' = sending
      /\ Receiving /\ toViewer # <<>> /\ toViewer' = Tail(toViewer)
      /\ fd' = fd /\ remote' = remote
  BY <1>1, ViewerHead
<1>3. /\ Held(TRUE) /\ rec.used /\ rec.h = "write" /\ toServer = <<>> /\ ~listing /\ Calm
      /\ IsFile(local, rec.path) /\ IsFile(remote, rec.path)
      /\ IsSeq(local[rec.path]) /\ IsSeq(remote[rec.path])
      /\ Len(local[rec.path]) < Len(remote[rec.path])
      /\ Head(toViewer).b = remote[rec.path][Len(local[rec.path]) + 1]
  BY <1>2, ReceivingHead
<1>4. Common' /\ job' = job /\ Calm'
  BY <1>1, <1>2, <1>3, RfbCommon
<1>5. Outcome("write") = {TRUE}
  BY DEF Outcome, Orderly
<1>6. /\ Tell("RECV_CHUNK") /\ clean' = clean
      /\ local' = IF rec.h = "stray" \/ ~IsFile(local, rec.path) THEN local
                  ELSE [local EXCEPT ![rec.path] = Append(@, Head(toViewer).b)]
  BY <1>3, <1>5 DEF FilePacketIn
<1>7. note'.c = "RECV_CHUNK" /\ local' = [local EXCEPT ![rec.path] = Append(@, Head(toViewer).b)]
  BY <1>3, <1>6 DEF Tell, Note
<1>8. PICK l : l = local[rec.path]
  OBVIOUS
<1>9. PICK r : r = remote[rec.path]
  OBVIOUS
<1>10. PICK n : n = Append(l, r[Len(l) + 1])
  OBVIOUS
<1>11. rec.path \in DOMAIN local' /\ local'[rec.path] = n
  BY <1>3, <1>7, <1>8, <1>9, <1>10 DEF IsFile
<1>12. Arrives(n, r)' /\ IsSeq(n)
  <2>1. Arrives(l, r)
    BY <1>2, <1>8, <1>9 DEF Receiving
  <2>2. IsSeq(l) /\ IsSeq(r) /\ Len(l) < Len(r) /\ IsSeq(toViewer)
    BY <1>3, <1>8, <1>9 DEF Typed
  <2>3. UNCHANGED <<fd, sending>> /\ rec'.path = rec.path
    BY <1>1, <1>2
  <2>. QED BY <1>2, <1>10, <2>1, <2>2, <2>3, ArrivesMore
<1>13. IsFile(local', rec.path)
  <2>1. n # Folder
    BY <1>12
  <2>. QED BY <1>11, <2>1 DEF IsFile
<1>14. Held(TRUE)'
  BY <1>1, <1>3, <1>4 DEF Held
<1>15. Receiving'
  <2>1. ~rec.fSendReady
    BY <1>2 DEF Receiving
  <2>2. IsFile(remote', rec.path)
    BY <1>2, <1>3
  <2>3. Arrives(local[rec.path], remote[rec.path])'
    BY <1>1, <1>11, <1>12, <1>2, <1>9
  <2>. QED BY <1>1, <1>2, <1>3, <1>4, <1>6, <1>7, <1>13, <1>14, <2>1, <2>2, <2>3 DEF Receiving
<1>. QED BY <1>4, <1>15, Zenon DEF InStep, Phase

\* The file that is sent is that of the phase.
LEMMA SendingNow ==
  ASSUME InStep, RfbIdle, rec.used
  PROVE  ~rec.fSendAbort /\ (rec.fSendReady => SendingFile) /\ Common
<1>1. note.c = "none" /\ ~clean
  BY DEF RfbIdle, NoNote
<1>2. ~Rest /\ ~Noted /\ ~Streaming
  <2>1. ~Kept
    BY <1>1 DEF Kept
  <2>. QED BY <2>1, Zenon DEF Rest, Noted, Streaming
<1>3. ASSUME NEW m, Asking(m) PROVE ~rec.fSendAbort /\ ~rec.fSendReady
  BY <1>3 DEF Asking, Requested, Held
<1>4. ASSUME NEW m, Answering(m) PROVE ~rec.fSendAbort /\ ~rec.fSendReady
  BY <1>4 DEF Answering, Replied, Held
<1>5. ASSUME Receiving PROVE ~rec.fSendAbort /\ ~rec.fSendReady
  BY <1>5, Zenon DEF Receiving, Held
<1>6. ASSUME SendingFile PROVE ~rec.fSendAbort
  BY <1>6 DEF SendingFile, Held
<1>. QED BY <1>2, <1>3, <1>4, <1>5, <1>6, Zenon DEF InStep, Phase

LEMMA SendBlockInStep ==
  ASSUME Typed, InStep, SendBlock, UNCHANGED dialogVars
  PROVE  InStep'
<1>1. /\ RfbIdle /\ rec.used /\ rec.fSendReady /\ listing' = listing /\ crashed' = crashed
      /\ sending' = sending /\ toViewer' = toViewer
  BY DEF SendBlock
<1>2. SendingFile /\ Common
  BY <1>1, SendingNow
<1>3. /\ toViewer = <<>> /\ Unanswered(toServer) /\ ~clean /\ ~sending /\ ~listing /\ Calm
      /\ Held(FALSE) /\ ~crashed
  BY <1>2 DEF SendingFile, Common
<1>4. /\ rec.used /\ ~rec.recv /\ ~rec.fSendAbort /\ job.scan # <<>>
      /\ Head(job.scan) = Item(rec.path, FALSE) /\ job.op \in ToRemote
  BY <1>3 DEF Held
<1>5. Common' /\ job' = job /\ Calm'
  BY <1>1, <1>2, <1>3, RfbCommon
<1>6. \/ /\ Tell("SEND_READ_FAIL") /\ clean' = TRUE /\ rec' = rec /\ toServer' = toServer
      \/ /\ Send(<<Eof(rec.path, local[rec.path])>>) /\ rec' = NoRec
         /\ Tell("SEND_END_OF_FILE") /\ clean' = clean
      \/ /\ Send(<<Packet(rec.path, local[rec.path][rec.pos + 1])>>)
         /\ rec' = [rec EXCEPT !.pos = @ + 1]
         /\ Tell("SEND_CHUNK") /\ clean' = clean
  BY DEF SendBlock, FxClean
<1>7. CASE Tell("SEND_READ_FAIL") /\ clean' = TRUE /\ rec' = rec /\ toServer' = toServer
  <2>1. note'.c = "SEND_READ_FAIL"
    BY <1>7 DEF Tell, Note
  <2>2. Held(FALSE)'
    BY <1>3, <1>5, <1>7 DEF Held
  <2>3. Told'
    BY <1>4, <1>5, <2>1 DEF Told, Fails
  <2>4. Noted'
    BY <1>1, <1>3, <1>5, <1>7, <2>1, <2>2, <2>3 DEF Noted, Kept, Fails
  <2>. QED BY <1>5, <2>4, Zenon DEF InStep, Phase
<1>8. CASE /\ Send(<<Eof(rec.path, local[rec.path])>>) /\ rec' = NoRec
           /\ Tell("SEND_END_OF_FILE") /\ clean' = clean
  <2>1. PICK m : m = Eof(rec.path, local[rec.path])
    OBVIOUS
  <2>2. Stale(m)
    BY <2>1 DEF Stale, Eof
  <2>3. toServer' = toServer \o <<m>>
    BY <1>8, <2>1 DEF Send
  <2>4. Unanswered(toServer')
    BY <1>3, <2>2, <2>3, UnansweredMore
  <2>5. note'.c = "SEND_END_OF_FILE"
    BY <1>8 DEF Tell, Note
  <2>6. Told'
    BY <1>4, <1>5, <2>5 DEF Told
  <2>7. Noted'
    BY <1>1, <1>3, <1>5, <1>8, <2>4, <2>6, NoRecFree DEF Noted, Kept
  <2>. QED BY <1>5, <2>7, Zenon DEF InStep, Phase
<1>9. CASE /\ Send(<<Packet(rec.path, local[rec.path][rec.pos + 1])>>)
           /\ rec' = [rec EXCEPT !.pos = @ + 1]
           /\ Tell("SEND_CHUNK") /\ clean' = clean
  <2>1. PICK m : m = Packet(rec.path, local[rec.path][rec.pos + 1])
    OBVIOUS
  <2>2. Stale(m)
    BY <2>1 DEF Stale, Packet
  <2>3. toServer' = toServer \o <<m>>
    BY <1>9, <2>1 DEF Send
  <2>4. Unanswered(toServer')
    BY <1>3, <2>2, <2>3, UnansweredMore
  <2>5. note'.c = "SEND_CHUNK"
    BY <1>9 DEF Tell, Note
  <2>6. /\ rec'.used = rec.used /\ rec'.recv = rec.recv /\ rec'.path = rec.path
        /\ rec'.fSendReady = rec.fSendReady /\ rec'.fSendAbort = rec.fSendAbort
    BY <1>9 DEF Typed, IsRec
  <2>7. Held(FALSE)'
    BY <1>3, <1>4, <1>5, <2>6 DEF Held
  <2>8. SendingFile'
    BY <1>1, <1>3, <1>5, <1>9, <2>4, <2>5, <2>6, <2>7 DEF SendingFile
  <2>. QED BY <1>5, <2>8, Zenon DEF InStep, Phase
<1>. QED BY <1>6, <1>7, <1>8, <1>9

LEMMA CleanAfterNoteInStep ==
  ASSUME Typed, InStep, CleanAfterNote, UNCHANGED dialogVars
  PROVE  InStep'
<1>1. /\ note = NoNote /\ clean /\ note' = note /\ clean' = FALSE /\ rec' = NoRec
      /\ listing' = listing /\ crashed' = crashed /\ sending' = sending
      /\ toViewer' = toViewer /\ toServer' = toServer
  BY DEF CleanAfterNote, FxClean, serverVars
<1>2. Common /\ Rest
  <2>1. note.c = "none"
    BY <1>1 DEF NoNote
  <2>2. ~Noted
    BY <1>1, <2>1 DEF Noted, Fails
  <2>. QED BY <1>1, <2>2, Zenon DEF InStep, Phase, Streaming, Receiving, SendingFile, Asking, Answering
<1>3. Common' /\ job' = job /\ posted' = posted /\ (BoxesOf(job) => BoxesOf(job'))
  BY <1>1, <1>2, RfbCommon DEF Common
<1>4. Kept'
  BY <1>1, NoRecFree DEF Kept
<1>5. Rest'
  BY <1>1, <1>2, <1>3, <1>4 DEF Rest
<1>. QED BY <1>3, <1>5, Zenon DEF InStep, Phase

LEMMA RfbInStep ==
  ASSUME ~IsSeq(Folder), Orderly, Typed, InStep, Rfb
  PROVE  InStep'
<1>1. RfbNext /\ UNCHANGED dialogVars
  BY DEF Rfb
<1>2. ~SendAbort
  BY SendingNow DEF SendAbort
<1>. QED BY <1>1, <1>2, FileTransferAccessInStep, ADrivesListInStep, ADirectoryInStep,
            EndOfListInStep, FileHeaderAnswerInStep, FilePacketInInStep, EndOfFileInInStep,
            AbortFileTransferInInStep, FileAcceptHeaderInStep, CommandReturnInStep,
            SendBlockInStep, CleanAfterNoteInStep DEF RfbNext

-----------------------------------------------------------------------------
(* The server: it takes a message it does not answer, or the last one.     *)

LEMMA ServerFrame ==
  ASSUME Common, ViewerRests
  PROVE  /\ Common' /\ shown' = shown /\ job' = job /\ panel' = panel /\ posted' = posted
         /\ commands' = commands /\ local' = local /\ rec' = rec /\ listing' = listing
         /\ note' = note /\ clean' = clean /\ crashed' = crashed
         /\ (Calm => Calm') /\ (Listed => Listed') /\ (Kept => Kept')
         /\ (Held(TRUE) => Held(TRUE)') /\ (Held(FALSE) => Held(FALSE)')
         /\ (BoxesOf(job) => BoxesOf(job'))
<1>1. /\ shown' = shown /\ job' = job /\ panel' = panel /\ posted' = posted
      /\ commands' = commands /\ local' = local /\ rec' = rec /\ listing' = listing
      /\ note' = note /\ clean' = clean /\ crashed' = crashed
  BY DEF ViewerRests, engineVars, dialogVars
<1>2. Common' /\ (Calm => Calm') /\ (Listed => Listed')
  BY <1>1 DEF Common, Calm, Listed
<1>3. (Held(TRUE) => Held(TRUE)') /\ (Held(FALSE) => Held(FALSE)') /\ (Kept => Kept')
  BY <1>1 DEF Held, Kept
<1>. QED BY <1>1, <1>2, <1>3

LEMMA ServerHead ==
  ASSUME Typed, InStep, NEW t, Receive(t)
  PROVE  /\ Common /\ toServer # <<>> /\ Head(toServer).t = t /\ toServer' = Tail(toServer)
         /\ Stale(Head(toServer)) \/ (Asking(Head(toServer)) /\ toServer' = <<>>)
<1>1. /\ toServer # <<>> /\ Head(toServer).t = t /\ toServer' = Tail(toServer) /\ Common
  BY DEF Receive, InStep
<1>2. ASSUME Unanswered(toServer) PROVE Stale(Head(toServer))
  BY <1>1, <1>2, UnansweredTail
<1>3. ~Streaming /\ ~Receiving
  BY <1>1, Zenon DEF Streaming, Receiving
<1>4. ASSUME NEW m PROVE ~Answering(m)
  BY <1>1, Zenon DEF Answering
<1>5. ASSUME NEW m, Asking(m)
      PROVE  Stale(Head(toServer)) \/ (Asking(Head(toServer)) /\ toServer' = <<>>)
  <2>1. PICK s : Unanswered(s) /\ toServer = s \o <<m>>
    BY <1>5 DEF Asking, Awaited
  <2>2. CASE s = <<>>
    <3>1. Head(toServer) = m /\ Tail(toServer) = <<>>
      BY <2>1, <2>2, AwaitedFirst
    <3>. QED BY <1>1, <1>5, <3>1
  <2>3. CASE s # <<>>
    BY <2>1, <2>3, AwaitedFirst
  <2>. QED BY <2>2, <2>3
<1>6. Rest \/ Noted \/ SendingFile => Unanswered(toServer)
  BY Zenon DEF Rest, Noted, SendingFile
<1>. QED BY <1>1, <1>2, <1>3, <1>4, <1>5, <1>6, Zenon DEF InStep, Phase

LEMMA StaleTaken ==
  ASSUME Typed, InStep, ViewerRests, NEW t, Receive(t), Stale(Head(toServer)),
         toViewer' = toViewer, sending' => sending
  PROVE  InStep'
<1>1. /\ Common /\ toServer # <<>> /\ toServer' = Tail(toServer)
  BY ServerHead
<1>2. /\ Common' /\ shown' = shown /\ job' = job /\ panel' = panel /\ posted' = posted
      /\ commands' = commands /\ local' = local /\ rec' = rec /\ listing' = listing
      /\ note' = note /\ clean' = clean /\ crashed' = crashed
      /\ (Calm => Calm') /\ (Listed => Listed') /\ (Kept => Kept')
      /\ (Held(TRUE) => Held(TRUE)') /\ (Held(FALSE) => Held(FALSE)')
      /\ (BoxesOf(job) => BoxesOf(job'))
  BY <1>1, ServerFrame
<1>3. Unanswered(toServer) => Unanswered(toServer')
  BY <1>1, UnansweredTail
<1>4. CASE Rest
  <2>1. Rest'
    BY <1>2, <1>3, <1>4 DEF Rest
  <2>. QED BY <1>2, <2>1, Zenon DEF InStep, Phase
<1>5. CASE Noted
  <2>1. note.c # "RECV_END_OF_FILE"
    BY <1>1, <1>5, Zenon DEF Noted, Told, Fails
  <2>2. Told'
    BY <1>2, <1>5, <2>1 DEF Noted, Told
  <2>3. Noted'
    BY <1>2, <1>3, <1>5, <2>2 DEF Noted
  <2>. QED BY <1>2, <2>3, Zenon DEF InStep, Phase
<1>6. CASE SendingFile
  <2>1. SendingFile'
    BY <1>2, <1>3, <1>6 DEF SendingFile
  <2>. QED BY <1>2, <2>1, Zenon DEF InStep, Phase
<1>7. ~Streaming /\ ~Receiving
  BY <1>1, Zenon DEF Streaming, Receiving
<1>8. ASSUME NEW m PROVE ~Answering(m)
  BY <1>1, Zenon DEF Answering
<1>9. ASSUME NEW m, Asking(m) PROVE InStep'
  <2>1. PICK s : Unanswered(s) /\ toServer = s \o <<m>>
    BY <1>9 DEF Asking, Awaited
  <2>2. ~Stale(m)
    BY <1>9 DEF Asking, Requested, Stale
  <2>3. s # <<>> /\ Unanswered(Tail(s)) /\ toServer' = Tail(s) \o <<m>>
    <3>1. s # <<>>
      <4>1. s = <<>> => Head(toServer) = m
        BY <2>1, AwaitedFirst
      <4>. QED BY <2>2, <4>1
    <3>2. Unanswered(Tail(s)) /\ Tail(toServer) = Tail(s) \o <<m>>
      BY <2>1, <3>1, AwaitedFirst
    <3>. QED BY <1>1, <3>1, <3>2
  <2>4. m.t # "header"
    <3>1. toServer # <<m>>
      <4>1. Head(<<m>>) = m
        OBVIOUS
      <4>. QED BY <2>2, <4>1
    <3>. QED BY <1>9, <3>1 DEF Asking, Requested
  <2>5. Awaited(m)'
    BY <2>3 DEF Awaited
  <2>6. Requested(m)'
    BY <1>2, <1>9, <2>4 DEF Asking, Requested
  <2>7. Asking(m)'
    BY <1>2, <1>9, <2>5, <2>6 DEF Asking
  <2>. QED BY <1>2, <2>7, Zenon DEF InStep, Phase
<1>. QED BY <1>4, <1>5, <1>6, <1>7, <1>8, <1>9, Zenon DEF InStep, Phase

\* The message that has been waited for, and what holds with it.
LEMMA Answered ==
  ASSUME Typed, InStep, ViewerRests, NEW t, Receive(t), NEW m, m = Head(toServer), ~Stale(m)
  PROVE  /\ Common' /\ shown' = shown /\ job' = job /\ panel' = panel /\ posted' = posted
         /\ commands' = commands /\ local' = local /\ rec' = rec /\ ~listing'
         /\ note' = NoNote /\ ~clean' /\ ~clean /\ Calm' /\ toServer' = <<>> /\ ~sending
         /\ (Listed => Listed')
         /\ (Held(TRUE) => Held(TRUE)') /\ (Held(FALSE) => Held(FALSE)')
         /\ m.t = t /\ Requested(m) /\ toViewer = <<>> /\ Calm /\ Common
<1>1. m.t = t /\ Common
  BY ServerHead
<1>2. Asking(m) /\ toServer' = <<>>
  BY <1>1, ServerHead
<1>3. /\ note = NoNote /\ ~clean /\ ~sending /\ ~listing /\ Calm /\ Requested(m)
      /\ toViewer = <<>>
  BY <1>2 DEF Asking
<1>4. /\ Common' /\ shown' = shown /\ job' = job /\ panel' = panel /\ posted' = posted
      /\ commands' = commands /\ local' = local /\ rec' = rec /\ listing' = listing
      /\ note' = note /\ clean' = clean
  BY <1>1, ServerFrame
<1>5. Calm'
  BY <1>3, <1>4 DEF Calm
<1>6. Listed => Listed'
  BY <1>4 DEF Listed
<1>7. (Held(TRUE) => Held(TRUE)') /\ (Held(FALSE) => Held(FALSE)')
  BY <1>1, ServerFrame
<1>8. ~listing' /\ ~clean' /\ note' = NoNote
  BY <1>3, <1>4
<1>. QED BY <1>1, <1>2, <1>3, <1>4, <1>5, <1>6, <1>7, <1>8, Zenon

LEMMA ReplyOne ==
  ASSUME toViewer = <<>>, NEW m, Reply(<<m>>)
  PROVE  toViewer' = <<m>>
<1>1. PICK l : l = <<m>>
  OBVIOUS
<1>2. IsSeq(l)
  BY <1>1, SeqOne
<1>3. <<>> \o l = l
  BY <1>2 DEF IsSeq
<1>. QED BY <1>1, <1>3 DEF Reply

LEMMA ReplyNone ==
  ASSUME Typed, Reply(<<>>)
  PROVE  toViewer' = toViewer
<1>1. toViewer \o <<>> = toViewer
  BY DEF Typed, IsSeq
<1>. QED BY <1>1 DEF Reply

LEMMA DrivesListInStep ==
  ASSUME Typed, InStep, DrivesList, ViewerRests
  PROVE  InStep'
<1>1. Receive("drives") /\ sending' = sending
  BY DEF DrivesList
<1>2. PICK m : m = Head(toServer) /\ ~Stale(m)
  <2>1. ~Stale(Head(toServer))
    BY <1>1 DEF Receive, Stale
  <2>. QED BY <2>1
<1>3. /\ Common' /\ shown' = shown /\ commands' = commands /\ rec' = rec /\ ~listing'
      /\ note' = NoNote /\ ~clean' /\ Calm' /\ toServer' = <<>> /\ ~sending
      /\ m.t = "drives" /\ Requested(m) /\ toViewer = <<>>
  BY <1>1, <1>2, Answered
<1>4. ~shown /\ commands # 0 /\ ~rec.used
  BY <1>3 DEF Requested
<1>5. PICK n : n = Msg("drives", <<>>, TRUE)
  OBVIOUS
<1>6. n.t = "drives" /\ Reply(<<n>>)
  BY <1>5 DEF Msg, DrivesList
<1>7. toViewer' = <<n>>
  BY <1>3, <1>6, ReplyOne
<1>8. Replied(n)'
  BY <1>3, <1>4, <1>6 DEF Replied
<1>9. Answering(n)'
  BY <1>1, <1>3, <1>7, <1>8 DEF Answering
<1>. QED BY <1>3, <1>9, Zenon DEF InStep, Phase

LEMMA FileTransferRequestInStep ==
  ASSUME Typed, InStep, FileTransferRequest, ViewerRests
  PROVE  InStep'
<1>1. Receive("request") /\ remote' = remote
  BY DEF FileTransferRequest
<1>2. PICK m : m = Head(toServer) /\ ~Stale(m)
  <2>1. ~Stale(Head(toServer))
    BY <1>1 DEF Receive, Stale
  <2>. QED BY <2>1
<1>3. /\ Common' /\ rec' = rec /\ ~listing'
      /\ note' = NoNote /\ ~clean' /\ Calm' /\ toServer' = <<>> /\ ~sending
      /\ (Held(TRUE) => Held(TRUE)')
      /\ m.t = "request" /\ Requested(m) /\ toViewer = <<>>
  BY <1>1, <1>2, Answered
<1>4. Held(TRUE) /\ ~rec.fSendReady /\ rec.h = "-1" /\ m.p = rec.path
  BY <1>3 DEF Requested
<1>5. \/ /\ IsFile(remote, m.p)
         /\ fd' = [mode |-> "r", path |-> m.p, pos |-> 0]
         /\ sending' = FALSE
         /\ Reply(<<Msg("header", m.p, TRUE)>>)
      \/ /\ Reply(<<Msg("header", m.p, FALSE)>>)
         /\ sending' = sending
  BY <1>2 DEF FileTransferRequest
<1>6. PICK n : /\ n.t = "header" /\ Reply(<<n>>)
               /\ n.ok => /\ IsFile(remote, m.p)
                          /\ fd' = [mode |-> "r", path |-> m.p, pos |-> 0]
  <2>1. Msg("header", m.p, TRUE).t = "header" /\ Msg("header", m.p, FALSE).t = "header"
        /\ ~ Msg("header", m.p, FALSE).ok
    BY DEF Msg
  <2>. QED BY <1>5, <2>1
<1>7. toViewer' = <<n>> /\ ~sending'
  BY <1>3, <1>5, <1>6, ReplyOne
<1>8. Replied(n)'
  BY <1>1, <1>3, <1>4, <1>6 DEF Replied
<1>9. Answering(n)'
  BY <1>1, <1>3, <1>7, <1>8 DEF Answering
<1>. QED BY <1>3, <1>9, Zenon DEF InStep, Phase

LEMMA FileTransferOfferInStep ==
  ASSUME Typed, InStep, FileTransferOffer, ViewerRests
  PROVE  InStep'
<1>1. Receive("offer")
  BY DEF FileTransferOffer
<1>2. PICK m : m = Head(toServer) /\ ~Stale(m)
  <2>1. ~Stale(Head(toServer))
    BY <1>1 DEF Receive, Stale
  <2>. QED BY <2>1
<1>3. /\ Common' /\ rec' = rec /\ ~listing'
      /\ note' = NoNote /\ ~clean' /\ Calm' /\ toServer' = <<>> /\ ~sending
      /\ (Held(FALSE) => Held(FALSE)')
      /\ m.t = "offer" /\ Requested(m) /\ toViewer = <<>>
  BY <1>1, <1>2, Answered
<1>4. Held(FALSE) /\ ~rec.fSendReady
  BY <1>3 DEF Requested
<1>5. PICK n : n.t = "accept" /\ Reply(<<n>>) /\ ~sending'
  <2>1. ASSUME NEW p PROVE Msg("accept", p, TRUE).t = "accept" /\ Msg("accept", p, FALSE).t = "accept"
    BY DEF Msg
  <2>. QED BY <1>3, <2>1 DEF FileTransferOffer
<1>6. toViewer' = <<n>>
  BY <1>3, <1>5, ReplyOne
<1>7. Replied(n)'
  BY <1>3, <1>4, <1>5 DEF Replied
<1>8. Answering(n)'
  BY <1>3, <1>5, <1>6, <1>7 DEF Answering
<1>. QED BY <1>3, <1>8, Zenon DEF InStep, Phase

LEMMA CommandDirCreateInStep ==
  ASSUME Typed, InStep, CommandDirCreate, ViewerRests
  PROVE  InStep'
<1>1. Receive("mkdir") /\ sending' = sending
  BY DEF CommandDirCreate
<1>2. PICK m : m = Head(toServer) /\ ~Stale(m)
  <2>1. ~Stale(Head(toServer))
    BY <1>1 DEF Receive, Stale
  <2>. QED BY <2>1
<1>3. /\ Common' /\ job' = job /\ rec' = rec /\ ~listing'
      /\ note' = NoNote /\ ~clean' /\ Calm' /\ toServer' = <<>> /\ ~sending
      /\ m.t = "mkdir" /\ Requested(m) /\ toViewer = <<>>
  BY <1>1, <1>2, Answered
<1>4. job.op \in ToRemote /\ ~rec.used
  BY <1>3 DEF Requested
<1>5. PICK n : n.t = "mkdirDone" /\ Reply(<<n>>)
  <2>1. ASSUME NEW p, NEW ok PROVE Msg("mkdirDone", p, ok).t = "mkdirDone"
    BY DEF Msg
  <2>. QED BY <2>1 DEF CommandDirCreate
<1>6. toViewer' = <<n>>
  BY <1>3, <1>5, ReplyOne
<1>7. Replied(n)'
  BY <1>3, <1>4, <1>5 DEF Replied
<1>8. Answering(n)'
  BY <1>1, <1>3, <1>6, <1>7 DEF Answering
<1>. QED BY <1>3, <1>8, Zenon DEF InStep, Phase

LEMMA CommandFileDeleteInStep ==
  ASSUME Typed, InStep, CommandFileDelete, ViewerRests
  PROVE  InStep'
<1>1. Receive("delete") /\ sending' = sending
  BY DEF CommandFileDelete
<1>2. PICK m : m = Head(toServer) /\ ~Stale(m)
  <2>1. ~Stale(Head(toServer))
    BY <1>1 DEF Receive, Stale
  <2>. QED BY <2>1
<1>3. /\ Common' /\ job' = job /\ rec' = rec /\ ~listing'
      /\ note' = NoNote /\ ~clean' /\ Calm' /\ toServer' = <<>> /\ ~sending
      /\ m.t = "delete" /\ Requested(m) /\ toViewer = <<>>
  BY <1>1, <1>2, Answered
<1>4. job.op \in Ops /\ ~rec.used
  BY <1>3 DEF Requested
<1>5. PICK n : n.t = "deleteDone" /\ Reply(<<n>>)
  <2>1. ASSUME NEW p, NEW ok PROVE Msg("deleteDone", p, ok).t = "deleteDone"
    BY DEF Msg
  <2>. QED BY <2>1 DEF CommandFileDelete
<1>6. toViewer' = <<n>>
  BY <1>3, <1>5, ReplyOne
<1>7. Replied(n)'
  BY <1>3, <1>4, <1>5 DEF Replied
<1>8. Answering(n)'
  BY <1>1, <1>3, <1>6, <1>7 DEF Answering
<1>. QED BY <1>3, <1>8, Zenon DEF InStep, Phase

LEMMA ServerAbortFileTransferInStep ==
  ASSUME Typed, InStep, AbortFileTransfer, ViewerRests
  PROVE  InStep'
<1>1. Receive("abort")
  BY DEF AbortFileTransfer
<1>2. PICK m : m = Head(toServer) /\ ~Stale(m)
  <2>1. ~Stale(Head(toServer))
    BY <1>1 DEF Receive, Stale
  <2>. QED BY <2>1
<1>3. /\ Common' /\ shown' = shown /\ job' = job /\ commands' = commands /\ rec' = rec
      /\ posted' = posted /\ ~listing' /\ note' = NoNote /\ ~clean' /\ Calm' /\ toServer' = <<>>
      /\ ~sending /\ m.t = "abort" /\ Requested(m) /\ toViewer = <<>> /\ Calm /\ ~clean
  BY <1>1, <1>2, Answered
<1>4. m.ok /\ ~shown /\ commands # 0 /\ ~rec.used
  BY <1>3 DEF Requested
<1>5. CASE fd.mode # "none"
  <2>1. toViewer' = toViewer /\ sending' = FALSE
    BY <1>5, ReplyNone DEF AbortFileTransfer
  <2>2. ~job.asked /\ job.boxes = {} /\ posted = FALSE
    BY <1>4 DEF Typed, NoJob
  <2>3. BoxesOf(job') /\ Kept'
    BY <1>3, <1>4, <2>2 DEF BoxesOf, Kept
  <2>4. Rest'
    BY <1>3, <2>1, <2>2, <2>3, UnansweredNone DEF Rest
  <2>. QED BY <1>3, <2>4, Zenon DEF InStep, Phase
<1>6. CASE fd.mode = "none"
  <2>1. PICK n : n = Msg("access", <<>>, ~viewOnly)
    OBVIOUS
  <2>2. n.t = "access" /\ Reply(<<n>>) /\ sending' = sending
    BY <1>2, <1>4, <1>6, <2>1 DEF AbortFileTransfer, Msg
  <2>3. toViewer' = <<n>>
    BY <1>3, <2>2, ReplyOne
  <2>4. Replied(n)'
    BY <1>3, <1>4, <2>2 DEF Replied
  <2>5. Answering(n)'
    BY <1>3, <2>2, <2>3, <2>4 DEF Answering
  <2>. QED BY <1>3, <2>5, Zenon DEF InStep, Phase
<1>. QED BY <1>5, <1>6

LEMMA ServerFilePacketInStep ==
  ASSUME Typed, InStep, FilePacket, ViewerRests
  PROVE  InStep'
<1>1. Receive("packet") /\ toViewer' = toViewer /\ (sending' => sending)
  BY DEF FilePacket
<1>2. Stale(Head(toServer))
  BY <1>1 DEF Receive, Stale
<1>. QED BY <1>1, <1>2, StaleTaken

LEMMA ServerEndOfFileInStep ==
  ASSUME Typed, InStep, EndOfFile, ViewerRests
  PROVE  InStep'
<1>1. Receive("eof") /\ toViewer' = toViewer /\ (sending' => sending)
  BY DEF EndOfFile
<1>2. Stale(Head(toServer))
  BY <1>1 DEF Receive, Stale
<1>. QED BY <1>1, <1>2, StaleTaken

\* A listing: messages with an item each, and its end.
LEMMA ListingAnswer ==
  ASSUME NEW m, m.t = "dir", NEW e, e.t = "end", NEW ms, IsSeq(ms),
         \A k \in 1 .. Len(ms) : ms[k].t = "dir", NEW q, q = (<<m>> \o ms) \o <<e>>
  PROVE  /\ q # <<>> /\ Len(q) > 1
         /\ \A k \in 1 .. Len(q) : q[k].t = (IF k = Len(q) THEN "end" ELSE "dir")
<1>1. PICK a : a = <<m>>
  OBVIOUS
<1>2. PICK z : z = <<e>>
  OBVIOUS
<1>3. /\ IsSeq(a) /\ Len(a) = 1 /\ a[1] = m /\ IsSeq(z) /\ Len(z) = 1 /\ z[1] = e
      /\ Len(ms) \in Nat
  BY <1>1, <1>2, SeqOne, SeqKnown
<1>13. IsSeq(a) /\ IsSeq(ms)
  BY <1>3
<1>14. IsSeq(z)
  BY <1>3
<1>. DEFINE b == a \o ms
<1>5. /\ IsSeq(b) /\ Len(b) = Len(a) + Len(ms)
      /\ \A k \in 1 .. Len(a) : b[k] = a[k]
      /\ \A k \in 1 .. Len(ms) : b[Len(a) + k] = ms[k]
  BY <1>13, SeqConcat
<1>6. q = b \o z
  BY <1>1, <1>2
<1>. HIDE DEF b
<1>. DEFINE r == b \o z
<1>4. /\ IsSeq(r) /\ Len(r) = Len(b) + Len(z)
      /\ \A k \in 1 .. Len(b) : r[k] = b[k]
      /\ \A k \in 1 .. Len(z) : r[Len(b) + k] = z[k]
  <2>1. IsSeq(b)
    BY <1>5
  <2>. QED BY <2>1, <1>14, SeqConcat
<1>. HIDE DEF r
<1>11. q = r
  BY <1>6 DEF r
<1>7. /\ IsSeq(q) /\ Len(q) = Len(b) + Len(z)
      /\ \A k \in 1 .. Len(b) : q[k] = b[k]
      /\ \A k \in 1 .. Len(z) : q[Len(b) + k] = z[k]
  BY <1>4, <1>11
<1>8. Len(q) = Len(ms) + 2 /\ Len(b) = Len(ms) + 1
  BY <1>3, <1>5, <1>7
<1>9. ASSUME NEW k \in 1 .. Len(q), k # Len(q) PROVE q[k].t = "dir"
  <2>1. k \in 1 .. Len(b) /\ q[k] = b[k]
    BY <1>3, <1>7, <1>8, <1>9
  <2>2. CASE k = 1
    BY <2>1, <2>2, <1>3, <1>5
  <2>3. CASE k # 1
    <3>1. k - 1 \in 1 .. Len(ms) /\ Len(a) + (k - 1) = k
      BY <2>1, <2>3, <1>3, <1>8
    <3>2. b[k] = ms[k - 1]
      BY <3>1, <1>5
    <3>. QED BY <2>1, <3>1, <3>2
  <2>. QED BY <2>2, <2>3
<1>10. q[Len(q)].t = "end"
  BY <1>3, <1>7, <1>8
<1>12. Len(q) > 1 /\ q # <<>>
  <2>1. Len(q) > 1
    BY <1>3, <1>8
  <2>2. IsSeq(q) /\ Len(<<>>) = 0
    BY <1>7
  <2>. QED BY <2>1, <2>2
<1>. QED BY <1>9, <1>10, <1>12

LEMMA DirContentInStep ==
  ASSUME Typed, InStep, DirContent, ViewerRests
  PROVE  InStep'
<1>1. Receive("dir") /\ sending' = sending /\ remote' = remote
  BY DEF DirContent
<1>2. PICK m : m = Head(toServer) /\ ~Stale(m)
  <2>1. ~Stale(Head(toServer))
    BY <1>1 DEF Receive, Stale
  <2>. QED BY <2>1
<1>3. /\ Common' /\ panel' = panel /\ rec' = rec /\ ~listing'
      /\ note' = NoNote /\ ~clean' /\ Calm' /\ toServer' = <<>> /\ ~sending
      /\ (Listed => Listed') /\ m.t = "dir" /\ Requested(m) /\ toViewer = <<>>
  BY <1>1, <1>2, Answered
<1>4. Listed /\ (panel.path \/ m.p = <<>>) /\ ~rec.used
  BY <1>3 DEF Requested
<1>5. PICK items : items = SetToSeq(Listing(remote, m.p))
  OBVIOUS
<1>6. items \in Seq(Listing(remote, m.p))
  BY <1>5, ListingFinite, SetToSeqListed, SystemListable DEF Typed
<1>. DEFINE ms == [k \in DOMAIN items |-> Msg("dir", items[k].p, items[k].d)]
            d == Msg("dir", m.p, TRUE)
            e(ok) == Msg("end", m.p, ok)
            q == (<<d>> \o ms) \o <<e(TRUE)>>
<1>7. IsSeq(ms) /\ \A k \in 1 .. Len(ms) : ms[k].t = "dir"
  <2>1. DOMAIN items = 1 .. Len(items) /\ Len(items) \in Nat
    BY <1>6
  <2>. DEFINE T == {ms[k] : k \in DOMAIN items}
  <2>2. ms \in Seq(T) /\ Len(ms) = Len(items)
    BY <2>1
  <2>3. \A k \in DOMAIN items : ms[k].t = "dir"
    BY DEF Msg
  <2>. HIDE DEF ms
  <2>. QED BY <2>1, <2>2, <2>3 DEF IsSeq
<1>8. d.t = "dir" /\ e(TRUE).t = "end" /\ e(FALSE).t = "end"
  BY DEF Msg
<1>9. /\ IsFolder(remote, m.p) => Reply(q)
      /\ ~IsFolder(remote, m.p) => Reply(<<e(FALSE)>>)
  BY <1>2, <1>5 DEF DirContent
<1>. HIDE DEF d, e, ms
<1>10. Streaming'
  <2>1. CASE IsFolder(remote, m.p)
    <3>1. /\ q # <<>> /\ Len(q) > 1
          /\ \A k \in 1 .. Len(q) : q[k].t = (IF k = Len(q) THEN "end" ELSE "dir")
      <4>1. PICK n : n = e(TRUE)
        OBVIOUS
      <4>2. n.t = "end" /\ q = (<<d>> \o ms) \o <<n>>
        BY <1>8, <4>1
      <4>. HIDE DEF q
      <4>. QED BY <1>7, <1>8, <4>2, ListingAnswer
    <3>2. toViewer' = q
      <4>1. IsSeq(q)
        <5>1. IsSeq(<<d>>) /\ IsSeq(<<e(TRUE)>>)
          BY SeqOne
        <5>2. IsSeq(<<d>> \o ms)
          BY <5>1, <1>7, SeqConcat
        <5>. QED BY <5>1, <5>2, SeqConcat
      <4>. HIDE DEF q
      <4>2. <<>> \o q = q
        BY <4>1 DEF IsSeq
      <4>. QED BY <1>3, <1>9, <2>1, <4>2 DEF Reply
    <3>. HIDE DEF q
    <3>. QED BY <1>1, <1>3, <1>4, <3>1, <3>2 DEF Streaming
  <2>2. CASE ~IsFolder(remote, m.p)
    <3>1. panel.path
      BY <2>2, <1>4 DEF IsFolder
    <3>2. PICK n : n = e(FALSE)
      OBVIOUS
    <3>3. toViewer' = <<n>> /\ n.t = "end"
      BY <1>3, <1>8, <1>9, <2>2, <3>2, ReplyOne
    <3>4. PICK l : l = <<n>>
      OBVIOUS
    <3>5. IsSeq(l) /\ Len(l) = 1 /\ l[1] = n /\ l # <<>>
      BY <3>4, SeqOne
    <3>6. \A k \in 1 .. Len(l) : l[k].t = (IF k = Len(l) THEN "end" ELSE "dir")
      BY <3>3, <3>5
    <3>7. toViewer' = l
      BY <3>3, <3>4
    <3>. QED BY <1>1, <1>3, <1>4, <3>1, <3>5, <3>6, <3>7 DEF Streaming
  <2>. QED BY <2>1, <2>2
<1>. QED BY <1>3, <1>10, Zenon DEF InStep, Phase

\* Only blocks are on their way, and what comes behind them.
Blocks(l, r) == \A k \in 1 .. Len(toViewer) :
   toViewer[k].t = "packet" /\ Len(l) + k <= Len(r) /\ toViewer[k].b = r[Len(l) + k]
Behindmost(m, l, r, n, more) ==
  \/ m.t = "packet" /\ Len(l) + n <= Len(r) /\ m.b = r[Len(l) + n]
  \/ ~more /\ m.t = "eof" /\ Len(l) + n = Len(r) + 1
  \/ ~more /\ m.t = "abort"

LEMMA ComingMore ==
  ASSUME NEW l, NEW r, IsSeq(toViewer), Blocks(l, r), NEW m, toViewer' = toViewer \o <<m>>,
         NEW n, n = Len(toViewer) + 1, Behindmost(m, l, r, n, sending')
  PROVE  Coming(l, r)' /\ Len(toViewer') = n
<1>1. IsSeq(<<m>>) /\ Len(<<m>>) = 1 /\ <<m>>[1] = m /\ Len(toViewer) \in Nat
  BY SeqOne, SeqKnown
<1>2. IsSeq(toViewer) /\ IsSeq(<<m>>)
  BY <1>1
<1>. DEFINE q == toViewer \o <<m>>
<1>3. /\ IsSeq(q) /\ Len(q) = Len(toViewer) + Len(<<m>>)
      /\ \A k \in 1 .. Len(toViewer) : q[k] = toViewer[k]
      /\ \A k \in 1 .. Len(<<m>>) : q[Len(toViewer) + k] = <<m>>[k]
  BY <1>2, SeqConcat
<1>4. Len(q) = n /\ q[n] = m
  BY <1>1, <1>3
<1>. HIDE DEF q
<1>5. ASSUME NEW k \in 1 .. Len(q)
      PROVE  \/ q[k].t = "packet" /\ Len(l) + k <= Len(r) /\ q[k].b = r[Len(l) + k]
             \/ ~sending' /\ k = Len(q) /\ q[k].t = "eof" /\ Len(l) + k = Len(r) + 1
             \/ ~sending' /\ k = Len(q) /\ q[k].t = "abort"
  <2>1. CASE k = n
    BY <2>1, <1>4 DEF Behindmost
  <2>2. CASE k # n
    <3>1. k \in 1 .. Len(toViewer) /\ q[k] = toViewer[k]
      BY <2>2, <1>1, <1>3, <1>4
    <3>. QED BY <3>1 DEF Blocks
  <2>. QED BY <2>1, <2>2
<1>6. toViewer' = q
  BY DEF q
<1>7. Coming(l, r)'
  BY <1>5, <1>6 DEF Coming
<1>. QED BY <1>4, <1>6, <1>7

\* The server reads the next block, the end of the file or nothing.
LEMMA ChunkArrives ==
  ASSUME NEW l, NEW r, IsSeq(l), IsSeq(r), Len(l) <= Len(r), l = SubSeq(r, 1, Len(l)),
         IsSeq(toViewer), Blocks(l, r), IsFile(remote, rec.path), r = remote[rec.path],
         fd = [mode |-> "r", path |-> rec.path, pos |-> Len(l) + Len(toViewer)],
         Chunk(fd), rec' = rec
  PROVE  Arrives(l, r)'
<1>1. Len(l) \in Nat /\ Len(r) \in Nat /\ Len(toViewer) \in Nat
  BY SeqKnown
<1>2. PICK n : n = Len(toViewer) + 1
  OBVIOUS
<1>3. PICK a \in Nat : a = Len(l) + Len(toViewer)
  BY <1>1
<1>4. n \in Nat /\ Len(l) + n = a + 1 /\ a <= Len(r)
  <2>1. CASE Len(toViewer) = 0
    BY <2>1, <1>1, <1>2, <1>3
  <2>2. CASE Len(toViewer) # 0
    <3>1. Len(toViewer) \in 1 .. Len(toViewer)
      BY <1>1, <2>2
    <3>2. Len(l) + Len(toViewer) <= Len(r)
      BY <3>1 DEF Blocks
    <3>. QED BY <3>2, <1>1, <1>2, <1>3
  <2>. QED BY <2>1, <2>2
<1>5. fd.mode = "r" /\ fd.path = rec.path /\ fd.pos = a
  BY <1>3
<1>6. \/ Reply(<<Msg("abort", <<>>, TRUE)>>) /\ sending' = FALSE
      \/ Reply(<<Msg("eof", <<>>, TRUE)>>) /\ sending' = FALSE /\ a >= Len(r)
      \/ /\ Reply(<<Packet(rec.path, r[a + 1])>>) /\ ~(a >= Len(r))
         /\ fd' = [fd EXCEPT !.pos = @ + 1] /\ sending' = TRUE
  BY <1>5 DEF Chunk
<1>7. PICK m : /\ toViewer' = toViewer \o <<m>>
               /\ \/ m.t = "abort" /\ sending' = FALSE
                  \/ m.t = "eof" /\ sending' = FALSE /\ a >= Len(r)
                  \/ /\ m.t = "packet" /\ m.b = r[a + 1] /\ ~(a >= Len(r))
                     /\ fd' = [fd EXCEPT !.pos = @ + 1] /\ sending' = TRUE
  <2>1. Msg("abort", <<>>, TRUE).t = "abort" /\ Msg("eof", <<>>, TRUE).t = "eof"
    BY DEF Msg
  <2>2. ASSUME NEW p, NEW b PROVE Packet(p, b).t = "packet" /\ Packet(p, b).b = b
    BY DEF Packet
  <2>3. CASE Reply(<<Msg("abort", <<>>, TRUE)>>) /\ sending' = FALSE
    BY <2>1, <2>3 DEF Reply
  <2>4. CASE Reply(<<Msg("eof", <<>>, TRUE)>>) /\ sending' = FALSE /\ a >= Len(r)
    BY <2>1, <2>4 DEF Reply
  <2>5. CASE /\ Reply(<<Packet(rec.path, r[a + 1])>>) /\ ~(a >= Len(r))
             /\ fd' = [fd EXCEPT !.pos = @ + 1] /\ sending' = TRUE
    <3>1. PICK m : m = Packet(rec.path, r[a + 1])
      OBVIOUS
    <3>2. m.t = "packet" /\ m.b = r[a + 1] /\ toViewer' = toViewer \o <<m>>
      BY <2>2, <2>5, <3>1 DEF Reply
    <3>. QED BY <2>5, <3>2
  <2>. QED BY <1>6, <2>3, <2>4, <2>5
<1>8. Behindmost(m, l, r, n, sending')
  <2>1. CASE m.t = "abort" /\ sending' = FALSE
    BY <2>1 DEF Behindmost
  <2>2. CASE m.t = "eof" /\ sending' = FALSE /\ a >= Len(r)
    <3>1. Len(l) + n = Len(r) + 1
      BY <2>2, <1>1, <1>4
    <3>. QED BY <2>2, <3>1 DEF Behindmost
  <2>3. CASE m.t = "packet" /\ m.b = r[a + 1] /\ ~(a >= Len(r))
    <3>1. Len(l) + n <= Len(r) /\ Len(l) + n = a + 1
      BY <2>3, <1>1, <1>4
    <3>. QED BY <2>3, <3>1 DEF Behindmost
  <2>. QED BY <1>7, <2>1, <2>2, <2>3
<1>9. Coming(l, r)' /\ Len(toViewer') = n
  BY <1>2, <1>7, <1>8, ComingMore
<1>10. sending' => fd' = [mode |-> "r", path |-> rec'.path, pos |-> Len(l) + Len(toViewer')]
  <2>1. sending' => fd' = [fd EXCEPT !.pos = @ + 1]
    BY <1>7
  <2>2. fd.pos + 1 = Len(l) + Len(toViewer')
    BY <1>4, <1>5, <1>9
  <2>. QED BY <2>1, <2>2
<1>. QED BY <1>9, <1>10 DEF Arrives

\* What the server does to the record and the files of the file that arrives.
LEMMA ChunkInStep ==
  ASSUME Typed, Common', ViewerRests, remote' = remote, toServer' = <<>>,
         note = NoNote \/ note.c = "RECV_CHUNK", ~clean, ~listing, Calm,
         Held(TRUE), rec.h = "write", ~rec.fSendReady,
         IsFile(local, rec.path), IsFile(remote, rec.path),
         NEW l, l = local[rec.path], NEW r, r = remote[rec.path], Arrives(l, r)'
  PROVE  InStep'
<1>1. /\ job' = job /\ posted' = posted /\ local' = local /\ rec' = rec
      /\ listing' = listing /\ note' = note /\ clean' = clean
  BY DEF ViewerRests, engineVars, dialogVars
<1>2. Held(TRUE)' /\ Calm'
  BY <1>1 DEF Held, Calm
<1>3. Arrives(local[rec.path], remote[rec.path])'
  BY <1>1
<1>4. Receiving'
  BY <1>1, <1>2, <1>3 DEF Receiving
<1>. QED BY <1>4, Zenon DEF InStep, Phase

LEMMA FileHeaderInStep ==
  ASSUME Typed, InStep, FileHeader, ViewerRests
  PROVE  InStep'
<1>1. Receive("header") /\ remote' = remote
  BY DEF FileHeader
<1>2. Head(toServer).t = "header"
  BY <1>1 DEF Receive
<1>3. CASE ~Head(toServer).ok
  <2>1. Stale(Head(toServer))
    BY <1>2, <1>3 DEF Stale
  <2>2. Reply(<<>>) /\ sending' = sending
    BY <1>3 DEF FileHeader
  <2>3. toViewer' = toViewer /\ (sending' => sending)
    BY <2>2, ReplyNone
  <2>. QED BY <1>1, <2>1, <2>3, StaleTaken
<1>4. CASE Head(toServer).ok
  <2>1. PICK m : m = Head(toServer) /\ ~Stale(m)
    <3>1. ~Stale(Head(toServer))
      BY <1>2, <1>4 DEF Stale
    <3>. QED BY <3>1
  <2>2. /\ Common' /\ note' = NoNote /\ ~clean /\ ~clean' /\ toServer' = <<>> /\ ~listing'
        /\ Calm /\ m.t = "header" /\ Requested(m) /\ toViewer = <<>>
    BY <1>1, <2>1, Answered
  <2>3. note = NoNote /\ ~listing /\ rec' = rec /\ clean' = clean
    BY <2>2 DEF ViewerRests, engineVars
  <2>4. /\ Held(TRUE) /\ ~rec.fSendReady /\ rec.h = "write"
        /\ IsFile(local, rec.path) /\ local[rec.path] = <<>>
        /\ IsFile(remote, rec.path) /\ fd = [mode |-> "r", path |-> rec.path, pos |-> 0]
    BY <2>2 DEF Requested
  <2>5. PICK l : l = local[rec.path]
    OBVIOUS
  <2>6. PICK r : r = remote[rec.path]
    OBVIOUS
  <2>7. /\ IsSeq(l) /\ IsSeq(r) /\ l = <<>> /\ Len(l) = 0 /\ Len(r) \in Nat
        /\ l = SubSeq(r, 1, Len(l)) /\ Len(l) <= Len(r)
    <3>1. IsSeq(r)
      BY <2>4, <2>6, SystemListable DEF Typed
    <3>2. PICK e : e = <<>>
      OBVIOUS
    <3>3. IsSeq(e) /\ Len(e) = 0
      BY <3>2, SeqEmpty
    <3>4. l = e
      BY <2>4, <2>5, <3>2
    <3>5. Len(r) \in Nat
      BY <3>1, SeqKnown
    <3>6. SubSeq(r, 1, 0) = <<>>
      <4>1. PICK S : r \in Seq(S)
        BY <3>1 DEF IsSeq
      <4>. QED BY <4>1, <3>5
    <3>. QED BY <3>1, <3>2, <3>3, <3>4, <3>5, <3>6
  <2>8. IsSeq(toViewer) /\ Len(toViewer) = 0
    BY <2>2, SeqEmpty
  <2>9. Blocks(l, r)
    BY <2>8 DEF Blocks
  <2>10. fd = [mode |-> "r", path |-> rec.path, pos |-> Len(l) + Len(toViewer)]
    <3>1. Len(l) + Len(toViewer) = 0
      BY <2>7, <2>8
    <3>. QED BY <2>4, <3>1
  <2>11. Chunk(fd) \/ (sending' = TRUE /\ Reply(<<>>) /\ fd' = fd)
    BY <1>4 DEF FileHeader
  <2>12. Arrives(l, r)'
    <3>1. CASE Chunk(fd)
      BY <2>3, <2>4, <2>6, <2>7, <2>8, <2>9, <2>10, <3>1, ChunkArrives
    <3>2. CASE sending' = TRUE /\ Reply(<<>>) /\ fd' = fd
      <4>1. toViewer' = toViewer
        BY <3>2, ReplyNone
      <4>2. Coming(l, r)'
        BY <2>8, <4>1 DEF Coming
      <4>. QED BY <2>3, <2>7, <2>10, <3>2, <4>1, <4>2 DEF Arrives
    <3>. QED BY <2>11, <3>1, <3>2
  <2>. QED BY <1>1, <2>2, <2>3, <2>4, <2>5, <2>6, <2>12, ChunkInStep
<1>. QED BY <1>3, <1>4

LEMMA SendFileTransferChunkInStep ==
  ASSUME Typed, InStep, SendFileTransferChunk, ViewerRests
  PROVE  InStep'
<1>1. /\ sending /\ Chunk(fd) /\ remote' = remote /\ toServer' = toServer
  BY DEF SendFileTransferChunk
<1>2. Receiving /\ Common
  BY <1>1, Zenon DEF InStep, Phase, Rest, Streaming, Noted, SendingFile, Asking, Answering
<1>3. /\ note = NoNote \/ note.c = "RECV_CHUNK"
      /\ toServer = <<>> /\ ~clean /\ ~listing /\ Calm
      /\ Held(TRUE) /\ rec.h = "write" /\ ~rec.fSendReady
      /\ IsFile(local, rec.path) /\ IsFile(remote, rec.path)
      /\ Arrives(local[rec.path], remote[rec.path])
  BY <1>2 DEF Receiving
<1>4. Common' /\ rec' = rec
  BY <1>2, ServerFrame
<1>5. PICK l : l = local[rec.path]
  OBVIOUS
<1>6. PICK r : r = remote[rec.path]
  OBVIOUS
<1>7. IsSeq(l) /\ IsSeq(r) /\ IsSeq(toViewer)
  BY <1>3, <1>5, <1>6, SystemListable DEF Typed
<1>8. /\ Len(l) <= Len(r) /\ l = SubSeq(r, 1, Len(l)) /\ Coming(l, r)
      /\ fd = [mode |-> "r", path |-> rec.path, pos |-> Len(l) + Len(toViewer)]
  BY <1>1, <1>3, <1>5, <1>6 DEF Arrives
<1>9. Blocks(l, r)
  BY <1>1, <1>8 DEF Coming, Blocks
<1>10. Arrives(l, r)'
  BY <1>1, <1>3, <1>4, <1>6, <1>7, <1>8, <1>9, ChunkArrives
<1>11. toServer' = <<>>
  BY <1>1, <1>3
<1>. QED BY <1>1, <1>3, <1>4, <1>5, <1>6, <1>10, <1>11, ChunkInStep

LEMMA ServerInStep ==
  ASSUME Typed, InStep, Server
  PROVE  InStep'
<1>1. ServerNext /\ ViewerRests
  BY DEF Server, ViewerRests
<1>. QED BY <1>1, DrivesListInStep, DirContentInStep, FileTransferRequestInStep, FileHeaderInStep,
     FileTransferOfferInStep, ServerFilePacketInStep, ServerEndOfFileInStep,
     ServerAbortFileTransferInStep, CommandDirCreateInStep, CommandFileDeleteInStep,
     SendFileTransferChunkInStep DEF ServerNext

LEMMA HearInStep ==
  ASSUME Typed, InStep, Hear
  PROVE  InStep'
  BY FilexferDrivesInStep, PermissionDeniedInStep, NobodyHearsNever, FilexferPathInStep,
     FilexferFindDataInStep, FilexferEndOfListInStep, FilexferFileChunkInStep,
     FilexferEndOfFileInStep, FilexferFailInStep, FilexferDeleteResultInStep,
     FilexferMkDirResultInStep DEF Hear

-----------------------------------------------------------------------------
(* The transfer is in step.                                                *)

LEMMA InStepInit == Init => InStep
<1>. SUFFICES ASSUME Init PROVE InStep
  OBVIOUS
<1>1. /\ sending = FALSE /\ toServer = <<>> /\ toViewer = <<>> /\ rec = NoRec
      /\ listing = FALSE /\ note = NoNote /\ clean = FALSE /\ crashed = FALSE
      /\ shown = FALSE /\ job = NoJob /\ posted = FALSE
  BY DEF Init, ServerInit, EngineInit, DialogInit
<1>2. /\ job.op = "NONE" /\ job.scan = <<>> /\ ~job.cancel /\ ~job.asked /\ job.boxes = {}
  BY <1>1 DEF NoJob
<1>3. ~rec.used
  BY <1>1, NoRecTyped
<1>4. Common
  BY <1>1, <1>2 DEF Common
<1>5. Kept /\ BoxesOf(job)
  BY <1>1, <1>2, <1>3 DEF Kept, BoxesOf
<1>6. Rest
  BY <1>1, <1>2, <1>5, UnansweredNone DEF Rest
<1>. QED BY <1>4, <1>6, Zenon DEF InStep, Phase

LEMMA InStepNext ==
  ASSUME ~IsSeq(Folder), Orderly, Typed, InStep, [Next]_vars
  PROVE  InStep'
<1>1. CASE Server
  BY <1>1, ServerInStep
<1>2. CASE Rfb
  BY <1>2, RfbInStep
<1>3. CASE Hear
  BY <1>3, HearInStep
<1>4. CASE WmEndOfLocalList
  BY <1>4, WmEndOfLocalListInStep
<1>5. CASE User
  BY <1>5, UserInStep
<1>6. CASE UNCHANGED vars
  <2>1. /\ fd' = fd /\ sending' = sending /\ remote' = remote
        /\ toServer' = toServer /\ toViewer' = toViewer /\ local' = local /\ rec' = rec
        /\ listing' = listing /\ note' = note /\ clean' = clean /\ crashed' = crashed
        /\ shown' = shown /\ job' = job /\ panel' = panel /\ posted' = posted
        /\ commands' = commands
    BY <1>6 DEF vars, serverVars, engineVars, dialogVars
  <2>2. /\ Common' /\ (Calm => Calm') /\ (Listed => Listed') /\ (Kept => Kept')
        /\ (Held(TRUE) => Held(TRUE)') /\ (Held(FALSE) => Held(FALSE)')
        /\ (BoxesOf(job) => BoxesOf(job'))
    BY <2>1 DEF InStep, Common, Calm, Listed, Kept, Held
  <2>3. CASE Rest
    <3>1. Rest'
      BY <2>1, <2>2, <2>3 DEF Rest
    <3>. QED BY <2>2, <3>1, Zenon DEF InStep, Phase
  <2>4. CASE Streaming
    <3>1. Streaming'
      BY <2>1, <2>2, <2>4 DEF Streaming
    <3>. QED BY <2>2, <3>1, Zenon DEF InStep, Phase
  <2>5. CASE Noted
    <3>1. Told'
      BY <2>1, <2>2, <2>5 DEF Noted, Told
    <3>2. Noted'
      BY <2>1, <2>2, <2>5, <3>1 DEF Noted
    <3>. QED BY <2>2, <3>2, Zenon DEF InStep, Phase
  <2>6. CASE Receiving
    <3>1. Arrives(local[rec.path], remote[rec.path])'
      BY <2>1, <2>6 DEF Receiving, Arrives, Coming
    <3>2. Receiving'
      BY <2>1, <2>2, <2>6, <3>1 DEF Receiving
    <3>. QED BY <2>2, <3>2, Zenon DEF InStep, Phase
  <2>7. CASE SendingFile
    <3>1. SendingFile'
      BY <2>1, <2>2, <2>7 DEF SendingFile
    <3>. QED BY <2>2, <3>1, Zenon DEF InStep, Phase
  <2>8. ASSUME NEW m, Asking(m) PROVE InStep'
    <3>1. Awaited(m)'
      BY <2>1, <2>8 DEF Asking, Awaited
    <3>2. Requested(m)'
      BY <2>1, <2>2, <2>8 DEF Asking, Requested
    <3>3. Asking(m)'
      BY <2>1, <2>2, <2>8, <3>1, <3>2 DEF Asking
    <3>. QED BY <2>2, <3>3, Zenon DEF InStep, Phase
  <2>9. ASSUME NEW m, Answering(m) PROVE InStep'
    <3>1. Replied(m)'
      BY <2>1, <2>2, <2>9 DEF Answering, Replied
    <3>2. Answering(m)'
      BY <2>1, <2>2, <2>9, <3>1 DEF Answering
    <3>. QED BY <2>2, <3>2, Zenon DEF InStep, Phase
  <2>. QED BY <2>3, <2>4, <2>5, <2>6, <2>7, <2>8, <2>9, Zenon DEF InStep, Phase
<1>. QED BY <1>1, <1>2, <1>3, <1>4, <1>5, <1>6 DEF Next

LEMMA InStepTransfer ==
  ASSUME InStep
  PROVE  TransferInStep
<1>1. ~crashed
  BY DEF InStep, Common
<1>2. Phase
  BY DEF InStep
<1>3. ASSUME rec.used PROVE Held(TRUE) \/ Held(FALSE)
  <2>1. Kept => Held(TRUE) \/ Held(FALSE)
    BY <1>3 DEF Kept
  <2>2. ASSUME NEW m, Asking(m) PROVE Held(TRUE) \/ Held(FALSE)
    BY <1>3, <2>2, Zenon DEF Asking, Requested
  <2>3. ASSUME NEW m, Answering(m) PROVE Held(TRUE) \/ Held(FALSE)
    BY <1>3, <2>3, Zenon DEF Answering, Replied
  <2>4. ~Streaming
    BY <1>3, Zenon DEF Streaming
  <2>. QED BY <1>2, <2>1, <2>2, <2>3, <2>4, Zenon
       DEF Phase, Rest, Noted, Receiving, SendingFile
<1>4. ASSUME Held(TRUE) \/ Held(FALSE)
      PROVE  /\ job.scan # <<>> /\ Head(job.scan) = Item(rec.path, FALSE)
             /\ job.op \in (IF rec.recv THEN ToLocal ELSE ToRemote)
  BY <1>4 DEF Held
<1>5. ASSUME note.c = "RECV_END_OF_FILE"
      PROVE  /\ job.scan # <<>>
             /\ LET p == Head(job.scan).p IN
                IsFile(local, p) /\ IsFile(remote, p) /\ local[p] = remote[p]
  <2>1. NoNote.c = "none"
    BY DEF NoNote
  <2>2. Told
    BY <1>2, <1>5, <2>1 DEF Phase, Rest, Streaming, Noted, Receiving, SendingFile, Asking, Answering
  <2>. QED BY <1>5, <2>2 DEF Told, Fails
<1>. QED BY <1>1, <1>3, <1>4, <1>5 DEF TransferInStep

\* The engine, the dialog and the server stay at the same file, as long as the
\* user lets an operation end (fxdlg.c) and the viewer can write its files.
THEOREM FilesInStep ==
  ASSUME Orderly, ~IsSeq(Folder)
  PROVE  Spec => []TransferInStep
<1>1. Typed /\ InStep /\ [Next]_vars => InStep'
  BY InStepNext
<1>2. IInv => Typed
  BY DEF IInv
<1>3. InStep => TransferInStep
  BY InStepTransfer
<1>. QED BY Invariant, InStepInit, <1>1, <1>2, <1>3, PTL DEF Spec
=============================================================================

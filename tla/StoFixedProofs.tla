--------------------------- MODULE StoFixedProofs ---------------------------
(***************************************************************************)
(* Proofs about StoFixed, for every number of sections, pieces and size    *)
(* classes: the types, the inductive invariant, and from it that the free  *)
(* lists are exact and that the client's pieces are never taken away.      *)
(***************************************************************************)
EXTENDS StoFixed, TLAPS, FiniteSetTheorems

USE FixedConstants DEF counts, building

\* Every piece is in a section, and every section has a first piece.
LEMMA PieceFacts ==
    /\ \A p \in Piece : sectOf(p) \in Section
    /\ \A s \in Section : <<s, 1>> \in Piece /\ sectOf(<<s, 1>>) = s
    /\ NoPiece \notin Piece
  BY DEF Piece, Section, sectOf, NoPiece

LEMMA ClassFacts == None \notin Class /\ Section \subseteq Nat /\ Class \subseteq Nat
  BY DEF Class, None, Section

\* Linking pieces into a free list, and unlinking one that is in it, gives
\* free lists again.
LEMMA LinkType ==
    ASSUME NEW links \in [Class -> [Piece -> Nat]], NEW c \in Class, NEW P
    PROVE  /\ Link(links, c, P) \in [Class -> [Piece -> Nat]]
           /\ \A d \in Class, p \in Piece :
                Link(links, c, P)[d][p] =
                    IF d = c /\ p \in P THEN links[d][p] + 1 ELSE links[d][p]
  BY DEF Link, Relink

LEMMA UnlinkType ==
    ASSUME NEW links \in [Class -> [Piece -> Nat]], NEW c \in Class,
           NEW q \in Piece, links[c][q] > 0
    PROVE  /\ Unlink(links, c, q) \in [Class -> [Piece -> Nat]]
           /\ \A d \in Class, p \in Piece :
                Unlink(links, c, q)[d][p] =
                    IF d = c /\ p = q THEN links[d][p] - 1 ELSE links[d][p]
  BY DEF Unlink, Relink

LEMMA NoLinksType == NoLinks \in [Class -> [Piece -> Nat]] /\ NoCounts \in [Class -> Nat]
  BY DEF NoLinks, NoCounts

LEMMA PieceFinite == \A P : P \subseteq Piece => IsFiniteSet(P) /\ Cardinality(P) \in Nat
<1>1. IsFiniteSet(Section) /\ IsFiniteSet(1 .. PerSection)
  BY FS_Interval DEF Section
<1>2. IsFiniteSet(Piece)
  BY <1>1, FS_Product DEF Piece
<1> QED  BY <1>2, FS_Subset, FS_CardinalityType

\* The pieces of two or three disjoint sets are counted one after another.
LEMMA DisjointCount ==
    ASSUME NEW P, NEW Q, P \subseteq Piece, Q \subseteq Piece, P \cap Q = {}
    PROVE  /\ Cardinality(P \cup Q) = Cardinality(P) + Cardinality(Q)
           /\ \A R : R \subseteq Piece /\ (P \cup Q) \cap R = {} =>
                Cardinality((P \cup Q) \cup R) =
                    Cardinality(P) + Cardinality(Q) + Cardinality(R)
<1>1. \A S, T : S \subseteq Piece /\ T \subseteq Piece /\ S \cap T = {} =>
          Cardinality(S \cup T) = Cardinality(S) + Cardinality(T)
  <2> SUFFICES ASSUME NEW S, NEW T, S \subseteq Piece, T \subseteq Piece, S \cap T = {}
               PROVE  Cardinality(S \cup T) = Cardinality(S) + Cardinality(T)
    OBVIOUS
  <2>1. /\ IsFiniteSet(S) /\ IsFiniteSet(T)
        /\ Cardinality(S) \in Nat /\ Cardinality(T) \in Nat
    BY PieceFinite
  <2>2. Cardinality(S \cup T) = Cardinality(S) + Cardinality(T) - Cardinality(S \cap T)
    BY <2>1, FS_Union
  <2> QED  BY <2>1, <2>2, FS_EmptySet
<1> QED  BY <1>1

\* A section that stays adds to the counts of its size class.
LEMMA CountType ==
    ASSUME TypeOK, NEW s \in Section, class[s] \in Class, CountSection(s)
    PROVE  /\ freeFixed' \in [Class -> Nat] /\ busyFixed' \in [Class -> Nat]
           /\ \A c \in Class :
                /\ freeFixed'[c] =
                      IF c = class[s]
                      THEN freeFixed[c] + Cardinality(PiecesOf(s) \ Busy) + Cardinality(Swept(s))
                      ELSE freeFixed[c]
                /\ busyFixed'[c] =
                      IF c = class[s]
                      THEN busyFixed[c] + Cardinality(PiecesOf(s) \cap Busy \cap mark)
                      ELSE busyFixed[c]
<1> DEFINE free == Cardinality(PiecesOf(s) \ Busy)
           swept == Cardinality(Swept(s))
           busy == Cardinality(PiecesOf(s) \cap Busy \cap mark)
<1>1. free \in Nat /\ swept \in Nat /\ busy \in Nat
  BY PieceFinite DEF PiecesOf, Swept
<1>2. /\ freeFixed' = [freeFixed EXCEPT ![class[s]] = @ + (free + swept)]
      /\ busyFixed' = [busyFixed EXCEPT ![class[s]] = @ + busy]
  BY DEF CountSection, Plus
<1>3. freeFixed \in [Class -> Nat] /\ busyFixed \in [Class -> Nat]
  BY DEF TypeOK
<1> HIDE DEF free, swept, busy
<1>4. /\ freeFixed' \in [Class -> Nat] /\ busyFixed' \in [Class -> Nat]
      /\ \A c \in Class :
           /\ freeFixed'[c] = IF c = class[s] THEN freeFixed[c] + free + swept ELSE freeFixed[c]
           /\ busyFixed'[c] = IF c = class[s] THEN busyFixed[c] + busy ELSE busyFixed[c]
  BY <1>1, <1>2, <1>3
<1> QED  BY <1>4 DEF free, swept, busy

Requests == [class : Class \cup {None}, code : AllCodes,
             old : Piece \cup {NoPiece}, new : Piece \cup {NoPiece},
             collected : BOOLEAN]

LEMMA RequestType ==
    ASSUME NEW c \in Class \cup {None}, NEW cd \in AllCodes, NEW p \in Piece \cup {NoPiece}
    PROVE  Request(c, cd, p) \in Requests /\ Request(c, cd, p).class = c
  BY DEF Request, Requests

LEMMA NoRequestType == NoRequest \in Requests
  BY RequestType DEF NoRequest, AllCodes

\* Giving a piece to the client keeps the types.
LEMMA GiveToType ==
    ASSUME TypeOK, NEW p \in Piece, NEW req \in Requests,
           NEW tags \in [Piece -> Kinds], GiveTo(p, req, tags)
    PROVE  /\ info' \in [Piece -> Kinds] /\ code' \in [Piece -> AllCodes]
           /\ roots' \subseteq Piece /\ request' \in Requests
           /\ phase' \in {"idle", "copy"}
<1>1. info' \in [Piece -> Kinds] /\ code' \in [Piece -> AllCodes] /\ roots' \subseteq Piece
  BY DEF TypeOK, GiveTo, Kinds, Requests
<1>2. [req EXCEPT !.new = p] \in Requests
  BY DEF Requests
<1> QED  BY <1>1, <1>2, NoRequestType DEF GiveTo

LEMMA AllocateType ==
    ASSUME TypeOK, NEW req \in Requests, req.class \in Class, Allocate(req)
    PROVE  TypeOK'
<1>1. CASE Available(req.class) # {}
  <2>1. PICK p \in Available(req.class) :
            GiveTo(p, req, info) /\ linked' = Unlink(linked, req.class, p)
    BY <1>1 DEF Allocate
  <2>2. p \in Piece /\ linked[req.class][p] > 0
    BY DEF Available
  <2>3. linked' \in [Class -> [Piece -> Nat]]
    BY <2>1, <2>2, UnlinkType DEF TypeOK
  <2> QED  BY <2>1, <2>2, <2>3, GiveToType DEF TypeOK, Allocate, gcVars, Requests
<1>2. CASE Available(req.class) = {}
  BY <1>2 DEF Allocate, TypeOK, gcVars, Requests
<1> QED  BY <1>1, <1>2

LEMMA UntaggedType ==
    ASSUME TypeOK, NEW P
    PROVE  Untagged(P) \in [Piece -> AllCodes]
  BY DEF TypeOK, Untagged, AllCodes

LEMMA TypeInit == Init => TypeOK
  BY NoRequestType, NoLinksType, ClassFacts
  DEF Init, TypeOK, Requests, Kinds, AllCodes, None, Section

\* RequestOK is needed for the pieces and the size class of a request,
\* TagsExist for the size class of a section that is counted.
LEMMA TypeStep ==
    ASSUME TypeOK, TagsExist, RequestOK, Next
    PROVE  TypeOK'
<1> USE DEF Requests
<1>1. ASSUME NEW p \in Piece, MarkWord(p)  PROVE TypeOK'
  BY <1>1 DEF MarkWord, TypeOK, Scanned, pieceVars, listVars, client
<1>2. CASE EndMark
  BY <1>2, NoLinksType DEF EndMark, TypeOK, pieceVars, listVars, client, Section
<1>3. CASE SkipPage
  BY <1>3 DEF SkipPage, Sweeping, TypeOK, pieceVars, listVars, client, Section
<1>4. CASE SweepSection
  <2>1. Link(tails, class[cursor], PiecesOf(cursor) \ (Busy \cap mark))
            \in [Class -> [Piece -> Nat]]
    BY <1>4, LinkType DEF TypeOK, Sweeping, SweepSection, Link, Relink
  <2>2. tails' \in [Class -> [Piece -> Nat]]
    BY <1>4, <2>1 DEF SweepSection
  <2>3. info' \in [Piece -> Kinds] /\ code' \in [Piece -> AllCodes]
        /\ refs' \in [Piece -> SUBSET Piece]
    BY <1>4, UntaggedType DEF SweepSection, TypeOK, Kinds, Wiped
  <2>5. freeFixed' \in [Class -> Nat] /\ busyFixed' \in [Class -> Nat]
    <3>1. PICK p \in PiecesOf(cursor) \cap Busy \cap mark : TRUE
      BY <1>4 DEF SweepSection
    <3>2. info[p] # "none" /\ p \in Piece /\ sectOf(p) = cursor
      BY <3>1 DEF Busy, PiecesOf
    <3>3. class[cursor] \in Class
      BY <3>2, PieceFacts DEF TypeOK, TagsExist
    <3> QED  BY <1>4, <3>3, CountType DEF SweepSection, Sweeping
  <2>4. cursor' \in 0 .. NSections + 1
    BY <1>4 DEF SweepSection, Sweeping, Section
  <2> QED  BY <1>4, <2>2, <2>3, <2>4, <2>5 DEF SweepSection, TypeOK, listVars
<1>5. CASE ReturnSection
  BY <1>5, UntaggedType
  DEF ReturnSection, Sweeping, TypeOK, listVars, Section, Kinds, Wiped
<1>6. CASE EndSweep
  BY <1>6, NoLinksType DEF EndSweep, TypeOK, pieceVars, client, Section
<1>7. ASSUME NEW s \in Section, piecesGetFixed(s)  PROVE TypeOK'
  <2>1. request \in Requests /\ request.class \in Class
    BY <1>7 DEF TypeOK, piecesGetFixed, RequestOK
  <2>2. <<s, 1>> \in Piece
    BY PieceFacts
  <2>3. [q \in Piece |-> IF sectOf(q) = s THEN "FreeFirst" ELSE info[q]]
            \in [Piece -> Kinds]
    BY DEF TypeOK, Kinds
  <2>4. linked' \in [Class -> [Piece -> Nat]]
    <3>1. linked' = Link(linked, request.class, PiecesOf(s) \ {<<s, 1>>})
      BY <1>7 DEF piecesGetFixed
    <3> QED  BY <2>1, <3>1, LinkType DEF TypeOK
  <2> QED  BY <1>7, <2>1, <2>2, <2>3, <2>4, GiveToType DEF piecesGetFixed, TypeOK, gcVars
<1>8. CASE NoPages
  BY <1>8, NoRequestType DEF NoPages, TypeOK, pieceVars, listVars, client, gcVars
<1>9. CASE CollectForPages
  BY <1>9 DEF CollectForPages, BeginMark, TypeOK, pieceVars, listVars, client
<1>10. CASE CopyAndFree
  <2> DEFINE p == request.old
             q == request.new
  <2>1. p \in Piece /\ q \in Piece
    BY <1>10 DEF CopyAndFree, RequestOK
  <2>2. PICK R \in SUBSET refs[p] : refs' = [Forget(p) EXCEPT ![q] = R \ {p}]
    BY <1>10 DEF CopyAndFree
  <2>3. refs' \in [Piece -> SUBSET Piece]
    BY <2>1, <2>2 DEF Forget, TypeOK
  <2>4. linked' \in [Class -> [Piece -> Nat]]
    BY <1>10, <2>1, LinkType DEF CopyAndFree, TypeOK, Link, Relink
  <2> QED  BY <1>10, <2>1, <2>3, <2>4, UntaggedType, NoRequestType
           DEF CopyAndFree, TypeOK, gcVars, Kinds
<1>11. ASSUME NEW cd \in Codes, NEW c \in Class, stoAlloc(cd, c)  PROVE TypeOK'
  BY <1>11, RequestType, AllocateType DEF stoAlloc, AllCodes
<1>12. ASSUME NEW p \in Piece, stoFree(p)  PROVE TypeOK'
  <2>1. linked' \in [Class -> [Piece -> Nat]]
    BY <1>12, LinkType DEF stoFree, TypeOK, Link, Relink
  <2> QED  BY <1>12, <2>1, UntaggedType DEF stoFree, TypeOK, gcVars, Kinds, Forget
<1>13. ASSUME NEW p \in Piece, Drop(p)  PROVE TypeOK'
  BY <1>13 DEF Drop, TypeOK, pieceVars, listVars, gcVars
<1>14. ASSUME NEW p \in Piece, NEW c \in Class, stoResize(p, c)  PROVE TypeOK'
  BY <1>14, RequestType, AllocateType DEF stoResize, TypeOK
<1>15. ASSUME NEW p \in Piece, NEW cd \in Codes, stoRecode(p, cd)  PROVE TypeOK'
  BY <1>15 DEF stoRecode, TypeOK, listVars, client, gcVars, AllCodes
<1>16. ASSUME NEW p \in Piece, NEW q \in Piece, Write(p, q) \/ Erase(p, q)  PROVE TypeOK'
  <2>1. \E R \in SUBSET Piece : refs' = [refs EXCEPT ![p] = R]
    <3>1. refs[p] \cup {q} \in SUBSET Piece /\ refs[p] \ {q} \in SUBSET Piece
      BY DEF TypeOK
    <3> QED  BY <1>16, <3>1 DEF Write, Erase
  <2>2. refs' \in [Piece -> SUBSET Piece]
    BY <2>1 DEF TypeOK
  <2> QED  BY <1>16, <2>2 DEF Write, Erase, TypeOK, pieceVars, listVars, gcVars
<1>17. ASSUME NEW p \in Piece, NEW q \in Piece, Load(p, q)  PROVE TypeOK'
  BY <1>17 DEF Load, TypeOK, pieceVars, listVars, gcVars
<1>18. CASE stoGc
  BY <1>18 DEF stoGc, BeginMark, TypeOK, pieceVars, listVars, client
<1> QED  BY <1>1, <1>2, <1>3, <1>4, <1>5, <1>6, <1>7, <1>8, <1>9, <1>10, <1>11, <1>12,
            <1>13, <1>14, <1>15, <1>16, <1>17, <1>18 DEF Next, Collector, Allocator, Client

-----------------------------------------------------------------------------
(* The inductive invariant.                                                *)

LEMMA InvInit == Init => Inv
<1> SUFFICES ASSUME Init PROVE Inv
  OBVIOUS
<1>1. TypeOK
  BY TypeInit
<1>2. FreeListsExact /\ TailsExact /\ CountsMade /\ TagsExist
  BY PieceFacts, ClassFacts
  DEF Init, FreeListsExact, TailsExact, CountsMade, TagsExist, NoLinks, None
<1>3. Contents /\ PointersTagged /\ Marking /\ MarksExist /\ KeptClosed /\ NoDangling
  BY DEF Init, Contents, PointersTagged, Marking, MarksExist, KeptClosed, NoDangling, Busy
<1>4. RequestOK
  BY DEF Init, RequestOK, NoRequest, Request, NoPiece
<1> QED  BY <1>1, <1>2, <1>3, <1>4 DEF Inv

\* A free piece is given to the client: nothing referred to it, and it had no
\* contents, so what the client can reach is in use as before.
LEMMA GiveToInv ==
    ASSUME Inv, phase \in {"idle", "pages"}, NEW p \in Piece \ Busy,
           NEW req \in Requests, req.class \in Class, req.new = NoPiece,
           req.old # NoPiece => req.old \in roots /\ req.code = code[req.old],
           NEW tags \in [Piece -> Kinds],
           \A q \in Piece : tags[q] = "BusyFirst" <=> info[q] = "BusyFirst",
           GiveTo(p, req, tags), UNCHANGED <<mark, refs>>
    PROVE  /\ Busy' = Busy \cup {p}
           /\ phase' \in {"idle", "copy"}
           /\ Contents' /\ PointersTagged' /\ TailsExact' /\ CountsMade'
           /\ Marking' /\ MarksExist' /\ KeptClosed' /\ NoDangling' /\ RequestOK'
<1>1. Busy' = Busy \cup {p}
  BY DEF GiveTo, Busy
<1>2. phase' \in {"idle", "copy"} /\ roots' = roots \cup {p} /\ refs' = refs /\ mark' = mark
  BY DEF GiveTo
<1>3. Contents' /\ NoDangling'
  BY <1>1, <1>2 DEF Inv, Contents, NoDangling
<1>4. PointersTagged'
  <2>1. refs[p] = {}
    BY DEF Inv, Contents
  <2>2. \A q \in Busy : code'[q] = code[q]
    BY DEF GiveTo, Inv, TypeOK, Busy
  <2> QED  BY <1>1, <1>2, <2>1, <2>2 DEF Inv, PointersTagged
<1>5. TailsExact' /\ CountsMade' /\ Marking' /\ MarksExist' /\ KeptClosed'
  BY <1>2 DEF TailsExact, CountsMade, Marking, MarksExist, KeptClosed, Inv, Quiet
<1>6. RequestOK'
  <2>1. CASE req.old = NoPiece
    BY <2>1 DEF GiveTo, RequestOK, NoRequest, Request
  <2>2. CASE req.old # NoPiece
    <3>1. /\ req.old \in roots /\ req.code = code[req.old]
          /\ req.old \in Piece /\ req.old # p /\ refs[p] = {}
      BY <2>2 DEF Inv, TypeOK, NoDangling, Contents
    <3>2. /\ code'[p] = req.code
          /\ code'[req.old] = code[req.old]
      BY <3>1 DEF GiveTo, Inv, TypeOK
    <3>3. /\ request'.class = req.class /\ request'.old = req.old
          /\ request'.code = req.code /\ request'.new = p
      BY <2>2 DEF GiveTo, Requests
    <3>4. phase' = "copy"
      BY <2>2 DEF GiveTo
    <3> QED  BY <1>2, <3>1, <3>2, <3>3, <3>4 DEF RequestOK
  <2> QED  BY <2>1, <2>2
<1> QED  BY <1>1, <1>2, <1>3, <1>4, <1>5, <1>6

LEMMA AllocateInv ==
    ASSUME Inv, phase = "idle", NEW req \in Requests, req.class \in Class, req.new = NoPiece,
           req.old # NoPiece => req.old \in roots /\ req.code = code[req.old],
           Allocate(req), TypeOK'
    PROVE  Inv'
<1>1. CASE Available(req.class) # {}
  <2>1. PICK p \in Available(req.class) :
            GiveTo(p, req, info) /\ linked' = Unlink(linked, req.class, p)
    BY <1>1 DEF Allocate
  <2>2. p \in Piece /\ linked[req.class][p] > 0
    BY DEF Available
  <2>3. class[sectOf(p)] = req.class /\ info[p] = "FreeFirst"
    BY <2>2 DEF Inv, FreeListsExact
  <2>4. p \notin Busy /\ class' = class
    BY <2>3 DEF Busy, Allocate
  <2>5. mark' = mark /\ refs' = refs
    BY DEF Allocate
  <2>6. info \in [Piece -> Kinds]
    BY DEF Inv, TypeOK
  <2>7. /\ Contents' /\ PointersTagged' /\ TailsExact' /\ CountsMade'
        /\ Marking' /\ MarksExist' /\ KeptClosed' /\ NoDangling' /\ RequestOK'
    BY <2>1, <2>2, <2>4, <2>5, <2>6, GiveToInv
  <2>8. info' = [info EXCEPT ![p] = "BusyFirst"]
    BY <2>1 DEF GiveTo
  <2>9. TagsExist'
    BY <2>2, <2>3, <2>4, <2>6, <2>8, ClassFacts DEF Inv, TagsExist
  <2>10. FreeListsExact'
    <3>1. \A c \in Class, q \in Piece :
             linked'[c][q] = IF c = req.class /\ q = p THEN linked[c][q] - 1 ELSE linked[c][q]
      <4>1. linked \in [Class -> [Piece -> Nat]]
        BY DEF Inv, TypeOK
      <4> QED  BY <2>1, <2>2, <4>1, UnlinkType
    <3> QED  BY <2>2, <2>3, <2>4, <2>6, <2>8, <3>1 DEF Inv, FreeListsExact
  <2> QED  BY <2>7, <2>9, <2>10 DEF Inv
<1>2. CASE Available(req.class) = {}
  <2>1. request' = req /\ phase' = "pages"
        /\ UNCHANGED <<class, info, code, mark, linked, roots, refs, pending, cursor, tails, freeFixed, busyFixed>>
    BY <1>2 DEF Allocate, gcVars
  <2>2. RequestOK'
    BY <2>1 DEF RequestOK
  <2> QED  BY <2>1, <2>2 DEF Inv, TagsExist, Contents, PointersTagged, FreeListsExact, TailsExact, CountsMade,
              Marking, MarksExist, KeptClosed, NoDangling, Busy, Quiet
<1> QED  BY <1>1, <1>2


\* Only the phase changes, and the words to look at are those of the roots.
LEMMA BeginMarkInv ==
    ASSUME Inv, phase \in {"idle", "pages"}, BeginMark,
           request' = [request EXCEPT !.collected = TRUE] \/ request' = request,
           phase = "idle" => request' = request, TypeOK'
    PROVE  Inv'
<1>1. /\ phase' = "mark" /\ roots \subseteq pending'
      /\ UNCHANGED <<class, info, code, mark, linked, freeCount, roots, refs, cursor, tails, freeFixed, busyFixed>>
  BY DEF BeginMark, pieceVars, listVars, client
<1>2. RequestOK'
  <2>1. request'.class = request.class /\ request'.code = request.code
        /\ request'.old = request.old /\ request'.new = request.new
    BY DEF Inv, TypeOK
  <2>2. CASE phase = "idle"
    BY <1>1, <2>1, <2>2 DEF Inv, RequestOK, NoRequest, Request
  <2>3. CASE phase = "pages"
    BY <1>1, <2>1, <2>3 DEF Inv, RequestOK
  <2> QED  BY <2>2, <2>3
<1>3. Marking'
  BY <1>1 DEF Marking, Inv, MarksExist, Quiet
<1> QED  BY <1>1, <1>2, <1>3 DEF Inv, TagsExist, Contents, PointersTagged, FreeListsExact,
              TailsExact, CountsMade, MarksExist, KeptClosed, NoDangling, Busy, Quiet


\* A piece refers to nothing that is not in use, and marking a piece makes
\* pending what it refers to.
LEMMA MarkWordInv ==
    ASSUME Inv, NEW p \in Piece, MarkWord(p), TypeOK'
    PROVE  Inv'
<1> USE DEF Busy
<1>1. /\ phase = "mark" /\ phase' = "mark"
      /\ UNCHANGED <<class, info, code, linked, roots, refs, cursor, tails, freeFixed, busyFixed, request>>
  BY DEF MarkWord, pieceVars, listVars, client
<1>2. class[sectOf(p)] = None => p \notin Busy
  BY DEF Inv, TagsExist
<1>3. \A q \in Busy : q \in Piece /\ q # p => (q \in mark' <=> q \in mark)
  BY DEF MarkWord
<1>4. p \in Busy => Scanned(p) = refs[p]
  BY DEF Inv, PointersTagged, Scanned
<1>5. Marking'
  <2>1. roots \subseteq Busy /\ \A q \in Busy : refs[q] \subseteq Busy
    BY <1>1 DEF Inv, NoDangling
  <2>2. roots \subseteq mark \cup pending
        /\ \A q \in mark \cap Busy : refs[q] \subseteq mark \cup pending
    BY <1>1 DEF Inv, Marking
  <2>3. mark \subseteq mark'
    BY DEF MarkWord
  <2>4. pending \ {p} \subseteq pending'
    BY DEF MarkWord
  <2>5. p \in Busy => p \in mark'
    BY <1>2 DEF MarkWord
  <2>6. p \in Busy => refs[p] \subseteq mark' \cup pending'
    <3>1. CASE p \in mark
      BY <2>1, <2>2, <2>3, <2>4, <2>5, <3>1
    <3>2. CASE p \notin mark
      BY <1>2, <1>4, <3>2 DEF MarkWord
    <3> QED  BY <3>1, <3>2
  <2>7. (mark \cup pending) \cap Busy \subseteq mark' \cup pending'
    BY <2>3, <2>4, <2>5
  <2> QED  BY <1>1, <1>3, <2>1, <2>2, <2>6, <2>7 DEF Marking
<1>6. MarksExist'
  BY <1>1 DEF MarkWord, MarksExist, Inv, Quiet
<1> QED  BY <1>1, <1>5, <1>6 DEF Inv, TagsExist, Contents, PointersTagged, FreeListsExact,
              TailsExact, CountsMade, KeptClosed, NoDangling, RequestOK

LEMMA EndMarkInv ==
    ASSUME Inv, EndMark, TypeOK'
    PROVE  Inv'
<1>1. /\ phase = "mark" /\ phase' = "sweep" /\ pending = {} /\ cursor' = 1 /\ tails' = NoLinks
      /\ freeFixed' = NoCounts /\ busyFixed' = NoCounts
      /\ UNCHANGED <<class, info, code, mark, linked, roots, refs, request>>
  BY DEF EndMark, pieceVars, listVars, client
<1>2. \A p \in Piece : sectOf(p) >= 1 /\ ~(sectOf(p) < 1)
  BY PieceFacts DEF Section
<1>3. TailsExact' /\ CountsMade'
  <2>1. \A c, k : SweptOf(c, k)' = {}
    BY <1>1, <1>2 DEF SweptOf
  <2> QED  BY <1>1, <1>2, <2>1, FS_EmptySet DEF TailsExact, NoLinks, CountsMade, NoCounts
<1>4. MarksExist'
  BY <1>1, <1>2 DEF Inv, TypeOK, MarksExist, Quiet
<1>5. KeptClosed'
  <2>1. roots \subseteq mark \cap Busy /\ \A p \in mark \cap Busy : refs[p] \subseteq mark \cap Busy
    BY <1>1 DEF Inv, Marking, NoDangling
  <2>2. Kept' = mark \cap Busy
    BY <1>1, <1>2 DEF Kept, Busy
  <2> QED  BY <1>1, <2>1, <2>2 DEF KeptClosed
<1> QED  BY <1>1, <1>3, <1>4, <1>5 DEF Inv, TagsExist, Contents, PointersTagged, FreeListsExact,
              Marking, NoDangling, Busy, RequestOK

LEMMA SkipPageInv ==
    ASSUME Inv, SkipPage, TypeOK'
    PROVE  Inv'
<1>1. /\ phase = "sweep" /\ phase' = "sweep" /\ cursor \in Section /\ cursor' = cursor + 1
      /\ class[cursor] = None
      /\ UNCHANGED <<class, info, code, mark, linked, roots, refs, pending, tails, request>>
      /\ UNCHANGED <<freeFixed, busyFixed>>
  BY DEF SkipPage, Sweeping, pieceVars, listVars, client
<1>2. \A p \in Piece : sectOf(p) < cursor' <=> sectOf(p) < cursor \/ sectOf(p) = cursor
  BY <1>1, PieceFacts DEF Section
<1>3. \A p \in Piece : sectOf(p) = cursor => info[p] = "none"
  BY <1>1 DEF Inv, TagsExist
<1>4. TailsExact' /\ CountsMade'
  <2>1. \A c \in Class, k \in {"FreeFirst", "BusyFirst"} : SweptOf(c, k)' = SweptOf(c, k)
    BY <1>1, <1>2, <1>3 DEF SweptOf
  <2>2. CountsMade'
    BY <1>1, <2>1 DEF Inv, CountsMade
  <2> QED  BY <1>1, <1>2, <1>3, <2>2 DEF Inv, TailsExact
<1>5. MarksExist'
  BY <1>1, PieceFacts DEF Inv, TypeOK, MarksExist, Quiet, Section
<1>6. KeptClosed'
  <2>1. Kept' = Kept
    BY <1>1, <1>2, <1>3 DEF Kept, Busy
  <2> QED  BY <1>1, <2>1 DEF Inv, KeptClosed
<1> QED  BY <1>1, <1>4, <1>5, <1>6 DEF Inv, TagsExist, Contents, PointersTagged, FreeListsExact,
              Marking, NoDangling, Busy, RequestOK


\* Of a section that stays, the pieces kept are the same before and after;
\* those not kept have become free and are in the list being built.
LEMMA SweepSectionInv ==
    ASSUME Inv, SweepSection, TypeOK'
    PROVE  Inv'
<1> DEFINE s == cursor
<1>1. /\ phase = "sweep" /\ phase' = "sweep" /\ s \in Section /\ cursor' = s + 1
      /\ mark' = mark \ PiecesOf(s)
      /\ UNCHANGED <<class, linked, roots, pending, request>>
      /\ class[s] \in Class
  <2>1. PICK p \in PiecesOf(s) \cap Busy \cap mark : TRUE
    BY DEF SweepSection
  <2>2. class[sectOf(p)] # None
    BY <2>1 DEF Inv, TagsExist, Busy
  <2> QED  BY <2>1, <2>2 DEF SweepSection, Sweeping, listVars, Inv, TypeOK, PiecesOf
<1>2. \A p \in Piece : /\ sectOf(p) < cursor' <=> sectOf(p) < s \/ sectOf(p) = s
                       /\ ~(sectOf(p) < s /\ sectOf(p) = s)
  BY <1>1, PieceFacts DEF Section
<1>3. \A p \in Piece : p \in PiecesOf(s) <=> sectOf(p) = s
  BY DEF PiecesOf
<1>4. \A p \in Piece : p \in Swept(s) <=> sectOf(p) = s /\ p \in Busy /\ p \notin mark
  BY DEF Swept, PiecesOf
<1>5. /\ \A p \in Piece : info'[p] = IF p \in Swept(s) THEN "FreeFirst" ELSE info[p]
      /\ \A p \in Piece : code'[p] = IF p \in Swept(s) THEN "plain" ELSE code[p]
      /\ \A p \in Piece : refs'[p] = IF p \in Swept(s) THEN {} ELSE refs[p]
  BY DEF SweepSection, Untagged, Wiped
<1>6. Busy' = Busy \ Swept(s)
  BY <1>5 DEF Busy
<1>7. TagsExist'
  <2>1. \A p \in Swept(s) : class[sectOf(p)] # None
    BY <1>1, ClassFacts DEF Swept, PiecesOf
  <2> QED  BY <1>1, <1>5, <2>1 DEF Inv, TagsExist
<1>8. Contents' /\ PointersTagged'
  BY <1>5, <1>6 DEF Inv, Contents, PointersTagged, Busy
<1>9. TailsExact'
  <2>1. \A c \in Class, p \in Piece :
           tails'[c][p] = IF c = class[s] /\ p \in PiecesOf(s) \ (Busy \cap mark)
                          THEN tails[c][p] + 1 ELSE tails[c][p]
    <3>1. tails' = Link(tails, class[s], PiecesOf(s) \ (Busy \cap mark))
          /\ tails \in [Class -> [Piece -> Nat]]
      BY DEF SweepSection, Inv, TypeOK
    <3> QED  BY <1>1, <3>1, LinkType
  <2>2. \A c \in Class, p \in Piece :
           tails[c][p] = IF sectOf(p) < s /\ class[sectOf(p)] = c /\ info[p] = "FreeFirst"
                         THEN 1 ELSE 0
    BY <1>1 DEF Inv, TailsExact
  <2>3. ASSUME NEW c \in Class, NEW p \in Piece
        PROVE  tails'[c][p] = IF /\ sectOf(p) < cursor'
                                 /\ class[sectOf(p)] = c /\ info'[p] = "FreeFirst"
                              THEN 1 ELSE 0
    <3>1. CASE sectOf(p) = s
      <4>1. info[p] # "none" /\ info[p] \in Kinds
        BY <1>1, <3>1, ClassFacts DEF Inv, TagsExist, TypeOK
      <4>2. info'[p] = "FreeFirst" <=> p \notin Busy \cap mark
        BY <1>4, <1>5, <3>1, <4>1 DEF Busy, Kinds
      <4> QED  BY <1>1, <1>2, <1>3, <2>1, <2>2, <3>1, <4>2
    <3>2. CASE sectOf(p) # s
      BY <1>2, <1>3, <1>4, <1>5, <2>1, <2>2, <3>2
    <3> QED  BY <3>1, <3>2
  <2> QED  BY <1>1, <2>3 DEF TailsExact
<1>13. CountsMade'
  <2> DEFINE F(c) == SweptOf(c, "FreeFirst")
             B(c) == SweptOf(c, "BusyFirst")
             free == PiecesOf(s) \ Busy
             swept == Swept(s)
             busy == PiecesOf(s) \cap Busy \cap mark
  <2>1. /\ \A c \in Class :
             /\ freeFixed[c] = Cardinality(F(c))
             /\ busyFixed[c] = Cardinality(B(c))
    BY <1>1 DEF Inv, CountsMade
  <2>2. \A c \in Class :
           /\ freeFixed'[c] = IF c = class[s]
                              THEN freeFixed[c] + Cardinality(free) + Cardinality(swept)
                              ELSE freeFixed[c]
           /\ busyFixed'[c] = IF c = class[s] THEN busyFixed[c] + Cardinality(busy)
                              ELSE busyFixed[c]
    BY <1>1, CountType DEF SweepSection, Inv
  <2>3. \A p \in Piece : sectOf(p) = s => info[p] # "none" /\ info[p] \in Kinds
    BY <1>1, ClassFacts DEF Inv, TagsExist, TypeOK
  <2>4. \A c \in Class : c # class[s] => F(c)' = F(c) /\ B(c)' = B(c)
    BY <1>1, <1>2, <1>4, <1>5 DEF SweptOf
  <2>5. ASSUME NEW c \in Class, c = class[s]
        PROVE  /\ Cardinality(F(c)') = Cardinality(F(c)) + Cardinality(free) + Cardinality(swept)
               /\ Cardinality(B(c)') = Cardinality(B(c)) + Cardinality(busy)
    <3>1. F(c)' = (F(c) \cup free) \cup swept
      <4>1. \A p \in Piece : sectOf(p) = s /\ p \notin swept => info'[p] = info[p]
        BY <1>5
      <4>2. \A p \in Piece : sectOf(p) # s => info'[p] = info[p]
        BY <1>4, <1>5
      <4>3. \A p \in Piece : p \in swept => sectOf(p) = s /\ info'[p] = "FreeFirst"
        BY <1>4, <1>5
      <4>4. \A p \in Piece : sectOf(p) = s =>
               (info[p] = "FreeFirst" <=> p \in free) /\ (p \in free => p \notin swept)
        BY <1>3, <1>4, <2>3 DEF Busy, Kinds
      <4>5. \A p \in Piece : p \in free => sectOf(p) = s
        BY <1>3
      <4>6. \A p \in Piece :
               sectOf(p) < cursor' /\ class'[sectOf(p)] = c /\ info'[p] = "FreeFirst"
               <=> \/ sectOf(p) < s /\ class[sectOf(p)] = c /\ info[p] = "FreeFirst"
                   \/ p \in free \/ p \in swept
        <5> HIDE DEF free, swept
        <5>1. \A p \in Piece : sectOf(p) = s /\ p \notin swept =>
                 (info'[p] = "FreeFirst" <=> p \in free)
          BY <4>1, <4>4
        <5>2. class' = class /\ c = class[s]
          BY <1>1, <2>5
        <5> QED  BY <1>2, <4>2, <4>3, <4>5, <5>1, <5>2
      <4>7. free \subseteq Piece /\ swept \subseteq Piece
        BY DEF PiecesOf, Swept
      <4> HIDE DEF free, swept
      <4> QED  BY <4>6, <4>7 DEF SweptOf
    <3>2. B(c)' = B(c) \cup busy
      BY <1>1, <1>2, <1>3, <1>4, <1>5, <2>5 DEF SweptOf, Busy
    <3>3. /\ F(c) \cap free = {} /\ (F(c) \cup free) \cap swept = {}
          /\ B(c) \cap busy = {}
      BY <1>2, <1>3, <1>4 DEF SweptOf, Busy, PiecesOf
    <3>4. /\ F(c) \subseteq Piece /\ B(c) \subseteq Piece
          /\ free \subseteq Piece /\ swept \subseteq Piece /\ busy \subseteq Piece
      BY DEF SweptOf, PiecesOf, Swept
    <3>5. \A P, Q : P \subseteq Piece /\ Q \subseteq Piece /\ P \cap Q = {} =>
             /\ Cardinality(P \cup Q) = Cardinality(P) + Cardinality(Q)
             /\ \A T : T \subseteq Piece /\ (P \cup Q) \cap T = {} =>
                  Cardinality((P \cup Q) \cup T) =
                      Cardinality(P) + Cardinality(Q) + Cardinality(T)
      BY DisjointCount
    <3>6. Cardinality((F(c) \cup free) \cup swept) =
              Cardinality(F(c)) + Cardinality(free) + Cardinality(swept)
      <4>1. /\ F(c) \subseteq Piece /\ free \subseteq Piece /\ F(c) \cap free = {}
            /\ swept \subseteq Piece /\ (F(c) \cup free) \cap swept = {}
        BY <3>3, <3>4
      <4> HIDE DEF F, free, swept
      <4>2. \A T : T \subseteq Piece /\ (F(c) \cup free) \cap T = {} =>
               Cardinality((F(c) \cup free) \cup T) =
                   Cardinality(F(c)) + Cardinality(free) + Cardinality(T)
        BY <3>5, <4>1, Zenon
      <4> QED  BY <4>1, <4>2, Zenon
    <3>7. Cardinality(B(c) \cup busy) = Cardinality(B(c)) + Cardinality(busy)
      <4> HIDE DEF B, busy
      <4> QED  BY <3>3, <3>4, <3>5
    <3> QED  BY <3>1, <3>2, <3>6, <3>7
  <2>6. ASSUME NEW c \in Class
        PROVE  freeFixed'[c] = Cardinality(F(c)') /\ busyFixed'[c] = Cardinality(B(c)')
    <3>1. CASE c = class[s]
      BY <2>1, <2>2, <2>5, <3>1
    <3>2. CASE c # class[s]
      BY <2>1, <2>2, <2>4, <3>2
    <3> QED  BY <3>1, <3>2
  <2> QED  BY <2>6 DEF CountsMade
<1>10. MarksExist'
  <2>1. \A p \in mark' : p \in Piece /\ p \in mark /\ sectOf(p) # s
    BY <1>1, <1>3 DEF Inv, TypeOK
  <2> QED  BY <1>1, <2>1, PieceFacts DEF Inv, MarksExist, Quiet, Section
<1>11. KeptClosed'
  <2>1. Kept' = Kept
    BY <1>1, <1>2, <1>3, <1>4, <1>6 DEF Kept, Busy
  <2>2. \A p \in Kept : refs'[p] = refs[p]
    BY <1>2, <1>4, <1>5 DEF Kept, Busy
  <2> QED  BY <1>1, <2>1, <2>2 DEF Inv, KeptClosed
<1>12. RequestOK'
  BY <1>1, <1>4, <1>5 DEF Inv, RequestOK, KeptClosed, Kept, TypeOK
<1> QED  BY <1>1, <1>7, <1>8, <1>9, <1>10, <1>11, <1>12, <1>13
         DEF Inv, FreeListsExact, Marking, NoDangling

\* Of a section that goes no piece is kept.
LEMMA ReturnSectionInv ==
    ASSUME Inv, ReturnSection, TypeOK'
    PROVE  Inv'
<1> DEFINE s == cursor
<1>1. /\ phase = "sweep" /\ phase' = "sweep" /\ s \in Section /\ cursor' = s + 1
      /\ mark' = mark \ PiecesOf(s)
      /\ UNCHANGED <<linked, roots, pending, tails, freeFixed, busyFixed, request>>
  BY DEF ReturnSection, Sweeping, listVars
<1>2. \A p \in Piece : /\ sectOf(p) < cursor' <=> sectOf(p) < s \/ sectOf(p) = s
                       /\ ~(sectOf(p) < s /\ sectOf(p) = s)
  BY <1>1, PieceFacts DEF Section
<1>3. \A p \in Piece : p \in PiecesOf(s) <=> sectOf(p) = s
  BY DEF PiecesOf
<1>4. /\ \A p \in Piece : info'[p] = IF sectOf(p) = s THEN "none" ELSE info[p]
      /\ \A p \in Piece : code'[p] = IF sectOf(p) = s THEN "plain" ELSE code[p]
      /\ \A p \in Piece : refs'[p] = IF sectOf(p) = s THEN {} ELSE refs[p]
  BY <1>3 DEF ReturnSection, Untagged, Wiped
<1>5. \A p \in Piece : class'[sectOf(p)] = IF sectOf(p) = s THEN None ELSE class[sectOf(p)]
  BY PieceFacts DEF ReturnSection, Inv, TypeOK
<1>6. Busy' = Busy \ PiecesOf(s)
  BY <1>3, <1>4 DEF Busy
<1>7. Kept \cap PiecesOf(s) = {}
  <2>1. PiecesOf(s) \cap Busy \cap mark = {}
    BY DEF ReturnSection
  <2>2. \A p \in Kept : p \in Piece /\ p \in Busy /\ (p \in mark \/ sectOf(p) < s)
    BY DEF Kept, Busy
  <2> QED  BY <1>2, <1>3, <2>1, <2>2
<1>8. TagsExist' /\ Contents' /\ PointersTagged'
  BY <1>4, <1>5 DEF Inv, TagsExist, Contents, PointersTagged, Busy
<1>9. TailsExact' /\ CountsMade'
  <2>1. \A c \in Class, k \in {"FreeFirst", "BusyFirst"} : SweptOf(c, k)' = SweptOf(c, k)
    BY <1>1, <1>2, <1>4, <1>5, ClassFacts DEF SweptOf
  <2>2. CountsMade'
    BY <1>1, <2>1 DEF Inv, CountsMade
  <2> QED  BY <1>1, <1>2, <1>4, <1>5, <2>2 DEF Inv, TailsExact
<1>10. MarksExist'
  <2>1. \A p \in mark' : p \in Piece /\ p \in mark /\ sectOf(p) # s
    BY <1>1, <1>3 DEF Inv, TypeOK
  <2> QED  BY <1>1, <1>5, <2>1, PieceFacts DEF Inv, MarksExist, Quiet, Section
<1>11. KeptClosed'
  <2>1. Kept' = Kept
    BY <1>1, <1>2, <1>3, <1>6, <1>7 DEF Kept, Busy
  <2>2. \A p \in Kept : refs'[p] = refs[p]
    BY <1>3, <1>4, <1>7 DEF Kept, Busy
  <2> QED  BY <1>1, <2>1, <2>2 DEF Inv, KeptClosed
<1>12. RequestOK'
  <2>1. \A p \in roots : p \in Piece /\ sectOf(p) # s
    BY <1>1, <1>3, <1>7 DEF Inv, KeptClosed, Kept, Busy
  <2> QED  BY <1>1, <1>4, <2>1 DEF Inv, RequestOK
<1> QED  BY <1>1, <1>8, <1>9, <1>10, <1>11, <1>12
         DEF Inv, FreeListsExact, Marking, NoDangling

\* At the end all that is in use was kept, and the new free lists are those
\* of all sections.
LEMMA EndSweepInv ==
    ASSUME Inv, EndSweep, TypeOK'
    PROVE  Inv'
<1>1. /\ phase = "sweep" /\ cursor > NSections /\ linked' = tails
      /\ phase' = IF request = NoRequest THEN "idle" ELSE "pages"
      /\ UNCHANGED <<class, info, code, mark, roots, refs, pending, request>>
  BY DEF EndSweep, pieceVars, client
<1>2. \A p \in Piece : sectOf(p) < cursor /\ ~(sectOf(p) >= cursor)
  <2>1. cursor \in 0 .. NSections + 1
    BY DEF Inv, TypeOK
  <2> QED  BY <1>1, <2>1, PieceFacts DEF Section
<1>3. FreeListsExact'
  BY <1>1, <1>2 DEF Inv, TailsExact, CountsMade, FreeListsExact
<1>4. MarksExist'
  BY <1>1, <1>2 DEF Inv, TypeOK, MarksExist, Quiet
<1>5. NoDangling'
  BY <1>1, <1>2 DEF Inv, KeptClosed, Kept, NoDangling, Busy
<1>6. RequestOK'
  BY <1>1 DEF Inv, RequestOK
<1> QED  BY <1>1, <1>3, <1>4, <1>5, <1>6 DEF Inv, TagsExist, Contents, PointersTagged,
              TailsExact, CountsMade, Marking, KeptClosed, Busy


\* The pieces of the new section were tagged as no pieces at all, and were in
\* no list.
LEMMA piecesGetFixedInv ==
    ASSUME Inv, NEW s \in Section, piecesGetFixed(s), TypeOK'
    PROVE  Inv'
<1> DEFINE p == <<s, 1>>
           tags == [q \in Piece |-> IF sectOf(q) = s THEN "FreeFirst" ELSE info[q]]
<1>1. /\ phase = "pages" /\ class[s] = None
      /\ class' = [class EXCEPT ![s] = request.class]
      /\ GiveTo(p, request, tags)
      /\ linked' = Link(linked, request.class, PiecesOf(s) \ {p})
      /\ UNCHANGED <<mark, refs>>
  BY DEF piecesGetFixed
<1>2. \A q \in Piece : sectOf(q) = s => info[q] = "none"
  BY <1>1 DEF Inv, TagsExist
<1>3. p \in Piece \ Busy /\ sectOf(p) = s
  BY <1>2, PieceFacts DEF Busy
<1>4. tags \in [Piece -> Kinds] /\ \A q \in Piece : tags[q] = "BusyFirst" <=> info[q] = "BusyFirst"
  BY <1>2 DEF Inv, TypeOK, Kinds
<1>5. /\ request \in Requests /\ request.class \in Class /\ request.new = NoPiece
      /\ request.old # NoPiece => request.old \in roots /\ request.code = code[request.old]
  BY <1>1 DEF Inv, RequestOK, TypeOK, Requests
<1>6. /\ phase' \in {"idle", "copy"}
      /\ Contents' /\ PointersTagged' /\ TailsExact' /\ CountsMade'
      /\ Marking' /\ MarksExist' /\ KeptClosed' /\ NoDangling' /\ RequestOK'
  BY <1>1, <1>3, <1>4, <1>5, GiveToInv
<1>7. \A q \in Piece : info'[q] = IF q = p THEN "BusyFirst"
                                  ELSE IF sectOf(q) = s THEN "FreeFirst" ELSE info[q]
  BY <1>1, <1>3 DEF GiveTo
<1>8. \A q \in Piece : class'[sectOf(q)] = IF sectOf(q) = s THEN request.class
                                           ELSE class[sectOf(q)]
  BY <1>1, PieceFacts DEF Inv, TypeOK
<1>9. TagsExist'
  BY <1>3, <1>5, <1>7, <1>8, ClassFacts DEF Inv, TagsExist
<1>10. FreeListsExact'
  <2>1. \A c \in Class, q \in Piece :
           linked'[c][q] = IF c = request.class /\ sectOf(q) = s /\ q # p
                           THEN linked[c][q] + 1 ELSE linked[c][q]
    <3>1. linked \in [Class -> [Piece -> Nat]]
      BY DEF Inv, TypeOK
    <3>2. \A q \in Piece : q \in PiecesOf(s) \ {p} <=> sectOf(q) = s /\ q # p
      BY DEF PiecesOf
    <3> QED  BY <1>1, <1>5, <3>1, <3>2, LinkType
  <2>2. \A c \in Class, q \in Piece :
           linked[c][q] = IF class[sectOf(q)] = c /\ info[q] = "FreeFirst" THEN 1 ELSE 0
    BY <1>1 DEF Inv, FreeListsExact
  <2>3. ASSUME NEW c \in Class, NEW q \in Piece
        PROVE  linked'[c][q] = IF class'[sectOf(q)] = c /\ info'[q] = "FreeFirst" THEN 1 ELSE 0
    BY <1>2, <1>3, <1>5, <1>7, <1>8, <2>1, <2>2
  <2> QED  BY <2>3 DEF FreeListsExact
<1> QED  BY <1>6, <1>9, <1>10 DEF Inv

\* A piece in use becomes free: in both stoFree and CopyAndFree.
LEMMA Freed ==
    ASSUME Inv, phase \in {"idle", "copy"}, NEW p \in Busy,
           info' = [info EXCEPT ![p] = "FreeFirst"],
           linked' = Link(linked, class[sectOf(p)], {p}),
           UNCHANGED class
    PROVE  /\ Busy' = Busy \ {p}
           /\ TagsExist'
           /\ FreeListsExact'
<1>1. p \in Piece /\ info \in [Piece -> Kinds] /\ info[p] = "BusyFirst"
      /\ class[sectOf(p)] \in Class
  <2>1. p \in Piece /\ info[p] = "BusyFirst"
    BY DEF Busy
  <2>2. class[sectOf(p)] # None
    BY <2>1 DEF Inv, TagsExist
  <2> QED  BY <2>1, <2>2, PieceFacts DEF Inv, TypeOK
<1>2. Busy' = Busy \ {p} /\ TagsExist'
  BY <1>1, ClassFacts DEF Busy, Inv, TagsExist
<1>3. \A c \in Class, q \in Piece :
         linked'[c][q] = IF c = class[sectOf(p)] /\ q = p
                         THEN linked[c][q] + 1 ELSE linked[c][q]
  <2>1. linked \in [Class -> [Piece -> Nat]]
    BY DEF Inv, TypeOK
  <2> QED  BY <1>1, <2>1, LinkType
<1>4. \A c \in Class, q \in Piece :
         linked[c][q] = IF class[sectOf(q)] = c /\ info[q] = "FreeFirst" THEN 1 ELSE 0
  BY DEF Inv, FreeListsExact
<1>5. FreeListsExact'
  <2>1. ASSUME NEW c \in Class, NEW q \in Piece
        PROVE  linked'[c][q] = IF class'[sectOf(q)] = c /\ info'[q] = "FreeFirst" THEN 1 ELSE 0
    <3>1. class'[sectOf(q)] = class[sectOf(q)]
      OBVIOUS
    <3>2. info'[q] = IF q = p THEN "FreeFirst" ELSE info[q]
      BY <1>1
    <3>3. CASE q = p
      <4>1. linked[c][q] = 0 /\ info'[q] = "FreeFirst"
        BY <1>1, <1>4, <3>2, <3>3
      <4>2. linked'[c][q] = IF c = class[sectOf(q)] THEN linked[c][q] + 1 ELSE linked[c][q]
        BY <1>3, <3>3
      <4> QED  BY <3>1, <4>1, <4>2
    <3>4. CASE q # p
      <4>1. linked'[c][q] = linked[c][q] /\ info'[q] = info[q]
        BY <1>3, <3>2, <3>4
      <4> QED  BY <1>4, <3>1, <4>1
    <3> QED  BY <3>3, <3>4
  <2> QED  BY <2>1 DEF FreeListsExact
<1> QED  BY <1>2, <1>5

LEMMA stoFreeInv ==
    ASSUME Inv, NEW p \in Piece, stoFree(p), TypeOK'
    PROVE  Inv'
<1>1. /\ phase = "idle" /\ phase' = "idle" /\ p \in Busy
      /\ info' = [info EXCEPT ![p] = "FreeFirst"]
      /\ linked' = Link(linked, class[sectOf(p)], {p})
      /\ roots' = roots \ {p}
      /\ UNCHANGED <<class, mark, request>>
  BY DEF stoFree, Busy
<1>2. Busy' = Busy \ {p} /\ TagsExist' /\ FreeListsExact'
  BY <1>1, Freed
<1>3. /\ \A q \in Piece : refs'[q] = IF q = p THEN {} ELSE refs[q] \ {p}
      /\ \A q \in Piece : code'[q] = IF q = p THEN "plain" ELSE code[q]
  BY DEF stoFree, Forget, Untagged
<1>4. \A q \in Busy : q \in Piece
  BY DEF Busy
<1>5. Contents' /\ PointersTagged' /\ NoDangling'
  BY <1>1, <1>2, <1>3, <1>4, ZenonT(30) DEF Inv, Contents, PointersTagged, NoDangling
<1>6. TailsExact' /\ CountsMade' /\ Marking' /\ MarksExist' /\ KeptClosed'
  BY <1>1 DEF Inv, TailsExact, CountsMade, Marking, MarksExist, KeptClosed, Quiet
<1>7. RequestOK'
  BY <1>1 DEF Inv, RequestOK, NoRequest, Request
<1> QED  BY <1>2, <1>5, <1>6, <1>7 DEF Inv

\* The new piece takes over what the old one referred to, except the old one.
LEMMA CopyAndFreeInv ==
    ASSUME Inv, CopyAndFree, TypeOK'
    PROVE  Inv'
<1> DEFINE p == request.old
           q == request.new
<1>1. /\ p \in Piece /\ q \in Piece /\ p \in roots /\ q \in roots /\ q # p
      /\ code[q] = code[p] /\ p # NoPiece
  BY PieceFacts DEF CopyAndFree, Inv, RequestOK
<1>2. roots \subseteq Busy /\ \A r \in Busy : refs[r] \subseteq Busy
  BY DEF CopyAndFree, Inv, NoDangling
<1>3. /\ phase = "copy" /\ phase' = "idle" /\ p \in Busy
      /\ info' = [info EXCEPT ![p] = "FreeFirst"]
      /\ linked' = Link(linked, class[sectOf(p)], {p})
      /\ roots' = roots \ {p} /\ request' = NoRequest
      /\ UNCHANGED <<class, mark>>
  BY <1>1, <1>2 DEF CopyAndFree
<1>4. Busy' = Busy \ {p} /\ TagsExist' /\ FreeListsExact'
  BY <1>3, Freed
<1>5. PICK R \in SUBSET refs[p] : refs' = [Forget(p) EXCEPT ![q] = R \ {p}]
  BY DEF CopyAndFree
<1>6. /\ \A r \in Piece : refs'[r] = IF r = q THEN R \ {p}
                                     ELSE IF r = p THEN {} ELSE refs[r] \ {p}
      /\ \A r \in Piece : code'[r] = IF r = p THEN "plain" ELSE code[r]
  BY <1>1, <1>5 DEF CopyAndFree, Forget, Untagged
<1>7. \A r \in Busy : r \in Piece
  BY DEF Busy
<1>8. Contents'
  <2>1. q \in Busy'
    BY <1>1, <1>2, <1>4
  <2> QED  BY <1>4, <1>6, <2>1 DEF Inv, Contents
<1>9. NoDangling'
  <2>1. roots' \subseteq Busy'
    BY <1>2, <1>3, <1>4
  <2>2. ASSUME NEW r \in Busy'  PROVE refs'[r] \subseteq Busy'
    <3>1. r \in Piece /\ r \in Busy /\ r # p
      BY <1>4, <1>7
    <3>2. CASE r = q
      <4>1. refs'[r] = R \ {p}
        BY <1>6, <3>1, <3>2
      <4>2. refs[p] \subseteq Busy
        BY <1>2, <1>3
      <4> QED  BY <1>4, <1>5, <4>1, <4>2
    <3>3. CASE r # q
      <4>1. refs'[r] = refs[r] \ {p}
        BY <1>6, <3>1, <3>3
      <4>2. refs[r] \subseteq Busy
        BY <1>2, <3>1
      <4> QED  BY <1>4, <4>1, <4>2
    <3> QED  BY <3>2, <3>3
  <2> QED  BY <2>1, <2>2 DEF NoDangling
<1>10. PointersTagged'
  <2>1. ASSUME NEW r \in Busy', refs'[r] # {}  PROVE code'[r] = "pointers"
    <3>1. r \in Piece /\ r \in Busy /\ r # p
      BY <1>4, <1>7
    <3>2. \A t \in Busy : refs[t] # {} => code[t] = "pointers"
      BY DEF Inv, PointersTagged
    <3>3. CASE r = q
      <4>1. refs[p] # {}
        BY <1>5, <1>6, <2>1, <3>1, <3>3
      <4> QED  BY <1>1, <1>3, <1>6, <3>1, <3>2, <3>3, <4>1
    <3>4. CASE r # q
      <4>1. refs[r] # {}
        BY <1>6, <2>1, <3>1, <3>4
      <4> QED  BY <1>6, <3>1, <3>2, <4>1
    <3> QED  BY <3>3, <3>4
  <2> QED  BY <2>1 DEF PointersTagged
<1>11. TailsExact' /\ CountsMade' /\ Marking' /\ MarksExist' /\ KeptClosed'
  BY <1>3 DEF Inv, TailsExact, CountsMade, Marking, MarksExist, KeptClosed, Quiet
<1>12. RequestOK'
  BY <1>3 DEF RequestOK, NoRequest, Request
<1> QED  BY <1>4, <1>8, <1>9, <1>10, <1>11, <1>12 DEF Inv


\* The client's own steps touch only what it can reach.
LEMMA ClientInv ==
    ASSUME Inv, NEW p \in Piece, NEW q \in Piece,
           (\E cd \in Codes : stoRecode(p, cd)) \/ Write(p, q) \/ Erase(p, q) \/ Load(p, q) \/ Drop(p), TypeOK'
    PROVE  Inv'
<1>1. /\ phase = "idle" /\ phase' = "idle"
      /\ UNCHANGED <<class, info, mark, linked, request>>
  BY DEF stoRecode, Write, Erase, Load, Drop, pieceVars, listVars
<1>2. TagsExist' /\ FreeListsExact' /\ Busy' = Busy
  BY <1>1 DEF Inv, TagsExist, FreeListsExact, Busy
<1>3. TailsExact' /\ CountsMade' /\ Marking' /\ MarksExist' /\ KeptClosed' /\ RequestOK'
  BY <1>1 DEF Inv, TailsExact, CountsMade, Marking, MarksExist, KeptClosed, Quiet, RequestOK, NoRequest,
              Request
<1>4. roots \subseteq Busy /\ Busy \subseteq Piece /\ \A r \in Busy : refs[r] \subseteq Busy
  BY <1>1 DEF Inv, NoDangling, Busy
<1>5. Contents' /\ PointersTagged' /\ NoDangling'
  <2>1. CASE \E cd \in Codes : stoRecode(p, cd)
    BY <1>2, <1>4, <2>1 DEF stoRecode, client, Inv, Contents, PointersTagged, NoDangling, TypeOK
  <2>2. CASE Write(p, q)
    <3>1. /\ p \in Busy /\ q \in Busy /\ code[p] = "pointers" /\ code' = code /\ roots' = roots
          /\ \A r \in Piece : refs'[r] = IF r = p THEN refs[p] \cup {q} ELSE refs[r]
      BY <1>4, <2>2 DEF Write, pieceVars, Inv, TypeOK
    <3> QED  BY <1>2, <1>4, <3>1 DEF Inv, Contents, PointersTagged, NoDangling
  <2>3. CASE Erase(p, q)
    <3>1. /\ p \in Busy /\ code' = code /\ roots' = roots
          /\ \A r \in Piece : refs'[r] = IF r = p THEN refs[p] \ {q} ELSE refs[r]
      BY <1>4, <2>3 DEF Erase, pieceVars, Inv, TypeOK
    <3> QED  BY <1>2, <1>4, <3>1 DEF Inv, Contents, PointersTagged, NoDangling
  <2>4. CASE Load(p, q)
    BY <1>2, <1>4, <2>4 DEF Load, pieceVars, Inv, Contents, PointersTagged, NoDangling
  <2>5. CASE Drop(p)
    BY <1>2, <1>4, <2>5 DEF Drop, pieceVars, Inv, Contents, PointersTagged, NoDangling
  <2> QED  BY <2>1, <2>2, <2>3, <2>4, <2>5
<1> QED  BY <1>2, <1>3, <1>5 DEF Inv

LEMMA NoPagesInv ==
    ASSUME Inv, NoPages, TypeOK'
    PROVE  Inv'
<1>1. /\ phase = "pages" /\ request' = NoRequest
      /\ \/ request.old = NoPiece /\ phase' = "idle"
         \/ request.old # NoPiece /\ phase' = "crash"
      /\ UNCHANGED <<class, info, code, mark, linked, roots, refs, pending, cursor, tails, freeFixed, busyFixed>>
  BY DEF NoPages, pieceVars, listVars, client, gcVars
<1>2. RequestOK'
  BY <1>1 DEF RequestOK, NoRequest, Request
<1> QED  BY <1>1, <1>2 DEF Inv, TagsExist, Contents, PointersTagged, FreeListsExact,
              TailsExact, CountsMade, Marking, MarksExist, KeptClosed, NoDangling, Busy, Quiet

LEMMA InvStep ==
    ASSUME Inv, [Next]_vars
    PROVE  Inv'
<1>1. CASE Next
  <2>1. TypeOK'
    BY <1>1, TypeStep DEF Inv
  <2>2. ASSUME NEW p \in Piece, MarkWord(p)  PROVE Inv'
    BY <2>1, <2>2, MarkWordInv
  <2>3. CASE EndMark
    BY <2>1, <2>3, EndMarkInv
  <2>4. CASE SkipPage
    BY <2>1, <2>4, SkipPageInv
  <2>5. CASE SweepSection
    BY <2>1, <2>5, SweepSectionInv
  <2>6. CASE ReturnSection
    BY <2>1, <2>6, ReturnSectionInv
  <2>7. CASE EndSweep
    BY <2>1, <2>7, EndSweepInv
  <2>8. ASSUME NEW s \in Section, piecesGetFixed(s)  PROVE Inv'
    BY <2>1, <2>8, piecesGetFixedInv
  <2>9. CASE NoPages
    BY <2>1, <2>9, NoPagesInv
  <2>10. CASE CollectForPages
    BY <2>1, <2>10, BeginMarkInv DEF CollectForPages
  <2>11. CASE CopyAndFree
    BY <2>1, <2>11, CopyAndFreeInv
  <2>12. ASSUME NEW cd \in Codes, NEW c \in Class, stoAlloc(cd, c)  PROVE Inv'
    <3>1. Request(c, cd, NoPiece) \in Requests
      BY RequestType DEF AllCodes
    <3> QED  BY <2>1, <2>12, <3>1, AllocateInv DEF stoAlloc, Request
  <2>13. ASSUME NEW p \in Piece, stoFree(p)  PROVE Inv'
    BY <2>1, <2>13, stoFreeInv
  <2>14. ASSUME NEW p \in Piece, NEW c \in Class, stoResize(p, c)  PROVE Inv'
    <3>1. Request(c, code[p], p) \in Requests
      BY RequestType DEF Inv, TypeOK
    <3> QED  BY <2>1, <2>14, <3>1, AllocateInv DEF stoResize, Request
  <2>15. ASSUME NEW p \in Piece, NEW cd \in Codes, stoRecode(p, cd)  PROVE Inv'
    BY <2>1, <2>15, ClientInv
  <2>16. ASSUME NEW p \in Piece, NEW q \in Piece,
                Write(p, q) \/ Erase(p, q) \/ Load(p, q) \/ Drop(p)
         PROVE  Inv'
    BY <2>1, <2>16, ClientInv
  <2>17. CASE stoGc
    BY <2>1, <2>17, BeginMarkInv DEF stoGc
  <2> QED  BY <1>1, <2>2, <2>3, <2>4, <2>5, <2>6, <2>7, <2>8, <2>9, <2>10, <2>11, <2>12, <2>13,
              <2>14, <2>15, <2>16, <2>17 DEF Next, Collector, Allocator, Client
<1>2. CASE UNCHANGED vars
  <2>1. TypeOK'
    BY <1>2 DEF vars, pieceVars, listVars, gcVars, client, Inv, TypeOK
  <2>2. CountsMade'
    BY <1>2 DEF vars, pieceVars, listVars, gcVars, Inv, CountsMade, SweptOf
  <2>3. class' = class /\ info' = info /\ code' = code /\ mark' = mark /\ linked' = linked
        /\ roots' = roots /\ refs' = refs /\ pending' = pending /\ cursor' = cursor
        /\ tails' = tails /\ request' = request /\ phase' = phase
    BY <1>2 DEF vars, pieceVars, listVars, gcVars, client
  <2> QED
    BY <2>1, <2>2, <2>3 DEF Inv, TagsExist, Contents,
              PointersTagged, FreeListsExact, TailsExact, Marking, MarksExist, Kept, KeptClosed,
              NoDangling, Busy, RequestOK, Quiet
<1> QED  BY <1>1, <1>2

-----------------------------------------------------------------------------
(* The theorems.                                                           *)

\* The invariant holds in every state the allocator and its client reach.
THEOREM Invariance == Spec => []Inv
  BY InvInit, InvStep, PTL DEF Spec

\* Every variable keeps its type (the state store.c keeps for fixed pieces).
THEOREM TypeCorrect == Spec => []TypeOK
<1>1. Inv => TypeOK
  BY DEF Inv
<1> QED  BY <1>1, Invariance, PTL

\* A piece is in the free list of its size class exactly once if it is free,
\* and in no free list otherwise (stoAlloc, stoFree, stoGcSweepFixed).
THEOREM FreeLists == Spec => []FreeListsExact
<1>1. Inv => FreeListsExact
  BY DEF Inv
<1> QED  BY <1>1, Invariance, PTL

\* What the client can reach is in use: it is never swept, and never given to
\* another (stoGcMarkRange1, stoGcSweepFixed, stoResize).
THEOREM ClientSafe == Spec => []NoDangling
<1>1. Inv => NoDangling
  BY DEF Inv
<1> QED  BY <1>1, Invariance, PTL

\* No mark outlives the collection that made it (stoGcSweepFixed).
THEOREM MarksGone == Spec => []MarksCleared
<1>1. Inv => MarksCleared
  BY DEF Inv, MarksExist, Quiet, MarksCleared
<1> QED  BY <1>1, Invariance, PTL

\* A piece with pointers in it is tagged as one that may have them, also after
\* stoResize has moved it.
THEOREM TagsSafe == Spec => []PointersTagged
<1>1. Inv => PointersTagged
  BY DEF Inv
<1> QED  BY <1>1, Invariance, PTL


\* The free lists and the pieces in use are what the sweep has counted.
LEMMA EndSweepExact ==
    ASSUME Inv, EndSweep
    PROVE  CountsExact'
<1>1. /\ phase = "sweep" /\ cursor > NSections /\ linked' = tails
      /\ freeCount' = freeFixed /\ busyCount' = busyFixed
      /\ UNCHANGED <<class, info>>
  BY DEF EndSweep, pieceVars
<1>2. \A p \in Piece : sectOf(p) < cursor
  BY <1>1, PieceFacts DEF Section, Inv, TypeOK
<1>3. ASSUME NEW c \in Class
      PROVE  /\ freeCount'[c] = Cardinality(Available(c)')
             /\ busyCount'[c] = Cardinality({p \in Busy : class[sectOf(p)] = c}')
  <2>1. Available(c)' = SweptOf(c, "FreeFirst")
    BY <1>1, <1>2 DEF Available, SweptOf, Inv, TailsExact
  <2>2. {p \in Busy : class[sectOf(p)] = c}' = SweptOf(c, "BusyFirst")
    BY <1>1, <1>2 DEF SweptOf, Busy
  <2> QED  BY <1>1, <2>1, <2>2 DEF Inv, CountsMade
<1> QED  BY <1>3 DEF CountsExact

\* The counts are exact when pagesGet goes on after its collection, and stay
\* so until it has decided: nothing is linked in between.
Decides == phase = "pages" /\ request.collected

LEMMA HeadroomStep ==
    ASSUME Inv, Decides => CountsExact, [Next]_vars
    PROVE  /\ Decides' => CountsExact'
           /\ counts' # counts => CountsExact'
<1>1. CASE EndSweep
  BY <1>1, EndSweepExact
<1>2. CASE Next /\ ~EndSweep
  <2>1. counts' = counts
    BY <1>2 DEF Next, Collector, Allocator, Client, MarkWord, EndMark, SkipPage, SweepSection,
                ReturnSection, piecesGetFixed, NoPages, CollectForPages, BeginMark, listVars,
                CopyAndFree, stoAlloc, stoResize, Allocate, stoFree, stoRecode, Write, Erase,
                Load, Drop, stoGc
  <2>2. ASSUME Decides'
        PROVE  FALSE
    <3>1. \/ \E cd \in Codes, c \in Class : stoAlloc(cd, c)
          \/ \E p \in Piece, c \in Class : stoResize(p, c)
      BY <1>2, <2>2 DEF Decides, Next, Collector, Allocator, Client, MarkWord, EndMark, SkipPage,
                  SweepSection, ReturnSection, piecesGetFixed, GiveTo, NoPages, CollectForPages,
                  BeginMark, CopyAndFree, stoFree, stoRecode, Write, Erase, Load, Drop, stoGc,
                  Sweeping
    <3>2. ASSUME NEW cd, NEW c, NEW p, Allocate(Request(c, cd, p))
          PROVE  FALSE
      BY <2>2, <3>2 DEF Decides, Allocate, GiveTo, Request
    <3> QED  BY <3>1, <3>2 DEF stoAlloc, stoResize
  <2> QED  BY <2>1, <2>2
<1>3. CASE UNCHANGED vars
  BY <1>3 DEF vars, listVars, pieceVars, Decides, CountsExact, Available, Busy
<1> QED  BY <1>1, <1>2, <1>3

\* The headroom that decides on growing the heap is computed from exact
\* counts, although nothing keeps them up between collections, and from those
\* of the last sweep when a sweep asks for pages itself (stoGcSweep,
\* stoGcSweepFixed, stoNeedsMoreHeadroom).
THEOREM HeadroomExact == Spec => HeadroomCountsExact
<1>1. Init => (Decides => CountsExact)
  BY DEF Init, Decides
<1>2. Inv /\ (Decides => CountsExact) /\ [Next]_vars =>
          (Decides => CountsExact)' /\ [counts' # counts => CountsExact']_vars
  BY HeadroomStep
<1>3. (Decides => CountsExact) <=> (phase = "pages" /\ request.collected => CountsExact)
  BY DEF Decides
<1> QED  BY <1>1, <1>2, <1>3, Invariance, PTL DEF Spec, HeadroomCountsExact

-----------------------------------------------------------------------------
(* The pieces and their collector implement the abstract heap.             *)

LEMMA RefineInit == Init => Heap!Init
  BY DEF Init, Heap!Init, Busy

LEMMA RefineAllocate ==
    ASSUME Inv, phase = "idle", NEW req, req.class \in Class, Allocate(req)
    PROVE  \/ \E p \in Piece : Heap!Alloc(p)
           \/ UNCHANGED <<Busy, roots, refs>>
<1>1. CASE Available(req.class) # {}
  <2>1. PICK p \in Available(req.class) : GiveTo(p, req, info)
    BY <1>1 DEF Allocate
  <2>2. p \in Piece /\ linked[req.class][p] > 0
    BY DEF Available
  <2>3. p \notin Busy
    BY <2>2 DEF Inv, FreeListsExact, Busy
  <2>4. Busy' = Busy \cup {p} /\ roots' = roots \cup {p} /\ refs' = refs
    BY <2>1, <2>2 DEF GiveTo, Allocate, Busy, Inv, TypeOK
  <2> QED  BY <2>2, <2>3, <2>4 DEF Heap!Alloc
<1>2. CASE Available(req.class) = {}
  BY <1>2 DEF Allocate, Busy
<1> QED  BY <1>1, <1>2

LEMMA RefinePieces ==
    ASSUME Inv, NEW s \in Section, piecesGetFixed(s)
    PROVE  \E p \in Piece : Heap!Alloc(p)
<1> DEFINE p == <<s, 1>>
           tags == [q \in Piece |-> IF sectOf(q) = s THEN "FreeFirst" ELSE info[q]]
<1>1. GiveTo(p, request, tags) /\ class[s] = None /\ refs' = refs
  BY DEF piecesGetFixed
<1>2. \A q \in Piece : sectOf(q) = s => q \notin Busy
  BY <1>1 DEF Inv, TagsExist, Busy
<1>3. p \in Piece /\ sectOf(p) = s
  BY PieceFacts
<1>4. \A q \in Piece : info'[q] = IF q = p THEN "BusyFirst"
                                  ELSE IF sectOf(q) = s THEN "FreeFirst" ELSE info[q]
  BY <1>1, <1>3 DEF GiveTo
<1>5. Busy' = Busy \cup {p}
  BY <1>2, <1>3, <1>4 DEF Busy
<1>6. roots' = roots \cup {p}
  BY <1>1 DEF GiveTo
<1> QED  BY <1>1, <1>2, <1>3, <1>5, <1>6 DEF Heap!Alloc

\* What a step of the sweep takes, the client could not reach: the pieces to
\* be kept are closed.
LEMMA RefineSweep ==
    ASSUME Inv, SweepSection \/ ReturnSection
    PROVE  \E D \in SUBSET Busy : Heap!Collect(D)
<1> DEFINE s == cursor
           D == (PiecesOf(s) \cap Busy) \ mark
<1>1. phase = "sweep" /\ roots' = roots
  BY DEF SweepSection, ReturnSection, Sweeping, listVars
<1>2. \A p \in Piece : sectOf(p) = s => ~(sectOf(p) < s)
  BY PieceFacts DEF Section, Inv, TypeOK
<1>3. Kept \in SUBSET (Busy \ D)
  BY <1>2 DEF Kept, Busy, PiecesOf
<1>4. roots \subseteq Kept /\ \A p \in Kept : refs[p] \subseteq Kept
  BY <1>1 DEF Inv, KeptClosed
<1>5. \E K \in SUBSET (Busy \ D) : Heap!Closed(K)
  BY <1>3, <1>4 DEF Heap!Closed
<1>6. Busy' = Busy \ D /\ refs' = [p \in Piece |-> IF p \in D THEN {} ELSE refs[p]]
  <2>1. CASE SweepSection
    BY <2>1 DEF SweepSection, Swept, Wiped, Busy, PiecesOf
  <2>2. CASE ReturnSection
    <3>1. PiecesOf(s) \cap Busy = D
      BY <2>2 DEF ReturnSection
    <3>2. /\ info' = [p \in Piece |-> IF p \in PiecesOf(s) THEN "none" ELSE info[p]]
          /\ refs' = [p \in Piece |-> IF p \in PiecesOf(s) THEN {} ELSE refs[p]]
      BY <2>2 DEF ReturnSection, Wiped
    <3>3. \A p \in Piece : p \notin Busy => refs[p] = {}
      BY DEF Inv, Contents
    <3>4. Busy' = Busy \ D
      BY <3>1, <3>2 DEF Busy
    <3>5. \A p \in Piece : refs'[p] = IF p \in D THEN {} ELSE refs[p]
      BY <3>1, <3>2, <3>3
    <3> QED  BY <3>2, <3>4, <3>5
  <2> QED  BY <2>1, <2>2
<1> QED  BY <1>1, <1>5, <1>6 DEF Heap!Collect

LEMMA RefineCopy ==
    ASSUME Inv, CopyAndFree
    PROVE  \E p, q \in Piece : Heap!Replace(p, q)
<1> DEFINE p == request.old
           q == request.new
<1>1. /\ p \in Piece /\ q \in Piece /\ p \in roots /\ q \in roots /\ q # p
  BY PieceFacts DEF CopyAndFree, Inv, RequestOK
<1>2. \E R \in SUBSET refs[p] : refs' = [Heap!Forget(p) EXCEPT ![q] = R \ {p}]
  BY DEF CopyAndFree, Forget, Heap!Forget
<1>3. Busy' = Busy \ {p} /\ roots' = roots \ {p}
  BY <1>1 DEF CopyAndFree, Busy, Inv, TypeOK
<1> QED  BY <1>1, <1>2, <1>3 DEF Heap!Replace

LEMMA RefineStep ==
    ASSUME Inv, [Next]_vars
    PROVE  [Heap!Next]_(Heap!vars)
<1> SUFFICES Heap!Next \/ UNCHANGED <<Busy, roots, refs>>
  BY DEF Heap!vars
<1>1. CASE Next
  <2>1. CASE Collector
    <3>1. CASE SweepSection \/ ReturnSection
      BY <3>1, RefineSweep DEF Heap!Next
    <3>2. CASE ~(SweepSection \/ ReturnSection)
      BY <2>1, <3>2 DEF Collector, MarkWord, EndMark, SkipPage, EndSweep, pieceVars, client, Busy
    <3> QED  BY <3>1, <3>2
  <2>2. CASE Allocator
    <3>1. CASE \E s \in Section : piecesGetFixed(s)
      BY <3>1, RefinePieces DEF Heap!Next
    <3>2. CASE NoPages \/ CollectForPages
      BY <3>2 DEF NoPages, CollectForPages, BeginMark, pieceVars, client, Busy
    <3>3. CASE CopyAndFree
      BY <3>3, RefineCopy DEF Heap!Next
    <3> QED  BY <2>2, <3>1, <3>2, <3>3 DEF Allocator
  <2>3. ASSUME NEW cd \in Codes, NEW c \in Class, stoAlloc(cd, c)
        PROVE  Heap!Next \/ UNCHANGED <<Busy, roots, refs>>
    BY <2>3, RefineAllocate DEF stoAlloc, Request, Heap!Next
  <2>4. ASSUME NEW p \in Piece, stoFree(p)
        PROVE  Heap!Next
    <3>1. Busy' = Busy \ {p}
      BY <2>4 DEF stoFree, Busy, Inv, TypeOK
    <3>2. Heap!Free(p)
      BY <2>4, <3>1 DEF stoFree, Heap!Free, Forget, Heap!Forget
    <3> QED  BY <3>2 DEF Heap!Next
  <2>5. ASSUME NEW p \in Piece, Drop(p)
        PROVE  Heap!Next
    <3>1. Heap!Drop(p)
      BY <2>5 DEF Drop, Heap!Drop, pieceVars, Busy
    <3> QED  BY <3>1 DEF Heap!Next
  <2>6. ASSUME NEW p \in Piece, NEW c \in Class, stoResize(p, c)
        PROVE  Heap!Next \/ UNCHANGED <<Busy, roots, refs>>
    BY <2>6, RefineAllocate DEF stoResize, Request, Heap!Next
  <2>7. ASSUME NEW p \in Piece, NEW cd \in Codes, stoRecode(p, cd)
        PROVE  UNCHANGED <<Busy, roots, refs>>
    BY <2>7 DEF stoRecode, client, Busy
  <2>8. ASSUME NEW p \in Piece, NEW q \in Piece, Write(p, q) \/ Erase(p, q) \/ Load(p, q)
        PROVE  Heap!Next
    <3>1. refs \in [Piece -> SUBSET Piece] /\ roots \subseteq Piece
      BY DEF Inv, TypeOK
    <3>2. CASE Write(p, q)
      <4>1. Heap!Write(p, refs[p] \cup {q})
        BY <3>2 DEF Write, Heap!Write, pieceVars, Busy
      <4> QED  BY <3>1, <4>1 DEF Heap!Next
    <3>3. CASE Erase(p, q)
      <4>1. Heap!Write(p, refs[p] \ {q})
        BY <3>3 DEF Erase, Heap!Write, pieceVars, Busy
      <4> QED  BY <3>1, <4>1 DEF Heap!Next
    <3>4. CASE Load(p, q)
      <4>1. Heap!Load(p, q)
        BY <3>4 DEF Load, Heap!Load, pieceVars, Busy
      <4> QED  BY <4>1 DEF Heap!Next
    <3> QED  BY <2>8, <3>2, <3>3, <3>4
  <2>9. CASE stoGc
    BY <2>9 DEF stoGc, BeginMark, pieceVars, client, Busy
  <2> QED  BY <1>1, <2>1, <2>2, <2>3, <2>4, <2>5, <2>6, <2>7, <2>8, <2>9 DEF Next, Client
<1>2. CASE UNCHANGED vars
  BY <1>2 DEF vars, pieceVars, client, Busy
<1> QED  BY <1>1, <1>2

\* Through every interleaving of calls, growth and collections the client
\* sees only what StoHeap promises: an unused piece from stoAlloc, one piece
\* for another with its contents from stoResize, and a collection that takes
\* nothing it can reach.
THEOREM Implementation == Spec => HeapSpec
  BY RefineInit, RefineStep, Invariance, PTL DEF Spec, HeapSpec, Heap!Spec

=============================================================================

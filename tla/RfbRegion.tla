----------------------------- MODULE RfbRegion ------------------------------
(***************************************************************************)
(* The regions of libvncserver (rfbregion.c): sorted lists of vertical     *)
(* spans, each with a list of horizontal spans, and the loops that unite,  *)
(* intersect and subtract them in place.                                   *)
(*                                                                         *)
(* A list is a sequence.  A loop keeps what lies before its cursor in      *)
(* "done", the cursor's span and what follows in "rest"; the lists are     *)
(* walked once, so a recursive operator stands for each loop.  Horizontal  *)
(* spans have no list of their own (NULL), written <<>>; a vertical span   *)
(* without horizontal ones is removed, so the two are never confused.      *)
(***************************************************************************)
EXTENDS Integers, Sequences

RegionSeqs == INSTANCE SequencesExt
RegionSets == INSTANCE FiniteSetsExt

CONSTANTS Columns, Rows       \* the size of the grid

ASSUME RegionAssumption == Columns \in Nat \ {0} /\ Rows \in Nat \ {0}

VARIABLES
  region,        \* a region
  pixels         \* the set of pixels it stands for
regionState == <<region, pixels>>

Span(start, end, sub) == [start |-> start, end |-> end, sub |-> sub]
Rect(x1, y1, x2, y2) == [x1 |-> x1, y1 |-> y1, x2 |-> x2, y2 |-> y2]

(* sraRgnCreateRect(). *)
CreateRect(r) == <<Span(r.y1, r.y2, <<Span(r.x1, r.x2, <<>>)>>)>>

PixelsIn(r) == (r.x1 .. r.x2 - 1) \X (r.y1 .. r.y2 - 1)

Rectangles ==
  {r \in [x1 : 0..Columns, y1 : 0..Rows, x2 : 0..Columns, y2 : 0..Rows] :
     r.x1 < r.x2 /\ r.y1 < r.y2}

-----------------------------------------------------------------------------
(* Plausible mistakes in the definitions below. *)

(* Adjacent spans are merged whatever is in them. *)
MergeableAlways(a, b) == a.end = b.start

-----------------------------------------------------------------------------
(* The spans a and b are merged if b follows a. *)
Mergeable(a, b) == a.end = b.start /\ a.sub = b.sub

(* sraSpanMergePrevious(): the cursor's span swallows spans before it. *)
RECURSIVE MergePrevious(_, _)
MergePrevious(done, d) ==
  IF done # <<>> /\ Mergeable(RegionSeqs!Last(done), d)
    THEN MergePrevious(RegionSeqs!Front(done),
                       [d EXCEPT !.start = RegionSeqs!Last(done).start])
    ELSE [done |-> done, span |-> d]

(* sraSpanMergeNext(). *)
RECURSIVE MergeNext(_, _)
MergeNext(d, rest) ==
  IF rest # <<>> /\ Mergeable(d, Head(rest))
    THEN MergeNext([d EXCEPT !.end = Head(rest).end], Tail(rest))
    ELSE [span |-> d, rest |-> rest]

(* A span with the part that lies after the position "end" split off. *)
SplitEnd(d, rest, end) ==
  IF end < d.end
    THEN [span |-> [d EXCEPT !.end = end],
          rest |-> <<[d EXCEPT !.start = end]>> \o rest]
    ELSE [span |-> d, rest |-> rest]

(* The same for the part before "start". *)
SplitStart(done, d, start) ==
  IF start > d.start
    THEN [done |-> Append(done, [d EXCEPT !.end = start]),
          span |-> [d EXCEPT !.start = start]]
    ELSE [done |-> done, span |-> d]

(* sraSpanListOr(). *)
RECURSIVE SpanListOr(_, _, _)
SpanListOr(done, rest, src) ==
  IF src = <<>> THEN done \o rest
  ELSE IF rest = <<>> THEN SpanListOr(Append(done, Head(src)), <<>>, Tail(src))
  ELSE
  LET s == Head(src)
      d == Head(rest)
  IN CASE d.start >= s.end ->
            LET m == MergePrevious(Append(done, s), d)
            IN SpanListOr(m.done, <<m.span>> \o Tail(rest), Tail(src))
       [] d.end <= s.start ->
            SpanListOr(Append(done, d), Tail(rest), src)
       [] OTHER ->
            LET new    == IF s.start < d.start
                            THEN MergePrevious(
                                   Append(done, [s EXCEPT !.end = d.start]), d)
                            ELSE [done |-> done, span |-> d]
                after  == SplitEnd(new.span, Tail(rest), s.end)
                before == SplitStart(new.done, after.span, s.start)
                both   == [before.span EXCEPT
                             !.sub = SpanListOr(<<>>, @, s.sub)]
                left   == MergePrevious(before.done, both)
                right  == MergeNext(left.span, after.rest)
            IN IF s.end > right.span.end
                 THEN SpanListOr(Append(left.done, right.span), right.rest,
                        <<[s EXCEPT !.start = right.span.end]>> \o Tail(src))
                 ELSE SpanListOr(left.done, <<right.span>> \o right.rest,
                                 Tail(src))

(* sraSpanListAnd(): horizontal spans (sub = <<>>) only need to overlap. *)
RECURSIVE SpanListAnd(_, _, _)
SpanListAnd(done, rest, src) ==
  IF src = <<>> \/ rest = <<>> THEN done
  ELSE
  LET s == Head(src)
      d == Head(rest)
  IN CASE d.start >= s.end -> SpanListAnd(done, rest, Tail(src))
       [] d.end <= s.start -> SpanListAnd(done, Tail(rest), src)
       [] OTHER ->
            LET top   == IF s.start > d.start
                           THEN [d EXCEPT !.start = s.start] ELSE d
                after == SplitEnd(top, Tail(rest), s.end)
                sub   == SpanListAnd(<<>>, after.span.sub, s.sub)
                left  == MergePrevious(done, [after.span EXCEPT !.sub = sub])
                end   == left.span.end
                src2  == IF s.end <= end THEN Tail(src) ELSE src
            IN IF d.sub # <<>> /\ sub = <<>>
                 THEN SpanListAnd(done, after.rest, src)
               ELSE IF s.end >= end
                 THEN SpanListAnd(Append(left.done, left.span), after.rest,
                                  src2)
                 ELSE SpanListAnd(left.done, <<left.span>> \o after.rest, src2)

(* sraSpanListSubtract(). *)
RECURSIVE SpanListSubtract(_, _, _)
SpanListSubtract(done, rest, src) ==
  IF src = <<>> \/ rest = <<>> THEN done \o rest
  ELSE
  LET s == Head(src)
      d == Head(rest)
  IN CASE d.start >= s.end -> SpanListSubtract(done, rest, Tail(src))
       [] d.end <= s.start ->
            SpanListSubtract(Append(done, d), Tail(rest), src)
       [] OTHER ->
            LET before == SplitStart(done, d, s.start)
                after  == SplitEnd(before.span, Tail(rest), s.end)
                sub    == SpanListSubtract(<<>>, after.span.sub, s.sub)
                left   == MergePrevious(before.done,
                                        [after.span EXCEPT !.sub = sub])
                right  == MergeNext(left.span, after.rest)
            IN IF sub = <<>>
                 THEN SpanListSubtract(before.done, after.rest, src)
               ELSE IF s.end > right.span.end
                 THEN SpanListSubtract(Append(left.done, right.span),
                                       right.rest, src)
                 ELSE SpanListSubtract(left.done,
                                       <<right.span>> \o right.rest, Tail(src))

RgnOr(dst, src) == SpanListOr(<<>>, dst, src)
RgnAnd(dst, src) == SpanListAnd(<<>>, dst, src)
RgnSubtract(dst, src) == SpanListSubtract(<<>>, dst, src)

(* sraRgnOffset(). *)
Moved(list, by) ==
  [i \in DOMAIN list |->
     [list[i] EXCEPT !.start = @ + by, !.end = @ + by]]
RgnOffset(dst, dx, dy) ==
  [i \in DOMAIN dst |-> [Moved(dst, dy)[i] EXCEPT !.sub = Moved(@, dx)]]

(* The order of an iterator, or of sraRgnPopRect(). *)
Directed(list, reverse) == IF reverse THEN RegionSeqs!Reverse(list) ELSE list

(* sraRgnIteratorNext(): all rectangles of a region. *)
IteratorRects(rgn, reverseX, reverseY) ==
  RegionSeqs!FlattenSeq(
    [i \in DOMAIN rgn |->
       LET v == Directed(rgn, reverseY)[i]
           h == Directed(v.sub, reverseX)
       IN [j \in DOMAIN h |-> Rect(h[j].start, v.start, h[j].end, v.end)]])

(* sraRgnPopRect(): the region without its first rectangle. *)
PopRect(rgn, right2left, bottom2top) ==
  LET v     == Head(Directed(rgn, bottom2top))
      sub   == Directed(Tail(Directed(v.sub, right2left)), right2left)
      other == Tail(Directed(rgn, bottom2top))
      rest  == IF sub = <<>> THEN other
               ELSE <<[v EXCEPT !.sub = sub]>> \o other
  IN Directed(rest, bottom2top)

(* sraRgnBBox(). *)
BBox(rgn) ==
  LET vs == RegionSeqs!ToSet(rgn)
      hs == UNION {RegionSeqs!ToSet(v.sub) : v \in vs}
  IN IF rgn = <<>> THEN <<>>
     ELSE CreateRect(Rect(RegionSets!Min({h.start : h \in hs}),
                          RegionSets!Min({v.start : v \in vs}),
                          RegionSets!Max({h.end : h \in hs}),
                          RegionSets!Max({v.end : v \in vs})))

-----------------------------------------------------------------------------
(* The pixels of a region. *)
PixelsOf(rgn) ==
  UNION {PixelsIn(r) : r \in RegionSeqs!ToSet(IteratorRects(rgn, FALSE, FALSE))}

Sorted(list) ==
  /\ \A i \in DOMAIN list : list[i].start < list[i].end
  /\ \A i \in 1..(Len(list) - 1) : list[i].end <= list[i + 1].start

RegionTypeOK ==
  /\ pixels \subseteq (0..Columns - 1) \X (0..Rows - 1)
  /\ region \in Seq([start : 0..Rows, end : 0..Rows,
                     sub : Seq([start : 0..Columns, end : 0..Columns,
                                sub : {<<>>}])])

RegionInit == region = <<>> /\ pixels = {}

(* The second operand: the union of two rectangles. *)
Operands == {RgnOr(CreateRect(a), CreateRect(b)) : a, b \in Rectangles}

Or ==
  \E src \in Operands :
    /\ region' = RgnOr(region, src)
    /\ pixels' = pixels \cup PixelsOf(src)

And ==
  \E src \in Operands :
    /\ region' = RgnAnd(region, src)
    /\ pixels' = pixels \cap PixelsOf(src)

Subtract ==
  \E src \in Operands :
    /\ region' = RgnSubtract(region, src)
    /\ pixels' = pixels \ PixelsOf(src)

Offset ==
  \E dx, dy \in {-1, 0, 1} :
    LET moved == {<<p[1] + dx, p[2] + dy>> : p \in pixels}
    IN /\ moved \subseteq (0..Columns - 1) \X (0..Rows - 1)
       /\ region' = RgnOffset(region, dx, dy)
       /\ pixels' = moved

Pop ==
  /\ region # <<>>
  /\ \E right2left, bottom2top \in BOOLEAN :
       LET popped == Head(IteratorRects(region, right2left, bottom2top))
       IN /\ region' = PopRect(region, right2left, bottom2top)
          /\ pixels' = pixels \ PixelsIn(popped)

RegionNext == Or \/ And \/ Subtract \/ Offset \/ Pop

RegionSpec == RegionInit /\ [][RegionNext]_regionState

-----------------------------------------------------------------------------
(* After any sequence of operations a region stands for the set of pixels  *)
(* that set operations give: its spans are sorted, disjoint and not empty, *)
(* its rectangles cover each pixel once in every direction of the          *)
(* iterator, and its bounding box is the smallest rectangle around them.   *)
RegionIsSet ==
  /\ PixelsOf(region) = pixels
  /\ Sorted(region)
  /\ \A i \in DOMAIN region : region[i].sub # <<>> /\ Sorted(region[i].sub)
  /\ \A rx, ry \in BOOLEAN :
       RegionSeqs!ToSet(IteratorRects(region, rx, ry))
         = RegionSeqs!ToSet(IteratorRects(region, FALSE, FALSE))
  /\ \A p \in pixels : p \in PixelsOf(BBox(region))
  /\ region # <<>> =>
       LET box == Head(IteratorRects(BBox(region), FALSE, FALSE))
       IN /\ \E p \in pixels : p[1] = box.x1
          /\ \E p \in pixels : p[1] = box.x2 - 1
          /\ \E p \in pixels : p[2] = box.y1
          /\ \E p \in pixels : p[2] = box.y2 - 1
=============================================================================

------------------------- MODULE RfbUpdates_proofs --------------------------
(***************************************************************************)
(* What is sent between the server and a client arrives.                   *)
(*   RfbUpdates   the server forgets no pixel, for screens of any width,   *)
(*                any number of draws, copies and changes of the size, and *)
(*                any number of messages in flight;                        *)
(*   RfbSockets   the byte streams of a connection are whole, for any      *)
(*                number of writers, any length of the messages, of the    *)
(*                reads and of the buffers, and any pieces the kernel      *)
(*                moves.  The bound on the messages is not needed.         *)
(***************************************************************************)
EXTENDS RfbUpdates, RfbSockets, Numbers_proofs, SequenceTheorems, TLAPS

Coming == 1..Len(toClient)

Sizes == [type : {"size"}, width : 1..MaxWidth]
Rectangles == [type : {"rects"}, copied : SUBSET Int, dx : Int,
               pixels : UNION {[P -> Colours] : P \in SUBSET Int}]

RegionsTyped ==
  /\ \E w \in 1..MaxWidth : Extent(screen) = Pixels(w)
  /\ screen \in [Extent(screen) -> Colours]
  /\ modifiedRegion \subseteq Extent(screen)
  /\ copyRegion \subseteq Extent(screen)
  /\ copyDX \in Int
  /\ updateRect \in 1..MaxWidth
  /\ toServer \in Seq(Messages)
  /\ toClient \in Seq(Sizes \cup Rectangles)
  /\ useCopyRect \in BOOLEAN /\ useNewFBSize \in BOOLEAN
  /\ newFBSizePending \in BOOLEAN

(* Until the server has read the encodings it has sent nothing. *)
EncodingsComeFirst ==
  ~useNewFBSize =>
    /\ ~useCopyRect /\ ~newFBSizePending
    /\ requestedRegion = {} /\ copyRegion = {}
    /\ toServer = <<SetEncodings, Request(updateRect, FALSE)>>
    /\ toClient = <<>>
    /\ Extent(frame) = Pixels(updateRect)

(* A size that changed before the encodings were read is never told: the   *)
(* client goes on asking for what it knows.                                *)
NeverTold ==
  /\ Extent(Expected) = Pixels(updateRect)
  /\ requestedRegion \subseteq Pixels(updateRect)
  /\ \A i \in 1..Len(toServer) : Pixels(toServer[i].width) \subseteq Pixels(updateRect)
  /\ \A i \in Coming : toClient[i].type = "rects"

SizeIsKnown ==
  newFBSizePending \/ Extent(Expected) = Extent(screen) \/ NeverTold

PendingIsModified ==
  newFBSizePending => useNewFBSize /\ Extent(screen) \subseteq modifiedRegion

EverythingFits ==
  /\ ~refused
  /\ \A i \in Coming : Fits(Reading(frame, toClient)[i - 1], toClient[i])

(* A pixel to be copied has its source where the client will find it. *)
Kept(p) ==
  \/ p \in modifiedRegion
  \/ /\ p \in copyRegion
     /\ p - copyDX \in Extent(Expected) /\ p \in Extent(Expected)
     /\ Expected[p - copyDX] = screen[p]
  \/ /\ p \notin copyRegion
     /\ p \in Extent(Expected)
     /\ Expected[p] = screen[p]

PixelsAreKept == newFBSizePending \/ \A p \in Extent(screen) : Kept(p)

UpdatesInv ==
  /\ RegionsTyped
  /\ EncodingsComeFirst
  /\ SizeIsKnown
  /\ PendingIsModified
  /\ EverythingFits
  /\ PixelsAreKept

(* Reading is what its recursive definition says: such a function exists   *)
(* for any number of messages, and is unique.                              *)
Reads(after, buffer, flow) ==
  after = [i \in 0..Len(flow) |->
             IF i = 0 THEN buffer ELSE Applied(after[i - 1], flow[i])]

(* The function that Reading is defined by: there is one ... *)
LEMMA ReadingExists ==
  ASSUME NEW buffer, NEW flow, Len(flow) \in Nat
  PROVE  \E after : Reads(after, buffer, flow)
<1> DEFINE Step(f, i) == IF i = 0 THEN buffer ELSE Applied(f[i - 1], flow[i])
           S == {n \in Nat : \E f : f = [i \in 0..n |-> Step(f, i)]}
<1>1. 0 \in S
  <2> DEFINE f == [i \in 0..0 |-> buffer]
  <2>1. f = [i \in 0..0 |-> Step(f, i)]
    OBVIOUS
  <2> HIDE DEF f
  <2>2. QED
    BY <2>1
<1>2. ASSUME NEW n \in Nat, n \in S PROVE n + 1 \in S
  <2>1. PICK f : f = [i \in 0..n |-> Step(f, i)]
    BY <1>2
  <2> DEFINE last == Applied(f[n], flow[n + 1])
             g == [i \in 0..(n + 1) |-> IF i = n + 1 THEN last ELSE f[i]]
  <2>2. ASSUME NEW i \in 0..(n + 1) PROVE g[i] = Step(g, i)
    <3>1. CASE i = n + 1
      BY <3>1
    <3>2. CASE i # n + 1
      <4>1. i \in 0..n /\ g[i] = f[i] /\ f[i] = Step(f, i)
        BY <2>1, <3>2
      <4>2. i # 0 => g[i - 1] = f[i - 1]
        BY <3>2
      <4>3. QED
        BY <4>1, <4>2
    <3>3. QED
      BY <3>1, <3>2
  <2>3. g = [i \in 0..(n + 1) |-> g[i]]
    OBVIOUS
  <2> HIDE DEF g
  <2>4. g = [i \in 0..(n + 1) |-> Step(g, i)]
    BY <2>2, <2>3
  <2>5. QED
    BY <2>4
<1>3. Len(flow) \in S
  <2> HIDE DEF S
  <2>1. QED
    BY <1>1, <1>2, SetInduction
<1>4. QED
  BY <1>3 DEF Reads

(* ... so Reading is one ... *)
LEMMA ReadingDefined ==
  ASSUME NEW buffer, NEW flow, Len(flow) \in Nat
  PROVE  Reads(Reading(buffer, flow), buffer, flow)
<1>1. PICK after : Reads(after, buffer, flow)
  BY ReadingExists
<1>2. QED
  BY <1>1 DEF Reads, Reading

(* ... and this is what it is. *)
LEMMA ReadingIs ==
  ASSUME NEW buffer, NEW flow, Len(flow) \in Nat,
         NEW after, Reads(after, buffer, flow)
  PROVE  Reading(buffer, flow) = after
<1> DEFINE r == Reading(buffer, flow)
           S == {n \in Nat : n <= Len(flow) => r[n] = after[n]}
<1>1. Reads(r, buffer, flow)
  BY ReadingDefined
<1> HIDE DEF r
<1>2. 0 \in S
  BY <1>1 DEF Reads
<1>3. ASSUME NEW n \in Nat, n \in S PROVE n + 1 \in S
  <2>1. SUFFICES ASSUME n + 1 <= Len(flow) PROVE r[n + 1] = after[n + 1]
    OBVIOUS
  <2>2. r[n] = after[n] /\ n + 1 \in 0..Len(flow) /\ (n + 1) - 1 = n
    BY <1>3, <2>1
  <2>3. /\ r[n + 1] = Applied(r[n], flow[n + 1])
        /\ after[n + 1] = Applied(after[n], flow[n + 1])
    BY <1>1, <2>2 DEF Reads
  <2>4. QED
    BY <2>2, <2>3
<1>4. Nat \subseteq S
  <2> HIDE DEF S
  <2>1. QED
    BY <1>2, <1>3, SetInduction
<1>5. \A i \in 0..Len(flow) : r[i] = after[i]
  BY <1>4
<1>6. r = after
  BY <1>1, <1>5 DEF Reads
<1>7. QED
  BY <1>6 DEF r

(* Another message is sent, or the first one is read. *)
LEMMA ReadingSent ==
  ASSUME NEW buffer, NEW S, NEW flow \in Seq(S), NEW m \in S
  PROVE  LET longer == Append(flow, m) IN
         /\ \A i \in 0..Len(flow) :
              Reading(buffer, longer)[i] = Reading(buffer, flow)[i]
         /\ Reading(buffer, longer)[Len(flow) + 1]
            = Applied(Reading(buffer, flow)[Len(flow)], m)
<1> DEFINE n == Len(flow)
           longer == Append(flow, m)
           r == Reading(buffer, flow)
           last == Applied(r[n], m)
           after == [i \in 0..Len(longer) |-> IF i = n + 1 THEN last ELSE r[i]]
<1>1. /\ n \in Nat /\ Len(longer) = n + 1 /\ longer[n + 1] = m
      /\ \A i \in 1..n : longer[i] = flow[i]
  OBVIOUS
<1>2. Reads(r, buffer, flow)
  BY <1>1, ReadingDefined
<1> HIDE DEF n, longer, r, last
<1>3. ASSUME NEW i \in 0..Len(longer)
      PROVE  after[i] = IF i = 0 THEN buffer ELSE Applied(after[i - 1], longer[i])
  <2>1. CASE i = 0
    BY <1>1, <1>2, <2>1 DEF Reads, n
  <2>2. CASE i \in 1..n
    <3>1. r[i] = Applied(r[i - 1], flow[i])
      BY <1>1, <1>2, <2>2 DEF Reads, n
    <3>2. after[i] = r[i] /\ after[i - 1] = r[i - 1]
      BY <1>1, <2>2
    <3>3. QED
      BY <1>1, <2>2, <3>1, <3>2
  <2>3. CASE i = n + 1
    <3>1. after[i] = last /\ after[i - 1] = r[n]
      BY <1>1, <2>3
    <3>2. QED
      BY <1>1, <2>3, <3>1 DEF last
  <2>4. QED
    BY <1>1, <2>1, <2>2, <2>3
<1>4. after = [i \in 0..Len(longer) |-> after[i]]
  OBVIOUS
<1>5. \A i \in 0..Len(longer) : after[i] = IF i = n + 1 THEN last ELSE r[i]
  OBVIOUS
<1> HIDE DEF after
<1>6. Reads(after, buffer, longer)
  BY <1>3, <1>4 DEF Reads
<1>7. Reading(buffer, longer) = after
  BY <1>1, <1>6, ReadingIs
<1>8. QED
  BY <1>1, <1>5, <1>7 DEF n, longer, r, last

(* The first message is read. *)
LEMMA ReadingRead ==
  ASSUME NEW buffer, NEW S, NEW flow \in Seq(S), flow # <<>>
  PROVE  LET rest == Tail(flow) IN
         \A i \in 0..Len(rest) :
           Reading(Applied(buffer, Head(flow)), rest)[i]
           = Reading(buffer, flow)[i + 1]
<1> DEFINE rest == Tail(flow)
           r == Reading(buffer, flow)
           first == Applied(buffer, Head(flow))
           after == [i \in 0..Len(rest) |-> r[i + 1]]
<1>1. /\ Len(flow) \in Nat /\ Len(rest) = Len(flow) - 1
      /\ Len(rest) \in Nat /\ Head(flow) = flow[1]
      /\ \A i \in 1..Len(rest) : rest[i] = flow[i + 1]
  OBVIOUS
<1>2. Reads(r, buffer, flow)
  BY <1>1, ReadingDefined
<1> HIDE DEF rest, r
<1>3. r[1] = first
  <2>1. 1 \in 0..Len(flow) /\ 0 \in 0..Len(flow)
    BY <1>1
  <2>2. r[0] = buffer /\ r[1] = Applied(r[0], flow[1])
    BY <2>1, <1>2 DEF Reads
  <2>3. QED
    BY <1>1, <2>2
<1> HIDE DEF first
<1>4. ASSUME NEW i \in 0..Len(rest)
      PROVE  after[i] = IF i = 0 THEN first ELSE Applied(after[i - 1], rest[i])
  <2>1. CASE i = 0
    BY <1>1, <1>3, <2>1
  <2>2. CASE i # 0
    <3>1. i + 1 \in 0..Len(flow) /\ i + 1 # 0 /\ (i + 1) - 1 = i
      BY <1>1, <2>2
    <3>2. r[i + 1] = Applied(r[i], flow[i + 1])
      BY <1>2, <3>1 DEF Reads
    <3>3. after[i] = r[i + 1] /\ after[i - 1] = r[i] /\ rest[i] = flow[i + 1]
      BY <1>1, <2>2
    <3>4. QED
      BY <2>2, <3>2, <3>3
  <2>3. QED
    BY <2>1, <2>2
<1>5. after = [i \in 0..Len(rest) |-> after[i]]
  OBVIOUS
<1>6. \A i \in 0..Len(rest) : after[i] = r[i + 1]
  OBVIOUS
<1> HIDE DEF after
<1>7. Reads(after, first, rest)
  BY <1>4, <1>5 DEF Reads
<1>8. Reading(first, rest) = after
  BY <1>1, <1>7, ReadingIs
<1>9. QED
  BY <1>6, <1>8 DEF rest, r, first

-----------------------------------------------------------------------------
(* The server's application: nothing is sent or read.                      *)
LEMMA NothingRead ==
  ASSUME UNCHANGED <<frame, toClient, refused>>
  PROVE  /\ Expected' = Expected /\ Coming' = Coming
         /\ EverythingFits => EverythingFits'
BY DEF Expected, EverythingFits, Coming

(* Nor is anything asked for, and the size stays. *)
LEMMA SameSize ==
  ASSUME SizeIsKnown, EncodingsComeFirst, Extent(screen') = Extent(screen),
         UNCHANGED <<frame, toClient, refused, requestedRegion, encodingVars,
                     toServer, updateRect>>,
         copyRegion' # {} => copyRegion # {} \/ useCopyRect
  PROVE  SizeIsKnown' /\ EncodingsComeFirst'
<1>1. Expected' = Expected /\ Coming' = Coming
  BY NothingRead
<1>2. /\ newFBSizePending' = newFBSizePending /\ useNewFBSize' = useNewFBSize
      /\ useCopyRect' = useCopyRect
  BY DEF encodingVars
<1>3. SizeIsKnown'
  BY <1>1, <1>2 DEF SizeIsKnown, NeverTold
<1>4. EncodingsComeFirst'
  BY <1>2 DEF EncodingsComeFirst
<1>5. QED
  BY <1>3, <1>4

(* rfbMarkRegionAsModified() after a drawing. *)
LEMMA DrawPixelInv == UpdatesInv /\ DrawPixel => UpdatesInv'
<1> SUFFICES ASSUME UpdatesInv, DrawPixel PROVE UpdatesInv'
  OBVIOUS
<1>1. PICK q \in Extent(screen), c \in Colours :
        /\ screen' = [screen EXCEPT ![q] = c]
        /\ modifiedRegion' = modifiedRegion \cup {q}
  BY DEF DrawPixel
<1>2. UNCHANGED <<copyRegion, copyDX, requestedRegion, encodingVars, toServer,
                  toClient, frame, updateRect, refused>>
  BY DEF DrawPixel, clientVars
<1>3. /\ RegionsTyped /\ EncodingsComeFirst /\ SizeIsKnown /\ PendingIsModified
      /\ EverythingFits /\ PixelsAreKept
  BY DEF UpdatesInv
<1>4. /\ screen' \in [Extent(screen) -> Colours] /\ Extent(screen') = Extent(screen)
      /\ \A p \in Extent(screen) : p # q => screen'[p] = screen[p]
  BY <1>1, <1>3 DEF RegionsTyped, Extent
<1>5. Expected' = Expected /\ EverythingFits'
  BY <1>2, <1>3, NothingRead
<1>6. SizeIsKnown' /\ EncodingsComeFirst'
  BY <1>2, <1>3, <1>4, SameSize
<1>7. RegionsTyped'
  BY <1>1, <1>2, <1>3, <1>4 DEF RegionsTyped, encodingVars
<1>8. PendingIsModified'
  BY <1>1, <1>2, <1>3, <1>4 DEF PendingIsModified, encodingVars
<1>9. PixelsAreKept'
  <2>1. CASE newFBSizePending
    BY <1>2, <2>1 DEF PixelsAreKept, encodingVars
  <2>2. ASSUME \A p \in Extent(screen) : Kept(p), NEW p \in Extent(screen)
        PROVE  Kept(p)'
    <3>1. CASE p = q
      BY <1>1, <3>1 DEF Kept
    <3>2. CASE p # q
      BY <1>1, <1>2, <1>4, <1>5, <2>2, <3>2 DEF Kept
    <3>3. QED
      BY <3>1, <3>2
  <2>3. QED
    BY <1>3, <1>4, <2>1, <2>2 DEF PixelsAreKept
<1>10. QED
  BY <1>5, <1>6, <1>7, <1>8, <1>9 DEF UpdatesInv

(* Of a copied pixel, either the source is one the client will have right, *)
(* or it is itself to be sent, and then so is the copy.                    *)
LEMMA CopyPixelsInv == UpdatesInv /\ CopyPixels => UpdatesInv'
<1> SUFFICES ASSUME UpdatesInv, CopyPixels PROVE UpdatesInv'
  OBVIOUS
<1>1. PICK dx \in Shifts, x1 \in 0..MaxWidth, x2 \in 0..MaxWidth :
        LET dest == x1..(x2 - 1)
        IN /\ dest # {}
           /\ dest \subseteq Extent(screen)
           /\ Shift(dest, -dx) \subseteq Extent(screen)
           /\ screen' = [p \in Extent(screen) |->
                           IF p \in dest THEN screen[p - dx] ELSE screen[p]]
           /\ IF useCopyRect
                THEN /\ modifiedRegion' = Scheduled(dest, dx).modified
                     /\ copyRegion' = Scheduled(dest, dx).copy
                     /\ copyDX' = dx
                ELSE /\ modifiedRegion' = modifiedRegion \cup dest
                     /\ UNCHANGED <<copyRegion, copyDX>>
  BY DEF CopyPixels
<1> DEFINE dest == x1..(x2 - 1)
<1>2. UNCHANGED <<requestedRegion, encodingVars, toServer, toClient, frame,
                  updateRect, refused>>
  BY DEF CopyPixels, clientVars
<1>3. /\ RegionsTyped /\ EncodingsComeFirst /\ SizeIsKnown /\ PendingIsModified
      /\ EverythingFits /\ PixelsAreKept
  BY DEF UpdatesInv
<1>4. /\ dx \in Int /\ dest \subseteq Extent(screen) /\ dest \subseteq Int
      /\ Extent(screen) \subseteq Int
      /\ \A p \in dest : p - dx \in Extent(screen)
  <2>1. Extent(screen) \subseteq Int
    BY <1>3 DEF RegionsTyped, Pixels
  <2>2. \A p \in dest : p - dx \in Shift(dest, -dx)
    BY UpdatesAssumption DEF Shift
  <2>3. QED
    BY <1>1, <2>1, <2>2, UpdatesAssumption
<1>5. screen' = [p \in Extent(screen) |->
                   IF p \in dest THEN screen[p - dx] ELSE screen[p]]
  BY <1>1, Zenon
<1>6. /\ screen' \in [Extent(screen) -> Colours] /\ Extent(screen') = Extent(screen)
      /\ \A p \in Extent(screen) :
           screen'[p] = IF p \in dest THEN screen[p - dx] ELSE screen[p]
  BY <1>3, <1>4, <1>5 DEF RegionsTyped, Extent
<1>7. Expected' = Expected /\ EverythingFits'
  BY <1>2, <1>3, NothingRead
<1> DEFINE again == copyRegion # {} /\ copyDX # dx
           spoilt == IF again THEN copyRegion ELSE Shift(dest, -dx) \cap copyRegion
           modified == modifiedRegion \cup spoilt
           copy == (IF again THEN {} ELSE copyRegion) \cup dest
<1>8. CASE useCopyRect
  <2>1. /\ modifiedRegion' = modified \cup (Shift(modified, dx) \cap copy)
        /\ copyRegion' = copy /\ copyDX' = dx
    BY <1>1, <1>8 DEF Scheduled
  <2>2. /\ modifiedRegion \subseteq modifiedRegion'
        /\ modifiedRegion' \subseteq Extent(screen)
        /\ copyRegion' \subseteq Extent(screen)
    BY <1>3, <1>4, <2>1 DEF RegionsTyped
  <2>3. ASSUME \A p \in Extent(screen) : Kept(p), NEW p \in Extent(screen)
        PROVE  Kept(p)'
    <3>1. SUFFICES ASSUME p \notin modifiedRegion' PROVE Kept(p)'
      BY DEF Kept
    <3>2. Kept(p) /\ p \notin modifiedRegion /\ p \notin spoilt /\ p \in Int
      BY <1>4, <2>1, <2>3, <3>1
    <3>3. CASE p \in dest
      <4>1. p - dx \in Extent(screen) /\ p - dx \in Int /\ (p - dx) + dx = p
        BY <1>4, <3>3
      <4>2. p - dx \notin modified
        <5>1. p - dx \in modified => p \in Shift(modified, dx)
          BY <4>1 DEF Shift
        <5>2. QED
          BY <2>1, <3>1, <3>3, <5>1
      <4>3. p - dx \in Shift(dest, -dx)
        BY <1>4, <3>3 DEF Shift
      <4>4. p - dx \notin modifiedRegion /\ p - dx \notin copyRegion
        BY <4>2, <4>3
      <4>5. Kept(p - dx)
        BY <2>3, <4>1
      <4>6. p - dx \in Extent(Expected) /\ Expected[p - dx] = screen[p - dx]
        BY <4>4, <4>5 DEF Kept
      <4>7. p \in Extent(Expected)
        BY <3>2 DEF Kept
      <4>8. screen'[p] = screen[p - dx]
        BY <1>6, <3>3
      <4>9. p \in copyRegion' /\ copyDX' = dx
        BY <2>1, <3>3
      <4>10. QED
        BY <1>7, <4>6, <4>7, <4>8, <4>9 DEF Kept
    <3>4. CASE p \notin dest
      <4>1. screen'[p] = screen[p]
        BY <1>6, <3>4
      <4>2. CASE p \in copyRegion
        <5>1. ~again
          BY <3>2, <4>2
        <5>2. p \in copyRegion' /\ copyDX' = copyDX
          BY <2>1, <4>2, <5>1
        <5>3. QED
          BY <1>7, <3>2, <4>1, <4>2, <5>2 DEF Kept
      <4>3. CASE p \notin copyRegion
        <5>1. p \notin copyRegion'
          BY <2>1, <3>4, <4>3
        <5>2. QED
          BY <1>7, <3>2, <4>1, <4>3, <5>1 DEF Kept
      <4>4. QED
        BY <4>2, <4>3
    <3>5. QED
      BY <3>3, <3>4
  <2> HIDE DEF dest, again, spoilt, modified, copy
  <2>4. SizeIsKnown' /\ EncodingsComeFirst'
    BY <1>2, <1>3, <1>6, <1>8, SameSize
  <2>5. RegionsTyped'
    BY <1>2, <1>3, <1>4, <1>6, <2>1, <2>2 DEF RegionsTyped, encodingVars
  <2>6. PendingIsModified'
    BY <1>2, <1>3, <1>6, <2>2 DEF PendingIsModified, encodingVars
  <2>7. PixelsAreKept'
    BY <1>2, <1>3, <1>6, <2>3 DEF PixelsAreKept, encodingVars
  <2>8. QED
    BY <1>7, <2>4, <2>5, <2>6, <2>7 DEF UpdatesInv
<1>9. CASE ~useCopyRect
  <2>1. modifiedRegion' = modifiedRegion \cup dest /\ UNCHANGED <<copyRegion, copyDX>>
    BY <1>1, <1>9
  <2>2. ASSUME \A p \in Extent(screen) : Kept(p), NEW p \in Extent(screen)
        PROVE  Kept(p)'
    <3>1. CASE p \in dest
      BY <2>1, <3>1 DEF Kept
    <3>2. CASE p \notin dest
      <4>1. Kept(p) /\ screen'[p] = screen[p]
        BY <1>6, <2>2, <3>2
      <4>2. QED
        BY <1>7, <2>1, <4>1 DEF Kept
    <3>3. QED
      BY <3>1, <3>2
  <2> HIDE DEF dest, again, spoilt, modified, copy
  <2>3. SizeIsKnown' /\ EncodingsComeFirst'
    BY <1>2, <1>3, <1>6, <2>1, SameSize
  <2>4. RegionsTyped'
    BY <1>2, <1>3, <1>4, <1>6, <2>1 DEF RegionsTyped, encodingVars
  <2>5. PendingIsModified'
    BY <1>2, <1>3, <1>6, <2>1 DEF PendingIsModified, encodingVars
  <2>6. PixelsAreKept'
    BY <1>2, <1>3, <1>6, <2>2 DEF PixelsAreKept, encodingVars
  <2>7. QED
    BY <1>7, <2>3, <2>4, <2>5, <2>6 DEF UpdatesInv
<1>10. QED
  BY <1>8, <1>9

(* The parts of the invariant, as the lemmas use them ... *)
LEMMA UpdatesParts ==
  UpdatesInv <=> /\ RegionsTyped /\ EncodingsComeFirst /\ SizeIsKnown
                 /\ PendingIsModified /\ EverythingFits /\ PixelsAreKept
BY Zenon DEF UpdatesInv

(* ... and as they establish them. *)
LEMMA UpdatesPartsNext ==
  ASSUME RegionsTyped', EncodingsComeFirst', SizeIsKnown', PendingIsModified',
         EverythingFits', PixelsAreKept'
  PROVE  UpdatesInv'
BY Zenon DEF UpdatesInv

(* Nothing in flight. *)
LEMMA NothingInFlight ==
  ASSUME toClient = <<>>
  PROVE  Coming = {} /\ Expected = frame
<1>1. Len(toClient) = 0
  OBVIOUS
<1>2. Reads(Reading(frame, toClient), frame, toClient)
  BY <1>1, ReadingDefined
<1>3. QED
  BY <1>1, <1>2 DEF Coming, Expected, Reads

(* A client that has not announced NewFBSize yet is told of no size. *)
LEMMA NeverToldAtFirst ==
  ASSUME EncodingsComeFirst, ~useNewFBSize
  PROVE  NeverTold
<1>1. /\ toClient = <<>> /\ requestedRegion = {}
      /\ Extent(frame) = Pixels(updateRect)
      /\ toServer = <<SetEncodings, Request(updateRect, FALSE)>>
  BY DEF EncodingsComeFirst
<1>2. Coming = {} /\ Expected = frame
  BY <1>1, NothingInFlight
<1>3. \A i \in 1..Len(toServer) : Pixels(toServer[i].width) \subseteq Pixels(updateRect)
  <2>1. /\ toServer[1].width = 0 /\ toServer[2].width = updateRect
        /\ Len(toServer) = 2
    BY <1>1 DEF SetEncodings, Request
  <2>2. Pixels(0) = {}
    BY DEF Pixels
  <2>3. QED
    BY <2>1, <2>2
<1>4. QED
  BY <1>1, <1>2, <1>3 DEF NeverTold

(* rfbNewFramebuffer(). *)
LEMMA ResizeInv == UpdatesInv /\ Resize => UpdatesInv'
<1> SUFFICES ASSUME UpdatesInv, Resize PROVE UpdatesInv'
  OBVIOUS
<1>1. PICK w \in 1..MaxWidth, c \in Colours :
        screen' = [p \in Pixels(w) |-> c] /\ NewFramebuffer(w)
  BY DEF Resize
<1>2. /\ modifiedRegion' = Pixels(w) /\ copyRegion' = {} /\ copyDX' = 0
      /\ newFBSizePending' = (newFBSizePending \/ useNewFBSize)
  BY <1>1 DEF NewFramebuffer
<1>3. UNCHANGED <<requestedRegion, useCopyRect, useNewFBSize, toServer, toClient,
                  frame, updateRect, refused>>
  BY DEF Resize, clientVars
<1>4. /\ RegionsTyped /\ EncodingsComeFirst /\ SizeIsKnown /\ PendingIsModified
      /\ EverythingFits
  BY UpdatesParts
<1>5. Extent(screen') = Pixels(w) /\ screen' \in [Pixels(w) -> Colours]
  BY <1>1 DEF Extent
<1>6. RegionsTyped'
  BY <1>2, <1>3, <1>4, <1>5 DEF RegionsTyped
<1>7. Expected' = Expected /\ Coming' = Coming /\ EverythingFits'
  BY <1>3, <1>4, NothingRead
<1>8. PendingIsModified'
  BY <1>2, <1>3, <1>4, <1>5 DEF PendingIsModified
<1>9. PixelsAreKept'
  BY <1>2, <1>5 DEF PixelsAreKept, Kept
<1>10. SizeIsKnown' /\ EncodingsComeFirst'
  <2>1. CASE useNewFBSize
    BY <1>2, <1>3, <2>1 DEF SizeIsKnown, EncodingsComeFirst
  <2>2. CASE ~useNewFBSize
    <3>1. NeverTold
      BY <1>4, <2>2, NeverToldAtFirst
    <3>2. NeverTold'
      BY <1>3, <1>7, <3>1 DEF NeverTold
    <3>3. EncodingsComeFirst'
      BY <1>2, <1>3, <1>4, <2>2 DEF EncodingsComeFirst
    <3>4. QED
      BY <3>2, <3>3 DEF SizeIsKnown
  <2>3. QED
    BY <2>1, <2>2
<1>11. QED
  BY <1>6, <1>7, <1>8, <1>9, <1>10, UpdatesPartsNext

-----------------------------------------------------------------------------
(* The server reads a message. *)
LEMMA MessageRead ==
  ASSUME RegionsTyped, toServer # <<>>, toServer' = Tail(toServer)
  PROVE  /\ toServer' \in Seq(Messages)
         /\ Head(toServer) = toServer[1] /\ 1 \in 1..Len(toServer)
         /\ \A i \in 1..Len(toServer') :
              i + 1 \in 1..Len(toServer) /\ toServer'[i] = toServer[i + 1]
BY DEF RegionsTyped

(* ... SetEncodings. *)
LEMMA ProcessSetEncodingsInv == UpdatesInv /\ ProcessSetEncodings => UpdatesInv'
<1> SUFFICES ASSUME UpdatesInv, ProcessSetEncodings PROVE UpdatesInv'
  OBVIOUS
<1>1. /\ toServer # <<>> /\ toServer' = Tail(toServer)
      /\ useCopyRect' = TRUE /\ useNewFBSize' = TRUE
      /\ UNCHANGED <<screen, modifiedRegion, copyRegion, copyDX, requestedRegion,
                     newFBSizePending, toClient, frame, updateRect, refused>>
  BY DEF ProcessSetEncodings, regionVars, clientVars
<1>2. /\ RegionsTyped /\ SizeIsKnown /\ PendingIsModified
      /\ EverythingFits /\ PixelsAreKept
  BY UpdatesParts
<1>3. Expected' = Expected /\ Coming' = Coming /\ EverythingFits'
  BY <1>1, <1>2, NothingRead
<1>4. RegionsTyped'
  BY <1>1, <1>2, MessageRead DEF RegionsTyped
<1>5. EncodingsComeFirst' /\ PendingIsModified'
  BY <1>1, <1>2 DEF EncodingsComeFirst, PendingIsModified
<1>6. SizeIsKnown'
  BY <1>1, <1>2, <1>3, MessageRead DEF SizeIsKnown, NeverTold
<1>7. PixelsAreKept'
  BY <1>1, <1>2, <1>3 DEF PixelsAreKept, Kept
<1>8. QED
  BY <1>3, <1>4, <1>5, <1>6, <1>7, UpdatesPartsNext

(* ... FramebufferUpdateRequest. *)
LEMMA ProcessUpdateRequestInv == UpdatesInv /\ ProcessUpdateRequest => UpdatesInv'
<1> SUFFICES ASSUME UpdatesInv, ProcessUpdateRequest PROVE UpdatesInv'
  OBVIOUS
<1> DEFINE wanted == Pixels(Head(toServer).width) \cap Extent(screen)
           all == ~Head(toServer).incremental
<1>1. /\ toServer # <<>> /\ toServer' = Tail(toServer)
      /\ Head(toServer).type = "request"
      /\ requestedRegion' = requestedRegion \cup wanted
      /\ modifiedRegion' = IF all THEN modifiedRegion \cup wanted
                           ELSE modifiedRegion
      /\ copyRegion' = IF all THEN copyRegion \ wanted ELSE copyRegion
      /\ UNCHANGED <<screen, copyDX, useCopyRect, useNewFBSize, newFBSizePending,
                     toClient, frame, updateRect, refused>>
  BY DEF ProcessUpdateRequest, encodingVars, clientVars
<1>2. /\ RegionsTyped /\ EncodingsComeFirst /\ SizeIsKnown /\ PendingIsModified
      /\ EverythingFits /\ PixelsAreKept
  BY UpdatesParts
<1>3. Expected' = Expected /\ Coming' = Coming /\ EverythingFits'
  BY <1>1, <1>2, NothingRead
<1>4. useNewFBSize
  <2>1. ~useNewFBSize => Head(toServer).type = "encodings"
    BY <1>2 DEF EncodingsComeFirst, SetEncodings
  <2>2. QED
    BY <1>1, <2>1
<1>5. RegionsTyped'
  BY <1>1, <1>2, MessageRead DEF RegionsTyped
<1>6. EncodingsComeFirst' /\ PendingIsModified'
  BY <1>1, <1>2, <1>4 DEF EncodingsComeFirst, PendingIsModified
<1>7. SizeIsKnown'
  <2>1. NeverTold => NeverTold'
    BY <1>1, <1>2, <1>3, MessageRead DEF NeverTold
  <2>2. QED
    BY <1>1, <1>2, <1>3, <2>1 DEF SizeIsKnown
<1>8. PixelsAreKept'
  <2>1. ASSUME NEW p \in Extent(screen), Kept(p) PROVE Kept(p)'
    <3>1. CASE all /\ p \in wanted
      BY <1>1, <3>1 DEF Kept
    <3>2. CASE ~(all /\ p \in wanted)
      <4>1. /\ p \in modifiedRegion' <=> p \in modifiedRegion
            /\ p \in copyRegion' <=> p \in copyRegion
        BY <1>1, <3>2
      <4>2. QED
        BY <1>1, <1>3, <2>1, <4>1 DEF Kept
    <3>3. QED
      BY <3>1, <3>2
  <2>2. QED
    BY <1>1, <1>2, <2>1 DEF PixelsAreKept
<1>9. QED
  BY <1>3, <1>5, <1>6, <1>7, <1>8, UpdatesPartsNext

(* An update without anything to send. *)
LEMMA SendNothingInv == UpdatesInv /\ SendNothing => UpdatesInv'
<1> SUFFICES ASSUME UpdatesInv, SendNothing PROVE UpdatesInv'
  OBVIOUS
<1>1. /\ copyRegion' = copyRegion \ modifiedRegion
      /\ UNCHANGED <<screen, modifiedRegion, copyDX, requestedRegion,
                     encodingVars, toServer, toClient, frame, updateRect, refused>>
  BY DEF SendNothing, clientVars
<1>2. /\ RegionsTyped /\ EncodingsComeFirst /\ SizeIsKnown /\ PendingIsModified
      /\ EverythingFits /\ PixelsAreKept
  BY UpdatesParts
<1>3. Expected' = Expected /\ EverythingFits'
  BY <1>1, <1>2, NothingRead
<1>4. RegionsTyped' /\ PendingIsModified'
  BY <1>1, <1>2 DEF RegionsTyped, PendingIsModified, encodingVars
<1>5. SizeIsKnown' /\ EncodingsComeFirst'
  BY <1>1, <1>2, SameSize
<1>6. PixelsAreKept'
  BY <1>1, <1>2, <1>3 DEF PixelsAreKept, Kept, encodingVars
<1>7. QED
  BY <1>3, <1>4, <1>5, <1>6, UpdatesPartsNext

-----------------------------------------------------------------------------
(* The server sends a message that the client has room for. *)
LEMMA Sent ==
  ASSUME RegionsTyped, EverythingFits, NEW m \in Sizes \cup Rectangles,
         toClient' = Append(toClient, m), UNCHANGED <<frame, refused>>,
         Fits(Expected, m)
  PROVE  /\ toClient' \in Seq(Sizes \cup Rectangles)
         /\ Expected' = Applied(Expected, m)
         /\ EverythingFits'
         /\ \A i \in Coming' : toClient'[i] = m \/ (i \in Coming /\ toClient'[i] = toClient[i])
<1> DEFINE n == Len(toClient)
           longer == Append(toClient, m)
<1>1. /\ toClient \in Seq(Sizes \cup Rectangles) /\ n \in Nat
      /\ longer \in Seq(Sizes \cup Rectangles) /\ Len(longer) = n + 1
      /\ longer[n + 1] = m /\ \A i \in 1..n : longer[i] = toClient[i]
  BY DEF RegionsTyped
<1>2. /\ \A i \in 0..n : Reading(frame, longer)[i] = Reading(frame, toClient)[i]
      /\ Reading(frame, longer)[n + 1] = Applied(Reading(frame, toClient)[n], m)
  BY <1>1, ReadingSent
<1>3. toClient' = longer /\ frame' = frame /\ ~refused'
  BY DEF EverythingFits
<1> HIDE DEF n, longer
<1>4. Expected' = Applied(Expected, m)
  BY <1>1, <1>2, <1>3 DEF Expected, n
<1>5. ASSUME NEW i \in 1..(n + 1)
      PROVE  Fits(Reading(frame, longer)[i - 1], longer[i])
  <2>1. CASE i = n + 1
    BY <1>1, <1>2, <2>1 DEF Expected, n
  <2>2. CASE i \in 1..n
    <3>1. Fits(Reading(frame, toClient)[i - 1], toClient[i])
      BY <2>2 DEF EverythingFits, Coming, n
    <3>2. i - 1 \in 0..n
      BY <1>1, <2>2
    <3>3. QED
      BY <1>1, <1>2, <2>2, <3>1, <3>2
  <2>3. QED
    BY <1>1, <2>1, <2>2
<1>6. EverythingFits'
  BY <1>1, <1>3, <1>5 DEF EverythingFits, Coming
<1>7. \A i \in Coming' :
        toClient'[i] = m \/ (i \in Coming /\ toClient'[i] = toClient[i])
  BY <1>1, <1>3 DEF Coming, n
<1>8. QED
  BY <1>1, <1>3, <1>4, <1>6, <1>7

(* An update that is the new size. *)
LEMMA SendNewFBSizeInv == UpdatesInv /\ SendNewFBSize => UpdatesInv'
<1> SUFFICES ASSUME UpdatesInv, SendNewFBSize PROVE UpdatesInv'
  OBVIOUS
<1> DEFINE w == WidthOf(screen)
           m == NewFBSizeMarker(w)
<1>1. /\ newFBSizePending /\ useNewFBSize /\ newFBSizePending' = FALSE
      /\ toClient' = Append(toClient, m)
      /\ UNCHANGED <<screen, modifiedRegion, copyRegion, copyDX, requestedRegion,
                     useCopyRect, useNewFBSize, toServer, frame, updateRect, refused>>
  BY DEF SendNewFBSize, regionVars, clientVars
<1>2. /\ RegionsTyped /\ PendingIsModified /\ EverythingFits
  BY UpdatesParts
<1>3. w \in 1..MaxWidth /\ Extent(screen) = Pixels(w)
  BY <1>2 DEF RegionsTyped, WidthOf
<1> HIDE DEF w
<1>4. /\ m \in Sizes /\ m.type = "size" /\ m.width = w /\ Fits(Expected, m)
  BY <1>3 DEF NewFBSizeMarker, Sizes, Fits
<1> HIDE DEF m
<1>5. /\ toClient' \in Seq(Sizes \cup Rectangles)
      /\ Expected' = Applied(Expected, m) /\ EverythingFits'
  BY <1>1, <1>2, <1>4, Sent
<1>6. Extent(Expected') = Extent(screen')
  BY <1>1, <1>3, <1>4, <1>5 DEF Applied, Blank, Extent
<1>7. RegionsTyped'
  BY <1>1, <1>2, <1>5 DEF RegionsTyped
<1>8. EncodingsComeFirst' /\ PendingIsModified' /\ SizeIsKnown'
  BY <1>1, <1>6 DEF EncodingsComeFirst, PendingIsModified, SizeIsKnown
<1>9. PixelsAreKept'
  BY <1>1, <1>2 DEF PendingIsModified, PixelsAreKept, Kept
<1>10. QED
  BY <1>5, <1>7, <1>8, <1>9, UpdatesPartsNext

(* The pixels between two of the screen's are the screen's. *)
LEMMA BoxInScreen ==
  ASSUME RegionsTyped, NEW width \in 1..MaxWidth, NEW region,
         region \subseteq Pixels(width)
  PROVE  BoundingBox(region) \subseteq Pixels(width)
BY UpdatesAssumption DEF BoundingBox, Pixels

(* An update: copies, then what is modified and asked for. *)
LEMMA SendUpdateInv == UpdatesInv /\ SendUpdate => UpdatesInv'
<1> SUFFICES ASSUME UpdatesInv, SendUpdate PROVE UpdatesInv'
  OBVIOUS
<1> DEFINE copy == copyRegion \ modifiedRegion
           due == (modifiedRegion \cup copy) \cap requestedRegion
           copied == copy \cap requestedRegion \cap Shift(requestedRegion, copyDX)
           drawn == due \ copied
<1>1. /\ requestedRegion # {} /\ ~(newFBSizePending /\ useNewFBSize)
      /\ modifiedRegion' = (modifiedRegion \cup copy) \ due
      /\ requestedRegion' = {} /\ copyRegion' = {} /\ copyDX' = 0
      /\ UNCHANGED <<screen, useCopyRect, useNewFBSize, newFBSizePending, toServer,
                     frame, updateRect, refused>>
  BY DEF SendUpdate, UpdateIsDue, encodingVars, clientVars
<1>2. PICK rect \in {drawn, BoundingBox(drawn)} :
        toClient' = Append(toClient,
                      Update([p \in rect |-> screen[p]], copied, copyDX))
  BY DEF SendUpdate
<1> DEFINE m == Update([p \in rect |-> screen[p]], copied, copyDX)
<1>3. /\ RegionsTyped /\ EncodingsComeFirst /\ SizeIsKnown /\ PendingIsModified
      /\ EverythingFits /\ PixelsAreKept
  BY UpdatesParts
<1>4. /\ useNewFBSize /\ ~newFBSizePending
      /\ \A p \in Extent(screen) : Kept(p)
      /\ Extent(Expected) = Extent(screen) \/ NeverTold
  BY <1>1, <1>3 DEF EncodingsComeFirst, SizeIsKnown, PixelsAreKept
<1>5. PICK w \in 1..MaxWidth : Extent(screen) = Pixels(w)
  BY <1>3 DEF RegionsTyped
<1>6. due \subseteq Extent(screen) /\ due \subseteq Extent(Expected)
  <2>1. due \subseteq Extent(screen)
    BY <1>3 DEF RegionsTyped
  <2>2. due \subseteq requestedRegion
    OBVIOUS
  <2>3. QED
    BY <1>4, <2>1, <2>2 DEF NeverTold
<1>7. /\ drawn \subseteq rect /\ rect \subseteq Extent(screen)
      /\ rect \subseteq Extent(Expected) /\ copied \subseteq due
  <2>1. drawn \subseteq due /\ copied \subseteq due
    OBVIOUS
  <2>2. drawn \subseteq BoundingBox(drawn)
    <3>1. drawn \subseteq Pixels(MaxWidth) /\ drawn \subseteq Int
      BY <1>5, <1>6, <2>1, UpdatesAssumption DEF Pixels
    <3> HIDE DEF drawn
    <3>2. QED
      BY <3>1 DEF BoundingBox
  <2>3. updateRect \in 1..MaxWidth
    BY <1>3 DEF RegionsTyped
  <2>4. BoundingBox(drawn) \subseteq Extent(screen)
    BY <1>3, <1>5, <1>6, <2>1, BoxInScreen
  <2>5. BoundingBox(drawn) \subseteq Extent(Expected)
    <3>1. CASE Extent(Expected) = Extent(screen)
      BY <2>4, <3>1
    <3>2. CASE NeverTold
      <4>1. Extent(Expected) = Pixels(updateRect) /\ drawn \subseteq Pixels(updateRect)
        BY <1>6, <2>1, <3>2 DEF NeverTold
      <4>2. QED
        BY <1>3, <2>3, <4>1, BoxInScreen
    <3>3. QED
      BY <1>4, <3>1, <3>2
  <2>6. QED
    BY <1>2, <1>6, <2>1, <2>2, <2>4, <2>5
<1>8. Extent(screen) \subseteq Int
  BY <1>5 DEF Pixels
<1>9. /\ m \in Rectangles /\ m.type = "rects" /\ m.copied = copied /\ m.dx = copyDX
      /\ DOMAIN m.pixels = rect /\ \A p \in rect : m.pixels[p] = screen[p]
  <2> DEFINE px == [p \in rect |-> screen[p]]
  <2>1. px \in [rect -> Colours] /\ rect \in SUBSET Int
    BY <1>3, <1>7, <1>8 DEF RegionsTyped
  <2>2. px \in UNION {[P -> Colours] : P \in SUBSET Int}
    <3> HIDE DEF px
    <3>1. QED
      BY <2>1
  <2>3. DOMAIN px = rect /\ \A p \in rect : px[p] = screen[p]
    OBVIOUS
  <2> HIDE DEF px
  <2>4. copied \in SUBSET Int /\ copyDX \in Int
    BY <1>3, <1>6, <1>7, <1>8 DEF RegionsTyped
  <2> HIDE DEF copied
  <2>5. /\ m = [type |-> "rects", pixels |-> px, copied |-> copied, dx |-> copyDX]
    BY DEF Update, px
  <2> HIDE DEF m
  <2>6. QED
    BY <2>2, <2>3, <2>4, <2>5 DEF Rectangles
<1>10. Fits(Expected, m)
  BY <1>6, <1>7, <1>9 DEF Fits
<1>11. toClient' = Append(toClient, m)
  BY <1>2
<1> HIDE DEF m
<1>12. /\ toClient' \in Seq(Sizes \cup Rectangles)
       /\ Expected' = Applied(Expected, m) /\ EverythingFits'
       /\ \A i \in Coming' :
            toClient'[i] = m \/ (i \in Coming /\ toClient'[i] = toClient[i])
  BY <1>1, <1>3, <1>9, <1>10, <1>11, Sent
<1>13. /\ Extent(Expected') = Extent(Expected)
       /\ \A p \in Extent(Expected) :
            Expected'[p] = IF p \in rect THEN screen[p]
                           ELSE IF p \in copied THEN Expected[p - copyDX]
                           ELSE Expected[p]
  <2> HIDE DEF copied, drawn
  <2>1. QED
    BY <1>9, <1>12 DEF Applied, Extent
<1>14. RegionsTyped'
  BY <1>1, <1>3, <1>12 DEF RegionsTyped
<1>15. EncodingsComeFirst' /\ PendingIsModified'
  BY <1>1, <1>4 DEF EncodingsComeFirst, PendingIsModified
<1>16. SizeIsKnown'
  <2>1. NeverTold => NeverTold'
    BY <1>1, <1>9, <1>12, <1>13 DEF NeverTold
  <2>2. QED
    BY <1>1, <1>4, <1>13, <2>1 DEF SizeIsKnown
<1>17. ASSUME NEW p \in Extent(screen), p \notin modifiedRegion'
       PROVE  p \in Extent(Expected) /\ Expected'[p] = screen[p]
  <2>1. Kept(p)
    BY <1>4
  <2>2. CASE p \in due
    <3>1. p \in Extent(Expected) /\ (p \in rect \/ p \in copied)
      BY <1>6, <1>7, <2>2
    <3>2. CASE p \in rect
      BY <1>13, <3>1, <3>2
    <3>3. CASE p \notin rect
      <4>1. p \in copied /\ p \in copyRegion /\ p \notin modifiedRegion
        BY <3>1, <3>3
      <4>2. Expected[p - copyDX] = screen[p]
        BY <2>1, <4>1 DEF Kept
      <4>3. QED
        BY <1>13, <3>1, <3>3, <4>1, <4>2
    <3>4. QED
      BY <3>2, <3>3
  <2>3. CASE p \notin due
    <3>1. p \notin modifiedRegion /\ p \notin copyRegion /\ p \notin copied
      BY <1>1, <1>17, <2>3
    <3>2. p \in Extent(Expected) /\ Expected[p] = screen[p]
      BY <2>1, <3>1 DEF Kept
    <3>3. QED
      BY <1>13, <3>1, <3>2
  <2>4. QED
    BY <2>2, <2>3
<1>18. PixelsAreKept'
  BY <1>1, <1>13, <1>17 DEF PixelsAreKept, Kept
<1>19. QED
  BY <1>12, <1>14, <1>15, <1>16, <1>18, UpdatesPartsNext

-----------------------------------------------------------------------------
(* The client reads a message: it expects what it did before. *)
LEMMA Read ==
  ASSUME RegionsTyped, EverythingFits, toClient # <<>>,
         toClient' = Tail(toClient), frame' = Applied(frame, Head(toClient)),
         UNCHANGED refused
  PROVE  /\ toClient' \in Seq(Sizes \cup Rectangles)
         /\ Expected' = Expected /\ EverythingFits'
         /\ 1 \in Coming /\ Head(toClient) = toClient[1]
         /\ \A i \in Coming' : i + 1 \in Coming /\ toClient'[i] = toClient[i + 1]
<1> DEFINE rest == Tail(toClient)
           first == Applied(frame, Head(toClient))
<1>1. /\ toClient \in Seq(Sizes \cup Rectangles) /\ Len(toClient) \in Nat
      /\ rest \in Seq(Sizes \cup Rectangles) /\ Len(rest) = Len(toClient) - 1
      /\ Len(rest) \in Nat /\ Head(toClient) = toClient[1]
      /\ \A i \in 1..Len(rest) : rest[i] = toClient[i + 1]
  BY DEF RegionsTyped
<1>2. \A i \in 0..Len(rest) :
        Reading(first, rest)[i] = Reading(frame, toClient)[i + 1]
  BY <1>1, ReadingRead
<1>3. toClient' = rest /\ frame' = first /\ ~refused'
  BY DEF EverythingFits
<1> HIDE DEF rest, first
<1>4. Expected' = Expected
  <2>1. Len(rest) \in 0..Len(rest) /\ Len(rest) + 1 = Len(toClient)
    BY <1>1
  <2>2. QED
    BY <1>2, <1>3, <2>1 DEF Expected
<1>5. ASSUME NEW i \in 1..Len(rest)
      PROVE  Fits(Reading(first, rest)[i - 1], rest[i])
  <2>1. i + 1 \in 1..Len(toClient) /\ i - 1 \in 0..Len(rest) /\ (i + 1) - 1 = i
        /\ (i - 1) + 1 = i
    BY <1>1
  <2>2. Fits(Reading(frame, toClient)[i], toClient[i + 1])
    BY <2>1 DEF EverythingFits, Coming
  <2>3. Reading(first, rest)[i - 1] = Reading(frame, toClient)[i]
    BY <1>2, <2>1
  <2>4. QED
    BY <1>1, <2>2, <2>3
<1>6. EverythingFits'
  BY <1>3, <1>5 DEF EverythingFits, Coming
<1>7. QED
  BY <1>1, <1>3, <1>4, <1>6 DEF Coming

(* Sequences of one or two messages. *)
LEMMA ShortSequences ==
  ASSUME NEW S, NEW a \in S, NEW b \in S
  PROVE  <<a>> \in Seq(S) /\ <<a, b>> \in Seq(S)
OBVIOUS

(* The requests of the client that has read something. *)
LEMMA Asks ==
  ASSUME RegionsTyped, NEW more \in Seq(Messages), toServer' = toServer \o more
  PROVE  /\ toServer' \in Seq(Messages)
         /\ \A i \in 1..Len(toServer') :
              \/ i \in 1..Len(toServer) /\ toServer'[i] = toServer[i]
              \/ \E k \in 1..Len(more) : toServer'[i] = more[k]
<1>1. toServer \in Seq(Messages)
  BY DEF RegionsTyped
<1>2. /\ toServer \o more \in Seq(Messages)
      /\ Len(toServer \o more) = Len(toServer) + Len(more)
      /\ \A i \in 1..Len(toServer) + Len(more) :
           (toServer \o more)[i] = IF i <= Len(toServer) THEN toServer[i]
                                   ELSE more[i - Len(toServer)]
  BY <1>1, ConcatProperties
<1>3. Len(toServer) \in Nat /\ Len(more) \in Nat
  BY <1>1
<1>4. ASSUME NEW i \in 1..Len(toServer')
      PROVE  \/ i \in 1..Len(toServer) /\ toServer'[i] = toServer[i]
             \/ \E k \in 1..Len(more) : toServer'[i] = more[k]
  <2>1. CASE i <= Len(toServer)
    BY <1>2, <1>3, <2>1
  <2>2. CASE i > Len(toServer)
    <3>1. i - Len(toServer) \in 1..Len(more) /\ toServer'[i] = more[i - Len(toServer)]
      BY <1>2, <1>3, <2>2
    <3>2. QED
      BY <3>1
  <2>3. QED
    BY <1>2, <1>3, <2>1, <2>2
<1>5. QED
  BY <1>2, <1>4

(* HandleRFBServerMessage(): the rectangles of an update ... *)
LEMMA HandleUpdateInv == UpdatesInv /\ HandleUpdate => UpdatesInv'
<1> SUFFICES ASSUME UpdatesInv, HandleUpdate PROVE UpdatesInv'
  OBVIOUS
<1>1. /\ toClient # <<>> /\ toClient' = Tail(toClient)
      /\ frame' = Applied(frame, Head(toClient))
      /\ toServer' = toServer \o <<Request(updateRect, TRUE)>>
      /\ UNCHANGED <<screen, modifiedRegion, copyRegion, copyDX, requestedRegion,
                     useCopyRect, useNewFBSize, newFBSizePending, updateRect, refused>>
  BY DEF HandleUpdate, NextRequests, serverVars, regionVars, encodingVars
<1>2. /\ RegionsTyped /\ EncodingsComeFirst /\ SizeIsKnown /\ PendingIsModified
      /\ EverythingFits /\ PixelsAreKept
  BY UpdatesParts
<1>3. useNewFBSize
  BY <1>1, <1>2 DEF EncodingsComeFirst
<1>4. /\ toClient' \in Seq(Sizes \cup Rectangles)
      /\ Expected' = Expected /\ EverythingFits'
      /\ \A i \in Coming' : i + 1 \in Coming /\ toClient'[i] = toClient[i + 1]
  BY <1>1, <1>2, Read
<1> DEFINE more == <<Request(updateRect, TRUE)>>
<1>5. more \in Seq(Messages) /\ Len(more) = 1 /\ more[1].width = updateRect
  <2>1. updateRect \in 0..MaxWidth
    BY <1>2 DEF RegionsTyped
  <2>2. Request(updateRect, TRUE) \in Messages
    BY <2>1 DEF Request, Messages
  <2>3. QED
    BY <2>2 DEF Request
<1>6. /\ toServer' \in Seq(Messages)
      /\ \A i \in 1..Len(toServer') :
           \/ i \in 1..Len(toServer) /\ toServer'[i] = toServer[i]
           \/ \E k \in 1..Len(more) : toServer'[i] = more[k]
  <2> HIDE DEF more
  <2>1. toServer' = toServer \o more
    BY <1>1 DEF more
  <2>2. QED
    BY <1>2, <1>5, <2>1, Asks
<1> HIDE DEF more
<1>7. RegionsTyped'
  BY <1>1, <1>2, <1>4, <1>6 DEF RegionsTyped
<1>8. EncodingsComeFirst' /\ PendingIsModified'
  BY <1>1, <1>2, <1>3 DEF EncodingsComeFirst, PendingIsModified
<1>9. SizeIsKnown'
  <2>1. ASSUME NeverTold PROVE NeverTold'
    <3>1. \A i \in Coming' : toClient'[i].type = "rects"
      BY <1>4, <2>1 DEF NeverTold
    <3>2. ASSUME NEW i \in 1..Len(toServer')
          PROVE  Pixels(toServer'[i].width) \subseteq Pixels(updateRect)
      <4>1. CASE i \in 1..Len(toServer) /\ toServer'[i] = toServer[i]
        BY <2>1, <4>1 DEF NeverTold
      <4>2. CASE \E k \in 1..Len(more) : toServer'[i] = more[k]
        BY <1>5, <4>2
      <4>3. QED
        BY <1>6, <4>1, <4>2
    <3>3. QED
      BY <1>1, <1>4, <2>1, <3>1, <3>2 DEF NeverTold
  <2>2. QED
    BY <1>1, <1>2, <1>4, <2>1 DEF SizeIsKnown
<1>10. PixelsAreKept'
  BY <1>1, <1>2, <1>4 DEF PixelsAreKept, Kept
<1>11. QED
  BY <1>4, <1>7, <1>8, <1>9, <1>10, UpdatesPartsNext

(* ... or a new size. *)
LEMMA HandleNewFBSizeInv == UpdatesInv /\ HandleNewFBSize => UpdatesInv'
<1> SUFFICES ASSUME UpdatesInv, HandleNewFBSize PROVE UpdatesInv'
  OBVIOUS
<1> DEFINE m == Head(toClient)
           more == <<SetEncodings, Request(m.width, FALSE)>>
                   \o <<Request(updateRect, TRUE)>>
<1>1. /\ toClient # <<>> /\ toClient' = Tail(toClient) /\ m.type = "size"
      /\ frame' = Applied(frame, m)
      /\ UNCHANGED <<screen, modifiedRegion, copyRegion, copyDX, requestedRegion,
                     useCopyRect, useNewFBSize, newFBSizePending, updateRect, refused>>
  BY DEF HandleNewFBSize, serverVars, regionVars, encodingVars
<1>2. /\ RegionsTyped /\ EncodingsComeFirst /\ SizeIsKnown /\ PendingIsModified
      /\ EverythingFits /\ PixelsAreKept
  BY UpdatesParts
<1>3. useNewFBSize
  BY <1>1, <1>2 DEF EncodingsComeFirst
<1>4. /\ toClient' \in Seq(Sizes \cup Rectangles)
      /\ Expected' = Expected /\ EverythingFits'
      /\ 1 \in Coming /\ m = toClient[1]
  BY <1>1, <1>2, Read
<1>5. m.width \in 1..MaxWidth
  <2>1. m \in Sizes \cup Rectangles
    BY <1>2, <1>4 DEF RegionsTyped, Coming
  <2>2. QED
    BY <1>1, <2>1 DEF Sizes, Rectangles
<1>6. <<SetEncodings, Request(m.width, FALSE)>> \in Seq(Messages)
      /\ <<Request(updateRect, TRUE)>> \in Seq(Messages)
  <2>1. /\ updateRect \in 0..MaxWidth /\ m.width \in 0..MaxWidth /\ 0 \in 0..MaxWidth
    BY <1>2, <1>5, UpdatesAssumption DEF RegionsTyped
  <2> HIDE DEF m
  <2>2. /\ SetEncodings \in Messages /\ Request(m.width, FALSE) \in Messages
        /\ Request(updateRect, TRUE) \in Messages
    BY <2>1 DEF SetEncodings, Request, Messages
  <2>3. QED
    BY <2>2, ShortSequences
<1>7. toServer' = (toServer \o <<SetEncodings, Request(m.width, FALSE)>>)
                 \o <<Request(updateRect, TRUE)>>
  BY DEF HandleNewFBSize, NextRequests
<1>8. toServer' \in Seq(Messages)
  <2>1. toServer \o <<SetEncodings, Request(m.width, FALSE)>> \in Seq(Messages)
    BY <1>2, <1>6, ConcatProperties DEF RegionsTyped
  <2>2. QED
    BY <1>6, <1>7, <2>1, ConcatProperties
<1>9. RegionsTyped'
  BY <1>1, <1>2, <1>4, <1>8 DEF RegionsTyped
<1>10. EncodingsComeFirst' /\ PendingIsModified'
  BY <1>1, <1>2, <1>3 DEF EncodingsComeFirst, PendingIsModified
<1>11. SizeIsKnown'
  <2>1. ~NeverTold
    BY <1>1, <1>4 DEF NeverTold
  <2>2. QED
    BY <1>1, <1>2, <1>4, <2>1 DEF SizeIsKnown
<1>12. PixelsAreKept'
  BY <1>1, <1>2, <1>4 DEF PixelsAreKept, Kept
<1>13. QED
  BY <1>4, <1>9, <1>10, <1>11, <1>12, UpdatesPartsNext

(* "Rect too large" does not happen. *)
LEMMA NothingIsRefused == UpdatesInv => ~RefuseUpdate
<1> SUFFICES ASSUME UpdatesInv, RefuseUpdate PROVE FALSE
  OBVIOUS
<1>1. toClient # <<>> /\ ~Fits(frame, Head(toClient))
  BY DEF RefuseUpdate
<1>2. RegionsTyped /\ EverythingFits
  BY UpdatesParts
<1>3. Len(toClient) \in Nat /\ 1 \in Coming /\ Head(toClient) = toClient[1]
  BY <1>1, <1>2 DEF RegionsTyped, Coming
<1>4. Reading(frame, toClient)[0] = frame
  BY <1>3, ReadingDefined DEF Reads
<1>5. Fits(Reading(frame, toClient)[1 - 1], toClient[1])
  BY <1>2, <1>3 DEF EverythingFits
<1>6. QED
  BY <1>1, <1>3, <1>4, <1>5

-----------------------------------------------------------------------------
(* At first the client waits for its first update. *)
LEMMA UpdatesInitInv == UpdatesInit => UpdatesInv
<1> SUFFICES ASSUME UpdatesInit PROVE UpdatesInv
  OBVIOUS
<1>1. PICK w \in 1..MaxWidth :
        /\ screen \in {[p \in Pixels(w) |-> c] : c \in Colours}
        /\ frame = Blank(w) /\ modifiedRegion = Pixels(w) /\ updateRect = w
        /\ toServer = <<SetEncodings, Request(w, FALSE)>>
  BY DEF UpdatesInit
<1>2. /\ copyRegion = {} /\ copyDX = 0 /\ requestedRegion = {}
      /\ useCopyRect = FALSE /\ useNewFBSize = FALSE /\ newFBSizePending = FALSE
      /\ toClient = <<>> /\ refused = FALSE
  BY DEF UpdatesInit
<1>3. /\ screen \in [Pixels(w) -> Colours] /\ Extent(screen) = Pixels(w)
      /\ Extent(frame) = Pixels(w)
  BY <1>1 DEF Extent, Blank
<1>4. toServer \in Seq(Messages)
  <2>1. w \in 0..MaxWidth /\ 0 \in 0..MaxWidth
    BY UpdatesAssumption
  <2>2. SetEncodings \in Messages /\ Request(w, FALSE) \in Messages
    BY <2>1 DEF SetEncodings, Request, Messages
  <2>3. <<SetEncodings, Request(w, FALSE)>> \in Seq(Messages)
    BY <2>2, ShortSequences
  <2>4. QED
    BY <1>1, <2>3
<1>5. RegionsTyped
  <2>1. /\ \E x \in 1..MaxWidth : Extent(screen) = Pixels(x)
        /\ screen \in [Extent(screen) -> Colours]
        /\ updateRect \in 1..MaxWidth
    BY <1>1, <1>3
  <2>2. modifiedRegion \subseteq Extent(screen)
    BY <1>1, <1>3
  <2>3. toClient \in Seq(Sizes \cup Rectangles)
    BY <1>2
  <2>4. /\ useCopyRect \in BOOLEAN /\ useNewFBSize \in BOOLEAN
        /\ newFBSizePending \in BOOLEAN
    BY <1>2
  <2>5. copyRegion \subseteq Extent(screen) /\ copyDX \in Int
    BY <1>2
  <2>6. QED
    BY <1>4, <2>1, <2>2, <2>3, <2>4, <2>5, Zenon DEF RegionsTyped
<1>6. EncodingsComeFirst
  BY <1>1, <1>2, <1>3 DEF EncodingsComeFirst
<1>7. SizeIsKnown
  BY <1>2, <1>6, NeverToldAtFirst DEF SizeIsKnown
<1>8. EverythingFits
  BY <1>2, NothingInFlight DEF EverythingFits
<1>9. PendingIsModified /\ PixelsAreKept
  BY <1>1, <1>2, <1>3 DEF PendingIsModified, PixelsAreKept, Kept
<1>10. QED
  BY <1>5, <1>6, <1>7, <1>8, <1>9, UpdatesParts

(* Whatever the application draws, copies or resizes and however long the  *)
(* messages stay in flight, the regions and what the client has been sent  *)
(* account for the screen.  The induction needs more than the pixels: that *)
(* the source of a copy is a pixel the client will have, that a new size   *)
(* makes everything modified until it is told, and that every rectangle in *)
(* flight fits the buffer it will find.                                    *)
THEOREM UpdatesInvariance == UpdatesSpec => []UpdatesInv
<1>1. UpdatesInv /\ [UpdatesNext]_updateVars => UpdatesInv'
  <2> SUFFICES ASSUME UpdatesInv, [UpdatesNext]_updateVars PROVE UpdatesInv'
    OBVIOUS
  <2>1. CASE DrawPixel
    BY <2>1, DrawPixelInv
  <2>2. CASE CopyPixels
    BY <2>2, CopyPixelsInv
  <2>3. CASE Resize
    BY <2>3, ResizeInv
  <2>4. CASE ProcessSetEncodings
    BY <2>4, ProcessSetEncodingsInv
  <2>5. CASE ProcessUpdateRequest
    BY <2>5, ProcessUpdateRequestInv
  <2>6. CASE SendNewFBSize
    BY <2>6, SendNewFBSizeInv
  <2>7. CASE SendUpdate
    BY <2>7, SendUpdateInv
  <2>8. CASE SendNothing
    BY <2>8, SendNothingInv
  <2>9. CASE HandleNewFBSize
    BY <2>9, HandleNewFBSizeInv
  <2>10. CASE HandleUpdate
    BY <2>10, HandleUpdateInv
  <2>11. CASE RefuseUpdate
    BY <2>11, NothingIsRefused
  <2>12. CASE UNCHANGED updateVars
    <3>1. UNCHANGED <<screen, modifiedRegion, copyRegion, copyDX, requestedRegion,
                      useCopyRect, useNewFBSize, newFBSizePending, toServer,
                      toClient, frame, updateRect, refused>>
      BY <2>12 DEF updateVars, serverVars, clientVars, regionVars, encodingVars
    <3>2. Expected' = Expected /\ Coming' = Coming
      BY <3>1, NothingRead
    <3>3. QED
      BY <3>1, <3>2 DEF UpdatesInv, RegionsTyped, EncodingsComeFirst, SizeIsKnown,
         NeverTold, PendingIsModified, EverythingFits, PixelsAreKept, Kept
  <2>13. QED
    BY <2>1, <2>2, <2>3, <2>4, <2>5, <2>6, <2>7, <2>8, <2>9, <2>10, <2>11, <2>12
    DEF UpdatesNext, ServerStep, ClientStep
<1>2. QED
  BY <1>1, UpdatesInitInv, PTL DEF UpdatesSpec

(* NoPixelForgotten, for any widths, draws, copies, sizes and messages.    *)
THEOREM PixelsAreNotForgotten == UpdatesSpec => []NoPixelForgotten
<1>1. UpdatesInv => NoPixelForgotten
  <2> SUFFICES ASSUME UpdatesInv PROVE NoPixelForgotten
    OBVIOUS
  <2>1. EverythingFits /\ PixelsAreKept /\ PendingIsModified
    BY UpdatesParts
  <2>2. QED
    BY <2>1 DEF NoPixelForgotten, EverythingFits, PixelsAreKept, PendingIsModified,
       Kept
<1>2. QED
  BY <1>1, UpdatesInvariance, PTL

-----------------------------------------------------------------------------
(***************************************************************************)
(* RfbSockets: cutting sequences, then the calls and both directions.      *)
(***************************************************************************)
(* Sequences that are cut and put together again. *)
LEMMA Cut ==
  ASSUME NEW S, NEW s \in Seq(S), NEW n \in Nat, n <= Len(s)
  PROVE  /\ First(s, n) \in Seq(S) /\ After(s, n) \in Seq(S)
         /\ First(s, n) \o After(s, n) = s
         /\ n = Len(s) => First(s, n) = s /\ After(s, n) = <<>>
<1>1. /\ Len(s) \in Nat
      /\ \A i \in 1..n : s[i] \in S
      /\ \A i \in (n + 1)..Len(s) : s[i] \in S
  BY LenProperties, ElementOfSeq
<1>2. First(s, n) \in Seq(S)
  BY <1>1, SubSeqProperties DEF First
<1>3. After(s, n) \in Seq(S)
  BY <1>1, SubSeqProperties DEF After
<1>4. First(s, n) \o After(s, n) = s
  <2>1. /\ 1 \in 1..(Len(s) + 1) /\ n \in (1 - 1)..Len(s)
        /\ Len(s) \in n..Len(s)
    BY <1>1
  <2>2. SubSeq(s, 1, n) \o SubSeq(s, n + 1, Len(s)) = SubSeq(s, 1, Len(s))
    BY <2>1, ConcatAdjacentSubSeq
  <2>3. QED
    BY <2>2, SubSeqFull DEF First, After
<1>5. n = Len(s) => First(s, n) = s
  BY SubSeqFull DEF First
<1>6. n = Len(s) => After(s, n) = <<>>
  <2>1. Len(s) + 1 \in Int /\ Len(s) \in Int /\ Len(s) < Len(s) + 1
    BY <1>1
  <2>2. SubSeq(s, Len(s) + 1, Len(s)) = <<>>
    BY <2>1, SubSeqEmpty
  <2>3. QED
    BY <2>2 DEF After
<1>7. QED
  BY <1>2, <1>3, <1>4, <1>5, <1>6

(* What is taken from the front of b goes to the end of a. *)
LEMMA Moved ==
  ASSUME NEW S, NEW a \in Seq(S), NEW b \in Seq(S), NEW n \in Nat, n <= Len(b)
  PROVE  (a \o First(b, n)) \o After(b, n) = a \o b
<1>1. /\ First(b, n) \in Seq(S) /\ After(b, n) \in Seq(S)
      /\ First(b, n) \o After(b, n) = b
  BY Cut
<1>2. (a \o First(b, n)) \o After(b, n) = a \o (First(b, n) \o After(b, n))
  <2> DEFINE f == First(b, n)
             t == After(b, n)
  <2>1. f \in Seq(S) /\ t \in Seq(S)
    BY <1>1
  <2> HIDE DEF f, t
  <2>2. (a \o f) \o t = a \o (f \o t)
    BY <2>1, ConcatAssociative
  <2>3. QED
    BY <2>2 DEF f, t
<1>3. QED
  BY <1>1, <1>2

(* Three sequences whose middle one is empty. *)
LEMMA EmptyBetween ==
  ASSUME NEW S, NEW a \in Seq(S), NEW b \in Seq(S)
  PROVE  (a \o <<>>) \o b = a \o b
BY ConcatEmptySeq

-----------------------------------------------------------------------------
Bytes == (Writers \cup {NoWriter}) \X Nat
Stream == Seq(Bytes)

Writings == [at : {"idle", "lock", "write", "select", "failed"},
             left : Stream, waited : Nat]
ViewerCalls == [at : {"idle", "fill", "direct", "write", "select", "lost"},
                out : Stream, need : Nat, left : Stream]

SocketsTyped ==
  /\ sockOpen \in BOOLEAN /\ peerOpen \in BOOLEAN /\ torn \in BOOLEAN
  /\ outputMutex \in Writers \cup {NoWriter}
  /\ writes \in [Writers -> Writings]
  /\ messages \in [Writers \cup {NoWriter} -> Nat]
  /\ written \in Stream /\ sent \in Stream
  /\ taken \in Stream /\ viewerGot \in Stream
  /\ downWire \in Stream /\ upWire \in Stream /\ readBuffer \in Stream
  /\ inputRead \in [got : Stream, need : Nat]
  /\ viewerIO \in ViewerCalls

(* Whoever writes has the mutex. *)
WriterHasMutex ==
  \A w \in Writers :
    writes[w].at \in {"write", "select"} <=> outputMutex = w

(* What a call keeps of its own is empty when there is no such call. *)
CallsAreTidy ==
  /\ viewerIO.at \notin {"fill", "direct"} => viewerIO.out = <<>>
  /\ viewerIO.at \notin {"write", "select"} => viewerIO.left = <<>>
  /\ viewerIO.at = "direct" => readBuffer = <<>>
  /\ peerOpen <=> viewerIO.at # "lost"
  /\ inputRead.need = 0 => inputRead.got = <<>>

(* What the writer that has the mutex has still to write. *)
Unwritten == IF outputMutex = NoWriter THEN <<>> ELSE writes[outputMutex].left

(* What was asked for is what has arrived or is under way, followed by     *)
(* what the writer has left, or by what a closed connection has lost.      *)
DownIsWhole ==
  ~torn => \E lost \in Stream : /\ Downstream \o lost = written
                                /\ Connected => lost = Unwritten
UpIsWhole ==
  \E lost \in Stream : /\ Upstream \o lost = sent
                       /\ Connected => lost = viewerIO.left

SocketsInv ==
  SocketsTyped /\ WriterHasMutex /\ CallsAreTidy /\ DownIsWhole /\ UpIsWhole

-----------------------------------------------------------------------------
(* The streams are sequences of bytes. *)
LEMMA StreamsTyped ==
  ASSUME SocketsTyped
  PROVE  /\ Downstream \in Stream /\ Upstream \in Stream
         /\ viewerGot \o viewerIO.out \in Stream
         /\ (viewerGot \o viewerIO.out) \o readBuffer \in Stream
         /\ taken \o inputRead.got \in Stream
         /\ Unwritten \in Stream /\ viewerIO.left \in Stream
         /\ <<>> \in Stream
<1>1. /\ viewerGot \in Stream /\ readBuffer \in Stream /\ downWire \in Stream
      /\ taken \in Stream /\ upWire \in Stream
      /\ inputRead.got \in Stream /\ viewerIO.out \in Stream
      /\ viewerIO.left \in Stream
  BY DEF SocketsTyped, ViewerCalls
<1>2. viewerGot \o viewerIO.out \in Stream
  BY <1>1, ConcatProperties DEF Stream
<1>3. (viewerGot \o viewerIO.out) \o readBuffer \in Stream
  BY <1>1, <1>2, ConcatProperties DEF Stream
<1>4. Downstream \in Stream
  BY <1>1, <1>3, ConcatProperties DEF Stream, Downstream
<1>5. taken \o inputRead.got \in Stream
  BY <1>1, ConcatProperties DEF Stream
<1>6. Upstream \in Stream
  BY <1>1, <1>5, ConcatProperties DEF Stream, Upstream
<1>7. <<>> \in Stream
  BY EmptySeq DEF Stream
<1>8. Unwritten \in Stream
  BY <1>7 DEF Unwritten, SocketsTyped, Writings
<1>9. QED
  BY <1>1, <1>2, <1>3, <1>4, <1>5, <1>6, <1>7, <1>8

(* A message is a sequence of bytes. *)
LEMMA MessageTyped ==
  ASSUME SocketsTyped, NEW w \in Writers \cup {NoWriter}, NEW length \in Nat
  PROVE  NextMessage(w, length) \in Stream
<1>1. messages[w] \in Nat
  BY DEF SocketsTyped
<1>2. \A i \in 1..length : length * messages[w] + i \in Nat
  BY <1>1
<1>3. NextMessage(w, length) \in [1..length -> Bytes]
  BY <1>2 DEF NextMessage, Bytes
<1>4. QED
  BY <1>3, SeqDef DEF Stream

(* The two streams, as far as the steps of the other direction go. *)
LEMMA DownStays ==
  ASSUME DownIsWhole, Downstream' = Downstream, Unwritten' = Unwritten,
         UNCHANGED <<torn, written, sockOpen, peerOpen>>
  PROVE  DownIsWhole'
BY DEF DownIsWhole, Connected

(* The same of the other direction. *)
LEMMA UpStays ==
  ASSUME UpIsWhole, Upstream' = Upstream,
         UNCHANGED <<sent, sockOpen, peerOpen>>,
         viewerIO'.left = viewerIO.left
  PROVE  UpIsWhole'
BY DEF UpIsWhole, Connected

(* The beginning of a beginning. *)
LEMMA LosesMore ==
  ASSUME NEW a \in Stream, NEW b \in Stream, NEW c \in Stream
  PROVE  (a \o b) \o c = a \o (b \o c) /\ b \o c \in Stream
BY ConcatAssociative, ConcatProperties DEF Stream

-----------------------------------------------------------------------------
(* The server's writers. *)
LEMMA BeginWriteInv ==
  ASSUME SocketsInv, NEW w \in Writers, BeginWrite(w)
  PROVE  SocketsInv'
<1>1. /\ writes[w].at = "idle"
      /\ writes' = [writes EXCEPT ![w] =
           [at |-> "lock", left |-> NextMessage(w, WriteLength), waited |-> 0]]
      /\ messages' = [messages EXCEPT ![w] = @ + 1]
      /\ UNCHANGED <<sockOpen, peerOpen, outputMutex, torn, written, downWire,
                     upWire, readerVars, viewerSideVars>>
  BY DEF BeginWrite
<1>2. NextMessage(w, WriteLength) \in Stream
  BY MessageTyped, SocketsAssumption DEF SocketsInv
<1>3. SocketsTyped'
  BY <1>1, <1>2 DEF SocketsInv, SocketsTyped, Writings, readerVars,
                    viewerSideVars
<1>4. WriterHasMutex'
  BY <1>1 DEF SocketsInv, SocketsTyped, WriterHasMutex
<1>5. Downstream' = Downstream /\ Upstream' = Upstream
  BY <1>1 DEF Downstream, Upstream, readerVars, viewerSideVars
<1>6. Unwritten' = Unwritten
  BY <1>1 DEF SocketsInv, SocketsTyped, WriterHasMutex, Unwritten
<1>7. DownIsWhole' /\ UpIsWhole' /\ CallsAreTidy'
  BY <1>1, <1>5, <1>6, DownStays, UpStays
     DEF SocketsInv, CallsAreTidy, readerVars, viewerSideVars
<1>8. QED
  BY <1>3, <1>4, <1>7 DEF SocketsInv

(* LOCK(outputMutex). *)
LEMMA TakeOutputMutexInv ==
  ASSUME SocketsInv, NEW w \in Writers, TakeOutputMutex(w)
  PROVE  SocketsInv'
<1>1. /\ writes[w].at = "lock" /\ outputMutex = NoWriter
      /\ outputMutex' = w
      /\ writes' = [writes EXCEPT ![w].at = "write"]
      /\ written' = written \o writes[w].left
      /\ UNCHANGED <<sockOpen, peerOpen, messages, torn, downWire, upWire,
                     readerVars, viewerSideVars>>
  BY DEF TakeOutputMutex, MutexIsFree
<1>2. /\ writes[w].left \in Stream /\ written \in Stream
      /\ written' \in Stream /\ NoWriter \notin Writers
  <2>1. writes[w].left \in Stream /\ written \in Stream
    BY DEF SocketsInv, SocketsTyped, Writings
  <2>2. QED
    BY <1>1, <2>1, ConcatProperties, SocketsAssumption DEF Stream
<1>3. writes' \in [Writers -> Writings] /\ writes'[w].left = writes[w].left
  BY <1>1 DEF SocketsInv, SocketsTyped, Writings
<1>4. SocketsTyped'
  BY <1>1, <1>2, <1>3 DEF SocketsInv, SocketsTyped, readerVars,
                          viewerSideVars
<1>5. WriterHasMutex'
  BY <1>1, <1>2 DEF SocketsInv, SocketsTyped, Writings, WriterHasMutex
<1>6. Downstream' = Downstream /\ Upstream' = Upstream
  BY <1>1 DEF Downstream, Upstream, readerVars, viewerSideVars
<1>7. DownIsWhole'
  <2>1. SUFFICES ASSUME ~torn
                 PROVE  \E lost \in Stream :
                          /\ Downstream \o lost = written'
                          /\ Connected => lost = writes[w].left
    BY <1>1, <1>2, <1>3, <1>6
       DEF DownIsWhole, Connected, Unwritten
  <2>2. PICK lost \in Stream : /\ Downstream \o lost = written
                               /\ Connected => lost = <<>>
    <3>1. Unwritten = <<>>
      BY <1>1 DEF Unwritten
    <3>2. QED
      BY <2>1, <3>1 DEF SocketsInv, DownIsWhole
  <2>3. Downstream \in Stream
    BY StreamsTyped DEF SocketsInv
  <2>4. /\ lost \o writes[w].left \in Stream
        /\ Downstream \o (lost \o writes[w].left) = written'
    <3> DEFINE left == writes[w].left
    <3>1. (Downstream \o lost) \o left = written'
      BY <1>1, <2>2
    <3>2. left \in Stream
      BY <1>2
    <3> HIDE DEF left
    <3>3. /\ lost \o left \in Stream
          /\ (Downstream \o lost) \o left = Downstream \o (lost \o left)
      BY <2>2, <2>3, <3>2, LosesMore
    <3>4. QED
      BY <3>1, <3>3 DEF left
  <2>5. Connected => lost \o writes[w].left = writes[w].left
    BY <1>2, <2>2, ConcatEmptySeq DEF Stream
  <2>6. QED
    BY <2>4, <2>5
<1>8. UpIsWhole' /\ CallsAreTidy'
  BY <1>1, <1>6, UpStays
     DEF SocketsInv, CallsAreTidy, readerVars, viewerSideVars
<1>9. QED
  BY <1>4, <1>5, <1>7, <1>8 DEF SocketsInv

(* A writer that returns gives the mutex back. *)
LEMMA ReturnsInv ==
  ASSUME SocketsInv, NEW w \in Writers, outputMutex = w,
         NEW at \in {"idle", "failed"}, Returns(w, at)
  PROVE  /\ outputMutex' = NoWriter /\ Unwritten' = <<>>
         /\ writes' \in [Writers -> Writings]
         /\ WriterHasMutex'
<1>1. /\ outputMutex' = NoWriter
      /\ writes' = [writes EXCEPT
           ![w] = [at |-> at, left |-> <<>>, waited |-> 0]]
  BY DEF Returns
<1>2. writes' \in [Writers -> Writings]
  BY <1>1, StreamsTyped DEF SocketsInv, SocketsTyped, Writings
<1>3. WriterHasMutex'
  <2> SUFFICES ASSUME NEW u \in Writers
               PROVE  writes'[u].at \notin {"write", "select"} /\ u # NoWriter
    BY <1>1 DEF WriterHasMutex
  <2>1. u # NoWriter
    BY SocketsAssumption
  <2>2. CASE u = w
    BY <1>1, <2>1, <2>2 DEF SocketsInv, SocketsTyped
  <2>3. CASE u # w
    BY <1>1, <2>1, <2>3 DEF SocketsInv, SocketsTyped, WriterHasMutex
  <2>4. QED
    BY <2>2, <2>3
<1>4. QED
  BY <1>1, <1>2, <1>3 DEF Unwritten

(* write() takes a part of the message. *)
LEMMA WriteSomeInv ==
  ASSUME SocketsInv, NEW w \in Writers, WriteSome(w)
  PROVE  SocketsInv'
<1> DEFINE left == writes[w].left
<1>1. /\ outputMutex = w /\ w # NoWriter /\ Unwritten = left
      /\ left \in Stream /\ Len(left) \in Nat
      /\ downWire \in Stream
      /\ writes[w] \in Writings
  <2>1. writes[w] \in Writings /\ left \in Stream /\ downWire \in Stream
    BY DEF SocketsInv, SocketsTyped, Writings
  <2>2. outputMutex = w /\ w # NoWriter
    BY SocketsAssumption DEF WriteSome, SocketsInv, WriterHasMutex
  <2>3. QED
    BY <2>1, <2>2, LenProperties DEF Unwritten, Stream
<1>2. UNCHANGED <<sockOpen, peerOpen, messages, written, upWire, readerVars,
                  viewerSideVars>>
  BY DEF WriteSome
<1>3. UpIsWhole' /\ CallsAreTidy'
  BY <1>2, UpStays
     DEF SocketsInv, CallsAreTidy, readerVars, viewerSideVars, Upstream
<1>4. CASE Connected /\ Full(downWire)
           /\ writes' = [writes EXCEPT ![w].at = "select"]
           /\ UNCHANGED <<outputMutex, torn, downWire>>
  <2>1. writes' \in [Writers -> Writings] /\ writes'[w].left = left
    BY <1>1, <1>4 DEF SocketsInv, SocketsTyped, Writings
  <2>2. SocketsTyped'
    BY <1>2, <1>4, <2>1
       DEF SocketsInv, SocketsTyped, readerVars, viewerSideVars
  <2>3. WriterHasMutex'
    BY <1>1, <1>4 DEF SocketsInv, SocketsTyped, Writings, WriterHasMutex
  <2>4. DownIsWhole'
    <3>1. Unwritten' = Unwritten /\ Downstream' = Downstream
      BY <1>1, <1>2, <1>4, <2>1 DEF Unwritten, Downstream, viewerSideVars
    <3>2. QED
      BY <1>2, <1>4, <3>1, DownStays DEF SocketsInv
  <2>5. QED
    BY <1>3, <2>2, <2>3, <2>4 DEF SocketsInv
<1>5. CASE ~Connected /\ Returns(w, "failed") /\ torn' = TRUE
           /\ UNCHANGED downWire
  <2>1. SocketsTyped' /\ WriterHasMutex'
    BY <1>1, <1>2, <1>5, ReturnsInv
       DEF SocketsInv, SocketsTyped, readerVars, viewerSideVars
  <2>2. QED
    BY <1>3, <1>5, <2>1 DEF SocketsInv, DownIsWhole
<1>6. CASE /\ Connected
           /\ \E n \in 1..Len(left) :
                /\ Len(downWire) + n <= WireCapacity
                /\ downWire' = downWire \o First(left, n)
                /\ \/ n = Len(left) /\ Returns(w, "idle")
                   \/ /\ n < Len(left)
                      /\ writes' = [writes EXCEPT ![w].left = After(@, n)]
                      /\ UNCHANGED outputMutex
           /\ UNCHANGED torn
  <2>1. PICK n \in 1..Len(left) :
          /\ downWire' = downWire \o First(left, n)
          /\ \/ n = Len(left) /\ Returns(w, "idle")
             \/ /\ n < Len(left)
                /\ writes' = [writes EXCEPT ![w].left = After(@, n)]
                /\ UNCHANGED outputMutex
    BY <1>6
  <2>2. /\ First(left, n) \in Stream /\ After(left, n) \in Stream
        /\ First(left, n) \o After(left, n) = left
        /\ n = Len(left) => After(left, n) = <<>>
    <3> HIDE DEF left
    <3>1. n \in Nat /\ n <= Len(left) /\ left \in Seq(Bytes)
      BY <1>1, <2>1 DEF Stream
    <3>2. QED
      BY <3>1, Cut DEF Stream
  <2>3. downWire' \in Stream
    BY <1>1, <2>1, <2>2, ConcatProperties DEF Stream
  <2>4. /\ writes' \in [Writers -> Writings] /\ WriterHasMutex'
        /\ outputMutex' \in Writers \cup {NoWriter}
        /\ Unwritten' = After(left, n)
    <3>1. CASE n = Len(left) /\ Returns(w, "idle")
      BY <1>1, <2>2, <3>1, ReturnsInv
    <3>2. CASE /\ writes' = [writes EXCEPT ![w].left = After(left, n)]
               /\ UNCHANGED outputMutex
      <4>1. writes' \in [Writers -> Writings]
        BY <1>1, <2>2, <3>2 DEF SocketsInv, SocketsTyped, Writings
      <4>2. writes'[w].left = After(left, n)
        BY <1>1, <3>2 DEF SocketsInv, SocketsTyped, Writings
      <4>3. \A u \in Writers : writes'[u].at = writes[u].at
        BY <1>1, <3>2 DEF SocketsInv, SocketsTyped, Writings
      <4>4. WriterHasMutex'
        BY <3>2, <4>3 DEF SocketsInv, WriterHasMutex
      <4>5. QED
        BY <1>1, <3>2, <4>1, <4>2, <4>4 DEF Unwritten
    <3>3. QED
      BY <2>1, <3>1, <3>2
  <2>5. SocketsTyped'
    BY <1>2, <1>6, <2>3, <2>4
       DEF SocketsInv, SocketsTyped, readerVars, viewerSideVars
  <2>6. DownIsWhole'
    <3> DEFINE before == (viewerGot \o viewerIO.out) \o readBuffer
               f == First(left, n)
               rest == After(left, n)
    <3>1. /\ Downstream = before \o downWire
          /\ Downstream' = before \o (downWire \o f)
          /\ before \in Stream /\ downWire \in Stream
          /\ f \in Stream /\ rest \in Stream /\ f \o rest = left
          /\ Downstream \in Stream
      BY <1>1, <1>2, <2>1, <2>2, StreamsTyped
         DEF Downstream, viewerSideVars, SocketsInv
    <3>2. ~torn => Downstream \o left = written
      BY <1>1, <1>6 DEF SocketsInv, DownIsWhole
    <3> HIDE DEF before, f, rest
    <3>3. Downstream' \o rest = Downstream \o left
      <4>1. Downstream' = Downstream \o f
        <5>1. (before \o downWire) \o f = before \o (downWire \o f)
          <6>1. before \in Stream /\ downWire \in Stream /\ f \in Stream
            BY <3>1
          <6>2. QED
            BY <6>1, LosesMore
        <5>2. QED
          BY <3>1, <5>1
      <4>2. (Downstream \o f) \o rest = Downstream \o (f \o rest)
        <5>1. Downstream \in Stream /\ f \in Stream /\ rest \in Stream
          BY <3>1
        <5>2. QED
          BY <5>1, LosesMore
      <4>3. QED
        BY <3>1, <4>1, <4>2
    <3>4. Unwritten' = rest
      BY <2>4 DEF rest
    <3>5. QED
      BY <1>2, <1>6, <3>1, <3>2, <3>3, <3>4 DEF DownIsWhole
  <2>7. QED
    BY <1>3, <2>4, <2>5, <2>6 DEF SocketsInv
<1>7. QED
  BY <1>4, <1>5, <1>6 DEF WriteSome

(* select() after a full buffer, with its timeout. *)
LEMMA SelectForWriteInv ==
  ASSUME SocketsInv, NEW w \in Writers, SelectForWrite(w)
  PROVE  SocketsInv'
<1>1. /\ outputMutex = w /\ w # NoWriter /\ writes[w].at = "select"
      /\ writes[w] \in Writings
  BY SocketsAssumption
     DEF SelectForWrite, SocketsInv, SocketsTyped, WriterHasMutex
<1>2. UNCHANGED <<sockOpen, peerOpen, messages, written, downWire, upWire,
                  readerVars, viewerSideVars>>
  BY DEF SelectForWrite
<1>3. UpIsWhole' /\ CallsAreTidy'
  BY <1>2, UpStays
     DEF SocketsInv, CallsAreTidy, readerVars, viewerSideVars, Upstream
<1>4. CASE Returns(w, "failed") /\ torn' = TRUE
  <2>1. SocketsTyped' /\ WriterHasMutex'
    BY <1>1, <1>2, <1>4, ReturnsInv
       DEF SocketsInv, SocketsTyped, readerVars, viewerSideVars
  <2>2. QED
    BY <1>3, <1>4, <2>1 DEF SocketsInv, DownIsWhole
<1>5. CASE /\ \E t \in Nat : writes' = [writes EXCEPT ![w].at = "write",
                                                   ![w].waited = t]
           /\ UNCHANGED <<outputMutex, torn>>
  <2>1. PICK t \in Nat : writes' = [writes EXCEPT ![w].at = "write",
                                                 ![w].waited = t]
    BY <1>5
  <2>2. writes' = [writes EXCEPT ![w] =
                     [at |-> "write", left |-> writes[w].left, waited |-> t]]
    <3> DEFINE mid == [writes EXCEPT ![w].at = "write"]
               record == [at |-> "write", left |-> writes[w].left,
                          waited |-> writes[w].waited]
    <3>1. [writes[w] EXCEPT !.at = "write"] = record
      BY <1>1 DEF Writings
    <3>2. mid = [writes EXCEPT ![w] = record]
      BY <3>1
    <3>3. mid[w] = record
      BY <3>2 DEF SocketsInv, SocketsTyped
    <3>4. writes' = [mid EXCEPT ![w] = [mid[w] EXCEPT !.waited = t]]
      BY <2>1
    <3>5. [record EXCEPT !.waited = t] =
            [at |-> "write", left |-> writes[w].left, waited |-> t]
      OBVIOUS
    <3> HIDE DEF mid, record
    <3>6. QED
      BY <3>2, <3>3, <3>4, <3>5 DEF SocketsInv, SocketsTyped
  <2>3. writes' \in [Writers -> Writings]
    BY <1>1, <2>2 DEF SocketsInv, SocketsTyped, Writings
  <2>4. WriterHasMutex'
    BY <1>1, <1>5, <2>2 DEF SocketsInv, SocketsTyped, WriterHasMutex
  <2>5. Unwritten' = Unwritten /\ Downstream' = Downstream
    BY <1>1, <1>2, <1>5, <2>2
       DEF Unwritten, Downstream, viewerSideVars, SocketsInv, SocketsTyped
  <2>6. DownIsWhole'
    BY <1>2, <1>5, <2>5, DownStays DEF SocketsInv
  <2>7. SocketsTyped'
    BY <1>2, <1>5, <2>3
       DEF SocketsInv, SocketsTyped, readerVars, viewerSideVars
  <2>8. QED
    BY <1>3, <2>4, <2>6, <2>7 DEF SocketsInv
<1>6. TimeWaited(w) \in Nat /\ 0 \in Nat
  BY <1>1 DEF TimeWaited, Writings
<1>7. QED
  BY <1>4, <1>5, <1>6 DEF SelectForWrite

-----------------------------------------------------------------------------
(* What is the beginning of a stream: some sequence is missing. *)
Begins(a, all) == \E lost \in Stream : a \o lost = all

(* A part of what begins a stream begins it, too. *)
LEMMA BeginsEarlier ==
  ASSUME NEW a \in Stream, NEW b \in Stream, NEW all, Begins(a \o b, all)
  PROVE  Begins(a, all) /\ Begins(a \o <<>>, all)
<1>1. PICK lost \in Stream : (a \o b) \o lost = all
  BY DEF Begins
<1>2. a \o (b \o lost) = all /\ b \o lost \in Stream
  BY <1>1, LosesMore
<1>3. a \o <<>> = a
  BY ConcatEmptySeq DEF Stream
<1>4. QED
  BY <1>2, <1>3 DEF Begins

(* What begins a stream begins a longer one. *)
LEMMA BeginsLonger ==
  ASSUME NEW a \in Stream, NEW all \in Stream, NEW more \in Stream,
         Begins(a, all)
  PROVE  Begins(a, all \o more)
<1>1. PICK lost \in Stream : a \o lost = all
  BY DEF Begins
<1>2. lost \in Stream
  BY <1>1
<1>3. (a \o lost) \o more = a \o (lost \o more) /\ lost \o more \in Stream
  BY <1>2, LosesMore
<1>4. QED
  BY <1>1, <1>3 DEF Begins

(* What is whole is the beginning of what was written. *)
LEMMA WholeBegins ==
  ASSUME SocketsInv
  PROVE  Begins(Upstream, sent) /\ (~torn => Begins(Downstream, written))
BY DEF SocketsInv, DownIsWhole, UpIsWhole, Begins

(* The server closes its socket. *)
LEMMA CloseSockInv ==
  ASSUME SocketsInv, CloseSock,
         UNCHANGED <<peerOpen, messages, outputMutex, torn, written, taken,
                     viewerIO, readBuffer, viewerGot, sent>>,
         writes' \in [Writers -> Writings], WriterHasMutex',
         inputRead' \in [got : Stream, need : Nat],
         inputRead'.need = 0 => inputRead'.got = <<>>,
         inputRead'.got \in {inputRead.got, <<>>}
  PROVE  SocketsInv'
<1>1. /\ sockOpen' = FALSE /\ downWire' \in {downWire, <<>>}
      /\ upWire' = <<>> /\ ~Connected' /\ <<>> \in Stream
  BY StreamsTyped DEF CloseSock, Connected, SocketsInv
<1>2. SocketsTyped'
  BY <1>1 DEF SocketsInv, SocketsTyped
<1>3. CallsAreTidy'
  BY DEF SocketsInv, CallsAreTidy
<1>4. DownIsWhole'
  <2> DEFINE before == (viewerGot \o viewerIO.out) \o readBuffer
  <2>1. before \in Stream /\ downWire \in Stream
        /\ Downstream = before \o downWire
    BY StreamsTyped DEF SocketsInv, SocketsTyped, Downstream
  <2>2. Downstream' = before \o downWire \/ Downstream' = before \o <<>>
    BY <1>1 DEF Downstream
  <2>3. ~torn => Begins(before \o downWire, written)
    BY <2>1, WholeBegins
  <2> HIDE DEF before
  <2>4. ~torn => Begins(Downstream', written)
    BY <2>1, <2>2, <2>3, BeginsEarlier
  <2>5. QED
    BY <1>1, <2>4 DEF DownIsWhole, Begins
<1>5. UpIsWhole'
  <2> DEFINE got == inputRead.got
             begun == taken \o got
  <2>1. /\ taken \in Stream /\ upWire \in Stream /\ got \in Stream
        /\ begun \in Stream /\ Upstream = begun \o upWire
        /\ <<>> \in Stream
    BY StreamsTyped DEF SocketsInv, SocketsTyped, Upstream
  <2>2. \/ Upstream' = begun \o <<>>
        \/ Upstream' = (taken \o <<>>) \o <<>>
    BY <1>1 DEF Upstream
  <2>3. Begins(begun \o upWire, sent)
    BY <2>1, WholeBegins
  <2> HIDE DEF begun
  <2>4. Begins(begun, sent) /\ Begins(begun \o <<>>, sent)
    BY <2>1, <2>3, BeginsEarlier
  <2>5. Begins(taken, sent)
    <3>1. Begins(taken \o got, sent)
      BY <2>4 DEF begun
    <3> HIDE DEF got
    <3>2. QED
      BY <2>1, <3>1, BeginsEarlier
  <2>6. (taken \o <<>>) \o <<>> = taken
    BY <2>1, ConcatEmptySeq DEF Stream
  <2>7. Begins(Upstream', sent)
    BY <2>2, <2>4, <2>5, <2>6
  <2>8. QED
    BY <1>1, <2>7 DEF UpIsWhole, Begins
<1>6. QED
  BY <1>2, <1>3, <1>4, <1>5 DEF SocketsInv

(* A writer that failed closes its client. *)
LEMMA CloseAfterFailureInv ==
  ASSUME SocketsInv, NEW w \in Writers, CloseAfterFailure(w)
  PROVE  SocketsInv'
<1>1. /\ writes[w].at = "failed"
      /\ writes' = [writes EXCEPT ![w].at = "idle"] /\ CloseSock
      /\ UNCHANGED <<peerOpen, messages, outputMutex, torn, written,
                     readerVars, viewerSideVars>>
  BY DEF CloseAfterFailure
<1>2. writes' \in [Writers -> Writings]
  BY <1>1 DEF SocketsInv, SocketsTyped, Writings
<1>3. WriterHasMutex'
  BY <1>1 DEF SocketsInv, SocketsTyped, Writings, WriterHasMutex
<1>4. QED
  BY <1>1, <1>2, <1>3, CloseSockInv
     DEF readerVars, viewerSideVars, SocketsInv, SocketsTyped, CallsAreTidy

(* Another thread does. *)
LEMMA CloseElsewhereInv ==
  ASSUME SocketsInv, CloseElsewhere
  PROVE  SocketsInv'
<1>1. /\ CloseSock
      /\ UNCHANGED <<peerOpen, messages, writerVars, readerVars,
                     viewerSideVars>>
  BY DEF CloseElsewhere
<1>2. QED
  BY <1>1, CloseSockInv
     DEF writerVars, readerVars, viewerSideVars, SocketsInv, SocketsTyped,
         CallsAreTidy, WriterHasMutex

-----------------------------------------------------------------------------
(* The server's reader. *)
LEMMA ReadFailsInv ==
  ASSUME SocketsInv, ReadFails
  PROVE  SocketsInv'
<1>1. /\ inputRead' = [got |-> <<>>, need |-> 0] /\ CloseSock
      /\ UNCHANGED <<peerOpen, messages, taken, writerVars, viewerSideVars>>
  BY DEF ReadFails
<1>2. inputRead' \in [got : Stream, need : Nat]
  BY <1>1, StreamsTyped DEF SocketsInv
<1>3. QED
  BY <1>1, <1>2, CloseSockInv
     DEF writerVars, viewerSideVars, SocketsInv, SocketsTyped, WriterHasMutex

(* A step of the reader that keeps what has arrived in order. *)
LEMMA ReaderInv ==
  ASSUME SocketsInv, Upstream' = Upstream,
         UNCHANGED <<sockOpen, peerOpen, messages, downWire, writerVars,
                     viewerSideVars>>,
         upWire' \in Stream, taken' \in Stream,
         inputRead' \in [got : Stream, need : Nat],
         inputRead'.need = 0 => inputRead'.got = <<>>
  PROVE  SocketsInv'
<1>1. SocketsTyped'
  BY DEF SocketsInv, SocketsTyped, writerVars, viewerSideVars
<1>2. WriterHasMutex' /\ CallsAreTidy'
  BY DEF SocketsInv, WriterHasMutex, CallsAreTidy, writerVars,
         viewerSideVars
<1>3. DownIsWhole'
  BY DownStays DEF SocketsInv, Downstream, Unwritten, writerVars,
                   viewerSideVars
<1>4. UpIsWhole'
  BY UpStays DEF SocketsInv, viewerSideVars
<1>5. QED
  BY <1>1, <1>2, <1>3, <1>4 DEF SocketsInv

(* rfbReadExactTimeout() is called. *)
LEMMA BeginReadInv ==
  ASSUME SocketsInv, BeginRead
  PROVE  SocketsInv'
<1>1. /\ inputRead.need = 0
      /\ inputRead' = [got |-> <<>>, need |-> UpLength]
      /\ UNCHANGED <<sockOpen, peerOpen, messages, downWire, upWire, taken,
                     writerVars, viewerSideVars>>
  BY DEF BeginRead
<1>2. inputRead' \in [got : Stream, need : Nat] /\ inputRead'.got = <<>>
  <2>1. UpLength \in Nat
    BY SocketsAssumption
  <2>2. QED
    BY <1>1, <2>1, StreamsTyped DEF SocketsInv
<1>3. Upstream' = Upstream
  BY <1>1, <1>2 DEF SocketsInv, CallsAreTidy, Upstream
<1>4. QED
  BY <1>1, <1>2, <1>3, ReaderInv DEF SocketsInv, SocketsTyped

(* read() returns some of the bytes. *)
LEMMA ReadSomeInv ==
  ASSUME SocketsInv, ReadSome
  PROVE  SocketsInv'
<1> DEFINE got(n) == inputRead.got \o First(upWire, n)
<1>1. PICK n \in 1..inputRead.need :
        /\ n <= Len(upWire)
        /\ upWire' = After(upWire, n)
        /\ IF n = inputRead.need
             THEN /\ taken' = taken \o got(n)
                  /\ inputRead' = [got |-> <<>>, need |-> 0]
             ELSE /\ inputRead' = [got |-> got(n), need |-> inputRead.need - n]
                  /\ UNCHANGED taken
  BY DEF ReadSome
<1>2. UNCHANGED <<sockOpen, peerOpen, messages, downWire, writerVars,
                  viewerSideVars>>
  BY DEF ReadSome
<1> DEFINE f == First(upWire, n)
           t == After(upWire, n)
           g == inputRead.got
<1>3. /\ g \in Stream /\ taken \in Stream /\ upWire \in Stream
      /\ inputRead.need \in Nat /\ n \in Nat /\ <<>> \in Stream
  BY <1>1, StreamsTyped DEF SocketsInv, SocketsTyped
<1>4. f \in Stream /\ t \in Stream /\ f \o t = upWire
  BY <1>1, <1>3, Cut DEF Stream
<1>5. /\ Upstream = (taken \o g) \o upWire
      /\ got(n) = g \o f /\ upWire' = t
  BY <1>1 DEF Upstream
<1> HIDE DEF f, t, g, got
<1>6. /\ g \o f \in Stream /\ taken \o g \in Stream
      /\ taken \o (g \o f) \in Stream
  BY <1>3, <1>4, ConcatProperties DEF Stream
<1>7. (taken \o (g \o f)) \o t = Upstream
  <2>1. taken \o (g \o f) = (taken \o g) \o f
    <3>1. taken \in Stream /\ g \in Stream /\ f \in Stream
      BY <1>3, <1>4
    <3>2. QED
      BY <3>1, LosesMore
  <2>2. ((taken \o g) \o f) \o t = (taken \o g) \o (f \o t)
    <3>1. taken \o g \in Stream /\ f \in Stream /\ t \in Stream
      BY <1>4, <1>6
    <3>2. QED
      BY <3>1, LosesMore
  <2>3. QED
    BY <1>4, <1>5, <2>1, <2>2
<1>8. CASE /\ taken' = taken \o got(n)
           /\ inputRead' = [got |-> <<>>, need |-> 0]
  <2>1. inputRead' \in [got : Stream, need : Nat] /\ inputRead'.got = <<>>
    BY <1>3, <1>8
  <2>2. Upstream' = ((taken \o (g \o f)) \o <<>>) \o t
    BY <1>5, <1>8 DEF Upstream
  <2>3. Upstream' = Upstream
    BY <1>6, <1>7, <2>2, ConcatEmptySeq DEF Stream
  <2>4. QED
    BY <1>2, <1>4, <1>5, <1>6, <1>8, <2>1, <2>3, ReaderInv
<1>9. CASE /\ n # inputRead.need
           /\ inputRead' = [got |-> got(n), need |-> inputRead.need - n]
           /\ UNCHANGED taken
  <2>1. inputRead.need - n \in Nat /\ inputRead.need - n # 0
    BY <1>1, <1>3, <1>9
  <2>2. /\ inputRead' \in [got : Stream, need : Nat]
        /\ inputRead'.need # 0
    BY <1>5, <1>6, <1>9, <2>1
  <2>3. Upstream' = (taken \o (g \o f)) \o t
    BY <1>5, <1>9 DEF Upstream
  <2>4. QED
    BY <1>2, <1>3, <1>4, <1>5, <1>7, <1>9, <2>2, <2>3, ReaderInv
<1>10. QED
  BY <1>1, <1>8, <1>9

-----------------------------------------------------------------------------
(* The viewer's reads.  What it has moves from the wire through its buffer *)
(* to the caller.                                                          *)
LEMMA ViewerReadInv ==
  ASSUME SocketsInv, Downstream' = Downstream,
         UNCHANGED <<sockOpen, peerOpen, messages, upWire, sent, writerVars,
                     readerVars>>,
         viewerIO' \in ViewerCalls, readBuffer' \in Stream,
         viewerGot' \in Stream, downWire' \in Stream,
         viewerIO'.left = viewerIO.left, CallsAreTidy'
  PROVE  SocketsInv'
<1>1. SocketsTyped'
  BY DEF SocketsInv, SocketsTyped, writerVars, readerVars
<1>2. WriterHasMutex'
  BY DEF SocketsInv, WriterHasMutex, writerVars
<1>3. DownIsWhole'
  BY DownStays DEF SocketsInv, Unwritten, writerVars
<1>4. UpIsWhole'
  BY UpStays DEF SocketsInv, Upstream, readerVars
<1>5. QED
  BY <1>1, <1>2, <1>3, <1>4 DEF SocketsInv

(* No call is a call. *)
LEMMA NoCallTyped ==
  /\ NoCall \in ViewerCalls /\ NoCall.at = "idle" /\ NoCall.out = <<>>
  /\ NoCall.need = 0 /\ NoCall.left = <<>>
<1>1. <<>> \in Stream
  BY EmptySeq DEF Stream
<1>2. QED
  BY <1>1 DEF NoCall, ViewerCalls

(* ReadFromRFBServer() from the client's buffer. *)
LEMMA ReadFromBufferInv ==
  ASSUME SocketsInv, NEW n \in ReadLengths, ReadFromBuffer(n)
  PROVE  SocketsInv'
<1> DEFINE f == First(readBuffer, n)
           t == After(readBuffer, n)
<1>1. /\ viewerIO.at = "idle" /\ n <= Len(readBuffer) /\ n \in Nat
      /\ viewerGot' = viewerGot \o f /\ readBuffer' = t
      /\ viewerIO.out = <<>> /\ viewerIO.left = <<>>
      /\ UNCHANGED <<sockOpen, peerOpen, messages, downWire, upWire, viewerIO,
                     sent, writerVars, readerVars>>
  BY SocketsAssumption DEF ReadFromBuffer, SocketsInv, CallsAreTidy
<1>2. /\ viewerGot \in Stream /\ readBuffer \in Stream
      /\ downWire \in Stream /\ viewerIO \in ViewerCalls
  BY DEF SocketsInv, SocketsTyped
<1>3. f \in Stream /\ t \in Stream /\ (viewerGot \o f) \o t = viewerGot \o readBuffer
  BY <1>1, <1>2, Cut, Moved DEF Stream
<1>4. /\ Downstream = ((viewerGot \o <<>>) \o readBuffer) \o downWire
      /\ Downstream' = (((viewerGot \o f) \o <<>>) \o t) \o downWire
  BY <1>1 DEF Downstream
<1> HIDE DEF f, t
<1>5. viewerGot \o f \in Stream
  BY <1>2, <1>3, ConcatProperties DEF Stream
<1>6. Downstream' = Downstream
  <2>1. viewerGot \o <<>> = viewerGot
    BY <1>2, ConcatEmptySeq DEF Stream
  <2>2. (viewerGot \o f) \o <<>> = viewerGot \o f
    BY <1>5, ConcatEmptySeq DEF Stream
  <2>3. QED
    BY <1>3, <1>4, <2>1, <2>2
<1>7. CallsAreTidy'
  BY <1>1 DEF SocketsInv, CallsAreTidy, readerVars
<1>8. QED
  BY <1>1, <1>2, <1>3, <1>5, <1>6, <1>7, ViewerReadInv

(* ReadFromRFBServer() is called. *)
LEMMA BeginReadFromServerInv ==
  ASSUME SocketsInv, NEW n \in ReadLengths, BeginReadFromServer(n)
  PROVE  SocketsInv'
<1> DEFINE need == n - Len(readBuffer)
<1>1. /\ viewerIO.at = "idle" /\ n > Len(readBuffer) /\ n \in Nat
      /\ viewerIO' = [at |-> IF need <= RFB_BUF_SIZE THEN "fill" ELSE "direct",
                      out |-> readBuffer, need |-> need, left |-> <<>>]
      /\ readBuffer' = <<>>
      /\ viewerIO.out = <<>> /\ viewerIO.left = <<>> /\ peerOpen
      /\ UNCHANGED <<sockOpen, peerOpen, messages, downWire, upWire,
                     viewerGot, sent, writerVars, readerVars>>
  BY SocketsAssumption DEF BeginReadFromServer, SocketsInv, CallsAreTidy
<1>2. /\ viewerGot \in Stream /\ readBuffer \in Stream
      /\ downWire \in Stream /\ viewerIO \in ViewerCalls /\ <<>> \in Stream
  BY StreamsTyped DEF SocketsInv, SocketsTyped
<1>3. need \in Nat
  BY <1>1, <1>2, LenProperties DEF Stream
<1> HIDE DEF need
<1>4. viewerIO' \in ViewerCalls /\ viewerIO'.left = <<>>
  BY <1>1, <1>2, <1>3 DEF ViewerCalls
<1>5. Downstream' = Downstream
  <2>1. /\ Downstream = ((viewerGot \o <<>>) \o readBuffer) \o downWire
        /\ Downstream' = ((viewerGot \o readBuffer) \o <<>>) \o downWire
    BY <1>1 DEF Downstream
  <2>2. viewerGot \o readBuffer \in Stream
    BY <1>2, ConcatProperties DEF Stream
  <2>3. /\ viewerGot \o <<>> = viewerGot
        /\ (viewerGot \o readBuffer) \o <<>> = viewerGot \o readBuffer
    BY <1>2, <2>2, ConcatEmptySeq DEF Stream
  <2>4. QED
    BY <2>1, <2>3
<1>6. CallsAreTidy'
  BY <1>1 DEF SocketsInv, CallsAreTidy, readerVars
<1>7. QED
  BY <1>1, <1>2, <1>4, <1>5, <1>6, ViewerReadInv

(* It fills the buffer. *)
LEMMA FillBufferInv ==
  ASSUME SocketsInv, FillBuffer
  PROVE  SocketsInv'
<1> DEFINE buf(n) == readBuffer \o First(downWire, n)
<1>1. PICK n \in 1..(RFB_BUF_SIZE - Len(readBuffer)) :
        /\ n <= Len(downWire)
        /\ downWire' = After(downWire, n)
        /\ IF Len(buf(n)) < viewerIO.need
             THEN readBuffer' = buf(n) /\ UNCHANGED <<viewerIO, viewerGot>>
             ELSE /\ viewerGot' = (viewerGot \o viewerIO.out)
                                    \o First(buf(n), viewerIO.need)
                  /\ readBuffer' = After(buf(n), viewerIO.need)
                  /\ viewerIO' = NoCall
  BY DEF FillBuffer
<1>2. /\ viewerIO.at = "fill" /\ viewerIO.left = <<>> /\ peerOpen
      /\ UNCHANGED <<sockOpen, peerOpen, messages, upWire, sent, writerVars,
                     readerVars>>
  BY DEF FillBuffer, SocketsInv, CallsAreTidy
<1> DEFINE f == First(downWire, n)
           t == After(downWire, n)
           begun == viewerGot \o viewerIO.out
           b == buf(n)
<1>3. /\ viewerGot \in Stream /\ readBuffer \in Stream
      /\ downWire \in Stream /\ viewerIO \in ViewerCalls
      /\ begun \in Stream /\ viewerIO.need \in Nat /\ n \in Nat
  BY <1>1, StreamsTyped DEF SocketsInv, SocketsTyped, ViewerCalls
<1>4. f \in Stream /\ t \in Stream /\ f \o t = downWire
  BY <1>1, <1>3, Cut DEF Stream
<1>5. /\ b = readBuffer \o f /\ downWire' = t
      /\ Downstream = (begun \o readBuffer) \o downWire
  BY <1>1 DEF Downstream
<1> HIDE DEF f, t, b, begun
<1>6. b \in Stream /\ begun \o readBuffer \in Stream
  BY <1>3, <1>4, <1>5, ConcatProperties DEF Stream
<1>7. (begun \o b) \o t = Downstream
  <2>1. begun \o (readBuffer \o f) = (begun \o readBuffer) \o f
    <3>1. begun \in Stream /\ readBuffer \in Stream /\ f \in Stream
      BY <1>3, <1>4
    <3>2. QED
      BY <3>1, LosesMore
  <2>2. ((begun \o readBuffer) \o f) \o t = (begun \o readBuffer) \o (f \o t)
    <3>1. begun \o readBuffer \in Stream /\ f \in Stream /\ t \in Stream
      BY <1>4, <1>6
    <3>2. QED
      BY <3>1, LosesMore
  <2>3. QED
    BY <1>4, <1>5, <2>1, <2>2
<1>8. CASE readBuffer' = b /\ UNCHANGED <<viewerIO, viewerGot>>
  <2>1. Downstream' = Downstream
    BY <1>5, <1>7, <1>8 DEF Downstream, begun
  <2>2. CallsAreTidy'
    BY <1>2, <1>8 DEF SocketsInv, CallsAreTidy, readerVars
  <2>3. QED
    BY <1>2, <1>3, <1>4, <1>5, <1>6, <1>8, <2>1, <2>2, ViewerReadInv
<1>9. CASE /\ ~(Len(b) < viewerIO.need)
           /\ viewerGot' = begun \o First(b, viewerIO.need)
           /\ readBuffer' = After(b, viewerIO.need)
           /\ viewerIO' = NoCall
  <2> DEFINE u == First(b, viewerIO.need)
             r == After(b, viewerIO.need)
  <2>1. u \in Stream /\ r \in Stream /\ (begun \o u) \o r = begun \o b
    <3>1. b \in Seq(Bytes) /\ begun \in Seq(Bytes) /\ viewerIO.need \in Nat
          /\ viewerIO.need <= Len(b)
      BY <1>3, <1>6, <1>9, LenProperties DEF Stream
    <3>2. QED
      BY <3>1, Cut, Moved DEF Stream
  <2>2. viewerGot' = begun \o u /\ readBuffer' = r /\ viewerIO' = NoCall
    BY <1>9
  <2> HIDE DEF u, r
  <2>3. begun \o u \in Stream
    BY <1>3, <2>1, ConcatProperties DEF Stream
  <2>4. Downstream' = (((begun \o u) \o <<>>) \o r) \o t
    BY <1>5, <2>2, NoCallTyped DEF Downstream
  <2>5. (begun \o u) \o <<>> = begun \o u
    BY <2>3, ConcatEmptySeq DEF Stream
  <2>6. Downstream' = Downstream
    BY <1>7, <2>1, <2>4, <2>5
  <2>7. CallsAreTidy'
    BY <1>2, <2>2, NoCallTyped DEF SocketsInv, CallsAreTidy, readerVars
  <2>8. QED
    BY <1>2, <1>4, <1>5, <2>1, <2>2, <2>3, <2>6, <2>7, NoCallTyped,
       ViewerReadInv
<1>10. QED
  BY <1>1, <1>8, <1>9 DEF b, begun

(* It reads past the buffer. *)
LEMMA ReadPastBufferInv ==
  ASSUME SocketsInv, ReadPastBuffer
  PROVE  SocketsInv'
<1> DEFINE out(n) == viewerIO.out \o First(downWire, n)
<1>1. PICK n \in 1..viewerIO.need :
        /\ n <= Len(downWire)
        /\ downWire' = After(downWire, n)
        /\ IF n < viewerIO.need
             THEN /\ viewerIO' = [viewerIO EXCEPT !.out = out(n), !.need = @ - n]
                  /\ UNCHANGED viewerGot
             ELSE viewerGot' = viewerGot \o out(n) /\ viewerIO' = NoCall
  BY DEF ReadPastBuffer
<1>2. /\ viewerIO.at = "direct" /\ viewerIO.left = <<>> /\ peerOpen
      /\ readBuffer = <<>> /\ readBuffer' = <<>>
      /\ UNCHANGED <<sockOpen, peerOpen, messages, upWire, sent, writerVars,
                     readerVars>>
  BY DEF ReadPastBuffer, SocketsInv, CallsAreTidy
<1> DEFINE f == First(downWire, n)
           t == After(downWire, n)
           o == viewerIO.out
           g == viewerGot
<1>3. /\ g \in Stream /\ o \in Stream /\ downWire \in Stream
      /\ viewerIO \in ViewerCalls /\ viewerIO.need \in Nat /\ n \in Nat
      /\ <<>> \in Stream /\ readBuffer' \in Stream
  BY <1>1, <1>2, StreamsTyped DEF SocketsInv, SocketsTyped, ViewerCalls
<1>4. f \in Stream /\ t \in Stream /\ f \o t = downWire
  BY <1>1, <1>3, Cut DEF Stream
<1>5. /\ out(n) = o \o f /\ downWire' = t
      /\ Downstream = ((g \o o) \o <<>>) \o downWire
  BY <1>1, <1>2 DEF Downstream
<1> HIDE DEF f, t, o, g, out
<1>6. /\ o \o f \in Stream /\ g \o o \in Stream /\ g \o (o \o f) \in Stream
  BY <1>3, <1>4, ConcatProperties DEF Stream
<1>7. (g \o (o \o f)) \o t = Downstream
  <2>1. g \o (o \o f) = (g \o o) \o f
    <3>1. g \in Stream /\ o \in Stream /\ f \in Stream
      BY <1>3, <1>4
    <3>2. QED
      BY <3>1, LosesMore
  <2>2. ((g \o o) \o f) \o t = (g \o o) \o (f \o t)
    <3>1. g \o o \in Stream /\ f \in Stream /\ t \in Stream
      BY <1>4, <1>6
    <3>2. QED
      BY <3>1, LosesMore
  <2>3. (g \o o) \o <<>> = g \o o
    BY <1>6, ConcatEmptySeq DEF Stream
  <2>4. QED
    BY <1>4, <1>5, <2>1, <2>2, <2>3
<1>8. (g \o (o \o f)) \o <<>> = g \o (o \o f)
  BY <1>6, ConcatEmptySeq DEF Stream
<1>9. CASE /\ n < viewerIO.need
           /\ viewerIO' = [viewerIO EXCEPT !.out = out(n), !.need = @ - n]
           /\ viewerGot' = g
  <2>1. viewerIO.need - n \in Nat
    BY <1>3, <1>9
  <2>2. viewerIO' = [at |-> "direct", out |-> o \o f,
                     need |-> viewerIO.need - n, left |-> <<>>]
    BY <1>2, <1>3, <1>5, <1>9 DEF ViewerCalls
  <2>3. viewerIO' \in ViewerCalls
    BY <1>3, <1>6, <2>1, <2>2 DEF ViewerCalls
  <2>4. Downstream' = ((g \o (o \o f)) \o <<>>) \o t
    BY <1>2, <1>5, <1>9, <2>2 DEF Downstream
  <2>5. Downstream' = Downstream
    BY <1>7, <1>8, <2>4
  <2>6. CallsAreTidy'
    BY <1>2, <2>2 DEF SocketsInv, CallsAreTidy, readerVars
  <2>7. QED
    BY <1>2, <1>3, <1>4, <1>5, <1>9, <2>2, <2>3, <2>5, <2>6, ViewerReadInv
<1>10. CASE viewerGot' = g \o out(n) /\ viewerIO' = NoCall
  <2>1. viewerGot' = g \o (o \o f) /\ viewerGot' \in Stream
    BY <1>5, <1>6, <1>10
  <2>2. Downstream' = (((g \o (o \o f)) \o <<>>) \o <<>>) \o t
    BY <1>2, <1>5, <1>10, <2>1, NoCallTyped DEF Downstream
  <2>3. Downstream' = Downstream
    BY <1>7, <1>8, <2>2
  <2>4. CallsAreTidy'
    BY <1>2, <1>10, NoCallTyped DEF SocketsInv, CallsAreTidy, readerVars
  <2>5. QED
    BY <1>2, <1>3, <1>4, <1>5, <1>10, <2>1, <2>3, <2>4, NoCallTyped,
       ViewerReadInv
<1>11. QED
  BY <1>1, <1>9, <1>10 DEF g

-----------------------------------------------------------------------------
(* The viewer's writes. *)
LEMMA ViewerWriteInv ==
  ASSUME SocketsInv, UpIsWhole',
         UNCHANGED <<sockOpen, peerOpen, downWire, readBuffer, viewerGot,
                     writerVars, readerVars>>,
         messages' \in [Writers \cup {NoWriter} -> Nat],
         viewerIO' \in ViewerCalls, upWire' \in Stream, sent' \in Stream,
         viewerIO'.out = viewerIO.out, CallsAreTidy'
  PROVE  SocketsInv'
<1>1. SocketsTyped'
  BY DEF SocketsInv, SocketsTyped, writerVars, readerVars
<1>2. WriterHasMutex'
  BY DEF SocketsInv, WriterHasMutex, writerVars
<1>3. DownIsWhole'
  BY DownStays DEF SocketsInv, Downstream, Unwritten, writerVars
<1>4. QED
  BY <1>1, <1>2, <1>3 DEF SocketsInv

(* A call of WriteToRFBServer() that has just begun. *)
LEMMA CallOfAWrite ==
  ASSUME NEW m \in Stream
  PROVE  [NoCall EXCEPT !.at = "write", !.left = m]
         = [at |-> "write", out |-> <<>>, need |-> 0, left |-> m]
<1>1. [NoCall EXCEPT !.at = "write"]
      = [at |-> "write", out |-> <<>>, need |-> 0, left |-> <<>>]
  BY DEF NoCall
<1> DEFINE begun == [NoCall EXCEPT !.at = "write"]
<1>2. [begun EXCEPT !.left = m] = [NoCall EXCEPT !.at = "write", !.left = m]
  BY Zenon
<1>3. begun = [at |-> "write", out |-> <<>>, need |-> 0, left |-> <<>>]
  BY <1>1
<1> HIDE DEF begun
<1>4. QED
  BY <1>2, <1>3

(* WriteToRFBServer() is called. *)
LEMMA BeginWriteToServerInv ==
  ASSUME SocketsInv, BeginWriteToServer
  PROVE  SocketsInv'
<1> DEFINE message == NextMessage(NoWriter, UpLength)
<1>1. /\ viewerIO.at = "idle" /\ peerOpen
      /\ viewerIO.out = <<>> /\ viewerIO.left = <<>>
      /\ viewerIO' = [NoCall EXCEPT !.at = "write", !.left = message]
      /\ messages' = [messages EXCEPT ![NoWriter] = @ + 1]
      /\ sent' = sent \o message
      /\ UNCHANGED <<sockOpen, peerOpen, downWire, upWire, readBuffer,
                     viewerGot, writerVars, readerVars>>
  BY DEF BeginWriteToServer, SocketsInv, CallsAreTidy
<1>2. /\ message \in Stream /\ sent \in Stream /\ <<>> \in Stream
      /\ messages' \in [Writers \cup {NoWriter} -> Nat] /\ upWire' \in Stream
  <2>1. UpLength \in Nat
    BY SocketsAssumption
  <2>2. message \in Stream
    BY <2>1, MessageTyped DEF SocketsInv
  <2>3. QED
    BY <1>1, <2>2, StreamsTyped DEF SocketsInv, SocketsTyped
<1> HIDE DEF message
<1>3. viewerIO' = [at |-> "write", out |-> <<>>, need |-> 0, left |-> message]
  BY <1>1, <1>2, CallOfAWrite
<1>4. viewerIO' \in ViewerCalls /\ sent' \in Stream
  <2>1. sent \in Stream /\ message \in Stream
    BY <1>2 DEF SocketsInv, SocketsTyped
  <2>2. sent \o message \in Stream
    BY <2>1, LosesMore
  <2>3. viewerIO' \in ViewerCalls
    BY <1>2, <1>3 DEF ViewerCalls
  <2>4. QED
    BY <1>1, <2>2, <2>3
<1>5. Upstream' = Upstream /\ Upstream \in Stream
  BY <1>1, StreamsTyped DEF Upstream, SocketsInv, readerVars
<1>6. UpIsWhole'
  <2>1. PICK lost \in Stream : /\ Upstream \o lost = sent
                               /\ Connected => lost = <<>>
    BY <1>1 DEF SocketsInv, UpIsWhole
  <2>2. lost \in Stream /\ message \in Stream /\ Upstream \in Stream
    BY <1>2, <1>5, <2>1
  <2>3. /\ lost \o message \in Stream
        /\ (Upstream \o lost) \o message = Upstream \o (lost \o message)
    BY <2>2, LosesMore
  <2>4. Connected => lost \o message = message
    BY <1>2, <2>1, ConcatEmptySeq DEF Stream
  <2>5. Upstream' \o (lost \o message) = sent'
    BY <1>1, <1>5, <2>1, <2>3
  <2>6. QED
    BY <1>1, <1>3, <2>3, <2>4, <2>5 DEF UpIsWhole, Connected
<1>7. viewerIO'.at = "write" /\ viewerIO'.out = <<>>
  BY <1>3
<1>8. CallsAreTidy'
  <2>1. /\ inputRead' = inputRead /\ peerOpen' = peerOpen /\ peerOpen
        /\ inputRead.need = 0 => inputRead.got = <<>>
    BY <1>1, Zenon DEF SocketsInv, CallsAreTidy, readerVars
  <2>2. QED
    BY <1>7, <2>1 DEF CallsAreTidy
<1>9. viewerIO'.out = viewerIO.out
  BY <1>1, <1>7
<1>10. QED
  BY <1>1, <1>2, <1>4, <1>6, <1>8, <1>9, ViewerWriteInv

(* write() takes a part of the message. *)
LEMMA WriteSomeToServerInv ==
  ASSUME SocketsInv, WriteSomeToServer
  PROVE  SocketsInv'
<1> DEFINE left == viewerIO.left
<1>1. /\ viewerIO.at = "write" /\ sockOpen /\ peerOpen /\ Connected
      /\ viewerIO.out = <<>>
      /\ UNCHANGED <<sockOpen, peerOpen, messages, downWire, readBuffer,
                     viewerGot, sent, writerVars, readerVars>>
  BY DEF WriteSomeToServer, SocketsInv, CallsAreTidy, Connected
<1>2. /\ viewerIO \in ViewerCalls /\ left \in Stream /\ upWire \in Stream
      /\ messages' \in [Writers \cup {NoWriter} -> Nat] /\ sent' \in Stream
      /\ Upstream \in Stream /\ taken \o inputRead.got \in Stream
      /\ viewerIO.need \in Nat /\ <<>> \in Stream
  BY <1>1, StreamsTyped DEF SocketsInv, SocketsTyped, ViewerCalls
<1>3. Upstream \o left = sent
  BY <1>1 DEF SocketsInv, UpIsWhole
<1>4. CASE upWire' = upWire /\ viewerIO' = [viewerIO EXCEPT !.at = "select"]
  <2>1. viewerIO' = [at |-> "select", out |-> <<>>, need |-> viewerIO.need,
                     left |-> left]
    BY <1>1, <1>2, <1>4 DEF ViewerCalls
  <2>2. viewerIO' \in ViewerCalls
    BY <1>2, <2>1 DEF ViewerCalls
  <2>3. UpIsWhole'
    BY <1>1, <1>4, <2>1, UpStays DEF SocketsInv, Upstream, readerVars
  <2>4. CallsAreTidy'
    BY <1>1, <2>1 DEF SocketsInv, CallsAreTidy, readerVars
  <2>5. QED
    BY <1>1, <1>2, <1>4, <2>1, <2>2, <2>3, <2>4, ViewerWriteInv
<1>5. CASE \E n \in 1..Len(left) :
             /\ upWire' = upWire \o First(left, n)
             /\ viewerIO' = IF n = Len(left) THEN NoCall
                            ELSE [viewerIO EXCEPT !.left = After(@, n)]
  <2>1. PICK n \in 1..Len(left) :
          /\ upWire' = upWire \o First(left, n)
          /\ viewerIO' = IF n = Len(left) THEN NoCall
                         ELSE [viewerIO EXCEPT !.left = After(@, n)]
    BY <1>5
  <2> DEFINE f == First(left, n)
             t == After(left, n)
             begun == taken \o inputRead.got
  <2>2. f \in Stream /\ t \in Stream /\ f \o t = left
        /\ (n = Len(left) => t = <<>>)
    <3>1. n \in Nat /\ n <= Len(left) /\ left \in Seq(Bytes)
      BY <1>2, <2>1, LenProperties DEF Stream
    <3> HIDE DEF left
    <3>2. QED
      BY <3>1, Cut DEF Stream
  <2>3. /\ viewerIO' \in ViewerCalls /\ viewerIO'.left = t
        /\ viewerIO'.out = <<>> /\ viewerIO'.at \in {"idle", "write"}
        /\ viewerIO'.at = "idle" => t = <<>>
    <3>1. CASE n = Len(left)
      BY <2>1, <2>2, <3>1, NoCallTyped
    <3>2. CASE n # Len(left)
      <4>1. viewerIO' = [at |-> "write", out |-> <<>>, need |-> viewerIO.need,
                         left |-> t]
        BY <1>1, <1>2, <2>1, <3>2 DEF ViewerCalls
      <4>2. QED
        BY <1>2, <2>2, <4>1 DEF ViewerCalls
    <3>3. QED
      BY <3>1, <3>2
  <2>4. /\ Upstream = begun \o upWire
        /\ Upstream' = begun \o (upWire \o f)
        /\ begun \in Stream
    BY <1>1, <1>2, <2>1 DEF Upstream, readerVars
  <2>5. upWire' \in Stream
    BY <1>2, <2>1, <2>2, ConcatProperties DEF Stream
  <2> HIDE DEF f, t, begun
  <2>6. Upstream' \o t = sent'
    <3>1. begun \in Stream /\ upWire \in Stream /\ f \in Stream
      BY <1>2, <2>2, <2>4
    <3>2. (begun \o upWire) \o f = begun \o (upWire \o f)
      BY <3>1, LosesMore
    <3>3. Upstream \in Stream /\ f \in Stream /\ t \in Stream
      BY <1>2, <2>2
    <3>4. (Upstream \o f) \o t = Upstream \o (f \o t)
      BY <3>3, LosesMore
    <3>5. QED
      BY <1>1, <1>3, <2>2, <2>4, <3>2, <3>4
  <2>7. UpIsWhole'
    BY <2>2, <2>3, <2>6 DEF UpIsWhole
  <2>8. CallsAreTidy'
    BY <1>1, <2>3 DEF SocketsInv, CallsAreTidy, readerVars
  <2>9. QED
    BY <1>1, <1>2, <2>3, <2>5, <2>7, <2>8, ViewerWriteInv
<1>6. QED
  BY <1>4, <1>5 DEF WriteSomeToServer

(* select() without a timeout. *)
LEMMA SelectToServerInv ==
  ASSUME SocketsInv, SelectToServer
  PROVE  SocketsInv'
<1>1. /\ viewerIO.at = "select" /\ viewerIO.out = <<>> /\ peerOpen
      /\ viewerIO' = [viewerIO EXCEPT !.at = "write"]
      /\ UNCHANGED <<sockOpen, peerOpen, messages, downWire, upWire,
                     readBuffer, viewerGot, sent, writerVars, readerVars>>
  BY DEF SelectToServer, SocketsInv, CallsAreTidy
<1>2. /\ viewerIO' \in ViewerCalls /\ viewerIO'.out = <<>>
      /\ viewerIO'.left = viewerIO.left /\ viewerIO'.at = "write"
  BY <1>1 DEF SocketsInv, SocketsTyped, ViewerCalls
<1>3. UpIsWhole'
  BY <1>1, <1>2, UpStays DEF SocketsInv, Upstream, readerVars
<1>4. CallsAreTidy'
  BY <1>1, <1>2 DEF SocketsInv, CallsAreTidy, readerVars
<1>5. QED
  BY <1>1, <1>2, <1>3, <1>4, ViewerWriteInv DEF SocketsInv, SocketsTyped

(* The viewer's end of the connection. *)
LEMMA CloseViewerInv ==
  ASSUME SocketsInv, CloseViewer
  PROVE  SocketsInv'
<1>1. /\ peerOpen' = FALSE /\ ~Connected' /\ downWire' = <<>>
      /\ upWire' \in {upWire, <<>>} /\ readBuffer' = <<>>
      /\ viewerIO' = [at |-> "lost", out |-> <<>>, need |-> 0, left |-> <<>>]
      /\ UNCHANGED <<sockOpen, messages, viewerGot, sent, writerVars,
                     readerVars>>
  BY DEF CloseViewer, Connected, NoCall
<1>2. /\ <<>> \in Stream /\ viewerIO' \in ViewerCalls
      /\ viewerGot \in Stream /\ upWire \in Stream
      /\ taken \o inputRead.got \in Stream
  BY <1>1, StreamsTyped DEF SocketsInv, SocketsTyped, ViewerCalls
<1>3. SocketsTyped'
  BY <1>1, <1>2 DEF SocketsInv, SocketsTyped, writerVars, readerVars
<1>4. WriterHasMutex' /\ CallsAreTidy'
  BY <1>1 DEF SocketsInv, WriterHasMutex, CallsAreTidy, writerVars,
              readerVars
<1>5. DownIsWhole'
  <2> DEFINE a == viewerGot \o viewerIO.out
             b == a \o readBuffer
  <2>1. /\ a \in Stream /\ b \in Stream /\ downWire \in Stream
        /\ readBuffer \in Stream /\ viewerIO.out \in Stream
        /\ Downstream = b \o downWire
    BY StreamsTyped DEF SocketsInv, SocketsTyped, Downstream, ViewerCalls
  <2>2. Downstream' = ((viewerGot \o <<>>) \o <<>>) \o <<>>
    BY <1>1 DEF Downstream
  <2>3. Downstream' = viewerGot
    BY <1>2, <2>2, ConcatEmptySeq DEF Stream
  <2>4. ~torn => Begins(b \o downWire, written)
    BY <2>1, WholeBegins
  <2> HIDE DEF b
  <2>5. ~torn => Begins(b, written)
    BY <2>1, <2>4, BeginsEarlier
  <2>6. ~torn => Begins(a \o readBuffer, written)
    BY <2>5 DEF b
  <2> HIDE DEF a
  <2>7. ~torn => Begins(a, written)
    BY <2>1, <2>6, BeginsEarlier
  <2>8. ~torn => Begins(viewerGot \o viewerIO.out, written)
    BY <2>7 DEF a
  <2>9. ~torn => Begins(viewerGot, written)
    BY <1>2, <2>1, <2>8, BeginsEarlier
  <2>10. QED
    BY <1>1, <2>3, <2>9 DEF DownIsWhole, Begins, writerVars
<1>6. UpIsWhole'
  <2> DEFINE begun == taken \o inputRead.got
  <2>1. Upstream = begun \o upWire /\ begun \in Stream
    BY <1>2 DEF Upstream
  <2>2. Upstream' = begun \o upWire \/ Upstream' = begun \o <<>>
    BY <1>1 DEF Upstream, readerVars
  <2>3. Begins(begun \o upWire, sent)
    BY <2>1, WholeBegins
  <2> HIDE DEF begun
  <2>4. Begins(Upstream', sent)
    BY <1>2, <2>1, <2>2, <2>3, BeginsEarlier
  <2>5. QED
    BY <1>1, <2>4 DEF UpIsWhole, Begins
<1>7. QED
  BY <1>3, <1>4, <1>5, <1>6 DEF SocketsInv

-----------------------------------------------------------------------------
(* A step of any thread. *)
LEMMA SocketsNextInv ==
  ASSUME SocketsInv, [SocketsNext]_socketVars
  PROVE  SocketsInv'
<1>1. CASE \E w \in Writers : BeginWrite(w) \/ WriterStep(w)
  BY <1>1, BeginWriteInv, TakeOutputMutexInv, WriteSomeInv, SelectForWriteInv,
     CloseAfterFailureInv
     DEF WriterStep
<1>2. CASE InputReads \/ CloseElsewhere
  BY <1>2, BeginReadInv, ReadSomeInv, ReadFailsInv, CloseElsewhereInv
     DEF InputReads
<1>3. CASE \E n \in ReadLengths : ReadFromBuffer(n) \/ BeginReadFromServer(n)
  BY <1>3, ReadFromBufferInv, BeginReadFromServerInv
<1>4. CASE BeginWriteToServer \/ ViewerGoesOn \/ ViewerQuits
  BY <1>4, BeginWriteToServerInv, FillBufferInv, ReadPastBufferInv,
     WriteSomeToServerInv, SelectToServerInv, CloseViewerInv
     DEF ViewerGoesOn, ViewerFails, ViewerQuits
<1>5. CASE UNCHANGED socketVars
  <2>1. UNCHANGED <<sockOpen, peerOpen, messages, downWire, writerVars,
                    viewerSideVars, upWire, readerVars>>
    BY <1>5 DEF socketVars
  <2>2. Upstream' = Upstream
    BY <2>1 DEF Upstream, readerVars
  <2>3. QED
    BY <2>1, <2>2, ReaderInv
       DEF readerVars, SocketsInv, SocketsTyped, CallsAreTidy
<1>6. QED
  BY <1>1, <1>2, <1>3, <1>4, <1>5 DEF SocketsNext

(* What begins a stream is what the stream begins with. *)
LEMMA BeginsIsBegun ==
  ASSUME NEW a \in Stream, NEW all, Begins(a, all)
  PROVE  IsBegun(a, all)
<1>1. PICK lost \in Stream : a \o lost = all
  BY DEF Begins
<1>2. a \in Seq(Bytes) /\ lost \in Seq(Bytes) /\ Len(a) \in Nat
  BY <1>1, LenProperties DEF Stream
<1>3. SubSeq(a \o lost, 1, Len(a)) = a
  <2>1. CASE Len(a) = 0
    <3>1. SubSeq(a \o lost, 1, 0) = <<>>
      BY SubSeqEmpty
    <3>2. a = <<>>
      BY <1>2, <2>1, EmptySeq
    <3>3. QED
      BY <2>1, <3>1, <3>2
  <2>2. CASE Len(a) # 0
    <3>1. 1 \in 1..Len(a) /\ Len(a) \in 1..Len(a)
      BY <1>2, <2>2
    <3>2. SubSeq(a \o lost, 1, Len(a)) = SubSeq(a, 1, Len(a))
      BY <1>2, <3>1, SubSeqOfConcat1
    <3>3. QED
      BY <1>2, <3>2, SubSeqFull
  <2>3. QED
    BY <2>1, <2>2
<1>4. QED
  BY <1>1, <1>3 DEF IsBegun, First

(* Nothing has been sent. *)
LEMMA SocketsInitInv ==
  ASSUME SocketsInit
  PROVE  SocketsInv
<1>1. <<>> \in Stream /\ <<>> \o <<>> = <<>>
  BY EmptySeq, ConcatEmptySeq DEF Stream
<1>2. SocketsTyped
  BY <1>1 DEF SocketsInit, SocketsTyped, Writings, ViewerCalls
<1>3. WriterHasMutex
  BY SocketsAssumption DEF SocketsInit, WriterHasMutex
<1>4. CallsAreTidy
  BY DEF SocketsInit, CallsAreTidy
<1>5. /\ Downstream = <<>> /\ Upstream = <<>> /\ Unwritten = <<>>
      /\ viewerIO.left = <<>> /\ written = <<>> /\ sent = <<>>
  BY <1>1 DEF SocketsInit, Downstream, Upstream, Unwritten
<1>6. DownIsWhole /\ UpIsWhole
  BY <1>1, <1>5 DEF DownIsWhole, UpIsWhole
<1>7. QED
  BY <1>2, <1>3, <1>4, <1>6 DEF SocketsInv

(* Each side receives what the other was asked to send, in order, and no   *)
(* byte is lost, repeated or mixed with another writer's, until a writer   *)
(* has given up within a message.                                          *)
THEOREM StreamsAreWhole == SocketsSpec => []StreamIsWhole
<1>1. SocketsInit => SocketsInv
  BY SocketsInitInv
<1>2. SocketsInv /\ [SocketsNext]_socketVars => SocketsInv'
  BY SocketsNextInv
<1>3. SocketsInv => StreamIsWhole
  <2> SUFFICES ASSUME SocketsInv
               PROVE  StreamIsWhole
    OBVIOUS
  <2>1. Downstream \in Stream /\ Upstream \in Stream
    BY StreamsTyped DEF SocketsInv
  <2>2. ~torn => IsBegun(Downstream, written)
    BY <2>1, WholeBegins, BeginsIsBegun
  <2>3. IsBegun(Upstream, sent)
    BY <2>1, WholeBegins, BeginsIsBegun
  <2>4. ASSUME Connected, \A w \in Writers : writes[w].at \in {"idle", "lock"}
        PROVE  torn \/ Downstream = written
    <3>1. outputMutex = NoWriter
      BY <2>4 DEF SocketsInv, SocketsTyped, WriterHasMutex
    <3>2. ~torn => Downstream \o <<>> = written
      BY <2>4, <3>1 DEF SocketsInv, DownIsWhole, Unwritten
    <3>3. QED
      BY <2>1, <3>2, ConcatEmptySeq DEF Stream
  <2>5. ASSUME Connected, viewerIO.at \notin {"write", "select"}
        PROVE  Upstream = sent
    <3>1. Upstream \o <<>> = sent
      BY <2>5 DEF SocketsInv, UpIsWhole, CallsAreTidy
    <3>2. QED
      BY <2>1, <3>1, ConcatEmptySeq DEF Stream
  <2>6. QED
    BY <2>2, <2>3, <2>4, <2>5 DEF StreamIsWhole
<1>4. QED
  BY <1>1, <1>2, <1>3, PTL DEF SocketsSpec
=============================================================================

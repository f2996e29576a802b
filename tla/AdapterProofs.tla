--------------------------- MODULE AdapterProofs ---------------------------
(***************************************************************************)
(* What holds of the bring-up for every EFUSE, image, page layout, table   *)
(* and bound: whatever becomes of the sessions before, the firmware that   *)
(* is started is the whole image, blocks that all arrive make up the       *)
(* image, and a MAC that sends and receives has its pages laid out: one    *)
(* list and one ring. Each register table writes what it means for the     *)
(* board that the EFUSE describes, and nothing it means for another. Of a  *)
(* transfer the payload of every intact video frame is handed on. The walk *)
(* of the EFUSE ends with the map that was burned.                         *)
(***************************************************************************)
EXTENDS Adapter, Induction, FiniteSetTheorems, SequenceTheorems, TLAPS

\* The 8051's state is a record of flags; its image and its report belong
\* together at each step of the download.
McuTypeOK ==
  mcu \in [dl : BOOLEAN, chk : BOOLEAN, free : BOOLEAN, ready : BOOLEAN]

\* Before the download of a session its manager does not exist.
DownloadInPhase ==
  phase \in {"off", "efuse", "reset", "power", "llt"} => fwStep = "off"

\* While an image is written nothing runs and nothing vouches for it; what
\* is accepted, or runs, is the image.
Vouching ==
  /\ fwStep \in {"off", "attempt", "write", "poll", "free", "done"}
  /\ fwStep \in {"attempt", "write", "poll", "free"} => ~mcu.ready
  /\ fwStep \in {"write", "poll"} => ~mcu.chk
  /\ fwStep = "free" => ram = Image
  /\ mcu.ready => ram = Image

\* What the download keeps, over the sessions.
FirmwareInv == McuTypeOK /\ DownloadInPhase /\ Vouching

\* The first n entries of the page table are written, as they should be.
Written(n) ==
  \A p \in 0..(n - 1) : p \in DOMAIN llt /\ llt[p] = NextPage(p)

\* Where the bring-up is in laying out the pages; a MAC that is on has them
\* laid out, also before the bring-up comes to it.
LayoutInv ==
  /\ entry \in Nat
  /\ phase = "llt" => entry <= LastPage /\ Written(entry)
  /\ phase \in {"firmware", "pages", "mac", "bb", "up"} =>
       Written(LastPage + 1)
  /\ phase \in {"mac", "bb", "up"} => bounded
  /\ cr = "txrx" => bounded /\ Written(LastPage + 1)
  /\ LaidOutWhileOff

\* The image up to page n.
UpTo(n) == {x \in Image : x < n * PageSize}

\* While an attempt has lost nothing, the pages it has written are in place.
\* Nothing else than the image is ever written.
Placing ==
  /\ ram \subseteq Image
  /\ page \in 0..(Pages + 1) /\ lost \in 0..MaxLost
  /\ fwStep = "write" /\ lost = 0 => UpTo(page) \subseteq ram
  /\ fwStep = "poll" /\ lost = 0 => ram = Image

-----------------------------------------------------------------------------
\* A chip that is powered up for the first time runs and vouches for nothing.
LEMMA FirmwareStarts == Init => FirmwareInv
BY DEF Init, FirmwareInit, ColdMcu, FirmwareInv, McuTypeOK, DownloadInPhase,
       Vouching

\* One step of the download itself, in the phase that belongs to it.
LEMMA DownloadStep ==
  ASSUME FirmwareInv, DownloadFirmware
  PROVE  FirmwareInv'
<1> USE DEF FirmwareInv, McuTypeOK, DownloadInPhase, Vouching
<1>1. phase' = phase /\ phase = "firmware" /\ FirmwareNext
  BY DEF DownloadFirmware
<1>2. CASE StartDownload  BY <1>1, <1>2 DEF StartDownload, ColdMcu
<1>3. CASE Attempt  BY <1>1, <1>3 DEF Attempt
<1>4. CASE WritePage  BY <1>1, <1>4 DEF WritePage
<1>5. CASE WriteEnds  BY <1>1, <1>5 DEF WriteEnds
<1>6. CASE ChecksumOk  BY <1>1, <1>6 DEF ChecksumOk
<1>7. CASE ChecksumLate  BY <1>1, <1>7 DEF ChecksumLate
<1>8. CASE FreeToGo  BY <1>1, <1>8 DEF FreeToGo
<1>9. CASE ReportsLate  BY <1>1, <1>9 DEF ReportsLate
<1> QED  BY <1>1, <1>2, <1>3, <1>4, <1>5, <1>6, <1>7, <1>8, <1>9
         DEF FirmwareNext

\* No step of a session, nor its end, nor a lost power supply breaks it.
LEMMA FirmwareStep ==
  ASSUME FirmwareInv, [Next]_vars
  PROVE  FirmwareInv'
<1> USE DEF FirmwareInv, McuTypeOK, DownloadInPhase, Vouching, fwVars
<1>1. CASE Open  BY <1>1 DEF Open
<1>2. CASE ReadEfuse  BY <1>2 DEF ReadEfuse
<1>3. CASE HwReset
  <2>1. phase = "reset" /\ phase' = "power" /\ fwStep' = fwStep /\ ram' = ram
    BY <1>3 DEF HwReset
  <2>2. mcu' = mcu \/ mcu' = ColdMcu  BY <1>3 DEF HwReset
  <2>3. CASE mcu' = mcu  BY <2>1, <2>3
  <2>4. CASE mcu' = ColdMcu  BY <2>1, <2>4 DEF ColdMcu
  <2> QED  BY <2>2, <2>3, <2>4
<1>4. CASE PowerOn  BY <1>4 DEF PowerOn
<1>5. CASE WritePageEntry  BY <1>5 DEF WritePageEntry
<1>6. CASE DownloadFirmware  BY <1>6, DownloadStep
<1>7. CASE FirmwareReports  BY <1>7 DEF FirmwareReports, ReportsLate
<1>8. CASE ConfigMac  BY <1>8 DEF ConfigMac
<1>9. CASE InitPageBoundary  BY <1>9 DEF InitPageBoundary
<1>10. CASE EnableMac  BY <1>10 DEF EnableMac
<1>11. CASE ConfigBBAndRF  BY <1>11 DEF ConfigBBAndRF
<1>12. CASE ReadOnce  BY <1>12 DEF ReadOnce
<1>13. CASE LoopAgain  BY <1>13 DEF LoopAgain
<1>14. CASE EndSession  BY <1>14 DEF EndSession, ForgetFirmware
<1>15. CASE Unplug  BY <1>15 DEF Unplug, ColdMcu
<1>16. CASE UNCHANGED vars  BY <1>16 DEF vars
<1> QED  BY <1>1, <1>2, <1>3, <1>4, <1>5, <1>6, <1>7, <1>8,
            <1>9, <1>10, <1>11, <1>12, <1>13, <1>14, <1>15, <1>16 DEF Next

\* FirmwareInv holds in every reachable state.
LEMMA FirmwareInvariant == Spec => []FirmwareInv
BY FirmwareStarts, FirmwareStep, PTL DEF Spec

\* The download accepts, and starts, nothing but the whole image, in every
\* session and whatever was lost in it or in those before.
THEOREM WholeImage == Spec => []RunsWholeImage
<1>1. FirmwareInv => RunsWholeImage
  BY DEF FirmwareInv, Vouching, RunsWholeImage
<1> QED  BY <1>1, FirmwareInvariant, PTL

-----------------------------------------------------------------------------
\* At first no page is laid out, and the MAC is off.
LEMMA LayoutStarts == Init => LayoutInv
BY DEF Init, LayoutInv, LaidOutWhileOff

\* Each step keeps what is laid out in step with the phase and the MAC.
LEMMA LayoutStep ==
  ASSUME LayoutInv, [Next]_vars
  PROVE  LayoutInv'
<1> USE AdapterAssumption DEF LayoutInv, LaidOutWhileOff, Written
<1>1. CASE Open  BY <1>1 DEF Open
<1>2. CASE ReadEfuse  BY <1>2 DEF ReadEfuse
<1>3. CASE HwReset  BY <1>3 DEF HwReset
<1>4. CASE PowerOn  BY <1>4 DEF PowerOn
<1>5. CASE WritePageEntry  BY <1>5 DEF WritePageEntry
<1>6. CASE DownloadFirmware  BY <1>6 DEF DownloadFirmware
<1>7. CASE FirmwareReports  BY <1>7 DEF FirmwareReports
<1>8. CASE ConfigMac  BY <1>8 DEF ConfigMac
<1>9. CASE InitPageBoundary  BY <1>9 DEF InitPageBoundary
<1>10. CASE EnableMac  BY <1>10 DEF EnableMac
<1>11. CASE ConfigBBAndRF  BY <1>11 DEF ConfigBBAndRF
<1>12. CASE ReadOnce  BY <1>12 DEF ReadOnce
<1>13. CASE LoopAgain  BY <1>13 DEF LoopAgain
<1>14. CASE EndSession  BY <1>14 DEF EndSession
<1>15. CASE Unplug  BY <1>15 DEF Unplug
<1>16. CASE UNCHANGED vars  BY <1>16 DEF vars
<1> QED  BY <1>1, <1>2, <1>3, <1>4, <1>5, <1>6, <1>7, <1>8,
            <1>9, <1>10, <1>11, <1>12, <1>13, <1>14, <1>15, <1>16 DEF Next

\* LayoutInv holds in every reachable state.
LEMMA LayoutInvariant == Spec => []LayoutInv
BY LayoutStarts, LayoutStep, PTL DEF Spec

\* Pages and their boundary are laid out only while the MAC neither sends
\* nor receives, also over a chip that a session before left running.
THEOREM PagesWhileOff == Spec => []LaidOutWhileOff
<1>1. LayoutInv => LaidOutWhileOff  BY DEF LayoutInv
<1> QED  BY <1>1, LayoutInvariant, PTL

\* A MAC that sends and receives has its boundary set and every entry of the
\* page table, as InitLLTTable8812A means it.
THEOREM PagesLaidOut ==
  Spec => [](cr = "txrx" => bounded /\ Written(LastPage + 1))
<1>1. LayoutInv => (cr = "txrx" => bounded /\ Written(LastPage + 1))
  BY DEF LayoutInv
<1> QED  BY <1>1, LayoutInvariant, PTL

-----------------------------------------------------------------------------
\* A function that follows the links from page p.
Follows(h, p) ==
  h = [n \in 0..LastPage |-> IF n = 0 THEN {p} ELSE Further(h[n - 1])]

\* What is reached from a page is what any such function gets to.
LEMMA Reached ==
  ASSUME NEW p, NEW g, Follows(g, p)
  PROVE  From(p) = g[LastPage]
<1> DEFINE f == CHOOSE h : Follows(h, p)
           Same == {n \in Nat : n <= LastPage => f[n] = g[n]}
<1>1. Follows(f, p)
  OBVIOUS
<1>2. From(p) = f[LastPage]
  BY DEF From, Follows
<1> HIDE DEF f
<1>3. 0 \in Same
  BY <1>1, AdapterAssumption DEF Follows
<1>4. ASSUME NEW n \in Nat, n \in Same  PROVE n + 1 \in Same
  <2>1. SUFFICES ASSUME n + 1 <= LastPage  PROVE f[n + 1] = g[n + 1]
    OBVIOUS
  <2>2. n + 1 \in 0..LastPage /\ n + 1 # 0 /\ (n + 1) - 1 = n /\ f[n] = g[n]
    BY <1>4, <2>1, AdapterAssumption
  <2>3. f[n + 1] = Further(f[n])
    BY <1>1, <2>2 DEF Follows
  <2>4. g[n + 1] = Further(g[n])
    BY <2>2 DEF Follows
  <2> QED  BY <2>2, <2>3, <2>4
<1>5. \A n \in Nat : n \in Same
  <2> HIDE DEF Same
  <2> QED  BY <1>3, <1>4, Induction
<1>6. LastPage \in Nat
  BY AdapterAssumption
<1>7. LastPage \in Same
  BY <1>5, <1>6
<1>8. f[LastPage] = g[LastPage]
  BY <1>6, <1>7
<1> QED  BY <1>2, <1>8

\* The transmitter's list, when every entry is written.
LEMMA ListIsWhole ==
  ASSUME Written(LastPage + 1)
  PROVE  From(0) = 0..(Boundary - 1) \cup {EndOfList}
<1> DEFINE g == [n \in 0..LastPage |->
                   IF n < Boundary THEN 0..n
                   ELSE 0..(Boundary - 1) \cup {EndOfList}]
<1>1. ASSUME NEW n \in 0..LastPage
      PROVE  g[n] = IF n = 0 THEN {0} ELSE Further(g[n - 1])
  <2>1. \A q \in 0..LastPage : q \in DOMAIN llt /\ llt[q] = NextPage(q)
    BY AdapterAssumption DEF Written
  <2>2. CASE n = 0
    BY <2>2, AdapterAssumption
  <2>3. CASE n # 0 /\ n < Boundary
    <3>1. g[n] = 0..n /\ g[n - 1] = 0..(n - 1)
      BY <2>3, AdapterAssumption
    <3>2. \A q \in 0..(n - 1) : q \in DOMAIN llt /\ q # EndOfList
                                 /\ llt[q] = q + 1
      BY <2>1, <2>3, AdapterAssumption DEF NextPage
    <3>3. Further(0..(n - 1)) = 0..n
      BY <2>3, <3>2 DEF Further
    <3> QED  BY <2>3, <3>1, <3>3
  <2>4. CASE n = Boundary
    <3>1. /\ g[n] = 0..(Boundary - 1) \cup {EndOfList}
          /\ g[n - 1] = 0..(Boundary - 1)
      BY <2>4, AdapterAssumption
    <3>2. \A q \in 0..(Boundary - 1) :
            /\ q \in DOMAIN llt /\ q # EndOfList
            /\ llt[q] = IF q = Boundary - 1 THEN EndOfList ELSE q + 1
      BY <2>1, AdapterAssumption DEF NextPage
    <3>3. Further(0..(Boundary - 1)) = 0..(Boundary - 1) \cup {EndOfList}
      <4>1. Boundary - 1 \in 0..(Boundary - 1)
        BY AdapterAssumption
      <4>2. \A q \in 0..(Boundary - 1) :
              llt[q] \in 0..(Boundary - 1) \cup {EndOfList}
        BY <3>2, AdapterAssumption
      <4> QED  BY <3>2, <4>1, <4>2 DEF Further
    <3> QED  BY <2>4, <3>1, <3>3, AdapterAssumption
  <2>5. CASE n > Boundary
    <3>1. /\ g[n] = 0..(Boundary - 1) \cup {EndOfList}
          /\ g[n - 1] = 0..(Boundary - 1) \cup {EndOfList}
      BY <2>5, AdapterAssumption
    <3>2. \A q \in 0..(Boundary - 1) :
            llt[q] \in 0..(Boundary - 1) \cup {EndOfList}
      BY <2>1, AdapterAssumption DEF NextPage
    <3>3. Further(0..(Boundary - 1) \cup {EndOfList}) =
            0..(Boundary - 1) \cup {EndOfList}
      BY <3>2 DEF Further
    <3>4. n # 0
      BY <2>5, AdapterAssumption
    <3> HIDE DEF g
    <3> QED  BY <3>1, <3>3, <3>4
  <2> QED  BY <2>2, <2>3, <2>4, <2>5, AdapterAssumption
<1>2. g[LastPage] = 0..(Boundary - 1) \cup {EndOfList}
  BY AdapterAssumption
<1>3. Follows(g, 0)
  <2>1. g = [n \in 0..LastPage |-> g[n]]
    OBVIOUS
  <2> HIDE DEF g
  <2> QED  BY <1>1, <2>1 DEF Follows
<1> HIDE DEF g
<1> QED  BY <1>2, <1>3, Reached

\* The ring of the other pages.
LEMMA RingIsWhole ==
  ASSUME Written(LastPage + 1)
  PROVE  From(Boundary) = Boundary..LastPage /\ llt[LastPage] = Boundary
<1> DEFINE g == [n \in 0..LastPage |->
                   IF Boundary + n <= LastPage THEN Boundary..(Boundary + n)
                   ELSE Boundary..LastPage]
<1>1. \A q \in 0..LastPage : q \in DOMAIN llt /\ llt[q] = NextPage(q)
  BY AdapterAssumption DEF Written
<1>2. ASSUME NEW n \in 0..LastPage
      PROVE  g[n] = IF n = 0 THEN {Boundary} ELSE Further(g[n - 1])
  <2>1. CASE n = 0
    BY <2>1, AdapterAssumption
  <2>2. CASE n # 0 /\ Boundary + n <= LastPage
    <3>1. g[n] = Boundary..(Boundary + n)
          /\ g[n - 1] = Boundary..(Boundary + n - 1)
      BY <2>2, AdapterAssumption
    <3>2. \A q \in Boundary..(Boundary + n - 1) :
            q \in DOMAIN llt /\ q # EndOfList /\ llt[q] = q + 1
      BY <1>1, <2>2, AdapterAssumption DEF NextPage
    <3>3. Further(Boundary..(Boundary + n - 1)) = Boundary..(Boundary + n)
      <4>1. \A q \in Boundary..(Boundary + n) :
              q # Boundary => q - 1 \in Boundary..(Boundary + n - 1)
                              /\ llt[q - 1] = q
        BY <2>2, <3>2, AdapterAssumption
      <4>2. Boundary \in Boundary..(Boundary + n - 1)
        BY <2>2, AdapterAssumption
      <4>3. \A q \in Boundary..(Boundary + n - 1) :
              /\ q \in Boundary..(Boundary + n)
              /\ llt[q] \in Boundary..(Boundary + n)
        BY <2>2, <3>2, AdapterAssumption
      <4> QED  BY <3>2, <4>1, <4>2, <4>3 DEF Further
    <3> QED  BY <2>2, <3>1, <3>3
  <2>3. CASE Boundary + n > LastPage
    <3>1. g[n] = Boundary..LastPage /\ g[n - 1] = Boundary..LastPage
      <4>1. n \in Nat /\ Boundary \in Nat /\ LastPage \in Nat /\ n # 0
        BY <2>3, AdapterAssumption
      <4>2. n - 1 \in 0..LastPage
        BY <4>1
      <4>3. g[n] = Boundary..LastPage
        BY <2>3, <4>1
      <4>4. CASE Boundary + (n - 1) <= LastPage
        <5>1. Boundary + (n - 1) = LastPage
          BY <2>3, <4>1, <4>4
        <5> QED  BY <4>2, <4>3, <4>4, <5>1
      <4>5. CASE ~(Boundary + (n - 1) <= LastPage)
        BY <4>2, <4>3, <4>5
      <4> QED  BY <4>4, <4>5
    <3>2. \A q \in Boundary..LastPage : llt[q] \in Boundary..LastPage
      BY <1>1, AdapterAssumption DEF NextPage
    <3>3. Further(Boundary..LastPage) = Boundary..LastPage
      BY <3>2 DEF Further
    <3> QED  BY <2>3, <3>1, <3>3, AdapterAssumption
  <2> QED  BY <2>1, <2>2, <2>3, AdapterAssumption
<1>3. g[LastPage] = Boundary..LastPage
  BY AdapterAssumption
<1>4. Follows(g, Boundary)
  <2>1. g = [n \in 0..LastPage |-> g[n]]
    OBVIOUS
  <2> HIDE DEF g
  <2> QED  BY <1>2, <2>1 DEF Follows
<1>5. llt[LastPage] = Boundary
  BY <1>1, AdapterAssumption DEF NextPage
<1> HIDE DEF g
<1> QED  BY <1>3, <1>4, <1>5, Reached

\* A MAC that sends and receives has its pages laid out, whatever became of
\* the sessions before: the transmitter's list covers its pages and ends, the
\* others make up a ring, and no page is in both.
THEOREM LayoutAlwaysWhole == Spec => []LayoutIsWhole
<1>1. LayoutInv => LayoutIsWhole
  <2>1. SUFFICES ASSUME LayoutInv, cr = "txrx"
                 PROVE  bounded /\ Written(LastPage + 1)
    BY ListIsWhole, RingIsWhole DEF LayoutIsWhole
  <2> QED  BY <2>1 DEF LayoutInv
<1> QED  BY <1>1, LayoutInvariant, PTL

-----------------------------------------------------------------------------
\* Division as the page and block arithmetic uses it.
LEMMA Division ==
  ASSUME NEW n \in Nat, NEW d \in Nat \ {0}
  PROVE  /\ n \div d \in Nat /\ n % d \in 0..(d - 1)
         /\ n = d * (n \div d) + (n % d)
OBVIOUS

\* n blocks of length d, one after the other from byte o on.
Row(o, d, n) == {<<o + i * d, d>> : i \in 0..(n - 1)}

\* They cover what lies between their ends.
LEMMA Tiles ==
  ASSUME NEW n \in Nat, NEW d \in Nat \ {0}, NEW o \in Nat
  PROVE  UNION {Bytes(b) : b \in Row(o, d, n)} = o..(o + n * d - 1)
<1> DEFINE S == UNION {Bytes(b) : b \in Row(o, d, n)}
<1> USE DEF Row
<1>1. ASSUME NEW x \in S  PROVE x \in o..(o + n * d - 1)
  <2>1. PICK i \in 0..(n - 1) : x \in (o + i * d)..(o + i * d + d - 1)
    <3>1. PICK i \in 0..(n - 1) : x \in Bytes(<<o + i * d, d>>)
      BY <1>1
    <3> QED  BY <3>1 DEF Bytes
  <2>2. i * d \in Nat /\ i * d + d <= n * d /\ n * d \in Nat
    <3>1. \E k \in Nat : n = i + 1 + k
      <4>1. n - i - 1 \in Nat /\ n = i + 1 + (n - i - 1)
        OBVIOUS
      <4> QED  BY <4>1
    <3>2. PICK k \in Nat : n = i + 1 + k
      BY <3>1
    <3>3. n * d = i * d + d + k * d /\ k * d \in Nat /\ i * d \in Nat
      BY <3>2
    <3> QED  BY <3>3
  <2> QED  BY <2>1, <2>2
<1>2. ASSUME NEW x \in o..(o + n * d - 1)  PROVE x \in S
  <2> DEFINE y == x - o
             i == y \div d
  <2>1. y \in Nat /\ y < n * d /\ x = o + y
    BY <1>2
  <2> HIDE DEF y
  <2>2. i \in Nat /\ y % d \in 0..(d - 1) /\ y = d * i + (y % d)
    BY <2>1, Division
  <2> HIDE DEF i
  <2>3. i < n
    <3>1. SUFFICES ASSUME i >= n  PROVE FALSE
      BY <2>2
    <3>2. PICK k \in Nat : i = n + k
      <4>1. i - n \in Nat /\ i = n + (i - n)
        BY <2>2, <3>1
      <4> QED  BY <4>1
    <3>3. d * i = n * d + k * d /\ k * d \in Nat
      BY <3>2
    <3> QED  BY <2>1, <2>2, <3>3
  <2>4. x \in (o + i * d)..(o + i * d + d - 1)
    <3>1. d * i = i * d /\ i * d \in Nat
      BY <2>2
    <3> QED  BY <2>1, <2>2, <3>1
  <2>5. x \in Bytes(<<o + i * d, d>>)
    BY <2>4 DEF Bytes
  <2>6. i \in 0..(n - 1)
    BY <2>2, <2>3
  <2> QED  BY <2>5, <2>6
<1> QED  BY <1>1, <1>2

\* Equal blocks are finitely many.
LEMMA TilesFinite ==
  ASSUME NEW n \in Nat, NEW d \in Nat \ {0}, NEW o \in Nat
  PROVE  IsFiniteSet(Row(o, d, n))
<1> DEFINE f == [i \in 0..(n - 1) |-> <<o + i * d, d>>]
<1>1. IsFiniteSet(0..(n - 1))
  BY FS_Interval
<1>2. f \in Surjection(0..(n - 1), Row(o, d, n))
  BY DEF Row, Surjection
<1> HIDE DEF f
<1> QED  BY <1>1, <1>2, FS_Surjection

\* BlockWrite's three loops write every byte of a page.
LEMMA PageFills ==
  ASSUME NEW size \in Nat
  PROVE  /\ UNION {Bytes(b) : b \in PageBlocks(size)} = 0..(size - 1)
         /\ IsFiniteSet(PageBlocks(size))
<1> DEFINE d1 == Blocks[1]
           d2 == Blocks[2]
           n1 == size \div d1
           rest1 == size % d1
           n2 == rest1 \div d2
           rest2 == rest1 % d2
           o2 == n1 * d1
           o3 == o2 + n2 * d2
           B1 == Row(0, d1, n1)
           B2 == Row(o2, d2, n2)
           B3 == Row(o3, 1, rest2)
<1>1. d1 \in Nat \ {0} /\ d2 \in Nat \ {0}
  BY FirmwareAssumption
<1> HIDE DEF d1, d2
<1>2. n1 \in Nat /\ rest1 \in Nat /\ size = d1 * n1 + rest1
  BY <1>1, Division
<1>3. n2 \in Nat /\ rest2 \in Nat /\ rest1 = d2 * n2 + rest2
  BY <1>1, <1>2, Division
<1>4. PageBlocks(size) = B1 \cup B2 \cup B3
  <2>1. {<<i * d1, d1>> : i \in 0..(n1 - 1)} = B1
    <3>1. \A i \in 0..(n1 - 1) : 0 + i * d1 = i * d1
      BY <1>1, <1>2
    <3> QED  BY <3>1 DEF Row
  <2>2. {<<o3 + i, 1>> : i \in 0..(rest2 - 1)} = B3
    <3>1. \A i \in 0..(rest2 - 1) : o3 + i * 1 = o3 + i
      BY <1>1, <1>2, <1>3
    <3> QED  BY <3>1 DEF Row
  <2>3. {<<o2 + i * d2, d2>> : i \in 0..(n2 - 1)} = B2
    BY DEF Row
  <2> HIDE DEF B1, B2, B3
  <2> QED  BY <2>1, <2>2, <2>3 DEF PageBlocks, d1, d2
<1> HIDE DEF n1, rest1, n2, rest2
<1>5. o2 \in Nat /\ o3 \in Nat /\ o2 + rest1 = size /\ o3 + rest2 = size
  <2>1. n1 * d1 \in Nat /\ n2 * d2 \in Nat
        /\ n1 * d1 = d1 * n1 /\ n2 * d2 = d2 * n2
    BY <1>1, <1>2, <1>3
  <2> QED  BY <1>2, <1>3, <2>1
<1>6. /\ UNION {Bytes(b) : b \in B1} = 0..(o2 - 1)
      /\ IsFiniteSet(B1)
  <2>1. 0 \in Nat /\ 0 + n1 * d1 - 1 = n1 * d1 - 1
    BY <1>1, <1>2
  <2> QED  BY <1>1, <1>2, <2>1, Tiles, TilesFinite
<1> HIDE DEF o2
<1>7. /\ UNION {Bytes(b) : b \in B2} = o2..(o3 - 1)
      /\ IsFiniteSet(B2)
  BY <1>1, <1>3, <1>5, Tiles, TilesFinite
<1> HIDE DEF o3
<1>8. /\ UNION {Bytes(b) : b \in B3} = o3..(size - 1)
      /\ IsFiniteSet(B3)
  <2>1. 1 \in Nat \ {0} /\ o3 + rest2 * 1 - 1 = size - 1
    BY <1>3, <1>5
  <2>2. UNION {Bytes(b) : b \in Row(o3, 1, rest2)} = o3..(o3 + rest2 * 1 - 1)
    BY <1>3, <1>5, <2>1, Tiles
  <2>3. IsFiniteSet(Row(o3, 1, rest2))
    BY <1>3, <1>5, <2>1, TilesFinite
  <2> QED  BY <2>1, <2>2, <2>3
<1> HIDE DEF B1, B2, B3
<1>9. UNION {Bytes(b) : b \in B1 \cup B2 \cup B3} =
        0..(o2 - 1) \cup o2..(o3 - 1) \cup o3..(size - 1)
  BY <1>6, <1>7, <1>8
<1>10. o2 <= o3 /\ o3 <= size
  BY <1>1, <1>3, <1>5 DEF o3
<1>11. 0..(o2 - 1) \cup o2..(o3 - 1) \cup o3..(size - 1) = 0..(size - 1)
  BY <1>5, <1>10
<1>12. IsFiniteSet(B1 \cup B2 \cup B3)
  BY <1>6, <1>7, <1>8, FS_Union
<1> QED  BY <1>4, <1>9, <1>11, <1>12

\* A page, once written, is the next part of the image; after the last one
\* there is nothing more.
LEMMA PageIsNext ==
  ASSUME NEW n \in 0..Pages
  PROVE  /\ PageLen(n) \in Nat
         /\ UpTo(n) \cup {n * PageSize + o : o \in 0..(PageLen(n) - 1)} =
              UpTo(n + 1)
<1>1. /\ Pages \in Nat /\ Size % PageSize \in 0..(PageSize - 1)
      /\ Size = PageSize * Pages + (Size % PageSize)
  BY FirmwareAssumption, Division DEF Pages
<1>2. Size \in Nat /\ PageSize \in Nat \ {0} /\ n \in Nat /\ n <= Pages
  BY <1>1, FirmwareAssumption
<1>3. PageLen(n) \in Nat
  BY <1>1, <1>2 DEF PageLen
<1>4. /\ n * PageSize \in Nat /\ (n + 1) * PageSize = n * PageSize + PageSize
      /\ n * PageSize + PageLen(n) <= Size /\ PageLen(n) <= PageSize
      /\ PageLen(n) = PageSize \/ n * PageSize + PageLen(n) = Size
  <2>1. CASE n = Pages
    <3>1. PageLen(n) = Size % PageSize
      BY <1>2, <2>1 DEF PageLen
    <3>2. n * PageSize = PageSize * Pages /\ n * PageSize \in Nat
      BY <1>2, <2>1
    <3>3. (n + 1) * PageSize = n * PageSize + PageSize
      BY <1>2
    <3> QED  BY <1>1, <1>2, <3>1, <3>2, <3>3
  <2>2. CASE n < Pages
    <3>1. PageLen(n) = PageSize
      BY <2>2 DEF PageLen
    <3>2. PICK k \in Nat : Pages = n + 1 + k
      <4>1. Pages - n - 1 \in Nat /\ Pages = n + 1 + (Pages - n - 1)
        BY <1>1, <1>2, <2>2
      <4> QED  BY <4>1
    <3>3. /\ PageSize * Pages = n * PageSize + PageSize + k * PageSize
          /\ k * PageSize \in Nat /\ n * PageSize \in Nat
          /\ (n + 1) * PageSize = n * PageSize + PageSize
      BY <1>2, <3>2
    <3> QED  BY <1>1, <1>2, <3>1, <3>3
  <2> QED  BY <1>1, <1>2, <2>1, <2>2
<1> DEFINE at == n * PageSize
           len == PageLen(n)
           new == {at + o : o \in 0..(len - 1)}
<1>5. /\ at \in Nat /\ len \in Nat /\ at + len <= Size /\ len <= PageSize
      /\ (n + 1) * PageSize = at + PageSize
      /\ len = PageSize \/ at + len = Size
  BY <1>3, <1>4
<1> HIDE DEF at, len
<1>6. new = at..(at + len - 1)
  <2>1. ASSUME NEW x \in at..(at + len - 1)  PROVE x \in new
    <3> DEFINE o == x - at
    <3>1. o \in 0..(len - 1) /\ x = at + o
      BY <1>5
    <3> HIDE DEF o
    <3> QED  BY <3>1
  <2>2. ASSUME NEW x \in new  PROVE x \in at..(at + len - 1)
    BY <1>5, <2>2
  <2> QED  BY <2>1, <2>2
<1> HIDE DEF new
<1>7. UpTo(n) = {x \in 0..(Size - 1) : x < at}
  BY DEF UpTo, Image, at
<1>8. UpTo(n + 1) = {x \in 0..(Size - 1) : x < at + PageSize}
  BY <1>5 DEF UpTo, Image
<1>9. UpTo(n) \cup new = UpTo(n + 1)
  BY <1>2, <1>5, <1>6, <1>7, <1>8
<1> QED  BY <1>3, <1>9 DEF new, at, len

\* After the last page all of the image is in place, before the first none.
LEMMA PagesAreImage ==
  Pages \in Nat /\ UpTo(0) = {} /\ UpTo(Pages + 1) = Image
<1>1. /\ Pages \in Nat /\ Size % PageSize \in 0..(PageSize - 1)
      /\ Size = PageSize * Pages + (Size % PageSize)
  BY FirmwareAssumption, Division DEF Pages
<1>2. Size \in Nat /\ PageSize \in Nat \ {0}
  BY FirmwareAssumption
<1>3. /\ (Pages + 1) * PageSize = PageSize * Pages + PageSize
      /\ 0 * PageSize = 0 /\ PageSize * Pages \in Nat
  BY <1>1, <1>2
<1> HIDE DEF Pages
<1>4. \A x \in Image : x \in Nat /\ x < Size
  BY <1>2 DEF Image
<1>5. \A x \in Image : ~(x < 0 * PageSize) /\ x < (Pages + 1) * PageSize
  BY <1>1, <1>2, <1>3, <1>4
<1> QED  BY <1>1, <1>5 DEF UpTo

\* A page that has bytes is selected by its own number.
LEMMA PageIsSelected ==
  ASSUME NEW n \in 0..Pages
  PROVE  PageLen(n) = 0 \/ n % 8 = n
<1>1. /\ Pages \in Nat /\ Size % PageSize \in Nat
      /\ Size = PageSize * Pages + (Size % PageSize)
  BY FirmwareAssumption, Division DEF Pages
<1>2. Size \in Nat /\ PageSize \in Nat \ {0} /\ Size <= 8 * PageSize
  BY FirmwareAssumption
<1>3. n \in 0..7 => n % 8 = n
  OBVIOUS
<1>4. ASSUME NEW k \in Nat, Pages = 8 + k
      PROVE  k = 0 /\ Size % PageSize = 0
  <2>1. PageSize * Pages = 8 * PageSize + PageSize * k /\ PageSize * k \in Nat
    BY <1>2, <1>4
  <2>2. PageSize * k = 0
    BY <1>1, <1>2, <2>1
  <2>3. k = 0
    BY <1>2, <2>2
  <2> QED  BY <1>1, <1>2, <2>1, <2>2, <2>3
<1>5. CASE Pages <= 7
  BY <1>1, <1>3, <1>5
<1>6. CASE ~(Pages <= 7)
  <2>1. Pages - 8 \in Nat /\ Pages = 8 + (Pages - 8)
    BY <1>1, <1>6
  <2>2. Pages - 8 = 0 /\ Size % PageSize = 0
    BY <1>4, <2>1
  <2>3. Pages = 8
    BY <1>1, <2>2
  <2>4. n = 8 => PageLen(n) = 0
    BY <2>2, <2>3 DEF PageLen
  <2> QED  BY <1>3, <2>3, <2>4
<1> QED  BY <1>5, <1>6

\* _PageWrite_8812A places nothing but its page, and all of it if no block is
\* lost.
LEMMA WritePagePlaces ==
  ASSUME Placing, WritePage
  PROVE  Placing'
<1>1. page \in 0..Pages /\ Pages \in Nat
  BY FirmwareAssumption, Division DEF Placing, WritePage, Pages
<1> DEFINE B == PageBlocks(PageLen(page))
<1>2. PICK gone \in SUBSET B :
        /\ lost + Cardinality(gone) <= MaxLost
        /\ lost' = lost + Cardinality(gone)
        /\ ram' = ram \cup {(page % 8) * PageSize + o : o \in
                    UNION {Bytes(b) : b \in B \ gone}}
  BY DEF WritePage
<1>3. /\ fwStep' = fwStep /\ fwStep = "write" /\ page' = page + 1
  BY DEF WritePage
<1>4. PageLen(page) \in Nat
  BY <1>1, PageIsNext
<1>5. /\ UNION {Bytes(b) : b \in B} = 0..(PageLen(page) - 1)
      /\ IsFiniteSet(B)
  BY <1>4, PageFills
<1>6. Cardinality(gone) \in Nat /\ (Cardinality(gone) = 0 => gone = {})
  BY <1>5, FS_Subset, FS_CardinalityType, FS_EmptySet
<1> HIDE DEF B
<1> DEFINE whole == {page * PageSize + o : o \in 0..(PageLen(page) - 1)}
<1>7. UpTo(page) \cup whole = UpTo(page + 1)
  BY <1>1, PageIsNext
<1> DEFINE came == UNION {Bytes(b) : b \in B \ gone}
<1>14. came \subseteq 0..(PageLen(page) - 1)
  BY <1>5
<1>15. gone = {} => came = 0..(PageLen(page) - 1)
  <2>1. gone = {} => B \ gone = B
    OBVIOUS
  <2> QED  BY <1>5, <2>1
<1>16. ram' = ram \cup {(page % 8) * PageSize + o : o \in came}
  BY <1>2
<1> HIDE DEF came
<1>17. ram' = ram \cup {page * PageSize + o : o \in came}
  <2>1. CASE PageLen(page) = 0
    <3>1. came = {}
      BY <1>14, <2>1
    <3> QED  BY <1>16, <3>1
  <2>2. CASE page % 8 = page
    BY <1>16, <2>2
  <2> QED  BY <1>1, <2>1, <2>2, PageIsSelected
<1>8. ram' \subseteq ram \cup whole
  BY <1>14, <1>17
<1>9. gone = {} => ram' = ram \cup whole
  BY <1>15, <1>17
<1>10. ram' \subseteq Image
  BY <1>7, <1>8 DEF Placing, UpTo
<1>11. lost' \in 0..MaxLost /\ (lost' = 0 => lost = 0 /\ gone = {})
  BY <1>2, <1>6, FirmwareAssumption DEF Placing
<1>12. page' \in 0..(Pages + 1)
  BY <1>1, <1>3
<1>13. lost' = 0 => UpTo(page') \subseteq ram'
  BY <1>3, <1>7, <1>9, <1>11 DEF Placing
<1> QED  BY <1>3, <1>10, <1>11, <1>12, <1>13 DEF Placing, UpTo

\* One step of the download places what it should.
LEMMA DownloadPlaces ==
  ASSUME Placing, DownloadFirmware
  PROVE  Placing'
<1>1. 0 \in 0..(Pages + 1) /\ UpTo(0) = {} /\ UpTo(Pages + 1) = Image
  BY PagesAreImage
<1>3. FirmwareNext
  BY DEF DownloadFirmware
<1>4. CASE StartDownload  BY <1>4 DEF StartDownload, Placing
<1>5. CASE Attempt  BY <1>1, <1>5 DEF Attempt, Placing
<1>6. CASE WritePage  BY <1>6, WritePagePlaces
<1>7. CASE WriteEnds
  <2>1. /\ page = Pages + 1 /\ page' = page /\ lost' = lost /\ ram' = ram
        /\ fwStep = "write" /\ fwStep' = "poll"
    BY <1>7, FirmwareAssumption, Division DEF WriteEnds, Placing, Pages
  <2> QED  BY <1>1, <2>1 DEF Placing
<1>8. CASE ChecksumOk  BY <1>8 DEF ChecksumOk, Placing
<1>9. CASE ChecksumLate  BY <1>9 DEF ChecksumLate, Placing
<1>10. CASE FreeToGo  BY <1>10 DEF FreeToGo, Placing
<1>11. CASE ReportsLate  BY <1>11 DEF ReportsLate, Placing
<1> QED  BY <1>3, <1>4, <1>5, <1>6, <1>7, <1>8, <1>9, <1>10, <1>11
         DEF FirmwareNext

\* Outside the download nothing of the image is written.
LEMMA PlacingStep ==
  ASSUME FirmwareInv, Placing, [Next]_vars
  PROVE  Placing'
<1> USE DEF fwVars
<1>1. CASE UNCHANGED <<ram, fwStep, page, lost>>
  BY <1>1 DEF Placing
<1>2. CASE Open  BY <1>1, <1>2 DEF Open
<1>3. CASE ReadEfuse  BY <1>1, <1>3 DEF ReadEfuse
<1>4. CASE HwReset  BY <1>1, <1>4 DEF HwReset
<1>5. CASE PowerOn  BY <1>1, <1>5 DEF PowerOn
<1>6. CASE WritePageEntry  BY <1>1, <1>6 DEF WritePageEntry
<1>7. CASE DownloadFirmware  BY <1>7, DownloadPlaces
<1>8. CASE FirmwareReports
  BY <1>1, <1>8 DEF FirmwareReports, ReportsLate
<1>9. CASE ConfigMac  BY <1>1, <1>9 DEF ConfigMac
<1>10. CASE InitPageBoundary  BY <1>1, <1>10 DEF InitPageBoundary
<1>11. CASE EnableMac  BY <1>1, <1>11 DEF EnableMac
<1>12. CASE ConfigBBAndRF  BY <1>1, <1>12 DEF ConfigBBAndRF
<1>13. CASE ReadOnce  BY <1>1, <1>13 DEF ReadOnce
<1>14. CASE LoopAgain  BY <1>1, <1>14 DEF LoopAgain
<1>15. CASE EndSession
  <2>1. 0 \in 0..(Pages + 1) /\ 0 \in 0..MaxLost
    BY FirmwareAssumption, PagesAreImage
  <2> QED  BY <1>15, <2>1 DEF EndSession, ForgetFirmware, Placing
<1>16. CASE Unplug
  <2>1. fwStep' = "off" /\ ram' = {} /\ page' = page /\ lost' = lost
    BY <1>16 DEF Unplug, FirmwareInv, DownloadInPhase
  <2> QED  BY <2>1 DEF Placing
<1>17. CASE UNCHANGED vars  BY <1>1, <1>17 DEF vars
<1> QED  BY <1>2, <1>3, <1>4, <1>5, <1>6, <1>7, <1>8, <1>9, <1>10, <1>11,
            <1>12, <1>13, <1>14, <1>15, <1>16, <1>17 DEF Next

\* Placing holds in every reachable state.
LEMMA PlacingInvariant == Spec => []Placing
<1>1. Init => Placing
  <2>1. 0 \in 0..(Pages + 1) /\ 0 \in 0..MaxLost
    BY FirmwareAssumption, PagesAreImage
  <2> QED  BY <2>1 DEF Init, FirmwareInit, Placing
<1>2. FirmwareInv /\ Placing /\ [Next]_vars => Placing'
  BY PlacingStep
<1> QED  BY <1>1, <1>2, FirmwareInvariant, PTL DEF Spec

\* The blocks of an attempt that all arrive are the image, however long it
\* is and whatever the sizes of pages and blocks: the three loops of
\* BlockWrite and the last page leave no byte out.
THEOREM BlocksAlwaysImage == Spec => []BlocksAreImage
<1>1. Placing => BlocksAreImage
  BY DEF Placing, BlocksAreImage
<1> QED  BY <1>1, PlacingInvariant, PTL

-----------------------------------------------------------------------------
\* The states of the loop over a table: h has one for each entry.
LoopFollows(h, p, s, t) ==
  h = [i \in 0..Len(t) |-> IF i = 0 THEN s ELSE Entry(p, h[i - 1], t[i])]

\* There is such a function for every table.
LEMMA LoopRuns ==
  ASSUME NEW p, NEW s, NEW t, Len(t) \in Nat
  PROVE  \E h : LoopFollows(h, p, s, t)
<1> DEFINE Upto(h, n) ==
             h = [i \in 0..n |-> IF i = 0 THEN s ELSE Entry(p, h[i - 1], t[i])]
           Has == {n \in Nat : \E h : Upto(h, n)}
<1>1. 0 \in Has
  <2>1. Upto([i \in 0..0 |-> s], 0)
    OBVIOUS
  <2> HIDE DEF Upto
  <2> QED  BY <2>1
<1>2. ASSUME NEW n \in Nat, n \in Has  PROVE n + 1 \in Has
  <2>1. PICK h : Upto(h, n)
    BY <1>2
  <2> DEFINE last == Entry(p, h[n], t[n + 1])
             g == [i \in 0..(n + 1) |-> IF i = n + 1 THEN last ELSE h[i]]
  <2> HIDE DEF last
  <2>2. ASSUME NEW i \in 0..(n + 1)
        PROVE  g[i] = IF i = 0 THEN s ELSE Entry(p, g[i - 1], t[i])
    <3>1. CASE i = n + 1
      <4>1. g[i] = last /\ g[i - 1] = h[n] /\ i # 0
        BY <3>1
      <4> QED  BY <3>1, <4>1 DEF last
    <3>2. CASE i # n + 1
      <4>1. i \in 0..n /\ g[i] = h[i]
        BY <3>2
      <4>2. h[i] = IF i = 0 THEN s ELSE Entry(p, h[i - 1], t[i])
        BY <2>1, <4>1
      <4>3. i # 0 => g[i - 1] = h[i - 1]
        BY <3>2
      <4> HIDE DEF g
      <4> QED  BY <4>1, <4>2, <4>3
    <3> QED  BY <3>1, <3>2
  <2>3. g = [i \in 0..(n + 1) |-> g[i]]
    OBVIOUS
  <2> HIDE DEF g
  <2>4. Upto(g, n + 1)
    BY <2>2, <2>3
  <2> QED  BY <2>4
<1>3. Len(t) \in Has
  <2> HIDE DEF Has
  <2> QED  BY <1>1, <1>2, Induction
<1> QED  BY <1>3 DEF LoopFollows

\* The loop ends where any such function does.
LEMMA LoopReaches ==
  ASSUME NEW p, NEW s, NEW t, Len(t) \in Nat, NEW g, LoopFollows(g, p, s, t)
  PROVE  Loop(p, s, t) = g[Len(t)]
<1> DEFINE f == CHOOSE h : LoopFollows(h, p, s, t)
           Same == {n \in Nat : n <= Len(t) => f[n] = g[n]}
<1>1. LoopFollows(f, p, s, t)
  OBVIOUS
<1>2. Loop(p, s, t) = f[Len(t)]
  BY DEF Loop, LoopFollows
<1> HIDE DEF f
<1>3. 0 \in Same
  BY <1>1 DEF LoopFollows
<1>4. ASSUME NEW n \in Nat, n \in Same  PROVE n + 1 \in Same
  <2>1. SUFFICES ASSUME n + 1 <= Len(t)  PROVE f[n + 1] = g[n + 1]
    OBVIOUS
  <2>2. n + 1 \in 0..Len(t) /\ n + 1 # 0 /\ (n + 1) - 1 = n /\ f[n] = g[n]
    BY <1>4, <2>1
  <2>3. f[n + 1] = Entry(p, f[n], t[n + 1])
    BY <1>1, <2>2 DEF LoopFollows
  <2>4. g[n + 1] = Entry(p, g[n], t[n + 1])
    BY <2>2 DEF LoopFollows
  <2> QED  BY <2>2, <2>3, <2>4
<1>5. Len(t) \in Same
  <2> HIDE DEF Same
  <2> QED  BY <1>3, <1>4, Induction
<1> QED  BY <1>2, <1>5

\* No entry changes nothing, one entry is one round.
LEMMA LoopOne ==
  ASSUME NEW p, NEW s, NEW e
  PROVE  Loop(p, s, <<>>) = s /\ Loop(p, s, <<e>>) = Entry(p, s, e)
<1>1. Len(<<>>) = 0 /\ Len(<<e>>) = 1 /\ <<e>>[1] = e
  OBVIOUS
<1> DEFINE g == [i \in 0..0 |-> s]
           h == [i \in 0..1 |-> IF i = 0 THEN s ELSE Entry(p, s, e)]
<1>2. LoopFollows(g, p, s, <<>>)
  BY <1>1 DEF LoopFollows
<1>3. LoopFollows(h, p, s, <<e>>)
  <2>1. h[0] = s /\ h[1] = Entry(p, h[0], <<e>>[1])
    BY <1>1
  <2>2. h = [i \in 0..1 |-> h[i]]
    OBVIOUS
  <2> HIDE DEF h
  <2>3. \A i \in 0..1 :
          h[i] = IF i = 0 THEN s ELSE Entry(p, h[i - 1], <<e>>[i])
    BY <2>1
  <2> QED  BY <1>1, <2>2, <2>3 DEF LoopFollows
<1>4. Loop(p, s, <<>>) = g[0]
  <2> HIDE DEF g
  <2> QED  BY <1>1, <1>2, LoopReaches
<1>5. Loop(p, s, <<e>>) = h[1]
  <2> HIDE DEF h
  <2> QED  BY <1>1, <1>3, LoopReaches
<1> QED  BY <1>4, <1>5

\* A table in two parts is read part by part.
LEMMA LoopParts ==
  ASSUME NEW E, NEW t \in Seq(E), NEW u \in Seq(E), NEW p, NEW s
  PROVE  Loop(p, s, t \o u) = Loop(p, Loop(p, s, t), u)
<1> DEFINE m == Len(t)
           n == Len(u)
           r == Loop(p, s, t)
<1>1. m \in Nat /\ n \in Nat /\ Len(t \o u) = m + n
  OBVIOUS
<1>2. PICK f : LoopFollows(f, p, s, t)
  BY <1>1, LoopRuns
<1>3. r = f[m]
  BY <1>1, <1>2, LoopReaches
<1> HIDE DEF r
<1>4. PICK g : LoopFollows(g, p, r, u)
  BY <1>1, LoopRuns
<1>5. Loop(p, r, u) = g[n]
  BY <1>1, <1>4, LoopReaches
<1> DEFINE h == [i \in 0..(m + n) |-> IF i <= m THEN f[i] ELSE g[i - m]]
<1>6. ASSUME NEW i \in 0..(m + n)
      PROVE  h[i] = IF i = 0 THEN s ELSE Entry(p, h[i - 1], (t \o u)[i])
  <2>1. CASE i = 0
    <3>1. 0 <= m /\ h[0] = f[0] /\ f[0] = s
      BY <1>1, <1>2 DEF LoopFollows
    <3> HIDE DEF h
    <3> QED  BY <2>1, <3>1
  <2>2. CASE i # 0 /\ i <= m
    <3>1. i \in 0..m /\ h[i] = f[i] /\ h[i - 1] = f[i - 1]
      BY <1>1, <2>2
    <3>2. (t \o u)[i] = t[i]
      BY <1>1, <2>2
    <3>3. f[i] = Entry(p, f[i - 1], t[i])
      BY <1>2, <2>2, <3>1 DEF LoopFollows
    <3> HIDE DEF h
    <3> QED  BY <2>2, <3>1, <3>2, <3>3
  <2>3. CASE i > m
    <3>1. i - m \in 1..n /\ h[i] = g[i - m] /\ (i - m) - 1 = (i - 1) - m
      BY <1>1, <2>3
    <3>2. (t \o u)[i] = u[i - m]
      BY <1>1, <2>3, <3>1
    <3>3. g[i - m] = Entry(p, g[(i - m) - 1], u[i - m])
      <4>1. \A k \in 0..Len(u) :
              g[k] = IF k = 0 THEN r ELSE Entry(p, g[k - 1], u[k])
        BY <1>4 DEF LoopFollows
      <4>2. i - m \in 0..Len(u) /\ i - m # 0
        BY <1>1, <3>1
      <4> QED  BY <4>1, <4>2
    <3>4. h[i - 1] = g[(i - m) - 1]
      <4>1. CASE i - 1 = m
        <5>1. h[i - 1] = f[m]
          BY <1>1, <4>1
        <5>2. g[0] = r
          BY <1>1, <1>4 DEF LoopFollows
        <5> QED  BY <1>1, <1>3, <4>1, <5>1, <5>2
      <4>2. CASE i - 1 # m
        <5>1. i - 1 \in 0..(m + n) /\ ~(i - 1 <= m)
          BY <1>1, <2>3, <4>2
        <5>2. h[i - 1] = g[(i - 1) - m]
          BY <5>1
        <5> QED  BY <3>1, <5>2
      <4> QED  BY <4>1, <4>2
    <3>5. i # 0
      BY <1>1, <2>3
    <3> HIDE DEF h
    <3> QED  BY <3>1, <3>2, <3>3, <3>4, <3>5
  <2> QED  BY <1>1, <2>1, <2>2, <2>3
<1>7. LoopFollows(h, p, s, t \o u)
  <2>1. h = [i \in 0..(m + n) |-> h[i]]
    OBVIOUS
  <2> HIDE DEF h
  <2> QED  BY <1>1, <1>6, <2>1 DEF LoopFollows
<1>8. h[m + n] = g[n]
  <2>1. CASE n = 0
    <3>1. h[m + n] = f[m]
      BY <1>1, <2>1
    <3>2. g[0] = r
      BY <1>1, <1>4 DEF LoopFollows
    <3> QED  BY <1>3, <2>1, <3>1, <3>2
  <2>2. CASE n # 0
    BY <1>1, <2>2
  <2> QED  BY <2>1, <2>2
<1>9. Loop(p, s, t \o u) = h[m + n]
  <2> DEFINE tu == t \o u
  <2>1. Len(tu) \in Nat /\ Len(tu) = m + n /\ LoopFollows(h, p, s, tu)
    BY <1>1, <1>7
  <2> HIDE DEF h, tu, m, n
  <2>2. Loop(p, s, tu) = h[Len(tu)]
    BY <2>1, LoopReaches
  <2> QED  BY <2>1, <2>2 DEF tu
<1> QED  BY <1>5, <1>8, <1>9 DEF r

\* The sequences that FlattenSeq puts together: g has one for each part.
FlattenFollows(g, n, ss) ==
  g = [i \in 1..n |-> IF i = 1 THEN ss[i] ELSE g[i - 1] \o ss[i]]

\* There is such a function for all parts of a sequence.
LEMMA FlattenRuns ==
  ASSUME NEW ss, Len(ss) \in Nat
  PROVE  \E g : FlattenFollows(g, Len(ss), ss)
<1> DEFINE Has == {n \in Nat : \E g : FlattenFollows(g, n, ss)}
<1>1. 0 \in Has
  <2> DEFINE h == [i \in 1..0 |-> ss[i]]
  <2>1. FlattenFollows(h, 0, ss)
    BY DEF FlattenFollows
  <2> QED  BY <2>1
<1>2. ASSUME NEW n \in Nat, n \in Has  PROVE n + 1 \in Has
  <2>1. PICK g : FlattenFollows(g, n, ss)
    BY <1>2
  <2> DEFINE last == IF n = 0 THEN ss[1] ELSE g[n] \o ss[n + 1]
             h == [i \in 1..(n + 1) |-> IF i = n + 1 THEN last ELSE g[i]]
  <2> HIDE DEF last
  <2>2. ASSUME NEW i \in 1..(n + 1)
        PROVE  h[i] = IF i = 1 THEN ss[i] ELSE h[i - 1] \o ss[i]
    <3>1. CASE i = n + 1
      <4>1. h[i] = last /\ (n # 0 => h[i - 1] = g[n])
        BY <3>1
      <4> HIDE DEF h
      <4> QED  BY <3>1, <4>1 DEF last
    <3>2. CASE i # n + 1
      <4>1. i \in 1..n /\ h[i] = g[i] /\ (i # 1 => h[i - 1] = g[i - 1])
        BY <3>2
      <4>2. g[i] = IF i = 1 THEN ss[i] ELSE g[i - 1] \o ss[i]
        BY <2>1, <4>1 DEF FlattenFollows
      <4> HIDE DEF h
      <4> QED  BY <4>1, <4>2
    <3> QED  BY <3>1, <3>2
  <2>3. h = [i \in 1..(n + 1) |-> h[i]]
    OBVIOUS
  <2> HIDE DEF h
  <2>4. FlattenFollows(h, n + 1, ss)
    BY <2>2, <2>3 DEF FlattenFollows
  <2> QED  BY <2>4
<1>3. Len(ss) \in Has
  <2> HIDE DEF Has
  <2> QED  BY <1>1, <1>2, Induction
<1> QED  BY <1>3

\* What the first i of the sequences ss make up, for every i.
Flattens(f, E, ss) ==
  /\ f \in [0..Len(ss) -> Seq(E)] /\ f[0] = <<>>
  /\ \A i \in 1..Len(ss) : f[i] = f[i - 1] \o ss[i]

\* FlattenSeq puts sequences one after the other.
LEMMA Flattened ==
  ASSUME NEW E, NEW ss \in Seq(Seq(E))
  PROVE  \E f : Flattens(f, E, ss) /\ FlattenSeq(ss) = f[Len(ss)]
<1> DEFINE n == Len(ss)
           g == CHOOSE h : FlattenFollows(h, n, ss)
           f == [i \in 0..n |-> IF i = 0 THEN <<>> ELSE g[i]]
           Typed == {i \in Nat : i <= n => f[i] \in Seq(E)}
<1>1. n \in Nat /\ \A i \in 1..n : ss[i] \in Seq(E)
  OBVIOUS
<1>2. FlattenFollows(g, n, ss)
  <2>1. \E h : FlattenFollows(h, n, ss)
    BY <1>1, FlattenRuns
  <2> HIDE DEF n
  <2> QED  BY <2>1
<1>3. FlattenSeq(ss) = f[n]
  <2>1. CASE n = 0
    <3>1. FlattenSeq(ss) = ss /\ ss = <<>>
      BY <2>1 DEF FlattenSeq
    <3> QED  BY <2>1, <3>1
  <2>2. CASE n # 0
    <3>1. FlattenSeq(ss) = g[n]
      BY <2>2 DEF FlattenSeq, FlattenFollows
    <3> HIDE DEF g
    <3> QED  BY <1>1, <2>2, <3>1
  <2> QED  BY <2>1, <2>2
<1> HIDE DEF g
<1>4. ASSUME NEW i \in 1..n  PROVE f[i] = f[i - 1] \o ss[i]
  <2>1. f[i] = g[i] /\ (i # 1 => f[i - 1] = g[i - 1])
    BY <1>1
  <2>2. g[i] = IF i = 1 THEN ss[i] ELSE g[i - 1] \o ss[i]
    BY <1>2 DEF FlattenFollows
  <2>3. i = 1 => f[i - 1] = <<>> /\ <<>> \o ss[i] = ss[i]
    BY <1>1
  <2> HIDE DEF f
  <2> QED  BY <2>1, <2>2, <2>3
<1>5. f[0] = <<>>
  BY <1>1
<1>6. f = [i \in 0..n |-> f[i]]
  OBVIOUS
<1> HIDE DEF f
<1>7. 0 \in Typed
  <2>1. <<>> \in Seq(E)
    OBVIOUS
  <2>2. f[0] \in Seq(E)
    BY <1>5, <2>1
  <2> QED  BY <2>2
<1>8. ASSUME NEW i \in Nat, i \in Typed  PROVE i + 1 \in Typed
  <2>1. SUFFICES ASSUME i + 1 <= n  PROVE f[i + 1] \in Seq(E)
    OBVIOUS
  <2>2. i + 1 \in 1..n /\ (i + 1) - 1 = i /\ f[i] \in Seq(E)
    BY <1>1, <1>8, <2>1
  <2>3. f[i + 1] = f[i] \o ss[i + 1] /\ ss[i + 1] \in Seq(E)
    BY <1>1, <1>4, <2>2
  <2> QED  BY <2>2, <2>3
<1>9. \A i \in 0..n : f[i] \in Seq(E)
  <2>1. \A i \in Nat : i \in Typed
    <3> HIDE DEF Typed
    <3> QED  BY <1>7, <1>8, Induction
  <2> QED  BY <1>1, <2>1
<1> QED  BY <1>3, <1>4, <1>5, <1>6, <1>9 DEF Flattens

\* A state of the loop, member by member.
Round(m, k, c, w) ==
  [matched |-> m, skipped |-> k, pre |-> c, written |-> w]

\* One entry of each kind.
LEMMA WhenRound ==
  ASSUME NEW p, NEW s, NEW d
  PROVE  Entry(p, s, [op |-> "when", cond |-> d]) = [s EXCEPT !.pre = d]
<1> DEFINE e == [op |-> "when", cond |-> d]
<1>1. e.op = "when" /\ e.cond = d
  OBVIOUS
<1> HIDE DEF e
<1>2. Entry(p, s, e) = [s EXCEPT !.pre = d]
  BY <1>1 DEF Entry
<1> QED  BY <1>2 DEF e

\* A condition is tested unless an arm before was taken.
LEMMA TestRound ==
  ASSUME NEW p, NEW s
  PROVE  /\ s.skipped => Entry(p, s, [op |-> "test"]) =
                           [s EXCEPT !.matched = FALSE]
         /\ ~s.skipped => Entry(p, s, [op |-> "test"]) =
                            [s EXCEPT !.matched = CheckPositive(p, s.pre),
                                      !.skipped = CheckPositive(p, s.pre)]
<1> DEFINE e == [op |-> "test"]
<1>1. e.op = "test"
  OBVIOUS
<1> HIDE DEF e
<1>2. s.skipped => Entry(p, s, e) = [s EXCEPT !.matched = FALSE]
  BY <1>1 DEF Entry
<1>3. ~s.skipped => Entry(p, s, e) =
                      [s EXCEPT !.matched = CheckPositive(p, s.pre),
                                !.skipped = CheckPositive(p, s.pre)]
  BY <1>1 DEF Entry
<1> QED  BY <1>2, <1>3 DEF e

\* An else, and the end of a chain.
LEMMA ElseEndifRound ==
  ASSUME NEW p, NEW s
  PROVE  /\ Entry(p, s, [op |-> "else"]) = [s EXCEPT !.matched = ~s.skipped]
         /\ Entry(p, s, [op |-> "endif"]) =
              [s EXCEPT !.matched = TRUE, !.skipped = FALSE]
<1> DEFINE e == [op |-> "else"]
           f == [op |-> "endif"]
<1>1. e.op = "else" /\ f.op = "endif"
  OBVIOUS
<1> HIDE DEF e, f
<1>2. Entry(p, s, e) = [s EXCEPT !.matched = ~s.skipped]
  BY <1>1 DEF Entry
<1>3. Entry(p, s, f) = [s EXCEPT !.matched = TRUE, !.skipped = FALSE]
  BY <1>1 DEF Entry
<1> QED  BY <1>2, <1>3 DEF e, f

\* A write goes through while the last condition was met, or none is open.
LEMMA WriteRound ==
  ASSUME NEW p, NEW s, NEW x
  PROVE  /\ s.matched => Entry(p, s, [op |-> "write", put |-> x]) =
                           [s EXCEPT !.written = Append(@, x)]
         /\ ~s.matched => Entry(p, s, [op |-> "write", put |-> x]) = s
<1> DEFINE e == [op |-> "write", put |-> x]
<1>1. e.op = "write" /\ e.put = x
  OBVIOUS
<1> HIDE DEF e
<1>2. Entry(p, s, e) = IF s.matched THEN [s EXCEPT !.written = Append(@, x)]
                       ELSE s
  BY <1>1 DEF Entry
<1> QED  BY <1>2 DEF e

\* The first i of the writes ws after w.
Then(w, ws, i) == w \o SubSeq(ws, 1, i)

\* What is written, one more at a time.
LEMMA OneMore ==
  ASSUME NEW X, NEW w \in Seq(X), NEW ws \in Seq(X), NEW i \in 1..Len(ws)
  PROVE  Append(Then(w, ws, i - 1), ws[i]) = Then(w, ws, i)
<1>1. SubSeq(ws, 1, i - 1) \in Seq(X) /\ Len(SubSeq(ws, 1, i - 1)) = i - 1
  OBVIOUS
<1>2. SubSeq(ws, 1, i) \in Seq(X) /\ Len(SubSeq(ws, 1, i)) = i
  OBVIOUS
<1>3. ws[i] \in X
  OBVIOUS
<1>4. Append(w \o SubSeq(ws, 1, i - 1), ws[i]) = w \o SubSeq(ws, 1, i)
  <2> DEFINE a == Append(w \o SubSeq(ws, 1, i - 1), ws[i])
             b == w \o SubSeq(ws, 1, i)
  <2>1. a \in Seq(X) /\ b \in Seq(X)
    BY <1>1, <1>2, <1>3
  <2>2. Len(a) = Len(w) + i /\ Len(b) = Len(w) + i
    BY <1>1, <1>2, <1>3
  <2>3. \A j \in 1..(Len(w) + i) : a[j] = b[j]
    BY <1>1, <1>2, <1>3
  <2> HIDE DEF a, b
  <2>4. a = b
    BY <2>1, <2>2, <2>3
  <2> QED  BY <2>4 DEF a, b
<1> QED  BY <1>4 DEF Then

\* None of them, and all of them.
LEMMA NoneOrAll ==
  ASSUME NEW X, NEW w \in Seq(X), NEW ws \in Seq(X)
  PROVE  Then(w, ws, 0) = w /\ Then(w, ws, Len(ws)) = w \o ws
<1>1. SubSeq(ws, 1, 0) = <<>> /\ SubSeq(ws, 1, Len(ws)) = ws
  OBVIOUS
<1>2. w \o <<>> = w
  OBVIOUS
<1> QED  BY <1>1, <1>2 DEF Then

\* Plain writes are written when the last condition was met, or none is open.
LEMMA LoopWrites ==
  ASSUME NEW p, NEW m \in BOOLEAN, NEW k \in BOOLEAN, NEW c, NEW w \in Puts,
         NEW ws \in Puts
  PROVE  Loop(p, Round(m, k, c, w), Writes(ws)) =
           Round(m, k, c, IF m THEN w \o ws ELSE w)
<1> DEFINE X == Nat \X Nat
           n == Len(ws)
           part(i) == IF m THEN Then(w, ws, i) ELSE w
           g == [i \in 0..n |-> Round(m, k, c, part(i))]
           t == Writes(ws)
<1>1. Len(ws) \in Nat /\ Len(t) = Len(ws) /\ w \in Seq(X) /\ ws \in Seq(X)
  BY DEF Writes, Puts
<1>2. \A i \in 1..n : t[i] = [op |-> "write", put |-> ws[i]]
  BY <1>1 DEF Writes
<1> HIDE DEF X, t, g
<1>3. part(0) = w /\ part(n) = IF m THEN w \o ws ELSE w
  BY <1>1, NoneOrAll
<1>4. ASSUME NEW i \in 1..n
      PROVE  part(i) = IF m THEN Append(part(i - 1), ws[i]) ELSE part(i - 1)
  BY <1>1, OneMore
<1>5. ASSUME NEW i \in 1..n
      PROVE  Entry(p, Round(m, k, c, part(i - 1)), t[i]) =
               Round(m, k, c, part(i))
  <2> DEFINE v == part(i - 1)
             s == Round(m, k, c, v)
             e == [op |-> "write", put |-> ws[i]]
  <2>1. t[i] = e
    BY <1>2
  <2>2. part(i) = IF m THEN Append(v, ws[i]) ELSE v
    BY <1>4
  <2> HIDE DEF part, v, e
  <2>3. CASE m
    <3>1. s.matched
      BY <2>3 DEF Round
    <3>2. Entry(p, s, e) = [s EXCEPT !.written = Append(@, ws[i])]
      <4> HIDE DEF s
      <4> QED  BY <3>1, WriteRound DEF e
    <3>3. Entry(p, s, e) = Round(m, k, c, Append(v, ws[i]))
      BY <3>2 DEF Round
    <3> HIDE DEF s
    <3> QED  BY <2>1, <2>2, <2>3, <3>3 DEF s, v
  <2>4. CASE ~m
    <3>1. ~s.matched
      BY <2>4 DEF Round
    <3>2. Entry(p, s, e) = s
      <4> HIDE DEF s
      <4> QED  BY <3>1, WriteRound DEF e
    <3> QED  BY <2>1, <2>2, <2>4, <3>2 DEF v
  <2> QED  BY <2>3, <2>4
<1> HIDE DEF part
<1>6. ASSUME NEW i \in 0..n
      PROVE  g[i] = IF i = 0 THEN Round(m, k, c, w)
                    ELSE Entry(p, g[i - 1], t[i])
  <2>1. CASE i = 0
    BY <1>1, <1>3, <2>1 DEF g
  <2>2. CASE i # 0
    <3>1. i \in 1..n /\ i - 1 \in 0..n
      BY <1>1, <2>2
    <3>2. /\ g[i] = Round(m, k, c, part(i))
          /\ g[i - 1] = Round(m, k, c, part(i - 1))
      BY <3>1 DEF g
    <3> QED  BY <1>5, <2>2, <3>1, <3>2
  <2> QED  BY <2>1, <2>2
<1>7. LoopFollows(g, p, Round(m, k, c, w), t)
  <2>1. g = [i \in 0..n |-> g[i]]
    BY DEF g
  <2> QED  BY <1>1, <1>6, <2>1 DEF LoopFollows
<1>8. g[n] = Round(m, k, c, part(n))
  BY <1>1 DEF g
<1>9. Loop(p, Round(m, k, c, w), t) = g[Len(t)]
  BY <1>1, <1>7, LoopReaches
<1> QED  BY <1>1, <1>3, <1>8, <1>9 DEF t

-----------------------------------------------------------------------------
\* What a table is made of.
Entries ==
  {[op |-> "when", cond |-> c] : c \in Conditions}
    \cup {[op |-> "test"], [op |-> "else"], [op |-> "endif"]}
    \cup {[op |-> "write", put |-> x] : x \in Nat \X Nat}

\* The arms of a chain, each a condition and the writes under it.
Arms == Conditions \X Puts

\* Arms and writes are sequences of them.
LEMMA PartsAreEntries ==
  /\ \A ws \in Puts : Writes(ws) \in Seq(Entries)
  /\ \A a \in Arms : Arm(a) \in Seq(Entries)
<1>1. ASSUME NEW ws \in Puts  PROVE Writes(ws) \in Seq(Entries)
  <2>1. \A i \in 1..Len(ws) : ws[i] \in Nat \X Nat
    BY DEF Puts
  <2>2. \A i \in 1..Len(ws) : [op |-> "write", put |-> ws[i]] \in Entries
    BY <2>1 DEF Entries
  <2>3. DOMAIN ws = 1..Len(ws) /\ Len(ws) \in Nat
    BY DEF Puts
  <2> QED  BY <2>2, <2>3 DEF Writes
<1>2. ASSUME NEW a \in Arms  PROVE Arm(a) \in Seq(Entries)
  <2>1. a[1] \in Conditions /\ a[2] \in Puts
    BY DEF Arms
  <2> DEFINE e == [op |-> "when", cond |-> a[1]]
             f == [op |-> "test"]
  <2>2. e \in Entries /\ f \in Entries
    BY <2>1 DEF Entries
  <2> HIDE DEF e, f
  <2>3. <<e, f>> \in Seq(Entries)
    BY <2>2
  <2>4. Writes(a[2]) \in Seq(Entries)
    BY <1>1, <2>1
  <2> QED  BY <2>3, <2>4 DEF Arm, e, f
<1> QED  BY <1>1, <1>2

\* Before and after an arm: w is written, and no arm was taken yet, or one.
Testing(s, w) == \E m \in BOOLEAN : \E c : s = Round(m, FALSE, c, w)
Skipping(s, w) == \E m \in BOOLEAN : \E c : s = Round(m, TRUE, c, w)

\* An arm is a condition, its test, and writes.
LEMMA LoopArm ==
  ASSUME NEW p, NEW s, NEW a \in Arms
  PROVE  Loop(p, s, Arm(a)) =
           Loop(p, Entry(p, [s EXCEPT !.pre = a[1]], [op |-> "test"]),
                Writes(a[2]))
<1> DEFINE e == [op |-> "when", cond |-> a[1]]
           f == [op |-> "test"]
           W == Writes(a[2])
           s1 == [s EXCEPT !.pre = a[1]]
           s2 == Entry(p, s1, f)
<1>1. a[1] \in Conditions /\ a[2] \in Puts
  BY DEF Arms
<1>2. e \in Entries /\ f \in Entries /\ W \in Seq(Entries)
  BY <1>1, PartsAreEntries DEF Entries
<1>3. Arm(a) = (<<e>> \o <<f>>) \o W
  <2> HIDE DEF e, f, W
  <2>1. <<e>> \in Seq(Entries) /\ <<f>> \in Seq(Entries)
        /\ <<e, f>> \in Seq(Entries)
    BY <1>2
  <2>2. /\ Len(<<e>> \o <<f>>) = 2
        /\ (<<e>> \o <<f>>)[1] = e /\ (<<e>> \o <<f>>)[2] = f
        /\ <<e>> \o <<f>> \in Seq(Entries)
    BY <2>1
  <2>3. <<e, f>> = <<e>> \o <<f>>
    <3> DEFINE u == <<e, f>>
               v == <<e>> \o <<f>>
    <3>1. /\ u \in Seq(Entries) /\ v \in Seq(Entries)
          /\ Len(u) = 2 /\ Len(v) = 2
          /\ u[1] = e /\ u[2] = f /\ v[1] = e /\ v[2] = f
      BY <2>1, <2>2
    <3> HIDE DEF u, v
    <3>2. \A i \in 1..2 : u[i] = v[i]
      BY <3>1
    <3>3. u = v
      BY <3>1, <3>2, SeqEqual
    <3> QED  BY <3>3 DEF u, v
  <2> QED  BY <2>3 DEF Arm, e, f, W
<1>4. Entry(p, s, e) = s1
  BY WhenRound
<1> HIDE DEF e, f, W, s1
<1>5. <<e>> \in Seq(Entries) /\ <<f>> \in Seq(Entries)
      /\ <<e>> \o <<f>> \in Seq(Entries)
  BY <1>2
<1>6. Loop(p, s, (<<e>> \o <<f>>) \o W) =
        Loop(p, Loop(p, s, <<e>> \o <<f>>), W)
  BY <1>2, <1>5, LoopParts
<1>7. Loop(p, s, <<e>> \o <<f>>) = Loop(p, Loop(p, s, <<e>>), <<f>>)
  BY <1>5, LoopParts
<1>8. Loop(p, s, <<e>>) = s1
  BY <1>4, LoopOne
<1>9. Loop(p, s1, <<f>>) = s2
  BY LoopOne
<1> QED  BY <1>3, <1>6, <1>7, <1>8, <1>9 DEF s1, f, W

\* An arm after the one that was taken is skipped.
LEMMA ArmSkipped ==
  ASSUME NEW p, NEW s, NEW w \in Puts, NEW a \in Arms, Skipping(s, w)
  PROVE  Skipping(Loop(p, s, Arm(a)), w)
<1>0. PICK m \in BOOLEAN : \E c : s = Round(m, TRUE, c, w)
  BY DEF Skipping
<1>1. PICK c : s = Round(m, TRUE, c, w)
  BY <1>0
<1> DEFINE s1 == [s EXCEPT !.pre = a[1]]
           s2 == Entry(p, s1, [op |-> "test"])
<1>2. s1 = Round(m, TRUE, a[1], w)
  <2> DEFINE k == TRUE
  <2>1. s = Round(m, k, c, w)
    BY <1>1
  <2> HIDE DEF k
  <2>2. [Round(m, k, c, w) EXCEPT !.pre = a[1]] = Round(m, k, a[1], w)
    BY DEF Round
  <2>3. s1 = Round(m, k, a[1], w)
    BY <2>1, <2>2
  <2> QED  BY <2>3 DEF k
<1>3. s1.skipped
  BY <1>2 DEF Round
<1>4. s2 = [s1 EXCEPT !.matched = FALSE]
  BY <1>3, TestRound
<1> HIDE DEF s2
<1>5. s2 = Round(FALSE, TRUE, a[1], w)
  BY <1>2, <1>4 DEF Round
<1>6. a[2] \in Puts
  BY DEF Arms
<1>7. \A mm, kk \in BOOLEAN :
        Loop(p, Round(mm, kk, a[1], w), Writes(a[2])) =
          Round(mm, kk, a[1], IF mm THEN w \o a[2] ELSE w)
  BY <1>6, LoopWrites
<1>8. Loop(p, Round(FALSE, TRUE, a[1], w), Writes(a[2])) =
        Round(FALSE, TRUE, a[1], IF FALSE THEN w \o a[2] ELSE w)
  BY <1>7
<1>9. Loop(p, s, Arm(a)) = Round(FALSE, TRUE, a[1], w)
  <2>1. Loop(p, s, Arm(a)) = Loop(p, s2, Writes(a[2]))
    BY LoopArm DEF s2
  <2> QED  BY <1>5, <1>8, <2>1
<1> QED  BY <1>9 DEF Skipping

\* The first arm whose condition holds is taken, and written.
LEMMA ArmTested ==
  ASSUME NEW p, NEW s, NEW w \in Puts, NEW a \in Arms, Testing(s, w)
  PROVE  /\ CheckPositive(p, a[1]) =>
              Skipping(Loop(p, s, Arm(a)), w \o a[2])
         /\ ~CheckPositive(p, a[1]) => Testing(Loop(p, s, Arm(a)), w)
<1>0. PICK m \in BOOLEAN : \E c : s = Round(m, FALSE, c, w)
  BY DEF Testing
<1>1. PICK c : s = Round(m, FALSE, c, w)
  BY <1>0
<1> DEFINE s1 == [s EXCEPT !.pre = a[1]]
           s2 == Entry(p, s1, [op |-> "test"])
<1>2. s1 = Round(m, FALSE, a[1], w)
  <2> DEFINE k == FALSE
  <2>1. s = Round(m, k, c, w)
    BY <1>1
  <2> HIDE DEF k
  <2>2. [Round(m, k, c, w) EXCEPT !.pre = a[1]] = Round(m, k, a[1], w)
    BY DEF Round
  <2>3. s1 = Round(m, k, a[1], w)
    BY <2>1, <2>2
  <2> QED  BY <2>3 DEF k
<1>3. ~s1.skipped /\ s1.pre = a[1]
  BY <1>2 DEF Round
<1>4. s2 = [s1 EXCEPT !.matched = CheckPositive(p, a[1]),
                      !.skipped = CheckPositive(p, a[1])]
  <2>1. s2 = [s1 EXCEPT !.matched = CheckPositive(p, s1.pre),
                        !.skipped = CheckPositive(p, s1.pre)]
    BY <1>3, TestRound
  <2> QED  BY <1>3, <2>1
<1> HIDE DEF s2
<1>5. a[2] \in Puts
  BY DEF Arms
<1>6. \A mm, kk \in BOOLEAN :
        Loop(p, Round(mm, kk, a[1], w), Writes(a[2])) =
          Round(mm, kk, a[1], IF mm THEN w \o a[2] ELSE w)
  BY <1>5, LoopWrites
<1>7. Loop(p, s, Arm(a)) = Loop(p, s2, Writes(a[2]))
  BY LoopArm DEF s2
<1>8. CASE CheckPositive(p, a[1])
  <2>1. s2 = Round(TRUE, TRUE, a[1], w)
    BY <1>2, <1>4, <1>8 DEF Round
  <2>2. Loop(p, Round(TRUE, TRUE, a[1], w), Writes(a[2])) =
          Round(TRUE, TRUE, a[1], IF TRUE THEN w \o a[2] ELSE w)
    BY <1>6
  <2>3. Loop(p, s, Arm(a)) = Round(TRUE, TRUE, a[1], w \o a[2])
    BY <1>7, <2>1, <2>2
  <2> QED  BY <1>8, <2>3 DEF Skipping
<1>9. CASE ~CheckPositive(p, a[1])
  <2>1. s2 = Round(FALSE, FALSE, a[1], w)
    BY <1>2, <1>4, <1>9 DEF Round, CheckPositive
  <2>2. Loop(p, Round(FALSE, FALSE, a[1], w), Writes(a[2])) =
          Round(FALSE, FALSE, a[1], IF FALSE THEN w \o a[2] ELSE w)
    BY <1>6
  <2>3. Loop(p, s, Arm(a)) = Round(FALSE, FALSE, a[1], w)
    BY <1>7, <2>1, <2>2
  <2> QED  BY <1>9, <2>3 DEF Testing
<1> QED  BY <1>8, <1>9

\* The loop within a chain of arms, i of which are behind it: none of them
\* was taken and w is what was written before them, or the first that held
\* was.
NoneHolds(p, arms, i) == \A j \in 1..i : ~CheckPositive(p, arms[j][1])

FirstIs(p, arms, j) ==
  CheckPositive(p, arms[j][1]) /\ NoneHolds(p, arms, j - 1)

Taken(p, arms, w, i, s) ==
  \E j \in 1..i : FirstIs(p, arms, j) /\ Skipping(s, w \o arms[j][2])

InChain(p, arms, w, i, s) ==
  \/ NoneHolds(p, arms, i) /\ Testing(s, w)
  \/ Taken(p, arms, w, i, s)

\* One arm further.
LEMMA ChainStep ==
  ASSUME NEW p, NEW arms \in Seq(Arms), NEW w \in Puts, NEW s,
         NEW i \in Nat, i < Len(arms), InChain(p, arms, w, i, s)
  PROVE  InChain(p, arms, w, i + 1, Loop(p, s, Arm(arms[i + 1])))
<1> DEFINE a == arms[i + 1]
           r == Loop(p, s, Arm(a))
<1>1. a \in Arms /\ i + 1 \in 1..(i + 1)
  OBVIOUS
<1>2. CASE NoneHolds(p, arms, i) /\ Testing(s, w)
  <2>1. /\ CheckPositive(p, a[1]) => Skipping(r, w \o a[2])
        /\ ~CheckPositive(p, a[1]) => Testing(r, w)
    <3> HIDE DEF a
    <3> QED  BY <1>1, <1>2, ArmTested
  <2> HIDE DEF r
  <2>2. CASE CheckPositive(p, a[1])
    <3>1. FirstIs(p, arms, i + 1)
      BY <1>2, <2>2 DEF FirstIs, NoneHolds
    <3>2. Taken(p, arms, w, i + 1, r)
      BY <1>1, <2>1, <2>2, <3>1 DEF Taken
    <3> QED  BY <3>2 DEF InChain, r
  <2>3. CASE ~CheckPositive(p, a[1])
    <3>1. NoneHolds(p, arms, i + 1)
      BY <1>2, <2>3 DEF NoneHolds
    <3>2. Testing(r, w)
      BY <2>1, <2>3
    <3> QED  BY <3>1, <3>2 DEF InChain, r
  <2> QED  BY <2>2, <2>3
<1>3. CASE Taken(p, arms, w, i, s)
  <2>1. PICK j \in 1..i :
          FirstIs(p, arms, j) /\ Skipping(s, w \o arms[j][2])
    BY <1>3 DEF Taken
  <2> DEFINE v == w \o arms[j][2]
  <2>2. v \in Puts
    <3>1. arms[j] \in Arms
      BY <2>1
    <3>2. arms[j][2] \in Puts
      BY <3>1 DEF Arms
    <3> QED  BY <3>2 DEF Puts
  <2>3. Skipping(s, v)
    BY <2>1
  <2>4. Skipping(r, v)
    <3> HIDE DEF a, v
    <3> QED  BY <1>1, <2>2, <2>3, ArmSkipped
  <2>5. j \in 1..(i + 1)
    BY <2>1
  <2> HIDE DEF r, a
  <2>6. Taken(p, arms, w, i + 1, r)
    BY <2>1, <2>4, <2>5 DEF Taken
  <2> QED  BY <2>6 DEF InChain, r, a
<1> QED  BY <1>2, <1>3 DEF InChain

\* All arms of a chain.
LEMMA LoopChain ==
  ASSUME NEW p, NEW arms \in Seq(Arms), NEW w \in Puts, NEW s0,
         Testing(s0, w)
  PROVE  LET t == FlattenSeq([i \in DOMAIN arms |-> Arm(arms[i])])
         IN /\ t \in Seq(Entries)
            /\ InChain(p, arms, w, Len(arms), Loop(p, s0, t))
<1> DEFINE ss == [i \in DOMAIN arms |-> Arm(arms[i])]
           n == Len(arms)
           t == FlattenSeq(ss)
<1>1. n \in Nat /\ DOMAIN arms = 1..n /\ \A i \in 1..n : arms[i] \in Arms
  OBVIOUS
<1>2. \A i \in 1..n : Arm(arms[i]) \in Seq(Entries)
  BY <1>1, PartsAreEntries
<1>3. ss \in Seq(Seq(Entries)) /\ Len(ss) = n
  BY <1>1, <1>2
<1>4. \A i \in 1..n : ss[i] = Arm(arms[i])
  BY <1>1
<1> HIDE DEF ss
<1>5. PICK f : Flattens(f, Entries, ss) /\ t = f[n]
  BY <1>3, Flattened
<1>6. /\ f \in [0..n -> Seq(Entries)] /\ f[0] = <<>>
      /\ \A i \in 1..n : f[i] = f[i - 1] \o ss[i]
  BY <1>3, <1>5 DEF Flattens
<1> HIDE DEF n, t
<1> DEFINE Right == {i \in Nat : i <= n =>
                       InChain(p, arms, w, i, Loop(p, s0, f[i]))}
<1>7. 0 \in Right
  <2>1. Loop(p, s0, f[0]) = s0
    BY <1>6, LoopOne
  <2>2. NoneHolds(p, arms, 0)
    BY DEF NoneHolds
  <2>3. InChain(p, arms, w, 0, Loop(p, s0, f[0]))
    BY <2>1, <2>2 DEF InChain
  <2> QED  BY <2>3
<1>8. ASSUME NEW i \in Nat, i \in Right  PROVE i + 1 \in Right
  <2>1. SUFFICES ASSUME i + 1 <= n
                 PROVE  InChain(p, arms, w, i + 1, Loop(p, s0, f[i + 1]))
    OBVIOUS
  <2>2. i < n /\ i + 1 \in 1..n /\ i \in 0..n
    BY <1>1, <2>1
  <2>3. f[i + 1] = f[i] \o Arm(arms[i + 1])
    <3>1. (i + 1) - 1 = i
      OBVIOUS
    <3> QED  BY <1>4, <1>6, <2>2, <3>1
  <2>4. f[i] \in Seq(Entries) /\ Arm(arms[i + 1]) \in Seq(Entries)
    BY <1>2, <1>6, <2>2
  <2>5. Loop(p, s0, f[i + 1]) = Loop(p, Loop(p, s0, f[i]), Arm(arms[i + 1]))
    BY <2>3, <2>4, LoopParts
  <2>6. InChain(p, arms, w, i, Loop(p, s0, f[i]))
    BY <1>8, <2>2
  <2> QED  BY <2>2, <2>5, <2>6, ChainStep DEF n
<1>9. n \in Right
  <2> HIDE DEF Right
  <2> QED  BY <1>1, <1>7, <1>8, Induction
<1>10. InChain(p, arms, w, n, Loop(p, s0, t))
  BY <1>1, <1>5, <1>9
<1>11. t \in Seq(Entries)
  BY <1>1, <1>5, <1>6
<1> QED  BY <1>10, <1>11 DEF t, ss, n

\* The types the driver compares are those the board has.
BoardFits(p, type) == \A k \in BoardHas(p) : p.type[k] = type[k]

\* Between two items of a table, w being written.
Between(s, w) == \E c : s = Round(TRUE, FALSE, c, w)

\* The end of a chain: its else, what is written then, and its endif.
Ending(p, s, ws) ==
  Entry(p, Loop(p, Entry(p, s, [op |-> "else"]), Writes(ws)),
        [op |-> "endif"])

\* Of a chain that has all of its arms behind it.
LEMMA ChainEnds ==
  ASSUME NEW p, NEW s, NEW w \in Puts, NEW ws \in Puts
  PROVE  /\ Skipping(s, w) => Between(Ending(p, s, ws), w)
         /\ Testing(s, w) => Between(Ending(p, s, ws), w \o ws)
<1> DEFINE s1 == Entry(p, s, [op |-> "else"])
           s2 == Loop(p, s1, Writes(ws))
           s3 == Entry(p, s2, [op |-> "endif"])
<1>1. s1 = [s EXCEPT !.matched = ~s.skipped]
  BY ElseEndifRound
<1>2. s3 = [s2 EXCEPT !.matched = TRUE, !.skipped = FALSE]
  <2> HIDE DEF s2
  <2> QED  BY ElseEndifRound
<1>3. \A mm, kk \in BOOLEAN : \A c :
        Loop(p, Round(mm, kk, c, w), Writes(ws)) =
          Round(mm, kk, c, IF mm THEN w \o ws ELSE w)
  BY LoopWrites
<1> HIDE DEF s1, s3
<1>4. ASSUME NEW m, NEW k, NEW c, NEW v, s2 = Round(m, k, c, v)
      PROVE  s3 = Round(TRUE, FALSE, c, v)
  <2> DEFINE on == TRUE
             off == FALSE
  <2>1. s3 = [s2 EXCEPT !.matched = on, !.skipped = off]
    BY <1>2
  <2> HIDE DEF on, off, s2
  <2>2. s3 = [Round(m, k, c, v) EXCEPT !.matched = on, !.skipped = off]
    BY <1>4, <2>1
  <2>3. s3 = Round(on, off, c, v)
    BY <2>2 DEF Round
  <2> QED  BY <2>3 DEF on, off
<1>5. ASSUME Skipping(s, w)  PROVE Between(s3, w)
  <2>0. PICK m \in BOOLEAN : \E c : s = Round(m, TRUE, c, w)
    BY <1>5 DEF Skipping
  <2>1. PICK c : s = Round(m, TRUE, c, w)
    BY <2>0
  <2>2. s1 = Round(FALSE, TRUE, c, w)
    BY <1>1, <2>1 DEF Round
  <2>3. Loop(p, Round(FALSE, TRUE, c, w), Writes(ws)) =
          Round(FALSE, TRUE, c, IF FALSE THEN w \o ws ELSE w)
    BY <1>3
  <2>4. s2 = Round(FALSE, TRUE, c, w)
    BY <2>2, <2>3
  <2>5. s3 = Round(TRUE, FALSE, c, w)
    <3> DEFINE m2 == FALSE
               k2 == TRUE
    <3>1. s2 = Round(m2, k2, c, w)
      BY <2>4
    <3> HIDE DEF m2, k2, s2
    <3> QED  BY <1>4, <3>1
  <2> QED  BY <2>5 DEF Between
<1>6. ASSUME Testing(s, w)  PROVE Between(s3, w \o ws)
  <2>0. PICK m \in BOOLEAN : \E c : s = Round(m, FALSE, c, w)
    BY <1>6 DEF Testing
  <2>1. PICK c : s = Round(m, FALSE, c, w)
    BY <2>0
  <2>2. s1 = Round(TRUE, FALSE, c, w)
    BY <1>1, <2>1 DEF Round
  <2>3. Loop(p, Round(TRUE, FALSE, c, w), Writes(ws)) =
          Round(TRUE, FALSE, c, IF TRUE THEN w \o ws ELSE w)
    BY <1>3
  <2>4. s2 = Round(TRUE, FALSE, c, w \o ws)
    BY <2>2, <2>3
  <2>5. s3 = Round(TRUE, FALSE, c, w \o ws)
    <3> DEFINE m2 == TRUE
               k2 == FALSE
    <3>1. s2 = Round(m2, k2, c, w \o ws)
      BY <2>4
    <3> HIDE DEF m2, k2, s2
    <3> QED  BY <1>4, <3>1
  <2> QED  BY <2>5 DEF Between
<1> QED  BY <1>5, <1>6 DEF s1, s3, Ending

\* What an item means is what its chain comes to.
LEMMA MeantIs ==
  ASSUME NEW p, NEW type, BoardFits(p, type), NEW item \in Items
  PROVE  /\ NoneHolds(p, item.arms, Len(item.arms)) =>
              Meant(BoardHas(p), type, item) = item.other
         /\ \A j \in 1..Len(item.arms) : FirstIs(p, item.arms, j) =>
              Meant(BoardHas(p), type, item) = item.arms[j][2]
<1> DEFINE fulfils(c) ==
             \A k \in c.needs : k \in BoardHas(p) /\ c.type[k] = type[k]
           good == {i \in DOMAIN item.arms : fulfils(item.arms[i][1])}
<1>1. DOMAIN item.arms = 1..Len(item.arms) /\ Len(item.arms) \in Nat
  BY DEF Items
<1>2. \A c : fulfils(c) <=> CheckPositive(p, c)
  BY DEF CheckPositive, BoardFits
<1>3. good = {i \in 1..Len(item.arms) : CheckPositive(p, item.arms[i][1])}
  BY <1>1, <1>2
<1>4. Meant(BoardHas(p), type, item) =
        IF good = {} THEN item.other
        ELSE item.arms[CHOOSE i \in good : \A j \in good : i <= j][2]
  BY DEF Meant
<1> HIDE DEF good
<1>5. NoneHolds(p, item.arms, Len(item.arms)) => good = {}
  BY <1>3 DEF NoneHolds
<1>6. ASSUME NEW j \in 1..Len(item.arms), FirstIs(p, item.arms, j)
      PROVE  good # {} /\ (CHOOSE i \in good : \A l \in good : i <= l) = j
  <2>1. j \in good
    BY <1>3, <1>6 DEF FirstIs
  <2>2. \A l \in good : l \in Nat /\ j <= l
    <3>1. ASSUME NEW l \in good, l < j  PROVE FALSE
      <4>1. l \in 1..(j - 1)
        BY <1>1, <1>3, <3>1
      <4> QED  BY <1>3, <1>6, <4>1 DEF FirstIs, NoneHolds
    <3> QED  BY <1>1, <1>3, <3>1
  <2>3. \A i \in good : (\A l \in good : i <= l) => i = j
    BY <2>1, <2>2
  <2> QED  BY <2>1, <2>2, <2>3
<1> QED  BY <1>4, <1>5, <1>6

\* One item of a table.
LEMMA LoopItem ==
  ASSUME NEW p, NEW type, BoardFits(p, type), NEW item \in Items,
         NEW s, NEW w \in Puts, Between(s, w)
  PROVE  /\ Flat(item) \in Seq(Entries)
         /\ Meant(BoardHas(p), type, item) \in Puts
         /\ Between(Loop(p, s, Flat(item)),
                    w \o Meant(BoardHas(p), type, item))
<1> DEFINE arms == item.arms
           n == Len(arms)
           meant == Meant(BoardHas(p), type, item)
           W == Writes(item.other)
<1>1. /\ arms \in Seq(Arms) /\ item.other \in Puts
      /\ n \in Nat /\ DOMAIN arms = 1..n
      /\ \A j \in 1..n : arms[j] \in Arms
  BY DEF Items, Arms
<1>2. \A j \in 1..n : arms[j][2] \in Puts
  BY <1>1 DEF Arms
<1>3. W \in Seq(Entries)
  BY <1>1, PartsAreEntries
<1>4. /\ NoneHolds(p, arms, n) => meant = item.other
      /\ \A j \in 1..n : FirstIs(p, arms, j) => meant = arms[j][2]
  BY MeantIs
<1>5. PICK c : s = Round(TRUE, FALSE, c, w)
  BY DEF Between
<1>6. Testing(s, w)
  BY <1>5 DEF Testing
<1> HIDE DEF meant
<1>7. CASE arms = <<>>
  <2>1. Flat(item) = W
    BY <1>7 DEF Flat
  <2>2. meant = item.other
    BY <1>4, <1>7 DEF NoneHolds
  <2>3. \A mm, kk \in BOOLEAN :
          Loop(p, Round(mm, kk, c, w), W) =
            Round(mm, kk, c, IF mm THEN w \o item.other ELSE w)
    BY <1>1, LoopWrites
  <2>4. Loop(p, Round(TRUE, FALSE, c, w), W) =
          Round(TRUE, FALSE, c, IF TRUE THEN w \o item.other ELSE w)
    BY <2>3
  <2>5. Loop(p, s, W) = Round(TRUE, FALSE, c, w \o item.other)
    BY <1>5, <2>4
  <2>6. Between(Loop(p, s, W), w \o meant)
    BY <2>2, <2>5 DEF Between
  <2> QED  BY <1>1, <1>3, <2>1, <2>2, <2>6 DEF meant
<1>8. CASE arms # <<>>
  <2> DEFINE t == FlattenSeq([i \in DOMAIN arms |-> Arm(arms[i])])
             e == [op |-> "else"]
             f == [op |-> "endif"]
             s1 == Loop(p, s, t)
             s2 == Entry(p, s1, e)
             s3 == Loop(p, s2, W)
             s4 == Entry(p, s3, f)
  <2>1. Flat(item) = ((t \o <<e>>) \o W) \o <<f>>
    BY <1>8 DEF Flat
  <2>2. t \in Seq(Entries) /\ InChain(p, arms, w, n, s1)
    <3> HIDE DEF arms
    <3> QED  BY <1>1, <1>6, LoopChain
  <2>3. s4 = Ending(p, s1, item.other)
    BY DEF Ending
  <2>4. e \in Entries /\ f \in Entries
    BY DEF Entries
  <2> HIDE DEF t, e, f, W
  <2>5. /\ <<e>> \in Seq(Entries) /\ <<f>> \in Seq(Entries)
        /\ t \o <<e>> \in Seq(Entries)
        /\ (t \o <<e>>) \o W \in Seq(Entries)
        /\ ((t \o <<e>>) \o W) \o <<f>> \in Seq(Entries)
    BY <1>3, <2>2, <2>4
  <2>6. Loop(p, s, Flat(item)) = s4
    <3>1. Loop(p, s, ((t \o <<e>>) \o W) \o <<f>>) =
            Loop(p, Loop(p, s, (t \o <<e>>) \o W), <<f>>)
      BY <2>5, LoopParts
    <3>2. Loop(p, s, (t \o <<e>>) \o W) = Loop(p, Loop(p, s, t \o <<e>>), W)
      BY <1>3, <2>5, LoopParts
    <3>3. Loop(p, s, t \o <<e>>) = Loop(p, Loop(p, s, t), <<e>>)
      BY <2>2, <2>5, LoopParts
    <3>4. Loop(p, s1, <<e>>) = s2
      BY LoopOne
    <3>5. Loop(p, s3, <<f>>) = s4
      BY LoopOne
    <3> QED  BY <2>1, <3>1, <3>2, <3>3, <3>4, <3>5
  <2> HIDE DEF s1, s4
  <2>7. meant \in Puts /\ Between(s4, w \o meant)
    <3>1. CASE NoneHolds(p, arms, n) /\ Testing(s1, w)
      <4>1. Between(s4, w \o item.other)
        BY <1>1, <2>3, <3>1, ChainEnds
      <4> QED  BY <1>1, <1>4, <3>1, <4>1
    <3>2. CASE Taken(p, arms, w, n, s1)
      <4>1. PICK j \in 1..n :
              FirstIs(p, arms, j) /\ Skipping(s1, w \o arms[j][2])
        BY <3>2 DEF Taken
      <4> DEFINE v == w \o arms[j][2]
      <4>2. v \in Puts
        BY <1>2 DEF Puts
      <4>3. Skipping(s1, v)
        BY <4>1
      <4> HIDE DEF v
      <4>4. Between(s4, v)
        BY <1>1, <2>3, <4>2, <4>3, ChainEnds
      <4>5. meant = arms[j][2] /\ arms[j][2] \in Puts
        BY <1>2, <1>4, <4>1
      <4> QED  BY <4>4, <4>5 DEF v
    <3> QED  BY <2>2, <3>1, <3>2 DEF InChain
  <2> QED  BY <2>1, <2>5, <2>6, <2>7 DEF meant
<1> QED  BY <1>7, <1>8

\* A table writes what it means.
LEMMA TableIsMeant ==
  ASSUME NEW p, NEW type, BoardFits(p, type), NEW items \in Seq(Items)
  PROVE  ReadAndConfig(p, FlatTable(items)) =
           MeantTable(BoardHas(p), type, items)
<1> DEFINE n == Len(items)
           flat == [i \in DOMAIN items |-> Flat(items[i])]
           meant == [i \in DOMAIN items |->
                       Meant(BoardHas(p), type, items[i])]
           E == Nat \X Nat
<1>1. /\ n \in Nat /\ DOMAIN items = 1..n
      /\ \A i \in 1..n : items[i] \in Items
  OBVIOUS
<1>2. Between(Start, <<>>) /\ <<>> \in Puts
  <2>1. Start = Round(TRUE, FALSE, <<>>, <<>>)
    BY DEF Start, Round
  <2>2. <<>> \in Puts
    BY DEF Puts
  <2> QED  BY <2>1, <2>2 DEF Between
<1>3. \A i \in 1..n : /\ Flat(items[i]) \in Seq(Entries)
                      /\ Meant(BoardHas(p), type, items[i]) \in Seq(E)
  BY <1>1, <1>2, LoopItem DEF Puts
<1> HIDE DEF E
<1>4. /\ flat \in Seq(Seq(Entries)) /\ Len(flat) = n
      /\ \A i \in 1..n : flat[i] = Flat(items[i])
  BY <1>1, <1>3
<1>5. /\ meant \in Seq(Seq(E)) /\ Len(meant) = n
      /\ \A i \in 1..n : meant[i] = Meant(BoardHas(p), type, items[i])
  BY <1>1, <1>3
<1>6. /\ FlatTable(items) = FlattenSeq(flat)
      /\ MeantTable(BoardHas(p), type, items) = FlattenSeq(meant)
  BY DEF FlatTable, MeantTable
<1> HIDE DEF flat, meant, n
<1>7. PICK f : Flattens(f, Entries, flat) /\ FlattenSeq(flat) = f[n]
  BY <1>4, Flattened
<1>8. PICK g : Flattens(g, E, meant) /\ FlattenSeq(meant) = g[n]
  BY <1>5, Flattened
<1>9. /\ f \in [0..n -> Seq(Entries)] /\ f[0] = <<>>
      /\ \A i \in 1..n : f[i] = f[i - 1] \o flat[i]
  BY <1>4, <1>7 DEF Flattens
<1>10. /\ g \in [0..n -> Seq(E)] /\ g[0] = <<>>
       /\ \A i \in 1..n : g[i] = g[i - 1] \o meant[i]
  BY <1>5, <1>8 DEF Flattens
<1> DEFINE Right == {i \in Nat : i <= n =>
                       Between(Loop(p, Start, f[i]), g[i])}
<1>11. 0 \in Right
  <2>1. Loop(p, Start, f[0]) = Start
    BY <1>9, LoopOne
  <2>2. Between(Loop(p, Start, f[0]), g[0])
    BY <1>2, <1>10, <2>1
  <2> QED  BY <2>2
<1>12. ASSUME NEW i \in Nat, i \in Right  PROVE i + 1 \in Right
  <2>1. SUFFICES ASSUME i + 1 <= n
                 PROVE  Between(Loop(p, Start, f[i + 1]), g[i + 1])
    OBVIOUS
  <2>2. i + 1 \in 1..n /\ i \in 0..n /\ (i + 1) - 1 = i
    BY <1>1, <2>1
  <2>3. f[i + 1] = f[i] \o Flat(items[i + 1])
        /\ g[i + 1] = g[i] \o Meant(BoardHas(p), type, items[i + 1])
    BY <1>4, <1>5, <1>9, <1>10, <2>2
  <2>4. f[i] \in Seq(Entries) /\ g[i] \in Puts
    BY <1>9, <1>10, <2>2 DEF Puts, E
  <2>5. Between(Loop(p, Start, f[i]), g[i])
    BY <1>12, <1>1, <2>1
  <2>6. Loop(p, Start, f[i + 1]) =
          Loop(p, Loop(p, Start, f[i]), Flat(items[i + 1]))
    BY <1>3, <2>2, <2>3, <2>4, LoopParts
  <2>7. items[i + 1] \in Items
    BY <1>1, <2>2
  <2>8. Between(Loop(p, Loop(p, Start, f[i]), Flat(items[i + 1])),
                g[i] \o Meant(BoardHas(p), type, items[i + 1]))
    BY <2>4, <2>5, <2>7, LoopItem
  <2> QED  BY <2>3, <2>6, <2>8
<1>13. n \in Right
  <2> HIDE DEF Right
  <2> QED  BY <1>1, <1>11, <1>12, Induction
<1>14. Between(Loop(p, Start, f[n]), g[n])
  BY <1>1, <1>13
<1>15. Loop(p, Start, f[n]).written = g[n]
  BY <1>14 DEF Between, Round
<1> QED  BY <1>6, <1>7, <1>8, <1>15 DEF ReadAndConfig

-----------------------------------------------------------------------------
\* The first n tables, read for this board.
Loads(n) == [i \in 1..n |-> ReadAndConfig(params, FlatTable(Tables[i]))]

\* How many tables belong to each phase.
LoadsOf(n) ==
  /\ n \in 0..5
  /\ phase \in {"off", "efuse", "reset", "power", "llt", "firmware"} => n = 0
  /\ phase \in {"pages", "mac"} => n = 1
  /\ phase = "bb" => n \in 1..4

\* What the EFUSE was read for fits, from the end of the constructor on.
ReadingInv ==
  /\ phase \in Phases
  /\ phase \notin {"off", "efuse"} => reading = "parsed"
  /\ reading = "parsed" => BoardFits(params, ReadTypes)

\* The tables loaded so far are those the phase says, read for this board.
LoadInv == ReadingInv /\ \E n \in 0..5 : LoadsOf(n) /\ loaded = Loads(n)

\* The constructor assigns the types of the amplifiers the board has.
LEMMA ParseFits ==
  ASSUME Parse
  PROVE  BoardFits(params', ReadTypes')
<1> DEFINE fail == autoloadFail'
           amp == Amplifiers(fail)
           has == <<amp.lna2g, amp.pa2g, amp.lna5g, amp.pa5g>>
<1>1. ReadTypes' = ReadTypes
  BY DEF Parse, ReadTypes, Pair
<1>2. PICK t \in TypesMayBe(amp, fail) :
        /\ params'.pa2g = amp.pa2g /\ params'.lna2g = amp.lna2g
        /\ params'.pa5g = amp.pa5g /\ params'.lna5g = amp.lna5g
        /\ params'.type = t
  BY DEF Parse
<1> HIDE DEF amp
<1>3. \A i \in 1..4 : t[i] = ReadTypes[i] \/ ~has[i]
  BY <1>2 DEF TypesMayBe
<1>4. BoardHas(params') = {k \in 1..4 : has[k]}
  BY <1>2 DEF BoardHas, Kinds
<1> QED  BY <1>1, <1>2, <1>3, <1>4 DEF BoardFits

\* Nothing else the constructor does claims that it is through.
LEMMA ReadingStep ==
  ASSUME ReadingInv, [Next]_vars
  PROVE  ReadingInv'
<1>1. CASE UNCHANGED <<params, map, reading>> /\ phase' \in Phases
           /\ (phase' \notin {"off", "efuse"} => phase \notin {"off", "efuse"})
  <2>1. BoardFits(params, ReadTypes) => BoardFits(params', ReadTypes')
    BY <1>1 DEF ReadTypes, Pair
  <2> QED  BY <1>1, <2>1 DEF ReadingInv
<1> USE DEF Phases
<1>2. CASE Open  BY <1>1, <1>2 DEF Open, efuseVars
<1>3. CASE ReadEfuse
  <2>1. phase' = IF reading' = "parsed" THEN "reset"
                 ELSE IF reading' = "off" THEN "off" ELSE "efuse"
    BY <1>3 DEF ReadEfuse
  <2>2. /\ phase' \in Phases
        /\ phase' \notin {"off", "efuse"} => reading' = "parsed"
    BY <2>1
  <2>3. EfuseNext /\ phase = "efuse"
    BY <1>3 DEF ReadEfuse
  <2>4. CASE Parse
    BY <2>2, <2>4, ParseFits DEF ReadingInv
  <2>5. CASE InitPGData \/ WalkRecord \/ WalkEnds \/ Refuse
    <3>1. CASE InitPGData
      BY <2>2, <3>1 DEF InitPGData, ReadingInv
    <3>2. CASE WalkRecord
      BY <2>2, <3>2 DEF WalkRecord, ReadingInv
    <3>3. CASE WalkEnds
      BY <2>2, <3>3 DEF WalkEnds, ReadingInv
    <3>4. CASE Refuse
      BY <2>2, <3>4 DEF Refuse, Forget, ReadingInv
    <3> QED  BY <2>5, <3>1, <3>2, <3>3, <3>4
  <2> QED  BY <2>3, <2>4, <2>5 DEF EfuseNext
<1>4. CASE HwReset  BY <1>1, <1>4 DEF HwReset, efuseVars
<1>5. CASE PowerOn  BY <1>1, <1>5 DEF PowerOn, efuseVars
<1>6. CASE WritePageEntry  BY <1>1, <1>6 DEF WritePageEntry, efuseVars
<1>7. CASE DownloadFirmware
  BY <1>1, <1>7 DEF DownloadFirmware, efuseVars, ReadingInv
<1>8. CASE FirmwareReports
  BY <1>1, <1>8 DEF FirmwareReports, efuseVars, ReadingInv
<1>9. CASE ConfigMac  BY <1>1, <1>9 DEF ConfigMac, efuseVars
<1>10. CASE InitPageBoundary
  BY <1>1, <1>10 DEF InitPageBoundary, efuseVars
<1>11. CASE EnableMac  BY <1>1, <1>11 DEF EnableMac, efuseVars
<1>12. CASE ConfigBBAndRF  BY <1>1, <1>12 DEF ConfigBBAndRF, efuseVars
<1>13. CASE ReadOnce  BY <1>1, <1>13 DEF ReadOnce, efuseVars, ReadingInv
<1>14. CASE LoopAgain  BY <1>1, <1>14 DEF LoopAgain, efuseVars, ReadingInv
<1>15. CASE EndSession
  BY <1>15 DEF EndSession, Forget, ReadingInv
<1>16. CASE Unplug  BY <1>1, <1>16 DEF Unplug, efuseVars, ReadingInv
<1>17. CASE UNCHANGED vars
  BY <1>1, <1>17 DEF vars, efuseVars, ReadingInv
<1> QED  BY <1>2, <1>3, <1>4, <1>5, <1>6, <1>7, <1>8, <1>9, <1>10, <1>11,
            <1>12, <1>13, <1>14, <1>15, <1>16, <1>17 DEF Next

\* One table more.
LEMMA LoadsGrow ==
  ASSUME NEW n \in 0..4, loaded = Loads(n), LoadTable, UNCHANGED params
  PROVE  Len(loaded) = n /\ loaded' = Loads(n + 1)'
<1> DEFINE read(i) == ReadAndConfig(params, FlatTable(Tables[i]))
           S == {read(i) : i \in 1..5}
<1>1. loaded = [i \in 1..n |-> read(i)]
  BY DEF Loads
<1>2. \A i \in 1..5 : read(i) \in S
  OBVIOUS
<1>3. Loads(n + 1)' = [i \in 1..(n + 1) |-> read(i)]
  BY DEF Loads
<1>4. loaded' = Append(loaded, read(Len(loaded) + 1))
  BY DEF LoadTable
<1> HIDE DEF read, S
<1>5. loaded \in Seq(S) /\ Len(loaded) = n
  BY <1>1, <1>2
<1>6. loaded' = Append(loaded, read(n + 1)) /\ read(n + 1) \in S
  BY <1>2, <1>4, <1>5
<1> DEFINE next == [i \in 1..(n + 1) |-> read(i)]
<1>7. next \in Seq(S) /\ Len(next) = n + 1
  BY <1>2
<1>8. \A i \in 1..(n + 1) : next[i] = read(i)
  OBVIOUS
<1> HIDE DEF next
<1>9. loaded' \in Seq(S) /\ Len(loaded') = n + 1
  BY <1>5, <1>6
<1>10. \A i \in 1..(n + 1) : loaded'[i] = next[i]
  BY <1>1, <1>5, <1>6, <1>8
<1>11. loaded' = next
  BY <1>7, <1>9, <1>10, SeqEqual
<1> QED  BY <1>3, <1>5, <1>11 DEF next

\* Tables are loaded in the phases that load them, by the parameters read.
LEMMA LoadStep ==
  ASSUME LoadInv, [Next]_vars
  PROVE  LoadInv'
<1>1. ReadingInv'
  BY ReadingStep DEF LoadInv
<1>2. PICK n \in 0..5 : LoadsOf(n) /\ loaded = Loads(n)
  BY DEF LoadInv
<1>3. ReadingInv
  BY DEF LoadInv
<1>4. SUFFICES \E m \in 0..5 : LoadsOf(m)' /\ loaded' = Loads(m)'
  BY <1>1 DEF LoadInv
<1>5. CASE UNCHANGED <<params, loaded>> /\ LoadsOf(n)'
  <2>1. Loads(n)' = Loads(n)
    BY <1>5 DEF Loads
  <2> QED  BY <1>2, <1>5, <2>1
<1>6. CASE loaded = <<>> /\ loaded' = <<>> /\ LoadsOf(0)'
  <2>1. Loads(0)' = <<>>
    BY DEF Loads
  <2> QED  BY <1>6, <2>1
<1>7. phase \in {"off", "efuse", "reset", "power", "llt", "firmware"} =>
        loaded = <<>>
  <2>1. Loads(0) = <<>>
    BY DEF Loads
  <2> QED  BY <1>2, <2>1 DEF LoadsOf
<1> USE DEF LoadsOf
<1>8. CASE Open  BY <1>2, <1>5, <1>8 DEF Open, efuseVars
<1>9. CASE ReadEfuse
  <2>1. phase = "efuse" /\ phase' \in {"reset", "off", "efuse"}
        /\ loaded' = loaded
    BY <1>9 DEF ReadEfuse
  <2> QED  BY <1>6, <1>7, <2>1
<1>10. CASE HwReset  BY <1>2, <1>5, <1>10 DEF HwReset, efuseVars
<1>11. CASE PowerOn  BY <1>2, <1>5, <1>11 DEF PowerOn, efuseVars
<1>12. CASE WritePageEntry
  BY <1>2, <1>5, <1>12 DEF WritePageEntry, efuseVars
<1>13. CASE DownloadFirmware
  BY <1>2, <1>5, <1>13 DEF DownloadFirmware, efuseVars
<1>14. CASE FirmwareReports
  BY <1>2, <1>5, <1>14 DEF FirmwareReports, efuseVars
<1>15. CASE ConfigMac
  <2>1. /\ phase = "firmware" /\ phase' = "pages" /\ LoadTable
        /\ UNCHANGED params
    BY <1>15 DEF ConfigMac, efuseVars
  <2>2. n = 0 /\ 0 + 1 = 1
    BY <1>2, <2>1
  <2>3. loaded' = Loads(1)'
    BY <1>2, <2>1, <2>2, LoadsGrow
  <2> QED  BY <2>1, <2>3
<1>16. CASE InitPageBoundary
  BY <1>2, <1>5, <1>16 DEF InitPageBoundary, efuseVars
<1>17. CASE EnableMac  BY <1>2, <1>5, <1>17 DEF EnableMac, efuseVars
<1>18. CASE ConfigBBAndRF
  <2>1. /\ phase = "bb" /\ LoadTable /\ UNCHANGED params
        /\ phase' = IF Len(loaded) = 4 THEN "up" ELSE "bb"
    BY <1>18 DEF ConfigBBAndRF, efuseVars
  <2>2. n \in 1..4
    BY <1>2, <2>1
  <2>3. Len(loaded) = n /\ loaded' = Loads(n + 1)'
    <3>1. n \in 0..4
      BY <2>2
    <3> HIDE DEF LoadsOf
    <3> QED  BY <1>2, <2>1, <3>1, LoadsGrow
  <2>4. n + 1 \in 0..5 /\ LoadsOf(n + 1)'
    BY <2>1, <2>2, <2>3
  <2> QED  BY <2>3, <2>4
<1>19. CASE ReadOnce  BY <1>2, <1>5, <1>19 DEF ReadOnce, efuseVars
<1>20. CASE LoopAgain  BY <1>2, <1>5, <1>20 DEF LoopAgain, efuseVars
<1>21. CASE EndSession
  <2>1. phase' = "off" /\ loaded' = <<>>
    BY <1>21 DEF EndSession
  <2>2. Loads(0)' = <<>>
    BY DEF Loads
  <2> QED  BY <2>1, <2>2
<1>22. CASE Unplug  BY <1>2, <1>5, <1>22 DEF Unplug, efuseVars
<1>23. CASE UNCHANGED vars  BY <1>2, <1>5, <1>23 DEF vars, efuseVars
<1> QED  BY <1>8, <1>9, <1>10, <1>11, <1>12, <1>13, <1>14, <1>15, <1>16,
            <1>17, <1>18, <1>19, <1>20, <1>21, <1>22, <1>23 DEF Next

\* LoadInv holds in every reachable state.
LEMMA LoadInvariant == Spec => []LoadInv
<1>1. Init => LoadInv
  <2>1. SUFFICES ASSUME Init  PROVE LoadInv
    OBVIOUS
  <2>2. Loads(0) = <<>>
    BY DEF Loads
  <2>3. phase = "off" /\ loaded = <<>> /\ reading = "off"
    BY <2>1 DEF Init, EfuseInit, Fresh
  <2>4. LoadsOf(0) /\ loaded = Loads(0)
    BY <2>2, <2>3 DEF LoadsOf
  <2>5. ReadingInv
    BY <2>3 DEF ReadingInv, Phases
  <2> QED  BY <2>4, <2>5 DEF LoadInv
<1>2. LoadInv /\ [Next]_vars => LoadInv'
  BY LoadStep
<1> QED  BY <1>1, <1>2, PTL DEF Spec

\* Each table writes what it means for this board, and nothing it means for
\* another: for every table, however long its chains, and whatever the members
\* held that the EFUSE does not decide.
THEOREM TablesAlwaysMeant == Spec => []TablesAreMeant
<1>1. LoadInv => TablesAreMeant
  <2>1. SUFFICES ASSUME LoadInv, NEW i \in DOMAIN loaded
                 PROVE  loaded[i] =
                          MeantTable(BoardHas(params), ReadTypes, Tables[i])
    BY DEF TablesAreMeant
  <2>2. PICK n \in 0..5 : LoadsOf(n) /\ loaded = Loads(n)
    BY <2>1 DEF LoadInv
  <2>3. i \in 1..n /\ n # 0
    BY <2>1, <2>2 DEF Loads
  <2>4. BoardFits(params, ReadTypes)
    BY <2>1, <2>2, <2>3 DEF LoadInv, LoadsOf, ReadingInv
  <2>5. loaded[i] = ReadAndConfig(params, FlatTable(Tables[i]))
    BY <2>2, <2>3 DEF Loads
  <2>6. Tables[i] \in Seq(Items)
    <3> DEFINE T == Seq(Items)
    <3>1. Tables \in Seq(T) /\ Len(Tables) = 5
      BY AdapterAssumption
    <3>2. i \in 1..Len(Tables)
      BY <2>3, <3>1
    <3> HIDE DEF T
    <3>3. Tables[i] \in T
      BY <3>1, <3>2
    <3> QED  BY <3>3 DEF T
  <2> QED  BY <2>4, <2>5, <2>6, TableIsMeant
<1> QED  BY <1>1, LoadInvariant, PTL

-----------------------------------------------------------------------------
\* What the EFUSE holds at a place.
Byte == 0..255

\* The header of a record, of one byte or two.
LEMMA HeaderIsBytes ==
  ASSUME NEW r, r.section \in 0..127
  PROVE  Header(r) \in Seq(Byte)
<1> DEFINE we == Enable(DOMAIN r.words)
           s == r.section
<1>1. we \in 0..15
  BY DEF Enable
<1> HIDE DEF we
<1>2. s \in 0..127
  OBVIOUS
<1> HIDE DEF s
<1>3. /\ s % 8 \in 0..7 /\ s \div 8 \in 0..15
  BY <1>2
<1>4. s < 16 => (16 * s) + we \in Byte
  BY <1>1, <1>2 DEF Byte
<1>5. (32 * (s % 8)) + 15 \in Byte /\ (16 * (s \div 8)) + we \in Byte
  BY <1>1, <1>3 DEF Byte
<1>6. Header(r) = IF s < 16 /\ (16 * s + we) % 32 # 15 THEN <<16 * s + we>>
                  ELSE <<(32 * (s % 8)) + 15, (16 * (s \div 8)) + we>>
  BY DEF Header, we, s
<1> HIDE DEF Byte
<1>7. CASE s < 16 /\ (16 * s + we) % 32 # 15
  BY <1>4, <1>6, <1>7
<1>8. CASE ~(s < 16 /\ (16 * s + we) % 32 # 15)
  BY <1>5, <1>6, <1>8
<1> QED  BY <1>7, <1>8

\* So do its words: what is burned of a record are bytes.
LEMMA RecordIsBytes ==
  ASSUME NEW e \in Efuses, NEW i \in DOMAIN e
  PROVE  Burn(e[i]) \in Seq(Byte)
<1> DEFINE r == e[i]
           ss == [w \in 1..4 |-> WordOf(r, w - 1)]
<1>1. /\ r.section \in 0..127
      /\ \A w \in DOMAIN r.words : r.words[w] \in Bytes2
  BY EfuseAssumption
<1> HIDE DEF r
<1>2. ASSUME NEW w  PROVE WordOf(r, w) \in Seq(Byte)
  <2>1. CASE w \in DOMAIN r.words
    <3>1. r.words[w] \in Byte \X Byte
      BY <1>1, <2>1 DEF Bytes2, Byte
    <3> HIDE DEF Byte
    <3>2. PICK b, c \in Byte : r.words[w] = <<b, c>>
      BY <3>1
    <3>3. <<b, c>> \in Seq(Byte)
      OBVIOUS
    <3> QED  BY <2>1, <3>2, <3>3 DEF WordOf
  <2>2. CASE w \notin DOMAIN r.words
    BY <2>2 DEF WordOf
  <2> QED  BY <2>1, <2>2
<1>3. ss \in Seq(Seq(Byte)) /\ Len(ss) = 4
  BY <1>2
<1> HIDE DEF ss, Byte
<1>4. PICK f : Flattens(f, Byte, ss) /\ FlattenSeq(ss) = f[Len(ss)]
  BY <1>3, Flattened
<1>5. FlattenSeq(ss) \in Seq(Byte)
  BY <1>3, <1>4 DEF Flattens
<1>6. Header(r) \in Seq(Byte)
  BY <1>1, HeaderIsBytes
<1>7. Burn(r) = Header(r) \o FlattenSeq(ss)
  BY DEF Burn, ss
<1>8. Burn(r) \in Seq(Byte)
  BY <1>5, <1>6, <1>7
<1> QED  BY <1>8 DEF r

\* What is read from the EFUSE, at any place of it or after it, is a byte.
LEMMA ByteAtIsByte ==
  ASSUME burned \in Efuses, NEW a \in Nat
  PROVE  ByteAt(a) \in Byte
<1> DEFINE ss == [i \in DOMAIN burned |-> Burn(burned[i])]
<1>1. \A i \in DOMAIN burned : Burn(burned[i]) \in Seq(Byte)
  BY RecordIsBytes
<1>2. DOMAIN burned = 1..Len(burned) /\ Len(burned) \in Nat
  BY EfuseAssumption
<1> HIDE DEF Byte
<1>3. ss \in Seq(Seq(Byte)) /\ Len(ss) \in Nat
  BY <1>1, <1>2
<1> HIDE DEF ss
<1>4. PICK f : Flattens(f, Byte, ss) /\ FlattenSeq(ss) = f[Len(ss)]
  BY <1>3, Flattened
<1>5. FlattenSeq(ss) \in Seq(Byte)
  BY <1>3, <1>4 DEF Flattens
<1>6. Content \in Seq(Byte)
  BY <1>5 DEF Content, ss
<1>7. 255 \in Byte
  BY DEF Byte
<1>8. a < Len(Content) => Content[a + 1] \in Byte
  BY <1>6
<1> QED  BY <1>7, <1>8 DEF ByteAt

\* What a map holds are words of two bytes.
HoldsWords(m) == \A p \in DOMAIN m : m[p] \in Bytes2

\* What the EFUSE's reader holds, with what was burned.
EfuseInv ==
  EfuseTypeOK /\ burned \in Efuses /\ boot \in Boots /\ HoldsWords(map)

\* A byte of a map that holds words.
LEMMA MapByteIsByte ==
  ASSUME NEW m, HoldsWords(m), NEW offset \in Nat
  PROVE  MapByte(m, offset) \in 0..255
<1> DEFINE p == <<offset \div 8, (offset % 8) \div 2>>
<1>1. 1 + (offset % 2) \in {1, 2}
  OBVIOUS
<1>2. CASE p \in DOMAIN m
  <2>1. m[p] \in (0..255) \X (0..255)
    BY <1>2 DEF HoldsWords, Bytes2
  <2>2. m[p][1] \in 0..255 /\ m[p][2] \in 0..255
    BY <2>1
  <2>3. MapByte(m, offset) = m[p][1 + (offset % 2)]
    BY <1>2 DEF MapByte
  <2> HIDE DEF p
  <2> QED  BY <1>1, <2>2, <2>3
<1>3. CASE p \notin DOMAIN m
  BY <1>3 DEF MapByte
<1> QED  BY <1>2, <1>3

\* Words are four, and what is enabled of them can be counted.
LEMMA CountsWords ==
  ASSUME NEW S \in SUBSET Words
  PROVE  Cardinality(S) \in Nat
<1>1. IsFiniteSet(0..3)
  <2>1. 0 \in Int /\ 3 \in Int
    OBVIOUS
  <2> QED  BY <2>1, FS_Interval, Zenon
<1>2. IsFiniteSet(S)
  BY <1>1, FS_Subset DEF Words
<1> QED  BY <1>2, FS_CardinalityType

\* Where a header may be read, the address and the byte stay what they are.
LEMMA HeaderStep ==
  ASSUME burned \in Efuses, NEW a \in 0..Len512, NextHeader(a)
  PROVE  addr' \in 0..Len512 /\ byte' \in 0..255
<1>1. Len512 \in Nat
  BY EfuseAssumption
<1>2. ByteAt(a) \in 0..255
  BY ByteAtIsByte, <1>1 DEF Byte
<1> QED  BY <1>1, <1>2 DEF NextHeader

\* A skip ends in the EFUSE.
LEMMA WithinEnds ==
  ASSUME NEW a \in Nat
  PROVE  Within(a) \in 0..Len512
BY EfuseAssumption DEF Within

\* The words that are read are words of the section, of two bytes each.
LEMMA WordsStep ==
  ASSUME EfuseInv, NEW offset \in Sections, NEW wren, NEW a \in Nat,
         ReadWords(offset, wren, a)
  PROVE  /\ DOMAIN word' \subseteq Sections \X Words /\ HoldsWords(word')
         /\ NextHeader(Within(a + 2 * Cardinality(Enabled(wren))))
<1> DEFINE read == {w \in Enabled(wren) :
                      At(a, wren, w) = a \/ At(a, wren, w) < Len512}
           hi(w) == IF At(a, wren, w) + 1 < Len512
                    THEN ByteAt(At(a, wren, w) + 1) ELSE 0
           new == {offset} \X read
           lo(w) == ByteAt(At(a, wren, w))
<1>1. ASSUME NEW w \in Words  PROVE lo(w) \in 0..255 /\ hi(w) \in 0..255
  <2>1. Cardinality({v \in Enabled(wren) : v < w}) \in Nat
    BY CountsWords DEF Enabled
  <2>2. At(a, wren, w) \in Nat /\ At(a, wren, w) + 1 \in Nat
    BY <2>1 DEF At
  <2>3. burned \in Efuses
    BY DEF EfuseInv
  <2>4. lo(w) \in 0..255 /\ ByteAt(At(a, wren, w) + 1) \in 0..255
    BY <2>2, <2>3, ByteAtIsByte DEF Byte
  <2> QED  BY <2>4
<1>2. /\ word' = [p \in DOMAIN word \cup new |->
                    IF p \in new THEN <<lo(p[2]), hi(p[2])>> ELSE word[p]]
      /\ NextHeader(Within(a + 2 * Cardinality(Enabled(wren))))
  BY DEF ReadWords
<1> HIDE DEF lo, hi
<1>3. new \subseteq Sections \X Words /\ \A p \in new : p[2] \in Words
  BY DEF Enabled
<1>4. DOMAIN word \subseteq Sections \X Words /\ HoldsWords(word)
  BY DEF EfuseInv, EfuseTypeOK, HoldsWords
<1> HIDE DEF new
<1>5. DOMAIN word' = DOMAIN word \cup new
  BY <1>2
<1>6. ASSUME NEW p \in DOMAIN word'  PROVE word'[p] \in Bytes2
  <2>1. CASE p \in new
    <3>1. word'[p] = <<lo(p[2]), hi(p[2])>>
      BY <1>2, <1>5, <2>1
    <3> QED  BY <1>1, <1>3, <2>1, <3>1 DEF Bytes2
  <2>2. CASE p \notin new
    <3>1. word'[p] = word[p] /\ p \in DOMAIN word
      BY <1>2, <1>5, <2>2
    <3> QED  BY <1>4, <3>1 DEF HoldsWords
  <2> QED  BY <2>1, <2>2
<1> QED  BY <1>2, <1>3, <1>4, <1>5, <1>6 DEF HoldsWords

\* One header of the walk.
LEMMA WalkStep ==
  ASSUME EfuseInv, WalkRecord
  PROVE  EfuseInv'
<1> DEFINE extended == byte % 32 = 15
           second == ByteAt(addr)
           offset == IF extended THEN (8 * (second \div 16)) + (byte \div 32)
                     ELSE byte \div 16
           wren == IF extended THEN second % 16 ELSE byte % 16
           a == IF extended THEN addr + 1 ELSE addr
<1>1. /\ burned \in Efuses /\ addr \in 0..Len512 /\ addr < Len512
      /\ Len512 \in Nat
  BY EfuseAssumption DEF EfuseInv, EfuseTypeOK, WalkRecord
<1>2. a \in 0..Len512 /\ a \in Nat
  BY <1>1
<1>3. IF extended /\ wren = 15
      THEN NextHeader(a) /\ UNCHANGED word
      ELSE IF offset \in Sections THEN ReadWords(offset, wren, a)
      ELSE /\ NextHeader(Within(a + IF Bit(wren, 0) THEN 0 ELSE 8))
           /\ UNCHANGED word
  BY DEF WalkRecord
<1> HIDE DEF extended, second, offset, wren, a
<1>4. /\ addr' \in 0..Len512 /\ byte' \in 0..255
      /\ DOMAIN word' \subseteq Sections \X Words /\ HoldsWords(word')
  <2>1. DOMAIN word \subseteq Sections \X Words /\ HoldsWords(word)
    BY DEF EfuseInv, EfuseTypeOK, HoldsWords
  <2>2. CASE extended /\ wren = 15
    BY <1>1, <1>2, <1>3, <2>1, <2>2, HeaderStep
  <2>3. CASE ~(extended /\ wren = 15) /\ offset \in Sections
    <3>1. ReadWords(offset, wren, a)
      BY <1>3, <2>3
    <3>2. /\ DOMAIN word' \subseteq Sections \X Words /\ HoldsWords(word')
          /\ NextHeader(Within(a + 2 * Cardinality(Enabled(wren))))
      BY <1>2, <2>3, <3>1, WordsStep
    <3>3. a + 2 * Cardinality(Enabled(wren)) \in Nat
      <4>1. Cardinality(Enabled(wren)) \in Nat
        BY CountsWords DEF Enabled
      <4> QED  BY <1>2, <4>1
    <3>4. Within(a + 2 * Cardinality(Enabled(wren))) \in 0..Len512
      BY <3>3, WithinEnds
    <3> QED  BY <1>1, <3>2, <3>4, HeaderStep
  <2>4. CASE ~(extended /\ wren = 15) /\ offset \notin Sections
    <3> DEFINE skip == a + IF Bit(wren, 0) THEN 0 ELSE 8
    <3>1. NextHeader(Within(skip)) /\ UNCHANGED word
      BY <1>3, <2>4
    <3>2. skip \in Nat
      BY <1>2
    <3> HIDE DEF skip
    <3>3. Within(skip) \in 0..Len512
      BY <3>2, WithinEnds
    <3> QED  BY <1>1, <2>1, <3>1, <3>3, HeaderStep
  <2> QED  BY <2>2, <2>3, <2>4
<1>5. UNCHANGED <<burned, boot, map, autoloadFail, params, reading>>
  BY DEF WalkRecord
<1> QED  BY <1>4, <1>5 DEF EfuseInv, EfuseTypeOK, HoldsWords

\* What the constructor makes of the map.
LEMMA ParseStep ==
  ASSUME EfuseInv, Parse
  PROVE  EfuseInv'
<1> DEFINE fail == autoloadFail'
           amp == Amplifiers(fail)
           cap == IF fail THEN 255 ELSE MapByte(map, 185)
<1>1. HoldsWords(map)
  BY DEF EfuseInv
<1>2. MapByte(map, 185) \in 0..255 /\ MapByte(map, 202) \in 0..255
  BY <1>1, MapByteIsByte
<1>3. Rfe(amp, fail) \in 0..63
  <2>1. MapByte(map, 202) % 64 \in 0..63
    BY <1>2
  <2> HIDE DEF amp, fail
  <2> QED  BY <2>1 DEF Rfe
<1>4. /\ params'.rfe = Rfe(amp, fail)
      /\ params'.crystalCap = IF cap = 255 THEN 32 ELSE cap
  BY DEF Parse
<1>5. params'.crystalCap \in 0..255
  BY <1>2, <1>4
<1>6. /\ autoloadFail' \in BOOLEAN /\ reading' = "parsed"
      /\ UNCHANGED <<burned, boot, addr, byte, word, map>>
  BY DEF Parse
<1> HIDE DEF amp, fail, cap
<1> QED  BY <1>3, <1>4, <1>5, <1>6 DEF EfuseInv, EfuseTypeOK, HoldsWords

\* The end of a session, and what a refused map makes of it.
LEMMA ForgetStep ==
  ASSUME EfuseInv, Forget
  PROVE  EfuseInv'
<1>1. Len512 \in Nat /\ Boots \subseteq
        [eeprom : BOOLEAN, fail : BOOLEAN, hidden : BOOLEAN]
  BY EfuseAssumption
<1>2. boot.fail \in BOOLEAN
  BY <1>1 DEF EfuseInv
<1>3. /\ addr' = 0 /\ byte' = 0 /\ word' = NoWord /\ map' = NoWord
      /\ params' = NoParams /\ reading' = "off" /\ autoloadFail' = boot.fail
      /\ UNCHANGED <<burned, boot>>
  BY DEF Forget
<1>4. DOMAIN NoWord = {}
  BY DEF NoWord
<1>5. NoParams.rfe = 0 /\ NoParams.crystalCap = 0
  BY DEF NoParams
<1> HIDE DEF NoWord
<1> QED  BY <1>1, <1>2, <1>3, <1>4, <1>5 DEF EfuseInv, EfuseTypeOK, HoldsWords

\* How the walk begins and ends.
LEMMA WalkBounds ==
  ASSUME EfuseInv, InitPGData \/ WalkEnds
  PROVE  EfuseInv'
<1>1. /\ Len512 \in Nat /\ Len512 >= 1
      /\ \A m \in Maps : HoldsWords(m)
  BY EfuseAssumption DEF HoldsWords
<1>2. HoldsWords(NoWord) /\ DOMAIN NoWord = {}
  BY DEF NoWord, HoldsWords
<1>3. CASE InitPGData
  <2>1. byte' \in 0..255
    <3>1. 0 \in Nat
      OBVIOUS
    <3>2. ByteAt(0) \in 0..255
      BY <3>1, ByteAtIsByte DEF EfuseInv, Byte
    <3> QED  BY <1>3, <3>2 DEF InitPGData
  <2>2. /\ autoloadFail' \in BOOLEAN /\ reading' \in {"loaded", "walk"}
        /\ addr' \in {0, 1} /\ (map' \in Maps \/ map' = NoWord)
        /\ UNCHANGED <<burned, boot, word, params>>
    BY <1>3, EfuseAssumption DEF InitPGData, EfuseInv
  <2> HIDE DEF NoWord
  <2> QED  BY <1>1, <1>2, <2>1, <2>2 DEF EfuseInv, EfuseTypeOK, HoldsWords
<1>4. CASE WalkEnds
  <2> HIDE DEF NoWord
  <2> QED  BY <1>1, <1>2, <1>4 DEF WalkEnds, EfuseInv, EfuseTypeOK, HoldsWords
<1> QED  BY <1>3, <1>4

\* No step of the bring-up breaks what the EFUSE's reader holds.
LEMMA EfuseStep ==
  ASSUME EfuseInv, [Next]_vars
  PROVE  EfuseInv'
<1>1. CASE UNCHANGED efuseVars
  BY <1>1 DEF efuseVars, EfuseInv, EfuseTypeOK, HoldsWords
<1>2. CASE Open  BY <1>1, <1>2 DEF Open
<1>3. CASE ReadEfuse
  BY <1>3, WalkStep, ParseStep, ForgetStep, WalkBounds
     DEF ReadEfuse, EfuseNext, Refuse
<1>4. CASE HwReset  BY <1>1, <1>4 DEF HwReset
<1>5. CASE PowerOn  BY <1>1, <1>5 DEF PowerOn
<1>6. CASE WritePageEntry  BY <1>1, <1>6 DEF WritePageEntry
<1>7. CASE DownloadFirmware  BY <1>1, <1>7 DEF DownloadFirmware
<1>8. CASE FirmwareReports  BY <1>1, <1>8 DEF FirmwareReports
<1>9. CASE ConfigMac  BY <1>1, <1>9 DEF ConfigMac
<1>10. CASE InitPageBoundary  BY <1>1, <1>10 DEF InitPageBoundary
<1>11. CASE EnableMac  BY <1>1, <1>11 DEF EnableMac
<1>12. CASE ConfigBBAndRF  BY <1>1, <1>12 DEF ConfigBBAndRF
<1>13. CASE ReadOnce  BY <1>1, <1>13 DEF ReadOnce
<1>14. CASE LoopAgain  BY <1>1, <1>14 DEF LoopAgain
<1>15. CASE EndSession  BY <1>15, ForgetStep DEF EndSession
<1>16. CASE Unplug  BY <1>1, <1>16 DEF Unplug
<1>17. CASE UNCHANGED vars  BY <1>1, <1>17 DEF vars
<1> QED  BY <1>2, <1>3, <1>4, <1>5, <1>6, <1>7, <1>8, <1>9, <1>10, <1>11,
            <1>12, <1>13, <1>14, <1>15, <1>16, <1>17 DEF Next

\* What the adapter's registers and page tables may hold.
ChipInv ==
  /\ cr \in {"off", "dma", "txrx"} /\ bounded \in BOOLEAN
  /\ DOMAIN llt \subseteq 0..LastPage
  /\ entry \in 0..(LastPage + 1)

\* Each step writes entries of the table only.
LEMMA ChipStep ==
  ASSUME ChipInv, [Next]_vars
  PROVE  ChipInv'
<1> USE DEF ChipInv
<1>1. LastPage \in Nat
  BY AdapterAssumption
<1>2. CASE Open  BY <1>2 DEF Open
<1>3. CASE ReadEfuse  BY <1>3 DEF ReadEfuse
<1>4. CASE HwReset
  <2>1. DOMAIN NoPage = {}
    BY DEF NoPage
  <2> HIDE DEF NoPage
  <2> QED  BY <1>4, <2>1 DEF HwReset
<1>5. CASE PowerOn  BY <1>1, <1>5 DEF PowerOn
<1>6. CASE WritePageEntry
  <2>1. /\ entry \in 0..LastPage /\ entry' = entry + 1
        /\ DOMAIN llt' = DOMAIN llt \cup {entry}
        /\ UNCHANGED <<cr, bounded>>
    BY <1>1, <1>6 DEF WritePageEntry
  <2> QED  BY <1>1, <2>1
<1>7. CASE DownloadFirmware  BY <1>7 DEF DownloadFirmware
<1>8. CASE FirmwareReports  BY <1>8 DEF FirmwareReports
<1>9. CASE ConfigMac  BY <1>9 DEF ConfigMac
<1>10. CASE InitPageBoundary  BY <1>10 DEF InitPageBoundary
<1>11. CASE EnableMac  BY <1>11 DEF EnableMac
<1>12. CASE ConfigBBAndRF  BY <1>12 DEF ConfigBBAndRF
<1>13. CASE ReadOnce  BY <1>13 DEF ReadOnce
<1>14. CASE LoopAgain  BY <1>14 DEF LoopAgain
<1>15. CASE EndSession  BY <1>1, <1>15 DEF EndSession
<1>16. CASE Unplug
  <2>1. DOMAIN NoPage = {}
    BY DEF NoPage
  <2> HIDE DEF NoPage
  <2> QED  BY <1>16, <2>1 DEF Unplug
<1>17. CASE UNCHANGED vars  BY <1>17 DEF vars
<1> QED  BY <1>2, <1>3, <1>4, <1>5, <1>6, <1>7, <1>8, <1>9, <1>10, <1>11,
            <1>12, <1>13, <1>14, <1>15, <1>16, <1>17 DEF Next

\* At first nothing is read, and the chip holds nothing.
LEMMA AdapterStarts == Init => EfuseInv /\ ChipInv
<1>1. SUFFICES ASSUME Init  PROVE EfuseInv /\ ChipInv
  OBVIOUS
<1>2. LastPage \in Nat /\ Len512 \in Nat
  BY AdapterAssumption, EfuseAssumption
<1>3. DOMAIN NoWord = {} /\ HoldsWords(NoWord) /\ DOMAIN NoPage = {}
  BY DEF NoWord, NoPage, HoldsWords
<1>4. NoParams.rfe = 0 /\ NoParams.crystalCap = 0
  BY DEF NoParams
<1>5. burned \in Efuses /\ boot \in Boots /\ autoloadFail = boot.fail /\ Fresh
  BY <1>1 DEF Init, EfuseInit
<1>6. autoloadFail \in BOOLEAN
  BY <1>5, EfuseAssumption
<1> HIDE DEF NoWord, NoPage, NoParams
<1>7. EfuseInv
  BY <1>2, <1>3, <1>4, <1>5, <1>6 DEF Fresh, EfuseInv, EfuseTypeOK
<1>8. ChipInv
  <2>1. cr = "off" /\ llt = NoPage /\ bounded = FALSE /\ entry = 0
    BY <1>1 DEF Init
  <2>2. 0 \in 0..(LastPage + 1)
    BY <1>2
  <2> QED  BY <1>3, <2>1, <2>2 DEF ChipInv
<1> QED  BY <1>7, <1>8

\* Each variable of the bring-up keeps its type, the reads of the EFUSE and
\* the writes of the page table their bounds.
THEOREM AdapterTypeCorrect == Spec => []AdapterTypeOK
<1>1. EfuseInv /\ ChipInv /\ [Next]_vars => (EfuseInv /\ ChipInv)'
  BY EfuseStep, ChipStep
<1>2. ASSUME EfuseInv, ChipInv, FirmwareInv, Placing, LoadInv
      PROVE  AdapterTypeOK
  <2>1. Len(loaded) \in 0..5
    <3>1. PICK n \in 0..5 : loaded = Loads(n)
      BY <1>2 DEF LoadInv
    <3>2. Len(Loads(n)) = n
      BY DEF Loads
    <3> QED  BY <3>1, <3>2
  <2>2. FirmwareTypeOK
    BY <1>2 DEF FirmwareInv, McuTypeOK, Vouching, Placing, FirmwareTypeOK
  <2>3. phase \in Phases
    BY <1>2 DEF LoadInv, ReadingInv
  <2> QED  BY <1>2, <2>1, <2>2, <2>3 DEF EfuseInv, ChipInv, AdapterTypeOK
<1> QED  BY <1>1, <1>2, AdapterStarts, FirmwareInvariant, PlacingInvariant,
            LoadInvariant, PTL DEF Spec

-----------------------------------------------------------------------------
\* The parser of a transfer: put together, places, rounds, what is kept.

\* One sequence more is put behind the others.
LEMMA FlattenOneMore ==
  ASSUME NEW E, NEW ss \in Seq(Seq(E)), NEW n \in Nat, Len(ss) = n + 1,
         NEW rr \in Seq(Seq(E)), Len(rr) = n, \A i \in 1..n : rr[i] = ss[i]
  PROVE  /\ FlattenSeq(ss) = FlattenSeq(rr) \o ss[n + 1]
         /\ FlattenSeq(rr) \in Seq(E)
<1>1. PICK f : Flattens(f, E, ss) /\ FlattenSeq(ss) = f[n + 1]
  BY Flattened
<1>2. PICK g : Flattens(g, E, rr) /\ FlattenSeq(rr) = g[n]
  BY Flattened
<1> DEFINE Same == {i \in Nat : i <= n => f[i] = g[i]}
<1>3. 0 \in Same
  BY <1>1, <1>2 DEF Flattens
<1>4. ASSUME NEW i \in Nat, i \in Same  PROVE i + 1 \in Same
  <2>1. SUFFICES ASSUME i + 1 <= n  PROVE f[i + 1] = g[i + 1]
    OBVIOUS
  <2>2. /\ i + 1 \in 1..Len(ss) /\ i + 1 \in 1..Len(rr) /\ i + 1 \in 1..n
        /\ (i + 1) - 1 = i /\ f[i] = g[i]
    BY <1>4, <2>1
  <2>3. f[i + 1] = f[i] \o ss[i + 1]
    BY <1>1, <2>2 DEF Flattens
  <2>4. g[i + 1] = g[i] \o rr[i + 1]
    BY <1>2, <2>2 DEF Flattens
  <2> QED  BY <2>2, <2>3, <2>4
<1>5. n \in Same
  <2> HIDE DEF Same
  <2> QED  BY <1>3, <1>4, Induction
<1>6. f[n] = g[n]
  BY <1>5
<1>7. /\ n + 1 \in 1..Len(ss) /\ (n + 1) - 1 = n /\ n \in 0..Len(rr)
  OBVIOUS
<1>8. f[n + 1] = f[n] \o ss[n + 1]
  BY <1>1, <1>7 DEF Flattens
<1>9. g[n] \in Seq(E)
  BY <1>2, <1>7 DEF Flattens
<1> QED  BY <1>1, <1>2, <1>6, <1>8, <1>9

\* Nothing put together is nothing.
LEMMA FlattenNone == FlattenSeq(<<>>) = <<>>
BY DEF FlattenSeq

\* What the first n of the sequences ss make up.
Made(ss, n) == FlattenSeq([j \in 1..n |-> ss[j]])

\* The first N of the sequences ss are over E.
Over(ss, E, N) == \A j \in 1..N : ss[j] \in Seq(E)

\* One more of them.
LEMMA MadeOneMore ==
  ASSUME NEW E, NEW N \in Nat, NEW ss, Over(ss, E, N),
         NEW n \in Nat, n < N
  PROVE  /\ Made(ss, 0) = <<>> /\ Made(ss, n) \in Seq(E)
         /\ Made(ss, n + 1) = Made(ss, n) \o ss[n + 1]
<1> DEFINE s1 == [j \in 1..(n + 1) |-> ss[j]]
           s0 == [j \in 1..n |-> ss[j]]
<1>1. \A j \in 1..(n + 1) : ss[j] \in Seq(E)
  BY DEF Over
<1> DEFINE T == Seq(E)
<1> HIDE DEF T
<1>2. \A j \in 1..(n + 1) : ss[j] \in T
  BY <1>1 DEF T
<1>3. s1 \in Seq(T) /\ Len(s1) = n + 1 /\ s1[n + 1] = ss[n + 1]
  BY <1>2
<1>4. s0 \in Seq(T) /\ Len(s0) = n /\ \A j \in 1..n : s0[j] = s1[j]
  BY <1>2
<1> HIDE DEF s0, s1
<1>5. FlattenSeq(s1) = FlattenSeq(s0) \o s1[n + 1] /\ FlattenSeq(s0) \in T
  BY <1>3, <1>4, FlattenOneMore DEF T
<1>6. Made(ss, 0) = <<>>
  <2>1. [j \in 1..0 |-> ss[j]] = <<>>
    OBVIOUS
  <2> QED  BY <2>1, FlattenNone DEF Made
<1> QED  BY <1>3, <1>5, <1>6 DEF Made, s0, s1, T

\* Whatever the adapter may pack, whole or cut short.
AllTransfers == [units : Seq(Units), size : Nat]

\* The next place after a unit.
NextPlace(p, u) == 8 * ((p + Whole(u) + 7) \div 8)

\* h is the recursive function of Places.
PlacesFollow(h, us) ==
  h = [n \in 0..Len(us) |->
         IF n = 0 THEN <<0>>
         ELSE Append(h[n - 1], NextPlace(h[n - 1][n], us[n]))]

\* There is such a function for all units.
LEMMA PlacesRun ==
  ASSUME NEW us, Len(us) \in Nat
  PROVE  \E h : PlacesFollow(h, us)
<1> DEFINE Upto(h, n) ==
             h = [i \in 0..n |->
                    IF i = 0 THEN <<0>>
                    ELSE Append(h[i - 1], NextPlace(h[i - 1][i], us[i]))]
           Has == {n \in Nat : \E h : Upto(h, n)}
<1>1. 0 \in Has
  <2> DEFINE h == [i \in 0..0 |-> <<0>>]
  <2>1. Upto(h, 0)
    OBVIOUS
  <2> HIDE DEF Upto
  <2> QED  BY <2>1
<1>2. ASSUME NEW n \in Nat, n \in Has  PROVE n + 1 \in Has
  <2>1. PICK h : Upto(h, n)
    BY <1>2
  <2> DEFINE last == Append(h[n], NextPlace(h[n][n + 1], us[n + 1]))
             g == [i \in 0..(n + 1) |-> IF i = n + 1 THEN last ELSE h[i]]
  <2> HIDE DEF last
  <2>2. ASSUME NEW i \in 0..(n + 1)
        PROVE  g[i] = IF i = 0 THEN <<0>>
                      ELSE Append(g[i - 1], NextPlace(g[i - 1][i], us[i]))
    <3>1. CASE i = n + 1
      <4>1. g[i] = last /\ g[i - 1] = h[n] /\ i # 0
        BY <3>1
      <4> HIDE DEF g
      <4> QED  BY <3>1, <4>1 DEF last
    <3>2. CASE i # n + 1
      <4>1. i \in 0..n /\ g[i] = h[i] /\ (i # 0 => g[i - 1] = h[i - 1])
        BY <3>2
      <4>2. h[i] = IF i = 0 THEN <<0>>
                   ELSE Append(h[i - 1], NextPlace(h[i - 1][i], us[i]))
        BY <2>1, <4>1
      <4> HIDE DEF g
      <4> QED  BY <4>1, <4>2
    <3> QED  BY <3>1, <3>2
  <2>3. g = [i \in 0..(n + 1) |-> g[i]]
    OBVIOUS
  <2> HIDE DEF g
  <2>4. Upto(g, n + 1)
    BY <2>2, <2>3
  <2> HIDE DEF Upto
  <2> QED  BY <2>4
<1>3. Len(us) \in Has
  <2> HIDE DEF Has
  <2> QED  BY <1>1, <1>2, Induction
<1> QED  BY <1>3 DEF PlacesFollow

\* Rounding up to a multiple of eight, as the adapter and the parser do it.
LEMMA RoundsUp ==
  ASSUME NEW p \in Nat, NEW w \in Nat
  PROVE  /\ 8 * ((p + w + 7) \div 8) \in Nat
         /\ p + w <= 8 * ((p + w + 7) \div 8)
         /\ (8 * ((p + w + 7) \div 8)) % 8 = 0
         /\ p % 8 = 0 => 8 * ((p + w + 7) \div 8) = p + Rnd8(w)
         /\ Rnd8(w) \in Nat /\ w <= Rnd8(w)
BY DEF Rnd8

\* The places of units: the first at zero, each behind the one before.
LEMMA PlacesAre ==
  ASSUME NEW us \in Seq(Units)
  PROVE  /\ Places(us) \in Seq(Nat) /\ Len(Places(us)) = Len(us) + 1
         /\ Places(us)[1] = 0
         /\ \A i \in 1..Len(us) :
              Places(us)[i + 1] = NextPlace(Places(us)[i], us[i])
<1> DEFINE f == CHOOSE h : PlacesFollow(h, us)
           Good(s, n) ==
             /\ s \in Seq(Nat) /\ Len(s) = n + 1 /\ s[1] = 0
             /\ \A i \in 1..n : s[i + 1] = NextPlace(s[i], us[i])
           Fine == {n \in Nat : n <= Len(us) => Good(f[n], n)}
<1>1. PlacesFollow(f, us)
  BY PlacesRun
<1>2. Places(us) = f[Len(us)]
  BY DEF Places, PlacesFollow, NextPlace
<1> HIDE DEF f
<1>3. 0 \in Fine
  <2>1. f[0] = <<0>>
    BY <1>1 DEF PlacesFollow
  <2>2. Good(<<0>>, 0)
    OBVIOUS
  <2> QED  BY <2>1, <2>2
<1>4. ASSUME NEW n \in Nat, n \in Fine  PROVE n + 1 \in Fine
  <2>1. SUFFICES ASSUME n + 1 <= Len(us)  PROVE Good(f[n + 1], n + 1)
    OBVIOUS
  <2> DEFINE s == f[n]
             x == NextPlace(s[n + 1], us[n + 1])
  <2>2. n + 1 \in 0..Len(us) /\ (n + 1) - 1 = n /\ n + 1 # 0
    BY <2>1
  <2>3. Good(s, n)
    BY <1>4, <2>1
  <2>4. f[n + 1] = Append(s, x)
    BY <1>1, <2>2 DEF PlacesFollow
  <2>5. x \in Nat
    <3>1. us[n + 1] \in Units
      BY <2>1
    <3>2. Whole(us[n + 1]) \in Nat
      BY <3>1 DEF Whole, Units, DescSize
    <3>3. s[n + 1] \in Nat
      BY <2>3
    <3> HIDE DEF s
    <3> QED  BY <3>2, <3>3, RoundsUp DEF NextPlace
  <2> DEFINE r == Append(s, x)
  <2>6. /\ r \in Seq(Nat) /\ Len(r) = n + 2 /\ r[n + 2] = x
        /\ \A i \in 1..(n + 1) : r[i] = s[i]
    <3> HIDE DEF s, x
    <3> QED  BY <2>3, <2>5
  <2>7. x = NextPlace(s[n + 1], us[n + 1])
    OBVIOUS
  <2> HIDE DEF s, x, r
  <2>8. ASSUME NEW i \in 1..(n + 1)
        PROVE  r[i + 1] = NextPlace(r[i], us[i])
    <3>1. CASE i = n + 1
      <4>1. r[i] = s[n + 1] /\ r[i + 1] = x
        BY <2>6, <3>1
      <4> QED  BY <2>7, <3>1, <4>1
    <3>2. CASE i # n + 1
      <4>1. i \in 1..n /\ i + 1 \in 1..(n + 1)
        BY <3>2
      <4>2. r[i] = s[i] /\ r[i + 1] = s[i + 1]
        BY <2>6, <4>1
      <4> QED  BY <2>3, <4>1, <4>2
    <3> QED  BY <3>1, <3>2
  <2>9. Good(r, n + 1)
    BY <2>3, <2>6, <2>8
  <2> QED  BY <2>4, <2>9 DEF r
<1>5. Len(us) \in Fine
  <2>1. \A n \in Nat : n \in Fine
    <3> HIDE DEF Fine
    <3> QED  BY <1>3, <1>4, Induction
  <2> QED  BY <2>1
<1>6. Good(f[Len(us)], Len(us))
  BY <1>5
<1> QED  BY <1>2, <1>6

\* What a unit takes is more than nothing.
LEMMA WholeIs ==
  ASSUME NEW u \in Units
  PROVE  Whole(u) \in Nat /\ Whole(u) >= DescSize /\ u.len \in Nat \ {0}
BY DEF Whole, Units, DescSize

\* Each place is a multiple of eight, and behind those before it.
LEMMA PlacesAscend ==
  ASSUME NEW us \in Seq(Units)
  PROVE  /\ \A i \in 1..(Len(us) + 1) :
              Places(us)[i] \in Nat /\ Places(us)[i] % 8 = 0
         /\ \A i \in 1..Len(us) :
              /\ Places(us)[i + 1] = Places(us)[i] + Rnd8(Whole(us[i]))
              /\ Places(us)[i] + Whole(us[i]) <= Places(us)[i + 1]
         /\ \A i, j \in 1..(Len(us) + 1) :
              i < j => Places(us)[i] < Places(us)[j]
<1> DEFINE P == Places(us)
           n == Len(us)
<1>1. /\ P \in Seq(Nat) /\ Len(P) = n + 1 /\ P[1] = 0 /\ n \in Nat
      /\ \A i \in 1..n : P[i + 1] = NextPlace(P[i], us[i])
  BY PlacesAre
<1>2. \A i \in 1..n : Whole(us[i]) \in Nat /\ Whole(us[i]) >= 24
  BY WholeIs DEF DescSize
<1> HIDE DEF P, n
<1>3. \A i \in 1..(n + 1) : P[i] \in Nat
  BY <1>1
<1>4. \A i \in 1..n : /\ P[i] + Whole(us[i]) <= P[i + 1]
                      /\ P[i + 1] % 8 = 0
                      /\ P[i] % 8 = 0 => P[i + 1] = P[i] + Rnd8(Whole(us[i]))
  <2> TAKE i \in 1..n
  <2>1. P[i] \in Nat /\ Whole(us[i]) \in Nat
    BY <1>1, <1>2, <1>3
  <2>2. P[i + 1] = 8 * ((P[i] + Whole(us[i]) + 7) \div 8)
    BY <1>1 DEF NextPlace
  <2> DEFINE p == P[i]
             w == Whole(us[i])
             q == P[i + 1]
  <2>3. p \in Nat /\ w \in Nat /\ q = 8 * ((p + w + 7) \div 8)
    BY <2>1, <2>2
  <2> HIDE DEF p, w, q
  <2>4. /\ p + w <= q /\ q % 8 = 0
        /\ p % 8 = 0 => q = p + Rnd8(w)
    BY <2>3, RoundsUp
  <2> QED  BY <2>4 DEF p, w, q
<1>5. \A i \in 1..(n + 1) : P[i] % 8 = 0
  <2> TAKE i \in 1..(n + 1)
  <2>1. CASE i = 1
    BY <1>1, <2>1
  <2>2. CASE i # 1
    <3>1. i - 1 \in 1..n /\ (i - 1) + 1 = i
      BY <1>1, <2>2
    <3> QED  BY <1>4, <3>1
  <2> QED  BY <2>1, <2>2
<1>6. \A i \in 1..n : P[i + 1] = P[i] + Rnd8(Whole(us[i]))
  BY <1>1, <1>4, <1>5
<1> DEFINE Below == {j \in Nat : j <= n => \A i \in 1..j : P[i] < P[j + 1]}
<1>7. \A j \in Nat : j \in Below
  <2>1. 0 \in Below
    OBVIOUS
  <2>2. ASSUME NEW j \in Nat, j \in Below  PROVE j + 1 \in Below
    <3>1. SUFFICES ASSUME j + 1 <= n, NEW i \in 1..(j + 1)
                   PROVE  P[i] < P[(j + 1) + 1]
      OBVIOUS
    <3>2. j + 1 \in 1..n /\ i \in 1..(n + 1) /\ (j + 1) + 1 \in 1..(n + 1)
      BY <1>1, <3>1
    <3>3. P[j + 1] + Whole(us[j + 1]) <= P[(j + 1) + 1]
      BY <1>4, <3>2
    <3>4. Whole(us[j + 1]) \in Nat /\ Whole(us[j + 1]) >= 24
      BY <1>2, <3>2
    <3>5. P[j + 1] \in Nat /\ P[(j + 1) + 1] \in Nat /\ P[i] \in Nat
      BY <1>1, <1>3, <3>2
    <3>6. i # j + 1 => P[i] < P[j + 1]
      <4>1. i # j + 1 => i \in 1..j
        OBVIOUS
      <4>2. j <= n
        BY <1>1, <3>1
      <4>3. \A k \in 1..j : P[k] < P[j + 1]
        BY <2>2, <4>2
      <4> HIDE DEF Below
      <4> QED  BY <4>1, <4>3
    <3> QED  BY <3>3, <3>4, <3>5, <3>6
  <2> HIDE DEF Below
  <2> QED  BY <2>1, <2>2, Induction
<1>8. \A i, j \in 1..(n + 1) : i < j => P[i] < P[j]
  <2> TAKE i, j \in 1..(n + 1)
  <2>1. SUFFICES ASSUME i < j  PROVE P[i] < P[j]
    OBVIOUS
  <2>2. j - 1 \in Nat /\ j - 1 <= n /\ i \in 1..(j - 1) /\ (j - 1) + 1 = j
    BY <1>1, <2>1
  <2>3. j - 1 \in Below
    BY <1>7, <2>2
  <2>4. P[i] < P[(j - 1) + 1]
    BY <2>2, <2>3
  <2> QED  BY <2>2, <2>4
<1>9. \A i \in 1..n : P[i] + Whole(us[i]) <= P[i + 1]
  BY <1>4
<1> QED  BY <1>3, <1>5, <1>6, <1>8, <1>9 DEF P, n

\* A descriptor that is read is that of a unit, or zero.
LEMMA QueryIs ==
  ASSUME NEW t \in AllTransfers, NEW p
  PROVE  QueryRxDesc(t, p) \in Units \cup {Zero}
<1> DEFINE at == {i \in DOMAIN t.units : Places(t.units)[i] = p}
<1>1. t.units \in Seq(Units)
  BY DEF AllTransfers
<1>2. CASE at = {}
  BY <1>2 DEF QueryRxDesc
<1>3. CASE at # {}
  <2>1. (CHOOSE i \in at : TRUE) \in DOMAIN t.units
    BY <1>3
  <2> DEFINE c == CHOOSE i \in at : TRUE
  <2> HIDE DEF c
  <2>2. QueryRxDesc(t, p) = t.units[c]
    BY <1>3 DEF QueryRxDesc, c
  <2>3. c \in 1..Len(t.units)
    BY <1>1, <2>1 DEF c
  <2> QED  BY <1>1, <2>2, <2>3
<1> QED  BY <1>2, <1>3

\* Where the adapter put a unit its descriptor is read; behind the last one
\* there is none.
LEMMA QueryAt ==
  ASSUME NEW t \in AllTransfers
  PROVE  /\ \A i \in 1..Len(t.units) :
              QueryRxDesc(t, Places(t.units)[i]) = t.units[i]
         /\ QueryRxDesc(t, Places(t.units)[Len(t.units) + 1]) = Zero
<1> DEFINE us == t.units
           P == Places(us)
           n == Len(us)
<1>1. us \in Seq(Units) /\ n \in Nat /\ DOMAIN us = 1..n
  BY DEF AllTransfers
<1>2. \A i, j \in 1..(n + 1) : i # j => P[i] # P[j]
  <2>1. us \in Seq(Units)
    BY <1>1
  <2> HIDE DEF us
  <2>2. \A i, j \in 1..(n + 1) : i < j => P[i] < P[j]
    BY <2>1, PlacesAscend
  <2>3. \A i \in 1..(n + 1) : P[i] \in Nat
    BY <2>1, PlacesAscend
  <2> HIDE DEF P, n
  <2> QED  BY <1>1, <2>2, <2>3
<1>3. ASSUME NEW p
      PROVE  QueryRxDesc(t, p) =
               LET at == {i \in DOMAIN us : P[i] = p}
               IN IF at = {} THEN Zero ELSE us[CHOOSE i \in at : TRUE]
  BY DEF QueryRxDesc
<1> HIDE DEF us, P, n
<1>4. ASSUME NEW i \in 1..n  PROVE QueryRxDesc(t, P[i]) = us[i]
  <2> DEFINE at == {j \in DOMAIN us : P[j] = P[i]}
  <2>1. at = {i}
    BY <1>1, <1>2
  <2> HIDE DEF at
  <2>2. (CHOOSE j \in at : TRUE) = i
    BY <2>1
  <2> QED  BY <1>3, <2>1, <2>2 DEF at
<1>5. QueryRxDesc(t, P[n + 1]) = Zero
  <2>1. {j \in DOMAIN us : P[j] = P[n + 1]} = {}
    BY <1>1, <1>2
  <2> QED  BY <1>3, <2>1
<1> QED  BY <1>4, <1>5 DEF us, P, n

\* A round of recvbuf2recvframe at position p is the last.
Stops(t, p) ==
  LET u == QueryRxDesc(t, p)
  IN u.kind = "damaged" \/ u.len <= 0 \/ Whole(u) > t.size - p

\* What a round keeps of unit u at position p.
Kept(u, p) ==
  IF u.kind = "report" THEN <<>>
  ELSE <<[at |-> p + DescSize + u.drv + u.shift, len |-> u.len,
          kind |-> u.kind]>>

\* How far a round goes.
Onward(t, p) == Rnd8(Whole(QueryRxDesc(t, p)))

\* What a round and those after it keep, h being what is kept from a position.
Rest(h, t, p) ==
  IF Stops(t, p) THEN <<>>
  ELSE Kept(QueryRxDesc(t, p), p)
         \o IF Onward(t, p) >= t.size - p THEN <<>> ELSE h[p + Onward(t, p)]

\* A function from positions, lo the least of them, to what is still parsed.
ParseFollows(h, t, lo) == h = [p \in lo..t.size |-> Rest(h, t, p)]

\* The parser always goes on.
LEMMA OnwardIs ==
  ASSUME NEW t \in AllTransfers, NEW p
  PROVE  /\ Onward(t, p) \in Nat /\ Onward(t, p) >= 24
         /\ Whole(QueryRxDesc(t, p)) \in Nat
         /\ Whole(QueryRxDesc(t, p)) <= Onward(t, p)
         /\ Whole(QueryRxDesc(t, p)) >= 24
<1> DEFINE u == QueryRxDesc(t, p)
           w == Whole(u)
<1>1. u \in Units \cup {Zero}
  BY QueryIs
<1> HIDE DEF u
<1>2. Whole(Zero) = 24
  BY DEF Whole, Zero, DescSize
<1>3. w \in Nat /\ w >= 24
  BY <1>1, <1>2, WholeIs DEF DescSize
<1> HIDE DEF w
<1>4. 0 \in Nat
  OBVIOUS
<1>5. Rnd8(w) \in Nat /\ w <= Rnd8(w)
  BY <1>3, <1>4, RoundsUp
<1> QED  BY <1>3, <1>5 DEF Onward, w, u

\* There is such a function for every transfer.
LEMMA ParseRuns ==
  ASSUME NEW t \in AllTransfers
  PROVE  \E h : ParseFollows(h, t, 0)
<1> DEFINE size == t.size
           Has == {k \in Nat : k <= size =>
                     \E h : ParseFollows(h, t, size - k)}
<1>1. size \in Nat
  BY DEF AllTransfers
<1>2. \A p : /\ Onward(t, p) \in Nat /\ Onward(t, p) >= 24
             /\ Whole(QueryRxDesc(t, p)) \in Nat
             /\ Whole(QueryRxDesc(t, p)) >= 24
  BY OnwardIs
<1>3. 0 \in Has
  <2> DEFINE h == [p \in size..size |-> <<>>]
  <2>1. \A p \in size..size : Stops(t, p)
    BY <1>1, <1>2 DEF Stops
  <2>2. \A p \in size..size : Rest(h, t, p) = <<>>
    BY <2>1 DEF Rest
  <2>3. h = [p \in size..size |-> Rest(h, t, p)]
    BY <2>2
  <2>4. size - 0 = size
    BY <1>1
  <2> HIDE DEF h
  <2>5. ParseFollows(h, t, size - 0)
    BY <2>3, <2>4 DEF ParseFollows
  <2> QED  BY <2>5
<1>4. ASSUME NEW k \in Nat, k \in Has  PROVE k + 1 \in Has
  <2>1. SUFFICES ASSUME k + 1 <= size
                 PROVE  \E h : ParseFollows(h, t, size - (k + 1))
    OBVIOUS
  <2>2. PICK h : ParseFollows(h, t, size - k)
    BY <1>1, <1>4, <2>1
  <2> DEFINE lo == size - (k + 1)
             g == [p \in lo..size |-> IF p = lo THEN Rest(h, t, p) ELSE h[p]]
  <2>3. lo \in Nat /\ lo + 1 = size - k /\ lo < size
    BY <1>1, <2>1
  <2>4. h = [p \in (lo + 1)..size |-> Rest(h, t, p)]
    BY <2>2, <2>3 DEF ParseFollows
  <2> HIDE DEF lo, size
  <2>5. ASSUME NEW p \in lo..size  PROVE Rest(g, t, p) = Rest(h, t, p)
    <3>1. CASE Onward(t, p) >= size - p
      BY <3>1 DEF Rest, size
    <3>2. CASE ~(Onward(t, p) >= size - p)
      <4>1. p + Onward(t, p) \in (lo + 1)..size
        BY <1>1, <1>2, <2>3, <3>2
      <4>2. g[p + Onward(t, p)] = h[p + Onward(t, p)]
        BY <2>3, <4>1
      <4> HIDE DEF g
      <4> QED  BY <4>2 DEF Rest
    <3> QED  BY <3>1, <3>2
  <2>6. ASSUME NEW p \in lo..size  PROVE g[p] = Rest(g, t, p)
    <3>1. g[p] = IF p = lo THEN Rest(h, t, p) ELSE h[p]
      OBVIOUS
    <3>2. p # lo => h[p] = Rest(h, t, p)
      <4>1. p # lo => p \in (lo + 1)..size
        BY <1>1, <2>3
      <4> QED  BY <2>4, <4>1
    <3> HIDE DEF g
    <3> QED  BY <2>5, <3>1, <3>2
  <2>7. g = [p \in lo..size |-> g[p]]
    OBVIOUS
  <2> HIDE DEF g
  <2>8. ParseFollows(g, t, lo)
    BY <2>6, <2>7 DEF ParseFollows, size
  <2> QED  BY <2>8 DEF lo
<1>5. size \in Has
  <2> HIDE DEF Has
  <2> QED  BY <1>1, <1>3, <1>4, Induction
<1>6. size - size = 0
  BY <1>1
<1> QED  BY <1>1, <1>5, <1>6

\* What the parser makes of a transfer.
LEMMA ParseIs ==
  ASSUME NEW t \in AllTransfers
  PROVE  \E h : /\ \A p \in 0..t.size : h[p] = Rest(h, t, p)
                /\ RecvBuf2RecvFrame(t) = h[0]
<1> DEFINE h == CHOOSE f : ParseFollows(f, t, 0)
<1>1. ParseFollows(h, t, 0)
  BY ParseRuns
<1>2. RecvBuf2RecvFrame(t) = h[0]
  BY DEF RecvBuf2RecvFrame, ParseFollows, Rest, Stops, Kept, Onward
<1> HIDE DEF h
<1>3. \A p \in 0..t.size : h[p] = Rest(h, t, p)
  BY <1>1 DEF ParseFollows
<1> QED  BY <1>2, <1>3

\* A packet as the parser keeps it.
Packets == [at : Nat, len : Nat, kind : Kinds80211]

\* What a unit, or an empty descriptor, is kept as.
LEMMA KeptIs ==
  ASSUME NEW u \in Units \cup {Zero}, NEW p \in Nat
  PROVE  Kept(u, p) \in Seq(Packets)
<1>1. /\ u.drv \in Nat /\ u.shift \in Nat /\ u.len \in Nat
      /\ u.kind \in Kinds80211
  BY DEF Units, Zero, Kinds80211
<1>2. p + DescSize + u.drv + u.shift \in Nat
  BY <1>1 DEF DescSize
<1> DEFINE x == [at |-> p + DescSize + u.drv + u.shift, len |-> u.len,
                 kind |-> u.kind]
<1>3. x \in Packets
  BY <1>1, <1>2 DEF Packets
<1>4. Kept(u, p) = IF u.kind = "report" THEN <<>> ELSE <<x>>
  BY DEF Kept
<1> HIDE DEF x
<1> QED  BY <1>3, <1>4

\* What is parsed are packets.
LEMMA ParseTyped ==
  ASSUME NEW t \in AllTransfers, NEW h,
         \A p \in 0..t.size : h[p] = Rest(h, t, p)
  PROVE  \A p \in 0..t.size : h[p] \in Seq(Packets)
<1> DEFINE size == t.size
           T == Seq(Packets)
           Has == {k \in Nat : k <= size =>
                     \A p \in (size - k)..size : h[p] \in T}
<1>1. size \in Nat /\ <<>> \in T
  BY DEF AllTransfers
<1>2. \A p \in 0..size :
        h[p] = IF Stops(t, p) THEN <<>>
               ELSE Kept(QueryRxDesc(t, p), p)
                      \o IF Onward(t, p) >= size - p THEN <<>>
                         ELSE h[p + Onward(t, p)]
  BY DEF Rest
<1>3. \A p : Onward(t, p) \in Nat /\ Onward(t, p) >= 24
  BY OnwardIs
<1>4. \A p \in Nat : Kept(QueryRxDesc(t, p), p) \in T
  BY KeptIs, QueryIs
<1>5. Stops(t, size)
  <2>1. /\ Whole(QueryRxDesc(t, size)) \in Nat
        /\ Whole(QueryRxDesc(t, size)) >= 24
    BY OnwardIs
  <2> QED  BY <1>1, <2>1 DEF Stops
<1>6. \A a, b \in T : a \o b \in T
  OBVIOUS
<1> HIDE DEF size, T
<1>7. 0 \in Has
  <2>1. h[size] = <<>>
    BY <1>1, <1>2, <1>5
  <2> QED  BY <1>1, <2>1
<1>8. ASSUME NEW k \in Nat, k \in Has  PROVE k + 1 \in Has
  <2>1. SUFFICES ASSUME k + 1 <= size, NEW p \in (size - (k + 1))..size
                 PROVE  h[p] \in T
    OBVIOUS
  <2>2. p \in Nat /\ p \in 0..size
    BY <1>1, <2>1
  <2>3. CASE Stops(t, p)
    BY <1>1, <1>2, <2>2, <2>3
  <2>4. CASE ~Stops(t, p) /\ Onward(t, p) >= size - p
    <3>1. h[p] = Kept(QueryRxDesc(t, p), p) \o <<>>
      BY <1>2, <2>2, <2>4
    <3> QED  BY <1>1, <1>4, <1>6, <2>2, <3>1
  <2>5. CASE ~Stops(t, p) /\ ~(Onward(t, p) >= size - p)
    <3>1. h[p] = Kept(QueryRxDesc(t, p), p) \o h[p + Onward(t, p)]
      BY <1>2, <2>2, <2>5
    <3>2. p + Onward(t, p) \in (size - k)..size
      BY <1>1, <1>3, <2>1, <2>2, <2>5
    <3>3. h[p + Onward(t, p)] \in T
      <4>1. k <= size
        BY <1>1, <2>1
      <4> QED  BY <1>8, <3>2, <4>1
    <3> QED  BY <1>4, <1>6, <2>2, <3>1, <3>3
  <2> QED  BY <2>3, <2>4, <2>5
<1>9. size \in Has
  <2> HIDE DEF Has
  <2> QED  BY <1>1, <1>7, <1>8, Induction
<1>10. size - size = 0
  BY <1>1
<1> QED  BY <1>1, <1>9, <1>10 DEF size, T

\* What the units are kept as.
KeptOf(t) ==
  [i \in 1..Len(t.units) |-> Kept(t.units[i], Places(t.units)[i])]

\* The parser has kept the units before place i + 1 and stands at it.
LEMMA ParsedUpTo ==
  ASSUME NEW t \in AllTransfers, t.size > 0, NEW h,
         \A p \in 0..t.size : h[p] = Rest(h, t, p),
         RecvBuf2RecvFrame(t) = h[0],
         NEW i \in 0..Len(t.units), Intact(t, i)
  PROVE  /\ Made(KeptOf(t), i) \in Seq(Packets)
         /\ RecvBuf2RecvFrame(t) =
              Made(KeptOf(t), i)
                \o IF Places(t.units)[i + 1] < t.size
                   THEN h[Places(t.units)[i + 1]] ELSE <<>>
<1> DEFINE us == t.units
           size == t.size
           P == Places(us)
           n == Len(us)
           K == KeptOf(t)
           R(j) == IF P[j + 1] < size THEN h[P[j + 1]] ELSE <<>>
           T == Seq(Packets)
           Good == {j \in Nat : j <= n /\ Intact(t, j) =>
                      Made(K, j) \in T /\ h[0] = Made(K, j) \o R(j)}
<1>1. us \in Seq(Units) /\ n \in Nat /\ size \in Nat /\ size > 0
  BY DEF AllTransfers
<1>2. /\ P[1] = 0 /\ \A j \in 1..(n + 1) : P[j] \in Nat
      /\ \A j \in 1..n : P[j + 1] = P[j] + Rnd8(Whole(us[j]))
  <2>1. us \in Seq(Units)
    BY <1>1
  <2> HIDE DEF us
  <2> QED  BY <2>1, PlacesAre, PlacesAscend
<1>3. \A j \in 1..n : K[j] = Kept(us[j], P[j]) /\ K[j] \in T
  <2> TAKE j \in 1..n
  <2>1. us[j] \in Units /\ P[j] \in Nat
    BY <1>1, <1>2
  <2>2. Kept(us[j], P[j]) \in Seq(Packets)
    BY <2>1, KeptIs
  <2> QED  BY <2>2 DEF KeptOf
<1>4. \A p \in 0..size : h[p] \in T
  BY ParseTyped
<1>5. \A j \in 1..n : QueryRxDesc(t, P[j]) = us[j]
  BY QueryAt
<1>6. \A j \in 1..n : Intact(t, j) =>
        /\ us[j].kind # "damaged" /\ P[j] + Whole(us[j]) <= size
  BY <1>1 DEF Intact
<1>7. \A p \in 0..size :
        h[p] = IF Stops(t, p) THEN <<>>
               ELSE Kept(QueryRxDesc(t, p), p)
                      \o IF Onward(t, p) >= size - p THEN <<>>
                         ELSE h[p + Onward(t, p)]
  BY DEF Rest
<1>8. \A j \in 1..n : Whole(us[j]) \in Nat /\ Whole(us[j]) >= 24
                      /\ us[j].len \in Nat \ {0}
  BY <1>1, WholeIs DEF DescSize
<1>9. \A j \in Nat : Intact(t, j + 1) => Intact(t, j)
  BY DEF Intact
<1>10. \A j \in 1..n : Onward(t, P[j]) = Rnd8(Whole(us[j]))
  BY <1>5 DEF Onward
<1>11. \A j \in 1..n :
         Stops(t, P[j]) <=>
           (us[j].kind = "damaged" \/ us[j].len <= 0
             \/ Whole(us[j]) > size - P[j])
  BY <1>5 DEF Stops
<1>12. /\ Made(K, 0) = <<>>
       /\ \A j \in 0..(n - 1) :
            /\ Made(K, j) \in T
            /\ Made(K, j + 1) = Made(K, j) \o K[j + 1]
  <2>1. Over(K, Packets, n)
    BY <1>3 DEF Over
  <2>2. \A j \in 0..(n - 1) : j \in Nat /\ j < n
    BY <1>1
  <2>3. CASE n = 0
    <3>1. Made(K, 0) = FlattenSeq(<<>>)
      <4>1. [j \in 1..0 |-> K[j]] = <<>>
        OBVIOUS
      <4> QED  BY <4>1 DEF Made
    <3> QED  BY <2>3, <3>1, FlattenNone
  <2>4. CASE n # 0
    <3>1. 0 \in Nat /\ 0 < n
      BY <1>1, <2>4
    <3> HIDE DEF K, n, R, Good, P, us, size, T
    <3>2. Made(K, 0) = <<>>
      BY <1>1, <2>1, <3>1, MadeOneMore
    <3>3. ASSUME NEW j \in 0..(n - 1)
          PROVE  /\ Made(K, j) \in T
                 /\ Made(K, j + 1) = Made(K, j) \o K[j + 1]
      <4>1. j \in Nat /\ j < n /\ n \in Nat
        BY <1>1, <2>2
      <4>2. Made(K, j) \in Seq(Packets)
        BY <2>1, <4>1, MadeOneMore
      <4>3. Made(K, j + 1) = Made(K, j) \o K[j + 1]
        BY <2>1, <4>1, MadeOneMore
      <4> QED  BY <4>2, <4>3 DEF T
    <3> QED  BY <3>2, <3>3
  <2> QED  BY <2>3, <2>4
<1>13. <<>> \in T /\ \A a \in T : <<>> \o a = a
  OBVIOUS
<1> HIDE DEF us, size, P, n, K, T
<1>14. 0 \in Good
  <2>1. R(0) = h[0] /\ h[0] \in T
    BY <1>1, <1>2, <1>4
  <2> HIDE DEF R
  <2> QED  BY <1>12, <1>13, <2>1
<1> HIDE DEF R
<1>15. ASSUME NEW j \in Nat, j \in Good  PROVE j + 1 \in Good
  <2>1. SUFFICES ASSUME j + 1 <= n, Intact(t, j + 1)
                 PROVE  /\ Made(K, j + 1) \in T
                        /\ h[0] = Made(K, j + 1) \o R(j + 1)
    OBVIOUS
  <2>2. /\ j + 1 \in 1..n /\ j \in 0..(n - 1) /\ j <= n
        /\ j + 1 \in 1..(n + 1) /\ (j + 1) + 1 \in 1..(n + 1)
    BY <1>1, <2>1
  <2> DEFINE p == P[j + 1]
             u == us[j + 1]
             q == P[(j + 1) + 1]
  <2>3. h[0] = Made(K, j) \o R(j)
    BY <1>9, <1>15, <2>1, <2>2
  <2>4. /\ p \in Nat /\ q \in Nat /\ q = p + Rnd8(Whole(u))
        /\ Whole(u) \in Nat /\ Whole(u) >= 24 /\ u.len \in Nat \ {0}
        /\ u.kind # "damaged" /\ p + Whole(u) <= size
        /\ Onward(t, p) = Rnd8(Whole(u)) /\ K[j + 1] = Kept(u, p)
        /\ QueryRxDesc(t, p) = u /\ Made(K, j) \in T /\ K[j + 1] \in T
        /\ Stops(t, p) <=>
             (u.kind = "damaged" \/ u.len <= 0 \/ Whole(u) > size - p)
    BY <1>2, <1>3, <1>5, <1>6, <1>8, <1>10, <1>11, <1>12, <2>1, <2>2
  <2>5. R(j) = IF p < size THEN h[p] ELSE <<>>
    BY DEF R
  <2>6. R(j + 1) = IF q < size THEN h[q] ELSE <<>>
    BY DEF R
  <2> HIDE DEF p, u, q
  <2>7. p \in 0..size /\ p < size /\ ~Stops(t, p)
    BY <1>1, <2>4
  <2>8. Onward(t, p) \in Nat
    BY OnwardIs
  <2>9. Onward(t, p) >= size - p <=> ~(q < size)
    BY <1>1, <2>4, <2>8
  <2>10. p + Onward(t, p) = q
    BY <2>4
  <2>11. h[p] = Kept(u, p) \o R(j + 1)
    BY <1>7, <2>4, <2>6, <2>7, <2>9, <2>10
  <2>12. R(j + 1) \in T
    <3>1. q < size => q \in 0..size
      BY <1>1, <2>4
    <3> QED  BY <1>4, <1>13, <2>6, <3>1
  <2>13. h[0] = Made(K, j) \o (K[j + 1] \o R(j + 1))
    BY <2>3, <2>4, <2>5, <2>7, <2>11
  <2>14. Made(K, j + 1) = Made(K, j) \o K[j + 1]
    BY <1>12, <2>2
  <2> DEFINE a == Made(K, j)
             b == K[j + 1]
             c == R(j + 1)
             d == Made(K, j + 1)
  <2>15. /\ a \in T /\ b \in T /\ c \in T /\ d = a \o b
         /\ h[0] = a \o (b \o c)
    BY <2>4, <2>12, <2>13, <2>14
  <2> HIDE DEF a, b, c, d
  <2>16. d \in T /\ h[0] = d \o c
    <3>1. /\ a \in Seq(Packets) /\ b \in Seq(Packets)
          /\ c \in Seq(Packets)
      BY <2>15 DEF T
    <3>2. (a \o b) \o c = a \o (b \o c)
      BY <3>1, ConcatAssociative
    <3>3. a \o b \in T
      BY <3>1 DEF T
    <3> QED  BY <2>15, <3>2, <3>3
  <2> QED  BY <2>16 DEF c, d
<1>16. i \in Good
  <2>1. i \in Nat
    BY <1>1 DEF n, us
  <2> HIDE DEF Good
  <2> QED  BY <1>14, <1>15, <2>1, Induction
<1>17. Made(K, i) \in T /\ h[0] = Made(K, i) \o R(i)
  BY <1>16 DEF n, us
<1> QED  BY <1>17 DEF K, T, P, us, size, R

\* A transfer is intact up to a unit that the parser cannot keep, or whole.
LEMMA IntactEnds ==
  ASSUME NEW t \in AllTransfers
  PROVE  \E i \in 0..Len(t.units) :
           Intact(t, i) /\ (i = Len(t.units) \/ ~Intact(t, i + 1))
<1> DEFINE n == Len(t.units)
           Ends == \E i \in 0..n : Intact(t, i) /\ (i = n \/ ~Intact(t, i + 1))
           S == {j \in Nat : j <= n => Intact(t, j)}
<1>1. n \in Nat
  BY DEF AllTransfers
<1>2. SUFFICES ASSUME ~Ends  PROVE FALSE
  OBVIOUS
<1> HIDE DEF n
<1>3. 0 \in S
  BY DEF Intact
<1>4. ASSUME NEW j \in Nat, j \in S  PROVE j + 1 \in S
  <2>1. SUFFICES ASSUME j + 1 <= n  PROVE Intact(t, j + 1)
    OBVIOUS
  <2>2. j \in 0..n /\ j # n /\ Intact(t, j)
    BY <1>1, <1>4, <2>1
  <2> QED  BY <1>2, <2>2
<1>5. n \in S
  <2> HIDE DEF S
  <2> QED  BY <1>1, <1>3, <1>4, Induction
<1>6. n \in 0..n /\ Intact(t, n)
  BY <1>1, <1>5
<1> QED  BY <1>2, <1>6

\* There the parser ends.
LEMMA ParsedWhole ==
  ASSUME NEW t \in AllTransfers, t.size > 0,
         NEW i \in 0..Len(t.units), Intact(t, i),
         i = Len(t.units) \/ ~Intact(t, i + 1)
  PROVE  /\ Made(KeptOf(t), i) \in Seq(Packets)
         /\ RecvBuf2RecvFrame(t) = Made(KeptOf(t), i)
<1>1. PICK h : /\ \A p \in 0..t.size : h[p] = Rest(h, t, p)
               /\ RecvBuf2RecvFrame(t) = h[0]
  BY ParseIs
<1> DEFINE p == Places(t.units)[i + 1]
           n == Len(t.units)
<1>2. /\ Made(KeptOf(t), i) \in Seq(Packets)
      /\ RecvBuf2RecvFrame(t) =
           Made(KeptOf(t), i) \o IF p < t.size THEN h[p] ELSE <<>>
  BY <1>1, ParsedUpTo
<1>3. /\ t.units \in Seq(Units) /\ t.size \in Nat /\ n \in Nat
      /\ i + 1 \in 1..(n + 1)
  BY DEF AllTransfers
<1>4. p \in Nat
  BY <1>3, PlacesAscend
<1>5. p < t.size => Stops(t, p)
  <2>1. CASE i = n
    <3>1. QueryRxDesc(t, p) = Zero
      BY <2>1, QueryAt
    <3> QED  BY <3>1 DEF Stops, Zero
  <2>2. CASE i # n
    <3>1. i + 1 \in 1..n
      BY <1>3, <2>2
    <3>2. ~Intact(t, i + 1)
      BY <2>2
    <3> DEFINE u == t.units[i + 1]
    <3>3. QueryRxDesc(t, p) = u
      BY <3>1, QueryAt
    <3>4. u \in Units
      BY <1>3, <3>1
    <3>5. Whole(u) \in Nat
      BY <3>4, WholeIs
    <3>6. u.kind = "damaged" \/ ~(p + Whole(u) <= t.size)
      <4>1. PICK j \in 1..(i + 1) :
              ~(/\ t.units[j].kind # "damaged"
                /\ Places(t.units)[j] + Whole(t.units[j]) <= t.size)
        BY <3>2 DEF Intact
      <4>2. j \notin 1..i
        BY <4>1 DEF Intact
      <4>3. j = i + 1
        BY <1>3, <4>1, <4>2
      <4> QED  BY <4>1, <4>3
    <3> HIDE DEF p, u
    <3> QED  BY <1>3, <1>4, <3>3, <3>5, <3>6 DEF Stops
  <2> QED  BY <2>1, <2>2
<1>6. p < t.size => h[p] = <<>>
  <2>1. p < t.size => p \in 0..t.size
    BY <1>3, <1>4
  <2> QED  BY <1>1, <1>5, <2>1 DEF Rest
<1> DEFINE made == Made(KeptOf(t), i)
<1>7. made \in Seq(Packets) /\ RecvBuf2RecvFrame(t) = made \o <<>>
  BY <1>2, <1>6
<1> HIDE DEF made
<1>8. made \o <<>> = made
  BY <1>7
<1> QED  BY <1>7, <1>8 DEF made

\* A stretch of a transfer: where it starts and how long it is.
Spans == Nat \X Nat

\* What is handed on of packets.
HandedOf(ps) == FlattenSeq([i \in DOMAIN ps |-> Frames(ps[i])])

\* A packet makes one span, or none.
LEMMA FramesAre ==
  ASSUME NEW x \in Packets
  PROVE  Frames(x) \in Seq(Spans)
<1>1. CASE IsVideo(x)
  <2> DEFINE a == x.at + HeaderSize
             b == x.len - HeaderSize - TrailerSize
  <2>1. a \in Nat /\ b \in Nat
    BY <1>1 DEF IsVideo, Packets, HeaderSize, TrailerSize
  <2>2. Frames(x) = << <<a, b>> >>
    BY <1>1 DEF Frames
  <2> HIDE DEF a, b
  <2>3. <<a, b>> \in Spans
    BY <2>1 DEF Spans
  <2> QED  BY <2>2, <2>3
<1>2. CASE ~IsVideo(x)
  BY <1>2 DEF Frames
<1> QED  BY <1>1, <1>2

\* One packet more.
LEMMA HandedOneMore ==
  ASSUME NEW ps \in Seq(Packets), NEW x \in Packets
  PROVE  HandedOf(Append(ps, x)) = HandedOf(ps) \o Frames(x)
<1> DEFINE n == Len(ps)
           qs == Append(ps, x)
           T == Seq(Spans)
           r == [i \in 1..n |-> Frames(ps[i])]
           s == [i \in 1..(n + 1) |-> Frames(qs[i])]
<1>1. /\ n \in Nat /\ Len(qs) = n + 1 /\ qs[n + 1] = x
      /\ \A i \in 1..n : qs[i] = ps[i] /\ ps[i] \in Packets
      /\ DOMAIN ps = 1..n /\ DOMAIN qs = 1..(n + 1)
  OBVIOUS
<1>2. HandedOf(qs) = FlattenSeq(s) /\ HandedOf(ps) = FlattenSeq(r)
  BY <1>1 DEF HandedOf
<1> HIDE DEF T, qs, n
<1>3. \A i \in 1..(n + 1) : Frames(qs[i]) \in T
  <2>1. \A i \in 1..(n + 1) : qs[i] \in Packets
    BY <1>1
  <2> QED  BY <2>1, FramesAre DEF T
<1>4. /\ s \in Seq(T) /\ Len(s) = n + 1 /\ s[n + 1] = Frames(x)
  BY <1>1, <1>3
<1>5. r \in Seq(T) /\ Len(r) = n /\ \A i \in 1..n : r[i] = s[i]
  BY <1>1, <1>3
<1> HIDE DEF r, s
<1>6. FlattenSeq(s) = FlattenSeq(r) \o s[n + 1]
  BY <1>1, <1>4, <1>5, FlattenOneMore DEF T
<1> QED  BY <1>2, <1>4, <1>6 DEF qs

\* What should be handed on of each unit.
PayloadsOf(t) == [i \in 1..Len(t.units) |-> Payload(t, i)]

\* A video frame has a payload that lies in it.
LEMMA PayloadIs ==
  ASSUME NEW t \in AllTransfers, NEW i \in 1..Len(t.units)
  PROVE  Payload(t, i) \in Seq(Spans)
<1> DEFINE u == t.units[i]
           p == Places(t.units)[i]
           a == p + Whole(u) - u.len + 24
           b == u.len - 28
<1>1. u \in Units /\ p \in Nat
  <2>1. t.units \in Seq(Units) /\ Len(t.units) \in Nat
    BY DEF AllTransfers
  <2>2. i \in 1..(Len(t.units) + 1)
    BY <2>1
  <2> QED  BY <2>1, <2>2, PlacesAscend
<1> HIDE DEF p
<1>2. Payload(t, i) =
        IF Intact(t, i) /\ u.kind = "video" /\ u.len > 28
        THEN << <<a, b>> >> ELSE <<>>
  BY DEF Payload, p
<1> HIDE DEF u
<1>3. a \in Nat /\ (u.len > 28 => b \in Nat)
  BY <1>1 DEF Whole, Units, DescSize
<1> HIDE DEF a, b
<1>4. u.len > 28 => <<a, b>> \in Spans
  BY <1>3 DEF Spans
<1> QED  BY <1>2, <1>4

\* What is kept of an intact unit is handed on as its payload.
LEMMA KeptIsPayload ==
  ASSUME NEW t \in AllTransfers, NEW i \in 1..Len(t.units), Intact(t, i)
  PROVE  \/ KeptOf(t)[i] = <<>> /\ Payload(t, i) = <<>>
         \/ \E x \in Packets :
              KeptOf(t)[i] = <<x>> /\ Payload(t, i) = Frames(x)
<1> DEFINE u == t.units[i]
           p == Places(t.units)[i]
           x == [at |-> p + DescSize + u.drv + u.shift, len |-> u.len,
                 kind |-> u.kind]
<1>1. u \in Units /\ p \in Nat
  <2>1. t.units \in Seq(Units) /\ Len(t.units) \in Nat
    BY DEF AllTransfers
  <2>2. i \in 1..(Len(t.units) + 1)
    BY <2>1
  <2> QED  BY <2>1, <2>2, PlacesAscend
<1>2. KeptOf(t)[i] = IF u.kind = "report" THEN <<>> ELSE <<x>>
  BY DEF KeptOf, Kept
<1>3. Payload(t, i) =
        IF u.kind = "video" /\ u.len > 28
        THEN << <<p + Whole(u) - u.len + 24, u.len - 28>> >> ELSE <<>>
  BY DEF Payload
<1> HIDE DEF u, p
<1>4. x \in Packets
  BY <1>1 DEF Packets, Units, DescSize
<1>5. Frames(x) =
        IF u.kind = "video" /\ u.len > 28
        THEN << <<p + Whole(u) - u.len + 24, u.len - 28>> >> ELSE <<>>
  <2>1. IsVideo(x) <=> u.kind = "video" /\ u.len > 28
    BY DEF IsVideo, HeaderSize, TrailerSize
  <2>2. /\ x.at + HeaderSize = p + Whole(u) - u.len + 24
        /\ x.len - HeaderSize - TrailerSize = u.len - 28
    BY <1>1 DEF HeaderSize, TrailerSize, Whole, Units, DescSize
  <2> HIDE DEF x
  <2> QED  BY <2>1, <2>2 DEF Frames
<1> HIDE DEF x
<1>6. CASE u.kind = "report"
  BY <1>2, <1>3, <1>6
<1>7. CASE u.kind # "report"
  BY <1>2, <1>3, <1>4, <1>5, <1>7
<1> QED  BY <1>6, <1>7

\* What is kept is over packets, what should be handed on over spans.
LEMMA BothOver ==
  ASSUME NEW t \in AllTransfers
  PROVE  /\ Over(KeptOf(t), Packets, Len(t.units))
         /\ Over(PayloadsOf(t), Spans, Len(t.units))
<1>1. ASSUME NEW i \in 1..Len(t.units)
      PROVE  KeptOf(t)[i] \in Seq(Packets) /\ PayloadsOf(t)[i] \in Seq(Spans)
  <2>1. t.units \in Seq(Units) /\ Len(t.units) \in Nat
    BY DEF AllTransfers
  <2>2. i \in 1..(Len(t.units) + 1)
    BY <2>1
  <2>3. t.units[i] \in Units /\ Places(t.units)[i] \in Nat
    BY <2>1, <2>2, PlacesAscend
  <2>4. Kept(t.units[i], Places(t.units)[i]) \in Seq(Packets)
    BY <2>3, KeptIs
  <2>5. Payload(t, i) \in Seq(Spans)
    BY PayloadIs
  <2> QED  BY <2>4, <2>5 DEF KeptOf, PayloadsOf
<1> QED  BY <1>1 DEF Over

\* Nothing made is nothing.
LEMMA MadeNone == \A ss : Made(ss, 0) = <<>>
<1> TAKE ss
<1>1. [j \in 1..0 |-> ss[j]] = <<>>
  OBVIOUS
<1> QED  BY <1>1, FlattenNone DEF Made

\* As long as a transfer is intact, its payloads are handed on.
LEMMA HandedUpTo ==
  ASSUME NEW t \in AllTransfers, NEW i \in 0..Len(t.units), Intact(t, i)
  PROVE  HandedOf(Made(KeptOf(t), i)) = Made(PayloadsOf(t), i)
<1> DEFINE n == Len(t.units)
           K == KeptOf(t)
           Y == PayloadsOf(t)
           S == {j \in Nat : j <= n /\ Intact(t, j) =>
                   HandedOf(Made(K, j)) = Made(Y, j)}
<1>1. n \in Nat /\ i \in Nat /\ i <= n
  BY DEF AllTransfers
<1>2. Over(K, Packets, n) /\ Over(Y, Spans, n)
  BY BothOver
<1>3. \A j \in Nat : Intact(t, j + 1) => Intact(t, j)
  BY DEF Intact
<1>4. \A j \in 1..n : Intact(t, j) =>
        \/ K[j] = <<>> /\ Y[j] = <<>>
        \/ \E x \in Packets : K[j] = <<x>> /\ Y[j] = Frames(x)
  BY KeptIsPayload DEF PayloadsOf
<1> HIDE DEF n, K, Y
<1>5. 0 \in S
  <2>1. HandedOf(<<>>) = <<>>
    <3>1. [j \in DOMAIN <<>> |-> Frames(<<>>[j])] = <<>>
      OBVIOUS
    <3> QED  BY <3>1, FlattenNone DEF HandedOf
  <2> QED  BY <2>1, MadeNone
<1>6. ASSUME NEW j \in Nat, j \in S  PROVE j + 1 \in S
  <2>1. SUFFICES ASSUME j + 1 <= n, Intact(t, j + 1)
                 PROVE  HandedOf(Made(K, j + 1)) = Made(Y, j + 1)
    OBVIOUS
  <2>2. j < n /\ j <= n /\ j + 1 \in 1..n
    BY <1>1, <2>1
  <2>3. HandedOf(Made(K, j)) = Made(Y, j)
    BY <1>3, <1>6, <2>1, <2>2
  <2>4. Made(K, j + 1) = Made(K, j) \o K[j + 1]
    BY <1>1, <1>2, <2>2, MadeOneMore
  <2>5. Made(K, j) \in Seq(Packets)
    BY <1>1, <1>2, <2>2, MadeOneMore
  <2>6. Made(Y, j + 1) = Made(Y, j) \o Y[j + 1]
    BY <1>1, <1>2, <2>2, MadeOneMore
  <2>7. Made(Y, j) \in Seq(Spans)
    BY <1>1, <1>2, <2>2, MadeOneMore
  <2> DEFINE a == Made(K, j)
             b == Made(Y, j)
             k == K[j + 1]
             y == Y[j + 1]
  <2>8. /\ a \in Seq(Packets) /\ b \in Seq(Spans) /\ HandedOf(a) = b
        /\ Made(K, j + 1) = a \o k /\ Made(Y, j + 1) = b \o y
    BY <2>3, <2>4, <2>5, <2>6, <2>7
  <2>9. \/ k = <<>> /\ y = <<>>
        \/ \E x \in Packets : k = <<x>> /\ y = Frames(x)
    BY <1>4, <2>1, <2>2
  <2> HIDE DEF a, b, k, y
  <2>10. CASE k = <<>> /\ y = <<>>
    <3>1. a \o <<>> = a /\ b \o <<>> = b
      BY <2>8
    <3> QED  BY <2>8, <2>10, <3>1
  <2>11. CASE \E x \in Packets : k = <<x>> /\ y = Frames(x)
    <3>1. PICK x \in Packets : k = <<x>> /\ y = Frames(x)
      BY <2>11
    <3>2. a \o <<x>> = Append(a, x)
      BY <2>8
    <3>3. HandedOf(Append(a, x)) = HandedOf(a) \o Frames(x)
      BY <2>8, HandedOneMore
    <3> QED  BY <2>8, <3>1, <3>2, <3>3
  <2> QED  BY <2>9, <2>10, <2>11
<1>7. i \in S
  <2> HIDE DEF S
  <2> QED  BY <1>1, <1>5, <1>6, Induction
<1> QED  BY <1>1, <1>7 DEF K, Y

\* Behind a unit that is not intact nothing should be handed on.
LEMMA NothingBehind ==
  ASSUME NEW t \in AllTransfers, NEW i \in 0..Len(t.units),
         i = Len(t.units) \/ ~Intact(t, i + 1)
  PROVE  Made(PayloadsOf(t), Len(t.units)) = Made(PayloadsOf(t), i)
<1> DEFINE n == Len(t.units)
           Y == PayloadsOf(t)
           S == {k \in Nat : i + k <= n => Made(Y, i + k) = Made(Y, i)}
<1>1. n \in Nat /\ i \in Nat /\ i <= n /\ (i = n \/ ~Intact(t, i + 1))
  BY DEF AllTransfers
<1>2. Over(Y, Spans, n)
  BY BothOver
<1>3. \A j \in 1..n : ~Intact(t, j) => Y[j] = <<>>
  BY DEF PayloadsOf, Payload
<1>4. \A k \in Nat : ~Intact(t, i + 1) => ~Intact(t, i + k + 1)
  BY <1>1 DEF Intact
<1> HIDE DEF n, Y
<1>5. 0 \in S
  BY <1>1
<1>6. ASSUME NEW k \in Nat, k \in S  PROVE k + 1 \in S
  <2>1. SUFFICES ASSUME i + (k + 1) <= n
                 PROVE  Made(Y, i + (k + 1)) = Made(Y, i)
    OBVIOUS
  <2> DEFINE j == i + k
  <2>2. /\ j \in Nat /\ j < n /\ j <= n /\ j + 1 \in 1..n
        /\ i + (k + 1) = j + 1 /\ i # n
    BY <1>1, <2>1
  <2>3. Made(Y, j) = Made(Y, i) /\ ~Intact(t, j + 1)
    BY <1>1, <1>4, <1>6, <2>2
  <2> HIDE DEF j
  <2>4. /\ Made(Y, j + 1) = Made(Y, j) \o Y[j + 1]
        /\ Made(Y, j) \in Seq(Spans)
    <3>1. n \in Nat /\ j \in Nat /\ j < n
      BY <1>1, <2>2
    <3> HIDE DEF S
    <3> QED  BY <1>2, <3>1, MadeOneMore
  <2>6. Y[j + 1] = <<>>
    BY <1>3, <2>2, <2>3
  <2> DEFINE m == Made(Y, j)
  <2>7. m \in Seq(Spans) /\ Made(Y, j + 1) = m \o <<>>
    BY <2>4, <2>6
  <2> HIDE DEF m
  <2>8. m \o <<>> = m
    BY <2>7
  <2> QED  BY <2>2, <2>3, <2>7, <2>8 DEF m
<1>7. n - i \in S
  <2>1. n - i \in Nat
    BY <1>1
  <2> HIDE DEF S
  <2> QED  BY <1>5, <1>6, <2>1, Induction
<1>8. i + (n - i) = n
  BY <1>1
<1> QED  BY <1>1, <1>7, <1>8 DEF n, Y

\* Of a transfer that is not short, each payload is handed on.
LEMMA TransferHanded ==
  ASSUME NEW t \in AllTransfers
  PROVE  Handed(t) = IF t.size <= LeastTransfer THEN <<>> ELSE Payloads(t)
<1>1. t.size \in Nat /\ t.units \in Seq(Units)
  BY DEF AllTransfers
<1>2. Handed(t) = HandedOf(InfiniteRead(t))
  BY DEF Handed, HandedOf
<1>3. CASE t.size <= LeastTransfer
  <2>1. InfiniteRead(t) = <<>>
    BY <1>1, <1>3 DEF InfiniteRead, LeastTransfer
  <2>2. HandedOf(<<>>) = <<>>
    <3>1. [j \in DOMAIN <<>> |-> Frames(<<>>[j])] = <<>>
      OBVIOUS
    <3> QED  BY <3>1, FlattenNone DEF HandedOf
  <2> QED  BY <1>2, <1>3, <2>1, <2>2
<1>4. CASE ~(t.size <= LeastTransfer)
  <2>1. InfiniteRead(t) = RecvBuf2RecvFrame(t) /\ t.size > 0
    BY <1>1, <1>4 DEF InfiniteRead, LeastTransfer
  <2>2. PICK i \in 0..Len(t.units) :
          Intact(t, i) /\ (i = Len(t.units) \/ ~Intact(t, i + 1))
    BY IntactEnds
  <2>3. RecvBuf2RecvFrame(t) = Made(KeptOf(t), i)
    BY <2>1, <2>2, ParsedWhole
  <2>4. HandedOf(Made(KeptOf(t), i)) = Made(PayloadsOf(t), i)
    BY <2>2, HandedUpTo
  <2>5. Made(PayloadsOf(t), Len(t.units)) = Made(PayloadsOf(t), i)
    BY <2>2, NothingBehind
  <2>6. Made(PayloadsOf(t), Len(t.units)) = Payloads(t)
    <3>1. /\ [j \in 1..Len(t.units) |-> PayloadsOf(t)[j]] = PayloadsOf(t)
          /\ DOMAIN t.units = 1..Len(t.units)
      BY <1>1 DEF PayloadsOf
    <3> QED  BY <3>1 DEF Made, Payloads, PayloadsOf
  <2> QED  BY <1>2, <1>4, <2>1, <2>3, <2>4, <2>5, <2>6
<1> QED  BY <1>3, <1>4

\* What was handed on is what the parser makes of the transfer.
RxInv ==
  rx = NoRx \/ \E t \in Transfers : rx = [transfer |-> t, handed |-> Handed(t)]

\* Only a read and the end of a round or of a session touch it.
LEMMA RxStep ==
  ASSUME RxInv, [Next]_vars
  PROVE  RxInv'
<1>1. CASE ReadOnce
  BY <1>1 DEF ReadOnce, RxInv
<1>2. CASE LoopAgain
  BY <1>2 DEF LoopAgain, RxInv, NoRx, NoTransfer
<1>3. CASE EndSession
  BY <1>3 DEF EndSession, RxInv, NoRx, NoTransfer
<1>4. CASE rx' = rx
  BY <1>4 DEF RxInv, NoRx, NoTransfer
<1>5. ReadOnce \/ LoopAgain \/ EndSession \/ rx' = rx
  <2>1. CASE Open \/ ReadEfuse \/ HwReset \/ PowerOn
    BY <2>1 DEF Open, ReadEfuse, HwReset, PowerOn
  <2>2. CASE WritePageEntry \/ DownloadFirmware \/ FirmwareReports
    BY <2>2 DEF WritePageEntry, DownloadFirmware, FirmwareReports
  <2>3. CASE ConfigMac \/ InitPageBoundary \/ EnableMac \/ ConfigBBAndRF
    BY <2>3 DEF ConfigMac, InitPageBoundary, EnableMac, ConfigBBAndRF
  <2>4. CASE Unplug \/ UNCHANGED vars
    BY <2>4 DEF Unplug, vars
  <2> QED  BY <2>1, <2>2, <2>3, <2>4 DEF Next
<1> QED  BY <1>1, <1>2, <1>3, <1>4, <1>5

\* RxInv says what IntactFramesHanded asks.
LEMMA RxFramesHanded == RxInv => IntactFramesHanded
<1>1. SUFFICES ASSUME RxInv  PROVE IntactFramesHanded
  OBVIOUS
<1>2. CASE rx = NoRx
  <2>1. rx.handed = <<>> /\ rx.transfer.size = 0
    BY <1>2 DEF NoRx, NoTransfer
  <2>2. 0 <= LeastTransfer
    BY DEF LeastTransfer
  <2> QED  BY <2>1, <2>2 DEF IntactFramesHanded
<1>3. CASE \E t \in Transfers : rx = [transfer |-> t, handed |-> Handed(t)]
  <2>1. PICK t \in Transfers : rx = [transfer |-> t, handed |-> Handed(t)]
    BY <1>3
  <2>2. rx.transfer = t /\ rx.handed = Handed(t)
    BY <2>1
  <2>3. t \in AllTransfers
    BY TransfersAssumption DEF AllTransfers
  <2>4. Handed(t) = IF t.size <= LeastTransfer THEN <<>> ELSE Payloads(t)
    BY <2>3, TransferHanded
  <2> QED  BY <2>2, <2>4 DEF IntactFramesHanded
<1> QED  BY <1>1, <1>2, <1>3 DEF RxInv

\* The payload of every video frame that a transfer of the adapter holds
\* before its first damaged unit is handed on, once, in order and byte for
\* byte, and nothing else is, no fragment either; of a short transfer nothing:
\* whatever the units and their number.
THEOREM FramesAlwaysHanded == Spec => []IntactFramesHanded
<1>1. Init => RxInv
  BY DEF Init, RxInv
<1>2. RxInv /\ [Next]_vars => RxInv'
  BY RxStep
<1>3. RxInv => IntactFramesHanded
  BY RxFramesHanded
<1> QED  BY <1>1, <1>2, <1>3, PTL DEF Spec

-----------------------------------------------------------------------------
\* The walk of the EFUSE: headers, words, records, what it has of them.

\* A header enables the words it was burned for.
LEMMA EnabledAre ==
  ASSUME NEW ws \in SUBSET Words
  PROVE  /\ Enable(ws) \in 0..15
         /\ Enabled(Enable(ws)) = ws
         /\ Enable(ws) = 15 <=> ws = {}
<1> DEFINE b(w, v) == IF w \in ws THEN 0 ELSE v
           e == Enable(ws)
<1>1. e = b(0, 1) + b(1, 2) + b(2, 4) + b(3, 8)
  BY DEF Enable
<1>2. /\ b(0, 1) \in {0, 1} /\ b(1, 2) \in {0, 2}
      /\ b(2, 4) \in {0, 4} /\ b(3, 8) \in {0, 8}
  OBVIOUS
<1>3. /\ 0 \in ws <=> b(0, 1) = 0
      /\ 1 \in ws <=> b(1, 2) = 0
      /\ 2 \in ws <=> b(2, 4) = 0
      /\ 3 \in ws <=> b(3, 8) = 0
  OBVIOUS
<1> HIDE DEF b, e
<1>4. e \in 0..15
  BY <1>1, <1>2
<1>5. /\ (e \div 1) % 2 = 1 <=> b(0, 1) # 0
      /\ (e \div 2) % 2 = 1 <=> b(1, 2) # 0
      /\ (e \div 4) % 2 = 1 <=> b(2, 4) # 0
      /\ (e \div 8) % 2 = 1 <=> b(3, 8) # 0
  BY <1>1, <1>2
<1>6. BIT[1] = 1 /\ BIT[2] = 2 /\ BIT[3] = 4 /\ BIT[4] = 8
  BY DEF BIT
<1>7. \A w \in Words : Bit(e, w) <=> w \notin ws
  <2>1. /\ Bit(e, 0) <=> 0 \notin ws
        /\ Bit(e, 1) <=> 1 \notin ws
        /\ Bit(e, 2) <=> 2 \notin ws
        /\ Bit(e, 3) <=> 3 \notin ws
    BY <1>3, <1>5, <1>6 DEF Bit
  <2>2. \A w \in Words : w = 0 \/ w = 1 \/ w = 2 \/ w = 3
    BY DEF Words
  <2> QED  BY <2>1, <2>2
<1>8. Enabled(e) = ws
  BY <1>7 DEF Enabled
<1>9. e = 15 <=> ws = {}
  <2>1. e = 15 <=> b(0, 1) # 0 /\ b(1, 2) # 0 /\ b(2, 4) # 0 /\ b(3, 8) # 0
    BY <1>1, <1>2
  <2>2. ws = {} <=> 0 \notin ws /\ 1 \notin ws /\ 2 \notin ws /\ 3 \notin ws
    BY DEF Words
  <2> QED  BY <1>3, <2>1, <2>2
<1> QED  BY <1>4, <1>8, <1>9 DEF e

\* A header as the reader takes it apart: one byte, or two.
LEMMA HeaderIs ==
  ASSUME NEW r, r.section \in Sections, DOMAIN r.words \subseteq Words,
         r.section = 15 => DOMAIN r.words # {}
  PROVE  LET h == Header(r)
             we == Enable(DOMAIN r.words)
         IN \/ /\ h = <<h[1]>> /\ Len(h) = 1
               /\ h[1] # 255 /\ h[1] % 32 # 15
               /\ h[1] \div 16 = r.section /\ h[1] % 16 = we
            \/ /\ h = <<h[1], h[2]>> /\ Len(h) = 2
               /\ h[1] # 255 /\ h[1] % 32 = 15
               /\ 8 * (h[2] \div 16) + (h[1] \div 32) = r.section
               /\ h[2] % 16 = we
<1> DEFINE we == Enable(DOMAIN r.words)
           s == r.section
           h == Header(r)
           short == 16 * s + we
           a == (32 * (s % 8)) + 15
           b == (16 * (s \div 8)) + we
<1>1. /\ we \in 0..15
      /\ we = 15 <=> DOMAIN r.words = {}
  BY EnabledAre
<1>2. h = IF s < 16 /\ short % 32 # 15 THEN <<short>> ELSE <<a, b>>
  BY DEF Header
<1>3. s \in 0..63 /\ (s = 15 => we # 15)
  BY <1>1 DEF Sections
<1> HIDE DEF we, s, h
<1>4. CASE s < 16 /\ short % 32 # 15
  <2>1. short \div 16 = s /\ short % 16 = we /\ short # 255
    BY <1>1, <1>3, <1>4
  <2> HIDE DEF short
  <2>2. h = <<short>>
    BY <1>2, <1>4
  <2>3. h[1] = short /\ Len(h) = 1
    BY <2>2
  <2> QED  BY <1>4, <2>1, <2>2, <2>3 DEF h, we, s
<1>5. CASE ~(s < 16 /\ short % 32 # 15)
  <2>1. s % 8 \in 0..7 /\ s \div 8 \in 0..7 /\ 8 * (s \div 8) + (s % 8) = s
    BY <1>3
  <2>2. a % 32 = 15 /\ a \div 32 = s % 8 /\ a # 255
    BY <2>1
  <2>3. b \div 16 = s \div 8 /\ b % 16 = we
    BY <1>1, <2>1
  <2>4. h = <<a, b>>
    BY <1>2, <1>5
  <2> HIDE DEF a, b
  <2>5. h[1] = a /\ h[2] = b /\ Len(h) = 2
    BY <2>4
  <2> QED  BY <2>1, <2>2, <2>3, <2>4, <2>5 DEF h, we, s
<1> QED  BY <1>4, <1>5

\* What is made of the first n over E, and of one more of them.
Longer(ss, E, n) ==
  /\ Made(ss, n) \in Seq(E) /\ Made(ss, n + 1) \in Seq(E)
  /\ ss[n + 1] \in Seq(E)
  /\ Made(ss, n + 1) = Made(ss, n) \o ss[n + 1]
  /\ Len(Made(ss, n + 1)) = Len(Made(ss, n)) + Len(ss[n + 1])
  /\ Len(Made(ss, n)) \in Nat /\ Len(ss[n + 1]) \in Nat

\* One more makes it longer by as much.
LEMMA MadeLonger ==
  ASSUME NEW E, NEW N \in Nat, NEW ss, Over(ss, E, N),
         NEW n \in Nat, n < N
  PROVE  Longer(ss, E, n)
<1> DEFINE m == Made(ss, n)
           x == ss[n + 1]
<1>1. m \in Seq(E) /\ Made(ss, n + 1) = m \o x
  BY MadeOneMore
<1>2. x \in Seq(E)
  BY DEF Over
<1> HIDE DEF m, x
<1>3. m \o x \in Seq(E) /\ Len(m \o x) = Len(m) + Len(x)
      /\ Len(m) \in Nat /\ Len(x) \in Nat
  BY <1>1, <1>2
<1> QED  BY <1>1, <1>2, <1>3 DEF Longer, m, x

\* What is made of the first N holds s where the first i end.
HoldsAt(ss, i, N) ==
  /\ Len(Made(ss, N)) >= Len(Made(ss, i)) + Len(ss[i + 1])
  /\ \A k \in 1..Len(ss[i + 1]) :
       Made(ss, N)[Len(Made(ss, i)) + k] = ss[i + 1][k]

\* Each of the sequences is where those before it end.
LEMMA MadeHolds ==
  ASSUME NEW E, NEW N \in Nat, NEW ss, Over(ss, E, N),
         NEW i \in Nat, i < N
  PROVE  HoldsAt(ss, i, N)
<1> DEFINE S == {d \in Nat : i + 1 + d <= N => HoldsAt(ss, i, i + 1 + d)}
           x == ss[i + 1]
           m == Made(ss, i)
<1>1. /\ m \in Seq(E) /\ x \in Seq(E) /\ Made(ss, i + 1) = m \o x
      /\ Len(m) \in Nat /\ Len(x) \in Nat
  <2>1. Longer(ss, E, i)
    BY MadeLonger
  <2> QED  BY <2>1 DEF Longer
<1>2. 0 \in S
  <2>1. HoldsAt(ss, i, i + 1) <=>
          /\ Len(Made(ss, i + 1)) >= Len(m) + Len(x)
          /\ \A k \in 1..Len(x) : Made(ss, i + 1)[Len(m) + k] = x[k]
    BY DEF HoldsAt
  <2> HIDE DEF m, x
  <2>2. Len(m \o x) = Len(m) + Len(x)
        /\ \A k \in 1..Len(x) : (m \o x)[Len(m) + k] = x[k]
    BY <1>1
  <2>3. HoldsAt(ss, i, i + 1)
    BY <1>1, <2>1, <2>2
  <2>4. i + 1 + 0 = i + 1
    OBVIOUS
  <2> QED  BY <2>3, <2>4
<1>3. ASSUME NEW d \in Nat, d \in S  PROVE d + 1 \in S
  <2> DEFINE n == i + 1 + d
             y == ss[n + 1]
             z == Made(ss, n)
  <2>1. SUFFICES ASSUME i + 1 + (d + 1) <= N
                 PROVE  HoldsAt(ss, i, i + 1 + (d + 1))
    OBVIOUS
  <2>2. n \in Nat /\ n < N /\ n <= N /\ i + 1 + (d + 1) = n + 1
    BY <2>1
  <2>3. HoldsAt(ss, i, n)
    BY <1>3, <2>2
  <2>4. z \in Seq(E) /\ y \in Seq(E) /\ Made(ss, n + 1) = z \o y
        /\ Len(z) \in Nat /\ Len(y) \in Nat
    <3>1. Longer(ss, E, n)
      <4>1. n \in Nat /\ n < N
        BY <2>2
      <4> HIDE DEF n
      <4> QED  BY <4>1, MadeLonger
    <3> QED  BY <3>1 DEF Longer
  <2>5. /\ Len(z) >= Len(m) + Len(x)
        /\ \A k \in 1..Len(x) : z[Len(m) + k] = x[k]
    BY <2>3 DEF HoldsAt
  <2>6. HoldsAt(ss, i, n + 1) <=>
          /\ Len(Made(ss, n + 1)) >= Len(m) + Len(x)
          /\ \A k \in 1..Len(x) : Made(ss, n + 1)[Len(m) + k] = x[k]
    BY DEF HoldsAt
  <2> HIDE DEF m, x, z, y, n, S
  <2>7. Len(z \o y) = Len(z) + Len(y)
        /\ \A k \in 1..Len(z) : (z \o y)[k] = z[k]
    BY <2>4
  <2>8. \A k \in 1..Len(x) : Len(m) + k \in 1..Len(z)
    BY <1>1, <2>4, <2>5
  <2>9. HoldsAt(ss, i, n + 1)
    BY <1>1, <2>4, <2>5, <2>6, <2>7, <2>8
  <2> QED  BY <2>2, <2>9
<1>4. N - (i + 1) \in S
  <2>1. N - (i + 1) \in Nat
    OBVIOUS
  <2> HIDE DEF S
  <2> QED  BY <1>2, <1>3, <2>1, Induction
<1>5. i + 1 + (N - (i + 1)) = N /\ N <= N
  OBVIOUS
<1> QED  BY <1>4, <1>5

\* How many of the words ws are before word w.
Below(ws, w) == Cardinality({v \in ws : v < w})

\* They are counted one after the other.
LEMMA BelowCounts ==
  ASSUME NEW ws \in SUBSET Words
  PROVE  /\ Below(ws, 0) = 0 /\ Below(ws, 4) = Cardinality(ws)
         /\ \A w \in 0..4 : Below(ws, w) \in Nat
         /\ \A w \in 0..3 :
              Below(ws, w + 1) = Below(ws, w) + IF w \in ws THEN 1 ELSE 0
<1>1. IsFiniteSet(0..3)
  <2>1. 0 \in Int /\ 3 \in Int
    OBVIOUS
  <2> QED  BY <2>1, FS_Interval, Zenon
<1>0. \A v \in ws : v \in 0..3
  BY DEF Words
<1>2. \A w : {v \in ws : v < w} \subseteq 0..3
  BY <1>0
<1>3. \A w : IsFiniteSet({v \in ws : v < w})
  BY <1>1, <1>2, FS_Subset
<1>4. \A w \in 0..4 : Below(ws, w) \in Nat
  BY <1>3, FS_CardinalityType DEF Below
<1>5. {v \in ws : v < 0} = {} /\ {v \in ws : v < 4} = ws
  <2>1. \A v \in ws : ~(v < 0) /\ v < 4
    BY <1>0
  <2> QED  BY <2>1
<1>6. Below(ws, 0) = 0 /\ Below(ws, 4) = Cardinality(ws)
  BY <1>5, FS_EmptySet DEF Below
<1>7. ASSUME NEW w \in 0..3
      PROVE  Below(ws, w + 1) = Below(ws, w) + IF w \in ws THEN 1 ELSE 0
  <2> DEFINE B == {v \in ws : v < w}
             A == {v \in ws : v < w + 1}
  <2>1. IsFiniteSet(B) /\ w \notin B
    BY <1>3
  <2>2. CASE w \in ws
    <3>1. A = B \cup {w}
      <4>1. \A v \in ws : v < w + 1 <=> (v < w \/ v = w)
        BY <1>0
      <4> QED  BY <2>2, <4>1
    <3> HIDE DEF A, B
    <3>2. Cardinality(B \cup {w}) = Cardinality(B) + 1
      BY <2>1, FS_AddElement
    <3> QED  BY <2>2, <3>1, <3>2 DEF Below, A, B
  <2>3. CASE w \notin ws
    <3>1. A = B
      <4>1. \A v \in ws : v < w + 1 <=> v < w
        <5>1. \A v \in ws : v < w + 1 <=> (v < w \/ v = w)
          BY <1>0
        <5> QED  BY <2>3, <5>1
      <4> QED  BY <4>1
    <3>2. Cardinality(B) \in Nat
      BY <2>1, FS_CardinalityType
    <3>3. Below(ws, w + 1) = Cardinality(B) /\ Below(ws, w) = Cardinality(B)
      BY <3>1 DEF Below
    <3> HIDE DEF B
    <3> QED  BY <2>3, <3>2, <3>3
  <2> QED  BY <2>2, <2>3
<1> QED  BY <1>4, <1>6, <1>7

\* A record that may be burned.
IsRecord(r) ==
  /\ r.section \in 0..127 /\ DOMAIN r.words \subseteq Words
  /\ \A w \in DOMAIN r.words : r.words[w] \in Bytes2
  /\ r.section = 15 => DOMAIN r.words # {}

\* The words of a record as they are burned, one after the other.
WordsOf(r) == [w \in 1..4 |-> WordOf(r, w - 1)]

\* A word that is burned is two bytes, one that is not is none.
LEMMA WordsAre ==
  ASSUME NEW r, IsRecord(r), NEW w \in 0..3
  PROVE  /\ WordsOf(r)[w + 1] \in Seq(Byte)
         /\ w \in DOMAIN r.words =>
              /\ WordsOf(r)[w + 1] = r.words[w] /\ Len(r.words[w]) = 2
         /\ w \notin DOMAIN r.words => WordsOf(r)[w + 1] = <<>>
<1>1. WordsOf(r)[w + 1] = IF w \in DOMAIN r.words THEN r.words[w] ELSE <<>>
  <2>1. w + 1 \in 1..4 /\ (w + 1) - 1 = w
    OBVIOUS
  <2>2. WordsOf(r)[w + 1] = WordOf(r, (w + 1) - 1)
    BY <2>1 DEF WordsOf
  <2> QED  BY <2>1, <2>2 DEF WordOf
<1>2. ASSUME w \in DOMAIN r.words
      PROVE  r.words[w] \in Seq(Byte) /\ Len(r.words[w]) = 2
  <2> DEFINE x == r.words[w]
  <2>1. x \in Byte \X Byte
    BY <1>2 DEF IsRecord, Bytes2, Byte
  <2> HIDE DEF Byte, x
  <2>2. PICK b, c \in Byte : x = <<b, c>>
    BY <2>1
  <2>3. <<b, c>> \in Seq(Byte) /\ Len(<<b, c>>) = 2
    OBVIOUS
  <2> QED  BY <2>2, <2>3 DEF x
<1> QED  BY <1>1, <1>2

\* The first w words of a record take two bytes for each that is burned.
LEMMA WordsTake ==
  ASSUME NEW r, IsRecord(r)
  PROVE  /\ Over(WordsOf(r), Byte, 4)
         /\ \A w \in 0..4 :
              Len(Made(WordsOf(r), w)) = 2 * Below(DOMAIN r.words, w)
<1> DEFINE D == DOMAIN r.words
           ws == WordsOf(r)
           P(w) == Len(Made(ws, w)) = 2 * Below(D, w)
<1>1. D \in SUBSET Words
  BY DEF IsRecord
<1>2. Over(ws, Byte, 4)
  <2>1. ASSUME NEW j \in 1..4  PROVE ws[j] \in Seq(Byte)
    <3>1. j - 1 \in 0..3 /\ (j - 1) + 1 = j
      OBVIOUS
    <3>2. ws[(j - 1) + 1] \in Seq(Byte)
      BY <3>1, WordsAre
    <3> QED  BY <3>1, <3>2
  <2> QED  BY <2>1 DEF Over
<1>3. P(0)
  <2>1. Made(ws, 0) = <<>>
    BY MadeNone
  <2> QED  BY <1>1, <2>1, BelowCounts
<1>4. ASSUME NEW w \in 0..3, P(w)  PROVE P(w + 1)
  <2>1. Longer(ws, Byte, w)
    <3>1. w \in Nat /\ w < 4 /\ 4 \in Nat
      OBVIOUS
    <3> HIDE DEF ws
    <3> QED  BY <1>2, <3>1, MadeLonger
  <2>2. Len(Made(ws, w + 1)) = Len(Made(ws, w)) + Len(ws[w + 1])
    BY <2>1 DEF Longer
  <2>3. Below(D, w + 1) = Below(D, w) + (IF w \in D THEN 1 ELSE 0)
        /\ Below(D, w) \in Nat
    <3>1. w \in 0..4
      OBVIOUS
    <3> HIDE DEF D
    <3> QED  BY <1>1, <3>1, BelowCounts
  <2>4. Len(ws[w + 1]) = IF w \in D THEN 2 ELSE 0
    <3> DEFINE x == ws[w + 1]
    <3>1. /\ w \in D => x = r.words[w] /\ Len(r.words[w]) = 2
          /\ w \notin D => x = <<>>
      BY WordsAre
    <3> HIDE DEF x, D
    <3>2. Len(x) = IF w \in D THEN 2 ELSE 0
      <4>1. w \in D => Len(x) = 2
        BY <3>1
      <4>2. w \notin D => Len(x) = 0
        BY <3>1
      <4> QED  BY <4>1, <4>2
    <3> QED  BY <3>2 DEF x
  <2> HIDE DEF ws, D
  <2> QED  BY <1>4, <2>2, <2>3, <2>4
<1> HIDE DEF P
<1>5. P(0) /\ P(1) /\ P(2) /\ P(3) /\ P(4)
  <2>1. /\ 0 \in 0..3 /\ 1 \in 0..3 /\ 2 \in 0..3 /\ 3 \in 0..3
        /\ 0 + 1 = 1 /\ 1 + 1 = 2 /\ 2 + 1 = 3 /\ 3 + 1 = 4
    OBVIOUS
  <2>2. P(1)
    BY <1>3, <1>4, <2>1
  <2>3. P(2)
    BY <1>4, <2>1, <2>2
  <2>4. P(3)
    BY <1>4, <2>1, <2>3
  <2>5. P(4)
    BY <1>4, <2>1, <2>4
  <2> QED  BY <1>3, <2>2, <2>3, <2>4, <2>5
<1>6. \A w \in 0..4 : P(w)
  <2>1. \A w \in 0..4 : w = 0 \/ w = 1 \/ w = 2 \/ w = 3 \/ w = 4
    OBVIOUS
  <2> QED  BY <1>5, <2>1
<1> QED  BY <1>2, <1>6 DEF P

\* How record r is burned: its header, then its words.
IsBurned(r) ==
  LET D == DOMAIN r.words
      h == Len(Header(r))
  IN /\ Len(Burn(r)) = h + 2 * Cardinality(D)
     /\ \A k \in 1..h : Burn(r)[k] = Header(r)[k]
     /\ \A w \in D : /\ Below(D, w) + 1 <= Cardinality(D)
                     /\ Burn(r)[h + 2 * Below(D, w) + 1] = r.words[w][1]
                     /\ Burn(r)[h + 2 * Below(D, w) + 2] = r.words[w][2]

\* So is each.
LEMMA RecordBurned ==
  ASSUME NEW r, IsRecord(r)
  PROVE  IsBurned(r)
<1> DEFINE D == DOMAIN r.words
           ws == WordsOf(r)
           H == Header(r)
           W == Made(ws, 4)
<1>1. D \in SUBSET Words
  BY DEF IsRecord
<1>2. H \in Seq(Byte)
  BY HeaderIsBytes DEF IsRecord
<1>3. Over(ws, Byte, 4)
  BY WordsTake
<1>4. Burn(r) = H \o W
  <2>1. [j \in 1..4 |-> ws[j]] = ws
    BY DEF WordsOf
  <2> QED  BY <2>1 DEF Burn, Made, WordsOf
<1>5. W \in Seq(Byte)
  <2>1. Longer(ws, Byte, 3)
    <3>1. 3 \in Nat /\ 3 < 4 /\ 4 \in Nat
      OBVIOUS
    <3> HIDE DEF ws
    <3> QED  BY <1>3, <3>1, MadeLonger
  <2>2. 3 + 1 = 4
    OBVIOUS
  <2> QED  BY <2>1, <2>2 DEF Longer
<1>6. Len(W) = 2 * Cardinality(D) /\ Cardinality(D) \in Nat
  <2>1. 4 \in 0..4
    OBVIOUS
  <2>2. Len(W) = 2 * Below(D, 4)
    BY <2>1, WordsTake
  <2> HIDE DEF D
  <2> QED  BY <1>1, <2>1, <2>2, BelowCounts
<1>7. ASSUME NEW w \in D
      PROVE  /\ Below(D, w) \in Nat
             /\ Len(W) >= 2 * Below(D, w) + 2
             /\ W[2 * Below(D, w) + 1] = r.words[w][1]
             /\ W[2 * Below(D, w) + 2] = r.words[w][2]
  <2>1. w \in 0..3 /\ w \in 0..4 /\ w \in Nat /\ w < 4 /\ 4 \in Nat
    BY <1>1 DEF Words
  <2>2. HoldsAt(ws, w, 4)
    <3> HIDE DEF ws, D
    <3> QED  BY <1>3, <2>1, MadeHolds
  <2>3. Len(Made(ws, w)) = 2 * Below(D, w)
    BY <2>1, WordsTake
  <2>4. ws[w + 1] = r.words[w] /\ Len(r.words[w]) = 2
    BY <1>7, <2>1, WordsAre
  <2>5. Below(D, w) \in Nat
    <3> HIDE DEF D
    <3> QED  BY <1>1, <2>1, BelowCounts
  <2>6. /\ Len(W) >= Len(Made(ws, w)) + Len(ws[w + 1])
        /\ \A k \in 1..Len(ws[w + 1]) :
             W[Len(Made(ws, w)) + k] = ws[w + 1][k]
    BY <2>2 DEF HoldsAt
  <2>7. 1 \in 1..2 /\ 2 \in 1..2
    OBVIOUS
  <2> HIDE DEF W, ws, D
  <2> QED  BY <2>3, <2>4, <2>5, <2>6, <2>7
<1> HIDE DEF W, H, D
<1>8. /\ Len(H) \in Nat /\ Len(W) \in Nat /\ Len(H \o W) = Len(H) + Len(W)
      /\ \A k \in 1..Len(H) : (H \o W)[k] = H[k]
      /\ \A k \in 1..Len(W) : (H \o W)[Len(H) + k] = W[k]
  BY <1>2, <1>5
<1>9. ASSUME NEW w \in D
      PROVE  /\ Below(D, w) + 1 <= Cardinality(D)
             /\ Burn(r)[Len(H) + 2 * Below(D, w) + 1] = r.words[w][1]
             /\ Burn(r)[Len(H) + 2 * Below(D, w) + 2] = r.words[w][2]
  <2> DEFINE b == 2 * Below(D, w)
  <2>1. Below(D, w) \in Nat /\ Len(W) >= b + 2
        /\ W[b + 1] = r.words[w][1] /\ W[b + 2] = r.words[w][2]
    BY <1>7
  <2>2. Below(D, w) + 1 <= Cardinality(D)
    BY <1>6, <2>1
  <2>3. /\ b + 1 \in 1..Len(W) /\ b + 2 \in 1..Len(W) /\ b \in Nat
        /\ Len(H) + b + 1 = Len(H) + (b + 1)
        /\ Len(H) + b + 2 = Len(H) + (b + 2)
    BY <1>8, <2>1
  <2> HIDE DEF b
  <2>4. /\ Burn(r)[Len(H) + b + 1] = r.words[w][1]
        /\ Burn(r)[Len(H) + b + 2] = r.words[w][2]
    BY <1>4, <1>8, <2>1, <2>3
  <2> QED  BY <2>2, <2>4 DEF b
<1> QED  BY <1>4, <1>6, <1>8, <1>9 DEF IsBurned, H, D

\* The records of EFUSE e as they are burned, and where record i + 1 starts.
Burns(e) == [i \in DOMAIN e |-> Burn(e[i])]
StartOf(e, i) == Len(Made(Burns(e), i))

\* Record i + 1 of what is burned, in the bytes of the EFUSE.
RecordAt(i) ==
  LET r == burned[i + 1]
      s == StartOf(burned, i)
  IN /\ IsRecord(r) /\ IsBurned(r)
     /\ s \in Nat /\ Len(Burn(r)) \in Nat
     /\ StartOf(burned, i + 1) = s + Len(Burn(r))
     /\ StartOf(burned, i + 1) <= Len(Content)
     /\ \A k \in 1..Len(Burn(r)) : ByteAt(s + (k - 1)) = Burn(r)[k]

\* What is burned is made of its records.
LEMMA ContentIs ==
  ASSUME burned \in Efuses
  PROVE  /\ Len(burned) \in Nat /\ DOMAIN burned = 1..Len(burned)
         /\ Over(Burns(burned), Byte, Len(burned))
         /\ StartOf(burned, 0) = 0
         /\ StartOf(burned, Len(burned)) = Len(Content)
         /\ Made(Burns(burned), Len(burned)) = Content
         /\ Len(Content) \in Nat
<1> DEFINE n == Len(burned)
<1>1. n \in Nat /\ DOMAIN burned = 1..n
  BY EfuseAssumption
<1>2. Over(Burns(burned), Byte, n)
  BY <1>1, RecordIsBytes DEF Over, Burns
<1>3. StartOf(burned, 0) = 0
  BY MadeNone DEF StartOf
<1>4. Made(Burns(burned), n) = Content
  <2>1. [j \in 1..n |-> Burns(burned)[j]] = Burns(burned)
    BY <1>1 DEF Burns
  <2> QED  BY <2>1 DEF Made, Content, Burns
<1>5. Len(Content) \in Nat
  <2> DEFINE B == Burns(burned)
  <2>1. CASE n = 0
    <3>1. Len(Content) = 0
      BY <1>3, <1>4, <2>1 DEF StartOf
    <3> QED  BY <3>1
  <2>2. CASE n # 0
    <3>1. n - 1 \in Nat /\ n - 1 < n /\ (n - 1) + 1 = n
      BY <1>1, <2>2
    <3>2. Longer(B, Byte, n - 1)
      <4> HIDE DEF B, n
      <4> QED  BY <1>1, <1>2, <3>1, MadeLonger DEF B
    <3>3. Made(B, n) \in Seq(Byte)
      BY <3>1, <3>2 DEF Longer
    <3>4. Content \in Seq(Byte)
      BY <1>4, <3>3
    <3> QED  BY <3>4
  <2> QED  BY <2>1, <2>2
<1> QED  BY <1>1, <1>2, <1>3, <1>4, <1>5 DEF StartOf

\* Each record is where those before it end.
LEMMA RecordsAre ==
  ASSUME burned \in Efuses, NEW i \in Nat, i < Len(burned)
  PROVE  RecordAt(i)
<1> DEFINE n == Len(burned)
           B == Burns(burned)
           r == burned[i + 1]
           s == StartOf(burned, i)
<1>1. n \in Nat /\ i + 1 \in DOMAIN burned /\ i < n
  BY ContentIs
<1>2. IsRecord(r)
  BY <1>1, EfuseAssumption, BurnedAssumption DEF IsRecord
<1>3. IsBurned(r)
  <2> HIDE DEF r
  <2> QED  BY <1>2, RecordBurned
<1>4. B[i + 1] = Burn(r)
  BY <1>1 DEF Burns
<1>5. Over(B, Byte, n)
  BY ContentIs
<1>6. Longer(B, Byte, i) /\ HoldsAt(B, i, n)
  <2> HIDE DEF B, n
  <2> QED  BY <1>1, <1>5, MadeLonger, MadeHolds
<1>7. /\ s \in Nat /\ Len(Burn(r)) \in Nat
      /\ StartOf(burned, i + 1) = s + Len(Burn(r))
  BY <1>4, <1>6 DEF Longer, StartOf
<1>8. /\ Len(Content) >= s + Len(Burn(r))
      /\ \A k \in 1..Len(Burn(r)) : Content[s + k] = Burn(r)[k]
  <2>1. Made(B, n) = Content
    BY ContentIs
  <2> QED  BY <1>4, <1>6, <2>1 DEF HoldsAt, StartOf
<1>9. Len(Content) \in Nat
  BY ContentIs
<1> HIDE DEF s
<1>10. ASSUME NEW k \in 1..Len(Burn(r))
       PROVE  ByteAt(s + (k - 1)) = Burn(r)[k]
  <2>1. s + (k - 1) < Len(Content) /\ (s + (k - 1)) + 1 = s + k
    BY <1>7, <1>8, <1>9
  <2> QED  BY <1>8, <2>1 DEF ByteAt
<1>11. StartOf(burned, i + 1) <= Len(Content)
  BY <1>7, <1>8, <1>9
<1> QED  BY <1>2, <1>3, <1>7, <1>10, <1>11 DEF RecordAt, s

\* The records up to the i-th that have word p.
Having(e, p, i) ==
  {j \in 1..i : e[j].section = p[1] /\ p[2] \in DOMAIN e[j].words}

\* What the last of the records S says of word p.
LastAmong(e, p, S) ==
  IF S = {} THEN <<255, 255>>
  ELSE e[CHOOSE j \in S : \A m \in S : m <= j].words[p[2]]

\* What the last of the first i records says of it.
LastOf(e, p, i) == LastAmong(e, p, Having(e, p, i))

\* One record more: its words override those before it.
LEMMA LastOfNext ==
  ASSUME NEW e, NEW p, NEW i \in Nat
  PROVE  /\ LastOf(e, p, 0) = <<255, 255>>
         /\ e[i + 1].section = p[1] /\ p[2] \in DOMAIN e[i + 1].words =>
              LastOf(e, p, i + 1) = e[i + 1].words[p[2]]
         /\ ~(e[i + 1].section = p[1] /\ p[2] \in DOMAIN e[i + 1].words) =>
              LastOf(e, p, i + 1) = LastOf(e, p, i)
<1>1. LastOf(e, p, 0) = <<255, 255>>
  <2>1. Having(e, p, 0) = {}
    BY DEF Having
  <2> QED  BY <2>1 DEF LastOf, LastAmong
<1>2. ASSUME e[i + 1].section = p[1], p[2] \in DOMAIN e[i + 1].words
      PROVE  LastOf(e, p, i + 1) = e[i + 1].words[p[2]]
  <2> DEFINE H == Having(e, p, i + 1)
  <2>1. i + 1 \in H /\ \A m \in H : m \in Nat /\ m <= i + 1
    BY <1>2 DEF Having
  <2> HIDE DEF H
  <2>2. (CHOOSE j \in H : \A m \in H : m <= j) = i + 1
    <3> DEFINE c == CHOOSE j \in H : \A m \in H : m <= j
    <3>1. c \in H /\ \A m \in H : m <= c
      BY <2>1
    <3> HIDE DEF c
    <3>2. c = i + 1
      BY <2>1, <3>1
    <3> QED  BY <3>2 DEF c
  <2>3. H # {}
    BY <2>1
  <2> QED  BY <2>2, <2>3 DEF LastOf, LastAmong, H
<1>3. ASSUME ~(e[i + 1].section = p[1] /\ p[2] \in DOMAIN e[i + 1].words)
      PROVE  LastOf(e, p, i + 1) = LastOf(e, p, i)
  <2>1. \A j \in 1..(i + 1) : j \in 1..i \/ j = i + 1
    OBVIOUS
  <2>2. \A j \in 1..i : j \in 1..(i + 1)
    OBVIOUS
  <2>3. Having(e, p, i + 1) = Having(e, p, i)
    BY <1>3, <2>1, <2>2 DEF Having
  <2> QED  BY <2>3 DEF LastOf
<1> QED  BY <1>1, <1>2, <1>3

\* What map m says of word p.
ValueAt(m, p) == IF p \in DOMAIN m THEN m[p] ELSE <<255, 255>>

\* Every section that was burned is one of the map.
AllInMap == \A i \in DOMAIN burned : burned[i].section \in Sections

\* The walk stands at the header of record i + 1, or behind the last one, and
\* the map so far is that of the first i.
StandsAt(i) ==
  /\ byte = ByteAt(StartOf(burned, i))
  /\ i < Len(burned) => addr = StartOf(burned, i) + 1
  /\ \A p \in Sections \X Words : ValueAt(word, p) = LastOf(burned, p, i)

\* What WalkRecord takes the bytes for: the header's form and second byte,
\* the section, the word enable bits and where the words start.
Extended == byte % 32 = 15
Second == ByteAt(addr)
Offset == IF Extended THEN (8 * (Second \div 16)) + (byte \div 32)
          ELSE byte \div 16
Wren == IF Extended THEN Second % 16 ELSE byte % 16
DataAt == IF Extended THEN addr + 1 ELSE addr

\* At the header of a record the walk takes it for what it is.
LEMMA HeaderTaken ==
  ASSUME burned \in Efuses, NEW i \in Nat, i < Len(burned), AllInMap,
         StandsAt(i)
  PROVE  LET r == burned[i + 1]
         IN /\ byte # 255 /\ Offset = r.section /\ r.section \in Sections
            /\ Wren = Enable(DOMAIN r.words)
            /\ DataAt = StartOf(burned, i) + Len(Header(r))
<1> DEFINE r == burned[i + 1]
           s == StartOf(burned, i)
           h == Header(r)
           we == Enable(DOMAIN r.words)
<1>1. RecordAt(i)
  BY RecordsAre
<1>2. /\ r.section \in Sections /\ IsRecord(r) /\ IsBurned(r)
      /\ s \in Nat /\ Len(Burn(r)) \in Nat
      /\ \A k \in 1..Len(Burn(r)) : ByteAt(s + (k - 1)) = Burn(r)[k]
  <2>1. i + 1 \in DOMAIN burned
    BY ContentIs
  <2> QED  BY <1>1, <2>1 DEF RecordAt, AllInMap
<1>3. byte = ByteAt(s) /\ addr = s + 1
  BY DEF StandsAt
<1>4. /\ Len(Burn(r)) = Len(h) + 2 * Cardinality(DOMAIN r.words)
      /\ \A k \in 1..Len(h) : Burn(r)[k] = h[k]
  BY <1>2 DEF IsBurned
<1>5. Cardinality(DOMAIN r.words) \in Nat
  BY <1>2, CountsWords DEF IsRecord
<1>6. \/ /\ Len(h) = 1
         /\ h[1] # 255 /\ h[1] % 32 # 15
         /\ h[1] \div 16 = r.section /\ h[1] % 16 = we
      \/ /\ Len(h) = 2
         /\ h[1] # 255 /\ h[1] % 32 = 15
         /\ 8 * (h[2] \div 16) + (h[1] \div 32) = r.section
         /\ h[2] % 16 = we
  <2> HIDE DEF r
  <2> QED  BY <1>2, HeaderIs DEF IsRecord, r
<1> HIDE DEF r, s, h, we
<1>7. Len(h) \in {1, 2} /\ byte = h[1] /\ (Len(h) = 2 => Second = h[2])
  <2>1. 1 \in 1..Len(h) /\ Len(h) <= Len(Burn(r)) /\ Len(h) \in {1, 2}
    BY <1>4, <1>5, <1>6
  <2>2. byte = h[1]
    <3>1. 1 \in 1..Len(Burn(r)) /\ s + (1 - 1) = s
      BY <1>2, <2>1
    <3>2. ByteAt(s + (1 - 1)) = Burn(r)[1]
      BY <1>2, <3>1
    <3> QED  BY <1>3, <1>4, <2>1, <3>1, <3>2
  <2>3. ASSUME Len(h) = 2  PROVE Second = h[2]
    <3>1. 2 \in 1..Len(Burn(r)) /\ s + (2 - 1) = s + 1 /\ 2 \in 1..Len(h)
      BY <1>2, <2>1, <2>3
    <3>2. ByteAt(s + (2 - 1)) = Burn(r)[2]
      BY <1>2, <3>1
    <3> QED  BY <1>3, <1>4, <3>1, <3>2 DEF Second
  <2> QED  BY <2>1, <2>2, <2>3
<1>8. CASE Len(h) = 1
  <2>1. /\ ~Extended /\ byte # 255
        /\ byte \div 16 = r.section /\ byte % 16 = we
    BY <1>6, <1>7, <1>8 DEF Extended
  <2>2. DataAt = s + Len(h)
    BY <1>3, <1>8, <2>1 DEF DataAt
  <2>3. Offset = r.section /\ Wren = we
    BY <2>1 DEF Offset, Wren
  <2> QED  BY <1>2, <2>1, <2>2, <2>3 DEF r, s, h, we
<1>9. CASE Len(h) = 2
  <2>1. /\ Extended /\ byte # 255
        /\ 8 * (Second \div 16) + (byte \div 32) = r.section
        /\ Second % 16 = we
    BY <1>6, <1>7, <1>9 DEF Extended
  <2>2. DataAt = s + Len(h)
    BY <1>2, <1>3, <1>9, <2>1 DEF DataAt
  <2>3. Offset = r.section /\ Wren = we
    BY <2>1 DEF Offset, Wren
  <2> QED  BY <1>2, <2>1, <2>2, <2>3 DEF r, s, h, we
<1> QED  BY <1>7, <1>8, <1>9

\* The bytes of a record's words, where the walk looks for them.
WordBytes(r, a) ==
  \A w \in DOMAIN r.words :
    LET at == a + 2 * Below(DOMAIN r.words, w)
    IN /\ at \in Nat /\ at + 1 < Len512
       /\ ByteAt(at) = r.words[w][1] /\ ByteAt(at + 1) = r.words[w][2]

\* They are there.
LEMMA WordsThere ==
  ASSUME burned \in Efuses, NEW i \in Nat, i < Len(burned),
         Len(Content) <= Len512
  PROVE  LET r == burned[i + 1]
             a == StartOf(burned, i) + Len(Header(r))
         IN /\ WordBytes(r, a)
            /\ a + 2 * Cardinality(DOMAIN r.words) = StartOf(burned, i + 1)
            /\ StartOf(burned, i + 1) \in Nat
            /\ StartOf(burned, i + 1) <= Len512
<1> DEFINE r == burned[i + 1]
           D == DOMAIN r.words
           s == StartOf(burned, i)
           h == Len(Header(r))
           next == StartOf(burned, i + 1)
           C == Cardinality(D)
<1>1. RecordAt(i)
  BY RecordsAre
<1>2. /\ IsRecord(r) /\ IsBurned(r)
      /\ s \in Nat /\ Len(Burn(r)) \in Nat
      /\ next = s + Len(Burn(r)) /\ next <= Len(Content)
      /\ \A k \in 1..Len(Burn(r)) : ByteAt(s + (k - 1)) = Burn(r)[k]
  BY <1>1 DEF RecordAt
<1>3. /\ Len(Burn(r)) = h + 2 * C
      /\ \A w \in D : /\ Below(D, w) + 1 <= C
                      /\ Burn(r)[h + 2 * Below(D, w) + 1] = r.words[w][1]
                      /\ Burn(r)[h + 2 * Below(D, w) + 2] = r.words[w][2]
  BY <1>2 DEF IsBurned
<1>4. D \in SUBSET Words
  BY <1>2 DEF IsRecord
<1>5. C \in Nat /\ \A w \in D : Below(D, w) \in Nat
  <2> HIDE DEF D
  <2>1. \A w \in D : w \in 0..4
    BY <1>4 DEF Words
  <2> QED  BY <1>4, <2>1, CountsWords, BelowCounts
<1>6. h \in Nat
  <2>1. Header(r) \in Seq(Byte)
    BY <1>2, HeaderIsBytes DEF IsRecord
  <2> QED  BY <2>1
<1>7. Len512 \in Nat /\ Len(Content) \in Nat
  BY ContentIs, EfuseAssumption
<1> DEFINE a == s + h
<1>8. a + 2 * C = next /\ next \in Nat /\ next <= Len512
  <2> HIDE DEF s, h, next, C
  <2> QED  BY <1>2, <1>3, <1>5, <1>6, <1>7
<1>9. ASSUME NEW w \in D
      PROVE  LET at == a + 2 * Below(D, w)
             IN /\ at \in Nat /\ at + 1 < Len512
                /\ ByteAt(at) = r.words[w][1]
                /\ ByteAt(at + 1) = r.words[w][2]
  <2> DEFINE b == 2 * Below(D, w)
             x == r.words[w]
  <2>1. b \in Nat /\ b + 2 <= 2 * C /\ b + 2 \in Nat
    <3> DEFINE n == Below(D, w)
    <3>1. n \in Nat /\ n + 1 <= C
      BY <1>3, <1>5
    <3> HIDE DEF n, C
    <3>2. 2 * n \in Nat /\ 2 * n + 2 <= 2 * C
      BY <1>5, <3>1
    <3> QED  BY <3>2 DEF n
  <2>2. Burn(r)[h + b + 1] = x[1] /\ Burn(r)[h + b + 2] = x[2]
    BY <1>3
  <2> HIDE DEF b, x, D, C, r, s, h
  <2>3. /\ h + b + 1 \in 1..Len(Burn(r)) /\ h + b + 2 \in 1..Len(Burn(r))
        /\ s + ((h + b + 1) - 1) = a + b
        /\ s + ((h + b + 2) - 1) = a + b + 1
    BY <1>2, <1>3, <1>5, <1>6, <2>1
  <2>4. ByteAt(a + b) = x[1] /\ ByteAt(a + b + 1) = x[2]
    <3>1. ByteAt(s + ((h + b + 1) - 1)) = Burn(r)[h + b + 1]
      BY <1>2, <2>3
    <3>2. ByteAt(s + ((h + b + 2) - 1)) = Burn(r)[h + b + 2]
      BY <1>2, <2>3
    <3> QED  BY <2>2, <2>3, <3>1, <3>2
  <2>5. a + b \in Nat /\ a + b + 1 < Len512
    <3>1. a + b + 2 <= next
      BY <1>2, <1>5, <1>6, <1>8, <2>1
    <3> HIDE DEF next
    <3> QED  BY <1>2, <1>6, <1>7, <1>8, <2>1, <3>1
  <2> QED  BY <2>4, <2>5 DEF b, x
<1> QED  BY <1>8, <1>9 DEF WordBytes

\* ReadWords puts them into the map, and nothing else.
LEMMA WordsRead ==
  ASSUME NEW r, IsRecord(r), NEW a \in Nat, WordBytes(r, a),
         ReadWords(r.section, Enable(DOMAIN r.words), a)
  PROVE  /\ \A p : IF p[1] = r.section /\ p[2] \in DOMAIN r.words
                      /\ p = <<p[1], p[2]>>
                   THEN ValueAt(word', p) = r.words[p[2]]
                   ELSE ValueAt(word', p) = ValueAt(word, p)
         /\ NextHeader(Within(a + 2 * Cardinality(DOMAIN r.words)))
<1> DEFINE D == DOMAIN r.words
           we == Enable(D)
           read == {w \in Enabled(we) :
                      At(a, we, w) = a \/ At(a, we, w) < Len512}
           hi(w) == IF At(a, we, w) + 1 < Len512
                    THEN ByteAt(At(a, we, w) + 1) ELSE 0
           new == {r.section} \X read
<1>1. /\ word' = [p \in DOMAIN word \cup new |->
                    IF p \in new
                    THEN <<ByteAt(At(a, we, p[2])), hi(p[2])>> ELSE word[p]]
      /\ NextHeader(Within(a + 2 * Cardinality(Enabled(we))))
  BY DEF ReadWords
<1>2. Enabled(we) = D
  BY EnabledAre DEF IsRecord
<1>3. \A w : At(a, we, w) = a + 2 * Below(D, w)
  BY <1>2 DEF At, Below
<1>4. ASSUME NEW w \in D
      PROVE  /\ At(a, we, w) < Len512
             /\ <<ByteAt(At(a, we, w)), hi(w)>> = r.words[w]
  <2> DEFINE at == At(a, we, w)
             x == r.words[w]
  <2>1. /\ at \in Nat /\ at + 1 < Len512
        /\ ByteAt(at) = x[1] /\ ByteAt(at + 1) = x[2]
    BY <1>3 DEF WordBytes
  <2>2. Len512 \in Nat
    BY EfuseAssumption
  <2>3. x \in Byte \X Byte
    BY DEF IsRecord, Bytes2, Byte
  <2>4. hi(w) = ByteAt(at + 1)
    BY <2>1
  <2> HIDE DEF x, at, Byte, hi
  <2>5. x = <<x[1], x[2]>>
    BY <2>3
  <2>6. <<ByteAt(at), hi(w)>> = x
    BY <2>1, <2>4, <2>5
  <2>7. at < Len512
    BY <2>1, <2>2
  <2> QED  BY <2>6, <2>7 DEF x, at
<1>5. read = D
  BY <1>2, <1>4
<1>6. ASSUME NEW p
      PROVE  IF p[1] = r.section /\ p[2] \in D /\ p = <<p[1], p[2]>>
             THEN ValueAt(word', p) = r.words[p[2]]
             ELSE ValueAt(word', p) = ValueAt(word, p)
  <2> HIDE DEF read, hi, we, D
  <2>1. p \in new <=> p[1] = r.section /\ p[2] \in D /\ p = <<p[1], p[2]>>
    BY <1>5
  <2>2. DOMAIN word' = DOMAIN word \cup new
    BY <1>1
  <2> HIDE DEF new
  <2>3. CASE p \in new
    <3>1. word'[p] = <<ByteAt(At(a, we, p[2])), hi(p[2])>>
      BY <1>1, <2>3
    <3>2. <<ByteAt(At(a, we, p[2])), hi(p[2])>> = r.words[p[2]]
      BY <1>4, <2>1, <2>3
    <3>3. ValueAt(word', p) = word'[p]
      BY <2>2, <2>3 DEF ValueAt
    <3> QED  BY <2>1, <2>3, <3>1, <3>2, <3>3
  <2>4. CASE p \notin new
    <3>1. p \in DOMAIN word' <=> p \in DOMAIN word
      BY <2>2, <2>4
    <3>2. p \in DOMAIN word => word'[p] = word[p]
      BY <1>1, <2>4
    <3>3. ValueAt(word', p) = ValueAt(word, p)
      BY <3>1, <3>2 DEF ValueAt
    <3> QED  BY <2>1, <2>4, <3>3
  <2> QED  BY <2>3, <2>4
<1> QED  BY <1>1, <1>2, <1>6 DEF D

\* The words of a record are taken over, and the walk is at what follows it.
LEMMA RecordTaken ==
  ASSUME burned \in Efuses, NEW i \in Nat, i < Len(burned), AllInMap,
         StandsAt(i), Len(Content) <= Len512, WalkRecord
  PROVE  /\ NextHeader(StartOf(burned, i + 1))
         /\ \A p \in Sections \X Words :
              ValueAt(word', p) = LastOf(burned, p, i + 1)
<1> DEFINE r == burned[i + 1]
           D == DOMAIN r.words
           next == StartOf(burned, i + 1)
<1>1. /\ Offset = r.section /\ r.section \in Sections
      /\ Wren = Enable(D)
      /\ DataAt = StartOf(burned, i) + Len(Header(r))
  BY HeaderTaken
<1>2. /\ WordBytes(r, DataAt)
      /\ DataAt + 2 * Cardinality(D) = next
      /\ next \in Nat /\ next <= Len512
  BY <1>1, WordsThere
<1>3. IF Extended /\ Wren = 15
      THEN NextHeader(DataAt) /\ UNCHANGED word
      ELSE IF Offset \in Sections THEN ReadWords(Offset, Wren, DataAt)
      ELSE /\ NextHeader(Within(DataAt + IF Bit(Wren, 0) THEN 0 ELSE 8))
           /\ UNCHANGED word
  BY DEF WalkRecord, Extended, Wren, Second, Offset, DataAt
<1>4. /\ IsRecord(r) /\ StartOf(burned, i) \in Nat
  BY RecordsAre DEF RecordAt
<1>5. DataAt \in Nat
  <2>1. Header(r) \in Seq(Byte)
    BY <1>4, HeaderIsBytes DEF IsRecord
  <2>2. Len(Header(r)) \in Nat
    BY <2>1
  <2> QED  BY <1>1, <1>4, <2>2
<1>6. \A p \in Sections \X Words : ValueAt(word, p) = LastOf(burned, p, i)
  BY DEF StandsAt
<1>7. D \in SUBSET Words
  BY <1>4 DEF IsRecord
<1>8. CASE Extended /\ Wren = 15
  <2>1. D = {}
    BY <1>1, <1>7, <1>8, EnabledAre
  <2>2. DataAt = next
    <3>1. Cardinality({}) = 0
      BY FS_EmptySet
    <3> HIDE DEF D, next
    <3> QED  BY <1>2, <1>5, <2>1, <3>1
  <2>3. NextHeader(next) /\ word' = word
    BY <1>3, <1>8, <2>2
  <2>4. ASSUME NEW p \in Sections \X Words
        PROVE  LastOf(burned, p, i + 1) = LastOf(burned, p, i)
    BY <2>1, LastOfNext
  <2> QED  BY <1>6, <2>3, <2>4
<1>9. CASE ~(Extended /\ Wren = 15)
  <2>1. ReadWords(r.section, Enable(D), DataAt)
    BY <1>1, <1>3, <1>9
  <2>2. /\ \A p : IF p[1] = r.section /\ p[2] \in D /\ p = <<p[1], p[2]>>
                  THEN ValueAt(word', p) = r.words[p[2]]
                  ELSE ValueAt(word', p) = ValueAt(word, p)
        /\ NextHeader(Within(DataAt + 2 * Cardinality(D)))
    <3> HIDE DEF r
    <3> QED  BY <1>2, <1>4, <1>5, <2>1, WordsRead
  <2>3. Within(next) = next
    <3> HIDE DEF next
    <3>1. Len512 \in Nat
      BY EfuseAssumption
    <3> QED  BY <1>2, <3>1 DEF Within
  <2>4. NextHeader(next)
    BY <1>2, <2>2, <2>3
  <2>5. ASSUME NEW p \in Sections \X Words
        PROVE  ValueAt(word', p) = LastOf(burned, p, i + 1)
    <3>1. p = <<p[1], p[2]>>
      OBVIOUS
    <3>2. CASE p[1] = r.section /\ p[2] \in D
      <4>1. LastOf(burned, p, i + 1) = r.words[p[2]]
        BY <3>2, LastOfNext
      <4> QED  BY <2>2, <3>1, <3>2, <4>1
    <3>3. CASE ~(p[1] = r.section /\ p[2] \in D)
      <4>1. LastOf(burned, p, i + 1) = LastOf(burned, p, i)
        BY <3>3, LastOfNext
      <4> QED  BY <1>6, <2>2, <3>3, <4>1
    <3> QED  BY <3>2, <3>3
  <2> QED  BY <2>4, <2>5
<1> QED  BY <1>8, <1>9

\* A walk that has begun is at some record; none has words in hand else.
WalkInv ==
  /\ Len(Content) <= Len512
  /\ reading # "walk" => word = NoWord
  /\ reading = "walk" /\ AllInMap =>
       \E i \in 0..Len(burned) : StandsAt(i)

\* A record is never behind a byte that is not burned.
LEMMA BehindIsErased ==
  ASSUME burned \in Efuses, StandsAt(Len(burned))
  PROVE  byte = 255
<1>1. StartOf(burned, Len(burned)) = Len(Content)
  BY ContentIs
<1>2. Len(Content) \in Nat
  BY ContentIs
<1> QED  BY <1>1, <1>2 DEF StandsAt, ByteAt

\* A record takes a byte at least, which is not an erased one; the words it
\* has take more.
LEMMA RecordTakes ==
  ASSUME burned \in Efuses, NEW i \in Nat, i < Len(burned), AllInMap
  PROVE  /\ Len(Burn(burned[i + 1])) \in Nat
         /\ Len(Burn(burned[i + 1])) >= 1
         /\ ByteAt(StartOf(burned, i)) # 255
         /\ Len(Burn(burned[i + 1])) = 1 => DOMAIN burned[i + 1].words = {}
<1> DEFINE r == burned[i + 1]
           s == StartOf(burned, i)
           h == Header(r)
           D == DOMAIN r.words
<1>1. RecordAt(i)
  BY RecordsAre
<1>2. /\ IsRecord(r) /\ IsBurned(r) /\ s \in Nat /\ Len(Burn(r)) \in Nat
      /\ \A k \in 1..Len(Burn(r)) : ByteAt(s + (k - 1)) = Burn(r)[k]
  BY <1>1 DEF RecordAt
<1>3. r.section \in Sections
  <2>1. i + 1 \in DOMAIN burned
    BY ContentIs
  <2> QED  BY <2>1 DEF AllInMap
<1>4. Len(h) \in {1, 2} /\ h[1] # 255
  <2> HIDE DEF r
  <2> QED  BY <1>2, <1>3, HeaderIs DEF IsRecord
<1>5. /\ Len(Burn(r)) = Len(h) + 2 * Cardinality(D)
      /\ \A k \in 1..Len(h) : Burn(r)[k] = h[k]
  BY <1>2 DEF IsBurned
<1>6. IsFiniteSet(D) /\ Cardinality(D) \in Nat
  <2>1. IsFiniteSet(0..3)
    <3>1. 0 \in Int /\ 3 \in Int
      OBVIOUS
    <3> QED  BY <3>1, FS_Interval, Zenon
  <2>2. D \subseteq 0..3
    BY <1>2 DEF IsRecord, Words
  <2> HIDE DEF D
  <2> QED  BY <2>1, <2>2, FS_Subset, FS_CardinalityType
<1> HIDE DEF r, s, h, D
<1>7. Len(Burn(r)) >= 1 /\ 1 \in 1..Len(Burn(r)) /\ 1 \in 1..Len(h)
      /\ s + (1 - 1) = s
  BY <1>2, <1>4, <1>5, <1>6
<1>8. ByteAt(s) # 255
  <2>1. ByteAt(s + (1 - 1)) = Burn(r)[1]
    BY <1>2, <1>7
  <2> QED  BY <1>4, <1>5, <1>7, <2>1
<1>9. Len(Burn(r)) = 1 => D = {}
  <2>1. Len(Burn(r)) = 1 => Cardinality(D) = 0
    <3> DEFINE b == Len(Burn(r))
               l == Len(h)
               c == Cardinality(D)
    <3>1. b = l + 2 * c /\ l \in {1, 2} /\ c \in Nat
      BY <1>4, <1>5, <1>6
    <3> HIDE DEF b, l, c
    <3>2. b = 1 => c = 0
      BY <3>1
    <3> QED  BY <3>2 DEF b, c
  <2> QED  BY <1>6, <2>1, FS_EmptySet
<1> QED  BY <1>2, <1>7, <1>8, <1>9 DEF r, s, D

\* A round of the walk.
LEMMA WalkGoesOn ==
  ASSUME EfuseInv, WalkInv, WalkRecord
  PROVE  WalkInv'
<1>1. burned \in Efuses /\ UNCHANGED <<burned, reading>> /\ reading = "walk"
      /\ byte # 255
  BY DEF EfuseInv, WalkRecord
<1>2. Len(Content)' <= Len512
  BY <1>1 DEF WalkInv, Content
<1>3. ASSUME AllInMap  PROVE \E i \in 0..Len(burned) : StandsAt(i)'
  <2>1. PICK i \in 0..Len(burned) : StandsAt(i)
    BY <1>1, <1>3 DEF WalkInv
  <2>2. i # Len(burned)
    BY <1>1, <2>1, BehindIsErased
  <2>3. i \in Nat /\ i < Len(burned) /\ i + 1 \in 0..Len(burned)
        /\ Len(burned) \in Nat
    <3>1. Len(burned) \in Nat
      BY <1>1, ContentIs
    <3> QED  BY <2>2, <3>1
  <2> DEFINE next == StartOf(burned, i + 1)
  <2>4. /\ NextHeader(next)
        /\ \A p \in Sections \X Words :
             ValueAt(word', p) = LastOf(burned, p, i + 1)
    BY <1>1, <1>3, <2>1, <2>3, RecordTaken DEF WalkInv
  <2>5. byte' = ByteAt(next)
    BY <2>4 DEF NextHeader
  <2>6. ASSUME i + 1 < Len(burned)  PROVE addr' = next + 1
    <3>1. (i + 1) + 1 = i + 2 /\ i + 1 \in Nat
      BY <2>3
    <3>2. RecordAt(i + 1)
      BY <1>1, <2>6, <3>1, RecordsAre
    <3>3. ByteAt(next) # 255 /\ Len(Burn(burned[(i + 1) + 1])) >= 1
      BY <1>1, <1>3, <2>6, <3>1, RecordTakes
    <3>4. next < Len512
      <4>1. /\ next \in Nat
            /\ StartOf(burned, i + 2) =
                 next + Len(Burn(burned[(i + 1) + 1]))
            /\ Len(Burn(burned[(i + 1) + 1])) \in Nat
            /\ StartOf(burned, i + 2) <= Len(Content)
        BY <3>1, <3>2 DEF RecordAt
      <4>2. Len(Content) <= Len512 /\ Len512 \in Nat /\ Len(Content) \in Nat
        BY <1>1, EfuseAssumption, ContentIs DEF WalkInv
      <4> HIDE DEF next
      <4> QED  BY <3>3, <4>1, <4>2
    <3> QED  BY <2>4, <3>3, <3>4 DEF NextHeader
  <2> HIDE DEF next
  <2>7. /\ byte' = ByteAt(StartOf(burned, i + 1))
        /\ i + 1 < Len(burned) => addr' = StartOf(burned, i + 1) + 1
    BY <2>5, <2>6 DEF next
  <2>8. ByteAt(StartOf(burned, i + 1))' = ByteAt(StartOf(burned, i + 1))
    BY <1>1 DEF ByteAt, Content
  <2>9. StandsAt(i + 1)'
    BY <1>1, <2>4, <2>7, <2>8 DEF StandsAt
  <2> QED  BY <2>3, <2>9
<1>4. AllInMap' <=> AllInMap
  BY <1>1 DEF AllInMap
<1> QED  BY <1>1, <1>2, <1>3, <1>4 DEF WalkInv

\* The walk begins at the first record, and ends with the map.
LEMMA WalkFrames ==
  ASSUME EfuseInv, WalkInv,
         \/ InitPGData \/ WalkEnds \/ Parse \/ Forget
         \/ UNCHANGED efuseVars
  PROVE  WalkInv'
<1>1. burned \in Efuses
  BY DEF EfuseInv
<1>2. burned' = burned
  BY DEF InitPGData, WalkEnds, Parse, Forget, efuseVars
<1>3. Len(Content)' <= Len512
  BY <1>2 DEF WalkInv, Content
<1>4. CASE InitPGData
  <2>1. word' = NoWord /\ reading' \in {"walk", "loaded"}
    BY <1>4 DEF InitPGData, WalkInv
  <2>2. ASSUME reading' = "walk"
        PROVE  StandsAt(0)'
    <3>1. byte' = ByteAt(0) /\ addr' = 1
      BY <1>4, <2>2 DEF InitPGData
    <3>2. StartOf(burned, 0) = 0
      BY <1>1, ContentIs
    <3>3. ByteAt(0)' = ByteAt(0)
      BY <1>2 DEF ByteAt, Content
    <3>4. \A p \in Sections \X Words :
            ValueAt(NoWord, p) = LastOf(burned, p, 0)
      <4>1. \A p : ValueAt(NoWord, p) = <<255, 255>>
        BY DEF ValueAt, NoWord
      <4>2. \A p : LastOf(burned, p, 0) = <<255, 255>>
        <5>1. 0 \in Nat
          OBVIOUS
        <5> QED  BY <5>1, LastOfNext
      <4> QED  BY <4>1, <4>2
    <3>5. byte' = ByteAt(0)' /\ addr' = 0 + 1
      BY <3>1, <3>3
    <3> QED  BY <1>2, <2>1, <3>2, <3>4, <3>5 DEF StandsAt
  <2>3. 0 \in 0..Len(burned)
    BY <1>1, ContentIs
  <2> QED  BY <1>2, <1>3, <2>1, <2>2, <2>3 DEF WalkInv
<1>5. CASE WalkEnds \/ Forget
  <2>1. word' = NoWord /\ reading' # "walk"
    BY <1>5 DEF WalkEnds, Forget
  <2> QED  BY <1>3, <2>1 DEF WalkInv
<1>6. CASE Parse
  <2>1. word' = NoWord /\ reading' # "walk"
    BY <1>6 DEF Parse, WalkInv
  <2> QED  BY <1>3, <2>1 DEF WalkInv
<1>7. CASE UNCHANGED efuseVars
  <2>1. UNCHANGED <<burned, byte, addr, word, reading>>
    BY <1>7 DEF efuseVars
  <2>2. \A i : StandsAt(i)' <=> StandsAt(i)
    BY <2>1 DEF StandsAt, ByteAt, Content
  <2>3. AllInMap' <=> AllInMap
    BY <2>1 DEF AllInMap
  <2> QED  BY <1>3, <2>1, <2>2, <2>3 DEF WalkInv
<1> QED  BY <1>4, <1>5, <1>6, <1>7

\* No step of the bring-up disturbs the walk.
LEMMA WalkInvStep ==
  ASSUME EfuseInv, WalkInv, [Next]_vars
  PROVE  WalkInv'
<1>1. CASE ReadEfuse
  BY <1>1, WalkGoesOn, WalkFrames DEF ReadEfuse, EfuseNext, Refuse
<1>2. CASE EndSession
  BY <1>2, WalkFrames DEF EndSession
<1>3. CASE UNCHANGED efuseVars
  BY <1>3, WalkFrames
<1>4. CASE Open \/ HwReset \/ PowerOn \/ WritePageEntry
  BY <1>3, <1>4 DEF Open, HwReset, PowerOn, WritePageEntry
<1>5. CASE DownloadFirmware \/ FirmwareReports \/ ConfigMac
  BY <1>3, <1>5 DEF DownloadFirmware, FirmwareReports, ConfigMac
<1>6. CASE InitPageBoundary \/ EnableMac \/ ConfigBBAndRF
  BY <1>3, <1>6 DEF InitPageBoundary, EnableMac, ConfigBBAndRF
<1>7. CASE ReadOnce \/ LoopAgain \/ Unplug \/ UNCHANGED vars
  BY <1>3, <1>7 DEF ReadOnce, LoopAgain, Unplug, vars, efuseVars
<1> QED  BY <1>1, <1>2, <1>4, <1>5, <1>6, <1>7 DEF Next

\* Where the walk ends, no record is left that has a word.
LEMMA WalkEndsWhole ==
  ASSUME EfuseInv, WalkInv
  PROVE  WalkDecodes
<1>1. SUFFICES ASSUME reading = "walk", byte = 255 \/ addr >= Len512,
                      \A i \in DOMAIN burned : burned[i].section \in Sections,
                      NEW p \in Sections \X Words
               PROVE  ValueAt(word, p) = LastBurned(p)
  BY DEF WalkDecodes, ValueAt
<1> DEFINE n == Len(burned)
<1>2. burned \in Efuses /\ AllInMap /\ n \in Nat /\ DOMAIN burned = 1..n
  BY <1>1, ContentIs DEF AllInMap, EfuseInv
<1>3. LastBurned(p) = LastOf(burned, p, n)
  BY <1>2 DEF LastBurned, LastOf, LastAmong, Having
<1>4. PICK i \in 0..n : StandsAt(i)
  BY <1>1, <1>2 DEF WalkInv
<1>5. ValueAt(word, p) = LastOf(burned, p, i)
  BY <1>4 DEF StandsAt
<1>6. CASE i = n
  BY <1>3, <1>5, <1>6
<1>7. CASE i # n
  <2>1. i \in Nat /\ i < n
    <3> HIDE DEF n
    <3> QED  BY <1>2, <1>7
  <2> DEFINE r == burned[i + 1]
             s == StartOf(burned, i)
  <2>2. /\ Len(Burn(r)) \in Nat /\ Len(Burn(r)) >= 1 /\ ByteAt(s) # 255
        /\ Len(Burn(r)) = 1 => DOMAIN r.words = {}
    BY <1>2, <2>1, RecordTakes
  <2>3. addr >= Len512 /\ addr = s + 1
    BY <1>1, <1>4, <2>1, <2>2 DEF StandsAt
  <2>4. /\ s \in Nat /\ StartOf(burned, i + 1) = s + Len(Burn(r))
        /\ StartOf(burned, i + 1) <= Len(Content)
    BY <1>2, <2>1, RecordsAre DEF RecordAt
  <2>5. Len(Content) <= Len512 /\ Len512 \in Nat /\ Len(Content) \in Nat
    BY <1>2, EfuseAssumption, ContentIs DEF WalkInv
  <2>6. Len(Burn(r)) = 1 /\ StartOf(burned, i + 1) >= Len(Content)
    <3> DEFINE b == Len(Burn(r))
               here == StartOf(burned, i + 1)
               whole == Len(Content)
    <3>1. /\ b \in Nat /\ b >= 1 /\ s + 1 >= Len512 /\ Len512 \in Nat
          /\ s \in Nat /\ here = s + b /\ here <= whole
          /\ whole <= Len512 /\ whole \in Nat
      BY <2>2, <2>3, <2>4, <2>5
    <3> HIDE DEF b, here, whole, s
    <3>2. b = 1 /\ here >= whole
      BY <3>1
    <3> QED  BY <3>2 DEF b, here, whole
  <2>7. i + 1 = n
    <3>1. SUFFICES ASSUME i + 1 < n  PROVE FALSE
      <4> HIDE DEF n
      <4> QED  BY <1>2, <2>1
    <3>2. i + 1 \in Nat
      BY <2>1
    <3> DEFINE b == Len(Burn(burned[(i + 1) + 1]))
               here == StartOf(burned, i + 1)
               there == StartOf(burned, (i + 1) + 1)
    <3>3. b \in Nat /\ b >= 1
      BY <1>2, <3>1, <3>2, RecordTakes
    <3>4. here \in Nat /\ there = here + b /\ there <= Len(Content)
      BY <1>2, <3>1, <3>2, RecordsAre DEF RecordAt
    <3>5. here >= Len(Content)
      BY <2>6
    <3> HIDE DEF b, here, there
    <3> QED  BY <2>5, <3>3, <3>4, <3>5
  <2>8. LastOf(burned, p, i + 1) = LastOf(burned, p, i)
    BY <2>1, <2>2, <2>6, LastOfNext
  <2> QED  BY <1>3, <1>5, <2>7, <2>8
<1> QED  BY <1>6, <1>7

\* Whatever was burned, in whatever headers and however often, the walk ends
\* with the map of it: for every EFUSE whose sections are all of the map.
THEOREM WalkAlwaysDecodes == Spec => []WalkDecodes
<1>1. Init => EfuseInv /\ WalkInv
  <2>1. ASSUME Init  PROVE WalkInv
    <3>1. Len(Content) <= Len512 /\ word = NoWord /\ reading = "off"
      BY <2>1 DEF Init, EfuseInit, Fresh
    <3> QED  BY <3>1 DEF WalkInv
  <2> QED  BY <2>1, AdapterStarts
<1>2. EfuseInv /\ WalkInv /\ [Next]_vars => (EfuseInv /\ WalkInv)'
  BY EfuseStep, WalkInvStep
<1>3. EfuseInv /\ WalkInv => WalkDecodes
  BY WalkEndsWhole
<1> QED  BY <1>1, <1>2, <1>3, PTL DEF Spec

=============================================================================

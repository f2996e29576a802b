------------------------------- MODULE Efuse -------------------------------
(***************************************************************************)
(* EepromManager of the vendored driver: what it learns of the adapter     *)
(* from its EFUSE, when CreateRtlDevice constructs it for a session.       *)
(*                                                                         *)
(* The EFUSE is written once, byte after byte. It holds records: a header  *)
(* with a section and the words of it that follow, then those words. A     *)
(* later record overrides an earlier one. Hal_EfuseReadEFuse8812A walks    *)
(* the records and leaves the map of all sections, of which the rest of    *)
(* the constructor reads single bytes.                                     *)
(*                                                                         *)
(* A word is <<low, high>>. A map holds the words that are not 0xFFFF.     *)
(* Left out: the power switch around the walk, which changes nothing that  *)
(* is read here; EEPROMVersion, EEPROMRegulatory and the thermal meter,    *)
(* which nothing reads; reads of single bytes that time out; the antenna   *)
(* bytes, which say of Radio's boards which have one path only.            *)
(***************************************************************************)
EXTENDS Integers, Sequences, FiniteSets, SequencesExt

CONSTANTS
  Efuses,      \* what is burned: sequences of [section, words]
  Boots,       \* how adapters boot: [eeprom, fail, hidden]
  Len512,      \* EFUSE_REAL_CONTENT_LEN_JAGUAR
  Maps,        \* what the map may hold before it is first written
  Types        \* what a Type member may hold before it is first written

Words == 0..3
Sections == 0..63
Bytes2 == (0..255) \X (0..255)

ASSUME EfuseAssumption ==
  /\ \A e \in Efuses :
       /\ e \in Seq({e[i] : i \in DOMAIN e})
       /\ \A i \in DOMAIN e :
            /\ e[i].section \in 0..127 /\ DOMAIN e[i].words \subseteq Words
            /\ \A w \in DOMAIN e[i].words : e[i].words[w] \in Bytes2
  /\ \A m \in Maps : \A p \in DOMAIN m : m[p] \in Bytes2
  /\ Boots \subseteq [eeprom : BOOLEAN, fail : BOOLEAN, hidden : BOOLEAN]
  /\ Len512 \in Nat \ {0}

\* A burned header is not an erased byte: with section 15 comes a word.
ASSUME BurnedAssumption ==
  \A e \in Efuses : \A i \in DOMAIN e :
    e[i].section = 15 => DOMAIN e[i].words # {}

VARIABLES
  burned,      \* the records, in the order they were burned
  boot,        \* REG_9346CR, and whether 0x200.. tell of an autoload
  addr,        \* eFuse_Addr: the next address to read
  byte,        \* rtemp8: the last byte read, a header
  word,        \* eFuseWord
  map,         \* efuse_eeprom_data
  autoloadFail,
  params,      \* what the other managers read of this one
  reading      \* how far the constructor is

efuseVars ==
  <<burned, boot, addr, byte, word, map, autoloadFail, params, reading>>

BIT == <<1, 2, 4, 8, 16, 32, 64, 128>>

Bit(b, i) == (b \div BIT[i + 1]) % 2 = 1
Bits(b, hi, lo) == (b \div BIT[lo + 1]) % BIT[hi - lo + 2]

-----------------------------------------------------------------------------
\* The EFUSE itself. A cleared bit of a header enables a word. A section
\* above 15, or a header that would look extended, takes two bytes.
Enable(ws) ==
  LET bit(w, value) == IF w \in ws THEN 0 ELSE value
  IN bit(0, 1) + bit(1, 2) + bit(2, 4) + bit(3, 8)

Header(r) ==
  LET we == Enable(DOMAIN r.words)
      short == 16 * r.section + we
  IN IF r.section < 16 /\ short % 32 # 15 THEN <<short>>
     ELSE <<(32 * (r.section % 8)) + 15, (16 * (r.section \div 8)) + we>>

WordOf(r, w) == IF w \in DOMAIN r.words THEN r.words[w] ELSE <<>>

Burn(r) == Header(r) \o FlattenSeq([w \in 1..4 |-> WordOf(r, w - 1)])

Content == FlattenSeq([i \in DOMAIN burned |-> Burn(burned[i])])

\* ReadEFuseByte
ByteAt(a) == IF a < Len(Content) THEN Content[a + 1] ELSE 255

-----------------------------------------------------------------------------
NoWord == [p \in {} |-> <<255, 255>>]

MapByte(m, offset) ==
  LET p == <<offset \div 8, (offset % 8) \div 2>>
  IN IF p \in DOMAIN m THEN m[p][1 + (offset % 2)] ELSE 255

NoParams == [pa2g |-> FALSE, lna2g |-> FALSE, pa5g |-> FALSE,
             lna5g |-> FALSE, bt |-> FALSE, type |-> <<0, 0, 0, 0>>,
             rfe |-> 0, crystalCap |-> 0]

Fresh ==
  /\ addr = 0 /\ byte = 0 /\ word = NoWord
  /\ map = NoWord /\ params = NoParams
  /\ reading = "off"

EfuseInit ==
  /\ burned \in Efuses /\ Len(Content) <= Len512
  /\ boot \in Boots
  /\ autoloadFail = boot.fail
  /\ Fresh

\* hal_InitPGData_8812A, up to the walk. Without it the map is filled with
\* 0xFF, or stays as the allocation left it.
InitPGData ==
  /\ reading = "off"
  /\ autoloadFail' = (boot.fail /\ ~boot.hidden)
  /\ byte' = ByteAt(0)
  /\ IF boot.eeprom \/ (~autoloadFail' /\ byte' = 255)
     THEN map' \in Maps /\ reading' = "loaded" /\ addr' = 0
     ELSE IF autoloadFail'
     THEN map' = NoWord /\ reading' = "loaded" /\ addr' = 0
     ELSE map' \in Maps /\ reading' = "walk" /\ addr' = 1
  /\ UNCHANGED <<burned, boot, word, params>>

\* The next header, if there is one.
NextHeader(a) ==
  /\ byte' = ByteAt(a)
  /\ addr' = IF ByteAt(a) # 255 /\ a < Len512 THEN a + 1 ELSE a

\* Wrong variant: what is skipped may end past the EFUSE.
WithinUnchecked(a) == a

Within(a) == IF a > Len512 THEN Len512 ELSE a

\* The words of a section that wren enables, read from a onwards.
Enabled(wren) == {w \in Words : ~Bit(wren, w)}
At(a, wren, w) == a + 2 * Cardinality({v \in Enabled(wren) : v < w})

\* Wrong variant: wren is shifted only past the words it enables.
ReadWordsUnshifted(offset, wren, a) ==
  LET first == IF Bit(wren, 0) THEN {} ELSE Words
      new == [p \in {offset} \X first |->
                <<ByteAt(a + 2 * p[2]), ByteAt(a + 2 * p[2] + 1)>>]
  IN /\ word' = new @@ word
     /\ NextHeader(Within(a + 2 * Cardinality(first)))

ReadWords(offset, wren, a) ==
  LET read == {w \in Enabled(wren) :
                 At(a, wren, w) = a \/ At(a, wren, w) < Len512}
      hi(w) == IF At(a, wren, w) + 1 < Len512 THEN ByteAt(At(a, wren, w) + 1)
               ELSE 0
      new == {offset} \X read
  IN /\ word' = [p \in DOMAIN word \cup new |->
                   IF p \in new
                   THEN <<ByteAt(At(a, wren, p[2])), hi(p[2])>> ELSE word[p]]
     /\ NextHeader(Within(a + 2 * Cardinality(Enabled(wren))))

\* One header and what belongs to it. The data of a section past the map is
\* skipped, all four words of it or none: wren is not shifted on the way.
WalkRecord ==
  /\ reading = "walk" /\ byte # 255 /\ addr < Len512
  /\ LET extended == byte % 32 = 15
         second == ByteAt(addr)
         offset == IF extended THEN (8 * (second \div 16)) + (byte \div 32)
                   ELSE byte \div 16
         wren == IF extended THEN second % 16 ELSE byte % 16
         a == IF extended THEN addr + 1 ELSE addr
     IN IF extended /\ wren = 15
        THEN NextHeader(a) /\ UNCHANGED word
        ELSE IF offset \in Sections THEN ReadWords(offset, wren, a)
        ELSE /\ NextHeader(Within(a + IF Bit(wren, 0) THEN 0 ELSE 8))
             /\ UNCHANGED word
  /\ UNCHANGED <<burned, boot, map, autoloadFail, params, reading>>

WalkEnds ==
  /\ reading = "walk" /\ (byte = 255 \/ addr >= Len512)
  /\ map' = word
  /\ reading' = "loaded"
  /\ addr' = 0 /\ byte' = 0 /\ word' = NoWord
  /\ UNCHANGED <<burned, boot, autoloadFail, params>>

\* IsEfuseTxPowerInfoValid: without it, the constructor throws.
TxPowerInfoValid(m) == \A i \in 16..26 : MapByte(m, i) # 255

\* hal_ReadPAType_8812A: 0xBC for both bands, 0xBD and 0xBF; 0xFF is none.
PaType == IF MapByte(map, 188) = 255 THEN 0 ELSE MapByte(map, 188)
Lna2g == IF MapByte(map, 189) = 255 THEN 0 ELSE MapByte(map, 189)
Lna5g == IF MapByte(map, 191) = 255 THEN 0 ELSE MapByte(map, 191)

\* External amplifiers: on both paths, or none.
Amplifiers(fail) ==
  [pa2g |-> ~fail /\ Bit(PaType, 5) /\ Bit(PaType, 4),
   lna2g |-> ~fail /\ Bit(Lna2g, 7) /\ Bit(Lna2g, 3),
   pa5g |-> ~fail /\ Bit(PaType, 1) /\ Bit(PaType, 0),
   lna5g |-> ~fail /\ Bit(Lna5g, 7) /\ Bit(Lna5g, 3)]

\* Hal_ReadAmplifierType_8812A: TypeGLNA, TypeGPA, TypeALNA, TypeAPA.
Pair(offset, hi, lo) ==
  4 * Bits(MapByte(map, offset), hi + 4, lo + 4)
    + Bits(MapByte(map, offset), hi, lo)

ReadTypes == <<Pair(189, 1, 0), Pair(189, 2, 2),
               Pair(191, 1, 0), Pair(191, 2, 2)>>

\* A type that is not assigned keeps what its memory held. After a failed
\* autoload the tests themselves read unassigned members.
TypesMayBe(amp, fail) ==
  LET has == <<amp.lna2g, amp.pa2g, amp.lna5g, amp.pa5g>>
  IN {t \in [1..4 -> Types \cup {ReadTypes[i] : i \in 1..4}] :
        \A i \in 1..4 : \/ t[i] = ReadTypes[i] /\ (has[i] \/ fail)
                        \/ t[i] \in Types /\ ~has[i]}

\* Hal_ReadRFEType_8812A: in the BIT7 branch every test of a 5 GHz
\* amplifier holds, external or not.
Rfe(amp, fail) ==
  LET ca == MapByte(map, 202)
      some == amp.pa2g \/ amp.lna2g \/ amp.pa5g \/ amp.lna5g
  IN IF fail \/ ca = 255 THEN 0
     ELSE IF Bit(ca, 7) THEN IF amp.lna2g /\ amp.pa2g THEN 3 ELSE 0
     ELSE IF ca % 64 = 4 /\ some THEN 0 ELSE ca % 64

\* Hal_EfuseParseIDCode8812A and what follows in the constructor.
Parse ==
  /\ reading = "loaded" /\ TxPowerInfoValid(map)
  /\ autoloadFail' = ~(MapByte(map, 0) = 41 /\ MapByte(map, 1) = 129)
  /\ LET fail == autoloadFail'
         amp == Amplifiers(fail)
         cap == IF fail THEN 255 ELSE MapByte(map, 185)
     IN \E t \in TypesMayBe(amp, fail) :
          params' = [pa2g |-> amp.pa2g, lna2g |-> amp.lna2g,
                     pa5g |-> amp.pa5g, lna5g |-> amp.lna5g,
                     bt |-> ~fail /\ Bits(MapByte(map, 193), 7, 5) = 1,
                     type |-> t, rfe |-> Rfe(amp, fail),
                     crystalCap |-> IF cap = 255 THEN 32 ELSE cap]
  /\ reading' = "parsed"
  /\ UNCHANGED <<burned, boot, addr, byte, word, map>>

\* The constructor throws, or the session is over: nothing is kept.
Forget ==
  /\ addr' = 0 /\ byte' = 0 /\ word' = NoWord
  /\ map' = NoWord /\ params' = NoParams
  /\ reading' = "off" /\ autoloadFail' = boot.fail
  /\ UNCHANGED <<burned, boot>>

Refuse == reading = "loaded" /\ ~TxPowerInfoValid(map) /\ Forget

EfuseNext == InitPGData \/ WalkRecord \/ WalkEnds \/ Parse \/ Refuse

-----------------------------------------------------------------------------
\* Type correctness of the EFUSE reader's state.
EfuseTypeOK ==
  /\ addr \in 0..Len512 /\ byte \in 0..255
  /\ DOMAIN word \subseteq Sections \X Words
  /\ \A p \in DOMAIN word : word[p] \in Bytes2
  /\ autoloadFail \in BOOLEAN
  /\ params.rfe \in 0..63 /\ params.crystalCap \in 0..255
  /\ reading \in {"off", "walk", "loaded", "parsed"}

\* What was burned of a word last, if it was.
LastBurned(p) ==
  LET of == {i \in DOMAIN burned :
               burned[i].section = p[1] /\ p[2] \in DOMAIN burned[i].words}
  IN IF of = {} THEN <<255, 255>>
     ELSE burned[CHOOSE i \in of : \A j \in of : j <= i].words[p[2]]

\* The walk ends with the map that was burned, whatever headers the records
\* took and however often a word was burned: for an EFUSE whose sections are
\* all of the map.
WalkDecodes ==
  (/\ reading = "walk" /\ (byte = 255 \/ addr >= Len512)
   /\ \A i \in DOMAIN burned : burned[i].section \in Sections) =>
    \A p \in Sections \X Words :
      (IF p \in DOMAIN word THEN word[p] ELSE <<255, 255>>) = LastBurned(p)

=============================================================================

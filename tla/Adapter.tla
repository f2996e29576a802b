------------------------------ MODULE Adapter ------------------------------
(***************************************************************************)
(* The bring-up of the adapter, session after session, up to the frames    *)
(* that come from it: CreateRtlDevice (Efuse), then rtl8812au_hal_init of  *)
(* HalModule with the firmware download (Firmware) and the register tables *)
(* (BoardTables), then the reads of the capture loop (RxPath). The radio's *)
(* part of the bring-up is Radio.                                          *)
(*                                                                         *)
(* Every register read may throw, and then the session is over. Nothing    *)
(* puts the adapter in order at the end of a session: the next one finds   *)
(* the chip as this one left it, unless it was unplugged in between. Blocks *)
(* of the firmware may be lost; that every other write arrives is assumed  *)
(* (rtw_write tells a failure by its result, which nothing reads).         *)
(*                                                                         *)
(* Left out: registers with fixed values, the queues and pages of the      *)
(* transmitter (the program sends nothing), and the crystal trim.          *)
(***************************************************************************)
EXTENDS Efuse, Firmware, BoardTables, RxPath

CONSTANTS
  Tables,      \* the MAC, PHY, AGC and the two radio tables, by items
  LastPage,    \* LAST_ENTRY_OF_TX_PKT_BUFFER_8812
  Boundary,    \* TX_PAGE_BOUNDARY_8812
  EndOfList,   \* 0xFF, the mark of the transmitter's last page
  Transfers    \* what a bulk read may bring: [units, size]

ASSUME AdapterAssumption ==
  /\ Tables \in Seq(Seq(Items)) /\ Len(Tables) = 5
  /\ Boundary \in Nat \ {0} /\ LastPage \in Nat /\ EndOfList \in Nat
  /\ Boundary < LastPage /\ LastPage <= EndOfList

ASSUME TransfersAssumption ==
  Transfers \subseteq [units : Seq(Units), size : Nat]

VARIABLES
  phase,       \* how far the session is
  cr,          \* REG_CR: "off", "dma", or "txrx" with MACTXEN and MACRXEN
  llt,         \* the link list table: page to page, for entries written
  bounded,     \* whether REG_TRXFF_BNDY + 2 is set
  entry,       \* the next entry of the table
  loaded,      \* what was written of each table, in order
  rx           \* the last transfer that was read, and what was handed on

vars == <<efuseVars, fwVars, phase, cr, llt, bounded, entry, loaded, rx>>

NoPage == [p \in {} |-> 0]
NoTransfer == [units |-> <<>>, size |-> 0]
NoRx == [transfer |-> NoTransfer, handed |-> <<>>]

Init ==
  /\ EfuseInit /\ FirmwareInit
  /\ phase = "off" /\ cr = "off"
  /\ llt = NoPage /\ bounded = FALSE
  /\ entry = 0 /\ loaded = <<>> /\ rx = NoRx

-----------------------------------------------------------------------------
\* A session starts: CreateRtlDevice.
Open ==
  /\ phase = "off" /\ phase' = "efuse"
  /\ UNCHANGED <<efuseVars, fwVars, cr, llt, bounded, entry, loaded, rx>>

ReadEfuse ==
  /\ phase = "efuse"
  /\ EfuseNext
  /\ phase' = IF reading' = "parsed" THEN "reset"
              ELSE IF reading' = "off" THEN "off" ELSE "efuse"
  /\ UNCHANGED <<fwVars, cr, llt, bounded, entry, loaded, rx>>

\* rtl8812au_hw_reset. An 8051 that runs is stopped, and the MAC with it;
\* what that does to the page tables is not for the driver to say.
HwReset ==
  /\ phase = "reset" /\ phase' = "power"
  /\ \/ /\ ~mcu.ready
        /\ UNCHANGED <<mcu, cr, llt, bounded>>
     \/ /\ mcu.ready
        /\ mcu' = ColdMcu /\ cr' = "off"
        /\ llt' \in {llt, NoPage} /\ bounded' \in {bounded, FALSE}
  /\ UNCHANGED <<efuseVars, ram, fwStep, page, attempts, lost,
                 entry, loaded, rx>>

\* Wrong variant: the bits of REG_CR are added to those that are there.
PowerOnAdds ==
  /\ phase = "power" /\ phase' = "llt"
  /\ cr' = IF cr = "txrx" THEN "txrx" ELSE "dma"
  /\ entry' = 0
  /\ UNCHANGED <<efuseVars, fwVars, llt, bounded, loaded, rx>>

\* InitPowerOn, when the power sequence goes through: REG_CR is zeroed.
PowerOn ==
  /\ phase = "power" /\ phase' = "llt"
  /\ cr' = "dma"
  /\ entry' = 0
  /\ UNCHANGED <<efuseVars, fwVars, llt, bounded, loaded, rx>>

\* Wrong variant: the list of the transmitter has no end.
NextPageUnended(p) == IF p < LastPage THEN p + 1 ELSE Boundary

NextPage(p) ==
  CASE p = Boundary - 1 -> EndOfList
    [] p = LastPage -> Boundary
    [] OTHER -> p + 1

\* InitLLTTable8812A, one _LLTWrite_8812A.
WritePageEntry ==
  /\ phase = "llt" /\ entry <= LastPage
  /\ llt' = [p \in DOMAIN llt \cup {entry} |->
               IF p = entry THEN NextPage(p) ELSE llt[p]]
  /\ entry' = entry + 1
  /\ phase' = IF entry = LastPage THEN "firmware" ELSE "llt"
  /\ UNCHANGED <<efuseVars, fwVars, cr, bounded, loaded, rx>>

DownloadFirmware ==
  /\ phase = "firmware" /\ fwStep # "done"
  /\ FirmwareNext
  /\ UNCHANGED <<efuseVars, phase, cr, llt, bounded, entry, loaded, rx>>

\* A firmware reports when it likes.
FirmwareReports ==
  /\ phase # "firmware"
  /\ ReportsLate
  /\ UNCHANGED <<efuseVars, phase, cr, llt, bounded, entry, loaded, rx>>

\* odm_read_and_config_mp_8812a_* for the next table.
LoadTable ==
  loaded' = Append(loaded,
    ReadAndConfig(params, FlatTable(Tables[Len(loaded) + 1])))

ConfigMac ==
  /\ phase = "firmware" /\ fwStep = "done" /\ phase' = "pages"
  /\ LoadTable
  /\ UNCHANGED <<efuseVars, fwVars, cr, llt, bounded, entry, rx>>

\* _InitPageBoundary_8812AUsb
InitPageBoundary ==
  /\ phase = "pages" /\ phase' = "mac"
  /\ bounded' = TRUE
  /\ UNCHANGED <<efuseVars, fwVars, cr, llt, entry, loaded, rx>>

\* REG_CR gets MACTXEN and MACRXEN.
EnableMac ==
  /\ phase = "mac" /\ phase' = "bb"
  /\ cr' = "txrx"
  /\ UNCHANGED <<efuseVars, fwVars, llt, bounded, entry, loaded, rx>>

\* PHY_BBConfig8812 and PHY_RF6052_Config_8812: an adapter with one path
\* gets the table of the second radio too.
ConfigBBAndRF ==
  /\ phase = "bb" /\ Len(loaded) < 5
  /\ LoadTable
  /\ phase' = IF Len(loaded) = 4 THEN "up" ELSE "bb"
  /\ UNCHANGED <<efuseVars, fwVars, cr, llt, bounded, entry, rx>>

\* ReadOnce, and handle80211Frame for each packet of it.
ReadOnce ==
  /\ phase = "up" /\ rx = NoRx
  /\ \E t \in Transfers : rx' = [transfer |-> t, handed |-> Handed(t)]
  /\ UNCHANGED <<efuseVars, fwVars, phase, cr, llt, bounded, entry, loaded>>

\* The capture loop goes round: the packets are gone.
LoopAgain ==
  /\ phase = "up" /\ rx # NoRx
  /\ rx' = NoRx
  /\ UNCHANGED <<efuseVars, fwVars, phase, cr, llt, bounded, entry, loaded>>

\* The session ends, on any phase of it: a stop, a failed read, a failed
\* power sequence or page entry. The driver's objects are gone.
EndSession ==
  /\ phase # "off" /\ phase' = "off"
  /\ Forget /\ ForgetFirmware
  /\ entry' = 0 /\ loaded' = <<>> /\ rx' = NoRx
  /\ UNCHANGED <<cr, llt, bounded>>

\* The adapter loses its power.
Unplug ==
  /\ phase = "off"
  /\ mcu' = ColdMcu /\ ram' = {} /\ cr' = "off"
  /\ llt' = NoPage /\ bounded' = FALSE
  /\ UNCHANGED <<efuseVars, fwStep, page, attempts, lost, phase, entry,
                 loaded, rx>>

Next ==
  \/ Open \/ ReadEfuse \/ HwReset \/ PowerOn \/ WritePageEntry
  \/ DownloadFirmware \/ FirmwareReports \/ ConfigMac \/ InitPageBoundary
  \/ EnableMac \/ ConfigBBAndRF \/ ReadOnce \/ LoopAgain \/ EndSession
  \/ Unplug

Spec == Init /\ [][Next]_vars

-----------------------------------------------------------------------------
Phases == {"off", "efuse", "reset", "power", "llt", "firmware", "pages",
           "mac", "bb", "up"}

\* Type correctness of the driver's and the adapter's state.
AdapterTypeOK ==
  /\ EfuseTypeOK /\ FirmwareTypeOK
  /\ phase \in Phases /\ cr \in {"off", "dma", "txrx"}
  /\ DOMAIN llt \subseteq 0..LastPage /\ bounded \in BOOLEAN
  /\ entry \in 0..(LastPage + 1) /\ Len(loaded) \in 0..5

\* "Init CR MACTXEN, MACRXEN after setting RxFF boundary": pages and their
\* boundary are laid out only while the MAC neither sends nor receives, also
\* over a chip that a session before this one left running.
LaidOutWhileOff == phase \in {"llt", "firmware", "pages"} => cr # "txrx"

\* The pages s and those they lead to. Nothing follows the mark, which in the
\* driver is the number of the last page as well.
Further(s) ==
  s \cup {llt[q] : q \in (s \cap DOMAIN llt) \ {EndOfList}}

\* The pages reached from page p.
From(p) ==
  LET upTo[n \in 0..LastPage] ==
        IF n = 0 THEN {p} ELSE Further(upTo[n - 1])
  IN upTo[LastPage]

\* A MAC that sends and receives has its pages laid out, whatever became of
\* the sessions before: the transmitter's list covers its pages and ends,
\* the others make up a ring, and no page is in both.
LayoutIsWhole ==
  cr = "txrx" =>
    /\ bounded
    /\ From(0) = 0..(Boundary - 1) \cup {EndOfList}
    /\ From(Boundary) = Boundary..LastPage /\ llt[LastPage] = Boundary

\* Each table writes what it means for this board, and nothing it means for
\* another: whatever the members held that the EFUSE does not decide.
TablesAreMeant ==
  \A i \in DOMAIN loaded :
    loaded[i] = MeantTable(BoardHas(params), ReadTypes, Tables[i])

\* The aggregator gets the payload of every video frame a transfer holds
\* before its first damaged unit, once, in order and byte for byte, whatever
\* else lies between; a fragment, as any other frame, is not handed on; of a
\* short transfer nothing is.
IntactFramesHanded ==
  rx.handed = IF rx.transfer.size <= LeastTransfer THEN <<>>
              ELSE Payloads(rx.transfer)

=============================================================================

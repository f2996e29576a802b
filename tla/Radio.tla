------------------------------- MODULE Radio -------------------------------
(***************************************************************************)
(* Tuning the RTL8812AU: RadioManagementModule of the vendored driver      *)
(* (3rd/rtl8812au-monitor-pcap/src), as WFBReceiver uses it.               *)
(*                                                                         *)
(* A call of set_channel_bwmode (Begin) decides what to reprogram and then *)
(* performs a program: a sequence of masked register writes, each after    *)
(* the USB read of the register it changes (Step). rtw_read throws when    *)
(* the transfer fails, so a call may end before any step (Fail), with what *)
(* was written before in the adapter and the driver's flags still up. Only *)
(* the capture thread calls the driver. A field of a register is a field   *)
(* of regs; a step is the <<field, value>> pairs it writes. That a write   *)
(* arrives is assumed: rtw_write tells a failure by its result, which      *)
(* nothing reads, and a flag would then go down over an old register.      *)
(*                                                                         *)
(* Left out: transmit power, whose tables are compiled out                 *)
(* (PHY_SetTxPowerIndex_8812A) and whose training words are constants,     *)
(* except that writing these may fail; the RFE type (one value for each    *)
(* band); current_band_type, which only transmit power reads.              *)
(***************************************************************************)
EXTENDS Integers, Sequences

CONSTANTS
  Channels,    \* the channels a start or a tune may name
  Widths,      \* and the widths: 0, 1, 2 for 20, 40, 80 MHz
  Boards,      \* the adapters: [cCut, oneT, lna2G]
  Garbage,     \* what a member holds before it is assigned
  None,        \* no request yet
  MaxFaults    \* bound: the tunes of a session that a read cuts short

\* isValidChannel and isValidWidth: both ways in, the command line and the
\* control API, refuse the rest, so rtw_get_center_ch never throws.
ASSUME RadioAssumption ==
  /\ Channels \subseteq 1..177
  /\ Widths \subseteq 0..2
  /\ Boards \subseteq [cCut : BOOLEAN, oneT : BOOLEAN, lna2G : BOOLEAN]
  /\ Garbage \subseteq 0..255
  /\ None \notin (Channels \X Widths)
  /\ None \notin [by : {"hal", "mlme", "session"},
                  channel : Channels, width : Widths]
  /\ MaxFaults \in Nat

VARIABLES
  board,       \* EepromManager's version_id and ExternalLNA_2G
  regs,        \* the fields of the adapter's registers
  drv,         \* RadioManagementModule's members
  call,        \* what is being tuned to, and for whom; None between calls
  todo,        \* what is left of the call's program, in four parts
  app,         \* WFBReceiver: curChannel_, curWidth_, whether it streams
  last,        \* history: the request the last completed call served
  torn,        \* history: a switch of bands was cut short, none since
  faults       \* the tunes of this session that failed, for the bound

radioVars == <<board, regs, drv, call, todo, app, last, torn, faults>>

Byte(n) == n % 256

-----------------------------------------------------------------------------
\* The steps of a program: sets of <<field, value>>.

Put(fields, value) == <<{<<f, value>> : f \in fields}>>

Written(r, step) ==
  [f \in DOMAIN r |-> IF \E e \in step : e[1] = f
                      THEN (CHOOSE e \in step : e[1] = f)[2] ELSE r[f]]

\* phy_set_rf_reg: phy_RFSerialRead holds CCA off while it reads, except on
\* the C cut; phy_RFSerialWrite follows without reading.
RfPut(field, value) ==
  IF board.cCut THEN Put({field}, value)
  ELSE <<{<<"ccaOff", TRUE>>}, {<<"ccaOff", FALSE>>, <<field, value>>}>>

-----------------------------------------------------------------------------
\* Which channel to set.

\* rtw_get_center_ch, with ChannelOffset = 0 as WFBReceiver passes it: at
\* 40 MHz the channel is taken for the upper half of the pair.
Groups == {{36, 40, 44, 48}, {52, 56, 60, 64}, {100, 104, 108, 112},
           {116, 120, 124, 128}, {132, 136, 140, 144}, {149, 153, 157, 161},
           {165, 169, 173, 177}}

CenterCh(channel, width) ==
  CASE width = 0 -> channel
    [] width = 1 -> Byte(channel - 2)
    [] width = 2 ->
         IF \E g \in Groups : channel \in g
         THEN (CHOOSE c \in 42..171 : \E g \in Groups :
                 channel \in g /\ {c - 6, c + 6} \subseteq g)
         ELSE IF channel <= 14 THEN 7 ELSE channel

\* set_channel_bwmode: HAL_PRIME_CHNL_OFFSET_DONT_CARE, LOWER, UPPER.
Offset80(channel, width) ==
  LET center == CenterCh(channel, width)
  IN IF width # 2 \/ center = channel THEN 0
     ELSE IF center > channel THEN 1 ELSE 2

\* phy_GetSecondaryChnl_8812; _cur40MhzPrimeSc is always DONT_CARE.
SecondaryChnl(width, sc80) ==
  IF width = 2 THEN 16 * (CASE sc80 = 1 -> 10 [] sc80 = 2 -> 9 [] OTHER -> 0)
  ELSE 0

BandOf(center) == IF center > 14 THEN "5G" ELSE "2.4G"

-----------------------------------------------------------------------------
\* The programs.

\* The fields a band has its own values for, apart from CCK_CHECK's BIT7,
\* by which the driver knows the band, and 0x830[3:1].
FrontEnd == {"bwIndication", "pdTh", "agcTable", "rfePinmux", "rfeInvA",
             "rfeInvB", "txPath", "cckRx", "swingA", "swingB"}

Pwed(band, width) ==
  IF band = "2.4G" /\ width = 0 /\ board.oneT /\ ~board.lna2G THEN 2 ELSE 4

\* PHY_SwitchWirelessBand8812, phy_SetRFEReg8812, phy_SetBBSwingByBand_8812A
SwitchBand(band, width) ==
  LET before == Put({"bwIndication"}, band) \o Put({"pdTh"}, band)
                  \o Put({"pwed"}, Pwed(band, width))
                  \o Put({"agcTable", "rfePinmux"}, band)
                  \o Put({"rfeInvA"}, band) \o Put({"rfeInvB"}, band)
                  \o Put({"txPath"}, band) \o Put({"cckRx"}, band)
      swing == Put({"swingA"}, band) \o Put({"swingB"}, band)
      mark == Put({"cckCheck"}, band)
  IN IF band = "2.4G" THEN before \o mark \o swing
     ELSE mark \o before \o swing

\* Wrong variant: asks the cached channel for the band, not the adapter.
SwBandByCache(center, width) ==
  IF BandOf(drv.chan) = BandOf(center) THEN <<>>
  ELSE SwitchBand(BandOf(center), width)

\* phy_SwBand8812
SwBand(center, width) ==
  IF regs.cckCheck = BandOf(center) THEN <<>>
  ELSE SwitchBand(BandOf(center), width)

\* phy_FixSpur_8812A: 0x8AC[11:10], 0x8AC[9:8] and 0x8C4[30]
FixSpur(center, width) ==
  LET high == width = 0 /\ center \in {13, 14}
      wide11 == width = 1 /\ center = 11
  IN IF board.cCut
     THEN Put({"fifoClk"}, IF wide11 THEN 3 ELSE 2)
            \o (IF high THEN Put({"adcClk"}, 3) \o Put({"adcBuf"}, 1)
                ELSE IF wide11 THEN Put({"adcBuf"}, 1)
                ELSE IF width # 2 THEN Put({"adcClk"}, 2) \o Put({"adcBuf"}, 0)
                ELSE <<>>)
     ELSE IF high THEN Put({"adcClk"}, 3)
          ELSE IF center <= 14 THEN Put({"adcClk"}, 2) ELSE <<>>

\* phy_SwChnl8812 after phy_SwBand8812; numTotalRfPath is 2:
\* the chip is read as 2T2R.
FcArea(center) ==
  CASE center \in 15..48 -> 1172
    [] center \in 50..80 -> 1107
    [] center \in 82..116 -> 1106
    [] center \in 118..255 -> 1042
    [] OTHER -> 2410

ModAg(center) ==
  CASE center \in 15..80 -> 257
    [] center \in 82..140 -> 769
    [] center \in 141..255 -> 1281
    [] OTHER -> 0

OnPath(center, width, ag, ch) ==
  RfPut(ag, ModAg(center)) \o FixSpur(center, width) \o RfPut(ch, center)

SwChnl(center, width) ==
  Put({"fcArea"}, FcArea(center))
    \o OnPath(center, width, "agA", "chA")
    \o OnPath(center, width, "agB", "chB")

\* phy_PostSetBwMode8812, phy_SetRegBW_8812, PHY_RF6052SetBandwidth8812;
\* 0x834[26] is clear: nothing sets it. REG_DATA_SC follows with no read.
L1Peak(width) == CASE width = 0 -> 7 [] width = 1 -> 7 [] width = 2 -> 6
RfBw(width) == CASE width = 0 -> 3 [] width = 1 -> 1 [] width = 2 -> 0

PostSetBw(center, width, sc80) ==
  LET sc == SecondaryChnl(width, sc80)
  IN <<{<<"macBw", width>>, <<"dataSc", sc>>}>>
       \o <<{<<"rfMod", width>>, <<"adcClk", 2>>}>>
       \o Put({"adcBuf"}, IF width = 2 THEN 1 ELSE 0)
       \o (IF width = 0 THEN <<>>
           ELSE Put({"rfSc"}, sc % 16) \o Put({"ccaSc"}, sc % 16))
       \o Put({"l1Peak"}, L1Peak(width))
       \o (IF width = 1 THEN Put({"cckSystem"}, IF sc = 1 THEN 1 ELSE 0)
           ELSE <<>>)
       \o FixSpur(center, width)
       \o RfPut("bwA", RfBw(width)) \o RfPut("bwB", RfBw(width))

\* PHY_SetTxPowerLevel8812: one training word for each path, always the same.
TxPower == Put({}, 0) \o Put({}, 0)

-----------------------------------------------------------------------------
\* The register fields, as PHY_BBConfig8812 and the RF tables leave them.
Numbers == {"pwed", "fcArea", "agA", "agB", "chA", "chB", "bwA", "bwB",
            "macBw", "dataSc", "rfMod", "rfSc", "ccaSc", "l1Peak",
            "cckSystem", "fifoClk", "adcClk", "adcBuf"}
Fields == FrontEnd \cup {"cckCheck", "ccaOff"} \cup Numbers
Word == 0..65535

FromTables == [f \in Fields |-> CASE f \in Numbers -> 0
                                 [] f = "ccaOff" -> FALSE
                                 [] OTHER -> "table"]

\* A driver that CreateRtlDevice has just made: most members hold garbage.
NewDriver(g) == [bwInit |-> FALSE, sw |-> FALSE, setBw |-> FALSE,
                 chan |-> g, index |-> g, bw |-> g, sc80 |-> g]

NoSession == [up |-> FALSE, channel |-> 0, width |-> 0]

Idle == [band |-> <<>>, chnl |-> <<>>, bw |-> <<>>, power |-> <<>>]

RadioInit ==
  /\ board \in Boards
  /\ regs = FromTables
  /\ drv \in {NewDriver(g) : g \in Garbage}
  /\ call = None /\ todo = Idle
  /\ app = NoSession
  /\ last = None /\ torn = FALSE /\ faults = 0

\* PHY_HandleSwChnlAndSetBW8812: the flags go up before the first step.
\* The program is empty when the driver takes its early return. What comes
\* before is done in any case.
Handle(d, center, width, sc80, before, switch) ==
  LET sw == d.sw \/ d.chan # center
      setBw == d.setBw \/ ~d.bwInit \/ d.bw # width \/ d.sc80 # sc80
                 \/ d.index # center
  IN /\ drv' = [bwInit |-> TRUE, sw |-> sw, setBw |-> setBw, chan |-> center,
                index |-> center, bw |-> width, sc80 |-> sc80]
     /\ todo' = IF ~sw /\ ~setBw THEN [Idle EXCEPT !.band = before]
                ELSE [band |-> before \o (IF sw THEN switch ELSE <<>>),
                      chnl |-> IF sw THEN SwChnl(center, width) ELSE <<>>,
                      bw |-> IF setBw THEN PostSetBw(center, width, sc80)
                             ELSE <<>>,
                      power |-> TxPower]

SetChannelBw(d, channel, width) ==
  LET center == CenterCh(channel, width)
  IN Handle(d, center, width, Offset80(channel, width),
            <<>>, SwBand(center, width))

\* StartWithMonitorMode, rtl8812au_hal_init's end: the band of channel 36 is
\* switched to in any case, then the channel is set, 20 MHz wide.
HalChannel(channel, width) ==
  /\ ~app.up /\ call = None
  /\ Handle(drv, 36, 0, 0, SwitchBand("5G", drv.bw), <<>>)
  /\ call' = [by |-> "hal", channel |-> channel, width |-> width]
  /\ UNCHANGED <<board, regs, app, last, torn, faults>>

\* What init_hw_mlme_ext leaves as the current channel: no channel, but the
\* center of channel 2 at 40 MHz.
Forgotten == 0

\* Wrong variant: only the width is forgotten.
InitMlmeKeepsChannel ==
  /\ call # None /\ call.by = "hal" /\ todo = Idle
  /\ SetChannelBw([drv EXCEPT !.bw = 7], call.channel, call.width)
  /\ call' = [call EXCEPT !.by = "mlme"]
  /\ UNCHANGED <<board, regs, app, last, torn, faults>>

\* init_hw_mlme_ext forgets the channel and the width, and tunes.
InitMlme ==
  /\ call # None /\ call.by = "hal" /\ todo = Idle
  /\ SetChannelBw([drv EXCEPT !.chan = Forgotten, !.bw = 7],
                  call.channel, call.width)
  /\ call' = [call EXCEPT !.by = "mlme"]
  /\ UNCHANGED <<board, regs, app, last, torn, faults>>

\* BringUp ends with SetMonitorChannel, which finds its work done.
MonitorChannel ==
  /\ call # None /\ call.by = "mlme" /\ todo = Idle
  /\ SetChannelBw(drv, call.channel, call.width)
  /\ call' = [call EXCEPT !.by = "session"]
  /\ UNCHANGED <<board, regs, app, last, torn, faults>>

\* applyPendingControlActions: a tune without a width keeps curWidth_.
Tune(channel, width) ==
  /\ app.up /\ call = None
  /\ SetChannelBw(drv, channel, width)
  /\ call' = [by |-> "session", channel |-> channel, width |-> width]
  /\ UNCHANGED <<board, regs, app, last, torn, faults>>

\* The part of the program in hand.
Part == CASE todo.band # <<>> -> "band"
          [] todo.band = <<>> /\ todo.chnl # <<>> -> "chnl"
          [] todo.band = <<>> /\ todo.chnl = <<>> /\ todo.bw # <<>> -> "bw"
          [] OTHER -> "power"

\* Wrong variant: the flags go down before the work they stand for is done.
StepFlagFirst ==
  /\ todo # Idle
  /\ regs' = Written(regs, Head(todo[Part]))
  /\ todo' = [todo EXCEPT ![Part] = Tail(@)]
  /\ drv' = [drv EXCEPT !.sw = @ /\ Part # "chnl",
                        !.setBw = @ /\ Part # "bw"]
  /\ torn' = IF Part = "band" THEN Len(todo.band) > 1 ELSE torn
  /\ UNCHANGED <<board, call, app, last, faults>>

\* One step of phy_SwChnlAndSetBwMode8812. A flag goes down with the last
\* step of its part.
Step ==
  /\ todo # Idle
  /\ regs' = Written(regs, Head(todo[Part]))
  /\ todo' = [todo EXCEPT ![Part] = Tail(@)]
  /\ drv' = [drv EXCEPT !.sw = @ /\ ~(Part = "chnl" /\ Len(todo.chnl) = 1),
                        !.setBw = @ /\ ~(Part = "bw" /\ Len(todo.bw) = 1)]
  /\ torn' = IF Part = "band" THEN Len(todo.band) > 1 ELSE torn
  /\ UNCHANGED <<board, call, app, last, faults>>

\* SetMonitorChannel returns to the session.
Return ==
  /\ call # None /\ call.by = "session" /\ todo = Idle
  /\ app' = [up |-> TRUE, channel |-> call.channel, width |-> call.width]
  /\ last' = <<call.channel, call.width>>
  /\ call' = None
  /\ UNCHANGED <<board, regs, drv, todo, torn, faults>>

\* The session and its driver are gone; the next one starts from the tables.
Gone ==
  /\ regs' = FromTables
  /\ drv' \in {NewDriver(g) : g \in Garbage}
  /\ app' = NoSession
  /\ torn' = FALSE /\ faults' = 0

\* A read fails. During the bring-up that ends the session; a session that
\* streams logs it and goes on with the channel and width it had.
Fail ==
  /\ call # None
  /\ call' = None /\ todo' = Idle /\ last' = None
  /\ IF app.up
     THEN /\ todo # Idle
          /\ faults < MaxFaults /\ faults' = faults + 1
          /\ UNCHANGED <<regs, drv, app, torn>>
     ELSE Gone
  /\ UNCHANGED board

EndSession ==
  /\ app.up /\ call = None
  /\ Gone
  /\ last' = None
  /\ UNCHANGED <<board, call, todo>>

RadioNext ==
  \/ \E channel \in Channels :
       \/ \E width \in Widths :
            HalChannel(channel, width) \/ Tune(channel, width)
       \/ Tune(channel, app.width)
  \/ InitMlme \/ MonitorChannel \/ Step \/ Return \/ Fail \/ EndSession

RadioSpec == RadioInit /\ [][RadioNext]_radioVars

-----------------------------------------------------------------------------
\* Type correctness of the radio's state.
RadioTypeOK ==
  /\ board \in Boards
  /\ DOMAIN regs = Fields
  /\ \A f \in Numbers : regs[f] \in Word
  /\ \A f \in FrontEnd \cup {"cckCheck"} : regs[f] \in {"table", "2.4G", "5G"}
  /\ regs.ccaOff \in BOOLEAN
  /\ drv \in [bwInit : BOOLEAN, sw : BOOLEAN, setBw : BOOLEAN,
              chan : 0..255, index : 0..255, bw : 0..255, sc80 : 0..255]
  /\ call # None => call.by \in {"hal", "mlme", "session"}
  /\ DOMAIN todo = DOMAIN Idle
  /\ app \in [up : BOOLEAN, channel : 0..177, width : 0..2]
  /\ last \in (Channels \X Widths) \cup {None}
  /\ torn \in BOOLEAN
  /\ faults \in 0..MaxFaults

\* What the registers should be for a center channel and a width, whatever
\* was tuned to before.
ChannelIs(center) ==
  /\ regs.fcArea = FcArea(center)
  /\ regs.chA = center /\ regs.chB = center
  /\ regs.agA = ModAg(center) /\ regs.agB = ModAg(center)

\* Where 2480 MHz is in the channel.
Spur20 == {<<0, 13>>, <<0, 14>>}
Spurs == Spur20 \cup {<<1, 11>>}

WidthIs(center, width, sc80) ==
  /\ regs.macBw = width /\ regs.rfMod = width
  /\ regs.bwA = RfBw(width) /\ regs.bwB = RfBw(width)
  /\ regs.l1Peak = L1Peak(width)
  /\ regs.dataSc = SecondaryChnl(width, sc80)
  /\ regs.adcClk = IF <<width, center>> \in Spur20 THEN 3 ELSE 2
  /\ regs.adcBuf = IF width = 2 \/ (board.cCut /\ <<width, center>> \in Spurs)
                   THEN 1 ELSE 0

\* A tune that completes leaves the radio as its request says and listening,
\* whatever tunes came before it and wherever in them a read failed. The
\* one center whose channel may be another is the one that stands for none.
TunedIsConfigured ==
  (call = None /\ last # None) =>
    LET center == CenterCh(last[1], last[2]) IN
    /\ center # Forgotten => ChannelIs(center)
    /\ WidthIs(center, last[2], Offset80(last[1], last[2]))
    /\ ~regs.ccaOff

\* What no flag marks as still to do is done: the driver never takes the
\* early return, or skips half of a tune, over registers of an older request.
UnflaggedIsDone ==
  app.up => /\ ~drv.sw /\ drv.chan # Forgotten => ChannelIs(drv.chan)
            /\ ~drv.setBw => WidthIs(drv.chan, drv.bw, drv.sc80)

\* The band's registers are all of one band, that of the channel, unless a
\* read failed in the middle of switching bands and no later switch
\* completed: the mark in CCK_CHECK then hides what was not written.
FrontEndIsOfBand ==
  (call = None /\ last # None /\ ~torn) =>
    LET center == CenterCh(last[1], last[2]) IN
    center # Forgotten =>
      \A f \in FrontEnd \cup {"cckCheck"} : regs[f] = BandOf(center)

\* The comment in init_hw_mlme_ext: "to make sure first time change
\* channel(band) would be done properly". The first tune of a driver reaches
\* the adapter.
FirstTuneIsDone ==
  (call # None /\ call.by = "mlme" /\ todo = Idle) =>
    ChannelIs(CenterCh(call.channel, call.width))

=============================================================================

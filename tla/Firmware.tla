----------------------------- MODULE Firmware -----------------------------
(***************************************************************************)
(* FirmwareManager: how the firmware gets into the adapter's 8051 and is   *)
(* started. The image is written page by page, a page in blocks of three   *)
(* sizes, and nothing looks at the result of such a write: it is the       *)
(* adapter's checksum that tells, and the download starts again while it   *)
(* does not agree.                                                         *)
(*                                                                         *)
(* The adapter is external. It outlives the session: a session that ends   *)
(* in the middle leaves it as it is, and none puts it in order at its end. *)
(* That the checksum agrees only with the image is assumed of it.          *)
(***************************************************************************)
EXTENDS Integers, Sequences, FiniteSets

CONSTANTS
  Size,        \* FirmwareLen
  PageSize,    \* MAX_DLFW_PAGE_SIZE
  Blocks,      \* blockSize_p1, _p2 and _p3
  MaxLost,     \* bound: the blocks of a session that do not arrive
  MaxAttempts  \* bound: the attempts that fit in 500 ms

\* The adapter shows its memory through eight pages: three bits of REG_MCUFWDL.
\* A longer image would be written over its own beginning; the one in
\* Firmware.h has seven.
ASSUME FirmwareAssumption ==
  /\ Size \in Nat /\ PageSize \in Nat \ {0} /\ Size <= 8 * PageSize
  /\ Blocks \in Seq(Nat \ {0}) /\ Len(Blocks) = 3 /\ Blocks[3] = 1
  /\ MaxLost \in Nat /\ MaxAttempts \in Nat

VARIABLES
  mcu,         \* REG_MCUFWDL
  ram,         \* the 8051's memory: the bytes of the image in place
  fwStep,      \* how far FirmwareDownload8812 is
  page,        \* the page to be written next
  attempts,    \* write_fw
  lost         \* the blocks this session lost

fwVars == <<mcu, ram, fwStep, page, attempts, lost>>

Image == 0..(Size - 1)

\* dl: BIT0. chk: FWDL_ChkSum_rpt. free: MCUFWDL_RDY. ready: WINTINI_RDY,
\* and with it BIT7: the 8051 runs from its memory.
ColdMcu == [dl |-> FALSE, chk |-> FALSE, free |-> FALSE, ready |-> FALSE]

FirmwareInit ==
  /\ mcu = ColdMcu /\ ram = {}
  /\ fwStep = "off" /\ page = 0 /\ attempts = 0 /\ lost = 0

\* FirmwareDownload8812, to the loop; _FWDownloadEnable_8812(true), which
\* resets the 8051. A RAM code that runs is stopped first, with all of
\* REG_MCUFWDL. Whatever ran may have written over the image.
StartDownload ==
  /\ fwStep = "off"
  /\ mcu' = [(IF mcu.ready THEN ColdMcu ELSE mcu) EXCEPT !.dl = TRUE]
  /\ ram' \in {ram, {}}
  /\ fwStep' = "attempt" /\ attempts' = 0
  /\ UNCHANGED <<page, lost>>

\* Wrong variant: the checksum of the download before is not cleared.
AttemptKeepsChecksum ==
  /\ fwStep = "attempt"
  /\ fwStep' = "write" /\ page' = 0
  /\ attempts' = attempts + 1
  /\ UNCHANGED <<mcu, ram, lost>>

\* One more attempt: the report is cleared, the image written once more.
Attempt ==
  /\ fwStep = "attempt"
  /\ mcu' = [mcu EXCEPT !.chk = FALSE]
  /\ fwStep' = "write" /\ page' = 0
  /\ attempts' = attempts + 1
  /\ UNCHANGED <<ram, lost>>

Pages == Size \div PageSize
PageLen(p) == IF p < Pages THEN PageSize ELSE Size % PageSize

\* Wrong variant: the last phase starts where the second one did.
PageBlocksShort(size) ==
  LET n1 == size \div Blocks[1]
      rest1 == size % Blocks[1]
      n2 == rest1 \div Blocks[2]
      rest2 == rest1 % Blocks[2]
  IN {<<i * Blocks[1], Blocks[1]>> : i \in 0..(n1 - 1)}
       \cup {<<n1 * Blocks[1] + i * Blocks[2], Blocks[2]>> : i \in 0..(n2 - 1)}
       \cup {<<n1 * Blocks[1] + i, 1>> : i \in 0..(rest2 - 1)}

\* BlockWrite: <<offset, length>> of the blocks of a page.
PageBlocks(size) ==
  LET n1 == size \div Blocks[1]
      rest1 == size % Blocks[1]
      n2 == rest1 \div Blocks[2]
      rest2 == rest1 % Blocks[2]
      offset == n1 * Blocks[1] + n2 * Blocks[2]
  IN {<<i * Blocks[1], Blocks[1]>> : i \in 0..(n1 - 1)}
       \cup {<<n1 * Blocks[1] + i * Blocks[2], Blocks[2]>> : i \in 0..(n2 - 1)}
       \cup {<<offset + i, 1>> : i \in 0..(rest2 - 1)}

Bytes(b) == b[1]..(b[1] + b[2] - 1)

\* WriteFW8812, _PageWrite_8812, which selects page & 0x07. Some blocks may
\* not arrive.
WritePage ==
  /\ fwStep = "write" /\ page <= Pages
  /\ \E gone \in SUBSET PageBlocks(PageLen(page)) :
       /\ lost + Cardinality(gone) <= MaxLost
       /\ lost' = lost + Cardinality(gone)
       /\ ram' = ram \cup {(page % 8) * PageSize + o : o \in
                   UNION {Bytes(b) : b \in PageBlocks(PageLen(page)) \ gone}}
  /\ page' = page + 1
  /\ UNCHANGED <<mcu, fwStep, attempts>>

WriteEnds ==
  /\ fwStep = "write" /\ page > Pages
  /\ fwStep' = "poll"
  /\ UNCHANGED <<mcu, ram, page, attempts, lost>>

\* polling_fwdl_chksum. An image in place is reported in time, or too late.
ChecksumOk ==
  /\ fwStep = "poll" /\ (mcu.chk \/ ram = Image)
  /\ mcu' = [mcu EXCEPT !.chk = TRUE, !.dl = FALSE]
  /\ fwStep' = "free"
  /\ UNCHANGED <<ram, page, attempts, lost>>

\* Three attempts in any case, more as long as 500 ms have not passed. The
\* failure is told to no one: the bring-up goes on without a firmware.
ChecksumLate ==
  /\ fwStep = "poll" /\ ~mcu.chk
  /\ \/ /\ attempts < MaxAttempts
        /\ fwStep' = "attempt" /\ UNCHANGED mcu
     \/ /\ attempts >= 3
        /\ fwStep' = "done" /\ mcu' = [mcu EXCEPT !.dl = FALSE]
  /\ UNCHANGED <<ram, page, attempts, lost>>

\* _FWFreeToGo8812, InitializeFirmwareVars8812: the 8051 starts over, and
\* its firmware reports, or not in time. Neither is told to anyone.
FreeToGo ==
  /\ fwStep = "free"
  /\ \E ready \in {FALSE, ram = Image} :
       mcu' = [mcu EXCEPT !.free = TRUE, !.ready = ready]
  /\ fwStep' = "done"
  /\ UNCHANGED <<ram, page, attempts, lost>>

\* A firmware that was given up on may still come up, in this session or
\* after it.
ReportsLate ==
  /\ fwStep \in {"off", "done"}
  /\ mcu.free /\ ~mcu.ready /\ ram = Image
  /\ mcu' = [mcu EXCEPT !.ready = TRUE]
  /\ UNCHANGED <<ram, fwStep, page, attempts, lost>>

FirmwareNext ==
  StartDownload \/ Attempt \/ WritePage \/ WriteEnds
    \/ ChecksumOk \/ ChecksumLate \/ FreeToGo \/ ReportsLate

\* The session is over: the adapter stays as it is.
ForgetFirmware ==
  /\ fwStep' = "off" /\ page' = 0 /\ attempts' = 0 /\ lost' = 0
  /\ UNCHANGED <<mcu, ram>>

-----------------------------------------------------------------------------
\* Type correctness of the firmware download's state.
FirmwareTypeOK ==
  /\ mcu \in [dl : BOOLEAN, chk : BOOLEAN, free : BOOLEAN, ready : BOOLEAN]
  /\ ram \subseteq Image
  /\ fwStep \in {"off", "attempt", "write", "poll", "free", "done"}
  /\ page \in 0..(Pages + 1) /\ lost \in 0..MaxLost

\* The download accepts, and starts, nothing but the whole image: whatever
\* blocks were lost in this attempt, in those before it, and in sessions
\* that were cut short.
RunsWholeImage ==
  (fwStep = "free" \/ (mcu.ready /\ fwStep # "attempt" /\ fwStep # "write"))
    => ram = Image

\* The blocks of an attempt that all arrive are the image: a download that
\* loses nothing is never tried again.
BlocksAreImage == (fwStep = "poll" /\ lost = 0) => ram = Image

=============================================================================

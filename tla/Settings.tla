------------------------------ MODULE Settings ------------------------------
(***************************************************************************)
(* The settings of the board that are not a run, as PVs, Data and the      *)
(* registers represent them: periods and frame sync.  Puts are checked in  *)
(* pvs/static_pvs.py, written by worker_event_handlers.py and read back by *)
(* poll_hardware and process_worker_event.                                 *)
(***************************************************************************)
EXTENDS Integers

CONSTANTS
    MaxWord,                    \* the largest value a register write can carry
    MAX_FRAME_SYNC_DELAY_US

\* PeriodMode: the flags of PeriodControlFlags that are modes.
COMPUTER      == 0
LOOK_UP_TABLE == 16
NOT_USED      == 32
EXTERNAL      == 48
UNKNOWN       == -1
PeriodMode         == {COMPUTER, LOOK_UP_TABLE, NOT_USED, EXTERNAL}
SettablePeriodMode == PeriodMode \ {NOT_USED}
FrameSyncSelect    == {0, 1, 2}

\* The settings that are numbers.
Scalar == {"frame_sync_select", "num_periods", "period", "period_mode", "frame_sync_delay"}

Word == 0..MaxWord

ASSUME WordAssumption  == MaxWord \in Nat /\ MaxWord >= EXTERNAL
ASSUME DelayAssumption == MAX_FRAME_SYNC_DELAY_US \in Word

\* What a put handler answers with an error before it queues anything, or what
\* the enumeration of its PV does not offer.
Refused(field, value) ==
    \/ field = "period" /\ value < 1
    \/ field = "frame_sync_delay" /\ (value < 0 \/ value > MAX_FRAME_SYNC_DELAY_US)
    \/ field = "period_mode" /\ value \notin SettablePeriodMode
    \/ field = "frame_sync_select" /\ value \notin FrameSyncSelect

\* The value a handler writes.
Raw(field, value) == IF field = "period" THEN value - 1 ELSE value

\* period_control without its bits 0x02 and 0x40.
WithoutEndFlags(raw) == raw - 2 * ((raw \div 2) % 2) - 64 * ((raw \div 64) % 2)

\* What becomes of a register value on its way to the readback PV.
Shown(field, raw) ==
    CASE field = "period"            -> raw + 1
      [] field = "period_mode"       -> IF WithoutEndFlags(raw) \in PeriodMode
                                        THEN WithoutEndFlags(raw) ELSE UNKNOWN
      [] field = "frame_sync_select" -> IF raw \in FrameSyncSelect THEN raw ELSE UNKNOWN
      [] OTHER                       -> raw

\* The defaults of Data, of set points and readbacks alike.
DefaultSetting ==
    [field \in Scalar |->
        IF field \in {"num_periods", "period"} THEN 1
        ELSE IF field = "frame_sync_delay" THEN 0 ELSE UNKNOWN]
=============================================================================

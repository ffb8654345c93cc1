---------------------------- MODULE ValveControl ----------------------------
(***************************************************************************)
(* The pure half of the dump-valve node: the relay interlock, the drive    *)
(* table and the step decision of components/valve_control/valve_control.c *)
(* together with its timing constants (include/valve_control.h) and those  *)
(* of valves/main/valve_drive.c.                                           *)
(*                                                                         *)
(* A relay mask (one bit of a byte per relay) is the set of the relays     *)
(* that are energised.  Every duration is a number of clock units; an      *)
(* instance chooses the unit.                                              *)
(***************************************************************************)
EXTENDS Integers, Sequences, FiniteSets

CONSTANTS
  VALVE_COUNT,       \* valves of the node (grey, black)
  DRIVE_NOMINAL,     \* an OPEN drives this long
  DRIVE_CEILING,     \* a CLOSE gives up, and the watchdog fires, after this
  BREAK_BEFORE_MAKE, \* all-off time before a pair is energised
  SENSE_DEBOUNCE,    \* poll period of a drive, debounce of the sensor task
  REDRIVE_LOCKOUT,   \* commands for a valve are refused this long after a cycle
  SENSE_SETTLE,      \* the sensor is not trusted this long after a drive
  SENSE_POLL,        \* poll period of the sensor task
  CMD_QUEUE_LEN,     \* capacity of the command queue
  TICK_MOD           \* the tick counter counts modulo this (2^32)

ASSUME TimingAssumption ==
  /\ VALVE_COUNT \in Nat \ {0}
  /\ DRIVE_NOMINAL \in Nat \ {0}
  /\ DRIVE_CEILING \in Nat \ {0}
  /\ BREAK_BEFORE_MAKE \in Nat \ {0}
  /\ SENSE_DEBOUNCE \in Nat \ {0}
  /\ REDRIVE_LOCKOUT \in Nat \ {0}
  /\ SENSE_SETTLE \in Nat \ {0}
  /\ SENSE_POLL \in Nat \ {0}
  /\ CMD_QUEUE_LEN \in Nat \ {0}
  /\ TICK_MOD \in Nat \ {0}
  /\ DRIVE_NOMINAL < DRIVE_CEILING
  /\ REDRIVE_LOCKOUT < TICK_MOD
  /\ SENSE_SETTLE <= REDRIVE_LOCKOUT

Valves  == 0 .. VALVE_COUNT - 1
Actions == {"open", "close"}

-----------------------------------------------------------------------------
(* Relays and masks *)

Wires == {"white", "red"}
Rails == {"hi", "lo"}      \* to +12 V, to ground
Relays == Valves \X Wires \X Rails

ALL_OFF == {}

\* valve_mask_is_safe: no motor wire is tied to both rails.
MaskIsSafe(mask) ==
  \A v \in Valves, w \in Wires :
    ~ ({<<v, w, "hi">>, <<v, w, "lo">>} \subseteq mask)

\* valve_drive_mask: OPEN ties white to +12 V and red to ground, CLOSE swaps.
DriveMask(valve, action) ==
  IF action = "open" THEN {<<valve, "white", "hi">>, <<valve, "red", "lo">>}
                     ELSE {<<valve, "white", "lo">>, <<valve, "red", "hi">>}

Masks == {ALL_OFF} \cup {DriveMask(v, a) : v \in Valves, a \in Actions}

-----------------------------------------------------------------------------
(* The decision of one poll of a drive *)

StepResults == {"continue", "closed", "open", "unknown"}

\* valve_decide_step: CLOSE stops at the sensor or at the ceiling, OPEN at the
\* nominal time.
DecideStep(action, elapsed, diClosed) ==
  CASE action = "close" /\ diClosed                             -> "closed"
    [] action = "close" /\ ~diClosed /\ elapsed >= DRIVE_CEILING -> "unknown"
    [] action = "open" /\ elapsed >= DRIVE_NOMINAL               -> "open"
    [] OTHER                                                     -> "continue"

-----------------------------------------------------------------------------
(* The FreeRTOS tick counter: unsigned, wraps *)

Ticks == 0 .. TICK_MOD - 1

\* t + n on a TickType_t, for n < TICK_MOD
Later(t, n) == IF t + n < TICK_MOD THEN t + n ELSE t + n - TICK_MOD

\* t - s on a TickType_t
Elapsed(t, s) == IF s <= t THEN t - s ELSE t + TICK_MOD - s
=============================================================================

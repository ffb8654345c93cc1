------------------------------ MODULE BoardIo ------------------------------
(***************************************************************************)
(* The output expander of a panel's board: the steps of a start that drive *)
(* its pins, and the backlight, which the user interface switches later.   *)
(* Each pin is written by sending the whole byte, kept in s_io_shadow, and *)
(* the expander keeps its outputs over a reset of the processor.           *)
(*                                                                         *)
(* External: the expander of the 7B board, as board_lcd7b.c describes it.  *)
(* It may have made the CAN pin an input again by the time the CAN bus is  *)
(* started, and it takes the first output write after a mode write for     *)
(* itself.  The CH422G of the other boards has neither habit.              *)
(*                                                                         *)
(* The start and the user interface do not write at once: the backlight    *)
(* changes after minutes without a touch at the earliest.                  *)
(***************************************************************************)
EXTENDS Naturals, Sequences

CONSTANTS
  PANELS,         \* pairs of a board and whether the panel has CAN
  MAX_I2C_ERRORS, \* writes the bus loses
  BOARD_RESETS    \* resets from outside

ASSUME BoardAssumption ==
  /\ PANELS \subseteq {"lcd7b", "lcd7", "4_3b"} \X BOOLEAN
  /\ MAX_I2C_ERRORS \in Nat /\ BOARD_RESETS \in Nat

Pins == {"VDD", "LCD_RST", "TP_RST", "DISP", "USB_SEL"}

PinWrite(p, level) == [do |-> "pin", pin |-> p, level |-> level]
ChipInit == [do |-> "init", pin |-> "none", level |-> FALSE]
ModeWrite == [do |-> "mode", pin |-> "none", level |-> FALSE]

(* board_display_init(): supply, reset of the display, reset of the touch   *)
(* controller, backlight.                                                   *)
ResetPulse(p) == <<PinWrite(p, FALSE), PinWrite(p, TRUE)>>
Ch422gDisplayInit ==
  <<ChipInit>> \o ResetPulse("LCD_RST") \o ResetPulse("TP_RST") \o <<PinWrite("DISP", TRUE)>>
Lcd7bDisplayInit ==
  <<ChipInit, PinWrite("VDD", TRUE)>> \o ResetPulse("LCD_RST") \o ResetPulse("TP_RST")
  \o <<PinWrite("DISP", TRUE)>>

(* Mutation of Lcd7bTwaiInit: the mux is written once. *)
Lcd7bTwaiInit_Once == <<ModeWrite, PinWrite("USB_SEL", TRUE)>>

(* board_twai_init(): the pins shared with USB are switched to CAN, on the 7B *)
(* after a new mode write and twice; the 4.3B has CAN pins of its own.        *)
Lcd7bTwaiInit == <<ModeWrite, PinWrite("USB_SEL", TRUE), PinWrite("USB_SEL", TRUE)>>
Lcd7TwaiInit == <<PinWrite("USB_SEL", TRUE)>>

VARIABLES
  board, can,   \* the panel
  steps,        \* what is left of the start
  shadow,       \* s_io_shadow: the pins written high
  latch,        \* the pins the expander drives high
  forgot,       \* the CAN pin is an input
  absorbs,      \* the next output write is taken by the expander
  lit,          \* what the user interface asked of the backlight
  errors, boardResets

boardVars == <<board, can, steps, shadow, latch, forgot, absorbs, lit, errors, boardResets>>
chipVars == <<latch, forgot, absorbs>>

(* app_main(): the display, then the CAN bus of a panel that has it. *)
BoardStart(b, c) ==
  CASE b = "lcd7b" -> Lcd7bDisplayInit \o (IF c THEN Lcd7bTwaiInit ELSE <<>>)
    [] b = "lcd7" -> Ch422gDisplayInit \o (IF c THEN Lcd7TwaiInit ELSE <<>>)
    [] b = "4_3b" -> Ch422gDisplayInit

BoardInit ==
  /\ \E p \in PANELS : board = p[1] /\ can = p[2]
  /\ steps = BoardStart(board, can)
  /\ shadow = {} /\ latch = {} /\ forgot = FALSE /\ absorbs = FALSE /\ lit = FALSE
  /\ errors = 0 /\ boardResets = 0
-----------------------------------------------------------------------------
(***************************************************************************)
(* What the expander makes of a write.                                     *)
(***************************************************************************)
ModeWritten ==
  /\ forgot' = FALSE /\ absorbs' = (board = "lcd7b")
  /\ UNCHANGED latch

OutputWritten(pins) ==
  /\ latch' = IF absorbs THEN latch ELSE pins \ (IF forgot THEN {"USB_SEL"} ELSE {})
  /\ absorbs' = FALSE
  /\ UNCHANGED forgot

(* The 7B's expander lets go of the CAN pin. *)
Forget ==
  /\ board = "lcd7b" /\ can /\ ~forgot /\ \E n \in DOMAIN steps : steps[n] = ModeWrite
  /\ forgot' = TRUE /\ latch' = latch \ {"USB_SEL"}
  /\ UNCHANGED <<board, can, steps, shadow, absorbs, lit, errors, boardResets>>
-----------------------------------------------------------------------------
(* set_pin(): the byte with one pin changed. *)
WithPin(pins, p, level) == IF level THEN pins \cup {p} ELSE pins \ {p}

(* A step of the start: the shadow is assigned before the byte is sent. *)
StartStep ==
  /\ steps # <<>> /\ steps' = Tail(steps)
  /\ LET s == Head(steps) IN
     /\ shadow' = CASE s.do = "init" -> {}
                    [] s.do = "pin" -> WithPin(shadow, s.pin, s.level)
                    [] s.do = "mode" -> shadow
     /\ CASE s.do = "pin" -> OutputWritten(shadow')
          [] s.do = "mode" -> ModeWritten
          [] s.do = "init" -> \* the mode, then all pins low
               /\ forgot' = FALSE /\ absorbs' = FALSE
               /\ latch' = IF board = "lcd7b" THEN latch ELSE {}
     /\ lit' = IF s.pin = "DISP" THEN TRUE ELSE lit
  /\ UNCHANGED <<board, can, errors, boardResets>>

(* The processor starts again; the expander goes on as it was. *)
BoardRestart ==
  /\ steps' = BoardStart(board, can) /\ shadow' = {} /\ lit' = FALSE
  /\ UNCHANGED <<board, can, chipVars>>

(* A lost write of the start is returned up to app_main(), which aborts. *)
StartFails ==
  /\ steps # <<>> /\ errors < MAX_I2C_ERRORS /\ errors' = errors + 1
  /\ BoardRestart /\ UNCHANGED boardResets

BoardReset ==
  /\ boardResets < BOARD_RESETS /\ boardResets' = boardResets + 1
  /\ BoardRestart /\ UNCHANGED errors

(* board_backlight_set_percent() from the user interface, which ignores a failure. *)
Backlight(on) ==
  /\ steps = <<>> /\ lit # on
  /\ lit' = on /\ shadow' = WithPin(shadow, "DISP", on)
  /\ \/ OutputWritten(shadow') /\ UNCHANGED errors
     \/ errors < MAX_I2C_ERRORS /\ errors' = errors + 1 /\ UNCHANGED chipVars
  /\ UNCHANGED <<board, can, steps, boardResets>>

BoardNext == StartStep \/ StartFails \/ Forget \/ BoardReset \/ \E on \in BOOLEAN : Backlight(on)

BoardSpec == BoardInit /\ [][BoardNext]_boardVars
-----------------------------------------------------------------------------
(* The pins a running panel needs high. *)
Held == {"LCD_RST", "TP_RST"} \cup (IF board = "lcd7b" THEN {"VDD"} ELSE {})
          \cup (IF can /\ board # "4_3b" THEN {"USB_SEL"} ELSE {})

(* A panel that has started keeps its display out of reset and supplied, and   *)
(* the CAN pins switched to CAN, through every restart, lost write and change  *)
(* of the backlight.                                                           *)
PinsHeld == steps = <<>> => Held \subseteq latch
=============================================================================

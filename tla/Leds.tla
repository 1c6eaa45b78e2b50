--------------------------------- MODULE Leds ---------------------------------
(***************************************************************************)
(* The thread of main.c that moves one light up and down the LEDs, with    *)
(* setup_fpga_leds and handle_fpga_leds of hardware.c.  A mask is the set  *)
(* of its bits that are 1.                                                 *)
(***************************************************************************)
EXTENDS Integers

CONSTANT LedWidth  \* LED_PIO_DATA_WIDTH (10 in the source)

ASSUME LedWidthAssumption == LedWidth \in Nat /\ LedWidth > 1

VARIABLES
    leds,   \* the register of the LEDs
    dir,    \* 1: to the left, 0: to the right
    ledpc   \* "off": no thread yet, "setup" or "loop"

ledVars == <<leds, dir, ledpc>>

\* A server that ran before may have left its light on.
LedInit ==
    /\ leds = {} \/ \E b \in 0 .. LedWidth - 1 : leds = {b}
    /\ dir = 1
    /\ ledpc = "off"

StartLedThread ==
    /\ ledpc = "off"
    /\ ledpc' = "setup"
    /\ UNCHANGED <<leds, dir>>

setup_fpga_leds ==
    /\ ledpc = "setup"
    /\ leds' = {0}
    /\ ledpc' = "loop"
    /\ UNCHANGED dir

\* leds_mask << 1, in the bits of the register that exist.
Left == {b + 1 : b \in leds} \cap (0 .. LedWidth - 1)

Right == {b - 1 : b \in leds} \cap (0 .. LedWidth - 1)

\* Mutant: the light turns round one place too late.
handle_fpga_leds_OnePast ==
    /\ ledpc = "loop"
    /\ \/ dir = 1 /\ leds # {LedWidth} /\ leds' = Left /\ UNCHANGED dir
       \/ dir = 1 /\ leds = {LedWidth} /\ dir' = 0 /\ UNCHANGED leds
       \/ dir = 0 /\ leds # {0} /\ leds' = Right /\ UNCHANGED dir
       \/ dir = 0 /\ leds = {0} /\ dir' = 1 /\ UNCHANGED leds
    /\ UNCHANGED ledpc

handle_fpga_leds ==
    /\ ledpc = "loop"
    /\ \/ dir = 1 /\ leds # {LedWidth - 1} /\ leds' = Left /\ UNCHANGED dir
       \/ dir = 1 /\ leds = {LedWidth - 1} /\ dir' = 0 /\ UNCHANGED leds
       \/ dir = 0 /\ leds # {0} /\ leds' = Right /\ UNCHANGED dir
       \/ dir = 0 /\ leds = {0} /\ dir' = 1 /\ UNCHANGED leds
    /\ UNCHANGED ledpc

LedThread == setup_fpga_leds \/ handle_fpga_leds

LedSpec == LedInit /\ [][StartLedThread \/ LedThread]_ledVars

-----------------------------------------------------------------------------
(* Properties *)

\* Exactly one LED is lit once the thread runs: the shifts never push the light
\* out of the register (hardware.c:74-86).  It does not say that the light moves.
OneLight == ledpc = "loop" => \E b \in 0 .. LedWidth - 1 : leds = {b}
=============================================================================

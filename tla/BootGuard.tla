------------------------------- MODULE BootGuard -------------------------------
(***************************************************************************)
(* The count of crash-boots and the at-boot attach it holds back           *)
(* (src/src/OepBootGuard.cpp, the at-boot slots of                         *)
(* src/src/OepSettings.cpp).  Time is in units of the gate's settling.     *)
(*                                                                         *)
(* What ends a boot: a crash (a panic, or loop() stuck for kStallMs), a    *)
(* lockup (the core dead or interrupts off: the hardware watchdog), a      *)
(* restart the firmware planned, a reset from outside, or the power.       *)
(***************************************************************************)
EXTENDS Integers

CONSTANTS
  Chips,       \* among "esp" and "rp2"
  SafeAfter,   \* kSafeAfter
  CountMax,    \* where the count saturates: 255
  Stable, UsbSettle, Grace    \* kStableMs, kUsbSettleMs, kAttachGraceMs

BootAssumption ==
  /\ Chips \subseteq {"esp", "rp2"} /\ SafeAfter \in Nat \ {0} /\ CountMax \in Nat
  /\ SafeAfter <= CountMax
  /\ Stable \in Nat /\ UsbSettle \in Nat /\ Grace \in Nat

VARIABLES
  chip,
  cause,        \* what reset the chip, until begin() has read it; "none" while a boot runs
  kept,         \* the record a reset leaves: its state and count
  up,           \* millis() of this boot
  crashes, settled, usbSeen, usbSince, attachOpen,    \* gCrashes, gSettled, ...
  configured,   \* the host has configured the USB device
  attach,       \* the at-boot attach: "skipped" (safe), "waits", "done"
  crashed,      \* history: crash-boots in a row, the boot not yet stable
  repeated      \* history: those of them, in a row, that had started the attach

bootVars == <<chip, cause, kept, up, crashes, settled, usbSeen, usbSince, attachOpen, configured,
              attach, crashed, repeated>>

BootInit ==
  /\ chip \in Chips /\ cause = "power" /\ kept = [state |-> "none", count |-> 0]
  /\ up = 0 /\ crashes = 0 /\ settled = FALSE /\ usbSeen = FALSE /\ usbSince = 0
  /\ attachOpen = FALSE /\ configured = FALSE /\ attach = "waits"
  /\ crashed = 0 /\ repeated = 0

running == cause = "none"
Lower(a, b) == IF a < b THEN a ELSE b
Later == Stable + 1      \* bound on up: nothing changes after kStableMs
-----------------------------------------------------------------------------
(* The firmware                                                            *)

\* a reset the chip itself calls a crash: ESP32 only, an RP2 has just one watchdog reset
crashReset(c) == chip = "esp" /\ c \in {"crash", "lockup"}

\* Mutant: only an ESP32's reset cause is looked at.
fastByCause == kept.state = "running" /\ crashReset(cause)

\* begin() counted a crash soon after boot
fast == kept.state = "crashedFast" \/ (kept.state = "running" /\ crashReset(cause))

begin ==
  LET n == IF fast THEN Lower(kept.count + 1, CountMax) ELSE 0 IN
  /\ ~running /\ cause' = "none"
  /\ crashes' = n /\ kept' = [state |-> "running", count |-> n]
  /\ settled' = FALSE /\ usbSeen' = FALSE /\ usbSince' = 0 /\ attachOpen' = FALSE
  /\ up' = 0 /\ configured' = FALSE
  /\ attach' = IF n >= SafeAfter THEN "skipped" ELSE "waits"
  /\ UNCHANGED <<chip, crashed, repeated>>

\* Mutant: no grace for a host that never enumerates.
gateByUsb ==
  LET since == IF configured /\ ~usbSeen THEN up ELSE usbSince IN
  attachOpen \/ (configured /\ up - since >= UsbSettle)

\* attachReady(): whether the gate is open, given what it has seen
gate ==
  LET since == IF configured /\ ~usbSeen THEN up ELSE usbSince IN
  attachOpen \/ (configured /\ up - since >= UsbSettle) \/ up >= Grace

\* a round of loop(): poll(), then the at-boot attach when it may
round ==
  /\ running /\ kept.state # "planned"
  /\ settled' = (settled \/ up >= Stable)
  /\ kept' = IF ~settled /\ up >= Stable THEN [state |-> "settled", count |-> 0] ELSE kept
  /\ IF attach # "waits" \/ attachOpen
       THEN UNCHANGED <<usbSeen, usbSince>>
       ELSE /\ usbSeen' = configured
            /\ usbSince' = IF configured /\ ~usbSeen THEN up ELSE usbSince
  /\ attachOpen' = IF attach = "waits" THEN gate ELSE attachOpen
  /\ attach' = IF attach = "waits" /\ gate THEN "done" ELSE attach
  /\ UNCHANGED <<chip, cause, up, crashes, configured, crashed, repeated>>

\* planned(), ahead of a restart on purpose
planned ==
  /\ running /\ kept' = [state |-> "planned", count |-> 0]
  /\ UNCHANGED <<chip, cause, up, crashes, settled, usbSeen, usbSince, attachOpen, configured,
                 attach, crashed, repeated>>
-----------------------------------------------------------------------------
(* What ends a boot                                                        *)
Reset(c, state) ==
  /\ running /\ cause' = c
  /\ kept' = [kept EXCEPT !.state = state]
  /\ UNCHANGED <<chip, up, crashes, settled, usbSeen, usbSince, attachOpen, configured, attach>>

\* the history: a crash before the boot was stable is one more; all else starts again
soon == ~settled /\ kept.state # "planned"
Told(one) ==
  /\ crashed' = IF one THEN Lower(crashed + 1, CountMax) ELSE 0
  /\ repeated' = IF one /\ attach = "done" THEN Lower(repeated + 1, CountMax) ELSE 0

\* a panic, or loop() stuck for kStallMs: crashed() marks it on an RP2
crash ==
  /\ IF chip = "rp2"
       THEN Reset("wdt", IF kept.state = "settled" THEN "crashedLate" ELSE "crashedFast")
       ELSE Reset("crash", kept.state)
  /\ Told(soon)

\* a core dead: no mark on an RP2, whose next boot takes it for someone else's reset
lockup ==
  /\ Reset(IF chip = "esp" THEN "lockup" ELSE "wdt", kept.state)
  /\ Told(soon /\ chip = "esp")

restart ==
  /\ kept.state = "planned"
  /\ Reset(IF chip = "esp" THEN "software" ELSE "wdt", "planned") /\ Told(FALSE)

\* a tool's or a debugger's reset; the pin clears an RP2's record, as the power does
outside == \E c \in {"software", "wdt", "pin", "power"} :
  /\ Reset(c, IF c = "power" \/ (chip = "rp2" /\ c = "pin") THEN "none" ELSE kept.state)
  /\ Told(FALSE)
-----------------------------------------------------------------------------
(* Time and the host *)
tick ==
  /\ running /\ up < Later /\ up' = up + 1
  /\ UNCHANGED <<chip, cause, kept, crashes, settled, usbSeen, usbSince, attachOpen, configured,
                 attach, crashed, repeated>>

enumerate ==
  /\ running /\ configured' = ~configured
  /\ UNCHANGED <<chip, cause, kept, up, crashes, settled, usbSeen, usbSince, attachOpen,
                 attach, crashed, repeated>>

BootNext == begin \/ round \/ planned \/ crash \/ lockup \/ restart \/ outside \/ tick \/ enumerate
BootSpec == BootInit /\ [][BootNext]_bootVars

\* loop() comes round and time passes; a chip that was reset boots
BootFairness == WF_bootVars(round) /\ WF_bootVars(tick) /\ WF_bootVars(begin)
-----------------------------------------------------------------------------
\* A crash the at-boot attach sets off does not bring the probe down again and
\* again: at most SafeAfter boots in a row start the attach and crash
\* (BootGuard::safe, Settings::skipBootAttach).  Not a lockup on an RP2: its reset carries no mark.
CrashLoopEnds == repeated <= SafeAfter

\* A boot is a safe one only after SafeAfter crashes soon after boot in a row.  On an RP2 the
\* first may be a crash on the way into a planned restart: crashed() takes any boot whose record
\* does not say settled for a young one.
SafeIsEarned ==
  running /\ attach = "skipped" => crashed >= SafeAfter - (IF chip = "rp2" THEN 1 ELSE 0)

\* Both: a safe boot comes when it must, and then only.
SafeBoots == CrashLoopEnds /\ SafeIsEarned

\* Whatever the host's enumeration does, the at-boot attach of a boot that is
\* not a safe one starts, or the boot ends (BootGuard::attachReady's grace).
AttachComes == (running /\ attach = "waits") ~> (attach # "waits" \/ ~running \/ kept.state = "planned")
=============================================================================

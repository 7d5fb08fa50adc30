-------------------------------- MODULE EcatSii --------------------------------
(***************************************************************************)
(* The SII service, class EcatSiiService: it answers the EEPROM commands   *)
(* of the master when the EEPROM is emulated, and stores what was written  *)
(* once the master has been quiet for a while.                             *)
(*                                                                         *)
(* Fields of v, the members: width read_width_, counter store_counter_,    *)
(* pending store_pending_.                                                 *)
(* Fields of e, the ESC and the emulated medium: cmd the command in 0x0502 *)
(* while it is busy, done has it been carried out or refused, skipped was  *)
(* one acknowledged without that, unsaved does the medium hold words that  *)
(* are not stored.                                                         *)
(*                                                                         *)
(* Left out: addresses and data, the error bits, the on-board EEPROM,      *)
(* which the ESC serves by itself, and PublishStatus, which nothing calls. *)
(***************************************************************************)
EXTENDS Naturals

CONSTANTS
  Widths,     \* how many bytes a read can have: subset of {4, 8}
  StoreDelay  \* kSiiStoreDelayMs, in ticks

ASSUME SiiAssumption == Widths \subseteq {4, 8} /\ StoreDelay \in Nat \ {0}

Idle == "idle"
Commands == {"read", "write", "reload", "other"}

\* The medium, in the ESC driver: StoreSii() and WriteSiiWord(), which may fail.
StoreSii(e) == [e EXCEPT !.unsaved = FALSE]
WriteSiiWord(e) == {e, [e EXCEPT !.unsaved = TRUE]}

\* 0x0502 is written back: not busy any more, whatever command is there.
WriteBack(e) == [e EXCEPT !.cmd = Idle, !.skipped = @ \/ (e.cmd # Idle /\ ~e.done)]

\* HandleRead(), HandleWrite(), HandleReload(): data in or out of the medium; a
\* failure sets an error bit instead.
Execute(e, cmd) ==
  {[f EXCEPT !.done = TRUE] : f \in IF cmd = "write" THEN WriteSiiWord(e) ELSE {e}}

\* A segment of an 8 byte reload is acknowledged by itself, unless it failed.
Segmented(v, cmd) == cmd = "reload" /\ v.width = 8

\* Mutant of Tick: a tick too late.
TickLate(v) ==
  IF ~v.pending THEN v
  ELSE IF v.counter < StoreDelay THEN [v EXCEPT !.counter = @ + 1]
  ELSE [v EXCEPT !.counter = 0, !.pending = FALSE]

\* Tick(): count while something is pending, store when the delay is over.
Tick(v) ==
  IF ~v.pending THEN v
  ELSE IF v.counter + 1 < StoreDelay THEN [v EXCEPT !.counter = @ + 1]
  ELSE [v EXCEPT !.counter = 0, !.pending = FALSE]

TickStores(v) == v.pending /\ v.counter + 1 >= StoreDelay

\* Flush(): store now.
Flush(v) == IF v.pending THEN [v EXCEPT !.counter = 0, !.pending = FALSE] ELSE v

===============================================================================

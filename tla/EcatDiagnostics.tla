---------------------------- MODULE EcatDiagnostics ----------------------------
(***************************************************************************)
(* The diagnostics, class EcatDiagnostics: the first fault is frozen until *)
(* the user clears it, and replayed line by line when the user asks.       *)
(*                                                                         *)
(* Fields of g: req report_request_ (0, 1 replay, 2 clear), avail          *)
(* fault_available_, id fault_id_ modulo 2, dump dump_pending_, line       *)
(* dump_line_, out output_running_, received received_, failed rx_failed_, *)
(* and shown, the id that the first line of the replay showed.             *)
(*                                                                         *)
(* Left out: the history and the counters, which are data of the report.   *)
(* The times at which a report and a line are due are any times.           *)
(***************************************************************************)
EXTENDS Naturals

CONSTANT DumpLines  \* bound: lines of a replay (9 and 5 for each sample)

ASSUME DiagnosticsAssumption == DumpLines \in Nat \ {0}

\* CaptureFault(): the first fault stays.
CaptureFault(g) ==
  IF g.avail THEN g ELSE [g EXCEPT !.avail = TRUE, !.id = 1 - @, !.line = 0]

\* ReplayFault(): one line; the line after the last ends the replay.
ReplayFault(g, due) ==
  IF ~g.dump \/ ~due THEN g
  ELSE IF g.line = DumpLines THEN [g EXCEPT !.dump = FALSE, !.line = 0]
  ELSE [g EXCEPT !.line = @ + 1, !.shown = IF g.line = 0 THEN g.id ELSE @]

\* Mutant of TakeRequest: a clear does not end the replay.
TakeRequestOnly(g) ==
  CASE g.req = 2            -> [g EXCEPT !.req = 0, !.avail = FALSE]
    [] g.req = 1 /\ g.avail -> [g EXCEPT !.req = 0, !.dump = TRUE, !.line = 0]
    [] OTHER                -> [g EXCEPT !.req = 0]

\* Poll() takes the user's request.
TakeRequest(g) ==
  CASE g.req = 2            -> [g EXCEPT !.req = 0, !.avail = FALSE, !.dump = FALSE]
    [] g.req = 1 /\ g.avail -> [g EXCEPT !.req = 0, !.dump = TRUE, !.line = 0]
    [] OTHER                -> [g EXCEPT !.req = 0]

\* Poll(): the request, a fault when the outputs have stopped, one line.
PollDiagnostics(g, running, due) ==
  LET t == TakeRequest(g)
      c == IF t.out /\ ~running THEN CaptureFault(t) ELSE t
  IN  ReplayFault([c EXCEPT !.out = running], due)

\* Report(), once a second: a fault when there is an error, or when what was
\* received once stops, reported once until reception is back.
Report(g, receiving, error) ==
  LET r == [g EXCEPT !.received = @ \/ receiving]
  IN  IF error \/ (r.received /\ ~receiving)
      THEN [(IF r.failed THEN r ELSE CaptureFault(r)) EXCEPT !.failed = TRUE]
      ELSE [r EXCEPT !.failed = @ /\ ~receiving]

===============================================================================

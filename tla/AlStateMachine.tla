---------------------------- MODULE AlStateMachine ----------------------------
(***************************************************************************)
(* The AL (application layer) state machine of the EtherCAT slave, class   *)
(* EcatStateMachine.  The class only decides: every method below is an     *)
(* operator from the device record d to the record after the call, and the *)
(* methods that hand a decision to EcatDevice also return an AlStep.       *)
(*                                                                         *)
(* The fields of d this module owns, with the members they stand for:      *)
(*   state   state_                   code    status_code_                 *)
(*   error   error_latch_             out     output_running_              *)
(*   inp     input_running_           first   first_outputs_received_      *)
(*   pending transition_pending_      target  pending_target_              *)
(*   timer   timeout_counter_                                              *)
(***************************************************************************)
EXTENDS Naturals

CONSTANTS
  PreOpTimeout,    \* kEnterPreOpTimeoutMs, in ticks of the model
  DefaultTimeout,  \* kDefaultTimeoutMs
  OpTimeout        \* kSafeOpToOpTimeoutMs

ASSUME TimeoutAssumption ==
  /\ PreOpTimeout \in Nat \ {0}
  /\ DefaultTimeout \in Nat \ {0}
  /\ OpTimeout \in Nat \ {0}

States   == {"Init", "PreOp", "SafeOp", "Op"}
Requests == States \cup {"Boot", "Unknown"}

\* A write of the master to AL Control: requested state and acknowledge bit.
Controls == [req : Requests, ack : BOOLEAN]

\* The AL status codes, by what causes them: "InvalidRequest" stands for
\* 0x0011 and 0x0012, "InvalidConfig" for 0x0016, 0x001D, 0x001E, 0x0029,
\* 0x0030 and 0x0036, "RuntimeError" for 0x0001, 0x001A and 0x001B.
Codes == {"NoError", "InvalidRequest", "InvalidConfig", "RuntimeError"}

Actions == {"None", "EnterPreOp", "EnterSafeOp", "EnterOp", "LeaveOp",
            "LeaveSafeOp", "LeavePreOp", "BackToInit", "Publish"}

\* struct AlStep; its code member is never read by EcatDevice and is left out.
Steps == [action : Actions, target : States, ack : BOOLEAN]

NoStep == [action |-> "None", target |-> "Init", ack |-> FALSE]

\* Reset(): back to INIT, every flag and the pending transition cleared.
ResetAl(d) ==
  [d EXCEPT !.state = "Init", !.code = "NoError", !.error = FALSE,
            !.out = FALSE, !.inp = FALSE, !.first = FALSE,
            !.pending = FALSE, !.target = "Init", !.timer = 0]

\* StepFor(): the entering action of a target state; BOOT yields no action.
StepFor(req, ack) ==
  CASE req = "Init"   -> [action |-> "BackToInit",  target |-> "Init",   ack |-> ack]
    [] req = "PreOp"  -> [action |-> "EnterPreOp",  target |-> "PreOp",  ack |-> ack]
    [] req = "SafeOp" -> [action |-> "EnterSafeOp", target |-> "SafeOp", ack |-> ack]
    [] req = "Op"     -> [action |-> "EnterOp",     target |-> "Op",     ack |-> ack]
    [] OTHER          -> NoStep

\* Mutant of CancelPending: the old pending transition survives a new request.
KeepPending(d) == d

\* A new request takes over a transition that is still pending.
CancelPending(d) ==
  IF d.pending
  THEN [d EXCEPT !.pending = FALSE, !.target = "Init", !.timer = 0]
  ELSE d

\* Mutant of Refused: the error latch is not looked at.
RefuseNothing(d, ctl) == FALSE

\* A request other than INIT is refused while an error is not acknowledged.
Refused(d, ctl) == ~ctl.ack /\ d.error /\ ctl.req # "Init"

\* HandleControl(): decide what a write to AL Control asks for.
HandleControl(d, ctl) ==
  LET c == CancelPending(d)
      a == IF ctl.ack THEN [c EXCEPT !.error = FALSE] ELSE c
  IN  CASE Refused(d, ctl) ->
             [d |-> c, step |-> NoStep]
        [] ~Refused(d, ctl) /\ ctl.req = "Unknown" ->
             [d    |-> [a EXCEPT !.code = "InvalidRequest", !.error = TRUE],
              step |-> [NoStep EXCEPT !.action = "Publish"]]
        [] OTHER ->
             [d |-> a, step |-> StepFor(ctl.req, ctl.ack)]

\* BeginTransition(): arm the pending transition and its timeout.
BeginTransition(d, target) ==
  [d EXCEPT !.pending = TRUE, !.target = target,
            !.timer = CASE target = "PreOp"  -> PreOpTimeout
                        [] target = "SafeOp" -> DefaultTimeout
                        [] target = "Op"     -> OpTimeout
                        [] OTHER             -> 0]

\* Mutant of TickAl: no test for zero, the counter wraps.
TickPastZero(d) == [d EXCEPT !.timer = @ - 1]

\* Tick(): the 1 ms context counts the timeout down.
TickAl(d) == IF d.timer > 0 THEN [d EXCEPT !.timer = @ - 1] ELSE d

\* CheckTimeout(): the pending transition ran out of time.
TimedOut(d) == d.pending /\ d.timer = 0

TimeoutStep(d) ==
  CASE d.target = "Op"     -> [action |-> "LeaveOp",     target |-> "SafeOp", ack |-> FALSE]
    [] d.target = "SafeOp" -> [action |-> "LeaveSafeOp", target |-> "PreOp",  ack |-> FALSE]
    [] d.target = "PreOp"  -> [action |-> "LeavePreOp",  target |-> "Init",   ack |-> FALSE]
    [] OTHER               -> NoStep

\* Mutant of CheckTimeout: the pending transition is not given up.
TimeoutKeepsPending(d) ==
  [d |-> [d EXCEPT !.error = TRUE, !.code = "RuntimeError"], step |-> TimeoutStep(d)]

\* The code is 0x001B when outputs were expected and 0x0001 otherwise.
CheckTimeout(d) ==
  [d    |-> [d EXCEPT !.pending = FALSE, !.error = TRUE,
                      !.code = "RuntimeError"],
   step |-> TimeoutStep(d)]

\* MarkFirstOutputs() and ClearFirstOutputs().
MarkFirstOutputs(d)  == [d EXCEPT !.first = TRUE]
ClearFirstOutputs(d) == [d EXCEPT !.first = FALSE]

\* CompletePendingOp(): the first outputs complete a pending SAFEOP -> OP.
CanCompletePendingOp(d) ==
  /\ d.pending
  /\ d.target = "Op"
  /\ d.state = "SafeOp"
  /\ d.timer # 0
  /\ ~d.error

CompletePendingOp(d) ==
  [d EXCEPT !.pending = FALSE, !.code = "NoError", !.state = "Op", !.out = TRUE]

\* CanRecheck(): may an SM_CHANGE event be handled on its own?
CanRecheck(d) == ~d.pending /\ ~d.error /\ d.state # "Init"
===============================================================================

----------------------------- MODULE Lifecycle -----------------------------
(***************************************************************************)
(* The three lifecycle managers of utils/lifecycle.  A manager lets any    *)
(* goroutine call Start and Close on one instance, any number of times and *)
(* at the same time:                                                       *)
(*   "strict"    async.go: a goroutine runs Step until its first failure;  *)
(*   "failsafe"  async_failsafe.go: failures and panics are logged and the *)
(*               goroutine goes on until Step says BreakError;             *)
(*   "default"   default.go: no goroutine.                                 *)
(* startOnce and closeOnce are sync.Once: the first caller runs the body,  *)
(* callers that come meanwhile wait for it, later ones skip it.  An        *)
(* instance's Step returns BreakError only when it sees stopChan closed.   *)
(***************************************************************************)
EXTENDS Naturals

CONSTANTS
    Callers,   \* goroutines that call Start and Close
    Kinds      \* the managers under study

ASSUME KindsAssumption == Kinds \subseteq {"strict", "failsafe", "default"}

VARIABLES
    kind,       \* which manager this is
    stopped,    \* stopChan (closeChan of the default manager) is closed
    done,       \* how often close(doneChan) was executed
    startOnce, closeOnce,
    pc,         \* where each caller is
    res,        \* what the last call of each caller returned
    loop,       \* the goroutine running process()
    released    \* how often instance.Release() was begun

vars == <<kind, stopped, done, startOnce, closeOnce, pc, res, loop, released>>

Async == kind # "default"

Goto(c, label) == pc' = [pc EXCEPT ![c] = label]
Return(c, r) == Goto(c, "idle") /\ res' = [res EXCEPT ![c] = r]

Init ==
    /\ kind \in Kinds
    /\ stopped = FALSE /\ done = 0
    /\ startOnce = "fresh" /\ closeOnce = "fresh"
    /\ pc = [c \in Callers |-> "idle"]
    /\ res = [c \in Callers |-> "none"]
    /\ loop = "none" /\ released = 0

-----------------------------------------------------------------------------
(* Start *)

\* The select on stopChan, which the fail-safe manager does not have.
StartCall(c) ==
    /\ pc[c] = "idle"
    /\ IF kind # "failsafe" /\ stopped
       THEN Return(c, "afterClose")
       ELSE Goto(c, "start") /\ res' = [res EXCEPT ![c] = "none"]
    /\ UNCHANGED <<kind, stopped, done, startOnce, closeOnce, loop, released>>

StartFirst(c) ==
    /\ pc[c] = "start"
    /\ startOnce = "fresh"
    /\ startOnce' = "busy"
    /\ Goto(c, "startFunc")
    /\ UNCHANGED <<kind, stopped, done, closeOnce, res, loop, released>>

StartLater(c) ==
    /\ pc[c] = "start"
    /\ startOnce = "done"
    /\ Return(c, IF kind = "failsafe" THEN "ok" ELSE "already")
    /\ UNCHANGED <<kind, stopped, done, startOnce, closeOnce, loop, released>>

StartFuncOk(c) ==
    /\ pc[c] = "startFunc"
    /\ startOnce' = "done"
    /\ loop' = IF Async THEN "loop" ELSE loop
    /\ Return(c, "ok")
    /\ UNCHANGED <<kind, stopped, done, closeOnce, released>>

\* startFunc returns an error: the strict manager is over, the fail-safe one
\* runs its loop nevertheless.
StartFuncFails(c) ==
    /\ pc[c] = "startFunc"
    /\ startOnce' = "done"
    /\ done' = IF kind = "strict" THEN done + 1 ELSE done
    /\ loop' = IF kind = "failsafe" THEN "loop" ELSE loop
    /\ Return(c, IF kind = "failsafe" THEN "ok" ELSE "failed")
    /\ UNCHANGED <<kind, stopped, closeOnce, released>>

\* startFunc panics: the fail-safe Start recovers and returns nil, but the
\* goroutine was not launched and Do has consumed startOnce.  (The others let
\* the panic end the program.)
StartFuncPanic(c) ==
    /\ kind = "failsafe"
    /\ pc[c] = "startFunc"
    /\ startOnce' = "done"
    /\ Return(c, "ok")
    /\ UNCHANGED <<kind, stopped, done, closeOnce, loop, released>>

-----------------------------------------------------------------------------
(* process, the goroutine of the asynchronous managers *)

StepBegin ==
    /\ loop = "loop"
    /\ loop' = "step"
    /\ UNCHANGED <<kind, stopped, done, startOnce, closeOnce, pc, res, released>>

StepNil ==
    /\ loop = "step"
    /\ loop' = "loop"
    /\ UNCHANGED <<kind, stopped, done, startOnce, closeOnce, pc, res, released>>

\* An error other than BreakError, or a panic.
StepFails ==
    /\ loop = "step"
    /\ loop' = IF kind = "strict" THEN "exit" ELSE "loop"
    /\ UNCHANGED <<kind, stopped, done, startOnce, closeOnce, pc, res, released>>

\* Variant: the fail-safe loop takes BreakError for one more failure.
StepBreakIgnored ==
    /\ loop = "step"
    /\ stopped
    /\ loop' = IF kind = "strict" THEN "exit" ELSE "loop"
    /\ UNCHANGED <<kind, stopped, done, startOnce, closeOnce, pc, res, released>>

StepBreak ==
    /\ loop = "step"
    /\ stopped
    /\ loop' = "exit"
    /\ UNCHANGED <<kind, stopped, done, startOnce, closeOnce, pc, res, released>>

\* The deferred close(doneChan).
ProcessExit ==
    /\ loop = "exit"
    /\ loop' = "over"
    /\ done' = done + 1
    /\ UNCHANGED <<kind, stopped, startOnce, closeOnce, pc, res, released>>

-----------------------------------------------------------------------------
(* Close *)

CloseCall(c) ==
    /\ pc[c] = "idle"
    /\ Goto(c, "close")
    /\ res' = [res EXCEPT ![c] = "none"]
    /\ UNCHANGED <<kind, stopped, done, startOnce, closeOnce, loop, released>>

\* The first caller enters closeOnce.Do: the asynchronous managers close
\* stopChan, the default one calls Release at once.
CloseFirst(c) ==
    /\ pc[c] = "close"
    /\ closeOnce = "fresh"
    /\ closeOnce' = "busy"
    /\ stopped' = Async
    /\ released' = IF Async THEN released ELSE released + 1
    /\ Goto(c, IF Async THEN "closeStart" ELSE "release")
    /\ UNCHANGED <<kind, done, startOnce, res, loop>>

\* Variant: a Close that finds another one in progress does not wait for it.
CloseLaterNoWait(c) ==
    /\ pc[c] = "close"
    /\ closeOnce # "fresh"
    /\ Return(c, "closed")
    /\ UNCHANGED <<kind, stopped, done, startOnce, closeOnce, loop, released>>

CloseLater(c) ==
    /\ pc[c] = "close"
    /\ closeOnce = "done"
    /\ Return(c, "closed")
    /\ UNCHANGED <<kind, stopped, done, startOnce, closeOnce, loop, released>>

\* Variant: Close closes doneChan itself, started or not.
CloseNeverStartedAlways(c) ==
    /\ pc[c] = "closeStart"
    /\ startOnce # "busy"
    /\ startOnce' = "done"
    /\ done' = done + 1
    /\ Goto(c, "closeWait")
    /\ UNCHANGED <<kind, stopped, closeOnce, res, loop, released>>

\* startOnce.Do inside Close: when Start never ran it closes doneChan, and
\* when Start is running it waits for it.
CloseNeverStarted(c) ==
    /\ pc[c] = "closeStart"
    /\ startOnce = "fresh"
    /\ startOnce' = "done"
    /\ done' = done + 1
    /\ Goto(c, "closeWait")
    /\ UNCHANGED <<kind, stopped, closeOnce, res, loop, released>>

CloseStarted(c) ==
    /\ pc[c] = "closeStart"
    /\ startOnce = "done"
    /\ Goto(c, "closeWait")
    /\ UNCHANGED <<kind, stopped, done, startOnce, closeOnce, res, loop, released>>

\* Variant: Close releases the instance without waiting for doneChan.
CloseReleaseEarly(c) ==
    /\ pc[c] = "closeWait"
    /\ released' = released + 1
    /\ Goto(c, "release")
    /\ UNCHANGED <<kind, stopped, done, startOnce, closeOnce, res, loop>>

\* <-doneChan, then instance.Release() begins.
CloseRelease(c) ==
    /\ pc[c] = "closeWait"
    /\ done > 0
    /\ released' = released + 1
    /\ Goto(c, "release")
    /\ UNCHANGED <<kind, stopped, done, startOnce, closeOnce, res, loop>>

\* Release is over; the default manager closes its channel only now.
CloseReturn(c) ==
    /\ pc[c] = "release"
    /\ stopped' = TRUE
    /\ closeOnce' = "done"
    /\ Return(c, "closed")
    /\ UNCHANGED <<kind, done, startOnce, loop, released>>

-----------------------------------------------------------------------------
Start(c) ==
    \/ StartFirst(c) \/ StartLater(c)
    \/ StartFuncOk(c) \/ StartFuncFails(c) \/ StartFuncPanic(c)

Process ==
    StepBegin \/ StepNil \/ StepFails \/ StepBreak \/ ProcessExit

Close(c) ==
    \/ CloseFirst(c) \/ CloseLater(c) \/ CloseNeverStarted(c)
    \/ CloseStarted(c) \/ CloseRelease(c) \/ CloseReturn(c)

Next ==
    \/ Process
    \/ \E c \in Callers : StartCall(c) \/ CloseCall(c) \/ Start(c) \/ Close(c)

Spec == Init /\ [][Next]_vars

\* Goroutines run, startFunc, Step and Release return, and a Step that finds
\* stopChan ready every time does not overlook it forever: Go's select picks
\* at random among the ready cases.  Nobody is obliged to call anything.
FairSpec ==
    /\ Spec
    /\ WF_vars(Process) /\ SF_vars(StepBreak)
    /\ \A c \in Callers : WF_vars(Start(c)) /\ WF_vars(Close(c))

-----------------------------------------------------------------------------
(* Properties *)

OnceState == {"fresh", "busy", "done"}

\* The type of the state.  No instance is released twice by any manager.
TypeOK ==
    /\ kind \in Kinds
    /\ stopped \in BOOLEAN /\ done \in Nat /\ released \in 0 .. 1
    /\ startOnce \in OnceState /\ closeOnce \in OnceState
    /\ pc \in [Callers -> {"idle", "start", "startFunc", "close", "closeStart",
                           "closeWait", "release"}]
    /\ res \in [Callers -> {"none", "ok", "failed", "already", "afterClose", "closed"}]
    /\ loop \in {"none", "loop", "step", "exit", "over"}

\* doneChan is closed at most once, whoever gets there first (Start that
\* failed, process, or a Close with no Start): a second close would panic.
DoneClosedOnce == done <= 1

\* An asynchronous manager releases the instance at most once, and from then
\* on neither startFunc nor Step runs or will ever run on it, although Start
\* and Close race.
NothingRunsAfterRelease ==
    Async /\ released > 0 =>
        /\ released = 1
        /\ loop \in {"none", "over"}
        /\ startOnce = "done"
        /\ \A c \in Callers : pc[c] # "startFunc"

\* A Close that has returned means that the instance is released, also to the
\* callers that did not release it themselves.
ClosedMeansReleased ==
    \A c \in Callers :
        res[c] = "closed" => released > 0 /\ \A d \in Callers : pc[d] # "release"

\* The fail-safe Start recovered a panic of startFunc: nobody will ever close
\* doneChan.
StartPanicked ==
    kind = "failsafe" /\ startOnce = "done" /\ loop = "none" /\ done = 0

\* Every Close returns, whatever Start does at the same time, unless startFunc
\* panicked: then <-doneChan blocks Close for good and Release never runs.
CloseReturns ==
    \A c \in Callers : pc[c] = "close" ~> pc[c] = "idle" \/ StartPanicked
=============================================================================

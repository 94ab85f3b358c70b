--------------------------- MODULE LifecycleProofs ---------------------------
(* The safety properties of the lifecycle managers, for every set of        *)
(* callers and every set of managers.  None of them is inductive alone:     *)
(* they rest on who is inside the two sync.Once bodies (Once), and on what  *)
(* has happened to doneChan by then (Account).                              *)
(* Then those of the coders, whose Step the fail-safe manager runs, for all *)
(* parameters, failures, frame rates, and sizes of channels and frames:     *)
(* where each packet (Queue) and each output (Outputs) is, what the inner   *)
(* decoder of video was fed (Video), and how far the clock of an encoder is *)
(* from that of its source (Encoder).                                       *)
EXTENDS Lifecycle, Coders, ListProofs

Closing == {"closeStart", "closeWait", "release"}

\* One caller at most is inside startOnce.Do, one inside closeOnce.Do, and
\* the state of the Once says whether somebody is.
Once ==
    /\ \A c, e \in Callers : pc[c] = "startFunc" /\ pc[e] = "startFunc" => c = e
    /\ \A c, e \in Callers : pc[c] \in Closing /\ pc[e] \in Closing => c = e
    /\ \A c \in Callers : pc[c] = "startFunc" => startOnce = "busy"
    /\ \A c \in Callers : pc[c] \in Closing => closeOnce = "busy"

\* doneChan is open while startFunc or the loop runs, and an instance under
\* an asynchronous manager is released only after it was closed.
Account ==
    /\ done > 0 => done = 1 /\ startOnce = "done"
    /\ startOnce # "done" => loop = "none"
    /\ loop \in {"loop", "step", "exit"} => done = 0
    /\ Async /\ released > 0 => done = 1

\* How far the one Close that counts has come.
Progress ==
    /\ closeOnce = "fresh" => released = 0
    /\ closeOnce = "done" => released = 1
    /\ \A c \in Callers : pc[c] = "release" => released = 1
    /\ \A c \in Callers : pc[c] \in {"closeStart", "closeWait"} => Async /\ released = 0
    /\ \A c \in Callers : pc[c] = "closeWait" => startOnce = "done"
    /\ \A c \in Callers : res[c] = "closed" => closeOnce = "done"

IInv == TypeOK /\ Once /\ Account /\ Progress

-----------------------------------------------------------------------------
\* A manager that is made satisfies the invariant.
LEMMA InitInv ==
    Init => IInv
<1>1. ASSUME Init PROVE TypeOK
  <2>0. kind \in Kinds /\ stopped \in BOOLEAN
    BY <1>1, Zenon DEF Init
  <2>1. done \in Nat /\ released \in 0 .. 1
    BY <1>1 DEF Init
  <2>2. startOnce \in OnceState /\ closeOnce \in OnceState
    BY <1>1 DEF Init, OnceState
  <2>3. /\ pc \in [Callers -> {"idle", "start", "startFunc", "close", "closeStart",
                              "closeWait", "release"}]
        /\ res \in [Callers -> {"none", "ok", "failed", "already", "afterClose", "closed"}]
    BY <1>1 DEF Init
  <2>4. loop \in {"none", "loop", "step", "exit", "over"}
    BY <1>1 DEF Init
  <2>5. QED
    BY <2>0, <2>1, <2>2, <2>3, <2>4 DEF TypeOK
<1>2. Init => Once
  BY DEF Init, Once, Closing
<1>3. Init => Account /\ Progress
  BY DEF Init, Account, Progress
<1>4. QED
  BY <1>1, <1>2, <1>3 DEF IInv

\* The loop changes loop and done only.
LEMMA ProcessInv ==
    ASSUME IInv, Process
    PROVE  IInv'
<1> USE DEF IInv
<1>1. CASE StepBegin
  <2>1. TypeOK'
    BY <1>1 DEF StepBegin, TypeOK, OnceState
  <2>2. Once'
    BY <1>1 DEF StepBegin, Once
  <2>3. Account'
    BY <1>1 DEF StepBegin, TypeOK, Account, Async
  <2>4. Progress'
    BY <1>1 DEF StepBegin, Progress, Async
  <2>5. QED
    BY <2>1, <2>2, <2>3, <2>4
<1>2. CASE StepNil
  <2>1. TypeOK'
    BY <1>2 DEF StepNil, TypeOK, OnceState
  <2>2. Once'
    BY <1>2 DEF StepNil, Once
  <2>3. Account'
    BY <1>2 DEF StepNil, TypeOK, Account, Async
  <2>4. Progress'
    BY <1>2 DEF StepNil, Progress, Async
  <2>5. QED
    BY <2>1, <2>2, <2>3, <2>4
<1>3. CASE StepFails
  <2>1. TypeOK'
    BY <1>3 DEF StepFails, TypeOK, OnceState
  <2>2. Once'
    BY <1>3 DEF StepFails, Once
  <2>3. Account'
    BY <1>3 DEF StepFails, TypeOK, Account, Async
  <2>4. Progress'
    BY <1>3 DEF StepFails, Progress, Async
  <2>5. QED
    BY <2>1, <2>2, <2>3, <2>4
<1>4. CASE StepBreak
  <2>1. TypeOK'
    BY <1>4 DEF StepBreak, TypeOK, OnceState
  <2>2. Once'
    BY <1>4 DEF StepBreak, Once
  <2>3. Account'
    BY <1>4 DEF StepBreak, TypeOK, Account, Async
  <2>4. Progress'
    BY <1>4 DEF StepBreak, Progress, Async
  <2>5. QED
    BY <2>1, <2>2, <2>3, <2>4
<1>5. CASE ProcessExit
  <2>1. TypeOK'
    BY <1>5 DEF ProcessExit, TypeOK, OnceState
  <2>2. Once'
    BY <1>5 DEF ProcessExit, Once
  <2>3. Account'
    BY <1>5 DEF ProcessExit, TypeOK, Account, Async
  <2>4. Progress'
    BY <1>5 DEF ProcessExit, Progress, Async
  <2>5. QED
    BY <2>1, <2>2, <2>3, <2>4
<1>6. QED
  BY <1>1, <1>2, <1>3, <1>4, <1>5 DEF Process

\* One step per call: where the caller goes, and what it does to the Onces.
LEMMA CallerInv ==
    ASSUME IInv, NEW c \in Callers,
           StartCall(c) \/ CloseCall(c) \/ Start(c) \/ Close(c)
    PROVE  IInv'
<1> USE DEF IInv
<1>1. CASE StartCall(c)
  <2>1. TypeOK'
    BY <1>1 DEF StartCall, Goto, Return, TypeOK, OnceState, Once, Account, Progress, Closing, Async
  <2>2. Once'
    BY <1>1 DEF StartCall, Goto, Return, TypeOK, OnceState, Once, Closing
  <2>3. Account'
    BY <1>1 DEF StartCall, Goto, Return, TypeOK, Once, Account, Progress, Async
  <2>4. Progress'
    BY <1>1 DEF StartCall, Goto, Return, TypeOK, OnceState, Once, Closing, Account, Progress, Async
  <2>5. QED
    BY <2>1, <2>2, <2>3, <2>4
<1>2. CASE StartFirst(c)
  <2>1. TypeOK'
    BY <1>2 DEF StartFirst, Goto, Return, TypeOK, OnceState, Once, Account, Progress, Closing, Async
  <2>2. Once'
    BY <1>2 DEF StartFirst, Goto, Return, TypeOK, OnceState, Once, Closing
  <2>3. Account'
    BY <1>2 DEF StartFirst, Goto, Return, TypeOK, Once, Account, Progress, Async
  <2>4. Progress'
    BY <1>2 DEF StartFirst, Goto, Return, TypeOK, OnceState, Once, Closing, Account, Progress, Async
  <2>5. QED
    BY <2>1, <2>2, <2>3, <2>4
<1>3. CASE StartLater(c)
  <2>1. TypeOK'
    BY <1>3 DEF StartLater, Goto, Return, TypeOK, OnceState, Once, Account, Progress, Closing, Async
  <2>2. Once'
    BY <1>3 DEF StartLater, Goto, Return, TypeOK, OnceState, Once, Closing
  <2>3. Account'
    BY <1>3 DEF StartLater, Goto, Return, TypeOK, Once, Account, Progress, Async
  <2>4. Progress'
    BY <1>3 DEF StartLater, Goto, Return, TypeOK, OnceState, Once, Closing, Account, Progress, Async
  <2>5. QED
    BY <2>1, <2>2, <2>3, <2>4
<1>4. CASE StartFuncOk(c)
  <2>1. TypeOK'
    BY <1>4 DEF StartFuncOk, Goto, Return, TypeOK, OnceState, Once, Account, Progress, Closing, Async
  <2>2. Once'
    BY <1>4 DEF StartFuncOk, Goto, Return, TypeOK, OnceState, Once, Closing
  <2>3. Account'
    BY <1>4 DEF StartFuncOk, Goto, Return, TypeOK, Once, Account, Progress, Async
  <2>4. Progress'
    BY <1>4 DEF StartFuncOk, Goto, Return, TypeOK, OnceState, Once, Closing, Account, Progress, Async
  <2>5. QED
    BY <2>1, <2>2, <2>3, <2>4
<1>5. CASE StartFuncFails(c)
  <2>1. TypeOK'
    BY <1>5 DEF StartFuncFails, Goto, Return, TypeOK, OnceState, Once, Account, Progress, Closing, Async
  <2>2. Once'
    BY <1>5 DEF StartFuncFails, Goto, Return, TypeOK, OnceState, Once, Closing
  <2>3. Account'
    BY <1>5 DEF StartFuncFails, Goto, Return, TypeOK, Once, Account, Progress, Async
  <2>4. Progress'
    BY <1>5 DEF StartFuncFails, Goto, Return, TypeOK, OnceState, Once, Closing, Account, Progress, Async
  <2>5. QED
    BY <2>1, <2>2, <2>3, <2>4
<1>6. CASE StartFuncPanic(c)
  <2>1. TypeOK'
    BY <1>6 DEF StartFuncPanic, Goto, Return, TypeOK, OnceState, Once, Account, Progress, Closing, Async
  <2>2. Once'
    BY <1>6 DEF StartFuncPanic, Goto, Return, TypeOK, OnceState, Once, Closing
  <2>3. Account'
    BY <1>6 DEF StartFuncPanic, Goto, Return, TypeOK, Once, Account, Progress, Async
  <2>4. Progress'
    BY <1>6 DEF StartFuncPanic, Goto, Return, TypeOK, OnceState, Once, Closing, Account, Progress, Async
  <2>5. QED
    BY <2>1, <2>2, <2>3, <2>4
<1>7. CASE CloseCall(c)
  <2>1. TypeOK'
    BY <1>7 DEF CloseCall, Goto, Return, TypeOK, OnceState, Once, Account, Progress, Closing, Async
  <2>2. Once'
    BY <1>7 DEF CloseCall, Goto, Return, TypeOK, OnceState, Once, Closing
  <2>3. Account'
    BY <1>7 DEF CloseCall, Goto, Return, TypeOK, Once, Account, Progress, Async
  <2>4. Progress'
    BY <1>7 DEF CloseCall, Goto, Return, TypeOK, OnceState, Once, Closing, Account, Progress, Async
  <2>5. QED
    BY <2>1, <2>2, <2>3, <2>4
<1>8. CASE CloseFirst(c)
  <2>1. TypeOK'
    BY <1>8 DEF CloseFirst, Goto, Return, TypeOK, OnceState, Once, Account, Progress, Closing, Async
  <2>2. Once'
    BY <1>8 DEF CloseFirst, Goto, Return, TypeOK, OnceState, Once, Closing
  <2>3. Account'
    BY <1>8 DEF CloseFirst, Goto, Return, TypeOK, Once, Account, Progress, Async
  <2>4. Progress'
    BY <1>8 DEF CloseFirst, Goto, Return, TypeOK, OnceState, Once, Closing, Account, Progress, Async
  <2>5. QED
    BY <2>1, <2>2, <2>3, <2>4
<1>9. CASE CloseLater(c)
  <2>1. TypeOK'
    BY <1>9 DEF CloseLater, Goto, Return, TypeOK, OnceState, Once, Account, Progress, Closing, Async
  <2>2. Once'
    BY <1>9 DEF CloseLater, Goto, Return, TypeOK, OnceState, Once, Closing
  <2>3. Account'
    BY <1>9 DEF CloseLater, Goto, Return, TypeOK, Once, Account, Progress, Async
  <2>4. Progress'
    BY <1>9 DEF CloseLater, Goto, Return, TypeOK, OnceState, Once, Closing, Account, Progress, Async
  <2>5. QED
    BY <2>1, <2>2, <2>3, <2>4
<1>10. CASE CloseNeverStarted(c)
  <2>1. TypeOK'
    BY <1>10 DEF CloseNeverStarted, Goto, Return, TypeOK, OnceState, Once, Account, Progress, Closing, Async
  <2>2. Once'
    BY <1>10 DEF CloseNeverStarted, Goto, Return, TypeOK, OnceState, Once, Closing
  <2>3. Account'
    BY <1>10 DEF CloseNeverStarted, Goto, Return, TypeOK, Once, Account, Progress, Async
  <2>4. Progress'
    BY <1>10 DEF CloseNeverStarted, Goto, Return, TypeOK, OnceState, Once, Closing, Account, Progress, Async
  <2>5. QED
    BY <2>1, <2>2, <2>3, <2>4
<1>11. CASE CloseStarted(c)
  <2>1. TypeOK'
    BY <1>11 DEF CloseStarted, Goto, Return, TypeOK, OnceState, Once, Account, Progress, Closing, Async
  <2>2. Once'
    BY <1>11 DEF CloseStarted, Goto, Return, TypeOK, OnceState, Once, Closing
  <2>3. Account'
    BY <1>11 DEF CloseStarted, Goto, Return, TypeOK, Once, Account, Progress, Async
  <2>4. Progress'
    BY <1>11 DEF CloseStarted, Goto, Return, TypeOK, OnceState, Once, Closing, Account, Progress, Async
  <2>5. QED
    BY <2>1, <2>2, <2>3, <2>4
<1>12. CASE CloseRelease(c)
  <2>1. TypeOK'
    BY <1>12 DEF CloseRelease, Goto, Return, TypeOK, OnceState, Once, Account, Progress, Closing, Async
  <2>2. Once'
    BY <1>12 DEF CloseRelease, Goto, Return, TypeOK, OnceState, Once, Closing
  <2>3. Account'
    BY <1>12 DEF CloseRelease, Goto, Return, TypeOK, Once, Account, Progress, Async
  <2>4. Progress'
    BY <1>12 DEF CloseRelease, Goto, Return, TypeOK, OnceState, Once, Closing, Account, Progress, Async
  <2>5. QED
    BY <2>1, <2>2, <2>3, <2>4
<1>13. CASE CloseReturn(c)
  <2>1. TypeOK'
    BY <1>13 DEF CloseReturn, Goto, Return, TypeOK, OnceState, Once, Account, Progress, Closing, Async
  <2>2. Once'
    BY <1>13 DEF CloseReturn, Goto, Return, TypeOK, OnceState, Once, Closing
  <2>3. Account'
    BY <1>13 DEF CloseReturn, Goto, Return, TypeOK, Once, Account, Progress, Async
  <2>4. Progress'
    BY <1>13 DEF CloseReturn, Goto, Return, TypeOK, OnceState, Once, Closing, Account, Progress, Async
  <2>5. QED
    BY <2>1, <2>2, <2>3, <2>4
<1>14. QED
  BY <1>1, <1>2, <1>3, <1>4, <1>5, <1>6, <1>7, <1>8, <1>9, <1>10, <1>11, <1>12, <1>13 DEF Start, Close

\* Every step of a caller or of the goroutine keeps it.
LEMMA NextInv ==
    IInv /\ [Next]_vars => IInv'
<1> SUFFICES ASSUME IInv, [Next]_vars PROVE IInv'
  OBVIOUS
<1>1. CASE Next
  BY <1>1, ProcessInv, CallerInv DEF Next
<1>2. CASE UNCHANGED vars
  BY <1>2 DEF vars, IInv, TypeOK, Once, Account, Progress, Async
<1>3. QED
  BY <1>1, <1>2

\* So it holds of every manager, at any time, whoever calls Start and Close.
THEOREM InductiveInvariant == Spec => []IInv
BY InitInv, NextInv, PTL DEF Spec

\* The types hold for every set of callers; no manager releases an instance
\* twice.
THEOREM TypeCorrectness == Spec => []TypeOK
<1>1. IInv => TypeOK
  BY DEF IInv
<1>2. QED
  BY <1>1, InductiveInvariant, PTL

\* close(doneChan) is executed at most once, whoever gets there first.
THEOREM DoneChannelClosedOnce == Spec => []DoneClosedOnce
<1>1. IInv => DoneClosedOnce
  BY DEF IInv, TypeOK, Account, DoneClosedOnce
<1>2. QED
  BY <1>1, InductiveInvariant, PTL

\* Once an asynchronous manager has begun to release its instance, neither
\* startFunc nor Step runs on it.
THEOREM ReleaseIsLast == Spec => []NothingRunsAfterRelease
<1>1. IInv => NothingRunsAfterRelease
  BY DEF IInv, TypeOK, OnceState, Once, Account, NothingRunsAfterRelease
<1>2. QED
  BY <1>1, InductiveInvariant, PTL

\* A Close that returned leaves a released instance behind, whichever call
\* did the work.
THEOREM CloseWaitsForRelease == Spec => []ClosedMeansReleased
<1>1. IInv => ClosedMeansReleased
  BY DEF IInv, Once, Progress, Closing, ClosedMeansReleased
<1>2. QED
  BY <1>1, InductiveInvariant, PTL

\* Multiples, step by step and in order.
LEMMA Multiples ==
    ASSUME NEW i \in Int, NEW n \in Int, NEW f \in Nat
    PROVE  /\ i * f \in Int /\ i * f - f = (i - 1) * f /\ 0 * f = 0 /\ 1 * f = f
           /\ 0 <= i => 0 <= i * f
           /\ i <= n => i * f <= n * f
<1>1. i * f \in Int /\ i * f - f = (i - 1) * f
  OBVIOUS
<1>2. 0 * f = 0 /\ 1 * f = f
  OBVIOUS
<1>3. ASSUME NEW k \in Nat PROVE 0 <= k * f
  OBVIOUS
<1>4. 0 <= i => 0 <= i * f
  BY <1>3
<1>5. i <= n => i * f <= n * f
  <2> SUFFICES ASSUME i <= n PROVE i * f <= n * f
    OBVIOUS
  <2>1. n - i \in Nat
    OBVIOUS
  <2>2. 0 <= (n - i) * f
    BY <1>3, <2>1
  <2>3. (n - i) * f = n * f - i * f
    OBVIOUS
  <2> QED
    BY <2>2, <2>3
<1> QED
  BY <1>1, <1>2, <1>4, <1>5

\* What division leaves.
LEMMA Divides ==
    ASSUME NEW a \in Nat, NEW f \in Nat \ {0}
    PROVE  \E q \in Nat, r \in 0 .. f - 1 : q = a \div f /\ r = a % f /\ a = q * f + r
<1>1. PICK q \in Int : q = a \div f
  OBVIOUS
<1>2. PICK r \in 0 .. f - 1 : r = a % f
  OBVIOUS
<1>3. a = f * q + r
  BY <1>1, <1>2
<1>4. a = q * f + r
  BY <1>3
<1>5. q >= 0
  <2>1. SUFFICES ASSUME q <= -1 PROVE FALSE
    OBVIOUS
  <2>2. f * q <= f * (-1)
    BY <2>1
  <2> QED
    BY <1>3, <2>2
<1>6. q \in Nat
  BY <1>5
<1> QED
  BY <1>1, <1>2, <1>4, <1>6

\* The times of a packet's frames are even, from the clock or from the source.
LEMMA TimesAre ==
    ASSUME NEW n \in Nat, NEW from \in Int, NEW src \in Int,
           n >= 1 => Clocked(from, src) + (n - 1) * FrameDur - src <= MaxDrift
    PROVE  Times(n, from, src) = [i \in 1 .. n |-> Clocked(from, src) + (i - 1) * FrameDur]
<1> DEFINE G(h) == [i \in 1 .. n |->
                      Clocked(IF i = 1 THEN from ELSE h[i - 1] + FrameDur, src)]
           F == [i \in 1 .. n |-> Clocked(from, src) + (i - 1) * FrameDur]
<1>0. FrameDur \in Nat /\ MaxDrift \in Nat
  BY CodersAssumption
<1>1. PICK base \in Int : base = Clocked(from, src) /\ src - base <= MaxDrift
  BY <1>0 DEF Clocked, Apart
<1>2. ASSUME NEW i \in 1 .. n
      PROVE  /\ F[i] = base + (i - 1) * FrameDur /\ F[i] \in Int
             /\ src - F[i] <= MaxDrift /\ F[i] - src <= MaxDrift
             /\ i > 1 => i - 1 \in 1 .. n /\ F[i] = F[i - 1] + FrameDur
             /\ i = 1 => F[i] = base
  <2>1. F[i] = base + (i - 1) * FrameDur
    BY <1>1
  <2>2. /\ (i - 1) * FrameDur \in Int /\ 0 <= (i - 1) * FrameDur
        /\ (i - 1) * FrameDur <= (n - 1) * FrameDur
        /\ (i - 1) * FrameDur - FrameDur = (i - 1 - 1) * FrameDur
        /\ (n - 1) * FrameDur \in Int
    <3>1. i - 1 \in Int /\ n - 1 \in Int /\ 0 <= i - 1 /\ i - 1 <= n - 1
      OBVIOUS
    <3> QED
      BY <1>0, <3>1, Multiples
  <2>3. src - F[i] <= MaxDrift /\ F[i] \in Int
    BY <1>0, <1>1, <2>1, <2>2
  <2>4. F[i] - src <= MaxDrift
    <3>1. base + (n - 1) * FrameDur - src <= MaxDrift
      BY <1>1
    <3> QED
      BY <1>0, <1>1, <2>1, <2>2, <3>1
  <2>5. i > 1 => i - 1 \in 1 .. n /\ F[i] = F[i - 1] + FrameDur
    <3>1. i > 1 => i - 1 \in 1 .. n /\ F[i - 1] = base + (i - 1 - 1) * FrameDur
      BY <1>1
    <3> QED
      BY <1>0, <1>1, <2>1, <2>2, <3>1
  <2>6. i = 1 => F[i] = base
    BY <1>0, <1>1, <2>1, Multiples
  <2> QED
    BY <2>1, <2>3, <2>4, <2>5, <2>6
<1>3. F = G(F)
  <2> SUFFICES ASSUME NEW i \in 1 .. n
               PROVE  F[i] = Clocked(IF i = 1 THEN from ELSE F[i - 1] + FrameDur, src)
    BY Zenon
  <2> HIDE DEF F
  <2>1. CASE i = 1
    BY <1>1, <1>2, <2>1
  <2>2. CASE i # 1
    <3>1. F[i] = F[i - 1] + FrameDur
      BY <1>2, <2>2
    <3>2. Clocked(F[i], src) = F[i]
      <4>1. F[i] \in Int /\ src - F[i] <= MaxDrift /\ F[i] - src <= MaxDrift
        BY <1>2
      <4>2. ~ Apart(src, F[i])
        BY <1>0, <4>1 DEF Apart
      <4> QED
        BY <4>2 DEF Clocked
    <3> QED
      BY <2>2, <3>1, <3>2
  <2> QED
    BY <2>1, <2>2
<1>4. ASSUME NEW h, h = G(h)
      PROVE  h = F
  <2> DEFINE S == {k \in Nat : \A i \in 1 .. n : i <= k => h[i] = F[i]}
  <2>0. \A i \in 1 .. n : h[i] = G(h)[i] /\ F[i] = G(F)[i]
    BY <1>3, <1>4, Zenon
  <2>1. 0 \in S
    OBVIOUS
  <2>2. ASSUME NEW k \in S
        PROVE  k + 1 \in S
    <3> SUFFICES ASSUME NEW i \in 1 .. n, i <= k + 1
                 PROVE  h[i] = F[i]
      OBVIOUS
    <3>1. /\ h[i] = Clocked(IF i = 1 THEN from ELSE h[i - 1] + FrameDur, src)
          /\ F[i] = Clocked(IF i = 1 THEN from ELSE F[i - 1] + FrameDur, src)
      BY <2>0
    <3>2. i # 1 => h[i - 1] = F[i - 1]
      <4>1. i # 1 => i - 1 \in 1 .. n /\ i - 1 <= k
        OBVIOUS
      <4> HIDE DEF F
      <4> QED
        BY <4>1
    <3> HIDE DEF F
    <3> QED
      BY <3>1, <3>2
  <2>3. S = Nat
    <3>1. S \in SUBSET Nat
      OBVIOUS
    <3> HIDE DEF S
    <3> QED
      BY <2>1, <2>2, <3>1, InductionOnNat
  <2>4. ASSUME NEW i \in 1 .. n
        PROVE  h[i] = F[i]
    <3> HIDE DEF F, S
    <3>1. i \in S /\ i <= i
      BY <2>3
    <3> QED
      BY <3>1 DEF S
  <2>5. h = [i \in 1 .. n |-> h[i]] /\ F = [i \in 1 .. n |-> F[i]]
    BY <1>4
  <2> HIDE DEF F, S
  <2> QED
    BY <2>4, <2>5
<1>5. Times(n, from, src) = CHOOSE h : h = G(h)
  BY DEF Times
<1> HIDE DEF F, G
<1>6. (CHOOSE h : h = G(h)) = F
  BY <1>3, <1>4
<1> QED
  BY <1>5, <1>6 DEF F

-----------------------------------------------------------------------------
(* The inductive invariant of the coders *)

Par == CodecPars \cup {NoPar}
InnerOf == [par : Par, ok : BOOLEAN, fed : Seq(Nat)]
CoderOf == [par : Par, inner : InnerOf, open : Int, running : BOOLEAN, hasKey : BOOLEAN,
            on : BOOLEAN, ts : Int, samples : Nat]
SentOf == [par : CodecPars, key : BOOLEAN, ts : Nat, releases : Nat]
MadeOf == [pkt : Nat, by : InnerOf, ts : Int, releases : Nat]
Places == {"select", "pause", "send", "release", "drain", "empty", "drainout", "closed"}
Opened == {"select", "pause", "send", "release"}

CoderShape ==
    /\ coder \in Coders /\ stamped \in Stamps /\ at \in Places
    /\ d \in CoderOf /\ sent \in Seq(SentOf) /\ made \in Seq(MadeOf)
    /\ inp \in Seq(Nat) /\ outp \in Seq(Nat) /\ batch \in Seq(Nat) /\ hand \in Nat
    /\ got \subseteq Nat /\ early \subseteq Nat

\* The packets of the channel are the last that were sent; of those taken one may
\* be in hand, and the others were given back.
Taken == Len(sent) - Len(inp)
SourceTime(n) == IF n = 0 THEN 0 ELSE sent[n].ts
Queue ==
    /\ Taken \in Nat /\ \A k \in 1 .. Len(inp) : inp[k] = Taken + k
    /\ IF at = "send" THEN hand = Taken /\ Taken >= 1 ELSE hand = 0
    /\ \A i \in 1 .. Len(sent) :
          /\ sent[i].releases = IF i <= Taken /\ i # hand THEN 1 ELSE 0
          /\ sent[i].ts >= SourceTime(i - 1) + PacketDur
    /\ early \subseteq 1 .. Len(sent)
    /\ at \in {"empty", "drainout", "closed"} => \A i \in early : i <= Taken
    /\ \A i \in 1 .. Len(made) : made[i].pkt \in 1 .. Taken

\* The outputs wait in batch, then in the channel, in the order they were made.
Pending == Len(made) - Len(batch)
In(seq, x) == \E k \in 1 .. Len(seq) : seq[k] = x
Outputs ==
    /\ Pending \in Nat
    /\ IF at = "send" THEN Len(batch) >= 1 ELSE batch = <<>>
    /\ \A k \in 1 .. Len(batch) : batch[k] = Pending + k
    /\ \A k \in 1 .. Len(outp) : outp[k] \in 1 .. Pending /\ outp[k] \notin got
    /\ \A j, k \in 1 .. Len(outp) : j < k => outp[j] < outp[k]
    /\ got \subseteq 1 .. Pending
    /\ coder = "audio" =>
          /\ Len(batch) <= 1
          /\ \A i \in 1 .. Len(made) :
                made[i].releases = IF i > Pending \/ i \in got \/ In(outp, i) THEN 0 ELSE 1

\* A running video decoder was made for the current parameters and was fed nothing,
\* or all packets from a keyframe to the last that was taken.
Follows(fed, n, all) ==
    /\ fed # <<>> /\ Len(fed) <= n /\ all[n - Len(fed) + 1].key
    /\ \A j \in 1 .. Len(fed) : fed[j] = n - Len(fed) + j
Decodable(m, all) == m.by.ok /\ m.by.par = all[m.pkt].par /\ Follows(m.by.fed, m.pkt, all)
Off(s) == ~ s.running /\ s.inner = NoInner /\ s.open = 0
Runs(s) == s.running /\ s.inner.ok /\ s.inner.par = s.par /\ s.open = 1
Unfed(s) == Runs(s) /\ ~ s.hasKey /\ s.inner.fed = <<>>
FedUpTo(s, n, all) == Runs(s) /\ s.hasKey /\ Follows(s.inner.fed, n, all)
Decoder ==
    /\ Off(d) \/ Unfed(d) \/ FedUpTo(d, Taken, sent)
    /\ ~ d.on => Off(d)
    /\ at = "pause" => ~ d.on
    /\ at = "send" => d.on
    /\ at \notin Opened => Off(d)
Video == coder = "video" => Decoder /\ \A i \in 1 .. Len(made) : Decodable(made[i], sent)

\* The clock of an encoder, with what it has not put in a frame yet, is not ahead of
\* its source by more than a packet and a frame.
Clock ==
    /\ d.samples < FrameDur
    /\ d.ts + d.samples < SourceTime(Taken) + PacketDur + FrameDur
    /\ made # <<>> => made[Len(made)].ts + FrameDur <= d.ts
    /\ \A i \in 1 .. Len(made) :
          /\ ~ Apart(made[i].ts, sent[made[i].pkt].ts)
          /\ i > 1 => made[i - 1].ts < made[i].ts
Encoder ==
    coder = "encoder" =>
        /\ at # "pause"
        /\ d.open = IF at \in Opened THEN 1 ELSE 0
        /\ stamped => Clock

CoderIInv == CoderShape /\ Queue /\ Outputs /\ Video /\ Encoder

-----------------------------------------------------------------------------
(* Inner codecs *)

\* No inner codec is one that is not initialised.
LEMMA NoInnerIs == NoInner \in InnerOf /\ NoInner.ok = FALSE /\ NoPar \in Par
BY DEF NoInner, InnerOf, Par

WithInner(s, i, n) == [s EXCEPT !.inner = i, !.open = n]

\* A coder with another inner codec.
LEMMA WithInnerIs ==
    ASSUME NEW s \in CoderOf, NEW i \in InnerOf, NEW n \in Int
    PROVE  /\ WithInner(s, i, n) \in CoderOf
           /\ WithInner(s, i, n).inner = i /\ WithInner(s, i, n).open = n
           /\ WithInner(s, i, n).par = s.par
BY DEF CoderOf, WithInner

\* A decoder that is stopped has no inner decoder.
LEMMA StopDecoderIs ==
    ASSUME NEW s \in CoderOf, s.open = IF s.inner = NoInner THEN 0 ELSE 1
    PROVE  /\ StopDecoder(s) \in CoderOf /\ Off(StopDecoder(s))
           /\ StopDecoder(s).par = s.par /\ (s.on => StopDecoder(s).on)
           /\ (~ s.on => ~ StopDecoder(s).on)
<1>1. NoInner \in InnerOf
  BY NoInnerIs
<1>2. CASE s.inner = NoInner
  <2>1. PICK t : t = [s EXCEPT !.running = FALSE]
    OBVIOUS
  <2>2. /\ t \in CoderOf /\ t.running = FALSE /\ t.inner = s.inner /\ t.open = s.open
        /\ t.par = s.par /\ (s.on => t.on) /\ (~ s.on => ~ t.on)
    BY <2>1 DEF CoderOf
  <2>3. StopDecoder(s) = t
    BY <1>2, <2>1 DEF StopDecoder
  <2> QED
    BY <1>2, <2>2, <2>3 DEF Off
<1>3. CASE s.inner # NoInner
  <2>1. PICK t : t = [Closed(s) EXCEPT !.running = FALSE]
    OBVIOUS
  <2>a. PICK c : c = [s EXCEPT !.inner = NoInner, !.open = @ - 1]
    OBVIOUS
  <2>b. c = Closed(s)
    BY <2>a DEF Closed
  <2>h. s.open - 1 \in Int /\ s.open \in Int
    BY DEF CoderOf
  <2>c. c \in CoderOf /\ c.inner = NoInner /\ c.open = s.open - 1 /\ c.par = s.par
    <3>1. PICK n \in Int : n = s.open - 1
      BY <2>h
    <3>2. c = WithInner(s, NoInner, n)
      BY <2>a, <3>1 DEF WithInner
    <3> QED
      BY <1>1, <3>1, <3>2, WithInnerIs
  <2>d. (s.on => c.on) /\ (~ s.on => ~ c.on)
    BY <2>a DEF CoderOf
  <2>e. t = [c EXCEPT !.running = FALSE]
    BY <2>1, <2>b
  <2>f. t \in CoderOf /\ t.running = FALSE /\ t.inner = NoInner /\ t.open = s.open - 1 /\ t.par = s.par
    BY <2>c, <2>e DEF CoderOf
  <2>g. (c.on => t.on) /\ (~ c.on => ~ t.on)
    BY <2>c, <2>e DEF CoderOf
  <2>2. /\ t \in CoderOf /\ t.running = FALSE /\ t.inner = NoInner /\ t.open = s.open - 1
        /\ t.par = s.par /\ (s.on => t.on) /\ (~ s.on => ~ t.on)
    BY <2>d, <2>f, <2>g
  <2>3. StopDecoder(s) = t
    BY <1>3, <2>1 DEF StopDecoder
  <2> QED
    BY <1>3, <2>2, <2>3 DEF Off
<1> QED
  BY <1>2, <1>3

\* A start gives an inner decoder for the parameters, or leaves none.
LEMMA StartedIs ==
    ASSUME NEW s \in CoderOf, Off(s), NEW ok \in BOOLEAN
    PROVE  /\ Started(s, ok) \in CoderOf /\ (Off(Started(s, ok)) \/ Unfed(Started(s, ok)))
           /\ Started(s, ok).par = s.par /\ (s.on => Started(s, ok).on)
           /\ (~ s.on => ~ Started(s, ok).on)
<1>1. NoInner \in InnerOf /\ s.inner = NoInner /\ s.open = 0 /\ ~ s.running /\ s.par \in Par
  BY NoInnerIs DEF Off, CoderOf
<1>2. CASE NoDecoder(s)
  <2>1. StartDecoder(s, ok) = s
    BY <1>2 DEF StartDecoder
  <2>2. Started(s, ok) = StopDecoder(s)
    BY <1>1, <2>1 DEF Started
  <2> QED
    BY <1>1, <2>2, StopDecoderIs
<1>3. CASE ~ NoDecoder(s)
  <2>0. [par |-> s.par, ok |-> ok, fed |-> <<>>] \in InnerOf
    <3>1. <<>> \in Seq(Nat)
      OBVIOUS
    <3> QED
      BY <1>1, <3>1 DEF InnerOf
  <2>1. PICK i \in InnerOf : i = [par |-> s.par, ok |-> ok, fed |-> <<>>]
    BY <2>0
  <2>2. i.par = s.par /\ i.fed = <<>> /\ (ok => i.ok) /\ s.par # NoPar /\ i # NoInner
    BY <1>3, <2>1 DEF NoDecoder, NoInner
  <2>3. PICK m : m = [s EXCEPT !.inner = i, !.open = @ + 1]
    OBVIOUS
  <2>4. m = Made(s, ok)
    BY <2>1, <2>3 DEF Made
  <2>5. PICK t : t = [m EXCEPT !.running = ok, !.hasKey = @ /\ ~ok]
    OBVIOUS
  <2>6. StartDecoder(s, ok) = t
    BY <1>3, <2>4, <2>5 DEF StartDecoder
  <2>7. /\ m \in CoderOf /\ m.inner = i /\ m.open = 1 /\ m.par = s.par
        /\ (s.on => m.on) /\ (~ s.on => ~ m.on)
    <3>0. m = WithInner(s, i, 1)
      BY <1>1, <2>3 DEF WithInner
    <3>1. m \in CoderOf /\ m.inner = i /\ m.open = 1 /\ m.par = s.par
      BY <3>0, WithInnerIs
    <3>2. (s.on => m.on) /\ (~ s.on => ~ m.on)
      BY <2>3 DEF CoderOf
    <3> QED
      BY <3>1, <3>2
  <2>8. /\ t \in CoderOf /\ t.inner = i /\ t.open = 1 /\ t.par = s.par
        /\ (s.on => t.on) /\ (~ s.on => ~ t.on)
        /\ (ok => t.running /\ ~ t.hasKey) /\ (~ ok => ~ t.running)
    BY <2>5, <2>7 DEF CoderOf
  <2>9. CASE ok
    <3>1. Started(s, ok) = t
      BY <2>6, <2>8, <2>9 DEF Started
    <3>2. Unfed(t)
      BY <2>2, <2>8, <2>9 DEF Unfed, Runs
    <3> QED
      BY <2>8, <3>1, <3>2
  <2>10. CASE ~ ok
    <3>1. Started(s, ok) = StopDecoder(t)
      BY <2>6, <2>8, <2>10 DEF Started
    <3>2. t.open = IF t.inner = NoInner THEN 0 ELSE 1
      BY <2>2, <2>8
    <3>3. /\ StopDecoder(t) \in CoderOf /\ Off(StopDecoder(t)) /\ StopDecoder(t).par = t.par
          /\ (t.on => StopDecoder(t).on) /\ (~ t.on => ~ StopDecoder(t).on)
      BY <2>8, <3>2, StopDecoderIs
    <3> QED
      BY <2>8, <3>1, <3>3
  <2> QED
    BY <2>9, <2>10
<1> QED
  BY <1>2, <1>3

\* So does a restart.
LEMMA RestartedIs ==
    ASSUME NEW s \in CoderOf, s.open = IF s.inner = NoInner THEN 0 ELSE 1, NEW ok \in BOOLEAN
    PROVE  /\ Restarted(s, ok) \in CoderOf /\ (Off(Restarted(s, ok)) \/ Unfed(Restarted(s, ok)))
           /\ Restarted(s, ok).par = s.par /\ (s.on => Restarted(s, ok).on)
           /\ (~ s.on => ~ Restarted(s, ok).on)
<1>1. PICK t : t = StopDecoder(s)
  OBVIOUS
<1>2. /\ t \in CoderOf /\ Off(t) /\ t.par = s.par /\ (s.on => t.on) /\ (~ s.on => ~ t.on)
  BY <1>1, StopDecoderIs
<1>3. Restarted(s, ok) = Started(t, ok)
  BY <1>1 DEF Restarted
<1> QED
  BY <1>2, <1>3, StartedIs

-----------------------------------------------------------------------------
(* Packets *)

\* Packets keep what is in them.
Same(a, b) == a.par = b.par /\ a.ts = b.ts /\ (b.key => a.key)
SentKept == /\ sent' \in Seq(SentOf) /\ Len(sent) <= Len(sent')
            /\ \A i \in 1 .. Len(sent) : Same(sent'[i], sent[i])

\* Giving a packet back counts its release and changes nothing else.
LEMMA GiveBackIs ==
    ASSUME CoderShape, NEW i \in 1 .. Len(sent), GiveBack(i)
    PROVE  /\ SentKept /\ Len(sent') = Len(sent)
           /\ \A j \in 1 .. Len(sent) :
                 /\ sent'[j].releases = IF j = i THEN sent[j].releases + 1 ELSE sent[j].releases
                 /\ sent'[j].ts = sent[j].ts
<1>1. sent \in Seq(SentOf) /\ Len(sent) \in Nat
  BY DEF CoderShape
<1>2. sent' = [sent EXCEPT ![i].releases = @ + 1]
  BY DEF GiveBack
<1>3. PICK p \in SentOf : p = sent[i]
  BY <1>1
<1>4. PICK q : q = [p EXCEPT !.releases = @ + 1]
  OBVIOUS
<1>5. q \in SentOf /\ q.releases = p.releases + 1 /\ Same(q, p)
  BY <1>4 DEF SentOf, Same
<1>6. sent' = [sent EXCEPT ![i] = q]
  BY <1>2, <1>3, <1>4
<1>7. /\ sent' \in Seq(SentOf) /\ Len(sent') = Len(sent) /\ sent'[i] = q
      /\ \A j \in 1 .. Len(sent) : j # i => sent'[j] = sent[j]
  BY <1>1, <1>5, <1>6
<1>8. ASSUME NEW j \in 1 .. Len(sent)
      PROVE  /\ Same(sent'[j], sent[j])
             /\ sent'[j].releases = IF j = i THEN sent[j].releases + 1 ELSE sent[j].releases
             /\ sent'[j].ts = sent[j].ts
  <2>1. CASE j = i
    BY <1>3, <1>5, <1>7, <2>1 DEF Same
  <2>2. CASE j # i
    BY <1>7, <2>2 DEF Same
  <2> QED
    BY <2>1, <2>2
<1> QED
  BY <1>1, <1>7, <1>8 DEF SentKept

\* Packets that are left alone are kept.
LEMMA SentSame ==
    ASSUME CoderShape, sent' = sent
    PROVE  SentKept
BY DEF CoderShape, SentKept, Same

\* The packet at the head of the channel is the next one.
LEMMA TakingIs ==
    ASSUME CoderShape, Queue, inp # <<>>
    PROVE  /\ Head(inp) = Taken + 1 /\ Taken \in Nat /\ Taken + 1 \in 1 .. Len(sent)
           /\ Tail(inp) \in Seq(Nat) /\ Len(sent) - Len(Tail(inp)) = Taken + 1
           /\ \A k \in 1 .. Len(Tail(inp)) : Tail(inp)[k] = Taken + 1 + k
<1>1. /\ inp \in Seq(Nat) /\ Len(inp) \in Nat /\ Len(inp) >= 1 /\ Len(sent) \in Nat
      /\ Taken \in Nat /\ Taken = Len(sent) - Len(inp)
      /\ \A k \in 1 .. Len(inp) : inp[k] = Taken + k
  BY DEF CoderShape, Queue, Taken
<1>2. PICK n \in Nat : n = Taken
  BY <1>1
<1>3. Head(inp) = inp[1] /\ inp[1] = n + 1
  BY <1>1, <1>2
<1>4. /\ Tail(inp) \in Seq(Nat) /\ Len(Tail(inp)) = Len(inp) - 1
      /\ \A k \in 1 .. Len(Tail(inp)) : Tail(inp)[k] = inp[k + 1] /\ k + 1 \in 1 .. Len(inp)
  BY <1>1
<1>5. \A k \in 1 .. Len(Tail(inp)) : Tail(inp)[k] = n + 1 + k
  BY <1>1, <1>2, <1>4
<1> QED
  BY <1>1, <1>2, <1>3, <1>4, <1>5

\* What SourceTime says is what it said.
LEMMA SourceTimesKept ==
    ASSUME CoderShape, SentKept
    PROVE  /\ \A n \in 0 .. Len(sent) : SourceTime(n)' = SourceTime(n) /\ SourceTime(n) \in Nat
           /\ \A n \in 0 .. Len(sent') : SourceTime(n)' \in Nat
<1>0. /\ sent \in Seq(SentOf) /\ Len(sent) \in Nat /\ sent' \in Seq(SentOf) /\ Len(sent') \in Nat
      /\ Len(sent) <= Len(sent')
  BY DEF CoderShape, SentKept
<1>1. ASSUME NEW n \in 1 .. Len(sent)
      PROVE  sent'[n].ts = sent[n].ts /\ sent[n].ts \in Nat
  <2>1. Same(sent'[n], sent[n]) /\ sent[n] \in SentOf
    BY <1>0 DEF SentKept
  <2> QED
    BY <2>1 DEF Same, SentOf
<1>2. ASSUME NEW n \in 1 .. Len(sent')
      PROVE  sent'[n].ts \in Nat
  <2>1. sent'[n] \in SentOf
    BY <1>0
  <2> QED
    BY <2>1 DEF SentOf
<1>3. ASSUME NEW n \in 0 .. Len(sent)
      PROVE  SourceTime(n)' = SourceTime(n) /\ SourceTime(n) \in Nat
  <2>1. CASE n = 0
    BY <2>1 DEF SourceTime
  <2>2. CASE n # 0
    <3>1. n \in 1 .. Len(sent)
      BY <1>0, <2>2
    <3> QED
      BY <1>1, <2>2, <3>1 DEF SourceTime
  <2> QED
    BY <2>1, <2>2
<1>4. ASSUME NEW n \in 0 .. Len(sent')
      PROVE  SourceTime(n)' \in Nat
  <2>1. CASE n = 0
    BY <2>1 DEF SourceTime
  <2>2. CASE n # 0
    <3>1. n \in 1 .. Len(sent')
      BY <1>0, <2>2
    <3> QED
      BY <1>2, <2>2, <3>1 DEF SourceTime
  <2> QED
    BY <2>1, <2>2
<1> QED
  BY <1>3, <1>4

Over == {"empty", "drainout", "closed"}

\* A packet is taken and given back.
LEMMA TakenBack ==
    ASSUME CoderShape, Queue, inp # <<>>, inp' = Tail(inp), at # "send", at' # "send",
           GiveBack(Head(inp)), hand' = 0, UNCHANGED early, at' \in Over => at \in Over,
           \A i \in 1 .. Len(made') : made'[i].pkt \in 1 .. Taken + 1
    PROVE  Queue' /\ SentKept /\ Taken' = Taken + 1 /\ Len(sent') = Len(sent) /\ inp' \in Seq(Nat)
<1>1. PICK n \in Nat : n = Taken
  BY DEF Queue
<1>2. /\ Head(inp) = n + 1 /\ n + 1 \in 1 .. Len(sent)
      /\ Tail(inp) \in Seq(Nat) /\ Len(sent) - Len(Tail(inp)) = n + 1
      /\ \A k \in 1 .. Len(Tail(inp)) : Tail(inp)[k] = n + 1 + k
  BY <1>1, TakingIs
<1>3. GiveBack(n + 1)
  BY <1>2
<1>4. /\ SentKept /\ Len(sent') = Len(sent)
      /\ \A j \in 1 .. Len(sent) :
            /\ sent'[j].releases = IF j = n + 1 THEN sent[j].releases + 1 ELSE sent[j].releases
            /\ sent'[j].ts = sent[j].ts
  BY <1>2, <1>3, GiveBackIs
<1>5. Taken' = n + 1
  BY <1>2, <1>4 DEF Taken
<1>6. ASSUME NEW i \in 1 .. Len(sent)
      PROVE  /\ sent'[i].releases = IF i <= n + 1 THEN 1 ELSE 0
             /\ sent'[i].ts >= SourceTime(i - 1)' + PacketDur
  <2>1. sent[i].releases = IF i <= n THEN 1 ELSE 0
    BY <1>1 DEF Queue
  <2>2. sent[i].ts >= SourceTime(i - 1) + PacketDur
    BY DEF Queue
  <2>3. SourceTime(i - 1)' = SourceTime(i - 1)
    <3>1. i - 1 \in 0 .. Len(sent)
      OBVIOUS
    <3> QED
      BY <1>4, <3>1, SourceTimesKept
  <2>4. sent'[i].releases = IF i <= n + 1 THEN 1 ELSE 0
    BY <1>4, <2>1
  <2> QED
    BY <1>4, <2>2, <2>3, <2>4
<1>7. early \subseteq 1 .. Len(sent) /\ (at' \in Over => \A i \in early : i <= n)
  BY <1>1 DEF Queue, Over
<1>8. /\ Taken' \in Nat /\ \A k \in 1 .. Len(inp') : inp'[k] = Taken' + k
  BY <1>2, <1>5
<1>9. at' \in Over => \A i \in early : i <= n + 1
  BY <1>1, <1>7
<1>10. \A i \in 1 .. Len(sent') :
          /\ sent'[i].releases = IF i <= Taken' /\ i # hand' THEN 1 ELSE 0
          /\ sent'[i].ts >= SourceTime(i - 1)' + PacketDur
  BY <1>4, <1>5, <1>6
<1>11. \A i \in 1 .. Len(made') : made'[i].pkt \in 1 .. Taken'
  BY <1>1, <1>5
<1> QED
  BY <1>1, <1>2, <1>4, <1>5, <1>7, <1>8, <1>9, <1>10, <1>11 DEF Queue, Over

\* A packet is taken, and its outputs are to be sent.
LEMMA TakenInHand ==
    ASSUME CoderShape, Queue, inp # <<>>, inp' = Tail(inp), at = "select", at' = "send",
           hand' = Head(inp), UNCHANGED <<sent, early>>,
           \A i \in 1 .. Len(made') : made'[i].pkt \in 1 .. Taken + 1
    PROVE  Queue' /\ SentKept /\ Taken' = Taken + 1 /\ inp' \in Seq(Nat) /\ hand' \in Nat
<1>1. PICK n \in Nat : n = Taken
  BY DEF Queue
<1>2. /\ Head(inp) = n + 1 /\ n + 1 \in 1 .. Len(sent)
      /\ Tail(inp) \in Seq(Nat) /\ Len(sent) - Len(Tail(inp)) = n + 1
      /\ \A k \in 1 .. Len(Tail(inp)) : Tail(inp)[k] = n + 1 + k
  BY <1>1, TakingIs
<1>3. Taken' = n + 1
  BY <1>2 DEF Taken
<1>4. \A i \in 1 .. Len(sent) :
          /\ sent[i].releases = IF i <= n THEN 1 ELSE 0
          /\ sent[i].ts >= SourceTime(i - 1) + PacketDur
  BY <1>1 DEF Queue
<1>5. \A i \in 1 .. Len(sent') :
          /\ sent'[i].releases = IF i <= Taken' /\ i # hand' THEN 1 ELSE 0
          /\ sent'[i].ts >= SourceTime(i - 1)' + PacketDur
  BY <1>2, <1>3, <1>4 DEF SourceTime
<1>6. early' \subseteq 1 .. Len(sent')
  BY DEF Queue
<1>7. \A i \in 1 .. Len(made') : made'[i].pkt \in 1 .. Taken'
  BY <1>1, <1>3
<1> QED
  BY <1>1, <1>2, <1>3, <1>5, <1>6, <1>7, SentSame DEF Queue

\* The packet in hand is given back.
LEMMA HandBack ==
    ASSUME CoderShape, Queue, at = "send", at' # "send", at' \notin Over, GiveBack(hand), hand' = 0,
           inp' = inp, early' \subseteq 1 .. Len(sent),
           \A i \in 1 .. Len(made') : made'[i].pkt \in 1 .. Taken
    PROVE  Queue' /\ SentKept /\ Taken' = Taken /\ Len(sent') = Len(sent)
<1>1. PICK n \in Nat : n = Taken /\ n = hand /\ n \in 1 .. Len(sent)
  BY DEF Queue, Taken, CoderShape
<1>2. GiveBack(n)
  BY <1>1
<1>3. /\ SentKept /\ Len(sent') = Len(sent)
      /\ \A j \in 1 .. Len(sent) :
            /\ sent'[j].releases = IF j = n THEN sent[j].releases + 1 ELSE sent[j].releases
            /\ sent'[j].ts = sent[j].ts
  BY <1>1, <1>2, GiveBackIs
<1>4. Taken' = n
  BY <1>1, <1>3 DEF Taken
<1>5. ASSUME NEW i \in 1 .. Len(sent)
      PROVE  /\ sent'[i].releases = IF i <= n THEN 1 ELSE 0
             /\ sent'[i].ts >= SourceTime(i - 1)' + PacketDur
  <2>1. sent[i].releases = IF i <= n /\ i # n THEN 1 ELSE 0
    BY <1>1 DEF Queue
  <2>2. sent[i].ts >= SourceTime(i - 1) + PacketDur
    BY DEF Queue
  <2>3. SourceTime(i - 1)' = SourceTime(i - 1)
    <3>1. i - 1 \in 0 .. Len(sent)
      OBVIOUS
    <3> QED
      BY <1>3, <3>1, SourceTimesKept
  <2>4. sent'[i].releases = IF i <= n THEN 1 ELSE 0
    BY <1>3, <2>1
  <2> QED
    BY <1>3, <2>2, <2>3, <2>4
<1>6. \A i \in 1 .. Len(sent') :
          /\ sent'[i].releases = IF i <= Taken' /\ i # hand' THEN 1 ELSE 0
          /\ sent'[i].ts >= SourceTime(i - 1)' + PacketDur
  BY <1>3, <1>4, <1>5
<1>7. Taken' \in Nat /\ \A k \in 1 .. Len(inp') : inp'[k] = Taken' + k
  BY <1>1, <1>4 DEF Queue
<1>8. \A i \in 1 .. Len(made') : made'[i].pkt \in 1 .. Taken'
  BY <1>1, <1>4
<1> QED
  BY <1>1, <1>3, <1>4, <1>6, <1>7, <1>8 DEF Queue, Over

\* Nothing happens to the packets.
LEMMA QueueKept ==
    ASSUME CoderShape, Queue, UNCHANGED <<sent, inp, hand>>, at' = "send" <=> at = "send",
           early' \subseteq 1 .. Len(sent), at' \in Over => \A i \in early' : i <= Taken,
           \A i \in 1 .. Len(made') : made'[i].pkt \in 1 .. Taken
    PROVE  Queue' /\ SentKept /\ Taken' = Taken
<1>1. Taken' = Taken
  BY DEF Taken
<1>2. \A n : SourceTime(n)' = SourceTime(n)
  BY DEF SourceTime
<1> QED
  BY <1>1, <1>2, SentSame DEF Queue, Over

-----------------------------------------------------------------------------
(* Outputs *)

\* Outputs keep what is in them.
MadeKept == /\ made' \in Seq(MadeOf) /\ Len(made') = Len(made)
            /\ \A i \in 1 .. Len(made) :
                  made'[i].pkt = made[i].pkt /\ made'[i].by = made[i].by /\ made'[i].ts = made[i].ts

\* Outputs that are left alone are kept.
LEMMA MadeSame ==
    ASSUME CoderShape, made' = made
    PROVE  MadeKept
BY DEF CoderShape, MadeKept

\* Giving an output back counts its release and changes nothing else.
LEMMA OutputReleased ==
    ASSUME CoderShape, NEW i \in 1 .. Len(made), made' = [made EXCEPT ![i].releases = @ + 1]
    PROVE  /\ MadeKept /\ made'[i].releases = made[i].releases + 1
           /\ \A j \in 1 .. Len(made) : j # i => made'[j] = made[j]
<1>1. made \in Seq(MadeOf) /\ Len(made) \in Nat
  BY DEF CoderShape
<1>2. PICK p \in MadeOf : p = made[i]
  BY <1>1
<1>3. PICK q : q = [p EXCEPT !.releases = @ + 1]
  OBVIOUS
<1>4. q \in MadeOf /\ q.releases = p.releases + 1 /\ q.pkt = p.pkt /\ q.by = p.by /\ q.ts = p.ts
  BY <1>3 DEF MadeOf
<1>5. made' = [made EXCEPT ![i] = q]
  BY <1>2, <1>3
<1>6. /\ made' \in Seq(MadeOf) /\ Len(made') = Len(made) /\ made'[i] = q
      /\ \A j \in 1 .. Len(made) : j # i => made'[j] = made[j]
  BY <1>1, <1>4, <1>5
<1>7. \A j \in 1 .. Len(made) :
         made'[j].pkt = made[j].pkt /\ made'[j].by = made[j].by /\ made'[j].ts = made[j].ts
  BY <1>2, <1>4, <1>6
<1> QED
  BY <1>2, <1>4, <1>6, <1>7 DEF MadeKept

\* The outputs of a packet are new ones, and wait in batch.
LEMMA OfferIs ==
    ASSUME CoderShape, Outputs, at # "send", NEW s \in CoderOf, NEW n \in Nat \ {0},
           NEW times \in [1 .. n -> Int], Offer(s, times), Head(inp) \in Nat,
           UNCHANGED <<outp, got, coder>>, coder = "audio" => n = 1
    PROVE  /\ Outputs' /\ made' \in Seq(MadeOf) /\ batch' \in Seq(Nat)
           /\ at' = "send" /\ hand' = Head(inp) /\ sent' = sent
           /\ Len(made') = Len(made) + n
           /\ \A i \in 1 .. Len(made) : made'[i] = made[i]
           /\ \A i \in 1 .. n : /\ made'[Len(made) + i].pkt = Head(inp)
                                /\ made'[Len(made) + i].by = s.inner
                                /\ made'[Len(made) + i].ts = times[i]
<1> DEFINE New(i) == [pkt |-> Head(inp), by |-> s.inner, ts |-> times[i], releases |-> 0]
<1>1. made \in Seq(MadeOf) /\ batch = <<>> /\ Len(batch) = 0 /\ Pending = Len(made)
  BY DEF CoderShape, Outputs, Pending
<1>2. PICK l \in Nat : l = Len(made)
  BY <1>1
<1>3. PICK new : new = [i \in 1 .. n |-> New(i)]
  OBVIOUS
<1>4. \A i \in 1 .. n : New(i) \in MadeOf
  <2>1. s.inner \in InnerOf
    BY DEF CoderOf
  <2> QED
    BY <2>1 DEF MadeOf
<1>5. new \in Seq(MadeOf) /\ Len(new) = n
  BY <1>3, <1>4
<1>6. DOMAIN times = 1 .. n
  OBVIOUS
<1>7. made' = made \o new /\ batch' = [i \in 1 .. n |-> l + i]
  BY <1>2, <1>3, <1>6 DEF Offer
<1>8. /\ made' \in Seq(MadeOf) /\ Len(made') = l + n
      /\ \A i \in 1 .. l : made'[i] = made[i]
      /\ \A i \in 1 .. n : made'[l + i] = new[i]
  <2>1. made' = made \o new /\ made \in Seq(MadeOf) /\ new \in Seq(MadeOf) /\ Len(new) = n
    BY <1>1, <1>5, <1>7
  <2>2. /\ made \o new \in Seq(MadeOf) /\ Len(made \o new) = Len(made) + Len(new)
        /\ \A i \in 1 .. Len(made) + Len(new) :
              (made \o new)[i] = IF i <= Len(made) THEN made[i] ELSE new[i - Len(made)]
    BY <2>1, ConcatProperties
  <2>3. \A i \in 1 .. n : l + i \in 1 .. l + n /\ ~ (l + i <= l) /\ l + i - l = i
    BY <1>2
  <2>4. \A i \in 1 .. l : i \in 1 .. l + n /\ i <= l
    BY <1>2
  <2>5. made' \in Seq(MadeOf) /\ Len(made') = l + n
    BY <1>2, <2>1, <2>2
  <2>6. ASSUME NEW i \in 1 .. l PROVE made'[i] = made[i]
    BY <1>2, <2>1, <2>2, <2>4
  <2>7. ASSUME NEW i \in 1 .. n PROVE made'[l + i] = new[i]
    BY <1>2, <2>1, <2>2, <2>3
  <2> QED
    BY <2>5, <2>6, <2>7
<1>9. batch' \in Seq(Nat) /\ Len(batch') = n /\ \A k \in 1 .. n : batch'[k] = l + k
  BY <1>2, <1>7
<1>10. Pending' = l
  BY <1>8, <1>9 DEF Pending
<1>11. at' = "send" /\ hand' = Head(inp) /\ sent' = sent
  BY DEF Offer
<1>12. \A i \in 1 .. n : /\ made'[l + i].pkt = Head(inp) /\ made'[l + i].by = s.inner
                         /\ made'[l + i].ts = times[i] /\ made'[l + i].releases = 0
  <2> SUFFICES ASSUME NEW i \in 1 .. n
               PROVE  /\ made'[l + i].pkt = Head(inp) /\ made'[l + i].by = s.inner
                      /\ made'[l + i].ts = times[i] /\ made'[l + i].releases = 0
    OBVIOUS
  <2>1. made'[l + i] = New(i)
    BY <1>3, <1>8
  <2> QED
    BY <2>1
<1>13. Outputs'
  <2>1. /\ \A k \in 1 .. Len(outp) : outp[k] \in 1 .. l /\ outp[k] \notin got
        /\ \A j, k \in 1 .. Len(outp) : j < k => outp[j] < outp[k]
        /\ got \subseteq 1 .. l
    BY <1>1, <1>2 DEF Outputs
  <2>2. ASSUME coder = "audio", NEW i \in 1 .. Len(made')
        PROVE  made'[i].releases = IF i > l \/ i \in got \/ In(outp, i) THEN 0 ELSE 1
    <3>1. CASE i <= l
      <4>1. made[i].releases = IF i > l \/ i \in got \/ In(outp, i) THEN 0 ELSE 1
        BY <1>1, <1>2, <2>2, <3>1 DEF Outputs
      <4> QED
        BY <1>8, <3>1, <4>1
    <3>2. CASE i > l
      <4>1. PICK k \in 1 .. n : i = l + k
        <5>1. i - l \in 1 .. n /\ i = l + (i - l)
          BY <1>8, <3>2
        <5> QED
          BY <5>1
      <4> QED
        BY <1>12, <3>2, <4>1
    <3> QED
      BY <3>1, <3>2
  <2>3. ASSUME coder' = "audio"
        PROVE  /\ Len(batch') <= 1
               /\ \A i \in 1 .. Len(made') :
                     made'[i].releases = IF i > l \/ i \in got' \/ In(outp', i) THEN 0 ELSE 1
    BY <1>9, <2>2, <2>3
  <2> QED
    BY <1>2, <1>9, <1>10, <1>11, <2>1, <2>3 DEF Outputs, In
<1> QED
  BY <1>2, <1>8, <1>9, <1>11, <1>12, <1>13

\* Nothing happens to the outputs.
LEMMA OutputsKept ==
    ASSUME Outputs, UNCHANGED <<made, batch, outp, got, coder>>, at' = "send" <=> at = "send"
    PROVE  Outputs'
BY DEF Outputs, Pending, In

\* The first of the outputs that wait goes into the channel.
SendsFirst ==
    /\ at = "send" /\ outp' = Append(outp, Head(batch)) /\ batch' = Tail(batch)
    /\ at' = IF Len(batch) > 1 THEN "send" ELSE "select"

\* The others stay in order, and so does the channel.
LEMMA SentOut ==
    ASSUME CoderShape, Outputs, SendsFirst, UNCHANGED <<made, got, coder>>
    PROVE  Outputs' /\ outp' \in Seq(Nat) /\ batch' \in Seq(Nat)
<1>1. PICK n \in Nat : n = Pending
  BY DEF Outputs
<1>2. /\ batch \in Seq(Nat) /\ Len(batch) \in Nat /\ Len(batch) >= 1
      /\ \A k \in 1 .. Len(batch) : batch[k] = n + k
      /\ Len(made) \in Nat /\ n = Len(made) - Len(batch)
  BY <1>1 DEF CoderShape, Outputs, Pending, SendsFirst
<1>3. Head(batch) = n + 1
  BY <1>2
<1>4. /\ batch' \in Seq(Nat) /\ Len(batch') = Len(batch) - 1
      /\ \A k \in 1 .. Len(batch') : batch'[k] = batch[k + 1] /\ k + 1 \in 1 .. Len(batch)
  <2>1. batch # <<>> /\ batch' = Tail(batch)
    BY <1>2 DEF SendsFirst
  <2> QED
    BY <1>2, <2>1
<1>5. Pending' = n + 1
  BY <1>2, <1>4 DEF Pending
<1>6. ASSUME NEW k \in 1 .. Len(batch')
      PROVE  batch'[k] = n + 1 + k
  <2>1. k \in Int /\ k + 1 \in 1 .. Len(batch) /\ batch'[k] = batch[k + 1]
    BY <1>4
  <2>2. batch[k + 1] = n + (k + 1)
    BY <1>2, <2>1
  <2> QED
    BY <2>1, <2>2
<1>7. outp \in Seq(Nat) /\ Len(outp) \in Nat
  BY DEF CoderShape
<1>8. /\ outp' \in Seq(Nat) /\ Len(outp') = Len(outp) + 1 /\ outp'[Len(outp) + 1] = n + 1
      /\ \A k \in 1 .. Len(outp) : outp'[k] = outp[k]
  <2>1. outp' = Append(outp, n + 1)
    BY <1>3 DEF SendsFirst
  <2> QED
    BY <1>7, <2>1
<1>9. /\ \A k \in 1 .. Len(outp) : outp[k] \in 1 .. n /\ outp[k] \notin got
      /\ \A j, k \in 1 .. Len(outp) : j < k => outp[j] < outp[k]
      /\ got \subseteq 1 .. n
  BY <1>1 DEF Outputs
<1>10. ASSUME NEW k \in 1 .. Len(outp')
       PROVE  outp'[k] \in 1 .. n + 1 /\ outp'[k] \notin got
  <2>1. CASE k \in 1 .. Len(outp)
    BY <1>8, <1>9, <2>1
  <2>2. CASE k = Len(outp) + 1
    BY <1>8, <1>9, <2>2
  <2> QED
    BY <1>7, <1>8, <2>1, <2>2
<1>11. ASSUME NEW j \in 1 .. Len(outp'), NEW k \in 1 .. Len(outp'), j < k
       PROVE  outp'[j] < outp'[k]
  <2>0. j \in 1 .. Len(outp)
    BY <1>7, <1>8, <1>11
  <2>1. CASE k \in 1 .. Len(outp)
    BY <1>8, <1>9, <1>11, <2>0, <2>1
  <2>2. CASE k = Len(outp) + 1
    BY <1>8, <1>9, <2>0, <2>2
  <2> QED
    BY <1>7, <1>8, <2>1, <2>2
<1>12. \A i \in Nat : In(outp', i) <=> In(outp, i) \/ i = n + 1
  <2> SUFFICES ASSUME NEW i \in Nat
               PROVE  In(outp', i) <=> In(outp, i) \/ i = n + 1
    OBVIOUS
  <2>1. ASSUME NEW k \in 1 .. Len(outp'), outp'[k] = i
        PROVE  In(outp, i) \/ i = n + 1
    <3>1. k \in 1 .. Len(outp) \/ k = Len(outp) + 1
      BY <1>7, <1>8
    <3> QED
      BY <1>8, <2>1, <3>1 DEF In
  <2>2. ASSUME NEW k \in 1 .. Len(outp), outp[k] = i
        PROVE  In(outp', i)
    <3>1. k \in 1 .. Len(outp') /\ outp'[k] = i
      BY <1>7, <1>8, <2>2
    <3> QED
      BY <3>1 DEF In
  <2>3. i = n + 1 => In(outp', i)
    <3>1. Len(outp) + 1 \in 1 .. Len(outp')
      BY <1>7, <1>8
    <3> QED
      BY <1>8, <3>1 DEF In
  <2> QED
    BY <2>1, <2>2, <2>3 DEF In
<1>13. ASSUME coder = "audio"
       PROVE  /\ Len(batch') <= 1
              /\ \A i \in 1 .. Len(made') :
                    made'[i].releases = IF i > n + 1 \/ i \in got' \/ In(outp', i) THEN 0 ELSE 1
  <2>1. Len(batch) = 1
    <3>1. Len(batch) <= 1
      BY <1>13 DEF Outputs
    <3>2. PICK m \in Nat : m = Len(batch) /\ m >= 1
      BY <1>2
    <3> QED
      BY <3>1, <3>2
  <2>2. ASSUME NEW i \in 1 .. Len(made)
        PROVE  made[i].releases = IF i > n + 1 \/ i \in got \/ In(outp', i) THEN 0 ELSE 1
    <3>1. made[i].releases = IF i > n \/ i \in got \/ In(outp, i) THEN 0 ELSE 1
      BY <1>1, <1>13 DEF Outputs
    <3>3. i \in Nat
      BY <1>2
    <3>2. i > n <=> i = n + 1 \/ i > n + 1
      BY <1>1, <3>3
    <3> QED
      BY <1>12, <3>1, <3>2, <3>3
  <2> QED
    BY <1>2, <1>4, <2>1, <2>2
<1>14. IF at' = "send" THEN Len(batch') >= 1 ELSE batch' = <<>>
  BY <1>2, <1>4 DEF SendsFirst
<1>15. got' \subseteq 1 .. n + 1 /\ got' = got /\ coder' = coder
  BY <1>1, <1>9
<1>16. \A i : In(outp, i)' <=> In(outp', i)
  BY DEF In
<1>17. coder' = "audio" =>
          /\ Len(batch') <= 1
          /\ \A i \in 1 .. Len(made') :
                made'[i].releases = IF i > Pending' \/ i \in got' \/ In(outp', i) THEN 0 ELSE 1
  BY <1>5, <1>13, <1>15
<1>18. /\ Pending' \in Nat /\ \A k \in 1 .. Len(batch') : batch'[k] = Pending' + k
       /\ \A k \in 1 .. Len(outp') : outp'[k] \in 1 .. Pending' /\ outp'[k] \notin got'
       /\ got' \subseteq 1 .. Pending'
  BY <1>5, <1>6, <1>10, <1>15
<1> QED
  BY <1>4, <1>8, <1>11, <1>14, <1>16, <1>17, <1>18 DEF Outputs

\* The output at the head of the channel is in it once.
LEMMA FirstOut ==
    ASSUME CoderShape, Outputs, outp # <<>>
    PROVE  /\ Head(outp) \in 1 .. Pending /\ Head(outp) \notin got /\ ~ In(Tail(outp), Head(outp))
           /\ Tail(outp) \in Seq(Nat)
           /\ \A k \in 1 .. Len(Tail(outp)) :
                 /\ Tail(outp)[k] \in 1 .. Pending /\ Tail(outp)[k] \notin got
                 /\ Tail(outp)[k] # Head(outp)
           /\ \A j, k \in 1 .. Len(Tail(outp)) : j < k => Tail(outp)[j] < Tail(outp)[k]
           /\ \A i : In(outp, i) <=> i = Head(outp) \/ In(Tail(outp), i)
<1>1. PICK n \in Nat : n = Pending
  BY DEF Outputs
<1>2. outp \in Seq(Nat) /\ Len(outp) \in Nat /\ Len(outp) >= 1
  BY DEF CoderShape
<1>3. PICK t \in Seq(Nat) :
         /\ t = Tail(outp) /\ Len(t) = Len(outp) - 1
         /\ \A k \in 1 .. Len(t) : t[k] = outp[k + 1] /\ k + 1 \in 1 .. Len(outp)
  <2>1. /\ Tail(outp) \in Seq(Nat) /\ Len(Tail(outp)) = Len(outp) - 1
        /\ \A k \in 1 .. Len(Tail(outp)) :
              Tail(outp)[k] = outp[k + 1] /\ k + 1 \in 1 .. Len(outp)
    BY <1>2
  <2> QED
    BY <2>1
<1>4. /\ Len(t) = Len(outp) - 1
      /\ \A k \in 1 .. Len(t) : t[k] = outp[k + 1] /\ k + 1 \in 1 .. Len(outp)
  BY <1>3
<1>5. PICK h : h = Head(outp) /\ h = outp[1]
  <2>1. Head(outp) = outp[1]
    BY <1>2
  <2> QED
    BY <2>1
<1>6. 1 \in 1 .. Len(outp)
  BY <1>2
<1>7. /\ \A k \in 1 .. Len(outp) : outp[k] \in 1 .. n /\ outp[k] \notin got
      /\ \A j, k \in 1 .. Len(outp) : j < k => outp[j] < outp[k]
  BY <1>1 DEF Outputs
<1>8. h \in 1 .. n /\ h \notin got
  BY <1>5, <1>6, <1>7
<1>9. ASSUME NEW k \in 1 .. Len(t)
      PROVE  t[k] \in 1 .. n /\ t[k] \notin got /\ t[k] # h
  <2>1. k + 1 \in 1 .. Len(outp) /\ t[k] = outp[k + 1] /\ 1 < k + 1
    BY <1>4
  <2>2. outp[1] < outp[k + 1] /\ outp[k + 1] \in 1 .. n /\ outp[k + 1] \notin got
    BY <1>6, <1>7, <2>1
  <2> QED
    BY <1>5, <1>8, <2>1, <2>2
<1>10. ASSUME NEW j \in 1 .. Len(t), NEW k \in 1 .. Len(t), j < k
       PROVE  t[j] < t[k]
  <2>1. /\ j + 1 \in 1 .. Len(outp) /\ t[j] = outp[j + 1]
        /\ k + 1 \in 1 .. Len(outp) /\ t[k] = outp[k + 1] /\ j + 1 < k + 1
    BY <1>4, <1>10
  <2> QED
    BY <1>7, <2>1
<1>11. ASSUME NEW i
       PROVE  In(outp, i) <=> i = h \/ In(t, i)
  <2>1. ASSUME NEW k \in 1 .. Len(outp), outp[k] = i
        PROVE  i = h \/ In(t, i)
    <3>1. CASE k = 1
      BY <1>5, <2>1, <3>1
    <3>2. CASE k # 1
      <4>1. k - 1 \in 1 .. Len(t) /\ k - 1 + 1 = k
        BY <1>2, <1>4, <3>2
      <4>2. t[k - 1] = i
        BY <1>4, <2>1, <4>1
      <4> QED
        BY <4>1, <4>2 DEF In
    <3> QED
      BY <3>1, <3>2
  <2>2. ASSUME NEW k \in 1 .. Len(t), t[k] = i
        PROVE  In(outp, i)
    <3>1. k + 1 \in 1 .. Len(outp) /\ outp[k + 1] = i
      BY <1>4, <2>2
    <3> QED
      BY <3>1 DEF In
  <2>3. i = h => In(outp, i)
    BY <1>5, <1>6 DEF In
  <2> QED
    BY <2>1, <2>2, <2>3 DEF In
<1>12. ~ In(t, h)
  BY <1>9 DEF In
<1> QED
  BY <1>1, <1>3, <1>5, <1>8, <1>9, <1>10, <1>11, <1>12

\* It is received.
Receives == outp # <<>> /\ got' = got \union {Head(outp)} /\ outp' = Tail(outp)

\* It has one owner then, the consumer.
LEMMA Received ==
    ASSUME CoderShape, Outputs, Receives, UNCHANGED <<coder, at, batch, made>>
    PROVE  Outputs' /\ outp' \in Seq(Nat) /\ got' \subseteq Nat
<1>1. PICK n \in Nat, h \in Nat, t \in Seq(Nat) : n = Pending /\ h = Head(outp) /\ t = Tail(outp)
  <2>1. Pending \in Nat /\ Head(outp) \in Nat /\ Tail(outp) \in Seq(Nat)
    <3>1. outp # <<>>
      BY DEF Receives
    <3>2. Head(outp) \in 1 .. Pending /\ Tail(outp) \in Seq(Nat) /\ Pending \in Nat
      BY <3>1, FirstOut DEF Outputs
    <3> QED
      BY <3>2
  <2> QED
    BY <2>1
<1>2. outp' = t /\ got' = got \union {h}
  BY <1>1 DEF Receives
<1>3. /\ h \in 1 .. n /\ ~ In(t, h)
      /\ \A k \in 1 .. Len(t) : t[k] \in 1 .. n /\ t[k] \notin got /\ t[k] # h
      /\ \A j, k \in 1 .. Len(t) : j < k => t[j] < t[k]
      /\ \A i : In(outp, i) <=> i = h \/ In(t, i)
  BY <1>1, FirstOut DEF Receives
<1>4. Pending' = n /\ got \subseteq 1 .. n
  BY <1>1 DEF Pending, Outputs
<1>5. \A i \in 1 .. Len(made) :
         coder = "audio" =>
            made[i].releases = IF i > n \/ i \in got' \/ In(t, i) THEN 0 ELSE 1
  <2>1. \A i \in 1 .. Len(made) :
         coder = "audio" =>
            made[i].releases = IF i > n \/ i \in got \/ In(outp, i) THEN 0 ELSE 1
    BY <1>1 DEF Outputs
  <2> QED
    BY <1>2, <1>3, <2>1
<1>6. /\ \A k \in 1 .. Len(t) : t[k] \in 1 .. n /\ t[k] \notin got'
      /\ got' \subseteq 1 .. n /\ got' \subseteq Nat
  BY <1>2, <1>3, <1>4
<1>7. /\ IF at = "send" THEN Len(batch) >= 1 ELSE batch = <<>>
      /\ \A k \in 1 .. Len(batch) : batch[k] = n + k
      /\ coder = "audio" => Len(batch) <= 1
  BY <1>1 DEF Outputs
<1>8. \A i : In(outp, i)' <=> In(outp', i)
  BY DEF In
<1> QED
  BY <1>1, <1>2, <1>3, <1>4, <1>5, <1>6, <1>7, <1>8 DEF Outputs

\* It is given back, by the drain of Release.
Drains ==
    /\ at = "drainout" /\ at' = at /\ outp # <<>> /\ outp' = Tail(outp)
    /\ made' = [made EXCEPT ![Head(outp)].releases = @ + 1]

\* It has none then, and was released once.
LEMMA Drained ==
    ASSUME CoderShape, Outputs, Drains, UNCHANGED <<coder, batch, got>>
    PROVE  Outputs' /\ MadeKept /\ outp' \in Seq(Nat)
<1>1. PICK n \in Nat, h \in Nat, t \in Seq(Nat) : n = Pending /\ h = Head(outp) /\ t = Tail(outp)
  <2>1. Pending \in Nat /\ Head(outp) \in Nat /\ Tail(outp) \in Seq(Nat)
    BY FirstOut DEF Outputs, Drains
  <2> QED
    BY <2>1
<1>2. outp' = t /\ made' = [made EXCEPT ![h].releases = @ + 1] /\ at = "drainout" /\ at' = at
  BY <1>1 DEF Drains
<1>3. /\ h \in 1 .. n /\ h \notin got /\ ~ In(t, h)
      /\ \A k \in 1 .. Len(t) : t[k] \in 1 .. n /\ t[k] \notin got
      /\ \A j, k \in 1 .. Len(t) : j < k => t[j] < t[k]
      /\ \A i : In(outp, i) <=> i = h \/ In(t, i)
  BY <1>1, FirstOut DEF Drains
<1>4. batch = <<>> /\ n = Len(made) /\ got \subseteq 1 .. n
  <2>1. batch = <<>> /\ Len(batch) = 0 /\ Len(made) \in Nat
    BY <1>2 DEF Outputs, CoderShape
  <2> QED
    BY <1>1, <2>1 DEF Pending, Outputs
<1>5. /\ MadeKept /\ made'[h].releases = made[h].releases + 1
      /\ \A j \in 1 .. Len(made) : j # h => made'[j] = made[j]
  BY <1>2, <1>3, <1>4, OutputReleased
<1>6. Len(made') = n /\ Pending' = n
  <2>1. Len(made') = Len(made)
    BY <1>5 DEF MadeKept
  <2>2. batch' = batch
    OBVIOUS
  <2> QED
    BY <1>1, <1>4, <2>1, <2>2 DEF Pending
<1>7. ASSUME NEW i \in 1 .. n, coder = "audio"
      PROVE  made'[i].releases = IF i > n \/ i \in got \/ In(t, i) THEN 0 ELSE 1
  <2>1. made[i].releases = IF i > n \/ i \in got \/ In(outp, i) THEN 0 ELSE 1
    BY <1>1, <1>4, <1>7 DEF Outputs
  <2>2. CASE i = h
    <3>1. made[h].releases = 0
      BY <1>3, <2>1, <2>2
    <3>2. made'[h].releases = 1
      BY <1>5, <3>1
    <3> QED
      BY <1>3, <2>2, <3>2
  <2>3. CASE i # h
    BY <1>3, <1>4, <1>5, <2>1, <2>3
  <2> QED
    BY <2>2, <2>3
<1>8. \A i : In(outp, i)' <=> In(outp', i)
  BY DEF In
<1>9. Len(batch') = 0 /\ batch' = <<>> /\ got' = got /\ coder' = coder
  BY <1>4
<1>10. coder' = "audio" =>
          /\ Len(batch') <= 1
          /\ \A i \in 1 .. Len(made') :
                made'[i].releases = IF i > Pending' \/ i \in got' \/ In(outp', i) THEN 0 ELSE 1
  BY <1>2, <1>6, <1>7, <1>9
<1>11. \A k \in 1 .. Len(outp') : outp'[k] \in 1 .. Pending' /\ outp'[k] \notin got'
  BY <1>2, <1>3, <1>6, <1>9
<1>12. Pending' \in Nat /\ got' \subseteq 1 .. Pending' /\ at' # "send"
  BY <1>2, <1>4, <1>6, <1>9
<1>13. \A k \in 1 .. Len(batch') : batch'[k] = Pending' + k
  BY <1>9
<1> QED
  BY <1>2, <1>3, <1>5, <1>8, <1>9, <1>10, <1>11, <1>12, <1>13 DEF Outputs

\* Stopped with outputs to be sent: the audio decoder gives its slot back.
StopsSending ==
    /\ at = "send" /\ at' = "release" /\ batch' = <<>>
    /\ made' = IF coder = "audio" THEN [made EXCEPT ![Head(batch)].releases = @ + 1] ELSE made

\* Nothing waits then, and the slot is released once.
LEMMA Stopped ==
    ASSUME CoderShape, Outputs, StopsSending, UNCHANGED <<coder, outp, got>>
    PROVE  Outputs' /\ MadeKept
<1>1. PICK n \in Nat : n = Pending
  BY DEF Outputs
<1>2. PICK l \in Nat : l = Len(made)
  BY DEF CoderShape
<1>3. PICK b \in Nat : b = Len(batch) /\ n = l - b /\ b >= 1 /\ (coder = "audio" => b = 1)
  <2>1. Len(batch) \in Nat /\ Len(batch) >= 1 /\ (coder = "audio" => Len(batch) <= 1)
    BY DEF CoderShape, Outputs, StopsSending
  <2>2. n = l - Len(batch)
    BY <1>1, <1>2 DEF Pending
  <2>3. PICK b \in Nat : b = Len(batch)
    BY <2>1
  <2> QED
    BY <2>1, <2>2, <2>3
<1>4. Head(batch) = n + 1
  BY <1>1, <1>3 DEF Outputs, CoderShape
<1>5. /\ \A k \in 1 .. Len(outp) : outp[k] \in 1 .. n /\ outp[k] \notin got
      /\ \A j, k \in 1 .. Len(outp) : j < k => outp[j] < outp[k]
      /\ got \subseteq 1 .. n
  BY <1>1 DEF Outputs
<1>6. MadeKept /\ Len(made') = l
  <2>1. CASE coder = "audio"
    <3>0. made' = [made EXCEPT ![n + 1].releases = @ + 1]
      BY <1>4, <2>1 DEF StopsSending
    <3>1. n + 1 \in 1 .. Len(made)
      BY <1>2, <1>3
    <3>2. MadeKept
      BY <3>0, <3>1, OutputReleased
    <3> QED
      BY <1>2, <3>2 DEF MadeKept
  <2>2. CASE coder # "audio"
    BY <1>2, <2>2, MadeSame DEF StopsSending
  <2> QED
    BY <2>1, <2>2
<1>7. batch' = <<>> /\ Len(batch') = 0 /\ at' = "release" /\ outp' = outp /\ got' = got /\ coder' = coder
  BY DEF StopsSending
<1>8. Pending' = l
  BY <1>6, <1>7 DEF Pending
<1>9. ASSUME coder = "audio", NEW i \in 1 .. l
      PROVE  made'[i].releases = IF i > l \/ i \in got \/ In(outp, i) THEN 0 ELSE 1
  <2>0. l = n + 1
    BY <1>3, <1>9
  <2>1. made[i].releases = IF i > n \/ i \in got \/ In(outp, i) THEN 0 ELSE 1
    BY <1>1, <1>2, <1>9 DEF Outputs
  <2>2. n + 1 \in 1 .. Len(made) /\ made' = [made EXCEPT ![n + 1].releases = @ + 1]
    <3>1. made' = [made EXCEPT ![n + 1].releases = @ + 1]
      BY <1>4, <1>9 DEF StopsSending
    <3>2. n + 1 \in 1 .. Len(made)
      BY <1>2, <1>3
    <3> QED
      BY <3>1, <3>2
  <2>3. /\ made'[n + 1].releases = made[n + 1].releases + 1
        /\ \A j \in 1 .. Len(made) : j # n + 1 => made'[j] = made[j]
    BY <2>2, OutputReleased
  <2>4. CASE i = n + 1
    <3>1. made[n + 1].releases = 0
      BY <2>1, <2>4
    <3>2. i \notin got /\ ~ In(outp, i) /\ ~ (i > l)
      BY <1>5, <2>0, <2>4 DEF In
    <3> QED
      BY <2>3, <2>4, <3>1, <3>2
  <2>5. CASE i # n + 1
    <3>1. ~ (i > n) /\ ~ (i > l)
      BY <2>0, <2>5
    <3> QED
      BY <1>2, <2>1, <2>3, <2>5, <3>1
  <2> QED
    BY <2>4, <2>5
<1>10. \A i : In(outp, i)' <=> In(outp', i)
  BY DEF In
<1>11. coder' = "audio" =>
          /\ Len(batch') <= 1
          /\ \A i \in 1 .. Len(made') :
                made'[i].releases = IF i > Pending' \/ i \in got' \/ In(outp', i) THEN 0 ELSE 1
  BY <1>6, <1>7, <1>8, <1>9
<1>12. /\ \A k \in 1 .. Len(outp') : outp'[k] \in 1 .. Pending' /\ outp'[k] \notin got'
       /\ got' \subseteq 1 .. Pending'
  <2>1. n <= l
    BY <1>3
  <2> QED
    BY <1>5, <1>7, <1>8, <2>1
<1>13. \A k \in 1 .. Len(batch') : batch'[k] = Pending' + k
  BY <1>7
<1> QED
  BY <1>5, <1>6, <1>7, <1>8, <1>10, <1>11, <1>12, <1>13 DEF Outputs

-----------------------------------------------------------------------------
(* What the inner decoder was fed, and the clock *)

\* Packets are taken after they were sent.
LEMMA TakenIn ==
    ASSUME CoderShape, Queue
    PROVE  Taken \in 0 .. Len(sent) /\ Len(sent) \in Nat
<1>1. Len(sent) \in Nat /\ Len(inp) \in Nat /\ Taken \in Nat
  BY DEF Queue, CoderShape
<1>2. Taken = Len(sent) - Len(inp)
  BY DEF Taken
<1> QED
  BY <1>1, <1>2

\* What followed a keyframe still does.
LEMMA FollowsKept ==
    ASSUME CoderShape, SentKept, NEW fed \in Seq(Nat), NEW n \in 0 .. Len(sent), Follows(fed, n, sent)
    PROVE  Follows(fed, n, sent')
<1>1. PICK l \in Nat : l = Len(fed) /\ l >= 1 /\ l <= n
  <2>1. fed # <<>> /\ Len(fed) <= n /\ Len(fed) \in Nat
    BY DEF Follows
  <2>2. Len(fed) >= 1
    BY <2>1
  <2> QED
    BY <2>1, <2>2
<1>2. n - l + 1 \in 1 .. Len(sent)
  BY <1>1 DEF CoderShape
<1>3. sent'[n - l + 1].key
  <2>1. sent[n - l + 1].key
    BY <1>1 DEF Follows
  <2>2. Same(sent'[n - l + 1], sent[n - l + 1])
    BY <1>2 DEF SentKept
  <2> QED
    BY <2>1, <2>2 DEF Same
<1>4. fed # <<>> /\ l <= n /\ \A j \in 1 .. l : fed[j] = n - l + j
  BY <1>1 DEF Follows
<1> QED
  BY <1>1, <1>3, <1>4 DEF Follows

\* What was decodable still is.
LEMMA DecodableKept ==
    ASSUME CoderShape, Queue, SentKept, NEW i \in 1 .. Len(made), NEW m,
           Decodable(made[i], sent), m.pkt = made[i].pkt, m.by = made[i].by
    PROVE  Decodable(m, sent')
<1>1. PICK n \in Nat : n = made[i].pkt /\ n \in 1 .. Len(sent)
  <2>1. made[i].pkt \in 1 .. Taken /\ Len(sent) \in Nat /\ Len(inp) \in Nat /\ Taken \in Nat
    BY DEF Queue, CoderShape
  <2>2. Taken <= Len(sent)
    BY <2>1 DEF Taken
  <2> QED
    BY <2>1, <2>2
<1>2. PICK by \in InnerOf : by = made[i].by
  <2>1. made[i] \in MadeOf
    BY DEF CoderShape
  <2> QED
    BY <2>1 DEF MadeOf
<1>3. by.ok /\ by.par = sent[n].par /\ Follows(by.fed, n, sent)
  BY <1>1, <1>2 DEF Decodable
<1>4. by.fed \in Seq(Nat)
  BY DEF InnerOf
<1>5. Follows(by.fed, n, sent')
  BY <1>1, <1>3, <1>4, FollowsKept
<1>6. sent'[n].par = sent[n].par
  BY <1>1 DEF SentKept, Same
<1> QED
  BY <1>1, <1>2, <1>3, <1>5, <1>6 DEF Decodable

\* And so do all frames.
LEMMA DecodablesKept ==
    ASSUME CoderShape, Queue, SentKept, MadeKept, \A i \in 1 .. Len(made) : Decodable(made[i], sent)
    PROVE  \A i \in 1 .. Len(made') : Decodable(made'[i], sent')
<1> SUFFICES ASSUME NEW i \in 1 .. Len(made')
             PROVE  Decodable(made'[i], sent')
  OBVIOUS
<1>1. i \in 1 .. Len(made) /\ made'[i].pkt = made[i].pkt /\ made'[i].by = made[i].by
  BY DEF MadeKept
<1> QED
  BY <1>1, DecodableKept

\* The goroutine stays, goes back to its select, or ends its loop.
Stand == \/ at' = at
         \/ at \in Opened /\ at' \in {"select", "release"}
         \/ at \notin Opened /\ at' \notin Opened

\* The state of the decoder for a packet more, when it is off.
LEMMA DecoderKept ==
    ASSUME CoderShape, Queue, Decoder, SentKept, UNCHANGED d, Stand, Taken' = Taken \/ Off(d)
    PROVE  Decoder'
<1>1. Off(d)' <=> Off(d)
  BY DEF Off
<1>2. Unfed(d)' <=> Unfed(d)
  BY DEF Unfed, Runs
<1>3. ASSUME FedUpTo(d, Taken, sent), Taken' = Taken
      PROVE  FedUpTo(d, Taken, sent)'
  <2>1. PICK n \in 0 .. Len(sent) : n = Taken
    BY TakenIn
  <2>2. d.inner.fed \in Seq(Nat)
    BY DEF CoderShape, CoderOf, InnerOf
  <2>3. Runs(d) /\ d.hasKey /\ Follows(d.inner.fed, n, sent)
    BY <1>3, <2>1 DEF FedUpTo
  <2>4. Follows(d.inner.fed, n, sent')
    BY <2>1, <2>2, <2>3, FollowsKept
  <2>5. d' = d /\ Taken' = n
    BY <1>3, <2>1
  <2> QED
    BY <2>3, <2>4, <2>5 DEF FedUpTo, Runs, Follows
<1>4. (Off(d) \/ Unfed(d) \/ FedUpTo(d, Taken, sent))'
  BY <1>1, <1>2, <1>3 DEF Decoder
<1>5. ~ d'.on => Off(d)'
  BY <1>1 DEF Decoder
<1>6. at' = "pause" => ~ d'.on
  BY DEF Decoder, Stand, Opened
<1>7. at' = "send" => d'.on
  BY DEF Decoder, Stand, Opened
<1>8. at' \notin Opened => Off(d)'
  BY <1>1 DEF Decoder, Stand, Opened
<1> QED
  BY <1>4, <1>5, <1>6, <1>7, <1>8 DEF Decoder, Opened

\* Frames that were near their source still are, and in order.
Near == \A i \in 1 .. Len(made) :
           /\ ~ Apart(made[i].ts, sent[made[i].pkt].ts)
           /\ i > 1 => made[i - 1].ts < made[i].ts

\* They are, whatever is done to packets and outputs but to their times.
LEMMA NearKept ==
    ASSUME CoderShape, Queue, Near, SentKept, MadeKept
    PROVE  Near'
<1>0. Len(made') = Len(made) /\ Len(made) \in Nat
  BY DEF CoderShape, MadeKept
<1>1. ASSUME NEW i \in 1 .. Len(made)
      PROVE  /\ ~ Apart(made'[i].ts, sent'[made'[i].pkt].ts)
             /\ i > 1 => made'[i - 1].ts < made'[i].ts
  <2>1. made[i].pkt \in 1 .. Len(sent)
    <3>1. made[i].pkt \in 1 .. Taken /\ Len(sent) \in Nat /\ Len(inp) \in Nat /\ Taken \in Nat
      BY DEF Queue, CoderShape
    <3> QED
      BY <3>1 DEF Taken
  <2>2. sent'[made[i].pkt].ts = sent[made[i].pkt].ts
    BY <2>1 DEF SentKept, Same
  <2>3. made'[i].ts = made[i].ts /\ made'[i].pkt = made[i].pkt
    BY DEF MadeKept
  <2>4. i > 1 => i - 1 \in 1 .. Len(made) /\ made'[i - 1].ts = made[i - 1].ts
    BY <1>0 DEF MadeKept
  <2>5. ~ Apart(made[i].ts, sent[made[i].pkt].ts) /\ (i > 1 => made[i - 1].ts < made[i].ts)
    BY DEF Near
  <2> QED
    BY <2>2, <2>3, <2>4, <2>5
<1> QED
  BY <1>0, <1>1 DEF Near, Apart

\* The clock, when no frames are made.
LEMMA ClockIs ==
    ASSUME CoderShape, Queue, Clock, SentKept, MadeKept, d'.ts = d.ts, d'.samples < FrameDur,
           d'.ts + d'.samples < SourceTime(Taken)' + PacketDur + FrameDur
    PROVE  Clock'
<1>1. made' # <<>> => made'[Len(made')].ts + FrameDur <= d'.ts
  <2> SUFFICES ASSUME made' # <<>> PROVE made'[Len(made')].ts + FrameDur <= d'.ts
    OBVIOUS
  <2>1. Len(made') = Len(made) /\ made' \in Seq(MadeOf) /\ Len(made') >= 1 /\ made \in Seq(MadeOf)
    BY DEF MadeKept, CoderShape
  <2>2. made # <<>> /\ Len(made) \in 1 .. Len(made)
    BY <2>1
  <2>3. made'[Len(made)].ts = made[Len(made)].ts
    BY <2>2 DEF MadeKept
  <2> QED
    BY <2>1, <2>2, <2>3 DEF Clock
<1>2. Near'
  BY NearKept DEF Clock, Near
<1> QED
  BY <1>1, <1>2 DEF Clock, Near, SourceTime

\* The clock is no further ahead when the source goes on.
LEMMA ClockKept ==
    ASSUME CoderShape, Queue, Clock, SentKept, MadeKept, UNCHANGED stamped,
           d'.ts = d.ts, d'.samples \in Nat, d'.samples <= d.samples,
           \/ Taken' = Taken
           \/ Taken' = Taken + 1 /\ Taken + 1 <= Len(sent)
    PROVE  Clock'
<1>0. FrameDur \in Nat /\ PacketDur \in Nat
  BY CodersAssumption
<1>1. PICK n \in 0 .. Len(sent) : n = Taken /\ Len(sent) \in Nat
  BY TakenIn
<1>2. \A k \in 0 .. Len(sent) : SourceTime(k)' = SourceTime(k) /\ SourceTime(k) \in Nat
  BY SourceTimesKept
<1>3. PICK m \in 0 .. Len(sent) : m = Taken' /\ (m = n \/ m = n + 1)
  <2>1. CASE Taken' = Taken
    BY <1>1, <2>1
  <2>2. CASE Taken' = Taken + 1 /\ Taken + 1 <= Len(sent)
    <3>1. n + 1 \in 0 .. Len(sent) /\ Taken' = n + 1
      BY <1>1, <2>2
    <3> QED
      BY <3>1
  <2> QED
    BY <2>1, <2>2
<1>a. PICK s \in Nat, t \in Nat : s = SourceTime(n) /\ t = SourceTime(m)
  BY <1>2
<1>b. SourceTime(m)' = t
  BY <1>2, <1>a
<1>c. s <= t
  <2>1. CASE m = n
    BY <1>a, <2>1
  <2>2. CASE m = n + 1
    <3>1. m \in 1 .. Len(sent) /\ m - 1 = n /\ m # 0
      BY <1>1, <2>2
    <3>2. sent[m].ts >= SourceTime(m - 1) + PacketDur
      BY <3>1 DEF Queue
    <3>3. t = sent[m].ts
      BY <1>a, <3>1 DEF SourceTime
    <3> QED
      BY <1>0, <1>a, <3>1, <3>2, <3>3
  <2> QED
    BY <1>3, <2>1, <2>2
<1>4. PICK a \in Int, b \in Nat : a = d.ts /\ b = d.samples /\ b < FrameDur
                                  /\ a + b < s + PacketDur + FrameDur
  BY <1>1, <1>a DEF Clock, CoderShape, CoderOf
<1>5. PICK c \in Nat : c = d'.samples /\ c <= b
  BY <1>4
<1>6. d'.samples < FrameDur /\ d'.ts + d'.samples < SourceTime(m)' + PacketDur + FrameDur
  <2>1. c < FrameDur /\ a + c < t + PacketDur + FrameDur
    BY <1>0, <1>c, <1>4, <1>5
  <2> QED
    BY <1>b, <1>4, <1>5, <2>1
<1> QED
  BY <1>3, <1>6, ClockIs DEF SourceTime

\* Nothing happens to the inner codec.
LEMMA InnerKept ==
    ASSUME CoderIInv, SentKept, MadeKept, UNCHANGED <<coder, stamped, d>>, Stand,
           \/ Taken' = Taken
           \/ Taken' = Taken + 1 /\ Taken + 1 <= Len(sent) /\ (coder = "video" => Off(d))
    PROVE  Video' /\ Encoder'
<1>1. Video'
  <2> SUFFICES ASSUME coder = "video" PROVE Video'
    BY DEF Video
  <2>1. Decoder'
    BY DecoderKept DEF CoderIInv, Video
  <2>2. \A i \in 1 .. Len(made') : Decodable(made'[i], sent')
    BY DecodablesKept DEF CoderIInv, Video
  <2> QED
    BY <2>1, <2>2 DEF Video, Decodable, Follows
<1>2. Encoder'
  <2> SUFFICES ASSUME coder = "encoder" PROVE Encoder'
    BY DEF Encoder
  <2>1. at # "pause" /\ (d.open = IF at \in Opened THEN 1 ELSE 0) /\ (stamped => Clock)
    BY DEF CoderIInv, Encoder
  <2>2. at' # "pause" /\ (at' \in Opened <=> at \in Opened)
    BY <2>1 DEF Stand, Opened
  <2>3. d.samples \in Nat
    BY DEF CoderIInv, CoderShape, CoderOf
  <2>4. ASSUME Clock PROVE Clock'
    BY <2>3, <2>4, ClockKept DEF CoderIInv
  <2> QED
    BY <2>1, <2>2, <2>4 DEF Encoder
<1> QED
  BY <1>1, <1>2

-----------------------------------------------------------------------------
(* The frames of the encoder *)

\* The times of a packet's frames are numbers.
LEMMA TimesTyped ==
    ASSUME NEW n \in Nat, NEW from \in Int, NEW src \in Int
    PROVE  Times(n, from, src) \in [1 .. n -> Int]
<1> DEFINE Nth(h, i) == Clocked(IF i = 1 THEN from ELSE h[i - 1] + FrameDur, src)
           Good(h, k) == h \in [1 .. k -> Int] /\ \A i \in 1 .. k : h[i] = Nth(h, i)
           S == {k \in Nat : \E h : Good(h, k)}
<1>0. FrameDur \in Nat
  BY CodersAssumption
<1>1. ASSUME NEW k \in Nat, NEW h \in [1 .. k -> Int], NEW i \in 1 .. k + 1
      PROVE  Nth(h, i) \in Int
  <2>1. i # 1 => i - 1 \in 1 .. k
    OBVIOUS
  <2>2. (IF i = 1 THEN from ELSE h[i - 1] + FrameDur) \in Int
    BY <1>0, <2>1
  <2> QED
    BY <2>2 DEF Clocked
<1>2. 0 \in S
  <2>1. Good([i \in 1 .. 0 |-> 0], 0)
    OBVIOUS
  <2> QED
    BY <2>1
<1>3. ASSUME NEW k \in S
      PROVE  k + 1 \in S
  <2>1. PICK h : Good(h, k)
    OBVIOUS
  <2>2. PICK new \in Int : new = Nth(h, k + 1)
    <3>1. k + 1 \in 1 .. k + 1 /\ h \in [1 .. k -> Int]
      BY <2>1
    <3>2. Nth(h, k + 1) \in Int
      BY <1>1, <3>1
    <3> QED
      BY <3>2
  <2>3. PICK g : g = [i \in 1 .. k + 1 |-> IF i <= k THEN h[i] ELSE new]
    OBVIOUS
  <2>4. /\ g \in [1 .. k + 1 -> Int] /\ g[k + 1] = new /\ \A i \in 1 .. k : g[i] = h[i]
    BY <2>1, <2>2, <2>3
  <2>5. ASSUME NEW i \in 1 .. k + 1
        PROVE  g[i] = Nth(g, i)
    <3>1. i # 1 => i - 1 \in 1 .. k
      OBVIOUS
    <3>2. Nth(g, i) = Nth(h, i)
      BY <2>4, <3>1
    <3>3. CASE i <= k
      <4>1. i \in 1 .. k
        BY <3>3
      <4>2. h[i] = Nth(h, i)
        BY <2>1, <4>1
      <4> HIDE DEF Nth
      <4> QED
        BY <2>4, <3>2, <4>1, <4>2
    <3>4. CASE i = k + 1
      <4> HIDE DEF Nth
      <4> QED
        BY <2>2, <2>4, <3>2, <3>4
    <3> QED
      BY <3>3, <3>4
  <2>6. Good(g, k + 1)
    BY <2>4, <2>5
  <2>7. k + 1 \in Nat
    OBVIOUS
  <2> HIDE DEF Good
  <2> QED
    BY <2>6, <2>7
<1>4. n \in S
  <2>1. S \in SUBSET Nat
    OBVIOUS
  <2>2. S = Nat
    <3> HIDE DEF S
    <3> QED
      BY <1>2, <1>3, <2>1, InductionOnNat
  <2> HIDE DEF S
  <2> QED
    BY <2>2
<1>5. PICK h : h = [i \in 1 .. n |-> Nth(h, i)]
  <2>1. PICK h : Good(h, n)
    BY <1>4
  <2>2. h = [i \in 1 .. n |-> h[i]]
    BY <2>1
  <2>3. [i \in 1 .. n |-> h[i]] = [i \in 1 .. n |-> Nth(h, i)]
    BY <2>1
  <2> QED
    BY <2>2, <2>3
<1>6. PICK t : t = Times(n, from, src) /\ t = [i \in 1 .. n |-> Nth(t, i)]
  <2> DEFINE G(g) == [i \in 1 .. n |-> Nth(g, i)]
  <2>1. h = G(h)
    BY <1>5
  <2>2. Times(n, from, src) = CHOOSE g : g = G(g)
    BY DEF Times
  <2> HIDE DEF G
  <2>3. (CHOOSE g : g = G(g)) = G(CHOOSE g : g = G(g))
    BY <2>1
  <2>4. Times(n, from, src) = G(Times(n, from, src))
    BY <2>2, <2>3
  <2> QED
    BY <2>4 DEF G
<1> DEFINE T == {k \in Nat : \A i \in 1 .. n : i <= k => t[i] \in Int}
<1>7. T = Nat
  <2>1. 0 \in T
    OBVIOUS
  <2>2. ASSUME NEW k \in T
        PROVE  k + 1 \in T
    <3> SUFFICES ASSUME NEW i \in 1 .. n, i <= k + 1
                 PROVE  t[i] \in Int
      OBVIOUS
    <3>1. i # 1 => i - 1 \in 1 .. n /\ i - 1 <= k
      OBVIOUS
    <3>2. i # 1 => t[i - 1] \in Int
      BY <3>1
    <3>3. t[i] = Nth(t, i)
      BY <1>6
    <3>4. (IF i = 1 THEN from ELSE t[i - 1] + FrameDur) \in Int
      BY <1>0, <3>2
    <3> QED
      BY <3>3, <3>4 DEF Clocked
  <2>3. T \in SUBSET Nat
    OBVIOUS
  <2> HIDE DEF T
  <2> QED
    BY <2>1, <2>2, <2>3, InductionOnNat
<1>8. \A i \in 1 .. n : t[i] \in Int
  <2> SUFFICES ASSUME NEW i \in 1 .. n PROVE t[i] \in Int
    OBVIOUS
  <2>1. i \in T
    <3> HIDE DEF T
    <3> QED
      BY <1>7
  <2> QED
    BY <2>1
<1> HIDE DEF Nth
<1> QED
  BY <1>6, <1>8

\* A clock that is not ahead of its source by a frame stays near it for a packet.
LEMMA EvenClock ==
    ASSUME NEW ts \in Int, NEW samples \in Nat, NEW before \in Nat, NEW src \in Nat,
           NEW n \in Nat \ {0}, NEW left \in Nat, samples + PacketDur = n * FrameDur + left,
           samples <= before, before < FrameDur, ts + before < src + FrameDur
    PROVE  /\ Clocked(ts, src) \in Int /\ src - Clocked(ts, src) <= MaxDrift
           /\ Clocked(ts, src) + (n - 1) * FrameDur - src <= MaxDrift
           /\ ts - FrameDur < Clocked(ts, src)
           /\ Clocked(ts, src) + n * FrameDur + left < src + PacketDur + FrameDur
<1>0. FrameDur \in Nat \ {0} /\ PacketDur \in Nat /\ MaxDrift \in Nat /\ PacketDur <= MaxDrift
  BY CodersAssumption
<1>1. PICK m \in Int : m = n * FrameDur /\ (n - 1) * FrameDur = m - FrameDur
  <2>1. n * FrameDur \in Int /\ n * FrameDur - FrameDur = (n - 1) * FrameDur
    BY <1>0, Multiples
  <2> QED
    BY <2>1
<1>2. samples + PacketDur = m + left
  BY <1>1
<1>3. PICK base \in Int : base = Clocked(ts, src) /\ src - base <= MaxDrift
                          /\ (base = src \/ base = ts)
  BY <1>0 DEF Clocked, Apart
<1>4. base + (m - FrameDur) - src <= MaxDrift /\ ts - FrameDur < base
      /\ base + m + left < src + PacketDur + FrameDur
  <2>1. CASE base = src
    BY <1>0, <1>2, <2>1
  <2>2. CASE base = ts
    BY <1>0, <1>2, <2>2
  <2> QED
    BY <1>3, <2>1, <2>2
<1> QED
  BY <1>1, <1>3, <1>4

-----------------------------------------------------------------------------
(* Taking a packet *)

TakesNext == /\ inp # <<>> /\ inp' = Tail(inp) /\ at = "select"
             /\ UNCHANGED <<coder, stamped, outp, got, early>>

\* The packet is the next of the source.
LEMMA NextPacket ==
    ASSUME CoderShape, Queue, TakesNext
    PROVE  /\ Pkt \in SentOf /\ Pkt = sent[Taken + 1] /\ Head(inp) = Taken + 1
           /\ Taken \in Nat /\ Taken + 1 \in 1 .. Len(sent)
           /\ SourceTime(Taken) \in Nat /\ Pkt.ts \in Nat /\ SourceTime(Taken) + PacketDur <= Pkt.ts
           /\ SentKept /\ Taken' = Taken + 1 => SourceTime(Taken)' = Pkt.ts
<1>0. PacketDur \in Nat
  BY CodersAssumption
<1>1. /\ Head(inp) = Taken + 1 /\ Taken \in Nat /\ Taken + 1 \in 1 .. Len(sent)
  BY TakingIs DEF TakesNext
<1>2. PICK n \in Nat : n = Taken /\ n + 1 \in 1 .. Len(sent)
  BY <1>1
<1>3. Pkt = sent[n + 1] /\ Pkt \in SentOf /\ Pkt.ts \in Nat
  <2>1. Pkt = sent[n + 1]
    BY <1>1, <1>2 DEF Pkt
  <2>2. sent[n + 1] \in SentOf
    BY <1>2 DEF CoderShape
  <2> QED
    BY <2>1, <2>2 DEF SentOf
<1>4. SourceTime(n) \in Nat
  <2>1. CASE n = 0
    BY <2>1 DEF SourceTime
  <2>2. CASE n # 0
    <3>1. n \in 1 .. Len(sent)
      BY <1>2, <2>2
    <3>2. sent[n] \in SentOf
      BY <3>1 DEF CoderShape
    <3> QED
      BY <2>2, <3>2 DEF SentOf, SourceTime
  <2> QED
    BY <2>1, <2>2
<1>5. SourceTime(n) + PacketDur <= Pkt.ts
  <2>1. n + 1 - 1 = n
    OBVIOUS
  <2>2. sent[n + 1].ts >= SourceTime(n + 1 - 1) + PacketDur
    BY <1>2 DEF Queue
  <2> QED
    BY <1>0, <1>3, <1>4, <2>1, <2>2
<1>6. ASSUME SentKept, Taken' = Taken + 1 PROVE SourceTime(Taken)' = Pkt.ts
  <2>1. sent'[n + 1].ts = sent[n + 1].ts
    BY <1>2, <1>6 DEF SentKept, Same
  <2>2. Taken' = n + 1 /\ n + 1 # 0
    BY <1>2, <1>6
  <2> QED
    BY <1>3, <2>1, <2>2 DEF SourceTime
<1> QED
  BY <1>1, <1>2, <1>3, <1>4, <1>5, <1>6

\* It is given back.
LEMMA FinishedIs ==
    ASSUME CoderShape, Queue, Outputs, TakesNext, Finished
    PROVE  /\ Queue' /\ Outputs' /\ SentKept /\ MadeKept /\ Stand /\ at' = "select"
           /\ Taken' = Taken + 1 /\ Taken + 1 <= Len(sent)
           /\ d' \in CoderOf => CoderShape'
<1>1. /\ at' = "select" /\ hand' = 0 /\ GiveBack(Head(inp)) /\ batch' = batch /\ made' = made
  BY DEF Finished
<1>2. MadeKept
  BY <1>1, MadeSame
<1>3. /\ Queue' /\ SentKept /\ Taken' = Taken + 1 /\ inp' \in Seq(Nat)
  <2>1. at' \notin Over /\ at # "send" /\ at' # "send"
    BY <1>1 DEF Over, TakesNext
  <2>2. \A i \in 1 .. Len(made') : made'[i].pkt \in 1 .. Taken + 1
    <3>1. Taken \in Nat /\ \A i \in 1 .. Len(made) : made[i].pkt \in 1 .. Taken
      BY DEF Queue
    <3>2. \A i \in 1 .. Len(made) : made[i].pkt \in 1 .. Taken + 1
      BY <3>1
    <3> QED
      BY <1>1, <3>2
  <2> QED
    BY <1>1, <2>1, <2>2, TakenBack DEF TakesNext
<1>4. Outputs'
  <2>1. UNCHANGED <<made, batch, outp, got, coder>> /\ (at' = "send" <=> at = "send")
    BY <1>1 DEF TakesNext
  <2> QED
    BY <2>1, OutputsKept
<1>5. Stand
  BY <1>1 DEF Stand, TakesNext
<1>6. d' \in CoderOf => CoderShape'
  BY <1>1, <1>2, <1>3 DEF CoderShape, SentKept, MadeKept, TakesNext, Places
<1>7. Taken + 1 <= Len(sent)
  BY NextPacket
<1> QED
  BY <1>1, <1>2, <1>3, <1>4, <1>5, <1>6, <1>7

\* Or it is in hand, with its outputs.
LEMMA OfferedIs ==
    ASSUME CoderShape, Queue, Outputs, TakesNext, NEW s \in CoderOf, NEW n \in Nat \ {0},
           NEW times \in [1 .. n -> Int], Offer(s, times), coder = "audio" => n = 1
    PROVE  /\ Queue' /\ Outputs' /\ sent' = sent /\ SentKept /\ at' = "send"
           /\ Taken' = Taken + 1 /\ made' \in Seq(MadeOf) /\ Len(made') = Len(made) + n
           /\ \A i \in 1 .. Len(made) : made'[i] = made[i]
           /\ \A i \in 1 .. n : /\ made'[Len(made) + i].pkt = Taken + 1
                                /\ made'[Len(made) + i].by = s.inner
                                /\ made'[Len(made) + i].ts = times[i]
           /\ d' \in CoderOf => CoderShape'
<1>1. Head(inp) = Taken + 1 /\ Taken \in Nat
  BY NextPacket
<1>2. PICK h \in Nat : h = Head(inp) /\ h = Taken + 1
  BY <1>1
<1>3. PICK l \in Nat : l = Len(made)
  BY DEF CoderShape
<1>4. /\ Outputs' /\ made' \in Seq(MadeOf) /\ batch' \in Seq(Nat)
      /\ at' = "send" /\ hand' = h /\ sent' = sent /\ Len(made') = l + n
      /\ \A i \in 1 .. l : made'[i] = made[i]
      /\ \A i \in 1 .. n : /\ made'[l + i].pkt = h
                           /\ made'[l + i].by = s.inner
                           /\ made'[l + i].ts = times[i]
  <2>1. at # "send" /\ UNCHANGED <<outp, got, coder>> /\ Head(inp) \in Nat
    BY <1>2 DEF TakesNext
  <2> QED
    BY <1>2, <1>3, <2>1, OfferIs
<1>5. ASSUME NEW i \in 1 .. Len(made') PROVE made'[i].pkt \in 1 .. h
  <2>1. CASE i <= l
    <3>1. i \in 1 .. Len(made)
      BY <1>3, <1>4, <2>1
    <3>2. made[i].pkt \in 1 .. Taken
      BY <3>1 DEF Queue
    <3>3. made'[i] = made[i]
      BY <1>3, <1>4, <3>1
    <3> QED
      BY <1>1, <1>2, <3>2, <3>3
  <2>2. CASE i > l
    <3>1. i - l \in 1 .. n /\ l + (i - l) = i
      BY <1>4, <2>2
    <3>2. made'[l + (i - l)].pkt = h
      BY <1>4, <3>1
    <3>3. h \in 1 .. h
      BY <1>1, <1>2
    <3> QED
      BY <3>1, <3>2, <3>3
  <2> QED
    BY <1>4, <2>1, <2>2
<1>6. Queue' /\ SentKept /\ Taken' = Taken + 1 /\ inp' \in Seq(Nat) /\ hand' \in Nat
  <2>1. \A i \in 1 .. Len(made') : made'[i].pkt \in 1 .. Taken + 1
    BY <1>2, <1>5
  <2> QED
    BY <1>2, <1>4, <2>1, TakenInHand DEF TakesNext
<1>7. d' \in CoderOf => CoderShape'
  BY <1>4, <1>6 DEF CoderShape, TakesNext, Places
<1> QED
  BY <1>2, <1>3, <1>4, <1>6, <1>7

\* An encoder for new parameters starts with no samples, on the clock there is.
LEMMA EncoderOpened ==
    ASSUME NEW s \in CoderOf, NEW par \in Par, NEW ok \in BOOLEAN,
           s.open = 1, NEW t, t = Made([Closed(s) EXCEPT !.par = par, !.samples = 0], ok)
    PROVE  t \in CoderOf /\ t.open = 1 /\ t.ts = s.ts /\ t.samples = 0
<1>1. NoInner \in InnerOf
  BY NoInnerIs
<1>2. PICK c : c = WithInner(s, NoInner, 0)
  OBVIOUS
<1>3. c = Closed(s)
  BY <1>2 DEF Closed, WithInner
<1>4. c \in CoderOf /\ c.ts = s.ts /\ c.open = 0
  <2>1. c \in CoderOf /\ c.open = 0
    BY <1>1, <1>2, WithInnerIs
  <2>2. c.ts = s.ts
    BY <1>2 DEF CoderOf, WithInner
  <2> QED
    BY <2>1, <2>2
<1>5. PICK e : e = [c EXCEPT !.par = par, !.samples = 0]
  OBVIOUS
<1>6. e \in CoderOf /\ e.ts = s.ts /\ e.open = 0 /\ e.samples = 0 /\ e.par = par
  BY <1>4, <1>5 DEF CoderOf
<1>7. PICK i : i = [par |-> par, ok |-> ok, fed |-> <<>>]
  OBVIOUS
<1>8. i \in InnerOf
  <2>1. <<>> \in Seq(Nat)
    OBVIOUS
  <2> QED
    BY <1>7, <2>1 DEF InnerOf
<1>9. t = WithInner(e, i, 1)
  <2>1. t = Made(e, ok)
    BY <1>3, <1>5
  <2> QED
    BY <1>6, <1>7, <2>1 DEF Made, WithInner
<1>10. WithInner(e, i, 1).ts = e.ts /\ WithInner(e, i, 1).samples = e.samples
  BY <1>6 DEF CoderOf, WithInner
<1> QED
  BY <1>6, <1>8, <1>9, <1>10, WithInnerIs

\* What ends by a time is before what is after it less that long.
LEMMA Behind ==
    ASSUME NEW x \in Int, NEW f \in Int, NEW a \in Int, NEW base \in Int, x + f <= a, a - f < base
    PROVE  x < base
OBVIOUS

\* The frames of the packet that is taken are near its time and each other's.
Encodes(s, times, left) ==
    /\ d' = [s EXCEPT !.samples = left, !.ts = IF times = <<>> THEN @ ELSE Last(times) + FrameDur]
    /\ IF times = <<>> THEN Finished ELSE Offer(s, times)

\* The invariant holds after them.
LEMMA EncodesIs ==
    ASSUME CoderIInv, TakesNext, coder = "encoder",
           NEW s \in CoderOf, s.open = 1, s.ts = d.ts, s.samples <= d.samples,
           NEW n \in Nat, NEW left \in Nat, left < FrameDur,
           s.samples + PacketDur = n * FrameDur + left,
           NEW src \in Nat, stamped => src = Pkt.ts,
           NEW times, times = Times(n, s.ts, src), Encodes(s, times, left)
    PROVE  CoderIInv'
<1>0. FrameDur \in Nat \ {0} /\ PacketDur \in Nat /\ MaxDrift \in Nat
  BY CodersAssumption
<1>1. /\ CoderShape /\ Queue /\ Outputs /\ (stamped => Clock) /\ coder' = coder /\ stamped' = stamped
      /\ coder # "video" /\ coder # "audio"
  BY DEF CoderIInv, Encoder, TakesNext
<1>2. PICK a \in Int, b \in Nat : a = s.ts /\ b = s.samples /\ b + PacketDur = n * FrameDur + left
  BY DEF CoderOf
<1>3. /\ Pkt.ts \in Nat /\ SourceTime(Taken) \in Nat /\ SourceTime(Taken) + PacketDur <= Pkt.ts
      /\ SentKept /\ Taken' = Taken + 1 => SourceTime(Taken)' = Pkt.ts
  BY <1>1, NextPacket
<1>4. /\ times \in [1 .. n -> Int] /\ (n = 0 => times = <<>>)
      /\ n # 0 => times # <<>> /\ Last(times) = times[n] /\ times[n] \in Int
  <2>1. times \in [1 .. n -> Int]
    <3>1. times = Times(n, a, src)
      BY <1>2
    <3>2. src \in Int
      OBVIOUS
    <3>3. Times(n, a, src) \in [1 .. n -> Int]
      BY <3>2, TimesTyped
    <3> QED
      BY <3>1, <3>3
  <2>2. times \in Seq(Int) /\ Len(times) = n
    BY <2>1
  <2>3. Last(times) = times[n]
    BY <2>2 DEF Last
  <2> QED
    BY <2>1, <2>2, <2>3
<1>5. CASE n = 0
  <2>1. Finished /\ d' = [s EXCEPT !.samples = left, !.ts = @]
    BY <1>4, <1>5 DEF Encodes
  <2>2. d' \in CoderOf /\ d'.open = 1 /\ d'.ts = a /\ d'.samples = left
    BY <1>2, <2>1 DEF CoderOf
  <2>3. /\ Queue' /\ Outputs' /\ SentKept /\ MadeKept /\ at' = "select" /\ Taken' = Taken + 1
        /\ CoderShape'
    BY <1>1, <2>1, <2>2, FinishedIs
  <2>4. ASSUME stamped PROVE Clock'
    <3>1. PICK c \in Nat : c = d.samples /\ b <= c /\ a + c < SourceTime(Taken) + PacketDur + FrameDur
      <4>1. d.samples \in Nat
        BY <1>1 DEF CoderShape, CoderOf
      <4>2. Clock
        BY <1>1, <2>4
      <4>3. s.ts + d.samples < SourceTime(Taken) + PacketDur + FrameDur
        BY <4>2 DEF Clock
      <4> QED
        BY <1>2, <4>1, <4>3
    <3>2. b + PacketDur = left
      <4>1. n * FrameDur = 0
        BY <1>0, <1>5
      <4> QED
        BY <1>2, <4>1
    <3>3. SourceTime(Taken)' = Pkt.ts
      BY <1>3, <2>3
    <3>4. d'.ts + d'.samples < SourceTime(Taken)' + PacketDur + FrameDur
      <4>1. a + left < Pkt.ts + PacketDur + FrameDur
        BY <1>0, <1>3, <3>1, <3>2
      <4> QED
        BY <2>2, <3>3, <4>1
    <3> QED
      BY <1>1, <1>2, <2>2, <2>3, <2>4, <3>4, ClockIs
  <2>5. Encoder'
    BY <1>1, <2>2, <2>3, <2>4 DEF Encoder, Opened
  <2> QED
    BY <1>1, <2>3, <2>5 DEF CoderIInv, Video
<1>6. CASE n # 0
  <2>1. Offer(s, times)
    BY <1>4, <1>6 DEF Encodes
  <2>2. d' = [s EXCEPT !.samples = left, !.ts = times[n] + FrameDur]
    BY <1>4, <1>6 DEF Encodes
  <2>3. d' \in CoderOf /\ d'.open = 1 /\ d'.ts = times[n] + FrameDur /\ d'.samples = left
    <3>1. times[n] + FrameDur \in Int
      BY <1>0, <1>4, <1>6
    <3> QED
      BY <2>2, <3>1 DEF CoderOf
  <2>4. /\ Queue' /\ Outputs' /\ sent' = sent /\ SentKept /\ at' = "send"
        /\ Taken' = Taken + 1 /\ made' \in Seq(MadeOf) /\ Len(made') = Len(made) + n
        /\ \A i \in 1 .. Len(made) : made'[i] = made[i]
        /\ \A i \in 1 .. n : /\ made'[Len(made) + i].pkt = Taken + 1
                             /\ made'[Len(made) + i].ts = times[i]
        /\ CoderShape'
    <3>1. n \in Nat \ {0}
      BY <1>6
    <3> QED
      BY <1>1, <1>4, <2>1, <2>3, <3>1, OfferedIs
  <2>5. ASSUME stamped PROVE Clock'
    <3>1. src = Pkt.ts /\ Clock
      BY <1>1, <2>5
    <3>2. PICK c \in Nat : c = d.samples /\ b <= c /\ c < FrameDur /\ a + c < src + FrameDur
      <4>1. d.samples \in Nat
        BY <1>1 DEF CoderShape, CoderOf
      <4>2. /\ s.ts + d.samples < SourceTime(Taken) + PacketDur + FrameDur
            /\ d.samples < FrameDur
        BY <3>1 DEF Clock
      <4>3. PICK c \in Nat : c = d.samples /\ b <= c /\ c < FrameDur
                             /\ a + c < SourceTime(Taken) + PacketDur + FrameDur
        BY <1>2, <4>1, <4>2
      <4> QED
        BY <1>0, <1>3, <3>1, <4>3
    <3>3. PICK base \in Int :
             /\ base = Clocked(a, src) /\ src - base <= MaxDrift
             /\ base + (n - 1) * FrameDur - src <= MaxDrift /\ a - FrameDur < base
             /\ base + n * FrameDur + left < src + PacketDur + FrameDur
      <4>1. n \in Nat \ {0}
        BY <1>6
      <4>2. b + PacketDur = n * FrameDur + left /\ b <= c /\ c < FrameDur /\ a + c < src + FrameDur
        BY <1>2, <3>2
      <4>3. /\ Clocked(a, src) \in Int /\ src - Clocked(a, src) <= MaxDrift
            /\ Clocked(a, src) + (n - 1) * FrameDur - src <= MaxDrift
            /\ a - FrameDur < Clocked(a, src)
            /\ Clocked(a, src) + n * FrameDur + left < src + PacketDur + FrameDur
        BY <4>1, <4>2, EvenClock
      <4> QED
        BY <4>3
    <3>4. ASSUME NEW j \in 1 .. n
          PROVE  times[j] = base + (j - 1) * FrameDur
      <4>1. times = [i \in 1 .. n |-> Clocked(a, src) + (i - 1) * FrameDur]
        BY <1>2, <3>3, TimesAre
      <4> QED
        BY <3>3, <4>1
    <3>5. ASSUME NEW j \in 1 .. n
          PROVE  /\ times[j] \in Int /\ ~ Apart(times[j], src)
                 /\ j = 1 => times[j] = base
                 /\ j > 1 => j - 1 \in 1 .. n /\ times[j - 1] < times[j]
      <4>1. PICK e \in Int : e = (j - 1) * FrameDur /\ 0 <= e /\ e <= (n - 1) * FrameDur
                             /\ e - FrameDur = (j - 1 - 1) * FrameDur /\ (j = 1 => e = 0)
        <5>1. j - 1 \in Int /\ n - 1 \in Int /\ 0 <= j - 1 /\ j - 1 <= n - 1 /\ (j = 1 => j - 1 = 0)
          OBVIOUS
        <5> QED
          BY <1>0, <5>1, Multiples
      <4>2. PICK m \in Int : m = (n - 1) * FrameDur /\ base + m - src <= MaxDrift
        BY <1>0, <3>3, Multiples
      <4>3. times[j] = base + e
        BY <3>4, <4>1
      <4>4. ~ Apart(times[j], src)
        <5>1. ~ (base + e - src > MaxDrift) /\ ~ (src - (base + e) > MaxDrift)
          BY <1>0, <3>3, <4>1, <4>2
        <5> QED
          BY <4>3, <5>1 DEF Apart
      <4>5. j > 1 => j - 1 \in 1 .. n /\ times[j - 1] < times[j]
        <5> SUFFICES ASSUME j > 1 PROVE j - 1 \in 1 .. n /\ times[j - 1] < times[j]
          OBVIOUS
        <5>1. j - 1 \in 1 .. n
          OBVIOUS
        <5>2. times[j - 1] = base + (j - 1 - 1) * FrameDur
          BY <3>4, <5>1
        <5>3. times[j - 1] = base + (e - FrameDur)
          BY <4>1, <5>2
        <5> QED
          BY <1>0, <4>3, <5>1, <5>3
      <4> QED
        BY <4>1, <4>3, <4>4, <4>5
    <3>6. PICK l \in Nat : l = Len(made)
      BY <1>1 DEF CoderShape
    <3>7. sent'[Taken + 1].ts = src
      BY <1>1, <2>4, <3>1, NextPacket
    <3>8. Near
      BY <3>1 DEF Clock, Near
    <3>9. ASSUME NEW i \in 1 .. Len(made')
          PROVE  /\ ~ Apart(made'[i].ts, sent'[made'[i].pkt].ts)
                 /\ i > 1 => made'[i - 1].ts < made'[i].ts
      <4>1. CASE i <= l
        <5>1. i \in 1 .. l /\ made'[i] = made[i]
              /\ (i > 1 => i - 1 \in 1 .. l /\ made'[i - 1] = made[i - 1])
          BY <2>4, <3>6, <4>1
        <5>2. ~ Apart(made[i].ts, sent[made[i].pkt].ts) /\ (i > 1 => made[i - 1].ts < made[i].ts)
          BY <3>6, <3>8, <5>1 DEF Near
        <5> QED
          BY <2>4, <5>1, <5>2
      <4>2. CASE i > l
        <5>1. PICK j \in 1 .. n : i = l + j
          <6>1. i - l \in 1 .. n /\ i = l + (i - l)
            BY <2>4, <3>6, <4>2
          <6> QED
            BY <6>1
        <5>2. made'[i].pkt = Taken + 1 /\ made'[i].ts = times[j]
          BY <2>4, <3>6, <5>1
        <5>3. ~ Apart(made'[i].ts, sent'[made'[i].pkt].ts)
          BY <3>5, <3>7, <5>2
        <5>4. ASSUME i > 1, j = 1 PROVE made'[i - 1].ts < made'[i].ts
          <6>1. i - 1 = l /\ l \in 1 .. l /\ l >= 1
            BY <3>6, <5>1, <5>4
          <6>2. made'[l] = made[l]
            BY <2>4, <3>6, <6>1
          <6>3. made[l].ts + FrameDur <= a /\ made[l].ts \in Int
            <7>1. made # <<>> /\ made[l] \in MadeOf
              BY <1>1, <3>6, <6>1 DEF CoderShape
            <7>2. made[Len(made)].ts + FrameDur <= d.ts
              BY <3>1, <7>1 DEF Clock
            <7> QED
              BY <1>2, <3>6, <7>1, <7>2 DEF MadeOf
          <6>4. times[j] = base
            BY <3>5, <5>4
          <6>5. PICK x \in Int : x = made[l].ts /\ x + FrameDur <= a
            BY <6>3
          <6>6. x < base
            <7>1. a - FrameDur < base
              BY <3>3
            <7>2. FrameDur \in Int
              BY <1>0
            <7> QED
              BY <6>5, <7>1, <7>2, Behind
          <6> QED
            BY <5>2, <6>1, <6>2, <6>4, <6>5, <6>6
        <5>5. ASSUME i > 1, j # 1 PROVE made'[i - 1].ts < made'[i].ts
          <6>1. j > 1 /\ j - 1 \in 1 .. n /\ i - 1 = l + (j - 1)
            BY <3>6, <5>1, <5>5
          <6>2. made'[i - 1].ts = times[j - 1]
            BY <2>4, <3>6, <6>1
          <6> QED
            BY <3>5, <5>2, <6>1, <6>2
        <5> QED
          BY <5>3, <5>4, <5>5
      <4> QED
        BY <2>4, <3>6, <4>1, <4>2
    <3>10. PICK m \in Int : m = n * FrameDur /\ (n - 1) * FrameDur = m - FrameDur
      <4>1. n * FrameDur \in Int /\ n * FrameDur - FrameDur = (n - 1) * FrameDur
        BY <1>0, Multiples
      <4> QED
        BY <4>1
    <3>11. d'.ts = base + m
      <4>1. times[n] = base + (m - FrameDur)
        BY <1>6, <3>4, <3>10
      <4> QED
        BY <1>0, <2>3, <4>1
    <3>12. SourceTime(Taken)' = src
      BY <1>3, <2>4, <3>1
    <3>13. d'.ts + d'.samples < SourceTime(Taken)' + PacketDur + FrameDur
      <4>1. base + m + left < src + PacketDur + FrameDur
        BY <3>3, <3>10
      <4> QED
        BY <2>3, <3>11, <3>12, <4>1
    <3>14. made'[Len(made')].ts + FrameDur <= d'.ts
      <4>1. made'[Len(made')].ts = times[n]
        BY <1>6, <2>4, <3>6
      <4>2. times[n] + FrameDur \in Int
        BY <1>0, <1>4, <1>6
      <4> QED
        BY <2>3, <4>1, <4>2
    <3> QED
      BY <2>3, <3>9, <3>13, <3>14 DEF Clock, Apart, SourceTime
  <2>6. Encoder'
    BY <1>1, <2>3, <2>4, <2>5 DEF Encoder, Opened
  <2> QED
    BY <1>1, <2>4, <2>6 DEF CoderIInv, Video
<1> QED
  BY <1>5, <1>6

\* A packet for which the encoder makes no frames: its samples at most are lost.
LEMMA EncoderLoses ==
    ASSUME CoderIInv, TakesNext, coder = "encoder", Finished, NEW s \in CoderOf, d' = s,
           s.open = 1, s.ts = d.ts, s.samples <= d.samples
    PROVE  CoderIInv'
<1>1. /\ CoderShape /\ Queue /\ Outputs /\ (stamped => Clock) /\ coder' = coder /\ stamped' = stamped
  BY DEF CoderIInv, Encoder, TakesNext
<1>2. /\ Queue' /\ Outputs' /\ SentKept /\ MadeKept /\ at' = "select"
      /\ Taken' = Taken + 1 /\ Taken + 1 <= Len(sent) /\ CoderShape'
  BY <1>1, FinishedIs
<1>3. s.samples \in Nat
  BY DEF CoderOf
<1>4. ASSUME stamped PROVE Clock'
  BY <1>1, <1>2, <1>3, <1>4, ClockKept
<1>5. Encoder'
  BY <1>1, <1>2, <1>4 DEF Encoder, Opened
<1> QED
  BY <1>1, <1>2, <1>5 DEF CoderIInv, Video

\* processPacket of the encoder: new parameters, and frames or none.
LEMMA EncoderTakes ==
    ASSUME CoderIInv, TakesNext, coder = "encoder", EncoderPacket
    PROVE  CoderIInv'
<1>0. FrameDur \in Nat \ {0} /\ PacketDur \in Nat
  BY CodersAssumption
<1>1. /\ CoderShape /\ Queue /\ d \in CoderOf /\ d.open = 1 /\ d.samples \in Nat
  BY DEF CoderIInv, CoderShape, Encoder, TakesNext, Opened, CoderOf
<1>2. Pkt \in SentOf /\ Pkt.ts \in Nat /\ Pkt.par \in Par
  BY <1>1, NextPacket DEF SentOf, Par
<1>3. PICK ok \in BOOLEAN, fails \in BOOLEAN :
       LET s     == IF Pkt.par = d.par THEN d
                    ELSE Made([Closed(d) EXCEPT !.par = Pkt.par, !.samples = 0], ok)
           full  == s.samples + PacketDur
           src   == IF stamped THEN Pkt.ts ELSE 0
           times == Times(full \div FrameDur, s.ts, src)
       IN  CASE Pkt.par \in Unsupported -> d' = d /\ Finished
             [] Pkt.par \notin Unsupported /\ Pkt.par # d.par /\ ~ok -> d' = s /\ Finished
             [] OTHER ->
                  \/ fails /\ d' = s /\ Finished
                  \/ /\ ~fails
                     /\ d' = [s EXCEPT !.samples = full % FrameDur,
                                       !.ts = IF times = <<>> THEN @ ELSE Last(times) + FrameDur]
                     /\ IF times = <<>> THEN Finished ELSE Offer(s, times)
  BY DEF EncoderPacket
<1>4. PICK s : s = IF Pkt.par = d.par THEN d
                   ELSE Made([Closed(d) EXCEPT !.par = Pkt.par, !.samples = 0], ok)
  OBVIOUS
<1>5. s \in CoderOf /\ s.open = 1 /\ s.ts = d.ts /\ s.samples \in Nat /\ s.samples <= d.samples
  <2>1. CASE Pkt.par = d.par
    BY <1>1, <1>4, <2>1
  <2>2. CASE Pkt.par # d.par
    <3>1. s = Made([Closed(d) EXCEPT !.par = Pkt.par, !.samples = 0], ok)
      BY <1>4, <2>2
    <3>0. d \in CoderOf /\ d.open = 1 /\ Pkt.par \in Par
      BY <1>1, <1>2
    <3>2. s \in CoderOf /\ s.open = 1 /\ s.ts = d.ts /\ s.samples = 0
      BY <3>0, <3>1, EncoderOpened
    <3>3. 0 <= d.samples
      BY <1>1
    <3> QED
      BY <3>2, <3>3
  <2> QED
    BY <2>1, <2>2
<1>6. PICK full \in Nat : full = s.samples + PacketDur
  BY <1>0, <1>5
<1>7. PICK n \in Nat, left \in 0 .. FrameDur - 1 :
         n = full \div FrameDur /\ left = full % FrameDur /\ full = n * FrameDur + left
  BY <1>0, Divides
<1>8. PICK src \in Nat : src = IF stamped THEN Pkt.ts ELSE 0
  BY <1>2
<1>9. PICK times : times = Times(n, s.ts, src)
  OBVIOUS
<1>10. \/ d' = d /\ Finished
       \/ d' = s /\ Finished
       \/ Encodes(s, times, left)
  <2>1. times = Times((s.samples + PacketDur) \div FrameDur, s.ts, IF stamped THEN Pkt.ts ELSE 0)
    BY <1>6, <1>7, <1>8, <1>9
  <2>2. left = (s.samples + PacketDur) % FrameDur
    BY <1>6, <1>7
  <2>3. CASE Pkt.par \in Unsupported
    BY <1>3, <2>3
  <2>4. CASE Pkt.par \notin Unsupported /\ Pkt.par # d.par /\ ~ ok
    BY <1>3, <1>4, <2>4
  <2>5. CASE Pkt.par \notin Unsupported /\ ~ (Pkt.par # d.par /\ ~ ok)
    <3>1. \/ d' = s /\ Finished
          \/ /\ d' = [s EXCEPT !.samples = left,
                               !.ts = IF times = <<>> THEN @ ELSE Last(times) + FrameDur]
             /\ IF times = <<>> THEN Finished ELSE Offer(s, times)
      BY <1>3, <1>4, <2>1, <2>2, <2>5
    <3> QED
      BY <3>1 DEF Encodes
  <2> QED
    BY <2>3, <2>4, <2>5
<1>11. CASE d' = d /\ Finished
  BY <1>1, <1>11, EncoderLoses
<1>12. CASE d' = s /\ Finished
  BY <1>5, <1>12, EncoderLoses
<1>13. CASE Encodes(s, times, left)
  <2>1. left \in Nat /\ left < FrameDur /\ (stamped => src = Pkt.ts)
        /\ s.samples + PacketDur = n * FrameDur + left
    BY <1>0, <1>6, <1>7, <1>8
  <2> QED
    BY <1>5, <1>9, <1>13, <2>1, EncodesIs
<1> QED
  BY <1>10, <1>11, <1>12, <1>13

\* An audio decoder.
LEMMA AudioTakes ==
    ASSUME CoderIInv, TakesNext, coder = "audio", AudioPacket
    PROVE  CoderIInv'
<1>1. CoderShape /\ Queue /\ Outputs /\ d \in CoderOf /\ d.open + 1 \in Int
  BY DEF CoderIInv, CoderShape, CoderOf
<1>2. Pkt.par \in Par
  BY <1>1, NextPacket DEF SentOf, Par
<1>3. PICK ok \in BOOLEAN, result \in {"none", "frame"} :
       LET kept == [d EXCEPT !.par = Pkt.par]
           s    == IF Pkt.par = d.par \/ Pkt.par \in Unsupported THEN kept ELSE Made(kept, ok)
           fails == Pkt.par # d.par /\ (Pkt.par \in Unsupported \/ ~ok)
       IN  /\ d' = s
           /\ IF fails \/ s.inner = NoInner \/ result = "none" THEN Finished ELSE Offer(s, <<0>>)
  BY DEF AudioPacket
<1>4. PICK kept : kept = [d EXCEPT !.par = Pkt.par]
  OBVIOUS
<1>5. kept \in CoderOf /\ kept.open + 1 \in Int /\ kept.par = Pkt.par
  BY <1>1, <1>2, <1>4 DEF CoderOf
<1>6. PICK s : s = IF Pkt.par = d.par \/ Pkt.par \in Unsupported THEN kept ELSE Made(kept, ok)
  OBVIOUS
<1>7. s \in CoderOf
  <2>1. PICK n \in Int : n = kept.open + 1
    BY <1>5
  <2>2. PICK i : i = [par |-> kept.par, ok |-> ok, fed |-> <<>>]
    OBVIOUS
  <2>3. i \in InnerOf
    <3>1. <<>> \in Seq(Nat)
      OBVIOUS
    <3> QED
      BY <1>2, <1>5, <2>2, <3>1 DEF InnerOf
  <2>4. Made(kept, ok) = WithInner(kept, i, n)
    BY <2>1, <2>2 DEF Made, WithInner
  <2> QED
    BY <1>5, <1>6, <2>3, <2>4, WithInnerIs
<1>8. d' = s /\ (Finished \/ Offer(s, <<0>>))
  BY <1>3, <1>4, <1>6
<1>9. coder' = "audio"
  BY DEF TakesNext
<1>10. CoderShape' /\ Queue' /\ Outputs'
  <2>1. CASE Finished
    BY <1>1, <1>7, <1>8, <2>1, FinishedIs
  <2>2. CASE Offer(s, <<0>>)
    <3>1. <<0>> \in [1 .. 1 -> Int] /\ 1 \in Nat \ {0}
      OBVIOUS
    <3> QED
      BY <1>1, <1>7, <1>8, <2>2, <3>1, OfferedIs
  <2> QED
    BY <1>8, <2>1, <2>2
<1> QED
  BY <1>9, <1>10 DEF CoderIInv, Video, Encoder

\* A video decoder has an inner decoder that is not closed if it runs.
Ready(s) == Off(s) \/ Unfed(s) \/ FedUpTo(s, Taken, sent)

\* So the inner decoder there is was opened, once.
LEMMA ReadyOpen ==
    ASSUME NEW s, Ready(s)
    PROVE  s.open = IF s.inner = NoInner THEN 0 ELSE 1
<1>1. CASE Off(s)
  BY <1>1 DEF Off
<1>2. CASE Runs(s)
  <2>1. s.inner # NoInner
    BY <1>2, NoInnerIs DEF Runs
  <2> QED
    BY <1>2, <2>1 DEF Runs
<1> QED
  BY <1>1, <1>2 DEF Ready, Unfed, FedUpTo

\* For new parameters it is restarted.
LEMMA VideoPrepared ==
    ASSUME CoderShape, Queue, TakesNext, Ready(d), NEW ok \in BOOLEAN, NEW s,
           s = IF Pkt.par = d.par THEN d ELSE Restarted([d EXCEPT !.par = Pkt.par], ok)
    PROVE  s \in CoderOf /\ Ready(s) /\ s.par = Pkt.par /\ (d.on => s.on)
<1>1. d \in CoderOf /\ Pkt.par \in Par
  BY NextPacket DEF CoderShape, SentOf, Par
<1>2. CASE Pkt.par = d.par
  BY <1>1, <1>2
<1>3. CASE Pkt.par # d.par
  <2>1. PICK e : e = [d EXCEPT !.par = Pkt.par]
    OBVIOUS
  <2>2. e \in CoderOf /\ e.par = Pkt.par /\ (d.on => e.on) /\ e.open = d.open /\ e.inner = d.inner
    BY <1>1, <2>1 DEF CoderOf
  <2>3. e.open = IF e.inner = NoInner THEN 0 ELSE 1
    BY <2>2, ReadyOpen
  <2>4. s = Restarted(e, ok)
    BY <1>3, <2>1
  <2> QED
    BY <2>2, <2>3, <2>4, RestartedIs DEF Ready
<1> QED
  BY <1>2, <1>3

\* A running decoder is fed a keyframe, or the packet after those it was fed.
LEMMA VideoFed ==
    ASSUME CoderShape, Queue, TakesNext, NEW s \in CoderOf, Ready(s), s.running,
           s.par = Pkt.par, s.hasKey \/ Pkt.key, NEW f,
           f = [s EXCEPT !.hasKey = TRUE, !.inner.fed = Append(@, Head(inp))]
    PROVE  /\ f \in CoderOf /\ Runs(f) /\ f.hasKey /\ f.par = Pkt.par /\ (s.on => f.on)
           /\ Follows(f.inner.fed, Taken + 1, sent)
<1>1. PICK n \in Nat : n = Taken /\ n + 1 \in 1 .. Len(sent) /\ Head(inp) = n + 1 /\ Pkt = sent[n + 1]
  BY NextPacket
<1>2. Runs(s) /\ (Unfed(s) \/ FedUpTo(s, n, sent))
  BY <1>1 DEF Ready, Off, Unfed, FedUpTo
<1>3. PICK i \in InnerOf : i = s.inner
  BY DEF CoderOf
<1>4. i.ok /\ i.par = s.par /\ i.fed \in Seq(Nat)
  BY <1>2, <1>3 DEF Runs, InnerOf
<1>5. PICK j : j = [i EXCEPT !.fed = Append(@, n + 1)]
  OBVIOUS
<1>6. j \in InnerOf /\ j.ok /\ j.par = i.par /\ j.fed = Append(i.fed, n + 1)
  <2>1. Append(i.fed, n + 1) \in Seq(Nat)
    BY <1>4
  <2> QED
    BY <1>4, <1>5, <2>1 DEF InnerOf
<1>7. f = [s EXCEPT !.hasKey = TRUE, !.inner = j]
  BY <1>1, <1>3, <1>5
<1>8. f \in CoderOf /\ f.inner = j /\ f.par = s.par /\ f.open = s.open /\ (s.on => f.on)
      /\ f.hasKey /\ (s.running => f.running)
  BY <1>6, <1>7 DEF CoderOf
<1>9. Runs(f)
  BY <1>2, <1>4, <1>6, <1>8 DEF Runs
<1>10. Follows(j.fed, n + 1, sent)
  <2>1. CASE Unfed(s)
    <3>1. j.fed = <<n + 1>> /\ sent[n + 1].key
      BY <1>1, <1>3, <1>6, <2>1 DEF Unfed
    <3>2. Len(j.fed) = 1 /\ j.fed[1] = n + 1 /\ j.fed # <<>>
      BY <3>1
    <3>3. n + 1 - 1 + 1 = n + 1
      OBVIOUS
    <3> QED
      BY <3>1, <3>2, <3>3 DEF Follows
  <2>2. CASE FedUpTo(s, n, sent)
    <3>1. PICK g \in Seq(Nat) : g = i.fed /\ Follows(g, n, sent)
      BY <1>3, <1>4, <2>2 DEF FedUpTo
    <3>2. PICK l \in Nat : /\ l = Len(g) /\ l <= n /\ sent[n - l + 1].key
                           /\ \A k \in 1 .. l : g[k] = n - l + k
      BY <3>1 DEF Follows
    <3>3. PICK h \in Seq(Nat) : h = Append(g, n + 1)
      <4>1. n + 1 \in Nat
        OBVIOUS
      <4>2. Append(g, n + 1) \in Seq(Nat)
        BY <4>1
      <4> QED
        BY <4>2
    <3>4. h # <<>> /\ Len(h) = l + 1 /\ h[l + 1] = n + 1 /\ \A k \in 1 .. l : h[k] = g[k]
      BY <3>2, <3>3
    <3>5. n + 1 - (l + 1) + 1 = n - l + 1 /\ l + 1 <= n + 1
      BY <3>2
    <3>6. ASSUME NEW k \in 1 .. l + 1 PROVE h[k] = n + 1 - (l + 1) + k
      <4>1. CASE k = l + 1
        BY <3>4, <4>1
      <4>2. CASE k # l + 1
        <5>1. k \in 1 .. l
          BY <4>2
        <5>2. h[k] = n - l + k
          BY <3>2, <3>4, <5>1
        <5> QED
          BY <5>2
      <4> QED
        BY <4>1, <4>2
    <3>7. j.fed = h
      BY <1>6, <3>1, <3>3
    <3>8. sent[n + 1 - (l + 1) + 1].key
      BY <3>2, <3>5
    <3>9. Follows(h, n + 1, sent)
      BY <3>4, <3>5, <3>6, <3>8 DEF Follows
    <3> QED
      BY <3>7, <3>9
  <2> QED
    BY <1>2, <2>1, <2>2
<1> QED
  BY <1>1, <1>8, <1>9, <1>10

\* A packet that the video decoder gives no frame for.
LEMMA VideoFinished ==
    ASSUME CoderIInv, TakesNext, coder = "video", Finished, d' \in CoderOf,
           \/ Off(d') \/ Unfed(d')
           \/ Runs(d') /\ d'.hasKey /\ Follows(d'.inner.fed, Taken + 1, sent),
           ~ d'.on => Off(d')
    PROVE  CoderIInv'
<1>1. CoderShape /\ Queue /\ Outputs /\ coder' = coder
      /\ \A i \in 1 .. Len(made) : Decodable(made[i], sent)
  BY DEF CoderIInv, Video, TakesNext
<1>2. /\ Queue' /\ Outputs' /\ SentKept /\ MadeKept /\ at' = "select" /\ Taken' = Taken + 1
      /\ Taken + 1 <= Len(sent) /\ CoderShape'
  BY <1>1, FinishedIs
<1>3. PICK n \in 0 .. Len(sent) : n = Taken + 1
  BY <1>1, <1>2, TakenIn
<1>4. Off(d') \/ Unfed(d') \/ FedUpTo(d', Taken', sent')
  <2>1. ASSUME Follows(d'.inner.fed, n, sent) PROVE Follows(d'.inner.fed, n, sent')
    <3>1. d'.inner.fed \in Seq(Nat)
      BY DEF CoderOf, InnerOf
    <3> QED
      BY <1>1, <1>2, <2>1, <3>1, FollowsKept
  <2> QED
    BY <1>2, <1>3, <2>1 DEF FedUpTo
<1>5. Decoder'
  BY <1>2, <1>4 DEF Decoder, Off, Unfed, Runs, FedUpTo, Follows, Opened
<1>6. \A i \in 1 .. Len(made') : Decodable(made'[i], sent')
  BY <1>1, <1>2, DecodablesKept
<1>7. Video'
  BY <1>5, <1>6 DEF Video, Decodable, Follows
<1> QED
  BY <1>1, <1>2, <1>7 DEF CoderIInv, Encoder

\* A frame.
LEMMA VideoFrame ==
    ASSUME CoderIInv, TakesNext, coder = "video", NEW s \in CoderOf, d' = s,
           NEW times \in [1 .. 1 -> Int], Offer(s, times),
           Runs(s), s.hasKey, s.on, s.par = Pkt.par, Follows(s.inner.fed, Taken + 1, sent)
    PROVE  CoderIInv'
<1>1. CoderShape /\ Queue /\ Outputs /\ coder' = coder
      /\ \A i \in 1 .. Len(made) : Decodable(made[i], sent)
  BY DEF CoderIInv, Video, TakesNext
<1>2. PICK l \in Nat : l = Len(made)
  <2>1. Len(made) \in Nat
    BY <1>1 DEF CoderShape
  <2> QED
    BY <2>1
<1>3. /\ Queue' /\ Outputs' /\ sent' = sent /\ at' = "send" /\ Taken' = Taken + 1
      /\ Len(made') = l + 1 /\ \A i \in 1 .. l : made'[i] = made[i]
      /\ made'[l + 1].pkt = Taken + 1 /\ made'[l + 1].by = s.inner
      /\ CoderShape'
  <2>a. 1 \in Nat \ {0} /\ 1 \in 1 .. 1
    OBVIOUS
  <2>2. d' \in CoderOf /\ coder # "audio"
    OBVIOUS
  <2>3. /\ Queue' /\ Outputs' /\ sent' = sent /\ at' = "send" /\ Taken' = Taken + 1
        /\ Len(made') = Len(made) + 1 /\ \A i \in 1 .. Len(made) : made'[i] = made[i]
        /\ \A i \in 1 .. 1 : made'[Len(made) + i].pkt = Taken + 1 /\ made'[Len(made) + i].by = s.inner
        /\ CoderShape'
    BY <1>1, <2>a, <2>2, OfferedIs
  <2> QED
    BY <1>2, <2>a, <2>3
<1>4. Decoder'
  <2>1. FedUpTo(s, Taken', sent')
    BY <1>3 DEF FedUpTo
  <2> QED
    BY <1>3, <2>1 DEF Decoder, Runs, FedUpTo, Follows, Opened
<1>5. ASSUME NEW i \in 1 .. Len(made') PROVE Decodable(made'[i], sent')
  <2>1. CASE i \in 1 .. l
    BY <1>1, <1>2, <1>3, <2>1
  <2>2. CASE i = l + 1
    <3>1. s.inner.ok /\ s.inner.par = sent[Taken + 1].par
      BY <1>1, NextPacket DEF Runs
    <3> QED
      BY <1>3, <2>2, <3>1 DEF Decodable
  <2> QED
    BY <1>2, <1>3, <2>1, <2>2
<1>6. Video'
  BY <1>4, <1>5 DEF Video, Decodable, Follows
<1> QED
  BY <1>1, <1>3, <1>6 DEF CoderIInv, Encoder

\* processPacket of the video decoder, and the restart when it fails.
LEMMA VideoTakes ==
    ASSUME CoderIInv, TakesNext, coder = "video", VideoPacket
    PROVE  CoderIInv'
<1>1. CoderShape /\ Queue /\ Outputs /\ d \in CoderOf /\ Ready(d) /\ (~ d.on => Off(d))
  BY DEF CoderIInv, CoderShape, Video, Decoder, Ready
<1>2. PICK ok \in BOOLEAN, again \in BOOLEAN, result \in {"error", "none", "frame"} :
       LET s   == IF Pkt.par = d.par THEN d ELSE Restarted([d EXCEPT !.par = Pkt.par], ok)
           fed == [s EXCEPT !.hasKey = TRUE, !.inner.fed = Append(@, Head(inp))]
       IN  CASE ~d.on -> d' = d /\ Finished
             [] d.on /\ ~s.running -> d' = Restarted(s, again) /\ Finished
             [] d.on /\ s.running /\ ~s.hasKey /\ ~Pkt.key -> d' = s /\ Finished
             [] OTHER -> CASE result = "error" -> d' = Restarted(fed, again) /\ Finished
                           [] result = "none"  -> d' = fed /\ Finished
                           [] result = "frame" -> d' = fed /\ Offer(fed, <<0>>)
  BY DEF VideoPacket
<1>3. PICK s : s = IF Pkt.par = d.par THEN d ELSE Restarted([d EXCEPT !.par = Pkt.par], ok)
  OBVIOUS
<1>4. s \in CoderOf /\ Ready(s) /\ s.par = Pkt.par /\ (d.on => s.on)
  BY <1>1, <1>3, VideoPrepared
<1>5. PICK f : f = [s EXCEPT !.hasKey = TRUE, !.inner.fed = Append(@, Head(inp))]
  OBVIOUS
<1>6. CASE ~ d.on
  <2>1. d' = d /\ Finished
    BY <1>2, <1>6
  <2>2. d' \in CoderOf /\ Off(d')
    BY <1>1, <1>6, <2>1
  <2> QED
    BY <2>1, <2>2, VideoFinished
<1>7. CASE d.on /\ ~ s.running
  <2>1. d' = Restarted(s, again) /\ Finished
    BY <1>2, <1>3, <1>7
  <2>2. d' \in CoderOf /\ (Off(d') \/ Unfed(d')) /\ d'.on
    BY <1>4, <1>7, <2>1, ReadyOpen, RestartedIs
  <2> QED
    BY <2>1, <2>2, VideoFinished
<1>8. CASE d.on /\ s.running /\ ~ s.hasKey /\ ~ Pkt.key
  <2>1. d' = s /\ Finished
    BY <1>2, <1>3, <1>8
  <2>2. d' \in CoderOf /\ Unfed(d') /\ d'.on
    BY <1>4, <1>8, <2>1 DEF Ready, Off, FedUpTo
  <2> QED
    BY <2>1, <2>2, VideoFinished
<1>9. CASE d.on /\ s.running /\ (s.hasKey \/ Pkt.key)
  <2>1. /\ f \in CoderOf /\ Runs(f) /\ f.hasKey /\ f.par = Pkt.par /\ f.on
        /\ Follows(f.inner.fed, Taken + 1, sent)
    <3>1. s.running /\ (s.hasKey \/ Pkt.key) /\ s.on /\ s.par = Pkt.par
      BY <1>4, <1>9
    <3>2. /\ f \in CoderOf /\ Runs(f) /\ f.hasKey /\ f.par = Pkt.par /\ (s.on => f.on)
          /\ Follows(f.inner.fed, Taken + 1, sent)
      BY <1>1, <1>4, <1>5, <3>1, VideoFed
    <3> QED
      BY <3>1, <3>2
  <2>2. \/ d' = Restarted(f, again) /\ Finished
        \/ d' = f /\ Finished
        \/ d' = f /\ Offer(f, <<0>>)
    <3>1. CASE result = "error"
      BY <1>2, <1>3, <1>5, <1>9, <3>1
    <3>2. CASE result = "none"
      BY <1>2, <1>3, <1>5, <1>9, <3>2
    <3>3. CASE result = "frame"
      BY <1>2, <1>3, <1>5, <1>9, <3>3
    <3> QED
      BY <3>1, <3>2, <3>3
  <2>3. CASE d' = Restarted(f, again) /\ Finished
    <3>1. f.open = IF f.inner = NoInner THEN 0 ELSE 1
      BY <2>1, NoInnerIs DEF Runs
    <3>2. d' \in CoderOf /\ (Off(d') \/ Unfed(d')) /\ d'.on
      BY <2>1, <2>3, <3>1, RestartedIs
    <3> QED
      BY <2>3, <3>2, VideoFinished
  <2>4. CASE d' = f /\ Finished
    <3>1. d' \in CoderOf /\ Runs(d') /\ d'.hasKey /\ d'.on /\ Follows(d'.inner.fed, Taken + 1, sent)
      BY <2>1, <2>4
    <3> QED
      BY <2>4, <3>1, VideoFinished
  <2>5. CASE d' = f /\ Offer(f, <<0>>)
    <3>1. <<0>> \in [1 .. 1 -> Int]
      OBVIOUS
    <3> QED
      BY <2>1, <2>5, <3>1, VideoFrame
  <2> QED
    BY <2>2, <2>3, <2>4, <2>5
<1> QED
  BY <1>6, <1>7, <1>8, <1>9

-----------------------------------------------------------------------------
(* The steps of a coder *)

\* A coder that is made satisfies the invariant.
LEMMA InitCoders == CoderInit => CoderIInv
<1> SUFFICES ASSUME CoderInit PROVE CoderIInv
  OBVIOUS
<1>0. FrameDur \in Nat \ {0} /\ PacketDur \in Nat /\ Stamps \subseteq BOOLEAN
  BY CodersAssumption
<1>1. /\ coder \in Coders /\ stamped \in Stamps
      /\ inp = <<>> /\ outp = <<>> /\ at = "select" /\ hand = 0 /\ batch = <<>> /\ sent = <<>>
      /\ made = <<>> /\ got = {} /\ early = {}
  BY DEF CoderInit
<1>2. PICK n \in {0, 1} : n = IF coder = "encoder" THEN 1 ELSE 0
  OBVIOUS
<1>3. d = [par |-> NoPar, inner |-> NoInner, open |-> n, running |-> FALSE, hasKey |-> FALSE,
           on |-> TRUE, ts |-> 0, samples |-> 0]
  BY <1>2 DEF CoderInit
<1>4. d \in CoderOf /\ d.inner = NoInner /\ d.open = n /\ ~ d.running /\ d.on
      /\ d.ts = 0 /\ d.samples = 0
  <2>1. NoPar \in Par /\ NoInner \in InnerOf /\ n \in Int
    BY NoInnerIs
  <2> QED
    BY <1>3, <2>1 DEF CoderOf
<1>5. CoderShape
  <2>1. <<>> \in Seq(SentOf) /\ <<>> \in Seq(MadeOf) /\ <<>> \in Seq(Nat)
    OBVIOUS
  <2> QED
    BY <1>1, <1>4, <2>1 DEF CoderShape, Places
<1>6. Len(sent) = 0 /\ Len(inp) = 0 /\ Len(outp) = 0 /\ Len(made) = 0 /\ Len(batch) = 0
  BY <1>1
<1>7. Taken = 0 /\ Pending = 0
  BY <1>6 DEF Taken, Pending
<1>8. Queue
  BY <1>1, <1>6, <1>7 DEF Queue
<1>9. Outputs
  BY <1>1, <1>6, <1>7 DEF Outputs
<1>10. Video
  <2>1. coder = "video" => Off(d)
    BY <1>2, <1>4 DEF Off
  <2> QED
    BY <1>1, <1>4, <1>6, <2>1 DEF Video, Decoder, Opened
<1>11. Encoder
  <2>1. Clock
    BY <1>0, <1>1, <1>4, <1>6, <1>7 DEF Clock, SourceTime
  <2> QED
    BY <1>1, <1>2, <1>4, <2>1 DEF Encoder, Opened
<1> QED
  BY <1>5, <1>8, <1>9, <1>10, <1>11 DEF CoderIInv

\* Step takes a packet.
LEMMA StepTakePacket ==
    ASSUME CoderIInv, TakePacket
    PROVE  CoderIInv'
<1>1. TakesNext
  BY DEF TakePacket, TakesNext
<1>2. coder \in {"video", "audio", "encoder"}
  BY CodersAssumption DEF CoderIInv, CoderShape
<1>3. CASE coder = "video"
  <2>1. VideoPacket
    BY <1>3 DEF TakePacket
  <2> QED
    BY <1>1, <1>3, <2>1, VideoTakes
<1>4. CASE coder = "audio"
  <2>1. AudioPacket
    BY <1>4 DEF TakePacket
  <2> QED
    BY <1>1, <1>4, <2>1, AudioTakes
<1>5. CASE coder = "encoder"
  <2>1. EncoderPacket
    BY <1>5 DEF TakePacket
  <2> QED
    BY <1>1, <1>5, <2>1, EncoderTakes
<1> QED
  BY <1>2, <1>3, <1>4, <1>5

\* Nothing happens to the packets and the outputs.
Idle == UNCHANGED <<coder, stamped, inp, outp, hand, batch, sent, made, got>>

\* They satisfy then what they did.
LEMMA IdleKept ==
    ASSUME CoderIInv, Idle, at' \in Places, at' = "send" <=> at = "send",
           early' \subseteq 1 .. Len(sent),
           at' \in Over => \A i \in early' : i <= Taken, d' \in CoderOf
    PROVE  /\ Queue' /\ Outputs' /\ CoderShape' /\ SentKept /\ MadeKept /\ Taken' = Taken
           /\ coder' = coder /\ stamped' = stamped
<1>1. CoderShape /\ Queue /\ Outputs
  BY DEF CoderIInv
<1>2. MadeKept
  BY <1>1, MadeSame DEF Idle
<1>3. Queue' /\ SentKept /\ Taken' = Taken
  <2>1. UNCHANGED <<sent, inp, hand>> /\ made' = made
    BY DEF Idle
  <2>2. \A i \in 1 .. Len(made') : made'[i].pkt \in 1 .. Taken
    BY <1>1, <2>1 DEF Queue
  <2> QED
    BY <1>1, <2>1, <2>2, QueueKept
<1>4. Outputs'
  <2>1. UNCHANGED <<made, batch, outp, got, coder>>
    BY DEF Idle
  <2> QED
    BY <1>1, <2>1, OutputsKept
<1>5. CoderShape'
  <2>1. early' \subseteq Nat
    OBVIOUS
  <2> QED
    BY <1>1, <2>1 DEF CoderShape, Idle
<1> QED
  BY <1>2, <1>3, <1>4, <1>5 DEF Idle

\* Nothing happens but at.
LEMMA WaitKept ==
    ASSUME CoderIInv, Idle, UNCHANGED d, at' \in Places, at' = "send" <=> at = "send", Stand,
           early' \subseteq 1 .. Len(sent), at' \in Over => \A i \in early' : i <= Taken
    PROVE  CoderIInv'
<1>1. d' \in CoderOf
  BY DEF CoderIInv, CoderShape
<1>2. /\ Queue' /\ Outputs' /\ CoderShape' /\ SentKept /\ MadeKept /\ Taken' = Taken
      /\ coder' = coder /\ stamped' = stamped
  BY <1>1, IdleKept
<1>3. Video' /\ Encoder'
  BY <1>2, InnerKept
<1> QED
  BY <1>2, <1>3 DEF CoderIInv

\* A new frame rate stops or starts the video decoder.
LEMMA StepTakeRate ==
    ASSUME CoderIInv, TakeRate
    PROVE  CoderIInv'
<1>1. coder = "video" /\ at = "select" /\ Idle /\ early' = early /\ d \in CoderOf
  BY DEF TakeRate, Idle, CoderIInv, CoderShape
<1>2. Ready(d) /\ (~ d.on => Off(d)) /\ early \subseteq 1 .. Len(sent)
  BY <1>1 DEF CoderIInv, Video, Decoder, Ready, Queue
<1>3. PICK ok \in BOOLEAN :
         IF d.on THEN d' = [StopDecoder(d) EXCEPT !.on = FALSE] /\ at' = "pause"
         ELSE d' = [Started(d, ok) EXCEPT !.on = TRUE] /\ at' = at
  BY DEF TakeRate
<1>4. /\ d' \in CoderOf /\ at' \in {"select", "pause"} /\ (Off(d') \/ Unfed(d'))
      /\ (~ d'.on => Off(d')) /\ (at' = "pause" => ~ d'.on)
  <2>1. CASE d.on
    <3>1. PICK s : s = StopDecoder(d)
      OBVIOUS
    <3>2. s \in CoderOf /\ Off(s)
      BY <1>1, <1>2, <3>1, ReadyOpen, StopDecoderIs
    <3>3. d' = [s EXCEPT !.on = FALSE] /\ at' = "pause"
      BY <1>3, <2>1, <3>1
    <3>4. /\ d' \in CoderOf /\ ~ d'.on
          /\ d'.running = s.running /\ d'.inner = s.inner /\ d'.open = s.open
      BY <3>2, <3>3 DEF CoderOf
    <3> QED
      BY <3>2, <3>3, <3>4 DEF Off
  <2>2. CASE ~ d.on
    <3>1. PICK s : s = Started(d, ok)
      OBVIOUS
    <3>2. s \in CoderOf /\ (Off(s) \/ Unfed(s))
      BY <1>1, <1>2, <2>2, <3>1, StartedIs
    <3>3. d' = [s EXCEPT !.on = TRUE] /\ at' = "select"
      BY <1>1, <1>3, <2>2, <3>1
    <3>4. d' \in CoderOf /\ d'.on
      BY <3>2, <3>3 DEF CoderOf
    <3>5. /\ d'.running = s.running /\ d'.inner = s.inner /\ d'.open = s.open
          /\ d'.par = s.par /\ d'.hasKey = s.hasKey
      BY <3>2, <3>3 DEF CoderOf
    <3> QED
      BY <3>2, <3>3, <3>4, <3>5 DEF Off, Unfed, Runs
  <2> QED
    BY <2>1, <2>2
<1>5. /\ Queue' /\ Outputs' /\ CoderShape' /\ SentKept /\ MadeKept /\ coder' = coder
  <2>1. at' \in Places /\ (at' = "send" <=> at = "send") /\ at' \notin Over
    BY <1>1, <1>4 DEF Places, Over
  <2> QED
    BY <1>1, <1>2, <1>4, <2>1, IdleKept
<1>6. Decoder'
  BY <1>4 DEF Decoder, Off, Unfed, Runs, Opened
<1>7. \A i \in 1 .. Len(made') : Decodable(made'[i], sent')
  BY <1>1, <1>5, DecodablesKept DEF CoderIInv, Video
<1>8. Video'
  BY <1>6, <1>7 DEF Video, Decodable, Follows
<1> QED
  BY <1>1, <1>5, <1>8 DEF CoderIInv, Encoder

\* A packet is given back as it is.
Returns == /\ inp # <<>> /\ GiveBack(Head(inp)) /\ inp' = Tail(inp)
           /\ UNCHANGED <<coder, stamped, outp, at, hand, d, batch, made, got, early>>

\* It is released once then, and nothing was made of it.
LEMMA ReturnKept ==
    ASSUME CoderIInv, Returns, at \in {"pause", "drain"}
    PROVE  CoderIInv'
<1>1. /\ CoderShape /\ Queue /\ Outputs
      /\ UNCHANGED <<coder, stamped, outp, at, hand, d, batch, made, got, early>>
  BY DEF CoderIInv, Returns
<1>2. MadeKept
  BY <1>1, MadeSame
<1>3. /\ Queue' /\ SentKept /\ Taken' = Taken + 1 /\ inp' \in Seq(Nat)
  <2>1. at # "send" /\ at' # "send" /\ hand' = 0 /\ (at' \in Over => at \in Over)
    BY <1>1 DEF Queue
  <2>2. \A i \in 1 .. Len(made') : made'[i].pkt \in 1 .. Taken + 1
    <3>1. Taken \in Nat /\ \A i \in 1 .. Len(made) : made[i].pkt \in 1 .. Taken
      BY <1>1 DEF Queue
    <3>2. \A i \in 1 .. Len(made) : made[i].pkt \in 1 .. Taken + 1
      BY <3>1
    <3> QED
      BY <1>1, <3>2
  <2>3. inp # <<>> /\ GiveBack(Head(inp)) /\ inp' = Tail(inp)
    BY DEF Returns
  <2> QED
    BY <1>1, <2>1, <2>2, <2>3, TakenBack
<1>4. Outputs'
  BY <1>1, OutputsKept
<1>5. CoderShape'
  BY <1>1, <1>3 DEF CoderShape, SentKept
<1>6. coder = "video" => Off(d)
  BY DEF CoderIInv, Video, Decoder, Opened
<1>7. Taken + 1 <= Len(sent)
  <2>1. inp # <<>>
    BY DEF Returns
  <2> QED
    BY <1>1, <2>1, TakingIs
<1>8. Stand
  BY <1>1 DEF Stand
<1>9. Video' /\ Encoder'
  BY <1>1, <1>2, <1>3, <1>6, <1>7, <1>8, InnerKept
<1> QED
  BY <1>3, <1>4, <1>5, <1>9 DEF CoderIInv

\* What waits is given back while the rate is zero.
LEMMA StepPausePacket ==
    ASSUME CoderIInv, PausePacket
    PROVE  CoderIInv'
<1>1. Returns /\ at \in {"pause", "drain"}
  BY DEF PausePacket, Returns
<1> QED
  BY <1>1, ReturnKept

\* Release gives back what waits.
LEMMA StepDrainInput ==
    ASSUME CoderIInv, DrainInput
    PROVE  CoderIInv'
<1>1. CASE inp = <<>>
  <2>1. at = "drain" /\ at' = "empty" /\ Idle /\ UNCHANGED <<d, early>>
    BY <1>1 DEF DrainInput, Idle
  <2>2. /\ at' \in Places /\ (at' = "send" <=> at = "send") /\ Stand
    BY <2>1 DEF Places, Stand, Opened
  <2>3. early' \subseteq 1 .. Len(sent) /\ \A i \in early' : i <= Taken
    <3>1. Taken = Len(sent) /\ Len(sent) \in Nat
      BY <1>1 DEF Taken, CoderIInv, CoderShape
    <3>2. early \subseteq 1 .. Len(sent)
      BY DEF CoderIInv, Queue
    <3> QED
      BY <2>1, <3>1, <3>2
  <2> QED
    BY <2>1, <2>2, <2>3, WaitKept
<1>2. CASE inp # <<>>
  <2>1. Returns /\ at \in {"pause", "drain"}
    BY <1>2 DEF DrainInput, Returns
  <2> QED
    BY <2>1, ReturnKept
<1> QED
  BY <1>1, <1>2

\* The pause ends.
LEMMA StepPauseOver ==
    ASSUME CoderIInv, PauseOver
    PROVE  CoderIInv'
<1>1. at = "pause" /\ at' = "select" /\ Idle /\ UNCHANGED <<d, early>>
  BY DEF PauseOver, Idle
<1>2. /\ at' \in Places /\ (at' = "send" <=> at = "send") /\ Stand /\ at' \notin Over
  BY <1>1 DEF Places, Stand, Opened, Over
<1>3. early' \subseteq 1 .. Len(sent)
  BY <1>1 DEF CoderIInv, Queue
<1> QED
  BY <1>1, <1>2, <1>3, WaitKept

\* The selects see the stop channel.
LEMMA StepSelectsStop ==
    ASSUME CoderIInv, SelectsStop
    PROVE  CoderIInv'
<1>1. at \in {"select", "pause"} /\ at' = "release" /\ early' = DOMAIN sent /\ Idle /\ UNCHANGED d
  BY DEF SelectsStop, Idle
<1>2. /\ at' \in Places /\ (at' = "send" <=> at = "send") /\ Stand /\ at' \notin Over
  BY <1>1 DEF Places, Stand, Opened, Over
<1>3. early' \subseteq 1 .. Len(sent)
  BY <1>1 DEF CoderIInv, CoderShape
<1> QED
  BY <1>1, <1>2, <1>3, WaitKept

\* Release closes the input channel.
LEMMA StepCloseInput ==
    ASSUME CoderIInv, CloseInput
    PROVE  CoderIInv'
<1>1. at = "empty" /\ at' \in {"closed", "drainout"} /\ Idle /\ UNCHANGED <<d, early>>
  BY DEF CloseInput, Idle
<1>2. /\ at' \in Places /\ (at' = "send" <=> at = "send") /\ Stand
  BY <1>1 DEF Places, Stand, Opened
<1>3. early' \subseteq 1 .. Len(sent) /\ \A i \in early' : i <= Taken
  BY <1>1 DEF CoderIInv, Queue
<1> QED
  BY <1>1, <1>2, <1>3, WaitKept

\* The user calls Close.
LEMMA StepCloseCoder ==
    ASSUME CoderIInv, CloseCoder
    PROVE  CoderIInv'
<1>1. Idle /\ UNCHANGED <<d, early, at>>
  BY DEF CloseCoder, Idle
<1>2. /\ at' \in Places /\ (at' = "send" <=> at = "send") /\ Stand
  BY <1>1 DEF Stand, CoderIInv, CoderShape
<1>3. early' \subseteq 1 .. Len(sent) /\ (at' \in Over => \A i \in early' : i <= Taken)
  BY <1>1 DEF CoderIInv, Queue, Over
<1> QED
  BY <1>1, <1>2, <1>3, WaitKept

\* Release closes the inner codec.
LEMMA StepCloseInner ==
    ASSUME CoderIInv, CloseInner
    PROVE  CoderIInv'
<1>1. at = "release" /\ at' = "drain" /\ Idle /\ early' = early /\ d \in CoderOf
      /\ coder \in {"video", "audio", "encoder"} /\ early \subseteq 1 .. Len(sent)
  BY CodersAssumption DEF CloseInner, Idle, CoderIInv, CoderShape, Queue
<1>2. /\ at' \in Places /\ (at' = "send" <=> at = "send") /\ at' \notin Over
  BY <1>1 DEF Places, Over
<1>3. /\ Closed(d) \in CoderOf /\ Closed(d).open = d.open - 1
      /\ Closed(d).ts = d.ts /\ Closed(d).samples = d.samples
  <2>1. PICK n \in Int : n = d.open - 1
    BY <1>1 DEF CoderOf
  <2>2. Closed(d) = WithInner(d, NoInner, n)
    BY <2>1 DEF Closed, WithInner
  <2>3. NoInner \in InnerOf
    BY NoInnerIs
  <2>4. WithInner(d, NoInner, n).ts = d.ts /\ WithInner(d, NoInner, n).samples = d.samples
    BY <1>1 DEF CoderOf, WithInner
  <2> QED
    BY <1>1, <2>1, <2>2, <2>3, <2>4, WithInnerIs
<1>4. CASE coder = "video"
  <2>1. d' = StopDecoder(d)
    BY <1>4 DEF CloseInner
  <2>2. Ready(d)
    BY <1>4 DEF CoderIInv, Video, Decoder, Ready
  <2>3. d' \in CoderOf /\ Off(d')
    BY <1>1, <2>1, <2>2, ReadyOpen, StopDecoderIs
  <2>4. /\ Queue' /\ Outputs' /\ CoderShape' /\ SentKept /\ MadeKept /\ coder' = coder
    BY <1>1, <1>2, <2>3, IdleKept
  <2>5. Decoder'
    BY <1>1, <2>3 DEF Decoder, Off
  <2>6. \A i \in 1 .. Len(made') : Decodable(made'[i], sent')
    BY <1>4, <2>4, DecodablesKept DEF CoderIInv, Video
  <2>7. Video'
    BY <2>5, <2>6 DEF Video, Decodable, Follows
  <2> QED
    BY <1>4, <2>4, <2>7 DEF CoderIInv, Encoder
<1>5. CASE coder = "audio"
  <2>1. d' \in {d, Closed(d)}
    BY <1>5 DEF CloseInner
  <2>2. /\ Queue' /\ Outputs' /\ CoderShape' /\ coder' = coder
    BY <1>1, <1>2, <1>3, <2>1, IdleKept
  <2> QED
    BY <1>5, <2>2 DEF CoderIInv, Encoder, Video
<1>6. CASE coder = "encoder"
  <2>1. d' = Closed(d)
    BY <1>6 DEF CloseInner
  <2>2. d.open = 1 /\ (stamped => Clock) /\ d.samples \in Nat
    BY <1>1, <1>6 DEF CoderIInv, Encoder, Opened, CoderOf
  <2>3. /\ d' \in CoderOf /\ d'.open = 0 /\ d'.ts = d.ts /\ d'.samples = d.samples
    BY <1>3, <2>1, <2>2
  <2>4. /\ Queue' /\ Outputs' /\ CoderShape' /\ SentKept /\ MadeKept /\ coder' = coder
        /\ stamped' = stamped /\ Taken' = Taken
    BY <1>1, <1>2, <2>3, IdleKept
  <2>5. ASSUME Clock PROVE Clock'
    BY <2>2, <2>3, <2>4, <2>5, ClockKept DEF CoderIInv
  <2>6. Encoder'
    BY <1>1, <2>2, <2>3, <2>4, <2>5 DEF Encoder, Opened
  <2> QED
    BY <1>6, <2>4, <2>6 DEF CoderIInv, Video
<1> QED
  BY <1>1, <1>4, <1>5, <1>6

\* An output is sent, and with the last the packet is given back.
LEMMA StepSendOutput ==
    ASSUME CoderIInv, SendOutput
    PROVE  CoderIInv'
<1>1. /\ CoderShape /\ Queue /\ Outputs /\ at = "send"
      /\ UNCHANGED <<coder, stamped, inp, d, made, got, early>>
  BY DEF SendOutput, CoderIInv
<1>2. SendsFirst
  BY DEF SendOutput, SendsFirst
<1>3. Outputs' /\ outp' \in Seq(Nat) /\ batch' \in Seq(Nat)
  BY <1>1, <1>2, SentOut
<1>4. MadeKept
  BY <1>1, MadeSame
<1>5. early \subseteq 1 .. Len(sent) /\ \A i \in 1 .. Len(made') : made'[i].pkt \in 1 .. Taken
  BY <1>1 DEF Queue
<1>6. /\ Queue' /\ SentKept /\ Taken' = Taken /\ hand' \in Nat /\ at' \in {"send", "select"}
  <2>1. CASE Len(batch) > 1
    <3>1. UNCHANGED <<at, hand, sent>>
      BY <2>1 DEF SendOutput
    <3>2. (at' = "send" <=> at = "send") /\ at' \notin Over /\ hand \in Nat
      BY <1>1, <3>1 DEF Over, CoderShape
    <3> QED
      BY <1>1, <1>5, <3>1, <3>2, QueueKept
  <2>2. CASE ~ (Len(batch) > 1)
    <3>1. at' = "select" /\ hand' = 0 /\ GiveBack(hand)
      BY <2>2 DEF SendOutput
    <3>2. at' # "send" /\ at' \notin Over
      BY <3>1 DEF Over
    <3> QED
      BY <1>1, <1>5, <3>1, <3>2, HandBack
  <2> QED
    BY <2>1, <2>2
<1>7. CoderShape'
  BY <1>1, <1>3, <1>6 DEF CoderShape, SentKept, Places
<1>8. Stand
  BY <1>1, <1>6 DEF Stand, Opened
<1>9. Video' /\ Encoder'
  BY <1>1, <1>4, <1>6, <1>8, InnerKept
<1> QED
  BY <1>3, <1>6, <1>7, <1>9 DEF CoderIInv

\* Close comes while an output waits.
LEMMA StepSendStopped ==
    ASSUME CoderIInv, SendStopped
    PROVE  CoderIInv'
<1>1. /\ CoderShape /\ Queue /\ Outputs /\ at = "send" /\ at' = "release"
      /\ early' = DOMAIN sent /\ hand' = 0 /\ batch' = <<>> /\ GiveBack(hand)
      /\ UNCHANGED <<coder, stamped, inp, outp, got>> /\ d \in CoderOf
  BY DEF SendStopped, CoderIInv, CoderShape
<1>2. StopsSending
  BY DEF SendStopped, StopsSending
<1>3. Outputs' /\ MadeKept
  BY <1>1, <1>2, Stopped
<1>4. /\ Queue' /\ SentKept /\ Taken' = Taken
  <2>1. early' \subseteq 1 .. Len(sent)
    BY <1>1 DEF CoderShape
  <2>2. at' # "send" /\ at' \notin Over
    BY <1>1 DEF Over
  <2>3. \A i \in 1 .. Len(made') : made'[i].pkt \in 1 .. Taken
    BY <1>1, <1>3 DEF Queue, MadeKept
  <2> QED
    BY <1>1, <2>1, <2>2, <2>3, HandBack
<1>5. d' \in CoderOf => CoderShape'
  <2>1. early' \subseteq Nat /\ <<>> \in Seq(Nat)
    BY <1>1 DEF CoderShape
  <2> QED
    BY <1>1, <1>3, <1>4, <2>1 DEF CoderShape, SentKept, MadeKept, Places
<1>6. CASE coder = "video"
  <2>1. PICK again \in BOOLEAN : d' = Restarted(d, again)
    BY <1>6 DEF SendStopped
  <2>2. Ready(d) /\ d.on
    BY <1>1, <1>6 DEF CoderIInv, Video, Decoder, Ready
  <2>3. d' \in CoderOf /\ (Off(d') \/ Unfed(d')) /\ d'.on
    BY <1>1, <2>1, <2>2, ReadyOpen, RestartedIs
  <2>4. Decoder'
    BY <1>1, <2>3 DEF Decoder, Off, Unfed, Runs, Opened
  <2>5. \A i \in 1 .. Len(made') : Decodable(made'[i], sent')
    BY <1>1, <1>3, <1>4, <1>6, DecodablesKept DEF CoderIInv, Video
  <2>6. Video'
    BY <2>4, <2>5 DEF Video, Decodable, Follows
  <2> QED
    BY <1>1, <1>3, <1>4, <1>5, <1>6, <2>3, <2>6 DEF CoderIInv, Encoder
<1>7. CASE coder # "video"
  <2>1. d' = d
    BY <1>7 DEF SendStopped
  <2>2. Stand
    BY <1>1 DEF Stand, Opened
  <2>3. Video' /\ Encoder'
    BY <1>1, <1>3, <1>4, <2>1, <2>2, InnerKept
  <2> QED
    BY <1>1, <1>3, <1>4, <1>5, <2>1, <2>3 DEF CoderIInv
<1> QED
  BY <1>6, <1>7

\* Release gives back outputs that nobody received.
LEMMA StepDrainOutput ==
    ASSUME CoderIInv, DrainOutput
    PROVE  CoderIInv'
<1>1. CASE outp = <<>>
  <2>1. at = "drainout" /\ at' = "closed" /\ Idle /\ UNCHANGED <<d, early>>
    BY <1>1 DEF DrainOutput, Idle
  <2>2. /\ at' \in Places /\ (at' = "send" <=> at = "send") /\ Stand
    BY <2>1 DEF Places, Stand, Opened
  <2>3. early' \subseteq 1 .. Len(sent) /\ \A i \in early' : i <= Taken
    BY <2>1 DEF CoderIInv, Queue
  <2> QED
    BY <2>1, <2>2, <2>3, WaitKept
<1>2. CASE outp # <<>>
  <2>1. /\ CoderShape /\ Queue /\ Outputs /\ at = "drainout" /\ at' = at
        /\ UNCHANGED <<coder, stamped, inp, hand, d, batch, sent, got, early>>
    BY <1>2 DEF DrainOutput, CoderIInv
  <2>2. Drains
    BY <1>2 DEF DrainOutput, Drains
  <2>3. Outputs' /\ MadeKept /\ outp' \in Seq(Nat)
    BY <2>1, <2>2, Drained
  <2>4. Queue' /\ SentKept /\ Taken' = Taken
    <3>1. early' \subseteq 1 .. Len(sent) /\ (at' \in Over => \A i \in early' : i <= Taken)
      BY <2>1 DEF Queue, Over
    <3>2. \A i \in 1 .. Len(made') : made'[i].pkt \in 1 .. Taken
      BY <2>1, <2>3 DEF Queue, MadeKept
    <3> QED
      BY <2>1, <3>1, <3>2, QueueKept
  <2>5. CoderShape'
    BY <2>1, <2>3 DEF CoderShape, MadeKept
  <2>6. Stand
    BY <2>1 DEF Stand
  <2>7. Video' /\ Encoder'
    BY <2>1, <2>3, <2>4, <2>6, InnerKept
  <2> QED
    BY <2>3, <2>4, <2>5, <2>7 DEF CoderIInv
<1> QED
  BY <1>1, <1>2

\* The consumer receives an output.
LEMMA StepReceive ==
    ASSUME CoderIInv, Receive
    PROVE  CoderIInv'
<1>1. /\ CoderShape /\ Queue /\ Outputs
      /\ UNCHANGED <<coder, stamped, inp, at, hand, d, batch, sent, made, early>>
  BY DEF Receive, CoderIInv
<1>2. Receives
  BY DEF Receive, Receives
<1>3. Outputs' /\ outp' \in Seq(Nat) /\ got' \subseteq Nat
  BY <1>1, <1>2, Received
<1>4. MadeKept
  BY <1>1, MadeSame
<1>5. Queue' /\ SentKept /\ Taken' = Taken
  <2>1. early' \subseteq 1 .. Len(sent) /\ (at' \in Over => \A i \in early' : i <= Taken)
        /\ \A i \in 1 .. Len(made') : made'[i].pkt \in 1 .. Taken
    BY <1>1 DEF Queue, Over
  <2> QED
    BY <1>1, <2>1, QueueKept
<1>6. CoderShape'
  BY <1>1, <1>3 DEF CoderShape
<1>7. Stand
  BY <1>1 DEF Stand
<1>8. Video' /\ Encoder'
  BY <1>1, <1>4, <1>5, <1>7, InnerKept
<1> QED
  BY <1>3, <1>5, <1>6, <1>8 DEF CoderIInv

\* The user sends a packet.
LEMMA StepSend ==
    ASSUME CoderIInv, Send
    PROVE  CoderIInv'
<1>0. PacketDur \in Nat /\ \A g \in SourceGaps : g \in Nat /\ g >= PacketDur
  BY CodersAssumption
<1>1. /\ CoderShape /\ Queue /\ Outputs
      /\ UNCHANGED <<coder, stamped, outp, at, hand, d, batch, made, got, early>>
      /\ inp' = Append(inp, Len(sent) + 1)
  BY DEF Send, CoderIInv
<1>2. PICK l \in Nat, n \in Nat : l = Len(sent) /\ n = Taken /\ n <= l
  <2>1. Taken \in 0 .. Len(sent) /\ Len(sent) \in Nat
    BY <1>1, TakenIn
  <2> QED
    BY <2>1
<1>3. PICK par \in CodecPars, key \in BOOLEAN, gap \in SourceGaps :
         sent' = Append(sent, [par |-> par, key |-> key, ts |-> LastTime + gap, releases |-> 0])
  BY DEF Send
<1>4. LastTime = SourceTime(l) /\ SourceTime(l) \in Nat
  <2>1. CASE sent = <<>>
    BY <1>2, <2>1 DEF LastTime, SourceTime
  <2>2. CASE sent # <<>>
    <3>1. l # 0 /\ l \in 1 .. l /\ sent[l] \in SentOf /\ LastTime = sent[l].ts
      BY <1>1, <1>2, <2>2 DEF CoderShape, LastTime, Last
    <3> QED
      BY <3>1 DEF SourceTime, SentOf
  <2> QED
    BY <2>1, <2>2
<1>5. PICK p \in SentOf : /\ p = [par |-> par, key |-> key, ts |-> LastTime + gap, releases |-> 0]
                          /\ p.ts >= SourceTime(l) + PacketDur /\ p.releases = 0
  <2>1. gap \in Nat /\ gap >= PacketDur
    BY <1>0
  <2>2. PICK t \in Nat : t = LastTime + gap /\ t >= SourceTime(l) + PacketDur
    BY <1>0, <1>4, <2>1
  <2>3. [par |-> par, key |-> key, ts |-> t, releases |-> 0] \in SentOf
    BY DEF SentOf
  <2> QED
    BY <2>2, <2>3
<1>6. /\ sent' \in Seq(SentOf) /\ Len(sent') = l + 1 /\ sent'[l + 1] = p
      /\ \A i \in 1 .. l : sent'[i] = sent[i]
  <2>1. sent' = Append(sent, p) /\ sent \in Seq(SentOf)
    BY <1>1, <1>3, <1>5 DEF CoderShape
  <2> QED
    BY <1>2, <2>1
<1>7. SentKept
  BY <1>2, <1>6 DEF SentKept, Same
<1>8. PICK m \in Nat : m = Len(inp) /\ n = l - m
  <2>1. Len(inp) \in Nat
    BY <1>1 DEF CoderShape
  <2> QED
    BY <1>2, <2>1 DEF Taken
<1>9. /\ inp' \in Seq(Nat) /\ Len(inp') = m + 1 /\ inp'[m + 1] = l + 1
      /\ \A k \in 1 .. m : inp'[k] = inp[k]
  <2>1. inp' = Append(inp, l + 1) /\ inp \in Seq(Nat) /\ l + 1 \in Nat
    BY <1>1, <1>2 DEF CoderShape
  <2> QED
    BY <1>8, <2>1
<1>10. Taken' = n
  BY <1>6, <1>8, <1>9 DEF Taken
<1>11. MadeKept
  BY <1>1, MadeSame
<1>12. Queue'
  <2>1. \A k \in 1 .. Len(inp') : inp'[k] = n + k
    <3>1. \A k \in 1 .. m : inp[k] = n + k
      BY <1>1, <1>2, <1>8 DEF Queue
    <3>2. n + (m + 1) = l + 1
      BY <1>8
    <3> QED
      BY <1>9, <3>1, <3>2
  <2>2. IF at = "send" THEN hand = n /\ n >= 1 ELSE hand = 0
    BY <1>1, <1>2 DEF Queue
  <2>3. ASSUME NEW i \in 1 .. l + 1
        PROVE  /\ sent'[i].releases = IF i <= n /\ i # hand THEN 1 ELSE 0
               /\ sent'[i].ts >= SourceTime(i - 1)' + PacketDur
    <3>1. \A k \in 0 .. l : SourceTime(k)' = SourceTime(k)
      BY <1>1, <1>2, <1>7, SourceTimesKept
    <3>2. CASE i \in 1 .. l
      <4>1. /\ sent[i].releases = IF i <= n /\ i # hand THEN 1 ELSE 0
            /\ sent[i].ts >= SourceTime(i - 1) + PacketDur
        BY <1>1, <1>2, <3>2 DEF Queue
      <4>2. i - 1 \in 0 .. l
        BY <3>2
      <4> QED
        BY <1>6, <3>1, <3>2, <4>1, <4>2
    <3>3. CASE i = l + 1
      <4>1. i - 1 = l /\ l \in 0 .. l /\ ~ (i <= n)
        BY <1>2, <3>3
      <4> QED
        BY <1>5, <1>6, <3>1, <3>3, <4>1
    <3> QED
      BY <3>2, <3>3
  <2>4. early \subseteq 1 .. l + 1
    BY <1>1, <1>2 DEF Queue
  <2>5. at \in {"empty", "drainout", "closed"} => \A i \in early : i <= n
    BY <1>1, <1>2 DEF Queue
  <2>6. \A i \in 1 .. Len(made) : made[i].pkt \in 1 .. n
    BY <1>1, <1>2 DEF Queue
  <2> QED
    BY <1>1, <1>6, <1>10, <2>1, <2>2, <2>3, <2>4, <2>5, <2>6 DEF Queue
<1>13. Outputs'
  BY <1>1, OutputsKept
<1>14. CoderShape'
  BY <1>1, <1>6, <1>9 DEF CoderShape
<1>15. Stand
  BY <1>1 DEF Stand
<1>16. Video' /\ Encoder'
  BY <1>1, <1>2, <1>7, <1>10, <1>11, <1>15, InnerKept
<1> QED
  BY <1>12, <1>13, <1>14, <1>16 DEF CoderIInv

\* Every packet and every output is where the code has put it, the inner decoder of
\* video was fed a run of packets from a keyframe on, and the clock of an encoder
\* that stamps is no further ahead of its source than a packet and a frame.
THEOREM CoderInvariant == CoderSpec => []CoderIInv
<1>1. CoderInit => CoderIInv
  BY InitCoders
<1>2. CoderIInv /\ [CoderNext]_coderVars => CoderIInv'
  <2> SUFFICES ASSUME CoderIInv, [CoderNext]_coderVars PROVE CoderIInv'
    OBVIOUS
  <2>1. CASE TakePacket
    BY <2>1, StepTakePacket
  <2>2. CASE TakeRate
    BY <2>2, StepTakeRate
  <2>3. CASE PausePacket
    BY <2>3, StepPausePacket
  <2>4. CASE PauseOver
    BY <2>4, StepPauseOver
  <2>5. CASE SelectsStop
    BY <2>5, StepSelectsStop
  <2>6. CASE SendOutput
    BY <2>6, StepSendOutput
  <2>7. CASE SendStopped
    BY <2>7, StepSendStopped
  <2>8. CASE CloseInner
    BY <2>8, StepCloseInner
  <2>9. CASE DrainInput
    BY <2>9, StepDrainInput
  <2>10. CASE CloseInput
    BY <2>10, StepCloseInput
  <2>11. CASE DrainOutput
    BY <2>11, StepDrainOutput
  <2>12. CASE Send
    BY <2>12, StepSend
  <2>13. CASE Receive
    BY <2>13, StepReceive
  <2>14. CASE CloseCoder
    BY <2>14, StepCloseCoder
  <2>15. CASE UNCHANGED coderVars
    <3>1. Idle /\ UNCHANGED <<d, early, at>>
      BY <2>15 DEF coderVars, Idle
    <3>2. /\ at' \in Places /\ (at' = "send" <=> at = "send") /\ Stand
      BY <3>1 DEF Stand, CoderIInv, CoderShape
    <3>3. early' \subseteq 1 .. Len(sent) /\ (at' \in Over => \A i \in early' : i <= Taken)
      BY <3>1 DEF CoderIInv, Queue, Over
    <3> QED
      BY <3>1, <3>2, <3>3, WaitKept
  <2> QED
    BY <2>1, <2>2, <2>3, <2>4, <2>5, <2>6, <2>7, <2>8, <2>9, <2>10, <2>11, <2>12, <2>13, <2>14,
       <2>15 DEF CoderNext, CoderStep
<1> QED
  BY <1>1, <1>2, PTL DEF CoderSpec

\* Whatever failed, was paused or changed, every frame of a video decoder was made
\* by an inner decoder for its parameters that was fed all packets from a keyframe
\* to its own.
THEOREM FramesAreDecodable == CoderSpec => []FramesDecodable
<1>1. CoderIInv => FramesDecodable
  <2> SUFFICES ASSUME CoderIInv, coder = "video", NEW i \in DOMAIN made
               PROVE  /\ made[i].by.ok /\ made[i].by.par = sent[made[i].pkt].par
                      /\ sent[Head(made[i].by.fed)].key /\ Last(made[i].by.fed) = made[i].pkt
                      /\ \A j \in 1 .. Len(made[i].by.fed) - 1 :
                            made[i].by.fed[j + 1] = made[i].by.fed[j] + 1
    BY DEF FramesDecodable
  <2>1. i \in 1 .. Len(made) /\ made[i] \in MadeOf
    BY DEF CoderIInv, CoderShape
  <2>2. Decodable(made[i], sent)
    BY <2>1 DEF CoderIInv, Video
  <2>3. PICK fed \in Seq(Nat), n \in Nat : fed = made[i].by.fed /\ n = made[i].pkt
    BY <2>1 DEF MadeOf, InnerOf
  <2>4. PICK l \in Nat : /\ l = Len(fed) /\ l >= 1 /\ l <= n /\ sent[n - l + 1].key /\ fed # <<>>
                         /\ \A j \in 1 .. l : fed[j] = n - l + j
    <3>1. Follows(fed, n, sent) /\ Len(fed) \in Nat
      BY <2>2, <2>3 DEF Decodable
    <3>2. fed # <<>> => Len(fed) >= 1
      OBVIOUS
    <3> QED
      BY <3>1, <3>2 DEF Follows
  <2>5. Head(fed) = n - l + 1
    <3>1. Head(fed) = fed[1] /\ 1 \in 1 .. l
      BY <2>4
    <3> QED
      BY <2>4, <3>1
  <2>6. Last(fed) = n
    <3>1. Last(fed) = fed[l] /\ l \in 1 .. l
      BY <2>4 DEF Last
    <3>2. n - l + l = n
      BY <2>4
    <3> QED
      BY <2>4, <3>1, <3>2
  <2>7. ASSUME NEW j \in 1 .. l - 1 PROVE fed[j + 1] = fed[j] + 1
    <3>1. j \in 1 .. l /\ j + 1 \in 1 .. l
      BY <2>4
    <3>2. fed[j] = n - l + j /\ fed[j + 1] = n - l + (j + 1)
      BY <2>4, <3>1
    <3> QED
      BY <2>4, <3>1, <3>2
  <2>8. made[i].by.ok /\ made[i].by.par = sent[made[i].pkt].par
    BY <2>2 DEF Decodable
  <2> QED
    BY <2>3, <2>4, <2>5, <2>6, <2>7, <2>8
<1> QED
  BY <1>1, CoderInvariant, PTL

\* Every packet that is taken is given back once, the slot of decoded audio has one
\* owner until it is, and but one inner decoder or encoder is open.
THEOREM CodersOwn == CoderSpec => []CodersOwnOnce
<1>1. CoderIInv => CodersOwnOnce
  <2> SUFFICES ASSUME CoderIInv PROVE CodersOwnOnce
    OBVIOUS
  <2>0. CoderShape /\ Queue /\ Outputs /\ coder \in {"video", "audio", "encoder"}
        /\ DOMAIN sent = 1 .. Len(sent) /\ DOMAIN made = 1 .. Len(made)
    BY CodersAssumption DEF CoderIInv, CoderShape
  <2>1. PICK n \in 0 .. Len(sent), l \in Nat : n = Taken /\ l = Len(sent) /\ Len(inp) = l - n
    <3>1. Taken \in 0 .. Len(sent) /\ Len(sent) \in Nat /\ Len(inp) \in Nat
      BY <2>0, TakenIn DEF CoderShape
    <3>2. Len(inp) = Len(sent) - Taken
      BY <3>1 DEF Taken
    <3> QED
      BY <3>1, <3>2
  <2>2. ASSUME NEW i \in DOMAIN sent
        PROVE  PacketOwners(i) + sent[i].releases = 1
    <3>1. i \in 1 .. l
      BY <2>0, <2>1
    <3>2. \A k \in 1 .. Len(inp) : inp[k] = n + k
      BY <2>0, <2>1 DEF Queue
    <3>3. Contains(inp, i) <=> i > n
      <4>1. ASSUME i > n PROVE \E k \in 1 .. Len(inp) : inp[k] = i
        <5>1. i - n \in 1 .. Len(inp) /\ n + (i - n) = i
          BY <2>1, <3>1, <4>1
        <5> QED
          BY <3>2, <5>1
      <4>2. ASSUME NEW k \in 1 .. Len(inp), inp[k] = i PROVE i > n
        BY <2>1, <3>2, <4>2
      <4> QED
        BY <4>1, <4>2 DEF Contains
    <3>4. sent[i].releases = IF i <= n /\ i # hand THEN 1 ELSE 0
      BY <2>0, <2>1, <3>1 DEF Queue
    <3>5. hand = n \/ hand = 0
      BY <2>0, <2>1 DEF Queue
    <3>6. Has(inp, i) = IF i > n THEN 1 ELSE 0
      BY <3>3 DEF Has
    <3> QED
      BY <2>1, <3>1, <3>4, <3>5, <3>6 DEF PacketOwners
  <2>3. ASSUME at = "closed", NEW i \in early
        PROVE  sent[i].releases = 1
    <3>1. i \in 1 .. Len(sent) /\ i <= Taken /\ hand = 0
      BY <2>0, <2>3 DEF Queue
    <3> QED
      BY <2>0, <3>1 DEF Queue
  <2>4. ASSUME coder = "audio", NEW i \in DOMAIN made
        PROVE  OutputOwners(i) + made[i].releases = 1
    <3>1. PICK p \in Nat : p = Pending
      BY <2>0 DEF Outputs
    <3>2. PICK m \in Nat, b \in Nat : m = Len(made) /\ b = Len(batch) /\ p = m - b
      <4>1. Len(made) \in Nat /\ Len(batch) \in Nat
        BY <2>0 DEF CoderShape
      <4>2. p = Len(made) - Len(batch)
        BY <3>1 DEF Pending
      <4> QED
        BY <4>1, <4>2
    <3>3. /\ \A k \in 1 .. b : batch[k] = p + k
          /\ \A k \in 1 .. Len(outp) : outp[k] \in 1 .. p /\ outp[k] \notin got
          /\ got \subseteq 1 .. p
      BY <2>0, <3>1, <3>2 DEF Outputs
    <3>4. made[i].releases = IF i > p \/ i \in got \/ In(outp, i) THEN 0 ELSE 1
      BY <2>0, <2>4, <3>1 DEF Outputs
    <3>5. Has(outp, i) = IF In(outp, i) THEN 1 ELSE 0
      BY DEF Has, Contains, In
    <3>6. Has(batch, i) = IF i > p THEN 1 ELSE 0
      <4>1. ASSUME i > p PROVE \E k \in 1 .. Len(batch) : batch[k] = i
        <5>1. i - p \in 1 .. b /\ p + (i - p) = i
          BY <2>0, <3>2, <4>1
        <5> QED
          BY <3>2, <3>3, <5>1
      <4>2. ASSUME NEW k \in 1 .. Len(batch), batch[k] = i PROVE i > p
        BY <3>2, <3>3, <4>2
      <4>3. Contains(batch, i) <=> i > p
        BY <4>1, <4>2 DEF Contains
      <4> QED
        BY <4>3 DEF Has
    <3>7. /\ In(outp, i) => i \notin got /\ ~ (i > p)
          /\ i \in got => ~ (i > p)
      BY <3>3 DEF In
    <3> QED
      BY <3>4, <3>5, <3>6, <3>7 DEF OutputOwners
  <2>5. ASSUME coder # "audio"
        PROVE  d.open = (IF InnerInUse THEN 1 ELSE 0)
    <3>1. CASE coder = "video"
      <4>1. Ready(d)
        BY <3>1 DEF CoderIInv, Video, Decoder, Ready
      <4> QED
        BY <3>1, <4>1, ReadyOpen DEF InnerInUse
    <3>2. CASE coder = "encoder"
      <4>1. at # "pause" /\ d.open = IF at \in Opened THEN 1 ELSE 0
        BY <3>2 DEF CoderIInv, Encoder
      <4> QED
        BY <3>2, <4>1 DEF InnerInUse, Opened
    <3> QED
      BY <2>0, <2>5, <3>1, <3>2
  <2> QED
    BY <2>2, <2>3, <2>4, <2>5 DEF CodersOwnOnce
<1> QED
  BY <1>1, CoderInvariant, PTL

\* Encoders that give their frames the time of the source follow its clock.
THEOREM EncodedFollow ==
    ASSUME Stamps = {TRUE}
    PROVE  CoderSpec => []EncodedFollowSource
<1>1. CoderIInv => EncodedFollowSource
  <2> SUFFICES ASSUME CoderIInv, coder = "encoder", NEW i \in DOMAIN made
               PROVE  /\ ~Apart(made[i].ts, sent[made[i].pkt].ts)
                      /\ i > 1 => made[i - 1].ts < made[i].ts
    BY DEF EncodedFollowSource
  <2>1. i \in 1 .. Len(made) /\ stamped
    BY DEF CoderIInv, CoderShape
  <2>2. Clock
    BY <2>1 DEF CoderIInv, Encoder
  <2> QED
    BY <2>1, <2>2 DEF Clock
<1> QED
  BY <1>1, CoderInvariant, PTL
=============================================================================

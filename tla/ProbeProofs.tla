----------------------------- MODULE ProbeProofs -----------------------------
(***************************************************************************)
(* The two promises of the readiness probe for every readiness_seconds.    *)
(* The invariant ties the loop's count of dead observations to what it has *)
(* seen: a first one may come from a PID file that is not this launch's,   *)
(* but only in the first poll; and every poll that begins after a crash,   *)
(* or that a running engine was too slow for, has been counted.            *)
(***************************************************************************)
EXTENDS ReadinessProbe, TLAPS

\* What the PID file holds at each point of the launch.
FileInv ==
  /\ pidfile \in {"absent", "old", "reused"} <=> launch \in {"spawned", "failed"}
  /\ pidfile = "empty" <=> launch = "writing"
  /\ engine = "up" /\ launch # "running" => already

\* The poll that is being checked, if any, and the observations so far.
Failed == deads + (IF pc = "check" THEN 1 ELSE 0)

CountInv ==
  /\ deads <= 1
  /\ deads = 1 /\ pc # "done" => poll > 1 \/ pc = "sleep"
  /\ pc = "check" /\ poll > 1 => launch \notin {"spawned", "writing"}
  /\ already /\ engine = "up" => slow >= Failed
  /\ late > 0 => Crashed
  /\ pc # "done" => late <= Failed
  /\ late <= 2

Inv == FileInv /\ CountInv /\ CrashVerdictIsTrue

LEMMA PollsType == Polls \in Nat /\ Polls >= 1
  BY SecondsAssumption, SMT DEF Polls, SleepSeconds

LEMMA TypeStep == TypeOK /\ deads <= 1 /\ [Next]_vars => TypeOK'
<1> SUFFICES ASSUME TypeOK, deads <= 1, [Next]_vars PROVE TypeOK'
  OBVIOUS
<1>1. CASE World
  BY <1>1 DEF World, OpenPidfile, WritePid, EngineComesUp, LaunchExits, EngineDies, TypeOK, loop, Verdicts
<1>2. CASE CurlAnswers \/ CurlFails
  BY <1>2, PollsType DEF CurlAnswers, CurlFails, Exit, TypeOK, world, Verdicts
<1>3. CASE CheckLaunch
  BY <1>3, PollsType DEF CheckLaunch, Exit, TypeOK, world, Verdicts
<1>4. CASE Sleep
  BY <1>4, PollsType DEF Sleep, LastPoll, Exit, TypeOK, world, Verdicts
<1>5. CASE UNCHANGED vars
  BY <1>5 DEF vars, world, loop, TypeOK
<1> QED BY <1>1, <1>2, <1>3, <1>4, <1>5 DEF Next, Loop

LEMMA InvInit == Init => TypeOK /\ Inv
  BY PollsType DEF Init, TypeOK, Inv, FileInv, CountInv, Failed, Crashed, CrashVerdictIsTrue, Verdicts

LEMMA InvStep == TypeOK /\ Inv /\ [Next]_vars => Inv'
<1> SUFFICES ASSUME TypeOK, Inv, [Next]_vars PROVE Inv'
  OBVIOUS
<1> USE DEF Inv, FileInv, CountInv, CrashVerdictIsTrue, Failed, Crashed, TypeOK
<1>1. CASE OpenPidfile \/ WritePid
  BY <1>1 DEF OpenPidfile, WritePid, loop, Verdicts
<1>2. CASE EngineComesUp
  BY <1>2 DEF EngineComesUp, loop
<1>3. CASE LaunchExits \/ EngineDies
  BY <1>3 DEF LaunchExits, EngineDies, loop
<1>4. CASE CurlAnswers
  BY <1>4 DEF CurlAnswers, Exit, world
<1>5. CASE CurlFails
  BY <1>5 DEF CurlFails, Written, world
<1>6. CASE CheckLaunch
  BY <1>6 DEF CheckLaunch, LaunchIsDead, Enough, Exit, world
<1>7. CASE Sleep
  BY <1>7, PollsType DEF Sleep, LastPoll, Exit, world
<1>8. CASE UNCHANGED vars
  BY <1>8 DEF vars, world, loop
<1> QED BY <1>1, <1>2, <1>3, <1>4, <1>5, <1>6, <1>7, <1>8 DEF Next, World, Loop

LEMMA ProbeInv == Spec => [](TypeOK /\ Inv)
<1>1. TypeOK /\ Inv /\ [Next]_vars => (TypeOK /\ Inv)'
  BY TypeStep, InvStep DEF Inv, CountInv
<1> QED BY <1>1, InvInit, PTL DEF Spec

\* For every readiness_seconds: the loop never begins more polls than it has, and
\* never counts past the observation that makes it give up.
THEOREM TypeCorrect == Spec => []TypeOK
  BY ProbeInv, PTL

\* converge.py:112-117: when the probe gives a launch up for dead, the launch is
\* dead, and if an engine is up all the same it had failed to answer twice.
THEOREM CrashVerdicts == Spec => []CrashVerdictIsTrue
  BY ProbeInv, PTL DEF Inv

\* converge.py:112-114: whatever readiness_seconds is, at most two polls begin after
\* a start has crashed.
THEOREM FailsFast == Spec => []CrashFailsFast
<1>1. Inv => CrashFailsFast
  BY DEF Inv, CountInv, CrashFailsFast
<1> QED BY <1>1, ProbeInv, PTL
=============================================================================

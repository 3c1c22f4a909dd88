--------------------------- MODULE ReadinessProbe ---------------------------
(***************************************************************************)
(* The last two commands of a converge (core/converge.py): the launch,     *)
(* which is spawned and writes its PID before it becomes `sparkrun run     *)
(* --ensure`, and _model_readiness_probe, the shell loop that waits for    *)
(* /health and gives up early when the launch process is gone.  Converge   *)
(* has the outcome of the probe in its steps ProbeModel and ProbeFails.    *)
(*                                                                         *)
(* The PID file outlives a launch, so the loop may read that of an earlier *)
(* one, and the file is empty while the new PID is being written.          *)
(***************************************************************************)
EXTENDS Naturals

CONSTANT ReadinessSeconds   \* model.readiness_seconds

ASSUME SecondsAssumption == ReadinessSeconds \in Nat

SleepSeconds == 5

Polls == IF ReadinessSeconds \div SleepSeconds > 1 THEN ReadinessSeconds \div SleepSeconds ELSE 1

VARIABLES
  pidfile,   \* "old": kill -0 fails for its PID, of a process that is gone or another
             \* user's by now; "reused": the PID belongs to a process of ours
  launch,    \* the launch process; "failed": the spawn did, which nobody looks at
  already,   \* the engine ran before the launch, which then has nothing to do
  engine,    \* up: it can answer /health
  pc, poll, deads, verdict,   \* the loop
  slow,      \* only observes: polls that timed out although the engine was up, up to 2
  late       \* only observes: polls that began after the start had crashed, up to 3

world == <<pidfile, launch, already, engine>>
loop  == <<pc, poll, deads, verdict>>
vars  == <<world, loop, slow, late>>

Verdicts == {"none", "ready", "crashed", "timeout"}

TypeOK ==
  /\ pidfile \in {"absent", "old", "reused", "empty", "new"}
  /\ launch \in {"spawned", "writing", "running", "gone", "failed"}
  /\ already \in BOOLEAN /\ engine \in {"down", "up"}
  /\ pc \in {"curl", "check", "sleep", "done"} /\ verdict \in Verdicts
  /\ poll \in 1 .. Polls /\ deads \in 0 .. 2
  /\ slow \in 0 .. 2 /\ late \in 0 .. 3

Init ==
  /\ pidfile \in {"absent", "old", "reused"}
  /\ launch \in {"spawned", "failed"}
  /\ already \in BOOLEAN
  /\ engine = IF already THEN "up" ELSE "down"
  /\ pc = "curl" /\ poll = 1 /\ deads = 0 /\ verdict = "none"
  /\ slow = 0 /\ late = 0

-----------------------------------------------------------------------------
(* The launch and the engine *)

\* echo $$ > pidfile; exec sparkrun run --ensure
OpenPidfile ==
  /\ launch = "spawned"
  /\ launch' = "writing" /\ pidfile' = "empty"
  /\ UNCHANGED <<already, engine, loop, slow, late>>

WritePid ==
  /\ launch = "writing"
  /\ launch' = "running" /\ pidfile' = "new"
  /\ UNCHANGED <<already, engine, loop, slow, late>>

EngineComesUp ==
  /\ launch = "running" /\ engine = "down" /\ ~already
  /\ engine' = "up"
  /\ UNCHANGED <<pidfile, launch, already, loop, slow, late>>

\* With an engine that runs already, --ensure is done; otherwise the launch follows
\* the log until the engine ends.
LaunchExits ==
  /\ launch = "running"
  /\ launch' = "gone"
  /\ engine' = IF already THEN engine ELSE "down"
  /\ UNCHANGED <<pidfile, already, loop, slow, late>>

EngineDies ==
  /\ already /\ engine = "up"
  /\ engine' = "down"
  /\ UNCHANGED <<pidfile, launch, already, loop, slow, late>>

World == OpenPidfile \/ WritePid \/ EngineComesUp \/ LaunchExits \/ EngineDies

-----------------------------------------------------------------------------
(* The loop *)

Crashed == launch = "gone" /\ engine = "down"

Exit(v) == pc' = "done" /\ verdict' = v /\ UNCHANGED <<poll, deads>>

\* The PID is in the file long before a second poll, five seconds later, begins.
Written == poll > 1 => launch \notin {"spawned", "writing"}

CurlAnswers ==
  /\ pc = "curl" /\ Written /\ engine = "up"
  /\ Exit("ready")
  /\ UNCHANGED <<world, slow, late>>

\* Refused, or no answer within five seconds.
CurlFails ==
  /\ pc = "curl" /\ Written
  /\ pc' = "check"
  /\ slow' = (IF engine = "up" /\ slow < 2 THEN slow + 1 ELSE slow)
  /\ late' = (IF Crashed /\ late < 3 THEN late + 1 ELSE late)
  /\ UNCHANGED <<world, poll, deads, verdict>>

\* [ -f pidfile ] && ! kill -0 "$(cat pidfile)"
LaunchIsDead == pidfile \in {"old", "empty"} \/ (pidfile = "new" /\ launch = "gone")

\* Mutant: one observation is enough.
FirstIsEnough == deads + 1 >= 1

\* Mutant: a dead launch needs one observation more.
OneMore == deads + 1 >= 3

Enough == deads + 1 >= 2

CheckLaunch ==
  /\ pc = "check"
  /\ IF ~LaunchIsDead THEN pc' = "sleep" /\ UNCHANGED <<poll, deads, verdict>>
     ELSE IF Enough THEN Exit("crashed")
     ELSE pc' = "sleep" /\ deads' = deads + 1 /\ UNCHANGED <<poll, verdict>>
  /\ UNCHANGED <<world, slow, late>>

\* Mutant: the loop has no bound.
PollsForEver ==
  /\ pc = "sleep"
  /\ pc' = "curl" /\ poll' = (IF poll = Polls THEN 1 ELSE poll + 1)
  /\ UNCHANGED <<world, deads, verdict, slow, late>>

\* Mutant: the bound is tested too late.
PastLastPoll == poll > Polls

LastPoll == poll = Polls

Sleep ==
  /\ pc = "sleep"
  /\ IF LastPoll THEN Exit("timeout")
     ELSE pc' = "curl" /\ poll' = poll + 1 /\ UNCHANGED <<deads, verdict>>
  /\ UNCHANGED <<world, slow, late>>

Loop == CurlAnswers \/ CurlFails \/ CheckLaunch \/ Sleep

Next == World \/ Loop \/ (pc = "done" /\ UNCHANGED vars)

\* The shell runs on; so does a launch that writes its PID.
Spec == Init /\ [][Next]_vars /\ WF_vars(Loop) /\ WF_vars(OpenPidfile) /\ WF_vars(WritePid)

-----------------------------------------------------------------------------
(* What the probe promises *)

\* converge.py:112-117: "Two consecutive dead observations are required so a no-op
\* --ensure ... is not mistaken for a crash when /health is momentarily slow": also
\* when the first one was that of an earlier launch's PID, or of an empty file.
CrashVerdictIsTrue ==
  verdict = "crashed" => /\ launch \in {"gone", "failed"}
                         /\ engine = "up" => slow >= 2

\* converge.py:112-114: "A start that crashed ... fails fast ... instead of polling a
\* dead port for the whole bound": at most two polls begin after the crash.
CrashFailsFast == late <= 2

\* converge.py:106-108: "a failed model start is surfaced as an apply failure instead
\* of the converge hanging".
ProbeEnds == <>(verdict # "none")
=============================================================================

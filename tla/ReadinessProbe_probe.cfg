CONSTANT ReadinessSeconds = 29
SPECIFICATION Spec
INVARIANTS TypeOK CrashVerdictIsTrue CrashFailsFast
PROPERTY ProbeEnds

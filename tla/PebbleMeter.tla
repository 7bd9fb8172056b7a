---------------------------- MODULE PebbleMeter ----------------------------
(***************************************************************************)
(* rfqdb/pebble: the counters the engine's compaction and write-stall      *)
(* events feed.  The engine is external and calls the event listeners one  *)
(* at a time.                                                              *)
(***************************************************************************)
EXTENDS Integers

CONSTANTS
  MaxTime,      \* bound on the clock
  NumCPU        \* MaxConcurrentCompactions

VARIABLES
  now,          \* the clock
  running,      \* compactions the engine is running
  activeComp, compStartTime, compTime,
  stalled, writeDelayStartTime, writeDelayTime,
  busy, slow    \* history: ticks spent compacting and stalled

compVars  == <<running, activeComp, compStartTime, compTime, busy>>
stallVars == <<stalled, writeDelayStartTime, writeDelayTime, slow>>
meterVars == <<now, compVars, stallVars>>

MeterInit ==
  /\ now = 0
  /\ running = 0 /\ activeComp = 0 /\ compStartTime = 0 /\ compTime = 0 /\ busy = 0
  /\ stalled = FALSE /\ writeDelayStartTime = 0 /\ writeDelayTime = 0 /\ slow = 0

----------------------------------------------------------------------------

\* Mutant of onCompactionBegin: every compaction restarts the clock.
onCompactionBeginRestarts ==
  /\ running < NumCPU /\ running' = running + 1
  /\ compStartTime' = now
  /\ activeComp' = activeComp + 1
  /\ UNCHANGED <<compTime, busy>>

onCompactionBegin ==
  /\ running < NumCPU /\ running' = running + 1
  /\ compStartTime' = IF activeComp = 0 THEN now ELSE compStartTime
  /\ activeComp' = activeComp + 1
  /\ UNCHANGED <<compTime, busy>>

\* With no active compaction it panics.
onCompactionEnd ==
  /\ running > 0 /\ running' = running - 1
  /\ compTime' = IF activeComp = 1 THEN compTime + (now - compStartTime) ELSE compTime
  /\ activeComp' = activeComp - 1
  /\ UNCHANGED <<compStartTime, busy>>

onWriteStallBegin ==
  /\ ~ stalled /\ stalled' = TRUE
  /\ writeDelayStartTime' = now
  /\ UNCHANGED <<writeDelayTime, slow>>

onWriteStallEnd ==
  /\ stalled /\ stalled' = FALSE
  /\ writeDelayTime' = writeDelayTime + (now - writeDelayStartTime)
  /\ UNCHANGED <<writeDelayStartTime, slow>>

Tick ==
  /\ now < MaxTime /\ now' = now + 1
  /\ busy' = IF running > 0 THEN busy + 1 ELSE busy
  /\ slow' = IF stalled THEN slow + 1 ELSE slow
  /\ UNCHANGED <<running, activeComp, compStartTime, compTime,
                 stalled, writeDelayStartTime, writeDelayTime>>

MeterNext ==
  \/ (onCompactionBegin \/ onCompactionEnd) /\ UNCHANGED <<now, stallVars>>
  \/ (onWriteStallBegin \/ onWriteStallEnd) /\ UNCHANGED <<now, compVars>>
  \/ Tick

MeterSpec == MeterInit /\ [][MeterNext]_meterVars

----------------------------------------------------------------------------
(* Properties *)

\* compTime counts every moment in which at least one compaction ran exactly
\* once, however compactions overlap; write stalls likewise.  This is what the
\* counter activeComp and the two start times are for.
MeteredTimeIsBusyTime ==
  /\ compTime + (IF activeComp > 0 THEN now - compStartTime ELSE 0) = busy
  /\ writeDelayTime + (IF stalled THEN now - writeDelayStartTime ELSE 0) = slow
=============================================================================

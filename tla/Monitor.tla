------------------------------ MODULE Monitor ------------------------------
(***************************************************************************)
(* monitor_remote (src/network.rs): one monitor task, the node it probes   *)
(* and the pid it was given.  The pid is looked up in, and stopped in, the *)
(* local runtime.  The back-off is kept as the number of times the delay   *)
(* was multiplied, up to the step at which it meets monitor_backoff_max.   *)
(***************************************************************************)
EXTENDS Integers

CONSTANTS Threshold,   \* monitor_failure_threshold
          MaxBackoff,  \* multiplications after which the delay is the maximum
          Flaky        \* TRUE: a probe of a live node may fail as well

ASSUME MonitorAssumption ==
  Threshold \in Nat /\ MaxBackoff \in Nat /\ Flaky \in BOOLEAN

VARIABLES
  step,      \* the monitor's step
  failures,  \* its local counter
  backoff,   \* its current delay
  valid,     \* is_alive(pid) in the local runtime
  open,      \* the pid has a mailbox in the local runtime
  up,        \* the node answers
  notified,  \* notify_exit(pid) was called
  streak     \* history: failed probes since the last success, up to Threshold + 1

monitorVars == <<step, failures, backoff, valid, open, up, notified, streak>>

Least(a, b) == IF a < b THEN a ELSE b

(* The pid may name a local actor or, as a pid of the remote node, none. *)
MonitorInit ==
  /\ step = "check" /\ failures = 0 /\ backoff = 0 /\ streak = 0
  /\ valid \in BOOLEAN /\ open = valid
  /\ up = TRUE /\ notified = FALSE

(* The head of the loop. *)
Check ==
  /\ step = "check"
  /\ step' = IF valid THEN "sleep" ELSE "end"
  /\ UNCHANGED <<failures, backoff, valid, open, up, notified, streak>>

Sleep ==
  /\ step = "sleep"
  /\ step' = "probe"
  /\ UNCHANGED <<failures, backoff, valid, open, up, notified, streak>>

(* mutant: a success does not reset the counter *)
ProbeOkNoReset ==
  /\ step = "probe" /\ up
  /\ step' = "check" /\ backoff' = 0 /\ streak' = 0
  /\ UNCHANGED <<failures, valid, open, up, notified>>

(* Connect, version, Ping and the answer 3, each within the I/O timeout. *)
ProbeOk ==
  /\ step = "probe" /\ up
  /\ step' = "check" /\ failures' = 0 /\ backoff' = 0 /\ streak' = 0
  /\ UNCHANGED <<valid, open, up, notified>>

Fail(limit, max) ==
  /\ step = "probe" /\ (~up \/ Flaky)
  /\ failures' = Least(failures + 1, Threshold + 1)
  /\ streak' = Least(streak + 1, Threshold + 1)
  /\ IF failures + 1 >= limit
     THEN step' = "stop" /\ UNCHANGED backoff
     ELSE step' = "check" /\ backoff' = Least(backoff + 1, max)
  /\ UNCHANGED <<valid, open, up, notified>>

(* mutant: the node is never given up *)
ProbeFailsOn == Fail(Threshold + 3, MaxBackoff)

(* A failed probe: back off, or give the node up. *)
ProbeFails == Fail(Threshold, MaxBackoff)

(* stop(pid) ... *)
StopPid ==
  /\ step = "stop"
  /\ open' = FALSE
  /\ step' = "notify"
  /\ UNCHANGED <<failures, backoff, valid, up, notified, streak>>

(* ... and supervisor().notify_exit(pid): see Supervisor. *)
Notify ==
  /\ step = "notify"
  /\ notified' = TRUE
  /\ step' = "end"
  /\ UNCHANGED <<failures, backoff, valid, open, up, streak>>

MonitorStep ==
  Check \/ Sleep \/ ProbeOk \/ ProbeFails \/ StopPid \/ Notify

(* The node goes down or comes back. *)
NodeFlips ==
  /\ up' = ~up
  /\ UNCHANGED <<step, failures, backoff, valid, open, notified, streak>>

(* The local actor ends, by itself or since it was stopped. *)
ActorEnds ==
  /\ valid
  /\ valid' = FALSE /\ open' = FALSE
  /\ UNCHANGED <<step, failures, backoff, up, notified, streak>>

MonitorNext == MonitorStep \/ NodeFlips \/ ActorEnds

MonitorSpec == MonitorInit /\ [][MonitorNext]_monitorVars

(* The task is polled, and every wait in it has a timeout. *)
MonitorFairSpec == MonitorSpec /\ WF_monitorVars(MonitorStep)
-----------------------------------------------------------------------------
(* A pid is stopped and reported only after that many probes in a row have *)
(* failed (lib.rs:236), however the node comes and goes in between.        *)
NotifiedAfterStreak == step \in {"stop", "notify"} \/ notified => streak >= Threshold

(* The monitor ends when its node stays down and when the pid is gone, so  *)
(* that there are no zombie monitors (network.rs:284); and it has told the *)
(* supervisor unless the pid was gone.                                     *)
MonitorEnds == (~valid \/ []~up) ~> (step = "end" /\ (notified \/ ~valid))
============================================================================

--------------------------- MODULE PaperExperiment ---------------------------
(***************************************************************************)
(* Controlled shadow and paper experiments (paper_experiment.py) around    *)
(* the loop of PaperRuntime.  run_experiment checks, writes the manifest   *)
(* of the experiment, loads the promoted pair, lets the loop run, which    *)
(* appends its decisions to the experiment's ledger poll by poll, and      *)
(* writes the manifest again.  The process may die at any step.  Another   *)
(* one may stop the experiment, which is a read and a write of the         *)
(* manifest.  At most one experiment runs at a time; ids never collide.   *)
(***************************************************************************)
EXTENDS PaperRuntime

CONSTANTS
    MaxRejections,      \* max_consecutive_rejections
    MaxExperiments      \* bound: experiments begun

ASSUME ExperimentAssumption == MaxRejections \in Nat /\ MaxExperiments \in Nat

VARIABLES
    liveBlocked,    \* config.live_blockers() is not empty, in the running process
    exp,            \* the experiment of the running process
    problem,        \* why it will be ABORTED, or "none"
    manifests,      \* the manifest files, in the order of their creation
    latest,         \* the one written last (newest mtime), or 0
    ledgers,        \* the decision ledger of each experiment
    stopping,       \* the manifest that stop() read as RUNNING, or 0
    stopped         \* history: experiments that stop() marked ABORTED

files == <<manifests, latest, ledgers>>
experimentVars == <<liveBlocked, exp, problem, files, stopping, stopped>>
vars == <<runtimeVars, experimentVars>>

Manifest == [mode : {"shadow", "paper"}, status : {"RUNNING", "COMPLETED", "ABORTED"},
             blocked : BOOLEAN]     \* what the preflight said of live_blockers

TypeOK ==
    /\ RuntimeTypeOK
    /\ liveBlocked \in BOOLEAN
    /\ problem \in {"none", "live_permitted", "not_promoted", "error"}
    /\ manifests \in Seq(Manifest)
    /\ ledgers \in [DOMAIN manifests -> Seq(Decisions)]
    /\ exp \in 0 .. Len(manifests) /\ latest \in 0 .. Len(manifests)
    /\ stopping \in 0 .. Len(manifests) /\ stopped \subseteq DOMAIN manifests
    /\ pc \in {"loading", "poll", "read", "gate", "sleep", "ending"} <=> exp # 0

Init ==
    /\ RuntimeInit
    /\ liveBlocked = TRUE
    /\ exp = 0 /\ problem = "none" /\ manifests = <<>> /\ latest = 0
    /\ ledgers = <<>> /\ stopping = 0 /\ stopped = {}

ForgetRun ==
    /\ pc' = "idle" /\ mode' = "shadow" /\ pollNow' = 0 /\ loopEnd' = 0
    /\ seen' = {} /\ batch' = <<>> /\ decided' = <<>> /\ decisions' = <<>>
    /\ trades' = [t \in Tickers |-> 0] /\ today' = 0 /\ lastEntry' = 0
    /\ problem' = "none" /\ liveBlocked' = TRUE

\* mutant: the manifest it held outlives the process
Forget_manifest == ForgetRun /\ UNCHANGED exp

\* The process is gone and with it everything it held in memory.
Forget == ForgetRun /\ exp' = 0
-----------------------------------------------------------------------------
(* run_experiment: checks, manifest, load.                                  *)

\* A manifest says COMPLETED or RUNNING: the shadow run may have died at once.
ShadowBefore ==
    \E i \in DOMAIN manifests :
        manifests[i].mode = "shadow" /\ manifests[i].status \in {"COMPLETED", "RUNNING"}

\* mutant: the preflight result is not consulted
MayRun_unchecked(m, blocked, promoted, ready, skip) == TRUE

\* preflight and the gates on its result.  ready: the sources are fresh and the
\* evidence reports exist.  Operators promote and demote meanwhile (PaperPromotion),
\* so that each look at the promotion may find it valid or not.  Shadow runs anyway.
MayRun(m, blocked, promoted, ready, skip) ==
    m = "paper" => blocked /\ promoted /\ ready /\ (skip \/ ShadowBefore)

CanBegin == pc = "idle" /\ Len(manifests) < MaxExperiments

NewManifest(m, blocked, status) ==
    /\ manifests' = Append(manifests, [mode |-> m, status |-> status, blocked |-> blocked])
    /\ ledgers' = Append(ledgers, <<>>)
    /\ latest' = Len(manifests) + 1

\* run_experiment under some configuration; what it may not run it refuses, with
\* a manifest that says ABORTED.
Begin(m) ==
    /\ CanBegin
    /\ \E blocked, promoted, ready, skip \in BOOLEAN :
          /\ MayRun(m, blocked, promoted, ready, skip)
          /\ liveBlocked' = blocked
    /\ pc' = "starting" /\ mode' = m
    /\ UNCHANGED <<world, pollNow, loopEnd, seen, batch, decided, decisions, tradeState,
                   exp, problem, files, stopping, stopped>>

Refuse(m) ==
    /\ CanBegin
    /\ \E blocked, promoted, ready, skip \in BOOLEAN :
          /\ ~MayRun(m, blocked, promoted, ready, skip)
          /\ NewManifest(m, blocked, "ABORTED")
    /\ UNCHANGED <<runtimeVars, liveBlocked, exp, problem, stopping, stopped>>

WriteRunning ==
    /\ pc = "starting"
    /\ NewManifest(mode, liveBlocked, "RUNNING")
    /\ exp' = Len(manifests) + 1 /\ pc' = "loading"
    /\ UNCHANGED <<world, run, liveBlocked, problem, stopping, stopped>>

\* _prepare_runtime reads the promotion again, and keeps what it read.  How long
\* the loop runs (minutes) is up to the caller.
Load ==
    /\ pc = "loading"
    /\ \/ /\ pc' = "poll" /\ \E end \in clock .. MaxTime : loopEnd' = end
          /\ UNCHANGED problem
       \/ /\ pc' = "ending" /\ problem' = "not_promoted"
          /\ UNCHANGED loopEnd
    /\ UNCHANGED <<world, mode, pollNow, seen, batch, decided, decisions, tradeState,
                   liveBlocked, exp, files, stopping, stopped>>
-----------------------------------------------------------------------------
(* The loop with its callbacks, and the end.                                *)

Loop ==
    /\ Poll \/ Read \/ Gate \/ Sleep
    /\ UNCHANGED experimentVars

\* mutant: all decisions so far are written, at every poll
Append_all == [ledgers EXCEPT ![exp] = @ \o decisions \o decided]
Append_poll == [ledgers EXCEPT ![exp] = @ \o decided]

\* on_decisions appends the poll's decisions to the ledger; abort_check follows.
ReportPoll ==
    /\ Report(~liveBlocked)
    /\ ledgers' = Append_poll
    /\ problem' = IF liveBlocked THEN problem ELSE "live_permitted"
    /\ UNCHANGED <<liveBlocked, exp, manifests, latest, stopping, stopped>>

\* _max_consecutive: the counter of decisions that are bad, one after the other,
\* and whether it ever went over the limit.
Streak(bad) ==
    LET streak[n \in 0 .. Len(decisions)] ==
            IF n = 0 THEN 0
            ELSE IF decisions[n] \in bad THEN streak[n - 1] + 1 ELSE 0
    IN  streak
TooMany(bad) == \E n \in DOMAIN decisions : Streak(bad)[n] > MaxRejections

\* An exception while loading or in the loop: what it had decided is lost to
\* abort_reasons, and the run is ABORTED.
Fail ==
    /\ pc \in {"loading", "read", "gate"}
    /\ pc' = "ending" /\ problem' = "error"
    /\ UNCHANGED <<world, run, liveBlocked, exp, files, stopping, stopped>>

\* mutant: only what the loop itself reported is looked at
MustAbort_loop == problem # "none"

\* abort_reasons, and what the loop reported.
MustAbort ==
    \/ problem # "none"
    \/ ~liveBlocked
    \/ TooMany({d \in ToSet(decisions) : d.state = "REJECTED"})
    \/ TooMany({d \in ToSet(decisions) : ~d.fresh})

\* _finalize writes the manifest it holds, whatever the file says by now.
Finalize ==
    /\ pc = "ending"
    /\ manifests' = [manifests EXCEPT ![exp].status =
                        IF MustAbort THEN "ABORTED" ELSE "COMPLETED"]
    /\ latest' = exp
    /\ Forget
    /\ UNCHANGED <<world, ledgers, stopping, stopped>>

Crash ==
    /\ pc # "idle"
    /\ Forget
    /\ UNCHANGED <<world, files, stopping, stopped>>
-----------------------------------------------------------------------------
(* Other processes.                                                         *)

\* stop(): read the manifest written last ...
StopReads ==
    /\ stopping = 0 /\ latest # 0 /\ manifests[latest].status = "RUNNING"
    /\ stopping' = latest
    /\ UNCHANGED <<runtimeVars, liveBlocked, exp, problem, files, stopped>>

\* ... and write it back.  The flag it also writes is read by nobody.
StopWrites ==
    /\ stopping # 0
    /\ manifests' = [manifests EXCEPT ![stopping].status = "ABORTED"]
    /\ latest' = stopping /\ stopping' = 0 /\ stopped' = stopped \cup {stopping}
    /\ UNCHANGED <<runtimeVars, liveBlocked, exp, problem, ledgers>>

Process == WriteRunning \/ Load \/ Loop \/ ReportPoll \/ Finalize

Next ==
    \/ Process \/ Fail \/ Crash \/ StopReads \/ StopWrites
    \/ \E m \in {"shadow", "paper"} : Begin(m) \/ Refuse(m)
    \/ ((Tick \/ \E t \in Tickers, k \in Kinds : Record(t, k))
           /\ UNCHANGED experimentVars)

Spec == Init /\ [][Next]_vars

\* The process runs, time passes and a stop command that was begun finishes;
\* nobody has to begin or stop an experiment or to record rows.
FairSpec ==
    /\ Spec /\ WF_vars(Process) /\ WF_vars(StopWrites)
    /\ WF_vars(Tick /\ UNCHANGED experimentVars)
-----------------------------------------------------------------------------
(* What an experiment promises.                                             *)

\* The ledger on disk is what the run has decided, once and in order, up to the
\* poll in progress; a crash costs that poll and nothing before it.
LedgerFaithful == exp # 0 => ledgers[exp] = decisions

\* A run whose configuration would permit live submission neither completes nor
\* leaves a paper candidate in its ledger, however it was begun and wherever it
\* ended (preflight's live checks, abort_reasons).
LiveStopsEverything ==
    \A i \in DOMAIN manifests : ~manifests[i].blocked =>
        /\ manifests[i].status # "COMPLETED"
        /\ \A j \in DOMAIN ledgers[i] : ledgers[i][j].state # Candidate

\* A completed experiment did not go on through more than MaxRejections rejected
\* or stale decisions in a row: the ledger it left shows none (abort_reasons).
CompletedIsSound ==
    \A i \in DOMAIN manifests : manifests[i].status = "COMPLETED" =>
        ~ \E from \in DOMAIN ledgers[i] :
              /\ from + MaxRejections <= Len(ledgers[i])
              /\ \/ \A j \in from .. from + MaxRejections : ledgers[i][j].state = "REJECTED"
                 \/ \A j \in from .. from + MaxRejections : ~ledgers[i][j].fresh

\* "SHADOW never emits a candidate or fills" (run_live_shadow): none is in the
\* ledger of any shadow experiment, and a shadow run uses up no cap.
ShadowIsHarmless ==
    /\ \A i \in DOMAIN manifests : manifests[i].mode = "shadow" =>
          \A j \in DOMAIN ledgers[i] : ledgers[i][j].state # Candidate
    /\ mode = "shadow" => today = 0 /\ lastEntry = 0

\* Every process that runs an experiment comes to its end, whatever the rows and
\* the operators do.
RunsEnd == pc # "idle" ~> pc = "idle"

\* "mark the latest RUNNING experiment ABORTED (controlled stop)" (stop): once
\* that was done, the experiment stays ABORTED.
StoppedStaysAborted ==
    \A i \in stopped : manifests[i].status = "ABORTED"
=============================================================================

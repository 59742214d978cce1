--------------------------- MODULE PaperPromotion ---------------------------
(***************************************************************************)
(* The PAPER-only promotion of a model and its calibrator, and the swap of *)
(* the calibrator under a promoted model (paper_promotion.py and           *)
(* paper_calibrator_swap.py).  Several command-line processes work on one  *)
(* directory with no lock and no transaction: every file they write is a   *)
(* step, and a process may die between any two steps.  The readers (shadow *)
(* and paper runs) trust nothing but the manifest and what it pins.        *)
(*                                                                         *)
(* A staged artifact is named by its index in `staged` (creation order is  *)
(* the order of modification times); a promoted copy by what its file name *)
(* is made of, a kind, a series and a wall-clock second; the SHA-256 of a  *)
(* copy is a number no other copy has, since each copy is stamped with a   *)
(* microsecond time.  Commands that refuse, and dry runs, write only an    *)
(* audit line and are not steps.  An explicit --model or --calibrator path *)
(* names a staged artifact, and every artifact carries its model_name.     *)
(***************************************************************************)
EXTENDS Naturals, Sequences, SequencesExt

CONSTANTS
    Operators,      \* the command-line processes that may run at a time
    Series,         \* the contract series; all of them share one manifest
    Families,       \* model_name values
    Candidates,     \* kinds of replacement calibrator (CANDIDATE_PATTERNS)
    OncePerSecond,  \* no two files of one name are asked for within a second
    MayLoseBackups, \* somebody may delete a pre-swap backup
    FirstStaged,    \* what the staged directory holds at the start
    Stageable,      \* the artifacts training and the reviews may produce
    MaxStaged, MaxCopies, MaxTime     \* bounds

VARIABLES
    staged,     \* data/models/staged, oldest first; never rewritten
    disk,       \* data/models/paper_promoted/*.pkl: file name -> content
    backups,    \* second -> content of ...manifest.preswap-<second>.json
    manifest,   \* kalshi_paper_promotion_manifest.json
    op,         \* what each command-line process is in the middle of
    now,        \* the wall clock, in seconds: the grain of _ts()
    copies,     \* copies made so far (the source of fresh SHA-256 values)
    vetted,     \* history: <<model, calibrator>> sources a review let through
    replaced    \* history: what the swaps in force put aside, innermost last
vars == <<staged, disk, backups, manifest, op, now, copies, vetted, replaced>>

Roles == {"model", "calibrator"} \cup Candidates
\* fit: TRADABLE and non-diagnostic (a model), "calibrated" and not
\* NON_TRADABLE_DIAGNOSTIC_ONLY (a calibrator). safer: its metrics pass
\* candidate_eligibility.
Artifacts == [role: Roles, family: Families, fit: BOOLEAN, safer: BOOLEAN]
\* A replacement candidate is always built with tradable=False.
ASSUME PromotionAssumption ==
    /\ OncePerSecond \in BOOLEAN /\ MayLoseBackups \in BOOLEAN
    /\ Candidates \cap {"model", "calibrator"} = {}
    /\ FirstStaged \in Seq(Artifacts) /\ Stageable \subseteq Artifacts
    /\ \A a \in Stageable : a.role \in Candidates => ~a.fit
    /\ MaxStaged \in Nat /\ MaxCopies \in Nat /\ MaxTime \in Nat

Files == [kind: Roles, series: Series, second: Nat]
Copied == [source: Nat, fit: BOOLEAN, family: Families, sha: Nat]

Absent == [status |-> "absent"]
Torn == [status |-> "torn"]     \* write_text has truncated it, or died there
NoFile == [kind |-> "none"]
Manifests ==
    [status: {"written"}, series: Series, family: Families,
     model: Files, modelSha: Nat, cal: Files, calSha: Nat,
     swapped: BOOLEAN, backup: Nat, prevCal: Files \cup {NoFile}, prevSha: Nat]

Idle == [step |-> "idle"]
CurrentSteps == {"copyModel", "copyCal", "backup", "copySwap", "build",
                 "truncate", "fill"}
Contents == Manifests \cup {Absent, Torn}
Commands ==
    [step: CurrentSteps, kind: {"promote", "swap", "rollback"}, series: Series,
     model: Nat, cal: Nat, modelFile: Files \cup {NoFile},
     calFile: Files \cup {NoFile}, second: Nat, base: Contents, draft: Contents]

\* What a command holds is there: the sources it reviewed, the copies it made.
Grounded(c) ==
    /\ c.kind = "promote" =>
         /\ c.model \in DOMAIN staged /\ c.cal \in DOMAIN staged
         /\ c.step \in {"copyCal", "build"} => c.modelFile \in DOMAIN disk
         /\ c.step = "build" => c.calFile \in DOMAIN disk
    /\ c.kind = "swap" =>
         /\ c.cal \in DOMAIN staged /\ c.base \in Manifests
         /\ c.step = "build" => c.calFile \in DOMAIN disk

TypeOK ==
    /\ staged \in Seq(Artifacts)
    /\ DOMAIN disk \subseteq Files /\ disk = [f \in DOMAIN disk |-> disk[f]]
    /\ \A f \in DOMAIN disk : disk[f] \in Copied
    /\ DOMAIN backups \subseteq Nat
    /\ backups = [t \in DOMAIN backups |-> backups[t]]
    /\ \A t \in DOMAIN backups : backups[t] \in Contents
    /\ manifest \in Contents
    /\ op \in [Operators -> Commands \cup {Idle}]
    /\ \A p \in Operators : op[p] # Idle => Grounded(op[p])
    /\ now \in Nat /\ copies \in Nat
    /\ vetted \subseteq Nat \X Nat
    /\ replaced \in Seq(Manifests)

StagedFirst(artifacts) ==
    /\ staged = artifacts /\ disk = <<>> /\ backups = <<>> /\ manifest = Absent
    /\ op = [p \in Operators |-> Idle]
    /\ now = 1 /\ copies = 0 /\ vetted = {} /\ replaced = <<>>
Init == StagedFirst(FirstStaged)
-----------------------------------------------------------------------------
Put(f, x, v) == [y \in DOMAIN f \cup {x} |-> IF y = x THEN v ELSE f[y]]

IsIdle(p) == op[p] = Idle
At(p, kind, step) == op[p] # Idle /\ op[p].kind = kind /\ op[p].step = step

\* A reader that trusts the file names of the manifest without their hashes.
Valid_noHash(series) ==
    /\ manifest.status = "written" /\ manifest.series = series
    /\ manifest.model \in DOMAIN disk /\ manifest.cal \in DOMAIN disk
    /\ disk[manifest.model].fit /\ disk[manifest.cal].fit

\* load_active_promotion: the manifest parses, is of this series, the files it
\* names are there with the bytes it pins, promoted and not diagnostic.
Valid(series) ==
    /\ manifest.status = "written" /\ manifest.series = series
    /\ manifest.model \in DOMAIN disk /\ manifest.cal \in DOMAIN disk
    /\ disk[manifest.model].sha = manifest.modelSha
    /\ disk[manifest.cal].sha = manifest.calSha
    /\ disk[manifest.model].fit /\ disk[manifest.cal].fit

Newest(I) == IF I = {} THEN 0 ELSE CHOOSE i \in I : \A j \in I : j <= i
LatestCandidate(c) == Newest({i \in DOMAIN staged : staged[i].role = c})

\* Training, calibration and the replacement review put artifacts into the
\* staged directory.
Stage(a) ==
    /\ staged' = Append(staged, a)
    /\ UNCHANGED <<disk, backups, manifest, op, now, copies, vetted, replaced>>

Command(kind, step, series, m, c) ==
    [step |-> step, kind |-> kind, series |-> series, model |-> m, cal |-> c,
     modelFile |-> NoFile, calFile |-> NoFile, second |-> 0,
     base |-> manifest, draft |-> Absent]

\* review_promotion finds no blocker, with --write. (The gate window count and
\* the four evidence reports may block any review; a refusal is no step.)
PromotionEligible(m, c) ==
    /\ staged[m].role = "model" /\ staged[m].fit
    /\ staged[c].role # "model" /\ staged[c].fit
    /\ staged[m].family = staged[c].family

\* A promotion that retires the one in force before it has copied anything.
PromoteReview_retiresFirst(p, series, m, c) ==
    /\ IsIdle(p)
    /\ PromotionEligible(m, c)
    /\ op' = [op EXCEPT ![p] = Command("promote", "copyModel", series, m, c)]
    /\ vetted' = vetted \cup {<<m, c>>} /\ manifest' = Absent
    /\ UNCHANGED <<staged, disk, backups, now, copies, replaced>>

PromoteReview(p, series, m, c) ==
    /\ IsIdle(p)
    /\ PromotionEligible(m, c)
    /\ op' = [op EXCEPT ![p] = Command("promote", "copyModel", series, m, c)]
    /\ vetted' = vetted \cup {<<m, c>>}
    /\ UNCHANGED <<staged, disk, backups, manifest, now, copies, replaced>>

\* _copy_stamped keeps the source's calibration status and diagnostic flag.
Stamped(i) ==
    [source |-> i, fit |-> staged[i].fit, family |-> staged[i].family,
     sha |-> copies + 1]
\* _copy_calibrator_stamped overrides them.
Recalibrated(i) ==
    [source |-> i, fit |-> TRUE, family |-> staged[i].family, sha |-> copies + 1]

Write(file, content) ==
    /\ disk' = Put(disk, file, content)
    /\ copies' = copies + 1

\* Both names are formed here, before the first copy is made. (That a second
\* may end between the two is left out: their kinds differ.)
CopyModel(p) ==
    /\ At(p, "promote", "copyModel")
    /\ LET file == [kind |-> "model", series |-> op[p].series, second |-> now]
       IN  /\ Write(file, Stamped(op[p].model))
           /\ op' = [op EXCEPT ![p].modelFile = file, ![p].second = now,
                               ![p].step = "copyCal"]
    /\ UNCHANGED <<staged, backups, manifest, now, vetted, replaced>>

CopyCalibrator(p) ==
    /\ At(p, "promote", "copyCal")
    /\ LET file == [kind |-> "calibrator", series |-> op[p].series,
                    second |-> op[p].second]
       IN  /\ Write(file, Stamped(op[p].cal))
           /\ op' = [op EXCEPT ![p].calFile = file, ![p].step = "build"]
    /\ UNCHANGED <<staged, backups, manifest, now, vetted, replaced>>

\* _build_manifest hashes the copies as they are on disk by now.
BuildPromotion(p) ==
    /\ At(p, "promote", "build")
    /\ op' = [op EXCEPT
         ![p].step = "truncate",
         ![p].draft = [status |-> "written", series |-> op[p].series,
             family |-> staged[op[p].model].family,
             model |-> op[p].modelFile, modelSha |-> disk[op[p].modelFile].sha,
             cal |-> op[p].calFile, calSha |-> disk[op[p].calFile].sha,
             swapped |-> FALSE, backup |-> 0, prevCal |-> NoFile,
             prevSha |-> 0]]
    /\ UNCHANGED <<staged, disk, backups, manifest, now, copies, vetted, replaced>>
-----------------------------------------------------------------------------
\* swap_write: the promotion in force is valid and the newest candidate of the
\* kind is of the promoted model's family and safer by its own metrics.
SwapReview(p, series, c) ==
    /\ IsIdle(p)
    /\ Valid(series)
    /\ LatestCandidate(c) # 0
    /\ LET a == staged[LatestCandidate(c)]
       IN  a.family = manifest.family /\ a.safer
    /\ op' = [op EXCEPT ![p] =
                Command("swap", "backup", series, 0, LatestCandidate(c))]
    /\ vetted' = vetted
         \cup {<<disk[manifest.model].source, LatestCandidate(c)>>}
    /\ UNCHANGED <<staged, disk, backups, manifest, now, copies, replaced>>

\* A swap that does not overwrite the backup it finds under its name.
BackUp_once(p) ==
    /\ At(p, "swap", "backup")
    /\ IF manifest = Absent
       THEN op' = [op EXCEPT ![p] = Idle] /\ UNCHANGED backups
       ELSE /\ backups' = IF now \in DOMAIN backups THEN backups
                          ELSE Put(backups, now, manifest)
            /\ op' = [op EXCEPT ![p].second = now, ![p].step = "copySwap"]
    /\ UNCHANGED <<staged, disk, manifest, now, copies, vetted, replaced>>

\* shutil.copyfile raises, and the command dies, if a demotion came first.
BackUp(p) ==
    /\ At(p, "swap", "backup")
    /\ IF manifest = Absent
       THEN op' = [op EXCEPT ![p] = Idle] /\ UNCHANGED backups
       ELSE /\ backups' = Put(backups, now, manifest)
            /\ op' = [op EXCEPT ![p].second = now, ![p].step = "copySwap"]
    /\ UNCHANGED <<staged, disk, manifest, now, copies, vetted, replaced>>

CopyCandidate(p) ==
    /\ At(p, "swap", "copySwap")
    /\ LET file == [kind |-> staged[op[p].cal].role, series |-> op[p].series,
                    second |-> op[p].second]
       IN  /\ Write(file, Recalibrated(op[p].cal))
           /\ op' = [op EXCEPT ![p].calFile = file, ![p].step = "build"]
    /\ UNCHANGED <<staged, backups, manifest, now, vetted, replaced>>

\* A swap that edits the manifest there is by now, and one that keeps the
\* first backup of a chain of swaps.
BuildSwap_onCurrent(p) ==
    /\ At(p, "swap", "build") /\ manifest.status = "written"
    /\ op' = [op EXCEPT
         ![p].step = "truncate",
         ![p].draft = [manifest EXCEPT
             !.cal = op[p].calFile, !.calSha = disk[op[p].calFile].sha,
             !.swapped = TRUE, !.backup = op[p].second,
             !.prevCal = manifest.cal, !.prevSha = manifest.calSha]]
    /\ UNCHANGED <<staged, disk, backups, manifest, now, copies, vetted, replaced>>
BuildSwap_firstBackup(p) ==
    /\ At(p, "swap", "build")
    /\ op' = [op EXCEPT
         ![p].step = "truncate",
         ![p].draft = [op[p].base EXCEPT
             !.cal = op[p].calFile, !.calSha = disk[op[p].calFile].sha,
             !.swapped = TRUE,
             !.backup = IF op[p].base.swapped THEN op[p].base.backup
                        ELSE op[p].second,
             !.prevCal = op[p].base.cal, !.prevSha = op[p].base.calSha]]
    /\ UNCHANGED <<staged, disk, backups, manifest, now, copies, vetted, replaced>>

\* build_swap_manifest starts from the manifest read by the review.
BuildSwap(p) ==
    /\ At(p, "swap", "build")
    /\ op' = [op EXCEPT
         ![p].step = "truncate",
         ![p].draft = [op[p].base EXCEPT
             !.cal = op[p].calFile, !.calSha = disk[op[p].calFile].sha,
             !.swapped = TRUE, !.backup = op[p].second,
             !.prevCal = op[p].base.cal, !.prevSha = op[p].base.calSha]]
    /\ UNCHANGED <<staged, disk, backups, manifest, now, copies, vetted, replaced>>

\* What swap_rollback would write: the backup, or else the previous fields.
Restoration ==
    IF manifest.backup \in DOMAIN backups THEN backups[manifest.backup]
    ELSE [manifest EXCEPT !.cal = manifest.prevCal, !.calSha = manifest.prevSha,
                          !.swapped = FALSE]
\* A rollback that does not ask whether there is anything to roll back.
CanRestore_unasked == manifest.status = "written"
CanRestore ==
    /\ manifest.status = "written" /\ manifest.swapped
    /\ manifest.backup \in DOMAIN backups \/ manifest.prevCal \in DOMAIN disk

Rollback(p, series) ==
    /\ IsIdle(p)
    /\ CanRestore
    /\ op' = [op EXCEPT ![p] = [Command("rollback", "truncate", series, 0, 0)
                                  EXCEPT !.draft = Restoration]]
    /\ UNCHANGED <<staged, disk, backups, manifest, now, copies, vetted, replaced>>
-----------------------------------------------------------------------------
\* Path.write_text and shutil.copyfile: truncate, then write.
TruncateManifest(p) ==
    /\ ~IsIdle(p) /\ op[p].step = "truncate"
    /\ manifest' = Torn
    /\ op' = [op EXCEPT ![p].step = "fill"]
    /\ UNCHANGED <<staged, disk, backups, now, copies, vetted, replaced>>

FillManifest(p) ==
    /\ ~IsIdle(p) /\ op[p].step = "fill"
    /\ manifest' = op[p].draft
    /\ op' = [op EXCEPT ![p] = Idle]
    /\ replaced' = CASE op[p].kind = "promote" -> <<>>
                     [] op[p].kind = "swap" -> Append(replaced, op[p].base)
                     [] op[p].kind = "rollback" ->
                          IF replaced = <<>> THEN <<>> ELSE Front(replaced)
    /\ UNCHANGED <<staged, disk, backups, now, copies, vetted>>

\* demote renames the manifest away, whatever series it is of.
Demote(p) ==
    /\ IsIdle(p) /\ manifest # Absent
    /\ manifest' = Absent /\ replaced' = <<>>
    /\ UNCHANGED <<staged, disk, backups, op, now, copies, vetted>>

\* The process is killed, or an I/O error ends it.
Crash(p) ==
    /\ ~IsIdle(p)
    /\ op' = [op EXCEPT ![p] = Idle]
    /\ UNCHANGED <<staged, disk, backups, manifest, now, copies, vetted, replaced>>

\* External: clean-up by hand, for which swap_rollback has its second branch.
LoseBackup(t) ==
    /\ backups' = [u \in DOMAIN backups \ {t} |-> backups[u]]
    /\ UNCHANGED <<staged, disk, manifest, op, now, copies, vetted, replaced>>

Tick ==
    /\ now' = now + 1
    /\ UNCHANGED <<staged, disk, backups, manifest, op, copies, vetted, replaced>>

Step ==
    \/ \E a \in Stageable : Stage(a)
    \/ \E p \in Operators :
         \/ \E s \in Series, m, c \in DOMAIN staged : PromoteReview(p, s, m, c)
         \/ CopyModel(p) \/ CopyCalibrator(p) \/ BuildPromotion(p)
         \/ \E s \in Series, c \in Candidates : SwapReview(p, s, c)
         \/ BackUp(p) \/ CopyCandidate(p) \/ BuildSwap(p)
         \/ \E s \in Series : Rollback(p, s)
         \/ TruncateManifest(p) \/ FillManifest(p) \/ Demote(p) \/ Crash(p)
    \/ Tick
Lose == \E t \in DOMAIN backups : LoseBackup(t)

\* No copy and no backup replaces another of its name.
NamesOnce ==
    /\ \A f \in DOMAIN disk : disk'[f] = disk[f]
    /\ \A t \in DOMAIN backups : backups'[t] = backups[t]
\* Bounds: artifacts staged, copies made when a review lets one more be made, time.
Within(artifacts, made, time) ==
    /\ Len(staged') <= artifacts /\ now' <= time
    /\ (\E p \in Operators : IsIdle(p) /\ op'[p].step \in {"copyModel", "backup"})
          => copies < made
\* One command at a time: a single operator has one, the others may only demote.
One == CHOOSE p \in Operators : TRUE
Alone == \A p \in Operators : p # One => op'[p] = Idle

Next ==
    \/ Step /\ Within(MaxStaged, MaxCopies, MaxTime) /\ (OncePerSecond => NamesOnce)
    \/ MayLoseBackups /\ Lose

Spec == Init /\ [][Next]_vars
-----------------------------------------------------------------------------
\* Whatever load_active_promotion would hand to a shadow or paper run is a
\* copy of a pair that one and the same review let through: commands that are
\* interrupted, interleaved or repeated never pair a model with a calibrator
\* nobody reviewed for it ("A calibrator must match the model it was fit on").
ServedPairVetted ==
    \A s \in Series : Valid(s) =>
        <<disk[manifest.model].source, disk[manifest.cal].source>> \in vetted

\* Why: the files a manifest names, in force, backed up or in preparation, are
\* there, and are copies of a pair some review let through. This is inductive
\* when no file name is asked for twice within a second.
Vet(f, g) ==
    /\ f \in DOMAIN disk /\ g \in DOMAIN disk
    /\ <<disk[f].source, disk[g].source>> \in vetted
Sound(m) ==
    m.status = "written" =>
        /\ Vet(m.model, m.cal)
        /\ m.swapped => Vet(m.model, m.prevCal)
CopyOf(f, i) == f \in DOMAIN disk /\ disk[f].source = i
SoundPromotion(c) ==
    c.kind = "promote" =>
        /\ <<c.model, c.cal>> \in vetted
        /\ c.step \in {"copyCal", "build"} => CopyOf(c.modelFile, c.model)
        /\ c.step = "build" => CopyOf(c.calFile, c.cal)
SoundSwap(c) ==
    c.kind = "swap" =>
        /\ c.base.status = "written"
        /\ <<disk[c.base.model].source, c.cal>> \in vetted
        /\ c.step = "build" => CopyOf(c.calFile, c.cal)
SoundCommand(c) ==
    c # Idle => Sound(c.base) /\ Sound(c.draft)
                 /\ SoundPromotion(c) /\ SoundSwap(c)
OnlyVettedPairs ==
    /\ Sound(manifest)
    /\ \A t \in DOMAIN backups : Sound(backups[t])
    /\ \A p \in Operators : SoundCommand(op[p])

\* The command p has prepared its manifest and is overwriting the one there.
Replacing(p) == ~IsIdle(p) /\ op[p].step \in {"truncate", "fill"}

\* A promotion in force stays loadable until a command that has finished its
\* preparations replaces the manifest, or an operator demotes it: preparing the
\* next promotion or swap, or dying while doing so, does not disturb it.
StaysUntilReplaced ==
    \A s \in Series : Valid(s) /\ ~Valid(s)' =>
        \/ \E p \in Operators : Replacing(p)
        \/ manifest' = Absent /\ op' = op
ValidUntilReplaced == [][StaysUntilReplaced]_vars

\* A swap and a rollback leave the promoted model as it was when the command
\* read the manifest ("preserving the promoted MODEL backbone"), as long as no
\* other command runs: a promotion that comes between a swap's review and its
\* backup is what the rollback of that swap brings back.
KeepsModel ==
    \A p \in Operators :
        (/\ ~IsIdle(p) /\ op[p].step = "fill" /\ op[p].kind # "promote"
         /\ op'[p] # op[p] /\ manifest' # manifest)
        => /\ manifest'.model = op[p].base.model
           /\ manifest'.modelSha = op[p].base.modelSha

\* What matters of a manifest to its readers and to the next rollback.
InForce(m) == <<m.series, m.model, m.modelSha, m.cal, m.calSha, m.swapped>>

\* "Every write is reversible": while swaps are in force and no command runs, a
\* rollback is possible and brings back what the latest of them put aside, with
\* the swaps below it still marked as such, so that they can be undone in turn.
CanUndo ==
    (replaced # <<>> /\ manifest.status = "written"
       /\ \A p \in Operators : IsIdle(p))
    => CanRestore /\ InForce(Restoration) = InForce(Last(replaced))

-----------------------------------------------------------------------------
(* The inductive invariants of a single operator, for whom names may clash. *)

\* Whatever now has these hashes is a pair that was let through.
HashVetted(modelSha, calSha) ==
    \A f, g \in DOMAIN disk : disk[f].sha = modelSha /\ disk[g].sha = calSha
        => <<disk[f].source, disk[g].source>> \in vetted
SoundByHash(m) ==
    m.status = "written" =>
        /\ {m.modelSha, m.calSha, m.prevSha} \subseteq 0 .. copies
        /\ HashVetted(m.modelSha, m.calSha) /\ HashVetted(m.modelSha, m.prevSha)
CommandSoundByHash(c) ==
    c # Idle =>
        /\ SoundByHash(c.base) /\ SoundByHash(c.draft) /\ SoundPromotion(c)
        /\ (c.kind = "promote" /\ c.step \in {"copyCal", "build"})
              => c.modelFile.kind = "model"
        /\ c.kind = "swap" =>
             /\ c.base.status = "written"
             /\ \A f \in DOMAIN disk : disk[f].sha = c.base.modelSha
                  => <<disk[f].source, c.cal>> \in vetted
             /\ c.step = "build" => CopyOf(c.calFile, c.cal)
OnlyVettedHashes ==
    /\ \A f \in DOMAIN disk : disk[f].sha \in 1 .. copies
    /\ \A f, g \in DOMAIN disk : disk[f].sha = disk[g].sha => f = g
    /\ SoundByHash(manifest)
    /\ \A t \in DOMAIN backups : SoundByHash(backups[t])
    /\ \A p \in Operators : CommandSoundByHash(op[p])

\* A swap's backup, if it is there, is of the same model; and it is no younger
\* than what it was made for.
SameModel(m, n) == m.model = n.model /\ m.modelSha = n.modelSha
Backed(m) ==
    (m.status = "written" /\ m.swapped /\ m.backup \in DOMAIN backups)
    => backups[m.backup].status = "written" /\ SameModel(backups[m.backup], m)
CommandKeepsModel(c) ==
    /\ c.kind # "promote" =>
         /\ c.base.status = "written" /\ Backed(c.base) /\ c.base.backup <= now
         /\ c.step \in {"truncate", "fill"} => SameModel(c.draft, c.base)
    /\ c.kind = "swap" =>
         /\ c.step = "backup" => manifest \in {c.base, Absent}
         /\ c.step # "backup" =>
              /\ c.second <= now
              /\ c.second \in DOMAIN backups =>
                   /\ backups[c.second].status = "written"
                   /\ SameModel(backups[c.second], c.base)
    /\ c.step \in {"truncate", "fill"} =>
         c.draft.status = "written" /\ Backed(c.draft) /\ c.draft.backup <= now
ModelsAreKept ==
    /\ \A t \in DOMAIN backups :
         /\ t <= now /\ backups[t].status = "written" /\ backups[t].backup <= t
         /\ Backed(backups[t])
    /\ Backed(manifest) /\ (manifest.status = "written" => manifest.backup <= now)
    /\ \A p \in Operators : ~IsIdle(p) => CommandKeepsModel(op[p])

\* Each swap in force finds what it put aside in its backup.
Undoes(m, n) ==
    m.swapped /\ m.backup \in DOMAIN backups /\ backups[m.backup] = n
Linked(m) ==
    replaced # <<>> =>
        /\ Undoes(m, Last(replaced))
        /\ \A i \in 1 .. Len(replaced) - 1 : Undoes(replaced[i + 1], replaced[i])
CommandCanBeUndone(c) ==
    /\ c.kind # "promote" => c.base.status = "written" /\ Linked(c.base)
    /\ c.kind = "swap" =>
         /\ c.step = "backup" => manifest \in {c.base, Absent}
         /\ c.step # "backup" => c.second \in DOMAIN backups /\ backups[c.second] = c.base
         /\ c.step \in {"truncate", "fill"} =>
              c.draft.swapped /\ c.draft.backup = c.second
    /\ c.kind = "rollback" => (replaced # <<>> => c.draft = Last(replaced))
SwapsAreLinked ==
    /\ manifest.status = "written" => Linked(manifest)
    /\ \A p \in Operators : ~IsIdle(p) => CommandCanBeUndone(op[p])

OthersIdle == \A p \in Operators : p # One => IsIdle(p)
-----------------------------------------------------------------------------
\* "Diagnostic-only or uncalibrated artifacts cannot be promoted": what is
\* served was fit when it was staged. A swap stamps a diagnostic candidate.
ServedWasFit ==
    \A s \in Series : Valid(s) =>
        /\ staged[disk[manifest.model].source].fit
        /\ staged[disk[manifest.cal].source].fit
=============================================================================
